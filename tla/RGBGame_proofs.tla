--------------------------- MODULE RGBGame_proofs ---------------------------
(***************************************************************************)
(* The game implements the active object, for every queue size, wave       *)
(* length and number of touches, so that what ActiveModule_proofs shows of *)
(* active objects holds of it; its leds are started before it leaves       *)
(* stInit; and every variable keeps its type, the count-down of stConfig   *)
(* its bounds.                                                             *)
(***************************************************************************)
EXTENDS RGBGame, SequenceTheorems, TLAPS

\* What is known of every active object.
P == INSTANCE ActiveModule_proofs WITH StInit <- "Init"

\* The parameters RGBGame gives to ActiveModule are admissible.
LEMMA MachineAssumption == M!ActiveModuleAssumption
  BY RGBGameAssumption
     DEF M!ActiveModuleAssumption, M!Event, M!SysEvent, State, UserEvent, Moves

\* Every step of the game is a step of the machine or leaves it alone.
LEMMA StepImplements == [Next]_vars => [M!Next]_(M!vars)
<1> SUFFICES ASSUME [Next]_vars PROVE M!Next \/ UNCHANGED machine
  BY DEF M!vars, machine
<1>1. ASSUME NEW b \in {"pub", "sub"}, SetBase(b) PROVE M!Next
  BY <1>1 DEF SetBase, M!Next
<1>2. CASE Start
  BY <1>2 DEF Start, M!Next
<1>3. CASE GameThread
  <2>1. CASE GetMessage
    BY <2>1 DEF GetMessage, M!Next
  <2>2. CASE GetTimeout
    BY <2>2 DEF GetTimeout, M!Next
  <2>3. CASE DoLocal \/ DoTimedOut \/ DoShared \/ DoThread
    BY <2>3 DEF DoLocal, DoTimedOut, DoShared, DoThread
  <2>4. CASE DoTran
    BY <2>4 DEF DoTran, M!Next
  <2>5. CASE Return
    BY <2>5 DEF Return, M!Next
  <2> QED
    BY <1>3, <2>1, <2>2, <2>3, <2>4, <2>5 DEF GameThread
<1>4. CASE EffectsThread
  <2>1. CASE FxPost
    <3>1. "EffectCycle" \in UserEvent /\ "EffectEnd" \in UserEvent
      BY DEF UserEvent
    <3> QED
      BY <2>1, <3>1 DEF FxPost, M!Next
  <2>2. CASE FxWake \/ FxFlags \/ FxRun \/ FxHead \/ FxPoint \/ FxDecrement \/ FxResume
    BY <2>2 DEF FxWake, FxFlags, FxRun, FxHead, FxPoint, FxDecrement, FxResume
  <2> QED
    BY <1>4, <2>1, <2>2 DEF EffectsThread
<1>5. ASSUME NEW value \in {TouchedEvent, ReleasedEvent}, TouchMessage(value)
      PROVE  M!Next \/ UNCHANGED machine
  <2>1. "TouchPress" \in UserEvent
    BY DEF UserEvent
  <2> QED
    BY <1>5, <2>1 DEF TouchMessage, M!Next
<1>6. CASE TimerExpires
  <2>1. "GameTimed" \in UserEvent
    BY DEF UserEvent
  <2> QED
    BY <1>6, <2>1 DEF TimerExpires, M!Next
<1>7. CASE UNCHANGED vars
  BY <1>7 DEF vars
<1> QED
  BY <1>1, <1>2, <1>3, <1>4, <1>5, <1>6, <1>7 DEF Next

\* The game is an active object.
THEOREM GameIsActiveModule == Spec => MachineSpec
<1>1. Init => M!Init
  BY DEF Init
<1> QED
  BY <1>1, StepImplements, PTL DEF Spec, MachineSpec, M!Spec

\* P and M are the same module: their definitions expand to the same formulas.
LEMMA SameMachine ==
  /\ M!Init <=> P!Init
  /\ [M!Next]_(M!vars) <=> [P!Next]_(P!vars)
  /\ M!TransitionDriven <=> P!TransitionDriven
<1>1. M!Init <=> P!Init
  BY DEF M!Init, P!Init
<1>2. M!vars = P!vars
  BY DEF M!vars, P!vars
<1>3. M!Next <=> P!Next
  BY DEF M!Next, M!SetBase, M!Start, M!Post, M!Get, M!GetTimeout, M!DispatchEntry,
         M!DispatchExit, M!DispatchUser, M!Raise, M!Put, M!Full, M!Open, M!NextState,
         M!Handle, M!Tran, M!TimedEvent,
         P!Next, P!SetBase, P!Start, P!Post, P!Get, P!GetTimeout, P!DispatchEntry,
         P!DispatchExit, P!DispatchUser, P!Raise, P!Put, P!Full, P!Open, P!NextState,
         P!Handle, P!Tran, P!TimedEvent
<1>4. M!TransitionDriven <=> P!TransitionDriven
  BY DEF M!TransitionDriven, P!TransitionDriven, M!Pending, P!Pending
<1> QED
  BY <1>1, <1>2, <1>3, <1>4 DEF M!vars, P!vars

\* Hence no transition of the game is ever forgotten: while stConfig, stGame or
\* stWait has been asked for, EV_EXIT is on its way, unless the queue was full.
THEOREM GameDriven == Spec => []M!TransitionDriven
<1>1. P!ActiveModuleAssumption
  BY MachineAssumption
     DEF P!ActiveModuleAssumption, M!ActiveModuleAssumption,
         P!Event, M!Event, P!SysEvent, M!SysEvent
<1>2. P!Spec => []P!TransitionDriven
  BY <1>1, P!Driven
<1>3. M!Spec => P!Spec
  BY SameMachine, PTL DEF M!Spec, P!Spec
<1> QED
  BY <1>2, <1>3, SameMachine, GameIsActiveModule, PTL DEF MachineSpec
-----------------------------------------------------------------------------
(* The start of the leds.                                                  *)

InitSteps ==
  << <<"thread">>, <<"cycles", 1>>, <<"flags", "DoLedStart">>,
     <<"load">>, <<"or", "Cancel">>, <<"signal", "Wave">> >>

\* The handler of the first EV_ENTRY, access by access.
LEMMA InitEntryIs == InitEntry = InitSteps
<1> DEFINE a == << <<"thread">>, <<"cycles", 1>>, <<"flags", "DoLedStart">> >>
           b == << <<"load">>, <<"or", "Cancel">>, <<"signal", "Wave">> >>
           S == {a[1], a[2], a[3], b[1], b[2], b[3]}
<1>1. /\ a \in Seq(S) /\ Len(a) = 3 /\ a[1] = <<"thread">> /\ a[2] = <<"cycles", 1>>
      /\ a[3] = <<"flags", "DoLedStart">>
  OBVIOUS
<1>2. /\ b \in Seq(S) /\ Len(b) = 3 /\ b[1] = <<"load">> /\ b[2] = <<"or", "Cancel">>
      /\ b[3] = <<"signal", "Wave">>
  OBVIOUS
<1>3. /\ InitSteps \in Seq(S) /\ Len(InitSteps) = 6
      /\ InitSteps[1] = a[1] /\ InitSteps[2] = a[2] /\ InitSteps[3] = a[3]
      /\ InitSteps[4] = b[1] /\ InitSteps[5] = b[2] /\ InitSteps[6] = b[3]
  BY DEF InitSteps
<1>4. InitEntry = a \o b
  BY DEF InitEntry, StartEffect
<1> HIDE DEF a, b, S
<1>5. /\ a \o b \in Seq(S) /\ Len(a \o b) = Len(a) + Len(b)
      /\ \A i \in 1 .. Len(a) + Len(b) : (a \o b)[i] = IF i <= Len(a) THEN a[i] ELSE b[i - Len(a)]
  BY <1>1, <1>2, ConcatProperties
<1>6. Len(a) + Len(b) = 6
  BY <1>1, <1>2
<1>7. \A i \in 1 .. 6 : (a \o b)[i] = IF i <= 3 THEN a[i] ELSE b[i - 3]
  BY <1>1, <1>5, <1>6
<1>8. /\ (a \o b)[1] = a[1] /\ (a \o b)[2] = a[2] /\ (a \o b)[3] = a[3]
      /\ (a \o b)[4] = b[1] /\ (a \o b)[5] = b[2] /\ (a \o b)[6] = b[3]
  <2> DEFINE c == a \o b
  <2>1. \A i \in 1 .. 6 : c[i] = IF i <= 3 THEN a[i] ELSE b[i - 3]
    BY <1>7
  <2> HIDE DEF c
  <2>2. c[1] = a[1] /\ c[2] = a[2] /\ c[3] = a[3]
    BY <2>1
  <2>3. c[4] = b[4 - 3] /\ c[5] = b[5 - 3] /\ c[6] = b[6 - 3]
    BY <2>1
  <2>4. 4 - 3 = 1 /\ 5 - 3 = 2 /\ 6 - 3 = 3
    OBVIOUS
  <2> QED
    BY <2>2, <2>3, <2>4 DEF c
<1>9. \A i \in 1 .. 6 : i = 1 \/ i = 2 \/ i = 3 \/ i = 4 \/ i = 5 \/ i = 6
  OBVIOUS
<1>10. \A i \in 1 .. 6 : (a \o b)[i] = InitSteps[i]
  BY <1>3, <1>8, <1>9
<1> QED
  BY <1>3, <1>4, <1>5, <1>6, <1>10, SeqEqual

\* What is left of it.
AfterThread == << <<"cycles", 1>>, <<"flags", "DoLedStart">>,
                  <<"load">>, <<"or", "Cancel">>, <<"signal", "Wave">> >>
AfterCycles == << <<"flags", "DoLedStart">>, <<"load">>, <<"or", "Cancel">>, <<"signal", "Wave">> >>
AfterFlags == << <<"load">>, <<"or", "Cancel">>, <<"signal", "Wave">> >>
AfterLoad == << <<"or", "Cancel">>, <<"signal", "Wave">> >>
AfterOr == << <<"signal", "Wave">> >>

LEMMA StepFacts ==
  /\ Head(InitSteps) = <<"thread">> /\ Tail(InitSteps) = AfterThread
  /\ Head(AfterThread) = <<"cycles", 1>> /\ Tail(AfterThread) = AfterCycles
  /\ Head(AfterCycles) = <<"flags", "DoLedStart">> /\ Tail(AfterCycles) = AfterFlags
  /\ Head(AfterFlags) = <<"load">> /\ Tail(AfterFlags) = AfterLoad
  /\ Head(AfterLoad) = <<"or", "Cancel">> /\ Tail(AfterLoad) = AfterOr
  /\ Head(AfterOr) = <<"signal", "Wave">> /\ Tail(AfterOr) = <<>>
<1>1. Head(InitSteps) = <<"thread">> /\ Tail(InitSteps) = AfterThread
  BY DEF InitSteps, AfterThread
<1>2. Head(AfterThread) = <<"cycles", 1>> /\ Tail(AfterThread) = AfterCycles
  BY DEF AfterThread, AfterCycles
<1>3. Head(AfterCycles) = <<"flags", "DoLedStart">> /\ Tail(AfterCycles) = AfterFlags
  BY DEF AfterCycles, AfterFlags
<1>4. Head(AfterFlags) = <<"load">> /\ Tail(AfterFlags) = AfterLoad
  BY DEF AfterFlags, AfterLoad
<1>5. Head(AfterLoad) = <<"or", "Cancel">> /\ Tail(AfterLoad) = AfterOr
  BY DEF AfterLoad, AfterOr
<1>6. Head(AfterOr) = <<"signal", "Wave">> /\ Tail(AfterOr) = <<>>
  BY DEF AfterOr
<1> QED
  BY <1>1, <1>2, <1>3, <1>4, <1>5, <1>6

\* Until the leds are started the machine is in stInit, with nothing but the
\* first EV_ENTRY and touches to handle, and there is no timer.
Calm ==
  /\ curr \in {None, "Init"} /\ next = None
  /\ inHand \in {None, "ENTRY", "TouchPress"}
  /\ ~timer
  /\ DOMAIN reg = {"game", "fx"}

\* EV_ENTRY has not been taken yet, and nobody else may post;
Asleep ==
  /\ fx = "off" /\ prog = <<>> /\ signals = {} /\ ~ready /\ inHand = None
  /\ queue = <<>> \/ (curr = "Init" /\ queue = <<"ENTRY">>)

\* or it is being handled: the flag is set before the effects thread is woken;
Entering ==
  /\ curr = "Init" /\ inHand = "ENTRY" /\ queue \in Seq({"TouchPress"}) /\ signals = {}
  /\ \/ fx = "off" /\ prog = InitSteps
     \/ fx = "idle" /\ prog \in {AfterThread, AfterCycles}
     \/ fx = "idle" /\ prog \in {AfterFlags, AfterOr} /\ "DoLedStart" \in flags
     \/ fx = "idle" /\ prog = AfterLoad /\ "DoLedStart" \in reg["game"]

\* or the effects thread is on its way to the wave, and touches do nothing.
Going ==
  /\ curr = "Init" /\ queue \in Seq({"TouchPress"}) /\ prog = <<>> /\ "DoLedStart" \in flags
  /\ \/ fx = "idle" /\ signals = {"Wave"}
     \/ fx \in {"clear", "run"} /\ signals = {} /\ effect = {"Wave"}
     \/ fx = "clearStore" /\ signals = {} /\ effect = {"Wave"} /\ "DoLedStart" \in reg["fx"]

LedInv == started \/ (Calm /\ (Asleep \/ Entering \/ Going))

LEMMA GetLed ==
  ASSUME LedInv, ~started, GetMessage
  PROVE  LedInv'
<1>1. /\ curr # None /\ inHand = None /\ queue # <<>> /\ inHand' = Head(queue)
      /\ queue' = Tail(queue) /\ prog' = Handler(curr, Head(queue))
      /\ UNCHANGED <<curr, next, timer, flags, signals, reg, fx, effect, ready>>
  BY DEF GetMessage, M!Get, shared, effects
<1>2. curr = "Init" /\ Calm
  BY <1>1 DEF LedInv, Calm
<1>3. Handler("Init", "ENTRY") = InitSteps /\ Handler("Init", "TouchPress") = <<>>
  BY InitEntryIs DEF Handler
<1>4. CASE Asleep
  <2>1. queue = <<"ENTRY">> /\ fx = "off" /\ signals = {}
    BY <1>1, <1>4 DEF Asleep
  <2>2. inHand' = "ENTRY" /\ queue' = <<>> /\ prog' = InitSteps
    <3>1. Head(<<"ENTRY">>) = "ENTRY" /\ Tail(<<"ENTRY">>) = <<>>
      OBVIOUS
    <3> QED
      BY <1>1, <1>2, <1>3, <2>1, <3>1
  <2>3. queue' \in Seq({"TouchPress"})
    BY <2>2
  <2>4. Calm'
    BY <1>1, <1>2, <2>2 DEF Calm
  <2>5. Entering'
    BY <1>1, <1>2, <2>1, <2>2, <2>3 DEF Entering
  <2> QED
    BY <2>4, <2>5 DEF LedInv
<1>5. CASE Going
  <2>1. Head(queue) = "TouchPress" /\ Tail(queue) \in Seq({"TouchPress"})
    BY <1>1, <1>5 DEF Going
  <2>2. Calm' /\ Going'
    BY <1>1, <1>2, <1>3, <1>5, <2>1 DEF Going, Calm
  <2> QED
    BY <2>2 DEF LedInv
<1>6. ~Entering
  BY <1>1, RGBGameAssumption DEF Entering
<1> QED
  BY <1>4, <1>5, <1>6 DEF LedInv

\* The accesses of the handler, one by one.
LEMMA EntryLed ==
  ASSUME Calm, Entering, ~started, DoLocal \/ DoTimedOut \/ DoShared \/ DoThread \/ DoTran \/ Return
  PROVE  Calm' /\ (Entering' \/ Going')
<1>0. /\ InitSteps # <<>> /\ AfterThread # <<>> /\ AfterCycles # <<>> /\ AfterFlags # <<>>
      /\ AfterLoad # <<>> /\ AfterOr # <<>>
  BY DEF InitSteps, AfterThread, AfterCycles, AfterFlags, AfterLoad, AfterOr
<1>1. prog # <<>> /\ Head(prog)[1] \in {"thread", "cycles", "flags", "load", "or", "signal"}
  BY <1>0, StepFacts DEF Entering
<1>2. ~DoLocal /\ ~DoTimedOut /\ ~DoTran /\ ~Return
  BY <1>1 DEF DoLocal, DoTimedOut, DoTran, Return, Does
<1>3. CASE DoThread
  <2>1. Head(prog)[1] = "thread"
    BY <1>3 DEF DoThread, Does
  <2>2. prog = InitSteps
    <3>1. prog \in {InitSteps, AfterThread, AfterCycles, AfterFlags, AfterLoad, AfterOr}
      BY DEF Entering
    <3>2. /\ Head(AfterThread)[1] = "cycles" /\ Head(AfterCycles)[1] = "flags"
          /\ Head(AfterFlags)[1] = "load" /\ Head(AfterLoad)[1] = "or"
          /\ Head(AfterOr)[1] = "signal"
      BY StepFacts
    <3> QED
      BY <2>1, <3>1, <3>2
  <2>3. /\ prog' = AfterThread /\ fx' = "idle"
        /\ UNCHANGED <<curr, next, inHand, queue, timer, reg, signals>>
    BY <1>3, <2>2, StepFacts DEF DoThread, Done, machine, shared
  <2> QED
    BY <2>3 DEF Calm, Entering
<1>4. CASE DoShared
  <2>1. /\ prog' = Tail(prog)
        /\ UNCHANGED <<curr, next, inHand, queue, timer, fx, effect>>
    BY <1>4 DEF DoShared, Done, machine, effects
  <2>2. /\ Head(prog)[1] # "thread"
        /\ prog \in {AfterThread, AfterCycles, AfterFlags, AfterLoad, AfterOr} /\ fx = "idle"
    <3>1. Head(prog)[1] # "thread"
      BY <1>4 DEF DoShared, Does
    <3> QED
      BY <3>1, StepFacts DEF Entering
  <2>3. CASE prog = AfterThread
    <3>1. UNCHANGED <<flags, signals, reg>>
      BY <1>4, <2>3, StepFacts DEF DoShared, Does
    <3>2. prog' = AfterCycles
      BY <2>1, <2>3, StepFacts
    <3> QED
      BY <2>1, <2>2, <3>1, <3>2 DEF Calm, Entering
  <2>4. CASE prog = AfterCycles
    <3>1. flags' = {"DoLedStart"} /\ UNCHANGED <<signals, reg>>
      BY <1>4, <2>4, StepFacts DEF DoShared, Does, Arg
    <3>2. prog' = AfterFlags
      BY <2>1, <2>4, StepFacts
    <3> QED
      BY <2>1, <2>2, <3>1, <3>2 DEF Calm, Entering
  <2>5. CASE prog = AfterFlags
    <3>1. reg' = [reg EXCEPT !["game"] = flags] /\ UNCHANGED <<flags, signals>>
      BY <1>4, <2>5, StepFacts DEF DoShared, Does
    <3>2. prog' = AfterLoad
      BY <2>1, <2>5, StepFacts
    <3>3. "DoLedStart" \in flags
      BY <2>5, StepFacts DEF Entering
    <3> QED
      BY <2>1, <2>2, <3>1, <3>2, <3>3 DEF Calm, Entering
  <2>6. CASE prog = AfterLoad
    <3>1. /\ flags' = reg["game"] \cup {"Cancel"} /\ reg' = [reg EXCEPT !["game"] = {}]
          /\ UNCHANGED signals
      BY <1>4, <2>6, StepFacts DEF DoShared, Does, Arg
    <3>2. prog' = AfterOr
      BY <2>1, <2>6, StepFacts
    <3>3. "DoLedStart" \in reg["game"]
      BY <2>6, StepFacts DEF Entering
    <3> QED
      BY <2>1, <2>2, <3>1, <3>2, <3>3 DEF Calm, Entering
  <2>7. CASE prog = AfterOr
    <3>1. signals' = signals \cup {"Wave"} /\ UNCHANGED <<flags, reg>>
      BY <1>4, <2>7, StepFacts DEF DoShared, Does, Arg
    <3>2. prog' = <<>>
      BY <2>1, <2>7, StepFacts
    <3>3. "DoLedStart" \in flags /\ signals = {}
      BY <2>7, StepFacts DEF Entering
    <3> QED
      BY <2>1, <2>2, <3>1, <3>2, <3>3 DEF Calm, Entering, Going
  <2> QED
    BY <2>2, <2>3, <2>4, <2>5, <2>6, <2>7
<1> QED
  BY <1>2, <1>3, <1>4

\* With no access left only the return is possible, which changes no state.
LEMMA ReturnLed ==
  ASSUME LedInv, ~started, Asleep \/ Going,
         DoLocal \/ DoTimedOut \/ DoShared \/ DoThread \/ DoTran \/ Return
  PROVE  LedInv'
<1>1. prog = <<>>
  BY DEF Asleep, Going
<1>2. Return
  BY <1>1 DEF DoLocal, DoTimedOut, DoShared, DoThread, DoTran, Does
<1>3. Calm
  <2>1. prog = <<>> => ~Entering
    BY DEF Entering, InitSteps, AfterThread, AfterCycles, AfterFlags, AfterLoad, AfterOr
  <2> QED
    BY DEF LedInv
<1>4. inHand # None /\ inHand # "EXIT"
  BY <1>2, <1>3, RGBGameAssumption
     DEF Return, Calm, M!DispatchEntry, M!DispatchExit, M!DispatchUser, UserEvent, M!TimedEvent
<1>5. Going
  BY <1>4 DEF Asleep
<1>6. /\ inHand' = None
      /\ UNCHANGED <<curr, next, queue, prog, timer, flags, signals, reg, fx, effect>>
  BY <1>2, <1>4 DEF Return, M!DispatchEntry, M!DispatchExit, M!DispatchUser, handler, shared, effects
<1> QED
  BY <1>3, <1>5, <1>6 DEF LedInv, Calm, Going

LEMMA FxLed ==
  ASSUME LedInv, ~started, EffectsThread
  PROVE  LedInv'
<1> USE DEF machine, handler, shared
<1>1. /\ Calm /\ Going /\ (fx = "idle" => signals # {})
      /\ fx \in {"idle", "clear", "clearStore", "run"}
  <2>1. fx # "off" /\ (fx = "idle" => signals # {})
    BY DEF EffectsThread, FxWake, FxFlags, FxLoad, FxStore, FxRun, FxHead, FxPoint, FxDecrement,
           FxPost, FxResume
  <2> QED
    BY <2>1 DEF LedInv, Asleep, Entering, Going
<1>2. CASE FxWake
  BY <1>1, <1>2 DEF FxWake, LedInv, Calm, Going
<1>3. CASE FxFlags
  <2>1. /\ UNCHANGED <<curr, next, inHand, queue, timer, prog, signals, effect>>
        /\ \/ FxLoad("clear", "clearStore")
           \/ FxStore("clearStore", {"Cancel"}, "run")
    BY <1>1, <1>3 DEF FxFlags, FxLoad, FxStore
  <2>2. CASE FxLoad("clear", "clearStore")
    BY <1>1, <2>1, <2>2 DEF FxLoad, LedInv, Calm, Going
  <2>3. CASE FxStore("clearStore", {"Cancel"}, "run")
    BY <1>1, <2>1, <2>3 DEF FxStore, LedInv, Calm, Going
  <2> QED
    BY <2>1, <2>2, <2>3
<1>4. CASE FxRun
  <2>1. effect = {"Wave"} /\ "DoLedStart" \in flags
    BY <1>1, <1>4 DEF FxRun, Going
  <2>2. "Wave" \in Effect /\ {"Wave"} # {"SwitchOff"} /\ {"Wave"} # {"SwitchLeds"}
    BY DEF Effect
  <2>3. effect \in {{e} : e \in Effect}
    BY <2>1, <2>2
  <2>4. started' = TRUE
    BY <1>4, <2>1, <2>2, <2>3 DEF FxRun
  <2> QED
    BY <2>4 DEF LedInv
<1>5. ~(FxHead \/ FxPoint \/ FxDecrement \/ FxPost \/ FxResume)
  BY <1>1 DEF FxHead, FxPoint, FxDecrement, FxPost, FxResume
<1> QED
  BY <1>2, <1>3, <1>4, <1>5 DEF EffectsThread

LEMMA LedStep == LedInv /\ [Next]_vars => LedInv'
<1> SUFFICES ASSUME LedInv, [Next]_vars PROVE LedInv'
  OBVIOUS
<1>0. CASE started
  <2>1. started' = TRUE \/ started' = started
    BY <1>0 DEF Next, SetBase, Start, GameThread, GetMessage, GetTimeout, DoLocal, DoTimedOut, DoShared,
           DoThread, DoTran, Return, EffectsThread, FxWake, FxFlags, FxRun, FxHead, FxPoint,
           FxDecrement, FxPost, FxResume, TouchMessage, TimerExpires, vars, effects
  <2> QED
    BY <1>0, <2>1 DEF LedInv
<1> SUFFICES ASSUME ~started PROVE LedInv'
  BY <1>0
<1>1. ASSUME NEW b \in {"pub", "sub"}, SetBase(b) PROVE LedInv'
  BY <1>1 DEF SetBase, M!SetBase, handler, shared, effects, LedInv, Calm, Asleep, Entering, Going
<1>2. CASE Start
  <2>1. /\ curr' = "Init" /\ next' = None /\ curr = None
        /\ queue' = IF M!Full THEN queue ELSE Append(queue, "ENTRY")
        /\ UNCHANGED <<inHand, ready, prog, timer, flags, signals, reg, fx, effect>>
    BY <1>2 DEF Start, M!Start, M!Raise, M!Put, handler, shared, effects
  <2>2. Calm /\ Asleep /\ queue = <<>>
    BY <2>1, RGBGameAssumption DEF LedInv, Asleep, Entering, Going, State
  <2>3. queue' = <<>> \/ queue' = <<"ENTRY">>
    BY <2>1, <2>2
  <2> QED
    BY <2>1, <2>2, <2>3 DEF LedInv, Calm, Asleep
<1>3. CASE GetMessage
  BY <1>3, GetLed
<1>4. CASE GetTimeout
  BY <1>4, RGBGameAssumption DEF GetTimeout, M!GetTimeout, LedInv, Asleep, Entering, Going
<1>5. CASE DoLocal \/ DoTimedOut \/ DoShared \/ DoThread \/ DoTran \/ Return
  <2>1. CASE Calm /\ Entering
    BY <1>5, <2>1, EntryLed DEF LedInv
  <2>2. CASE Asleep \/ Going
    BY <1>5, <2>2, ReturnLed
  <2> QED
    BY <2>1, <2>2 DEF LedInv
<1>6. CASE EffectsThread
  BY <1>6, FxLed
<1>7. ASSUME NEW value \in {TouchedEvent, ReleasedEvent}, TouchMessage(value) PROVE LedInv'
  <2>1. /\ ready /\ (queue' = queue \/ queue' = Append(queue, "TouchPress"))
        /\ UNCHANGED <<curr, next, inHand, ready, prog, timer, flags, signals, reg, fx, effect>>
    BY <1>7 DEF TouchMessage, M!Post, M!Put, machine, handler, shared, effects
  <2>2. Calm /\ (Entering \/ Going) /\ queue \in Seq({"TouchPress"})
    BY <1>7 DEF TouchMessage, LedInv, Asleep, Entering, Going
  <2>3. queue' \in Seq({"TouchPress"})
    BY <2>1, <2>2
  <2> QED
    BY <2>1, <2>2, <2>3 DEF LedInv, Calm, Entering, Going
<1>8. CASE TimerExpires
  BY <1>8 DEF TimerExpires, LedInv, Calm
<1>9. CASE UNCHANGED vars
  BY <1>9 DEF vars, machine, handler, shared, effects, LedInv, Calm, Asleep, Entering, Going
<1> QED
  BY <1>1, <1>2, <1>3, <1>4, <1>5, <1>6, <1>7, <1>8, <1>9 DEF Next, GameThread

\* The leds are started before the game leaves stInit, for any queue, wave and
\* number of touches, although another thread does it.
THEOREM LedsFirst == Spec => []LedsStarted
<1>1. Init => LedInv
  <2> SUFFICES ASSUME Init PROVE LedInv
    OBVIOUS
  <2>1. Calm
    BY DEF Init, M!Init, Calm
  <2>2. Asleep
    BY DEF Init, M!Init, Asleep
  <2> QED
    BY <2>1, <2>2 DEF LedInv
<1>2. LedInv => LedsStarted
  BY RGBGameAssumption DEF LedInv, Calm, LedsStarted, State
<1> QED
  BY <1>1, <1>2, LedStep, PTL DEF Spec
-----------------------------------------------------------------------------
(* The types, and the count-down of stConfig.                              *)

\* The accesses a handler can still have before it: those of stConfig on a
\* message, those on a timeout, and those of the other states.
ConfigOps == { <<"timeout", 1>>, <<"play">>, <<"cycles", 1>>, <<"flags", "DoServos">>, <<"load">>,
               <<"or", "Cancel">>, <<"or", "Touched">>, <<"andNot", "DoServos">>,
               <<"signal", "Wave">>, <<"signal", "SwitchLeds">> }
TimedOps == { <<"timedOut">>, <<"tran", "Game">>, <<"tran", "Wait">> }
OtherOps == { <<"thread">>, <<"timeout", 1>>, <<"timeout", Forever>>, <<"timer", TRUE>>, <<"timer", FALSE>>,
              <<"cycles", 1>>, <<"cycles", InfiniteCycles>>, <<"flags", "DoLedStart">>,
              <<"flags", "DoServos">>, <<"load">>, <<"or", "Cancel">>, <<"signal", "Wave">>,
              <<"signal", "SwitchOff">>, <<"tran", "Wait">>, <<"tran", "Config">> }

Ops(s, e) == IF s # "Config" THEN OtherOps ELSE IF e # "TIMED" THEN ConfigOps ELSE TimedOps

Due(p, op) == \E i \in 1 .. Len(p) : p[i] = op

LEMMA OpFacts ==
  ASSUME NEW s, NEW e, NEW o \in Ops(s, e)
  PROVE  /\ o[1] = "timeout" => o[2] \in {1, Forever} /\ (s = "Config" => o[2] = 1)
         /\ o[1] = "timer" => o[2] \in BOOLEAN
         /\ o[1] \in {"or", "andNot", "flags"} => o[2] \in Flag
         /\ o[1] = "cycles" => o[2] \in Int
         /\ o[1] = "signal" => o[2] \in Effect
         /\ o[1] = "tran" => o[2] \in State /\ (s = "Config" => e = "TIMED")
         /\ o[1] = "timedOut" => s = "Config" /\ e = "TIMED"
         /\ s = "Config" /\ e = "TIMED" => o[1] \in {"timedOut", "tran"}
         /\ o[1] = "play" => o = <<"play">>
         /\ o[1] = "timeout" /\ s = "Config" => o = <<"timeout", 1>>
<1>1. CASE s # "Config"
  <2>1. o \in OtherOps
    BY <1>1 DEF Ops
  <2>2. CASE o \in { <<"timeout", 1>>, <<"timeout", Forever>> }
    BY <1>1, <2>2
  <2>8. CASE o \in { <<"timer", TRUE>>, <<"timer", FALSE>> }
    <3>1. o[1] = "timer" /\ o[2] \in BOOLEAN
      <4>1. CASE o = <<"timer", TRUE>>
        BY <4>1
      <4>2. CASE o = <<"timer", FALSE>>
        BY <4>2
      <4> QED
        BY <2>8, <4>1, <4>2
    <3> QED
      BY <1>1, <3>1
  <2>3. CASE o \in { <<"cycles", 1>>, <<"cycles", InfiniteCycles>> }
    <3>1. o[1] = "cycles" /\ o[2] \in Int
      BY <2>3, RGBGameAssumption
    <3> QED
      BY <1>1, <3>1
  <2>4. CASE o \in { <<"flags", "DoLedStart">>, <<"flags", "DoServos">>, <<"or", "Cancel">> }
    BY <1>1, <2>4 DEF Flag
  <2>5. CASE o \in { <<"thread">>, <<"load">> }
    BY <1>1, <2>5
  <2>6. CASE o \in { <<"signal", "Wave">>, <<"signal", "SwitchOff">> }
    BY <1>1, <2>6 DEF Effect
  <2>7. CASE o \in { <<"tran", "Wait">>, <<"tran", "Config">> }
    BY <1>1, <2>7 DEF State
  <2> QED
    BY <2>1, <2>2, <2>3, <2>4, <2>5, <2>6, <2>7, <2>8 DEF OtherOps
<1>2. CASE s = "Config" /\ e # "TIMED"
  BY <1>2 DEF Ops, ConfigOps, Flag, Effect
<1>3. CASE s = "Config" /\ e = "TIMED"
  <2>1. o \in TimedOps
    BY <1>3 DEF Ops
  <2>2. CASE o = <<"timedOut">>
    <3>1. o[1] = "timedOut"
      BY <2>2
    <3> QED
      BY <1>3, <3>1
  <2>3. CASE o = <<"tran", "Game">> \/ o = <<"tran", "Wait">>
    <3>1. o[1] = "tran" /\ o[2] \in State
      BY <2>3 DEF State
    <3> QED
      BY <1>3, <3>1
  <2> QED
    BY <2>1, <2>2, <2>3 DEF TimedOps
<1> QED
  BY <1>1, <1>2, <1>3

LEMMA StartEffectOps ==
  ASSUME NEW S, NEW e, {<<"load">>, <<"or", "Cancel">>, <<"signal", e>>} \subseteq S
  PROVE  StartEffect(e) \in Seq(S)
<1> DEFINE x == <<"load">>
           y == <<"or", "Cancel">>
           z == <<"signal", e>>
<1>1. x \in S /\ y \in S /\ z \in S /\ StartEffect(e) = << x, y, z >>
  BY DEF StartEffect
<1> HIDE DEF x, y, z
<1> QED
  BY <1>1

\* What the handlers do.
LEMMA HandlerOps ==
  ASSUME NEW s \in State, NEW e \in M!Event \cup {"TIMED"}
  PROVE  /\ Handler(s, e) \in Seq(Ops(s, e))
         /\ s = "Config" /\ e = "TIMED" => Handler(s, e) = << <<"timedOut">> >>
         /\ s = "Config" /\ e = "ENTRY" =>
              Due(Handler(s, e), <<"timeout", 1>>) /\ Due(Handler(s, e), <<"play">>)
<1>1. CASE s = "Init"
  <2>1. InitEntry \in Seq(OtherOps)
    <3>1. InitSteps \in Seq(OtherOps)
      BY DEF InitSteps, OtherOps
    <3> QED
      BY <3>1, InitEntryIs
  <2>2. << <<"tran", "Wait">> >> \in Seq(OtherOps) /\ <<>> \in Seq(OtherOps)
    BY DEF OtherOps
  <2> QED
    BY <1>1, <2>1, <2>2 DEF Handler, Ops
<1>2. CASE s = "Wait"
  <2>1. StartEffect("SwitchOff") \in Seq(OtherOps)
    BY StartEffectOps DEF OtherOps
  <2>2. /\ << <<"timeout", 1>> >> \in Seq(OtherOps) /\ << <<"timeout", Forever>> >> \in Seq(OtherOps)
        /\ << <<"tran", "Config">> >> \in Seq(OtherOps) /\ <<>> \in Seq(OtherOps)
    BY DEF OtherOps
  <2>3. WaitHandler(e) \in Seq(OtherOps)
    <3> DEFINE a == << <<"timeout", Forever>> >>
               b == StartEffect("SwitchOff")
    <3>1. a \o b \in Seq(OtherOps)
      <4>1. a \in Seq(OtherOps) /\ b \in Seq(OtherOps)
        BY <2>1, <2>2
      <4> HIDE DEF a, b
      <4> QED
        BY <4>1
    <3> HIDE DEF b
    <3> QED
      BY <2>2, <3>1 DEF WaitHandler, b
  <2> QED
    BY <1>2, <2>3 DEF Handler, Ops
<1>3. CASE s = "Game"
  <2> DEFINE a == << <<"timeout", Forever>>, <<"timer", TRUE>>, <<"cycles", InfiniteCycles>>,
                     <<"flags", "DoServos">> >>
             b == StartEffect("Wave")
  <2>1. a \o b \in Seq(OtherOps)
    <3>1. a \in Seq(OtherOps)
      BY DEF OtherOps
    <3>2. b \in Seq(OtherOps)
      BY StartEffectOps DEF OtherOps
    <3> HIDE DEF a, b
    <3> QED
      BY <3>1, <3>2
  <2>2. /\ << <<"load">>, <<"or", "Cancel">> >> \in Seq(OtherOps)
        /\ << <<"timer", FALSE>>, <<"tran", "Config">> >> \in Seq(OtherOps)
        /\ << <<"tran", "Wait">> >> \in Seq(OtherOps) /\ <<>> \in Seq(OtherOps)
    BY DEF OtherOps
  <2>3. GameHandler(e) \in Seq(OtherOps)
    BY <2>1, <2>2 DEF GameHandler
  <2> QED
    BY <1>3, <2>3 DEF Handler, Ops
<1>4. CASE s = "Config"
  <2> DEFINE a == << <<"timeout", 1>>, <<"play">>, <<"cycles", 1>>, <<"flags", "DoServos">> >>
             b == StartEffect("Wave")
             c == << <<"load">>, <<"or", "Touched">>, <<"play">>, <<"cycles", 1>>,
                     <<"load">>, <<"andNot", "DoServos">> >>
             d == StartEffect("SwitchLeds")
  <2>1. /\ a \in Seq(ConfigOps) /\ Len(a) = 4 /\ a[1] = <<"timeout", 1>> /\ a[2] = <<"play">>
        /\ c \in Seq(ConfigOps)
    BY DEF ConfigOps
  <2>2. b \in Seq(ConfigOps) /\ d \in Seq(ConfigOps)
    BY StartEffectOps DEF ConfigOps
  <2> HIDE DEF a, b, c, d
  <2>3. /\ a \o b \in Seq(ConfigOps) /\ c \o d \in Seq(ConfigOps)
        /\ Len(a \o b) = Len(a) + Len(b)
        /\ \A i \in 1 .. Len(a) + Len(b) : (a \o b)[i] = IF i <= Len(a) THEN a[i] ELSE b[i - Len(a)]
    BY <2>1, <2>2, ConcatProperties
  <2>4. Due(a \o b, <<"timeout", 1>>) /\ Due(a \o b, <<"play">>)
    <3>1. Len(b) \in Nat
      BY <2>2
    <3>2. 1 \in 1 .. Len(a \o b) /\ 2 \in 1 .. Len(a \o b)
      BY <2>1, <2>3, <3>1
    <3>3. (a \o b)[1] = a[1] /\ (a \o b)[2] = a[2]
      BY <2>1, <2>3, <3>1
    <3> QED
      BY <2>1, <3>2, <3>3 DEF Due
  <2>5. CASE e = "ENTRY"
    <3>1. Handler(s, e) = a \o b
      BY <1>4, <2>5 DEF Handler, ConfigHandler, a, b
    <3>2. Ops(s, e) = ConfigOps
      BY <1>4, <2>5 DEF Ops
    <3> QED
      BY <2>3, <2>4, <2>5, <3>1, <3>2
  <2>6. CASE e = "TouchPress"
    <3>1. Handler(s, e) = c \o d
      BY <1>4, <2>6 DEF Handler, ConfigHandler, c, d
    <3>2. Ops(s, e) = ConfigOps
      BY <1>4, <2>6 DEF Ops
    <3> QED
      BY <2>3, <2>6, <3>1, <3>2
  <2>7. CASE e = "TIMED"
    <3>1. Handler(s, e) = << <<"timedOut">> >> /\ e # "ENTRY"
      BY <1>4, <2>7 DEF Handler, ConfigHandler
    <3>2. Ops(s, e) = TimedOps
      BY <1>4, <2>7 DEF Ops
    <3>3. << <<"timedOut">> >> \in Seq(TimedOps)
      BY DEF TimedOps
    <3> QED
      BY <2>7, <3>1, <3>2, <3>3
  <2>8. CASE e \notin {"ENTRY", "TouchPress", "TIMED"}
    <3>1. Handler(s, e) = <<>>
      BY <1>4, <2>8 DEF Handler, ConfigHandler
    <3> QED
      BY <2>8, <3>1
  <2>9. e = "ENTRY" \/ e = "TouchPress" \/ e = "TIMED" \/ e \notin {"ENTRY", "TouchPress", "TIMED"}
    OBVIOUS
  <2> QED
    BY ONLY <2>5, <2>6, <2>7, <2>8, <2>9
<1> QED
  BY <1>1, <1>2, <1>3, <1>4 DEF State

\* An access that is due stays due until it is made.
LEMMA TailDue ==
  ASSUME NEW S, NEW p \in Seq(S), p # <<>>, NEW op
  PROVE  /\ Head(p) \in S /\ Tail(p) \in Seq(S) /\ Len(Tail(p)) = Len(p) - 1
         /\ Due(p, op) => Head(p) = op \/ Due(Tail(p), op)
<1>1. /\ Head(p) \in S /\ Tail(p) \in Seq(S) /\ Len(Tail(p)) = Len(p) - 1 /\ Len(p) \in Nat
      /\ Head(p) = p[1] /\ \A i \in 1 .. Len(p) - 1 : Tail(p)[i] = p[i + 1]
  OBVIOUS
<1>2. ASSUME NEW i \in 1 .. Len(p), p[i] = op, i # 1
      PROVE  Due(Tail(p), op)
  <2>1. i - 1 \in 1 .. Len(Tail(p)) /\ Tail(p)[i - 1] = p[i]
    <3>1. i - 1 \in 1 .. Len(p) - 1 /\ (i - 1) + 1 = i
      BY <1>1, <1>2
    <3> QED
      BY <1>1, <3>1
  <2> QED
    BY <1>2, <2>1 DEF Due
<1> QED
  BY <1>1, <1>2 DEF Due

\* The data of the two threads;
Data ==
  /\ timeout \in {1, Forever} /\ timer \in BOOLEAN
  /\ flags \subseteq Flag /\ cycles \in Int /\ signals \subseteq Effect
  /\ fx \in FxState /\ effect \subseteq Effect /\ point \in -1 .. LastPoint
  /\ reg \in [{"game", "fx"} -> SUBSET Flag] /\ cycReg \in Int
  /\ tower \in {"unset", "wave", "leds", "dark"} /\ started \in BOOLEAN
  /\ touches \in 0 .. MaxTouch

\* what the handler in progress may still do;
Program ==
  /\ prog \in Seq(Ops(curr, inHand))
  /\ curr = None => prog = <<>>
  /\ curr = "Config" /\ inHand = "TIMED" => Len(prog) <= 1
  /\ curr = "Config" /\ inHand = None => prog = <<>>

\* and the count-down of stConfig, which starts with its EV_ENTRY and is over
\* when the handler of EV_TIMED asks for a transition.
Counts == timeout = 1 /\ accTimeout \in 1 .. 3 /\ timedPlay = 1

CountDown ==
  /\ accTimeout \in 0 .. 3 /\ timedPlay \in 0 .. 1
  /\ curr = "Config" /\ inHand = "ENTRY" =>
       /\ Due(prog, <<"timeout", 1>>) \/ timeout = 1
       /\ Due(prog, <<"play">>) \/ (accTimeout = 3 /\ timedPlay = 1)
  /\ curr = "Config" /\ ~fresh /\ next = None /\ (prog = <<>> \/ Head(prog)[1] # "tran") => Counts

\* Whatever is lost, EV_TIMED is only made while _timeout is the finite one.
Ticks ==
  /\ accTimeout \in Int /\ timedPlay \in Int
  /\ curr = "Config" /\ inHand = "TIMED" => timeout = 1

GameInv == Data /\ Program /\ Ticks /\ (~lost => CountDown)

\* The access about to be made.
LEMMA NextOp ==
  ASSUME Program, prog # <<>>
  PROVE  /\ Head(prog) \in Ops(curr, inHand)
         /\ Tail(prog) \in Seq(Ops(curr, inHand)) /\ Len(Tail(prog)) = Len(prog) - 1
  BY TailDue DEF Program

\* What the steps of the game thread do to the data.
LEMMA GameData ==
  ASSUME Data, Program, DoLocal \/ DoShared \/ DoThread
  PROVE  Data'
<1>1. prog # <<>> /\ Head(prog) \in Ops(curr, inHand)
  BY NextOp DEF DoLocal, DoShared, DoThread, Does
<1>2. /\ Does("timeout") => Arg \in {1, Forever}
      /\ Does("timer") => Arg \in BOOLEAN
      /\ Does("or") \/ Does("andNot") \/ Does("flags") => Arg \in Flag
      /\ Does("cycles") => Arg \in Int
      /\ Does("signal") => Arg \in Effect
  BY <1>1, OpFacts DEF Does, Arg
<1>3. CASE DoLocal
  <2>1. UNCHANGED <<shared, effects, touches>>
    BY <1>3 DEF DoLocal
  <2>2. timeout' \in {1, Forever} /\ timer' \in BOOLEAN
    BY <1>2, <1>3 DEF DoLocal, Data
  <2> QED
    BY <2>1, <2>2 DEF Data, shared, effects
<1>4. CASE DoShared
  <2>1. UNCHANGED <<timeout, timer, effects, touches>>
    BY <1>4 DEF DoShared
  <2>2. flags' \subseteq Flag
    BY <1>2, <1>4 DEF DoShared, Data
  <2>3. cycles' \in Int /\ signals' \subseteq Effect
    BY <1>2, <1>4 DEF DoShared, Data
  <2>4. reg' \in [{"game", "fx"} -> SUBSET Flag]
    BY <1>4 DEF DoShared, Data
  <2> QED
    BY <2>1, <2>2, <2>3, <2>4 DEF Data, effects
<1>5. CASE DoThread
  BY <1>5 DEF DoThread, Data, shared, FxState
<1> QED
  BY <1>3, <1>4, <1>5

\* And those of the effects thread.
LEMMA FxData ==
  ASSUME Data, EffectsThread
  PROVE  Data'
<1>1. LastPoint \in Nat \ {0}
  BY RGBGameAssumption
<1>2. CASE FxWake
  BY <1>2 DEF FxWake, Data, FxState, handler
<1>3. CASE FxFlags
  <2>1. UNCHANGED <<timeout, timer, cycles, signals, effect, point, cycReg, tower, started, touches>>
    BY <1>3 DEF FxFlags, handler
  <2>2. /\ flags' \subseteq Flag /\ reg' \in [{"game", "fx"} -> SUBSET Flag]
        /\ fx' \in FxState
    <3>1. \/ flags' = flags /\ reg' = [reg EXCEPT !["fx"] = flags]
          \/ \E cleared : flags' = reg["fx"] \ cleared /\ reg' = [reg EXCEPT !["fx"] = {}]
      BY <1>3 DEF FxFlags, FxLoad, FxStore
    <3>2. fx' \in FxState
      BY <1>3 DEF FxFlags, FxLoad, FxStore, FxState
    <3> QED
      BY <3>1, <3>2 DEF Data
  <2> QED
    BY <2>1, <2>2 DEF Data
<1>4. CASE FxRun
  <2>1. UNCHANGED <<timeout, timer, shared, cycReg, touches>> /\ effect' = {} /\ point' = -1
    BY <1>4 DEF FxRun, handler
  <2>2. /\ fx' \in FxState /\ tower' \in {"unset", "wave", "leds", "dark"}
        /\ started' \in BOOLEAN
    BY <1>4 DEF FxRun, Data, FxState
  <2>3. -1 \in -1 .. LastPoint
    BY <1>1
  <2> QED
    BY <2>1, <2>2, <2>3 DEF Data, shared
<1>5. CASE FxHead
  BY <1>1, <1>5 DEF FxHead, Data, FxState, handler, shared
<1>6. CASE FxPoint
  <2>1. NextPoint \in -1 .. LastPoint
    BY <1>1 DEF NextPoint, Data
  <2>2. /\ fx' \in FxState /\ cycReg' \in Int /\ point' = NextPoint
        /\ UNCHANGED <<timeout, timer, shared, effect, tower, started, touches>>
    BY <1>6 DEF FxPoint, Data, FxState, handler
  <2> QED
    BY <2>1, <2>2 DEF Data, shared
<1>7. CASE FxDecrement
  BY <1>7 DEF FxDecrement, Data, FxState, handler
<1>8. CASE FxPost
  BY <1>1, <1>8 DEF FxPost, Data, FxState, handler, shared
<1>9. CASE FxResume
  BY <1>9 DEF FxResume, Data, FxState, handler, shared
<1> QED
  BY <1>2, <1>3, <1>4, <1>5, <1>6, <1>7, <1>8, <1>9 DEF EffectsThread

LEMMA DataStep ==
  ASSUME Data, Program, [Next]_vars
  PROVE  Data'
<1>1. ASSUME NEW b \in {"pub", "sub"}, SetBase(b) PROVE Data'
  BY <1>1 DEF SetBase, Data, handler, shared, effects
<1>2. CASE Start \/ GetMessage \/ GetTimeout \/ DoTimedOut \/ DoTran \/ Return \/ UNCHANGED vars
  <2>1. UNCHANGED <<timeout, timer, shared, effects, touches>>
    BY <1>2 DEF Start, GetMessage, GetTimeout, DoTimedOut, DoTran, Return, vars, handler
  <2> QED
    BY <2>1 DEF Data, shared, effects
<1>3. CASE DoLocal \/ DoShared \/ DoThread
  BY <1>3, GameData
<1>4. CASE EffectsThread
  BY <1>4, FxData
<1>5. ASSUME NEW value \in {TouchedEvent, ReleasedEvent}, TouchMessage(value) PROVE Data'
  <2>1. touches' \in 0 .. MaxTouch /\ UNCHANGED <<timeout, timer, shared, effects>>
    BY <1>5, RGBGameAssumption DEF TouchMessage, Data, handler
  <2> QED
    BY <2>1 DEF Data, shared, effects
<1>6. CASE TimerExpires
  BY <1>6 DEF TimerExpires, Data, handler, shared, effects
<1> QED
  BY <1>1, <1>2, <1>3, <1>4, <1>5, <1>6 DEF Next, GameThread

\* Steps that touch neither the handler in progress nor what it is a handler of.
LEMMA Others ==
  ASSUME \/ \E b \in {"pub", "sub"} : SetBase(b)
         \/ EffectsThread
         \/ \E value \in {TouchedEvent, ReleasedEvent} : TouchMessage(value)
         \/ TimerExpires
         \/ UNCHANGED vars
  PROVE  UNCHANGED <<curr, next, inHand, fresh, lost, handler>>
<1>1. ASSUME NEW b \in {"pub", "sub"}, SetBase(b) PROVE UNCHANGED <<curr, next, inHand, fresh, lost, handler>>
  BY <1>1 DEF SetBase, M!SetBase
<1>2. CASE EffectsThread
  <2>1. CASE FxPost
    BY <2>1 DEF FxPost, M!Post
  <2>2. CASE FxWake \/ FxFlags \/ FxRun \/ FxHead \/ FxPoint \/ FxDecrement \/ FxResume
    BY <2>2 DEF FxWake, FxFlags, FxRun, FxHead, FxPoint, FxDecrement, FxResume, machine
  <2> QED
    BY <1>2, <2>1, <2>2 DEF EffectsThread
<1>3. ASSUME NEW value \in {TouchedEvent, ReleasedEvent}, TouchMessage(value)
      PROVE  UNCHANGED <<curr, next, inHand, fresh, lost, handler>>
  BY <1>3 DEF TouchMessage, M!Post, machine
<1>4. CASE TimerExpires
  BY <1>4 DEF TimerExpires, M!Post
<1>5. CASE UNCHANGED vars
  BY <1>5 DEF vars, machine
<1> QED
  BY <1>1, <1>2, <1>3, <1>4, <1>5

LEMMA ProgramStep ==
  ASSUME M!TypeOK, Program, [Next]_vars
  PROVE  Program'
<1>0. None # "Config" /\ None # "TIMED" /\ None # "Init"
  BY RGBGameAssumption DEF State
<1>1. CASE UNCHANGED <<curr, next, inHand, fresh, lost, handler>>
  BY <1>1 DEF Program, handler
<1>2. CASE Start \/ Return
  <2>1. prog' = <<>>
    BY <1>2 DEF Start, M!Start, Return, Program, handler
  <2> QED
    BY <2>1 DEF Program
<1>3. CASE GetMessage
  <2>1. /\ curr \in State /\ curr' = curr /\ inHand' \in M!Event /\ prog' = Handler(curr, inHand')
    BY <1>3 DEF GetMessage, M!Get, M!TypeOK
  <2>2. inHand' # None
    BY <2>1, MachineAssumption DEF M!ActiveModuleAssumption
  <2>3. prog' \in Seq(Ops(curr', inHand'))
    BY <2>1, HandlerOps
  <2>4. curr' = "Config" /\ inHand' = "TIMED" => Len(prog') <= 1
    <3>1. Len(<< <<"timedOut">> >>) <= 1
      OBVIOUS
    <3> QED
      BY <2>1, <3>1, HandlerOps
  <2>5. curr' # None
    BY <2>1, RGBGameAssumption
  <2> QED
    BY <2>2, <2>3, <2>4, <2>5 DEF Program
<1>4. CASE GetTimeout
  <2>1. /\ curr \in State /\ curr' = curr /\ inHand' = "TIMED" /\ prog' = Handler(curr, inHand')
    BY <1>4 DEF GetTimeout, M!GetTimeout, M!TypeOK, M!TimedEvent
  <2>2. curr' # None
    BY <2>1, RGBGameAssumption
  <2>3. prog' \in Seq(Ops(curr', inHand'))
    BY <2>1, HandlerOps
  <2>4. curr' = "Config" /\ inHand' = "TIMED" => Len(prog') <= 1
    BY <2>1, HandlerOps
  <2> QED
    BY <1>0, <2>1, <2>2, <2>3, <2>4 DEF Program
<1>5. CASE DoLocal \/ DoShared \/ DoThread
  <2>1. prog # <<>> /\ prog' = Tail(prog) /\ UNCHANGED <<curr, inHand>>
    BY <1>5 DEF DoLocal, DoShared, DoThread, Does, Done, machine
  <2>2. Tail(prog) \in Seq(Ops(curr, inHand)) /\ Len(Tail(prog)) = Len(prog) - 1 /\ Len(prog) \in Nat
    BY <2>1, NextOp DEF Program
  <2> QED
    BY <2>1, <2>2 DEF Program
<1>6. CASE DoTimedOut
  <2>1. curr = "Config" /\ inHand = "TIMED"
    BY <1>6, NextOp, OpFacts DEF DoTimedOut, Does
  <2>2. /\ UNCHANGED <<curr, inHand>>
        /\ \/ prog' = << <<"tran", "Game">> >> \/ prog' = << <<"tran", "Wait">> >>
           \/ prog' = <<>>
    BY <1>6 DEF DoTimedOut, machine
  <2>3. prog' \in Seq(TimedOps) /\ Len(prog') <= 1
    <3>1. /\ << <<"tran", "Game">> >> \in Seq(TimedOps) /\ Len(<< <<"tran", "Game">> >>) = 1
          /\ << <<"tran", "Wait">> >> \in Seq(TimedOps) /\ Len(<< <<"tran", "Wait">> >>) = 1
          /\ <<>> \in Seq(TimedOps) /\ Len(<<>>) = 0
      BY DEF TimedOps
    <3>2. 0 <= 1 /\ 1 <= 1
      OBVIOUS
    <3> QED
      BY <2>2, <3>1, <3>2
  <2>4. Ops(curr', inHand') = TimedOps
    BY <2>1, <2>2 DEF Ops
  <2> QED
    BY <1>0, <2>1, <2>2, <2>3, <2>4 DEF Program
<1>7. CASE DoTran
  <2>1. /\ prog # <<>> /\ prog' = Tail(prog) /\ curr' = curr /\ inHand' = None
        /\ Head(prog)[1] = "tran"
    BY <1>7 DEF DoTran, Does, Done, M!Tran, M!DispatchUser
  <2>2. /\ Head(prog) \in Ops(curr, inHand) /\ Tail(prog) \in Seq(Ops(curr, inHand))
        /\ Len(Tail(prog)) = Len(prog) - 1 /\ Len(prog) \in Nat /\ curr # None
    BY <2>1, NextOp DEF Program
  <2>3. CASE curr = "Config"
    <3>1. inHand = "TIMED"
      BY <2>1, <2>2, <2>3, OpFacts
    <3>2. prog' = <<>>
      BY <2>1, <2>2, <2>3, <3>1 DEF Program
    <3> QED
      BY <3>2 DEF Program
  <2>4. CASE curr # "Config"
    <3>1. Ops(curr', inHand') = Ops(curr, inHand)
      BY <2>1, <2>4 DEF Ops
    <3> QED
      BY <2>1, <2>2, <2>4, <3>1 DEF Program
  <2> QED
    BY <2>3, <2>4
<1> QED
  BY <1>1, <1>2, <1>3, <1>4, <1>5, <1>6, <1>7, Others DEF Next, GameThread

LEMMA TicksStep ==
  ASSUME M!TypeOK, Program, Data, Ticks, [Next]_vars
  PROVE  Ticks'
<1>0. None # "TIMED" /\ "TIMED" \notin M!Event
  BY RGBGameAssumption DEF M!Event, M!SysEvent, UserEvent
<1>1. CASE UNCHANGED <<curr, next, inHand, fresh, lost, handler>>
  BY <1>1 DEF Ticks, handler
<1>2. CASE Start \/ GetMessage \/ DoTran \/ Return
  <2>1. UNCHANGED <<accTimeout, timedPlay>>
    BY <1>2 DEF Start, GetMessage, DoTran, Return, handler
  <2>2. curr' = "Init" \/ inHand' \in M!Event \cup {None}
    BY <1>2 DEF Start, M!Start, GetMessage, M!Get, M!TypeOK, DoTran, Return, M!DispatchEntry,
                M!DispatchExit, M!DispatchUser
  <2> QED
    BY <1>0, <2>1, <2>2 DEF Ticks
<1>3. CASE GetTimeout
  BY <1>3 DEF GetTimeout, Ticks, Data
<1>4. CASE DoLocal \/ DoShared \/ DoThread
  <2>1. Head(prog) \in Ops(curr, inHand) /\ UNCHANGED <<curr, inHand>>
    BY <1>4, NextOp DEF DoLocal, DoShared, DoThread, Does, machine
  <2>2. accTimeout' \in Int /\ timedPlay' \in Int
    BY <1>4 DEF DoLocal, DoShared, DoThread, Ticks
  <2>3. curr = "Config" /\ inHand = "TIMED" => ~Does("timeout")
    BY <2>1, OpFacts DEF Does
  <2>4. ~Does("timeout") => timeout' = timeout
    BY <1>4 DEF DoLocal, DoShared, DoThread
  <2> QED
    BY <2>1, <2>2, <2>3, <2>4 DEF Ticks
<1>5. CASE DoTimedOut
  <2>1. curr = "Config" /\ inHand = "TIMED"
    BY <1>5, NextOp, OpFacts DEF DoTimedOut, Does
  <2>2. timeout = 1 /\ UNCHANGED timeout
    BY <1>5, <2>1 DEF DoTimedOut, Ticks
  <2>3. accTimeout' \in Int /\ timedPlay' \in Int
    BY <1>5, <2>2 DEF DoTimedOut, Ticks
  <2> QED
    BY <2>2, <2>3 DEF Ticks
<1> QED
  BY <1>1, <1>2, <1>3, <1>4, <1>5, Others DEF Next, GameThread

LEMMA CountDownStep ==
  ASSUME M!TypeOK, M!TypeOK', Program, Data, ~lost => CountDown, M!TimedWhenSettled,
         [Next]_vars, ~lost'
  PROVE  CountDown'
<1>0. /\ None # "Config" /\ None # "TIMED" /\ None # "Init" /\ None # "ENTRY"
      /\ Forever # 1 /\ None \notin State
  BY RGBGameAssumption DEF State
<1>1. CASE UNCHANGED <<curr, next, inHand, fresh, lost, handler>> /\ UNCHANGED timeout
  BY <1>1 DEF CountDown, Counts, handler
<1>2. CASE Start
  <2>1. curr' = "Init" /\ UNCHANGED <<accTimeout, timedPlay>>
    BY <1>2 DEF Start, M!Start, handler
  <2>2. accTimeout \in 0 .. 3 /\ timedPlay \in 0 .. 1
    BY <1>2 DEF Start, M!Start, M!Raise, CountDown
  <2> QED
    BY <2>1, <2>2 DEF CountDown
<1>3. CASE GetMessage
  <2>1. /\ curr \in State /\ curr' = curr /\ inHand = None /\ inHand' \in M!Event
        /\ prog' = Handler(curr, inHand')
        /\ UNCHANGED <<next, fresh, lost, timeout, accTimeout, timedPlay>>
    BY <1>3 DEF GetMessage, M!Get, M!TypeOK
  <2>2. CountDown
    BY <2>1
  <2>3. ASSUME curr' = "Config", inHand' = "ENTRY"
        PROVE  Due(prog', <<"timeout", 1>>) /\ Due(prog', <<"play">>)
    BY <2>1, <2>3, HandlerOps
  <2>4. ASSUME curr' = "Config", ~fresh', next' = None
        PROVE  Counts'
    <3>1. prog = <<>>
      BY <2>1, <2>4 DEF Program
    <3>2. Counts
      BY <2>1, <2>2, <2>4, <3>1 DEF CountDown
    <3> QED
      BY <2>1, <3>2 DEF Counts
  <2> QED
    BY <2>1, <2>2, <2>3, <2>4 DEF CountDown
<1>4. CASE GetTimeout
  <2>1. /\ curr' = curr /\ inHand = None /\ inHand' = "TIMED"
        /\ UNCHANGED <<next, fresh, lost, timeout, accTimeout, timedPlay>>
    BY <1>4 DEF GetTimeout, M!GetTimeout, M!TimedEvent
  <2>2. CountDown
    BY <2>1
  <2>3. ASSUME curr' = "Config", ~fresh', next' = None
        PROVE  Counts'
    <3>1. prog = <<>>
      BY <2>1, <2>3 DEF Program
    <3>2. Counts
      BY <2>1, <2>2, <2>3, <3>1 DEF CountDown
    <3> QED
      BY <2>1, <3>2 DEF Counts
  <2> QED
    BY <2>1, <2>2, <2>3 DEF CountDown
<1>5. CASE DoLocal \/ DoShared \/ DoThread
  <2>1. /\ prog # <<>> /\ prog' = Tail(prog) /\ UNCHANGED machine
        /\ Head(prog)[1] \in {"timeout", "play", "timer", "load", "or", "andNot", "flags", "cycles", "signal", "thread"}
    BY <1>5 DEF DoLocal, DoShared, DoThread, Does, Done
  <2>2. UNCHANGED <<curr, next, inHand, fresh, lost>> /\ CountDown
    BY <2>1 DEF machine
  <2>3. /\ Head(prog) \in Ops(curr, inHand) /\ prog \in Seq(Ops(curr, inHand))
    BY <2>1, NextOp DEF Program
  <2>4. /\ Head(prog)[1] # "timeout" => timeout' = timeout
        /\ Head(prog)[1] = "timeout" => timeout' = Head(prog)[2]
        /\ Head(prog)[1] # "play" => UNCHANGED <<accTimeout, timedPlay>>
        /\ Head(prog)[1] = "play" => accTimeout' = 3 /\ timedPlay' = 1
    BY <1>5 DEF DoLocal, DoShared, DoThread, Does, Arg
  <2>5. accTimeout' \in 0 .. 3 /\ timedPlay' \in 0 .. 1
    BY <2>2, <2>4 DEF CountDown
  <2>6. curr = "Config" /\ Head(prog)[1] = "timeout" => Head(prog) = <<"timeout", 1>> /\ Head(prog)[2] = 1
    BY <2>3, OpFacts
  <2>7. ASSUME curr' = "Config", inHand' = "ENTRY"
        PROVE  Due(prog', <<"timeout", 1>>) \/ timeout' = 1
    <3>1. Due(prog, <<"timeout", 1>>) \/ timeout = 1
      BY <2>2, <2>7 DEF CountDown
    <3>2. Due(prog, <<"timeout", 1>>) => Head(prog) = <<"timeout", 1>> \/ Due(Tail(prog), <<"timeout", 1>>)
      BY <2>1, <2>3, TailDue
    <3>3. <<"timeout", 1>>[1] = "timeout"
      OBVIOUS
    <3> QED
      BY <2>1, <2>2, <2>4, <2>6, <2>7, <3>1, <3>2, <3>3
  <2>8. ASSUME curr' = "Config", inHand' = "ENTRY"
        PROVE  Due(prog', <<"play">>) \/ (accTimeout' = 3 /\ timedPlay' = 1)
    <3>1. Due(prog, <<"play">>) \/ (accTimeout = 3 /\ timedPlay = 1)
      BY <2>2, <2>8 DEF CountDown
    <3>2. Due(prog, <<"play">>) => Head(prog) = <<"play">> \/ Due(Tail(prog), <<"play">>)
      BY <2>1, <2>3, TailDue
    <3>3. <<"play">>[1] = "play"
      OBVIOUS
    <3> QED
      BY <2>1, <2>4, <3>1, <3>2, <3>3
  <2>9. ASSUME curr' = "Config", ~fresh', next' = None
        PROVE  Counts'
    <3>1. Counts
      BY <2>1, <2>2, <2>9 DEF CountDown
    <3>2. timeout' = 1
      BY <2>2, <2>4, <2>6, <2>9, <3>1 DEF Counts
    <3>3. accTimeout' \in 1 .. 3 /\ timedPlay' = 1
      BY <2>4, <3>1 DEF Counts
    <3> QED
      BY <3>2, <3>3 DEF Counts
  <2> QED
    BY <2>5, <2>7, <2>8, <2>9 DEF CountDown
<1>6. CASE DoTimedOut
  <2>1. /\ curr = "Config" /\ inHand = "TIMED" /\ prog # <<>> /\ Head(prog)[1] = "timedOut"
    BY <1>6, NextOp, OpFacts DEF DoTimedOut, Does
  <2>2. UNCHANGED <<curr, next, inHand, fresh, lost, timeout>>
    BY <1>6 DEF DoTimedOut, machine
  <2>3. next = None /\ ~fresh
    BY <2>1, <2>2 DEF M!TimedWhenSettled, M!TimedEvent
  <2>4. Counts
    BY <2>1, <2>2, <2>3 DEF CountDown
  <2>5. accTimeout' = accTimeout - 1 /\ accTimeout' \in 0 .. 2
    BY <1>6, <2>4 DEF DoTimedOut, Counts
  <2>6. timedPlay' = IF "Touched" \in flags THEN 0 ELSE 1
    BY <1>6, <2>4 DEF DoTimedOut, Counts
  <2>7. prog' = IF "Touched" \in flags THEN << <<"tran", "Game">> >>
                ELSE IF accTimeout' <= 0 THEN << <<"tran", "Wait">> >> ELSE <<>>
    BY <1>6, <2>4 DEF DoTimedOut, Counts
  <2>8. ASSUME prog' = <<>> \/ Head(prog')[1] # "tran"
        PROVE  Counts'
    <3>1. /\ << <<"tran", "Game">> >> # <<>> /\ Head(<< <<"tran", "Game">> >>)[1] = "tran"
          /\ << <<"tran", "Wait">> >> # <<>> /\ Head(<< <<"tran", "Wait">> >>)[1] = "tran"
      OBVIOUS
    <3>2. "Touched" \notin flags /\ ~(accTimeout' <= 0)
      BY <2>7, <2>8, <3>1
    <3> QED
      BY <2>2, <2>4, <2>5, <2>6, <3>2 DEF Counts
  <2>9. timedPlay' \in 0 .. 1 /\ accTimeout' \in 0 .. 3
    BY <2>5, <2>6
  <2> QED
    BY <2>1, <2>2, <2>8, <2>9 DEF CountDown
<1>7. CASE DoTran
  <2>1. /\ curr' = curr /\ inHand' = None /\ next' = Arg /\ Head(prog)[1] = "tran" /\ prog # <<>>
        /\ UNCHANGED <<accTimeout, timedPlay>> /\ ~lost
    BY <1>7 DEF DoTran, Does, M!Tran, M!DispatchUser, M!Raise
  <2>2. next' # None
    BY <1>0, <2>1, NextOp, OpFacts DEF Arg
  <2>3. accTimeout \in 0 .. 3 /\ timedPlay \in 0 .. 1
    BY <2>1 DEF CountDown
  <2> QED
    BY <1>0, <2>1, <2>2, <2>3 DEF CountDown
<1>8. CASE Return
  <2>1. prog = <<>> /\ prog' = <<>> /\ inHand' = None /\ UNCHANGED <<timeout, accTimeout, timedPlay>>
    BY <1>8 DEF Return, M!DispatchEntry, M!DispatchExit, M!DispatchUser, handler
  <2>2. CountDown
    BY <1>8 DEF Return, M!DispatchEntry, M!DispatchExit, M!NextState, M!Raise
  <2>3. accTimeout \in 0 .. 3 /\ timedPlay \in 0 .. 1
    BY <2>2 DEF CountDown
  <2>4. ASSUME curr' = "Config", ~fresh', next' = None
        PROVE  Counts
    <3>1. CASE M!DispatchEntry
      <4>1. curr = "Config" /\ inHand = "ENTRY"
        BY <2>4, <3>1 DEF M!DispatchEntry
      <4>2. ~Due(prog, <<"timeout", 1>>) /\ ~Due(prog, <<"play">>)
        BY <2>1 DEF Due
      <4> QED
        BY <2>2, <4>1, <4>2 DEF CountDown, Counts
    <3>2. CASE M!DispatchExit
      <4>1. next = None
        BY <2>4, <3>2 DEF M!DispatchExit, M!NextState
      <4>2. UNCHANGED <<curr, fresh>>
        BY <3>2, <4>1 DEF M!DispatchExit, M!NextState
      <4> QED
        BY <2>1, <2>2, <2>4, <4>1, <4>2 DEF CountDown
    <3>3. CASE UNCHANGED <<curr, next, queue, fresh, lost>>
      BY <2>1, <2>2, <2>4, <3>3 DEF CountDown
    <3> QED
      BY <1>8, <3>1, <3>2, <3>3 DEF Return
  <2> QED
    BY <1>0, <2>1, <2>3, <2>4 DEF CountDown, Counts
<1> QED
  BY <1>1, <1>2, <1>3, <1>4, <1>5, <1>6, <1>7, <1>8, Others DEF Next, GameThread, handler

\* Every variable of the game keeps its type; above all EV_TIMED never subtracts
\* the endless timeout of another state, and the count-down of stConfig
\* (_acc_timeout, timed_play) stays within its bounds as long as the queue has
\* refused neither EV_ENTRY nor EV_EXIT, whatever messages come in between.
THEOREM Typing == Spec => []TypeOK
<1>1. P!ActiveModuleAssumption
  BY MachineAssumption
     DEF P!ActiveModuleAssumption, M!ActiveModuleAssumption,
         P!Event, M!Event, P!SysEvent, M!SysEvent
<1>2. P!Spec => []P!TypeOK /\ []P!TimedWhenSettled
  BY <1>1, P!Typing, P!Settled
<1>3. M!Spec => P!Spec
  BY SameMachine, PTL DEF M!Spec, P!Spec
<1>4. (P!TypeOK <=> M!TypeOK) /\ (P!TimedWhenSettled <=> M!TimedWhenSettled)
  BY DEF P!TypeOK, M!TypeOK, P!Event, M!Event, P!SysEvent, M!SysEvent, P!TimedEvent, M!TimedEvent,
         P!TimedWhenSettled, M!TimedWhenSettled
<1>5. Spec => []M!TypeOK /\ []M!TimedWhenSettled
  BY <1>2, <1>3, <1>4, GameIsActiveModule, PTL DEF MachineSpec
<1>6. Init => GameInv
  <2> SUFFICES ASSUME Init PROVE GameInv
    OBVIOUS
  <2>1. Data
    <3>1. -1 \in -1 .. LastPoint /\ 0 \in 0 .. MaxTouch
      BY RGBGameAssumption
    <3>2. reg \in [{"game", "fx"} -> SUBSET Flag]
      BY DEF Init
    <3>3. /\ timeout = Forever /\ timer = FALSE /\ flags = {} /\ cycles = 0 /\ signals = {}
          /\ fx = "off" /\ effect = {} /\ point = -1 /\ cycReg = 0 /\ tower = "unset"
          /\ started = FALSE /\ touches = 0
      BY DEF Init
    <3>4. "off" \in FxState
      BY DEF FxState
    <3>5. timer \in BOOLEAN /\ started \in BOOLEAN
      BY <3>3
    <3>6. timeout \in {1, Forever} /\ cycles \in Int /\ cycReg \in Int
      BY <3>3
    <3> QED
      BY <3>1, <3>2, <3>3, <3>4, <3>5, <3>6 DEF Data
  <2>2. curr = None /\ prog = <<>> /\ accTimeout = 0 /\ timedPlay = 0
    BY DEF Init, M!Init
  <2>3. None # "Config"
    BY RGBGameAssumption DEF State
  <2>4. Program
    BY <2>2, <2>3 DEF Program
  <2>5. CountDown /\ Ticks
    BY <2>2, <2>3 DEF CountDown, Ticks
  <2> QED
    BY <2>1, <2>4, <2>5 DEF GameInv
<1>7. GameInv /\ M!TypeOK /\ M!TypeOK' /\ M!TimedWhenSettled /\ [Next]_vars => GameInv'
  <2> SUFFICES ASSUME GameInv, M!TypeOK, M!TypeOK', M!TimedWhenSettled, [Next]_vars
               PROVE  GameInv'
    OBVIOUS
  <2>1. Data' /\ Program' /\ Ticks'
    BY DataStep, ProgramStep, TicksStep DEF GameInv
  <2>2. ASSUME ~lost' PROVE CountDown'
    BY <2>2, CountDownStep DEF GameInv
  <2> QED
    BY <2>1, <2>2 DEF GameInv
<1>8. GameInv /\ M!TypeOK => TypeOK
  BY DEF GameInv, Data, Ticks, CountDown, TypeOK
<1> QED
  BY <1>5, <1>6, <1>7, <1>8, PTL DEF Spec
=============================================================================
