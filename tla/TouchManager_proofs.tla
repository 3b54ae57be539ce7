------------------------- MODULE TouchManager_proofs -------------------------
(***************************************************************************)
(* As long as the bus works, every change of the electrodes is attended to *)
(* and the module is up to date whenever nothing is pending.               *)
(***************************************************************************)
EXTENDS TouchManager, TLAPS

\* An interrupt has been signalled and not been handled yet.
IrqPending == "Irq" \in signals \/ (pc = "irq" /\ "Irq" \in sig)

\* So has the tick of the filter, or else it is still to come.
FilterPending ==
  \/ glitch \/ "AntiGlitch" \in signals
  \/ pc \in {"irq", "hold", "glitch"} /\ "AntiGlitch" \in sig
  \/ pc = "report"

\* What is neither the last reading nor the current state will be read.
Seen == elec \notin {sns, curr} => IrqPending

\* What is being published is the status, or that will be read.
Fresh == pc \in {"repeat", "report"} => elec = sns \/ IrqPending

\* A reading that is not the current state yet waits for the filter.
Filtering == elec = sns /\ sns # curr => FilterPending \/ IrqPending

IInv ==
  /\ TypeOK
  /\ Attended
  /\ errors = 0 /\ pc # "start" => Seen /\ Fresh /\ Filtering
-----------------------------------------------------------------------------
\* TypeOK in two parts, for the provers: what is Boolean, and the rest.
Switches == line \in BOOLEAN /\ glitch \in BOOLEAN /\ hold \in BOOLEAN

Data ==
  /\ elec \subseteq Elec
  /\ signals \subseteq Signal /\ sig \subseteq Signal
  /\ pc \in {"start", "wait", "irq", "hold", "repeat", "glitch", "report"}
  /\ sns \subseteq Elec /\ curr \subseteq Elec /\ todo \subseteq Elec
  /\ reported \subseteq Elec
  /\ changes \in 0 .. MaxChange /\ errors \in 0 .. MaxError

LEMMA SwitchesStep == Switches /\ [Next]_vars => Switches'
<1> SUFFICES ASSUME Switches, [Next]_vars PROVE Switches'
  OBVIOUS
<1> USE DEF Switches
<1>1. CASE Change
  BY <1>1 DEF Change, timers, thread
<1>2. CASE GlitchTick
  BY <1>2 DEF GlitchTick, thread
<1>3. CASE HoldTick
  BY <1>3 DEF HoldTick, timers, thread
<1>4. CASE StartTask
  BY <1>4 DEF StartTask, Touched, timers
<1>5. CASE Take
  BY <1>5 DEF Take, timers
<1>6. CASE Irq
  BY <1>6 DEF Irq, Touched
<1>7. CASE Hold
  BY <1>7 DEF Hold, Touched
<1>8. CASE AntiGlitch
  BY <1>8 DEF AntiGlitch, Touched
<1>9. CASE Skip
  BY <1>9 DEF Skip, timers
<1>10. CASE Publish
  BY <1>10 DEF Publish, timers
<1>11. CASE Published
  BY <1>11 DEF Published
<1>12. CASE UNCHANGED vars
  BY <1>12 DEF vars, timers, thread
<1>13. QED
  BY <1>1, <1>2, <1>3, <1>4, <1>5, <1>6, <1>7, <1>8, <1>9, <1>10, <1>11, <1>12 DEF Next, Job

LEMMA DataStep == Data /\ [Next]_vars => Data'
<1> SUFFICES ASSUME Data, [Next]_vars PROVE Data'
  OBVIOUS
<1> USE TouchAssumption DEF Data, Signal
<1>1. CASE Change
  <2>1. elec' \subseteq Elec /\ changes' \in 0 .. MaxChange
    BY <1>1 DEF Change
  <2>2. signals' \subseteq Signal
    BY <1>1 DEF Change
  <2>3. QED
    BY <1>1, <2>1, <2>2 DEF Change, timers, thread
<1>2. CASE GlitchTick
  BY <1>2 DEF GlitchTick, thread
<1>3. CASE HoldTick
  BY <1>3 DEF HoldTick, timers, thread
<1>4. CASE StartTask
  BY <1>4 DEF StartTask, Touched, timers
<1>5. CASE Take
  BY <1>5 DEF Take, timers
<1>6. CASE Irq
  <2>1. PICK v \in SUBSET Elec : Irq!2!(v)
    BY <1>6 DEF Irq
  <2>2. errors' \in 0 .. MaxError
    BY <2>1 DEF Touched
  <2>3. sns' \subseteq Elec /\ curr' \subseteq Elec /\ todo' \subseteq Elec
    BY <1>6, <2>1 DEF Irq
  <2>4. sig' \subseteq Signal /\ pc' \in {"wait", "hold", "repeat", "report"}
    BY <1>6, <2>1 DEF Irq
  <2>5. QED
    BY <1>6, <2>2, <2>3, <2>4 DEF Irq
<1>7. CASE Hold
  <2>1. PICK v \in SUBSET Elec : Hold!2!(v)
    BY <1>7 DEF Hold
  <2>2. errors' \in 0 .. MaxError
    BY <2>1 DEF Touched
  <2>3. sns' \subseteq Elec /\ curr' \subseteq Elec /\ todo' \subseteq Elec
    BY <1>7, <2>1 DEF Hold
  <2>4. sig' \subseteq Signal /\ pc' \in {"wait", "hold", "repeat", "report"}
    BY <1>7, <2>1 DEF Hold
  <2>5. QED
    BY <1>7, <2>2, <2>3, <2>4 DEF Hold
<1>8. CASE AntiGlitch
  <2>1. PICK v \in SUBSET Elec : AntiGlitch!2!(v)
    BY <1>8 DEF AntiGlitch
  <2>2. errors' \in 0 .. MaxError
    BY <2>1 DEF Touched
  <2>3. sns' \subseteq Elec /\ curr' \subseteq Elec /\ todo' \subseteq Elec
    BY <1>8, <2>1 DEF AntiGlitch
  <2>4. sig' \subseteq Signal /\ pc' \in {"wait", "hold", "repeat", "report"}
    BY <1>8, <2>1 DEF AntiGlitch
  <2>5. QED
    BY <1>8, <2>2, <2>3, <2>4 DEF AntiGlitch
<1>9. CASE Skip
  BY <1>9 DEF Skip, timers
<1>10. CASE Publish
  BY <1>10 DEF Publish, timers
<1>11. CASE Published
  BY <1>11 DEF Published
<1>12. CASE UNCHANGED vars
  BY <1>12 DEF vars, timers, thread
<1>13. QED
  BY <1>1, <1>2, <1>3, <1>4, <1>5, <1>6, <1>7, <1>8, <1>9, <1>10, <1>11, <1>12 DEF Next, Job

\* TypeOK is inductive by itself.
LEMMA TypeStep == TypeOK /\ [Next]_vars => TypeOK'
<1>1. TypeOK <=> Switches /\ Data
  BY DEF TypeOK, Switches, Data
<1>2. TypeOK' <=> Switches' /\ Data'
  BY DEF TypeOK, Switches, Data
<1>3. QED
  BY <1>1, <1>2, SwitchesStep, DataStep

LEMMA TypeInit == Init => TypeOK
<1>1. Init => Switches
  BY DEF Init, Switches
<1>2. Init => Data
  BY TouchAssumption DEF Init, Data
<1>3. QED
  BY <1>1, <1>2 DEF TypeOK, Switches, Data

\* The type invariant of TouchManager holds for any electrodes and any number
\* of changes and failures.
THEOREM TypeCorrect == Spec => []TypeOK
  BY TypeInit, TypeStep, PTL DEF Spec

\* A failure is never forgotten.
LEMMA ErrorsGrow == TypeOK /\ [Next]_vars /\ errors' = 0 => errors = 0
<1> SUFFICES ASSUME TypeOK, [Next]_vars, errors' = 0 PROVE errors = 0
  OBVIOUS
<1>1. errors \in Nat /\ (errors' = errors \/ errors' = errors + 1)
  BY DEF TypeOK, Next, Job, Change, GlitchTick, HoldTick, StartTask, Take, Irq, Hold,
         AntiGlitch, Skip, Publish, Published, Touched, vars
<1>2. QED
  BY <1>1

\* Of the parts of the invariant each action can disturb a few.
LEMMA InvStep == IInv /\ [Next]_vars => IInv'
<1> SUFFICES ASSUME IInv, [Next]_vars PROVE IInv'
  OBVIOUS
<1>0. TypeOK /\ TypeOK'
  BY TypeStep DEF IInv
<1> SUFFICES ASSUME errors' = 0
             PROVE  /\ Attended'
                    /\ pc' # "start" => Seen' /\ Fresh' /\ Filtering'
  BY <1>0 DEF IInv, Attended
<1>a. errors = 0 /\ Attended /\ (pc # "start" => Seen /\ Fresh /\ Filtering)
  BY <1>0, ErrorsGrow DEF IInv
<1>b. errors' # errors + 1
  BY <1>a
<1> USE DEF Attended, Seen, Fresh, Filtering, IrqPending, FilterPending
<1>1. CASE Change
  BY <1>a, <1>1 DEF Change, timers, thread
<1>2. CASE GlitchTick
  BY <1>a, <1>2 DEF GlitchTick, thread
<1>3. CASE HoldTick
  BY <1>a, <1>3 DEF HoldTick, timers, thread
<1>4. CASE StartTask
  BY <1>a, <1>b, <1>4 DEF StartTask, Touched, timers
<1>5. CASE Take
  BY <1>a, <1>5 DEF Take, timers
<1>6. CASE Irq
  BY <1>a, <1>b, <1>6 DEF Irq, Touched
<1>7. CASE Hold
  BY <1>a, <1>b, <1>7 DEF Hold, Touched
<1>8. CASE AntiGlitch
  BY <1>a, <1>b, <1>8 DEF AntiGlitch, Touched
<1>9. CASE Skip
  BY <1>a, <1>9 DEF Skip, timers
<1>10. CASE Publish
  BY <1>a, <1>10 DEF Publish, timers
<1>11. CASE Published
  BY <1>a, <1>11 DEF Published
<1>12. CASE UNCHANGED vars
  BY <1>a, <1>12 DEF vars, timers, thread
<1>13. QED
  BY <1>1, <1>2, <1>3, <1>4, <1>5, <1>6, <1>7, <1>8, <1>9, <1>10, <1>11, <1>12 DEF Next, Job

LEMMA Invariance == Spec => []IInv
<1>1. Init => IInv
  <2>1. Init => pc = "start"
    BY DEF Init
  <2>2. QED
    BY <2>1, TypeInit DEF IInv, Attended
<1>2. QED
  BY <1>1, InvStep, PTL DEF Spec

\* While the bus works the interrupt line is never left down unattended.
THEOREM LineAttended == Spec => []Attended
<1>1. IInv => Attended
  BY DEF IInv
<1>2. QED
  BY <1>1, Invariance, PTL

\* While the bus works the module is up to date whenever nothing is pending:
\* by Seen the status is the reading or the current state, and by Filtering the
\* reading is the current state.
THEOREM UpToDate == Spec => []Settled
<1>1. IInv => Settled
  BY DEF IInv, Settled, Seen, Filtering, FilterPending, IrqPending
<1>2. QED
  BY <1>1, Invariance, PTL
=============================================================================
