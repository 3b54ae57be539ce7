------------------------------ MODULE RGBGame ------------------------------
(***************************************************************************)
(* The game (Apps/RGBGame): an active object with the states stInit,       *)
(* stWait, stConfig and stGame, a second thread that plays the light and   *)
(* servo effects, and a one-shot game timer.  The two threads have the     *)
(* same priority and share _stat.flags and _stat.cycles without a lock, so *)
(* every read-modify-write of them is two steps here.  The machine itself  *)
(* is ActiveModule, whose actions the steps of the game thread are built   *)
(* from.  Colours, angles and the published text are not modelled, nor     *)
(* FlagUpdate and FlagFinished, which nothing sets or reads.               *)
(***************************************************************************)
EXTENDS Integers, Sequences

CONSTANTS QueueSize,      \* MaxQueueMessages
          LastPoint,      \* NumSteps+16, the last point of a wave cycle
          InfiniteCycles,
          Forever,        \* osWaitForever
          MaxTouch,       \* bound: touch messages in a behaviour
          None

State == {"Init", "Wait", "Config", "Game"}
UserEvent == {"TouchPress", "EffectCycle", "EffectEnd", "GameTimed"}
Effect == {"Wave", "SwitchOff", "SwitchLeds"}
Flag == {"DoServos", "DoLedStart", "Cancel", "Touched"}

\* The values of a touch message, and the one subscriptionCb discards.
TouchedEvent == 1
ReleasedEvent == 0
TouchReleaseEvt == 32

\* The tranState calls of the four handlers.
Moves == { <<"Init", "EffectEnd", "Wait">>,
           <<"Wait", "TouchPress", "Config">>,
           <<"Config", "TIMED", "Game">>,
           <<"Config", "TIMED", "Wait">>,
           <<"Game", "TouchPress", "Config">>,
           <<"Game", "EffectEnd", "Wait">> }

ASSUME RGBGameAssumption ==
  /\ QueueSize \in Nat \ {0}
  /\ LastPoint \in Nat \ {0}
  /\ InfiniteCycles \in Nat /\ InfiniteCycles > 1
  /\ Forever \notin Nat
  /\ MaxTouch \in Nat
  /\ None \notin State \cup UserEvent \cup {"ENTRY", "EXIT", "TIMED"}

VARIABLES
  base, curr, next, queue, inHand, ready, entered, fresh, lost, \* the machine
  prog,        \* what the handler in progress still has to do
  timeout,     \* _timeout, in units of 10 s
  accTimeout,  \* _acc_timeout
  timedPlay,   \* timed_play, a static of Config_EventHandler
  timer,       \* _tmr is running
  flags,       \* _stat.flags
  cycles,      \* _stat.cycles
  signals,     \* the signals set on _th_effect and not taken yet
  fx,          \* where the effects thread is
  effect,      \* oe.value.signals, what it was last woken with
  point,       \* the local of waveEffect
  reg,         \* what each thread has loaded of flags
  cycReg,      \* what the effects thread has loaded of cycles
  tower,       \* what the tower shows
  started,     \* the led signals were started (_ls->start)
  touches      \* touch messages so far

machine == <<base, curr, next, queue, inHand, ready, entered, fresh, lost>>
handler == <<prog, timeout, accTimeout, timedPlay>>
effects == <<fx, effect, point, cycReg, tower, started>>
shared == <<flags, cycles, signals, reg>>
vars == <<machine, handler, timer, shared, effects, touches>>

M == INSTANCE ActiveModule WITH StInit <- "Init"

FxState == {"off", "idle", "clear", "clearStore", "run", "head", "update",
            "updateStore", "check", "cancelStore", "point", "decrement", "cycle",
            "cycleWait", "stepWait", "lastWait", "finish", "finishStore", "post"}

\* The count-down of stConfig starts with its EV_ENTRY: when the queue refused
\* that one, EV_TIMED goes on with the count of the visit before.
TypeOK ==
  /\ M!TypeOK
  /\ timeout \in {1, Forever}
  /\ accTimeout \in Int /\ timedPlay \in Int
  /\ ~lost => accTimeout \in 0 .. 3 /\ timedPlay \in 0 .. 1
  /\ timer \in BOOLEAN
  /\ flags \subseteq Flag
  /\ cycles \in Int
  /\ signals \subseteq Effect
  /\ fx \in FxState
  /\ effect \subseteq Effect
  /\ point \in -1 .. LastPoint
  /\ reg \in [{"game", "fx"} -> SUBSET Flag]
  /\ cycReg \in Int
  /\ tower \in {"unset", "wave", "leds", "dark"}
  /\ started \in BOOLEAN
  /\ touches \in 0 .. MaxTouch

\* The constructor; _stat and the timeouts of stConfig get their first values
\* in the EV_ENTRY handlers that precede every use.
Init ==
  /\ M!Init
  /\ prog = <<>>
  /\ timeout = Forever /\ accTimeout = 0 /\ timedPlay = 0
  /\ timer = FALSE
  /\ flags = {} /\ cycles = 0 /\ signals = {}
  /\ fx = "off" /\ effect = {} /\ point = -1
  /\ reg = [t \in {"game", "fx"} |-> {}] /\ cycReg = 0
  /\ tower = "unset" /\ started = FALSE
  /\ touches = 0
-----------------------------------------------------------------------------
(* The handlers, as the shared-memory steps they make in order.            *)

\* mutant of StartEffect: the effect in progress is not cancelled
StartEffectNoCancel(e) == << <<"signal", e>> >>
StartEffect(e) == << <<"load">>, <<"or", "Cancel">>, <<"signal", e>> >>

\* mutant of InitEntry: the effect is started before its flags are set
InitEntryLateFlags ==
  << <<"thread">>, <<"cycles", 1>> >> \o StartEffect("Wave") \o << <<"flags", "DoLedStart">> >>
InitEntry ==
  << <<"thread">>, <<"cycles", 1>>, <<"flags", "DoLedStart">> >> \o StartEffect("Wave")

\* mutant of WaitHandler: EV_ENTRY does not arm the 10 s timeout
WaitHandlerNoTimeout(e) ==
  CASE e = "TIMED"      -> << <<"timeout", Forever>> >> \o StartEffect("SwitchOff")
    [] e = "TouchPress" -> << <<"tran", "Config">> >>
    [] OTHER            -> <<>>
WaitHandler(e) ==
  CASE e = "ENTRY"      -> << <<"timeout", 1>> >>
    [] e = "TIMED"      -> << <<"timeout", Forever>> >> \o StartEffect("SwitchOff")
    [] e = "TouchPress" -> << <<"tran", "Config">> >>
    [] OTHER            -> <<>>

\* mutant of ConfigHandler: EV_ENTRY leaves the cycles of the game
ConfigHandlerNoCycles(e) ==
  CASE e = "ENTRY"      -> << <<"timeout", 1>>, <<"play">>, <<"flags", "DoServos">> >>
                             \o StartEffect("Wave")
    [] e = "TIMED"      -> << <<"timedOut">> >>
    [] e = "TouchPress" -> << <<"load">>, <<"or", "Touched">>, <<"play">>, <<"cycles", 1>>,
                              <<"load">>, <<"andNot", "DoServos">> >> \o StartEffect("SwitchLeds")
    [] OTHER            -> <<>>
ConfigHandler(e) ==
  CASE e = "ENTRY"      -> << <<"timeout", 1>>, <<"play">>, <<"cycles", 1>>,
                              <<"flags", "DoServos">> >> \o StartEffect("Wave")
    [] e = "TIMED"      -> << <<"timedOut">> >>
    [] e = "TouchPress" -> << <<"load">>, <<"or", "Touched">>, <<"play">>, <<"cycles", 1>>,
                              <<"load">>, <<"andNot", "DoServos">> >> \o StartEffect("SwitchLeds")
    [] OTHER            -> <<>>

\* mutant of GameHandler: the end of the game does not cancel the wave
GameHandlerNoCancel(e) ==
  CASE e = "ENTRY"      -> << <<"timeout", Forever>>, <<"timer", TRUE>>,
                              <<"cycles", InfiniteCycles>>, <<"flags", "DoServos">> >>
                             \o StartEffect("Wave")
    [] e = "TouchPress" -> << <<"timer", FALSE>>, <<"tran", "Config">> >>
    [] e = "EffectEnd"  -> << <<"tran", "Wait">> >>
    [] OTHER            -> <<>>
\* EffectCycle only publishes the colours.
GameHandler(e) ==
  CASE e = "ENTRY"      -> << <<"timeout", Forever>>, <<"timer", TRUE>>,
                              <<"cycles", InfiniteCycles>>, <<"flags", "DoServos">> >>
                             \o StartEffect("Wave")
    [] e = "GameTimed"  -> << <<"load">>, <<"or", "Cancel">> >>
    [] e = "TouchPress" -> << <<"timer", FALSE>>, <<"tran", "Config">> >>
    [] e = "EffectEnd"  -> << <<"tran", "Wait">> >>
    [] OTHER            -> <<>>

Handler(s, e) ==
  CASE s = "Init" /\ e = "ENTRY"     -> InitEntry
    [] s = "Init" /\ e = "EffectEnd" -> << <<"tran", "Wait">> >>
    [] s = "Init" /\ e \notin {"ENTRY", "EffectEnd"} -> <<>>
    [] s = "Wait"   -> WaitHandler(e)
    [] s = "Config" -> ConfigHandler(e)
    [] s = "Game"   -> GameHandler(e)
-----------------------------------------------------------------------------
(* The game thread.                                                        *)

\* setPublicationBase, setSubscriptionBase and the start of task().
SetBase(b) == M!SetBase(b) /\ UNCHANGED <<handler, timer, shared, effects, touches>>
Start == M!Start /\ UNCHANGED <<handler, timer, shared, effects, touches>>

GetMessage ==
  /\ M!Get
  /\ prog' = Handler(curr, Head(queue))
  /\ UNCHANGED <<timeout, accTimeout, timedPlay, timer, shared, effects, touches>>

\* Timing: the effects take less than 6 s from the last message they post or
\* are started by, so the 10 s of _timeout do not pass while one is played.
GetTimeout ==
  /\ timeout # Forever
  /\ fx = "idle" /\ signals = {}
  /\ M!GetTimeout
  /\ prog' = Handler(curr, "TIMED")
  /\ UNCHANGED <<timeout, accTimeout, timedPlay, timer, shared, effects, touches>>

\* The next step of the handler is op; arg is its argument.
Does(op) == prog # <<>> /\ Head(prog)[1] = op
Arg == Head(prog)[2]
Done == prog' = Tail(prog)

\* What only the game thread and its timer see.
DoLocal ==
  /\ \/ /\ Does("timeout")
        /\ timeout' = Arg
        /\ UNCHANGED <<accTimeout, timedPlay, timer>>
     \/ /\ Does("play")
        /\ accTimeout' = 3
        /\ timedPlay' = 1
        /\ UNCHANGED <<timeout, timer>>
     \/ /\ Does("timer")
        /\ timer' = Arg
        /\ UNCHANGED <<timeout, accTimeout, timedPlay>>
  /\ Done
  /\ UNCHANGED <<machine, shared, effects, touches>>

\* Config_EventHandler, EV_TIMED, up to the transition it decides on.
DoTimedOut ==
  LET acc == accTimeout - timeout
      play == IF "Touched" \in flags THEN timedPlay - timeout ELSE timedPlay
  IN /\ Does("timedOut")
     /\ accTimeout' = acc
     /\ timedPlay' = play
     /\ prog' = IF "Touched" \in flags /\ play <= 0 THEN << <<"tran", "Game">> >>
                ELSE IF acc <= 0 THEN << <<"tran", "Wait">> >>
                ELSE <<>>
     /\ UNCHANGED <<machine, timeout, timer, shared, effects, touches>>

\* What it shares with the effects thread.
DoShared ==
  /\ \/ /\ Does("load")
        /\ reg' = [reg EXCEPT !["game"] = flags]
        /\ UNCHANGED <<flags, cycles, signals>>
     \/ /\ Does("or")
        /\ flags' = reg["game"] \cup {Arg}
        /\ reg' = [reg EXCEPT !["game"] = {}]
        /\ UNCHANGED <<cycles, signals>>
     \/ /\ Does("andNot")
        /\ flags' = reg["game"] \ {Arg}
        /\ reg' = [reg EXCEPT !["game"] = {}]
        /\ UNCHANGED <<cycles, signals>>
     \/ /\ Does("flags")
        /\ flags' = {Arg}
        /\ UNCHANGED <<cycles, signals, reg>>
     \/ /\ Does("cycles")
        /\ cycles' = Arg
        /\ UNCHANGED <<flags, signals, reg>>
     \/ /\ Does("signal")
        /\ signals' = signals \cup {Arg}
        /\ UNCHANGED <<flags, cycles, reg>>
  /\ Done
  /\ UNCHANGED <<machine, timeout, accTimeout, timedPlay, timer, effects, touches>>

\* _th_effect.start
DoThread ==
  /\ Does("thread")
  /\ fx' = "idle"
  /\ Done
  /\ UNCHANGED <<machine, timeout, accTimeout, timedPlay, timer, shared,
                 effect, point, cycReg, tower, started, touches>>

\* tranState and the return of the handler.
DoTran ==
  /\ Does("tran")
  /\ M!DispatchUser
  /\ M!Tran(Arg)
  /\ Done
  /\ UNCHANGED <<timeout, accTimeout, timedPlay, timer, shared, effects, touches>>

\* The return of every other handler; that of EV_EXIT calls nextState.
Return ==
  /\ prog = <<>>
  /\ \/ M!DispatchEntry
     \/ M!DispatchExit
     \/ UNCHANGED <<curr, next, queue, fresh, lost>> /\ M!DispatchUser
  /\ UNCHANGED <<handler, timer, shared, effects, touches>>

GameThread == \/ GetMessage \/ GetTimeout \/ DoLocal \/ DoTimedOut
              \/ DoShared \/ DoThread \/ DoTran \/ Return
-----------------------------------------------------------------------------
(* Touches and the timer.                                                  *)

\* mutant of Discards: the filter compares with what a release is sent as
DiscardsRelease(value) == value = ReleasedEvent
Discards(value) == value = TouchReleaseEvt

\* mutant of TouchMessage: the touches are subscribed before the game is ready
TouchMessageEarly(value) ==
  /\ touches < MaxTouch
  /\ touches' = touches + 1
  /\ IF Discards(value) THEN UNCHANGED machine
     ELSE /\ M!Put("TouchPress")
          /\ UNCHANGED <<base, curr, next, inHand, ready, entered, fresh, lost>>
  /\ UNCHANGED <<handler, timer, shared, effects>>
\* subscriptionCb, in the thread of the touch manager; the application
\* subscribes it once ready() holds.
TouchMessage(value) ==
  /\ ready
  /\ touches < MaxTouch
  /\ touches' = touches + 1
  /\ IF Discards(value) THEN UNCHANGED machine ELSE M!Post("TouchPress")
  /\ UNCHANGED <<handler, timer, shared, effects>>

\* timed(), in the timer thread.  Timing: by the end of the 30 s the handler
\* that started the timer has returned and its effect is being played.
TimerExpires ==
  /\ timer
  /\ prog = <<>>
  /\ signals = {} /\ fx \notin {"clear", "clearStore"}
  /\ timer' = FALSE
  /\ M!Post("GameTimed")
  /\ UNCHANGED <<handler, shared, effects, touches>>
-----------------------------------------------------------------------------
(* The effects thread.                                                     *)

\* signal_wait(0): takes whatever signals are set, all at once.
FxWake ==
  /\ fx = "idle"
  /\ signals # {}
  /\ effect' = signals
  /\ signals' = {}
  /\ fx' = "clear"
  /\ UNCHANGED <<machine, handler, timer, flags, cycles, reg, point, cycReg,
                 tower, started, touches>>

FxLoad(at, to) ==
  /\ fx = at
  /\ reg' = [reg EXCEPT !["fx"] = flags]
  /\ fx' = to
  /\ UNCHANGED <<flags>>

FxStore(at, cleared, to) ==
  /\ fx = at
  /\ flags' = reg["fx"] \ cleared
  /\ reg' = [reg EXCEPT !["fx"] = {}]
  /\ fx' = to

\* The read-modify-writes of flags: on waking up, before and after a wave
\* gives way to a cancel, and when an effect has finished.
FxFlags ==
  /\ \/ FxLoad("clear", "clearStore")
     \/ FxStore("clearStore", {"Cancel"}, "run")
     \/ FxLoad("update", "updateStore")
     \/ FxStore("updateStore", {}, "check")
     \/ "Cancel" \in flags /\ FxLoad("check", "cancelStore")
     \/ FxStore("cancelStore", {"Cancel"}, "finish")
     \/ FxLoad("finish", "finishStore")
     \/ FxStore("finishStore", {}, "post")
  /\ UNCHANGED <<machine, handler, timer, cycles, signals, effect, point, cycReg,
                 tower, started, touches>>

\* The switch of effectsThread; a value that is no single effect matches no case.
FxRun ==
  /\ fx = "run"
  /\ effect' = {}
  /\ \/ /\ effect = {"Wave"}
        /\ tower' = "wave"
        /\ started' = (started \/ "DoLedStart" \in flags)
        /\ fx' = "head"
     \/ /\ effect = {"SwitchOff"}
        /\ tower' = "dark"
        /\ fx' = "finish"
        /\ UNCHANGED started
     \/ /\ effect = {"SwitchLeds"}
        /\ tower' = "leds"
        /\ fx' = "finish"
        /\ UNCHANGED started
     \/ /\ effect \notin {{e} : e \in Effect}
        /\ fx' = "finish"
        /\ UNCHANGED <<tower, started>>
  /\ point' = -1
  /\ UNCHANGED <<machine, handler, timer, shared, cycReg, touches>>

\* The head of the loop of waveEffect, and its second look at the cancel.
FxHead ==
  /\ \/ /\ fx = "head" /\ "Cancel" \in flags
        /\ point' = -1 /\ tower' = "wave" /\ fx' = "update"
     \/ /\ \/ fx = "head" /\ "Cancel" \notin flags
           \/ fx = "check" /\ "Cancel" \notin flags
        /\ fx' = "point" /\ UNCHANGED <<point, tower>>
  /\ UNCHANGED <<machine, handler, timer, shared, effect, cycReg, started, touches>>

\* mutant of NextPoint: the cycle has one point too many
NextPointOver == IF point <= LastPoint THEN point + 1 ELSE 0
\* mutant of NextPoint: the cycle never wraps around
NextPointStuck == IF point < LastPoint THEN point + 1 ELSE LastPoint
NextPoint == IF point < LastPoint THEN point + 1 ELSE 0

FxPoint ==
  /\ fx = "point"
  /\ point' = NextPoint
  /\ IF NextPoint # 0 THEN fx' = "stepWait" /\ UNCHANGED cycReg
     ELSE IF cycles = InfiniteCycles THEN fx' = "cycle" /\ UNCHANGED cycReg
     ELSE fx' = "decrement" /\ cycReg' = cycles
  /\ UNCHANGED <<machine, handler, timer, shared, effect, tower, started, touches>>

FxDecrement ==
  /\ fx = "decrement"
  /\ cycles' = cycReg - 1
  /\ cycReg' = 0
  /\ fx' = IF cycReg - 1 < 0 THEN "lastWait" ELSE "cycle"
  /\ UNCHANGED <<machine, handler, timer, flags, signals, reg, effect, point,
                 tower, started, touches>>

\* The two messages of the effects thread.
FxPost ==
  /\ \/ fx = "cycle" /\ M!Post("EffectCycle") /\ fx' = "cycleWait" /\ UNCHANGED point
     \/ fx = "post" /\ M!Post("EffectEnd") /\ fx' = "idle" /\ point' = -1
  /\ UNCHANGED <<handler, timer, shared, effect, cycReg, tower, started, touches>>

\* The waits of waveEffect end.  Timing: the game thread has handled an
\* EffectCycle when the 2 s that follow it are over.
FxResume ==
  /\ \/ /\ \/ fx = "stepWait"
           \/ fx = "cycleWait" /\ ~M!Pending("EffectCycle")
        /\ tower' = "wave"
        /\ fx' = "head"
     \/ /\ fx = "lastWait"
        /\ fx' = "finish"
        /\ UNCHANGED tower
  /\ UNCHANGED <<machine, handler, timer, shared, effect, point, cycReg, started, touches>>

EffectsThread == \/ FxWake \/ FxFlags \/ FxRun \/ FxHead \/ FxPoint
                 \/ FxDecrement \/ FxPost \/ FxResume
-----------------------------------------------------------------------------
Next ==
  \/ \E b \in {"pub", "sub"} : SetBase(b)
  \/ Start
  \/ GameThread
  \/ EffectsThread
  \/ \E value \in {TouchedEvent, ReleasedEvent} : TouchMessage(value)
  \/ TimerExpires

Spec == Init /\ [][Next]_vars

\* Both threads are scheduled (equal priorities, round robin) and timers expire.
FairSpec == /\ Spec
            /\ \A b \in {"pub", "sub"} : WF_vars(SetBase(b))
            /\ WF_vars(Start)
            /\ WF_vars(GameThread)
            /\ WF_vars(EffectsThread)
            /\ WF_vars(TimerExpires)
-----------------------------------------------------------------------------
\* The game is an active object: every step of it is a step of ActiveModule or
\* leaves the machine alone.
MachineSpec == M!Spec

\* The led signals are started by the first wave, which the flags set before
\* startEffect tell the other thread to do, and before the game goes on.
LedsStarted == curr \in {"Wait", "Config", "Game"} => started

\* An effect that has been started is always taken up by the effects thread.
\* The cancel of startEffect may be lost to a read-modify-write of flags in
\* waveEffect, so this needs every effect that can be started over an endless
\* wave to have made that wave finite before.
EffectTakenUp == (signals # {}) ~> (signals = {})

\* stGame ends: the timer, a touch or the end of the effect leads out of it.
GameEnds == (curr = "Game") ~> (curr # "Game")

\* stConfig ends once the touches do.
ConfigEnds == (curr = "Config") ~> (curr # "Config")

\* Without touches stWait turns the tower off, unless an endless wave was left
\* running: the end of an earlier effect, handled in stGame, does that.
WaitGoesDark ==
  (curr = "Wait" /\ cycles # InfiniteCycles) ~> (tower = "dark" \/ curr # "Wait")
=============================================================================
