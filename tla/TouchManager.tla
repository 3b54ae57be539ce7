---------------------------- MODULE TouchManager ----------------------------
(***************************************************************************)
(* BspManagers/TouchManager on the MPR121 touch controller.  The chip      *)
(* pulls its interrupt line down when its status changes and lets it go    *)
(* when the status is read; only the falling edge interrupts.  The         *)
(* interrupt and two tickers, a glitch filter of 30 ms and a hold tick of  *)
(* 500 ms, set signals on the thread, which takes all that are set and     *)
(* handles them in the order Irq, Hold, AntiGlitch, reading the status     *)
(* anew for each.  Nothing bounds how late the thread is: it publishes,    *)
(* and the broker may make it wait.                                        *)
(***************************************************************************)
EXTENDS Naturals, FiniteSets

CONSTANTS Elec,       \* the electrodes, by number
          MaxChange,  \* bound: changes of the chip's status
          MaxError    \* bound: failures of the i2c bus

ASSUME TouchAssumption ==
  /\ Elec \subseteq Nat
  /\ MaxChange \in Nat /\ MaxError \in Nat

VARIABLES
  elec,      \* the status of the chip: the electrodes that are touched
  line,      \* the interrupt line is down
  signals,   \* the signals set on _th
  glitch,    \* _tick_glitch is attached
  hold,      \* _tick_hold is attached
  pc,        \* where the thread is
  sig,       \* the signals that job is handling
  sns,       \* _sns
  curr,      \* _curr_sns
  todo,      \* electrodes that job has still to publish
  reported,  \* history: the electrodes whose last message was a touch
  changes,   \* changes so far
  errors     \* failures so far

timers == <<glitch, hold>>
thread == <<pc, sig, sns, curr, todo>>
vars == <<elec, line, signals, timers, thread, reported, changes, errors>>

Signal == {"Irq", "Hold", "AntiGlitch"}

TypeOK ==
  /\ elec \subseteq Elec
  /\ line \in BOOLEAN
  /\ signals \subseteq Signal /\ sig \subseteq Signal
  /\ glitch \in BOOLEAN /\ hold \in BOOLEAN
  /\ pc \in {"start", "wait", "irq", "hold", "repeat", "glitch", "report"}
  /\ sns \subseteq Elec /\ curr \subseteq Elec /\ todo \subseteq Elec
  /\ reported \subseteq Elec
  /\ changes \in 0 .. MaxChange /\ errors \in 0 .. MaxError

Init ==
  /\ elec \in SUBSET Elec /\ line \in BOOLEAN
  /\ signals = {} /\ sig = {}
  /\ glitch = FALSE /\ hold = FALSE
  /\ pc = "start"
  /\ sns = {} /\ curr = {} /\ todo = {} /\ reported = {}
  /\ changes = 0 /\ errors = 0
-----------------------------------------------------------------------------
(* The chip and the interrupts.                                            *)

\* The status changes; onIrqCb at the edge, if there is one and _th has been
\* started.
Change ==
  /\ changes < MaxChange
  /\ changes' = changes + 1
  /\ \E s \in SUBSET Elec \ {elec} : elec' = s
  /\ line' = TRUE
  /\ \/ ~line /\ signals' = signals \cup {"Irq"}
     \/ (line \/ pc = "start") /\ UNCHANGED signals
  /\ UNCHANGED <<timers, thread, reported, errors>>

\* isrTickCb: the ticker is used once.
GlitchTick ==
  /\ glitch
  /\ glitch' = FALSE
  /\ signals' = signals \cup {"AntiGlitch"}
  /\ UNCHANGED <<elec, line, hold, thread, reported, changes, errors>>

\* isrTickHoldCb: again and again until it is detached.
HoldTick ==
  /\ hold
  /\ signals' = signals \cup {"Hold"}
  /\ UNCHANGED <<elec, line, timers, thread, reported, changes, errors>>

\* touched() gives v: the status, or nothing at all when the bus fails.
Touched(v) ==
  \/ v = elec /\ line' = FALSE /\ UNCHANGED errors
  \/ v = {} /\ errors < MaxError /\ errors' = errors + 1 /\ UNCHANGED line
-----------------------------------------------------------------------------
(* The thread: task() and job().                                           *)

\* mutant of StartTask: there is no first read
StartTaskBlind ==
  /\ pc = "start"
  /\ pc' = "wait"
  /\ UNCHANGED <<elec, line, signals, timers, sig, sns, curr, todo, reported, changes, errors>>
\* The first status is the current state, and is not published.  (Before, task
\* sleeps until the driver is Ready; the model begins there.)
StartTask ==
  /\ pc = "start"
  /\ \E v \in SUBSET Elec : Touched(v) /\ curr' = v
  /\ pc' = "wait"
  /\ UNCHANGED <<elec, signals, timers, sig, sns, todo, reported, changes>>

\* signal_wait(0)
Take ==
  /\ pc = "wait"
  /\ signals # {}
  /\ sig' = signals /\ signals' = {}
  /\ pc' = "irq"
  /\ UNCHANGED <<elec, line, timers, sns, curr, todo, reported, changes, errors>>

\* mutant of Irq: the filter is started once per hold
IrqOnce ==
  /\ pc = "irq" /\ "Irq" \in sig
  /\ \E v \in SUBSET Elec :
       /\ Touched(v)
       /\ sns' = v
       /\ IF v = curr
          THEN pc' = "wait" /\ sig' = {} /\ UNCHANGED glitch
          ELSE pc' = "hold" /\ glitch' = ~hold /\ UNCHANGED sig
  /\ UNCHANGED <<elec, signals, hold, curr, todo, reported, changes>>
\* An interrupt: job returns at once if nothing has changed, even if it was
\* given other signals; or else the filter is started.
Irq ==
  /\ pc = "irq" /\ "Irq" \in sig
  /\ \E v \in SUBSET Elec :
       /\ Touched(v)
       /\ sns' = v
       /\ IF v = curr
          THEN pc' = "wait" /\ sig' = {} /\ UNCHANGED glitch
          ELSE pc' = "hold" /\ glitch' = TRUE /\ UNCHANGED sig
  /\ UNCHANGED <<elec, signals, hold, curr, todo, reported, changes>>

\* mutant of Hold: a release does not stop the ticker
HoldGoesOn ==
  /\ pc = "hold" /\ "Hold" \in sig
  /\ \E v \in SUBSET Elec :
       /\ Touched(v)
       /\ sns' = v
       /\ IF v # curr
          THEN /\ hold' = FALSE
               /\ curr' = v
               /\ pc' = "wait" /\ sig' = {} /\ UNCHANGED todo
          ELSE /\ todo' = v
               /\ pc' = "repeat" /\ UNCHANGED <<hold, curr, sig>>
  /\ UNCHANGED <<elec, signals, glitch, reported, changes>>
\* A hold tick: what is still touched is published again.  A change stops the
\* ticks, becomes the current state, and job returns.
Hold ==
  /\ pc = "hold" /\ "Hold" \in sig
  /\ \E v \in SUBSET Elec :
       /\ Touched(v)
       /\ sns' = v
       /\ IF v # curr \/ v = {}
          THEN /\ hold' = FALSE
               /\ curr' = v
               /\ pc' = "wait" /\ sig' = {} /\ UNCHANGED todo
          ELSE /\ todo' = v
               /\ pc' = "repeat" /\ UNCHANGED <<hold, curr, sig>>
  /\ UNCHANGED <<elec, signals, glitch, reported, changes>>

\* The filter's tick: a status that did not last stops the hold ticks; one that
\* did is published where it differs from the current state.
AntiGlitch ==
  /\ pc = "glitch" /\ "AntiGlitch" \in sig
  /\ \E v \in SUBSET Elec :
       /\ Touched(v)
       /\ IF v # sns
          THEN /\ hold' = FALSE
               /\ pc' = "wait" /\ sig' = {} /\ UNCHANGED todo
          ELSE /\ todo' = (sns \ curr) \cup (curr \ sns)
               /\ pc' = "report" /\ UNCHANGED <<hold, sig>>
  /\ UNCHANGED <<elec, signals, glitch, sns, curr, reported, changes>>

\* The parts of job whose signal was not given.
Skip ==
  /\ \/ pc = "irq" /\ "Irq" \notin sig /\ pc' = "hold" /\ UNCHANGED sig
     \/ pc = "hold" /\ "Hold" \notin sig /\ pc' = "glitch" /\ UNCHANGED sig
     \/ pc = "glitch" /\ "AntiGlitch" \notin sig /\ pc' = "wait" /\ sig' = {}
  /\ UNCHANGED <<elec, line, signals, timers, sns, curr, todo, reported, changes, errors>>

\* One message: ELEC,1 or ELEC,0, in the order of the electrodes.
Publish ==
  /\ pc \in {"repeat", "report"}
  /\ \E e \in todo :
       /\ \A f \in todo : e <= f
       /\ todo' = todo \ {e}
       /\ reported' = IF e \in sns THEN reported \cup {e} ELSE reported \ {e}
  /\ UNCHANGED <<elec, line, signals, timers, pc, sig, sns, curr, changes, errors>>

\* All are published; after a change the hold ticks are started (again).
Published ==
  /\ pc \in {"repeat", "report"} /\ todo = {}
  /\ curr' = sns
  /\ \/ pc = "repeat" /\ pc' = "glitch" /\ UNCHANGED <<hold, sig>>
     \/ pc = "report" /\ pc' = "wait" /\ sig' = {} /\ hold' = TRUE
  /\ UNCHANGED <<elec, line, signals, glitch, sns, todo, reported, changes, errors>>

Job == Irq \/ Hold \/ AntiGlitch \/ Skip \/ Publish \/ Published

Next == Change \/ GlitchTick \/ HoldTick \/ StartTask \/ Take \/ Job

Spec == Init /\ [][Next]_vars

\* Tickers tick and the thread runs; electrodes are under no obligation.
Fairness ==
  /\ WF_vars(GlitchTick) /\ WF_vars(HoldTick)
  /\ WF_vars(StartTask) /\ WF_vars(Take) /\ WF_vars(Job)

FairSpec == Spec /\ Fairness
-----------------------------------------------------------------------------
Pending(s) == s \in signals \cup sig

\* While the bus works no interrupt goes unattended: the line is never left
\* down without the read that lets it go, or there would be no edge any more.
Attended ==
  errors = 0 /\ line => pc = "start" \/ "Irq" \in signals \/ (pc = "irq" /\ "Irq" \in sig)

\* While the bus works the module is up to date whenever nothing is pending,
\* although a hold tick takes changes from the filter, an interrupt drops the
\* ticks that came with it, and a status that does not last is dropped.
Settled ==
  errors = 0 /\ pc = "wait" /\ signals = {} /\ ~glitch => curr = elec

\* With nothing touched the module comes to rest: no tick and no message.
ComesToRest == <>[](elec = {}) => <>[](pc = "wait" /\ signals = {} /\ ~hold /\ ~glitch)

\* TouchManager.h:18 "Para notificar liberacion en nodo ELEC": a release that
\* lasts is notified.
ReleaseNotified ==
  \A e \in Elec : e \in reported /\ e \notin elec ~> e \notin reported \/ e \in elec
=============================================================================
