-------------------------- MODULE ProximityManager --------------------------
(***************************************************************************)
(* BspManagers/ProximityManager: start and stop are commands of topics,    *)
(* which the broker delivers one at a time under its lock; the callback of *)
(* the driver sets signals on the manager's thread, which reads the last   *)
(* event from the driver and publishes it.                                 *)
(***************************************************************************)
EXTENDS HCSR04

VARIABLES
  mpc,       \* where the manager's thread is
  sig,       \* the signals that job is handling
  got,       \* which of _last_event and _last_dist_cm sprintf has read
  read,      \* and what it read
  published  \* history: the last event published

manager == <<mpc, sig, got, read, published>>
vars == <<driver, manager>>

TypeOK ==
  /\ DriverTypeOK
  /\ mpc \in {"wait", "job"}
  /\ sig \subseteq {"Dist", "InvalidDist", "MeasureError"}
  /\ got \subseteq {1, 2}
  /\ {read, published} \subseteq Event

Init ==
  /\ DriverInit
  /\ mpc = "wait" /\ sig = {}
  /\ got = {} /\ read = last /\ published = last
-----------------------------------------------------------------------------
\* task: signal_wait
Wait ==
  /\ mpc = "wait" /\ signals # {}
  /\ sig' = signals /\ signals' = {}
  /\ mpc' = "job"
  /\ UNCHANGED <<stat, ticks, edges, timer, measure, sensor, place, bounds, got, read, published>>

\* The arguments of sprintf are read one by one, in an order of the compiler's.
Read(i) ==
  /\ mpc = "job" /\ "Dist" \in sig /\ i \notin got
  /\ got' = got \cup {i}
  /\ read' = [read EXCEPT ![i] = last[i]]
  /\ UNCHANGED <<driver, mpc, sig, published>>

\* publish waits for the broker: a command holds its lock.
PublishDist ==
  /\ mpc = "job" /\ "Dist" \in sig /\ got = {1, 2}
  /\ pc = "idle"
  /\ published' = read
  /\ got' = {}
  /\ sig' = sig \ {"Dist"}
  /\ UNCHANGED <<driver, mpc, read>>

\* Then the other two kinds, each when its signal was set.  What they say is left
\* out: InvalidDist reads the slot of the filter that curr is at, which after start
\* is MaxSamples, one past the last.
PublishOther ==
  /\ mpc = "job" /\ "Dist" \notin sig /\ sig # {}
  /\ pc = "idle"
  /\ sig' = IF "InvalidDist" \in sig THEN sig \ {"InvalidDist"} ELSE {}
  /\ UNCHANGED <<driver, mpc, got, read, published>>

\* mutant of JobDone: signals set meanwhile are cleared
JobDoneClears ==
  /\ mpc = "job" /\ sig = {}
  /\ mpc' = "wait" /\ signals' = {}
  /\ UNCHANGED <<stat, ticks, edges, timer, measure, sensor, place, bounds, sig, got, read, published>>
JobDone ==
  /\ mpc = "job" /\ sig = {}
  /\ mpc' = "wait"
  /\ UNCHANGED <<driver, sig, got, read, published>>

Manager == Wait \/ (\E i \in 1 .. 2 : Read(i)) \/ PublishDist \/ PublishOther \/ JobDone

Driver == DriverNext /\ UNCHANGED manager

Next == Driver \/ Manager

Spec == Init /\ [][Next]_vars

\* Tickers tick, a command that was begun goes on, the manager's thread runs.
Fairness ==
  /\ WF_vars(Trigger /\ UNCHANGED manager)
  /\ WF_vars(EchoMissing /\ UNCHANGED manager)
  /\ WF_vars((StartStep \/ StopStep) /\ UNCHANGED manager)
  /\ WF_vars(Manager)

FairSpec == Spec /\ Fairness
-----------------------------------------------------------------------------
\* A measurement that is under way has its deadline, whatever commands and
\* late echoes have come between, unless stop has just taken it away.
Deadline ==
  stat \in {"WaitingEcho", "WaitingEchoEnds"} /\ pc \notin StopPc => tickFail

\* Between commands the driver is driven by its ticker, or else nothing of it is
\* left: an interrupt between two statements of stop may undo the whole stop,
\* but never leaves a driver that is half alive.
Driven ==
  pc = "idle" /\ ~tickTrig =>
    stat = "Stopped" /\ ~tickFail /\ ~rise /\ ~fall /\ timer = "zero"

\* Between commands, what the end of an echo measures is that echo: the timer
\* was reset before its beginning and has not been touched since.
Honest == stat = "WaitingEchoEnds" /\ pc = "idle" => timer = "echo"

\* HCSR04.h: events follow measures that are alike, all of them taken since start
\* reset the filter, also where echoes ended between two slots that it was
\* clearing.  (An event of an echo that ends in the middle of that loop may
\* still rest on slots of before.)
Filtered ==
  [][last' # last /\ pc # "start.clear" =>
       LET n == Len(samples')
       IN /\ n >= FiltCount
          /\ \A i, j \in n - FiltCount + 1 .. n : samples'[i] - samples'[j] < FiltRange]_vars

\* Although signals merge and the two reads may be of different events, an
\* event that stays the last one is published as it was.
Published == <>[](published = last) \/ []<><<last' # last>>_last
=============================================================================
