------------------------------- MODULE HCSR04 -------------------------------
(***************************************************************************)
(* BspDrivers/HCSR04: distances by ultrasound.  A ticker fires trigger     *)
(* again and again; the sensor answers a trigger with a pulse of its echo  *)
(* line, whose edges call echoStart and echoEnd, or with nothing, and then *)
(* a second ticker fires echoMissing.  The four run as interrupts of one   *)
(* priority: each is one step, and any of them may come between two        *)
(* statements of start and stop, which commands call one at a time.        *)
(***************************************************************************)
EXTENDS Integers, Sequences, FiniteSets

CONSTANTS
  Distance,     \* what an echo may measure, in cm
  MaxRange,     \* MaxDetectableRange
  MaxDist,      \* _max_dist_cm, as set by config before the first start
  ApproachDist, \* _approach_dist_cm
  GoAwayDist,   \* _goaway_dist_cm
  FiltCount,    \* _filter.count
  FiltRange,    \* _filter.range
  InvEvents,    \* _en_inv_evts
  ErrEvents,    \* _en_err_evts
  MaxCmd,       \* bound: commands
  MaxTrig       \* bound: pulses sent to the sensor

MaxSamples == 5    \* MaxFilterSamples

ASSUME HCSR04Assumption ==
  /\ Distance \subseteq Nat /\ 0 \in Distance
  /\ MaxRange \in Nat /\ MaxDist \in 0 .. MaxRange
  /\ ApproachDist \in Nat /\ GoAwayDist \in Nat
  /\ FiltCount \in 0 .. MaxSamples /\ FiltRange \in Nat
  /\ InvEvents \in BOOLEAN /\ ErrEvents \in BOOLEAN
  /\ MaxCmd \in Nat /\ MaxTrig \in Nat

VARIABLES
  stat,      \* _stat
  tickTrig,  \* _tick_trig is attached
  tickFail,  \* _tick_fail is attached
  rise,      \* the rising edge calls echoStart
  fall,      \* the falling edge calls echoEnd
  timer,     \* _echo_tmr: at zero, counting this echo, counting for longer, or held
  filter,    \* _filter.dist_cm, the slots in use
  curr,      \* _filter.curr
  last,      \* <<_last_event, _last_dist_cm>>
  signals,   \* what distEventCb, the callback, has set
  sensor,    \* the sensor: quiet, about to answer, or with its echo line high
  pc,        \* the statement of start or stop the command is at
  slot,      \* i, the slot that the loop of start clears next; 0 outside it
  samples,   \* history: what the filter was given since start last reset curr
  cmds, trigs

ticks == <<tickTrig, tickFail>>
edges == <<rise, fall>>
measure == <<filter, curr, last, samples>>
place == <<pc, slot>>
bounds == <<cmds, trigs>>
driver == <<stat, ticks, edges, timer, measure, signals, sensor, place, bounds>>

StartPc == {"start.stop", "start.reset", "start.curr", "start.clear", "start.stat",
            "start.attach"}
StopPc == {"stop.trig", "stop.fail", "stop.rise", "stop.fall", "stop.timer",
           "stop.reset", "stop.stat"}
Slot == 0 .. FiltCount - 1
Sample == 0 .. MaxDist
Event == {"NoEvents", "Approaching", "MovingAway"} \X (Sample \cup {-1})

DriverTypeOK ==
  /\ stat \in {"Stopped", "WaitingTrigger", "WaitingEcho", "WaitingEchoEnds"}
  /\ tickTrig \in BOOLEAN /\ tickFail \in BOOLEAN
  /\ rise \in BOOLEAN /\ fall \in BOOLEAN
  /\ timer \in {"zero", "echo", "longer", "held"}
  /\ filter \in [Slot -> Sample \cup {MaxRange + FiltRange}]
  /\ curr \in Slot \cup {0, MaxSamples}
  /\ last \in Event
  /\ signals \subseteq {"Dist", "InvalidDist", "MeasureError"}
  /\ sensor \in {"quiet", "answering", "high"}
  /\ pc \in {"idle"} \cup StartPc \cup StopPc /\ slot \in Slot \cup {0}
  /\ samples \in Seq(Sample)
  /\ cmds \in 0 .. MaxCmd /\ trigs \in 0 .. MaxTrig

DriverInit ==
  /\ stat = "Stopped"
  /\ tickTrig = FALSE /\ tickFail = FALSE /\ rise = FALSE /\ fall = FALSE
  /\ timer = "zero"
  /\ filter = [i \in Slot |-> MaxRange + FiltRange] /\ curr = MaxSamples
  /\ last = <<"NoEvents", -1>>
  /\ signals = {} /\ sensor = "quiet" /\ pc = "idle" /\ slot = 0
  /\ samples = <<>> /\ cmds = 0 /\ trigs = 0
-----------------------------------------------------------------------------
(* The interrupts.                                                         *)

MeasureError == signals' = IF ErrEvents THEN signals \cup {"MeasureError"} ELSE signals

\* mutant of Restart: the timer goes on
RestartKeepsTimer ==
  /\ tickFail' = FALSE /\ tickTrig' = TRUE
  /\ rise' = FALSE /\ fall' = FALSE
  /\ stat' = "WaitingTrigger"
  /\ MeasureError
  /\ UNCHANGED <<timer, measure>>
\* restart, which every error ends in
Restart ==
  /\ tickFail' = FALSE /\ tickTrig' = TRUE
  /\ timer' = "zero"
  /\ rise' = FALSE /\ fall' = FALSE
  /\ stat' = "WaitingTrigger"
  /\ MeasureError
  /\ UNCHANGED measure

\* mutant of Trigger: the deadline starts with the echo, if one comes
TriggerNoDeadline ==
  /\ tickTrig
  /\ trigs < MaxTrig
  /\ \/ stat # "WaitingTrigger" /\ Restart /\ UNCHANGED <<sensor, trigs>>
     \/ /\ stat = "WaitingTrigger"
        /\ stat' = "WaitingEcho"
        /\ rise' = TRUE /\ fall' = TRUE
        /\ sensor' = IF sensor = "quiet" THEN "answering" ELSE sensor
        /\ trigs' = trigs + 1
        /\ UNCHANGED <<ticks, timer, measure, signals>>
  /\ UNCHANGED <<place, cmds>>
Trigger ==
  /\ tickTrig
  /\ trigs < MaxTrig
  /\ \/ stat # "WaitingTrigger" /\ Restart /\ UNCHANGED <<sensor, trigs>>
     \/ /\ stat = "WaitingTrigger"
        /\ stat' = "WaitingEcho"
        /\ tickFail' = TRUE
        /\ rise' = TRUE /\ fall' = TRUE
        /\ sensor' = IF sensor = "quiet" THEN "answering" ELSE sensor
        /\ trigs' = trigs + 1
        /\ UNCHANGED <<tickTrig, timer, measure, signals>>
  /\ UNCHANGED <<place, cmds>>

\* The echo line goes up.
EchoStart ==
  /\ sensor = "answering" /\ sensor' = "high"
  /\ \/ ~rise /\ UNCHANGED <<stat, ticks, edges, timer, measure, signals>>
     \/ rise /\ stat # "WaitingEcho" /\ Restart
     \/ /\ rise /\ stat = "WaitingEcho"
        /\ timer' = IF timer = "zero" THEN "echo" ELSE "longer"
        /\ stat' = "WaitingEchoEnds"
        /\ UNCHANGED <<ticks, edges, measure, signals>>
  /\ UNCHANGED <<place, bounds>>

\* mutant of PutSample: one slot too many
PutSampleOver(d) ==
  LET next == IF curr + 1 > FiltCount THEN 0 ELSE curr + 1
  IN /\ curr' = next
     /\ filter' = [i \in Slot |-> IF i = next THEN d ELSE filter[i]]
\* filtData: d is put in the next slot; it counts if the slots are alike.
PutSample(d) ==
  LET next == IF curr + 1 >= FiltCount THEN 0 ELSE curr + 1
  IN /\ curr' = next
     /\ filter' = [i \in Slot |-> IF i = next THEN d ELSE filter[i]]

Alike(slots) == \A i, j \in Slot : slots[i] - slots[j] < FiltRange

\* distance_cm after the clipping: beyond the range there is no measure
Clip(d) == IF d >= MaxDist /\ d < MaxRange THEN MaxDist ELSE d

Evaluate(d) ==
  LET near == d < last[2] - ApproachDist
      far == d > last[2] + GoAwayDist
  IN \/ /\ Alike(filter') /\ (near \/ far)
        /\ last' = <<IF near THEN "Approaching" ELSE "MovingAway", d>>
        /\ signals' = signals \cup {"Dist"}
     \/ /\ Alike(filter') /\ ~near /\ ~far
        /\ UNCHANGED <<last, signals>>
     \/ /\ ~Alike(filter')
        /\ signals' = IF InvEvents THEN signals \cup {"InvalidDist"} ELSE signals
        /\ UNCHANGED last

\* What _echo_tmr reads at the end of the echo.
FlyTime == IF timer = "zero" THEN {0} ELSE Distance

\* The echo line goes down.
EchoEnd ==
  /\ sensor = "high" /\ sensor' = "quiet"
  /\ \/ ~fall /\ UNCHANGED <<stat, ticks, edges, timer, measure, signals>>
     \/ fall /\ stat # "WaitingEchoEnds" /\ Restart
     \/ /\ fall /\ stat = "WaitingEchoEnds"
        /\ tickFail' = FALSE /\ timer' = "zero" /\ rise' = FALSE /\ fall' = FALSE
        /\ \E f \in FlyTime :
             LET d == Clip(f)
             IN \/ d <= MaxDist /\ PutSample(d) /\ Evaluate(d) /\ samples' = Append(samples, d)
                \/ d > MaxDist /\ UNCHANGED <<measure, signals>>
        /\ stat' = "WaitingTrigger"
        /\ UNCHANGED tickTrig
  /\ UNCHANGED <<place, bounds>>

EchoMissing ==
  /\ tickFail
  /\ Restart
  /\ UNCHANGED <<sensor, place, bounds>>

\* The sensor does not answer.
NoAnswer ==
  /\ sensor = "answering" /\ sensor' = "quiet"
  /\ UNCHANGED <<stat, ticks, edges, timer, measure, signals, place, bounds>>
-----------------------------------------------------------------------------
(* start and stop, statement by statement.                                 *)

Call(op) ==
  /\ pc = "idle" /\ pc' = op
  /\ cmds < MaxCmd /\ cmds' = cmds + 1
  /\ UNCHANGED <<stat, ticks, edges, timer, measure, signals, sensor, slot, trigs>>

At(p, q) == pc = p /\ pc' = q /\ UNCHANGED <<signals, sensor, slot, bounds>>

StopTimer(p, q) ==
  /\ At(p, q) /\ timer' = IF timer = "zero" THEN "zero" ELSE "held"
  /\ UNCHANGED <<stat, ticks, edges, measure>>

ResetTimer(p, q) ==
  /\ At(p, q)
  /\ timer' = IF timer \in {"echo", "longer"} THEN "longer" ELSE "zero"
  /\ UNCHANGED <<stat, ticks, edges, measure>>

SetStat(p, q, s) ==
  /\ At(p, q) /\ stat' = s
  /\ UNCHANGED <<ticks, edges, timer, measure>>

ResetCurr ==
  /\ At("start.curr", "start.clear")
  /\ curr' = MaxSamples
  /\ samples' = <<>>
  /\ UNCHANGED <<stat, ticks, edges, timer, filter, last>>

\* mutant of ClearSlot: the loop ends one slot early
ClearSlotShort ==
  /\ pc = "start.clear"
  /\ filter' = [filter EXCEPT ![slot] = MaxRange + FiltRange]
  /\ \/ slot + 2 < FiltCount /\ slot' = slot + 1 /\ UNCHANGED pc
     \/ slot + 2 >= FiltCount /\ slot' = 0 /\ pc' = "start.stat"
  /\ UNCHANGED <<stat, ticks, edges, timer, curr, last, signals, sensor, samples, bounds>>
\* One turn of the loop of start; the slots after FiltCount are never read.
ClearSlot ==
  /\ pc = "start.clear"
  /\ filter' = [filter EXCEPT ![slot] = MaxRange + FiltRange]
  /\ \/ slot + 1 < FiltCount /\ slot' = slot + 1 /\ UNCHANGED pc
     \/ slot + 1 >= FiltCount /\ slot' = 0 /\ pc' = "start.stat"
  /\ UNCHANGED <<stat, ticks, edges, timer, curr, last, signals, sensor, samples, bounds>>

Attach ==
  /\ At("start.attach", "idle") /\ tickTrig' = TRUE
  /\ UNCHANGED <<stat, tickFail, edges, timer, measure>>

StartStep ==
  \/ StopTimer("start.stop", "start.reset")
  \/ ResetTimer("start.reset", "start.curr")
  \/ ResetCurr
  \/ ClearSlot
  \/ SetStat("start.stat", "start.attach", "WaitingTrigger")
  \/ Attach

DetachTicks ==
  \/ /\ At("stop.trig", "stop.fail") /\ tickTrig' = FALSE
     /\ UNCHANGED <<stat, tickFail, edges, timer, measure>>
  \/ /\ At("stop.fail", "stop.rise") /\ tickFail' = FALSE
     /\ UNCHANGED <<stat, tickTrig, edges, timer, measure>>

IgnoreEdges ==
  \/ /\ At("stop.rise", "stop.fall") /\ rise' = FALSE
     /\ UNCHANGED <<stat, ticks, fall, timer, measure>>
  \/ /\ At("stop.fall", "stop.timer") /\ fall' = FALSE
     /\ UNCHANGED <<stat, ticks, rise, timer, measure>>

\* mutant of StopStep: the state changes first
StopStepEarly ==
  \/ SetStat("stop.trig", "stop.fail", "Stopped")
  \/ /\ At("stop.fail", "stop.rise") /\ tickTrig' = FALSE /\ tickFail' = FALSE
     /\ UNCHANGED <<stat, edges, timer, measure>>
  \/ IgnoreEdges
  \/ StopTimer("stop.timer", "stop.reset")
  \/ ResetTimer("stop.reset", "idle")
StopStep ==
  \/ DetachTicks
  \/ IgnoreEdges
  \/ StopTimer("stop.timer", "stop.reset")
  \/ ResetTimer("stop.reset", "stop.stat")
  \/ SetStat("stop.stat", "idle", "Stopped")

Command == Call("start.stop") \/ Call("stop.trig") \/ StartStep \/ StopStep

Interrupt == Trigger \/ EchoStart \/ EchoEnd \/ EchoMissing

DriverNext == Interrupt \/ NoAnswer \/ Command
=============================================================================
