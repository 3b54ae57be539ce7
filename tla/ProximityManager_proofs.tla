----------------------- MODULE ProximityManager_proofs -----------------------
(***************************************************************************)
(* The driver keeps its deadline, is driven or quiet, and measures what it *)
(* says, for any distances and any number of commands and triggers.        *)
(***************************************************************************)
EXTENDS ProximityManager, TLAPS

USE DEF place

\* How far stop has got, if no interrupt has brought the ticker back.
Quieter ==
  ~tickTrig =>
    /\ pc \in {"stop.rise", "stop.fall", "stop.timer", "stop.reset", "stop.stat"} => ~tickFail
    /\ pc \in {"stop.fall", "stop.timer", "stop.reset", "stop.stat"} => ~rise
    /\ pc \in {"stop.timer", "stop.reset", "stop.stat"} => ~fall
    /\ pc = "stop.reset" => timer \in {"zero", "held"}
    /\ pc = "stop.stat" => timer = "zero"

\* echoEnd is attached whenever an accepted echoStart is.
Edges ==
  stat = "WaitingEcho" /\ rise /\ pc \notin {"stop.timer", "stop.reset", "stop.stat"} => fall

\* The timer runs only while an echo does whose end will reset it, unless stop
\* has cut that short; then the driver is stopped, and whatever comes next
\* resets the timer.
Runs ==
  /\ timer = "held" => pc \in {"stop.timer", "stop.reset", "start.reset"}
  /\ timer \in {"echo", "longer"} =>
       \/ sensor = "high" /\ fall
       \/ pc \in {"stop.timer", "stop.reset", "stop.stat"}
       \/ stat = "Stopped" /\ pc \in {"idle", "start.stop"} \cup StopPc

\* Until start or stop touches the timer, it times the echo.
Times ==
  stat = "WaitingEchoEnds" /\ pc \in {"idle", "start.stop", "start.attach", "stop.trig",
                                      "stop.fail", "stop.rise", "stop.fall"}
    => timer = "echo"

TimerType == timer \in {"zero", "echo", "longer", "held"}

IInv == TimerType /\ Deadline /\ Driven /\ Quieter /\ Edges /\ Runs /\ Times
-----------------------------------------------------------------------------
\* What the invariant is about, and is left alone by the manager's thread and by
\* most statements.
core == <<stat, tickTrig, tickFail, rise, fall, timer, sensor, pc>>

LEMMA CoreUnchanged == IInv /\ UNCHANGED core => IInv'
  BY DEF IInv, TimerType, Deadline, Driven, Quieter, Edges, Runs, Times, core

LEMMA TriggerInv == IInv /\ Trigger => IInv'
<1> SUFFICES ASSUME IInv, Trigger PROVE IInv'
  OBVIOUS
<1> USE DEF IInv, TimerType, Deadline, Driven, Quieter, Edges, Runs, Times, StopPc
<1>1. CASE stat # "WaitingTrigger"
  BY <1>1 DEF Trigger, Restart
<1>2. CASE stat = "WaitingTrigger"
  BY <1>2 DEF Trigger, Restart
<1>3. QED
  BY <1>1, <1>2

LEMMA EchoStartInv == IInv /\ EchoStart => IInv'
<1> SUFFICES ASSUME IInv, EchoStart PROVE IInv'
  OBVIOUS
<1> USE DEF IInv, TimerType, Deadline, Driven, Quieter, Edges, Runs, Times, StopPc
<1>1. CASE ~rise
  BY <1>1 DEF EchoStart, ticks, edges, bounds
<1>2. CASE rise /\ stat # "WaitingEcho"
  BY <1>2 DEF EchoStart, Restart, bounds
<1>3. CASE rise /\ stat = "WaitingEcho"
  BY <1>3 DEF EchoStart, ticks, edges, bounds
<1>4. QED
  BY <1>1, <1>2, <1>3

LEMMA EchoEndInv == IInv /\ EchoEnd => IInv'
<1> SUFFICES ASSUME IInv, EchoEnd PROVE IInv'
  OBVIOUS
<1> USE DEF IInv, TimerType, Deadline, Driven, Quieter, Edges, Runs, Times, StopPc
<1>1. CASE ~fall
  BY <1>1 DEF EchoEnd, ticks, edges, bounds
<1>2. CASE fall /\ stat # "WaitingEchoEnds"
  BY <1>2 DEF EchoEnd, Restart, bounds
<1>3. CASE fall /\ stat = "WaitingEchoEnds"
  BY <1>3 DEF EchoEnd, ticks, edges, bounds
<1>4. QED
  BY <1>1, <1>2, <1>3

LEMMA EchoMissingInv == IInv /\ EchoMissing => IInv'
  BY DEF EchoMissing, Restart, bounds, IInv, TimerType, Deadline, Driven, Quieter, Edges,
         Runs, Times, StopPc

LEMMA NoAnswerInv == IInv /\ NoAnswer => IInv'
  BY DEF NoAnswer, ticks, edges, bounds, IInv, TimerType, Deadline, Driven, Quieter, Edges,
         Runs, Times, StopPc

LEMMA StartInv == IInv /\ (Call("start.stop") \/ StartStep) => IInv'
<1> SUFFICES ASSUME IInv, Call("start.stop") \/ StartStep PROVE IInv'
  OBVIOUS
<1> USE DEF IInv, TimerType, Deadline, Driven, Quieter, Edges, Runs, Times, StopPc,
            At, ticks, edges
<1>1. CASE Call("start.stop")
  BY <1>1 DEF Call
<1>2. CASE StopTimer("start.stop", "start.reset")
  BY <1>2 DEF StopTimer
<1>3. CASE ResetTimer("start.reset", "start.curr")
  BY <1>3 DEF ResetTimer
<1>4. CASE ResetCurr \/ ClearSlot
  BY <1>4 DEF ResetCurr, ClearSlot
<1>5. CASE SetStat("start.stat", "start.attach", "WaitingTrigger")
  BY <1>5 DEF SetStat
<1>6. CASE Attach
  BY <1>6 DEF Attach
<1>7. QED
  BY <1>1, <1>2, <1>3, <1>4, <1>5, <1>6 DEF StartStep

LEMMA StopInv == IInv /\ (Call("stop.trig") \/ StopStep) => IInv'
<1> SUFFICES ASSUME IInv, Call("stop.trig") \/ StopStep PROVE IInv'
  OBVIOUS
<1> USE DEF IInv, TimerType, Deadline, Driven, Quieter, Edges, Runs, Times, StopPc,
            At, ticks, edges
<1>1. CASE Call("stop.trig")
  BY <1>1 DEF Call
<1>2. CASE DetachTicks
  BY <1>2 DEF DetachTicks
<1>3. CASE IgnoreEdges
  BY <1>3 DEF IgnoreEdges
<1>4. CASE StopTimer("stop.timer", "stop.reset")
  BY <1>4 DEF StopTimer
<1>5. CASE ResetTimer("stop.reset", "stop.stat")
  BY <1>5 DEF ResetTimer
<1>6. CASE SetStat("stop.stat", "idle", "Stopped")
  BY <1>6 DEF SetStat
<1>7. QED
  BY <1>1, <1>2, <1>3, <1>4, <1>5, <1>6 DEF StopStep

LEMMA ManagerInv == IInv /\ (Manager \/ UNCHANGED vars) => IInv'
<1>1. Manager \/ UNCHANGED vars => UNCHANGED core
  BY DEF Manager, Wait, Read, PublishDist, PublishOther, JobDone, vars, driver, core, ticks, edges
<1>2. QED
  BY <1>1, CoreUnchanged

LEMMA Invariance == Spec => []IInv
<1>1. Init => IInv
  BY DEF Init, DriverInit, IInv, TimerType, Deadline, Driven, Quieter, Edges, Runs, Times
<1>2. IInv /\ [Next]_vars => IInv'
  BY TriggerInv, EchoStartInv, EchoEndInv, EchoMissingInv, NoAnswerInv, StartInv, StopInv,
     ManagerInv DEF Next, Driver, DriverNext, Interrupt, Command
<1>3. QED
  BY <1>1, <1>2, PTL DEF Spec

\* Every measurement under way has its deadline.
THEOREM DeadlineKept == Spec => []Deadline
<1>1. IInv => Deadline
  BY DEF IInv
<1>2. QED
  BY <1>1, Invariance, PTL

\* A driver that its ticker does not drive is stopped in all its parts.
THEOREM DrivenOrQuiet == Spec => []Driven
<1>1. IInv => Driven
  BY DEF IInv
<1>2. QED
  BY <1>1, Invariance, PTL

\* What the end of an echo measures is that echo.
THEOREM MeasuresTheEcho == Spec => []Honest
<1>1. IInv => Honest
  BY DEF IInv, Times, Honest
<1>2. QED
  BY <1>1, Invariance, PTL
-----------------------------------------------------------------------------
(* The types, in parts: the switches, the filter, and the rest.            *)

SwitchType ==
  /\ tickTrig \in BOOLEAN /\ tickFail \in BOOLEAN
  /\ rise \in BOOLEAN /\ fall \in BOOLEAN

FilterType ==
  /\ filter \in [Slot -> Sample \cup {MaxRange + FiltRange}]
  /\ curr \in Slot \cup {0, MaxSamples}
  /\ last \in Event
  /\ samples \in Seq(Sample)

PlaceType ==
  /\ stat \in {"Stopped", "WaitingTrigger", "WaitingEcho", "WaitingEchoEnds"}
  /\ timer \in {"zero", "echo", "longer", "held"}
  /\ signals \subseteq {"Dist", "InvalidDist", "MeasureError"}
  /\ sensor \in {"quiet", "answering", "high"}
  /\ pc \in {"idle"} \cup StartPc \cup StopPc /\ slot \in Slot \cup {0}
  /\ cmds \in 0 .. MaxCmd /\ trigs \in 0 .. MaxTrig

ManagerType ==
  /\ mpc \in {"wait", "job"}
  /\ sig \subseteq {"Dist", "InvalidDist", "MeasureError"}
  /\ got \subseteq {1, 2}
  /\ read \in Event /\ published \in Event

LEMMA SwitchStep == SwitchType /\ [Next]_vars => SwitchType'
<1> SUFFICES ASSUME SwitchType, [Next]_vars PROVE SwitchType'
  OBVIOUS
<1> USE DEF SwitchType, ticks, edges
<1>1. CASE Interrupt
  BY <1>1 DEF Interrupt, Trigger, EchoStart, EchoEnd, EchoMissing, Restart
<1>2. CASE NoAnswer
  BY <1>2 DEF NoAnswer
<1>3. CASE Command
  BY <1>3 DEF Command, Call, StartStep, StopStep, StopTimer, ResetTimer, SetStat, ResetCurr,
              ClearSlot, Attach, DetachTicks, IgnoreEdges
<1>4. CASE UNCHANGED ticks /\ UNCHANGED edges
  BY <1>4
<1> QED
  BY <1>1, <1>2, <1>3, <1>4
     DEF Next, Driver, DriverNext, Manager, Wait, Read, PublishDist, PublishOther, JobDone, vars,
         driver

LEMMA SampleType ==
  ASSUME FilterType, NEW d \in Sample, PutSample(d), Evaluate(d), samples' = Append(samples, d)
  PROVE  FilterType'
<1>1. FiltCount \in Nat /\ FiltCount <= MaxSamples
  BY HCSR04Assumption DEF MaxSamples
<1>2. curr \in Nat
  BY <1>1 DEF FilterType, Slot, MaxSamples
<1>3. curr' \in Slot \cup {0, MaxSamples}
  BY <1>1, <1>2 DEF PutSample, Slot
<1>4. filter' \in [Slot -> Sample \cup {MaxRange + FiltRange}]
  BY DEF PutSample, FilterType
<1>5. last' \in Event
  BY DEF Evaluate, FilterType, Event
<1>6. samples' \in Seq(Sample)
  BY DEF FilterType
<1> QED
  BY <1>3, <1>4, <1>5, <1>6 DEF FilterType

LEMMA FilterStep == FilterType /\ [Next]_vars => FilterType'
<1> SUFFICES ASSUME FilterType, [Next]_vars PROVE FilterType'
  OBVIOUS
<1>1. CASE UNCHANGED measure
  BY <1>1 DEF FilterType, measure
<1>2. CASE EchoEnd
  <2>1. CASE fall /\ stat = "WaitingEchoEnds"
    <3>1. PICK f \in FlyTime :
            \/ Clip(f) <= MaxDist /\ PutSample(Clip(f)) /\ Evaluate(Clip(f))
               /\ samples' = Append(samples, Clip(f))
            \/ UNCHANGED <<measure, signals>>
      BY <1>2, <2>1 DEF EchoEnd
    <3>2. Clip(f) \in Nat
      BY HCSR04Assumption DEF FlyTime, Clip
    <3>3. CASE Clip(f) <= MaxDist /\ PutSample(Clip(f)) /\ Evaluate(Clip(f))
               /\ samples' = Append(samples, Clip(f))
      <4>1. Clip(f) \in Sample
        BY <3>2, <3>3, HCSR04Assumption DEF Sample
      <4> QED
        BY <3>3, <4>1, SampleType
    <3> QED
      BY <1>1, <3>1, <3>3
  <2>2. CASE ~(fall /\ stat = "WaitingEchoEnds")
    BY <1>1, <1>2, <2>2 DEF EchoEnd, Restart
  <2> QED
    BY <2>1, <2>2
<1>3. CASE ResetCurr
  <2>1. samples' \in Seq(Sample)
    BY <1>3 DEF ResetCurr
  <2> QED
    BY <1>3, <2>1 DEF ResetCurr, FilterType
<1>4. CASE ClearSlot
  BY <1>4 DEF ClearSlot, FilterType
<1>5. CASE Trigger \/ EchoStart \/ EchoMissing \/ NoAnswer
  BY <1>1, <1>5 DEF Trigger, EchoStart, EchoMissing, NoAnswer, Restart
<1>6. CASE Command
  <2>1. UNCHANGED measure \/ ResetCurr \/ ClearSlot
    BY <1>6 DEF Command, Call, StartStep, StopStep, StopTimer, ResetTimer, SetStat, Attach,
                DetachTicks, IgnoreEdges
  <2> QED
    BY <1>1, <1>3, <1>4, <2>1
<1>7. CASE UNCHANGED vars \/ Manager
  <2>1. UNCHANGED measure
    BY <1>7 DEF Manager, Wait, Read, PublishDist, PublishOther, JobDone, vars, driver
  <2> QED
    BY <1>1, <2>1
<1> QED
  BY <1>2, <1>5, <1>6, <1>7 DEF Next, Driver, DriverNext, Interrupt

\* What a restart leaves.
LEMMA RestartPlace ==
  ASSUME PlaceType, Restart
  PROVE  /\ stat' = "WaitingTrigger" /\ timer' = "zero"
         /\ signals' \subseteq {"Dist", "InvalidDist", "MeasureError"}
  BY DEF PlaceType, Restart, MeasureError

LEMMA PlaceStep == PlaceType /\ [Next]_vars => PlaceType'
<1> SUFFICES ASSUME PlaceType, [Next]_vars PROVE PlaceType'
  OBVIOUS
<1>1. CASE Trigger
  <2>1. /\ pc' \in {"idle"} \cup StartPc \cup StopPc /\ slot' \in Slot \cup {0}
        /\ cmds' \in 0 .. MaxCmd
    BY <1>1 DEF Trigger, PlaceType
  <2>2. CASE stat # "WaitingTrigger"
    <3>1. Restart /\ UNCHANGED <<sensor, trigs>>
      BY <1>1, <2>2 DEF Trigger
    <3> QED
      BY <2>1, <3>1, RestartPlace DEF PlaceType
  <2>3. CASE stat = "WaitingTrigger"
    <3>1. trigs' \in 0 .. MaxTrig
      BY <1>1, <2>3, HCSR04Assumption DEF Trigger, PlaceType, Restart
    <3> QED
      BY <1>1, <2>1, <2>3, <3>1 DEF Trigger, PlaceType
  <2> QED
    BY <2>2, <2>3
<1>2. CASE EchoStart \/ EchoMissing \/ NoAnswer
  BY <1>2 DEF PlaceType, EchoStart, EchoMissing, NoAnswer, Restart, MeasureError, bounds
<1>3. CASE EchoEnd
  <2>1. UNCHANGED <<pc, slot, cmds, trigs>> /\ sensor' = "quiet"
    BY <1>3 DEF EchoEnd, bounds
  <2>2. CASE UNCHANGED <<stat, timer, signals>>
    BY <2>1, <2>2 DEF PlaceType
  <2>3. CASE Restart
    BY <2>1, <2>3, RestartPlace DEF PlaceType
  <2>4. CASE fall /\ stat = "WaitingEchoEnds"
    <3>1. timer' = "zero" /\ stat' = "WaitingTrigger"
      BY <1>3, <2>4 DEF EchoEnd
    <3>2. PICK f \in FlyTime : Evaluate(Clip(f)) \/ UNCHANGED signals
      BY <1>3, <2>4 DEF EchoEnd
    <3>3. signals' \subseteq {"Dist", "InvalidDist", "MeasureError"}
      BY <3>2 DEF Evaluate, PlaceType
    <3> QED
      BY <2>1, <3>1, <3>3 DEF PlaceType
  <2>5. UNCHANGED <<stat, timer, signals>> \/ Restart \/ (fall /\ stat = "WaitingEchoEnds")
    BY <1>3 DEF EchoEnd
  <2> QED
    BY <2>2, <2>3, <2>4, <2>5
<1>4. CASE Call("start.stop") \/ Call("stop.trig")
  <2>1. pc' \in {"start.stop", "stop.trig"}
    BY <1>4 DEF Call
  <2>2. cmds' \in 0 .. MaxCmd
    BY <1>4, HCSR04Assumption DEF PlaceType, Call
  <2>3. UNCHANGED <<stat, timer, signals, sensor, slot, trigs>>
    BY <1>4 DEF Call
  <2> QED
    BY <2>1, <2>2, <2>3 DEF PlaceType, StartPc, StopPc
<1>5. CASE StartStep
  <2>1. CASE ClearSlot
    <3>1. slot' \in Slot \cup {0}
      BY <2>1, HCSR04Assumption DEF ClearSlot, PlaceType, Slot, MaxSamples
    <3> QED
      BY <2>1, <3>1 DEF ClearSlot, PlaceType, StartPc, bounds
  <2>2. CASE ~ClearSlot
    BY <1>5, <2>2 DEF PlaceType, StartStep, StopTimer, ResetTimer, SetStat, ResetCurr, Attach, At,
                      StartPc, bounds
  <2> QED
    BY <2>1, <2>2
<1>6. CASE StopStep
  BY <1>6 DEF PlaceType, StopStep, StopTimer, ResetTimer, SetStat, DetachTicks, IgnoreEdges, At,
              StopPc, bounds
<1>7. CASE Manager \/ UNCHANGED vars
  BY <1>7 DEF PlaceType, Manager, Wait, Read, PublishDist, PublishOther, JobDone, vars, driver,
              bounds
<1> QED
  BY <1>1, <1>2, <1>3, <1>4, <1>5, <1>6, <1>7 DEF Next, Driver, DriverNext, Interrupt, Command

LEMMA ManagerStep == PlaceType /\ FilterType /\ ManagerType /\ [Next]_vars => ManagerType'
<1> SUFFICES ASSUME PlaceType, FilterType, ManagerType, [Next]_vars PROVE ManagerType'
  OBVIOUS
<1> USE DEF ManagerType
<1>1. CASE Wait \/ PublishDist \/ PublishOther \/ JobDone
  BY <1>1 DEF Wait, PublishDist, PublishOther, JobDone, PlaceType
<1>2. ASSUME NEW i \in 1 .. 2, Read(i) PROVE ManagerType'
  <2>1. [read EXCEPT ![i] = last[i]] \in Event
    BY DEF FilterType, Event
  <2> QED
    BY <1>2, <2>1 DEF Read
<1>3. CASE UNCHANGED manager
  BY <1>3 DEF manager
<1> QED
  BY <1>1, <1>2, <1>3 DEF Next, Driver, Manager, vars

\* The index of the filter, its samples and the last event stay in their ranges.
THEOREM Typing == Spec => []TypeOK
<1> DEFINE Types == SwitchType /\ FilterType /\ PlaceType /\ ManagerType
<1>1. Types => TypeOK
  BY DEF TypeOK, DriverTypeOK, SwitchType, FilterType, PlaceType, ManagerType
<1>2. Init => Types
  <2> SUFFICES ASSUME Init PROVE Types
    OBVIOUS
  <2>1. SwitchType
    BY Zenon DEF Init, DriverInit, SwitchType
  <2>2. last \in Event
    BY DEF Init, DriverInit, Event
  <2>3. FilterType
    BY <2>2 DEF Init, DriverInit, FilterType
  <2>4. PlaceType
    BY HCSR04Assumption DEF Init, DriverInit, PlaceType
  <2>5. ManagerType
    BY <2>2 DEF Init, ManagerType
  <2> QED
    BY <2>1, <2>3, <2>4, <2>5
<1>3. Types /\ [Next]_vars => Types'
  BY SwitchStep, FilterStep, PlaceStep, ManagerStep
<1> QED
  BY <1>1, <1>2, <1>3, PTL DEF Spec
-----------------------------------------------------------------------------
(* The filter.                                                             *)

\* How many measures ago slot i was filled, with curr the last slot filled.
Age(c, i) == IF i <= c THEN c - i ELSE c + FiltCount - i

\* How many slots start has cleared: all of them, except in its loop.
Cleared == IF pc = "start.clear" THEN slot ELSE FiltCount

\* Of the first m slots, those that start has cleared, each holds one of the latest
\* measures, in turn, or what start has left in it.
Ring(f, c, s, m) ==
  IF s = <<>> THEN c = MaxSamples /\ \A i \in Slot : i < m => f[i] = MaxRange + FiltRange
  ELSE /\ c \in Slot \cup {0}
       /\ \A i \in Slot :
            i < m => \/ f[i] = MaxRange + FiltRange
                     \/ Age(c, i) < Len(s) /\ f[i] = s[Len(s) - Age(c, i)]

\* One more measure keeps it so.
LEMMA RingSample ==
  ASSUME FilterType, NEW m \in Nat, Ring(filter, curr, samples, m),
         NEW d \in Sample, PutSample(d)
  PROVE  /\ Ring(filter', curr', Append(samples, d), m)
         /\ curr' \in Slot => filter'[curr'] = d
<1> DEFINE s == Append(samples, d)
           n == Len(samples)
<1>1. /\ n \in Nat /\ Len(s) = n + 1 /\ s[n + 1] = d /\ s # <<>>
      /\ \A k \in 1 .. n : s[k] = samples[k]
  BY DEF FilterType
<1>2. FiltCount \in Nat /\ FiltCount <= 5
  BY HCSR04Assumption DEF MaxSamples
<1>3. filter' = [i \in Slot |-> IF i = curr' THEN d ELSE filter[i]]
  BY DEF PutSample
<1>4. samples = <<>> <=> n = 0
  BY DEF FilterType
<1>5. curr' = IF curr + 1 >= FiltCount THEN 0 ELSE curr + 1
  BY DEF PutSample
<1>6. curr' \in Slot \cup {0}
  BY <1>2, <1>5 DEF FilterType, Slot, MaxSamples
<1>7. ASSUME NEW i \in Slot, i < m
      PROVE  \/ filter'[i] = MaxRange + FiltRange
             \/ Age(curr', i) < Len(s) /\ filter'[i] = s[Len(s) - Age(curr', i)]
  <2>1. CASE i = curr'
    <3>1. i \in Int
      BY DEF Slot
    <3>2. Age(i, i) = 0
      BY <3>1 DEF Age
    <3>3. Age(curr', i) = 0
      BY <2>1, <3>2
    <3> QED
      BY <1>1, <1>3, <2>1, <3>3
  <2>2. CASE i # curr' /\ n = 0
    <3>1. filter[i] = MaxRange + FiltRange
      BY <1>4, <1>7, <2>2 DEF Ring
    <3> QED
      BY <1>3, <2>2, <3>1
  <2>3. CASE i # curr' /\ n # 0
    <3>1. curr \in Slot \cup {0}
      BY <1>4, <2>3 DEF Ring
    <3>2. Age(curr', i) = Age(curr, i) + 1 /\ Age(curr, i) \in Nat
      BY <1>2, <1>5, <2>3, <3>1 DEF Age, Slot
    <3> DEFINE a == Age(curr, i)
    <3>3. filter[i] = MaxRange + FiltRange \/ (a < n /\ filter[i] = samples[n - a])
      BY <1>4, <1>7, <2>3 DEF Ring
    <3>4. filter'[i] = filter[i]
      BY <1>3, <2>3
    <3>5. a \in Nat /\ Age(curr', i) = a + 1
      BY <3>2
    <3> HIDE DEF a
    <3>6. CASE filter[i] = MaxRange + FiltRange
      BY <3>4, <3>6
    <3>7. CASE a < n /\ filter[i] = samples[n - a]
      <4>1. n - a \in 1 .. n /\ Len(s) - (a + 1) = n - a /\ a + 1 < Len(s)
        BY <1>1, <3>5, <3>7
      <4> QED
        BY <1>1, <3>4, <3>5, <3>7, <4>1
    <3> QED
      BY <3>3, <3>6, <3>7
  <2> QED
    BY <2>1, <2>2, <2>3
<1> HIDE DEF s
<1>8. Ring(filter', curr', s, m)
  BY <1>1, <1>6, <1>7 DEF Ring
<1>9. curr' \in Slot => filter'[curr'] = d
  BY <1>3
<1> QED
  BY <1>8, <1>9 DEF s

\* Slots that are alike hold measures, none of them what clear has left.
LEMMA AlikeMeasures ==
  ASSUME NEW f, NEW c, NEW s \in Seq(Sample), s # <<>>, Ring(f, c, s, FiltCount),
         c \in Slot => f[c] = s[Len(s)], Alike(f)
  PROVE  /\ Len(s) >= FiltCount
         /\ \A i, j \in Len(s) - FiltCount + 1 .. Len(s) : s[i] - s[j] < FiltRange
<1> DEFINE n == Len(s)
<1>1. n \in Nat /\ n > 0 /\ DOMAIN s = 1 .. n
  OBVIOUS
<1>2. /\ FiltCount \in Nat /\ MaxRange \in Nat /\ MaxDist \in Nat /\ MaxDist <= MaxRange
      /\ FiltRange \in Nat
  BY HCSR04Assumption DEF MaxSamples
<1>3. /\ c \in Slot \cup {0}
      /\ \A i \in Slot : \/ f[i] = MaxRange + FiltRange
                         \/ Age(c, i) < n /\ f[i] = s[n - Age(c, i)]
  <2>1. \A i \in Slot : i < FiltCount
    BY <1>2 DEF Slot
  <2> QED
    BY <2>1 DEF Ring
<1>4. \A k \in 1 .. n : s[k] \in 0 .. MaxDist
  <2>1. \A k \in 1 .. n : s[k] \in Sample
    OBVIOUS
  <2> QED
    BY <2>1 DEF Sample
<1> HIDE DEF n
\* The slot that was filled a measures ago.
<1>5. \A a \in 0 .. FiltCount - 1 : \E i \in Slot : Age(c, i) = a
  <2> TAKE a \in 0 .. FiltCount - 1
  <2>1. c \in 0 .. FiltCount - 1
    BY <1>2, <1>3 DEF Slot
  <2>2. CASE a <= c
    <3>1. c - a \in Slot /\ Age(c, c - a) = a
      BY <1>2, <2>1, <2>2 DEF Slot, Age
    <3> QED
      BY <3>1
  <2>3. CASE a > c
    <3>1. c + FiltCount - a \in Slot /\ Age(c, c + FiltCount - a) = a
      BY <1>2, <2>1, <2>3 DEF Slot, Age
    <3> QED
      BY <3>1
  <2> QED
    BY <1>2, <2>1, <2>2, <2>3
\* The measure just taken is not alike to what start has left.
<1>6. ASSUME NEW i \in Slot PROVE Age(c, i) < n /\ f[i] = s[n - Age(c, i)]
  <2>1. c \in Slot
    BY <1>2, <1>3 DEF Slot
  <2>2. f[c] = s[n] /\ s[n] \in 0 .. MaxDist
    BY <1>1, <1>4, <2>1 DEF n
  <2>3. f[i] - f[c] < FiltRange
    BY <2>1 DEF Alike
  <2>4. f[i] # MaxRange + FiltRange
    BY <1>2, <2>2, <2>3
  <2> QED
    BY <1>3, <2>4
<1>7. n >= FiltCount
  <2> SUFFICES ASSUME n < FiltCount PROVE FALSE
    BY <1>1, <1>2
  <2>1. n \in 0 .. FiltCount - 1
    BY <1>1, <1>2
  <2>2. PICK i \in Slot : Age(c, i) = n
    BY <1>5, <2>1
  <2> QED
    BY <1>1, <1>6, <2>2
<1>8. ASSUME NEW k \in n - FiltCount + 1 .. n PROVE \E i \in Slot : f[i] = s[k]
  <2>1. n - k \in 0 .. FiltCount - 1 /\ n - (n - k) = k
    BY <1>1, <1>2, <1>7
  <2>2. PICK i \in Slot : Age(c, i) = n - k
    BY <1>5, <2>1
  <2>3. f[i] = s[k]
    BY <1>6, <2>1, <2>2
  <2> QED
    BY <2>3
<1>9. ASSUME NEW i \in n - FiltCount + 1 .. n, NEW j \in n - FiltCount + 1 .. n
      PROVE  s[i] - s[j] < FiltRange
  BY <1>8 DEF Alike
<1> QED
  BY <1>7, <1>9 DEF n

\* The place in the loop changes with the loop only.
LEMMA SlotKept ==
  ASSUME [Next]_vars, ~ResetCurr, ~ClearSlot
  PROVE  UNCHANGED slot /\ (pc = "start.clear" <=> pc' = "start.clear")
<1>1. CASE Interrupt \/ NoAnswer
  BY <1>1 DEF Interrupt, NoAnswer, Trigger, EchoStart, EchoEnd, EchoMissing
<1>2. CASE Command
  BY <1>2 DEF Command, Call, StartStep, StopStep, StopTimer, ResetTimer, SetStat, Attach,
              DetachTicks, IgnoreEdges, At
<1>3. CASE UNCHANGED vars \/ Manager
  BY <1>3 DEF Manager, Wait, Read, PublishDist, PublishOther, JobDone, vars, driver
<1> QED
  BY <1>1, <1>2, <1>3 DEF Next, Driver, DriverNext

\* What a step may do to the filter: nothing, one more measure, or what start does.
LEMMA FilterSteps ==
  ASSUME [Next]_vars
  PROVE  \/ UNCHANGED measure
         \/ \E d \in Sample : /\ PutSample(d) /\ Evaluate(d)
                              /\ samples' = Append(samples, d) /\ UNCHANGED place
         \/ ResetCurr
         \/ ClearSlot
<1>1. CASE EchoEnd
  <2>1. CASE fall /\ stat = "WaitingEchoEnds"
    <3>1. PICK f \in FlyTime :
            \/ Clip(f) <= MaxDist /\ PutSample(Clip(f)) /\ Evaluate(Clip(f))
               /\ samples' = Append(samples, Clip(f))
            \/ UNCHANGED <<measure, signals>>
      BY <1>1, <2>1 DEF EchoEnd
    <3>2. Clip(f) \in Nat
      BY HCSR04Assumption DEF FlyTime, Clip
    <3>3. UNCHANGED place
      BY <1>1 DEF EchoEnd
    <3>4. CASE Clip(f) <= MaxDist /\ PutSample(Clip(f)) /\ Evaluate(Clip(f))
               /\ samples' = Append(samples, Clip(f))
      <4>1. Clip(f) \in Sample
        BY <3>2, <3>4, HCSR04Assumption DEF Sample
      <4> QED
        BY <3>3, <3>4, <4>1
    <3> QED
      BY <3>1, <3>4
  <2>2. CASE ~(fall /\ stat = "WaitingEchoEnds")
    BY <1>1, <2>2 DEF EchoEnd, Restart
  <2> QED
    BY <2>1, <2>2
<1>2. CASE Trigger \/ EchoStart \/ EchoMissing \/ NoAnswer
  BY <1>2 DEF Trigger, EchoStart, EchoMissing, NoAnswer, Restart
<1>3. CASE Command
  BY <1>3 DEF Command, Call, StartStep, StopStep, StopTimer, ResetTimer, SetStat, Attach,
              DetachTicks, IgnoreEdges
<1>4. CASE UNCHANGED vars \/ Manager
  BY <1>4 DEF Manager, Wait, Read, PublishDist, PublishOther, JobDone, vars, driver
<1> QED
  BY <1>1, <1>2, <1>3, <1>4 DEF Next, Driver, DriverNext, Interrupt

\* The filter as an invariant.  start enters its loop at the first slot.
RingInv ==
  /\ Ring(filter, curr, samples, Cleared)
  /\ slot \in Slot \cup {0}
  /\ pc # "start.clear" => slot = 0

\* The filter stays in turn.
LEMMA RingStep == FilterType /\ RingInv /\ [Next]_vars => RingInv'
<1> SUFFICES ASSUME FilterType, RingInv, [Next]_vars PROVE RingInv'
  OBVIOUS
<1>0. FiltCount \in Nat
  BY HCSR04Assumption
<1>1. Cleared \in Nat
  BY <1>0 DEF RingInv, Cleared, Slot
<1>2. CASE ResetCurr
  <2>1. /\ pc = "start.curr" /\ pc' = "start.clear" /\ slot' = slot
        /\ samples' = <<>> /\ curr' = MaxSamples
    BY <1>2 DEF ResetCurr, At
  <2>2. Cleared' = 0 /\ slot' = 0
    BY <2>1 DEF RingInv, Cleared
  <2>3. \A i \in Slot : ~(i < 0)
    BY DEF Slot
  <2> QED
    BY <2>1, <2>2, <2>3 DEF RingInv, Ring
<1>3. CASE ClearSlot
  <2>1. /\ pc = "start.clear" /\ UNCHANGED <<curr, samples>>
        /\ filter' = [filter EXCEPT ![slot] = MaxRange + FiltRange]
    BY <1>3 DEF ClearSlot
  <2>2. slot' \in Slot \cup {0} /\ (pc' # "start.clear" => slot' = 0)
    BY <1>0, <1>3 DEF ClearSlot, RingInv, Slot
  <2>3. \A i \in Slot : i < Cleared' => i < slot \/ i = slot
    BY <1>0, <1>3, <2>1 DEF ClearSlot, RingInv, Slot, Cleared
  <2>4. \A i \in Slot : filter'[i] = IF i = slot THEN MaxRange + FiltRange ELSE filter[i]
    BY <2>1 DEF FilterType
  <2>5. Cleared = slot
    BY <2>1 DEF Cleared
  <2>6. Ring(filter, curr, samples, slot)
    BY <2>5 DEF RingInv
  <2>7. Ring(filter', curr, samples, Cleared')
    BY <2>3, <2>4, <2>6 DEF Ring
  <2> QED
    BY <2>1, <2>2, <2>7 DEF RingInv
<1>4. CASE ~ResetCurr /\ ~ClearSlot
  <2>1. Cleared' = Cleared /\ slot' \in Slot \cup {0} /\ (pc' # "start.clear" => slot' = 0)
    BY <1>4, SlotKept DEF RingInv, Cleared
  <2>2. CASE UNCHANGED measure
    BY <2>1, <2>2 DEF RingInv, measure
  <2>3. ASSUME NEW d \in Sample, PutSample(d), samples' = Append(samples, d) PROVE RingInv'
    <3>1. Ring(filter', curr', samples', Cleared)
      BY <1>1, <2>3, RingSample DEF RingInv
    <3> QED
      BY <2>1, <3>1 DEF RingInv
  <2> QED
    BY <1>4, <2>2, <2>3, FilterSteps
<1> QED
  BY <1>2, <1>3, <1>4

\* An event outside the loop comes of slots that are alike and hold measures.
LEMMA EventAlike ==
  ASSUME FilterType, RingInv, [Next]_vars, last' # last, pc # "start.clear"
  PROVE  LET n == Len(samples')
         IN /\ n >= FiltCount
            /\ \A i, j \in n - FiltCount + 1 .. n : samples'[i] - samples'[j] < FiltRange
<1>1. PICK d \in Sample : /\ PutSample(d) /\ Evaluate(d)
                          /\ samples' = Append(samples, d) /\ UNCHANGED place
  <2>1. ~UNCHANGED measure /\ ~ResetCurr /\ ~ClearSlot
    BY DEF measure, ResetCurr, ClearSlot
  <2> QED
    BY <2>1, FilterSteps
<1>2. Alike(filter')
  BY <1>1 DEF Evaluate
<1>3. Cleared = FiltCount /\ FiltCount \in Nat
  BY HCSR04Assumption DEF Cleared
<1>4. Ring(filter', curr', samples', FiltCount) /\ (curr' \in Slot => filter'[curr'] = d)
  BY <1>1, <1>3, RingSample DEF RingInv
<1>5. samples' \in Seq(Sample) /\ samples' # <<>> /\ samples'[Len(samples')] = d
  BY <1>1 DEF FilterType
<1> QED
  BY <1>2, <1>4, <1>5, AlikeMeasures

\* Every event outside the loop follows as many measures as the filter has slots,
\* all taken since start reset it and alike: it never counts what start has left
\* behind, nor, if echoes ended while start was clearing, what start has not yet
\* cleared.
THEOREM FilteredEvents == Spec => Filtered
<1> DEFINE Inv == FilterType /\ RingInv
<1>1. Init => Inv
  <2>1. <<"NoEvents", -1>> \in Event
    BY DEF Event
  <2> QED
    BY <2>1 DEF Init, DriverInit, FilterType, RingInv, Ring
<1>2. Inv /\ [Next]_vars => Inv'
  BY FilterStep, RingStep
<1>3. Inv /\ [Next]_vars =>
        [last' # last /\ pc # "start.clear" =>
           LET n == Len(samples')
           IN /\ n >= FiltCount
              /\ \A i, j \in n - FiltCount + 1 .. n :
                   samples'[i] - samples'[j] < FiltRange]_vars
  BY EventAlike
<1> QED
  BY <1>1, <1>2, <1>3, PTL DEF Spec, Filtered
=============================================================================
