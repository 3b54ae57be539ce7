------------------------ MODULE ActiveModule_proofs ------------------------
(***************************************************************************)
(* What holds of every active object, whatever its states, events,         *)
(* transitions and queue size: typing, that a requested transition always  *)
(* has its message on the way, and that _ready is never early.             *)
(***************************************************************************)
EXTENDS ActiveModule, TLAPS

\* Appending keeps what a message sequence holds and adds the new message.
LEMMA AppendFacts ==
  ASSUME NEW S, NEW q \in Seq(S), NEW m \in S
  PROVE  /\ Append(q, m) \in Seq(S)
         /\ Len(Append(q, m)) = Len(q) + 1
         /\ DOMAIN Append(q, m) = 1 .. Len(q) + 1
         /\ \A i \in DOMAIN q : i \in DOMAIN Append(q, m) /\ Append(q, m)[i] = q[i]
         /\ Append(q, m)[Len(q) + 1] = m
  OBVIOUS

\* Taking the head leaves every other message in the queue.
LEMMA TailFacts ==
  ASSUME NEW S, NEW q \in Seq(S), q # <<>>
  PROVE  /\ Head(q) \in S
         /\ Tail(q) \in Seq(S)
         /\ Len(Tail(q)) = Len(q) - 1
         /\ \A i \in DOMAIN q : q[i] = Head(q) \/ \E j \in DOMAIN Tail(q) : Tail(q)[j] = q[i]
<1>1. Head(q) \in S /\ Tail(q) \in Seq(S) /\ Len(Tail(q)) = Len(q) - 1
  OBVIOUS
<1>2. ASSUME NEW i \in DOMAIN q, i # 1
      PROVE  \E j \in DOMAIN Tail(q) : Tail(q)[j] = q[i]
  <2>1. i - 1 \in DOMAIN Tail(q) /\ Tail(q)[i - 1] = q[i]
    BY <1>2
  <2> QED
    BY <2>1
<1>3. q[1] = Head(q)
  OBVIOUS
<1> QED
  BY <1>1, <1>2, <1>3

\* raiseEvent: the message is pending, or its loss is recorded, and no pending
\* message disappears from the queue.
LEMMA RaiseFacts ==
  ASSUME TypeOK, NEW m \in Event, Raise(m)
  PROVE  /\ queue' \in Seq(Event) /\ Len(queue') <= QueueSize /\ lost' \in BOOLEAN
         /\ ~lost' => ~lost /\ \E i \in DOMAIN queue' : queue'[i] = m
         /\ \A i \in DOMAIN queue : \E j \in DOMAIN queue' : queue'[j] = queue[i]
<1>0. queue \in Seq(Event) /\ Len(queue) \in Nat /\ QueueSize \in Nat
  BY ActiveModuleAssumption DEF TypeOK
<1>1. CASE Full
  BY <1>0, <1>1 DEF Raise, Put, TypeOK
<1>2. CASE ~Full
  <2>1. queue' = Append(queue, m) /\ lost' = lost
    BY <1>2 DEF Raise, Put, TypeOK
  <2>2. Len(queue) < QueueSize
    BY <1>0, <1>2 DEF Full
  <2>3. Len(queue) + 1 \in DOMAIN queue'
    BY <1>0, <2>1, AppendFacts
  <2> QED
    BY <1>0, <2>1, <2>2, <2>3, AppendFacts DEF TypeOK
<1> QED
  BY <1>1, <1>2

LEMMA InitTyped == Init => TypeOK
<1> SUFFICES ASSUME Init PROVE TypeOK
  OBVIOUS
<1>1. queue \in Seq(Event) /\ Len(queue) = 0
  BY DEF Init
<1>2. Len(queue) <= QueueSize
  BY <1>1, ActiveModuleAssumption
<1> QED
  BY <1>1, <1>2 DEF Init, TypeOK

LEMMA NextTyped == TypeOK /\ [Next]_vars => TypeOK'
<1> SUFFICES ASSUME TypeOK, [Next]_vars PROVE TypeOK'
  OBVIOUS
<1> USE ActiveModuleAssumption
<1>0. "ENTRY" \in Event /\ "EXIT" \in Event
  BY DEF Event, SysEvent
<1>1. ASSUME NEW b \in {"pub", "sub"}, SetBase(b) PROVE TypeOK'
  BY <1>1 DEF SetBase, TypeOK
<1>2. CASE Start
  BY <1>0, <1>2, RaiseFacts DEF Start, TypeOK
<1>3. ASSUME NEW e \in UserEvent, Post(e) PROVE TypeOK'
  <2>1. e \in Event
    BY DEF Event
  <2>2. queue' \in Seq(Event) /\ Len(queue') <= QueueSize
    BY <1>3, <2>1, AppendFacts DEF Post, Put, Full, TypeOK
  <2> QED
    BY <1>3, <2>2 DEF Post, TypeOK
<1>4. CASE Get
  BY <1>4, TailFacts DEF Get, TypeOK
<1>5. CASE DispatchEntry
  BY <1>5 DEF DispatchEntry, TypeOK
<1>6. CASE DispatchExit
  <2>1. CASE next = None
    BY <1>6, <2>1 DEF DispatchExit, NextState, TypeOK
  <2>2. CASE next # None
    BY <1>0, <1>6, <2>2, RaiseFacts DEF DispatchExit, NextState, TypeOK
  <2> QED
    BY <2>1, <2>2
<1>7. ASSUME NEW e, Handle(e)
      PROVE  /\ curr' = curr /\ fresh' = fresh
             /\ next' \in State \cup {None}
             /\ queue' \in Seq(Event) /\ Len(queue') <= QueueSize /\ lost' \in BOOLEAN
  <2>1. CASE UNCHANGED <<curr, next, fresh, queue, lost>>
    BY <2>1 DEF TypeOK
  <2>2. ASSUME NEW t \in State, Tran(t)
        PROVE  /\ curr' = curr /\ fresh' = fresh /\ next' \in State
               /\ queue' \in Seq(Event) /\ Len(queue') <= QueueSize /\ lost' \in BOOLEAN
    BY <1>0, <2>2, RaiseFacts DEF Tran, TypeOK
  <2> QED
    BY <1>7, <2>1, <2>2 DEF Handle
<1>8. CASE DispatchUser
  BY <1>7, <1>8 DEF DispatchUser, TypeOK
<1>9. CASE GetTimeout
  BY <1>9 DEF GetTimeout, TypeOK
<1>10. CASE UNCHANGED vars
  BY <1>10 DEF vars, TypeOK
<1> QED
  BY <1>1, <1>2, <1>3, <1>4, <1>5, <1>6, <1>8, <1>9, <1>10 DEF Next

\* Every reachable state is well typed, the queue within its capacity.
THEOREM Typing == Spec => []TypeOK
  BY InitTyped, NextTyped, PTL DEF Spec
-----------------------------------------------------------------------------
\* Reading the queue: a message stays pending when it is neither in hand nor
\* at the head, and becomes the one in hand when it is taken.
LEMMA GetKeepsPending ==
  ASSUME TypeOK, Get, NEW m, Pending(m), m # None
  PROVE  Pending(m)'
<1>1. queue \in Seq(Event) /\ queue # <<>> /\ inHand = None
  BY DEF Get, TypeOK
<1>2. PICK i \in DOMAIN queue : queue[i] = m
  BY <1>1 DEF Pending
<1> QED
  BY <1>1, <1>2, TailFacts DEF Get, Pending

\* A step that only appends to the queue keeps every pending message pending.
LEMMA PutKeepsPending ==
  ASSUME TypeOK, NEW e \in Event, Put(e), inHand' = inHand, NEW m, Pending(m)
  PROVE  Pending(m)'
<1>1. queue \in Seq(Event)
  BY DEF TypeOK
<1>2. \A i \in DOMAIN queue : i \in DOMAIN queue' /\ queue'[i] = queue[i]
  BY <1>1, AppendFacts DEF Put
<1> QED
  BY <1>2 DEF Pending

\* What the handler of a user event or of EV_TIMED leaves behind.
LEMMA HandleFacts ==
  ASSUME TypeOK, NEW e, Handle(e)
  PROVE  /\ fresh' = fresh
         /\ \A i \in DOMAIN queue : \E j \in DOMAIN queue' : queue'[j] = queue[i]
         /\ ~lost' => ~lost
         /\ \/ next' = next
            \/ ~lost' => \E i \in DOMAIN queue' : queue'[i] = "EXIT"
<1>1. CASE UNCHANGED <<curr, next, fresh, queue, lost>>
  BY <1>1
<1>2. CASE \E t \in State : Tran(t)
  <2>1. "EXIT" \in Event
    BY DEF Event, SysEvent
  <2> QED
    BY <1>2, <2>1, RaiseFacts DEF Tran
<1> QED
  BY <1>1, <1>2 DEF Handle

LEMMA NextTransitionDriven ==
  TypeOK /\ TransitionDriven /\ [Next]_vars => TransitionDriven'
<1> SUFFICES ASSUME TypeOK, TransitionDriven, [Next]_vars, ~lost'
             PROVE  /\ next' # None => Pending("EXIT")'
                    /\ fresh' => Pending("ENTRY")'
  BY DEF TransitionDriven
<1>0. /\ "ENTRY" \in Event /\ "EXIT" \in Event
      /\ "ENTRY" # None /\ "EXIT" # None
      /\ UserEvent \cap {"ENTRY", "EXIT"} = {} /\ None \notin UserEvent
      /\ queue \in Seq(Event)
  BY ActiveModuleAssumption DEF Event, SysEvent, TypeOK
<1>1. ASSUME NEW b \in {"pub", "sub"}, SetBase(b)
      PROVE  /\ next' # None => Pending("EXIT")'
             /\ fresh' => Pending("ENTRY")'
  BY <1>1 DEF SetBase, TransitionDriven, Pending
<1>2. CASE Start
  BY <1>0, <1>2, RaiseFacts DEF Start, Pending
<1>3. ASSUME NEW e \in UserEvent, Post(e)
      PROVE  /\ next' # None => Pending("EXIT")'
             /\ fresh' => Pending("ENTRY")'
  <2>1. e \in Event /\ Put(e) /\ inHand' = inHand
    BY <1>3 DEF Post, Event
  <2> QED
    BY <1>3, <2>1, PutKeepsPending DEF Post, TransitionDriven
<1>4. CASE Get
  BY <1>0, <1>4, GetKeepsPending DEF Get, TransitionDriven
<1>5. CASE DispatchEntry
  BY <1>0, <1>5 DEF DispatchEntry, TransitionDriven, Pending
<1>6. CASE DispatchExit
  <2>1. CASE next = None
    BY <1>0, <1>6, <2>1 DEF DispatchExit, NextState, TransitionDriven, Pending
  <2>2. CASE next # None
    BY <1>0, <1>6, <2>2, RaiseFacts DEF DispatchExit, NextState, Pending
  <2> QED
    BY <2>1, <2>2
<1>7. CASE DispatchUser
  <2>1. Handle(inHand) /\ inHand \notin {"ENTRY", "EXIT"} /\ inHand' = None
    BY <1>0, <1>7 DEF DispatchUser, TimedEvent
  <2>2. ASSUME NEW m \in {"ENTRY", "EXIT"}, Pending(m) PROVE Pending(m)'
    BY <1>0, <2>1, <2>2, HandleFacts DEF Pending
  <2> QED
    BY <2>1, <2>2, HandleFacts DEF TransitionDriven, Pending
<1>8. CASE GetTimeout
  BY <1>0, <1>8 DEF GetTimeout, TransitionDriven, Pending
<1>9. CASE UNCHANGED vars
  BY <1>9 DEF vars, TransitionDriven, Pending
<1> QED
  BY <1>1, <1>2, <1>3, <1>4, <1>5, <1>6, <1>7, <1>8, <1>9 DEF Next

\* Unless the queue refused one of the two, EV_EXIT is on its way whenever a
\* transition has been asked for, and EV_ENTRY whenever a state has been
\* installed and not entered.
THEOREM Driven == Spec => []TransitionDriven
<1>1. Init => TransitionDriven
  BY DEF Init, TransitionDriven
<1>2. Spec => []TypeOK
  BY Typing
<1> QED
  BY <1>1, <1>2, NextTransitionDriven, PTL DEF Spec

\* Before task() starts the machine nothing has been taken from the queue.
IdleUntilStarted == curr = None => inHand = None

LEMMA NextIdleUntilStarted ==
  TypeOK /\ IdleUntilStarted /\ [Next]_vars => IdleUntilStarted'
<1> SUFFICES ASSUME TypeOK, IdleUntilStarted, [Next]_vars, curr' = None
             PROVE  inHand' = None
  BY DEF IdleUntilStarted
<1>1. CASE Start
  BY <1>1, ActiveModuleAssumption DEF Start
<1>2. CASE DispatchEntry \/ DispatchExit \/ DispatchUser
  BY <1>2 DEF DispatchEntry, DispatchExit, DispatchUser
<1>3. CASE Get \/ GetTimeout
  BY <1>3 DEF Get, GetTimeout
<1>4. CASE UNCHANGED <<curr, inHand>>
  BY <1>4 DEF IdleUntilStarted
<1> QED
  BY <1>1, <1>2, <1>3, <1>4 DEF Next, vars, SetBase, Post

\* EV_TIMED only reaches a state that was entered and has no transition half
\* done: nothing but the module's own thread moves _curr and _next.
LEMMA NextTimedWhenSettled ==
  TypeOK /\ IdleUntilStarted /\ TransitionDriven /\ TimedWhenSettled /\ [Next]_vars
    => TimedWhenSettled'
<1> SUFFICES ASSUME TransitionDriven, TimedWhenSettled, [Next]_vars,
                    inHand' = TimedEvent, ~lost', TypeOK, IdleUntilStarted
             PROVE  next' = None /\ ~fresh'
  BY DEF TimedWhenSettled
<1>0. /\ TimedEvent # None /\ "ENTRY" # None /\ "EXIT" # None
      /\ TimedEvent \notin Event /\ queue \in Seq(Event)
  BY ActiveModuleAssumption DEF Event, SysEvent, TimedEvent, TypeOK
<1>1. CASE GetTimeout
  <2>1. ~Pending("EXIT") /\ ~Pending("ENTRY")
    BY <1>0, <1>1 DEF GetTimeout, Pending
  <2> QED
    BY <1>1, <2>1 DEF GetTimeout, TransitionDriven
<1>2. CASE Get
  BY <1>0, <1>2, TailFacts DEF Get
<1>3. CASE DispatchEntry \/ DispatchExit \/ DispatchUser
  BY <1>0, <1>3 DEF DispatchEntry, DispatchExit, DispatchUser
<1>4. CASE Start
  <2>1. inHand' = None
    BY <1>4 DEF Start, IdleUntilStarted
  <2> QED
    BY <1>0, <2>1
<1>5. CASE UNCHANGED <<next, fresh, inHand, lost>>
  BY <1>5 DEF TimedWhenSettled
<1> QED
  BY <1>1, <1>2, <1>3, <1>4, <1>5 DEF Next, vars, SetBase, Post

THEOREM Settled == Spec => []TimedWhenSettled
<1>1. Init => TimedWhenSettled
  BY ActiveModuleAssumption DEF Init, TimedWhenSettled, TimedEvent
<1>2. Init => IdleUntilStarted
  BY DEF Init, IdleUntilStarted
<1> QED
  BY <1>1, <1>2, Typing, Driven, NextIdleUntilStarted, NextTimedWhenSettled, PTL DEF Spec
-----------------------------------------------------------------------------
\* Until EV_ENTRY of the first state has been handled it is the only message
\* there is, so nothing else can set _ready.
OnlyEntry ==
  ~entered => /\ ~ready
              /\ inHand \in {None, "ENTRY"}
              /\ inHand = None => \A i \in DOMAIN queue : queue[i] = "ENTRY"
              /\ curr # None /\ inHand = None => queue # <<>>

LEMMA NextOnlyEntry == TypeOK /\ OnlyEntry /\ [Next]_vars => OnlyEntry'
<1> DEFINE Goal == /\ ~ready'
                   /\ inHand' \in {None, "ENTRY"}
                   /\ inHand' = None => \A i \in DOMAIN queue' : queue'[i] = "ENTRY"
                   /\ curr' # None /\ inHand' = None => queue' # <<>>
<1> SUFFICES ASSUME TypeOK, OnlyEntry, [Next]_vars, ~entered' PROVE Goal
  BY DEF OnlyEntry
<1>0. /\ "ENTRY" # None /\ "EXIT" # None /\ "ENTRY" \in Event
      /\ "ENTRY" \notin UserEvent /\ None \notin UserEvent
      /\ TimedEvent \notin {"ENTRY", None}
      /\ queue \in Seq(Event)
  BY ActiveModuleAssumption DEF Event, SysEvent, TimedEvent, TypeOK
<1>1. ASSUME NEW b \in {"pub", "sub"}, SetBase(b) PROVE Goal
  BY <1>1 DEF SetBase, OnlyEntry
<1>2. CASE Start
  <2>1. /\ ~ready' /\ inHand' = inHand /\ inHand \in {None, "ENTRY"}
        /\ inHand = None => \A i \in DOMAIN queue : queue[i] = "ENTRY"
    BY <1>2 DEF Start, OnlyEntry
  <2>2. CASE Full
    BY <1>0, <1>2, <2>1, <2>2, ActiveModuleAssumption DEF Start, Raise, Put, Full
  <2>3. CASE ~Full
    <3>1. queue' = Append(queue, "ENTRY")
      BY <1>2, <2>3 DEF Start, Raise, Put
    <3>2. \A i \in DOMAIN queue' : i \in DOMAIN queue \/ i = Len(queue) + 1
      BY <1>0, <3>1, AppendFacts
    <3>3. queue' # <<>>
      BY <1>0, <3>1
    <3> QED
      BY <1>0, <2>1, <3>1, <3>2, <3>3, AppendFacts
  <2> QED
    BY <2>2, <2>3
<1>3. ASSUME NEW e \in UserEvent, Post(e) PROVE Goal
  BY <1>0, <1>3 DEF Post, Open, OnlyEntry
<1>4. CASE Get
  BY <1>0, <1>4, TailFacts DEF Get, OnlyEntry
<1>5. CASE DispatchEntry \/ DispatchExit \/ DispatchUser
  BY <1>0, <1>5 DEF DispatchEntry, DispatchExit, DispatchUser, TimedEvent, OnlyEntry
<1>6. CASE GetTimeout
  BY <1>6 DEF GetTimeout, OnlyEntry
<1>7. CASE UNCHANGED vars
  BY <1>7 DEF vars, OnlyEntry
<1> QED
  BY <1>1, <1>2, <1>3, <1>4, <1>5, <1>6, <1>7 DEF Next

\* A module never says it is ready before its Init state has run EV_ENTRY.
THEOREM Ready == Spec => []ReadyAfterEntry
<1>1. Init => OnlyEntry
  BY DEF Init, OnlyEntry
<1>2. OnlyEntry => ReadyAfterEntry
  BY DEF OnlyEntry, ReadyAfterEntry
<1> QED
  BY <1>1, <1>2, Typing, NextOnlyEntry, PTL DEF Spec
=============================================================================
