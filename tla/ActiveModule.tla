---------------------------- MODULE ActiveModule ----------------------------
(***************************************************************************)
(* An active object of the program: a thread that takes messages from a    *)
(* bounded queue and hands each one to the handler of its current state    *)
(* (Middleware/ActiveModule, Middleware/StateMachine).  The states, the    *)
(* user events and the transitions a handler may ask for are parameters;   *)
(* RGBGame instantiates them.  A transition is never immediate: the        *)
(* handler records the target in _next and posts EV_EXIT to its own queue, *)
(* the EV_EXIT handler installs the target and posts EV_ENTRY, so messages *)
(* of other threads come in between.                                       *)
(***************************************************************************)
EXTENDS Naturals, Sequences

CONSTANTS State,       \* the states of the machine
          StInit,      \* _stInit, the state task() starts with
          UserEvent,   \* events from EV_RESERVED_USER on
          Moves,       \* <<s, e, t>>: the handler of s may ask for t on e
          QueueSize,   \* capacity of the message queue
          None         \* NullState, no message

SysEvent == {"ENTRY", "EXIT"}
Event == UserEvent \cup SysEvent

TimedEvent == "TIMED"   \* EV_TIMED: never queued, run() makes it of a timeout

ASSUME ActiveModuleAssumption ==
  /\ StInit \in State
  /\ UserEvent \cap {"ENTRY", "EXIT", "TIMED"} = {}
  /\ Moves \subseteq State \X (UserEvent \cup {"TIMED"}) \X State
  /\ QueueSize \in Nat \ {0}
  /\ None \notin State \cup Event \cup {"TIMED"}

VARIABLES
  base,     \* the topic bases already set ("pub", "sub")
  curr,     \* _curr, None until task() has started the machine
  next,     \* _next
  queue,    \* the message queue
  inHand,   \* what get() returned and run() has not finished with
  ready,    \* _ready
  entered,  \* history: some EV_ENTRY has been handled
  fresh,    \* history: curr was installed and has not handled EV_ENTRY yet
  lost      \* history: EV_ENTRY or EV_EXIT found the queue full

vars == <<base, curr, next, queue, inHand, ready, entered, fresh, lost>>

TypeOK ==
  /\ base \subseteq {"pub", "sub"}
  /\ curr \in State \cup {None}
  /\ next \in State \cup {None}
  /\ queue \in Seq(Event)
  /\ Len(queue) <= QueueSize
  /\ inHand \in Event \cup {TimedEvent, None}
  /\ ready \in BOOLEAN /\ entered \in BOOLEAN
  /\ fresh \in BOOLEAN /\ lost \in BOOLEAN

Init ==
  /\ base = {}
  /\ curr = None
  /\ next = None
  /\ queue = <<>>
  /\ inHand = None
  /\ ready = FALSE
  /\ entered = FALSE
  /\ fresh = FALSE
  /\ lost = FALSE
-----------------------------------------------------------------------------
\* mutant of Full: one message too many
FullLate == Len(queue) > QueueSize
Full == Len(queue) >= QueueSize

\* putMessage: a full queue refuses the message and only a trace says so.
Put(m) == queue' = IF Full THEN queue ELSE Append(queue, m)

\* raiseEvent for the two events a transition depends on.
Raise(m) ==
  /\ Put(m)
  /\ lost' = (lost \/ Full)

\* setPublicationBase, setSubscriptionBase
SetBase(b) ==
  /\ base' = base \cup {b}
  /\ UNCHANGED <<curr, next, queue, inHand, ready, entered, fresh, lost>>

\* task, first part: waits for both bases, then initState(&_stInit).
Start ==
  /\ base = {"pub", "sub"}
  /\ curr = None
  /\ curr' = StInit
  /\ next' = None
  /\ fresh' = TRUE
  /\ Raise("ENTRY")
  /\ UNCHANGED <<base, inHand, ready, entered>>

\* Whoever posts to a module was subscribed, or was started, by the handler
\* of the first EV_ENTRY, or by the application once ready() held.
\* mutant of Open: subscribed by the constructor, before task() runs
OpenAtOnce == TRUE
Open == ready \/ inHand = "ENTRY"

Post(e) ==
  /\ Open
  /\ Put(e)
  /\ UNCHANGED <<base, curr, next, inHand, ready, entered, fresh, lost>>

\* getOsEvent with a message waiting.
Get ==
  /\ curr # None
  /\ inHand = None
  /\ queue # <<>>
  /\ inHand' = Head(queue)
  /\ queue' = Tail(queue)
  /\ UNCHANGED <<base, curr, next, ready, entered, fresh, lost>>

\* getOsEvent when _timeout passes without a message.
GetTimeout ==
  /\ curr # None
  /\ inHand = None
  /\ queue = <<>>
  /\ inHand' = TimedEvent
  /\ UNCHANGED <<base, curr, next, queue, ready, entered, fresh, lost>>

\* mutant of Tran: _next is set and EV_EXIT is not raised
TranNoExit(t) ==
  /\ next' = t
  /\ UNCHANGED <<queue, lost, curr, fresh>>
\* tranState from a handler of the current state.
Tran(t) ==
  /\ next' = t
  /\ Raise("EXIT")
  /\ UNCHANGED <<curr, fresh>>

\* mutant of NextState: EV_ENTRY is not raised
NextStateNoEntry ==
  IF next = None
  THEN UNCHANGED <<curr, next, fresh, queue, lost>>
  ELSE /\ curr' = next
       /\ next' = None
       /\ fresh' = TRUE
       /\ UNCHANGED <<queue, lost>>
\* mutant of NextState: _curr is not reset, so tranState asks for EV_EXIT again
NextStateNoReset ==
  IF next = None
  THEN UNCHANGED <<curr, next, fresh, queue, lost>>
  ELSE Raise("EXIT") /\ UNCHANGED <<curr, next, fresh>>
\* nextState, called by every EV_EXIT handler.
NextState ==
  IF next = None
  THEN UNCHANGED <<curr, next, fresh, queue, lost>>
  ELSE /\ curr' = next
       /\ next' = None
       /\ fresh' = TRUE
       /\ Raise("ENTRY")

\* What the handler of curr does with event e.
Handle(e) ==
  \/ UNCHANGED <<curr, next, fresh, queue, lost>>
  \/ \E t \in State : <<curr, e, t>> \in Moves /\ Tran(t)

\* run() with a message, and the _ready that task() sets after it.
DispatchEntry ==
  /\ inHand = "ENTRY"
  /\ inHand' = None
  /\ ready' = TRUE
  /\ entered' = TRUE
  /\ fresh' = FALSE
  /\ UNCHANGED <<base, curr, next, queue, lost>>

DispatchExit ==
  /\ inHand = "EXIT"
  /\ inHand' = None
  /\ ready' = TRUE
  /\ NextState
  /\ UNCHANGED <<base, entered>>

DispatchUser ==
  /\ inHand \in UserEvent \cup {TimedEvent}
  /\ inHand' = None
  /\ ready' = TRUE
  /\ Handle(inHand)
  /\ UNCHANGED <<base, entered>>

Dispatch == DispatchEntry \/ DispatchExit \/ DispatchUser

Next ==
  \/ \E b \in {"pub", "sub"} : SetBase(b)
  \/ Start
  \/ \E e \in UserEvent : Post(e)
  \/ Get
  \/ GetTimeout
  \/ DispatchEntry
  \/ DispatchExit
  \/ DispatchUser

Spec == Init /\ [][Next]_vars
\* The thread of the module is scheduled; nobody is obliged to post.
FairSpec == Spec /\ WF_vars(Start) /\ WF_vars(Get) /\ WF_vars(Dispatch)
-----------------------------------------------------------------------------
Pending(m) == inHand = m \/ \E i \in DOMAIN queue : queue[i] = m

\* A transition that has been asked for is always driven by a message that is
\* still to be handled: EV_EXIT while _next is set, EV_ENTRY while the state
\* has not been entered, whatever other threads post meanwhile and although a
\* second transition may overwrite _next - unless the queue refused one of
\* the two (StateMachine.h tranState, nextState; RGBGame::putMessage).
TransitionDriven ==
  ~lost => /\ next # None => Pending("EXIT")
           /\ fresh => Pending("ENTRY")

\* Hence EV_TIMED, which a module makes for itself on an empty queue, only ever
\* reaches a state that was entered and has no transition half done, even if
\* messages arrive between the timeout and the handler.
TimedWhenSettled ==
  inHand = TimedEvent /\ ~lost => next = None /\ ~fresh

\* _ready tells that the handler of Init has run EV_ENTRY, as the comment in
\* ActiveModule::task promises: it needs that nothing is posted before.
ReadyAfterEntry == ready => entered

\* A requested transition is carried out.
TransitionCompletes == (next # None) ~> (next = None \/ lost)
=============================================================================
