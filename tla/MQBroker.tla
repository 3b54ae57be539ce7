------------------------------ MODULE MQBroker ------------------------------
(***************************************************************************)
(* Middleware/MQLib, MQBroker: the static publish/subscribe broker that    *)
(* every thread of the program calls into.  A call runs in the caller's    *)
(* thread; publishReq invokes the subscribers' callbacks while it holds    *)
(* the broker's mutex, and a callback may publish or subscribe in turn,    *)
(* since the mutex is recursive.  The broker has been started, once, with  *)
(* its own token list; names are no longer than it allows.                 *)
(***************************************************************************)
EXTENDS TopicId, CursorList, FiniteSets

CONSTANTS Threads,      \* the threads that call the broker
          Names,        \* names of topics
          Subs,         \* subscribers
          Interests,    \* subscriber |-> names that the threads subscribe it to
          Republish,    \* subscriber |-> names that its callback may publish
          Resubscribe,  \* subscriber |-> names that its callback may subscribe it to
          MaxTopics,    \* limit of the topic list, setLimit
          MaxDepth,     \* bound: publications inside publications
          None

ASSUME NamesAssumption == Names \subseteq Name
ASSUME InterestsAssumption == Interests \in [Subs -> SUBSET Names]
ASSUME RepublishAssumption == Republish \in [Subs -> SUBSET Names]
ASSUME ResubscribeAssumption == Resubscribe \in [Subs -> SUBSET Names]
ASSUME NoneAssumption ==
  None \notin Threads \cup Names \cup Subs \cup [name : Names, todo : SUBSET (Names \X Subs)]

VARIABLES provider,  \* _token_provider
          topics,    \* _topic_list, the names of its topics
          heap,      \* name |-> its topic: the identifier and the subscriber_list
          lock,      \* _mutex: its owner and how often it has locked it
          calls,     \* thread |-> the calls it is in, innermost last
          astray     \* history: the threads that publish and of whose
                     \* callbacks one has subscribed since they began

vars == <<provider, topics, heap, lock, calls, astray>>

Id == [1 .. MaxLevel -> Nat]

NoId == [l \in 1 .. MaxLevel |-> WildcardNotUsed]

\* Where a call can be: its locals, and what the next step of it is.
Frame == [pc    : {"identify", "lock", "scan", "deliver", "callback", "called",
                   "subscribe", "tokens", "unsubscribe"},
          name  : Names,                \* name
          sub   : Subs \cup {None},     \* subscriber, or whose callback runs
          level : Nat,                  \* level being processed
          id    : Id,                   \* topic_id
          topic : Names \cup {None},    \* topic
          got   : SUBSET (Names \X Subs)]  \* whom it has called so far

TypeOK ==
  /\ provider \in Seq(Text)
  /\ topics \in Lists(Names)
  /\ DOMAIN heap = Items(topics)
  /\ heap \in [DOMAIN heap -> [id : Id, subs : Lists(Subs)]]
  /\ lock \in [owner : Threads \cup {None}, depth : Nat]
  /\ calls \in [Threads -> Seq(Frame)]
  /\ astray \subseteq Threads

Init ==
  /\ provider = <<>>
  /\ topics = EmptyList
  /\ heap = [n \in {} |-> EmptyList]
  /\ lock = [owner |-> None, depth |-> 0]
  /\ calls = [t \in Threads |-> <<>>]
  /\ astray = {}

Idle(t) == calls[t] = <<>>
Top(t) == calls[t][Len(calls[t])]
At(t, pc) == ~Idle(t) /\ Top(t).pc = pc

Enter(t, f) == calls' = [calls EXCEPT ![t] = Append(@, f)]
Step(t, f) == calls' = [calls EXCEPT ![t] = Append(Front(@), f)]
Leave(t) == calls' = [calls EXCEPT ![t] = Front(@)]
Inside(t, f) ==  \* a callback of the innermost call enters another
  calls' = [calls EXCEPT ![t] = Append(Append(Front(@), [Top(t) EXCEPT !.pc = "called"]), f)]

Free(t) == lock.depth = 0 \/ lock.owner = t
Acquire(t) == lock' = [owner |-> t, depth |-> lock.depth + 1]
Release == lock' = [owner |-> IF lock.depth = 1 THEN None ELSE lock.owner,
                    depth |-> lock.depth - 1]

NewCall(pc, n, s) ==
  [pc |-> pc, name |-> n, sub |-> s, level |-> 1, id |-> NoId, topic |-> None, got |-> {}]

Current(list) == IF list.pos = 0 THEN None ELSE list.items[list.pos]
-----------------------------------------------------------------------------
\* publishReq is called, by a thread or from a callback (a callback calls the
\* broker once).
Publish(t, n) ==
  /\ Idle(t)
  /\ Enter(t, NewCall("identify", n, None))
  /\ UNCHANGED <<provider, topics, heap, lock, astray>>

PublishNested(t, n) ==
  /\ At(t, "callback")
  /\ n \in Republish[Top(t).sub]
  /\ Len(calls[t]) < MaxDepth
  /\ Inside(t, NewCall("identify", n, None))
  /\ UNCHANGED <<provider, topics, heap, lock, astray>>

\* createTopicId, one level, without the lock: the provider may grow meanwhile.
Identify(t) ==
  /\ At(t, "identify")
  /\ LET f == Top(t)
         g == [f EXCEPT !.id[f.level] = Level(provider, f.name, f.level)]
     IN  IF f.level = MaxLevel
         THEN Step(t, [g EXCEPT !.pc = "lock", !.level = 1])
         ELSE Step(t, [g EXCEPT !.level = @ + 1])
  /\ UNCHANGED <<provider, topics, heap, lock, astray>>

\* mutex.lock and getFirstItem
Lock(t) ==
  /\ At(t, "lock")
  /\ Free(t)
  /\ Acquire(t)
  /\ topics' = FirstItem(topics)
  /\ Step(t, [Top(t) EXCEPT !.pc = "scan", !.topic = Current(topics')])
  /\ UNCHANGED <<provider, heap, astray>>

\* One topic: its subscribers are called if it has any and the identifiers
\* match.
Scan(t) ==
  /\ At(t, "scan")
  /\ LET f == Top(t) IN
       /\ f.topic # None
       /\ IF MatchIds(heap[f.topic].id, f.id) /\ heap[f.topic].subs.items # <<>>
          THEN /\ heap' = [heap EXCEPT ![f.topic].subs = FirstItem(@)]
               /\ Step(t, [f EXCEPT !.pc = "deliver", !.sub = Current(heap'[f.topic].subs)])
               /\ UNCHANGED topics
          ELSE /\ topics' = NextItem(topics)
               /\ Step(t, [f EXCEPT !.topic = Current(topics')])
               /\ UNCHANGED heap
  /\ UNCHANGED <<provider, lock, astray>>

\* sbc->call
Deliver(t) ==
  /\ At(t, "deliver")
  /\ LET f == Top(t) IN
       Step(t, [f EXCEPT !.pc = "callback", !.got = @ \cup {<<f.topic, f.sub>>}])
  /\ UNCHANGED <<provider, topics, heap, lock, astray>>

\* The callback returns: the next subscriber, or else the next topic.
CallbackReturns(t) ==
  /\ At(t, "callback") \/ At(t, "called")
  /\ LET f == Top(t)
         subs == NextItem(heap[f.topic].subs)
     IN  /\ heap' = [heap EXCEPT ![f.topic].subs = subs]
         /\ IF subs.pos # 0
            THEN /\ Step(t, [f EXCEPT !.pc = "deliver", !.sub = Current(subs)])
                 /\ UNCHANGED topics
            ELSE /\ topics' = NextItem(topics)
                 /\ Step(t, [f EXCEPT !.pc = "scan", !.sub = None, !.topic = Current(topics')])
  /\ UNCHANGED <<provider, lock, astray>>

\* publisher->call and unlock
Finish(t) ==
  /\ At(t, "scan")
  /\ Top(t).topic = None
  /\ Release
  /\ Leave(t)
  /\ astray' = IF Len(calls[t]) = 1 THEN astray \ {t} ELSE astray
  /\ UNCHANGED <<provider, topics, heap>>
-----------------------------------------------------------------------------
CallSubscribe(t, n, s) ==
  /\ Idle(t)
  /\ n \in Interests[s]
  /\ Enter(t, NewCall("subscribe", n, s))
  /\ UNCHANGED <<provider, topics, heap, lock, astray>>

\* A callback subscribes itself: findTopicByName and searchItem are going to
\* move the cursors of the publications that it is called from.
SubscribeNested(t, n) ==
  /\ At(t, "callback")
  /\ n \in Resubscribe[Top(t).sub]
  /\ Inside(t, NewCall("subscribe", n, Top(t).sub))
  /\ astray' = astray \cup {t}
  /\ UNCHANGED <<provider, topics, heap, lock>>

\* mutant of Subscribe: the subscriber is not looked for
SubscribeTwice(t) ==
  /\ At(t, "subscribe")
  /\ Free(t)
  /\ LET f == Top(t) IN
       /\ f.name \in DOMAIN heap
       /\ heap' = [heap EXCEPT ![f.name].subs = AddItem(@, f.sub)]
       /\ topics' = SearchItem(topics, f.name)
  /\ Leave(t)
  /\ UNCHANGED <<provider, lock, astray>>
\* subscribeReq of a name that has a topic: the subscriber is added unless it
\* is there (EXISTS).
Subscribe(t) ==
  /\ At(t, "subscribe")
  /\ Free(t)
  /\ LET f == Top(t)
         subs == SearchItem(heap[f.name].subs, f.sub)
     IN  /\ f.name \in DOMAIN heap
         /\ heap' = [heap EXCEPT ![f.name].subs =
                       IF subs.pos = 0 THEN AddItem(subs, f.sub) ELSE subs]
         /\ topics' = SearchItem(topics, f.name)
  /\ Leave(t)
  /\ UNCHANGED <<provider, lock, astray>>

\* subscribeReq of another name: the lock is kept while its texts are added ...
SubscribeNew(t) ==
  /\ At(t, "subscribe")
  /\ Free(t)
  /\ Top(t).name \notin DOMAIN heap
  /\ Acquire(t)
  /\ topics' = SearchItem(topics, Top(t).name)
  /\ Step(t, [Top(t) EXCEPT !.pc = "tokens"])
  /\ UNCHANGED <<provider, heap, astray>>

GenerateToken(t) ==
  /\ At(t, "tokens")
  /\ LET f == Top(t) IN
       /\ f.level <= Len(f.name)
       /\ provider' = AddToken(provider, f.name[f.level])
       /\ Step(t, [f EXCEPT !.level = @ + 1])
  /\ UNCHANGED <<topics, heap, lock, astray>>

\* mutant of Register: the return of LIMIT_EXCEEDED forgets to unlock
RegisterLocked(t) ==
  /\ At(t, "tokens")
  /\ LET f == Top(t) IN
       /\ f.level > Len(f.name)
       /\ IF Len(topics.items) < MaxTopics
          THEN /\ topics' = AddItem(topics, f.name)
               /\ heap' = [n \in DOMAIN heap \cup {f.name} |->
                             IF n \in DOMAIN heap THEN heap[n]
                             ELSE [id   |-> CreateTopicId(provider, n),
                                   subs |-> AddItem(EmptyList, f.sub)]]
               /\ Release
          ELSE UNCHANGED <<topics, heap, lock>>
  /\ Leave(t)
  /\ UNCHANGED <<provider, astray>>
\* ... and the topic is created; one too many is not listed (LIMIT_EXCEEDED).
Register(t) ==
  /\ At(t, "tokens")
  /\ LET f == Top(t) IN
       /\ f.level > Len(f.name)
       /\ IF Len(topics.items) < MaxTopics
          THEN /\ topics' = AddItem(topics, f.name)
               /\ heap' = [n \in DOMAIN heap \cup {f.name} |->
                             IF n \in DOMAIN heap THEN heap[n]
                             ELSE [id   |-> CreateTopicId(provider, n),
                                   subs |-> AddItem(EmptyList, f.sub)]]
          ELSE UNCHANGED <<topics, heap>>
  /\ Release
  /\ Leave(t)
  /\ UNCHANGED <<provider, astray>>

CallUnsubscribe(t, n, s) ==
  /\ Idle(t)
  /\ n \in Interests[s]
  /\ Enter(t, NewCall("unsubscribe", n, s))
  /\ UNCHANGED <<provider, topics, heap, lock, astray>>

\* unsubscribeReq: a topic goes with its last subscriber.
Unsubscribe(t) ==
  /\ At(t, "unsubscribe")
  /\ Free(t)
  /\ LET f == Top(t)
         found == SearchItem(topics, f.name)
         subs == SearchItem(heap[f.name].subs, f.sub)
     IN  IF found.pos = 0
         THEN topics' = found /\ UNCHANGED heap                      \* NOT_FOUND
         ELSE IF subs.pos = 0
         THEN topics' = found /\ heap' = [heap EXCEPT ![f.name].subs = subs]
         ELSE IF Len(subs.items) > 1
         THEN topics' = found /\ heap' = [heap EXCEPT ![f.name].subs = RemoveItem(subs, f.sub)]
         ELSE /\ topics' = RemoveItem(topics, f.name)
              /\ heap' = [n \in DOMAIN heap \ {f.name} |-> heap[n]]
  /\ Leave(t)
  /\ UNCHANGED <<provider, lock, astray>>
-----------------------------------------------------------------------------
\* The steps of a call that wait for nobody, and those that take the lock.
Work(t) == \/ Identify(t) \/ Scan(t) \/ Deliver(t) \/ CallbackReturns(t) \/ Finish(t)
           \/ GenerateToken(t) \/ Register(t)
Take(t) == Lock(t) \/ Subscribe(t) \/ SubscribeNew(t) \/ Unsubscribe(t)

Next == \E t \in Threads :
          \/ \E n \in Names : Publish(t, n) \/ PublishNested(t, n) \/ SubscribeNested(t, n)
          \/ \E n \in Names, s \in Subs : CallSubscribe(t, n, s) \/ CallUnsubscribe(t, n, s)
          \/ Work(t)
          \/ Take(t)

Spec == Init /\ [][Next]_vars

\* A thread in a call goes on, callbacks return, and the mutex wakes the
\* threads of one priority in the order in which they came.
Fairness == \A t \in Threads : WF_vars(Work(t)) /\ SF_vars(Take(t))

FairSpec == Spec /\ Fairness
-----------------------------------------------------------------------------
Locked == {"scan", "deliver", "callback", "called", "tokens"}

\* The mutex counts the calls that are between lock and unlock, all of one
\* thread, and nobody else is inside: no return path of subscribeReq,
\* unsubscribeReq or publishReq leaves it locked or unlocks it twice.
LockHeld ==
  \A t \in Threads :
    Cardinality({i \in DOMAIN calls[t] : calls[t][i].pc \in Locked})
      = IF lock.owner = t THEN lock.depth ELSE 0

\* A publication calls no subscriber of a topic twice, whatever its callbacks
\* publish meanwhile over the same cursors, and whatever other threads ask for.
\* A callback that subscribes leaves the cursor of the topics on the topic it
\* names (MQLib.h:562), so from there on the publication may go back.
AtMostOnce ==
  [][\A t \in Threads \ astray :
       At(t, "deliver") /\ calls'[t] # calls[t] => <<Top(t).topic, Top(t).sub>> \notin Top(t).got]_vars

\* Every call returns, and no thread is left waiting for the mutex for ever,
\* unless one publication never ends; and that one has had a callback that
\* subscribed, which may send it back to the same callback each time round
\* (MQLib.h:408), with the mutex held.
CallsReturn ==
  \A t \in Threads :
    (~Idle(t) ~> Idle(t)) \/ \E u \in Threads : <>[](u \in astray)

Subscribed == {x \in (DOMAIN heap) \X Subs : x[2] \in Items(heap[x[1]].subs)}

\* The subscriptions that the cursors still lead a publication to.
Ahead(f) ==
  LET later == FromCursor(topics) \ (IF f.pc = "scan" THEN {} ELSE {f.topic})
      rest == IF f.pc = "deliver" THEN FromCursor(heap[f.topic].subs)
              ELSE FromCursor(NextItem(heap[f.topic].subs))
  IN  {x \in Subscribed : x[1] \in later /\ MatchIds(heap[x[1]].id, f.id)}
        \cup IF f.pc = "scan" THEN {} ELSE {f.topic} \X rest

Publishing == {t \in Threads : ~Idle(t) /\ Top(t).pc \in Locked \ {"tokens"}}

Delivering ==
  IF Publishing = {} THEN None
  ELSE LET f == Top(CHOOSE t \in Publishing : TRUE)
       IN  [name |-> f.name, todo |-> Ahead(f)]

P == INSTANCE PubSub WITH
       Reaches    <- {x \in Names \X Names : Supported(x[1]) /\ Plain(x[2]) /\ Matches(x[1], x[2])},
       Nobody     <- None,
       subscribed <- Subscribed,
       delivering <- Delivering

\* As long as callbacks do not call it, the broker keeps the promise of PubSub,
\* although identifiers are computed before the lock is taken and topics come
\* and go in between.
Delivery == P!Spec
-----------------------------------------------------------------------------
\* MQLib.h:397 "si coinciden, se invoca a todos los suscriptores": by the time
\* a publication ends, every subscriber of a matching topic has been called.
AllInvoked ==
  \A t \in Threads : At(t, "scan") /\ Top(t).topic = None =>
    {x \in Subscribed : MatchIds(heap[x[1]].id, Top(t).id)} \subseteq Top(t).got
=============================================================================
