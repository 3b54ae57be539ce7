-------------------------- MODULE MQBroker_proofs --------------------------
(***************************************************************************)
(* The broker, for any number of threads, names and subscribers, any depth *)
(* of publications inside publications and any callbacks.  In this order:  *)
(*   - its recursive mutex counts the calls between lock and unlock, and   *)
(*     keeps every other thread out (LockInv);                             *)
(*   - the topics and their lists agree, no cursor or frame points to a    *)
(*     topic that has been freed, and identifiers that were computed       *)
(*     without the lock stay good enough (BrokerInv);                      *)
(*   - the cursors never lead a publication back, unless one of its        *)
(*     callbacks subscribes (WalkInv);                                     *)
(*   - when callbacks do not call the broker, PubSub is implemented        *)
(*     (QuietInv).                                                         *)
(***************************************************************************)
EXTENDS MQBroker, FiniteSetTheorems, SequenceTheorems, TLAPS

IsSeq(s) == \E S : s \in Seq(S)

\* A stack of calls: all but the innermost are in a callback that has called
\* the broker.
Stack(s) ==
  /\ IsSeq(s)
  /\ \A i \in 1 .. Len(s) : "pc" \in DOMAIN s[i]
  /\ \A i \in 1 .. Len(s) - 1 : s[i].pc = "called"

\* How often a thread with these calls has the mutex locked.
Held(s) ==
  IF s = <<>> THEN 0
  ELSE IF s[Len(s)].pc \in Locked THEN Len(s)
  ELSE Len(s) - 1

LockInv ==
  /\ DOMAIN calls = Threads
  /\ lock \in [owner : Threads \cup {None}, depth : Nat]
  /\ lock.owner = None <=> lock.depth = 0
  /\ \A t \in Threads : /\ Stack(calls[t])
                        /\ Held(calls[t]) = IF lock.owner = t THEN lock.depth ELSE 0
-----------------------------------------------------------------------------
(* What the steps of a call do to a stack.                                 *)

LEMMA AppendFacts ==
  ASSUME NEW s, IsSeq(s), NEW f
  PROVE  /\ Len(s) \in Nat
         /\ IsSeq(Append(s, f))
         /\ Len(Append(s, f)) = Len(s) + 1
         /\ \A i \in 1 .. Len(s) : Append(s, f)[i] = s[i]
         /\ Append(s, f)[Len(s) + 1] = f
         /\ Append(s, f) # <<>>
<1>1. PICK S : s \in Seq(S)
  BY DEF IsSeq
<1> DEFINE T == S \cup {f}
<1>2. s \in Seq(T) /\ f \in T
  BY <1>1
<1> HIDE DEF T
<1>3. Append(s, f) \in Seq(T)
  BY <1>2
<1> QED
  BY <1>2, <1>3 DEF IsSeq

LEMMA FrontFacts ==
  ASSUME NEW s, IsSeq(s), s # <<>>
  PROVE  /\ Len(s) \in Nat /\ Len(s) > 0
         /\ IsSeq(Front(s))
         /\ Len(Front(s)) = Len(s) - 1
         /\ \A i \in 1 .. Len(s) - 1 : Front(s)[i] = s[i]
<1>1. PICK S : s \in Seq(S)
  BY DEF IsSeq
<1>2. Len(s) \in Nat /\ Len(s) > 0
  BY <1>1
<1>3. Front(s) \in Seq(S) /\ Len(Front(s)) = Len(s) - 1
      /\ \A i \in 1 .. Len(s) - 1 : Front(s)[i] = s[i]
  <2> DEFINE n == Len(s) - 1
  <2>1. n \in Int /\ 1 \in Int /\ \A i \in 1 .. n : s[i] \in S
    BY <1>1, <1>2
  <2>2. n >= 0
    BY <1>2
  <2> HIDE DEF n
  <2>3. /\ SubSeq(s, 1, n) \in Seq(S)
        /\ Len(SubSeq(s, 1, n)) = IF 1 <= n THEN n - 1 + 1 ELSE 0
        /\ \A i \in 1 .. n - 1 + 1 : SubSeq(s, 1, n)[i] = s[1 + i - 1]
    BY <2>1, SubSeqProperties
  <2>4. Front(s) = SubSeq(s, 1, n)
    BY DEF Front, n
  <2>5. Len(Front(s)) = n /\ \A i \in 1 .. n : Front(s)[i] = s[i]
    BY <2>1, <2>2, <2>3, <2>4
  <2> QED
    BY <2>3, <2>4, <2>5 DEF n
<1> QED
  BY <1>2, <1>3 DEF IsSeq

\* A call begins in a thread that has none.
LEMMA Enters ==
  ASSUME NEW f, "pc" \in DOMAIN f, f.pc \notin Locked
  PROVE  Stack(Append(<<>>, f)) /\ Held(Append(<<>>, f)) = 0
<1> DEFINE s == Append(<<>>, f)
<1>1. IsSeq(<<>>)
  <2>1. <<>> \in Seq({})
    OBVIOUS
  <2> QED
    BY <2>1 DEF IsSeq
<1>2. Len(<<>>) = 0
  OBVIOUS
<1>3. IsSeq(s) /\ Len(s) = Len(<<>>) + 1 /\ s[Len(<<>>) + 1] = f /\ s # <<>>
  BY <1>1, AppendFacts, Zenon
<1>4. Len(s) = 1 /\ s[1] = f
  BY <1>2, <1>3
<1> HIDE DEF s
<1> QED
  BY <1>3, <1>4 DEF Stack, Held, s

\* The innermost call goes on.
LEMMA Steps ==
  ASSUME NEW s, Stack(s), s # <<>>, NEW f, "pc" \in DOMAIN f
  PROVE  /\ Stack(Append(Front(s), f))
         /\ Held(Append(Front(s), f)) = IF f.pc \in Locked THEN Len(s) ELSE Len(s) - 1
<1> DEFINE r == Append(Front(s), f)
<1>1. /\ Len(s) \in Nat /\ Len(s) > 0 /\ IsSeq(Front(s))
      /\ Len(Front(s)) = Len(s) - 1 /\ \A i \in 1 .. Len(s) - 1 : Front(s)[i] = s[i]
  BY FrontFacts DEF Stack
<1>2. /\ IsSeq(r)
      /\ Len(r) = Len(s) /\ r[Len(s)] = f /\ r # <<>>
      /\ \A i \in 1 .. Len(s) - 1 : r[i] = s[i]
  BY <1>1, AppendFacts
<1> HIDE DEF r
<1>3. Stack(r)
  BY <1>1, <1>2 DEF Stack
<1>4. Held(r) = IF f.pc \in Locked THEN Len(s) ELSE Len(s) - 1
  BY <1>2 DEF Held
<1> QED
  BY <1>3, <1>4 DEF r

\* The innermost call enters another from its callback.
LEMMA Nests ==
  ASSUME NEW s, Stack(s), s # <<>>, NEW c, NEW f,
         "pc" \in DOMAIN c, c.pc = "called", "pc" \in DOMAIN f, f.pc \notin Locked
  PROVE  /\ Stack(Append(Append(Front(s), c), f))
         /\ Held(Append(Append(Front(s), c), f)) = Len(s)
<1> DEFINE r == Append(Front(s), c)
           q == Append(r, f)
<1>1. /\ Len(s) \in Nat /\ Len(s) > 0 /\ IsSeq(Front(s))
      /\ Len(Front(s)) = Len(s) - 1 /\ \A i \in 1 .. Len(s) - 1 : Front(s)[i] = s[i]
  BY FrontFacts DEF Stack
<1>2. /\ IsSeq(r)
      /\ Len(r) = Len(s) /\ r[Len(s)] = c
      /\ \A i \in 1 .. Len(s) - 1 : r[i] = s[i]
  BY <1>1, AppendFacts
<1> HIDE DEF r
<1>3. /\ IsSeq(q)
      /\ Len(q) = Len(s) + 1 /\ q[Len(s) + 1] = f /\ q # <<>>
      /\ \A i \in 1 .. Len(s) : q[i] = r[i]
  BY <1>2, AppendFacts
<1> HIDE DEF q
<1>4. Stack(q)
  BY <1>1, <1>2, <1>3 DEF Stack
<1>5. Held(q) = Len(s)
  BY <1>1, <1>3 DEF Held
<1> QED
  BY <1>4, <1>5 DEF q, r

\* The innermost call returns.
LEMMA Returns ==
  ASSUME NEW s, Stack(s), s # <<>>
  PROVE  Stack(Front(s)) /\ Held(Front(s)) = Len(s) - 1
<1> DEFINE r == Front(s)
<1>1. /\ Len(s) \in Nat /\ Len(s) > 0 /\ IsSeq(r)
      /\ Len(r) = Len(s) - 1 /\ \A i \in 1 .. Len(s) - 1 : r[i] = s[i]
  BY FrontFacts DEF Stack
<1> HIDE DEF r
<1>2. Stack(r)
  BY <1>1 DEF Stack
<1>3. CASE Len(s) = 1
  <2>1. r = <<>>
    BY <1>1, <1>3
  <2> QED
    BY <1>2, <1>3, <2>1 DEF Held, r
<1>4. CASE Len(s) > 1
  <2>1. r # <<>>
    BY <1>1, <1>4
  <2>2. r[Len(r)].pc = "called"
    BY <1>1, <1>4 DEF Stack
  <2> QED
    BY <1>1, <1>2, <2>1, <2>2 DEF Held, Locked, r
<1> QED
  BY <1>1, <1>3, <1>4
-----------------------------------------------------------------------------
\* A step of one thread keeps the invariant if it changes its own calls and
\* the mutex alike.
LEMMA Keeps ==
  ASSUME LockInv, NEW t \in Threads, NEW s, Stack(s), calls' = [calls EXCEPT ![t] = s],
         \/ lock' = lock /\ Held(s) = Held(calls[t])
         \/ Free(t) /\ Acquire(t) /\ Held(s) = Held(calls[t]) + 1
         \/ Release /\ Held(calls[t]) > 0 /\ Held(s) = Held(calls[t]) - 1
  PROVE  LockInv'
<1>1. /\ calls'[t] = s /\ DOMAIN calls' = Threads
      /\ \A u \in Threads : u # t => calls'[u] = calls[u]
  BY DEF LockInv
<1>2. /\ lock.owner \in Threads \cup {None} /\ lock.depth \in Nat
      /\ lock.owner = None <=> lock.depth = 0
      /\ t # None
  BY NoneAssumption DEF LockInv
<1>3. \A u \in Threads : Held(calls[u]) = IF lock.owner = u THEN lock.depth ELSE 0
  BY DEF LockInv
<1>4. \A u \in Threads : Stack(calls'[u])
  BY <1>1 DEF LockInv
<1> DEFINE Balanced == \A u \in Threads : Held(calls'[u]) = IF lock'.owner = u THEN lock'.depth ELSE 0
           Well == /\ lock' \in [owner : Threads \cup {None}, depth : Nat]
                   /\ lock'.owner = None <=> lock'.depth = 0
<1>5. CASE lock' = lock /\ Held(s) = Held(calls[t])
  <2>1. Well
    BY <1>5 DEF LockInv
  <2>2. Balanced
    BY <1>1, <1>3, <1>5
  <2> QED
    BY <1>1, <1>4, <2>1, <2>2 DEF LockInv
<1>6. CASE Free(t) /\ Acquire(t) /\ Held(s) = Held(calls[t]) + 1
  <2>1. lock'.owner = t /\ lock'.depth = lock.depth + 1
    BY <1>6 DEF Acquire
  <2>2. Well
    BY <1>2, <1>6 DEF Acquire
  <2>3. lock.owner = None \/ lock.owner = t
    BY <1>2, <1>6 DEF Free
  <2>4. ASSUME NEW u \in Threads
        PROVE  Held(calls'[u]) = IF lock'.owner = u THEN lock'.depth ELSE 0
    <3>1. CASE u = t
      BY <1>1, <1>2, <1>3, <1>6, <2>1, <2>3, <3>1
    <3>2. CASE u # t
      BY <1>1, <1>2, <1>3, <2>1, <2>3, <3>2, NoneAssumption
    <3> QED
      BY <3>1, <3>2
  <2> QED
    BY <1>1, <1>4, <2>2, <2>4 DEF LockInv
<1>7. CASE Release /\ Held(calls[t]) > 0 /\ Held(s) = Held(calls[t]) - 1
  <2>1. lock.owner = t /\ Held(calls[t]) = lock.depth
    BY <1>2, <1>3, <1>7
  <2>2. lock.depth > 0
    BY <1>7, <2>1
  <2>3. lock'.owner = (IF lock.depth = 1 THEN None ELSE t) /\ lock'.depth = lock.depth - 1
    BY <1>7, <2>1 DEF Release
  <2>4. Well
    BY <1>2, <1>7, <2>1, <2>2 DEF Release
  <2>5. ASSUME NEW u \in Threads
        PROVE  Held(calls'[u]) = IF lock'.owner = u THEN lock'.depth ELSE 0
    <3>1. CASE u = t
      BY <1>1, <1>2, <1>7, <2>1, <2>2, <2>3, <3>1
    <3>2. CASE u # t
      BY <1>1, <1>2, <1>3, <2>1, <2>3, <3>2, NoneAssumption
    <3> QED
      BY <3>1, <3>2
  <2> QED
    BY <1>1, <1>4, <2>4, <2>5 DEF LockInv
<1> QED
  BY <1>5, <1>6, <1>7

\* What is known of a thread in a call.
LEMMA InCall ==
  ASSUME LockInv, NEW t \in Threads, NEW pc, At(t, pc)
  PROVE  /\ Stack(calls[t]) /\ calls[t] # <<>> /\ Len(calls[t]) \in Nat /\ Len(calls[t]) > 0
         /\ "pc" \in DOMAIN Top(t) /\ Top(t).pc = pc
         /\ Held(calls[t]) = IF pc \in Locked THEN Len(calls[t]) ELSE Len(calls[t]) - 1
<1>1. Stack(calls[t]) /\ calls[t] # <<>> /\ Top(t).pc = pc
  BY DEF LockInv, At, Idle
<1>2. Len(calls[t]) \in Nat /\ Len(calls[t]) > 0
  BY <1>1, FrontFacts DEF Stack
<1>3. "pc" \in DOMAIN Top(t)
  BY <1>1, <1>2 DEF Stack, Top
<1> QED
  BY <1>1, <1>2, <1>3 DEF Held, Top

\* The four ways in which a step of a call leaves the mutex as it should.
LEMMA StepKeeps ==
  ASSUME LockInv, NEW t \in Threads, NEW pc, At(t, pc), NEW f, "pc" \in DOMAIN f, Step(t, f),
         \/ lock' = lock /\ (pc \in Locked <=> f.pc \in Locked)
         \/ Free(t) /\ Acquire(t) /\ pc \notin Locked /\ f.pc \in Locked
  PROVE  LockInv'
<1> DEFINE s == Append(Front(calls[t]), f)
<1>1. Stack(s) /\ Held(s) = IF f.pc \in Locked THEN Len(calls[t]) ELSE Len(calls[t]) - 1
  BY InCall, Steps
<1>2. calls' = [calls EXCEPT ![t] = s]
  BY DEF Step
<1> HIDE DEF s
<1>3. /\ Len(calls[t]) \in Nat
      /\ Held(calls[t]) = IF pc \in Locked THEN Len(calls[t]) ELSE Len(calls[t]) - 1
  BY InCall
<1>4. \/ lock' = lock /\ Held(s) = Held(calls[t])
      \/ Free(t) /\ Acquire(t) /\ Held(s) = Held(calls[t]) + 1
  BY <1>1, <1>3
<1> QED
  BY <1>1, <1>2, <1>4, Keeps

LEMMA LeaveKeeps ==
  ASSUME LockInv, NEW t \in Threads, NEW pc, At(t, pc), Leave(t),
         \/ lock' = lock /\ pc \notin Locked
         \/ Release /\ pc \in Locked
  PROVE  LockInv'
<1> DEFINE s == Front(calls[t])
<1>1. Stack(s) /\ Held(s) = Len(calls[t]) - 1
  BY InCall, Returns
<1>2. calls' = [calls EXCEPT ![t] = s]
  BY DEF Leave
<1> HIDE DEF s
<1>3. /\ Len(calls[t]) \in Nat /\ Len(calls[t]) > 0
      /\ Held(calls[t]) = IF pc \in Locked THEN Len(calls[t]) ELSE Len(calls[t]) - 1
  BY InCall
<1>4. \/ lock' = lock /\ Held(s) = Held(calls[t])
      \/ Release /\ Held(calls[t]) > 0 /\ Held(s) = Held(calls[t]) - 1
  BY <1>1, <1>3
<1> QED
  BY <1>1, <1>2, <1>4, Keeps

LEMMA EnterKeeps ==
  ASSUME LockInv, NEW t \in Threads, Idle(t), NEW pc, pc \notin Locked, NEW n, NEW x,
         Enter(t, NewCall(pc, n, x)), lock' = lock
  PROVE  LockInv'
<1> DEFINE f == NewCall(pc, n, x)
           s == Append(<<>>, f)
<1>1. "pc" \in DOMAIN f /\ f.pc = pc
  BY DEF NewCall
<1> HIDE DEF f
<1>2. Stack(s) /\ Held(s) = 0
  BY <1>1, Enters
<1>3. calls' = [calls EXCEPT ![t] = s] /\ Held(calls[t]) = 0
  BY DEF Enter, Idle, Held, f
<1> HIDE DEF s
<1> QED
  BY <1>2, <1>3, Keeps
-----------------------------------------------------------------------------
LEMMA NextLockInv == LockInv /\ [Next]_vars => LockInv'
<1> SUFFICES ASSUME LockInv, [Next]_vars PROVE LockInv'
  OBVIOUS
<1>1. ASSUME NEW t \in Threads, NEW n \in Names, Publish(t, n) PROVE LockInv'
  BY <1>1, EnterKeeps DEF Publish, Locked
<1>2. ASSUME NEW t \in Threads, NEW n \in Names, PublishNested(t, n) \/ SubscribeNested(t, n)
      PROVE  LockInv'
  <2>0. PICK pc, x : /\ pc \in {"identify", "subscribe"}
                     /\ At(t, "callback") /\ Inside(t, NewCall(pc, n, x)) /\ lock' = lock
    BY <1>2 DEF PublishNested, SubscribeNested
  <2> DEFINE c == [Top(t) EXCEPT !.pc = "called"]
             f == NewCall(pc, n, x)
             s == Append(Append(Front(calls[t]), c), f)
  <2>1. At(t, "callback") /\ calls' = [calls EXCEPT ![t] = s] /\ lock' = lock
    BY <2>0 DEF Inside
  <2>2. /\ Stack(calls[t]) /\ calls[t] # <<>> /\ "pc" \in DOMAIN Top(t)
        /\ Held(calls[t]) = Len(calls[t])
    BY <2>1, InCall DEF Locked
  <2>3. "pc" \in DOMAIN c /\ c.pc = "called"
    BY <2>2
  <2>4. "pc" \in DOMAIN f /\ f.pc \notin Locked
    BY <2>0 DEF NewCall, Locked
  <2> HIDE DEF c, f
  <2>5. Stack(s) /\ Held(s) = Len(calls[t])
    BY <2>2, <2>3, <2>4, Nests
  <2> HIDE DEF s
  <2> QED
    BY <2>1, <2>2, <2>5, Keeps
<1>3. ASSUME NEW t \in Threads, Identify(t) PROVE LockInv'
  <2>1. At(t, "identify") /\ lock' = lock
    BY <1>3 DEF Identify
  <2>2. "pc" \in DOMAIN Top(t) /\ Top(t).pc = "identify"
    BY <2>1, InCall
  <2> DEFINE g == [Top(t) EXCEPT !.id[Top(t).level] = Level(provider, Top(t).name, Top(t).level)]
             last == [g EXCEPT !.pc = "lock", !.level = 1]
             next == [g EXCEPT !.level = @ + 1]
  <2>3. PICK f : Step(t, f) /\ "pc" \in DOMAIN f /\ f.pc \in {"identify", "lock"}
    <3>1. Step(t, last) \/ Step(t, next)
      BY <1>3 DEF Identify
    <3>2. "pc" \in DOMAIN g /\ g.pc = "identify"
      BY <2>2
    <3> HIDE DEF g
    <3>3. /\ "pc" \in DOMAIN last /\ last.pc = "lock"
          /\ "pc" \in DOMAIN next /\ next.pc = "identify"
      BY <3>2
    <3> QED
      BY <3>1, <3>3
  <2> QED
    BY <2>1, <2>3, StepKeeps DEF Locked
<1>4. ASSUME NEW t \in Threads, Lock(t) PROVE LockInv'
  <2>1. At(t, "lock") /\ Free(t) /\ Acquire(t)
    BY <1>4 DEF Lock
  <2>2. "pc" \in DOMAIN Top(t)
    BY <2>1, InCall
  <2> DEFINE g == [Top(t) EXCEPT !.pc = "scan", !.topic = Current(topics')]
  <2>3. PICK f : Step(t, f) /\ "pc" \in DOMAIN f /\ f.pc = "scan"
    <3>1. Step(t, g)
      BY <1>4 DEF Lock
    <3>2. "pc" \in DOMAIN g /\ g.pc = "scan"
      BY <2>2
    <3> QED
      BY <3>1, <3>2
  <2> QED
    BY <2>1, <2>3, StepKeeps DEF Locked
<1>5. ASSUME NEW t \in Threads, Scan(t) PROVE LockInv'
  <2>1. At(t, "scan") /\ lock' = lock
    BY <1>5 DEF Scan
  <2>2. "pc" \in DOMAIN Top(t) /\ Top(t).pc = "scan"
    BY <2>1, InCall
  <2> DEFINE meant == [Top(t) EXCEPT !.pc = "deliver", !.sub = Current(heap'[Top(t).topic].subs)]
             other == [Top(t) EXCEPT !.topic = Current(topics')]
  <2>3. PICK f : Step(t, f) /\ "pc" \in DOMAIN f /\ f.pc \in {"scan", "deliver"}
    <3>1. Step(t, meant) \/ Step(t, other)
      BY <1>5 DEF Scan
    <3>2. /\ "pc" \in DOMAIN meant /\ meant.pc = "deliver"
          /\ "pc" \in DOMAIN other /\ other.pc = "scan"
      BY <2>2
    <3> QED
      BY <3>1, <3>2
  <2> QED
    BY <2>1, <2>3, StepKeeps DEF Locked
<1>6. ASSUME NEW t \in Threads, Deliver(t) PROVE LockInv'
  <2>1. At(t, "deliver") /\ lock' = lock
    BY <1>6 DEF Deliver
  <2>2. "pc" \in DOMAIN Top(t)
    BY <2>1, InCall
  <2> DEFINE g == [Top(t) EXCEPT !.pc = "callback",
                                 !.got = @ \cup {<<Top(t).topic, Top(t).sub>>}]
  <2>3. PICK f : Step(t, f) /\ "pc" \in DOMAIN f /\ f.pc = "callback"
    <3>1. Step(t, g)
      BY <1>6 DEF Deliver
    <3>2. "pc" \in DOMAIN g /\ g.pc = "callback"
      BY <2>2
    <3> QED
      BY <3>1, <3>2
  <2> QED
    BY <2>1, <2>3, StepKeeps DEF Locked
<1>7. ASSUME NEW t \in Threads, CallbackReturns(t) PROVE LockInv'
  <2>1. PICK pc \in {"callback", "called"} : At(t, pc)
    BY <1>7 DEF CallbackReturns
  <2>2. "pc" \in DOMAIN Top(t) /\ lock' = lock
    BY <1>7, <2>1, InCall DEF CallbackReturns
  <2> DEFINE list == NextItem(heap[Top(t).topic].subs)
             more == [Top(t) EXCEPT !.pc = "deliver", !.sub = Current(list)]
             done == [Top(t) EXCEPT !.pc = "scan", !.sub = None, !.topic = Current(topics')]
  <2>3. PICK f : Step(t, f) /\ "pc" \in DOMAIN f /\ f.pc \in {"deliver", "scan"}
    <3>1. Step(t, more) \/ Step(t, done)
      BY <1>7 DEF CallbackReturns
    <3>2. /\ "pc" \in DOMAIN more /\ more.pc = "deliver"
          /\ "pc" \in DOMAIN done /\ done.pc = "scan"
      BY <2>2
    <3> QED
      BY <3>1, <3>2
  <2> QED
    BY <2>1, <2>2, <2>3, StepKeeps DEF Locked
<1>8. ASSUME NEW t \in Threads, Finish(t) PROVE LockInv'
  BY <1>8, LeaveKeeps DEF Finish, Locked
<1>9. ASSUME NEW t \in Threads, NEW n \in Names, NEW x \in Subs,
             CallSubscribe(t, n, x) \/ CallUnsubscribe(t, n, x)
      PROVE  LockInv'
  BY <1>9, EnterKeeps DEF CallSubscribe, CallUnsubscribe, Locked
<1>10. ASSUME NEW t \in Threads, Subscribe(t) PROVE LockInv'
  BY <1>10, LeaveKeeps DEF Subscribe, Locked
<1>11. ASSUME NEW t \in Threads, SubscribeNew(t) PROVE LockInv'
  <2>1. At(t, "subscribe") /\ Free(t) /\ Acquire(t)
    BY <1>11 DEF SubscribeNew
  <2>2. "pc" \in DOMAIN Top(t)
    BY <2>1, InCall
  <2>3. PICK f : Step(t, f) /\ "pc" \in DOMAIN f /\ f.pc = "tokens"
    BY <1>11, <2>2 DEF SubscribeNew
  <2> QED
    BY <2>1, <2>3, StepKeeps DEF Locked
<1>12. ASSUME NEW t \in Threads, GenerateToken(t) PROVE LockInv'
  <2>1. At(t, "tokens") /\ lock' = lock
    BY <1>12 DEF GenerateToken
  <2>2. "pc" \in DOMAIN Top(t) /\ Top(t).pc = "tokens"
    BY <2>1, InCall
  <2>3. PICK f : Step(t, f) /\ "pc" \in DOMAIN f /\ f.pc = "tokens"
    BY <1>12, <2>2 DEF GenerateToken
  <2> QED
    BY <2>1, <2>3, StepKeeps DEF Locked
<1>13. ASSUME NEW t \in Threads, Register(t) PROVE LockInv'
  BY <1>13, LeaveKeeps DEF Register, Locked
<1>14. ASSUME NEW t \in Threads, Unsubscribe(t) PROVE LockInv'
  BY <1>14, LeaveKeeps DEF Unsubscribe, Locked
<1>15. CASE UNCHANGED vars
  BY <1>15 DEF vars, LockInv
<1> QED
  BY <1>1, <1>2, <1>3, <1>4, <1>5, <1>6, <1>7, <1>8, <1>9, <1>10, <1>11, <1>12, <1>13, <1>14,
     <1>15 DEF Next, Work, Take

LEMMA InitLockInv == Init => LockInv
<1> SUFFICES ASSUME Init PROVE LockInv
  OBVIOUS
<1>1. IsSeq(<<>>) /\ Len(<<>>) = 0
  <2>1. <<>> \in Seq({})
    OBVIOUS
  <2> QED
    BY <2>1 DEF IsSeq
<1>2. Stack(<<>>) /\ Held(<<>>) = 0
  BY <1>1 DEF Stack, Held
<1> QED
  BY <1>2, NoneAssumption DEF Init, LockInv

LEMMA LockInvariant == Spec => []LockInv
  BY InitLockInv, NextLockInv, PTL DEF Spec

\* No return path leaves the mutex locked or unlocks it twice, however deep
\* publications are nested.
THEOREM Balanced == Spec => []LockHeld
<1>1. LockInv => LockHeld
  <2> SUFFICES ASSUME LockInv, NEW t \in Threads
               PROVE  Cardinality({i \in DOMAIN calls[t] : calls[t][i].pc \in Locked})
                        = IF lock.owner = t THEN lock.depth ELSE 0
    BY DEF LockHeld
  <2> DEFINE s == calls[t]
             inside == {i \in DOMAIN s : s[i].pc \in Locked}
  <2>1. Stack(s) /\ Held(s) = IF lock.owner = t THEN lock.depth ELSE 0
    BY DEF LockInv
  <2>2. Len(s) \in Nat /\ DOMAIN s = 1 .. Len(s)
    BY <2>1 DEF Stack, IsSeq
  <2>3. \A i \in 1 .. Len(s) - 1 : s[i].pc \in Locked
    BY <2>1 DEF Stack, Locked
  <2> HIDE DEF s
  <2>4. Held(s) \in Nat /\ inside = 1 .. Held(s)
    <3>1. CASE s = <<>>
      BY <2>2, <3>1 DEF Held
    <3>2. CASE s # <<>> /\ s[Len(s)].pc \in Locked
      BY <2>2, <2>3, <3>2 DEF Held
    <3>3. CASE s # <<>> /\ s[Len(s)].pc \notin Locked
      <4>1. Len(s) > 0
        BY <2>1, <3>3, FrontFacts DEF Stack
      <4> QED
        BY <2>2, <2>3, <3>3, <4>1 DEF Held
    <3> QED
      BY <3>1, <3>2, <3>3
  <2>5. Cardinality(1 .. Held(s)) = Held(s)
    BY <2>4, FS_Interval
  <2> QED
    BY <2>1, <2>4, <2>5 DEF s
<1> QED
  BY <1>1, LockInvariant, PTL

\* Mutual exclusion: of two threads at most one is between lock and unlock.
THEOREM Exclusive ==
  Spec => [](\A t, u \in Threads :
               (\E i \in DOMAIN calls[t] : calls[t][i].pc \in Locked)
                 /\ (\E i \in DOMAIN calls[u] : calls[u][i].pc \in Locked) => t = u)
<1> DEFINE Within(t) == \E i \in DOMAIN calls[t] : calls[t][i].pc \in Locked
<1>1. LockInv => \A t, u \in Threads : Within(t) /\ Within(u) => t = u
  <2> SUFFICES ASSUME LockInv, NEW t \in Threads, Within(t) PROVE lock.owner = t
    OBVIOUS
  <2>1. PICK i \in DOMAIN calls[t] : calls[t][i].pc \in Locked
    OBVIOUS
  <2>2. Stack(calls[t]) /\ Held(calls[t]) = IF lock.owner = t THEN lock.depth ELSE 0
    BY DEF LockInv
  <2>3. Len(calls[t]) \in Nat /\ DOMAIN calls[t] = 1 .. Len(calls[t])
    BY <2>2 DEF Stack, IsSeq
  <2>4. Held(calls[t]) > 0
    <3>1. calls[t] # <<>>
      BY <2>1
    <3> QED
      BY <2>1, <2>3, <3>1 DEF Held
  <2> QED
    BY <2>2, <2>4
<1> QED
  BY <1>1, LockInvariant, PTL
-----------------------------------------------------------------------------
(* The lists with a cursor, and what each operation does to one.           *)
\* A list whose items are all different.
NoDup(list) == \A i, j \in DOMAIN list.items : list.items[i] = list.items[j] => i = j
Unique(S) == {l \in Lists(S) : NoDup(l)}

LEMMA ListFacts ==
  ASSUME NEW S, NEW l \in Unique(S)
  PROVE  /\ l \in [items : Seq(S), pos : Nat] /\ l.items \in Seq(S)
         /\ Len(l.items) \in Nat /\ DOMAIN l.items = 1 .. Len(l.items)
         /\ l.pos \in Nat /\ l.pos <= Len(l.items)
         /\ l = [items |-> l.items, pos |-> l.pos]
         /\ NoDup(l) /\ Items(l) \subseteq S
         /\ (l.pos > 0 => l.items[l.pos] \in Items(l))
         /\ (Items(l) = {} <=> l.items = <<>>)
<1>1. /\ l \in [items : Seq(S), pos : Nat] /\ NoDup(l) /\ l.pos \in 0 .. Len(l.items)
  BY DEF Unique, Lists
<1>2. l.items \in Seq(S) /\ l.pos \in Nat /\ l = [items |-> l.items, pos |-> l.pos]
  BY <1>1
<1>3. /\ Len(l.items) \in Nat /\ DOMAIN l.items = 1 .. Len(l.items)
      /\ \A i \in 1 .. Len(l.items) : l.items[i] \in S
  BY <1>2
<1>4. l.pos > 0 => l.pos \in DOMAIN l.items
  BY <1>1, <1>2, <1>3
<1>5. Items(l) = {} <=> l.items = <<>>
  BY <1>2, <1>3 DEF Items
<1>6. Items(l) \subseteq S /\ (l.pos > 0 => l.items[l.pos] \in Items(l))
  BY <1>3, <1>4 DEF Items
<1>7. l.pos <= Len(l.items)
  BY <1>1, <1>2, <1>3
<1> QED
  BY <1>1, <1>2, <1>3, <1>5, <1>6, <1>7

\* A list made of the items of another and a cursor.
LEMMA MoveCursor ==
  ASSUME NEW S, NEW l \in Unique(S), NEW p \in 0 .. Len(l.items)
  PROVE  /\ [l EXCEPT !.pos = p] \in Unique(S)
         /\ [l EXCEPT !.pos = p].items = l.items /\ [l EXCEPT !.pos = p].pos = p
         /\ Items([l EXCEPT !.pos = p]) = Items(l)
<1> DEFINE m == [l EXCEPT !.pos = p]
<1>1. m.items = l.items /\ m.pos = p /\ p \in Nat
  BY ListFacts
<1>2. m \in [items : Seq(S), pos : Nat]
  BY ListFacts, <1>1
<1> HIDE DEF m
<1>3. NoDup(m)
  BY <1>1, ListFacts DEF NoDup
<1>4. m \in Unique(S)
  BY <1>1, <1>2, <1>3 DEF Unique, Lists
<1> QED
  BY <1>1, <1>4 DEF Items, m

LEMMA FirstFacts ==
  ASSUME NEW S, NEW l \in Unique(S)
  PROVE  /\ FirstItem(l) \in Unique(S) /\ FirstItem(l).items = l.items
         /\ Items(FirstItem(l)) = Items(l)
         /\ FirstItem(l).pos = IF l.items = <<>> THEN 0 ELSE 1
<1> DEFINE p == IF l.items = <<>> THEN 0 ELSE 1
<1>1. p \in 0 .. Len(l.items)
  BY ListFacts
<1> HIDE DEF p
<1> QED
  BY <1>1, MoveCursor DEF FirstItem, p

LEMMA NextFacts ==
  ASSUME NEW S, NEW l \in Unique(S)
  PROVE  /\ NextItem(l) \in Unique(S) /\ NextItem(l).items = l.items
         /\ Items(NextItem(l)) = Items(l)
         /\ NextItem(l).pos = IF l.pos \in {0, Len(l.items)} THEN 0 ELSE l.pos + 1
<1> DEFINE p == IF l.pos \in {0, Len(l.items)} THEN 0 ELSE l.pos + 1
<1>1. p \in 0 .. Len(l.items)
  BY ListFacts
<1> HIDE DEF p
<1>2. NextItem(l) = [l EXCEPT !.pos = p]
  BY DEF NextItem, p
<1> QED
  BY <1>1, <1>2, MoveCursor DEF p

LEMMA SearchFacts ==
  ASSUME NEW S, NEW l \in Unique(S), NEW x
  PROVE  /\ SearchItem(l, x) \in Unique(S) /\ SearchItem(l, x).items = l.items
         /\ Items(SearchItem(l, x)) = Items(l)
         /\ SearchItem(l, x).pos = 0 <=> x \notin Items(l)
<1> DEFINE p == IF x \in Items(l) THEN CHOOSE i \in DOMAIN l.items : l.items[i] = x ELSE 0
<1>1. p \in 0 .. Len(l.items) /\ (p = 0 <=> x \notin Items(l))
  <2>1. CASE x \in Items(l)
    <3>1. \E i \in DOMAIN l.items : l.items[i] = x
      BY <2>1 DEF Items
    <3>2. p \in DOMAIN l.items
      BY <2>1, <3>1
    <3> HIDE DEF p
    <3> QED
      BY <2>1, <3>2, ListFacts
  <2>2. CASE x \notin Items(l)
    BY <2>2, ListFacts
  <2> QED
    BY <2>1, <2>2
<1> HIDE DEF p
<1>2. SearchItem(l, x) = [l EXCEPT !.pos = p]
  BY DEF SearchItem, p
<1> QED
  BY <1>1, <1>2, MoveCursor

LEMMA AddFacts ==
  ASSUME NEW S, NEW l \in Unique(S), NEW x \in S, x \notin Items(l)
  PROVE  AddItem(l, x) \in Unique(S) /\ Items(AddItem(l, x)) = Items(l) \cup {x}
<1> DEFINE m == AddItem(l, x)
<1>1. m.items = Append(l.items, x) /\ m.pos = l.pos /\ m \in [items : Seq(S), pos : Nat]
  BY ListFacts DEF AddItem
<1> HIDE DEF m
<1>2. /\ Len(m.items) = Len(l.items) + 1 /\ DOMAIN m.items = 1 .. Len(l.items) + 1
      /\ \A i \in DOMAIN l.items : m.items[i] = l.items[i]
      /\ m.items[Len(l.items) + 1] = x
  BY <1>1, ListFacts
<1>3. m.pos \in 0 .. Len(m.items)
  BY <1>1, <1>2, ListFacts
<1>4. NoDup(m)
  <2> SUFFICES ASSUME NEW i \in DOMAIN m.items, NEW j \in DOMAIN m.items, m.items[i] = m.items[j]
               PROVE  i = j
    BY DEF NoDup
  <2>1. \A k \in DOMAIN m.items : k = Len(l.items) + 1 \/ k \in DOMAIN l.items
    BY <1>2, ListFacts
  <2>2. \A k \in DOMAIN l.items : l.items[k] # x
    BY DEF Items
  <2> QED
    BY <1>2, <2>1, <2>2, ListFacts DEF NoDup
<1>5. Items(m) = Items(l) \cup {x}
  <2>1. DOMAIN m.items = DOMAIN l.items \cup {Len(l.items) + 1}
    BY <1>2, ListFacts
  <2> QED
    BY <1>2, <2>1 DEF Items
<1> QED
  BY <1>1, <1>3, <1>4, <1>5 DEF Unique, Lists, m

LEMMA RemoveFacts ==
  ASSUME NEW S, NEW l \in Unique(S), NEW x \in Items(l)
  PROVE  RemoveItem(l, x) \in Unique(S) /\ Items(RemoveItem(l, x)) = Items(l) \ {x}
<1> DEFINE i == CHOOSE j \in DOMAIN l.items : l.items[j] = x
           n == Len(l.items)
           a == SubSeq(l.items, 1, i - 1)
           b == SubSeq(l.items, i + 1, n)
           r == a \o b
           m == RemoveItem(l, x)
<1>1. i \in DOMAIN l.items /\ l.items[i] = x
  BY DEF Items
<1>2. RemoveItem(l, x) = [items |-> r, pos |-> IF i = n THEN 0 ELSE i]
  BY DEF RemoveItem, RemoveAt
<1> HIDE DEF i
<1>3. n \in Nat /\ i \in 1 .. n /\ l.items \in Seq(S) /\ DOMAIN l.items = 1 .. n
      /\ \A j \in 1 .. n : l.items[j] \in S
  BY <1>1, ListFacts
<1> HIDE DEF n
<1>4. /\ a \in Seq(S) /\ Len(a) = i - 1
      /\ \A j \in 1 .. i - 1 : a[j] = l.items[j]
  <2> DEFINE last == i - 1
  <2>1. 1 \in Int /\ last \in Int /\ last >= 0 /\ \A j \in 1 .. last : l.items[j] \in S
    BY <1>3
  <2> HIDE DEF last
  <2>2. /\ SubSeq(l.items, 1, last) \in Seq(S)
        /\ Len(SubSeq(l.items, 1, last)) = IF 1 <= last THEN last - 1 + 1 ELSE 0
        /\ \A j \in 1 .. last - 1 + 1 : SubSeq(l.items, 1, last)[j] = l.items[1 + j - 1]
    BY <2>1, SubSeqProperties
  <2>3. a = SubSeq(l.items, 1, last)
    BY DEF last
  <2> HIDE DEF a
  <2>4. a \in Seq(S) /\ Len(a) = last /\ \A j \in 1 .. last : a[j] = l.items[j]
    BY <2>1, <2>2, <2>3
  <2> QED
    BY <2>4 DEF last
<1>5. /\ b \in Seq(S) /\ Len(b) = n - i
      /\ \A j \in 1 .. n - i : b[j] = l.items[i + j]
  <2> DEFINE from == i + 1
  <2>1. from \in Int /\ n \in Int /\ \A j \in from .. n : l.items[j] \in S
    BY <1>3
  <2> HIDE DEF from
  <2>2. /\ SubSeq(l.items, from, n) \in Seq(S)
        /\ Len(SubSeq(l.items, from, n)) = IF from <= n THEN n - from + 1 ELSE 0
        /\ \A j \in 1 .. n - from + 1 : SubSeq(l.items, from, n)[j] = l.items[from + j - 1]
    BY <2>1, SubSeqProperties
  <2>3. b = SubSeq(l.items, from, n)
    BY DEF from
  <2> HIDE DEF b
  <2>4. b \in Seq(S) /\ Len(b) = (IF from <= n THEN n - from + 1 ELSE 0)
        /\ \A j \in 1 .. n - from + 1 : b[j] = l.items[from + j - 1]
    BY <2>2, <2>3
  <2>5. from = i + 1
    BY DEF from
  <2> QED
    BY <1>3, <2>4, <2>5
<1> HIDE DEF a, b
<1>6. /\ r \in Seq(S) /\ Len(r) = n - 1 /\ DOMAIN r = 1 .. n - 1
      /\ \A j \in 1 .. n - 1 : r[j] = IF j < i THEN l.items[j] ELSE l.items[j + 1]
  <2>1. /\ r \in Seq(S) /\ Len(r) = Len(a) + Len(b)
        /\ \A j \in 1 .. Len(a) + Len(b) : r[j] = IF j <= Len(a) THEN a[j] ELSE b[j - Len(a)]
    BY <1>4, <1>5, ConcatProperties
  <2> HIDE DEF r
  <2>2. Len(r) = n - 1
    BY <1>3, <1>4, <1>5, <2>1
  <2>3. ASSUME NEW j \in 1 .. n - 1 PROVE r[j] = IF j < i THEN l.items[j] ELSE l.items[j + 1]
    <3>1. CASE j < i
      BY <1>3, <1>4, <1>5, <2>1, <3>1
    <3>2. CASE j >= i
      <4>1. r[j] = b[j - (i - 1)] /\ j - (i - 1) \in 1 .. n - i
        BY <1>3, <1>4, <1>5, <2>1, <3>2
      <4>2. b[j - (i - 1)] = l.items[i + (j - (i - 1))] /\ i + (j - (i - 1)) = j + 1
        BY <1>3, <1>5, <4>1
      <4> QED
        BY <1>3, <3>2, <4>1, <4>2
    <3> QED
      BY <1>3, <3>1, <3>2
  <2> QED
    BY <2>1, <2>2, <2>3
<1> HIDE DEF r
<1>7. m = [items |-> r, pos |-> IF i = n THEN 0 ELSE i]
  BY <1>2
<1> HIDE DEF m
<1>8. m.items = r /\ m.pos \in 0 .. Len(m.items) /\ m \in [items : Seq(S), pos : Nat]
  BY <1>3, <1>6, <1>7
<1>9. NoDup(m)
  <2> SUFFICES ASSUME NEW j \in 1 .. n - 1, NEW k \in 1 .. n - 1, r[j] = r[k] PROVE j = k
    BY <1>6, <1>8 DEF NoDup
  <2>1. \A c, d \in 1 .. n : l.items[c] = l.items[d] => c = d
    BY <1>3, ListFacts DEF NoDup
  <2>2. /\ j \in 1 .. n /\ j + 1 \in 1 .. n /\ k \in 1 .. n /\ k + 1 \in 1 .. n
    BY <1>3
  <2>3. /\ r[j] = IF j < i THEN l.items[j] ELSE l.items[j + 1]
        /\ r[k] = IF k < i THEN l.items[k] ELSE l.items[k + 1]
    BY <1>6
  <2>4. (IF j < i THEN j ELSE j + 1) = (IF k < i THEN k ELSE k + 1)
    BY <2>1, <2>2, <2>3
  <2> QED
    BY <1>3, <2>4
<1>10. Items(m) = Items(l) \ {x}
  <2>1. ASSUME NEW y \in Items(m) PROVE y \in Items(l) \ {x}
    <3>1. PICK j \in 1 .. n - 1 : y = r[j]
      BY <1>6, <1>8 DEF Items
    <3>2. PICK k \in 1 .. n : y = l.items[k] /\ k # i
      <4>1. CASE j < i
        <5>1. j \in 1 .. n /\ j # i
          BY <1>3, <4>1
        <5> QED
          BY <1>6, <3>1, <4>1, <5>1
      <4>2. CASE ~ (j < i)
        <5>1. j + 1 \in 1 .. n /\ j + 1 # i
          BY <1>3, <4>2
        <5> QED
          BY <1>6, <3>1, <4>2, <5>1
      <4> QED
        BY <4>1, <4>2
    <3>3. y # x
      BY <1>1, <1>3, <3>2, ListFacts DEF NoDup
    <3> QED
      BY <1>3, <3>2, <3>3 DEF Items
  <2>2. ASSUME NEW y \in Items(l) \ {x} PROVE y \in Items(m)
    <3>1. PICK k \in 1 .. n : y = l.items[k] /\ k # i
      BY <1>1, <1>3 DEF Items
    <3>2. \E j \in 1 .. n - 1 : y = r[j]
      <4>1. CASE k < i
        BY <1>3, <1>6, <3>1, <4>1
      <4>2. CASE k > i
        <5>1. k - 1 \in 1 .. n - 1 /\ ~ (k - 1 < i) /\ (k - 1) + 1 = k
          BY <1>3, <4>2
        <5> QED
          BY <1>6, <3>1, <5>1
      <4> QED
        BY <1>3, <3>1, <4>1, <4>2
    <3> QED
      BY <1>6, <1>8, <3>2 DEF Items
  <2> QED
    BY <2>1, <2>2
<1> QED
  BY <1>8, <1>9, <1>10 DEF Unique, Lists, m
-----------------------------------------------------------------------------
\* The registrations as TokenTable sees them, between two of them.  Only what
\* is proved there about the operators of TopicId is used here.
Table == INSTANCE TokenTable_proofs WITH
           topics <- [n \in DOMAIN heap |-> heap[n].id], name <- <<>>, level <- 0

\* A text, and a name, whose numbers cannot change any more.
Fixed(p, text) == p # <<>> /\ (text \in Wild \/ Hits(p, text) # {})
Settled(p, n) == \A l \in DOMAIN n : Fixed(p, n[l])

LEMMA SameNames == Table!Wild = Wild /\ Table!Name = Name
  BY DEF Table!Wild, Wild, Table!Name, Name

LEMMA SameTables ==
  ASSUME NEW p, NEW x
  PROVE  /\ Table!AddToken(p, x) = AddToken(p, x)
         /\ Table!Fixed(p, x) = Fixed(p, x)
         /\ Table!Token(p, x) = Token(p, x)
<1>1. Table!Hits(p, x) = Hits(p, x)
  BY DEF Table!Hits, Hits, Table!Begins, Begins
<1>2. Table!First(p, x) = First(p, x)
  BY <1>1 DEF Table!First, First, Table!IsFirst, IsFirst
<1> QED
  BY <1>1, <1>2, SameNames
  DEF Table!AddToken, AddToken, Table!Fixed, Fixed, Table!Token, Token,
      Table!WildcardNotUsed, WildcardNotUsed, Table!WildcardCOUNT, WildcardCOUNT

LEMMA SameIds ==
  ASSUME NEW p, NEW n
  PROVE  /\ Table!CreateTopicId(p, n) = CreateTopicId(p, n)
         /\ Table!Supported(n) = Supported(n) /\ Table!Plain(n) = Plain(n)
  BY DEF Table!CreateTopicId, CreateTopicId, Table!Level, Level, Table!Token, Token,
         Table!AddrToken, AddrToken, Table!First, First, Table!Hits, Hits,
         Table!IsFirst, IsFirst, Table!Begins, Begins, Table!Cut, Cut, Table!Wild, Wild,
         Table!WildcardNotUsed, WildcardNotUsed, Table!WildcardAny, WildcardAny,
         Table!WildcardAll, WildcardAll, Table!WildcardCOUNT, WildcardCOUNT,
         Table!Supported, Supported, Table!Plain, Plain

LEMMA SameMatches ==
  ASSUME NEW f, NEW n
  PROVE  /\ Table!Matches(f, n) = Matches(f, n)
         /\ Table!MatchIds(f, n) = MatchIds(f, n)
  BY DEF Table!Matches, Matches, Table!MatchIds, MatchIds,
         Table!WildcardNotUsed, WildcardNotUsed, Table!WildcardAny, WildcardAny,
         Table!WildcardAll, WildcardAll

LEMMA AddTokenFacts ==
  ASSUME NEW p \in Seq(Text), NEW text \in Text
  PROVE  AddToken(p, text) \in Seq(Text) /\ Fixed(AddToken(p, text), text)
<1>1. Table!AddToken(p, text) \in Seq(Text) /\ Table!Fixed(Table!AddToken(p, text), text)
  BY Table!AddTokenFacts, SameNames, TopicIdAssumption, NamesAssumption
<1> QED
  BY <1>1, SameTables

LEMMA FixedStays ==
  ASSUME NEW p \in Seq(Text), NEW text \in Text, NEW x \in Text, Fixed(p, x)
  PROVE  Fixed(AddToken(p, text), x) /\ Token(AddToken(p, text), x) = Token(p, x)
<1>1. Table!Fixed(Table!AddToken(p, text), x)
      /\ Table!Token(Table!AddToken(p, text), x) = Table!Token(p, x)
  BY Table!TokenStable, SameTables, SameNames, TopicIdAssumption, NamesAssumption
<1> QED
  BY <1>1, SameTables

LEMMA IdStays ==
  ASSUME NEW p \in Seq(Text), NEW text \in Text, NEW n \in Names, Settled(p, n)
  PROVE  /\ CreateTopicId(AddToken(p, text), n) = CreateTopicId(p, n)
         /\ Settled(AddToken(p, text), n)
<1>1. \A l \in DOMAIN n : Table!Fixed(p, n[l])
  BY SameTables DEF Settled
<1>2. /\ Table!CreateTopicId(Table!AddToken(p, text), n) = Table!CreateTopicId(p, n)
      /\ \A l \in DOMAIN n : Table!Fixed(Table!AddToken(p, text), n[l])
  BY <1>1, Table!IdPreserved, SameNames, TopicIdAssumption, NamesAssumption
<1> QED
  BY <1>2, SameTables, SameIds DEF Settled

LEMMA IdType ==
  ASSUME NEW p \in Seq(Text), NEW n PROVE CreateTopicId(p, n) \in Id
<1>1. Table!CreateTopicId(p, n) \in [1 .. MaxLevel -> Nat]
  BY Table!IdType, SameNames, TopicIdAssumption, NamesAssumption
<1> QED
  BY <1>1, SameIds DEF Id

LEMMA Complete ==
  ASSUME NEW p \in Seq(Text), NEW f \in Names, NEW n \in Names,
         Supported(f), Plain(n), Matches(f, n)
  PROVE  MatchIds(CreateTopicId(p, f), CreateTopicId(p, n))
<1>1. Table!Supported(f) /\ Table!Plain(n) /\ Table!Matches(f, n)
  BY SameIds, SameMatches
<1>2. Table!MatchIds(Table!CreateTopicId(p, f), Table!CreateTopicId(p, n))
  BY <1>1, Table!Complete, SameNames, TopicIdAssumption, NamesAssumption
<1> QED
  BY <1>2, SameIds, SameMatches

\* While the provider grows, a level of a name keeps its number unless it had
\* none.
LEMMA LevelGrows ==
  ASSUME NEW p \in Seq(Text), NEW text \in Text, NEW n \in Names, NEW l \in 1 .. MaxLevel
  PROVE  \/ Level(AddToken(p, text), n, l) = Level(p, n, l)
         \/ Level(p, n, l) = WildcardNotUsed
<1> DEFINE q == AddToken(p, text)
<1>1. CASE l > Len(n) \/ (l >= 2 /\ Cut(n))
  BY <1>1 DEF Level
<1>2. CASE ~(l > Len(n) \/ (l >= 2 /\ Cut(n)))
  <2>1. n \in Seq(Text) /\ Len(n) \in Nat
    BY NamesAssumption DEF Name
  <2>2. n[l] \in Text
    BY <1>2, <2>1, TopicIdAssumption
  <2>3. Token(q, n[l]) = Token(p, n[l]) \/ (Token(p, n[l]) = WildcardNotUsed)
    <3>1. CASE Fixed(p, n[l])
      BY <2>2, <3>1, FixedStays
    <3>2. CASE ~Fixed(p, n[l])
      <4>1. Hits(p, n[l]) = {}
        BY <3>2 DEF Fixed, Hits
      <4> QED
        BY <4>1 DEF Token
    <3> QED
      BY <3>1, <3>2
  <2> HIDE DEF q
  <2>4. Level(p, n, l) = (IF l = 2 THEN AddrToken(p, n[l]) ELSE Token(p, n[l]))
        /\ Level(q, n, l) = (IF l = 2 THEN AddrToken(q, n[l]) ELSE Token(q, n[l]))
    BY <1>2 DEF Level
  <2>5. CASE n[l] \in Wild
    <3>1. AddrToken(p, n[l]) = AddrToken(q, n[l])
      <4>1. CASE n[l] = Plus
        BY <4>1, TopicIdAssumption DEF AddrToken, Wild
      <4>2. CASE n[l] = Hash
        BY <4>2, TopicIdAssumption DEF AddrToken, Wild
      <4> QED
        BY <2>5, <4>1, <4>2 DEF Wild
    <3> QED
      BY <2>3, <2>4, <3>1 DEF q
  <2>6. CASE n[l] \notin Wild
    <3>1. AddrToken(p, n[l]) = Token(p, n[l]) /\ AddrToken(q, n[l]) = Token(q, n[l])
      BY <2>6 DEF AddrToken, Wild
    <3> QED
      BY <2>3, <2>4, <3>1 DEF q
  <2> QED
    BY <2>5, <2>6
<1> QED
  BY <1>1, <1>2

\* A level that the publisher does not know cannot prevent a match.
LEMMA Weaker ==
  ASSUME NEW found, NEW search, NEW known,
         MatchIds(found, search),
         \A l \in 1 .. MaxLevel : known[l] \in {WildcardNotUsed, search[l]}
  PROVE  MatchIds(found, known)
<1> SUFFICES ASSUME NEW l \in 1 .. MaxLevel, found[l] \notin {WildcardAny, known[l]}
             PROVE  \E k \in 1 .. l : known[k] = WildcardNotUsed \/ found[k] = WildcardAll
  BY DEF MatchIds
<1>0. MaxLevel \in Nat /\ l \in 1 .. l /\ \A k \in 1 .. l : k \in 1 .. MaxLevel
  BY TopicIdAssumption
<1>1. CASE known[l] = WildcardNotUsed
  BY <1>0, <1>1
<1>2. CASE known[l] = search[l]
  <2>1. PICK k \in 1 .. l : search[k] = WildcardNotUsed \/ found[k] = WildcardAll
    BY <1>2 DEF MatchIds
  <2>2. known[k] \in {WildcardNotUsed, search[k]}
    BY <1>0
  <2> QED
    BY <2>1, <2>2
<1> QED
  BY <1>1, <1>2
-----------------------------------------------------------------------------
(* The inductive invariant of the topics and of the calls.                 *)

\* Where a publication is while it calls subscribers, and the calls of the other
\* requests.
Calling == {"deliver", "callback", "called"}
Requests == {"subscribe", "tokens", "unsubscribe"}

\* A level of topic_id is the number of its text, or 0 if the provider did not
\* know the text when the level was computed.
Computed(f, p) ==
  \A l \in 1 .. IF f.pc = "identify" THEN f.level - 1 ELSE MaxLevel :
    f.id[l] \in {WildcardNotUsed, Level(p, f.name, l)}

\* The frames that a call can have while these are the topics and the texts.
Ready(names, p) ==
  {f \in Frame :
     /\ f.pc = "identify" => f.level \in 1 .. MaxLevel
     /\ f.pc \in Requests => f.sub \in Subs
     /\ f.pc = "subscribe" => f.level = 1
     /\ f.pc = "tokens" => /\ f.level \in 1 .. Len(f.name) + 1
                           /\ f.name \notin names
                           /\ \A l \in 1 .. f.level - 1 : Fixed(p, f.name[l])
     /\ f.pc = "scan" => f.topic \in names \cup {None}
     /\ f.pc \in Calling => f.topic \in names /\ f.sub \in Subs
     /\ f.pc \notin Requests => Computed(f, p)}

\* The topics and their lists; an identifier is the one that its name would be
\* given now.
DataInv ==
  /\ provider \in Seq(Text)
  /\ topics \in Unique(Names)
  /\ DOMAIN heap = Items(topics)
  /\ heap \in [DOMAIN heap -> [id : Id, subs : Unique(Subs)]]
  /\ \A n \in DOMAIN heap : heap[n].id = CreateTopicId(provider, n) /\ Settled(provider, n)

\* A request of a thread is its only call, unless a callback has subscribed; no
\* callback unsubscribes.
Alone(s, nested) ==
  s # <<>> /\ s[Len(s)].pc \in Requests =>
    Len(s) = 1 \/ (nested /\ s[Len(s)].pc # "unsubscribe")

CallsInv ==
  /\ calls = [t \in Threads |-> calls[t]]
  /\ astray \subseteq Threads
  /\ \A t \in Threads :
       calls[t] \in Seq(Ready(DOMAIN heap, provider)) /\ Alone(calls[t], t \in astray)

BrokerInv == LockInv /\ DataInv /\ CallsInv
-----------------------------------------------------------------------------
LEMMA CurrentFacts ==
  ASSUME NEW S, NEW l \in Unique(S)
  PROVE  /\ l.pos = 0 => Current(l) = None
         /\ l.pos # 0 => Current(l) = l.items[l.pos] /\ Current(l) \in Items(l)
  BY ListFacts DEF Current

\* Stacks of frames of a set.
LEMMA StackOf ==
  ASSUME NEW S, NEW s \in Seq(S), NEW f \in S, NEW c \in S
  PROVE  /\ /\ Append(<<>>, f) \in Seq(S)
            /\ Len(Append(<<>>, f)) = 1 /\ Append(<<>>, f)[1] = f
         /\ s # <<>> =>
              /\ Len(s) \in Nat /\ Len(s) > 0 /\ s[Len(s)] \in S
              /\ Front(s) \in Seq(S) /\ Len(Front(s)) = Len(s) - 1
              /\ \A i \in 1 .. Len(s) - 1 : Front(s)[i] = s[i]
              /\ Append(Front(s), f) \in Seq(S) /\ Len(Append(Front(s), f)) = Len(s)
              /\ Append(Front(s), f)[Len(s)] = f
              /\ \A i \in 1 .. Len(s) - 1 : Append(Front(s), f)[i] = s[i]
              /\ Append(Append(Front(s), c), f) \in Seq(S)
              /\ Len(Append(Append(Front(s), c), f)) = Len(s) + 1
              /\ Append(Append(Front(s), c), f)[Len(s)] = c
              /\ Append(Append(Front(s), c), f)[Len(s) + 1] = f
              /\ \A i \in 1 .. Len(s) - 1 : Append(Append(Front(s), c), f)[i] = s[i]
<1>1. /\ Append(<<>>, f) \in Seq(S)
      /\ Len(Append(<<>>, f)) = 1 /\ Append(<<>>, f)[1] = f
  OBVIOUS
<1>2. ASSUME s # <<>>
      PROVE  /\ Len(s) \in Nat /\ Len(s) > 0 /\ s[Len(s)] \in S
             /\ Front(s) \in Seq(S) /\ Len(Front(s)) = Len(s) - 1
             /\ \A i \in 1 .. Len(s) - 1 : Front(s)[i] = s[i]
  <2>1. /\ Len(s) \in Nat /\ Len(s) > 0 /\ Len(Front(s)) = Len(s) - 1 /\ IsSeq(Front(s))
        /\ \A i \in 1 .. Len(s) - 1 : Front(s)[i] = s[i]
    <3>1. IsSeq(s)
      BY DEF IsSeq
    <3> QED
      BY <1>2, <3>1, FrontFacts
  <2>2. Front(s) \in Seq(S)
    <3>1. 1 \in Int /\ Len(s) - 1 \in Int /\ \A i \in 1 .. Len(s) - 1 : s[i] \in S
      BY <2>1
    <3> QED
      BY <3>1, SubSeqProperties DEF Front
  <2> QED
    BY <2>1, <2>2
<1>3. ASSUME s # <<>>
      PROVE  /\ Append(Front(s), f) \in Seq(S) /\ Len(Append(Front(s), f)) = Len(s)
             /\ Append(Front(s), f)[Len(s)] = f
             /\ \A i \in 1 .. Len(s) - 1 : Append(Front(s), f)[i] = s[i]
  BY <1>2, <1>3
<1>4. ASSUME s # <<>>
      PROVE  /\ Append(Append(Front(s), c), f) \in Seq(S)
             /\ Len(Append(Append(Front(s), c), f)) = Len(s) + 1
             /\ Append(Append(Front(s), c), f)[Len(s)] = c
             /\ Append(Append(Front(s), c), f)[Len(s) + 1] = f
             /\ \A i \in 1 .. Len(s) - 1 : Append(Append(Front(s), c), f)[i] = s[i]
  <2> DEFINE r == Append(Front(s), c)
  <2>1. r \in Seq(S) /\ Len(r) = Len(s) /\ r[Len(s)] = c
        /\ \A i \in 1 .. Len(s) - 1 : r[i] = s[i]
    BY <1>2, <1>4
  <2> HIDE DEF r
  <2>2. /\ Append(r, f) \in Seq(S) /\ Len(Append(r, f)) = Len(s) + 1
        /\ Append(r, f)[Len(s) + 1] = f
        /\ \A i \in 1 .. Len(s) : Append(r, f)[i] = r[i]
    BY <1>2, <1>4, <2>1
  <2> QED
    BY <1>2, <1>4, <2>1, <2>2 DEF r
<1> QED
  BY <1>1, <1>2, <1>3, <1>4

\* The thread inside the mutex owns it; the others are idle or outside, in a
\* call of their own.
LEMMA Owner ==
  ASSUME LockInv, NEW t \in Threads, NEW pc \in Locked, At(t, pc)
  PROVE  lock.owner = t /\ lock.depth # 0 /\ lock.depth = Len(calls[t])
<1>1. /\ Held(calls[t]) = Len(calls[t]) /\ Len(calls[t]) > 0 /\ Len(calls[t]) \in Nat
  BY InCall
<1> QED
  BY <1>1 DEF LockInv

LEMMA Outside ==
  ASSUME LockInv, NEW u \in Threads, lock.owner # u
  PROVE  calls[u] = <<>> \/ (Len(calls[u]) = 1 /\ calls[u][1].pc \notin Locked)
<1>1. Held(calls[u]) = 0 /\ Stack(calls[u])
  BY DEF LockInv
<1>2. CASE calls[u] # <<>>
  <2>1. Len(calls[u]) \in Nat /\ Len(calls[u]) > 0
    BY <1>1, <1>2, FrontFacts DEF Stack
  <2>2. Len(calls[u]) - 1 = 0 /\ calls[u][Len(calls[u])].pc \notin Locked
    BY <1>1, <1>2, <2>1 DEF Held
  <2> QED
    BY <2>1, <2>2
<1> QED
  BY <1>2

\* Who unsubscribes and gets the lock is outside all publications.
LEMMA NobodyInside ==
  ASSUME LockInv, CallsInv, NEW t \in Threads, At(t, "unsubscribe"), Free(t)
  PROVE  /\ \A u \in Threads :
              calls[u] = <<>> \/ (Len(calls[u]) = 1 /\ calls[u][1].pc \notin Locked)
         /\ lock.depth = 0 /\ lock.owner = None
<1>1. Held(calls[t]) = Len(calls[t]) - 1 /\ Len(calls[t]) \in Nat
  BY InCall DEF Locked
<1>2. Len(calls[t]) = 1
  BY DEF CallsInv, Alone, At, Idle, Top, Requests
<1>3. lock.owner = None /\ lock.depth = 0
  BY <1>1, <1>2 DEF LockInv, Free
<1>4. \A u \in Threads : lock.owner # u
  BY <1>3, NoneAssumption
<1> QED
  BY <1>3, <1>4, Outside

\* Frames outside the mutex do not depend on the topics.
LEMMA ReadyOutside ==
  ASSUME NEW names, NEW more, NEW p, NEW s \in Seq(Ready(names, p)),
         s = <<>> \/ (Len(s) = 1 /\ s[1].pc \notin Locked)
  PROVE  s \in Seq(Ready(more, p))
<1>1. CASE s = <<>>
  BY <1>1
<1>2. CASE s # <<>>
  <2> DEFINE S == Ready(names, p)
             T == Ready(more, p)
  <2>1. s[1] \in S /\ s[1].pc \notin Locked /\ Len(s) = 1
    BY <1>2
  <2>2. s[1] \in T
    BY <2>1 DEF Ready, Locked, Calling
  <2> HIDE DEF S, T
  <2>3. s = <<s[1]>>
    BY <2>1
  <2>4. <<s[1]>> \in Seq(T)
    BY <2>2
  <2> QED
    BY <2>3, <2>4 DEF T
<1> QED
  BY <1>1, <1>2

\* Those of a publication that waits for a callback are not hurt by one more.
LEMMA ReadyBelow ==
  ASSUME NEW names, NEW more, names \subseteq more, NEW p, NEW s \in Seq(Ready(names, p)),
         \A i \in 1 .. Len(s) : s[i].pc = "called"
  PROVE  s \in Seq(Ready(more, p))
<1> DEFINE S == Ready(names, p)
           T == Ready(more, p)
<1>1. ASSUME NEW i \in 1 .. Len(s) PROVE s[i] \in T
  <2>1. s[i] \in S /\ s[i].pc = "called"
    OBVIOUS
  <2> QED
    BY <2>1 DEF Ready, Calling
<1> HIDE DEF S, T
<1>2. Len(s) \in Nat /\ s = [i \in 1 .. Len(s) |-> s[i]]
  BY LenProperties DEF S
<1>3. s \in [1 .. Len(s) -> T]
  BY <1>1, <1>2
<1>4. s \in Seq(T)
  BY <1>2, <1>3, SeqDef
<1> QED
  BY <1>4 DEF T

\* No frame is hurt by one more text.
LEMMA ReadyGrows ==
  ASSUME NEW names, NEW p \in Seq(Text), NEW text \in Text
  PROVE  Ready(names, p) \subseteq Ready(names, AddToken(p, text))
<1> DEFINE q == AddToken(p, text)
<1> SUFFICES ASSUME NEW f \in Ready(names, p) PROVE f \in Ready(names, q)
  OBVIOUS
<1>1. f \in Frame /\ f.name \in Names /\ f.level \in Nat
  BY DEF Ready, Frame
<1>2. f.pc \notin Requests => Computed(f, q)
  <2> SUFFICES ASSUME f.pc \notin Requests,
                      NEW l \in 1 .. IF f.pc = "identify" THEN f.level - 1 ELSE MaxLevel
               PROVE  f.id[l] \in {WildcardNotUsed, Level(q, f.name, l)}
    BY DEF Computed
  <2>1. f.id[l] \in {WildcardNotUsed, Level(p, f.name, l)}
    BY DEF Ready, Computed
  <2>2. l \in 1 .. MaxLevel
    BY <1>1, TopicIdAssumption DEF Ready
  <2> QED
    BY <1>1, <2>1, <2>2, LevelGrows
<1>3. ASSUME f.pc = "tokens", NEW l \in 1 .. f.level - 1 PROVE Fixed(q, f.name[l])
  <2>1. Fixed(p, f.name[l]) /\ f.level \in 1 .. Len(f.name) + 1
    BY <1>3 DEF Ready
  <2>2. f.name[l] \in Text
    <3>1. f.name \in Seq(Text) /\ Len(f.name) \in Nat
      BY <1>1, NamesAssumption DEF Name
    <3> QED
      BY <1>1, <2>1, <3>1
  <2> QED
    BY <2>1, <2>2, FixedStays
<1> HIDE DEF q
<1> QED
  BY <1>2, <1>3 DEF Ready

\* The cursor of the topics moves, or that of the subscribers of one.
LEMMA DataKeeps ==
  ASSUME DataInv, provider' = provider, heap' = heap,
         topics' \in Unique(Names), Items(topics') = Items(topics)
  PROVE  DataInv'
  BY DEF DataInv

LEMMA SubsKeep ==
  ASSUME DataInv, provider' = provider,
         topics' \in Unique(Names), Items(topics') = Items(topics),
         NEW n \in DOMAIN heap, NEW l \in Unique(Subs), heap' = [heap EXCEPT ![n].subs = l]
  PROVE  /\ DataInv' /\ DOMAIN heap' = DOMAIN heap
         /\ heap'[n].subs = l /\ heap'[n].id = heap[n].id
         /\ \A m \in DOMAIN heap : m # n => heap'[m] = heap[m]
<1>1. /\ heap \in [DOMAIN heap -> [id : Id, subs : Unique(Subs)]]
      /\ heap[n] \in [id : Id, subs : Unique(Subs)]
  BY DEF DataInv
<1>2. /\ DOMAIN heap' = DOMAIN heap /\ heap'[n] = [heap[n] EXCEPT !.subs = l]
      /\ \A m \in DOMAIN heap : m # n => heap'[m] = heap[m]
  BY <1>1
<1>3. heap'[n].subs = l /\ heap'[n].id = heap[n].id /\ heap'[n] \in [id : Id, subs : Unique(Subs)]
  BY <1>1, <1>2
<1>4. heap' \in [DOMAIN heap' -> [id : Id, subs : Unique(Subs)]]
  <2>1. heap' = [m \in DOMAIN heap' |-> heap'[m]]
    BY <1>1
  <2>2. \A m \in DOMAIN heap' : heap'[m] \in [id : Id, subs : Unique(Subs)]
    BY <1>1, <1>2, <1>3
  <2> QED
    BY <2>1, <2>2
<1> QED
  BY <1>2, <1>3, <1>4 DEF DataInv
-----------------------------------------------------------------------------
(* What the steps of a call do to it.                                      *)

\* The step of t leaves the history of the others alone.
OfItsOwn(t) == astray' \in {astray, astray \cup {t}, astray \ {t}}

LEMMA CallsKeep ==
  ASSUME LockInv, CallsInv, NEW t \in Threads, NEW s, calls' = [calls EXCEPT ![t] = s],
         s \in Seq(Ready(DOMAIN heap', provider')), OfItsOwn(t), Alone(s, t \in astray'),
         \A u \in Threads : u # t => calls[u] \in Seq(Ready(DOMAIN heap', provider'))
  PROVE  CallsInv'
<1>1. calls'[t] = s /\ \A u \in Threads : u # t => calls'[u] = calls[u]
  BY DEF LockInv
<1>0. calls' = [u \in Threads |-> calls'[u]]
  BY DEF LockInv
<1>4. /\ astray' \subseteq Threads
      /\ \A u \in Threads : u # t => (u \in astray' <=> u \in astray)
  BY DEF OfItsOwn, CallsInv
<1> SUFFICES ASSUME NEW u \in Threads
             PROVE  /\ calls'[u] \in Seq(Ready(DOMAIN heap', provider'))
                    /\ Alone(calls'[u], u \in astray')
  BY <1>0, <1>4 DEF CallsInv
<1>2. CASE u = t
  BY <1>1, <1>2
<1>3. CASE u # t
  <2>1. Alone(calls[u], u \in astray)
    BY DEF CallsInv
  <2>2. Alone(calls'[u], u \in astray')
    BY <1>1, <1>3, <1>4, <2>1 DEF Alone
  <2> QED
    BY <1>1, <1>3, <2>2
<1> QED
  BY <1>2, <1>3

LEMMA EnterReady ==
  ASSUME LockInv, CallsInv, heap' = heap, provider' = provider, astray' = astray,
         NEW t \in Threads, Idle(t), NEW f \in Ready(DOMAIN heap, provider), Enter(t, f)
  PROVE  CallsInv'
<1> DEFINE s == Append(<<>>, f)
<1>1. calls' = [calls EXCEPT ![t] = s]
  BY DEF Enter, Idle
<1>2. s \in Seq(Ready(DOMAIN heap, provider)) /\ Len(s) = 1
  BY StackOf, EmptySeq
<1> HIDE DEF s
<1>3. \A u \in Threads : calls[u] \in Seq(Ready(DOMAIN heap, provider))
  BY DEF CallsInv
<1>4. Alone(s, t \in astray') /\ OfItsOwn(t)
  BY <1>2 DEF Alone, OfItsOwn
<1> QED
  BY <1>1, <1>2, <1>3, <1>4, CallsKeep

LEMMA StepReady ==
  ASSUME LockInv, CallsInv, DOMAIN heap' = DOMAIN heap, provider' = provider, astray' = astray,
         NEW t \in Threads, ~Idle(t), NEW f \in Ready(DOMAIN heap, provider), Step(t, f),
         f.pc \in Requests => Alone(calls[t], t \in astray) /\ Top(t).pc \in Requests
                                /\ f.pc # "unsubscribe"
  PROVE  CallsInv'
<1> DEFINE s == Append(Front(calls[t]), f)
<1>1. calls' = [calls EXCEPT ![t] = s]
  BY DEF Step
<1>2. \A u \in Threads : calls[u] \in Seq(Ready(DOMAIN heap, provider))
  BY DEF CallsInv
<1>3. s \in Seq(Ready(DOMAIN heap, provider)) /\ Len(s) = Len(calls[t]) /\ s[Len(s)] = f
  BY <1>2, StackOf DEF Idle
<1> HIDE DEF s
<1>4. Alone(s, t \in astray') /\ OfItsOwn(t)
  BY <1>3 DEF Alone, OfItsOwn, Idle, Top
<1> QED
  BY <1>1, <1>2, <1>3, <1>4, CallsKeep

\* The caller that is returned to is in a callback that had called the broker.
LEMMA CallersBelow ==
  ASSUME LockInv, NEW S, NEW t \in Threads, ~Idle(t), calls[t] \in Seq(S)
  PROVE  /\ Front(calls[t]) \in Seq(S)
         /\ \A i \in 1 .. Len(Front(calls[t])) : Front(calls[t])[i].pc = "called"
<1> DEFINE s == Front(calls[t])
<1>1. calls[t] # <<>>
  BY DEF Idle
<1>2. calls[t][Len(calls[t])] \in S
  BY <1>1
<1>3. /\ Len(calls[t]) \in Nat /\ s \in Seq(S) /\ Len(s) = Len(calls[t]) - 1
      /\ \A i \in 1 .. Len(calls[t]) - 1 : s[i] = calls[t][i]
  BY <1>1, <1>2, StackOf
<1> HIDE DEF s
<1>4. \A i \in 1 .. Len(s) : s[i].pc = "called"
  BY <1>3 DEF LockInv, Stack
<1> QED
  BY <1>3, <1>4 DEF s

LEMMA LeaveReady ==
  ASSUME LockInv, CallsInv, NEW t \in Threads, ~Idle(t), Leave(t), OfItsOwn(t),
         Front(calls[t]) \in Seq(Ready(DOMAIN heap', provider')),
         \A u \in Threads : u # t => calls[u] \in Seq(Ready(DOMAIN heap', provider'))
  PROVE  CallsInv'
<1> DEFINE s == Front(calls[t])
<1>1. calls' = [calls EXCEPT ![t] = s]
  BY DEF Leave
<1>2. \A i \in 1 .. Len(s) : s[i].pc = "called"
  BY CallersBelow DEF CallsInv
<1> HIDE DEF s
<1>3. s # <<>> => s[Len(s)].pc = "called"
  <2> SUFFICES ASSUME s # <<>> PROVE s[Len(s)].pc = "called"
    OBVIOUS
  <2>1. s \in Seq(Ready(DOMAIN heap', provider'))
    BY DEF s
  <2>2. Len(s) \in 1 .. Len(s)
    BY <2>1, EmptySeq
  <2> QED
    BY <1>2, <2>2
<1>4. Alone(s, t \in astray')
  BY <1>3 DEF Alone, Requests
<1> QED
  BY <1>1, <1>4, CallsKeep DEF s

LEMMA TopReady ==
  ASSUME LockInv, CallsInv, NEW t \in Threads, NEW pc, At(t, pc)
  PROVE  /\ ~Idle(t) /\ Top(t) \in Ready(DOMAIN heap, provider) /\ Top(t) \in Frame
         /\ Top(t).pc = pc
         /\ Alone(calls[t], t \in astray)
         /\ pc \in Requests => Len(calls[t]) = 1 \/ (t \in astray /\ pc # "unsubscribe")
<1>1. ~Idle(t) /\ Top(t).pc = pc /\ calls[t] # <<>> /\ calls[t] \in Seq(Ready(DOMAIN heap, provider))
      /\ Alone(calls[t], t \in astray)
  BY DEF At, CallsInv, Idle
<1>2. Top(t) \in Ready(DOMAIN heap, provider)
  BY <1>1 DEF Top
<1>3. pc \in Requests => Len(calls[t]) = 1 \/ (t \in astray /\ pc # "unsubscribe")
  BY <1>1 DEF Alone, Top
<1> QED
  BY <1>1, <1>2, <1>3 DEF Ready

LEMMA NewCallReady ==
  ASSUME NEW names, NEW p, NEW n \in Names, NEW x,
         NEW pc, (pc = "identify" /\ x = None) \/ (pc \in {"subscribe", "unsubscribe"} /\ x \in Subs)
  PROVE  NewCall(pc, n, x) \in Ready(names, p) /\ NewCall(pc, n, x).pc = pc
<1> DEFINE f == NewCall(pc, n, x)
<1>1. /\ f.pc = pc /\ f.name = n /\ f.sub = x /\ f.level = 1 /\ f.id = NoId
      /\ f.topic = None /\ f.got = {} /\ f \in Frame
  BY DEF NewCall, Frame, NoId, Id, WildcardNotUsed
<1> HIDE DEF f
<1>2. 1 \in 1 .. MaxLevel
  BY TopicIdAssumption
<1>3. pc = "identify" => Computed(f, p)
  BY <1>1 DEF Computed
<1> QED
  BY <1>1, <1>2, <1>3 DEF Ready, Requests, Calling, f

\* A publication computes one level of its identifier ...
LEMMA IdentifyReady ==
  ASSUME DataInv, NEW f \in Ready(DOMAIN heap, provider), f.pc = "identify",
         NEW g, g = [f EXCEPT !.id[f.level] = Level(provider, f.name, f.level)]
  PROVE  /\ f.level = MaxLevel =>
              [g EXCEPT !.pc = "lock", !.level = 1] \in Ready(DOMAIN heap, provider)
         /\ f.level # MaxLevel =>
              [g EXCEPT !.level = @ + 1] \in Ready(DOMAIN heap, provider)
<1> DEFINE last == [g EXCEPT !.pc = "lock", !.level = 1]
           next == [g EXCEPT !.level = @ + 1]
           id == [f.id EXCEPT ![f.level] = Level(provider, f.name, f.level)]
<1>1. /\ f \in Frame /\ f.level \in 1 .. MaxLevel /\ f.id \in Id /\ f.name \in Names
      /\ \A l \in 1 .. f.level - 1 : f.id[l] \in {WildcardNotUsed, Level(provider, f.name, l)}
      /\ MaxLevel \in Nat
  BY TopicIdAssumption DEF Ready, Frame, Computed, Requests
<1>2. Level(provider, f.name, f.level) \in Nat
  <2>1. CreateTopicId(provider, f.name) \in Id
    BY IdType DEF DataInv
  <2> QED
    BY <1>1, <2>1 DEF CreateTopicId, Id
<1>3. id \in Id
  BY <1>1, <1>2 DEF Id
<1>4. \A l \in 1 .. f.level : id[l] \in {WildcardNotUsed, Level(provider, f.name, l)}
  <2> SUFFICES ASSUME NEW l \in 1 .. f.level
               PROVE  id[l] \in {WildcardNotUsed, Level(provider, f.name, l)}
    OBVIOUS
  <2>1. l \in 1 .. MaxLevel /\ (l = f.level \/ l \in 1 .. f.level - 1)
    BY <1>1
  <2> QED
    BY <1>1, <2>1 DEF Id
<1>5. g = [f EXCEPT !.id = id]
  BY <1>1 DEF Frame
<1> HIDE DEF id
<1>6. /\ g \in Frame /\ g.id = id /\ g.name = f.name /\ g.level = f.level /\ g.pc = "identify"
  BY <1>1, <1>3, <1>5 DEF Frame
<1>7. /\ last \in Frame /\ last.pc = "lock" /\ last.id = id /\ last.name = f.name
      /\ next \in Frame /\ next.pc = "identify" /\ next.id = id /\ next.name = f.name
      /\ next.level = f.level + 1
  <2>1. last \in Frame /\ last.pc = "lock" /\ last.id = id /\ last.name = f.name
    BY <1>6 DEF Frame
  <2>2. g.level + 1 \in Nat
    BY <1>1, <1>6
  <2>3. next \in Frame
    BY <1>6, <2>2 DEF Frame
  <2>4. next.pc = "identify" /\ next.id = id /\ next.name = f.name /\ next.level = f.level + 1
    BY <1>6 DEF Frame
  <2> QED
    BY <2>1, <2>3, <2>4
<1> HIDE DEF last, next
<1>8. ASSUME f.level = MaxLevel PROVE last \in Ready(DOMAIN heap, provider)
  BY <1>4, <1>7, <1>8 DEF Ready, Computed, Requests, Calling
<1>9. ASSUME f.level # MaxLevel PROVE next \in Ready(DOMAIN heap, provider)
  <2>1. f.level + 1 \in 1 .. MaxLevel /\ next.level - 1 = f.level
    BY <1>1, <1>7, <1>9
  <2> QED
    BY <1>4, <1>7, <2>1 DEF Ready, Computed, Requests, Calling
<1> QED
  BY <1>8, <1>9 DEF last, next

\* ... and from then on it keeps it, whatever topic and subscriber it comes to.
LEMMA MovesOn ==
  ASSUME NEW names, NEW p, NEW f \in Ready(names, p), f.pc \notin Requests \cup {"identify"},
         NEW g \in Frame, g.id = f.id, g.name = f.name, g.pc \notin Requests \cup {"identify"},
         g.pc = "scan" => g.topic \in names \cup {None},
         g.pc \in Calling => g.topic \in names /\ g.sub \in Subs
  PROVE  g \in Ready(names, p)
<1>1. Computed(g, p)
  BY DEF Ready, Computed
<1> QED
  BY <1>1 DEF Ready, Requests

\* A request returns to its thread.
LEMMA LeaveLast ==
  ASSUME LockInv, CallsInv, NEW t \in Threads, Len(calls[t]) = 1, ~Idle(t), Leave(t), OfItsOwn(t),
         \A u \in Threads : u # t => calls[u] \in Seq(Ready(DOMAIN heap', provider'))
  PROVE  CallsInv'
<1>1. Front(calls[t]) = <<>>
  BY DEF Front
<1> QED
  BY <1>1, LeaveReady, EmptySeq

LEMMA NextBrokerInv == BrokerInv /\ [Next]_vars => BrokerInv'
<1> SUFFICES ASSUME LockInv, DataInv, CallsInv, [Next]_vars PROVE DataInv' /\ CallsInv'
  BY NextLockInv DEF BrokerInv
<1> DEFINE names == DOMAIN heap
<1>0. /\ topics \in Unique(Names) /\ names = Items(topics) /\ provider \in Seq(Text)
      /\ heap \in [names -> [id : Id, subs : Unique(Subs)]]
      /\ \A t \in Threads : calls[t] \in Seq(Ready(names, provider))
  BY DEF DataInv, CallsInv
<1>1. ASSUME NEW t \in Threads, NEW n \in Names, Publish(t, n) PROVE DataInv' /\ CallsInv'
  <2>1. /\ Idle(t) /\ Enter(t, NewCall("identify", n, None))
        /\ provider' = provider /\ topics' = topics /\ heap' = heap /\ astray' = astray
    BY <1>1 DEF Publish
  <2>2. NewCall("identify", n, None) \in Ready(names, provider)
    BY NewCallReady
  <2> QED
    BY <1>0, <2>1, <2>2, EnterReady, DataKeeps
<1>2. ASSUME NEW t \in Threads, NEW n \in Names, PublishNested(t, n) \/ SubscribeNested(t, n)
      PROVE  DataInv' /\ CallsInv'
  <2>1. At(t, "callback") /\ provider' = provider /\ topics' = topics /\ heap' = heap
    BY <1>2 DEF PublishNested, SubscribeNested
  <2>2. ~Idle(t) /\ Top(t) \in Ready(names, provider) /\ Top(t) \in Frame /\ Top(t).pc = "callback"
    BY <2>1, TopReady
  <2>6. Top(t).topic \in names /\ Top(t).sub \in Subs
    BY <2>2 DEF Ready, Calling
  <2>7. PICK pc, x :
          /\ Inside(t, NewCall(pc, n, x))
          /\ \/ pc = "identify" /\ x = None /\ astray' = astray
             \/ pc = "subscribe" /\ x \in Subs /\ astray' = astray \cup {t}
    BY <1>2, <2>6 DEF PublishNested, SubscribeNested
  <2> DEFINE c == [Top(t) EXCEPT !.pc = "called"]
             f == NewCall(pc, n, x)
             s == Append(Append(Front(calls[t]), c), f)
  <2>8. calls' = [calls EXCEPT ![t] = s]
    BY <2>7 DEF Inside
  <2>3. c \in Ready(names, provider)
    <3>1. c \in Frame /\ c.pc = "called" /\ c.id = Top(t).id /\ c.name = Top(t).name
          /\ c.topic = Top(t).topic /\ c.sub = Top(t).sub
      BY <2>2 DEF Frame
    <3> HIDE DEF c
    <3> QED
      BY <2>2, <2>6, <3>1, MovesOn DEF Requests
  <2>4. f \in Ready(names, provider) /\ f.pc = pc
    BY <2>7, NewCallReady
  <2> HIDE DEF c, f
  <2>5. s \in Seq(Ready(names, provider)) /\ Len(s) = Len(calls[t]) + 1 /\ s[Len(s)] = f
    BY <1>0, <2>2, <2>3, <2>4, StackOf DEF Idle
  <2> HIDE DEF s
  <2>9. Alone(s, t \in astray') /\ OfItsOwn(t)
    BY <2>4, <2>5, <2>7 DEF Alone, Requests, OfItsOwn
  <2> QED
    BY <1>0, <2>1, <2>5, <2>8, <2>9, CallsKeep, DataKeeps
<1>3. ASSUME NEW t \in Threads, Identify(t) PROVE DataInv' /\ CallsInv'
  <2> DEFINE f == Top(t)
             g == [f EXCEPT !.id[f.level] = Level(provider, f.name, f.level)]
  <2>1. /\ At(t, "identify") /\ provider' = provider /\ topics' = topics /\ heap' = heap
        /\ astray' = astray
        /\ f.level = MaxLevel => Step(t, [g EXCEPT !.pc = "lock", !.level = 1])
        /\ f.level # MaxLevel => Step(t, [g EXCEPT !.level = @ + 1])
    BY <1>3 DEF Identify
  <2>2. ~Idle(t) /\ f \in Ready(names, provider) /\ f.pc = "identify" /\ f \in Frame
    BY <2>1, TopReady
  <2> HIDE DEF f
  <2>3. PICK h : h \in Ready(names, provider) /\ Step(t, h) /\ h.pc \in {"identify", "lock"}
    <3>1. f.level = MaxLevel =>
            [g EXCEPT !.pc = "lock", !.level = 1] \in Ready(names, provider)
      BY <2>2, IdentifyReady
    <3>2. f.level # MaxLevel => [g EXCEPT !.level = @ + 1] \in Ready(names, provider)
      BY <2>2, IdentifyReady
    <3>3. "pc" \in DOMAIN g /\ g.pc = "identify"
      BY <2>2 DEF Frame
    <3> HIDE DEF g
    <3>4. [g EXCEPT !.pc = "lock", !.level = 1].pc = "lock" /\ [g EXCEPT !.level = @ + 1].pc = "identify"
      BY <3>3
    <3> QED
      BY <2>1, <3>1, <3>2, <3>4
  <2> QED
    BY <1>0, <2>1, <2>2, <2>3, StepReady, DataKeeps DEF Requests
<1>4. ASSUME NEW t \in Threads, Lock(t) PROVE DataInv' /\ CallsInv'
  <2> DEFINE f == Top(t)
             g == [f EXCEPT !.pc = "scan", !.topic = Current(topics')]
  <2>1. /\ At(t, "lock") /\ provider' = provider /\ heap' = heap /\ astray' = astray
        /\ topics' = FirstItem(topics) /\ Step(t, g)
    BY <1>4 DEF Lock
  <2>2. ~Idle(t) /\ f \in Ready(names, provider) /\ f.pc = "lock" /\ f \in Frame
    BY <2>1, TopReady
  <2>3. topics' \in Unique(Names) /\ Items(topics') = names
    BY <1>0, <2>1, FirstFacts
  <2>4. Current(topics') \in names \cup {None} /\ names \subseteq Names
    BY <1>0, <2>3, CurrentFacts, ListFacts
  <2> HIDE DEF f
  <2>5. g \in Frame /\ g.pc = "scan" /\ g.id = f.id /\ g.name = f.name /\ g.topic = Current(topics')
    BY <2>2, <2>4 DEF Frame
  <2> HIDE DEF g
  <2>6. g \in Ready(names, provider)
    BY <2>2, <2>4, <2>5, MovesOn DEF Requests, Calling
  <2> QED
    BY <1>0, <2>1, <2>2, <2>3, <2>5, <2>6, StepReady, DataKeeps DEF Requests
<1>5. ASSUME NEW t \in Threads, Scan(t) PROVE DataInv' /\ CallsInv'
  <2> DEFINE f == Top(t)
  <2>1. /\ At(t, "scan") /\ provider' = provider /\ f.topic # None /\ astray' = astray
    BY <1>5 DEF Scan
  <2>2. ~Idle(t) /\ f \in Ready(names, provider) /\ f.pc = "scan" /\ f \in Frame
    BY <2>1, TopReady
  <2>3. f.topic \in names /\ heap[f.topic].subs \in Unique(Subs)
    BY <1>0, <2>1, <2>2 DEF Ready
  <2>4. CASE /\ heap[f.topic].subs.items # <<>>
             /\ heap' = [heap EXCEPT ![f.topic].subs = FirstItem(@)]
             /\ Step(t, [f EXCEPT !.pc = "deliver", !.sub = Current(heap'[f.topic].subs)])
             /\ topics' = topics
    <3> DEFINE l == FirstItem(heap[f.topic].subs)
               g == [f EXCEPT !.pc = "deliver", !.sub = Current(heap'[f.topic].subs)]
    <3>1. l \in Unique(Subs) /\ l.pos = 1 /\ Items(l) \subseteq Subs
      BY <2>3, <2>4, FirstFacts, ListFacts
    <3>2. heap' = [heap EXCEPT ![f.topic].subs = l]
      BY <2>4
    <3>3. DataInv' /\ DOMAIN heap' = names /\ heap'[f.topic].subs = l
      BY <1>0, <2>1, <2>3, <2>4, <3>1, <3>2, SubsKeep
    <3>4. Current(l) \in Subs
      BY <3>1, CurrentFacts
    <3> HIDE DEF f, l
    <3>5. g \in Frame /\ g.pc = "deliver" /\ g.id = f.id /\ g.name = f.name
          /\ g.topic = f.topic /\ g.sub \in Subs
      BY <2>2, <3>3, <3>4 DEF Frame
    <3> HIDE DEF g
    <3>6. g \in Ready(names, provider)
      BY <2>2, <2>3, <3>5, MovesOn DEF Requests
    <3> QED
      BY <2>1, <2>2, <2>4, <3>3, <3>5, <3>6, StepReady DEF Requests, g
  <2>5. CASE topics' = NextItem(topics) /\ Step(t, [f EXCEPT !.topic = Current(topics')]) /\ heap' = heap
    <3> DEFINE g == [f EXCEPT !.topic = Current(topics')]
    <3>1. topics' \in Unique(Names) /\ Items(topics') = names
      BY <1>0, <2>5, NextFacts
    <3>2. Current(topics') \in names \cup {None} /\ names \subseteq Names
      BY <1>0, <3>1, CurrentFacts, ListFacts
    <3> HIDE DEF f
    <3>3. g \in Frame /\ g.pc = "scan" /\ g.id = f.id /\ g.name = f.name /\ g.topic = Current(topics')
      BY <2>2, <3>2 DEF Frame
    <3> HIDE DEF g
    <3>4. g \in Ready(names, provider)
      BY <2>2, <3>2, <3>3, MovesOn DEF Requests, Calling
    <3> QED
      BY <1>0, <2>1, <2>2, <2>5, <3>1, <3>3, <3>4, StepReady, DataKeeps DEF Requests, g
  <2> QED
    BY <1>5, <2>4, <2>5 DEF Scan
<1>6. ASSUME NEW t \in Threads, Deliver(t) PROVE DataInv' /\ CallsInv'
  <2> DEFINE f == Top(t)
             g == [f EXCEPT !.pc = "callback", !.got = @ \cup {<<f.topic, f.sub>>}]
  <2>1. /\ At(t, "deliver") /\ provider' = provider /\ topics' = topics /\ heap' = heap
        /\ Step(t, g) /\ astray' = astray
    BY <1>6 DEF Deliver
  <2>2. ~Idle(t) /\ f \in Ready(names, provider) /\ f.pc = "deliver" /\ f \in Frame
    BY <2>1, TopReady
  <2>3. f.topic \in names /\ f.sub \in Subs /\ names \subseteq Names
    BY <1>0, <2>2, ListFacts DEF Ready, Calling
  <2> HIDE DEF f
  <2>4. g \in Frame /\ g.pc = "callback" /\ g.id = f.id /\ g.name = f.name
        /\ g.topic = f.topic /\ g.sub = f.sub
    <3>1. f.got \cup {<<f.topic, f.sub>>} \in SUBSET (Names \X Subs)
      BY <2>2, <2>3 DEF Frame
    <3> QED
      BY <2>2, <3>1 DEF Frame
  <2> HIDE DEF g
  <2>5. g \in Ready(names, provider)
    BY <2>2, <2>3, <2>4, MovesOn DEF Requests
  <2> QED
    BY <1>0, <2>1, <2>2, <2>4, <2>5, StepReady, DataKeeps DEF Requests
<1>7. ASSUME NEW t \in Threads, CallbackReturns(t) PROVE DataInv' /\ CallsInv'
  <2> DEFINE f == Top(t)
             l == NextItem(heap[f.topic].subs)
  <2>1. PICK pc \in {"callback", "called"} : At(t, pc)
    BY <1>7 DEF CallbackReturns
  <2>2. ~Idle(t) /\ f \in Ready(names, provider) /\ f.pc \in {"callback", "called"} /\ f \in Frame
    BY <2>1, TopReady
  <2>3. f.topic \in names /\ heap[f.topic].subs \in Unique(Subs)
    BY <1>0, <2>2 DEF Ready, Calling
  <2>4. l \in Unique(Subs) /\ Items(l) \subseteq Subs
    BY <2>3, NextFacts, ListFacts
  <2>5. heap' = [heap EXCEPT ![f.topic].subs = l] /\ provider' = provider /\ astray' = astray
    BY <1>7 DEF CallbackReturns
  <2>6. topics' \in Unique(Names) /\ Items(topics') = names
        /\ (topics' = topics \/ topics' = NextItem(topics))
    <3>1. topics' = topics \/ topics' = NextItem(topics)
      BY <1>7 DEF CallbackReturns
    <3> QED
      BY <1>0, <3>1, NextFacts
  <2>7. DataInv' /\ DOMAIN heap' = names
    BY <1>0, <2>3, <2>4, <2>5, <2>6, SubsKeep
  <2>8. CASE l.pos # 0 /\ Step(t, [f EXCEPT !.pc = "deliver", !.sub = Current(l)])
    <3> DEFINE g == [f EXCEPT !.pc = "deliver", !.sub = Current(l)]
    <3>1. Current(l) \in Subs
      BY <2>4, <2>8, CurrentFacts
    <3> HIDE DEF f, l
    <3>2. g \in Frame /\ g.pc = "deliver" /\ g.id = f.id /\ g.name = f.name
          /\ g.topic = f.topic /\ g.sub \in Subs
      BY <2>2, <3>1 DEF Frame
    <3> HIDE DEF g
    <3>3. g \in Ready(names, provider)
      BY <2>2, <2>3, <3>2, MovesOn DEF Requests
    <3> QED
      BY <2>2, <2>5, <2>7, <2>8, <3>2, <3>3, StepReady DEF Requests, g
  <2>9. CASE Step(t, [f EXCEPT !.pc = "scan", !.sub = None, !.topic = Current(topics')])
    <3> DEFINE g == [f EXCEPT !.pc = "scan", !.sub = None, !.topic = Current(topics')]
    <3>1. Current(topics') \in names \cup {None} /\ names \subseteq Names
      BY <1>0, <2>6, CurrentFacts, ListFacts
    <3> HIDE DEF f, l
    <3>2. g \in Frame /\ g.pc = "scan" /\ g.id = f.id /\ g.name = f.name /\ g.topic = Current(topics')
      BY <2>2, <3>1 DEF Frame
    <3> HIDE DEF g
    <3>3. g \in Ready(names, provider)
      BY <2>2, <3>1, <3>2, MovesOn DEF Requests, Calling
    <3> QED
      BY <2>2, <2>5, <2>7, <2>9, <3>2, <3>3, StepReady DEF Requests, g
  <2> QED
    BY <1>7, <2>8, <2>9 DEF CallbackReturns
<1>8. ASSUME NEW t \in Threads, Finish(t) PROVE DataInv' /\ CallsInv'
  <2>1. /\ At(t, "scan") /\ Leave(t)
        /\ provider' = provider /\ topics' = topics /\ heap' = heap /\ OfItsOwn(t)
    BY <1>8 DEF Finish, OfItsOwn
  <2>2. ~Idle(t)
    BY <2>1 DEF At
  <2>3. Front(calls[t]) \in Seq(Ready(names, provider))
    BY <1>0, <2>2, CallersBelow
  <2> QED
    BY <1>0, <2>1, <2>2, <2>3, LeaveReady, DataKeeps
<1>9. ASSUME NEW t \in Threads, NEW n \in Names, NEW x \in Subs,
             CallSubscribe(t, n, x) \/ CallUnsubscribe(t, n, x)
      PROVE  DataInv' /\ CallsInv'
  <2>1. PICK pc \in {"subscribe", "unsubscribe"} :
          /\ Idle(t) /\ Enter(t, NewCall(pc, n, x))
          /\ provider' = provider /\ topics' = topics /\ heap' = heap /\ astray' = astray
    BY <1>9 DEF CallSubscribe, CallUnsubscribe
  <2>2. NewCall(pc, n, x) \in Ready(names, provider)
    BY NewCallReady
  <2> QED
    BY <1>0, <2>1, <2>2, EnterReady, DataKeeps
<1>10. ASSUME NEW t \in Threads, Subscribe(t) PROVE DataInv' /\ CallsInv'
  <2> DEFINE f == Top(t)
             found == SearchItem(heap[f.name].subs, f.sub)
             l == IF found.pos = 0 THEN AddItem(found, f.sub) ELSE found
  <2>1. /\ At(t, "subscribe") /\ Leave(t) /\ provider' = provider
        /\ f.name \in names /\ topics' = SearchItem(topics, f.name)
        /\ heap' = [heap EXCEPT ![f.name].subs = l] /\ OfItsOwn(t)
    BY <1>10 DEF Subscribe, OfItsOwn
  <2>2. ~Idle(t) /\ f \in Ready(names, provider) /\ f.pc = "subscribe"
    BY <2>1, TopReady
  <2>3. f.sub \in Subs /\ heap[f.name].subs \in Unique(Subs)
    BY <1>0, <2>1, <2>2 DEF Ready, Requests
  <2>4. l \in Unique(Subs)
    BY <2>3, SearchFacts, AddFacts
  <2> HIDE DEF l
  <2>5. topics' \in Unique(Names) /\ Items(topics') = Items(topics)
    BY <1>0, <2>1, SearchFacts
  <2>6. DataInv' /\ DOMAIN heap' = names
    BY <1>0, <2>1, <2>4, <2>5, SubsKeep
  <2>7. Front(calls[t]) \in Seq(Ready(names, provider))
    BY <1>0, <2>2, CallersBelow
  <2> QED
    BY <1>0, <2>1, <2>2, <2>6, <2>7, LeaveReady
<1>11. ASSUME NEW t \in Threads, SubscribeNew(t) PROVE DataInv' /\ CallsInv'
  <2> DEFINE f == Top(t)
             g == [f EXCEPT !.pc = "tokens"]
  <2>1. /\ At(t, "subscribe") /\ f.name \notin names /\ Step(t, g)
        /\ provider' = provider /\ heap' = heap /\ topics' = SearchItem(topics, f.name)
        /\ astray' = astray
    BY <1>11 DEF SubscribeNew
  <2>2. ~Idle(t) /\ f \in Ready(names, provider) /\ f.pc = "subscribe" /\ f \in Frame
        /\ Alone(calls[t], t \in astray) /\ Top(t).pc \in Requests
    BY <2>1, TopReady DEF Requests
  <2>3. topics' \in Unique(Names) /\ Items(topics') = Items(topics)
    BY <1>0, <2>1, SearchFacts
  <2>4. f.sub \in Subs /\ f.level = 1 /\ Len(f.name) \in Nat
    BY <2>2, NamesAssumption DEF Ready, Requests, Frame, Name
  <2> HIDE DEF f
  <2>5. g \in Frame /\ g.pc = "tokens" /\ g.sub = f.sub /\ g.level = 1 /\ g.name = f.name
    BY <2>2, <2>4 DEF Frame
  <2> HIDE DEF g
  <2>6. g \in Ready(names, provider)
    BY <2>1, <2>4, <2>5 DEF Ready, Requests, Calling
  <2>7. DOMAIN heap' = DOMAIN heap /\ g.pc # "unsubscribe" /\ Step(t, g)
    BY <2>1, <2>5
  <2>8. CallsInv'
    BY <2>1, <2>2, <2>6, <2>7, StepReady
  <2> QED
    BY <1>0, <2>1, <2>3, <2>8, DataKeeps
<1>12. ASSUME NEW t \in Threads, GenerateToken(t) PROVE DataInv' /\ CallsInv'
  <2> DEFINE f == Top(t)
             g == [f EXCEPT !.level = @ + 1]
             text == f.name[f.level]
             more == Ready(names, provider')
  <2>1. /\ At(t, "tokens") /\ f.level <= Len(f.name) /\ Step(t, g)
        /\ provider' = AddToken(provider, text) /\ topics' = topics /\ heap' = heap
        /\ astray' = astray
    BY <1>12 DEF GenerateToken
  <2>2. ~Idle(t) /\ f \in Ready(names, provider) /\ f.pc = "tokens" /\ f \in Frame
        /\ (Len(calls[t]) = 1 \/ t \in astray)
    BY <2>1, TopReady DEF Requests
  <2>3. /\ f.level \in 1 .. Len(f.name) /\ f.name \in Names /\ Len(f.name) \in Nat
        /\ text \in Text
    <3>1. f.level \in 1 .. Len(f.name) + 1 /\ f.name \in Names
      BY <2>2 DEF Ready, Frame
    <3>2. f.name \in Seq(Text) /\ Len(f.name) \in Nat
      BY <3>1, NamesAssumption DEF Name
    <3>3. f.level \in 1 .. Len(f.name)
      BY <2>1, <3>1, <3>2
    <3> QED
      BY <3>1, <3>2, <3>3
  <2>4. provider' \in Seq(Text) /\ Fixed(provider', text)
    BY <1>0, <2>1, <2>3, AddTokenFacts
  <2>5. Ready(names, provider) \subseteq more
    BY <1>0, <2>1, <2>3, ReadyGrows
  <2>6. DataInv'
    <3>1. ASSUME NEW n \in names
          PROVE  heap[n].id = CreateTopicId(provider', n) /\ Settled(provider', n)
      <4>1. n \in Names /\ heap[n].id = CreateTopicId(provider, n) /\ Settled(provider, n)
        BY <1>0, ListFacts DEF DataInv
      <4> QED
        BY <1>0, <2>1, <2>3, <4>1, IdStays
    <3> QED
      BY <1>0, <2>1, <2>4, <3>1 DEF DataInv
  <2>7. g \in more
    <3>1. g \in Frame /\ g.pc = "tokens" /\ g.sub = f.sub /\ g.level = f.level + 1 /\ g.name = f.name
      <4>1. f.level + 1 \in Nat
        BY <2>3
      <4> HIDE DEF f
      <4> QED
        BY <2>2, <4>1 DEF Frame
    <3>2. f \in more
      BY <2>2, <2>5
    <3>3. f.sub \in Subs /\ f.name \notin names /\ \A l \in 1 .. f.level - 1 : Fixed(provider', f.name[l])
      BY <2>2, <3>2 DEF Ready, Requests
    <3>4. \A l \in 1 .. f.level : Fixed(provider', f.name[l])
      <4>1. \A l \in 1 .. f.level : l = f.level \/ l \in 1 .. f.level - 1
        BY <2>3
      <4> QED
        BY <2>4, <3>3, <4>1
    <3>5. g.level \in 1 .. Len(g.name) + 1 /\ g.level - 1 = f.level
      BY <2>3, <3>1
    <3> HIDE DEF f, g, text
    <3> QED
      BY <3>1, <3>3, <3>4, <3>5 DEF Ready, Requests, Calling
  <2>8. \A u \in Threads : calls[u] \in Seq(more)
    BY <1>0, <2>5, SeqMonotonic
  <2>10. g.pc = "tokens"
    BY <2>2 DEF Frame
  <2> DEFINE s == Append(Front(calls[t]), g)
  <2> HIDE DEF more, g
  <2>9. calls' = [calls EXCEPT ![t] = s] /\ s \in Seq(more) /\ Len(s) = Len(calls[t]) /\ s[Len(s)] = g
    BY <2>1, <2>2, <2>7, <2>8, StackOf DEF Step, Idle
  <2> HIDE DEF s
  <2>11. Alone(s, t \in astray') /\ OfItsOwn(t)
    BY <2>1, <2>2, <2>9, <2>10 DEF Alone, OfItsOwn
  <2> QED
    BY <2>1, <2>6, <2>8, <2>9, <2>11, CallsKeep DEF more
<1>13. ASSUME NEW t \in Threads, Register(t) PROVE DataInv' /\ CallsInv'
  <2> DEFINE f == Top(t)
             l == AddItem(EmptyList, f.sub)
             r == [id |-> CreateTopicId(provider, f.name), subs |-> l]
  <2>1. /\ At(t, "tokens") /\ f.level > Len(f.name) /\ Leave(t) /\ provider' = provider
        /\ OfItsOwn(t) /\ names \subseteq DOMAIN heap'
    BY <1>13 DEF Register, OfItsOwn
  <2>2. ~Idle(t) /\ f \in Ready(names, provider) /\ f.pc = "tokens"
    BY <2>1, TopReady
  <2>3. \A u \in Threads : u # t => calls[u] \in Seq(Ready(DOMAIN heap', provider'))
    <3>1. lock.owner = t
      BY <2>1, Owner DEF Locked
    <3> QED
      BY <1>0, <2>1, <3>1, Outside, ReadyOutside
  <2>4. CallsInv'
    <3>1. Front(calls[t]) \in Seq(Ready(DOMAIN heap', provider))
      BY <1>0, <2>1, <2>2, CallersBelow, ReadyBelow
    <3> QED
      BY <2>1, <2>2, <2>3, <3>1, LeaveReady
  <2>5. CASE topics' = topics /\ heap' = heap
    BY <1>0, <2>1, <2>4, <2>5, DataKeeps
  <2>6. CASE /\ topics' = AddItem(topics, f.name)
             /\ heap' = [n \in names \cup {f.name} |->
                           IF n \in names THEN heap[n]
                           ELSE [id |-> CreateTopicId(provider, n), subs |-> AddItem(EmptyList, f.sub)]]
    <3>1. /\ f.name \in Names /\ f.name \notin names /\ f.sub \in Subs
          /\ f.level \in 1 .. Len(f.name) + 1
          /\ \A k \in 1 .. f.level - 1 : Fixed(provider, f.name[k])
      BY <2>2 DEF Ready, Frame, Requests
    <3>2. Settled(provider, f.name)
      <4>1. f.name \in Seq(Text) /\ Len(f.name) \in Nat /\ DOMAIN f.name = 1 .. Len(f.name)
        BY <3>1, NamesAssumption DEF Name
      <4>2. f.level - 1 = Len(f.name)
        BY <2>1, <3>1, <4>1
      <4> QED
        BY <3>1, <4>1, <4>2 DEF Settled
    <3>3. r \in [id : Id, subs : Unique(Subs)]
      <4>1. EmptyList \in Unique(Subs) /\ Items(EmptyList) = {}
        BY DEF EmptyList, Unique, Lists, NoDup, Items
      <4>2. l \in Unique(Subs)
        BY <3>1, <4>1, AddFacts
      <4> QED
        BY <1>0, <4>2, IdType
    <3>4. topics' \in Unique(Names) /\ Items(topics') = names \cup {f.name}
      BY <1>0, <2>6, <3>1, AddFacts
    <3>5. /\ DOMAIN heap' = names \cup {f.name} /\ heap'[f.name] = r
          /\ \A n \in names : heap'[n] = heap[n]
      BY <2>6, <3>1
    <3>6. \A n \in DOMAIN heap' : heap'[n] \in [id : Id, subs : Unique(Subs)]
      BY <1>0, <3>3, <3>5
    <3>7. heap' \in [DOMAIN heap' -> [id : Id, subs : Unique(Subs)]]
      <4>1. heap' = [n \in DOMAIN heap' |-> heap'[n]]
        BY <2>6
      <4> QED
        BY <3>6, <4>1
    <3>8. \A n \in DOMAIN heap' : heap'[n].id = CreateTopicId(provider, n) /\ Settled(provider, n)
      BY <3>2, <3>5 DEF DataInv
    <3> QED
      BY <1>0, <2>1, <2>4, <3>4, <3>5, <3>7, <3>8 DEF DataInv
  <2> QED
    BY <1>13, <2>5, <2>6 DEF Register
<1>14. ASSUME NEW t \in Threads, Unsubscribe(t) PROVE DataInv' /\ CallsInv'
  <2> DEFINE f == Top(t)
             found == SearchItem(topics, f.name)
             l == SearchItem(heap[f.name].subs, f.sub)
  <2>1. At(t, "unsubscribe") /\ Free(t) /\ Leave(t) /\ provider' = provider /\ OfItsOwn(t)
    BY <1>14 DEF Unsubscribe, OfItsOwn
  <2>2. ~Idle(t) /\ f \in Ready(names, provider) /\ f.pc = "unsubscribe" /\ Len(calls[t]) = 1
        /\ f.name \in Names /\ f.sub \in Subs
    BY <2>1, TopReady DEF Requests, Ready, Frame
  <2>3. \A u \in Threads : u # t => calls[u] \in Seq(Ready(DOMAIN heap', provider'))
    <3>1. \A u \in Threads :
            calls[u] = <<>> \/ (Len(calls[u]) = 1 /\ calls[u][1].pc \notin Locked)
      BY <2>1, NobodyInside
    <3> QED
      BY <1>0, <2>1, <3>1, ReadyOutside
  <2>4. CallsInv'
    BY <2>1, <2>2, <2>3, LeaveLast
  <2>5. found \in Unique(Names) /\ Items(found) = names /\ (found.pos = 0 <=> f.name \notin names)
    BY <1>0, SearchFacts
  <2>6. CASE topics' = found /\ heap' = heap
    BY <1>0, <2>1, <2>4, <2>5, <2>6, DataKeeps
  <2>7. ASSUME f.name \in names
        PROVE  /\ heap[f.name].subs \in Unique(Subs) /\ l \in Unique(Subs)
               /\ (l.pos = 0 <=> f.sub \notin Items(l))
    <3>1. heap[f.name].subs \in Unique(Subs)
      BY <1>0, <2>7
    <3> QED
      BY <3>1, SearchFacts
  <2>8. CASE f.name \in names /\ topics' = found /\ heap' = [heap EXCEPT ![f.name].subs = l]
    BY <1>0, <2>1, <2>4, <2>5, <2>7, <2>8, SubsKeep
  <2>9. CASE /\ f.name \in names /\ topics' = found /\ l.pos # 0
             /\ heap' = [heap EXCEPT ![f.name].subs = RemoveItem(l, f.sub)]
    <3>1. RemoveItem(l, f.sub) \in Unique(Subs)
      BY <2>7, <2>9, RemoveFacts
    <3> QED
      BY <1>0, <2>1, <2>4, <2>5, <2>9, <3>1, SubsKeep
  <2>10. CASE /\ f.name \in names /\ topics' = RemoveItem(topics, f.name)
              /\ heap' = [n \in names \ {f.name} |-> heap[n]]
    <3>1. topics' \in Unique(Names) /\ Items(topics') = names \ {f.name}
      BY <1>0, <2>10, RemoveFacts
    <3>2. DOMAIN heap' = names \ {f.name} /\ \A n \in DOMAIN heap' : heap'[n] = heap[n]
      BY <2>10
    <3>3. heap' \in [DOMAIN heap' -> [id : Id, subs : Unique(Subs)]]
      BY <1>0, <2>10, <3>2
    <3> QED
      BY <1>0, <2>1, <2>4, <3>1, <3>2, <3>3 DEF DataInv
  <2> QED
    BY <1>14, <2>5, <2>6, <2>8, <2>9, <2>10 DEF Unsubscribe
<1>15. CASE UNCHANGED vars
  BY <1>15 DEF vars, DataInv, CallsInv
<1> QED
  BY <1>1, <1>2, <1>3, <1>4, <1>5, <1>6, <1>7, <1>8, <1>9, <1>10, <1>11, <1>12, <1>13, <1>14,
     <1>15 DEF Next, Work, Take

\* An identifier all of whose levels are computed is enough to find whatever the
\* name is to reach.
LEMMA KnownEnough ==
  ASSUME NEW names, provider \in Seq(Text), NEW f \in Ready(names, provider),
         f.pc \notin Requests \cup {"identify"},
         NEW n \in Names, Supported(n), Plain(f.name), Matches(n, f.name)
  PROVE  MatchIds(CreateTopicId(provider, n), f.id)
<1> DEFINE search == CreateTopicId(provider, f.name)
<1>1. f.name \in Names /\ Computed(f, provider)
  BY DEF Ready, Frame
<1>2. MatchIds(CreateTopicId(provider, n), search)
  BY <1>1, Complete
<1>3. \A l \in 1 .. MaxLevel : f.id[l] \in {WildcardNotUsed, search[l]}
  BY <1>1 DEF Computed, CreateTopicId
<1> QED
  BY <1>2, <1>3, Weaker

LEMMA InitBrokerInv == Init => BrokerInv
<1> SUFFICES ASSUME Init PROVE BrokerInv
  OBVIOUS
<1>1. LockInv
  BY InitLockInv
<1>2. DataInv
  <2>1. EmptyList \in Unique(Names) /\ Items(EmptyList) = {}
    BY DEF EmptyList, Unique, Lists, NoDup, Items
  <2> QED
    BY <2>1 DEF Init, DataInv
<1>3. CallsInv
  BY EmptySeq DEF Init, CallsInv, Alone
<1> QED
  BY <1>1, <1>2, <1>3 DEF BrokerInv

LEMMA BrokerInvariant == Spec => []BrokerInv
  BY InitBrokerInv, NextBrokerInv, PTL DEF Spec

\* The variables keep their types, the topics of the list and those on the heap
\* stay the same, and no cursor or frame points to a topic that has been freed.
THEOREM Typing == Spec => []TypeOK
<1>1. BrokerInv => TypeOK
  <2> SUFFICES ASSUME BrokerInv PROVE TypeOK
    OBVIOUS
  <2>1. provider \in Seq(Text) /\ topics \in Lists(Names) /\ DOMAIN heap = Items(topics)
    BY DEF BrokerInv, DataInv, Unique
  <2>2. heap \in [DOMAIN heap -> [id : Id, subs : Lists(Subs)]]
    <3>1. Unique(Subs) \subseteq Lists(Subs)
      BY DEF Unique
    <3>2. heap \in [DOMAIN heap -> [id : Id, subs : Unique(Subs)]]
      BY DEF BrokerInv, DataInv
    <3> QED
      BY <3>1, <3>2
  <2>3. calls \in [Threads -> Seq(Frame)]
    <3>1. Ready(DOMAIN heap, provider) \subseteq Frame
      BY DEF Ready
    <3>2. \A t \in Threads : calls[t] \in Seq(Frame)
      BY <3>1, SeqMonotonic DEF BrokerInv, CallsInv
    <3>3. calls = [t \in Threads |-> calls[t]]
      BY DEF BrokerInv, CallsInv
    <3> QED
      BY <3>2, <3>3
  <2> QED
    BY <2>1, <2>2, <2>3 DEF BrokerInv, LockInv, CallsInv, TypeOK
<1> QED
  BY <1>1, BrokerInvariant, PTL

\* What a publication is to reach it recognises, although its identifier was
\* computed without the lock, level by level, while texts and topics came: in the
\* middle of it every topic whose filter means its name matches its identifier.
THEOREM Recognised ==
  Spec => [](\A t \in Threads : \A i \in DOMAIN calls[t] : \A n \in DOMAIN heap :
               calls[t][i].pc \in Locked \ {"tokens"}
                 /\ Supported(n) /\ Plain(calls[t][i].name) /\ Matches(n, calls[t][i].name)
               => MatchIds(heap[n].id, calls[t][i].id))
<1>1. BrokerInv =>
        \A t \in Threads : \A i \in DOMAIN calls[t] : \A n \in DOMAIN heap :
          calls[t][i].pc \in Locked \ {"tokens"}
            /\ Supported(n) /\ Plain(calls[t][i].name) /\ Matches(n, calls[t][i].name)
          => MatchIds(heap[n].id, calls[t][i].id)
  <2> SUFFICES ASSUME BrokerInv, NEW t \in Threads, NEW i \in DOMAIN calls[t],
                      NEW n \in DOMAIN heap, calls[t][i].pc \in Locked \ {"tokens"},
                      Supported(n), Plain(calls[t][i].name), Matches(n, calls[t][i].name)
               PROVE  MatchIds(heap[n].id, calls[t][i].id)
    OBVIOUS
  <2> DEFINE f == calls[t][i]
  <2>1. f \in Ready(DOMAIN heap, provider)
    BY DEF BrokerInv, CallsInv
  <2>2. n \in Names /\ heap[n].id = CreateTopicId(provider, n) /\ provider \in Seq(Text)
    BY ListFacts DEF BrokerInv, DataInv
  <2> QED
    BY <2>1, <2>2, KnownEnough DEF Locked, Requests
<1> QED
  BY <1>1, BrokerInvariant, PTL
-----------------------------------------------------------------------------
(* The cursors, which all the publications of a thread share.              *)

\* A publication f and the list of topics, while no callback subscribes: it has
\* called nobody of the topics
\* that the cursor still has before it, and while it calls the subscribers of
\* one the cursor is there, or it has been moved to the end by a publication
\* from a callback.
AtTopics(f, list) ==
  /\ f.pc \in {"identify", "lock"} => f.got = {}
  /\ f.pc = "scan" => f.topic = Current(list)
  /\ f.pc \in Calling /\ list.pos > 0 => list.items[list.pos] = f.topic
  /\ f.pc \in Calling \cup {"scan"} /\ list.pos > 0 =>
       \A k \in DOMAIN list.items, x \in Subs :
         k > list.pos \/ (k = list.pos /\ f.pc = "scan") => <<list.items[k], x>> \notin f.got

\* The same of the subscribers of its topic.
AtSubs(f, list) ==
  list.pos > 0 =>
    \A k \in DOMAIN list.items :
      k > list.pos \/ (k = list.pos /\ f.pc = "deliver") => <<f.topic, list.items[k]>> \notin f.got

\* A later publication of the stack is at the same topic, and will leave the
\* cursor of its subscribers at the end.
Overtaken(s, i) ==
  \E j \in 1 .. Len(s) : j > i /\ s[j].pc \in Calling /\ s[j].topic = s[i].topic

Walk(s, list, table) ==
  /\ s # <<>> => AtTopics(s[Len(s)], list)
  /\ s # <<>> /\ s[Len(s)].pc = "deliver" =>
       LET subs == table[s[Len(s)].topic].subs
       IN  subs.pos > 0 /\ s[Len(s)].sub = Current(subs)
  /\ \A i \in 1 .. Len(s) :
       s[i].pc \in Calling => AtSubs(s[i], table[s[i].topic].subs) \/ Overtaken(s, i)

WalkInv == \A t \in Threads \ astray : Walk(calls[t], topics, heap)

\* A thread outside the mutex does not look at the cursors.
LEMMA WalkOutside ==
  ASSUME NEW s, NEW l, NEW h, NEW m, NEW g, Walk(s, l, h),
         s = <<>> \/ (Len(s) = 1 /\ s[1].pc \notin Locked)
  PROVE  Walk(s, m, g)
<1>1. CASE s = <<>>
  BY <1>1 DEF Walk
<1>2. CASE Len(s) = 1 /\ s[1].pc \notin Locked
  BY <1>2 DEF Walk, AtTopics, Locked, Calling
<1> QED
  BY <1>1, <1>2

\* So every other thread keeps its part of the invariant.
LEMMA WalkKeeps ==
  ASSUME LockInv, WalkInv, NEW t \in Threads, NEW s, calls' = [calls EXCEPT ![t] = s],
         \/ topics' = topics /\ heap' = heap
         \/ Free(t)
         \/ \E pc \in Locked : At(t, pc),
         OfItsOwn(t), t \in astray' \/ Walk(s, topics', heap')
  PROVE  WalkInv'
<1>1. calls'[t] = s /\ \A u \in Threads : u # t => calls'[u] = calls[u]
  BY DEF LockInv
<1>2. ASSUME NEW u \in Threads, u # t, u \notin astray PROVE Walk(calls[u], topics', heap')
  <2>1. CASE topics' = topics /\ heap' = heap
    BY <1>2, <2>1 DEF WalkInv
  <2>2. CASE Free(t) \/ \E pc \in Locked : At(t, pc)
    <3>1. lock.owner # u
      <4>1. lock.owner = None \/ lock.owner = t
        BY <2>2, Owner DEF Free, LockInv
      <4> QED
        BY <1>2, <4>1, NoneAssumption
    <3>2. calls[u] = <<>> \/ (Len(calls[u]) = 1 /\ calls[u][1].pc \notin Locked)
      BY <3>1, Outside
    <3> QED
      BY <1>2, <3>2, WalkOutside DEF WalkInv
  <2> QED
    BY <2>1, <2>2
<1>3. \A u \in Threads : u # t => (u \in astray' <=> u \in astray)
  BY DEF OfItsOwn
<1> QED
  BY <1>1, <1>2, <1>3 DEF WalkInv

\* Frames below the innermost one.  Those that were overtaken by a frame that is
\* still there stay so; for the others nothing but the cursor of one list of
\* subscribers may have changed, and that to the end or below a new frame.
LEMMA Below ==
  ASSUME NEW S, NEW s \in Seq(S), s # <<>>, NEW r \in Seq(S), Len(r) \in {Len(s) - 1, Len(s), Len(s) + 1},
         \A i \in 1 .. Len(s) - 1 : r[i] = s[i],
         NEW h, NEW g, NEW l, Walk(s, l, h),
         NEW i \in 1 .. Len(s) - 1, s[i].pc \in Calling,
         \/ s[Len(s)].pc \notin Calling \/ s[Len(s)].topic # s[i].topic
         \/ (Len(r) >= Len(s) /\ r[Len(s)].pc \in Calling /\ r[Len(s)].topic = s[Len(s)].topic)
         \/ g[s[i].topic].subs.pos = 0,
         \/ g[s[i].topic].subs = h[s[i].topic].subs
         \/ g[s[i].topic].subs.pos = 0
         \/ (Len(r) >= Len(s) /\ r[Len(s)].pc \in Calling /\ r[Len(s)].topic = s[i].topic)
  PROVE  AtSubs(r[i], g[r[i].topic].subs) \/ Overtaken(r, i)
<1>1. Len(s) \in Nat /\ Len(r) \in Nat /\ r[i] = s[i] /\ i \in 1 .. Len(s)
  BY EmptySeq
<1>2. CASE g[s[i].topic].subs.pos = 0
  BY <1>1, <1>2 DEF AtSubs
<1>3. CASE Len(r) >= Len(s) /\ r[Len(s)].pc \in Calling /\ r[Len(s)].topic = s[i].topic
  <2>1. Len(s) \in 1 .. Len(r) /\ Len(s) > i
    BY <1>1, <1>3
  <2> QED
    BY <1>1, <1>3, <2>1 DEF Overtaken
<1>4. CASE /\ g[s[i].topic].subs = h[s[i].topic].subs
           /\ g[s[i].topic].subs.pos # 0
           /\ ~(Len(r) >= Len(s) /\ r[Len(s)].pc \in Calling /\ r[Len(s)].topic = s[i].topic)
  <2>1. AtSubs(s[i], h[s[i].topic].subs) \/ Overtaken(s, i)
    BY <1>1 DEF Walk
  <2>2. ASSUME Overtaken(s, i) PROVE Overtaken(r, i)
    <3>1. PICK j \in 1 .. Len(s) : j > i /\ s[j].pc \in Calling /\ s[j].topic = s[i].topic
      BY <2>2 DEF Overtaken
    <3>2. CASE j = Len(s)
      BY <1>4, <3>1, <3>2
    <3>3. CASE j # Len(s)
      <4>1. j \in 1 .. Len(s) - 1 /\ j \in 1 .. Len(r) /\ r[j] = s[j]
        BY <1>1, <3>3
      <4> QED
        BY <1>1, <3>1, <4>1 DEF Overtaken
    <3> QED
      BY <3>2, <3>3
  <2> QED
    BY <1>1, <1>4, <2>1, <2>2
<1> QED
  BY <1>2, <1>3, <1>4

LEMMA StepWalk ==
  ASSUME LockInv, CallsInv, WalkInv, NEW t \in Threads, t \notin astray, astray' = astray,
         NEW pc, At(t, pc), NEW f \in Frame, Step(t, f),
         (topics' = topics /\ heap' = heap) \/ Free(t) \/ pc \in Locked,
         AtTopics(f, topics'),
         f.pc = "deliver" => /\ heap'[f.topic].subs.pos > 0
                             /\ f.sub = Current(heap'[f.topic].subs),
         f.pc \in Calling => AtSubs(f, heap'[f.topic].subs),
         \A n \in DOMAIN heap : \/ heap'[n].subs = heap[n].subs
                                \/ heap'[n].subs.pos = 0
                                \/ f.pc \in Calling /\ f.topic = n,
         \/ pc \notin Calling
         \/ f.pc \in Calling /\ f.topic = Top(t).topic
         \/ heap'[Top(t).topic].subs.pos = 0
  PROVE  WalkInv'
<1> DEFINE s == calls[t]
           r == Append(Front(s), f)
<1>1. s # <<>> /\ s \in Seq(Frame) /\ Top(t) = s[Len(s)] /\ Top(t).pc = pc /\ s \in Seq(Ready(DOMAIN heap, provider))
  <2>1. Ready(DOMAIN heap, provider) \subseteq Frame
    BY DEF Ready
  <2> QED
    BY <2>1, SeqMonotonic DEF CallsInv, At, Idle, Top
<1>2. calls' = [calls EXCEPT ![t] = r]
  BY DEF Step
<1>3. /\ Len(s) \in Nat /\ Len(s) > 0 /\ r \in Seq(Frame) /\ Len(r) = Len(s) /\ r[Len(s)] = f
      /\ \A i \in 1 .. Len(s) - 1 : r[i] = s[i]
  BY <1>1, StackOf
<1>4. Walk(s, topics, heap)
  BY DEF WalkInv
<1>5. ASSUME NEW i \in 1 .. Len(s) - 1, s[i].pc \in Calling
      PROVE  AtSubs(r[i], heap'[r[i].topic].subs) \/ Overtaken(r, i)
  <2>1. s[i].topic \in DOMAIN heap
    <3>1. i \in 1 .. Len(s)
      BY <1>3
    <3>2. s[i] \in Ready(DOMAIN heap, provider)
      BY <1>1, <3>1
    <3> QED
      BY <1>5, <3>2 DEF Ready
  <2> HIDE DEF s, r
  <2>2. r[Len(s)] = f /\ Len(r) >= Len(s)
    BY <1>3
  <2>3. \/ s[Len(s)].pc \notin Calling \/ s[Len(s)].topic # s[i].topic
        \/ (Len(r) >= Len(s) /\ r[Len(s)].pc \in Calling /\ r[Len(s)].topic = s[Len(s)].topic)
        \/ heap'[s[i].topic].subs.pos = 0
    BY <1>1, <2>2
  <2>4. \/ heap'[s[i].topic].subs = heap[s[i].topic].subs
        \/ heap'[s[i].topic].subs.pos = 0
        \/ (Len(r) >= Len(s) /\ r[Len(s)].pc \in Calling /\ r[Len(s)].topic = s[i].topic)
    BY <2>1, <2>2
  <2>5. Len(r) \in {Len(s) - 1, Len(s), Len(s) + 1}
    BY <1>3
  <2> QED
    BY <1>1, <1>3, <1>4, <1>5, <2>3, <2>4, <2>5, Below
<1> HIDE DEF s, r
<1>6. Walk(r, topics', heap')
  <2>1. r # <<>> /\ r[Len(r)] = f
    BY <1>3
  <2>2. ASSUME NEW i \in 1 .. Len(r), r[i].pc \in Calling
        PROVE  AtSubs(r[i], heap'[r[i].topic].subs) \/ Overtaken(r, i)
    <3>1. CASE i = Len(s)
      BY <1>3, <2>2, <3>1
    <3>2. CASE i # Len(s)
      <4>1. i \in 1 .. Len(s) - 1
        BY <1>3, <3>2
      <4> QED
        BY <1>3, <1>5, <2>2, <4>1
    <3> QED
      BY <3>1, <3>2
  <2> QED
    BY <2>1, <2>2 DEF Walk
<1>7. /\ (topics' = topics /\ heap' = heap) \/ Free(t) \/ \E c \in Locked : At(t, c)
      /\ OfItsOwn(t)
  BY DEF OfItsOwn
<1> QED
  BY <1>2, <1>6, <1>7, WalkKeeps

\* What is known of the innermost publication.
LEMMA TopWalk ==
  ASSUME LockInv, CallsInv, WalkInv, NEW t \in Threads, t \notin astray, NEW pc, At(t, pc)
  PROVE  /\ AtTopics(Top(t), topics)
         /\ pc \in Calling => AtSubs(Top(t), heap[Top(t).topic].subs)
         /\ pc = "deliver" => /\ heap[Top(t).topic].subs.pos > 0
                              /\ Top(t).sub = Current(heap[Top(t).topic].subs)
<1> DEFINE s == calls[t]
<1>1. s # <<>> /\ Top(t) = s[Len(s)] /\ Top(t).pc = pc /\ Len(s) \in Nat /\ Len(s) > 0
  BY InCall DEF At, Idle, Top
<1>2. Walk(s, topics, heap)
  BY DEF WalkInv
<1> HIDE DEF s
<1>3. ~Overtaken(s, Len(s)) /\ Len(s) \in 1 .. Len(s)
  BY <1>1 DEF Overtaken
<1> QED
  BY <1>1, <1>2, <1>3 DEF Walk

LEMMA NextWalkInv == BrokerInv /\ WalkInv /\ [Next]_vars => WalkInv'
<1> SUFFICES ASSUME LockInv, DataInv, CallsInv, WalkInv, [Next]_vars PROVE WalkInv'
  BY DEF BrokerInv
<1> DEFINE names == DOMAIN heap
<1>0. /\ topics \in Unique(Names) /\ names = Items(topics) /\ names \subseteq Names
      /\ heap \in [names -> [id : Id, subs : Unique(Subs)]]
      /\ \A n \in names : heap[n].subs \in Unique(Subs)
  <2>1. heap \in [names -> [id : Id, subs : Unique(Subs)]]
    BY DEF DataInv
  <2>2. \A n \in names : heap[n].subs \in Unique(Subs)
    BY <2>1
  <2> QED
    BY <2>1, <2>2, ListFacts DEF DataInv
<1>1. ASSUME NEW t \in Threads, NEW pc \in {"identify", "subscribe", "unsubscribe"},
             NEW n, NEW x, Idle(t), Enter(t, NewCall(pc, n, x)), topics' = topics, heap' = heap,
             astray' = astray
      PROVE  WalkInv'
  <2> DEFINE f == NewCall(pc, n, x)
             s == Append(<<>>, f)
  <2>1. calls' = [calls EXCEPT ![t] = s]
    BY <1>1 DEF Enter, Idle
  <2>2. f.pc = pc /\ f.got = {}
    BY DEF NewCall
  <2> HIDE DEF f
  <2>3. Len(s) = 1 /\ s[1] = f
    OBVIOUS
  <2> HIDE DEF s
  <2>4. Walk(s, topics', heap')
    BY <2>2, <2>3 DEF Walk, AtTopics, Calling
  <2>5. OfItsOwn(t)
    BY <1>1 DEF OfItsOwn
  <2> QED
    BY <1>1, <2>1, <2>4, <2>5, WalkKeeps
<1>2. ASSUME NEW t \in Threads, t \notin astray, NEW n \in Names, PublishNested(t, n) PROVE WalkInv'
  <2> DEFINE c == [Top(t) EXCEPT !.pc = "called"]
             f == NewCall("identify", n, None)
             s == calls[t]
             r == Append(Append(Front(s), c), f)
  <2>1. /\ At(t, "callback") /\ calls' = [calls EXCEPT ![t] = r] /\ topics' = topics /\ heap' = heap
        /\ OfItsOwn(t)
    BY <1>2 DEF PublishNested, Inside, OfItsOwn
  <2>2. ~Idle(t) /\ Top(t) \in Frame /\ Top(t).pc = "callback" /\ Top(t) = s[Len(s)] /\ s # <<>>
    BY <2>1, TopReady DEF Idle, Top
  <2>3. c \in Frame /\ c.pc = "called" /\ c.got = Top(t).got /\ c.topic = Top(t).topic
    BY <2>2 DEF Frame
  <2>4. f \in Frame /\ f.pc = "identify" /\ f.got = {}
    <3>1. f \in Ready(names, provider)
      BY NewCallReady
    <3> QED
      BY <3>1 DEF Ready, NewCall
  <2>5. s \in Seq(Frame)
    <3>1. Ready(DOMAIN heap, provider) \subseteq Frame
      BY DEF Ready
    <3> QED
      BY <3>1, SeqMonotonic DEF CallsInv
  <2>6. AtSubs(c, heap[c.topic].subs)
    <3>1. AtSubs(Top(t), heap[Top(t).topic].subs)
      BY <1>2, <2>1, TopWalk DEF Calling
    <3> QED
      BY <2>2, <2>3, <3>1 DEF AtSubs
  <2>7. Walk(s, topics, heap)
    BY <1>2 DEF WalkInv
  <2> HIDE DEF c, f
  <2>8. /\ Len(s) \in Nat /\ Len(s) > 0
        /\ r \in Seq(Frame) /\ Len(r) = Len(s) + 1 /\ r[Len(s)] = c /\ r[Len(s) + 1] = f
        /\ \A i \in 1 .. Len(s) - 1 : r[i] = s[i]
    BY <2>2, <2>3, <2>4, <2>5, StackOf
  <2> HIDE DEF s, r
  <2>9. ASSUME NEW i \in 1 .. Len(s) - 1, s[i].pc \in Calling
        PROVE  AtSubs(r[i], heap[r[i].topic].subs) \/ Overtaken(r, i)
    <3>1. Len(r) >= Len(s) /\ r[Len(s)].pc \in Calling /\ r[Len(s)].topic = s[Len(s)].topic
      BY <2>2, <2>3, <2>8 DEF Calling
    <3>2. Len(r) \in {Len(s) - 1, Len(s), Len(s) + 1}
      BY <2>8
    <3> QED
      BY <2>2, <2>5, <2>7, <2>8, <2>9, <3>1, <3>2, Below
  <2>10. Walk(r, topics, heap)
    <3>1. r # <<>> /\ r[Len(r)] = f
      BY <2>8
    <3>2. ASSUME NEW i \in 1 .. Len(r), r[i].pc \in Calling
          PROVE  AtSubs(r[i], heap[r[i].topic].subs) \/ Overtaken(r, i)
      <4>1. i # Len(s) + 1
        BY <2>4, <2>8, <3>2 DEF Calling
      <4>2. CASE i = Len(s)
        BY <2>6, <2>8, <4>2
      <4>3. CASE i # Len(s)
        <5>1. i \in 1 .. Len(s) - 1
          BY <2>8, <4>1, <4>3
        <5> QED
          BY <2>8, <2>9, <3>2, <5>1
      <4> QED
        BY <4>2, <4>3
    <3>3. AtTopics(f, topics)
      BY <2>4 DEF AtTopics, Calling
    <3> QED
      BY <2>4, <3>1, <3>2, <3>3 DEF Walk
  <2> QED
    BY <2>1, <2>10, WalkKeeps
<1>3. ASSUME NEW t \in Threads, t \notin astray, Identify(t) PROVE WalkInv'
  <2>0. astray' = astray
    BY <1>3 DEF Identify
  <2> DEFINE f == Top(t)
             g == [f EXCEPT !.id[f.level] = Level(provider, f.name, f.level)]
  <2>1. /\ At(t, "identify") /\ provider' = provider /\ topics' = topics /\ heap' = heap
        /\ f.level = MaxLevel => Step(t, [g EXCEPT !.pc = "lock", !.level = 1])
        /\ f.level # MaxLevel => Step(t, [g EXCEPT !.level = @ + 1])
    BY <1>3 DEF Identify
  <2>2. ~Idle(t) /\ f \in Ready(names, provider) /\ f.pc = "identify" /\ f \in Frame
    BY <2>1, TopReady
  <2>3. f.got = {}
    BY <1>3, <2>1, <2>2, TopWalk DEF AtTopics
  <2> HIDE DEF f
  <2>4. PICK h : h \in Frame /\ Step(t, h) /\ h.pc \in {"identify", "lock"} /\ h.got = {}
    <3>1. /\ f.level = MaxLevel => [g EXCEPT !.pc = "lock", !.level = 1] \in Frame
          /\ f.level # MaxLevel => [g EXCEPT !.level = @ + 1] \in Frame
      <4>1. Ready(names, provider) \subseteq Frame
        BY DEF Ready
      <4> QED
        BY <2>2, <4>1, IdentifyReady
    <3>2. "pc" \in DOMAIN g /\ "got" \in DOMAIN g /\ g.pc = "identify" /\ g.got = {}
      BY <2>2, <2>3 DEF Frame
    <3> HIDE DEF g
    <3>3. /\ [g EXCEPT !.pc = "lock", !.level = 1].pc = "lock" /\ [g EXCEPT !.pc = "lock", !.level = 1].got = {}
          /\ [g EXCEPT !.level = @ + 1].pc = "identify" /\ [g EXCEPT !.level = @ + 1].got = {}
      BY <3>2
    <3> QED
      BY <2>1, <3>1, <3>3
  <2>5. AtTopics(h, topics')
    BY <2>4 DEF AtTopics, Calling
  <2> QED
    BY <1>3, <2>0, <2>1, <2>4, <2>5, StepWalk DEF Calling
<1>4. ASSUME NEW t \in Threads, t \notin astray, Lock(t) PROVE WalkInv'
  <2>0. astray' = astray
    BY <1>4 DEF Lock
  <2> DEFINE f == Top(t)
             g == [f EXCEPT !.pc = "scan", !.topic = Current(topics')]
  <2>1. /\ At(t, "lock") /\ Free(t) /\ heap' = heap
        /\ topics' = FirstItem(topics) /\ Step(t, g)
    BY <1>4 DEF Lock
  <2>2. ~Idle(t) /\ f \in Ready(names, provider) /\ f.pc = "lock" /\ f \in Frame
    BY <2>1, TopReady
  <2>3. f.got = {}
    BY <1>4, <2>1, <2>2, TopWalk DEF AtTopics
  <2>4. Current(topics') \in Names \cup {None}
    BY <1>0, <2>1, FirstFacts, CurrentFacts
  <2> HIDE DEF f
  <2>5. g \in Frame /\ g.pc = "scan" /\ g.got = {} /\ g.topic = Current(topics')
    BY <2>2, <2>3, <2>4 DEF Frame
  <2> HIDE DEF g
  <2>6. AtTopics(g, topics')
    BY <2>5 DEF AtTopics, Calling
  <2> QED
    BY <1>4, <2>0, <2>1, <2>5, <2>6, StepWalk DEF Calling
<1>5. ASSUME NEW t \in Threads, t \notin astray, Scan(t) PROVE WalkInv'
  <2>0. astray' = astray
    BY <1>5 DEF Scan
  <2> DEFINE f == Top(t)
  <2>1. At(t, "scan") /\ f.topic # None
    BY <1>5 DEF Scan
  <2>2. ~Idle(t) /\ f \in Ready(names, provider) /\ f.pc = "scan" /\ f \in Frame
    BY <2>1, TopReady
  <2>3. f.topic \in names /\ heap[f.topic].subs \in Unique(Subs)
    BY <1>0, <2>1, <2>2 DEF Ready
  <2>4. AtTopics(f, topics)
    BY <1>5, <2>1, TopWalk
  <2>5. topics.pos \in DOMAIN topics.items /\ topics.pos > 0 /\ topics.items[topics.pos] = f.topic
    BY <1>0, <2>1, <2>2, <2>4, ListFacts DEF AtTopics, Current
  <2>6. CASE /\ heap[f.topic].subs.items # <<>>
             /\ heap' = [heap EXCEPT ![f.topic].subs = FirstItem(@)]
             /\ Step(t, [f EXCEPT !.pc = "deliver", !.sub = Current(heap'[f.topic].subs)])
             /\ topics' = topics
    <3> DEFINE l == FirstItem(heap[f.topic].subs)
               g == [f EXCEPT !.pc = "deliver", !.sub = Current(heap'[f.topic].subs)]
    <3>1. l \in Unique(Subs) /\ l.pos = 1 /\ Items(l) \subseteq Subs
      BY <2>3, <2>6, FirstFacts, ListFacts
    <3>2. /\ heap'[f.topic].subs = l
          /\ \A n \in names : n # f.topic => heap'[n] = heap[n]
      BY <1>0, <2>3, <2>6
    <3>3. Current(l) \in Subs
      BY <3>1, CurrentFacts
    <3> HIDE DEF f, l
    <3>4. g \in Frame /\ g.pc = "deliver" /\ g.got = f.got
          /\ g.topic = f.topic /\ g.sub = Current(l)
      BY <2>2, <3>2, <3>3 DEF Frame
    <3> HIDE DEF g
    <3>5. AtTopics(g, topics')
      BY <2>2, <2>4, <2>5, <2>6, <3>4 DEF AtTopics, Calling
    <3>6. AtSubs(g, l)
      <4> SUFFICES ASSUME NEW k \in DOMAIN l.items PROVE <<g.topic, l.items[k]>> \notin g.got
        BY DEF AtSubs
      <4>1. l.items[k] \in Subs
        BY <3>1 DEF Items
      <4> QED
        BY <2>2, <2>4, <2>5, <3>4, <4>1 DEF AtTopics
    <3>7. Step(t, g) /\ topics' = topics
      BY <2>6 DEF g
    <3>8. /\ heap'[g.topic].subs = l /\ l.pos > 0
          /\ \A n \in names : heap'[n].subs = heap[n].subs \/ g.topic = n
      BY <3>1, <3>2, <3>4
    <3>9. "scan" \in Locked /\ "scan" \notin Calling /\ "deliver" \in Calling
      BY DEF Locked, Calling
    <3> QED
      BY <1>5, <2>0, <2>1, <3>4, <3>5, <3>6, <3>7, <3>8, <3>9, StepWalk
  <2>7. CASE topics' = NextItem(topics) /\ Step(t, [f EXCEPT !.topic = Current(topics')]) /\ heap' = heap
    <3> DEFINE g == [f EXCEPT !.topic = Current(topics')]
    <3>1. /\ topics'.items = topics.items
          /\ topics'.pos = IF topics.pos \in {0, Len(topics.items)} THEN 0 ELSE topics.pos + 1
          /\ Current(topics') \in Names \cup {None}
      BY <1>0, <2>7, NextFacts, CurrentFacts
    <3> HIDE DEF f
    <3>2. g \in Frame /\ g.pc = "scan" /\ g.got = f.got /\ g.topic = Current(topics')
      BY <2>2, <3>1 DEF Frame
    <3> HIDE DEF g
    <3>3. ASSUME topics'.pos > 0, NEW k \in DOMAIN topics.items, k >= topics'.pos
          PROVE  k > topics.pos
      BY <1>0, <2>5, <3>1, <3>3, ListFacts
    <3>4. AtTopics(g, topics')
      <4>1. ASSUME topics'.pos > 0, NEW k \in DOMAIN topics'.items, NEW x \in Subs,
                   k > topics'.pos \/ k = topics'.pos
            PROVE  <<topics'.items[k], x>> \notin g.got
        <5>1. k \in DOMAIN topics.items /\ k \in Nat /\ topics'.pos \in Nat
          BY <1>0, <2>5, <3>1, <4>1, ListFacts
        <5>2. k > topics.pos
          BY <3>3, <4>1, <5>1
        <5> QED
          BY <2>2, <2>4, <2>5, <3>1, <3>2, <4>1, <5>1, <5>2 DEF AtTopics
      <4> QED
        BY <3>2, <4>1 DEF AtTopics, Calling
    <3> QED
      BY <1>5, <2>0, <2>1, <2>7, <3>2, <3>4, StepWalk DEF Locked, Calling, g
  <2> QED
    BY <1>5, <2>6, <2>7 DEF Scan
<1>6. ASSUME NEW t \in Threads, t \notin astray, Deliver(t) PROVE WalkInv'
  <2>0. astray' = astray
    BY <1>6 DEF Deliver
  <2> DEFINE f == Top(t)
             g == [f EXCEPT !.pc = "callback", !.got = @ \cup {<<f.topic, f.sub>>}]
             l == heap[f.topic].subs
  <2>1. At(t, "deliver") /\ topics' = topics /\ heap' = heap /\ Step(t, g)
    BY <1>6 DEF Deliver
  <2>2. ~Idle(t) /\ f \in Ready(names, provider) /\ f.pc = "deliver" /\ f \in Frame
    BY <2>1, TopReady
  <2>3. f.topic \in names /\ f.sub \in Subs /\ l \in Unique(Subs)
    BY <1>0, <2>2 DEF Ready, Calling
  <2>4. AtTopics(f, topics) /\ AtSubs(f, l) /\ l.pos > 0 /\ f.sub = Current(l)
    BY <1>6, <2>1, TopWalk DEF Calling
  <2>5. f.sub = l.items[l.pos] /\ l.pos \in DOMAIN l.items
    BY <2>3, <2>4, ListFacts DEF Current
  <2> HIDE DEF f, l
  <2>6. g \in Frame /\ g.pc = "callback" /\ g.got = f.got \cup {<<f.topic, f.sub>>}
        /\ g.topic = f.topic
    <3>1. f.got \cup {<<f.topic, f.sub>>} \in SUBSET (Names \X Subs)
      BY <1>0, <2>2, <2>3 DEF Frame
    <3> QED
      BY <2>2, <3>1 DEF Frame
  <2> HIDE DEF g
  <2>7. AtTopics(g, topics)
    <3>1. ASSUME topics.pos > 0, NEW k \in DOMAIN topics.items, NEW x \in Subs, k > topics.pos
          PROVE  <<topics.items[k], x>> \notin g.got
      <4>1. topics.items[topics.pos] = f.topic /\ topics.pos \in DOMAIN topics.items
            /\ <<topics.items[k], x>> \notin f.got
        BY <1>0, <2>2, <2>4, <3>1, ListFacts DEF AtTopics, Calling
      <4>2. topics.items[k] # f.topic
        BY <1>0, <3>1, <4>1, ListFacts DEF NoDup
      <4> QED
        BY <2>6, <4>1, <4>2
    <3> QED
      BY <2>2, <2>4, <2>6, <3>1 DEF AtTopics, Calling
  <2>8. AtSubs(g, l)
    <3> SUFFICES ASSUME NEW k \in DOMAIN l.items, k > l.pos
                 PROVE  <<g.topic, l.items[k]>> \notin g.got
      BY <2>6 DEF AtSubs
    <3>1. <<f.topic, l.items[k]>> \notin f.got
      BY <2>4 DEF AtSubs
    <3>2. l.items[k] # f.sub
      BY <2>3, <2>5, ListFacts DEF NoDup
    <3> QED
      BY <2>6, <3>1, <3>2
  <2> QED
    BY <1>6, <2>0, <2>1, <2>6, <2>7, <2>8, StepWalk DEF Calling, f, l
<1>7. ASSUME NEW t \in Threads, t \notin astray, CallbackReturns(t) PROVE WalkInv'
  <2>0. astray' = astray
    BY <1>7 DEF CallbackReturns
  <2> DEFINE f == Top(t)
             m == heap[f.topic].subs
             l == NextItem(m)
  <2>1. PICK pc \in {"callback", "called"} : At(t, pc)
    BY <1>7 DEF CallbackReturns
  <2>2. ~Idle(t) /\ f \in Ready(names, provider) /\ f.pc = pc /\ f \in Frame
    BY <2>1, TopReady
  <2>3. f.topic \in names /\ m \in Unique(Subs)
    BY <1>0, <2>2 DEF Ready, Calling
  <2>4. AtTopics(f, topics) /\ AtSubs(f, m)
    BY <1>7, <2>1, TopWalk DEF Calling
  <2>5. /\ l \in Unique(Subs) /\ l.items = m.items
        /\ l.pos = IF m.pos \in {0, Len(m.items)} THEN 0 ELSE m.pos + 1
    BY <2>3, NextFacts
  <2>6. /\ heap'[f.topic].subs = l
        /\ \A n \in names : n # f.topic => heap'[n] = heap[n]
    BY <1>0, <1>7, <2>3 DEF CallbackReturns
  <2>7. CASE l.pos # 0 /\ Step(t, [f EXCEPT !.pc = "deliver", !.sub = Current(l)]) /\ topics' = topics
    <3> DEFINE g == [f EXCEPT !.pc = "deliver", !.sub = Current(l)]
    <3>1. Current(l) \in Subs
      BY <2>5, <2>7, CurrentFacts, ListFacts
    <3>2. l.pos > 0 /\ m.pos > 0 /\ l.pos = m.pos + 1 /\ m.pos \in Nat /\ DOMAIN m.items \subseteq Nat
      BY <2>3, <2>5, <2>7, ListFacts
    <3> HIDE DEF f, l, m
    <3>3. g \in Frame /\ g.pc = "deliver" /\ g.got = f.got
          /\ g.topic = f.topic /\ g.sub = Current(l)
      BY <2>2, <3>1 DEF Frame
    <3> HIDE DEF g
    <3>4. AtTopics(g, topics')
      BY <2>1, <2>2, <2>4, <2>7, <3>3 DEF AtTopics, Calling
    <3>5. AtSubs(g, l)
      <4> SUFFICES ASSUME NEW k \in DOMAIN l.items, k > l.pos \/ k = l.pos
                   PROVE  <<g.topic, l.items[k]>> \notin g.got
        BY DEF AtSubs
      <4>1. k \in DOMAIN m.items /\ k \in Nat /\ l.items[k] = m.items[k]
        BY <2>5, <3>2
      <4>2. k > m.pos
        BY <3>2, <4>1
      <4> QED
        BY <2>4, <3>2, <3>3, <4>1, <4>2 DEF AtSubs
    <3> QED
      BY <1>7, <2>0, <2>1, <2>6, <2>7, <3>2, <3>3, <3>4, <3>5, StepWalk DEF Locked, Calling, f, g
  <2>8. CASE /\ l.pos = 0 /\ topics' = NextItem(topics)
             /\ Step(t, [f EXCEPT !.pc = "scan", !.sub = None, !.topic = Current(topics')])
    <3> DEFINE g == [f EXCEPT !.pc = "scan", !.sub = None, !.topic = Current(topics')]
    <3>1. /\ topics'.items = topics.items
          /\ topics'.pos = IF topics.pos \in {0, Len(topics.items)} THEN 0 ELSE topics.pos + 1
          /\ Current(topics') \in Names \cup {None}
      BY <1>0, <2>8, NextFacts, CurrentFacts
    <3> HIDE DEF f, l, m
    <3>2. g \in Frame /\ g.pc = "scan" /\ g.got = f.got /\ g.topic = Current(topics')
      BY <2>2, <3>1 DEF Frame
    <3> HIDE DEF g
    <3>3. AtTopics(g, topics')
      <4>1. ASSUME topics'.pos > 0, NEW k \in DOMAIN topics'.items, NEW x \in Subs,
                   k > topics'.pos \/ k = topics'.pos
            PROVE  <<topics'.items[k], x>> \notin g.got
        <5>1. k \in DOMAIN topics.items /\ k \in Nat /\ topics.pos \in Nat /\ topics.pos > 0
              /\ topics'.pos = topics.pos + 1
          BY <1>0, <3>1, <4>1, ListFacts
        <5>2. k > topics.pos
          BY <4>1, <5>1
        <5> QED
          BY <2>1, <2>2, <2>4, <3>1, <3>2, <5>1, <5>2 DEF AtTopics, Calling
      <4> QED
        BY <3>2, <4>1 DEF AtTopics, Calling
    <3> QED
      BY <1>7, <2>0, <2>1, <2>6, <2>8, <3>2, <3>3, StepWalk DEF Locked, Calling, f, g
  <2> QED
    BY <1>7, <2>7, <2>8 DEF CallbackReturns
<1>8. ASSUME NEW t \in Threads, t \notin astray, Finish(t) PROVE WalkInv'
  <2> DEFINE s == calls[t]
             r == Front(s)
  <2>1. /\ At(t, "scan") /\ Top(t).topic = None /\ calls' = [calls EXCEPT ![t] = r]
        /\ topics' = topics /\ heap' = heap /\ OfItsOwn(t)
    BY <1>8 DEF Finish, Leave, OfItsOwn
  <2>2. topics.pos = 0
    <3>1. AtTopics(Top(t), topics) /\ Top(t).pc = "scan"
      BY <1>8, <2>1, TopWalk DEF At
    <3>2. Current(topics) = None
      BY <2>1, <3>1 DEF AtTopics
    <3> QED
      BY <1>0, <3>2, CurrentFacts, NoneAssumption
  <2>3. s # <<>> /\ s[Len(s)].pc = "scan" /\ s \in Seq(Frame)
    <3>1. Ready(DOMAIN heap, provider) \subseteq Frame
      BY DEF Ready
    <3> QED
      BY <2>1, <3>1, SeqMonotonic DEF CallsInv, At, Idle, Top
  <2>4. Walk(s, topics, heap) /\ Stack(s)
    BY <1>8 DEF WalkInv, LockInv
  <2>5. /\ Len(s) \in Nat /\ Len(s) > 0 /\ r \in Seq(Frame) /\ Len(r) = Len(s) - 1
        /\ \A i \in 1 .. Len(s) - 1 : r[i] = s[i]
    BY <2>3, StackOf
  <2> HIDE DEF s, r
  <2>6. r # <<>> => r[Len(r)].pc = "called"
    <3> SUFFICES ASSUME r # <<>> PROVE r[Len(r)].pc = "called"
      OBVIOUS
    <3>1. Len(r) \in 1 .. Len(s) - 1
      BY <2>5
    <3> QED
      BY <2>4, <2>5, <3>1 DEF Stack
  <2>7. ASSUME NEW i \in 1 .. Len(r), r[i].pc \in Calling
        PROVE  AtSubs(r[i], heap[r[i].topic].subs) \/ Overtaken(r, i)
    <3>1. i \in 1 .. Len(s) - 1 /\ s[i].pc \in Calling
      BY <2>5, <2>7
    <3> QED
      BY <2>3, <2>4, <2>5, <3>1, Below DEF Calling
  <2>8. Walk(r, topics, heap)
    BY <2>2, <2>6, <2>7 DEF Walk, AtTopics
  <2> QED
    BY <2>1, <2>8, WalkKeeps
<1>9. ASSUME NEW t \in Threads, t \notin astray, Subscribe(t) \/ Register(t) \/ Unsubscribe(t)
      PROVE  WalkInv'
  <2>1. PICK pc \in Requests :
          /\ At(t, pc) /\ (Free(t) \/ pc \in Locked) /\ calls' = [calls EXCEPT ![t] = Front(@)]
          /\ OfItsOwn(t)
    BY <1>9 DEF Subscribe, Register, Unsubscribe, Requests, Locked, Leave, OfItsOwn
  <2>2. Front(calls[t]) = <<>>
    <3>1. Len(calls[t]) = 1
      BY <1>9, <2>1, TopReady
    <3> QED
      BY <3>1 DEF Front
  <2>3. Walk(<<>>, topics', heap')
    BY DEF Walk
  <2>4. calls' = [calls EXCEPT ![t] = <<>>]
    BY <2>1, <2>2
  <2> QED
    BY <2>1, <2>3, <2>4, WalkKeeps
<1>10. ASSUME NEW t \in Threads, t \notin astray, SubscribeNew(t) PROVE WalkInv'
  <2>0. astray' = astray
    BY <1>10 DEF SubscribeNew
  <2> DEFINE f == Top(t)
             g == [f EXCEPT !.pc = "tokens"]
  <2>1. At(t, "subscribe") /\ Free(t) /\ heap' = heap /\ Step(t, g)
    BY <1>10 DEF SubscribeNew
  <2>2. f \in Frame
    BY <2>1, TopReady
  <2> HIDE DEF f
  <2>3. g \in Frame /\ g.pc = "tokens"
    BY <2>2 DEF Frame
  <2> HIDE DEF g
  <2>4. AtTopics(g, topics')
    BY <2>3 DEF AtTopics, Calling
  <2> QED
    BY <1>10, <2>0, <2>1, <2>3, <2>4, StepWalk DEF Calling
<1>11. ASSUME NEW t \in Threads, t \notin astray, GenerateToken(t) PROVE WalkInv'
  <2>0. astray' = astray
    BY <1>11 DEF GenerateToken
  <2> DEFINE f == Top(t)
             g == [f EXCEPT !.level = @ + 1]
  <2>1. At(t, "tokens") /\ topics' = topics /\ heap' = heap /\ Step(t, g)
    BY <1>11 DEF GenerateToken
  <2>2. f \in Frame /\ f.pc = "tokens"
    BY <2>1, TopReady
  <2>3. f.level + 1 \in Nat
    BY <2>2 DEF Frame
  <2> HIDE DEF f
  <2>4. g \in Frame /\ g.pc = "tokens"
    BY <2>2, <2>3 DEF Frame
  <2> HIDE DEF g
  <2>5. AtTopics(g, topics')
    BY <2>4 DEF AtTopics, Calling
  <2> QED
    BY <1>11, <2>0, <2>1, <2>4, <2>5, StepWalk DEF Calling
<1>12. ASSUME NEW t \in Threads, NEW n \in Names, Publish(t, n) PROVE WalkInv'
  BY <1>1, <1>12 DEF Publish
<1>13. ASSUME NEW t \in Threads, NEW n \in Names, NEW x \in Subs,
              CallSubscribe(t, n, x) \/ CallUnsubscribe(t, n, x)
       PROVE  WalkInv'
  BY <1>1, <1>13 DEF CallSubscribe, CallUnsubscribe
<1>14. CASE UNCHANGED vars
  BY <1>14 DEF vars, WalkInv
\* A thread that has gone astray is nobody's care until it is done, and then it
\* is in no call.
<1>15. ASSUME NEW t \in Threads, t \in astray, astray' = astray,
              NEW s, calls' = [calls EXCEPT ![t] = s],
              (topics' = topics /\ heap' = heap) \/ Free(t) \/ \E pc \in Locked : At(t, pc)
       PROVE  WalkInv'
  BY <1>15, WalkKeeps DEF OfItsOwn
<1>16. ASSUME NEW t \in Threads, t \in astray, Finish(t) PROVE WalkInv'
  <2> DEFINE r == Front(calls[t])
  <2>1. /\ At(t, "scan") /\ calls' = [calls EXCEPT ![t] = r]
        /\ topics' = topics /\ heap' = heap
        /\ astray' = IF Len(calls[t]) = 1 THEN astray \ {t} ELSE astray
    BY <1>16 DEF Finish, Leave
  <2>2. CASE Len(calls[t]) = 1
    <3>1. r = <<>>
      BY <2>2 DEF Front
    <3>2. Walk(r, topics', heap')
      BY <3>1 DEF Walk
    <3>3. OfItsOwn(t)
      BY <2>1, <2>2 DEF OfItsOwn
    <3> HIDE DEF r
    <3> QED
      BY <2>1, <3>2, <3>3, WalkKeeps
  <2>3. CASE Len(calls[t]) # 1
    BY <1>15, <1>16, <2>1, <2>3
  <2> QED
    BY <2>2, <2>3
<1>17. ASSUME NEW t \in Threads, t \in astray, NEW n \in Names, PublishNested(t, n) PROVE WalkInv'
  BY <1>15, <1>17 DEF PublishNested, Inside
<1>18. ASSUME NEW t \in Threads, t \in astray, (Work(t) /\ ~Finish(t)) \/ Take(t) PROVE WalkInv'
  <2>1. astray' = astray
    BY <1>18 DEF Work, Identify, Scan, Deliver, CallbackReturns, GenerateToken, Register, Take, Lock,
                 Subscribe, SubscribeNew, Unsubscribe
  <2>2. PICK s : calls' = [calls EXCEPT ![t] = s]
    BY <1>18 DEF Work, Identify, Scan, Deliver, CallbackReturns, GenerateToken, Register, Take, Lock,
                 Subscribe, SubscribeNew, Unsubscribe, Step, Leave
  <2>3. (topics' = topics /\ heap' = heap) \/ Free(t) \/ \E pc \in Locked : At(t, pc)
    BY <1>18 DEF Work, Identify, Scan, Deliver, CallbackReturns, GenerateToken, Register, Take, Lock,
                 Subscribe, SubscribeNew, Unsubscribe, Locked
  <2> QED
    BY <1>15, <1>18, <2>1, <2>2, <2>3
<1>19. ASSUME NEW t \in Threads, NEW n \in Names, SubscribeNested(t, n) PROVE WalkInv'
  <2>1. PICK s : calls' = [calls EXCEPT ![t] = s]
    BY <1>19 DEF SubscribeNested, Inside
  <2>2. topics' = topics /\ heap' = heap /\ t \in astray' /\ OfItsOwn(t)
    BY <1>19 DEF SubscribeNested, OfItsOwn
  <2> QED
    BY <2>1, <2>2, WalkKeeps
<1>20. ASSUME NEW t \in Threads, Work(t) \/ Take(t) PROVE WalkInv'
  <2>1. CASE t \in astray
    BY <1>16, <1>18, <1>20, <2>1
  <2>2. CASE t \notin astray
    BY <1>3, <1>4, <1>5, <1>6, <1>7, <1>8, <1>9, <1>10, <1>11, <1>20, <2>2 DEF Work, Take
  <2> QED
    BY <2>1, <2>2
<1> QED
  BY <1>2, <1>12, <1>13, <1>14, <1>17, <1>19, <1>20 DEF Next

LEMMA WalkInvariant == Spec => []WalkInv
<1>1. Init => WalkInv
  BY DEF Init, WalkInv, Walk
<1> QED
  BY <1>1, NextWalkInv, BrokerInvariant, PTL DEF Spec

\* A publication calls no subscriber of a topic twice, as long as none of its
\* callbacks has subscribed: neither the cursors that its own callbacks move by
\* publishing, nor what other threads subscribe, from their callbacks too, before
\* and after, lead it back to one that it has called.
THEOREM CalledOnce == Spec => AtMostOnce
<1> DEFINE A == \A t \in Threads \ astray :
                  At(t, "deliver") /\ calls'[t] # calls[t] => <<Top(t).topic, Top(t).sub>> \notin Top(t).got
<1>1. BrokerInv /\ WalkInv => A
  <2> SUFFICES ASSUME BrokerInv, WalkInv, NEW t \in Threads, t \notin astray, At(t, "deliver")
               PROVE  <<Top(t).topic, Top(t).sub>> \notin Top(t).got
    OBVIOUS
  <2> DEFINE f == Top(t)
             l == heap[f.topic].subs
  <2>1. f \in Ready(DOMAIN heap, provider) /\ f.pc = "deliver"
    BY TopReady DEF BrokerInv
  <2>2. f.topic \in DOMAIN heap
    BY <2>1 DEF Ready, Calling
  <2>3. l \in Unique(Subs)
    BY <2>2 DEF BrokerInv, DataInv
  <2>4. AtSubs(f, l) /\ l.pos > 0 /\ f.sub = Current(l)
    BY TopWalk DEF BrokerInv, Calling
  <2> HIDE DEF f, l
  <2>5. l.pos \in DOMAIN l.items /\ f.sub = l.items[l.pos]
    BY <2>3, <2>4, ListFacts DEF Current
  <2>6. <<f.topic, f.sub>> \notin f.got
    BY <2>1, <2>4, <2>5 DEF AtSubs
  <2> QED
    BY <2>6 DEF f
<1>2. BrokerInv /\ WalkInv => [A]_vars
  BY <1>1
<1> QED
  BY <1>2, BrokerInvariant, WalkInvariant, PTL DEF AtMostOnce
-----------------------------------------------------------------------------
(* The refinement of PubSub.  First what a cursor still has before it.     *)

\* What a cursor still has before it.
LEMMA FromCursorFacts ==
  ASSUME NEW S, NEW l \in Unique(S)
  PROVE  /\ l.pos = 0 => FromCursor(l) = {}
         /\ FromCursor(FirstItem(l)) = Items(l)
         /\ l.pos > 0 => /\ l.items[l.pos] \in FromCursor(l)
                         /\ FromCursor(NextItem(l)) = FromCursor(l) \ {l.items[l.pos]}
         /\ FromCursor(l) \subseteq Items(l)
<1>1. /\ Len(l.items) \in Nat /\ DOMAIN l.items = 1 .. Len(l.items)
      /\ l.pos \in Nat /\ l.pos <= Len(l.items)
      /\ \A i, j \in DOMAIN l.items : l.items[i] = l.items[j] => i = j
  BY ListFacts DEF NoDup
<1>2. l.pos = 0 => FromCursor(l) = {}
  BY DEF FromCursor
<1>3. FromCursor(FirstItem(l)) = Items(l)
  <2> DEFINE m == FirstItem(l)
  <2> SUFFICES FromCursor(m) = Items(l)
    OBVIOUS
  <2>1. m.items = l.items /\ (m.pos = 1 \/ l.items = <<>>)
    BY FirstFacts
  <2> HIDE DEF m
  <2>2. CASE m.pos = 1
    <3>1. \A j \in DOMAIN l.items : 0 < m.pos /\ m.pos <= j
      BY <1>1, <2>2
    <3>2. FromCursor(m) = {l.items[j] : j \in {i \in DOMAIN l.items : 0 < m.pos /\ m.pos <= i}}
      BY <2>1 DEF FromCursor
    <3>3. {i \in DOMAIN l.items : 0 < m.pos /\ m.pos <= i} = DOMAIN l.items
      BY <3>1
    <3> QED
      BY <3>2, <3>3 DEF Items
  <2>3. CASE l.items = <<>>
    <3>1. DOMAIN l.items = {}
      BY <2>3
    <3>2. Items(l) = {}
      BY <3>1 DEF Items
    <3>3. FromCursor(m) = {}
      BY <2>1, <3>1 DEF FromCursor
    <3> QED
      BY <3>2, <3>3
  <2> QED
    BY <2>1, <2>2, <2>3
<1>4. ASSUME l.pos > 0
      PROVE  /\ l.items[l.pos] \in FromCursor(l)
             /\ FromCursor(NextItem(l)) = FromCursor(l) \ {l.items[l.pos]}
  <2> DEFINE m == NextItem(l)
  <2>1. /\ m.items = l.items
        /\ m.pos = IF l.pos \in {0, Len(l.items)} THEN 0 ELSE l.pos + 1
    BY NextFacts
  <2> HIDE DEF m
  <2>2. l.items[l.pos] \in FromCursor(l)
    BY <1>1, <1>4 DEF FromCursor
  <2>3. \A j \in DOMAIN l.items : (0 < m.pos /\ m.pos <= j) <=> (l.pos <= j /\ j # l.pos)
    BY <1>1, <1>4, <2>1
  <2>4. FromCursor(m) = {l.items[j] : j \in {i \in DOMAIN l.items : l.pos <= i /\ i # l.pos}}
    BY <2>1, <2>3 DEF FromCursor
  <2>5. FromCursor(l) = {l.items[j] : j \in {i \in DOMAIN l.items : l.pos <= i}}
    BY <1>4 DEF FromCursor
  <2>6. {l.items[j] : j \in {i \in DOMAIN l.items : l.pos <= i /\ i # l.pos}}
          = {l.items[j] : j \in {i \in DOMAIN l.items : l.pos <= i}} \ {l.items[l.pos]}
    <3>1. l.pos \in DOMAIN l.items
      BY <1>1, <1>4
    <3> QED
      BY <1>1, <3>1
  <2> QED
    BY <2>2, <2>4, <2>5, <2>6 DEF m
<1>5. FromCursor(l) \subseteq Items(l)
  BY DEF FromCursor, Items
<1> QED
  BY <1>2, <1>3, <1>4, <1>5

\* The state functions of the refinement, as operators of the variables.
AtWork == {"scan", "deliver", "callback", "called"}

Busy(s) == s # <<>> /\ s[Len(s)].pc \in AtWork

SubscribedOf(table) == {x \in (DOMAIN table) \X Subs : x[2] \in Items(table[x[1]].subs)}

Rest(f, list) == IF f.pc = "deliver" THEN FromCursor(list) ELSE FromCursor(NextItem(list))

Later(f, list) == FromCursor(list) \ (IF f.pc = "scan" THEN {} ELSE {f.topic})

AheadOf(f, list, table) ==
  {x \in SubscribedOf(table) : x[1] \in Later(f, list) /\ MatchIds(table[x[1]].id, f.id)}
    \cup (IF f.pc = "scan" THEN {} ELSE {f.topic} \X Rest(f, table[f.topic].subs))

BusyOf(c) == {t \in Threads : Busy(c[t])}

DeliveringOf(c, list, table) ==
  IF BusyOf(c) = {} THEN None
  ELSE LET s == c[CHOOSE t \in BusyOf(c) : TRUE]
       IN  [name |-> s[Len(s)].name, todo |-> AheadOf(s[Len(s)], list, table)]

LEMMA StateFunctions ==
  /\ Subscribed = SubscribedOf(heap) /\ Subscribed' = SubscribedOf(heap')
  /\ Delivering = DeliveringOf(calls, topics, heap)
  /\ Delivering' = DeliveringOf(calls', topics', heap')
<1>1. Locked \ {"tokens"} = AtWork
  BY DEF Locked, AtWork
<1>2. Publishing = BusyOf(calls) /\ Publishing' = BusyOf(calls')
  BY <1>1 DEF Publishing, BusyOf, Busy, Idle, Top
<1>3. Subscribed = SubscribedOf(heap) /\ Subscribed' = SubscribedOf(heap')
  BY DEF Subscribed, SubscribedOf
<1>4. \A f : Ahead(f) = AheadOf(f, topics, heap)
  BY <1>3 DEF Ahead, AheadOf, Later, Rest
<1>5. \A f : Ahead(f)' = AheadOf(f, topics', heap')
  BY <1>3 DEF Ahead, AheadOf, Later, Rest
<1>6. Delivering = DeliveringOf(calls, topics, heap)
  BY <1>2, <1>4 DEF Delivering, DeliveringOf, Top
<1>7. Delivering' = DeliveringOf(calls', topics', heap')
  BY <1>2, <1>5 DEF Delivering, DeliveringOf, Top
<1> QED
  BY <1>3, <1>6, <1>7

LEMMA OneDelivers ==
  ASSUME NEW c, NEW list, NEW table, NEW t \in Threads, Busy(c[t]),
         \A u \in Threads : u # t => ~Busy(c[u])
  PROVE  DeliveringOf(c, list, table) = [name |-> c[t][Len(c[t])].name,
                                         todo |-> AheadOf(c[t][Len(c[t])], list, table)]
<1>1. BusyOf(c) = {t}
  BY DEF BusyOf
<1>2. (CHOOSE u \in BusyOf(c) : TRUE) = t
  BY <1>1
<1> QED
  BY <1>1, <1>2 DEF DeliveringOf

LEMMA NobodyDelivers ==
  ASSUME NEW c, NEW list, NEW table, \A u \in Threads : ~Busy(c[u])
  PROVE  DeliveringOf(c, list, table) = None
  BY DEF DeliveringOf, BusyOf

\* Where a publication is when callbacks do not call the broker: while it calls the
\* subscribers of a topic both cursors are where it left them.
Placed(f, list, table) ==
  /\ f.pc # "called"
  /\ f.pc \in Calling => /\ list.pos > 0
                         /\ table[f.topic].subs.pos > 0
                         /\ f.sub = Current(table[f.topic].subs)
                         /\ MatchIds(table[f.topic].id, f.id)

QuietInv ==
  \A t \in Threads : calls[t] # <<>> => Len(calls[t]) = 1 /\ Placed(calls[t][1], topics, heap)

\* It is the turn of t: it has the mutex or can take it.
LEMMA Turn ==
  ASSUME LockInv, QuietInv, NEW t \in Threads, NEW pc, At(t, pc), Free(t) \/ pc \in Locked
  PROVE  /\ Len(calls[t]) = 1 /\ Top(t) = calls[t][1] /\ calls[t] # <<>> /\ Placed(Top(t), topics, heap)
         /\ \A u \in Threads : u # t =>
              calls[u] = <<>> \/ (Len(calls[u]) = 1 /\ calls[u][1].pc \notin Locked)
         /\ Delivering = IF pc \in AtWork
                         THEN [name |-> Top(t).name, todo |-> AheadOf(Top(t), topics, heap)]
                         ELSE None
<1>1. Len(calls[t]) = 1 /\ Top(t) = calls[t][1] /\ calls[t] # <<>> /\ Placed(Top(t), topics, heap)
      /\ Top(t).pc = pc
  BY DEF QuietInv, At, Idle, Top
<1>2. ASSUME NEW u \in Threads, u # t
      PROVE  calls[u] = <<>> \/ (Len(calls[u]) = 1 /\ calls[u][1].pc \notin Locked)
  <2>1. lock.owner = None \/ lock.owner = t
    BY Owner DEF Free, LockInv
  <2>2. lock.owner # u
    BY <1>2, <2>1, NoneAssumption
  <2> QED
    BY <2>2, Outside
<1>3. \A u \in Threads : u # t => ~Busy(calls[u])
  BY <1>2 DEF Busy, AtWork, Locked
<1>4. CASE pc \in AtWork
  <2>1. Busy(calls[t])
    BY <1>1, <1>4 DEF Busy
  <2> QED
    <3>1. DeliveringOf(calls, topics, heap) =
            [name |-> calls[t][Len(calls[t])].name,
             todo |-> AheadOf(calls[t][Len(calls[t])], topics, heap)]
      BY <1>3, <2>1, OneDelivers
    <3>2. Delivering = [name |-> Top(t).name, todo |-> AheadOf(Top(t), topics, heap)]
      BY <1>1, <3>1, StateFunctions
    <3> QED
      BY <1>1, <1>2, <1>4, <3>2
<1>5. CASE pc \notin AtWork
  <2>1. \A u \in Threads : ~Busy(calls[u])
    BY <1>1, <1>3, <1>5 DEF Busy
  <2> QED
    BY <1>1, <1>2, <1>5, <2>1, NobodyDelivers, StateFunctions
<1> QED
  BY <1>4, <1>5

\* What its step leads to.
LEMMA TurnSteps ==
  ASSUME LockInv, QuietInv, NEW t \in Threads, NEW pc, At(t, pc), Free(t) \/ pc \in Locked,
         NEW f, Step(t, f), Placed(f, topics', heap')
  PROVE  /\ QuietInv'
         /\ Delivering' = IF f.pc \in AtWork
                          THEN [name |-> f.name, todo |-> AheadOf(f, topics', heap')]
                          ELSE None
<1>1. Front(calls[t]) = <<>>
  <2>1. Len(calls[t]) = 1
    BY Turn
  <2> QED
    BY <2>1 DEF Front
<1>2. /\ calls'[t] = <<f>> /\ Len(calls'[t]) = 1 /\ calls'[t][1] = f /\ calls'[t] # <<>>
      /\ \A u \in Threads : u # t => calls'[u] = calls[u]
  BY <1>1 DEF Step, LockInv
<1>3. ASSUME NEW u \in Threads, u # t
      PROVE  /\ calls'[u] # <<>> => Len(calls'[u]) = 1 /\ Placed(calls'[u][1], topics', heap')
             /\ ~Busy(calls'[u])
  <2>1. calls'[u] = <<>> \/ (Len(calls'[u]) = 1 /\ calls'[u][1].pc \notin Locked)
    BY <1>2, <1>3, Turn
  <2> QED
    BY <2>1 DEF Placed, Calling, Locked, Busy, AtWork
<1>4. QuietInv'
  BY <1>2, <1>3 DEF QuietInv
<1>5. CASE f.pc \in AtWork
  <2>1. Busy(calls'[t])
    BY <1>2, <1>5 DEF Busy
  <2> QED
    BY <1>2, <1>3, <1>4, <1>5, <2>1, OneDelivers, StateFunctions
<1>6. CASE f.pc \notin AtWork
  <2>1. \A u \in Threads : ~Busy(calls'[u])
    BY <1>2, <1>3, <1>6 DEF Busy
  <2> QED
    BY <1>4, <1>6, <2>1, NobodyDelivers, StateFunctions
<1> QED
  BY <1>5, <1>6

LEMMA TurnLeaves ==
  ASSUME LockInv, QuietInv, NEW t \in Threads, NEW pc, At(t, pc), Free(t) \/ pc \in Locked, Leave(t)
  PROVE  QuietInv' /\ Delivering' = None
<1>1. Front(calls[t]) = <<>>
  <2>1. Len(calls[t]) = 1
    BY Turn
  <2> QED
    BY <2>1 DEF Front
<1>2. calls'[t] = <<>> /\ \A u \in Threads : u # t => calls'[u] = calls[u]
  BY <1>1 DEF Leave, LockInv
<1>3. ASSUME NEW u \in Threads
      PROVE  /\ calls'[u] # <<>> => Len(calls'[u]) = 1 /\ Placed(calls'[u][1], topics', heap')
             /\ ~Busy(calls'[u])
  <2>1. calls'[u] = <<>> \/ (Len(calls'[u]) = 1 /\ calls'[u][1].pc \notin Locked)
    BY <1>2, Turn
  <2> QED
    BY <2>1 DEF Placed, Calling, Locked, Busy, AtWork
<1> QED
  BY <1>3, NobodyDelivers, StateFunctions DEF QuietInv

\* A thread that does not touch the topics and is in no publication, before or
\* after.
LEMMA Elsewhere ==
  ASSUME LockInv, QuietInv, NEW t \in Threads, NEW f, f.pc \notin AtWork,
         topics' = topics, heap' = heap, ~Busy(calls[t]), calls' = [calls EXCEPT ![t] = <<f>>]
  PROVE  QuietInv' /\ UNCHANGED <<Subscribed, Delivering>>
<1>1. calls'[t] = <<f>> /\ \A u \in Threads : u # t => calls'[u] = calls[u]
  BY DEF LockInv
<1>2. ~Busy(calls'[t]) /\ Placed(f, topics', heap') /\ Len(calls'[t]) = 1 /\ calls'[t][1] = f
  BY <1>1 DEF Busy, AtWork, Placed, Calling
<1>3. QuietInv'
  BY <1>1, <1>2 DEF QuietInv
<1>4. BusyOf(calls') = BusyOf(calls) /\ \A u \in BusyOf(calls) : calls'[u] = calls[u]
  BY <1>1, <1>2 DEF BusyOf
<1>5. DeliveringOf(calls', topics', heap') = DeliveringOf(calls, topics, heap)
  <2>1. CASE BusyOf(calls) = {}
    BY <1>4, <2>1 DEF DeliveringOf
  <2>2. CASE BusyOf(calls) # {}
    <3>1. (CHOOSE u \in BusyOf(calls) : TRUE) \in BusyOf(calls)
      BY <2>2
    <3> QED
      BY <1>4, <3>1 DEF DeliveringOf
  <2> QED
    BY <2>1, <2>2
<1>6. SubscribedOf(heap') = SubscribedOf(heap)
  OBVIOUS
<1> QED
  BY <1>3, <1>5, <1>6, StateFunctions

\* What a publication has before it, by where it is.
LEMMA AheadFacts ==
  ASSUME NEW f, NEW list, NEW table
  PROVE  /\ f.pc = "scan" =>
              AheadOf(f, list, table) =
                {x \in SubscribedOf(table) : x[1] \in FromCursor(list) /\ MatchIds(table[x[1]].id, f.id)}
         /\ f.pc = "deliver" =>
              AheadOf(f, list, table) =
                {x \in SubscribedOf(table) : x[1] \in FromCursor(list) \ {f.topic} /\ MatchIds(table[x[1]].id, f.id)}
                  \cup {f.topic} \X FromCursor(table[f.topic].subs)
         /\ f.pc \in {"callback", "called"} =>
              AheadOf(f, list, table) =
                {x \in SubscribedOf(table) : x[1] \in FromCursor(list) \ {f.topic} /\ MatchIds(table[x[1]].id, f.id)}
                  \cup {f.topic} \X FromCursor(NextItem(table[f.topic].subs))
<1>1. CASE f.pc = "scan"
  BY <1>1 DEF AheadOf, Later
<1>2. CASE f.pc = "deliver"
  BY <1>2 DEF AheadOf, Later, Rest
<1>3. CASE f.pc \in {"callback", "called"}
  BY <1>3 DEF AheadOf, Later, Rest
<1> QED
  BY <1>1, <1>2, <1>3

\* A cursor of subscribers that moves changes no subscription.
LEMMA SubscriptionsStay ==
  ASSUME DataInv, NEW n \in DOMAIN heap, NEW l, Items(l) = Items(heap[n].subs),
         heap' = [heap EXCEPT ![n].subs = l]
  PROVE  /\ SubscribedOf(heap') = SubscribedOf(heap)
         /\ DOMAIN heap' = DOMAIN heap /\ heap'[n].subs = l
         /\ \A m \in DOMAIN heap : heap'[m].id = heap[m].id
<1>1. heap \in [DOMAIN heap -> [id : Id, subs : Unique(Subs)]]
  BY DEF DataInv
<1>2. heap[n] \in [id : Id, subs : Unique(Subs)]
  BY <1>1
<1>3. /\ DOMAIN heap' = DOMAIN heap /\ heap'[n] = [heap[n] EXCEPT !.subs = l]
      /\ \A m \in DOMAIN heap : m # n => heap'[m] = heap[m]
  BY <1>1
<1>4. heap'[n].subs = l /\ heap'[n].id = heap[n].id
  BY <1>2, <1>3
<1>5. \A m \in DOMAIN heap : Items(heap'[m].subs) = Items(heap[m].subs) /\ heap'[m].id = heap[m].id
  BY <1>3, <1>4
<1>6. SubscribedOf(heap') = SubscribedOf(heap)
  BY <1>3, <1>5 DEF SubscribedOf
<1> QED
  BY <1>3, <1>4, <1>5, <1>6

\* Cursors that go on over a topic that is not called leave the same ahead ...
LEMMA TopicSkipped ==
  ASSUME NEW f, NEW list \in Unique(Names), NEW table,
         list.pos > 0, list.items[list.pos] = f.topic,
         ~MatchIds(table[f.topic].id, f.id) \/ Items(table[f.topic].subs) = {},
         f.pc = "scan", NEW g, g.pc = "scan", g.id = f.id
  PROVE  AheadOf(g, NextItem(list), table) = AheadOf(f, list, table)
<1>1. FromCursor(NextItem(list)) = FromCursor(list) \ {f.topic}
  BY FromCursorFacts
<1>2. ASSUME NEW x \in SubscribedOf(table), MatchIds(table[x[1]].id, f.id) PROVE x[1] # f.topic
  BY <1>2 DEF SubscribedOf
<1>3. /\ AheadOf(g, NextItem(list), table) =
           {x \in SubscribedOf(table) : x[1] \in FromCursor(NextItem(list)) /\ MatchIds(table[x[1]].id, g.id)}
      /\ AheadOf(f, list, table) =
           {x \in SubscribedOf(table) : x[1] \in FromCursor(list) /\ MatchIds(table[x[1]].id, f.id)}
  BY AheadFacts
<1> QED
  BY <1>1, <1>2, <1>3

\* ... and so do those that come to one that is.
LEMMA TopicEntered ==
  ASSUME DataInv, NEW f, NEW list \in Unique(Names), f.topic \in DOMAIN heap,
         list.pos > 0, list.items[list.pos] = f.topic,
         MatchIds(heap[f.topic].id, f.id),
         heap' = [heap EXCEPT ![f.topic].subs = FirstItem(@)],
         f.pc = "scan", NEW g, g.pc = "deliver", g.id = f.id, g.topic = f.topic
  PROVE  /\ AheadOf(g, list, heap') = AheadOf(f, list, heap)
         /\ SubscribedOf(heap') = SubscribedOf(heap)
<1> DEFINE c == f.topic
           l == heap[c].subs
           S == SubscribedOf(heap)
           A == {x \in S : x[1] \in FromCursor(list) /\ MatchIds(heap[x[1]].id, f.id)}
           B == {x \in S : x[1] \in FromCursor(list) \ {c} /\ MatchIds(heap[x[1]].id, f.id)}
<1>1. l \in Unique(Subs)
  <2>1. heap \in [DOMAIN heap -> [id : Id, subs : Unique(Subs)]]
    BY DEF DataInv
  <2> QED
    BY <2>1
<1>2. Items(FirstItem(l)) = Items(l) /\ FromCursor(FirstItem(l)) = Items(l) /\ Items(l) \subseteq Subs
  BY <1>1, FirstFacts, FromCursorFacts, ListFacts
<1>3. c \in FromCursor(list)
  BY FromCursorFacts
<1>4. /\ SubscribedOf(heap') = S /\ DOMAIN heap' = DOMAIN heap /\ heap'[c].subs = FirstItem(l)
      /\ \A m \in DOMAIN heap : heap'[m].id = heap[m].id
  BY <1>2, SubscriptionsStay
<1>5. AheadOf(f, list, heap) = A
  BY AheadFacts
<1>6. AheadOf(g, list, heap') = B \cup {c} \X Items(l)
  <2>1. AheadOf(g, list, heap') =
          {x \in S : x[1] \in FromCursor(list) \ {c} /\ MatchIds(heap'[x[1]].id, f.id)} \cup {c} \X Items(l)
    <3>1. AheadOf(g, list, heap') =
            {x \in SubscribedOf(heap') : x[1] \in FromCursor(list) \ {g.topic} /\ MatchIds(heap'[x[1]].id, g.id)}
              \cup {g.topic} \X FromCursor(heap'[g.topic].subs)
      BY DEF AheadOf, Later, Rest
    <3> HIDE DEF S, l
    <3> QED
      BY <1>2, <1>4, <3>1
  <2>2. \A x \in S : heap'[x[1]].id = heap[x[1]].id
    BY <1>4 DEF SubscribedOf
  <2> QED
    BY <2>1, <2>2
<1>7. {c} \X Items(l) = {x \in S : x[1] = c}
  BY <1>2 DEF SubscribedOf
<1> HIDE DEF S, l
<1>8. A = B \cup {x \in S : x[1] = c}
  BY <1>3
<1> QED
  BY <1>4, <1>5, <1>6, <1>7, <1>8 DEF S

\* The one that is called is no longer ahead, and was.
LEMMA OneCalled ==
  ASSUME NEW f, NEW list, NEW table, NEW subs \in Unique(Subs), table[f.topic].subs = subs,
         f.topic \in DOMAIN table, subs.pos > 0, subs.items[subs.pos] = f.sub,
         f.pc = "deliver", NEW g, g.pc = "callback", g.id = f.id, g.topic = f.topic
  PROVE  /\ <<f.topic, f.sub>> \in AheadOf(f, list, table)
         /\ AheadOf(g, list, table) = AheadOf(f, list, table) \ {<<f.topic, f.sub>>}
<1> DEFINE B == {x \in SubscribedOf(table) : x[1] \in FromCursor(list) \ {f.topic} /\ MatchIds(table[x[1]].id, f.id)}
<1>1. f.sub \in FromCursor(subs) /\ FromCursor(NextItem(subs)) = FromCursor(subs) \ {f.sub}
  BY FromCursorFacts
<1>2. AheadOf(f, list, table) = B \cup {f.topic} \X FromCursor(subs)
  BY AheadFacts
<1>3. AheadOf(g, list, table) = B \cup {f.topic} \X (FromCursor(subs) \ {f.sub})
  BY <1>1, AheadFacts
<1>4. <<f.topic, f.sub>> \notin B
  OBVIOUS
<1> HIDE DEF B
<1>5. {f.topic} \X (FromCursor(subs) \ {f.sub}) = ({f.topic} \X FromCursor(subs)) \ {<<f.topic, f.sub>>}
  OBVIOUS
<1> QED
  BY <1>1, <1>2, <1>3, <1>4, <1>5

\* A callback returns: to the next subscriber ...
LEMMA NextCalled ==
  ASSUME DataInv, NEW f, NEW list, f.topic \in DOMAIN heap,
         f.pc \in {"callback", "called"},
         heap' = [heap EXCEPT ![f.topic].subs = NextItem(@)],
         NEW g, g.pc = "deliver", g.id = f.id, g.topic = f.topic
  PROVE  /\ AheadOf(g, list, heap') = AheadOf(f, list, heap)
         /\ SubscribedOf(heap') = SubscribedOf(heap)
<1> DEFINE c == f.topic
           l == heap[c].subs
           S == SubscribedOf(heap)
<1>1. l \in Unique(Subs)
  <2>1. heap \in [DOMAIN heap -> [id : Id, subs : Unique(Subs)]]
    BY DEF DataInv
  <2> QED
    BY <2>1
<1>2. Items(NextItem(l)) = Items(l)
  BY <1>1, NextFacts
<1>3. /\ SubscribedOf(heap') = S /\ DOMAIN heap' = DOMAIN heap /\ heap'[c].subs = NextItem(l)
      /\ \A m \in DOMAIN heap : heap'[m].id = heap[m].id
  BY <1>2, SubscriptionsStay
<1>4. \A x \in S : heap'[x[1]].id = heap[x[1]].id
  BY <1>3 DEF SubscribedOf
<1>5. AheadOf(f, list, heap) =
        {x \in S : x[1] \in FromCursor(list) \ {c} /\ MatchIds(heap[x[1]].id, f.id)}
          \cup {c} \X FromCursor(NextItem(l))
  BY DEF AheadOf, Later, Rest
<1>6. AheadOf(g, list, heap') =
        {x \in SubscribedOf(heap') : x[1] \in FromCursor(list) \ {g.topic} /\ MatchIds(heap'[x[1]].id, g.id)}
          \cup {g.topic} \X FromCursor(heap'[g.topic].subs)
  BY DEF AheadOf, Later, Rest
<1>7. AheadOf(g, list, heap') =
        {x \in S : x[1] \in FromCursor(list) \ {c} /\ MatchIds(heap'[x[1]].id, f.id)}
          \cup {c} \X FromCursor(NextItem(l))
  <2> HIDE DEF S, l
  <2> QED
    BY <1>3, <1>6
<1> HIDE DEF S, l
<1>8. {x \in S : x[1] \in FromCursor(list) \ {c} /\ MatchIds(heap'[x[1]].id, f.id)}
        = {x \in S : x[1] \in FromCursor(list) \ {c} /\ MatchIds(heap[x[1]].id, f.id)}
  BY <1>4
<1> QED
  BY <1>3, <1>5, <1>7, <1>8 DEF S

\* ... or, when it was the last, to the next topic.
LEMMA TopicLeft ==
  ASSUME DataInv, NEW f, NEW list \in Unique(Names), f.topic \in DOMAIN heap,
         list.pos > 0, list.items[list.pos] = f.topic,
         f.pc \in {"callback", "called"}, NextItem(heap[f.topic].subs).pos = 0,
         heap' = [heap EXCEPT ![f.topic].subs = NextItem(@)],
         NEW g, g.pc = "scan", g.id = f.id
  PROVE  /\ AheadOf(g, NextItem(list), heap') = AheadOf(f, list, heap)
         /\ SubscribedOf(heap') = SubscribedOf(heap)
<1> DEFINE c == f.topic
           l == heap[c].subs
           S == SubscribedOf(heap)
<1>1. l \in Unique(Subs)
  <2>1. heap \in [DOMAIN heap -> [id : Id, subs : Unique(Subs)]]
    BY DEF DataInv
  <2> QED
    BY <2>1
<1>2. Items(NextItem(l)) = Items(l) /\ FromCursor(NextItem(l)) = {}
  BY <1>1, NextFacts, FromCursorFacts
<1>3. /\ SubscribedOf(heap') = S /\ \A m \in DOMAIN heap : heap'[m].id = heap[m].id
  BY <1>2, SubscriptionsStay
<1>4. \A x \in S : heap'[x[1]].id = heap[x[1]].id
  BY <1>3 DEF SubscribedOf
<1>5. AheadOf(f, list, heap) =
        {x \in S : x[1] \in FromCursor(list) \ {c} /\ MatchIds(heap[x[1]].id, f.id)} \cup {c} \X {}
  BY <1>2 DEF AheadOf, Later, Rest
<1>6. AheadOf(g, NextItem(list), heap') =
        {x \in SubscribedOf(heap') : x[1] \in FromCursor(NextItem(list)) /\ MatchIds(heap'[x[1]].id, g.id)}
  BY DEF AheadOf, Later, Rest
<1>7. FromCursor(NextItem(list)) = FromCursor(list) \ {c}
  BY FromCursorFacts
<1> HIDE DEF S, l
<1> QED
  BY <1>3, <1>4, <1>5, <1>6, <1>7 DEF S

\* A list of subscribers that is changed.
LEMMA SubscriptionsChange ==
  ASSUME DataInv, NEW n \in DOMAIN heap, NEW l, Items(l) \subseteq Subs,
         heap' = [heap EXCEPT ![n].subs = l]
  PROVE  /\ SubscribedOf(heap') = {y \in SubscribedOf(heap) : y[1] # n} \cup {n} \X Items(l)
         /\ SubscribedOf(heap) = {y \in SubscribedOf(heap) : y[1] # n} \cup {n} \X Items(heap[n].subs)
<1>1. heap \in [DOMAIN heap -> [id : Id, subs : Unique(Subs)]]
  BY DEF DataInv
<1>2. heap[n] \in [id : Id, subs : Unique(Subs)] /\ Items(heap[n].subs) \subseteq Subs
  BY <1>1, ListFacts
<1>3. /\ DOMAIN heap' = DOMAIN heap /\ heap'[n] = [heap[n] EXCEPT !.subs = l]
      /\ \A m \in DOMAIN heap : m # n => heap'[m] = heap[m]
  BY <1>1
<1>4. heap'[n].subs = l
  BY <1>2, <1>3
<1>5. ASSUME NEW y \in (DOMAIN heap) \X Subs
      PROVE  /\ y \in SubscribedOf(heap') <=>
                  y \in {z \in SubscribedOf(heap) : z[1] # n} \cup {n} \X Items(l)
             /\ y \in SubscribedOf(heap) <=>
                  y \in {z \in SubscribedOf(heap) : z[1] # n} \cup {n} \X Items(heap[n].subs)
  <2>1. CASE y[1] = n
    BY <1>3, <1>4, <2>1 DEF SubscribedOf
  <2>2. CASE y[1] # n
    <3>1. y[1] \in DOMAIN heap /\ heap'[y[1]] = heap[y[1]]
      BY <1>3, <2>2
    <3>2. y \notin {n} \X Items(l) /\ y \notin {n} \X Items(heap[n].subs)
      BY <2>2
    <3> QED
      BY <1>3, <2>2, <3>1, <3>2 DEF SubscribedOf
  <2> QED
    BY <2>1, <2>2
<1>6. /\ SubscribedOf(heap') \subseteq (DOMAIN heap) \X Subs /\ SubscribedOf(heap) \subseteq (DOMAIN heap) \X Subs
      /\ {n} \X Items(l) \subseteq (DOMAIN heap) \X Subs
      /\ {n} \X Items(heap[n].subs) \subseteq (DOMAIN heap) \X Subs
  BY <1>2, <1>3 DEF SubscribedOf
<1> QED
  BY <1>5, <1>6

\* A publication is taken up: everybody that its name is to reach is ahead.
LEMMA AllAhead ==
  ASSUME DataInv, NEW f \in Ready(DOMAIN heap, provider), f.pc = "lock",
         NEW g, g.pc = "scan", g.id = f.id,
         NEW x \in SubscribedOf(heap), Supported(x[1]), Plain(f.name), Matches(x[1], f.name)
  PROVE  x \in AheadOf(g, FirstItem(topics), heap)
<1>1. x[1] \in DOMAIN heap /\ x[1] \in Items(topics) /\ x[1] \in Names /\ topics \in Unique(Names)
      /\ heap[x[1]].id = CreateTopicId(provider, x[1]) /\ provider \in Seq(Text)
  BY ListFacts DEF SubscribedOf, DataInv
<1>2. MatchIds(heap[x[1]].id, f.id)
  BY <1>1, KnownEnough DEF Requests
<1>3. x[1] \in FromCursor(FirstItem(topics))
  BY <1>1, FromCursorFacts
<1> QED
  BY <1>2, <1>3, AheadFacts

\* A publication in course is not taken for none.
LEMMA DeliveringSome ==
  ASSUME NEW n \in Names, NEW todo \in SUBSET (Names \X Subs)
  PROVE  [name |-> n, todo |-> todo] # None
  BY NoneAssumption

\* No thread goes astray when no callback subscribes.
LEMMA NextStill ==
  ASSUME \A s \in Subs : Resubscribe[s] = {}, BrokerInv, astray = {}, [Next]_vars
  PROVE  /\ \A t \in Threads, n \in Names : ~SubscribeNested(t, n)
         /\ astray' = {}
<1>1. ASSUME NEW t \in Threads, NEW n \in Names, SubscribeNested(t, n) PROVE FALSE
  <2>1. At(t, "callback") /\ n \in Resubscribe[Top(t).sub]
    BY <1>1 DEF SubscribeNested
  <2>2. Top(t).sub \in Subs
    BY <2>1, TopReady DEF Ready, Calling, BrokerInv
  <2> QED
    BY <2>1, <2>2
<1>2. ASSUME NEW t \in Threads, Finish(t) PROVE astray' = {}
  BY <1>2 DEF Finish
<1>3. ASSUME NEW t \in Threads, NEW n \in Names, Publish(t, n) \/ PublishNested(t, n) PROVE astray' = {}
  BY <1>3 DEF Publish, PublishNested
<1>4. ASSUME NEW t \in Threads, NEW n \in Names, NEW x \in Subs,
             CallSubscribe(t, n, x) \/ CallUnsubscribe(t, n, x)
      PROVE  astray' = {}
  BY <1>4 DEF CallSubscribe, CallUnsubscribe
<1>5. ASSUME NEW t \in Threads, Work(t) \/ Take(t) PROVE astray' = {}
  <2>1. CASE Finish(t)
    BY <1>2, <2>1
  <2>2. CASE ~Finish(t)
    BY <1>5, <2>2 DEF Work, Identify, Scan, Deliver, CallbackReturns, GenerateToken, Register, Take,
                      Lock, Subscribe, SubscribeNew, Unsubscribe
  <2> QED
    BY <2>1, <2>2
<1>6. ASSUME UNCHANGED vars PROVE astray' = {}
  BY <1>6 DEF vars
<1>7. ASSUME Next PROVE astray' = {}
  BY <1>1, <1>3, <1>4, <1>5, <1>7 DEF Next
<1>8. \A t \in Threads, n \in Names : ~SubscribeNested(t, n)
  BY <1>1
<1>9. astray' = {}
  BY <1>6, <1>7
<1> QED
  BY <1>8, <1>9

LEMMA NextDelivers ==
  ASSUME \A s \in Subs : Republish[s] = {} /\ Resubscribe[s] = {},
         astray = {}, BrokerInv, WalkInv, QuietInv, [Next]_vars
  PROVE  QuietInv' /\ [P!Next]_(P!vars) /\ astray' = {}
<1> USE DEF P!vars
<1> DEFINE names == DOMAIN heap
<1>b. astray' = {} /\ \A t \in Threads, n \in Names : ~SubscribeNested(t, n)
  BY NextStill
<1>a. LockInv /\ DataInv /\ CallsInv
  BY DEF BrokerInv
<1>0. /\ topics \in Unique(Names) /\ names = Items(topics) /\ names \subseteq Names
      /\ heap \in [names -> [id : Id, subs : Unique(Subs)]]
      /\ \A n \in names : heap[n].subs \in Unique(Subs)
  <2>1. heap \in [names -> [id : Id, subs : Unique(Subs)]]
    BY <1>a DEF DataInv
  <2>2. \A n \in names : heap[n].subs \in Unique(Subs)
    BY <2>1
  <2> QED
    BY <1>a, <2>1, <2>2, ListFacts DEF DataInv
<1>1. ASSUME NEW t \in Threads, NEW pc \in {"identify", "subscribe", "unsubscribe"},
             NEW n, NEW x, Idle(t), Enter(t, NewCall(pc, n, x)), topics' = topics, heap' = heap
      PROVE  QuietInv' /\ UNCHANGED P!vars
  <2> DEFINE f == NewCall(pc, n, x)
  <2>1. calls' = [calls EXCEPT ![t] = <<f>>]
    BY <1>1 DEF Enter, Idle
  <2>2. f.pc \notin AtWork
    BY DEF NewCall, AtWork
  <2>3. ~Busy(calls[t])
    BY <1>1 DEF Idle, Busy
  <2> HIDE DEF f
  <2> QED
    BY <1>a, <1>1, <2>1, <2>2, <2>3, Elsewhere
<1>2. ASSUME NEW t \in Threads, NEW n \in Names, PublishNested(t, n) PROVE FALSE
  <2>1. At(t, "callback") /\ Republish[Top(t).sub] # {}
    BY <1>2 DEF PublishNested
  <2>2. Top(t).sub \in Subs
    BY <1>a, <2>1, TopReady DEF Ready, Calling
  <2> QED
    BY <2>1, <2>2
<1>3. ASSUME NEW t \in Threads, NEW pc \in {"identify", "tokens"}, At(t, pc), NEW g, Step(t, g),
             g.pc \notin AtWork, topics' = topics, heap' = heap
      PROVE  QuietInv' /\ UNCHANGED P!vars
  <2>1. Len(calls[t]) = 1 /\ ~Busy(calls[t])
    BY <1>3 DEF QuietInv, At, Idle, Top, Busy, AtWork
  <2>2. Front(calls[t]) = <<>>
    BY <2>1 DEF Front
  <2>3. calls' = [calls EXCEPT ![t] = <<g>>]
    BY <1>3, <2>2 DEF Step
  <2> QED
    BY <1>a, <1>3, <2>1, <2>3, Elsewhere
<1>4. ASSUME NEW t \in Threads, Identify(t) PROVE QuietInv' /\ UNCHANGED P!vars
  <2> DEFINE f == Top(t)
             g == [f EXCEPT !.id[f.level] = Level(provider, f.name, f.level)]
  <2>1. /\ At(t, "identify") /\ topics' = topics /\ heap' = heap
        /\ f.level = MaxLevel => Step(t, [g EXCEPT !.pc = "lock", !.level = 1])
        /\ f.level # MaxLevel => Step(t, [g EXCEPT !.level = @ + 1])
    BY <1>4 DEF Identify
  <2>2. f.pc = "identify" /\ f \in Frame
    BY <1>a, <2>1, TopReady
  <2> HIDE DEF f
  <2>3. PICK h : Step(t, h) /\ h.pc \in {"identify", "lock"}
    <3>1. "pc" \in DOMAIN g /\ g.pc = "identify"
      BY <2>2 DEF Frame
    <3> HIDE DEF g
    <3>2. [g EXCEPT !.pc = "lock", !.level = 1].pc = "lock" /\ [g EXCEPT !.level = @ + 1].pc = "identify"
      BY <3>1
    <3> QED
      BY <2>1, <3>2
  <2> QED
    BY <1>3, <2>1, <2>3 DEF AtWork
<1>5. ASSUME NEW t \in Threads, Lock(t) PROVE QuietInv' /\ P!Next
  <2> DEFINE f == Top(t)
             g == [f EXCEPT !.pc = "scan", !.topic = Current(topics')]
             todo == AheadOf(g, FirstItem(topics), heap)
  <2>1. /\ At(t, "lock") /\ Free(t) /\ heap' = heap
        /\ topics' = FirstItem(topics) /\ Step(t, g)
    BY <1>5 DEF Lock
  <2>2. f \in Ready(names, provider) /\ f.pc = "lock" /\ f \in Frame
    BY <1>a, <2>1, TopReady
  <2> HIDE DEF f
  <2>3. g.pc = "scan" /\ g.id = f.id /\ g.name = f.name
    BY <2>2 DEF Frame
  <2> HIDE DEF g
  <2>4. Placed(g, topics', heap')
    BY <2>3 DEF Placed, Calling
  <2>5. QuietInv' /\ Delivering' = [name |-> f.name, todo |-> todo]
    BY <1>a, <2>1, <2>3, <2>4, TurnSteps DEF AtWork
  <2>6. Delivering = None
    BY <1>a, <2>1, Turn DEF AtWork
  <2>7. todo \in SUBSET Subscribed
    BY <2>3, AheadFacts, StateFunctions
  <2>8. ASSUME NEW x \in Subscribed,
               <<x[1], f.name>> \in {y \in Names \X Names : Supported(y[1]) /\ Plain(y[2]) /\ Matches(y[1], y[2])}
        PROVE  x \in todo
    BY <1>a, <2>2, <2>3, <2>8, AllAhead, StateFunctions
  <2>9. Subscribed' = Subscribed
    BY <2>1, StateFunctions
  <2> HIDE DEF todo
  <2>10. P!Publish(f.name)
    BY <2>5, <2>6, <2>7, <2>8, <2>9 DEF P!Publish
  <2>11. f.name \in Names
    BY <2>2 DEF Frame
  <2> QED
    BY <2>5, <2>10, <2>11 DEF P!Next
<1>6. ASSUME NEW t \in Threads, Scan(t) PROVE QuietInv' /\ UNCHANGED P!vars
  <2> DEFINE f == Top(t)
  <2>1. At(t, "scan") /\ f.topic # None
    BY <1>6 DEF Scan
  <2>2. f \in Ready(names, provider) /\ f.pc = "scan" /\ f \in Frame
    BY <1>a, <2>1, TopReady
  <2>3. f.topic \in names /\ heap[f.topic].subs \in Unique(Subs)
    BY <1>0, <2>1, <2>2 DEF Ready
  <2>4. AtTopics(f, topics)
    BY <1>a, <2>1, TopWalk
  <2>5. topics.pos > 0 /\ topics.items[topics.pos] = f.topic
    BY <1>0, <2>1, <2>2, <2>4, ListFacts DEF AtTopics, Current
  <2>6. Delivering = [name |-> f.name, todo |-> AheadOf(f, topics, heap)]
    BY <1>a, <2>1, Turn DEF AtWork, Locked
  <2>7. CASE /\ MatchIds(heap[f.topic].id, f.id) /\ heap[f.topic].subs.items # <<>>
             /\ heap' = [heap EXCEPT ![f.topic].subs = FirstItem(@)]
             /\ Step(t, [f EXCEPT !.pc = "deliver", !.sub = Current(heap'[f.topic].subs)])
             /\ topics' = topics
    <3> DEFINE g == [f EXCEPT !.pc = "deliver", !.sub = Current(heap'[f.topic].subs)]
    <3>1. Step(t, g)
      BY <2>7
    <3>2. heap'[f.topic].subs = FirstItem(heap[f.topic].subs) /\ heap'[f.topic].id = heap[f.topic].id
          /\ FirstItem(heap[f.topic].subs).pos = 1
      <4>1. heap[f.topic] \in [id : Id, subs : Unique(Subs)]
        BY <1>0, <2>3
      <4> QED
        BY <1>0, <2>3, <2>7, <4>1, FirstFacts
    <3> HIDE DEF f
    <3>3. g.pc = "deliver" /\ g.id = f.id /\ g.name = f.name /\ g.topic = f.topic
          /\ g.sub = Current(heap'[f.topic].subs)
      BY <2>2 DEF Frame
    <3> HIDE DEF g
    <3>4. Placed(g, topics', heap')
      BY <2>5, <2>7, <3>2, <3>3 DEF Placed
    <3>5. QuietInv' /\ Delivering' = [name |-> f.name, todo |-> AheadOf(g, topics, heap')]
      BY <1>a, <2>1, <2>7, <3>1, <3>3, <3>4, TurnSteps DEF AtWork, Locked
    <3>6. AheadOf(g, topics, heap') = AheadOf(f, topics, heap) /\ SubscribedOf(heap') = SubscribedOf(heap)
      BY <1>a, <1>0, <2>2, <2>3, <2>5, <2>7, <3>3, TopicEntered
    <3> QED
      BY <2>6, <3>5, <3>6, StateFunctions
  <2>8. CASE /\ ~(MatchIds(heap[f.topic].id, f.id) /\ heap[f.topic].subs.items # <<>>)
             /\ topics' = NextItem(topics) /\ Step(t, [f EXCEPT !.topic = Current(topics')])
             /\ heap' = heap
    <3> DEFINE g == [f EXCEPT !.topic = Current(topics')]
    <3>1. Step(t, g)
      BY <2>8
    <3>2. ~MatchIds(heap[f.topic].id, f.id) \/ Items(heap[f.topic].subs) = {}
      BY <2>3, <2>8, ListFacts
    <3> HIDE DEF f
    <3>3. g.pc = "scan" /\ g.id = f.id /\ g.name = f.name
      BY <2>2 DEF Frame
    <3> HIDE DEF g
    <3>4. Placed(g, topics', heap')
      BY <3>3 DEF Placed, Calling
    <3>5. QuietInv' /\ Delivering' = [name |-> f.name, todo |-> AheadOf(g, topics', heap')]
      BY <1>a, <2>1, <3>1, <3>3, <3>4, TurnSteps DEF AtWork, Locked
    <3>6. AheadOf(g, topics', heap') = AheadOf(f, topics, heap)
      BY <1>0, <2>2, <2>5, <2>8, <3>2, <3>3, TopicSkipped
    <3> QED
      BY <2>6, <2>8, <3>5, <3>6, StateFunctions
  <2> QED
    BY <1>6, <2>7, <2>8 DEF Scan
<1>7. ASSUME NEW t \in Threads, Deliver(t) PROVE QuietInv' /\ P!Next
  <2> DEFINE f == Top(t)
             g == [f EXCEPT !.pc = "callback", !.got = @ \cup {<<f.topic, f.sub>>}]
             l == heap[f.topic].subs
             todo == AheadOf(f, topics, heap)
  <2>1. At(t, "deliver") /\ topics' = topics /\ heap' = heap /\ Step(t, g)
    BY <1>7 DEF Deliver
  <2>2. f \in Ready(names, provider) /\ f.pc = "deliver" /\ f \in Frame
    BY <1>a, <2>1, TopReady
  <2>3. f.topic \in names /\ f.sub \in Subs /\ l \in Unique(Subs)
    BY <1>0, <2>2 DEF Ready, Calling
  <2>4. Placed(f, topics, heap) /\ Delivering = [name |-> f.name, todo |-> todo]
    BY <1>a, <2>1, Turn DEF AtWork, Locked
  <2>5. l.pos > 0 /\ f.sub = l.items[l.pos]
    BY <2>2, <2>4, ListFacts DEF Placed, Calling, Current
  <2> HIDE DEF f
  <2>6. g.pc = "callback" /\ g.id = f.id /\ g.name = f.name /\ g.topic = f.topic /\ g.sub = f.sub
    BY <2>2 DEF Frame
  <2> HIDE DEF g
  <2>7. Placed(g, topics', heap')
    BY <2>1, <2>2, <2>4, <2>6 DEF Placed, Calling
  <2>8. QuietInv' /\ Delivering' = [name |-> f.name, todo |-> AheadOf(g, topics, heap)]
    BY <1>a, <2>1, <2>6, <2>7, TurnSteps DEF AtWork, Locked
  <2>9. <<f.topic, f.sub>> \in todo /\ AheadOf(g, topics, heap) = todo \ {<<f.topic, f.sub>>}
    BY <2>2, <2>3, <2>5, <2>6, OneCalled
  <2>10. Subscribed' = Subscribed
    BY <2>1, StateFunctions
  <2>11. f.name \in Names /\ f.topic \in Names
    BY <1>0, <2>2, <2>3 DEF Frame
  <2>12. todo \in SUBSET (Names \X Subs)
    <3>1. todo = {x \in SubscribedOf(heap) : x[1] \in FromCursor(topics) \ {f.topic} /\ MatchIds(heap[x[1]].id, f.id)}
                   \cup {f.topic} \X FromCursor(l)
      BY <2>2, AheadFacts
    <3>2. FromCursor(l) \subseteq Subs
      BY <2>3, FromCursorFacts, ListFacts
    <3>3. SubscribedOf(heap) \subseteq Names \X Subs
      BY <1>0 DEF SubscribedOf
    <3> HIDE DEF todo, l
    <3> QED
      BY <2>11, <3>1, <3>2, <3>3
  <2> HIDE DEF todo
  <2>13. Delivering # None
    BY <2>4, <2>11, <2>12, DeliveringSome
  <2>14. Delivering' = [Delivering EXCEPT !.todo = @ \ {<<f.topic, f.sub>>}] /\ Delivering.todo = todo
    BY <2>4, <2>6, <2>8, <2>9
  <2>15. P!Deliver(<<f.topic, f.sub>>)
    BY <2>9, <2>10, <2>13, <2>14 DEF P!Deliver
  <2> QED
    BY <2>3, <2>8, <2>11, <2>15 DEF P!Next
<1>8. ASSUME NEW t \in Threads, CallbackReturns(t) PROVE QuietInv' /\ UNCHANGED P!vars
  <2> DEFINE f == Top(t)
             l == NextItem(heap[f.topic].subs)
  <2>1. PICK pc \in {"callback", "called"} : At(t, pc)
    BY <1>8 DEF CallbackReturns
  <2>2. f \in Ready(names, provider) /\ f.pc = pc /\ f \in Frame
    BY <1>a, <2>1, TopReady
  <2>3. f.topic \in names
    BY <1>0, <2>2 DEF Ready, Calling
  <2>4. /\ AtTopics(f, topics) /\ Placed(f, topics, heap)
        /\ Delivering = [name |-> f.name, todo |-> AheadOf(f, topics, heap)]
    BY <1>a, <2>1, TopWalk, Turn DEF AtWork, Locked
  <2>5. topics.pos > 0 /\ topics.items[topics.pos] = f.topic /\ MatchIds(heap[f.topic].id, f.id)
    BY <2>1, <2>2, <2>4 DEF AtTopics, Placed, Calling
  <2>6. heap' = [heap EXCEPT ![f.topic].subs = NextItem(@)]
    BY <1>8 DEF CallbackReturns
  <2>7. heap'[f.topic].subs = l /\ heap'[f.topic].id = heap[f.topic].id
        /\ l.pos \in Nat
    <3>1. heap[f.topic] \in [id : Id, subs : Unique(Subs)]
      BY <1>0, <2>3
    <3> QED
      BY <1>0, <2>3, <2>6, <3>1, NextFacts, ListFacts
  <2>8. CASE l.pos # 0 /\ Step(t, [f EXCEPT !.pc = "deliver", !.sub = Current(l)]) /\ topics' = topics
    <3> DEFINE g == [f EXCEPT !.pc = "deliver", !.sub = Current(l)]
    <3>1. Step(t, g)
      BY <2>8
    <3> HIDE DEF f, l
    <3>2. g.pc = "deliver" /\ g.id = f.id /\ g.name = f.name /\ g.topic = f.topic
          /\ g.sub = Current(l)
      BY <2>2 DEF Frame
    <3> HIDE DEF g
    <3>3. Placed(g, topics', heap')
      BY <2>5, <2>7, <2>8, <3>2 DEF Placed
    <3>4. QuietInv' /\ Delivering' = [name |-> f.name, todo |-> AheadOf(g, topics, heap')]
      BY <1>a, <2>1, <2>8, <3>1, <3>2, <3>3, TurnSteps DEF AtWork, Locked
    <3>5. AheadOf(g, topics, heap') = AheadOf(f, topics, heap) /\ SubscribedOf(heap') = SubscribedOf(heap)
      BY <1>a, <2>1, <2>2, <2>3, <2>6, <3>2, NextCalled
    <3> QED
      BY <2>4, <3>4, <3>5, StateFunctions
  <2>9. CASE /\ l.pos = 0 /\ topics' = NextItem(topics)
             /\ Step(t, [f EXCEPT !.pc = "scan", !.sub = None, !.topic = Current(topics')])
    <3> DEFINE g == [f EXCEPT !.pc = "scan", !.sub = None, !.topic = Current(topics')]
    <3>1. Step(t, g) /\ NextItem(heap[f.topic].subs).pos = 0
      BY <2>9
    <3> HIDE DEF f, l
    <3>2. g.pc = "scan" /\ g.id = f.id /\ g.name = f.name
      BY <2>2 DEF Frame
    <3> HIDE DEF g
    <3>3. Placed(g, topics', heap')
      BY <3>2 DEF Placed, Calling
    <3>4. QuietInv' /\ Delivering' = [name |-> f.name, todo |-> AheadOf(g, topics', heap')]
      BY <1>a, <2>1, <3>1, <3>2, <3>3, TurnSteps DEF AtWork, Locked
    <3>5. AheadOf(g, topics', heap') = AheadOf(f, topics, heap) /\ SubscribedOf(heap') = SubscribedOf(heap)
      BY <1>a, <1>0, <2>1, <2>2, <2>3, <2>5, <2>6, <2>9, <3>1, <3>2, TopicLeft
    <3> QED
      BY <2>4, <3>4, <3>5, StateFunctions
  <2> QED
    BY <1>8, <2>8, <2>9 DEF CallbackReturns
<1>9. ASSUME NEW t \in Threads, Finish(t) PROVE QuietInv' /\ P!Next
  <2> DEFINE f == Top(t)
             todo == AheadOf(f, topics, heap)
  <2>1. At(t, "scan") /\ f.topic = None /\ Leave(t) /\ topics' = topics /\ heap' = heap
    BY <1>9 DEF Finish
  <2>2. f.pc = "scan" /\ f \in Frame
    BY <1>a, <2>1, TopReady
  <2>3. AtTopics(f, topics) /\ Delivering = [name |-> f.name, todo |-> todo]
    BY <1>a, <2>1, TopWalk, Turn DEF AtWork, Locked
  <2>4. FromCursor(topics) = {}
    <3>1. Current(topics) = None
      BY <2>1, <2>2, <2>3 DEF AtTopics
    <3>2. topics.pos = 0
      BY <1>0, <3>1, CurrentFacts, NoneAssumption
    <3> QED
      BY <1>0, <3>2, FromCursorFacts
  <2>5. todo = {}
    BY <2>2, <2>4, AheadFacts
  <2>6. QuietInv' /\ Delivering' = None
    BY <1>a, <2>1, TurnLeaves DEF Locked
  <2>7. Subscribed' = Subscribed
    BY <2>1, StateFunctions
  <2>8. f.name \in Names
    BY <2>2 DEF Frame
  <2> HIDE DEF f, todo
  <2>9. Delivering # None
    BY <2>3, <2>5, <2>8, DeliveringSome
  <2>10. P!End
    BY <2>3, <2>5, <2>6, <2>7, <2>9 DEF P!End
  <2> QED
    BY <2>6, <2>10 DEF P!Next
<1>10. ASSUME NEW t \in Threads, Subscribe(t) PROVE QuietInv' /\ P!Next
  <2> DEFINE f == Top(t)
             n == f.name
             m == heap[n].subs
             found == SearchItem(m, f.sub)
             l == IF found.pos = 0 THEN AddItem(found, f.sub) ELSE found
  <2>1. /\ At(t, "subscribe") /\ Free(t) /\ Leave(t)
        /\ n \in names /\ heap' = [heap EXCEPT ![n].subs = l]
    BY <1>10 DEF Subscribe
  <2>2. f.sub \in Subs /\ n \in Names /\ m \in Unique(Subs)
    BY <1>a, <1>0, <2>1, TopReady DEF Ready, Requests, Frame
  <2>3. Items(l) = Items(m) \cup {f.sub} /\ Items(m) \subseteq Subs
    <3>1. found \in Unique(Subs) /\ Items(found) = Items(m) /\ (found.pos = 0 <=> f.sub \notin Items(m))
      BY <2>2, SearchFacts
    <3> HIDE DEF found
    <3> QED
      BY <2>2, <3>1, AddFacts, ListFacts
  <2>4. QuietInv' /\ Delivering' = None /\ Delivering = None
    BY <1>a, <2>1, TurnLeaves, Turn DEF AtWork
  <2> HIDE DEF l, m
  <2>5. Items(l) \subseteq Subs
    BY <2>2, <2>3
  <2>6. /\ Subscribed' = {y \in Subscribed : y[1] # n} \cup {n} \X Items(l)
        /\ Subscribed = {y \in Subscribed : y[1] # n} \cup {n} \X Items(m)
    BY <1>a, <2>1, <2>5, SubscriptionsChange, StateFunctions DEF m
  <2>7. {n} \X Items(l) = ({n} \X Items(m)) \cup {<<n, f.sub>>}
    BY <2>3
  <2>8. P!Subscribe(n, f.sub)
    BY <2>4, <2>6, <2>7 DEF P!Subscribe
  <2> QED
    BY <2>2, <2>4, <2>8 DEF P!Next
<1>11. ASSUME NEW t \in Threads, SubscribeNew(t) PROVE QuietInv' /\ UNCHANGED P!vars
  <2> DEFINE f == Top(t)
             g == [f EXCEPT !.pc = "tokens"]
  <2>1. At(t, "subscribe") /\ Free(t) /\ heap' = heap /\ Step(t, g)
    BY <1>11 DEF SubscribeNew
  <2>2. f \in Frame
    BY <1>a, <2>1, TopReady
  <2> HIDE DEF f
  <2>3. g.pc = "tokens"
    BY <2>2 DEF Frame
  <2> HIDE DEF g
  <2>4. Placed(g, topics', heap')
    BY <2>3 DEF Placed, Calling
  <2>5. QuietInv' /\ Delivering' = None /\ Delivering = None
    BY <1>a, <2>1, <2>3, <2>4, Turn, TurnSteps DEF AtWork
  <2> QED
    BY <2>1, <2>5, StateFunctions
<1>12. ASSUME NEW t \in Threads, GenerateToken(t) PROVE QuietInv' /\ UNCHANGED P!vars
  <2> DEFINE f == Top(t)
             g == [f EXCEPT !.level = @ + 1]
  <2>1. At(t, "tokens") /\ topics' = topics /\ heap' = heap /\ Step(t, g)
    BY <1>12 DEF GenerateToken
  <2>2. f \in Frame /\ f.pc = "tokens"
    BY <1>a, <2>1, TopReady
  <2> HIDE DEF f
  <2>3. g.pc = "tokens"
    BY <2>2 DEF Frame
  <2> QED
    BY <1>3, <2>1, <2>3 DEF AtWork
<1>13. ASSUME NEW t \in Threads, Register(t) PROVE QuietInv' /\ [P!Next]_(P!vars)
  <2> DEFINE f == Top(t)
             n == f.name
             l == AddItem(EmptyList, f.sub)
  <2>1. At(t, "tokens") /\ Leave(t)
    BY <1>13 DEF Register
  <2>2. f.sub \in Subs /\ n \in Names /\ n \notin names
    BY <1>a, <2>1, TopReady DEF Ready, Requests, Frame
  <2>3. QuietInv' /\ Delivering' = None /\ Delivering = None
    BY <1>a, <2>1, TurnLeaves, Turn DEF AtWork, Locked
  <2>4. CASE heap' = heap
    BY <2>3, <2>4, StateFunctions
  <2>5. CASE heap' = [k \in names \cup {n} |->
                        IF k \in names THEN heap[k]
                        ELSE [id |-> CreateTopicId(provider, k), subs |-> AddItem(EmptyList, f.sub)]]
    <3>1. Items(l) = {f.sub}
      <4>1. EmptyList \in Unique(Subs) /\ Items(EmptyList) = {}
        BY DEF EmptyList, Unique, Lists, NoDup, Items
      <4> QED
        BY <2>2, <4>1, AddFacts
    <3>2. DOMAIN heap' = names \cup {n} /\ heap'[n].subs = l /\ \A k \in names : heap'[k] = heap[k]
      BY <2>2, <2>5
    <3> HIDE DEF l
    <3>3. SubscribedOf(heap') = SubscribedOf(heap) \cup {<<n, f.sub>>}
      <4>1. ASSUME NEW x \in SubscribedOf(heap') PROVE x \in SubscribedOf(heap) \cup {<<n, f.sub>>}
        BY <2>2, <3>1, <3>2 DEF SubscribedOf
      <4>2. ASSUME NEW x \in SubscribedOf(heap) PROVE x \in SubscribedOf(heap')
        BY <2>2, <3>2 DEF SubscribedOf
      <4>3. <<n, f.sub>> \in SubscribedOf(heap')
        BY <2>2, <3>1, <3>2 DEF SubscribedOf
      <4> QED
        BY <4>1, <4>2, <4>3
    <3>4. P!Subscribe(n, f.sub)
      BY <2>3, <3>3, StateFunctions DEF P!Subscribe
    <3> QED
      BY <2>2, <2>3, <3>4 DEF P!Next
  <2> QED
    BY <1>13, <2>4, <2>5 DEF Register
<1>14. ASSUME NEW t \in Threads, Unsubscribe(t) PROVE QuietInv' /\ [P!Next]_(P!vars)
  <2> DEFINE f == Top(t)
             n == f.name
             s == f.sub
             m == heap[n].subs
             found == SearchItem(topics, n)
             l == SearchItem(m, s)
  <2>1. At(t, "unsubscribe") /\ Free(t) /\ Leave(t)
    BY <1>14 DEF Unsubscribe
  <2>2. s \in Subs /\ n \in Names
    BY <1>a, <2>1, TopReady DEF Ready, Requests, Frame
  <2>3. QuietInv' /\ Delivering' = None /\ Delivering = None
    BY <1>a, <2>1, TurnLeaves, Turn DEF AtWork
  <2>4. found.pos = 0 <=> n \notin names
    BY <1>0, SearchFacts
  <2>5. ASSUME n \in names
        PROVE  /\ m \in Unique(Subs) /\ l \in Unique(Subs) /\ Items(l) = Items(m) /\ Items(m) \subseteq Subs
               /\ l.pos = 0 <=> s \notin Items(m)
    <3>1. m \in Unique(Subs)
      BY <1>0, <2>5
    <3> HIDE DEF m
    <3> QED
      BY <3>1, SearchFacts, ListFacts
  <2>6. ASSUME Subscribed' = Subscribed \ {<<n, s>>} PROVE P!Next
    <3>1. P!Unsubscribe(n, s)
      BY <2>3, <2>6 DEF P!Unsubscribe
    <3> QED
      BY <2>2, <3>1 DEF P!Next
  <2>7. CASE heap' = heap
    BY <2>3, <2>7, StateFunctions
  <2>8. CASE n \in names /\ heap' = [heap EXCEPT ![n].subs = l]
    <3>1. SubscribedOf(heap') = SubscribedOf(heap)
      BY <1>a, <2>5, <2>8, SubscriptionsStay
    <3> QED
      BY <2>3, <3>1, StateFunctions
  <2>9. CASE n \in names /\ l.pos # 0 /\ heap' = [heap EXCEPT ![n].subs = RemoveItem(l, s)]
    <3> DEFINE r == RemoveItem(l, s)
    <3>1. s \in Items(m) /\ Items(r) = Items(m) \ {s} /\ Items(m) \subseteq Subs
      BY <2>5, <2>9, RemoveFacts
    <3>2. heap' = [heap EXCEPT ![n].subs = r]
      BY <2>9
    <3> HIDE DEF r
    <3>3. Items(r) \subseteq Subs
      BY <3>1
    <3>4. /\ Subscribed' = {y \in Subscribed : y[1] # n} \cup {n} \X Items(r)
          /\ Subscribed = {y \in Subscribed : y[1] # n} \cup {n} \X Items(m)
      BY <1>a, <2>9, <3>2, <3>3, SubscriptionsChange, StateFunctions
    <3>5. {n} \X Items(r) = ({n} \X Items(m)) \ {<<n, s>>}
      BY <3>1
    <3> HIDE DEF m, n, s
    <3>6. Subscribed' = Subscribed \ {<<n, s>>}
      BY <3>4, <3>5
    <3> QED
      BY <2>3, <2>6, <3>6
  <2>10. CASE /\ n \in names /\ l.pos # 0 /\ ~(Len(l.items) > 1)
              /\ heap' = [k \in names \ {n} |-> heap[k]]
    <3>1. Items(m) = {s}
      <4>1. s \in Items(l) /\ Items(l) = Items(m) /\ Len(l.items) \in Nat /\ DOMAIN l.items = 1 .. Len(l.items)
        BY <2>5, <2>10, ListFacts
      <4> HIDE DEF l
      <4>2. \A i, j \in DOMAIN l.items : i = j
        BY <2>10, <4>1
      <4> QED
        BY <4>1, <4>2 DEF Items
    <3>2. DOMAIN heap' = names \ {n} /\ \A k \in DOMAIN heap' : heap'[k] = heap[k]
      BY <2>10
    <3>3. SubscribedOf(heap') = SubscribedOf(heap) \ {<<n, s>>}
      <4>1. ASSUME NEW x \in SubscribedOf(heap') PROVE x \in SubscribedOf(heap) \ {<<n, s>>}
        BY <3>2 DEF SubscribedOf
      <4>2. ASSUME NEW x \in SubscribedOf(heap) \ {<<n, s>>} PROVE x \in SubscribedOf(heap')
        <5>1. x \in names \X Subs /\ x[2] \in Items(heap[x[1]].subs) /\ x # <<n, s>>
          BY DEF SubscribedOf
        <5>2. x[1] # n
          BY <3>1, <5>1
        <5> QED
          BY <3>2, <5>1, <5>2 DEF SubscribedOf
      <4> QED
        BY <4>1, <4>2
    <3> QED
      BY <2>3, <2>6, <3>3, StateFunctions
  <2> QED
    BY <1>14, <2>4, <2>7, <2>8, <2>9, <2>10 DEF Unsubscribe
<1>15. ASSUME NEW t \in Threads, NEW n \in Names, Publish(t, n) PROVE QuietInv' /\ UNCHANGED P!vars
  BY <1>1, <1>15 DEF Publish
<1>16. ASSUME NEW t \in Threads, NEW n \in Names, NEW x \in Subs,
              CallSubscribe(t, n, x) \/ CallUnsubscribe(t, n, x)
       PROVE  QuietInv' /\ UNCHANGED P!vars
  BY <1>1, <1>16 DEF CallSubscribe, CallUnsubscribe
<1>17. CASE UNCHANGED vars
  <2>1. QuietInv'
    BY <1>17 DEF vars, QuietInv
  <2>2. SubscribedOf(heap') = SubscribedOf(heap)
        /\ DeliveringOf(calls', topics', heap') = DeliveringOf(calls, topics, heap)
    BY <1>17 DEF vars
  <2> QED
    BY <1>b, <2>1, <2>2, StateFunctions
<1> QED
  BY <1>b, <1>2, <1>4, <1>5, <1>6, <1>7, <1>8, <1>9, <1>10, <1>11, <1>12, <1>13, <1>14, <1>15, <1>16,
     <1>17 DEF Next, Work, Take

\* As long as callbacks do not call it, the broker implements PubSub: every
\* publication reaches each subscription that it is to reach exactly once, and
\* no subscription comes or goes in the middle of one, whatever topics and texts
\* the threads register while identifiers are computed without the lock.
THEOREM Implements ==
  ASSUME \A s \in Subs : Republish[s] = {} /\ Resubscribe[s] = {}
  PROVE  Spec => Delivery
<1> DEFINE Still == astray = {}
<1>1. Init => QuietInv /\ Still
  BY DEF Init, QuietInv
<1>2. Init => P!Init
  <2> SUFFICES ASSUME Init PROVE P!Init
    OBVIOUS
  <2>1. SubscribedOf(heap) = {}
    BY DEF Init, SubscribedOf
  <2>2. DeliveringOf(calls, topics, heap) = None
    BY NobodyDelivers DEF Init, Busy
  <2> QED
    BY <2>1, <2>2, StateFunctions DEF P!Init
<1>3. BrokerInv /\ WalkInv /\ QuietInv /\ Still /\ [Next]_vars
        => QuietInv' /\ Still' /\ [P!Next]_(P!vars)
  BY NextDelivers
<1> HIDE DEF Still
<1> QED
  BY <1>1, <1>2, <1>3, BrokerInvariant, WalkInvariant, PTL DEF Spec, Delivery, P!Spec
=============================================================================
