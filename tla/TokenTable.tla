----------------------------- MODULE TokenTable -----------------------------
(***************************************************************************)
(* The identifiers of the registered topics over the life of the broker.   *)
(* An identifier is computed once, when a topic is created, and compared   *)
(* with those of names published much later, when the token provider has   *)
(* grown; topics are removed and created anew, their texts stay.           *)
(***************************************************************************)
EXTENDS TopicId

CONSTANT Names  \* the names that are subscribed to and published

ASSUME NamesAssumption == Names \subseteq Name

VARIABLES provider,  \* _token_provider
          topics,    \* name |-> id of every topic of _topic_list
          name,      \* the name being registered
          level      \* its next level; 0 if nothing is being registered

vars == <<provider, topics, name, level>>

TypeOK ==
  /\ provider \in Seq(Text)
  /\ DOMAIN topics \subseteq Names
  /\ topics \in [DOMAIN topics -> [1 .. MaxLevel -> Nat]]
  /\ name \in Names \cup {<<>>}
  /\ level \in 0 .. Len(name) + 1

Init ==
  /\ provider = <<>>
  /\ topics = [n \in {} |-> <<>>]
  /\ name = <<>>
  /\ level = 0

\* subscribeReq of a name that has no topic yet.  The lock keeps every other
\* registration away until the topic exists, but not the publishers: they look
\* the provider up while it grows.
Begin(n) ==
  /\ level = 0
  /\ n \notin DOMAIN topics
  /\ name' = n
  /\ level' = 1
  /\ UNCHANGED <<provider, topics>>

\* generateTokens, one round of its loop
GenerateToken ==
  /\ level \in 1 .. Len(name)
  /\ provider' = AddToken(provider, name[level])
  /\ level' = level + 1
  /\ UNCHANGED <<topics, name>>

\* createTopicId and addItem
Create ==
  /\ name # <<>>
  /\ level = Len(name) + 1
  /\ topics' = [n \in DOMAIN topics \cup {name} |->
                  IF n = name THEN CreateTopicId(provider, name) ELSE topics[n]]
  /\ name' = <<>>
  /\ level' = 0
  /\ UNCHANGED provider

\* unsubscribeReq of the last subscriber of a topic
Remove(n) ==
  /\ level = 0
  /\ n \in DOMAIN topics
  /\ topics' = [m \in DOMAIN topics \ {n} |-> topics[m]]
  /\ UNCHANGED <<provider, name, level>>

Next == \/ \E n \in Names : Begin(n) \/ Remove(n)
        \/ GenerateToken
        \/ Create

Spec == Init /\ [][Next]_vars
-----------------------------------------------------------------------------
\* The identifier kept with a topic stays the one its name would be given now,
\* although the provider grows and texts that begin with others arrive.
IdStable == \A n \in DOMAIN topics : topics[n] = CreateTopicId(provider, n)

\* A name that is published reaches every topic whose filter means it, as long
\* as the filter has its wildcards at the second level; the levels of the name
\* may be unknown to the provider, or be the beginning of another text.
NoMissedMatch ==
  \A f \in DOMAIN topics, n \in Names :
    Supported(f) /\ Plain(n) /\ Matches(f, n)
       => MatchIds(topics[f], CreateTopicId(provider, n))

\* A text that the provider knows and no earlier entry begins with.
Exact(text) == \E i \in DOMAIN provider :
                 provider[i] = text /\ \A j \in 1 .. i - 1 : ~Begins(provider[j], text)

\* A name that is compared in full, level by level, with numbers of its own.
Distinct(n) ==
  /\ Plain(n) /\ Len(n) <= MaxLevel /\ n[1] \notin Scoped
  /\ \A l \in DOMAIN n : Exact(n[l])

\* Nor does it reach others: between such names, a topic that is reached has
\* the published name as its first levels; it is that name or one below it.
NoFalseMatch ==
  \A f \in {m \in DOMAIN topics : Distinct(m)}, n \in {m \in Names : Distinct(m)} :
    MatchIds(topics[f], CreateTopicId(provider, n))
      => Len(n) <= Len(f) /\ n = SubSeq(f, 1, Len(n))
=============================================================================
