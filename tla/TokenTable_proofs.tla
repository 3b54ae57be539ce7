------------------------- MODULE TokenTable_proofs -------------------------
(***************************************************************************)
(* Identifiers are computed once and compared for ever: they stay valid    *)
(* although the provider grows, whatever the texts and names are.          *)
(***************************************************************************)
EXTENDS TokenTable, WellFoundedInduction, TLAPS

\* A text whose number cannot change any more: some entry begins with it, or it
\* is a wildcard, which is never added to a provider that has entries.
Fixed(p, text) == p # <<>> /\ (text \in Wild \/ Hits(p, text) # {})

\* Adding a text to a provider with entries only appends to it, and never adds
\* a wildcard.
LEMMA AddTokenFacts ==
  ASSUME NEW p \in Seq(Text), NEW text \in Text
  PROVE  /\ AddToken(p, text) \in Seq(Text)
         /\ AddToken(p, text) # <<>>
         /\ AddToken(p, text) = p \/ AddToken(p, text) = Append(p, text)
         /\ p # <<>> /\ text \in Wild => AddToken(p, text) = p
         /\ Fixed(AddToken(p, text), text)
<1>1. CASE p # <<>> /\ (text \in Wild \/ Hits(p, text) # {})
  BY <1>1 DEF AddToken, Fixed
<1>2. CASE ~(p # <<>> /\ (text \in Wild \/ Hits(p, text) # {}))
  <2>1. AddToken(p, text) = Append(p, text)
    BY <1>2 DEF AddToken
  <2>2. Len(p) + 1 \in Hits(Append(p, text), text)
    BY TopicIdAssumption DEF Hits, Begins
  <2> QED
    BY <1>2, <2>1, <2>2 DEF Fixed
<1> QED
  BY <1>1, <1>2

\* Appending a text leaves the first entry that begins with another one first.
LEMMA FirstStable ==
  ASSUME NEW p \in Seq(Text), NEW text \in Text, NEW x \in Text,
         Hits(p, x) # {}, NEW i
  PROVE  IsFirst(Append(p, text), x, i) <=> IsFirst(p, x, i)
<1> DEFINE q == Append(p, text)
<1>1. /\ DOMAIN p = 1 .. Len(p) /\ Len(p) \in Nat
      /\ DOMAIN q = 1 .. Len(p) + 1
      /\ \A j \in DOMAIN p : q[j] = p[j]
  OBVIOUS
<1>2. \A j \in DOMAIN p : j \in Hits(q, x) <=> j \in Hits(p, x)
  BY <1>1 DEF Hits, Begins
<1>3. Hits(p, x) \subseteq DOMAIN p /\ Hits(q, x) \subseteq DOMAIN q
  BY DEF Hits
<1>4. PICK k \in DOMAIN p : k \in Hits(p, x)
  BY <1>3
<1>5. ASSUME IsFirst(q, x, i) PROVE IsFirst(p, x, i)
  <2>1. i \in DOMAIN q /\ i <= k
    BY <1>2, <1>3, <1>4, <1>5 DEF IsFirst
  <2>2. i \in DOMAIN p
    BY <1>1, <1>4, <2>1
  <2> QED
    BY <1>2, <1>3, <1>5, <2>2 DEF IsFirst
<1>6. ASSUME IsFirst(p, x, i) PROVE IsFirst(q, x, i)
  <2>1. i \in DOMAIN p /\ i \in Hits(q, x)
    BY <1>2, <1>3, <1>6 DEF IsFirst
  <2>2. ASSUME NEW j \in Hits(q, x) PROVE i <= j
    <3>1. CASE j \in DOMAIN p
      BY <1>2, <1>6, <3>1 DEF IsFirst
    <3>2. CASE j = Len(p) + 1
      BY <1>1, <2>1, <3>2
    <3> QED
      BY <1>1, <1>3, <3>1, <3>2
  <2> QED
    BY <2>1, <2>2 DEF IsFirst
<1> QED
  BY <1>5, <1>6

\* Hence the number of a fixed text survives one more registered text.
LEMMA TokenStable ==
  ASSUME NEW p \in Seq(Text), NEW text \in Text, NEW x \in Text, Fixed(p, x)
  PROVE  /\ Token(AddToken(p, text), x) = Token(p, x)
         /\ Fixed(AddToken(p, text), x)
<1> DEFINE q == AddToken(p, text)
<1>1. CASE q = p
  BY <1>1
<1>2. CASE q = Append(p, text) /\ q # p
  <2>0. text \notin Wild
    BY <1>2, AddTokenFacts DEF Fixed
  <2>1. DOMAIN p = 1 .. Len(p) /\ DOMAIN q = 1 .. Len(p) + 1 /\ Len(p) \in Nat
        /\ q[Len(p) + 1] = text /\ (\A j \in DOMAIN p : q[j] = p[j])
    BY <1>2
  <2>2. CASE Hits(p, x) # {}
    <3>1. Hits(q, x) # {}
      <4>1. PICK j \in DOMAIN p : Begins(p[j], x)
        BY <2>2 DEF Hits
      <4>2. j \in DOMAIN q /\ q[j] = p[j]
        BY <2>1, <4>1
      <4> QED
        BY <4>1, <4>2 DEF Hits
    <3>2. ASSUME NEW i
          PROVE  i \in DOMAIN q /\ IsFirst(q, x, i) <=> i \in DOMAIN p /\ IsFirst(p, x, i)
      <4>1. IsFirst(q, x, i) <=> IsFirst(p, x, i)
        BY <1>2, <2>2, FirstStable
      <4>2. IsFirst(p, x, i) => i \in DOMAIN p
        BY DEF IsFirst, Hits
      <4> QED
        BY <2>1, <4>1, <4>2
    <3>3. First(q, x) = First(p, x)
      BY <3>2, Zenon DEF First
    <3>4. Token(q, x) = Token(p, x)
      BY <2>2, <3>1, <3>3 DEF Token
    <3>5. q # <<>>
      BY AddTokenFacts
    <3> QED
      BY <3>1, <3>4, <3>5 DEF Fixed
  <2>3. CASE Hits(p, x) = {}
    <3>1. x \in Wild
      BY <2>3 DEF Fixed
    <3>2. <<x, text>> \notin Prefix
      BY <2>0, <3>1, TopicIdAssumption
    <3>3. Hits(q, x) = {}
      BY <2>1, <2>3, <3>2 DEF Hits, Begins
    <3> QED
      BY <2>3, <3>1, <3>3, AddTokenFacts DEF Token, Fixed
  <2> QED
    BY <2>2, <2>3
<1> QED
  BY <1>1, <1>2, AddTokenFacts

\* And so does the identifier of a name all of whose levels are fixed.
LEMMA IdPreserved ==
  ASSUME NEW p \in Seq(Text), NEW text \in Text, NEW n \in Names,
         \A l \in DOMAIN n : Fixed(p, n[l])
  PROVE  /\ CreateTopicId(AddToken(p, text), n) = CreateTopicId(p, n)
         /\ \A l \in DOMAIN n : Fixed(AddToken(p, text), n[l])
<1>1. n \in Seq(Text) /\ Len(n) \in 1 .. MaxLevel + 1 /\ DOMAIN n = 1 .. Len(n)
      /\ (\A l \in DOMAIN n : n[l] \in Text)
  BY NamesAssumption DEF Name
<1>2. \A l \in DOMAIN n : /\ Token(AddToken(p, text), n[l]) = Token(p, n[l])
                          /\ Fixed(AddToken(p, text), n[l])
  BY <1>1, TokenStable
<1>3. ASSUME NEW l \in 1 .. MaxLevel
      PROVE  Level(AddToken(p, text), n, l) = Level(p, n, l)
  <2>1. CASE l > Len(n) \/ (l >= 2 /\ Cut(n))
    BY <2>1 DEF Level
  <2>2. CASE ~(l > Len(n) \/ (l >= 2 /\ Cut(n)))
    <3>1. l \in DOMAIN n
      BY <1>1, <2>2, TopicIdAssumption
    <3>2. Token(AddToken(p, text), n[l]) = Token(p, n[l])
      BY <1>2, <3>1
    <3>3. AddrToken(AddToken(p, text), n[l]) = AddrToken(p, n[l])
      BY <3>2 DEF AddrToken
    <3> QED
      BY <2>2, <3>2, <3>3 DEF Level
  <2> QED
    BY <2>1, <2>2
<1> QED
  BY <1>2, <1>3 DEF CreateTopicId
-----------------------------------------------------------------------------
\* The inductive invariant: every level of a registered name is fixed, and so
\* are the levels already dealt with of the one being registered.
FixedInv ==
  /\ provider \in Seq(Text)
  /\ DOMAIN topics \subseteq Names
  /\ level # 0 => /\ name \in Names
                  /\ level \in 1 .. Len(name) + 1
                  /\ \A l \in 1 .. level - 1 : Fixed(provider, name[l])
  /\ level = 0 => name = <<>>
  /\ \A n \in DOMAIN topics : \A l \in DOMAIN n : Fixed(provider, n[l])
  /\ IdStable

LEMMA NextFixedInv == FixedInv /\ [Next]_vars => FixedInv'
<1> SUFFICES ASSUME FixedInv, [Next]_vars PROVE FixedInv'
  OBVIOUS
<1>1. ASSUME NEW n \in Names, Begin(n) PROVE FixedInv'
  <2>1. n \in Seq(Text) /\ Len(n) \in Nat /\ Len(n) >= 1
    BY NamesAssumption, TopicIdAssumption DEF Name
  <2> QED
    BY <1>1, <2>1 DEF Begin, FixedInv, IdStable
<1>2. ASSUME NEW n \in Names, Remove(n) PROVE FixedInv'
  BY <1>2 DEF Remove, FixedInv, IdStable
<1>3. CASE GenerateToken
  <2>1. /\ name \in Names /\ level \in 1 .. Len(name) /\ level' = level + 1
        /\ name' = name /\ topics' = topics
        /\ provider' = AddToken(provider, name[level]) /\ provider \in Seq(Text)
    BY <1>3 DEF GenerateToken, FixedInv
  <2>2. name \in Seq(Text) /\ Len(name) \in Nat /\ DOMAIN name = 1 .. Len(name)
        /\ (\A l \in DOMAIN name : name[l] \in Text)
    BY <2>1, NamesAssumption DEF Name
  <2>3. name[level] \in Text
    BY <2>1, <2>2
  <2>4. provider' \in Seq(Text) /\ Fixed(provider', name[level])
    BY <2>1, <2>3, AddTokenFacts
  <2>5. \A l \in 1 .. level - 1 : Fixed(provider', name[l])
    BY <2>1, <2>2, <2>3, TokenStable DEF FixedInv
  <2>6. ASSUME NEW n \in DOMAIN topics
        PROVE  /\ \A l \in DOMAIN n : Fixed(provider', n[l])
               /\ topics[n] = CreateTopicId(provider', n)
    BY <2>1, <2>3, IdPreserved DEF FixedInv, IdStable
  <2> QED
    BY <2>1, <2>2, <2>4, <2>5, <2>6 DEF FixedInv, IdStable
<1>4. CASE Create
  <2>1. /\ name \in Names /\ name \in Seq(Text)
        /\ \A l \in DOMAIN name : Fixed(provider, name[l])
    <3>1. name \in Names /\ level = Len(name) + 1
      BY <1>4 DEF Create, FixedInv
    <3>2. name \in Seq(Text) /\ Len(name) \in Nat /\ DOMAIN name = 1 .. Len(name)
      BY <3>1, NamesAssumption DEF Name
    <3> QED
      BY <3>1, <3>2, <1>4 DEF Create, FixedInv
  <2> QED
    BY <1>4, <2>1 DEF Create, FixedInv, IdStable
<1>5. CASE UNCHANGED vars
  BY <1>5 DEF vars, FixedInv, IdStable
<1> QED
  BY <1>1, <1>2, <1>3, <1>4, <1>5 DEF Next

\* The identifier kept with every topic is always the one its name would be
\* given now.
THEOREM IdentifiersStable == Spec => []IdStable
<1>1. Init => FixedInv
  BY DEF Init, FixedInv, IdStable
<1>2. FixedInv => IdStable
  BY DEF FixedInv
<1> QED
  BY <1>1, <1>2, NextFixedInv, PTL DEF Spec
-----------------------------------------------------------------------------
\* Numbers of a set that is not empty have a smallest one.
LEMMA Smallest ==
  ASSUME NEW S, S \subseteq Nat, S # {}
  PROVE  \E i \in S : \A j \in S : i <= j
<1> DEFINE R == OpToRel(<, Nat)
<1>1. \A i, j \in Nat : i < j => <<i, j>> \in R
  BY DEF OpToRel
<1>2. IsWellFoundedOn(R, Nat)
  BY NatLessThanWellFounded
<1> HIDE DEF R
<1>3. PICK i \in S : \A j \in S : <<j, i>> \notin R
  BY <1>2, WFMin
<1>4. ASSUME NEW j \in S PROVE i <= j
  <2>1. i \in Nat /\ j \in Nat
    OBVIOUS
  <2>2. ~ (j < i)
    BY <1>1, <1>3, <2>1, Zenon
  <2> QED
    BY <2>1, <2>2
<1> QED
  BY <1>4

\* The number of a text is a number: the first entry that begins with it exists.
LEMMA TokenType ==
  ASSUME NEW p \in Seq(Text), NEW x PROVE Token(p, x) \in Nat
<1>1. CASE Hits(p, x) = {}
  BY <1>1 DEF Token, WildcardNotUsed
<1>2. CASE Hits(p, x) # {}
  <2>1. Hits(p, x) \subseteq DOMAIN p /\ DOMAIN p \subseteq Nat \ {0}
    BY DEF Hits
  <2>2. Hits(p, x) \subseteq Nat
    BY <2>1
  <2>3. \E i \in Hits(p, x) : \A j \in Hits(p, x) : i <= j
    BY <1>2, <2>2, Smallest
  <2>4. First(p, x) \in DOMAIN p
    BY <2>1, <2>3 DEF First, IsFirst
  <2> QED
    BY <1>2, <2>1, <2>4 DEF Token, WildcardCOUNT
<1> QED
  BY <1>1, <1>2

LEMMA AddrTokenFacts ==
  ASSUME NEW p, NEW x
  PROVE  /\ x = Plus => AddrToken(p, x) = WildcardAny
         /\ x = Hash => AddrToken(p, x) = WildcardAll
         /\ x \notin Wild => AddrToken(p, x) = Token(p, x)
<1>1. CASE x = Plus
  BY <1>1, TopicIdAssumption DEF AddrToken, Wild
<1>2. CASE x = Hash
  BY <1>2, TopicIdAssumption DEF AddrToken, Wild
<1>3. CASE x \notin Wild
  BY <1>3 DEF AddrToken, Wild
<1> QED
  BY <1>1, <1>2, <1>3 DEF Wild

LEMMA IdType ==
  ASSUME NEW p \in Seq(Text), NEW n PROVE CreateTopicId(p, n) \in [1 .. MaxLevel -> Nat]
<1>1. ASSUME NEW l \in 1 .. MaxLevel PROVE Level(p, n, l) \in Nat
  <2>1. AddrToken(p, n[l]) \in Nat
    BY AddrTokenFacts, TokenType DEF WildcardAny, WildcardAll, Wild
  <2> QED
    BY <2>1, TokenType DEF Level, WildcardNotUsed
<1> QED
  BY <1>1 DEF CreateTopicId

\* The variables of the table keep their types.
THEOREM Typing == Spec => []TypeOK
<1>1. Init => FixedInv /\ DOMAIN topics = {}
  BY DEF Init, FixedInv, IdStable
<1>2. Init => TypeOK
  BY DEF Init, TypeOK
<1>3. FixedInv /\ FixedInv' /\ TypeOK /\ [Next]_vars => TypeOK'
  <2> SUFFICES ASSUME FixedInv, FixedInv', TypeOK, [Next]_vars PROVE TypeOK'
    OBVIOUS
  <2>1. topics' \in [DOMAIN topics' -> [1 .. MaxLevel -> Nat]]
    <3>1. \A n \in DOMAIN topics' : topics'[n] \in [1 .. MaxLevel -> Nat]
      BY IdType DEF FixedInv, IdStable
    <3>2. topics' = [n \in DOMAIN topics' |-> topics'[n]]
      BY DEF TypeOK, Next, Begin, GenerateToken, Create, Remove, vars
    <3> QED
      BY <3>1, <3>2
  <2>2. name' \in Names \cup {<<>>} /\ level' \in 0 .. Len(name') + 1
    <3>1. CASE level' = 0
      BY <3>1 DEF FixedInv
    <3>2. CASE level' # 0
      BY <3>2 DEF FixedInv
    <3> QED
      BY <3>1, <3>2
  <2> QED
    BY <2>1, <2>2 DEF TypeOK, FixedInv
<1> QED
  BY <1>1, <1>2, <1>3, NextFixedInv, PTL DEF Spec
-----------------------------------------------------------------------------
\* Matching is complete, for any provider at all: what a filter means reaches it.
LEMMA Complete ==
  ASSUME NEW p \in Seq(Text), NEW f \in Names, NEW n \in Names,
         Supported(f), Plain(n), Matches(f, n)
  PROVE  MatchIds(CreateTopicId(p, f), CreateTopicId(p, n))
<1> DEFINE found == CreateTopicId(p, f)
           search == CreateTopicId(p, n)
<1>1. /\ Len(f) \in Nat /\ DOMAIN f = 1 .. Len(f) /\ Len(f) >= 1
      /\ Len(n) \in Nat /\ DOMAIN n = 1 .. Len(n) /\ Len(n) >= 1
      /\ MaxLevel \in Nat /\ MaxLevel >= 2
  BY NamesAssumption, TopicIdAssumption DEF Name
<1>2. PICK k \in 0 .. Len(f) :
        /\ k <= Len(n)
        /\ \A l \in 1 .. k : f[l] = Plus \/ f[l] = n[l]
        /\ \/ k = Len(f) /\ k = Len(n)
           \/ k = Len(f) - 1 /\ f[k + 1] = Hash
  BY DEF Matches
<1>3. \A l \in 1 .. MaxLevel : found[l] = Level(p, f, l) /\ search[l] = Level(p, n, l)
  BY DEF CreateTopicId
<1> HIDE DEF found, search
<1> SUFFICES ASSUME NEW l \in 1 .. MaxLevel, found[l] \notin {WildcardAny, search[l]}
             PROVE  \E m \in 1 .. l : search[m] = WildcardNotUsed \/ found[m] = WildcardAll
  BY DEF MatchIds, found, search
<1>4. CASE l <= k /\ f[l] = Plus
  <2>1. l = 2
    BY <1>1, <1>4 DEF Supported, Wild
  <2>2. ~Cut(f)
    BY <1>4, <2>1 DEF Cut, Wild
  <2>3. found[l] = WildcardAny
    BY <1>1, <1>3, <1>4, <2>1, <2>2, AddrTokenFacts DEF Level
  <2> QED
    BY <2>3
<1>5. CASE l <= k /\ f[l] # Plus
  <2>0. f[l] = n[l] /\ l \in DOMAIN f /\ l \in DOMAIN n
    <3>1. l \in 1 .. k /\ k <= Len(f) /\ k <= Len(n)
      <4>1. k <= Len(n)
        BY <1>2, Zenon
      <4>2. k \in Nat /\ k <= Len(f)
        BY <1>1
      <4> QED
        BY <1>5, <4>1, <4>2
    <3>2. f[l] = n[l]
      BY <1>2, <1>5, <3>1
    <3> QED
      BY <1>1, <3>1, <3>2
  <2>1. f[l] = n[l] /\ f[l] \notin Wild /\ l <= Len(f) /\ l <= Len(n)
    BY <1>1, <2>0 DEF Plain
  <2>2. CASE l >= 2 /\ Cut(n)
    BY <1>3, <2>2 DEF Level
  <2>3. CASE ~(l >= 2 /\ Cut(n))
    <3>1. ~(l >= 2 /\ Cut(f))
      <4>1. ASSUME l >= 2, Cut(f) PROVE Cut(n)
        <5>0. f[1] # Plus
          BY <4>1, TopicIdAssumption DEF Cut, Wild
        <5>1. f[1] = n[1]
          BY <1>2, <1>5, <4>1, <5>0
        <5> QED
          BY <1>1, <2>1, <4>1, <5>1 DEF Cut, Plain
      <4> QED
        BY <2>3, <4>1
    <3>2. Level(p, f, l) = Level(p, n, l)
      BY <1>1, <2>1, <2>3, <3>1, AddrTokenFacts DEF Level
    <3> QED
      BY <1>3, <3>2
  <2> QED
    BY <2>2, <2>3
<1>6. CASE l > k /\ k = Len(f) /\ k = Len(n)
  <2>1. search[l] = WildcardNotUsed
    BY <1>1, <1>3, <1>6 DEF Level
  <2> QED
    BY <2>1
<1>7. CASE l > k /\ k = Len(f) - 1 /\ f[k + 1] = Hash
  <2>1. k = 1 /\ Len(f) = 2 /\ f[2] = Hash
    BY <1>1, <1>7 DEF Supported, Wild
  <2>2. ~Cut(f)
    BY <2>1 DEF Cut, Wild
  <2>3. Level(p, f, 2) = WildcardAll
    BY <1>1, <2>1, <2>2, AddrTokenFacts DEF Level
  <2>4. 2 \in 1 .. l /\ found[2] = WildcardAll
    BY <1>1, <1>3, <1>7, <2>1, <2>3
  <2> QED
    BY <2>4
<1>8. CASE l > k
  BY <1>2, <1>6, <1>7, <1>8
<1>9. CASE l <= k
  BY <1>4, <1>5, <1>9
<1> QED
  BY <1>1, <1>8, <1>9

\* Whatever the texts and names, however the provider has grown: a published
\* name reaches every topic whose filter means it.
THEOREM NothingMissed == Spec => []NoMissedMatch
<1>1. Init => FixedInv
  BY DEF Init, FixedInv, IdStable
<1>2. FixedInv => NoMissedMatch
  BY Complete DEF FixedInv, IdStable, NoMissedMatch
<1> QED
  BY <1>1, <1>2, NextFixedInv, PTL DEF Spec
-----------------------------------------------------------------------------
\* The number of a text that has an entry of its own tells which entry it is.
LEMMA ExactToken ==
  ASSUME NEW p \in Seq(Text), NEW x \in Text, NEW i \in DOMAIN p, p[i] = x,
         \A j \in 1 .. i - 1 : ~Begins(p[j], x)
  PROVE  Token(p, x) = i + 2
<1>1. DOMAIN p = 1 .. Len(p) /\ Len(p) \in Nat
  OBVIOUS
<1>2. i \in Hits(p, x)
  BY TopicIdAssumption DEF Hits, Begins
<1>3. \A j \in Hits(p, x) : i <= j
  BY <1>1 DEF Hits
<1>4. \A j \in DOMAIN p : IsFirst(p, x, j) <=> j = i
  BY <1>1, <1>2, <1>3 DEF IsFirst
<1>5. First(p, x) = i
  BY <1>4 DEF First
<1> QED
  BY <1>1, <1>2, <1>5 DEF Token, WildcardCOUNT

\* Hence every level of a name whose texts are told apart has a number of its
\* own, above those of the wildcards, and there is nothing behind the last.
LEMMA DistinctLevel ==
  ASSUME provider \in Seq(Text), NEW n \in Names, Distinct(n), NEW l \in 1 .. MaxLevel
  PROVE  /\ l > Len(n) => Level(provider, n, l) = WildcardNotUsed
         /\ l <= Len(n) => \E i \in DOMAIN provider :
                             provider[i] = n[l] /\ Level(provider, n, l) = i + 2
<1>1. /\ n \in Seq(Text) /\ Len(n) \in Nat /\ DOMAIN n = 1 .. Len(n)
      /\ MaxLevel \in Nat
  BY NamesAssumption, TopicIdAssumption DEF Name
<1>2. CASE l > Len(n)
  BY <1>1, <1>2 DEF Level
<1>3. CASE l <= Len(n)
  <2>1. l \in DOMAIN n /\ n[l] \in Text /\ n[l] \notin Wild /\ ~Cut(n)
    BY <1>1, <1>3 DEF Distinct, Plain, Cut
  <2>2. PICK i \in DOMAIN provider :
          provider[i] = n[l] /\ \A j \in 1 .. i - 1 : ~Begins(provider[j], n[l])
    BY <2>1 DEF Distinct, Exact
  <2>3. Token(provider, n[l]) = i + 2
    BY <2>1, <2>2, ExactToken
  <2>4. AddrToken(provider, n[l]) = Token(provider, n[l])
    BY <2>1, AddrTokenFacts
  <2>5. Level(provider, n, l) = i + 2
    BY <1>1, <1>3, <2>1, <2>3, <2>4 DEF Level
  <2> QED
    BY <1>1, <1>3, <2>2, <2>5
<1> QED
  BY <1>1, <1>2, <1>3

\* Matching is sound between such names.
LEMMA Sound ==
  ASSUME provider \in Seq(Text), NEW f \in Names, NEW n \in Names,
         Distinct(f), Distinct(n),
         MatchIds(CreateTopicId(provider, f), CreateTopicId(provider, n))
  PROVE  Len(n) <= Len(f) /\ n = SubSeq(f, 1, Len(n))
<1>1. /\ Len(f) \in Nat /\ Len(f) >= 1 /\ DOMAIN f = 1 .. Len(f)
      /\ Len(n) \in Nat /\ Len(n) >= 1 /\ DOMAIN n = 1 .. Len(n)
      /\ MaxLevel \in Nat /\ Len(n) <= MaxLevel
      /\ DOMAIN provider = 1 .. Len(provider) /\ Len(provider) \in Nat
  BY NamesAssumption, TopicIdAssumption DEF Name, Distinct
<1>2. ASSUME NEW m \in 1 .. MaxLevel
      PROVE  /\ Level(provider, f, m) \notin {WildcardAny, WildcardAll}
             /\ m <= Len(n) => Level(provider, n, m) # WildcardNotUsed
  <2>1. Level(provider, f, m) = 0 \/ \E i \in DOMAIN provider : Level(provider, f, m) = i + 2
    <3>1. m > Len(f) \/ m <= Len(f)
      BY <1>1
    <3> QED
      BY <3>1, DistinctLevel DEF WildcardNotUsed
  <2>2. m <= Len(n) => \E i \in DOMAIN provider : Level(provider, n, m) = i + 2
    BY DistinctLevel
  <2> QED
    BY <1>1, <2>1, <2>2 DEF WildcardAny, WildcardAll, WildcardNotUsed
<1>3. ASSUME NEW l \in 1 .. Len(n) PROVE l <= Len(f) /\ f[l] = n[l]
  <2>1. l \in 1 .. MaxLevel /\ (\A m \in 1 .. l : m \in 1 .. MaxLevel /\ m <= Len(n))
    BY <1>1
  <2>2. Level(provider, f, l) = Level(provider, n, l)
    BY <1>2, <2>1 DEF MatchIds, CreateTopicId
  <2>3. l <= Len(f)
    BY <1>1, <1>2, <2>1, <2>2, DistinctLevel
  <2>4. PICK i \in DOMAIN provider : provider[i] = f[l] /\ Level(provider, f, l) = i + 2
    BY <2>1, <2>3, DistinctLevel
  <2>5. PICK j \in DOMAIN provider : provider[j] = n[l] /\ Level(provider, n, l) = j + 2
    BY <2>1, DistinctLevel
  <2>6. i = j
    <3>1. i \in Nat /\ j \in Nat
      OBVIOUS
    <3>2. i + 2 = j + 2
      BY <2>2, <2>4, <2>5
    <3> QED
      BY <3>1, <3>2
  <2> QED
    BY <2>3, <2>4, <2>5, <2>6
<1>4. Len(n) <= Len(f)
  BY <1>1, <1>3
<1>5. f \in Seq(Text) /\ n \in Seq(Text)
  BY NamesAssumption DEF Name
<1> QED
  BY <1>1, <1>3, <1>4, <1>5

\* Between names whose texts are told apart, nothing is reached that was not
\* meant, apart from topics below the published one.
THEOREM NothingElse == Spec => []NoFalseMatch
<1>1. Init => FixedInv
  BY DEF Init, FixedInv, IdStable
<1>2. FixedInv => NoFalseMatch
  BY Sound DEF FixedInv, IdStable, NoFalseMatch
<1> QED
  BY <1>1, <1>2, NextFixedInv, PTL DEF Spec
=============================================================================
