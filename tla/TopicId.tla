------------------------------ MODULE TopicId ------------------------------
(***************************************************************************)
(* How the broker turns topic names into identifiers and compares them     *)
(* (Middleware/MQLib, MQBroker: generateTokens, createTopicId, matchIds).  *)
(* A name is the sequence of its levels, the texts between its '/'; what   *)
(* the code asks about two texts is only whether one begins with the       *)
(* other.  The token provider is the sequence of registered texts.         *)
(***************************************************************************)
EXTENDS Naturals, Sequences

CONSTANTS Text,       \* the texts of levels, "+" and "#" among them
          Plus, Hash, \* the texts "+" and "#"
          Prefix,     \* <<a, b>>: b begins with a (every text with itself)
          Scoped,     \* the texts that begin with '@'
          MaxLevel    \* levels that are compared: MAX_TOKEN_LEVEL minus one,
                      \* since the second level takes two positions

Wild == {Plus, Hash}

ASSUME TopicIdAssumption ==
  /\ Wild \subseteq Text /\ Plus # Hash
  /\ Prefix \subseteq Text \X Text
  /\ \A a \in Text : <<a, a>> \in Prefix
  /\ \A w \in Wild, a \in Text : <<w, a>> \in Prefix => a = w
  /\ Scoped \subseteq Text \ Wild
  /\ MaxLevel \in Nat /\ MaxLevel >= 2

\* enum Wildcards
WildcardNotUsed == 0
WildcardAny == 1
WildcardAll == 2
WildcardCOUNT == 3

Name == {n \in Seq(Text) : Len(n) \in 1 .. MaxLevel + 1}

\* strncmp(_token_provider[i], text, length of text) == 0
Begins(entry, text) == <<text, entry>> \in Prefix

Hits(provider, text) == {i \in DOMAIN provider : Begins(provider[i], text)}

IsFirst(provider, text, i) ==
  i \in Hits(provider, text) /\ \A j \in Hits(provider, text) : i <= j

\* mutant of First: the search goes on to the last entry
FirstLast(provider, text) ==
  CHOOSE i \in Hits(provider, text) : \A j \in Hits(provider, text) : j <= i

First(provider, text) == CHOOSE i \in DOMAIN provider : IsFirst(provider, text, i)

\* The number of a text: that of the first entry that begins with it, with the
\* wildcard numbers set aside; 0 if there is none.  The texts of an application
\* are taken to be at most 253, so that the number fits in a token_t and the
\* array of the provider is large enough: the code checks neither.
Token(provider, text) ==
  IF Hits(provider, text) = {} THEN WildcardNotUsed ELSE First(provider, text) - 1 + WildcardCOUNT

\* The field at AddrField knows the wildcards, the other levels do not.
AddrToken(provider, text) ==
  CASE text = Plus -> WildcardAny
    [] text = Hash -> WildcardAll
    [] text \notin Wild -> Token(provider, text)

\* A scope: the rest of the name is left out of the identifier.
Cut(name) == Len(name) >= 2 /\ name[1] \in Scoped /\ name[2] \notin Wild

\* createTopicId, one level of it.
Level(provider, name, l) ==
  IF l > Len(name) \/ (l >= 2 /\ Cut(name)) THEN WildcardNotUsed
  ELSE IF l = 2 THEN AddrToken(provider, name[l])
  ELSE Token(provider, name[l])

CreateTopicId(provider, name) == [l \in 1 .. MaxLevel |-> Level(provider, name, l)]

\* mutant of MatchIds: '#' is not looked at
MatchIdsNoAll(found, search) ==
  \A l \in 1 .. MaxLevel :
    found[l] \notin {WildcardAny, search[l]} => \E k \in 1 .. l : search[k] = WildcardNotUsed
\* mutant of MatchIds: a level unknown to the publisher does not decide
MatchIdsStrict(found, search) ==
  \A l \in 1 .. MaxLevel :
    found[l] \notin {WildcardAny, search[l]} => \E k \in 1 .. l : found[k] = WildcardAll
\* matchIds: the first level that decides does so; if none does, it matches.
MatchIds(found, search) ==
  \A l \in 1 .. MaxLevel :
    found[l] \notin {WildcardAny, search[l]} =>
      \E k \in 1 .. l : search[k] = WildcardNotUsed \/ found[k] = WildcardAll

\* mutant of AddToken: a new text is put before the others
AddTokenFirst(provider, text) ==
  IF provider # <<>> /\ (text \in Wild \/ Hits(provider, text) # {})
  THEN provider
  ELSE <<text>> \o provider
\* generateTokens, one level of it: a text is added unless it is a wildcard or
\* some entry begins with it - but with no entries at all it is not looked at.
AddToken(provider, text) ==
  IF provider # <<>> /\ (text \in Wild \/ Hits(provider, text) # {})
  THEN provider
  ELSE Append(provider, text)
-----------------------------------------------------------------------------
(* What subscribers expect: the usual meaning of the wildcards.            *)

Plain(name) == \A l \in DOMAIN name : name[l] \notin Wild

Matches(filter, name) ==
  \E k \in 0 .. Len(filter) :
    /\ k <= Len(name)
    /\ \A l \in 1 .. k : filter[l] = Plus \/ filter[l] = name[l]
    /\ \/ k = Len(filter) /\ k = Len(name)
       \/ k = Len(filter) - 1 /\ filter[k + 1] = Hash

\* Filters whose wildcards are where createTopicId looks for them.
Supported(filter) == \A l \in DOMAIN filter : filter[l] \in Wild => l = 2
=============================================================================
