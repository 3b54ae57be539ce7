SPECIFICATION Spec
CONSTANTS
  Threads = {t1, t2}
  Subs = {s1, s2}
  Text <- MCText
  Plus = "+"
  Hash = "#"
  Prefix <- MCPrefix
  Scoped = {}
  MaxLevel = 2
  Names <- MCNames
  Interests <- Anything
  Republish <- Anything
  Resubscribe <- Nothing
  MaxTopics = 2
  MaxDepth = 2
  None = None
SYMMETRY Permuted
INVARIANTS
  AllInvoked
