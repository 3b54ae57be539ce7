SPECIFICATION FairSpec
CONSTANTS
  Threads = {t1, t2}
  Subs <- MCSubs
  Text <- MCText
  Plus = "+"
  Hash = "#"
  Prefix <- MCPrefix
  Scoped = {}
  MaxLevel = 2
  Names <- ShortNames
  Interests <- MCInterests
  Republish <- MCRepublish
  Resubscribe <- MCResubscribe
  MaxTopics = 2
  MaxDepth = 2
  None = None
INVARIANTS
  LockHeld
PROPERTIES
  AtMostOnce
  CallsReturn
