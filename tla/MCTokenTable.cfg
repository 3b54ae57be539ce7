SPECIFICATION Spec
CONSTANTS
  Text <- MCText
  Plus = "+"
  Hash = "#"
  Prefix <- MCPrefix
  Scoped = {"@g"}
  MaxLevel = 3
  Names <- MCNames
INVARIANTS
  IdStable
  NoMissedMatch
  NoFalseMatch
