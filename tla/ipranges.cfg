SPECIFICATION Spec
CONSTANTS
  Bits = 3
  MaxConfig = 3
  MaxRanges = 4
INVARIANTS TypeOK NothingElseMatches ConfiguredMatch
PROPERTIES RemovesOne
