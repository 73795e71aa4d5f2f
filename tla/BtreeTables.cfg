SPECIFICATION Spec
CONSTANTS
  Keys = {1, 2, 3, 4, 5}
  KeyLen <- MCKeyLen
  PageSize = 24
  EffectiveLeafPageSize = 22
  PairBytes = 2
  ChildBytes = 3
  Pairs <- MCPairs
  KeepSets <- MCKeepSets
  Ranges <- MCRanges
  Scopes <- MCScopes
INVARIANTS Balanced PagesAccounted CommittedVerifies ReturnsRight HoldsTheTable
