SPECIFICATION Spec
CONSTANTS
  Keys = {1, 2, 11, 12, 13, 14}
  TableKeys = {1, 2}
  Vals = {11, 12, 13, 14}
  KeyLen <- MCKeyLen
  PageSize = 24
  EffectiveLeafPageSize = 22
  PairBytes = 1
  ChildBytes = 3
  HeaderBytes = 4
  Scopes <- MCScopes
INVARIANTS SubtreePagesAccounted SubtreesVerify CallsReturnRight HoldsTheRelation
