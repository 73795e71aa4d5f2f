SPECIFICATION Spec
CONSTANTS
  Keys = {1, 2, 11, 12}
  Names = {1, 2}
  TableKeys = {11, 12}
  KeyLen <- MCKeyLen
  Value <- MCValue
  PageSize = 24
  EffectiveLeafPageSize = 22
  PairBytes = 2
  ChildBytes = 3
  DefinitionLen = 12
  MaxPagesPerCompaction = 3
  MaxCalls <- MCMaxCalls
CHECK_DEADLOCK FALSE
INVARIANTS NoPanic TablesHold CommittedTablesVerify TablePagesAccounted
PROPERTIES CompactionEnds CompactionPacks
