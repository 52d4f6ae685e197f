\* The same clients when a write of state.json may fail.
SPECIFICATION ClientSpec
CONSTANTS
  Device <- MCDevice
  Kind <- MCKind
  Rank <- MCRank
  KindOf <- MCKindOf
  IdOf <- MCIdOf
  MaxId = 2
  Submissions <- OneOrBoth
  Limits <- Two
  Inventories <- WholeHost
  Probes <- AllIdle
  IdLists <- NoLists
  Outcomes <- Done
  SaveFails = TRUE
PROPERTIES
  NeverStartsOnceShown
