\* A daemon restarted with another --max-running.
SPECIFICATION Spec
CONSTANTS
  Device <- MCDevice
  Kind <- MCKind
  Rank <- MCRank
  KindOf <- MCKindOf
  IdOf <- MCIdOf
  MaxId = 2
  Submissions <- OneBothOrSecond
  Limits <- OneOrTwo
  Inventories <- WholeHost
  Probes <- AllOrSecondIdle
  IdLists <- NoLists
  Outcomes <- Done
  SaveFails = FALSE
INVARIANTS
  MaxRunningRespected
