\* Three jobs competing for two devices and two slots: no device, one, both or
\* exactly the second device; starts may fail and devices become busy outside.
SPECIFICATION Spec
CONSTANTS
  Device <- MCDevice
  Kind <- MCKind
  Rank <- MCRank
  KindOf <- MCKindOf
  IdOf <- MCIdOf
  MaxId = 3
  Submissions <- AnyShape
  Limits <- Two
  Inventories <- WholeHost
  Probes <- AllOrSecondIdle
  IdLists <- NoLists
  Outcomes <- Done
  SaveFails = FALSE
INVARIANTS
  MaxRunningRespected
PROPERTIES
  BiggestFirst
  WorkConserving
