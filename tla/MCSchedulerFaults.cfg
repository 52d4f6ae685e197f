\* Two jobs, failing writes, every probe result, an exclusion, two possible
\* inventories, and a daemon that dies anywhere.
SPECIFICATION Spec
CONSTANTS
  Device <- MCDevice
  Kind <- MCKind
  Rank <- MCRank
  KindOf <- MCKindOf
  IdOf <- MCIdOf
  MaxId = 2
  Submissions <- OneOrBoth
  Limits <- Two
  Inventories <- Shrinking
  Probes <- AnyProbe
  IdLists <- NoneOrFirst
  Outcomes <- Done
  SaveFails = TRUE
INVARIANTS
  IndInv
  AtMostOnce
  ExclusiveUse
  LiveIsRecorded
  AckDurable
  OutcomeTruthful
PROPERTIES
  FinalIsFinal
