\* Two jobs, clients that look at them, inventories that shrink, every probe result, and a daemon
\* that dies anywhere, on a disk that never fails.
SPECIFICATION FairClientSpec
CONSTANTS
  Device <- MCDevice
  Kind <- MCKind
  Rank <- MCRank
  KindOf <- MCKindOf
  IdOf <- MCIdOf
  MaxId = 2
  Submissions <- OneOrBoth
  Limits <- Two
  Inventories <- Shrinking
  Probes <- AnyProbe
  IdLists <- NoLists
  Outcomes <- DoneOrCancelled
  SaveFails = FALSE
INVARIANTS
  OneFinalState
PROPERTIES
  NeverStartsOnceShown
  ImplementsLifecycle
  KeepsContract
  OrphansResolved
  CancelledJobsEnd
  PlaceableJobsStart
