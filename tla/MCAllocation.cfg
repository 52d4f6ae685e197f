SPECIFICATION Spec
CONSTANTS
  Device <- MCDevice
  Kind <- MCKind
  Rank <- MCRank
  KindOf <- MCKindOf
  IdOf <- MCIdOf
  Index <- MCIdOf
  Uuid <- MCUuid
  Submissions <- MCSubmissions
  Options <- MCOptions
INVARIANTS
  FirstLegalChoice
  ExactIdsHonoured
  VendorPinned
  SeesWhatWasTyped
