\* A payload of up to three processes, a time limit, and a worker that may be killed.
SPECIFICATION FairSpec
CONSTANTS
  m1 = m1
  m2 = m2
  Member <- MCMember
  TimeLimit = TRUE
  WorkerKills = TRUE
INVARIANTS
  QuietWhenReported
  OutcomeJustified
PROPERTIES
  GraceFirst
  MarkedNeverRuns
  StopEnds
  LeaderEndEnds
  ImplementsContract
