\* Two administrators and two daemons that may die at any point.
SPECIFICATION FairSpec
CONSTANTS
  p1 = p1
  p2 = p2
  a1 = a1
  a2 = a2
  Process <- MCProcess
  Admin <- MCAdmin
  Crashes = TRUE
INVARIANTS
  IndInv
  SocketReachable
  CleanSparesWorkers
  RestartIsIdle
  RestartHandsOver
  NoUnannouncedDaemon
PROPERTIES
  CommandsEnd
