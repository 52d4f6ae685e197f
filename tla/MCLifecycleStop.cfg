\* One administrator, and nothing that fails.
SPECIFICATION Spec
CONSTANTS
  p1 = p1
  p2 = p2
  a1 = a1
  a2 = a2
  Process <- MCProcess
  Admin <- MCAlone
  Crashes = FALSE
INVARIANTS
  StopHandsOver
