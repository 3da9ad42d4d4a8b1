SPECIFICATION Spec
CONSTANTS
  p1 = p1
  p2 = p2
  r1 = r1
  r2 = r2
  base = base
  c1 = c1
  c2 = c2
  Procs <- MCProcs
  Runs <- MCOneRun
  Contents <- MCTwoContents
  Base = base
  Wreck = wreck
  None = none
  NoProc = noproc
  PolicyPresent = FALSE
INVARIANTS
  WorkSurvivesRetry
CHECK_DEADLOCK FALSE
