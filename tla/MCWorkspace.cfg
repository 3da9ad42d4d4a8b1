SPECIFICATION Spec
CONSTANTS
  p1 = p1
  p2 = p2
  r1 = r1
  r2 = r2
  base = base
  c1 = c1
  c2 = c2
  Procs <- MCProcs
  Runs <- MCOneRun
  Contents <- MCContents
  Base = base
  Wreck = wreck
  None = none
  NoProc = noproc
  PolicyPresent = TRUE
SYMMETRY Symmetry
INVARIANTS
  AppliedIsReviewed
  ReceiptGovernsApply
  AppliedStaysOnBranch
  DiscardedIsGone
  NoWorkLost
  ArchiveReferenceHolds
PROPERTIES
  TerminalIsFinal
  ForeignCommitsSurvive
CHECK_DEADLOCK FALSE
