SPECIFICATION FairSpec
CONSTANTS
  Verdicts <- MCVerdicts
  MaxWaveWidth = 2
  Flows <- MCFlows
  NoResult = noresult
  Error = error
INVARIANTS
  WaveIsIndependent
  TraceAccountsForAll
PROPERTIES
  NoApplyAfterBadVerdict
  ApplyNeedsPass
  FlowEnds
CHECK_DEADLOCK FALSE
