\* Two invocations, one run and one task; every kind of fault can happen once.
\* The clock passes the retention age twice: a plan can take that long.
CONSTANTS
  Pruners = {p1, p2}
  NumRuns = 1
  Tasks = {t1}
  Retention = 1
  MaxTime = 2
  MaxGen = 3
  MaxMade = 2
  MaxFaults = 1
SPECIFICATION Spec
INVARIANTS
  NoStrandedRecord
PROPERTIES
  RecordOutlivesArchive
  OnlyAgedTerminalGoes
  SharedGoesIdle
CHECK_DEADLOCK FALSE
SYMMETRY Symmetry
