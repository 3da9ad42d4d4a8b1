SPECIFICATION RetentionSpec
CONSTANTS
  MaxTask = 4
  MaxTime = 4
  ResultTTL = 1
  MetadataTTL = 2
  RecordCap = 2
PROPERTIES
  ResultIsKept
  OldestGoesFirst
  CapHolds
CHECK_DEADLOCK FALSE
