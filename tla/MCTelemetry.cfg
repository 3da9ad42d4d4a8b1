CONSTANTS
    e1 = e1
    e2 = e2
    e3 = e3
    Calls = {e1, e2, e3}
    Request <- RequestOf
    Ends <- EndsOf
    MaxData = 2
    MaxOutputBytes = 2
    Enabled = TRUE
    MaxMonth = 1
    MaxEvent = 1
    maxSegmentBytes = 2
    maxTotalBytes = 2
    retainedMonths = 1
    Since = 0
    None = None
SPECIFICATION FairSpec
INVARIANT StreamIsBounded
PROPERTY CallContract
PROPERTY CallReturns
PROPERTY ReadMissesNothing
CHECK_DEADLOCK FALSE
