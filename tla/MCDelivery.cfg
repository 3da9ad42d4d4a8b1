CONSTANTS
    Commands <- Sample
    Missions = {1, 2, 3}
    Queues <- Programs
    BatchOf <- Batches
    Checks = {"lint", "test"}
SPECIFICATION FairSpec
INVARIANT VerdictIsHonest
INVARIANT BatchLeavesNothing
INVARIANT ProgramPushIsEarned
INVARIANT RunsOnSettledWork
 
CHECK_DEADLOCK FALSE
