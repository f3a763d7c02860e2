CONSTANTS
    MaxStarts = 2
    MaxDeaths = 2
SPECIFICATION FairSpec
INVARIANTS TypeOK SweepersBounded
PROPERTIES TakenPortEndsMain AllServed
CHECK_DEADLOCK FALSE
