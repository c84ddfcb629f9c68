\* Two positions, two repetitions, two operations one after the other, and up to
\* three database calls that raise in each.
CONSTANTS
    NumPositions = 2
    CycleCount = 2
    MaxOps = 2
    MaxFaults = 3
SPECIFICATION FairSpec
CHECK_DEADLOCK FALSE
INVARIANTS
    MenuMeansSafe
    BetweenIsDead
    SenseReleased
    CycleRowsAgree
PROPERTY CancelledEnds
