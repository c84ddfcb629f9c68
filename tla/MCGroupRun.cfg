\* Both modes, three positions, a database that may fail at any call.
CONSTANTS
    NumPositions = 3
    StorageFails = TRUE
SPECIFICATION FairSpec
INVARIANTS
    PassMeansSafe
    NextPositionOnlyAfterShutdown
    FaultEndsGroup
    EnergisedEndIsTold
    EnergisedSessionKept
PROPERTIES
    OutputOnlyOnSelectedBattery
    CancelEnergisesNoOther
    RunEndsOrWaits
