\* Two levels from half the commanded current to the cutoff and one failure
\* that is tolerated; four iterations before the timeout.
CONSTANTS
    VoltageMin = 1
    VoltageMax = 3
    MaxChargeA = 5
    MaxDischargeA = 1
    TempMax = 1
    ChargeA = 5
    ChargeV = 3
    DischargeA = 1
    DischargeCutoffV = 2
    CutoffA = 0
    PlausibleMax = 4
    MaxFailures = 2
    Timeout = 3
SPECIFICATION FairSpec
INVARIANTS
    UnseenBounded
    RemovalNeverPasses
    TaperIsNoRemoval
    CompletedMeansReached
    OneSampleAfterCancel
PROPERTIES
    LoopEnds
