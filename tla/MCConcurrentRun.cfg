\* Two workers, one of them with two groups.
CONSTANTS
    N = 2
    NumGroups <- TwoGroupsThenOne
SPECIFICATION FairSpec
INVARIANTS
    NoSilentFailure
    NoSilentSession
    AtMostOneGroupAfterStop
    NoThreadLeftUnnoticed
    StopReasonIsFirstFault
PROPERTIES
    RunReturns
    FaultReachesEveryWorker
    StopEndsWorker
