\* One session opened twice, so that the tables have reached the file when the
\* process dies; one fault.
CONSTANTS
    NumSessions = 1
    MaxRetries = 2
    NumLegacy = 0
    MaxMonth = 1
    MaxCalls = 2
    MaxFaults = 1
SPECIFICATION Spec
CHECK_DEADLOCK FALSE
INVARIANT NotFoundMeansAbsent
