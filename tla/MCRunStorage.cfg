\* Two sessions, two calls, one fault, one month change, and the backfill script
\* as often as one likes.
CONSTANTS
    NumSessions = 2
    MaxRetries = 2
    NumLegacy = 1
    MaxMonth = 2
    MaxCalls = 2
    MaxFaults = 1
SPECIFICATION FairSpec
CHECK_DEADLOCK FALSE
INVARIANTS
    TelemetryWhereRecorded
    AcknowledgedSurvives
    QuietBackfillIsUnique
PROPERTIES
    ImplementsIssuer
    CallsReturn
