\* One session opened twice and the script run over two rows from before
\* the counter; one fault, enough for it to die between its two commits.
CONSTANTS
    NumSessions = 1
    MaxRetries = 2
    NumLegacy = 2
    MaxMonth = 1
    MaxCalls = 2
    MaxFaults = 1
SPECIFICATION Spec
CHECK_DEADLOCK FALSE
INVARIANT PartialBackfillIsUnique
