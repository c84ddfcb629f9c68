CONSTANTS
    NumPositions = 2
    StorageFails = FALSE
SPECIFICATION Spec
INVARIANTS
    SafeBeforeNextPosition
