\* The driver with the attempt bound of config/settings.py.
CONSTANT MaxAttempts = 3
SPECIFICATION Spec
INVARIANTS
    TrueMeansOff
    VerdictIsFresh
