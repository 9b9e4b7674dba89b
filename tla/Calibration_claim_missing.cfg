SPECIFICATION CalSpec
CONSTANTS
    MAX_COEFFS = 2
    MAX_POINTS = 2
    CalValue = {0, 1, 3}
    CalCount = {0, 2, 3}
INVARIANTS
    MissingKeyFails
CHECK_DEADLOCK FALSE
