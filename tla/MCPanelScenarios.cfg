SPECIFICATION MCSpec
CONSTANTS
    BYTE = 16
    PER = 22
    FMAX = 3
    STEPS <- MCSteps
    TURNS = 4
    LOST_UP = 0
    LOST_DOWN = 0
    RX_SIZE = 12
INVARIANTS InStepWithoutLosses AcceptedIsHeldWithoutLosses
PROPERTIES ComesToRest
