SPECIFICATION FairSpec
CONSTANTS
    BYTE = 16
    PER = 22
    FMAX = 3
    STEPS <- MCSteps
    TURNS = 1
    LOST_UP = 1
    LOST_DOWN = 0
    RX_SIZE = 12
PROPERTIES ComesToRest
