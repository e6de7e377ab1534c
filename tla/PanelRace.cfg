SPECIFICATION Spec
CONSTANTS
    BYTE = 16
    PER = 22
    FMAX = 3
    STEPS <- MCSteps
    TURNS = 2
    LOST_UP = 0
    LOST_DOWN = 0
    RX_SIZE = 12
INVARIANTS TunedToWhatIsShown
