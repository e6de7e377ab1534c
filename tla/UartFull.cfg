SPECIFICATION Spec
CONSTANTS
    SIZE = 3
    NUMBERS = 3
    LENS = {1, 3}
    LIMIT = 3
    OVERRUNS = 1
PROPERTY FullRingWaits
