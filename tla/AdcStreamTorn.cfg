SPECIFICATION Spec
CONSTANTS
    N = 2
    Sample <- MCSample
    UDP_MOD = 3
    SAMPLES = 6
    PACE = 21
    WORD_TIME = 2
    OVERHEAD = 4
    DEPTH = 4
    WIDTHS = {1, 2}
    SPACING = 90
    RESETS = 0
INVARIANTS QueuedFramesIntact
