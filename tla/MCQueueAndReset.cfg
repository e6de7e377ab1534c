SPECIFICATION MCSpec
CONSTANTS
    SLOTS = 4
    Data = {d0, d1}
    Zero = d0
    MEM = 2
    IGAP_LEN = 2
    DEPTH = 1
    RATIO = 2
    LENS = {1}
    IDS = 3
    HOLD = 6
INVARIANTS FifoTypeOK HeadShown
PROPERTIES ImplementsQueue CleanAfterReset
