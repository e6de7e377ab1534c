CONSTANTS
    Data = {d0, d1}
    Zero = d0
    RATIO = 3
    GAP = 7
SPECIFICATION FairSpec
INVARIANTS TypeOK NoGhostStrobe DataWithStrobe
PROPERTY EveryStrobeArrives
