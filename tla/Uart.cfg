SPECIFICATION FairSpec
CONSTANTS
    SIZE = 3
    NUMBERS = 3
    LENS = {1,3}
    LIMIT = 2
    OVERRUNS = 1
INVARIANTS NoByteForgotten
PROPERTIES  TransmitsInOrder ReadsTheOldest CallsReturn
