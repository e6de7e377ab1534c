CONSTANTS
    MEM = 4
    IGAP_LEN = 6
    DEPTH = 2
    RATIO = 2
    LENS = {2}
    IDS = 4
    HOLD = 12
SPECIFICATION FairSpec
INVARIANTS WireCarriesOldestFrame NoStrobeLost
PROPERTIES FramesAreWhole  EveryFrameLeaves
