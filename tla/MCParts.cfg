SPECIFICATION MCSpec
CONSTANTS
    CHIPS = {"EPCS1", "EPCQ256"}
    BLOCKS = 2
    SCALE = 16
    PAGE = 2
    CHUNK = 2
    BITS = {0}
    DATA <- MCData
    FAILURES = 1
    ALARMS = {a, b, c}
    HEAD = head
    WRAP = 4
    WRITES = {0, 1, 2}
    READS = {0, 1, 2}
    LINE = 6
    IRQS = {0, 1, 2}
    ISRS = {"uart"}
    ALT_MAX_FD = 5
    DEVICES = {"null", "uart"}
    MODES = {}
INVARIANTS
    Exchanged NoOverrun DoesWhatWasAsked OneRing  InterruptsInOrder FilterExact StreamsApart InPhase
PROPERTIES
     OtherSectorsKept LocksRespected PoolKept
