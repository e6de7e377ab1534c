SPECIFICATION MCSpec
CONSTANTS
    N = 12
    Sample <- MCSample
    UDP_MOD = 3
    SAMPLES = 36
    PACE = 6
    WORD_TIME = 1
    OVERHEAD = 4
    DEPTH = 2
    WIDTHS = {1, 2}
    SPACING = 60
    RESETS = 0
    MAC = 2
    ARP = 1
    IP = 2
    ICMP = 2
    BUFFER = 3
    ME = 1
    PROTO_ARP = 6
    PROTO_IP = 0
    PROTO_ICMP = 1
    ECHO = 8
    FRAMES <- MCFrames
    SPACE = 2
    RX_RESETS = 0
INVARIANTS  AnswersWhatWasAsked EveryRequestFound
PROPERTIES StreamContinuous RepliesAreWhole RequestsHoldTheFrame
