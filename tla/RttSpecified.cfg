SPECIFICATION RtpSpec
CONSTANTS
    SeqSize = 2
    Unit = 16
    SecMod = 4
    LongMod = 64
    Ticks = 2
    Period = 1
    Offset = 1
    Strays = {}
    Before <- OnlyCalled
    MaxPackets = 1
    MaxReceived = 0
    MaxTime = 4
    MaxReports = 1
INVARIANT
    RttAsSpecified
CHECK_DEADLOCK FALSE
