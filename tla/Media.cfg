SPECIFICATION MCSpec
CONSTANTS
    BlockLen = 160
    MaxBlocks = 2
    Captures <- Microphone
    Tones <- SquareTones
    Messages <- AllMessages
    Descriptions <- Packs
    SeqSize = 2
    Unit = 16
    SecMod = 4
    LongMod = 64
    Ticks = 1
    Period = 1
    Offset = 1
    Strays = {7}
    Before <- Befores
    MaxPackets = 3
    MaxReceived = 3
    MaxTime = 1
    MaxReports = 2
INVARIANTS
    CodecTypeOK
    DecoderInStep
    NeverFarther
    Settles
    SteadyKept
    ToneKept
    LinesFiled
    OrderAccepted
    AllRoundTrip
    RtpTypeOK
    LossExact
    SrRemembered
CHECK_DEADLOCK FALSE
