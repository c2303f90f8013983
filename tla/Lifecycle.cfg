SPECIFICATION FairSpec
CONSTANTS
    MaxTests = 1
    PeerActs = TRUE
INVARIANTS
    TypeOK
    OneCodec
    CodecServes
    SafeToFree
PROPERTIES
    JoinEnds
    AudioStarts
CHECK_DEADLOCK FALSE
