SPECIFICATION FairSpec
CONSTANTS
    MaxTests = 0
    PeerActs = FALSE
PROPERTIES
    ExitQuits
CHECK_DEADLOCK FALSE
