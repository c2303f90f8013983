SPECIFICATION FairSpec
CONSTANTS
    m1 = m1
    m2 = m2
    NoMemo = NoMemo
    Memo = {m1, m2}
    Pools <- SmallPools
    Share = 1
INVARIANTS
    TypeOK
    OneOwner
    OnlyUnparsedLost
    SipMemosFit
    TempOnlyForBusy
PROPERTIES
    CleanupEnds
    MemoReturns
