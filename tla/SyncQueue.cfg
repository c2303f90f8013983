SPECIFICATION FairSpec
CONSTANTS
    t1 = t1
    t2 = t2
    t3 = t3
    d1 = d1
    d2 = d2
    d3 = d3
    NoItem = NoItem
    Thread = {t1, t2, t3}
    Consumer = {t1, t2}
    Item = {d1, d2, d3}
    Times = {0, 20, 5000}
    Usecs = {0, 979999, 980000}
INVARIANTS
    TypeOK
    WaitingCounts
    NoLostWakeup
PROPERTIES
    ItemTaken
    ImplementsFifo
