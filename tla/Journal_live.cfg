SPECIFICATION FairSpec
CONSTANTS
    Consumers = {c1}
    WarnKeys = {k1, k2}
    System = System
    NoKey = NoKey
    MinRetain = 1
    RowCap = 3
    DedupeMax = 1
    MaxPage = 2
    MaxSeq = 3
    Inputs <- Notes
INVARIANTS
    WarnedOnce
PROPERTIES
    SweepKeepsUnread
    EventReachesConsumer
