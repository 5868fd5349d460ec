SPECIFICATION Spec
CONSTANTS
    Consumers = {c1}
    WarnKeys = {}
    System = System
    NoKey = NoKey
    MinRetain = 1
    RowCap = 2
    DedupeMax = 1
    MaxPage = 2
    MaxSeq = 3
    Inputs <- AllKinds
INVARIANTS
    TypeOK
    RowsAreContiguous
    CaughtUpMeansShown
    OpenTicketIsShown
