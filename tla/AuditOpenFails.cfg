SPECIFICATION FairSpec
CONSTANTS
    p1 = p1
    p2 = p2
    good = good
    bad = bad
    Key = key
    SENTINEL = SENTINEL
    Nothing = Nothing
    Producers <- OneProducer
    Closers <- NoOne
    Records <- GoodAndBad
    Unencodable <- OnlyBad
    FsyncEach = FALSE
    Faults <- OpenFault
    Crashes = FALSE
    PowerLoss = FALSE
    MaxAppends = 2
PROPERTY FlushReturns
CHECK_DEADLOCK FALSE
