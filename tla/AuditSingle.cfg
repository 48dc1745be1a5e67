SPECIFICATION FairSpec
CONSTANTS
    p1 = p1
    p2 = p2
    good = good
    bad = bad
    Key = key
    SENTINEL = SENTINEL
    Nothing = Nothing
    Producers <- OneProducer
    Closers <- OneProducer
    Records <- GoodAndBad
    Unencodable <- OnlyBad
    FsyncEach = TRUE
    Faults <- LineFaults
    Crashes = FALSE
    PowerLoss = FALSE
    MaxAppends = 4
INVARIANTS
    TypeOK
    NothingLost
    HeadIsOnFile
    ClosedIsComplete
PROPERTIES
    FlushReturns
    AcceptedIsSettled
    ImplementsClient
