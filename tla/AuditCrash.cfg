SPECIFICATION Spec
CONSTANTS
    p1 = p1
    p2 = p2
    good = good
    bad = bad
    Key = key
    SENTINEL = SENTINEL
    Nothing = Nothing
    Producers <- TwoProducers
    Closers <- OneProducer
    Records <- GoodAndBad
    Unencodable <- OnlyBad
    FsyncEach = TRUE
    Faults <- AllFaults
    Crashes = TRUE
    PowerLoss = TRUE
    MaxAppends = 3
INVARIANTS
    ChainIntact
    HeadExactWhenDrained
    FlushedIsDurable
PROPERTIES
    AppendOnly
CHECK_DEADLOCK FALSE
