SPECIFICATION Spec
CONSTANTS
    r1 = r1
    r2 = r2
    nan = nan
    null = null
    foreign = foreign
    Key = key
    BLANK = BLANK
    MALFORMED = MALFORMED
    SCALAR = SCALAR
    INCOMPLETE = INCOMPLETE
    NoHead = NoHead
    Unencodable <- NaNRecords
    NotText <- Nulls
    Written <- ThreeEntries
    Files <- AllFiles
    MaxLines = 4
CHECK_DEADLOCK FALSE
INVARIANTS
    AcceptedIsWritten
    FirstFailureIsReported
    UntouchedIsAccepted
