SPECIFICATION FairSpec
CONSTANTS
    Capacity = 4
    ZERO = ZERO
    n_layers = 2
    model_vocab = 4
    vocab_size = 3
    forbidden_tokens <- Denied
    max_consecutive_repeats = 2
    max_new_tokens = 3
    budget = 4
    mode = "enforce"
    traced = TRUE
    audited = TRUE
    Prompts <- AllPrompts
    Tensors <- AllTensors
    IOFaults = TRUE
    MaxSessions = 1
    MaxFaults = 1
CHECK_DEADLOCK FALSE
INVARIANTS
    TypeOK
    CacheIsHistory
    ContextIsUsedUp
    EmissionsPermitted
    TrailTellsSession
    EveryBoundaryInspected
PROPERTIES
    DivergenceStops
    GenerateEnds
