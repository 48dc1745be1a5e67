SPECIFICATION Spec
CONSTANTS
    Capacity = 3
    ZERO = ZERO
    n_layers = 2
    model_vocab = 4
    vocab_size = 3
    forbidden_tokens <- Denied
    max_consecutive_repeats = 2
    max_new_tokens = 1
    budget = 2
    mode = "monitor"
    traced = TRUE
    audited = TRUE
    Prompts <- RunPrompt
    Tensors <- AllTensors
    IOFaults = TRUE
    MaxSessions = 2
    MaxFaults = 1
CHECK_DEADLOCK FALSE
INVARIANTS
    CacheIsHistory
    ShadowReportsEveryOccurrence
    ReportCountsTrail
