SPECIFICATION Spec
CONSTANTS
    n_layers = 4
    d_model = 64
    n_heads = 4
    vocab_size = 256
    PromptLength = 5
    max_new_tokens = 4
    FaultCorpus <- EveryLayer
CHECK_DEADLOCK FALSE
INVARIANTS
    EachTierIsMeasured
    CaughtWhereInjected
PROPERTIES
    ProbePasses
