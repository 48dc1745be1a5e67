SPECIFICATION Spec
CONSTANTS
    Capacity = 4
    ZERO = ZERO
    n_layers = 2
    model_vocab = 4
    vocab_size = 3
    forbidden_tokens <- Denied
    max_consecutive_repeats = 2
    max_new_tokens = 3
    budget = 4
    mode = "enforce"
    traced = TRUE
    audited = TRUE
    Prompts <- OnePrompt
    Tensors <- SoundOrUnbounded
    IOFaults = FALSE
    MaxSessions = 1
    MaxFaults = 1
CHECK_DEADLOCK FALSE
INVARIANT DivergenceRecorded
