SPECIFICATION Spec
CONSTANTS
    Capacity = 4
    ZERO <- Nothing
    n_layers = 3
    Tokens = {a, b}
INVARIANTS
    RowsArePrefixes
    CachesAreTheContext
    FrameFitsPass
