SPECIFICATION Spec
CONSTANTS
    LayerKinds = {"layer_output"}
    OtherKinds = {"logits"}
    Tensors <- SmallTensors
    Margins <- FourMargins
    MaxSamples = 2
    Default <- SmallConfig
    SavedConfigs <- TwoConfigs
    Alternatives <- EditedValues
    MaxEdits = 3
    MaxFitEdits = 1
CHECK_DEADLOCK FALSE
INVARIANTS
    ReplayIsClean
    DriftIsFlagged
    QuietLoadIsFaithful
    IntactRoundTrips
    MountedProfileIsOwn
