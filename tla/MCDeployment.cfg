SPECIFICATION DeployFairSpec
CONSTANTS
    Ops = {opA, opB}
    Works = {w1}
    CompletedCap = 2
    MaxWaits = 1
    MaxRenewals = 4
    NoOp = NoOp
    Kinds = {"monika", "forum", "both", "backup"}
    Overlap = FALSE
    MaxFaults = 1
CHECK_DEADLOCK FALSE
INVARIANTS
    ReplacedUnderFence
    DoneIsOpen
PROPERTIES
    NothingIsCutOff
    ReplacementIsDrained
    DrainEnds
