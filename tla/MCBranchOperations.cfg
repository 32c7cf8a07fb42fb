SPECIFICATION Spec
CONSTANTS
    f1 = f1
    d1 = d1
    z1 = z1
    Forks = {f1}
    Clones = {d1}
    Compactions = {z1}
    MaxLeaf = 3
    MaxFaults = 2
CHECK_DEADLOCK FALSE
INVARIANTS
    OneChildPerOperation
    ChildIsTheAccepted
    QuarantinedUntilAcknowledged
    CompactedOnce
PROPERTIES
    FailedForkLeavesNoFence
    FencedSourceIsStill
