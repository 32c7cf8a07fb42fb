SPECIFICATION FairSpec
CONSTANTS
    Ops = {opA, opB}
    Works = {w1, w2}
    CompletedCap = 1
    MaxWaits = 2
    MaxRenewals = 1
    NoOp = NoOp
INVARIANTS
    TypeOK
    AcquiredMeansQuiescent
    CounterIsExact
    OwnerIsUnanswered
    FenceIsAttended
PROPERTIES
    HeldFenceSurvives
    OwnershipEnds
