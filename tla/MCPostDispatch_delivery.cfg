SPECIFICATION Spec
CONSTANTS
    MaxPosts = 2
    Origins = {web, discord}
    External = {discord}
    Tokens = {t1, t2}
    NoToken = NoToken
    MaxAttempts = 2
    SoloChoices = {FALSE, TRUE}
    Features = {"branching", "closing"}
    Dispatches <- MCDispatches
    NoDispatch = 0
    Starts = {"new", "imported", "cloned"}
    MaxStops = 0
    MaxFaults = 1
    MaxEvents = 0
CHECK_DEADLOCK FALSE
INVARIANTS
    AcceptedOnce
    DispatchedWasAccepted
    GroupsAreUniform
