SPECIFICATION FairSpec
CONSTANTS
    MaxPosts = 1
    Origins = {web, discord}
    External = {discord}
    Tokens = {t1, t2}
    NoToken = NoToken
    MaxAttempts = 1
    SoloChoices = {FALSE}
    Features = {"branching"}
    Dispatches <- MCDispatches
    NoDispatch = 0
    Starts = {"cloned", "handoff"}
    MaxStops = 1
    MaxFaults = 1
    MaxEvents = 1
CHECK_DEADLOCK FALSE
INVARIANTS
    StoppedIsFenced
PROPERTIES
    PostsSettle
