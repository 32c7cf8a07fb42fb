SPECIFICATION Spec
CONSTANTS
    MaxPosts = 1
    Origins = {web}
    External = {}
    Tokens = {t1}
    NoToken = NoToken
    MaxAttempts = 1
    SoloChoices = {FALSE}
    Features = {"autoRun"}
    Dispatches <- MCDispatches
    NoDispatch = 0
    Starts = {"new", "imported", "cloned", "handoff"}
    MaxStops = 2
    MaxFaults = 0
    MaxEvents = 0
CHECK_DEADLOCK FALSE
INVARIANTS
    GenerationsMatch
PROPERTIES
    SettledIsFinal
    RetryKeepsPosts
    DeliveryRefined
