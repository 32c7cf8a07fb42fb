SPECIFICATION FairSpec
CONSTANTS
    t = t
    n = n
    u = u
    Runs = {t, n}
    Parent = Parent
    Launcher <- MCLauncher
    FollowUps = {t}
    MaxTurns = 2
    MaxFaults = 1
CHECK_DEADLOCK FALSE
INVARIANTS
    StoppedIsStopped
    StoppedTurnIsOver
PROPERTIES
    StopEnds
