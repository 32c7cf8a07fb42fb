SPECIFICATION FairSpec
CONSTANTS
    m1 = m1
    m2 = m2
    a = a
    b = b
    None = None
    Messages = {m1, m2}
    Sources = {a, b}
    Refs <- MCTwoRefs
    MaxTries = 2
    MaxFaults = 0
CHECK_DEADLOCK FALSE
PROPERTIES
    GapsDoNotBlock
