SPECIFICATION FairSpec
CONSTANTS
    m1 = m1
    m2 = m2
    a = a
    b = b
    None = None
    Messages = {m1, m2}
    Sources = {a, b}
    Refs <- MCRefs
    MaxTries = 2
    MaxFaults = 1
CHECK_DEADLOCK FALSE
INVARIANTS
    PostsInArrivalOrder
    AttachedOnce
    LinkedKeepsCustody
    NotifiedOnce
PROPERTIES
    MessagesSettle
