CONSTANTS
  c1 = c1
  c2 = c2
  Clients = {c1, c2}
  FreshClient = c1
  LeaseTicks = 2
  PreparedTicks = 1
  MaxTokens = 2
  MaxFaults = 1
SPECIFICATION Spec
INVARIANTS ProtectedIsAlone

CHECK_DEADLOCK FALSE
