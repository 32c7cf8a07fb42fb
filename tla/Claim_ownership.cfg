CONSTANTS
  c1 = c1
  c2 = c2
  Clients = {c1, c2}
  FreshClient = c1
  LeaseTicks = 2
  PreparedTicks = 1
  MaxTokens = 2
  MaxFaults = 0
SPECIFICATION Spec
INVARIANT ProtectedKeepsAgentdOut

CHECK_DEADLOCK FALSE
