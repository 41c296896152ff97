SPECIFICATION FairSpec
CONSTANTS
  p1 = p1
  p2 = p2
  PCs <- MCPCs
  ResetPc = p1
  Kinds <- TraceKinds
  kMaxBreakpoints = 1
  kMaxQueued = 2
  MaxPosts = 2
PROPERTIES CommandsServed StopJoins
