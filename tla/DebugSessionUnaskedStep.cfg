SPECIFICATION Spec
CONSTANTS
  p1 = p1
  p2 = p2
  PCs <- MCPCs
  ResetPc = p1
  Kinds <- ServeKinds
  kMaxBreakpoints = 1
  kMaxQueued = 2
  MaxPosts = 4
INVARIANTS NoUnaskedStep
