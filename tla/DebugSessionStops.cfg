SPECIFICATION Spec
CONSTANTS
  p1 = p1
  p2 = p2
  PCs <- MCPCs
  ResetPc = p1
  Kinds <- StopKinds
  kMaxBreakpoints = 1
  kMaxQueued = 2
  MaxPosts = 3
INVARIANTS TypeOK HeldWhileStopped SnapshotTruthful RunsStayArmed EngineReturns BreakpointsLive MatchesDelivered
