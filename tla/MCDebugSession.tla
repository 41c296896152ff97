-------------------------- MODULE MCDebugSession --------------------------
(* Small instances of DebugSession: two instruction addresses and a few      *)
(* commands from a chosen set of kinds.                                      *)
EXTENDS DebugSession

CONSTANTS p1, p2

MCPCs == {p1, p2}
StopKinds == {"Pause", "Continue", "Step", "StepOver", "AddBreakpoint",
              "ClearBreakpoints", "AddWatchpoint", "ClearWatchpoints", "AddCatch",
              "HistoryOn", "HistoryOff", "SetPc", "HardReset", "GuestRestart"}
ServeKinds == {"Pause", "Continue", "Step", "AddBreakpoint"}
TraceKinds == ServeKinds \cup {"StepOut", "RemoveBreakpoint", "GuestTrace"}
RunEndKinds == {"Step", "StepOver", "AddBreakpoint", "Pause"}

===========================================================================
