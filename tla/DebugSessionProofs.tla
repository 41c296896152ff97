------------------------ MODULE DebugSessionProofs ------------------------
(***************************************************************************)
(* The safety of the debugger, for every set of addresses, every set of      *)
(* commands and every number of them.                                        *)
(***************************************************************************)
EXTENDS DebugSession, TLAPS

-----------------------------------------------------------------------------
(* Type correctness, one group of variables at a time.                       *)

QueueType == /\ queue \in Seq(Commands) /\ batch \in Seq(Commands)
             /\ posted \in Nat /\ acked \in Nat
FlagType == /\ running \in BOOLEAN /\ resetQueued \in BOOLEAN /\ quit \in BOOLEAN
            /\ shutdown \in BOOLEAN /\ resumeRequest \in BOOLEAN
AppliedType == applied \in [changed : BOOLEAN, resume : BOOLEAN, step : BOOLEAN,
                            run : Runs, place : Places]
StopType == stopped \in BOOLEAN /\ inQuantum \in BOOLEAN /\ dirty \in BOOLEAN
PlaceType == /\ lastStop \in PCs \cup {NoPc} /\ pc \in PCs /\ bps \subseteq PCs
ArmType == softStop \in BOOLEAN /\ checkBp \in BOOLEAN /\ stepArmed \in BOOLEAN
WatchType == history \in BOOLEAN /\ watches \in BOOLEAN /\ catches \in BOOLEAN
GhostType == asked \in Steps \cup {"Pause", "Continue"}

\* The groups make up the type invariant.
LEMMA TypeGroups ==
    TypeOK <=> /\ QueueType /\ snap \in Snapshots /\ FlagType /\ at \in Threads
               /\ AppliedType /\ StopType /\ reason \in Reasons /\ PlaceType
               /\ ArmType /\ run \in Runs /\ pending \in Pendings /\ WatchType
               /\ GhostType
  BY Zenon DEF TypeOK, QueueType, FlagType, AppliedType, StopType, PlaceType, ArmType,
         WatchType, GhostType

\* The steps of Next.
LEMMA NextCases ==
    ASSUME [Next]_vars
    PROVE  \/ \E c \in Commands : Post(c)
           \/ \E on \in BOOLEAN : SetRunning(on)
           \/ QueueReset \/ Quit \/ Shutdown
           \/ TakeBatchAtBoundary \/ ThreadEnds \/ ApplyCommand \/ EndBatch
           \/ TakeResume \/ Decide \/ QuantumEnds \/ GuestRestarts
           \/ Instruction \/ NoCheck \/ SoftStopPasses \/ SoftStopStops
           \/ NoBreakpoint \/ BreakpointStops \/ HoldTakesBatch \/ HoldReleased
           \/ UNCHANGED vars
  BY Zenon DEF Next, Gui, Machine, Execute, Joined

\* Every command of a batch leaves what Serve() leaves.
LEMMA CommandServes ==
    ASSUME ApplyCommand
    PROVE  \E c : Serve(c)
  BY Zenon DEF ApplyCommand, ApplyPause, ApplyContinue, ApplyClearBreakpoints,
               ApplyStep, ApplyAddBreakpoint, ApplyRemoveBreakpoint, ApplySetPc,
               ApplyWatchCatch, ApplyHistory

\* Which steps touch which variables.
LEMMA Frames ==
    ASSUME [Next]_vars
    PROVE  /\ \/ UNCHANGED <<queue, batch, posted, acked>>
              \/ \E c \in Commands : Post(c)
              \/ TakeBatchAtBoundary \/ ApplyCommand \/ HoldTakesBatch
           /\ \/ UNCHANGED snap
              \/ EndBatch \/ SoftStopStops \/ BreakpointStops
           /\ \/ UNCHANGED <<running, resetQueued, quit, shutdown, resumeRequest>>
              \/ \E on \in BOOLEAN : SetRunning(on)
              \/ QueueReset \/ Quit \/ Shutdown \/ TakeBatchAtBoundary
              \/ EndBatch \/ TakeResume
           /\ \/ UNCHANGED applied
              \/ TakeBatchAtBoundary \/ ApplyCommand \/ EndBatch \/ HoldTakesBatch
           /\ \/ UNCHANGED <<stopped, inQuantum, reason>>
              \/ ApplyPause \/ EndBatch \/ SoftStopStops \/ BreakpointStops
              \/ HoldReleased
           /\ \/ UNCHANGED dirty
              \/ TakeBatchAtBoundary \/ EndBatch \/ GuestRestarts \/ Instruction
              \/ SoftStopStops \/ BreakpointStops
           /\ \/ UNCHANGED lastStop
              \/ GuestRestarts \/ Instruction \/ SoftStopStops \/ BreakpointStops
           /\ \/ UNCHANGED <<pc, bps>>
              \/ TakeBatchAtBoundary \/ ApplyCommand \/ GuestRestarts
              \/ Instruction
           /\ \/ UNCHANGED <<softStop, checkBp>>
              \/ TakeBatchAtBoundary \/ ApplyCommand \/ EndBatch \/ GuestRestarts
              \/ Instruction \/ SoftStopPasses \/ SoftStopStops
              \/ BreakpointStops
           /\ \/ UNCHANGED <<stepArmed, run>>
              \/ ApplyPause \/ EndBatch \/ SoftStopPasses \/ SoftStopStops
              \/ BreakpointStops
           /\ \/ UNCHANGED pending
              \/ Instruction \/ SoftStopStops
           /\ \/ UNCHANGED <<history, watches, catches>>
              \/ ApplyCommand
           /\ \/ UNCHANGED asked
              \/ ApplyCommand
<1> USE DEF SetRunning, QueueReset, Quit, Shutdown,
     TakeBatchAtBoundary, ThreadEnds, EndBatch, TakeResume, Decide, QuantumEnds,
     GuestRestarts, Instruction, NoCheck, SoftStopPasses, SoftStopStops,
     NoBreakpoint, BreakpointStops, HoldTakesBatch, HoldReleased, vars, guiVars,
     stopVars, cpuVars
<1>1. \/ UNCHANGED <<queue, batch, posted, acked>>
      \/ \E c \in Commands : Post(c)
      \/ TakeBatchAtBoundary \/ ApplyCommand \/ HoldTakesBatch
  BY NextCases, Zenon
<1>2. \/ UNCHANGED snap
      \/ EndBatch \/ SoftStopStops \/ BreakpointStops
  BY NextCases, CommandServes, Zenon DEF Post, Serve
<1>3. \/ UNCHANGED <<running, resetQueued, quit, shutdown, resumeRequest>>
      \/ \E on \in BOOLEAN : SetRunning(on)
      \/ QueueReset \/ Quit \/ Shutdown \/ TakeBatchAtBoundary
      \/ EndBatch \/ TakeResume
  BY NextCases, CommandServes, Zenon DEF Post, Serve
<1>4. \/ UNCHANGED applied
      \/ TakeBatchAtBoundary \/ ApplyCommand \/ EndBatch \/ HoldTakesBatch
  BY NextCases, Zenon DEF Post
<1>5. \/ UNCHANGED <<stopped, inQuantum, reason>>
      \/ ApplyPause \/ EndBatch \/ SoftStopStops \/ BreakpointStops
      \/ HoldReleased
  BY NextCases, Zenon DEF Post, ApplyCommand, ApplyContinue,
     ApplyClearBreakpoints, ApplyStep, ApplyAddBreakpoint, ApplyRemoveBreakpoint, ApplySetPc,
     ApplyWatchCatch, ApplyHistory
<1>6. \/ UNCHANGED dirty
      \/ TakeBatchAtBoundary \/ EndBatch \/ GuestRestarts \/ Instruction
      \/ SoftStopStops \/ BreakpointStops
  BY NextCases, CommandServes, Zenon DEF Post, Serve
<1>7. \/ UNCHANGED lastStop
      \/ GuestRestarts \/ Instruction \/ SoftStopStops \/ BreakpointStops
  BY NextCases, CommandServes, Zenon DEF Post, Serve
<1>8. \/ UNCHANGED <<pc, bps>>
      \/ TakeBatchAtBoundary \/ ApplyCommand \/ GuestRestarts
      \/ Instruction
  BY NextCases, Zenon DEF Post
<1>9. \/ UNCHANGED <<softStop, checkBp>>
      \/ TakeBatchAtBoundary \/ ApplyCommand \/ EndBatch \/ GuestRestarts
      \/ Instruction \/ SoftStopPasses \/ SoftStopStops
      \/ BreakpointStops
  BY NextCases, Zenon DEF Post
<1>10. \/ UNCHANGED <<stepArmed, run>>
       \/ ApplyPause \/ EndBatch \/ SoftStopPasses \/ SoftStopStops
       \/ BreakpointStops
  BY NextCases, Zenon DEF Post, ApplyCommand, ApplyContinue,
     ApplyClearBreakpoints, ApplyStep, ApplyAddBreakpoint, ApplyRemoveBreakpoint, ApplySetPc,
     ApplyWatchCatch, ApplyHistory
<1>11. \/ UNCHANGED pending
       \/ Instruction \/ SoftStopStops
  BY NextCases, CommandServes, Zenon DEF Post, Serve
<1>12. \/ UNCHANGED <<history, watches, catches>>
       \/ ApplyCommand
  BY NextCases, Zenon DEF Post
<1>13. \/ UNCHANGED asked
       \/ ApplyCommand
  BY NextCases, Zenon DEF Post
<1> HIDE DEF SetRunning, QueueReset, Quit, Shutdown, TakeBatchAtBoundary,
     ThreadEnds, EndBatch, TakeResume, Decide, QuantumEnds, GuestRestarts,
     Instruction, NoCheck, SoftStopPasses, SoftStopStops, NoBreakpoint,
     BreakpointStops, HoldTakesBatch, HoldReleased, vars, guiVars, stopVars,
     cpuVars
<1> QED  BY <1>1, <1>2, <1>3, <1>4, <1>5, <1>6, <1>7, <1>8, <1>9,
     <1>10, <1>11, <1>12, <1>13, Zenon

\* The steps that serve one command of a batch.
LEMMA CommandCases ==
    ASSUME ApplyCommand
    PROVE  \/ ApplyPause \/ ApplyContinue \/ ApplyClearBreakpoints
           \/ \E k \in Steps : ApplyStep(k)
           \/ \E a \in PCs : ApplyAddBreakpoint(a)
           \/ \E a \in PCs : ApplyRemoveBreakpoint(a)
           \/ \E a \in PCs : ApplySetPc(a)
           \/ \E k \in PlainKinds : ApplyWatchCatch(k)
           \/ \E k \in PlainKinds : ApplyHistory(k)
  BY Zenon DEF ApplyCommand

\* The command queue and the batch.
LEMMA QueueTypeStep == TypeOK /\ [Next]_vars => QueueType'
<1> SUFFICES ASSUME TypeOK, [Next]_vars PROVE QueueType'
  OBVIOUS
<1>0. QueueType
  BY TypeGroups
<1> USE DEF QueueType
<1>1. ASSUME NEW c \in Commands, Post(c) PROVE QueueType'
  BY <1>0, <1>1 DEF Post
<1>2. CASE TakeBatchAtBoundary
  BY <1>0, <1>2 DEF TakeBatchAtBoundary
<1>3. ASSUME NEW c, Serve(c) PROVE QueueType'
  BY <1>0, <1>3 DEF Serve, guiVars
<1>4. CASE HoldTakesBatch
  BY <1>0, <1>4 DEF HoldTakesBatch, CommandWakes
<1>5. \/ UNCHANGED <<queue, batch, posted, acked>>
      \/ \E c \in Commands : Post(c)
      \/ TakeBatchAtBoundary \/ ApplyCommand \/ HoldTakesBatch
  BY Frames
<1> QED  BY <1>0, <1>1, <1>2, <1>3, <1>4, <1>5, CommandServes, Zenon

\* The switches shared with the GUI thread.
LEMMA FlagTypeStep == TypeOK /\ [Next]_vars => FlagType'
<1> SUFFICES ASSUME TypeOK, [Next]_vars PROVE FlagType'
  OBVIOUS
<1>0. FlagType /\ AppliedType
  BY TypeGroups
<1>1. applied.resume \in BOOLEAN
  BY <1>0 DEF AppliedType
<1>2. \/ UNCHANGED <<running, resetQueued, quit, shutdown, resumeRequest>>
      \/ \E on \in BOOLEAN : SetRunning(on)
      \/ QueueReset \/ Quit \/ Shutdown \/ TakeBatchAtBoundary
      \/ EndBatch \/ TakeResume
  BY Frames
<1> QED  BY <1>0, <1>1, <1>2, Zenon DEF FlagType, SetRunning, QueueReset, Quit,
            Shutdown, TakeBatchAtBoundary, EndBatch, TakeResume

\* The outcome of a batch.
LEMMA AppliedTypeStep == TypeOK /\ [Next]_vars => AppliedType'
<1> SUFFICES ASSUME TypeOK, [Next]_vars PROVE AppliedType'
  OBVIOUS
<1>0. AppliedType /\ stopped \in BOOLEAN
  BY TypeGroups DEF StopType
<1> USE DEF AppliedType, Runs, Places
<1>1. NotApplied \in [changed : BOOLEAN, resume : BOOLEAN, step : BOOLEAN,
                      run : Runs, place : Places]
  BY DEF NotApplied
<1>2. CASE TakeBatchAtBoundary \/ EndBatch
  BY <1>1, <1>2 DEF TakeBatchAtBoundary, EndBatch
<1>3. CASE HoldTakesBatch
  BY <1>1, <1>3 DEF HoldTakesBatch, HoldPlace
<1>4. CASE Changed
  BY <1>0, <1>4, Zenon DEF Changed
<1>5. CASE ApplyContinue
  BY <1>0, <1>5, Zenon DEF ApplyContinue
<1>6. ASSUME NEW k \in Steps, ApplyStep(k) PROVE AppliedType'
  BY <1>0, <1>6, Zenon DEF ApplyStep
<1>7. ApplyCommand => \/ Changed \/ ApplyContinue
                      \/ \E k \in Steps : ApplyStep(k)
  BY CommandCases, Zenon DEF ApplyPause, ApplyClearBreakpoints,
     ApplyAddBreakpoint, ApplyRemoveBreakpoint, ApplySetPc, ApplyWatchCatch,
     ApplyHistory
<1>8. \/ UNCHANGED applied
      \/ TakeBatchAtBoundary \/ ApplyCommand \/ EndBatch \/ HoldTakesBatch
  BY Frames
<1> QED  BY <1>0, <1>2, <1>3, <1>4, <1>5, <1>6, <1>7, <1>8

\* The stop of the session.
LEMMA StopTypeStep ==
    TypeOK /\ [Next]_vars => StopType' /\ reason' \in Reasons
<1> SUFFICES ASSUME TypeOK, [Next]_vars PROVE StopType' /\ reason' \in Reasons
  OBVIOUS
<1>0. StopType /\ reason \in Reasons /\ pending \in Pendings
  BY TypeGroups
<1>1. \/ UNCHANGED <<stopped, inQuantum, reason>>
      \/ ApplyPause \/ EndBatch \/ SoftStopStops \/ BreakpointStops
      \/ HoldReleased
  BY Frames
<1>2. \/ UNCHANGED dirty
      \/ TakeBatchAtBoundary \/ EndBatch \/ GuestRestarts \/ Instruction
      \/ SoftStopStops \/ BreakpointStops
  BY Frames
<1>3. stopped' \in BOOLEAN /\ inQuantum' \in BOOLEAN
  BY <1>0, <1>1, Zenon DEF StopType, ApplyPause, EndBatch, SoftStopStops,
     BreakpointStops, HoldReleased, StopFor, stopVars
<1>4. dirty' \in BOOLEAN
  BY <1>0, <1>2, Zenon DEF StopType, TakeBatchAtBoundary, EndBatch,
     GuestRestarts, Instruction, SoftStopStops, BreakpointStops, StopFor
<1>5. reason' \in Reasons
  BY <1>0, <1>1, Zenon DEF Reasons, Pendings, ApplyPause, EndBatch, SoftStopStops,
     BreakpointStops, HoldReleased, StopFor, stopVars
<1> QED  BY <1>3, <1>4, <1>5 DEF StopType

\* The snapshot.
LEMMA SnapTypeStep == TypeOK /\ [Next]_vars => snap' \in Snapshots
<1> SUFFICES ASSUME TypeOK, [Next]_vars PROVE snap' \in Snapshots
  OBVIOUS
<1>0. /\ snap \in Snapshots /\ acked \in Nat /\ pc \in PCs /\ bps \in SUBSET PCs
      /\ pending \in Pendings
  BY TypeGroups DEF PlaceType, QueueType
<1>1. ASSUME NEW stop \in BOOLEAN, NEW inside \in BOOLEAN, NEW why \in Reasons,
             Published(stop, inside, why, acked, pc, bps)
      PROVE  snap' \in Snapshots
  <2>1. (stop /\ inside) \in BOOLEAN /\ "None" \in Reasons
    BY DEF Reasons
  <2> QED  BY <1>0, <1>1, <2>1 DEF Published, Snapshots
<1>2. CASE EndBatch
  <2>1. stopped' \in BOOLEAN /\ inQuantum' \in BOOLEAN /\ reason' \in Reasons
    BY StopTypeStep DEF StopType
  <2>2. UNCHANGED snap \/ Published(stopped', inQuantum', reason', acked, pc, bps)
    BY <1>2, Zenon DEF EndBatch
  <2> QED  BY <1>0, <1>1, <2>1, <2>2, Zenon
<1>3. CASE SoftStopStops
  <2> DEFINE why == IF pending # "None" THEN pending ELSE "Step"
  <2>1. why \in Reasons
    BY <1>0 DEF Pendings, Reasons
  <2>2. UNCHANGED snap \/ Published(TRUE, TRUE, why, acked, pc, bps)
    BY <1>3, Zenon DEF SoftStopStops, StopFor
  <2> QED  BY <1>0, <1>1, <2>1, <2>2, Zenon
<1>4. CASE BreakpointStops
  <2>1. "Breakpoint" \in Reasons
    BY DEF Reasons
  <2>2. UNCHANGED snap \/ Published(TRUE, TRUE, "Breakpoint", acked, pc, bps)
    BY <1>4, Zenon DEF BreakpointStops, StopFor
  <2> QED  BY <1>0, <1>1, <2>1, <2>2, Zenon
<1>5. UNCHANGED snap \/ EndBatch \/ SoftStopStops \/ BreakpointStops
  BY Frames
<1> QED  BY <1>0, <1>2, <1>3, <1>4, <1>5

\* Where the machine thread is.
LEMMA ThreadTypeStep == TypeOK /\ [Next]_vars => at' \in Threads
<1> SUFFICES ASSUME TypeOK, [Next]_vars PROVE at' \in Threads
  OBVIOUS
<1>0. at \in Threads
  BY TypeGroups
<1> USE DEF Threads, Holds
<1>1. CASE EndBatch \/ SoftStopStops \/ BreakpointStops
  BY <1>1, Zenon DEF EndBatch, AfterBatch, SoftStopStops, BreakpointStops, StopFor
<1>2. CASE TakeBatchAtBoundary \/ ThreadEnds \/ TakeResume \/ Decide \/ QuantumEnds
  BY <1>2 DEF TakeBatchAtBoundary, ThreadEnds, TakeResume, Decide, QuantumEnds
<1>3. CASE \/ Instruction \/ NoCheck \/ SoftStopPasses \/ NoBreakpoint
           \/ HoldTakesBatch \/ HoldReleased
  BY <1>3 DEF Instruction, NoCheck, SoftStopPasses, NoBreakpoint, HoldTakesBatch,
              HoldReleased, GoesOnFrom
<1>4. \/ at' = at \/ EndBatch \/ SoftStopStops \/ BreakpointStops
      \/ TakeBatchAtBoundary \/ ThreadEnds \/ TakeResume \/ Decide \/ QuantumEnds
      \/ Instruction \/ NoCheck \/ SoftStopPasses \/ NoBreakpoint
      \/ HoldTakesBatch \/ HoldReleased
  BY NextCases, CommandServes, Zenon DEF Post, SetRunning, QueueReset, Quit,
     Shutdown, GuestRestarts, Serve, vars
<1> QED  BY <1>0, <1>1, <1>2, <1>3, <1>4, Zenon

\* The CPU's position and its breakpoints.
LEMMA PlaceTypeStep == TypeOK /\ [Next]_vars => PlaceType'
<1> SUFFICES ASSUME TypeOK, [Next]_vars PROVE PlaceType'
  OBVIOUS
<1>0. PlaceType
  BY TypeGroups, SMTT(20)
<1>1. lastStop' \in PCs \cup {NoPc}
  <2>1. \/ UNCHANGED lastStop
        \/ GuestRestarts \/ Instruction \/ SoftStopStops \/ BreakpointStops
    BY Frames
  <2> QED  BY <1>0, <2>1, Zenon DEF PlaceType, GuestRestarts, Instruction,
              SoftStopStops, BreakpointStops, StopFor
<1>2. pc' \in PCs /\ bps' \subseteq PCs
  <2>1. CASE TakeBatchAtBoundary \/ GuestRestarts \/ Instruction
    BY <1>0, <2>1, ResetAssumption DEF PlaceType, TakeBatchAtBoundary,
       GuestRestarts, Instruction
  <2>2. ASSUME NEW a \in PCs,
               \/ ApplyAddBreakpoint(a) \/ ApplyRemoveBreakpoint(a) \/ ApplySetPc(a)
        PROVE  pc' \in PCs /\ bps' \subseteq PCs
    BY <1>0, <2>2 DEF PlaceType, ApplyAddBreakpoint, ApplyRemoveBreakpoint,
       ApplySetPc
  <2>3. CASE ApplyClearBreakpoints
    BY <1>0, <2>3 DEF PlaceType, ApplyClearBreakpoints
  <2>4. ApplyCommand => \/ UNCHANGED <<pc, bps>> \/ ApplyClearBreakpoints
                        \/ \E a \in PCs : ApplyAddBreakpoint(a)
                        \/ \E a \in PCs : ApplyRemoveBreakpoint(a)
                        \/ \E a \in PCs : ApplySetPc(a)
    BY CommandCases, Zenon DEF ApplyPause, ApplyContinue, ApplyStep,
       ApplyWatchCatch, ApplyHistory
  <2>5. \/ UNCHANGED <<pc, bps>>
        \/ TakeBatchAtBoundary \/ ApplyCommand \/ GuestRestarts
        \/ Instruction
    BY Frames
  <2> QED  BY <1>0, <2>1, <2>2, <2>3, <2>4, <2>5, Zenon DEF PlaceType
<1> QED  BY <1>1, <1>2 DEF PlaceType

\* The soft stop and what waits for it.
LEMMA ArmTypeStep ==
    TypeOK /\ [Next]_vars => ArmType' /\ run' \in Runs /\ pending' \in Pendings
<1> SUFFICES ASSUME TypeOK, [Next]_vars
             PROVE  ArmType' /\ run' \in Runs /\ pending' \in Pendings
  OBVIOUS
<1>0. /\ ArmType /\ run \in Runs /\ pending \in Pendings /\ history \in BOOLEAN
      /\ AppliedType
  BY TypeGroups DEF WatchType
<1>1. \/ UNCHANGED <<softStop, checkBp>>
      \/ TakeBatchAtBoundary \/ ApplyCommand \/ EndBatch \/ GuestRestarts
      \/ Instruction \/ SoftStopPasses \/ SoftStopStops
      \/ BreakpointStops
  BY Frames
<1>2. \/ UNCHANGED <<stepArmed, run>>
      \/ ApplyPause \/ EndBatch \/ SoftStopPasses \/ SoftStopStops
      \/ BreakpointStops
  BY Frames
<1>3. pending' \in Pendings
  <2>1. UNCHANGED pending \/ Instruction \/ SoftStopStops
    BY Frames, SMTT(20)
  <2> QED  BY <1>0, <2>1 DEF Pendings, Instruction, SoftStopStops
<1>4. run' \in Runs
  BY <1>0, <1>2, Zenon DEF Runs, AppliedType, ApplyPause, EndBatch, SoftStopPasses,
     SoftStopStops, BreakpointStops
<1>5. stepArmed' \in BOOLEAN
  BY <1>0, <1>2, Zenon DEF ArmType, ApplyPause, EndBatch, SoftStopPasses,
     SoftStopStops, BreakpointStops
<1>6. softStop' \in BOOLEAN /\ checkBp' \in BOOLEAN
  <2>1. CASE TakeBatchAtBoundary \/ EndBatch \/ GuestRestarts \/ Instruction
             \/ SoftStopPasses \/ SoftStopStops \/ BreakpointStops
    BY <1>0, <2>1, Zenon DEF ArmType, Armed, DropSoftStop, TakeBatchAtBoundary,
       EndBatch, GuestRestarts, Instruction, SoftStopPasses, SoftStopStops,
       BreakpointStops
  <2>2. CASE ApplyCommand
    BY <1>0, <2>2, CommandCases, Zenon DEF ArmType, Armed, DropSoftStop,
       ApplyPause, ApplyContinue, ApplyClearBreakpoints, ApplyStep,
       ApplyAddBreakpoint, ApplyRemoveBreakpoint, ApplySetPc, ApplyWatchCatch,
       ApplyHistory
  <2> QED  BY <1>0, <1>1, <2>1, <2>2, Zenon DEF ArmType
<1> QED  BY <1>3, <1>4, <1>5, <1>6 DEF ArmType

\* The history, the lists of the adapter, and the ghosts.
LEMMA WatchTypeStep == TypeOK /\ [Next]_vars => WatchType' /\ GhostType'
<1> SUFFICES ASSUME TypeOK, [Next]_vars PROVE WatchType' /\ GhostType'
  OBVIOUS
<1>0. WatchType /\ GhostType /\ AppliedType
  BY TypeGroups
<1>1. CASE ApplyCommand
  <2>1. WatchType'
    BY <1>0, <1>1, CommandCases, Zenon DEF WatchType, ApplyPause, ApplyContinue,
       ApplyClearBreakpoints, ApplyStep, ApplyAddBreakpoint,
       ApplyRemoveBreakpoint, ApplySetPc, ApplyWatchCatch, ApplyHistory
  <2>2. asked' \in Steps \cup {"Pause", "Continue"}
    <3>1. \/ UNCHANGED asked \/ ApplyPause \/ ApplyContinue
          \/ \E k \in Steps : ApplyStep(k)
      BY <1>1, CommandCases, Zenon DEF ApplyClearBreakpoints,
         ApplyAddBreakpoint, ApplyRemoveBreakpoint, ApplySetPc, ApplyWatchCatch,
         ApplyHistory
    <3> QED  BY <1>0, <3>1, Zenon DEF GhostType, ApplyPause, ApplyContinue, ApplyStep
  <2> QED  BY <2>1, <2>2, Zenon DEF GhostType
<1>2. WatchType'
  BY <1>0, <1>1, Frames, Zenon DEF WatchType
<1>3. GhostType'
  BY <1>0, <1>1, Frames, Zenon DEF GhostType
<1> QED  BY <1>2, <1>3

\* Every step keeps the types.
LEMMA TypeStep == TypeOK /\ [Next]_vars => TypeOK'
<1> SUFFICES ASSUME TypeOK, [Next]_vars PROVE TypeOK'
  OBVIOUS
<1>1. /\ QueueType' /\ FlagType' /\ AppliedType' /\ StopType' /\ reason' \in Reasons
      /\ snap' \in Snapshots /\ at' \in Threads
  BY QueueTypeStep, FlagTypeStep, AppliedTypeStep, StopTypeStep, SnapTypeStep,
     ThreadTypeStep
<1>2. /\ PlaceType' /\ ArmType' /\ run' \in Runs /\ pending' \in Pendings
      /\ WatchType' /\ GhostType'
  BY PlaceTypeStep, ArmTypeStep, WatchTypeStep
<1> QED  BY <1>1, <1>2, Zenon DEF TypeOK, QueueType, FlagType, AppliedType,
            StopType, PlaceType, ArmType, WatchType, GhostType

-----------------------------------------------------------------------------
(* The inductive invariant.                                                  *)

\* CHECK_BP without a breakpoint is up for a soft stop somebody waits for.
CheckInv ==
    checkBp /\ bps = {} =>
        softStop /\ (stepArmed \/ run # "none" \/ history \/ pending # "None")

\* Commands served inside a quantum find the machine stopped.
HoldInv ==
    at \in Holds \/ (at = "apply" /\ applied.place # "boundary") => stopped

\* The snapshot is the machine.
SnapMatches ==
    /\ snap.stopped /\ snap.reason = reason /\ snap.inQuantum = inQuantum
    /\ snap.pc = pc /\ snap.bps = bps /\ snap.acked = acked

\* Of a stopped machine, inQuantum says where it is held; only a reset, between
\* quanta, moves it, and else the snapshot follows it but for the commands of
\* the batch being served.
SnapInv ==
    stopped =>
        /\ at \in Holds => inQuantum
        /\ at \in {"boundary", "resume", "decide"} => ~inQuantum
        /\ at = "apply" => inQuantum = (applied.place # "boundary")
        /\ dirty => /\ at \in {"boundary", "apply", "done"}
                    /\ at = "apply" => applied.place = "boundary"
        /\ ~dirty /\ at # "done" /\ (at = "apply" => ~applied.changed)
             => SnapMatches

IInv == /\ TypeOK /\ HeldWhileStopped /\ MatchesDelivered /\ BreakpointsLive
        /\ RunsStayArmed /\ CheckInv /\ HoldInv /\ SnapInv

\* A stop holds the machine.
LEMMA HeldStep ==
    TypeOK /\ HeldWhileStopped /\ HoldInv /\ [Next]_vars
        => HeldWhileStopped' /\ HoldInv'
<1> SUFFICES ASSUME TypeOK, HeldWhileStopped, HoldInv, [Next]_vars
             PROVE  HeldWhileStopped' /\ HoldInv'
  OBVIOUS
<1> USE DEF HeldWhileStopped, HoldInv, Running, Holds
<1>0. applied.place \in Places /\ applied.resume \in BOOLEAN
  BY DEF TypeOK
<1>1. CASE UNCHANGED <<at, stopped, applied>>
  BY <1>1
<1>2. CASE TakeBatchAtBoundary
  BY <1>2 DEF TakeBatchAtBoundary, NotApplied
<1>3. CASE ThreadEnds \/ TakeResume \/ Decide \/ QuantumEnds
  BY <1>3 DEF ThreadEnds, TakeResume, Decide, RunsNoQuantum, QuantumEnds, stopVars
<1>4. CASE ApplyCommand
  <2>1. at = "apply" /\ at' = "apply"
    BY <1>4, CommandServes, Zenon DEF Serve
  <2>2. applied'.place = applied.place
    <3>1. ASSUME NEW k, ApplyStep(k) PROVE applied'.place = applied.place
      BY <3>1 DEF ApplyStep, TypeOK
    <3>2. Changed \/ ApplyContinue => applied'.place = applied.place
      BY Zenon DEF Changed, ApplyContinue, TypeOK
    <3> QED  BY <1>4, <3>1, <3>2, CommandCases, Zenon DEF ApplyPause,
                ApplyClearBreakpoints, ApplyAddBreakpoint, ApplyRemoveBreakpoint,
                ApplySetPc, ApplyWatchCatch, ApplyHistory
  <2>3. stopped' = stopped \/ stopped'
    BY <1>4, CommandCases, Zenon DEF ApplyPause, ApplyContinue,
       ApplyClearBreakpoints, ApplyStep, ApplyAddBreakpoint,
       ApplyRemoveBreakpoint, ApplySetPc, ApplyWatchCatch, ApplyHistory, stopVars
  <2> QED  BY <2>1, <2>2, <2>3
<1>5. CASE EndBatch
  <2>1. at' = AfterBatch(applied.resume) /\ at = "apply"
    BY <1>5 DEF EndBatch
  <2>2. IF applied.resume THEN stopped' = FALSE ELSE stopped' = stopped
    BY <1>5 DEF EndBatch, stopVars
  <2> QED  BY <1>0, <2>1, <2>2 DEF AfterBatch, Places
<1>6. CASE Instruction \/ NoCheck \/ SoftStopPasses \/ NoBreakpoint
  BY <1>6, SMTT(20) DEF Instruction, NoCheck, SoftStopPasses, NoBreakpoint, stopVars
<1>7. CASE SoftStopStops \/ BreakpointStops
  BY <1>7, Zenon DEF SoftStopStops, BreakpointStops, StopFor, stopVars
<1>8. CASE HoldTakesBatch \/ HoldReleased
  BY <1>8 DEF HoldTakesBatch, CommandWakes, HoldReleased, GoesOnFrom, stopVars
<1>9. \/ UNCHANGED <<at, stopped, applied>> \/ TakeBatchAtBoundary \/ ThreadEnds
      \/ TakeResume \/ Decide \/ QuantumEnds \/ ApplyCommand \/ EndBatch
      \/ Instruction \/ NoCheck \/ SoftStopPasses \/ NoBreakpoint
      \/ SoftStopStops \/ BreakpointStops \/ HoldTakesBatch \/ HoldReleased
  BY NextCases, Zenon DEF Post, SetRunning, QueueReset, Quit, Shutdown,
     GuestRestarts, stopVars, vars
<1> QED  BY <1>1, <1>2, <1>3, <1>4, <1>5, <1>6, <1>7, <1>8, <1>9, Zenon

\* A match is delivered at the end of its execute().
LEMMA MatchStep == MatchesDelivered /\ [Next]_vars => MatchesDelivered'
<1> SUFFICES ASSUME MatchesDelivered, [Next]_vars PROVE MatchesDelivered'
  OBVIOUS
<1> USE DEF MatchesDelivered
<1>1. CASE Instruction
  BY <1>1, Zenon DEF Instruction, Armed
<1>2. CASE SoftStopStops
  BY <1>2, Zenon DEF SoftStopStops
<1>3. CASE SoftStopPasses
  BY <1>3, Zenon DEF SoftStopPasses, MayPass, Armed
<1>4. CASE NoCheck
  BY <1>4, Zenon DEF NoCheck, cpuVars
<1>5. CASE at # "softCheck" /\ at' # "softCheck" /\ pending' = pending
  BY <1>5, Zenon
<1>6. CASE UNCHANGED <<at, pending, softStop, checkBp>>
  BY <1>6, Zenon
<1>7. UNCHANGED pending \/ Instruction \/ SoftStopStops
  BY Frames
<1>8. \/ UNCHANGED <<at, pending, softStop, checkBp>>
      \/ Instruction \/ SoftStopStops \/ SoftStopPasses \/ NoCheck
      \/ at # "softCheck" /\ at' # "softCheck"
  <2>1. CASE EndBatch
    BY <2>1 DEF EndBatch, AfterBatch
  <2>2. CASE ApplyCommand
    BY <2>2, CommandServes, Zenon DEF Serve
  <2>3. CASE HoldReleased \/ BreakpointStops
    BY <2>3, Zenon DEF HoldReleased, GoesOnFrom, BreakpointStops, StopFor, Holds
  <2>4. CASE \/ TakeBatchAtBoundary \/ ThreadEnds \/ TakeResume \/ Decide
             \/ QuantumEnds \/ GuestRestarts \/ NoBreakpoint \/ HoldTakesBatch
    BY <2>4 DEF TakeBatchAtBoundary, ThreadEnds, TakeResume, Decide, QuantumEnds,
       GuestRestarts, NoBreakpoint, HoldTakesBatch, CommandWakes, Holds
  <2> QED  BY <2>1, <2>2, <2>3, <2>4, NextCases, Zenon DEF Post, SetRunning,
              QueueReset, Quit, Shutdown, cpuVars, vars
<1> QED  BY <1>1, <1>2, <1>3, <1>4, <1>5, <1>6, <1>7, <1>8, Zenon

\* CHECK_BP is up while there is a breakpoint, and otherwise only for a soft
\* stop in use.
LEMMA CheckStep ==
    TypeOK /\ BreakpointsLive /\ CheckInv /\ MatchesDelivered /\ [Next]_vars
        => BreakpointsLive' /\ CheckInv'
<1> SUFFICES ASSUME TypeOK, BreakpointsLive, CheckInv, MatchesDelivered, [Next]_vars
             PROVE  BreakpointsLive' /\ CheckInv'
  OBVIOUS
<1> USE DEF BreakpointsLive, CheckInv
<1>1. CASE UNCHANGED cpuVars
  BY <1>1, Zenon DEF cpuVars
<1>2. CASE TakeBatchAtBoundary \/ GuestRestarts
  BY <1>2, Zenon DEF TakeBatchAtBoundary, GuestRestarts
<1>3. CASE ApplyPause
  BY <1>3, Zenon DEF ApplyPause, Serve, DropSoftStop
<1>4. CASE \E a \in PCs : ApplyAddBreakpoint(a)
  <2>1. PICK a \in PCs : ApplyAddBreakpoint(a)
    BY <1>4
  <2>2. CASE bps' = bps /\ checkBp' = checkBp
    BY <2>1, <2>2, Zenon DEF ApplyAddBreakpoint, Serve
  <2>3. CASE bps' = bps \cup {a} /\ checkBp' = TRUE
    BY <2>3, Zenon
  <2> QED  BY <2>1, <2>2, <2>3, Zenon DEF ApplyAddBreakpoint
<1>5. CASE \/ \E a \in PCs : ApplyRemoveBreakpoint(a)
           \/ ApplyClearBreakpoints
  BY <1>5, Zenon DEF ApplyRemoveBreakpoint, ApplyClearBreakpoints
<1>6. CASE \E k \in PlainKinds : ApplyHistory(k)
  <2>1. UNCHANGED <<bps, stepArmed, run, pending>>
    BY <1>6, Zenon DEF ApplyHistory, Serve
  <2>2. IF history' = history THEN UNCHANGED <<softStop, checkBp>>
        ELSE IF history' THEN Armed
        ELSE IF run = "none" /\ ~stepArmed THEN DropSoftStop
        ELSE UNCHANGED <<softStop, checkBp>>
    BY <1>6, Zenon DEF ApplyHistory
  <2>3. BreakpointsLive'
    BY <2>1, <2>2, Zenon DEF Armed, DropSoftStop
  <2>4. CASE history' = history \/ history'
    BY <2>1, <2>2, <2>4, Zenon DEF Armed
  <2>5. CASE ~history' /\ history' # history
    BY <2>1, <2>2, <2>5, Zenon DEF DropSoftStop
  <2> QED  BY <2>3, <2>4, <2>5, Zenon
<1>7. CASE \/ ApplyContinue \/ \E k \in Steps : ApplyStep(k)
           \/ \E a \in PCs : ApplySetPc(a)
           \/ \E k \in PlainKinds : ApplyWatchCatch(k)
  <2>1. UNCHANGED <<bps, softStop, checkBp, stepArmed, run, history>>
    BY <1>7, Zenon DEF ApplyContinue, ApplyStep, ApplySetPc, ApplyWatchCatch
  <2>2. UNCHANGED pending
    BY <1>7, Zenon DEF ApplyContinue, ApplyStep, ApplySetPc, ApplyWatchCatch,
       Serve
  <2> QED  BY <2>1, <2>2, Zenon
<1>8. CASE EndBatch
  <2>1. PICK plain \in BOOLEAN :
          LET step == applied.step \/ (applied.run = "over" /\ plain)
              newRun == IF step \/ applied.run = "none" THEN run ELSE applied.run
          IN /\ stepArmed' = (stepArmed \/ step)
             /\ run' = newRun
             /\ IF ArmsSoftStop(step, newRun) THEN Armed
                ELSE UNCHANGED <<softStop, checkBp>>
    BY <1>8, Zenon DEF EndBatch
  <2> DEFINE step == applied.step \/ (applied.run = "over" /\ plain)
             newRun == IF step \/ applied.run = "none" THEN run ELSE applied.run
  <2>2. /\ stepArmed' = (stepArmed \/ step) /\ run' = newRun
        /\ IF step \/ newRun # "none" \/ history THEN softStop' /\ checkBp'
           ELSE softStop' = softStop /\ checkBp' = checkBp
    BY <2>1, Zenon DEF ArmsSoftStop, Armed
  <2>3. run # "none" => newRun # "none"
    BY Zenon
  <2>4. bps' = bps /\ history' = history /\ pending' = pending
    BY <1>8, Zenon DEF EndBatch
  <2> QED  BY <2>2, <2>3, <2>4, Zenon
<1>9. CASE Instruction
  <2>1. UNCHANGED <<bps, stepArmed, run, history>>
    BY <1>9, Zenon DEF Instruction
  <2>2. \/ UNCHANGED <<pending, softStop, checkBp>>
        \/ pending' # "None" /\ softStop' /\ checkBp'
    BY <1>9, Zenon DEF Instruction, Armed
  <2> QED  BY <2>1, <2>2
<1>10. CASE SoftStopPasses \/ SoftStopStops
  <2>1. CASE SoftStopPasses
    <3>1. softStop' /\ checkBp' /\ UNCHANGED <<bps, run, history>>
      BY <2>1, Zenon DEF SoftStopPasses, Armed
    <3>2. run # "none" \/ history
      BY <2>1, Zenon DEF SoftStopPasses, MayPass
    <3> QED  BY <3>1, <3>2, Zenon
  <2>2. CASE SoftStopStops
    <3>1. softStop' = history /\ checkBp' = (history \/ bps # {})
      BY <2>2, Zenon DEF SoftStopStops
    <3>2. UNCHANGED <<bps, history>>
      BY <2>2, Zenon DEF SoftStopStops
    <3> QED  BY <3>1, <3>2, Zenon
  <2> QED  BY <1>10, <2>1, <2>2
<1>11. CASE BreakpointStops
  <2>1. bps # {} /\ bps' = bps
    BY <1>11, Zenon DEF BreakpointStops
  <2>2. checkBp'
    BY <1>11, <2>1, Zenon DEF BreakpointStops, Armed, DropSoftStop
  <2> QED  BY <2>1, <2>2, Zenon
<1>12. ApplyCommand => BreakpointsLive' /\ CheckInv'
  BY <1>3, <1>4, <1>5, <1>6, <1>7, CommandCases
<1>13. \/ UNCHANGED cpuVars \/ TakeBatchAtBoundary \/ GuestRestarts
       \/ ApplyCommand \/ EndBatch \/ Instruction \/ SoftStopPasses
       \/ SoftStopStops \/ BreakpointStops
  BY NextCases, Zenon DEF Post, SetRunning, QueueReset, Quit, Shutdown,
     ThreadEnds, TakeResume, Decide, QuantumEnds, NoCheck, NoBreakpoint,
     HoldTakesBatch, HoldReleased, vars
<1> QED  BY <1>1, <1>2, <1>8, <1>9, <1>10, <1>11, <1>12, <1>13, Zenon

\* Runs and histories keep their soft stop between quanta.
LEMMA ArmedStep == RunsStayArmed /\ [Next]_vars => RunsStayArmed'
<1> SUFFICES ASSUME RunsStayArmed, [Next]_vars PROVE RunsStayArmed'
  OBVIOUS
<1> USE DEF RunsStayArmed
<1>1. CASE EndBatch
  BY <1>1, Zenon DEF EndBatch, ArmsSoftStop, Armed
<1>2. CASE UNCHANGED cpuVars /\ (at' = at \/ TakeResume)
  BY <1>2, Zenon DEF TakeResume, cpuVars
<1>3. CASE at' \notin {"resume", "decide"}
  BY <1>3, Zenon
<1>4. \/ EndBatch
      \/ UNCHANGED cpuVars /\ (at' = at \/ TakeResume)
      \/ at' \notin {"resume", "decide"}
  <2>1. CASE ApplyCommand
    BY <2>1, CommandServes, SMTT(20) DEF Serve
  <2>2. CASE Decide \/ HoldReleased \/ SoftStopStops \/ BreakpointStops \/ NoCheck
    BY <2>2, ZenonT(30) DEF Decide, HoldReleased, GoesOnFrom, SoftStopStops, BreakpointStops,
       NoCheck, StopFor
  <2>3. CASE \/ TakeBatchAtBoundary \/ ThreadEnds \/ QuantumEnds \/ Instruction
             \/ SoftStopPasses \/ NoBreakpoint \/ HoldTakesBatch \/ GuestRestarts
    BY <2>3, Zenon DEF TakeBatchAtBoundary, ThreadEnds, QuantumEnds, Instruction,
       SoftStopPasses, NoBreakpoint, HoldTakesBatch, GuestRestarts
  <2>4. CASE \/ \E c \in Commands : Post(c)
             \/ \E on \in BOOLEAN : SetRunning(on)
             \/ QueueReset \/ Quit \/ Shutdown \/ UNCHANGED vars
    BY <2>4, Zenon DEF Post, SetRunning, QueueReset, Quit, Shutdown, vars
  <2>5. CASE TakeResume
    BY <2>5, Zenon DEF TakeResume
  <2> QED  BY <2>1, <2>2, <2>3, <2>4, <2>5, NextCases
<1> QED  BY <1>1, <1>2, <1>3, <1>4, Zenon

\* The snapshot follows a stopped machine.
LEMMA SnapStep ==
    /\ TypeOK /\ HeldWhileStopped /\ HoldInv /\ SnapInv /\ [Next]_vars
    => SnapInv'
<1> SUFFICES ASSUME TypeOK, HeldWhileStopped, HoldInv, SnapInv, [Next]_vars, stopped'
             PROVE  SnapInv'
  BY DEF SnapInv
<1>0. /\ applied.place \in Places /\ applied.resume \in BOOLEAN
      /\ applied.changed \in BOOLEAN /\ stopped \in BOOLEAN
      /\ inQuantum \in BOOLEAN /\ dirty \in BOOLEAN
  BY SMTT(20) DEF TypeOK
<1> USE DEF SnapInv, SnapMatches, Holds
<1>1. CASE /\ UNCHANGED <<stopped, inQuantum, reason, snap, pc, bps, acked, dirty>>
           /\ UNCHANGED <<at, applied>>
  BY <1>1, SMTT(20)
<1>2. CASE TakeBatchAtBoundary
  <2>1. stopped /\ ~inQuantum /\ (~dirty => SnapMatches)
    BY <1>2, Zenon DEF TakeBatchAtBoundary, stopVars
  <2>2. /\ at' = "apply" /\ applied' = NotApplied
        /\ UNCHANGED <<inQuantum, reason, snap, acked, bps>>
        /\ dirty' \/ (UNCHANGED <<pc, dirty>>)
    BY <1>2, Zenon DEF TakeBatchAtBoundary, stopVars
  <2>3. applied'.place = "boundary" /\ applied'.changed = FALSE
    BY <2>2 DEF NotApplied
  <2>4. ~dirty' => SnapMatches'
    BY <2>1, <2>2, SMTT(20) DEF SnapMatches
  <2> QED  BY <1>0, <2>1, <2>2, <2>3, <2>4, SMTT(20)
<1>3. CASE ThreadEnds \/ TakeResume \/ Decide
  BY <1>3, Zenon DEF ThreadEnds, TakeResume, Decide, RunsNoQuantum, stopVars, cpuVars,
     HeldWhileStopped, Running
<1>4. CASE ApplyCommand
  <2>1. at = "apply" /\ at' = "apply" /\ dirty' = dirty
    BY <1>4, CommandServes, Zenon DEF Serve
  <2>2. applied'.place = applied.place /\ applied'.changed = TRUE
    <3>1. ASSUME NEW k, ApplyStep(k)
          PROVE  applied'.place = applied.place /\ applied'.changed = TRUE
      BY <3>1 DEF ApplyStep, TypeOK
    <3>2. Changed \/ ApplyContinue
            => applied'.place = applied.place /\ applied'.changed = TRUE
      BY Zenon DEF Changed, ApplyContinue, TypeOK
    <3> QED  BY <1>4, <3>1, <3>2, CommandCases, Zenon DEF ApplyPause,
                ApplyClearBreakpoints, ApplyAddBreakpoint, ApplyRemoveBreakpoint,
                ApplySetPc, ApplyWatchCatch, ApplyHistory
  <2>3. \/ UNCHANGED <<stopped, inQuantum>>
        \/ ~stopped /\ inQuantum' = (applied.place # "boundary")
    BY <1>4, CommandCases, Zenon DEF ApplyPause, ApplyContinue,
       ApplyClearBreakpoints, ApplyStep, ApplyAddBreakpoint,
       ApplyRemoveBreakpoint, ApplySetPc, ApplyWatchCatch, ApplyHistory, stopVars
  <2> QED  BY <1>0, <2>1, <2>2, <2>3, Zenon DEF HoldInv, Places
<1>5. CASE EndBatch
  <2>1. at = "apply" /\ ~applied.resume /\ UNCHANGED <<stopped, inQuantum, reason>>
    BY <1>0, <1>5, ZenonT(30) DEF EndBatch, stopVars
  <2>2. at' = AfterBatch(FALSE) /\ UNCHANGED <<pc, bps, acked>>
    BY <1>0, <1>5, <2>1, Zenon DEF EndBatch
  <2>3. \/ applied.place = "boundary" /\ at' = "resume"
        \/ applied.place # "boundary" /\ at' \in Holds
    BY <1>0, <2>2 DEF AfterBatch, Places
  <2>4. \/ Published(stopped', inQuantum', reason', acked, pc, bps) /\ dirty' = FALSE
        \/ UNCHANGED <<snap, dirty>> /\ ~News(stopped')
    BY <1>5, Zenon DEF EndBatch
  <2>5. CASE Published(stopped', inQuantum', reason', acked, pc, bps) /\ dirty' = FALSE
    <3>1. stopped'
      OBVIOUS
    <3>2. SnapMatches'
      BY <1>0, <2>1, <2>2, <2>5, <3>1, Zenon DEF Published
    <3>3. inQuantum' = (applied.place # "boundary")
      BY <1>0, <2>1, <3>1
    <3>4. ~dirty'
      BY <2>5, SMTT(20)
    <3> QED  BY <2>3, <3>2, <3>3, <3>4, Zenon
  <2>6. CASE UNCHANGED <<snap, dirty>> /\ ~News(stopped')
    <3>1. ~applied.changed /\ (applied.place = "boundary" => ~dirty)
      BY <1>0, <2>6, ZenonT(30) DEF News
    <3> QED  BY <1>0, <2>1, <2>2, <2>3, <2>6, <3>1, Zenon
  <2> QED  BY <2>4, <2>5, <2>6, Zenon
<1>6. CASE \/ QuantumEnds \/ GuestRestarts \/ Instruction \/ NoCheck
           \/ SoftStopPasses \/ NoBreakpoint
  BY <1>6, ZenonT(30) DEF QuantumEnds, GuestRestarts, Instruction, NoCheck, SoftStopPasses,
     NoBreakpoint, HeldWhileStopped, Running, stopVars
<1>7. CASE SoftStopStops \/ BreakpointStops
  <2>1. ~stopped
    BY <1>7, Zenon DEF SoftStopStops, BreakpointStops, HeldWhileStopped, Running
  <2>2. PICK why : /\ Published(TRUE, TRUE, why, acked, pc, bps) /\ reason' = why
                   /\ inQuantum' = TRUE /\ dirty' = FALSE
    BY <1>7, <2>1, ZenonT(30) DEF SoftStopStops, BreakpointStops, StopFor, stopVars
  <2>3. at' \in Holds /\ UNCHANGED <<pc, bps, acked>>
    BY <1>7, <2>1, Zenon DEF SoftStopStops, BreakpointStops, StopFor, stopVars
  <2> QED  BY <2>2, <2>3, ZenonT(30) DEF Published
<1>8. CASE HoldTakesBatch
  BY <1>8, Zenon DEF HoldTakesBatch, CommandWakes, HoldPlace, NotApplied, stopVars, cpuVars
<1>9. CASE HoldReleased
  BY <1>9 DEF HoldReleased
<1>10. CASE \/ \E c \in Commands : Post(c)
            \/ \E on \in BOOLEAN : SetRunning(on)
            \/ QueueReset \/ Quit \/ Shutdown \/ UNCHANGED vars
  BY <1>1, <1>10, Zenon DEF Post, SetRunning, QueueReset, Quit, Shutdown, vars,
     stopVars, cpuVars
<1> QED  BY <1>2, <1>3, <1>4, <1>5, <1>6, <1>7, <1>8, <1>9, <1>10, NextCases, ZenonT(30)

\* The initial state satisfies the inductive invariant.
LEMMA InitInv == Init => IInv
<1> SUFFICES ASSUME Init PROVE IInv
  OBVIOUS
<1>1. TypeOK
  <2>1. QueueType /\ PlaceType /\ run \in Runs /\ pending \in Pendings
        /\ at \in Threads /\ reason \in Reasons
    <3>1. QueueType
      BY DEF Init, QueueType
    <3>2. PlaceType
      BY ResetAssumption, Zenon DEF Init, PlaceType
    <3>3. run \in Runs /\ pending \in Pendings /\ at \in Threads /\ reason \in Reasons
      BY Zenon DEF Init, Runs, Pendings, Threads, Reasons
    <3> QED  BY <3>1, <3>2, <3>3, Zenon
  <2>2. FlagType /\ StopType /\ ArmType /\ WatchType
    BY ZenonT(30) DEF Init, FlagType, StopType, ArmType, WatchType
  <2>3. AppliedType
    BY Zenon DEF Init, AppliedType, NotApplied, Runs, Places
  <2>4. GhostType
    BY SMTT(20) DEF Init, GhostType
  <2>5. snap \in Snapshots
    BY SMTT(20) DEF Init, Snapshots, Reasons
  <2> QED  BY <2>1, <2>2, <2>3, <2>4, <2>5, TypeGroups, Zenon
<1>2. /\ HeldWhileStopped /\ MatchesDelivered /\ BreakpointsLive /\ RunsStayArmed
      /\ CheckInv /\ HoldInv /\ SnapInv
  BY DEF Init, HeldWhileStopped, MatchesDelivered, BreakpointsLive, RunsStayArmed,
     CheckInv, HoldInv, SnapInv, Running, Holds
<1> QED  BY <1>1, <1>2 DEF IInv

\* The debugger keeps the inductive invariant, in every interleaving of the GUI
\* and the machine thread.
THEOREM InductiveInvariant == Spec => []IInv
<1>1. Init => IInv
  BY InitInv
<1>2. IInv /\ [Next]_vars => IInv'
  BY TypeStep, HeldStep, MatchStep, CheckStep, ArmedStep, SnapStep DEF IInv
<1> QED  BY <1>1, <1>2, PTL DEF Spec

-----------------------------------------------------------------------------
(* The promises.                                                             *)

\* Type correctness of the session, its snapshot and its CPU adapter.
THEOREM TypeCorrect == Spec => []TypeOK
<1>1. IInv => TypeOK
  BY DEF IInv
<1> QED  BY <1>1, InductiveInvariant, PTL

\* No instruction retires while Session::stopped_ is set.
THEOREM StopsHold == Spec => []HeldWhileStopped
<1>1. IInv => HeldWhileStopped
  BY DEF IInv
<1> QED  BY <1>1, InductiveInvariant, PTL

\* What publish() last put out is the machine the user is looking at whenever
\* the machine thread waits at a stop.
THEOREM SnapshotsTruthful == Spec => []SnapshotTruthful
<1>1. IInv => SnapshotTruthful
  <2> SUFFICES ASSUME IInv, stopped, Waiting
               PROVE  /\ snap.stopped /\ snap.reason = reason
                      /\ snap.inQuantum = (at \in Holds)
                      /\ snap.pc = pc /\ snap.bps = bps /\ snap.acked = acked
    BY DEF SnapshotTruthful
  <2>1. at \in Holds \/ at \in {"resume", "decide"}
    BY SMTT(20) DEF Waiting
  <2>2. ~dirty /\ inQuantum = (at \in Holds)
    BY <2>1 DEF IInv, TypeOK, SnapInv, Holds
  <2>3. SnapMatches
    BY <2>1, <2>2 DEF IInv, SnapInv, Holds
  <2> QED  BY <2>2, <2>3 DEF SnapMatches
<1> QED  BY <1>1, InductiveInvariant, PTL

\* maintain() leaves no run and no history dormant when a quantum starts.
THEOREM RunsArmed == Spec => []RunsStayArmed
<1>1. IInv => RunsStayArmed
  BY DEF IInv
<1> QED  BY <1>1, InductiveInvariant, PTL

\* A watchpoint or exception match is delivered at the end of the execute() that
\* noticed it, in a guest that does not trace itself.
THEOREM MatchesStop == Spec => []MatchesDelivered
<1>1. IInv => MatchesDelivered
  BY DEF IInv
<1> QED  BY <1>1, InductiveInvariant, PTL

\* CHECK_BP is never lost while a breakpoint is set.
THEOREM BreakpointsChecked == Spec => []BreakpointsLive
<1>1. IInv => BreakpointsLive
  BY DEF IInv
<1> QED  BY <1>1, InductiveInvariant, PTL

\* With nothing armed CHECK_BP is down and the user's engine returns.
THEOREM EngineComesBack == Spec => []EngineReturns
<1>1. IInv => EngineReturns
  <2> SUFFICES ASSUME IInv, at \in {"resume", "decide", "quantum"},
                      ~(stepArmed \/ run # "none" \/ history
                        \/ pending # "None" \/ bps # {}),
                      checkBp
               PROVE  FALSE
    BY Zenon DEF EngineReturns
  <2> QED  BY Zenon DEF IInv, CheckInv
<1> QED  BY <1>1, InductiveInvariant, PTL

===========================================================================
