--------------------------- MODULE DebugSession ---------------------------
(***************************************************************************)
(* The debugger of a running machine: the command queue and snapshot of     *)
(* dbg::Session (DebugSession.cpp), the stops kept by its CPU adapter       *)
(* (DebugCpuTarget.h) on top of the soft stop and CHECK_BP flag of the      *)
(* Moira core, and the part of MachineHost::stepTick() that decides whether *)
(* the next quantum runs.                                                   *)
(*                                                                          *)
(* Two threads: the GUI posts commands, moves the dashboard's run switch,   *)
(* queues resets and ends the session; the machine thread serves commands   *)
(* between two quanta, or while a stop holds it inside one.  A quantum may  *)
(* retire no instruction at all (a CPU in STOP, a held bus), so it may end  *)
(* at any boundary.                                                         *)
(***************************************************************************)
EXTENDS Naturals, Sequences, FiniteSets

CONSTANTS PCs,              \* instruction addresses
          ResetPc,          \* where a reset leaves the CPU
          Kinds,            \* the kinds of command the GUI posts, and what the
                            \* guest does: "GuestRestart", "GuestTrace"
          kMaxBreakpoints,  \* DebugTypes.h
          kMaxQueued,       \* DebugSession.cpp
          MaxPosts          \* bound on the commands of a behaviour

ASSUME ResetAssumption == ResetPc \in PCs
ASSUME PostsAssumption == MaxPosts \in Nat

NoPc == "no pc"
Steps == {"Step", "StepOver", "StepOut"}
PlainKinds == Steps \cup
    {"Pause", "Continue", "ClearBreakpoints", "AddWatchpoint",
     "ClearWatchpoints", "AddCatch", "ClearCatches", "HistoryOn", "HistoryOff"}
AddressKinds == {"AddBreakpoint", "RemoveBreakpoint", "SetPc"}

Commands == {c \in [kind : PlainKinds, addr : {NoPc}] \cup
                   [kind : AddressKinds, addr : PCs] : c.kind \in Kinds}

Runs == {"none", "over", "out"}
Reasons == {"None", "Pause", "Step", "Breakpoint", "Watchpoint", "Exception"}
Pendings == {"None", "Watchpoint", "Exception"}

VARIABLES
    \* The GUI's side, and what crosses to the machine thread.
    queue, posted,          \* Session::queue_ and the ids handed out
    snap,                   \* Session::snap_, the published snapshot
    running,                \* MachineHost::running, the dashboard's switch
    resetQueued,            \* a HardReset command waits in MachineHost
    quit, shutdown,         \* MachineHost::quit, Session::shutdown_
    resumeRequest,          \* Session::resumeRequest_
    \* Session, machine-thread state.
    at,                     \* where the machine thread is
    batch, applied,         \* apply(): the rest of the batch, and Applied
    stopped, inQuantum, reason, acked,
    dirty,                  \* the CPU moved since the last publish
    lastStop,               \* lastStopPc_ while the clock is lastStopClock_
    \* CpuTarget and Moira.
    pc, bps, softStop, checkBp,
    stepArmed, run, history, pending, watches, catches,
    \* What the user asked for last; no code reads it.
    asked

guiVars == <<queue, posted>>
cpuVars == <<pc, bps, softStop, checkBp, stepArmed, run, history, pending,
             watches, catches>>
stopVars == <<stopped, inQuantum, reason>>
vars == <<guiVars, snap, running, resetQueued, quit, shutdown, resumeRequest,
          at, batch, applied, stopVars, acked, dirty, lastStop, cpuVars, asked>>

\* Where apply() serves commands: between two quanta, or inside one, in the
\* soft-stop or in the breakpoint callback of Moira::execute().
Places == {"boundary", "soft", "breakpoint"}
Holds == {"softHold", "breakpointHold"}
Threads == {"boundary", "resume", "decide", "quantum", "softCheck",
            "breakpointCheck", "done"} \cup Holds
           \cup {"apply"}

NotApplied == [changed |-> FALSE, resume |-> FALSE, step |-> FALSE,
               run |-> "none", place |-> "boundary"]

Init ==
    /\ queue = <<>> /\ posted = 0
    /\ running = TRUE /\ resetQueued = FALSE
    /\ quit = FALSE /\ shutdown = FALSE /\ resumeRequest = FALSE
    /\ at = "boundary" /\ batch = <<>> /\ applied = NotApplied
    /\ stopped = FALSE /\ inQuantum = FALSE /\ reason = "None" /\ acked = 0
    /\ dirty = TRUE /\ lastStop = NoPc
    /\ pc = ResetPc /\ bps = {} /\ softStop = FALSE /\ checkBp = FALSE
    /\ stepArmed = FALSE /\ run = "none" /\ history = FALSE
    /\ pending = "None" /\ watches = FALSE /\ catches = FALSE
    /\ snap = [acked |-> 0, stopped |-> FALSE, inQuantum |-> FALSE,
               reason |-> "None", pc |-> NoPc, bps |-> {}]
    /\ asked = "Continue"

-----------------------------------------------------------------------------
(* The GUI thread.                                                          *)

\* Session::post().  A command beyond kMaxQueued is refused: nothing changes.
Post(c) ==
    /\ posted < MaxPosts /\ ~quit
    /\ Len(queue) < kMaxQueued
    /\ queue' = Append(queue, c)
    /\ posted' = posted + 1
    /\ UNCHANGED <<snap, running, resetQueued, quit, shutdown, resumeRequest, at,
                   batch, applied, stopVars, acked, dirty, lastStop, cpuVars,
                   asked>>

\* The dashboard's pause button stores MachineHost::running.
SetRunning(on) ==
    /\ running # on /\ ~quit
    /\ running' = on
    /\ UNCHANGED <<guiVars, snap, resetQueued, quit, shutdown, resumeRequest, at,
                   batch, applied, stopVars, acked, dirty, lastStop, cpuVars,
                   asked>>

\* A HardReset command joins MachineHost's own queue.
QueueReset ==
    /\ ~resetQueued /\ ~quit /\ "HardReset" \in Kinds
    /\ resetQueued' = TRUE
    /\ UNCHANGED <<guiVars, snap, running, quit, shutdown, resumeRequest, at,
                   batch, applied, stopVars, acked, dirty, lastStop, cpuVars,
                   asked>>

\* MachineHost::stop() raises quit, then calls Session::shutdown().
Quit ==
    /\ ~quit
    /\ quit' = TRUE
    /\ UNCHANGED <<guiVars, snap, running, resetQueued, shutdown, resumeRequest,
                   at, batch, applied, stopVars, acked, dirty, lastStop, cpuVars,
                   asked>>

Shutdown ==
    /\ quit /\ ~shutdown
    /\ shutdown' = TRUE
    /\ UNCHANGED <<guiVars, snap, running, resetQueued, quit, resumeRequest, at,
                   batch, applied, stopVars, acked, dirty, lastStop, cpuVars,
                   asked>>

-----------------------------------------------------------------------------
(* The adapter's primitives on Moira's debugger.                            *)

\* Debugger::stepInto() arms the soft stop and CHECK_BP.
Armed == softStop' = TRUE /\ checkBp' = TRUE

\* CpuTarget::dropSoftStop(): softstopMatches() consumes an armed soft stop and
\* recomputes CHECK_BP from the breakpoint list.
\* Mutants: CHECK_BP is cleared outright; the soft stop is left to lapse.
DropClearsCheck == softStop' = FALSE /\ checkBp' = FALSE
DropNothing == UNCHANGED <<softStop, checkBp>>
DropSoftStop ==
    /\ softStop' = FALSE
    /\ checkBp' = IF softStop THEN bps # {} ELSE checkBp

\* Session::publish().
Published(stop, inside, why, ack, where, list) ==
    snap' = [acked |-> ack, stopped |-> stop, inQuantum |-> stop /\ inside,
             reason |-> IF stop THEN why ELSE "None", pc |-> where, bps |-> list]

-----------------------------------------------------------------------------
(* The machine thread, between two quanta: applyCmds(), atBoundary().       *)

\* applyCmds() performs a queued reset, which clears Moira's flags and
\* recomputes CHECK_BP from the list; atBoundary() then takes the whole queue.
TakeBatchAtBoundary ==
    /\ at = "boundary" /\ ~quit
    /\ IF resetQueued
       THEN pc' = ResetPc /\ checkBp' = (bps # {}) /\ dirty' = TRUE
       ELSE UNCHANGED <<pc, checkBp, dirty>>
    /\ resetQueued' = FALSE
    /\ batch' = queue /\ queue' = <<>>
    /\ applied' = NotApplied
    /\ at' = "apply"
    /\ UNCHANGED <<posted, snap, running, quit, shutdown, resumeRequest, stopVars,
                   acked, lastStop, bps, softStop, stepArmed, run, history,
                   pending, watches, catches, asked>>

\* The thread's loop leaves on quit.
ThreadEnds ==
    /\ at = "boundary" /\ quit
    /\ at' = "done"
    /\ UNCHANGED <<guiVars, snap, running, resetQueued, quit, shutdown,
                   resumeRequest, batch, applied, stopVars, acked, dirty,
                   lastStop, cpuVars, asked>>

\* One command of the batch.
Serve(c) ==
    /\ at = "apply" /\ batch # <<>> /\ c = Head(batch)
    /\ batch' = Tail(batch)
    /\ acked' = acked + 1
    /\ UNCHANGED <<guiVars, snap, running, resetQueued, quit, shutdown,
                   resumeRequest, at, dirty, lastStop, pending>>

Changed == applied' = [applied EXCEPT !.changed = TRUE]

\* Pause cancels a run-until step and stops a running machine.
ApplyPause ==
    /\ Serve([kind |-> "Pause", addr |-> NoPc])
    /\ Changed
    /\ IF run # "none" /\ ~history
       THEN DropSoftStop
       ELSE UNCHANGED <<softStop, checkBp>>
    /\ run' = "none"
    /\ stopped' = TRUE
    /\ IF stopped
       THEN UNCHANGED <<inQuantum, reason>>
       ELSE inQuantum' = (applied.place # "boundary") /\ reason' = "Pause"
    /\ asked' = "Pause"
    /\ UNCHANGED <<pc, bps, stepArmed, history, watches, catches>>

ApplyContinue ==
    /\ Serve([kind |-> "Continue", addr |-> NoPc])
    /\ applied' = [applied EXCEPT !.changed = TRUE, !.resume = @ \/ stopped]
    /\ asked' = IF stopped /\ ~applied.resume THEN "Continue" ELSE asked
    /\ UNCHANGED <<pc, bps, softStop, checkBp, stepArmed, run, history, watches,
                   catches, stopVars>>

\* Step, StepOver and StepOut are refused while the machine runs.
ApplyStep(k) ==
    /\ k \in Steps
    /\ Serve([kind |-> k, addr |-> NoPc])
    /\ applied' =
         IF stopped
         THEN [applied EXCEPT !.changed = TRUE, !.resume = TRUE,
                 !.step = @ \/ k = "Step",
                 !.run = IF k = "StepOver" THEN "over"
                         ELSE IF k = "StepOut" THEN "out" ELSE @]
         ELSE [applied EXCEPT !.changed = TRUE]
    /\ asked' = IF stopped THEN k ELSE asked
    /\ UNCHANGED <<pc, bps, softStop, checkBp, stepArmed, run, history, watches,
                   catches, stopVars>>

\* The breakpoint list is Moira's: editing it recomputes CHECK_BP from the list
\* alone (setAt of an address already there changes nothing).
ApplyAddBreakpoint(a) ==
    /\ Serve([kind |-> "AddBreakpoint", addr |-> a])
    /\ Changed
    /\ IF Cardinality(bps) >= kMaxBreakpoints \/ a \in bps
       THEN UNCHANGED <<bps, checkBp>>
       ELSE bps' = bps \cup {a} /\ checkBp' = TRUE
    /\ UNCHANGED <<pc, softStop, stepArmed, run, history, watches, catches,
                   stopVars, asked>>

ApplyRemoveBreakpoint(a) ==
    /\ Serve([kind |-> "RemoveBreakpoint", addr |-> a])
    /\ Changed
    /\ bps' = bps \ {a}
    /\ checkBp' = (bps' # {})
    /\ UNCHANGED <<pc, softStop, stepArmed, run, history, watches, catches,
                   stopVars, asked>>

ApplyClearBreakpoints ==
    /\ Serve([kind |-> "ClearBreakpoints", addr |-> NoPc])
    /\ Changed
    /\ bps' = {} /\ checkBp' = FALSE
    /\ UNCHANGED <<pc, softStop, stepArmed, run, history, watches, catches,
                   stopVars, asked>>

\* Watchpoints and catches are the adapter's lists; whether each is empty is
\* all that the stops depend on.
ApplyWatchCatch(k) ==
    /\ k \in {"AddWatchpoint", "ClearWatchpoints", "AddCatch", "ClearCatches"}
    /\ Serve([kind |-> k, addr |-> NoPc])
    /\ Changed
    /\ watches' = IF k = "AddWatchpoint" THEN TRUE
                  ELSE IF k = "ClearWatchpoints" THEN FALSE ELSE watches
    /\ catches' = IF k = "AddCatch" THEN TRUE
                  ELSE IF k = "ClearCatches" THEN FALSE ELSE catches
    /\ UNCHANGED <<pc, bps, softStop, checkBp, stepArmed, run, history, stopVars,
                   asked>>

\* setHistory(): a history rides the soft stop, and gives it back when it ends.
ApplyHistory(k) ==
    /\ k \in {"HistoryOn", "HistoryOff"}
    /\ Serve([kind |-> k, addr |-> NoPc])
    /\ Changed
    /\ history' = (k = "HistoryOn")
    /\ IF history' = history THEN UNCHANGED <<softStop, checkBp>>
       ELSE IF history' THEN Armed
       ELSE IF run = "none" /\ ~stepArmed THEN DropSoftStop
       ELSE UNCHANGED <<softStop, checkBp>>
    /\ UNCHANGED <<pc, bps, stepArmed, run, watches, catches, stopVars, asked>>

\* applyEdit() of the program counter: refused while running, and once a
\* Continue or a step earlier in the batch has released the stop.
ApplySetPc(a) ==
    /\ Serve([kind |-> "SetPc", addr |-> a])
    /\ Changed
    /\ pc' = IF ~stopped \/ applied.resume THEN pc ELSE a
    /\ UNCHANGED <<bps, softStop, checkBp, stepArmed, run, history, watches,
                   catches, stopVars, asked>>

\* Where the machine thread goes once the batch is applied.
AfterBatch(resume) ==
    CASE applied.place = "boundary" -> "resume"
      [] applied.place = "soft" -> IF resume THEN "breakpointCheck" ELSE "softHold"
      [] OTHER -> IF resume THEN "quantum" ELSE "breakpointHold"

\* maintain(), and the step or the run that apply() arms after it.
\* Mutant: only what this batch asks for is armed.
ArmsThisBatch(step, nextRun) == step \/ nextRun # run
ArmsSoftStop(step, nextRun) == step \/ nextRun # "none" \/ history

\* atBoundary() also publishes when a reset moved a stopped CPU.
\* Mutant: only commands are news.
CommandsAreNews(stop) == applied.changed
News(stop) == applied.changed \/ (applied.place = "boundary" /\ stop /\ dirty)

\* The end of apply(): maintain(), then the step or the run is armed (a step
\* over an instruction that calls nothing is a plain step), then the stop is
\* released; the caller publishes.
EndBatch ==
    /\ at = "apply" /\ batch = <<>>
    /\ \E plain \in BOOLEAN :
         LET step == applied.step \/ (applied.run = "over" /\ plain)
             newRun == IF step \/ applied.run = "none" THEN run ELSE applied.run
         IN /\ stepArmed' = (stepArmed \/ step)
            /\ run' = newRun
            /\ IF ArmsSoftStop(step, newRun) THEN Armed ELSE UNCHANGED <<softStop, checkBp>>
    /\ IF applied.resume
       THEN stopped' = FALSE /\ inQuantum' = FALSE /\ reason' = "None"
       ELSE UNCHANGED stopVars
    /\ resumeRequest' = (resumeRequest \/ applied.resume)
    /\ IF News(stopped')
       THEN Published(stopped', inQuantum', reason', acked, pc, bps)
            /\ dirty' = FALSE
       ELSE UNCHANGED <<snap, dirty>>
    /\ at' = AfterBatch(applied.resume)
    /\ applied' = NotApplied
    /\ UNCHANGED <<guiVars, running, resetQueued, quit, shutdown, batch, acked,
                   lastStop, pc, bps, history, pending, watches, catches, asked>>

-----------------------------------------------------------------------------
(* The rest of stepTick().                                                  *)

\* takeResumeRequest() lifts the dashboard's pause.
TakeResume ==
    /\ at = "resume"
    /\ running' = (running \/ resumeRequest)
    /\ resumeRequest' = FALSE
    /\ at' = "decide"
    /\ UNCHANGED <<guiVars, snap, resetQueued, quit, shutdown, batch, applied,
                   stopVars, acked, dirty, lastStop, cpuVars, asked>>

\* A held or paused machine runs no quantum.
\* Mutant: only the dashboard's switch is asked.
SwitchHolds == ~running
RunsNoQuantum == stopped \/ ~running

Decide ==
    /\ at = "decide"
    /\ at' = IF RunsNoQuantum THEN "boundary" ELSE "quantum"
    /\ UNCHANGED <<guiVars, snap, running, resetQueued, quit, shutdown,
                   resumeRequest, batch, applied, stopVars, acked, dirty,
                   lastStop, cpuVars, asked>>

QuantumEnds ==
    /\ at = "quantum"
    /\ at' = "boundary"
    /\ UNCHANGED <<guiVars, snap, running, resetQueued, quit, shutdown,
                   resumeRequest, batch, applied, stopVars, acked, dirty,
                   lastStop, cpuVars, asked>>

\* The guest asks for a restart (runCycles() consumes it at a run boundary).
GuestRestarts ==
    /\ at = "quantum" /\ "GuestRestart" \in Kinds
    /\ pc' = ResetPc /\ checkBp' = (bps # {}) /\ dirty' = TRUE
    /\ lastStop' = NoPc
    /\ UNCHANGED <<guiVars, snap, running, resetQueued, quit, shutdown,
                   resumeRequest, at, batch, applied, stopVars, acked, bps,
                   softStop, stepArmed, run, history, pending, watches, catches,
                   asked>>

-----------------------------------------------------------------------------
(* Inside a quantum: Moira::execute() and the adapter's callbacks.          *)

\* One call of execute().  On the way cpuAccess() or cpuException() may record a
\* match (the first one wins) and arm the soft stop.  With a trace exception
\* pending, or after the privilege violation of a stopped CPU, execute() returns
\* before it checks anything: only a guest that does either has "GuestTrace".
Instruction ==
    /\ at = "quantum"
    /\ pc' \in PCs /\ dirty' = TRUE /\ lastStop' = NoPc
    /\ \/ /\ UNCHANGED <<pending, softStop, checkBp>>
       \/ /\ watches /\ pending = "None" /\ pending' = "Watchpoint"
          /\ Armed
       \/ /\ catches /\ pending = "None" /\ pending' = "Exception"
          /\ Armed
    /\ \/ at' = "softCheck"
       \/ "GuestTrace" \in Kinds /\ at' = "quantum"
    /\ UNCHANGED <<guiVars, snap, running, resetQueued, quit, shutdown,
                   resumeRequest, batch, applied, stopVars, acked, bps, stepArmed,
                   run, history, watches, catches, asked>>

\* onCpuStop(): the stop holds the machine thread unless the session is
\* shutting down.
StopFor(why, hold, on) ==
    IF shutdown
    THEN at' = on /\ UNCHANGED <<snap, stopVars, dirty, lastStop>>
    ELSE /\ at' = hold
         /\ stopped' = TRUE /\ inQuantum' = TRUE /\ reason' = why
         /\ lastStop' = pc
         /\ Published(TRUE, TRUE, why, acked, pc, bps)
         /\ dirty' = FALSE

\* The tail of execute(): no flag, no check.
NoCheck ==
    /\ at = "softCheck"
    /\ ~checkBp \/ ~softStop
    /\ at' = IF checkBp THEN "breakpointCheck" ELSE "quantum"
    /\ UNCHANGED <<guiVars, snap, running, resetQueued, quit, shutdown,
                   resumeRequest, batch, applied, stopVars, acked, dirty,
                   lastStop, cpuVars, asked>>

\* cpuStopped(soft): the soft stop is consumed.  A run that has not arrived, or
\* a history nobody asked to stop, arms it again in silence.
\* Mutant: a run under way passes over a pending match.
PassesMatch == run # "none" \/ (history /\ ~stepArmed)
MayPass == pending = "None" /\ (run # "none" \/ (history /\ ~stepArmed))

SoftStopPasses ==
    /\ at = "softCheck" /\ checkBp /\ softStop
    /\ MayPass
    /\ stepArmed' = FALSE
    /\ Armed
    /\ at' = "breakpointCheck"
    /\ UNCHANGED <<guiVars, snap, running, resetQueued, quit, shutdown,
                   resumeRequest, batch, applied, stopVars, acked, dirty,
                   lastStop, pc, bps, run, history, pending, watches, catches,
                   asked>>

SoftStopStops ==
    /\ at = "softCheck" /\ checkBp /\ softStop
    /\ pending # "None" \/ run # "none" \/ stepArmed \/ ~history
    /\ stepArmed' = FALSE
    /\ run' = "none" /\ pending' = "None"
    /\ softStop' = history
    /\ checkBp' = (history \/ bps # {})
    /\ StopFor(IF pending # "None" THEN pending ELSE "Step", "softHold",
               "breakpointCheck")
    /\ UNCHANGED <<guiVars, running, resetQueued, quit, shutdown, resumeRequest,
                   batch, applied, acked, pc, bps, history, watches, catches,
                   asked>>

\* breakpointMatches() is evaluated whatever the soft stop did.
NoBreakpoint ==
    /\ at = "breakpointCheck" /\ pc \notin bps
    /\ at' = "quantum"
    /\ UNCHANGED <<guiVars, snap, running, resetQueued, quit, shutdown,
                   resumeRequest, batch, applied, stopVars, acked, dirty,
                   lastStop, cpuVars, asked>>

\* cpuStopped(breakpoint) ends a run; a soft stop and a breakpoint on one
\* boundary are one stop (lastStopClock_, lastStopPc_).
BreakpointStops ==
    /\ at = "breakpointCheck" /\ pc \in bps
    /\ IF history THEN Armed
       ELSE IF run # "none" THEN DropSoftStop
       ELSE UNCHANGED <<softStop, checkBp>>
    /\ run' = "none"
    /\ IF lastStop = pc
       THEN at' = "quantum" /\ UNCHANGED <<snap, stopVars, dirty, lastStop>>
       ELSE StopFor("Breakpoint", "breakpointHold", "quantum")
    /\ UNCHANGED <<guiVars, running, resetQueued, quit, shutdown, resumeRequest,
                   batch, applied, acked, pc, bps, stepArmed, history, pending,
                   watches, catches, asked>>

\* onCpuStop() wakes on a command ...
\* Mutants: the hold of one of the two callbacks takes no command; the place of
\* the batch is the thread's.
SoftHoldWakes == at = "softHold" /\ queue # <<>> /\ ~shutdown
CommandWakes == at \in Holds /\ queue # <<>> /\ ~shutdown
PlaceIsThread == at
HoldPlace == IF at = "softHold" THEN "soft" ELSE "breakpoint"

HoldTakesBatch ==
    /\ CommandWakes
    /\ batch' = queue /\ queue' = <<>>
    /\ applied' = [NotApplied EXCEPT !.place = HoldPlace]
    /\ at' = "apply"
    /\ UNCHANGED <<posted, snap, running, resetQueued, quit, shutdown,
                   resumeRequest, stopVars, acked, dirty, lastStop, cpuVars,
                   asked>>

\* ... or on shutdown(), which releases the stop.
\* Mutant: the shutdown clears the stop and waits again.
WaitsAgain == at
GoesOnFrom == IF at = "softHold" THEN "breakpointCheck" ELSE "quantum"

HoldReleased ==
    /\ at \in Holds /\ shutdown
    /\ stopped' = FALSE /\ inQuantum' = FALSE /\ reason' = "None"
    /\ at' = GoesOnFrom
    /\ UNCHANGED <<guiVars, snap, running, resetQueued, quit, shutdown,
                   resumeRequest, batch, applied, acked, dirty, lastStop, cpuVars,
                   asked>>

-----------------------------------------------------------------------------
Gui == \/ \E c \in Commands : Post(c)
       \/ \E on \in BOOLEAN : SetRunning(on)
       \/ QueueReset \/ Quit \/ Shutdown

ApplyCommand ==
    \/ ApplyPause \/ ApplyContinue \/ ApplyClearBreakpoints
    \/ \E k \in Steps : ApplyStep(k)
    \/ \E a \in PCs : \/ ApplyAddBreakpoint(a) \/ ApplyRemoveBreakpoint(a)
                      \/ ApplySetPc(a)
    \/ \E k \in PlainKinds : ApplyWatchCatch(k) \/ ApplyHistory(k)

Execute ==
    \/ Instruction \/ NoCheck \/ SoftStopPasses \/ SoftStopStops
    \/ NoBreakpoint \/ BreakpointStops \/ HoldTakesBatch \/ HoldReleased

Machine ==
    \/ TakeBatchAtBoundary \/ ThreadEnds \/ ApplyCommand \/ EndBatch
    \/ TakeResume \/ Decide \/ QuantumEnds \/ GuestRestarts \/ Execute

\* The session is over when the thread is joined.
Joined == at = "done" /\ shutdown /\ UNCHANGED vars

Next == Gui \/ Machine \/ Joined

Spec == Init /\ [][Next]_vars

\* The operating system schedules the machine thread; stop() calls shutdown()
\* right after raising quit; a quantum is a bounded number of cycles.
Fairness == /\ WF_vars(Machine)
            /\ WF_vars(Shutdown)
            /\ SF_vars(QuantumEnds)

FairSpec == Spec /\ Fairness

-----------------------------------------------------------------------------
(* Properties.                                                              *)

Snapshots == [acked : Nat, stopped : BOOLEAN, inQuantum : BOOLEAN,
              reason : Reasons, pc : PCs \cup {NoPc}, bps : SUBSET PCs]

\* Type correctness of the session and of its CPU adapter.
TypeOK ==
    /\ queue \in Seq(Commands) /\ batch \in Seq(Commands)
    /\ posted \in Nat /\ acked \in Nat
    /\ snap \in Snapshots
    /\ running \in BOOLEAN /\ resetQueued \in BOOLEAN /\ quit \in BOOLEAN
    /\ shutdown \in BOOLEAN /\ resumeRequest \in BOOLEAN
    /\ at \in Threads
    /\ applied \in [changed : BOOLEAN, resume : BOOLEAN, step : BOOLEAN,
                    run : Runs, place : Places]
    /\ stopped \in BOOLEAN /\ inQuantum \in BOOLEAN /\ reason \in Reasons
    /\ dirty \in BOOLEAN /\ lastStop \in PCs \cup {NoPc}
    /\ pc \in PCs /\ bps \subseteq PCs
    /\ softStop \in BOOLEAN /\ checkBp \in BOOLEAN /\ stepArmed \in BOOLEAN
    /\ run \in Runs /\ history \in BOOLEAN /\ pending \in Pendings
    /\ watches \in BOOLEAN /\ catches \in BOOLEAN
    /\ asked \in Steps \cup {"Pause", "Continue"}

Running == at \in {"quantum", "softCheck", "breakpointCheck"}
Waiting == at \in Holds \cup {"resume", "decide"}

\* While the session is stopped no instruction retires, whichever of the two
\* places holds it and whatever the dashboard's switch, a reset or a command
\* does meanwhile (atBoundary() returns stopped_, onCpuStop() does not return).
HeldWhileStopped == stopped => ~Running

\* When the machine thread waits at a stop, the published snapshot is the machine:
\* its stop, its program counter, its breakpoints and every command it has
\* applied (a reset applied while stopped republishes, see atBoundary()), and
\* inQuantum, which tells the user why a reset or a state load waits, is
\* published exactly while the stop holds the machine inside a quantum.
SnapshotTruthful ==
    stopped /\ Waiting =>
        /\ snap.stopped /\ snap.reason = reason
        /\ snap.inQuantum = (at \in Holds)
        /\ snap.pc = pc /\ snap.bps = bps /\ snap.acked = acked

\* maintain() re-asserts the soft stop a run-until step or a history needs: a
\* breakpoint edit or a reset, either of which clears CHECK_BP, never leaves one
\* dormant when a quantum starts.
RunsStayArmed ==
    at \in {"resume", "decide"} /\ (run # "none" \/ history) =>
        softStop /\ checkBp

\* A watchpoint or exception match noticed mid-instruction stops at the end of
\* that same execute(): none is outstanding once the boundary has been checked.
\* (The guest does not trace itself: execute() then skips the check.)
MatchesDelivered ==
    "GuestTrace" \notin Kinds =>
        /\ at # "softCheck" => pending = "None"
        /\ pending # "None" => softStop /\ checkBp

\* A live breakpoint is checked at every instruction, across edits, resets,
\* steps and cancelled runs: CHECK_BP is never lost while the list is not empty.
BreakpointsLive == bps # {} => checkBp

\* With nothing armed and no match to deliver, nothing keeps the CPU on the
\* interpreter: the user's engine returns when the last stop is removed
\* (stopsArmed(), pomJitIdle()).
EngineReturns ==
    at \in {"resume", "decide", "quantum"} /\
    ~(stepArmed \/ run # "none" \/ history \/ pending # "None" \/ bps # {}) =>
        ~checkBp

\* Every posted command is served, between quanta or inside one, until the
\* session ends.
CommandsServed == (queue # <<>> /\ ~quit) ~> (queue = <<>> \/ quit)

\* stop() always joins: a machine thread held at a stop is released first.
StopJoins == quit ~> at = "done"

\* Whatever ends a run-until step leaves the machine stopped: it arrives, another
\* stop interrupts it, or a Pause cancels it.
RunEndsStopped ==
    [][run # "none" /\ run' = "none" => stopped' \/ shutdown]_vars

\* A machine the user resumed with Continue is never stopped by a step.
NoUnaskedStep == reason = "Step" /\ at \in Holds => asked # "Continue"

=============================================================================
