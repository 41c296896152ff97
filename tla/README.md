# POM68K: verification

TLA+ models of the parts of POM68K, a Macintosh 68k emulator, whose correctness
depends on an order of events: what survives the death of the process, what two
threads do to each other, what a lossy network repeats. The models are checked
with TLC on small instances; the main safety results are also proved with TLAPS
for every value of the constants.

Paths below are relative to the repository; its own code is in `src/src/`.

## The system

POM68K emulates some twenty Macintosh models. One *machine thread* per session
emulates in quanta of one frame; the *GUI thread* posts commands to it through
queues and reads snapshots back; host services (AppleTalk, printing, Ethernet,
serial, audio) run beside it, some on threads of their own. `PROJECT.json` lists
every component with its sources; this is how they hang together.

| Part | State | Operations | Talks to |
|---|---|---|---|
| Machine thread (`MachineHost.h`) | command queue, recording and state slots, run switch, typer | `push`, `applyCmds`, `quantum`, `stepTick`, `stop` | all of the below |
| Debugger (`DebugSession`, `DebugCpuTarget.h`) | command queue, snapshot, stop state; soft stop, CHECK_BP, run, history, pending match | `post`, `atBoundary`, `apply`, `onCpuStop`, `cpuStopped`, `shutdown` | machine thread, Moira, GUI |
| Disk history (`DiskTimeline`) | dirty log, digest, reverse journal | `attach`, `willWrite`, `save`, `load`, `commitLoad` | SCSI and ATA disks, save states |
| SCSI disk (`ScsiDisk`) | image, backing file, write-back | `store`, command set | controllers, disk history |
| Save states (`SaveState*`, `SaveStateSlot.h`) | state file, rollback state | `saveT`, `loadT`, `request`, `apply` | every device |
| Input journal (`InputJournal.h`) and replay (`tests/InputReplay.h`) | journal file, next event | `open`, `event`, `end`, load, replay | machine thread, save states |
| Typed text (`TextTyping.h`) | planned key transitions, keys held | `start`, `cancel`, `clear`, `poll` | machine thread |
| SCSI agent (`ScsiAgentMailbox.h`) | one request, sequence number | `post`, poll, report | machine thread, guest agent |
| AppleTalk (`AtalkStack`, `AtalkHub.h`) | ATP transactions, caches, names | `handleAtp`, `atpRequest`, `respond`, `tick` | guest, AFP, PAP, MacIP |
| LaserWriter (`PapServer`) and spooler (`PrintQueues`) | connection, job, deferred read; job queue, view of CUPS | `papHandler`, `issueRead`, `tick`, `setEnabled`; `submit`, `run` | AppleTalk, CUPS |
| AFP file server, MacIP gateway, EtherTalk | sessions, forks, locks; leases | protocol handlers | AppleTalk, host files, sockets |
| SCSI controllers, ATA, SCC, ADB, VIA, floppy, sound, video, Egret/Cuda/PMU, IOPs | register files and phase machines | register reads and writes, `tick` | memory maps, CPU |
| CPU wrappers and JIT (`Cpu0x0`, `jit/`) | registers; block cache, write guard, dispatch cache | `execute`, translate, evict | memory maps, debugger |
| GUI, configuration, image formats | widgets, settings, bytes | — | machine thread |

Where it is hard, and which properties come from it:

- *A process may die between any two writes.* Block bytes, their old bytes in the
  journal, the epoch marks and the restore of a state are separate writes: the
  journal must rewind at every instant (DiskTimeline); an input journal must
  replay to its last event or be refused (InputReplay).
- *A restore is a transaction over devices.* A chunk refused late must undo a disk
  rewound early.
- *Two threads, one CPU flag.* Steps, run-until steps, histories, watchpoints and
  breakpoints share Moira's one soft stop and one CHECK_BP flag, while the GUI
  posts commands in batches, resets and ends the session.
- *Time is a clock that can stand still.* Recorded input is stamped with the
  machine clock, and the devices tick on while the CPU is held.
- *Packets are lost and requests repeated,* and a deferred reply can be owed by
  three different paths.
- *Translated code is a copy of memory that the guest writes.* Stores reach RAM by
  two routes, of which one passes the guard that watches translated code; pages are
  remapped under it; blocks are found through three caches of pointers to them.

`PROJECT.json`'s "hazards" lists these with their lines, including the ones no
property covers yet and why.

## Plan

Built so far, in this order: `DiskTimeline` (with `ScsiDisk::store` and `loadT`)
and its proofs; `DebugSession` and its proofs; `MachineHost` composed with
`InputReplay`, and its proofs; `PapServer` composed with ATP and an external client, and its
proofs; `JitEngine`, the abstract `Interpreter` it implements, and its proofs.

Next, with what each should show:

1. **JIT, what is left out of `JitEngine`**: the second privilege level (a key's
   supervisor bit), the exact link cells of constant edges, shift versions.
2. **ATA disk** (`AtaDisk.h`): PIO phases, the shared `DiskTimeline`, write-back.
3. **Printer spooler** (`PrintQueues.cpp`): the worker thread, destination changes
   during a poll, every submitted job printed or filed once, also at destruction;
   composed with `PapServer`'s hand-over.
4. **AFP over ASP** (`AfpServer.cpp`): sessions, fork numbers, locks, replay of
   commands.
5. **SCSI controllers** (`Ncr5380`, `Ncr53c96`), **serial transport** and the
   **audio ring** between threads.
6. Proofs: an abstract disk that `DiskTimeline` implements.

The number of runs is kept small; a new component replaces a run that documents
an already reported divergence rather than adding to the list.

## Modules

| Module | Models |
|---|---|
| `DiskTimeline` | one block medium: its history, its owner's write path, the restore transaction, and the processes that open it one after another |
| `MCDiskTimeline` | symmetric block contents |
| `DiskTimelineProofs` | lemmas, the inductive invariant part by part, the theorems |
| `DebugSession`, `MCDebugSession` | debugger session, CPU adapter and the decision to run a quantum |
| `DebugSessionProofs` | its theorems |
| `MachineHost` | the machine thread: commands, recording, typing, agent, save-state slot |
| `InputReplay`, `MCInputReplay` | loading and replaying what `MachineHost` recorded |
| `InputReplayProofs` | the inductive invariant of the two, the trace of a recording, the theorems |
| `PapServer`, `MCPapServer` | the LaserWriter over ATP, with an external client on lossy wires |
| `PapServerLemmas`, `PapServerHandler`, `PapServerProofs` | the inductive invariant and what keeps it: requests to the server; responses, clock and wires; the client; the theorems |
| `Interpreter` | what a guest can see of execution: memory, address map, the word executed at a pc |
| `JitEngine`, `MCJitEngine` | `jit::Engine`: dispatch, tracing, generated code, block cache, write guard, data TLB |
| `JitEngineLemmas`, `JitEngineProofs` | its lemmas; its inductive invariant and theorems, with the refinement of `Interpreter` |

`PROJECT.json`'s "map" gives the source lines of every definition. Definitions
introduced by a comment starting `Mutant:` are deliberate bugs, each next to the
definition it distorts; no specification uses them. Replacing the definition by
its mutant makes the property named in `PROJECT.json` fail, which is how we know
that the property says something about the code.

### DiskTimeline

On disk: `file`, the `journal` beside it (complete records and a `torn` flag) and
the `saved` states. In the process: the image, the digest, the log (`pristine`),
`epochBits`, and where the machine thread is (`pc`). A guest write is four steps:
`BeginStore`, one `WillWrite` per block (journal append, log, digest),
`CopyToImage`, `WriteThrough` — so that `Stop`, the death of the process, falls
between any two of them. `WriteThroughFails` may leave any part of the request in
the file. A restore is `BeginLoad` (the rollback state is saved),
`PlanLoad` or `RefuseLoad`, one store per block of the plan, `CommitLoad`; a chunk
refused before or after the disk's leads to `Reject`, which restores the rollback
by the same path. A disk whose geometry is not the state's, or whose chunk lists
its blocks wrongly, is refused before anything is touched, like an earlier chunk
(`EarlierChunkFails`); a state saved while the drive had no medium binds nothing and
leaves the disk as it is (`BeginBareLoad`). `Attach` opens, trims and compacts the journal. `EditFile` and
`LoseJournal` are what users do between processes.

A block's bytes are a model value and the 64-bit digest is the content itself:
hash collisions are left out. Journal sizes count records.

Ghosts: `s.here` (the state belongs to the running process), an epoch's
`volatile` blocks (not in the file when the epoch was marked: the synthetic
prefix, or a file that lags after a failed write) and `lost` (epochs at or before
it have a hole behind them: writes that bypassed a dropped journal, or an edited
image).

### DebugSession

Two threads. The GUI posts commands (`Post`), flips the dashboard's switch, queues
a reset, and ends the session (`Quit`, then `Shutdown`, then the join). The machine
thread is at one of `Threads`: it takes a batch at a boundary, applies it command
by command (`ApplyCommand`, `EndBatch`), consumes a resume request, decides whether
to run, and then retires instructions, each followed by the soft-stop check and the
breakpoint check of `Moira::execute()`; a stop in either holds it inside the
quantum (`Holds`), where commands are served too. The effect of an instruction is
any next PC, with or without a watchpoint or exception match. `asked` is a ghost:
what the user asked for last.

A guest that traces itself ("GuestTrace" in `Kinds`) makes `Moira::execute()` return
before its checks (`Moira.cpp:679`). A match then stays in `pending_`, perhaps over a
boundary, where a cancelled run, a breakpoint edit or a reset disarms the soft stop
that would have delivered it, and later matches are ignored meanwhile. `DEV.md:3080`
("fires at the end of that same `execute()`") does not hold for such a guest:
`MatchesDelivered` is stated, checked and proved for one that does not trace. The
other theorems hold for both.

### MachineHost and InputReplay

`mem` is the guest: clock, ticks, the events it has received in order, keys down,
bay, a pending CPU hold. One tick is `Swap`, `processRecordingRequests` (with the
journal opened, the snapshot written and the start record as separate steps, since
the process may die between them), one `ApplyCmd` per command, `ApplyState`, then
any number of quanta. `quantum` feeds the typed key that is due and journals it.
`Die` and `stop` end the process; then `loadInputJournal`, `ReplayEvent`,
`ReplayQuantum` and `ReplayEnds` are the test harness's replayer. `GuestHold` is
how many quanta a reset holds the CPU. The arms of `applyCmds()` that a replayer
treats differently (the power of an external screen, `prepareExternalPower()`, and
the check for an external floppy port) are in the model as `ExternalPower` and
`ExternalPort`, and the runs use a machine without the first and with the second:
on a machine that has `prepareExternalPower()`, replaying a sense change omits it.
An attach may be refused: an image that cannot be read leaves the bay as it was, and
an image without a block in it closes the disk that was there before it is refused
(`Bays`, "hollow": a target without a disk). The agent's turn is `poll()` of
`dev/scsiagent/main.c`.

### PapServer

A handler is a function from the server and the packets sent so far to the next
such pair, so calls compose as in the code. The server holds the PAP connection and
job, and `AtalkStack`'s exactly-once cache, deferred transactions and requester
(bitmap of missing packets, retries). The client is external: it opens, answers
SendData from its document, reads, closes on EOF, may cancel, restart, or take
its time. `Doc` is what each connection prints, packet by packet, and `Ends` how the
driver cuts it into bursts, each of at most the eight packets a SendData asks for.
Wires are FIFO and lose packets; a repeated packet comes from a retry. The packets
of one burst, and the retries of one second, are sent in any order: the requester
stores a packet by its bit, and nothing may rest on the order of `requests_`, which
is a set in the model (their transaction identifiers differ, `TidInv`). A read is
answered with at most `kAnswers` query answers, and EOF waits for the read that takes
the last (`flushClientRead`). After 30 s a cached reply is forgotten, also one the
client still asks for (`Sweep`): its request is then executed again, an OpenConn
included.

Time is abstract: `Second` fires when nothing moves and retries every outstanding
request of both sides; `Minute` is `PapServer::tick()`, so the two-minute timer is
a count of silent minutes. Clients use distinct connection ids, and transaction
ids do not wrap.

### JitEngine and Interpreter

One thread runs the engine, so an action is a stretch of `executeUntil()` between
two points where it chooses; `at` says which: the top of the loop, interpreting (one
instruction, or through the armed window), armed, a block ready, tracing and traced
(`record()`), in generated code, and on the way back (`left`, or `lost` when the
guard ended the block early), or `exit`, between a block and the one it is linked to.
The guest's instructions are not interpreted: an instruction stores anywhere or
nowhere, moves the map, flushes caches or takes the ROM overlay down; the last one of
a line leads anywhere, any other to the next word. What is exact is where its word
comes from (a window over the page, the memory map, or the text of a cached block)
and what becomes of the pc. An access may take an ATC entry, which drops the data-TLB
entry of the page that had it (`evicted`), and possibly the window. With the engine
off, `Moira` arms the window by itself (`interpArm`).

`Interpreter` is the abstract specification, with no cache at all: executing at a pc
yields the word memory holds there, and the pc moves by executing, by an interrupt, a
restart or a load of a state, and by nothing else. `ImplementsInterpreter` maps the
engine's memory, map, overlay, pc and last executed word to it; an engine step that
executes nothing leaves the pc where it was, so no instruction is skipped by a route
that believes another has executed it. The store of a generated instruction that ends
its block early is `EarlyStore`: the store happens, and the instruction is executed
again.

Generation and epoch counters are compared with the current one only, so a block
keeps the answers (`proved`, `warm`). Left out: the second privilege level, shift
versions, the 040's own instruction and data caches, the exact link cells of constant
edges, the prefetch queue. An instruction is one word; a block's text holds the two
words after the line, as `record()` copies them. The guest is assumed to flush the
ATC when it changes a descriptor (the architecture requires it), the window is armed
at `Entries` only (where interrupts, branches and the host lead, too), a saved state holds one of `Images`, and a cycle budget never ends
between the guard's exit and the replay of the instruction. `pendingFlush` is set by
any traced instruction, although the classifier keeps cache instructions out of a
trace.

`BackPatch` lets a line, while it is traced, store into words of it that it has
executed already. `record()` then caches the words it executed, not those in
memory, and the guard has nothing to compare the store with, since the block is not
marked yet (`jit_backpatch`). The other runs and the theorems are about guests that
do not.

## Runs

All checked with two workers; states are distinct states.

| Run | Configuration | Properties | States | Shows |
|---|---|---|---|---|
| `timeline_crash` | `DiskTimelineCrash.cfg` | `TypeOK`, `DigestTracksImage`, `EpochsRewind`, `EpochStatesRestorable`, `SessionStatesRestorable`, `RollbackLands`, `AppendsParseable`, `NoStaleLoadOrder`, `RejectedLoadLeavesDisk`, `RestoredContentExact` | 951,302 | Processes that write, save, restore and die at any step, with restores that another chunk refuses and journals that outgrow their cap: the journal rewinds every epoch and every refused restore is undone. |
| `timeline_faults` | `DiskTimelineFaults.cfg` | `EpochsRewind`, `BackingFileFollows`, `RestoredContentExact` | 2,251,186 | Failing appends and failing write-through on an image with a synthetic prefix block, images edited and journals deleted, unopenable or uncompactable between processes: what is accepted is still exact. |
| `debug_stops` | `DebugSessionStops.cfg` | `TypeOK`, `HeldWhileStopped`, `SnapshotTruthful`, `RunsStayArmed`, `EngineReturns`, `BreakpointsLive`, `MatchesDelivered` | 2,126,488 | Pauses, steps, run-until steps, histories, breakpoints, watchpoints, catches, PC edits and resets in every order, with the dashboard's switch and a shutdown at any instant: a stop holds, what is published at a stop is the machine, CHECK_BP is up exactly when something needs it, and a match is delivered at the end of the execute() that noticed it (the guest does not trace itself). |
| `debug_serve` | `DebugSessionServe.cfg` | `CommandsServed`, `StopJoins` | 21,492 | Under a fair scheduler every command is served and MachineHost::stop() joins, wherever the machine thread is held, also when a tracing guest makes execute() skip its checks. |
| `debug_run_ends` | `DebugSessionRunEnds.cfg` | `RunEndsStopped` | violated | A run-until step started at a soft stop on a breakpoint's address is lost, and the machine runs free. |
| `debug_unasked_step` | `DebugSessionUnaskedStep.cfg` | `NoUnaskedStep` | violated | A step that was never delivered fires after a later Continue. |
| `recording` | `InputReplay.cfg` | `TypeOK`, `ReplayFaithful`, `RecordingsReplay`, `TypedKeysReleased`, `DetachAnswered` | 1,185,089 | A session of typed text, clicks, sense changes with their reset, agent requests, attaches, refused detaches, pauses, saves and restores, recorded from any tick to any tick or to the death of the process, and replayed: a replay that completes has rebuilt the machine, and only a restore makes one refuse. |
| `recording_held` | `InputReplayHeld.cfg` | `ReplayExact` | violated | While Egret, Cuda or a PMU holds the CPU the devices tick and the machine clock stands still, so the journal's clock cannot name those quanta. |
| `pap` | `PapServer.cfg` | `TypeOK`, `JobsExact`, `SpooledOnce`, `EofMeansSpooled`, `ReadsEnd`, `JobsArrive` | 196,325 | Two print jobs over wires that lose a packet, with a prompt or a thinking client, a cancelled job, a restarted guest or a service switched off: what is spooled is what was printed, once, EOF means it is spooled, every read ends, and an undisturbed job arrives. |
| `jit_moves` | `JitEngineMoves.cfg` | `TypeOK`, `CodeCurrent`, `MaskCoversCode`, `ImplementsInterpreter` | 120,245 | A guest that stores into its code, through either of two logical pages, and remaps them while the engine traces, compiles and runs it, is interrupted, restarted and restored: the sequence of words it executes, and where each one leads, is that of an interpreter over plain memory. |
| `jit_links` | `JitEngineLinks.cfg` | `MarksExact`, `NoDangling`, `EngineAdvances` | 341,400 | Two overlapping blocks that share a dispatch slot and a link slot in a cache of two: marks, index, links and dispatch slots are exactly those of the blocks left, and the engine never turns without executing. |
| `jit_backpatch` | `JitEngineBackPatch.cfg` | `ImplementsInterpreter` | violated | A line that stores into an instruction of its own that it has already executed, while it is traced, is cached as it was before the store and later executed as such. |

What the passing runs establish, and how a mutant breaks each property, is in
`PROJECT.json`. The four violation runs document disagreements between the code
and what the repository says of it; "findings" quotes both sides.

Bounds, and why they are enough:

- *Disk.* Two blocks tell "this block" from "another"; two contents, symmetric,
  tell "changed" from "unchanged"; one saved state beside the rollback; journals
  of up to three records hold an epoch, a block before it and one after. Processes
  may follow one another without bound. The theorems remove these bounds.
- *Debugger.* Two addresses (here, elsewhere), one breakpoint slot and a queue
  of two (full and not full), three commands in `debug_stops`, four in two of the
  violation runs: the longest scenario found needs four. A step out and the removal
  of one breakpoint differ in the model from a step over and a clear only in name;
  they are in `debug_serve`.
- *Recording.* One shifted character (four transitions), one bay, an image with blocks and one without, three posts and
  three quanta, one hold quantum, one retry of a refused detach: a session long
  enough for a key press, a recording started between press and release, and a
  restore.
- *Printing.* Two jobs, one of two bursts with two queries, of which a read takes one
  answer; the real 8-packet quantum, and three tries where the code has five: more
  than the losses, so that a request outlives them; one lost packet and one upset (cancel, restart, switch-off).
- *JIT.* One physical page, or two that are remapped under two logical ones, which
  may share one; two slices of two sub-slices
  of two words, so that lines and their copied words lie across a slice; stores
  within a slice and across; two symmetric values; a cache of one block or of
  two, so that blocks are evicted and share their slots; a guard that can name one slice and overflows at the second.

Deadlock is checked in every run but the two of recording, where the process
ends and a finished replay stops.

### Fairness

- `debug_serve`: weak fairness of the machine thread (the operating system
  schedules it), of `Shutdown` (`stop()` calls it right after raising `quit`), and
  strong fairness of `QuantumEnds` (a quantum is a bounded number of cycles, while
  the model's instructions could go on for ever). Nothing is assumed of the GUI.
- `recording`: weak fairness of the machine thread, with `phase = "live"` in place
  of ENABLED, which it is equal to; none of the GUI or the replayer.
- `pap`: each wire delivers, the timers fire, a client that thinks answers in the
  end, and a driver that has read EOF closes. The wires may lose only `MaxLoss`
  packets, fewer than a request has tries; `JobsArrive` says so. The formulas use
  the guards of the actions in place of ENABLED, which they are equal to.

- `jit_*`: weak fairness of `executeUntil` (the emulation thread always has a quantum
  to run). No property of the passing runs rests on it: `EngineAdvances` is an action
  property, a bound on the steps between two executed instructions, and proved.

## Proofs

The constants are arbitrary within the named assumptions
(`ConstantsOK`: the GUI pushes commands and texts of the model's kinds, the bounds
are numbers; `StallsOK`, below; `ConstantsAssumption`: at least one block, some content, the prefix within the
image; `ResetAssumption`, `PostsAssumption`; `PapAssumption`: documents cut into
bursts of one to `kQuantum` packets, at least one try, and one answer to a read; `EngineAssumption` and
`StoreAssumption`: a store is at most a slice wide; `DistinctAssumption`). All
bounds are arbitrary numbers.

**DiskTimeline** (`DiskTimelineProofs`). `EpochsRewind` — each block of an epoch
with no hole behind it is either unchanged since or has its old bytes in the first
record after it — is not inductive alone. `IInv` adds: the control state
(`ControlInv`: what each `pc` implies of request, plan and target); that each bit
of `epochBits` has a record behind the latest epoch, so skipping a second append is
sound (`CoverInv`); that a state of this session equals the content at attach
outside the blocks it carries (`SessionInv`), which is why the log alone suffices
to accept it; that the rest of a plan leads from the image to the target
(`PlanInv`); and that the file lags the image only by the request being written
(`FollowInv`). Each conjunct has a lemma with one step per action. From `IInv` follow the nine
invariants of the runs and the two action properties: a restore that succeeds is
exact, a rejected one leaves the image as it was. In particular the "FATAL:
save-state rollback failed" branch of `loadT()` is never taken because of a disk.

**DebugSession** (`DebugSessionProofs`). The types are proved in groups of
variables through a frame lemma (`Frames`: which steps touch what). `IInv` adds to
the properties that CHECK_BP without a breakpoint is up for a soft stop somebody
waits for (`CheckInv`, from which `EngineReturns` follows), that commands served
inside a quantum find the machine stopped (`HoldInv`), and that the snapshot of a
stopped machine matches it unless something is recorded that will republish it
(`SnapInv`, with `dirty` and the batch's `changed`).

**MachineHost and InputReplay** (`InputReplayProofs`). For every set of commands the
GUI may push, every text, every hold of the CPU and all bounds. `IInv` gives the types
(`Typed`), what the thread's place in `startRecording()` says of the journal
(`Placed`), and three arguments:

- `Ordered`: without a restore the stamps never run backwards, and none is later than
  the machine's clock. `loadInputJournal()` therefore accepts the recording.
  `Replaying` adds that a replay stalls only while its own CPU is held, at most
  `GuestHold` quanta in a row, and `StallsOK` assumes that this is within the
  1,000,000 quanta after which `replayJournal()` gives up. Together: `RecordingsReplay`.
- `HeldKeys`: each key the typer holds down has its release in the queue, and each
  press in the queue has a release behind it. A text keeps this when appended,
  `cancel()` when it replaces the queue by releases in ascending order, `poll()` when
  it takes the head. With an empty queue: `TypedKeysReleased`.
- `FInv`, for `ReplayFaithful`. The replayer of a recording is deterministic, so a
  recording determines its states from the snapshot on. `FInv` says that there is a
  set `R` of replayer states that holds the state `replayJournal()` starts in, and
  with each state but the last, `fin`, also the next one; that `fin` has the guest,
  the mailbox and the buttons of the recorded machine as it is now; and that the
  replayer, once it runs, is in `R`. A quantum of the recorded machine adds a state to
  `R`, a recorded command adds the state after its application, and nothing that is
  not recorded may change the guest. `mk`, the state after the last event, is where
  a replay of a journal without an end line stops. A replayer at the clock where the
  journal ends can only be `fin` (or `mk`), since clocks on the trace grow behind the
  last event while no CPU is held.

`ReplaysAreFaithful` assumes `ArmsAlike`: no sense code is set on a model whose
external screen has power of its own, and no disk is put into a floppy port that does
not exist. There `InputReplayer::apply()` and `applyCmds()` differ in the source, and
the snapshot must hold all there was (`SnapshotIsAll`), as in the run. That the codes
held by `cancel()` can be counted in ascending order is proved by the least-element
argument on finite sets (`LeastHolds`, `CountedHolds`).

**PapServer** (`PapServerLemmas`, `PapServerHandler`, `PapServerProofs`). What is spooled is what was printed (`JobsExact`),
once (`SpooledOnce`), and EOF means spooled (`EofMeansSpooled`), for any number of
connections, documents, lost packets, upsets and tries. Nothing in the code says
which connection a completed SendData belongs to: its completion captures only
`this`. That this is harmless is what `IInv` is about:

- `ClientInv`, `TidInv`, `MineInv`: the client waits for at most one reply, no
  transaction identifier is used twice by either side, and what carries an
  identifier the client waits for, on the wire or in the exactly-once cache, is the
  reply to that request. A reply that grants a connection grants the current one, and
  an EOF for the connection the server holds means its job is in the spool.
- `OrderInv`: connections open in order. Behind an OpenConn on the wire there is no
  packet of a burst, and an OpenConn still to come is for a connection newer than
  every spooled job and every CloseConn.
- `AskInv`, `AnswerInv`: a SendData, wherever it is (in `requests_`, on the wire,
  held by the client, or in the client's cache of its last answer), keeps its
  connection and burst; while a connection is open at most one outstanding request
  can still be answered, and that is the request for the burst the server waits for.
  A request left over from a cancelled connection may stay in `requests_`, but no
  answer to it can arrive any more.
- `DataInv`: the packets on the wire and those already stored are the packets of
  their burst; a bit is either still needed or stored.
- `JobInv`: the job is the document up to the end of the last complete burst, or it
  is spooled and empty.

`HandleKeeps` (all of `handleAtp`), `SecondKeeps`, `MinuteKeeps`, `SweepKeeps`,
`EnableKeeps`, `LoseKeeps` and one lemma per action of the client show that `IInv` is
inductive. Handlers are taken apart by what they add to the reply cache and the wire
(`Says`); steps that bring no news share one lemma (`ChatKeeps`).

**JitEngine** (`JitEngineLemmas`, `JitEngineProofs`). For every geometry of pages,
slices and sub-slices, every cache size and every set of stores and entry points:
`CodeCurrent`, `MaskCoversCode`, `MarksExact`, `NoDangling`, and the refinement
`ImplementsInterpreter`. `Inv` adds to these that a block's line is within its copied
words (`LinesCopied`), that a block proved in this generation is where its pc is
mapped (`ProvedPlaced`), that a guard that stopped naming slices has named one
(`OverflowMeansHit`), and what each `at` may rely on: the window is over the page
mapped there (`WindowPlaced`), no engaged engine sees the ROM overlay
(`OverlaySeen`), a dispatched block is proved and the guard untripped
(`Dispatching`, `Running`), the pc of generated code is within its block, and a trace
so far is what memory holds up to the pc (`Tracing`). The
lemmas say what adding and evicting blocks, servicing the guard, a store by either
route and a change of the map each do to the cache part; the refinement follows step
by step from `Inv` (`StepRefines`). `Tracing` needs `~BackPatch`: without it the last
conjunct is false, which is what `jit_backpatch` shows. The theorems name that
assumption. `EngineAdvances`, an action property, needs one more invariant,
`Capacity`: the cache never holds more than `maxBlocks`, and holds fewer while a line
is traced, so giving up the cold blocks of a full cache makes room.

Only model-checked: all liveness (`CommandsServed`, `StopJoins`, `ReadsEnd`,
`JobsArrive`, `DetachAnswered`: fairness and ENABLED are out of the prover's reach),
and the violation runs. Every safety invariant and every action property of the
passing runs is proved.

## Not modelled

See "components" in `PROJECT.json` for each part and its reason. In short:
instruction-level emulation (CPU cores, microcontrollers, JIT translation) is a
question of data, for which the repository has oracles and lockstep tests; bit-cell
and cycle timing (floppy, VIA, video, sound) has too much state for TLC; image
formats, configuration and the GUI are sequential code over bytes. The parts with
concurrency or failure that are still missing are those of the plan.

Within the modelled parts these are left out: digest collisions, `fclose()` errors
that stdio hides, the debugger's memory and disassembly views, the id 0
that `post()` returns for a refused command, UTF-8 and keyboard layouts, audio pacing (any number of quanta per
tick is allowed), the limit of 1,000,000,000 quanta of a whole replay, PAP status strings, NBP registration of the printer. Also:

- *Disk.* A drive that shows no medium after `BeginBareLoad` still takes writes in the
  model, which allows more than the guest can do.
- *Recording.* `afterHardReset()` (only `PlatformCompact.cpp:46` has one: it
  resynchronises the pacing clock) and the cycles `reset()` charges, which are less
  than the model's unit of the clock; the recorded machine and the replayed one do
  both alike.
- *Printing.* The packets of one response travel together, so the request's bitmap
  (`AtalkStack.cpp:474`) asks for all or none of them; the code's limit of 8 packets
  of 512 bytes per read is the constant `kAnswers`, 1 in the run and arbitrary in the
  proofs.
- *JIT.* `aliasCodeMask` of `fillDtlb` (`JitEngine.cpp:1263`), which matters where RAM
  appears at two physical addresses, and the Q605, whose memory map is modelled, has
  none; the STOP state, in which nothing is executed until an interrupt.
