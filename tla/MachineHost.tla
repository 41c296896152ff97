---------------------------- MODULE MachineHost ----------------------------
(***************************************************************************)
(* The machine thread's side of MachineHost.h: the GUI posts commands,     *)
(* recording requests and state requests at any time; the thread takes     *)
(* them at the start of a tick, between two quanta, journals what it       *)
(* applies and then emulates.                                              *)
(*                                                                         *)
(* The guest is a free deterministic machine: its state is the log of what *)
(* reached it and when, so two guests are equal exactly when a real        *)
(* machine could not tell them apart.                                      *)
(***************************************************************************)
EXTENDS Integers, Sequences, FiniteSets

CONSTANTS
    Inputs,          \* the commands the GUI may push
    Text,            \* the texts of TypeText: id -> sequence of keystrokes
    GuestHold,       \* quanta a reset keeps the CPU held (Egret, Cuda, PMU)
    Agent,           \* a guest agent polls the SCSI mailbox
    SingleButton,    \* mem.mouseButton takes no ADB address (Duo)
    ExternalPower,   \* mem.prepareExternalPower() exists (PowerBook 1x0)
    ExternalPort,    \* externalFloppyPort()
    BusyTicks,       \* quanta at whose end a SCSI session is open on the bay
    kDetachRetries,  \* MachineHost::kDetachRetries
    HoldClk, LeadClk, GapClk,  \* TypingTiming, in quanta
    MaxPosts,        \* bound: posts by the GUI
    MaxTicks         \* bound: quanta emulated

kShift == 56
kCodes == 128      \* TextTyper::down_
Kinds == {"MouseMove", "MouseButton", "Key", "Clamshell", "TypeText",
          "CancelTyping", "HardReset", "InsertFloppy", "EjectFloppy",
          "InsertBay", "EjectBay", "AgentMount", "AgentUnmount", "AttachDisk",
          "DetachDisk", "Sense", "CpuEngine"}
Cmds == [t : Kinds, a : Nat, b : Nat]
Cmd(t, a, b) == [t |-> t, a |-> a, b |-> b]

ASSUME ConstantsOK ==
    /\ \A c \in Inputs :
          /\ c \in Cmds
          /\ c.t = "DetachDisk" => c.b = 0
          /\ c.t = "TypeText" => c.a \in DOMAIN Text
    /\ \A i \in DOMAIN Text : Text[i] \in Seq([code : 0..(kCodes - 1),
                                              shift : BOOLEAN])
    /\ {GuestHold, kDetachRetries, HoldClk, LeadClk, GapClk, MaxPosts, MaxTicks}
           \subseteq Nat
    /\ {Agent, SingleButton, ExternalPower, ExternalPort} \subseteq BOOLEAN

VARIABLES
    cmds,       \* cmds_: the GUI-facing queue
    batch,      \* cmdsApply_: what this tick took
    pc,         \* where the machine thread is in stepTick()
    running,    \* the dashboard's switch
    mem,        \* the guest
    hostBtn,    \* hostBtn_
    typer,      \* typer_
    box,        \* the SCSI agent's mailbox
    recPending, \* recPending_
    journalOn,  \* journalOn_
    journal,    \* the recording's two files
    slot,       \* SaveStateSlot: requests and the state file
    answered,   \* DetachDisk requests answered through bayMessage_
    posts,      \* posts so far
    phase,      \* the process: live, stopped or dead
    ghost       \* what a faithful replay must reach, and from where

guestVars == <<mem, hostBtn, typer, box>>
guiVars == <<recPending, posts, running>>
fileVars == <<journalOn, journal, ghost>>
vars == <<cmds, batch, pc, running, mem, hostBtn, typer, box, recPending,
          journalOn, journal, slot, answered, posts, phase, ghost>>

NoClk == -1
-----------------------------------------------------------------------------
(* The SCSI agent's mailbox, ScsiAgentMailbox.h.                           *)

NoRequest == [kind |-> "None", seq |-> 0]
FreshBox == [pending |-> FALSE, kind |-> "None", seq |-> 0]
Post(bx, kind) == [pending |-> TRUE, kind |-> kind,
                   seq |-> IF bx.seq = 255 THEN 1 ELSE bx.seq + 1]
Poll(bx) == IF bx.pending THEN [kind |-> bx.kind, seq |-> bx.seq] ELSE NoRequest
Report(bx, req) ==
    [bx EXCEPT !.pending = @ /\ req.seq # bx.seq]

-----------------------------------------------------------------------------
(* The guest.                                                              *)

Fresh == [clk |-> 0, tick |-> 0, hold |-> GuestHold, keys |-> {},
          bay |-> "disk", req |-> NoRequest, log |-> <<>>]

\* What reaches the guest, stamped with the device time at which it does.
Deliver(m, c) == [m EXCEPT !.log = Append(@, [at |-> m.tick, what |-> c])]

keyEvent(m, code, down) ==
    [Deliver(m, Cmd("Key", code, down)) EXCEPT
        !.keys = IF down = 1 THEN @ \cup {code} ELSE @ \ {code}]

\* The clock's unit is the quantum: the few cycles reset() itself takes, and the
\* resync of them in afterHardReset(), are below it.
hardReset(m) ==
    [Deliver(m, Cmd("HardReset", 0, 0)) EXCEPT !.hold = GuestHold,
                                               !.req = NoRequest]

\* The SCSI bay: no target, a disk, or a target that has lost its image.
Bays == {"none", "disk", "hollow"}
sessionOn(m) == m.bay # "none" /\ m.tick \in BusyTicks
CanDetach(m) == m.bay = "disk" /\ ~sessionOn(m)
detachScsi(m) ==
    IF CanDetach(m)
    THEN [Deliver(m, Cmd("DetachDisk", 0, 0)) EXCEPT !.bay = "none"]
    ELSE m
\* c.b stands for the image c names: 0 a disk, 1 one that open() cannot read,
\* else one without a block; the last is refused when it has replaced the disk.
attachScsi(m, c) ==
    IF c.b = 0 THEN [Deliver(m, c) EXCEPT !.bay = "disk"]
    ELSE IF c.b = 1 \/ m.bay = "none" THEN m
    ELSE [Deliver(m, c) EXCEPT !.bay = "hollow"]

\* emulateQuantum(): a held CPU sees the devices tick and its own clock stand
\* still.  Otherwise the agent, if any, polls, or reports on what it last got.
Elapse(m) ==
    [m EXCEPT !.tick = @ + 1,
              !.clk = IF m.hold = 0 THEN @ + 1 ELSE @,
              !.hold = IF m.hold = 0 THEN 0 ELSE @ - 1]
AgentTurn(m, bx) ==
    LET got == Poll(bx) IN
    IF m.req # NoRequest THEN [m EXCEPT !.req = NoRequest]
    ELSE IF got = NoRequest THEN m
    ELSE [Deliver(m, Cmd(got.kind, 0, got.seq)) EXCEPT !.req = got]
AgentRuns(m) == Agent /\ m.hold = 0
GuestAfter(m, bx) == Elapse(IF AgentRuns(m) THEN AgentTurn(m, bx) ELSE m)
BoxAfter(m, bx) ==
    IF AgentRuns(m) /\ m.req # NoRequest THEN Report(bx, m.req) ELSE bx

-----------------------------------------------------------------------------
(* Typed text, TextTyping.h.                                               *)

Step(code, down, delay) == [code |-> code, down |-> down, delay |-> delay]
Keystroke(k, first) ==
    IF k.shift
    THEN <<Step(kShift, 1, first), Step(k.code, 1, LeadClk),
           Step(k.code, 0, HoldClk), Step(kShift, 0, LeadClk)>>
    ELSE <<Step(k.code, 1, first), Step(k.code, 0, HoldClk)>>
\* planTyping() fills the plan keystroke after keystroke.
Joins(pieces) ==
    LET upto[n \in 0..Len(pieces)] ==
            IF n = 0 THEN <<>> ELSE upto[n - 1] \o pieces[n]
    IN  upto
Joined(pieces) == Joins(pieces)[Len(pieces)]
planTyping(text) ==
    Joined([i \in 1..Len(text) |->
               Keystroke(text[i], IF i = 1 THEN 0 ELSE GapClk)])

IdleTyper == [queue |-> <<>>, down |-> {}, last |-> NoClk]
start(ty, plan) == [ty EXCEPT !.queue = @ \o plan]
\* The loop of cancel() over the codes 0 to 127 meets them in this order.
Ascending(S) ==
    [i \in 1..Cardinality(S) |->
        CHOOSE c \in S : Cardinality({d \in S : d < c}) = i - 1]
\* Mutant: what is held down is forgotten with the queue.
CancelForgets(ty) == [ty EXCEPT !.queue = <<>>, !.down = {}]
cancel(ty) ==
    LET held == Ascending(ty.down) IN
    [ty EXCEPT !.queue = [i \in DOMAIN held |-> Step(held[i], 0, 0)]]
Due(ty, now) ==
    /\ ty.queue # <<>>
    /\ ty.last # NoClk => now >= ty.last + Head(ty.queue).delay
AfterPoll(ty, now) ==
    LET s == Head(ty.queue) IN
    [queue |-> Tail(ty.queue),
     down |-> IF s.down = 1 THEN ty.down \cup {s.code} ELSE ty.down \ {s.code},
     last |-> IF Tail(ty.queue) = <<>> THEN NoClk ELSE now]

-----------------------------------------------------------------------------
(* The recording: a snapshot and a journal, InputJournal.h.                *)

NoJournal == [header |-> FALSE, snap |-> <<>>, start |-> NoClk,
              events |-> <<>>, end |-> NoClk]
NoGhost == [mark |-> <<>>, final |-> <<>>, held |-> FALSE, box |-> FreshBox,
            pressed |-> FALSE, kept |-> {}]
Marker == Cmd("StateRestore", 0, 0)

\* InputJournalWriter::event(), and the guest the event leaves behind.
WithEvent(c, clk) ==
    IF journalOn
    THEN [journal EXCEPT !.events = Append(@, [clk |-> clk, cmd |-> c])]
    ELSE journal
Marked(after) == IF journalOn THEN [ghost EXCEPT !.mark = <<after>>] ELSE ghost

\* applyCmds() journals what it applies, but for the two typing commands.
Record(c, clk, after) ==
    IF c.t \in {"TypeText", "CancelTyping"}
    THEN UNCHANGED <<journal, ghost>>
    ELSE journal' = WithEvent(c, clk) /\ ghost' = Marked(after)

\* quantum() journals the key transitions of a typed text.
\* Mutant: it leaves them out, as the command that started them.
WithoutKey(s, clk) == journal
WithKey(s, clk) == WithEvent(Cmd("Key", s.code, s.down), clk)

Finish ==
    /\ journal' = [journal EXCEPT !.end = mem.clk]
    /\ journalOn' = FALSE
    /\ ghost' = [ghost EXCEPT !.final = <<mem>>]

Init ==
    /\ cmds = <<>> /\ batch = <<>> /\ pc = "swap" /\ running = TRUE
    /\ mem = Fresh
    /\ hostBtn = [i \in 0..1 |-> FALSE]
    /\ typer = IdleTyper
    /\ box = FreshBox
    /\ recPending \in {{}, {"start"}} /\ journalOn = FALSE /\ journal = NoJournal
    /\ slot = [pending |-> {}, file |-> <<>>]
    /\ answered = 0 /\ posts = 0 /\ phase = "live" /\ ghost = NoGhost

-----------------------------------------------------------------------------
(* The GUI thread.                                                         *)

Posting ==
    /\ phase = "live" /\ posts < MaxPosts
    /\ posts' = posts + 1
    /\ UNCHANGED <<batch, pc, guestVars, fileVars, answered, phase>>

push(c) ==
    /\ Posting
    /\ cmds' = Append(cmds, c)
    /\ UNCHANGED <<recPending, slot, running>>

requestRecording(what) ==
    /\ Posting
    /\ recPending' = recPending \cup {what}
    /\ UNCHANGED <<cmds, slot, running>>

requestState(what) ==
    /\ Posting
    /\ slot' = [slot EXCEPT !.pending = @ \cup {what}]
    /\ UNCHANGED <<cmds, recPending, running>>

SetRunning ==
    /\ Posting
    /\ running' = ~running
    /\ UNCHANGED <<cmds, recPending, slot>>

-----------------------------------------------------------------------------
(* The machine thread: applyCmds().                                        *)

Swap ==
    /\ phase = "live" /\ pc = "swap"
    /\ batch' = cmds /\ cmds' = <<>> /\ pc' = "rec"
    /\ UNCHANGED <<guiVars, guestVars, fileVars, slot, answered, phase>>

\* processRecordingRequests(): a stop of the old recording, then a start.
processRecordingRequests ==
    /\ phase = "live" /\ pc = "rec"
    /\ recPending' = {}
    /\ IF "stop" \in recPending /\ journalOn
       THEN Finish
       ELSE UNCHANGED fileVars
    /\ pc' = IF "start" \in recPending /\ ~journalOn' THEN "open" ELSE "cmd"
    /\ UNCHANGED <<cmds, batch, running, guestVars, slot, answered, posts, phase>>

StartStep(at) ==
    /\ phase = "live" /\ pc = at
    /\ UNCHANGED <<cmds, batch, guiVars, guestVars, slot, answered, phase>>

\* startRecording(): the journal is opened; it may refuse.
OpenJournal ==
    /\ StartStep("open")
    /\ \/ /\ journal' = [NoJournal EXCEPT !.header = TRUE]
          /\ pc' = "snap"
       \/ pc' = "cmd" /\ UNCHANGED journal
    /\ UNCHANGED <<journalOn, ghost>>

\* The snapshot is written aside and renamed; a failure removes the journal.
WriteSnapshot ==
    /\ StartStep("snap")
    /\ \/ /\ journal' = [journal EXCEPT !.snap = <<mem>>]
          /\ pc' = "begin"
       \/ pc' = "cmd" /\ journal' = NoJournal
    /\ UNCHANGED <<journalOn, ghost>>

BeginRecording ==
    /\ StartStep("begin")
    /\ journal' = [journal EXCEPT !.start = mem.clk]
    /\ journalOn' = TRUE /\ pc' = "cmd"
    /\ ghost' = [NoGhost EXCEPT !.mark = <<mem>>, !.box = box,
                                !.pressed = \E i \in 0..1 : hostBtn[i],
                                !.kept = ghost.kept]

\* The arms that touch nothing but the guest.
InputArm(m, c) ==
    CASE c.t = "Key" -> keyEvent(m, c.a, c.b)
      [] c.t = "HardReset" -> hardReset(m)
      [] c.t = "Sense" ->
            hardReset(IF ExternalPower
                      THEN Deliver(Deliver(m, c), Cmd("Power", 0, 0))
                      ELSE Deliver(m, c))
      [] c.t = "InsertFloppy" ->
            IF c.a = 1 /\ ~ExternalPort THEN m ELSE Deliver(m, c)
      [] c.t = "AttachDisk" -> attachScsi(m, c)
      [] c.t = "CpuEngine" -> m
      [] OTHER -> Deliver(m, c)
GuestOnly == {"MouseMove", "Key", "Clamshell", "HardReset", "InsertFloppy",
              "EjectFloppy", "InsertBay", "EjectBay", "AttachDisk", "Sense",
              "CpuEngine"}

InputCmd(c) ==
    /\ c.t \in GuestOnly
    /\ mem' = InputArm(mem, c)
    /\ UNCHANGED <<hostBtn, typer, box, cmds, answered>>

\* The single-button form folds the two host buttons.
ButtonCmd(c) ==
    /\ c.t = "MouseButton"
    /\ IF SingleButton
       THEN /\ hostBtn' = [hostBtn EXCEPT ![c.a] = (c.b # 0)]
            /\ mem' = Deliver(mem, Cmd("MouseButton", 0,
                           IF \E i \in 0..1 : hostBtn'[i] THEN 1 ELSE 0))
       ELSE /\ mem' = Deliver(mem, c)
            /\ UNCHANGED hostBtn
    /\ UNCHANGED <<typer, box, cmds, answered>>

TypingCmd(c) ==
    /\ \/ c.t = "TypeText" /\ typer' = start(typer, planTyping(Text[c.a]))
       \/ c.t = "CancelTyping" /\ typer' = cancel(typer)
    /\ UNCHANGED <<mem, hostBtn, box, cmds, answered>>

AgentCmd(c) ==
    /\ c.t \in {"AgentMount", "AgentUnmount"}
    /\ box' = Post(box, c.t)
    /\ UNCHANGED <<mem, hostBtn, typer, cmds, answered>>

\* A detach inside an open session is queued again, so many times.
\* Mutant: the count of the attempts is not carried over.
RetryUncounted(c) == c
Retry(c) == [c EXCEPT !.b = @ + 1]
\* Mutant: one attempt too many.
OnceMore(c) == sessionOn(mem) /\ c.b <= kDetachRetries
TriesAgain(c) == sessionOn(mem) /\ c.b < kDetachRetries
DetachCmd(c) ==
    /\ c.t = "DetachDisk"
    /\ mem' = detachScsi(mem)
    /\ IF TriesAgain(c)
       THEN cmds' = Append(cmds, Retry(c)) /\ UNCHANGED answered
       ELSE answered' = answered + 1 /\ UNCHANGED cmds
    /\ UNCHANGED <<hostBtn, typer, box>>

ApplyCmd ==
    /\ phase = "live" /\ pc = "cmd" /\ batch # <<>>
    /\ LET c == Head(batch) IN
       /\ \/ InputCmd(c)
          \/ ButtonCmd(c)
          \/ TypingCmd(c)
          \/ AgentCmd(c)
          \/ DetachCmd(c)
       /\ Record(c, mem.clk, mem')
    /\ batch' = Tail(batch)
    /\ UNCHANGED <<pc, guiVars, journalOn, slot, phase>>

\* SaveStateSlot::apply(): the save before the load; either may be refused (a
\* load on account of the media, too), and a refused load leaves the machine as
\* it was.
Restores(file) ==
    /\ "load" \in slot.pending /\ file # <<>>
    /\ mem' = file[1]
    /\ typer' = IdleTyper
    /\ journal' = WithEvent(Marker, mem'.clk)
    /\ ghost' = [Marked(mem') EXCEPT !.kept = mem'.keys]
ApplyState ==
    /\ phase = "live" /\ pc = "cmd" /\ batch = <<>>
    /\ \E file \in {slot.file} \cup
                   (IF "save" \in slot.pending THEN {<<mem>>} ELSE {}) :
          /\ slot' = [pending |-> {}, file |-> file]
          /\ \/ Restores(file)
             \/ UNCHANGED <<mem, typer, journal, ghost>>
    /\ pc' = IF running THEN "run" ELSE "swap"
    /\ UNCHANGED <<cmds, batch, guiVars, hostBtn, box, journalOn, answered, phase>>

-----------------------------------------------------------------------------
(* The machine thread: the quanta of a tick.                               *)

\* quantum(): the key transition that is due, journaled, then the machine.
quantum ==
    /\ phase = "live" /\ pc = "run" /\ mem.tick < MaxTicks
    /\ LET due == Due(typer, mem.clk)
           s == Head(typer.queue)
           m == IF due THEN keyEvent(mem, s.code, s.down) ELSE mem IN
       /\ typer' = IF due THEN AfterPoll(typer, mem.clk) ELSE typer
       /\ mem' = GuestAfter(m, box)
       /\ box' = BoxAfter(m, box)
       /\ journal' = IF due THEN WithKey(s, mem.clk) ELSE journal
       /\ ghost' = [IF due THEN Marked(m) ELSE ghost EXCEPT
                       !.held = @ \/ (journalOn /\ m.hold > 0)]
    /\ UNCHANGED <<cmds, batch, pc, guiVars, hostBtn, journalOn, slot, answered,
                   phase>>

\* A tick runs from no quantum (the audio buffer is full) to eight.
EndTick ==
    /\ phase = "live" /\ pc = "run"
    /\ pc' = "swap"
    /\ UNCHANGED <<cmds, batch, guiVars, guestVars, fileVars, slot, answered,
                   phase>>

-----------------------------------------------------------------------------
(* The end of the process: of what is left, only the recording matters.    *)

Gone ==
    /\ cmds' = <<>> /\ batch' = <<>> /\ pc' = "swap" /\ running' = TRUE
    /\ mem' = Fresh /\ hostBtn' = [i \in 0..1 |-> FALSE]
    /\ typer' = IdleTyper /\ box' = FreshBox /\ recPending' = {}
    /\ slot' = [pending |-> {}, file |-> <<>>]
    /\ answered' = 0 /\ posts' = 0

\* stop(): the thread is joined between two ticks, then the recording ends.
stop ==
    /\ phase = "live" /\ pc = "swap"
    /\ phase' = "stopped"
    /\ IF journalOn THEN Finish ELSE UNCHANGED fileVars
    /\ Gone

\* The process dies: every event was flushed as it was written.
Die ==
    /\ phase = "live"
    /\ phase' = "dead"
    /\ UNCHANGED <<journal, ghost>>
    /\ journalOn' = FALSE
    /\ Gone

Thread ==
    \/ Swap
    \/ processRecordingRequests
    \/ OpenJournal
    \/ WriteSnapshot
    \/ BeginRecording
    \/ ApplyCmd
    \/ ApplyState
    \/ quantum
    \/ EndTick

Gui ==
    \/ \E c \in Inputs : push(c)
    \/ \E what \in {"start", "stop"} : requestRecording(what)
    \/ \E what \in {"save", "load"} : requestState(what)
    \/ SetRunning

HostNext == Thread \/ Gui \/ stop \/ Die

=============================================================================
