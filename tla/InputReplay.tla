---------------------------- MODULE InputReplay ----------------------------
(***************************************************************************)
(* A session recorded by MachineHost and its replay (InputJournal.h,       *)
(* tests/InputReplay.h): the journal is loaded, the snapshot restored, and *)
(* every event applied again at the machine clock it carries.              *)
(***************************************************************************)
EXTENDS MachineHost

CONSTANT MaxStalls   \* quanta without a clock step before a replay gives up

\* A reset holds the CPU for fewer quanta than the replayer waits for a step.
ASSUME StallsOK == MaxStalls \in Nat /\ GuestHold <= MaxStalls

VARIABLE rep   \* the replayer: verdict, guest, next event, buttons, mailbox

allVars == <<vars, rep>>

Idle == [st |-> "idle", mem |-> Fresh, i |-> 1,
         btn |-> [k \in 0..1 |-> FALSE], box |-> FreshBox, stalls |-> 0]

-----------------------------------------------------------------------------
(* loadInputJournal().                                                     *)

\* Mutant: two events of one boundary are taken for a step back.
NotForward(a, b) == b <= a
Backwards(a, b) == b < a

EventClk(i) == IF i = 0 THEN journal.start ELSE journal.events[i].clk
Loads ==
    /\ journal.start # NoClk
    /\ \A i \in DOMAIN journal.events : ~Backwards(EventClk(i - 1), EventClk(i))
endClk == IF journal.end # NoClk THEN journal.end
                                 ELSE EventClk(Len(journal.events))

\* The replay begins in the machine the snapshot holds.
Started(j) == [Idle EXCEPT !.st = "run", !.mem = j.snap[1]]
loadInputJournal ==
    /\ phase # "live" /\ rep.st = "idle" /\ journal.header
    /\ rep' = IF Loads THEN Started(journal) ELSE [Idle EXCEPT !.st = "refused"]
    /\ UNCHANGED vars

-----------------------------------------------------------------------------
(* replayJournal().                                                        *)

IsDue(j, r) == /\ r.i <= Len(j.events)
               /\ j.events[r.i].clk <= r.mem.clk

\* InputReplayer::apply(): its arms are those of applyCmds(), but for the
\* power of an external screen and the check of the floppy port.
ReplayArm(m, c) ==
    CASE c.t = "Sense" -> hardReset(Deliver(m, c))
      [] c.t = "InsertFloppy" -> Deliver(m, c)
      [] c.t = "DetachDisk" -> detachScsi(m)
      [] OTHER -> InputArm(m, c)
ReplayButton(r, c) ==
    LET btn == [r.btn EXCEPT ![c.a] = (c.b # 0)] IN
    IF SingleButton
    THEN [r EXCEPT !.btn = btn,
                   !.mem = Deliver(@, Cmd("MouseButton", 0,
                               IF \E k \in 0..1 : btn[k] THEN 1 ELSE 0))]
    ELSE [r EXCEPT !.mem = Deliver(@, c)]
Refuses(c) == c.t \in {"TypeText", "CancelTyping", "StateRestore"}
Applied(r, c) ==
    [(CASE c.t = "MouseButton" -> ReplayButton(r, c)
        [] c.t \in {"AgentMount", "AgentUnmount"} ->
               [r EXCEPT !.box = Post(@, c.t)]
        [] OTHER -> [r EXCEPT !.mem = ReplayArm(@, c)])
     EXCEPT !.i = @ + 1]

ReplayEvent ==
    /\ rep.st = "run" /\ IsDue(journal, rep)
    /\ LET c == journal.events[rep.i].cmd IN
       rep' = IF Refuses(c) THEN [rep EXCEPT !.st = "failed"]
                            ELSE Applied(rep, c)
    /\ UNCHANGED vars

ReplayQuantum ==
    /\ rep.st = "run" /\ ~IsDue(journal, rep) /\ rep.mem.clk < endClk
    /\ LET m == GuestAfter(rep.mem, rep.box)
           stalls == IF m.clk = rep.mem.clk THEN rep.stalls + 1 ELSE 0 IN
       rep' = [rep EXCEPT !.mem = m, !.box = BoxAfter(rep.mem, rep.box),
                          !.stalls = stalls,
                          !.st = IF stalls > MaxStalls THEN "failed" ELSE @]
    /\ UNCHANGED vars

ReplayEnds ==
    /\ rep.st = "run" /\ ~IsDue(journal, rep) /\ rep.mem.clk >= endClk
    /\ rep' = [rep EXCEPT !.st = IF rep.i > Len(journal.events) THEN "done"
                                                                ELSE "failed"]
    /\ UNCHANGED vars

-----------------------------------------------------------------------------
Replay == loadInputJournal \/ ReplayEvent \/ ReplayQuantum \/ ReplayEnds

ReplayInit == Init /\ rep = Idle
Next == (HostNext /\ UNCHANGED rep) \/ Replay
Spec == ReplayInit /\ [][Next]_allVars

\* The machine thread loops for as long as the process lives: weak fairness, with
\* the guard of the thread's steps for ENABLED.
FairSpec ==
    /\ Spec
    /\ []<>(phase # "live") \/ []<><<Thread /\ UNCHANGED rep>>_allVars

-----------------------------------------------------------------------------
(* Properties.                                                             *)

Restored(j) == \E i \in DOMAIN j.events : j.events[i].cmd.t = "StateRestore"

\* The guest, the queues and the recording have their types; a queued detach
\* has been tried at most kDetachRetries times (the retry of DetachDisk in
\* applyCmds()).
TypeOK ==
    /\ pc \in {"swap", "rec", "open", "snap", "begin", "cmd", "run"}
    /\ \A q \in {cmds, batch} : \A i \in DOMAIN q :
          /\ q[i] \in Cmds
          /\ q[i].t = "DetachDisk" => q[i].b <= kDetachRetries
    /\ mem.clk <= mem.tick /\ mem.hold \in 0..GuestHold
    /\ phase \in {"live", "stopped", "dead"}
    /\ recPending \subseteq {"start", "stop"}
    /\ journalOn => journal.header /\ journal.snap # <<>>
    /\ rep.st \in {"idle", "run", "done", "refused", "failed"}

\* The guest a complete replay must end in: the recorded one as it was when
\* the recording ended or, when the process died, right after its last event.
Recorded == IF journal.end # NoClk THEN ghost.final[1] ELSE ghost.mark[1]

\* What the snapshot holds is all there was: no quantum was spent with the CPU
\* held, the agent's mailbox was fresh, no folded button was down.
SnapshotIsAll ==
    /\ ~ghost.held
    /\ ghost.box = FreshBox
    /\ SingleButton => ~ghost.pressed

\* A replay that says it reached the end (replayJournal() returns true) has
\* rebuilt exactly the recorded machine, whatever the session interleaved:
\* typed text, pauses, refused detaches, resets, state restores, a death of
\* the process.
ReplayFaithful ==
    rep.st = "done" /\ SnapshotIsAll => rep.mem = Recorded

\* A recording that began and saw no state restore is never refused, neither
\* by loadInputJournal() nor half-way through replayJournal().
RecordingsReplay ==
    rep.st \in {"refused", "failed"} =>
        journal.start = NoClk \/ Restored(journal)

\* Typing leaves no key down: once the typer is idle, only the user's own keys,
\* or those a restored state came with, are down (TextTyper::cancel(), poll()).
UserKeys == {c.a : c \in {x \in Inputs : x.t = "Key"}}
TypedKeysReleased == typer.queue = <<>> => mem.keys \ UserKeys \subseteq ghost.kept

\* Every DetachDisk is answered, however long the session on the target and
\* whether or not the machine runs (the bound kDetachRetries of applyCmds()).
Asked(q) == \E i \in DOMAIN q : q[i].t = "DetachDisk"
DetachAnswered ==
    Asked(cmds) ~> (phase # "live" \/ ~(Asked(cmds) \/ Asked(batch)))

\* The claim of src/DEV.md:2386: a recorded session replays bit-exactly.
ReplayExact == rep.st = "done" => rep.mem = Recorded

=============================================================================
