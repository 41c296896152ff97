------------------------- MODULE InputReplayProofs -------------------------
(***************************************************************************)
(* The proofs about InputReplay, for every set of commands, every text and *)
(* every bound: what the machine thread records a replay can honour, and a *)
(* replay that completes has rebuilt the recorded machine.                 *)
(***************************************************************************)
EXTENDS InputReplay, TLAPS

-----------------------------------------------------------------------------
(* The types.                                                              *)

Names == Kinds \cup {"None", "Power"}
Reached == [t : Names, a : Nat, b : Nat]
Guest == [clk : Nat, tick : Nat, hold : 0..GuestHold, keys : SUBSET Nat,
          bay : Bays, req : [kind : Names, seq : Nat],
          log : Seq([at : Nat, what : Reached])]
\* A machine clock never runs ahead of its devices.
Guests == {m \in Guest : m.clk <= m.tick}

Boxes == [pending : BOOLEAN, kind : Names, seq : Nat]
Strokes == [code : 0..(kCodes - 1), down : {0, 1}, delay : Nat]
Typers == [queue : Seq(Strokes), down : SUBSET (0..(kCodes - 1)), last : Int]
Buttons == [0..1 -> BOOLEAN]

\* What may wait in a queue: what the GUI pushed, or a detach tried again.
Queued == {c \in Cmds : c \in Inputs \/ (c.t = "DetachDisk" /\ c.b <= kDetachRetries)}

\* What may be in a journal: everything but the two typing commands.
Journaled == [t : (Kinds \ {"TypeText", "CancelTyping"}) \cup {"StateRestore"},
              a : Nat, b : Nat]
Journals == [header : BOOLEAN, snap : Seq(Guests), start : Int,
             events : Seq([clk : Nat, cmd : Journaled]), end : Int]
Ghosts == [mark : Seq(Guests), final : Seq(Guests), held : BOOLEAN, box : Boxes,
           pressed : BOOLEAN, kept : SUBSET Nat]
Slots == [pending : SUBSET {"save", "load"}, file : Seq(Guests)]
Replayers == [st : {"idle", "run", "done", "refused", "failed"}, mem : Guests,
              i : Nat \ {0}, btn : Buttons, box : Boxes, stalls : Nat]

Typed ==
    /\ cmds \in Seq(Queued) /\ batch \in Seq(Queued)
    /\ pc \in {"swap", "rec", "open", "snap", "begin", "cmd", "run"}
    /\ mem \in Guests /\ hostBtn \in Buttons /\ typer \in Typers /\ box \in Boxes
    /\ recPending \subseteq {"start", "stop"} /\ journalOn \in BOOLEAN
    /\ journal \in Journals /\ ghost \in Ghosts /\ slot \in Slots
    /\ phase \in {"live", "stopped", "dead"}
    /\ rep \in Replayers

-----------------------------------------------------------------------------
(* The inductive invariant.                                                *)

\* The recording and the thread's place in startRecording().
Placed ==
    /\ journalOn => journal.start # NoClk /\ journal.end = NoClk
    /\ journal.start # NoClk =>
          journal.header /\ journal.snap # <<>> /\ journal.start \in Nat
    /\ journal.end # NoClk => journal.end \in Nat
    /\ pc \in {"open", "snap", "begin"} => ~journalOn
    /\ pc \in {"snap", "begin"} => /\ journal.header /\ journal.events = <<>>
                                   /\ journal.start = NoClk /\ journal.end = NoClk
    /\ pc = "begin" => journal.snap = <<mem>>
    /\ phase = "live" => rep.st = "idle"
    /\ phase # "live" => ~journalOn

\* Without a restore the stamps of a journal never run backwards.
Stamped(j) ==
    /\ \A i \in DOMAIN j.events : j.start <= j.events[i].clk
    /\ \A i, k \in DOMAIN j.events : i <= k => j.events[i].clk <= j.events[k].clk
StampedTo(j, clk) ==
    /\ j.start <= clk
    /\ \A i \in DOMAIN j.events : j.events[i].clk <= clk
Ordered ==
    journal.start # NoClk /\ ~Restored(journal) =>
        /\ Stamped(journal)
        /\ journal.end # NoClk => StampedTo(journal, journal.end)
        /\ journalOn => StampedTo(journal, mem.clk)

\* What the typer holds down, or will press, it will release.
Releases(q, code, i) ==
    \E k \in DOMAIN q : k > i /\ q[k].code = code /\ q[k].down = 0
Balanced(q) ==
    \A i \in DOMAIN q : q[i].down = 1 => Releases(q, q[i].code, i)
HeldKeys ==
    /\ mem.keys \ UserKeys \subseteq ghost.kept \cup typer.down
    /\ \A code \in typer.down : Releases(typer.queue, code, 0)
    /\ Balanced(typer.queue)

\* A replay waits only while its CPU is held, and has met no restore.
Replaying ==
    rep.st = "run" =>
        /\ journal.start # NoClk
        /\ rep.i <= Len(journal.events) + 1
        /\ \A k \in DOMAIN journal.events :
              k < rep.i => journal.events[k].cmd.t # "StateRestore"
        /\ rep.stalls > 0 => ~IsDue(journal, rep)
        /\ rep.stalls + rep.mem.hold <= GuestHold

\* A replay that completed had no restore to meet.
Complete == rep.st = "done" => journal.start # NoClk /\ ~Restored(journal)

IInv == /\ Typed /\ Placed /\ Ordered /\ HeldKeys
        /\ Replaying /\ Complete /\ RecordingsReplay

-----------------------------------------------------------------------------
(* The guest.                                                              *)

LEMMA HoldNat == GuestHold \in Nat /\ kDetachRetries \in Nat
  BY ConstantsOK, Zenon

\* What reaches a guest leaves all but its log as it was (Deliver).
LEMMA DeliverKeeps ==
    ASSUME NEW m \in Guests, NEW c \in Reached
    PROVE  /\ Deliver(m, c) \in Guests
           /\ Deliver(m, c).clk = m.clk /\ Deliver(m, c).tick = m.tick
           /\ Deliver(m, c).hold = m.hold /\ Deliver(m, c).keys = m.keys
           /\ Deliver(m, c).bay = m.bay /\ Deliver(m, c).req = m.req
  <1> DEFINE e == [at |-> m.tick, what |-> c]
             l == Append(m.log, e)
             n == [m EXCEPT !.log = l]
  <1>1. m \in Guest /\ m.clk <= m.tick
    BY Zenon DEF Guests
  <1>2. e \in [at : Nat, what : Reached]
    BY <1>1, Zenon DEF Guest
  <1>3. l \in Seq([at : Nat, what : Reached])
    <2> HIDE DEF e
    <2> QED BY <1>1, <1>2 DEF Guest
  <1>4. Deliver(m, c) = n
    BY DEF Deliver
  <1> HIDE DEF l
  <1>5. n \in Guest /\ n.clk = m.clk /\ n.tick = m.tick /\ n.hold = m.hold
        /\ n.keys = m.keys /\ n.bay = m.bay /\ n.req = m.req
    BY <1>1, <1>3, Zenon DEF Guest
  <1> HIDE DEF n
  <1> QED BY <1>1, <1>4, <1>5, Zenon DEF Guests

\* A command is something that can reach the guest.
LEMMA Reaches ==
    /\ \A c \in Cmds : c \in Reached
    /\ \A k \in Names, a, b \in Nat : Cmd(k, a, b) \in Reached
    /\ {"Key", "MouseButton", "HardReset", "DetachDisk", "Power", "None"}
          \subseteq Names
  <1>1. ASSUME NEW c \in Cmds PROVE c \in Reached
    <2>1. /\ c = [t |-> c.t, a |-> c.a, b |-> c.b]
          /\ c.t \in Kinds /\ c.a \in Nat /\ c.b \in Nat
      BY DEF Cmds
    <2> QED BY <2>1, Zenon DEF Reached, Names
  <1>2. \A k \in Names, a, b \in Nat : Cmd(k, a, b) \in Reached
    BY Zenon DEF Cmd, Reached
  <1>3. {"Key", "MouseButton", "HardReset", "DetachDisk", "Power", "None"}
          \subseteq Names
    BY DEF Names, Kinds
  <1> QED BY <1>1, <1>2, <1>3

KeysAfter(keys, code, down) ==
    IF down = 1 THEN keys \cup {code} ELSE keys \ {code}

\* A key changes the guest's keys and its log (keyEvent).
LEMMA KeyKeeps ==
    ASSUME NEW m \in Guests, NEW code \in Nat, NEW down \in Nat
    PROVE  /\ keyEvent(m, code, down) \in Guests
           /\ keyEvent(m, code, down).clk = m.clk
           /\ keyEvent(m, code, down).hold = m.hold
           /\ keyEvent(m, code, down).keys = KeysAfter(m.keys, code, down)
  <1> DEFINE d == Deliver(m, Cmd("Key", code, down))
             k == IF down = 1 THEN m.keys \cup {code} ELSE m.keys \ {code}
             n == [d EXCEPT !.keys = k]
  <1>1. d \in Guests /\ d.clk = m.clk /\ d.hold = m.hold /\ d.keys = m.keys
    BY DeliverKeeps, Reaches
  <1>2. keyEvent(m, code, down) = n
    BY <1>1, Zenon DEF keyEvent
  <1>3. k \in SUBSET Nat
    BY DEF Guests, Guest
  <1> HIDE DEF d
  <1>4. k = KeysAfter(m.keys, code, down)
    BY Zenon DEF KeysAfter
  <1> HIDE DEF k
  <1>5. n \in Guest /\ n.clk = d.clk /\ n.tick = d.tick /\ n.hold = d.hold
        /\ n.keys = k
    BY <1>1, <1>3, Zenon DEF Guests, Guest
  <1>6. d.clk <= d.tick
    BY <1>1, Zenon DEF Guests
  <1> HIDE DEF n
  <1> QED BY <1>1, <1>2, <1>4, <1>5, <1>6, Zenon DEF Guests

\* A reset holds the CPU and forgets the agent's request (hardReset).
LEMMA ResetKeeps ==
    ASSUME NEW m \in Guests
    PROVE  /\ hardReset(m) \in Guests
           /\ hardReset(m).clk = m.clk /\ hardReset(m).keys = m.keys
  <1> DEFINE d == Deliver(m, Cmd("HardReset", 0, 0))
             n == [d EXCEPT !.hold = GuestHold, !.req = NoRequest]
  <1>1. d \in Guests /\ d.clk = m.clk /\ d.keys = m.keys
    BY DeliverKeeps, Reaches
  <1>2. GuestHold \in 0..GuestHold
    BY HoldNat
  <1>3. NoRequest \in [kind : Names, seq : Nat]
    BY Reaches DEF NoRequest
  <1>4. hardReset(m) = n
    BY DEF hardReset
  <1> HIDE DEF d
  <1>5. n \in Guest /\ n.clk = d.clk /\ n.tick = d.tick /\ n.keys = d.keys
    BY <1>1, <1>2, <1>3, Zenon DEF Guests, Guest
  <1>6. d.clk <= d.tick
    BY <1>1, Zenon DEF Guests
  <1> HIDE DEF n
  <1> QED BY <1>1, <1>4, <1>5, <1>6, Zenon DEF Guests

\* A bay's disk comes and goes (attachScsi, detachScsi).
LEMMA BayKeeps ==
    ASSUME NEW m \in Guests, NEW c \in Reached, NEW bay \in Bays
    PROVE  LET n == [Deliver(m, c) EXCEPT !.bay = bay] IN
           n \in Guests /\ n.clk = m.clk /\ n.keys = m.keys
  <1> DEFINE d == Deliver(m, c)
             n == [d EXCEPT !.bay = bay]
  <1>1. d \in Guests /\ d.clk = m.clk /\ d.keys = m.keys
    BY DeliverKeeps
  <1> SUFFICES n \in Guests /\ n.clk = m.clk /\ n.keys = m.keys
    OBVIOUS
  <1> HIDE DEF d
  <1>2. n \in Guest /\ n.clk = d.clk /\ n.tick = d.tick /\ n.keys = d.keys
    BY <1>1, Zenon DEF Guests, Guest
  <1>3. d.clk <= d.tick
    BY <1>1, Zenon DEF Guests
  <1> HIDE DEF n
  <1> QED BY <1>1, <1>2, <1>3, Zenon DEF Guests
LEMMA DetachKeeps ==
    ASSUME NEW m \in Guests
    PROVE  /\ detachScsi(m) \in Guests
           /\ detachScsi(m).clk = m.clk /\ detachScsi(m).keys = m.keys
  <1> DEFINE y == "none"
             n == [Deliver(m, Cmd("DetachDisk", 0, 0)) EXCEPT !.bay = y]
  <1>1. y \in Bays
    BY DEF Bays
  <1>2. detachScsi(m) = IF CanDetach(m) THEN n ELSE m
    BY DEF detachScsi
  <1> HIDE DEF y
  <1>3. n \in Guests /\ n.clk = m.clk /\ n.keys = m.keys
    BY <1>1, BayKeeps, Reaches
  <1> HIDE DEF n
  <1> QED BY <1>2, <1>3, Zenon

\* What a command of the GUI does to the guest (the arms of applyCmds()): the
\* clock stands still, and only a key changes the keys.
LEMMA ArmKeeps ==
    ASSUME NEW m \in Guests, NEW c \in Cmds
    PROVE  /\ InputArm(m, c) \in Guests
           /\ InputArm(m, c).clk = m.clk
           /\ c.t = "Key" => InputArm(m, c).keys = KeysAfter(m.keys, c.a, c.b)
           /\ c.t # "Key" => InputArm(m, c).keys = m.keys
  <1> DEFINE Fine(n) == n \in Guests /\ n.clk = m.clk /\ n.keys = m.keys
  <1>a. c \in Reached /\ c.a \in Nat /\ c.b \in Nat
    BY Reaches DEF Cmds
  <1>b. Fine(Deliver(m, c))
    BY <1>a, DeliverKeeps
  <1>c. Fine(m)
    OBVIOUS
  <1>1. CASE c.t = "Key"
    <2> DEFINE code == c.a
               down == c.b
    <2>1. InputArm(m, c) = keyEvent(m, code, down)
      BY <1>1 DEF InputArm
    <2>2. code \in Nat /\ down \in Nat
      BY <1>a
    <2> HIDE DEF code, down
    <2>3. /\ keyEvent(m, code, down) \in Guests
          /\ keyEvent(m, code, down).clk = m.clk
          /\ keyEvent(m, code, down).keys = KeysAfter(m.keys, code, down)
      BY <2>2, KeyKeeps
    <2> QED BY <1>1, <2>1, <2>3, Zenon DEF code, down
  <1>2. CASE c.t = "HardReset"
    <2>1. InputArm(m, c) = hardReset(m)
      BY <1>2 DEF InputArm
    <2> QED BY <1>2, <2>1, ResetKeeps
  <1>3. CASE c.t = "Sense"
    <2> DEFINE d == Deliver(m, c)
               p == Deliver(d, Cmd("Power", 0, 0))
    <2>1. InputArm(m, c) = hardReset(IF ExternalPower THEN p ELSE d)
      BY <1>3 DEF InputArm
    <2>2. Fine(p)
      <3>1. Cmd("Power", 0, 0) \in Reached
        BY Reaches
      <3> HIDE DEF d
      <3>2. Fine(d)
        BY <1>b DEF d
      <3> QED BY <3>1, <3>2, DeliverKeeps
    <2> HIDE DEF p, d
    <2>3. Fine(d)
      BY <1>b DEF d
    <2>4. Fine(hardReset(p)) /\ Fine(hardReset(d))
      BY <2>2, <2>3, ResetKeeps
    <2> QED BY <1>3, <2>1, <2>4
  <1>4. CASE c.t = "InsertFloppy"
    <2>1. InputArm(m, c) = IF c.a = 1 /\ ~ExternalPort THEN m ELSE Deliver(m, c)
      BY <1>4 DEF InputArm
    <2> QED BY <1>4, <1>b, <1>c, <2>1
  <1>5. CASE c.t = "AttachDisk"
    <2> DEFINE With(y) == [Deliver(m, c) EXCEPT !.bay = y]
    <2>1. InputArm(m, c) \in {m, With("disk"), With("hollow")}
      BY <1>5 DEF InputArm, attachScsi
    <2>2. "disk" \in Bays /\ "hollow" \in Bays
      BY DEF Bays
    <2>3. ASSUME NEW y \in Bays
          PROVE  Fine(With(y))
      BY <1>a, <2>3, BayKeeps
    <2>4. Fine(With("disk")) /\ Fine(With("hollow"))
      BY <2>2, <2>3, Zenon
    <2> HIDE DEF With
    <2> QED BY <1>5, <2>1, <2>4, Zenon
  <1>6. CASE c.t = "CpuEngine"
    <2>1. InputArm(m, c) = m
      BY <1>6 DEF InputArm
    <2> QED BY <1>6, <2>1
  <1>7. CASE c.t \notin {"Key", "HardReset", "Sense", "InsertFloppy",
                         "AttachDisk", "CpuEngine"}
    <2>1. InputArm(m, c) = Deliver(m, c)
      BY <1>7 DEF InputArm
    <2> QED BY <1>7, <1>b, <2>1
  <1> QED BY <1>1, <1>2, <1>3, <1>4, <1>5, <1>6, <1>7

\* The mailbox (post(), poll(), report()).
LEMMA BoxKeeps ==
    /\ FreshBox \in Boxes
    /\ \A bx \in Boxes, k \in Names : Post(bx, k) \in Boxes
    /\ \A bx \in Boxes : Poll(bx) \in [kind : Names, seq : Nat]
    /\ \A bx \in Boxes, m \in Guests : BoxAfter(m, bx) \in Boxes
  <1>1. FreshBox \in Boxes
    BY Reaches DEF FreshBox, Boxes
  <1>2. ASSUME NEW bx \in Boxes, NEW k \in Names PROVE Post(bx, k) \in Boxes
    BY DEF Post, Boxes
  <1>3. ASSUME NEW bx \in Boxes PROVE Poll(bx) \in [kind : Names, seq : Nat]
    BY Reaches DEF Poll, Boxes, NoRequest
  <1>4. ASSUME NEW bx \in Boxes, NEW m \in Guests PROVE BoxAfter(m, bx) \in Boxes
    <2> DEFINE y == bx.pending /\ m.req.seq # bx.seq
               b == [bx EXCEPT !.pending = y]
    <2>1. BoxAfter(m, bx) \in {b, bx}
      BY Zenon DEF BoxAfter, Report
    <2>2. y \in BOOLEAN
      OBVIOUS
    <2> HIDE DEF y
    <2>3. b \in Boxes
      BY <2>2, Zenon DEF Boxes
    <2> QED BY <2>1, <2>3
  <1> QED BY <1>1, <1>2, <1>3, <1>4

\* The agent's turn takes no machine time (AgentTurn).
LEMMA AgentKeeps ==
    ASSUME NEW m \in Guests, NEW bx \in Boxes
    PROVE  LET n == AgentTurn(m, bx) IN
           /\ n \in Guests /\ n.clk = m.clk /\ n.hold = m.hold /\ n.keys = m.keys
  <1> DEFINE n == AgentTurn(m, bx)
             got == Poll(bx)
             d == Deliver(m, Cmd(got.kind, 0, got.seq))
  <1> SUFFICES n \in Guests /\ n.clk = m.clk /\ n.hold = m.hold /\ n.keys = m.keys
    OBVIOUS
  <1>1. got \in [kind : Names, seq : Nat] /\ NoRequest \in [kind : Names, seq : Nat]
    BY BoxKeeps, Reaches DEF NoRequest
  <1>2. \/ n = m
        \/ n = [m EXCEPT !.req = NoRequest]
        \/ n = [d EXCEPT !.req = got]
    BY Zenon DEF AgentTurn
  <1>3. ASSUME NEW g \in Guests, NEW r \in [kind : Names, seq : Nat]
        PROVE  LET k == [g EXCEPT !.req = r] IN
               k \in Guests /\ k.clk = g.clk /\ k.hold = g.hold /\ k.keys = g.keys
    <2> DEFINE k == [g EXCEPT !.req = r]
    <2>1. k \in Guest /\ k.clk = g.clk /\ k.tick = g.tick /\ k.hold = g.hold
          /\ k.keys = g.keys /\ g.clk <= g.tick
      BY Zenon DEF Guests, Guest
    <2> HIDE DEF k
    <2>2. k \in Guests /\ k.clk = g.clk /\ k.hold = g.hold /\ k.keys = g.keys
      BY <2>1, Zenon DEF Guests
    <2> QED BY <2>2 DEF k
  <1>4. d \in Guests /\ d.clk = m.clk /\ d.hold = m.hold /\ d.keys = m.keys
    <2>1. Cmd(got.kind, 0, got.seq) \in Reached
      BY <1>1, Reaches
    <2> QED BY <2>1, DeliverKeeps
  <1> HIDE DEF n, d, got
  <1>5. CASE n = m
    BY <1>5
  <1>6. CASE n = [m EXCEPT !.req = NoRequest]
    BY <1>1, <1>3, <1>6, Zenon
  <1>7. CASE n = [d EXCEPT !.req = got]
    BY <1>1, <1>3, <1>4, <1>7, Zenon
  <1> QED BY <1>2, <1>5, <1>6, <1>7

\* A quantum: a held CPU's clock stands still, and the hold wears off.
LEMMA AfterKeeps ==
    ASSUME NEW m \in Guests, NEW bx \in Boxes
    PROVE  LET n == GuestAfter(m, bx) IN
           /\ n \in Guests /\ n.keys = m.keys
           /\ n.clk = IF m.hold = 0 THEN m.clk + 1 ELSE m.clk
           /\ n.hold = IF m.hold = 0 THEN 0 ELSE m.hold - 1
  <1> DEFINE g == IF AgentRuns(m) THEN AgentTurn(m, bx) ELSE m
             clk == IF g.hold = 0 THEN g.clk + 1 ELSE g.clk
             hold == IF g.hold = 0 THEN 0 ELSE g.hold - 1
             tick == g.tick + 1
             n == [g EXCEPT !.tick = tick, !.clk = clk, !.hold = hold]
  <1>1. g \in Guests /\ g.clk = m.clk /\ g.hold = m.hold /\ g.keys = m.keys
    BY AgentKeeps, Zenon
  <1>2. GuestAfter(m, bx) = n
    BY Zenon DEF GuestAfter, Elapse
  <1> HIDE DEF g
  <1>3. clk \in Nat /\ hold \in 0..GuestHold /\ tick \in Nat /\ clk <= tick
    <2>1. /\ g.clk \in Nat /\ g.tick \in Nat /\ g.clk <= g.tick
          /\ g.hold \in 0..GuestHold
      BY <1>1, Zenon DEF Guests, Guest
    <2> QED BY <2>1, HoldNat
  <1>4. /\ clk = IF m.hold = 0 THEN m.clk + 1 ELSE m.clk
        /\ hold = IF m.hold = 0 THEN 0 ELSE m.hold - 1
    BY <1>1, Zenon
  <1> HIDE DEF clk, hold, tick
  <1>5. n \in Guest /\ n.clk = clk /\ n.tick = tick /\ n.hold = hold /\ n.keys = g.keys
    BY <1>1, <1>3, Zenon DEF Guests, Guest
  <1> HIDE DEF n
  <1>6. n \in Guests
    BY <1>3, <1>5, Zenon DEF Guests
  <1> QED BY <1>1, <1>2, <1>4, <1>5, <1>6, Zenon

-----------------------------------------------------------------------------
(* The replayer.                                                           *)

\* What an event leaves of the replayer's buttons, guest and mailbox.
BtnOf(r, c) == IF c.t = "MouseButton" /\ SingleButton
               THEN [r.btn EXCEPT ![c.a] = (c.b # 0)] ELSE r.btn
Folded(btn) == Cmd("MouseButton", 0, IF \E k \in 0..1 : btn[k] THEN 1 ELSE 0)
MemOf(r, c) ==
    IF c.t = "MouseButton"
    THEN Deliver(r.mem, IF SingleButton THEN Folded(BtnOf(r, c)) ELSE c)
    ELSE IF c.t \in {"AgentMount", "AgentUnmount"} THEN r.mem
    ELSE ReplayArm(r.mem, c)
BoxOf(r, c) == IF c.t \in {"AgentMount", "AgentUnmount"} THEN Post(r.box, c.t)
                                                         ELSE r.box

LEMMA JournaledCmds ==
    /\ \A c \in Journaled : c.t # "StateRestore" => c \in Cmds /\ ~Refuses(c)
    /\ \A c \in Cmds : c.t \notin {"TypeText", "CancelTyping"} => c \in Journaled
    /\ Marker \in Journaled
    /\ \A a, b \in Nat : Cmd("Key", a, b) \in Journaled
    /\ \A c \in Cmds : c.t # "StateRestore" /\ c.t \in Kinds /\ c.a \in Nat /\ c.b \in Nat
    /\ Refuses(Marker) /\ Marker.t = "StateRestore"
  BY DEF Journaled, Cmds, Kinds, Refuses, Marker, Cmd

\* The arms of the replayer keep the clock (InputReplayer::apply()).
LEMMA ReplayArmKeeps ==
    ASSUME NEW m \in Guests, NEW c \in Cmds
    PROVE  ReplayArm(m, c) \in Guests /\ ReplayArm(m, c).clk = m.clk
  <1>a. c \in Reached
    BY Reaches
  <1>b. Deliver(m, c) \in Guests /\ Deliver(m, c).clk = m.clk
    BY <1>a, DeliverKeeps
  <1>1. CASE c.t = "Sense"
    <2>1. ReplayArm(m, c) = hardReset(Deliver(m, c))
      BY <1>1 DEF ReplayArm
    <2> QED BY <1>b, <2>1, ResetKeeps
  <1>2. CASE c.t = "InsertFloppy"
    BY <1>2, <1>b DEF ReplayArm
  <1>3. CASE c.t = "DetachDisk"
    <2>1. ReplayArm(m, c) = detachScsi(m)
      BY <1>3 DEF ReplayArm
    <2> QED BY <2>1, DetachKeeps
  <1>4. CASE c.t \notin {"Sense", "InsertFloppy", "DetachDisk"}
    <2>1. ReplayArm(m, c) = InputArm(m, c)
      BY <1>4 DEF ReplayArm
    <2> QED BY <2>1, ArmKeeps
  <1> QED BY <1>1, <1>2, <1>3, <1>4

\* An event moves the replayer to the next one, and not its clock.
LEMMA AppliedKeeps ==
    ASSUME NEW r \in Replayers, NEW c \in Cmds
    PROVE  /\ Applied(r, c) \in Replayers
           /\ Applied(r, c) = [r EXCEPT !.btn = BtnOf(r, c), !.mem = MemOf(r, c),
                                        !.box = BoxOf(r, c), !.i = r.i + 1]
           /\ MemOf(r, c) \in Guests /\ MemOf(r, c).clk = r.mem.clk
  <1> DEFINE bt == BtnOf(r, c)
             mm == MemOf(r, c)
             bx == BoxOf(r, c)
             n == [r EXCEPT !.btn = bt, !.mem = mm, !.box = bx, !.i = r.i + 1]
  <1>1. c \in Reached /\ c.a \in Nat /\ c.b \in Nat
    BY Reaches DEF Cmds
  <1>2. r.mem \in Guests /\ r.btn \in Buttons /\ r.box \in Boxes /\ r.i \in Nat \ {0}
    BY Zenon DEF Replayers
  <1>3. bt \in Buttons
    <2> DEFINE y == (c.b # 0)
               w == [r.btn EXCEPT ![c.a] = y]
    <2>1. y \in BOOLEAN
      OBVIOUS
    <2>2. bt \in {w, r.btn}
      BY Zenon DEF BtnOf
    <2> HIDE DEF y
    <2>3. w \in Buttons
      BY <1>2, <2>1, Zenon DEF Buttons
    <2> QED BY <1>2, <2>2, <2>3
  <1>4. mm \in Guests /\ mm.clk = r.mem.clk
    <2>1. CASE c.t = "MouseButton"
      <3>1. Folded(bt) \in Reached
        <4>1. Folded(bt) \in {Cmd("MouseButton", 0, 0), Cmd("MouseButton", 0, 1)}
          BY Zenon DEF Folded
        <4>2. \A x \in {Cmd("MouseButton", 0, 0), Cmd("MouseButton", 0, 1)} : x \in Reached
          BY Reaches
        <4> QED BY <4>1, <4>2, Zenon
      <3> DEFINE x == IF SingleButton THEN Folded(bt) ELSE c
      <3>2. x \in Reached
        BY <1>1, <3>1, Zenon
      <3>3. mm = Deliver(r.mem, x)
        BY <2>1, Zenon DEF MemOf
      <3> HIDE DEF x, mm, bt
      <3> QED BY <1>2, <3>2, <3>3, DeliverKeeps
    <2>2. CASE c.t \in {"AgentMount", "AgentUnmount"}
      <3>1. mm = r.mem
        BY <2>2 DEF MemOf
      <3> QED BY <1>2, <3>1, Zenon
    <2>3. CASE c.t \notin {"MouseButton", "AgentMount", "AgentUnmount"}
      <3>1. mm = ReplayArm(r.mem, c)
        BY <2>3 DEF MemOf
      <3> QED BY <1>2, <3>1, ReplayArmKeeps
    <2> QED BY <2>1, <2>2, <2>3
  <1>5. bx \in Boxes
    <2>1. {"AgentMount", "AgentUnmount"} \subseteq Names
      BY DEF Names, Kinds
    <2>2. c.t \in {"AgentMount", "AgentUnmount"} => Post(r.box, c.t) \in Boxes
      BY <1>2, <2>1, BoxKeeps, Zenon
    <2> QED BY <1>2, <2>2, Zenon DEF BoxOf
  <1>6. r.i + 1 \in Nat \ {0}
    BY <1>2
  <1>7. Applied(r, c) = n
    <2>1. r = [st |-> r.st, mem |-> r.mem, i |-> r.i, btn |-> r.btn,
               box |-> r.box, stalls |-> r.stalls]
      BY DEF Replayers
    <2>2. CASE c.t = "MouseButton"
      <3>1. Applied(r, c) = [ReplayButton(r, c) EXCEPT !.i = @ + 1]
        BY <2>2 DEF Applied
      <3>2. CASE SingleButton
        <4>1. ReplayButton(r, c) = [r EXCEPT !.btn = bt, !.mem = mm]
          BY <2>2, <3>2 DEF ReplayButton, BtnOf, MemOf, Folded
        <4>2. bx = r.box
          BY <2>2 DEF BoxOf
        <4> HIDE DEF bt, mm, bx
        <4> QED BY <2>1, <3>1, <4>1, <4>2, Zenon
      <3>3. CASE ~SingleButton
        <4>1. ReplayButton(r, c) = [r EXCEPT !.mem = mm]
          BY <2>2, <3>3 DEF ReplayButton, MemOf
        <4>2. bx = r.box /\ bt = r.btn
          BY <2>2, <3>3 DEF BoxOf, BtnOf
        <4> HIDE DEF bt, mm, bx
        <4> QED BY <2>1, <3>1, <4>1, <4>2, ZenonT(30)
      <3> QED BY <3>2, <3>3
    <2>3. CASE c.t \in {"AgentMount", "AgentUnmount"}
      <3>1. Applied(r, c) = [[r EXCEPT !.box = bx] EXCEPT !.i = @ + 1]
        BY <2>3, Zenon DEF Applied, BoxOf
      <3>2. mm = r.mem /\ bt = r.btn
        BY <2>3 DEF MemOf, BtnOf
      <3> HIDE DEF bt, mm, bx
      <3> QED BY <2>1, <3>1, <3>2, Zenon
    <2>4. CASE c.t \notin {"MouseButton", "AgentMount", "AgentUnmount"}
      <3>1. Applied(r, c) = [[r EXCEPT !.mem = mm] EXCEPT !.i = @ + 1]
        BY <2>4, Zenon DEF Applied, MemOf
      <3>2. bx = r.box /\ bt = r.btn
        BY <2>4 DEF BoxOf, BtnOf
      <3> HIDE DEF bt, mm, bx
      <3> QED BY <2>1, <3>1, <3>2, Zenon
    <2> QED BY <2>2, <2>3, <2>4
  <1> HIDE DEF bt, mm, bx
  <1>8. n \in Replayers
    BY <1>3, <1>4, <1>5, <1>6, Zenon DEF Replayers
  <1> QED BY <1>4, <1>7, <1>8 DEF bt, mm, bx

-----------------------------------------------------------------------------
(* The typer.                                                              *)

\* A set of naturals has a least member; the codes that are down are counted in
\* their order.  Both are shown below, from the library.
Least == \A T \in SUBSET Nat : T # {} => \E n \in T : \A k \in T : n <= k
Below(S, c) == Cardinality({d \in S : d < c})
Counted ==
    \A S \in SUBSET (0..(kCodes - 1)) :
        /\ Cardinality(S) \in Nat
        /\ \A c \in S : Below(S, c) \in 0..(Cardinality(S) - 1)
        /\ \A b, c \in S : Below(S, b) = Below(S, c) => b = c
        /\ \A n \in 0..(Cardinality(S) - 1) : \E c \in S : Below(S, c) = n

\* One queue after another releases what each of them releases.
LEMMA JoinBalanced ==
    ASSUME NEW p \in Seq(Strokes), NEW q \in Seq(Strokes),
           Balanced(p), Balanced(q)
    PROVE  /\ p \o q \in Seq(Strokes) /\ Balanced(p \o q)
           /\ \A code : Releases(p, code, 0) => Releases(p \o q, code, 0)
  <1> DEFINE w == p \o q
  <1>1. /\ w \in Seq(Strokes) /\ Len(w) = Len(p) + Len(q)
        /\ \A i \in 1..Len(p) : w[i] = p[i]
        /\ \A i \in 1..Len(q) : w[Len(p) + i] = q[i]
        /\ Len(p) \in Nat /\ Len(q) \in Nat
        /\ DOMAIN p = 1..Len(p) /\ DOMAIN q = 1..Len(q) /\ DOMAIN w = 1..Len(w)
    OBVIOUS
  <1> HIDE DEF w
  <1>2. \A code, i : Releases(p, code, i) => Releases(w, code, i)
    <2> SUFFICES ASSUME NEW code, NEW i, NEW k \in 1..Len(p),
                        k > i, p[k].code = code, p[k].down = 0
                 PROVE  k \in DOMAIN w /\ w[k] = p[k]
      BY <1>1, Zenon DEF Releases
    <2> QED BY <1>1
  <1>3. ASSUME NEW code, NEW i \in Nat, Releases(q, code, i)
        PROVE  Releases(w, code, Len(p) + i)
    <2>1. PICK k \in 1..Len(q) : k > i /\ q[k].code = code /\ q[k].down = 0
      BY <1>1, <1>3, Zenon DEF Releases
    <2>2. Len(p) + k \in DOMAIN w /\ w[Len(p) + k] = q[k] /\ Len(p) + k > Len(p) + i
      BY <1>1, <2>1
    <2> QED BY <2>1, <2>2, Zenon DEF Releases
  <1>4. ASSUME NEW i \in DOMAIN w, w[i].down = 1 PROVE Releases(w, w[i].code, i)
    <2>1. CASE i \in 1..Len(p)
      <3>1. w[i] = p[i] /\ i \in DOMAIN p
        BY <1>1, <2>1, Zenon
      <3> QED BY <1>2, <1>4, <3>1, Zenon DEF Balanced
    <2>2. CASE i \notin 1..Len(p)
      <3>1. PICK k \in 1..Len(q) : i = Len(p) + k
        <4>1. i - Len(p) \in 1..Len(q) /\ i = Len(p) + (i - Len(p))
          BY <1>1, <2>2
        <4> QED BY <4>1, Zenon
      <3>2. w[i] = q[k] /\ k \in DOMAIN q /\ k \in Nat
        BY <1>1, <3>1
      <3>3. Releases(q, q[k].code, k)
        BY <1>4, <3>2, Zenon DEF Balanced
      <3> QED BY <1>3, <3>1, <3>2, <3>3, Zenon
    <2> QED BY <2>1, <2>2
  <1>5. Balanced(w)
    BY <1>4, Zenon DEF Balanced
  <1> QED BY <1>1, <1>2, <1>5, Zenon DEF w

\* A queue filled piece after piece: the recursion of Joins has its value, and
\* what it holds is balanced when every piece is.
LEMMA JoinedBalanced ==
    ASSUME Least, NEW pieces \in Seq(Seq(Strokes)),
           \A n \in 1..Len(pieces) : Balanced(pieces[n])
    PROVE  Joined(pieces) \in Seq(Strokes) /\ Balanced(Joined(pieces))
  <1> DEFINE N == Len(pieces)
             Fills(g, k) == g = [i \in 0..k |-> IF i = 0 THEN <<>>
                                                ELSE g[i - 1] \o pieces[i]]
  <1>1. N \in Nat /\ \A n \in 1..N : pieces[n] \in Seq(Strokes)
    OBVIOUS
  <1> HIDE DEF N
  <1>2. \A k \in 0..N : \E g : Fills(g, k)
    <2> DEFINE T == {k \in 0..N : ~ \E g : Fills(g, k)}
    <2> SUFFICES ASSUME T # {} PROVE FALSE
      BY Zenon
    <2>1. T \in SUBSET Nat
      <3>1. 0..N \subseteq Nat
        BY <1>1
      <3> QED BY <3>1, Zenon
    <2>2. PICK k \in T : \A j \in T : k <= j
      BY <2>1, Zenon DEF Least
    <2>3. CASE k = 0
      <3> DEFINE g == [i \in 0..0 |-> <<>>]
      <3>1. Fills(g, 0)
        <4>1. g = [i \in 0..0 |-> IF i = 0 THEN <<>> ELSE g[i - 1] \o pieces[i]]
          OBVIOUS
        <4> QED BY <4>1, Zenon
      <3> QED BY <2>2, <2>3, <3>1, Zenon
    <2>4. CASE k # 0
      <3>1. k \in 1..N /\ k - 1 \in 0..N /\ ~(k <= k - 1)
        BY <1>1, <2>1, <2>2, <2>4
      <3>2. PICK g : Fills(g, k - 1)
        BY <2>2, <3>1, Zenon
      <3> DEFINE h == [i \in 0..k |-> IF i = k THEN g[k - 1] \o pieces[k] ELSE g[i]]
      <3>3. \A i \in 0..k : h[i] = IF i = 0 THEN <<>> ELSE h[i - 1] \o pieces[i]
        <4> SUFFICES ASSUME NEW i \in 0..k
                     PROVE  h[i] = IF i = 0 THEN <<>> ELSE h[i - 1] \o pieces[i]
          BY Zenon
        <4>1. CASE i = k
          <5>1. h[k] = g[k - 1] \o pieces[k] /\ h[k - 1] = g[k - 1] /\ k # 0
            BY <3>1
          <5> QED BY <4>1, <5>1, Zenon
        <4>2. CASE i # k
          <5>1. i \in 0..(k - 1) /\ h[i] = g[i]
            BY <3>1, <4>2
          <5>2. g[i] = IF i = 0 THEN <<>> ELSE g[i - 1] \o pieces[i]
            BY <3>2, <5>1, Zenon
          <5>3. i # 0 => h[i - 1] = g[i - 1]
            BY <3>1, <5>1
          <5> QED BY <5>1, <5>2, <5>3, Zenon
        <4> QED BY <4>1, <4>2
      <3>4. h = [i \in 0..k |-> IF i = 0 THEN <<>> ELSE h[i - 1] \o pieces[i]]
        <4>1. h = [i \in 0..k |-> h[i]]
          OBVIOUS
        <4> HIDE DEF h
        <4> QED BY <3>3, <4>1, Zenon
      <3> HIDE DEF h
      <3> QED BY <2>2, <3>4, Zenon
    <2> QED BY <2>3, <2>4
  <1> DEFINE f == Joins(pieces)
  <1>3. \A k \in 0..N : f[k] = IF k = 0 THEN <<>> ELSE f[k - 1] \o pieces[k]
    <2>1. \E g : Fills(g, N)
      <3>1. N \in 0..N
        BY <1>1
      <3> QED BY <1>2, <3>1, Zenon
    <2>2. f = CHOOSE g : Fills(g, N)
      BY DEF Joins, N
    <2> HIDE DEF f
    <2>3. Fills(f, N)
      BY <2>1, <2>2, Zenon
    <2> QED BY <2>3, Zenon
  <1> HIDE DEF f
  <1>4. \A k \in 0..N : f[k] \in Seq(Strokes) /\ Balanced(f[k])
    <2> DEFINE T == {k \in 0..N : ~(f[k] \in Seq(Strokes) /\ Balanced(f[k]))}
    <2> SUFFICES ASSUME T # {} PROVE FALSE
      BY Zenon
    <2>1. T \in SUBSET Nat
      <3>1. 0..N \subseteq Nat
        BY <1>1
      <3> QED BY <3>1, Zenon
    <2>2. PICK k \in T : \A j \in T : k <= j
      BY <2>1, Zenon DEF Least
    <2>3. CASE k = 0
      <3>1. f[0] = <<>>
        BY <1>1, <1>3
      <3>2. <<>> \in Seq(Strokes) /\ Balanced(<<>>)
        BY DEF Balanced
      <3> QED BY <2>2, <2>3, <3>1, <3>2, Zenon
    <2>4. CASE k # 0
      <3>1. k \in 1..N /\ k - 1 \in 0..N /\ ~(k <= k - 1)
        BY <1>1, <2>1, <2>2, <2>4
      <3>2. f[k - 1] \in Seq(Strokes) /\ Balanced(f[k - 1])
        BY <2>2, <3>1, Zenon
      <3>3. f[k] = f[k - 1] \o pieces[k]
        <4>1. k \in 0..N
          BY <3>1
        <4> QED BY <1>3, <2>4, <4>1, Zenon
      <3>4. pieces[k] \in Seq(Strokes) /\ Balanced(pieces[k])
        BY <1>1, <3>1, Zenon DEF N
      <3>5. f[k] \in Seq(Strokes) /\ Balanced(f[k])
        BY <3>2, <3>3, <3>4, JoinBalanced, Zenon
      <3> QED BY <2>2, <3>5, Zenon
    <2> QED BY <2>3, <2>4
  <1>5. Joined(pieces) = f[N] /\ N \in 0..N
    BY <1>1 DEF Joined, f, N
  <1> QED BY <1>4, <1>5, Zenon

LEMMA StepIs ==
    ASSUME NEW c \in 0..(kCodes - 1), NEW b \in {0, 1}, NEW e \in Nat
    PROVE  /\ Step(c, b, e) \in Strokes
           /\ Step(c, b, e).code = c /\ Step(c, b, e).down = b
  BY Zenon DEF Step, Strokes

\* A planned text is balanced (planTyping()).
LEMMA PlanBalanced ==
    ASSUME Least, NEW text \in Seq([code : 0..(kCodes - 1), shift : BOOLEAN])
    PROVE  planTyping(text) \in Seq(Strokes) /\ Balanced(planTyping(text))
  <1> DEFINE first(i) == IF i = 1 THEN 0 ELSE GapClk
             pieces == [i \in 1..Len(text) |-> Keystroke(text[i], first(i))]
  <1>1. HoldClk \in Nat /\ LeadClk \in Nat /\ GapClk \in Nat
    BY ConstantsOK, Zenon
  <1>2. ASSUME NEW k \in [code : 0..(kCodes - 1), shift : BOOLEAN], NEW d \in Nat
        PROVE  Keystroke(k, d) \in Seq(Strokes) /\ Balanced(Keystroke(k, d))
    <2> DEFINE u == <<Step(kShift, 1, d), Step(k.code, 1, LeadClk),
                      Step(k.code, 0, HoldClk), Step(kShift, 0, LeadClk)>>
               v == <<Step(k.code, 1, d), Step(k.code, 0, HoldClk)>>
    <2>1. k.code \in 0..(kCodes - 1) /\ kShift \in 0..(kCodes - 1)
      BY DEF kShift, kCodes
    <2>3. u \in Seq(Strokes) /\ Balanced(u)
      <3> DEFINE s1 == Step(kShift, 1, d)
                 s2 == Step(k.code, 1, LeadClk)
                 s3 == Step(k.code, 0, HoldClk)
                 s4 == Step(kShift, 0, LeadClk)
      <3>1. /\ s1 \in Strokes /\ s2 \in Strokes /\ s3 \in Strokes /\ s4 \in Strokes
            /\ s1.code = s4.code /\ s2.code = s3.code
            /\ s3.down = 0 /\ s4.down = 0
        BY <1>1, <1>2, <2>1, StepIs
      <3> HIDE DEF s1, s2, s3, s4
      <3>2. <<s1, s2, s3, s4>> \in Seq(Strokes) /\ Balanced(<<s1, s2, s3, s4>>)
        BY <3>1 DEF Balanced, Releases
      <3> QED BY <3>2, Zenon DEF s1, s2, s3, s4
    <2>4. v \in Seq(Strokes) /\ Balanced(v)
      <3> DEFINE s1 == Step(k.code, 1, d)
                 s2 == Step(k.code, 0, HoldClk)
      <3>1. /\ s1 \in Strokes /\ s2 \in Strokes /\ s1.code = s2.code /\ s2.down = 0
        BY <1>1, <1>2, <2>1, StepIs
      <3> HIDE DEF s1, s2
      <3>2. <<s1, s2>> \in Seq(Strokes) /\ Balanced(<<s1, s2>>)
        BY <3>1 DEF Balanced, Releases
      <3> QED BY <3>2, Zenon DEF s1, s2
    <2> QED BY <2>3, <2>4, Zenon DEF Keystroke
  <1>3. \A i \in 1..Len(text) : /\ text[i] \in [code : 0..(kCodes - 1), shift : BOOLEAN]
                                /\ first(i) \in Nat
    <2> DEFINE K == [code : 0..(kCodes - 1), shift : BOOLEAN]
    <2>1. text \in Seq(K)
      OBVIOUS
    <2> HIDE DEF K
    <2>2. \A i \in 1..Len(text) : text[i] \in K
      BY <2>1
    <2>3. \A i \in 1..Len(text) : first(i) \in Nat
      BY <1>1
    <2> QED BY <2>2, <2>3, Zenon DEF K
  <1> HIDE DEF first
  <1>4. \A i \in 1..Len(text) : /\ Keystroke(text[i], first(i)) \in Seq(Strokes)
                                /\ Balanced(Keystroke(text[i], first(i)))
    BY <1>2, <1>3, Zenon
  <1>5. /\ pieces \in Seq(Seq(Strokes)) /\ Len(pieces) = Len(text)
        /\ \A i \in 1..Len(text) : pieces[i] = Keystroke(text[i], first(i))
    BY <1>4
  <1>6. planTyping(text) = Joined(pieces)
    BY Zenon DEF planTyping, first
  <1> HIDE DEF pieces
  <1>7. \A n \in 1..Len(pieces) : Balanced(pieces[n])
    BY <1>4, <1>5, Zenon
  <1> QED BY <1>5, <1>6, <1>7, JoinedBalanced, Zenon

\* A cancelled text releases whatever it holds down (TextTyper::cancel()).
LEMMA CancelReleases ==
    ASSUME Counted, NEW ty \in Typers
    PROVE  /\ cancel(ty) \in Typers /\ cancel(ty).down = ty.down
           /\ \A code \in ty.down : Releases(cancel(ty).queue, code, 0)
           /\ Balanced(cancel(ty).queue)
  <1> DEFINE S == ty.down
             n == Cardinality(S)
             held == Ascending(S)
             q == [i \in DOMAIN held |-> Step(held[i], 0, 0)]
             w == [ty EXCEPT !.queue = q]
  <1>1. S \in SUBSET (0..(kCodes - 1))
    BY Zenon DEF Typers
  <1>2. /\ n \in Nat
        /\ \A c \in S : Below(S, c) \in 0..(n - 1)
        /\ \A b, c \in S : Below(S, b) = Below(S, c) => b = c
        /\ \A k \in 0..(n - 1) : \E c \in S : Below(S, c) = k
    BY <1>1, Zenon DEF Counted
  <1>3. cancel(ty) = w
    BY Zenon DEF cancel
  <1>4. held = [i \in 1..n |-> CHOOSE c \in S : Below(S, c) = i - 1]
    BY Zenon DEF Ascending, Below
  <1> HIDE DEF S, n, held
  <1>5. ASSUME NEW i \in 1..n
        PROVE  held[i] \in S /\ Below(S, held[i]) = i - 1
    <2>1. i - 1 \in 0..(n - 1)
      BY <1>2
    <2>2. \E c \in S : Below(S, c) = i - 1
      BY <1>2, <2>1, Zenon
    <2>3. held[i] = CHOOSE c \in S : Below(S, c) = i - 1
      BY <1>4, Zenon
    <2> QED BY <2>2, <2>3, Zenon
  <1>6. DOMAIN q = 1..n /\ DOMAIN held = 1..n
    BY <1>4, Zenon
  <1>7. ASSUME NEW i \in 1..n
        PROVE  q[i] \in Strokes /\ q[i].code = held[i] /\ q[i].down = 0
    <2>1. q[i] = Step(held[i], 0, 0)
      BY <1>6, Zenon
    <2>2. held[i] \in 0..(kCodes - 1)
      BY <1>1, <1>5 DEF S
    <2>3. 0 \in {0, 1} /\ 0 \in Nat
      OBVIOUS
    <2> QED BY <2>1, <2>2, <2>3, StepIs
  <1>8. q \in Seq(Strokes)
    <2>1. q = [i \in 1..n |-> q[i]]
      BY <1>6, Zenon
    <2> HIDE DEF q
    <2>2. q \in [1..n -> Strokes]
      BY <1>7, <2>1, Zenon
    <2> QED BY <1>2, <2>2
  <1> HIDE DEF q
  <1>9. w \in Typers /\ w.down = S /\ w.queue = q
    BY <1>8, Zenon DEF Typers, S
  <1>10. ASSUME NEW code \in S PROVE Releases(q, code, 0)
    <2> DEFINE i == Below(S, code) + 1
    <2>1. i \in 1..n /\ i - 1 = Below(S, code) /\ i > 0
      BY <1>2
    <2> HIDE DEF i
    <2>2. held[i] = code
      <3>1. held[i] \in S /\ Below(S, held[i]) = Below(S, code)
        BY <1>5, <2>1, Zenon
      <3> QED BY <1>2, <3>1, Zenon
    <2> QED BY <1>6, <1>7, <2>1, <2>2, Zenon DEF Releases
  <1>11. Balanced(q)
    <2>1. \A i \in 1..n : q[i].down # 1
      BY <1>7
    <2> QED BY <1>6, <2>1, Zenon DEF Balanced
  <1> HIDE DEF w
  <1> QED BY <1>3, <1>9, <1>10, <1>11, Zenon DEF S

-----------------------------------------------------------------------------
(* The journal.                                                            *)

With(j, c, clk) == [j EXCEPT !.events = Append(@, [clk |-> clk, cmd |-> c])]

LEMMA JournalIs ==
    ASSUME NEW j \in Journals
    PROVE  /\ j.start \in Int /\ j.end \in Int /\ Len(j.events) \in Nat
           /\ DOMAIN j.events = 1..Len(j.events)
           /\ \A i \in DOMAIN j.events : /\ j.events[i].clk \in Nat
                                         /\ j.events[i].cmd \in Journaled
  <1> DEFINE E == [clk : Nat, cmd : Journaled]
  <1>1. j.start \in Int /\ j.end \in Int /\ j.events \in Seq(E)
    BY Zenon DEF Journals
  <1>2. \A e \in E : e.clk \in Nat /\ e.cmd \in Journaled
    BY Zenon
  <1> HIDE DEF E
  <1>3. /\ Len(j.events) \in Nat /\ DOMAIN j.events = 1..Len(j.events)
        /\ \A i \in DOMAIN j.events : j.events[i] \in E
    BY <1>1
  <1> QED BY <1>1, <1>2, <1>3, Zenon

\* One more event leaves the others where they are (InputJournalWriter::event()).
LEMMA WithEvents ==
    ASSUME NEW j \in Journals, NEW c \in Journaled, NEW clk \in Nat
    PROVE  LET k == With(j, c, clk) IN
           /\ Len(k.events) = Len(j.events) + 1
           /\ \A i \in DOMAIN j.events : i \in DOMAIN k.events /\ k.events[i] = j.events[i]
           /\ k.events[Len(j.events) + 1] = [clk |-> clk, cmd |-> c]
           /\ Len(j.events) + 1 \in DOMAIN k.events
           /\ k \in Journals /\ k.header = j.header /\ k.snap = j.snap
           /\ k.start = j.start /\ k.end = j.end
  <1> DEFINE E == [clk : Nat, cmd : Journaled]
             e == [clk |-> clk, cmd |-> c]
             es == j.events
             fs == Append(es, e)
             k == [j EXCEPT !.events = fs]
  <1>1. e \in E
    BY Zenon
  <1>2. es \in Seq(E)
    BY Zenon DEF Journals
  <1>3. With(j, c, clk) = k
    BY DEF With
  <1>4. e = [clk |-> clk, cmd |-> c]
    OBVIOUS
  <1> HIDE DEF e, E, es
  <1>5. /\ fs \in Seq(E) /\ Len(fs) = Len(es) + 1 /\ fs[Len(es) + 1] = e
        /\ \A i \in DOMAIN es : i \in DOMAIN fs /\ fs[i] = es[i]
        /\ Len(es) + 1 \in DOMAIN fs
    BY <1>1, <1>2
  <1> HIDE DEF fs
  <1>6. /\ k \in Journals /\ k.header = j.header /\ k.snap = j.snap
        /\ k.start = j.start /\ k.end = j.end /\ k.events = fs
    BY <1>5, Zenon DEF Journals, E
  <1> HIDE DEF k
  <1>7. /\ Len(k.events) = Len(j.events) + 1
        /\ \A i \in DOMAIN j.events : i \in DOMAIN k.events /\ k.events[i] = j.events[i]
        /\ k.events[Len(j.events) + 1] = [clk |-> clk, cmd |-> c]
        /\ Len(j.events) + 1 \in DOMAIN k.events
    BY <1>4, <1>5, <1>6, Zenon DEF es
  <1> QED BY <1>3, <1>6, <1>7, Zenon
LEMMA WithKeeps ==
    ASSUME NEW j \in Journals, NEW c \in Journaled, NEW clk \in Nat
    PROVE  LET k == With(j, c, clk) IN
           /\ k \in Journals /\ k.header = j.header /\ k.snap = j.snap
           /\ k.start = j.start /\ k.end = j.end
           /\ Restored(j) => Restored(k)
           /\ c.t = "StateRestore" => Restored(k)
  <1> DEFINE k == With(j, c, clk)
             L == Len(j.events) + 1
  <1>1. /\ Len(k.events) = Len(j.events) + 1
        /\ \A i \in DOMAIN j.events : i \in DOMAIN k.events /\ k.events[i] = j.events[i]
        /\ k.events[Len(j.events) + 1] = [clk |-> clk, cmd |-> c]
        /\ Len(j.events) + 1 \in DOMAIN k.events
        /\ k \in Journals /\ k.header = j.header /\ k.snap = j.snap
        /\ k.start = j.start /\ k.end = j.end
    BY WithEvents, SMT
  <1> HIDE DEF k
  <1>2. /\ \A i \in DOMAIN j.events : i \in DOMAIN k.events /\ k.events[i] = j.events[i]
        /\ k.events[L] = [clk |-> clk, cmd |-> c] /\ L \in DOMAIN k.events
    BY <1>1, Zenon
  <1> HIDE DEF L
  <1>3. Restored(j) => Restored(k)
    BY <1>2, Zenon DEF Restored
  <1>4. k.events[L].cmd = c
    BY <1>2
  <1>5. c.t = "StateRestore" => Restored(k)
    BY <1>2, <1>4, Zenon DEF Restored
  <1> QED BY <1>1, <1>3, <1>5, Zenon DEF k

\* An event stamped with the clock of now keeps the stamps in order.
LEMMA WithStamped ==
    ASSUME NEW j \in Journals, NEW c \in Journaled, NEW clk \in Nat,
           Stamped(j), StampedTo(j, clk)
    PROVE  Stamped(With(j, c, clk)) /\ StampedTo(With(j, c, clk), clk)
  <1> DEFINE k == With(j, c, clk)
             L == Len(j.events)
  <1>1. /\ k \in Journals /\ k.start = j.start
        /\ Len(k.events) = L + 1
        /\ \A i \in DOMAIN j.events : i \in DOMAIN k.events /\ k.events[i] = j.events[i]
        /\ k.events[L + 1] = [clk |-> clk, cmd |-> c]
    <2>1. /\ Len(k.events) = Len(j.events) + 1
          /\ \A i \in DOMAIN j.events : i \in DOMAIN k.events /\ k.events[i] = j.events[i]
          /\ k.events[Len(j.events) + 1] = [clk |-> clk, cmd |-> c]
          /\ Len(j.events) + 1 \in DOMAIN k.events
          /\ k \in Journals /\ k.header = j.header /\ k.snap = j.snap
          /\ k.start = j.start /\ k.end = j.end
      BY WithEvents, SMT
    <2> QED BY <2>1, Zenon
  <1> HIDE DEF k
  <1>2. /\ L \in Nat /\ DOMAIN j.events = 1..L /\ DOMAIN k.events = 1..(L + 1)
        /\ \A i \in 1..L : j.events[i].clk \in Nat
        /\ j.start \in Int
    BY <1>1, JournalIs, Zenon
  <1> HIDE DEF L
  <1>3. k.events[L + 1].clk = clk
    BY <1>1
  <1>4. \A i \in 1..L : k.events[i].clk = j.events[i].clk
    BY <1>1, <1>2, Zenon
  <1>5. \A i \in 1..L : j.start <= j.events[i].clk /\ j.events[i].clk <= clk
    BY <1>2, Zenon DEF Stamped, StampedTo
  <1>6. \A i, n \in 1..L : i <= n => j.events[i].clk <= j.events[n].clk
    BY <1>2, Zenon DEF Stamped
  <1>7. j.start <= clk
    BY DEF StampedTo
  <1>8. \A i \in 1..(L + 1) : i \in 1..L \/ i = L + 1
    BY <1>2
  <1>9. \A i \in 1..(L + 1) : j.start <= k.events[i].clk /\ k.events[i].clk <= clk
    BY <1>3, <1>4, <1>5, <1>7, <1>8
  <1>10. ASSUME NEW i \in 1..(L + 1), NEW n \in 1..(L + 1), i <= n
         PROVE  k.events[i].clk <= k.events[n].clk
    <2>1. CASE n = L + 1
      BY <1>3, <1>9, <2>1
    <2>2. CASE n # L + 1
      <3>1. i \in 1..L /\ n \in 1..L
        BY <1>2, <1>10, <2>2
      <3> QED BY <1>4, <1>6, <1>10, <3>1
    <2> QED BY <2>1, <2>2
  <1> QED BY <1>1, <1>2, <1>7, <1>9, <1>10, Zenon DEF Stamped, StampedTo, k

\* The stamps stay below a clock that only goes up.
LEMMA StampedLater ==
    ASSUME NEW j \in Journals, NEW a \in Nat, NEW b \in Nat, a <= b, StampedTo(j, a)
    PROVE  StampedTo(j, b)
  <1>1. j.start \in Int /\ \A i \in DOMAIN j.events : j.events[i].clk \in Nat
    BY JournalIs, Zenon
  <1> QED BY <1>1 DEF StampedTo

-----------------------------------------------------------------------------
(* The steps of the machine's process: none of them while a replay runs.   *)

\* While the process lives nothing is replayed.
LEMMA IdleKeeps ==
    ASSUME IInv, phase = "live", rep' = rep
    PROVE  /\ rep.st = "idle" /\ rep' \in Replayers /\ rep'.st = "idle"
           /\ Replaying' /\ Complete' /\ RecordingsReplay'
  <1>1. rep.st = "idle" /\ rep \in Replayers
    BY Zenon DEF IInv, Placed, Typed
  <1>2. rep' \in Replayers /\ rep'.st = "idle"
    BY <1>1, Zenon
  <1>3. rep'.st \notin {"run", "done", "refused", "failed"}
    BY <1>2
  <1> QED BY <1>1, <1>2, <1>3 DEF Replaying, Complete, RecordingsReplay

\* What the GUI may push may wait in a queue.
LEMMA QueuedIs ==
    /\ Inputs \subseteq Queued
    /\ \A c \in Queued : c \in Cmds
    /\ \A c \in Queued : c.t # "DetachDisk" => c \in Inputs
    /\ \A c \in Queued : c.t = "DetachDisk" => c.b <= kDetachRetries
    /\ \A c \in Queued : c.t = "Key" => c.a \in UserKeys
  <1>1. \A c \in Inputs : c \in Cmds /\ (c.t = "DetachDisk" => c.b = 0)
    BY ConstantsOK, Zenon
  <1>2. kDetachRetries \in Nat
    BY HoldNat
  <1>3. \A c \in Queued : c.t = "Key" => c.a \in UserKeys
    <2>1. \A c \in Queued : c.t = "Key" => c \in Inputs
      BY DEF Queued
    <2> QED BY <2>1, Zenon DEF UserKeys
  <1> QED BY <1>1, <1>2, <1>3 DEF Queued

\* The GUI's posts touch the queue and the requests alone.
LEMMA GuiKeeps ==
    ASSUME IInv, Gui, rep' = rep
    PROVE  IInv'
  <1>1. /\ phase = "live" /\ phase' = phase /\ batch' = batch /\ pc' = pc /\ mem' = mem
        /\ hostBtn' = hostBtn /\ typer' = typer /\ box' = box
        /\ journalOn' = journalOn /\ journal' = journal /\ ghost' = ghost
    BY Zenon DEF Gui, push, requestRecording, requestState, SetRunning, Posting,
                 guestVars, fileVars
  <1>2. Replaying' /\ Complete' /\ RecordingsReplay' /\ rep' \in Replayers
    BY <1>1, IdleKeeps, Zenon
  <1>3. Placed'
    BY <1>1, Zenon DEF IInv, Placed
  <1>4. Ordered' /\ HeldKeys'
    BY <1>1, Zenon DEF IInv, Ordered, HeldKeys
  <1>5. cmds' \in Seq(Queued)
    <2>1. cmds \in Seq(Queued)
      BY Zenon DEF IInv, Typed
    <2>2. ASSUME NEW c \in Inputs, push(c) PROVE cmds' \in Seq(Queued)
      <3>1. cmds' = Append(cmds, c) /\ c \in Queued
        BY <2>2, QueuedIs, Zenon DEF push
      <3> QED BY <2>1, <3>1
    <2> QED BY <2>1, <2>2, Zenon DEF Gui, requestRecording, requestState, SetRunning
  <1>6. recPending' \subseteq {"start", "stop"}
    BY Zenon DEF Gui, push, requestRecording, requestState, SetRunning, IInv, Typed
  <1>7. slot' \in Slots
    <2>1. slot \in Slots
      BY Zenon DEF IInv, Typed
    <2>2. ASSUME NEW what \in {"save", "load"}, requestState(what) PROVE slot' \in Slots
      <3> DEFINE p == slot.pending \cup {what}
      <3>1. p \in SUBSET {"save", "load"}
        BY <2>1 DEF Slots
      <3>2. slot' = [slot EXCEPT !.pending = p]
        BY <2>2, Zenon DEF requestState
      <3> HIDE DEF p
      <3> QED BY <2>1, <3>1, <3>2, Zenon DEF Slots
    <2> QED BY <2>1, <2>2, Zenon DEF Gui, push, requestRecording, SetRunning
  <1>8. Typed'
    BY <1>1, <1>2, <1>5, <1>6, <1>7, Zenon DEF IInv, Typed
  <1> QED BY <1>2, <1>3, <1>4, <1>8, Zenon DEF IInv

\* The thread's moves that leave the machine and the recording alone.
LEMMA MovesKeep ==
    ASSUME IInv, Swap \/ EndTick, rep' = rep
    PROVE  IInv'
  <1>1. /\ phase = "live" /\ phase' = phase /\ mem' = mem
        /\ hostBtn' = hostBtn /\ typer' = typer /\ box' = box
        /\ journalOn' = journalOn /\ journal' = journal /\ ghost' = ghost
        /\ recPending' = recPending /\ slot' = slot /\ pc' \in {"rec", "swap"}
        /\ cmds' \in {cmds, <<>>} /\ batch' \in {batch, cmds}
    BY DEF Swap, EndTick, guiVars, guestVars, fileVars
  <1>2. Replaying' /\ Complete' /\ RecordingsReplay' /\ rep' \in Replayers /\ rep'.st = "idle"
    BY <1>1, IdleKeeps, Zenon
  <1>3. pc' \notin {"open", "snap", "begin"} /\ pc' # "begin"
        /\ pc' \in {"swap", "rec", "open", "snap", "begin", "cmd", "run"}
    BY <1>1
  <1>4. Placed'
    BY <1>1, <1>2, <1>3 DEF IInv, Placed
  <1>5. Ordered' /\ HeldKeys'
    BY <1>1, Zenon DEF IInv, Ordered, HeldKeys
  <1>6. cmds' \in Seq(Queued) /\ batch' \in Seq(Queued)
    <2>1. cmds \in Seq(Queued) /\ batch \in Seq(Queued) /\ <<>> \in Seq(Queued)
      BY DEF IInv, Typed
    <2> QED BY <1>1, <2>1, Zenon
  <1>7. Typed'
    BY <1>1, <1>2, <1>3, <1>6, Zenon DEF IInv, Typed
  <1> QED BY <1>2, <1>4, <1>5, <1>7, Zenon DEF IInv

\* A recording ends at the clock of now (finishRecording()).
LEMMA FinishKeeps ==
    ASSUME IInv, journalOn, Finish
    PROVE  /\ journal' \in Journals /\ ghost' \in Ghosts /\ journalOn' = FALSE
           /\ journal'.header = journal.header /\ journal'.snap = journal.snap
           /\ journal'.start = journal.start /\ journal'.events = journal.events
           /\ journal'.end = mem.clk /\ mem.clk \in Nat
           /\ ghost'.kept = ghost.kept
           /\ journal'.start # NoClk /\ ~Restored(journal') =>
                 Stamped(journal') /\ StampedTo(journal', journal'.end)
  <1>1. journal \in Journals /\ ghost \in Ghosts /\ mem \in Guests
    BY Zenon DEF IInv, Typed
  <1>2. mem.clk \in Nat /\ mem.clk \in Int
    BY <1>1 DEF Guests, Guest
  <1>3. /\ journal' = [journal EXCEPT !.end = mem.clk] /\ journalOn' = FALSE
        /\ ghost' = [ghost EXCEPT !.final = <<mem>>]
    BY Zenon DEF Finish
  <1>4. /\ journal' \in Journals /\ journal'.header = journal.header
        /\ journal'.snap = journal.snap /\ journal'.start = journal.start
        /\ journal'.events = journal.events /\ journal'.end = mem.clk
    BY <1>1, <1>2, <1>3, Zenon DEF Journals
  <1>5. ghost' \in Ghosts /\ ghost'.kept = ghost.kept
    <2> DEFINE f == <<mem>>
    <2>1. f \in Seq(Guests) /\ ghost' = [ghost EXCEPT !.final = f]
      BY <1>1, <1>3
    <2> HIDE DEF f
    <2> QED BY <1>1, <2>1, Zenon DEF Ghosts
  <1>6. ASSUME journal'.start # NoClk, ~Restored(journal')
        PROVE  Stamped(journal') /\ StampedTo(journal', mem.clk)
    <2>1. Stamped(journal) /\ StampedTo(journal, mem.clk)
      BY <1>4, <1>6, Zenon DEF IInv, Ordered, Restored
    <2> QED BY <1>4, <2>1, Zenon DEF Stamped, StampedTo
  <1> QED BY <1>2, <1>3, <1>4, <1>5, <1>6, Zenon

\* A recording ends, or is about to start.
LEMMA RequestsKeep ==
    ASSUME IInv, processRecordingRequests, rep' = rep
    PROVE  IInv'
  <1>1. /\ phase = "live" /\ phase' = phase /\ mem' = mem /\ cmds' = cmds /\ batch' = batch
        /\ hostBtn' = hostBtn /\ typer' = typer /\ box' = box /\ slot' = slot
        /\ recPending' = {} /\ pc' \in {"open", "cmd"} /\ (pc' = "open" => ~journalOn')
        /\ \/ journalOn /\ Finish
           \/ UNCHANGED <<journalOn, journal, ghost>>
    BY DEF processRecordingRequests, guestVars, fileVars
  <1>2. Replaying' /\ Complete' /\ RecordingsReplay' /\ rep' \in Replayers /\ rep'.st = "idle"
    BY <1>1, IdleKeeps, Zenon
  <1>3. /\ pc' \in {"swap", "rec", "open", "snap", "begin", "cmd", "run"}
        /\ pc' \notin {"snap", "begin"} /\ pc' # "begin"
        /\ pc' \in {"open", "snap", "begin"} => pc' = "open"
    BY <1>1
  <1>4. /\ journal' \in Journals /\ ghost' \in Ghosts /\ journalOn' \in BOOLEAN
        /\ ghost'.kept = ghost.kept
    <2>1. CASE journalOn /\ Finish
      BY <2>1, FinishKeeps
    <2>2. CASE UNCHANGED <<journalOn, journal, ghost>>
      BY <2>2, Zenon DEF IInv, Typed
    <2> QED BY <1>1, <2>1, <2>2
  <1>5. Placed'
    <2>1. CASE journalOn /\ Finish
      <3>1. journal.start # NoClk /\ journal.header /\ journal.snap # <<>> /\ journal.start \in Nat
        BY <2>1, Zenon DEF IInv, Placed
      <3> QED BY <1>1, <1>2, <1>3, <2>1, <3>1, FinishKeeps, Zenon DEF Placed
    <2>2. CASE UNCHANGED <<journalOn, journal, ghost>>
      BY <1>1, <1>2, <1>3, <2>2, Zenon DEF IInv, Placed
    <2> QED BY <1>1, <2>1, <2>2
  <1>6. Ordered'
    <2>1. CASE journalOn /\ Finish
      BY <2>1, FinishKeeps, Zenon DEF Ordered
    <2>2. CASE UNCHANGED <<journalOn, journal, ghost>>
      BY <1>1, <2>2, Zenon DEF IInv, Ordered
    <2> QED BY <1>1, <2>1, <2>2
  <1>7. HeldKeys'
    BY <1>1, <1>4, Zenon DEF IInv, HeldKeys
  <1>8. Typed'
    <2>1. recPending' \subseteq {"start", "stop"}
      BY <1>1
    <2> QED BY <1>1, <1>2, <1>3, <1>4, <2>1, Zenon DEF IInv, Typed
  <1> QED BY <1>2, <1>5, <1>6, <1>7, <1>8, Zenon DEF IInv

\* The journal is opened, the snapshot written, the recording begun
\* (startRecording()).
LEMMA StartsKeep ==
    ASSUME IInv, OpenJournal \/ WriteSnapshot \/ BeginRecording, rep' = rep
    PROVE  IInv'
  <1>1. /\ phase = "live" /\ phase' = phase /\ mem' = mem /\ cmds' = cmds /\ batch' = batch
        /\ hostBtn' = hostBtn /\ typer' = typer /\ box' = box /\ slot' = slot
        /\ recPending' = recPending
    BY Zenon DEF OpenJournal, WriteSnapshot, BeginRecording, StartStep, guiVars, guestVars
  <1>2. Replaying' /\ Complete' /\ RecordingsReplay' /\ rep' \in Replayers /\ rep'.st = "idle"
    BY <1>1, IdleKeeps, Zenon
  <1>3. /\ mem \in Guests /\ mem.clk \in Nat /\ <<mem>> \in Seq(Guests) /\ <<mem>> # <<>>
        /\ journal \in Journals /\ ghost \in Ghosts /\ journalOn \in BOOLEAN
    <2>1. mem \in Guests /\ journal \in Journals /\ ghost \in Ghosts /\ journalOn \in BOOLEAN
      BY Zenon DEF IInv, Typed
    <2>2. mem.clk \in Nat
      BY <2>1, Zenon DEF Guests, Guest
    <2> QED BY <2>1, <2>2
  <1>4. /\ NoJournal \in Journals /\ NoJournal.start = NoClk /\ NoJournal.end = NoClk
        /\ NoJournal.events = <<>>
    <2> DEFINE y == FALSE
               e == <<>>
    <2>1. y \in BOOLEAN /\ e \in Seq(Guests) /\ e \in Seq([clk : Nat, cmd : Journaled])
          /\ NoClk \in Int
      BY DEF NoClk
    <2>2. NoJournal = [header |-> y, snap |-> e, start |-> NoClk, events |-> e, end |-> NoClk]
      BY DEF NoJournal
    <2> HIDE DEF y, e
    <2>3. NoJournal \in Journals /\ NoJournal.start = NoClk /\ NoJournal.end = NoClk
          /\ NoJournal.events = e
      BY <2>1, <2>2, Zenon DEF Journals
    <2> QED BY <2>3 DEF e
  <1> DEFINE Kept == /\ journal' \in Journals /\ ghost' \in Ghosts
                     /\ journalOn' \in BOOLEAN /\ ghost'.kept = ghost.kept
                     /\ pc' \in {"snap", "cmd", "begin"}
                     /\ Placed' /\ Ordered'
  <1>5. ASSUME OpenJournal PROVE Kept
    <2>1. /\ pc = "open" /\ journalOn' = journalOn /\ ghost' = ghost /\ ~journalOn
          /\ \/ journal' = [NoJournal EXCEPT !.header = TRUE] /\ pc' = "snap"
             \/ pc' = "cmd" /\ journal' = journal
      BY <1>5 DEF OpenJournal, StartStep, IInv, Placed
    <2>2. CASE journal' = [NoJournal EXCEPT !.header = TRUE] /\ pc' = "snap"
      <3> DEFINE y == TRUE
      <3>1. y \in BOOLEAN /\ journal' = [NoJournal EXCEPT !.header = y] /\ y = TRUE
        BY <2>2
      <3> HIDE DEF y
      <3>2. /\ journal' \in Journals /\ journal'.start = NoClk /\ journal'.end = NoClk
            /\ journal'.events = <<>> /\ journal'.header
        BY <1>4, <3>1, Zenon DEF Journals
      <3>3. Placed' /\ Ordered'
        BY <1>1, <1>2, <2>1, <2>2, <3>2 DEF Placed, Ordered
      <3> QED BY <1>3, <2>1, <2>2, <3>2, <3>3
    <2>3. CASE pc' = "cmd" /\ journal' = journal
      <3>1. Placed' /\ Ordered'
        BY <1>1, <1>2, <2>1, <2>3 DEF IInv, Placed, Ordered
      <3> QED BY <1>3, <2>1, <2>3, <3>1
    <2> QED BY <2>1, <2>2, <2>3
  <1>6. ASSUME WriteSnapshot PROVE Kept
    <2>1. /\ pc = "snap" /\ journalOn' = journalOn /\ ghost' = ghost /\ ~journalOn
          /\ journal.header /\ journal.events = <<>>
          /\ journal.start = NoClk /\ journal.end = NoClk
          /\ \/ journal' = [journal EXCEPT !.snap = <<mem>>] /\ pc' = "begin"
             \/ pc' = "cmd" /\ journal' = NoJournal
      BY <1>6 DEF WriteSnapshot, StartStep, IInv, Placed
    <2>2. CASE journal' = [journal EXCEPT !.snap = <<mem>>] /\ pc' = "begin"
      <3> DEFINE f == <<mem>>
      <3>1. f \in Seq(Guests) /\ journal' = [journal EXCEPT !.snap = f]
        BY <1>3, <2>2, Zenon
      <3> HIDE DEF f
      <3>2. /\ journal' \in Journals /\ journal'.start = NoClk /\ journal'.end = NoClk
            /\ journal'.events = <<>> /\ journal'.header /\ journal'.snap = f
        BY <1>3, <2>1, <3>1, Zenon DEF Journals
      <3>3. Placed' /\ Ordered'
        BY <1>1, <1>2, <2>1, <2>2, <3>2 DEF Placed, Ordered, f
      <3> QED BY <1>3, <2>1, <2>2, <3>2, <3>3
    <2>3. CASE pc' = "cmd" /\ journal' = NoJournal
      <3>1. Placed' /\ Ordered'
        BY <1>1, <1>2, <1>4, <2>1, <2>3 DEF Placed, Ordered
      <3> QED BY <1>3, <1>4, <2>1, <2>3, <3>1
    <2> QED BY <2>1, <2>2, <2>3
  <1>7. ASSUME BeginRecording PROVE Kept
    <2> DEFINE p == \E i \in 0..1 : hostBtn[i]
               f == <<mem>>
               y == TRUE
    <2>1. /\ pc = "begin" /\ journal.header /\ journal.events = <<>>
          /\ journal.end = NoClk /\ journal.snap = <<mem>>
      BY <1>7, Zenon DEF BeginRecording, StartStep, IInv, Placed
    <2>2. /\ journal' = [journal EXCEPT !.start = mem.clk]
          /\ journalOn' = y /\ pc' = "cmd" /\ y
          /\ ghost' = [NoGhost EXCEPT !.mark = f, !.box = box, !.pressed = p,
                                      !.kept = ghost.kept]
      BY <1>7, Zenon DEF BeginRecording
    <2>3. mem.clk \in Int /\ mem.clk # NoClk
      BY <1>3 DEF NoClk
    <2>4. /\ journal' \in Journals /\ journal'.start = mem.clk /\ journal'.end = NoClk
          /\ journal'.events = <<>> /\ journal'.header /\ journal'.snap = <<mem>>
      BY <1>3, <2>1, <2>2, <2>3, Zenon DEF Journals
    <2>5. ghost' \in Ghosts /\ ghost'.kept = ghost.kept
      <3>1. box \in Boxes /\ ghost.kept \in SUBSET Nat /\ p \in BOOLEAN /\ f \in Seq(Guests)
        BY <1>3, Zenon DEF IInv, Typed, Ghosts
      <3>2. NoGhost \in Ghosts
        <4> DEFINE n == FALSE
                   e == <<>>
                   z == {}
        <4>1. n \in BOOLEAN /\ e \in Seq(Guests) /\ z \in SUBSET Nat
          OBVIOUS
        <4>2. NoGhost = [mark |-> e, final |-> e, held |-> n, box |-> FreshBox,
                         pressed |-> n, kept |-> z]
          BY DEF NoGhost
        <4> HIDE DEF n, e, z
        <4> QED BY <4>1, <4>2, BoxKeeps, Zenon DEF Ghosts
      <3> HIDE DEF p, f
      <3> QED BY <2>2, <3>1, <3>2, Zenon DEF Ghosts
    <2> HIDE DEF p, f, y
    <2>6. Ordered'
      <3>1. \A i : i \notin DOMAIN <<>>
        OBVIOUS
      <3>2. Stamped(journal')
        BY <2>4, <3>1, Zenon DEF Stamped
      <3>3. mem'.clk = mem.clk /\ mem.clk <= mem.clk
        BY <1>1, <1>3
      <3>4. StampedTo(journal', mem'.clk)
        BY <2>4, <3>1, <3>3, Zenon DEF StampedTo
      <3> QED BY <2>4, <3>2, <3>4, Zenon DEF Ordered
    <2>7. Placed'
      BY <1>1, <1>2, <1>3, <2>2, <2>3, <2>4, Zenon DEF Placed
    <2> QED BY <2>2, <2>5, <2>6, <2>7, <2>4 DEF y
  <1>8. Kept
    BY <1>5, <1>6, <1>7
  <1> HIDE DEF Kept
  <1>9. HeldKeys'
    BY <1>1, <1>8, Zenon DEF IInv, HeldKeys, Kept
  <1>10. Typed'
    <2>1. pc' \in {"swap", "rec", "open", "snap", "begin", "cmd", "run"}
      BY <1>8 DEF Kept
    <2> QED BY <1>1, <1>2, <1>8, <2>1, Zenon DEF IInv, Typed, Kept
  <1> QED BY <1>2, <1>8, <1>9, <1>10, Zenon DEF IInv, Kept

\* What is applied is journaled at the clock of now, if a recording is on.
LEMMA RecordKeeps ==
    ASSUME IInv, NEW c \in Journaled, journal' = WithEvent(c, mem.clk),
           journalOn' = journalOn, mem' \in Guests, mem.clk <= mem'.clk
    PROVE  /\ journal' \in Journals /\ journal'.header = journal.header
           /\ journal'.snap = journal.snap /\ journal'.start = journal.start
           /\ journal'.end = journal.end
           /\ Ordered'
  <1>1. journal \in Journals /\ mem.clk \in Nat /\ mem'.clk \in Nat
    BY Zenon DEF IInv, Typed, Guests, Guest
  <1>2. CASE journalOn
    <2>1. journal' = With(journal, c, mem.clk)
      BY <1>2, Zenon DEF WithEvent, With
    <2>2. /\ journal' \in Journals /\ journal'.header = journal.header
          /\ journal'.snap = journal.snap /\ journal'.start = journal.start
          /\ journal'.end = journal.end
          /\ Restored(journal) => Restored(journal')
      <3> DEFINE clk == mem.clk
                 k == With(journal, c, clk)
      <3>1. clk \in Nat
        BY <1>1
      <3> HIDE DEF clk
      <3>2. /\ k \in Journals /\ k.header = journal.header /\ k.snap = journal.snap
            /\ k.start = journal.start /\ k.end = journal.end
            /\ Restored(journal) => Restored(k)
        BY <1>1, <3>1, WithKeeps, Zenon
      <3> HIDE DEF k
      <3>3. journal' = k
        BY <2>1, Zenon DEF k, clk
      <3> QED BY <3>2, <3>3, Zenon
    <2>3. journal.start # NoClk /\ journal.end = NoClk
      BY <1>2, Zenon DEF IInv, Placed
    <2>4. ASSUME ~Restored(journal')
          PROVE  Stamped(journal') /\ StampedTo(journal', mem'.clk)
      <3>1. Stamped(journal) /\ StampedTo(journal, mem.clk)
        BY <1>2, <2>2, <2>3, <2>4, Zenon DEF IInv, Ordered
      <3>2. Stamped(journal') /\ StampedTo(journal', mem.clk)
        BY <1>1, <2>1, <3>1, WithStamped, Zenon
      <3> QED BY <1>1, <2>2, <3>2, StampedLater, Zenon
    <2> QED BY <2>2, <2>3, <2>4, Zenon DEF Ordered
  <1>3. CASE ~journalOn
    <2>1. journal' = journal
      BY <1>3, Zenon DEF WithEvent
    <2> QED BY <1>1, <1>3, <2>1, Zenon DEF IInv, Ordered
  <1> QED BY <1>2, <1>3

LEMMA MarkedKeeps ==
    ASSUME ghost \in Ghosts, NEW n \in Guests
    PROVE  /\ Marked(n) \in Ghosts /\ Marked(n).kept = ghost.kept
           /\ Marked(n).held = ghost.held /\ Marked(n).box = ghost.box
           /\ Marked(n).pressed = ghost.pressed
           /\ Marked(n).mark = IF journalOn THEN <<n>> ELSE ghost.mark
  <1> DEFINE f == <<n>>
  <1>1. f \in Seq(Guests) /\ Marked(n) = IF journalOn THEN [ghost EXCEPT !.mark = f] ELSE ghost
    BY DEF Marked
  <1> HIDE DEF f
  <1>2. Marked(n) \in Ghosts /\ Marked(n).kept = ghost.kept
        /\ Marked(n).held = ghost.held /\ Marked(n).box = ghost.box
        /\ Marked(n).pressed = ghost.pressed
        /\ Marked(n).mark = IF journalOn THEN f ELSE ghost.mark
    BY <1>1, Zenon DEF Ghosts
  <1> QED BY <1>2, Zenon DEF f

\* What a command of the queue does to the machine, its typer and the queue.
LEMMA CmdKeeps ==
    ASSUME IInv, Least, Counted, NEW c \in Queued,
           InputCmd(c) \/ ButtonCmd(c) \/ TypingCmd(c) \/ AgentCmd(c) \/ DetachCmd(c)
    PROVE  /\ mem' \in Guests /\ mem'.clk = mem.clk
           /\ hostBtn' \in Buttons /\ box' \in Boxes /\ typer' \in Typers
           /\ cmds' \in Seq(Queued)
           /\ mem'.keys \ UserKeys \subseteq ghost.kept \cup typer'.down
           /\ \A code \in typer'.down : Releases(typer'.queue, code, 0)
           /\ Balanced(typer'.queue)
  <1>1. /\ mem \in Guests /\ hostBtn \in Buttons /\ box \in Boxes /\ typer \in Typers
        /\ cmds \in Seq(Queued)
    BY Zenon DEF IInv, Typed
  <1>2. /\ mem.keys \ UserKeys \subseteq ghost.kept \cup typer.down
        /\ \A code \in typer.down : Releases(typer.queue, code, 0)
        /\ Balanced(typer.queue)
    BY Zenon DEF IInv, HeldKeys
  <1>3. c \in Cmds /\ c \in Reached /\ c.a \in Nat /\ c.b \in Nat
    BY QueuedIs, Reaches, JournaledCmds, Zenon
  <1>4. ASSUME typer' = typer, mem'.keys \ UserKeys \subseteq mem.keys
        PROVE  /\ mem'.keys \ UserKeys \subseteq ghost.kept \cup typer'.down
               /\ \A code \in typer'.down : Releases(typer'.queue, code, 0)
               /\ Balanced(typer'.queue)
    <2>1. mem'.keys \ UserKeys \subseteq ghost.kept \cup typer'.down
      BY <1>2, <1>4
    <2> QED BY <1>2, <1>4, <2>1, Zenon
  <1>5. CASE InputCmd(c)
    <2>1. /\ mem' = InputArm(mem, c) /\ hostBtn' = hostBtn /\ typer' = typer
          /\ box' = box /\ cmds' = cmds
      BY <1>5, Zenon DEF InputCmd
    <2>2. mem' \in Guests /\ mem'.clk = mem.clk
      BY <1>1, <1>3, <2>1, ArmKeeps, Zenon
    <2>3. mem'.keys \ UserKeys \subseteq mem.keys
      <3>1. CASE c.t = "Key"
        <4>1. mem'.keys = KeysAfter(mem.keys, c.a, c.b) /\ c.a \in UserKeys
          BY <1>1, <1>3, <2>1, <3>1, ArmKeeps, QueuedIs, Zenon
        <4>2. KeysAfter(mem.keys, c.a, c.b) \subseteq mem.keys \cup {c.a}
          BY SMTT(30) DEF KeysAfter
        <4> QED BY <4>1, <4>2
      <3>2. CASE c.t # "Key"
        BY <1>1, <1>3, <2>1, <3>2, ArmKeeps
      <3> QED BY <3>1, <3>2
    <2> QED BY <1>1, <1>4, <2>1, <2>2, <2>3, Zenon
  <1>6. CASE ButtonCmd(c)
    <2> DEFINE y == (c.b # 0)
               w == [hostBtn EXCEPT ![c.a] = y]
               d == Cmd("MouseButton", 0, IF \E i \in 0..1 : hostBtn'[i] THEN 1 ELSE 0)
    <2>1. /\ hostBtn' \in {hostBtn, w} /\ mem' \in {Deliver(mem, c), Deliver(mem, d)}
          /\ typer' = typer /\ box' = box /\ cmds' = cmds
      BY <1>6, Zenon DEF ButtonCmd
    <2>2. y \in BOOLEAN
      OBVIOUS
    <2>3. d \in Reached
      <3>1. d \in {Cmd("MouseButton", 0, 0), Cmd("MouseButton", 0, 1)}
        BY Zenon
      <3>2. \A x \in {Cmd("MouseButton", 0, 0), Cmd("MouseButton", 0, 1)} : x \in Reached
        BY Reaches
      <3> QED BY <3>1, <3>2, Zenon
    <2> HIDE DEF y, d
    <2>4. hostBtn' \in Buttons
      <3>1. w \in Buttons
        BY <1>1, <2>2, Zenon DEF Buttons
      <3> QED BY <1>1, <2>1, <3>1, Zenon
    <2>5. mem' \in Guests /\ mem'.clk = mem.clk /\ mem'.keys = mem.keys
      <3>1. ASSUME NEW x \in Reached
            PROVE  /\ Deliver(mem, x) \in Guests /\ Deliver(mem, x).clk = mem.clk
                   /\ Deliver(mem, x).keys = mem.keys
        BY <1>1, DeliverKeeps
      <3>2. CASE mem' = Deliver(mem, c)
        BY <1>3, <3>1, <3>2, Zenon
      <3>3. CASE mem' = Deliver(mem, d)
        BY <2>3, <3>1, <3>3, Zenon
      <3> QED BY <2>1, <3>2, <3>3, Zenon
    <2>6. mem'.keys \ UserKeys \subseteq mem.keys
      BY <2>5
    <2> QED BY <1>1, <1>4, <2>1, <2>4, <2>5, <2>6, Zenon
  <1>7. CASE TypingCmd(c)
    <2>1. mem' = mem /\ hostBtn' = hostBtn /\ box' = box /\ cmds' = cmds
      BY <1>7, Zenon DEF TypingCmd
    <2>2. CASE c.t = "TypeText" /\ typer' = start(typer, planTyping(Text[c.a]))
      <3> DEFINE p == planTyping(Text[c.a])
                 q == typer.queue \o p
      <3>1. p \in Seq(Strokes) /\ Balanced(p)
        <4>1. c \in Inputs
          BY <2>2, QueuedIs
        <4>2. Text[c.a] \in Seq([code : 0..(kCodes - 1), shift : BOOLEAN])
          BY <2>2, <4>1, ConstantsOK, Zenon
        <4> QED BY <4>2, PlanBalanced, ZenonT(30)
      <3>2. typer' = [typer EXCEPT !.queue = q]
        BY <2>2, Zenon DEF start
      <3> HIDE DEF p
      <3>3. /\ q \in Seq(Strokes) /\ Balanced(q)
            /\ \A code : Releases(typer.queue, code, 0) => Releases(q, code, 0)
        <4>1. typer.queue \in Seq(Strokes)
          BY <1>1, Zenon DEF Typers
        <4> QED BY <1>2, <3>1, <4>1, JoinBalanced, Zenon
      <3> HIDE DEF q
      <3>4. typer' \in Typers /\ typer'.queue = q /\ typer'.down = typer.down
        BY <1>1, <3>2, <3>3, Zenon DEF Typers
      <3> QED BY <1>1, <1>2, <2>1, <3>3, <3>4, Zenon
    <2>3. CASE c.t = "CancelTyping" /\ typer' = cancel(typer)
      <3>1. /\ typer' \in Typers /\ typer'.down = typer.down
            /\ \A code \in typer.down : Releases(typer'.queue, code, 0)
            /\ Balanced(typer'.queue)
        BY <1>1, <2>3, CancelReleases, Zenon
      <3> QED BY <1>1, <1>2, <2>1, <3>1, Zenon
    <2> QED BY <1>7, <2>2, <2>3, Zenon DEF TypingCmd
  <1>8. CASE AgentCmd(c)
    <2>1. /\ box' = Post(box, c.t) /\ c.t \in Names
          /\ mem' = mem /\ hostBtn' = hostBtn /\ typer' = typer /\ cmds' = cmds
      BY <1>3, <1>8, JournaledCmds, Zenon DEF AgentCmd, Names
    <2>2. box' \in Boxes
      BY <1>1, <2>1, BoxKeeps, Zenon
    <2>3. mem'.keys \ UserKeys \subseteq mem.keys
      BY <2>1
    <2> QED BY <1>1, <1>4, <2>1, <2>2, <2>3, Zenon
  <1>9. CASE DetachCmd(c)
    <2>1. /\ c.t = "DetachDisk" /\ mem' = detachScsi(mem)
          /\ hostBtn' = hostBtn /\ typer' = typer /\ box' = box
          /\ \/ cmds' = cmds
             \/ TriesAgain(c) /\ cmds' = Append(cmds, Retry(c))
      BY <1>9, Zenon DEF DetachCmd
    <2>2. mem' \in Guests /\ mem'.clk = mem.clk /\ mem'.keys = mem.keys
      BY <1>1, <2>1, DetachKeeps, Zenon
    <2>3. mem'.keys \ UserKeys \subseteq mem.keys
      BY <2>2
    <2>4. cmds' \in Seq(Queued)
      <3>1. CASE TriesAgain(c) /\ cmds' = Append(cmds, Retry(c))
        <4> DEFINE b == c.b + 1
                   r == [c EXCEPT !.b = b]
        <4>1. b \in Nat /\ b <= kDetachRetries
          BY <1>3, <3>1, HoldNat DEF TriesAgain
        <4>2. Retry(c) = r
          BY Zenon DEF Retry
        <4> HIDE DEF b
        <4>3. r \in Cmds /\ r.t = "DetachDisk" /\ r.b = b
          BY <1>3, <2>1, <4>1, Zenon DEF Cmds
        <4> HIDE DEF r
        <4>4. r \in Queued
          BY <4>1, <4>3, Zenon DEF Queued
        <4> QED BY <1>1, <3>1, <4>2, <4>4
      <3> QED BY <1>1, <2>1, <3>1, Zenon
    <2> QED BY <1>1, <1>4, <2>1, <2>2, <2>3, <2>4, Zenon
  <1> QED BY <1>5, <1>6, <1>7, <1>8, <1>9, Zenon

\* A command of the queue is applied and journaled (applyCmds()).
LEMMA ApplyCmdKeeps ==
    ASSUME IInv, Least, Counted, ApplyCmd, rep' = rep
    PROVE  IInv'
  <1> DEFINE c == Head(batch)
  <1>1. /\ phase = "live" /\ phase' = phase /\ pc = "cmd" /\ pc' = pc
        /\ recPending' = recPending /\ journalOn' = journalOn /\ slot' = slot
        /\ batch # <<>> /\ batch' = Tail(batch)
        /\ InputCmd(c) \/ ButtonCmd(c) \/ TypingCmd(c) \/ AgentCmd(c) \/ DetachCmd(c)
        /\ Record(c, mem.clk, mem')
    BY Zenon DEF ApplyCmd, guiVars
  <1>2. batch \in Seq(Queued) /\ ghost \in Ghosts /\ journal \in Journals /\ mem.clk \in Nat
    BY Zenon DEF IInv, Typed, Guests, Guest
  <1>3. c \in Queued /\ batch' \in Seq(Queued)
    BY <1>1, <1>2, SMTT(30)
  <1> HIDE DEF c
  <1>4. /\ mem' \in Guests /\ mem'.clk = mem.clk
        /\ hostBtn' \in Buttons /\ box' \in Boxes /\ typer' \in Typers
        /\ cmds' \in Seq(Queued)
        /\ mem'.keys \ UserKeys \subseteq ghost.kept \cup typer'.down
        /\ \A code \in typer'.down : Releases(typer'.queue, code, 0)
        /\ Balanced(typer'.queue)
    BY <1>1, <1>3, CmdKeeps
  <1>5. Replaying' /\ Complete' /\ RecordingsReplay' /\ rep' \in Replayers /\ rep'.st = "idle"
    BY <1>1, IdleKeeps, Zenon
  <1>6. /\ journal' \in Journals /\ journal'.header = journal.header
        /\ journal'.snap = journal.snap /\ journal'.start = journal.start
        /\ journal'.end = journal.end
        /\ Ordered' /\ ghost' \in Ghosts /\ ghost'.kept = ghost.kept
    <2>1. CASE c.t \in {"TypeText", "CancelTyping"}
      <3>1. journal' = journal /\ ghost' = ghost
        BY <1>1, <2>1, Zenon DEF Record
      <3> QED BY <1>1, <1>2, <1>4, <3>1, Zenon DEF IInv, Ordered
    <2>2. CASE c.t \notin {"TypeText", "CancelTyping"}
      <3>1. journal' = WithEvent(c, mem.clk) /\ ghost' = Marked(mem')
        BY <1>1, <2>2, Zenon DEF Record
      <3>2. c \in Journaled
        BY <1>3, <2>2, QueuedIs, JournaledCmds, Zenon
      <3>3. mem.clk <= mem'.clk
        BY <1>2, <1>4
      <3>4. ghost' \in Ghosts /\ ghost'.kept = ghost.kept
        BY <1>2, <1>4, <3>1, MarkedKeeps, Zenon
      <3> QED BY <1>1, <1>4, <3>1, <3>2, <3>3, <3>4, RecordKeeps, Zenon
    <2> QED BY <2>1, <2>2
  <1>7. pc' \notin {"open", "snap", "begin"} /\ pc' # "begin" /\ pc' \notin {"snap", "begin"}
    BY <1>1
  <1>8. Placed'
    BY <1>1, <1>5, <1>6, <1>7, Zenon DEF IInv, Placed
  <1>9. HeldKeys'
    BY <1>4, <1>6, Zenon DEF HeldKeys
  <1>10. Typed'
    BY <1>1, <1>3, <1>4, <1>5, <1>6, Zenon DEF IInv, Typed
  <1> QED BY <1>5, <1>6, <1>8, <1>9, <1>10, Zenon DEF IInv

\* A saved state is taken or put back (SaveStateSlot::apply()).
LEMMA ApplyStateKeeps ==
    ASSUME IInv, ApplyState, rep' = rep
    PROVE  IInv'
  <1>1. /\ phase = "live" /\ phase' = phase /\ pc = "cmd" /\ pc' \in {"run", "swap"}
        /\ recPending' = recPending /\ journalOn' = journalOn /\ cmds' = cmds
        /\ batch' = batch /\ hostBtn' = hostBtn /\ box' = box
    BY DEF ApplyState, guiVars
  <1>2. /\ mem \in Guests /\ ghost \in Ghosts /\ journal \in Journals /\ slot \in Slots
        /\ typer \in Typers
    BY Zenon DEF IInv, Typed
  <1>3. PICK file \in {slot.file} \cup (IF "save" \in slot.pending THEN {<<mem>>} ELSE {}) :
              /\ slot' = [pending |-> {}, file |-> file]
              /\ \/ Restores(file)
                 \/ UNCHANGED <<mem, typer, journal, ghost>>
    BY Zenon DEF ApplyState
  <1>4. file \in Seq(Guests)
    <2>1. <<mem>> \in Seq(Guests) /\ slot.file \in Seq(Guests)
      BY <1>2 DEF Slots
    <2> QED BY <1>3, <2>1, Zenon
  <1>5. slot' \in Slots
    <2> DEFINE p == {}
    <2>1. p \in SUBSET {"save", "load"} /\ slot' = [pending |-> p, file |-> file]
      BY <1>3
    <2> HIDE DEF p
    <2> QED BY <1>4, <2>1, Zenon DEF Slots
  <1>6. Replaying' /\ Complete' /\ RecordingsReplay' /\ rep' \in Replayers /\ rep'.st = "idle"
    BY <1>1, IdleKeeps, Zenon
  <1>7. /\ pc' \notin {"open", "snap", "begin"} /\ pc' # "begin" /\ pc' \notin {"snap", "begin"}
        /\ pc' \in {"swap", "rec", "open", "snap", "begin", "cmd", "run"}
    BY <1>1
  <1> DEFINE Kept == /\ mem' \in Guests /\ typer' \in Typers /\ journal' \in Journals
                     /\ ghost' \in Ghosts /\ Placed' /\ Ordered' /\ HeldKeys'
  <1>8. ASSUME Restores(file) PROVE Kept
    <2>1. /\ file # <<>> /\ mem' = file[1] /\ typer' = IdleTyper
          /\ journal' = WithEvent(Marker, mem'.clk)
          /\ ghost' = [Marked(mem') EXCEPT !.kept = mem'.keys]
      BY <1>8, Zenon DEF Restores
    <2>2. mem' \in Guests
      BY <1>4, <2>1
    <2>3. mem'.clk \in Nat /\ mem'.keys \in SUBSET Nat
      BY <2>2, Zenon DEF Guests, Guest
    <2>4. typer' \in Typers /\ typer'.down = {} /\ typer'.queue = <<>>
      <3> DEFINE q == <<>>
                 d == {}
      <3>1. /\ q \in Seq(Strokes) /\ d \in SUBSET (0..(kCodes - 1)) /\ NoClk \in Int
            /\ typer' = [queue |-> q, down |-> d, last |-> NoClk]
        BY <2>1 DEF IdleTyper, NoClk
      <3> HIDE DEF q, d
      <3>2. typer' \in Typers /\ typer'.down = d /\ typer'.queue = q
        BY <3>1, Zenon DEF Typers
      <3> QED BY <3>2 DEF q, d
    <2>5. ghost' \in Ghosts /\ ghost'.kept = mem'.keys
      <3>1. Marked(mem') \in Ghosts
        BY <1>2, <2>2, MarkedKeeps, ZenonT(30)
      <3> QED BY <2>1, <2>3, <3>1, Zenon DEF Ghosts
    <2>6. HeldKeys'
      <3>1. \A i : i \notin DOMAIN <<>>
        OBVIOUS
      <3>2. mem'.keys \ UserKeys \subseteq ghost'.kept \cup typer'.down
        BY <2>5
      <3>3. Balanced(typer'.queue)
        BY <2>4, <3>1, Zenon DEF Balanced
      <3> QED BY <2>4, <3>2, <3>3, ZenonT(30) DEF HeldKeys
    <2>7. CASE journalOn
      <3>1. journal' = With(journal, Marker, mem'.clk)
        BY <2>1, <2>7, Zenon DEF WithEvent, With
      <3>2. Marker \in Journaled /\ Marker.t = "StateRestore"
        BY JournaledCmds, Zenon
      <3>3. /\ journal' \in Journals /\ journal'.header = journal.header
            /\ journal'.snap = journal.snap /\ journal'.start = journal.start
            /\ journal'.end = journal.end /\ Restored(journal')
        <4> DEFINE clk == mem'.clk
                   k == With(journal, Marker, clk)
        <4>1. clk \in Nat
          BY <2>3
        <4> HIDE DEF clk
        <4>2. /\ k \in Journals /\ k.header = journal.header /\ k.snap = journal.snap
              /\ k.start = journal.start /\ k.end = journal.end /\ Restored(k)
          BY <1>2, <3>2, <4>1, WithKeeps, Zenon
        <4> HIDE DEF k
        <4> QED BY <3>1, <4>2, Zenon DEF k, clk
      <3>4. Ordered'
        BY <3>3, Zenon DEF Ordered
      <3>5. Placed'
        BY <1>1, <1>6, <1>7, <3>3, Zenon DEF IInv, Placed
      <3> QED BY <2>2, <2>4, <2>5, <2>6, <3>3, <3>4, <3>5
    <2>8. CASE ~journalOn
      <3>1. journal' = journal
        BY <2>1, <2>8, Zenon DEF WithEvent
      <3>2. Ordered'
        BY <1>1, <2>8, <3>1, Zenon DEF IInv, Ordered
      <3>3. Placed'
        BY <1>1, <1>6, <1>7, <3>1, Zenon DEF IInv, Placed
      <3> QED BY <1>2, <2>2, <2>4, <2>5, <2>6, <3>1, <3>2, <3>3, Zenon
    <2> QED BY <2>7, <2>8
  <1>9. ASSUME UNCHANGED <<mem, typer, journal, ghost>> PROVE Kept
    <2>1. Ordered' /\ HeldKeys'
      BY <1>1, <1>9, Zenon DEF IInv, Ordered, HeldKeys
    <2>2. Placed'
      BY <1>1, <1>6, <1>7, <1>9, Zenon DEF IInv, Placed
    <2> QED BY <1>2, <1>9, <2>1, <2>2, Zenon
  <1>10. Kept
    BY <1>3, <1>8, <1>9, Zenon
  <1> HIDE DEF Kept
  <1>11. Typed'
    BY <1>1, <1>5, <1>6, <1>7, <1>10, Zenon DEF IInv, Typed, Kept
  <1> QED BY <1>6, <1>10, <1>11, Zenon DEF IInv, Kept

\* What is left of a plan once its first step is taken.
LEMMA TailReleases ==
    ASSUME NEW q \in Seq(Strokes), q # <<>>
    PROVE  /\ Head(q) \in Strokes /\ Head(q) = q[1] /\ 1 \in DOMAIN q
           /\ Tail(q) \in Seq(Strokes)
           /\ \A code : \A i \in Nat : i >= 1 /\ Releases(q, code, i)
                                    => Releases(Tail(q), code, i - 1)
           /\ Balanced(q) => Balanced(Tail(q))
  <1> DEFINE S == Strokes
  <1>1. q \in Seq(S)
    OBVIOUS
  <1> HIDE DEF S
  <1>2. /\ Head(q) \in S /\ Head(q) = q[1] /\ 1 \in DOMAIN q
        /\ Tail(q) \in Seq(S) /\ DOMAIN q = 1..Len(q) /\ Len(q) \in Nat
        /\ DOMAIN Tail(q) = 1..(Len(q) - 1)
        /\ \A k \in DOMAIN Tail(q) : Tail(q)[k] = q[k + 1]
    BY <1>1
  <1> DEFINE t == Tail(q)
  <1> HIDE DEF t
  <1>3. ASSUME NEW code, NEW i \in Nat, i >= 1, Releases(q, code, i)
        PROVE  Releases(t, code, i - 1)
    <2>1. PICK k \in DOMAIN q : k > i /\ q[k].code = code /\ q[k].down = 0
      BY <1>3, Zenon DEF Releases
    <2>2. k - 1 \in DOMAIN t /\ k - 1 > i - 1 /\ t[k - 1] = q[k]
      BY <1>2, <1>3, <2>1 DEF t
    <2> QED BY <2>1, <2>2, Zenon DEF Releases
  <1>4. ASSUME Balanced(q) PROVE Balanced(t)
    <2> SUFFICES ASSUME NEW i \in DOMAIN t, t[i].down = 1
                 PROVE  Releases(t, t[i].code, i)
      BY DEF Balanced
    <2>1. i + 1 \in DOMAIN q /\ t[i] = q[i + 1] /\ i + 1 \in Nat /\ i + 1 >= 1
          /\ (i + 1) - 1 = i
      BY <1>2 DEF t
    <2>2. Releases(q, q[i + 1].code, i + 1)
      BY <1>4, <2>1, Zenon DEF Balanced
    <2> DEFINE n == i + 1
    <2>3. Releases(t, q[n].code, n - 1)
      <3>1. n \in Nat /\ n >= 1 /\ Releases(q, q[n].code, n)
        BY <2>1, <2>2
      <3> HIDE DEF n
      <3> QED BY <1>3, <3>1, Zenon
    <2> QED BY <2>1, <2>3
  <1> QED BY <1>2, <1>3, <1>4, Zenon DEF S, t

\* The typer takes a step: what it holds down it still releases (poll()).
LEMMA PollKeeps ==
    ASSUME NEW ty \in Typers, NEW now \in Nat, ty.queue # <<>>,
           Balanced(ty.queue), \A code \in ty.down : Releases(ty.queue, code, 0)
    PROVE  LET s == Head(ty.queue)
               n == AfterPoll(ty, now) IN
           /\ s \in Strokes /\ n \in Typers
           /\ n.down = KeysAfter(ty.down, s.code, s.down)
           /\ \A code \in n.down : Releases(n.queue, code, 0)
           /\ Balanced(n.queue)
  <1> DEFINE q == ty.queue
             s == Head(q)
             t == Tail(q)
             d == KeysAfter(ty.down, s.code, s.down)
             l == IF t = <<>> THEN NoClk ELSE now
             n == AfterPoll(ty, now)
  <1>1. q \in Seq(Strokes) /\ ty.down \in SUBSET (0..(kCodes - 1))
    BY Zenon DEF Typers
  <1>2. /\ s \in Strokes /\ s = q[1] /\ 1 \in DOMAIN q /\ t \in Seq(Strokes)
        /\ \A code : \A i \in Nat : i >= 1 /\ Releases(q, code, i) => Releases(t, code, i - 1)
        /\ Balanced(t)
    <2> HIDE DEF q
    <2> QED BY <1>1, TailReleases, Zenon DEF q
  <1>3. s.code \in 0..(kCodes - 1) /\ s.down \in {0, 1}
    BY <1>2, Zenon DEF Strokes
  <1>4. d \in SUBSET (0..(kCodes - 1)) /\ l \in Int
    BY <1>1, <1>3 DEF KeysAfter, NoClk
  <1>5. n = [queue |-> t, down |-> d, last |-> l]
    BY Zenon DEF AfterPoll, KeysAfter
  <1>6. DOMAIN q \subseteq Nat
    <2> DEFINE S == Strokes
    <2> HIDE DEF S, q
    <2>1. q \in Seq(S)
      BY <1>1 DEF S
    <2> QED BY <2>1
  <1>7. ASSUME NEW code \in d PROVE Releases(t, code, 0)
    <2>1. Releases(q, code, 1)
      <3>1. CASE s.down = 1 /\ code = s.code
        BY <1>2, <3>1, Zenon DEF Balanced
      <3>2. CASE code \in ty.down /\ ~(s.down = 0 /\ code = s.code)
        <4>1. PICK k \in DOMAIN q : k > 0 /\ q[k].code = code /\ q[k].down = 0
          BY <3>2, Zenon DEF Releases
        <4>2. k # 1
          BY <1>2, <3>2, <4>1
        <4>3. k > 1
          BY <1>6, <4>1, <4>2
        <4> QED BY <4>1, <4>3, Zenon DEF Releases
      <3>3. \/ s.down = 1 /\ code = s.code
            \/ code \in ty.down /\ ~(s.down = 0 /\ code = s.code)
        <4> DEFINE b == s.down
                   a == s.code
        <4>1. code \in KeysAfter(ty.down, a, b) /\ b \in {0, 1}
          BY <1>3, <1>7
        <4> HIDE DEF a, b, s
        <4>2. \/ b = 1 /\ code = a
              \/ code \in ty.down /\ ~(b = 0 /\ code = a)
          BY <4>1 DEF KeysAfter
        <4> QED BY <4>2 DEF a, b
      <3> QED BY <3>1, <3>2, <3>3
    <2>2. 1 \in Nat /\ 1 >= 1 /\ 1 - 1 = 0
      OBVIOUS
    <2> DEFINE o == 1
    <2>3. Releases(t, code, o - 1)
      <3>1. o \in Nat /\ o >= 1 /\ Releases(q, code, o)
        BY <2>1
      <3> HIDE DEF o
      <3> QED BY <1>2, <3>1, Zenon
    <2> QED BY <2>2, <2>3
  <1> HIDE DEF d, l, t
  <1>8. n \in Typers /\ n.down = d /\ n.queue = t
    <2> HIDE DEF n
    <2> QED BY <1>2, <1>4, <1>5, Zenon DEF Typers
  <1> QED BY <1>2, <1>7, <1>8, Zenon DEF d

\* The key transition of a quantum, if one is due (quantum()).
LEMMA TypedKeyKeeps ==
    ASSUME IInv, Due(typer, mem.clk)
    PROVE  LET s == Head(typer.queue)
               m == keyEvent(mem, s.code, s.down)
               n == AfterPoll(typer, mem.clk) IN
           /\ s.code \in Nat /\ s.down \in Nat
           /\ m \in Guests /\ m.clk = mem.clk
           /\ n \in Typers /\ Balanced(n.queue)
           /\ \A code \in n.down : Releases(n.queue, code, 0)
           /\ m.keys \ UserKeys \subseteq ghost.kept \cup n.down
  <1> DEFINE s == Head(typer.queue)
             m == keyEvent(mem, s.code, s.down)
             n == AfterPoll(typer, mem.clk)
  <1>1. /\ typer \in Typers /\ mem \in Guests /\ mem.clk \in Nat /\ Balanced(typer.queue)
        /\ \A code \in typer.down : Releases(typer.queue, code, 0)
        /\ mem.keys \ UserKeys \subseteq ghost.kept \cup typer.down
        /\ typer.queue # <<>>
    BY Zenon DEF IInv, Typed, HeldKeys, Guests, Guest, Due
  <1>2. /\ s \in Strokes /\ n \in Typers
        /\ n.down = KeysAfter(typer.down, s.code, s.down)
        /\ \A code \in n.down : Releases(n.queue, code, 0)
        /\ Balanced(n.queue)
    BY <1>1, PollKeeps, Zenon
  <1>3. s.code \in 0..(kCodes - 1) /\ s.down \in {0, 1}
    BY <1>2, Zenon DEF Strokes
  <1> HIDE DEF s, n
  <1>4. s.code \in Nat /\ s.down \in Nat
    BY <1>3 DEF kCodes
  <1>5. m \in Guests /\ m.clk = mem.clk /\ m.keys = KeysAfter(mem.keys, s.code, s.down)
    BY <1>1, <1>4, KeyKeeps, Zenon
  <1> HIDE DEF m
  <1>6. m.keys \ UserKeys \subseteq ghost.kept \cup n.down
    BY <1>1, <1>2, <1>5 DEF KeysAfter
  <1> QED BY <1>2, <1>4, <1>5, <1>6, Zenon DEF s, m, n

\* A quantum is emulated (quantum()).
LEMMA QuantumKeeps ==
    ASSUME IInv, quantum, rep' = rep
    PROVE  IInv'
  <1> DEFINE due == Due(typer, mem.clk)
             s == Head(typer.queue)
             m == IF due THEN keyEvent(mem, s.code, s.down) ELSE mem
             g == IF due THEN Marked(m) ELSE ghost
             h == g.held \/ (journalOn /\ m.hold > 0)
  <1>1. /\ phase = "live" /\ phase' = phase /\ pc = "run" /\ pc' = pc
        /\ recPending' = recPending /\ journalOn' = journalOn /\ cmds' = cmds
        /\ batch' = batch /\ hostBtn' = hostBtn /\ slot' = slot
        /\ typer' = IF due THEN AfterPoll(typer, mem.clk) ELSE typer
        /\ mem' = GuestAfter(m, box)
        /\ box' = BoxAfter(m, box)
        /\ journal' = IF due THEN WithKey(s, mem.clk) ELSE journal
        /\ ghost' = [g EXCEPT !.held = h]
    BY Zenon DEF quantum, guiVars
  <1>2. /\ mem \in Guests /\ ghost \in Ghosts /\ journal \in Journals /\ box \in Boxes
        /\ typer \in Typers /\ mem.clk \in Nat /\ HeldKeys
    BY Zenon DEF IInv, Typed, Guests, Guest
  <1>3. /\ due => s.code \in Nat /\ s.down \in Nat
        /\ m \in Guests /\ m.clk = mem.clk
        /\ typer' \in Typers /\ Balanced(typer'.queue)
        /\ \A code \in typer'.down : Releases(typer'.queue, code, 0)
        /\ m.keys \ UserKeys \subseteq ghost.kept \cup typer'.down
    <2>1. CASE due
      BY <1>1, <2>1, TypedKeyKeeps, Zenon
    <2>2. CASE ~due
      BY <1>1, <1>2, <2>2, Zenon DEF HeldKeys
    <2> QED BY <2>1, <2>2
  <1>4. g \in Ghosts /\ g.kept = ghost.kept
    BY <1>2, <1>3, MarkedKeeps, Zenon
  <1>5. h \in BOOLEAN
    BY <1>2, <1>4, Zenon DEF Ghosts
  <1> HIDE DEF due, m, h, g
  <1>6. ghost' \in Ghosts /\ ghost'.kept = ghost.kept
    BY <1>1, <1>4, <1>5, Zenon DEF Ghosts
  <1>7. /\ mem' \in Guests /\ mem'.keys = m.keys
        /\ mem'.clk = IF m.hold = 0 THEN m.clk + 1 ELSE m.clk
    BY <1>1, <1>2, <1>3, AfterKeeps, Zenon
  <1>8. mem.clk <= mem'.clk /\ mem'.clk \in Nat
    BY <1>2, <1>3, <1>7
  <1>9. box' \in Boxes
    BY <1>1, <1>2, <1>3, BoxKeeps, Zenon
  <1>10. /\ journal' \in Journals /\ journal'.header = journal.header
         /\ journal'.snap = journal.snap /\ journal'.start = journal.start
         /\ journal'.end = journal.end
         /\ Ordered'
    <2>1. CASE due
      <3> DEFINE c == Cmd("Key", s.code, s.down)
      <3>1. journal' = WithEvent(c, mem.clk)
        BY <1>1, <2>1, Zenon DEF WithKey
      <3>2. c \in Journaled
        BY <1>3, <2>1, JournaledCmds, Zenon
      <3> HIDE DEF c
      <3> QED BY <1>1, <1>7, <1>8, <3>1, <3>2, RecordKeeps, Zenon
    <2>2. CASE ~due
      <3>1. journal' = journal
        BY <1>1, <2>2, Zenon
      <3>2. ASSUME StampedTo(journal, mem.clk) PROVE StampedTo(journal, mem'.clk)
        <4> DEFINE n == mem'.clk
        <4>1. n \in Nat /\ mem.clk <= n
          BY <1>8
        <4> HIDE DEF n
        <4>2. StampedTo(journal, n)
          BY <1>2, <3>2, <4>1, StampedLater
        <4> QED BY <4>2 DEF n
      <3>3. Ordered'
        BY <1>1, <3>1, <3>2, Zenon DEF IInv, Ordered
      <3> QED BY <1>2, <3>1, <3>3, Zenon
    <2> QED BY <2>1, <2>2
  <1>11. Replaying' /\ Complete' /\ RecordingsReplay' /\ rep' \in Replayers /\ rep'.st = "idle"
    BY <1>1, IdleKeeps, Zenon
  <1>12. pc' \notin {"open", "snap", "begin"} /\ pc' # "begin" /\ pc' \notin {"snap", "begin"}
    BY <1>1
  <1>13. Placed'
    BY <1>1, <1>10, <1>11, <1>12, Zenon DEF IInv, Placed
  <1>14. HeldKeys'
    BY <1>3, <1>6, <1>7, Zenon DEF HeldKeys
  <1>15. Typed'
    BY <1>1, <1>3, <1>6, <1>7, <1>9, <1>10, <1>11, Zenon DEF IInv, Typed
  <1> QED BY <1>10, <1>11, <1>13, <1>14, <1>15, Zenon DEF IInv

\* A machine at power-on and an idle typer.
LEMMA FreshIs ==
    /\ Fresh \in Guests /\ Fresh.keys = {} /\ Fresh.hold = GuestHold
    /\ IdleTyper \in Typers /\ IdleTyper.queue = <<>> /\ IdleTyper.down = {}
    /\ [i \in 0..1 |-> FALSE] \in Buttons
    /\ [pending |-> {}, file |-> <<>>] \in Slots
    /\ FreshBox \in Boxes
    /\ Balanced(<<>>)
  <1> DEFINE q == <<>>
             d == {}
             z == 0
             h == GuestHold
             y == "disk"
  <1>1. /\ q \in Seq(Strokes) /\ d \in SUBSET (0..(kCodes - 1)) /\ NoClk \in Int
        /\ q \in Seq([at : Nat, what : Reached]) /\ d \in SUBSET Nat
        /\ z \in Nat /\ h \in 0..GuestHold /\ z <= z /\ y \in Bays
        /\ q \in Seq(Guests) /\ d \in SUBSET {"save", "load"}
    BY HoldNat DEF NoClk, Bays
  <1>2. NoRequest \in [kind : Names, seq : Nat]
    BY DEF NoRequest, Names
  <1>3. /\ IdleTyper = [queue |-> q, down |-> d, last |-> NoClk]
        /\ Fresh = [clk |-> z, tick |-> z, hold |-> h, keys |-> d, bay |-> y,
                    req |-> NoRequest, log |-> q]
    BY Zenon DEF IdleTyper, Fresh
  <1>4. Balanced(q)
    <2>1. \A i : i \notin DOMAIN q
      OBVIOUS
    <2> HIDE DEF q
    <2> QED BY <2>1, Zenon DEF Balanced
  <1>5. [i \in 0..1 |-> FALSE] \in Buttons
    BY DEF Buttons
  <1> HIDE DEF q, d, z, h, y
  <1>6. Fresh \in Guest /\ Fresh.clk = z /\ Fresh.tick = z /\ Fresh.keys = d
        /\ Fresh.hold = h
    BY <1>1, <1>2, <1>3, Zenon DEF Guest
  <1>7. Fresh \in Guests
    BY <1>1, <1>6, Zenon DEF Guests
  <1>8. IdleTyper \in Typers /\ IdleTyper.queue = q /\ IdleTyper.down = d
    BY <1>1, <1>3, Zenon DEF Typers
  <1>9. [pending |-> d, file |-> q] \in Slots
    BY <1>1, Zenon DEF Slots
  <1> QED BY <1>4, <1>5, <1>6, <1>7, <1>8, <1>9, BoxKeeps, Zenon DEF q, d, h

\* The process ends, in order or not (stop(), a crash).
LEMMA EndsKeep ==
    ASSUME IInv, stop \/ Die, rep' = rep
    PROVE  IInv'
  <1>1. /\ phase = "live" /\ phase' \in {"stopped", "dead"} /\ Gone
        /\ journalOn' = FALSE
        /\ \/ journalOn /\ Finish
           \/ journal' = journal /\ ghost' = ghost
    <2>1. CASE stop
      BY <2>1, Zenon DEF stop, Finish, fileVars, IInv, Typed
    <2>2. CASE Die
      BY <2>2, Zenon DEF Die
    <2> QED BY <2>1, <2>2, Zenon
  <1>2. /\ cmds' = <<>> /\ batch' = <<>> /\ pc' = "swap"
        /\ mem' = Fresh /\ hostBtn' = [i \in 0..1 |-> FALSE]
        /\ typer' = IdleTyper /\ box' = FreshBox /\ recPending' = {}
        /\ slot' = [pending |-> {}, file |-> <<>>]
    BY <1>1, Zenon DEF Gone
  <1>3. Replaying' /\ Complete' /\ RecordingsReplay' /\ rep' \in Replayers /\ rep'.st = "idle"
    BY <1>1, IdleKeeps, Zenon
  <1>4. /\ journal' \in Journals /\ ghost' \in Ghosts /\ Ordered' /\ Placed'
    <2>1. /\ pc' \notin {"open", "snap", "begin"} /\ pc' # "begin"
          /\ pc' \notin {"snap", "begin"} /\ phase' # "live" /\ ~journalOn'
      BY <1>1, <1>2
    <2>2. CASE journalOn /\ Finish
      <3>1. /\ journal' \in Journals /\ ghost' \in Ghosts
            /\ journal'.header = journal.header /\ journal'.snap = journal.snap
            /\ journal'.start = journal.start
            /\ journal'.end = mem.clk /\ mem.clk \in Nat
            /\ journal'.start # NoClk /\ ~Restored(journal') =>
                  Stamped(journal') /\ StampedTo(journal', journal'.end)
        BY <2>2, FinishKeeps, Zenon
      <3>2. Ordered'
        BY <2>1, <3>1, Zenon DEF Ordered
      <3>3. Placed'
        BY <2>1, <3>1, Zenon DEF IInv, Placed
      <3> QED BY <3>1, <3>2, <3>3
    <2>3. CASE journal' = journal /\ ghost' = ghost
      <3>1. Ordered'
        BY <2>1, <2>3, Zenon DEF IInv, Ordered
      <3>2. Placed'
        BY <2>1, <2>3, Zenon DEF IInv, Placed
      <3> QED BY <2>3, <3>1, <3>2, Zenon DEF IInv, Typed
    <2> QED BY <1>1, <2>2, <2>3
  <1>5. HeldKeys'
    <2> DEFINE k == Fresh.keys
               d == IdleTyper.down
    <2>1. k = {} /\ d = {} /\ Balanced(<<>>) /\ IdleTyper.queue = <<>>
      BY FreshIs, Zenon
    <2>2. mem'.keys = k /\ typer'.down = d /\ Balanced(typer'.queue)
      BY <1>2, <2>1
    <2> HIDE DEF k, d
    <2> QED BY <2>1, <2>2, Zenon DEF HeldKeys
  <1>6. Typed'
    <2>1. /\ cmds' \in Seq(Queued) /\ batch' \in Seq(Queued)
          /\ pc' \in {"swap", "rec", "open", "snap", "begin", "cmd", "run"}
          /\ recPending' \subseteq {"start", "stop"}
          /\ phase' \in {"live", "stopped", "dead"}
      BY <1>1, <1>2
    <2> QED BY <1>1, <1>2, <1>3, <1>4, <2>1, FreshIs, Zenon DEF Typed
  <1> QED BY <1>3, <1>4, <1>5, <1>6, Zenon DEF IInv

-----------------------------------------------------------------------------
(* The replay.                                                             *)

LEMMA ReplayIs ==
    ASSUME UNCHANGED vars
    PROVE  /\ cmds' = cmds /\ batch' = batch /\ pc' = pc /\ mem' = mem
           /\ hostBtn' = hostBtn /\ typer' = typer /\ box' = box
           /\ recPending' = recPending /\ journalOn' = journalOn
           /\ journal' = journal /\ slot' = slot /\ phase' = phase /\ ghost' = ghost
  BY Zenon DEF vars

\* A replay changes nothing of what it replays.
LEMMA ReplayKeeps ==
    ASSUME IInv, phase # "live", UNCHANGED vars, rep' \in Replayers,
           Replaying', Complete', RecordingsReplay'
    PROVE  IInv'
  <1>0. /\ cmds' = cmds /\ batch' = batch /\ pc' = pc /\ mem' = mem
        /\ hostBtn' = hostBtn /\ typer' = typer /\ box' = box
        /\ recPending' = recPending /\ journalOn' = journalOn
        /\ journal' = journal /\ slot' = slot /\ phase' = phase /\ ghost' = ghost
    BY ReplayIs
  <1>1. Typed'
    BY <1>0, Zenon DEF IInv, Typed
  <1>2. Ordered' /\ HeldKeys'
    BY <1>0, Zenon DEF IInv, Ordered, HeldKeys
  <1>3. Placed'
    BY <1>0, Zenon DEF IInv, Placed
  <1> QED BY <1>1, <1>2, <1>3, Zenon DEF IInv

\* The journal is loaded (loadInputJournal()).
LEMMA LoadKeeps ==
    ASSUME IInv, loadInputJournal
    PROVE  IInv'
  <1>1. /\ phase # "live" /\ journal \in Journals /\ Placed /\ Ordered
        /\ rep' = IF Loads THEN Started(journal) ELSE [Idle EXCEPT !.st = "refused"]
        /\ UNCHANGED vars
    BY Zenon DEF IInv, Typed, loadInputJournal
  <1>2. journal' = journal
    BY <1>1, ReplayIs, Zenon
  <1>3. /\ Idle \in Replayers /\ Idle.i = 1 /\ Idle.stalls = 0
    <2> DEFINE o == 1
               z == 0
               b == [k \in 0..1 |-> FALSE]
               t == "idle"
    <2>1. /\ o \in Nat \ {0} /\ z \in Nat /\ b \in Buttons
          /\ t \in {"idle", "run", "done", "refused", "failed"}
      BY DEF Buttons
    <2>2. Idle = [st |-> t, mem |-> Fresh, i |-> o, btn |-> b, box |-> FreshBox,
                  stalls |-> z]
      BY Zenon DEF Idle
    <2> HIDE DEF o, z, b, t
    <2>3. Idle \in Replayers /\ Idle.i = o /\ Idle.stalls = z
      BY <2>1, <2>2, FreshIs, Zenon DEF Replayers
    <2> QED BY <2>3 DEF o, z
  <1>4. CASE Loads
    <2> DEFINE g == journal.snap[1]
               t == "run"
    <2>1. journal.start # NoClk /\ journal.snap # <<>> /\ journal.snap \in Seq(Guests)
      BY <1>1, <1>4, Zenon DEF Loads, Placed, Journals
    <2>2. g \in Guests /\ t \in {"idle", "run", "done", "refused", "failed"}
      BY <2>1
    <2>3. rep' = [Idle EXCEPT !.st = t, !.mem = g]
      BY <1>1, <1>4, Zenon DEF Started
    <2>4. t # "done" /\ t # "refused" /\ t # "failed"
      OBVIOUS
    <2> HIDE DEF g, t
    <2>5. /\ rep' \in Replayers /\ rep'.st = t /\ rep'.mem = g /\ rep'.i = Idle.i
          /\ rep'.stalls = Idle.stalls
      BY <1>3, <2>2, <2>3, Zenon DEF Replayers
    <2>6. Complete' /\ RecordingsReplay'
      BY <2>4, <2>5 DEF Complete, RecordingsReplay
    <2>7. g.hold \in 0..GuestHold
      BY <2>2, Zenon DEF Guests, Guest
    <2>8. Len(journal.events) \in Nat /\ DOMAIN journal.events = 1..Len(journal.events)
      BY <1>1, JournalIs, Zenon
    <2>9. Replaying'
      <3>1. rep'.i <= Len(journal.events) + 1 /\ rep'.stalls = 0
            /\ rep'.stalls + rep'.mem.hold <= GuestHold
        BY <1>3, <2>5, <2>7, <2>8, HoldNat
      <3>2. \A k \in DOMAIN journal.events : ~(k < rep'.i)
        BY <1>3, <2>5, <2>8
      <3>3. ~(rep'.stalls > 0)
        BY <3>1
      <3> QED BY <1>2, <2>1, <3>1, <3>2, <3>3, Zenon DEF Replaying
    <2> QED BY <1>1, <2>5, <2>6, <2>9, ReplayKeeps, Zenon
  <1>5. CASE ~Loads
    <2> DEFINE t == "refused"
    <2>1. t \in {"idle", "run", "done", "refused", "failed"} /\ t # "run" /\ t # "done"
          /\ rep' = [Idle EXCEPT !.st = t]
      BY <1>1, <1>5
    <2> HIDE DEF t
    <2>2. rep' \in Replayers /\ rep'.st = t
      BY <1>3, <2>1, Zenon DEF Replayers
    <2>3. Replaying' /\ Complete'
      BY <2>1, <2>2, Zenon DEF Replaying, Complete
    <2>4. ASSUME journal.start # NoClk, ~Restored(journal) PROVE FALSE
      <3>1. Stamped(journal)
        BY <1>1, <2>4, Zenon DEF Ordered
      <3>2. /\ journal.start \in Int /\ Len(journal.events) \in Nat
            /\ DOMAIN journal.events = 1..Len(journal.events)
            /\ \A i \in DOMAIN journal.events : journal.events[i].clk \in Nat
        BY <1>1, JournalIs, Zenon
      <3>3. ASSUME NEW i \in DOMAIN journal.events
            PROVE  ~Backwards(EventClk(i - 1), EventClk(i))
        <4>1. i \in Nat /\ i # 0 /\ i - 1 <= i
          BY <3>2
        <4>2. EventClk(i) = journal.events[i].clk
          BY <4>1 DEF EventClk
        <4>3. CASE i = 1
          <5>1. EventClk(i - 1) = journal.start
            BY <4>3 DEF EventClk
          <5>2. journal.start <= journal.events[i].clk
            BY <3>1, Zenon DEF Stamped
          <5> QED BY <3>2, <4>2, <5>1, <5>2 DEF Backwards
        <4>4. CASE i # 1
          <5>1. i - 1 \in DOMAIN journal.events /\ EventClk(i - 1) = journal.events[i - 1].clk
            BY <3>2, <4>1, <4>4 DEF EventClk
          <5>2. journal.events[i - 1].clk <= journal.events[i].clk
            BY <3>1, <4>1, <5>1, Zenon DEF Stamped
          <5> QED BY <3>2, <4>2, <5>1, <5>2 DEF Backwards
        <4> QED BY <4>3, <4>4
      <3> QED BY <1>5, <2>4, <3>3, Zenon DEF Loads
    <2>5. RecordingsReplay'
      BY <1>2, <2>4, Zenon DEF RecordingsReplay
    <2> QED BY <1>1, <2>2, <2>3, <2>5, ReplayKeeps, Zenon
  <1> QED BY <1>4, <1>5

\* A replayer at work.
LEMMA RunIs ==
    ASSUME IInv, rep.st = "run"
    PROVE  /\ phase # "live" /\ rep \in Replayers /\ journal \in Journals
           /\ journal.start # NoClk /\ rep.i <= Len(journal.events) + 1
           /\ \A k \in DOMAIN journal.events :
                 k < rep.i => journal.events[k].cmd.t # "StateRestore"
           /\ rep.stalls > 0 => ~IsDue(journal, rep)
           /\ rep.stalls + rep.mem.hold <= GuestHold
           /\ rep.i \in Nat /\ rep.i >= 1 /\ rep.stalls \in Nat /\ rep.mem \in Guests
           /\ rep.mem.hold \in 0..GuestHold /\ rep.mem.clk \in Nat /\ rep.box \in Boxes
           /\ Len(journal.events) \in Nat
           /\ DOMAIN journal.events = 1..Len(journal.events)
  <1>1. rep \in Replayers /\ journal \in Journals /\ Placed /\ Replaying
    BY Zenon DEF IInv, Typed
  <1>2. phase # "live"
    BY <1>1 DEF Placed
  <1>3. /\ rep.i \in Nat \ {0} /\ rep.stalls \in Nat /\ rep.mem \in Guests
        /\ rep.box \in Boxes
    BY <1>1, Zenon DEF Replayers
  <1>4. rep.i >= 1
    BY <1>3
  <1>5. rep.mem.hold \in 0..GuestHold /\ rep.mem.clk \in Nat
    BY <1>3, Zenon DEF Guests, Guest
  <1> QED BY <1>1, <1>2, <1>3, <1>4, <1>5, JournalIs, Zenon DEF Replaying

\* An event is applied at its stamp (replayJournal(), InputReplayer::apply()).
LEMMA EventKeeps ==
    ASSUME IInv, ReplayEvent
    PROVE  IInv'
  <1> DEFINE c == journal.events[rep.i].cmd
  <1>1. /\ rep.st = "run" /\ IsDue(journal, rep) /\ UNCHANGED vars
        /\ rep' = IF Refuses(c) THEN [rep EXCEPT !.st = "failed"] ELSE Applied(rep, c)
    BY Zenon DEF ReplayEvent
  <1>2. journal' = journal
    BY <1>1, ReplayIs, Zenon
  <1>3. /\ phase # "live" /\ rep \in Replayers /\ journal \in Journals
        /\ journal.start # NoClk
        /\ \A k \in DOMAIN journal.events :
              k < rep.i => journal.events[k].cmd.t # "StateRestore"
        /\ rep.stalls > 0 => ~IsDue(journal, rep)
        /\ rep.i \in Nat /\ rep.i >= 1 /\ rep.stalls \in Nat
        /\ Len(journal.events) \in Nat
        /\ DOMAIN journal.events = 1..Len(journal.events)
    BY <1>1, RunIs, Zenon
  <1>4. rep.i <= Len(journal.events)
    BY <1>1, Zenon DEF IsDue
  <1>5. rep.i \in DOMAIN journal.events /\ rep.stalls = 0
    BY <1>1, <1>3, <1>4
  <1>6. c \in Journaled
    BY <1>3, <1>5, JournalIs, Zenon
  <1>7. CASE c.t = "StateRestore"
    <2> DEFINE t == "failed"
    <2>1. /\ t \in {"idle", "run", "done", "refused", "failed"} /\ t # "run" /\ t # "done"
          /\ rep' = [rep EXCEPT !.st = t]
      BY <1>1, <1>7 DEF Refuses
    <2> HIDE DEF t
    <2>2. rep' \in Replayers /\ rep'.st = t
      BY <1>3, <2>1, Zenon DEF Replayers
    <2>3. Replaying' /\ Complete'
      BY <2>1, <2>2, Zenon DEF Replaying, Complete
    <2>4. Restored(journal)
      BY <1>5, <1>7, Zenon DEF Restored
    <2>5. RecordingsReplay'
      BY <1>2, <2>4, Zenon DEF RecordingsReplay
    <2> QED BY <1>1, <1>3, <2>2, <2>3, <2>5, ReplayKeeps, Zenon
  <1>8. CASE c.t # "StateRestore"
    <2>1. c \in Cmds /\ ~Refuses(c)
      BY <1>6, <1>8, JournaledCmds, Zenon
    <2>2. rep' = Applied(rep, c)
      BY <1>1, <2>1, Zenon
    <2> DEFINE b == BtnOf(rep, c)
               m == MemOf(rep, c)
               x == BoxOf(rep, c)
               n == rep.i + 1
    <2>3. Applied(rep, c) \in Replayers
          /\ Applied(rep, c) = [rep EXCEPT !.btn = b, !.mem = m, !.box = x, !.i = n]
          /\ m \in Guests
      <3> HIDE DEF c
      <3> QED BY <1>3, <2>1, AppliedKeeps, Zenon
    <2> HIDE DEF b, m, x
    <2>4. n \in Nat
      BY <1>3
    <2> HIDE DEF n
    <2>5. /\ rep' \in Replayers /\ rep'.st = rep.st /\ rep'.mem = m /\ rep'.i = n
          /\ rep'.stalls = rep.stalls
      BY <1>3, <2>2, <2>3, Zenon DEF Replayers
    <2>6. m.hold \in 0..GuestHold
      BY <2>3, Zenon DEF Guests, Guest
    <2>7. Complete' /\ RecordingsReplay'
      BY <1>1, <2>5 DEF Complete, RecordingsReplay
    <2>8. Replaying'
      <3>1. rep'.i <= Len(journal.events) + 1
        BY <1>3, <1>4, <2>5 DEF n
      <3>2. rep'.stalls + rep'.mem.hold <= GuestHold
        BY <1>5, <2>5, <2>6, HoldNat
      <3>3. ~(rep'.stalls > 0)
        BY <1>5, <2>5
      <3>4. ASSUME NEW k \in DOMAIN journal.events, k < rep'.i
            PROVE  journal.events[k].cmd.t # "StateRestore"
        <4>1. k < rep.i \/ k = rep.i
          BY <1>3, <2>5, <3>4 DEF n
        <4> QED BY <1>3, <1>8, <4>1, Zenon
      <3> QED BY <1>2, <1>3, <3>1, <3>2, <3>3, <3>4, Zenon DEF Replaying
    <2> QED BY <1>1, <1>3, <2>5, <2>7, <2>8, ReplayKeeps, Zenon
  <1> QED BY <1>7, <1>8

\* A quantum of a replay: it never waits longer than the CPU is held.
LEMMA ReplayQuantumKeeps ==
    ASSUME IInv, ReplayQuantum
    PROVE  IInv'
  <1> DEFINE m == GuestAfter(rep.mem, rep.box)
             x == BoxAfter(rep.mem, rep.box)
             stalls == IF m.clk = rep.mem.clk THEN rep.stalls + 1 ELSE 0
             t == IF stalls > MaxStalls THEN "failed" ELSE rep.st
  <1>1. /\ rep.st = "run" /\ ~IsDue(journal, rep) /\ UNCHANGED vars
        /\ rep' = [rep EXCEPT !.mem = m, !.box = x, !.stalls = stalls, !.st = t]
    BY Zenon DEF ReplayQuantum
  <1>2. journal' = journal
    BY <1>1, ReplayIs, Zenon
  <1>3. /\ phase # "live" /\ rep \in Replayers /\ journal \in Journals
        /\ journal.start # NoClk /\ rep.i <= Len(journal.events) + 1
        /\ \A k \in DOMAIN journal.events :
              k < rep.i => journal.events[k].cmd.t # "StateRestore"
        /\ rep.stalls + rep.mem.hold <= GuestHold
        /\ rep.i \in Nat /\ rep.stalls \in Nat /\ rep.mem \in Guests
        /\ rep.mem.hold \in 0..GuestHold /\ rep.mem.clk \in Nat /\ rep.box \in Boxes
    BY <1>1, RunIs, Zenon
  <1>4. /\ m \in Guests
        /\ m.clk = IF rep.mem.hold = 0 THEN rep.mem.clk + 1 ELSE rep.mem.clk
        /\ m.hold = IF rep.mem.hold = 0 THEN 0 ELSE rep.mem.hold - 1
    BY <1>3, AfterKeeps, Zenon
  <1>5. x \in Boxes
    BY <1>3, BoxKeeps, Zenon
  <1> HIDE DEF m, x
  <1>6. /\ stalls \in Nat /\ stalls + m.hold <= GuestHold /\ stalls <= GuestHold
        /\ stalls > 0 => m.clk = rep.mem.clk
    BY <1>3, <1>4, HoldNat, SMTT(30)
  <1> HIDE DEF stalls
  <1>7. t = "run"
    BY <1>1, <1>6, HoldNat, StallsOK
  <1> HIDE DEF t
  <1>8. t \in {"idle", "run", "done", "refused", "failed"}
    BY <1>7
  <1>9. /\ rep' \in Replayers /\ rep'.st = t /\ rep'.mem = m /\ rep'.i = rep.i
        /\ rep'.stalls = stalls
    BY <1>1, <1>3, <1>4, <1>5, <1>6, <1>8, Zenon DEF Replayers
  <1>10. Complete' /\ RecordingsReplay'
    BY <1>7, <1>9 DEF Complete, RecordingsReplay
  <1>11. rep'.stalls > 0 => ~IsDue(journal, rep')
    BY <1>1, <1>6, <1>9, Zenon DEF IsDue
  <1>12. Replaying'
    <2>1. rep'.stalls + rep'.mem.hold <= GuestHold
      BY <1>6, <1>9
    <2> QED BY <1>2, <1>3, <1>9, <1>11, <2>1, Zenon DEF Replaying
  <1> QED BY <1>1, <1>3, <1>9, <1>10, <1>12, ReplayKeeps, Zenon

\* A replay ends: whatever was recorded was due by then.
LEMMA EndKeeps ==
    ASSUME IInv, ReplayEnds
    PROVE  IInv'
  <1> DEFINE t == IF rep.i > Len(journal.events) THEN "done" ELSE "failed"
  <1>1. /\ rep.st = "run" /\ ~IsDue(journal, rep) /\ UNCHANGED vars
        /\ rep.mem.clk >= endClk
        /\ rep' = [rep EXCEPT !.st = t]
    BY Zenon DEF ReplayEnds
  <1>2. journal' = journal
    BY <1>1, ReplayIs, Zenon
  <1>3. /\ phase # "live" /\ rep \in Replayers /\ journal \in Journals
        /\ journal.start # NoClk /\ rep.i <= Len(journal.events) + 1
        /\ \A k \in DOMAIN journal.events :
              k < rep.i => journal.events[k].cmd.t # "StateRestore"
        /\ rep.i \in Nat /\ rep.i >= 1 /\ rep.mem.clk \in Nat
        /\ Len(journal.events) \in Nat
        /\ DOMAIN journal.events = 1..Len(journal.events)
    BY <1>1, RunIs, Zenon
  <1>4. t \in {"idle", "run", "done", "refused", "failed"} /\ t # "run"
    OBVIOUS
  <1>5. rep' \in Replayers /\ rep'.st = t
    <2> HIDE DEF t
    <2> QED BY <1>1, <1>3, <1>4, Zenon DEF Replayers
  <1>6. Replaying'
    BY <1>4, <1>5, Zenon DEF Replaying
  <1>7. CASE rep.i > Len(journal.events)
    <2>1. \A k \in DOMAIN journal.events : k < rep.i
      BY <1>3, <1>7
    <2>2. ~Restored(journal)
      BY <1>3, <2>1, Zenon DEF Restored
    <2>3. rep'.st = "done"
      BY <1>5, <1>7
    <2>4. Complete' /\ RecordingsReplay'
      BY <1>2, <1>3, <2>2, <2>3 DEF Complete, RecordingsReplay
    <2> QED BY <1>1, <1>3, <1>5, <1>6, <2>4, ReplayKeeps, Zenon
  <1>8. CASE ~(rep.i > Len(journal.events))
    <2>1. rep'.st = "failed" /\ rep.i \in DOMAIN journal.events
          /\ rep.i <= Len(journal.events)
      BY <1>3, <1>5, <1>8
    <2>2. Complete'
      BY <2>1 DEF Complete
    <2>3. ASSUME ~Restored(journal) PROVE FALSE
      <3> DEFINE e == journal.events[rep.i].clk
                 l == Len(journal.events)
      <3>1. Stamped(journal) /\ (journal.end # NoClk => StampedTo(journal, journal.end))
        BY <1>3, <2>3, Zenon DEF IInv, Ordered
      <3>2. e \in Nat /\ journal.end \in Int /\ journal.events[l].clk \in Nat
        <4>1. l \in DOMAIN journal.events
          BY <1>3, <2>1
        <4> QED BY <1>3, <2>1, <4>1, JournalIs, Zenon
      <3>3. e <= endClk /\ endClk \in Int
        <4>1. CASE journal.end # NoClk
          <5>1. e <= journal.end /\ endClk = journal.end
            BY <2>1, <3>1, <4>1, Zenon DEF StampedTo, endClk
          <5> QED BY <3>2, <5>1
        <4>2. CASE journal.end = NoClk
          <5>1. l # 0 /\ l \in DOMAIN journal.events
            BY <1>3, <2>1
          <5>2. endClk = journal.events[l].clk
            BY <4>2, <5>1, Zenon DEF endClk, EventClk
          <5>3. e <= journal.events[l].clk
            BY <2>1, <3>1, <5>1, Zenon DEF Stamped
          <5> QED BY <3>2, <5>2, <5>3
        <4> QED BY <4>1, <4>2
      <3> HIDE DEF e
      <3>4. e <= rep.mem.clk
        BY <1>1, <1>3, <3>2, <3>3
      <3> QED BY <1>1, <2>1, <3>4, Zenon DEF IsDue, e
    <2>4. RecordingsReplay'
      BY <1>2, <2>3, Zenon DEF RecordingsReplay
    <2> QED BY <1>1, <1>3, <1>5, <1>6, <2>2, <2>4, ReplayKeeps, Zenon
  <1> QED BY <1>7, <1>8

-----------------------------------------------------------------------------
(* The invariant.                                                          *)

LEMMA InitKeeps ==
    ASSUME ReplayInit
    PROVE  IInv
  <1>1. /\ cmds = <<>> /\ batch = <<>> /\ pc = "swap" /\ mem = Fresh
        /\ hostBtn = [i \in 0..1 |-> FALSE] /\ typer = IdleTyper /\ box = FreshBox
        /\ recPending \in {{}, {"start"}} /\ journalOn = FALSE /\ journal = NoJournal
        /\ slot = [pending |-> {}, file |-> <<>>] /\ phase = "live" /\ ghost = NoGhost
        /\ rep = Idle
    BY Zenon DEF ReplayInit, Init
  <1> DEFINE n == FALSE
             q == <<>>
             d == {}
             z == 0
             o == 1
             b == [k \in 0..1 |-> FALSE]
             t == "idle"
  <1>2. /\ n \in BOOLEAN /\ q \in Seq(Guests) /\ NoClk \in Int /\ d \in SUBSET Nat
        /\ q \in Seq([clk : Nat, cmd : Journaled])
        /\ o \in Nat \ {0} /\ z \in Nat /\ b \in Buttons
        /\ t \in {"idle", "run", "done", "refused", "failed"}
    BY DEF NoClk, Buttons
  <1>3. /\ NoJournal = [header |-> n, snap |-> q, start |-> NoClk, events |-> q,
                        end |-> NoClk]
        /\ NoGhost = [mark |-> q, final |-> q, held |-> n, box |-> FreshBox,
                      pressed |-> n, kept |-> d]
        /\ Idle = [st |-> t, mem |-> Fresh, i |-> o, btn |-> b, box |-> FreshBox,
                   stalls |-> z]
    BY Zenon DEF NoJournal, NoGhost, Idle
  <1>4. ~n /\ t # "run" /\ t # "done" /\ t # "refused" /\ t # "failed" /\ t = "idle"
    OBVIOUS
  <1> HIDE DEF n, q, d, z, o, b, t
  <1>5. NoJournal \in Journals /\ NoJournal.start = NoClk /\ NoJournal.end = NoClk
    BY <1>2, <1>3, Zenon DEF Journals
  <1>6. NoGhost \in Ghosts
    BY <1>2, <1>3, BoxKeeps, Zenon DEF Ghosts
  <1>7. Idle \in Replayers /\ Idle.st = t
    BY <1>2, <1>3, FreshIs, Zenon DEF Replayers
  <1>8. Typed
    <2>1. /\ cmds \in Seq(Queued) /\ batch \in Seq(Queued)
          /\ pc \in {"swap", "rec", "open", "snap", "begin", "cmd", "run"}
          /\ recPending \subseteq {"start", "stop"} /\ journalOn \in BOOLEAN
          /\ phase \in {"live", "stopped", "dead"}
      BY <1>1
    <2> QED BY <1>1, <1>5, <1>6, <1>7, <2>1, FreshIs, Zenon DEF Typed
  <1>9. Placed
    <2>1. pc \notin {"open", "snap", "begin"} /\ pc # "begin" /\ pc \notin {"snap", "begin"}
      BY <1>1
    <2> QED BY <1>1, <1>4, <1>5, <1>7, <2>1, Zenon DEF Placed
  <1>10. Ordered /\ Replaying /\ Complete
    BY <1>1, <1>4, <1>5, <1>7, Zenon DEF Ordered, Replaying, Complete
  <1>11. RecordingsReplay
    BY <1>1, <1>5, Zenon DEF RecordingsReplay
  <1>12. HeldKeys
    <2> DEFINE k == Fresh.keys
               e == IdleTyper.down
    <2>1. k = {} /\ e = {} /\ Balanced(<<>>) /\ IdleTyper.queue = <<>>
      BY FreshIs, Zenon
    <2>2. mem.keys = k /\ typer.down = e /\ Balanced(typer.queue)
      BY <1>1, <2>1
    <2> HIDE DEF k, e
    <2> QED BY <2>1, <2>2, Zenon DEF HeldKeys
  <1> QED BY <1>8, <1>9, <1>10, <1>11, <1>12 DEF IInv

LEMMA StutterKeeps ==
    ASSUME IInv, UNCHANGED allVars
    PROVE  IInv'
  <1>1. UNCHANGED vars /\ rep' = rep
    BY Zenon DEF allVars
  <1>2. /\ cmds' = cmds /\ batch' = batch /\ pc' = pc /\ mem' = mem
        /\ hostBtn' = hostBtn /\ typer' = typer /\ box' = box
        /\ recPending' = recPending /\ journalOn' = journalOn
        /\ journal' = journal /\ slot' = slot /\ phase' = phase /\ ghost' = ghost
    BY <1>1, ReplayIs
  <1>3. Typed' /\ Ordered' /\ HeldKeys'
    BY <1>1, <1>2, Zenon DEF IInv, Typed, Ordered, HeldKeys
  <1>4. Placed'
    BY <1>1, <1>2, Zenon DEF IInv, Placed
  <1>5. Replaying' /\ Complete' /\ RecordingsReplay'
    BY <1>1, <1>2, Zenon DEF IInv, Replaying, Complete, RecordingsReplay
  <1> QED BY <1>3, <1>4, <1>5, Zenon DEF IInv

LEMMA StepKeeps ==
    ASSUME IInv, Least, Counted, [Next]_allVars
    PROVE  IInv'
  <1>1. ASSUME HostNext, rep' = rep PROVE IInv'
    <2>1. CASE Gui
      BY <1>1, <2>1, GuiKeeps
    <2>2. CASE Swap \/ EndTick
      BY <1>1, <2>2, MovesKeep
    <2>3. CASE processRecordingRequests
      BY <1>1, <2>3, RequestsKeep
    <2>4. CASE OpenJournal \/ WriteSnapshot \/ BeginRecording
      BY <1>1, <2>4, StartsKeep
    <2>5. CASE ApplyCmd
      BY <1>1, <2>5, ApplyCmdKeeps
    <2>6. CASE ApplyState
      BY <1>1, <2>6, ApplyStateKeeps
    <2>7. CASE quantum
      BY <1>1, <2>7, QuantumKeeps
    <2>8. CASE stop \/ Die
      BY <1>1, <2>8, EndsKeep
    <2> QED BY <1>1, <2>1, <2>2, <2>3, <2>4, <2>5, <2>6, <2>7, <2>8, Zenon
            DEF HostNext, Thread
  <1>2. CASE Replay
    BY <1>2, LoadKeeps, EventKeeps, ReplayQuantumKeeps, EndKeeps, Zenon DEF Replay
  <1>3. CASE UNCHANGED allVars
    BY <1>3, StutterKeeps, Zenon
  <1> QED BY <1>1, <1>2, <1>3, Zenon DEF Next

\* What the invariant says of the machine thread, the queues and the typer.
LEMMA InvariantImplies ==
    ASSUME IInv
    PROVE  TypeOK /\ RecordingsReplay /\ TypedKeysReleased
  <1>1. RecordingsReplay
    BY Zenon DEF IInv
  <1>2. TypedKeysReleased
    <2> SUFFICES ASSUME typer.queue = <<>>
                 PROVE  mem.keys \ UserKeys \subseteq ghost.kept
      BY DEF TypedKeysReleased
    <2>1. DOMAIN typer.queue = {}
      OBVIOUS
    <2>2. typer.down = {}
      BY <2>1 DEF IInv, HeldKeys, Releases
    <2> QED BY <2>2, Zenon DEF IInv, HeldKeys
  <1>3. TypeOK
    <2>1. ASSUME NEW q \in {cmds, batch}, NEW i \in DOMAIN q
          PROVE  q[i] \in Cmds /\ (q[i].t = "DetachDisk" => q[i].b <= kDetachRetries)
      <3>1. q \in Seq(Queued)
        BY <2>1, Zenon DEF IInv, Typed
      <3> DEFINE Q == Queued
      <3>2. q[i] \in Q
        <4> HIDE DEF Q
        <4>1. q \in Seq(Q)
          BY <3>1 DEF Q
        <4> QED BY <4>1
      <3> QED BY <3>2, QueuedIs, Zenon
    <2>2. mem.clk <= mem.tick /\ mem.hold \in 0..GuestHold
      BY Zenon DEF IInv, Typed, Guests, Guest
    <2>3. journalOn => journal.header /\ journal.snap # <<>>
      BY Zenon DEF IInv, Placed
    <2>4. rep.st \in {"idle", "run", "done", "refused", "failed"}
      BY Zenon DEF IInv, Typed, Replayers
    <2> QED BY <2>1, <2>2, <2>3, <2>4, Zenon DEF IInv, Typed, TypeOK
  <1> QED BY <1>1, <1>2, <1>3

-----------------------------------------------------------------------------
(* The replay of a recording, step by step.                                *)

\* What replayJournal() does next with a journal.
Ran(s) == [s EXCEPT !.mem = GuestAfter(s.mem, s.box), !.box = BoxAfter(s.mem, s.box)]
Then(j, s) == IF IsDue(j, s) THEN Applied(s, j.events[s.i].cmd) ELSE Ran(s)

LastClk(j) == IF Len(j.events) = 0 THEN j.start ELSE j.events[Len(j.events)].clk

\* A replayer on its way from the snapshot to fin, the recorded machine as it
\* is, over mk, the recorded machine right after the last event.
OnTrace(s, R, fin, mk, j) ==
    /\ s.st = "run" /\ s.stalls = 0 /\ s.i <= Len(j.events) + 1
    /\ s # fin => Then(j, s) \in R /\ (~IsDue(j, s) => s.mem.hold = 0)
    /\ s.i <= Len(j.events) => s.mem.clk <= j.events[s.i].clk
    /\ s.i = Len(j.events) + 1 => /\ s = fin \/ s.mem.clk < fin.mem.clk
                                  /\ s = mk \/ mk.mem.clk < s.mem.clk
Traced(R, fin, mk, j) ==
    /\ Started(j) \in R /\ Started(j).mem.clk = j.start
    /\ \A s \in R : OnTrace(s, R, fin, mk, j)
    /\ fin.i = Len(j.events) + 1 /\ mk.i = Len(j.events) + 1
    /\ mk.mem.clk = LastClk(j)

\* The trace of the recording, the recorded machine and the replayer.
Follows(fin) == /\ fin.mem = mem /\ fin.box = box
                /\ SingleButton => fin.btn = hostBtn
Matches(R, fin, mk) ==
    /\ Traced(R, fin, mk, journal)
    /\ ghost.mark = <<mk.mem>>
    /\ journalOn => Follows(fin)
    /\ journal.end # NoClk => ghost.final = <<fin.mem>> /\ fin.mem.clk = journal.end
    /\ rep.st = "run" =>
          /\ rep \in R
          /\ journal.end = NoClk /\ rep.i = Len(journal.events) + 1 => rep = mk
Kept == journal.start # NoClk /\ ~Restored(journal) /\ SnapshotIsAll
FInv == Kept => \E R \in SUBSET Replayers : \E fin, mk \in R : Matches(R, fin, mk)

\* The numbers of a replayer.
LEMMA ReplayerIs ==
    ASSUME NEW s \in Replayers
    PROVE  /\ s.i \in Nat /\ s.i >= 1 /\ s.stalls \in Nat /\ s.mem \in Guests
           /\ s.box \in Boxes /\ s.btn \in Buttons /\ s.mem.clk \in Nat
           /\ s.mem.hold \in Nat
           /\ s.st \in {"idle", "run", "done", "refused", "failed"}
  <1>1. /\ s.i \in Nat \ {0} /\ s.stalls \in Nat /\ s.mem \in Guests
        /\ s.box \in Boxes /\ s.btn \in Buttons
        /\ s.st \in {"idle", "run", "done", "refused", "failed"}
    BY Zenon DEF Replayers
  <1>2. s.mem.clk \in Nat /\ s.mem.hold \in 0..GuestHold
    BY <1>1, Zenon DEF Guests, Guest
  <1>3. s.i >= 1 /\ s.mem.hold \in Nat
    BY <1>1, <1>2, HoldNat
  <1> QED BY <1>1, <1>2, <1>3, Zenon

\* A quantum of the replayer.
LEMMA RanIs ==
    ASSUME NEW s \in Replayers
    PROVE  /\ Ran(s) \in Replayers
           /\ Ran(s).mem = GuestAfter(s.mem, s.box)
           /\ Ran(s).box = BoxAfter(s.mem, s.box)
           /\ Ran(s).btn = s.btn /\ Ran(s).i = s.i /\ Ran(s).st = s.st
           /\ Ran(s).stalls = s.stalls
           /\ s.mem.hold = 0 => Ran(s).mem.clk = s.mem.clk + 1
  <1> DEFINE m == GuestAfter(s.mem, s.box)
             x == BoxAfter(s.mem, s.box)
  <1>1. s.mem \in Guests /\ s.box \in Boxes
    BY ReplayerIs, Zenon
  <1>2. m \in Guests /\ m.clk = IF s.mem.hold = 0 THEN s.mem.clk + 1 ELSE s.mem.clk
    BY <1>1, AfterKeeps, Zenon
  <1>3. x \in Boxes
    BY <1>1, BoxKeeps, Zenon
  <1>4. Ran(s) = [s EXCEPT !.mem = m, !.box = x]
    BY Zenon DEF Ran
  <1> HIDE DEF m, x
  <1>5. /\ Ran(s) \in Replayers /\ Ran(s).mem = m /\ Ran(s).box = x
        /\ Ran(s).btn = s.btn /\ Ran(s).i = s.i /\ Ran(s).st = s.st
        /\ Ran(s).stalls = s.stalls
    BY <1>2, <1>3, <1>4, Zenon DEF Replayers
  <1> QED BY <1>2, <1>5, Zenon DEF m, x

\* An event in the replayer.
LEMMA AppliedIs ==
    ASSUME NEW s \in Replayers, NEW c \in Cmds
    PROVE  /\ Applied(s, c) \in Replayers
           /\ Applied(s, c).mem = MemOf(s, c) /\ Applied(s, c).box = BoxOf(s, c)
           /\ Applied(s, c).btn = BtnOf(s, c) /\ Applied(s, c).i = s.i + 1
           /\ Applied(s, c).st = s.st /\ Applied(s, c).stalls = s.stalls
           /\ Applied(s, c).mem.clk = s.mem.clk
  <1> DEFINE b == BtnOf(s, c)
             m == MemOf(s, c)
             x == BoxOf(s, c)
             n == s.i + 1
             a == Applied(s, c)
  <1>1. a \in Replayers /\ a = [s EXCEPT !.btn = b, !.mem = m, !.box = x, !.i = n]
        /\ m.clk = s.mem.clk
    BY AppliedKeeps, Zenon
  <1> HIDE DEF b, m, x, n, a
  <1>2. a.btn = b /\ a.mem = m /\ a.box = x /\ a.i = n /\ a.st = s.st
        /\ a.stalls = s.stalls
    BY <1>1, Zenon DEF Replayers
  <1> QED BY <1>1, <1>2, Zenon DEF a, b, m, x, n

\* A recording begins: the replay of nothing.
LEMMA TraceBegins ==
    ASSUME NEW j \in Journals, j.events = <<>>, j.start \in Nat,
           Started(j) \in Replayers, Started(j).mem.clk = j.start,
           Started(j).st = "run", Started(j).stalls = 0, Started(j).i = 1
    PROVE  Traced({Started(j)}, Started(j), Started(j), j)
  <1> DEFINE s == Started(j)
             R == {s}
  <1>1. Len(j.events) = 0
    OBVIOUS
  <1>2. s.i = Len(j.events) + 1 /\ ~(s.i <= Len(j.events)) /\ s.i <= Len(j.events) + 1
    BY <1>1
  <1>3. LastClk(j) = j.start
    BY <1>1, Zenon DEF LastClk
  <1>4. OnTrace(s, R, s, s, j)
    <2> HIDE DEF R
    <2> QED BY <1>2, Zenon DEF OnTrace
  <1> HIDE DEF s
  <1> QED BY <1>2, <1>3, <1>4, Zenon DEF Traced, s

\* The recorded machine runs a quantum: one more step of the replay.
LEMMA TraceRuns ==
    ASSUME NEW j \in Journals, NEW R \in SUBSET Replayers, NEW fin \in R, NEW mk \in R,
           Traced(R, fin, mk, j), fin.mem.hold = 0
    PROVE  Traced(R \cup {Ran(fin)}, Ran(fin), mk, j)
  <1> DEFINE f == Ran(fin)
             Q == R \cup {f}
             l == Len(j.events)
  <1>1. \A s \in R : OnTrace(s, R, fin, mk, j)
    BY Zenon DEF Traced
  <1>2. l \in Nat /\ fin.i = l + 1 /\ mk.i = l + 1 /\ ~(fin.i <= l)
    <2>1. l \in Nat /\ fin.i = l + 1 /\ mk.i = l + 1
      BY JournalIs, Zenon DEF Traced
    <2> QED BY <2>1
  <1>3. /\ fin.mem.clk \in Nat /\ mk.mem.clk \in Nat
        /\ f.i = fin.i /\ f.st = fin.st /\ f.stalls = fin.stalls
        /\ f.mem.clk = fin.mem.clk + 1
    BY RanIs, ReplayerIs, Zenon
  <1>4. ~IsDue(j, fin) /\ Then(j, fin) = f
    BY <1>2, Zenon DEF IsDue, Then
  <1> HIDE DEF f, l
  <1>5. fin.mem.clk < f.mem.clk
    BY <1>3
  <1>6. OnTrace(f, Q, f, mk, j)
    <2>1. /\ fin.st = "run" /\ fin.stalls = 0 /\ fin.i <= l + 1
          /\ fin = mk \/ mk.mem.clk < fin.mem.clk
      BY <1>1, <1>2, Zenon DEF OnTrace, l
    <2>2. mk.mem.clk < f.mem.clk
      BY <1>3, <2>1
    <2> QED BY <1>2, <1>3, <2>1, <2>2, Zenon DEF OnTrace, l
  <1>7. ASSUME NEW s \in R, s # f
        PROVE  OnTrace(s, Q, f, mk, j)
    <2>1. /\ s.st = "run" /\ s.stalls = 0 /\ s.i <= l + 1
          /\ s # fin => Then(j, s) \in R /\ (~IsDue(j, s) => s.mem.hold = 0)
          /\ s.i <= l => s.mem.clk <= j.events[s.i].clk
          /\ s.i = l + 1 => /\ s = fin \/ s.mem.clk < fin.mem.clk
                            /\ s = mk \/ mk.mem.clk < s.mem.clk
      BY <1>1, Zenon DEF OnTrace, l
    <2>2. Then(j, s) \in Q /\ (~IsDue(j, s) => s.mem.hold = 0)
      BY <1>4, <2>1, Zenon
    <2>3. s.mem.clk \in Nat
      BY ReplayerIs, Zenon
    <2>4. s = fin \/ s.mem.clk < fin.mem.clk => s.mem.clk < f.mem.clk
      BY <1>3, <2>3
    <2> QED BY <2>1, <2>2, <2>4, Zenon DEF OnTrace, l
  <1>8. \A s \in Q : OnTrace(s, Q, f, mk, j)
    BY <1>6, <1>7, Zenon
  <1> HIDE DEF Q
  <1>9. Started(j) \in Q
    BY Zenon DEF Traced, Q
  <1> QED BY <1>2, <1>3, <1>8, <1>9, Zenon DEF Traced, f, l, Q

\* The recorded machine gets an event: the replay takes it where it left off.
LEMMA TraceRecords ==
    ASSUME NEW j \in Journals, NEW R \in SUBSET Replayers, NEW fin \in R, NEW mk \in R,
           Traced(R, fin, mk, j), NEW c \in Cmds, c \in Journaled
    PROVE  LET f == Applied(fin, c) IN
           Traced(R \cup {f}, f, f, With(j, c, fin.mem.clk))
  <1> DEFINE f == Applied(fin, c)
             Q == R \cup {f}
             l == Len(j.events)
             clk == fin.mem.clk
             k == With(j, c, clk)
  <1>1. \A s \in R : OnTrace(s, R, fin, mk, j)
    BY Zenon DEF Traced
  <1>2. l \in Nat /\ DOMAIN j.events = 1..l /\ fin.i = l + 1
    BY JournalIs, Zenon DEF Traced
  <1>3. /\ clk \in Nat /\ f.i = fin.i + 1 /\ f.st = fin.st /\ f.stalls = fin.stalls
        /\ f.mem.clk = clk
    BY AppliedIs, ReplayerIs, Zenon
  <1> HIDE DEF f, clk
  <1>4. /\ Len(k.events) = l + 1
        /\ \A i \in DOMAIN j.events : i \in DOMAIN k.events /\ k.events[i] = j.events[i]
        /\ k.events[l + 1] = [clk |-> clk, cmd |-> c]
        /\ k \in Journals /\ k.snap = j.snap /\ k.start = j.start
    <2>1. /\ Len(k.events) = Len(j.events) + 1
          /\ \A i \in DOMAIN j.events : i \in DOMAIN k.events /\ k.events[i] = j.events[i]
          /\ k.events[Len(j.events) + 1] = [clk |-> clk, cmd |-> c]
          /\ Len(j.events) + 1 \in DOMAIN k.events
          /\ k \in Journals /\ k.header = j.header /\ k.snap = j.snap
          /\ k.start = j.start /\ k.end = j.end
      BY <1>3, WithEvents, ZenonT(30)
    <2> QED BY <2>1, Zenon
  <1> HIDE DEF l, k
  <1>5. k.events[l + 1].clk = clk /\ k.events[l + 1].cmd = c
    BY <1>4
  <1>6. f.i = (l + 1) + 1 /\ ~(f.i <= l + 1) /\ fin.i <= l + 1 /\ ~(fin.i <= l)
    <2>1. fin.i = l + 1 /\ f.i = fin.i + 1 /\ l \in Nat
      BY <1>2, <1>3
    <2> QED BY <2>1
  <1>7. OnTrace(f, Q, f, f, k)
    <2>1. fin.st = "run" /\ fin.stalls = 0
      BY <1>1, Zenon DEF OnTrace
    <2>2. f.i <= (l + 1) + 1
      BY <1>2, <1>6
    <2> QED BY <1>3, <1>4, <1>6, <2>1, <2>2, Zenon DEF OnTrace
  <1>8. ASSUME NEW s \in R
        PROVE  OnTrace(s, Q, f, f, k)
    <2>1. /\ s.st = "run" /\ s.stalls = 0 /\ s.i <= l + 1
          /\ s # fin => Then(j, s) \in R /\ (~IsDue(j, s) => s.mem.hold = 0)
          /\ s.i <= l => s.mem.clk <= j.events[s.i].clk
          /\ s.i = l + 1 => s = fin \/ s.mem.clk < clk
      BY <1>1, Zenon DEF OnTrace, l, clk
    <2>2. s.i \in Nat /\ s.i >= 1 /\ s.mem.clk \in Nat
      BY ReplayerIs, Zenon
    <2>3. s.i <= (l + 1) + 1 /\ s.i # (l + 1) + 1 /\ (s.i <= l \/ s.i = l + 1)
      BY <1>2, <2>1, <2>2
    <2>4. CASE s.i <= l
      <3>1. k.events[s.i] = j.events[s.i]
        BY <1>2, <1>4, <2>2, <2>4
      <3>2. IsDue(k, s) = IsDue(j, s)
        BY <1>4, <2>1, <2>4, <3>1, Zenon DEF IsDue, l
      <3>3. Then(k, s) = Then(j, s) /\ s # fin
        BY <1>6, <2>4, <3>1, <3>2, Zenon DEF Then
      <3> QED BY <1>4, <2>1, <2>3, <2>4, <3>1, <3>2, <3>3, ZenonT(30) DEF OnTrace
    <2>5. CASE s = fin
      <3>1. clk <= clk
        BY <1>3
      <3>2. IsDue(k, s)
        BY <1>2, <1>4, <1>5, <1>6, <2>5, <3>1, Zenon DEF IsDue, clk
      <3>3. Then(k, s) = f
        BY <1>2, <1>5, <2>5, <3>2, Zenon DEF Then, f
      <3>4. s.mem.clk <= k.events[s.i].clk
        BY <1>2, <1>5, <2>5, <3>1, Zenon DEF clk
      <3> QED BY <1>4, <2>1, <2>3, <3>2, <3>3, <3>4, Zenon DEF OnTrace
    <2>6. CASE s.i = l + 1 /\ s # fin
      <3>1. s.mem.clk < clk /\ ~(clk <= s.mem.clk) /\ s.mem.clk <= clk
        BY <1>3, <2>1, <2>2, <2>6
      <3>2. ~(s.i <= l)
        BY <1>2, <2>6
      <3>3. ~IsDue(k, s) /\ ~IsDue(j, s)
        BY <1>5, <2>6, <3>1, <3>2, Zenon DEF IsDue, l
      <3>4. Then(k, s) = Then(j, s)
        BY <3>3, Zenon DEF Then
      <3> QED BY <1>4, <1>5, <2>1, <2>3, <2>6, <3>1, <3>3, <3>4, Zenon DEF OnTrace
    <2> QED BY <2>3, <2>4, <2>5, <2>6, Zenon
  <1>9. \A s \in Q : OnTrace(s, Q, f, f, k)
    BY <1>7, <1>8, Zenon
  <1> HIDE DEF Q
  <1>10. Started(k) = Started(j) /\ Started(j) \in Q /\ Started(j).mem.clk = j.start
    BY <1>4, Zenon DEF Started, Traced, Q
  <1>11. l + 1 # 0
    BY <1>2
  <1>12. LastClk(k) = clk
    BY <1>4, <1>5, <1>11, Zenon DEF LastClk
  <1>13. Traced(Q, f, f, k)
    BY <1>3, <1>4, <1>6, <1>9, <1>10, <1>12, Zenon DEF Traced
  <1> QED BY <1>13 DEF Q, f, k, clk

\* The end of a recording is no part of its trace.
LEMMA TraceEnds ==
    ASSUME NEW j, NEW k, k.events = j.events, k.snap = j.snap, k.start = j.start,
           NEW R, NEW fin, NEW mk, Traced(R, fin, mk, j)
    PROVE  Traced(R, fin, mk, k)
  BY Zenon DEF Traced, OnTrace, Started, LastClk, Then, IsDue

\* The arms of applyCmds() and of InputReplayer::apply() agree on what the GUI
\* pushes: no screen sense where an external screen is powered, and no second
\* floppy without the port.
ArmsAlike ==
    \A c \in Inputs : /\ c.t = "Sense" => ~ExternalPower
                      /\ c.t = "InsertFloppy" /\ c.a = 1 => ExternalPort

\* The recorded machine and the replayed one take a command alike.
LEMMA ArmsAgree ==
    ASSUME ArmsAlike, NEW c \in Queued, c.t \notin {"TypeText", "CancelTyping"},
           InputCmd(c) \/ ButtonCmd(c) \/ TypingCmd(c) \/ AgentCmd(c) \/ DetachCmd(c),
           NEW fin \in Replayers, Follows(fin)
    PROVE  /\ MemOf(fin, c) = mem' /\ BoxOf(fin, c) = box'
           /\ SingleButton => BtnOf(fin, c) = hostBtn'
  <1>1. fin.mem = mem /\ fin.box = box /\ (SingleButton => fin.btn = hostBtn)
    BY Zenon DEF Follows
  <1>2. CASE InputCmd(c)
    <2>1. /\ c.t \in GuestOnly /\ mem' = InputArm(mem, c) /\ hostBtn' = hostBtn
          /\ box' = box
      BY <1>2, Zenon DEF InputCmd
    <2>2. c.t # "MouseButton" /\ c.t \notin {"AgentMount", "AgentUnmount"}
          /\ c.t # "DetachDisk"
      BY <2>1 DEF GuestOnly
    <2>3. c \in Inputs
      BY <2>2, QueuedIs, Zenon
    <2>4. ReplayArm(mem, c) = InputArm(mem, c)
      <3>1. CASE c.t = "Sense"
        <4>1. ~ExternalPower
          BY <2>3, <3>1, Zenon DEF ArmsAlike
        <4>2. c.t # "Key" /\ c.t # "HardReset"
          BY <3>1
        <4> QED BY <3>1, <4>1, <4>2 DEF ReplayArm, InputArm
      <3>2. CASE c.t = "InsertFloppy"
        <4>1. ~(c.a = 1 /\ ~ExternalPort)
          BY <2>3, <3>2, Zenon DEF ArmsAlike
        <4> QED BY <3>2, <4>1 DEF ReplayArm, InputArm
      <3>3. CASE c.t # "Sense" /\ c.t # "InsertFloppy"
        BY <2>2, <3>3 DEF ReplayArm
      <3> QED BY <3>1, <3>2, <3>3
    <2> QED BY <1>1, <2>1, <2>2, <2>4, Zenon DEF MemOf, BoxOf, BtnOf
  <1>3. CASE ButtonCmd(c)
    <2>1. c.t = "MouseButton" /\ box' = box
      BY <1>3, Zenon DEF ButtonCmd
    <2>2. c.t \notin {"AgentMount", "AgentUnmount"}
      BY <2>1
    <2>3. CASE SingleButton
      <3>1. /\ hostBtn' = [hostBtn EXCEPT ![c.a] = (c.b # 0)]
            /\ mem' = Deliver(mem, Folded(hostBtn'))
        BY <1>3, <2>3, Zenon DEF ButtonCmd, Folded
      <3>2. BtnOf(fin, c) = hostBtn'
        BY <1>1, <2>1, <2>3, <3>1, Zenon DEF BtnOf
      <3> QED BY <1>1, <2>1, <2>2, <2>3, <3>1, <3>2, Zenon DEF MemOf, BoxOf
    <2>4. CASE ~SingleButton
      <3>1. mem' = Deliver(mem, c)
        BY <1>3, <2>4, ZenonT(30) DEF ButtonCmd
      <3> QED BY <1>1, <2>1, <2>2, <2>4, <3>1, Zenon DEF MemOf, BoxOf
    <2> QED BY <2>3, <2>4
  <1>4. CASE TypingCmd(c)
    BY <1>4, ZenonT(30) DEF TypingCmd
  <1>5. CASE AgentCmd(c)
    <2>1. /\ c.t \in {"AgentMount", "AgentUnmount"} /\ box' = Post(box, c.t)
          /\ mem' = mem /\ hostBtn' = hostBtn
      BY <1>5, Zenon DEF AgentCmd
    <2>2. c.t # "MouseButton"
      BY <2>1
    <2> QED BY <1>1, <2>1, <2>2, Zenon DEF MemOf, BoxOf, BtnOf
  <1>6. CASE DetachCmd(c)
    <2>1. c.t = "DetachDisk" /\ mem' = detachScsi(mem) /\ hostBtn' = hostBtn /\ box' = box
      BY <1>6, Zenon DEF DetachCmd
    <2>2. c.t # "MouseButton" /\ c.t \notin {"AgentMount", "AgentUnmount"}
      BY <2>1
    <2>3. ReplayArm(mem, c) = detachScsi(mem)
      BY <2>1 DEF ReplayArm
    <2> QED BY <1>1, <2>1, <2>2, <2>3, Zenon DEF MemOf, BoxOf, BtnOf
  <1> QED BY <1>2, <1>3, <1>4, <1>5, <1>6, SMTT(30)

\* A typed key in the replayer.
LEMMA KeyAgrees ==
    ASSUME NEW fin \in Replayers, Follows(fin), NEW code \in Nat, NEW down \in Nat
    PROVE  LET c == Cmd("Key", code, down) IN
           /\ MemOf(fin, c) = keyEvent(mem, code, down) /\ BoxOf(fin, c) = box
           /\ SingleButton => BtnOf(fin, c) = hostBtn
  <1> DEFINE c == Cmd("Key", code, down)
  <1>1. fin.mem = mem /\ fin.box = box /\ (SingleButton => fin.btn = hostBtn)
    BY Zenon DEF Follows
  <1>2. c.t = "Key" /\ c.a = code /\ c.b = down
    BY DEF Cmd
  <1> HIDE DEF c
  <1>3. c.t # "MouseButton" /\ c.t \notin {"AgentMount", "AgentUnmount"}
    BY <1>2
  <1>4. ReplayArm(mem, c) = keyEvent(mem, code, down)
    BY <1>2 DEF ReplayArm, InputArm
  <1> QED BY <1>1, <1>3, <1>4, Zenon DEF MemOf, BoxOf, BtnOf, c

\* A step that leaves the recording alone, and the machine if it is recorded.
LEMMA SameFollows ==
    ASSUME FInv, journal' = journal, Kept' => Kept, ghost'.mark = ghost.mark,
           ghost'.final = ghost.final, rep' = rep,
           journalOn' => journalOn /\ mem' = mem /\ box' = box /\ hostBtn' = hostBtn
    PROVE  FInv'
  <1> SUFFICES ASSUME Kept'
               PROVE  \E R \in SUBSET Replayers : \E fin, mk \in R : Matches(R, fin, mk)'
    BY Zenon DEF FInv
  <1>1. PICK R \in SUBSET Replayers : \E fin, mk \in R : Matches(R, fin, mk)
    BY Zenon DEF FInv
  <1>2. PICK fin \in R, mk \in R : Matches(R, fin, mk)
    BY <1>1, Zenon
  <1>3. Matches(R, fin, mk)'
    BY <1>2, Zenon DEF Matches, Follows
  <1> QED BY <1>3, Zenon

\* A recording ends (stopRecording()).
LEMMA FinishFollows ==
    ASSUME IInv, FInv, phase = "live", journalOn, Finish, rep' = rep
    PROVE  FInv'
  <1> SUFFICES ASSUME Kept'
               PROVE  \E R \in SUBSET Replayers : \E fin, mk \in R : Matches(R, fin, mk)'
    BY Zenon DEF FInv
  <1>1. /\ journalOn' = FALSE /\ journal'.snap = journal.snap
        /\ journal'.start = journal.start /\ journal'.events = journal.events
        /\ journal'.end = mem.clk
    BY FinishKeeps, Zenon
  <1>2. /\ ghost'.mark = ghost.mark /\ ghost'.final = <<mem>>
        /\ ghost'.held = ghost.held /\ ghost'.box = ghost.box
        /\ ghost'.pressed = ghost.pressed
    <2> DEFINE f == <<mem>>
    <2>1. ghost \in Ghosts /\ ghost' = [ghost EXCEPT !.final = f]
      BY Zenon DEF IInv, Typed, Finish
    <2> HIDE DEF f
    <2>2. /\ ghost'.mark = ghost.mark /\ ghost'.final = f
          /\ ghost'.held = ghost.held /\ ghost'.box = ghost.box
          /\ ghost'.pressed = ghost.pressed
      BY <2>1, Zenon DEF Ghosts
    <2> QED BY <2>2 DEF f
  <1>3. Kept
    BY <1>1, <1>2, Zenon DEF Kept, SnapshotIsAll, Restored
  <1>4. PICK R \in SUBSET Replayers : \E fin, mk \in R : Matches(R, fin, mk)
    BY <1>3, Zenon DEF FInv
  <1>5. PICK fin \in R, mk \in R : Matches(R, fin, mk)
    BY <1>4, Zenon
  <1>6. Traced(R, fin, mk, journal')
    <2>1. Traced(R, fin, mk, journal)
      BY <1>5, Zenon DEF Matches
    <2> QED BY <1>1, <2>1, TraceEnds, Zenon
  <1>7. rep'.st = "idle" /\ rep'.st # "run"
    <2>1. rep.st = "idle"
      BY Zenon DEF IInv, Placed
    <2> QED BY <2>1
  <1>8. Matches(R, fin, mk)'
    BY <1>1, <1>2, <1>5, <1>6, <1>7, Zenon DEF Matches, Follows
  <1> QED BY <1>8, Zenon

\* A recording begins (startRecording()).
LEMMA BeginFollows ==
    ASSUME IInv, IInv', BeginRecording, rep' = rep
    PROVE  FInv'
  <1> SUFFICES ASSUME Kept'
               PROVE  \E R \in SUBSET Replayers : \E fin, mk \in R : Matches(R, fin, mk)'
    BY Zenon DEF FInv
  <1> DEFINE s == Started(journal')
             y == [k \in 0..1 |-> FALSE]
             p == \E i \in 0..1 : hostBtn[i]
             f == <<mem>>
             j == journal'
  <1>1. /\ phase = "live" /\ pc = "begin" /\ mem' = mem /\ box' = box
        /\ hostBtn' = hostBtn /\ journalOn'
        /\ journal' = [journal EXCEPT !.start = mem.clk]
        /\ ghost' = [NoGhost EXCEPT !.mark = f, !.box = box, !.pressed = p,
                                    !.kept = ghost.kept]
    BY Zenon DEF BeginRecording, StartStep, guestVars
  <1>2. /\ mem \in Guests /\ mem.clk \in Nat /\ hostBtn \in Buttons /\ journal \in Journals
        /\ j \in Journals /\ rep.st = "idle"
        /\ journal.events = <<>> /\ journal.end = NoClk /\ journal.snap = f
    <2>1. pc \in {"snap", "begin"}
      BY <1>1
    <2> QED BY <1>1, <2>1, Zenon DEF IInv, Typed, Placed, Guests, Guest
  <1>3. /\ j.start = mem.clk /\ j.events = <<>> /\ j.end = NoClk /\ j.snap = f
    <2> HIDE DEF f
    <2> QED BY <1>1, <1>2, Zenon DEF Journals
  <1>4. ghost'.mark = f /\ ghost'.box = box /\ ghost'.pressed = p
    <2> HIDE DEF f, p
    <2> QED BY <1>1 DEF NoGhost
  <1>5. box = FreshBox /\ (SingleButton => hostBtn = y)
    <2>1. ghost'.box = FreshBox /\ (SingleButton => ~ghost'.pressed)
      BY Zenon DEF Kept, SnapshotIsAll
    <2>2. ASSUME ~p PROVE hostBtn = y
      BY <1>2, <2>2 DEF Buttons
    <2> QED BY <1>4, <2>1, <2>2
  <1>6. s \in Replayers /\ s.mem = mem /\ s.btn = y /\ s.box = FreshBox /\ s.i = 1
        /\ s.stalls = 0 /\ s.st = "run"
    <2> DEFINE o == 1
               z == 0
               r == "run"
    <2>1. f[1] = mem /\ o \in Nat \ {0} /\ z \in Nat /\ y \in Buttons
          /\ r \in {"idle", "run", "done", "refused", "failed"}
      BY DEF Buttons
    <2>2. s = [st |-> r, mem |-> mem, i |-> o, btn |-> y, box |-> FreshBox, stalls |-> z]
      BY <1>3, <2>1 DEF Started, Idle
    <2> HIDE DEF s, o, z, r, y
    <2>3. s \in Replayers /\ s.mem = mem /\ s.btn = y /\ s.box = FreshBox /\ s.i = o
          /\ s.stalls = z /\ s.st = r
      BY <1>2, <2>1, <2>2, FreshIs, Zenon DEF Replayers
    <2> QED BY <2>3 DEF o, z, r
  <1>7. Traced({s}, s, s, j)
    <2> HIDE DEF j
    <2>1. j.start \in Nat /\ s.mem.clk = j.start /\ s = Started(j)
      BY <1>2, <1>3, <1>6, Zenon DEF j
    <2> QED BY <1>2, <1>3, <1>6, <2>1, TraceBegins, Zenon
  <1>8. rep'.st # "run"
    BY <1>2
  <1> HIDE DEF s, y, p
  <1>9. PICK r \in Replayers : r = s
    BY <1>6, Zenon
  <1>10. Matches({r}, r, r)'
    BY <1>1, <1>3, <1>4, <1>5, <1>6, <1>7, <1>8, <1>9, Zenon DEF Matches, Follows
  <1> QED BY <1>10, Zenon

\* An event is recorded: what it does to the facts about the recording.
LEMMA RecordedIs ==
    ASSUME IInv, journalOn, NEW c \in Journaled, c.t # "StateRestore"
    PROVE  LET j == With(journal, c, mem.clk) IN
           /\ WithEvent(c, mem.clk) = j /\ j \in Journals /\ j.end = NoClk
           /\ j.start = journal.start
           /\ Restored(journal) => Restored(j)
  <1> DEFINE clk == mem.clk
             j == With(journal, c, clk)
  <1>1. journal \in Journals /\ clk \in Nat /\ journal.end = NoClk
    BY Zenon DEF IInv, Typed, Placed, Guests, Guest
  <1>2. WithEvent(c, clk) = j
    BY Zenon DEF WithEvent, With
  <1> HIDE DEF clk
  <1>3. j \in Journals /\ j.start = journal.start /\ j.end = journal.end
        /\ (Restored(journal) => Restored(j))
    BY <1>1, WithKeeps, Zenon
  <1> QED BY <1>1, <1>2, <1>3, Zenon DEF clk

\* A command is applied (applyCmds()).
LEMMA CmdFollows ==
    ASSUME IInv, IInv', FInv, ArmsAlike, ApplyCmd, rep' = rep
    PROVE  FInv'
  <1> DEFINE c == Head(batch)
  <1>1. /\ phase = "live" /\ journalOn' = journalOn
        /\ batch # <<>>
        /\ InputCmd(c) \/ ButtonCmd(c) \/ TypingCmd(c) \/ AgentCmd(c) \/ DetachCmd(c)
        /\ Record(c, mem.clk, mem')
    BY Zenon DEF ApplyCmd
  <1>2. batch \in Seq(Queued) /\ ghost \in Ghosts /\ mem' \in Guests /\ rep.st = "idle"
    BY <1>1, Zenon DEF IInv, Typed, Placed
  <1>3. c \in Queued
    BY <1>1, <1>2
  <1> HIDE DEF c
  <1>4. c \in Cmds
    BY <1>3, QueuedIs, Zenon
  <1>5. CASE c.t \in {"TypeText", "CancelTyping"}
    <2>1. journal' = journal /\ ghost' = ghost
      BY <1>1, <1>5, Zenon DEF Record
    <2>2. c.t \notin GuestOnly /\ c.t # "MouseButton" /\ c.t # "DetachDisk"
          /\ c.t \notin {"AgentMount", "AgentUnmount"}
      BY <1>5 DEF GuestOnly
    <2>3. TypingCmd(c)
      BY <1>1, <2>2, Zenon DEF InputCmd, ButtonCmd, AgentCmd, DetachCmd
    <2>4. mem' = mem /\ box' = box /\ hostBtn' = hostBtn
      BY <2>3, Zenon DEF TypingCmd
    <2>5. Kept' => Kept
      BY <2>1, Zenon DEF Kept, SnapshotIsAll
    <2> QED BY <1>1, <2>1, <2>4, <2>5, SameFollows, Zenon
  <1>6. CASE c.t \notin {"TypeText", "CancelTyping"} /\ ~journalOn
    <2>1. journal' = journal /\ ghost' = ghost
      BY <1>1, <1>6, Zenon DEF Record, WithEvent, Marked
    <2>2. Kept' => Kept
      BY <2>1, Zenon DEF Kept, SnapshotIsAll
    <2> QED BY <1>1, <1>6, <2>1, <2>2, SameFollows, Zenon
  <1>7. CASE c.t \notin {"TypeText", "CancelTyping"} /\ journalOn
    <2> SUFFICES ASSUME Kept'
                 PROVE  \E R \in SUBSET Replayers : \E fin, mk \in R : Matches(R, fin, mk)'
      BY Zenon DEF FInv
    <2>1. c \in Journaled /\ c.t # "StateRestore"
      BY <1>4, <1>7, JournaledCmds, Zenon
    <2>2. journal' = WithEvent(c, mem.clk) /\ ghost' = Marked(mem')
      BY <1>1, <1>7, Zenon DEF Record
    <2>3. /\ journal' = With(journal, c, mem.clk) /\ journal'.end = NoClk
          /\ journal'.start = journal.start
          /\ Restored(journal) => Restored(journal')
      BY <1>7, <2>1, <2>2, RecordedIs, Zenon
    <2>4. /\ ghost'.held = ghost.held /\ ghost'.box = ghost.box
          /\ ghost'.pressed = ghost.pressed /\ ghost'.mark = <<mem'>>
      BY <1>2, <1>7, <2>2, MarkedKeeps, Zenon
    <2>5. Kept
      BY <2>3, <2>4, Zenon DEF Kept, SnapshotIsAll
    <2>6. PICK R \in SUBSET Replayers : \E fin, mk \in R : Matches(R, fin, mk)
      BY <2>5, Zenon DEF FInv
    <2>7. PICK fin \in R, mk \in R : Matches(R, fin, mk)
      BY <2>6, Zenon
    <2>8. Traced(R, fin, mk, journal) /\ Follows(fin) /\ fin.mem.clk = mem.clk
          /\ fin \in Replayers /\ journal \in Journals
      BY <1>7, <2>7, Zenon DEF Matches, Follows, IInv, Typed
    <2>9. PICK f \in Replayers : f = Applied(fin, c)
      BY <1>4, <2>8, AppliedIs, Zenon
    <2> DEFINE Q == R \cup {f}
    <2>10. /\ f.mem = MemOf(fin, c) /\ f.box = BoxOf(fin, c) /\ f.btn = BtnOf(fin, c)
           /\ Traced(Q, f, f, journal')
      <3>1. Traced(Q, f, f, journal')
        BY <1>4, <2>1, <2>3, <2>8, <2>9, TraceRecords, Zenon
      <3> QED BY <1>4, <2>8, <2>9, <3>1, AppliedIs, Zenon
    <2>11. f.mem = mem' /\ f.box = box' /\ (SingleButton => f.btn = hostBtn')
      BY <1>1, <1>3, <1>7, <2>8, <2>10, ArmsAgree, Zenon
    <2>12. rep'.st # "run"
      BY <1>2
    <2>13. Q \in SUBSET Replayers /\ f \in Q
      BY Zenon
    <2> HIDE DEF Q
    <2>14. Matches(Q, f, f)'
      BY <2>3, <2>4, <2>10, <2>11, <2>12, Zenon DEF Matches, Follows
    <2> QED BY <2>13, <2>14, Zenon
  <1> QED BY <1>5, <1>6, <1>7

\* A quantum is emulated, after the key that was due (quantum()).
LEMMA QuantumFollows ==
    ASSUME IInv, FInv, quantum, rep' = rep
    PROVE  FInv'
  <1> DEFINE due == Due(typer, mem.clk)
             s == Head(typer.queue)
             m == IF due THEN keyEvent(mem, s.code, s.down) ELSE mem
             g == IF due THEN Marked(m) ELSE ghost
             h == g.held \/ (journalOn /\ m.hold > 0)
  <1>1. /\ phase = "live" /\ journalOn' = journalOn /\ hostBtn' = hostBtn
        /\ mem' = GuestAfter(m, box)
        /\ box' = BoxAfter(m, box)
        /\ journal' = IF due THEN WithKey(s, mem.clk) ELSE journal
        /\ ghost' = [g EXCEPT !.held = h]
    BY Zenon DEF quantum
  <1>2. /\ ghost \in Ghosts /\ journal \in Journals /\ rep.st = "idle" /\ mem \in Guests
    BY <1>1, Zenon DEF IInv, Typed, Placed
  <1>3. due => /\ s.code \in Nat /\ s.down \in Nat /\ keyEvent(mem, s.code, s.down) \in Guests
    BY TypedKeyKeeps, Zenon
  <1>4. m \in Guests
    BY <1>2, <1>3, Zenon
  <1>5. /\ g \in Ghosts /\ g.held = ghost.held /\ g.box = ghost.box
        /\ g.pressed = ghost.pressed /\ g.final = ghost.final
        /\ g.mark = IF due /\ journalOn THEN <<m>> ELSE ghost.mark
    <2>1. ghost.final = Marked(m).final
      <3> DEFINE e == <<m>>
      <3> HIDE DEF e
      <3>1. [ghost EXCEPT !.mark = e].final = ghost.final
        BY <1>2, Zenon DEF Ghosts
      <3> QED BY <3>1, Zenon DEF Marked, e
    <2> QED BY <1>2, <1>4, <2>1, MarkedKeeps, Zenon
  <1> HIDE DEF h, g, m, due
  <1>6. /\ ghost'.held = h /\ ghost'.box = ghost.box /\ ghost'.pressed = ghost.pressed
        /\ ghost'.final = ghost.final /\ ghost'.mark = g.mark
    BY <1>1, <1>5, Zenon DEF Ghosts
  <1>7. CASE ~journalOn
    <2>1. journal' = journal /\ g.mark = ghost.mark
      BY <1>1, <1>5, <1>7, Zenon DEF WithKey, WithEvent
    <2>2. h => ghost.held
      BY <1>5, <1>7, Zenon DEF h
    <2>3. ghost.held => h
      BY <1>5, Zenon DEF h
    <2>4. Kept' => Kept
      BY <1>6, <2>1, <2>3, Zenon DEF Kept, SnapshotIsAll
    <2> QED BY <1>1, <1>6, <1>7, <2>1, <2>4, SameFollows, Zenon
  <1>8. CASE journalOn
    <2> SUFFICES ASSUME Kept'
                 PROVE  \E R \in SUBSET Replayers : \E fin, mk \in R : Matches(R, fin, mk)'
      BY Zenon DEF FInv
    <2>1. ~ghost.held /\ m.hold = 0
      <3>1. ~h
        BY <1>6, Zenon DEF Kept, SnapshotIsAll
      <3>2. ~ghost.held /\ ~(m.hold > 0)
        BY <1>5, <1>8, <3>1, Zenon DEF h
      <3>3. m.hold \in 0..GuestHold
        BY <1>4, Zenon DEF Guests, Guest
      <3> QED BY <3>2, <3>3, HoldNat
    <2>2. rep'.st # "run" /\ journal.end = NoClk
      BY <1>2, <1>8 DEF IInv, Placed
    <2>3. CASE ~due
      <3>1. journal' = journal /\ m = mem /\ ghost'.mark = ghost.mark
        BY <1>1, <1>5, <1>6, <2>3, Zenon DEF m
      <3>2. Kept
        BY <1>6, <2>1, <3>1, Zenon DEF Kept, SnapshotIsAll
      <3>3. PICK R \in SUBSET Replayers : \E fin, mk \in R : Matches(R, fin, mk)
        BY <3>2, Zenon DEF FInv
      <3>4. PICK fin \in R, mk \in R : Matches(R, fin, mk)
        BY <3>3, Zenon
      <3>5. /\ Traced(R, fin, mk, journal) /\ ghost.mark = <<mk.mem>> /\ fin.mem = mem
            /\ fin.box = box /\ (SingleButton => fin.btn = hostBtn)
        BY <1>8, <3>4, Zenon DEF Matches, Follows
      <3>6. PICK f \in Replayers : f = Ran(fin)
        BY RanIs, Zenon
      <3> DEFINE Q == R \cup {f}
      <3>7. Traced(Q, f, mk, journal)
        BY <1>2, <2>1, <3>1, <3>5, <3>6, TraceRuns, Zenon
      <3>8. f.mem = mem' /\ f.box = box' /\ f.btn = fin.btn
        BY <1>1, <3>1, <3>5, <3>6, RanIs, Zenon
      <3>9. Q \in SUBSET Replayers /\ f \in Q /\ mk \in Q
        BY Zenon
      <3> HIDE DEF Q
      <3>10. Matches(Q, f, mk)'
        BY <1>1, <2>2, <3>1, <3>5, <3>7, <3>8, Zenon DEF Matches, Follows
      <3> QED BY <3>9, <3>10, Zenon
    <2>4. CASE due
      <3> DEFINE c == Cmd("Key", s.code, s.down)
      <3>1. /\ m = keyEvent(mem, s.code, s.down) /\ s.code \in Nat /\ s.down \in Nat
            /\ journal' = WithEvent(c, mem.clk) /\ ghost'.mark = <<m>>
        BY <1>1, <1>3, <1>5, <1>6, <1>8, <2>4, Zenon DEF m, WithKey
      <3>2. c \in Journaled /\ c.t = "Key"
        BY <3>1, JournaledCmds, Zenon DEF Cmd
      <3>3. c.t # "StateRestore"
        BY <3>2
      <3>4. c \in Cmds
        BY <3>2, <3>3, JournaledCmds, Zenon
      <3> HIDE DEF c
      <3>5. /\ journal' = With(journal, c, mem.clk) /\ journal' \in Journals
            /\ journal'.start = journal.start /\ journal'.end = NoClk
            /\ Restored(journal) => Restored(journal')
        BY <1>8, <3>1, <3>2, <3>3, RecordedIs, Zenon
      <3>6. Kept
        BY <1>6, <2>1, <3>5, Zenon DEF Kept, SnapshotIsAll
      <3>7. PICK R \in SUBSET Replayers : \E fin, mk \in R : Matches(R, fin, mk)
        BY <3>6, Zenon DEF FInv
      <3>8. PICK fin \in R, mk \in R : Matches(R, fin, mk)
        BY <3>7, Zenon
      <3>9. /\ Traced(R, fin, mk, journal) /\ Follows(fin) /\ fin.mem.clk = mem.clk
        BY <1>8, <3>8, Zenon DEF Matches, Follows
      <3>10. PICK e \in Replayers : e = Applied(fin, c)
        BY <3>4, AppliedIs, Zenon
      <3>11. /\ e.mem = MemOf(fin, c) /\ e.box = BoxOf(fin, c) /\ e.btn = BtnOf(fin, c)
        BY <3>4, <3>10, AppliedIs, Zenon
      <3>12. e.mem = m /\ e.box = box /\ (SingleButton => e.btn = hostBtn)
        BY <3>1, <3>9, <3>11, KeyAgrees, ZenonT(30) DEF c
      <3> DEFINE P == R \cup {e}
      <3>13. Traced(P, e, e, journal')
        BY <1>2, <3>2, <3>4, <3>5, <3>9, <3>10, TraceRecords, Zenon
      <3>14. P \in SUBSET Replayers /\ e \in P
        BY Zenon
      <3> HIDE DEF P
      <3>15. PICK f \in Replayers : f = Ran(e)
        BY RanIs, Zenon
      <3> DEFINE Q == P \cup {f}
      <3>16. Traced(Q, f, e, journal')
        BY <2>1, <3>5, <3>12, <3>13, <3>14, <3>15, TraceRuns, Zenon
      <3>17. f.mem = mem' /\ f.box = box' /\ f.btn = e.btn
        BY <1>1, <3>12, <3>15, RanIs, Zenon
      <3>18. Q \in SUBSET Replayers /\ f \in Q /\ e \in Q
        BY <3>14, Zenon
      <3> HIDE DEF Q
      <3>19. Matches(Q, f, e)'
        BY <1>1, <2>2, <3>1, <3>5, <3>12, <3>16, <3>17, Zenon DEF Matches, Follows
      <3> QED BY <3>18, <3>19, Zenon
    <2> QED BY <2>3, <2>4
  <1> QED BY <1>7, <1>8

\* A state is saved or restored (SaveStateSlot::apply()).
LEMMA StateFollows ==
    ASSUME IInv, FInv, ApplyState, rep' = rep
    PROVE  FInv'
  <1>1. /\ phase = "live" /\ journalOn' = journalOn /\ hostBtn' = hostBtn /\ box' = box
        /\ ghost \in Ghosts /\ journal \in Journals /\ slot \in Slots /\ mem \in Guests
    BY Zenon DEF ApplyState, IInv, Typed
  <1>2. PICK file \in {slot.file} \cup (IF "save" \in slot.pending THEN {<<mem>>} ELSE {}) :
              Restores(file) \/ UNCHANGED <<mem, typer, journal, ghost>>
    BY Zenon DEF ApplyState
  <1>3. CASE UNCHANGED <<mem, typer, journal, ghost>>
    <2>1. mem' = mem /\ journal' = journal /\ ghost' = ghost
      BY <1>3
    <2>2. Kept' => Kept
      BY <2>1, Zenon DEF Kept, SnapshotIsAll
    <2> QED BY <1>1, <2>1, <2>2, SameFollows, Zenon
  <1>4. CASE Restores(file)
    <2>1. /\ file # <<>> /\ mem' = file[1]
          /\ journal' = WithEvent(Marker, mem'.clk)
          /\ ghost' = [Marked(mem') EXCEPT !.kept = mem'.keys]
      BY <1>4, Zenon DEF Restores
    <2>2. CASE journalOn
      <3> DEFINE clk == mem'.clk
      <3>1. mem' \in Guests
        <4>1. <<mem>> \in Seq(Guests) /\ slot.file \in Seq(Guests)
          BY <1>1 DEF Slots
        <4>2. file \in Seq(Guests)
          BY <1>2, <4>1, Zenon
        <4> QED BY <2>1, <4>2
      <3>2. clk \in Nat
        BY <3>1, Zenon DEF Guests, Guest
      <3>3. journal' = With(journal, Marker, clk)
        BY <2>1, <2>2, Zenon DEF WithEvent, With
      <3> HIDE DEF clk
      <3>4. Restored(journal')
        BY <1>1, <3>2, <3>3, JournaledCmds, WithKeeps, Zenon
      <3> QED BY <3>4, Zenon DEF FInv, Kept
    <2>3. CASE ~journalOn
      <3> DEFINE k == mem'.keys
      <3>1. journal' = journal /\ ghost' = [ghost EXCEPT !.kept = k]
        BY <2>1, <2>3, Zenon DEF WithEvent, Marked
      <3> HIDE DEF k
      <3>2. /\ ghost'.mark = ghost.mark /\ ghost'.final = ghost.final
            /\ ghost'.held = ghost.held /\ ghost'.box = ghost.box
            /\ ghost'.pressed = ghost.pressed
        BY <1>1, <3>1, Zenon DEF Ghosts
      <3>3. Kept' => Kept
        BY <3>1, <3>2, Zenon DEF Kept, SnapshotIsAll
      <3> QED BY <1>1, <2>3, <3>1, <3>2, <3>3, SameFollows, Zenon
    <2> QED BY <2>2, <2>3
  <1> QED BY <1>2, <1>3, <1>4

\* Every step of the host.
LEMMA HostFollows ==
    ASSUME IInv, IInv', FInv, ArmsAlike, HostNext, rep' = rep
    PROVE  FInv'
  <1>1. CASE Gui \/ Swap \/ EndTick
    <2>1. /\ journal' = journal /\ ghost' = ghost /\ journalOn' = journalOn
          /\ mem' = mem /\ box' = box /\ hostBtn' = hostBtn
      <3>1. CASE Gui
        <4>1. Posting
          BY <3>1, Zenon DEF Gui, push, requestRecording, requestState, SetRunning
        <4> QED BY <4>1, Zenon DEF Posting, guestVars, fileVars
      <3>2. CASE Swap \/ EndTick
        BY <3>2, Zenon DEF Swap, EndTick, guestVars, fileVars
      <3> QED BY <1>1, <3>1, <3>2
    <2>2. Kept' => Kept
      BY <2>1, Zenon DEF Kept, SnapshotIsAll
    <2> QED BY <2>1, <2>2, SameFollows, Zenon
  <1>2. CASE processRecordingRequests
    <2>1. /\ phase = "live" /\ mem' = mem /\ box' = box /\ hostBtn' = hostBtn
          /\ \/ journalOn /\ Finish
             \/ journalOn' = journalOn /\ journal' = journal /\ ghost' = ghost
      BY <1>2, Zenon DEF processRecordingRequests, guestVars, fileVars
    <2>2. CASE journalOn /\ Finish
      BY <2>1, <2>2, FinishFollows, Zenon
    <2>3. CASE journalOn' = journalOn /\ journal' = journal /\ ghost' = ghost
      <3>1. Kept' => Kept
        BY <2>3, Zenon DEF Kept, SnapshotIsAll
      <3> QED BY <2>1, <2>3, <3>1, SameFollows, Zenon
    <2> QED BY <2>1, <2>2, <2>3
  <1>3. CASE OpenJournal \/ WriteSnapshot
    <2>1. /\ mem' = mem /\ box' = box /\ hostBtn' = hostBtn /\ journalOn' = journalOn
          /\ ghost' = ghost
      BY <1>3, Zenon DEF OpenJournal, WriteSnapshot, StartStep, guestVars
    <2>2. NoJournal.start = NoClk /\ [NoJournal EXCEPT !.header = TRUE].start = NoClk
      BY DEF NoJournal
    <2>3. journal' = journal \/ journal'.start = NoClk
      <3>1. CASE OpenJournal
        BY <2>2, <3>1, Zenon DEF OpenJournal
      <3>2. CASE WriteSnapshot
        <4> DEFINE f == <<mem>>
        <4>1. pc = "snap" /\ (journal' = NoJournal \/ journal' = [journal EXCEPT !.snap = f])
          BY <3>2, Zenon DEF WriteSnapshot, StartStep
        <4>2. pc \in {"snap", "begin"} /\ journal \in Journals
          BY <4>1 DEF IInv, Typed
        <4>3. journal.start = NoClk
          BY <4>2, Zenon DEF IInv, Placed
        <4> HIDE DEF f
        <4>4. [journal EXCEPT !.snap = f].start = NoClk
          BY <4>2, <4>3, Zenon DEF Journals
        <4> QED BY <2>2, <4>1, <4>4, Zenon
      <3> QED BY <1>3, <3>1, <3>2
    <2>4. CASE journal' = journal
      <3>1. Kept' => Kept
        BY <2>1, <2>4, Zenon DEF Kept, SnapshotIsAll
      <3> QED BY <2>1, <2>4, <3>1, SameFollows, Zenon
    <2>5. CASE journal'.start = NoClk
      BY <2>5, Zenon DEF FInv, Kept
    <2> QED BY <2>3, <2>4, <2>5
  <1>4. CASE BeginRecording
    BY <1>4, BeginFollows, Zenon
  <1>5. CASE ApplyCmd
    BY <1>5, CmdFollows, Zenon
  <1>6. CASE ApplyState
    BY <1>6, StateFollows, Zenon
  <1>7. CASE quantum
    BY <1>7, QuantumFollows, Zenon
  <1>8. CASE stop \/ Die
    <2>1. /\ phase = "live"
          /\ \/ journalOn /\ Finish
             \/ ~journalOn' /\ journal' = journal /\ ghost' = ghost
      BY <1>8, Zenon DEF stop, Die, fileVars
    <2>2. CASE journalOn /\ Finish
      BY <2>1, <2>2, FinishFollows, Zenon
    <2>3. CASE ~journalOn' /\ journal' = journal /\ ghost' = ghost
      <3>1. Kept' => Kept
        BY <2>3, Zenon DEF Kept, SnapshotIsAll
      <3> QED BY <2>3, <3>1, SameFollows, Zenon
    <2> QED BY <2>1, <2>2, <2>3
  <1> QED BY <1>1, <1>2, <1>3, <1>4, <1>5, <1>6, <1>7, <1>8, Zenon DEF HostNext, Thread

\* What FInv says of a replayer at work.
LEMMA ReplayerFollows ==
    ASSUME IInv, rep.st = "run", NEW R \in SUBSET Replayers, NEW fin \in R, NEW mk \in R,
           Matches(R, fin, mk)
    PROVE  /\ rep \in R /\ OnTrace(rep, R, fin, mk, journal)
           /\ \A s \in R : OnTrace(s, R, fin, mk, journal)
           /\ fin.i = Len(journal.events) + 1 /\ mk.i = Len(journal.events) + 1
           /\ mk.mem.clk = LastClk(journal)
           /\ journal.end # NoClk => endClk = fin.mem.clk
           /\ journal.end = NoClk => endClk = mk.mem.clk
           /\ journal.end = NoClk /\ rep.i = Len(journal.events) + 1 => rep = mk
           /\ fin.mem.clk \in Nat /\ mk.mem.clk \in Nat
  <1>1. /\ rep \in R /\ Traced(R, fin, mk, journal)
        /\ journal.end # NoClk => fin.mem.clk = journal.end
        /\ journal.end = NoClk /\ rep.i = Len(journal.events) + 1 => rep = mk
    BY Zenon DEF Matches
  <1>2. /\ \A s \in R : OnTrace(s, R, fin, mk, journal)
        /\ fin.i = Len(journal.events) + 1 /\ mk.i = Len(journal.events) + 1
        /\ mk.mem.clk = LastClk(journal)
    BY <1>1, Zenon DEF Traced
  <1>3. fin.mem.clk \in Nat /\ mk.mem.clk \in Nat
    BY ReplayerIs, Zenon
  <1>4. EventClk(Len(journal.events)) = LastClk(journal)
    BY Zenon DEF EventClk, LastClk
  <1>5. /\ journal.end # NoClk => endClk = fin.mem.clk
        /\ journal.end = NoClk => endClk = mk.mem.clk
    BY <1>1, <1>2, <1>4, Zenon DEF endClk
  <1> QED BY <1>1, <1>2, <1>3, <1>5, Zenon

\* A replay step, seen from the trace: only the replayer moves.
LEMMA MovedFollows ==
    ASSUME UNCHANGED vars, NEW R \in SUBSET Replayers, NEW fin \in R, NEW mk \in R,
           Matches(R, fin, mk),
           rep'.st = "run" =>
               /\ rep' \in R
               /\ journal.end = NoClk /\ rep'.i = Len(journal.events) + 1 => rep' = mk
    PROVE  FInv'
  <1>1. /\ journal' = journal /\ ghost' = ghost /\ journalOn' = journalOn
        /\ mem' = mem /\ box' = box /\ hostBtn' = hostBtn
    BY ReplayIs
  <1>2. Matches(R, fin, mk)'
    BY <1>1, Zenon DEF Matches, Follows
  <1> QED BY <1>2, Zenon DEF FInv

\* The journal is loaded: the replay is where its trace begins.
LEMMA LoadFollows ==
    ASSUME IInv, FInv, loadInputJournal
    PROVE  FInv' /\ ReplayFaithful'
  <1>1. /\ UNCHANGED vars
        /\ rep' = IF Loads THEN Started(journal) ELSE [Idle EXCEPT !.st = "refused"]
    BY Zenon DEF loadInputJournal
  <1>2. /\ Started(journal).i = 1 /\ Started(journal).st = "run"
        /\ [Idle EXCEPT !.st = "refused"].st = "refused"
    BY DEF Started, Idle
  <1>3. ReplayFaithful'
    BY <1>1, <1>2 DEF ReplayFaithful
  <1>4. /\ journal' = journal /\ ghost' = ghost
    BY <1>1, ReplayIs, Zenon
  <1>5. ASSUME Kept' PROVE FInv'
    <2>1. Kept
      BY <1>4, <1>5, Zenon DEF Kept, SnapshotIsAll
    <2>2. PICK R \in SUBSET Replayers : \E fin, mk \in R : Matches(R, fin, mk)
      BY <2>1, Zenon DEF FInv
    <2>3. PICK fin \in R, mk \in R : Matches(R, fin, mk)
      BY <2>2, Zenon
    <2>4. Traced(R, fin, mk, journal) /\ journal \in Journals
      BY <2>3, Zenon DEF Matches, IInv, Typed
    <2> DEFINE s == Started(journal)
    <2>5. /\ s \in R /\ s.mem.clk = journal.start /\ mk.mem.clk = LastClk(journal)
          /\ OnTrace(s, R, fin, mk, journal)
      BY <2>4, Zenon DEF Traced
    <2>6. ASSUME s.i = Len(journal.events) + 1 PROVE s = mk
      <3>1. s = mk \/ mk.mem.clk < s.mem.clk
        BY <2>5, <2>6, Zenon DEF OnTrace
      <3>2. Len(journal.events) = 0
        <4>1. Len(journal.events) \in Nat /\ s.i = 1
          BY <1>2, <2>4, JournalIs, Zenon
        <4> QED BY <2>6, <4>1
      <3>3. mk.mem.clk = s.mem.clk
        BY <2>5, <3>2, Zenon DEF LastClk
      <3>4. s.mem.clk \in Nat
        BY <2>5, ReplayerIs, Zenon
      <3> QED BY <3>1, <3>3, <3>4
    <2>7. rep'.st = "run" => rep' = s
      BY <1>1, <1>2
    <2>8. rep'.st = "run" =>
               /\ rep' \in R
               /\ journal.end = NoClk /\ rep'.i = Len(journal.events) + 1 => rep' = mk
      BY <2>5, <2>6, <2>7, Zenon
    <2> QED BY <1>1, <2>3, <2>8, MovedFollows
  <1>6. FInv'
    BY <1>5, Zenon DEF FInv
  <1> QED BY <1>3, <1>6

\* An event is applied: the replayer takes the next step of the trace.
LEMMA EventFollows ==
    ASSUME IInv, FInv, ReplayEvent
    PROVE  FInv' /\ ReplayFaithful'
  <1> DEFINE c == journal.events[rep.i].cmd
             l == Len(journal.events)
  <1>1. /\ rep.st = "run" /\ IsDue(journal, rep) /\ UNCHANGED vars
        /\ rep' = IF Refuses(c) THEN [rep EXCEPT !.st = "failed"] ELSE Applied(rep, c)
    BY Zenon DEF ReplayEvent
  <1>2. /\ rep \in Replayers /\ journal \in Journals /\ rep.i \in Nat /\ rep.i >= 1
        /\ rep.mem.clk \in Nat /\ l \in Nat /\ DOMAIN journal.events = 1..l
    BY <1>1, RunIs, Zenon
  <1>3. rep.i <= l
    BY <1>1, Zenon DEF IsDue
  <1>4. rep.i \in DOMAIN journal.events
    BY <1>2, <1>3
  <1>5. c \in Journaled /\ journal.events[rep.i].clk \in Nat
    BY <1>2, <1>4, JournalIs, Zenon
  <1>6. journal' = journal /\ ghost' = ghost
    BY <1>1, ReplayIs, Zenon
  <1>7. CASE c.t = "StateRestore"
    <2> DEFINE t == "failed"
    <2>1. rep' = [rep EXCEPT !.st = t] /\ t # "done" /\ t # "run"
      BY <1>1, <1>7 DEF Refuses
    <2> HIDE DEF t
    <2>2. rep'.st = t
      BY <1>2, <2>1, Zenon DEF Replayers
    <2>3. ReplayFaithful'
      BY <2>1, <2>2, Zenon DEF ReplayFaithful
    <2>4. Restored(journal')
      BY <1>4, <1>6, <1>7, Zenon DEF Restored
    <2>5. FInv'
      BY <2>4, Zenon DEF FInv, Kept
    <2> QED BY <2>3, <2>5
  <1>8. CASE c.t # "StateRestore"
    <2>1. c \in Cmds /\ ~Refuses(c)
      BY <1>5, <1>8, JournaledCmds, Zenon
    <2>2. rep' = Applied(rep, c)
      BY <1>1, <2>1, Zenon
    <2>3. rep'.st = rep.st /\ rep'.i = rep.i + 1 /\ rep'.mem.clk = rep.mem.clk
      <3> HIDE DEF c
      <3> QED BY <1>2, <2>1, <2>2, AppliedIs, Zenon
    <2>4. ReplayFaithful'
      BY <1>1, <2>3 DEF ReplayFaithful
    <2>5. ASSUME Kept' PROVE FInv'
      <3>1. Kept
        BY <1>6, <2>5, Zenon DEF Kept, SnapshotIsAll
      <3>2. PICK R \in SUBSET Replayers : \E fin, mk \in R : Matches(R, fin, mk)
        BY <3>1, Zenon DEF FInv
      <3>3. PICK fin \in R, mk \in R : Matches(R, fin, mk)
        BY <3>2, Zenon
      <3>4. /\ rep \in R /\ OnTrace(rep, R, fin, mk, journal)
            /\ \A s \in R : OnTrace(s, R, fin, mk, journal)
            /\ fin.i = l + 1 /\ mk.mem.clk = LastClk(journal)
        BY <1>1, <3>3, ReplayerFollows, Zenon
      <3>5. rep # fin
        BY <1>2, <1>3, <3>4
      <3>6. rep' \in R
        <4>1. Then(journal, rep) = rep'
          BY <1>1, <2>2, Zenon DEF Then
        <4> QED BY <3>4, <3>5, <4>1, Zenon DEF OnTrace
      <3>7. ASSUME rep'.i = l + 1 PROVE rep' = mk
        <4>1. rep' = mk \/ mk.mem.clk < rep'.mem.clk
          BY <3>4, <3>6, <3>7, Zenon DEF OnTrace
        <4>2. rep.i = l /\ l # 0
          BY <1>2, <1>3, <2>3, <3>7
        <4>3. mk.mem.clk = journal.events[rep.i].clk
          BY <3>4, <4>2, Zenon DEF LastClk
        <4>4. rep.mem.clk <= journal.events[rep.i].clk
          BY <1>3, <3>4, Zenon DEF OnTrace
        <4>5. ~(mk.mem.clk < rep'.mem.clk)
          BY <1>2, <1>5, <2>3, <4>3, <4>4, SMTT(30)
        <4> QED BY <4>1, <4>5
      <3> QED BY <1>1, <3>3, <3>6, <3>7, MovedFollows, Zenon
    <2>6. FInv'
      BY <2>5, Zenon DEF FInv
    <2> QED BY <2>4, <2>6
  <1> QED BY <1>7, <1>8

\* A quantum of the replay: it is the recorded one, and the clock moves.
LEMMA ReplayQuantumFollows ==
    ASSUME IInv, FInv, ReplayQuantum
    PROVE  FInv' /\ ReplayFaithful'
  <1> DEFINE m == GuestAfter(rep.mem, rep.box)
             x == BoxAfter(rep.mem, rep.box)
             stalls == IF m.clk = rep.mem.clk THEN rep.stalls + 1 ELSE 0
             t == IF stalls > MaxStalls THEN "failed" ELSE rep.st
             l == Len(journal.events)
  <1>1. /\ rep.st = "run" /\ ~IsDue(journal, rep) /\ rep.mem.clk < endClk
        /\ UNCHANGED vars
        /\ rep' = [rep EXCEPT !.mem = m, !.box = x, !.stalls = stalls, !.st = t]
    BY Zenon DEF ReplayQuantum
  <1>2. /\ rep \in Replayers /\ journal \in Journals /\ rep.mem.clk \in Nat
        /\ rep.mem \in Guests /\ rep.box \in Boxes
    BY <1>1, RunIs, Zenon
  <1>3. journal' = journal /\ ghost' = ghost
    BY <1>1, ReplayIs, Zenon
  <1>4. t \in {"run", "failed"}
    BY <1>1
  <1>5. ReplayFaithful'
    <2> HIDE DEF t, stalls, m, x
    <2>1. rep'.st = t
      BY <1>1, <1>2, Zenon DEF Replayers
    <2> QED BY <1>4, <2>1 DEF ReplayFaithful
  <1>6. ASSUME Kept' PROVE FInv'
    <2>1. Kept
      BY <1>3, <1>6, Zenon DEF Kept, SnapshotIsAll
    <2>2. PICK R \in SUBSET Replayers : \E fin, mk \in R : Matches(R, fin, mk)
      BY <2>1, Zenon DEF FInv
    <2>3. PICK fin \in R, mk \in R : Matches(R, fin, mk)
      BY <2>2, Zenon
    <2>4. /\ rep \in R /\ OnTrace(rep, R, fin, mk, journal)
          /\ fin.i = l + 1
          /\ journal.end # NoClk => endClk = fin.mem.clk
          /\ journal.end = NoClk => endClk = mk.mem.clk
          /\ journal.end = NoClk /\ rep.i = l + 1 => rep = mk
      BY <1>1, <2>3, ReplayerFollows, Zenon
    <2>5. ~(rep.mem.clk < rep.mem.clk)
      BY <1>2
    <2>6. /\ ~(journal.end = NoClk /\ rep.i = l + 1)
          /\ rep # fin
      BY <1>1, <2>4, <2>5, Zenon
    <2>7. Then(journal, rep) \in R /\ rep.mem.hold = 0 /\ rep.stalls = 0
      BY <1>1, <2>4, <2>6, Zenon DEF OnTrace
    <2>8. Then(journal, rep) = Ran(rep)
      BY <1>1, Zenon DEF Then
    <2>9. m.clk = rep.mem.clk + 1
      BY <1>2, <2>7, AfterKeeps, SMTT(30)
    <2>10. stalls = rep.stalls
      BY <1>2, <2>7, <2>9, SMTT(30)
    <2>11. t = rep.st
      BY <2>7, <2>10, StallsOK
    <2> HIDE DEF m, x, t, stalls
    <2>12. rep' = Ran(rep)
      <3>1. rep' = [rep EXCEPT !.mem = m, !.box = x, !.stalls = rep.stalls, !.st = rep.st]
        BY <1>1, <2>10, <2>11, Zenon
      <3>2. Ran(rep) = [rep EXCEPT !.mem = m, !.box = x]
        BY DEF Ran, m, x
      <3> QED BY <1>2, <3>1, <3>2, Zenon DEF Replayers
    <2>13. rep'.i = rep.i
      BY <1>2, <2>12, RanIs, Zenon
    <2> QED BY <1>1, <2>3, <2>6, <2>7, <2>8, <2>12, <2>13, MovedFollows, SMTT(30)
  <1>7. FInv'
    BY <1>6, Zenon DEF FInv
  <1> QED BY <1>5, <1>7

\* A replay ends: in the recorded machine.
LEMMA EndFollows ==
    ASSUME IInv, IInv', FInv, ReplayEnds
    PROVE  FInv' /\ ReplayFaithful'
  <1> DEFINE l == Len(journal.events)
             t == IF rep.i > l THEN "done" ELSE "failed"
  <1>1. /\ rep.st = "run" /\ UNCHANGED vars /\ rep.mem.clk >= endClk
        /\ rep' = [rep EXCEPT !.st = t]
    BY Zenon DEF ReplayEnds
  <1>2. /\ rep \in Replayers /\ rep.i <= l + 1 /\ rep.i \in Nat /\ l \in Nat
        /\ rep.mem.clk \in Nat
    BY <1>1, RunIs, Zenon
  <1>3. journal' = journal /\ ghost' = ghost
    BY <1>1, ReplayIs, Zenon
  <1>4. t # "run" /\ (t = "done" => rep.i > l)
    OBVIOUS
  <1>5. rep'.st = t /\ rep'.mem = rep.mem
    <2> HIDE DEF t
    <2> QED BY <1>1, <1>2, Zenon DEF Replayers
  <1> HIDE DEF t
  <1>6. FInv'
    <2>1. ASSUME Kept' PROVE FInv'
      <3>1. Kept
        BY <1>3, <2>1, Zenon DEF Kept, SnapshotIsAll
      <3>2. PICK R \in SUBSET Replayers : \E fin, mk \in R : Matches(R, fin, mk)
        BY <3>1, Zenon DEF FInv
      <3>3. PICK fin \in R, mk \in R : Matches(R, fin, mk)
        BY <3>2, Zenon
      <3> QED BY <1>1, <1>4, <1>5, <3>3, MovedFollows
    <2> QED BY <2>1, Zenon DEF FInv
  <1>7. ReplayFaithful'
    <2> SUFFICES ASSUME rep'.st = "done", SnapshotIsAll' PROVE rep'.mem = Recorded'
      BY DEF ReplayFaithful
    <2>1. Kept
      <3>1. Complete' /\ (SnapshotIsAll' => SnapshotIsAll)
        BY <1>3, Zenon DEF IInv, SnapshotIsAll
      <3> QED BY <1>3, <3>1, Zenon DEF Complete, Kept
    <2>2. PICK R \in SUBSET Replayers : \E fin, mk \in R : Matches(R, fin, mk)
      BY <2>1, Zenon DEF FInv
    <2>3. PICK fin \in R, mk \in R : Matches(R, fin, mk)
      BY <2>2, Zenon
    <2>4. /\ OnTrace(rep, R, fin, mk, journal)
          /\ journal.end # NoClk => endClk = fin.mem.clk
          /\ journal.end = NoClk /\ rep.i = l + 1 => rep = mk
          /\ fin.mem.clk \in Nat
      BY <1>1, <2>3, ReplayerFollows, Zenon
    <2>5. rep.i = l + 1
      BY <1>2, <1>4, <1>5
    <2>6. rep = fin \/ rep.mem.clk < fin.mem.clk
      BY <2>4, <2>5, Zenon DEF OnTrace
    <2>7. CASE journal.end = NoClk
      <3>1. rep = mk /\ ghost.mark = <<mk.mem>>
        BY <2>3, <2>4, <2>5, <2>7, Zenon DEF Matches
      <3>2. ghost.mark[1] = rep.mem
        BY <3>1
      <3> QED BY <1>3, <1>5, <2>7, <3>2, Zenon DEF Recorded
    <2>8. CASE journal.end # NoClk
      <3>1. rep = fin
        BY <1>1, <1>2, <2>4, <2>6, <2>8
      <3>2. ghost.final = <<fin.mem>>
        BY <2>3, <2>8, Zenon DEF Matches
      <3>3. ghost.final[1] = rep.mem
        BY <3>1, <3>2
      <3> QED BY <1>3, <1>5, <2>8, <3>3, Zenon DEF Recorded
    <2> QED BY <2>7, <2>8
  <1> QED BY <1>6, <1>7

LEMMA StepFollows ==
    ASSUME IInv, IInv', FInv, ReplayFaithful, ArmsAlike, [Next]_allVars
    PROVE  FInv' /\ ReplayFaithful'
  <1>1. ASSUME HostNext, rep' = rep PROVE FInv' /\ ReplayFaithful'
    <2>1. phase = "live"
      BY <1>1, Zenon DEF HostNext, Thread, Gui, Swap, processRecordingRequests,
           OpenJournal, WriteSnapshot, BeginRecording, StartStep, ApplyCmd, ApplyState,
           quantum, EndTick, push, requestRecording, requestState, SetRunning, Posting,
           stop, Die
    <2>2. rep'.st = "idle"
      BY <1>1, <2>1, IdleKeeps, Zenon
    <2>3. ReplayFaithful'
      BY <2>2 DEF ReplayFaithful
    <2> QED BY <1>1, <2>3, HostFollows
  <1>2. CASE Replay
    BY <1>2, LoadFollows, EventFollows, ReplayQuantumFollows, EndFollows, Zenon DEF Replay
  <1>3. CASE UNCHANGED allVars
    <2>1. UNCHANGED vars /\ rep' = rep
      BY <1>3, Zenon DEF allVars
    <2>2. /\ journal' = journal /\ ghost' = ghost /\ journalOn' = journalOn
          /\ mem' = mem /\ box' = box /\ hostBtn' = hostBtn
      BY <2>1, ReplayIs
    <2>3. Kept' => Kept
      BY <2>2, Zenon DEF Kept, SnapshotIsAll
    <2>4. FInv'
      BY <2>1, <2>2, <2>3, SameFollows
    <2>5. ReplayFaithful'
      BY <2>1, <2>2, Zenon DEF ReplayFaithful, SnapshotIsAll, Recorded
    <2> QED BY <2>4, <2>5
  <1> QED BY <1>1, <1>2, <1>3, Zenon DEF Next

LEMMA InitFollows ==
    ASSUME ReplayInit
    PROVE  FInv /\ ReplayFaithful
  <1>1. journal = NoJournal /\ rep = Idle
    BY Zenon DEF ReplayInit, Init
  <1>2. journal.start = NoClk
    BY <1>1 DEF NoJournal
  <1>3. rep.st # "done"
    BY <1>1 DEF Idle
  <1> QED BY <1>2, <1>3, Zenon DEF FInv, Kept, ReplayFaithful

-----------------------------------------------------------------------------
(* Naturals and finite sets of codes.                                      *)

INSTANCE FiniteSetTheorems

LEMMA LeastHolds == Least
  <1> SUFFICES ASSUME NEW T \in SUBSET Nat, T # {}
               PROVE  \E n \in T : \A k \in T : n <= k
    BY DEF Least
  <1> DEFINE R == OpToRel(<, Nat)
  <1>1. IsWellFoundedOn(R, Nat)
    BY NatLessThanWellFounded, Zenon
  <1>2. \E n \in T : \A k \in T : ~(<<k, n>> \in R)
    <2> HIDE DEF R
    <2> QED BY <1>1, WFMin, Zenon
  <1>3. PICK n \in T : \A k \in T : ~(<<k, n>> \in R)
    BY <1>2, Zenon
  <1>4. ASSUME NEW k \in T PROVE n <= k
    <2>1. <<k, n>> \in Nat \X Nat
      OBVIOUS
    <2>2. ~(k < n)
      BY <1>3, <2>1 DEF OpToRel
    <2> QED BY <2>2
  <1> QED BY <1>4

\* Counting the smaller codes numbers the codes of a set from 0 upwards.
LEMMA CountedHolds == Counted
  <1> SUFFICES ASSUME NEW S \in SUBSET (0..(kCodes - 1))
               PROVE  /\ Cardinality(S) \in Nat
                      /\ \A c \in S : Below(S, c) \in 0..(Cardinality(S) - 1)
                      /\ \A b, c \in S : Below(S, b) = Below(S, c) => b = c
                      /\ \A n \in 0..(Cardinality(S) - 1) :
                            \E c \in S : Below(S, c) = n
    BY Zenon DEF Counted
  <1> DEFINE D(c) == {d \in S : d < c}
  <1>1. S \subseteq Int
    BY DEF kCodes
  <1>2. IsFiniteSet(S)
    <2> DEFINE top == kCodes - 1
    <2>1. top \in Int /\ 0 \in Int
      BY DEF kCodes
    <2> HIDE DEF top
    <2>2. IsFiniteSet(0..top)
      BY <2>1, FS_Interval, Zenon
    <2> QED BY <2>2, FS_Subset, Zenon DEF top
  <1>3. Cardinality(S) \in Nat
    BY <1>2, FS_CardinalityType, Zenon
  <1>4. ASSUME NEW c \in S
        PROVE  /\ IsFiniteSet(D(c)) /\ Below(S, c) = Cardinality(D(c))
               /\ Below(S, c) \in Nat
    <2>1. D(c) \in SUBSET S
      BY Zenon
    <2>2. Below(S, c) = Cardinality(D(c))
      BY Zenon DEF Below
    <2> HIDE DEF D
    <2>3. IsFiniteSet(D(c))
      BY <1>2, <2>1, FS_Subset, Zenon
    <2> QED BY <2>2, <2>3, FS_CardinalityType, Zenon
  <1>5. ASSUME NEW c \in S
        PROVE  Below(S, c) \in 0..(Cardinality(S) - 1)
    <2> DEFINE T == S \ {c}
    <2>1. D(c) \in SUBSET T
      BY <1>1
    <2>2. IsFiniteSet(T)
          /\ Cardinality(T) = IF c \in S THEN Cardinality(S) - 1 ELSE Cardinality(S)
      BY <1>2, FS_RemoveElement, Zenon
    <2> HIDE DEF T, D
    <2>3. Cardinality(D(c)) <= Cardinality(T)
      BY <2>1, <2>2, FS_Subset, Zenon
    <2>4. Below(S, c) <= Cardinality(S) - 1 /\ Below(S, c) \in Nat
      BY <1>4, <2>2, <2>3, Zenon
    <2> QED BY <1>3, <2>4
  <1>6. ASSUME NEW b \in S, NEW c \in S, b < c
        PROVE  Below(S, b) < Below(S, c)
    <2>1. (D(b) \cup {b}) \in SUBSET D(c) /\ b \notin D(b)
      <3>1. b \in Int /\ c \in Int /\ ~(b < b)
        BY <1>1
      <3>2. \A d \in S : d < b => d < c
        BY <1>1, <1>6, <3>1, SMTT(30)
      <3> QED BY <1>6, <3>1, <3>2, Zenon
    <2>2. /\ IsFiniteSet(D(b)) /\ Below(S, b) = Cardinality(D(b))
          /\ Below(S, b) \in Nat
      BY <1>4, Zenon
    <2>3. /\ IsFiniteSet(D(c)) /\ Below(S, c) = Cardinality(D(c))
          /\ Below(S, c) \in Nat
      BY <1>4, Zenon
    <2> DEFINE B == D(b)
               C == D(c)
    <2>4. b \notin B /\ IsFiniteSet(B) /\ (B \cup {b}) \in SUBSET C
          /\ IsFiniteSet(C)
      BY <2>1, <2>2, <2>3, Zenon
    <2> HIDE DEF B, C
    <2>5. Cardinality(B \cup {b}) =
              IF b \in B THEN Cardinality(B) ELSE Cardinality(B) + 1
      BY <2>4, FS_AddElement, Zenon
    <2>6. Cardinality(B \cup {b}) <= Cardinality(C)
      BY <2>4, FS_Subset, Zenon
    <2>7. Cardinality(B) = Below(S, b) /\ Cardinality(C) = Below(S, c)
      BY <2>2, <2>3, Zenon DEF B, C
    <2> QED BY <2>2, <2>3, <2>4, <2>5, <2>6, <2>7, SMTT(30)
  <1>7. ASSUME NEW b \in S, NEW c \in S, Below(S, b) = Below(S, c)
        PROVE  b = c
    <2>1. b \in Int /\ c \in Int /\ Below(S, b) \in Nat
      BY <1>1, <1>4, Zenon
    <2>2. ~(b < c) /\ ~(c < b)
      BY <1>6, <1>7, <2>1, SMTT(30)
    <2> QED BY <2>1, <2>2
  <1>8. ASSUME NEW n \in 0..(Cardinality(S) - 1)
        PROVE  \E c \in S : Below(S, c) = n
    <2> DEFINE top == Cardinality(S) - 1
               T == 0..top
               f == [c \in S |-> Below(S, c)]
    <2>1. f \in [S -> T]
      BY <1>5, Zenon
    <2>2. \A b, c \in S : f[b] = f[c] => b = c
      BY <1>7
    <2>3. f \in Injection(S, T)
      <3> HIDE DEF f, T
      <3> QED BY <2>1, <2>2, Zenon DEF Injection, IsInjective
    <2>4. top \in Int /\ 0 \in Int /\ top - 0 + 1 = Cardinality(S)
          /\ (0 > top => Cardinality(S) = 0)
      BY <1>3
    <2> HIDE DEF top
    <2>5. IsFiniteSet(T) /\ Cardinality(T) = IF 0 > top THEN 0 ELSE top - 0 + 1
      BY <2>4, FS_Interval, Zenon
    <2>6. Cardinality(T) = Cardinality(S)
      BY <2>4, <2>5, Zenon
    <2>7. f \in Surjection(S, T)
      <3> HIDE DEF f, T
      <3> QED BY <2>3, <2>5, <2>6, FS_Injection, Zenon
    <2>8. n \in T
      BY <1>8 DEF top
    <2>9. \E c \in S : f[c] = n
      <3> HIDE DEF f, T
      <3> QED BY <2>7, <2>8, Zenon DEF Surjection
    <2> QED BY <2>9
  <1> QED BY <1>3, <1>5, <1>7, <1>8, Zenon

-----------------------------------------------------------------------------
(* What a recording promises.                                              *)

\* The types, the place of the recording, its order, the keys held down and the
\* replay's progress hold together, in every interleaving of the GUI, the machine
\* thread, the end of the process and the replay.
THEOREM RecordingInvariant == Spec => []IInv
  <1>1. ReplayInit => IInv
    BY InitKeeps, Zenon
  <1>2. IInv /\ [Next]_allVars => IInv'
    BY LeastHolds, CountedHolds, StepKeeps, Zenon
  <1> QED BY <1>1, <1>2, PTL DEF Spec

\* The guest, the queues and the recording keep their types, and a refused
\* detach waits again at most kDetachRetries times, for every set of commands
\* the GUI may push.
THEOREM TypesHold == Spec => []TypeOK
  <1>1. IInv => TypeOK
    BY InvariantImplies, Zenon
  <1> QED BY <1>1, RecordingInvariant, PTL

\* A recording that began and saw no restore is never refused, neither by
\* loadInputJournal() nor half-way through replayJournal(): its stamps never
\* run backwards and a replay never waits longer than a reset holds the CPU.
THEOREM RecordingsHold == Spec => []RecordingsReplay
  <1>1. IInv => RecordingsReplay
    BY InvariantImplies, Zenon
  <1> QED BY <1>1, RecordingInvariant, PTL

\* Once the typer is idle no key it pressed is down, whatever texts were
\* queued, cancelled or cut short by a restore (planTyping(), cancel(), poll()).
THEOREM KeysReleased == Spec => []TypedKeysReleased
  <1>1. IInv => TypedKeysReleased
    BY InvariantImplies, Zenon
  <1> QED BY <1>1, RecordingInvariant, PTL

\* A replay that says it reached the end has rebuilt exactly the recorded
\* machine, whatever the session interleaved, as long as the snapshot holds all
\* there was and the arms of the two sides agree on what was pushed.
THEOREM ReplaysAreFaithful ==
    ASSUME ArmsAlike
    PROVE  Spec => []ReplayFaithful
  <1>1. ReplayInit => FInv /\ ReplayFaithful
    BY InitFollows, Zenon
  <1>2. /\ IInv /\ IInv' /\ FInv /\ ReplayFaithful /\ [Next]_allVars
        => FInv' /\ ReplayFaithful'
    BY StepFollows, Zenon
  <1> QED BY <1>1, <1>2, RecordingInvariant, PTL DEF Spec

=============================================================================
