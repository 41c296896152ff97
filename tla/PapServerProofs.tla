-------------------------- MODULE PapServerProofs ---------------------------
(***************************************************************************)
(* What the LaserWriter spools is what was printed, once: the client's     *)
(* steps keep the inductive invariant of PapServer, and the theorems that  *)
(* follow.                                                                 *)
(***************************************************************************)
EXTENDS PapServerHandler
-----------------------------------------------------------------------------
(* The client's steps.                                                     *)

(* The client says nothing that is of consequence, or forgets everything.  *)
LEMMA RelOrder ==
    ASSUME IInv, NEW q \in Seq(Wire), \A p \in Range(q) : ~IsPacket(p) /\ ~IsOpen(p),
           up' = up \o q
    PROVE  up' \in Seq(Wire) /\ Up' = Up \cup Range(q) /\ UpOrder'
<1>1. up \in Seq(Wire) /\ UpOrder
  BY Zenon DEF IInv, Types, OrderInv
<1>2. /\ up' \in Seq(Wire) /\ Up' = Up \cup Range(q)
      /\ \A i \in DOMAIN up' : \/ i \in DOMAIN up /\ up'[i] = up[i]
                               \/ i \notin DOMAIN up /\ up'[i] \in Range(q)
  BY <1>1, JoinedWires DEF Up
<1>3. UpOrder'
  BY <1>1, <1>2, ZenonT(30) DEF UpOrder
<1> QED
  BY <1>2, <1>3

(* The same when no OpenConn is on the wire.                               *)
LEMMA NoOpenOrder ==
    ASSUME IInv, NEW q \in Seq(Wire), \A p \in Up : ~IsOpen(p), \A p \in Range(q) : ~IsOpen(p),
           up' = up \o q
    PROVE  up' \in Seq(Wire) /\ Up' = Up \cup Range(q) /\ UpOrder'
<1>1. up \in Seq(Wire)
  BY Zenon DEF IInv, Types
<1>2. up' \in Seq(Wire) /\ Up' = Up \cup Range(q)
  BY <1>1, JoinedWires DEF Up
<1>3. \A i \in DOMAIN up' : up'[i] \in Up'
  BY DEF Up, Range
<1>4. UpOrder'
  BY <1>2, <1>3, Zenon DEF UpOrder
<1> QED
  BY <1>2, <1>4

(* What the client's steps leave of the server.                            *)
LEMMA ServerRests ==
    ASSUME IInv, sv' = sv
    PROVE  JobInv' /\ JobsExact' /\ SpooledOnce' /\ (\A c : Spooled(c) <=> Spooled(c)')
<1>1. \A c : Spooled(c) <=> Spooled(c)'
  BY Zenon DEF Spooled
<1>2. JobInv'
  BY Zenon DEF IInv, JobInv, Spooled
<1> QED
  BY <1>1, <1>2, Zenon DEF IInv, JobsExact, SpooledOnce

(* The request a client makes.                                             *)
NewAsks(f) == [tid |-> cl.tid + 1, func |-> f, tries |-> 1]
NewAsked(f, c) == Req(cl.tid + 1, f, c, 0, {0})
AsksNow(f, c) ==
    /\ sv' = sv /\ Down' \subseteq Down
    /\ cl'.tid = cl.tid + 1 /\ cl'.reqs = {NewAsks(f)} /\ cl'.conn = c
    /\ \A p \in Up' : p \in Up \/ IsChatter(p) \/ p = NewAsked(f, c)

(* What is on the wire once the client has asked.                          *)
LEMMA AsksUp ==
    ASSUME IInv, NEW f \in Funcs, NEW c, AsksNow(f, c), cl'.cache \in {cl.cache, NoCache}
    PROVE  /\ \A p \in Up' : IsPacket(p) => p \in Up
           /\ Answered' \subseteq Answered \cup {0}
<1>1. ~IsPacket(NewAsked(f, c)) /\ \A p : IsChatter(p) => ~IsPacket(p)
  BY DEF NewAsked, Req, IsPacket, IsChatter
<1>2. \A p \in Up' : IsPacket(p) => p \in Up
  BY <1>1, Zenon DEF AsksNow
<1>3. cl'.cache.tid \in {cl.cache.tid, 0}
  BY DEF NoCache
<1> QED
  BY <1>2, <1>3 DEF Answered

(* The client asks with a fresh identifier.                                *)
LEMMA AsksTid ==
    ASSUME IInv, NEW f \in Funcs, NEW c, AsksNow(f, c)
    PROVE  TidInv' /\ MineInv'
<1> DEFINE a == NewAsked(f, c)
           r == NewAsks(f)
<1>1. /\ a.k = "TReq" /\ a.func = f /\ a.tid = cl.tid + 1 /\ a.conn = c
      /\ r.tid = cl.tid + 1 /\ r.func = f
  BY DEF NewAsked, NewAsks, Req
<1>2. \A p : IsChatter(p) => p.k = "TRel" \/ (p.k = "TReq" /\ p.func = "tickle" /\ p.tid = 0)
  BY DEF IsChatter
<1>3. cl.tid \in Nat /\ \A i \in 1..cl.tid : i \in 1..cl'.tid /\ i # cl.tid + 1
  <2>1. cl.tid \in Nat
    BY Typed, Zenon DEF IInv
  <2> QED
    BY <2>1 DEF AsksNow
<1>4. cl.tid + 1 \in 1..cl'.tid
  BY <1>3 DEF AsksNow
<1>5. f # "tickle"
  BY DEF Funcs
<1>6. /\ sv' = sv /\ Down' \subseteq Down /\ cl'.reqs = {r} /\ cl'.conn = c
      /\ \A p \in Up' : p \in Up \/ IsChatter(p) \/ p = a
  BY Zenon DEF AsksNow
<1> HIDE DEF a, r
<1>7. TidInv'
  <2>1. /\ \A p \in Up' : IsPacket(p) => p.tid \in 1..(sv.nextTid - 1)
    BY <1>1, <1>2, <1>6, Zenon DEF IInv, TidInv, IsPacket
  <2>2. \A p \in Up' : p.k = "TReq" /\ p.func # "tickle" => p.tid \in 1..cl'.tid
    BY <1>1, <1>2, <1>3, <1>4, <1>6, Zenon DEF IInv, TidInv
  <2>3. \A p \in Up' : p.k = "TReq" /\ p.func = "tickle" => p.tid = 0
    BY <1>1, <1>2, <1>5, <1>6, Zenon DEF IInv, TidInv
  <2>4. \A p \in Down' : p.k = "TResp" => p.tid \in 1..cl'.tid
    BY <1>3, <1>6, Zenon DEF IInv, TidInv
  <2>5. \A e \in sv'.xo : e.tid \in 1..cl'.tid
    BY <1>3, <1>6, Zenon DEF IInv, TidInv
  <2>6. sv'.pend # NoTxn => sv'.pend.tid \in 1..cl'.tid /\ sv'.pend.func = "read"
    BY <1>3, <1>6, Zenon DEF IInv, TidInv
  <2>7. /\ \A x \in sv'.reqs : x.tid \in 1..(sv'.nextTid - 1)
        /\ \A x \in sv'.reqs : \A y \in sv'.reqs : x.tid = y.tid => x = y
        /\ \A p \in Down' : IsAsk(p) => p.tid \in 1..(sv'.nextTid - 1)
    BY <1>6, Zenon DEF IInv, TidInv
  <2> QED
    BY <1>6, <2>1, <2>2, <2>3, <2>4, <2>5, <2>6, <2>7, Zenon DEF TidInv
<1>8. MineInv'
  <2>1. \A p \in Up' : p.k = "TReq" /\ p.func # "tickle" => Mine(p)'
    <3>1. \A p \in Up : p.k = "TReq" /\ p.func # "tickle" => p.tid # cl.tid + 1
      BY <1>3, Zenon DEF IInv, TidInv
    <3> QED
      BY <1>1, <1>2, <1>6, <3>1, Zenon DEF Mine
  <2>2. \A e \in sv'.xo : e.tid # cl.tid + 1
    BY <1>3, <1>6, Zenon DEF IInv, TidInv
  <2>3. \A p \in Down' : p.k = "TResp" => p.tid # cl.tid + 1
    BY <1>3, <1>6, Zenon DEF IInv, TidInv
  <2>4. sv'.pend # NoTxn => sv'.pend.tid # cl.tid + 1
    BY <1>3, <1>6, Zenon DEF IInv, TidInv
  <2>5. \A e \in sv'.xo : Sound(e)'
    BY <1>1, <1>6, <2>2, Zenon DEF Sound
  <2>6. \A p \in Down' : p.k = "TResp" => Sound(p)' /\ Final(p)'
    BY <1>1, <1>6, <2>3, Zenon DEF Sound, Final
  <2>7. sv'.pend # NoTxn => \A x \in cl'.reqs : sv'.pend.tid = x.tid => x.func = "read"
    BY <1>1, <1>6, <2>4, Zenon
  <2> QED
    BY <2>1, <2>5, <2>6, <2>7, Zenon DEF MineInv
<1> QED
  BY <1>7, <1>8

(* What a request of the client keeps.                                     *)
LEMMA AsksKeep ==
    ASSUME IInv, Types', NEW f \in Funcs, NEW c, AsksNow(f, c),
           cl'.cache \in {cl.cache, NoCache}, ClientInv', OrderInv', AskInv',
           EofMeansSpooled'
    PROVE  IInv'
<1>1. TidInv' /\ MineInv'
  BY AsksTid
<1>2. /\ \A p \in Up' : IsPacket(p) => p \in Up
      /\ Answered' \subseteq Answered \cup {0}
  BY AsksUp, Zenon
<1>3. sv' = sv
  BY DEF AsksNow
<1>4. DataInv'
  BY <1>2, <1>3, Zenon DEF IInv, DataInv
<1>5. AnswerInv'
  <2>1. \A r \in sv.reqs : r.tid # 0
    <3>1. \A r \in sv.reqs : r.tid \in 1..(sv.nextTid - 1)
      BY Zenon DEF IInv, TidInv
    <3> QED
      BY <3>1
  <2>2. \A r \in sv'.reqs : r.tid \in Answered' => r.tid \in Answered
    BY <1>2, <1>3, <2>1, Zenon
  <2> QED
    BY <1>3, <2>2, Zenon DEF IInv, AnswerInv
<1> QED
  BY <1>1, <1>3, <1>4, <1>5, ServerRests, Zenon DEF IInv

(* The packets a client sends are well formed.                             *)
LEMMA AskedTyped ==
    ASSUME NEW t \in Nat, NEW f \in Funcs, NEW c \in Conns \cup {0}
    PROVE  Req(t, f, c, 0, {0}) \in Wire
<1>1. 0 \in Nat /\ {0} \in SUBSET Nat
  OBVIOUS
<1> QED
  BY <1>1, BodiesTyped, Zenon DEF Req, Wire

(* Ask() makes a request.                                                  *)
LEMMA AskSays ==
    ASSUME NEW c \in Client, c.reqs = {}, NEW f \in Funcs
    PROVE  LET n == Ask(c, f) IN
           /\ n \in Client /\ n.tid = c.tid + 1
           /\ n.reqs = {[tid |-> c.tid + 1, func |-> f, tries |-> 1]}
           /\ n.st = c.st /\ n.conn = c.conn /\ n.last = c.last /\ n.expect = c.expect
           /\ n.cache = c.cache /\ n.held = c.held /\ n.done = c.done
<1> DEFINE t == c.tid + 1
           r == [tid |-> t, func |-> f, tries |-> 1]
           S == {r}
           n == Ask(c, f)
<1>1. c.tid \in Nat
  BY Zenon DEF Client
<1>2. t \in Nat /\ S \in SUBSET Asks
  BY <1>1 DEF Asks
<1>3. c.reqs \cup {r} = S
  OBVIOUS
<1>4. n = [c EXCEPT !.tid = t, !.reqs = S]
  BY <1>3 DEF Ask
<1> HIDE DEF t, S, n
<1>5. n \in Client
  BY <1>2, <1>4, Zenon DEF Client
<1>6. /\ n.tid = t /\ n.reqs = S
      /\ n.st = c.st /\ n.conn = c.conn /\ n.last = c.last /\ n.expect = c.expect
      /\ n.cache = c.cache /\ n.held = c.held /\ n.done = c.done
  BY <1>4, Zenon DEF Client
<1> QED
  BY <1>5, <1>6 DEF t, S, n

(* The client opens its next connection.                                   *)
LEMMA ClientOpensKeeps ==
    ASSUME IInv, ClientOpens
    PROVE  IInv'
<1> DEFINE o == cl.last + 1
           e == 1
           c == [cl EXCEPT !.st = "opening", !.conn = o, !.last = o, !.expect = e]
           a == NewAsked("open", o)
<1>1. /\ cl.st = "idle" /\ o \in Conns /\ cl' = Ask(c, "open") /\ up' = Append(up, Asked(c, "open"))
      /\ UNCHANGED <<down, loss, sv, slow>>
  BY DEF ClientOpens
<1>2. cl \in Client /\ cl.last \in Nat /\ cl.tid \in Nat /\ o \in Nat
  <2>1. cl.last \in Conns \cup {0} /\ cl.tid \in Nat /\ cl \in Client
    BY Typed, Zenon DEF IInv, Types
  <2> QED
    BY <2>1, ConnsNat
<1>3. cl.conn = 0 /\ cl.reqs = {} /\ cl.cache = NoCache /\ cl.held = NoHeld /\ ~cl.done
  <2>1. cl.conn = 0 /\ cl.cache = NoCache /\ cl.held = NoHeld /\ ~cl.done
    BY <1>1, Zenon DEF IInv, ClientInv
  <2>2. cl.reqs = {}
    BY <1>1, Zenon DEF IInv, ClientInv
  <2> QED
    BY <2>1, <2>2, Zenon
<1>4. e \in Nat /\ o \in Conns \cup {0} /\ "open" \in Funcs
  BY <1>1 DEF Funcs
<1> HIDE DEF o, e
<1>5. c \in Client
  BY <1>2, <1>4, Zenon DEF Client
<1>6. /\ c.st = "opening" /\ c.conn = o /\ c.last = o /\ c.expect = e /\ c.tid = cl.tid
      /\ c.reqs = {} /\ c.cache = NoCache /\ c.held = NoHeld /\ c.done = cl.done
  BY <1>2, <1>3, Zenon DEF Client
<1>7. Asked(c, "open") = a
  BY <1>6, Zenon DEF Asked, Asking, NewAsked
<1> HIDE DEF c
<1>8. /\ cl' \in Client /\ cl'.tid = cl.tid + 1 /\ cl'.reqs = {NewAsks("open")}
      /\ cl'.st = "opening" /\ cl'.conn = o /\ cl'.last = o /\ cl'.expect = 1
      /\ cl'.cache = NoCache /\ cl'.held = NoHeld /\ ~cl'.done
  BY <1>1, <1>3, <1>4, <1>5, <1>6, AskSays DEF NewAsks, e
<1>9. a \in Wire /\ IsOpen(a) /\ a.conn = o /\ ~IsPacket(a) /\ ~IsClose(a)
  <2>1. a \in Wire
    BY <1>2, <1>4, AskedTyped DEF NewAsked
  <2> QED
    BY <2>1 DEF NewAsked, Req, IsOpen, IsPacket, IsClose
<1> HIDE DEF a
<1>10. /\ up' \in Seq(Wire) /\ Up' = Up \cup {a}
       /\ \A i \in DOMAIN up' : \/ i \in DOMAIN up /\ up'[i] = up[i]
                                \/ i \notin DOMAIN up /\ up'[i] = a
  BY <1>1, <1>7, <1>9, AppendedWire DEF Up, IInv, Types
<1>11. Types'
  BY <1>1, <1>8, <1>10, Zenon DEF IInv, Types
<1>12. AsksNow("open", o)
  BY <1>1, <1>8, <1>10, Zenon DEF AsksNow, a, Down
<1>13. ClientInv'
  <2>1. cl.tid + 1 \in 1..cl'.tid /\ o # 0
    BY <1>2, <1>8 DEF o
  <2>2. NewAsks("open").tid = cl.tid + 1 /\ NewAsks("open").func = "open"
    BY DEF NewAsks
  <2> QED
    BY <1>8, <2>1, <2>2, Zenon DEF ClientInv
<1>14. /\ sv.conn \in Nat /\ sv.conn <= cl.last /\ sv.conn < o
       /\ \A i \in DOMAIN sv.spool : sv.spool[i].conn <= sv.conn /\ sv.spool[i].conn < o
       /\ \A r \in sv.reqs : r.conn <= sv.conn /\ r.conn < o
  <2>1. sv.conn \in Nat /\ sv.spool \in Seq(Job) /\ sv.reqs \subseteq Request
    BY Typed, ConnsNat DEF IInv
  <2>2. /\ \A i \in DOMAIN sv.spool : sv.spool[i].conn \in Nat
        /\ \A r \in sv.reqs : r.conn \in Nat
    <3>1. \A i \in DOMAIN sv.spool : sv.spool[i] \in Job
      BY <2>1
    <3> QED
      BY <2>1, <3>1, ConnsNat DEF Job, Request
  <2>3. sv.conn <= cl.last /\ \A i \in DOMAIN sv.spool : sv.spool[i].conn <= sv.conn
    BY Zenon DEF IInv, OrderInv
  <2>4. \A r \in sv.reqs : r.conn <= sv.conn
    BY Zenon DEF IInv, AskInv
  <2> QED
    BY <1>2, <2>1, <2>2, <2>3, <2>4 DEF o
<1>15. Coming' \subseteq Coming \cup {o} /\ Answered' \subseteq Answered \cup {0}
  <2>1. Answered' \subseteq Answered \cup {0}
    BY <1>4, <1>8, <1>12, AsksUp, Zenon
  <2>2. Coming' \subseteq Coming \cup {o}
    BY <1>8, <1>9, <1>10, Zenon DEF Coming
  <2> QED
    BY <2>1, <2>2, Zenon
<1>16. \A r \in sv.reqs : r.tid # 0
  <2>1. \A r \in sv.reqs : r.tid \in 1..(sv.nextTid - 1)
    BY Zenon DEF IInv, TidInv
  <2> QED
    BY <2>1
<1>17. \A p \in Up : IsOpen(p) \/ IsClose(p) => p.conn \in 1..cl.last /\ p.conn < o
  <2>1. \A p \in Up : IsOpen(p) \/ IsClose(p) => p.conn \in 1..cl.last
    BY Zenon DEF IInv, OrderInv
  <2> QED
    BY <1>2, <2>1 DEF o
<1>18. UpOrder'
  <2>1. \A i, j \in DOMAIN up : i < j /\ IsOpen(up[i]) =>
           ~IsPacket(up[j]) /\ (IsOpen(up[j]) => up[i].conn < up[j].conn)
    BY Zenon DEF IInv, OrderInv, UpOrder
  <2>2. \A i \in DOMAIN up : up[i] \in Up
    BY DEF Up, Range
  <2>3. /\ Len(up) \in Nat /\ DOMAIN up = 1..Len(up)
    BY DEF IInv, Types
  <2>4. DOMAIN up' = 1..(Len(up) + 1)
    BY <1>1, <1>7, <1>9, <2>3 DEF IInv, Types
  <2>5. ASSUME NEW i \in DOMAIN up', NEW j \in DOMAIN up', i < j, IsOpen(up'[i])
        PROVE  ~IsPacket(up'[j]) /\ (IsOpen(up'[j]) => up'[i].conn < up'[j].conn)
    <3>1. i \in DOMAIN up
      BY <2>3, <2>4, <2>5
    <3>2. up'[i] = up[i]
      BY <1>10, <3>1, Zenon
    <3>3. CASE j \in DOMAIN up
      <4>1. up'[j] = up[j]
        BY <1>10, <3>3, Zenon
      <4> QED
        BY <2>1, <2>5, <3>1, <3>2, <3>3, <4>1, Zenon
    <3>4. CASE j \notin DOMAIN up
      <4>1. up'[j] = a
        BY <1>10, <3>4, Zenon
      <4>2. up[i].conn < o
        BY <1>17, <2>2, <2>5, <3>1, <3>2, Zenon
      <4> QED
        BY <1>9, <3>2, <4>1, <4>2, Zenon
    <3> QED
      BY <3>3, <3>4, Zenon
  <2> QED
    BY <2>5, Zenon DEF UpOrder
<1>19. OrderInv'
  <2>1. \A p \in Up' : IsOpen(p) \/ IsClose(p) => p.conn \in 1..cl'.last
    <3>1. 1..cl.last \subseteq 1..o /\ o \in 1..o
      BY <1>2 DEF o
    <3> QED
      BY <1>8, <1>9, <1>10, <1>17, <3>1, Zenon
  <2>2. sv'.conn <= cl'.last
    BY <1>1, <1>2, <1>8, <1>14 DEF o
  <2>3. ASSUME NEW x \in Coming'
        PROVE  /\ sv'.conn <= x
               /\ \A i \in DOMAIN sv'.spool : sv'.spool[i].conn < x
               /\ \A p \in Up' : IsClose(p) => p.conn < x
               /\ \A r \in sv'.reqs : r.tid \in Answered' => r.conn < x
               /\ sv'.conn = x => sv'.seq <= 1 /\ (sv'.open => ~sv'.eofSeen)
    <3>1. \A p \in Up' : IsClose(p) => p \in Up
      BY <1>9, <1>10, Zenon
    <3>2. \A r \in sv'.reqs : r.tid \in Answered' => r \in sv.reqs /\ r.tid \in Answered
      BY <1>1, <1>15, <1>16, Zenon
    <3>3. CASE x \in Coming
      <4>1. /\ sv.conn <= x
            /\ \A i \in DOMAIN sv.spool : sv.spool[i].conn < x
            /\ \A p \in Up : IsClose(p) => p.conn < x
            /\ \A r \in sv.reqs : r.tid \in Answered => r.conn < x
            /\ sv.conn = x => sv.seq <= 1 /\ (sv.open => ~sv.eofSeen)
        BY <3>3, Zenon DEF IInv, OrderInv
      <4> QED
        BY <1>1, <3>1, <3>2, <4>1, Zenon
    <3>4. CASE x = o
      <4>1. sv.conn # o /\ sv.conn <= o
        BY <1>2, <1>14
      <4> QED
        BY <1>1, <1>14, <1>17, <3>1, <3>2, <3>4, <4>1, Zenon
    <3> QED
      BY <1>15, <2>3, <3>3, <3>4, Zenon
  <2>4. /\ cl'.st \notin {"open", "closing"} /\ (sv'.open => sv'.conn # 0)
        /\ \A i \in DOMAIN sv'.spool : sv'.spool[i].conn <= sv'.conn
    BY <1>1, <1>8, Zenon DEF IInv, OrderInv
  <2> QED
    BY <1>18, <2>1, <2>2, <2>3, <2>4, Zenon DEF OrderInv
<1>20. AskInv'
  <2>1. sv'.conn # cl'.conn
    BY <1>1, <1>2, <1>8, <1>14
  <2>2. \A r \in sv.reqs :
           /\ r.seq \in 1..Bursts(r.conn)
           /\ r.conn <= sv.conn /\ (r.conn = sv.conn => r.seq <= sv.seq)
           /\ \A p \in Down : IsAsk(p) => Matches(p, r)
    BY Zenon DEF IInv, AskInv
  <2>3. Down' = Down
    BY <1>1, Zenon DEF Down
  <2> QED
    BY <1>1, <1>8, <2>1, <2>2, <2>3, Zenon DEF AskInv
<1>21. EofMeansSpooled'
  BY <1>8, Zenon DEF EofMeansSpooled
<1> QED
  BY <1>4, <1>8, <1>11, <1>12, <1>13, <1>19, <1>20, <1>21, AsksKeep, Zenon

(* The client closes, at the end of its job or before.                     *)
LEMMA ClientClosesKeeps ==
    ASSUME IInv, ClientCloses
    PROVE  IInv'
<1> DEFINE w == Away(cl)
           k == IF cl.done THEN w.quits ELSE w.quits + 1
           c == [w EXCEPT !.st = "closing", !.conn = cl.conn, !.quits = k]
           a == NewAsked("close", cl.conn)
<1>1. /\ cl.st = "open" /\ cl' = Ask(c, "close") /\ up' = Append(up, Asked(c, "close"))
      /\ UNCHANGED <<down, loss, sv, slow>>
  BY DEF ClientCloses
<1>2. /\ w \in Client /\ w.reqs = {} /\ w.expect = 0 /\ w.cache = NoCache /\ w.held = NoHeld
      /\ w.done = FALSE /\ w.last = cl.last /\ w.tid = cl.tid
  BY AwaySays, Zenon DEF IInv, Types
<1>3. cl.conn \in Conns \cup {0} /\ cl.tid \in Nat
  BY Typed, Zenon DEF IInv
<1> HIDE DEF w
<1>4. k \in Nat
  <2>1. w.quits \in Nat
    BY <1>2, Zenon DEF Client
  <2> QED
    BY <2>1
<1> HIDE DEF k
<1>5. c \in Client
  BY <1>2, <1>3, <1>4, Zenon DEF Client
<1>6. /\ c.st = "closing" /\ c.conn = cl.conn /\ c.last = cl.last /\ c.tid = cl.tid
      /\ c.reqs = {} /\ c.cache = NoCache /\ c.held = NoHeld /\ c.done = FALSE
  BY <1>2, Zenon DEF Client
<1>7. Asked(c, "close") = a /\ "close" \in Funcs
  BY <1>6, Zenon DEF Asked, Asking, NewAsked, Funcs
<1> HIDE DEF c
<1>8. /\ cl' \in Client /\ cl'.tid = cl.tid + 1 /\ cl'.reqs = {NewAsks("close")}
      /\ cl'.st = "closing" /\ cl'.conn = cl.conn /\ cl'.last = cl.last
      /\ cl'.cache = NoCache /\ cl'.held = NoHeld /\ ~cl'.done
  BY <1>1, <1>5, <1>6, <1>7, AskSays, Zenon DEF NewAsks
<1>9. a \in Wire /\ ~IsOpen(a) /\ a.conn = cl.conn /\ ~IsPacket(a)
  <2>1. cl.tid + 1 \in Nat
    BY <1>3
  <2>2. a \in Wire
    BY <1>3, <1>7, <2>1, AskedTyped, Zenon DEF NewAsked
  <2> QED
    BY <2>2, Zenon DEF NewAsked, Req, IsOpen, IsPacket
<1> HIDE DEF a
<1>10. up' \in Seq(Wire) /\ Up' = Up \cup {a} /\ UpOrder'
  <2> DEFINE q == <<a>>
  <2>1. q \in Seq(Wire) /\ Range(q) = {a} /\ up' = up \o q
    <3>1. up \in Seq(Wire) /\ up' = Append(up, a)
      BY <1>1, <1>7, Zenon DEF IInv, Types
    <3>2. Range(<<a>>) = {a}
      BY DEF Range
    <3>3. Append(up, a) = up \o <<a>>
      BY <1>9, <3>1
    <3> QED
      BY <1>9, <3>1, <3>2, <3>3
  <2> HIDE DEF q
  <2>2. \A p \in Range(q) : ~IsPacket(p) /\ ~IsOpen(p)
    BY <1>9, <2>1, Zenon
  <2> QED
    BY <2>1, <2>2, RelOrder, Zenon
<1>11. Types'
  BY <1>1, <1>8, <1>10, Zenon DEF IInv, Types
<1>12. AsksNow("close", cl.conn)
  BY <1>1, <1>8, <1>10, Zenon DEF AsksNow, a, Down
<1>13. cl.conn = cl.last /\ cl.conn # 0
  BY <1>1, Zenon DEF IInv, ClientInv
<1>14. ClientInv'
  <2>1. cl.tid + 1 \in 1..cl'.tid
    BY <1>3, <1>8
  <2>2. NewAsks("close").tid = cl.tid + 1 /\ NewAsks("close").func = "close"
    BY Zenon DEF NewAsks
  <2> QED
    BY <1>8, <1>13, <2>1, <2>2, Zenon DEF ClientInv
<1>15. \A p \in Up' : ~IsOpen(p)
  BY <1>1, <1>9, <1>10, Zenon DEF IInv, OrderInv
<1>16. Coming' = {}
  BY <1>8, <1>15, Zenon DEF Coming
<1>17. OrderInv'
  <2>1. \A p \in Up' : IsOpen(p) \/ IsClose(p) => p.conn \in 1..cl'.last
    <3>1. cl.last \in 1..cl.last
      BY <1>3, <1>13, ConnsNat, SMTT(30)
    <3>2. \A p \in Up : IsOpen(p) \/ IsClose(p) => p.conn \in 1..cl.last
      BY Zenon DEF IInv, OrderInv
    <3> QED
      BY <1>8, <1>9, <1>10, <1>13, <3>1, <3>2, Zenon
  <2>2. /\ (sv'.open => sv'.conn # 0) /\ sv'.conn <= cl'.last
        /\ \A i \in DOMAIN sv'.spool : sv'.spool[i].conn <= sv'.conn
    BY <1>1, <1>8, Zenon DEF IInv, OrderInv
  <2> QED
    BY <1>8, <1>10, <1>15, <1>16, <2>1, <2>2, Zenon DEF OrderInv
<1>18. AskInv'
  <2>1. \A r \in sv.reqs :
           /\ r.seq \in 1..Bursts(r.conn)
           /\ r.conn <= sv.conn /\ (r.conn = sv.conn => r.seq <= sv.seq)
           /\ \A p \in Down : IsAsk(p) => Matches(p, r)
    BY Zenon DEF IInv, AskInv
  <2>2. Down' = Down
    BY <1>1, Zenon DEF Down
  <2> QED
    BY <1>1, <1>8, <2>1, <2>2, Zenon DEF AskInv
<1>19. EofMeansSpooled'
  BY <1>8 DEF EofMeansSpooled
<1> QED
  BY <1>7, <1>8, <1>11, <1>12, <1>14, <1>17, <1>18, <1>19, AsksKeep, Zenon

(* The guest restarts.                                                     *)
LEMMA ClientGoneKeeps ==
    ASSUME IInv, ClientGone
    PROVE  IInv'
<1> DEFINE w == Away(cl)
           k == w.quits + 1
           c == [w EXCEPT !.quits = k]
<1>1. cl' = c /\ UNCHANGED <<up, down, loss, sv, slow>>
  BY DEF ClientGone
<1>2. /\ w \in Client /\ w.st = "idle" /\ w.conn = 0 /\ w.reqs = {} /\ w.cache = NoCache
      /\ w.held = NoHeld /\ w.done = FALSE /\ w.last = cl.last /\ w.tid = cl.tid
  BY AwaySays, Zenon DEF IInv, Types
<1> HIDE DEF w
<1>3. k \in Nat
  <2>1. w.quits \in Nat
    BY <1>2, Zenon DEF Client
  <2> QED
    BY <2>1
<1> HIDE DEF k
<1>4. /\ cl' \in Client /\ cl'.st = "idle" /\ cl'.conn = 0 /\ cl'.reqs = {}
      /\ cl'.cache = NoCache /\ cl'.held = NoHeld /\ cl'.done = FALSE
      /\ cl'.last = cl.last /\ cl'.tid = cl.tid
  BY <1>1, <1>2, <1>3, Zenon DEF Client
<1>5. UpShrinks /\ Forgets
  BY <1>1, <1>4, Zenon DEF UpShrinks, Forgets
<1>6. ClientChats
  BY <1>4, <1>5, ShrunkUp, Zenon DEF ClientChats
<1>7. down' \in Seq(Wire) /\ Down' \subseteq Down
  BY <1>1, ShrunkDown, Zenon
<1> QED
  BY <1>1, <1>6, <1>7, CalmKeeps, Zenon

(* A packet reaches the client.                                            *)
Receives(p) ==
    /\ down # <<>> /\ down' = Tail(down) /\ p = Head(down)
    /\ UNCHANGED <<loss, sv, slow>>

(* What is known of a packet that reaches the client.                      *)
LEMMA ReceivedPacket ==
    ASSUME IInv, NEW p, Receives(p)
    PROVE  /\ p \in Down /\ p \in Wire /\ p.tid \in Nat
           /\ down' \in Seq(Wire) /\ Down' \subseteq Down
           /\ p.k = "TResp" => Sound(p) /\ Final(p)
<1>1. p \in Down /\ p \in Wire
  BY TailOfWire, Zenon DEF IInv, Types, Receives, Down
<1>2. down' \in Seq(Wire) /\ Down' \subseteq Down
  BY ShrunkDown DEF Receives
<1>3. p.tid \in Nat
  BY <1>1, Zenon DEF Wire
<1>4. p.k = "TResp" => Sound(p) /\ Final(p)
  BY <1>1, Zenon DEF IInv, MineInv
<1> QED
  BY <1>1, <1>2, <1>3, <1>4, Zenon

(* Releasing an exactly-once reply.                                        *)
Release(p) == IF p.func \in XoFuncs THEN <<Rel(p.tid)>> ELSE <<>>

(* A release brings no news.                                               *)
LEMMA ReleaseChats ==
    ASSUME NEW p, p.tid \in Nat
    PROVE  Release(p) \in Seq(Wire) /\ \A x \in Range(Release(p)) : IsChatter(x)
<1>1. Rel(p.tid) \in Wire /\ IsChatter(Rel(p.tid))
  BY RelTyped, Zenon DEF IsChatter
<1>2. CASE Release(p) = <<>>
  BY <1>2 DEF Range
<1>3. CASE Release(p) = <<Rel(p.tid)>>
  <2> DEFINE x == Rel(p.tid)
  <2> HIDE DEF x
  <2>1. x \in Wire /\ IsChatter(x) /\ Release(p) = <<x>>
    BY <1>1, <1>3, Zenon DEF x
  <2> QED
    BY <2>1 DEF Range
<1> QED
  BY <1>2, <1>3, Zenon DEF Release

(* The client once the request that is answered is off its list.           *)
Settled(p) == [cl EXCEPT !.reqs = {r \in @ : r.tid # p.tid}]

(* The client once its request is answered.                                *)
LEMMA AnsweredClient ==
    ASSUME IInv, NEW p, NEW r \in cl.reqs, r.tid = p.tid
    PROVE  LET c == Settled(p) IN
           /\ c \in Client /\ c.reqs = {} /\ c.st = cl.st /\ c.conn = cl.conn
           /\ c.last = cl.last /\ c.tid = cl.tid /\ c.expect = cl.expect
           /\ c.cache = cl.cache /\ c.held = cl.held /\ c.done = cl.done
<1> DEFINE S == {x \in cl.reqs : x.tid # p.tid}
           c == Settled(p)
<1>1. S = {}
  <2>1. \A x \in cl.reqs : x = r
    BY Zenon DEF IInv, ClientInv
  <2> QED
    BY <2>1, Zenon
<1>2. c = [cl EXCEPT !.reqs = S] /\ S \in SUBSET Asks
  BY <1>1, Zenon DEF Settled
<1>3. cl \in Client
  BY Zenon DEF IInv, Types
<1> HIDE DEF S, c
<1>4. c \in Client
  BY <1>2, <1>3, Zenon DEF Client
<1>5. /\ c.reqs = S /\ c.st = cl.st /\ c.conn = cl.conn
      /\ c.last = cl.last /\ c.tid = cl.tid /\ c.expect = cl.expect
      /\ c.cache = cl.cache /\ c.held = cl.held /\ c.done = cl.done
  BY <1>2, <1>3, Zenon DEF Client
<1> QED
  BY <1>1, <1>4, <1>5, Zenon DEF c

(* The client reads, its connection having been opened or not just now.    *)
LEMMA ReadsKeep ==
    ASSUME IInv, NEW p, Receives(p), NEW d \in Client, d.reqs = {}, d.st = "open",
           d.conn = cl.conn, d.last = cl.last, d.tid = cl.tid, d.expect = cl.expect,
           d.cache = cl.cache, d.held = cl.held, d.done = cl.done,
           \/ cl.st = "open"
           \/ cl.st = "opening" /\ sv.conn = cl.conn /\ \A x \in Up : ~IsOpen(x),
           cl' = Ask(d, "read"), up' = (up \o Release(p)) \o <<Asked(d, "read")>>
    PROVE  IInv'
<1> DEFINE a == NewAsked("read", cl.conn)
           R == Release(p)
           q == R \o <<a>>
<1>1. /\ p \in Down /\ p.tid \in Nat /\ down' \in Seq(Wire) /\ Down' \subseteq Down
      /\ UNCHANGED <<loss, sv, slow>>
  BY ReceivedPacket, Zenon DEF Receives
<1>2. cl.conn \in Conns \cup {0} /\ cl.tid \in Nat /\ "read" \in Funcs /\ cl.expect \in Nat
  BY Typed, Zenon DEF IInv, Funcs
<1>3. Asked(d, "read") = a
  BY Zenon DEF Asked, Asking, NewAsked
<1>4. /\ cl' \in Client /\ cl'.tid = cl.tid + 1 /\ cl'.reqs = {NewAsks("read")}
      /\ cl'.st = "open" /\ cl'.conn = cl.conn /\ cl'.last = cl.last
      /\ cl'.expect = cl.expect /\ cl'.cache = cl.cache /\ cl'.held = cl.held
      /\ cl'.done = cl.done
  BY <1>2, AskSays, ZenonT(30) DEF NewAsks
<1>5. a \in Wire /\ ~IsOpen(a) /\ ~IsPacket(a) /\ ~IsClose(a)
  <2>1. cl.tid + 1 \in Nat
    BY <1>2
  <2>2. a \in Wire
    BY <1>2, <2>1, AskedTyped, Zenon DEF NewAsked
  <2> QED
    BY <2>2, Zenon DEF NewAsked, Req, IsOpen, IsPacket, IsClose
<1>6. R \in Seq(Wire) /\ \A x \in Range(R) : IsChatter(x)
  BY <1>1, ReleaseChats, Zenon
<1> HIDE DEF a, R
<1>7. /\ q \in Seq(Wire) /\ Range(q) = Range(R) \cup {a} /\ up' = up \o q
  <2> DEFINE b == <<a>>
  <2>1. b \in Seq(Wire) /\ Range(b) = {a}
    BY <1>5 DEF Range
  <2>2. up' = (up \o R) \o b /\ up \in Seq(Wire)
    BY <1>3, Zenon DEF R, IInv, Types
  <2> HIDE DEF b
  <2>3. (up \o R) \o b = up \o (R \o b)
    <3>1. \A s, t, w \in Seq(Wire) : (s \o t) \o w = s \o (t \o w)
      OBVIOUS
    <3> QED
      BY <1>6, <2>1, <2>2, <3>1, Zenon
  <2>4. R \o b \in Seq(Wire) /\ Range(R \o b) = Range(R) \cup {a}
    BY <1>6, <2>1, JoinedWires
  <2> QED
    BY <2>2, <2>3, <2>4, Zenon DEF b
<1> HIDE DEF q
<1>8. up' \in Seq(Wire) /\ Up' = Up \cup Range(R) \cup {a} /\ UpOrder'
  <2>1. \A x \in Range(q) : ~IsPacket(x) /\ ~IsOpen(x)
    BY <1>5, <1>6, <1>7, Zenon DEF IsChatter, IsPacket, IsOpen
  <2> QED
    BY <1>7, <2>1, RelOrder, Zenon
<1>9. Types'
  BY <1>1, <1>4, <1>8, Zenon DEF IInv, Types
<1>10. AsksNow("read", cl.conn)
  BY <1>1, <1>4, <1>6, <1>8, Zenon DEF AsksNow, a
<1>11. \A x \in Up : ~IsOpen(x)
  BY Zenon DEF IInv, OrderInv
<1>12. \A x \in Up' : /\ ~IsOpen(x) /\ (IsClose(x) => x \in Up)
  BY <1>5, <1>6, <1>8, <1>11, Zenon DEF IsChatter, IsOpen, IsClose
<1>13. ClientInv'
  <2>1. cl.tid + 1 \in 1..cl'.tid
    BY <1>2, <1>4
  <2>2. NewAsks("read").tid = cl.tid + 1 /\ NewAsks("read").func = "read"
    BY Zenon DEF NewAsks
  <2>3. /\ cl.conn \in {0, cl.last} /\ cl.conn # 0 /\ cl.expect # 0
        /\ cl.cache # NoCache => /\ cl.cache.tid \in 1..(sv.nextTid - 1)
                                 /\ cl.cache.burst \in 1..Bursts(cl.conn)
                                 /\ cl.cache.burst < cl.expect
        /\ cl.held # NoHeld => /\ IsAsk(cl.held) /\ cl.held.tid \in 1..(sv.nextTid - 1)
                               /\ cl.held.conn = cl.conn /\ cl.held.seq = cl.expect
                               /\ cl.expect \in 1..Bursts(cl.conn)
    BY DEF IInv, ClientInv
  <2> QED
    BY <1>1, <1>4, <2>1, <2>2, <2>3, Zenon DEF ClientInv
<1>14. Coming' = {}
  BY <1>4, <1>12, Zenon DEF Coming
<1>15. OrderInv'
  <2>1. \A x \in Up' : IsOpen(x) \/ IsClose(x) => x.conn \in 1..cl'.last
    BY <1>4, <1>12, Zenon DEF IInv, OrderInv
  <2>2. /\ (sv'.open => sv'.conn # 0) /\ sv'.conn <= cl'.last
        /\ \A i \in DOMAIN sv'.spool : sv'.spool[i].conn <= sv'.conn
    BY <1>1, <1>4, Zenon DEF IInv, OrderInv
  <2>3. sv'.open => sv'.conn = cl'.conn
    BY <1>1, <1>4, Zenon DEF IInv, OrderInv
  <2> QED
    BY <1>4, <1>8, <1>12, <1>14, <2>1, <2>2, <2>3, Zenon DEF OrderInv
<1>16. AskInv'
  <2>1. \A r \in sv.reqs : r.tid \in Answered' => r.tid \in Answered
    <3>1. Answered' \subseteq Answered \cup {0}
      BY <1>2, <1>4, <1>10, AsksUp, Zenon
    <3>2. \A r \in sv.reqs : r.tid \in 1..(sv.nextTid - 1)
      BY Zenon DEF IInv, TidInv
    <3> QED
      BY <3>1, <3>2, SMTT(30)
  <2>2. \A r \in sv.reqs : r.tid \in Answered /\ r.conn = cl.conn => r.seq < cl.expect
    <3>1. CASE cl.st = "open"
      BY <3>1, Zenon DEF IInv, AskInv
    <3>2. CASE cl.st = "opening"
      <4>1. cl.conn \in Coming
        BY <3>2, Zenon DEF Coming
      <4>2. \A r \in sv.reqs : r.tid \in Answered => r.conn < cl.conn
        BY <4>1, Zenon DEF IInv, OrderInv
      <4>3. cl.conn \in Nat
        BY <1>2, ConnsNat
      <4> QED
        BY <4>2, <4>3
    <3> QED
      BY <3>1, <3>2, Zenon
  <2>3. \A r \in sv.reqs :
           /\ r.seq \in 1..Bursts(r.conn)
           /\ r.conn <= sv.conn /\ (r.conn = sv.conn => r.seq <= sv.seq)
           /\ \A x \in Down : IsAsk(x) => Matches(x, r)
           /\ cl.held # NoHeld => Matches(cl.held, r)
           /\ cl.cache # NoCache /\ cl.cache.tid = r.tid =>
                 r.conn = cl.conn /\ r.seq = cl.cache.burst
    BY Zenon DEF IInv, AskInv
  <2>4. sv.open /\ sv.conn = cl.conn =>
           IF sv.eofSeen THEN sv.seq < cl.expect ELSE sv.seq <= cl.expect
    BY DEF IInv, AskInv
  <2> QED
    BY <1>1, <1>4, <2>1, <2>2, <2>3, <2>4, ZenonT(30) DEF AskInv
<1>17. EofMeansSpooled'
  BY <1>1, <1>4, Zenon DEF IInv, EofMeansSpooled, Spooled
<1> QED
  BY <1>2, <1>4, <1>9, <1>10, <1>13, <1>15, <1>16, <1>17, AsksKeep, Zenon

(* A reply after which the client rests: its exactly-once release is sent. *)
LEMMA ReleasedUp ==
    ASSUME IInv, NEW p, Receives(p), up' = up \o Release(p)
    PROVE  /\ up' \in Seq(Wire) /\ UpOrder' /\ \A x \in Up' : x \in Up \/ IsChatter(x)
<1> DEFINE R == Release(p)
<1>1. R \in Seq(Wire) /\ \A x \in Range(R) : IsChatter(x)
  BY ReceivedPacket, ReleaseChats, Zenon
<1> HIDE DEF R
<1>2. \A x \in Range(R) : ~IsPacket(x) /\ ~IsOpen(x)
  BY <1>1, Zenon DEF IsChatter, IsPacket, IsOpen
<1>3. up' \in Seq(Wire) /\ Up' = Up \cup Range(R) /\ UpOrder'
  BY <1>1, <1>2, RelOrder, Zenon DEF R
<1> QED
  BY <1>1, <1>3, Zenon

(* The connection is refused, or closed.                                   *)
LEMMA LeavesKeep ==
    ASSUME IInv, NEW p, Receives(p), NEW r \in cl.reqs, r.tid = p.tid,
           cl' = Away(Settled(p)), up' = up \o Release(p)
    PROVE  IInv'
<1> DEFINE c == Settled(p)
<1>1. c \in Client /\ c.last = cl.last /\ c.tid = cl.tid
  BY AnsweredClient
<1> HIDE DEF c
<1>2. /\ cl' \in Client /\ Forgets /\ cl'.last = cl.last /\ cl'.tid = cl.tid
  BY <1>1, AwaySays, Zenon DEF Forgets, c
<1>3. ClientChats
  BY <1>2, ReleasedUp, Zenon DEF ClientChats
<1>4. down' \in Seq(Wire) /\ Down' \subseteq Down /\ sv' = sv /\ UNCHANGED <<loss, slow>>
  BY ReceivedPacket, Zenon DEF Receives
<1> QED
  BY <1>3, <1>4, CalmKeeps, Zenon

(* EOF is read.                                                            *)
LEMMA EofKeeps ==
    ASSUME IInv, NEW p, Receives(p), p.k = "TResp", p.func = "read", p.body.eof,
           NEW r \in cl.reqs, r.tid = p.tid,
           cl' = [Settled(p) EXCEPT !.done = TRUE], up' = up \o Release(p)
    PROVE  IInv'
<1> DEFINE c == Settled(p)
<1>1. /\ c \in Client /\ c.reqs = {} /\ c.st = cl.st /\ c.conn = cl.conn
      /\ c.last = cl.last /\ c.tid = cl.tid /\ c.expect = cl.expect
      /\ c.cache = cl.cache /\ c.held = cl.held
  BY AnsweredClient
<1>2. cl' = [c EXCEPT !.done = TRUE]
  OBVIOUS
<1> HIDE DEF c
<1>3. /\ cl' \in Client /\ cl'.done = TRUE /\ cl'.reqs = {} /\ cl'.st = cl.st
      /\ cl'.conn = cl.conn /\ cl'.last = cl.last /\ cl'.tid = cl.tid
      /\ cl'.expect = cl.expect /\ cl'.cache = cl.cache /\ cl'.held = cl.held
  <2>1. cl' \in Client
    <3> DEFINE y == TRUE
    <3>1. y \in BOOLEAN /\ cl' = [c EXCEPT !.done = y]
      BY <1>2, Zenon
    <3> HIDE DEF y
    <3> QED
      BY <1>1, <3>1, Zenon DEF Client
  <2> QED
    BY <1>1, <1>2, <2>1, ZenonT(30) DEF Client
<1>4. /\ down' \in Seq(Wire) /\ Down' \subseteq Down /\ sv' = sv /\ UNCHANGED <<loss, slow>>
      /\ Sound(p)
  BY ReceivedPacket, Zenon DEF Receives
<1>5. up' \in Seq(Wire) /\ UpOrder' /\ \A x \in Up' : x \in Up \/ IsChatter(x)
  BY ReleasedUp, Zenon
<1>6. cl.st = "open" /\ (sv.open /\ sv.conn = cl.conn => Spooled(cl.conn))
  <2>1. r.func = "read" /\ (sv.open /\ sv.conn = cl.conn => Spooled(cl.conn))
    BY <1>4 DEF Sound
  <2> QED
    BY <2>1, Zenon DEF IInv, ClientInv
<1>7. Types'
  BY <1>3, <1>4, <1>5, Zenon DEF IInv, Types
<1>8. /\ \A x \in Up' : IsPacket(x) => x \in Up
      /\ \A x \in Up' : x.k = "TReq" /\ x.func # "tickle" => x \in Up
      /\ \A x \in Up' : x.k = "TReq" /\ x.func = "tickle" => x \in Up \/ x.tid = 0
      /\ \A x \in Up' : IsOpen(x) \/ IsClose(x) => x \in Up
  BY <1>5, Zenon DEF IsChatter, IsPacket, IsOpen, IsClose
<1>9. Answered' \subseteq Answered
  BY <1>3, <1>8, Zenon DEF Answered
<1>10. Coming' \subseteq Coming
  BY <1>3, <1>8, Zenon DEF Coming
<1>11. ClientInv'
  BY <1>3, <1>4, <1>6, Zenon DEF IInv, ClientInv
<1>12. TidInv'
  BY <1>3, <1>4, <1>8, Zenon DEF IInv, TidInv
<1>13. MineInv'
  BY <1>3, Zenon DEF MineInv, Mine, Sound, Final
<1>14. OrderInv'
  BY <1>3, <1>4, <1>5, <1>8, <1>9, <1>10, Zenon DEF IInv, OrderInv
<1>15. AskInv'
  BY <1>3, <1>4, <1>9, ZenonT(30) DEF IInv, AskInv
<1>16. AnswerInv'
  BY <1>4, <1>9, Zenon DEF IInv, AnswerInv
<1>17. DataInv'
  BY <1>4, <1>8, Zenon DEF IInv, DataInv
<1>18. EofMeansSpooled'
  BY <1>3, <1>4, <1>6, ServerRests, Zenon DEF EofMeansSpooled
<1> QED
  BY <1>4, <1>7, <1>11, <1>12, <1>13, <1>14, <1>15, <1>16, <1>17, <1>18, ServerRests,
     Zenon DEF IInv

(* A reply reaches the client.                                             *)
LEMMA ReplyKeeps ==
    ASSUME IInv, NEW p, Receives(p), p.k = "TResp", OnReply(p)
    PROVE  IInv'
<1> DEFINE c == Settled(p)
           d == [c EXCEPT !.st = "open"]
<1>1. CASE ~\E r \in cl.reqs : r.tid = p.tid
  <2>1. UNCHANGED <<cl, up>>
    BY <1>1, Zenon DEF OnReply
  <2>2. ClientChats
    BY <2>1, ClientRests, Zenon DEF UpShrinks
  <2>3. down' \in Seq(Wire) /\ Down' \subseteq Down /\ sv' = sv /\ UNCHANGED <<loss, slow>>
    BY ReceivedPacket, Zenon DEF Receives
  <2> QED
    BY <2>2, <2>3, CalmKeeps, Zenon
<1>2. CASE \E r \in cl.reqs : r.tid = p.tid
  <2>1. PICK r \in cl.reqs : r.tid = p.tid
    BY <1>2
  <2>2. \/ /\ p.func = "open" /\ p.body.ok /\ cl' = Ask(d, "read")
           /\ up' = (up \o Release(p)) \o <<Asked(d, "read")>>
        \/ p.func = "open" /\ cl' = Away(c) /\ up' = up \o Release(p)
        \/ /\ p.func = "read" /\ cl' = Ask(c, "read")
           /\ up' = (up \o Release(p)) \o <<Asked(c, "read")>>
        \/ /\ p.func = "read" /\ p.body.eof /\ cl' = [c EXCEPT !.done = TRUE]
           /\ up' = up \o Release(p)
        \/ p.func = "close" /\ cl' = Away(c) /\ up' = up \o Release(p)
    BY <1>2, Zenon DEF OnReply, Release, Settled
  <2>3. /\ c \in Client /\ c.reqs = {} /\ c.st = cl.st /\ c.conn = cl.conn
        /\ c.last = cl.last /\ c.tid = cl.tid /\ c.expect = cl.expect
        /\ c.cache = cl.cache /\ c.held = cl.held /\ c.done = cl.done
    BY <2>1, AnsweredClient, Zenon
  <2>4. /\ r.func = p.func
        /\ p.func = "open" /\ p.body.ok => sv.conn = cl.conn
        /\ p.func = "open" => \A x \in Up : ~IsOpen(x)
    BY <2>1, ReceivedPacket, Zenon DEF Sound, Final
  <2>5. /\ p.func = "open" => cl.st = "opening"
        /\ p.func = "read" => cl.st = "open"
    BY <2>4, Zenon DEF IInv, ClientInv
  <2>6. CASE cl' = Away(c) /\ up' = up \o Release(p)
    BY <2>1, <2>6, LeavesKeep, Zenon
  <2>7. CASE /\ p.func = "read" /\ p.body.eof /\ cl' = [c EXCEPT !.done = TRUE]
             /\ up' = up \o Release(p)
    BY <2>1, <2>7, EofKeeps, Zenon
  <2>8. CASE /\ p.func = "read" /\ cl' = Ask(c, "read")
             /\ up' = (up \o Release(p)) \o <<Asked(c, "read")>>
    <3> HIDE DEF c
    <3> QED
      BY <2>3, <2>5, <2>8, ReadsKeep, Zenon
  <2>9. CASE /\ p.func = "open" /\ p.body.ok /\ cl' = Ask(d, "read")
             /\ up' = (up \o Release(p)) \o <<Asked(d, "read")>>
    <3> HIDE DEF c
    <3>1. /\ d \in Client /\ d.reqs = {} /\ d.st = "open" /\ d.conn = cl.conn
          /\ d.last = cl.last /\ d.tid = cl.tid /\ d.expect = cl.expect
          /\ d.cache = cl.cache /\ d.held = cl.held /\ d.done = cl.done
      BY <2>3, Zenon DEF Client
    <3> HIDE DEF d
    <3> QED
      BY <2>4, <2>5, <2>9, <3>1, ReadsKeep, Zenon
  <2> QED
    BY <2>2, <2>6, <2>7, <2>8, <2>9, Zenon
<1> QED
  BY <1>1, <1>2, Zenon

(* The packets a SendData is answered with.                                *)
LEMMA PacketsSay ==
    ASSUME NEW c, c.conn \in Conns, c.cache.tid \in Nat, c.cache.burst \in 1..Bursts(c.conn),
           NEW bits \in SUBSET Nat
    PROVE  /\ Packets(c, bits) \in SUBSET Wire /\ IsFiniteSet(Packets(c, bits))
           /\ \A x \in Packets(c, bits) :
                 /\ IsPacket(x) /\ x.tid = c.cache.tid
                 /\ \A r : r.conn = c.conn /\ r.seq = c.cache.burst => PacketOf(x, r)
<1> DEFINE b == c.cache.burst
           z == Size(c.conn, b)
           f == [i \in 0..(z - 1) |->
                    Resp(c.cache.tid, "read", i, i + 1 = z, Packet(c.conn, b, i))]
<1>1. /\ Doc[c.conn] \in Seq(Data) /\ Len(Doc[c.conn]) \in Nat
      /\ Begin(c.conn, b) \in 0..Len(Doc[c.conn])
      /\ Ends[c.conn][b] \in 0..Len(Doc[c.conn])
      /\ z \in 1..kQuantum /\ Begin(c.conn, b) + z = Ends[c.conn][b]
  BY Bursty, Zenon
<1>2. kQuantum \in Nat
  BY PapAssumption, Zenon
<1>3. z \in Nat
  BY <1>1, <1>2
<1> HIDE DEF z
<1>4. ASSUME NEW i \in 0..(z - 1)
      PROVE  Packet(c.conn, b, i) \in Body
  <2>1. Begin(c.conn, b) + i + 1 \in 1..Len(Doc[c.conn])
    BY <1>1, <1>3
  <2>2. Doc[c.conn][Begin(c.conn, b) + i + 1] \in Data
    BY <1>1, <2>1
  <2> QED
    BY <2>2, Zenon DEF Packet, NoBody, Body
<1>5. Packets(c, bits) = {f[i] : i \in {j \in bits : j < z}}
  <2>1. \A j \in bits : j < z => j \in 0..(z - 1)
    BY <1>3
  <2>2. Packets(c, bits) = {Resp(c.cache.tid, "read", i, i + 1 = z, Packet(c.conn, b, i)) :
                              i \in {j \in bits : j < z}}
    BY DEF Packets, z
  <2> QED
    BY <2>1, <2>2, Zenon
<1>6. ASSUME NEW i \in 0..(z - 1)
      PROVE  /\ f[i] \in Wire /\ IsPacket(f[i]) /\ f[i].tid = c.cache.tid
             /\ f[i].seq = i /\ f[i].body = Packet(c.conn, b, i) /\ (f[i].eom <=> i + 1 = z)
  <2>1. i \in Nat /\ "read" \in Funcs /\ (i + 1 = z) \in BOOLEAN
    BY <1>3 DEF Funcs
  <2>2. f[i] = Resp(c.cache.tid, "read", i, i + 1 = z, Packet(c.conn, b, i))
    OBVIOUS
  <2>3. f[i] \in Wire
    BY <1>4, <2>1, <2>2, RespTyped, Zenon
  <2> QED
    BY <2>2, <2>3, Zenon DEF Resp, IsPacket
<1>7. DOMAIN f = 0..(z - 1)
  BY Zenon
<1> HIDE DEF f
<1>8. \A x \in Packets(c, bits) : \E i \in 0..(z - 1) : x = f[i]
  <2>1. \A j \in bits : j < z => j \in 0..(z - 1)
    BY <1>3
  <2> QED
    BY <1>5, <2>1, Zenon
<1>9. IsFiniteSet(Packets(c, bits))
  <2> DEFINE S == 0..(z - 1)
  <2>1. IsFiniteSet(S)
    BY <1>3, FiniteInterval, Zenon
  <2>2. DOMAIN f = S
    BY <1>7, Zenon
  <2>3. Packets(c, bits) \subseteq {f[i] : i \in S}
    BY <1>8, Zenon
  <2> HIDE DEF S
  <2>4. IsFiniteSet({f[i] : i \in S})
    BY <2>1, <2>2, FiniteImage, Zenon
  <2> QED
    BY <2>3, <2>4, FiniteSubset, Zenon
<1>10. ASSUME NEW x \in Packets(c, bits)
       PROVE  /\ x \in Wire /\ IsPacket(x) /\ x.tid = c.cache.tid
              /\ \A r : r.conn = c.conn /\ r.seq = b => PacketOf(x, r)
  <2>1. PICK i \in 0..(z - 1) : x = f[i]
    BY <1>8, Zenon
  <2>2. x.seq < z
    BY <1>3, <1>6, <2>1
  <2> QED
    BY <1>6, <2>1, <2>2, Zenon DEF PacketOf, z
<1> QED
  BY <1>9, <1>10, Zenon

(* The client that has its connection sends packets.                       *)
LEMMA SendsSay ==
    ASSUME IInv, Counts, cl.st = "open", NEW P \in SUBSET Wire, IsFiniteSet(P),
           \A x \in P : IsPacket(x), Sends(P)
    PROVE  /\ up' \in Seq(Wire) /\ Up' \subseteq Up \cup P /\ UpOrder'
           /\ \A x \in Up' : ~IsPacket(x) => x \in Up
           /\ \A x \in Up' : ~IsOpen(x)
<1>1. PICK q \in Orders(P) : up' = up \o q
  BY Zenon DEF Sends
<1>2. q \in Seq(Wire) /\ Range(q) \subseteq P
  BY AnyOrder, Zenon
<1>3. \A x \in Up : ~IsOpen(x)
  BY Zenon DEF IInv, OrderInv
<1>4. \A x \in Range(q) : IsPacket(x) /\ ~IsOpen(x)
  BY <1>2, Zenon DEF IsPacket, IsOpen
<1>5. up' \in Seq(Wire) /\ Up' = Up \cup Range(q) /\ UpOrder'
  BY <1>1, <1>2, <1>3, <1>4, NoOpenOrder, Zenon
<1> QED
  BY <1>2, <1>3, <1>4, <1>5, Zenon

(* A burst is sent, for the first time or again.                           *)
LEMMA BurstSent ==
    ASSUME IInv, Counts, sv' = sv, cl.st = "open", down' \in Seq(Wire), Down' \subseteq Down,
           UNCHANGED <<loss, slow>>, cl' \in Client,
           cl'.st = "open", cl'.conn = cl.conn, cl'.last = cl.last, cl'.tid = cl.tid,
           cl'.reqs = cl.reqs, cl'.done = cl.done, cl'.held \in {cl.held, NoHeld},
           NEW P \in SUBSET Wire, IsFiniteSet(P), Sends(P),
           \A x \in P : IsPacket(x) /\ x.tid = cl'.cache.tid,
           \A x \in P : \A r \in sv.reqs : r.tid = x.tid => PacketOf(x, r),
           cl'.cache.tid \in 1..(sv.nextTid - 1),
           ClientInv', AskInv', AnswerInv'
    PROVE  IInv'
<1>1. /\ up' \in Seq(Wire) /\ Up' \subseteq Up \cup P /\ UpOrder'
      /\ \A x \in Up' : ~IsPacket(x) => x \in Up
      /\ \A x \in Up' : ~IsOpen(x)
  BY SendsSay, Zenon
<1>2. Types'
  BY <1>1, Zenon DEF IInv, Types
<1>3. \A x \in Up' : x.k = "TReq" => x \in Up
  BY <1>1, Zenon DEF IsPacket
<1>4. TidInv'
  <2>1. \A x \in Up' : IsPacket(x) => x.tid \in 1..(sv.nextTid - 1)
    BY <1>1, Zenon DEF IInv, TidInv
  <2> QED
    BY <1>3, <2>1, Zenon DEF IInv, TidInv
<1>5. MineInv'
  <2>1. \A x \in Up' : x.k = "TReq" /\ x.func # "tickle" => Mine(x)'
    BY <1>3, Zenon DEF IInv, MineInv, Mine
  <2>2. \A c : Spooled(c) <=> Spooled(c)'
    BY ServerRests, Zenon
  <2>3. \A e : Sound(e) => Sound(e)'
    BY <2>2, Zenon DEF Sound
  <2>4. \A e : Final(e)'
    BY <1>1, Zenon DEF Final
  <2> QED
    BY <2>1, <2>3, <2>4, Zenon DEF IInv, MineInv
<1>6. Coming' = {}
  BY <1>1, Zenon DEF Coming
<1>7. OrderInv'
  <2>1. \A x \in Up' : IsOpen(x) \/ IsClose(x) => x.conn \in 1..cl'.last
    BY <1>3, Zenon DEF IInv, OrderInv, IsOpen, IsClose
  <2> QED
    BY <1>1, <1>6, <2>1, ZenonT(30) DEF IInv, OrderInv
<1>8. DataInv'
  BY <1>1, Zenon DEF IInv, DataInv
<1>9. EofMeansSpooled'
  BY Zenon DEF IInv, EofMeansSpooled, Spooled
<1> QED
  BY <1>2, <1>4, <1>5, <1>7, <1>8, <1>9, ServerRests, Zenon DEF IInv

(* A SendData that is answered already is answered again.                  *)
LEMMA AgainKeeps ==
    ASSUME IInv, Counts, NEW p, Receives(p), cl.cache # NoCache, p.tid = cl.cache.tid,
           Sends(Packets(cl, p.bits)), cl' = cl
    PROVE  IInv'
<1> DEFINE P == Packets(cl, p.bits)
<1>1. /\ p \in Wire /\ down' \in Seq(Wire) /\ Down' \subseteq Down
      /\ sv' = sv /\ UNCHANGED <<loss, slow>>
  BY ReceivedPacket, Zenon DEF Receives
<1>2. p.bits \in SUBSET Nat
  BY <1>1, Zenon DEF Wire
<1>3. /\ cl.st = "open" /\ cl.conn # 0 /\ cl.cache.tid \in 1..(sv.nextTid - 1)
      /\ cl.cache.burst \in 1..Bursts(cl.conn)
  BY Zenon DEF IInv, ClientInv
<1>4. cl.conn \in Conns /\ cl.cache.tid \in Nat /\ cl \in Client
  BY <1>3, Typed, Zenon DEF IInv, Types
<1>5. /\ P \in SUBSET Wire /\ IsFiniteSet(P)
      /\ \A x \in P : /\ IsPacket(x) /\ x.tid = cl.cache.tid
                      /\ \A r : r.conn = cl.conn /\ r.seq = cl.cache.burst => PacketOf(x, r)
  BY <1>2, <1>3, <1>4, PacketsSay, Zenon
<1>6. Sends(P)
  OBVIOUS
<1> HIDE DEF P
<1>7. \A x \in P : \A r \in sv.reqs : r.tid = x.tid => PacketOf(x, r)
  <2>1. \A r \in sv.reqs : cl.cache.tid = r.tid => r.conn = cl.conn /\ r.seq = cl.cache.burst
    BY Zenon DEF IInv, AskInv
  <2> QED
    BY <1>5, <2>1, Zenon
<1>8. Answered' \subseteq Answered
  <2>1. up' \in Seq(Wire) /\ Up' \subseteq Up \cup P
    BY <1>3, <1>5, <1>6, SendsSay, Zenon
  <2> QED
    BY <1>5, <2>1, Zenon DEF Answered
<1>9. ClientInv'
  BY <1>1, Zenon DEF IInv, ClientInv
<1>10. AskInv'
  BY <1>1, <1>8, Zenon DEF IInv, AskInv
<1>11. AnswerInv'
  BY <1>1, <1>8, Zenon DEF IInv, AnswerInv
<1>12. \A x \in P : IsPacket(x) /\ x.tid = cl'.cache.tid
  BY <1>5, Zenon
<1>13. /\ cl' \in Client /\ cl'.st = "open" /\ cl'.held \in {cl.held, NoHeld}
       /\ cl'.cache.tid \in 1..(sv.nextTid - 1)
  BY <1>3, <1>4, Zenon
<1> QED
  BY <1>1, <1>3, <1>5, <1>6, <1>7, <1>9, <1>10, <1>11, <1>12, <1>13, BurstSent, ZenonT(30)

(* A SendData is answered: it is the one the server waits for, or of no    *)
(* consequence any more.                                                   *)
LEMMA AnswerKeeps ==
    ASSUME IInv, Counts, sv' = sv, down' \in Seq(Wire), Down' \subseteq Down, UNCHANGED <<loss, slow>>,
           cl.st = "open", NEW p \in Wire, IsAsk(p), p.tid \in 1..(sv.nextTid - 1),
           p.conn = cl.conn, p.seq = cl.expect, p.seq <= Bursts(cl.conn),
           \A r \in sv.reqs : Matches(p, r), Answer(cl, p)
    PROVE  IInv'
<1> DEFINE e == cl.expect + 1
           h == [tid |-> p.tid, burst |-> p.seq]
           a == [cl EXCEPT !.expect = e, !.held = NoHeld, !.cache = h]
           P == Packets(a, p.bits)
<1>1. cl' = a /\ Sends(P)
  BY DEF Answer
<1>2. /\ p.bits \in SUBSET Nat /\ p.tid \in Nat /\ p.seq \in Nat
  BY Zenon DEF Wire
<1>3. /\ cl \in Client /\ cl.conn \in Conns /\ cl.expect \in Nat /\ cl.expect # 0
      /\ cl.conn = cl.last /\ Bursts(cl.conn) \in Nat
  <2>1. cl \in Client /\ cl.conn \in Conns \cup {0} /\ cl.expect \in Nat
    BY Typed, ZenonT(30) DEF IInv, Types
  <2>2. cl.conn # 0 /\ cl.expect # 0 /\ cl.conn = cl.last
    BY Zenon DEF IInv, ClientInv
  <2> QED
    BY <2>1, <2>2, Bursty, Zenon
<1>4. /\ e \in Nat /\ h \in [tid : Nat, burst : Nat] /\ h.tid = p.tid /\ h.burst = p.seq
      /\ NoHeld \in Wire
  <2>1. NoHeld \in Wire
    BY TickleTyped, Zenon DEF NoHeld
  <2> QED
    BY <1>2, <1>3, <2>1, SMTT(30)
<1> HIDE DEF e, h
<1>5. a \in Client
  BY <1>3, <1>4, Zenon DEF Client
<1>6. /\ a.expect = e /\ a.held = NoHeld /\ a.cache = h /\ a.st = cl.st /\ a.conn = cl.conn
      /\ a.last = cl.last /\ a.tid = cl.tid /\ a.reqs = cl.reqs /\ a.done = cl.done
  BY <1>3, Zenon DEF Client
<1>7. p.seq \in 1..Bursts(cl.conn)
  BY <1>2, <1>3, SMTT(30)
<1> HIDE DEF a
<1>8. /\ P \in SUBSET Wire /\ IsFiniteSet(P)
      /\ \A x \in P : /\ IsPacket(x) /\ x.tid = p.tid
                      /\ \A r : r.conn = cl.conn /\ r.seq = p.seq => PacketOf(x, r)
  <2>1. a.conn \in Conns /\ a.cache.tid \in Nat /\ a.cache.burst \in 1..Bursts(a.conn)
    BY <1>2, <1>3, <1>4, <1>6, <1>7, Zenon
  <2>2. /\ P \in SUBSET Wire /\ IsFiniteSet(P)
        /\ \A x \in P : /\ IsPacket(x) /\ x.tid = a.cache.tid
                        /\ \A r : r.conn = a.conn /\ r.seq = a.cache.burst => PacketOf(x, r)
    BY <1>2, <2>1, PacketsSay, Zenon
  <2> HIDE DEF P
  <2> QED
    BY <1>4, <1>6, <2>2, Zenon
<1> HIDE DEF P
<1>9. \A r \in sv.reqs : r.tid = p.tid => r.conn = cl.conn /\ r.seq = p.seq
  BY Zenon DEF Matches
<1>10. \A x \in P : \A r \in sv.reqs : r.tid = x.tid => PacketOf(x, r)
  BY <1>8, <1>9, Zenon
<1>11. Answered' \subseteq Answered \cup {p.tid}
  <2>1. Up' \subseteq Up \cup P
    BY <1>1, <1>8, SendsSay, ZenonT(30)
  <2> QED
    BY <1>1, <1>4, <1>6, <1>8, <2>1, Zenon DEF Answered
<1>12. ClientInv'
  <2>1. p.seq < e
    BY <1>3 DEF e
  <2>2. e # 0
    BY <1>3, SMTT(30) DEF e
  <2>3. /\ \A r \in cl.reqs : \A x \in cl.reqs : x = r
        /\ \A r \in cl.reqs :
              /\ r.tid \in 1..cl.tid
              /\ \/ r.func = "open" /\ cl.st = "opening"
                 \/ r.func = "read" /\ cl.st = "open"
                 \/ r.func = "close" /\ cl.st = "closing"
        /\ cl.conn # 0
    BY Zenon DEF IInv, ClientInv
  <2> QED
    BY <1>1, <1>3, <1>4, <1>6, <1>7, <2>1, <2>2, <2>3, Zenon DEF ClientInv
<1>13. /\ sv.open => sv.conn = cl.conn
       /\ sv.open => IF sv.eofSeen THEN sv.seq < cl.expect ELSE sv.seq <= cl.expect
       /\ sv.seq \in Nat
       /\ \A r \in sv.reqs : /\ r.seq \in Nat /\ r.conn <= sv.conn
                             /\ (r.conn = sv.conn => r.seq <= sv.seq)
                             /\ r.tid \in Answered /\ r.conn = cl.conn => r.seq < cl.expect
  <2>1. sv.open => sv.conn = cl.conn
    BY DEF IInv, OrderInv
  <2>2. sv.seq \in Nat /\ sv.reqs \subseteq Request
    BY Typed, Zenon DEF IInv
  <2>3. \A r \in sv.reqs : r.seq \in Nat
    BY <2>2, Zenon DEF Request
  <2> QED
    BY <2>1, <2>2, <2>3, Zenon DEF IInv, AskInv
<1>14. AskInv'
  <2>1. \A r \in sv.reqs :
           /\ r.seq \in 1..Bursts(r.conn)
           /\ r.conn <= sv.conn /\ (r.conn = sv.conn => r.seq <= sv.seq)
           /\ \A x \in Down : IsAsk(x) => Matches(x, r)
    BY Zenon DEF IInv, AskInv
  <2>2. \A r \in sv.reqs : r.tid \in Answered' /\ r.conn = cl.conn => r.seq < e
    BY <1>3, <1>9, <1>11, <1>13, SMTT(30) DEF e
  <2>3. sv.open => IF sv.eofSeen THEN sv.seq < e ELSE sv.seq <= e
    BY <1>3, <1>13 DEF e
  <2> QED
    BY <1>1, <1>4, <1>6, <1>9, <2>1, <2>2, <2>3, ZenonT(30) DEF AskInv
<1>15. AnswerInv'
  <2>1. SUFFICES ASSUME sv.open, NEW r \in sv.reqs, r.tid \in Answered'
                 PROVE  /\ r.conn = sv.conn /\ r.seq = sv.seq /\ ~sv.eofSeen
                        /\ \A x \in sv.reqs : x.tid \in Answered' => x = r
    BY DEF AnswerInv
  <2>2. \A x \in sv.reqs : x.tid \in Answered =>
           /\ x.conn = sv.conn /\ x.seq = sv.seq /\ ~sv.eofSeen
           /\ \A y \in sv.reqs : y.tid \in Answered => y = x
    BY <2>1, Zenon DEF IInv, AnswerInv
  <2>3. \A x \in sv.reqs : \A y \in sv.reqs : x.tid = y.tid => x = y
    BY Zenon DEF IInv, TidInv
  <2>4. \A x \in sv.reqs : x.tid = p.tid =>
           x.conn = sv.conn /\ x.seq = cl.expect /\ sv.seq = cl.expect /\ ~sv.eofSeen
    BY <1>3, <1>9, <1>13, <2>1, SMTT(30)
  <2>5. \A x \in sv.reqs : x.tid \in Answered => sv.seq < cl.expect
    BY <1>13, <2>1, <2>2, Zenon
  <2>6. CASE r.tid = p.tid
    <3>1. \A x \in sv.reqs : x.tid \notin Answered
      BY <1>3, <1>13, <2>4, <2>5, <2>6, SMTT(30)
    <3> QED
      BY <1>11, <2>3, <2>4, <2>6, <3>1, Zenon
  <2>7. CASE r.tid # p.tid
    <3>1. r.tid \in Answered
      BY <1>11, <2>1, <2>7, Zenon
    <3>2. \A x \in sv.reqs : x.tid # p.tid
      BY <1>3, <1>13, <2>4, <2>5, <3>1, SMTT(30)
    <3> QED
      BY <1>11, <2>2, <3>1, <3>2, Zenon
  <2> QED
    BY <2>6, <2>7, Zenon
<1>16. /\ cl' \in Client /\ cl'.st = "open" /\ cl'.conn = cl.conn /\ cl'.last = cl.last
       /\ cl'.tid = cl.tid /\ cl'.reqs = cl.reqs /\ cl'.done = cl.done
       /\ cl'.held \in {cl.held, NoHeld} /\ cl'.cache.tid \in 1..(sv.nextTid - 1)
       /\ \A x \in P : IsPacket(x) /\ x.tid = cl'.cache.tid
  BY <1>1, <1>4, <1>5, <1>6, <1>8, Zenon
<1>17. Sends(P)
  BY <1>1, Zenon
<1> QED
  BY <1>8, <1>10, <1>12, <1>14, <1>15, <1>16, <1>17, BurstSent, Zenon

(* A client that thinks holds the SendData.                                *)
LEMMA HoldKeeps ==
    ASSUME IInv, NEW p, Receives(p), IsAsk(p), p.tid \in 1..(sv.nextTid - 1),
           cl.st = "open", p.conn = cl.conn, p.seq = cl.expect, p.seq <= Bursts(cl.conn),
           \A r \in sv.reqs : Matches(p, r),
           cl' = [cl EXCEPT !.held = p], up' = up
    PROVE  IInv'
<1>1. /\ p \in Wire /\ down' \in Seq(Wire) /\ Down' \subseteq Down
      /\ sv' = sv /\ UNCHANGED <<loss, slow>>
  BY ReceivedPacket, Zenon DEF Receives
<1>2. cl \in Client /\ cl.expect \in Nat /\ cl.expect # 0 /\ cl.conn # 0
  BY Typed, Zenon DEF IInv, Types, ClientInv
<1>3. cl' \in Client
  BY <1>1, <1>2, Zenon DEF Client
<1>4. /\ cl'.held = p /\ cl'.st = cl.st /\ cl'.conn = cl.conn /\ cl'.last = cl.last
      /\ cl'.tid = cl.tid /\ cl'.reqs = cl.reqs /\ cl'.expect = cl.expect
      /\ cl'.cache = cl.cache /\ cl'.done = cl.done
  BY <1>2, Zenon DEF Client
<1>5. Up' = Up /\ UpOrder' /\ Answered' = Answered /\ Coming' = Coming
  <2>1. Up' = Up
    BY Zenon DEF Up
  <2>2. UpOrder
    BY Zenon DEF IInv, OrderInv
  <2>3. UpOrder'
    BY <2>2, Zenon DEF UpOrder
  <2> QED
    BY <1>4, <2>1, <2>3, Zenon DEF Answered, Coming
<1>6. Types'
  BY <1>1, <1>3, Zenon DEF IInv, Types
<1>7. ClientInv'
  <2>1. cl.expect \in 1..Bursts(cl.conn)
    <3>1. Bursts(cl.conn) \in Nat
      <4>1. cl.conn \in Conns
        BY <1>2, Typed, Zenon DEF IInv
      <4> QED
        BY <4>1, Bursty, Zenon
    <3> QED
      BY <1>2, <3>1
  <2> QED
    BY <1>1, <1>4, <2>1, Zenon DEF IInv, ClientInv
<1>8. TidInv'
  BY <1>1, <1>4, <1>5, Zenon DEF IInv, TidInv
<1>9. MineInv'
  <2>1. \A c : Spooled(c) <=> Spooled(c)'
    BY <1>1, ServerRests, Zenon
  <2>2. \A e : Sound(e) => Sound(e)'
    BY <1>1, <1>4, <2>1, Zenon DEF Sound
  <2>3. \A e : Final(e) => Final(e)'
    BY <1>4, <1>5, Zenon DEF Final
  <2>4. \A x : Mine(x) => Mine(x)'
    BY <1>4, Zenon DEF Mine
  <2> QED
    BY <1>1, <1>4, <1>5, <2>2, <2>3, <2>4, Zenon DEF IInv, MineInv
<1>10. OrderInv'
  BY <1>1, <1>4, <1>5, Zenon DEF IInv, OrderInv
<1>11. AskInv'
  BY <1>1, <1>4, <1>5, Zenon DEF IInv, AskInv
<1>12. AnswerInv'
  BY <1>1, <1>5, Zenon DEF IInv, AnswerInv
<1>13. DataInv'
  BY <1>1, <1>5, Zenon DEF IInv, DataInv
<1>14. EofMeansSpooled'
  BY <1>1, <1>4, Zenon DEF IInv, EofMeansSpooled, Spooled
<1> QED
  BY <1>1, <1>6, <1>7, <1>8, <1>9, <1>10, <1>11, <1>12, <1>13, <1>14, ServerRests, Zenon DEF IInv

(* A packet that tells the client nothing.                                 *)
LEMMA IgnoredKeeps ==
    ASSUME IInv, NEW p, Receives(p), UNCHANGED <<cl, up>>
    PROVE  IInv'
<1>1. down' \in Seq(Wire) /\ Down' \subseteq Down /\ sv' = sv /\ UNCHANGED <<loss, slow>>
  BY ReceivedPacket DEF Receives
<1>2. ClientChats
  BY ClientRests DEF UpShrinks
<1> QED
  BY <1>1, <1>2, CalmKeeps, Zenon

(* The server releases an answer: the client forgets it.                   *)
LEMMA ForgetKeeps ==
    ASSUME IInv, NEW p, Receives(p), up' = up, cl' = [cl EXCEPT !.cache = NoCache]
    PROVE  IInv'
<1>1. down' \in Seq(Wire) /\ Down' \subseteq Down /\ sv' = sv /\ UNCHANGED <<loss, slow>>
  BY ReceivedPacket, Zenon DEF Receives
<1>2. cl \in Client /\ NoCache \in [tid : Nat, burst : Nat]
  BY DEF IInv, Types, NoCache
<1>3. /\ cl' \in Client /\ cl'.st = cl.st /\ cl'.conn = cl.conn /\ cl'.last = cl.last
      /\ cl'.tid = cl.tid /\ cl'.reqs = cl.reqs /\ cl'.expect = cl.expect
      /\ cl'.cache = NoCache /\ cl'.done = cl.done /\ cl'.held = cl.held
  BY <1>2, Zenon DEF Client
<1>4. SameClient
  <2>1. \A r \in cl.reqs : \A x \in cl.reqs : x = r
    BY Zenon DEF IInv, ClientInv
  <2> QED
    BY <1>3, <2>1, Zenon DEF SameClient
<1>5. ClientChats
  BY <1>3, <1>4, ShrunkUp, Zenon DEF ClientChats, UpShrinks
<1> QED
  BY <1>1, <1>5, CalmKeeps, Zenon

(* A SendData reaches the client.                                          *)
LEMMA SendDataKeeps ==
    ASSUME IInv, Counts, NEW p, Receives(p), IsAsk(p), OnSendData(p)
    PROVE  IInv'
<1> DEFINE fresh == /\ cl.st = "open" /\ p.conn = cl.conn /\ p.seq = cl.expect
                    /\ p.seq <= Bursts(cl.conn) /\ cl.held = NoHeld
           again == cl.cache # NoCache /\ p.tid = cl.cache.tid
<1>1. \/ again /\ Sends(Packets(cl, p.bits)) /\ cl' = cl
      \/ fresh /\ Answer(cl, p)
      \/ fresh /\ cl' = [cl EXCEPT !.held = p] /\ up' = up
      \/ UNCHANGED <<cl, up>>
  BY Zenon DEF OnSendData
<1>2. /\ p \in Down /\ p \in Wire /\ down' \in Seq(Wire) /\ Down' \subseteq Down
      /\ sv' = sv /\ UNCHANGED <<loss, slow>>
  BY ReceivedPacket, Zenon DEF Receives
<1>3. /\ p.tid \in 1..(sv.nextTid - 1)
      /\ \A r \in sv.reqs : Matches(p, r)
  BY <1>2, Zenon DEF IInv, TidInv, AskInv
<1>4. CASE again /\ Sends(Packets(cl, p.bits)) /\ cl' = cl
  BY <1>4, AgainKeeps, Zenon
<1>5. CASE fresh /\ Answer(cl, p)
  BY <1>2, <1>3, <1>5, AnswerKeeps, Zenon
<1>6. CASE fresh /\ cl' = [cl EXCEPT !.held = p] /\ up' = up
  BY <1>3, <1>6, HoldKeeps, Zenon
<1>7. CASE UNCHANGED <<cl, up>>
  BY <1>7, IgnoredKeeps, Zenon
<1> QED
  BY <1>1, <1>4, <1>5, <1>6, <1>7, Zenon

(* Whatever packet reaches the client.                                     *)
LEMMA ClientReceivesKeeps ==
    ASSUME IInv, Counts, ClientReceives
    PROVE  IInv'
<1>1. PICK p : p = Head(down)
  OBVIOUS
<1>2. Receives(p)
  BY <1>1, Zenon DEF ClientReceives, Receives
<1>3. \/ IsAsk(p) /\ OnSendData(p)
      \/ p.k = "TResp" /\ OnReply(p)
      \/ up' = up /\ cl' = [cl EXCEPT !.cache = NoCache]
      \/ UNCHANGED <<cl, up>>
  BY <1>1, Zenon DEF ClientReceives, IsAsk
<1> QED
  BY <1>2, <1>3, SendDataKeeps, ReplyKeeps, ForgetKeeps, IgnoredKeeps, Zenon

(* The client answers the SendData it held.                                *)
LEMMA ClientThoughtKeeps ==
    ASSUME IInv, Counts, ClientThought
    PROVE  IInv'
<1>1. PICK p : p = cl.held
  OBVIOUS
<1>2. /\ p # NoHeld /\ Answer(cl, p) /\ UNCHANGED <<down, loss, sv, slow>>
  BY <1>1, Zenon DEF ClientThought
<1>3. p \in Wire
  BY <1>1, Typed, Zenon DEF IInv
<1>4. /\ IsAsk(p) /\ p.tid \in 1..(sv.nextTid - 1) /\ p.conn = cl.conn /\ p.seq = cl.expect
      /\ cl.expect \in 1..Bursts(cl.conn) /\ cl.st = "open"
  BY <1>1, <1>2, Zenon DEF IInv, ClientInv
<1>5. \A r \in sv.reqs : Matches(p, r)
  BY <1>1, <1>2, Zenon DEF IInv, AskInv
<1>6. p.seq <= Bursts(cl.conn)
  <2>1. Bursts(cl.conn) \in Nat
    <3>1. cl.conn \in Conns
      BY <1>4, Typed, Zenon DEF IInv, ClientInv
    <3> QED
      BY <3>1, Bursty, Zenon
  <2> QED
    BY <1>4, <2>1
<1>7. down' \in Seq(Wire) /\ Down' \subseteq Down
  BY <1>2, ShrunkDown, Zenon
<1> QED
  BY <1>2, <1>3, <1>4, <1>5, <1>6, <1>7, AnswerKeeps, Zenon

-----------------------------------------------------------------------------
(* The start, and a step of nobody's.                                      *)

(* At the start nothing is on the wires and nobody waits for anything.     *)
LEMMA InitIInv ==
    ASSUME Init
    PROVE  IInv
<1>1. /\ up = <<>> /\ down = <<>> /\ Up = {} /\ Down = {} /\ loss = 0 /\ slow \in BOOLEAN
  BY SMTT(30) DEF Init, Up, Down, Range
<1>2. /\ sv.open = FALSE /\ sv.conn = 0 /\ sv.spool = <<>> /\ sv.pend = NoTxn /\ sv.reqs = {}
      /\ sv.xo = {} /\ sv.eofSeen = FALSE /\ sv.seq = 0 /\ sv.nextTid = 1
  BY Zenon DEF Init
<1>3. /\ cl.st = "idle" /\ cl.conn = 0 /\ cl.last = 0 /\ cl.reqs = {} /\ cl.cache = NoCache
      /\ cl.held = NoHeld /\ cl.done = FALSE /\ cl.tid = 0 /\ cl.expect = 0
  BY DEF Init
<1>4. Types
  <2>1. sv \in Server
    <3>1. NoTxn \in Txn /\ <<>> \in Seq(Data) /\ <<>> \in Seq(Job) /\ 0 \in 0..(kMinutes + 1)
      BY DEF NoTxn, Txn, Funcs, kMinutes
    <3> HIDE DEF NoTxn
    <3>2. 0 \in Nat /\ 1 \in Nat \ {0} /\ 0 \in Conns \cup {0}
      OBVIOUS
    <3>3. {} \subseteq Request /\ {} \subseteq Reply /\ {} \subseteq Nat
      BY Zenon
    <3> QED
      BY <3>1, <3>2, <3>3, ZenonT(30) DEF Init, Server
  <2>2. cl \in Client
    <3>1. NoHeld \in Wire
      BY TickleTyped, Zenon DEF NoHeld
    <3>2. NoCache \in [tid : Nat, burst : Nat]
      BY DEF NoCache
    <3> QED
      BY <3>1, <3>2, ZenonT(30) DEF Init, Client
  <2>3. loss \in 0..MaxLoss
    <3>1. MaxLoss \in Nat
      BY PapAssumption
    <3> QED
      BY <1>1, <3>1
  <2>4. up \in Seq(Wire) /\ down \in Seq(Wire)
    BY <1>1
  <2>5. IsFiniteSet(sv.reqs)
    BY <1>2, FiniteInterval, Zenon
  <2> QED
    BY <1>1, <2>1, <2>2, <2>3, <2>4, <2>5, Zenon DEF Types
<1>5. ClientInv
  BY <1>3, Zenon DEF ClientInv
<1>6. TidInv
  BY <1>1, <1>2, Zenon DEF TidInv
<1>7. MineInv
  BY <1>1, <1>2, Zenon DEF MineInv
<1>8. OrderInv
  <2>1. UpOrder
    BY <1>1 DEF UpOrder
  <2>2. Coming = {}
    BY <1>1, <1>3, Zenon DEF Coming
  <2>3. DOMAIN sv.spool = {}
    BY <1>2, SMTT(30)
  <2> QED
    BY <1>1, <1>2, <1>3, <2>1, <2>2, <2>3 DEF OrderInv
<1>9. AskInv /\ AnswerInv /\ DataInv
  BY <1>2, <1>3, ZenonT(30) DEF AskInv, AnswerInv, DataInv
<1>10. JobInv /\ EofMeansSpooled
  BY <1>2, <1>3, Zenon DEF JobInv, EofMeansSpooled
<1>11. JobsExact /\ SpooledOnce
  <2>1. DOMAIN sv.spool = {}
    BY <1>2
  <2> QED
    BY <2>1, Zenon DEF JobsExact, SpooledOnce
<1> QED
  BY <1>4, <1>5, <1>6, <1>7, <1>8, <1>9, <1>10, <1>11, Zenon DEF IInv

(* Nothing happens.                                                        *)
LEMMA StutterKeeps ==
    ASSUME IInv, UNCHANGED vars
    PROVE  IInv'
<1>1. up' = up /\ down' = down /\ UNCHANGED <<loss, slow>> /\ sv' = sv /\ cl' = cl
  BY DEF vars
<1>2. ClientChats
  BY <1>1, ClientRests, Zenon DEF UpShrinks
<1>3. down' \in Seq(Wire) /\ Down' \subseteq Down
  BY <1>1, ShrunkDown, Zenon
<1> QED
  BY <1>1, <1>2, <1>3, CalmKeeps, Zenon

-----------------------------------------------------------------------------
(* The theorems.                                                           *)

INSTANCE FiniteSetTheorems

(* The size of a finite set is a number.                                   *)
LEMMA CountsHold == Counts
BY FS_CardinalityType, FS_EmptySet, FS_Singleton, Zenon DEF Counts

(* Every step keeps the invariant.                                         *)
LEMMA NextIInv ==
    ASSUME IInv, [Next]_vars
    PROVE  IInv'
<1>1. CASE handleAtp
  BY <1>1, HandleKeeps, CountsHold, Zenon
<1>2. CASE ClientReceives
  BY <1>2, ClientReceivesKeeps, CountsHold, Zenon
<1>3. CASE ClientOpens
  BY <1>3, ClientOpensKeeps, Zenon
<1>4. CASE ClientThought
  BY <1>4, ClientThoughtKeeps, CountsHold
<1>5. CASE ClientCloses
  BY <1>5, ClientClosesKeeps, Zenon
<1>6. CASE ClientGone
  BY <1>6, ClientGoneKeeps
<1>7. CASE Second
  BY <1>7, SecondKeeps, CountsHold
<1>8. CASE Sweep
  BY <1>8, SweepKeeps
<1>9. CASE Minute
  BY <1>9, MinuteKeeps
<1>10. CASE Lose
  BY <1>10, LoseKeeps
<1>11. CASE setEnabled
  BY <1>11, EnableKeeps
<1>12. CASE UNCHANGED vars
  BY <1>12, StutterKeeps, Zenon
<1> QED
  BY <1>1, <1>2, <1>3, <1>4, <1>5, <1>6, <1>7, <1>8, <1>9, <1>10, <1>11, <1>12, Zenon DEF Next, Finished

(* The invariant holds in every state the server, the client and the wires *)
(* reach, whatever is printed, lost, repeated, cancelled or switched off.  *)
THEOREM PapInvariant == Spec => []IInv
<1>1. Init => IInv
  BY InitIInv, Zenon
<1>2. IInv /\ [Next]_vars => IInv'
  BY NextIInv, Zenon
<1> QED
  BY <1>1, <1>2, PTL DEF Spec

(* The invariant is stronger than the type invariant.                      *)
LEMMA TypesOK ==
    ASSUME IInv
    PROVE  TypeOK
<1>1. sv \in Server /\ cl \in Client /\ loss \in 0..MaxLoss /\ slow \in BOOLEAN
  BY Zenon DEF IInv, Types
<1>2. /\ sv.open \in BOOLEAN /\ sv.inFlight \in BOOLEAN /\ sv.eofSeen \in BOOLEAN
      /\ sv.conn \in Conns \cup {0} /\ sv.seq \in Nat /\ sv.silent \in 0..(kMinutes + 1)
      /\ sv.job \in Seq(Data) /\ sv.answers \in Nat /\ sv.reqs \subseteq Request
  BY <1>1, Zenon DEF Server
<1>3. cl.st \in {"idle", "opening", "open", "closing"} /\ cl.conn \in Conns \cup {0}
  BY <1>1, Zenon DEF Client
<1>4. \A r \in sv.reqs : r.tries \in 1..kTries
  BY <1>2, Zenon DEF Request
<1>5. \A r \in sv.reqs : r.need # {}
  BY Zenon DEF IInv, DataInv, Holds
<1> QED
  BY <1>1, <1>2, <1>3, <1>4, <1>5, Zenon DEF TypeOK

(* PapServer's and AtalkStack's state stays well formed: no request of     *)
(* AtalkStack outlives kTries tries or is kept once its bitmap is empty.   *)
THEOREM PapTypeCorrect == Spec => []TypeOK
BY PapInvariant, TypesOK, PTL

(* What finishJob() spools is the beginning of what its connection         *)
(* printed, and all of it when EOF ended the job.                          *)
THEOREM PapJobsExact == Spec => []JobsExact
<1>1. IInv => JobsExact
  BY Zenon DEF IInv
<1> QED
  BY <1>1, PapInvariant, PTL

(* No retried OpenConn, CloseConn or SendData has finishJob() spool the    *)
(* job of a connection twice.                                              *)
THEOREM PapSpooledOnce == Spec => []SpooledOnce
<1>1. IInv => SpooledOnce
  BY Zenon DEF IInv
<1> QED
  BY <1>1, PapInvariant, PTL

(* A client that has read EOF on the connection the server holds has had   *)
(* its whole job spooled: flushClientRead() never says EOF too early.      *)
THEOREM PapEofMeansSpooled == Spec => []EofMeansSpooled
<1>1. IInv => EofMeansSpooled
  BY DEF IInv
<1> QED
  BY <1>1, PapInvariant, PTL

=============================================================================
