-------------------------- MODULE PapServerHandler --------------------------
(***************************************************************************)
(* handleAtp() on a response and on a release, the clock, the wires and    *)
(* the user keep the invariant.                                            *)
(***************************************************************************)
EXTENDS PapServerLemmas
-----------------------------------------------------------------------------
(* A packet of a burst.                                                    *)

(* The request it answers.                                                 *)
Answers(p, r) == IsPacket(p) /\ r \in sv.reqs /\ r.tid = p.tid

(* A complete response is its burst.                                       *)
Pages(pkts) == [i \in DOMAIN pkts |-> pkts[i].n]

(* readDone(): the request is over.                                        *)
Over(p, r) == [Emit([Idle EXCEPT !.s.reqs = sv.reqs \ {r}], Rel(p.tid))
                  EXCEPT !.s.inFlight = FALSE]
Took(p, r, pkts) ==
    [Over(p, r) EXCEPT
        !.s.silent = 0,
        !.s.job = @ \o Pages(pkts),
        !.s.answers = @ + Cardinality({i \in DOMAIN pkts : pkts[i].n \in Queries})]

(* The server once the burst is in its job.                                *)
HasTaken(n, r, pkts) ==
    /\ DOMAIN n = {"s", "out"}
    /\ n.s.open = sv.open /\ n.s.conn = sv.conn /\ n.s.seq = sv.seq
    /\ n.s.inFlight = FALSE /\ n.s.eofSeen = sv.eofSeen
    /\ n.s.job = sv.job \o Pages(pkts)
    /\ n.s.spool = sv.spool /\ n.s.nextTid = sv.nextTid
    /\ n.s.reqs = sv.reqs \ {r} /\ n.s.pend = sv.pend

(* A packet of a burst.                                                    *)
LEMMA HandleResp ==
    ASSUME IInv, Counts
    PROVE  \A p : Takes(p) /\ IsPacket(p) /\ Do(TResp(p)) => IInv'
(* A response packet answers the request of its identifier.                *)
<1>1. ASSUME IInv, NEW p, Takes(p), NEW r, Answers(p, r)
      PROVE  /\ p \in Up /\ p \in Wire /\ p.seq \in Nat /\ r \in Request /\ PacketOf(p, r)
             /\ r.tid \in Answered
             /\ r.seq \in 1..Bursts(r.conn) /\ Size(r.conn, r.seq) \in 1..kQuantum
             /\ kQuantum \in Nat /\ Holds(r)
  <2> USE <1>1
  <2>1. p \in Up
    <3>1. up \in Seq(Wire)
      BY Zenon DEF IInv, Types
    <3> QED
      BY <3>1, TailOfWire DEF Takes, Up
  <2>2. p \in Wire /\ r \in Request
    BY <2>1, Typed, Zenon DEF IInv, Answers
  <2>3. PacketOf(p, r) /\ Holds(r) /\ r.seq \in 1..Bursts(r.conn)
    BY <2>1, Zenon DEF IInv, DataInv, AskInv, Answers
  <2>4. r.tid \in Answered
    BY <2>1, Zenon DEF Answered, Answers
  <2>5. p.seq \in Nat /\ r.conn \in Conns
    BY <2>2 DEF Wire, Request
  <2>6. Size(r.conn, r.seq) \in 1..kQuantum
    BY <2>3, <2>5, Bursty
  <2>7. kQuantum \in Nat
    BY PapAssumption
  <2> QED
    BY <2>1, <2>2, <2>3, <2>4, <2>5, <2>6, <2>7, Zenon
(* What Store() makes of the packets there are.                            *)
<1>2. ASSUME NEW resp \in Seq(Body), NEW i \in Nat, NEW b \in Body
      PROVE  /\ Store(resp, i, b) \in Seq(Body)
             /\ Len(resp) <= i => Len(Store(resp, i, b)) = i + 1
             /\ ~(Len(resp) <= i) => Len(Store(resp, i, b)) = Len(resp)
             /\ Store(resp, i, b)[i + 1] = b
             /\ \A j \in 1..Len(resp) : j # i + 1 => Store(resp, i, b)[j] = resp[j]
  <2> USE <1>2
  <2> DEFINE L == IF Len(resp) <= i THEN i + 1 ELSE Len(resp)
             f == [j \in 1..L |-> IF j = i + 1 THEN b
                                  ELSE IF j <= Len(resp) THEN resp[j] ELSE NoBody]
  <2>1. Store(resp, i, b) = f
    BY DEF Store
  <2>2. L \in Nat /\ Len(resp) \in Nat /\ i + 1 \in 1..L /\ Len(resp) <= L
    OBVIOUS
  <2> HIDE DEF L
  <2>3. f \in [1..L -> Body]
    <3>1. \A j \in 1..L : j <= Len(resp) => resp[j] \in Body
      BY <2>2
    <3> QED
      BY <2>2, <3>1, BodiesTyped, Zenon
  <2>4. f \in Seq(Body) /\ Len(f) = L
    BY <2>2, <2>3
  <2>5. f[i + 1] = b /\ \A j \in 1..Len(resp) : j # i + 1 => f[j] = resp[j]
    BY <2>2
  <2> QED
    BY <2>1, <2>4, <2>5, Zenon DEF L
(* A packet is kept where it belongs, and the last one ends the response.  *)
<1>3. ASSUME IInv, NEW p, Takes(p), NEW r, Answers(p, r)
      PROVE  LET g == got(r, p) IN
             /\ g \in Request /\ g.tid = r.tid /\ g.conn = r.conn /\ g.seq = r.seq
             /\ Len(g.resp) <= Size(r.conn, r.seq)
             /\ \A b \in 0..(Size(r.conn, r.seq) - 1) :
                   b \in g.need \/ (b < Len(g.resp) /\ g.resp[b + 1] = Packet(r.conn, r.seq, b))
  <2> USE <1>3
  <2> DEFINE g == got(r, p)
             s == Store(r.resp, p.seq, p.body)
             d == needs(r.need, p)
             z == Size(r.conn, r.seq)
  <2>1. /\ p \in Wire /\ p.seq \in Nat /\ r \in Request /\ PacketOf(p, r)
        /\ z \in 1..kQuantum /\ kQuantum \in Nat /\ Holds(r)
    BY <1>1, Zenon
  <2>2. r.resp \in Seq(Body) /\ p.body \in Body /\ r.need \in SUBSET (0..(kQuantum - 1))
    BY <2>1 DEF Request, Wire
  <2>3. /\ s \in Seq(Body)
        /\ Len(r.resp) <= p.seq => Len(s) = p.seq + 1
        /\ ~(Len(r.resp) <= p.seq) => Len(s) = Len(r.resp)
        /\ s[p.seq + 1] = p.body
        /\ \A j \in 1..Len(r.resp) : j # p.seq + 1 => s[j] = r.resp[j]
    BY <2>1, <2>2, <1>2, ZenonT(30)
  <2>4. d \in SUBSET (0..(kQuantum - 1))
        /\ \A b \in r.need : b # p.seq /\ (p.eom => b < p.seq) => b \in d
    BY <2>2 DEF needs
  <2>5. g = [r EXCEPT !.resp = s, !.need = d]
    BY DEF got
  <2> HIDE DEF g, s, d, z
  <2>6. /\ g \in Request /\ g.tid = r.tid /\ g.conn = r.conn /\ g.seq = r.seq
        /\ g.resp = s /\ g.need = d
    BY <2>1, <2>3, <2>4, <2>5, Zenon DEF Request
  <2>7. /\ p.seq < z /\ p.body = Packet(r.conn, r.seq, p.seq)
        /\ p.eom => p.seq + 1 = z
        /\ Len(r.resp) <= z
        /\ \A b \in 0..(z - 1) :
              b \in r.need \/ (b < Len(r.resp) /\ r.resp[b + 1] = Packet(r.conn, r.seq, b))
    BY <2>1, Zenon DEF PacketOf, Holds, z
  <2>8. Len(r.resp) \in Nat /\ Len(s) <= z
    BY <2>1, <2>2, <2>3, <2>7
  <2>9. ASSUME NEW b \in 0..(z - 1)
        PROVE  b \in d \/ (b < Len(s) /\ s[b + 1] = Packet(r.conn, r.seq, b))
    <3>1. CASE b = p.seq
      BY <2>1, <2>3, <2>7, <2>8, <3>1
    <3>2. CASE b # p.seq /\ b \in r.need
      <4>1. p.eom => b < p.seq
        BY <2>1, <2>7, <3>2
      <4> QED
        BY <2>4, <3>2, <4>1, Zenon
    <3>3. CASE b # p.seq /\ b \notin r.need
      <4>1. b < Len(r.resp) /\ r.resp[b + 1] = Packet(r.conn, r.seq, b)
        BY <2>7, <3>3
      <4>2. b + 1 \in 1..Len(r.resp) /\ b + 1 # p.seq + 1 /\ b < Len(s)
        BY <2>1, <2>3, <2>8, <3>3, <4>1, SMTT(30)
      <4> QED
        BY <2>3, <4>1, <4>2, Zenon
    <3> QED
      BY <3>1, <3>2, <3>3, Zenon
  <2>10. /\ Len(g.resp) <= z
         /\ \A b \in 0..(z - 1) :
               b \in g.need \/ (b < Len(g.resp) /\ g.resp[b + 1] = Packet(r.conn, r.seq, b))
    BY <2>6, <2>8, <2>9
  <2> QED
    BY <2>6, <2>10, Zenon DEF g, z
(* More packets are needed.                                                *)
<1>4. ASSUME IInv, NEW p, Takes(p), NEW r, Answers(p, r), got(r, p).need # {},
             Do([Idle EXCEPT !.s.reqs = (@ \ {r}) \cup {got(r, p)}])
      PROVE  IInv'
  <2> USE <1>4
  <2> DEFINE g == got(r, p)
             Q == (sv.reqs \ {r}) \cup {g}
             n == [Idle EXCEPT !.s.reqs = Q]
  <2>1. UpShrinks /\ cl' = cl /\ UNCHANGED <<loss, cl, slow>>
    BY TakenShrinks DEF Takes
  <2>2. /\ g \in Request /\ g.tid = r.tid /\ g.conn = r.conn /\ g.seq = r.seq
        /\ Len(g.resp) <= Size(r.conn, r.seq)
        /\ \A b \in 0..(Size(r.conn, r.seq) - 1) :
              b \in g.need \/ (b < Len(g.resp) /\ g.resp[b + 1] = Packet(r.conn, r.seq, b))
    BY <1>3
  <2>3. Do(n) /\ g.need # {}
    <3>1. Idle.s = sv
      BY DEF Idle
    <3> QED
      BY <3>1
  <2> HIDE DEF g
  <2>4. Holds(g)
    BY <2>2, <2>3 DEF Holds
  <2>5. r \in sv.reqs /\ sv.reqs \subseteq Request /\ IsFiniteSet(sv.reqs)
    BY Typed, Zenon DEF Answers, IInv, Types
  <2>6. /\ \A x \in sv.reqs : Holds(x)
        /\ \A y \in sv.reqs : \A x \in sv.reqs : y.tid = x.tid => y = x
    BY Zenon DEF IInv, DataInv, TidInv
  <2>7. Q \in SUBSET Request /\ IsFiniteSet(Q) /\ \A x \in Q : x = g \/ (x \in sv.reqs /\ x # r)
    <3>1. IsFiniteSet(sv.reqs \ {r})
      BY <2>5, FiniteSubset
    <3>2. IsFiniteSet(Q)
      BY <3>1, FiniteAdd, Zenon
    <3> QED
      BY <2>2, <2>5, <3>2, Zenon
  <2> HIDE DEF Q
  <2>8. Kept(Q)
    <3>1. ASSUME NEW x \in Q
          PROVE  Holds(x) /\ \E y \in sv.reqs : x.tid = y.tid /\ x.conn = y.conn /\ x.seq = y.seq
      BY <2>2, <2>4, <2>5, <2>6, <2>7, Zenon
    <3>2. ASSUME NEW x \in Q, NEW y \in Q, x.tid = y.tid
          PROVE  x = y
      BY <2>2, <2>5, <2>6, <2>7, <3>2, Zenon
    <3> QED
      BY <3>1, <3>2, Zenon DEF Kept
  <2>9. n.s = [sv EXCEPT !.reqs = Q] /\ n.out = Idle.out /\ DOMAIN n = {"s", "out"}
    BY Zenon DEF Idle
  <2> HIDE DEF n
  <2>10. sv \in Server
    BY Zenon DEF IInv, Types
  <2>11. n.s \in Server /\ n.s.xo = sv.xo /\ n.s.reqs = Q /\ n.s.pend = sv.pend
    BY <2>7, <2>9, <2>10, Zenon DEF Server
  <2>12. /\ n.s.conn = sv.conn /\ n.s.seq = sv.seq /\ n.s.eofSeen = sv.eofSeen
         /\ n.s.nextTid = sv.nextTid /\ n.s.job = sv.job /\ n.s.spool = sv.spool
         /\ n.s.open = sv.open
    BY <2>9, <2>10, Zenon DEF Server
  <2>13. Says(n, {}, {})
    <3>1. Says(Idle, {}, {}) /\ Idle.s = sv
      BY IdleSays, Zenon DEF IInv
    <3> QED
      BY <2>9, <2>11, <3>1, TouchedSays, Zenon
  <2>14. n.s.pend \in {NoTxn, sv.pend} /\ Kept(n.s.reqs) /\ IsFiniteSet(n.s.reqs)
         /\ (\A x \in {} : GoodReply(x)) /\ (\A x \in {} : GoodPacket(x))
    BY <2>7, <2>8, <2>11, Zenon
  <2> QED
    BY <2>1, <2>3, <2>12, <2>13, <2>14, TalkKeeps, SMT
(* One burst more of a document.                                           *)
<1>5. ASSUME NEW D \in Seq(Data), NEW b \in Nat, NEW z \in Nat, b + z <= Len(D),
             NEW f \in Seq(Data), Len(f) = z, \A i \in 1..z : f[i] = D[b + i]
      PROVE  SubSeq(D, 1, b) \o f = SubSeq(D, 1, b + z)
  <2> USE <1>5
  <2> DEFINE u == SubSeq(D, 1, b)
             v == SubSeq(D, 1, b + z)
  <2>1. Len(D) \in Nat /\ b <= Len(D)
    OBVIOUS
  <2>2. u \in Seq(Data) /\ Len(u) = b /\ \A i \in 1..b : u[i] = D[i]
    BY <2>1
  <2>3. v \in Seq(Data) /\ Len(v) = b + z /\ \A i \in 1..(b + z) : v[i] = D[i]
    BY <2>1
  <2> HIDE DEF u, v
  <2>4. /\ u \o f \in Seq(Data) /\ Len(u \o f) = b + z
        /\ \A i \in 1..(b + z) : (u \o f)[i] = IF i <= b THEN u[i] ELSE f[i - b]
    BY <2>2
  <2>5. ASSUME NEW i \in 1..(b + z)
        PROVE  (u \o f)[i] = v[i]
    <3>1. CASE i <= b
      <4>1. (u \o f)[i] = u[i] /\ i \in 1..b
        BY <2>4, <3>1
      <4> QED
        BY <2>2, <2>3, <4>1, Zenon
    <3>2. CASE ~(i <= b)
      <4>1. (u \o f)[i] = f[i - b] /\ i - b \in 1..z /\ b + (i - b) = i
        BY <2>4, <3>2
      <4> QED
        BY <2>3, <4>1, Zenon
    <3> QED
      BY <3>1, <3>2, Zenon
  <2>6. u \o f = v
    BY <2>3, <2>4, <2>5, SameSequence, Zenon
  <2> QED
    BY <2>6 DEF u, v
(* The packets of a burst make up its piece of the document.               *)
<1>6. ASSUME IInv, NEW p, Takes(p), NEW r, Answers(p, r), got(r, p).need = {},
             sv.open, r.conn = sv.conn, r.seq = sv.seq, ~sv.eofSeen,
             NEW pkts, pkts = got(r, p).resp
      PROVE  /\ pkts \in Seq(Body) /\ DOMAIN pkts = 1..Size(sv.conn, sv.seq)
             /\ Pages(pkts) \in Seq(Data)
             /\ sv.job \o Pages(pkts)
                   = SubSeq(Doc[sv.conn], 1, Ends[sv.conn][sv.seq])
             /\ (\E i \in DOMAIN pkts : pkts[i].eof) <=> sv.seq = Bursts(sv.conn)
  <2> USE <1>6
  <2> DEFINE c == sv.conn
             q == sv.seq
             z == Size(c, q)
             D == Doc[c]
             b == Begin(c, q)
             f == Pages(pkts)
  <2>1. c \in Conns /\ q \in 1..Bursts(c) /\ sv.job = SubSeq(D, 1, b)
    BY Typed, Zenon DEF IInv, JobInv, OrderInv
  <2>2. /\ D \in Seq(Data) /\ b \in 0..Len(D) /\ Ends[c][q] \in 0..Len(D)
        /\ b + z = Ends[c][q] /\ z \in 1..kQuantum /\ Len(D) \in Nat
    BY <2>1, Bursty, Zenon
  <2>3. kQuantum \in Nat
    BY PapAssumption
  <2>4. /\ got(r, p) \in Request
        /\ Len(pkts) <= z
        /\ \A i \in 0..(z - 1) : i < Len(pkts) /\ pkts[i + 1] = Packet(c, q, i)
    BY <1>3
  <2> HIDE DEF c, q, z, D, b
  <2>5. pkts \in Seq(Body) /\ Len(pkts) \in Nat
    <3>1. pkts \in Seq(Body)
      BY <2>4 DEF Request
    <3> QED
      BY <3>1
  <2>6. Len(pkts) = z /\ DOMAIN pkts = 1..z
    <3>1. z - 1 \in 0..(z - 1) /\ z \in Nat
      BY <2>2, <2>3
    <3>2. z - 1 < Len(pkts)
      BY <2>4, <3>1
    <3>3. Len(pkts) = z
      BY <2>4, <2>5, <3>1, <3>2
    <3> QED
      BY <2>5, <3>3
  <2>7. ASSUME NEW i \in 1..z
        PROVE  /\ pkts[i].n = D[b + i] /\ b + i \in 1..Len(D)
               /\ pkts[i].eof = (q = Bursts(c))
    <3>1. i - 1 \in 0..(z - 1) /\ (i - 1) + 1 = i /\ b + (i - 1) + 1 = b + i
          /\ b + i \in 1..Len(D)
      BY <2>2, <2>3
    <3>2. pkts[i] = Packet(c, q, i - 1)
      BY <2>4, <3>1
    <3>3. Packet(c, q, i - 1).n = D[b + i] /\ Packet(c, q, i - 1).eof = (q = Bursts(c))
      BY <3>1 DEF Packet, NoBody, b, D
    <3> QED
      BY <3>1, <3>2, <3>3, Zenon
  <2>8. f \in Seq(Data) /\ Len(f) = z /\ \A i \in 1..z : f[i] = D[b + i]
    <3>1. \A i \in 1..z : D[b + i] \in Data
      BY <2>2, <2>7
    <3>2. f = [i \in 1..z |-> D[b + i]]
      BY <2>6, <2>7 DEF Pages
    <3>3. z \in Nat
      BY <2>2, <2>3
    <3> HIDE DEF f
    <3> QED
      BY <3>1, <3>2, <3>3
  <2>9. sv.job \o f = SubSeq(D, 1, Ends[c][q])
    <3>1. b \in Nat /\ z \in Nat /\ b + z <= Len(D)
      BY <2>2, <2>3
    <3> HIDE DEF f
    <3>2. SubSeq(D, 1, b) \o f = SubSeq(D, 1, b + z)
      BY <2>2, <2>8, <3>1, <1>5, Zenon
    <3> QED
      BY <2>1, <2>2, <3>2, Zenon
  <2>10. (\E i \in DOMAIN pkts : pkts[i].eof) <=> q = Bursts(c)
    <3>1. 1 \in 1..z
      BY <2>2, <2>3
    <3> QED
      BY <2>6, <2>7, <3>1, Zenon
  <2> QED
    BY <2>5, <2>6, <2>8, <2>9, <2>10, Zenon DEF c, q, z, D
(* The burst that completes is the one the open connection waits for.      *)
<1>7. ASSUME IInv, NEW p, Takes(p), NEW r, Answers(p, r), sv.open
      PROVE  /\ r.conn = sv.conn /\ r.seq = sv.seq /\ ~sv.eofSeen
             /\ sv.conn \in Conns /\ sv.seq \in 1..Bursts(sv.conn)
             /\ \A x \in sv.reqs : x.tid \in Answered => x = r
             /\ \A o \in Coming : sv.conn < o
             /\ cl.st \in {"opening", "open"} /\ sv.conn = cl.conn => sv.seq < cl.expect
  <2> USE <1>7
  <2>1. r \in sv.reqs /\ r.tid \in Answered
    BY <1>1, Zenon DEF Answers
  <2>2. /\ r.conn = sv.conn /\ r.seq = sv.seq /\ ~sv.eofSeen
        /\ \A x \in sv.reqs : x.tid \in Answered => x = r
    BY <2>1, Zenon DEF IInv, AnswerInv
  <2>3. sv.conn \in Conns /\ sv.seq \in 1..Bursts(sv.conn)
    BY <2>2, Typed, Zenon DEF IInv, OrderInv, JobInv
  <2>4. \A o \in Coming : sv.conn < o
    <3>1. \A o \in Coming : r.conn < o
      BY <2>1, Zenon DEF IInv, OrderInv
    <3> QED
      BY <2>2, <3>1
  <2>5. ASSUME cl.st \in {"opening", "open"}, sv.conn = cl.conn
        PROVE  sv.seq < cl.expect
    <3>1. CASE cl.st = "opening"
      <4>1. cl.conn \in Coming
        BY <3>1 DEF Coming
      <4>2. sv.conn < sv.conn /\ sv.conn \in Nat
        BY <2>3, <2>4, <2>5, <4>1, ConnsNat, Zenon
      <4> QED
        BY <4>2
    <3>2. CASE cl.st = "open"
      <4>1. r.seq < cl.expect
        BY <2>1, <2>2, <2>5, <3>2, Zenon DEF IInv, AskInv
      <4> QED
        BY <2>2, <4>1
    <3> QED
      BY <2>5, <3>1, <3>2, Zenon
  <2> QED
    BY <2>2, <2>3, <2>4, <2>5, Zenon
(* What taking a whole burst keeps, whether or not it is the last one.     *)
<1>8. ASSUME IInv, Types', NEW p, Takes(p), NEW r, Answers(p, r), sv.open,
             NEW q, News(sv.conn, q), r \notin sv'.reqs,
             sv'.open, sv'.conn = sv.conn, sv'.seq \in Nat, sv.seq <= sv'.seq, q <= sv'.seq,
             \A i \in DOMAIN sv'.spool : \/ sv'.spool[i].conn = sv.conn
                                         \/ i \in DOMAIN sv.spool /\ sv'.spool[i] = sv.spool[i],
             Spooled(sv.conn) => \E i \in DOMAIN sv'.spool :
                                    sv'.spool[i].conn = sv.conn /\ sv'.spool[i].eof,
             cl.st \in {"opening", "open"} /\ sv.conn = cl.conn =>
                IF sv'.eofSeen THEN sv'.seq < cl.expect ELSE sv'.seq <= cl.expect,
             JobInv', JobsExact', SpooledOnce',
             cl.done /\ sv.conn = cl.conn => \E i \in DOMAIN sv'.spool :
                                                sv'.spool[i].conn = sv.conn /\ sv'.spool[i].eof
      PROVE  IInv'
  <2> USE <1>8
  <2>1. /\ r.conn = sv.conn /\ r.seq = sv.seq /\ ~sv.eofSeen
        /\ sv.conn \in Conns /\ sv.seq \in 1..Bursts(sv.conn)
        /\ \A x \in sv.reqs : x.tid \in Answered => x = r
        /\ \A o \in Coming : sv.conn < o
    BY <1>7, Zenon
  <2>2. cl' = cl
    BY Zenon DEF News
  <2>3. Up' \subseteq Up /\ UpOrder' /\ Coming' \subseteq Coming /\ Answered' \subseteq Answered
    BY NewsUp, Zenon
  <2>4. ASSUME NEW x \in sv'.reqs
        PROVE  x.tid \notin Answered'
    BY <2>1, <2>3, NewsRequests, Zenon
  <2>5. MineInv'
    <3>1. Spooled(cl.conn) /\ sv.conn = cl.conn => Spooled(cl.conn)'
      BY <2>2, Zenon DEF Spooled
    <3> QED
      BY <3>1, NewsMine, Zenon
  <2>6. OrderInv'
    <3>1. /\ cl'.st \in {"open", "closing"} => \A x \in Up' : ~IsOpen(x)
          /\ cl'.st = "open" /\ sv'.open => sv'.conn = cl'.conn
          /\ sv'.open => sv'.conn # 0
          /\ sv'.conn <= cl'.last
          /\ \A x \in Up' : IsOpen(x) \/ IsClose(x) => x.conn \in 1..cl'.last
      BY <2>2, <2>3, Zenon DEF IInv, OrderInv
    <3>2. \A i \in DOMAIN sv'.spool : /\ sv'.spool[i].conn <= sv'.conn
                                      /\ \A o \in Coming' : sv'.spool[i].conn < o
      <4>1. sv.conn <= sv.conn
        BY <2>1, ConnsNat
      <4>2. \A i \in DOMAIN sv.spool : /\ sv.spool[i].conn <= sv.conn
                                       /\ \A o \in Coming : sv.spool[i].conn < o
        BY Zenon DEF IInv, OrderInv
      <4> QED
        BY <2>1, <2>3, <4>1, <4>2, Zenon
    <3>3. ASSUME NEW o \in Coming'
          PROVE  /\ sv'.conn <= o /\ sv'.conn # o
                 /\ \A x \in Up' : IsClose(x) => x.conn < o
      <4>1. o \in Coming /\ sv.conn < o /\ sv.conn <= o
        BY <2>1, <2>3, Zenon DEF IInv, OrderInv
      <4>2. sv.conn \in Nat
        BY <2>1, ConnsNat, Zenon
      <4>3. sv.conn # o
        BY <4>1, <4>2
      <4> QED
        BY <2>3, <4>1, <4>3, Zenon DEF IInv, OrderInv
    <3> QED
      BY <2>3, <2>4, <3>1, <3>2, <3>3, Zenon DEF OrderInv
  <2>7. AskInv'
    <3>1. ASSUME NEW x \in sv'.reqs
          PROVE  x.conn <= sv'.conn /\ (x.conn = sv'.conn => x.seq <= sv'.seq)
      <4>1. CASE x \in sv.reqs
        <5>1. x.conn <= sv.conn /\ (x.conn = sv.conn => x.seq <= sv.seq)
          BY <4>1, Zenon DEF IInv, AskInv
        <5>2. x.seq \in Nat /\ sv.seq \in Nat
          BY <4>1, Typed, Zenon DEF IInv, Request
        <5> QED
          BY <5>1, <5>2
      <4>2. CASE x.conn = sv.conn /\ x.seq = q
        BY <2>1, <4>2, ConnsNat
      <4> QED
        BY <4>1, <4>2, NewsRequests
    <3>2. \A x \in sv'.reqs :
             /\ x.seq \in 1..Bursts(x.conn)
             /\ \A y \in Down' : IsAsk(y) => Matches(y, x)
             /\ cl'.held # NoHeld => Matches(cl'.held, x)
             /\ cl'.cache # NoCache /\ cl'.cache.tid = x.tid =>
                   x.conn = cl'.conn /\ x.seq = cl'.cache.burst
      BY NewsRequests, Zenon
    <3>3. cl'.st \in {"opening", "open"} /\ sv'.open /\ sv'.conn = cl'.conn =>
             IF sv'.eofSeen THEN sv'.seq < cl'.expect ELSE sv'.seq <= cl'.expect
      BY <2>2
    <3> QED
      BY <2>4, <3>1, <3>2, <3>3, Zenon DEF AskInv
  <2>8. AnswerInv'
    BY <2>4, Zenon DEF AnswerInv
  <2>9. EofMeansSpooled'
    BY <2>2 DEF EofMeansSpooled, Spooled
  <2> QED
    BY <2>5, <2>6, <2>7, <2>8, <2>9, NewsTid, NewsData, Zenon DEF IInv
(* A burst is complete: its request is dropped and released.               *)
<1>9. ASSUME IInv, NEW p, Takes(p), NEW r, Answers(p, r)
      PROVE  /\ Says(Over(p, r), {}, {Rel(p.tid)}) /\ DOMAIN Over(p, r) = {"s", "out"}
             /\ Over(p, r).s = [sv EXCEPT !.reqs = sv.reqs \ {r}, !.inFlight = FALSE]
  <2> USE <1>9
  <2> DEFINE a == [Idle EXCEPT !.s.reqs = sv.reqs \ {r}]
             e == Emit(a, Rel(p.tid))
             n == Over(p, r)
             Q == sv.reqs \ {r}
  <2>1. Says(Idle, {}, {}) /\ Idle.s = sv /\ sv \in Server /\ Q \in SUBSET Request
    <3>1. sv.reqs \subseteq Request
      BY Typed, Zenon DEF IInv
    <3> QED
      BY <3>1, IdleSays, Zenon DEF IInv, Types
  <2>2. a.s = [sv EXCEPT !.reqs = Q] /\ a.out = Idle.out /\ DOMAIN a = {"s", "out"}
    BY <2>1, Zenon DEF Idle
  <2> HIDE DEF a
  <2>3. Rel(p.tid) \in Wire
    <3>1. p.tid \in Nat
      BY <1>1 DEF Wire
    <3> QED
      BY <3>1, RelTyped
  <2>4. a.s \in Server /\ a.s.xo = sv.xo
    <3> HIDE DEF Q
    <3> QED
      BY <2>1, <2>2, Zenon DEF Server
  <2>5. Says(a, {}, {})
    BY <2>1, <2>2, <2>4, TouchedSays, Zenon
  <2>6. Says(e, {}, {Rel(p.tid)}) /\ e.s = a.s
    <3>1. Says(e, {}, {} \cup {Rel(p.tid)}) /\ e.s = a.s
      BY <2>3, <2>5, EmitSays, Zenon
    <3> QED
      BY <3>1, Zenon
  <2>7. n = [e EXCEPT !.s.inFlight = FALSE]
    BY DEF Over, a
  <2> HIDE DEF e, n, Q
  <2>8. n.s = [e.s EXCEPT !.inFlight = FALSE] /\ n.out = e.out /\ DOMAIN n = {"s", "out"}
    BY <2>6, <2>7, Zenon DEF Says, IsPair
  <2>9. n.s \in Server /\ n.s.xo = e.s.xo
    <3>1. e.s \in Server
      BY <2>4, <2>6, Zenon
    <3> QED
      BY <2>8, <3>1, Zenon DEF Server
  <2>10. Says(n, {}, {Rel(p.tid)})
    BY <2>6, <2>8, <2>9, TouchedSays, Zenon
  <2>11. n.s = [sv EXCEPT !.reqs = Q, !.inFlight = FALSE]
    BY <2>2, <2>6, <2>8, Zenon
  <2> QED
    BY <2>8, <2>10, <2>11, Zenon DEF n, Q
(* A whole burst is added to the job.                                      *)
<1>10. ASSUME IInv, NEW p, Takes(p), NEW r, Answers(p, r), NEW pkts \in Seq(Body),
              Pages(pkts) \in Seq(Data)
       PROVE  Says(Took(p, r, pkts), {}, {Rel(p.tid)}) /\ HasTaken(Took(p, r, pkts), r, pkts)
  <2> USE <1>10
  <2> DEFINE n == Took(p, r, pkts)
             o == Over(p, r)
             f == Pages(pkts)
             k == Cardinality({i \in DOMAIN pkts : pkts[i].n \in Queries})
             Q == sv.reqs \ {r}
  <2>1. /\ Says(o, {}, {Rel(p.tid)}) /\ DOMAIN o = {"s", "out"} /\ o.s \in Server
        /\ o.s = [sv EXCEPT !.reqs = Q, !.inFlight = FALSE]
    BY <1>9, Zenon DEF Says, IsPair
  <2>2. n = [o EXCEPT !.s.silent = 0, !.s.job = @ \o f, !.s.answers = @ + k]
    BY DEF Took
  <2>3. k \in Nat
    <3>1. Len(pkts) \in Nat /\ DOMAIN pkts = 1..Len(pkts)
      OBVIOUS
    <3>2. IsFiniteSet(1..Len(pkts))
      BY <3>1, FiniteInterval, Zenon
    <3>3. IsFiniteSet({i \in DOMAIN pkts : pkts[i].n \in Queries})
      BY <3>1, <3>2, FiniteSubset, Zenon
    <3> QED
      BY <3>3, Zenon DEF Counts
  <2> HIDE DEF n, o, f, k
  <2>4. sv \in Server /\ Q \in SUBSET Request /\ sv.job \in Seq(Data) /\ sv.answers \in Nat
    <3>1. sv \in Server
      BY Zenon DEF IInv, Types
    <3>2. sv.reqs \in SUBSET Request /\ sv.job \in Seq(Data) /\ sv.answers \in Nat
      BY <3>1, Zenon DEF Server
    <3> QED
      BY <3>1, <3>2, Zenon
  <2> HIDE DEF Q
  <2>5. o.s.job = sv.job /\ o.s.answers = sv.answers /\ o.s.xo = sv.xo
    BY <2>1, <2>4, Zenon DEF Server
  <2>6. /\ n.s = [o.s EXCEPT !.silent = 0, !.job = sv.job \o f, !.answers = sv.answers + k]
        /\ n.out = o.out /\ DOMAIN n = {"s", "out"}
    BY <2>1, <2>2, <2>5, Zenon
  <2>7. 0 \in 0..(kMinutes + 1) /\ sv.job \o f \in Seq(Data) /\ sv.answers + k \in Nat
    <3>1. f \in Seq(Data)
      BY DEF f
    <3> QED
      BY <2>3, <2>4, <3>1 DEF kMinutes
  <2>8. n.s \in Server /\ n.s.xo = o.s.xo
    BY <2>1, <2>6, <2>7, ZenonT(30) DEF Server
  <2>9. Says(n, {}, {Rel(p.tid)})
    BY <2>1, <2>6, <2>8, TouchedSays, Zenon
  <2>10. /\ n.s.open = o.s.open /\ n.s.conn = o.s.conn /\ n.s.seq = o.s.seq
         /\ n.s.inFlight = o.s.inFlight /\ n.s.eofSeen = o.s.eofSeen
         /\ n.s.job = sv.job \o f
         /\ n.s.spool = o.s.spool /\ n.s.nextTid = o.s.nextTid
         /\ n.s.reqs = o.s.reqs /\ n.s.pend = o.s.pend
    BY <2>1, <2>6, Zenon DEF Server
  <2>11. /\ o.s.open = sv.open /\ o.s.conn = sv.conn /\ o.s.seq = sv.seq
         /\ o.s.inFlight = FALSE /\ o.s.eofSeen = sv.eofSeen
         /\ o.s.spool = sv.spool /\ o.s.nextTid = sv.nextTid
         /\ o.s.reqs = Q /\ o.s.pend = sv.pend
    BY <2>1, <2>4, Zenon DEF Server
  <2>12. HasTaken(n, r, pkts)
    BY <2>6, <2>10, <2>11, Zenon DEF HasTaken, f, Q
  <2> QED
    BY <2>9, <2>12, Zenon DEF n
(* The connection the burst was for is gone.                               *)
<1>11. ASSUME IInv, NEW p, Takes(p), NEW r, Answers(p, r), Do(Over(p, r))
       PROVE  IInv'
  <2> USE <1>11
  <2> DEFINE n == Over(p, r)
             Q == sv.reqs \ {r}
             O == {Rel(p.tid)}
             R == {}
  <2>1. UpShrinks /\ cl' = cl /\ UNCHANGED <<loss, cl, slow>>
    BY TakenShrinks DEF Takes
  <2>2. Says(n, R, O) /\ n.s = [sv EXCEPT !.reqs = Q, !.inFlight = FALSE] /\ Do(n)
    BY <1>9, Zenon
  <2>3. Kept(Q) /\ IsFiniteSet(Q)
    <3>1. Q \in SUBSET sv.reqs
      BY Zenon
    <3> HIDE DEF Q
    <3> QED
      BY <3>1, SubsetKept
  <2> HIDE DEF n, Q, O, R
  <2>4. sv \in Server
    BY Zenon DEF IInv, Types
  <2>5. /\ n.s.conn = sv.conn /\ n.s.seq = sv.seq /\ n.s.eofSeen = sv.eofSeen
        /\ n.s.nextTid = sv.nextTid /\ n.s.job = sv.job /\ n.s.spool = sv.spool
        /\ n.s.open = sv.open /\ n.s.pend = sv.pend /\ n.s.reqs = Q
    BY <2>2, <2>4, Zenon DEF Server
  <2>6. /\ n.s.pend \in {NoTxn, sv.pend} /\ Kept(n.s.reqs) /\ IsFiniteSet(n.s.reqs)
        /\ (\A x \in R : GoodReply(x)) /\ (\A x \in O : GoodPacket(x))
    <3>1. IsChatter(Rel(p.tid))
      BY DEF IsChatter, Rel, Req
    <3> QED
      BY <2>3, <2>5, <3>1, Zenon DEF GoodPacket, O, R
  <2> QED
    BY <2>1, <2>2, <2>5, <2>6, TalkKeeps, Zenon
(* What the deferred read is told of a burst that is not known to be the   *)
(* last.                                                                   *)
<1>12. ASSUME IInv, cl' = cl, NEW s \in Server, s.pend = sv.pend, ~s.eofSeen
       PROVE  \A e \in Flushed(s) : GoodReply(e)
  <2> USE <1>12
  <2>1. CASE s.pend = NoTxn
    BY <2>1, Zenon DEF Flushed
  <2>2. CASE s.pend # NoTxn
    <3>1. /\ s.pend.tid \in 1..cl.tid /\ s.pend.func = "read"
          /\ \A r \in cl.reqs : s.pend.tid = r.tid => r.func = "read"
      BY <2>2, Zenon DEF IInv, TidInv, MineInv
    <3> QED
      BY <2>2, <3>1, FlushedSound, Zenon
  <2> QED
    BY <2>1, <2>2, Zenon
(* The burst is not the last: the next one is asked for.                   *)
<1>13. ASSUME IInv, NEW p, Takes(p), NEW r, Answers(p, r), got(r, p).need = {}, sv.open,
              NEW pkts, pkts = got(r, p).resp, ~\E i \in DOMAIN pkts : pkts[i].eof,
              Do(issueRead(flushClientRead(Took(p, r, pkts))))
       PROVE  IInv'
  <2> USE <1>13
  <2> DEFINE c == sv.conn
             q == sv.seq + 1
             k == Took(p, r, pkts)
             m == flushClientRead(k)
             n == issueRead(m)
             j == sv.job \o Pages(pkts)
             ask == NewAsk(sv.nextTid, c, q)
             new == NewRequest(sv.nextTid, c, q)
             Q == sv.reqs \ {r}
             N == Q \cup {new}
  <2>1. UpShrinks /\ cl' = cl /\ UNCHANGED <<loss, cl, slow>> /\ Do(n)
    BY TakenShrinks DEF Takes
  <2>2. /\ r.conn = sv.conn /\ r.seq = sv.seq /\ ~sv.eofSeen
        /\ c \in Conns /\ sv.seq \in 1..Bursts(c) /\ r \in sv.reqs
        /\ cl.st \in {"opening", "open"} /\ sv.conn = cl.conn => sv.seq < cl.expect
    BY <1>7, Zenon DEF Answers
  <2>3. /\ pkts \in Seq(Body) /\ Pages(pkts) \in Seq(Data)
        /\ j = SubSeq(Doc[c], 1, Ends[c][sv.seq])
        /\ sv.seq # Bursts(c)
    BY <2>2, <1>6, Zenon
  <2>4. /\ q \in 1..Bursts(c) /\ sv.seq \in Nat /\ Begin(c, q) = Ends[c][sv.seq]
        /\ Bursts(c) \in Nat
    <3>1. Bursts(c) \in Nat
      BY <2>2, Bursty, Zenon
    <3>2. sv.seq < Bursts(c) /\ q \in 1..Bursts(c)
      BY <2>2, <2>3, <3>1
    <3> QED
      BY <2>2, <3>1, <3>2, Bursty
  <2> HIDE DEF n, ask, new, j
  <2>5. /\ Says(k, {}, {Rel(p.tid)})
        /\ k.s.open = sv.open /\ k.s.conn = c /\ k.s.seq = sv.seq
        /\ k.s.inFlight = FALSE /\ k.s.eofSeen = sv.eofSeen /\ k.s.job = j
        /\ k.s.spool = sv.spool /\ k.s.nextTid = sv.nextTid
        /\ k.s.reqs = Q /\ k.s.pend = sv.pend
    <3>1. pkts \in Seq(Body) /\ Pages(pkts) \in Seq(Data)
      BY <2>3, Zenon
    <3>2. Says(k, {}, {Rel(p.tid)}) /\ HasTaken(k, r, pkts)
      BY <3>1, <1>10, Zenon
    <3> HIDE DEF k
    <3> QED
      BY <3>2 DEF HasTaken, j
  <2> HIDE DEF k, Q, N
  <2>6. /\ Says(m, Flushed(k.s), {Rel(p.tid)}) /\ SameCore(k.s, m.s)
        /\ m.s.pend \in {k.s.pend, NoTxn}
    <3>1. Says(m, {} \cup Flushed(k.s), {Rel(p.tid)}) /\ SameCore(k.s, m.s)
          /\ m.s.pend \in {k.s.pend, NoTxn}
      BY <2>5, FlushSays, Zenon
    <3> QED
      BY <3>1
  <2>7. \A e \in Flushed(k.s) : GoodReply(e)
    <3>1. k.s \in Server
      BY <2>5, Zenon DEF Says, IsPair
    <3> QED
      BY <2>1, <2>2, <2>5, <3>1, <1>12, Zenon
  <2> HIDE DEF m
  <2>8. /\ m.s.open = sv.open /\ m.s.conn = c /\ m.s.seq = sv.seq /\ m.s.inFlight = FALSE
        /\ m.s.eofSeen = sv.eofSeen /\ m.s.job = j /\ m.s.spool = sv.spool
        /\ m.s.nextTid = sv.nextTid /\ m.s.reqs = Q
        /\ m.s.pend \in {sv.pend, NoTxn}
    BY <2>5, <2>6, Zenon DEF SameCore
  <2>9. /\ Says(n, Flushed(k.s), {Rel(p.tid)} \cup {ask})
        /\ n.s = [m.s EXCEPT !.inFlight = TRUE, !.seq = q, !.nextTid = sv.nextTid + 1,
                             !.reqs = N]
    <3>1. /\ Says(n, Flushed(k.s),
                  {Rel(p.tid)} \cup {NewAsk(m.s.nextTid, m.s.conn, m.s.seq + 1)})
          /\ n.s = [m.s EXCEPT !.inFlight = TRUE, !.seq = m.s.seq + 1,
                       !.nextTid = m.s.nextTid + 1,
                       !.reqs = m.s.reqs \cup {NewRequest(m.s.nextTid, m.s.conn, m.s.seq + 1)}]
      BY <2>2, <2>6, <2>8, IssueSays, Zenon DEF n
    <3> QED
      BY <2>8, <3>1, Zenon DEF ask, new, N
  <2>10. sv' = n.s
    BY <2>1, Zenon DEF Do
  <2>11. /\ sv'.open /\ sv'.conn = c /\ sv'.seq = q /\ sv'.eofSeen = sv.eofSeen
         /\ sv'.job = j /\ sv'.spool = sv.spool /\ sv'.nextTid = sv.nextTid + 1
         /\ sv'.reqs = N /\ sv'.pend \in {sv.pend, NoTxn}
    <3>1. m.s \in Server
      BY <2>6, Zenon DEF Says, IsPair
    <3> DEFINE y == TRUE
               d == sv.nextTid + 1
               w == [m.s EXCEPT !.inFlight = y, !.seq = q, !.nextTid = d, !.reqs = N]
    <3>2. n.s = w /\ d = sv.nextTid + 1
      BY <2>9, Zenon
    <3> HIDE DEF y, d
    <3>3. /\ w.open = m.s.open /\ w.conn = m.s.conn /\ w.seq = q
          /\ w.eofSeen = m.s.eofSeen /\ w.job = m.s.job /\ w.spool = m.s.spool
          /\ w.nextTid = d /\ w.reqs = N /\ w.pend = m.s.pend
      BY <3>1, Zenon DEF Server
    <3> HIDE DEF w
    <3> QED
      BY <2>2, <2>8, <2>10, <3>2, <3>3, Zenon
  <2>12. IsFiniteSet(n.s.reqs)
    <3>1. IsFiniteSet(sv.reqs) /\ n.s.reqs = N
      BY <2>10, <2>11, Zenon DEF IInv, Types
    <3>2. IsFiniteSet(Q)
      BY <3>1, FiniteSubset, Zenon DEF Q
    <3> QED
      BY <3>1, <3>2, FiniteAdd, Zenon DEF N
  <2>13. /\ Types'
         /\ \A x \in sv'.xo : x \in sv.xo \/ GoodReply(x)
         /\ \A x \in Down' : \/ x \in Down \/ (x.k = "TResp" /\ GoodReply(x))
                             \/ x \in {Rel(p.tid)} \cup {ask}
    BY <2>1, <2>7, <2>9, <2>12, SaysNews, ZenonT(30)
  <2>14. News(c, q)
    <3>1. IsChatter(Rel(p.tid))
      BY Zenon DEF IsChatter, Rel, Req
    <3> QED
      BY <2>1, <2>2, <2>4, <2>11, <2>13, <3>1, Zenon DEF News, Issues, ask, new, N, Q
  <2>15. r \notin sv'.reqs
    <3>1. new.tid = sv.nextTid
      BY Zenon DEF new, NewRequest
    <3>2. r.tid \in 1..(sv.nextTid - 1) /\ sv.nextTid \in Nat
      BY <2>2, Typed, Zenon DEF IInv, TidInv
    <3>3. r # new
      BY <3>1, <3>2
    <3> QED
      BY <2>11, <3>3, Zenon DEF N, Q
  <2>16. JobInv'
    <3>1. sv'.job = SubSeq(Doc[sv'.conn], 1, Begin(sv'.conn, sv'.seq))
      BY <2>3, <2>4, <2>11, Zenon
    <3>2. \A i \in DOMAIN sv'.spool : sv'.spool[i].conn < sv'.conn
      BY <2>2, <2>11, Zenon DEF IInv, JobInv
    <3>3. sv'.seq \in 1..Bursts(sv'.conn) /\ ~sv'.eofSeen
      BY <2>2, <2>4, <2>11, Zenon
    <3> QED
      BY <3>1, <3>2, <3>3, Zenon DEF JobInv
  <2>17. JobsExact' /\ SpooledOnce'
    BY <2>11, ZenonT(30) DEF IInv, JobsExact, SpooledOnce
  <2>18. cl.st \in {"opening", "open"} /\ sv.conn = cl.conn =>
            IF sv'.eofSeen THEN sv'.seq < cl.expect ELSE sv'.seq <= cl.expect
    <3>1. cl.expect \in Nat
      BY Typed, Zenon DEF IInv
    <3> QED
      BY <2>2, <2>4, <2>11, <3>1
  <2>19. /\ \A i \in DOMAIN sv'.spool : i \in DOMAIN sv.spool /\ sv'.spool[i] = sv.spool[i]
         /\ Spooled(sv.conn) => \E i \in DOMAIN sv'.spool :
                                   sv'.spool[i].conn = sv.conn /\ sv'.spool[i].eof
         /\ cl.done /\ sv.conn = cl.conn => Spooled(sv.conn)
    BY <2>11, Zenon DEF IInv, EofMeansSpooled, Spooled
  <2>20. sv'.seq \in Nat /\ sv.seq <= sv'.seq /\ q <= sv'.seq
    BY <2>4, <2>11
  <2> QED
    BY <2>11, <2>13, <2>14, <2>15, <2>16, <2>17, <2>18, <2>19, <2>20, <1>8, Zenon
(* EOF is seen.                                                            *)
<1>14. ASSUME NEW st, NEW R, NEW O, Says(st, R, O)
       PROVE  LET e == [st EXCEPT !.s.eofSeen = TRUE] IN
              /\ Says(e, R, O) /\ e.s = [st.s EXCEPT !.eofSeen = TRUE]
              /\ e.s \in Server /\ st.s \in Server
  <2> USE <1>14
  <2> DEFINE e == [st EXCEPT !.s.eofSeen = TRUE]
  <2>1. st.s \in Server /\ DOMAIN st = {"s", "out"}
    BY Zenon DEF Says, IsPair
  <2>2. e.s = [st.s EXCEPT !.eofSeen = TRUE] /\ e.out = st.out /\ DOMAIN e = {"s", "out"}
    BY <2>1, Zenon
  <2> HIDE DEF e
  <2>3. e.s \in Server /\ e.s.xo = st.s.xo
    BY <2>1, <2>2, Zenon DEF Server
  <2>4. Says(e, R, O)
    BY <2>2, <2>3, TouchedSays, Zenon
  <2> QED
    BY <2>1, <2>2, <2>3, <2>4, Zenon DEF e
(* The burst is the last: the job is spooled, then EOF is told.            *)
<1>15. ASSUME IInv, NEW p, Takes(p), NEW r, Answers(p, r), got(r, p).need = {}, sv.open,
              NEW pkts, pkts = got(r, p).resp, \E i \in DOMAIN pkts : pkts[i].eof,
              Do(jobEnds(flushClientRead(Took(p, r, pkts))))
       PROVE  IInv'
  <2> USE <1>15
  <2> DEFINE c == sv.conn
             k == Took(p, r, pkts)
             m == flushClientRead(k)
             e == [m EXCEPT !.s.eofSeen = TRUE]
             f == finishJob(e)
             n == flushClientRead(f)
             j == Doc[c]
             Q == sv.reqs \ {r}
             O == {Rel(p.tid)}
             W == [conn |-> c, job |-> j, eof |-> TRUE]
  <2>1. UpShrinks /\ cl' = cl /\ UNCHANGED <<loss, cl, slow>> /\ Do(n)
    BY TakenShrinks DEF Takes, jobEnds
  <2>2. /\ r.conn = sv.conn /\ r.seq = sv.seq /\ ~sv.eofSeen
        /\ c \in Conns /\ sv.seq \in 1..Bursts(c) /\ r \in sv.reqs
        /\ cl.st \in {"opening", "open"} /\ sv.conn = cl.conn => sv.seq < cl.expect
    BY <1>7, Zenon DEF Answers
  <2>3. /\ pkts \in Seq(Body) /\ Pages(pkts) \in Seq(Data)
        /\ sv.job \o Pages(pkts) = SubSeq(Doc[c], 1, Ends[c][sv.seq])
        /\ sv.seq = Bursts(c)
    BY <2>2, <1>6, Zenon
  <2>4. /\ sv.job \o Pages(pkts) = j /\ j # <<>> /\ j \in Seq(Data)
        /\ j = SubSeq(j, 1, Len(j)) /\ Len(j) \in Nat
    <3>1. /\ j \in Seq(Data) /\ Len(j) \in Nat /\ Ends[c][sv.seq] = Len(j)
          /\ Begin(c, sv.seq) \in 0..Len(j) /\ Begin(c, sv.seq) + Size(c, sv.seq) = Len(j)
          /\ Size(c, sv.seq) \in 1..kQuantum
      BY <2>2, <2>3, Bursty, SMTT(30)
    <3>2. kQuantum \in Nat
      BY PapAssumption, Zenon
    <3>3. Len(j) # 0
      BY <3>1, <3>2
    <3>4. SubSeq(j, 1, Len(j)) = j
      BY <3>1
    <3>5. j # <<>>
      BY <3>3, SMTT(30)
    <3> QED
      BY <2>3, <3>1, <3>4, <3>5, Zenon
  <2> HIDE DEF n, j
  <2>5. /\ Says(k, {}, O)
        /\ k.s.open = sv.open /\ k.s.conn = c /\ k.s.seq = sv.seq
        /\ k.s.inFlight = FALSE /\ k.s.eofSeen = sv.eofSeen /\ k.s.job = j
        /\ k.s.spool = sv.spool /\ k.s.nextTid = sv.nextTid
        /\ k.s.reqs = Q /\ k.s.pend = sv.pend
    <3>1. pkts \in Seq(Body) /\ Pages(pkts) \in Seq(Data)
      BY <2>3, Zenon
    <3>2. Says(k, {}, O) /\ HasTaken(k, r, pkts)
      BY <3>1, <1>10, Zenon
    <3> HIDE DEF k
    <3> QED
      BY <2>4, <3>2, Zenon DEF HasTaken
  <2> HIDE DEF k, Q, O
  <2>6. /\ Says(m, Flushed(k.s), O) /\ SameCore(k.s, m.s)
        /\ m.s.pend \in {k.s.pend, NoTxn}
    <3>1. Says(m, {} \cup Flushed(k.s), O) /\ SameCore(k.s, m.s)
          /\ m.s.pend \in {k.s.pend, NoTxn}
      BY <2>5, FlushSays, Zenon
    <3> QED
      BY <3>1, Zenon
  <2> HIDE DEF m
  <2>7. /\ m.s.open = sv.open /\ m.s.conn = c /\ m.s.seq = sv.seq
        /\ m.s.job = j /\ m.s.spool = sv.spool /\ m.s.nextTid = sv.nextTid /\ m.s.reqs = Q
        /\ m.s.pend \in {sv.pend, NoTxn}
    BY <2>5, <2>6, Zenon DEF SameCore
  <2>8. /\ Says(e, Flushed(k.s), O)
        /\ e.s = [m.s EXCEPT !.eofSeen = TRUE] /\ m.s \in Server
    BY <2>6, <1>14, Zenon
  <2> HIDE DEF e
  <2>9. /\ e.s.open = sv.open /\ e.s.conn = c /\ e.s.seq = sv.seq /\ e.s.eofSeen = TRUE
        /\ e.s.job = j /\ e.s.spool = sv.spool /\ e.s.nextTid = sv.nextTid /\ e.s.reqs = Q
        /\ e.s.pend = m.s.pend /\ e.s \in Server
    <3>1. e.s \in Server
      BY <2>8, Zenon DEF Says, IsPair
    <3> QED
      BY <2>7, <2>8, <3>1, ZenonT(30) DEF Server
  <2>10. /\ Says(f, Flushed(k.s), O)
         /\ f.s.job = <<>> /\ f.s.spool = Append(sv.spool, W)
         /\ \E a, b : f.s = [e.s EXCEPT !.job = a, !.spool = b]
    <3>1. /\ Says(f, Flushed(k.s), O)
          /\ f.s.job = <<>>
          /\ f.s.spool = IF e.s.job = <<>> THEN e.s.spool
                         ELSE Append(e.s.spool, [conn |-> e.s.conn, job |-> e.s.job,
                                                 eof |-> e.s.eofSeen])
          /\ \E a, b : f.s = [e.s EXCEPT !.job = a, !.spool = b]
      BY <2>2, <2>8, <2>9, FinishSays, Zenon
    <3> HIDE DEF f
    <3> QED
      BY <2>4, <2>9, <3>1, Zenon
  <2> HIDE DEF f, W
  <2>11. /\ f.s.open = sv.open /\ f.s.conn = c /\ f.s.seq = sv.seq /\ f.s.eofSeen = TRUE
         /\ f.s.nextTid = sv.nextTid /\ f.s.reqs = Q /\ f.s.pend = m.s.pend /\ f.s \in Server
    <3>1. f.s \in Server
      BY <2>10, Zenon DEF Says, IsPair
    <3>2. PICK a, b : f.s = [e.s EXCEPT !.job = a, !.spool = b]
      BY <2>10, Zenon
    <3> QED
      BY <2>9, <3>1, <3>2, ZenonT(30) DEF Server
  <2>12. /\ Says(n, Flushed(k.s) \cup Flushed(f.s), O) /\ SameCore(f.s, n.s)
         /\ n.s.pend \in {f.s.pend, NoTxn}
    BY <2>10, FlushSays, Zenon DEF n
  <2>13. /\ sv' = n.s /\ sv'.open = sv.open /\ sv'.conn = c /\ sv'.seq = sv.seq
         /\ sv'.eofSeen = TRUE /\ sv'.job = <<>> /\ sv'.spool = Append(sv.spool, W)
         /\ sv'.nextTid = sv.nextTid /\ sv'.reqs = Q /\ sv'.pend \in {sv.pend, NoTxn}
    <3>1. sv' = n.s
      BY <2>1, Zenon DEF Do
    <3> QED
      BY <2>7, <2>10, <2>11, <2>12, <3>1, Zenon DEF SameCore
  <2>14. /\ JobsExact' /\ SpooledOnce'
         /\ \A i \in DOMAIN sv'.spool : \/ sv'.spool[i].conn = c
                                        \/ i \in DOMAIN sv.spool
                                           /\ sv'.spool[i] = sv.spool[i]
         /\ \E i \in DOMAIN sv'.spool :
               sv'.spool[i].conn = c /\ sv'.spool[i].eof = TRUE
    <3>1. Len(j) <= Len(j) /\ TRUE \in BOOLEAN
      BY <2>4
    <3>2. sv'.spool = Append(sv.spool, [conn |-> sv.conn, job |-> j, eof |-> TRUE])
      BY <2>13, Zenon DEF W
    <3> QED
      BY <2>2, <2>4, <3>1, <3>2, AddedJob, Zenon DEF j
  <2>15. \E i \in DOMAIN sv'.spool : sv'.spool[i].conn = c /\ sv'.spool[i].eof
    BY <2>14, Zenon
  <2>16. (sv.open => Spooled(sv.conn))'
    BY <2>13, <2>15, Zenon DEF Spooled
  <2>17. \A x \in Flushed(k.s) \cup Flushed(f.s) : GoodReply(x)
    <3>1. k.s \in Server
      BY <2>5, Zenon DEF Says, IsPair
    <3>2. \A x \in Flushed(k.s) : GoodReply(x)
      BY <2>1, <2>2, <2>5, <3>1, <1>12, Zenon
    <3>3. \A x \in Flushed(f.s) : GoodReply(x)
      <4>1. CASE f.s.pend = NoTxn
        BY <4>1, Zenon DEF Flushed
      <4>2. CASE f.s.pend # NoTxn
        <5>1. f.s.pend = sv.pend
          BY <2>7, <2>11, <4>2, Zenon
        <5>2. /\ f.s.pend.tid \in 1..cl.tid /\ f.s.pend.func = "read"
              /\ \A x \in cl.reqs : f.s.pend.tid = x.tid => x.func = "read"
          BY <4>2, <5>1, Zenon DEF IInv, TidInv, MineInv
        <5> QED
          BY <2>1, <2>11, <2>16, <4>2, <5>2, FlushedSound, Zenon
      <4> QED
        BY <4>1, <4>2, Zenon
    <3> QED
      BY <3>2, <3>3, Zenon
  <2>18. IsFiniteSet(n.s.reqs)
    <3>1. IsFiniteSet(sv.reqs) /\ n.s.reqs = Q
      BY <2>13, Zenon DEF IInv, Types
    <3> QED
      BY <3>1, FiniteSubset, Zenon DEF Q
  <2>19. /\ Types'
         /\ \A x \in sv'.xo : x \in sv.xo \/ GoodReply(x)
         /\ \A x \in Down' : \/ x \in Down \/ (x.k = "TResp" /\ GoodReply(x)) \/ x \in O
    BY <2>1, <2>12, <2>17, <2>18, SaysNews, Zenon
  <2>20. News(c, sv.seq)
    <3>1. IsChatter(Rel(p.tid))
      BY Zenon DEF IsChatter, Rel, Req
    <3> QED
      BY <2>1, <2>2, <2>13, <2>19, <3>1, Zenon DEF News, Q, O
  <2>21. r \notin sv'.reqs
    BY <2>13, Zenon DEF Q
  <2>22. JobInv'
    BY <2>13, <2>16, Zenon DEF JobInv
  <2>23. cl.st \in {"opening", "open"} /\ sv.conn = cl.conn =>
            IF sv'.eofSeen THEN sv'.seq < cl.expect ELSE sv'.seq <= cl.expect
    BY <2>2, <2>13, Zenon
  <2>24. sv'.seq \in Nat /\ sv.seq <= sv'.seq
    <3>1. sv.seq \in Nat
      BY Typed, Zenon DEF IInv
    <3> QED
      BY <2>13, <3>1
  <2> QED
    BY <2>13, <2>14, <2>15, <2>19, <2>20, <2>21, <2>22, <2>23, <2>24, <1>8, Zenon
(* readDone() on a response that is complete.                              *)
<1>16. ASSUME IInv, NEW p, Takes(p), NEW r, Answers(p, r), NEW pkts, NEW n,
              n = readDone(Emit([Idle EXCEPT !.s.reqs = erase(@, r)], Rel(p.tid)), pkts)
       PROVE  n = IF ~sv.open THEN Over(p, r)
                  ELSE IF \E i \in DOMAIN pkts : pkts[i].eof
                  THEN jobEnds(flushClientRead(Took(p, r, pkts)))
                  ELSE issueRead(flushClientRead(Took(p, r, pkts)))
  <2> USE <1>16
  <2> DEFINE m == [Idle EXCEPT !.s.reqs = erase(@, r)]
             st == Emit(m, Rel(p.tid))
  <2>1. Idle.s = sv /\ DOMAIN Idle = {"s", "out"} /\ sv \in Server
    BY IdleSays DEF Says, IsPair, IInv
  <2>2. m = [Idle EXCEPT !.s.reqs = sv.reqs \ {r}]
    BY <2>1 DEF erase
  <2>3. Over(p, r) = [st EXCEPT !.s.inFlight = FALSE]
    BY <2>2, Zenon DEF Over
  <2>4. st.s.open = sv.open
    <3>1. m.s = [sv EXCEPT !.reqs = sv.reqs \ {r}] /\ DOMAIN m = {"s", "out"}
      BY <2>1, <2>2, Zenon
    <3> HIDE DEF m
    <3>2. st.s = m.s
      BY <3>1, Zenon DEF Emit
    <3> QED
      BY <2>1, <3>1, <3>2, Zenon DEF Server
  <2>5. n = readDone(st, pkts)
    BY Zenon
  <2> HIDE DEF m, st
  <2> QED
    BY <2>3, <2>4, <2>5, Zenon DEF readDone, Took, Pages
(* A packet of a burst.                                                    *)
<1>17. ASSUME IInv, NEW p, Takes(p), IsPacket(p), Do(TResp(p))
       PROVE  IInv'
  <2> USE <1>17
  <2> DEFINE asked == {x \in sv.reqs : x.tid = p.tid}
  <2>1. CASE asked = {}
    <3>1. Do(Idle)
      BY <2>1, Zenon DEF TResp
    <3>2. UpShrinks /\ UNCHANGED <<loss, cl, slow>>
      BY TakenShrinks, Zenon DEF Takes
    <3>3. Says(Idle, {}, {}) /\ Idle.s = sv
      BY IdleSays, Zenon DEF IInv
    <3>4. Talks(Idle.s) /\ Idle.s.pend = sv.pend
      BY <3>3, Zenon DEF Talks
    <3> QED
      BY <3>1, <3>2, <3>3, <3>4, SilentKeeps, Zenon
  <2>2. CASE asked # {}
    <3>1. PICK r : r = CHOOSE x \in asked : TRUE
      OBVIOUS
    <3>2. Answers(p, r)
      BY <2>2, <3>1, Zenon DEF Answers
    <3>3. PICK pkts : pkts = got(r, p).resp
      OBVIOUS
    <3> DEFINE n == readDone(Emit([Idle EXCEPT !.s.reqs = erase(@, r)], Rel(p.tid)), pkts)
               k == Took(p, r, pkts)
    <3>4. Do(IF got(r, p).need # {}
             THEN [Idle EXCEPT !.s.reqs = (@ \ {r}) \cup {got(r, p)}]
             ELSE n)
      BY <2>2, <3>1, <3>3, Zenon DEF TResp
    <3>5. CASE got(r, p).need # {}
      BY <3>2, <3>4, <3>5, <1>4, Zenon
    <3>6. CASE got(r, p).need = {}
      <4>1. n = IF ~sv.open THEN Over(p, r)
                ELSE IF \E i \in DOMAIN pkts : pkts[i].eof
                THEN jobEnds(flushClientRead(k)) ELSE issueRead(flushClientRead(k))
        BY <3>2, <1>16, Zenon
      <4>2. Do(n)
        BY <3>4, <3>6, Zenon
      <4> HIDE DEF n
      <4>3. CASE ~sv.open
        <5>1. Do(Over(p, r))
          BY <4>1, <4>2, <4>3, Zenon
        <5> QED
          BY <3>2, <5>1, <1>11, Zenon
      <4>4. CASE sv.open /\ \E i \in DOMAIN pkts : pkts[i].eof
        <5>1. Do(jobEnds(flushClientRead(k)))
          BY <4>1, <4>2, <4>4, Zenon
        <5> QED
          BY <3>2, <3>3, <3>6, <4>4, <5>1, <1>15, Zenon
      <4>5. CASE sv.open /\ ~\E i \in DOMAIN pkts : pkts[i].eof
        <5>1. Do(issueRead(flushClientRead(k)))
          BY <4>1, <4>2, <4>5, Zenon
        <5> QED
          BY <3>2, <3>3, <3>6, <4>5, <5>1, <1>13, Zenon
      <4> QED
        BY <4>3, <4>4, <4>5, Zenon
    <3> QED
      BY <3>5, <3>6, Zenon
  <2> QED
    BY <2>1, <2>2, Zenon
<1> QED
  BY <1>17

-----------------------------------------------------------------------------
(* handleAtp().                                                            *)

(* The client has the reply: it is forgotten.                              *)
LEMMA HandleRel ==
    ASSUME IInv, NEW p, Takes(p), Do(TRel(p))
    PROVE  IInv'
<1> DEFINE X == {e \in sv.xo : e.tid # p.tid}
           T == sv.pendTx \ {p.tid}
           n == TRel(p)
<1>1. UpShrinks /\ UNCHANGED <<loss, cl, slow>>
  BY TakenShrinks, Zenon DEF Takes
<1>2. Says(Idle, {}, {}) /\ Idle.s = sv /\ DOMAIN Idle = {"s", "out"} /\ sv \in Server
  BY IdleSays DEF IInv, Says, IsPair
<1>3. n = [Idle EXCEPT !.s.xo = X, !.s.pendTx = T]
  BY <1>2, Zenon DEF TRel
<1>4. X \subseteq sv.xo /\ X \in SUBSET Reply /\ T \in SUBSET Nat
  BY <1>2, Zenon DEF Server
<1>5. Do(n)
  OBVIOUS
<1> HIDE DEF X, T, n
<1>6. n.s = [sv EXCEPT !.xo = X, !.pendTx = T] /\ n.out = Idle.out /\ DOMAIN n = {"s", "out"}
  BY <1>2, <1>3, Zenon
<1>7. n.s \in Server /\ n.s.xo = X
  BY <1>2, <1>4, <1>6, Zenon DEF Server
<1>8. Says(n, {}, {})
  BY <1>2, <1>4, <1>6, <1>7, TouchedSays, Zenon
<1>9. Talks(n.s) /\ n.s.pend = sv.pend
  BY <1>2, <1>6, Zenon DEF Server, Talks
<1> QED
  BY <1>1, <1>5, <1>8, <1>9, SilentKeeps, Zenon

(* handleAtp() keeps the invariant.                                        *)
LEMMA HandleKeeps ==
    ASSUME IInv, Counts, handleAtp
    PROVE  IInv'
<1>1. PICK p : p = Head(up)
  OBVIOUS
<1>2. Takes(p)
  BY <1>1, Zenon DEF handleAtp, Takes
<1>3. \/ p.k = "TReq" /\ \E refuses \in BOOLEAN : Do(TReq(p, refuses))
      \/ p.k = "TResp" /\ Do(TResp(p))
      \/ p.k = "TRel" /\ Do(TRel(p))
  BY <1>1, Zenon DEF handleAtp
<1>4. CASE p.k = "TReq" /\ \E refuses \in BOOLEAN : Do(TReq(p, refuses))
  <2>1. PICK refuses \in BOOLEAN : Do(TReq(p, refuses))
    BY <1>4, Zenon
  <2> QED
    BY <1>2, <1>4, <2>1, HandleReq, Zenon
<1>5. CASE p.k = "TResp" /\ Do(TResp(p))
  BY <1>2, <1>5, HandleResp, Zenon DEF IsPacket
<1>6. CASE p.k = "TRel" /\ Do(TRel(p))
  BY <1>2, <1>6, HandleRel, Zenon
<1> QED
  BY <1>3, <1>4, <1>5, <1>6


(* A request that is tried again is still the same request.                *)
Retried(reqs) == {[r EXCEPT !.tries = @ + 1] : r \in reqs}

(* Requests may be tried once more.                                        *)
LEMMA TriedKept ==
    ASSUME IInv, NEW reqs \in SUBSET sv.reqs
    PROVE  Kept(Retried(reqs))
<1> DEFINE Tried(r) == [r EXCEPT !.tries = @ + 1]
           Q == {Tried(r) : r \in reqs}
<1>1. sv.reqs \subseteq Request
  BY Typed, Zenon DEF IInv
<1>2. ASSUME NEW x \in sv.reqs
      PROVE  /\ Tried(x).tid = x.tid /\ Tried(x).conn = x.conn /\ Tried(x).seq = x.seq
             /\ Tried(x).need = x.need /\ Tried(x).resp = x.resp
  BY <1>1, Zenon DEF Request
<1>3. ASSUME NEW x \in sv.reqs
      PROVE  Holds(Tried(x))
  <2>1. Holds(x)
    BY Zenon DEF IInv, DataInv
  <2> HIDE DEF Tried
  <2> QED
    BY <1>2, <2>1, Zenon DEF Holds
<1>4. \A r \in sv.reqs : \A x \in sv.reqs : r.tid = x.tid => r = x
  BY Zenon DEF IInv, TidInv
<1>5. \A q \in Q : \E x \in reqs : q = Tried(x)
  BY Zenon
<1> HIDE DEF Tried, Q
<1>6. ASSUME NEW q \in Q
      PROVE  Holds(q) /\ \E x \in sv.reqs :
                            q.tid = x.tid /\ q.conn = x.conn /\ q.seq = x.seq
  <2>1. PICK x \in reqs : q = Tried(x)
    BY <1>5, Zenon
  <2> QED
    BY <1>2, <1>3, <2>1, Zenon
<1>7. ASSUME NEW q \in Q, NEW y \in Q, q.tid = y.tid
      PROVE  q = y
  <2>1. PICK x \in reqs : q = Tried(x)
    BY <1>5, Zenon
  <2>2. PICK z \in reqs : y = Tried(z)
    BY <1>5, Zenon
  <2>3. x.tid = z.tid
    BY <1>2, <1>7, <2>1, <2>2, Zenon
  <2> QED
    BY <1>4, <2>1, <2>2, <2>3, Zenon
<1>8. Kept(Q)
  BY <1>6, <1>7, Zenon DEF Kept
<1>9. Q = Retried(reqs)
  BY Zenon DEF Q, Tried, Retried
<1> QED
  BY <1>8, <1>9, Zenon

-----------------------------------------------------------------------------
(* The clock, the wires and the user.                                      *)

(* What the client may do in a step without news.                          *)
ClientChats ==
    /\ cl' \in Client /\ cl'.last = cl.last /\ cl'.tid = cl.tid
    /\ SameClient \/ Forgets
    /\ up' \in Seq(Wire) /\ UpOrder'
    /\ \/ \A p \in Up' : p \in Up \/ IsChatter(p)
       \/ Quiet /\ \A p \in Up' : IsChatter(p) \/ \E r \in cl.reqs : p = Asking(cl, r)

(* A deferred read that is released, whatever the client does meanwhile.   *)
LEMMA ReleasedTold ==
    ASSUME IInv, SameClient \/ Forgets, NEW s, s.pend = sv.pend, ~sv'.open
    PROVE  \A e \in Released(s) : GoodReply(e)
<1> DEFINE e == ReplyOf(sv.pend, Eof)
<1>1. CASE sv.pend = NoTxn
  BY <1>1, Zenon DEF Released
<1>2. CASE sv.pend # NoTxn
  <2>1. /\ sv.pend.tid \in 1..cl.tid /\ sv.pend.func = "read"
        /\ \A r \in cl.reqs : sv.pend.tid = r.tid => r.func = "read"
    BY <1>2, Zenon DEF IInv, TidInv, MineInv
  <2>2. e.tid = sv.pend.tid /\ e.func = "read"
    BY <2>1, Zenon DEF ReplyOf
  <2>3. \A r \in cl'.reqs : \E x \in cl.reqs : r.tid = x.tid /\ r.func = x.func
    BY Zenon DEF SameClient, Forgets
  <2> HIDE DEF e
  <2>4. SoundNext(e)
    BY <2>1, <2>2, <2>3, Zenon DEF SoundNext
  <2>5. FinalNext(e)
    BY <2>2 DEF FinalNext
  <2> QED
    BY <1>2, <2>1, <2>2, <2>4, <2>5, Zenon DEF Released, GoodReply, e
<1> QED
  BY <1>1, <1>2

(* The server talks and the client chats.                                  *)
LEMMA BothChat ==
    ASSUME IInv, NEW st, NEW R, NEW O, Says(st, R, O), sv' = st.s, ClientChats,
           UNCHANGED <<loss, slow>>, down' \in Seq(Wire),
           st.s.conn = sv.conn, st.s.seq = sv.seq, st.s.eofSeen = sv.eofSeen,
           st.s.nextTid = sv.nextTid, st.s.job = sv.job, st.s.spool = sv.spool,
           st.s.open => sv.open, st.s.pend \in {NoTxn, sv.pend},
           Kept(st.s.reqs), IsFiniteSet(st.s.reqs),
           \A e \in R : GoodReply(e), \A p \in O : GoodPacket(p),
           \A p \in Down' : p \in Down \/ p \in Range(st.out) \/ GoodPacket(p)
    PROVE  IInv'
<1>1. Types'
  BY Zenon DEF IInv, Types, Says, IsPair, ClientChats
<1>2. \A p \in Range(st.out) : GoodPacket(p)
  <2>1. ASSUME NEW p, NEW e \in R, Carries(p, e)
        PROVE  GoodPacket(p)
    <3>1. p.k = "TResp" /\ p.tid = e.tid /\ p.func = e.func /\ p.body = e.body
      BY <2>1, Zenon DEF Carries, Resp
    <3>2. GoodReply(e)
      BY Zenon
    <3>3. SoundNext(p)
      BY <3>1, <3>2, Zenon DEF GoodReply, SoundNext
    <3>4. FinalNext(p)
      BY <3>1, <3>2, Zenon DEF GoodReply, FinalNext
    <3> QED
      BY <3>1, <3>2, <3>3, <3>4, Zenon DEF GoodPacket, GoodReply
  <2> QED
    BY <2>1, Zenon DEF Says
<1>3. Chat
  <2>1. \A e \in sv'.xo : e \in sv.xo \/ (e.tid \in 1..cl.tid /\ Sound(e)')
    BY NextTime, Zenon DEF Says, GoodReply
  <2>2. \A p \in Down' : \/ p \in Down \/ IsChatter(p)
                         \/ p.k = "TResp" /\ p.tid \in 1..cl.tid /\ Sound(p)' /\ Final(p)'
                         \/ \E r \in sv.reqs : Reasks(p, r)
    BY <1>2, NextTime, Zenon DEF GoodPacket, GoodReply
  <2> QED
    BY <2>1, <2>2, Zenon DEF Chat, ClientChats
<1> QED
  BY <1>1, <1>3, ChatKeeps, Zenon

(* The same, with what the server and the client did in one formula.       *)
ChatStep(st, R, O) ==
    /\ Says(st, R, O) /\ sv' = st.s /\ ClientChats
    /\ UNCHANGED <<loss, slow>> /\ down' \in Seq(Wire)
    /\ st.s.conn = sv.conn /\ st.s.seq = sv.seq /\ st.s.eofSeen = sv.eofSeen
    /\ st.s.nextTid = sv.nextTid /\ st.s.job = sv.job /\ st.s.spool = sv.spool
    /\ (st.s.open => sv.open) /\ st.s.pend \in {NoTxn, sv.pend}
    /\ Kept(st.s.reqs) /\ IsFiniteSet(st.s.reqs)
    /\ (\A e \in R : GoodReply(e)) /\ (\A p \in O : GoodPacket(p))
    /\ \A p \in Down' : p \in Down \/ p \in Range(st.out) \/ GoodPacket(p)
LEMMA ChatStepKeeps ==
    ASSUME IInv, NEW st, NEW R, NEW O, ChatStep(st, R, O)
    PROVE  IInv'
<1>1. /\ Says(st, R, O) /\ sv' = st.s /\ ClientChats
      /\ UNCHANGED <<loss, slow>> /\ down' \in Seq(Wire)
      /\ st.s.conn = sv.conn /\ st.s.seq = sv.seq /\ st.s.eofSeen = sv.eofSeen
      /\ st.s.nextTid = sv.nextTid /\ st.s.job = sv.job /\ st.s.spool = sv.spool
      /\ (st.s.open => sv.open) /\ st.s.pend \in {NoTxn, sv.pend}
      /\ Kept(st.s.reqs) /\ IsFiniteSet(st.s.reqs)
      /\ (\A e \in R : GoodReply(e)) /\ (\A p \in O : GoodPacket(p))
      /\ \A p \in Down' : p \in Down \/ p \in Range(st.out) \/ GoodPacket(p)
  BY Zenon DEF ChatStep
<1> QED
  BY <1>1, BothChat, SMT

(* The server is not concerned.                                            *)
LEMMA CalmKeeps ==
    ASSUME IInv, sv' = sv, ClientChats, UNCHANGED <<loss, slow>>,
           down' \in Seq(Wire), Down' \subseteq Down
    PROVE  IInv'
<1>1. Says(Idle, {}, {}) /\ Idle.s = sv
  BY IdleSays DEF IInv
<1>2. Kept(sv.reqs) /\ IsFiniteSet(sv.reqs)
  BY SubsetKept, Zenon
<1>3. Types'
  BY Zenon DEF IInv, Types, ClientChats
<1>4. Chat
  BY <1>2, Zenon DEF Chat, ClientChats
<1> QED
  BY <1>3, <1>4, ChatKeeps, Zenon

(* Nothing happens to the client.                                          *)
LEMMA ClientRests ==
    ASSUME IInv, cl' = cl, UpShrinks
    PROVE  ClientChats
<1>1. SameClient
  BY Zenon DEF SameClient, IInv, ClientInv
<1> QED
  BY <1>1, ShrunkUp, Zenon DEF ClientChats, IInv, Types

(* A packet is taken off the wire to the client, or none is.               *)
LEMMA ShrunkDown ==
    ASSUME IInv, down' = down \/ (down # <<>> /\ down' = Tail(down))
    PROVE  down' \in Seq(Wire) /\ Down' \subseteq Down
<1>1. down \in Seq(Wire)
  BY Zenon DEF IInv, Types
<1>2. CASE down' = down
  BY <1>1, <1>2, Zenon DEF Down
<1>3. CASE down # <<>> /\ down' = Tail(down)
  BY <1>1, <1>3, TailOfWire, Zenon DEF Down
<1> QED
  BY <1>2, <1>3

(* The wires lose a packet.                                                *)
LEMMA LoseKeeps ==
    ASSUME IInv, Lose
    PROVE  IInv'
<1>1. sv' = sv /\ cl' = cl /\ slow' = slow
  BY DEF Lose
<1>2. UpShrinks /\ (down' = down \/ (down # <<>> /\ down' = Tail(down)))
  BY DEF Lose, UpShrinks
<1>3. loss' \in 0..MaxLoss
  <2>1. loss \in 0..MaxLoss /\ MaxLoss \in Nat
    BY PapAssumption, Zenon DEF IInv, Types
  <2> QED
    BY <2>1 DEF Lose
<1>4. ClientChats /\ down' \in Seq(Wire) /\ Down' \subseteq Down
  BY <1>1, <1>2, ClientRests, ShrunkDown, Zenon
<1>5. Kept(sv.reqs) /\ IsFiniteSet(sv.reqs)
  BY SubsetKept, Zenon
<1>6. Types'
  BY <1>1, <1>3, <1>4, Zenon DEF IInv, Types, ClientChats
<1>7. Chat
  BY <1>1, <1>4, <1>5, Zenon DEF Chat, ClientChats
<1> QED
  BY <1>6, <1>7, ChatKeeps, Zenon

(* The server changes what nothing depends on.                             *)
LEMMA StillKeeps ==
    ASSUME IInv, NEW n \in Server, sv' = n, n.xo \subseteq sv.xo, Talks(n), n.pend = sv.pend,
           UNCHANGED <<up, down, loss, cl, slow>>
    PROVE  IInv'
<1> DEFINE st == [s |-> n, out |-> <<>>]
<1>1. Says(st, {}, {}) /\ st.s = n /\ st.out = <<>>
  <2>1. st.s = n /\ st.out = <<>> /\ IsPair(st)
    BY DEF IsPair
  <2> HIDE DEF st
  <2> QED
    BY <2>1 DEF Says, Range
<1>2. down' = down \o st.out
  BY <1>1 DEF IInv, Types
<1> HIDE DEF st
<1>3. Do(st)
  BY <1>1, <1>2, Zenon DEF Do
<1>4. UpShrinks /\ UNCHANGED <<loss, cl, slow>>
  BY DEF UpShrinks
<1> QED
  BY <1>1, <1>3, <1>4, SilentKeeps, Zenon

(* The 30 s sweep.                                                         *)
LEMMA SweepKeeps ==
    ASSUME IInv, Sweep
    PROVE  IInv'
<1>1. PICK tid : sv' = [sv EXCEPT !.pendTx = @ \ {tid}, !.xo = {e \in @ : e.tid # tid}]
  BY Zenon DEF Sweep
<1> DEFINE T == sv.pendTx \ {tid}
           X == {e \in sv.xo : e.tid # tid}
           n == [sv EXCEPT !.pendTx = T, !.xo = X]
<1>2. sv' = n
  BY <1>1
<1>3. sv \in Server
  BY Zenon DEF IInv, Types
<1>4. T \in SUBSET Nat /\ X \in SUBSET Reply /\ X \subseteq sv.xo
  BY <1>3 DEF Server
<1>5. UNCHANGED <<up, down, loss, cl, slow>>
  BY DEF Sweep
<1> HIDE DEF T, X
<1>6. n \in Server /\ n.xo \subseteq sv.xo /\ Talks(n) /\ n.pend = sv.pend
  BY <1>3, <1>4, Zenon DEF Server, Talks
<1> HIDE DEF n
<1> QED
  BY <1>2, <1>5, <1>6, StillKeeps, Zenon

(* The service is switched on or off.                                      *)
LEMMA EnableKeeps ==
    ASSUME IInv, setEnabled
    PROVE  IInv'
<1>1. UNCHANGED <<up, loss, cl, slow>> /\ UpShrinks
  BY Zenon DEF setEnabled, UpShrinks
<1>2. sv \in Server
  BY Zenon DEF IInv, Types
<1>3. CASE sv' = [sv EXCEPT !.enabled = TRUE] /\ down' = down
  <2> DEFINE n == [sv EXCEPT !.enabled = TRUE]
  <2>1. n \in Server /\ n.xo = sv.xo /\ Talks(n) /\ n.pend = sv.pend
    BY <1>2, Zenon DEF Server, Talks
  <2>2. sv' = n /\ UNCHANGED <<up, down, loss, cl, slow>>
    BY <1>1, <1>3, Zenon
  <2> HIDE DEF n
  <2> QED
    BY <2>1, <2>2, StillKeeps, Zenon
<1>4. CASE Do(closeConn([Idle EXCEPT !.s.enabled = FALSE, !.s.offs = @ + 1]))
  <2> DEFINE st == [Idle EXCEPT !.s.enabled = FALSE, !.s.offs = @ + 1]
             n == closeConn(st)
             o == sv.offs + 1
             R == Released(st.s)
  <2>1. Says(Idle, {}, {}) /\ Idle.s = sv /\ DOMAIN Idle = {"s", "out"}
    BY IdleSays, Zenon DEF IInv, Says, IsPair
  <2>2. o \in Nat
    BY <1>2 DEF Server
  <2> HIDE DEF o
  <2>3. /\ st.s = [sv EXCEPT !.enabled = FALSE, !.offs = o] /\ st.out = Idle.out
        /\ DOMAIN st = {"s", "out"}
    BY <2>1, Zenon DEF o
  <2>4. Do(n)
    BY <1>4
  <2> HIDE DEF st, n
  <2>5. st.s \in Server /\ st.s.xo = sv.xo /\ Talks(st.s) /\ st.s.pend = sv.pend
    BY <1>2, <2>2, <2>3, Zenon DEF Server, Talks
  <2>6. Says(st, {}, {})
    BY <2>1, <2>3, <2>5, TouchedSays, Zenon
  <2>7. /\ Says(n, R, {}) /\ SameCore([st.s EXCEPT !.open = FALSE], n.s)
        /\ n.s.pend = NoTxn /\ ~n.s.open
    <3>1. /\ Says(n, {} \cup R, {}) /\ SameCore([st.s EXCEPT !.open = FALSE], n.s)
          /\ n.s.pend = NoTxn /\ ~n.s.open
      BY <2>6, CloseSays, Zenon DEF n
    <3> QED
      BY <3>1, Zenon
  <2>8. Talks(n.s)
    <3>1. Talks([st.s EXCEPT !.open = FALSE])
      BY <2>5, Zenon DEF Server, Talks
    <3> QED
      BY <2>7, <3>1, TalksOn, Zenon
  <2>9. \A e \in R : GoodReply(e)
    <3>1. ~sv'.open
      BY <2>4, <2>7, Zenon DEF Do
    <3> QED
      BY <1>1, <2>5, <3>1, ReleasedSound, Zenon
  <2>10. n.s.pend \in {NoTxn, sv.pend} /\ \A x \in {} : GoodPacket(x)
    BY <2>7
  <2> HIDE DEF R
  <2>11. TalkStep(n, R, {})
    BY <1>1, <2>4, <2>7, <2>8, <2>9, <2>10, Zenon DEF TalkStep
  <2> QED
    BY <2>11, TalkStepKeeps, Zenon
<1> QED
  BY <1>3, <1>4, Zenon DEF setEnabled

(* A client that is away has forgotten everything but what it has used up. *)
LEMMA AwaySays ==
    ASSUME NEW c \in Client
    PROVE  /\ Away(c) \in Client /\ Away(c).st = "idle" /\ Away(c).conn = 0
           /\ Away(c).reqs = {} /\ Away(c).expect = 0 /\ Away(c).cache = NoCache
           /\ Away(c).held = NoHeld /\ Away(c).done = FALSE
           /\ Away(c).last = c.last /\ Away(c).tid = c.tid /\ Away(c).quits = c.quits
<1> DEFINE z == 0
           E == {}
           no == FALSE
<1>1. NoCache \in [tid : Nat, burst : Nat] /\ NoHeld \in Wire
  BY BodiesTyped, Zenon DEF NoCache, NoHeld, Tickle, Req, Wire
<1>2. z \in Nat /\ z \in Conns \cup {0} /\ E \in SUBSET Asks /\ no \in BOOLEAN
  OBVIOUS
<1>3. Away(c) = [c EXCEPT !.st = "idle", !.conn = z, !.reqs = E, !.expect = z,
                          !.cache = NoCache, !.held = NoHeld, !.done = no]
  BY Zenon DEF Away
<1>4. /\ Away(c).st = "idle" /\ Away(c).conn = 0
      /\ Away(c).reqs = {} /\ Away(c).expect = 0 /\ Away(c).cache = NoCache
      /\ Away(c).held = NoHeld /\ Away(c).done = FALSE
      /\ Away(c).last = c.last /\ Away(c).tid = c.tid /\ Away(c).quits = c.quits
  BY Zenon DEF Away, Client
<1> HIDE DEF z, E, no
<1>5. Away(c) \in Client
  BY <1>1, <1>2, <1>3, ZenonT(30) DEF Client
<1> QED
  BY <1>4, <1>5, Zenon

(* A client that goes away brings no news.                                 *)
LEMMA AwayChats ==
    ASSUME IInv, cl' = Away(cl), UpShrinks
    PROVE  ClientChats
<1>1. cl \in Client
  BY Zenon DEF IInv, Types
<1>2. Forgets /\ cl' \in Client /\ cl'.last = cl.last /\ cl'.tid = cl.tid
  BY <1>1, AwaySays, Zenon DEF Forgets
<1> QED
  BY <1>2, ShrunkUp, Zenon DEF ClientChats

(* A tickle is a packet and brings no news.                                *)
LEMMA TickleTyped ==
    ASSUME NEW c \in Conns \cup {0}
    PROVE  Tickle(c) \in Wire /\ IsChatter(Tickle(c))
<1>1. Tickle(c) \in Wire
  BY BodiesTyped, Zenon DEF Tickle, Req, Wire
<1>2. IsChatter(Tickle(c))
  BY Zenon DEF Tickle, Req, IsChatter
<1> QED
  BY <1>1, <1>2

(* The client's own minute.                                                *)
LEMMA MinuteChats ==
    ASSUME IInv, Minute
    PROVE  ClientChats
<1>1. up = <<>> /\ cl.conn \in Conns \cup {0}
  BY Typed, Zenon DEF Minute, MinuteDue, Quiet, IInv
<1>2. CASE Abandoned
  <2>1. cl' = Away(cl) /\ up' = up
    BY <1>2 DEF Minute
  <2> QED
    BY <2>1, AwayChats, Zenon DEF UpShrinks
<1>3. CASE ~Abandoned /\ cl.st = "open"
  <2> DEFINE t == Tickle(cl.conn)
  <2>1. cl' = cl /\ up' = <<t>>
    BY <1>3, Zenon DEF Minute
  <2>2. t \in Wire /\ IsChatter(t)
    BY <1>1, TickleTyped, Zenon
  <2> HIDE DEF t
  <2>3. up' \in Seq(Wire) /\ DOMAIN up' = {1} /\ up'[1] = t
    BY <2>1, <2>2
  <2>4. \A p \in Up' : p = t
    BY <2>3, Zenon DEF Up, Range
  <2>5. UpOrder'
    BY <2>3 DEF UpOrder
  <2>6. SameClient
    BY <2>1, Zenon DEF SameClient, IInv, ClientInv
  <2> QED
    BY <2>1, <2>2, <2>3, <2>4, <2>5, <2>6, Zenon DEF ClientChats, IInv, Types
<1>4. CASE ~Abandoned /\ cl.st # "open"
  BY <1>4, ClientRests, Zenon DEF Minute, UpShrinks
<1> QED
  BY <1>2, <1>3, <1>4, Zenon

(* PapServer::tick().                                                      *)
LEMMA MinuteKeeps ==
    ASSUME IInv, Minute
    PROVE  IInv'
<1>1. ClientChats /\ UNCHANGED <<loss, slow>> /\ Do(tick) /\ (SameClient \/ Forgets)
  BY MinuteChats, Zenon DEF Minute, ClientChats
<1>2. Says(Idle, {}, {}) /\ Idle.s = sv /\ DOMAIN Idle = {"s", "out"} /\ sv \in Server
  BY IdleSays, Zenon DEF IInv, Says, IsPair
<1>3. Kept(sv.reqs) /\ IsFiniteSet(sv.reqs)
  BY SubsetKept, Zenon
<1>4. ASSUME NEW st, NEW R, NEW O, Says(st, R, O), Do(st), Talks(st.s),
             st.s.pend \in {NoTxn, sv.pend}, \A e \in R : GoodReply(e),
             \A p \in O : GoodPacket(p)
      PROVE  IInv'
  <2>1. down \in Seq(Wire) /\ st.out \in Seq(Wire)
    BY <1>4, Zenon DEF IInv, Types, Says, IsPair
  <2>2. /\ down \o st.out \in Seq(Wire)
        /\ Range(down \o st.out) = Range(down) \cup Range(st.out)
    BY <2>1, JoinedWires, SMTT(30)
  <2>3. /\ sv' = st.s /\ down' \in Seq(Wire)
        /\ \A p \in Down' : p \in Down \/ p \in Range(st.out)
    BY <1>4, <2>2, Zenon DEF Do, Down
  <2>4. Kept(st.s.reqs) /\ IsFiniteSet(st.s.reqs)
    BY <1>3, <1>4, Zenon DEF Talks
  <2> QED
    BY <1>1, <1>4, <2>3, <2>4, BothChat, Zenon DEF Talks
<1>5. CASE ~sv.enabled \/ ~sv.open
  <2>1. Do(Idle)
    BY <1>1, <1>5 DEF tick
  <2>2. Talks(Idle.s) /\ Idle.s.pend \in {NoTxn, sv.pend}
    BY <1>2, Zenon DEF Talks
  <2>3. (\A e \in {} : GoodReply(e)) /\ (\A p \in {} : GoodPacket(p))
    OBVIOUS
  <2> QED
    BY <1>2, <1>4, <2>1, <2>2, <2>3
<1>6. CASE sv.enabled /\ sv.open /\ sv.silent + 1 > kMinutes
  <2> DEFINE st == [Idle EXCEPT !.s.silent = kMinutes + 1]
             n == closeConn(st)
             k == kMinutes + 1
             R == Released(st.s)
             O == {}
  <2>1. Do(n)
    BY <1>1, <1>6, Zenon DEF tick
  <2>2. k \in 0..(kMinutes + 1)
    BY DEF kMinutes
  <2>3. st.s = [sv EXCEPT !.silent = k] /\ st.out = Idle.out /\ DOMAIN st = {"s", "out"}
    BY <1>2, Zenon
  <2> HIDE DEF k, st, n
  <2>4. st.s \in Server /\ st.s.xo = sv.xo /\ Talks(st.s) /\ st.s.pend = sv.pend
    BY <1>2, <2>2, <2>3, Zenon DEF Server, Talks
  <2>5. Says(st, {}, {})
    BY <1>2, <2>3, <2>4, TouchedSays, Zenon
  <2>6. /\ Says(n, R, O) /\ SameCore([st.s EXCEPT !.open = FALSE], n.s)
        /\ n.s.pend = NoTxn /\ ~n.s.open
    <3>1. /\ Says(n, {} \cup R, O) /\ SameCore([st.s EXCEPT !.open = FALSE], n.s)
          /\ n.s.pend = NoTxn /\ ~n.s.open
      BY <2>5, CloseSays, Zenon DEF n
    <3> QED
      BY <3>1, Zenon
  <2>7. Talks(n.s)
    <3>1. Talks([st.s EXCEPT !.open = FALSE])
      BY <2>4, Zenon DEF Server, Talks
    <3> QED
      BY <2>6, <3>1, TalksOn, Zenon
  <2>8. \A e \in R : GoodReply(e)
    <3>1. ~sv'.open
      BY <2>1, <2>6, Zenon DEF Do
    <3> QED
      BY <1>1, <2>4, <3>1, ReleasedTold, Zenon
  <2>9. n.s.pend \in {NoTxn, sv.pend} /\ \A x \in O : GoodPacket(x)
    BY <2>6, Zenon
  <2> HIDE DEF R, O
  <2> QED
    BY <1>4, <2>1, <2>6, <2>7, <2>8, <2>9, Zenon
<1>7. CASE sv.enabled /\ sv.open /\ ~(sv.silent + 1 > kMinutes)
  <2> DEFINE k == sv.silent + 1
             st == [Idle EXCEPT !.s.silent = @ + 1]
             t == Tickle(sv.conn)
             n == Emit(st, t)
             R == {}
             O == {t}
  <2>1. Do(n)
    BY <1>1, <1>7, Zenon DEF tick
  <2>2. k \in 0..(kMinutes + 1) /\ sv.conn \in Conns \cup {0}
    <3>1. sv.silent \in 0..(kMinutes + 1) /\ sv.conn \in Conns \cup {0}
      BY <1>2, Zenon DEF Server
    <3> QED
      BY <1>7, <3>1 DEF kMinutes
  <2>3. st.s = [sv EXCEPT !.silent = k] /\ st.out = Idle.out /\ DOMAIN st = {"s", "out"}
    BY <1>2, Zenon
  <2>4. t \in Wire /\ IsChatter(t)
    BY <2>2, TickleTyped, Zenon
  <2> HIDE DEF k, st, t, n
  <2>5. st.s \in Server /\ st.s.xo = sv.xo /\ Talks(st.s) /\ st.s.pend = sv.pend
    BY <1>2, <2>2, <2>3, Zenon DEF Server, Talks
  <2>6. Says(st, {}, {})
    BY <1>2, <2>3, <2>5, TouchedSays, Zenon
  <2>7. Says(n, R, O) /\ n.s = st.s
    <3>1. Says(n, {}, {} \cup {t}) /\ n.s = st.s
      BY <2>4, <2>6, EmitSays, Zenon DEF n
    <3> QED
      BY <3>1, Zenon
  <2>8. Talks(n.s) /\ n.s.pend \in {NoTxn, sv.pend}
    BY <2>5, <2>7, Zenon
  <2>9. (\A e \in R : GoodReply(e)) /\ (\A p \in O : GoodPacket(p))
    BY <2>4, Zenon DEF GoodPacket
  <2> HIDE DEF R, O
  <2> QED
    BY <1>4, <2>1, <2>7, <2>8, <2>9, Zenon
<1> QED
  BY <1>5, <1>6, <1>7, Zenon

(* The client tries again, or gives up.                                    *)
LEMMA SecondChats ==
    ASSUME IInv, Counts, Second
    PROVE  ClientChats
<1>1. up = <<>> /\ Quiet /\ ClientRetries /\ cl \in Client
  BY Zenon DEF Second, SecondDue, Quiet, IInv, Types
<1>2. CASE GivesUp
  <2>1. cl' = Away(cl) /\ up' = up
    BY <1>1, <1>2, Zenon DEF ClientRetries
  <2> QED
    BY <2>1, AwayChats, Zenon DEF UpShrinks
<1>3. CASE ~GivesUp
  <2> DEFINE Tried(r) == IF r.func = "read" THEN r ELSE [r EXCEPT !.tries = @ + 1]
             T == {Tried(r) : r \in cl.reqs}
             P == {Asking(cl, r) : r \in cl.reqs}
  <2>1. cl' = [cl EXCEPT !.reqs = T] /\ Sends(P)
    BY <1>1, <1>3, Zenon DEF ClientRetries
  <2>2. cl.reqs \subseteq Asks /\ cl.conn \in Conns \cup {0}
    BY Typed, Zenon DEF IInv
  <2>3. \A r \in cl.reqs : \A x \in cl.reqs : x = r
    BY Zenon DEF IInv, ClientInv
  <2>4. ASSUME NEW r \in cl.reqs
        PROVE  Tried(r) \in Asks /\ Tried(r).tid = r.tid /\ Tried(r).func = r.func
    BY <2>2 DEF Asks
  <2>5. ASSUME NEW r \in cl.reqs
        PROVE  Asking(cl, r) \in Wire
    <3>1. r.tid \in Nat /\ r.func \in Funcs
      BY <2>2, Zenon DEF Asks
    <3>2. 0 \in Nat /\ {0} \in SUBSET Nat
      OBVIOUS
    <3> QED
      BY <2>2, <3>1, <3>2, BodiesTyped, Zenon DEF Asking, Req, Wire
  <2>6. /\ T \in SUBSET Asks /\ \A y \in T : \A z \in T : y = z
        /\ \A y \in T : \E x \in cl.reqs : y.tid = x.tid /\ y.func = x.func
    <3>1. \A y \in T : \E x \in cl.reqs : y = Tried(x)
      OBVIOUS
    <3>2. \A r \in cl.reqs : Tried(r) \in Asks /\ Tried(r).tid = r.tid /\ Tried(r).func = r.func
      BY <2>4, Zenon
    <3> HIDE DEF T, Tried
    <3>3. T \in SUBSET Asks
      BY <3>1, <3>2, Zenon
    <3>4. ASSUME NEW y \in T, NEW z \in T
          PROVE  y = z
      <4>1. PICK a \in cl.reqs : y = Tried(a)
        BY <3>1, Zenon
      <4>2. PICK b \in cl.reqs : z = Tried(b)
        BY <3>1, Zenon
      <4> QED
        BY <2>3, <4>1, <4>2, Zenon
    <3>5. \A y \in T : \E x \in cl.reqs : y.tid = x.tid /\ y.func = x.func
      BY <3>1, <3>2, Zenon
    <3> QED
      BY <3>3, <3>4, <3>5, Zenon
  <2>7. P \in SUBSET Wire /\ \A y \in P : \A z \in P : y = z
    <3>1. \A y \in P : \E x \in cl.reqs : y = Asking(cl, x)
      OBVIOUS
    <3> HIDE DEF P
    <3> QED
      BY <2>3, <2>5, <3>1, Zenon
  <2>8. \A y \in P : \E r \in cl.reqs : y = Asking(cl, r)
    BY Zenon
  <2>9. PICK q \in Orders(P) : up' = up \o q
    BY <2>1, Zenon DEF Sends
  <2> HIDE DEF P, T
  <2>10. IsFiniteSet(P) /\ Cardinality(P) \in {0, 1}
    <3>1. CASE P = {}
      BY <3>1, FiniteInterval, Zenon DEF Counts
    <3>2. CASE P # {}
      <4>1. PICK y : P = {y}
        BY <2>7, <3>2
      <4>2. IsFiniteSet({}) /\ P = {} \cup {y}
        BY <4>1, FiniteInterval, Zenon
      <4>3. IsFiniteSet(P)
        BY <4>2, FiniteAdd, Zenon
      <4> QED
        BY <4>1, <4>3, Zenon DEF Counts
    <3> QED
      BY <3>1, <3>2, Zenon
  <2>11. q \in Seq(Wire) /\ Range(q) \subseteq P /\ DOMAIN q \subseteq {1}
    <3>1. q \in Seq(Wire) /\ Range(q) \subseteq P
      BY <2>7, <2>10, AnyOrder, Zenon
    <3>2. DOMAIN q = 1..Cardinality(P)
      BY DEF Orders, Bijection, Injection
    <3>3. DOMAIN q \subseteq {1}
      BY <2>10, <3>2
    <3> QED
      BY <3>1, <3>3
  <2>12. up' = q
    BY <1>1, <2>9, <2>11
  <2>13. UpOrder'
    BY <2>11, <2>12 DEF UpOrder
  <2>14. \A p \in Up' : \E r \in cl.reqs : p = Asking(cl, r)
    BY <2>8, <2>11, <2>12, Zenon DEF Up
  <2>15. cl' \in Client
    BY <1>1, <2>1, <2>6, Zenon DEF Client
  <2>16. /\ cl'.reqs = T /\ cl'.st = cl.st /\ cl'.conn = cl.conn /\ cl'.expect = cl.expect
         /\ cl'.cache = cl.cache /\ cl'.held = cl.held /\ cl'.done = cl.done
         /\ cl'.last = cl.last /\ cl'.tid = cl.tid
    BY <1>1, <2>1, Zenon DEF Client
  <2>17. SameClient
    BY <2>6, <2>16, Zenon DEF SameClient
  <2> QED
    BY <1>1, <2>11, <2>12, <2>13, <2>14, <2>15, <2>16, <2>17, Zenon DEF ClientChats
<1> QED
  BY <1>2, <1>3, Zenon

(* AtalkStack::tick(): the requests that are tried again.                  *)
LEMMA RetriesSay ==
    ASSUME IInv, SameClient \/ Forgets, NEW n, n = retries, sv' = n.s
    PROVE  \E R : /\ Says(n, R, {}) /\ (\A e \in R : GoodReply(e))
                  /\ n.s.conn = sv.conn /\ n.s.seq = sv.seq /\ n.s.eofSeen = sv.eofSeen
                  /\ n.s.nextTid = sv.nextTid /\ n.s.job = sv.job /\ n.s.spool = sv.spool
                  /\ (n.s.open => sv.open) /\ n.s.pend \in {NoTxn, sv.pend}
                  /\ Kept(n.s.reqs) /\ IsFiniteSet(n.s.reqs) /\ n.s.reqs \subseteq Request
<1> DEFINE kept == {r \in sv.reqs : ~outOfTries(r)}
           Tried(r) == [r EXCEPT !.tries = @ + 1]
           Q == Retried(kept)
           st == [Idle EXCEPT !.s.reqs = Q]
<1>1. n = IF kept = sv.reqs THEN st ELSE readFailed(st)
  BY Zenon DEF retries, Retried
<1>2. Says(Idle, {}, {}) /\ Idle.s = sv /\ DOMAIN Idle = {"s", "out"} /\ sv \in Server
  BY IdleSays DEF IInv, Says, IsPair
<1>3. Q \in SUBSET Request
  <2>1. sv.reqs \subseteq Request
    BY Typed, Zenon DEF IInv
  <2>2. kTries \in Nat
    BY PapAssumption, Zenon
  <2>3. ASSUME NEW r \in kept
        PROVE  Tried(r) \in Request
    <3>1. r \in Request /\ r.tries \in 1..kTries /\ ~(r.tries + 1 > kTries)
      BY <2>1, Zenon DEF outOfTries, Request
    <3>2. r.tries + 1 \in 1..kTries
      BY <2>2, <3>1
    <3> QED
      BY <3>1, <3>2, Zenon DEF Request
  <2> QED
    BY <2>3, Zenon DEF Retried
<1>4. IsFiniteSet(Q)
  <2> DEFINE f == [r \in kept |-> Tried(r)]
  <2>1. IsFiniteSet(kept)
    BY SubsetKept
  <2>2. {f[r] : r \in kept} = Q /\ DOMAIN f = kept
    BY Zenon DEF Retried
  <2> HIDE DEF f, kept
  <2>3. IsFiniteSet({f[r] : r \in kept})
    BY <2>1, <2>2, FiniteImage
  <2> QED
    BY <2>2, <2>3, Zenon
<1>5. Kept(Q)
  <2>1. kept \in SUBSET sv.reqs
    OBVIOUS
  <2> HIDE DEF kept
  <2> QED
    BY <2>1, TriedKept, Zenon
<1> HIDE DEF kept, Q
<1>6. st.s = [sv EXCEPT !.reqs = Q] /\ st.out = Idle.out /\ DOMAIN st = {"s", "out"}
  BY <1>2, Zenon
<1> HIDE DEF st
<1>7. /\ st.s \in Server /\ st.s.xo = sv.xo /\ st.s.pend = sv.pend /\ st.s.reqs = Q
      /\ st.s.conn = sv.conn /\ st.s.seq = sv.seq /\ st.s.eofSeen = sv.eofSeen
      /\ st.s.nextTid = sv.nextTid /\ st.s.job = sv.job /\ st.s.spool = sv.spool
      /\ st.s.open = sv.open
  BY <1>2, <1>3, <1>6, Zenon DEF Server
<1>8. Says(st, {}, {})
  BY <1>2, <1>6, <1>7, TouchedSays, Zenon
<1>9. CASE n = st
  <2>1. \A e \in {} : GoodReply(e)
    BY Zenon
  <2> QED
    BY <1>3, <1>4, <1>5, <1>7, <1>8, <1>9, <2>1
<1>10. CASE n = readFailed(st)
  <2> DEFINE R == Released(st.s)
  <2>1. /\ Says(n, R, {}) /\ n.s.pend \in {st.s.pend, NoTxn}
        /\ SameCore([st.s EXCEPT !.inFlight = FALSE, !.open = FALSE], n.s)
    <3>1. /\ Says(n, {} \cup R, {}) /\ n.s.pend \in {st.s.pend, NoTxn}
          /\ SameCore([st.s EXCEPT !.inFlight = FALSE, !.open = FALSE], n.s)
      BY <1>8, <1>10, FailedSays, Zenon
    <3> QED
      BY <3>1
  <2>2. /\ n.s.conn = sv.conn /\ n.s.seq = sv.seq /\ n.s.eofSeen = sv.eofSeen
        /\ n.s.nextTid = sv.nextTid /\ n.s.job = sv.job /\ n.s.spool = sv.spool
        /\ n.s.open = FALSE /\ n.s.reqs = Q
    BY <1>7, <2>1, Zenon DEF SameCore, Server
  <2>3. \A e \in R : GoodReply(e)
    <3>1. ~sv'.open
      BY <2>2, Zenon
    <3> QED
      BY <1>7, <3>1, ReleasedTold, Zenon
  <2>4. n.s.pend \in {NoTxn, sv.pend}
    BY <1>7, <2>1, Zenon
  <2> HIDE DEF R
  <2> QED
    BY <1>3, <1>4, <1>5, <2>1, <2>2, <2>3, <2>4, Zenon
<1> QED
  BY <1>1, <1>9, <1>10, Zenon

(* A second passes: both requesters try again.                             *)
LEMMA SecondKeeps ==
    ASSUME IInv, Counts, Second
    PROVE  IInv'
<1>1. PICK n : n = retries
  BY Zenon
<1> DEFINE A == {Again(r) : r \in n.s.reqs}
           P == Range(n.out) \cup A
<1>2. /\ sv' = n.s /\ down' \in Orders(P) /\ UNCHANGED <<loss, slow>>
  BY <1>1, Zenon DEF Second
<1>3. ClientChats /\ (SameClient \/ Forgets)
  BY SecondChats, Zenon DEF ClientChats
<1>4. PICK R : /\ Says(n, R, {}) /\ (\A e \in R : GoodReply(e))
               /\ n.s.conn = sv.conn /\ n.s.seq = sv.seq /\ n.s.eofSeen = sv.eofSeen
               /\ n.s.nextTid = sv.nextTid /\ n.s.job = sv.job /\ n.s.spool = sv.spool
               /\ (n.s.open => sv.open) /\ n.s.pend \in {NoTxn, sv.pend}
               /\ Kept(n.s.reqs) /\ IsFiniteSet(n.s.reqs) /\ n.s.reqs \subseteq Request
  BY <1>1, <1>2, <1>3, RetriesSay, Zenon
<1>5. \A a \in A : a \in Wire /\ GoodPacket(a)
  <2>1. ASSUME NEW r \in n.s.reqs
        PROVE  Again(r) \in Wire /\ GoodPacket(Again(r))
    <3>1. r \in Request /\ \E x \in sv.reqs : r.tid = x.tid /\ r.conn = x.conn /\ r.seq = x.seq
      BY <1>4, Zenon DEF Kept
    <3>2. /\ r.tid \in Nat /\ r.conn \in Conns /\ r.seq \in Nat /\ r.need \subseteq Nat
      <4>1. kQuantum \in Nat
        BY PapAssumption
      <4>2. /\ r.tid \in Nat /\ r.conn \in Conns /\ r.seq \in Nat
            /\ r.need \subseteq 0..(kQuantum - 1)
        BY <3>1, Zenon DEF Request
      <4> QED
        BY <4>1, <4>2
    <3>3. Again(r) \in Wire
      BY <3>2, BodiesTyped, Zenon DEF Again, Req, Wire, Funcs
    <3>4. \E x \in sv.reqs : Reasks(Again(r), x)
      BY <3>1, Zenon DEF Again, Req, Reasks, IsAsk
    <3> QED
      BY <3>3, <3>4, Zenon DEF GoodPacket
  <2> QED
    BY <2>1, Zenon
<1>6. IsFiniteSet(A)
  <2> DEFINE f == [r \in n.s.reqs |-> Again(r)]
             S == n.s.reqs
  <2>1. {f[r] : r \in S} = A /\ DOMAIN f = S
    BY Zenon
  <2>2. IsFiniteSet(S)
    BY <1>4, Zenon
  <2> HIDE DEF f, S
  <2>3. IsFiniteSet({f[r] : r \in S})
    BY <2>1, <2>2, FiniteImage
  <2> QED
    BY <2>1, <2>3, Zenon
<1> HIDE DEF A
<1>7. P \in SUBSET Wire /\ IsFiniteSet(P)
  <2>1. n.out \in Seq(Wire)
    BY <1>4, Zenon DEF Says, IsPair
  <2>2. IsFiniteSet(Range(n.out)) /\ Range(n.out) \subseteq Wire
    BY <2>1, FiniteWire, Zenon
  <2> QED
    BY <1>5, <1>6, <2>2, FiniteJoin, Zenon
<1>8. down' \in Seq(Wire) /\ Range(down') \subseteq P
  <2>1. PICK q : q = down'
    OBVIOUS
  <2>2. q \in Orders(P)
    BY <1>2, <2>1, Zenon
  <2> HIDE DEF P
  <2>3. q \in Seq(Wire) /\ Range(q) \subseteq P
    BY <1>7, <2>2, AnyOrder, Zenon
  <2> QED
    BY <2>1, <2>3, Zenon
<1>9. \A p \in Down' : p \in Down \/ p \in Range(n.out) \/ GoodPacket(p)
  BY <1>5, <1>8, Zenon DEF Down
<1>10. \A p \in {} : GoodPacket(p)
  OBVIOUS
<1> HIDE DEF P
<1>11. down' \in Seq(Wire) /\ sv' = n.s /\ UNCHANGED <<loss, slow>> /\ ClientChats
  BY <1>2, <1>3, <1>8, Zenon
<1>12. ChatStep(n, R, {})
  BY <1>4, <1>9, <1>10, <1>11, Zenon DEF ChatStep
<1> QED
  BY <1>12, ChatStepKeeps, Zenon

=============================================================================
