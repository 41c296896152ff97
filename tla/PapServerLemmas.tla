-------------------------- MODULE PapServerLemmas ---------------------------
(***************************************************************************)
(* The inductive invariant of PapServer, what its handlers return, the     *)
(* steps of the server that bring the client no news, and handleAtp() on a *)
(* request.                                                                *)
(***************************************************************************)
EXTENDS PapServer, TLAPS

-----------------------------------------------------------------------------
(* Types.                                                                  *)

Body == [ok : BOOLEAN, eof : BOOLEAN, n : Data \cup Nat]
Wire == [k : {"TReq", "TResp", "TRel"}, tid : Nat, func : Funcs \cup {"tickle"},
         conn : Conns \cup {0}, seq : Nat, bits : SUBSET Nat, eom : BOOLEAN, body : Body]
Txn == [tid : Nat, func : Funcs]
Request == [tid : Nat, conn : Conns, seq : Nat, need : SUBSET (0..(kQuantum - 1)),
            resp : Seq(Body), tries : 1..kTries]
Reply == [tid : Nat, func : Funcs, body : Body]
Job == [conn : Conns, job : Seq(Data), eof : BOOLEAN]
Server == [enabled : BOOLEAN, offs : Nat, open : BOOLEAN, conn : Conns \cup {0},
           seq : Nat, inFlight : BOOLEAN, eofSeen : BOOLEAN, job : Seq(Data),
           answers : Nat, pend : Txn, silent : 0..(kMinutes + 1), spool : Seq(Job),
           nextTid : Nat \ {0}, reqs : SUBSET Request, xo : SUBSET Reply,
           pendTx : SUBSET Nat]
Asks == [tid : Nat, func : Funcs, tries : Nat]
Client == [st : {"idle", "opening", "open", "closing"}, conn : Conns \cup {0},
           last : Conns \cup {0}, tid : Nat, reqs : SUBSET Asks, expect : Nat,
           cache : [tid : Nat, burst : Nat], held : Wire, done : BOOLEAN, quits : Nat]

Types ==
    /\ up \in Seq(Wire) /\ down \in Seq(Wire)
    /\ loss \in 0..MaxLoss /\ slow \in BOOLEAN
    /\ sv \in Server /\ IsFiniteSet(sv.reqs)
    /\ cl \in Client

-----------------------------------------------------------------------------
(* What is on the wires.                                                   *)

Up == Range(up)
Down == Range(down)
IsOpen(p) == p.k = "TReq" /\ p.func = "open"
IsClose(p) == p.k = "TReq" /\ p.func = "close"
IsAsk(p) == p.k = "TReq" /\ p.func = "read"
IsPacket(p) == p.k = "TResp"

(* The connections an OpenConn may still arrive for.                       *)
Coming == {p.conn : p \in {x \in Up : IsOpen(x)}}
              \cup (IF cl.st = "opening" THEN {cl.conn} ELSE {})

(* The SendData requests an answer may still arrive for.                   *)
Answered == {p.tid : p \in {x \in Up : IsPacket(x)}} \cup {cl.cache.tid}

-----------------------------------------------------------------------------
(* The client.                                                             *)

ClientInv ==
    /\ cl.conn \in {0, cl.last} /\ (cl.st = "idle" <=> cl.conn = 0)
    /\ \A r \in cl.reqs : \A x \in cl.reqs : x = r
    /\ \A r \in cl.reqs :
          /\ r.tid \in 1..cl.tid
          /\ \/ r.func = "open" /\ cl.st = "opening"
             \/ r.func = "read" /\ cl.st = "open"
             \/ r.func = "close" /\ cl.st = "closing"
    /\ cl.st # "open" => cl.cache = NoCache /\ cl.held = NoHeld /\ ~cl.done
    /\ cl.st = "opening" => cl.expect = 1
    /\ cl.st = "open" => cl.expect # 0
    /\ cl.cache # NoCache => /\ cl.cache.tid \in 1..(sv.nextTid - 1)
                             /\ cl.cache.burst \in 1..Bursts(cl.conn)
                             /\ cl.cache.burst < cl.expect
    /\ cl.held # NoHeld => /\ IsAsk(cl.held) /\ cl.held.tid \in 1..(sv.nextTid - 1)
                           /\ cl.held.conn = cl.conn /\ cl.held.seq = cl.expect
                           /\ cl.expect \in 1..Bursts(cl.conn)

-----------------------------------------------------------------------------
(* Transaction identifiers are not reused.                                 *)

TidInv ==
    /\ \A r \in sv.reqs : r.tid \in 1..(sv.nextTid - 1)
    /\ \A r \in sv.reqs : \A x \in sv.reqs : r.tid = x.tid => r = x
    /\ \A p \in Down : IsAsk(p) => p.tid \in 1..(sv.nextTid - 1)
    /\ \A p \in Up : IsPacket(p) => p.tid \in 1..(sv.nextTid - 1)
    /\ \A p \in Up : p.k = "TReq" /\ p.func # "tickle" => p.tid \in 1..cl.tid
    /\ \A p \in Up : p.k = "TReq" /\ p.func = "tickle" => p.tid = 0
    /\ \A p \in Down : p.k = "TResp" => p.tid \in 1..cl.tid
    /\ \A e \in sv.xo : e.tid \in 1..cl.tid
    /\ sv.pend # NoTxn => sv.pend.tid \in 1..cl.tid /\ sv.pend.func = "read"

(* What carries the identifier of a request the client still waits for.    *)
Mine(p) == \A r \in cl.reqs : p.tid = r.tid => p.func = r.func /\ p.conn = cl.conn
Sound(e) ==
    \A r \in cl.reqs : e.tid = r.tid =>
       /\ e.func = r.func
       /\ e.func = "open" /\ e.body.ok => sv.conn = cl.conn
       /\ e.func = "read" /\ e.body.eof /\ sv.open /\ sv.conn = cl.conn => Spooled(cl.conn)
Final(p) ==
    \A r \in cl.reqs : p.tid = r.tid /\ p.func = "open" => \A x \in Up : ~IsOpen(x)
MineInv ==
    /\ \A p \in Up : p.k = "TReq" /\ p.func # "tickle" => Mine(p)
    /\ \A e \in sv.xo : Sound(e)
    /\ \A p \in Down : p.k = "TResp" => Sound(p) /\ Final(p)
    /\ sv.pend # NoTxn => \A r \in cl.reqs : sv.pend.tid = r.tid => r.func = "read"

-----------------------------------------------------------------------------
(* The order of the connections.                                           *)

UpOrder ==
    \A i, j \in DOMAIN up : i < j /\ IsOpen(up[i]) =>
       /\ ~IsPacket(up[j])
       /\ IsOpen(up[j]) => up[i].conn < up[j].conn
OrderInv ==
    /\ UpOrder
    /\ cl.st \in {"open", "closing"} => \A p \in Up : ~IsOpen(p)
    /\ cl.st = "open" /\ sv.open => sv.conn = cl.conn
    /\ sv.open => sv.conn # 0
    /\ sv.conn <= cl.last
    /\ \A p \in Up : IsOpen(p) \/ IsClose(p) => p.conn \in 1..cl.last
    /\ \A i \in DOMAIN sv.spool : sv.spool[i].conn <= sv.conn
    /\ \A o \in Coming :
          /\ sv.conn <= o
          /\ \A i \in DOMAIN sv.spool : sv.spool[i].conn < o
          /\ \A p \in Up : IsClose(p) => p.conn < o
          /\ \A r \in sv.reqs : r.tid \in Answered => r.conn < o
          /\ sv.conn = o => sv.seq <= 1 /\ (sv.open => ~sv.eofSeen)

-----------------------------------------------------------------------------
(* The bursts.                                                             *)

Matches(p, r) == p.tid = r.tid => p.conn = r.conn /\ p.seq = r.seq
AskInv ==
    /\ \A r \in sv.reqs :
          /\ r.seq \in 1..Bursts(r.conn)
          /\ r.conn <= sv.conn /\ (r.conn = sv.conn => r.seq <= sv.seq)
          /\ \A p \in Down : IsAsk(p) => Matches(p, r)
          /\ cl.held # NoHeld => Matches(cl.held, r)
          /\ cl.cache # NoCache /\ cl.cache.tid = r.tid =>
                r.conn = cl.conn /\ r.seq = cl.cache.burst
          /\ cl.st = "open" /\ r.tid \in Answered /\ r.conn = cl.conn =>
                r.seq < cl.expect
    /\ cl.st \in {"opening", "open"} /\ sv.open /\ sv.conn = cl.conn =>
          IF sv.eofSeen THEN sv.seq < cl.expect ELSE sv.seq <= cl.expect

(* At most one request is being answered: the one the server waits for.    *)
AnswerInv ==
    sv.open =>
       \A r \in sv.reqs : r.tid \in Answered =>
          /\ r.conn = sv.conn /\ r.seq = sv.seq /\ ~sv.eofSeen
          /\ \A x \in sv.reqs : x.tid \in Answered => x = r

PacketOf(p, r) ==
    /\ p.seq < Size(r.conn, r.seq)
    /\ p.body = Packet(r.conn, r.seq, p.seq)
    /\ p.eom <=> p.seq + 1 = Size(r.conn, r.seq)
Holds(r) ==
    /\ r.need # {}
    /\ Len(r.resp) <= Size(r.conn, r.seq)
    /\ \A b \in 0..(Size(r.conn, r.seq) - 1) :
          b \in r.need \/ (b < Len(r.resp) /\ r.resp[b + 1] = Packet(r.conn, r.seq, b))
DataInv ==
    \A r \in sv.reqs :
       /\ \A p \in Up : IsPacket(p) /\ p.tid = r.tid => PacketOf(p, r)
       /\ Holds(r)

JobInv ==
    /\ sv.open /\ ~sv.eofSeen =>
          /\ sv.seq \in 1..Bursts(sv.conn)
          /\ sv.job = SubSeq(Doc[sv.conn], 1, Begin(sv.conn, sv.seq))
          /\ \A i \in DOMAIN sv.spool : sv.spool[i].conn < sv.conn
    /\ sv.open /\ sv.eofSeen => sv.job = <<>> /\ Spooled(sv.conn)

IInv ==
    /\ Types /\ ClientInv /\ TidInv /\ MineInv /\ OrderInv /\ AskInv /\ AnswerInv
    /\ DataInv /\ JobInv /\ JobsExact /\ SpooledOnce /\ EofMeansSpooled

-----------------------------------------------------------------------------
(* Sequences as wires, and finite sets of requests.                        *)

(* Taking a packet off a wire.                                             *)
LEMMA TailOfWire ==
    ASSUME NEW S, NEW w \in Seq(S), w # <<>>
    PROVE  /\ Tail(w) \in Seq(S) /\ Head(w) \in S
           /\ Head(w) \in Range(w)
           /\ Range(Tail(w)) \subseteq Range(w)
           /\ DOMAIN Tail(w) = 1..(Len(w) - 1)
           /\ \A i \in DOMAIN Tail(w) : i + 1 \in DOMAIN w /\ Tail(w)[i] = w[i + 1]
           /\ 1 \in DOMAIN w /\ Head(w) = w[1]
<1>1. /\ Tail(w) \in Seq(S) /\ Head(w) \in S
      /\ Len(w) \in Nat \ {0} /\ DOMAIN w = 1..Len(w) /\ Head(w) = w[1]
      /\ Len(Tail(w)) = Len(w) - 1
      /\ \A i \in 1..Len(Tail(w)) : Tail(w)[i] = w[i + 1]
  OBVIOUS
<1>2. DOMAIN Tail(w) = 1..(Len(w) - 1)
  BY <1>1
<1>3. \A i \in DOMAIN Tail(w) : i + 1 \in DOMAIN w /\ Tail(w)[i] = w[i + 1]
  BY <1>1, <1>2
<1>4. Head(w) \in Range(w) /\ Range(Tail(w)) \subseteq Range(w)
  BY <1>1, <1>2, <1>3 DEF Range
<1> QED
  BY <1>1, <1>2, <1>3, <1>4

(* Sequences of the same length and the same elements are the same.        *)
LEMMA SameSequence ==
    ASSUME NEW S, NEW w \in Seq(S), NEW q \in Seq(S), Len(w) = Len(q),
           \A i \in 1..Len(w) : w[i] = q[i]
    PROVE  w = q
OBVIOUS

(* Putting packets on a wire.                                              *)
LEMMA JoinedWires ==
    ASSUME NEW S, NEW w \in Seq(S), NEW q \in Seq(S)
    PROVE  /\ w \o q \in Seq(S)
           /\ Range(w \o q) = Range(w) \cup Range(q)
           /\ \A i \in DOMAIN (w \o q) :
                 \/ i \in DOMAIN w /\ (w \o q)[i] = w[i]
                 \/ i \notin DOMAIN w /\ (w \o q)[i] \in Range(q)
<1>1. /\ w \o q \in Seq(S) /\ Len(w \o q) = Len(w) + Len(q)
      /\ \A i \in 1..(Len(w) + Len(q)) :
            (w \o q)[i] = IF i <= Len(w) THEN w[i] ELSE q[i - Len(w)]
  OBVIOUS
<1>2. /\ DOMAIN (w \o q) = 1..(Len(w) + Len(q)) /\ DOMAIN w = 1..Len(w)
      /\ DOMAIN q = 1..Len(q) /\ Len(w) \in Nat /\ Len(q) \in Nat
  BY <1>1
<1>3. ASSUME NEW i \in DOMAIN (w \o q)
      PROVE  \/ i \in DOMAIN w /\ (w \o q)[i] = w[i]
             \/ i \notin DOMAIN w /\ (w \o q)[i] \in Range(q)
  <2>1. CASE i <= Len(w)
    BY <1>1, <1>2, <2>1
  <2>2. CASE ~(i <= Len(w))
    <3>1. i - Len(w) \in DOMAIN q /\ i \notin DOMAIN w /\ (w \o q)[i] = q[i - Len(w)]
      BY <1>1, <1>2, <2>2
    <3> QED
      BY <3>1 DEF Range
  <2> QED
    BY <2>1, <2>2
<1>4. Range(w \o q) \subseteq Range(w) \cup Range(q)
  BY <1>3 DEF Range
<1>5. ASSUME NEW x \in Range(w)
      PROVE  x \in Range(w \o q)
  <2>1. PICK i \in 1..Len(w) : x = w[i]
    BY <1>2, <1>5 DEF Range
  <2>2. i \in DOMAIN (w \o q) /\ (w \o q)[i] = x
    BY <1>1, <1>2, <2>1
  <2> QED
    BY <2>2 DEF Range
<1>6. ASSUME NEW x \in Range(q)
      PROVE  x \in Range(w \o q)
  <2>1. PICK i \in 1..Len(q) : x = q[i]
    BY <1>2, <1>6 DEF Range
  <2>2. Len(w) + i \in DOMAIN (w \o q) /\ (w \o q)[Len(w) + i] = x
    BY <1>1, <1>2, <2>1
  <2> QED
    BY <2>2 DEF Range
<1> QED
  BY <1>1, <1>3, <1>4, <1>5, <1>6

(* Sending a packet adds it to the wire and nothing else.                  *)
LEMMA AppendedWire ==
    ASSUME NEW S, NEW w \in Seq(S), NEW p \in S
    PROVE  /\ Append(w, p) \in Seq(S)
           /\ Range(Append(w, p)) = Range(w) \cup {p}
           /\ \A i \in DOMAIN Append(w, p) :
                 \/ i \in DOMAIN w /\ Append(w, p)[i] = w[i]
                 \/ i \notin DOMAIN w /\ Append(w, p)[i] = p
<1> DEFINE v == Append(w, p)
<1>1. /\ v \in Seq(S) /\ Len(v) = Len(w) + 1 /\ Len(w) \in Nat
      /\ \A i \in 1..Len(w) : v[i] = w[i]
      /\ v[Len(w) + 1] = p
  OBVIOUS
<1>2. DOMAIN v = 1..(Len(w) + 1) /\ DOMAIN w = 1..Len(w)
  BY <1>1
<1> HIDE DEF v
<1>3. \A i \in DOMAIN v : \/ i \in DOMAIN w /\ v[i] = w[i]
                          \/ i \notin DOMAIN w /\ v[i] = p
  BY <1>1, <1>2
<1>4. \A i \in DOMAIN w : i \in DOMAIN v /\ v[i] = w[i]
  BY <1>1, <1>2
<1>5. Len(w) + 1 \in DOMAIN v
  BY <1>1, <1>2
<1>6. Range(v) = Range(w) \cup {p}
  BY <1>1, <1>3, <1>4, <1>5 DEF Range
<1> QED
  BY <1>1, <1>3, <1>6 DEF v

(* A subset of a finite set is finite.                                     *)
LEMMA FiniteSubset ==
    ASSUME NEW S, IsFiniteSet(S), NEW T \in SUBSET S
    PROVE  IsFiniteSet(T)
<1>1. CASE T = {}
  <2>1. <<>> \in Seq(T) /\ \A s \in T : \E n \in 1..Len(<<>>) : <<>>[n] = s
    BY <1>1
  <2> QED
    BY <2>1, Zenon DEF IsFiniteSet
<1>2. CASE T # {}
  <2>1. PICK t : t \in T
    BY <1>2
  <2>2. PICK q \in Seq(S) : \A s \in S : \E n \in 1..Len(q) : q[n] = s
    BY Zenon DEF IsFiniteSet
  <2> DEFINE f == [n \in 1..Len(q) |-> IF q[n] \in T THEN q[n] ELSE t]
  <2>3. f \in Seq(T) /\ Len(f) = Len(q)
    BY <2>1, <2>2
  <2>4. \A s \in T : \E n \in 1..Len(f) : f[n] = s
    BY <2>2, <2>3, Zenon
  <2> HIDE DEF f
  <2> QED
    BY <2>3, <2>4, Zenon DEF IsFiniteSet
<1> QED
  BY <1>1, <1>2

(* One more element leaves a set finite.                                   *)
LEMMA FiniteAdd ==
    ASSUME NEW S, IsFiniteSet(S), NEW x
    PROVE  IsFiniteSet(S \cup {x})
<1>1. PICK q \in Seq(S) : \A s \in S : \E n \in 1..Len(q) : q[n] = s
  BY Zenon DEF IsFiniteSet
<1> DEFINE f == Append(q, x)
<1>2. f \in Seq(S \cup {x}) /\ Len(f) = Len(q) + 1 /\ f[Len(q) + 1] = x
      /\ \A n \in 1..Len(q) : f[n] = q[n]
  BY <1>1
<1> HIDE DEF f
<1>3. ASSUME NEW s \in S \cup {x}
      PROVE  \E n \in 1..Len(f) : f[n] = s
  <2>1. CASE s \in S
    <3>1. PICK n \in 1..Len(q) : q[n] = s
      BY <1>1, <2>1
    <3>2. n \in 1..Len(f) /\ f[n] = s
      BY <1>1, <1>2, <3>1
    <3> QED
      BY <3>2
  <2>2. CASE s = x
    <3>1. Len(q) + 1 \in 1..Len(f) /\ f[Len(q) + 1] = s
      BY <1>1, <1>2, <2>2
    <3> QED
      BY <3>1
  <2> QED
    BY <1>3, <2>1, <2>2
<1> QED
  BY <1>2, <1>3, Zenon DEF IsFiniteSet

(* The set of nothing and intervals are finite.                            *)
LEMMA FiniteInterval ==
    ASSUME NEW k \in Nat
    PROVE  IsFiniteSet({}) /\ IsFiniteSet(1..k) /\ IsFiniteSet(0..(k - 1))
<1> DEFINE e == <<>>
           f == [n \in 1..k |-> n]
           g == [n \in 1..k |-> n - 1]
<1>1. e \in Seq({}) /\ \A s \in {} : \E n \in 1..Len(e) : e[n] = s
  OBVIOUS
<1>2. f \in Seq(1..k) /\ \A s \in 1..k : \E n \in 1..Len(f) : f[n] = s
  OBVIOUS
<1>3. g \in Seq(0..(k - 1)) /\ Len(g) = k
  OBVIOUS
<1>4. ASSUME NEW s \in 0..(k - 1)
      PROVE  \E n \in 1..Len(g) : g[n] = s
  <2>1. s + 1 \in 1..k /\ g[s + 1] = s
    OBVIOUS
  <2> QED
    BY <1>3, <2>1
<1> HIDE DEF e, f, g
<1> QED
  BY <1>1, <1>2, <1>3, <1>4, Zenon DEF IsFiniteSet

(* The image of a finite set is finite.                                    *)
LEMMA FiniteImage ==
    ASSUME NEW S, IsFiniteSet(S), NEW f, DOMAIN f = S
    PROVE  IsFiniteSet({f[x] : x \in S})
<1> DEFINE T == {f[x] : x \in S}
<1>1. PICK q \in Seq(S) : \A s \in S : \E n \in 1..Len(q) : q[n] = s
  BY Zenon DEF IsFiniteSet
<1> DEFINE g == [n \in 1..Len(q) |-> f[q[n]]]
<1>2. g \in Seq(T) /\ Len(g) = Len(q)
  BY <1>1
<1>3. ASSUME NEW t \in T
      PROVE  \E n \in 1..Len(g) : g[n] = t
  <2>1. PICK s \in S : t = f[s]
    OBVIOUS
  <2>2. PICK n \in 1..Len(q) : q[n] = s
    BY <1>1
  <2>3. g[n] = t
    BY <2>1, <2>2
  <2> QED
    BY <1>2, <2>3
<1> HIDE DEF T, g
<1>4. IsFiniteSet(T)
  BY <1>2, <1>3, Zenon DEF IsFiniteSet
<1> QED
  BY <1>4 DEF T

(* Two finite sets make one.                                               *)
LEMMA FiniteJoin ==
    ASSUME NEW S, IsFiniteSet(S), NEW T, IsFiniteSet(T)
    PROVE  IsFiniteSet(S \cup T)
<1>1. PICK q \in Seq(S) : \A s \in S : \E n \in 1..Len(q) : q[n] = s
  BY Zenon DEF IsFiniteSet
<1>2. PICK w \in Seq(T) : \A t \in T : \E n \in 1..Len(w) : w[n] = t
  BY Zenon DEF IsFiniteSet
<1>3. /\ q \in Seq(S \cup T) /\ w \in Seq(S \cup T)
      /\ DOMAIN q = 1..Len(q) /\ DOMAIN w = 1..Len(w)
  OBVIOUS
<1>4. /\ q \o w \in Seq(S \cup T) /\ Range(q \o w) = Range(q) \cup Range(w)
  BY <1>3, JoinedWires
<1>5. S \subseteq Range(q)
  BY <1>1, <1>3, Zenon DEF Range
<1>6. T \subseteq Range(w)
  BY <1>2, <1>3, Zenon DEF Range
<1> DEFINE v == q \o w
<1>7. v \in Seq(S \cup T) /\ S \cup T \subseteq Range(v)
  BY <1>4, <1>5, <1>6
<1> HIDE DEF v
<1>8. \A x \in S \cup T : \E n \in 1..Len(v) : v[n] = x
  BY <1>7 DEF Range
<1> QED
  BY <1>7, <1>8, Zenon DEF IsFiniteSet

(* The packets of a sequence.                                              *)
LEMMA FiniteWire ==
    ASSUME NEW w \in Seq(Wire)
    PROVE  IsFiniteSet(Range(w)) /\ Range(w) \subseteq Wire
<1>1. Len(w) \in Nat /\ DOMAIN w = 1..Len(w)
  OBVIOUS
<1>2. IsFiniteSet(DOMAIN w)
  BY <1>1, FiniteInterval
<1>3. IsFiniteSet({w[i] : i \in DOMAIN w})
  BY <1>2, FiniteImage
<1>4. Range(w) = {w[i] : i \in DOMAIN w}
  BY DEF Range
<1> QED
  BY <1>1, <1>3, <1>4

(* What the steps need to know of Cardinality: PapServerProofs shows it    *)
(* (CountsHold) from the library of finite sets.                           *)
Counts ==
    /\ \A S : IsFiniteSet(S) => Cardinality(S) \in Nat
    /\ Cardinality({}) = 0
    /\ \A x : Cardinality({x}) = 1

(* Packets sent in some order.                                             *)
LEMMA AnyOrder ==
    ASSUME Counts, NEW S, NEW P \in SUBSET S, IsFiniteSet(P), NEW q \in Orders(P)
    PROVE  q \in Seq(S) /\ Range(q) \subseteq P
<1>1. Cardinality(P) \in Nat /\ q \in [1..Cardinality(P) -> P]
  BY Zenon DEF Counts, Orders, Bijection, Injection
<1>2. q \in Seq(P)
  BY <1>1
<1>3. Range(q) \subseteq P
  BY <1>1 DEF Range
<1> QED
  BY <1>2, <1>3

-----------------------------------------------------------------------------
(* The handlers.                                                           *)

IsPair(st) == DOMAIN st = {"s", "out"} /\ st.s \in Server /\ st.out \in Seq(Wire)
ReplyOf(t, body) == [tid |-> t.tid, func |-> t.func, body |-> body]
Carries(p, e) == p = Resp(e.tid, e.func, 0, TRUE, e.body)

(* st came from the server by making the replies R, and by sending O.      *)
Says(st, R, O) ==
    /\ IsPair(st) /\ R \subseteq Reply
    /\ \A e \in st.s.xo : e \in sv.xo \/ e \in R
    /\ \A p \in Range(st.out) : p \in O \/ \E e \in R : Carries(p, e)

(* What answering the client leaves alone.                                 *)
SameCore(s, n) ==
    /\ n.enabled = s.enabled /\ n.offs = s.offs /\ n.open = s.open /\ n.conn = s.conn
    /\ n.seq = s.seq /\ n.inFlight = s.inFlight /\ n.eofSeen = s.eofSeen
    /\ n.job = s.job /\ n.silent = s.silent /\ n.spool = s.spool
    /\ n.nextTid = s.nextTid /\ n.reqs = s.reqs

(* The bodies the server makes itself.                                     *)
LEMMA BodiesTyped ==
    /\ NoBody \in Body /\ Eof \in Body
    /\ \A b \in BOOLEAN : [NoBody EXCEPT !.ok = b] \in Body
    /\ \A b \in BOOLEAN, n \in Nat : [NoBody EXCEPT !.eof = b, !.n = n] \in Body
BY Zenon DEF NoBody, Eof, Body

(* A response packet is a packet.                                          *)
LEMMA RespTyped ==
    ASSUME NEW t \in Nat, NEW f \in Funcs, NEW b \in Body, NEW i \in Nat, NEW m \in BOOLEAN
    PROVE  Resp(t, f, i, m, b) \in Wire
BY DEF Resp, Wire

(* What respond() caches is a reply.                                       *)
LEMMA ReplyTyped ==
    ASSUME NEW t \in Txn, NEW b \in Body
    PROVE  ReplyOf(t, b) \in Reply
BY DEF Txn, Reply, ReplyOf

(* A release is a packet.                                                  *)
LEMMA RelTyped ==
    ASSUME NEW t \in Nat
    PROVE  Rel(t) \in Wire /\ Rel(t).k = "TRel" /\ Rel(t).tid = t
<1> DEFINE q == Req(t, "read", 0, 0, {})
<1>1. q \in Wire /\ q.tid = t
  <2>1. 0 \in Nat /\ {} \in SUBSET Nat
    OBVIOUS
  <2> QED
    BY <2>1, BodiesTyped, Zenon DEF Req, Wire, Funcs
<1>2. Rel(t) = [q EXCEPT !.k = "TRel"]
  BY DEF Rel
<1> HIDE DEF q
<1> QED
  BY <1>1, <1>2, Zenon DEF Wire

(* No pending read.                                                        *)
LEMMA NoTxnTyped == NoTxn \in Txn
BY DEF NoTxn, Txn, Funcs

(* A handler that does nothing says nothing.                               *)
LEMMA IdleSays ==
    ASSUME Types
    PROVE  Says(Idle, {}, {}) /\ Idle.s = sv /\ Idle.out = <<>>
<1>1. Idle.s = sv /\ Idle.out = <<>> /\ IsPair(Idle)
  BY DEF Types, Idle, IsPair
<1> QED
  BY <1>1 DEF Says, Range

(* The handler changes fields of the server and sends nothing.             *)
LEMMA TouchedSays ==
    ASSUME NEW st, NEW R, NEW O, Says(st, R, O),
           NEW n, DOMAIN n = {"s", "out"}, n.s \in Server, n.out = st.out,
           n.s.xo \subseteq st.s.xo
    PROVE  Says(n, R, O)
BY DEF Says, IsPair

(* What a handler says may be overestimated.                               *)
LEMMA MoreSays ==
    ASSUME NEW st, NEW R, NEW O, Says(st, R, O),
           NEW R2, R \subseteq R2, R2 \subseteq Reply, NEW O2, O \subseteq O2
    PROVE  Says(st, R2, O2)
BY Zenon DEF Says

(* Sending one packet.                                                     *)
LEMMA EmitSays ==
    ASSUME NEW st, NEW R, NEW O, Says(st, R, O), NEW p \in Wire
    PROVE  /\ Says(Emit(st, p), R, O \cup {p})
           /\ Emit(st, p).s = st.s /\ Emit(st, p).out = Append(st.out, p)
<1>1. IsPair(st) /\ st.s \in Server /\ st.out \in Seq(Wire)
  BY DEF Says, IsPair
<1>2. /\ Emit(st, p).s = st.s /\ Emit(st, p).out = Append(st.out, p)
      /\ DOMAIN Emit(st, p) = {"s", "out"}
  BY <1>1 DEF Emit, IsPair
<1>3. Append(st.out, p) \in Seq(Wire) /\ Range(Append(st.out, p)) = Range(st.out) \cup {p}
  BY <1>1, AppendedWire
<1> QED
  BY <1>1, <1>2, <1>3, Zenon DEF Says, IsPair

(* respond(): one reply, kept when the request is exactly-once.            *)
LEMMA RespondSays ==
    ASSUME NEW st, NEW R, NEW O, Says(st, R, O), NEW t \in Txn, NEW b \in Body
    PROVE  /\ Says(respond(st, t, b), R \cup {ReplyOf(t, b)}, O)
           /\ SameCore(st.s, respond(st, t, b).s)
           /\ respond(st, t, b).s.pend = st.s.pend
           /\ respond(st, t, b).s.answers = st.s.answers
           /\ respond(st, t, b).s.pendTx \subseteq st.s.pendTx
<1> DEFINE n == respond(st, t, b)
           e == ReplyOf(t, b)
           p == Resp(t.tid, t.func, 0, TRUE, b)
           m == Emit(st, p)
<1>1. /\ st.s \in Server /\ st.out \in Seq(Wire) /\ st.s.xo \subseteq Reply
      /\ st.s.pendTx \subseteq Nat
  BY DEF Says, IsPair, Server
<1>2. t.tid \in Nat /\ t.func \in Funcs /\ e \in Reply /\ p \in Wire /\ Carries(p, e)
  BY RespTyped, Zenon DEF Txn, ReplyOf, Reply, Carries
<1>3. n = [m EXCEPT !.s.xo = Cached(@, t, b), !.s.pendTx = @ \ {t.tid}]
  BY DEF respond
<1>4. Cached(st.s.xo, t, b) \subseteq st.s.xo \cup {e}
  BY DEF Cached, ReplyOf
<1> HIDE DEF n, e, p
<1>5. Says(m, R, O \cup {p}) /\ m.s = st.s /\ m.out = Append(st.out, p)
      /\ DOMAIN m = {"s", "out"}
  <2>1. Says(m, R, O \cup {p}) /\ m.s = st.s /\ m.out = Append(st.out, p)
    BY <1>2, EmitSays, Zenon
  <2> HIDE DEF m
  <2> QED
    BY <2>1 DEF Says, IsPair
<1> HIDE DEF m
<1>6. /\ DOMAIN n = {"s", "out"} /\ n.out = m.out
      /\ n.s = [st.s EXCEPT !.xo = Cached(st.s.xo, t, b), !.pendTx = st.s.pendTx \ {t.tid}]
  BY <1>3, <1>5
<1>7. n.s \in Server /\ n.s.xo = Cached(st.s.xo, t, b) /\ n.s.pendTx = st.s.pendTx \ {t.tid}
  <2>1. Cached(st.s.xo, t, b) \in SUBSET Reply /\ st.s.pendTx \ {t.tid} \in SUBSET Nat
    BY <1>1, <1>2, <1>4, Zenon
  <2> QED
    BY <1>1, <1>6, <2>1, Zenon DEF Server
<1>8. SameCore(st.s, n.s) /\ n.s.pend = st.s.pend /\ n.s.answers = st.s.answers
  BY <1>1, <1>6, Zenon DEF Server, SameCore
<1>9. Range(n.out) = Range(st.out) \cup {p} /\ n.out \in Seq(Wire)
  BY <1>1, <1>2, <1>5, <1>6, AppendedWire
<1>10. Says(n, R \cup {e}, O)
  BY <1>2, <1>4, <1>6, <1>7, <1>9, ZenonT(30) DEF Says, IsPair
<1> QED
  BY <1>7, <1>8, <1>10 DEF n, e

(* The reply a deferred read gets when the connection goes, and when there *)
(* is something to tell.                                                   *)
Released(s) == IF s.pend = NoTxn THEN {} ELSE {ReplyOf(s.pend, Eof)}
Flushed(s) ==
    IF s.pend = NoTxn \/ (s.answers = 0 /\ ~s.eofSeen) THEN {}
    ELSE {ReplyOf(s.pend, reading(s))}

(* A reply takes away no more answers than there are, and says EOF only    *)
(* after it.                                                               *)
LEMMA ReadingTyped ==
    ASSUME NEW s \in Server
    PROVE  /\ reading(s) \in Body /\ (reading(s).eof => s.eofSeen)
           /\ s.answers - fits(s) \in Nat
<1>1. s.answers \in Nat /\ s.eofSeen \in BOOLEAN
  BY Zenon DEF Server
<1>2. kAnswers \in Nat
  BY PapAssumption, Zenon
<1>3. fits(s) \in Nat /\ s.answers - fits(s) \in Nat
  BY <1>1, <1>2 DEF fits
<1>4. (s.eofSeen /\ s.answers <= kAnswers) \in BOOLEAN
  BY <1>1, <1>2
<1>5. reading(s) \in Body
  BY <1>3, <1>4, BodiesTyped, Zenon DEF reading
<1>6. reading(s).eof = (s.eofSeen /\ s.answers <= kAnswers)
  BY DEF reading, NoBody
<1> QED
  BY <1>1, <1>3, <1>5, <1>6

(* releasePending(): the deferred read is told EOF.                        *)
LEMMA ReleaseSays ==
    ASSUME NEW st, NEW R, NEW O, Says(st, R, O)
    PROVE  /\ Says(releaseClientRead(st), R \cup Released(st.s), O)
           /\ SameCore(st.s, releaseClientRead(st).s)
           /\ releaseClientRead(st).s.pend = NoTxn
           /\ releaseClientRead(st).s.answers = st.s.answers
<1>1. CASE st.s.pend = NoTxn
  <2>1. releaseClientRead(st) = st /\ R \cup Released(st.s) = R
    BY <1>1 DEF releaseClientRead, Released
  <2> QED
    BY <1>1, <2>1 DEF SameCore
<1>2. CASE st.s.pend # NoTxn
  <2> DEFINE m == [st EXCEPT !.s.pend = NoTxn]
  <2>1. st.s \in Server /\ DOMAIN st = {"s", "out"} /\ st.s.pend \in Txn
    BY DEF Says, IsPair, Server
  <2>2. m.s = [st.s EXCEPT !.pend = NoTxn] /\ m.out = st.out /\ DOMAIN m = {"s", "out"}
    BY <2>1, Zenon
  <2>3. releaseClientRead(st) = respond(m, st.s.pend, Eof)
        /\ Released(st.s) = {ReplyOf(st.s.pend, Eof)}
    BY <1>2 DEF releaseClientRead, Released
  <2> HIDE DEF m
  <2>4. m.s \in Server /\ SameCore(st.s, m.s) /\ m.s.pend = NoTxn
        /\ m.s.answers = st.s.answers /\ m.s.xo = st.s.xo
    BY <2>1, <2>2, NoTxnTyped, Zenon DEF Server, SameCore
  <2>5. Says(m, R, O)
    BY <2>2, <2>4, TouchedSays, Zenon
  <2>6. /\ Says(respond(m, st.s.pend, Eof), R \cup {ReplyOf(st.s.pend, Eof)}, O)
        /\ SameCore(m.s, respond(m, st.s.pend, Eof).s)
        /\ respond(m, st.s.pend, Eof).s.pend = m.s.pend
        /\ respond(m, st.s.pend, Eof).s.answers = m.s.answers
    BY <2>1, <2>5, RespondSays, BodiesTyped, ZenonT(30)
  <2> QED
    BY <2>3, <2>4, <2>6, Zenon DEF SameCore
<1> QED
  BY <1>1, <1>2, Zenon

(* flushClientRead(): at most the deferred read is answered.               *)
LEMMA FlushSays ==
    ASSUME NEW st, NEW R, NEW O, Says(st, R, O)
    PROVE  /\ Says(flushClientRead(st), R \cup Flushed(st.s), O)
           /\ SameCore(st.s, flushClientRead(st).s)
           /\ flushClientRead(st).s.pend \in {st.s.pend, NoTxn}
<1>1. CASE st.s.pend = NoTxn \/ (st.s.answers = 0 /\ ~st.s.eofSeen)
  <2>1. flushClientRead(st) = st /\ R \cup Flushed(st.s) = R
    BY <1>1 DEF flushClientRead, Flushed
  <2> QED
    BY <1>1, <2>1 DEF SameCore
<1>2. CASE ~(st.s.pend = NoTxn \/ (st.s.answers = 0 /\ ~st.s.eofSeen))
  <2> DEFINE k == st.s.answers - fits(st.s)
             m == [st EXCEPT !.s.pend = NoTxn, !.s.answers = k]
             b == reading(st.s)
             n == respond(m, st.s.pend, b)
  <2>1. st.s \in Server /\ DOMAIN st = {"s", "out"} /\ st.s.pend \in Txn
    BY DEF Says, IsPair, Server
  <2>2. m.s = [st.s EXCEPT !.pend = NoTxn, !.answers = k] /\ m.out = st.out
        /\ DOMAIN m = {"s", "out"}
    BY <2>1, Zenon
  <2>3. flushClientRead(st) = n /\ Flushed(st.s) = {ReplyOf(st.s.pend, b)}
    BY <1>2 DEF flushClientRead, Flushed
  <2>4. b \in Body /\ k \in Nat
    BY <2>1, ReadingTyped, Zenon
  <2> HIDE DEF k, m, b
  <2>5. m.s \in Server /\ SameCore(st.s, m.s) /\ m.s.pend = NoTxn /\ m.s.xo = st.s.xo
    BY <2>1, <2>2, <2>4, NoTxnTyped, ZenonT(30) DEF Server, SameCore
  <2>6. Says(m, R, O)
    BY <2>2, <2>5, TouchedSays, Zenon
  <2>7. /\ Says(n, R \cup {ReplyOf(st.s.pend, b)}, O)
        /\ SameCore(m.s, n.s) /\ n.s.pend = m.s.pend
    BY <2>1, <2>4, <2>6, RespondSays, Zenon
  <2> HIDE DEF n
  <2> QED
    BY <2>3, <2>5, <2>7, Zenon DEF SameCore
<1> QED
  BY <1>1, <1>2, Zenon

(* finishJob() spools what has been received, if anything has.             *)
LEMMA FinishSays ==
    ASSUME NEW st, NEW R, NEW O, Says(st, R, O), st.s.conn \in Conns
    PROVE  /\ Says(finishJob(st), R, O)
           /\ finishJob(st).s.job = <<>>
           /\ finishJob(st).s.spool =
                 IF st.s.job = <<>> THEN st.s.spool
                 ELSE Append(st.s.spool, [conn |-> st.s.conn, job |-> st.s.job,
                                          eof |-> st.s.eofSeen])
           /\ \E j, p : finishJob(st).s = [st.s EXCEPT !.job = j, !.spool = p]
<1>1. CASE st.s.job = <<>>
  <2>1. finishJob(st) = st
    BY <1>1 DEF finishJob
  <2>2. st.s = [st.s EXCEPT !.job = st.s.job, !.spool = st.s.spool]
    BY Zenon DEF Says, IsPair, Server
  <2> QED
    BY <1>1, <2>1, <2>2, Zenon
<1>2. CASE st.s.job # <<>>
  <2> DEFINE j == [conn |-> st.s.conn, job |-> st.s.job, eof |-> st.s.eofSeen]
             p == Append(st.s.spool, j)
             n == [st EXCEPT !.s.job = <<>>, !.s.spool = p]
  <2>1. /\ st.s \in Server /\ DOMAIN st = {"s", "out"} /\ st.s.spool \in Seq(Job)
        /\ st.s.job \in Seq(Data) /\ st.s.eofSeen \in BOOLEAN
    BY Zenon DEF Says, IsPair, Server
  <2>2. finishJob(st) = n
    BY <1>2 DEF finishJob
  <2>3. j \in Job
    BY <2>1 DEF Job
  <2> HIDE DEF j
  <2>4. p \in Seq(Job) /\ <<>> \in Seq(Data)
    BY <2>1, <2>3
  <2> HIDE DEF p
  <2>5. n.s = [st.s EXCEPT !.job = <<>>, !.spool = p] /\ n.out = st.out
        /\ DOMAIN n = {"s", "out"}
    BY <2>1, Zenon
  <2> HIDE DEF n
  <2>6. n.s \in Server /\ n.s.xo = st.s.xo /\ n.s.job = <<>> /\ n.s.spool = p
    BY <2>1, <2>4, <2>5, Zenon DEF Server
  <2>7. Says(n, R, O)
    BY <2>5, <2>6, TouchedSays, Zenon
  <2> QED
    BY <1>2, <2>2, <2>5, <2>6, <2>7, Zenon DEF p, j
<1> QED
  BY <1>1, <1>2, Zenon

(* issueRead() asks for the next burst, under a new identifier.            *)
NewAsk(tid, conn, seq) == Req(tid, "read", conn, seq, 0..(kQuantum - 1))
NewRequest(tid, conn, seq) == [tid |-> tid, conn |-> conn, seq |-> seq,
                               need |-> 0..(kQuantum - 1), resp |-> <<>>, tries |-> 1]

(* issueRead(): the next burst is asked for, under a fresh identifier.     *)
LEMMA IssueSays ==
    ASSUME NEW st, NEW R, NEW O, Says(st, R, O), st.s.conn \in Conns,
           st.s.open, ~st.s.inFlight, ~st.s.eofSeen
    PROVE  /\ Says(issueRead(st), R, O \cup {NewAsk(st.s.nextTid, st.s.conn, st.s.seq + 1)})
           /\ issueRead(st).s =
                 [st.s EXCEPT !.inFlight = TRUE, !.seq = st.s.seq + 1,
                              !.nextTid = st.s.nextTid + 1,
                              !.reqs = st.s.reqs \cup
                                  {NewRequest(st.s.nextTid, st.s.conn, st.s.seq + 1)}]
<1> DEFINE m == [st EXCEPT !.s.inFlight = TRUE, !.s.seq = st.s.seq + 1]
           p == NewAsk(st.s.nextTid, st.s.conn, st.s.seq + 1)
           r == NewRequest(st.s.nextTid, st.s.conn, st.s.seq + 1)
           e == Emit(m, p)
           n == [e EXCEPT !.s.nextTid = st.s.nextTid + 1, !.s.reqs = st.s.reqs \cup {r}]
<1>1. /\ st.s \in Server /\ DOMAIN st = {"s", "out"} /\ st.s.seq \in Nat
      /\ st.s.nextTid \in Nat \ {0} /\ st.s.reqs \in SUBSET Request
  BY Zenon DEF Says, IsPair, Server
<1>2. p \in Wire /\ r \in Request
  <2>1. kQuantum \in Nat /\ kTries \in Nat \ {0}
    BY PapAssumption
  <2>2. /\ 0..(kQuantum - 1) \in SUBSET Nat /\ 1 \in 1..kTries /\ st.s.nextTid \in Nat
        /\ st.s.seq + 1 \in Nat /\ <<>> \in Seq(Body)
    BY <1>1, <2>1
  <2>3. p \in Wire
    BY <2>2, BodiesTyped, Zenon DEF NewAsk, Req, Wire, Funcs
  <2>4. r \in Request
    BY <2>2, Zenon DEF NewRequest, Request
  <2> QED
    BY <2>3, <2>4
<1>4. /\ m.s = [st.s EXCEPT !.inFlight = TRUE, !.seq = st.s.seq + 1] /\ m.out = st.out
      /\ DOMAIN m = {"s", "out"}
  BY <1>1, Zenon
<1>5. st.s.seq + 1 \in Nat /\ st.s.nextTid + 1 \in Nat \ {0}
  BY <1>1
<1>6. m.s \in Server /\ m.s.xo = st.s.xo /\ m.s.nextTid = st.s.nextTid
      /\ m.s.reqs = st.s.reqs
  BY <1>1, <1>4, <1>5, Zenon DEF Server
<1>7. issueRead(st) = atpRequest(m, st.s.conn, st.s.seq + 1)
  BY <1>1 DEF issueRead
<1>3. atpRequest(m, st.s.conn, st.s.seq + 1)
          = [e EXCEPT !.s.nextTid = @ + 1, !.s.reqs = @ \cup {r}]
  BY <1>6, Zenon DEF atpRequest, NewAsk, NewRequest
<1> HIDE DEF m, p, r
<1>8. Says(m, R, O)
  BY <1>4, <1>6, TouchedSays, Zenon
<1>9. Says(e, R, O \cup {p}) /\ e.s = m.s
  BY <1>2, <1>8, EmitSays
<1>14. issueRead(st) = n
  BY <1>3, <1>6, <1>7, <1>9, Zenon
<1> HIDE DEF e
<1>10. /\ n.s = [m.s EXCEPT !.nextTid = st.s.nextTid + 1, !.reqs = st.s.reqs \cup {r}]
       /\ n.out = e.out /\ DOMAIN n = {"s", "out"}
  BY <1>9, Zenon DEF Says, IsPair
<1> HIDE DEF n
<1>11. n.s \in Server /\ n.s.xo = m.s.xo
  <2>1. st.s.reqs \cup {r} \in SUBSET Request
    BY <1>1, <1>2, Zenon
  <2>2. n.s \in Server
    BY <1>5, <1>6, <1>10, <2>1, ZenonT(30) DEF Server
  <2> QED
    BY <1>6, <1>10, <2>2, Zenon DEF Server
<1>12. Says(n, R, O \cup {p})
  BY <1>9, <1>10, <1>11, TouchedSays, Zenon
<1>13. n.s = [st.s EXCEPT !.inFlight = TRUE, !.seq = st.s.seq + 1,
                          !.nextTid = st.s.nextTid + 1, !.reqs = st.s.reqs \cup {r}]
  BY <1>4, <1>10
<1> QED
  BY <1>14, <1>12, <1>13 DEF p, r

(* The connection is closed, by the client, the clock or the user.         *)
LEMMA CloseSays ==
    ASSUME NEW st, NEW R, NEW O, Says(st, R, O)
    PROVE  /\ Says(closeConn(st), R \cup Released(st.s), O)
           /\ SameCore([st.s EXCEPT !.open = FALSE], closeConn(st).s)
           /\ closeConn(st).s.pend = NoTxn
           /\ ~closeConn(st).s.open
<1> DEFINE m == [st EXCEPT !.s.open = FALSE]
<1>1. st.s \in Server /\ DOMAIN st = {"s", "out"}
  BY Zenon DEF Says, IsPair
<1>2. m.s = [st.s EXCEPT !.open = FALSE] /\ m.out = st.out /\ DOMAIN m = {"s", "out"}
  BY <1>1, Zenon
<1>3. closeConn(st) = releaseClientRead(m)
  BY DEF closeConn
<1> HIDE DEF m
<1>4. m.s \in Server /\ m.s.xo = st.s.xo /\ m.s.pend = st.s.pend /\ ~m.s.open
  BY <1>1, <1>2, Zenon DEF Server
<1>5. Says(m, R, O) /\ Released(m.s) = Released(st.s)
  BY <1>2, <1>4, TouchedSays, Zenon DEF Released
<1>6. /\ Says(closeConn(st), R \cup Released(st.s), O) /\ closeConn(st).s.pend = NoTxn
      /\ SameCore(m.s, closeConn(st).s)
  BY <1>3, <1>5, ReleaseSays, Zenon
<1> QED
  BY <1>2, <1>4, <1>6, Zenon DEF SameCore

(* A request runs out of tries, or its response is thrown away.            *)
LEMMA FailedSays ==
    ASSUME NEW st, NEW R, NEW O, Says(st, R, O)
    PROVE  /\ Says(readFailed(st), R \cup Released(st.s), O)
           /\ readFailed(st).s.pend \in {st.s.pend, NoTxn}
           /\ SameCore([st.s EXCEPT !.inFlight = FALSE, !.open = FALSE], readFailed(st).s)
<1> DEFINE m == [st EXCEPT !.s.inFlight = FALSE]
<1>1. st.s \in Server /\ DOMAIN st = {"s", "out"} /\ R \subseteq Reply
  BY Zenon DEF Says, IsPair
<1>2. m.s = [st.s EXCEPT !.inFlight = FALSE] /\ m.out = st.out /\ DOMAIN m = {"s", "out"}
  BY <1>1, Zenon
<1>3. readFailed(st) = IF st.s.open THEN closeConn(m) ELSE m
  BY DEF readFailed
<1> HIDE DEF m
<1>4. m.s \in Server /\ m.s.xo = st.s.xo /\ m.s.pend = st.s.pend /\ m.s.open = st.s.open
  BY <1>1, <1>2, Zenon DEF Server
<1>5. Says(m, R, O) /\ Released(m.s) = Released(st.s)
  BY <1>2, <1>4, TouchedSays, Zenon DEF Released
<1>6. Released(st.s) \subseteq Reply
  <2>1. st.s.pend \in Txn
    BY <1>1, Zenon DEF Server
  <2> QED
    BY <2>1, BodiesTyped, ReplyTyped, Zenon DEF Released
<1>7. CASE st.s.open
  <2>1. /\ Says(closeConn(m), R \cup Released(st.s), O) /\ closeConn(m).s.pend = NoTxn
        /\ SameCore([m.s EXCEPT !.open = FALSE], closeConn(m).s)
    BY <1>5, CloseSays, Zenon
  <2>2. [m.s EXCEPT !.open = FALSE] = [st.s EXCEPT !.inFlight = FALSE, !.open = FALSE]
    BY <1>2
  <2> QED
    BY <1>3, <1>7, <2>1, <2>2, Zenon
<1>8. CASE ~st.s.open
  <2>1. Says(m, R \cup Released(st.s), O)
    BY <1>1, <1>5, <1>6, MoreSays
  <2>2. SameCore([st.s EXCEPT !.inFlight = FALSE, !.open = FALSE], m.s)
    BY <1>1, <1>2, <1>8, Zenon DEF Server, SameCore
  <2> QED
    BY <1>3, <1>4, <1>8, <2>1, <2>2, Zenon
<1> QED
  BY <1>7, <1>8

-----------------------------------------------------------------------------
(* Steps that bring no news: packets are lost or repeated, replies are     *)
(* made, requests and connections forgotten.                               *)

IsChatter(p) == p.k = "TRel" \/ (p.k = "TReq" /\ p.func = "tickle" /\ p.tid = 0)
Reasks(p, r) == IsAsk(p) /\ p.tid = r.tid /\ p.conn = r.conn /\ p.seq = r.seq
SameClient ==
    /\ cl'.st = cl.st /\ cl'.conn = cl.conn /\ cl'.expect = cl.expect
    /\ cl'.cache \in {cl.cache, NoCache} /\ cl'.held = cl.held /\ cl'.done = cl.done
    /\ \A r \in cl'.reqs : \E x \in cl.reqs : r.tid = x.tid /\ r.func = x.func
    /\ \A r \in cl'.reqs : \A x \in cl'.reqs : x = r
Forgets ==
    /\ cl'.st = "idle" /\ cl'.conn = 0 /\ cl'.reqs = {} /\ cl'.cache = NoCache
    /\ cl'.held = NoHeld /\ ~cl'.done
SpoolAdded ==
    /\ ~sv'.open /\ JobsExact' /\ SpooledOnce'
    /\ \A i \in DOMAIN sv'.spool : /\ sv'.spool[i].conn <= sv'.conn
                                  /\ \A o \in Coming' : sv'.spool[i].conn < o
Kept(reqs) ==
    /\ \A r \in reqs : /\ Holds(r)
                       /\ \E x \in sv.reqs :
                             r.tid = x.tid /\ r.conn = x.conn /\ r.seq = x.seq
    /\ \A r \in reqs : \A x \in reqs : r.tid = x.tid => r = x
Chat ==
    /\ sv'.conn = sv.conn /\ sv'.seq = sv.seq /\ sv'.eofSeen = sv.eofSeen
    /\ sv'.nextTid = sv.nextTid
    /\ (sv'.job = sv.job /\ sv'.spool = sv.spool) \/ SpoolAdded
    /\ sv'.open => sv.open
    /\ \/ sv'.pend \in {NoTxn, sv.pend}
       \/ \E p \in Up : IsAsk(p) /\ sv'.pend = [tid |-> p.tid, func |-> p.func]
    /\ Kept(sv'.reqs)
    /\ \A e \in sv'.xo : e \in sv.xo \/ (e.tid \in 1..cl.tid /\ Sound(e)')
    /\ \A p \in Down' : \/ p \in Down \/ IsChatter(p)
                        \/ p.k = "TResp" /\ p.tid \in 1..cl.tid /\ Sound(p)' /\ Final(p)'
                        \/ \E r \in sv.reqs : Reasks(p, r)
    /\ cl'.last = cl.last /\ cl'.tid = cl.tid
    /\ SameClient \/ Forgets
    /\ \/ \A p \in Up' : p \in Up \/ IsChatter(p)
       \/ Quiet /\ \A p \in Up' : IsChatter(p) \/ \E r \in cl.reqs : p = Asking(cl, r)
    /\ UpOrder'

(* The types of the fields, one by one.                                    *)
LEMMA Typed ==
    ASSUME Types
    PROVE  /\ sv.conn \in Conns \cup {0} /\ sv.seq \in Nat /\ sv.nextTid \in Nat \ {0}
           /\ sv.open \in BOOLEAN /\ sv.eofSeen \in BOOLEAN /\ sv.pend \in Txn
           /\ sv.spool \in Seq(Job) /\ sv.job \in Seq(Data)
           /\ sv.reqs \subseteq Request /\ sv.xo \subseteq Reply
           /\ cl.conn \in Conns \cup {0} /\ cl.last \in Conns \cup {0} /\ cl.tid \in Nat
           /\ cl.reqs \subseteq Asks /\ cl.expect \in Nat /\ cl.held \in Wire
           /\ cl.cache.tid \in Nat /\ cl.cache.burst \in Nat /\ cl.done \in BOOLEAN
           /\ Up \subseteq Wire /\ Down \subseteq Wire
<1>1. sv \in Server /\ cl \in Client /\ up \in Seq(Wire) /\ down \in Seq(Wire)
  BY Zenon DEF Types
<1>2. /\ sv.conn \in Conns \cup {0} /\ sv.seq \in Nat /\ sv.nextTid \in Nat \ {0}
      /\ sv.open \in BOOLEAN /\ sv.eofSeen \in BOOLEAN /\ sv.pend \in Txn
      /\ sv.spool \in Seq(Job) /\ sv.job \in Seq(Data)
      /\ sv.reqs \subseteq Request /\ sv.xo \subseteq Reply
  BY <1>1, Zenon DEF Server
<1>3. /\ cl.conn \in Conns \cup {0} /\ cl.last \in Conns \cup {0} /\ cl.tid \in Nat
      /\ cl.reqs \subseteq Asks /\ cl.expect \in Nat /\ cl.held \in Wire
      /\ cl.cache \in [tid : Nat, burst : Nat] /\ cl.done \in BOOLEAN
  BY <1>1, Zenon DEF Client
<1>4. Up \subseteq Wire /\ Down \subseteq Wire
  BY <1>1 DEF Up, Down, Range
<1> QED
  BY <1>2, <1>3, <1>4

(* Connections are numbered from 1.                                        *)
LEMMA ConnsNat == Conns = 1..Len(Doc) /\ Len(Doc) \in Nat /\ Conns \subseteq Nat \ {0}
<1>1. Doc \in Seq(Seq(Data))
  BY PapAssumption
<1> QED
  BY <1>1 DEF Conns

(* The connections on both sides are numbers.                              *)
LEMMA NumbersTyped ==
    ASSUME Types
    PROVE  /\ sv.conn \in Nat /\ sv.seq \in Nat
           /\ cl.conn \in Nat /\ cl.last \in Nat
<1>1. /\ sv.conn \in Conns \cup {0} /\ sv.seq \in Nat
      /\ cl.conn \in Conns \cup {0} /\ cl.last \in Conns \cup {0}
  BY Typed, Zenon
<1> QED
  BY <1>1, ConnsNat

(* A step without news keeps the invariant.                                *)
LEMMA ChatKeeps ==
    ASSUME IInv, Types', Chat
    PROVE  IInv'
(* The requests a step without news leaves are those there were.           *)
<1>1. /\ \A r \in sv'.reqs : /\ Holds(r)
                             /\ \E x \in sv.reqs :
                                   r.tid = x.tid /\ r.conn = x.conn /\ r.seq = x.seq
      /\ \A r \in sv'.reqs : \A x \in sv'.reqs : r.tid = x.tid => r = x
  BY Zenon DEF Chat, Kept
(* The packets on the wire from the client after a step without news.      *)
<1>2. /\ \A p \in Up' : IsPacket(p) => p \in Up
      /\ \A p \in Up' : IsOpen(p) => p.conn \in Coming /\ p.conn \in 1..cl.last
      /\ \A p \in Up' : IsClose(p) => \/ p \in Up
                                      \/ p.conn = cl.conn /\ cl.st = "closing"
      /\ Coming' \subseteq Coming
      /\ Answered' \subseteq Answered \cup {0}
  <2>1. \A r \in cl.reqs : /\ Asking(cl, r).k = "TReq" /\ Asking(cl, r).func = r.func
                           /\ Asking(cl, r).conn = cl.conn /\ Asking(cl, r).tid = r.tid
    BY DEF Asking, Req
  <2>2. \A p \in Up' : p \in Up \/ IsChatter(p) \/ \E r \in cl.reqs : p = Asking(cl, r)
    BY Zenon DEF Chat
  <2>3. \A r \in cl.reqs : /\ r.func = "open" => cl.st = "opening"
                           /\ r.func = "close" => cl.st = "closing"
    BY Zenon DEF IInv, ClientInv
  <2>4. \A p \in Up' : IsPacket(p) => p \in Up
    BY <2>1, <2>2 DEF IsPacket, IsChatter
  <2>5. \A p \in Up' : IsOpen(p) => p \in Up \/ (p.conn = cl.conn /\ cl.st = "opening")
    BY <2>1, <2>2, <2>3 DEF IsOpen, IsChatter
  <2>6. \A p \in Up' : IsClose(p) => p \in Up \/ (p.conn = cl.conn /\ cl.st = "closing")
    BY <2>1, <2>2, <2>3 DEF IsClose, IsChatter
  <2>7. \A p \in Up' : IsOpen(p) => p.conn \in Coming
    BY <2>5, Zenon DEF Coming
  <2>8. cl'.st = "opening" => cl.st = "opening" /\ cl'.conn = cl.conn
    BY DEF Chat, SameClient, Forgets
  <2>9. Coming' \subseteq Coming
    BY <2>7, <2>8, Zenon DEF Coming
  <2>10. cl'.cache.tid \in {cl.cache.tid, 0}
    BY DEF Chat, SameClient, Forgets, NoCache
  <2>11. Answered' \subseteq Answered \cup {0}
    BY <2>4, <2>10, Zenon DEF Answered
  <2>12. \A p \in Up : IsOpen(p) => p.conn \in 1..cl.last
    BY Zenon DEF IInv, OrderInv
  <2>13. cl.st = "opening" => cl.conn \in 1..cl.last
    <3>1. cl.conn \in {0, cl.last} /\ (cl.st = "idle" <=> cl.conn = 0)
      BY Zenon DEF IInv, ClientInv
    <3>2. cl.conn \in Nat
      BY NumbersTyped, Zenon DEF IInv
    <3> QED
      BY <3>1, <3>2
  <2> QED
    BY <2>4, <2>5, <2>6, <2>7, <2>9, <2>11, <2>12, <2>13, Zenon
(* A step without news keeps the client in order.                          *)
<1>3. ClientInv'
  <2>1. CASE Forgets
    BY <2>1, Zenon DEF Forgets, ClientInv
  <2>2. CASE SameClient
    <3>1. \A r \in cl'.reqs : \E x \in cl.reqs : r.tid = x.tid /\ r.func = x.func
      BY <2>2, Zenon DEF SameClient
    <3>2. \A r \in cl'.reqs :
             /\ r.tid \in 1..cl'.tid
             /\ \/ r.func = "open" /\ cl'.st = "opening"
                \/ r.func = "read" /\ cl'.st = "open"
                \/ r.func = "close" /\ cl'.st = "closing"
      BY <2>2, <3>1, ZenonT(30) DEF IInv, ClientInv, Chat, SameClient
    <3>3. cl'.cache # NoCache => cl'.cache = cl.cache
      BY <2>2, Zenon DEF SameClient
    <3>4. /\ cl'.conn = cl.conn /\ cl'.last = cl.last /\ cl'.st = cl.st
          /\ cl'.expect = cl.expect /\ cl'.held = cl.held /\ cl'.done = cl.done
          /\ sv'.nextTid = sv.nextTid /\ \A r \in cl'.reqs : \A x \in cl'.reqs : x = r
      BY <2>2, Zenon DEF Chat, SameClient
    <3> QED
      BY <2>2, <3>2, <3>3, <3>4, Zenon DEF IInv, ClientInv
  <2> QED
    BY <2>1, <2>2, Zenon DEF Chat
(* ... uses no new transaction identifier.                                 *)
<1>4. TidInv'
  <2>1. sv'.nextTid = sv.nextTid /\ cl'.tid = cl.tid
    BY Zenon DEF Chat
  <2>2. \A r \in sv'.reqs : r.tid \in 1..(sv'.nextTid - 1)
    <3>1. \A r \in sv.reqs : r.tid \in 1..(sv.nextTid - 1)
      BY Zenon DEF IInv, TidInv
    <3>2. \A r \in sv'.reqs : \E x \in sv.reqs : r.tid = x.tid
      BY <1>1, Zenon
    <3> QED
      BY <2>1, <3>1, <3>2
  <2>3. \A p \in Down' : IsAsk(p) => p.tid \in 1..(sv'.nextTid - 1)
    <3>1. \A p \in Down' : \/ p \in Down \/ IsChatter(p) \/ p.k = "TResp"
                           \/ \E r \in sv.reqs : Reasks(p, r)
      BY Zenon DEF Chat
    <3>2. \A p : IsAsk(p) => ~IsChatter(p) /\ p.k # "TResp"
      BY DEF IsAsk, IsChatter
    <3> QED
      BY <2>1, <3>1, <3>2, Zenon DEF IInv, TidInv, Reasks
  <2>4. \A p \in Up' : IsPacket(p) => p.tid \in 1..(sv'.nextTid - 1)
    BY <2>1, <1>2, Zenon DEF IInv, TidInv
  <2>5. \A p \in Up' :
           /\ p.k = "TReq" /\ p.func # "tickle" => p.tid \in 1..cl'.tid
           /\ p.k = "TReq" /\ p.func = "tickle" => p.tid = 0
    <3>1. \A r \in cl.reqs : Asking(cl, r).tid \in 1..cl.tid /\ Asking(cl, r).func # "tickle"
      BY DEF IInv, ClientInv, Asking, Req
    <3>2. \A p \in Up' : p \in Up \/ IsChatter(p) \/ \E r \in cl.reqs : p = Asking(cl, r)
      BY Zenon DEF Chat
    <3> QED
      BY <2>1, <3>1, <3>2, Zenon DEF IInv, TidInv, IsChatter
  <2>6. \A p \in Down' : p.k = "TResp" => p.tid \in 1..cl'.tid
    <3>1. \A p \in Down' : \/ p \in Down \/ IsChatter(p) \/ p.tid \in 1..cl.tid
                           \/ \E r \in sv.reqs : Reasks(p, r)
      BY Zenon DEF Chat
    <3>2. \A p : p.k = "TResp" => ~IsChatter(p) /\ \A r : ~Reasks(p, r)
      BY DEF IsAsk, IsChatter, Reasks
    <3> QED
      BY <2>1, <3>1, <3>2, Zenon DEF IInv, TidInv
  <2>7. \A e \in sv'.xo : e.tid \in 1..cl'.tid
    BY <2>1, Zenon DEF IInv, TidInv, Chat
  <2>8. sv'.pend # NoTxn => sv'.pend.tid \in 1..cl'.tid /\ sv'.pend.func = "read"
    <3>1. \A p \in Up : IsAsk(p) => p.tid \in 1..cl.tid /\ p.func = "read"
      BY DEF IInv, TidInv, IsAsk
    <3>2. CASE sv'.pend \in {NoTxn, sv.pend}
      BY <2>1, <3>2, Zenon DEF IInv, TidInv
    <3>3. CASE \E p \in Up : IsAsk(p) /\ sv'.pend = [tid |-> p.tid, func |-> p.func]
      BY <2>1, <3>1, <3>3
    <3> QED
      BY <3>2, <3>3, Zenon DEF Chat
  <2> QED
    BY <2>2, <2>3, <2>4, <2>5, <2>6, <2>7, <2>8, <1>1, Zenon DEF TidInv
(* ... leaves the client's replies sound.                                  *)
<1>5. MineInv'
  <2>1. CASE Forgets
    <3>1. cl'.reqs = {}
      BY <2>1, Zenon DEF Forgets
    <3> QED
      BY <3>1, Zenon DEF MineInv, Mine, Sound, Final
  <2>2. CASE SameClient
    <3>1. \A r \in cl'.reqs : \E x \in cl.reqs : r.tid = x.tid /\ r.func = x.func
      BY <2>2, Zenon DEF SameClient
    <3>2. cl'.conn = cl.conn /\ sv'.conn = sv.conn
          /\ (sv'.open => sv.open /\ sv'.spool = sv.spool)
      BY <2>2, Zenon DEF Chat, SameClient, SpoolAdded
    <3>4. ASSUME NEW e, Sound(e)
          PROVE  Sound(e)'
      <4>1. sv'.open /\ Spooled(cl.conn) => Spooled(cl.conn)'
        BY <3>2, Zenon DEF Spooled
      <4>2. ASSUME NEW r \in cl'.reqs, e.tid = r.tid
            PROVE  \E x \in cl.reqs : e.tid = x.tid /\ r.func = x.func
        BY <3>1, <4>2, Zenon
      <4> QED
        BY <3>2, <3>4, <4>1, <4>2 DEF Sound
    <3>5. \A p \in Up' : p.k = "TReq" /\ p.func # "tickle" => Mine(p)'
      <4>1. ASSUME NEW p \in Up, p.k = "TReq", p.func # "tickle"
            PROVE  Mine(p)'
        <5>1. Mine(p)
          BY <4>1, Zenon DEF IInv, MineInv
        <5> QED
          BY <3>1, <3>2, <5>1, Zenon DEF Mine
      <4>2. ASSUME NEW x \in cl.reqs, NEW p, p = Asking(cl, x)
            PROVE  Mine(p)'
        <5>1. \A r \in cl.reqs : r = x
          BY Zenon DEF IInv, ClientInv
        <5>2. p.func = x.func /\ p.conn = cl.conn
          BY <4>2 DEF Asking, Req
        <5> QED
          BY <3>1, <3>2, <5>1, <5>2, Zenon DEF Mine
      <4>3. \A p \in Up' : p \in Up \/ IsChatter(p) \/ \E r \in cl.reqs : p = Asking(cl, r)
        BY Zenon DEF Chat
      <4> QED
        BY <4>1, <4>2, <4>3, Zenon DEF IsChatter
    <3>6. \A e \in sv'.xo : Sound(e)'
      BY <3>4, Zenon DEF IInv, MineInv, Chat
    <3>7. ASSUME NEW p \in Down, p.k = "TResp"
          PROVE  Sound(p)' /\ Final(p)'
      <4>1. Sound(p) /\ Final(p)
        BY <3>7, Zenon DEF IInv, MineInv
      <4>2. ~Quiet
        BY <3>7 DEF Quiet, Down, Range
      <4>3. \A x \in Up' : IsOpen(x) => x \in Up
        BY <4>2 DEF Chat, IsOpen, IsChatter
      <4> QED
        BY <3>1, <3>4, <4>1, <4>3, Zenon DEF Final
    <3>8. \A p \in Down' : p.k = "TResp" => Sound(p)' /\ Final(p)'
      <4>1. \A p \in Down' : p.k = "TResp" => p \in Down \/ (Sound(p)' /\ Final(p)')
        BY DEF Chat, IsChatter, Reasks, IsAsk
      <4> QED
        BY <3>7, <4>1, Zenon
    <3>9. sv'.pend # NoTxn => \A r \in cl'.reqs : sv'.pend.tid = r.tid => r.func = "read"
      <4>1. CASE sv'.pend \in {NoTxn, sv.pend}
        BY <3>1, <4>1, Zenon DEF IInv, MineInv
      <4>2. CASE \E p \in Up : IsAsk(p) /\ sv'.pend = [tid |-> p.tid, func |-> p.func]
        <5>1. PICK p \in Up : IsAsk(p) /\ sv'.pend = [tid |-> p.tid, func |-> p.func]
          BY <4>2
        <5>2. Mine(p) /\ p.func = "read" /\ sv'.pend.tid = p.tid
          BY <5>1 DEF IInv, MineInv, IsAsk
        <5> QED
          BY <3>1, <5>2, Zenon DEF Mine
      <4> QED
        BY <4>1, <4>2, Zenon DEF Chat
    <3> QED
      BY <3>5, <3>6, <3>8, <3>9, Zenon DEF MineInv
  <2> QED
    BY <2>1, <2>2, Zenon DEF Chat
(* ... keeps the connections in order.                                     *)
<1>6. OrderInv'
  <2>1. /\ sv'.conn = sv.conn /\ sv'.seq = sv.seq /\ sv'.eofSeen = sv.eofSeen
        /\ (sv'.open => sv.open) /\ cl'.last = cl.last
        /\ UpOrder'
    BY Zenon DEF Chat
  <2>2. cl'.st # "idle" => cl'.st = cl.st /\ cl'.conn = cl.conn
    BY Zenon DEF Chat, SameClient, Forgets
  <2>3. /\ \A p \in Up' : IsOpen(p) => p.conn \in Coming /\ p.conn \in 1..cl.last
        /\ \A p \in Up' : IsClose(p) => p \in Up \/ (p.conn = cl.conn /\ cl.st = "closing")
        /\ Coming' \subseteq Coming
        /\ Answered' \subseteq Answered \cup {0}
    BY <1>2, Zenon
  <2>4. cl.st \in {"open", "closing"} => Coming = {}
    BY Zenon DEF IInv, OrderInv, Coming
  <2>5. cl'.st \in {"open", "closing"} => \A p \in Up' : ~IsOpen(p)
    BY <2>2, <2>3, <2>4, Zenon
  <2>6. cl'.st = "open" /\ sv'.open => sv'.conn = cl'.conn
    BY <2>1, <2>2 DEF IInv, OrderInv
  <2>7. cl.st = "closing" => cl.conn \in 1..cl.last
    <3>1. cl.conn \in {0, cl.last} /\ (cl.st = "idle" <=> cl.conn = 0)
      BY Zenon DEF IInv, ClientInv
    <3>2. cl.conn \in Nat
      BY NumbersTyped, Zenon DEF IInv
    <3> QED
      BY <3>1, <3>2
  <2>8. \A p \in Up' : IsOpen(p) \/ IsClose(p) => p.conn \in 1..cl'.last
    <3>1. \A p \in Up : IsClose(p) => p.conn \in 1..cl.last
      BY Zenon DEF IInv, OrderInv
    <3> QED
      BY <2>1, <2>3, <2>7, <3>1, Zenon
  <2>9. ASSUME NEW o \in Coming'
        PROVE  /\ sv'.conn <= o
               /\ \A p \in Up' : IsClose(p) => p.conn < o
               /\ \A r \in sv'.reqs : r.tid \in Answered' => r.conn < o
               /\ sv'.conn = o => sv'.seq <= 1 /\ (sv'.open => ~sv'.eofSeen)
    <3>1. /\ sv.conn <= o
          /\ \A p \in Up : IsClose(p) => p.conn < o
          /\ \A r \in sv.reqs : r.tid \in Answered => r.conn < o
          /\ sv.conn = o => sv.seq <= 1 /\ (sv.open => ~sv.eofSeen)
      BY <2>3, <2>9, Zenon DEF IInv, OrderInv
    <3>2. \A p \in Up' : IsClose(p) => p.conn < o
      BY <2>3, <2>4, <3>1
    <3>3. \A r \in sv'.reqs : \E x \in sv.reqs : r.tid = x.tid /\ r.conn = x.conn
      BY <1>1, Zenon
    <3>4. \A r \in sv.reqs : r.tid # 0
      BY DEF IInv, TidInv
    <3>5. \A r \in sv'.reqs : r.tid \in Answered' => r.conn < o
      BY <2>3, <3>1, <3>3, <3>4, Zenon
    <3> QED
      BY <2>1, <3>1, <3>2, <3>5, Zenon
  <2>10. /\ sv.open => sv.conn # 0
         /\ sv.conn <= cl.last
    BY Zenon DEF IInv, OrderInv
  <2>11. sv'.open => sv'.conn # 0
    BY <2>1, <2>10, Zenon
  <2>12. sv'.conn <= cl'.last
    BY <2>1, <2>10
  <2>13. \A i \in DOMAIN sv'.spool : /\ sv'.spool[i].conn <= sv'.conn
                                    /\ \A o \in Coming' : sv'.spool[i].conn < o
    <3>1. CASE SpoolAdded
      BY <3>1, Zenon DEF SpoolAdded
    <3>2. CASE sv'.spool = sv.spool
      <4>1. \A i \in DOMAIN sv.spool : /\ sv.spool[i].conn <= sv.conn
                                      /\ \A o \in Coming : sv.spool[i].conn < o
        BY Zenon DEF IInv, OrderInv
      <4> QED
        BY <2>1, <2>3, <3>2, <4>1, Zenon
    <3> QED
      BY <3>1, <3>2, Zenon DEF Chat
  <2> QED
    BY <2>1, <2>5, <2>6, <2>8, <2>9, <2>11, <2>12, <2>13, Zenon DEF OrderInv
(* ... keeps the SendData requests in step with the client.                *)
<1>7. AskInv'
  <2>1. /\ sv'.conn = sv.conn /\ sv'.seq = sv.seq /\ sv'.eofSeen = sv.eofSeen
        /\ (sv'.open => sv.open)
    BY Zenon DEF Chat
  <2>2. cl'.st # "idle" => /\ cl'.st = cl.st /\ cl'.conn = cl.conn
                           /\ cl'.expect = cl.expect
    BY Zenon DEF Chat, SameClient, Forgets
  <2>3. /\ cl'.held # NoHeld => cl'.held = cl.held
        /\ cl'.cache # NoCache => cl'.cache = cl.cache /\ cl'.conn = cl.conn
    BY Zenon DEF Chat, SameClient, Forgets
  <2>4. cl'.st \in {"opening", "open"} /\ sv'.open /\ sv'.conn = cl'.conn =>
            IF sv'.eofSeen THEN sv'.seq < cl'.expect ELSE sv'.seq <= cl'.expect
    BY <2>1, <2>2, Zenon DEF IInv, AskInv
  <2>5. ASSUME NEW r \in sv'.reqs
        PROVE  /\ r.seq \in 1..Bursts(r.conn)
               /\ r.conn <= sv'.conn /\ (r.conn = sv'.conn => r.seq <= sv'.seq)
               /\ \A p \in Down' : IsAsk(p) => Matches(p, r)
               /\ cl'.held # NoHeld => Matches(cl'.held, r)
               /\ cl'.cache # NoCache /\ cl'.cache.tid = r.tid =>
                     r.conn = cl'.conn /\ r.seq = cl'.cache.burst
               /\ cl'.st = "open" /\ r.tid \in Answered' /\ r.conn = cl'.conn =>
                     r.seq < cl'.expect
    <3>1. PICK x \in sv.reqs : r.tid = x.tid /\ r.conn = x.conn /\ r.seq = x.seq
      BY <2>5, <1>1, Zenon
    <3>2. /\ x.seq \in 1..Bursts(x.conn)
          /\ x.conn <= sv.conn /\ (x.conn = sv.conn => x.seq <= sv.seq)
          /\ \A p \in Down : IsAsk(p) => Matches(p, x)
          /\ cl.held # NoHeld => Matches(cl.held, x)
          /\ cl.cache # NoCache /\ cl.cache.tid = x.tid =>
                x.conn = cl.conn /\ x.seq = cl.cache.burst
          /\ cl.st = "open" /\ x.tid \in Answered /\ x.conn = cl.conn =>
                x.seq < cl.expect
      BY Zenon DEF IInv, AskInv
    <3>3. \A p : Matches(p, x) => Matches(p, r)
      BY <3>1, Zenon DEF Matches
    <3>4. \A p \in Down' : IsAsk(p) => Matches(p, r)
      <4>1. \A y \in sv.reqs : x.tid = y.tid => x = y
        BY Zenon DEF IInv, TidInv
      <4>2. \A p \in Down' : IsAsk(p) => p \in Down \/ \E y \in sv.reqs : Reasks(p, y)
        BY DEF Chat, IsChatter, IsAsk
      <4>3. \A p, y : Reasks(p, y) => p.tid = y.tid /\ p.conn = y.conn /\ p.seq = y.seq
        BY Zenon DEF Reasks
      <4> QED
        BY <3>1, <3>2, <4>1, <4>2, <4>3 DEF Matches
    <3>5. r.tid \in Answered' => x.tid \in Answered
      <4>1. x.tid # 0
        BY DEF IInv, TidInv
      <4>2. Answered' \subseteq Answered \cup {0}
        BY <1>2, Zenon
      <4> QED
        BY <3>1, <4>1, <4>2, Zenon
    <3> QED
      BY <2>1, <2>2, <2>3, <3>1, <3>2, <3>3, <3>4, <3>5, Zenon
  <2> QED
    BY <2>4, <2>5, Zenon DEF AskInv
(* ... answers no further request.                                         *)
<1>8. AnswerInv'
  <2>1. /\ sv'.conn = sv.conn /\ sv'.seq = sv.seq /\ sv'.eofSeen = sv.eofSeen
        /\ (sv'.open => sv.open)
    BY Zenon DEF Chat
  <2>2. \A x \in sv.reqs : x.tid # 0
    BY DEF IInv, TidInv
  <2>3. \A r \in sv'.reqs : \E x \in sv.reqs :
           /\ r.tid = x.tid /\ r.conn = x.conn /\ r.seq = x.seq
           /\ r.tid \in Answered' => x.tid \in Answered
    BY <2>2, <1>1, <1>2, Zenon
  <2>4. \A r \in sv'.reqs : \A x \in sv'.reqs : r.tid = x.tid => r = x
    BY <1>1, Zenon
  <2>5. SUFFICES ASSUME sv'.open, NEW r \in sv'.reqs, r.tid \in Answered'
                 PROVE  /\ r.conn = sv'.conn /\ r.seq = sv'.seq /\ ~sv'.eofSeen
                        /\ \A x \in sv'.reqs : x.tid \in Answered' => x = r
    BY Zenon DEF AnswerInv
  <2>6. PICK y \in sv.reqs : /\ r.tid = y.tid /\ r.conn = y.conn /\ r.seq = y.seq
                             /\ y.tid \in Answered
    BY <2>3, <2>5, Zenon
  <2>7. /\ y.conn = sv.conn /\ y.seq = sv.seq /\ ~sv.eofSeen
        /\ \A x \in sv.reqs : x.tid \in Answered => x = y
    BY <2>1, <2>5, <2>6, Zenon DEF IInv, AnswerInv
  <2>8. \A x \in sv'.reqs : x.tid \in Answered' => x.tid = r.tid
    BY <2>3, <2>6, <2>7
  <2> QED
    BY <2>1, <2>4, <2>6, <2>7, <2>8, Zenon
(* ... alters no packet of a burst.                                        *)
<1>9. DataInv'
  <2> SUFFICES ASSUME NEW r \in sv'.reqs
               PROVE  /\ \A p \in Up' : IsPacket(p) /\ p.tid = r.tid => PacketOf(p, r)
                      /\ Holds(r)
    BY Zenon DEF DataInv
  <2>1. PICK x \in sv.reqs : r.tid = x.tid /\ r.conn = x.conn /\ r.seq = x.seq
    BY <1>1, Zenon
  <2>2. \A p \in Up : IsPacket(p) /\ p.tid = x.tid => PacketOf(p, x)
    BY Zenon DEF IInv, DataInv
  <2>3. \A p : PacketOf(p, x) => PacketOf(p, r)
    BY <2>1, Zenon DEF PacketOf
  <2>4. Holds(r)
    BY <1>1, Zenon
  <2> QED
    BY <2>1, <2>2, <2>3, <2>4, <1>2, Zenon
<1>10. /\ sv'.conn = sv.conn /\ sv'.seq = sv.seq /\ sv'.eofSeen = sv.eofSeen
      /\ (sv'.open => sv.open)
  BY Zenon DEF Chat
<1>11. cl'.done => cl.done /\ cl'.conn = cl.conn
  BY Zenon DEF Chat, SameClient, Forgets
<1>12. sv'.open => sv'.job = sv.job /\ sv'.spool = sv.spool
  BY Zenon DEF Chat, SpoolAdded
<1>13. JobInv'
  <2>1. sv'.open /\ Spooled(sv.conn) => Spooled(sv.conn)'
    BY <1>10, <1>12 DEF Spooled
  <2> QED
    BY <1>10, <1>12, <2>1, Zenon DEF IInv, JobInv
<1>14. JobsExact' /\ SpooledOnce'
  <2>1. sv'.spool = sv.spool \/ (JobsExact' /\ SpooledOnce')
    BY Zenon DEF Chat, SpoolAdded
  <2> QED
    BY <2>1, Zenon DEF IInv, JobsExact, SpooledOnce
<1>15. EofMeansSpooled'
  BY <1>10, <1>11, <1>12 DEF IInv, EofMeansSpooled, Spooled
<1> QED
  BY <1>13, <1>14, <1>15, <1>3, <1>4, <1>5, <1>6, <1>7, <1>8,
     <1>9, Zenon DEF IInv

-----------------------------------------------------------------------------
(* The server's steps without news.                                        *)

(* Requests may be dropped.                                                *)
LEMMA SubsetKept ==
    ASSUME IInv, NEW reqs \in SUBSET sv.reqs
    PROVE  Kept(reqs) /\ IsFiniteSet(reqs)
<1>1. Kept(reqs)
  BY Zenon DEF Kept, IInv, TidInv, DataInv
<1>2. IsFiniteSet(reqs)
  BY FiniteSubset, Zenon DEF IInv, Types
<1> QED
  BY <1>1, <1>2

(* A packet is taken off the wire from the client, or none is.             *)
UpShrinks == up' = up \/ (up # <<>> /\ up' = Tail(up))

(* A packet is taken off the wire to the server, or none is.               *)
LEMMA ShrunkUp ==
    ASSUME IInv, UpShrinks
    PROVE  up' \in Seq(Wire) /\ Up' \subseteq Up /\ UpOrder'
<1>1. up \in Seq(Wire) /\ UpOrder
  BY Zenon DEF IInv, Types, OrderInv
<1>2. CASE up' = up
  BY <1>1, <1>2, Zenon DEF Up, UpOrder
<1>3. CASE up # <<>> /\ up' = Tail(up)
  <2>1. /\ up' \in Seq(Wire) /\ Up' \subseteq Up
        /\ \A i \in DOMAIN up' : i + 1 \in DOMAIN up /\ up'[i] = up[i + 1]
        /\ DOMAIN up' \subseteq Int
    <3>1. Len(up) \in Nat
      BY <1>1
    <3> QED
      BY <1>1, <1>3, <3>1, TailOfWire DEF Up
  <2>2. \A i, j \in DOMAIN up : i < j /\ IsOpen(up[i]) =>
           ~IsPacket(up[j]) /\ (IsOpen(up[j]) => up[i].conn < up[j].conn)
    BY <1>1, Zenon DEF UpOrder
  <2>3. ASSUME NEW i \in DOMAIN up', NEW j \in DOMAIN up', i < j, IsOpen(up'[i])
        PROVE  ~IsPacket(up'[j]) /\ (IsOpen(up'[j]) => up'[i].conn < up'[j].conn)
    <3>1. i + 1 < j + 1
      BY <2>1, <2>3
    <3> QED
      BY <2>1, <2>2, <2>3, <3>1, Zenon
  <2> QED
    BY <2>1, <2>3, Zenon DEF UpOrder
<1> QED
  BY <1>2, <1>3 DEF UpShrinks

(* What Sound and Final will say of a packet that is given now.            *)
SoundNext(e) ==
    \A r \in cl'.reqs : e.tid = r.tid =>
       /\ e.func = r.func
       /\ e.func = "open" /\ e.body.ok => sv'.conn = cl'.conn
       /\ e.func = "read" /\ e.body.eof /\ sv'.open /\ sv'.conn = cl'.conn =>
             Spooled(cl.conn)'
FinalNext(p) ==
    \A r \in cl'.reqs : p.tid = r.tid /\ p.func = "open" => \A x \in Up' : ~IsOpen(x)

(* They are Sound and Final, one step later.                               *)
LEMMA NextTime ==
    \A e : (SoundNext(e) <=> Sound(e)') /\ (FinalNext(e) <=> Final(e)')
BY Zenon DEF SoundNext, Sound, FinalNext, Final

GoodReply(e) == e.tid \in 1..cl.tid /\ SoundNext(e) /\ FinalNext(e)
GoodPacket(p) == \/ IsChatter(p)
                 \/ p.k = "TResp" /\ GoodReply(p)
                 \/ \E r \in sv.reqs : Reasks(p, r)

(* A server step that only talks keeps the invariant.                      *)
LEMMA TalkKeeps ==
    ASSUME IInv, NEW st, NEW R, NEW O, Says(st, R, O), Do(st), UpShrinks,
           UNCHANGED <<loss, cl, slow>>,
           st.s.conn = sv.conn, st.s.seq = sv.seq, st.s.eofSeen = sv.eofSeen,
           st.s.nextTid = sv.nextTid,
           (st.s.job = sv.job /\ st.s.spool = sv.spool) \/ SpoolAdded,
           st.s.open => sv.open,
           \/ st.s.pend \in {NoTxn, sv.pend}
           \/ \E p \in Up : IsAsk(p) /\ st.s.pend = [tid |-> p.tid, func |-> p.func],
           Kept(st.s.reqs), IsFiniteSet(st.s.reqs),
           \A e \in R : GoodReply(e),
           \A p \in O : GoodPacket(p)
    PROVE  IInv'
<1>1. /\ sv' = st.s /\ down' = down \o st.out
      /\ cl' = cl /\ loss' = loss /\ slow' = slow
  BY Zenon DEF Do
<1>2. /\ down' \in Seq(Wire) /\ Down' = Down \cup Range(st.out)
  <2>1. down \in Seq(Wire) /\ st.out \in Seq(Wire)
    BY Zenon DEF IInv, Types, Says, IsPair
  <2>2. down \o st.out \in Seq(Wire) /\ Range(down \o st.out) = Range(down) \cup Range(st.out)
    BY <2>1, JoinedWires
  <2> QED
    BY <1>1, <2>2 DEF Down
<1>3. Types'
  BY <1>1, <1>2, ShrunkUp, Zenon DEF IInv, Types, Says, IsPair
<1>4. \A p \in Range(st.out) : GoodPacket(p)
  <2>1. ASSUME NEW p, NEW e \in R, Carries(p, e)
        PROVE  GoodPacket(p)
    <3>1. p.k = "TResp" /\ p.tid = e.tid /\ p.func = e.func /\ p.body = e.body
      BY <2>1 DEF Carries, Resp
    <3>2. GoodReply(e)
      BY Zenon
    <3>3. SoundNext(p)
      BY <3>1, <3>2, Zenon DEF GoodReply, SoundNext
    <3>4. FinalNext(p)
      BY <3>1, <3>2, Zenon DEF GoodReply, FinalNext
    <3> QED
      BY <3>1, <3>2, <3>3, <3>4, Zenon DEF GoodPacket, GoodReply
  <2> QED
    BY <2>1, Zenon DEF Says
<1>5. Chat
  <2>1. \A e \in sv'.xo : e \in sv.xo \/ (e.tid \in 1..cl.tid /\ Sound(e)')
    BY <1>1, NextTime, Zenon DEF Says, GoodReply
  <2>2. \A p \in Down' : \/ p \in Down \/ IsChatter(p)
                         \/ p.k = "TResp" /\ p.tid \in 1..cl.tid /\ Sound(p)' /\ Final(p)'
                         \/ \E r \in sv.reqs : Reasks(p, r)
    BY <1>2, <1>4, NextTime, Zenon DEF GoodPacket, GoodReply
  <2>3. SameClient /\ cl'.last = cl.last /\ cl'.tid = cl.tid
    BY <1>1, Zenon DEF SameClient, IInv, ClientInv
  <2>4. UpOrder' /\ \A p \in Up' : p \in Up
    BY ShrunkUp, Zenon
  <2>5. Kept(sv'.reqs)
    BY <1>1, Zenon
  <2> QED
    BY <1>1, <2>1, <2>2, <2>3, <2>4, <2>5, Zenon DEF Chat
<1> QED
  BY <1>3, <1>5, ChatKeeps, Zenon

(* The replies that are sound.                                             *)
LEMMA ReplySound ==
    ASSUME IInv, cl' = cl, NEW t \in Txn, NEW b \in Body, t.tid \in 1..cl.tid,
           \A r \in cl.reqs : t.tid = r.tid => t.func = r.func,
           t.func = "open" => FinalNext(t),
           t.func = "open" /\ b.ok => \A r \in cl.reqs : t.tid = r.tid => sv'.conn = cl.conn,
           t.func = "read" /\ b.eof => (sv.open => Spooled(sv.conn))'
    PROVE  GoodReply(ReplyOf(t, b))
<1> DEFINE e == ReplyOf(t, b)
<1>1. e.tid = t.tid /\ e.func = t.func /\ e.body = b
  BY Zenon DEF ReplyOf
<1> HIDE DEF e
<1>2. SoundNext(e)
  BY <1>1 DEF SoundNext, Sound, Spooled
<1>3. FinalNext(e)
  BY <1>1, Zenon DEF FinalNext
<1> QED
  BY <1>1, <1>2, <1>3, Zenon DEF GoodReply, e

(* The replies to a deferred read.                                         *)
LEMMA ReleasedSound ==
    ASSUME IInv, cl' = cl, NEW s, s.pend = sv.pend, ~sv'.open
    PROVE  \A e \in Released(s) : GoodReply(e)
<1>1. sv.pend \in Txn
  BY Typed, Zenon DEF IInv
<1>2. sv.pend # NoTxn => /\ sv.pend.tid \in 1..cl.tid /\ sv.pend.func = "read"
                         /\ \A r \in cl.reqs : sv.pend.tid = r.tid => r.func = "read"
  BY Zenon DEF IInv, TidInv, MineInv
<1>3. sv.pend # NoTxn => GoodReply(ReplyOf(sv.pend, Eof))
  BY <1>1, <1>2, ReplySound, BodiesTyped, Zenon
<1> QED
  BY <1>3, Zenon DEF Released

(* What a handler that only answers has left alone.                        *)
Talks(s) ==
    /\ s.conn = sv.conn /\ s.seq = sv.seq /\ s.eofSeen = sv.eofSeen
    /\ s.job = sv.job /\ s.spool = sv.spool /\ s.nextTid = sv.nextTid
    /\ (s.open => sv.open) /\ s.reqs = sv.reqs

(* A handler that talks and touches no job keeps the invariant.            *)
LEMMA SameTalks ==
    ASSUME IInv, NEW st, NEW R, NEW O, Says(st, R, O), Do(st), UpShrinks,
           UNCHANGED <<loss, cl, slow>>, Talks(st.s),
           \/ st.s.pend \in {NoTxn, sv.pend}
           \/ \E p \in Up : IsAsk(p) /\ st.s.pend = [tid |-> p.tid, func |-> p.func],
           \A e \in R : GoodReply(e),
           \A p \in O : GoodPacket(p)
    PROVE  IInv'
<1>1. Kept(st.s.reqs) /\ IsFiniteSet(st.s.reqs)
  BY SubsetKept, Zenon DEF Talks
<1> QED
  BY <1>1, TalkKeeps, Zenon DEF Talks

(* The same, with what the handler did in one formula.                     *)
TalkStep(st, R, O) ==
    /\ Says(st, R, O) /\ Do(st) /\ UpShrinks /\ UNCHANGED <<loss, cl, slow>>
    /\ Talks(st.s)
    /\ \/ st.s.pend \in {NoTxn, sv.pend}
       \/ \E p \in Up : IsAsk(p) /\ st.s.pend = [tid |-> p.tid, func |-> p.func]
    /\ \A e \in R : GoodReply(e)
    /\ \A p \in O : GoodPacket(p)
LEMMA TalkStepKeeps ==
    ASSUME IInv, NEW st, NEW R, NEW O, TalkStep(st, R, O)
    PROVE  IInv'
<1>1. /\ Says(st, R, O) /\ Do(st) /\ UpShrinks /\ UNCHANGED <<loss, cl, slow>>
      /\ Talks(st.s)
      /\ \/ st.s.pend \in {NoTxn, sv.pend}
         \/ \E p \in Up : IsAsk(p) /\ st.s.pend = [tid |-> p.tid, func |-> p.func]
      /\ \A e \in R : GoodReply(e)
      /\ \A p \in O : GoodPacket(p)
  BY Zenon DEF TalkStep
<1> QED
  BY <1>1, SameTalks, SMT

(* Talking twice is talking.                                               *)
LEMMA TalksOn ==
    ASSUME NEW s, NEW n, Talks(s), SameCore(s, n)
    PROVE  Talks(n)
BY Zenon DEF Talks, SameCore

(* Nothing is answered.                                                    *)
LEMMA SilentKeeps ==
    ASSUME IInv, NEW st, Says(st, {}, {}), Do(st), UpShrinks, UNCHANGED <<loss, cl, slow>>,
           Talks(st.s), st.s.pend = sv.pend
    PROVE  IInv'
BY SameTalks, SMT

-----------------------------------------------------------------------------
(* The bursts of a document.                                               *)

(* The bursts of a document.                                               *)
LEMMA Bursty ==
    ASSUME NEW c \in Conns
    PROVE  /\ Doc[c] \in Seq(Data) /\ Ends[c] \in Seq(Nat) /\ Len(Doc[c]) \in Nat
           /\ Bursts(c) \in Nat \ {0} /\ Ends[c][Bursts(c)] = Len(Doc[c])
           /\ \A i \in 1..Bursts(c) :
                 /\ Begin(c, i) \in 0..Len(Doc[c]) /\ Ends[c][i] \in 0..Len(Doc[c])
                 /\ Size(c, i) \in 1..kQuantum /\ Begin(c, i) + Size(c, i) = Ends[c][i]
                 /\ i < Bursts(c) => Begin(c, i + 1) = Ends[c][i]
           /\ Begin(c, 1) = 0
<1>1. Doc \in Seq(Seq(Data)) /\ Ends \in [Conns -> Seq(Nat)]
  BY PapAssumption
<1>2. /\ Bursts(c) >= 1 /\ Ends[c][Bursts(c)] = Len(Doc[c])
      /\ \A i \in 1..Bursts(c) : Ends[c][i] <= Len(Doc[c]) /\ Size(c, i) \in 1..kQuantum
  BY PapAssumption
<1>3. Doc[c] \in Seq(Data) /\ Ends[c] \in Seq(Nat) /\ Len(Doc[c]) \in Nat
  BY <1>1 DEF Conns
<1>4. Bursts(c) \in Nat /\ DOMAIN Ends[c] = 1..Bursts(c)
  BY <1>3 DEF Bursts
<1>5. \A i \in 1..Bursts(c) : Ends[c][i] \in 0..Len(Doc[c])
  BY <1>2, <1>3, <1>4
<1>6. ASSUME NEW i \in 1..Bursts(c)
      PROVE  Begin(c, i) \in 0..Len(Doc[c])
  <2>1. i = 1 \/ i - 1 \in 1..Bursts(c)
    BY <1>4
  <2> QED
    BY <1>3, <1>5, <2>1 DEF Begin
<1>7. ASSUME NEW i \in 1..Bursts(c)
      PROVE  Begin(c, i) + Size(c, i) = Ends[c][i]
  BY <1>3, <1>5, <1>6 DEF Size
<1>8. ASSUME NEW i \in 1..Bursts(c)
      PROVE  Begin(c, i + 1) = Ends[c][i]
  BY <1>4 DEF Begin
<1>9. Begin(c, 1) = 0
  BY DEF Begin
<1> QED
  BY <1>2, <1>3, <1>4, <1>5, <1>6, <1>7, <1>8, <1>9


(* Packet p is the one taken off the wire.                                 *)
Takes(p) == up # <<>> /\ up' = Tail(up) /\ p = Head(up) /\ UNCHANGED <<loss, cl, slow>>

(* Taking a packet off the wire shrinks it.                                *)
LEMMA TakenShrinks ==
    ASSUME NEW p, Takes(p)
    PROVE  UpShrinks /\ cl' = cl
BY Zenon DEF Takes, UpShrinks

(* The answer to the deferred read is sound.                               *)
LEMMA FlushedSound ==
    ASSUME IInv, cl' = cl, NEW s \in Server, s.pend # NoTxn,
           s.pend.tid \in 1..cl.tid, s.pend.func = "read",
           \A r \in cl.reqs : s.pend.tid = r.tid => r.func = "read",
           s.eofSeen => (sv.open => Spooled(sv.conn))'
    PROVE  \A e \in Flushed(s) : GoodReply(e)
<1> DEFINE b == reading(s)
<1>1. s.pend \in Txn
  BY Zenon DEF Server
<1>2. b \in Body
  BY ReadingTyped, Zenon
<1>3. b.eof => s.eofSeen
  BY ReadingTyped, Zenon
<1> HIDE DEF b
<1>4. GoodReply(ReplyOf(s.pend, b))
  BY <1>1, <1>2, <1>3, ReplySound, Zenon
<1> QED
  BY <1>4, Zenon DEF Flushed, b

(* A job that is spooled is a beginning of what its connection prints, and *)
(* the connection's first.                                                 *)
LEMMA AddedJob ==
    ASSUME IInv, sv.open, ~sv.eofSeen, NEW j \in Seq(Data), NEW e \in BOOLEAN,
           Len(j) <= Len(Doc[sv.conn]), j = SubSeq(Doc[sv.conn], 1, Len(j)),
           e => j = Doc[sv.conn],
           sv'.spool = Append(sv.spool, [conn |-> sv.conn, job |-> j, eof |-> e])
    PROVE  /\ JobsExact' /\ SpooledOnce'
           /\ \A i \in DOMAIN sv'.spool : \/ sv'.spool[i].conn = sv.conn
                                          \/ i \in DOMAIN sv.spool
                                             /\ sv'.spool[i] = sv.spool[i]
           /\ \E i \in DOMAIN sv'.spool :
                 sv'.spool[i].conn = sv.conn /\ sv'.spool[i].eof = e
<1> DEFINE x == [conn |-> sv.conn, job |-> j, eof |-> e]
<1>1. sv.spool \in Seq(Job) /\ sv.conn \in Conns /\ Conns \subseteq Nat
  BY Typed, ConnsNat, Zenon DEF IInv, OrderInv
<1>2. x \in Job /\ x.conn = sv.conn /\ x.job = j /\ x.eof = e
  BY <1>1, Zenon DEF Job
<1> HIDE DEF x
<1>3. /\ \A i \in DOMAIN sv'.spool : \/ i \in DOMAIN sv.spool /\ sv'.spool[i] = sv.spool[i]
                                     \/ i \notin DOMAIN sv.spool /\ sv'.spool[i] = x
      /\ DOMAIN sv'.spool = 1..(Len(sv.spool) + 1) /\ DOMAIN sv.spool = 1..Len(sv.spool)
      /\ Len(sv.spool) \in Nat
      /\ sv'.spool[Len(sv.spool) + 1] = x
  <2>1. sv'.spool = Append(sv.spool, x)
    BY DEF x
  <2> QED
    BY <1>1, <1>2, <2>1, AppendedWire
<1>4. \A i \in DOMAIN sv.spool : sv.spool[i].conn < sv.conn
  BY Zenon DEF IInv, JobInv
<1>5. JobsExact'
  BY <1>2, <1>3, SMTT(30) DEF IInv, JobsExact
<1>6. SpooledOnce'
  <2>1. \A a, b \in DOMAIN sv.spool : sv.spool[a].conn = sv.spool[b].conn => a = b
    BY Zenon DEF IInv, SpooledOnce
  <2>2. \A a \in DOMAIN sv.spool : sv.spool[a].conn # sv.conn
    <3>1. \A a \in DOMAIN sv.spool : sv.spool[a].conn \in Nat
      <4>1. \A a \in DOMAIN sv.spool : sv.spool[a] \in Job
        BY <1>1, <1>3
      <4> QED
        BY <1>1, <4>1, Zenon DEF Job
    <3> QED
      BY <1>1, <1>4, <3>1
  <2>3. \A a \in DOMAIN sv'.spool : a \notin DOMAIN sv.spool => a = Len(sv.spool) + 1
    BY <1>3
  <2> QED
    BY <1>2, <1>3, <2>1, <2>2, <2>3, SMTT(30) DEF SpooledOnce
<1> QED
  BY <1>2, <1>3, <1>5, <1>6, SMTT(30)

-----------------------------------------------------------------------------
(* The server's steps with news: a connection opens, a burst arrives.      *)

(* Burst q of connection c may be asked for.                               *)
Issues == sv'.nextTid = sv.nextTid + 1
News(c, q) ==
    /\ c \in Conns /\ q \in 1..Bursts(c)
    /\ cl' = cl /\ UpShrinks
    /\ sv'.nextTid \in {sv.nextTid, sv.nextTid + 1}
    /\ \A r \in sv'.reqs :
          r \in sv.reqs \/ (Issues /\ r = NewRequest(sv.nextTid, c, q))
    /\ sv'.pend \in {NoTxn, sv.pend}
    /\ \A e \in sv'.xo : e \in sv.xo \/ GoodReply(e)
    /\ \A p \in Down' : \/ p \in Down \/ IsChatter(p) \/ (p.k = "TResp" /\ GoodReply(p))
                        \/ Issues /\ p = NewAsk(sv.nextTid, c, q)

(* What is on the wires after a step with news.                            *)
LEMMA NewsUp ==
    ASSUME IInv, NEW c, NEW q, News(c, q)
    PROVE  Up' \subseteq Up /\ UpOrder' /\ Coming' \subseteq Coming /\ Answered' \subseteq Answered
<1>1. Up' \subseteq Up /\ UpOrder' /\ cl' = cl
  BY ShrunkUp, Zenon DEF News
<1> QED
  BY <1>1 DEF Coming, Answered

(* News use fresh transaction identifiers.                                 *)
LEMMA NewsTid ==
    ASSUME IInv, Types', NEW c, NEW q, News(c, q)
    PROVE  TidInv' /\ ClientInv'
<1> DEFINE n == NewRequest(sv.nextTid, c, q)
           a == NewAsk(sv.nextTid, c, q)
<1>1. sv.nextTid \in Nat \ {0} /\ cl' = cl /\ sv'.nextTid \in {sv.nextTid, sv.nextTid + 1}
  BY Typed, Zenon DEF IInv, News
<1>2. n.tid = sv.nextTid /\ a.tid = sv.nextTid /\ IsAsk(a)
  BY DEF NewRequest, NewAsk, Req, IsAsk
<1> HIDE DEF n, a
<1>3. /\ 1..(sv.nextTid - 1) \subseteq 1..(sv'.nextTid - 1)
      /\ Issues => sv.nextTid \in 1..(sv'.nextTid - 1)
      /\ sv.nextTid \notin 1..(sv.nextTid - 1)
  BY <1>1 DEF Issues
<1>4. \A r \in sv'.reqs : r \in sv.reqs \/ (Issues /\ r = n)
  BY Zenon DEF News, n
<1>5. \A r \in sv.reqs : r.tid \in 1..(sv.nextTid - 1)
  BY Zenon DEF IInv, TidInv
<1>6. \A r \in sv'.reqs : r.tid \in 1..(sv'.nextTid - 1)
  BY <1>2, <1>3, <1>4, <1>5, Zenon
<1>7. \A r \in sv'.reqs : \A x \in sv'.reqs : r.tid = x.tid => r = x
  <2>1. \A r \in sv.reqs : \A x \in sv.reqs : r.tid = x.tid => r = x
    BY Zenon DEF IInv, TidInv
  <2> QED
    BY <1>2, <1>3, <1>4, <1>5, <2>1, Zenon
<1>8. \A p \in Down' : \/ p \in Down \/ IsChatter(p) \/ (p.k = "TResp" /\ GoodReply(p))
                       \/ Issues /\ p = a
  BY Zenon DEF News, a
<1>9. \A p \in Down' : IsAsk(p) => p.tid \in 1..(sv'.nextTid - 1)
  <2>1. \A p : IsAsk(p) => ~IsChatter(p) /\ p.k # "TResp"
    BY DEF IsAsk, IsChatter
  <2>2. \A p \in Down : IsAsk(p) => p.tid \in 1..(sv.nextTid - 1)
    BY Zenon DEF IInv, TidInv
  <2> QED
    BY <1>2, <1>3, <1>8, <2>1, <2>2, Zenon
<1>10. \A p \in Down' : p.k = "TResp" => p.tid \in 1..cl'.tid
  <2>1. \A p : p.k = "TResp" => ~IsChatter(p) /\ ~IsAsk(p)
    BY DEF IsAsk, IsChatter
  <2>2. \A p \in Down : p.k = "TResp" => p.tid \in 1..cl.tid
    BY Zenon DEF IInv, TidInv
  <2> QED
    BY <1>1, <1>2, <1>8, <2>1, <2>2, Zenon DEF GoodReply
<1>11. \A p \in Up' : IsPacket(p) => p.tid \in 1..(sv'.nextTid - 1)
  <2>1. \A p \in Up : IsPacket(p) => p.tid \in 1..(sv.nextTid - 1)
    BY Zenon DEF IInv, TidInv
  <2> QED
    BY <1>3, <2>1, NewsUp, Zenon
<1>12. \A p \in Up' : /\ p.k = "TReq" /\ p.func # "tickle" => p.tid \in 1..cl'.tid
                      /\ p.k = "TReq" /\ p.func = "tickle" => p.tid = 0
  <2>1. \A p \in Up : /\ p.k = "TReq" /\ p.func # "tickle" => p.tid \in 1..cl.tid
                      /\ p.k = "TReq" /\ p.func = "tickle" => p.tid = 0
    BY Zenon DEF IInv, TidInv
  <2> QED
    BY <1>1, <2>1, NewsUp, Zenon
<1>13. \A e \in sv'.xo : e.tid \in 1..cl'.tid
  <2>1. \A e \in sv.xo : e.tid \in 1..cl.tid
    BY Zenon DEF IInv, TidInv
  <2> QED
    BY <1>1, <2>1 DEF News, GoodReply
<1>14. sv'.pend # NoTxn => sv'.pend.tid \in 1..cl'.tid /\ sv'.pend.func = "read"
  <2>1. sv.pend # NoTxn => sv.pend.tid \in 1..cl.tid /\ sv.pend.func = "read"
    BY Zenon DEF IInv, TidInv
  <2> QED
    BY <1>1, <2>1 DEF News
<1>15. ClientInv'
  <2>1. ClientInv /\ cl' = cl
    BY <1>1, Zenon DEF IInv
  <2> QED
    BY <1>3, <2>1, Zenon DEF ClientInv
<1> QED
  BY <1>6, <1>7, <1>9, <1>10, <1>11, <1>12, <1>13, <1>14, <1>15, Zenon DEF TidInv

(* News alter no packet of a burst.                                        *)
LEMMA NewsData ==
    ASSUME IInv, Types', NEW c, NEW q, News(c, q)
    PROVE  DataInv'
<1> DEFINE n == NewRequest(sv.nextTid, c, q)
<1>1. c \in Conns /\ q \in 1..Bursts(c) /\ sv.nextTid \in Nat \ {0}
  BY Typed, Zenon DEF News, IInv
<1>2. n.tid = sv.nextTid /\ Holds(n)
  <2>1. /\ n.tid = sv.nextTid /\ n.conn = c /\ n.seq = q /\ n.resp = <<>>
        /\ n.need = 0..(kQuantum - 1)
    BY Zenon DEF NewRequest
  <2>2. kQuantum \in Nat
    BY PapAssumption, Zenon
  <2>3. Size(c, q) \in 1..kQuantum
    BY <1>1, Bursty, Zenon
  <2> HIDE DEF n
  <2>4. n.need # {} /\ Len(n.resp) <= Size(c, q)
        /\ \A b \in 0..(Size(c, q) - 1) : b \in n.need
    <3>1. \A b \in 0..(Size(c, q) - 1) : b \in n.need
      BY <2>1, <2>2, <2>3
    <3>2. 0 \in 0..(Size(c, q) - 1) /\ 0 <= Size(c, q)
      BY <2>2, <2>3
    <3>3. Len(n.resp) = 0
      BY <2>1
    <3> QED
      BY <3>1, <3>2, <3>3, Zenon
  <2> QED
    BY <2>1, <2>4, Zenon DEF Holds
<1>3. \A r \in sv'.reqs : r \in sv.reqs \/ r = n
  BY Zenon DEF News
<1> HIDE DEF n
<1>4. \A p \in Up : IsPacket(p) => p.tid \in 1..(sv.nextTid - 1)
  BY Zenon DEF IInv, TidInv
<1>5. \A p \in Up' : p \in Up /\ (IsPacket(p) => p.tid # n.tid)
  BY <1>1, <1>2, <1>4, NewsUp
<1> QED
  BY <1>2, <1>3, <1>5, ZenonT(30) DEF IInv, DataInv

(* The requests there are, and who is answering them.                      *)
LEMMA NewsRequests ==
    ASSUME IInv, Types', NEW c, NEW q, News(c, q)
    PROVE  \A r \in sv'.reqs :
              /\ \/ r \in sv.reqs
                 \/ r.conn = c /\ r.seq = q /\ r.tid \notin Answered'
              /\ r.seq \in 1..Bursts(r.conn)
              /\ \A p \in Down' : IsAsk(p) => Matches(p, r)
              /\ cl'.held # NoHeld => Matches(cl'.held, r)
              /\ cl'.cache # NoCache /\ cl'.cache.tid = r.tid =>
                    r.conn = cl'.conn /\ r.seq = cl'.cache.burst
<1> DEFINE n == NewRequest(sv.nextTid, c, q)
           a == NewAsk(sv.nextTid, c, q)
<1>1. c \in Conns /\ q \in 1..Bursts(c) /\ sv.nextTid \in Nat \ {0} /\ cl' = cl
  BY Typed, Zenon DEF News, IInv
<1>2. n.tid = sv.nextTid /\ n.conn = c /\ n.seq = q
  BY DEF NewRequest
<1>3. a.tid = sv.nextTid /\ a.conn = c /\ a.seq = q /\ IsAsk(a)
  BY DEF NewAsk, Req, IsAsk
<1>4. \A r \in sv'.reqs : r \in sv.reqs \/ r = n
  BY Zenon DEF News
<1> HIDE DEF n
<1>5. \A p \in Down' : IsAsk(p) => p \in Down \/ p = a
  <2>1. \A p : IsAsk(p) => ~IsChatter(p) /\ p.k # "TResp"
    BY DEF IsAsk, IsChatter
  <2> QED
    BY <2>1, Zenon DEF News
<1> HIDE DEF a
<1>6. /\ \A r \in sv.reqs : r.tid \in 1..(sv.nextTid - 1)
      /\ \A p \in Down : IsAsk(p) => p.tid \in 1..(sv.nextTid - 1)
      /\ \A p \in Up : IsPacket(p) => p.tid \in 1..(sv.nextTid - 1)
      /\ cl.held # NoHeld => cl.held.tid \in 1..(sv.nextTid - 1)
      /\ cl.cache # NoCache => cl.cache.tid \in 1..(sv.nextTid - 1)
  BY Zenon DEF IInv, TidInv, ClientInv
<1>7. /\ \A r \in sv.reqs : r.tid # sv.nextTid
      /\ \A p \in Down : IsAsk(p) => p.tid # sv.nextTid
      /\ cl.held # NoHeld => cl.held.tid # sv.nextTid
      /\ cl.cache.tid # sv.nextTid
  BY <1>1, <1>6 DEF NoCache
<1>8. sv.nextTid \notin Answered'
  <2>1. sv.nextTid \notin Answered
    BY <1>1, <1>6, <1>7 DEF Answered
  <2> QED
    BY <2>1, NewsUp, Zenon
<1>9. ASSUME NEW r \in sv.reqs
      PROVE  /\ r.seq \in 1..Bursts(r.conn)
             /\ \A p \in Down' : IsAsk(p) => Matches(p, r)
             /\ cl'.held # NoHeld => Matches(cl'.held, r)
             /\ cl'.cache # NoCache /\ cl'.cache.tid = r.tid =>
                   r.conn = cl'.conn /\ r.seq = cl'.cache.burst
  <2>1. /\ r.seq \in 1..Bursts(r.conn)
        /\ \A p \in Down : IsAsk(p) => Matches(p, r)
        /\ cl.held # NoHeld => Matches(cl.held, r)
        /\ cl.cache # NoCache /\ cl.cache.tid = r.tid =>
              r.conn = cl.conn /\ r.seq = cl.cache.burst
    BY Zenon DEF IInv, AskInv
  <2>2. Matches(a, r)
    BY <1>3, <1>7, Zenon DEF Matches
  <2> QED
    BY <1>1, <1>5, <2>1, <2>2, Zenon
<1>10. /\ n.seq \in 1..Bursts(n.conn)
       /\ \A p \in Down' : IsAsk(p) => Matches(p, n)
       /\ cl'.held # NoHeld => Matches(cl'.held, n)
       /\ cl'.cache.tid # n.tid /\ n.tid \notin Answered'
  <2>1. Matches(a, n) /\ \A p : p.tid # sv.nextTid => Matches(p, n)
    BY <1>2, <1>3, Zenon DEF Matches
  <2> QED
    BY <1>1, <1>2, <1>5, <1>7, <1>8, <2>1, Zenon
<1> QED
  BY <1>2, <1>4, <1>9, <1>10, Zenon

(* What the client may take for its own.                                   *)
LEMMA NewsMine ==
    ASSUME IInv, Types', NEW c, NEW q, News(c, q),
           cl.st = "opening" /\ sv.conn = cl.conn => sv'.conn = cl.conn,
           cl.st = "open" /\ sv'.open /\ sv'.conn = cl.conn =>
              sv.open /\ sv.conn = cl.conn /\ (Spooled(cl.conn) => Spooled(cl.conn)')
    PROVE  MineInv'
<1>1. cl' = cl /\ Up' \subseteq Up
  BY NewsUp, Zenon DEF News
<1>2. \A r \in cl.reqs : /\ r.func = "open" => cl.st = "opening"
                         /\ r.func = "read" => cl.st = "open"
  BY Zenon DEF IInv, ClientInv
<1>3. ASSUME NEW e, Sound(e)
      PROVE  Sound(e)'
  BY <1>1, <1>2, <1>3, Zenon DEF Sound
<1>4. ASSUME NEW p, Final(p)
      PROVE  Final(p)'
  BY <1>1, <1>4, Zenon DEF Final
<1>5. \A p \in Up' : p.k = "TReq" /\ p.func # "tickle" => Mine(p)'
  BY <1>1, Zenon DEF IInv, MineInv, Mine
<1>6. \A e \in sv'.xo : Sound(e)'
  BY <1>3, NextTime, Zenon DEF IInv, MineInv, News, GoodReply
<1>7. \A p \in Down' : p.k = "TResp" => Sound(p)' /\ Final(p)'
  <2>1. \A p : p.k = "TResp" => ~IsChatter(p) /\ p # NewAsk(sv.nextTid, c, q)
    BY DEF IsChatter, NewAsk, Req
  <2>2. \A p \in Down : p.k = "TResp" => Sound(p) /\ Final(p)
    BY Zenon DEF IInv, MineInv
  <2>3. \A p \in Down' : p.k = "TResp" => p \in Down \/ GoodReply(p)
    BY <2>1, Zenon DEF News
  <2> QED
    BY <1>3, <1>4, <2>2, <2>3, NextTime, Zenon DEF GoodReply
<1>8. sv'.pend # NoTxn => \A r \in cl'.reqs : sv'.pend.tid = r.tid => r.func = "read"
  BY <1>1, Zenon DEF IInv, MineInv, News
<1> QED
  BY <1>5, <1>6, <1>7, <1>8, Zenon DEF MineInv

(* What a handler with news says.                                          *)
LEMMA SaysNews ==
    ASSUME IInv, NEW st, NEW R, NEW O, Says(st, R, O), Do(st), UpShrinks,
           UNCHANGED <<loss, cl, slow>>, IsFiniteSet(st.s.reqs), \A e \in R : GoodReply(e)
    PROVE  /\ Types'
           /\ \A e \in sv'.xo : e \in sv.xo \/ GoodReply(e)
           /\ \A p \in Down' : p \in Down \/ (p.k = "TResp" /\ GoodReply(p)) \/ p \in O
<1>1. /\ sv' = st.s /\ down' = down \o st.out
      /\ cl' = cl /\ loss' = loss /\ slow' = slow
  BY Zenon DEF Do
<1>2. /\ down' \in Seq(Wire) /\ Down' = Down \cup Range(st.out)
  <2>1. down \in Seq(Wire) /\ st.out \in Seq(Wire)
    BY Zenon DEF IInv, Types, Says, IsPair
  <2>2. down \o st.out \in Seq(Wire) /\ Range(down \o st.out) = Range(down) \cup Range(st.out)
    BY <2>1, JoinedWires
  <2> QED
    BY <1>1, <2>2 DEF Down
<1>3. Types'
  BY <1>1, <1>2, ShrunkUp, Zenon DEF IInv, Types, Says, IsPair
<1>4. ASSUME NEW p, NEW e \in R, Carries(p, e)
      PROVE  p.k = "TResp" /\ GoodReply(p)
  <2>1. p.k = "TResp" /\ p.tid = e.tid /\ p.func = e.func /\ p.body = e.body
    BY <1>4 DEF Carries, Resp
  <2>2. GoodReply(e)
    BY Zenon
  <2>3. SoundNext(p)
    BY <2>1, <2>2, Zenon DEF GoodReply, SoundNext
  <2>4. FinalNext(p)
    BY <2>1, <2>2, Zenon DEF GoodReply, FinalNext
  <2> QED
    BY <2>1, <2>2, <2>3, <2>4, Zenon DEF GoodReply
<1>5. \A e \in sv'.xo : e \in sv.xo \/ GoodReply(e)
  BY <1>1, Zenon DEF Says
<1>6. \A p \in Down' : p \in Down \/ (p.k = "TResp" /\ GoodReply(p)) \/ p \in O
  BY <1>2, <1>4, Zenon DEF Says
<1> QED
  BY <1>3, <1>5, <1>6, Zenon

-----------------------------------------------------------------------------
(* A transaction request.                                                  *)

(* What TReq() starts a handler with.                                      *)
Fresh(p) == [Idle EXCEPT !.s.pendTx = @ \cup {p.tid}]

(* A transaction request.                                                  *)
LEMMA HandleReq ==
    ASSUME IInv
    PROVE  \A p : \A refuses \in BOOLEAN :
              Takes(p) /\ p.k = "TReq" /\ Do(TReq(p, refuses)) => IInv'
(* The request at the head of the wire.                                    *)
<1>1. ASSUME IInv, cl' = cl, up # <<>>, up' = Tail(up), NEW p, p = Head(up),
             p.k = "TReq", p.func # "tickle"
      PROVE  /\ p \in Up /\ p \in Wire /\ p.tid \in 1..cl.tid
             /\ [tid |-> p.tid, func |-> p.func] \in Txn
             /\ \A r \in cl.reqs : p.tid = r.tid => p.func = r.func /\ p.conn = cl.conn
             /\ FinalNext(p)
  <2> USE <1>1
  <2>1. up \in Seq(Wire)
    BY Zenon DEF IInv, Types
  <2>2. /\ p \in Up /\ p \in Wire /\ p = up[1] /\ 1 \in DOMAIN up
        /\ \A i \in DOMAIN up' : i + 1 \in DOMAIN up /\ up'[i] = up[i + 1]
        /\ DOMAIN up' = 1..(Len(up) - 1) /\ Len(up) \in Nat
    BY <2>1, TailOfWire DEF Up
  <2>3. p.tid \in 1..cl.tid
    BY <2>2, Zenon DEF IInv, TidInv
  <2>4. [tid |-> p.tid, func |-> p.func] \in Txn
    BY <2>2 DEF Wire, Txn
  <2>5. \A r \in cl.reqs : p.tid = r.tid => p.func = r.func /\ p.conn = cl.conn
    BY <2>2, Zenon DEF IInv, MineInv, Mine
  <2>6. ASSUME NEW r \in cl.reqs, p.tid = r.tid, p.func = "open", NEW x \in Up', IsOpen(x)
        PROVE  FALSE
    <3>1. PICK i \in DOMAIN up' : x = up'[i]
      BY DEF Up, Range
    <3>2. i + 1 \in DOMAIN up /\ x = up[i + 1] /\ 1 < i + 1
      BY <2>2, <3>1, SMTT(30)
    <3>3. p.conn < x.conn
      BY <2>2, <2>6, <3>2, ZenonT(30) DEF IInv, OrderInv, UpOrder, IsOpen
    <3>4. x.conn \in 1..cl.last
      BY <2>6, <3>2, ZenonT(30) DEF IInv, OrderInv, Up, Range
    <3>5. cl.conn = cl.last
      BY <2>5, <2>6, ZenonT(30) DEF IInv, ClientInv
    <3>6. cl.last \in Nat
      BY NumbersTyped, Zenon DEF IInv
    <3> QED
      BY <2>5, <2>6, <3>3, <3>4, <3>5, <3>6
  <2>7. FinalNext(p)
    BY <2>6, Zenon DEF FinalNext
  <2> QED
    BY <2>2, <2>3, <2>4, <2>5, <2>7, Zenon
(* The transactions that are being handled are of no consequence.          *)
<1>2. ASSUME NEW st, NEW R, NEW O, Says(st, R, O), NEW T \in SUBSET Nat
      PROVE  LET n == [st EXCEPT !.s.pendTx = T] IN
             /\ Says(n, R, O) /\ SameCore(st.s, n.s) /\ n.s.pend = st.s.pend
             /\ n.s.answers = st.s.answers
  <2> USE <1>2
  <2> DEFINE n == [st EXCEPT !.s.pendTx = T]
  <2>1. st.s \in Server /\ DOMAIN st = {"s", "out"}
    BY Zenon DEF Says, IsPair
  <2>2. n.s = [st.s EXCEPT !.pendTx = T] /\ n.out = st.out /\ DOMAIN n = {"s", "out"}
    BY <2>1, Zenon
  <2> HIDE DEF n
  <2>3. n.s \in Server /\ n.s.xo = st.s.xo
    BY <2>1, <2>2, Zenon DEF Server
  <2>4. SameCore(st.s, n.s) /\ n.s.pend = st.s.pend /\ n.s.answers = st.s.answers
    BY <2>1, <2>2, Zenon DEF Server, SameCore
  <2>5. Says(n, R, O)
    BY <2>2, <2>3, TouchedSays, Zenon
  <2> QED
    BY <2>4, <2>5, Zenon DEF n
(* The state a handler starts from says nothing.                           *)
<1>3. ASSUME Types, NEW p \in Wire
      PROVE  /\ Says(Fresh(p), {}, {}) /\ SameCore(sv, Fresh(p).s)
             /\ Fresh(p).s.pend = sv.pend /\ Fresh(p).s.answers = sv.answers
             /\ Fresh(p).s.pendTx \subseteq Nat
  <2> USE <1>3
  <2>1. sv.pendTx \cup {p.tid} \in SUBSET Nat
    <3>1. sv.pendTx \subseteq Nat
      BY Zenon DEF Types, Server
    <3>2. p.tid \in Nat
      BY DEF Wire
    <3> QED
      BY <3>1, <3>2, Zenon
  <2>2. Says(Idle, {}, {}) /\ Idle.s = sv
    BY IdleSays, Zenon
  <2> DEFINE n == Fresh(p)
             T == sv.pendTx \cup {p.tid}
  <2>3. n.s = [sv EXCEPT !.pendTx = T] /\ n.out = Idle.out /\ DOMAIN n = {"s", "out"}
    BY <2>2, Zenon DEF Fresh, Idle
  <2> HIDE DEF n, T
  <2>4. Says(n, {}, {}) /\ SameCore(sv, n.s) /\ n.s.pend = sv.pend /\ n.s.answers = sv.answers
    <3>1. sv \in Server /\ T \in SUBSET Nat
      BY <2>1, Zenon DEF Types, T
    <3>2. n.s \in Server /\ n.s.xo = sv.xo
      BY <2>3, <3>1, Zenon DEF Server
    <3>3. SameCore(sv, n.s) /\ n.s.pend = sv.pend /\ n.s.answers = sv.answers
      BY <2>3, <3>1, Zenon DEF Server, SameCore
    <3>4. Says(n, {}, {})
      BY <2>2, <2>3, <3>2, TouchedSays, Zenon
    <3> QED
      BY <3>3, <3>4, Zenon
  <2>5. Fresh(p).s.pendTx \subseteq Nat
    BY <2>4, Zenon DEF Says, IsPair, Server, n
  <2> QED
    BY <2>4, <2>5, Zenon DEF n
(* The reply is in the cache: it is said again.                            *)
<1>4. ASSUME IInv, NEW p, Takes(p), p.k = "TReq", NEW e \in sv.xo, e.tid = p.tid,
             Do(Emit(Idle, Resp(e.tid, e.func, 0, TRUE, e.body)))
      PROVE  IInv'
  <2> USE <1>4
  <2> DEFINE q == Resp(e.tid, e.func, 0, TRUE, e.body)
             st == Emit(Idle, q)
  <2>1. UpShrinks /\ cl' = cl
    BY TakenShrinks
  <2>2. e \in Reply /\ e.tid \in 1..cl.tid /\ Sound(e)
    BY Typed, Zenon DEF IInv, TidInv, MineInv
  <2>3. e.tid \in Nat /\ e.func \in Funcs /\ e.body \in Body
    BY <2>2 DEF Reply
  <2>4. q \in Wire
    BY <2>3, RespTyped, Zenon
  <2>5. q.k = "TResp" /\ q.tid = e.tid /\ q.func = e.func /\ q.body = e.body
    BY Zenon DEF Resp
  <2> HIDE DEF q
  <2>6. Says(st, {}, {q}) /\ st.s = sv
    <3>1. Says(Idle, {}, {}) /\ Idle.s = sv
      BY IdleSays, Zenon DEF IInv
    <3>2. Says(st, {}, {} \cup {q}) /\ st.s = Idle.s
      BY <2>4, <3>1, EmitSays, Zenon
    <3> QED
      BY <3>1, <3>2
  <2>7. sv' = sv
    BY <2>6, Zenon DEF Do, q
  <2>8. SoundNext(q)
    BY <2>1, <2>2, <2>5, <2>7, Zenon DEF SoundNext, Sound, Spooled
  <2>9. p \in Up /\ p.tid # 0
    <3>1. up \in Seq(Wire)
      BY Zenon DEF IInv, Types
    <3>2. p \in Up
      BY <3>1, TailOfWire DEF Takes, Up
    <3> QED
      BY <2>2, <3>2
  <2>10. p.func # "tickle"
    BY <2>9, Zenon DEF IInv, TidInv
  <2>11. FinalNext(p) /\ \A r \in cl.reqs : p.tid = r.tid => p.func = r.func
    BY <2>1, <2>10, <1>1, Zenon DEF Takes
  <2>12. \A r \in cl.reqs : e.tid = r.tid => e.func = r.func
    BY <2>2, Zenon DEF SoundNext, Sound
  <2>13. FinalNext(q)
    BY <2>1, <2>5, <2>11, <2>12, Zenon DEF FinalNext
  <2>14. GoodPacket(q)
    BY <2>2, <2>5, <2>8, <2>13, Zenon DEF GoodPacket, GoodReply
  <2> HIDE DEF st
  <2>15. Talks(st.s) /\ st.s.pend = sv.pend /\ Do(st)
    BY <2>6, Zenon DEF Talks, st, q
  <2>16. UNCHANGED <<loss, cl, slow>>
    BY Zenon DEF Takes
  <2>17. (\A x \in {} : GoodReply(x)) /\ (\A x \in {q} : GoodPacket(x))
         /\ st.s.pend \in {NoTxn, sv.pend}
    BY <2>14, <2>15, Zenon
  <2>18. TalkStep(st, {}, {q})
    BY <2>1, <2>6, <2>15, <2>16, <2>17, Zenon DEF TalkStep
  <2> QED
    BY <2>18, TalkStepKeeps, Zenon
(* A handler that leaves the job alone only talks.                         *)
<1>5. ASSUME NEW n, SameCore(sv, n)
      PROVE  Talks(n)
  BY <1>5, Zenon DEF Talks, SameCore
(* Once EOF is seen the job is spooled, and it stays so.                   *)
<1>6. ASSUME IInv, Talks(sv'), sv.eofSeen
      PROVE  (sv.open => Spooled(sv.conn))'
  <2> USE <1>6
  <2>1. sv.open => Spooled(sv.conn)
    BY Zenon DEF IInv, JobInv
  <2> QED
    BY <2>1, Zenon DEF Talks, Spooled
(* The service is off.                                                     *)
<1>7. ASSUME IInv, NEW p, Takes(p), p \in Wire,
             Do([Fresh(p) EXCEPT !.s.pendTx = @ \ {p.tid}])
      PROVE  IInv'
  <2> USE <1>7
  <2> DEFINE T == Fresh(p).s.pendTx \ {p.tid}
             n == [Fresh(p) EXCEPT !.s.pendTx = T]
  <2>1. /\ Says(Fresh(p), {}, {}) /\ SameCore(sv, Fresh(p).s)
        /\ Fresh(p).s.pend = sv.pend /\ Fresh(p).s.pendTx \subseteq Nat
    BY <1>3, Zenon DEF IInv
  <2>2. T \in SUBSET Nat
    BY <2>1, Zenon
  <2>3. Do(n)
    OBVIOUS
  <2> HIDE DEF T
  <2>4. Says(n, {}, {}) /\ SameCore(Fresh(p).s, n.s) /\ n.s.pend = Fresh(p).s.pend
    BY <2>1, <2>2, <1>2, Zenon
  <2> HIDE DEF n
  <2>5. Talks(n.s)
    BY <2>1, <2>4, <1>5, TalksOn, Zenon
  <2> QED
    BY <2>1, <2>3, <2>4, <2>5, TakenShrinks, SilentKeeps, Zenon DEF Takes
(* The client is heard of.                                                 *)
<1>8. ASSUME IInv, NEW st, NEW R, NEW O, Says(st, R, O), Talks(st.s)
      PROVE  LET n == [st EXCEPT !.s.silent = 0] IN
             Says(n, R, O) /\ Talks(n.s) /\ n.s.pend = st.s.pend
  <2> USE <1>8
  <2> DEFINE n == [st EXCEPT !.s.silent = 0]
  <2>1. st.s \in Server /\ DOMAIN st = {"s", "out"}
    BY Zenon DEF Says, IsPair
  <2>2. n.s = [st.s EXCEPT !.silent = 0] /\ n.out = st.out /\ DOMAIN n = {"s", "out"}
    BY <2>1, Zenon
  <2>3. 0 \in 0..(kMinutes + 1)
    BY DEF kMinutes
  <2> HIDE DEF n
  <2>4. n.s \in Server /\ n.s.xo = st.s.xo /\ n.s.pend = st.s.pend
    BY <2>1, <2>2, <2>3, Zenon DEF Server
  <2>5. Talks(n.s)
    BY <2>1, <2>2, Zenon DEF Server, Talks
  <2>6. Says(n, R, O)
    BY <2>2, <2>4, TouchedSays, Zenon
  <2> QED
    BY <2>4, <2>5, <2>6, Zenon DEF n
(* A tickle only restarts the silence.                                     *)
<1>9. ASSUME IInv, NEW p, Takes(p), p \in Wire, Do(onTickle(Fresh(p), p))
      PROVE  IInv'
  <2> USE <1>9
  <2> DEFINE T == Fresh(p).s.pendTx \ {p.tid}
             m == [Fresh(p) EXCEPT !.s.pendTx = T]
             n == [m EXCEPT !.s.silent = 0]
  <2>1. /\ Says(Fresh(p), {}, {}) /\ SameCore(sv, Fresh(p).s)
        /\ Fresh(p).s.pend = sv.pend /\ Fresh(p).s.pendTx \subseteq Nat
    BY <1>3, Zenon DEF IInv
  <2>2. T \in SUBSET Nat
    BY <2>1, Zenon
  <2>3. onTickle(Fresh(p), p) = IF ours(Fresh(p), p) THEN n ELSE m
    BY DEF onTickle
  <2> HIDE DEF T
  <2>4. Says(m, {}, {}) /\ SameCore(Fresh(p).s, m.s) /\ m.s.pend = Fresh(p).s.pend
    BY <2>1, <2>2, <1>2, Zenon
  <2> HIDE DEF m
  <2>5. Talks(m.s)
    BY <2>1, <2>4, <1>5, TalksOn, Zenon
  <2>6. Says(n, {}, {}) /\ Talks(n.s) /\ n.s.pend = m.s.pend
    BY <2>4, <2>5, <1>8, Zenon
  <2> HIDE DEF n
  <2>7. UpShrinks /\ UNCHANGED <<loss, cl, slow>>
    BY TakenShrinks, Zenon DEF Takes
  <2>8. CASE onTickle(Fresh(p), p) = n
    BY <2>1, <2>4, <2>6, <2>7, <2>8, SilentKeeps, Zenon
  <2>9. CASE onTickle(Fresh(p), p) = m
    BY <2>1, <2>4, <2>5, <2>7, <2>9, SilentKeeps, Zenon
  <2> QED
    BY <2>3, <2>8, <2>9, Zenon
(* The client's read is deferred, or answered at once.                     *)
<1>10. ASSUME IInv, NEW p, Takes(p), IsAsk(p),
              Do(onRead(Fresh(p), [tid |-> p.tid, func |-> p.func], p))
       PROVE  IInv'
  <2> USE <1>10
  <2> DEFINE t == [tid |-> p.tid, func |-> p.func]
             T == Fresh(p).s.pendTx \ {t.tid}
             m == [Fresh(p) EXCEPT !.s.pendTx = T]
             d == [Fresh(p) EXCEPT !.s.silent = 0, !.s.pend = t]
             n == flushClientRead(d)
  <2>1. UpShrinks /\ cl' = cl /\ UNCHANGED <<loss, cl, slow>>
    BY TakenShrinks, Zenon DEF Takes
  <2>2. /\ p \in Up /\ p \in Wire /\ p.tid \in 1..cl.tid /\ t \in Txn /\ p.func = "read"
        /\ \A r \in cl.reqs : p.tid = r.tid => p.func = r.func
    BY <1>1 DEF IsAsk, Takes
  <2>3. /\ Says(Fresh(p), {}, {}) /\ SameCore(sv, Fresh(p).s)
        /\ Fresh(p).s.pend = sv.pend /\ Fresh(p).s.pendTx \subseteq Nat
    BY <2>2, <1>3, Zenon DEF IInv
  <2>4. onRead(Fresh(p), t, p) = IF ours(Fresh(p), p) THEN n ELSE m
    BY Zenon DEF onRead
  <2>5. CASE onRead(Fresh(p), t, p) = m
    <3>1. T \in SUBSET Nat
      BY <2>3, Zenon
    <3>2. Do(m)
      BY <2>5
    <3> HIDE DEF T
    <3>3. Says(m, {}, {}) /\ SameCore(Fresh(p).s, m.s) /\ m.s.pend = Fresh(p).s.pend
      BY <2>3, <3>1, <1>2, Zenon
    <3> HIDE DEF m
    <3>4. Talks(m.s)
      BY <2>3, <3>3, <1>5, TalksOn, Zenon
    <3> QED
      BY <2>1, <2>3, <3>2, <3>3, <3>4, SilentKeeps, Zenon
  <2>6. CASE onRead(Fresh(p), t, p) = n
    <3>1. Fresh(p).s \in Server /\ DOMAIN Fresh(p) = {"s", "out"}
      BY <2>3, Zenon DEF Says, IsPair
    <3>2. Do(n) /\ t.tid = p.tid /\ t.func = p.func
      BY <2>6
    <3> HIDE DEF t
    <3>3. /\ d.s = [Fresh(p).s EXCEPT !.silent = 0, !.pend = t] /\ d.out = Fresh(p).out
          /\ DOMAIN d = {"s", "out"}
      BY <3>1, Zenon
    <3>4. 0 \in 0..(kMinutes + 1)
      BY DEF kMinutes
    <3> HIDE DEF d
    <3>5. d.s \in Server /\ d.s.xo = Fresh(p).s.xo /\ d.s.pend = t
      <4>1. d.s \in Server
        BY <2>2, <3>1, <3>3, <3>4, ZenonT(30) DEF Server
      <4>2. d.s.xo = Fresh(p).s.xo /\ d.s.pend = t
        BY <3>1, <3>3, Zenon DEF Server
      <4> QED
        BY <4>1, <4>2, Zenon
    <3>6. Talks(d.s)
      <4>1. Talks(Fresh(p).s)
        BY <2>3, <1>5, Zenon
      <4> QED
        BY <3>1, <3>3, <4>1, Zenon DEF Server, Talks
    <3>7. Says(d, {}, {})
      BY <2>3, <3>3, <3>5, TouchedSays, Zenon
    <3>8. Says(n, {} \cup Flushed(d.s), {}) /\ SameCore(d.s, n.s)
          /\ n.s.pend \in {d.s.pend, NoTxn}
      BY <3>7, FlushSays, Zenon
    <3>9. Says(n, Flushed(d.s), {}) /\ Talks(n.s)
      BY <3>6, <3>8, TalksOn, Zenon
    <3>10. Talks(sv') /\ sv' = n.s
      BY <3>2, <3>9, Zenon DEF Do
    <3>11. t # NoTxn
      BY <2>2, <3>2, SMTT(30) DEF NoTxn
    <3>12. d.s.eofSeen => (sv.open => Spooled(sv.conn))'
      BY <3>6, <3>10, <1>6, Zenon DEF Talks
    <3>13. \A e \in Flushed(d.s) : GoodReply(e)
      BY <2>1, <2>2, <3>2, <3>5, <3>11, <3>12, FlushedSound, Zenon
    <3>14. \/ n.s.pend \in {NoTxn, sv.pend}
           \/ \E x \in Up : IsAsk(x) /\ n.s.pend = [tid |-> x.tid, func |-> x.func]
      BY <2>2, <3>5, <3>8, ZenonT(30) DEF t
    <3> HIDE DEF n
    <3>15. TalkStep(n, Flushed(d.s), {})
      BY <2>1, <3>2, <3>9, <3>13, <3>14, Zenon DEF TalkStep
    <3> QED
      BY <3>15, TalkStepKeeps, Zenon
  <2> QED
    BY <2>4, <2>5, <2>6, Zenon
(* What follows a reply to the request at the head of the wire.            *)
<1>11. ASSUME IInv, NEW p, Takes(p), p.k = "TReq", p.func # "tickle", NEW b \in Body,
              p.func = "open" /\ b.ok => \A r \in cl.reqs : p.tid = r.tid => sv'.conn = cl.conn,
              p.func = "read" /\ b.eof => (sv.open => Spooled(sv.conn))'
       PROVE  GoodReply(ReplyOf([tid |-> p.tid, func |-> p.func], b))
  <2> USE <1>11
  <2> DEFINE t == [tid |-> p.tid, func |-> p.func]
  <2>1. /\ p.tid \in 1..cl.tid /\ t \in Txn /\ cl' = cl
        /\ \A r \in cl.reqs : p.tid = r.tid => p.func = r.func
        /\ FinalNext(p)
    BY <1>1, Zenon DEF Takes
  <2>2. t.tid = p.tid /\ t.func = p.func
    BY Zenon
  <2> HIDE DEF t
  <2>3. FinalNext(t)
    BY <2>1, <2>2, Zenon DEF FinalNext
  <2>4. GoodReply(ReplyOf(t, b))
    BY <2>1, <2>2, <2>3, ReplySound, Zenon
  <2> QED
    BY <2>4, Zenon DEF t
(* What the open connection has received so far.                           *)
<1>12. ASSUME IInv, sv.open, ~sv.eofSeen
       PROVE  /\ Len(sv.job) <= Len(Doc[sv.conn])
              /\ sv.job = SubSeq(Doc[sv.conn], 1, Len(sv.job))
              /\ sv.conn \in Conns
  <2> USE <1>12
  <2>1. /\ sv.seq \in 1..Bursts(sv.conn)
        /\ sv.job = SubSeq(Doc[sv.conn], 1, Begin(sv.conn, sv.seq))
        /\ sv.conn \in Conns
    BY Typed, Zenon DEF IInv, JobInv, OrderInv
  <2>2. /\ Doc[sv.conn] \in Seq(Data) /\ Ends[sv.conn] \in Seq(Nat)
        /\ Ends[sv.conn][Bursts(sv.conn)] = Len(Doc[sv.conn])
        /\ \A i \in 1..Bursts(sv.conn) : Ends[sv.conn][i] <= Len(Doc[sv.conn])
    <3>1. Doc \in Seq(Seq(Data)) /\ Ends \in [Conns -> Seq(Nat)]
      BY PapAssumption, Zenon
    <3>2. \A c \in Conns : /\ Ends[c][Bursts(c)] = Len(Doc[c])
                           /\ \A i \in 1..Bursts(c) : Ends[c][i] <= Len(Doc[c])
      BY PapAssumption, Zenon
    <3> QED
      BY <2>1, <3>1, <3>2 DEF Conns
  <2>3. Begin(sv.conn, sv.seq) \in 0..Len(Doc[sv.conn])
    <3>1. Len(Doc[sv.conn]) \in Nat /\ Bursts(sv.conn) \in Nat
          /\ DOMAIN Ends[sv.conn] = 1..Bursts(sv.conn)
      BY <2>2 DEF Bursts
    <3>2. \A i \in 1..Bursts(sv.conn) : Ends[sv.conn][i] \in 0..Len(Doc[sv.conn])
      BY <2>2, <3>1
    <3>3. sv.seq = 1 \/ sv.seq - 1 \in 1..Bursts(sv.conn)
      BY <2>1, <3>1
    <3> QED
      BY <3>1, <3>2, <3>3 DEF Begin
  <2> QED
    BY <2>1, <2>2, <2>3
(* The client closes its connection, or one that is not there any more.    *)
<1>13. ASSUME IInv, NEW p, Takes(p), IsClose(p),
              Do(onClose(Fresh(p), [tid |-> p.tid, func |-> p.func], p))
       PROVE  IInv'
  <2> USE <1>13
  <2> DEFINE t == [tid |-> p.tid, func |-> p.func]
             e == ReplyOf(t, NoBody)
             st == Fresh(p)
             said == respond(st, t, NoBody)
             late == said.s.job # <<>> /\ ~said.s.eofSeen
             n == onClose(st, t, p)
  <2>1. UpShrinks /\ cl' = cl /\ UNCHANGED <<loss, cl, slow>>
    BY TakenShrinks DEF Takes
  <2>2. /\ p \in Up /\ p \in Wire /\ t \in Txn /\ p.k = "TReq" /\ p.func = "close"
    BY <1>1 DEF IsClose, Takes
  <2>3. /\ Says(st, {}, {}) /\ SameCore(sv, st.s) /\ st.s.pend = sv.pend
    BY <2>2, <1>3, Zenon DEF IInv
  <2>4. GoodReply(e)
    BY <2>2, <1>11, BodiesTyped, ZenonT(30)
  <2>5. n = IF ~ours(st, p) THEN said
            ELSE IF late THEN closeConn(finishJob(said)) ELSE closeConn(said)
    BY ZenonT(30) DEF onClose
  <2>6. Do(n)
    BY Zenon
  <2> HIDE DEF t, e, st, n
  <2>7. Says(said, {e}, {}) /\ SameCore(st.s, said.s) /\ said.s.pend = sv.pend
    <3>1. Says(said, {} \cup {e}, {}) /\ SameCore(st.s, said.s) /\ said.s.pend = st.s.pend
      BY <2>2, <2>3, RespondSays, BodiesTyped, Zenon DEF e
    <3> QED
      BY <2>3, <3>1
  <2> HIDE DEF said
  <2>8. Talks(said.s) /\ SameCore(sv, said.s)
    BY <2>3, <2>7, <1>5, TalksOn, Zenon DEF SameCore
  <2>9. \A x \in {} : GoodPacket(x)
    BY Zenon
  <2>10. CASE n = said
    <3>1. \A x \in {e} : GoodReply(x)
      BY <2>4, Zenon
    <3>2. said.s.pend \in {NoTxn, sv.pend} /\ Do(said)
      BY <2>6, <2>7, <2>10, Zenon
    <3>3. TalkStep(said, {e}, {})
      BY <2>1, <2>7, <2>8, <2>9, <3>1, <3>2, Zenon DEF TalkStep
    <3> QED
      BY <3>3, TalkStepKeeps, Zenon
  <2>11. CASE n = closeConn(said)
    <3> DEFINE c == closeConn(said)
    <3>1. /\ Says(c, {e} \cup Released(said.s), {}) /\ c.s.pend = NoTxn /\ ~c.s.open
          /\ SameCore([said.s EXCEPT !.open = FALSE], c.s)
      BY <2>7, CloseSays, Zenon
    <3> HIDE DEF c
    <3>2. Do(c) /\ ~sv'.open
      BY <2>6, <2>11, <3>1, Zenon DEF Do, c
    <3>3. Talks(c.s)
      <4>1. said.s \in Server
        BY <2>7, Zenon DEF Says, IsPair
      <4>2. Talks([said.s EXCEPT !.open = FALSE])
        BY <2>8, <4>1, Zenon DEF Server, Talks
      <4> QED
        BY <3>1, <4>2, TalksOn, Zenon
    <3>4. \A x \in {e} \cup Released(said.s) : GoodReply(x)
      <4>1. \A x \in Released(said.s) : GoodReply(x)
        BY <2>1, <2>7, <3>2, ReleasedSound, Zenon
      <4> QED
        BY <2>4, <4>1, Zenon
    <3>5. c.s.pend \in {NoTxn, sv.pend}
      BY <3>1, Zenon
    <3>6. TalkStep(c, {e} \cup Released(said.s), {})
      BY <2>1, <2>9, <3>1, <3>2, <3>3, <3>4, <3>5, Zenon DEF TalkStep
    <3> QED
      BY <3>6, TalkStepKeeps, Zenon
  <2>12. CASE n = closeConn(finishJob(said)) /\ ours(st, p) /\ late
    <3> DEFINE f == finishJob(said)
               c == closeConn(f)
    <3>1. sv.open /\ ~sv.eofSeen /\ sv.job # <<>> /\ sv.conn = p.conn
      BY <2>3, <2>8, <2>12, Zenon DEF SameCore, ours
    <3>2. /\ Len(sv.job) <= Len(Doc[sv.conn]) /\ sv.job = SubSeq(Doc[sv.conn], 1, Len(sv.job))
          /\ sv.conn \in Conns /\ sv.job \in Seq(Data)
      BY <3>1, <1>12, Typed, Zenon DEF IInv
    <3>3. said.s.conn = sv.conn /\ said.s.job = sv.job /\ said.s.spool = sv.spool
          /\ said.s.eofSeen = sv.eofSeen
      BY <2>8, Zenon DEF SameCore
    <3>4. /\ Says(f, {e}, {})
          /\ f.s.spool = Append(said.s.spool, [conn |-> said.s.conn, job |-> said.s.job,
                                               eof |-> said.s.eofSeen])
          /\ \E j, q : f.s = [said.s EXCEPT !.job = j, !.spool = q]
      BY <2>7, <3>1, <3>2, <3>3, FinishSays, Zenon
    <3> HIDE DEF f
    <3>5. /\ f.s.spool = Append(sv.spool, [conn |-> sv.conn, job |-> sv.job, eof |-> FALSE])
          /\ f.s.conn = sv.conn /\ f.s.seq = sv.seq /\ f.s.eofSeen = sv.eofSeen
          /\ f.s.nextTid = sv.nextTid /\ f.s.reqs = sv.reqs /\ f.s.pend = sv.pend
      <4>1. /\ f.s.conn = said.s.conn /\ f.s.seq = said.s.seq /\ f.s.eofSeen = said.s.eofSeen
            /\ f.s.nextTid = said.s.nextTid /\ f.s.reqs = said.s.reqs
            /\ f.s.pend = said.s.pend
        <5>1. said.s \in Server
          BY <2>7, Zenon DEF Says, IsPair
        <5>2. PICK j, q : f.s = [said.s EXCEPT !.job = j, !.spool = q]
          BY <3>4, Zenon
        <5> QED
          BY <5>1, <5>2, Zenon DEF Server
      <4>2. f.s.spool = Append(sv.spool, [conn |-> sv.conn, job |-> sv.job, eof |-> FALSE])
        <5>1. sv.eofSeen = FALSE
          BY <3>1, Typed DEF IInv
        <5> QED
          BY <3>3, <3>4, <5>1, Zenon
      <4> QED
        BY <2>7, <2>8, <4>1, <4>2, Zenon DEF SameCore
    <3>6. /\ Says(c, {e} \cup Released(f.s), {}) /\ c.s.pend = NoTxn /\ ~c.s.open
          /\ SameCore([f.s EXCEPT !.open = FALSE], c.s)
      BY <3>4, CloseSays, Zenon
    <3> HIDE DEF c
    <3>7. /\ Do(c) /\ ~sv'.open /\ sv' = c.s
      BY <2>6, <2>12, <3>6, Zenon DEF Do, c, f
    <3>8. /\ c.s.spool = f.s.spool /\ c.s.conn = sv.conn /\ c.s.seq = sv.seq
          /\ c.s.eofSeen = sv.eofSeen /\ c.s.nextTid = sv.nextTid /\ c.s.reqs = sv.reqs
      <4>1. f.s \in Server
        BY <3>4, Zenon DEF Says, IsPair
      <4> QED
        BY <3>5, <3>6, <4>1, Zenon DEF Server, SameCore
    <3>9. \A x \in {e} \cup Released(f.s) : GoodReply(x)
      <4>1. \A x \in Released(f.s) : GoodReply(x)
        BY <2>1, <3>5, <3>7, ReleasedSound, Zenon
      <4> QED
        BY <2>4, <4>1, Zenon
    <3>10. SpoolAdded
      <4>1. sv'.spool = Append(sv.spool, [conn |-> sv.conn, job |-> sv.job, eof |-> FALSE])
        BY <3>5, <3>7, <3>8, Zenon
      <4>2. /\ JobsExact' /\ SpooledOnce'
            /\ \A i \in DOMAIN sv'.spool : \/ sv'.spool[i].conn = sv.conn
                                           \/ i \in DOMAIN sv.spool
                                              /\ sv'.spool[i] = sv.spool[i]
        BY <3>1, <3>2, <4>1, AddedJob, Zenon
      <4>3. Coming' \subseteq Coming
        <5>1. Up' \subseteq Up
          BY <2>1, ShrunkUp, Zenon
        <5> QED
          BY <2>1, <5>1, Zenon DEF Coming
      <4>4. \A o \in Coming' : sv.conn < o
        BY <2>2, <3>1, <4>3, Zenon DEF IInv, OrderInv, IsClose
      <4>5. /\ sv.conn <= sv.conn
            /\ \A i \in DOMAIN sv.spool : /\ sv.spool[i].conn <= sv.conn
                                          /\ \A o \in Coming' : sv.spool[i].conn < o
        <5>1. sv.conn <= sv.conn
          BY <3>2, ConnsNat
        <5> QED
          BY <4>3, <5>1, Zenon DEF IInv, OrderInv
      <4>6. sv'.conn = sv.conn
        BY <3>7, <3>8
      <4> QED
        BY <3>7, <4>2, <4>4, <4>5, <4>6, Zenon DEF SpoolAdded
    <3>11. Kept(c.s.reqs) /\ IsFiniteSet(c.s.reqs)
      BY <3>8, SubsetKept, Zenon
    <3>12. c.s.pend \in {NoTxn, sv.pend} /\ (c.s.open => sv.open)
      BY <3>6, Zenon
    <3> QED
      BY <2>1, <2>9, <3>6, <3>7, <3>8, <3>9, <3>10, <3>11, <3>12, TalkKeeps, SMT
  <2> QED
    BY <2>5, <2>10, <2>11, <2>12, Zenon
(* When an OpenConn arrives, nothing is left of what was before it.        *)
<1>14. ASSUME IInv, NEW p, Takes(p), IsOpen(p)
       PROVE  /\ p.conn \in Conns /\ p.conn <= cl.last
              /\ cl.st \notin {"open", "closing"}
              /\ cl.cache = NoCache /\ cl.held = NoHeld /\ ~cl.done
              /\ \A x \in Up' : ~IsPacket(x)
              /\ sv.conn <= p.conn /\ (sv.conn = p.conn => sv.seq <= 1)
              /\ \A i \in DOMAIN sv.spool : sv.spool[i].conn < p.conn
              /\ \A o \in Coming' : p.conn <= o
  <2> USE <1>14
  <2>1. up \in Seq(Wire) /\ up # <<>> /\ up' = Tail(up) /\ p = Head(up) /\ cl' = cl
    BY Zenon DEF IInv, Types, Takes
  <2>2. /\ p \in Up /\ p \in Wire /\ p = up[1] /\ 1 \in DOMAIN up
        /\ \A i \in DOMAIN up' : i + 1 \in DOMAIN up /\ up'[i] = up[i + 1]
        /\ DOMAIN up' = 1..(Len(up) - 1) /\ Len(up) \in Nat
    BY <2>1, TailOfWire DEF Up
  <2>3. \A x \in Up' : ~IsPacket(x) /\ (IsOpen(x) => p.conn < x.conn)
    <3> SUFFICES ASSUME NEW x \in Up'
                 PROVE  ~IsPacket(x) /\ (IsOpen(x) => p.conn < x.conn)
      OBVIOUS
    <3>1. PICK i \in DOMAIN up' : x = up'[i]
      BY DEF Up, Range
    <3>2. i + 1 \in DOMAIN up /\ x = up[i + 1] /\ 1 < i + 1
      BY <2>2, <3>1
    <3> QED
      BY <2>2, <3>2, Zenon DEF IInv, OrderInv, UpOrder
  <2>4. p.conn \in Coming
    BY <2>2 DEF Coming
  <2>5. /\ p.conn \in 1..cl.last /\ cl.last \in Conns \cup {0}
        /\ cl.st \notin {"open", "closing"}
    BY <2>2, Typed, Zenon DEF IInv, OrderInv
  <2>6. p.conn \in Conns /\ p.conn <= cl.last
    BY <2>5, ConnsNat
  <2>7. cl.cache = NoCache /\ cl.held = NoHeld /\ ~cl.done
    BY <2>5, Zenon DEF IInv, ClientInv
  <2>8. /\ sv.conn <= p.conn /\ (sv.conn = p.conn => sv.seq <= 1)
        /\ \A i \in DOMAIN sv.spool : sv.spool[i].conn < p.conn
    BY <2>4, Zenon DEF IInv, OrderInv
  <2>9. ASSUME NEW o \in Coming'
        PROVE  p.conn <= o
    <3>1. CASE \E x \in Up' : IsOpen(x) /\ o = x.conn
      <4>1. PICK x \in Up' : IsOpen(x) /\ o = x.conn
        BY <3>1, Zenon
      <4>2. Up' \subseteq Wire
        BY <2>1, TailOfWire DEF Up, Range
      <4>3. x.conn \in Nat /\ p.conn \in Nat
        BY <2>2, <4>2, ConnsNat DEF Wire
      <4> QED
        BY <2>3, <4>1, <4>3
    <3>2. CASE cl.st = "opening" /\ o = cl.conn
      <4>1. cl.conn = cl.last
        BY <3>2, Zenon DEF IInv, ClientInv
      <4> QED
        BY <2>6, <3>2, <4>1, Zenon
    <3> QED
      BY <2>1, <3>1, <3>2, Zenon DEF Coming
  <2> QED
    BY <2>3, <2>5, <2>6, <2>7, <2>8, <2>9, Zenon
(* An accepted OpenConn keeps the invariant.                               *)
<1>15. ASSUME IInv, Types', NEW p, Takes(p), IsOpen(p), News(p.conn, 1),
              sv'.open, sv'.conn = p.conn, sv'.seq = 1, ~sv'.eofSeen, sv'.job = <<>>,
              sv'.spool = sv.spool
       PROVE  IInv'
  <2> USE <1>15
  <2>1. /\ p.conn \in Conns /\ p.conn <= cl.last
        /\ cl.st \notin {"open", "closing"}
        /\ cl.cache = NoCache /\ cl.held = NoHeld /\ ~cl.done
        /\ sv.conn <= p.conn /\ (sv.conn = p.conn => sv.seq <= 1)
        /\ \A i \in DOMAIN sv.spool : sv.spool[i].conn < p.conn
        /\ \A o \in Coming' : p.conn <= o
    BY <1>14, Zenon
  <2>2. cl' = cl /\ Up' \subseteq Up /\ UpOrder' /\ Coming' \subseteq Coming
    <3>1. cl' = cl
      BY Zenon DEF News
    <3>2. Up' \subseteq Up /\ UpOrder' /\ Coming' \subseteq Coming
      BY NewsUp, Zenon
    <3> QED
      BY <3>1, <3>2
  <2>3. p.conn \in Nat \ {0} /\ sv.conn \in Nat /\ cl.last \in Nat /\ sv.seq \in Nat
        /\ cl.conn \in Nat
    BY <2>1, ConnsNat, NumbersTyped, Zenon DEF IInv
  <2>4. ASSUME NEW r \in sv'.reqs
        PROVE  r.tid \notin Answered'
    <3>1. \A t \in Answered' : t = 0
      <4>1. cl'.cache.tid = 0
        <5>1. NoCache.tid = 0
          BY DEF NoCache
        <5> QED
          BY <2>1, <2>2, <5>1, Zenon
      <4> QED
        BY <4>1, <1>14, Zenon DEF Answered
    <3>2. r.tid # 0
      BY NewsTid DEF TidInv
    <3> QED
      BY <3>1, <3>2
  <2>5. MineInv'
    <3>1. cl.st = "opening" /\ sv.conn = cl.conn => sv'.conn = cl.conn
      <4>1. cl.st = "opening" => cl.conn = cl.last
        BY ZenonT(30) DEF IInv, ClientInv
      <4> QED
        BY <2>1, <2>3, <4>1, SMTT(30)
    <3> QED
      BY <2>1, <3>1, NewsMine, Zenon
  <2>6. OrderInv'
    <3>1. /\ cl'.st \notin {"open", "closing"} /\ sv'.conn # 0 /\ sv'.conn <= cl'.last
      BY <2>1, <2>2, <2>3, ZenonT(30)
    <3>2. \A x \in Up' : IsOpen(x) \/ IsClose(x) => x.conn \in 1..cl'.last
      BY <2>2, Zenon DEF IInv, OrderInv
    <3>3. \A i \in DOMAIN sv'.spool : sv'.spool[i].conn <= sv'.conn
      <4>1. \A i \in DOMAIN sv.spool : sv.spool[i].conn <= sv.conn /\ sv.spool[i].conn < p.conn
        BY <2>1, Zenon DEF IInv, OrderInv
      <4>2. \A i \in DOMAIN sv.spool : sv.spool[i].conn \in Nat
        <5>1. sv.spool \in Seq(Job)
          BY Typed, Zenon DEF IInv
        <5>2. \A i \in DOMAIN sv.spool : sv.spool[i] \in Job
          BY <5>1
        <5> QED
          BY <5>2, ConnsNat, Zenon DEF Job
      <4> QED
        BY <2>3, <4>1, <4>2
    <3>4. ASSUME NEW o \in Coming'
          PROVE  /\ sv'.conn <= o
                 /\ \A i \in DOMAIN sv'.spool : sv'.spool[i].conn < o
                 /\ \A x \in Up' : IsClose(x) => x.conn < o
                 /\ \A r \in sv'.reqs : r.tid \in Answered' => r.conn < o
                 /\ sv'.conn = o => sv'.seq <= 1 /\ (sv'.open => ~sv'.eofSeen)
      <4>1. o \in Coming
        BY <2>2, Zenon
      <4>2. /\ \A i \in DOMAIN sv'.spool : sv'.spool[i].conn < o
            /\ \A x \in Up' : IsClose(x) => x.conn < o
        BY <2>2, <4>1, Zenon DEF IInv, OrderInv
      <4>3. sv'.conn <= o /\ sv'.seq <= 1
        BY <2>1
      <4> QED
        BY <2>4, <4>2, <4>3, Zenon
    <3> QED
      BY <2>2, <3>1, <3>2, <3>3, <3>4, ZenonT(30) DEF OrderInv
  <2>7. AskInv'
    <3>1. ASSUME NEW r \in sv'.reqs
          PROVE  r.conn <= sv'.conn /\ (r.conn = sv'.conn => r.seq <= sv'.seq)
      <4>1. CASE r \in sv.reqs
        <5>1. r.conn <= sv.conn /\ (r.conn = sv.conn => r.seq <= sv.seq)
          BY <4>1, Zenon DEF IInv, AskInv
        <5>2. r.conn \in Nat /\ r.seq \in Nat
          BY <4>1, Typed, ConnsNat, Zenon DEF IInv, Request
        <5> QED
          BY <2>1, <2>3, <5>1, <5>2
      <4>2. CASE r.conn = p.conn /\ r.seq = 1
        BY <2>3, <4>2, SMTT(30)
      <4> QED
        BY <4>1, <4>2, NewsRequests, Zenon
    <3>2. ASSUME cl'.st \in {"opening", "open"}
          PROVE  sv'.seq <= cl'.expect
      <4>1. cl.st = "opening"
        BY <2>1, <2>2, <3>2, Zenon
      <4>2. cl.expect = 1
        BY <4>1, ZenonT(30) DEF IInv, ClientInv
      <4> QED
        BY <2>2, <4>2, SMTT(30)
    <3>3. \A r \in sv'.reqs :
             /\ r.seq \in 1..Bursts(r.conn)
             /\ \A x \in Down' : IsAsk(x) => Matches(x, r)
             /\ cl'.held # NoHeld => Matches(cl'.held, r)
             /\ cl'.cache # NoCache /\ cl'.cache.tid = r.tid =>
                   r.conn = cl'.conn /\ r.seq = cl'.cache.burst
      BY NewsRequests, Zenon
    <3> QED
      BY <2>4, <3>1, <3>2, <3>3, Zenon DEF AskInv
  <2>8. AnswerInv'
    BY <2>4, Zenon DEF AnswerInv
  <2>9. JobInv'
    <3>1. sv'.seq \in 1..Bursts(sv'.conn)
      BY Zenon DEF News
    <3>2. sv'.job = SubSeq(Doc[sv'.conn], 1, Begin(sv'.conn, sv'.seq))
      <4>1. Begin(p.conn, 1) = 0 /\ Doc[p.conn] \in Seq(Data)
        BY <2>1, Bursty, ZenonT(30)
      <4>2. SubSeq(Doc[p.conn], 1, 0) = <<>>
        BY <4>1
      <4> QED
        BY <4>1, <4>2, ZenonT(30)
    <3> QED
      BY <2>1, <3>1, <3>2, Zenon DEF JobInv
  <2>10. JobsExact' /\ SpooledOnce' /\ EofMeansSpooled'
    BY <2>1, <2>2, Zenon DEF IInv, JobsExact, SpooledOnce, EofMeansSpooled
  <2> QED
    BY <2>5, <2>6, <2>7, <2>8, <2>9, <2>10, NewsTid, NewsData, Zenon DEF IInv
(* A deferred read that nobody waits for any more may be told anything.    *)
<1>16. ASSUME IInv, cl' = cl, NEW s, s.pend = sv.pend, cl.st # "open"
       PROVE  \A e \in Released(s) : GoodReply(e)
  <2> USE <1>16
  <2> SUFFICES ASSUME sv.pend # NoTxn
               PROVE  GoodReply(ReplyOf(sv.pend, Eof))
    BY Zenon DEF Released
  <2> DEFINE e == ReplyOf(sv.pend, Eof)
  <2>1. e.tid = sv.pend.tid
    BY DEF ReplyOf
  <2>2. sv.pend.tid \in 1..cl.tid /\ \A r \in cl.reqs : sv.pend.tid = r.tid => r.func = "read"
    BY Zenon DEF IInv, TidInv, MineInv
  <2>3. \A r \in cl.reqs : r.func # "read"
    BY ZenonT(30) DEF IInv, ClientInv
  <2> HIDE DEF e
  <2>4. SoundNext(e) /\ FinalNext(e)
    BY <2>1, <2>2, <2>3, Zenon DEF SoundNext, FinalNext
  <2> QED
    BY <2>1, <2>2, <2>4, Zenon DEF GoodReply, e
(* An OpenConn: a connection is opened, opened again, or refused.          *)
<1>17. ASSUME IInv, NEW p, Takes(p), IsOpen(p), NEW refuses \in BOOLEAN,
              Do(onOpen(Fresh(p), [tid |-> p.tid, func |-> p.func], p, refuses))
       PROVE  IInv'
  <2> USE <1>17
  <2> DEFINE t == [tid |-> p.tid, func |-> p.func]
             st == Fresh(p)
             b == [NoBody EXCEPT !.ok = ~busy(st, p, refuses)]
             e == ReplyOf(t, b)
             said == respond(st, t, b)
             new == [said EXCEPT
                 !.s.open = TRUE, !.s.conn = p.conn, !.s.seq = 0,
                 !.s.inFlight = FALSE, !.s.eofSeen = FALSE, !.s.job = <<>>,
                 !.s.answers = 0, !.s.silent = 0]
             rel == releaseClientRead(new)
             n == issueRead(rel)
  <2>1. UpShrinks /\ cl' = cl /\ UNCHANGED <<loss, cl, slow>>
    BY TakenShrinks, Zenon DEF Takes
  <2>2. /\ p \in Up /\ p \in Wire /\ t \in Txn /\ p.k = "TReq" /\ p.func = "open"
        /\ \A r \in cl.reqs : p.tid = r.tid => p.conn = cl.conn
    BY <1>1 DEF IsOpen, Takes
  <2>3. Says(st, {}, {}) /\ SameCore(sv, st.s) /\ st.s.pend = sv.pend
    BY <2>2, <1>3, Zenon DEF IInv
  <2>4. b \in Body /\ (b.ok <=> ~busy(st, p, refuses))
    <3>1. CASE busy(st, p, refuses)
      <4>1. b = [NoBody EXCEPT !.ok = FALSE]
        BY <3>1, Zenon
      <4> QED
        BY <3>1, <4>1, BodiesTyped, Zenon DEF NoBody
    <3>2. CASE ~busy(st, p, refuses)
      <4>1. b = [NoBody EXCEPT !.ok = TRUE]
        BY <3>2, Zenon
      <4> QED
        BY <3>2, <4>1, BodiesTyped, Zenon DEF NoBody
    <3> QED
      BY <3>1, <3>2, Zenon
  <2>5. IF busy(st, p, refuses) THEN Do(said) ELSE Do(n)
    BY Zenon DEF onOpen
  <2> HIDE DEF b, st, t, n
  <2>6. Says(said, {e}, {}) /\ SameCore(st.s, said.s) /\ said.s.pend = sv.pend
    <3>1. Says(said, {} \cup {e}, {}) /\ SameCore(st.s, said.s) /\ said.s.pend = st.s.pend
      BY <2>2, <2>3, <2>4, RespondSays, ZenonT(30)
    <3> QED
      BY <2>3, <3>1, Zenon
  <2> HIDE DEF said
  <2>7. Talks(said.s)
    BY <2>3, <2>6, <1>5, TalksOn, Zenon
  <2>8. CASE busy(st, p, refuses)
    <3>1. GoodReply(e)
      BY <2>2, <2>4, <2>8, <1>11, ZenonT(30) DEF t
    <3>2. (\A x \in {e} : GoodReply(x)) /\ (\A x \in {} : GoodPacket(x))
      BY <3>1, Zenon
    <3>3. said.s.pend \in {NoTxn, sv.pend} /\ Do(said)
      BY <2>5, <2>6, <2>8, Zenon
    <3>4. TalkStep(said, {e}, {})
      BY <2>1, <2>6, <2>7, <3>2, <3>3, Zenon DEF TalkStep
    <3> QED
      BY <3>4, TalkStepKeeps, Zenon
  <2>9. CASE ~busy(st, p, refuses)
    <3>1. said.s \in Server /\ DOMAIN said = {"s", "out"} /\ p.conn \in Conns
      BY <2>6, <1>14, Zenon DEF Says, IsPair
    <3>2. /\ new.s = [said.s EXCEPT
                 !.open = TRUE, !.conn = p.conn, !.seq = 0, !.inFlight = FALSE,
                 !.eofSeen = FALSE, !.job = <<>>, !.answers = 0, !.silent = 0]
          /\ new.out = said.out /\ DOMAIN new = {"s", "out"}
      BY <3>1, Zenon
    <3> HIDE DEF new
    <3>3. new.s \in Server /\ new.s.xo = said.s.xo /\ new.s.pend = said.s.pend
      <4>1. 0 \in Nat /\ <<>> \in Seq(Data) /\ 0 \in 0..(kMinutes + 1)
        BY DEF kMinutes
      <4> QED
        BY <3>1, <3>2, <4>1, ZenonT(60) DEF Server
    <3>4. /\ new.s.open = TRUE /\ new.s.conn = p.conn /\ new.s.seq = 0
          /\ new.s.inFlight = FALSE /\ new.s.eofSeen = FALSE /\ new.s.job = <<>>
          /\ new.s.spool = sv.spool /\ new.s.reqs = sv.reqs /\ new.s.nextTid = sv.nextTid
      BY <2>7, <3>1, <3>2, Zenon DEF Server, Talks
    <3>5. Says(new, {e}, {})
      BY <2>6, <3>2, <3>3, TouchedSays, Zenon
    <3>6. /\ Says(rel, {e} \cup Released(new.s), {}) /\ SameCore(new.s, rel.s)
          /\ rel.s.pend = NoTxn
      BY <3>5, ReleaseSays, Zenon
    <3> HIDE DEF rel
    <3>7. /\ rel.s.open /\ rel.s.conn = p.conn /\ rel.s.seq = 0 /\ ~rel.s.inFlight
          /\ ~rel.s.eofSeen /\ rel.s.job = <<>> /\ rel.s.spool = sv.spool
          /\ rel.s.reqs = sv.reqs /\ rel.s.nextTid = sv.nextTid
      BY <3>4, <3>6, Zenon DEF SameCore
    <3>8. /\ Says(n, {e} \cup Released(new.s), {NewAsk(sv.nextTid, p.conn, 1)})
          /\ n.s = [rel.s EXCEPT !.inFlight = TRUE, !.seq = 1, !.nextTid = sv.nextTid + 1,
                                 !.reqs = sv.reqs \cup {NewRequest(sv.nextTid, p.conn, 1)}]
      <4>1. rel.s.seq + 1 = 1 /\ {} \cup {NewAsk(sv.nextTid, p.conn, 1)}
                                   = {NewAsk(sv.nextTid, p.conn, 1)}
        BY <3>7
      <4>2. /\ Says(n, {e} \cup Released(new.s),
                    {} \cup {NewAsk(rel.s.nextTid, rel.s.conn, rel.s.seq + 1)})
            /\ n.s = [rel.s EXCEPT !.inFlight = TRUE, !.seq = rel.s.seq + 1,
                         !.nextTid = rel.s.nextTid + 1,
                         !.reqs = rel.s.reqs \cup
                             {NewRequest(rel.s.nextTid, rel.s.conn, rel.s.seq + 1)}]
        BY <3>1, <3>6, <3>7, IssueSays, Zenon DEF n
      <4> QED
        BY <3>7, <4>1, <4>2
    <3>9. /\ sv' = n.s /\ Do(n)
      BY <2>5, <2>9, Zenon DEF Do
    <3>10. /\ sv'.open /\ sv'.conn = p.conn /\ sv'.seq = 1 /\ ~sv'.eofSeen
           /\ sv'.job = <<>> /\ sv'.spool = sv.spool /\ sv'.nextTid = sv.nextTid + 1
           /\ sv'.reqs = sv.reqs \cup {NewRequest(sv.nextTid, p.conn, 1)}
           /\ sv'.pend = NoTxn
      <4>1. rel.s \in Server
        BY <3>6, Zenon DEF Says, IsPair
      <4> QED
        BY <3>6, <3>7, <3>8, <3>9, <4>1, ZenonT(30) DEF Server
    <3>11. \A x \in {e} \cup Released(new.s) : GoodReply(x)
      <4>1. GoodReply(e)
        <5>1. \A r \in cl.reqs : p.tid = r.tid => sv'.conn = cl.conn
          BY <2>2, <3>10, ZenonT(30)
        <5> QED
          BY <2>2, <2>4, <5>1, <1>11, ZenonT(30) DEF t
      <4>2. \A x \in Released(new.s) : GoodReply(x)
        <5>1. cl.st # "open"
          BY <1>14, ZenonT(30)
        <5> QED
          BY <2>1, <2>6, <3>3, <5>1, <1>16, ZenonT(30)
      <4> QED
        BY <4>1, <4>2, Zenon
    <3>12. IsFiniteSet(n.s.reqs)
      <4>1. IsFiniteSet(sv.reqs) /\ n.s.reqs = sv.reqs \cup {NewRequest(sv.nextTid, p.conn, 1)}
        BY <3>9, <3>10, Zenon DEF IInv, Types
      <4> QED
        BY <4>1, FiniteAdd, Zenon
    <3>13. /\ Types'
           /\ \A x \in sv'.xo : x \in sv.xo \/ GoodReply(x)
           /\ \A x \in Down' : \/ x \in Down \/ (x.k = "TResp" /\ GoodReply(x))
                               \/ x \in {NewAsk(sv.nextTid, p.conn, 1)}
      BY <2>1, <3>8, <3>9, <3>11, <3>12, SaysNews, Zenon
    <3>14. News(p.conn, 1)
      <4>1. p.conn \in Conns /\ 1 \in 1..Bursts(p.conn)
        BY <3>1, Bursty
      <4> QED
        BY <2>1, <3>10, <3>13, <4>1, Zenon DEF News, Issues
    <3> QED
      BY <3>10, <3>13, <3>14, <1>15, ZenonT(30)
  <2> QED
    BY <2>8, <2>9, Zenon
(* A transaction request.                                                  *)
<1>18. ASSUME IInv, NEW p, Takes(p), p.k = "TReq", NEW refuses \in BOOLEAN,
              Do(TReq(p, refuses))
       PROVE  IInv'
  <2> USE <1>18
  <2> DEFINE t == [tid |-> p.tid, func |-> p.func]
             hits == {e \in sv.xo : e.tid = p.tid}
  <2>1. p \in Wire /\ p.func \in {"open", "read", "close", "tickle"}
    <3>1. p \in Wire
      BY TailOfWire, Zenon DEF IInv, Types, Takes
    <3> QED
      BY <3>1, Zenon DEF Wire, Funcs
  <2>2. CASE hits # {}
    <3>1. PICK e : e = CHOOSE x \in hits : TRUE
      BY Zenon
    <3>2. e \in sv.xo /\ e.tid = p.tid
      BY <2>2, <3>1, Zenon
    <3>3. Do(Emit(Idle, Resp(e.tid, e.func, 0, TRUE, e.body)))
      BY <2>2, <3>1, Zenon DEF TReq
    <3> QED
      BY <3>2, <3>3, <1>4, Zenon
  <2>3. CASE hits = {} /\ p.tid \in sv.pendTx
    <3>1. Do(Idle)
      BY <2>3, Zenon DEF TReq
    <3>2. UpShrinks /\ UNCHANGED <<loss, cl, slow>>
      BY TakenShrinks, Zenon DEF Takes
    <3>3. Says(Idle, {}, {}) /\ Idle.s = sv
      BY IdleSays DEF IInv
    <3>4. Talks(Idle.s) /\ Idle.s.pend = sv.pend
      BY <3>3, Zenon DEF Talks
    <3> QED
      BY <3>1, <3>2, <3>3, <3>4, SilentKeeps, Zenon
  <2>4. CASE hits = {} /\ p.tid \notin sv.pendTx
    <3> DEFINE st == Fresh(p)
               n == papHandler(st, t, p, refuses)
    <3>1. Do(n)
      BY <2>4, Zenon DEF TReq, Fresh
    <3>2. CASE ~st.s.enabled
      <4>1. Do([Fresh(p) EXCEPT !.s.pendTx = @ \ {p.tid}])
        <5>1. n = [st EXCEPT !.s.pendTx = @ \ {t.tid}] /\ t.tid = p.tid
          <6> HIDE DEF st
          <6> QED
            BY <3>2, Zenon DEF papHandler
        <5> QED
          BY <3>1, <5>1, Zenon
      <4> QED
        BY <2>1, <4>1, <1>7, Zenon
    <3>3. CASE st.s.enabled /\ p.func = "open"
      <4>1. n = onOpen(st, t, p, refuses)
        <5> HIDE DEF st, t
        <5> QED
          BY <3>3, Zenon DEF papHandler
      <4> QED
        BY <3>1, <3>3, <4>1, <1>17, Zenon DEF IsOpen
    <3>4. CASE st.s.enabled /\ p.func = "read"
      <4>1. n = onRead(st, t, p)
        <5> HIDE DEF st, t
        <5> QED
          BY <3>4, Zenon DEF papHandler
      <4> QED
        BY <3>1, <3>4, <4>1, <1>10, Zenon DEF IsAsk
    <3>5. CASE st.s.enabled /\ p.func = "close"
      <4>1. n = onClose(st, t, p)
        <5> HIDE DEF st, t
        <5> QED
          BY <3>5, Zenon DEF papHandler
      <4> QED
        BY <3>1, <3>5, <4>1, <1>13, Zenon DEF IsClose
    <3>6. CASE st.s.enabled /\ p.func = "tickle"
      <4>1. n = onTickle(st, p)
        <5> HIDE DEF st, t
        <5> QED
          BY <3>6 DEF papHandler
      <4> QED
        BY <2>1, <3>1, <4>1, <1>9, Zenon
    <3> QED
      BY <2>1, <3>2, <3>3, <3>4, <3>5, <3>6, Zenon
  <2> QED
    BY <2>2, <2>3, <2>4, Zenon
<1> QED
  BY <1>18

=============================================================================
