----------------------------- MODULE PapServer -----------------------------
(***************************************************************************)
(* The in-process LaserWriter: PapServer over the ATP transactions of      *)
(* AtalkStack, and a printing client, on wires that lose packets.          *)
(*                                                                         *)
(* A handler of the server is a function from a pair [s, out], the server  *)
(* and the packets it has sent so far, to the next such pair, so handlers  *)
(* compose in the order the code calls them.  The client is external: a    *)
(* LaserWriter driver over its own ATP.                                    *)
(***************************************************************************)
EXTENDS Integers, Sequences, FiniteSets, Functions

CONSTANTS
    Doc,          \* connection -> what it prints: a sequence of data packets
    Ends,         \* connection -> where each burst of its document ends
    Queries,      \* the data packets that hold a `%%?Begin` query line
    XoFuncs,      \* the requests a client makes exactly-once
    kQuantum,     \* packets a SendData asks for: 8
    kAnswers,     \* answers a read takes away: 8 packets of 512 bytes, 2 an answer
    kTries,       \* tries of AtalkStack's requester: 5
    kClientTries, \* tries of the client's OpenConn and CloseConn: 5
    MaxLoss,      \* bound: packets the wires lose
    MaxUpsets     \* bound: jobs cancelled, guests restarted, service switched off

Conns == DOMAIN Doc
Funcs == {"open", "read", "close"}
Data == UNION {Range(Doc[c]) : c \in Conns}
Bursts(c) == Len(Ends[c])
Begin(c, i) == IF i = 1 THEN 0 ELSE Ends[c][i - 1]
Size(c, i) == Ends[c][i] - Begin(c, i)

ASSUME PapAssumption ==
    /\ Doc \in Seq(Seq(Data))
    /\ Ends \in [Conns -> Seq(Nat)]
    /\ \A c \in Conns :
          /\ Bursts(c) >= 1 /\ Ends[c][Bursts(c)] = Len(Doc[c])
          /\ \A i \in 1..Bursts(c) :
                /\ Ends[c][i] <= Len(Doc[c])
                /\ Size(c, i) \in 1..kQuantum
    /\ XoFuncs \subseteq Funcs
    /\ {kQuantum, kClientTries, MaxLoss, MaxUpsets} \subseteq Nat
    /\ kTries \in Nat \ {0} /\ kAnswers \in Nat \ {0}

VARIABLES
    up,     \* the wire from the client
    down,   \* the wire to the client
    loss,   \* packets lost so far
    sv,     \* the server: PapServer and its AtalkStack
    cl,     \* the client
    slow    \* whether the client may think before it answers a SendData

vars == <<up, down, loss, sv, cl, slow>>

-----------------------------------------------------------------------------
(* Packets.                                                                *)

NoBody == [ok |-> TRUE, eof |-> FALSE, n |-> 0]
Eof == [NoBody EXCEPT !.eof = TRUE]

Req(tid, func, conn, seq, bits) ==
    [k |-> "TReq", tid |-> tid, func |-> func, conn |-> conn, seq |-> seq,
     bits |-> bits, eom |-> FALSE, body |-> NoBody]
Resp(tid, func, i, eom, body) ==
    [k |-> "TResp", tid |-> tid, func |-> func, conn |-> 0, seq |-> i,
     bits |-> {}, eom |-> eom, body |-> body]
Rel(tid) == [Req(tid, "read", 0, 0, {}) EXCEPT !.k = "TRel"]
Tickle(conn) == Req(0, "tickle", conn, 0, {})
Orders(packets) == Bijection(1..Cardinality(packets), packets)

-----------------------------------------------------------------------------
(* AtalkStack's responder and requester.                                   *)

NoTxn == [tid |-> 0, func |-> "read"]
Idle == [s |-> sv, out |-> <<>>]
Emit(st, p) == [st EXCEPT !.out = Append(@, p)]

Cached(xo, t, body) ==
    IF t.func \in XoFuncs
    THEN {e \in xo : e.tid # t.tid} \cup
         {[tid |-> t.tid, func |-> t.func, body |-> body]}
    ELSE xo

respond(st, t, body) ==
    LET sent == Emit(st, Resp(t.tid, t.func, 0, TRUE, body)) IN
    [sent EXCEPT !.s.xo = Cached(@, t, body), !.s.pendTx = @ \ {t.tid}]

atpRequest(st, conn, seq) ==
    LET tid == st.s.nextTid
        bits == 0..(kQuantum - 1) IN
    [Emit(st, Req(tid, "read", conn, seq, bits)) EXCEPT
        !.s.nextTid = @ + 1,
        !.s.reqs = @ \cup {[tid |-> tid, conn |-> conn, seq |-> seq,
                            need |-> bits, resp |-> <<>>, tries |-> 1]}]

-----------------------------------------------------------------------------
(* PapServer: the connection, the job and the client's deferred read.      *)

releaseClientRead(st) ==
    IF st.s.pend = NoTxn THEN st
    ELSE respond([st EXCEPT !.s.pend = NoTxn], st.s.pend, Eof)

\* What a reply carries away, and EOF once it carries the last of it.  Its
\* packets travel as one.
fits(s) == IF s.answers < kAnswers THEN s.answers ELSE kAnswers
reading(s) == [NoBody EXCEPT !.eof = s.eofSeen /\ s.answers <= kAnswers,
                             !.n = fits(s)]
\* Mutant: every answer ends the client's reading.
FlushEnds(st) ==
    IF st.s.pend = NoTxn \/ (st.s.answers = 0 /\ ~st.s.eofSeen) THEN st
    ELSE respond([st EXCEPT !.s.pend = NoTxn, !.s.answers = @ - fits(st.s)],
                 st.s.pend, [NoBody EXCEPT !.eof = TRUE, !.n = fits(st.s)])
flushClientRead(st) ==
    IF st.s.pend = NoTxn \/ (st.s.answers = 0 /\ ~st.s.eofSeen) THEN st
    ELSE respond([st EXCEPT !.s.pend = NoTxn, !.s.answers = @ - fits(st.s)],
                 st.s.pend, reading(st.s))

finishJob(st) ==
    IF st.s.job = <<>> THEN st
    ELSE [st EXCEPT !.s.job = <<>>,
                    !.s.spool = Append(@, [conn |-> st.s.conn, job |-> st.s.job,
                                           eof |-> st.s.eofSeen])]

issueRead(st) ==
    IF ~st.s.open \/ st.s.inFlight \/ st.s.eofSeen THEN st
    ELSE atpRequest([st EXCEPT !.s.inFlight = TRUE, !.s.seq = @ + 1],
                    st.s.conn, st.s.seq + 1)

closeConn(st) == releaseClientRead([st EXCEPT !.s.open = FALSE])

\* The completion of a SendData.  It finds the connection that is open now,
\* whichever one the request was made for.
readFailed(st) ==
    LET over == [st EXCEPT !.s.inFlight = FALSE] IN
    IF st.s.open THEN closeConn(over) ELSE over

\* Mutant: the deferred read is not told of EOF.
JobEndsUnread(st) == finishJob([st EXCEPT !.s.eofSeen = TRUE])
jobEnds(st) == flushClientRead(finishJob([st EXCEPT !.s.eofSeen = TRUE]))
readDone(st, pkts) ==
    LET over == [st EXCEPT !.s.inFlight = FALSE]
        taken == [over EXCEPT
            !.s.silent = 0,
            !.s.job = @ \o [i \in DOMAIN pkts |-> pkts[i].n],
            !.s.answers = @ + Cardinality({i \in DOMAIN pkts :
                                              pkts[i].n \in Queries})]
        eof == \E i \in DOMAIN pkts : pkts[i].eof IN
    IF ~st.s.open THEN over
    ELSE IF eof THEN jobEnds(flushClientRead(taken))
    ELSE issueRead(flushClientRead(taken))

\* papHandler(): OpenConn, the client's read, CloseConn and the tickle.
busy(st, p, refuses) == IF st.s.open THEN p.conn # st.s.conn ELSE refuses
onOpen(st, t, p, refuses) ==
    LET said == respond(st, t, [NoBody EXCEPT !.ok = ~busy(st, p, refuses)])
        new == [said EXCEPT
            !.s.open = TRUE, !.s.conn = p.conn, !.s.seq = 0,
            !.s.inFlight = FALSE, !.s.eofSeen = FALSE, !.s.job = <<>>,
            !.s.answers = 0, !.s.silent = 0] IN
    IF busy(st, p, refuses) THEN said ELSE issueRead(releaseClientRead(new))

ours(st, p) == st.s.open /\ p.conn = st.s.conn
onRead(st, t, p) ==
    IF ours(st, p)
    THEN flushClientRead([st EXCEPT !.s.silent = 0, !.s.pend = t])
    ELSE [st EXCEPT !.s.pendTx = @ \ {t.tid}]

onClose(st, t, p) ==
    LET said == respond(st, t, NoBody)
        late == said.s.job # <<>> /\ ~said.s.eofSeen IN
    IF ~ours(st, p) THEN said
    ELSE closeConn(IF late THEN finishJob(said) ELSE said)

onTickle(st, p) ==
    LET ignored == [st EXCEPT !.s.pendTx = @ \ {p.tid}] IN
    IF ours(st, p) THEN [ignored EXCEPT !.s.silent = 0] ELSE ignored

papHandler(st, t, p, refuses) ==
    CASE ~st.s.enabled -> [st EXCEPT !.s.pendTx = @ \ {t.tid}]
      [] st.s.enabled /\ p.func = "open" -> onOpen(st, t, p, refuses)
      [] st.s.enabled /\ p.func = "read" -> onRead(st, t, p)
      [] st.s.enabled /\ p.func = "close" -> onClose(st, t, p)
      [] st.s.enabled /\ p.func = "tickle" -> onTickle(st, p)

-----------------------------------------------------------------------------
(* AtalkStack::handleAtp().                                                *)

TReq(p, refuses) ==
    LET t == [tid |-> p.tid, func |-> p.func]
        hits == {e \in sv.xo : e.tid = p.tid} IN
    IF hits # {}
    THEN LET e == CHOOSE e \in hits : TRUE IN
         Emit(Idle, Resp(e.tid, e.func, 0, TRUE, e.body))
    ELSE IF p.tid \in sv.pendTx THEN Idle
    ELSE papHandler([Idle EXCEPT !.s.pendTx = @ \cup {p.tid}], t, p, refuses)

\* Mutant: packets are kept in the order they come.
StoreNext(resp, i, body) == Append(resp, body)
Store(resp, i, body) ==
    [j \in 1..(IF Len(resp) <= i THEN i + 1 ELSE Len(resp)) |->
        IF j = i + 1 THEN body
        ELSE IF j <= Len(resp) THEN resp[j] ELSE NoBody]
\* Mutant: the last packet does not end the response.
StillNeeds(need, p) == need \ {p.seq}
needs(need, p) == {b \in need : b # p.seq /\ (p.eom => b < p.seq)}
got(r, p) ==
    [r EXCEPT !.resp = Store(@, p.seq, p.body),
              !.need = needs(@, p)]
\* Mutant: a request that is answered stays.
KeepRequest(reqs, r) == reqs
erase(reqs, r) == reqs \ {r}
TResp(p) ==
    LET asked == {r \in sv.reqs : r.tid = p.tid}
        r == CHOOSE r \in asked : TRUE IN
    IF asked = {} THEN Idle
    ELSE IF got(r, p).need # {}
    THEN [Idle EXCEPT !.s.reqs = (@ \ {r}) \cup {got(r, p)}]
    ELSE readDone(Emit([Idle EXCEPT !.s.reqs = erase(@, r)], Rel(p.tid)),
                  got(r, p).resp)

TRel(p) == [Idle EXCEPT !.s.xo = {e \in @ : e.tid # p.tid},
                        !.s.pendTx = @ \ {p.tid}]

Do(st) == sv' = st.s /\ down' = down \o st.out

\* A packet reaches the server.  Whether the queue refuses jobs is CUPS's
\* answer of that moment.
handleAtp ==
    /\ up # <<>>
    /\ up' = Tail(up)
    /\ LET p == Head(up) IN
       \/ p.k = "TReq" /\ \E refuses \in BOOLEAN : Do(TReq(p, refuses))
       \/ p.k = "TResp" /\ Do(TResp(p))
       \/ p.k = "TRel" /\ Do(TRel(p))
    /\ UNCHANGED <<loss, cl, slow>>

\* AtalkStack::tick(): the requests it still waits for are sent again, and the
\* completions of those out of tries told.
\* Mutant: one try too many.
OutOfTriesLate(r) == r.tries > kTries
outOfTries(r) == r.tries + 1 > kTries
retries ==
    LET kept == {r \in sv.reqs : ~outOfTries(r)}
        st == [Idle EXCEPT !.s.reqs = {[r EXCEPT !.tries = @ + 1] : r \in kept}] IN
    IF kept = sv.reqs THEN st ELSE readFailed(st)
Again(r) == Req(r.tid, "read", r.conn, r.seq, r.need)

-----------------------------------------------------------------------------
(* The client.                                                             *)

Upsets == cl.quits + sv.offs
NoCache == [tid |-> 0, burst |-> 0]
NoHeld == Tickle(0)
Away(c) == [c EXCEPT !.st = "idle", !.conn = 0, !.reqs = {}, !.expect = 0,
                     !.cache = NoCache, !.held = NoHeld, !.done = FALSE]
Ask(c, func) ==
    [c EXCEPT !.tid = @ + 1,
              !.reqs = @ \cup {[tid |-> c.tid + 1, func |-> func, tries |-> 1]}]
Asking(c, r) == Req(r.tid, r.func, c.conn, 0, {0})
Asked(c, func) == Asking(c, [tid |-> c.tid + 1, func |-> func])

ClientOpens ==
    /\ cl.st = "idle" /\ cl.last + 1 \in Conns
    /\ LET c == [cl EXCEPT !.st = "opening", !.conn = cl.last + 1,
                           !.last = @ + 1, !.expect = 1] IN
       cl' = Ask(c, "open") /\ up' = Append(up, Asked(c, "open"))
    /\ UNCHANGED <<down, loss, sv, slow>>

\* The packets of the burst a SendData is answered with that it asks for, in any
\* order; the last burst carries EOF.
Packet(c, b, i) == [NoBody EXCEPT !.n = Doc[c][Begin(c, b) + i + 1],
                                  !.eof = b = Bursts(c)]
Packets(c, bits) ==
    {Resp(c.cache.tid, "read", i, i + 1 = Size(c.conn, c.cache.burst),
          Packet(c.conn, c.cache.burst, i)) :
        i \in {j \in bits : j < Size(c.conn, c.cache.burst)}}
Sends(packets) == \E q \in Orders(packets) : up' = up \o q
Answer(c, p) ==
    LET a == [c EXCEPT !.expect = @ + 1, !.held = NoHeld,
                       !.cache = [tid |-> p.tid, burst |-> p.seq]] IN
    cl' = a /\ Sends(Packets(a, p.bits))

\* A SendData is taken in sequence, once; a client that thinks holds it.
OnSendData(p) ==
    LET fresh == /\ cl.st = "open" /\ p.conn = cl.conn /\ p.seq = cl.expect
                 /\ p.seq <= Bursts(cl.conn) /\ cl.held = NoHeld
        again == cl.cache # NoCache /\ p.tid = cl.cache.tid IN
    \/ again /\ Sends(Packets(cl, p.bits)) /\ cl' = cl
    \/ ~again /\ fresh /\ Answer(cl, p)
    \/ ~again /\ fresh /\ slow /\ cl' = [cl EXCEPT !.held = p] /\ up' = up
    \/ ~again /\ ~fresh /\ UNCHANGED <<cl, up>>

\* A reply.  The driver reads on until EOF and then closes.
OnReply(p) ==
    LET mine == \E r \in cl.reqs : r.tid = p.tid
        c == [cl EXCEPT !.reqs = {r \in @ : r.tid # p.tid}]
        rel == IF p.func \in XoFuncs THEN <<Rel(p.tid)>> ELSE <<>>
        reads(d) == cl' = Ask(d, "read")
                    /\ up' = up \o rel \o <<Asked(d, "read")>>
        rests(d) == cl' = d /\ up' = up \o rel IN
    \/ ~mine /\ UNCHANGED <<cl, up>>
    \/ mine /\ p.func = "open" /\ p.body.ok /\ reads([c EXCEPT !.st = "open"])
    \/ mine /\ p.func = "open" /\ ~p.body.ok /\ rests(Away(c))
    \/ mine /\ p.func = "read" /\ ~p.body.eof /\ reads(c)
    \/ mine /\ p.func = "read" /\ p.body.eof /\ rests([c EXCEPT !.done = TRUE])
    \/ mine /\ p.func = "close" /\ rests(Away(c))

ClientReceives ==
    /\ down # <<>>
    /\ down' = Tail(down)
    /\ LET p == Head(down) IN
       \/ p.k = "TReq" /\ p.func = "read" /\ OnSendData(p)
       \/ p.k = "TReq" /\ p.func = "tickle" /\ UNCHANGED <<cl, up>>
       \/ p.k = "TResp" /\ OnReply(p)
       \/ /\ p.k = "TRel" /\ up' = up
          /\ cl' = IF p.tid = cl.cache.tid THEN [cl EXCEPT !.cache = NoCache]
                                           ELSE cl
    /\ UNCHANGED <<loss, sv, slow>>

ClientThought ==
    /\ cl.held # NoHeld /\ Answer(cl, cl.held)
    /\ UNCHANGED <<down, loss, sv, slow>>

\* The driver closes when it has read EOF, or when the user cancels.
ClientCloses ==
    /\ cl.st = "open"
    /\ cl.done \/ Upsets < MaxUpsets
    /\ LET c == [Away(cl) EXCEPT
                    !.st = "closing", !.conn = cl.conn,
                    !.quits = IF cl.done THEN @ ELSE @ + 1] IN
       cl' = Ask(c, "close") /\ up' = Append(up, Asked(c, "close"))
    /\ UNCHANGED <<down, loss, sv, slow>>

\* The guest restarts: its driver forgets everything.
ClientGone ==
    /\ cl.st # "idle" /\ Upsets < MaxUpsets
    /\ cl' = [Away(cl) EXCEPT !.quits = @ + 1]
    /\ UNCHANGED <<up, down, loss, sv, slow>>

\* One more try for each request of the client, or the end of its tries; a
\* read is tried for ever.
GivesUp == \E r \in cl.reqs : r.func # "read" /\ r.tries + 1 > kClientTries
ClientRetries ==
    IF GivesUp THEN cl' = Away(cl) /\ up' = up
    ELSE /\ cl' = [cl EXCEPT !.reqs =
                     {IF r.func = "read" THEN r ELSE [r EXCEPT !.tries = @ + 1] :
                        r \in @}]
         /\ Sends({Asking(cl, r) : r \in cl.reqs})

-----------------------------------------------------------------------------
(* The wires, the clock and the user.                                      *)

Quiet == up = <<>> /\ down = <<>>

\* A second in which nothing moves: every requester's timer fires.
SecondDue == Quiet /\ (sv.reqs # {} \/ cl.reqs # {})
Second ==
    /\ SecondDue
    /\ sv' = retries.s
    /\ down' \in Orders(Range(retries.out) \cup {Again(r) : r \in retries.s.reqs})
    /\ ClientRetries
    /\ UNCHANGED <<loss, slow>>

\* The 30 s sweep of the transactions nobody answered and of the replies nobody
\* released: a request the client still repeats is then executed again.
Sweep ==
    /\ Quiet
    /\ \E tid \in sv.pendTx \cup {e.tid : e \in sv.xo} :
          sv' = [sv EXCEPT !.pendTx = @ \ {tid},
                           !.xo = {e \in @ : e.tid # tid}]
    /\ UNCHANGED <<up, down, loss, cl, slow>>

\* A minute: PapServer::tick(), the client's tickle, and the client's own
\* connection timer when its connection is gone.
kMinutes == 2
Abandoned == cl.st = "open" /\ ~(sv.open /\ sv.conn = cl.conn)
tick ==
    IF ~sv.enabled \/ ~sv.open THEN Idle
    ELSE IF sv.silent + 1 > kMinutes
    THEN closeConn([Idle EXCEPT !.s.silent = kMinutes + 1])
    ELSE Emit([Idle EXCEPT !.s.silent = @ + 1], Tickle(sv.conn))
MinuteDue ==
    /\ Quiet /\ sv.reqs = {} /\ \A r \in cl.reqs : r.func = "read"
    /\ sv.open \/ Abandoned
Minute ==
    /\ MinuteDue
    /\ Do(tick)
    /\ cl' = IF Abandoned THEN Away(cl) ELSE cl
    /\ up' = IF cl.st = "open" /\ ~Abandoned THEN <<Tickle(cl.conn)>> ELSE up
    /\ UNCHANGED <<loss, slow>>

Lose ==
    /\ loss < MaxLoss /\ loss' = loss + 1
    /\ \/ up # <<>> /\ up' = Tail(up) /\ down' = down
       \/ down # <<>> /\ down' = Tail(down) /\ up' = up
    /\ UNCHANGED <<sv, cl, slow>>

setEnabled ==
    /\ \/ /\ sv.enabled /\ Upsets < MaxUpsets
          /\ Do(closeConn([Idle EXCEPT !.s.enabled = FALSE, !.s.offs = @ + 1]))
       \/ ~sv.enabled /\ sv' = [sv EXCEPT !.enabled = TRUE] /\ down' = down
    /\ UNCHANGED <<up, loss, cl, slow>>

Init ==
    /\ up = <<>> /\ down = <<>> /\ loss = 0 /\ slow \in BOOLEAN
    /\ sv = [enabled |-> TRUE, offs |-> 0, open |-> FALSE, conn |-> 0, seq |-> 0,
             inFlight |-> FALSE, eofSeen |-> FALSE, job |-> <<>>, answers |-> 0,
             pend |-> NoTxn, silent |-> 0, spool |-> <<>>, nextTid |-> 1,
             reqs |-> {}, xo |-> {}, pendTx |-> {}]
    /\ cl = [st |-> "idle", conn |-> 0, last |-> 0, tid |-> 0, reqs |-> {},
             expect |-> 0, cache |-> NoCache, held |-> NoHeld, done |-> FALSE,
             quits |-> 0]

\* Every job has been tried and everything is at rest.
Finished ==
    /\ Quiet /\ cl.st = "idle" /\ cl.last = Len(Doc) /\ ~sv.open
    /\ sv.reqs = {} /\ UNCHANGED vars

Next ==
    \/ handleAtp \/ ClientReceives \/ ClientOpens \/ ClientThought \/ ClientCloses
    \/ ClientGone \/ Second \/ Sweep \/ Minute \/ Lose \/ setEnabled \/ Finished

Spec == Init /\ [][Next]_vars

\* The wires deliver (weakly fair), the timers fire although packets move in
\* between (strongly fair), and a driver that has read EOF closes.  The guards of
\* the actions stand for ENABLED.
Fairness ==
    /\ []<>(up = <<>>) \/ []<><<handleAtp>>_vars
    /\ []<>(down = <<>>) \/ []<><<ClientReceives>>_vars
    /\ []<>SecondDue => []<><<Second>>_vars
    /\ []<>MinuteDue => []<><<Minute>>_vars
    /\ WF_vars(ClientThought) /\ WF_vars(cl.done /\ ClientCloses)
FairSpec == Spec /\ Fairness

-----------------------------------------------------------------------------
(* Properties.                                                             *)

\* The state of PapServer and of AtalkStack's transactions is well formed: no
\* request is kept past its tries, or once its response is complete.
TypeOK ==
    /\ loss \in 0..MaxLoss /\ slow \in BOOLEAN
    /\ sv.open \in BOOLEAN /\ sv.inFlight \in BOOLEAN /\ sv.eofSeen \in BOOLEAN
    /\ sv.conn \in Conns \cup {0} /\ sv.seq \in Nat /\ sv.silent \in 0..(kMinutes + 1)
    /\ sv.job \in Seq(Data) /\ sv.answers \in Nat
    /\ \A r \in sv.reqs : r.tries \in 1..kTries /\ r.need # {}
    /\ cl.st \in {"idle", "opening", "open", "closing"}
    /\ cl.conn \in Conns \cup {0}

\* What finishJob() spools is what its connection printed, from the start and in
\* order, and all of it when EOF ended the job, whatever the wires lost and
\* however often requests and replies were repeated.
JobsExact ==
    \A i \in DOMAIN sv.spool :
        LET s == sv.spool[i] IN
        /\ Len(s.job) <= Len(Doc[s.conn])
        /\ s.job = SubSeq(Doc[s.conn], 1, Len(s.job))
        /\ s.eof => s.job = Doc[s.conn]

\* A repeated OpenConn, CloseConn or burst never has a job spooled twice.
SpooledOnce ==
    \A i, j \in DOMAIN sv.spool : sv.spool[i].conn = sv.spool[j].conn => i = j

Spooled(c) == \E i \in DOMAIN sv.spool : sv.spool[i].conn = c /\ sv.spool[i].eof

\* A driver that reads EOF on a connection the server still holds has had its
\* whole job spooled: flushClientRead() says EOF after finishJob(), never before.
EofMeansSpooled ==
    cl.done /\ sv.open /\ sv.conn = cl.conn => Spooled(cl.conn)

\* Every read of the driver comes to an end: papHandler() may defer it, but EOF
\* does not forget it, nor the answers that did not fit in an earlier reply.
ReadsEnd ==
    (\E r \in cl.reqs : r.func = "read") ~> (\A r \in cl.reqs : r.func # "read")

\* Nothing but the wires is against this job.
Undisturbed == ~slow /\ Upsets = 0

\* A prompt client whose connection is accepted gets its job spooled, if fewer
\* packets are lost than a request has tries.
JobsArrive ==
    \A c \in Conns :
        (Undisturbed /\ cl.st = "open" /\ cl.conn = c) ~> (Spooled(c) \/ ~Undisturbed)

=============================================================================
