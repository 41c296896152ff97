-------------------------- MODULE JitEngineLemmas --------------------------
(***************************************************************************)
(* The inductive invariant of JitEngine and what each kind of change to    *)
(* the cache, the guard, the data TLB and memory does to it.  Slice and    *)
(* Sub stay opaque: nothing rests on the geometry but StoreAssumption.     *)
(* Then the actions that interpret, dispatch and record, one by one.       *)
(***************************************************************************)
EXTENDS JitEngine, TLAPS

Guard == [hits : [Slices -> {NoHit} \cup Hit], overflow : BOOLEAN,
          mapChanged : BOOLEAN]

(* A block's line ends on its page and is inside its copied words.         *)
LinesCopied ==
    \A k \in Live :
       /\ k[2] + blocks[k].n \in Offsets
       /\ \A o \in Offsets : k[2] <= o /\ o < k[2] + blocks[k].n => o \in Span(blocks[k])
NoEmptySpan == \A k \in Live : Span(blocks[k]) # {}

(* While the generation stands, a proved block is where its pc is mapped.  *)
ProvedPlaced ==
    \A k \in Live : blocks[k].proved /\ ~moved => blocks[k].page = map[k[1]]

(* The guard gives up naming slices only when it names some.               *)
OverflowMeansHit == guard.overflow => hit

(* Where the engine is says what it may rely on.                           *)
Engaged == at \notin {"loop", "interp"}
WindowPlaced == win # NoWindow => win.p = map[win.l]
OverlaySeen ==
    /\ Engaged => enabled /\ ~overlay
    /\ overlay => win = NoWindow
DisabledEmpty == ~enabled => Live = {}
Dispatching ==
    /\ at \in {"armed", "ready"} => pc \in Entries /\ covers(pc)
    /\ at \in {"armed", "ready", "native", "exit"} => ~tripped
    /\ at = "ready" => pc \in Live /\ blocks[pc].proved /\ ~moved
Tracing ==
    /\ at \in {"trace", "traced"} =>
          /\ key \in Entries \ Live /\ ~moved
          /\ trace.n \in 0..maxInstrs /\ stop \in Offsets
          /\ \A o \in key[2]..(stop - 1) : trace.text[o] = mem[map[key[1]]][o]
          /\ win # NoWindow => win.l = key[1]
    /\ at = "trace" => pc[1] = key[1] /\ pc[2] = stop
    /\ at = "traced" => trace.n # 0
Running ==
    /\ at = "native" =>
          /\ key \in Live /\ blocks[key].native /\ blocks[key].proved
          /\ pc[1] = key[1] /\ key[2] <= pc[2] /\ pc[2] < key[2] + blocks[key].n
    /\ at \in {"native", "exit"} => ~moved

CacheInv == /\ LinesCopied /\ NoEmptySpan /\ ProvedPlaced /\ OverflowMeansHit
            /\ CodeCurrent /\ MaskCoversCode /\ MarksExact /\ NoDangling
ControlInv == /\ WindowPlaced /\ OverlaySeen /\ DisabledEmpty
              /\ Dispatching /\ Tracing /\ Running
Inv == TypeOK /\ CacheInv /\ ControlInv

-----------------------------------------------------------------------------
(* Reading the invariant.                                                  *)

(* A cached block is a block, and its words are words of its page.         *)
LEMMA LiveBlock ==
    ASSUME TypeOK, NEW k \in Live
    PROVE  /\ k \in Entries /\ blocks[k] \in Block /\ blocks[k] # NoBlock
           /\ blocks[k].page \in PPages
           /\ Span(blocks[k]) \subseteq Offsets
           /\ \A o \in Span(blocks[k]) : blocks[k].text[o] \in Values
  <1>1. k \in Entries /\ blocks[k] \in Block /\ blocks[k] # NoBlock
    BY Zenon DEF TypeOK, Live
  <1>2. /\ blocks[k].page \in PPages
        /\ blocks[k].text \in UNION {[t -> Values] : t \in SUBSET Offsets}
    BY <1>1, Zenon DEF Block
  <1>3. PICK t \in SUBSET Offsets : blocks[k].text \in [t -> Values]
    BY <1>2, Zenon
  <1> QED BY <1>1, <1>2, <1>3, Zenon DEF Span

(* An offset of a page of RAM is in a slice.                               *)
LEMMA InSlices ==
    ASSUME NEW p \in PPages, NEW o \in Offsets
    PROVE  <<p, Slice(o)>> \in Slices
  BY Zenon DEF Slices

(* A word of a cached block is marked: its slice lists the block, its      *)
(* sub-slice is in the mask and its page is a code page.                   *)
LEMMA WordMarked ==
    ASSUME TypeOK, MarksExact, NEW k \in Live, NEW o \in Span(blocks[k])
    PROVE  /\ <<blocks[k].page, Slice(o)>> \in Slices
           /\ k \in index[<<blocks[k].page, Slice(o)>>]
           /\ Sub(o) \in pageMap[<<blocks[k].page, Slice(o)>>]
           /\ blocks[k].page \in codePage
  <1> DEFINE x == <<blocks[k].page, Slice(o)>>
  <1>1. x \in Slices
    BY LiveBlock, InSlices, Zenon
  <1>2. o \in InSlice(blocks[k], x)
    BY Zenon DEF InSlice
  <1>3. k \in index[x]
    BY <1>1, <1>2, Zenon DEF MarksExact, Touches
  <1>4. Sub(o) \in SubMask(blocks[k], x)
    BY <1>2, Zenon DEF SubMask
  <1>5. Sub(o) \in pageMap[x]
    BY <1>1, <1>4, ZenonT(30) DEF MarksExact
  <1>6. blocks[k].page \in codePage
    BY Zenon DEF MarksExact
  <1> QED BY <1>1, <1>3, <1>5, <1>6, Zenon

(* A marked slice has a word of a cached block in it.                      *)
LEMMA MarkHasWord ==
    ASSUME TypeOK, MarksExact, NEW x \in Slices, pageMap[x] # {}
    PROVE  \E k \in Live : \E o \in Span(blocks[k]) :
              o \in Offsets /\ blocks[k].page = x[1] /\ Slice(o) = x[2]
  <1>1. PICK k \in Live : SubMask(blocks[k], x) # {}
    BY DEF MarksExact
  <1>2. PICK o \in InSlice(blocks[k], x) : TRUE
    BY <1>1, Zenon DEF SubMask
  <1>3. o \in Span(blocks[k]) /\ <<blocks[k].page, Slice(o)>> = x
    BY <1>2, Zenon DEF InSlice
  <1>4. o \in Offsets
    BY <1>3, LiveBlock, Zenon
  <1> QED BY <1>3, <1>4, Zenon

(* A quiet guard dooms nothing.                                            *)
LEMMA QuietGuard ==
    ASSUME OverflowMeansHit, ~tripped, NEW k
    PROVE  ~doomed(k)
  BY Zenon DEF OverflowMeansHit, tripped, hit, doomed, mustFlush, victims

-----------------------------------------------------------------------------
(* The guard: CodeGuard::note.                                             *)

(* What a record of a store into a slice adds and what it keeps.           *)
Keeps(g, h) ==
    /\ h \in Guard
    /\ h.mapChanged = g.mapChanged
    /\ g.overflow => h.overflow
    /\ \A x \in Slices : g.hits[x] # NoHit =>
          /\ h.hits[x] # NoHit
          /\ h.hits[x].lo <= g.hits[x].lo /\ g.hits[x].hi <= h.hits[x].hi
    /\ h.overflow => g.overflow \/ \E x \in Slices : h.hits[x] # NoHit
Named(g, x, s) == \/ g.overflow
                  \/ g.hits[x] # NoHit /\ g.hits[x].lo <= s[1] /\ s[2] <= g.hits[x].hi

(* The recorded range holds what it held and the store.                    *)
LEMMA HullHolds ==
    ASSUME NEW h \in {NoHit} \cup Hit, NEW s \in Stores
    PROVE  /\ hull(h, s) \in Hit /\ hull(h, s) # NoHit
           /\ hull(h, s).lo <= s[1] /\ s[2] <= hull(h, s).hi
           /\ h # NoHit => hull(h, s).lo <= h.lo /\ h.hi <= hull(h, s).hi
  <1>1. s[1] \in Offsets /\ s[2] \in Offsets
    BY EngineAssumption, Zenon
  <1>2. Offsets \subseteq Int
    BY EngineAssumption DEF Offsets
  <1>0. NoHit \notin Hit
    BY DistinctAssumption, Zenon
  <1>a. s[1] \in Int /\ s[2] \in Int
    BY <1>1, <1>2, Zenon
  <1>3. CASE h = NoHit
    <2>1. hull(h, s) = [lo |-> s[1], hi |-> s[2]]
      BY <1>3, Zenon DEF hull
    <2>2. hull(h, s) \in Hit
      BY <1>1, <2>1 DEF Hit
    <2>3. hull(h, s) # NoHit
      BY <1>0, <2>2, Zenon
    <2>4. hull(h, s).lo = s[1] /\ hull(h, s).hi = s[2]
      BY <2>1
    <2>5. hull(h, s).lo <= s[1] /\ s[2] <= hull(h, s).hi
      BY <1>a, <2>4
    <2> QED BY <1>3, <2>2, <2>3, <2>5, Zenon
  <1>4. CASE h # NoHit
    <2>1. h.lo \in Offsets /\ h.hi \in Offsets
      BY <1>4, Zenon DEF Hit
    <2>2. hull(h, s) = [lo |-> IF s[1] < h.lo THEN s[1] ELSE h.lo,
                        hi |-> IF s[2] > h.hi THEN s[2] ELSE h.hi]
      BY <1>4, Zenon DEF hull
    <2>3. hull(h, s) \in Hit
      BY <1>1, <2>1, <2>2 DEF Hit
    <2>4. hull(h, s) # NoHit
      BY <1>0, <2>3, Zenon
    <2>a. h.lo \in Int /\ h.hi \in Int
      BY <1>2, <2>1, Zenon
    <2>5. /\ hull(h, s).lo <= s[1] /\ s[2] <= hull(h, s).hi
          /\ hull(h, s).lo <= h.lo /\ h.hi <= hull(h, s).hi
      BY <1>a, <2>a, <2>2
    <2> QED BY <2>3, <2>4, <2>5, Zenon
  <1> QED BY <1>3, <1>4, Zenon

(* No slice is counted in an empty guard.  (From the definition of         *)
(* Cardinality: the library of facts about it is not needed otherwise.)    *)
LEMMA EmptyCount == Cardinality({}) = 0
  <1> DEFINE Step(f) == [T \in SUBSET {} |-> IF T = {} THEN 0
                                             ELSE 1 + f[T \ {CHOOSE x : x \in T}]]
             count == CHOOSE f : f = Step(f)
             zero == [T \in SUBSET {} |-> 0]
  <1>1. zero = Step(zero)
    BY Zenon
  <1>2. count = Step(count)
    <2> HIDE DEF Step, zero
    <2> QED BY <1>1, Zenon
  <1>3. count[{}] = 0
    <2> HIDE DEF count
    <2>1. {} \in SUBSET {}
      BY Zenon
    <2> QED BY <1>2, <2>1, Zenon
  <1>4. Cardinality({}) = count[{}]
    BY Zenon DEF Cardinality
  <1> QED BY <1>3, <1>4, Zenon

(* A guard with no slice named has room for one.                           *)
LEMMA FullGuardHits ==
    ASSUME NEW g, Cardinality({y \in Slices : g.hits[y] # NoHit}) >= kMaxHits
    PROVE  \E x \in Slices : g.hits[x] # NoHit
  <1>1. kMaxHits \in Nat \ {0}
    BY EngineAssumption, Zenon
  <1>3. {y \in Slices : g.hits[y] # NoHit} # {}
    BY <1>1, EmptyCount
  <1> QED BY <1>3, Zenon

(* recordHit() names the slice or gives up naming, and forgets nothing.    *)
LEMMA RecordHitFacts ==
    ASSUME NEW g \in Guard, NEW x \in Slices, NEW s \in Stores
    PROVE  Keeps(g, recordHit(g, x, s)) /\ Named(recordHit(g, x, s), x, s)
  <1> DEFINE h == recordHit(g, x, s)
  <1> DEFINE many == /\ g.hits[x] = NoHit
                     /\ Cardinality({y \in Slices : g.hits[y] # NoHit}) >= kMaxHits
  <1>0. Offsets \subseteq Int
    BY EngineAssumption DEF Offsets
  <1>a. g.hits \in [Slices -> {NoHit} \cup Hit]
    BY Zenon DEF Guard
  <1>b. \A y \in Slices : g.hits[y] # NoHit => g.hits[y].lo \in Int /\ g.hits[y].hi \in Int
    BY <1>0, <1>a, Zenon DEF Hit
  <1>1. CASE many
    <2>1. h = [g EXCEPT !.overflow = TRUE]
      BY <1>1, Zenon DEF recordHit
    <2>2. h \in Guard /\ h.hits = g.hits /\ h.mapChanged = g.mapChanged /\ h.overflow
      BY <2>1, Zenon DEF Guard
    <2>3. \E y \in Slices : g.hits[y] # NoHit
      BY <1>1, FullGuardHits, Zenon
    <2> QED BY <1>b, <2>2, <2>3 DEF Keeps, Named
  <1>2. CASE ~many
    <2>1. h = [g EXCEPT !.hits[x] = hull(g.hits[x], s)]
      BY <1>2, Zenon DEF recordHit
    <2>2. g.hits[x] \in {NoHit} \cup Hit
      BY <1>a, Zenon
    <2>3. hull(g.hits[x], s) \in Hit /\ hull(g.hits[x], s) # NoHit
      BY <2>2, HullHolds, Zenon
    <2>4. /\ h \in Guard /\ h.mapChanged = g.mapChanged /\ h.overflow = g.overflow
          /\ h.hits = [g.hits EXCEPT ![x] = hull(g.hits[x], s)]
      BY <2>1, <2>3, Zenon DEF Guard
    <2>5. \A y \in Slices : h.hits[y] = IF y = x THEN hull(g.hits[x], s) ELSE g.hits[y]
      BY <1>a, <2>4, Zenon
    <2>6. Named(h, x, s)
      BY <2>2, <2>5, HullHolds, Zenon DEF Named
    <2>7. Keeps(g, h)
      BY <1>b, <2>2, <2>3, <2>4, <2>5, HullHolds DEF Keeps
    <2> QED BY <2>6, <2>7, Zenon
  <1> QED BY <1>1, <1>2, Zenon

(* Keeping is transitive.                                                  *)
LEMMA KeepsTrans ==
    ASSUME NEW f \in Guard, NEW g, NEW h, Keeps(f, g), Keeps(g, h)
    PROVE  Keeps(f, h)
  <1>0. Offsets \subseteq Int
    BY EngineAssumption DEF Offsets
  <1>1. g \in Guard /\ h \in Guard
    BY Zenon DEF Keeps
  <1>2. \A x \in Slices : \A e \in {f, g, h} : e.hits[x] # NoHit =>
            e.hits[x].lo \in Int /\ e.hits[x].hi \in Int
    BY <1>0, <1>1, Zenon DEF Guard, Hit
  <1> QED BY <1>1, <1>2 DEF Keeps

(* ... and reflexive.                                                      *)
LEMMA KeepsSelf ==
    ASSUME NEW g \in Guard PROVE Keeps(g, g)
  <1>0. Offsets \subseteq Int
    BY EngineAssumption DEF Offsets
  <1>2. \A x \in Slices : g.hits[x] # NoHit =>
            g.hits[x].lo \in Int /\ g.hits[x].hi \in Int
    BY <1>0, Zenon DEF Guard, Hit
  <1> QED BY <1>2 DEF Keeps

(* A named range stays named.                                              *)
LEMMA NamedKept ==
    ASSUME NEW g \in Guard, NEW h, Keeps(g, h), NEW x \in Slices, NEW s \in Stores,
           Named(g, x, s)
    PROVE  Named(h, x, s)
  <1>0. Offsets \subseteq Int
    BY EngineAssumption DEF Offsets
  <1>1. s[1] \in Int /\ s[2] \in Int
    BY <1>0, EngineAssumption, Zenon
  <1>2. \A e \in {g, h} : e.hits[x] # NoHit => e.hits[x].lo \in Int /\ e.hits[x].hi \in Int
    BY <1>0, Zenon DEF Keeps, Guard, Hit
  <1> QED BY <1>1, <1>2 DEF Keeps, Named

(* A store that hits the code of a slice is named.                         *)
LEMMA NoteSliceFacts ==
    ASSUME NEW g \in Guard, NEW x \in Slices, NEW s \in Stores
    PROVE  /\ Keeps(g, noteSlice(g, x, s))
           /\ hitsCode(x, s) => Named(noteSlice(g, x, s), x, s)
  <1>1. CASE hitsCode(x, s)
    BY <1>1, RecordHitFacts, Zenon DEF noteSlice
  <1>2. CASE ~hitsCode(x, s)
    BY <1>2, KeepsSelf, Zenon DEF noteSlice
  <1> QED BY <1>1, <1>2, Zenon

(* note keeps what the guard knew; a store over a marked word is named.    *)
LEMMA NoteFacts ==
    ASSUME guard \in Guard, NEW p \in PPages, NEW s \in Stores
    PROVE  /\ Keeps(guard, note(p, s))
           /\ \A o \in Words(s) : Sub(o) \in pageMap[<<p, Slice(o)>>] =>
                 Named(note(p, s), <<p, Slice(o)>>, s)
  <1> DEFINE first == <<p, Slice(s[1])>>
             last == <<p, Slice(s[2])>>
             g == noteSlice(guard, first, s)
             h == noteSlice(g, last, s)
  <1>1. first \in Slices /\ last \in Slices
    <2>1. s[1] \in Offsets /\ s[2] \in Offsets
      BY EngineAssumption, Zenon
    <2> QED BY <2>1, InSlices, Zenon
  <1>2. note(p, s) = IF last = first THEN g ELSE h
    BY Zenon DEF note
  <1>3. Keeps(guard, g) /\ (hitsCode(first, s) => Named(g, first, s))
    BY <1>1, NoteSliceFacts, Zenon
  <1>4. g \in Guard
    BY <1>3, Zenon DEF Keeps
  <1>5. Keeps(g, h) /\ (hitsCode(last, s) => Named(h, last, s))
    BY <1>1, <1>4, NoteSliceFacts, Zenon
  <1>6. hitsCode(first, s) => Named(h, first, s)
    BY <1>1, <1>3, <1>4, <1>5, NamedKept
  <1>7. Keeps(guard, note(p, s))
    BY <1>2, <1>3, <1>5, KeepsTrans, Zenon
  <1>8. ASSUME NEW o \in Words(s), Sub(o) \in pageMap[<<p, Slice(o)>>]
        PROVE  Named(note(p, s), <<p, Slice(o)>>, s)
    <2>1. Slice(o) = Slice(s[1]) \/ Slice(o) = Slice(s[2])
      BY StoreAssumption, Zenon
    <2>2. hitsCode(<<p, Slice(o)>>, s)
      BY <1>8, Zenon DEF hitsCode
    <2> QED BY <1>2, <1>3, <1>5, <1>6, <2>1, <2>2, Zenon
  <1> QED BY <1>7, <1>8, Zenon

-----------------------------------------------------------------------------
(* Blocks leave the cache or change their standing, never their words.     *)

Retains(gone) ==
    /\ blocks' \in [Entries -> {NoBlock} \cup Block]
    /\ \A k \in Entries :
          IF k \in Live \ gone
          THEN /\ blocks'[k] # NoBlock
               /\ blocks'[k].page = blocks[k].page
               /\ blocks'[k].text = blocks[k].text
               /\ blocks'[k].n = blocks[k].n
          ELSE blocks'[k] = NoBlock

(* The blocks that stay, stay as they were.                                *)
LEMMA RetainsLive ==
    ASSUME TypeOK, NEW gone, Retains(gone)
    PROVE  /\ Live' = Live \ gone
           /\ \A k \in Live' : /\ blocks'[k].page = blocks[k].page
                               /\ blocks'[k].text = blocks[k].text
                               /\ blocks'[k].n = blocks[k].n
                               /\ Span(blocks'[k]) = Span(blocks[k])
                               /\ \A x : /\ InSlice(blocks'[k], x) = InSlice(blocks[k], x)
                                         /\ Touches(blocks'[k], x) = Touches(blocks[k], x)
                                         /\ SubMask(blocks'[k], x) = SubMask(blocks[k], x)
  <1>1. Live' = Live \ gone
    BY Zenon DEF Live, Retains
  <1>2. ASSUME NEW k \in Live'
        PROVE  /\ blocks'[k].page = blocks[k].page
               /\ blocks'[k].text = blocks[k].text
               /\ blocks'[k].n = blocks[k].n
    BY <1>1, <1>2, Zenon DEF Live, Retains
  <1>3. ASSUME NEW k \in Live', NEW x
        PROVE  /\ Span(blocks'[k]) = Span(blocks[k])
               /\ InSlice(blocks'[k], x) = InSlice(blocks[k], x)
    BY <1>2, Zenon DEF Span, InSlice
  <1>4. ASSUME NEW k \in Live', NEW x
        PROVE  /\ Touches(blocks'[k], x) = Touches(blocks[k], x)
               /\ SubMask(blocks'[k], x) = SubMask(blocks[k], x)
    BY <1>3, Zenon DEF Touches, SubMask
  <1> QED BY <1>1, <1>2, <1>3, <1>4, Zenon

(* ... and keep their shape.                                               *)
LEMMA RetainsShape ==
    ASSUME TypeOK, LinesCopied, NoEmptySpan, NEW gone, Retains(gone)
    PROVE  LinesCopied' /\ NoEmptySpan'
  BY RetainsLive, Zenon DEF LinesCopied, NoEmptySpan

(* unmarkPages takes away exactly the marks nobody else needs.             *)
LEMMA EraseMarks ==
    ASSUME TypeOK, MarksExact, NoEmptySpan, NEW gone \in SUBSET Live,
           Retains(gone), unmarkPages(gone)
    PROVE  MarksExact'
  <1>1. ASSUME NEW x \in Slices
        PROVE  index'[x] = {k \in Live' : Touches(blocks'[k], x)}
    <2>1. index'[x] = index[x] \ gone
      BY Zenon DEF unmarkPages
    <2>2. index[x] = {k \in Live : Touches(blocks[k], x)}
      BY Zenon DEF MarksExact
    <2> QED BY <2>1, <2>2, RetainsLive
  <1>2. ASSUME NEW x \in Slices
        PROVE  pageMap'[x] = UNION {SubMask(blocks'[k], x) : k \in Live'}
    <2>1. pageMap'[x] = recomputed(gone)[x]
      BY Zenon DEF unmarkPages
    <2>2. index[x] = {k \in Live : Touches(blocks[k], x)}
      BY Zenon DEF MarksExact
    <2>3. pageMap[x] = UNION {SubMask(blocks[k], x) : k \in Live}
      BY Zenon DEF MarksExact
    <2>4. \A k : ~Touches(blocks[k], x) => SubMask(blocks[k], x) = {}
      BY Zenon DEF Touches, SubMask
    <2>5. UNION {SubMask(blocks'[k], x) : k \in Live'}
             = UNION {SubMask(blocks[k], x) : k \in Live \ gone}
      BY RetainsLive
    <2>6. CASE \E k \in gone : Touches(blocks[k], x)
      <3>1. recomputed(gone)[x]
               = UNION {SubMask(blocks[k], x) : k \in (index[x] \ gone) \cap Live}
        BY <2>6, Zenon DEF recomputed
      <3>2. UNION {SubMask(blocks[k], x) : k \in (index[x] \ gone) \cap Live}
               = UNION {SubMask(blocks[k], x) : k \in Live \ gone}
        BY <2>2, <2>4, Zenon
      <3> QED BY <2>1, <2>5, <3>1, <3>2, Zenon
    <2>7. CASE ~\E k \in gone : Touches(blocks[k], x)
      <3>1. recomputed(gone)[x] = pageMap[x]
        BY <2>7, Zenon DEF recomputed
      <3>2. UNION {SubMask(blocks[k], x) : k \in Live}
               = UNION {SubMask(blocks[k], x) : k \in Live \ gone}
        BY <2>4, <2>7, Zenon
      <3> QED BY <2>1, <2>3, <2>5, <3>1, <3>2, Zenon
    <2> QED BY <2>6, <2>7, Zenon
  <1>3. codePage' = {blocks'[k].page : k \in Live'}
    <2>0. \A x \in Slices : recomputed(gone)[x] = pageMap'[x]
      BY Zenon DEF unmarkPages
    <2>1. ASSUME NEW k \in Live'
          PROVE  blocks'[k].page \in codePage'
      <3>1. k \in Live \ gone /\ blocks'[k].page = blocks[k].page
        BY RetainsLive, Zenon
      <3>2. PICK o \in Span(blocks[k]) : TRUE
        BY <3>1, Zenon DEF NoEmptySpan
      <3> DEFINE x == <<blocks[k].page, Slice(o)>>
      <3>3. x \in Slices /\ blocks[k].page \in codePage
        BY <3>1, <3>2, WordMarked, Zenon
      <3>4. Sub(o) \in SubMask(blocks[k], x)
        BY <3>2, Zenon DEF SubMask, InSlice
      <3>5. SubMask(blocks'[k], x) = SubMask(blocks[k], x)
        BY RetainsLive, Zenon
      <3>6. pageMap'[x] # {}
        BY <1>2, <3>3, <3>4, <3>5
      <3>7. blocks[k].page \notin emptied(gone)
        BY <2>0, <3>3, <3>6, Zenon DEF emptied
      <3> QED BY <3>1, <3>3, <3>7, Zenon DEF unmarkPages
    <2>2. ASSUME NEW p \in codePage'
          PROVE  \E k \in Live' : blocks'[k].page = p
      <3>1. p \in codePage /\ p \notin emptied(gone)
        BY Zenon DEF unmarkPages
      <3>2. PICK k \in Live : blocks[k].page = p
        BY <3>1, Zenon DEF MarksExact
      <3>3. CASE k \notin gone
        BY <3>2, <3>3, RetainsLive, Zenon
      <3>4. CASE k \in gone
        <4>1. PICK o \in Span(blocks[k]) : TRUE
          BY Zenon DEF NoEmptySpan
        <4> DEFINE x == <<p, Slice(o)>>
        <4>2. x \in Slices
          BY <3>2, <4>1, WordMarked, Zenon
        <4>3. Touches(blocks[k], x)
          BY <3>2, <4>1, Zenon DEF Touches, InSlice
        <4>4. PICK y \in Slices : y[1] = p /\ recomputed(gone)[y] # {}
          BY <3>1, <3>4, <4>2, <4>3, Zenon DEF emptied
        <4>5. pageMap'[y] # {}
          BY <2>0, <4>4, Zenon
        <4>6. PICK j \in Live' : SubMask(blocks'[j], y) # {}
          BY <1>2, <4>5
        <4>7. blocks'[j].page = y[1]
          BY <4>6 DEF SubMask, InSlice
        <4> QED BY <4>4, <4>7, Zenon
      <3> QED BY <3>3, <3>4, Zenon
    <2> QED BY <2>1, <2>2, Zenon
  <1> QED BY <1>1, <1>2, <1>3, Zenon DEF MarksExact

(* A block that changes only its standing leaves the marks exact.          *)
LEMMA SameMarks ==
    ASSUME TypeOK, MarksExact, Retains({}), UNCHANGED <<index, pageMap, codePage>>
    PROVE  MarksExact'
  <1>0. Live' = Live \ {}
    BY RetainsLive, Zenon
  <1>1. Live' = Live
    BY <1>0, Zenon
  <1>2. \A k \in Live : /\ blocks'[k].page = blocks[k].page
                        /\ \A x \in Slices : Touches(blocks'[k], x) = Touches(blocks[k], x)
                        /\ \A x \in Slices : SubMask(blocks'[k], x) = SubMask(blocks[k], x)
    BY <1>1, RetainsLive, Zenon
  <1>3. ASSUME NEW x \in Slices
        PROVE  {k \in Live' : Touches(blocks'[k], x)} = {k \in Live : Touches(blocks[k], x)}
    BY <1>1, <1>2, Zenon
  <1>4. ASSUME NEW x \in Slices
        PROVE  UNION {SubMask(blocks'[k], x) : k \in Live'}
                  = UNION {SubMask(blocks[k], x) : k \in Live}
    <2>1. {SubMask(blocks'[k], x) : k \in Live'} = {SubMask(blocks[k], x) : k \in Live}
      BY <1>1, <1>2, Zenon
    <2> QED BY <2>1, Zenon
  <1>5. {blocks'[k].page : k \in Live'} = {blocks[k].page : k \in Live}
    BY <1>1, <1>2, Zenon
  <1> QED BY <1>3, <1>4, <1>5, Zenon DEF MarksExact

(* The data TLB stays safe when blocks leave.                              *)
LEMMA RetainsMask ==
    ASSUME TypeOK, MaskCoversCode, NEW gone, Retains(gone),
           dtlb' \in {dtlb, EmptyDtlb}, UNCHANGED map
    PROVE  MaskCoversCode'
  <1>1. CASE dtlb' = EmptyDtlb
    BY <1>1, Zenon DEF MaskCoversCode, EmptyDtlb
  <1>2. CASE dtlb' = dtlb
    BY <1>2, RetainsLive, Zenon DEF MaskCoversCode
  <1> QED BY <1>1, <1>2, Zenon

(* What stays in the cache is as current, and as doomed, as it was.        *)
LEMMA RetainsCurrent ==
    ASSUME TypeOK, CodeCurrent, NEW gone, Retains(gone),
           \A x \in Slices : index[x] \ gone \subseteq index'[x],
           UNCHANGED <<mem, guard>>
    PROVE  CodeCurrent'
  <1> SUFFICES ASSUME NEW k \in Live', ~doomed(k)'
               PROVE  \A o \in Span(blocks'[k]) :
                          blocks'[k].text[o] = mem'[blocks'[k].page][o]
    BY Zenon DEF CodeCurrent
  <1>1. k \in Live /\ k \notin gone
    BY RetainsLive, Zenon
  <1>2. ~doomed(k)
    <2>1. ~mustFlush
      BY Zenon DEF doomed, mustFlush
    <2>2. ASSUME NEW x \in Slices, guard.hits[x] # NoHit, k \in index[x],
                 overlaps(blocks[k], guard.hits[x])
          PROVE  FALSE
      <3>1. k \in index'[x]
        BY <1>1, <2>2, Zenon
      <3>2. overlaps(blocks'[k], guard'.hits[x])
        BY <2>2, RetainsLive, Zenon DEF overlaps
      <3>3. k \in victims'
        BY <2>2, <3>1, <3>2, Zenon DEF victims
      <3> QED BY <3>3, Zenon DEF doomed
    <2>3. k \notin victims
      BY <2>2, Zenon DEF victims
    <2> QED BY <2>1, <2>3, Zenon DEF doomed
  <1>3. \A o \in Span(blocks[k]) : blocks[k].text[o] = mem[blocks[k].page][o]
    BY <1>1, <1>2, Zenon DEF CodeCurrent
  <1> QED BY <1>3, RetainsLive, Zenon

(* A service of the guard leaves nothing doomed and nothing stale.         *)
LEMMA ServicedCurrent ==
    ASSUME TypeOK, CodeCurrent, ~mustFlush, Retains(victims), UNCHANGED mem
    PROVE  CodeCurrent'
  <1> SUFFICES ASSUME NEW k \in Live'
               PROVE  \A o \in Span(blocks'[k]) :
                          blocks'[k].text[o] = mem'[blocks'[k].page][o]
    BY Zenon DEF CodeCurrent
  <1>1. k \in Live /\ k \notin victims
    BY RetainsLive, Zenon
  <1>2. \A o \in Span(blocks[k]) : blocks[k].text[o] = mem[blocks[k].page][o]
    BY <1>1, Zenon DEF CodeCurrent, doomed
  <1> QED BY <1>2, RetainsLive, Zenon

-----------------------------------------------------------------------------
(* A store.                                                                *)

(* Outside its words a store changes nothing.                              *)
LEMMA WrittenElsewhere ==
    ASSUME TypeOK, NEW p \in PPages, NEW s, NEW v \in Values, mem' = written(p, s, v)
    PROVE  /\ mem' \in [PPages -> [Offsets -> Values]]
           /\ \A q \in PPages, o \in Offsets :
                 q # p \/ o \notin Words(s) => mem'[q][o] = mem[q][o]
  <1>1. mem \in [PPages -> [Offsets -> Values]]
    BY Zenon DEF TypeOK
  <1>2. mem' = [mem EXCEPT ![p] = [o \in Offsets |-> IF o \in Words(s) THEN v
                                                    ELSE mem[p][o]]]
    BY <1>1, Zenon DEF written
  <1>3. [o \in Offsets |-> IF o \in Words(s) THEN v ELSE mem[p][o]] \in [Offsets -> Values]
    BY <1>1, Zenon
  <1> QED BY <1>1, <1>2, <1>3

(* The blocks stay current under a store the guard has taken note of.      *)
LEMMA MappedCurrent ==
    ASSUME TypeOK, CodeCurrent, MarksExact, NEW l \in LPages, NEW s \in Stores,
           NEW v \in Values, NEW t, storeMapped(t, l, s, v), UNCHANGED <<blocks, index>>
    PROVE  CodeCurrent'
  <1> DEFINE p == map[l]
  <1>0. p \in PPages /\ guard \in Guard
    BY Zenon DEF TypeOK, Guard
  <1>1. /\ Keeps(guard, guard')
        /\ \A o \in Words(s) : Sub(o) \in pageMap[<<p, Slice(o)>>] =>
               Named(guard', <<p, Slice(o)>>, s)
    BY <1>0, NoteFacts, Zenon DEF storeMapped
  <1>2. \A q \in PPages, o \in Offsets :
           q # p \/ o \notin Words(s) => mem'[q][o] = mem[q][o]
    <2>1. mem' = written(p, s, v)
      BY Zenon DEF storeMapped
    <2> HIDE DEF p
    <2> QED BY <1>0, <2>1, WrittenElsewhere, Zenon
  <1> SUFFICES ASSUME NEW k \in Live, ~doomed(k)', NEW o \in Span(blocks[k])
               PROVE  blocks[k].text[o] = mem'[blocks[k].page][o]
    BY Zenon DEF CodeCurrent, Live
  <1>3. blocks[k].page \in PPages /\ Span(blocks[k]) \subseteq Offsets
    BY LiveBlock, Zenon
  <1>4. Offsets \subseteq Int
    BY EngineAssumption DEF Offsets
  <1>5. guard' \in Guard
    BY <1>1, Zenon DEF Keeps
  <1>6. ~mustFlush' /\ k \notin victims'
    BY Zenon DEF doomed
  <1>7. ~doomed(k)
    <2>1. ~mustFlush
      BY <1>1, <1>6, Zenon DEF mustFlush, Keeps
    <2>2. ASSUME NEW x \in Slices, guard.hits[x] # NoHit, k \in index[x],
                 overlaps(blocks[k], guard.hits[x])
          PROVE  FALSE
      <3>1. /\ guard'.hits[x] # NoHit
            /\ guard'.hits[x].lo <= guard.hits[x].lo
            /\ guard.hits[x].hi <= guard'.hits[x].hi
        BY <1>1, <2>2, Zenon DEF Keeps
      <3>2. /\ guard.hits[x].lo \in Int /\ guard.hits[x].hi \in Int
            /\ guard'.hits[x].lo \in Int /\ guard'.hits[x].hi \in Int
        BY <1>0, <1>4, <1>5, <2>2, <3>1, Zenon DEF Guard, Hit
      <3>3. overlaps(blocks[k], guard'.hits[x])
        <4>1. PICK w \in Span(blocks[k]) : guard.hits[x].lo <= w /\ w <= guard.hits[x].hi
          BY <2>2, Zenon DEF overlaps
        <4>2. w \in Int
          BY <1>3, <1>4, <4>1, Zenon
        <4>3. guard'.hits[x].lo <= w /\ w <= guard'.hits[x].hi
          BY <3>1, <3>2, <4>1, <4>2
        <4> QED BY <4>3, Zenon DEF overlaps
      <3>4. k \in victims'
        BY <2>2, <3>1, <3>3, Zenon DEF victims, Live
      <3> QED BY <1>6, <3>4, Zenon
    <2>3. k \notin victims
      BY <2>2, Zenon DEF victims
    <2> QED BY <2>1, <2>3, Zenon DEF doomed
  <1>8. blocks[k].text[o] = mem[blocks[k].page][o]
    BY <1>7, Zenon DEF CodeCurrent
  <1>9. ASSUME blocks[k].page = p, o \in Words(s)
        PROVE  FALSE
    <2> DEFINE x == <<p, Slice(o)>>
    <2>1. x \in Slices /\ k \in index[x] /\ Sub(o) \in pageMap[x]
      BY <1>9, WordMarked, Zenon
    <2>2. Named(guard', x, s)
      BY <1>1, <1>9, <2>1, Zenon
    <2>3. ~guard'.overflow
      BY <1>6, Zenon DEF mustFlush
    <2>4. /\ guard'.hits[x] # NoHit
          /\ guard'.hits[x].lo <= s[1] /\ s[2] <= guard'.hits[x].hi
      BY <2>2, <2>3, Zenon DEF Named
    <2>5. guard'.hits[x].lo \in Int /\ guard'.hits[x].hi \in Int
      BY <1>4, <1>5, <2>1, <2>4, Zenon DEF Guard, Hit
    <2>6. s[1] \in Int /\ s[2] \in Int /\ o \in Int
      BY <1>3, <1>4, EngineAssumption, Zenon
    <2>a. s[1] <= o /\ o <= s[2]
      BY <1>9, <2>6 DEF Words
    <2>7. guard'.hits[x].lo <= o /\ o <= guard'.hits[x].hi
      <3> HIDE DEF x
      <3> QED BY <2>4, <2>5, <2>6, <2>a
    <2>8. overlaps(blocks[k], guard'.hits[x])
      BY <2>7, Zenon DEF overlaps
    <2>9. k \in victims'
      BY <2>1, <2>4, <2>8, Zenon DEF victims, Live
    <2> QED BY <1>6, <2>9, Zenon
  <1> QED BY <1>2, <1>3, <1>8, <1>9, Zenon

(* A table that is safe to store through.                                  *)
Safe(t) ==
    /\ t \in [LPages -> {NoEntry, Refused} \cup Entry]
    /\ \A l \in LPages : t[l] \in {NoEntry, Refused} \/
          /\ t[l].page = map[l]
          /\ \A k \in Live, o \in Offsets :
                o \in Span(blocks[k]) /\ blocks[k].page = map[l] =>
                   maskAware /\ Slice(o) \in t[l].mask

(* An eviction only takes entries away.                                    *)
LEMMA EvictedSafe ==
    ASSUME TypeOK, MaskCoversCode, NEW t \in evicted
    PROVE  Safe(t)
  <1>0. dtlb \in [LPages -> {NoEntry, Refused} \cup Entry]
    BY Zenon DEF TypeOK
  <1>1. PICK gone \in SUBSET LPages :
           t = [l \in LPages |-> IF l \in gone THEN NoEntry ELSE dtlb[l]]
    BY Zenon DEF evicted
  <1>2. \A l \in LPages : t[l] = NoEntry \/ t[l] = dtlb[l]
    BY <1>1, Zenon
  <1>3. t \in [LPages -> {NoEntry, Refused} \cup Entry]
    BY <1>0, <1>1, Zenon
  <1> QED BY <1>2, <1>3, Zenon DEF Safe, MaskCoversCode

(* A safe table may become the data TLB.                                   *)
LEMMA TableSafe ==
    ASSUME NEW t, Safe(t), dtlb' = t, UNCHANGED <<map, blocks>>
    PROVE  /\ MaskCoversCode'
           /\ dtlb' \in [LPages -> {NoEntry, Refused} \cup Entry]
  BY Zenon DEF Safe, MaskCoversCode, Live

(* What fillDtlb enters, or what is there, is safe to store through.       *)
LEMMA EntrySafe ==
    ASSUME TypeOK, MarksExact, NEW t, Safe(t), NEW l \in LPages
    PROVE  /\ entry(t, l) = Refused \/ entry(t, l) \in Entry
           /\ entry(t, l) # Refused =>
                 /\ entry(t, l).page = map[l]
                 /\ \A k \in Live, o \in Offsets :
                       o \in Span(blocks[k]) /\ blocks[k].page = map[l] =>
                          maskAware /\ Slice(o) \in entry(t, l).mask
  <1>0. map[l] \in PPages /\ t[l] \in {NoEntry, Refused} \cup Entry
    BY Zenon DEF TypeOK, Safe
  <1>1. CASE t[l] # NoEntry
    <2>1. entry(t, l) = t[l]
      BY <1>1, Zenon DEF entry
    <2> QED BY <1>0, <1>1, <2>1, Zenon DEF Safe
  <1>2. CASE t[l] = NoEntry
    <2> DEFINE m == sliceMask(map[l])
    <2>1. entry(t, l) = IF m # {} /\ ~maskAware THEN Refused ELSE [page |-> map[l], mask |-> m]
      BY <1>2, Zenon DEF entry, fillDtlb
    <2>2. m \subseteq {Slice(o) : o \in Offsets}
      BY Zenon DEF sliceMask, Slices
    <2>3. ASSUME NEW k \in Live, NEW o \in Offsets, o \in Span(blocks[k]),
                 blocks[k].page = map[l]
          PROVE  Slice(o) \in m
      <3> DEFINE x == <<map[l], Slice(o)>>
      <3>1. x \in Slices /\ pageMap[x] # {} /\ map[l] \in codePage
        BY <2>3, WordMarked, Zenon
      <3> QED BY <3>1 DEF sliceMask
    <2> HIDE DEF m
    <2>4. [page |-> map[l], mask |-> m] \in Entry
      BY <1>0, <2>2, Zenon DEF Entry
    <2>5. CASE m # {} /\ ~maskAware
      BY <2>1, <2>5, Zenon
    <2>6. CASE ~(m # {} /\ ~maskAware)
      <3>1. entry(t, l) = [page |-> map[l], mask |-> m]
        BY <2>1, <2>6, Zenon
      <3>2. entry(t, l) \in Entry /\ entry(t, l).page = map[l] /\ entry(t, l).mask = m
        BY <2>4, <3>1
      <3>3. maskAware \in BOOLEAN
        BY EngineAssumption, Zenon
      <3>4. m = {} \/ maskAware
        BY <2>6, <3>3, Zenon
      <3> QED BY <2>3, <3>2, <3>4, Zenon
    <2> QED BY <2>5, <2>6, Zenon
  <1> QED BY <1>1, <1>2, Zenon

(* Entering it keeps the table safe.                                       *)
LEMMA FillSafe ==
    ASSUME TypeOK, MarksExact, NEW t, Safe(t), NEW l \in LPages
    PROVE  Safe(filled(t, l))
  <1>0. t \in [LPages -> {NoEntry, Refused} \cup Entry]
    BY Zenon DEF Safe
  <1> DEFINE e == entry(t, l)
             f == filled(t, l)
  <1>1. /\ e = Refused \/ e \in Entry
        /\ e # Refused =>
                 /\ e.page = map[l]
                 /\ \A k \in Live, o \in Offsets :
                       o \in Span(blocks[k]) /\ blocks[k].page = map[l] =>
                          maskAware /\ Slice(o) \in e.mask
    BY EntrySafe, Zenon
  <1>2. f = [t EXCEPT ![l] = e]
    BY Zenon DEF filled
  <1> HIDE DEF e, f
  <1>3. \A j \in LPages : f[j] = IF j = l THEN e ELSE t[j]
    BY <1>0, <1>2, Zenon
  <1>4. f \in [LPages -> {NoEntry, Refused} \cup Entry]
    BY <1>0, <1>1, <1>2, Zenon
  <1>5. Safe(f)
    BY <1>1, <1>3, <1>4 DEF Safe
  <1> QED BY <1>5, Zenon DEF f

(* A store through the data TLB lands where the map says, and touches no   *)
(* word of a cached block: the guard has nothing to be told.               *)
LEMMA DirectMisses ==
    ASSUME TypeOK, MarksExact, NEW t, Safe(t), NEW l \in LPages, NEW s \in Stores,
           NEW native \in BOOLEAN, direct(entry(t, l), s, native)
    PROVE  /\ entry(t, l).page = map[l]
           /\ \A k \in Live : \A o \in Span(blocks[k]) :
                 blocks[k].page = map[l] => o \notin Words(s)
  <1>1. entry(t, l) # Refused
    BY Zenon DEF direct
  <1>2. entry(t, l).page = map[l]
    BY <1>1, EntrySafe, Zenon
  <1>3. ASSUME NEW k \in Live, NEW o \in Span(blocks[k]), blocks[k].page = map[l],
               o \in Words(s)
        PROVE  FALSE
    <2>1. o \in Offsets
      BY LiveBlock, Zenon
    <2>2. Slice(o) \in entry(t, l).mask
      BY <1>1, <1>3, <2>1, EntrySafe, Zenon
    <2>3. Slice(o) \in {Slice(s[1]), Slice(s[2])}
      BY <1>3, StoreAssumption, Zenon
    <2> QED BY <2>2, <2>3, Zenon DEF direct
  <1> QED BY <1>2, <1>3, Zenon

(* A store through the data TLB alters no cached word.                     *)
LEMMA DirectCurrent ==
    ASSUME TypeOK, MarksExact, CodeCurrent, NEW t, Safe(t), NEW l \in LPages,
           NEW s \in Stores, NEW v \in Values, NEW native \in BOOLEAN,
           storeDirect(t, l, s, v, native), UNCHANGED <<blocks, index>>
    PROVE  CodeCurrent' /\ mem' = written(map[l], s, v)
  <1>1. direct(entry(t, l), s, native) /\ guard' = guard
    BY Zenon DEF storeDirect
  <1>2. /\ entry(t, l).page = map[l]
        /\ \A k \in Live : \A o \in Span(blocks[k]) :
              blocks[k].page = map[l] => o \notin Words(s)
    BY <1>1, DirectMisses, Zenon
  <1>3. mem' = written(map[l], s, v)
    BY <1>2, Zenon DEF storeDirect
  <1>4. map[l] \in PPages
    BY Zenon DEF TypeOK
  <1>5. \A q \in PPages, o \in Offsets :
           q # map[l] \/ o \notin Words(s) => mem'[q][o] = mem[q][o]
    BY <1>3, <1>4, WrittenElsewhere, Zenon
  <1> SUFFICES ASSUME NEW k \in Live, ~doomed(k)', NEW o \in Span(blocks[k])
               PROVE  blocks[k].text[o] = mem'[blocks[k].page][o]
    BY <1>3, Zenon DEF CodeCurrent, Live
  <1>6. ~doomed(k)
    BY <1>1, Zenon DEF doomed, mustFlush, victims, Live
  <1>7. blocks[k].text[o] = mem[blocks[k].page][o]
    BY <1>6, Zenon DEF CodeCurrent
  <1>8. blocks[k].page \in PPages /\ o \in Offsets
    BY LiveBlock, Zenon
  <1> QED BY <1>2, <1>5, <1>7, <1>8, Zenon

(* What every store keeps.                                                 *)
StoreKeeps ==
    /\ mem' \in [PPages -> [Offsets -> Values]]
    /\ dtlb' \in [LPages -> {NoEntry, Refused} \cup Entry]
    /\ guard' \in Guard /\ guard'.mapChanged = guard.mapChanged
    /\ CodeCurrent' /\ MaskCoversCode' /\ OverflowMeansHit'

(* A guard that has given up naming still names a slice.                   *)
LEMMA OverflowKept ==
    ASSUME OverflowMeansHit, Keeps(guard, guard')
    PROVE  OverflowMeansHit'
  BY Zenon DEF OverflowMeansHit, Keeps, hit

(* A store through the data TLB.                                           *)
LEMMA DirectKeeps ==
    ASSUME TypeOK, CacheInv, NEW t \in evicted, NEW l \in LPages, NEW s \in Stores,
           NEW v \in Values, NEW native \in BOOLEAN, storeDirect(t, l, s, v, native),
           UNCHANGED <<map, blocks, index>>
    PROVE  StoreKeeps /\ mem' = written(map[l], s, v) /\ guard' = guard
  <1>0. MarksExact /\ MaskCoversCode /\ CodeCurrent /\ OverflowMeansHit
    BY Zenon DEF CacheInv
  <1>a. Safe(t)
    BY <1>0, EvictedSafe, Zenon
  <1>1. CodeCurrent' /\ mem' = written(map[l], s, v)
    BY <1>0, <1>a, DirectCurrent, Zenon
  <1>2. map[l] \in PPages
    BY Zenon DEF TypeOK
  <1>3. mem' \in [PPages -> [Offsets -> Values]]
    BY <1>1, <1>2, WrittenElsewhere, Zenon
  <1>4. dtlb' = filled(t, l) /\ guard' = guard
    BY Zenon DEF storeDirect
  <1>5. MaskCoversCode' /\ dtlb' \in [LPages -> {NoEntry, Refused} \cup Entry]
    BY <1>0, <1>a, <1>4, FillSafe, TableSafe, Zenon
  <1>6. OverflowMeansHit'
    BY <1>0, <1>4, Zenon DEF OverflowMeansHit, hit
  <1>7. guard \in Guard
    BY Zenon DEF TypeOK, Guard
  <1> QED BY <1>1, <1>3, <1>4, <1>5, <1>6, <1>7, Zenon DEF StoreKeeps

(* A store through the memory map, which the guard sees.                   *)
LEMMA MappedKeeps ==
    ASSUME TypeOK, CacheInv, NEW t \in evicted, NEW l \in LPages, NEW s \in Stores,
           NEW v \in Values, storeMapped(t, l, s, v), UNCHANGED <<map, blocks, index>>
    PROVE  StoreKeeps /\ mem' = written(map[l], s, v)
  <1>0. MarksExact /\ MaskCoversCode /\ CodeCurrent /\ OverflowMeansHit
    BY Zenon DEF CacheInv
  <1>a. Safe(t) /\ Safe(filled(t, l))
    BY <1>0, EvictedSafe, FillSafe, Zenon
  <1>1. CodeCurrent'
    BY <1>0, MappedCurrent, Zenon
  <1>2. map[l] \in PPages /\ guard \in Guard
    BY Zenon DEF TypeOK, Guard
  <1>3. /\ mem' = written(map[l], s, v) /\ guard' = note(map[l], s)
        /\ dtlb' = t \/ dtlb' = filled(t, l)
    BY Zenon DEF storeMapped
  <1>4. mem' \in [PPages -> [Offsets -> Values]]
    BY <1>2, <1>3, WrittenElsewhere, Zenon
  <1>5. Keeps(guard, guard')
    BY <1>2, <1>3, NoteFacts, Zenon
  <1>6. OverflowMeansHit'
    BY <1>0, <1>5, OverflowKept, Zenon
  <1>7. guard' \in Guard /\ guard'.mapChanged = guard.mapChanged
    BY <1>5, Zenon DEF Keeps
  <1>8. MaskCoversCode' /\ dtlb' \in [LPages -> {NoEntry, Refused} \cup Entry]
    BY <1>a, <1>3, TableSafe, Zenon
  <1> QED BY <1>1, <1>3, <1>4, <1>6, <1>7, <1>8, Zenon DEF StoreKeeps

(* No store.                                                               *)
LEMMA NoStoreKeeps ==
    ASSUME TypeOK, CacheInv, NEW t \in evicted, noStore(t), UNCHANGED <<map, blocks, index>>
    PROVE  StoreKeeps /\ mem' = mem /\ guard' = guard
  <1>1. mem' = mem /\ dtlb' = t /\ guard' = guard
    BY Zenon DEF noStore
  <1>2. CodeCurrent'
    BY <1>1, Zenon DEF CacheInv, CodeCurrent, Live, doomed, mustFlush, victims
  <1>3. MaskCoversCode' /\ dtlb' \in [LPages -> {NoEntry, Refused} \cup Entry]
    <2>1. Safe(t)
      BY EvictedSafe, Zenon DEF CacheInv
    <2> QED BY <1>1, <2>1, TableSafe, Zenon
  <1>4. OverflowMeansHit'
    BY <1>1, Zenon DEF CacheInv, OverflowMeansHit, hit
  <1> QED BY <1>1, <1>2, <1>3, <1>4, Zenon DEF StoreKeeps, TypeOK, Guard

(* A store of an instruction that Moira executes.                          *)
Landed ==
    \/ mem' = mem
    \/ \E l \in LPages, s \in Stores, v \in Values :
          /\ ~overlay
          /\ BackPatch \/ ~behind(l, s)
          /\ mem' = written(map[l], s, v)

(* Whatever an instruction stores through Moira.                           *)
LEMMA InterpretedKeeps ==
    ASSUME TypeOK, CacheInv, interpretedStore, UNCHANGED <<map, blocks, index>>
    PROVE  StoreKeeps /\ Landed
  <1>0. PICK t \in evicted :
           \/ noStore(t)
           \/ \E l \in LPages, s \in Stores, v \in Values :
                 /\ ~overlay
                 /\ BackPatch \/ ~behind(l, s)
                 /\ storeDirect(t, l, s, v, FALSE) \/ storeMapped(t, l, s, v)
    BY Zenon DEF interpretedStore
  <1>1. CASE noStore(t)
    BY <1>1, NoStoreKeeps, Zenon DEF Landed
  <1>2. ASSUME NEW l \in LPages, NEW s \in Stores, NEW v \in Values,
               ~overlay, BackPatch \/ ~behind(l, s),
               storeDirect(t, l, s, v, FALSE) \/ storeMapped(t, l, s, v)
        PROVE  StoreKeeps /\ Landed
    <2>1. StoreKeeps /\ mem' = written(map[l], s, v)
      <3>1. CASE storeDirect(t, l, s, v, FALSE)
        BY <3>1, DirectKeeps, Zenon
      <3>2. CASE storeMapped(t, l, s, v)
        BY <3>2, MappedKeeps, Zenon
      <3> QED BY <1>2, <3>1, <3>2, Zenon
    <2> QED BY <1>2, <2>1, Zenon DEF Landed
  <1> QED BY <1>0, <1>1, <1>2, Zenon

-----------------------------------------------------------------------------
(* A new block.                                                            *)

(* markPages() adds exactly the marks of the new block.                    *)
LEMMA MarkMarks ==
    ASSUME TypeOK, MarksExact, NEW k \in Entries \ Live, NEW b \in Block,
           blocks' = [blocks EXCEPT ![k] = b], markPages(k, b)
    PROVE  MarksExact' /\ Live' = Live \cup {k}
  <1>0. NoBlock \notin Block
    BY DistinctAssumption, Zenon
  <1>1. \A j \in Entries : blocks'[j] = IF j = k THEN b ELSE blocks[j]
    BY Zenon DEF TypeOK
  <1>2. Live' = Live \cup {k}
    BY <1>0, <1>1, Zenon DEF Live
  <1>3. ASSUME NEW x \in Slices
        PROVE  /\ index'[x] = {j \in Live' : Touches(blocks'[j], x)}
               /\ pageMap'[x] = UNION {SubMask(blocks'[j], x) : j \in Live'}
    <2>1. index[x] = {j \in Live : Touches(blocks[j], x)}
      BY Zenon DEF MarksExact
    <2>2. index'[x] = IF Touches(b, x) THEN index[x] \cup {k} ELSE index[x]
      BY Zenon DEF markPages
    <2>3. \A j \in Live : j # k /\ j \in Entries
      BY Zenon DEF Live
    <2>4. index'[x] = {j \in Live' : Touches(blocks'[j], x)}
      BY <1>1, <1>2, <2>1, <2>2, <2>3
    <2>5. pageMap[x] = UNION {SubMask(blocks[j], x) : j \in Live}
      BY Zenon DEF MarksExact
    <2>6. pageMap'[x] = pageMap[x] \cup SubMask(b, x)
      BY Zenon DEF markPages
    <2>7. pageMap'[x] = UNION {SubMask(blocks'[j], x) : j \in Live'}
      BY <1>1, <1>2, <2>3, <2>5, <2>6, Zenon
    <2> QED BY <2>4, <2>7, Zenon
  <1>4. codePage' = {blocks'[j].page : j \in Live'}
    BY <1>1, <1>2 DEF MarksExact, markPages, Live
  <1> QED BY <1>2, <1>3, <1>4, Zenon DEF MarksExact

(* ... and flushes the data TLB when its masks would miss them.            *)
LEMMA MarkMask ==
    ASSUME TypeOK, MarksExact, MaskCoversCode, NEW k \in Entries \ Live, NEW b \in Block,
           Span(b) \subseteq Offsets,
           blocks' = [blocks EXCEPT ![k] = b], markPages(k, b), UNCHANGED map
    PROVE  MaskCoversCode'
  <1>1. CASE gained(b)
    BY <1>1, Zenon DEF markPages, MaskCoversCode, EmptyDtlb
  <1>2. CASE ~gained(b)
    <2>0. dtlb' = dtlb
      BY <1>2, Zenon DEF markPages
    <2>1. \A j \in Entries : blocks'[j] = IF j = k THEN b ELSE blocks[j]
      BY Zenon DEF TypeOK
    <2>2. Live' = Live \cup {k}
      BY MarkMarks, Zenon
    <2>3. b.page \in PPages
      BY Zenon DEF Block
    <2>4. ASSUME NEW l \in LPages, dtlb[l] \notin {NoEntry, Refused},
                 NEW o \in Offsets, o \in Span(b), b.page = map[l]
          PROVE  maskAware /\ Slice(o) \in dtlb[l].mask
      <3> DEFINE x == <<b.page, Slice(o)>>
      <3>1. x \in Slices
        BY <2>3, InSlices, Zenon
      <3>2. Touches(b, x)
        BY <2>4, Zenon DEF Touches, InSlice
      <3>3. pageMap[x] # {}
        BY <1>2, <3>1, <3>2, Zenon DEF gained
      <3>4. \E j \in Live : \E w \in Span(blocks[j]) :
               w \in Offsets /\ blocks[j].page = x[1] /\ Slice(w) = x[2]
        BY <3>1, <3>3, MarkHasWord, Zenon
      <3> QED BY <2>4, <3>4 DEF MaskCoversCode
    <2> QED BY <2>0, <2>1, <2>2, <2>4 DEF MaskCoversCode, Live
  <1> QED BY <1>1, <1>2, Zenon

-----------------------------------------------------------------------------
(* TypeOK in three parts.                                                  *)

GuestType ==
    /\ mem \in [PPages -> [Offsets -> Values]]
    /\ map \in [LPages -> PPages]
    /\ overlay \in BOOLEAN
    /\ ran \in Values \cup {Rom, Taken, Quiet}
ControlType ==
    /\ enabled \in BOOLEAN
    /\ at \in {"loop", "interp", "window", "armed", "ready", "trace", "traced",
               "native", "exit", "left", "lost"}
    /\ pc \in LPages \X Offsets
    /\ key \in Entries \cup {NoKey}
    /\ win \in {NoWindow} \cup Window
MarksType ==
    /\ index \in [Slices -> SUBSET Entries]
    /\ pageMap \in [Slices -> SUBSET Subs]
    /\ codePage \subseteq PPages
CacheType ==
    /\ moved \in BOOLEAN /\ pendingFlush \in BOOLEAN
    /\ blocks \in [Entries -> {NoBlock} \cup Block]
    /\ MarksType
    /\ links \in [Slots -> Entries \cup {NoKey}]
    /\ dispatch \in [Slots -> Entries \cup {NoKey}]
    /\ dtlb \in [LPages -> {NoEntry, Refused} \cup Entry]
    /\ guard \in Guard

(* The parts make up TypeOK.                                               *)
LEMMA TypeParts == TypeOK <=> GuestType /\ ControlType /\ CacheType
  BY Zenon DEF TypeOK, GuestType, ControlType, CacheType, MarksType, Guard

(* ... after a step, too.                                                  *)
LEMMA TypePartsNext == TypeOK' <=> GuestType' /\ ControlType' /\ CacheType'
  BY Zenon DEF TypeOK, GuestType, ControlType, CacheType, MarksType, Guard

(* Exact marks are well-typed marks.                                       *)
LEMMA MarksTyped ==
    ASSUME blocks' \in [Entries -> {NoBlock} \cup Block], MarksExact',
           index' = [x \in Slices |-> index'[x]],
           pageMap' = [x \in Slices |-> pageMap'[x]]
    PROVE  MarksType'
  <1>1. ASSUME NEW k \in Live'
        PROVE  k \in Entries /\ blocks'[k].page \in PPages /\ Span(blocks'[k]) \subseteq Offsets
    <2>1. k \in Entries /\ blocks'[k] \in Block
      BY Zenon DEF Live
    <2>2. /\ blocks'[k].page \in PPages
          /\ blocks'[k].text \in UNION {[t -> Values] : t \in SUBSET Offsets}
      BY <2>1, Zenon DEF Block
    <2>3. PICK t \in SUBSET Offsets : blocks'[k].text \in [t -> Values]
      BY <2>2, Zenon
    <2> QED BY <2>1, <2>2, <2>3, Zenon DEF Span
  <1>2. ASSUME NEW x \in Slices PROVE index'[x] \subseteq Entries
    BY <1>1, Zenon DEF MarksExact
  <1>3. ASSUME NEW x \in Slices PROVE pageMap'[x] \subseteq Subs
    <2>1. ASSUME NEW k \in Live' PROVE SubMask(blocks'[k], x) \subseteq Subs
      BY <1>1, Zenon DEF SubMask, InSlice, Subs
    <2>2. pageMap'[x] = UNION {SubMask(blocks'[k], x) : k \in Live'}
      BY Zenon DEF MarksExact
    <2> QED BY <2>1, <2>2, Zenon
  <1>4. codePage' \subseteq PPages
    BY <1>1, Zenon DEF MarksExact
  <1> QED BY <1>2, <1>3, <1>4, Zenon DEF MarksType

-----------------------------------------------------------------------------
(* How the cache's invariant passes each kind of step.                     *)

(* A step that touches none of it.                                         *)
LEMMA CacheFrame ==
    ASSUME TypeOK, CacheInv,
           UNCHANGED <<mem, map, moved, pendingFlush, cache, dtlb, guard>>
    PROVE  CacheInv' /\ CacheType'
  <1>1. /\ mem' = mem /\ map' = map /\ moved' = moved /\ pendingFlush' = pendingFlush
        /\ blocks' = blocks /\ index' = index /\ pageMap' = pageMap
        /\ codePage' = codePage /\ links' = links /\ dispatch' = dispatch
        /\ dtlb' = dtlb /\ guard' = guard
    BY Zenon DEF cache
  <1>2. Live' = Live
    BY <1>1, Zenon DEF Live
  <1>3. LinesCopied' /\ NoEmptySpan' /\ ProvedPlaced' /\ OverflowMeansHit'
    BY <1>1, <1>2, SMTT(30) DEF CacheInv, LinesCopied, NoEmptySpan, ProvedPlaced,
                      OverflowMeansHit, hit
  <1>4. CodeCurrent'
    BY <1>1, <1>2 DEF CacheInv, CodeCurrent, doomed, mustFlush, victims
  <1>5. MaskCoversCode' /\ MarksExact' /\ NoDangling'
    BY <1>1, <1>2 DEF CacheInv, MaskCoversCode, MarksExact, NoDangling
  <1>6. CacheType'
    BY <1>1, TypeParts, Zenon DEF CacheType, MarksType
  <1> QED BY <1>3, <1>4, <1>5, <1>6, Zenon DEF CacheInv

(* An empty cache is right whatever memory and the map are.                *)
LEMMA CacheEmptied ==
    ASSUME emptyCache
    PROVE  CacheInv' /\ CacheType' /\ ~tripped' /\ Live' = {}
  <1>1. Live' = {}
    BY Zenon DEF emptyCache, Live
  <1>2. guard' = ClearGuard /\ moved' = FALSE /\ pendingFlush' = FALSE
    BY Zenon DEF emptyCache
  <1>3. guard' \in Guard /\ ~guard'.overflow /\ ~guard'.mapChanged
    BY <1>2, Zenon DEF Guard, ClearGuard
  <1>4. ~hit'
    BY <1>2, Zenon DEF hit, ClearGuard
  <1>5. LinesCopied' /\ NoEmptySpan' /\ ProvedPlaced' /\ OverflowMeansHit' /\ CodeCurrent'
    BY <1>1, <1>3, Zenon DEF LinesCopied, NoEmptySpan, ProvedPlaced, OverflowMeansHit, CodeCurrent
  <1>6. MaskCoversCode'
    BY Zenon DEF emptyCache, MaskCoversCode, EmptyDtlb
  <1>7. MarksExact'
    BY <1>1, Zenon DEF emptyCache, MarksExact
  <1>8. NoDangling'
    BY Zenon DEF emptyCache, NoDangling, EmptyLinks
  <1>9. CacheType'
    BY <1>2, <1>3, Zenon DEF emptyCache, CacheType, MarksType, EmptyLinks, EmptyDtlb
  <1> QED BY <1>1, <1>3, <1>4, <1>5, <1>6, <1>7, <1>8, <1>9, Zenon DEF CacheInv, tripped

(* flushAll() empties the cache, if it was on at all.                      *)
LEMMA CacheFlushed ==
    ASSUME TypeOK, CacheInv, DisabledEmpty, flushAll,
           mem' \in [PPages -> [Offsets -> Values]], UNCHANGED <<mem, map>>
    PROVE  CacheInv' /\ CacheType' /\ Live' = {} /\ win' = NoWindow
  <1>1. CASE enabled
    BY <1>1, CacheEmptied, Zenon DEF flushAll
  <1>2. CASE ~enabled
    <2>1. UNCHANGED <<mem, map, moved, pendingFlush, cache, dtlb, guard>>
      BY <1>2, Zenon DEF flushAll
    <2>2. Live' = Live
      BY <2>1, Zenon DEF cache, Live
    <2> QED BY <1>2, <2>1, <2>2, CacheFrame, Zenon DEF DisabledEmpty, flushAll
  <1> QED BY <1>1, <1>2, Zenon

(* Blocks leave with their marks, links and dispatch slots.                *)
LEMMA CacheErased ==
    ASSUME TypeOK, CacheInv, NEW gone \in SUBSET Live, Retains(gone),
           \A k \in Live \ gone : /\ blocks'[k].proved = blocks[k].proved
                                  /\ blocks'[k].native = blocks[k].native,
           unmarkPages(gone), dispatch' = evict(gone),
           \A i \in Slots : links'[i] = links[i] \/ links'[i] = NoKey,
           \A i \in Slots : links'[i] \notin gone,
           links' = [i \in Slots |-> links'[i]],
           UNCHANGED <<mem, map, moved, pendingFlush>>
    PROVE  /\ LinesCopied' /\ NoEmptySpan' /\ ProvedPlaced'
           /\ MaskCoversCode' /\ MarksExact' /\ NoDangling'
           /\ guard' \in Guard => CacheType'
           /\ guard' = guard => CodeCurrent'
  <1>1. Live' = Live \ gone
    BY RetainsLive, Zenon
  <1>2. LinesCopied' /\ NoEmptySpan'
    BY RetainsShape, Zenon DEF CacheInv
  <1>3. ProvedPlaced'
    BY <1>1, RetainsLive, Zenon DEF CacheInv, ProvedPlaced
  <1>4. MarksExact'
    BY EraseMarks, Zenon DEF CacheInv
  <1>5. dtlb' \in {dtlb, EmptyDtlb}
    BY Zenon DEF unmarkPages
  <1>6. MaskCoversCode'
    BY <1>5, RetainsMask, Zenon DEF CacheInv
  <1>7. NoDangling'
    <2>1. ASSUME NEW i \in Slots, links'[i] # NoKey
          PROVE  /\ links'[i] \in Live' /\ linkIndex[links'[i]] = i
                 /\ blocks'[links'[i]].native /\ blocks'[links'[i]].proved
                 /\ ~moved' => blocks'[links'[i]].page = map'[links'[i][1]]
      <3>1. links'[i] = links[i] /\ links[i] \notin gone
        BY <2>1, Zenon
      <3>2. links[i] \in Live \ gone
        BY <2>1, <3>1, Zenon DEF CacheInv, NoDangling
      <3> QED BY <1>1, <2>1, <3>1, <3>2, RetainsLive DEF CacheInv, NoDangling
    <2>2. ASSUME NEW i \in Slots, dispatch'[i] # NoKey
          PROVE  dispatch'[i] \in Live' /\ dispatchIndex[dispatch'[i]] = i
      BY <1>1, <2>2, Zenon DEF evict, CacheInv, NoDangling
    <2> QED BY <2>1, <2>2, Zenon DEF NoDangling
  <1>8. ASSUME guard' \in Guard PROVE CacheType'
    <2>1. MarksType'
      <3>1. index' = [x \in Slices |-> index[x] \ gone] /\ pageMap' = recomputed(gone)
        BY Zenon DEF unmarkPages
      <3>2. /\ index' = [x \in Slices |-> index'[x]]
            /\ pageMap' = [x \in Slices |-> pageMap'[x]]
        BY <3>1, Zenon DEF recomputed
      <3>3. blocks' \in [Entries -> {NoBlock} \cup Block]
        BY Zenon DEF Retains
      <3> QED BY <1>4, <3>2, <3>3, MarksTyped, Zenon
    <2>2. dtlb' \in [LPages -> {NoEntry, Refused} \cup Entry]
      BY <1>5, Zenon DEF TypeOK, EmptyDtlb
    <2>3. dispatch' \in [Slots -> Entries \cup {NoKey}]
      BY Zenon DEF evict, TypeOK
    <2>4. links' \in [Slots -> Entries \cup {NoKey}]
      BY Zenon DEF TypeOK
    <2> QED BY <1>8, <2>1, <2>2, <2>3, <2>4, Zenon DEF CacheType, Retains, TypeOK
  <1>9. ASSUME guard' = guard PROVE CodeCurrent'
    <2>1. \A x \in Slices : index[x] \ gone \subseteq index'[x]
      BY Zenon DEF unmarkPages
    <2> QED BY <1>9, <2>1, RetainsCurrent, Zenon DEF CacheInv
  <1> QED BY <1>2, <1>3, <1>4, <1>6, <1>7, <1>8, <1>9, Zenon

(* No link to an evicted block stays.                                      *)
LEMMA RetractedLinks ==
    ASSUME TypeOK, CacheInv, NEW gone \in SUBSET Live, links' = retractLink(gone)
    PROVE  /\ \A i \in Slots : links'[i] = links[i] \/ links'[i] = NoKey
           /\ \A i \in Slots : links'[i] \notin gone
           /\ links' = [i \in Slots |-> links'[i]]
  <1>1. \A i \in Slots : links'[i] = IF links[i] \in gone /\ blocks[links[i]].native
                                    THEN NoKey ELSE links[i]
    BY Zenon DEF retractLink
  <1>2. NoKey \notin gone
    BY EngineAssumption, Zenon DEF Live
  <1>3. \A i \in Slots : links[i] \in gone => blocks[links[i]].native
    BY <1>2, Zenon DEF CacheInv, NoDangling
  <1>4. links' = [i \in Slots |-> links'[i]]
    BY Zenon DEF retractLink
  <1> QED BY <1>1, <1>2, <1>3, <1>4, Zenon

(* erase is a retaining step.                                              *)
LEMMA EraseRetains ==
    ASSUME TypeOK, NEW gone \in SUBSET Live, erase(gone)
    PROVE  /\ Retains(gone)
           /\ \A k \in Live \ gone : /\ blocks'[k].proved = blocks[k].proved
                                     /\ blocks'[k].native = blocks[k].native
  <1>1. blocks' = [k \in Entries |-> IF k \in gone THEN NoBlock ELSE blocks[k]]
    BY Zenon DEF erase
  <1> QED BY <1>1, Zenon DEF Retains, Live, TypeOK

(* A service of the guard.                                                 *)
LEMMA CacheServiced ==
    ASSUME TypeOK, CacheInv, serviceGuard, UNCHANGED <<mem, map>>
    PROVE  /\ CacheInv' /\ CacheType' /\ ~tripped'
           /\ Live' \subseteq Live /\ (moved' => moved)
           /\ mustFlushAll => Live' = {}
  <1>1. CASE ~tripped /\ UNCHANGED <<moved, pendingFlush, cache, dtlb, guard>>
    <2>1. CacheInv' /\ CacheType'
      BY <1>1, CacheFrame, Zenon
    <2>2. Live' = Live /\ ~tripped'
      BY <1>1, Zenon DEF cache, Live, tripped, hit
    <2> QED BY <1>1, <2>1, <2>2, Zenon DEF mustFlushAll
  <1>2. CASE mustFlushAll /\ emptyCache
    BY <1>2, CacheEmptied, Zenon DEF emptyCache
  <1>3. CASE /\ tripped /\ ~mustFlushAll
             /\ erase(victims)
             /\ links' = retractLink(victims)
             /\ guard' = ClearGuard
             /\ UNCHANGED <<moved, pendingFlush>>
    <2>1. victims \in SUBSET Live
      BY Zenon DEF victims
    <2>2. /\ Retains(victims)
          /\ \A k \in Live \ victims : /\ blocks'[k].proved = blocks[k].proved
                                       /\ blocks'[k].native = blocks[k].native
      BY <1>3, <2>1, EraseRetains, Zenon
    <2>3. unmarkPages(victims) /\ dispatch' = evict(victims)
      BY <1>3, Zenon DEF erase
    <2>4. /\ \A i \in Slots : links'[i] = links[i] \/ links'[i] = NoKey
          /\ \A i \in Slots : links'[i] \notin victims
          /\ links' = [i \in Slots |-> links'[i]]
      BY <1>3, <2>1, RetractedLinks, Zenon
    <2>5. guard' \in Guard /\ ~guard'.overflow /\ ~guard'.mapChanged /\ ~hit'
      BY <1>3, Zenon DEF Guard, ClearGuard, hit
    <2>6. /\ LinesCopied' /\ NoEmptySpan' /\ ProvedPlaced'
          /\ MaskCoversCode' /\ MarksExact' /\ NoDangling'
          /\ CacheType'
      BY <1>3, <2>1, <2>2, <2>3, <2>4, <2>5, CacheErased, Zenon
    <2>7. ~mustFlush
      BY <1>3, Zenon DEF mustFlushAll
    <2>8. CodeCurrent'
      BY <2>2, <2>7, ServicedCurrent, Zenon DEF CacheInv
    <2>9. Live' \subseteq Live
      BY <2>2, RetainsLive, Zenon
    <2> QED BY <1>3, <2>5, <2>6, <2>8, <2>9, Zenon DEF CacheInv, OverflowMeansHit, tripped
  <1> QED BY <1>1, <1>2, <1>3, Zenon DEF serviceGuard

(* A store, with everything but memory, the data TLB and the guard as it   *)
(* was.                                                                    *)
LEMMA CacheStored ==
    ASSUME TypeOK, CacheInv, StoreKeeps, pendingFlush' \in BOOLEAN,
           UNCHANGED <<map, moved, cache>>
    PROVE  CacheInv' /\ CacheType'
  <1>1. /\ map' = map /\ moved' = moved /\ blocks' = blocks /\ index' = index
        /\ pageMap' = pageMap /\ codePage' = codePage /\ links' = links
        /\ dispatch' = dispatch
    BY Zenon DEF cache
  <1>2. Live' = Live
    BY <1>1, Zenon DEF Live
  <1>3. LinesCopied' /\ NoEmptySpan' /\ ProvedPlaced'
    BY <1>1, <1>2, SMTT(30) DEF CacheInv, LinesCopied, NoEmptySpan, ProvedPlaced
  <1>4. MarksExact' /\ NoDangling'
    BY <1>1, <1>2 DEF CacheInv, MarksExact, NoDangling
  <1>5. CacheType'
    BY <1>1, TypeParts, Zenon DEF CacheType, MarksType, StoreKeeps
  <1> QED BY <1>3, <1>4, <1>5, Zenon DEF CacheInv, StoreKeeps

(* The translation moves, or the guard hears that the map has: the blocks  *)
(* stay, unproved or doomed, and the data TLB is empty.                    *)
LEMMA CacheMoved ==
    ASSUME TypeOK, CacheInv, dtlb' = EmptyDtlb, UNCHANGED <<pendingFlush, cache>>,
           (map' = map /\ moved' = moved) \/ moved' = TRUE,
           mem' = mem \/ Live = {} \/ guard'.mapChanged,
           guard' = guard \/ guard' = [guard EXCEPT !.mapChanged = TRUE]
    PROVE  CacheInv' /\ CacheType'
  <1>1. /\ blocks' = blocks /\ index' = index /\ pageMap' = pageMap
        /\ codePage' = codePage /\ links' = links /\ dispatch' = dispatch
    BY Zenon DEF cache
  <1>2. Live' = Live
    BY <1>1, Zenon DEF Live
  <1>3. /\ guard' \in Guard /\ guard'.hits = guard.hits
        /\ guard'.overflow = guard.overflow /\ (guard.mapChanged => guard'.mapChanged)
    BY Zenon DEF TypeOK, Guard
  <1>4. LinesCopied' /\ NoEmptySpan' /\ ProvedPlaced' /\ OverflowMeansHit'
    BY <1>1, <1>2, <1>3 DEF CacheInv, LinesCopied, NoEmptySpan, ProvedPlaced,
                            OverflowMeansHit, hit
  <1>5. CodeCurrent'
    <2>1. CASE mem' = mem
      <3>1. \A k : doomed(k) => doomed(k)'
        BY <1>1, <1>2, <1>3, Zenon DEF doomed, mustFlush, victims
      <3> QED BY <1>1, <1>2, <2>1, <3>1, Zenon DEF CacheInv, CodeCurrent
    <2>2. CASE Live = {}
      BY <1>2, <2>2, Zenon DEF CodeCurrent
    <2>3. CASE guard'.mapChanged
      BY <2>3, Zenon DEF CodeCurrent, doomed, mustFlush
    <2> QED BY <2>1, <2>2, <2>3, Zenon
  <1>6. MaskCoversCode'
    BY Zenon DEF MaskCoversCode, EmptyDtlb
  <1>7. MarksExact' /\ NoDangling'
    BY <1>1, <1>2 DEF CacheInv, MarksExact, NoDangling
  <1>8. CacheType'
    BY <1>1, <1>3, TypeParts, Zenon DEF CacheType, MarksType, EmptyDtlb
  <1> QED BY <1>4, <1>5, <1>6, <1>7, <1>8, Zenon DEF CacheInv

(* Blocks change their standing only.                                      *)
LEMMA CacheRestood ==
    ASSUME TypeOK, CacheInv, Retains({}), dtlb' \in {dtlb, EmptyDtlb},
           UNCHANGED <<mem, map, index, pageMap, codePage, guard>>
    PROVE  /\ Live' = Live
           /\ LinesCopied' /\ NoEmptySpan' /\ OverflowMeansHit'
           /\ CodeCurrent' /\ MaskCoversCode' /\ MarksExact' /\ MarksType'
           /\ dtlb' \in [LPages -> {NoEntry, Refused} \cup Entry]
           /\ guard' \in Guard
  <1>0. Live' = Live \ {}
    BY RetainsLive, Zenon
  <1>1. Live' = Live
    BY <1>0, Zenon
  <1>2. LinesCopied' /\ NoEmptySpan'
    BY RetainsShape, Zenon DEF CacheInv
  <1>3. OverflowMeansHit'
    BY Zenon DEF CacheInv, OverflowMeansHit, hit
  <1>4. \A x \in Slices : index[x] \ {} \subseteq index'[x]
    BY Zenon
  <1>5. CodeCurrent'
    BY <1>4, RetainsCurrent, Zenon DEF CacheInv
  <1>6. MaskCoversCode'
    BY RetainsMask, Zenon DEF CacheInv
  <1>7. MarksExact'
    BY SameMarks, Zenon DEF CacheInv
  <1>8. MarksType' /\ guard' \in Guard
    BY Zenon DEF MarksType, TypeOK, Guard
  <1>9. dtlb' \in [LPages -> {NoEntry, Refused} \cup Entry]
    BY Zenon DEF TypeOK, EmptyDtlb
  <1> QED BY <1>1, <1>2, <1>3, <1>5, <1>6, <1>7, <1>8, <1>9, Zenon

(* One block changes its standing.                                         *)
LEMMA OneRestands ==
    ASSUME TypeOK, NEW k \in Live, NEW b, b \in Block, b.page = blocks[k].page,
           b.text = blocks[k].text, b.n = blocks[k].n,
           blocks' = [blocks EXCEPT ![k] = b]
    PROVE  Retains({}) /\ \A j \in Entries : blocks'[j] = IF j = k THEN b ELSE blocks[j]
  <1>1. NoBlock \notin Block
    BY DistinctAssumption, Zenon
  <1>2. blocks \in [Entries -> {NoBlock} \cup Block] /\ k \in Entries
    BY Zenon DEF TypeOK, Live
  <1>3. \A j \in Entries : blocks'[j] = IF j = k THEN b ELSE blocks[j]
    BY <1>2, Zenon
  <1>4. blocks' \in [Entries -> {NoBlock} \cup Block]
    BY <1>2, Zenon
  <1> QED BY <1>1, <1>3, <1>4, Zenon DEF Retains, Live

(* GenerationMoved: no block is proved and no link stands.                 *)
LEMMA CacheGeneration ==
    ASSUME TypeOK, CacheInv, GenerationMoved
    PROVE  CacheInv' /\ CacheType' /\ Live' = Live
  <1>0. /\ blocks' = unproved /\ moved' = FALSE /\ links' = EmptyLinks
        /\ dtlb' = EmptyDtlb /\ pendingFlush' = pendingFlush /\ dispatch' = dispatch
        /\ UNCHANGED <<mem, map, index, pageMap, codePage, guard>>
    BY Zenon DEF GenerationMoved, quiet
  <1>1. ASSUME NEW k \in Live
        PROVE  /\ [blocks[k] EXCEPT !.proved = FALSE] \in Block
               /\ [blocks[k] EXCEPT !.proved = FALSE].page = blocks[k].page
               /\ [blocks[k] EXCEPT !.proved = FALSE].text = blocks[k].text
               /\ [blocks[k] EXCEPT !.proved = FALSE].n = blocks[k].n
               /\ [blocks[k] EXCEPT !.proved = FALSE].proved = FALSE
    <2>1. blocks[k] \in Block
      BY LiveBlock, Zenon
    <2> QED BY <2>1, Zenon DEF Block
  <1>2. \A k \in Entries : blocks'[k] = IF k \in Live THEN [blocks[k] EXCEPT !.proved = FALSE]
                                      ELSE NoBlock
    BY <1>0, Zenon DEF unproved
  <1>3. NoBlock \notin Block
    BY DistinctAssumption, Zenon
  <1>4. Retains({})
    BY <1>0, <1>1, <1>2, <1>3, Zenon DEF Retains, unproved
  <1>5. /\ Live' = Live
        /\ LinesCopied' /\ NoEmptySpan' /\ OverflowMeansHit'
        /\ CodeCurrent' /\ MaskCoversCode' /\ MarksExact' /\ MarksType'
        /\ dtlb' \in [LPages -> {NoEntry, Refused} \cup Entry]
        /\ guard' \in Guard
    BY <1>0, <1>4, CacheRestood, Zenon
  <1>6. ProvedPlaced'
    BY <1>1, <1>2, <1>5, Zenon DEF ProvedPlaced, Live
  <1>7. NoDangling'
    BY <1>0, <1>5, Zenon DEF CacheInv, NoDangling, EmptyLinks
  <1>8. CacheType'
    BY <1>0, <1>4, <1>5, Zenon DEF CacheType, Retains, TypeOK, EmptyLinks
  <1> QED BY <1>5, <1>6, <1>7, <1>8, Zenon DEF CacheInv

(* The block at pc becomes b: found, proved again or compiled.             *)
LEMMA CacheStanding ==
    ASSUME TypeOK, CacheInv, NEW k \in Live, NEW b, b \in Block,
           b.page = blocks[k].page, b.text = blocks[k].text, b.n = blocks[k].n,
           b.proved, blocks[k].native => b.native, blocks[k].page = map[k[1]],
           blocks' = [blocks EXCEPT ![k] = b],
           links' = links \/ (links' = publishLink(k) /\ b.native),
           dispatch' = dispatch \/ dispatch' = [dispatch EXCEPT ![dispatchIndex[k]] = k],
           dtlb' \in {dtlb, EmptyDtlb},
           UNCHANGED <<mem, map, moved, pendingFlush, index, pageMap, codePage, guard>>
    PROVE  CacheInv' /\ CacheType' /\ Live' = Live /\ blocks'[k] = b
  <1>1. Retains({}) /\ \A j \in Entries : blocks'[j] = IF j = k THEN b ELSE blocks[j]
    BY OneRestands, ZenonT(30)
  <1>2. /\ Live' = Live
        /\ LinesCopied' /\ NoEmptySpan' /\ OverflowMeansHit'
        /\ CodeCurrent' /\ MaskCoversCode' /\ MarksExact' /\ MarksType'
        /\ dtlb' \in [LPages -> {NoEntry, Refused} \cup Entry]
        /\ guard' \in Guard
    BY <1>1, CacheRestood, Zenon
  <1>3. \A j \in Live : j \in Entries
    BY Zenon DEF Live
  <1>4. ProvedPlaced'
    BY <1>1, <1>2, <1>3 DEF CacheInv, ProvedPlaced
  <1>5. linkIndex[k] \in Slots /\ dispatchIndex[k] \in Slots /\ NoKey \notin Entries
    BY <1>3, EngineAssumption, Zenon
  <1>6. links \in [Slots -> Entries \cup {NoKey}] /\ dispatch \in [Slots -> Entries \cup {NoKey}]
    BY Zenon DEF TypeOK
  <1>7. ASSUME NEW i \in Slots, links'[i] # NoKey
        PROVE  /\ links'[i] \in Live' /\ linkIndex[links'[i]] = i
               /\ blocks'[links'[i]].native /\ blocks'[links'[i]].proved
               /\ ~moved' => blocks'[links'[i]].page = map'[links'[i][1]]
    <2>1. CASE links'[i] = links[i]
      <3>1. links[i] \in Live
        BY <1>7, <2>1, Zenon DEF CacheInv, NoDangling
      <3> QED BY <1>1, <1>2, <1>3, <1>7, <2>1, <3>1 DEF CacheInv, NoDangling
    <2>2. CASE links'[i] # links[i]
      <3>1. links' = publishLink(k) /\ b.native
        BY <2>2, Zenon
      <3>2. i = linkIndex[k] /\ links'[i] = k
        BY <1>5, <1>6, <2>2, <3>1, Zenon DEF publishLink
      <3> QED BY <1>1, <1>2, <1>3, <3>1, <3>2
    <2> QED BY <2>1, <2>2, Zenon
  <1>8. ASSUME NEW i \in Slots, dispatch'[i] # NoKey
        PROVE  dispatch'[i] \in Live' /\ dispatchIndex[dispatch'[i]] = i
    <2>1. CASE dispatch'[i] = dispatch[i]
      BY <1>2, <1>8, <2>1, Zenon DEF CacheInv, NoDangling
    <2>2. CASE dispatch'[i] # dispatch[i]
      <3>1. i = dispatchIndex[k] /\ dispatch'[i] = k
        BY <1>5, <1>6, <2>2, Zenon
      <3> QED BY <1>2, <3>1, Zenon
    <2> QED BY <2>1, <2>2, Zenon
  <1>9. NoDangling'
    BY <1>7, <1>8, Zenon DEF NoDangling
  <1>10. links' \in [Slots -> Entries \cup {NoKey}] /\ dispatch' \in [Slots -> Entries \cup {NoKey}]
    BY <1>3, <1>5, <1>6 DEF publishLink
  <1>11. CacheType'
    BY <1>1, <1>2, <1>10, Zenon DEF CacheType, Retains, TypeOK
  <1> QED BY <1>1, <1>2, <1>3, <1>4, <1>9, <1>11, Zenon DEF CacheInv

(* Cold blocks leave and the warm ones turn cold: evictColdBlocks.         *)
LEMMA CacheEvicted ==
    ASSUME TypeOK, CacheInv, EvictCold
    PROVE  CacheInv' /\ CacheType' /\ Live' \subseteq Live
  <1>0. /\ blocks' = [k \in Entries |-> IF k \in Live \ cold
                                      THEN [blocks[k] EXCEPT !.warm = FALSE] ELSE NoBlock]
        /\ unmarkPages(cold) /\ links' = retractLink(cold) /\ dispatch' = evict(cold)
        /\ UNCHANGED <<mem, map, moved, pendingFlush, guard>>
    BY Zenon DEF EvictCold, quiet
  <1>1. cold \in SUBSET Live
    BY Zenon DEF cold
  <1>2. ASSUME NEW k \in Live
        PROVE  LET b == [blocks[k] EXCEPT !.warm = FALSE]
               IN  /\ b \in Block /\ b.page = blocks[k].page /\ b.text = blocks[k].text
                   /\ b.n = blocks[k].n /\ b.proved = blocks[k].proved
                   /\ b.native = blocks[k].native
    <2>1. blocks[k] \in Block
      BY LiveBlock, Zenon
    <2> QED BY <2>1, Zenon DEF Block
  <1>3. \A k \in Entries : blocks'[k] = IF k \in Live \ cold
                                      THEN [blocks[k] EXCEPT !.warm = FALSE] ELSE NoBlock
    BY <1>0, Zenon
  <1>4. NoBlock \notin Block
    BY DistinctAssumption, Zenon
  <1>5. /\ Retains(cold)
        /\ \A k \in Live \ cold : /\ blocks'[k].proved = blocks[k].proved
                                  /\ blocks'[k].native = blocks[k].native
    BY <1>0, <1>2, <1>3, <1>4, Zenon DEF Retains, Live
  <1>6. /\ \A i \in Slots : links'[i] = links[i] \/ links'[i] = NoKey
        /\ \A i \in Slots : links'[i] \notin cold
        /\ links' = [i \in Slots |-> links'[i]]
    BY <1>0, <1>1, RetractedLinks, Zenon
  <1>7. guard' = guard /\ guard' \in Guard
    BY <1>0, TypeParts, Zenon DEF CacheType
  <1>8. /\ LinesCopied' /\ NoEmptySpan' /\ ProvedPlaced' /\ CodeCurrent'
        /\ MaskCoversCode' /\ MarksExact' /\ NoDangling' /\ CacheType'
    BY <1>0, <1>1, <1>5, <1>6, <1>7, CacheErased, Zenon
  <1>9. Live' \subseteq Live
    BY <1>5, RetainsLive, Zenon
  <1>10. OverflowMeansHit'
    BY <1>7, Zenon DEF CacheInv, OverflowMeansHit, hit
  <1> QED BY <1>8, <1>9, <1>10, Zenon DEF CacheInv

(* A block whose page has moved is dropped; no link led to it.             *)
LEMMA CacheStale ==
    ASSUME TypeOK, CacheInv, DispatchStale
    PROVE  CacheInv' /\ CacheType' /\ Live' \subseteq Live
  <1>0. /\ erase({pc}) /\ pc \in Live /\ ~blocks[pc].proved
        /\ UNCHANGED <<mem, map, moved, pendingFlush, links, guard>>
    BY Zenon DEF DispatchStale, quiet
  <1>1. {pc} \in SUBSET Live
    BY <1>0, Zenon
  <1>2. /\ Retains({pc})
        /\ \A k \in Live \ {pc} : /\ blocks'[k].proved = blocks[k].proved
                                  /\ blocks'[k].native = blocks[k].native
    BY <1>0, <1>1, EraseRetains, Zenon
  <1>3. unmarkPages({pc}) /\ dispatch' = evict({pc})
    BY <1>0, Zenon DEF erase
  <1>4. pc # NoKey
    BY <1>0, EngineAssumption, Zenon DEF Live
  <1>5. \A i \in Slots : links'[i] \notin {pc}
    BY <1>0, <1>4, Zenon DEF CacheInv, NoDangling
  <1>6. links' = [i \in Slots |-> links'[i]] /\ \A i \in Slots : links'[i] = links[i]
    BY <1>0, Zenon DEF TypeOK
  <1>7. guard' = guard /\ guard' \in Guard
    BY <1>0, TypeParts, Zenon DEF CacheType
  <1>8. /\ LinesCopied' /\ NoEmptySpan' /\ ProvedPlaced' /\ CodeCurrent'
        /\ MaskCoversCode' /\ MarksExact' /\ NoDangling' /\ CacheType'
    BY <1>0, <1>1, <1>2, <1>3, <1>5, <1>6, <1>7, CacheErased, Zenon
  <1>9. Live' \subseteq Live
    BY <1>2, RetainsLive, Zenon
  <1>10. OverflowMeansHit'
    BY <1>7, Zenon DEF CacheInv, OverflowMeansHit, hit
  <1> QED BY <1>8, <1>9, <1>10, Zenon DEF CacheInv

(* A traced line becomes a block of the words memory holds.                *)
LEMMA NewBlockFacts ==
    ASSUME TypeOK, Tracing, WindowPlaced, at = "traced"
    PROVE  /\ newBlock \in Block
           /\ newBlock.page = map[key[1]] /\ newBlock.proved /\ newBlock.n = lineLength
           /\ Span(newBlock) = key[2]..end /\ Span(newBlock) \subseteq Offsets
           /\ key[2] \in Span(newBlock) /\ stop <= end + 1
           /\ \A o \in Span(newBlock) : newBlock.text[o] = mem[map[key[1]]][o]
  <1>1. /\ key \in Entries /\ trace.n \in 0..maxInstrs /\ trace.n # 0 /\ stop \in Offsets
        /\ \A o \in key[2]..(stop - 1) : trace.text[o] = mem[map[key[1]]][o]
        /\ win # NoWindow => win.l = key[1] /\ win.p = map[win.l]
    BY Zenon DEF Tracing, WindowPlaced
  <1>2. key \in LPages \X Offsets /\ maxInstrs \in Nat /\ PageWords \in Nat
    BY <1>1, EngineAssumption, Zenon
  <1>3. key[1] \in LPages /\ key[2] \in Nat /\ stop \in 0..(PageWords - 1) /\ key[2] < stop
    <2>1. key[1] \in LPages /\ key[2] \in 0..(PageWords - 1)
      BY <1>2, Zenon DEF Offsets
    <2> QED BY <1>1, <1>2, <2>1 DEF Offsets, stop
  <1>4. map[key[1]] \in PPages /\ mem[map[key[1]]] \in [Offsets -> Values]
    BY <1>3, Zenon DEF TypeOK
  <1>5. /\ end \in Int /\ end < PageWords /\ key[2] <= end /\ stop <= end + 1
        /\ win = NoWindow => end = stop - 1
    BY <1>1, <1>2, <1>3 DEF end
  <1>6. key[2]..end \subseteq Offsets
    BY <1>2, <1>3, <1>5 DEF Offsets
  <1> DEFINE t == [o \in key[2]..end |-> IF inLine(o) THEN trace.text[o] ELSE mem[win.p][o]]
  <1>7. ASSUME NEW o \in key[2]..end PROVE t[o] = mem[map[key[1]]][o]
    <2>1. o \in Int
      BY <1>3, <1>5
    <2>2. CASE inLine(o)
      <3>1. o \in key[2]..(stop - 1)
        BY <1>3, <2>1, <2>2 DEF inLine
      <3> QED BY <1>1, <2>2, <3>1, Zenon
    <2>3. CASE ~inLine(o)
      <3>1. stop <= o
        BY <1>3, <1>5, <2>1, <2>3 DEF inLine
      <3>2. win # NoWindow
        BY <1>3, <1>5, <2>1, <3>1
      <3> QED BY <1>1, <2>3, <3>2, Zenon
    <2> QED BY <2>2, <2>3, Zenon
  <1>8. t \in [key[2]..end -> Values]
    BY <1>4, <1>6, <1>7, Zenon
  <1>9. t \in UNION {[d -> Values] : d \in SUBSET Offsets}
    BY <1>6, <1>8, Zenon
  <1>10. newBlock = [page |-> map[key[1]], n |-> lineLength, text |-> t, proved |-> TRUE,
                     warm |-> FALSE, native |-> FALSE]
    BY Zenon DEF newBlock
  <1>11. lineLength \in 1..maxInstrs
    BY <1>1, <1>2 DEF lineLength
  <1>12. DOMAIN t = key[2]..end
    BY Zenon
  <1> HIDE DEF t
  <1>13. newBlock \in Block
    BY <1>4, <1>9, <1>10, <1>11, Zenon DEF Block
  <1>14. /\ newBlock.page = map[key[1]] /\ newBlock.proved /\ newBlock.n = lineLength
         /\ newBlock.text = t
    BY <1>10, Zenon
  <1>15. Span(newBlock) = key[2]..end
    BY <1>12, <1>14, Zenon DEF Span
  <1>16. key[2] \in key[2]..end
    BY <1>3, <1>5
  <1> QED BY <1>5, <1>6, <1>7, <1>13, <1>14, <1>15, <1>16, Zenon

(* A recorded line enters the cache.                                       *)
LEMMA CacheRecorded ==
    ASSUME TypeOK, CacheInv, Tracing, WindowPlaced, TraceCached
    PROVE  CacheInv' /\ CacheType'
  <1> DEFINE b == newBlock
  <1>0. /\ at = "traced" /\ blocks' = [blocks EXCEPT ![key] = b] /\ markPages(key, b)
        /\ UNCHANGED <<mem, map, moved, pendingFlush, links, dispatch, guard>>
    BY Zenon DEF TraceCached, quiet
  <1>1. /\ b \in Block
        /\ b.page = map[key[1]] /\ b.proved /\ b.n = lineLength
        /\ Span(b) = key[2]..end /\ Span(b) \subseteq Offsets
        /\ key[2] \in Span(b) /\ stop <= end + 1
        /\ \A o \in Span(b) : b.text[o] = mem[map[key[1]]][o]
    BY <1>0, NewBlockFacts, Zenon
  <1>2. key \in Entries \ Live /\ trace.n \in 0..maxInstrs /\ stop \in Offsets
    BY <1>0, Zenon DEF Tracing
  <1> HIDE DEF b
  <1>3. MarksExact' /\ Live' = Live \cup {key}
    BY <1>0, <1>1, <1>2, MarkMarks, Zenon DEF CacheInv
  <1>4. MaskCoversCode'
    BY <1>0, <1>1, <1>2, MarkMask, Zenon DEF CacheInv
  <1>5. \A j \in Entries : blocks'[j] = IF j = key THEN b ELSE blocks[j]
    BY <1>0, <1>2, Zenon DEF TypeOK
  <1>6. blocks' \in [Entries -> {NoBlock} \cup Block]
    BY <1>0, <1>1, <1>2, Zenon DEF TypeOK
  <1>7. \A j \in Live : j \in Entries /\ j # key
    BY <1>2, Zenon DEF Live
  <1>8. NoEmptySpan' /\ ProvedPlaced' /\ OverflowMeansHit'
    <2>1. NoEmptySpan'
      BY <1>1, <1>2, <1>3, <1>5, <1>7, Zenon DEF CacheInv, NoEmptySpan
    <2>2. ProvedPlaced'
      BY <1>0, <1>1, <1>2, <1>3, <1>5, <1>7 DEF CacheInv, ProvedPlaced
    <2>3. OverflowMeansHit'
      BY <1>0, Zenon DEF CacheInv, OverflowMeansHit, hit
    <2> QED BY <2>1, <2>2, <2>3, Zenon
  <1>9. LinesCopied'
    <2>1. ASSUME NEW o \in Offsets, key[2] <= o, o < key[2] + b.n PROVE o \in Span(b)
      <3>1. PageWords \in Nat /\ maxInstrs \in Nat /\ key \in LPages \X Offsets
        BY <1>2, EngineAssumption, Zenon
      <3>2. key[2] \in Int /\ o \in Int /\ stop \in Int
        BY <1>2, <3>1 DEF Offsets
      <3>3. end \in Int
        BY <3>1, <3>2 DEF end
      <3>4. o < stop
        BY <1>1, <2>1, Zenon DEF lineLength, stop
      <3> QED BY <1>1, <2>1, <3>2, <3>3, <3>4
    <2>2. key[2] + b.n \in Offsets
      BY <1>1, <1>2, Zenon DEF lineLength, stop
    <2> QED BY <1>3, <1>5, <1>7, <1>2, <2>1, <2>2, Zenon DEF CacheInv, LinesCopied
  <1>10. CodeCurrent'
    <2>1. ASSUME NEW k \in Live PROVE doomed(k) => doomed(k)'
      <3>1. \A x \in Slices : index[x] \subseteq index'[x]
        BY <1>0, Zenon DEF markPages
      <3>2. blocks'[k] = blocks[k] /\ k \in Live'
        BY <1>3, <1>5, <1>7, Zenon
      <3> QED BY <1>0, <3>1, <3>2, Zenon DEF doomed, mustFlush, victims
    <2>2. ASSUME NEW k \in Live'
          PROVE  doomed(k)' \/ \A o \in Span(blocks'[k]) :
                                 blocks'[k].text[o] = mem'[blocks'[k].page][o]
      <3>1. CASE k = key
        <4>1. blocks'[k] = b /\ mem' = mem
          BY <1>0, <1>2, <1>5, <3>1, Zenon
        <4>2. b.page = map[key[1]] /\ \A o \in Span(b) : b.text[o] = mem[map[key[1]]][o]
          BY <1>1, Zenon
        <4> QED BY <4>1, <4>2, Zenon
      <3>2. CASE k # key
        <4>1. k \in Live /\ blocks'[k] = blocks[k]
          BY <1>3, <1>5, <1>7, <3>2, Zenon
        <4> QED BY <1>0, <2>1, <4>1 DEF CacheInv, CodeCurrent
      <3> QED BY <3>1, <3>2, Zenon
    <2> QED BY <2>2, Zenon DEF CodeCurrent
  <1>11. NoDangling'
    BY <1>0, <1>3, <1>5, <1>7 DEF CacheInv, NoDangling
  <1>12. MarksType'
    <2>1. /\ index' = [x \in Slices |-> index'[x]]
          /\ pageMap' = [x \in Slices |-> pageMap'[x]]
      BY <1>0, Zenon DEF markPages
    <2> QED BY <1>3, <1>6, <2>1, MarksTyped, Zenon
  <1>13. dtlb' \in [LPages -> {NoEntry, Refused} \cup Entry]
    BY <1>0, Zenon DEF markPages, TypeOK, EmptyDtlb
  <1>14. CacheType'
    BY <1>0, <1>6, <1>12, <1>13, Zenon DEF CacheType, TypeOK, Guard
  <1> QED BY <1>3, <1>4, <1>8, <1>9, <1>10, <1>11, <1>14, Zenon DEF CacheInv

-----------------------------------------------------------------------------
(* The actions, one by one.  Each keeps Inv.                               *)

(* Entries are pcs.                                                        *)
LEMMA EntriesArePcs == Entries \subseteq LPages \X Offsets /\ NoKey \notin Entries
  BY EngineAssumption, Zenon

(* What Moira fetches is what the guest's memory holds at pc.              *)
LEMMA FetchSeen ==
    ASSUME TypeOK, WindowPlaced, OverlaySeen
    PROVE  Fetch = Reference!Seen /\ Fetch \in Values \cup {Rom}
  <1>1. pc[1] \in LPages /\ pc[2] \in Offsets
    BY Zenon DEF TypeOK
  <1>2. map[pc[1]] \in PPages
    BY <1>1, Zenon DEF TypeOK
  <1>3. mem[map[pc[1]]][pc[2]] \in Values
    BY <1>1, <1>2 DEF TypeOK
  <1>4. CASE covers(pc)
    <2>1. win # NoWindow /\ win.l = pc[1]
      BY <1>4, Zenon DEF covers
    <2>2. ~overlay
      BY <2>1, Zenon DEF OverlaySeen
    <2>3. win.p = map[pc[1]]
      BY <2>1, Zenon DEF WindowPlaced
    <2> QED BY <1>3, <1>4, <2>2, <2>3, Zenon DEF Fetch, Reference!Seen
  <1>5. CASE ~covers(pc)
    BY <1>3, <1>5, Zenon DEF Fetch, Reference!Seen
  <1> QED BY <1>4, <1>5, Zenon

(* The accesses of an instruction, or of an interrupt, through Moira.      *)
LEMMA AccessesKeep ==
    ASSUME Inv, accesses, ran' \in Values \cup {Rom, Taken}, pendingFlush' \in BOOLEAN,
           UNCHANGED <<moved, cache>>
    PROVE  /\ CacheInv' /\ CacheType' /\ GuestType' /\ WindowPlaced' /\ Landed
           /\ win' \in {NoWindow} \cup Window /\ (win' = win \/ win' = NoWindow)
           /\ guard'.mapChanged = guard.mapChanged
           /\ map' = map /\ overlay' = overlay /\ Live' = Live
  <1>0. TypeOK /\ CacheInv /\ WindowPlaced
    BY Zenon DEF Inv, ControlInv
  <1>1. /\ interpretedStore /\ win' \in {win, NoWindow}
        /\ map' = map /\ overlay' = overlay
    BY Zenon DEF accesses
  <1>2. blocks' = blocks /\ index' = index
    BY Zenon DEF cache
  <1>3. StoreKeeps /\ Landed
    BY <1>0, <1>1, <1>2, InterpretedKeeps, Zenon
  <1>4. CacheInv' /\ CacheType'
    BY <1>0, <1>1, <1>3, CacheStored, Zenon
  <1>6. GuestType'
    BY <1>0, <1>1, <1>3, Zenon DEF GuestType, TypeOK, StoreKeeps
  <1>7. WindowPlaced'
    BY <1>0, <1>1, Zenon DEF WindowPlaced
  <1>8. Live' = Live
    BY <1>2, Zenon DEF Live
  <1> QED BY <1>0, <1>1, <1>3, <1>4, <1>6, <1>7, <1>8, Zenon DEF StoreKeeps, TypeOK

(* One instruction through Moira.                                          *)
LEMMA PlainKeeps ==
    ASSUME Inv, plainInstruction, pendingFlush' \in BOOLEAN, UNCHANGED <<moved, cache>>
    PROVE  /\ CacheInv' /\ CacheType' /\ GuestType' /\ WindowPlaced'
           /\ Landed /\ ran' = Reference!Seen
           /\ win' \in {NoWindow} \cup Window /\ (win' = win \/ win' = NoWindow)
           /\ guard'.mapChanged = guard.mapChanged
           /\ map' = map /\ overlay' = overlay /\ Live' = Live
  <1>1. ran' = Fetch /\ accesses
    BY Zenon DEF plainInstruction, retire
  <1>2. ran' = Reference!Seen /\ ran' \in Values \cup {Rom, Taken}
    BY <1>1, FetchSeen, Zenon DEF Inv, ControlInv
  <1> QED BY <1>1, <1>2, AccessesKeep, Zenon

(* Where nothing is relied on but the window and the overlay.              *)
LEMMA AtLargeKeeps ==
    ASSUME at' \in {"loop", "interp", "window", "left", "lost"},
           WindowPlaced', OverlaySeen', DisabledEmpty'
    PROVE  ControlInv'
  BY Zenon DEF ControlInv, Dispatching, Tracing, Running

(* An instruction through Moira, or an interrupt.                          *)
LEMMA InterpretPlainKeeps ==
    ASSUME Inv, InterpretPlain \/ InterpretInterrupt PROVE Inv'
  <1>0. onward /\ UNCHANGED <<moved, pendingFlush, cache>>
    BY Zenon DEF InterpretPlain, InterpretInterrupt
  <1>1. at \in {"interp", "window"}
    BY Zenon DEF InterpretPlain, InterpretInterrupt, interpreting
  <1>2. pendingFlush' \in BOOLEAN
    BY <1>0, Zenon DEF Inv, TypeOK
  <1>3. /\ CacheInv' /\ CacheType' /\ GuestType' /\ WindowPlaced'
        /\ win' \in {NoWindow} \cup Window /\ (win' = win \/ win' = NoWindow)
        /\ guard'.mapChanged = guard.mapChanged
        /\ map' = map /\ overlay' = overlay /\ Live' = Live
    <2>1. CASE InterpretPlain
      BY <1>0, <1>2, <2>1, PlainKeeps, Zenon DEF InterpretPlain
    <2>2. CASE InterpretInterrupt
      <3>1. accesses /\ ran' \in Values \cup {Rom, Taken}
        BY <2>2, Zenon DEF InterpretInterrupt, retire
      <3> QED BY <1>0, <1>2, <3>1, AccessesKeep, Zenon
    <2> QED BY <2>1, <2>2, Zenon
  <1>4. /\ at' \in {"loop", "window"} /\ (at' = "window" => at = "window")
        /\ pc' \in Entries /\ enabled' = enabled /\ key' = key
    BY <1>0, Zenon DEF onward
  <1>5. ControlType'
    BY <1>3, <1>4, EntriesArePcs, Zenon DEF ControlType, Inv, TypeOK
  <1>6. OverlaySeen'
    BY <1>1, <1>3, <1>4, Zenon DEF Inv, ControlInv, OverlaySeen, Engaged
  <1>7. DisabledEmpty'
    BY <1>3, <1>4, Zenon DEF Inv, ControlInv, DisabledEmpty
  <1> QED BY <1>3, <1>4, <1>5, <1>6, <1>7, AtLargeKeeps, TypePartsNext, Zenon DEF Inv

(* The rest of the interpreter's instructions.                             *)
LEMMA InterpretOthersKeep ==
    ASSUME Inv, InterpretMapMoved \/ InterpretCacheFlush \/ InterpretOverlayDown
    PROVE  Inv'
  <1>0. /\ interpreting /\ onward /\ ran' = Fetch
        /\ TypeOK /\ CacheInv /\ WindowPlaced /\ OverlaySeen /\ DisabledEmpty
    BY Zenon DEF InterpretMapMoved, InterpretCacheFlush, InterpretOverlayDown, retire, Inv,
           ControlInv
  <1>1. at \in {"interp", "window"}
    BY <1>0, Zenon DEF interpreting
  <1>2. /\ at' \in {"loop", "window"} /\ (at' = "window" => at = "window")
        /\ pc' \in Entries /\ enabled' = enabled /\ key' = key
    BY <1>0, Zenon DEF onward
  <1>3. ran' \in Values \cup {Rom}
    BY <1>0, FetchSeen, Zenon
  <1>4. CASE InterpretMapMoved
    <2>1. /\ map' \in [LPages -> PPages] /\ moved' = TRUE /\ dtlb' = EmptyDtlb
          /\ win' = NoWindow /\ UNCHANGED <<mem, overlay, pendingFlush, cache, guard>>
      BY <1>4, Zenon DEF InterpretMapMoved
    <2>2. CacheInv' /\ CacheType'
      BY <1>0, <2>1, CacheMoved, Zenon
    <2>3. GuestType' /\ ControlType'
      BY <1>0, <1>2, <1>3, <2>1, EntriesArePcs, Zenon DEF GuestType, ControlType, TypeOK
    <2>4. WindowPlaced' /\ OverlaySeen'
      BY <1>0, <1>1, <1>2, <2>1, Zenon DEF WindowPlaced, OverlaySeen, Engaged
    <2>5. DisabledEmpty'
      BY <1>0, <1>2, <2>1, Zenon DEF DisabledEmpty, Live, cache
    <2> QED BY <1>2, <2>2, <2>3, <2>4, <2>5, AtLargeKeeps, TypePartsNext, Zenon DEF Inv
  <1>5. CASE InterpretCacheFlush
    <2>1. flushAll /\ UNCHANGED <<mem, map, overlay>>
      BY <1>5, Zenon DEF InterpretCacheFlush
    <2>2. CacheInv' /\ CacheType' /\ Live' = {} /\ win' = NoWindow
      BY <1>0, <2>1, CacheFlushed, Zenon DEF TypeOK
    <2>3. GuestType' /\ ControlType'
      BY <1>0, <1>2, <1>3, <2>1, <2>2, EntriesArePcs, Zenon DEF GuestType, ControlType, TypeOK
    <2>4. WindowPlaced' /\ OverlaySeen' /\ DisabledEmpty'
      BY <1>0, <1>1, <1>2, <2>1, <2>2, Zenon DEF WindowPlaced, OverlaySeen, Engaged, DisabledEmpty
    <2> QED BY <1>2, <2>2, <2>3, <2>4, AtLargeKeeps, TypePartsNext, Zenon DEF Inv
  <1>6. CASE InterpretOverlayDown
    <2>1. /\ overlay /\ overlay' = FALSE /\ mapChanged /\ dtlb' = EmptyDtlb
          /\ UNCHANGED <<mem, map, win, moved, pendingFlush, cache>>
      BY <1>6, Zenon DEF InterpretOverlayDown
    <2>2. guard' = guard \/ guard' = [guard EXCEPT !.mapChanged = TRUE]
      BY <1>0, <2>1, Zenon DEF mapChanged, TypeOK
    <2>3. CacheInv' /\ CacheType'
      BY <1>0, <2>1, <2>2, CacheMoved, Zenon
    <2>4. GuestType' /\ ControlType'
      BY <1>0, <1>2, <1>3, <2>1, EntriesArePcs, Zenon DEF GuestType, ControlType, TypeOK
    <2>5. at = "interp"
      BY <1>0, <1>1, <2>1, Zenon DEF OverlaySeen, Engaged
    <2>6. WindowPlaced' /\ OverlaySeen'
      BY <1>0, <1>2, <2>1, <2>5, Zenon DEF WindowPlaced, OverlaySeen, Engaged
    <2>7. DisabledEmpty'
      BY <1>0, <1>2, <2>1, Zenon DEF DisabledEmpty, Live, cache
    <2> QED BY <1>2, <2>3, <2>4, <2>6, <2>7, AtLargeKeeps, TypePartsNext, Zenon DEF Inv
  <1> QED BY <1>4, <1>5, <1>6, Zenon

(* A step that only chooses where to go next.                              *)
LEMMA ChoiceKeeps ==
    ASSUME Inv, quiet, win' \in {win, NoWindow}, enabled' = enabled,
           UNCHANGED <<moved, pendingFlush, cache, dtlb, guard>>
    PROVE  /\ CacheInv' /\ CacheType' /\ GuestType' /\ WindowPlaced' /\ DisabledEmpty'
           /\ Live' = Live /\ blocks' = blocks /\ moved' = moved /\ map' = map
           /\ mem' = mem /\ overlay' = overlay /\ tripped' = tripped /\ guard' = guard
           /\ win' \in {NoWindow} \cup Window
  <1>0. TypeOK /\ CacheInv /\ WindowPlaced /\ DisabledEmpty
    BY Zenon DEF Inv, ControlInv
  <1>1. ran' = Quiet /\ mem' = mem /\ map' = map /\ overlay' = overlay
    BY Zenon DEF quiet
  <1>2. CacheInv' /\ CacheType'
    BY <1>0, <1>1, CacheFrame, Zenon
  <1>3. GuestType'
    BY <1>0, <1>1, Zenon DEF GuestType, TypeOK
  <1>4. blocks' = blocks /\ Live' = Live
    BY Zenon DEF cache, Live
  <1>5. WindowPlaced' /\ DisabledEmpty'
    BY <1>0, <1>1, <1>4, Zenon DEF WindowPlaced, DisabledEmpty
  <1>6. tripped' = tripped
    BY Zenon DEF tripped, hit
  <1>7. win' \in {NoWindow} \cup Window
    BY <1>0, Zenon DEF TypeOK
  <1> QED BY <1>1, <1>2, <1>3, <1>4, <1>5, <1>6, <1>7, Zenon

(* Turns that choose a route and touch nothing else.                       *)
LEMMA LoopChoicesKeep ==
    ASSUME Inv, WindowLost \/ LoopInterpret \/ LoopBackoff \/ ArmCovered \/ RunWindow
                   \/ NativeUncovered
    PROVE  Inv'
  <1>1. /\ quiet /\ win' \in {win, NoWindow}
        /\ enabled' = enabled /\ pc' = pc /\ key' = key
        /\ UNCHANGED <<moved, pendingFlush, cache, dtlb, guard>>
    BY Zenon DEF WindowLost, LoopInterpret, LoopBackoff, ArmCovered, RunWindow,
           NativeUncovered, goto
  <1>2. /\ CacheInv' /\ CacheType' /\ GuestType' /\ WindowPlaced' /\ DisabledEmpty'
        /\ Live' = Live /\ blocks' = blocks /\ moved' = moved /\ map' = map
        /\ mem' = mem /\ overlay' = overlay /\ tripped' = tripped /\ guard' = guard
        /\ win' \in {NoWindow} \cup Window
    BY <1>1, ChoiceKeeps, Zenon
  <1>3. at' \in {"loop", "interp", "window", "armed", "lost"}
    BY Zenon DEF WindowLost, LoopInterpret, LoopBackoff, ArmCovered, RunWindow,
           NativeUncovered, goto
  <1>4. ControlType'
    BY <1>1, <1>2, <1>3, Zenon DEF Inv, TypeOK, ControlType
  <1>5. CASE ~ArmCovered
    <2>1. /\ at' \in {"loop", "interp", "window", "lost"}
          /\ at' \in {"window", "lost"} => at \in {"ready", "native"}
      BY <1>5, Zenon DEF WindowLost, LoopInterpret, LoopBackoff, RunWindow, NativeUncovered, goto
    <2>2. OverlaySeen'
      BY <1>1, <1>2, <2>1, Zenon DEF Inv, ControlInv, OverlaySeen, Engaged
    <2> QED BY <1>2, <1>4, <2>1, <2>2, AtLargeKeeps, TypePartsNext, Zenon DEF Inv
  <1>6. CASE ArmCovered
    <2>1. /\ at = "loop" /\ at' = "armed" /\ enabled /\ covers(pc) /\ ~tripped
          /\ pc \in Entries /\ win' = win
      BY <1>6, Zenon DEF ArmCovered, goto
    <2>2. ~overlay
      BY <2>1, Zenon DEF Inv, ControlInv, OverlaySeen, covers
    <2>3. OverlaySeen'
      BY <1>1, <1>2, <2>1, <2>2, Zenon DEF OverlaySeen
    <2>4. Dispatching' /\ Tracing' /\ Running'
      BY <1>1, <1>2, <2>1, Zenon DEF Dispatching, Tracing, Running, covers
    <2> QED BY <1>2, <1>4, <2>3, <2>4, TypePartsNext, Zenon DEF Inv, ControlInv
  <1> QED BY <1>5, <1>6, Zenon

(* The engine is off: Moira may arm the window itself.                     *)
LEMMA LoopOffKeeps ==
    ASSUME Inv, LoopOff PROVE Inv'
  <1>0. TypeOK /\ CacheInv /\ ControlInv
    BY Zenon DEF Inv
  <1>1. /\ quiet /\ interpArm /\ at' = "interp" /\ pc' = pc /\ key' = key
        /\ enabled' = enabled /\ UNCHANGED <<moved, pendingFlush, cache, dtlb, guard>>
    BY Zenon DEF LoopOff, goto
  <1>2. ran' = Quiet /\ mem' = mem /\ map' = map /\ overlay' = overlay
    BY <1>1, Zenon DEF quiet
  <1>3. CacheInv' /\ CacheType'
    BY <1>0, <1>1, <1>2, CacheFrame, Zenon
  <1>4. /\ win' \in {NoWindow} \cup Window
        /\ WindowPlaced' /\ (overlay => win' = NoWindow)
    <2>1. CASE win' \in {win, NoWindow}
      BY <1>0, <1>2, <2>1, Zenon DEF TypeOK, ControlInv, WindowPlaced, OverlaySeen
    <2>2. CASE ~overlay /\ win' = [l |-> pc[1], p |-> map[pc[1]]]
      <3>1. pc[1] \in LPages /\ map[pc[1]] \in PPages
        BY <1>0, Zenon DEF TypeOK
      <3>2. win' \in Window /\ win'.l = pc[1] /\ win'.p = map[pc[1]]
        BY <2>2, <3>1, Zenon DEF Window
      <3> QED BY <1>2, <2>2, <3>2, Zenon DEF WindowPlaced
    <2> QED BY <1>1, <2>1, <2>2, Zenon DEF interpArm
  <1>5. GuestType' /\ ControlType'
    BY <1>0, <1>1, <1>2, <1>4, Zenon DEF GuestType, ControlType, TypeOK
  <1>6. OverlaySeen' /\ DisabledEmpty'
    BY <1>0, <1>1, <1>2, <1>4, Zenon DEF ControlInv, OverlaySeen, Engaged, DisabledEmpty, Live, cache
  <1> QED BY <1>1, <1>3, <1>4, <1>5, <1>6, AtLargeKeeps, TypePartsNext, Zenon DEF Inv

(* Arming, after a service of the guard.                                   *)
LEMMA ArmKeeps ==
    ASSUME Inv, ArmProbe \/ ArmFails PROVE Inv'
  <1>0. TypeOK /\ CacheInv
    BY Zenon DEF Inv
  <1>1. /\ serviceGuard /\ quiet /\ at = "loop" /\ enabled
        /\ enabled' = enabled /\ pc' = pc /\ key' = key
    BY Zenon DEF ArmProbe, ArmFails, goto
  <1>2. ran' = Quiet /\ mem' = mem /\ map' = map /\ overlay' = overlay
    BY <1>1, Zenon DEF quiet
  <1>3. CacheInv' /\ CacheType' /\ ~tripped'
    BY <1>0, <1>1, <1>2, CacheServiced, Zenon
  <1>4. GuestType'
    BY <1>0, <1>2, Zenon DEF GuestType, TypeOK
  <1>5. CASE ArmFails
    <2>1. at' = "interp" /\ win' = NoWindow
      BY <1>5, Zenon DEF ArmFails, goto
    <2>2. ControlType'
      BY <1>0, <1>1, <2>1, Zenon DEF ControlType, TypeOK
    <2>3. WindowPlaced' /\ OverlaySeen' /\ DisabledEmpty'
      BY <1>1, <2>1, Zenon DEF WindowPlaced, OverlaySeen, DisabledEmpty, Engaged
    <2> QED BY <1>3, <1>4, <2>1, <2>2, <2>3, AtLargeKeeps, TypePartsNext, Zenon DEF Inv
  <1>6. CASE ArmProbe
    <2>1. /\ at' = "armed" /\ pc \in Entries /\ ~overlay /\ pc[2] + 2 <= PageWords
          /\ win' = [l |-> pc[1], p |-> map[pc[1]]]
      BY <1>6, Zenon DEF ArmProbe, goto
    <2>2. pc[1] \in LPages /\ map[pc[1]] \in PPages
      BY <1>0, Zenon DEF TypeOK
    <2>3. win' \in Window /\ win' # NoWindow /\ win'.l = pc[1] /\ win'.p = map[pc[1]]
      <3>1. win' \in Window
        BY <2>1, <2>2, Zenon DEF Window
      <3> QED BY <2>1, <3>1, DistinctAssumption, Zenon
    <2>4. ControlType'
      BY <1>0, <1>1, <2>1, <2>3, Zenon DEF ControlType, TypeOK
    <2>5. WindowPlaced' /\ OverlaySeen' /\ DisabledEmpty'
      BY <1>1, <1>2, <2>1, <2>3, Zenon DEF WindowPlaced, OverlaySeen, DisabledEmpty
    <2>6. Dispatching' /\ Tracing' /\ Running'
      BY <1>1, <1>3, <2>1, <2>3, Zenon DEF Dispatching, Tracing, Running, covers
    <2> QED BY <1>3, <1>4, <2>4, <2>5, <2>6, TypePartsNext, Zenon DEF Inv, ControlInv
  <1> QED BY <1>5, <1>6, Zenon

(* A new generation: no block is proved, no link stands.                   *)
LEMMA GenerationKeeps ==
    ASSUME Inv, GenerationMoved PROVE Inv'
  <1>0. TypeOK /\ CacheInv /\ ControlInv
    BY Zenon DEF Inv
  <1>1. CacheInv' /\ CacheType' /\ Live' = Live
    BY <1>0, CacheGeneration, Zenon
  <1>2. /\ at = "armed" /\ quiet /\ at' = at /\ pc' = pc /\ key' = key
        /\ enabled' = enabled /\ win' = win /\ guard' = guard
    BY Zenon DEF GenerationMoved, control
  <1>3. ran' = Quiet /\ mem' = mem /\ map' = map /\ overlay' = overlay
    BY <1>2, Zenon DEF quiet
  <1>4. GuestType' /\ ControlType'
    BY <1>0, <1>2, <1>3, Zenon DEF GuestType, ControlType, TypeOK
  <1>5. WindowPlaced' /\ OverlaySeen' /\ DisabledEmpty'
    BY <1>0, <1>1, <1>2, <1>3, Zenon DEF ControlInv, WindowPlaced, OverlaySeen, DisabledEmpty, Engaged
  <1>6. Dispatching' /\ Tracing' /\ Running'
    BY <1>0, <1>2, Zenon DEF ControlInv, Dispatching, Tracing, Running, covers, tripped, hit
  <1> QED BY <1>1, <1>4, <1>5, <1>6, TypePartsNext, Zenon DEF Inv, ControlInv

(* The block at pc is found: b is what it was, or it proved again.         *)
LEMMA FoundKeeps ==
    ASSUME Inv, at = "armed", ~moved, pc \in Live, NEW b \in Block, found(b),
           b.page = blocks[pc].page, b.text = blocks[pc].text, b.n = blocks[pc].n,
           b.proved, b.native = blocks[pc].native, blocks[pc].page = map[pc[1]],
           links' = links \/ (links' = publishLink(pc) /\ b.native),
           dispatch' = dispatch \/ dispatch' = [dispatch EXCEPT ![dispatchIndex[pc]] = pc]
    PROVE  Inv'
  <1>0. TypeOK /\ CacheInv /\ ControlInv
    BY Zenon DEF Inv
  <1> DEFINE c == [b EXCEPT !.warm = TRUE]
  <1>1. /\ c \in Block /\ c.page = b.page /\ c.text = b.text /\ c.n = b.n
        /\ c.proved = b.proved /\ c.native = b.native
    BY Zenon DEF Block
  <1>2. /\ blocks' = [blocks EXCEPT ![pc] = c]
        /\ at' = "ready" /\ pc' = pc /\ key' = key /\ enabled' = enabled /\ win' = win
        /\ quiet /\ moved' = moved
        /\ UNCHANGED <<pendingFlush, index, pageMap, codePage, dtlb, guard>>
    BY Zenon DEF found, goto
  <1> HIDE DEF c
  <1>3. ran' = Quiet /\ mem' = mem /\ map' = map /\ overlay' = overlay
    BY <1>2, Zenon DEF quiet
  <1>a. /\ c.page = blocks[pc].page /\ c.text = blocks[pc].text /\ c.n = blocks[pc].n
        /\ c.proved /\ (blocks[pc].native => c.native)
        /\ links' = links \/ (links' = publishLink(pc) /\ c.native)
        /\ dtlb' \in {dtlb, EmptyDtlb}
    BY <1>1, <1>2, Zenon
  <1>4. CacheInv' /\ CacheType' /\ Live' = Live /\ blocks'[pc] = c
    BY <1>0, <1>1, <1>2, <1>3, <1>a, CacheStanding, Zenon
  <1>5. GuestType' /\ ControlType'
    BY <1>0, <1>2, <1>3, Zenon DEF GuestType, ControlType, TypeOK
  <1>6. WindowPlaced' /\ OverlaySeen' /\ DisabledEmpty'
    BY <1>0, <1>2, <1>3, <1>4, Zenon DEF ControlInv, WindowPlaced, OverlaySeen, DisabledEmpty, Engaged
  <1>7. Dispatching' /\ Tracing' /\ Running'
    BY <1>0, <1>1, <1>2, <1>4, Zenon DEF ControlInv, Dispatching, Tracing, Running, covers,
                                  tripped, hit
  <1> QED BY <1>4, <1>5, <1>6, <1>7, TypePartsNext, Zenon DEF Inv, ControlInv

(* A block is found, or proved again.                                      *)
LEMMA DispatchKeeps ==
    ASSUME Inv, DispatchHit \/ DispatchFind \/ DispatchReprove PROVE Inv'
  <1>0. TypeOK /\ CacheInv /\ ControlInv /\ at = "armed" /\ ~moved
    BY Zenon DEF Inv, DispatchHit, DispatchFind, DispatchReprove
  <1>1. pc \in Entries /\ covers(pc)
    BY <1>0, Zenon DEF ControlInv, Dispatching
  <1>2. pc \in Live
    <2>1. CASE DispatchHit
      <3>1. dispatch[dispatchIndex[pc]] = pc
        BY <2>1, Zenon DEF DispatchHit, lookup
      <3>2. dispatchIndex[pc] \in Slots /\ pc # NoKey
        BY <1>1, EngineAssumption, Zenon
      <3> QED BY <1>0, <3>1, <3>2, Zenon DEF CacheInv, NoDangling
    <2>2. CASE DispatchFind \/ DispatchReprove
      BY <2>2, Zenon DEF DispatchFind, DispatchReprove
    <2> QED BY <2>1, <2>2, Zenon
  <1>3. blocks[pc] \in Block
    BY <1>0, <1>2, LiveBlock, Zenon
  <1>4. CASE DispatchHit \/ DispatchFind
    <2>1. /\ blocks[pc].proved /\ found(blocks[pc]) /\ links' = links
          /\ dispatch' = dispatch \/ dispatch' = [dispatch EXCEPT ![dispatchIndex[pc]] = pc]
      BY <1>4, Zenon DEF DispatchHit, DispatchFind, lookup
    <2>2. blocks[pc].page = map[pc[1]]
      BY <1>0, <1>2, <2>1, Zenon DEF CacheInv, ProvedPlaced
    <2> QED BY <1>0, <1>2, <1>3, <2>1, <2>2, FoundKeeps, Zenon
  <1>5. CASE DispatchReprove
    <2> DEFINE b == [blocks[pc] EXCEPT !.proved = TRUE]
    <2>1. /\ samePage(blocks[pc]) /\ found(b)
          /\ links' = IF blocks[pc].native THEN publishLink(pc) ELSE links
          /\ dispatch' = [dispatch EXCEPT ![dispatchIndex[pc]] = pc]
      BY <1>5, Zenon DEF DispatchReprove
    <2>2. /\ b \in Block /\ b.page = blocks[pc].page /\ b.text = blocks[pc].text
          /\ b.n = blocks[pc].n /\ b.proved /\ b.native = blocks[pc].native
      BY <1>3, Zenon DEF Block
    <2>3. blocks[pc].page = map[pc[1]]
      BY <1>0, <1>1, <2>1, Zenon DEF samePage, covers, ControlInv, WindowPlaced
    <2> HIDE DEF b
    <2>4. links' = links \/ (links' = publishLink(pc) /\ b.native)
      BY <2>1, <2>2, Zenon
    <2> QED BY <1>0, <1>2, <2>1, <2>2, <2>3, <2>4, FoundKeeps, Zenon
  <1> QED BY <1>4, <1>5, Zenon

(* A block of a page that is mapped elsewhere now is dropped.              *)
LEMMA StaleKeeps ==
    ASSUME Inv, DispatchStale PROVE Inv'
  <1>0. TypeOK /\ CacheInv /\ ControlInv
    BY Zenon DEF Inv
  <1>1. CacheInv' /\ CacheType' /\ Live' \subseteq Live
    BY <1>0, CacheStale, Zenon
  <1>2. /\ at = "armed" /\ quiet /\ at' = at /\ pc' = pc /\ key' = key
        /\ enabled' = enabled /\ win' = win /\ guard' = guard
    BY Zenon DEF DispatchStale, control
  <1>3. ran' = Quiet /\ mem' = mem /\ map' = map /\ overlay' = overlay
    BY <1>2, Zenon DEF quiet
  <1>4. GuestType' /\ ControlType'
    BY <1>0, <1>2, <1>3, Zenon DEF GuestType, ControlType, TypeOK
  <1>5. WindowPlaced' /\ OverlaySeen' /\ DisabledEmpty'
    BY <1>0, <1>1, <1>2, <1>3, Zenon DEF ControlInv, WindowPlaced, OverlaySeen, DisabledEmpty, Engaged
  <1>6. Dispatching' /\ Tracing' /\ Running'
    BY <1>0, <1>2, Zenon DEF ControlInv, Dispatching, Tracing, Running, covers, tripped, hit
  <1> QED BY <1>1, <1>4, <1>5, <1>6, TypePartsNext, Zenon DEF Inv, ControlInv

=============================================================================
