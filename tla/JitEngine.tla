----------------------------- MODULE JitEngine -----------------------------
(***************************************************************************)
(* The translating engine: jit::Engine with its block cache, its dispatch  *)
(* cache and link table, the CodeGuard that watches stores into translated *)
(* code, and the write side of Moira's data TLB, which lets a store reach  *)
(* RAM without the memory map that feeds the guard.                        *)
(*                                                                         *)
(* One thread runs all of it, so every action is a stretch of executeUntil *)
(* between two points where it chooses: at says which.  Generation and     *)
(* epoch counters are only compared for equality with the current one, so  *)
(* a block keeps the answers: proved (its gen is blocksGen_) and warm (its *)
(* epoch is blockEpoch_); moved says that pomJitMmuGen has left blocksGen_ *)
(* behind.  One privilege level, no shift versions, no 040 caches.         *)
(***************************************************************************)
EXTENDS Integers, FiniteSets

CONSTANTS
    LPages, PPages, PageWords, Values, Rom, Stores,  \* see Interpreter
    SliceWords,     \* words in a slice of the guard (kUnit)
    SubWords,       \* words in a sub-slice (1 << kSubShift bytes)
    Entries,        \* bound: the pcs where the window can be armed
    Images,         \* bound: the memories a saved state holds
    maxInstrs,      \* instructions in a block
    maxBlocks,      \* blocks in the cache
    kMaxHits,       \* slices the guard can name
    Slots,          \* slots of the link table and of the dispatch cache
    linkIndex, dispatchIndex,   \* pc -> its slot
    maskAware,      \* whether the backend tests the per-slice mask
    BackPatch,      \* bound: whether a line may store into what it executed
    NoBlock, NoKey, NoWindow, NoHit, NoEntry, Refused, Taken, Quiet

VARIABLES
    mem, map, overlay, ran,   \* the guest: see Interpreter
    enabled,        \* enabled_
    at,             \* where executeUntil is
    pc,             \* the guest's pc
    key,            \* the block being traced or run
    trace,          \* record(): n instructions traced, text: offset -> word
    win,            \* the code window: NoWindow or [l, p]
    moved,          \* pomJitMmuGen # blocksGen_
    pendingFlush,   \* pendingFlush_
    blocks,         \* blocks_
    index,          \* sliceIndex_: slice -> keys
    pageMap,        \* pageMap_: slice -> sub-slices holding code
    codePage,       \* codePage_: pages holding code
    links,          \* linkTable_: slot -> key
    dispatch,       \* dispatchCache_: slot -> key
    dtlb,           \* pomJitDtlbW: logical page -> entry
    guard           \* guard_

guest == <<mem, map, overlay, ran>>
control == <<enabled, at, pc, key, trace>>
cache == <<blocks, index, pageMap, codePage, links, dispatch>>
vars == <<guest, control, win, moved, pendingFlush, cache, dtlb, guard>>

Reference == INSTANCE Interpreter
    WITH memory <- mem, translation <- map, overlayUp <- overlay, executed <- ran, counter <- pc

Offsets == 0..(PageWords - 1)
Slice(o) == o \div SliceWords
Sub(o) == o \div SubWords
Slices == PPages \X {Slice(o) : o \in Offsets}
Subs == {Sub(o) : o \in Offsets}
Words(s) == s[1]..s[2]

ASSUME EngineAssumption ==
    /\ {PageWords, SliceWords, SubWords, maxInstrs, maxBlocks, kMaxHits}
          \subseteq Nat \ {0}
    /\ SliceWords % SubWords = 0
    /\ Entries \subseteq LPages \X Offsets
    /\ Images \subseteq [PPages -> [Offsets -> Values]]
    /\ Stores \subseteq Offsets \X Offsets
    /\ linkIndex \in [Entries -> Slots]
    /\ dispatchIndex \in [Entries -> Slots]
    /\ maskAware \in BOOLEAN
    /\ BackPatch \in BOOLEAN
    /\ Rom \notin Values
    /\ NoKey \notin Entries

(* A store is at most a slice wide, so it touches the slices of its ends.  *)
ASSUME StoreAssumption ==
    \A s \in Stores : /\ s[1] <= s[2]
                      /\ \A o \in Words(s) : Slice(o) \in {Slice(s[1]), Slice(s[2])}

-----------------------------------------------------------------------------
(* The blocks.                                                             *)

Block == [page : PPages, n : 1..maxInstrs, text : UNION {[t -> Values] : t \in SUBSET Offsets},
          proved : BOOLEAN, warm : BOOLEAN, native : BOOLEAN]
Hit == [lo : Offsets, hi : Offsets]
Window == [l : LPages, p : PPages]
Entry == [page : PPages, mask : SUBSET {Slice(o) : o \in Offsets}]

ASSUME DistinctAssumption ==
    /\ NoBlock \notin Block
    /\ NoHit \notin Hit
    /\ NoWindow \notin Window
    /\ NoEntry \notin Entry /\ Refused \notin Entry /\ NoEntry # Refused
    /\ Quiet \notin Values \cup {Rom, Taken}

Live == {k \in Entries : blocks[k] # NoBlock}
Span(b) == DOMAIN b.text                      \* blockSpan
InSlice(b, x) == {o \in Span(b) : <<b.page, Slice(o)>> = x}
Touches(b, x) == InSlice(b, x) # {}
SubMask(b, x) == {Sub(o) : o \in InSlice(b, x)}

NoTrace == [n |-> 0, text |-> <<>>]
EmptyLinks == [i \in Slots |-> NoKey]
EmptyDtlb == [l \in LPages |-> NoEntry]
ClearGuard == [hits |-> [x \in Slices |-> NoHit], overflow |-> FALSE,
               mapChanged |-> FALSE]

hit == \E x \in Slices : guard.hits[x] # NoHit
tripped == hit \/ guard.mapChanged
mustFlush == guard.mapChanged \/ guard.overflow

covers(p) == win # NoWindow /\ win.l = p[1] /\ p[2] + 2 <= PageWords

-----------------------------------------------------------------------------
(* What leaves the cache, and what enters it.                              *)

emptyCache ==
    /\ blocks' = [k \in Entries |-> NoBlock]
    /\ index' = [x \in Slices |-> {}]
    /\ pageMap' = [x \in Slices |-> {}]
    /\ codePage' = {}
    /\ links' = EmptyLinks
    /\ dispatch' = EmptyLinks
    /\ dtlb' = EmptyDtlb
    /\ guard' = ClearGuard
    /\ moved' = FALSE
    /\ pendingFlush' = FALSE

(* flushAll called while no block runs.                                    *)
flushAll ==
    /\ win' = NoWindow
    /\ IF enabled THEN emptyCache
       ELSE UNCHANGED <<moved, pendingFlush, cache, dtlb, guard>>

(* unmarkPages and the erase of a set of blocks; recomputeSliceMark on     *)
(* every slice they touched, which flushes the data TLB when a page has    *)
(* lost its last code.                                                     *)
(* Mutant: the slices of an evicted block lose every mark.                *)
recomputedEmpty(gone) ==
    [x \in Slices |-> IF \E k \in gone : Touches(blocks[k], x) THEN {} ELSE pageMap[x]]
recomputed(gone) ==
    [x \in Slices |->
        IF \E k \in gone : Touches(blocks[k], x)
        THEN UNION {SubMask(blocks[k], x) : k \in (index[x] \ gone) \cap Live}
        ELSE pageMap[x]]
emptied(gone) ==
    {p \in codePage : /\ \E x \in Slices, k \in gone : x[1] = p /\ Touches(blocks[k], x)
                      /\ \A x \in Slices : x[1] = p => recomputed(gone)[x] = {}}
(* Mutant: an evicted block keeps its link.                               *)
retractNone(gone) == links
retractLink(gone) ==
    [i \in Slots |-> IF links[i] \in gone /\ blocks[links[i]].native
                     THEN NoKey ELSE links[i]]
evict(gone) ==
    [i \in Slots |-> IF dispatch[i] \in gone THEN NoKey ELSE dispatch[i]]
unmarkPages(gone) ==
    /\ index' = [x \in Slices |-> index[x] \ gone]
    /\ pageMap' = recomputed(gone)
    /\ codePage' = codePage \ emptied(gone)
    /\ dtlb' = IF emptied(gone) = {} THEN dtlb ELSE EmptyDtlb
erase(gone) ==
    /\ blocks' = [k \in Entries |-> IF k \in gone THEN NoBlock ELSE blocks[k]]
    /\ unmarkPages(gone)
    /\ dispatch' = evict(gone)

(* The blocks a recorded store overlaps.                                   *)
overlaps(b, h) == \E o \in Span(b) : h.lo <= o /\ o <= h.hi
victims ==
    {k \in Live : \E x \in Slices : /\ guard.hits[x] # NoHit
                                    /\ k \in index[x]
                                    /\ overlaps(blocks[k], guard.hits[x])}
mustFlushAll == tripped /\ (mustFlush \/ Live = {})
serviceGuard ==
    \/ ~tripped /\ UNCHANGED <<moved, pendingFlush, cache, dtlb, guard>>
    \/ mustFlushAll /\ emptyCache
    \/ /\ tripped /\ ~mustFlushAll
       /\ erase(victims)
       /\ links' = retractLink(victims)
       /\ guard' = ClearGuard
       /\ UNCHANGED <<moved, pendingFlush>>

(* markPages: flush the data TLB when a slice gains its first code.        *)
(* Mutant: the data TLB survives the first code of a slice.               *)
gainedNever(b) == FALSE
gained(b) == \E x \in Slices : Touches(b, x) /\ pageMap[x] = {}
markPages(k, b) ==
    /\ index' = [x \in Slices |-> IF Touches(b, x) THEN index[x] \cup {k} ELSE index[x]]
    /\ pageMap' = [x \in Slices |-> pageMap[x] \cup SubMask(b, x)]
    /\ codePage' = codePage \cup {b.page}
    /\ dtlb' = IF gained(b) THEN EmptyDtlb ELSE dtlb

-----------------------------------------------------------------------------
(* A store by an instruction: CodeGuard::note, fillDtlb, and the two ways  *)
(* to memory.                                                              *)

hull(h, s) == IF h = NoHit THEN [lo |-> s[1], hi |-> s[2]]
              ELSE [lo |-> IF s[1] < h.lo THEN s[1] ELSE h.lo,
                    hi |-> IF s[2] > h.hi THEN s[2] ELSE h.hi]
recordHit(g, x, s) ==
    IF g.hits[x] = NoHit /\ Cardinality({y \in Slices : g.hits[y] # NoHit}) >= kMaxHits
    THEN [g EXCEPT !.overflow = TRUE]
    ELSE [g EXCEPT !.hits[x] = hull(@, s)]
hitsCode(x, s) == \E o \in Words(s) : Slice(o) = x[2] /\ Sub(o) \in pageMap[x]
noteSlice(g, x, s) == IF hitsCode(x, s) THEN recordHit(g, x, s) ELSE g
note(p, s) ==
    LET first == <<p, Slice(s[1])>>
        last == <<p, Slice(s[2])>>
        g == noteSlice(guard, first, s)
    IN  IF last = first THEN g ELSE noteSlice(g, last, s)

sliceMask(p) == IF p \in codePage
                THEN {x[2] : x \in {y \in Slices : y[1] = p /\ pageMap[y] # {}}}
                ELSE {}
fillDtlb(l) ==
    IF sliceMask(map[l]) # {} /\ ~maskAware THEN Refused
    ELSE [page |-> map[l], mask |-> sliceMask(map[l])]

(* An access that takes an ATC entry drops the data-TLB entry of the page  *)
(* that had it (pomJitAtcEvict): the tables an instruction may come to     *)
(* store through.                                                          *)
evicted == {[l \in LPages |-> IF l \in gone THEN NoEntry ELSE dtlb[l]] : gone \in SUBSET LPages}
entry(t, l) == IF t[l] = NoEntry THEN fillDtlb(l) ELSE t[l]
filled(t, l) == [t EXCEPT ![l] = entry(t, l)]

(* Generated code tests the bit of each slice it stores to; Moira's own    *)
(* data window refuses a page with any code.                               *)
direct(e, s, native) ==
    /\ e # Refused
    /\ IF native THEN {Slice(s[1]), Slice(s[2])} \cap e.mask = {} ELSE e.mask = {}

written(p, s, v) ==
    [mem EXCEPT ![p] = [o \in Offsets |-> IF o \in Words(s) THEN v ELSE @[o]]]
storeDirect(t, l, s, v, native) ==
    /\ direct(entry(t, l), s, native)
    /\ mem' = written(entry(t, l).page, s, v)
    /\ dtlb' = filled(t, l)
    /\ UNCHANGED guard
(* A passing refusal leaves the entry as it was.                           *)
storeMapped(t, l, s, v) ==
    /\ mem' = written(map[l], s, v)
    /\ dtlb' \in {t, filled(t, l)}
    /\ guard' = note(map[l], s)

(* While a line is traced, a store into what it has executed of itself is  *)
(* left to BackPatch.                                                      *)
behind(l, s) ==
    /\ at = "trace"
    /\ map[l] = map[key[1]]
    /\ \E o \in Words(s) : key[2] <= o /\ o <= pc[2]

noStore(t) == dtlb' = t /\ UNCHANGED <<mem, guard>>
interpretedStore ==
    \E t \in evicted :
       \/ noStore(t)
       \/ \E l \in LPages, s \in Stores, v \in Values :
             /\ ~overlay
             /\ BackPatch \/ ~behind(l, s)
             /\ storeDirect(t, l, s, v, FALSE) \/ storeMapped(t, l, s, v)

-----------------------------------------------------------------------------
(* Executing one instruction through Moira.                                *)

Fetch == IF covers(pc) THEN mem[win.p][pc[2]] ELSE Reference!Seen
quiet == ran' = Quiet /\ UNCHANGED <<mem, map, overlay>>
retire(w) == ran' = w

(* Its accesses may also evict the translation the window rests on.        *)
accesses ==
    /\ interpretedStore
    /\ win' \in {win, NoWindow}
    /\ UNCHANGED <<map, overlay>>
plainInstruction == retire(Fetch) /\ accesses

interpreting == at \in {"interp"} \cup (IF covers(pc) THEN {"window"} ELSE {})
onward ==
    /\ at' \in {"loop"} \cup (IF at = "window" THEN {"window"} ELSE {})
    /\ pc' \in Entries
    /\ UNCHANGED <<enabled, key, trace>>

InterpretPlain ==
    /\ interpreting /\ onward
    /\ plainInstruction
    /\ UNCHANGED <<moved, pendingFlush, cache>>

(* execute() finds an interrupt pending: checkForIrq.                      *)
InterpretInterrupt ==
    /\ at = "interp" /\ onward
    /\ retire(Taken)
    /\ accesses
    /\ UNCHANGED <<moved, pendingFlush, cache>>

(* PFLUSH, PMOVE, MOVEC to TC, a root pointer or a TTR: pomJitMapMoved.    *)
InterpretMapMoved ==
    /\ interpreting /\ onward
    /\ retire(Fetch)
    /\ map' \in [LPages -> PPages]
    /\ moved' = TRUE
    /\ dtlb' = EmptyDtlb
    /\ win' = NoWindow
    /\ UNCHANGED <<mem, overlay, pendingFlush, cache, guard>>

(* CINV, CPUSH, MOVEC to CACR: didChangeCACR.                              *)
InterpretCacheFlush ==
    /\ interpreting /\ onward
    /\ retire(Fetch)
    /\ flushAll
    /\ UNCHANGED <<mem, map, overlay>>

(* Mutant: the guard is not told.                                         *)
mapChangedUnsaid == UNCHANGED guard
mapChanged == guard' = [guard EXCEPT !.mapChanged = enabled \/ @]

(* A read in the ROM's own window takes the overlay down: jitMapChanged.   *)
InterpretOverlayDown ==
    /\ interpreting /\ onward
    /\ overlay
    /\ retire(Fetch)
    /\ overlay' = FALSE
    /\ mapChanged
    /\ dtlb' = EmptyDtlb
    /\ UNCHANGED <<mem, map, win, moved, pendingFlush, cache>>

WindowLost ==
    /\ at = "window" /\ ~covers(pc)
    /\ at' = "loop"
    /\ quiet
    /\ UNCHANGED <<enabled, pc, key, trace, win, moved, pendingFlush, cache, dtlb, guard>>

-----------------------------------------------------------------------------
(* The top of executeUntil's loop.                                         *)

goto(where) == at' = where /\ UNCHANGED <<enabled, pc, key, trace>>

(* The engine is off: execute() arms the window itself where it can,       *)
(* except for a while after it could not (pomInterpArm).                   *)
interpArm ==
    \/ UNCHANGED win
    \/ ~covers(pc) /\ win' = NoWindow
    \/ /\ ~covers(pc) /\ ~overlay /\ pc[2] + 2 <= PageWords
       /\ win' = [l |-> pc[1], p |-> map[pc[1]]]
LoopOff ==
    /\ at = "loop" /\ ~enabled
    /\ goto("interp")
    /\ interpArm
    /\ quiet
    /\ UNCHANGED <<moved, pendingFlush, cache, dtlb, guard>>
(* Moira has flagged something, or its post-PMOVE fetch pipe is live.      *)
LoopInterpret ==
    /\ at = "loop" /\ enabled
    /\ goto("interp")
    /\ win' = NoWindow
    /\ quiet
    /\ UNCHANGED <<moved, pendingFlush, cache, dtlb, guard>>
LoopBackoff ==
    /\ at = "loop" /\ enabled /\ ~covers(pc)
    /\ goto("interp")
    /\ quiet
    /\ UNCHANGED <<win, moved, pendingFlush, cache, dtlb, guard>>
ArmCovered ==
    /\ at = "loop" /\ enabled /\ covers(pc) /\ ~tripped
    /\ pc \in Entries
    /\ goto("armed")
    /\ quiet
    /\ UNCHANGED <<win, moved, pendingFlush, cache, dtlb, guard>>
ArmProbe ==
    /\ at = "loop" /\ enabled /\ (~covers(pc) \/ tripped)
    /\ serviceGuard
    /\ pc \in Entries /\ ~overlay /\ pc[2] + 2 <= PageWords
    /\ win' = [l |-> pc[1], p |-> map[pc[1]]]
    /\ goto("armed")
    /\ quiet
ArmFails ==
    /\ at = "loop" /\ enabled /\ (~covers(pc) \/ tripped)
    /\ serviceGuard
    /\ win' = NoWindow
    /\ goto("interp")
    /\ quiet

-----------------------------------------------------------------------------
(* Dispatch.                                                               *)

(* The translation has moved since the last dispatch: no block is proved   *)
(* any more and no link stands.                                            *)
unproved == [k \in Entries |-> IF k \in Live THEN [blocks[k] EXCEPT !.proved = FALSE]
                               ELSE NoBlock]
GenerationMoved ==
    /\ at = "armed" /\ moved
    /\ moved' = FALSE
    /\ blocks' = unproved
    /\ links' = EmptyLinks
    /\ dtlb' = EmptyDtlb
    /\ quiet
    /\ UNCHANGED <<control, win, pendingFlush, index, pageMap, codePage, dispatch, guard>>

lookup == dispatch[dispatchIndex[pc]] = pc /\ blocks[pc].proved
publishLink(k) == [links EXCEPT ![linkIndex[k]] = k]

(* The dispatch cache answers, or blocks_ does and fills its slot.         *)
found(b) ==
    /\ blocks' = [blocks EXCEPT ![pc] = [b EXCEPT !.warm = TRUE]]
    /\ goto("ready")
    /\ quiet
    /\ UNCHANGED <<win, moved, pendingFlush, index, pageMap, codePage, dtlb, guard>>
DispatchHit ==
    /\ at = "armed" /\ ~moved
    /\ lookup
    /\ found(blocks[pc])
    /\ UNCHANGED <<links, dispatch>>
DispatchFind ==
    /\ at = "armed" /\ ~moved
    /\ ~lookup /\ pc \in Live /\ blocks[pc].proved
    /\ dispatch' = [dispatch EXCEPT ![dispatchIndex[pc]] = pc]
    /\ found(blocks[pc])
    /\ UNCHANGED links
(* Mutant: a block is proved again wherever its pc is mapped.             *)
anyPage(b) == TRUE
samePage(b) == b.page = win.p
DispatchReprove ==
    /\ at = "armed" /\ ~moved
    /\ pc \in Live /\ ~blocks[pc].proved /\ samePage(blocks[pc])
    /\ dispatch' = [dispatch EXCEPT ![dispatchIndex[pc]] = pc]
    /\ links' = IF blocks[pc].native THEN publishLink(pc) ELSE links
    /\ found([blocks[pc] EXCEPT !.proved = TRUE])
DispatchStale ==
    /\ at = "armed" /\ ~moved
    /\ pc \in Live /\ ~blocks[pc].proved /\ ~samePage(blocks[pc])
    /\ erase({pc})
    /\ quiet
    /\ UNCHANGED <<control, win, moved, pendingFlush, links, guard>>

(* A block that has no code earns it, or is run through the window.        *)
copied(b) == Cardinality(Span(b)) > b.n
RunWindow ==
    /\ at = "ready" /\ ~blocks[pc].native
    /\ goto("window")
    /\ quiet
    /\ UNCHANGED <<win, moved, pendingFlush, cache, dtlb, guard>>
Compile ==
    /\ at = "ready" /\ ~blocks[pc].native /\ copied(blocks[pc])
    /\ blocks' = [blocks EXCEPT ![pc].native = TRUE]
    /\ links' = publishLink(pc)
    /\ dtlb' = EmptyDtlb
    /\ quiet
    /\ UNCHANGED <<control, win, moved, pendingFlush, index, pageMap, codePage,
                   dispatch, guard>>
CompileRejected ==
    /\ at = "ready" /\ ~blocks[pc].native
    /\ dtlb' = EmptyDtlb
    /\ goto("window")
    /\ quiet
    /\ UNCHANGED <<win, moved, pendingFlush, cache, guard>>
CompileCapacity ==
    /\ at = "ready" /\ ~blocks[pc].native
    /\ goto("loop")
    /\ flushAll
    /\ quiet

-----------------------------------------------------------------------------
(* record(): tracing is executing.                                         *)

cold == {k \in Live : ~blocks[k].warm}
full == Cardinality(Live) >= maxBlocks

(* No block at this pc.  A full cache first gives up what was not          *)
(* dispatched since it was last full (evictColdBlocks).                    *)
StartTrace ==
    /\ at = "armed" /\ ~moved /\ pc \notin Live /\ ~full
    /\ at' = "trace" /\ key' = pc /\ trace' = NoTrace
    /\ quiet
    /\ UNCHANGED <<enabled, pc, win, moved, pendingFlush, cache, dtlb, guard>>
EvictCold ==
    /\ at = "armed" /\ ~moved /\ pc \notin Live /\ full
    /\ blocks' = [k \in Entries |-> IF k \in Live \ cold
                                    THEN [blocks[k] EXCEPT !.warm = FALSE] ELSE NoBlock]
    /\ unmarkPages(cold)
    /\ links' = retractLink(cold)
    /\ dispatch' = evict(cold)
    /\ IF cold = {} THEN goto("interp") ELSE goto("armed")
    /\ quiet
    /\ UNCHANGED <<win, moved, pendingFlush, guard>>

next == <<pc[1], pc[2] + 1>>
stop == key[2] + trace.n
inLine(o) == key[2] <= o /\ o < stop
(* A branch is the last of its line, and leads anywhere.                   *)
TraceInstruction ==
    /\ at = "trace" /\ covers(pc)
    /\ trace.n < maxInstrs
    /\ pc = key \/ ~tripped
    /\ plainInstruction
    /\ trace' = [n |-> trace.n + 1,
                 text |-> [o \in key[2]..pc[2] |-> IF inLine(o) THEN trace.text[o] ELSE Fetch]]
    /\ \/ at' = at /\ pc' = next
       \/ at' = "traced" /\ pc' \in Entries
    /\ pendingFlush' \in {pendingFlush, TRUE}
    /\ UNCHANGED <<enabled, key, moved, cache>>

(* The last instruction faulted, which drops the line, or went where the   *)
(* classifier did not expect: a line of its own is dropped, a line before  *)
(* it is kept.                                                             *)
TraceBreaks ==
    /\ at = "trace" /\ covers(pc)
    /\ trace.n < maxInstrs
    /\ pc = key \/ ~tripped
    /\ plainInstruction
    /\ pc' \in Entries
    /\ \/ at' = "loop" /\ trace' = NoTrace /\ key' = NoKey
       \/ pc # key /\ at' = "traced" /\ UNCHANGED <<key, trace>>
    /\ pendingFlush' \in {pendingFlush, TRUE}
    /\ UNCHANGED <<enabled, moved, cache>>
TraceEnds ==
    /\ at = "trace"
    /\ IF pc = key
       THEN at' = "interp" /\ key' = NoKey
       ELSE at' = "traced" /\ UNCHANGED key
    /\ quiet
    /\ UNCHANGED <<enabled, pc, trace, win, moved, pendingFlush, cache, dtlb, guard>>

leaveTrace == at' = "loop" /\ key' = NoKey /\ trace' = NoTrace /\ UNCHANGED pc

(* The copied words reach two past the line: the prefetch queue it leaves. *)
end == IF win # NoWindow /\ stop + 2 <= PageWords THEN stop + 1 ELSE stop - 1
(* Mutant: one instruction too many.                                      *)
lineLengthLong == trace.n + 1
lineLength == trace.n
newBlock ==
    [page |-> map[key[1]], n |-> lineLength,
     text |-> [o \in key[2]..end |-> IF inLine(o) THEN trace.text[o] ELSE mem[win.p][o]],
     proved |-> TRUE, warm |-> FALSE, native |-> FALSE]
TraceCached ==
    /\ at = "traced" /\ ~pendingFlush
    /\ blocks' = [blocks EXCEPT ![key] = newBlock]
    /\ markPages(key, newBlock)
    /\ leaveTrace
    /\ quiet
    /\ UNCHANGED <<enabled, win, moved, pendingFlush, links, dispatch, guard>>
TraceFlushed ==
    /\ at = "traced" /\ pendingFlush
    /\ flushAll
    /\ leaveTrace
    /\ quiet
    /\ UNCHANGED <<enabled>>

-----------------------------------------------------------------------------
(* Generated code.                                                         *)

block == blocks[key]
final == pc[2] + 1 = key[2] + block.n
(* The last instruction of a block leads anywhere, the others to the next. *)
after == {next} \cup (IF final THEN Entries ELSE {})
goesOn == at' = (IF final THEN "exit" ELSE at) /\ pc' \in after

Run ==
    /\ at = "ready" /\ blocks[pc].native
    /\ at' = "native" /\ key' = pc
    /\ quiet
    /\ UNCHANGED <<enabled, pc, trace, win, moved, pendingFlush, cache, dtlb, guard>>

(* An emitted instruction that stores nothing, or through the data TLB.    *)
NativeInstruction ==
    /\ at = "native"
    /\ retire(block.text[pc[2]])
    /\ \E t \in evicted :
          \/ noStore(t)
          \/ \E l \in LPages, s \in Stores, v \in Values : storeDirect(t, l, s, v, TRUE)
    /\ win' \in {win, NoWindow}
    /\ goesOn
    /\ UNCHANGED <<map, overlay, enabled, key, trace, moved, pendingFlush, cache>>

(* An emitted store through the exact thunk: when it hits code, the block  *)
(* is left at the store's own pc, which will be executed again.            *)
NativeStore ==
    /\ at = "native"
    /\ \E t \in evicted, l \in LPages, s \in Stores, v \in Values : storeMapped(t, l, s, v)
    /\ win' \in {win, NoWindow}
    /\ IF hit' THEN at' = "lost" /\ ran' = Quiet /\ UNCHANGED pc
               ELSE retire(block.text[pc[2]]) /\ goesOn
    /\ UNCHANGED <<map, overlay, enabled, key, trace, moved, pendingFlush, cache>>

(* An instruction the backend did not emit: pom68kJitStep.  A fault or a   *)
(* trap leaves the block, and so does the last instruction.                *)
NativeStep ==
    /\ at = "native" /\ covers(pc)
    /\ plainInstruction
    /\ \/ at' = "left" /\ pc' \in Entries
       \/ at' = (IF hit' THEN "lost" ELSE IF final THEN "left" ELSE at) /\ pc' \in after
    /\ pendingFlush' \in {pendingFlush, TRUE}
    /\ UNCHANGED <<enabled, key, trace, moved, cache>>
NativeUncovered ==
    /\ at = "native" /\ ~covers(pc)
    /\ goto("lost")
    /\ quiet
    /\ UNCHANGED <<win, moved, pendingFlush, cache, dtlb, guard>>

(* At the end, the link published for where the block leads is taken.      *)
NativeLink ==
    /\ at = "exit" /\ pc \in Entries
    /\ links[linkIndex[pc]] = pc
    /\ at' = "native" /\ key' = pc
    /\ quiet
    /\ UNCHANGED <<enabled, pc, trace, win, moved, pendingFlush, cache, dtlb, guard>>
NativeLeaves ==
    /\ at = "exit" \/ (at = "native" /\ pc # key)
    /\ goto("left")
    /\ quiet
    /\ UNCHANGED <<win, moved, pendingFlush, cache, dtlb, guard>>

(* Back in the engine: a deferred flush first, else the guard; a block     *)
(* left because of the guard has its instruction interpreted.              *)
(* Mutant: the store that left its block is tried in it again.            *)
replaysNothing == FALSE
replays == at = "lost" /\ ~pendingFlush /\ tripped
AfterRun ==
    /\ at \in {"left", "lost"}
    /\ IF pendingFlush THEN emptyCache ELSE serviceGuard
    /\ win' = IF pendingFlush \/ mustFlushAll THEN NoWindow ELSE win
    /\ at' = IF replays THEN "interp" ELSE "loop"
    /\ key' = NoKey
    /\ quiet
    /\ UNCHANGED <<enabled, pc, trace>>

-----------------------------------------------------------------------------
(* The host, between two calls of executeUntil.                            *)

(* consumeRestart, and the CPU's reset() after it: the MMU is off.         *)
Restart ==
    /\ at = "loop"
    /\ overlay' = TRUE
    /\ map' \in [LPages -> PPages]
    /\ moved' = TRUE
    /\ mapChanged
    /\ dtlb' = EmptyDtlb
    /\ win' = NoWindow
    /\ ran' = Quiet
    /\ pc' \in Entries
    /\ UNCHANGED <<mem, enabled, at, key, trace, pendingFlush, cache>>
LoadState ==
    /\ at = "loop"
    /\ mem' \in Images
    /\ map' \in [LPages -> PPages]
    /\ overlay' \in BOOLEAN
    /\ moved' = TRUE
    /\ mapChanged
    /\ dtlb' = EmptyDtlb
    /\ win' = NoWindow
    /\ ran' = Quiet
    /\ pc' \in Entries
    /\ UNCHANGED <<enabled, at, key, trace, pendingFlush, cache>>
SetEnabled ==
    /\ at = "loop"
    /\ flushAll
    /\ enabled' \in BOOLEAN
    /\ quiet
    /\ UNCHANGED <<at, pc, key, trace>>

Interpret == InterpretPlain \/ InterpretInterrupt \/ InterpretMapMoved
                \/ InterpretCacheFlush \/ InterpretOverlayDown \/ WindowLost
Loop == LoopOff \/ LoopInterpret \/ LoopBackoff \/ ArmCovered \/ ArmProbe \/ ArmFails
Dispatch == GenerationMoved \/ DispatchHit \/ DispatchFind \/ DispatchReprove
                \/ DispatchStale \/ RunWindow \/ Compile \/ CompileRejected
                \/ CompileCapacity \/ Run
Record == StartTrace \/ EvictCold \/ TraceInstruction \/ TraceBreaks \/ TraceEnds
                \/ TraceCached \/ TraceFlushed
Generated == NativeInstruction \/ NativeStore \/ NativeStep \/ NativeUncovered
                \/ NativeLink \/ NativeLeaves \/ AfterRun
executeUntil == Interpret \/ Loop \/ Dispatch \/ Record \/ Generated
Host == Restart \/ LoadState \/ SetEnabled

Init ==
    /\ mem \in Images
    /\ map \in [LPages -> PPages]
    /\ overlay = TRUE
    /\ ran = Quiet
    /\ enabled \in BOOLEAN
    /\ at = "loop" /\ pc \in Entries /\ key = NoKey /\ trace = NoTrace
    /\ win = NoWindow /\ moved = FALSE /\ pendingFlush = FALSE
    /\ blocks = [k \in Entries |-> NoBlock]
    /\ index = [x \in Slices |-> {}]
    /\ pageMap = [x \in Slices |-> {}]
    /\ codePage = {}
    /\ links = EmptyLinks /\ dispatch = EmptyLinks
    /\ dtlb = EmptyDtlb
    /\ guard = ClearGuard

Next == executeUntil \/ Host

(* The emulation thread always has a quantum to run.                       *)
Spec == Init /\ [][Next]_vars /\ WF_vars(executeUntil)

-----------------------------------------------------------------------------
(* Properties.                                                             *)

(* Every variable holds what its C++ member can hold.                      *)
TypeOK ==
    /\ mem \in [PPages -> [Offsets -> Values]]
    /\ map \in [LPages -> PPages]
    /\ overlay \in BOOLEAN
    /\ ran \in Values \cup {Rom, Taken, Quiet}
    /\ enabled \in BOOLEAN
    /\ at \in {"loop", "interp", "window", "armed", "ready", "trace", "traced",
               "native", "exit", "left", "lost"}
    /\ pc \in LPages \X Offsets
    /\ key \in Entries \cup {NoKey}
    /\ win \in {NoWindow} \cup Window
    /\ moved \in BOOLEAN
    /\ pendingFlush \in BOOLEAN
    /\ blocks \in [Entries -> {NoBlock} \cup Block]
    /\ index \in [Slices -> SUBSET Entries]
    /\ pageMap \in [Slices -> SUBSET Subs]
    /\ codePage \subseteq PPages
    /\ links \in [Slots -> Entries \cup {NoKey}]
    /\ dispatch \in [Slots -> Entries \cup {NoKey}]
    /\ dtlb \in [LPages -> {NoEntry, Refused} \cup Entry]
    /\ guard \in [hits : [Slices -> {NoHit} \cup Hit], overflow : BOOLEAN,
                  mapChanged : BOOLEAN]

(* The next service of the guard drops this block.                         *)
doomed(k) == mustFlush \/ k \in victims

(* A cached block is the code memory holds: its recorded words are those   *)
(* of its page, or the guard already has what it needs to drop it.         *)
CodeCurrent ==
    \A k \in Live : doomed(k) \/ \A o \in Span(blocks[k]) :
                                    blocks[k].text[o] = mem[blocks[k].page][o]

(* A store through the data TLB cannot hide from the guard: a writable     *)
(* entry leads to the page its logical page is mapped to, and its mask     *)
(* holds every slice of that page a cached block has words in; a backend   *)
(* that does not test masks is given no page with code at all.             *)
MaskCoversCode ==
    \A l \in LPages : dtlb[l] \in {NoEntry, Refused} \/
        /\ dtlb[l].page = map[l]
        /\ \A k \in Live, o \in Offsets :
              o \in Span(blocks[k]) /\ blocks[k].page = map[l] =>
                 maskAware /\ Slice(o) \in dtlb[l].mask

(* markPages and unmarkPages are inverses: after any history of records    *)
(* and evictions the slice index, the sub-slice masks and the code pages   *)
(* are exactly those of the blocks that are left.                          *)
MarksExact ==
    /\ \A x \in Slices :
          /\ index[x] = {k \in Live : Touches(blocks[k], x)}
          /\ pageMap[x] = UNION {SubMask(blocks[k], x) : k \in Live}
    /\ codePage = {blocks[k].page : k \in Live}

(* Nothing that answers without a search outlives its block: a link leads  *)
(* to generated code of this generation, whose page is where its pc is     *)
(* mapped, and a dispatch slot to a block in the cache.                    *)
NoDangling ==
    \A i \in Slots :
       /\ links[i] # NoKey =>
             LET k == links[i] IN
             /\ k \in Live /\ linkIndex[k] = i
             /\ blocks[k].native /\ blocks[k].proved
             /\ ~moved => blocks[k].page = map[k[1]]
       /\ dispatch[i] # NoKey => dispatch[i] \in Live /\ dispatchIndex[dispatch[i]] = i

(* The instructions the engine executes, by whatever route, are those an   *)
(* interpreter over plain memory would: each is the word memory holds at   *)
(* the pc, and only executing it moves the pc, so that none is skipped and *)
(* none is repeated but a store that left its block: the refinement.       *)
ImplementsInterpreter == Reference!Spec

(* How far the engine is from executing an instruction: at the right of    *)
(* each case, more than everything it can reach without executing one.     *)
Distance ==
    CASE at = "interp" \/ (at = "window" /\ covers(pc)) -> 1
      [] at = "trace" /\ pc = key -> 2
      [] at = "armed" /\ pc \notin Live -> IF moved THEN 5 ELSE IF full THEN 4 ELSE 3
      [] at = "loop" /\ Live = {} -> 6
      [] at = "lost" /\ tripped -> 7
      [] at = "native" /\ pc = key /\ covers(pc) -> 8
      [] at = "ready" -> IF blocks[pc].native THEN 9 ELSE 10
      [] at = "armed" /\ pc \in Live -> IF moved THEN 12 ELSE 11
      [] at = "loop" /\ Live # {} -> 13
      [] at = "window" /\ ~covers(pc) -> 14
      [] at = "lost" /\ ~tripped -> 14
      [] at = "left" -> 14
      [] at = "traced" -> 14
      [] at = "trace" /\ pc # key -> 15
      [] at = "native" /\ pc = key /\ ~covers(pc) -> 15
      [] at = "exit" \/ (at = "native" /\ pc # key) -> 16

(* The engine cannot turn without executing: every step that is not the    *)
(* host's executes an instruction, takes an interrupt or is nearer to it.  *)
(* A block left because its store hit the guard is the case the replay     *)
(* after serviceGuard is for.                                              *)
EngineAdvances == [][ran' # Quiet \/ Distance' < Distance \/ Host]_vars
=============================================================================
