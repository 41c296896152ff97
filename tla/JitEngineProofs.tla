-------------------------- MODULE JitEngineProofs --------------------------
(***************************************************************************)
(* The engine keeps the invariant of JitEngineLemmas and, when no traced   *)
(* line stores into what it has executed of itself, implements the         *)
(* interpreter and never turns without executing.                          *)
(***************************************************************************)
EXTENDS JitEngineLemmas

-----------------------------------------------------------------------------
(* The actions of the generated code, of the traces and of the host.       *)

(* A block gets its code and its link.                                     *)
LEMMA CompileKeeps ==
    ASSUME Inv, Compile PROVE Inv'
  <1>0. TypeOK /\ CacheInv /\ ControlInv /\ at = "ready"
    BY Zenon DEF Inv, Compile
  <1>1. pc \in Live /\ blocks[pc].proved /\ ~moved
    BY <1>0, Zenon DEF ControlInv, Dispatching
  <1>2. blocks[pc] \in Block /\ blocks[pc].page = map[pc[1]]
    BY <1>0, <1>1, LiveBlock, Zenon DEF CacheInv, ProvedPlaced
  <1> DEFINE b == [blocks[pc] EXCEPT !.native = TRUE]
  <1>3. /\ blocks' = [blocks EXCEPT ![pc] = b] /\ links' = publishLink(pc)
        /\ dtlb' = EmptyDtlb /\ dispatch' = dispatch
        /\ quiet /\ at' = at /\ pc' = pc /\ key' = key /\ enabled' = enabled /\ win' = win
        /\ moved' = moved /\ guard' = guard
        /\ UNCHANGED <<pendingFlush, index, pageMap, codePage>>
    BY Zenon DEF Compile, control
  <1>4. /\ b \in Block /\ b.page = blocks[pc].page /\ b.text = blocks[pc].text
        /\ b.n = blocks[pc].n /\ b.proved = blocks[pc].proved /\ b.native
    BY <1>2, Zenon DEF Block
  <1> HIDE DEF b
  <1>5. ran' = Quiet /\ mem' = mem /\ map' = map /\ overlay' = overlay
    BY <1>3, Zenon DEF quiet
  <1>6. CacheInv' /\ CacheType' /\ Live' = Live /\ blocks'[pc] = b
    BY <1>0, <1>1, <1>2, <1>3, <1>4, <1>5, CacheStanding, Zenon
  <1>7. GuestType' /\ ControlType'
    BY <1>0, <1>3, <1>5, Zenon DEF GuestType, ControlType, TypeOK
  <1>8. WindowPlaced' /\ OverlaySeen' /\ DisabledEmpty'
    BY <1>0, <1>3, <1>5, <1>6, Zenon DEF ControlInv, WindowPlaced, OverlaySeen, DisabledEmpty, Engaged
  <1>9. Dispatching' /\ Tracing' /\ Running'
    BY <1>0, <1>1, <1>3, <1>4, <1>6, Zenon DEF ControlInv, Dispatching, Tracing, Running, covers,
                                        tripped, hit
  <1> QED BY <1>6, <1>7, <1>8, <1>9, TypePartsNext, Zenon DEF Inv, ControlInv

(* A block gets no code.                                                   *)
LEMMA CompileFailsKeep ==
    ASSUME Inv, CompileRejected \/ CompileCapacity PROVE Inv'
  <1>0. TypeOK /\ CacheInv /\ ControlInv /\ at = "ready" /\ quiet
    BY Zenon DEF Inv, CompileRejected, CompileCapacity
  <1>1. ran' = Quiet /\ mem' = mem /\ map' = map /\ overlay' = overlay
    BY <1>0, Zenon DEF quiet
  <1>2. enabled /\ ~overlay
    BY <1>0, Zenon DEF ControlInv, OverlaySeen, Engaged
  <1>3. CASE CompileRejected
    <2>1. /\ dtlb' = EmptyDtlb /\ at' = "window" /\ pc' = pc /\ key' = key
          /\ enabled' = enabled /\ win' = win /\ moved' = moved
          /\ UNCHANGED <<pendingFlush, cache, guard>>
      BY <1>3, Zenon DEF CompileRejected, goto
    <2>2. CacheInv' /\ CacheType'
      BY <1>0, <1>1, <2>1, CacheMoved, Zenon
    <2>3. GuestType' /\ ControlType'
      BY <1>0, <1>1, <2>1, Zenon DEF GuestType, ControlType, TypeOK
    <2>4. WindowPlaced' /\ OverlaySeen' /\ DisabledEmpty'
      BY <1>0, <1>1, <1>2, <2>1, Zenon DEF ControlInv, WindowPlaced, OverlaySeen, DisabledEmpty
    <2> QED BY <2>1, <2>2, <2>3, <2>4, AtLargeKeeps, TypePartsNext, Zenon DEF Inv
  <1>4. CASE CompileCapacity
    <2>1. /\ flushAll /\ at' = "loop" /\ pc' = pc /\ key' = key /\ enabled' = enabled
      BY <1>4, Zenon DEF CompileCapacity, goto
    <2>2. CacheInv' /\ CacheType' /\ Live' = {} /\ win' = NoWindow
      BY <1>0, <1>1, <2>1, CacheFlushed, Zenon DEF ControlInv, TypeOK
    <2>3. GuestType' /\ ControlType'
      BY <1>0, <1>1, <2>1, <2>2, Zenon DEF GuestType, ControlType, TypeOK
    <2>4. WindowPlaced' /\ OverlaySeen' /\ DisabledEmpty'
      BY <1>1, <1>2, <2>1, <2>2, Zenon DEF WindowPlaced, OverlaySeen, DisabledEmpty
    <2> QED BY <2>1, <2>2, <2>3, <2>4, AtLargeKeeps, TypePartsNext, Zenon DEF Inv
  <1> QED BY <1>3, <1>4, Zenon

(* Entering a block's code, a trace or what follows one.                   *)
LEMMA EntersKeep ==
    ASSUME Inv, Run \/ StartTrace \/ TraceEnds PROVE Inv'
  <1>0. TypeOK /\ CacheInv /\ ControlInv
    BY Zenon DEF Inv
  <1>1. /\ quiet /\ win' = win /\ enabled' = enabled /\ pc' = pc
        /\ UNCHANGED <<moved, pendingFlush, cache, dtlb, guard>>
    BY Zenon DEF Run, StartTrace, TraceEnds
  <1>2. /\ CacheInv' /\ CacheType' /\ GuestType' /\ WindowPlaced' /\ DisabledEmpty'
        /\ Live' = Live /\ blocks' = blocks /\ moved' = moved /\ map' = map
        /\ mem' = mem /\ overlay' = overlay /\ tripped' = tripped /\ guard' = guard
        /\ win' \in {NoWindow} \cup Window
    BY <1>1, ChoiceKeeps, Zenon
  <1>3. at \in {"ready", "armed", "trace"}
    BY Zenon DEF Run, StartTrace, TraceEnds
  <1>4. enabled /\ ~overlay
    BY <1>0, <1>3, Zenon DEF ControlInv, OverlaySeen, Engaged
  <1>5. OverlaySeen'
    BY <1>1, <1>2, <1>4, Zenon DEF OverlaySeen
  <1>6. pc[2] \in Nat
    BY <1>0, EngineAssumption DEF TypeOK, Offsets
  <1>7. CASE Run
    <2>1. at = "ready" /\ blocks[pc].native /\ at' = "native" /\ key' = pc
      BY <1>7, Zenon DEF Run
    <2>2. pc \in Live /\ blocks[pc].proved /\ ~moved /\ pc \in Entries
      BY <1>0, <2>1, Zenon DEF ControlInv, Dispatching
    <2>3. pc[2] <= pc[2] /\ pc[2] < pc[2] + blocks[pc].n
      <3>1. blocks[pc] \in Block
        BY <1>0, <2>2, LiveBlock, Zenon
      <3> QED BY <1>6, <3>1, EngineAssumption DEF Block
    <2>4. ControlType'
      BY <1>0, <1>1, <1>2, <2>1, <2>2, Zenon DEF ControlType, TypeOK
    <2>5. Dispatching' /\ Tracing'
      BY <1>0, <1>1, <1>2, <2>1, Zenon DEF ControlInv, Dispatching, Tracing
    <2>6. Running'
      <3>1. ~moved'
        BY <1>1, <2>2
      <3> QED BY <1>1, <1>2, <2>1, <2>2, <2>3, <3>1, Zenon DEF Running
    <2> QED BY <1>2, <1>5, <2>4, <2>5, <2>6, TypePartsNext, Zenon DEF Inv, ControlInv
  <1>8. CASE StartTrace
    <2>1. /\ at = "armed" /\ ~moved /\ pc \notin Live /\ at' = "trace" /\ key' = pc
          /\ trace' = NoTrace
      BY <1>8, Zenon DEF StartTrace
    <2>2. pc \in Entries /\ covers(pc)
      BY <1>0, <2>1, Zenon DEF ControlInv, Dispatching
    <2>3. ControlType'
      BY <1>0, <1>1, <1>2, <2>1, <2>2, Zenon DEF ControlType, TypeOK
    <2>4. Dispatching' /\ Running'
      BY <2>1, Zenon DEF Dispatching, Running
    <2>5. maxInstrs \in Nat
      BY EngineAssumption, Zenon
    <2>6. Tracing'
      <3>1. pc[2] \in Offsets
        BY <1>0, Zenon DEF TypeOK
      <3>2. trace'.n = 0
        BY <2>1, Zenon DEF NoTrace
      <3>3. stop' = pc[2]
        BY <1>6, <2>1, <3>2 DEF stop
      <3>4. \A o \in key'[2]..(stop' - 1) : FALSE
        BY <1>6, <2>1, <3>3
      <3>5. trace'.n \in 0..maxInstrs
        BY <2>5, <3>2
      <3>6. win' # NoWindow => win'.l = key'[1]
        BY <1>1, <2>1, <2>2, Zenon DEF covers
      <3>7. key' \in Entries \ Live'
        BY <1>2, <2>1, <2>2
      <3>8. pc'[1] = key'[1] /\ pc'[2] = stop'
        BY <1>1, <2>1, <3>3, Zenon
      <3>9. ~moved'
        BY <1>1, <2>1
      <3> QED BY <1>1, <2>1, <3>1, <3>3, <3>4, <3>5, <3>6, <3>7, <3>8, <3>9, Zenon DEF Tracing
    <2> QED BY <1>2, <1>5, <2>3, <2>4, <2>6, TypePartsNext, Zenon DEF Inv, ControlInv
  <1>9. CASE TraceEnds
    <2>1. /\ at = "trace" /\ trace' = trace
          /\ \/ at' = "interp" /\ key' = NoKey
             \/ pc # key /\ at' = "traced" /\ key' = key
      BY <1>9, Zenon DEF TraceEnds
    <2>2. ControlType'
      BY <1>0, <1>1, <1>2, <2>1, Zenon DEF ControlType, TypeOK
    <2>3. Dispatching' /\ Running'
      BY <2>1, Zenon DEF Dispatching, Running
    <2>4. Tracing'
      <3>1. CASE at' = "interp"
        BY <3>1, Zenon DEF Tracing
      <3>2. CASE pc # key /\ at' = "traced" /\ key' = key
        <4>1. key \in LPages \X Offsets /\ pc \in LPages \X Offsets
          BY <1>0, <2>1, EntriesArePcs, Zenon DEF ControlInv, Tracing, TypeOK
        <4>2. pc = <<pc[1], pc[2]>> /\ key = <<key[1], key[2]>> /\ key[2] \in Int
          BY <4>1 DEF Offsets
        <4>3. pc[1] = key[1] /\ pc[2] = stop
          BY <1>0, <2>1, Zenon DEF ControlInv, Tracing
        <4>4. trace.n # 0
          <5>1. pc[2] # key[2]
            BY <3>2, <4>2, <4>3, Zenon
          <5> QED BY <4>2, <4>3, <5>1 DEF stop
        <4>5. stop' = stop
          BY <2>1, <3>2, Zenon DEF stop
        <4>6. /\ key \in Entries \ Live /\ ~moved
              /\ trace.n \in 0..maxInstrs /\ stop \in Offsets
              /\ \A o \in key[2]..(stop - 1) : trace.text[o] = mem[map[key[1]]][o]
              /\ win # NoWindow => win.l = key[1]
          BY <1>0, <2>1, Zenon DEF ControlInv, Tracing
        <4>7. key' \in Entries \ Live'
          BY <1>2, <3>2, <4>6
        <4>8. \A o \in key'[2]..(stop' - 1) : trace'.text[o] = mem'[map'[key'[1]]][o]
          BY <1>2, <2>1, <3>2, <4>5, <4>6
        <4>9. ~moved'
          BY <1>1, <4>6
        <4> QED BY <1>1, <2>1, <3>2, <4>4, <4>5, <4>6, <4>7, <4>8, <4>9, Zenon DEF Tracing
      <3> QED BY <2>1, <3>1, <3>2, Zenon
    <2> QED BY <1>2, <1>5, <2>2, <2>3, <2>4, TypePartsNext, Zenon DEF Inv, ControlInv
  <1> QED BY <1>7, <1>8, <1>9, Zenon

(* A full cache gives up its cold blocks.                                  *)
LEMMA EvictKeeps ==
    ASSUME Inv, EvictCold PROVE Inv'
  <1>0. TypeOK /\ CacheInv /\ ControlInv
    BY Zenon DEF Inv
  <1>1. CacheInv' /\ CacheType' /\ Live' \subseteq Live
    BY <1>0, CacheEvicted, Zenon
  <1>2. /\ at = "armed" /\ quiet /\ at' \in {"interp", "armed"} /\ pc' = pc /\ key' = key
        /\ enabled' = enabled /\ win' = win /\ guard' = guard
    BY Zenon DEF EvictCold, goto
  <1>3. ran' = Quiet /\ mem' = mem /\ map' = map /\ overlay' = overlay
    BY <1>2, Zenon DEF quiet
  <1>4. enabled /\ ~overlay
    BY <1>0, <1>2, Zenon DEF ControlInv, OverlaySeen, Engaged
  <1>5. GuestType' /\ ControlType'
    BY <1>0, <1>2, <1>3, Zenon DEF GuestType, ControlType, TypeOK
  <1>6. WindowPlaced' /\ OverlaySeen' /\ DisabledEmpty'
    BY <1>0, <1>2, <1>3, <1>4, Zenon DEF ControlInv, WindowPlaced, OverlaySeen, DisabledEmpty
  <1>7. Dispatching' /\ Tracing' /\ Running'
    BY <1>0, <1>2, Zenon DEF ControlInv, Dispatching, Tracing, Running, covers, tripped, hit
  <1> QED BY <1>1, <1>5, <1>6, <1>7, TypePartsNext, Zenon DEF Inv, ControlInv

(* An instruction of a traced line leaves the line's words as they were.   *)
LEMMA LineStands ==
    ASSUME Inv, at = "trace", ~BackPatch, Landed,
           NEW o \in Offsets, key[2] <= o, o <= pc[2]
    PROVE  mem'[map[key[1]]][o] = mem[map[key[1]]][o]
  <1>0. TypeOK /\ Tracing
    BY Zenon DEF Inv, ControlInv
  <1>1. key[1] \in LPages
    BY <1>0, EntriesArePcs, Zenon DEF Tracing
  <1>2. map[key[1]] \in PPages
    BY <1>0, <1>1, Zenon DEF TypeOK
  <1>3. CASE mem' = mem
    BY <1>3, Zenon
  <1>4. ASSUME NEW l \in LPages, NEW s \in Stores, NEW v \in Values, ~behind(l, s),
               mem' = written(map[l], s, v)
        PROVE  mem'[map[key[1]]][o] = mem[map[key[1]]][o]
    <2>1. map[l] \in PPages
      BY <1>0, Zenon DEF TypeOK
    <2>2. map[key[1]] # map[l] \/ o \notin Words(s)
      BY <1>4, Zenon DEF behind
    <2>3. \A q \in PPages, w \in Offsets :
             q # map[l] \/ w \notin Words(s) => mem'[q][w] = mem[q][w]
      BY <1>0, <1>4, <2>1, WrittenElsewhere, Zenon
    <2> QED BY <1>2, <2>2, <2>3, Zenon
  <1> QED BY <1>3, <1>4, Zenon DEF Landed

(* A traced instruction, with the line as it was or longer by it.          *)
LEMMA TracedKeeps ==
    ASSUME Inv, at = "trace", plainInstruction, ~BackPatch,
           pendingFlush' \in {pendingFlush, TRUE}, UNCHANGED <<enabled, moved, cache>>
    PROVE  /\ CacheInv' /\ CacheType' /\ GuestType'
           /\ WindowPlaced' /\ OverlaySeen' /\ DisabledEmpty'
           /\ win' \in {NoWindow} \cup Window /\ (win' = win \/ win' = NoWindow)
           /\ map' = map /\ Live' = Live
           /\ \A o \in Offsets : key[2] <= o /\ o <= pc[2] =>
                 mem'[map[key[1]]][o] = mem[map[key[1]]][o]
  <1>0. TypeOK /\ CacheInv /\ ControlInv
    BY Zenon DEF Inv
  <1>1. pendingFlush' \in BOOLEAN
    BY <1>0, Zenon DEF TypeOK
  <1>2. /\ CacheInv' /\ CacheType' /\ GuestType' /\ WindowPlaced' /\ Landed
        /\ win' \in {NoWindow} \cup Window /\ (win' = win \/ win' = NoWindow)
        /\ map' = map /\ overlay' = overlay /\ Live' = Live
    BY <1>1, PlainKeeps, Zenon
  <1>3. enabled /\ ~overlay
    BY <1>0, Zenon DEF ControlInv, OverlaySeen, Engaged
  <1>4. OverlaySeen' /\ DisabledEmpty'
    BY <1>2, <1>3, Zenon DEF OverlaySeen, DisabledEmpty
  <1>5. \A o \in Offsets : key[2] <= o /\ o <= pc[2] =>
           mem'[map[key[1]]][o] = mem[map[key[1]]][o]
    BY <1>2, LineStands, Zenon
  <1> QED BY <1>2, <1>4, <1>5, Zenon

(* A traced instruction.                                                   *)
LEMMA TraceInstructionKeeps ==
    ASSUME Inv, TraceInstruction, ~BackPatch PROVE Inv'
  <1>0. TypeOK /\ CacheInv /\ ControlInv
    BY Zenon DEF Inv
  <1>1. /\ at = "trace" /\ covers(pc) /\ trace.n < maxInstrs /\ plainInstruction
        /\ trace' = [n |-> trace.n + 1,
                      text |-> [o \in key[2]..pc[2] |->
                                  IF inLine(o) THEN trace.text[o] ELSE Fetch]]
        /\ pendingFlush' \in {pendingFlush, TRUE}
        /\ enabled' = enabled /\ key' = key
        /\ moved' = moved /\ UNCHANGED <<enabled, moved, cache>>
    BY Zenon DEF TraceInstruction
  <1>2. (at' = "trace" /\ pc' = next) \/ (at' = "traced" /\ pc' \in Entries)
    BY <1>1, Zenon DEF TraceInstruction
  <1>3. /\ CacheInv' /\ CacheType' /\ GuestType'
        /\ WindowPlaced' /\ OverlaySeen' /\ DisabledEmpty'
        /\ win' \in {NoWindow} \cup Window /\ (win' = win \/ win' = NoWindow)
        /\ map' = map /\ Live' = Live
        /\ \A o \in Offsets : key[2] <= o /\ o <= pc[2] =>
              mem'[map[key[1]]][o] = mem[map[key[1]]][o]
    BY <1>1, TracedKeeps, Zenon
  <1>4. /\ key \in Entries \ Live /\ ~moved /\ pc[1] = key[1] /\ pc[2] = stop
        /\ trace.n \in 0..maxInstrs
        /\ \A o \in key[2]..(stop - 1) : trace.text[o] = mem[map[key[1]]][o]
        /\ win # NoWindow => win.l = key[1]
    BY <1>0, <1>1, Zenon DEF ControlInv, Tracing
  <1>5. key[1] \in LPages /\ key[2] \in Offsets /\ pc[2] \in Offsets /\ PageWords \in Nat
    BY <1>0, <1>4, EngineAssumption, Zenon DEF TypeOK
  <1>6. /\ key[2] \in Nat /\ pc[2] \in Nat /\ maxInstrs \in Nat /\ pc[2] + 1 \in Offsets
        /\ trace.n \in Nat
    BY <1>1, <1>4, <1>5, EngineAssumption, SMTT(20) DEF Offsets, covers
  <1>7. trace'.n = trace.n + 1 /\ trace'.n \in 0..maxInstrs /\ trace'.n # 0
    <2>1. trace'.n = trace.n + 1
      BY <1>1, Zenon
    <2> QED BY <1>1, <1>6, <2>1
  <1>8. stop' = pc[2] + 1
    BY <1>1, <1>4, <1>6, <1>7 DEF stop
  <1>9. next[1] = pc[1] /\ next[2] = pc[2] + 1
    BY Zenon DEF next
  <1>10. next \in LPages \X Offsets
    BY <1>4, <1>5, <1>6, Zenon DEF next
  <1>11. ControlType'
    BY <1>0, <1>1, <1>2, <1>3, <1>10, EntriesArePcs, Zenon DEF ControlType, TypeOK
  <1>12. Dispatching' /\ Running'
    BY <1>2, Zenon DEF Dispatching, Running
  <1>13. ASSUME NEW o \in key[2]..pc[2]
         PROVE  trace'.text[o] = mem'[map[key[1]]][o]
    <2>0. trace'.text[o] = IF inLine(o) THEN trace.text[o] ELSE Fetch
      BY <1>1, Zenon
    <2>1. o \in Offsets /\ key[2] <= o /\ o <= pc[2] /\ o \in Int
      BY <1>5, <1>6 DEF Offsets
    <2>2. mem'[map[key[1]]][o] = mem[map[key[1]]][o]
      BY <1>3, <2>1, Zenon
    <2>3. CASE inLine(o)
      <3>1. o \in key[2]..(stop - 1)
        BY <1>4, <1>6, <2>1, <2>3 DEF inLine
      <3> QED BY <1>4, <2>0, <2>2, <2>3, <3>1, Zenon
    <2>4. CASE ~inLine(o)
      <3>1. o = pc[2]
        BY <1>4, <1>6, <2>1, <2>4 DEF inLine
      <3>2. Fetch = mem[win.p][pc[2]] /\ win.p = map[key[1]]
        BY <1>0, <1>1, <1>4, Zenon DEF Fetch, covers, ControlInv, WindowPlaced
      <3> QED BY <2>0, <2>2, <2>4, <3>1, <3>2, Zenon
    <2> QED BY <2>3, <2>4, Zenon
  <1>14. Tracing'
    <2>1. stop' - 1 = pc[2] /\ stop' \in Offsets
      BY <1>6, <1>8
    <2>2. \A o \in key'[2]..(stop' - 1) : trace'.text[o] = mem'[map'[key'[1]]][o]
      BY <1>1, <1>3, <1>13, <2>1, Zenon
    <2>3. at' = "trace" => pc'[1] = key'[1] /\ pc'[2] = stop'
      BY <1>1, <1>2, <1>4, <1>8, <1>9, Zenon
    <2>4. key' \in Entries \ Live'
      BY <1>1, <1>3, <1>4
    <2>5. win' # NoWindow => win'.l = key'[1]
      BY <1>1, <1>3, <1>4, Zenon
    <2>6. ~moved'
      BY <1>1, <1>4
    <2> QED BY <1>7, <2>1, <2>2, <2>3, <2>4, <2>5, <2>6, Zenon DEF Tracing
  <1> QED BY <1>3, <1>11, <1>12, <1>14, TypePartsNext, Zenon DEF Inv, ControlInv

(* The last instruction of a trace.                                        *)
LEMMA TraceBreaksKeeps ==
    ASSUME Inv, TraceBreaks, ~BackPatch PROVE Inv'
  <1>0. TypeOK /\ CacheInv /\ ControlInv
    BY Zenon DEF Inv
  <1>1. /\ at = "trace" /\ plainInstruction /\ pendingFlush' \in {pendingFlush, TRUE}
        /\ pc' \in Entries
        /\ \/ at' = "loop" /\ key' = NoKey
           \/ pc # key /\ at' = "traced" /\ key' = key /\ trace' = trace
        /\ enabled' = enabled /\ moved' = moved /\ UNCHANGED <<enabled, moved, cache>>
    BY Zenon DEF TraceBreaks
  <1>3. /\ CacheInv' /\ CacheType' /\ GuestType'
        /\ WindowPlaced' /\ OverlaySeen' /\ DisabledEmpty'
        /\ win' \in {NoWindow} \cup Window /\ (win' = win \/ win' = NoWindow)
        /\ map' = map /\ Live' = Live
        /\ \A o \in Offsets : key[2] <= o /\ o <= pc[2] =>
              mem'[map[key[1]]][o] = mem[map[key[1]]][o]
    BY <1>1, TracedKeeps, Zenon
  <1>4. ControlType'
    BY <1>0, <1>1, <1>3, EntriesArePcs, Zenon DEF ControlType, TypeOK
  <1>6. CASE at' = "loop"
    BY <1>3, <1>4, <1>6, AtLargeKeeps, TypePartsNext, Zenon DEF Inv
  <1>7. CASE pc # key /\ at' = "traced" /\ key' = key /\ trace' = trace
    <2>1. /\ key \in Entries \ Live /\ ~moved /\ pc[1] = key[1] /\ pc[2] = stop
          /\ trace.n \in 0..maxInstrs /\ stop \in Offsets
          /\ \A o \in key[2]..(stop - 1) : trace.text[o] = mem[map[key[1]]][o]
          /\ win # NoWindow => win.l = key[1]
      BY <1>0, <1>1, Zenon DEF ControlInv, Tracing
    <2>2. key \in LPages \X Offsets /\ pc \in LPages \X Offsets /\ PageWords \in Nat
      BY <1>0, <2>1, EngineAssumption, Zenon DEF TypeOK
    <2>3. pc = <<pc[1], pc[2]>> /\ key = <<key[1], key[2]>> /\ key[2] \in Nat /\ pc[2] \in Nat
      BY <2>2 DEF Offsets
    <2>4. trace.n # 0 /\ stop' = stop
      <3>1. pc[2] # key[2]
        BY <1>7, <2>1, <2>3, Zenon
      <3>2. trace.n # 0
        BY <2>1, <2>3, <3>1 DEF stop
      <3> QED BY <1>7, <3>2, Zenon DEF stop
    <2>5. ASSUME NEW o \in key[2]..(stop - 1) PROVE trace.text[o] = mem'[map[key[1]]][o]
      <3>1. o \in Offsets /\ key[2] <= o /\ o <= pc[2]
        BY <2>1, <2>2, <2>3 DEF Offsets
      <3>2. mem'[map[key[1]]][o] = mem[map[key[1]]][o]
        BY <1>3, <3>1, Zenon
      <3> QED BY <2>1, <3>2, Zenon
    <2>6. Tracing'
      <3>1. key' \in Entries \ Live'
        BY <1>3, <1>7, <2>1
      <3>2. \A o \in key'[2]..(stop' - 1) : trace'.text[o] = mem'[map'[key'[1]]][o]
        BY <1>3, <1>7, <2>4, <2>5
      <3>3. ~moved'
        BY <1>1, <2>1
      <3> QED BY <1>3, <1>7, <2>1, <2>4, <3>1, <3>2, <3>3, Zenon DEF Tracing
    <2>7. Dispatching' /\ Running'
      BY <1>7, Zenon DEF Dispatching, Running
    <2> QED BY <1>3, <1>4, <2>6, <2>7, TypePartsNext, Zenon DEF Inv, ControlInv
  <1> QED BY <1>1, <1>6, <1>7, Zenon

(* The line is cached, or the flush that was asked for meanwhile is made.  *)
LEMMA TraceLeavesKeep ==
    ASSUME Inv, TraceCached \/ TraceFlushed PROVE Inv'
  <1>0. TypeOK /\ CacheInv /\ ControlInv
    BY Zenon DEF Inv
  <1>1. /\ at = "traced" /\ quiet /\ enabled' = enabled
        /\ at' = "loop" /\ pc' = pc /\ key' = NoKey
    BY Zenon DEF TraceCached, TraceFlushed, leaveTrace
  <1>2. ran' = Quiet /\ mem' = mem /\ map' = map /\ overlay' = overlay
    BY <1>1, Zenon DEF quiet
  <1>3. enabled /\ ~overlay
    BY <1>0, <1>1, Zenon DEF ControlInv, OverlaySeen, Engaged
  <1>4. CacheInv' /\ CacheType' /\ (win' = win \/ win' = NoWindow)
    <2>1. CASE TraceCached
      BY <1>0, <2>1, CacheRecorded, Zenon DEF ControlInv, TraceCached
    <2>2. CASE TraceFlushed
      <3>1. flushAll
        BY <2>2, Zenon DEF TraceFlushed
      <3> QED BY <1>0, <1>2, <3>1, CacheFlushed, Zenon DEF ControlInv, TypeOK
    <2> QED BY <2>1, <2>2, Zenon
  <1>5. GuestType' /\ ControlType'
    BY <1>0, <1>1, <1>2, <1>4, EntriesArePcs, Zenon DEF GuestType, ControlType, TypeOK
  <1>6. WindowPlaced' /\ OverlaySeen' /\ DisabledEmpty'
    BY <1>0, <1>1, <1>2, <1>3, <1>4, Zenon DEF ControlInv, WindowPlaced, OverlaySeen, DisabledEmpty
  <1> QED BY <1>1, <1>4, <1>5, <1>6, AtLargeKeeps, TypePartsNext, Zenon DEF Inv

-----------------------------------------------------------------------------
(* Generated code.                                                         *)

(* The word a block executes is the one memory holds at pc.                *)
LEMMA NativeSeen ==
    ASSUME Inv, at = "native"
    PROVE  /\ block.text[pc[2]] = Reference!Seen /\ block.text[pc[2]] \in Values
           /\ next \in LPages \X Offsets
           /\ pc[2] + 1 <= key[2] + block.n /\ key[2] <= pc[2] + 1
           /\ pc[2] \in Int /\ key[2] \in Int /\ block.n \in Int
  <1>0. TypeOK /\ CacheInv /\ ControlInv
    BY Zenon DEF Inv
  <1>1. /\ key \in Live /\ blocks[key].proved /\ ~moved
        /\ pc[1] = key[1] /\ key[2] <= pc[2] /\ ~tripped /\ ~overlay
    BY <1>0, Zenon DEF ControlInv, Running, Dispatching, OverlaySeen, Engaged
  <1>2. blocks[key].page = map[key[1]]
    BY <1>0, <1>1, Zenon DEF CacheInv, ProvedPlaced
  <1>3. ~doomed(key)
    BY <1>0, <1>1, QuietGuard, Zenon DEF CacheInv
  <1>4. /\ key \in Entries /\ blocks[key] \in Block
        /\ \A o \in Span(blocks[key]) : blocks[key].text[o] \in Values
    BY <1>0, <1>1, LiveBlock, Zenon
  <1>5. /\ pc[1] \in LPages /\ pc[2] \in Offsets /\ key[2] \in Offsets
        /\ blocks[key].n \in 1..maxInstrs /\ maxInstrs \in Nat /\ PageWords \in Nat
    BY <1>0, <1>4, EngineAssumption, Zenon DEF TypeOK, Block
  <1>6. pc[2] < key[2] + blocks[key].n
    BY <1>0, Zenon DEF ControlInv, Running
  <1>7. pc[2] \in Span(blocks[key]) /\ key[2] + blocks[key].n \in Offsets
    BY <1>0, <1>1, <1>5, <1>6, Zenon DEF CacheInv, LinesCopied
  <1>8. blocks[key].text[pc[2]] = mem[map[pc[1]]][pc[2]]
    BY <1>0, <1>1, <1>2, <1>3, <1>7 DEF CacheInv, CodeCurrent
  <1>9. pc[2] + 1 \in Offsets
    BY <1>5, <1>6, <1>7 DEF Offsets
  <1>10. next \in LPages \X Offsets
    BY <1>5, <1>9, Zenon DEF next
  <1>11. /\ pc[2] + 1 <= key[2] + block.n /\ key[2] <= pc[2] + 1
         /\ pc[2] \in Int /\ key[2] \in Int /\ block.n \in Int
    BY <1>1, <1>5, <1>6 DEF block, Offsets
  <1> QED BY <1>1, <1>4, <1>7, <1>8, <1>10, <1>11, Zenon DEF block, Reference!Seen

(* A step of a block that goes on at the next instruction or at its end.   *)
LEMMA NativeGoesOn ==
    ASSUME Inv, at = "native", pc' \in after,
           at' = "exit" \/ (at' = "native" /\ ~final),
           CacheInv', CacheType', GuestType', win' \in {win, NoWindow}, ~tripped',
           UNCHANGED <<map, overlay, enabled, key, moved, blocks>>
    PROVE  Inv'
  <1>0. TypeOK /\ ControlInv
    BY Zenon DEF Inv
  <1>1. /\ next \in LPages \X Offsets
        /\ pc[2] + 1 <= key[2] + block.n /\ key[2] <= pc[2] + 1
        /\ pc[2] \in Int /\ key[2] \in Int /\ block.n \in Int
    BY NativeSeen, Zenon
  <1>2. pc' \in LPages \X Offsets /\ (~final => pc' = next)
    BY <1>1, EntriesArePcs, Zenon DEF after
  <1>3. ControlType'
    BY <1>0, <1>2, Zenon DEF ControlType, TypeOK
  <1>4. WindowPlaced' /\ OverlaySeen' /\ DisabledEmpty'
    BY <1>0, Zenon DEF ControlInv, WindowPlaced, OverlaySeen, DisabledEmpty, Engaged, Live
  <1>5. Dispatching' /\ Tracing'
    BY Zenon DEF Dispatching, Tracing
  <1>6. Running'
    <2>1. ~moved /\ key \in Live /\ blocks[key].native /\ blocks[key].proved
          /\ pc[1] = key[1]
      BY <1>0, Zenon DEF ControlInv, Running
    <2>2. CASE at' = "exit"
      BY <2>1, <2>2, Zenon DEF Running
    <2>3. CASE at' = "native" /\ ~final
      <3>1. pc'[1] = pc[1] /\ pc'[2] = pc[2] + 1
        BY <1>2, <2>3 DEF next
      <3>2. pc[2] + 1 < key[2] + block.n
        BY <1>1, <2>3 DEF final
      <3>3. key[2] <= pc'[2] /\ pc'[2] < key[2] + block.n
        BY <1>1, <3>1, <3>2, Zenon
      <3> QED BY <2>1, <2>3, <3>1, <3>3, Zenon DEF Running, block, Live
    <2> QED BY <2>2, <2>3, Zenon
  <1> QED BY <1>3, <1>4, <1>5, <1>6, TypePartsNext, Zenon DEF Inv, ControlInv

(* A step of a block that leaves it, pc where it was or beyond.            *)
LEMMA NativeGivesUp ==
    ASSUME Inv, at \in {"native", "exit"}, at' \in {"lost", "left"}, pc' \in LPages \X Offsets,
           CacheInv', CacheType', GuestType', win' \in {win, NoWindow},
           UNCHANGED <<map, overlay, enabled, key>>
    PROVE  Inv'
  <1>0. TypeOK /\ ControlInv
    BY Zenon DEF Inv
  <1>1. ControlType'
    BY <1>0, Zenon DEF ControlType, TypeOK
  <1>2. WindowPlaced' /\ OverlaySeen' /\ DisabledEmpty'
    BY <1>0, Zenon DEF ControlInv, WindowPlaced, OverlaySeen, DisabledEmpty, Engaged
  <1> QED BY <1>1, <1>2, AtLargeKeeps, TypePartsNext, Zenon DEF Inv

(* An emitted instruction.                                                 *)
LEMMA NativeInstructionKeeps ==
    ASSUME Inv, NativeInstruction PROVE Inv'
  <1>0. TypeOK /\ CacheInv /\ ControlInv
    BY Zenon DEF Inv
  <1>1. /\ at = "native" /\ ran' = block.text[pc[2]] /\ goesOn
        /\ win' \in {win, NoWindow} /\ pendingFlush' = pendingFlush
        /\ UNCHANGED <<map, overlay, enabled, key, moved, cache>>
    BY Zenon DEF NativeInstruction, retire
  <1>2. blocks' = blocks /\ index' = index
    BY <1>1, Zenon DEF cache
  <1>3. StoreKeeps /\ guard' = guard
    <2>0. PICK t \in evicted :
             \/ noStore(t)
             \/ \E l \in LPages, s \in Stores, v \in Values : storeDirect(t, l, s, v, TRUE)
      BY Zenon DEF NativeInstruction
    <2>1. CASE noStore(t)
      BY <1>0, <1>1, <1>2, <2>1, NoStoreKeeps, Zenon
    <2>2. ASSUME NEW l \in LPages, NEW s \in Stores, NEW v \in Values,
                 storeDirect(t, l, s, v, TRUE)
          PROVE  StoreKeeps /\ guard' = guard
      BY <1>0, <1>1, <1>2, <2>2, DirectKeeps, Zenon
    <2> QED BY <2>0, <2>1, <2>2, Zenon
  <1>4. CacheInv' /\ CacheType'
    BY <1>0, <1>1, <1>3, CacheStored, Zenon DEF TypeOK
  <1>5. ran' \in Values
    BY <1>1, NativeSeen, Zenon
  <1>6. GuestType'
    BY <1>0, <1>1, <1>3, <1>5, Zenon DEF GuestType, TypeOK, StoreKeeps
  <1>7. ~tripped'
    BY <1>0, <1>1, <1>3, Zenon DEF ControlInv, Dispatching, tripped, hit
  <1>8. pc' \in after /\ (at' = "exit" \/ (at' = "native" /\ ~final))
    BY <1>1, Zenon DEF goesOn
  <1> QED BY <1>1, <1>2, <1>4, <1>6, <1>7, <1>8, NativeGoesOn, Zenon

(* An emitted store through the thunk.                                     *)
LEMMA NativeStoreKeeps ==
    ASSUME Inv, NativeStore PROVE Inv'
  <1>0. TypeOK /\ CacheInv /\ ControlInv
    BY Zenon DEF Inv
  <1>1. /\ at = "native" /\ win' \in {win, NoWindow}
        /\ pendingFlush' = pendingFlush
        /\ UNCHANGED <<map, overlay, enabled, key, moved, cache>>
    BY Zenon DEF NativeStore
  <1>2. blocks' = blocks /\ index' = index
    BY <1>1, Zenon DEF cache
  <1>3. PICK t \in evicted, l \in LPages, s \in Stores, v \in Values : storeMapped(t, l, s, v)
    BY Zenon DEF NativeStore
  <1>4. StoreKeeps
    BY <1>0, <1>1, <1>2, <1>3, MappedKeeps, Zenon
  <1>5. CacheInv' /\ CacheType'
    BY <1>0, <1>1, <1>4, CacheStored, Zenon DEF TypeOK
  <1>6. CASE hit'
    <2>1. at' = "lost" /\ ran' = Quiet /\ pc' = pc
      BY <1>6, Zenon DEF NativeStore
    <2>2. GuestType' /\ pc' \in LPages \X Offsets
      BY <1>0, <1>1, <1>4, <2>1, Zenon DEF GuestType, TypeOK, StoreKeeps
    <2> QED BY <1>1, <1>5, <2>1, <2>2, NativeGivesUp, Zenon
  <1>7. CASE ~hit'
    <2>1. /\ ran' = block.text[pc[2]] /\ pc' \in after
          /\ at' = "exit" \/ (at' = "native" /\ ~final)
      BY <1>1, <1>7, Zenon DEF NativeStore, retire, goesOn
    <2>2. ran' \in Values
      BY <1>1, <2>1, NativeSeen, Zenon
    <2>3. GuestType'
      BY <1>0, <1>1, <1>4, <2>2, Zenon DEF GuestType, TypeOK, StoreKeeps
    <2>4. ~tripped'
      BY <1>0, <1>1, <1>4, <1>7, Zenon DEF ControlInv, Dispatching, tripped, StoreKeeps
    <2> QED BY <1>1, <1>2, <1>5, <2>1, <2>3, <2>4, NativeGoesOn, Zenon
  <1> QED BY <1>6, <1>7, Zenon

(* An instruction the backend left to Moira.                               *)
LEMMA NativeStepKeeps ==
    ASSUME Inv, NativeStep PROVE Inv'
  <1>0. TypeOK /\ CacheInv /\ ControlInv
    BY Zenon DEF Inv
  <1>1. /\ at = "native" /\ plainInstruction
        /\ \/ at' = "left" /\ pc' \in Entries
           \/ /\ at' = IF hit' THEN "lost" ELSE IF final THEN "left" ELSE at
              /\ pc' \in after
        /\ pendingFlush' \in {pendingFlush, TRUE}
        /\ UNCHANGED <<enabled, key, moved, cache>>
    BY Zenon DEF NativeStep
  <1>2. pendingFlush' \in BOOLEAN
    BY <1>0, <1>1, Zenon DEF TypeOK
  <1>3. /\ CacheInv' /\ CacheType' /\ GuestType'
        /\ win' \in {win, NoWindow} /\ guard'.mapChanged = guard.mapChanged
        /\ map' = map /\ overlay' = overlay
    BY <1>1, <1>2, PlainKeeps, Zenon
  <1>4. CASE at' \in {"lost", "left"}
    <2>1. pc' \in LPages \X Offsets
      BY <1>1, NativeSeen, EntriesArePcs, Zenon DEF after
    <2> QED BY <1>1, <1>3, <1>4, <2>1, NativeGivesUp, Zenon
  <1>5. CASE at' \notin {"lost", "left"}
    <2>1. ~hit' /\ ~final /\ at' = "native" /\ pc' \in after
      BY <1>1, <1>5, Zenon
    <2>2. ~tripped'
      BY <1>0, <1>1, <1>3, <2>1, Zenon DEF ControlInv, Dispatching, tripped
    <2>3. blocks' = blocks
      BY <1>1, Zenon DEF cache
    <2> QED BY <1>1, <1>3, <2>1, <2>2, <2>3, NativeGoesOn, Zenon
  <1> QED BY <1>4, <1>5, Zenon

(* A block is linked to the next, or left.                                 *)
LEMMA NativeTurnsKeep ==
    ASSUME Inv, NativeLink \/ NativeLeaves PROVE Inv'
  <1>0. TypeOK /\ CacheInv /\ ControlInv
    BY Zenon DEF Inv
  <1>1. /\ at \in {"native", "exit"} /\ quiet /\ win' = win /\ enabled' = enabled
        /\ pc' = pc /\ UNCHANGED <<moved, pendingFlush, cache, dtlb, guard>>
    BY Zenon DEF NativeLink, NativeLeaves, goto
  <1>2. /\ CacheInv' /\ CacheType' /\ GuestType' /\ WindowPlaced' /\ DisabledEmpty'
        /\ Live' = Live /\ blocks' = blocks /\ moved' = moved /\ map' = map
        /\ mem' = mem /\ overlay' = overlay /\ tripped' = tripped /\ guard' = guard
        /\ win' \in {NoWindow} \cup Window
    BY <1>1, ChoiceKeeps, Zenon
  <1>3. CASE NativeLeaves
    <2>1. at' = "left" /\ pc' \in LPages \X Offsets /\ key' = key
      BY <1>0, <1>1, <1>3, Zenon DEF NativeLeaves, goto, TypeOK
    <2> QED BY <1>1, <1>2, <2>1, NativeGivesUp, Zenon
  <1>4. CASE NativeLink
    <2>1. at = "exit" /\ pc \in Entries /\ links[linkIndex[pc]] = pc
      BY <1>4, Zenon DEF NativeLink
    <2>2. at' = "native" /\ key' = pc
      BY <1>4, Zenon DEF NativeLink
    <2>3. linkIndex[pc] \in Slots /\ pc # NoKey /\ pc \in LPages \X Offsets
      BY <2>1, EngineAssumption, Zenon
    <2>4. pc \in Live /\ blocks[pc].native /\ blocks[pc].proved
      BY <1>0, <2>1, <2>3, Zenon DEF CacheInv, NoDangling
    <2>5. pc[2] <= pc[2] /\ pc[2] < pc[2] + blocks[pc].n
      <3>1. blocks[pc] \in Block
        BY <1>0, <2>4, LiveBlock, Zenon
      <3> QED BY <2>3, <3>1, EngineAssumption, SMTT(30) DEF Block, Offsets
    <2>6. ControlType'
      BY <1>0, <1>1, <1>2, <2>1, <2>2, <2>3, Zenon DEF ControlType, TypeOK
    <2>7. OverlaySeen'
      BY <1>0, <1>1, <1>2, <2>2, Zenon DEF ControlInv, OverlaySeen, Engaged
    <2>8. Dispatching' /\ Tracing'
      BY <1>0, <1>1, <1>2, <2>2, Zenon DEF ControlInv, Dispatching, Tracing
    <2>9. ~moved'
      <3>1. ~moved
        BY <1>0, <1>1, Zenon DEF ControlInv, Running
      <3> QED BY <1>1, <3>1
    <2>10. Running'
      BY <1>1, <1>2, <2>2, <2>4, <2>5, <2>9, Zenon DEF Running
    <2> QED BY <1>2, <2>6, <2>7, <2>8, <2>10, TypePartsNext, Zenon DEF Inv, ControlInv
  <1> QED BY <1>3, <1>4, Zenon

(* Back in the engine: flush or service.                                   *)
LEMMA AfterRunKeeps ==
    ASSUME Inv, AfterRun PROVE Inv'
  <1>0. TypeOK /\ CacheInv /\ ControlInv
    BY Zenon DEF Inv
  <1>1. /\ at \in {"left", "lost"} /\ quiet
        /\ IF pendingFlush THEN emptyCache ELSE serviceGuard
        /\ win' \in {win, NoWindow} /\ at' \in {"interp", "loop"} /\ key' = NoKey
        /\ enabled' = enabled /\ pc' = pc
    BY Zenon DEF AfterRun
  <1>2. ran' = Quiet /\ mem' = mem /\ map' = map /\ overlay' = overlay
    BY <1>1, Zenon DEF quiet
  <1>3. CacheInv' /\ CacheType'
    BY <1>0, <1>1, <1>2, CacheEmptied, CacheServiced, Zenon
  <1>4. enabled /\ ~overlay
    BY <1>0, <1>1, Zenon DEF ControlInv, OverlaySeen, Engaged
  <1>5. GuestType' /\ ControlType'
    BY <1>0, <1>1, <1>2, Zenon DEF GuestType, ControlType, TypeOK
  <1>6. WindowPlaced' /\ OverlaySeen' /\ DisabledEmpty'
    BY <1>0, <1>1, <1>2, <1>4, Zenon DEF ControlInv, WindowPlaced, OverlaySeen, DisabledEmpty
  <1> QED BY <1>1, <1>3, <1>5, <1>6, AtLargeKeeps, TypePartsNext, Zenon DEF Inv

-----------------------------------------------------------------------------
(* The host, the initial states, and the theorem.                          *)

(* The host restarts, loads a state, turns the engine on or off.           *)
LEMMA HostKeeps ==
    ASSUME Inv, Host PROVE Inv'
  <1>0. TypeOK /\ CacheInv /\ ControlInv /\ at = "loop"
    BY Zenon DEF Inv, Host, Restart, LoadState, SetEnabled
  <1>1. CASE Restart \/ LoadState
    <2>1. /\ mapChanged /\ dtlb' = EmptyDtlb /\ ran' = Quiet
          /\ at' = at /\ pc' \in Entries /\ key' = key /\ enabled' = enabled
          /\ moved' = TRUE /\ win' = NoWindow /\ UNCHANGED <<pendingFlush, cache>>
      BY <1>1, Zenon DEF Restart, LoadState
    <2>2. /\ mem' \in [PPages -> [Offsets -> Values]] /\ map' \in [LPages -> PPages]
          /\ overlay' \in BOOLEAN
      BY <1>0, <1>1, EngineAssumption, Zenon DEF Restart, LoadState, TypeOK
    <2>3. /\ guard' = guard \/ guard' = [guard EXCEPT !.mapChanged = TRUE]
          /\ enabled => guard'.mapChanged
      BY <1>0, <2>1, Zenon DEF mapChanged, TypeOK
    <2>4. mem' = mem \/ Live = {} \/ guard'.mapChanged
      BY <1>0, <2>3, Zenon DEF ControlInv, DisabledEmpty
    <2>5. CacheInv' /\ CacheType'
      BY <1>0, <2>1, <2>3, <2>4, CacheMoved, Zenon
    <2>6. GuestType' /\ ControlType'
      BY <1>0, <2>1, <2>2, EntriesArePcs, Zenon DEF GuestType, ControlType, TypeOK
    <2>7. Live' = Live
      BY <2>1, Zenon DEF cache, Live
    <2>8. WindowPlaced' /\ DisabledEmpty'
      BY <1>0, <2>1, <2>2, <2>7, Zenon DEF ControlInv, WindowPlaced, DisabledEmpty
    <2>9. OverlaySeen'
      BY <1>0, <2>1, Zenon DEF OverlaySeen, Engaged
    <2> QED BY <1>0, <2>1, <2>5, <2>6, <2>8, <2>9, AtLargeKeeps, TypePartsNext, Zenon DEF Inv
  <1>2. CASE SetEnabled
    <2>1. /\ flushAll /\ enabled' \in BOOLEAN /\ quiet
          /\ at' = at /\ pc' = pc /\ key' = key
      BY <1>2, Zenon DEF SetEnabled
    <2>2. ran' = Quiet /\ mem' = mem /\ map' = map /\ overlay' = overlay
      BY <2>1, Zenon DEF quiet
    <2>3. CacheInv' /\ CacheType' /\ Live' = {} /\ win' = NoWindow
      BY <1>0, <2>1, <2>2, CacheFlushed, Zenon DEF ControlInv, TypeOK
    <2>4. GuestType' /\ ControlType'
      BY <1>0, <2>1, <2>2, <2>3, Zenon DEF GuestType, ControlType, TypeOK
    <2>5. WindowPlaced' /\ OverlaySeen' /\ DisabledEmpty'
      BY <1>0, <2>1, <2>2, <2>3, Zenon DEF WindowPlaced, OverlaySeen, DisabledEmpty, Engaged
    <2> QED BY <1>0, <2>1, <2>3, <2>4, <2>5, AtLargeKeeps, TypePartsNext, Zenon DEF Inv
  <1> QED BY <1>1, <1>2, Zenon DEF Host

(* The engine starts with an empty cache.                                  *)
LEMMA InitInv == Init => Inv
  <1> SUFFICES ASSUME Init PROVE Inv
    BY Zenon
  <1>1. Live = {}
    BY Zenon DEF Init, Live
  <1>2. guard \in Guard /\ ~guard.overflow /\ ~guard.mapChanged
    BY Zenon DEF Init, Guard, ClearGuard
  <1>3. GuestType
    BY EngineAssumption, Zenon DEF Init, GuestType
  <1>4. ControlType
    BY EntriesArePcs, Zenon DEF Init, ControlType
  <1>5. CacheType
    BY <1>2, Zenon DEF Init, CacheType, MarksType, EmptyLinks, EmptyDtlb
  <1>6. LinesCopied /\ NoEmptySpan /\ ProvedPlaced /\ OverflowMeansHit /\ CodeCurrent
    BY <1>1, <1>2, Zenon DEF LinesCopied, NoEmptySpan, ProvedPlaced, OverflowMeansHit, CodeCurrent
  <1>7. MaskCoversCode /\ NoDangling
    BY Zenon DEF Init, MaskCoversCode, EmptyDtlb, NoDangling, EmptyLinks
  <1>8. MarksExact
    BY <1>1, Zenon DEF Init, MarksExact
  <1>9. ControlInv
    BY <1>1, Zenon DEF Init, ControlInv, WindowPlaced, OverlaySeen, Engaged, DisabledEmpty,
                Dispatching, Tracing, Running
  <1> QED BY <1>3, <1>4, <1>5, <1>6, <1>7, <1>8, <1>9, TypeParts, Zenon DEF Inv, CacheInv

(* Every step keeps the invariant.                                         *)
LEMMA NextInv ==
    ASSUME Inv, [Next]_vars, ~BackPatch PROVE Inv'
  <1>1. CASE Interpret
    BY <1>1, InterpretPlainKeeps, InterpretOthersKeep, LoopChoicesKeep, Zenon DEF Interpret
  <1>2. CASE Loop
    BY <1>2, LoopOffKeeps, LoopChoicesKeep, ArmKeeps, Zenon DEF Loop
  <1>3. CASE Dispatch
    BY <1>3, GenerationKeeps, DispatchKeeps, StaleKeeps, LoopChoicesKeep, CompileKeeps,
       CompileFailsKeep, EntersKeep, Zenon DEF Dispatch
  <1>4. CASE Record
    BY <1>4, EntersKeep, EvictKeeps, TraceInstructionKeeps, TraceBreaksKeeps,
       TraceLeavesKeep, Zenon DEF Record
  <1>5. CASE Generated
    BY <1>5, NativeInstructionKeeps, NativeStoreKeeps, NativeStepKeeps, LoopChoicesKeep,
       NativeTurnsKeep, AfterRunKeeps, Zenon DEF Generated
  <1>6. CASE Host
    BY <1>6, HostKeeps, Zenon
  <1>7. CASE UNCHANGED vars
    <2>1. UNCHANGED <<guest, control, win, moved, pendingFlush, cache, dtlb, guard>>
      BY <1>7, Zenon DEF vars
    <2>2. CacheInv' /\ CacheType'
      BY <2>1, CacheFrame, Zenon DEF Inv, guest
    <2>3. GuestType' /\ ControlType'
      BY <2>1, Zenon DEF guest, control, GuestType, ControlType, Inv, TypeOK
    <2>4. Live' = Live /\ blocks' = blocks
      BY <2>1, Zenon DEF cache, Live
    <2>5. WindowPlaced' /\ OverlaySeen' /\ DisabledEmpty'
      BY <2>1, <2>4, Zenon DEF guest, control, Inv, ControlInv, WindowPlaced, OverlaySeen, Engaged,
                        DisabledEmpty, covers
    <2>6. Dispatching'
      BY <2>1, <2>4, Zenon DEF guest, control, Inv, ControlInv, Dispatching, covers, tripped, hit
    <2>7. Tracing' /\ Running'
      BY <2>1, <2>4, Zenon DEF guest, control, Inv, ControlInv, Tracing, Running, stop
    <2> QED BY <2>2, <2>3, <2>5, <2>6, <2>7, TypePartsNext, Zenon DEF Inv, ControlInv
  <1> QED BY <1>1, <1>2, <1>3, <1>4, <1>5, <1>6, <1>7, Zenon DEF Next, executeUntil

(* The engine keeps its invariant: when no traced line stores into what it *)
(* has executed of itself, whatever the program stores, remaps and flushes *)
(* and whenever the host restarts, loads a state or turns the engine off,  *)
(* record, serviceGuard, evictColdBlocks, fillDtlb and the dispatch leave  *)
(* the cache, its marks, the guard and the data TLB in agreement.          *)
THEOREM Invariance ==
    ASSUME ~BackPatch PROVE Spec => []Inv
  <1>1. Init => Inv
    BY InitInv, Zenon
  <1>2. Inv /\ [Next]_vars => Inv'
    BY NextInv, Zenon
  <1> QED BY <1>1, <1>2, PTL DEF Spec

(* Every variable keeps its type.                                          *)
THEOREM TypeCorrect ==
    ASSUME ~BackPatch PROVE Spec => []TypeOK
  <1>1. Inv => TypeOK
    BY Zenon DEF Inv
  <1> QED BY <1>1, Invariance, PTL

(* A cached block is the code memory holds, or the guard has what it needs *)
(* to drop it: note, serviceGuard and the masks miss no store.             *)
THEOREM CodeIsCurrent ==
    ASSUME ~BackPatch PROVE Spec => []CodeCurrent
  <1>1. Inv => CodeCurrent
    BY Zenon DEF Inv, CacheInv
  <1> QED BY <1>1, Invariance, PTL

(* No entry fillDtlb has made lets a store slip past the guard.            *)
THEOREM MasksCover ==
    ASSUME ~BackPatch PROVE Spec => []MaskCoversCode
  <1>1. Inv => MaskCoversCode
    BY Zenon DEF Inv, CacheInv
  <1> QED BY <1>1, Invariance, PTL

(* markPages and unmarkPages stay inverses, however many blocks come and   *)
(* go.                                                                     *)
THEOREM MarksAreExact ==
    ASSUME ~BackPatch PROVE Spec => []MarksExact
  <1>1. Inv => MarksExact
    BY Zenon DEF Inv, CacheInv
  <1> QED BY <1>1, Invariance, PTL

(* No link and no dispatch slot outlives its block.                        *)
THEOREM NothingDangles ==
    ASSUME ~BackPatch PROVE Spec => []NoDangling
  <1>1. Inv => NoDangling
    BY Zenon DEF Inv, CacheInv
  <1> QED BY <1>1, Invariance, PTL

-----------------------------------------------------------------------------
(* The refinement: every step is the interpreter's.                        *)

(* A store of the engine's is a store of the interpreter's.                *)
LEMMA StoreIsStore ==
    ASSUME TypeOK, ~overlay, NEW l \in LPages, NEW s \in Stores, NEW v \in Values,
           mem' = written(map[l], s, v), UNCHANGED <<map, overlay>>
    PROVE  Reference!Store
  <1>1. map[l] \in PPages /\ mem \in [PPages -> [Offsets -> Values]]
    BY Zenon DEF TypeOK
  <1>2. Reference!Offsets = Offsets /\ Reference!Words(s) = Words(s)
    BY Zenon DEF Reference!Offsets, Offsets, Reference!Words, Words
  <1>3. Reference!Filled(mem[map[l]], s, v)
           = [o \in Offsets |-> IF o \in Words(s) THEN v ELSE mem[map[l]][o]]
    BY <1>2, Zenon DEF Reference!Filled
  <1>4. mem' = [mem EXCEPT ![map[l]] = Reference!Filled(mem[map[l]], s, v)]
    BY <1>1, <1>3, Zenon DEF written
  <1> QED BY <1>4, Zenon DEF Reference!Store

(* What lands is a store of the interpreter's, or nothing is stored.       *)
LEMMA LandedStores ==
    ASSUME TypeOK, Landed, UNCHANGED <<map, overlay>>
    PROVE  Reference!None \/ Reference!Store
  <1>1. CASE mem' = mem
    BY <1>1, Zenon DEF Reference!None
  <1>2. ASSUME NEW l \in LPages, NEW s \in Stores, NEW v \in Values, ~overlay,
               mem' = written(map[l], s, v)
        PROVE  Reference!Store
    BY <1>2, StoreIsStore, Zenon
  <1> QED BY <1>1, <1>2, Zenon DEF Landed

(* Every entry, and every pc, is one the interpreter may go on from.       *)
LEMMA Jumps ==
    ASSUME pc' \in Entries \/ pc' \in LPages \X Offsets PROVE Reference!Jump
  BY EntriesArePcs, Zenon DEF Reference!Jump, Reference!Offsets, Offsets

(* An instruction through Moira.                                           *)
LEMMA PlainExecutes ==
    ASSUME Inv, plainInstruction, pendingFlush' \in BOOLEAN, UNCHANGED <<moved, cache>>,
           Reference!Jump
    PROVE  Reference!Next
  <1>1. /\ Landed /\ ran' = Reference!Seen /\ map' = map /\ overlay' = overlay
    BY PlainKeeps, Zenon
  <1>2. Reference!None \/ Reference!Store
    BY <1>1, LandedStores, Zenon DEF Inv
  <1> QED BY <1>1, <1>2, Zenon DEF Reference!Next, Reference!Execute

(* A step that only turns inside the engine.                               *)
LEMMA QuietPauses == quiet /\ pc' = pc => Reference!Next
  BY Zenon DEF quiet, Reference!Next, Reference!Pause

(* What is interpreted is what the interpreter executes.                   *)
LEMMA InterpretRefines ==
    ASSUME Inv, Interpret PROVE Reference!Next
  <1>0. TypeOK /\ WindowPlaced /\ OverlaySeen
    BY Zenon DEF Inv, ControlInv
  <1>1. CASE WindowLost
    BY <1>1, QuietPauses, Zenon DEF WindowLost
  <1>2. CASE InterpretPlain
    <2>1. /\ plainInstruction /\ pendingFlush' \in BOOLEAN /\ pc' \in Entries
          /\ UNCHANGED <<moved, cache>>
      BY <1>0, <1>2, Zenon DEF InterpretPlain, onward, TypeOK
    <2> QED BY <2>1, Jumps, PlainExecutes, Zenon
  <1>4. CASE InterpretInterrupt
    <2>1. /\ accesses /\ ran' = Taken /\ pendingFlush' \in BOOLEAN /\ pc' \in Entries
          /\ UNCHANGED <<moved, cache>>
      BY <1>0, <1>4, Zenon DEF InterpretInterrupt, onward, retire, TypeOK
    <2>2. Landed /\ map' = map /\ overlay' = overlay
      BY <2>1, AccessesKeep, Zenon
    <2>3. Reference!Jump /\ (Reference!None \/ Reference!Store)
      BY <1>0, <2>1, <2>2, Jumps, LandedStores, Zenon
    <2> QED BY <2>1, <2>3, Zenon DEF Reference!Next, Reference!Interrupt
  <1>3. CASE InterpretMapMoved \/ InterpretCacheFlush \/ InterpretOverlayDown
    <2>1. pc' \in Entries /\ ran' = Fetch
      BY <1>3, Zenon DEF InterpretMapMoved, InterpretCacheFlush, InterpretOverlayDown,
                  onward, retire
    <2>2. ran' = Reference!Seen
      BY <1>0, <2>1, FetchSeen, Zenon
    <2>3. Reference!None \/ Reference!Translate \/ Reference!OverlayDown
      BY <1>3, Zenon DEF InterpretMapMoved, InterpretCacheFlush, InterpretOverlayDown,
                  Reference!None, Reference!Translate, Reference!OverlayDown
    <2> QED BY <2>1, <2>2, <2>3, Jumps, Zenon DEF Reference!Next, Reference!Execute
  <1> QED BY <1>1, <1>2, <1>3, <1>4, Zenon DEF Interpret

(* So is what is traced.                                                   *)
LEMMA RecordRefines ==
    ASSUME Inv, Record PROVE Reference!Next
  <1>1. CASE StartTrace \/ EvictCold \/ TraceEnds \/ TraceCached \/ TraceFlushed
    BY <1>1, QuietPauses, Zenon DEF StartTrace, EvictCold, TraceEnds, TraceCached, TraceFlushed,
       leaveTrace, goto
  <1>2. CASE TraceInstruction \/ TraceBreaks
    <2>1. /\ plainInstruction /\ pendingFlush' \in BOOLEAN
          /\ UNCHANGED <<moved, cache>>
      BY <1>2, Zenon DEF TraceInstruction, TraceBreaks, Inv, TypeOK
    <2>2. pc' \in Entries \/ pc' = next
      BY <1>2, Zenon DEF TraceInstruction, TraceBreaks
    <2>3. next \in LPages \X Offsets
      <3>1. covers(pc) /\ pc[1] \in LPages /\ pc[2] \in Offsets /\ PageWords \in Nat
        BY <1>2, EngineAssumption, Zenon DEF TraceInstruction, TraceBreaks, Inv, TypeOK
      <3>2. pc[2] + 1 \in Offsets
        BY <3>1, SMTT(20) DEF covers, Offsets
      <3> QED BY <3>1, <3>2, Zenon DEF next
    <2> QED BY <2>1, <2>2, <2>3, Jumps, PlainExecutes, Zenon
  <1> QED BY <1>1, <1>2, Zenon DEF Record

(* Generated code executes what memory holds, and a store that leaves its  *)
(* block has landed before the instruction it is replayed by.              *)
LEMMA GeneratedRefines ==
    ASSUME Inv, Generated PROVE Reference!Next
  <1>0. TypeOK /\ CacheInv /\ ControlInv
    BY Zenon DEF Inv
  <1>1. CASE NativeUncovered \/ NativeLink \/ NativeLeaves \/ AfterRun
    BY <1>1, QuietPauses, Zenon DEF NativeUncovered, NativeLink, NativeLeaves, AfterRun, goto
  <1>a. ASSUME at = "native", pc' \in after PROVE Reference!Jump
    <2>1. pc' \in Entries \/ pc' \in LPages \X Offsets
      BY <1>a, NativeSeen, Zenon DEF after
    <2> QED BY <2>1, Jumps, Zenon
  <1>2. CASE NativeStep
    <2>1. /\ plainInstruction /\ pendingFlush' \in BOOLEAN /\ UNCHANGED <<moved, cache>>
          /\ at = "native" /\ (pc' \in Entries \/ pc' \in after)
      BY <1>0, <1>2, Zenon DEF NativeStep, TypeOK
    <2> QED BY <1>a, <2>1, Jumps, PlainExecutes, Zenon
  <1>3. CASE NativeInstruction
    <2>1. /\ at = "native" /\ ran' = block.text[pc[2]] /\ pc' \in after
          /\ UNCHANGED <<map, overlay, cache>>
      BY <1>3, Zenon DEF NativeInstruction, retire, goesOn
    <2>2. ran' = Reference!Seen /\ ~overlay
      BY <1>0, <2>1, NativeSeen, Zenon DEF ControlInv, OverlaySeen, Engaged
    <2>3. Reference!None \/ Reference!Store
      <3>0. PICK t \in evicted :
               \/ noStore(t)
               \/ \E l \in LPages, s \in Stores, v \in Values : storeDirect(t, l, s, v, TRUE)
        BY <1>3, Zenon DEF NativeInstruction
      <3>1. CASE noStore(t)
        BY <2>1, <3>1, Zenon DEF noStore, Reference!None
      <3>2. ASSUME NEW l \in LPages, NEW s \in Stores, NEW v \in Values,
                   storeDirect(t, l, s, v, TRUE)
            PROVE  Reference!Store
        <4>1. blocks' = blocks /\ index' = index /\ map' = map /\ overlay' = overlay
          BY <2>1, Zenon DEF cache
        <4>2. mem' = written(map[l], s, v)
          BY <1>0, <3>2, <4>1, DirectKeeps, Zenon
        <4> QED BY <1>0, <2>2, <4>1, <4>2, StoreIsStore, Zenon
      <3> QED BY <3>0, <3>1, <3>2, Zenon
    <2> QED BY <1>a, <2>1, <2>2, <2>3, Zenon DEF Reference!Next, Reference!Execute
  <1>4. CASE NativeStore
    <2>1. /\ at = "native" /\ map' = map /\ overlay' = overlay
          /\ \/ ran' = Quiet /\ pc' = pc
             \/ ran' = block.text[pc[2]] /\ pc' \in after
      BY <1>4, Zenon DEF NativeStore, retire, goesOn
    <2>2. block.text[pc[2]] = Reference!Seen /\ ~overlay
      BY <1>0, <2>1, NativeSeen, Zenon DEF ControlInv, OverlaySeen, Engaged
    <2>3. PICK l \in LPages, s \in Stores, v \in Values : mem' = written(map[l], s, v)
      BY <1>4, Zenon DEF NativeStore, storeMapped
    <2>4. Reference!Store
      BY <1>0, <2>1, <2>2, <2>3, StoreIsStore, Zenon
    <2> QED BY <1>a, <2>1, <2>2, <2>4, Zenon
         DEF Reference!Next, Reference!Execute, Reference!EarlyStore
  <1> QED BY <1>1, <1>2, <1>3, <1>4, Zenon DEF Generated

(* The host does to the engine what it does to the interpreter.            *)
LEMMA HostRefines ==
    ASSUME Inv, Host PROVE Reference!Next
  <1>1. CASE Restart
    BY <1>1, Jumps, Zenon DEF Restart, Reference!Next, Reference!Restart
  <1>2. CASE LoadState
    <2>1. mem' \in [PPages -> [Reference!Offsets -> Values]]
      BY <1>2, EngineAssumption, Zenon DEF LoadState, Reference!Offsets, Offsets
    <2> QED BY <1>2, <2>1, Jumps, Zenon DEF LoadState, Reference!Next, Reference!LoadState
  <1>3. CASE SetEnabled
    BY <1>3, QuietPauses, Zenon DEF SetEnabled
  <1> QED BY <1>1, <1>2, <1>3, Zenon DEF Host

(* Every step is one of the interpreter, or a pause.                       *)
LEMMA StepRefines ==
    ASSUME Inv, [Next]_vars PROVE [Reference!Next]_(Reference!state)
  <1>1. CASE Interpret
    BY <1>1, InterpretRefines, Zenon
  <1>2. CASE Loop
    BY <1>2, QuietPauses, Zenon DEF Loop, LoopOff, LoopInterpret, LoopBackoff, ArmCovered, ArmProbe,
       ArmFails, goto
  <1>3. CASE Dispatch
    BY <1>3, QuietPauses, Zenon DEF Dispatch, GenerationMoved, DispatchHit, DispatchFind,
       DispatchReprove, found, DispatchStale, RunWindow, Compile, CompileRejected,
       CompileCapacity, Run, goto, control
  <1>4. CASE Record
    BY <1>4, RecordRefines, Zenon
  <1>5. CASE Generated
    BY <1>5, GeneratedRefines, Zenon
  <1>6. CASE Host
    BY <1>6, HostRefines, Zenon
  <1>7. CASE UNCHANGED vars
    BY <1>7, Zenon DEF vars, guest, control, Reference!state
  <1> QED BY <1>1, <1>2, <1>3, <1>4, <1>5, <1>6, <1>7, Zenon DEF Next, executeUntil

(* The translating engine implements the interpreter: what it executes, by *)
(* the interpreter, the window, a trace or generated code, linked or not,  *)
(* is at every step the word the guest's memory holds at its pc, and its   *)
(* pc moves only by executing one, by an interrupt or by the host.         *)
THEOREM Refinement ==
    ASSUME ~BackPatch PROVE Spec => ImplementsInterpreter
  <1>1. Init => Reference!Init
    BY EngineAssumption, EntriesArePcs, Zenon
       DEF Init, Reference!Init, Reference!Offsets, Offsets
  <1>2. Inv /\ [Next]_vars => [Reference!Next]_(Reference!state)
    BY StepRefines, Zenon
  <1> QED BY <1>1, <1>2, Invariance, PTL DEF Spec, ImplementsInterpreter, Reference!Spec

INSTANCE FiniteSetTheorems

-----------------------------------------------------------------------------
(* Progress: every turn of the engine brings it nearer to an instruction.  *)

(* What the dispatch cache answers with is in the cache.                   *)
LEMMA HitIsLive ==
    ASSUME Inv, at = "armed", lookup
    PROVE  pc \in Live
  <1>1. pc \in Entries /\ NoDangling /\ TypeOK
    BY Zenon DEF Inv, CacheInv, ControlInv, Dispatching
  <1>2. dispatchIndex[pc] \in Slots /\ pc # NoKey
    BY <1>1, EngineAssumption, Zenon
  <1> QED BY <1>1, <1>2, Zenon DEF NoDangling, lookup

(* Blocks leave the cache in every step but the one that records one.      *)
LEMMA LiveShrinks ==
    ASSUME Inv, Next, ~TraceCached
    PROVE  Live' \subseteq Live
  <1>0. TypeOK /\ blocks \in [Entries -> {NoBlock} \cup Block]
    BY Zenon DEF Inv, TypeOK
  <1>1. ASSUME emptyCache PROVE Live' \subseteq Live
    BY <1>1, Zenon DEF emptyCache, Live
  <1>2. ASSUME UNCHANGED cache PROVE Live' \subseteq Live
    BY <1>2, Zenon DEF cache, Live
  <1>3. ASSUME NEW gone, erase(gone) PROVE Live' \subseteq Live
    BY <1>3, Zenon DEF erase, Live
  <1>4. ASSUME flushAll PROVE Live' \subseteq Live
    BY <1>1, <1>2, <1>4, Zenon DEF flushAll
  <1>5. ASSUME serviceGuard PROVE Live' \subseteq Live
    BY <1>1, <1>2, <1>3, <1>5, Zenon DEF serviceGuard
  <1>6. ASSUME NEW b, pc \in Live, blocks' = [blocks EXCEPT ![pc] = b] PROVE Live' \subseteq Live
    BY <1>0, <1>6, Zenon DEF Live
  <1>7. CASE Interpret
    BY <1>2, <1>4, <1>7, Zenon DEF Interpret, InterpretPlain, InterpretInterrupt, InterpretMapMoved,
                InterpretCacheFlush, InterpretOverlayDown, WindowLost
  <1>8. CASE Loop
    BY <1>2, <1>5, <1>8, Zenon DEF Loop, LoopOff, LoopInterpret, LoopBackoff, ArmCovered, ArmProbe,
                ArmFails
  <1>9. CASE Dispatch
    <2>1. CASE GenerationMoved
      BY <2>1, Zenon DEF GenerationMoved, unproved, Live
    <2>2. CASE DispatchHit \/ DispatchFind \/ DispatchReprove
      <3>1. pc \in Live
        BY <2>2, HitIsLive, Zenon DEF DispatchHit, DispatchFind, DispatchReprove
      <3> QED BY <1>6, <2>2, <3>1, Zenon DEF DispatchHit, DispatchFind, DispatchReprove, found
    <2>3. CASE DispatchStale
      BY <1>3, <2>3, Zenon DEF DispatchStale
    <2>4. CASE RunWindow \/ CompileRejected \/ Run
      BY <1>2, <2>4, Zenon DEF RunWindow, CompileRejected, Run
    <2>5. CASE Compile
      <3>1. pc \in Live
        BY <2>5, Zenon DEF Compile, Inv, ControlInv, Dispatching
      <3> QED BY <1>6, <2>5, <3>1, Zenon DEF Compile
    <2>6. CASE CompileCapacity
      BY <1>4, <2>6, Zenon DEF CompileCapacity
    <2> QED BY <1>9, <2>1, <2>2, <2>3, <2>4, <2>5, <2>6, Zenon DEF Dispatch
  <1>10. CASE Record
    <2>1. CASE EvictCold
      BY <2>1, Zenon DEF EvictCold, Live
    <2> QED BY <1>2, <1>4, <1>10, <2>1, Zenon DEF Record, StartTrace, TraceInstruction, TraceBreaks,
                TraceEnds, TraceFlushed
  <1>11. CASE Generated
    BY <1>1, <1>2, <1>5, <1>11, Zenon DEF Generated, NativeInstruction, NativeStore, NativeStep,
                NativeUncovered, NativeLink, NativeLeaves, AfterRun
  <1>12. CASE Host
    BY <1>2, <1>4, <1>12, Zenon DEF Host, Restart, LoadState, SetEnabled
  <1> QED BY <1>7, <1>8, <1>9, <1>10, <1>11, <1>12, Zenon DEF Next, executeUntil

(* The cache holds at most maxBlocks, and there is room for a traced line. *)
Capacity ==
    /\ IsFiniteSet(Live) /\ Cardinality(Live) <= maxBlocks
    /\ at \in {"trace", "traced"} => ~full

(* A smaller cache is no fuller.                                           *)
LEMMA SubsetCounts ==
    ASSUME IsFiniteSet(Live), NEW S \in SUBSET Live
    PROVE  /\ IsFiniteSet(S) /\ Cardinality(S) \in Nat /\ Cardinality(Live) \in Nat
           /\ Cardinality(S) <= Cardinality(Live)
           /\ S # Live => Cardinality(S) < Cardinality(Live)
  <1>1. IsFiniteSet(S) /\ Cardinality(S) <= Cardinality(Live)
        /\ (Cardinality(S) = Cardinality(Live) => S = Live)
    BY FS_Subset
  <1>2. Cardinality(S) \in Nat /\ Cardinality(Live) \in Nat
    BY <1>1, FS_CardinalityType, SMTT(30)
  <1> QED BY <1>1, <1>2

(* A trace starts when there is room.                                      *)
LEMMA TracesHaveRoom ==
    ASSUME Capacity, Next, at' \in {"trace", "traced"}
    PROVE  ~full /\ ~TraceCached
  <1>1. at \in {"trace", "traced"} \/ StartTrace
    <2>1. CASE Interpret
      BY <2>1, Zenon DEF Interpret, InterpretPlain, InterpretInterrupt, InterpretMapMoved,
                InterpretCacheFlush, InterpretOverlayDown, WindowLost, onward
    <2>2. CASE Loop
      BY <2>2, Zenon DEF Loop, LoopOff, LoopInterpret, LoopBackoff, ArmCovered, ArmProbe,
                ArmFails, goto
    <2>3. CASE Dispatch
      BY <2>3, Zenon DEF Dispatch, GenerationMoved, DispatchHit, DispatchFind, DispatchReprove, found,
                DispatchStale, RunWindow, Compile, CompileRejected, CompileCapacity, Run, goto, control
    <2>4. CASE Record
      BY <2>4, Zenon DEF Record, EvictCold, TraceInstruction, TraceBreaks, TraceEnds, TraceCached,
                TraceFlushed, goto
    <2>5. CASE Generated
      BY <2>5, Zenon DEF Generated, NativeInstruction, NativeStore, NativeStep, NativeUncovered,
                NativeLink, NativeLeaves, AfterRun, goto, goesOn
    <2>6. CASE Host
      BY <2>6, Zenon DEF Host, Restart, LoadState, SetEnabled, control
    <2> QED BY <2>1, <2>2, <2>3, <2>4, <2>5, <2>6, Zenon DEF Next, executeUntil
  <1>2. ~TraceCached
    BY Zenon DEF TraceCached, leaveTrace
  <1> QED BY <1>1, <1>2, Zenon DEF Capacity, StartTrace

(* Only a recorded line fills the cache, and room was made for it.         *)
LEMMA CapacityKept ==
    ASSUME Inv, Capacity, [Next]_vars PROVE Capacity'
  <1>0. maxBlocks \in Nat
    BY EngineAssumption
  <1>1. CASE TraceCached
    <2>1. /\ at = "traced" /\ blocks' = [blocks EXCEPT ![key] = newBlock] /\ at' = "loop"
          /\ blocks \in [Entries -> {NoBlock} \cup Block]
      BY <1>1, Zenon DEF TraceCached, leaveTrace, Inv, TypeOK
    <2>2. IsFiniteSet(Live) /\ Cardinality(Live) \in Nat /\ Cardinality(Live) < maxBlocks
      <3>1. IsFiniteSet(Live) /\ ~full
        BY <2>1, Zenon DEF Capacity
      <3>2. Cardinality(Live) \in Nat
        BY <3>1, FS_CardinalityType
      <3> QED BY <1>0, <3>1, <3>2, SMTT(30) DEF full
    <2>3. Live' \subseteq Live \cup {key}
      BY <2>1, Zenon DEF Live
    <2>4. /\ IsFiniteSet(Live \cup {key}) /\ Cardinality(Live \cup {key}) \in Nat
          /\ Cardinality(Live \cup {key}) <= Cardinality(Live) + 1
      <3>1. /\ IsFiniteSet(Live \cup {key})
            /\ Cardinality(Live \cup {key})
                  = IF key \in Live THEN Cardinality(Live) ELSE Cardinality(Live) + 1
        BY <2>2, FS_AddElement, SMTT(30)
      <3> QED BY <2>2, <3>1
    <2>5. /\ IsFiniteSet(Live') /\ Cardinality(Live') \in Nat
          /\ Cardinality(Live') <= Cardinality(Live \cup {key})
      <3> DEFINE S == Live'
                 T == Live \cup {key}
      <3> HIDE DEF S, T
      <3>1. S \subseteq T /\ IsFiniteSet(T)
        BY <2>3, <2>4, SMTT(30) DEF S, T
      <3>2. IsFiniteSet(S) /\ Cardinality(S) <= Cardinality(T)
        BY <3>1, FS_Subset, SMTT(30)
      <3>3. Cardinality(S) \in Nat
        BY <3>2, FS_CardinalityType, SMTT(30)
      <3> QED BY <3>2, <3>3 DEF S, T
    <2>6. Cardinality(Live') <= maxBlocks
      BY <1>0, <2>2, <2>4, <2>5, SMTT(30)
    <2> QED BY <2>1, <2>5, <2>6, SMTT(30) DEF Capacity
  <1>2. CASE ~TraceCached
    <2>1. Live' \subseteq Live
      <3>1. CASE Next
        BY <1>2, <3>1, LiveShrinks, SMTT(30)
      <3>2. CASE UNCHANGED vars
        BY <3>2, Zenon DEF vars, cache, Live
      <3> QED BY <3>1, <3>2
    <2>2. /\ IsFiniteSet(Live') /\ Cardinality(Live') \in Nat /\ Cardinality(Live) \in Nat
          /\ Cardinality(Live') <= Cardinality(Live) /\ Cardinality(Live) <= maxBlocks
      <3> DEFINE S == Live'
      <3> HIDE DEF S
      <3>1. S \in SUBSET Live /\ IsFiniteSet(Live)
        BY <2>1 DEF S, Capacity
      <3>2. /\ IsFiniteSet(S) /\ Cardinality(S) \in Nat /\ Cardinality(Live) \in Nat
            /\ Cardinality(S) <= Cardinality(Live)
        BY <3>1, SubsetCounts
      <3> QED BY <3>2 DEF S, Capacity
    <2>3. at' \in {"trace", "traced"} => ~full
      <3>1. CASE Next
        BY <3>1, TracesHaveRoom
      <3>2. CASE UNCHANGED vars
        BY <3>2, Zenon DEF vars, control, Capacity
      <3> QED BY <3>1, <3>2
    <2>4. ~full => ~full'
      BY <1>0, <2>2 DEF full
    <2>5. Cardinality(Live') <= maxBlocks
      BY <1>0, <2>2, SMTT(30)
    <2> QED BY <2>2, <2>3, <2>4, <2>5, ZenonT(30) DEF Capacity
  <1> QED BY <1>1, <1>2, SMTT(30)

(* What Distance is, place by place.                                       *)
Distances ==
    /\ at = "interp" => Distance = 1
    /\ at = "window" => Distance = IF covers(pc) THEN 1 ELSE 14
    /\ at = "trace" => Distance = IF pc = key THEN 2 ELSE 15
    /\ at = "armed" /\ pc \notin Live => Distance = IF moved THEN 5 ELSE IF full THEN 4 ELSE 3
    /\ at = "armed" /\ pc \in Live => Distance = IF moved THEN 12 ELSE 11
    /\ at = "loop" => Distance = IF Live = {} THEN 6 ELSE 13
    /\ at = "lost" => Distance = IF tripped THEN 7 ELSE 14
    /\ at = "native" => Distance = IF pc # key THEN 16 ELSE IF covers(pc) THEN 8 ELSE 15
    /\ at = "ready" => Distance = IF blocks[pc].native THEN 9 ELSE 10
    /\ at \in {"left", "traced"} => Distance = 14
    /\ at = "exit" => Distance = 16

(* The cases of Distance exclude one another.                              *)
LEMMA DistancesHold == Distances
  BY ZenonT(30) DEF Distances, Distance

(* ... after a step, too.                                                  *)
LEMMA DistancesNext == Distances'
  BY DistancesHold, PTL

(* An interpreted instruction is executed; a lost window leads back to the *)
(* loop.                                                                   *)
LEMMA InterpretAdvances ==
    ASSUME Inv, Interpret PROVE ran' # Quiet \/ Distance' < Distance
  <1>0. TypeOK /\ WindowPlaced /\ OverlaySeen
    BY Zenon DEF Inv, ControlInv
  <1>1. CASE WindowLost
    <2>1. at = "window" /\ ~covers(pc) /\ at' = "loop"
      BY <1>1, Zenon DEF WindowLost
    <2> QED BY <2>1, DistancesHold, DistancesNext, SMTT(30) DEF Distances
  <1>2. CASE InterpretPlain \/ InterpretMapMoved \/ InterpretCacheFlush \/ InterpretOverlayDown
    <2>1. ran' = Fetch
      BY <1>2, Zenon DEF InterpretPlain, plainInstruction, InterpretMapMoved, InterpretCacheFlush,
                InterpretOverlayDown, retire
    <2> QED BY <1>0, <2>1, FetchSeen, DistinctAssumption, Zenon
  <1>3. CASE InterpretInterrupt
    BY <1>3, DistinctAssumption, Zenon DEF InterpretInterrupt, retire
  <1> QED BY <1>1, <1>2, <1>3, Zenon DEF Interpret

(* The top of the loop arms a window or interprets.                        *)
LEMMA LoopAdvances ==
    ASSUME Inv, Capacity, Loop PROVE Distance' < Distance
  <1>1. at = "loop" /\ Live' \subseteq Live
    <2>1. ~TraceCached /\ Next
      BY Zenon DEF Loop, LoopOff, LoopInterpret, LoopBackoff, ArmCovered, ArmProbe,
                ArmFails, TraceCached,
                Next, executeUntil
    <2> QED BY <2>1, LiveShrinks, Zenon DEF Loop, LoopOff, LoopInterpret, LoopBackoff, ArmCovered, ArmProbe,
                ArmFails
  <1>2. at' = "interp" \/ at' = "armed"
    BY Zenon DEF Loop, LoopOff, LoopInterpret, LoopBackoff, ArmCovered, ArmProbe,
                ArmFails, goto
  <1>3. CASE at' = "interp"
    BY <1>1, <1>3, DistancesHold, DistancesNext, SMTT(30) DEF Distances
  <1>4. CASE at' = "armed"
    BY <1>1, <1>4, DistancesHold, DistancesNext, SMTT(30) DEF Distances
  <1> QED BY <1>2, <1>3, <1>4, SMTT(30)

(* A dispatch finds a block, drops it, or runs it.                         *)
LEMMA DispatchAdvances ==
    ASSUME Inv, Dispatch PROVE Distance' < Distance
  <1>0. /\ TypeOK /\ Dispatching /\ OverlaySeen /\ blocks \in [Entries -> {NoBlock} \cup Block]
    BY Zenon DEF Inv, ControlInv, TypeOK
  <1>1. CASE GenerationMoved
    <2>1. at = "armed" /\ moved /\ ~moved' /\ at' = at /\ pc' = pc
      BY <1>1, Zenon DEF GenerationMoved, control
    <2>2. Live' \subseteq Live
      BY <1>1, Zenon DEF GenerationMoved, unproved, Live
    <2>3. pc \in Live => pc' \in Live'
      <3>1. SUFFICES ASSUME pc \in Live PROVE pc \in Live'
        BY <2>1, Zenon
      <3>2. pc \in Entries /\ blocks'[pc] = [blocks[pc] EXCEPT !.proved = FALSE] /\ blocks[pc] \in Block
        BY <1>0, <1>1, <3>1, Zenon DEF GenerationMoved, unproved, Live
      <3>3. blocks'[pc] \in Block
        <4> DEFINE y == FALSE
        <4>1. y \in BOOLEAN
          OBVIOUS
        <4>2. blocks'[pc] = [blocks[pc] EXCEPT !.proved = y]
          BY <3>2
        <4> HIDE DEF y
        <4> QED BY <3>2, <4>1, <4>2, Zenon DEF Block
      <3> QED BY <3>2, <3>3, DistinctAssumption, Zenon DEF Live
    <2> QED BY <2>1, <2>2, <2>3, DistancesHold, DistancesNext, SMTT(30) DEF Distances
  <1>2. CASE DispatchHit \/ DispatchFind \/ DispatchReprove
    <2>1. at = "armed" /\ ~moved /\ pc \in Live /\ at' = "ready"
      BY <1>2, HitIsLive, Zenon DEF DispatchHit, DispatchFind, DispatchReprove, found, goto
    <2> QED BY <2>1, DistancesHold, DistancesNext, SMTT(30) DEF Distances
  <1>3. CASE DispatchStale
    <2>1. at = "armed" /\ ~moved /\ pc \in Live /\ at' = at /\ pc' = pc /\ moved' = moved
      BY <1>3, Zenon DEF DispatchStale, control
    <2>2. pc' \notin Live'
      BY <1>3, <2>1, Zenon DEF DispatchStale, erase, Live
    <2> QED BY <2>1, <2>2, DistancesHold, DistancesNext, SMTT(30) DEF Distances
  <1>4. CASE RunWindow \/ CompileRejected
    <2>1. at = "ready" /\ at' = "window" /\ pc' = pc /\ win' = win
      BY <1>4, Zenon DEF RunWindow, CompileRejected, goto
    <2>2. covers(pc)'
      BY <1>0, <2>1, Zenon DEF Dispatching, covers
    <2> QED BY <2>1, <2>2, DistancesHold, DistancesNext, SMTT(30) DEF Distances
  <1>5. CASE Compile
    <2>1. /\ at = "ready" /\ ~blocks[pc].native /\ at' = at /\ pc' = pc
          /\ blocks' = [blocks EXCEPT ![pc].native = TRUE] /\ pc \in Live
      BY <1>0, <1>5, Zenon DEF Compile, control, Dispatching
    <2>2. pc \in Entries /\ blocks[pc] \in Block
      BY <1>0, <2>1, LiveBlock, Zenon
    <2>3. blocks'[pc].native
      <3>1. blocks'[pc] = [blocks[pc] EXCEPT !.native = TRUE]
        BY <1>0, <2>1, <2>2, Zenon
      <3> QED BY <2>2, <3>1, Zenon DEF Block
    <2> QED BY <2>1, <2>3, DistancesHold, DistancesNext, SMTT(30) DEF Distances
  <1>6. CASE CompileCapacity
    <2>1. at = "ready" /\ at' = "loop" /\ flushAll /\ ~blocks[pc].native
      BY <1>6, Zenon DEF CompileCapacity, goto
    <2>2. Live' = {}
      BY <1>0, <2>1, Zenon DEF OverlaySeen, Engaged, flushAll, emptyCache, Live
    <2> QED BY <2>1, <2>2, DistancesHold, DistancesNext, SMTT(30) DEF Distances
  <1>7. CASE Run
    <2>1. at = "ready" /\ blocks[pc].native /\ at' = "native" /\ key' = pc /\ pc' = pc /\ win' = win
      BY <1>7, Zenon DEF Run
    <2>2. covers(pc)'
      BY <1>0, <2>1, Zenon DEF Dispatching, covers
    <2> QED BY <2>1, <2>2, DistancesHold, DistancesNext, SMTT(30) DEF Distances
  <1> QED BY <1>1, <1>2, <1>3, <1>4, <1>5, <1>6, <1>7, Zenon DEF Dispatch

(* A trace executes what it records, and room for it is made at once.      *)
LEMMA RecordAdvances ==
    ASSUME Inv, Capacity, Record PROVE ran' # Quiet \/ Distance' < Distance
  <1>0. TypeOK /\ WindowPlaced /\ OverlaySeen
    BY Zenon DEF Inv, ControlInv
  <1>1. CASE StartTrace
    <2>1. at = "armed" /\ ~moved /\ pc \notin Live /\ ~full /\ at' = "trace" /\ key' = pc /\ pc' = pc
      BY <1>1, Zenon DEF StartTrace
    <2> QED BY <2>1, DistancesHold, DistancesNext, SMTT(30) DEF Distances
  <1>2. CASE EvictCold
    <2>1. at = "armed" /\ ~moved /\ pc \notin Live /\ full /\ moved' = moved /\ pc' = pc
      BY <1>2, Zenon DEF EvictCold, goto
    <2>2. CASE cold = {}
      <3>1. at' = "interp"
        BY <1>2, <2>2, Zenon DEF EvictCold, goto
      <3> QED BY <2>1, <3>1, DistancesHold, DistancesNext, SMTT(30) DEF Distances
    <2>3. CASE cold # {}
      <3>1. at' = "armed"
        BY <1>2, <2>3, Zenon DEF EvictCold, goto
      <3>2. Live' \subseteq Live \ cold
        BY <1>2, Zenon DEF EvictCold, Live
      <3>3. cold \subseteq Live
        BY Zenon DEF cold
      <3>4. ~full'
        <4> DEFINE S == Live'
        <4> HIDE DEF S
        <4>1. S \in SUBSET Live /\ S # Live /\ IsFiniteSet(Live)
          BY <2>3, <3>2, <3>3, SMTT(30) DEF S, Capacity
        <4>2. /\ Cardinality(S) \in Nat /\ Cardinality(Live) \in Nat
              /\ Cardinality(S) < Cardinality(Live)
          BY <4>1, SubsetCounts, SMTT(30)
        <4>3. Cardinality(Live) <= maxBlocks /\ maxBlocks \in Nat
          BY EngineAssumption DEF Capacity
        <4>4. ~(Cardinality(S) >= maxBlocks)
          BY <4>2, <4>3
        <4> QED BY <4>4 DEF full, S
      <3>5. pc' \notin Live'
        BY <2>1, <3>2, Zenon
      <3> QED BY <2>1, <3>1, <3>4, <3>5, DistancesHold, DistancesNext, SMTT(30) DEF Distances
    <2> QED BY <2>2, <2>3
  <1>3. CASE TraceInstruction \/ TraceBreaks
    <2>1. ran' = Fetch
      BY <1>3, Zenon DEF TraceInstruction, TraceBreaks, plainInstruction, retire
    <2> QED BY <1>0, <2>1, FetchSeen, DistinctAssumption, Zenon
  <1>4. CASE TraceEnds
    <2>1. /\ at = "trace" /\ (pc = key => at' = "interp") /\ (pc # key => at' = "traced")
      BY <1>4, Zenon DEF TraceEnds
    <2> QED BY <2>1, DistancesHold, DistancesNext DEF Distances
  <1>5. CASE TraceCached \/ TraceFlushed
    <2>1. at = "traced" /\ at' = "loop"
      BY <1>5, Zenon DEF TraceCached, TraceFlushed, leaveTrace
    <2> QED BY <2>1, DistancesHold, DistancesNext DEF Distances
  <1> QED BY <1>1, <1>2, <1>3, <1>4, <1>5, Zenon DEF Record

(* Generated code executes, links on or comes back.                        *)
LEMMA GeneratedAdvances ==
    ASSUME Inv, Generated PROVE ran' # Quiet \/ Distance' < Distance
  <1>0. TypeOK /\ WindowPlaced /\ OverlaySeen /\ Running
    BY Zenon DEF Inv, ControlInv
  <1>1. CASE NativeInstruction
    <2>1. at = "native" /\ ran' = block.text[pc[2]]
      BY <1>1, Zenon DEF NativeInstruction, retire
    <2> QED BY <2>1, NativeSeen, DistinctAssumption, Zenon
  <1>2. CASE NativeStore
    <2>1. /\ at = "native"
          /\ (hit' /\ at' = "lost") \/ ran' = block.text[pc[2]]
      BY <1>2, Zenon DEF NativeStore, retire
    <2>2. CASE ran' = block.text[pc[2]]
      BY <2>1, <2>2, NativeSeen, DistinctAssumption, Zenon
    <2>3. CASE hit' /\ at' = "lost"
      <3>1. tripped'
        BY <2>3, Zenon DEF tripped
      <3> QED BY <2>1, <2>3, <3>1, DistancesHold, DistancesNext, SMTT(30) DEF Distances
    <2> QED BY <2>1, <2>2, <2>3
  <1>3. CASE NativeStep
    <2>1. ran' = Fetch
      BY <1>3, Zenon DEF NativeStep, plainInstruction, retire
    <2> QED BY <1>0, <2>1, FetchSeen, DistinctAssumption, Zenon
  <1>4. CASE NativeUncovered
    <2>1. at = "native" /\ ~covers(pc) /\ at' = "lost"
      BY <1>4, Zenon DEF NativeUncovered, goto
    <2> QED BY <2>1, DistancesHold, DistancesNext DEF Distances
  <1>5. CASE NativeLink
    <2>1. at = "exit" /\ at' = "native" /\ key' = pc'
      BY <1>5, Zenon DEF NativeLink
    <2> QED BY <2>1, DistancesHold, DistancesNext DEF Distances
  <1>6. CASE NativeLeaves
    <2>1. at' = "left" /\ (at = "exit" \/ (at = "native" /\ pc # key))
      BY <1>6, Zenon DEF NativeLeaves, goto
    <2> QED BY <2>1, DistancesHold, DistancesNext, SMTT(30) DEF Distances
  <1>7. CASE AfterRun
    <2>1. /\ at \in {"left", "lost"} /\ (replays => at' = "interp") /\ (~replays => at' = "loop")
          /\ pendingFlush => emptyCache
      BY <1>7, Zenon DEF AfterRun
    <2>2. CASE replays
      <3>1. at = "lost" /\ tripped /\ at' = "interp"
        BY <2>1, <2>2, Zenon DEF replays
      <3> QED BY <3>1, DistancesHold, DistancesNext DEF Distances
    <2>3. CASE at = "lost" /\ tripped /\ ~replays
      <3>1. at' = "loop" /\ Live' = {}
        BY <2>1, <2>3, Zenon DEF replays, emptyCache, Live
      <3> QED BY <2>3, <3>1, DistancesHold, DistancesNext, SMTT(30) DEF Distances
    <2>4. CASE ~(at = "lost" /\ tripped) /\ ~replays
      BY <2>1, <2>4, DistancesHold, DistancesNext, SMTT(30) DEF Distances
    <2> QED BY <2>2, <2>3, <2>4, SMTT(30)
  <1> QED BY <1>1, <1>2, <1>3, <1>4, <1>5, <1>6, <1>7, Zenon DEF Generated

(* The engine never turns without executing: every step of executeUntil    *)
(* executes an instruction, takes an interrupt or comes nearer to one, for *)
(* every cache size and geometry.  A block whose store hits the guard is   *)
(* left, its page served and the instruction interpreted, so it cannot be  *)
(* entered again and again; a full cache gives up a block or interprets.   *)
THEOREM EngineMakesProgress ==
    ASSUME ~BackPatch PROVE Spec => EngineAdvances
  <1>1. Init => Capacity
    <2>1. SUFFICES ASSUME Init PROVE Capacity
      OBVIOUS
    <2>2. Live = {} /\ at = "loop"
      BY <2>1, Zenon DEF Init, Live
    <2>3. IsFiniteSet(Live) /\ Cardinality(Live) = 0
      BY <2>2, FS_EmptySet
    <2>4. maxBlocks \in Nat
      BY EngineAssumption
    <2> QED BY <2>2, <2>3, <2>4 DEF Capacity
  <1>2. Inv /\ Capacity /\ [Next]_vars => Capacity'
    BY CapacityKept
  <1>3. Inv /\ Capacity /\ [Next]_vars => [ran' # Quiet \/ Distance' < Distance \/ Host]_vars
    BY InterpretAdvances, LoopAdvances, DispatchAdvances, RecordAdvances, GeneratedAdvances, SMTT(30)
       DEF Next, executeUntil
  <1> QED BY <1>1, <1>2, <1>3, Invariance, PTL DEF Spec, EngineAdvances
=============================================================================
