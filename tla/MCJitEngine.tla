---------------------------- MODULE MCJitEngine ----------------------------
(* A page is two slices of two sub-slices of two words.  The lines begin   *)
(* at words 2 and 3, so they and their copied words lie across the slices; *)
(* MCBoth begins one in each logical page, which may be the same page of   *)
(* RAM.                                                                    *)
EXTENDS JitEngine, TLC

CONSTANTS c, d, p, q, v0, v1

MCOne == {<<c, 2>>}
MCTwo == {<<c, 2>>, <<c, 3>>}
MCBoth == {<<c, 2>>, <<d, 2>>}
MCFirst == {<<2, 2>>}
MCAcross == {<<3, 4>>}
MCImages == {[x \in PPages |-> [o \in Offsets |-> v]] : v \in Values}
MCSlots == {0}
MCIndex == [k \in Entries |-> 0]
MCSymmetry == Permutations(LPages) \cup Permutations(PPages) \cup Permutations(Values)
MCValueSymmetry == Permutations(Values)
=============================================================================
