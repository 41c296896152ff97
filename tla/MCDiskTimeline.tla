--------------------------- MODULE MCDiskTimeline ---------------------------
(* Instances of DiskTimeline for TLC. *)
EXTENDS DiskTimeline, TLC

\* Block contents are interchangeable.
ValueSymmetry == Permutations(Values)

=============================================================================
