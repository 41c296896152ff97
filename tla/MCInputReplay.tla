--------------------------- MODULE MCInputReplay ---------------------------
(* A small instance of InputReplay: one text of one shifted character, one *)
(* bay, a few of the commands at a time.                                   *)
EXTENDS InputReplay

C(t, a, b) == [t |-> t, a |-> a, b |-> b]

MCText == [i \in {1} |-> <<[code |-> 0, shift |-> TRUE]>>]
AllInputs == {C("MouseButton", 0, 1), C("MouseButton", 1, 0), C("Sense", 6, 0),
              C("TypeText", 1, 0), C("CancelTyping", 0, 0), C("AgentMount", 1, 0),
              C("DetachDisk", 1, 0),
              C("AttachDisk", 1, 0), C("AttachDisk", 1, 2)}
ResetInputs == {C("HardReset", 0, 0), C("MouseMove", 1, 1)}

=============================================================================
