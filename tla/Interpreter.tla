---------------------------- MODULE Interpreter ----------------------------
(***************************************************************************)
(* What the execution engine promises: a 68k that executes, one at a time, *)
(* the instruction its memory holds at its pc.  It is the reference the    *)
(* translating engine of JitEngine is shown to implement.                  *)
(*                                                                         *)
(* A guest word is a value, a pc a logical page and a word offset in it.   *)
(* The instructions are those of any program: which store, which remapping *)
(* an instruction makes is a choice, not a function of its word.  Every    *)
(* instruction is one word and the prefetch queue is not modelled: an      *)
(* instruction is fetched when it is executed.  Where an instruction or an *)
(* interrupt leads is a choice too, but nothing else moves the pc: what is *)
(* executed next is what memory holds where the last instruction led.      *)
(***************************************************************************)
EXTENDS Integers

CONSTANTS
    LPages,     \* the logical pages
    PPages,     \* the pages of RAM
    PageWords,  \* words in a page
    Values,     \* what a word of RAM may hold
    Rom,        \* what every word reads as while the boot overlay is up
    Stores,     \* the stores an instruction makes: <<first, last>> offset
    Taken,      \* the last step took an interrupt
    Quiet       \* no instruction was executed by the last step

Offsets == 0..(PageWords - 1)

VARIABLES
    memory,       \* RAM
    translation,  \* logical page -> page of RAM
    overlayUp,    \* whether ROM is mapped over everything
    counter,      \* the program counter
    executed      \* the word the last step executed as an instruction, Taken or Quiet

state == <<memory, translation, overlayUp, counter, executed>>

Seen == IF overlayUp THEN Rom ELSE memory[translation[counter[1]]][counter[2]]

Words(s) == s[1]..s[2]
Filled(page, s, v) == [o \in Offsets |-> IF o \in Words(s) THEN v ELSE page[o]]

(* The effects an instruction may have.  RAM is not there to be stored to  *)
(* while the overlay is up.                                                *)
None == UNCHANGED <<memory, translation, overlayUp>>
Store ==
    /\ ~overlayUp
    /\ \E l \in LPages, s \in Stores, v \in Values :
          memory' = [memory EXCEPT ![translation[l]] = Filled(@, s, v)]
    /\ UNCHANGED <<translation, overlayUp>>
Translate ==
    /\ translation' \in [LPages -> PPages]
    /\ UNCHANGED <<memory, overlayUp>>
OverlayDown ==
    /\ overlayUp
    /\ overlayUp' = FALSE
    /\ UNCHANGED <<memory, translation>>

Jump == counter' \in LPages \X Offsets
Execute ==
    /\ executed' = Seen
    /\ Jump
    /\ None \/ Store \/ Translate \/ OverlayDown

(* An interrupt stacks its frame and leads to its handler.                 *)
Interrupt == executed' = Taken /\ Jump /\ (None \/ Store)

(* A store that has landed before its instruction is complete; the         *)
(* instruction will be executed again.                                     *)
EarlyStore == Store /\ executed' = Quiet /\ UNCHANGED counter

(* The machine restarts with its MMU off, or a saved state replaces        *)
(* everything.                                                             *)
Restart ==
    /\ overlayUp' = TRUE
    /\ translation' \in [LPages -> PPages]
    /\ executed' = Quiet
    /\ Jump
    /\ UNCHANGED memory
LoadState ==
    /\ memory' \in [PPages -> [Offsets -> Values]]
    /\ translation' \in [LPages -> PPages]
    /\ overlayUp' \in BOOLEAN
    /\ executed' = Quiet
    /\ Jump

(* Nothing happens that the guest could tell.                              *)
Pause == executed' = Quiet /\ UNCHANGED <<memory, translation, overlayUp, counter>>

Init ==
    /\ memory \in [PPages -> [Offsets -> Values]]
    /\ translation \in [LPages -> PPages]
    /\ overlayUp = TRUE
    /\ counter \in LPages \X Offsets
    /\ executed = Quiet

Next == Pause \/ Execute \/ Interrupt \/ EarlyStore \/ Restart \/ LoadState

Spec == Init /\ [][Next]_state
=============================================================================
