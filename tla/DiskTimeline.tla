---------------------------- MODULE DiskTimeline ----------------------------
(***************************************************************************)
(* The save-state history of one writable block medium                     *)
(* (src/src/DiskTimeline.cpp, .h), together with the owner's write path     *)
(* (ScsiDisk::store) and the transaction that restores a state             *)
(* (loadT in SaveStateMachines.cpp) as seen by that one disk.              *)
(*                                                                         *)
(* A process attaches the image, writes it block by block, saves states    *)
(* and restores them; it may die at any point.  Across processes survive   *)
(* the backing file, the reverse journal beside it and the saved states.   *)
(*                                                                         *)
(* Abstractions.  A block's bytes are one member of Values.  The 64-bit    *)
(* content digest is the content itself: hash collisions are left out.     *)
(* The journal is the sequence of its complete records, plus a flag saying *)
(* that an incomplete record follows them; its size counts records.        *)
(* The log's order only lays out the saved blocks, so the log is a map.    *)
(***************************************************************************)
EXTENDS Integers, Sequences, FiniteSets

CONSTANTS
    N,            \* number of blocks of the image
    Values,       \* what a block can hold
    Facade,       \* blocks of the synthetic prefix, absent from the file
    Faults,       \* what may go wrong besides the process dying
    JournalCap,   \* journalCap_, in records
    MaxRecords,   \* bound: no operation starts on a longer journal
    MaxSaves      \* bound on the number of saved states

Blocks == 0 .. N - 1

FaultKinds == {"open",     \* the journal cannot be created, trimmed or cut
               "journal",  \* an append to the journal fails
               "file",     \* a write to the backing file fails
               "chunk",    \* another chunk of the state is refused
               "edit",     \* somebody writes the image between processes
               "lose"}     \* somebody deletes the journal

ASSUME ConstantsAssumption ==
    /\ N \in Nat \ {0}
    /\ Values # {}
    /\ Facade \subseteq Blocks
    /\ Faults \subseteq FaultKinds
    /\ JournalCap \in Nat
    /\ MaxRecords \in Nat
    /\ MaxSaves \in Nat

Contents == [Blocks -> Values]

\* A partial assignment of bytes to blocks: the code's Map, a write request,
\* a restore plan.
Maps == UNION {[S -> Values] : S \in SUBSET Blocks}
NoMap == [b \in {} |-> 0]

\* What a save state carries for the disk: the bytes of the blocks written
\* since attach, and the digest.  "here" is specification only: the state was
\* saved by the process that is running.
States == [data : Maps, digest : Contents, here : BOOLEAN]

NoState == [here |-> FALSE]

\* The two journal records.  "volatile" is specification only: the blocks
\* whose content the backing file did not hold when the epoch was marked.
EpochRecords == [tag : {"E"}, digest : Contents, volatile : SUBSET Blocks]
BlockRecords == [tag : {"B"}, lba : Blocks, old : Values]
Records == EpochRecords \cup BlockRecords

VARIABLES
    \* on disk
    file,        \* the content open() builds from the backing file
    journal,     \* complete records of <image>.pomundo
    torn,        \* an incomplete record follows them
    saved,       \* the save states on disk
    lost,        \* specification only: epochs at or before it have a hole behind
    \* in the process
    up,          \* a process runs with the image attached
    image,       \* image_
    writeBack,   \* writeBack_
    journalled,  \* journalPath_ is not empty
    journalOn,   \* journal_ != nullptr
    epochBits,   \* epochBits_
    digest,      \* digest_
    pristine,    \* pristine_, by block; its domain is dirtyBits_, dirtyList_
    loadOrder,   \* loadOrder_, as a set
    \* where the machine thread is
    pc,          \* idle | log | copy | through | load | apply
    job,         \* the write request store() is serving
    todo,        \* its blocks that willWrite has not seen yet
    plan,        \* restore plan still to apply
    target,      \* the state being restored, or NoState
    rollback,    \* the state saved before the restore mutated anything
    txn          \* restoring the user's state (else: the rollback)

diskVars == <<file, journal, torn, saved, lost>>
sessionVars == <<up, writeBack, journalled>>
journalVars == <<journal, torn, journalOn, epochBits, lost>>
logVars == <<pristine, loadOrder>>
loadVars == <<plan, target, rollback, txn>>
vars == <<diskVars, sessionVars, image, journalOn, epochBits, digest,
          logVars, pc, job, todo, loadVars>>

-----------------------------------------------------------------------------
(* Helpers.                                                                *)

Overlay(content, map) ==
    [b \in Blocks |-> IF b \in DOMAIN map THEN map[b] ELSE content[b]]

\* digestAfter(): the digest the image would have with the map applied.
DigestAfter(map) == Overlay(digest, map)

\* Mutant: the record names the next block.
BlockRecordOffByOne(b) == [tag |-> "B", lba |-> b + 1, old |-> image[b]]
BlockRecord(b) == [tag |-> "B", lba |-> b, old |-> image[b]]

EpochRecord ==
    [tag |-> "E", digest |-> digest,
     volatile |-> {b \in Blocks : image[b] # file[b]}]

Epochs == {i \in DOMAIN journal : journal[i].tag = "E"}

\* The records of block b after position i, and the first of them.
RecordsAfter(i, b) ==
    {k \in DOMAIN journal : k > i /\ journal[k].tag = "B" /\ journal[k].lba = b}
\* Mutant: the last record instead of the first.
LastAfter(i, b) ==
    CHOOSE k \in RecordsAfter(i, b) : \A l \in RecordsAfter(i, b) : k >= l
FirstAfter(i, b) ==
    CHOOSE k \in RecordsAfter(i, b) : \A l \in RecordsAfter(i, b) : k <= l

\* journalCandidate(): the latest epoch marked d, and the map it yields.
LatestEpoch(d) ==
    CHOOSE i \in Epochs : /\ journal[i].digest = d
                          /\ \A k \in Epochs : journal[k].digest = d => k <= i
HasEpoch(d) == journalled /\ \E i \in Epochs : journal[i].digest = d
RewindMap(i) ==
    [b \in {c \in Blocks : RecordsAfter(i, c) # {}} |->
        journal[FirstAfter(i, b)].old]

\* load(), candidate 1: revert the log, except for the state's own blocks,
\* and replay those.
\* Mutant: the log is not reverted.
ReplayOnly(s) == s.data
LogCandidate(s) ==
    [b \in DOMAIN s.data \cup DOMAIN pristine |->
        IF b \in DOMAIN s.data THEN s.data[b] ELSE pristine[b]]
\* Candidate 2: rewind through the journal.
JournalCandidate(s) == RewindMap(LatestEpoch(s.digest))

\* Mutant: the digest is not compared.
AlwaysLands(s) == TRUE
LogLands(s) == DigestAfter(LogCandidate(s)) = s.digest
JournalLands(s) ==
    HasEpoch(s.digest) /\ DigestAfter(JournalCandidate(s)) = s.digest
Accepts(s) == LogLands(s) \/ JournalLands(s)
Candidate(s) == IF LogLands(s) THEN LogCandidate(s) ELSE JournalCandidate(s)

\* The blocks of the chosen candidate that differ from the image.
\* Mutant: only the state's own blocks are written back.
PlanOwnBlocks(s) ==
    [b \in {c \in DOMAIN s.data : s.data[c] # image[c]} |-> s.data[b]]
PlanFor(s) ==
    [b \in {c \in DOMAIN Candidate(s) : Candidate(s)[c] # image[c]} |->
        Candidate(s)[b]]

\* What save() writes for the disk.
StateOf ==
    [data |-> [b \in DOMAIN pristine |-> image[b]], digest |-> digest,
     here |-> TRUE]

-----------------------------------------------------------------------------
Init ==
    /\ file \in Contents
    /\ journal = <<>> /\ torn = FALSE /\ saved = {} /\ lost = 0
    /\ up = FALSE /\ image = file
    /\ writeBack = FALSE /\ journalled = FALSE /\ journalOn = FALSE
    /\ epochBits = {} /\ digest = file
    /\ pristine = NoMap /\ loadOrder = {}
    /\ pc = "idle" /\ job = NoMap /\ todo = {} /\ plan = NoMap
    /\ target = NoState /\ rollback = NoState /\ txn = FALSE

-----------------------------------------------------------------------------
(* Attach.                                                                 *)

\* compactJournal(): the first record kept.  Nothing fits: drop all.
Fits(at) == Len(journal) + 1 - at <= JournalCap \div 2
CutAt ==
    IF \E i \in Epochs : Fits(i)
    THEN CHOOSE i \in Epochs : Fits(i) /\ \A k \in Epochs : Fits(k) => i <= k
    ELSE Len(journal) + 1

Compact ==
    /\ journal' = SubSeq(journal, CutAt, Len(journal))
    /\ lost' = IF lost < CutAt THEN 0 ELSE lost - (CutAt - 1)

\* openJournal(): trim the torn tail, cut an oversized history.  Creating,
\* trimming and reopening can fail, which turns the journal off; so can the
\* compaction, which leaves the records as they were.
\* Mutant: the torn tail stays.
OpenUntrimmed ==
    /\ journalOn' = TRUE
    /\ UNCHANGED <<journal, torn, lost>>
OpenJournal ==
    \/ /\ "open" \in Faults
       /\ journalOn' = FALSE
       /\ UNCHANGED <<journal, torn, lost>>
    \/ /\ journalOn' = TRUE \/ ("open" \in Faults /\ journalOn' = FALSE)
       /\ torn' = FALSE
       /\ \/ Len(journal) > JournalCap /\ Compact
          \/ /\ Len(journal) > JournalCap => "open" \in Faults
             /\ UNCHANGED <<journal, lost>>

\* attach(), called by open(): the history restarts over the image as loaded.
Attach(wb) ==
    /\ ~up
    /\ up' = TRUE
    /\ image' = file /\ digest' = file
    /\ writeBack' = wb /\ journalled' = wb
    /\ IF wb THEN OpenJournal
             ELSE journalOn' = FALSE /\ UNCHANGED <<journal, torn, lost>>
    /\ epochBits' = {} /\ pristine' = NoMap
    /\ UNCHANGED <<file, saved, loadOrder, pc, job, todo, loadVars>>

-----------------------------------------------------------------------------
(* The write path: ScsiDisk::store().                                      *)

\* A guest or host write of a run of consecutive blocks.
BeginStore(data) ==
    /\ up /\ pc = "idle" /\ Len(journal) < MaxRecords
    /\ pc' = "log" /\ job' = data /\ todo' = DOMAIN data
    /\ UNCHANGED <<diskVars, sessionVars, image, journalOn, epochBits, digest,
                   logVars, loadVars>>

JournalAppend(b) ==
    /\ journalOn /\ b \notin epochBits
    /\ journal' = Append(journal, BlockRecord(b))
    /\ epochBits' = epochBits \cup {b}
    /\ UNCHANGED <<torn, journalOn, lost>>

JournalSkip(b) ==
    /\ journalOn /\ b \in epochBits
    /\ UNCHANGED journalVars

\* dropJournal(): whatever part of the record reached the file stays there.
\* Mutant: a failed append is ignored.
JournalGoesOn(b) ==
    /\ "journal" \in Faults
    /\ journalOn /\ b \notin epochBits
    /\ epochBits' = epochBits \cup {b}
    /\ UNCHANGED <<journal, torn, journalOn, lost>>
JournalDrop(b) ==
    /\ "journal" \in Faults
    /\ journalOn /\ b \notin epochBits
    /\ journalOn' = FALSE
    /\ \/ journal' = journal /\ torn' \in BOOLEAN
       \/ journal' = Append(journal, BlockRecord(b)) /\ torn' = FALSE
    /\ epochBits' = epochBits \cup {b}
    /\ lost' = Len(journal')

JournalOff ==
    /\ ~journalOn
    /\ lost' = IF journalled THEN Len(journal) ELSE lost
    /\ UNCHANGED <<journal, torn, journalOn, epochBits>>

\* The incremental digest swaps the block's old hash for its new one.
\* Mutant: it swaps it for the current one.
DigestKept(b) == [digest EXCEPT ![b] = image[b]]
DigestWith(b) == [digest EXCEPT ![b] = job[b]]

\* willWrite() for the next block of the request.
WillWrite ==
    /\ pc = "log"
    /\ \E b \in todo :
        /\ \A c \in todo : b <= c
        /\ todo' = todo \ {b}
        /\ pristine' = [c \in DOMAIN pristine \cup {b} |->
                          IF c \in DOMAIN pristine THEN pristine[c]
                                                   ELSE image[c]]
        /\ \/ JournalAppend(b) \/ JournalSkip(b) \/ JournalDrop(b) \/ JournalOff
        /\ digest' = DigestWith(b)
    /\ pc' = IF todo' = {} THEN "copy" ELSE "log"
    /\ UNCHANGED <<file, saved, sessionVars, image, loadOrder, job,
                   loadVars>>

\* store() returns, to the guest or to the loop that applies a plan.
Return ==
    /\ pc' = IF target = NoState THEN "idle" ELSE "apply"
    /\ job' = NoMap

\* Mutant: a request that starts in the facade is not written through.
ReachesFileFromStart == writeBack /\ DOMAIN job \cap Facade = {}
ReachesFile == writeBack /\ ~(DOMAIN job \subseteq Facade)

\* The copy into the image.  Without write-back, or when the whole request
\* lies in the facade, the write ends here.
CopyToImage ==
    /\ pc = "copy"
    /\ image' = Overlay(image, job)
    /\ IF ReachesFile
       THEN pc' = "through" /\ UNCHANGED job
       ELSE Return
    /\ UNCHANGED <<diskVars, sessionVars, journalOn, epochBits, digest,
                   logVars, todo, loadVars>>

\* The blocks of the request in S reach the backing file.
FileWith(S) == [b \in Blocks |-> IF b \in S THEN job[b] ELSE file[b]]

\* Write-through and flush; a failure turns write-back off.
WriteThrough ==
    /\ pc = "through"
    /\ file' = FileWith(DOMAIN job \ Facade)
    /\ Return
    /\ UNCHANGED <<journal, torn, saved, lost, sessionVars, image, journalOn,
                   epochBits, digest, logVars, todo, loadVars>>

WriteThroughFails ==
    /\ "file" \in Faults /\ pc = "through"
    /\ \E S \in SUBSET (DOMAIN job \ Facade) : file' = FileWith(S)
    /\ writeBack' = FALSE
    /\ Return
    /\ UNCHANGED <<journal, torn, saved, lost, up, journalled, image,
                   journalOn, epochBits, digest, logVars, todo,
                   loadVars>>

-----------------------------------------------------------------------------
(* Saving and restoring.                                                   *)

\* journalEpoch(): the digest is marked, or the journal dropped.
\* Mutant: the blocks logged before the epoch still count as logged.
EpochKeepsBits ==
    /\ journalOn
    /\ journal' = Append(journal, EpochRecord)
    /\ UNCHANGED <<epochBits, torn, journalOn, lost>>
JournalEpoch ==
    \/ /\ journalOn
       /\ journal' = Append(journal, EpochRecord)
       /\ epochBits' = {}
       /\ UNCHANGED <<torn, journalOn, lost>>
    \/ /\ "journal" \in Faults /\ journalOn
       /\ journalOn' = FALSE
       /\ \/ journal' = journal /\ torn' \in BOOLEAN
          \/ journal' = Append(journal, EpochRecord) /\ torn' = FALSE
       /\ UNCHANGED <<epochBits, lost>>
    \/ /\ ~journalOn
       /\ UNCHANGED journalVars

\* save(): the user's state.
Save ==
    /\ up /\ pc = "idle"
    /\ Len(journal) < MaxRecords /\ Cardinality(saved) < MaxSaves
    /\ saved' = saved \cup {StateOf}
    /\ JournalEpoch
    /\ UNCHANGED <<file, sessionVars, image, digest, logVars, pc, job, todo,
                   loadVars>>

\* loadT(), past its header checks: the rollback state is saved first, epoch
\* included, then the chunks are applied.
BeginLoad(s) ==
    /\ up /\ pc = "idle" /\ Len(journal) < MaxRecords
    /\ rollback' = StateOf
    /\ JournalEpoch
    /\ target' = s /\ txn' = TRUE /\ pc' = "load"
    /\ UNCHANGED <<file, saved, sessionVars, image, digest, logVars, job, todo,
                   plan>>

\* The state was saved while the drive had no medium: load() binds nothing, and
\* the disk keeps its content.  (The drive then shows no medium; writes that
\* come all the same are a superset of what the guest can do.)
BeginBareLoad ==
    /\ up /\ pc = "idle" /\ Len(journal) < MaxRecords
    /\ rollback' = StateOf
    /\ JournalEpoch
    /\ target' = StateOf /\ txn' = TRUE /\ pc' = "apply"
    /\ UNCHANGED <<file, saved, sessionVars, image, digest, logVars, job, todo,
                   plan>>

\* loadT() returns.
Finish ==
    /\ pc' = "idle"
    /\ target' = NoState /\ rollback' = NoState /\ txn' = FALSE

\* rejectApplied(): the rollback state is loaded, without a transaction of
\* its own.  When that one is refused too, the code can only report it.
\* Mutant: a failed restore just returns.
RejectWithoutRollback == Finish
Reject ==
    IF txn
    THEN /\ pc' = "load" /\ target' = rollback /\ txn' = FALSE
         /\ UNCHANGED rollback
    ELSE Finish

\* A device visited before the disk fails the user's state; so does load() when
\* the state's geometry is not the image's, or its block list is malformed.
EarlierChunkFails ==
    /\ "chunk" \in Faults /\ pc = "load" /\ txn
    /\ Reject
    /\ UNCHANGED <<diskVars, sessionVars, image, journalOn, epochBits, digest,
                   logVars, job, todo, plan>>

\* load() of the state in hand: a candidate lands on its digest ...
PlanLoad ==
    /\ pc = "load" /\ Accepts(target)
    /\ plan' = PlanFor(target)
    /\ loadOrder' = DOMAIN target.data
    /\ pc' = "apply"
    /\ UNCHANGED <<diskVars, sessionVars, image, journalOn, epochBits, digest,
                   pristine, job, todo, target, rollback, txn>>

\* ... or none does and the reader fails.
RefuseLoad ==
    /\ pc = "load" /\ ~Accepts(target)
    /\ loadOrder' = DOMAIN target.data
    /\ Reject
    /\ UNCHANGED <<diskVars, sessionVars, image, journalOn, epochBits, digest,
                   pristine, job, todo, plan>>

\* visit(): each block of the plan goes through the normal write path.  The
\* blocks are distinct, so their order does not matter.
ApplyBlock ==
    /\ pc = "apply"
    /\ \E b \in DOMAIN plan :
        /\ job' = [c \in {b} |-> plan[b]]
        /\ todo' = {b}
        /\ plan' = [c \in DOMAIN plan \ {b} |-> plan[c]]
    /\ pc' = "log"
    /\ UNCHANGED <<diskVars, sessionVars, image, journalOn, epochBits, digest,
                   logVars, target, rollback, txn>>

\* commitLoad(): the log is rebuilt from the state's blocks; a block the
\* restore put back to its opened content leaves it.
\* Mutant: a block restored to other bytes than it was opened with leaves.
KeepUnchanged(b) == pristine[b] = image[b]
Keep(b) == pristine[b] # image[b]

RebuiltLog ==
    [b \in loadOrder \cup {c \in DOMAIN pristine : Keep(c)} |->
        IF b \in DOMAIN pristine THEN pristine[b] ELSE image[b]]

\* Mutant: the load order is not cleared.
CommitKeepsOrder == pristine' = RebuiltLog /\ UNCHANGED loadOrder
CommitLog == pristine' = RebuiltLog /\ loadOrder' = {}

\* The disk is done; so are the remaining chunks, or one of them fails.
CommitLoad ==
    /\ pc = "apply" /\ DOMAIN plan = {}
    /\ CommitLog
    /\ \/ Finish
       \/ "chunk" \in Faults /\ txn /\ Reject
    /\ UNCHANGED <<diskVars, sessionVars, image, journalOn, epochBits, digest,
                   job, todo, plan>>

-----------------------------------------------------------------------------
(* The environment.                                                        *)

\* The process ends, in order (at idle, nothing torn) or not: an append may
\* leave part of a record, a write-through any part of its blocks.  What the
\* process held is gone; image stands for what the next one will load.
Stop ==
    /\ up
    /\ \E S \in SUBSET (DOMAIN job \ Facade) :
        /\ S # {} => pc = "through"
        /\ file' = FileWith(S)
    /\ torn' \in IF journalOn /\ pc \in {"idle", "log"} THEN BOOLEAN ELSE {torn}
    /\ saved' = {[s EXCEPT !.here = FALSE] : s \in saved}
    /\ up' = FALSE /\ image' = file'
    /\ writeBack' = FALSE /\ journalled' = FALSE /\ journalOn' = FALSE
    /\ epochBits' = {} /\ digest' = file'
    /\ pristine' = NoMap /\ loadOrder' = {}
    /\ pc' = "idle" /\ job' = NoMap /\ todo' = {} /\ plan' = NoMap
    /\ target' = NoState /\ rollback' = NoState /\ txn' = FALSE
    /\ UNCHANGED <<journal, lost>>

\* Between processes somebody else writes the image ...
EditFile(b, v) ==
    /\ "edit" \in Faults /\ ~up /\ file[b] # v
    /\ file' = [file EXCEPT ![b] = v]
    /\ image' = file' /\ digest' = file'
    /\ lost' = Len(journal)
    /\ UNCHANGED <<journal, torn, saved, up, writeBack, journalled, journalOn,
                   epochBits, logVars, pc, job, todo, loadVars>>

\* ... or deletes the journal, or gives it another geometry.
LoseJournal ==
    /\ "lose" \in Faults /\ ~up /\ (journal # <<>> \/ torn)
    /\ journal' = <<>> /\ torn' = FALSE /\ lost' = 0
    /\ UNCHANGED <<file, saved, sessionVars, image, journalOn, epochBits,
                   digest, logVars, pc, job, todo, loadVars>>

-----------------------------------------------------------------------------
Next ==
    \/ \E wb \in BOOLEAN : Attach(wb)
    \/ \E lo, hi \in Blocks :
         lo <= hi /\ \E data \in [lo .. hi -> Values] : BeginStore(data)
    \/ WillWrite \/ CopyToImage \/ WriteThrough \/ WriteThroughFails
    \/ Save
    \/ \E s \in saved : BeginLoad(s)
    \/ BeginBareLoad
    \/ EarlierChunkFails \/ PlanLoad \/ RefuseLoad \/ ApplyBlock \/ CommitLoad
    \/ Stop
    \/ \E b \in Blocks, v \in Values : EditFile(b, v)
    \/ LoseJournal

Spec == Init /\ [][Next]_vars

-----------------------------------------------------------------------------
(* Properties.                                                             *)

\* Every variable keeps its type; in particular a request, a plan and the log
\* only ever name blocks of the image.
TypeOK ==
    /\ file \in Contents /\ image \in Contents
    /\ digest \in Contents
    /\ journal \in Seq(Records) /\ lost \in Nat
    /\ torn \in BOOLEAN /\ up \in BOOLEAN /\ writeBack \in BOOLEAN
    /\ journalled \in BOOLEAN /\ journalOn \in BOOLEAN /\ txn \in BOOLEAN
    /\ saved \subseteq States
    /\ target \in States \cup {NoState} /\ rollback \in States \cup {NoState}
    /\ epochBits \subseteq Blocks /\ todo \subseteq Blocks
    /\ loadOrder \subseteq Blocks
    /\ pristine \in Maps /\ job \in Maps /\ plan \in Maps
    /\ pc \in {"idle", "log", "copy", "through", "load", "apply"}

\* The incremental digest is the digest of the image, up to the blocks whose
\* willWrite() has run and whose copy has not: no sequence of writes, restores
\* and direct accesses leaves save() recording the digest of another content.
DigestTracksImage ==
    up =>
        digest = [b \in Blocks |->
                    IF pc \in {"log", "copy"} /\ b \in DOMAIN job \ todo
                    THEN job[b] ELSE image[b]]

\* The reverse journal is a linear history of the file: for every epoch with no
\* hole behind it, taking each block's first record after the epoch, and the
\* current bytes of a block without one, gives the content the epoch marked.
\* It holds at every instant a process may die, of the file and, in a
\* journalling process, of the image; a block the file did not hold when the
\* epoch was marked is excepted (willWrite(), journalEpoch()).
EpochsRewind ==
    \A i \in Epochs : i > lost =>
        \A b \in Blocks \ journal[i].volatile :
            IF RecordsAfter(i, b) = {}
            THEN /\ file[b] = journal[i].digest[b]
                 /\ journalled => image[b] = journal[i].digest[b]
            ELSE journal[FirstAfter(i, b)].old = journal[i].digest[b]

\* A state saved in any earlier process is never refused when the journal still
\* has its epoch, nothing bypassed the journal since, and the file held the
\* whole content when it was saved (load(), candidate 2).
EpochStatesRestorable ==
    up /\ journalled /\ pc \in {"idle", "load"} =>
        \A s \in saved :
            /\ HasEpoch(s.digest)
            /\ LatestEpoch(s.digest) > lost
            /\ journal[LatestEpoch(s.digest)].volatile = {}
            => Accepts(s)

\* A state saved since the image was attached is never refused, whatever was
\* written, restored or failed in between, with or without a journal (load(),
\* candidate 1, over the log that commitLoad() keeps rebuilding).
SessionStatesRestorable ==
    up /\ pc \in {"idle", "load"} =>
        \A s \in saved \cup (IF pc = "load" THEN {rollback} ELSE {}) :
            s.here => LogLands(s)

\* The rollback of a rejected restore is itself never refused: the "FATAL:
\* save-state rollback failed" of loadT() is dead code as far as disks go.
RollbackLands == pc = "load" /\ ~txn => Accepts(target)

\* loadT() returns to a running machine.
LoadEnds == target # NoState /\ target' = NoState /\ up'

\* A rejected restore leaves the disk as it was when the restore began, even
\* when the disk itself had already been rewound (rejectApplied()).
RejectedLoadLeavesDisk ==
    [][ LoadEnds /\ ~txn => image' = rollback.digest ]_vars

\* A restore that reports success has put exactly the state's content in the
\* image, block by block through the write path.
RestoredContentExact ==
    [][ LoadEnds /\ txn => image' = target.digest ]_vars

\* Between two requests the backing file follows every write and every
\* restore, as long as write-back has not failed.
BackingFileFollows ==
    up /\ writeBack /\ pc \in {"idle", "load", "apply"} =>
        \A b \in Blocks \ Facade : file[b] = image[b]

\* Nothing is appended after a torn record: the journal an attach opened stays
\* parseable (openJournal() trims first).
AppendsParseable == journalOn => ~torn

\* No restore leaves a load order behind for the next commitLoad(): the load
\* that fails is followed by the rollback's, whose commit clears it.
NoStaleLoadOrder == pc = "idle" => loadOrder = {}

-----------------------------------------------------------------------------
(* The inductive invariant behind the properties above.                    *)

Writing == pc \in {"log", "copy", "through"}

\* Where the machine thread can be, and what it holds there.
ControlInv ==
    /\ ~up => /\ pc = "idle" /\ image = file /\ pristine = NoMap
              /\ ~writeBack /\ ~journalled /\ ~journalOn
    /\ journalOn => journalled /\ ~torn
    /\ writeBack => journalled
    /\ todo \subseteq DOMAIN job
    /\ pc = "log" <=> todo # {}
    /\ Writing <=> DOMAIN job # {}
    /\ pc = "through" => writeBack /\ \A b \in DOMAIN job : image[b] = job[b]
    /\ pc = "load" \/ pc = "apply" => target # NoState
    /\ pc = "idle" \/ pc = "load" => DOMAIN plan = {}
    /\ pc = "idle" => target = NoState
    /\ target = NoState => ~txn /\ loadOrder = {} /\ DOMAIN plan = {}
    /\ target # NoState => /\ rollback # NoState /\ rollback.here
                           /\ ~txn => target = rollback

\* A block counted as logged has a record after every epoch; a request's
\* blocks are logged before they are copied, or every epoch is lost.
CoverInv ==
    /\ journalOn =>
        \A b \in epochBits : \E k \in DOMAIN journal :
            /\ journal[k].tag = "B" /\ journal[k].lba = b
            /\ \A i \in Epochs : i < k
    /\ Writing /\ journalOn => DOMAIN job \ todo \subseteq epochBits
    /\ Writing /\ journalled /\ ~journalOn /\ DOMAIN job # todo =>
        lost >= Len(journal)

\* The log reverts the image to the content at attach ...
Opened == [b \in Blocks |-> IF b \in DOMAIN pristine THEN pristine[b]
                                                     ELSE image[b]]
\* ... outside the blocks it carries, a state of this session equals it.
SessionState(s) ==
    s.here => \A b \in Blocks :
                s.digest[b] = IF b \in DOMAIN s.data THEN s.data[b]
                                                     ELSE Opened[b]
SessionInv ==
    /\ \A s \in saved : SessionState(s) /\ (s.here => up)
    /\ target # NoState => SessionState(rollback)
    /\ Writing => DOMAIN job \ todo \subseteq DOMAIN pristine

\* What is left of the plan still leads to the state's content.
PlanInv ==
    target # NoState /\ pc # "load" =>
        target.digest =
            Overlay(IF pc \in {"log", "copy"} THEN Overlay(image, job) ELSE image,
                    plan)

\* The file lags the image only by the request being written through.
FollowInv ==
    up /\ writeBack =>
        \A b \in Blocks \ Facade :
            file[b] = image[b] \/ (pc = "through" /\ b \in DOMAIN job)

IInv == /\ TypeOK /\ ControlInv /\ CoverInv /\ EpochsRewind
        /\ DigestTracksImage /\ SessionInv /\ PlanInv /\ FollowInv

=============================================================================
