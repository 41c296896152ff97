------------------------ MODULE DiskTimelineProofs --------------------------
(*****************************************************************************)
(* DiskTimeline keeps its promises for every number of blocks, every set     *)
(* of block contents, every set of faults and every bound.                   *)
(*****************************************************************************)
EXTENDS DiskTimeline, WellFoundedInduction, TLAPS

-----------------------------------------------------------------------------
(* Least and greatest elements.                                              *)

\* A set of naturals that is not empty has a least element.
LEMMA LeastElement ==
    ASSUME NEW S, S \subseteq Nat, S # {}
    PROVE  \E m \in S : \A k \in S : m <= k
<1> DEFINE R == OpToRel(<, Nat)
<1>1. IsWellFoundedOn(R, Nat)
  BY NatLessThanWellFounded, Zenon
<1>2. \E x \in S : \A y \in S : ~(<<y, x>> \in R)
  <2> HIDE DEF R
  <2> QED  BY <1>1, WFMin, Zenon
<1>3. PICK m \in S : \A y \in S : ~(<<y, m>> \in R)
  BY <1>2, Zenon
<1>4. ASSUME NEW k \in S
      PROVE  m <= k
  <2>1. <<k, m>> \in Nat \X Nat
    OBVIOUS
  <2>2. ~(k < m)
    BY <1>3, <2>1 DEF OpToRel
  <2> QED  BY <2>2
<1> QED  BY <1>4

\* A bounded set of naturals that is not empty has a greatest element.
LEMMA GreatestElement ==
    ASSUME NEW S, S \subseteq Nat, S # {}, NEW n \in Nat,
           \A k \in S : k <= n
    PROVE  \E m \in S : \A k \in S : k <= m
<1> DEFINE T == {n - k : k \in S}
<1>1. T \subseteq Nat /\ T # {}
  <2>1. \A k \in S : n - k \in Nat
    OBVIOUS
  <2>2. \E k \in S : n - k \in T
    BY Zenon
  <2> QED  BY <2>1, <2>2
<1>2. PICK t \in T : \A u \in T : t <= u
  <2> HIDE DEF T
  <2> QED  BY <1>1, LeastElement, Zenon
<1>3. PICK m \in S : t = n - m
  BY <1>2
<1>4. ASSUME NEW k \in S
      PROVE  k <= m
  <2>1. n - k \in T
    OBVIOUS
  <2>2. n - m <= n - k
    BY <2>1, <1>2, <1>3, Zenon
  <2> QED  BY <2>2
<1> QED  BY <1>4

\* The least element of a set of naturals is the one CHOOSE finds.
LEMMA LeastUnique ==
    ASSUME NEW S, S \subseteq Nat, NEW m \in S, \A l \in S : m <= l
    PROVE  (CHOOSE k \in S : \A l \in S : k <= l) = m
<1> DEFINE c == CHOOSE k \in S : \A l \in S : k <= l
<1>1. c \in S /\ \A l \in S : c <= l
  BY Zenon
<1> HIDE DEF c
<1>2. c <= m /\ m <= c /\ c \in Nat /\ m \in Nat
  BY <1>1
<1>3. c = m
  BY <1>2
<1> QED  BY <1>3 DEF c

-----------------------------------------------------------------------------
(* Maps, records and the journal.                                            *)

\* A map assigns values to blocks.
LEMMA MapsElim ==
    ASSUME NEW m \in Maps
    PROVE  DOMAIN m \subseteq Blocks /\ m \in [DOMAIN m -> Values]
<1>1. PICK S \in SUBSET Blocks : m \in [S -> Values]
  BY DEF Maps
<1> QED  BY <1>1

\* A function from blocks to values is a map.
LEMMA MapsIntro ==
    ASSUME NEW S, S \subseteq Blocks, NEW f \in [S -> Values]
    PROVE  f \in Maps
BY DEF Maps

\* The empty map is a map, with an empty domain.
LEMMA NoMapType == NoMap \in Maps /\ DOMAIN NoMap = {}
<1>1. NoMap \in [{} -> Values]
  BY DEF NoMap
<1> QED  BY <1>1, MapsIntro, Zenon

\* A map laid over a content is a content.
LEMMA OverlayType ==
    ASSUME NEW c \in Contents, NEW m \in Maps
    PROVE  Overlay(c, m) \in Contents
BY MapsElim DEF Overlay, Contents

\* A record is one of the two kinds, told apart by its tag.
LEMMA RecordKinds ==
    ASSUME NEW r \in Records
    PROVE  /\ r.tag = "E" => /\ r.digest \in Contents
                             /\ r.volatile \subseteq Blocks
           /\ r.tag = "B" => /\ r.lba \in Blocks
                             /\ r.old \in Values
           /\ r.tag \in {"E", "B"}
BY DEF Records, EpochRecords, BlockRecords

\* The first record of a block after a position exists when any does.
LEMMA FirstAfterExists ==
    ASSUME journal \in Seq(Records), NEW i, NEW b, RecordsAfter(i, b) # {}
    PROVE  /\ FirstAfter(i, b) \in RecordsAfter(i, b)
           /\ \A l \in RecordsAfter(i, b) : FirstAfter(i, b) <= l
           /\ journal[FirstAfter(i, b)].old \in Values
<1>1. RecordsAfter(i, b) \subseteq Nat
  BY DEF RecordsAfter
<1>2. \E k \in RecordsAfter(i, b) : \A l \in RecordsAfter(i, b) : k <= l
  BY <1>1, LeastElement
<1>3. /\ FirstAfter(i, b) \in RecordsAfter(i, b)
      /\ \A l \in RecordsAfter(i, b) : FirstAfter(i, b) <= l
  BY <1>2 DEF FirstAfter
<1>4. ASSUME NEW k \in RecordsAfter(i, b)
      PROVE  journal[k].old \in Values
  <2>1. journal[k] \in Records /\ journal[k].tag = "B"
    BY DEF RecordsAfter
  <2> QED  BY <2>1, RecordKinds
<1> QED  BY <1>3, <1>4

\* The latest epoch marked d exists when any does.
LEMMA LatestEpochExists ==
    ASSUME journal \in Seq(Records), NEW d, HasEpoch(d)
    PROVE  /\ LatestEpoch(d) \in Epochs
           /\ journal[LatestEpoch(d)].digest = d
<1> DEFINE S == {i \in Epochs : journal[i].digest = d}
<1>1. S \subseteq Nat /\ S # {} /\ \A k \in S : k <= Len(journal)
  BY DEF Epochs, HasEpoch
<1>2. PICK i \in S : \A k \in S : k <= i
  <2> HIDE DEF S
  <2>1. Len(journal) \in Nat
    OBVIOUS
  <2> QED  BY <1>1, <2>1, GreatestElement, Zenon
<1>3. \E j \in Epochs : /\ journal[j].digest = d
                        /\ \A k \in Epochs : journal[k].digest = d => k <= j
  BY <1>2
<1> QED  BY <1>3 DEF LatestEpoch

\* The candidate a restore accepts is a map, and so is the plan made from it.
LEMMA CandidateType ==
    ASSUME TypeOK, NEW s \in States, Accepts(s)
    PROVE  Candidate(s) \in Maps /\ PlanFor(s) \in Maps
<1>1. s.data \in Maps /\ pristine \in Maps
  BY DEF States, TypeOK
<1>2. LogCandidate(s) \in Maps
  <2>1. DOMAIN s.data \cup DOMAIN pristine \subseteq Blocks
    BY <1>1, MapsElim
  <2>2. LogCandidate(s) \in [DOMAIN s.data \cup DOMAIN pristine -> Values]
    BY <1>1, MapsElim DEF LogCandidate
  <2> QED  BY <2>1, <2>2, MapsIntro
<1>3. ASSUME NEW i
      PROVE  RewindMap(i) \in Maps
  <2> DEFINE D == {c \in Blocks : RecordsAfter(i, c) # {}}
  <2>1. \A b \in D : journal[FirstAfter(i, b)].old \in Values
    BY FirstAfterExists DEF TypeOK
  <2>2. RewindMap(i) \in [D -> Values]
    BY <2>1 DEF RewindMap
  <2>3. D \subseteq Blocks
    OBVIOUS
  <2> QED  BY <2>2, <2>3, MapsIntro
<1>4. Candidate(s) \in Maps
  BY <1>2, <1>3 DEF Candidate, JournalCandidate
<1>5. PlanFor(s) \in Maps
  <2> DEFINE D == {c \in DOMAIN Candidate(s) : Candidate(s)[c] # image[c]}
  <2>1. D \subseteq Blocks /\ \A b \in D : Candidate(s)[b] \in Values
    BY <1>4, MapsElim
  <2>2. PlanFor(s) \in [D -> Values]
    BY <2>1 DEF PlanFor
  <2> QED  BY <2>1, <2>2, MapsIntro
<1> QED  BY <1>4, <1>5

\* A journal is cut at one of its epochs, or emptied.
LEMMA CutAtType ==
    ASSUME journal \in Seq(Records)
    PROVE  CutAt \in 1 .. Len(journal) + 1
<1>1. CASE \E i \in Epochs : Fits(i)
  <2> DEFINE S == {i \in Epochs : Fits(i)}
  <2>1. S \subseteq 1 .. Len(journal) /\ S # {}
    BY <1>1 DEF Epochs
  <2>2. PICK m \in S : \A k \in S : m <= k
    <3> HIDE DEF S
    <3>1. S \subseteq Nat
      BY <2>1
    <3> QED  BY <2>1, <3>1, LeastElement, Zenon
  <2>3. CutAt \in S
    BY <1>1, <2>2 DEF CutAt
  <2> QED  BY <2>1, <2>3
<1>2. CASE ~\E i \in Epochs : Fits(i)
  BY <1>2 DEF CutAt
<1> QED  BY <1>1, <1>2

\* What the records of a cut journal are.
LEMMA SubSeqRecords ==
    ASSUME NEW q \in Seq(Records), NEW c \in 1 .. Len(q) + 1
    PROVE  /\ SubSeq(q, c, Len(q)) \in Seq(Records)
           /\ Len(SubSeq(q, c, Len(q))) = Len(q) + 1 - c
           /\ \A k \in 1 .. Len(q) + 1 - c :
                SubSeq(q, c, Len(q))[k] = q[k + c - 1]
OBVIOUS

\* The epoch and block records appended are records.
LEMMA NewRecords ==
    ASSUME TypeOK
    PROVE  /\ EpochRecord \in Records
           /\ \A b \in Blocks : BlockRecord(b) \in Records
<1>1. EpochRecord \in Records
  <2>1. {b \in Blocks : image[b] # file[b]} \in SUBSET Blocks
    OBVIOUS
  <2>2. digest \in Contents
    BY DEF TypeOK
  <2> QED  BY <2>1, <2>2 DEF EpochRecord, Records, EpochRecords
<1>2. ASSUME NEW b \in Blocks
      PROVE  BlockRecord(b) \in Records
  <2>1. image[b] \in Values
    BY DEF TypeOK, Contents
  <2> QED  BY <2>1 DEF BlockRecord, Records, BlockRecords
<1> QED  BY <1>1, <1>2

\* What save() writes is a state.
LEMMA StateOfType == TypeOK => StateOf \in States
<1> SUFFICES ASSUME TypeOK PROVE StateOf \in States
  OBVIOUS
<1>1. DOMAIN pristine \subseteq Blocks
  BY MapsElim DEF TypeOK
<1>2. [b \in DOMAIN pristine |-> image[b]] \in [DOMAIN pristine -> Values]
  BY <1>1 DEF TypeOK, Contents
<1>3. [b \in DOMAIN pristine |-> image[b]] \in Maps
  BY <1>1, <1>2, MapsIntro
<1> QED  BY <1>3 DEF StateOf, States, TypeOK

\* No state is NoState.
LEMMA NotNoState ==
    ASSUME NEW s \in States
    PROVE  s # NoState
<1>1. "data" \in DOMAIN s
  BY DEF States
<1>2. "data" \notin DOMAIN NoState
  BY DEF NoState
<1> QED  BY <1>1, <1>2, Zenon

\* Marking an epoch keeps the journal's types.
LEMMA JournalEpochType ==
    TypeOK /\ JournalEpoch =>
        /\ journal' \in Seq(Records) /\ lost' \in Nat
        /\ torn' \in BOOLEAN /\ journalOn' \in BOOLEAN
        /\ epochBits' \subseteq Blocks
<1> SUFFICES ASSUME TypeOK, JournalEpoch
             PROVE  /\ journal' \in Seq(Records) /\ lost' \in Nat
                    /\ torn' \in BOOLEAN /\ journalOn' \in BOOLEAN
                    /\ epochBits' \subseteq Blocks
  OBVIOUS
<1>1. Append(journal, EpochRecord) \in Seq(Records)
  BY NewRecords DEF TypeOK
<1>2. journal' \in Seq(Records) /\ lost' \in Nat /\ epochBits' \subseteq Blocks
  BY <1>1, Zenon DEF JournalEpoch, TypeOK, journalVars
<1>3. torn' \in BOOLEAN /\ journalOn' \in BOOLEAN
  BY Zenon DEF JournalEpoch, TypeOK, journalVars
<1> QED  BY <1>2, <1>3

-----------------------------------------------------------------------------
(* What a state lands on.                                                    *)

\* Outside a write the digest is the image.
LEMMA DigestIsImage ==
    ASSUME TypeOK, DigestTracksImage, up, pc \notin {"log", "copy"}
    PROVE  digest = image
<1>1. digest = [b \in Blocks |-> image[b]]
  BY DEF DigestTracksImage
<1> QED  BY <1>1 DEF TypeOK, Contents

\* Between writes, reverting the log and replaying the state's blocks lands on
\* the state, for every state of this session.
LEMMA SessionLands ==
    ASSUME TypeOK, DigestTracksImage, up, pc \notin {"log", "copy"},
           NEW s \in States, s.here, SessionState(s)
    PROVE  LogLands(s)
<1>1. digest = image
  BY DigestIsImage
<1>2. s.digest \in [Blocks -> Values]
  BY DEF States, Contents
<1>3. ASSUME NEW b \in Blocks
      PROVE  Overlay(digest, LogCandidate(s))[b] = s.digest[b]
  BY <1>1 DEF Overlay, LogCandidate, SessionState, Opened
<1>4. Overlay(digest, LogCandidate(s)) = [b \in Blocks |-> s.digest[b]]
  BY <1>3 DEF Overlay
<1> QED  BY <1>2, <1>4 DEF LogLands, DigestAfter

\* The rollback state always lands.
LEMMA RollbackAccepted ==
    ASSUME TypeOK, ControlInv, DigestTracksImage, SessionInv, pc = "load", ~txn
    PROVE  Accepts(target)
<1>1. up /\ target # NoState /\ target = rollback /\ rollback.here
  BY DEF ControlInv, TypeOK
<1>2. target \in States /\ SessionState(target)
  BY <1>1 DEF TypeOK, SessionInv
<1> QED  BY <1>1, <1>2, SessionLands DEF Accepts

-----------------------------------------------------------------------------
(* The steps preserve the types, the control state, the digest, the log,     *)
(* the plan and the backing file.                                            *)

\* Every step keeps the types.
LEMMA TypeStep == TypeOK /\ ControlInv /\ [Next]_vars => TypeOK'
<1> SUFFICES ASSUME TypeOK, ControlInv, [Next]_vars
             PROVE  TypeOK'
  OBVIOUS
<1>1. ASSUME NEW wb \in BOOLEAN, Attach(wb)
      PROVE  TypeOK'
  <2>1. /\ journal' \in Seq(Records) /\ lost' \in Nat
        /\ torn' \in BOOLEAN /\ journalOn' \in BOOLEAN
    <3>1. torn' \in BOOLEAN /\ journalOn' \in BOOLEAN
      BY <1>1, Zenon DEF Attach, OpenJournal, TypeOK
    <3>2. CASE Compact
      <4>1. CutAt \in 1 .. Len(journal) + 1 /\ journal \in Seq(Records)
        BY CutAtType DEF TypeOK
      <4>2. journal' \in Seq(Records)
        BY <3>2, <4>1, SubSeqRecords DEF Compact
      <4>3. lost' \in Nat
        BY <3>2, <4>1 DEF Compact, TypeOK
      <4> QED  BY <3>1, <4>2, <4>3
    <3>3. CASE UNCHANGED <<journal, lost>>
      BY <3>1, <3>3 DEF TypeOK
    <3> QED  BY <1>1, <3>2, <3>3 DEF Attach, OpenJournal
  <2> QED  BY <1>1, <2>1, NoMapType, Zenon DEF Attach, TypeOK, loadVars
<1>2. ASSUME NEW lo \in Blocks, NEW hi \in Blocks, lo <= hi,
             NEW data \in [lo .. hi -> Values], BeginStore(data)
      PROVE  TypeOK'
  <2>1. lo .. hi \subseteq Blocks
    BY ConstantsAssumption DEF Blocks
  <2>2. data \in Maps /\ DOMAIN data \subseteq Blocks
    BY <2>1, MapsIntro, Zenon
  <2> QED  BY <1>2, <2>2
           DEF BeginStore, TypeOK, diskVars, sessionVars, logVars, loadVars
<1>3. CASE WillWrite
  <2>1. PICK b \in todo :
          /\ todo' = todo \ {b}
          /\ pristine' = [c \in DOMAIN pristine \cup {b} |->
                             IF c \in DOMAIN pristine THEN pristine[c]
                                                      ELSE image[c]]
          /\ JournalAppend(b) \/ JournalSkip(b) \/ JournalDrop(b) \/ JournalOff
          /\ digest' = DigestWith(b)
    BY <1>3 DEF WillWrite
  <2>2. b \in Blocks /\ b \in DOMAIN job /\ job[b] \in Values
    BY <2>1, MapsElim DEF TypeOK, ControlInv
  <2>3. pristine' \in Maps
    <3>1. DOMAIN pristine \cup {b} \subseteq Blocks
      BY <2>2, MapsElim DEF TypeOK
    <3>2. pristine' \in [DOMAIN pristine \cup {b} -> Values]
      BY <2>1, <2>2, MapsElim DEF TypeOK, Contents
    <3> QED  BY <3>1, <3>2, MapsIntro
  <2>4. digest' \in Contents
    BY <2>1, <2>2 DEF DigestWith, TypeOK, Contents
  <2>5. /\ journal' \in Seq(Records) /\ lost' \in Nat
        /\ torn' \in BOOLEAN /\ journalOn' \in BOOLEAN
        /\ epochBits' \subseteq Blocks
    <3>1. BlockRecord(b) \in Records
      BY <2>2, NewRecords
    <3>2. Append(journal, BlockRecord(b)) \in Seq(Records)
      BY <3>1 DEF TypeOK
    <3>3. torn' \in BOOLEAN /\ journalOn' \in BOOLEAN
      BY <2>1, Zenon DEF JournalAppend, JournalSkip, JournalDrop, JournalOff,
                         journalVars, TypeOK
    <3>4. journal' \in Seq(Records) /\ epochBits' \subseteq Blocks
      BY <2>1, <2>2, <3>2, Zenon
      DEF JournalAppend, JournalSkip, JournalDrop, JournalOff, journalVars,
          TypeOK
    <3>5. lost' \in Nat
      BY <2>1, <3>4
      DEF JournalAppend, JournalSkip, JournalDrop, JournalOff, journalVars,
          TypeOK
    <3> QED  BY <3>3, <3>4, <3>5
  <2> QED  BY <1>3, <2>1, <2>3, <2>4, <2>5, Zenon
           DEF WillWrite, TypeOK, sessionVars, loadVars
<1>4. CASE CopyToImage
  <2>1. image' \in Contents
    BY <1>4, OverlayType DEF CopyToImage, TypeOK
  <2> QED  BY <1>4, <2>1, NoMapType
           DEF CopyToImage, Return, TypeOK, diskVars, sessionVars, logVars,
               loadVars
<1>5. ASSUME NEW S \in SUBSET (DOMAIN job)
      PROVE  FileWith(S) \in Contents
  BY MapsElim DEF FileWith, TypeOK, Contents
<1>6. CASE WriteThrough
  <2>1. file' \in Contents
    BY <1>5, <1>6 DEF WriteThrough
  <2> QED  BY <1>6, <2>1, NoMapType
           DEF WriteThrough, Return, TypeOK, sessionVars, logVars, loadVars
<1>7. CASE WriteThroughFails
  <2>1. file' \in Contents
    BY <1>5, <1>7 DEF WriteThroughFails
  <2> QED  BY <1>7, <2>1, NoMapType, Zenon
           DEF WriteThroughFails, Return, TypeOK, logVars, loadVars
<1>8. CASE Save
  BY <1>8, StateOfType, JournalEpochType, Zenon
  DEF Save, TypeOK, sessionVars, logVars, loadVars
<1>9. ASSUME NEW s \in saved, BeginLoad(s)
      PROVE  TypeOK'
  BY <1>9, StateOfType, JournalEpochType
  DEF BeginLoad, TypeOK, sessionVars, logVars
<1>10. CASE EarlierChunkFails
  BY <1>10, Zenon
  DEF EarlierChunkFails, Reject, Finish, TypeOK, diskVars, sessionVars, logVars
<1>11. CASE PlanLoad
  <2>1. target \in States
    BY <1>11 DEF PlanLoad, ControlInv, TypeOK
  <2>2. plan' \in Maps
    BY <1>11, <2>1, CandidateType DEF PlanLoad
  <2>3. loadOrder' \subseteq Blocks
    BY <1>11, <2>1, MapsElim DEF PlanLoad, States
  <2> QED  BY <1>11, <2>2, <2>3, Zenon DEF PlanLoad, TypeOK, diskVars, sessionVars
<1>12. CASE RefuseLoad
  <2>1. target \in States
    BY <1>12 DEF RefuseLoad, ControlInv, TypeOK
  <2>2. loadOrder' \subseteq Blocks
    BY <1>12, <2>1, MapsElim, Zenon DEF RefuseLoad, States
  <2> QED  BY <1>12, <2>2, Zenon
           DEF RefuseLoad, Reject, Finish, TypeOK, diskVars, sessionVars
<1>13. CASE ApplyBlock
  <2>1. PICK b \in DOMAIN plan :
          /\ job' = [c \in {b} |-> plan[b]]
          /\ todo' = {b}
          /\ plan' = [c \in DOMAIN plan \ {b} |-> plan[c]]
    BY <1>13 DEF ApplyBlock
  <2>2. DOMAIN plan \subseteq Blocks /\ plan \in [DOMAIN plan -> Values]
    BY MapsElim DEF TypeOK
  <2>3. job' \in Maps
    <3>1. job' \in [{b} -> Values] /\ {b} \subseteq Blocks
      BY <2>1, <2>2
    <3> QED  BY <3>1, MapsIntro
  <2>4. plan' \in Maps
    <3>1. plan' \in [DOMAIN plan \ {b} -> Values]
      BY <2>1, <2>2
    <3>2. DOMAIN plan \ {b} \subseteq Blocks
      BY <2>2
    <3> QED  BY <3>1, <3>2, MapsIntro
  <2> QED  BY <1>13, <2>1, <2>2, <2>3, <2>4, Zenon
           DEF ApplyBlock, TypeOK, diskVars, sessionVars, logVars
<1>14. CASE CommitLoad
  <2>1. RebuiltLog \in Maps
    <3> DEFINE D == loadOrder \cup {c \in DOMAIN pristine : Keep(c)}
    <3>1. D \subseteq Blocks
      BY MapsElim DEF TypeOK
    <3>2. RebuiltLog \in [D -> Values]
      BY <3>1, MapsElim DEF RebuiltLog, TypeOK, Contents
    <3> QED  BY <3>1, <3>2, MapsIntro
  <2> QED  BY <1>14, <2>1, Zenon
           DEF CommitLoad, CommitLog, Reject, Finish, TypeOK, diskVars,
               sessionVars
<1>15. CASE Stop
  <2>1. file' \in Contents
    BY <1>5, <1>15 DEF Stop
  <2>2. saved' \subseteq States
    BY <1>15, Zenon DEF Stop, States, TypeOK
  <2> QED  BY <1>15, <2>1, <2>2, NoMapType, Zenon DEF Stop, TypeOK
<1>16. ASSUME NEW b \in Blocks, NEW v \in Values, EditFile(b, v)
       PROVE  TypeOK'
  <2>1. file' \in Contents
    BY <1>16 DEF EditFile, TypeOK, Contents
  <2>2. lost' \in Nat
    BY <1>16 DEF EditFile, TypeOK
  <2> QED  BY <1>16, <2>1, <2>2 DEF EditFile, TypeOK, logVars, loadVars
<1>17. CASE LoseJournal
  <2>1. journal' \in Seq(Records) /\ lost' \in Nat
    BY <1>17 DEF LoseJournal
  <2>2. torn' \in BOOLEAN
    BY <1>17, Zenon DEF LoseJournal
  <2> QED  BY <1>17, <2>1, <2>2, Zenon
           DEF LoseJournal, TypeOK, sessionVars, logVars, loadVars
<1>18. CASE UNCHANGED vars
  BY <1>18 DEF vars, TypeOK, diskVars, sessionVars, logVars, loadVars
<1>19. CASE \E wb \in BOOLEAN : Attach(wb)
  BY <1>1, <1>19
<1>20. CASE \E lo, hi \in Blocks :
              lo <= hi /\ \E data \in [lo .. hi -> Values] : BeginStore(data)
  BY <1>2, <1>20
<1>21. CASE \E s \in saved : BeginLoad(s)
  BY <1>9, <1>21
<1>22. CASE \E b \in Blocks, v \in Values : EditFile(b, v)
  BY <1>16, <1>22
<1>23. CASE BeginBareLoad
  BY <1>23, StateOfType, JournalEpochType
  DEF BeginBareLoad, TypeOK, sessionVars, logVars
<1> QED
  BY <1>3, <1>4, <1>6, <1>7, <1>8, <1>10, <1>11, <1>12, <1>13, <1>14, <1>15,
     <1>17, <1>18, <1>19, <1>20, <1>21, <1>22, <1>23, Zenon DEF Next

\* Every step keeps the thread's position consistent with what it holds.
LEMMA ControlStep ==
    TypeOK /\ ControlInv /\ DigestTracksImage /\ SessionInv /\ [Next]_vars =>
        ControlInv'
<1> SUFFICES ASSUME TypeOK, ControlInv, DigestTracksImage, SessionInv,
                    [Next]_vars
             PROVE  ControlInv'
  BY Zenon
<1>1. ASSUME NEW wb \in BOOLEAN, Attach(wb)
      PROVE  ControlInv'
  BY <1>1, Zenon DEF Attach, OpenJournal, TypeOK, ControlInv, Writing, loadVars
<1>2. ASSUME NEW lo \in Blocks, NEW hi \in Blocks, lo <= hi,
             NEW data \in [lo .. hi -> Values], BeginStore(data)
      PROVE  ControlInv'
  <2>1. lo \in lo .. hi
    BY <1>2, ConstantsAssumption, SMTT(30) DEF Blocks
  <2> QED  BY <1>2, <2>1 DEF BeginStore, TypeOK, ControlInv, Writing, diskVars,
                             sessionVars, logVars, loadVars
<1>3. CASE WillWrite
  BY <1>3 DEF WillWrite, JournalAppend, JournalSkip, JournalDrop, JournalOff,
              journalVars, TypeOK, ControlInv, Writing, sessionVars, loadVars
<1>4. CASE CopyToImage
  BY <1>4, NoMapType, MapsElim, Zenon
  DEF CopyToImage, ReachesFile, Return, Overlay, TypeOK, ControlInv, Writing,
      diskVars, sessionVars, logVars, loadVars
<1>6. CASE WriteThrough
  BY <1>6, NoMapType, Zenon
  DEF WriteThrough, Return, TypeOK, ControlInv, Writing, sessionVars, logVars,
      loadVars
<1>7. CASE WriteThroughFails
  BY <1>7, NoMapType, Zenon
  DEF WriteThroughFails, Return, TypeOK, ControlInv, Writing, logVars, loadVars
<1>8. CASE Save
  BY <1>8
  DEF Save, JournalEpoch, journalVars, TypeOK, ControlInv, Writing, sessionVars,
      logVars, loadVars
<1>9. ASSUME NEW s \in saved, BeginLoad(s)
      PROVE  ControlInv'
  <2>1. journalOn' => journalOn /\ torn' = torn
    BY <1>9, Zenon DEF BeginLoad, JournalEpoch, journalVars
  <2>2. s # NoState /\ StateOf # NoState /\ StateOf.here
    <3>1. s \in States /\ StateOf \in States
      BY StateOfType, Zenon DEF TypeOK
    <3>2. StateOf.here
      BY DEF StateOf
    <3> QED  BY <3>1, <3>2, NotNoState, Zenon
  <2>3. /\ up /\ pc = "idle" /\ pc' = "load" /\ target' = s /\ txn'
        /\ rollback' = StateOf
        /\ UNCHANGED <<file, sessionVars, image, pristine, job, todo, plan>>
    BY <1>9, Zenon DEF BeginLoad, logVars
  <2> QED  BY <2>1, <2>2, <2>3 DEF TypeOK, ControlInv, Writing, sessionVars
<1>10. CASE EarlierChunkFails
  BY <1>10, Zenon
  DEF EarlierChunkFails, Reject, TypeOK, ControlInv, Writing,
      diskVars, sessionVars, logVars
<1>11. CASE PlanLoad
  BY <1>11, Zenon DEF PlanLoad, TypeOK, ControlInv, Writing, diskVars, sessionVars
<1>12. CASE RefuseLoad
  <2>1. txn
    BY <1>12, RollbackAccepted, Zenon DEF RefuseLoad
  <2> QED  BY <1>12, <2>1
  DEF RefuseLoad, Reject, TypeOK, ControlInv, Writing, diskVars, sessionVars
<1>13. CASE ApplyBlock
  BY <1>13, Zenon
  DEF ApplyBlock, TypeOK, ControlInv, Writing, diskVars, sessionVars, logVars
<1>14. CASE CommitLoad
  BY <1>14
  DEF CommitLoad, CommitLog, Reject, Finish, TypeOK, ControlInv, Writing,
      diskVars, sessionVars
<1>15. CASE Stop
  BY <1>15, NoMapType, Zenon DEF Stop, TypeOK, ControlInv, Writing
<1>16. ASSUME NEW b \in Blocks, NEW v \in Values, EditFile(b, v)
       PROVE  ControlInv'
  BY <1>16, Zenon DEF EditFile, TypeOK, ControlInv, Writing, logVars, loadVars
<1>17. CASE LoseJournal
  BY <1>17, Zenon
  DEF LoseJournal, TypeOK, ControlInv, Writing, sessionVars, logVars, loadVars
<1>18. CASE UNCHANGED vars
  BY <1>18 DEF vars, TypeOK, ControlInv, Writing, diskVars, sessionVars, logVars,
               loadVars
<1>19. CASE \E wb \in BOOLEAN : Attach(wb)
  BY <1>1, <1>19
<1>20. CASE \E lo, hi \in Blocks :
              lo <= hi /\ \E data \in [lo .. hi -> Values] : BeginStore(data)
  BY <1>2, <1>20
<1>21. CASE \E s \in saved : BeginLoad(s)
  BY <1>9, <1>21
<1>22. CASE \E b \in Blocks, v \in Values : EditFile(b, v)
  BY <1>16, <1>22
<1>23. CASE BeginBareLoad
  <2>1. journalOn' => journalOn /\ torn' = torn
    BY <1>23, Zenon DEF BeginBareLoad, JournalEpoch, journalVars
  <2>2. StateOf # NoState /\ StateOf.here
    <3>1. StateOf.here
      BY DEF StateOf
    <3> QED  BY <3>1, StateOfType, NotNoState, Zenon
  <2>3. /\ up /\ pc = "idle" /\ pc' = "apply" /\ target' = StateOf /\ txn'
        /\ rollback' = StateOf
        /\ UNCHANGED <<file, sessionVars, image, pristine, job, todo, plan>>
    BY <1>23, Zenon DEF BeginBareLoad, logVars
  <2> QED  BY <2>1, <2>2, <2>3 DEF TypeOK, ControlInv, Writing, sessionVars
<1> QED
  BY <1>3, <1>4, <1>6, <1>7, <1>8, <1>10, <1>11, <1>12, <1>13, <1>14, <1>15,
     <1>17, <1>18, <1>19, <1>20, <1>21, <1>22, <1>23, Zenon DEF Next

\* Every step keeps the digest in step with the image.
LEMMA DigestStep ==
    TypeOK /\ ControlInv /\ DigestTracksImage /\ [Next]_vars =>
        DigestTracksImage'
<1> SUFFICES ASSUME TypeOK, ControlInv, DigestTracksImage, [Next]_vars
             PROVE  DigestTracksImage'
  BY Zenon
<1>1. ASSUME NEW wb \in BOOLEAN, Attach(wb)
      PROVE  DigestTracksImage'
  BY <1>1, SMTT(20) DEF Attach, ControlInv, DigestTracksImage, TypeOK, Contents
<1>2. ASSUME NEW lo \in Blocks, NEW hi \in Blocks, lo <= hi,
             NEW data \in [lo .. hi -> Values], BeginStore(data)
      PROVE  DigestTracksImage'
  BY <1>2, Zenon DEF BeginStore, DigestTracksImage, sessionVars
<1>3. CASE WillWrite
  <2>1. PICK b \in todo : todo' = todo \ {b} /\ digest' = DigestWith(b)
    BY <1>3, ZenonT(30) DEF WillWrite
  <2>2. digest \in [Blocks -> Values] /\ b \in Blocks /\ b \in DOMAIN job
    BY <2>1 DEF TypeOK, Contents, ControlInv
  <2>3. pc' \in {"log", "copy"} /\ pc = "log" /\ UNCHANGED <<up, image, job>>
    BY <1>3, ZenonT(30) DEF WillWrite, sessionVars
  <2> QED  BY <2>1, <2>2, <2>3, ZenonT(30) DEF DigestTracksImage, DigestWith
<1>4. CASE CopyToImage
  BY <1>4, ZenonT(30)
  DEF CopyToImage, Return, Overlay, ControlInv, DigestTracksImage, sessionVars
<1>6. CASE WriteThrough
  BY <1>6, Zenon DEF WriteThrough, Return, DigestTracksImage, sessionVars
<1>7. CASE WriteThroughFails
  BY <1>7, Zenon DEF WriteThroughFails, Return, DigestTracksImage
<1>8. CASE Save
  BY <1>8 DEF Save, DigestTracksImage, sessionVars
<1>9. ASSUME NEW s \in saved, BeginLoad(s)
      PROVE  DigestTracksImage'
  BY <1>9 DEF BeginLoad, DigestTracksImage, sessionVars
<1>10. CASE EarlierChunkFails
  BY <1>10, Zenon DEF EarlierChunkFails, Reject, Finish, DigestTracksImage, sessionVars
<1>11. CASE PlanLoad
  BY <1>11 DEF PlanLoad, DigestTracksImage, sessionVars
<1>12. CASE RefuseLoad
  BY <1>12 DEF RefuseLoad, Reject, Finish, DigestTracksImage, sessionVars
<1>13. CASE ApplyBlock
  BY <1>13 DEF ApplyBlock, DigestTracksImage, sessionVars
<1>14. CASE CommitLoad
  BY <1>14 DEF CommitLoad, Reject, Finish, DigestTracksImage, sessionVars
<1>15. CASE Stop
  BY <1>15 DEF Stop, DigestTracksImage
<1>16. ASSUME NEW b \in Blocks, NEW v \in Values, EditFile(b, v)
       PROVE  DigestTracksImage'
  BY <1>16 DEF EditFile, DigestTracksImage
<1>17. CASE LoseJournal
  BY <1>17 DEF LoseJournal, DigestTracksImage, sessionVars
<1>18. CASE UNCHANGED vars
  BY <1>18 DEF vars, DigestTracksImage, sessionVars
<1>19. CASE \E wb \in BOOLEAN : Attach(wb)
  BY <1>1, <1>19
<1>20. CASE \E lo, hi \in Blocks :
              lo <= hi /\ \E data \in [lo .. hi -> Values] : BeginStore(data)
  BY <1>2, <1>20
<1>21. CASE \E s \in saved : BeginLoad(s)
  BY <1>9, <1>21
<1>22. CASE \E b \in Blocks, v \in Values : EditFile(b, v)
  BY <1>16, <1>22
<1>23. CASE BeginBareLoad
  BY <1>23 DEF BeginBareLoad, DigestTracksImage, sessionVars
<1> QED
  BY <1>3, <1>4, <1>6, <1>7, <1>8, <1>10, <1>11, <1>12, <1>13, <1>14, <1>15,
     <1>17, <1>18, <1>19, <1>20, <1>21, <1>22, <1>23, Zenon DEF Next

\* Every step keeps the log able to undo the session.
LEMMA SessionStep ==
    /\ TypeOK /\ ControlInv /\ DigestTracksImage /\ SessionInv
    /\ [Next]_vars
    => SessionInv'
<1> SUFFICES ASSUME TypeOK, ControlInv, DigestTracksImage, SessionInv,
                    [Next]_vars
             PROVE  SessionInv'
  BY Zenon
<1>a. ASSUME UNCHANGED <<saved, target, rollback, up>>, Opened' = Opened,
             (Writing => DOMAIN job \ todo \subseteq DOMAIN pristine)'
      PROVE  SessionInv'
  BY <1>a DEF SessionInv, SessionState
<1>b. ASSUME UNCHANGED <<image, pristine>>
      PROVE  Opened' = Opened
  BY <1>b, Zenon DEF Opened
<1>s. ASSUME up, pc \notin {"log", "copy"}
      PROVE  SessionState(StateOf)
  <2>1. digest = image
    BY <1>s, DigestIsImage, Zenon
  <2> QED  BY <2>1 DEF SessionState, StateOf, Opened
<1>1. ASSUME NEW wb \in BOOLEAN, Attach(wb)
      PROVE  SessionInv'
  BY <1>1 DEF Attach, SessionInv, SessionState, ControlInv, Writing, loadVars
<1>2. ASSUME NEW lo \in Blocks, NEW hi \in Blocks, lo <= hi,
             NEW data \in [lo .. hi -> Values], BeginStore(data)
      PROVE  SessionInv'
  BY <1>a, <1>b, <1>2 DEF BeginStore, Writing, diskVars, sessionVars, logVars,
                          loadVars
<1>3. CASE WillWrite
  <2>1. PICK b \in todo :
          /\ todo' = todo \ {b}
          /\ pristine' = [c \in DOMAIN pristine \cup {b} |->
                             IF c \in DOMAIN pristine THEN pristine[c]
                                                      ELSE image[c]]
    BY <1>3, Zenon DEF WillWrite
  <2>2. /\ UNCHANGED <<saved, target, rollback, up, image, job>>
        /\ pc = "log"
    BY <1>3, Zenon DEF WillWrite, sessionVars, loadVars
  <2>3. Opened' = Opened
    BY <2>1, <2>2, Zenon DEF Opened
  <2>4. DOMAIN job' \ todo' \subseteq DOMAIN pristine'
    BY <2>1, <2>2, Zenon DEF SessionInv, Writing
  <2> QED  BY <1>a, <2>2, <2>3, <2>4, Zenon
<1>4. CASE CopyToImage
  <2>1. /\ UNCHANGED <<saved, target, rollback, up, pristine, todo>>
        /\ image' = Overlay(image, job)
        /\ pc = "copy" /\ todo = {}
        /\ job' = job \/ job' = NoMap
    BY <1>4, Zenon DEF CopyToImage, Return, diskVars, sessionVars, logVars, loadVars,
                ControlInv
  <2>2. DOMAIN job \subseteq DOMAIN pristine
    BY <2>1, Zenon DEF SessionInv, Writing
  <2>3. Opened' = Opened
    BY <2>1, <2>2, Zenon DEF Opened, Overlay
  <2> QED  BY <1>a, <2>1, <2>2, <2>3, NoMapType, Zenon
<1>6. CASE WriteThrough
  BY <1>a, <1>b, <1>6, NoMapType, Zenon
  DEF WriteThrough, Return, Writing, sessionVars, logVars, loadVars
<1>7. CASE WriteThroughFails
  BY <1>a, <1>b, <1>7, NoMapType, Zenon
  DEF WriteThroughFails, Return, Writing, logVars, loadVars
<1>8. CASE Save
  <2>1. /\ UNCHANGED <<target, rollback, up, image, pristine, pc>>
        /\ pc = "idle" /\ up
        /\ saved' = saved \cup {StateOf}
    BY <1>8 DEF Save, sessionVars, logVars, loadVars
  <2>2. Opened' = Opened
    BY <1>b, <2>1
  <2>3. SessionState(StateOf)
    BY <1>s, <2>1, Zenon
  <2>4. \A s \in saved' : SessionState(s)
    BY <2>1, <2>3, Zenon DEF SessionInv
  <2> QED  BY <2>1, <2>2, <2>4 DEF SessionInv, SessionState, Writing
<1>9. ASSUME NEW s \in saved, BeginLoad(s)
      PROVE  SessionInv'
  <2>1. /\ UNCHANGED <<saved, up, image, pristine>>
        /\ pc = "idle" /\ up /\ pc' = "load"
        /\ rollback' = StateOf
    BY <1>9 DEF BeginLoad, sessionVars, logVars
  <2>2. Opened' = Opened
    BY <1>b, <2>1
  <2>3. SessionState(StateOf)
    BY <1>s, <2>1, Zenon
  <2>4. SessionState(rollback)'
    BY <2>1, <2>2, <2>3, Zenon DEF SessionState
  <2> QED  BY <2>1, <2>2, <2>4 DEF SessionInv, SessionState, Writing
<1>10. CASE EarlierChunkFails
  <2>1. UNCHANGED <<saved, up, image, pristine>> /\ ~(Writing')
    BY <1>10 DEF EarlierChunkFails, Reject, diskVars, sessionVars, logVars,
                 Writing
  <2>2. target # NoState /\ rollback' = rollback
    BY <1>10, Zenon DEF EarlierChunkFails, Reject, ControlInv
  <2>3. Opened' = Opened
    BY <1>b, <2>1
  <2> QED  BY <2>1, <2>2, <2>3, Zenon DEF SessionInv, SessionState
<1>11. CASE PlanLoad
  BY <1>a, <1>b, <1>11, ZenonT(30) DEF PlanLoad, Writing, diskVars, sessionVars
<1>12. CASE RefuseLoad
  <2>1. UNCHANGED <<saved, up, image, pristine>> /\ ~(Writing')
    BY <1>12, Zenon DEF RefuseLoad, Reject, Finish, diskVars, sessionVars, Writing
  <2>2. target # NoState /\ txn
    BY <1>12, RollbackAccepted, Zenon DEF RefuseLoad, ControlInv
  <2>3. Opened' = Opened
    BY <1>b, <2>1
  <2>4. rollback' = rollback
    BY <1>12, <2>2, Zenon DEF RefuseLoad, Reject
  <2> QED  BY <2>1, <2>2, <2>3, <2>4, Zenon DEF SessionInv, SessionState
<1>13. CASE ApplyBlock
  BY <1>a, <1>b, <1>13, Zenon DEF ApplyBlock, Writing, diskVars, sessionVars, logVars
<1>14. CASE CommitLoad
  <2>1. /\ UNCHANGED <<saved, up, image>> /\ ~(Writing')
        /\ pristine' = RebuiltLog
        /\ target' # NoState => rollback' = rollback
        /\ target # NoState
    BY <1>14, Zenon DEF CommitLoad, CommitLog, Reject, Finish, diskVars, sessionVars,
                 Writing, ControlInv
  <2>2. Opened' = Opened
    BY <2>1 DEF Opened, RebuiltLog, Keep
  <2> QED  BY <2>1, <2>2, Zenon DEF SessionInv, SessionState
<1>15. CASE Stop
  <2>1. ASSUME NEW s \in saved'
        PROVE  ~s.here
    BY <1>15 DEF Stop, TypeOK, States
  <2> QED  BY <1>15, <2>1 DEF Stop, SessionInv, SessionState, Writing
<1>16. ASSUME NEW b \in Blocks, NEW v \in Values, EditFile(b, v)
       PROVE  SessionInv'
  BY <1>16, Zenon
  DEF EditFile, SessionInv, SessionState, ControlInv, Writing, loadVars
<1>17. CASE LoseJournal
  BY <1>a, <1>b, <1>17, ZenonT(30) DEF LoseJournal, SessionInv, Writing, sessionVars,
                           logVars, loadVars
<1>18. CASE UNCHANGED vars
  BY <1>a, <1>b, <1>18, ZenonT(30) DEF vars, SessionInv, Writing, diskVars, sessionVars,
                           logVars, loadVars
<1>19. CASE \E wb \in BOOLEAN : Attach(wb)
  BY <1>1, <1>19
<1>20. CASE \E lo, hi \in Blocks :
              lo <= hi /\ \E data \in [lo .. hi -> Values] : BeginStore(data)
  BY <1>2, <1>20
<1>21. CASE \E s \in saved : BeginLoad(s)
  BY <1>9, <1>21
<1>22. CASE \E b \in Blocks, v \in Values : EditFile(b, v)
  BY <1>16, <1>22, Zenon
<1>23. CASE BeginBareLoad
  <2>1. /\ UNCHANGED <<saved, up, image, pristine>>
        /\ pc = "idle" /\ up /\ pc' = "apply"
        /\ rollback' = StateOf
    BY <1>23 DEF BeginBareLoad, sessionVars, logVars
  <2>2. Opened' = Opened
    BY <1>b, <2>1
  <2>3. SessionState(StateOf)
    BY <1>s, <2>1, Zenon
  <2>4. SessionState(rollback)'
    BY <2>1, <2>2, <2>3, Zenon DEF SessionState
  <2> QED  BY <2>1, <2>2, <2>4 DEF SessionInv, SessionState, Writing
<1> QED
  BY <1>3, <1>4, <1>6, <1>7, <1>8, <1>10, <1>11, <1>12, <1>13, <1>14, <1>15,
     <1>17, <1>18, <1>19, <1>20, <1>21, <1>22, <1>23, Zenon DEF Next

\* Every step keeps the rest of the plan leading to the state's content.
LEMMA PlanStep ==
    /\ TypeOK /\ ControlInv /\ DigestTracksImage /\ SessionInv /\ PlanInv
    /\ [Next]_vars
    => PlanInv'
<1> SUFFICES ASSUME TypeOK, ControlInv, DigestTracksImage, SessionInv, PlanInv,
                    [Next]_vars
             PROVE  PlanInv'
  OBVIOUS
<1>1. ASSUME NEW wb \in BOOLEAN, Attach(wb)
      PROVE  PlanInv'
  BY <1>1, Zenon DEF Attach, ControlInv, PlanInv, loadVars
<1>2. ASSUME NEW lo \in Blocks, NEW hi \in Blocks, lo <= hi,
             NEW data \in [lo .. hi -> Values], BeginStore(data)
      PROVE  PlanInv'
  BY <1>2, Zenon DEF BeginStore, ControlInv, PlanInv, loadVars
<1>3. CASE WillWrite
  BY <1>3, Zenon DEF WillWrite, PlanInv, loadVars
<1>4. CASE CopyToImage
  BY <1>4, Zenon DEF CopyToImage, Return, PlanInv, loadVars
<1>6. CASE WriteThrough
  BY <1>6, Zenon DEF WriteThrough, Return, PlanInv, loadVars
<1>7. CASE WriteThroughFails
  BY <1>7 DEF WriteThroughFails, Return, PlanInv, loadVars
<1>8. CASE Save
  BY <1>8, Zenon DEF Save, PlanInv, loadVars
<1>9. ASSUME NEW s \in saved, BeginLoad(s)
      PROVE  PlanInv'
  BY <1>9 DEF BeginLoad, PlanInv
<1>10. CASE EarlierChunkFails
  BY <1>10, Zenon DEF EarlierChunkFails, Reject, PlanInv
<1>11. CASE PlanLoad
  <2>1. up /\ pc = "load" /\ target \in States
    BY <1>11, Zenon DEF PlanLoad, ControlInv, TypeOK
  <2>2. digest = image
    BY <2>1, DigestIsImage, Zenon
  <2>3. Overlay(image, Candidate(target)) = target.digest
    BY <1>11, <2>2, Zenon DEF PlanLoad, Accepts, Candidate, LogLands, JournalLands,
                       DigestAfter
  <2>4. Overlay(image, PlanFor(target)) = Overlay(image, Candidate(target))
    BY Zenon DEF Overlay, PlanFor
  <2> QED  BY <1>11, <2>3, <2>4, Zenon DEF PlanLoad, PlanInv
<1>12. CASE RefuseLoad
  <2>1. txn
    BY <1>12, RollbackAccepted, Zenon DEF RefuseLoad
  <2> QED  BY <1>12, <2>1 DEF RefuseLoad, Reject, PlanInv
<1>13. CASE ApplyBlock
  <2>1. PICK b \in DOMAIN plan :
          /\ job' = [c \in {b} |-> plan[b]]
          /\ plan' = [c \in DOMAIN plan \ {b} |-> plan[c]]
    BY <1>13, Zenon DEF ApplyBlock
  <2>2. Overlay(Overlay(image, job'), plan') = Overlay(image, plan)
    BY <2>1, Zenon DEF Overlay
  <2>3. target # NoState => target.digest = Overlay(image, plan)
    BY <1>13, Zenon DEF ApplyBlock, PlanInv
  <2> QED  BY <1>13, <2>2, <2>3, Zenon DEF ApplyBlock, PlanInv
<1>14. CASE CommitLoad
  BY <1>14 DEF CommitLoad, Reject, Finish, PlanInv
<1>15. CASE Stop
  BY <1>15, Zenon DEF Stop, PlanInv
<1>16. ASSUME NEW b \in Blocks, NEW v \in Values, EditFile(b, v)
       PROVE  PlanInv'
  BY <1>16, Zenon DEF EditFile, ControlInv, PlanInv, loadVars
<1>17. CASE LoseJournal
  BY <1>17, Zenon DEF LoseJournal, PlanInv, loadVars
<1>18. CASE UNCHANGED vars
  BY <1>18 DEF vars, PlanInv, loadVars
<1>19. CASE \E wb \in BOOLEAN : Attach(wb)
  BY <1>1, <1>19
<1>20. CASE \E lo, hi \in Blocks :
              lo <= hi /\ \E data \in [lo .. hi -> Values] : BeginStore(data)
  BY <1>2, <1>20
<1>21. CASE \E s \in saved : BeginLoad(s)
  BY <1>9, <1>21
<1>22. CASE \E b \in Blocks, v \in Values : EditFile(b, v)
  BY <1>16, <1>22, Zenon
<1>23. CASE BeginBareLoad
  <2>1. /\ up /\ pc = "idle" /\ pc' = "apply" /\ target' = StateOf
        /\ image' = image /\ plan' = plan
    BY <1>23, Zenon DEF BeginBareLoad
  <2>2. digest = image /\ StateOf.digest = digest
    BY <2>1, DigestIsImage, Zenon DEF StateOf
  <2>3. DOMAIN plan = {}
    BY <2>1, Zenon DEF ControlInv
  <2>4. Overlay(image, plan) = image
    BY <2>3, Zenon DEF Overlay, TypeOK, Contents
  <2> QED  BY <2>1, <2>2, <2>4 DEF PlanInv
<1> QED
  BY <1>3, <1>4, <1>6, <1>7, <1>8, <1>10, <1>11, <1>12, <1>13, <1>14, <1>15,
     <1>17, <1>18, <1>19, <1>20, <1>21, <1>22, <1>23, Zenon DEF Next

\* Every step keeps the file within one request of the image.
LEMMA FollowStep ==
    TypeOK /\ ControlInv /\ FollowInv /\ [Next]_vars => FollowInv'
<1> SUFFICES ASSUME TypeOK, ControlInv, FollowInv, [Next]_vars
             PROVE  FollowInv'
  BY Zenon
<1>1. ASSUME NEW wb \in BOOLEAN, Attach(wb)
      PROVE  FollowInv'
  BY <1>1, Zenon DEF Attach, FollowInv
<1>2. ASSUME NEW lo \in Blocks, NEW hi \in Blocks, lo <= hi,
             NEW data \in [lo .. hi -> Values], BeginStore(data)
      PROVE  FollowInv'
  BY <1>2, Zenon DEF BeginStore, FollowInv, diskVars, sessionVars
<1>3. CASE WillWrite
  BY <1>3 DEF WillWrite, FollowInv, sessionVars
<1>4. CASE CopyToImage
  BY <1>4, Zenon DEF CopyToImage, ReachesFile, Overlay, FollowInv, diskVars,
              sessionVars
<1>6. CASE WriteThrough
  BY <1>6, Zenon DEF WriteThrough, FileWith, ControlInv, FollowInv, sessionVars
<1>7. CASE WriteThroughFails
  BY <1>7, Zenon DEF WriteThroughFails, FollowInv
<1>8. CASE Save
  BY <1>8, Zenon DEF Save, FollowInv, sessionVars
<1>9. ASSUME NEW s \in saved, BeginLoad(s)
      PROVE  FollowInv'
  BY <1>9 DEF BeginLoad, FollowInv, sessionVars
<1>10. CASE EarlierChunkFails
  BY <1>10, Zenon DEF EarlierChunkFails, FollowInv, diskVars, sessionVars
<1>11. CASE PlanLoad
  BY <1>11, Zenon DEF PlanLoad, FollowInv, diskVars, sessionVars
<1>12. CASE RefuseLoad
  BY <1>12, Zenon DEF RefuseLoad, FollowInv, diskVars, sessionVars
<1>13. CASE ApplyBlock
  BY <1>13, Zenon DEF ApplyBlock, FollowInv, diskVars, sessionVars
<1>14. CASE CommitLoad
  BY <1>14, Zenon DEF CommitLoad, FollowInv, diskVars, sessionVars
<1>15. CASE Stop
  BY <1>15, SMTT(20) DEF Stop, FollowInv
<1>16. ASSUME NEW b \in Blocks, NEW v \in Values, EditFile(b, v)
       PROVE  FollowInv'
  BY <1>16, Zenon DEF EditFile, FollowInv
<1>17. CASE LoseJournal
  BY <1>17, Zenon DEF LoseJournal, FollowInv, sessionVars
<1>18. CASE UNCHANGED vars
  BY <1>18, Zenon DEF vars, FollowInv, diskVars, sessionVars
<1>19. CASE \E wb \in BOOLEAN : Attach(wb)
  BY <1>1, <1>19
<1>20. CASE \E lo, hi \in Blocks :
              lo <= hi /\ \E data \in [lo .. hi -> Values] : BeginStore(data)
  BY <1>2, <1>20
<1>21. CASE \E s \in saved : BeginLoad(s)
  BY <1>9, <1>21
<1>22. CASE \E b \in Blocks, v \in Values : EditFile(b, v)
  BY <1>16, <1>22
<1>23. CASE BeginBareLoad
  BY <1>23 DEF BeginBareLoad, FollowInv, sessionVars
<1> QED
  BY <1>3, <1>4, <1>6, <1>7, <1>8, <1>10, <1>11, <1>12, <1>13, <1>14, <1>15,
     <1>17, <1>18, <1>19, <1>20, <1>21, <1>22, <1>23, Zenon DEF Next

-----------------------------------------------------------------------------
(* What an append and a cut do to the records.                               *)

\* A block record appended to the journal adds itself to the records of its
\* block after every epoch, and changes nothing else.
LEMMA BlockAppended ==
    ASSUME TypeOK, NEW b \in Blocks, journal' = Append(journal, BlockRecord(b))
    PROVE  /\ Len(journal') = Len(journal) + 1
           /\ Epochs' = Epochs
           /\ \A i \in Epochs :
                /\ journal'[i] = journal[i]
                /\ \A c \in Blocks :
                    /\ RecordsAfter(i, c)' =
                         RecordsAfter(i, c) \cup
                             (IF c = b THEN {Len(journal) + 1} ELSE {})
                    /\ RecordsAfter(i, c) # {} =>
                         journal'[FirstAfter(i, c)'] =
                             journal[FirstAfter(i, c)]
                    /\ RecordsAfter(i, c) = {} /\ c = b =>
                         journal'[FirstAfter(i, c)'].old = image[b]
           /\ \A k \in DOMAIN journal : journal'[k] = journal[k]
           /\ journal'[Len(journal) + 1] = BlockRecord(b)
<1> DEFINE n == Len(journal)
<1>1. /\ journal \in Seq(Records) /\ n \in Nat /\ DOMAIN journal = 1 .. n
      /\ BlockRecord(b) \in Records
  BY NewRecords DEF TypeOK
<1>2. /\ Len(journal') = n + 1 /\ DOMAIN journal' = 1 .. n + 1
      /\ \A k \in 1 .. n : journal'[k] = journal[k]
      /\ journal'[n + 1] = BlockRecord(b)
  BY <1>1
<1>3. BlockRecord(b).tag = "B" /\ BlockRecord(b).lba = b
      /\ BlockRecord(b).old = image[b]
  BY Zenon DEF BlockRecord
<1>4. Epochs' = Epochs
  BY <1>1, <1>2, <1>3 DEF Epochs
<1>5. ASSUME NEW i \in Epochs, NEW c \in Blocks
      PROVE  /\ journal'[i] = journal[i]
             /\ RecordsAfter(i, c)' =
                  RecordsAfter(i, c) \cup
                      (IF c = b THEN {Len(journal) + 1} ELSE {})
             /\ RecordsAfter(i, c) # {} =>
                  journal'[FirstAfter(i, c)'] = journal[FirstAfter(i, c)]
             /\ RecordsAfter(i, c) = {} /\ c = b =>
                  journal'[FirstAfter(i, c)'].old = image[b]
  <2>1. i \in 1 .. n
    BY <1>1, Zenon DEF Epochs
  <2>2. RecordsAfter(i, c)' =
            RecordsAfter(i, c) \cup (IF c = b THEN {n + 1} ELSE {})
    BY <1>1, <1>2, <1>3, <2>1, SMTT(30) DEF RecordsAfter
  <2>3. RecordsAfter(i, c) \subseteq 1 .. n /\ RecordsAfter(i, c)' \subseteq Nat
    BY <1>1, <2>2, SMTT(30) DEF RecordsAfter
  <2>4. CASE RecordsAfter(i, c) # {}
    <3> DEFINE m == FirstAfter(i, c)
    <3>1. m \in RecordsAfter(i, c) /\ \A l \in RecordsAfter(i, c) : m <= l
      BY <1>1, <2>4, FirstAfterExists
    <3>2. m \in RecordsAfter(i, c)' /\ \A l \in RecordsAfter(i, c)' : m <= l
      BY <1>1, <2>2, <2>3, <3>1
    <3>3. FirstAfter(i, c)' = m
      <4> HIDE DEF m
      <4> QED  BY <2>3, <3>2, LeastUnique, Zenon DEF FirstAfter
    <3> QED  BY <1>2, <2>1, <2>2, <2>3, <2>4, <3>1, <3>3, Zenon
  <2>5. CASE RecordsAfter(i, c) = {} /\ c = b
    <3>1. RecordsAfter(i, c)' = {n + 1}
      BY <2>2, <2>5
    <3>2. FirstAfter(i, c)' = n + 1
      BY <1>1, <3>1, LeastUnique DEF FirstAfter
    <3> QED  BY <1>2, <1>3, <2>1, <2>2, <2>5, <3>2
  <2>6. CASE RecordsAfter(i, c) = {} /\ c # b
    BY <1>2, <2>1, <2>2, <2>6, Zenon
  <2> QED  BY <2>4, <2>5, <2>6, Zenon
<1>6. \A i \in Epochs : journal'[i] = journal[i]
  BY <1>1, <1>2 DEF Epochs
<1> QED  BY <1>1, <1>2, <1>4, <1>5, <1>6, Zenon

\* An epoch appended to the journal has no record after it, and adds none to
\* the earlier epochs.
LEMMA EpochAppended ==
    ASSUME TypeOK, journal' = Append(journal, EpochRecord)
    PROVE  /\ Len(journal') = Len(journal) + 1
           /\ Epochs' = Epochs \cup {Len(journal) + 1}
           /\ journal'[Len(journal) + 1] = EpochRecord
           /\ \A c \in Blocks, i \in Nat :
                i = Len(journal) + 1 => RecordsAfter(i, c)' = {}
           /\ \A i \in Epochs :
                /\ journal'[i] = journal[i]
                /\ \A c \in Blocks :
                    /\ RecordsAfter(i, c)' = RecordsAfter(i, c)
                    /\ RecordsAfter(i, c) # {} =>
                         journal'[FirstAfter(i, c)'] =
                             journal[FirstAfter(i, c)]
<1> DEFINE n == Len(journal)
<1>1. /\ journal \in Seq(Records) /\ n \in Nat /\ DOMAIN journal = 1 .. n
      /\ EpochRecord \in Records
  BY NewRecords DEF TypeOK
<1>2. /\ Len(journal') = n + 1 /\ DOMAIN journal' = 1 .. n + 1
      /\ \A k \in 1 .. n : journal'[k] = journal[k]
      /\ journal'[n + 1] = EpochRecord
  BY <1>1
<1>3. EpochRecord.tag = "E"
  BY DEF EpochRecord
<1>4. Epochs' = Epochs \cup {n + 1}
  BY <1>1, <1>2, <1>3 DEF Epochs
<1>5. ASSUME NEW c \in Blocks, NEW i \in Nat, i = n + 1
      PROVE  RecordsAfter(i, c)' = {}
  BY <1>2, <1>1, <1>5, SMTT(30) DEF RecordsAfter
<1>6. ASSUME NEW i \in Epochs, NEW c \in Blocks
      PROVE  /\ journal'[i] = journal[i]
             /\ RecordsAfter(i, c)' = RecordsAfter(i, c)
             /\ RecordsAfter(i, c) # {} =>
                  journal'[FirstAfter(i, c)'] = journal[FirstAfter(i, c)]
  <2>1. i \in 1 .. n
    BY <1>1, Zenon DEF Epochs
  <2>2. RecordsAfter(i, c)' = RecordsAfter(i, c)
    BY <1>1, <1>2, <1>3, <2>1 DEF RecordsAfter
  <2>3. FirstAfter(i, c)' = FirstAfter(i, c)
    BY <2>2, Zenon DEF FirstAfter
  <2>4. RecordsAfter(i, c) # {} => FirstAfter(i, c) \in 1 .. n
    BY <1>1, FirstAfterExists DEF RecordsAfter
  <2> QED  BY <1>2, <2>1, <2>2, <2>3, <2>4
<1>7. \A i \in Epochs : journal'[i] = journal[i]
  BY <1>1, <1>2, Zenon DEF Epochs
<1> QED  BY <1>1, <1>2, <1>4, <1>5, <1>6, <1>7, Zenon

\* Cutting the journal shifts what is kept and forgets nothing of it.
LEMMA JournalCut ==
    ASSUME TypeOK, Compact
    PROVE  \A i \in Epochs' :
             \E j \in Epochs :
                /\ i > lost' => j > lost
                /\ journal'[i] = journal[j]
                /\ \A c \in Blocks :
                    /\ RecordsAfter(i, c)' = {} <=> RecordsAfter(j, c) = {}
                    /\ RecordsAfter(j, c) # {} =>
                         journal'[FirstAfter(i, c)'] =
                             journal[FirstAfter(j, c)]
<1> DEFINE n == Len(journal)
           d == CutAt - 1
<1>1. /\ journal \in Seq(Records) /\ n \in Nat /\ DOMAIN journal = 1 .. n
      /\ CutAt \in 1 .. n + 1 /\ d \in Nat
  BY CutAtType DEF TypeOK
<1>2. /\ journal' \in Seq(Records) /\ DOMAIN journal' = 1 .. n - d
      /\ \A k \in 1 .. n - d : journal'[k] = journal[k + d]
  <2>1. journal' = SubSeq(journal, CutAt, n)
    BY DEF Compact
  <2>2. /\ SubSeq(journal, CutAt, n) \in Seq(Records)
        /\ Len(SubSeq(journal, CutAt, n)) = n + 1 - CutAt
        /\ \A k \in 1 .. n + 1 - CutAt :
             SubSeq(journal, CutAt, n)[k] = journal[k + CutAt - 1]
    BY <1>1, SubSeqRecords, Zenon
  <2> HIDE DEF n
  <2>3. n \in Nat /\ CutAt \in Nat /\ n + 1 - CutAt = n - (CutAt - 1)
    BY <1>1
  <2>4. journal' \in Seq(Records) /\ Len(journal') = n - (CutAt - 1)
    BY <2>1, <2>2, <2>3, Zenon
  <2>5. DOMAIN journal' = 1 .. n - (CutAt - 1)
    BY <2>4
  <2>6. ASSUME NEW k \in 1 .. n - (CutAt - 1)
        PROVE  journal'[k] = journal[k + (CutAt - 1)]
    <3>1. k + CutAt - 1 = k + (CutAt - 1)
      BY <2>3
    <3>2. k \in 1 .. n + 1 - CutAt
      BY <2>3, Zenon
    <3>3. SubSeq(journal, CutAt, n)[k] = journal[k + CutAt - 1]
      BY <2>2, <3>2, Zenon
    <3> QED  BY <2>1, <3>1, <3>3, Zenon
  <2> QED  BY <2>4, <2>5, <2>6, Zenon
<1> HIDE DEF n, d
<1> SUFFICES ASSUME NEW i \in Epochs'
             PROVE  \E j \in Epochs :
                      /\ i > lost' => j > lost
                      /\ journal'[i] = journal[j]
                      /\ \A c \in Blocks :
                          /\ RecordsAfter(i, c)' = {} <=>
                               RecordsAfter(j, c) = {}
                          /\ RecordsAfter(j, c) # {} =>
                               journal'[FirstAfter(i, c)'] =
                                   journal[FirstAfter(j, c)]
  BY Zenon
<1> DEFINE j == i + d
<1>3. i \in 1 .. n - d /\ journal'[i] = journal[j] /\ j \in Epochs
  <2>1. i \in 1 .. n - d /\ journal'[i].tag = "E"
    BY <1>2, Zenon DEF Epochs
  <2>2. journal'[i] = journal[j]
    BY <1>2, <2>1
  <2>3. j \in 1 .. n
    BY <1>1, <2>1
  <2> QED  BY <1>1, <2>1, <2>2, <2>3, Zenon DEF Epochs
<1>4. i > lost' => j > lost
  BY <1>1, <1>3, SMTT(30) DEF Compact, TypeOK, d
<1>5. ASSUME NEW c \in Blocks
      PROVE  /\ RecordsAfter(i, c)' = {} <=> RecordsAfter(j, c) = {}
             /\ RecordsAfter(j, c) # {} =>
                  journal'[FirstAfter(i, c)'] = journal[FirstAfter(j, c)]
  <2>1. ASSUME NEW k \in RecordsAfter(j, c)
        PROVE  k - d \in RecordsAfter(i, c)' /\ k \in j + 1 .. n
    <3>1. /\ k \in 1 .. n /\ k > j
          /\ journal[k].tag = "B" /\ journal[k].lba = c
      BY <1>1, Zenon DEF RecordsAfter
    <3>2. k - d \in 1 .. n - d /\ k - d > i /\ k - d + d = k
      BY <1>1, <1>3, <3>1, SMTT(30)
    <3>3. journal'[k - d] = journal[(k - d) + d]
      BY <1>2, <3>2, Zenon
    <3>4. k - d \in RecordsAfter(i, c)'
      BY <1>2, <3>1, <3>2, <3>3, Zenon DEF RecordsAfter
    <3> QED  BY <1>1, <1>3, <3>1, <3>4
  <2>2. ASSUME NEW k \in RecordsAfter(i, c)'
        PROVE  k + d \in RecordsAfter(j, c) /\ k \in 1 .. n - d
    <3>1. /\ k \in 1 .. n - d /\ k > i
          /\ journal'[k].tag = "B" /\ journal'[k].lba = c
      BY <1>2, Zenon DEF RecordsAfter
    <3>2. k + d \in 1 .. n /\ k + d > j
      BY <1>1, <1>3, <3>1
    <3>3. journal'[k] = journal[k + d]
      BY <1>2, <3>1, Zenon
    <3> QED  BY <1>1, <3>1, <3>2, <3>3, Zenon DEF RecordsAfter
  <2>3. ASSUME RecordsAfter(j, c) # {}
        PROVE  journal'[FirstAfter(i, c)'] = journal[FirstAfter(j, c)]
    <3> DEFINE m == FirstAfter(j, c)
    <3>1. m \in RecordsAfter(j, c) /\ \A l \in RecordsAfter(j, c) : m <= l
      BY <1>1, <2>3, FirstAfterExists, Zenon
    <3> HIDE DEF m
    <3>2. /\ m - d \in RecordsAfter(i, c)'
          /\ \A l \in RecordsAfter(i, c)' : m - d <= l
      BY <1>1, <2>1, <2>2, <3>1
    <3>3. FirstAfter(i, c)' = m - d
      <4>1. RecordsAfter(i, c)' \subseteq Nat
        BY <1>1, <2>2
      <4> QED  BY <3>2, <4>1, LeastUnique, Zenon DEF FirstAfter
    <3>4. m - d \in 1 .. n - d /\ m - d + d = m
      BY <1>1, <2>1, <2>2, <3>1, <3>2
    <3>5. journal'[m - d] = journal[m]
      BY <1>2, <3>4, Zenon
    <3> QED  BY <3>3, <3>5, Zenon DEF m
  <2> QED  BY <2>1, <2>2, <2>3, Zenon
<1> QED  BY <1>3, <1>4, <1>5, Zenon

-----------------------------------------------------------------------------
(* The steps.                                                                *)

\* Every step keeps the blocks of a request covered by the journal.
LEMMA CoverStep ==
    TypeOK /\ ControlInv /\ CoverInv /\ [Next]_vars => CoverInv'
<1> SUFFICES ASSUME TypeOK, ControlInv, CoverInv, [Next]_vars
             PROVE  CoverInv'
  OBVIOUS
<1> DEFINE Covered(b) == \E k \in DOMAIN journal :
                            /\ journal[k].tag = "B" /\ journal[k].lba = b
                            /\ \A i \in Epochs : i < k
<1>a. ASSUME UNCHANGED <<journal, journalOn, journalled, epochBits, lost>>,
             Writing' => Writing /\ UNCHANGED <<job, todo>>
      PROVE  CoverInv'
  <2>1. Epochs' = Epochs
    BY <1>a, Zenon DEF Epochs
  <2> QED  BY <1>a, <2>1, Zenon DEF CoverInv
<1>b. ASSUME UNCHANGED <<journal, journalOn, journalled, epochBits, lost>>,
             DOMAIN job' = todo'
      PROVE  CoverInv'
  <2>1. Epochs' = Epochs
    BY <1>b, Zenon DEF Epochs
  <2> QED  BY <1>b, <2>1, Zenon DEF CoverInv
<1>c. ASSUME journalOn' => epochBits' = {}, ~(Writing')
      PROVE  CoverInv'
  BY <1>c, Zenon DEF CoverInv
<1>1. ASSUME NEW wb \in BOOLEAN, Attach(wb)
      PROVE  CoverInv'
  BY <1>1, <1>c, Zenon DEF Attach, ControlInv, Writing
<1>2. ASSUME NEW lo \in Blocks, NEW hi \in Blocks, lo <= hi,
             NEW data \in [lo .. hi -> Values], BeginStore(data)
      PROVE  CoverInv'
  BY <1>2, <1>b DEF BeginStore, diskVars, sessionVars
<1>3. CASE WillWrite
  <2>1. PICK b \in todo :
          /\ todo' = todo \ {b}
          /\ JournalAppend(b) \/ JournalSkip(b) \/ JournalDrop(b) \/ JournalOff
    BY <1>3 DEF WillWrite
  <2>2. /\ pc = "log" /\ UNCHANGED <<job, journalled>>
        /\ b \in Blocks /\ b \in DOMAIN job /\ Writing
    BY <1>3, <2>1, Zenon DEF WillWrite, sessionVars, TypeOK, ControlInv, Writing
  <2>3. CASE JournalAppend(b)
    <3>1. /\ journalOn /\ journalOn' /\ epochBits' = epochBits \cup {b}
          /\ journal' = Append(journal, BlockRecord(b))
      BY <2>3 DEF JournalAppend
    <3>2. /\ Epochs' = Epochs /\ Epochs \subseteq DOMAIN journal
          /\ DOMAIN journal = 1 .. Len(journal)
          /\ DOMAIN journal' = 1 .. Len(journal) + 1
          /\ \A k \in DOMAIN journal : journal'[k] = journal[k]
          /\ journal'[Len(journal) + 1] = BlockRecord(b)
          /\ Len(journal) \in Nat
      <4>1. journal \in Seq(Records) /\ BlockRecord(b) \in Records
        BY <2>2, NewRecords DEF TypeOK
      <4>2. /\ DOMAIN journal = 1 .. Len(journal) /\ Len(journal) \in Nat
            /\ DOMAIN journal' = 1 .. Len(journal) + 1
        BY <3>1, <4>1
      <4>3. Epochs \subseteq DOMAIN journal
        BY Zenon DEF Epochs
      <4>4. /\ Epochs' = Epochs
            /\ \A k \in DOMAIN journal : journal'[k] = journal[k]
            /\ journal'[Len(journal) + 1] = BlockRecord(b)
        BY <2>2, <3>1, BlockAppended, Zenon
      <4> QED  BY <4>2, <4>3, <4>4, Zenon
    <3>3. ASSUME NEW c \in epochBits
          PROVE  Covered(c)'
      <4>1. PICK k \in DOMAIN journal :
                  /\ journal[k].tag = "B" /\ journal[k].lba = c
                  /\ \A i \in Epochs : i < k
        BY <3>1, Zenon DEF CoverInv
      <4> QED  BY <3>2, <4>1
    <3>4. Covered(b)'
      <4>1. BlockRecord(b).tag = "B" /\ BlockRecord(b).lba = b
        BY Zenon DEF BlockRecord
      <4>2. \A i \in Epochs : i < Len(journal) + 1
        BY <3>2
      <4> QED  BY <3>2, <4>1, <4>2
    <3>5. DOMAIN job' \ todo' \subseteq epochBits'
      BY <2>1, <2>2, <3>1, Zenon DEF CoverInv
    <3> QED  BY <3>1, <3>3, <3>4, <3>5, Zenon DEF CoverInv
  <2>4. CASE JournalSkip(b)
    <3>1. /\ UNCHANGED <<journal, journalOn, epochBits, lost>>
          /\ journalOn /\ b \in epochBits
      BY <2>4 DEF JournalSkip, journalVars
    <3>2. Epochs' = Epochs
      BY <3>1 DEF Epochs
    <3> QED  BY <2>1, <2>2, <3>1, <3>2, Zenon DEF CoverInv
  <2>5. CASE JournalDrop(b)
    <3>1. ~journalOn' /\ lost' = Len(journal')
      BY <2>5, Zenon DEF JournalDrop
    <3>2. Append(journal, BlockRecord(b)) \in Seq(Records)
      BY <2>2, NewRecords DEF TypeOK
    <3>3. journal' \in Seq(Records)
      BY <2>5, <3>2, Zenon DEF JournalDrop, TypeOK
    <3>4. lost' >= Len(journal')
      BY <3>1, <3>3
    <3> QED  BY <3>1, <3>4, Zenon DEF CoverInv
  <2>6. CASE JournalOff
    <3>1. /\ ~journalOn' /\ journal' = journal
          /\ journalled' => lost' = Len(journal')
      BY <2>2, <2>6, Zenon DEF JournalOff
    <3>2. journalled' => lost' >= Len(journal')
      BY <3>1 DEF TypeOK
    <3> QED  BY <3>1, <3>2, Zenon DEF CoverInv
  <2> QED  BY <2>1, <2>3, <2>4, <2>5, <2>6, Zenon
<1>4. CASE CopyToImage
  BY <1>4, <1>a, Zenon
  DEF CopyToImage, Return, Writing, diskVars, sessionVars
<1>6. CASE WriteThrough
  BY <1>6, <1>a, Zenon DEF WriteThrough, Return, Writing, sessionVars
<1>7. CASE WriteThroughFails
  BY <1>7, <1>a DEF WriteThroughFails, Return, Writing
<1>e. ASSUME JournalEpoch, ~(Writing'), UNCHANGED journalled
      PROVE  CoverInv'
  <2>1. CASE journalOn'
    BY <1>c, <1>e, <2>1, Zenon DEF JournalEpoch, journalVars, CoverInv, Epochs
  <2>2. CASE ~journalOn'
    BY <1>c, <1>e, <2>2, Zenon
  <2> QED  BY <2>1, <2>2
<1>8. CASE Save
  BY <1>8, <1>e DEF Save, Writing, sessionVars
<1>9. ASSUME NEW s \in saved, BeginLoad(s)
      PROVE  CoverInv'
  BY <1>9, <1>e, Zenon DEF BeginLoad, Writing, sessionVars
<1>10. CASE EarlierChunkFails
  BY <1>10, <1>a, Zenon
  DEF EarlierChunkFails, Reject, Writing, diskVars, sessionVars
<1>11. CASE PlanLoad
  BY <1>11, <1>a, Zenon DEF PlanLoad, Writing, diskVars, sessionVars
<1>12. CASE RefuseLoad
  BY <1>12, <1>a, Zenon DEF RefuseLoad, Reject, Finish, Writing, diskVars, sessionVars
<1>13. CASE ApplyBlock
  BY <1>13, <1>b, Zenon DEF ApplyBlock, diskVars, sessionVars
<1>14. CASE CommitLoad
  BY <1>14, <1>a DEF CommitLoad, Reject, Finish, Writing, diskVars, sessionVars
<1>15. CASE Stop
  BY <1>15, <1>c, Zenon DEF Stop, Writing
<1>16. ASSUME NEW b \in Blocks, NEW v \in Values, EditFile(b, v)
       PROVE  CoverInv'
  BY <1>16, <1>c, Zenon DEF EditFile, ControlInv, Writing
<1>17. CASE LoseJournal
  BY <1>17, <1>c, Zenon DEF LoseJournal, ControlInv, Writing
<1>18. CASE UNCHANGED vars
  BY <1>18, <1>a, Zenon DEF vars, Writing, diskVars, sessionVars
<1>19. CASE \E wb \in BOOLEAN : Attach(wb)
  BY <1>1, <1>19
<1>20. CASE \E lo, hi \in Blocks :
              lo <= hi /\ \E data \in [lo .. hi -> Values] : BeginStore(data)
  BY <1>2, <1>20
<1>21. CASE \E s \in saved : BeginLoad(s)
  BY <1>9, <1>21
<1>22. CASE \E b \in Blocks, v \in Values : EditFile(b, v)
  BY <1>16, <1>22
<1>23. CASE BeginBareLoad
  BY <1>23, <1>e, Zenon DEF BeginBareLoad, Writing, sessionVars
<1> QED
  BY <1>3, <1>4, <1>6, <1>7, <1>8, <1>10, <1>11, <1>12, <1>13, <1>14, <1>15,
     <1>17, <1>18, <1>19, <1>20, <1>21, <1>22, <1>23, SMTT(20) DEF Next

\* Every step keeps the journal a history of the file and of the image.
LEMMA RewindStep ==
    /\ TypeOK /\ ControlInv /\ CoverInv /\ EpochsRewind /\ DigestTracksImage
    /\ [Next]_vars
    => EpochsRewind'
<1> SUFFICES ASSUME TypeOK, ControlInv, CoverInv, EpochsRewind,
                    DigestTracksImage, [Next]_vars
             PROVE  EpochsRewind'
  BY Zenon
\* The journal stays, and no block without a record changes.
<1>a. ASSUME UNCHANGED <<journal, lost>>,
             \A i \in Epochs, b \in Blocks :
                i > lost /\ RecordsAfter(i, b) = {} =>
                    /\ file'[b] = file[b]
                    /\ journalled' =>
                         \/ journalled /\ image'[b] = image[b]
                         \/ image'[b] = file[b]
      PROVE  EpochsRewind'
  <2>1. Epochs' = Epochs
    BY <1>a, Zenon DEF Epochs
  <2>2. ASSUME NEW i \in Epochs, NEW b \in Blocks
        PROVE  /\ RecordsAfter(i, b)' = RecordsAfter(i, b)
               /\ FirstAfter(i, b)' = FirstAfter(i, b)
    BY <1>a, Zenon DEF RecordsAfter, FirstAfter
  <2>3. ASSUME NEW i \in Epochs, i > lost, NEW b \in Blocks \ journal[i].volatile
        PROVE  IF RecordsAfter(i, b) = {}
               THEN /\ file'[b] = journal[i].digest[b]
                    /\ journalled' => image'[b] = journal[i].digest[b]
               ELSE journal[FirstAfter(i, b)].old = journal[i].digest[b]
    <3>1. IF RecordsAfter(i, b) = {}
          THEN /\ file[b] = journal[i].digest[b]
               /\ journalled => image[b] = journal[i].digest[b]
          ELSE journal[FirstAfter(i, b)].old = journal[i].digest[b]
      BY <2>3, Zenon DEF EpochsRewind
    <3>2. CASE RecordsAfter(i, b) = {}
      BY <1>a, <2>3, <3>1, <3>2, Zenon
    <3>3. CASE RecordsAfter(i, b) # {}
      BY <3>1, <3>3, Zenon
    <3> QED
      BY <3>2, <3>3, Zenon
  <2>4. ASSUME NEW i \in Epochs', i > lost', NEW b \in Blocks \ journal'[i].volatile
        PROVE  IF RecordsAfter(i, b)' = {}
               THEN /\ file'[b] = journal'[i].digest[b]
                    /\ journalled' => image'[b] = journal'[i].digest[b]
               ELSE journal'[FirstAfter(i, b)'].old = journal'[i].digest[b]
    <3>1. journal' = journal /\ lost' = lost
      BY <1>a
    <3>2. i \in Epochs /\ i > lost /\ b \in Blocks \ journal[i].volatile /\ b \in Blocks
      BY <2>1, <2>4, <3>1, Zenon
    <3>3. RecordsAfter(i, b)' = RecordsAfter(i, b) /\ FirstAfter(i, b)' = FirstAfter(i, b)
      BY <2>2, <3>2, Zenon
    <3>4. IF RecordsAfter(i, b) = {}
          THEN /\ file'[b] = journal[i].digest[b]
               /\ journalled' => image'[b] = journal[i].digest[b]
          ELSE journal[FirstAfter(i, b)].old = journal[i].digest[b]
      BY <2>3, <3>2, Zenon
    <3> QED
      BY <3>1, <3>3, <3>4, Zenon
  <2> QED
    BY <2>4, Zenon DEF EpochsRewind
<1>b. ASSUME UNCHANGED <<journal, lost, file, journalled, image>>
      PROVE  EpochsRewind'
  BY <1>a, <1>b
\* Every epoch has a hole behind it.
<1>c. ASSUME Len(journal') \in Nat, DOMAIN journal' = 1 .. Len(journal'),
             lost' = Len(journal')
      PROVE  EpochsRewind'
  <2>1. Epochs' \subseteq DOMAIN journal'
    BY Zenon DEF Epochs
  <2>2. \A i \in Epochs' : ~(i > lost')
    BY <1>c, <2>1
  <2> QED  BY <2>2, Zenon DEF EpochsRewind
\* A block of the request being copied or written through has a record after
\* every epoch that counts.
<1>d. ASSUME pc \in {"copy", "through"}, journalled,
             NEW b \in DOMAIN job, NEW i \in Epochs, i > lost
      PROVE  RecordsAfter(i, b) # {}
  <2>1. Writing /\ todo = {} /\ DOMAIN job # todo /\ i \in 1 .. Len(journal)
    BY <1>d, SMTT(30) DEF Writing, ControlInv, Epochs, TypeOK
  <2>2. journalOn
    BY <1>d, <2>1 DEF CoverInv, TypeOK
  <2>3. b \in epochBits
    BY <2>1, <2>2, Zenon DEF CoverInv
  <2>4. PICK k \in DOMAIN journal :
                /\ journal[k].tag = "B" /\ journal[k].lba = b
                /\ \A j \in Epochs : j < k
    BY <2>2, <2>3, Zenon DEF CoverInv
  <2>5. i < k
    BY <2>4, Zenon
  <2> QED  BY <2>4, <2>5, Zenon DEF RecordsAfter
<1>1. ASSUME NEW wb \in BOOLEAN, Attach(wb)
      PROVE  EpochsRewind'
  <2>1. image' = file /\ file' = file
    BY <1>1, ZenonT(30) DEF Attach
  <2>2. CASE UNCHANGED <<journal, lost>>
    BY <1>a, <2>1, <2>2, Zenon
  <2>3. CASE Compact
    <3> SUFFICES ASSUME NEW i \in Epochs', i > lost',
                        NEW b \in Blocks, b \notin journal'[i].volatile
                 PROVE  IF RecordsAfter(i, b)' = {}
                        THEN /\ file'[b] = journal'[i].digest[b]
                             /\ journalled' => image'[b] = journal'[i].digest[b]
                        ELSE journal'[FirstAfter(i, b)'].old
                                = journal'[i].digest[b]
      BY Zenon DEF EpochsRewind
    <3>1. PICK j \in Epochs :
                /\ i > lost' => j > lost
                /\ journal'[i] = journal[j]
                /\ \A c \in Blocks :
                    /\ RecordsAfter(i, c)' = {} <=> RecordsAfter(j, c) = {}
                    /\ RecordsAfter(j, c) # {} =>
                         journal'[FirstAfter(i, c)'] =
                             journal[FirstAfter(j, c)]
      BY <2>3, JournalCut, Zenon
    <3>2. j > lost /\ b \notin journal[j].volatile
      BY <3>1, Zenon
    <3>3. IF RecordsAfter(j, b) = {}
          THEN file[b] = journal[j].digest[b]
          ELSE journal[FirstAfter(j, b)].old = journal[j].digest[b]
      BY <3>2, Zenon DEF EpochsRewind
    <3> QED  BY <2>1, <3>1, <3>3, Zenon
  <2> QED  BY <1>1, <2>2, <2>3, Zenon DEF Attach, OpenJournal
<1>2. ASSUME NEW lo \in Blocks, NEW hi \in Blocks, lo <= hi,
             NEW data \in [lo .. hi -> Values], BeginStore(data)
      PROVE  EpochsRewind'
  BY <1>2, <1>b, Zenon DEF BeginStore, diskVars, sessionVars
<1>3. CASE WillWrite
  <2>1. PICK b \in todo :
          JournalAppend(b) \/ JournalSkip(b) \/ JournalDrop(b) \/ JournalOff
    BY <1>3, Zenon DEF WillWrite
  <2>2. UNCHANGED <<file, image, journalled>> /\ b \in Blocks
    BY <1>3, <2>1, Zenon DEF WillWrite, sessionVars, TypeOK
  <2>3. CASE JournalAppend(b)
    <3>1. /\ journalOn /\ journalled /\ lost' = lost
          /\ journal' = Append(journal, BlockRecord(b))
      BY <2>3 DEF JournalAppend, ControlInv
    <3>2. ASSUME NEW i \in Epochs, i > lost,
                 NEW c \in Blocks, c \notin journal[i].volatile
          PROVE  IF RecordsAfter(i, c)' = {}
                 THEN /\ file'[c] = journal[i].digest[c]
                      /\ journalled' => image'[c] = journal[i].digest[c]
                 ELSE journal'[FirstAfter(i, c)'].old = journal[i].digest[c]
      <4>1. /\ RecordsAfter(i, c)' =
                 RecordsAfter(i, c) \cup
                     (IF c = b THEN {Len(journal) + 1} ELSE {})
            /\ RecordsAfter(i, c) # {} =>
                 journal'[FirstAfter(i, c)'] = journal[FirstAfter(i, c)]
            /\ RecordsAfter(i, c) = {} /\ c = b =>
                 journal'[FirstAfter(i, c)'].old = image[b]
        BY <2>2, <3>1, BlockAppended, ZenonT(30)
      <4>2. IF RecordsAfter(i, c) = {}
            THEN /\ file[c] = journal[i].digest[c]
                 /\ image[c] = journal[i].digest[c]
            ELSE journal[FirstAfter(i, c)].old = journal[i].digest[c]
        BY <3>1, <3>2, Zenon DEF EpochsRewind
      <4> QED  BY <2>2, <4>1, <4>2, Zenon
    <3>3. Epochs' = Epochs /\ \A i \in Epochs : journal'[i] = journal[i]
      BY <2>2, <3>1, BlockAppended, Zenon
    <3>4. ASSUME NEW i \in Epochs', i > lost',
                 NEW c \in Blocks \ journal'[i].volatile
          PROVE  IF RecordsAfter(i, c)' = {}
                 THEN /\ file'[c] = journal'[i].digest[c]
                      /\ journalled' => image'[c] = journal'[i].digest[c]
                 ELSE journal'[FirstAfter(i, c)'].old = journal'[i].digest[c]
      <4>1. i \in Epochs /\ i > lost /\ journal'[i] = journal[i]
        BY <3>1, <3>3, <3>4, Zenon
      <4>2. c \in Blocks /\ c \notin journal[i].volatile
        BY <4>1, Zenon
      <4> QED  BY <3>2, <4>1, <4>2, Zenon
    <3> QED  BY <3>4, Zenon DEF EpochsRewind
  <2>4. CASE JournalSkip(b)
    BY <1>b, <2>2, <2>4, Zenon DEF JournalSkip, journalVars
  <2>5. CASE JournalDrop(b)
    <3>1. Len(journal') \in Nat /\ DOMAIN journal' = 1 .. Len(journal')
      <4>1. Append(journal, BlockRecord(b)) \in Seq(Records)
        BY <2>2, NewRecords, SMTT(30) DEF TypeOK
      <4>2. journal' \in Seq(Records)
        BY <2>5, <4>1, Zenon DEF JournalDrop, TypeOK
      <4> QED  BY <4>2, SMTT(30)
    <3> QED  BY <1>c, <2>5, <3>1 DEF JournalDrop
  <2>6. CASE JournalOff
    <3>1. CASE journalled
      <4>1. /\ lost' = Len(journal') /\ Len(journal') \in Nat
            /\ DOMAIN journal' = 1 .. Len(journal')
        BY <2>6, <3>1 DEF JournalOff, TypeOK
      <4> QED  BY <1>c, <4>1, Zenon
    <3>2. CASE ~journalled
      BY <1>b, <2>2, <2>6, <3>2, Zenon DEF JournalOff
    <3> QED  BY <3>1, <3>2
  <2> QED  BY <2>1, <2>3, <2>4, <2>5, <2>6, Zenon
<1>4. CASE CopyToImage
  <2>1. /\ UNCHANGED <<journal, lost, file, journalled>> /\ pc = "copy"
        /\ \A b \in Blocks : b \notin DOMAIN job => image'[b] = image[b]
    BY <1>4, Zenon DEF CopyToImage, Overlay, diskVars, sessionVars
  <2> QED  BY <1>a, <1>d, <2>1, Zenon
\* A partial write-through.
<1>f. ASSUME NEW S \in SUBSET (DOMAIN job), file' = FileWith(S),
             S # {} => pc = "through", UNCHANGED <<journal, lost>>,
             ~journalled' \/ UNCHANGED <<image, journalled>>
      PROVE  EpochsRewind'
  <2>1. S # {} => journalled
    BY <1>f, Zenon DEF ControlInv
  <2>2. \A b \in Blocks : b \notin S => file'[b] = file[b]
    BY <1>f, Zenon DEF FileWith
  <2> QED  BY <1>a, <1>d, <1>f, <2>1, <2>2, SMTT(30)
<1>6. CASE WriteThrough
  BY <1>6, <1>f, Zenon DEF WriteThrough, sessionVars
<1>7. CASE WriteThroughFails
  BY <1>7, <1>f, Zenon DEF WriteThroughFails
<1>e. ASSUME up, pc = "idle", JournalEpoch, UNCHANGED <<file, image, journalled>>
      PROVE  EpochsRewind'
  <2>1. CASE UNCHANGED <<journal, lost>>
    BY <1>b, <1>e, <2>1, Zenon
  <2>2. CASE journal' = Append(journal, EpochRecord) /\ lost' = lost
    <3>1. ASSUME NEW i \in Epochs, i > lost,
                 NEW c \in Blocks, c \notin journal[i].volatile
          PROVE  IF RecordsAfter(i, c)' = {}
                 THEN /\ file'[c] = journal[i].digest[c]
                      /\ journalled' => image'[c] = journal[i].digest[c]
                 ELSE journal'[FirstAfter(i, c)'].old = journal[i].digest[c]
      <4>1. /\ RecordsAfter(i, c)' = RecordsAfter(i, c)
            /\ RecordsAfter(i, c) # {} =>
                 journal'[FirstAfter(i, c)'] = journal[FirstAfter(i, c)]
        BY <2>2, EpochAppended, Zenon
      <4>2. IF RecordsAfter(i, c) = {}
            THEN /\ file[c] = journal[i].digest[c]
                 /\ journalled => image[c] = journal[i].digest[c]
            ELSE journal[FirstAfter(i, c)].old = journal[i].digest[c]
        BY <3>1, Zenon DEF EpochsRewind
      <4> QED  BY <1>e, <4>1, <4>2, Zenon
    <3>2. ASSUME NEW c \in Blocks, c \notin EpochRecord.volatile,
                 NEW i \in Nat, i = Len(journal) + 1
          PROVE  /\ RecordsAfter(i, c)' = {}
                 /\ file'[c] = EpochRecord.digest[c]
                 /\ image'[c] = EpochRecord.digest[c]
      <4>1. digest = image
        BY <1>e, DigestIsImage
      <4> QED  BY <1>e, <2>2, <3>2, <4>1, EpochAppended, Zenon DEF EpochRecord
    <3>3. /\ Epochs' = Epochs \cup {Len(journal) + 1}
          /\ journal'[Len(journal) + 1] = EpochRecord
          /\ \A i \in Epochs : journal'[i] = journal[i]
      BY <2>2, EpochAppended, Zenon
    <3>4. ASSUME NEW i \in Epochs', i > lost',
                 NEW c \in Blocks \ journal'[i].volatile
          PROVE  IF RecordsAfter(i, c)' = {}
                 THEN /\ file'[c] = journal'[i].digest[c]
                      /\ journalled' => image'[c] = journal'[i].digest[c]
                 ELSE journal'[FirstAfter(i, c)'].old = journal'[i].digest[c]
      <4>1. CASE i \in Epochs
        <5>1. i > lost /\ journal'[i] = journal[i]
          BY <2>2, <3>3, <3>4, <4>1, Zenon
        <5>2. c \in Blocks /\ c \notin journal[i].volatile
          BY <5>1, Zenon
        <5> QED  BY <3>1, <4>1, <5>1, <5>2, Zenon
      <4>2. CASE i = Len(journal) + 1
        <5>1. c \in Blocks /\ c \notin EpochRecord.volatile
          BY <3>3, <4>2, Zenon
        <5>2. i \in Nat
          BY <4>2 DEF TypeOK
        <5>3. /\ RecordsAfter(i, c)' = {}
              /\ file'[c] = EpochRecord.digest[c]
              /\ image'[c] = EpochRecord.digest[c]
          BY <3>2, <4>2, <5>1, <5>2, Zenon
        <5>4. journal'[i] = EpochRecord
          BY <3>3, <4>2, Zenon
        <5> QED  BY <5>3, <5>4, Zenon
      <4> QED  BY <3>3, <4>1, <4>2, Zenon
    <3> QED  BY <3>4, Zenon DEF EpochsRewind
  <2> QED  BY <1>e, <2>1, <2>2, Zenon DEF JournalEpoch, journalVars
<1>8. CASE Save
  BY <1>8, <1>e, Zenon DEF Save, sessionVars
<1>9. ASSUME NEW s \in saved, BeginLoad(s)
      PROVE  EpochsRewind'
  BY <1>9, <1>e, Zenon DEF BeginLoad, sessionVars
<1>10. CASE EarlierChunkFails
  BY <1>10, <1>b, Zenon DEF EarlierChunkFails, diskVars, sessionVars
<1>11. CASE PlanLoad
  BY <1>11, <1>b, Zenon DEF PlanLoad, diskVars, sessionVars
<1>12. CASE RefuseLoad
  BY <1>12, <1>b, Zenon DEF RefuseLoad, diskVars, sessionVars
<1>13. CASE ApplyBlock
  BY <1>13, <1>b, Zenon DEF ApplyBlock, diskVars, sessionVars
<1>14. CASE CommitLoad
  BY <1>14, <1>b DEF CommitLoad, diskVars, sessionVars
<1>15. CASE Stop
  BY <1>15, <1>f, Zenon DEF Stop
<1>16. ASSUME NEW b \in Blocks, NEW v \in Values, EditFile(b, v)
       PROVE  EpochsRewind'
  BY <1>16, <1>c DEF EditFile, TypeOK
<1>17. CASE LoseJournal
  BY <1>17, <1>c DEF LoseJournal
<1>18. CASE UNCHANGED vars
  BY <1>18, <1>b DEF vars, diskVars, sessionVars
<1>19. CASE \E wb \in BOOLEAN : Attach(wb)
  BY <1>1, <1>19
<1>20. CASE \E lo, hi \in Blocks :
              lo <= hi /\ \E data \in [lo .. hi -> Values] : BeginStore(data)
  BY <1>2, <1>20
<1>21. CASE \E s \in saved : BeginLoad(s)
  BY <1>9, <1>21
<1>22. CASE \E b \in Blocks, v \in Values : EditFile(b, v)
  BY <1>16, <1>22, Zenon
<1>23. CASE BeginBareLoad
  BY <1>23, <1>e, Zenon DEF BeginBareLoad, sessionVars
<1> QED
  BY <1>3, <1>4, <1>6, <1>7, <1>8, <1>10, <1>11, <1>12, <1>13, <1>14, <1>15,
     <1>17, <1>18, <1>19, <1>20, <1>21, <1>22, <1>23, Zenon DEF Next

-----------------------------------------------------------------------------
(* The inductive invariant.                                                  *)

\* The initial state satisfies the inductive invariant.
LEMMA InitInv == Init => IInv
<1> SUFFICES ASSUME Init PROVE IInv
  BY Zenon
<1>1. TypeOK
  <2>1. /\ torn \in BOOLEAN /\ up \in BOOLEAN /\ writeBack \in BOOLEAN
        /\ journalled \in BOOLEAN /\ journalOn \in BOOLEAN /\ txn \in BOOLEAN
    BY Zenon DEF Init
  <2>2. journal \in Seq(Records) /\ lost \in Nat
    BY DEF Init
  <2> QED  BY <2>1, <2>2, NoMapType DEF Init, TypeOK
<1>2. Epochs = {}
  BY SMTT(30) DEF Init, Epochs
<1>3. CoverInv /\ EpochsRewind
  BY <1>2, NoMapType, Zenon DEF Init, CoverInv, EpochsRewind, Writing
<1>5. ControlInv
  <2>1. DOMAIN job = {} /\ DOMAIN plan = {} /\ todo = {}
    BY NoMapType, Zenon DEF Init
  <2> QED  BY <2>1, Zenon DEF Init, ControlInv, Writing
<1>4. DigestTracksImage /\ SessionInv /\ PlanInv /\ FollowInv
  BY Zenon DEF Init, DigestTracksImage, SessionInv, Writing, PlanInv, FollowInv
<1> QED  BY <1>1, <1>3, <1>4, <1>5 DEF IInv

\* Every step preserves it.
LEMMA StepInv == IInv /\ [Next]_vars => IInv'
<1> SUFFICES ASSUME IInv, [Next]_vars PROVE IInv'
  OBVIOUS
<1>1. TypeOK' /\ ControlInv' /\ DigestTracksImage' /\ SessionInv'
  BY TypeStep, ControlStep, DigestStep, SessionStep, Zenon DEF IInv
<1>2. CoverInv' /\ EpochsRewind' /\ PlanInv' /\ FollowInv'
  BY CoverStep, RewindStep, PlanStep, FollowStep DEF IInv
<1> QED  BY <1>1, <1>2 DEF IInv

\* DiskTimeline, ScsiDisk::store() and loadT() keep the inductive invariant, in
\* every interleaving of writes, saves, restores, faults and process deaths.
THEOREM InductiveInvariant == Spec => []IInv
<1>1. Init => IInv
  BY InitInv
<1>2. IInv /\ [Next]_vars => IInv'
  BY StepInv
<1> QED  BY <1>1, <1>2, PTL DEF Spec

-----------------------------------------------------------------------------
(* The promises.                                                             *)

\* Type correctness: the log, the plan and the request only name blocks of the
\* image, and the journal only holds the two kinds of record.
THEOREM TypeCorrect == Spec => []TypeOK
<1>1. IInv => TypeOK
  BY DEF IInv
<1> QED  BY <1>1, InductiveInvariant, PTL

\* The incremental digest of willWrite() never departs from the image.
THEOREM DigestCorrect == Spec => []DigestTracksImage
<1>1. IInv => DigestTracksImage
  BY DEF IInv
<1> QED  BY <1>1, InductiveInvariant, PTL

\* The journal of journalBlock() and journalEpoch() is a history of the file at
\* every instant a process may die.
THEOREM JournalIsHistory == Spec => []EpochsRewind
<1>1. IInv => EpochsRewind
  BY DEF IInv
<1> QED  BY <1>1, InductiveInvariant, PTL

\* A state of an earlier process whose epoch the journal holds is accepted by
\* load().
THEOREM EpochsRestorable == Spec => []EpochStatesRestorable
<1>1. IInv => EpochStatesRestorable
  <2> SUFFICES ASSUME IInv, up, journalled, pc \in {"idle", "load"},
                      NEW s \in saved, HasEpoch(s.digest),
                      LatestEpoch(s.digest) > lost,
                      journal[LatestEpoch(s.digest)].volatile = {}
               PROVE  Accepts(s)
    BY Zenon DEF EpochStatesRestorable
  <2> DEFINE e == LatestEpoch(s.digest)
  <2>1. e \in Epochs /\ journal[e].digest = s.digest
    BY LatestEpochExists DEF IInv, TypeOK
  <2>2. digest = image /\ s.digest \in [Blocks -> Values]
    BY DigestIsImage, Zenon DEF IInv, TypeOK, States, Contents
  <2> HIDE DEF e
  <2>3. e > lost /\ journal[e].volatile = {}
    BY DEF e
  <2>4. ASSUME NEW b \in Blocks
        PROVE  Overlay(image, RewindMap(e))[b] = s.digest[b]
    <3>1. CASE RecordsAfter(e, b) = {}
      BY <2>1, <2>3, <3>1, Zenon DEF IInv, EpochsRewind, Overlay, RewindMap
    <3>2. CASE RecordsAfter(e, b) # {}
      BY <2>1, <2>3, <3>2 DEF IInv, EpochsRewind, Overlay, RewindMap
    <3> QED  BY <3>1, <3>2, Zenon
  <2>5. Overlay(image, RewindMap(e)) = [b \in Blocks |-> s.digest[b]]
    BY <2>4, Zenon DEF Overlay
  <2>6. Overlay(image, RewindMap(e)) = s.digest
    BY <2>2, <2>5, Zenon
  <2> QED  BY <2>2, <2>6, Zenon DEF Accepts, JournalLands, JournalCandidate,
                             DigestAfter, e
<1> QED  BY <1>1, InductiveInvariant, PTL

\* A state of this session is accepted by load(), journal or not.
THEOREM SessionRestorable == Spec => []SessionStatesRestorable
<1>1. IInv => SessionStatesRestorable
  <2> SUFFICES ASSUME IInv, up, pc \in {"idle", "load"},
                      NEW s \in saved \cup
                                (IF pc = "load" THEN {rollback} ELSE {}),
                      s.here
               PROVE  LogLands(s)
    BY DEF SessionStatesRestorable
  <2>1. s \in States /\ SessionState(s)
    BY Zenon DEF IInv, TypeOK, ControlInv, SessionInv
  <2> QED  BY <2>1, SessionLands, Zenon DEF IInv
<1> QED  BY <1>1, InductiveInvariant, PTL

\* loadT() never reports "FATAL: save-state rollback failed" on account of a
\* disk.
THEOREM RollbackNeverFails == Spec => []RollbackLands
<1>1. IInv => RollbackLands
  BY RollbackAccepted, Zenon DEF IInv, RollbackLands
<1> QED  BY <1>1, InductiveInvariant, PTL

\* Between requests the backing file is the image, facade apart, while
\* write-back lasts.
THEOREM FileFollows == Spec => []BackingFileFollows
<1>1. IInv => BackingFileFollows
  BY DEF IInv, FollowInv, BackingFileFollows
<1> QED  BY <1>1, InductiveInvariant, PTL

\* Nothing is appended after a torn record.
THEOREM JournalParseable == Spec => []AppendsParseable
<1>1. IInv => AppendsParseable
  BY Zenon DEF IInv, ControlInv, AppendsParseable
<1> QED  BY <1>1, InductiveInvariant, PTL

\* No load order outlives the restore that set it.
THEOREM LoadOrderCleared == Spec => []NoStaleLoadOrder
<1>1. IInv => NoStaleLoadOrder
  BY Zenon DEF IInv, ControlInv, NoStaleLoadOrder
<1> QED  BY <1>1, InductiveInvariant, PTL

\* loadT() only returns from the commit of the disk's plan, and the image is
\* then exactly the content of the state whose plan it was.
LEMMA LoadEndsExact ==
    IInv /\ [Next]_vars /\ LoadEnds => image' = target.digest
<1> SUFFICES ASSUME IInv, [Next]_vars, LoadEnds
             PROVE  image' = target.digest
  BY Zenon
<1>1. target # NoState /\ target' = NoState /\ up /\ up'
  BY Zenon DEF LoadEnds, IInv, ControlInv
<1>2. CASE CommitLoad
  <2>1. pc = "apply" /\ DOMAIN plan = {} /\ image' = image
    BY <1>2, Zenon DEF CommitLoad
  <2>2. target.digest = Overlay(image, plan)
    BY <1>1, <2>1, Zenon DEF IInv, PlanInv
  <2>3. Overlay(image, plan) = image
    BY <2>1, Zenon DEF Overlay, IInv, TypeOK, Contents
  <2> QED  BY <2>1, <2>2, <2>3, Zenon
<1>3. CASE EarlierChunkFails
  BY <1>1, <1>3, Zenon DEF EarlierChunkFails, Reject, IInv, ControlInv
<1>4. CASE RefuseLoad
  <2>1. txn
    BY <1>4, RollbackAccepted, Zenon DEF RefuseLoad, IInv
  <2> QED  BY <1>1, <1>4, <2>1, Zenon DEF RefuseLoad, Reject, IInv, ControlInv
<1>5. CASE \E s \in saved : BeginLoad(s)
  BY <1>1, <1>5, Zenon DEF BeginLoad, IInv, ControlInv
<1>8. CASE BeginBareLoad
  BY <1>1, <1>8, Zenon DEF BeginBareLoad, IInv, ControlInv
<1>6. CASE Stop
  BY <1>1, <1>6 DEF Stop
<1>7. target' = target \/ CommitLoad \/ EarlierChunkFails \/ RefuseLoad \/ Stop
      \/ (\E s \in saved : BeginLoad(s)) \/ BeginBareLoad
  BY Zenon DEF Next, vars, loadVars, Attach, BeginStore, WillWrite, CopyToImage,
         WriteThrough, WriteThroughFails, Save, PlanLoad, ApplyBlock, EditFile,
         LoseJournal
<1> QED  BY <1>1, <1>2, <1>3, <1>4, <1>5, <1>6, <1>7, <1>8, Zenon

\* A restore that reports success has put exactly the state's content in the
\* image.
THEOREM RestoreExact == Spec => RestoredContentExact
<1>1. IInv /\ [Next]_vars => [LoadEnds /\ txn => image' = target.digest]_vars
  BY LoadEndsExact
<1> QED  BY <1>1, InductiveInvariant, PTL DEF Spec, RestoredContentExact

\* A rejected restore leaves the image as it was when the restore began.
THEOREM RejectExact == Spec => RejectedLoadLeavesDisk
<1>1. IInv /\ [Next]_vars => [LoadEnds /\ ~txn => image' = rollback.digest]_vars
  <2> SUFFICES ASSUME IInv, [Next]_vars, LoadEnds, ~txn
               PROVE  image' = rollback.digest
    OBVIOUS
  <2>1. image' = target.digest
    BY LoadEndsExact, Zenon
  <2>2. target = rollback
    BY DEF LoadEnds, IInv, ControlInv
  <2> QED  BY <2>1, <2>2
<1> QED  BY <1>1, InductiveInvariant, PTL DEF Spec, RejectedLoadLeavesDisk

=============================================================================
