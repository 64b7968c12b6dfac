------------------------ MODULE StorageEngineProofs ------------------------
(***************************************************************************)
(* Proofs about StorageEngine, for every set of ids and bodies, every      *)
(* threshold and every bound.                                              *)
(***************************************************************************)
EXTENDS StorageEngine, FiniteSetTheorems, WellFoundedInduction, TLAPS

-----------------------------------------------------------------------------
(* Lemmas on Min and Max of sets of naturals.                              *)

\* A non-empty set of naturals has a least element, which Min chooses.
LEMMA MinOfNats ==
    ASSUME NEW S, S \subseteq Nat, S # {}
    PROVE  Min(S) \in S /\ \A y \in S : Min(S) <= y
<1> DEFINE R == OpToRel(<, Nat)
<1>1. IsWellFoundedOn(R, Nat)
  BY NatLessThanWellFounded
<1>2. PICK x \in S : \A y \in S : ~ (<<y, x>> \in R)
  BY <1>1, WFMin
<1>3. ASSUME NEW y \in S PROVE x <= y
  <2>1. ~ (y < x)
    <3>1. <<y, x>> \in R <=> y < x
      BY Zenon DEF OpToRel
    <3>. QED
      BY <1>2, <3>1
  <2>. QED
    BY <2>1
<1>. QED
  BY <1>3 DEF Min

\* A non-empty bounded set of naturals has a greatest element, which Max chooses.
LEMMA MaxOfNats ==
    ASSUME NEW n \in Nat, NEW S, S \subseteq 0 .. n, S # {}
    PROVE  Max(S) \in S /\ \A y \in S : y <= Max(S)
<1> DEFINE T == {k \in 0 .. n : n - k \in S}
<1>1. T \subseteq Nat /\ T # {}
  <2>1. PICK s \in S : TRUE
    OBVIOUS
  <2>2. n - s \in 0 .. n /\ n - (n - s) = s
    BY <2>1
  <2>. QED
    BY <2>2
<1>2. Min(T) \in T /\ \A y \in T : Min(T) <= y
  BY <1>1, MinOfNats
<1>3. n - Min(T) \in S /\ \A y \in S : y <= n - Min(T)
  <2>1. ASSUME NEW y \in S PROVE y <= n - Min(T)
    <3>1. n - y \in T
      OBVIOUS
    <3>. QED
      BY <3>1, <1>2
  <2>. QED
    BY <2>1, <1>2
<1>. HIDE DEF T
<1>4. \E x \in S : \A y \in S : x >= y
  <2>1. n - Min(T) \in S
    BY <1>3
  <2>2. \A y \in S : n - Min(T) >= y
    BY <1>3, <2>1
  <2>. QED
    BY <2>1, <2>2
<1>. QED
  BY <1>4 DEF Max

-----------------------------------------------------------------------------
(* Type correctness and the segment catalog, whatever I/O call fails and   *)
(* however the process dies.                                               *)

\* How the phases of an operation constrain the catalog.
Phases ==
    /\ pc = "down" => segments = {}
    /\ pc # "compactRemove" => doomed = {}
    /\ pc = "compactRemove" => segments = {}
    /\ pc \in {"flushLog", "compactRemove"} => nextSegmentId \in OnDisk

CatalogInv == TypeOK /\ Phases /\ SegmentIdsFresh

\* What the assumption on the constants gives: segment ids are naturals, and
\* the two absent values are values of their own.
LEMMA ConstantTypes ==
    /\ MaxSegmentId \in Nat
    /\ SegmentIds = 0 .. MaxSegmentId
    /\ SegmentIds \subseteq Nat
    /\ NoFile \notin Contents
    /\ None \notin Versions
<1>1. MaxSegmentId \in Nat
  BY EngineAssumption DEF EngineAssumption
<1>2. NoFile \notin Contents
  BY EngineAssumption DEF EngineAssumption, Contents
<1>3. None \notin Versions
  BY EngineAssumption DEF EngineAssumption
<1>. QED
  BY <1>1, <1>2, <1>3 DEF SegmentIds

\* A step of the WAL writer leaves sequences of records.
LEMMA WalAppendType ==
    ASSUME wal \in Seq(Records), walBuffer \in Seq(Records), walLinked \in BOOLEAN,
           NEW r \in Records,
           WalAppend(r) \/ WalAppendFails(r)
    PROVE  wal' \in Seq(Records) /\ walBuffer' \in Seq(Records) /\ walLinked' \in BOOLEAN
<1>1. wal \o walBuffer \in Seq(Records)
  OBVIOUS
<1>. HIDE DEF Records
<1>2. CASE WalAppend(r)
  BY <1>1, <1>2 DEF WalAppend
<1>3. CASE WalAppendFails(r)
  <2>1. CASE walBuffer' = Append(walBuffer, r) /\ UNCHANGED <<wal, walLinked>>
    BY <2>1
  <2>. QED
    BY <1>2, <1>3, <2>1 DEF WalAppendFails
<1>. QED
  BY <1>2, <1>3

\* Every record an operation appends is a WAL record.
LEMMA RecordTypes ==
    /\ \A id \in Ids, v \in Versions : InsertRecord(id, v) \in Records
    /\ \A id \in Ids : DeleteRecord(id) \in Records
    /\ FlushRecord \in Records /\ TornRecord \in Records
BY DEF InsertRecord, DeleteRecord, FlushRecord, TornRecord, Records

\* The tables a read, a scan and a replay build have one entry for every id.
LEMMA ContentsTypes ==
    ASSUME TypeOK
    PROVE  /\ Empty \in Contents
           /\ [id \in Ids |-> MemDoc(id)] \in Contents
           /\ AllDocuments \in Contents
<1>1. Empty \in Contents
  BY DEF Empty, Contents
<1>2. \A id \in Ids : MemDoc(id) \in Versions \cup {None}
  BY DEF TypeOK, MemDoc, Contents
<1>3. \A id \in Ids : OldestIn(segments, id) \in Versions \cup {None}
  <2>. SUFFICES ASSUME NEW id \in Ids PROVE OldestIn(segments, id) \in Versions \cup {None}
    OBVIOUS
  <2>1. CASE Holders(segments, id) = {}
    BY <2>1 DEF OldestIn
  <2>2. CASE Holders(segments, id) # {}
    <3>1. Holders(segments, id) \subseteq Nat
      <4>1. segments \subseteq SegmentIds
        BY DEF TypeOK, OnDisk
      <4>. QED
        BY <4>1, ConstantTypes DEF Holders
    <3>2. Min(Holders(segments, id)) \in Holders(segments, id)
      BY <2>2, <3>1, MinOfNats
    <3>3. \A s \in Holders(segments, id) : segFiles[s] \in Contents
      BY DEF Holders, TypeOK, OnDisk
    <3>. QED
      BY <2>2, <3>2, <3>3 DEF OldestIn, Contents
  <2>. QED
    BY <2>1, <2>2
<1>. QED
  BY <1>1, <1>2, <1>3 DEF AllDocuments, Contents

\* Any log replays to a well-typed MemTable.
LEMMA ReplayTypes ==
    ASSUME NEW w \in Seq(Records)
    PROVE  ReplayDocs(w) \in Contents /\ ReplayDeleted(w) \subseteq Ids
<1>1. ASSUME NEW id \in Ids, Replayed(w, id) # {}
      PROVE  LastReplayed(w, id) \in Records
  <2>1. Replayed(w, id) \subseteq 0 .. Len(w) /\ Len(w) \in Nat
    BY DEF Replayed
  <2>2. Max(Replayed(w, id)) \in Replayed(w, id)
    BY <1>1, <2>1, MaxOfNats
  <2>. QED
    BY <2>2 DEF LastReplayed, Replayed
<1>2. \A r \in Records : r.ver \in Versions \cup {None}
  BY DEF Records
<1>. QED
  BY <1>1, <1>2 DEF ReplayDocs, ReplayDeleted, Contents

-----------------------------------------------------------------------------
\* The catalog's invariant: every action of Next, those of the I/O failures
\* included, preserves it.
THEOREM CatalogStep == CatalogInv /\ [Next]_vars => CatalogInv'
<1>. SUFFICES ASSUME CatalogInv, [Next]_vars PROVE CatalogInv'
  OBVIOUS
<1>. USE DEF CatalogInv
<1>1. ASSUME NEW id \in Ids, NEW v \in Versions, Insert(id, v) PROVE CatalogInv'
  <2>1. wal' \in Seq(Records) /\ walBuffer' \in Seq(Records) /\ walLinked' \in BOOLEAN
    BY <1>1, RecordTypes, WalAppendType DEF TypeOK, Insert
  <2>8. TypeOK'
    BY <1>1, <2>1, ConstantTypes, RecordTypes DEF TypeOK, OnDisk, Insert, LogInsert, Contents, disk, catalog
  <2>9. Phases' /\ SegmentIdsFresh'
    BY <1>1, <2>1, ConstantTypes DEF TypeOK, Phases, SegmentIdsFresh, OnDisk, Insert, catalog
  <2>. QED
    BY <2>8, <2>9
<1>2. ASSUME NEW id \in Ids, NEW v \in Versions, InsertFails(id, v) PROVE CatalogInv'
  <2>1. wal' \in Seq(Records) /\ walBuffer' \in Seq(Records) /\ walLinked' \in BOOLEAN
    BY <1>2, RecordTypes, WalAppendType DEF TypeOK, InsertFails
  <2>8. TypeOK'
    BY <1>2, <2>1, ConstantTypes, RecordTypes DEF TypeOK, OnDisk, InsertFails, memTable, catalog, control
  <2>9. Phases' /\ SegmentIdsFresh'
    BY <1>2, <2>1, ConstantTypes DEF TypeOK, Phases, SegmentIdsFresh, OnDisk, InsertFails, catalog, control
  <2>. QED
    BY <2>8, <2>9
<1>3. ASSUME NEW id \in Ids, Delete(id) PROVE CatalogInv'
  <2>1. wal' \in Seq(Records) /\ walBuffer' \in Seq(Records) /\ walLinked' \in BOOLEAN
    BY <1>3, RecordTypes, WalAppendType DEF TypeOK, Delete
  <2>8. TypeOK'
    BY <1>3, <2>1, ConstantTypes, RecordTypes DEF TypeOK, OnDisk, Delete, LogDelete, Contents, control
  <2>9. Phases' /\ SegmentIdsFresh'
    BY <1>3, <2>1, ConstantTypes DEF TypeOK, Phases, SegmentIdsFresh, OnDisk, Delete, control
  <2>. QED
    BY <2>8, <2>9
<1>4. ASSUME NEW id \in Ids, DeleteFails(id) PROVE CatalogInv'
  <2>1. wal' \in Seq(Records) /\ walBuffer' \in Seq(Records) /\ walLinked' \in BOOLEAN
    BY <1>4, RecordTypes, WalAppendType DEF TypeOK, DeleteFails
  <2>8. TypeOK'
    BY <1>4, <2>1, ConstantTypes, RecordTypes DEF TypeOK, OnDisk, DeleteFails, memTable, catalog, control
  <2>9. Phases' /\ SegmentIdsFresh'
    BY <1>4, <2>1, ConstantTypes DEF TypeOK, Phases, SegmentIdsFresh, OnDisk, DeleteFails, catalog, control
  <2>. QED
    BY <2>8, <2>9
<1>5. CASE Flush
  <2>8. TypeOK'
    BY <1>5, ConstantTypes, RecordTypes DEF TypeOK, OnDisk, Flush, disk, writer, memTable, catalog, history
  <2>9. Phases' /\ SegmentIdsFresh'
    BY <1>5, ConstantTypes DEF TypeOK, Phases, SegmentIdsFresh, OnDisk, Flush, disk, catalog
  <2>. QED
    BY <2>8, <2>9
<1>6. CASE FlushWrite
  <2>1. nextSegmentId \in SegmentIds
    BY <1>6, ConstantTypes DEF FlushWrite, HasSegmentId, TypeOK
  <2>2. segFiles'[nextSegmentId] # NoFile /\ \A s \in SegmentIds \ {nextSegmentId} : segFiles'[s] = segFiles[s]
    BY <1>6, <2>1, ContentsTypes, ConstantTypes DEF FlushWrite, TypeOK
  <2>8. TypeOK'
    BY <1>6, ContentsTypes, <2>1, <2>2, ConstantTypes, RecordTypes DEF TypeOK, OnDisk, FlushWrite, writer, memTable, catalog, history, HasSegmentId
  <2>9. Phases' /\ SegmentIdsFresh'
    BY <1>6, ContentsTypes, <2>1, <2>2, ConstantTypes DEF TypeOK, Phases, SegmentIdsFresh, OnDisk, FlushWrite, catalog
  <2>. QED
    BY <2>8, <2>9
<1>7. CASE FlushLog
  <2>1. wal' \in Seq(Records) /\ walBuffer' \in Seq(Records) /\ walLinked' \in BOOLEAN
    BY <1>7, RecordTypes, WalAppendType DEF TypeOK, FlushLog
  <2>8. TypeOK'
    BY <1>7, <2>1, ContentsTypes, ConstantTypes, RecordTypes DEF TypeOK, OnDisk, FlushLog, history, Phases
  <2>9. Phases' /\ SegmentIdsFresh'
    BY <1>7, <2>1, ContentsTypes, ConstantTypes DEF TypeOK, Phases, SegmentIdsFresh, OnDisk, FlushLog
  <2>. QED
    BY <2>8, <2>9
<1>8. CASE FlushLogFails
  <2>1. wal' \in Seq(Records) /\ walBuffer' \in Seq(Records) /\ walLinked' \in BOOLEAN
    BY <1>8, RecordTypes, WalAppendType DEF TypeOK, FlushLogFails
  <2>8. TypeOK'
    BY <1>8, <2>1, ConstantTypes, RecordTypes DEF TypeOK, OnDisk, FlushLogFails, memTable, catalog, history
  <2>9. Phases' /\ SegmentIdsFresh'
    BY <1>8, <2>1, ConstantTypes DEF TypeOK, Phases, SegmentIdsFresh, OnDisk, FlushLogFails, catalog
  <2>. QED
    BY <2>8, <2>9
<1>9. CASE Compact
  <2>8. TypeOK'
    BY <1>9, ConstantTypes, RecordTypes DEF TypeOK, OnDisk, Compact, disk, writer, memTable, catalog, history
  <2>9. Phases' /\ SegmentIdsFresh'
    BY <1>9, ConstantTypes DEF TypeOK, Phases, SegmentIdsFresh, OnDisk, Compact, disk, catalog
  <2>. QED
    BY <2>8, <2>9
<1>10. CASE CompactWrite
  <2>8. TypeOK'
    BY <1>10, ContentsTypes, ConstantTypes, RecordTypes DEF TypeOK, OnDisk, CompactWrite, writer, memTable, history, HasSegmentId
  <2>9. Phases' /\ SegmentIdsFresh'
    BY <1>10, ContentsTypes, ConstantTypes DEF TypeOK, Phases, SegmentIdsFresh, OnDisk, CompactWrite, HasSegmentId
  <2>. QED
    BY <2>8, <2>9
<1>11. CASE CompactRemove
  <2>1. Min(doomed) \in doomed
    <3>1. doomed \subseteq Nat /\ doomed # {}
      BY <1>11, ConstantTypes DEF CompactRemove, TypeOK, OnDisk
    <3>. QED
      BY <3>1, MinOfNats
  <2>8. TypeOK'
    BY <1>11, <2>1, ConstantTypes, RecordTypes DEF TypeOK, OnDisk, CompactRemove, writer, memTable, catalog, history, Phases
  <2>9. Phases' /\ SegmentIdsFresh'
    BY <1>11, <2>1, ConstantTypes DEF TypeOK, Phases, SegmentIdsFresh, OnDisk, CompactRemove, catalog
  <2>. QED
    BY <2>8, <2>9
<1>12. CASE CompactFinish
  <2>1. wal' \in Seq(Records) /\ walBuffer' \in Seq(Records) /\ walLinked' \in BOOLEAN
    <3>1. wal \o walBuffer \in Seq(Records) /\ <<>> \in Seq(Records)
      BY DEF TypeOK
    <3>. QED
      BY <1>12, <3>1 DEF TypeOK, CompactFinish
  <2>8. TypeOK'
    BY <1>12, <2>1, ContentsTypes, ConstantTypes, RecordTypes DEF TypeOK, OnDisk, CompactFinish, CompactSwap, history, Phases
  <2>9. Phases' /\ SegmentIdsFresh'
    BY <1>12, <2>1, ContentsTypes, ConstantTypes DEF TypeOK, Phases, SegmentIdsFresh, OnDisk, CompactFinish, CompactSwap
  <2>. QED
    BY <2>8, <2>9
<1>13. CASE CompactWalOpenFails
  <2>1. wal' \in Seq(Records) /\ walBuffer' \in Seq(Records) /\ walLinked' \in BOOLEAN
    <3>1. wal \o walBuffer \in Seq(Records) /\ <<>> \in Seq(Records)
      BY DEF TypeOK
    <3>. QED
      BY <1>13, <3>1 DEF TypeOK, CompactWalOpenFails
  <2>8. TypeOK'
    BY <1>13, <2>1, ContentsTypes, ConstantTypes, RecordTypes DEF TypeOK, OnDisk, CompactWalOpenFails, CompactSwap, history, Phases
  <2>9. Phases' /\ SegmentIdsFresh'
    BY <1>13, <2>1, ContentsTypes, ConstantTypes DEF TypeOK, Phases, SegmentIdsFresh, OnDisk, CompactWalOpenFails, CompactSwap
  <2>. QED
    BY <2>8, <2>9
<1>14. CASE CompactOpenFails
  <2>8. TypeOK'
    BY <1>14, ConstantTypes, RecordTypes DEF TypeOK, OnDisk, CompactOpenFails, disk, writer, memTable, catalog, history
  <2>9. Phases' /\ SegmentIdsFresh'
    BY <1>14, ConstantTypes DEF TypeOK, Phases, SegmentIdsFresh, OnDisk, CompactOpenFails, disk, catalog
  <2>. QED
    BY <2>8, <2>9
<1>15. CASE SegmentWriteFails
  <2>1. segFiles' = segFiles \/ \E left \in Contents \cup {NoFile} : segFiles' = [segFiles EXCEPT ![nextSegmentId] = left]
    BY <1>15, ContentsTypes DEF SegmentWriteFails, PartialSegmentWrite, disk
  <2>8. TypeOK'
    BY <1>15, <2>1, ConstantTypes, RecordTypes DEF TypeOK, OnDisk, SegmentWriteFails, writer, memTable, catalog, history, SegmentIdsFresh, Writing
  <2>9. Phases' /\ SegmentIdsFresh'
    BY <1>15, <2>1, ConstantTypes DEF TypeOK, Phases, SegmentIdsFresh, OnDisk, SegmentWriteFails, catalog, Writing
  <2>. QED
    BY <2>8, <2>9
<1>16. CASE Crash
  <2>1. segFiles' = segFiles \/ \E left \in Contents \cup {NoFile} : segFiles' = [segFiles EXCEPT ![nextSegmentId] = left]
    BY <1>16, ContentsTypes DEF Crash, PartialSegmentWrite, disk
  <2>3. segFiles' \in [SegmentIds -> Contents \cup {NoFile}]
    BY <2>1 DEF TypeOK
  <2>2. wal' \in Seq(Records) /\ walBuffer' = <<>>
    BY <1>16 DEF TypeOK, Crash, LoseMemory, disk
  <2>8. TypeOK'
    BY <1>16, <2>2, <2>3, ContentsTypes, ConstantTypes, RecordTypes DEF TypeOK, OnDisk, Crash, LoseMemory, ForgetTombstones
  <2>9. Phases' /\ SegmentIdsFresh'
    BY <1>16, <2>2, <2>3, ContentsTypes, ConstantTypes DEF TypeOK, Phases, SegmentIdsFresh, OnDisk, Crash, LoseMemory, ForgetTombstones
  <2>. QED
    BY <2>8, <2>9
<1>17. CASE CrashInAppend
  <2>1. wal' \in Seq(Records) /\ walBuffer' = <<>>
    BY <1>17, RecordTypes DEF TypeOK, CrashInAppend, LoseMemory
  <2>8. TypeOK'
    BY <1>17, <2>1, ContentsTypes, ConstantTypes, RecordTypes DEF TypeOK, OnDisk, CrashInAppend, LoseMemory, ForgetTombstones
  <2>9. Phases' /\ SegmentIdsFresh'
    BY <1>17, <2>1, ContentsTypes, ConstantTypes DEF TypeOK, Phases, SegmentIdsFresh, OnDisk, CrashInAppend, LoseMemory, ForgetTombstones
  <2>. QED
    BY <2>8, <2>9
<1>18. CASE PowerLoss
  <2>1. segFiles' = segFiles \/ \E left \in Contents \cup {NoFile} : segFiles' = [segFiles EXCEPT ![nextSegmentId] = left]
    BY <1>18, ContentsTypes DEF PowerLoss, PartialSegmentWrite
  <2>3. segFiles' \in [SegmentIds -> Contents \cup {NoFile}]
    BY <2>1 DEF TypeOK
  <2>2. wal' \in Seq(Records) /\ walBuffer' = <<>>
    <3>1. PICK n \in 0 .. Len(wal) : wal' = SubSeq(wal, 1, n) \/ wal' = Append(SubSeq(wal, 1, n), TornRecord)
      BY <1>18 DEF PowerLoss
    <3>2. SubSeq(wal, 1, n) \in Seq(Records)
      BY DEF TypeOK
    <3>3. walBuffer' = <<>>
      BY <1>18 DEF PowerLoss, LoseMemory
    <3>. HIDE DEF Records
    <3>4. Append(SubSeq(wal, 1, n), TornRecord) \in Seq(Records)
      BY <3>2, RecordTypes
    <3>. QED
      BY <3>1, <3>2, <3>3, <3>4
  <2>8. TypeOK'
    BY <1>18, <2>2, <2>3, ContentsTypes, ConstantTypes, RecordTypes DEF TypeOK, OnDisk, PowerLoss, LoseMemory, ForgetTombstones
  <2>9. Phases' /\ SegmentIdsFresh'
    BY <1>18, <2>2, <2>3, ContentsTypes, ConstantTypes DEF TypeOK, Phases, SegmentIdsFresh, OnDisk, PowerLoss, LoseMemory, ForgetTombstones
  <2>. QED
    BY <2>8, <2>9
<1>19. CASE Close
  <2>1. wal' \in Seq(Records) /\ walBuffer' = <<>>
    BY <1>19, RecordTypes DEF TypeOK, Close, LoseMemory
  <2>8. TypeOK'
    BY <1>19, <2>1, ContentsTypes, ConstantTypes, RecordTypes DEF TypeOK, OnDisk, Close, LoseMemory, ForgetTombstones
  <2>9. Phases' /\ SegmentIdsFresh'
    BY <1>19, <2>1, ContentsTypes, ConstantTypes DEF TypeOK, Phases, SegmentIdsFresh, OnDisk, Close, LoseMemory, ForgetTombstones
  <2>. QED
    BY <2>8, <2>9
<1>20. CASE Open
  <2>1. OnDisk # {} => Max(OnDisk) \in OnDisk /\ \A s \in OnDisk : s <= Max(OnDisk)
    BY ConstantTypes, MaxOfNats DEF OnDisk
  <2>2. nextSegmentId' \in Nat /\ \A s \in OnDisk : s < nextSegmentId'
    <3>1. CASE OnDisk = {}
      BY <1>20, <3>1 DEF Open
    <3>2. CASE OnDisk # {}
      <4>1. OnDisk \subseteq Nat
        BY ConstantTypes DEF OnDisk
      <4>2. nextSegmentId' = Max(OnDisk) + 1
        BY <1>20, <3>2 DEF Open
      <4>3. Max(OnDisk) \in Nat
        BY <2>1, <3>2, <4>1
      <4>. QED
        BY <2>1, <3>2, <4>1, <4>2, <4>3
    <3>. QED
      BY <3>1, <3>2
  <2>8. TypeOK'
    BY <1>20, <2>1, <2>2, ReplayTypes, ConstantTypes, RecordTypes DEF TypeOK, OnDisk, Open, disk, writer, history
  <2>9. Phases' /\ SegmentIdsFresh'
    BY <1>20, <2>1, <2>2, ReplayTypes, ConstantTypes DEF TypeOK, Phases, SegmentIdsFresh, OnDisk, Open, disk
  <2>. QED
    BY <2>8, <2>9
<1>21. CASE UNCHANGED vars
  BY <1>21 DEF vars, disk, writer, memTable, catalog, control, history, TypeOK, Phases, SegmentIdsFresh, OnDisk
<1>. QED
  BY <1>1, <1>2, <1>3, <1>4, <1>5, <1>6, <1>7, <1>8, <1>9, <1>10, <1>11, <1>12, <1>13, <1>14, <1>15, <1>16, <1>17, <1>18, <1>19, <1>20, <1>21 DEF Next, Write, Maintenance, Restart

\* An empty directory satisfies the invariant.
LEMMA CatalogInit == Init => CatalogInv
BY ConstantTypes DEF Init, CatalogInv, TypeOK, Phases, SegmentIdsFresh, OnDisk, Empty, Contents

\* The catalog's invariant holds in every reachable state, whatever fails.
THEOREM CatalogInvariant == Spec => []CatalogInv
BY CatalogInit, CatalogStep, PTL DEF Spec

\* The state of the engine is well typed, whatever fails.
THEOREM TypeCorrect == Spec => []TypeOK
<1>1. CatalogInv => TypeOK
  BY DEF CatalogInv
<1>. QED
  BY <1>1, CatalogInvariant, PTL

\* The ids of open segments are below next_segment_id, so that pushing a new
\* segment keeps the vector sorted, and recovery finds the same order.
THEOREM SegmentIdsStayFresh == Spec => []SegmentIdsFresh
<1>1. CatalogInv => SegmentIdsFresh
  BY DEF CatalogInv
<1>. QED
  BY <1>1, CatalogInvariant, PTL

\* A file that a reader has mapped is never written again.
THEOREM OpenSegmentsNotOverwritten == Spec => OpenSegmentsImmutable
<1>1. CatalogInv /\ [Next]_vars => [OpenSegmentsKept]_vars
  <2>. SUFFICES ASSUME CatalogInv, Next PROVE OpenSegmentsKept
    BY DEF vars
  <2>1. CASE UNCHANGED segFiles
    BY <2>1 DEF OpenSegmentsKept
  <2>2. CASE segments' = {} \/ segments = {}
    BY <2>2 DEF OpenSegmentsKept
  <2>3. ASSUME NEW d, segFiles' = [segFiles EXCEPT ![nextSegmentId] = d], pc # "down"
        PROVE  OpenSegmentsKept
    <3>1. nextSegmentId \notin segments
      BY <2>3, ConstantTypes DEF CatalogInv, TypeOK, SegmentIdsFresh, OnDisk
    <3>. QED
      BY <2>3, <3>1 DEF OpenSegmentsKept, CatalogInv, TypeOK, OnDisk
  <2>4. CASE Write
    BY <2>1, <2>4 DEF Write, Insert, InsertFails, Delete, DeleteFails
  <2>5. CASE FlushWrite
    BY <2>3, <2>5 DEF FlushWrite
  <2>6. CASE SegmentWriteFails
    BY <2>1, <2>3, <2>6 DEF SegmentWriteFails, PartialSegmentWrite, Writing
  <2>7. CASE CompactWrite \/ CompactRemove
    BY <2>2, <2>7 DEF CompactWrite, CompactRemove, CatalogInv, Phases
  <2>8. CASE Flush \/ FlushLog \/ FlushLogFails \/ Compact \/ CompactFinish
             \/ CompactWalOpenFails \/ CompactOpenFails
    BY <2>1, <2>8 DEF Flush, FlushLog, FlushLogFails, Compact, CompactFinish,
                      CompactWalOpenFails, CompactOpenFails, disk
  <2>9. CASE Restart
    BY <2>1, <2>2, <2>9 DEF Restart, Crash, CrashInAppend, PowerLoss, Close, Open, LoseMemory, disk
  <2>. QED
    BY <2>4, <2>5, <2>6, <2>7, <2>8, <2>9 DEF Next, Maintenance
<1>. QED
  BY <1>1, CatalogInvariant, PTL DEF Spec, OpenSegmentsImmutable

-----------------------------------------------------------------------------
(* The log and the MemTable, when no I/O call fails and no append is torn. *)

Reliable == Faults = {} /\ ~TornAppend

Untorn(w) == \A i \in DOMAIN w : w[i].op # "torn"

\* A record on another id, or on none, does not change what an id replays to.
LEMMA ReplayOther ==
    ASSUME NEW w \in Seq(Records), NEW r \in Records, NEW id \in Ids,
           r.op \notin {"insert", "delete"} \/ r.id # id
    PROVE  /\ Replayed(Append(w, r), id) = Replayed(w, id)
           /\ Replayed(w, id) # {} => LastReplayed(Append(w, r), id) = LastReplayed(w, id)
<1>. DEFINE w2 == Append(w, r)
<1>1. /\ Len(w) \in Nat /\ DOMAIN w = 1 .. Len(w)
      /\ DOMAIN w2 = 1 .. Len(w) + 1
      /\ \A i \in 1 .. Len(w) : w2[i] = w[i]
      /\ w2[Len(w) + 1] = r
  OBVIOUS
<1>. HIDE DEF w2
<1>2. Replayed(w2, id) = Replayed(w, id)
  <2>1. ASSUME NEW i \in Replayed(w2, id) PROVE i \in Replayed(w, id)
    BY <1>1, <2>1 DEF Replayed
  <2>2. ASSUME NEW i \in Replayed(w, id) PROVE i \in Replayed(w2, id)
    BY <1>1, <2>2 DEF Replayed
  <2>. QED
    BY <2>1, <2>2
<1>3. ASSUME Replayed(w, id) # {} PROVE Max(Replayed(w, id)) \in 1 .. Len(w)
  <2>1. Replayed(w, id) \subseteq 0 .. Len(w)
    BY <1>1 DEF Replayed
  <2>. QED
    BY <1>1, <1>3, <2>1, MaxOfNats DEF Replayed
<1>. QED
  BY <1>1, <1>2, <1>3 DEF w2, LastReplayed

\* A record on an id, behind an untorn log, decides what the id replays to.
LEMMA ReplaySame ==
    ASSUME NEW w \in Seq(Records), NEW r \in Records, NEW id \in Ids, Untorn(w),
           r.op \in {"insert", "delete"}, r.id = id
    PROVE  Replayed(Append(w, r), id) # {} /\ LastReplayed(Append(w, r), id) = r
<1>. DEFINE w2 == Append(w, r)
<1>1. /\ Len(w) \in Nat /\ DOMAIN w = 1 .. Len(w)
      /\ DOMAIN w2 = 1 .. Len(w) + 1
      /\ \A i \in 1 .. Len(w) : w2[i] = w[i]
      /\ w2[Len(w) + 1] = r
  OBVIOUS
<1>. HIDE DEF w2
<1>2. Len(w) + 1 \in Replayed(w2, id)
  <2>1. ASSUME NEW j \in 1 .. Len(w) + 1 PROVE w2[j].op # "torn"
    BY <1>1 DEF Untorn
  <2>. QED
    BY <1>1, <2>1 DEF Replayed
<1>3. Replayed(w2, id) \subseteq 0 .. Len(w) + 1
  BY <1>1 DEF Replayed
<1>4. Max(Replayed(w2, id)) = Len(w) + 1
  BY <1>1, <1>2, <1>3, MaxOfNats
<1>. QED
  BY <1>1, <1>2, <1>4 DEF w2, LastReplayed

\* Only an insert leaves a document: a deleted id replays to none.
LEMMA DeletedReplaysToNone ==
    ASSUME NEW w \in Seq(Records), NEW id \in ReplayDeleted(w)
    PROVE  ReplayDocs(w)[id] = None
<1>1. Replayed(w, id) # {} /\ LastReplayed(w, id).op = "delete"
  BY DEF ReplayDeleted
<1>2. LastReplayed(w, id) \in Records
  <2>1. Replayed(w, id) \subseteq 0 .. Len(w) /\ Len(w) \in Nat
    BY DEF Replayed
  <2>2. Max(Replayed(w, id)) \in Replayed(w, id)
    BY <1>1, <2>1, MaxOfNats
  <2>. QED
    BY <2>2 DEF LastReplayed, Replayed
<1>3. \A r \in Records : r.op = "delete" => r.ver = None
  BY DEF Records
<1>. QED
  BY <1>1, <1>2, <1>3 DEF ReplayDocs, ReplayDeleted

\* The writer has nothing buffered and writes the file in the directory.
LogClean == walBuffer = <<>> /\ walLinked = TRUE /\ Untorn(wal)

LogInv == LogClean /\ MemTableRecoverable

\* On an intact log an append adds exactly its record and leaves the log intact.
LEMMA CleanAppend ==
    ASSUME TypeOK, LogClean, NEW r \in Records, r.op # "torn", WalAppend(r)
    PROVE  wal' = Append(wal, r) /\ LogClean'
<1>1. wal \in Seq(Records) /\ wal \o <<>> = wal
  BY DEF TypeOK
<1>2. wal' = Append(wal, r) /\ walBuffer' = <<>> /\ walLinked' = TRUE
  BY <1>1 DEF WalAppend, LogClean
<1>3. \A i \in DOMAIN wal' : wal'[i].op # "torn"
  <2>1. DOMAIN wal' = 1 .. Len(wal) + 1 /\ wal'[Len(wal) + 1] = r
    BY <1>1, <1>2
  <2>2. \A i \in 1 .. Len(wal) : wal'[i] = wal[i] /\ i \in DOMAIN wal
    BY <1>1, <1>2
  <2>. QED
    BY <2>1, <2>2 DEF LogClean, Untorn
<1>. QED
  BY <1>2, <1>3 DEF LogClean, Untorn

\* An empty MemTable asks nothing of the log.
LEMMA EmptyMemTableRecoverable ==
    ASSUME memDocs' = Empty, memDeleted' = {}
    PROVE  MemTableRecoverable'
BY DEF MemTableRecoverable, Empty

\* Losing the memory over an untorn log keeps the log's invariant.
LEMMA CleanShutdown ==
    ASSUME LoseMemory, Untorn(wal)'
    PROVE  LogInv'
BY EmptyMemTableRecoverable DEF LoseMemory, LogInv, LogClean

\* Without I/O failures and torn appends every step keeps the log intact and
\* the MemTable recoverable from it.
LEMMA LogStep ==
    ASSUME Reliable, CatalogInv, LogInv, [Next]_vars
    PROVE  LogInv'
<1>. USE DEF CatalogInv
<1>0. TypeOK /\ LogClean /\ wal \in Seq(Records)
  BY DEF LogInv, TypeOK
<1>1. ASSUME NEW id \in Ids, NEW v \in Versions, Insert(id, v) PROVE LogInv'
  <2>. DEFINE r == InsertRecord(id, v)
  <2>1. r \in Records /\ r.op = "insert" /\ r.id = id /\ r.ver = v
    BY RecordTypes DEF InsertRecord
  <2>. HIDE DEF r
  <2>2. wal' = Append(wal, r) /\ LogClean'
    BY <1>0, <1>1, <2>1, CleanAppend DEF Insert, r
  <2>3. memDocs' = [memDocs EXCEPT ![id] = v] /\ memDeleted' = memDeleted \ {id}
    BY <1>1 DEF Insert
  <2>4. ASSUME NEW i \in Ids
        PROVE  /\ memDocs'[i] # None => ReplayDocs(wal')[i] = memDocs'[i]
               /\ i \in memDeleted' => i \in ReplayDeleted(wal')
    <3>1. CASE i = id
      BY <3>1, <1>0, <2>1, <2>2, <2>3, ReplaySame DEF LogClean, ReplayDocs, TypeOK, Contents
    <3>2. CASE i # id
      <4>1. memDocs'[i] = memDocs[i] /\ (i \in memDeleted' <=> i \in memDeleted)
        BY <3>2, <2>3, <1>0 DEF TypeOK, Contents
      <4>. QED
        BY <3>2, <4>1, <1>0, <2>1, <2>2, ReplayOther
           DEF LogInv, MemTableRecoverable, ReplayDocs, ReplayDeleted
    <3>. QED
      BY <3>1, <3>2
  <2>. QED
    BY <2>2, <2>4 DEF LogInv, MemTableRecoverable
<1>2. ASSUME NEW id \in Ids, Delete(id) PROVE LogInv'
  <2>. DEFINE r == DeleteRecord(id)
  <2>1. r \in Records /\ r.op = "delete" /\ r.id = id /\ r.ver = None
    BY RecordTypes DEF DeleteRecord
  <2>. HIDE DEF r
  <2>2. wal' = Append(wal, r) /\ LogClean'
    BY <1>0, <1>2, <2>1, CleanAppend DEF Delete, r
  <2>3. memDocs' = [memDocs EXCEPT ![id] = None] /\ memDeleted' = memDeleted \cup {id}
    BY <1>2 DEF Delete
  <2>4. ASSUME NEW i \in Ids
        PROVE  /\ memDocs'[i] # None => ReplayDocs(wal')[i] = memDocs'[i]
               /\ i \in memDeleted' => i \in ReplayDeleted(wal')
    <3>1. CASE i = id
      BY <3>1, <1>0, <2>1, <2>2, <2>3, ReplaySame DEF LogClean, ReplayDeleted, TypeOK, Contents
    <3>2. CASE i # id
      <4>1. memDocs'[i] = memDocs[i] /\ (i \in memDeleted' <=> i \in memDeleted)
        BY <3>2, <2>3, <1>0 DEF TypeOK, Contents
      <4>. QED
        BY <3>2, <4>1, <1>0, <2>1, <2>2, ReplayOther
           DEF LogInv, MemTableRecoverable, ReplayDocs, ReplayDeleted
    <3>. QED
      BY <3>1, <3>2
  <2>. QED
    BY <2>2, <2>4 DEF LogInv, MemTableRecoverable
<1>3. CASE UNCHANGED <<wal, writer, memTable>>
  <2>1. LogClean'
    BY <1>3, <1>0 DEF LogClean, Untorn, writer
  <2>2. MemTableRecoverable'
    BY <1>3 DEF LogInv, MemTableRecoverable, memTable
  <2>. QED
    BY <2>1, <2>2 DEF LogInv
<1>4. CASE FlushLog
  BY <1>0, <1>4, CleanAppend, RecordTypes, EmptyMemTableRecoverable DEF FlushLog, FlushRecord, LogInv
<1>5. CASE CompactFinish
  BY <1>0, <1>5, EmptyMemTableRecoverable
     DEF CompactFinish, CompactSwap, LogInv, LogClean, Untorn, Reliable
<1>6. CASE Crash
  BY <1>0, <1>6, CleanShutdown DEF Crash, disk, LogClean, Untorn
<1>7. CASE PowerLoss
  <2>1. PICK n \in 0 .. Len(wal) : wal' = SubSeq(wal, 1, n)
    BY <1>0, <1>7 DEF PowerLoss, Reliable
  <2>2. DOMAIN wal' = 1 .. n /\ \A i \in 1 .. n : wal'[i] = wal[i] /\ i \in DOMAIN wal
    BY <1>0, <2>1
  <2>. QED
    BY <1>0, <1>7, <2>2, CleanShutdown DEF PowerLoss, LogClean, Untorn
<1>8. CASE Close
  <2>1. wal' = wal
    BY <1>0, <1>8 DEF Close, LogClean
  <2>. QED
    BY <1>0, <1>8, <2>1, CleanShutdown DEF Close, LogClean, Untorn
<1>9. CASE Open
  BY <1>0, <1>9, DeletedReplaysToNone
     DEF Open, disk, writer, LogInv, LogClean, Untorn, MemTableRecoverable, ReplayDocs, ReplayDeleted,
         Replayed, LastReplayed
<1>10. CASE Flush \/ FlushWrite \/ Compact \/ CompactWrite \/ CompactRemove \/ UNCHANGED vars
  BY <1>3, <1>10 DEF Flush, FlushWrite, Compact, CompactWrite, CompactRemove, vars, disk
<1>11. ~ (\/ \E id \in Ids : DeleteFails(id) \/ \E v \in Versions : InsertFails(id, v)
          \/ FlushLogFails \/ CompactWalOpenFails \/ CompactOpenFails
          \/ SegmentWriteFails \/ CrashInAppend)
  BY DEF Reliable, DeleteFails, InsertFails, WalAppendFails, FlushLogFails, CompactWalOpenFails,
         CompactOpenFails, SegmentWriteFails, CrashInAppend
<1>. QED
  BY <1>1, <1>2, <1>4, <1>5, <1>6, <1>7, <1>8, <1>9, <1>10, <1>11
     DEF Next, Write, Maintenance, Restart

\* The log is intact and the MemTable recoverable in every reachable state of a
\* run without I/O failures and torn appends.
THEOREM LogInvariant == ASSUME Reliable PROVE Spec => []LogInv
<1>1. Init => LogInv
  BY DEF Init, LogInv, LogClean, Untorn, MemTableRecoverable, Empty
<1>2. CatalogInv /\ LogInv /\ [Next]_vars => LogInv'
  BY LogStep
<1>. QED
  BY <1>1, <1>2, CatalogInvariant, PTL DEF Spec

\* Recovery loses nothing the MemTable held: what the MemTable has or hides,
\* the WAL replays to, at every step of every operation.
THEOREM MemTableIsRecoverable == ASSUME Reliable PROVE Spec => []MemTableRecoverable
<1>1. LogInv => MemTableRecoverable
  BY DEF LogInv
<1>. QED
  BY <1>1, LogInvariant, PTL

-----------------------------------------------------------------------------
(* No document is lost, when the log survives what it was given (a dying   *)
(* process, or a power loss with wal_sync), although appends, writes of    *)
(* segments and removals of files may fail.                                *)

Survivable == Faults \subseteq {"append", "segWrite", "segRemove", "walRemove"}

Durable == Survivable /\ ~TornAppend /\ WalSync

\* The steps after which the log still has what was written to it.
IntactNext == Write \/ Maintenance \/ Crash \/ Close \/ Open

\* No record is torn, and each is of an operation that was called.
Sound(w, ins, del) == \A i \in DOMAIN w :
    /\ w[i].op # "torn"
    /\ w[i].op = "insert" => w[i].ver \in ins[w[i].id]
    /\ w[i].op = "delete" => w[i].id \in del

LogSound ==
    /\ walLinked = TRUE
    /\ Sound(wal, inserted, everDeleted)
    /\ Sound(walBuffer, inserted, everDeleted)

\* The log has a record of every document in the MemTable, if not always the
\* last one: that of a failed append may lie behind it.
Logged == \A id \in Ids : memDocs[id] # None => Replayed(wal, id) # {}

\* Everything stored was inserted, everything hidden was deleted.
Provenance ==
    /\ \A id \in Ids : memDocs[id] \in inserted[id] \cup {None}
    /\ \A id \in Ids : latest[id] \in inserted[id] \cup {None}
    /\ \A s \in OnDisk, id \in Ids : segFiles[s][id] \in inserted[id] \cup {None}
    /\ segmentDeleted \subseteq everDeleted
    /\ memDeleted \subseteq everDeleted

\* While a flush is logged, its segment holds the MemTable's documents.
Flushed == pc = "flushLog" => \A id \in Ids : segFiles[nextSegmentId][id] = MemDoc(id)

\* A document was accepted and never deleted.
Kept(id) == latest[id] # None /\ id \notin everDeleted

\* Where a document that is kept is, in each phase: in the MemTable or an open
\* segment; in the consolidated segment, from the first removal on; in the log
\* or a file, when the process is down.
Located == \A id \in Ids : Kept(id) =>
    /\ pc \in {"idle", "flushWrite", "flushLog", "compactWrite"} =>
           memDocs[id] # None \/ Holders(segments, id) # {}
    /\ pc = "compactRemove" => segFiles[nextSegmentId][id] # None
    /\ pc = "down" => Replayed(wal, id) # {} \/ Holders(OnDisk, id) # {}

DataInv == LogSound /\ Logged /\ Provenance /\ Flushed /\ Located

\* A log stays sound as the history grows.
LEMMA SoundGrows ==
    ASSUME NEW w \in Seq(Records), NEW ins, NEW del, NEW ins2, NEW del2,
           Sound(w, ins, del), \A id \in Ids : ins[id] \subseteq ins2[id], del \subseteq del2
    PROVE  Sound(w, ins2, del2)
<1>1. \A i \in DOMAIN w : w[i] \in Records
  OBVIOUS
<1>2. \A x \in Records : x.op = "insert" => x.id \in Ids
  BY DEF Records
<1>. HIDE DEF Records
<1>. QED
  BY <1>1, <1>2 DEF Sound

\* Sound logs one behind the other are a sound log.
LEMMA SoundConcat ==
    ASSUME NEW w \in Seq(Records), NEW b \in Seq(Records), NEW ins, NEW del,
           Sound(w, ins, del), Sound(b, ins, del)
    PROVE  w \o b \in Seq(Records) /\ Sound(w \o b, ins, del)
<1>. HIDE DEF Records
<1>1. /\ w \o b \in Seq(Records)
      /\ Len(w) \in Nat /\ Len(b) \in Nat
      /\ DOMAIN w = 1 .. Len(w) /\ DOMAIN b = 1 .. Len(b)
      /\ DOMAIN (w \o b) = 1 .. Len(w) + Len(b)
      /\ \A i \in 1 .. Len(w) : (w \o b)[i] = w[i]
      /\ \A i \in Len(w) + 1 .. Len(w) + Len(b) : (w \o b)[i] = b[i - Len(w)]
  OBVIOUS
<1>2. \A i \in Len(w) + 1 .. Len(w) + Len(b) : i - Len(w) \in DOMAIN b
  BY <1>1
<1>3. \A i \in 1 .. Len(w) + Len(b) : i \in DOMAIN w \/ i \in Len(w) + 1 .. Len(w) + Len(b)
  BY <1>1
<1>. DEFINE c == w \o b
<1>4. /\ DOMAIN c = 1 .. Len(w) + Len(b)
      /\ \A i \in 1 .. Len(w) : c[i] = w[i]
      /\ \A i \in Len(w) + 1 .. Len(w) + Len(b) : c[i] = b[i - Len(w)]
  BY <1>1
<1>. HIDE DEF c
<1>5. Sound(c, ins, del)
  BY <1>1, <1>2, <1>3, <1>4, SMTT(30) DEF Sound
<1>. QED
  BY <1>1, <1>5 DEF c

\* A sound log with a sound record behind it is sound.
LEMMA SoundAppend ==
    ASSUME NEW w \in Seq(Records), NEW r \in Records, NEW ins, NEW del,
           Sound(w, ins, del), r.op # "torn",
           r.op = "insert" => r.ver \in ins[r.id],
           r.op = "delete" => r.id \in del
    PROVE  Append(w, r) \in Seq(Records) /\ Sound(Append(w, r), ins, del)
<1>. HIDE DEF Records
<1>. DEFINE c == Append(w, r)
<1>1. /\ c \in Seq(Records) /\ Len(w) \in Nat
      /\ DOMAIN w = 1 .. Len(w) /\ DOMAIN c = 1 .. Len(w) + 1
      /\ \A i \in 1 .. Len(w) : c[i] = w[i]
      /\ c[Len(w) + 1] = r
  OBVIOUS
<1>. HIDE DEF c
<1>2. Sound(c, ins, del)
  BY <1>1 DEF Sound
<1>. QED
  BY <1>1, <1>2 DEF c

\* What a log replays is not hidden by what comes behind it.
LEMMA ReplayedGrows ==
    ASSUME NEW w \in Seq(Records), NEW b \in Seq(Records), NEW id, Replayed(w, id) # {}
    PROVE  Replayed(w \o b, id) # {}
<1>. HIDE DEF Records
<1>. DEFINE c == w \o b
<1>1. /\ Len(w) \in Nat /\ Len(b) \in Nat
      /\ DOMAIN w = 1 .. Len(w)
      /\ DOMAIN c = 1 .. Len(w) + Len(b)
      /\ \A i \in 1 .. Len(w) : c[i] = w[i]
  OBVIOUS
<1>. HIDE DEF c
<1>2. PICK i \in Replayed(w, id) : TRUE
  OBVIOUS
<1>3. i \in Replayed(c, id)
  <2>1. i \in 1 .. Len(w) /\ i \in DOMAIN c /\ c[i] = w[i]
    BY <1>1, <1>2 DEF Replayed
  <2>2. \A j \in 1 .. i : c[j] = w[j]
    BY <1>1, <2>1
  <2>. QED
    BY <1>2, <2>1, <2>2 DEF Replayed
<1>. QED
  BY <1>3 DEF c

\* An append, whether it returns an error or not, keeps the log sound and
\* what it replays; one that succeeds puts its record where it is replayed.
LEMMA SoundLogging ==
    ASSUME TypeOK, LogSound, NEW r \in Records, r.op # "torn",
           \A id \in Ids : inserted[id] \subseteq inserted'[id],
           everDeleted \subseteq everDeleted',
           r.op = "insert" => r.ver \in inserted'[r.id],
           r.op = "delete" => r.id \in everDeleted',
           WalAppend(r) \/ WalAppendFails(r)
    PROVE  /\ LogSound'
           /\ \A id \in Ids : Replayed(wal, id) # {} => Replayed(wal', id) # {}
           /\ WalAppend(r) /\ r.op \in {"insert", "delete"} => Replayed(wal', r.id) # {}
<1>. HIDE DEF Records
<1>1. wal \in Seq(Records) /\ walBuffer \in Seq(Records) /\ walLinked = TRUE
  BY DEF TypeOK, LogSound
<1>2. Sound(wal, inserted', everDeleted') /\ Sound(walBuffer, inserted', everDeleted')
  BY <1>1, SoundGrows DEF LogSound
<1>3. CASE WalAppend(r)
  <2>. DEFINE c == wal \o walBuffer
  <2>1. c \in Seq(Records) /\ Sound(c, inserted', everDeleted')
    BY <1>1, <1>2, SoundConcat
  <2>2. \A id \in Ids : Replayed(wal, id) # {} => Replayed(c, id) # {}
    BY <1>1, ReplayedGrows
  <2>3. wal' = Append(c, r) /\ walBuffer' = <<>> /\ walLinked' = TRUE
    BY <1>1, <1>3 DEF WalAppend
  <2>. HIDE DEF c
  <2>4. Append(c, r) \in Seq(Records) /\ Sound(Append(c, r), inserted', everDeleted')
    BY <2>1, SoundAppend
  <2>5. Sound(<<>>, inserted', everDeleted')
    BY DEF Sound
  <2>6. Append(c, r) = c \o <<r>> /\ <<r>> \in Seq(Records)
    BY <2>1
  <2>7. \A id \in Ids : Replayed(c, id) # {} => Replayed(Append(c, r), id) # {}
    BY <2>1, <2>6, ReplayedGrows
  <2>8. ASSUME r.op \in {"insert", "delete"} PROVE Replayed(Append(c, r), r.id) # {}
    <3>1. Untorn(c)
      BY <2>1 DEF Sound, Untorn
    <3>2. r.id \in Ids
      BY <2>8 DEF Records
    <3>. QED
      BY <2>1, <2>8, <3>1, <3>2, ReplaySame
  <2>. QED
    BY <2>2, <2>3, <2>4, <2>5, <2>7, <2>8 DEF LogSound
<1>4. CASE walBuffer' = Append(walBuffer, r) /\ UNCHANGED <<wal, walLinked>> /\ ~ WalAppend(r)
  <2>1. Sound(Append(walBuffer, r), inserted', everDeleted')
    BY <1>1, <1>2, SoundAppend
  <2>. QED
    BY <1>1, <1>2, <1>4, <2>1 DEF LogSound
<1>. QED
  BY <1>3, <1>4 DEF WalAppendFails

\* What reaches the file when the writer is dropped keeps the log sound.
LEMMA SoundFlushing ==
    ASSUME TypeOK, LogSound, UNCHANGED <<inserted, everDeleted>>,
           wal' = wal \o walBuffer \/ wal' = wal \/ wal' = <<>>, walBuffer' = <<>>, walLinked' = TRUE
    PROVE  /\ LogSound'
           /\ wal' # <<>> \/ wal' = wal => \A id \in Ids : Replayed(wal, id) # {} => Replayed(wal', id) # {}
<1>. HIDE DEF Records
<1>1. wal \in Seq(Records) /\ walBuffer \in Seq(Records)
  BY DEF TypeOK
<1>2. Sound(<<>>, inserted, everDeleted)
  BY DEF Sound
<1>3. Sound(wal \o walBuffer, inserted, everDeleted)
  BY <1>1, SoundConcat DEF LogSound
<1>4. \A id \in Ids : Replayed(wal, id) # {} => Replayed(wal \o walBuffer, id) # {}
  BY <1>1, ReplayedGrows
<1>5. LogSound'
  BY <1>2, <1>3 DEF LogSound
<1>. QED
  BY <1>4, <1>5

\* What a segment list holds of an id was inserted; it is found if any of the
\* segments holds the id, from whichever end the list is read.
LEMMA SegmentReads ==
    ASSUME CatalogInv, Provenance, NEW S, S \subseteq OnDisk, NEW id \in Ids
    PROVE  /\ NewestIn(S, id) \in inserted[id] \cup {None}
           /\ OldestIn(S, id) \in inserted[id] \cup {None}
           /\ Holders(S, id) # {} => NewestIn(S, id) # None /\ OldestIn(S, id) # None
<1>1. Holders(S, id) \subseteq 0 .. MaxSegmentId /\ Holders(S, id) \subseteq S
  BY ConstantTypes DEF Holders, OnDisk
<1>2. CASE Holders(S, id) = {}
  BY <1>2 DEF NewestIn, OldestIn
<1>3. CASE Holders(S, id) # {}
  <2>1. Max(Holders(S, id)) \in Holders(S, id)
    BY <1>1, <1>3, ConstantTypes, MaxOfNats
  <2>2. Min(Holders(S, id)) \in Holders(S, id)
    <3>1. Holders(S, id) \subseteq Nat
      BY <1>1
    <3>. QED
      BY <3>1, <1>3, MinOfNats
  <2>3. \A s \in Holders(S, id) : segFiles[s][id] \in inserted[id] /\ segFiles[s][id] # None
    BY <1>1 DEF Holders, Provenance
  <2>. QED
    BY <1>3, <2>1, <2>2, <2>3 DEF NewestIn, OldestIn
<1>. QED
  BY <1>2, <1>3

\* A scan returns bodies that were inserted, and finds every document that is
\* kept and is in the MemTable or an open segment.
LEMMA ScanReads ==
    ASSUME CatalogInv, Provenance, NEW id \in Ids
    PROVE  /\ MemDoc(id) \in inserted[id] \cup {None}
           /\ AllDocuments[id] \in inserted[id] \cup {None}
           /\ Kept(id) => /\ MemDoc(id) = memDocs[id]
                          /\ memDocs[id] # None \/ Holders(segments, id) # {} => AllDocuments[id] # None
<1>1. segments \subseteq OnDisk
  BY DEF CatalogInv, TypeOK
<1>2. MemDoc(id) \in inserted[id] \cup {None}
  BY DEF MemDoc, Provenance
<1>3. Kept(id) => id \notin memDeleted /\ id \notin segmentDeleted
  BY DEF Kept, Provenance
<1>4. /\ OldestIn(segments, id) \in inserted[id] \cup {None}
      /\ Holders(segments, id) # {} => OldestIn(segments, id) # None
  BY <1>1, SegmentReads
<1>. QED
  BY <1>2, <1>3, <1>4 DEF AllDocuments, MemDoc

\* The log replays to bodies that were inserted, finds every kept document it
\* has a record of, and hides only what was deleted.
LEMMA ReplayReads ==
    ASSUME CatalogInv, LogSound, NEW id \in Ids
    PROVE  /\ ReplayDocs(wal)[id] \in inserted[id] \cup {None}
           /\ Kept(id) /\ Replayed(wal, id) # {} => ReplayDocs(wal)[id] # None
           /\ id \in ReplayDeleted(wal) => id \in everDeleted
<1>1. CASE Replayed(wal, id) = {}
  BY <1>1 DEF ReplayDocs, ReplayDeleted
<1>2. CASE Replayed(wal, id) # {}
  <2>. DEFINE r == LastReplayed(wal, id)
  <2>1. Max(Replayed(wal, id)) \in Replayed(wal, id)
    <3>1. wal \in Seq(Records) /\ Len(wal) \in Nat /\ Replayed(wal, id) \subseteq 0 .. Len(wal)
      BY DEF CatalogInv, TypeOK, Replayed
    <3>. QED
      BY <1>2, <3>1, MaxOfNats
  <2>2. /\ r \in Records /\ r.id = id /\ r.op \in {"insert", "delete"}
        /\ r.op = "insert" => r.ver \in inserted[id]
        /\ r.op = "delete" => id \in everDeleted
    BY <2>1 DEF LastReplayed, Replayed, LogSound, Sound, CatalogInv, TypeOK
  <2>. HIDE DEF r
  <2>3. r.op = "insert" => r.ver # None
    BY <2>2, ConstantTypes DEF Records
  <2>4. r.op = "delete" => r.ver = None
    BY <2>2 DEF Records
  <2>. QED
    BY <1>2, <2>2, <2>3, <2>4 DEF ReplayDocs, ReplayDeleted, Kept, r
<1>. QED
  BY <1>1, <1>2

\* A write of a segment file that does not complete leaves only what was
\* inserted, and the other files as they were.
LEMMA PartialWrite ==
    ASSUME CatalogInv, Provenance, Writing, PartialSegmentWrite
    PROVE  /\ \A s \in OnDisk', id \in Ids : segFiles'[s][id] \in inserted[id] \cup {None}
           /\ \A s \in OnDisk : s # nextSegmentId => s \in OnDisk' /\ segFiles'[s] = segFiles[s]
<1>. USE DEF CatalogInv
<1>1. PICK left \in {NoFile, Empty, [id \in Ids |-> MemDoc(id)], AllDocuments} :
          segFiles' = [segFiles EXCEPT ![nextSegmentId] = left]
  BY DEF PartialSegmentWrite
<1>2. \A s \in SegmentIds \ {nextSegmentId} : segFiles'[s] = segFiles[s]
  BY <1>1 DEF TypeOK
<1>3. left # NoFile => \A id \in Ids : left[id] \in inserted[id] \cup {None}
  BY ScanReads DEF Empty
<1>4. nextSegmentId \in SegmentIds => segFiles'[nextSegmentId] = left
  BY <1>1 DEF TypeOK
<1>5. \A s \in OnDisk', id \in Ids : segFiles'[s][id] \in inserted[id] \cup {None}
  BY <1>2, <1>3, <1>4 DEF Provenance, OnDisk
<1>6. \A s \in OnDisk : s # nextSegmentId => s \in OnDisk' /\ segFiles'[s] = segFiles[s]
  BY <1>2 DEF OnDisk
<1>. QED
  BY <1>5, <1>6

\* When the process ends, a document that is kept is in the log or in a file:
\* the log has a record of what the MemTable held.
LEMMA StopLocated ==
    ASSUME CatalogInv, DataInv, pc # "down", LoseMemory,
           UNCHANGED <<latest, everDeleted>>,
           \A id \in Ids : Replayed(wal, id) # {} => Replayed(wal', id) # {},
           \A s \in OnDisk : s # nextSegmentId \/ UNCHANGED segFiles =>
               s \in OnDisk' /\ segFiles'[s] = segFiles[s],
           pc = "compactRemove" => UNCHANGED segFiles
    PROVE  Located'
<1>. SUFFICES ASSUME NEW id \in Ids, Kept(id)
              PROVE  Replayed(wal', id) # {} \/ \E s \in OnDisk' : segFiles'[s][id] # None
  BY DEF Located, Kept, LoseMemory, Holders
<1>1. CASE pc = "compactRemove"
  <2>1. nextSegmentId \in OnDisk /\ segFiles[nextSegmentId][id] # None
    BY <1>1 DEF CatalogInv, Phases, DataInv, Located
  <2>. QED
    BY <1>1, <2>1
<1>2. CASE pc # "compactRemove"
  <2>1. memDocs[id] # None \/ Holders(segments, id) # {}
    BY <1>2 DEF DataInv, Located, CatalogInv, TypeOK
  <2>2. CASE memDocs[id] # None
    BY <2>2 DEF DataInv, Logged
  <2>3. CASE Holders(segments, id) # {}
    <3>1. PICK s \in segments : segFiles[s][id] # None
      BY <2>3 DEF Holders
    <3>2. s \in OnDisk /\ s # nextSegmentId
      BY <3>1 DEF CatalogInv, TypeOK, SegmentIdsFresh, LoseMemory
    <3>. QED
      BY <3>1, <3>2
  <2>. QED
    BY <2>1, <2>2, <2>3
<1>. QED
  BY <1>1, <1>2

\* A stop leaves on disk only what was inserted.
LEMMA StopProvenance ==
    ASSUME Provenance, LoseMemory, UNCHANGED <<inserted, everDeleted, latest>>,
           \A s \in OnDisk', id \in Ids : segFiles'[s][id] \in inserted[id] \cup {None}
    PROVE  Logged' /\ Provenance' /\ Flushed'
<1>1. Logged'
  BY DEF Logged, LoseMemory, Empty
<1>2. Provenance'
  BY DEF Provenance, LoseMemory, Empty
<1>3. Flushed'
  BY DEF Flushed, LoseMemory
<1>. QED
  BY <1>1, <1>2, <1>3

\* An insert keeps every document where recovery and reads find it.
LEMMA DataStepInsert ==
    ASSUME CatalogInv, DataInv, NEW id \in Ids, NEW v \in Versions, Insert(id, v)
    PROVE  DataInv'
<1>. USE DEF CatalogInv
<1>. DEFINE r == InsertRecord(id, v)
<1>1. r \in Records /\ r.op = "insert" /\ r.id = id /\ r.ver = v
  BY RecordTypes DEF InsertRecord
<1>2. WalAppend(r)
  BY DEF Insert
<1>. HIDE DEF r
<1>3. /\ memDocs' = [memDocs EXCEPT ![id] = v] /\ memDeleted' = memDeleted \ {id}
      /\ inserted' = [inserted EXCEPT ![id] = inserted[id] \cup {v}]
      /\ latest' = [latest EXCEPT ![id] = v]
      /\ UNCHANGED <<everDeleted, segFiles, segments, segmentDeleted, nextSegmentId>>
      /\ pc = "idle" /\ pc' \in {"idle", "flushWrite"}
  BY DEF Insert, LogInsert, catalog
<1>4. /\ v \in inserted'[id] /\ memDocs'[id] = v /\ latest'[id] = v
      /\ \A i \in Ids : inserted[i] \subseteq inserted'[i]
      /\ \A i \in Ids \ {id} : memDocs'[i] = memDocs[i] /\ inserted'[i] = inserted[i] /\ latest'[i] = latest[i]
  BY <1>3 DEF TypeOK, Contents
<1>5. /\ LogSound'
      /\ \A i \in Ids : Replayed(wal, i) # {} => Replayed(wal', i) # {}
      /\ Replayed(wal', id) # {}
  BY <1>1, <1>2, <1>3, <1>4, SoundLogging DEF DataInv
<1>6. Logged'
  BY <1>4, <1>5 DEF DataInv, Logged
<1>7. Provenance'
  <2>2. \A i \in Ids : memDocs'[i] \in inserted'[i] \cup {None} /\ latest'[i] \in inserted'[i] \cup {None}
    BY <1>4 DEF DataInv, Provenance
  <2>3. \A s \in OnDisk', i \in Ids : segFiles'[s][i] \in inserted'[i] \cup {None}
    BY <1>3, <1>4 DEF DataInv, Provenance, OnDisk
  <2>. QED
    BY <1>3, <2>2, <2>3 DEF DataInv, Provenance
<1>8. Flushed'
  BY <1>3 DEF Flushed
<1>9. Located'
  BY <1>3, <1>4, ConstantTypes DEF DataInv, Located, Kept, Holders
<1>. QED
  BY <1>5, <1>6, <1>7, <1>8, <1>9 DEF DataInv

\* A delete moves no other document.
LEMMA DataStepDelete ==
    ASSUME CatalogInv, DataInv, NEW id \in Ids, Delete(id)
    PROVE  DataInv'
<1>. USE DEF CatalogInv
<1>. DEFINE r == DeleteRecord(id)
<1>1. r \in Records /\ r.op = "delete" /\ r.id = id
  BY RecordTypes DEF DeleteRecord
<1>2. WalAppend(r)
  BY DEF Delete
<1>. HIDE DEF r
<1>3. /\ memDocs' = [memDocs EXCEPT ![id] = None] /\ memDeleted' = memDeleted \cup {id}
      /\ segmentDeleted' = segmentDeleted \cup {id} /\ everDeleted' = everDeleted \cup {id}
      /\ latest' = [latest EXCEPT ![id] = None]
      /\ UNCHANGED <<inserted, segFiles, segments, nextSegmentId, pc>>
      /\ pc = "idle"
  BY DEF Delete, LogDelete, control
<1>4. /\ memDocs'[id] = None /\ latest'[id] = None
      /\ \A i \in Ids \ {id} : memDocs'[i] = memDocs[i] /\ latest'[i] = latest[i]
  BY <1>3 DEF TypeOK, Contents
<1>5. /\ LogSound'
      /\ \A i \in Ids : Replayed(wal, i) # {} => Replayed(wal', i) # {}
  BY <1>1, <1>2, <1>3, SoundLogging DEF DataInv
<1>6. Logged'
  BY <1>4, <1>5 DEF DataInv, Logged
<1>7. Provenance'
  <2>2. \A i \in Ids : memDocs'[i] \in inserted'[i] \cup {None} /\ latest'[i] \in inserted'[i] \cup {None}
    BY <1>3, <1>4 DEF DataInv, Provenance
  <2>3. \A s \in OnDisk', i \in Ids : segFiles'[s][i] \in inserted'[i] \cup {None}
    BY <1>3 DEF DataInv, Provenance, OnDisk
  <2>. QED
    BY <1>3, <2>2, <2>3 DEF DataInv, Provenance
<1>8. Flushed'
  BY <1>3 DEF Flushed
<1>9. Located'
  BY <1>3, <1>4 DEF DataInv, Located, Kept, Holders
<1>. QED
  BY <1>5, <1>6, <1>7, <1>8, <1>9 DEF DataInv

\* A failed append may leave its record in the log, and nothing else: what it
\* logged was asked for.
LEMMA DataStepRefused ==
    ASSUME Survivable, CatalogInv, DataInv,
           (\E id \in Ids : DeleteFails(id) \/ \E v \in Versions : InsertFails(id, v)) \/ FlushLogFails
    PROVE  DataInv'
<1>. USE DEF CatalogInv
<1>1. PICK r \in Records :
          /\ r.op # "torn" /\ WalAppendFails(r)
          /\ r.op = "insert" => r.ver \in inserted'[r.id]
          /\ r.op = "delete" => r.id \in everDeleted'
          /\ \A id \in Ids : inserted[id] \subseteq inserted'[id]
          /\ everDeleted \subseteq everDeleted'
  <2>1. ASSUME NEW id \in Ids, NEW v \in Versions, InsertFails(id, v)
        PROVE  /\ InsertRecord(id, v) \in Records /\ InsertRecord(id, v).op = "insert"
               /\ InsertRecord(id, v).id = id /\ InsertRecord(id, v).ver = v
               /\ WalAppendFails(InsertRecord(id, v)) /\ v \in inserted'[id]
               /\ \A i \in Ids : inserted[i] \subseteq inserted'[i]
               /\ everDeleted \subseteq everDeleted'
    BY <2>1, RecordTypes DEF InsertFails, InsertRecord, TypeOK
  <2>2. ASSUME NEW id \in Ids, DeleteFails(id)
        PROVE  /\ DeleteRecord(id) \in Records /\ DeleteRecord(id).op = "delete"
               /\ DeleteRecord(id).id = id
               /\ WalAppendFails(DeleteRecord(id)) /\ id \in everDeleted'
               /\ \A i \in Ids : inserted[i] \subseteq inserted'[i]
               /\ everDeleted \subseteq everDeleted'
    BY <2>2, RecordTypes DEF DeleteFails, DeleteRecord
  <2>3. ASSUME FlushLogFails
        PROVE  /\ FlushRecord \in Records /\ FlushRecord.op = "flush"
               /\ WalAppendFails(FlushRecord) /\ UNCHANGED <<inserted, everDeleted>>
    BY <2>3, RecordTypes DEF FlushLogFails, FlushRecord, Survivable, history
  <2>. QED
    <3>1. CASE \E id \in Ids, v \in Versions : InsertFails(id, v)
      <4>. HIDE DEF Records
      <4>. QED
        BY <2>1, <3>1
    <3>2. CASE \E id \in Ids : DeleteFails(id)
      <4>. HIDE DEF Records
      <4>. QED
        BY <2>2, <3>2
    <3>3. CASE FlushLogFails
      BY <2>3, <3>3
    <3>. QED
      BY <3>1, <3>2, <3>3
<1>2. /\ UNCHANGED <<segFiles, memDocs, memDeleted, segments, segmentDeleted, nextSegmentId, latest>>
      /\ \/ pc = "idle" /\ pc' = "idle"
         \/ pc = "flushLog" /\ pc' = "idle"
  BY DEF InsertFails, DeleteFails, FlushLogFails, memTable, catalog, control, history
<1>3. /\ LogSound'
      /\ \A i \in Ids : Replayed(wal, i) # {} => Replayed(wal', i) # {}
  BY <1>1, SoundLogging DEF DataInv
<1>4. Logged'
  BY <1>2, <1>3 DEF DataInv, Logged
<1>5. Provenance'
  BY <1>1, <1>2 DEF DataInv, Provenance, OnDisk
<1>6. Flushed'
  BY <1>2 DEF Flushed
<1>7. Located'
  BY <1>1, <1>2 DEF DataInv, Located, Kept, Holders
<1>. QED
  BY <1>3, <1>4, <1>5, <1>6, <1>7 DEF DataInv

\* Every step of a flush keeps each kept document in the MemTable or a segment.
LEMMA DataStepFlush ==
    ASSUME CatalogInv, DataInv, FlushWrite \/ FlushLog
    PROVE  DataInv'
<1>. USE DEF CatalogInv
<1>1. CASE FlushWrite
  <2>1. nextSegmentId \in SegmentIds /\ nextSegmentId \notin segments
    BY <1>1, ConstantTypes DEF FlushWrite, HasSegmentId, TypeOK, SegmentIdsFresh, OnDisk
  <2>2. /\ \A id \in Ids : segFiles'[nextSegmentId][id] = MemDoc(id)
        /\ \A s \in SegmentIds \ {nextSegmentId} : segFiles'[s] = segFiles[s]
    BY <1>1, <2>1 DEF FlushWrite, TypeOK
  <2>3. /\ UNCHANGED <<wal, walBuffer, walLinked, memDocs, memDeleted, segments, segmentDeleted, nextSegmentId,
                       inserted, everDeleted, latest>>
        /\ pc = "flushWrite" /\ pc' = "flushLog"
    BY <1>1 DEF FlushWrite, writer, memTable, catalog, history
  <2>4. Provenance'
    <3>1. \A s \in OnDisk', id \in Ids : segFiles'[s][id] \in inserted[id] \cup {None}
      BY <2>2, ScanReads DEF DataInv, Provenance, OnDisk
    <3>. QED
      BY <2>3, <3>1 DEF DataInv, Provenance
  <2>5. Flushed'
    BY <2>2, <2>3 DEF Flushed, MemDoc
  <2>6. Located'
    <3>1. segments \subseteq SegmentIds
      BY DEF TypeOK, OnDisk
    <3>2. \A id : Holders(segments, id)' = Holders(segments, id)
      BY <2>1, <2>2, <2>3, <3>1 DEF Holders
    <3>. QED
      BY <2>3, <3>2 DEF DataInv, Located, Kept
  <2>7. LogSound' /\ Logged'
    BY <2>3 DEF DataInv, LogSound, Logged
  <2>. QED
    BY <2>4, <2>5, <2>6, <2>7 DEF DataInv
<1>2. CASE FlushLog
  <2>1. /\ UNCHANGED <<segFiles, segmentDeleted, inserted, everDeleted, latest>>
        /\ memDocs' = Empty /\ memDeleted' = {} /\ segments' = segments \cup {nextSegmentId}
        /\ pc = "flushLog" /\ pc' \in {"idle", "compactWrite"}
    BY <1>2 DEF FlushLog, history
  <2>2. LogSound'
    <3>1. FlushRecord \in Records /\ FlushRecord.op = "flush" /\ WalAppend(FlushRecord)
      BY <1>2, RecordTypes DEF FlushLog, FlushRecord
    <3>. QED
      BY <2>1, <3>1, SoundLogging DEF DataInv
  <2>3. Logged' /\ Provenance'
    BY <2>1 DEF DataInv, Logged, Provenance, OnDisk, Empty
  <2>4. Flushed'
    BY <2>1 DEF Flushed
  <2>5. ASSUME NEW id \in Ids, Kept(id) PROVE \E s \in segments' : segFiles[s][id] # None
    <3>1. CASE memDocs[id] # None
      BY <2>1, <2>5, <3>1, ScanReads DEF DataInv, Flushed
    <3>2. CASE Holders(segments, id) # {}
      BY <2>1, <3>2 DEF Holders
    <3>. QED
      BY <2>1, <2>5, <3>1, <3>2 DEF DataInv, Located
  <2>6. Located'
    BY <2>1, <2>5 DEF Located, Kept, Holders
  <2>. QED
    BY <2>2, <2>3, <2>4, <2>6 DEF DataInv
<1>. QED
  BY <1>1, <1>2

\* Every step of a compaction keeps each kept document: the new segment holds
\* it before the first old file is removed.
LEMMA DataStepCompact ==
    ASSUME Survivable, CatalogInv, DataInv, CompactWrite \/ CompactRemove \/ CompactFinish
    PROVE  DataInv'
<1>. USE DEF CatalogInv
<1>1. CASE CompactWrite
  <2>1. nextSegmentId \in SegmentIds
    BY <1>1, ConstantTypes DEF CompactWrite, HasSegmentId, TypeOK
  <2>2. /\ segFiles'[nextSegmentId] = AllDocuments
        /\ \A s \in SegmentIds \ {nextSegmentId} : segFiles'[s] = segFiles[s]
    BY <1>1, <2>1 DEF CompactWrite, TypeOK
  <2>3. /\ UNCHANGED <<wal, walBuffer, walLinked, memDocs, memDeleted, segmentDeleted, nextSegmentId,
                       inserted, everDeleted, latest>>
        /\ pc = "compactWrite" /\ pc' = "compactRemove"
    BY <1>1 DEF CompactWrite, writer, memTable, history
  <2>4. Provenance'
    <3>1. \A s \in OnDisk', id \in Ids : segFiles'[s][id] \in inserted[id] \cup {None}
      BY <2>2, ScanReads DEF DataInv, Provenance, OnDisk
    <3>. QED
      BY <2>3, <3>1 DEF DataInv, Provenance
  <2>5. Flushed'
    BY <2>3 DEF Flushed
  <2>6. Located'
    BY <2>2, <2>3, ScanReads DEF DataInv, Located, Kept
  <2>7. LogSound' /\ Logged'
    BY <2>3 DEF DataInv, LogSound, Logged
  <2>. QED
    BY <2>4, <2>5, <2>6, <2>7 DEF DataInv
<1>2. CASE CompactRemove
  <2>1. Min(doomed) \in doomed
    <3>1. doomed \subseteq Nat /\ doomed # {}
      BY <1>2, ConstantTypes DEF CompactRemove, TypeOK, OnDisk
    <3>. QED
      BY <3>1, MinOfNats
  <2>2. Min(doomed) # nextSegmentId /\ Min(doomed) \in SegmentIds
    <3>1. \A s \in doomed : s # nextSegmentId /\ s \in SegmentIds
      BY <1>2, ConstantTypes DEF CompactRemove, TypeOK, SegmentIdsFresh, OnDisk
    <3>. QED
      BY <2>1, <3>1
  <2>3. segFiles' = segFiles \/ segFiles' = [segFiles EXCEPT ![Min(doomed)] = NoFile]
    BY <1>2 DEF CompactRemove
  <2>4. /\ UNCHANGED <<wal, walBuffer, walLinked, memDocs, memDeleted, segmentDeleted, nextSegmentId,
                       inserted, everDeleted, latest, pc>>
        /\ pc = "compactRemove"
    BY <1>2 DEF CompactRemove, writer, memTable, catalog, history
  <2>5. nextSegmentId \in SegmentIds
    BY <2>4 DEF TypeOK
  <2>6. segFiles'[nextSegmentId] = segFiles[nextSegmentId]
    BY <2>2, <2>3, <2>5 DEF TypeOK
  <2>7. Provenance'
    <3>1. \A s \in OnDisk', id \in Ids : segFiles'[s][id] \in inserted[id] \cup {None}
      BY <2>2, <2>3 DEF DataInv, Provenance, OnDisk, TypeOK
    <3>. QED
      BY <2>4, <3>1 DEF DataInv, Provenance
  <2>8. Flushed'
    BY <2>4 DEF Flushed
  <2>9. Located'
    BY <2>4, <2>6 DEF DataInv, Located, Kept
  <2>10. LogSound' /\ Logged'
    BY <2>4 DEF DataInv, LogSound, Logged
  <2>. QED
    BY <2>7, <2>8, <2>9, <2>10 DEF DataInv
<1>3. CASE CompactFinish
  <2>1. /\ UNCHANGED <<segFiles, inserted, everDeleted, latest>>
        /\ memDocs' = Empty /\ memDeleted' = {} /\ segmentDeleted' = {}
        /\ segments' = {nextSegmentId} /\ pc = "compactRemove" /\ pc' = "idle"
    BY <1>3 DEF CompactFinish, CompactSwap, history
  <2>2. LogSound'
    <3>1. wal' = wal \o walBuffer \/ wal' = <<>>
      BY <1>3 DEF CompactFinish
    <3>2. walBuffer' = <<>> /\ walLinked' = TRUE
      BY <1>3 DEF CompactFinish, DataInv, LogSound
    <3>. QED
      BY <2>1, <3>1, <3>2, SoundFlushing DEF DataInv
  <2>3. Logged' /\ Provenance'
    BY <2>1 DEF DataInv, Logged, Provenance, Empty, OnDisk
  <2>4. Flushed'
    BY <2>1 DEF Flushed
  <2>5. Located'
    BY <2>1 DEF DataInv, Located, Kept, Holders
  <2>. QED
    BY <2>2, <2>3, <2>4, <2>5 DEF DataInv
<1>. QED
  BY <1>1, <1>2, <1>3

\* A segment write that fails touches no open segment.
LEMMA DataStepWriteFails ==
    ASSUME CatalogInv, DataInv, SegmentWriteFails
    PROVE  DataInv'
<1>. USE DEF CatalogInv
<1>1. /\ UNCHANGED <<wal, walBuffer, walLinked, memDocs, memDeleted, segments, segmentDeleted, nextSegmentId,
                     inserted, everDeleted, latest>>
      /\ pc \in {"flushWrite", "compactWrite"} /\ pc' = "idle"
      /\ Writing /\ (PartialSegmentWrite \/ UNCHANGED segFiles)
  BY DEF SegmentWriteFails, Writing, writer, memTable, catalog, history
<1>2. /\ \A s \in OnDisk', id \in Ids : segFiles'[s][id] \in inserted[id] \cup {None}
      /\ \A s \in OnDisk : s # nextSegmentId => s \in OnDisk' /\ segFiles'[s] = segFiles[s]
  <2>1. CASE PartialSegmentWrite
    BY <1>1, <2>1, PartialWrite DEF DataInv
  <2>2. CASE UNCHANGED segFiles
    BY <2>2 DEF DataInv, Provenance, OnDisk
  <2>. QED
    BY <1>1, <2>1, <2>2
<1>3. LogSound' /\ Logged'
  BY <1>1 DEF DataInv, LogSound, Logged
<1>4. Provenance' /\ Flushed'
  BY <1>1, <1>2 DEF DataInv, Provenance, Flushed
<1>5. Located'
  <2>1. \A s \in segments : s \in OnDisk /\ s # nextSegmentId
    BY <1>1 DEF TypeOK, SegmentIdsFresh
  <2>2. \A id : Holders(segments, id)' = Holders(segments, id)
    BY <1>1, <1>2, <2>1 DEF Holders
  <2>. QED
    BY <1>1, <2>2 DEF DataInv, Located, Kept
<1>. QED
  BY <1>3, <1>4, <1>5 DEF DataInv

\* A crash, a close and an open keep each kept document in the log or a file.
LEMMA DataStepRestart ==
    ASSUME CatalogInv, DataInv, Crash \/ Close \/ Open
    PROVE  DataInv'
<1>. USE DEF CatalogInv
<1>1. CASE Crash \/ Close
  <2>1. /\ UNCHANGED <<inserted, everDeleted, latest>> /\ LoseMemory /\ pc # "down"
        /\ wal' = wal \/ wal' = wal \o walBuffer
        /\ walBuffer' = <<>> /\ walLinked' = TRUE
    BY <1>1 DEF Crash, Close, LoseMemory, ForgetTombstones, disk
  <2>2. /\ LogSound'
        /\ \A id \in Ids : Replayed(wal, id) # {} => Replayed(wal', id) # {}
    <3>1. wal' # <<>> \/ wal' = wal
      BY <2>1 DEF TypeOK
    <3>. QED
      BY <2>1, <3>1, SoundFlushing DEF DataInv
  <2>3. UNCHANGED segFiles \/ (Writing /\ PartialSegmentWrite)
    BY <1>1 DEF Crash, Close, disk
  <2>4. /\ \A s \in OnDisk', id \in Ids : segFiles'[s][id] \in inserted[id] \cup {None}
        /\ \A s \in OnDisk : s # nextSegmentId \/ UNCHANGED segFiles => s \in OnDisk' /\ segFiles'[s] = segFiles[s]
        /\ pc = "compactRemove" => UNCHANGED segFiles
    <3>1. CASE UNCHANGED segFiles
      BY <3>1 DEF DataInv, Provenance, OnDisk
    <3>2. CASE Writing /\ PartialSegmentWrite /\ ~ UNCHANGED segFiles
      BY <3>2, PartialWrite DEF DataInv, Writing
    <3>. QED
      BY <2>3, <3>1, <3>2
  <2>5. Logged' /\ Provenance' /\ Flushed'
    BY <2>1, <2>4, StopProvenance DEF DataInv
  <2>6. Located'
    BY <2>1, <2>2, <2>4, StopLocated
  <2>. QED
    BY <2>2, <2>5, <2>6 DEF DataInv
<1>2. CASE Open
  <2>1. /\ UNCHANGED <<wal, walBuffer, walLinked, segFiles, segmentDeleted, inserted, everDeleted, latest>>
        /\ memDocs' = ReplayDocs(wal) /\ memDeleted' = ReplayDeleted(wal) /\ segments' = OnDisk
        /\ pc = "down" /\ pc' = "idle"
    BY <1>2 DEF Open, disk, writer, history
  <2>2. Provenance'
    <3>1. memDeleted' \subseteq everDeleted
      BY <2>1, ReplayReads, ReplayTypes DEF DataInv, TypeOK
    <3>2. \A id \in Ids : memDocs'[id] \in inserted[id] \cup {None}
      BY <2>1, ReplayReads DEF DataInv
    <3>. QED
      BY <2>1, <3>1, <3>2 DEF DataInv, Provenance, OnDisk
  <2>3. Flushed'
    BY <2>1 DEF Flushed
  <2>4. Located'
    BY <2>1, ReplayReads DEF DataInv, Located, Kept, Holders
  <2>5. LogSound'
    BY <2>1 DEF DataInv, LogSound
  <2>6. Logged'
    BY <2>1 DEF Logged, ReplayDocs
  <2>. QED
    BY <2>2, <2>3, <2>4, <2>5, <2>6 DEF DataInv
<1>. QED
  BY <1>1, <1>2

\* Every step that leaves the log intact keeps every kept document located.
LEMMA DataStep ==
    ASSUME Survivable, CatalogInv, DataInv, [IntactNext]_vars
    PROVE  DataInv'
<1>1. ~ (CompactWalOpenFails \/ CompactOpenFails)
  BY DEF Survivable, CompactWalOpenFails, CompactOpenFails
<1>2. CASE Flush \/ Compact
  <2>1. /\ UNCHANGED <<disk, writer, memTable, catalog, history>>
        /\ pc = "idle" /\ pc' \in {"flushWrite", "compactWrite"}
    BY <1>2 DEF Flush, Compact
  <2>2. Provenance'
    BY <2>1 DEF DataInv, Provenance, OnDisk, disk, memTable, catalog, history
  <2>3. Flushed' /\ Located'
    BY <2>1 DEF DataInv, Flushed, Located, Kept, Holders, disk, memTable, catalog, history
  <2>4. LogSound' /\ Logged'
    BY <2>1 DEF DataInv, LogSound, Logged, disk, writer, memTable, history
  <2>. QED
    BY <2>2, <2>3, <2>4 DEF DataInv
<1>3. CASE UNCHANGED vars
  <2>1. UNCHANGED <<wal, walBuffer, walLinked, segFiles, memDocs, memDeleted, segments, segmentDeleted,
                    nextSegmentId, pc, inserted, everDeleted, latest>>
    BY <1>3 DEF vars, disk, writer, memTable, catalog, control, history
  <2>2. Provenance'
    BY <2>1 DEF DataInv, Provenance, OnDisk
  <2>3. Flushed'
    BY <2>1 DEF DataInv, Flushed, MemDoc
  <2>4. Located'
    BY <2>1 DEF DataInv, Located, Kept, Holders, Replayed, OnDisk
  <2>5. LogSound' /\ Logged'
    BY <2>1 DEF DataInv, LogSound, Logged
  <2>. QED
    BY <2>2, <2>3, <2>4, <2>5 DEF DataInv
<1>. QED
  BY <1>1, <1>2, <1>3, DataStepInsert, DataStepDelete, DataStepRefused, DataStepFlush, DataStepCompact,
     DataStepWriteFails, DataStepRestart
     DEF IntactNext, Write, Maintenance

\* Without torn appends, and with wal_sync, every step leaves the log intact.
LEMMA DurableSteps ==
    ASSUME Durable
    PROVE  [Next]_vars => [IntactNext]_vars
BY DEF Durable, CrashInAppend, PowerLoss, Next, IntactNext, Restart

\* In the beginning there is nothing to be found.
LEMMA DataInit == Init => DataInv
BY DEF Init, DataInv, LogSound, Sound, Logged, Provenance, Flushed, Located, Kept, Empty, OnDisk

\* In every reachable state every kept document is where its phase says.
THEOREM DataInvariant == ASSUME Durable PROVE Spec => []DataInv
<1>1. CatalogInv /\ DataInv /\ [Next]_vars => DataInv'
  BY DataStep, DurableSteps DEF Durable
<1>. QED
  BY <1>1, DataInit, CatalogInvariant, PTL DEF Spec

\* Recovery finds a document that is kept, wherever it is.
LEMMA KeptIsRecovered ==
    ASSUME CatalogInv, DataInv
    PROVE  WriteOnceDurable
<1>. SUFFICES ASSUME NEW id \in Ids, WriteOnce(id) PROVE Recovered(id) = latest[id]
  BY DEF WriteOnceDurable
<1>1. Kept(id) /\ inserted[id] = {latest[id]}
  BY DEF WriteOnce, Kept
<1>2. /\ ReplayDocs(wal)[id] \in inserted[id] \cup {None}
      /\ Replayed(wal, id) # {} => ReplayDocs(wal)[id] # None
      /\ NewestIn(OnDisk, id) \in inserted[id] \cup {None}
      /\ Holders(OnDisk, id) # {} => NewestIn(OnDisk, id) # None
  BY <1>1, ReplayReads, SegmentReads DEF DataInv
<1>3. Replayed(wal, id) # {} \/ Holders(OnDisk, id) # {}
  <2>1. CASE pc = "down"
    BY <1>1, <2>1 DEF DataInv, Located
  <2>2. CASE pc = "compactRemove"
    <3>1. nextSegmentId \in OnDisk /\ segFiles[nextSegmentId][id] # None
      BY <1>1, <2>2 DEF CatalogInv, Phases, DataInv, Located
    <3>. QED
      BY <3>1 DEF Holders
  <2>3. CASE pc \notin {"down", "compactRemove"}
    <3>1. memDocs[id] # None \/ Holders(segments, id) # {}
      BY <1>1, <2>3 DEF CatalogInv, TypeOK, DataInv, Located
    <3>2. Holders(segments, id) \subseteq Holders(OnDisk, id)
      BY DEF Holders, CatalogInv, TypeOK
    <3>. QED
      BY <3>1, <3>2 DEF DataInv, Logged
  <2>. QED
    BY <2>1, <2>2, <2>3
<1>. QED
  BY <1>1, <1>2, <1>3 DEF Recovered

\* Reads and scans find it.
LEMMA KeptIsVisible ==
    ASSUME CatalogInv, DataInv
    PROVE  WriteOnceVisible
<1>. SUFFICES ASSUME NEW id \in Ids, WriteOnce(id), pc = "idle"
              PROVE  Get(id) = latest[id] /\ AllDocuments[id] = latest[id]
  BY DEF WriteOnceVisible
<1>1. Kept(id) /\ inserted[id] = {latest[id]}
  BY DEF WriteOnce, Kept
<1>2. memDocs[id] # None \/ Holders(segments, id) # {}
  BY <1>1 DEF DataInv, Located
<1>3. segments \subseteq OnDisk /\ Provenance
  BY DEF CatalogInv, TypeOK, DataInv
<1>4. /\ MemDoc(id) \in inserted[id] \cup {None} /\ MemDoc(id) = memDocs[id]
      /\ AllDocuments[id] \in inserted[id] /\ AllDocuments[id] # None
  BY <1>1, <1>2, <1>3, ScanReads
<1>5. NewestIn(segments, id) \in inserted[id] \cup {None}
      /\ (Holders(segments, id) # {} => NewestIn(segments, id) # None)
  BY <1>3, SegmentReads
<1>6. id \notin segmentDeleted
  BY <1>1, <1>3 DEF Provenance, Kept
<1>. QED
  BY <1>1, <1>2, <1>4, <1>5, <1>6 DEF Get

\* A document that was logged with one body and never deleted is in what the
\* next open would recover, at every step: flush, compaction, crash and
\* recovery do not lose it, nor does a failed append, write or removal.
THEOREM WriteOnceIsDurable == ASSUME Durable PROVE Spec => []WriteOnceDurable
<1>1. CatalogInv /\ DataInv => WriteOnceDurable
  BY KeptIsRecovered
<1>. QED
  BY <1>1, CatalogInvariant, DataInvariant, PTL

\* Between operations, get and all_documents answer such a document.
THEOREM WriteOnceIsVisible == ASSUME Durable PROVE Spec => []WriteOnceVisible
<1>1. CatalogInv /\ DataInv => WriteOnceVisible
  BY KeptIsVisible
<1>. QED
  BY <1>1, CatalogInvariant, DataInvariant, PTL

-----------------------------------------------------------------------------
(* A document that reached a segment file stays in one.                    *)

\* A flush that fails leaves its file at the id the next one writes, whose own
\* failure may cut it short: only removals may fail here.
RemovalsFail == Faults \subseteq {"segRemove", "walRemove"}

\* No file lies at the id the next flush or compaction writes.
NewFileIsNew == pc \in {"idle", "flushWrite", "compactWrite"} => nextSegmentId \notin OnDisk

\* Files are written where none was, when only removals fail.
LEMMA NewFileStep ==
    ASSUME RemovalsFail, CatalogInv, NewFileIsNew, [Next]_vars
    PROVE  NewFileIsNew'
<1>. USE DEF CatalogInv
<1>1. ~ (\/ \E id \in Ids : DeleteFails(id) \/ \E v \in Versions : InsertFails(id, v)
         \/ FlushLogFails \/ CompactWalOpenFails \/ CompactOpenFails \/ SegmentWriteFails)
  BY DEF RemovalsFail, DeleteFails, InsertFails, WalAppendFails, FlushLogFails,
         CompactWalOpenFails, CompactOpenFails, SegmentWriteFails
<1>2. CASE (\E id \in Ids : Delete(id) \/ \E v \in Versions : Insert(id, v)) \/ Flush \/ Compact
  <2>1. UNCHANGED <<segFiles, nextSegmentId>> /\ pc = "idle"
    BY <1>2 DEF Insert, Delete, Flush, Compact, disk, catalog
  <2>. QED
    BY <2>1 DEF NewFileIsNew, OnDisk
<1>3. CASE FlushWrite \/ CompactWrite \/ CompactRemove
  <2>1. pc' \in {"flushLog", "compactRemove"}
    BY <1>3 DEF FlushWrite, CompactWrite, CompactRemove
  <2>. QED
    BY <2>1 DEF NewFileIsNew
<1>4. CASE FlushLog \/ CompactFinish
  <2>1. UNCHANGED segFiles /\ nextSegmentId' = nextSegmentId + 1
    BY <1>4 DEF FlushLog, CompactFinish, CompactSwap
  <2>2. pc # "down" /\ nextSegmentId \in Nat /\ OnDisk \subseteq Nat
    BY <1>4, ConstantTypes DEF FlushLog, CompactFinish, TypeOK, OnDisk
  <2>3. \A s \in OnDisk : s <= nextSegmentId
    BY <2>2 DEF SegmentIdsFresh
  <2>. QED
    BY <2>1, <2>2, <2>3 DEF NewFileIsNew, OnDisk
<1>5. CASE Crash \/ CrashInAppend \/ PowerLoss \/ Close
  BY <1>5 DEF Crash, CrashInAppend, PowerLoss, Close, LoseMemory, NewFileIsNew
<1>6. CASE Open
  <2>1. UNCHANGED segFiles /\ pc' = "idle"
    BY <1>6 DEF Open, disk
  <2>2. SegmentIdsFresh' /\ nextSegmentId' \in Nat /\ segments' = OnDisk'
    BY <1>6, <2>1, CatalogStep DEF Open, OnDisk, TypeOK
  <2>3. \A s \in OnDisk' : s < nextSegmentId'
    BY <2>1, <2>2 DEF SegmentIdsFresh
  <2>. QED
    BY <2>2, <2>3 DEF NewFileIsNew
<1>7. CASE UNCHANGED vars
  BY <1>7 DEF vars, disk, catalog, control, NewFileIsNew, OnDisk
<1>. QED
  BY <1>1, <1>2, <1>3, <1>4, <1>5, <1>6, <1>7 DEF Next, Write, Maintenance, Restart

\* A document in a file is in one after the step: a new file takes the place of
\* none, and the files a compaction removes are all in the one it wrote.
LEMMA InSegmentStep ==
    ASSUME RemovalsFail, ~TornAppend, WalSync, CatalogInv, DataInv, NewFileIsNew, Next,
           NEW id \in Ids, WriteOnce(id), InSegment(id)
    PROVE  InSegment(id)'
<1>. USE DEF CatalogInv
<1>. DEFINE Has(s) == s \in OnDisk /\ segFiles[s][id] # None
<1>1. PICK t \in OnDisk : segFiles[t][id] # None
  BY DEF InSegment, NewestIn, Holders
<1>2. ASSUME NEW s \in OnDisk', segFiles'[s][id] # None PROVE InSegment(id)'
  <2>1. CatalogInv'
    BY CatalogStep
  <2>2. Holders(OnDisk, id)' # {}
    BY <1>2 DEF Holders
  <2>3. Holders(OnDisk, id)' \subseteq 0 .. MaxSegmentId
    BY ConstantTypes DEF Holders, OnDisk
  <2>4. Max(Holders(OnDisk, id)') \in Holders(OnDisk, id)'
    BY <2>2, <2>3, ConstantTypes, MaxOfNats
  <2>. QED
    BY <2>2, <2>4 DEF InSegment, NewestIn, Holders
<1>3. CASE UNCHANGED segFiles
  BY <1>1, <1>2, <1>3 DEF OnDisk
<1>4. ASSUME nextSegmentId \notin OnDisk, NEW left, segFiles' = [segFiles EXCEPT ![nextSegmentId] = left]
      PROVE  InSegment(id)'
  <2>1. t # nextSegmentId /\ segFiles'[t] = segFiles[t]
    BY <1>1, <1>4 DEF TypeOK, OnDisk
  <2>2. t \in OnDisk'
    BY <1>1, <2>1 DEF OnDisk
  <2>. QED
    BY <1>1, <1>2, <2>1, <2>2
<1>5. CASE FlushWrite \/ CompactWrite
  BY <1>4, <1>5 DEF FlushWrite, CompactWrite, NewFileIsNew
<1>6. CASE CompactRemove
  <2>1. Kept(id)
    BY DEF WriteOnce, Kept
  <2>2. nextSegmentId \in OnDisk /\ segFiles[nextSegmentId][id] # None
    BY <1>6, <2>1 DEF CompactRemove, Phases, DataInv, Located
  <2>3. Min(doomed) \in doomed
    <3>1. doomed \subseteq Nat /\ doomed # {}
      BY <1>6, ConstantTypes DEF CompactRemove, TypeOK, OnDisk
    <3>. QED
      BY <3>1, MinOfNats
  <2>4. \A s \in doomed : s # nextSegmentId
    BY <1>6 DEF CompactRemove, TypeOK, SegmentIdsFresh
  <2>5. segFiles'[nextSegmentId] = segFiles[nextSegmentId]
    BY <1>6, <2>2, <2>3, <2>4 DEF CompactRemove, TypeOK, OnDisk
  <2>. QED
    BY <1>2, <2>2, <2>5 DEF OnDisk
<1>7. CASE Crash
  BY <1>3, <1>4, <1>7 DEF Crash, disk, Writing, PartialSegmentWrite, NewFileIsNew
<1>8. ~ PowerLoss /\ ~ SegmentWriteFails /\ ~ CrashInAppend
  BY DEF PowerLoss, SegmentWriteFails, RemovalsFail, CrashInAppend
<1>9. CASE Write \/ Flush \/ FlushLog \/ FlushLogFails \/ Compact \/ CompactFinish \/ CompactWalOpenFails
           \/ CompactOpenFails \/ Close \/ Open
  BY <1>3, <1>9 DEF Write, Insert, InsertFails, Delete, DeleteFails, Flush, FlushLog, FlushLogFails, Compact,
        CompactFinish, CompactWalOpenFails, CompactOpenFails, Close, Open, disk
<1>. QED
  BY <1>5, <1>6, <1>7, <1>8, <1>9 DEF Next, Maintenance, Restart

\* Neither a flush, nor a compaction, nor the writing after a restart takes the
\* last copy of a document from the files.
THEOREM FlushedStaysDurable ==
    ASSUME RemovalsFail, ~TornAppend, WalSync
    PROVE  Spec => FlushedIsDurable
<1>. DEFINE A == \A id \in Ids : WriteOnce(id) /\ WriteOnce(id)' /\ InSegment(id) => InSegment(id)'
<1>1. Durable
  BY DEF Durable, Survivable, RemovalsFail
<1>2. Init => NewFileIsNew
  BY DEF Init, NewFileIsNew
<1>3. CatalogInv /\ NewFileIsNew /\ [Next]_vars => NewFileIsNew'
  BY NewFileStep
<1>4. CatalogInv /\ DataInv /\ NewFileIsNew /\ [Next]_vars => [A]_vars
  BY InSegmentStep
<1>5. Spec => []DataInv
  BY <1>1, DataInvariant
<1>. QED
  BY <1>2, <1>3, <1>4, <1>5, CatalogInvariant, PTL DEF Spec, FlushedIsDurable

-----------------------------------------------------------------------------
(* A deleted document stays deleted, however the process dies.             *)

\* An append that fails may still log an insert, and a file that is not removed
\* comes back with its documents.
Obedient == Faults \cap {"append", "segRemove", "walRemove"} = {}

NoInsertOf(w, id) == \A i \in DOMAIN w : w[i].op = "insert" => w[i].id # id

\* Nothing on disk holds the document.
Erased(id) == NoInsertOf(wal, id) /\ \A s \in OnDisk : segFiles[s][id] = None

\* Every file is an open segment, one a compaction still has to remove, or the
\* one that is being written.
Accounted == pc # "down" => OnDisk \subseteq (segments \cup doomed) \cup {nextSegmentId}

\* What segment_deleted no longer hides is nowhere; a compaction forgets
\* segment_deleted last, so what it has written must not hold it either.
GoneInv ==
    /\ walBuffer = <<>>
    /\ pc = "down" => segmentDeleted = {}
    /\ Accounted
    /\ \A id \in gone :
          /\ memDocs[id] = None
          /\ pc = "compactRemove" => segFiles[nextSegmentId][id] = None
          /\ id \notin segmentDeleted => Erased(id)

\* A log without an insert of an id replays to no document of it.
LEMMA NoInsertReplays ==
    ASSUME NEW w \in Seq(Records), NEW id \in Ids, NoInsertOf(w, id)
    PROVE  ReplayDocs(w)[id] = None
<1>1. CASE Replayed(w, id) = {}
  BY <1>1 DEF ReplayDocs
<1>2. CASE Replayed(w, id) # {}
  <2>1. Replayed(w, id) \subseteq 0 .. Len(w) /\ Len(w) \in Nat
    BY DEF Replayed
  <2>2. Max(Replayed(w, id)) \in Replayed(w, id)
    BY <1>2, <2>1, MaxOfNats
  <2>3. LastReplayed(w, id) \in Records /\ LastReplayed(w, id).op = "delete"
    BY <2>2 DEF LastReplayed, Replayed, NoInsertOf
  <2>4. \A x \in Records : x.op = "delete" => x.ver = None
    BY DEF Records
  <2>. QED
    BY <1>2, <2>3, <2>4 DEF ReplayDocs
<1>. QED
  BY <1>1, <1>2

\* It stays so when other records follow.
LEMMA NoInsertAppend ==
    ASSUME NEW w \in Seq(Records), NEW r \in Records, NEW id, NoInsertOf(w, id),
           r.op = "insert" => r.id # id
    PROVE  NoInsertOf(Append(w, r), id)
<1>. HIDE DEF Records
<1>. DEFINE c == Append(w, r)
<1>1. /\ Len(w) \in Nat /\ DOMAIN w = 1 .. Len(w) /\ DOMAIN c = 1 .. Len(w) + 1
      /\ \A i \in 1 .. Len(w) : c[i] = w[i]
      /\ c[Len(w) + 1] = r
  OBVIOUS
<1>. HIDE DEF c
<1>2. NoInsertOf(c, id)
  BY <1>1 DEF NoInsertOf
<1>. QED
  BY <1>2 DEF c

\* A log that replays to no document of an id does so still when what follows
\* inserts none.
LEMMA NoInsertConcat ==
    ASSUME NEW w \in Seq(Records), NEW b \in Seq(Records), NEW id \in Ids,
           ReplayDocs(w)[id] = None, NoInsertOf(b, id)
    PROVE  ReplayDocs(w \o b)[id] = None
<1>. DEFINE c == w \o b
<1>0. \A x \in Records : x.op = "delete" => x.ver = None
  BY DEF Records
<1>. HIDE DEF Records
<1>1. /\ c \in Seq(Records)
      /\ Len(w) \in Nat /\ Len(b) \in Nat /\ Len(c) = Len(w) + Len(b)
      /\ DOMAIN w = 1 .. Len(w) /\ DOMAIN b = 1 .. Len(b) /\ DOMAIN c = 1 .. Len(w) + Len(b)
      /\ \A i \in 1 .. Len(w) : c[i] = w[i]
      /\ \A i \in Len(w) + 1 .. Len(w) + Len(b) : i - Len(w) \in DOMAIN b /\ c[i] = b[i - Len(w)]
  OBVIOUS
<1>. HIDE DEF c
<1>2. CASE Replayed(c, id) = {}
  BY <1>2 DEF ReplayDocs, c
<1>3. CASE Replayed(c, id) # {}
  <2>. DEFINE m == Max(Replayed(c, id))
  <2>1. Replayed(c, id) \subseteq 0 .. Len(c) /\ Len(c) \in Nat
    BY <1>1 DEF Replayed
  <2>2. m \in Replayed(c, id) /\ \A i \in Replayed(c, id) : i <= m
    BY <1>3, <2>1, MaxOfNats
  <2>. HIDE DEF m
  <2>3. /\ m \in 1 .. Len(w) + Len(b) /\ c[m] \in Records
        /\ c[m].op \in {"insert", "delete"} /\ c[m].id = id
    BY <1>1, <2>2 DEF Replayed
  <2>4. c[m].ver = None
    <3>1. CASE m \in 1 .. Len(w)
      <4>1. Replayed(w, id) = Replayed(c, id) \cap 1 .. Len(w)
        BY <1>1 DEF Replayed
      <4>2. m \in Replayed(w, id) /\ Replayed(w, id) \subseteq 0 .. Len(w)
        BY <2>2, <3>1, <4>1
      <4>3. Max(Replayed(w, id)) \in Replayed(w, id) /\ \A i \in Replayed(w, id) : i <= Max(Replayed(w, id))
        BY <1>1, <4>2, MaxOfNats
      <4>4. Max(Replayed(w, id)) = m
        <5>1. m <= Max(Replayed(w, id)) /\ Max(Replayed(w, id)) <= m
          BY <2>2, <4>1, <4>2, <4>3
        <5>. QED
          BY <1>1, <3>1, <4>2, <4>3, <5>1
      <4>5. ReplayDocs(w)[id] = w[m].ver
        BY <4>2, <4>4 DEF ReplayDocs, LastReplayed
      <4>. QED
        BY <1>1, <3>1, <4>5
    <3>2. CASE m \in Len(w) + 1 .. Len(w) + Len(b)
      <4>1. c[m].op = "delete"
        BY <1>1, <2>3, <3>2 DEF NoInsertOf
      <4>. QED
        BY <1>0, <2>3, <4>1
    <3>. QED
      BY <1>1, <2>3, <3>1, <3>2
  <2>5. ReplayDocs(c)[id] = c[m].ver
    BY <1>3 DEF ReplayDocs, LastReplayed, m
  <2>. QED
    BY <2>4, <2>5 DEF c
<1>. QED
  BY <1>2, <1>3

\* What is erased is not recovered.
LEMMA ErasedIsNotRecovered ==
    ASSUME TypeOK, NEW id \in Ids, Erased(id)
    PROVE  Recovered(id) = None
<1>1. ReplayDocs(wal)[id] = None
  BY NoInsertReplays DEF TypeOK, Erased
<1>2. NewestIn(OnDisk, id) = None
  BY DEF Erased, NewestIn, Holders
<1>. QED
  BY <1>1, <1>2 DEF Recovered

\* Neither the MemTable nor a scan has a document that is gone.
LEMMA GoneReads ==
    ASSUME TypeOK, GoneInv, NEW id \in gone
    PROVE  MemDoc(id) = None /\ AllDocuments[id] = None /\ Get(id) = None
<1>1. id \in Ids /\ memDocs[id] = None
  BY DEF TypeOK, GoneInv
<1>2. id \notin segmentDeleted => Holders(segments, id) = {}
  BY DEF GoneInv, Erased, Holders, TypeOK
<1>. QED
  BY <1>1, <1>2 DEF MemDoc, AllDocuments, Get, OldestIn, NewestIn

\* The writing of a segment file, complete or not, writes no document that is
\* gone.
LEMMA GoneWrites ==
    ASSUME CatalogInv, GoneInv, NEW left \in {NoFile, Empty, [id \in Ids |-> MemDoc(id)], AllDocuments},
           pc # "down", segFiles' = [segFiles EXCEPT ![nextSegmentId] = left], HasSegmentId
    PROVE  /\ nextSegmentId \in SegmentIds /\ segFiles'[nextSegmentId] = left
           /\ OnDisk' \subseteq OnDisk \cup {nextSegmentId}
           /\ left # NoFile => \A id \in gone : left[id] = None
           /\ \A id \in gone : (\A s \in OnDisk : segFiles[s][id] = None) => \A s \in OnDisk' : segFiles'[s][id] = None
<1>1. nextSegmentId \in SegmentIds
  BY ConstantTypes DEF HasSegmentId, CatalogInv, TypeOK
<1>2. segFiles'[nextSegmentId] = left /\ \A s \in SegmentIds \ {nextSegmentId} : segFiles'[s] = segFiles[s]
  BY <1>1 DEF CatalogInv, TypeOK
<1>3. left # NoFile => \A id \in gone : left[id] = None
  BY GoneReads DEF Empty, CatalogInv, TypeOK
<1>. QED
  BY <1>1, <1>2, <1>3 DEF OnDisk

\* The end of the process: the tombstones are forgotten, and with them what
\* was gone only because of them.
LEMMA GoneStop ==
    ASSUME CatalogInv, GoneInv, LoseMemory, ForgetTombstones,
           \A id \in gone : NoInsertOf(wal, id) => NoInsertOf(wal', id),
           \A id \in gone : (\A s \in OnDisk : segFiles[s][id] = None) => \A s \in OnDisk' : segFiles'[s][id] = None
    PROVE  GoneInv'
<1>1. ASSUME NEW id \in gone' PROVE memDocs'[id] = None /\ Erased(id)'
  <2>1. id \in gone /\ id \notin segmentDeleted /\ id \in Ids
    BY <1>1 DEF ForgetTombstones, CatalogInv, TypeOK
  <2>. QED
    BY <2>1 DEF GoneInv, Erased, LoseMemory, Empty
<1>. QED
  BY <1>1 DEF GoneInv, Accounted, LoseMemory

\* The steps of the log: what is appended is not an insert of what is gone.
LEMMA GoneLogging ==
    ASSUME TypeOK, GoneInv, NEW r \in Records, WalAppend(r)
    PROVE  /\ walBuffer' = <<>>
           /\ \A id : NoInsertOf(wal, id) /\ (r.op = "insert" => r.id # id) => NoInsertOf(wal', id)
<1>1. wal' = wal \/ wal' = Append(wal, r)
  <2>1. wal \o <<>> = wal
    BY DEF TypeOK
  <2>. QED
    BY <2>1 DEF WalAppend, GoneInv
<1>2. walBuffer' = <<>> /\ wal \in Seq(Records)
  BY DEF WalAppend, TypeOK
<1>. HIDE DEF Records
<1>. QED
  BY <1>1, <1>2, NoInsertAppend

\* Every step keeps what is gone away.
LEMMA GoneStep ==
    ASSUME Obedient, CatalogInv, GoneInv, [Next]_vars
    PROVE  GoneInv'
<1>. USE DEF CatalogInv
<1>1. ASSUME NEW id \in Ids, NEW v \in Versions, Insert(id, v) PROVE GoneInv'
  <2>1. /\ memDocs' = [memDocs EXCEPT ![id] = v] /\ gone' = gone \ {id}
        /\ UNCHANGED <<segFiles, segments, segmentDeleted, nextSegmentId, doomed>>
        /\ pc = "idle" /\ pc' \in {"idle", "flushWrite"}
    BY <1>1 DEF Insert, LogInsert, catalog
  <2>2. /\ walBuffer' = <<>>
        /\ \A i : NoInsertOf(wal, i) /\ i # id => NoInsertOf(wal', i)
    <3>1. InsertRecord(id, v) \in Records /\ InsertRecord(id, v).id = id /\ WalAppend(InsertRecord(id, v))
      BY <1>1, RecordTypes DEF Insert, InsertRecord
    <3>. QED
      BY <3>1, GoneLogging
  <2>3. \A i \in gone' : i \in gone /\ i # id /\ memDocs'[i] = memDocs[i]
    BY <2>1 DEF TypeOK, Contents
  <2>. QED
    BY <2>1, <2>2, <2>3 DEF GoneInv, Accounted, Erased, OnDisk
<1>2. ASSUME NEW id \in Ids, Delete(id) PROVE GoneInv'
  <2>1. /\ memDocs' = [memDocs EXCEPT ![id] = None] /\ gone' = gone \cup {id}
        /\ segmentDeleted' = segmentDeleted \cup {id}
        /\ UNCHANGED <<segFiles, segments, nextSegmentId, doomed, pc>>
        /\ pc = "idle"
    BY <1>2 DEF Delete, LogDelete, control
  <2>2. /\ walBuffer' = <<>>
        /\ \A i : NoInsertOf(wal, i) => NoInsertOf(wal', i)
    <3>1. DeleteRecord(id) \in Records /\ DeleteRecord(id).op = "delete" /\ WalAppend(DeleteRecord(id))
      BY <1>2, RecordTypes DEF Delete, DeleteRecord
    <3>. QED
      BY <3>1, GoneLogging
  <2>3. memDocs'[id] = None /\ \A i \in gone : memDocs'[i] = None
    BY <2>1 DEF TypeOK, Contents, GoneInv
  <2>. QED
    BY <2>1, <2>2, <2>3 DEF GoneInv, Accounted, Erased, OnDisk
<1>3. CASE Flush \/ Compact
  BY <1>3 DEF Flush, Compact, disk, writer, memTable, catalog, history, GoneInv, Accounted, Erased, OnDisk
<1>4. CASE FlushWrite
  <2>1. segFiles' = [segFiles EXCEPT ![nextSegmentId] = [id \in Ids |-> MemDoc(id)]] /\ pc # "down" /\ HasSegmentId
    BY <1>4 DEF FlushWrite
  <2>2. /\ OnDisk' \subseteq OnDisk \cup {nextSegmentId}
        /\ \A id \in gone : (\A s \in OnDisk : segFiles[s][id] = None) => \A s \in OnDisk' : segFiles'[s][id] = None
    BY <2>1, GoneWrites
  <2>. QED
    BY <1>4, <2>2 DEF FlushWrite, writer, memTable, catalog, history, GoneInv, Accounted, Erased
<1>5. CASE FlushLog
  <2>1. /\ memDocs' = Empty /\ segments' = segments \cup {nextSegmentId} /\ pc' # "down" /\ pc' # "compactRemove"
        /\ UNCHANGED <<segFiles, segmentDeleted, doomed, gone>> /\ pc # "down"
    BY <1>5 DEF FlushLog, history
  <2>2. walBuffer' = <<>> /\ \A i : NoInsertOf(wal, i) => NoInsertOf(wal', i)
    BY <1>5, RecordTypes, GoneLogging DEF FlushLog, FlushRecord
  <2>3. Accounted'
    BY <2>1 DEF GoneInv, Accounted, OnDisk
  <2>. QED
    BY <2>1, <2>2, <2>3 DEF GoneInv, Erased, OnDisk, Empty, TypeOK
<1>6. CASE FlushLogFails
  <2>1. /\ UNCHANGED <<segFiles, memDocs, segments, segmentDeleted, nextSegmentId, doomed, gone>>
        /\ pc = "flushLog" /\ pc' = "idle" /\ WalAppend(FlushRecord)
    BY <1>6 DEF FlushLogFails, WalAppendFails, Obedient, memTable, catalog, history
  <2>2. walBuffer' = <<>> /\ \A i : NoInsertOf(wal, i) => NoInsertOf(wal', i)
    BY <2>1, RecordTypes, GoneLogging DEF FlushRecord
  <2>. QED
    BY <2>1, <2>2 DEF GoneInv, Accounted, Erased, OnDisk
<1>7. CASE CompactWrite
  <2>1. segFiles' = [segFiles EXCEPT ![nextSegmentId] = AllDocuments] /\ pc = "compactWrite" /\ HasSegmentId
    BY <1>7 DEF CompactWrite
  <2>2. /\ nextSegmentId \in SegmentIds /\ segFiles'[nextSegmentId] = AllDocuments
        /\ OnDisk' \subseteq OnDisk \cup {nextSegmentId}
        /\ \A id \in gone : AllDocuments[id] = None
        /\ \A id \in gone : (\A s \in OnDisk : segFiles[s][id] = None) => \A s \in OnDisk' : segFiles'[s][id] = None
    BY <2>1, GoneWrites, ContentsTypes, ConstantTypes
  <2>. QED
    BY <1>7, <2>1, <2>2 DEF CompactWrite, writer, memTable, history, GoneInv, Accounted, Erased, Phases
<1>8. CASE CompactRemove
  <2>1. Min(doomed) \in doomed /\ Min(doomed) # nextSegmentId
    <3>1. doomed \subseteq Nat /\ doomed # {} /\ \A s \in doomed : s # nextSegmentId
      BY <1>8, ConstantTypes DEF CompactRemove, TypeOK, OnDisk, SegmentIdsFresh
    <3>. QED
      BY <3>1, MinOfNats
  <2>2. /\ segFiles' = [segFiles EXCEPT ![Min(doomed)] = NoFile] /\ doomed' = doomed \ {Min(doomed)}
        /\ UNCHANGED <<wal, walBuffer, memDocs, segments, segmentDeleted, nextSegmentId, pc, gone>>
        /\ pc = "compactRemove"
    BY <1>8 DEF CompactRemove, Obedient, writer, memTable, catalog, history
  <2>3. /\ OnDisk' = OnDisk \ {Min(doomed)} /\ \A s \in OnDisk' : segFiles'[s] = segFiles[s]
        /\ segFiles'[nextSegmentId] = segFiles[nextSegmentId]
    <3>1. Min(doomed) \in SegmentIds /\ nextSegmentId \in SegmentIds
      BY <2>1, <2>2 DEF TypeOK, OnDisk
    <3>. QED
      BY <2>1, <2>2, <3>1 DEF OnDisk, TypeOK
  <2>. QED
    BY <2>2, <2>3 DEF GoneInv, Accounted, Erased
<1>9. CASE CompactFinish \/ CompactWalOpenFails
  <2>1. /\ segments' = {nextSegmentId} /\ memDocs' = Empty /\ wal' = <<>> /\ walBuffer' = <<>>
        /\ UNCHANGED <<segFiles, doomed, gone>> /\ pc' = "idle"
        /\ pc = "compactRemove" /\ doomed = {}
    BY <1>9 DEF CompactFinish, CompactWalOpenFails, CompactSwap, Obedient, GoneInv, history
  <2>2. OnDisk \subseteq {nextSegmentId}
    BY <2>1 DEF GoneInv, Accounted, Phases
  <2>3. \A id \in gone : id \in Ids /\ Erased(id)'
    BY <2>1, <2>2 DEF GoneInv, Erased, NoInsertOf, OnDisk, TypeOK
  <2>. QED
    BY <2>1, <2>2, <2>3 DEF GoneInv, Accounted, OnDisk, Empty
<1>10. CASE CompactOpenFails
  <2>1. /\ UNCHANGED <<wal, segFiles, walBuffer, memDocs, segments, segmentDeleted, nextSegmentId, doomed, gone>>
        /\ pc = "compactRemove" /\ pc' = "idle"
    BY <1>10 DEF CompactOpenFails, disk, writer, memTable, catalog, history
  <2>. QED
    BY <2>1 DEF GoneInv, Accounted, Erased, OnDisk
<1>11. CASE SegmentWriteFails
  <2>1. /\ UNCHANGED <<wal, walBuffer, memDocs, segments, segmentDeleted, nextSegmentId, doomed, gone>>
        /\ pc # "down" /\ pc' = "idle"
        /\ PartialSegmentWrite \/ UNCHANGED segFiles
    BY <1>11 DEF SegmentWriteFails, Writing, writer, memTable, catalog, history
  <2>2. /\ OnDisk' \subseteq OnDisk \cup {nextSegmentId}
        /\ \A id \in gone : (\A s \in OnDisk : segFiles[s][id] = None) => \A s \in OnDisk' : segFiles'[s][id] = None
    <3>1. CASE PartialSegmentWrite
      BY <2>1, <3>1, GoneWrites DEF PartialSegmentWrite
    <3>2. CASE UNCHANGED segFiles
      BY <3>2 DEF OnDisk
    <3>. QED
      BY <2>1, <3>1, <3>2
  <2>. QED
    BY <2>1, <2>2 DEF GoneInv, Accounted, Erased
<1>12. CASE Crash \/ Close
  <2>1. LoseMemory /\ ForgetTombstones /\ pc # "down" /\ (wal' = wal \/ wal' = wal \o walBuffer)
        /\ (UNCHANGED segFiles \/ PartialSegmentWrite)
    BY <1>12 DEF Crash, Close, disk
  <2>2. wal' = wal
    BY <2>1 DEF GoneInv, TypeOK
  <2>3. \A id \in gone : (\A s \in OnDisk : segFiles[s][id] = None) => \A s \in OnDisk' : segFiles'[s][id] = None
    <3>1. CASE PartialSegmentWrite
      BY <2>1, <3>1, GoneWrites DEF PartialSegmentWrite
    <3>2. CASE UNCHANGED segFiles
      BY <3>2 DEF OnDisk
    <3>. QED
      BY <2>1, <3>1, <3>2
  <2>. QED
    BY <2>1, <2>2, <2>3, GoneStop
<1>13. CASE CrashInAppend
  <2>1. LoseMemory /\ ForgetTombstones /\ UNCHANGED segFiles /\ wal' = Append(wal, TornRecord)
    BY <1>13 DEF CrashInAppend, GoneInv, TypeOK
  <2>2. \A id \in gone : NoInsertOf(wal, id) => NoInsertOf(wal', id)
    <3>1. wal \in Seq(Records) /\ TornRecord \in Records /\ TornRecord.op = "torn"
      BY RecordTypes DEF TypeOK, TornRecord
    <3>. HIDE DEF Records
    <3>. QED
      BY <2>1, <3>1, NoInsertAppend
  <2>. QED
    BY <2>1, <2>2, GoneStop DEF OnDisk
<1>14. CASE PowerLoss
  <2>1. PICK n \in 0 .. Len(wal) : wal' \in {SubSeq(wal, 1, n), Append(SubSeq(wal, 1, n), TornRecord)}
    BY <1>14 DEF PowerLoss
  <2>2. LoseMemory /\ ForgetTombstones /\ pc # "down" /\ (UNCHANGED segFiles \/ PartialSegmentWrite)
    BY <1>14 DEF PowerLoss
  <2>3. \A id \in gone : NoInsertOf(wal, id) => NoInsertOf(wal', id)
    <3>. DEFINE p == SubSeq(wal, 1, n)
    <3>1. wal \in Seq(Records) /\ TornRecord \in Records /\ TornRecord.op = "torn"
      BY RecordTypes DEF TypeOK, TornRecord
    <3>. HIDE DEF Records
    <3>2. p \in Seq(Records) /\ DOMAIN p = 1 .. n /\ \A i \in 1 .. n : p[i] = wal[i] /\ i \in DOMAIN wal
      BY <3>1
    <3>. HIDE DEF p
    <3>3. \A id : NoInsertOf(wal, id) => NoInsertOf(p, id)
      BY <3>2 DEF NoInsertOf
    <3>4. \A id : NoInsertOf(p, id) => NoInsertOf(Append(p, TornRecord), id)
      BY <3>1, <3>2, NoInsertAppend
    <3>. QED
      BY <2>1, <3>3, <3>4 DEF p
  <2>4. \A id \in gone : (\A s \in OnDisk : segFiles[s][id] = None) => \A s \in OnDisk' : segFiles'[s][id] = None
    <3>1. CASE PartialSegmentWrite
      BY <2>2, <3>1, GoneWrites DEF PartialSegmentWrite
    <3>2. CASE UNCHANGED segFiles
      BY <3>2 DEF OnDisk
    <3>. QED
      BY <2>2, <3>1, <3>2
  <2>. QED
    BY <2>2, <2>3, <2>4, GoneStop
<1>15. CASE Open
  <2>1. /\ UNCHANGED <<wal, segFiles, walBuffer, segmentDeleted, doomed, gone>>
        /\ segments' = OnDisk /\ memDocs' = ReplayDocs(wal) /\ pc = "down" /\ pc' = "idle"
    BY <1>15 DEF Open, disk, writer, history
  <2>2. \A id \in gone : memDocs'[id] = None /\ Erased(id)
    BY <2>1, NoInsertReplays DEF GoneInv, Erased, TypeOK
  <2>. QED
    BY <2>1, <2>2 DEF GoneInv, Accounted, Erased, OnDisk
<1>16. CASE UNCHANGED vars
  BY <1>16 DEF vars, disk, writer, memTable, catalog, control, history, GoneInv, Accounted, Erased, OnDisk
<1>17. ~ \E id \in Ids : DeleteFails(id) \/ \E v \in Versions : InsertFails(id, v)
  BY DEF Obedient, DeleteFails, InsertFails, WalAppendFails
<1>. QED
  BY <1>1, <1>2, <1>3, <1>4, <1>5, <1>6, <1>7, <1>8, <1>9, <1>10, <1>11, <1>12, <1>13, <1>14, <1>15, <1>16, <1>17
     DEF Next, Write, Maintenance, Restart

\* A deleted document is not read while the process runs and, once a compaction
\* completed, is not recovered: with torn appends, power losses, segment files
\* that cannot be written or opened, and a WAL that cannot be created again.
THEOREM GoneIsGone == ASSUME Obedient PROVE Spec => []GoneStaysGone
<1>1. Init => GoneInv
  BY DEF Init, GoneInv, Accounted
<1>2. CatalogInv /\ GoneInv /\ [Next]_vars => GoneInv'
  BY GoneStep
<1>3. ASSUME CatalogInv, GoneInv PROVE GoneStaysGone
  <2>1. ASSUME NEW id \in gone, id \notin segmentDeleted PROVE Recovered(id) = None
    BY <1>3, <2>1, ErasedIsNotRecovered DEF GoneInv, CatalogInv, TypeOK
  <2>. QED
    BY <1>3, <2>1, GoneReads DEF GoneStaysGone, CatalogInv
<1>4. CatalogInv /\ GoneInv => GoneStaysGone
  BY <1>3
<1>. QED
  BY <1>1, <1>2, <1>4, CatalogInvariant, PTL DEF Spec


-----------------------------------------------------------------------------
(* Where every id is written once the engine implements DocumentStore: the *)
(* durable documents are those of the history, so only the step that logs  *)
(* an insert changes them.                                                 *)

\* What the refinement mapping yields: the history's last body of every id.
LEMMA MappedState ==
    ASSUME CatalogInv, DataInv, WrittenOnce
    PROVE  /\ DurableDocuments = latest
           /\ VisibleDocuments = IF pc = "down" THEN NoFile ELSE latest
<1>1. latest = [id \in Ids |-> latest[id]]
  BY DEF CatalogInv, TypeOK, Contents
<1>2. Provenance /\ LogSound /\ segments \subseteq OnDisk
  BY DEF CatalogInv, TypeOK, DataInv
<1>3. ASSUME NEW id \in Ids
      PROVE  Recovered(id) = latest[id] /\ (pc = "idle" => Get(id) = latest[id])
  <2>1. CASE latest[id] # None
    <3>1. WriteOnce(id)
      BY <1>2, <2>1 DEF WriteOnce, WrittenOnce, Provenance
    <3>. QED
      BY <3>1, KeptIsRecovered, KeptIsVisible DEF WriteOnceDurable, WriteOnceVisible
  <2>2. CASE latest[id] = None
    <3>1. inserted[id] = {}
      BY <2>2, ConstantTypes DEF WrittenOnce, CatalogInv, TypeOK
    <3>2. ReplayDocs(wal)[id] = None /\ NewestIn(OnDisk, id) = None /\ NewestIn(segments, id) = None
      BY <1>2, <3>1, ReplayReads, SegmentReads
    <3>3. MemDoc(id) = None
      BY <1>2, <3>1, ScanReads
    <3>. QED
      BY <2>2, <3>2, <3>3 DEF Recovered, Get
  <2>. QED
    BY <2>1, <2>2
<1>4. DurableDocuments = latest
  BY <1>1, <1>3 DEF DurableDocuments
<1>5. pc = "idle" => [id \in Ids |-> Get(id)] = latest
  BY <1>1, <1>3
<1>. QED
  BY <1>4, <1>5 DEF VisibleDocuments

\* The mapped state moves as DocumentStore allows: an accepted insert puts its
\* document, and a refused one, whatever it leaves in the log, puts nothing.
LEMMA MappedStep ==
    ASSUME TypeOK, WrittenOnce, WrittenOnce', [Next]_vars,
           DurableDocuments = latest, DurableDocuments' = latest',
           VisibleDocuments = IF pc = "down" THEN NoFile ELSE latest,
           VisibleDocuments' = IF pc' = "down" THEN NoFile ELSE latest',
           \A id \in Ids : latest[id] \in inserted[id] \cup {None}
    PROVE  [Documents!Next]_<<DurableDocuments, VisibleDocuments>>
<1>1. latest # NoFile
  BY ConstantTypes DEF TypeOK
<1>2. ASSUME NEW id \in Ids, NEW v \in Versions, Insert(id, v) PROVE Documents!Put(id, v)
  <2>1. latest' = [latest EXCEPT ![id] = v] /\ v \in inserted'[id] /\ pc = "idle" /\ pc' # "down"
        /\ inserted[id] \subseteq inserted'[id]
    BY <1>2 DEF Insert, LogInsert, TypeOK
  <2>2. latest'[id] = v
    BY <2>1 DEF TypeOK, Contents
  <2>3. latest[id] \in {None, v}
    BY <2>1, <2>2 DEF WrittenOnce
  <2>. QED
    BY <1>1, <2>1, <2>3 DEF Documents!Put
<1>3. ASSUME UNCHANGED latest
      PROVE  Documents!Stop \/ Documents!Start \/ UNCHANGED <<DurableDocuments, VisibleDocuments>>
  BY <1>3 DEF Documents!Stop, Documents!Start
<1>4. CASE Next
  <2>1. CASE Maintenance
    BY <1>3, <2>1 DEF Maintenance, Flush, FlushWrite, FlushLog, FlushLogFails, Compact, CompactWrite,
          CompactRemove, CompactFinish, CompactWalOpenFails, CompactOpenFails, SegmentWriteFails,
          history, Documents!Next
  <2>2. CASE Restart
    BY <1>3, <2>2 DEF Restart, Crash, CrashInAppend, PowerLoss, Close, Open, ForgetTombstones,
          history, Documents!Next
  <2>3. ASSUME NEW id \in Ids, NEW v \in Versions, InsertFails(id, v)
        PROVE  [Documents!Next]_<<DurableDocuments, VisibleDocuments>>
    BY <1>3, <2>3 DEF InsertFails, Documents!Next
  <2>4. ASSUME NEW id \in Ids PROVE ~ Delete(id) /\ ~ DeleteFails(id)
    BY DEF Delete, LogDelete, DeleteFails, WrittenOnce
  <2>. QED
    BY <1>2, <1>4, <2>1, <2>2, <2>3, <2>4 DEF Next, Write, Documents!Next
<1>5. CASE UNCHANGED vars
  BY <1>3, <1>5 DEF vars, history, Documents!Next
<1>. QED
  BY <1>4, <1>5

\* The engine implements the write-once document store, although appends,
\* writes of segments and removals of files may fail.
THEOREM EngineImplementsDocumentStore ==
    ASSUME Durable
    PROVE  Spec => ImplementsDocumentStore
<1>. DEFINE mapped == <<DurableDocuments, VisibleDocuments>>
            M == /\ DurableDocuments = latest
                 /\ VisibleDocuments = IF pc = "down" THEN NoFile ELSE latest
<1>1. CatalogInv /\ DataInv /\ WrittenOnce => M
  BY MappedState
<1>2. Init => CatalogInv /\ DataInv /\ WrittenOnce
  BY CatalogInit, DataInit DEF Init, WrittenOnce, Empty
<1>3. Init => Documents!Init
  BY <1>1, <1>2 DEF Init, Documents!Init, Empty
<1>4. ASSUME CatalogInv, DataInv, CatalogInv', DataInv', [Next]_vars, WrittenOnce, WrittenOnce'
      PROVE  [Documents!Next]_mapped
  <2>1. M /\ M'
    BY <1>1, <1>4, PTL
  <2>. QED
    BY <1>4, <2>1, MappedStep DEF CatalogInv, DataInv, Provenance
<1>5. CatalogInv /\ DataInv /\ CatalogInv' /\ DataInv' /\ [Next]_vars
      => [WrittenOnce /\ WrittenOnce' => [Documents!Next]_mapped]_vars
  BY <1>4
<1>. HIDE DEF mapped
<1>6. Spec => [][WrittenOnce /\ WrittenOnce' => [Documents!Next]_mapped]_vars
  BY <1>5, CatalogInvariant, DataInvariant, PTL DEF Spec
<1>. QED
  BY <1>3, <1>6 DEF Spec, ImplementsDocumentStore, mapped

=============================================================================
