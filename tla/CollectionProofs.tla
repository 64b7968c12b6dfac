-------------------------- MODULE CollectionProofs --------------------------
(***************************************************************************)
(* Proofs about Collection, for every set of ids and bodies, every         *)
(* threshold and every bound: what is proved of the engine holds of the    *)
(* engine of a collection, whose steps are those of StorageEngine.         *)
(***************************************************************************)
EXTENDS Collection, FiniteSetTheorems, TLAPS

\* The engine with what is proved of it.
P == INSTANCE StorageEngineProofs

LEMMA EngineSteps ==
    /\ \A id \in Ids, v \in Versions : Engine!Insert(id, v) => P!Insert(id, v)
    /\ \A id \in Ids, v \in Versions : Engine!InsertFails(id, v) => P!InsertFails(id, v)
    /\ \A id \in Ids : Engine!Delete(id) => P!Delete(id)
    /\ \A id \in Ids : Engine!DeleteFails(id) => P!DeleteFails(id)
    /\ (Engine!Flush => P!Flush) /\ (Engine!Compact => P!Compact)
    /\ Engine!FlushWrite => P!FlushWrite
    /\ Engine!FlushLog => P!FlushLog
    /\ Engine!FlushLogFails => P!FlushLogFails
    /\ Engine!CompactWrite => P!CompactWrite
    /\ Engine!CompactRemove => P!CompactRemove
    /\ Engine!CompactFinish => P!CompactFinish
    /\ Engine!SegmentWriteFails => P!SegmentWriteFails
    /\ Engine!Crash => P!Crash
    /\ Engine!Close => P!Close
    /\ Engine!Open => P!Open
<1>1. \A id \in Ids, v \in Versions : Engine!Insert(id, v) => P!Insert(id, v)
  BY DEF Engine!Insert, P!Insert, Engine!LogInsert, P!LogInsert, Engine!WalAppend, P!WalAppend,
      Engine!WalHasRoom, P!WalHasRoom, Engine!InsertRecord, P!InsertRecord, Engine!catalog,
      P!catalog, Engine!Cardinality, P!Cardinality
<1>2. \A id \in Ids, v \in Versions : Engine!InsertFails(id, v) => P!InsertFails(id, v)
  BY DEF Engine!InsertFails, P!InsertFails, Engine!WalAppendFails, P!WalAppendFails, Engine!WalAppend,
      P!WalAppend, Engine!WalHasRoom, P!WalHasRoom, Engine!InsertRecord, P!InsertRecord,
      Engine!memTable, P!memTable, Engine!catalog, P!catalog, Engine!control, P!control
<1>3. \A id \in Ids : Engine!Delete(id) => P!Delete(id)
  BY DEF Engine!Delete, P!Delete, Engine!LogDelete, P!LogDelete, Engine!WalAppend, P!WalAppend,
      Engine!WalHasRoom, P!WalHasRoom, Engine!DeleteRecord, P!DeleteRecord, Engine!control,
      P!control
<1>4. \A id \in Ids : Engine!DeleteFails(id) => P!DeleteFails(id)
  BY DEF Engine!DeleteFails, P!DeleteFails, Engine!WalAppendFails, P!WalAppendFails, Engine!WalAppend,
      P!WalAppend, Engine!WalHasRoom, P!WalHasRoom, Engine!DeleteRecord, P!DeleteRecord,
      Engine!memTable, P!memTable, Engine!catalog, P!catalog, Engine!control, P!control
<1>5. (Engine!Flush => P!Flush) /\ (Engine!Compact => P!Compact)
  BY DEF Engine!Flush, P!Flush, Engine!Compact, P!Compact, Engine!MemDocCount, P!MemDocCount,
      Engine!Cardinality, P!Cardinality, Engine!WalHasRoom, P!WalHasRoom, Engine!disk, P!disk,
      Engine!writer, P!writer, Engine!memTable, P!memTable, Engine!catalog, P!catalog,
      Engine!history, P!history
<1>6. Engine!FlushWrite => P!FlushWrite
  BY DEF Engine!FlushWrite, P!FlushWrite, Engine!HasSegmentId, P!HasSegmentId, Engine!MemDoc, P!MemDoc,
      Engine!writer, P!writer, Engine!memTable, P!memTable, Engine!catalog, P!catalog,
      Engine!history, P!history
<1>7. Engine!FlushLog => P!FlushLog
  BY DEF Engine!FlushLog, P!FlushLog, Engine!Cardinality, P!Cardinality, Engine!WalAppend, P!WalAppend,
      Engine!FlushRecord, P!FlushRecord, Engine!Empty, P!Empty, Engine!history, P!history
<1>8. Engine!FlushLogFails => P!FlushLogFails
  BY DEF Engine!FlushLogFails, P!FlushLogFails, Engine!WalAppendFails, P!WalAppendFails,
      Engine!WalAppend, P!WalAppend, Engine!FlushRecord, P!FlushRecord, Engine!memTable, P!memTable,
      Engine!catalog, P!catalog, Engine!history, P!history
<1>9. Engine!CompactWrite => P!CompactWrite
  BY DEF Engine!CompactWrite, P!CompactWrite, Engine!HasSegmentId, P!HasSegmentId, Engine!AllDocuments,
      P!AllDocuments, Engine!MemDoc, P!MemDoc, Engine!OldestIn, P!OldestIn, Engine!Holders,
      P!Holders, Engine!Min, P!Min, Engine!writer, P!writer, Engine!memTable, P!memTable,
      Engine!history, P!history
<1>10. Engine!CompactRemove => P!CompactRemove
  BY DEF Engine!CompactRemove, P!CompactRemove, Engine!Min, P!Min, Engine!writer, P!writer,
      Engine!memTable, P!memTable, Engine!catalog, P!catalog, Engine!history, P!history
<1>11. Engine!CompactFinish => P!CompactFinish
  BY DEF Engine!CompactFinish, P!CompactFinish, Engine!CompactSwap, P!CompactSwap, Engine!Empty,
      P!Empty, Engine!history, P!history
<1>12. Engine!SegmentWriteFails => P!SegmentWriteFails
  BY DEF Engine!SegmentWriteFails, P!SegmentWriteFails, Engine!Writing, P!Writing,
      Engine!PartialSegmentWrite, P!PartialSegmentWrite, Engine!HasSegmentId, P!HasSegmentId,
      Engine!Empty, P!Empty, Engine!AllDocuments, P!AllDocuments, Engine!MemDoc, P!MemDoc,
      Engine!OldestIn, P!OldestIn, Engine!Holders, P!Holders, Engine!Min, P!Min, Engine!writer,
      P!writer, Engine!memTable, P!memTable, Engine!catalog, P!catalog, Engine!history, P!history
<1>13. Engine!Crash => P!Crash
  BY DEF Engine!Crash, P!Crash, Engine!LoseMemory, P!LoseMemory, Engine!ForgetTombstones,
      P!ForgetTombstones, Engine!Writing, P!Writing, Engine!PartialSegmentWrite,
      P!PartialSegmentWrite, Engine!HasSegmentId, P!HasSegmentId, Engine!Empty, P!Empty,
      Engine!AllDocuments, P!AllDocuments, Engine!MemDoc, P!MemDoc, Engine!OldestIn, P!OldestIn,
      Engine!Holders, P!Holders, Engine!Min, P!Min, Engine!disk, P!disk
<1>14. Engine!Close => P!Close
  BY DEF Engine!Close, P!Close, Engine!LoseMemory, P!LoseMemory, Engine!ForgetTombstones,
      P!ForgetTombstones, Engine!Empty, P!Empty
<1>15. Engine!Open => P!Open
  BY DEF Engine!Open, P!Open, Engine!OnDisk, P!OnDisk, Engine!SegmentIds, P!SegmentIds, Engine!Max,
      P!Max, Engine!ReplayDocs, P!ReplayDocs, Engine!ReplayDeleted, P!ReplayDeleted,
      Engine!LastReplayed, P!LastReplayed, Engine!Replayed, P!Replayed, Engine!disk, P!disk,
      Engine!writer, P!writer, Engine!history, P!history
<1>. QED
  BY <1>1, <1>2, <1>3, <1>4, <1>5, <1>6, <1>7, <1>8, <1>9, <1>10, <1>11, <1>12, <1>13, <1>14, <1>15


\* The same of what is read of the engine, in a state and in the next.
LEMMA EngineReads ==
    /\ Engine!Init => P!Init
    /\ P!TypeOK => Engine!TypeOK
    /\ Engine!Contents = P!Contents
    /\ Engine!Empty = P!Empty
    /\ \A id : Engine!Get(id) = P!Get(id)
    /\ \A id : Engine!WriteOnce(id) <=> P!WriteOnce(id)
    /\ Engine!AllDocuments = P!AllDocuments
    /\ Engine!AllDocuments' = P!AllDocuments'
<1>1. Engine!Init => P!Init
  BY DEF Engine!Init, P!Init, Engine!Empty, P!Empty, Engine!SegmentIds, P!SegmentIds
<1>2. P!TypeOK => Engine!TypeOK
  BY DEF Engine!TypeOK, P!TypeOK, Engine!Records, P!Records, Engine!SegmentIds, P!SegmentIds,
      Engine!Contents, P!Contents, Engine!OnDisk, P!OnDisk
<1>3. Engine!Contents = P!Contents /\ Engine!Empty = P!Empty
  BY DEF Engine!Contents, P!Contents, Engine!Empty, P!Empty
<1>4. \A id : Engine!Get(id) = P!Get(id)
  BY DEF Engine!Get, P!Get, Engine!MemDoc, P!MemDoc, Engine!NewestIn, P!NewestIn,
      Engine!Holders, P!Holders, Engine!Max, P!Max
<1>5. \A id : Engine!WriteOnce(id) <=> P!WriteOnce(id)
  BY DEF Engine!WriteOnce, P!WriteOnce
<1>6. Engine!AllDocuments = P!AllDocuments /\ Engine!AllDocuments' = P!AllDocuments'
  BY DEF Engine!AllDocuments, P!AllDocuments, Engine!MemDoc, P!MemDoc, Engine!OldestIn, P!OldestIn,
      Engine!Holders, P!Holders, Engine!Min, P!Min
<1>. QED
  BY <1>1, <1>2, <1>3, <1>4, <1>5, <1>6

\* The engine's constants are as its proofs assume, and what fails here is what
\* a document written once survives.
LEMMA EngineConstants ==
    /\ None \notin Versions
    /\ FlushThreshold \in Nat \ {0}
    /\ CompactTrigger \in Nat \ {0, 1}
    /\ WalSync \in BOOLEAN
    /\ TornAppend \in BOOLEAN
    /\ Faults \subseteq P!IOCalls
    /\ MaxRecords \in Nat
    /\ MaxSegmentId \in Nat
    /\ NoFile \notin [Ids -> Versions \cup {None}]
    /\ P!Survivable
BY CollectionAssumption DEF CollectionAssumption, P!IOCalls, P!Survivable

-----------------------------------------------------------------------------
(* The engine below the collection.                                        *)

EngineInv == P!CatalogInv /\ P!DataInv

\* What a step of the collection makes the engine do; what it refuses is noted.
EngineActs ==
    \/ \E id \in Ids, v \in Versions : P!Insert(id, v) \/ (P!InsertFails(id, v) /\ id \in refused')
    \/ \E id \in Ids : P!Delete(id) \/ P!DeleteFails(id)
    \/ P!Flush \/ P!FlushWrite \/ P!FlushLog \/ P!FlushLogFails
    \/ P!Compact \/ P!CompactWrite \/ P!CompactRemove \/ P!CompactFinish
    \/ P!SegmentWriteFails
    \/ P!Crash \/ P!Close \/ P!Open

\* Every step of the collection is one of the engine, or leaves it alone.
LEMMA EngineMoves == [Next]_vars => EngineActs \/ UNCHANGED engine
<1>1. CASE \E id \in Ids : Delete(id) \/ \E v \in Versions : Insert(id, v) \/ BatchInsert(id, v)
  BY <1>1, EngineSteps DEF Delete, Insert, BatchInsert, Store, EngineActs
<1>2. CASE Flush \/ Compact \/ EngineProceeds \/ EngineCompacted \/ EngineFails \/ Stop \/ Open
  BY <1>2, EngineSteps DEF Flush, Compact, EngineProceeds, EngineCompacted, EngineFails, Stop, Open, EngineActs
<1>3. CASE StoredOne \/ StoredOneOfBatch \/ EndBatch \/ SaveIndexInner \/ UNCHANGED vars
  BY <1>3 DEF StoredOne, StoredOneOfBatch, EndBatch, SaveIndexInner, vars
<1>. QED
  BY <1>1, <1>2, <1>3 DEF Next

\* The engine's invariants hold under the collection.
LEMMA EngineStep ==
    ASSUME EngineInv, [Next]_vars
    PROVE  EngineInv'
<1>1. EngineActs => P!IntactNext /\ P!Next
  BY DEF EngineActs, P!IntactNext, P!Next, P!Write, P!Maintenance, P!Restart
<1>2. UNCHANGED engine => UNCHANGED P!vars
  BY DEF engine, P!vars, P!disk, P!writer, P!memTable, P!catalog, P!control, P!history
<1>3. [P!IntactNext]_(P!vars) /\ [P!Next]_(P!vars)
  BY <1>1, <1>2, EngineMoves
<1>4. P!CatalogInv'
  BY <1>3, P!CatalogStep, EngineConstants DEF EngineInv
<1>5. P!DataInv'
  BY <1>3, P!DataStep, EngineConstants DEF EngineInv
<1>. QED
  BY <1>4, <1>5 DEF EngineInv

LEMMA EngineInit == Engine!Init => EngineInv
<1>1. P!Init => P!CatalogInv
  BY P!CatalogInit, EngineConstants
<1>2. P!Init => P!DataInv
  BY P!DataInit, EngineConstants
<1>. QED
  BY <1>1, <1>2, EngineReads DEF EngineInv

\* Between operations the engine answers what was written once.
LEMMA Answered ==
    ASSUME EngineInv, pc = "idle", NEW id \in Ids, P!WriteOnce(id)
    PROVE  P!Get(id) = latest[id] /\ P!AllDocuments[id] = latest[id]
<1>1. P!WriteOnceVisible
  BY P!KeptIsVisible, EngineConstants DEF EngineInv
<1>. QED
  BY <1>1 DEF P!WriteOnceVisible

\* What an open reads: of a document written once, the body it was written
\* with; of others, what the log or the files have, if anything.
LEMMA Opened ==
    ASSUME EngineInv, P!Open, segmentDeleted = {}
    PROVE  /\ P!AllDocuments' \in P!Contents
           /\ memDocs' = P!ReplayDocs(wal) /\ memDeleted' = P!ReplayDeleted(wal)
           /\ \A id \in Ids : P!WriteOnce(id) =>
                  /\ id \notin memDeleted'
                  /\ memDocs'[id] \in {None, latest[id]}
                  /\ P!Replayed(wal, id) # {} => memDocs'[id] = latest[id]
                  /\ P!AllDocuments'[id] = latest[id]
           /\ \A id \in Ids : memDocs'[id] = None =>
                  /\ P!AllDocuments'[id] # None => P!Holders(P!OnDisk, id) # {}
                  /\ P!Replayed(wal, id) # {} => id \in memDeleted'
<1>. USE DEF EngineInv, P!CatalogInv
<1>1. /\ UNCHANGED <<wal, segFiles>> /\ segments' = P!OnDisk /\ segmentDeleted' = {}
      /\ memDocs' = P!ReplayDocs(wal) /\ memDeleted' = P!ReplayDeleted(wal) /\ pc = "down"
  BY DEF P!Open, P!disk
<1>2. P!LogSound /\ P!Provenance /\ wal \in Seq(P!Records)
  BY DEF P!DataInv, P!TypeOK
<1>3. \A id \in Ids : P!OldestIn(segments, id)' = P!OldestIn(P!OnDisk, id)
  BY <1>1 DEF P!OldestIn, P!Holders
<1>4. ASSUME NEW id \in Ids
      PROVE  /\ P!OldestIn(P!OnDisk, id) \in inserted[id] \cup {None}
             /\ P!Holders(P!OnDisk, id) # {} <=> P!OldestIn(P!OnDisk, id) # None
             /\ memDocs'[id] \in inserted[id] \cup {None}
             /\ P!Kept(id) => id \notin memDeleted'
             /\ P!Kept(id) /\ P!Replayed(wal, id) # {} => memDocs'[id] # None
  <2>1. /\ P!OldestIn(P!OnDisk, id) \in inserted[id] \cup {None}
        /\ P!Holders(P!OnDisk, id) # {} => P!OldestIn(P!OnDisk, id) # None
    BY <1>2, P!SegmentReads, EngineConstants
  <2>2. P!Holders(P!OnDisk, id) = {} => P!OldestIn(P!OnDisk, id) = None
    BY DEF P!OldestIn
  <2>3. /\ memDocs'[id] \in inserted[id] \cup {None}
        /\ P!Kept(id) /\ P!Replayed(wal, id) # {} => memDocs'[id] # None
        /\ id \in memDeleted' => id \in everDeleted
    BY <1>1, <1>2, P!ReplayReads, EngineConstants
  <2>. QED
    BY <2>1, <2>2, <2>3 DEF P!Kept
<1>5. /\ P!AllDocuments' = [id \in Ids |-> P!AllDocuments'[id]]
      /\ \A id \in Ids : P!AllDocuments'[id] =
             IF id \notin memDeleted' /\ memDocs'[id] # None THEN memDocs'[id] ELSE P!OldestIn(P!OnDisk, id)
  BY <1>1, <1>3 DEF P!AllDocuments, P!MemDoc
<1>6. \A id \in Ids : inserted[id] \subseteq Versions
  BY DEF P!TypeOK
<1>7. P!AllDocuments' \in P!Contents
  BY <1>4, <1>5, <1>6 DEF P!Contents
<1>8. ASSUME NEW id \in Ids, P!WriteOnce(id)
      PROVE  /\ id \notin memDeleted'
             /\ memDocs'[id] \in {None, latest[id]}
             /\ P!Replayed(wal, id) # {} => memDocs'[id] = latest[id]
             /\ P!AllDocuments'[id] = latest[id]
  <2>1. P!Kept(id) /\ inserted[id] = {latest[id]}
    BY <1>8 DEF P!WriteOnce, P!Kept
  <2>2. P!Replayed(wal, id) # {} \/ P!Holders(P!OnDisk, id) # {}
    BY <1>1, <2>1 DEF P!DataInv, P!Located
  <2>. QED
    BY <1>4, <1>5, <2>1, <2>2
<1>9. ASSUME NEW id \in Ids, memDocs'[id] = None, P!Replayed(wal, id) # {}
      PROVE  id \in memDeleted'
  <2>1. P!Max(P!Replayed(wal, id)) \in P!Replayed(wal, id)
    <3>1. P!Replayed(wal, id) \subseteq 0 .. Len(wal) /\ Len(wal) \in Nat
      BY <1>2 DEF P!Replayed
    <3>. QED
      BY <1>9, <3>1, P!MaxOfNats, EngineConstants
  <2>. DEFINE r == P!LastReplayed(wal, id)
  <2>2. r \in P!Records /\ r.op \in {"insert", "delete"} /\ r.ver = None
    BY <1>1, <1>2, <1>9, <2>1 DEF P!Replayed, P!LastReplayed, P!ReplayDocs
  <2>. HIDE DEF r
  <2>3. r.op = "delete"
    BY <2>2, EngineConstants DEF P!Records
  <2>. QED
    BY <1>1, <1>9, <2>3 DEF P!ReplayDeleted, r
<1>. QED
  BY <1>1, <1>4, <1>5, <1>7, <1>8, <1>9

\* The engine answers, from a segment, what a scan would find of a document
\* that the MemTable does not have.
EngineHas(id) ==
    /\ pc = "compactRemove" => segFiles[nextSegmentId][id] # None
    /\ pc = "down" => P!Holders(P!OnDisk, id) # {}
    /\ pc \notin {"compactRemove", "down"} => id \notin segmentDeleted /\ P!Holders(segments, id) # {}

\* Unless it is deleted, what a scan would find in a segment it finds there
\* after the step, on either side of a compaction or of a restart.
LEMMA HasStep ==
    ASSUME EngineInv, pc = "down" => segmentDeleted = {}, EngineActs \/ UNCHANGED engine,
           NEW id \in Ids, EngineHas(id), id \in segmentDeleted' => id \in segmentDeleted
    PROVE  EngineHas(id)'
<1>. USE DEF EngineInv, P!CatalogInv
<1>1. CASE UNCHANGED <<segFiles, segments, nextSegmentId, pc>> /\ UNCHANGED segmentDeleted
  BY <1>1 DEF EngineHas, P!Holders, P!OnDisk
<1>2. CASE \/ \E i \in Ids, v \in Versions : P!Insert(i, v) \/ P!InsertFails(i, v)
           \/ \E i \in Ids : P!Delete(i) \/ P!DeleteFails(i)
           \/ P!Flush \/ P!FlushLogFails \/ P!Compact
  <2>1. UNCHANGED <<segFiles, segments, nextSegmentId>> /\ pc \notin {"compactRemove", "down"}
        /\ pc' \notin {"compactRemove", "down"}
    BY <1>2 DEF P!Insert, P!InsertFails, P!Delete, P!DeleteFails, P!Flush, P!FlushLogFails, P!Compact,
       P!disk, P!catalog, P!control
  <2>2. id \notin segmentDeleted'
    BY <2>1 DEF EngineHas
  <2>. QED
    BY <2>1, <2>2 DEF EngineHas, P!Holders
<1>3. ASSUME pc \notin {"compactRemove", "down"}, pc' \notin {"compactRemove", "down"},
             UNCHANGED segmentDeleted, segments \subseteq segments',
             \A s \in segments : segFiles'[s] = segFiles[s]
      PROVE  EngineHas(id)'
  BY <1>3 DEF EngineHas, P!Holders
<1>4. nextSegmentId \notin segments
  BY DEF P!TypeOK, P!SegmentIdsFresh, P!Phases
<1>5. ASSUME NEW left, segFiles' = [segFiles EXCEPT ![nextSegmentId] = left]
      PROVE  \A s \in P!SegmentIds : s # nextSegmentId => segFiles'[s] = segFiles[s]
  BY <1>5 DEF P!TypeOK
<1>6. segments \subseteq P!SegmentIds
  BY DEF P!TypeOK, P!OnDisk
<1>7. CASE P!FlushWrite \/ P!FlushLog
  BY <1>3, <1>4, <1>5, <1>6, <1>7 DEF P!FlushWrite, P!FlushLog, P!catalog
<1>8. CASE P!SegmentWriteFails
  BY <1>3, <1>4, <1>5, <1>6, <1>8 DEF P!SegmentWriteFails, P!Writing, P!PartialSegmentWrite, P!catalog
<1>9. CASE P!CompactWrite
  <2>1. P!AllDocuments[id] # None
    <3>1. P!OldestIn(segments, id) # None /\ id \notin segmentDeleted
      BY <1>9, P!SegmentReads, EngineConstants DEF P!CompactWrite, EngineHas, P!DataInv, P!TypeOK
    <3>. QED
      BY <3>1 DEF P!AllDocuments
  <2>2. nextSegmentId \in P!SegmentIds
    BY <1>9, P!ConstantTypes, EngineConstants DEF P!CompactWrite, P!HasSegmentId, P!TypeOK
  <2>3. segFiles'[nextSegmentId] = P!AllDocuments /\ nextSegmentId' = nextSegmentId /\ pc' = "compactRemove"
    BY <1>9, <2>2 DEF P!CompactWrite, P!TypeOK
  <2>. QED
    BY <2>1, <2>3 DEF EngineHas
<1>10. CASE P!CompactRemove
  <2>1. P!Min(doomed) \in doomed
    <3>1. doomed \subseteq Nat /\ doomed # {}
      BY <1>10, P!ConstantTypes, EngineConstants DEF P!CompactRemove, P!TypeOK, P!OnDisk
    <3>. QED
      BY <3>1, P!MinOfNats, EngineConstants
  <2>2. \A s \in doomed : s # nextSegmentId
    BY <1>10 DEF P!CompactRemove, P!TypeOK, P!SegmentIdsFresh
  <2>3. segFiles'[nextSegmentId] = segFiles[nextSegmentId]
    BY <1>10, <2>1, <2>2 DEF P!CompactRemove, P!TypeOK, P!Phases, P!OnDisk
  <2>4. UNCHANGED <<nextSegmentId, pc>> /\ pc = "compactRemove"
    BY <1>10 DEF P!CompactRemove, P!catalog
  <2>. QED
    BY <2>3, <2>4 DEF EngineHas
<1>11. CASE P!CompactFinish
  BY <1>11 DEF P!CompactFinish, P!CompactSwap, EngineHas, P!Holders
<1>12. CASE P!Crash \/ P!Close
  <2>1. pc # "down" /\ pc' = "down"
    BY <1>12 DEF P!Crash, P!Close, P!LoseMemory
  <2>2. UNCHANGED segFiles \/ (P!Writing /\ P!PartialSegmentWrite)
    BY <1>12 DEF P!Crash, P!Close, P!disk
  <2>3. PICK s \in P!OnDisk : segFiles[s][id] # None /\ (UNCHANGED segFiles \/ s # nextSegmentId)
    <3>1. CASE pc = "compactRemove"
      BY <2>2, <3>1 DEF P!Writing, EngineHas, P!Phases
    <3>2. CASE pc # "compactRemove"
      BY <1>4, <2>1, <3>2 DEF EngineHas, P!Holders, P!TypeOK
    <3>. QED
      BY <3>1, <3>2
  <2>4. segFiles'[s] = segFiles[s]
    BY <1>5, <2>2, <2>3 DEF P!PartialSegmentWrite, P!OnDisk
  <2>5. s \in P!OnDisk'
    BY <2>4 DEF P!OnDisk
  <2>. QED
    BY <2>1, <2>3, <2>4, <2>5 DEF EngineHas, P!Holders
<1>13. CASE P!Open
  BY <1>13 DEF P!Open, P!disk, EngineHas, P!Holders
<1>14. CASE UNCHANGED engine
  BY <1>1, <1>14 DEF engine
<1>. QED
  BY <1>2, <1>7, <1>8, <1>9, <1>10, <1>11, <1>12, <1>13, <1>14 DEF EngineActs

\* A record appended behind two logs is appended to the second.
LEMMA AppendConcat ==
    ASSUME NEW w \in Seq(P!Records), NEW b \in Seq(P!Records), NEW r \in P!Records
    PROVE  Append(w \o b, r) = w \o Append(b, r) /\ Append(b, r) \in Seq(P!Records)
OBVIOUS

\* What a step does to the log and to what the writer has not yet written.
LogsAfter(r) ==
    \/ wal' = Append(wal \o walBuffer, r) /\ walBuffer' = <<>>
    \/ wal' = wal /\ walBuffer' = Append(walBuffer, r)

LEMMA Logging ==
    ASSUME EngineInv, EngineActs \/ UNCHANGED engine
    PROVE  \/ wal' = wal /\ walBuffer' \in {walBuffer, <<>>}
           \/ wal' = wal \o walBuffer /\ walBuffer' = <<>>
           \/ P!CompactFinish /\ wal' = <<>> /\ walBuffer' = <<>>
           \/ LogsAfter(P!FlushRecord)
           \/ \E id \in Ids, v \in Versions :
                 /\ P!Insert(id, v) \/ (P!InsertFails(id, v) /\ id \in refused')
                 /\ LogsAfter(P!InsertRecord(id, v))
           \/ \E id \in Ids : (P!Delete(id) \/ P!DeleteFails(id)) /\ LogsAfter(P!DeleteRecord(id))
<1>1. walLinked = TRUE
  BY DEF EngineInv, P!DataInv, P!LogSound
<1>2. \A r : P!WalAppend(r) \/ P!WalAppendFails(r) => LogsAfter(r)
  BY <1>1 DEF P!WalAppend, P!WalAppendFails, LogsAfter
<1>3. ASSUME NEW id \in Ids, NEW v \in Versions, P!Insert(id, v) \/ P!InsertFails(id, v)
      PROVE  LogsAfter(P!InsertRecord(id, v))
  BY <1>2, <1>3 DEF P!Insert, P!InsertFails
<1>4. ASSUME NEW id \in Ids, P!Delete(id) \/ P!DeleteFails(id)
      PROVE  LogsAfter(P!DeleteRecord(id))
  BY <1>2, <1>4 DEF P!Delete, P!DeleteFails
<1>5. CASE P!FlushLog \/ P!FlushLogFails
  BY <1>2, <1>5, EngineConstants DEF P!FlushLog, P!FlushLogFails, P!Survivable
<1>6. CASE P!Flush \/ P!FlushWrite \/ P!Compact \/ P!CompactWrite \/ P!CompactRemove \/ P!SegmentWriteFails
           \/ P!Open \/ UNCHANGED engine
  BY <1>6 DEF P!Flush, P!FlushWrite, P!Compact, P!CompactWrite, P!CompactRemove, P!SegmentWriteFails, P!Open,
     P!disk, P!writer, engine
<1>7. CASE P!CompactFinish
  BY <1>7, CollectionAssumption DEF P!CompactFinish, CollectionAssumption
<1>8. CASE P!Crash \/ P!Close
  BY <1>1, <1>8 DEF P!Crash, P!Close, P!LoseMemory, P!disk
<1>. QED
  BY <1>3, <1>4, <1>5, <1>6, <1>7, <1>8 DEF EngineActs

\* The log loses no record before a compaction, and has one of an accepted
\* operation.
LEMMA LogGrows ==
    ASSUME EngineInv, EngineActs \/ UNCHANGED engine, NEW id \in Ids
    PROVE  /\ P!Replayed(wal, id) # {} => P!CompactFinish \/ P!Replayed(wal', id) # {}
           /\ (\E v \in Versions : P!Insert(id, v)) \/ P!Delete(id) => P!Replayed(wal', id) # {}
<1>1. P!LogSound /\ P!TypeOK
  BY DEF EngineInv, P!DataInv, P!CatalogInv
<1>2. /\ wal \in Seq(P!Records) /\ walBuffer \in Seq(P!Records)
      /\ \A i \in Ids : P!DeleteRecord(i) \in P!Records
      /\ \A i \in Ids, v \in Versions : P!InsertRecord(i, v) \in P!Records
      /\ P!FlushRecord \in P!Records
  BY <1>1, P!RecordTypes, EngineConstants DEF P!TypeOK
<1>3. (\E v \in Versions : P!Insert(id, v)) \/ P!Delete(id) => P!Replayed(wal', id) # {}
  <2>1. ASSUME NEW v \in Versions, P!Insert(id, v) PROVE P!Replayed(wal', id) # {}
    <3>. DEFINE r == P!InsertRecord(id, v)
    <3>1. r \in P!Records /\ r.op = "insert" /\ r.id = id /\ r.ver = v
      BY <1>2 DEF P!InsertRecord
    <3>2. P!WalAppend(r) /\ v \in inserted'[id] /\ everDeleted' = everDeleted
          /\ \A i \in Ids : inserted[i] \subseteq inserted'[i]
      BY <1>1, <2>1 DEF P!Insert, P!LogInsert, P!TypeOK
    <3>. HIDE DEF r
    <3>. QED
      BY <1>1, <3>1, <3>2, P!SoundLogging, EngineConstants
  <2>2. ASSUME P!Delete(id) PROVE P!Replayed(wal', id) # {}
    <3>. DEFINE r == P!DeleteRecord(id)
    <3>1. r \in P!Records /\ r.op = "delete" /\ r.id = id
      BY <1>2 DEF P!DeleteRecord
    <3>2. P!WalAppend(r) /\ inserted' = inserted /\ everDeleted' = everDeleted \cup {id}
      BY <2>2 DEF P!Delete, P!LogDelete
    <3>. HIDE DEF r
    <3>. QED
      BY <1>1, <3>1, <3>2, P!SoundLogging, EngineConstants
  <2>. QED
    BY <2>1, <2>2
<1>4. ASSUME P!Replayed(wal, id) # {}, ~ P!CompactFinish PROVE P!Replayed(wal', id) # {}
  <2>1. ASSUME NEW b \in Seq(P!Records), wal' = wal \o b PROVE P!Replayed(wal', id) # {}
    BY <1>2, <1>4, <2>1, P!ReplayedGrows, EngineConstants
  <2>2. ASSUME NEW r \in P!Records, LogsAfter(r) PROVE P!Replayed(wal', id) # {}
    <3>1. Append(wal \o walBuffer, r) = wal \o Append(walBuffer, r) /\ Append(walBuffer, r) \in Seq(P!Records)
      BY <1>2, <2>2, AppendConcat
    <3>. QED
      BY <1>4, <2>1, <2>2, <3>1 DEF LogsAfter
  <2>. QED
    BY <1>2, <1>4, <2>1, <2>2, Logging
<1>. QED
  BY <1>3, <1>4

\* A document that is deleted, if it is, is deleted in the log too: no insert
\* of it is left in the writer.
Unrefused(id) ==
    /\ P!NoInsertOf(walBuffer, id)
    /\ latest[id] = None => memDocs[id] = None /\ P!ReplayDocs(wal)[id] = None

\* It stays so unless an insert of it is refused.
LEMMA UnrefusedStep ==
    ASSUME EngineInv, EngineActs \/ UNCHANGED engine,
           NEW id \in Ids, Unrefused(id), id \notin refused'
    PROVE  Unrefused(id)'
<1>1. P!LogSound /\ P!TypeOK
  BY DEF EngineInv, P!DataInv, P!CatalogInv
<1>2. /\ wal \in Seq(P!Records) /\ walBuffer \in Seq(P!Records)
      /\ \A i \in Ids : P!DeleteRecord(i) \in P!Records
      /\ \A i \in Ids, v \in Versions : P!InsertRecord(i, v) \in P!Records
      /\ P!FlushRecord \in P!Records
  BY <1>1, P!RecordTypes, EngineConstants DEF P!TypeOK
<1>3. P!NoInsertOf(<<>>, id)
  BY DEF P!NoInsertOf
<1>4. P!NoInsertOf(walBuffer', id)
  <2>1. ASSUME NEW r \in P!Records, r.op = "insert" => r.id # id, LogsAfter(r)
        PROVE  P!NoInsertOf(walBuffer', id)
    <3>1. P!NoInsertOf(Append(walBuffer, r), id)
      BY <1>2, <2>1, P!NoInsertAppend, EngineConstants DEF Unrefused
    <3>. QED
      BY <1>3, <2>1, <3>1 DEF LogsAfter
  <2>2. /\ P!FlushRecord.op = "flush"
        /\ \A i : P!DeleteRecord(i).op = "delete"
        /\ \A i, v : P!InsertRecord(i, v).id = i
    BY DEF P!FlushRecord, P!DeleteRecord, P!InsertRecord
  <2>3. ASSUME NEW v \in Versions, P!Insert(id, v) PROVE walBuffer' = <<>>
    BY <2>3 DEF P!Insert, P!WalAppend
  <2>. QED
    BY <1>2, <1>3, <2>1, <2>2, <2>3, Logging DEF Unrefused
<1>5. ASSUME latest[id] = None, \A v \in Versions : ~ P!Insert(id, v)
      PROVE  P!ReplayDocs(wal')[id] = None
  <2>1. ASSUME NEW b \in Seq(P!Records), P!NoInsertOf(b, id), wal' = wal \o b
        PROVE  P!ReplayDocs(wal')[id] = None
    BY <1>2, <1>5, <2>1, P!NoInsertConcat, EngineConstants DEF Unrefused
  <2>2. ASSUME NEW r \in P!Records, r.op = "insert" => r.id # id, LogsAfter(r)
        PROVE  P!ReplayDocs(wal')[id] = None
    <3>1. Append(wal \o walBuffer, r) = wal \o Append(walBuffer, r) /\ Append(walBuffer, r) \in Seq(P!Records)
      BY <1>2, <2>2, AppendConcat
    <3>2. P!NoInsertOf(Append(walBuffer, r), id)
      BY <1>2, <2>2, P!NoInsertAppend, EngineConstants DEF Unrefused
    <3>. QED
      BY <1>5, <2>1, <2>2, <3>1, <3>2 DEF LogsAfter, Unrefused
  <2>3. P!ReplayDocs(<<>>)[id] = None
    BY DEF P!ReplayDocs, P!Replayed
  <2>4. /\ P!FlushRecord.op = "flush"
        /\ \A i : P!DeleteRecord(i).op = "delete"
        /\ \A i, v : P!InsertRecord(i, v).id = i
    BY DEF P!FlushRecord, P!DeleteRecord, P!InsertRecord
  <2>5. ASSUME NEW i \in Ids, NEW v \in Versions, P!Insert(i, v) \/ (P!InsertFails(i, v) /\ i \in refused'),
               LogsAfter(P!InsertRecord(i, v))
        PROVE  P!ReplayDocs(wal')[id] = None
    BY <1>2, <1>5, <2>2, <2>4, <2>5
  <2>6. ASSUME NEW i \in Ids, LogsAfter(P!DeleteRecord(i))
        PROVE  P!ReplayDocs(wal')[id] = None
    BY <1>2, <2>2, <2>4, <2>6
  <2>7. CASE LogsAfter(P!FlushRecord)
    BY <1>2, <2>2, <2>4, <2>7
  <2>. QED
    BY <1>2, <1>5, <2>1, <2>3, <2>5, <2>6, <2>7, Logging DEF Unrefused
<1>6. ASSUME P!Delete(id) PROVE P!ReplayDocs(wal')[id] = None
  <2>. DEFINE r == P!DeleteRecord(id)
              c == wal \o walBuffer
  <2>1. r \in P!Records /\ r.op = "delete" /\ r.id = id /\ r.ver = None
    BY <1>2 DEF P!DeleteRecord
  <2>2. c \in Seq(P!Records) /\ P!Sound(c, inserted, everDeleted)
    BY <1>1, <1>2, P!SoundConcat, EngineConstants DEF P!LogSound
  <2>3. wal' = Append(c, r)
    BY <1>1, <1>6 DEF P!Delete, P!WalAppend, P!LogSound
  <2>. HIDE DEF r, c
  <2>4. P!Untorn(c)
    BY <2>2 DEF P!Sound, P!Untorn
  <2>5. P!Replayed(Append(c, r), id) # {} /\ P!LastReplayed(Append(c, r), id) = r
    BY <2>1, <2>2, <2>4, P!ReplaySame, EngineConstants
  <2>. QED
    BY <2>1, <2>3, <2>5 DEF P!ReplayDocs
<1>7. ASSUME latest'[id] = None
      PROVE  memDocs'[id] = None /\ P!ReplayDocs(wal')[id] = None
  <2>1. CASE P!Delete(id)
    <3>1. memDocs'[id] = None
      BY <1>1, <2>1 DEF P!Delete, P!TypeOK, P!Contents
    <3>. QED
      BY <1>6, <2>1, <3>1
  <2>2. ASSUME NEW v \in Versions, P!Insert(id, v) PROVE FALSE
    BY <1>1, <1>7, <2>2, EngineConstants DEF P!Insert, P!LogInsert, P!TypeOK, P!Contents
  <2>3. CASE ~ P!Delete(id)
    <3>1. latest[id] = None /\ (memDocs'[id] \in {None, memDocs[id]} \/ memDocs' = P!ReplayDocs(wal))
      <4>1. ASSUME NEW i \in Ids, NEW v \in Versions, P!Insert(i, v)
            PROVE  latest[id] = latest'[id] /\ memDocs'[id] = memDocs[id]
        BY <1>1, <2>2, <4>1 DEF P!Insert, P!LogInsert, P!TypeOK, P!Contents
      <4>2. ASSUME NEW i \in Ids, P!Delete(i)
            PROVE  latest[id] = latest'[id] /\ memDocs'[id] = memDocs[id]
        BY <1>1, <2>3, <4>2 DEF P!Delete, P!LogDelete, P!TypeOK, P!Contents
      <4>3. CASE UNCHANGED latest /\ memDocs' \in {memDocs, P!Empty, P!ReplayDocs(wal)}
        BY <1>7, <4>3 DEF P!Empty
      <4>4. ASSUME NEW i \in Ids, P!DeleteFails(i) \/ \E v \in Versions : P!InsertFails(i, v)
            PROVE  UNCHANGED latest /\ memDocs' = memDocs
        BY <4>4 DEF P!DeleteFails, P!InsertFails, P!memTable
      <4>5. CASE P!Flush \/ P!FlushWrite \/ P!FlushLog \/ P!FlushLogFails \/ P!Compact \/ P!CompactWrite
                 \/ P!CompactRemove \/ P!CompactFinish \/ P!SegmentWriteFails \/ P!Crash \/ P!Close \/ P!Open
                 \/ UNCHANGED engine
        BY <4>3, <4>5 DEF P!Flush, P!FlushWrite, P!FlushLog, P!FlushLogFails, P!Compact, P!CompactWrite,
           P!CompactRemove, P!CompactFinish, P!CompactSwap, P!SegmentWriteFails, P!Crash, P!Close, P!Open,
           P!LoseMemory, P!ForgetTombstones, P!memTable, P!history, engine
      <4>. QED
        BY <1>7, <4>1, <4>2, <4>4, <4>5 DEF EngineActs
    <3>. QED
      BY <1>5, <2>2, <3>1 DEF Unrefused
  <2>. QED
    BY <2>1, <2>3
<1>. QED
  BY <1>4, <1>7 DEF Unrefused

\* An operation on a document is logged, or moves nothing of it: neither what
\* the history says it is, nor whether it is hidden.
LEMMA Moves ==
    ASSUME EngineInv, EngineActs \/ UNCHANGED engine, NEW id \in Ids
    PROVE  \/ P!Replayed(wal', id) # {}
           \/ /\ latest'[id] = latest[id]
              /\ id \in segmentDeleted' => id \in segmentDeleted
              /\ P!WriteOnce(id)' => P!WriteOnce(id)
<1>1. P!TypeOK /\ P!Provenance
  BY DEF EngineInv, P!CatalogInv, P!DataInv
<1>2. CASE (\E v \in Versions : P!Insert(id, v)) \/ P!Delete(id)
  BY <1>2, LogGrows
<1>3. ASSUME NEW i \in Ids \ {id}, (\E v \in Versions : P!Insert(i, v)) \/ P!Delete(i)
      PROVE  /\ latest'[id] = latest[id] /\ inserted'[id] = inserted[id] /\ everDeleted \subseteq everDeleted'
             /\ id \in segmentDeleted' => id \in segmentDeleted
  BY <1>1, <1>3 DEF P!Insert, P!Delete, P!LogInsert, P!LogDelete, P!TypeOK, P!Contents, P!catalog
<1>4. ASSUME NEW i \in Ids, (\E v \in Versions : P!InsertFails(i, v)) \/ P!DeleteFails(i)
      PROVE  UNCHANGED latest /\ UNCHANGED segmentDeleted /\ inserted[id] \subseteq inserted'[id]
             /\ everDeleted \subseteq everDeleted'
  BY <1>1, <1>4 DEF P!InsertFails, P!DeleteFails, P!TypeOK, P!catalog
<1>5. CASE P!Flush \/ P!FlushWrite \/ P!FlushLog \/ P!FlushLogFails \/ P!Compact \/ P!CompactWrite
           \/ P!CompactRemove \/ P!CompactFinish \/ P!SegmentWriteFails \/ P!Crash \/ P!Close \/ P!Open
           \/ UNCHANGED engine
  <2>1. UNCHANGED <<latest, inserted, everDeleted>> /\ segmentDeleted' \subseteq segmentDeleted
    BY <1>5 DEF P!Flush, P!FlushWrite, P!FlushLog, P!FlushLogFails, P!Compact, P!CompactWrite, P!CompactRemove,
       P!CompactFinish, P!CompactSwap, P!SegmentWriteFails, P!Crash, P!Close, P!Open, P!LoseMemory,
       P!ForgetTombstones, P!catalog, P!history, engine
  <2>. QED
    BY <2>1 DEF P!WriteOnce
<1>6. ASSUME latest'[id] = latest[id], inserted[id] \subseteq inserted'[id], everDeleted \subseteq everDeleted'
      PROVE  P!WriteOnce(id)' => P!WriteOnce(id)
  BY <1>1, <1>6 DEF P!WriteOnce, P!Provenance
<1>. QED
  BY <1>2, <1>3, <1>4, <1>5, <1>6 DEF EngineActs

-----------------------------------------------------------------------------
(* The collection's types.                                                 *)

\* The types of the collection's own state.
IndexTypeOK ==
    /\ vectors \in P!Contents
    /\ text \in P!Contents
    /\ kind \in {"flat", "upgraded"}
    /\ indexFile \in [vectors : P!Contents, kind : {"flat", "upgraded"}, text : P!Contents] \cup {NoIndex}
    /\ at \in {"down", "idle", "insert", "batch", "nextOfBatch", "save"}
    /\ segmentsBefore \in Nat
    /\ unsaved \in BOOLEAN /\ lost \in BOOLEAN
    /\ refused \subseteq Ids
    /\ failures \in 0 .. MaxFailures

\* A collection that is closed has no engine, hides nothing and owes no save.
Closed ==
    /\ at = "down" <=> pc = "down"
    /\ pc = "down" => segmentDeleted = {} /\ ~unsaved

TypeInv == EngineInv /\ IndexTypeOK /\ Closed

LEMMA TypesAgree ==
    /\ NoIndex \notin [vectors : P!Contents, kind : {"flat", "upgraded"}, text : P!Contents]
    /\ TypeInv => TypeOK
<1>1. Indexes = [vectors : P!Contents, kind : {"flat", "upgraded"}, text : P!Contents]
  BY EngineReads DEF Indexes
<1>2. NoIndex \notin Indexes
  BY CollectionAssumption DEF CollectionAssumption
<1>. QED
  BY <1>1, <1>2, EngineReads DEF TypeInv, IndexTypeOK, TypeOK, EngineInv, P!CatalogInv

\* Every count of open segments is a natural number.
LEMMA CountTypes == ASSUME P!TypeOK PROVE SegmentCount \in Nat
<1>1. segments \subseteq 0 .. MaxSegmentId /\ MaxSegmentId \in Nat
  BY P!ConstantTypes, EngineConstants DEF P!TypeOK, P!OnDisk
<1>2. IsFiniteSet(0 .. MaxSegmentId)
  BY <1>1, FS_Interval
<1>3. IsFiniteSet(segments)
  BY <1>1, <1>2, FS_Subset
<1>. QED
  BY <1>3, FS_CardinalityType DEF SegmentCount

\* A closed collection is closed after the step that closes it, and no other.
LEMMA ClosedStep ==
    ASSUME TypeInv, [Next]_vars
    PROVE  Closed'
<1>. USE DEF TypeInv, Closed
<1>1. CASE \E id \in Ids : Delete(id) \/ \E v \in Versions : Insert(id, v) \/ BatchInsert(id, v)
  <2>1. at' # "down" /\ pc # "down" /\ pc' # "down"
    <3>1. ASSUME NEW id \in Ids, NEW v \in Versions, Insert(id, v) \/ BatchInsert(id, v)
          PROVE  at' # "down" /\ pc' # "down"
      BY <3>1, EngineSteps DEF Insert, BatchInsert, Store, P!Insert, P!InsertFails, P!control
    <3>2. ASSUME NEW id \in Ids, Delete(id)
          PROVE  at' # "down" /\ pc' # "down"
      BY <3>2, EngineSteps DEF Delete, P!Delete, P!DeleteFails, P!control
    <3>. QED
      BY <1>1, <3>1, <3>2 DEF Insert, BatchInsert, Delete
  <2>. QED
    BY <2>1
<1>2. CASE StoredOne \/ StoredOneOfBatch \/ EndBatch \/ SaveIndexInner \/ UNCHANGED vars
  BY <1>2 DEF StoredOne, StoredOneOfBatch, EndBatch, SaveIndexInner, SaveOrReturn, Ready, vars, engine, record
<1>3. CASE Flush \/ Compact \/ EngineProceeds \/ EngineCompacted \/ EngineFails
  <2>1. pc # "down" /\ pc' # "down" /\ (at' = at \/ at' = "idle")
    BY <1>3, EngineSteps DEF Flush, Compact, EngineProceeds, EngineCompacted, EngineFails, P!Flush, P!Compact,
       P!FlushWrite, P!FlushLog, P!CompactWrite, P!CompactRemove, P!CompactFinish, P!FlushLogFails,
       P!SegmentWriteFails, P!Writing
  <2>. QED
    BY <2>1
<1>4. CASE Stop
  BY <1>4, EngineSteps DEF Stop, P!Crash, P!Close, P!LoseMemory
<1>5. CASE Open
  BY <1>5, EngineSteps DEF Open, P!Open
<1>. QED
  BY <1>1, <1>2, <1>3, <1>4, <1>5 DEF Next

\* The collection's state keeps its types.
LEMMA IndexTypeStep ==
    ASSUME TypeInv, [Next]_vars
    PROVE  IndexTypeOK'
<1>. USE DEF TypeInv, IndexTypeOK
<1>1. P!AllDocuments \in P!Contents /\ SegmentCount \in Nat /\ Engine!AllDocuments = P!AllDocuments
  BY P!ContentsTypes, CountTypes, EngineConstants, EngineReads DEF EngineInv, P!CatalogInv
<1>2. failures \in Nat /\ (Fail => failures' \in 0 .. MaxFailures)
  BY CollectionAssumption DEF CollectionAssumption, Fail
<1>3. ASSUME NEW id \in Ids, NEW v \in Versions, Insert(id, v) \/ BatchInsert(id, v) PROVE IndexTypeOK'
  BY <1>1, <1>2, <1>3 DEF Insert, BatchInsert, Store, IndexDocument, P!Contents
<1>4. ASSUME NEW id \in Ids, Delete(id) PROVE IndexTypeOK'
  BY <1>1, <1>2, <1>4 DEF Delete, Unindex, P!Contents
<1>5. CASE StoredOne \/ StoredOneOfBatch \/ EndBatch
  BY <1>1, <1>5 DEF StoredOne, StoredOneOfBatch, EndBatch, SaveOrReturn, MaybeUpgrade, indexes, record
<1>6. CASE SaveIndexInner
  BY <1>6 DEF SaveIndexInner, WriteIndexFile, indexes
<1>7. CASE Flush \/ Compact \/ EngineProceeds \/ EngineCompacted \/ EngineFails \/ UNCHANGED vars
  BY <1>2, <1>7 DEF Flush, Compact, EngineProceeds, EngineCompacted, EngineFails, indexes, record, vars
<1>8. CASE Stop
  BY <1>8, EngineReads DEF Stop, Empty, P!Empty, P!Contents
<1>9. CASE Open
  <2>1. P!AllDocuments' \in P!Contents /\ Engine!AllDocuments' = P!AllDocuments' /\ P!TypeOK'
    BY <1>9, Opened, EngineReads, EngineSteps, EngineStep DEF Open, Closed, P!Open, Next, EngineInv, P!CatalogInv
  <2>2. ASSUME NEW index \in P!Contents
        PROVE  [id \in Ids |-> IF id \in memDeleted' THEN None
                               ELSE IF memDocs'[id] # None THEN memDocs'[id] ELSE index[id]] \in P!Contents
    BY <2>1 DEF P!TypeOK, P!Contents
  <2>3. vectors' \in P!Contents /\ text' \in P!Contents /\ kind' \in {"flat", "upgraded"}
    <3>1. CASE Rebuild
      BY <2>1, <3>1 DEF Rebuild
    <3>2. CASE Load
      <4>1. indexFile' = indexFile /\ indexFile.vectors \in P!Contents /\ indexFile.text \in P!Contents
            /\ indexFile.kind \in {"flat", "upgraded"}
        BY <1>9, <3>2 DEF Load, Open
      <4>. QED
        BY <2>1, <2>2, <3>2, <4>1 DEF Load, CatchUp
    <3>. QED
      BY <1>9, <3>1, <3>2 DEF Open
  <2>. QED
    BY <1>9, <2>3 DEF Open, record
<1>. QED
  BY <1>3, <1>4, <1>5, <1>6, <1>7, <1>8, <1>9 DEF Next

LEMMA TypeStep == TypeInv /\ [Next]_vars => TypeInv'
BY EngineStep, IndexTypeStep, ClosedStep DEF TypeInv

LEMMA TypeInit == Init => TypeInv
<1>1. Init => EngineInv /\ Closed
  BY EngineInit, EngineReads DEF Init, Closed, P!Init
<1>2. Empty \in P!Contents /\ MaxFailures \in Nat
  BY EngineReads, CollectionAssumption DEF Empty, P!Empty, P!Contents, CollectionAssumption
<1>3. ASSUME Init PROVE IndexTypeOK
  <2>1. vectors \in P!Contents /\ text \in P!Contents
    BY <1>2, <1>3 DEF Init
  <2>2. failures \in 0 .. MaxFailures /\ segmentsBefore \in Nat
    BY <1>2, <1>3 DEF Init
  <2>. QED
    BY <1>3, <2>1, <2>2 DEF Init, IndexTypeOK
<1>. QED
  BY <1>1, <1>3 DEF TypeInv

\* The types hold in every reachable state of a collection.
THEOREM CollectionTypeCorrect == Spec => []TypeOK
<1>1. TypeInv => TypeOK
  BY TypesAgree
<1>. QED
  BY <1>1, TypeInit, TypeStep, PTL DEF Spec

-----------------------------------------------------------------------------
(* What the indexes hold.                                                  *)

\* An open collection has in both indexes what was written once.
Current == at # "down" /\ ~lost => \A id \in Ids : P!WriteOnce(id) =>
    vectors[id] = latest[id] /\ text[id] = latest[id]

\* What was written once and the index file lacks is in the log, until a
\* compaction empties it.
FileCurrent == ~lost /\ ~unsaved /\ indexFile # NoIndex => \A id \in Ids : P!WriteOnce(id) =>
    \/ P!Replayed(wal, id) # {}
    \/ indexFile.vectors[id] = latest[id] /\ indexFile.text[id] = latest[id]

UnrefusedLog == \A id \in Ids : id \in refused \/ Unrefused(id)

\* A deleted document that an index holds is one the engine has brought back.
Deleted == at # "down" /\ ~lost => \A id \in Ids \ refused :
    latest[id] = None /\ (vectors[id] # None \/ text[id] # None) => EngineHas(id)

\* A deleted document that the index file holds is deleted in the log, or is
\* one the engine has brought back.
FileDeleted == ~lost /\ ~unsaved /\ indexFile # NoIndex => \A id \in Ids \ refused :
    latest[id] = None /\ (indexFile.vectors[id] # None \/ indexFile.text[id] # None)
        => P!Replayed(wal, id) # {} \/ EngineHas(id)

SearchInv == Current /\ FileCurrent /\ UnrefusedLog /\ Deleted /\ FileDeleted

\* The index file is written by a save alone; what else a step does to the
\* history of saves and losses.
LEMMA FileKept ==
    ASSUME TypeInv, Next, ~lost', ~unsaved', ~ SaveIndexInner
    PROVE  /\ indexFile' = indexFile /\ ~lost
           /\ indexFile # NoIndex => ~unsaved /\ ~ P!CompactFinish
<1>1. CASE Stop
  <2>1. pc' = "down" /\ (indexFile # NoIndex => ~unsaved) /\ ~lost /\ indexFile' = indexFile
    BY <1>1, EngineSteps DEF Stop, P!Crash, P!Close, P!LoseMemory
  <2>. QED
    BY <2>1 DEF P!CompactFinish
<1>2. CASE EngineCompacted
  BY <1>2 DEF EngineCompacted
<1>3. CASE \E id \in Ids : Delete(id) \/ \E v \in Versions : Insert(id, v) \/ BatchInsert(id, v)
  <2>1. UNCHANGED <<indexFile, unsaved, lost>>
    BY <1>3 DEF Delete, Insert, BatchInsert
  <2>2. pc = "idle"
    BY <1>3, EngineSteps DEF Delete, Insert, BatchInsert, Store, P!Insert, P!InsertFails, P!Delete, P!DeleteFails
  <2>. QED
    BY <2>1, <2>2 DEF P!CompactFinish
<1>4. CASE StoredOne \/ StoredOneOfBatch \/ EndBatch
  <2>1. UNCHANGED <<indexFile, unsaved, lost, pc>>
    BY <1>4 DEF StoredOne, StoredOneOfBatch, EndBatch, record, engine
  <2>. QED
    BY <2>1 DEF P!CompactFinish
<1>5. CASE Flush \/ Compact \/ EngineProceeds \/ EngineFails
  <2>1. UNCHANGED <<indexFile, unsaved, lost>>
    BY <1>5 DEF Flush, Compact, EngineProceeds, EngineFails, record
  <2>2. pc # "compactRemove" \/ doomed # {}
    BY <1>5, EngineSteps DEF Flush, Compact, EngineProceeds, EngineFails, P!Flush, P!Compact, P!FlushWrite,
       P!FlushLog, P!CompactWrite, P!CompactRemove, P!FlushLogFails, P!SegmentWriteFails, P!Writing
  <2>. QED
    BY <2>1, <2>2 DEF P!CompactFinish
<1>6. CASE Open
  <2>1. UNCHANGED <<indexFile, unsaved, lost>> /\ pc = "down"
    BY <1>6, EngineSteps DEF Open, record, P!Open
  <2>. QED
    BY <2>1 DEF P!CompactFinish
<1>. QED
  BY <1>1, <1>2, <1>3, <1>4, <1>5, <1>6 DEF Next

\* The file stays current.
LEMMA FileCurrentStep ==
    ASSUME TypeInv, SearchInv, [Next]_vars
    PROVE  FileCurrent'
<1>. USE DEF TypeInv
<1>. SUFFICES ASSUME ~lost', ~unsaved', indexFile' # NoIndex, NEW id \in Ids, P!WriteOnce(id)'
              PROVE  \/ P!Replayed(wal', id) # {}
                     \/ indexFile'.vectors[id] = latest'[id] /\ indexFile'.text[id] = latest'[id]
  BY DEF FileCurrent
<1>1. CASE SaveIndexInner
  <2>1. /\ indexFile' = [vectors |-> vectors, kind |-> kind, text |-> text]
        /\ lost' = lost /\ latest' = latest /\ at # "down" /\ P!WriteOnce(id)
    BY <1>1 DEF SaveIndexInner, WriteIndexFile, Ready, engine, P!WriteOnce
  <2>2. vectors[id] = latest[id] /\ text[id] = latest[id]
    BY <2>1 DEF SearchInv, Current
  <2>. QED
    BY <2>1, <2>2
<1>2. CASE Next /\ ~ SaveIndexInner
  <2>1. indexFile' = indexFile /\ ~lost /\ ~unsaved /\ ~ P!CompactFinish
    BY <1>2, FileKept
  <2>2. EngineActs \/ UNCHANGED engine
    BY EngineMoves
  <2>3. P!Replayed(wal', id) # {} \/ (latest'[id] = latest[id] /\ P!WriteOnce(id))
    BY <2>2, Moves
  <2>4. P!Replayed(wal, id) # {} => P!Replayed(wal', id) # {}
    BY <2>1, <2>2, LogGrows
  <2>. QED
    BY <2>1, <2>3, <2>4 DEF SearchInv, FileCurrent
<1>3. CASE UNCHANGED vars
  BY <1>3 DEF vars, engine, record, SearchInv, FileCurrent, P!WriteOnce
<1>. QED
  BY <1>1, <1>2, <1>3

\* What is deleted stays deleted in the log.
LEMMA UnrefusedLogStep ==
    ASSUME TypeInv, SearchInv, [Next]_vars
    PROVE  UnrefusedLog'
<1>1. refused \subseteq refused'
  BY DEF Next, Delete, Insert, BatchInsert, Store, StoredOne, StoredOneOfBatch, EndBatch, SaveIndexInner, Flush,
     Compact, EngineProceeds, EngineCompacted, EngineFails, Stop, Open, record, vars
<1>2. ASSUME NEW id \in Ids, id \notin refused' PROVE Unrefused(id)'
  BY <1>1, <1>2, UnrefusedStep, EngineMoves DEF TypeInv, SearchInv, UnrefusedLog
<1>. QED
  BY <1>2 DEF UnrefusedLog

\* The indexes of an open collection stay current: what is written is indexed,
\* an upgrade reads what the engine answers, an open what it reads.
LEMMA CurrentStep ==
    ASSUME TypeInv, SearchInv, [Next]_vars
    PROVE  Current'
<1>. USE DEF TypeInv
<1>0. IndexTypeOK /\ P!TypeOK /\ P!Provenance
  BY DEF EngineInv, P!CatalogInv, P!DataInv
<1>. SUFFICES ASSUME at' # "down", ~lost', NEW id \in Ids, P!WriteOnce(id)'
              PROVE  vectors'[id] = latest'[id] /\ text'[id] = latest'[id]
  BY DEF Current
<1>1. ASSUME at # "down", ~lost, P!WriteOnce(id), latest'[id] = latest[id],
             vectors'[id] \in {vectors[id], latest[id]}, text'[id] = text[id]
      PROVE  vectors'[id] = latest'[id] /\ text'[id] = latest'[id]
  BY <1>1 DEF SearchInv, Current
<1>2. ASSUME NEW i \in Ids, NEW v \in Versions, Insert(i, v) \/ BatchInsert(i, v)
      PROVE  vectors'[id] = latest'[id] /\ text'[id] = latest'[id]
  <2>1. /\ P!Insert(i, v) \/ P!InsertFails(i, v)
        /\ vectors' = [vectors EXCEPT ![i] = v] /\ text' = [text EXCEPT ![i] = v]
        /\ at # "down" /\ lost' = lost
    BY <1>2, EngineSteps DEF Insert, BatchInsert, Store, IndexDocument
  <2>2. CASE id # i
    <3>1. vectors'[id] = vectors[id] /\ text'[id] = text[id]
      BY <2>1, <2>2, <1>0 DEF IndexTypeOK, P!Contents
    <3>2. latest'[id] = latest[id] /\ P!WriteOnce(id)
      BY <2>1, <2>2, <1>0 DEF P!Insert, P!LogInsert, P!InsertFails, P!TypeOK, P!Contents, P!WriteOnce
    <3>. QED
      BY <1>1, <2>1, <3>1, <3>2
  <2>3. CASE id = i
    <3>1. vectors'[id] = v /\ text'[id] = v
      BY <2>1, <2>3, <1>0 DEF IndexTypeOK, P!Contents
    <3>2. v \in inserted'[id]
      BY <2>1, <2>3, <1>0 DEF P!Insert, P!LogInsert, P!InsertFails, P!TypeOK
    <3>. QED
      BY <3>1, <3>2 DEF P!WriteOnce
  <2>. QED
    BY <2>2, <2>3
<1>3. ASSUME NEW i \in Ids, Delete(i)
      PROVE  vectors'[id] = latest'[id] /\ text'[id] = latest'[id]
  <2>1. /\ P!Delete(i) \/ P!DeleteFails(i)
        /\ vectors' = [vectors EXCEPT ![i] = None] /\ text' = [text EXCEPT ![i] = None]
        /\ at # "down" /\ lost' = lost
    BY <1>3, EngineSteps DEF Delete, Unindex
  <2>2. id # i
    BY <2>1 DEF P!Delete, P!LogDelete, P!DeleteFails, P!WriteOnce
  <2>3. vectors'[id] = vectors[id] /\ text'[id] = text[id]
    BY <2>1, <2>2, <1>0 DEF IndexTypeOK, P!Contents
  <2>4. latest'[id] = latest[id] /\ P!WriteOnce(id)
    BY <2>1, <2>2, <1>0 DEF P!Delete, P!LogDelete, P!DeleteFails, P!TypeOK, P!Contents, P!WriteOnce
  <2>. QED
    BY <1>1, <2>1, <2>3, <2>4
<1>4. CASE StoredOne \/ StoredOneOfBatch \/ EndBatch \/ SaveIndexInner \/ UNCHANGED vars
  <2>1. UNCHANGED engine /\ lost' = lost /\ at # "down"
    BY <1>4 DEF StoredOne, StoredOneOfBatch, EndBatch, SaveIndexInner, Ready, record, vars
  <2>2. P!WriteOnce(id) /\ latest' = latest
    BY <2>1 DEF engine, P!WriteOnce
  <2>3. text' = text /\ (vectors' = vectors \/ (vectors' = P!AllDocuments /\ pc = "idle"))
    BY <1>4, EngineReads DEF StoredOne, StoredOneOfBatch, EndBatch, SaveIndexInner, MaybeUpgrade, Ready, indexes, vars,
       Closed
  <2>4. pc = "idle" => P!AllDocuments[id] = latest[id]
    BY <2>2, Answered
  <2>. QED
    BY <1>1, <2>1, <2>2, <2>3, <2>4
<1>5. CASE Flush \/ Compact \/ EngineProceeds \/ EngineCompacted \/ EngineFails
  <2>1. UNCHANGED <<vectors, text>> /\ lost' = lost
    BY <1>5 DEF Flush, Compact, EngineProceeds, EngineCompacted, EngineFails, indexes, record
  <2>2. UNCHANGED <<latest, inserted, everDeleted>> /\ pc # "down"
    BY <1>5, EngineSteps DEF Flush, Compact, EngineProceeds, EngineCompacted, EngineFails, P!Flush, P!Compact,
       P!FlushWrite, P!FlushLog, P!CompactWrite, P!CompactRemove, P!CompactFinish, P!FlushLogFails,
       P!SegmentWriteFails, P!Writing, P!history
  <2>3. P!WriteOnce(id)
    BY <2>2 DEF P!WriteOnce
  <2>4. at # "down"
    BY <2>2 DEF Closed
  <2>. QED
    BY <1>1, <2>1, <2>2, <2>3, <2>4
<1>6. CASE Open
  <2>1. /\ P!Open /\ pc = "down" /\ UNCHANGED <<wal, latest, inserted, everDeleted, indexFile, lost>>
    BY <1>6, EngineSteps DEF Open, P!Open, P!disk, P!history, record
  <2>2. segmentDeleted = {} /\ ~unsaved
    BY <2>1 DEF Closed
  <2>3. P!WriteOnce(id)
    BY <2>1 DEF P!WriteOnce
  <2>4. /\ id \notin memDeleted' /\ memDocs'[id] \in {None, latest[id]}
        /\ P!Replayed(wal, id) # {} => memDocs'[id] = latest[id]
        /\ P!AllDocuments'[id] = latest[id]
    BY <2>1, <2>2, <2>3, Opened
  <2>5. CASE Rebuild
    BY <2>1, <2>4, <2>5, EngineReads DEF Rebuild
  <2>6. CASE Load
    <3>1. P!Replayed(wal, id) # {} \/ (indexFile.vectors[id] = latest[id] /\ indexFile.text[id] = latest[id])
      BY <2>1, <2>2, <2>3, <2>6 DEF Load, SearchInv, FileCurrent
    <3>2. CatchUp(indexFile.vectors)'[id] = latest[id] /\ CatchUp(indexFile.text)'[id] = latest[id]
      BY <2>1, <2>3, <2>4, <3>1 DEF CatchUp, P!WriteOnce
    <3>. QED
      BY <2>1, <2>4, <2>6, <3>2, EngineReads DEF Load
  <2>. QED
    BY <1>6, <2>5, <2>6 DEF Open
<1>7. CASE Stop
  BY <1>7 DEF Stop
<1>. QED
  BY <1>2, <1>3, <1>4, <1>5, <1>6, <1>7 DEF Next

\* The indexes of an open collection hold no deleted document, save those the
\* engine has.
LEMMA DeletedStep ==
    ASSUME TypeInv, SearchInv, [Next]_vars
    PROVE  Deleted'
<1>. USE DEF TypeInv
<1>0. IndexTypeOK /\ P!TypeOK
  BY DEF EngineInv, P!CatalogInv
<1>. SUFFICES ASSUME at' # "down", ~lost', NEW id \in Ids, id \notin refused', latest'[id] = None,
                     vectors'[id] # None \/ text'[id] # None
              PROVE  EngineHas(id)'
  BY DEF Deleted
<1>1. EngineActs \/ UNCHANGED engine
  BY EngineMoves
<1>2. ASSUME at # "down", ~lost, id \notin refused, latest[id] = None, vectors[id] # None \/ text[id] # None,
             id \in segmentDeleted' => id \in segmentDeleted
      PROVE  EngineHas(id)'
  BY <1>1, <1>2, HasStep DEF SearchInv, Deleted, Closed
<1>3. ASSUME NEW i \in Ids, NEW v \in Versions, Insert(i, v) \/ BatchInsert(i, v)
      PROVE  EngineHas(id)'
  <2>1. /\ P!Insert(i, v) \/ (P!InsertFails(i, v) /\ refused' = refused \cup {i})
        /\ vectors' = [vectors EXCEPT ![i] = v] /\ text' = [text EXCEPT ![i] = v]
        /\ at # "down" /\ lost' = lost /\ refused \subseteq refused'
    BY <1>3, EngineSteps DEF Insert, BatchInsert, Store, IndexDocument
  <2>2. id # i
    BY <2>1, <1>0, EngineConstants DEF P!Insert, P!LogInsert, P!TypeOK, P!Contents
  <2>3. vectors'[id] = vectors[id] /\ text'[id] = text[id]
    BY <2>1, <2>2, <1>0 DEF IndexTypeOK, P!Contents
  <2>4. latest'[id] = latest[id] /\ segmentDeleted' = segmentDeleted
    BY <2>1, <2>2, <1>0 DEF P!Insert, P!LogInsert, P!InsertFails, P!TypeOK, P!Contents, P!catalog
  <2>. QED
    BY <1>2, <2>1, <2>3, <2>4
<1>4. ASSUME NEW i \in Ids, Delete(i)
      PROVE  EngineHas(id)'
  <2>1. /\ P!Delete(i) \/ P!DeleteFails(i)
        /\ vectors' = [vectors EXCEPT ![i] = None] /\ text' = [text EXCEPT ![i] = None]
        /\ at # "down" /\ lost' = lost /\ refused' = refused
    BY <1>4, EngineSteps DEF Delete, Unindex
  <2>2. id # i
    BY <2>1, <1>0 DEF IndexTypeOK, P!Contents
  <2>3. vectors'[id] = vectors[id] /\ text'[id] = text[id]
    BY <2>1, <2>2, <1>0 DEF IndexTypeOK, P!Contents
  <2>4. latest'[id] = latest[id] /\ (id \in segmentDeleted' => id \in segmentDeleted)
    BY <2>1, <2>2, <1>0 DEF P!Delete, P!LogDelete, P!DeleteFails, P!TypeOK, P!Contents, P!catalog
  <2>. QED
    BY <1>2, <2>1, <2>3, <2>4
<1>5. CASE StoredOne \/ StoredOneOfBatch \/ EndBatch \/ SaveIndexInner \/ UNCHANGED vars
  <2>1. UNCHANGED engine /\ lost' = lost /\ at # "down" /\ refused' = refused
    BY <1>5 DEF StoredOne, StoredOneOfBatch, EndBatch, SaveIndexInner, Ready, record, vars
  <2>2. UNCHANGED <<latest, segmentDeleted>>
    BY <2>1 DEF engine
  <2>3. text' = text /\ (vectors' = vectors \/ (vectors' = P!AllDocuments /\ pc = "idle"))
    BY <1>5, EngineReads DEF StoredOne, StoredOneOfBatch, EndBatch, SaveIndexInner, MaybeUpgrade, Ready, indexes, vars,
       Closed
  <2>4. ASSUME P!AllDocuments[id] # None, pc = "idle" PROVE EngineHas(id)
    <3>1. memDocs[id] = None
      BY <2>1, <2>2 DEF SearchInv, UnrefusedLog, Unrefused
    <3>. QED
      BY <2>4, <3>1 DEF P!AllDocuments, P!MemDoc, P!OldestIn, EngineHas
  <2>5. EngineHas(id) => EngineHas(id)'
    BY <1>1, <2>2, HasStep DEF Closed
  <2>. QED
    BY <1>2, <2>1, <2>2, <2>3, <2>4, <2>5
<1>6. CASE Flush \/ Compact \/ EngineProceeds \/ EngineCompacted \/ EngineFails
  <2>1. UNCHANGED <<vectors, text, refused>> /\ lost' = lost
    BY <1>6 DEF Flush, Compact, EngineProceeds, EngineCompacted, EngineFails, indexes, record
  <2>2. latest' = latest /\ pc # "down" /\ segmentDeleted' \subseteq segmentDeleted
    BY <1>6, EngineSteps DEF Flush, Compact, EngineProceeds, EngineCompacted, EngineFails, P!Flush, P!Compact,
       P!FlushWrite, P!FlushLog, P!CompactWrite, P!CompactRemove, P!CompactFinish, P!CompactSwap, P!FlushLogFails,
       P!SegmentWriteFails, P!Writing, P!history, P!catalog
  <2>3. at # "down"
    BY <2>2 DEF Closed
  <2>. QED
    BY <1>2, <2>1, <2>2, <2>3
<1>7. CASE Open
  <2>1. /\ P!Open /\ pc = "down" /\ pc' = "idle" /\ segments' = P!OnDisk
        /\ UNCHANGED <<wal, segFiles, segmentDeleted, latest, indexFile, lost, refused>>
    BY <1>7, EngineSteps DEF Open, P!Open, P!disk, P!history, record
  <2>2. segmentDeleted = {} /\ ~unsaved
    BY <2>1 DEF Closed
  <2>3. memDocs'[id] = None
    BY <2>1, <2>2, Opened DEF SearchInv, UnrefusedLog, Unrefused
  <2>4. /\ P!AllDocuments'[id] # None => P!Holders(P!OnDisk, id) # {}
        /\ P!Replayed(wal, id) # {} => id \in memDeleted'
    BY <2>1, <2>2, <2>3, Opened
  <2>5. P!Holders(P!OnDisk, id) # {} => EngineHas(id)'
    BY <2>1, <2>2 DEF EngineHas, P!Holders
  <2>6. CASE Rebuild
    BY <2>4, <2>5, <2>6, EngineReads DEF Rebuild
  <2>7. CASE Load
    <3>1. CASE P!AllDocuments'[id] # None
      BY <2>4, <2>5, <3>1
    <3>2. CASE P!AllDocuments'[id] = None
      <4>1. CatchUp(indexFile.vectors)'[id] # None \/ CatchUp(indexFile.text)'[id] # None
        BY <2>7, <3>2, EngineReads DEF Load
      <4>2. id \notin memDeleted' /\ (indexFile.vectors[id] # None \/ indexFile.text[id] # None)
        BY <2>1, <2>3, <4>1 DEF CatchUp
      <4>3. indexFile # NoIndex
        BY <2>7 DEF Load
      <4>4. P!Replayed(wal, id) # {} \/ EngineHas(id)
        BY <2>1, <2>2, <4>2, <4>3 DEF SearchInv, FileDeleted
      <4>. QED
        BY <2>1, <2>4, <2>5, <4>2, <4>4 DEF EngineHas
    <3>. QED
      BY <3>1, <3>2
  <2>. QED
    BY <1>7, <2>6, <2>7 DEF Open
<1>8. CASE Stop
  BY <1>8 DEF Stop
<1>. QED
  BY <1>3, <1>4, <1>5, <1>6, <1>7, <1>8 DEF Next

\* Nor does the index file.
LEMMA FileDeletedStep ==
    ASSUME TypeInv, SearchInv, [Next]_vars
    PROVE  FileDeleted'
<1>. USE DEF TypeInv
<1>. SUFFICES ASSUME ~lost', ~unsaved', indexFile' # NoIndex, NEW id \in Ids, id \notin refused', latest'[id] = None,
                     indexFile'.vectors[id] # None \/ indexFile'.text[id] # None
              PROVE  P!Replayed(wal', id) # {} \/ EngineHas(id)'
  BY DEF FileDeleted
<1>1. EngineActs \/ UNCHANGED engine
  BY EngineMoves
<1>2. ASSUME EngineHas(id), id \in segmentDeleted' => id \in segmentDeleted PROVE EngineHas(id)'
  BY <1>1, <1>2, HasStep DEF Closed
<1>3. CASE SaveIndexInner
  <2>1. /\ indexFile' = [vectors |-> vectors, kind |-> kind, text |-> text]
        /\ UNCHANGED <<latest, segmentDeleted, lost, refused>> /\ at # "down"
    BY <1>3 DEF SaveIndexInner, WriteIndexFile, Ready, engine
  <2>2. EngineHas(id)
    BY <2>1 DEF SearchInv, Deleted
  <2>. QED
    BY <1>2, <2>1, <2>2
<1>4. CASE Next /\ ~ SaveIndexInner
  <2>1. indexFile' = indexFile /\ ~lost /\ ~unsaved /\ ~ P!CompactFinish
    BY <1>4, FileKept
  <2>2. refused \subseteq refused'
    BY <1>4 DEF Next, Delete, Insert, BatchInsert, Store, StoredOne, StoredOneOfBatch, EndBatch, SaveIndexInner, Flush,
       Compact, EngineProceeds, EngineCompacted, EngineFails, Stop, Open, record
  <2>3. P!Replayed(wal', id) # {} \/ (latest'[id] = latest[id] /\ (id \in segmentDeleted' => id \in segmentDeleted))
    BY <1>1, Moves
  <2>4. P!Replayed(wal, id) # {} => P!Replayed(wal', id) # {}
    BY <1>1, <2>1, LogGrows
  <2>. QED
    BY <1>2, <2>1, <2>2, <2>3, <2>4 DEF SearchInv, FileDeleted
<1>5. CASE UNCHANGED vars
  <2>1. UNCHANGED <<latest, segmentDeleted, lost, unsaved, indexFile, refused, wal>>
    BY <1>5 DEF vars, engine, record
  <2>. QED
    BY <1>2, <2>1 DEF SearchInv, FileDeleted
<1>. QED
  BY <1>3, <1>4, <1>5

\* The invariant of the indexes, the index file, the log and the segments holds
\* in every reachable state.
THEOREM SearchInvariant == Spec => [](TypeInv /\ SearchInv)
<1>1. Init => SearchInv
  <2>1. ASSUME Init PROVE UnrefusedLog
    <3>1. wal = <<>> /\ walBuffer = <<>> /\ memDocs = P!Empty
      BY <2>1, EngineReads DEF Init, P!Init
    <3>2. \A id \in Ids : P!ReplayDocs(<<>>)[id] = None /\ P!NoInsertOf(<<>>, id)
      BY DEF P!ReplayDocs, P!Replayed, P!NoInsertOf
    <3>. QED
      BY <3>1, <3>2 DEF UnrefusedLog, Unrefused, P!Empty
  <2>. QED
    BY <2>1 DEF Init, SearchInv, Current, FileCurrent, Deleted, FileDeleted
<1>2. TypeInv /\ SearchInv /\ [Next]_vars => TypeInv' /\ SearchInv'
  BY TypeStep, CurrentStep, FileCurrentStep, UnrefusedLogStep, DeletedStep, FileDeletedStep DEF SearchInv
<1>. QED
  BY <1>1, <1>2, TypeInit, PTL DEF Spec

\* A search of an open collection, through either index, finds every document
\* that was written once, unless a process ended between a compaction and the
\* save of the indexes.
THEOREM SearchIsComplete == Spec => []SearchComplete
<1>1. TypeInv /\ SearchInv => SearchComplete
  <2>. SUFFICES ASSUME TypeInv, SearchInv, at = "idle", pc = "idle", ~lost, NEW id \in Ids, P!WriteOnce(id)
                PROVE  vectors[id] = latest[id] /\ text[id] = latest[id] /\ P!Get(id) = latest[id]
    BY EngineReads DEF SearchComplete, Ready
  <2>. QED
    BY Answered DEF TypeInv, SearchInv, Current
<1>. QED
  BY <1>1, SearchInvariant, PTL

\* It finds no document that was deleted and that the engine does not list,
\* through either index.
THEOREM DeletedAreNotFound == Spec => []DeletedNotFound
<1>1. TypeInv /\ SearchInv => DeletedNotFound
  <2>. SUFFICES ASSUME TypeInv, SearchInv, at = "idle", pc = "idle", ~lost, NEW id \in Ids \ refused,
                       latest[id] = None, P!AllDocuments[id] = None
                PROVE  vectors[id] = None /\ text[id] = None
    BY EngineReads DEF DeletedNotFound, Ready
  <2>1. ~ EngineHas(id)
    <3>1. P!Holders(segments, id) # {} => P!OldestIn(segments, id) # None
      BY P!SegmentReads, EngineConstants DEF TypeInv, EngineInv, P!CatalogInv, P!TypeOK, P!DataInv
    <3>. QED
      BY <3>1 DEF P!AllDocuments, EngineHas
  <2>. QED
    BY <2>1 DEF SearchInv, Deleted
<1>. QED
  BY <1>1, SearchInvariant, PTL

=============================================================================
