----------------------------- MODULE Collection -----------------------------
(***************************************************************************)
(* A collection: the indexes in memory over the storage engine, and the    *)
(* index file that spares a restart their rebuilding                       *)
(* (crates/openvec-core/src/collection/mod.rs).  Its operations run under  *)
(* one write lock; the engine they call takes the steps of StorageEngine,  *)
(* and the process may die between any two of them.                        *)
(*                                                                         *)
(* A collection has one vector field and one full-text field, both in      *)
(* every document; an index is the map of the documents it would find.     *)
(***************************************************************************)
EXTENDS Integers, Sequences, FiniteSets

CONSTANTS
    Ids, Versions, None, NoFile, FlushThreshold, CompactTrigger, WalSync, TornAppend,
    Faults, MaxRecords, MaxSegmentId,   \* of the storage engine
    NoIndex,            \* no index file
    UpgradeThreshold,   \* auto_index_threshold: a flat index this large is replaced
    MaxFailures         \* bound: errors of the engine

VARIABLES
    wal, segFiles, walBuffer, walLinked, memDocs, memDeleted, segments, segmentDeleted,
    nextSegmentId, pc, caller, doomed, inserted, everDeleted, latest, gone,
                        \* the storage engine
    vectors,            \* the index of the vector field: the body it has of each id
    kind,               \* its type
    text,               \* the full-text index
    indexFile,          \* what index_default.json holds
    at,                 \* where the operation in progress stands
    segmentsBefore,     \* the count of segments it read before it stored anything
    unsaved,            \* history: has a compaction emptied the WAL since the last save?
    lost,               \* history: has the process ended in that state?
    refused,            \* history: the ids whose insert the engine refused
    failures            \* history: errors of the engine so far

Engine == INSTANCE StorageEngine

engine == <<wal, segFiles, walBuffer, walLinked, memDocs, memDeleted, segments, segmentDeleted,
            nextSegmentId, pc, caller, doomed, inserted, everDeleted, latest, gone>>
indexes == <<vectors, kind, text>>
record == <<unsaved, lost, refused, failures>>
vars == <<engine, indexes, indexFile, at, segmentsBefore, record>>

Empty == Engine!Empty
Indexes == [vectors : Engine!Contents, kind : {"flat", "upgraded"}, text : Engine!Contents]
Indexed(index) == {id \in Ids : index[id] # None}
SegmentCount == Cardinality(segments)
Ready == at = "idle" /\ pc = "idle"

ASSUME CollectionAssumption ==
    /\ UpgradeThreshold \in Nat \ {0}
    /\ MaxFailures \in Nat
    /\ None \notin Versions
    /\ FlushThreshold \in Nat \ {0}
    /\ CompactTrigger \in Nat \ {0, 1, 2}
    /\ WalSync \in BOOLEAN
    /\ TornAppend \in BOOLEAN
    /\ Faults \subseteq {"append", "segWrite"}
    /\ MaxRecords \in Nat
    /\ MaxSegmentId \in Nat
    /\ NoFile \notin [Ids -> Versions \cup {None}]
    /\ NoIndex \notin Indexes

-----------------------------------------------------------------------------
(* The indexes.                                                            *)

IndexDocument(id, v) ==
    /\ vectors' = [vectors EXCEPT ![id] = v]
    /\ text' = [text EXCEPT ![id] = v]
    /\ UNCHANGED kind

Unindex(id) ==
    /\ vectors' = [vectors EXCEPT ![id] = None]
    /\ text' = [text EXCEPT ![id] = None]
    /\ UNCHANGED kind

\* The new index is built from the engine's documents, not from the old index.
MaybeUpgrade ==
    IF kind = "flat" /\ Cardinality(Indexed(vectors)) >= UpgradeThreshold
    THEN /\ kind' = "upgraded"
         /\ vectors' = Engine!AllDocuments
         /\ UNCHANGED text
    ELSE UNCHANGED indexes

WriteIndexFileUntyped == indexFile' = [vectors |-> vectors, text |-> text]
WriteIndexFile == indexFile' = [vectors |-> vectors, kind |-> kind, text |-> text]

-----------------------------------------------------------------------------
(* insert and batch_insert: index, store, perhaps upgrade, and save when   *)
(* the count of segments has changed.                                      *)

Fail == failures < MaxFailures /\ failures' = failures + 1

Store(id, v, next) ==
    \/ Engine!Insert(id, v) /\ at' = next /\ UNCHANGED <<refused, failures>>
    \/ Engine!InsertFails(id, v) /\ Fail /\ at' = "idle" /\ refused' = refused \cup {id}

Insert(id, v) ==
    /\ at = "idle"
    /\ IndexDocument(id, v)
    /\ Store(id, v, "insert")
    /\ segmentsBefore' = SegmentCount
    /\ UNCHANGED <<indexFile, unsaved, lost>>

BatchInsert(id, v) ==
    /\ at \in {"idle", "nextOfBatch"}
    /\ IndexDocument(id, v)
    /\ Store(id, v, "batch")
    /\ segmentsBefore' = IF at = "idle" THEN SegmentCount ELSE segmentsBefore
    /\ UNCHANGED <<indexFile, unsaved, lost>>

SaveOrReturn == at' = IF SegmentCount # segmentsBefore THEN "save" ELSE "idle"

StoredOne ==
    /\ at = "insert" /\ pc = "idle"
    /\ MaybeUpgrade
    /\ SaveOrReturn
    /\ UNCHANGED <<engine, indexFile, segmentsBefore, record>>

StoredOneOfBatch ==
    /\ at = "batch" /\ pc = "idle"
    /\ MaybeUpgrade
    /\ at' = "nextOfBatch"
    /\ UNCHANGED <<engine, indexFile, segmentsBefore, record>>

EndBatch ==
    /\ at = "nextOfBatch"
    /\ SaveOrReturn
    /\ UNCHANGED <<engine, indexes, indexFile, segmentsBefore, record>>

\* The last act of an insert, or a call of save_index.
SaveIndexInner ==
    /\ at = "save" \/ Ready
    /\ WriteIndexFile
    /\ at' = "idle"
    /\ unsaved' = FALSE
    /\ UNCHANGED <<engine, indexes, segmentsBefore, lost, refused, failures>>

-----------------------------------------------------------------------------
(* delete, flush, compact.                                                 *)

Delete(id) ==
    /\ at = "idle"
    /\ Unindex(id)
    /\ \/ Engine!Delete(id) /\ UNCHANGED failures
       \/ Engine!DeleteFails(id) /\ Fail
    /\ UNCHANGED <<indexFile, at, segmentsBefore, unsaved, lost, refused>>

Flush ==
    /\ at = "idle"
    /\ Engine!Flush
    /\ UNCHANGED <<indexes, indexFile, at, segmentsBefore, record>>

Compact ==
    /\ at = "idle"
    /\ Engine!Compact
    /\ UNCHANGED <<indexes, indexFile, at, segmentsBefore, record>>

-----------------------------------------------------------------------------
(* The engine inside an operation.  Its error ends the operation at once.  *)

EngineProceeds ==
    /\ Engine!FlushWrite \/ Engine!FlushLog \/ Engine!CompactWrite \/ Engine!CompactRemove
    /\ UNCHANGED <<indexes, indexFile, at, segmentsBefore, record>>

EngineCompacted ==
    /\ Engine!CompactFinish
    /\ unsaved' = TRUE
    /\ UNCHANGED <<indexes, indexFile, at, segmentsBefore, lost, refused, failures>>

EngineFails ==
    /\ Engine!FlushLogFails \/ Engine!SegmentWriteFails
    /\ Fail
    /\ at' = "idle"
    /\ UNCHANGED <<indexes, indexFile, segmentsBefore, unsaved, lost, refused>>

-----------------------------------------------------------------------------
(* The end of the process, and Collection::open.                           *)

Stop ==
    /\ Engine!Crash \/ (at = "idle" /\ Engine!Close)
    /\ vectors' = Empty
    /\ text' = Empty
    /\ kind' = "flat"
    /\ at' = "down"
    /\ segmentsBefore' = 0
    /\ unsaved' = FALSE
    /\ lost' = (lost \/ (unsaved /\ indexFile # NoIndex))
    /\ UNCHANGED <<indexFile, refused, failures>>

CatchUpSkipped(index) == index
CatchUpWithoutDeletes(index) == [id \in Ids |-> IF memDocs[id] # None THEN memDocs[id] ELSE index[id]]

\* What the MemTable holds and hides, over what the file had.
CatchUp(index) ==
    [id \in Ids |-> IF id \in memDeleted THEN None
                    ELSE IF memDocs[id] # None THEN memDocs[id]
                    ELSE index[id]]

Rebuild ==
    /\ indexFile = NoIndex
    /\ vectors' = Engine!AllDocuments'
    /\ text' = Engine!AllDocuments'
    /\ kind' = "flat"

\* A full-text index that is still empty is built from all documents.
Load ==
    /\ indexFile # NoIndex
    /\ vectors' = CatchUp(indexFile.vectors)'
    /\ text' = IF Indexed(CatchUp(indexFile.text)') = {} THEN Engine!AllDocuments' ELSE CatchUp(indexFile.text)'
    /\ kind' = indexFile.kind

Open ==
    /\ Engine!Open
    /\ UNCHANGED indexFile
    /\ Rebuild \/ Load
    /\ at' = "idle"
    /\ UNCHANGED <<segmentsBefore, record>>

-----------------------------------------------------------------------------
Init ==
    /\ Engine!Init
    /\ vectors = Empty
    /\ text = Empty
    /\ kind = "flat"
    /\ indexFile = NoIndex
    /\ at = "down"
    /\ segmentsBefore = 0
    /\ unsaved = FALSE
    /\ lost = FALSE
    /\ refused = {}
    /\ failures = 0

Next ==
    \/ \E id \in Ids : Delete(id) \/ \E v \in Versions : Insert(id, v) \/ BatchInsert(id, v)
    \/ StoredOne \/ StoredOneOfBatch \/ EndBatch \/ SaveIndexInner
    \/ Flush \/ Compact
    \/ EngineProceeds \/ EngineCompacted \/ EngineFails
    \/ Stop \/ Open

Spec == Init /\ [][Next]_vars

-----------------------------------------------------------------------------
(* Properties.                                                             *)

\* Type invariant of the collection, the engine's included.
TypeOK ==
    /\ Engine!TypeOK
    /\ vectors \in Engine!Contents
    /\ text \in Engine!Contents
    /\ kind \in {"flat", "upgraded"}
    /\ indexFile \in Indexes \cup {NoIndex}
    /\ at \in {"down", "idle", "insert", "batch", "nextOfBatch", "save"}
    /\ segmentsBefore \in Nat
    /\ unsaved \in BOOLEAN /\ lost \in BOOLEAN
    /\ refused \subseteq Ids
    /\ failures \in 0 .. MaxFailures

\* A document written once is found by both indexes, and read back as they have
\* it, between any two operations: across flushes, compactions, the upgrade of
\* the index and restarts from whichever index file there is, save after a
\* process that ended with a compaction not followed by a save.
SearchComplete == Ready /\ ~lost => \A id \in Ids : Engine!WriteOnce(id) =>
    /\ vectors[id] = latest[id]
    /\ text[id] = latest[id]
    /\ Engine!Get(id) = latest[id]

\* A document whose last operation is a delete, and which the engine has not
\* brought back, is in neither index, in spite of upgrades and of index files
\* that still contain it.
DeletedNotFound == Ready /\ ~lost => \A id \in Ids \ refused :
    latest[id] = None /\ Engine!AllDocuments[id] = None => vectors[id] = None /\ text[id] = None

\* The engine under a collection is the map of documents that DocumentStore
\* promises, in the order of calls the collection makes: appends that fail, the
\* records they leave, and segments cut short included.
EngineStoresDocuments == Engine!ImplementsDocumentStore

-----------------------------------------------------------------------------
(* What the code's comments say and the code does not do.                  *)

\* "Replay outstanding WAL / MemTable data to catch up!" (Collection::open): a
\* collection that has been opened finds every document that was written once.
CaughtUp == Ready => \A id \in Ids : Engine!WriteOnce(id) => vectors[id] = latest[id]

=============================================================================
