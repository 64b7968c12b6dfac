--------------------------- MODULE StorageEngine ---------------------------
(***************************************************************************)
(* The storage engine of one collection: a write-ahead log, a MemTable and *)
(* immutable segment files, with flush, compaction, crash and recovery     *)
(* (crates/openvec-core/src/storage/engine.rs, wal.rs, segment.rs).        *)
(*                                                                         *)
(* The engine sits behind its Collection's write lock, so one operation    *)
(* runs at a time.  Its effects on disk are separate steps: the process    *)
(* may die between any two of them.  A document is its id and a version;   *)
(* two versions of an id are two bodies stored under it.                   *)
(*                                                                         *)
(* Simplifications: a directory entry (file created, removed) is durable   *)
(* at once; a segment file that is not readable is the same as no file,    *)
(* since scan_segments skips it and File::create truncates it.             *)
(***************************************************************************)
EXTENDS Integers, Sequences, FiniteSets, FiniteSetsExt

CONSTANTS
    Ids,              \* document ids
    Versions,         \* document bodies
    None,             \* no document
    NoFile,           \* no readable segment file
    FlushThreshold,   \* MemTable size that triggers a flush
    CompactTrigger,   \* segment count that triggers a compaction
    WalSync,          \* is the WAL synced on every append?
    TornAppend,       \* may a crash tear the record being appended?
    Faults,           \* the I/O calls that may fail
    MaxRecords,       \* bound: records in the WAL
    MaxSegmentId      \* bound: ids of segments

IOCalls == {"append", "segWrite", "segOpen", "segRemove", "walRemove", "walOpen"}

ASSUME EngineAssumption ==
    /\ None \notin Versions
    /\ FlushThreshold \in Nat \ {0}
    /\ CompactTrigger \in Nat \ {0, 1}
    /\ WalSync \in BOOLEAN
    /\ TornAppend \in BOOLEAN
    /\ Faults \subseteq IOCalls
    /\ MaxRecords \in Nat
    /\ MaxSegmentId \in Nat
    /\ NoFile \notin [Ids -> Versions \cup {None}]

VARIABLES
    wal,              \* current.wal, as the records it holds
    segFiles,         \* the segment files in the collection's directory
    walBuffer,        \* records left in the WalWriter's BufWriter
    walLinked,        \* is the open WAL the file in the directory?
    memDocs,          \* MemTable.docs
    memDeleted,       \* MemTable.deleted
    segments,         \* the ids of the open segments, read in id order
    segmentDeleted,   \* StorageEngine.segment_deleted
    nextSegmentId,    \* StorageEngine.next_segment_id
    pc,               \* where the operation in progress stands
    caller,           \* who called flush: an insert or an administrator
    doomed,           \* the segments a compaction still has to remove
    inserted,         \* history: the versions logged for an id
    everDeleted,      \* history: the ids a delete was logged for
    latest,           \* history: what the last logged operation made of an id
    gone              \* history: ids deleted, with nothing that may revive them

disk == <<wal, segFiles>>
writer == <<walBuffer, walLinked>>
memTable == <<memDocs, memDeleted>>
catalog == <<segments, segmentDeleted, nextSegmentId>>
history == <<inserted, everDeleted, latest, gone>>
control == <<pc, caller, doomed>>
vars == <<disk, writer, memTable, catalog, control, history>>

SegmentIds == 0 .. MaxSegmentId
Contents == [Ids -> Versions \cup {None}]
Empty == [id \in Ids |-> None]

Records ==
    [op : {"insert"}, id : Ids, ver : Versions]
    \cup [op : {"delete"}, id : Ids, ver : {None}]
    \cup [op : {"flush", "torn"}, id : {None}, ver : {None}]

InsertRecord(id, v) == [op |-> "insert", id |-> id, ver |-> v]
DeleteRecord(id) == [op |-> "delete", id |-> id, ver |-> None]
FlushRecord == [op |-> "flush", id |-> None, ver |-> None]
TornRecord == [op |-> "torn", id |-> None, ver |-> None]

-----------------------------------------------------------------------------
(* What a log replays to: the records before the first torn one, the last  *)
(* of them on an id deciding what the MemTable holds of it.                *)

ReplayedUpToFlush(w, id) ==
    {i \in DOMAIN w : /\ w[i].op \in {"insert", "delete"}
                      /\ w[i].id = id
                      /\ \A j \in 1 .. i : w[j].op \notin {"torn", "flush"}}

Replayed(w, id) ==
    {i \in DOMAIN w : /\ w[i].op \in {"insert", "delete"}
                      /\ w[i].id = id
                      /\ \A j \in 1 .. i : w[j].op # "torn"}

LastReplayed(w, id) == w[Max(Replayed(w, id))]

ReplayDocs(w) ==
    [id \in Ids |-> IF Replayed(w, id) = {} THEN None ELSE LastReplayed(w, id).ver]

ReplayDeleted(w) ==
    {id \in Ids : Replayed(w, id) # {} /\ LastReplayed(w, id).op = "delete"}

-----------------------------------------------------------------------------
(* Reads.                                                                  *)

MemDoc(id) == IF id \in memDeleted THEN None ELSE memDocs[id]
MemDocCount == Cardinality({id \in Ids : memDocs[id] # None})

OnDisk == {s \in SegmentIds : segFiles[s] # NoFile}
Holders(S, id) == {s \in S : segFiles[s][id] # None}
NewestIn(S, id) == IF Holders(S, id) = {} THEN None ELSE segFiles[Max(Holders(S, id))][id]
OldestIn(S, id) == IF Holders(S, id) = {} THEN None ELSE segFiles[Min(Holders(S, id))][id]

Get(id) ==
    IF id \in segmentDeleted THEN None
    ELSE IF MemDoc(id) # None THEN MemDoc(id)
    ELSE NewestIn(segments, id)

ScanSegmentsOnly ==
    [id \in Ids |-> IF id \in segmentDeleted THEN None ELSE OldestIn(segments, id)]

\* The MemTable first, then the segments in ascending order of their ids: a
\* document already seen is not overridden.
AllDocuments ==
    [id \in Ids |->
        IF MemDoc(id) # None THEN MemDoc(id)
        ELSE IF id \in segmentDeleted THEN None
        ELSE OldestIn(segments, id)]

\* What Get would answer if the process died now and the engine were reopened.
Recovered(id) ==
    IF ReplayDocs(wal)[id] # None THEN ReplayDocs(wal)[id] ELSE NewestIn(OnDisk, id)

-----------------------------------------------------------------------------
(* The bounds, and the WAL writer: a record goes behind what an earlier    *)
(* failure left in the BufWriter; an unlinked file is not the WAL any more. *)

HasSegmentId == nextSegmentId <= MaxSegmentId
WalHasRoom == Len(wal) + Len(walBuffer) < MaxRecords

WalAppendUnflushed(record) ==
    /\ walBuffer' = Append(walBuffer, record)
    /\ UNCHANGED <<wal, walLinked>>

WalAppend(record) ==
    /\ wal' = IF walLinked THEN Append(wal \o walBuffer, record) ELSE wal
    /\ walBuffer' = <<>>
    /\ UNCHANGED walLinked

\* An append that returns an error: the write or the sync after it failed.
WalAppendFails(record) ==
    /\ "append" \in Faults
    /\ \/ walBuffer' = Append(walBuffer, record) /\ UNCHANGED <<wal, walLinked>>
       \/ WalAppend(record)

-----------------------------------------------------------------------------
(* Operations.                                                             *)

LogInsert(id, v) ==
    /\ inserted' = [inserted EXCEPT ![id] = @ \cup {v}]
    /\ latest' = [latest EXCEPT ![id] = v]
    /\ gone' = gone \ {id}
    /\ UNCHANGED everDeleted

LogDelete(id) ==
    /\ everDeleted' = everDeleted \cup {id}
    /\ latest' = [latest EXCEPT ![id] = None]
    /\ gone' = gone \cup {id}
    /\ UNCHANGED inserted

Insert(id, v) ==
    /\ pc = "idle" /\ WalHasRoom
    /\ WalAppend(InsertRecord(id, v))
    /\ memDocs' = [memDocs EXCEPT ![id] = v]
    /\ memDeleted' = memDeleted \ {id}
    /\ LogInsert(id, v)
    /\ pc' = IF Cardinality({i \in Ids : memDocs'[i] # None}) >= FlushThreshold
             THEN "flushWrite" ELSE "idle"
    /\ caller' = "insert"
    /\ UNCHANGED <<segFiles, catalog, doomed>>

DeleteFromMemTableOnly(id) ==
    /\ pc = "idle" /\ WalHasRoom
    /\ WalAppend(DeleteRecord(id))
    /\ memDocs' = [memDocs EXCEPT ![id] = None]
    /\ memDeleted' = memDeleted \cup {id}
    /\ LogDelete(id)
    /\ UNCHANGED <<segFiles, catalog, control>>

Delete(id) ==
    /\ pc = "idle" /\ WalHasRoom
    /\ WalAppend(DeleteRecord(id))
    /\ memDocs' = [memDocs EXCEPT ![id] = None]
    /\ memDeleted' = memDeleted \cup {id}
    /\ segmentDeleted' = segmentDeleted \cup {id}
    /\ LogDelete(id)
    /\ UNCHANGED <<segFiles, segments, nextSegmentId, control>>

\* The operation returns the error of its WAL append; the MemTable keeps its
\* state, and the record is in the file or in the writer's buffer.
InsertFails(id, v) ==
    /\ pc = "idle" /\ WalHasRoom
    /\ WalAppendFails(InsertRecord(id, v))
    /\ inserted' = [inserted EXCEPT ![id] = @ \cup {v}]
    /\ UNCHANGED <<segFiles, memTable, catalog, control, everDeleted, latest, gone>>

DeleteFails(id) ==
    /\ pc = "idle" /\ WalHasRoom
    /\ WalAppendFails(DeleteRecord(id))
    /\ everDeleted' = everDeleted \cup {id}
    /\ UNCHANGED <<segFiles, memTable, catalog, control, inserted, latest, gone>>

\* Collection::flush and Collection::compact, called by an administrator.
Flush ==
    /\ pc = "idle"
    /\ MemDocCount > 0
    /\ WalHasRoom
    /\ pc' = "flushWrite"
    /\ caller' = "admin"
    /\ UNCHANGED <<disk, writer, memTable, catalog, doomed, history>>

Compact ==
    /\ pc = "idle"
    /\ Cardinality(segments) >= 2
    /\ pc' = "compactWrite"
    /\ UNCHANGED <<disk, writer, memTable, catalog, caller, doomed, history>>

-----------------------------------------------------------------------------
(* Flush: write the segment file, log it, open it and clear the MemTable.  *)

FlushWrite ==
    /\ pc = "flushWrite" /\ HasSegmentId
    /\ segFiles' = [segFiles EXCEPT ![nextSegmentId] = [id \in Ids |-> MemDoc(id)]]
    /\ pc' = "flushLog"
    /\ UNCHANGED <<wal, writer, memTable, catalog, caller, doomed, history>>

FlushLog ==
    /\ pc = "flushLog"
    /\ WalAppend(FlushRecord)
    /\ memDocs' = Empty
    /\ memDeleted' = {}
    /\ segments' = segments \cup {nextSegmentId}
    /\ nextSegmentId' = nextSegmentId + 1
    /\ pc' = IF caller = "insert" /\ Cardinality(segments') >= CompactTrigger
             THEN "compactWrite" ELSE "idle"
    /\ UNCHANGED <<segFiles, segmentDeleted, caller, doomed, history>>

\* The Flush record is not appended, or the new segment cannot be opened: the
\* MemTable is kept and the next flush writes the same file again.
FlushLogFails ==
    /\ pc = "flushLog"
    /\ \/ WalAppendFails(FlushRecord)
       \/ "segOpen" \in Faults /\ WalAppend(FlushRecord)
    /\ pc' = "idle"
    /\ UNCHANGED <<segFiles, memTable, catalog, caller, doomed, history>>

-----------------------------------------------------------------------------
(* Compaction: write every active document into one new segment, remove    *)
(* the old files, open the new one, clear the MemTable, recreate the WAL.  *)

CompactWriteKeepingReaders ==
    /\ pc = "compactWrite" /\ HasSegmentId
    /\ segFiles' = [segFiles EXCEPT ![nextSegmentId] = AllDocuments]
    /\ doomed' = segments
    /\ pc' = "compactRemove"
    /\ UNCHANGED <<wal, writer, memTable, catalog, caller, history>>

CompactWrite ==
    /\ pc = "compactWrite" /\ HasSegmentId
    /\ segFiles' = [segFiles EXCEPT ![nextSegmentId] = AllDocuments]
    /\ doomed' = segments
    /\ segments' = {}
    /\ pc' = "compactRemove"
    /\ UNCHANGED <<wal, writer, memTable, segmentDeleted, nextSegmentId, caller, history>>

\* remove_file on the oldest of the old segments; its error is ignored.
CompactRemove ==
    /\ pc = "compactRemove"
    /\ doomed # {}
    /\ doomed' = doomed \ {Min(doomed)}
    /\ \/ segFiles' = [segFiles EXCEPT ![Min(doomed)] = NoFile]
       \/ "segRemove" \in Faults /\ UNCHANGED segFiles
    /\ UNCHANGED <<wal, writer, memTable, catalog, pc, caller, history>>

CompactSwapSameId ==
    /\ segments' = {nextSegmentId}
    /\ UNCHANGED nextSegmentId
    /\ segmentDeleted' = {}
    /\ memDocs' = Empty
    /\ memDeleted' = {}

CompactSwap ==
    /\ segments' = {nextSegmentId}
    /\ nextSegmentId' = nextSegmentId + 1
    /\ segmentDeleted' = {}
    /\ memDocs' = Empty
    /\ memDeleted' = {}

\* remove_file on the WAL (its error is ignored: the writer dropped by the
\* assignment flushes its buffer into the file that stayed) and a new writer.
CompactFinish ==
    /\ pc = "compactRemove"
    /\ doomed = {}
    /\ CompactSwap
    /\ \/ wal' = <<>> /\ walLinked' = TRUE
       \/ "walRemove" \in Faults /\ walLinked /\ wal' = wal \o walBuffer /\ UNCHANGED walLinked
    /\ walBuffer' = <<>>
    /\ pc' = "idle"
    /\ UNCHANGED <<segFiles, caller, doomed, history>>

\* The WAL cannot be opened again: compact returns the error and the engine keeps
\* its writer, of the file it has just unlinked or failed to.
CompactWalOpenFails ==
    /\ pc = "compactRemove"
    /\ doomed = {}
    /\ "walOpen" \in Faults
    /\ CompactSwap
    /\ \/ wal' = <<>> /\ walLinked' = FALSE
       \/ "walRemove" \in Faults /\ UNCHANGED <<wal, walLinked>>
    /\ pc' = "idle"
    /\ UNCHANGED <<segFiles, walBuffer, caller, doomed, history>>

\* The consolidated segment cannot be opened: the old segments are gone from
\* memory and from disk, and next_segment_id still names the new file.
CompactOpenFails ==
    /\ pc = "compactRemove"
    /\ doomed = {}
    /\ "segOpen" \in Faults
    /\ pc' = "idle"
    /\ UNCHANGED <<disk, writer, memTable, catalog, caller, doomed, history>>

-----------------------------------------------------------------------------
(* A write of a segment file that does not complete leaves nothing that    *)
(* can be opened, a file whose header is there and whose documents are not *)
(* (it opens as an empty segment), or all the documents without the index  *)
(* block (open scans them).                                                *)

PartialSegmentWrite ==
    LET docs == IF pc = "flushWrite" THEN [id \in Ids |-> MemDoc(id)] ELSE AllDocuments
    IN  HasSegmentId /\ \E left \in {NoFile, Empty, docs} : segFiles' = [segFiles EXCEPT ![nextSegmentId] = left]

Writing == pc \in {"flushWrite", "compactWrite"}

SegmentWriteFails ==
    /\ Writing
    /\ "segWrite" \in Faults
    /\ PartialSegmentWrite \/ UNCHANGED segFiles
    /\ pc' = "idle"
    /\ UNCHANGED <<wal, writer, memTable, catalog, caller, doomed, history>>

-----------------------------------------------------------------------------
(* Crash and recovery.                                                     *)

LoseMemory ==
    /\ pc' = "down"
    /\ memDocs' = Empty
    /\ memDeleted' = {}
    /\ segments' = {}
    /\ segmentDeleted' = {}
    /\ nextSegmentId' = 0
    /\ walBuffer' = <<>>
    /\ walLinked' = TRUE
    /\ doomed' = {}
    /\ UNCHANGED caller

\* A delete that was not followed by a compaction does not outlive the process
\* in segment_deleted.
ForgetTombstones == gone' = gone \ segmentDeleted /\ UNCHANGED <<inserted, everDeleted, latest>>

Crash ==
    /\ pc # "down"
    /\ LoseMemory
    /\ ForgetTombstones
    /\ \/ UNCHANGED disk
       \/ Writing /\ PartialSegmentWrite /\ UNCHANGED wal

\* The process dies inside WalWriter::append of a record longer than the
\* BufWriter's 8 KB: header and payload are two writes.
CrashInAppend ==
    /\ TornAppend
    /\ pc = "idle" /\ WalHasRoom /\ walLinked
    /\ wal' = Append(wal \o walBuffer, TornRecord)
    /\ LoseMemory
    /\ ForgetTombstones
    /\ UNCHANGED segFiles

\* The machine loses power: without wal_sync the tail of the WAL may be lost
\* or torn, while segment files, once written, were synced.
PowerLoss ==
    /\ pc # "down"
    /\ ~WalSync
    /\ \E n \in 0 .. Len(wal) :
          \/ wal' = SubSeq(wal, 1, n)
          \/ TornAppend /\ n < Len(wal) /\ wal' = Append(SubSeq(wal, 1, n), TornRecord)
    /\ LoseMemory
    /\ ForgetTombstones
    /\ UNCHANGED segFiles \/ (Writing /\ PartialSegmentWrite)

\* The engine is dropped: the BufWriter flushes what it holds.
Close ==
    /\ pc = "idle"
    /\ wal' = IF walLinked THEN wal \o walBuffer ELSE wal
    /\ LoseMemory
    /\ ForgetTombstones
    /\ UNCHANGED segFiles

OpenReusingLastId ==
    /\ pc = "down"
    /\ segments' = OnDisk
    /\ nextSegmentId' = IF OnDisk = {} THEN 0 ELSE Max(OnDisk)
    /\ memDocs' = ReplayDocs(wal)
    /\ memDeleted' = ReplayDeleted(wal)
    /\ pc' = "idle"
    /\ UNCHANGED <<disk, writer, segmentDeleted, caller, doomed, history>>

OpenIgnoringWal ==
    /\ pc = "down"
    /\ segments' = OnDisk
    /\ nextSegmentId' = IF OnDisk = {} THEN 0 ELSE Max(OnDisk) + 1
    /\ pc' = "idle"
    /\ UNCHANGED <<disk, writer, memTable, segmentDeleted, caller, doomed, history>>

Open ==
    /\ pc = "down"
    /\ segments' = OnDisk
    /\ nextSegmentId' = IF OnDisk = {} THEN 0 ELSE Max(OnDisk) + 1
    /\ memDocs' = ReplayDocs(wal)
    /\ memDeleted' = ReplayDeleted(wal)
    /\ pc' = "idle"
    /\ UNCHANGED <<disk, writer, segmentDeleted, caller, doomed, history>>

-----------------------------------------------------------------------------
Init ==
    /\ wal = <<>>
    /\ segFiles = [s \in SegmentIds |-> NoFile]
    /\ walBuffer = <<>>
    /\ walLinked = TRUE
    /\ memDocs = Empty
    /\ memDeleted = {}
    /\ segments = {}
    /\ segmentDeleted = {}
    /\ nextSegmentId = 0
    /\ pc = "down"
    /\ caller = "admin"
    /\ doomed = {}
    /\ inserted = [id \in Ids |-> {}]
    /\ everDeleted = {}
    /\ latest = Empty
    /\ gone = {}

Write == \E id \in Ids :
    \/ \E v \in Versions : Insert(id, v) \/ InsertFails(id, v)
    \/ Delete(id)
    \/ DeleteFails(id)

Maintenance ==
    \/ Flush \/ FlushWrite \/ FlushLog \/ FlushLogFails
    \/ Compact \/ CompactWrite \/ CompactRemove \/ CompactFinish
    \/ CompactWalOpenFails \/ CompactOpenFails
    \/ SegmentWriteFails

Restart == Crash \/ CrashInAppend \/ PowerLoss \/ Close \/ Open

Next == Write \/ Maintenance \/ Restart

Spec == Init /\ [][Next]_vars

-----------------------------------------------------------------------------
(* Properties.                                                             *)

\* Type invariant of the engine's disk, memory and history.
TypeOK ==
    /\ wal \in Seq(Records)
    /\ segFiles \in [SegmentIds -> Contents \cup {NoFile}]
    /\ walBuffer \in Seq(Records)
    /\ walLinked \in BOOLEAN
    /\ memDocs \in Contents
    /\ memDeleted \subseteq Ids
    /\ segments \subseteq OnDisk
    /\ segmentDeleted \subseteq Ids
    /\ nextSegmentId \in 0 .. MaxSegmentId + 1
    /\ pc \in {"down", "idle", "flushWrite", "flushLog", "compactWrite", "compactRemove"}
    /\ pc \in {"flushLog", "compactRemove"} => nextSegmentId \in SegmentIds
    /\ caller \in {"insert", "admin"}
    /\ doomed \subseteq OnDisk
    /\ inserted \in [Ids -> SUBSET Versions]
    /\ everDeleted \subseteq Ids
    /\ latest \in Contents
    /\ gone \subseteq Ids

\* A document whose inserts all carried one body, the last of them accepted,
\* and that was never deleted: all there is when ids are fresh UUIDs.
WriteOnce(id) ==
    /\ latest[id] # None
    /\ inserted[id] = {latest[id]}
    /\ id \notin everDeleted

\* Whatever the MemTable holds or hides can be rebuilt: at every moment the
\* WAL replays to the MemTable's document of an id, and to its deletion.
\* Flush clears the MemTable before the WAL and compaction clears both, the
\* MemTable first, so this must hold in that order too.
MemTableRecoverable == \A id \in Ids :
    /\ memDocs[id] # None => ReplayDocs(wal)[id] = memDocs[id]
    /\ id \in memDeleted => id \in ReplayDeleted(wal)

\* A document logged once is never lost: at every step of a flush or of a
\* compaction, were the process to die there, the next open would find it.
WriteOnceDurable == \A id \in Ids :
    WriteOnce(id) => Recovered(id) = latest[id]

\* Between two operations a document logged once is answered by get and
\* listed by all_documents, whichever of MemTable and segments holds it.
WriteOnceVisible == pc = "idle" => \A id \in Ids :
    WriteOnce(id) => Get(id) = latest[id] /\ AllDocuments[id] = latest[id]

\* A deleted document stays deleted, in get and all_documents, until the
\* process ends; once a compaction completed, across restarts as well.
GoneStaysGone == \A id \in gone :
    /\ pc = "idle" => Get(id) = None /\ AllDocuments[id] = None
    /\ id \notin segmentDeleted => Recovered(id) = None

\* The vector of open segments is in ascending order of ids because every new
\* segment's id is above those of all files there are, save the one a failed
\* or interrupted flush left and the next one overwrites.
SegmentIdsFresh == pc # "down" => \A s \in OnDisk :
    s < nextSegmentId \/ (s = nextSegmentId /\ s \notin segments \cup doomed)

\* No step writes over a segment file a reader has open.
OpenSegmentsKept == \A s \in segments \cap segments' : segFiles'[s] = segFiles[s]
OpenSegmentsImmutable == [][OpenSegmentsKept]_vars

\* A document logged once that reached a segment file stays in one: neither a
\* compaction nor the writing over a file that a crash left takes the last copy.
InSegment(id) == NewestIn(OnDisk, id) # None
FlushedIsDurable == [][\A id \in Ids :
    WriteOnce(id) /\ WriteOnce(id)' /\ InSegment(id) => InSegment(id)']_vars

-----------------------------------------------------------------------------
(* What the engine implements while every id is written once: the map of   *)
(* DocumentStore changes when an insert is logged; flush, compaction,      *)
(* crash and recovery, step by step, do not change it.                     *)

\* Nothing was deleted, and each id was given one body only, by an insert that was
\* accepted if it was tried: one that the log refused may have left its record.
WrittenOnce ==
    /\ everDeleted = {}
    /\ \A id \in Ids : inserted[id] \subseteq {latest[id]}

DurableDocuments == [id \in Ids |-> Recovered(id)]

VisibleDocuments ==
    IF pc = "down" THEN NoFile    \* no table of documents at all
    ELSE IF pc = "idle" THEN [id \in Ids |-> Get(id)]
    ELSE DurableDocuments     \* readers wait for the collection's lock

Documents == INSTANCE DocumentStore
    WITH store <- DurableDocuments, view <- VisibleDocuments, Offline <- NoFile

\* Where every id is written once the engine is a durable, growing map of
\* documents: this is the promise of the WAL, the MemTable and the segments.
ImplementsDocumentStore ==
    /\ Documents!Init
    /\ [][WrittenOnce /\ WrittenOnce' =>
            [Documents!Next]_<<DurableDocuments, VisibleDocuments>>]_vars

-----------------------------------------------------------------------------
(* What the code's comments say and the code does not do.                  *)

\* "Recover in-memory state via WAL replay during startup" (engine.rs): a
\* document whose last operation is a delete is not found.
DeletedIsInvisible == pc = "idle" => \A id \in everDeleted : latest[id] = None => Get(id) = None

=============================================================================
