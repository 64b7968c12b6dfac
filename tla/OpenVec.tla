------------------------------ MODULE OpenVec ------------------------------
(***************************************************************************)
(* The catalog of collections (crates/openvec-core/src/db/mod.rs): threads *)
(* create, get and drop collections over two read-write locks, the file    *)
(* _meta.json and one directory per collection; the process may die at any *)
(* moment and be started again.                                            *)
(*                                                                         *)
(* Each step is what a thread does under one acquisition of a lock, or one *)
(* effect on disk.  A read lock is held within a step only, so that just   *)
(* the writers of the two locks are recorded.  A creation is a number that *)
(* stands for the CollectionMeta it writes.                                *)
(***************************************************************************)
EXTENDS Integers, FiniteSets, FiniteSetsExt

CONSTANTS
    Threads,        \* the callers: handlers of the server, or of an embedding program
    Names,          \* names of collections
    None,           \* no creation, no handle, no job, no holder of a lock
    NoDir,          \* no directory
    Faults,         \* the effects on disk that may fail
    MaxCreations,   \* bound: calls of create_collection
    MaxEngines      \* bound: collections open at a time

DiskCalls == {"saveMeta", "openCollection", "removeDir", "loadMeta"}

ASSUME CatalogAssumption ==
    /\ Faults \subseteq DiskCalls
    /\ MaxCreations \in Nat
    /\ MaxEngines \in Nat
    /\ None \notin Threads \cup Names
    /\ None \notin 1 .. MaxCreations \cup 1 .. MaxEngines
    /\ \A s \in SUBSET (1 .. MaxCreations) : NoDir # s

VARIABLES
    meta,             \* OpenVec.meta: the creation each name is registered with
    collections,      \* OpenVec.collections: the open collection of a name
    metaLock,         \* the thread that holds meta for writing
    collectionsLock,  \* the thread that holds collections for writing
    metaFile,         \* what _meta.json holds
    dirs,             \* the creations whose documents a directory holds, or NoDir
    engines,          \* the open collections: name, creation, is the WAL in the directory?
    pc, job, handle,  \* of each thread: its step, its arguments, the Arc it got
    creations,        \* history: creations so far
    promised,         \* history: creations returned Ok of a name that no drop has found since
    parted,           \* history: the names whose entry a failed save or load has parted
                      \* from that in _meta.json
    contended         \* history: the names on which a change has overlapped another use

locks == <<metaLock, collectionsLock>>
threads == <<pc, job, handle>>
database == <<meta, collections, locks, metaFile, dirs, engines, threads,
              creations, promised, parted>>
vars == <<database, contended>>

Creations == 1 .. MaxCreations
EngineIds == 1 .. MaxEngines
Jobs == [name : Names, creation : Creations \cup {None}]
Engines == [name : Names, creation : Creations, attached : BOOLEAN]
NoCollections == [n \in Names |-> None]

ASSUME NoneAssumption == None \notin Jobs \cup Engines

Steps == {"checkAbsent", "insertMeta", "saveCreated", "openNew", "register",
          "checkPresent", "lookUp", "lockCollections", "readMeta", "openLazily",
          "checkLoaded", "lookUpLoaded",
          "checkDrop", "close", "findDir", "removeDir", "removeMeta", "saveDropped"}

Operating(t) == pc[t] \in Steps
Name(t) == job[t].name

\* A creation or a drop past the check of its name changes it; who opens or holds
\* a collection uses it.
Changing(t) == pc[t] \in {"insertMeta", "saveCreated", "openNew", "register",
                          "close", "findDir", "removeDir", "removeMeta", "saveDropped"}
Using(t) == Changing(t) \/ pc[t] \in {"readMeta", "openLazily", "holding"}
ChangersOf(n) == {t \in Threads : Changing(t) /\ Name(t) = n}
Contention(n) == \E t \in ChangersOf(n) : \E u \in Threads \ {t} : Using(u) /\ Name(u) = n

-----------------------------------------------------------------------------
(* Steps of every operation.                                               *)

Goto(t, step) == pc' = [pc EXCEPT ![t] = step]

\* A handle, or the entry of a name, is an Arc: a collection nobody refers to
\* any more is closed.
Referenced(e) == (\E n \in Names : collections'[n] = e) \/ (\E t \in Threads : handle'[t] = e)
CloseUnused(open) == engines' = [e \in EngineIds |-> IF Referenced(e) THEN open[e] ELSE None]

Return(t) ==
    /\ Goto(t, "idle")
    /\ job' = [job EXCEPT ![t] = None]
    /\ handle' = [handle EXCEPT ![t] = None]

Call(t, n, c, step) ==
    /\ pc[t] = "idle"
    /\ job' = [job EXCEPT ![t] = [name |-> n, creation |-> c]]
    /\ Goto(t, step)

\* Collection::open creates the directory when there is none.
Content(n) == IF dirs[n] = NoDir THEN {} ELSE dirs[n]
FreeEngines == {e \in EngineIds : engines[e] = None}

OpenCollection(t) ==
    LET e == Min(FreeEngines)
    IN  /\ FreeEngines # {}
        /\ dirs' = [dirs EXCEPT ![Name(t)] = Content(Name(t))]
        /\ handle' = [handle EXCEPT ![t] = e]
        /\ engines' = [engines EXCEPT ![e] =
               [name |-> Name(t), creation |-> job[t].creation, attached |-> TRUE]]

OpenCollectionFails(t) ==
    /\ "openCollection" \in Faults
    /\ dirs' = [dirs EXCEPT ![Name(t)] = Content(Name(t))] \/ UNCHANGED dirs

-----------------------------------------------------------------------------
(* create_collection, create_collection_with_schema.                       *)

Create(t, n) ==
    /\ creations < MaxCreations
    /\ Call(t, n, creations + 1, "checkAbsent")
    /\ creations' = creations + 1
    /\ UNCHANGED <<meta, collections, locks, metaFile, dirs, engines, handle, promised, parted>>

CheckAbsentSkipped(t) ==
    /\ pc[t] = "checkAbsent" /\ metaLock = None
    /\ Goto(t, "insertMeta")
    /\ UNCHANGED <<meta, collections, locks, metaFile, dirs, engines, job, handle, creations,
                   promised, parted>>

CheckAbsent(t) ==
    /\ pc[t] = "checkAbsent" /\ metaLock = None
    /\ \/ meta[Name(t)] # None /\ Return(t)
       \/ meta[Name(t)] = None /\ Goto(t, "insertMeta") /\ UNCHANGED <<job, handle>>
    /\ UNCHANGED <<meta, collections, locks, metaFile, dirs, engines, creations, promised, parted>>

InsertMetaUnlocked(t) ==
    /\ pc[t] = "insertMeta" /\ metaLock = None
    /\ meta' = [meta EXCEPT ![Name(t)] = job[t].creation]
    /\ Goto(t, "saveCreated")
    /\ UNCHANGED <<collections, locks, metaFile, dirs, engines, job, handle, creations, promised,
                   parted>>

InsertMeta(t) ==
    /\ pc[t] = "insertMeta" /\ metaLock = None
    /\ metaLock' = t
    /\ meta' = [meta EXCEPT ![Name(t)] = job[t].creation]
    /\ Goto(t, "saveCreated")
    /\ UNCHANGED <<collections, collectionsLock, metaFile, dirs, engines, job, handle, creations,
                   promised, parted>>

SaveMetaLeakingGuard(t) ==
    /\ pc[t] \in {"saveCreated", "saveDropped"}
    /\ metaFile' = meta
    /\ \/ pc[t] = "saveCreated" /\ Goto(t, "openNew") /\ UNCHANGED <<job, handle, metaLock>>
       \/ pc[t] = "saveDropped" /\ Return(t) /\ metaLock' = None
    /\ UNCHANGED <<meta, collections, collectionsLock, dirs, engines, creations, promised, parted>>

\* The write of a temporary file and its renaming, under the lock; shared with
\* drop_collection.
SaveMeta(t) ==
    /\ pc[t] \in {"saveCreated", "saveDropped"}
    /\ metaFile' = meta
    /\ metaLock' = None
    /\ \/ pc[t] = "saveCreated" /\ Goto(t, "openNew") /\ UNCHANGED <<job, handle>>
       \/ pc[t] = "saveDropped" /\ Return(t)
    /\ UNCHANGED <<meta, collections, collectionsLock, dirs, engines, creations, promised, parted>>

SaveMetaFails(t) ==
    /\ pc[t] \in {"saveCreated", "saveDropped"}
    /\ "saveMeta" \in Faults
    /\ metaLock' = None
    /\ Return(t)
    /\ parted' = parted \cup {Name(t)}
    /\ UNCHANGED <<meta, collections, collectionsLock, metaFile, dirs, engines, creations,
                   promised>>

OpenNew(t) ==
    /\ pc[t] = "openNew"
    /\ \/ OpenCollection(t) /\ Goto(t, "register") /\ UNCHANGED job
       \/ OpenCollectionFails(t) /\ Return(t) /\ UNCHANGED engines
    /\ UNCHANGED <<meta, collections, locks, metaFile, creations, promised, parted>>

Register(t) ==
    /\ pc[t] = "register" /\ collectionsLock = None
    /\ collections' = [collections EXCEPT ![Name(t)] = handle[t]]
    /\ promised' = [promised EXCEPT ![Name(t)] = @ \cup {job[t].creation}]
    /\ Goto(t, "holding")
    /\ UNCHANGED <<meta, locks, metaFile, dirs, job, handle, creations, parted>>
    /\ CloseUnused(engines)

-----------------------------------------------------------------------------
(* get_collection: loads the collection the first time it is asked for.    *)

Get(t, n) ==
    /\ Call(t, n, None, "checkPresent")
    /\ UNCHANGED <<meta, collections, locks, metaFile, dirs, engines, handle, creations, promised,
                   parted>>

CheckPresent(t) ==
    /\ pc[t] = "checkPresent" /\ metaLock = None
    /\ \/ meta[Name(t)] = None /\ Return(t)
       \/ meta[Name(t)] # None /\ Goto(t, "lookUp") /\ UNCHANGED <<job, handle>>
    /\ UNCHANGED <<meta, collections, locks, metaFile, dirs, engines, creations, promised, parted>>

TakeRegistered(t, step) ==
    /\ collections[Name(t)] # None
    /\ handle' = [handle EXCEPT ![t] = collections[Name(t)]]
    /\ Goto(t, step)
    /\ UNCHANGED job

LookUp(t) ==
    /\ pc[t] = "lookUp" /\ collectionsLock = None
    /\ \/ TakeRegistered(t, "holding")
       \/ collections[Name(t)] = None /\ Goto(t, "lockCollections") /\ UNCHANGED <<job, handle>>
    /\ UNCHANGED <<meta, collections, locks, metaFile, dirs, engines, creations, promised, parted>>

LockCollectionsUnchecked(t) ==
    /\ pc[t] = "lockCollections" /\ collectionsLock = None
    /\ collectionsLock' = t
    /\ Goto(t, "readMeta")
    /\ UNCHANGED <<job, handle, meta, collections, metaLock, metaFile, dirs, engines, creations,
                   promised, parted>>

LockCollectionsKept(t) ==
    /\ pc[t] = "lockCollections" /\ collectionsLock = None
    /\ collectionsLock' = t
    /\ \/ TakeRegistered(t, "holding")
       \/ collections[Name(t)] = None /\ Goto(t, "readMeta") /\ UNCHANGED <<job, handle>>
    /\ UNCHANGED <<meta, collections, metaLock, metaFile, dirs, engines, creations, promised,
                   parted>>

\* The write lock, and the second of the two checks.
LockCollections(t) ==
    /\ pc[t] = "lockCollections" /\ collectionsLock = None
    /\ \/ TakeRegistered(t, "holding") /\ UNCHANGED collectionsLock
       \/ /\ collections[Name(t)] = None
          /\ collectionsLock' = t
          /\ Goto(t, "readMeta")
          /\ UNCHANGED <<job, handle>>
    /\ UNCHANGED <<meta, collections, metaLock, metaFile, dirs, engines, creations, promised,
                   parted>>

ReadMetaDiscarded(t) ==
    /\ pc[t] = "readMeta" /\ metaLock = None
    /\ Goto(t, "openLazily")
    /\ UNCHANGED <<meta, collections, locks, metaFile, dirs, engines, job, handle, creations,
                   promised, parted>>

\* The unwrap panics when the name is no longer registered; unwinding releases
\* the lock.
ReadMeta(t) ==
    /\ pc[t] = "readMeta" /\ metaLock = None
    /\ \/ /\ meta[Name(t)] = None
          /\ Goto(t, "panicked")
          /\ collectionsLock' = None
          /\ UNCHANGED job
       \/ /\ meta[Name(t)] # None
          /\ Goto(t, "openLazily")
          /\ job' = [job EXCEPT ![t].creation = meta[Name(t)]]
          /\ UNCHANGED collectionsLock
    /\ UNCHANGED <<meta, collections, metaLock, metaFile, dirs, engines, handle, creations,
                   promised, parted>>

OpenLazily(t) ==
    /\ pc[t] = "openLazily"
    /\ collectionsLock' = None
    /\ \/ /\ OpenCollection(t)
          /\ collections' = [collections EXCEPT ![Name(t)] = handle'[t]]
          /\ Goto(t, "holding")
          /\ UNCHANGED job
       \/ OpenCollectionFails(t) /\ Return(t) /\ UNCHANGED <<collections, engines>>
    /\ UNCHANGED <<meta, metaLock, metaFile, creations, promised, parted>>

(* get_collection_read: the collection must be loaded.                     *)

GetRead(t, n) ==
    /\ Call(t, n, None, "checkLoaded")
    /\ UNCHANGED <<meta, collections, locks, metaFile, dirs, engines, handle, creations, promised,
                   parted>>

CheckLoaded(t) ==
    /\ pc[t] = "checkLoaded" /\ metaLock = None
    /\ \/ meta[Name(t)] = None /\ Return(t)
       \/ meta[Name(t)] # None /\ Goto(t, "lookUpLoaded") /\ UNCHANGED <<job, handle>>
    /\ UNCHANGED <<meta, collections, locks, metaFile, dirs, engines, creations, promised, parted>>

LookUpLoaded(t) ==
    /\ pc[t] = "lookUpLoaded" /\ collectionsLock = None
    /\ \/ TakeRegistered(t, "holding")
       \/ collections[Name(t)] = None /\ Return(t)
    /\ UNCHANGED <<meta, collections, locks, metaFile, dirs, engines, creations, promised, parted>>

-----------------------------------------------------------------------------
(* drop_collection.                                                        *)

Drop(t, n) ==
    /\ Call(t, n, None, "checkDrop")
    /\ UNCHANGED <<meta, collections, locks, metaFile, dirs, engines, handle, creations, promised,
                   parted>>

CheckDrop(t) ==
    /\ pc[t] = "checkDrop" /\ metaLock = None
    /\ \/ meta[Name(t)] = None /\ Return(t) /\ UNCHANGED promised
       \/ /\ meta[Name(t)] # None
          /\ Goto(t, "close")
          /\ promised' = [promised EXCEPT ![Name(t)] = {}]
          /\ UNCHANGED <<job, handle>>
    /\ UNCHANGED <<meta, collections, locks, metaFile, dirs, engines, creations, parted>>

CloseRegisteredSkipped(t) ==
    /\ pc[t] = "close" /\ collectionsLock = None
    /\ Goto(t, "findDir")
    /\ UNCHANGED <<meta, collections, locks, metaFile, dirs, engines, job, handle, creations,
                   promised, parted>>

CloseRegistered(t) ==
    /\ pc[t] = "close" /\ collectionsLock = None
    /\ collections' = [collections EXCEPT ![Name(t)] = None]
    /\ Goto(t, "findDir")
    /\ UNCHANGED <<meta, locks, metaFile, dirs, job, handle, creations, promised, parted>>
    /\ CloseUnused(engines)

FindDir(t) ==
    /\ pc[t] = "findDir"
    /\ Goto(t, IF dirs[Name(t)] = NoDir THEN "removeMeta" ELSE "removeDir")
    /\ UNCHANGED <<meta, collections, locks, metaFile, dirs, engines, job, handle, creations,
                   promised, parted>>

RemoveDirKeepingFiles(t) ==
    /\ pc[t] = "removeDir"
    /\ Goto(t, "removeMeta")
    /\ UNCHANGED <<meta, collections, locks, metaFile, dirs, engines, job, handle, creations,
                   promised, parted>>

\* remove_dir_all returns an error when another drop removed the directory
\* first.  A collection still open keeps its files without their names.
RemoveDir(t) ==
    /\ pc[t] = "removeDir"
    /\ \/ /\ dirs[Name(t)] # NoDir
          /\ dirs' = [dirs EXCEPT ![Name(t)] = NoDir]
          /\ engines' = [e \in EngineIds |->
                IF engines[e] # None /\ engines[e].name = Name(t)
                THEN [engines[e] EXCEPT !.attached = FALSE] ELSE engines[e]]
          /\ Goto(t, "removeMeta")
          /\ UNCHANGED <<job, handle>>
       \/ /\ dirs[Name(t)] = NoDir \/ "removeDir" \in Faults
          /\ Return(t)
          /\ UNCHANGED <<dirs, engines>>
    /\ UNCHANGED <<meta, collections, locks, metaFile, creations, promised, parted>>

RemoveMeta(t) ==
    /\ pc[t] = "removeMeta" /\ metaLock = None
    /\ metaLock' = t
    /\ meta' = [meta EXCEPT ![Name(t)] = None]
    /\ Goto(t, "saveDropped")
    /\ UNCHANGED <<collections, collectionsLock, metaFile, dirs, engines, job, handle, creations,
                   promised, parted>>

-----------------------------------------------------------------------------
(* What a caller does with its handle.  An insert is logged in the WAL the *)
(* collection opened, which may have lost its name; a flush writes its     *)
(* segment by path and creates the directory when it is missing.           *)

Write(t) ==
    LET e == engines[handle[t]]
    IN  /\ pc[t] = "holding"
        /\ \/ e.attached /\ dirs' = [dirs EXCEPT ![e.name] = @ \cup {e.creation}]
           \/ dirs' = [dirs EXCEPT ![e.name] = Content(e.name) \cup {e.creation}]
        /\ UNCHANGED <<meta, collections, locks, metaFile, engines, threads, creations, promised,
                       parted>>

Release(t) ==
    /\ pc[t] \in {"holding", "panicked"}
    /\ Return(t)
    /\ UNCHANGED <<meta, collections, locks, metaFile, dirs, creations, promised, parted>>
    /\ CloseUnused(engines)

\* The process dies and OpenVec::open loads the metadata; a file that cannot
\* be read counts as an empty database.
Restart ==
    /\ \/ meta' = metaFile /\ UNCHANGED parted
       \/ "loadMeta" \in Faults /\ meta' = NoCollections /\ parted' = Names
    /\ collections' = NoCollections
    /\ metaLock' = None
    /\ collectionsLock' = None
    /\ engines' = [e \in EngineIds |-> None]
    /\ pc' = [t \in Threads |-> "idle"]
    /\ job' = [t \in Threads |-> None]
    /\ handle' = [t \in Threads |-> None]
    /\ UNCHANGED <<metaFile, dirs, creations, promised>>

-----------------------------------------------------------------------------
Init ==
    /\ meta = NoCollections
    /\ collections = NoCollections
    /\ metaLock = None
    /\ collectionsLock = None
    /\ metaFile = NoCollections
    /\ dirs = [n \in Names |-> NoDir]
    /\ engines = [e \in EngineIds |-> None]
    /\ pc = [t \in Threads |-> "idle"]
    /\ job = [t \in Threads |-> None]
    /\ handle = [t \in Threads |-> None]
    /\ creations = 0
    /\ promised = [n \in Names |-> {}]
    /\ parted = {}
    /\ contended = {}

Start(t) == \E n \in Names : Create(t, n) \/ Get(t, n) \/ GetRead(t, n) \/ Drop(t, n)

Proceed(t) ==
    \/ CheckAbsent(t) \/ InsertMeta(t) \/ SaveMeta(t) \/ SaveMetaFails(t) \/ OpenNew(t)
    \/ Register(t)
    \/ CheckPresent(t) \/ LookUp(t) \/ LockCollections(t) \/ ReadMeta(t) \/ OpenLazily(t)
    \/ CheckLoaded(t) \/ LookUpLoaded(t)
    \/ CheckDrop(t) \/ CloseRegistered(t) \/ FindDir(t) \/ RemoveDir(t) \/ RemoveMeta(t)

Step ==
    \/ \E t \in Threads : Start(t) \/ Proceed(t) \/ Write(t) \/ Release(t)
    \/ Restart

\* The overlaps are recorded, whichever step leads to one.
Next == Step /\ contended' = contended \cup {n \in Names : Contention(n)'}

Spec == Init /\ [][Next]_vars

\* A thread inside an operation is scheduled, and a lock that is released again
\* and again is eventually granted to everyone who waits for it: parking_lot's
\* locks are eventually fair.
FairSpec == Spec /\ \A t \in Threads : SF_database(Proceed(t))

-----------------------------------------------------------------------------
(* Properties.                                                             *)

\* Type invariant of the catalog and its threads.
TypeOK ==
    /\ meta \in [Names -> Creations \cup {None}]
    /\ collections \in [Names -> EngineIds \cup {None}]
    /\ metaLock \in Threads \cup {None}
    /\ collectionsLock \in Threads \cup {None}
    /\ metaFile \in [Names -> Creations \cup {None}]
    /\ dirs \in [Names -> (SUBSET Creations) \cup {NoDir}]
    /\ engines \in [EngineIds -> Engines \cup {None}]
    /\ pc \in [Threads -> Steps \cup {"idle", "holding", "panicked"}]
    /\ job \in [Threads -> Jobs \cup {None}]
    /\ handle \in [Threads -> EngineIds \cup {None}]
    /\ creations \in 0 .. MaxCreations
    /\ promised \in [Names -> SUBSET Creations]
    /\ parted \in SUBSET Names
    /\ contended \in SUBSET Names

\* Whenever nobody is writing the metadata, _meta.json holds all of it, but for the
\* names whose own save failed: no thread overwrites it with what it saw before
\* another one changed it, however they interleave.
MetaSaved == metaLock = None => \A n \in Names \ parted : metaFile[n] = meta[n]

\* The holder of meta never waits for a lock and the holder of collections waits
\* for meta only: the order that keeps the two locks from deadlocking.
LocksOrdered ==
    /\ metaLock # None => pc[metaLock] \in {"saveCreated", "saveDropped"}
    /\ collectionsLock # None => pc[collectionsLock] \in {"readMeta", "openLazily"}

\* The code leaves it to its callers not to create or drop a name while somebody
\* else opens, holds, creates or drops that name.  What follows is claimed of each
\* name for which they have kept to that, whatever they do to the others; that it
\* fails of a name for which they have not, is what ThreadSafe below shows.
Quiet == Names \ contended

\* However many threads get a quiet name at the same time, as a second creation
\* of it is refused or while it is first created or dropped, one engine at a time
\* is open on its directory: two would interleave their logs and number their
\* segments alike.
OneEngineOn(n) == \A d, e \in EngineIds :
    /\ engines[d] # None /\ engines[d].attached /\ engines[d].name = n
    /\ engines[e] # None /\ engines[e].attached /\ engines[e].name = n
    => d = e
OneEnginePerDirectory == \A n \in Quiet : OneEngineOn(n)

\* A quiet collection that create_collection returned stays registered, in memory
\* and in _meta.json, until a drop finds it: neither a second creation of it, nor
\* what is done to other names, nor a failed save of them, nor a restart undoes it.
CreatedSurvives == \A n \in Quiet : \A c \in promised[n] : meta[n] = c /\ metaFile[n] = c

\* "Drops a collection (deletes all data files)" (drop_collection): of a quiet name
\* that is not registered nothing is left, wherever a drop or a creation of it was
\* cut short or failed, and neither step of one exposes it.
DropLeavesNothing == \A n \in Quiet \ parted :
    meta[n] = None => dirs[n] = NoDir /\ collections[n] = None

\* A quiet collection never shows documents of an earlier one of its name, and the
\* open collection is the one that is registered.
NoGhosts == \A n \in Quiet \ parted : meta[n] # None =>
    /\ Content(n) \subseteq {meta[n]}
    /\ collections[n] # None => engines[collections[n]].creation = meta[n]

\* Every operation ends: no deadlock between the two locks, no starvation.
OperationsEnd == \A t \in Threads : Operating(t) ~> ~Operating(t)

-----------------------------------------------------------------------------
(* What the code says of every name, and concurrent callers refute.        *)

\* "Thread-safe (protects collection state via internal locking)" (OpenVec): whoever
\* creates, gets and drops a name at the same time, no two engines share its
\* directory, and nobody panics on metadata it has checked.
ThreadSafe ==
    /\ \A n \in Names : OneEngineOn(n)
    /\ \A t \in Threads : pc[t] # "panicked"

=============================================================================
