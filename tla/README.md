# OpenVec in TLA+

A TLA+ development of OpenVec, an embedded vector database with an HTTP/gRPC
server (`src/`): models of its parts, the TLC configurations that check them on
small instances, and proofs that TLAPS checks for every value of the constants.
`core/` below abbreviates `src/crates/openvec-core/src/`.

## 1. Inventory of the system

| Component | State | Operations | What is hard about it | What makes it correct |
|---|---|---|---|---|
| Storage engine `core/storage/engine.rs` | MemTable (`docs`, `deleted`), open `segments`, `segment_deleted`, `next_segment_id`, a WAL writer; on disk `current.wal` and `*.seg` | `open`, `insert`, `delete`, `get`, `all_documents`, `flush`, `compact` | a crash or an I/O error between any two effects on disk; the same document in log, MemTable and several segments; tombstones in memory only | an acknowledged document is found, now and after a restart; a deleted one is not; no file in use is overwritten |
| Write-ahead log `core/storage/wal.rs` | a file of records, a `BufWriter` in front of it | `append`, `replay`, recreated by `compact` | torn tail, failed append, power loss without `wal_sync`, an unlinked file | replay yields what the MemTable held |
| Segment files `core/storage/segment.rs` | header, documents, index block | `write`, `open`, `read_document`, `read_all_documents` | a partially written file; LZ4 without index block | what was written is read back, from whichever index |
| Collection `core/collection/mod.rs` | an engine, a vector index per field, a full-text index, `index_default.json`; one `RwLock` | `open`, `insert`, `batch_insert`, `delete`, `get`, `search`, `flush`, `compact`, `save_index` | the index file and the storage are saved at different times; early returns in the middle of an insert; the index is replaced at a threshold | every stored document is indexed and the reverse, across restarts |
| Flat index `core/index/flat.rs` | entries, a map of ids to positions, a count | `insert`, `delete`, `search`, (de)serialisation | tombstones that come back, a count that decides whether a search looks at all, what a file does not keep | ids, positions and count agree; the answer is exact |
| HNSW index `core/index/hnsw.rs` | a graph with layers, an entry point, tombstones | the same | a deleted entry point, one-sided pruning, updates that keep their links | the graph stays walkable; a live document is found, a deleted one is not |
| IVF-SQ8 index `core/index/ivf_sq8.rs` | a training cache, centroids, a list per centroid, a quantizer | the same, and `retrain` | training in the middle of an insert, two places for a document, a saturating count, rounding | each document is in one place; an answer is off by at most a step of the quantizer |
| Full-text index `core/fulltext/` | postings, document lengths, totals | `insert`, `delete`, `search`, `tokenize` | several fields of one document, overwrite | postings and totals agree with the documents |
| Hybrid fusion `core/db/hybrid.rs` | none | reciprocal rank fusion | ids in one list only, equal scores | what both rankings prefer comes first |
| Filters, schema `core/types/mod.rs` | none | evaluation of a filter tree | missing fields, mixed types | agrees with the Boolean reading |
| Database catalog `core/db/mod.rs` | `meta` and `collections`, each behind an `RwLock`; `_meta.json`, one directory per collection | `open`, `create_collection`, `create_collection_with_schema`, `get_collection`, `get_collection_read`, `drop_collection`, `collection_exists`, `list_collections` | check-then-act over two locks by many threads; crash between directory and metadata | one engine per directory; a created collection is found until it is dropped |
| Distances `core/distance/` | none | three metrics, floating-point kernels, CPU dispatch | - | smaller is nearer; the kernels are numerical |
| Server `crates/openvec-server` | one shared `OpenVec` | HTTP and gRPC handlers, one call of the core each | concurrent handlers are the threads of the catalog | as the catalog |
| CLI, Python binding, scripts, benches | none | clients | - | not modelled |

Interaction. A server handler calls `OpenVec` (any number of threads), which
hands out `Arc<Collection>`; a collection's `RwLock` makes its operations
atomic with respect to each other, and below it the storage engine is
sequential. There are no background threads: flush and compaction run inside
the insert that reaches a threshold, or when called. Failures are those of the
process (crash), of the machine (power loss) and of single I/O calls.

The hazards this leads to, each at its line, are listed in `PROJECT.json`
under `hazards`, with the properties that cover them.

## 2. The modules

Each is parameterised by CONSTANTS with named assumptions and has one action per
operation or per atomic step of one.

| Part | Modules | Section |
|---|---|---|
| storage engine, log, segments | **StorageEngine**, its abstraction **DocumentStore**, **StorageEngineProofs** | 3 |
| catalog | **OpenVec**, **OpenVecProofs** | 4 |
| collection over the engine | **Collection**, an instance of StorageEngine with its variables; **CollectionProofs** | 5 |
| collection over its indexes, search | **CollectionSearch** over **FlatIndex**, **InvertedIndex**, **Tokenizer**, **HybridFusion**, **Filters**, which stand on **Documents** and **Distance**; **CollectionIndexProofs**, **CollectionSearchProofs** | 6 |
| approximate indexes | **IvfSq8Index**, **IvfSq8IndexProofs**, **HnswIndex**, **HnswIndexProofs**; **IndexLemmas** for both and for the collection's search | 7 |
| what every vector index promises | **VectorIndex**, refined by each flat index of CollectionSearch, by IvfSq8Index and by HnswIndex | 6, 7 |

An `MC` module beside each gives the definitions its configuration uses. What
is left: the layout of segment files.

## 3. The storage engine: modules and correspondence

**StorageEngine** models `engine.rs`, `wal.rs` and the document level of
`segment.rs`. Operations are sequential, for the engine is reached only
through its collection's write lock, but each effect on disk is a step of its
own, ordered by `pc`, and the process may die before any of them.

| Model | Code |
|---|---|
| `wal` | the records in `current.wal`; a record cut short is a `TornRecord` |
| `walBuffer`, `walLinked` | what a failed append left in the `BufWriter`; whether the open file is still the one in the directory |
| `segFiles` | the documents each readable `*.seg` file yields, `NoFile` if there is none |
| `memDocs`, `memDeleted` | `MemTable.docs`, `MemTable.deleted` |
| `segments`, `segmentDeleted`, `nextSegmentId` | the fields of `StorageEngine` of those names |
| `pc`, `caller`, `doomed` | the position inside `flush` and `compact`, who called, the old segments not yet removed |
| `inserted`, `everDeleted`, `latest`, `gone` | history of what the callers asked for; no guard reads them |

`Insert` and `Delete` log and update the MemTable; `Insert` goes on to
`FlushWrite`, `FlushLog` and, at the trigger, `CompactWrite`, `CompactRemove`
(one file at a time), `CompactFinish`. `Flush` and `Compact` are the same
called directly. The error paths are `InsertFails`, `DeleteFails`,
`FlushLogFails`, `SegmentWriteFails`, `CompactOpenFails` and
`CompactWalOpenFails` (the WAL cannot be opened again, whether it was removed or
that failed too), enabled by the constant `Faults`. `Crash`,
`CrashInAppend` (a torn record), `PowerLoss` (without `wal_sync` the log loses
its tail) and `Close` end the process, `Open` recovers.

Abstractions: a document is its id and a version; the constants 4096 and 4 are
`FlushThreshold` and `CompactTrigger`; creations and removals of files are
durable at once; a segment that cannot be opened is no segment, which is how
`scan_segments` treats it; a read error of a file that was written whole is not
modelled; a WAL record that does not parse back (an infinite float, which JSON
turns into null) is not modelled.

**DocumentStore** is the abstract promise: a map of documents that only grows,
seen whole by readers whenever the process runs. `ImplementsDocumentStore`
maps its `store` to what recovery would find at each moment and its `view` to
what readers get. Flush, compaction, crash and recovery must be stutters or
`Stop`/`Start`. It is stated step by step of `Spec`: each step between states with
`WrittenOnce`, in which nothing has been deleted and each id was given one body
only, is a step of DocumentStore or a stutter. That is the workload of ids
drawn as fresh UUIDs. An id whose first append was refused is out of it until a
retry with the same body is accepted, for the refused record may have reached the
log. Updates and deletes are excluded because of the disagreements in section 10.

**StorageEngineProofs** holds the theorems, **MCStorageEngine** the symmetry.

## 4. The catalog of collections: module and correspondence

**OpenVec** models `db/mod.rs`: a set of threads, each inside at most one call,
over the two locks. A step is what a thread does under one acquisition of a
lock, or one effect on disk. A read lock that is taken and released within a
step is not recorded; the write locks are, in `metaLock` and `collectionsLock`.

| Model | Code |
|---|---|
| `meta`, `collections` | the maps behind the two `RwLock`s of `OpenVec` |
| `metaFile`, `dirs` | `_meta.json`; per name, whose documents the directory holds |
| `engines` | the open `Collection`s: name, creation, and whether the WAL they hold open is still in the directory |
| `pc`, `job`, `handle` | per thread: its step, its arguments, the `Arc<Collection>` it got |
| `creations`, `promised` | history: numbered creations, those of a name that returned `Ok` and that no drop has found since |
| `parted` | history: the names whose entry in memory a failed save or load has parted from that in `_meta.json` |
| `contended` | history: the names on which a creation or a drop has overlapped another use |

| Call | Steps |
|---|---|
| `create_collection`, `create_collection_with_schema` | `Create`, `CheckAbsent`, `InsertMeta`, `SaveMeta` or `SaveMetaFails`, `OpenNew`, `Register` |
| `get_collection` | `Get`, `CheckPresent`, `LookUp`, `LockCollections`, `ReadMeta`, `OpenLazily` |
| `get_collection_read` | `GetRead`, `CheckLoaded`, `LookUpLoaded` |
| `drop_collection` | `Drop`, `CheckDrop`, `CloseRegistered`, `FindDir`, `RemoveDir`, `RemoveMeta`, `SaveMeta` or `SaveMetaFails` |

`Write` is an insert or a flush through a handle, `Release` the end of a
handle (an engine nobody refers to is closed, as the last `Arc` closes it),
`Restart` the death of the process and `OpenVec::open`.

Nothing in the code keeps two callers of one name apart: its locks cover single
accesses to the maps, and the server's handlers share a read lock on the
database. So any thread may call anything at any time, in every run and in every
theorem. What the locks guarantee regardless is `MetaSaved`, `LocksOrdered` and
`OperationsEnd`. Beyond that the model records where callers have met:
`contended` gains a name when a thread past the check of a creation or of a drop
of it (`Changing`) is not the only one that changes, opens or holds it (`Using`).
A name is `Quiet` as long as that has not happened; gets of it may race each other,
creations of it may race up to their check, and the other name may be contended.
`OneEnginePerDirectory`, `CreatedSurvives`, `DropLeavesNothing` and `NoGhosts` are
claimed of quiet names, and only of them.

Of names that are not quiet they fail, which contradicts the comment on `OpenVec`,
"Thread-safe": the run `thread_safety` has TLC find it (`ThreadSafe`). The cases are
in section 10: a get beside a creation opens a second engine, two creations both
succeed, a drop makes a get panic, a drop overtaken by a get or a creation leaves
files or an open collection, and a handle that outlives the drop makes files anew.

Abstractions: a creation number stands for the metadata it writes; a directory
that is removed partly counts as not removed; `_meta.json` is written whole or
not at all, for it is renamed into place; names are taken to be valid.

**OpenVecProofs** holds the theorems, first those about the locks, then those
about collections and their files; **MCOpenVec** the symmetry.

## 5. The collection: module and correspondence

**Collection** models `collection/mod.rs` over an instance of StorageEngine
that shares its variables: an operation of the collection is an update of the
indexes conjoined with an operation of the engine, followed by the engine's own
steps and, at the end of an insert, the upgrade and the save of the index. The
process may die between any two of them.

| Model | Code |
|---|---|
| `vectors`, `kind` | the `AdaptiveIndex` of the vector field, as the body it has of each id, and whether it is still flat |
| `text` | the `InvertedIndex`, likewise |
| `indexFile` | `index_default.json`, `NoIndex` if there is none |
| `at`, `segmentsBefore` | the position inside `insert` and `batch_insert`; `before_flush_count` |
| `unsaved`, `lost`, `refused`, `failures` | history: a compaction not followed by a save, a process that ended so, ids whose insert the engine refused, errors so far |

| Call | Steps |
|---|---|
| `insert` | `Insert`, steps of the engine, `StoredOne`, and `SaveIndexInner` if the count of segments changed |
| `batch_insert` | `BatchInsert` and `StoredOneOfBatch` for each document, `EndBatch`, `SaveIndexInner` likewise |
| `delete`, `flush`, `compact`, `save_index` | `Delete`, `Flush`, `Compact`, `SaveIndexInner` |
| `open` | `Open`: `Rebuild` without an index file, otherwise `Load` and `CatchUp` |

Abstractions: one vector field and one full-text field, both in every document,
so that a document the index refuses changes nothing (several fields: section 6);
the index structures are the maps they promise to be (sections 6 and 7 say how
far they are); the index file is
written whole, for it is renamed into place; a power loss is not modelled here.
The engine's errors are those of appends and of segment writes.

**CollectionProofs** holds the theorems, **MCCollection** the symmetry.

## 6. Documents, indexes and search: modules and correspondence

**CollectionSearch** models what a search finds. It has the data that
Collection leaves out, and leaves out the engine: the storage keeps what it
acknowledged and everything is still in the MemTable, which is the case in which
the opening has most to replay. The indexes are flat, as they are below the
upgrade threshold.

| Model | Code |
|---|---|
| `stored`, `tombstones` | the MemTable's documents and deletions |
| `indexes` | `CollectionInner.indexes`, one flat index for each field |
| `text` | `CollectionInner.fulltext_index` |
| `indexFile` | `index_default.json`: per field the entries of its index, and the full-text index |
| `at`, `toReplay`, `toDelete` | the position inside `Collection::open`, whose loops over hash maps take any order |
| `given`, `refused`, `inserts` | history: the fields an id was given since its deletion, the ids whose last insert was refused |

| Call | Steps |
|---|---|
| `insert` | `Insert`; `InsertRefused` when a vector has a wrong length, with any of the other fields indexed before it |
| `delete`, `save_index` | `Delete`, `SaveIndex` |
| `open` | `OpenRebuilding` or `OpenLoading`, then `ReplayOne`, `DeleteOne`, and, for a full-text index that stayed empty, `RebuildText` and `RebuildTextOne`; `Opened` |
| `search` | the operator `Search`: the set of possible answers to a request |

`Search` is the whole of `Collection::search`: the over-fetching with a filter,
the filter inside the index and after it, the hybrid branch and its limits. It
is a set because the code leaves ties to the layout of hash maps and to an
unstable selection.

**FlatIndex** and **InvertedIndex** are operators on records with the fields of
the structs; **Tokenizer** turns a sequence of characters into terms, with the
pairs of CJK characters and the words of one byte that are dropped; **Filters**
evaluates a tree of conditions, typed as the code is (an int equals no float,
but compares with one); **HybridFusion** is the fusion in integer fractions;
**Distance** is the order of distances under the three metrics on vectors of one
component, where it is exact, with all the rankings that ties allow.

**VectorIndex** is the promise of the trait: a map from ids to vectors that can
be saved and replaced by what was saved (`Replace` by other contents is what the
retraining of section 7 adds to the trait). Each field's flat index is one
(`ImplementsVectorIndex`): an insert that other fields refuse, the replay and the
loading are steps of it or stutters.

Abstractions: an index file is whole and of the collection's own; a search
names a field of the schema and has a vector of its length; scores are their
order (BM25: more occurrences and a shorter text are better, whatever else).

## 7. The approximate indexes: modules and correspondence

**IvfSq8Index** models `ivf_sq8.rs`, an index on its own.

| Model | Code |
|---|---|
| `quantizer`, `centroids`, `postings`, `trainingCache`, `activeCount`, `docToPosting` | the fields of `IvfSq8Inner` |
| `metric` | that of `calc`, any of those the instance has vectors for |
| `bytes` | what `serialize_to_bytes` returned |
| `given`, `moved`, `countedTwice`, `leftoverDeleted` | history: what the callers gave, and the three ways in which the index departs from it, section 10 |

`InsertCold` fills the cache and, at the threshold, is the training of
`train`; `InsertTrained` is `insert_quantized`. The three branches of `delete` are
`DeletePosted`, `DeleteCached` and `DeleteAbsent`. `Retrain` takes a list of ids with
vectors, any of `Retrainings`: all the ids or some of them, known to the index or
not, with the vectors they had or others, an id possibly twice (its last vector
stays, in the list of the first). They take the place of what the lists
held, and the cache is left as it is; `given` and `moved` become what
the list says. `ImplementsVectorIndex` names each operation: an insertion adds its own
id and no other, with a training or without, a deletion takes out its own, a
retraining leaves exactly what it was given, a reload what was saved
(`KeepsPromise`). K-means is the code's: farthest points for seeds, then
Lloyd's iteration with the first of equal centroids, and integer averages (the
instance's vectors make them exact). `Quantize` rounds and clamps as the code
does, with `Levels` for 255, and `LutDistance` is the distance through the table.
The loops of k-means and of the training are recursive functions, over a count of
seeds or iterations, or over the positions of a sequence. `Snapshot` is what the
bytes hold, and the history that belongs to it. **IvfSq8IndexProofs** holds the
theorems.

**HnswIndex** models `hnsw.rs`, likewise. `Insert` is `Update` for a known id and
otherwise `Add`: the descent, then per layer the search, the links and the
pruning of each neighbour. `SearchLayer` is `search_layer`, its two heaps and the
visited set as sets: `Visit` is the body of its inner loop, `Expand` that of its
outer one, and `VisitEach`, `Walk` and `Descend` are recursive functions over the
neighbours of a node, the candidates and the layers. The level is any that
`random_level` may draw. `Search` starts at `StartOf`, which stands in for a
deleted entry point.

Abstractions: the vectors are such that no two are equally far from a third (the
heaps break ties by their layout), and no two documents have one vector.
**HnswIndexProofs** holds the theorems.

## 8. The runs

| Run | Instance | Shows |
|---|---|---|
| `engine` | 2 ids, 2 bodies, no I/O failure | the type invariant; the MemTable is always recoverable; a document written once is durable and visible, and once in a segment stays in one; a deleted one stays away until a restart, and after a compaction for good; over the steps with `WrittenOnce` the engine is a growing map (refinement of DocumentStore) |
| `engine_all_failures` | 1 id, 1 body, flush at every insert, every call may fail, power may be lost, appends torn | the segment catalog stays ordered and mapped files are not written, whatever fails |
| `catalog` | 2 threads, 2 names, any callers; opening, saving and removal may fail | `_meta.json` complete; and of quiet names: one engine per directory, creations survive, drops leave nothing, no documents of an earlier collection |
| `catalog_concurrent` | 2 threads, 1 name, any callers; the metadata write may fail | the two locks are taken in one order; every operation ends |
| `collection` | 2 ids, 1 body; one append or segment write may fail | what both indexes find is what the engine stores, after any restart; a deleted document is in neither; the engine so driven is a growing map, with these failures |
| `search` | 2 ids, 4 bodies of which one is refused, 2 fields, 2 full-text fields, 24 requests | the indexes stay consistent through every opening; vector searches are exact, filtered or not; a stored document is found; text searches know the last field; a hybrid search has what either part has, in an order both agree with; each flat index is a map |
| `ivf` | 3 ids, 3 vectors with l2 or 2 with cosine, 2 centroids, 4 levels, training at 3, 5 inserts | each document in one place; what each operation does to the documents held; the count; answers exact up to a step of the quantizer; a document is found in the first list probed |
| `hnsw` | 4 ids, 4 vectors, 2 layers, 3 neighbours at layer 0 and 1 above | the graph is well formed; a search finds something live, in order; a graph that needed to leave no link out is searched completely; the graph stands for a map |
| `delete_then_restart`, `thread_safety`, `restart_after_compaction`, `ivf_len` | as above, each with what it is about | what a comment claims and the code does not do, section 10 |

Bounds of the engine. `MaxRecords` bounds the WAL (guards `WalHasRoom`),
`MaxSegmentId` the segment ids (`HasSegmentId`). With thresholds of two, four
records and ids 0 to 3 a run contains two flushes, a compaction of their
segments, a write after it and restarts anywhere, for compaction empties the
log; ids are also reused after a compaction and a reopen, since the counter
restarts from the files. Two records are enough for the run with all failures,
where what matters is the record left in the buffer and the next one. Ids and
bodies are symmetric.

Bounds of the collection. A flush at every insert and a compaction at three
segments: with three records and ids 0 to 3 an insert reaches the compaction,
as the third flush does, and so does a call of `compact`. The trigger must be
above two, as the code's four is: at two an insert that compacts ends with the
count it began with and never saves. `MaxFailures` bounds the engine's errors.

Bounds of the catalog. `MaxCreations` bounds the calls of create, gets and
drops are unbounded. Two creations are one of each name, so that one is dropped
or fails beside the other, or two of one name: a creation after a drop, or two
that race. Two threads are two getters that race for the lazy opening, or a
change of a name beside a use of it or of the other name; a third would meet the
same two locks. `MaxEngines` lets each thread hold an engine beside a registered
one. Threads and names are symmetric, save in the run with liveness.

Bounds of the search. Three inserts (`MaxInserts`), deletions, saves and restarts
unbounded: enough for an update and a second document, for an index file older
than either, and for a refused insert before or after. The two fields have two
metrics, neither of them cosine, so that the metric lost in a reload shows; the
bodies lack a field, a title or a text in turn; of the requests some have more
answers than their limit, some none, some a filter that a document of another
type defeats. Ids are symmetric.

Bounds of the approximate indexes. IVF: five inserts, deletions unbounded.
Retrainings come after the third insert (`RetrainedAfter`), serialisations after the
fourth (`SavedAfter`). With training at three the third insert trains, unless it was
an update or one was deleted: a retraining then meets a trained index or a cold one
that keeps its cache. The fourth and fifth go to a list, update an entry there,
revive it, or fill the cache up to the training; the bytes are of any of these
indexes. The lists to retrain on (`MCRetrainings`) have for l2 all three ids, with
vectors they may not have had and deleted ids among them, and for cosine two of the
three, one of them twice with two vectors. The vectors for l2 leave one of three outside of the
range that two of them train.

HNSW: four inserts, deletions unbounded, serialisations after the second. Four nodes with one
neighbour each at layer 1 make the second link of a node there prune; with three at layer 0 all four may be
linked to each other, and an insertion can find a deleted entry point with
live and deleted nodes around it. With two layers an insert descends, or
becomes the entry point, and its deletion leaves the graph with a deleted one.
The vectors 0, 1, 4, 6 have pairwise different distances. The level is
any up to `TopLevel`, whatever `M`: of an `m` below 3 the code draws the highest
level only (its `level_multiplier` is 1), which is one of the cases; the small `M`
stands for one at which that many nodes prune, and the theorems for all.

Deadlock is checked in every run: a running engine can always crash or close,
a stopped one can open; so can a collection; a database can always be restarted;
a deletion of an absent document is always possible in an index.

Fairness. None is assumed of the engine: it is sequential, and an operation
that is not cut off by a crash ends after a bounded number of steps. For
`OperationsEnd` each thread's `Proceed` is strongly fair: its thread is
scheduled, and a `parking_lot` lock is eventually handed to the one that waits
longest, so a lock that is free again and again is eventually got. Nothing is
assumed of callers: they need not call, nor release a handle.

## 9. The proofs

The storage engine, for every set of ids and bodies, all thresholds and bounds
(`EngineAssumption`):

- `TypeCorrect`, `SegmentIdsStayFresh`, `OpenSegmentsNotOverwritten`: from
  `CatalogInv`, with every failure allowed. `SegmentIdsFresh` alone is not
  inductive: `Phases` adds what a phase implies of `segments`, `doomed` and the
  file being written.
- `GoneIsGone`: under `Obedient` (no failing append or removal; torn appends,
  power losses and every other failure are allowed). `GoneInv` says that a
  deleted id is hidden or in no file, log or buffer at all (`Erased`), that the
  file a compaction has just written does not have it, and that there is no file
  but the open segments, the old ones about to be removed and that new one
  (`Accounted`).
- `MemTableIsRecoverable`: under `Reliable` (no I/O failure, no torn append;
  power losses are allowed). `LogInv` adds that the log is intact and the
  buffer empty. Appending a record changes the replay of its own id only
  (`ReplayOther`, `ReplaySame`).
- `WriteOnceIsDurable`, `WriteOnceIsVisible`: under `Durable` (`wal_sync`, no torn
  append, and of the failures those of appends, segment writes and removals:
  `Survivable`). `DataInv` says where a document that was never deleted is in
  each phase (`Located`), that a segment being logged holds the MemTable
  (`Flushed`), and that nothing is stored that was not inserted (`Provenance`).
  A failed append leaves its record in the buffer, and the next one writes both:
  the log may then end with another record of an id than the MemTable has, so
  `Logged` and `LogSound` say only that it has one and that all of its records
  come from the history. With the failures left out, a WAL or a segment that
  cannot be opened after a compaction, the theorem is false (section 10).
- `FlushedStaysDurable`: under `RemovalsFail` (of the failures only those of
  removals). It needs that a file is written under an id that no file has
  (`NewFileIsNew`), also after a compaction that left old files behind.
- `EngineImplementsDocumentStore`, under `Durable`: in a state with `WrittenOnce` the
  mapped state is the history variable `latest` (`MappedState`, from `DataInv`), and of
  the steps between two such states only `Insert` changes it, by a `Put`.

The collection over its engine, for every set of ids and bodies, all thresholds
and bounds, with failing appends and segment writes (`CollectionAssumption`):

- The engine's theorems carry over: **CollectionProofs** instantiates
  StorageEngineProofs, shows once that the collection's steps are steps of that
  engine (`EngineSteps`, `EngineStep`), and has `CatalogInv` and `DataInv` of it.
- `CollectionTypeCorrect`: from `TypeInv`, which adds that the indexes are empty
  exactly while the engine is closed (`Closed`).
- `SearchIsComplete`, `DeletedAreNotFound`: from `SearchInvariant`. `SearchInv`
  says what the indexes have while the process runs (`Current`, `Deleted`), and
  of what the index file lacks, or has in excess, that the log has a record to
  make up for it (`FileCurrent`, `FileDeleted`). The latter must hold at every
  step of a flush and of a compaction, for the process may die there; that is
  why a save is owed once a compaction emptied the log (`unsaved`). The log says
  the truth of every id but the `refused` (`UnrefusedLog`), of which it may have
  an insert that the caller was told had failed.

The catalog, for every set of threads and names (`CatalogAssumption`; by
`NoneAssumption` `None` is neither a job nor an engine). Whatever the callers do:

- `LocksHeld`: `LockInv` ties each lock to the step of its holder, whatever
  fails. It is needed because a lock's value says nothing of where its holder
  is: `LocksStayOrdered` follows from it, and is not inductive alone.
- `MetaStaysSaved`: whenever nobody holds the write lock `_meta.json` agrees with the
  metadata on every name, but for the `parted` ones. `FileLags`: while the
  lock is held, they may differ in the name its holder is changing too.
- `CatalogTypeCorrect`: `TypeInv` adds to `TypeOK` what a thread has at each
  step and that a handle, or an entry of the map, leads to a collection that is
  open: otherwise closing the unused ones could leave a handle to nothing.

Of the quiet names, with no assumption on what the callers do, and none on the
disk but the last one below:

- `Alone`: whoever changes a quiet name is its only user. It is not assumed, it
  follows from what `contended` records, of the state before and the one after a
  step (`NextKeepsAlone`); callers that overlap on a name end what is claimed of
  it and of no other name.
- `OneEngineHolds`, whatever fails. `UseInv` says that an open collection of a quiet
  name belongs to the registered creation and is in the map, or in the hands of
  the one thread about to put it there (`EnginesHeld`, `Named`); and what a thread
  knows of the map from the checks behind it (`Progress`): between two threads that
  open a collection lazily this is so only because the write lock on the map is
  held, hence `LockInv`.
- `DropsLeaveNothing` and `NoGhostsOfDropped`, whatever fails, of the names that are not
  `parted`. `DiskInv` says that a directory belongs to the creation that is
  registered in memory and in `_meta.json` (`DirsRegistered`): a crash at any step
  of a creation or a drop thus leaves no directory without its registration. That
  rests on the order of a drop, the directory first (`Removed`), and of a creation,
  the registration first.
- `CreatedStaysRegistered`, if `_meta.json` can be read (`"loadMeta"` is not among the
  `Faults`), whatever else fails: a name is promised nothing while somebody drops it
  (`Promises`), and a failed save of another name does not touch it.

The flat and full-text indexes of a collection, for every set of ids, bodies,
terms, fields and metrics (`SearchAssumption`):

- **CollectionIndexProofs** holds the lemmas: what an insert, a deletion and a
  reload do to the type, the consistency and the map of one index, the counts by
  the cardinality theorems.
- `IndexesSound`: the inductive invariant `IInv`. Beside `TypeOK` it says that
  the indexes in memory are consistent (`MemorySound`) and that those in the
  file will be once loaded (`FileSound`), for a reload computes positions and
  counts anew; that they are empty while the process is down (`DownIsEmpty`),
  since the rebuilding starts from there; that what an index holds was given
  (`HeldWasGiven`), in memory and in the file for whatever the replay of the
  tombstones does not take out; and that a stored document is held with its
  vectors once it is replayed (`StoredIsHeld`). None of them is inductive alone.
- `SearchTypeCorrect`, `FlatIndexesStayConsistent`, `PostingsStayConsistent` and
  `StoredStaysFound` follow from it: the first two parts of `IndexesConsistent`.
- `IndexesStayConsistent`: the third part is that the lengths are the sums of the
  frequencies, and their total the sum of the lengths. A sum is a fold, a recursive
  function over the subsets of a finite set. That there is such a function
  (`SumsExist`), and that a sum changes by what one of its terms does
  (`TotalChanged`), is shown along the cardinality (`SubsetSteps`); that the
  frequencies in a text add up to its length, along the text (`FrequenciesAddUp`).
  It needs that the terms, like the ids, are finitely many.
- `TextStaysExact`: by `TextIsHeld`, inductive with `IInv`: every stored document that
  is not one the opening has yet to index has the frequencies of its last text,
  those included whose last insert was refused, since a refused insert ends
  before the texts. A document without text is in no posting by `HeldWasGiven`.
- `SearchStaysExact`: in a state that is `Answering` the index has exactly the stored
  documents with the field (`AnsweringIs`, from `HeldWasGiven` and `StoredIsHeld`),
  each with the vector of its body, so the answers are the rankings of those
  (`FlatSearchIs`). The code ranks ten times as many as wanted, filters them again
  and cuts them off: nothing is filtered out the second time (`AllPass`), and the
  prefixes of the long rankings are just the short ones, ties included
  (`RankedPrefixes`).
- `HybridStaysExact`: with a limit no lower than the number of documents neither part
  is cut off (`VectorResultsAre`, `InvertedSearchIs`), and the text part has the
  documents with a token of the query (`MatchingIs`, from `TextExact`). The share of a
  rank falls strictly (`SharesFall`), so of two documents that both parts rank
  alike the first scores higher (`RankScoresFall`), and the fusion has all documents
  of both, in that order (`FusionIs`). The filter keeps the order (`FilteredIs`).
  The assumptions on requests (`RequestsAssumption`): weights not both zero, for
  with two zeros every order is possible; and a precision that tells the ranks
  apart, as that of the code's floating-point numbers does.
- `FlatImplementsVectorIndex`: under `IInv` every action changes each field's
  map as one action of VectorIndex does, or not at all.

The IVF-SQ8 index, for every set of ids and vectors, each metric, any number of
centroids, levels and iterations, and every training threshold
(`IvfAssumption`), and every set of lists to retrain on (`RetrainingsAssumption`: ids
and vectors, any number of them; that averages are integers,
`AveragesAssumption`, is a matter of the instance and not used):

- The inductive invariant is `IInv`: `Sound` of the index's `Snapshot`, and `Sound`
  of the bytes, for a reload makes the index what they are. `Sound` has four
  parts, none of them inductive alone. `Typed`: as many centroids as lists once
  there is a quantizer, and a range that is not empty. `Placed`: lists and map
  point at each other, no document is twice in the cache, and what is held is
  what was given. `Counted`: the count, with what the history records of the
  documents counted twice or counted off twice. `Faithful`: the cache has the
  prepared vectors, and an entry of a list the level of its document's vector, in
  the list of the centroid nearest to it unless the document `moved`. Lemmas say
  what one insertion into the lists changes (`InsertQuantizedIs`), hence what all
  of a training do (`InsertAllIs`): each id of the entries is live in the list of
  its first entry with the vector of its last (`HasFirst`), which matters for a
  retraining, whose list may name an id twice.
- `IndexTypeCorrect` and `DocumentsHaveOnePlace` follow from it, and `LiveAreCounted`: unless
  a leftover of the cache was deleted, the count is never below the number of live
  documents, and is that number when none was counted twice.
- `IvfRefinesVectorIndex`: by `Placed` the documents held, in the lists or in the cache,
  are those of the history of what was given, so each operation does to them what its
  own abstract operation does to the map (`StepKeepsPromise`): no insertion, training
  or not, touches another document, and a retraining leaves those of its list.
- `DocumentsFindThemselves`: by `Faithful`, and because the same centroid is nearest
  to a vector whenever it is asked for; nothing else of k-means matters but that
  it yields a centroid for each list (`KmeansAre`).
- `FullProbeIsAccurate`: a level is within half a step of a value in the range
  (`QuantizeIs`, `HalfStep`), so the distance by the table is within half a step of
  the true one (`KeyIs`). That an answer misses no live document, and has none
  twice, is by counting: a ranking of n distinct entries, cut off no earlier than
  at n, has them all (`RankedAll`).
- The library's induction theorems have an operator for a parameter. What a
  recursive function does at each step is therefore proved by the least position
  where it fails (`Steps`), and that there is such a function by the greatest one
  up to which there is (`Iterated`). Both are in **IndexLemmas**, which the next
  module uses for its walks too.

The HNSW index, for every set of ids, every set of vectors of which no two are
equally far from a third, each metric, and any number of neighbours, layers and
candidates (`HnswAssumption`; that nothing serialised is taken for `NoBytes`,
`SnapshotAssumption`):

- The inductive invariant is `IInv`: `Good` of the index's `Snapshot`, and `Good` of
  the bytes. `Good` has five parts beside the types. `Mapped`: ids and nodes are one
  to one, and the entry point is at the top layer. `Distinct`: no two nodes have
  one vector, so that nearest and farthest are single nodes. `WellLinked`, for
  each layer: a node has each neighbour once, no more than the capacity, and
  each is another node with that layer. The count. And `Complete`: in a graph so
  small that nothing needs to be left out, all live nodes have each other for
  neighbours, unless a document came back (`revived`) or was linked from an entry
  point that was deleted (`astray`). The bytes are needed
  because a reload makes them the index, `WellLinked` because an insertion links
  what a walk meets, which is in the graph only if no link leads out of it.
- Walks. The loops over candidates, neighbours and layers are recursive functions.
  A set of states that every visit of a neighbour leaves a walk in holds all of
  the walk (`VisitEachWithin`, `WalkWithin`): its nodes are in any set that contains
  the start and that no link leads out of (`Closed`), its results are no more than
  wanted, pass, are live but for the start, and one is no farther than the start
  if that passes (`Walked`). That a walk finds all there is, is shown
  where it matters: from a live node whose neighbours are all other live ones and
  with room for them the first expansion meets them all, and no later one drops
  any (`SearchLayerFindsAll`).
- Links. `LinkedAt` says what one layer of an insertion changes: the new node has the
  selected neighbours, each of them gains it or, over capacity, the best of what
  it had and the new one; no other node changes. `Partly` carries that from
  layer to layer, from the top down.
- `TypeCorrect`, `GraphStaysWellFormed` and `HnswRefinesVectorIndex` follow; the abstract
  map is the vectors of the nodes that are not deleted, which linking leaves as
  they are (`Alike`).
- `SearchesFindLive`: `StartOf` is a live node whenever there is one, by the count; the
  descent goes to live nodes that are nearer, and the last walk begins with the
  node it ended at.
- `SmallGraphsAreComplete`: by `Complete`, one step from any live node reaches all, and
  by counting nothing is cut off.

Every invariant and action property of the passing runs is so proved. Only
model-checked is `OperationsEnd` of the catalog, as liveness is beyond the
prover. What the recursive definitions of a tokenizer and of a filter tree
compute is not proved either: the theorems hold whatever it is. No recursive
operator is used in the modules with proofs or below them, and the filter that
is applied to an answer is a recursive function (`Filtered`), of which the prover
can reason; the replay of the log is stated by the last record of an id, `Max` of
a set of positions.

## 10. Where the code and its comments disagree

Four are runs whose property TLC finds violated, quoted in `PROJECT.json` under
`findings`: the deletion of a flushed document is undone by a restart
(`delete_then_restart`); a get that meets a creation opens a second engine on its
directory, in a database that is called thread-safe (`thread_safety`); documents stored
between the last save of the index and a compaction are not found after a restart
(`restart_after_compaction`), the one exception in `SearchComplete` (`lost`); and
the insertion that trains an IVF index doubles its `len`, "the number of active
vectors" (`ivf_len`).

The others appear as the exceptions that the properties make, each of which is
needed: TLC finds a violation without it.

| What the code does | Where | Exception in |
|---|---|---|
| a document inserted after its deletion from a segment is hidden until a compaction or a restart | `core/storage/engine.rs:258` | `WriteOnce`, `WrittenOnce` |
| scans and compaction keep the oldest body of an updated document, the comment says newest | `core/storage/engine.rs:291` | likewise |
| two concurrent creations of one name both succeed, the second replaces the first in the metadata and in the map | `core/db/mod.rs:132` | `Quiet` |
| a get that meets a creation opens a second engine on the directory | `core/db/mod.rs:156` | `Quiet`; `thread_safety` |
| a get that a drop overtakes panics | `core/db/mod.rs:232` | in `ThreadSafe` |
| a drop that a get or a creation overtakes leaves an open collection of a name that is not registered, and its files | `core/db/mod.rs:268` | `Quiet` |
| a handle outlives the drop, and its next flush makes the directory again; a later collection of the name shows its documents | `core/storage/engine.rs:315` | `Quiet` |
| a creation or a drop whose metadata cannot be saved keeps the name taken, or free, in memory only | `core/db/mod.rs:149` | `parted` |
| a `_meta.json` that cannot be read opens as an empty database, which the next creation saves | `core/db/mod.rs:82` | the assumption of `CreatedStaysRegistered` |
| a flat search whose filter lets no live entry through panics | `core/index/flat.rs:133` | `SearchExact` |
| a flat index that is loaded has the cosine metric, whatever the schema says | `core/collection/mod.rs:152` | `SearchExact` |
| of several full-text fields of a document only the one indexed last is found | `core/fulltext/inverted.rs:43` | `TextExact` |
| a refused insert, an update without a field and an older index file leave fields of a document in the indexes that it does not have | `core/collection/mod.rs:225` | `Settled` |
| `len`, the "number of active vectors", counts the trained documents twice | `core/index/ivf_sq8.rs:277` | `countedTwice` in `CountCoversLive`; `ivf_len` |
| a retraining of a cold index leaves its cache; a later deletion may count a document off twice, and a count of 0 ends every search | `core/index/ivf_sq8.rs:298` | `leftoverDeleted` |
| a retraining with the cosine metric trains on vectors that are not normalised | `core/index/ivf_sq8.rs:288` | the order in `FullProbeAccurate`, for l2 only |
| an update stays in the list of the old vector | `core/index/ivf_sq8.rs:340` | `moved` in `SelfFindable` |
| a deleted document that is inserted again keeps its old links, though the comment recommends that sequence to get new ones | `core/index/hnsw.rs:353` | `revived` in `SmallIsComplete` |
| an insertion starts at the entry point even if it is deleted, though a search does not, and may link the new document to deleted nodes only: no search meets it | `core/index/hnsw.rs:379` | `astray` in `SmallIsComplete` |

Assumptions above mark further limits, each visible when it is lifted: a
compaction that cannot recreate the WAL (`"walOpen"` in `Faults`) or reopen its
segment (`"segOpen"`) leaves an engine that loses what it acknowledges, so
`WriteOnceDurable` is claimed without these two failures, and with all others;
likewise without a log that is
torn by a crash (`TornAppend`), for recovery appends behind the torn record and
the next replay stops at it. `CreatedSurvives` is claimed without `"loadMeta"`.

## 11. Not modelled

- The values of distances and scores: floating-point arithmetic is out of reach
  of TLC and of the provers. Their order is modelled, on vectors of one
  component. The SIMD kernels of `core/distance/simd.rs` are nothing else.
- Ties between distances in the HNSW index, vectors shared by two documents
  there, and the dot product in the instances of both approximate indexes.
- The composition of IvfSq8Index and HnswIndex with the collection: the upgrade
  is in Collection, over maps, and both indexes are shown to be maps.
- The byte formats of the WAL and of segments, and LZ4: encoding and decoding of
  one buffer, without state between calls.
- The server: a handler is one call of the core, and the concurrency of handlers
  is that of the threads of OpenVec. Routing, JSON, gRPC conversion and
  configuration are input and output. The command line and the Python binding
  are clients without state; benchmarks and scripts only measure.
