---------------------------- MODULE IvfSq8Index -----------------------------
(***************************************************************************)
(* The IVF-SQ8 index: vectors in a cache until there are enough to train   *)
(* on, then, quantised, in the posting list of the nearest centroid        *)
(* (crates/openvec-core/src/index/ivf_sq8.rs).                             *)
(***************************************************************************)
EXTENDS Documents, Distance, Sequences

CONSTANTS
    Vectors,            \* for each metric an index is created with, the vectors of documents
    Queries,            \* the vectors of searches
    Retrainings,        \* for each of these metrics, the lists of documents to retrain on
    Levels,             \* steps of the quantizer, 255 in the code
    NCentroids,         \* n_centroids
    TrainingThreshold,  \* training_threshold
    MaxIterations,      \* of k-means, 15 in the code
    NoBytes,            \* before anything is serialised
    MaxInserts,         \* bound: inserts
    RetrainedAfter,     \* bound: the number of inserts after which it is retrained
    SavedAfter          \* bound: the number of inserts after which it is serialised

ASSUME IvfAssumption ==
    /\ IsFiniteSet(Ids)
    /\ DOMAIN Vectors \subseteq Metrics /\ Queries \subseteq Int
    /\ \A m \in DOMAIN Vectors : Vectors[m] \subseteq Int
    /\ {Levels, NCentroids, TrainingThreshold} \subseteq Nat \ {0}
    /\ {MaxIterations, MaxInserts, RetrainedAfter, SavedAfter} \subseteq Nat
    /\ None \notin Int /\ None \notin [min : Int, max : Int] /\ None \notin Nat \X Nat

ASSUME RetrainingsAssumption ==
    \A m \in DOMAIN Vectors : Retrainings[m] \subseteq Seq([id : Ids, vector : Vectors[m]])

\* Every average of vectors is an integer, as it need not be for the proofs.
ASSUME AveragesAssumption ==
    LET documents == Cardinality(Ids)
    IN  /\ \A m \in DOMAIN Vectors : \A list \in Retrainings[m] : Len(list) <= documents
        /\ \A n \in 1 .. documents :
              \A v \in {One} \cup UNION {Vectors[m] : m \in DOMAIN Vectors} : v % n = 0

VARIABLES
    metric,
    quantizer,      \* the least and the greatest value, None before the training
    centroids,
    postings,       \* a list of entries for each centroid
    trainingCache,
    activeCount,
    docToPosting,   \* the list and the position in it of a document, None for those not there
    bytes,          \* what was last serialised
    given,          \* history: the vector last given for each live document
    moved,          \* history: those given another one when they were in a list already
    countedTwice,   \* history: the documents that the training counted again
    leftoverDeleted, \* history: has a document been deleted that only a leftover of the cache had?
    inserts         \* history: inserts so far

index == <<metric, quantizer, centroids, postings, trainingCache, activeCount, docToPosting>>
history == <<given, moved, countedTwice, leftoverDeleted>>
vars == <<index, bytes, history, inserts>>

Lists == 1 .. NCentroids
Live == {id \in Ids : given[id] # None}

-----------------------------------------------------------------------------
(* Lloyd's k-means.                                                        *)

LastNearest(cs, v) ==
    CHOOSE c \in DOMAIN cs : \A d \in DOMAIN cs :
        LET near == Distance(metric, v, cs[c])
            other == Distance(metric, v, cs[d])
        IN  near < other \/ (near = other /\ c >= d)

\* The first of the centroids at the least distance.
Nearest(cs, v) ==
    CHOOSE c \in DOMAIN cs : \A d \in DOMAIN cs :
        LET near == Distance(metric, v, cs[c])
            other == Distance(metric, v, cs[d])
        IN  near < other \/ (near = other /\ c <= d)

DistanceToNearest(cs, v) == Distance(metric, v, cs[Nearest(cs, v)])

\* The first of the vectors farthest from all centroids, among those farther than -1.
Farthest(vectors, cs) ==
    LET far == {i \in DOMAIN vectors : DistanceToNearest(cs, vectors[i]) > -(One * One)}
        farthest == {i \in far : \A j \in far :
                        DistanceToNearest(cs, vectors[i]) >= DistanceToNearest(cs, vectors[j])}
    IN  vectors[IF far = {} THEN 1 ELSE CHOOSE i \in farthest : \A j \in farthest : i <= j]

\* The centroids after each of the first n choices.
Seeds(vectors, n) ==
    LET seeds[m \in 1 .. n] ==
            IF m = 1 THEN <<vectors[1]>>
            ELSE LET cs == seeds[m - 1] IN Append(cs, Farthest(vectors, cs))
    IN  seeds

\* The sums of the vectors at the positions in S, up to each position.
Totals(vectors, S) ==
    LET total[n \in 0 .. Len(vectors)] ==
            IF n = 0 THEN 0 ELSE total[n - 1] + IF n \in S THEN vectors[n] ELSE 0
    IN  total

\* Centroids without vectors stay where they are.
Averages(vectors, cs, assigned) ==
    [c \in DOMAIN cs |-> LET own == {i \in DOMAIN vectors : assigned[i] = c}
                         IN  IF own = {} THEN cs[c]
                             ELSE Totals(vectors, own)[Len(vectors)] \div Cardinality(own)]

\* An iteration that assigns every vector as the last one did is the end.
Iteration(vectors, last) ==
    LET assigned == [i \in DOMAIN vectors |-> Nearest(last.centroids, vectors[i])]
    IN  IF assigned = last.assigned THEN last
        ELSE [centroids |-> Averages(vectors, last.centroids, assigned), assigned |-> assigned]

\* Centroids and assignments after each iteration.
Lloyd(vectors, cs) ==
    LET round[n \in 0 .. MaxIterations] ==
            IF n = 0 THEN [centroids |-> cs, assigned |-> [i \in DOMAIN vectors |-> 1]]
            ELSE Iteration(vectors, round[n - 1])
    IN  round

TrainKmeans(vectors) ==
    LET n == Least(NCentroids, Len(vectors))
    IN  Lloyd(vectors, Seeds(vectors, n)[n])[MaxIterations].centroids

-----------------------------------------------------------------------------
(* Scalar quantisation.                                                    *)

TrainQuantizer(vectors) ==
    LET values == {vectors[i] : i \in DOMAIN vectors}
    IN  [min |-> CHOOSE v \in values : \A w \in values : v <= w,
         max |-> CHOOSE v \in values : \A w \in values : w <= v]

Extent(qz) == qz.max - qz.min

\* The nearest level; values out of the range get its ends.
Quantize(qz, v) ==
    IF Extent(qz) = 0 \/ v <= qz.min THEN 0
    ELSE Least(Levels, (2 * (v - qz.min) * Levels + Extent(qz)) \div (2 * Extent(qz)))

DequantizedFromZero(qz, q) == q * Extent(qz)

\* What a level stands for, Levels times.
Dequantized(qz, q) == qz.min * Levels + q * Extent(qz)

\* The distance by the look-up table, Levels times, and 1 as One * One but for l2.
LutDistance(query, entry) ==
    LET value == Dequantized(quantizer, entry.q)
        one == Levels * One * One
    IN  CASE metric = "l2" -> Absolute(query * Levels - value)
          [] metric = "dot" -> -(query * value)
          [] metric = "cosine" ->
                IF query = 0 \/ entry.norm = 0 THEN one
                ELSE one - Least(one, IF query * value < -one THEN -one ELSE query * value)

-----------------------------------------------------------------------------
(* The contents: postings, map and count together, as they change.         *)

Contents == [postings |-> postings, map |-> docToPosting, count |-> activeCount]
Emptied == [postings |-> [c \in Lists |-> <<>>], map |-> [id \in Ids |-> None], count |-> 0]

InsertQuantizedAnew(held, qz, cs, id, v) ==
    LET entry == [id |-> id, q |-> Quantize(qz, v), norm |-> Absolute(v), deleted |-> FALSE]
        c == Nearest(cs, v)
    IN  [postings |-> [held.postings EXCEPT ![c] = Append(@, entry)],
         map |-> [held.map EXCEPT ![id] = <<c, Len(held.postings[c]) + 1>>],
         count |-> held.count + 1]

InsertQuantizedCounting(held, qz, cs, id, v) ==
    LET entry == [id |-> id, q |-> Quantize(qz, v), norm |-> Absolute(v), deleted |-> FALSE]
        at == held.map[id]
        c == Nearest(cs, v)
    IN  IF at # None
        THEN [held EXCEPT !.postings[at[1]][at[2]] = entry,
                          !.count = @ + 1]
        ELSE [postings |-> [held.postings EXCEPT ![c] = Append(@, entry)],
              map |-> [held.map EXCEPT ![id] = <<c, Len(held.postings[c]) + 1>>],
              count |-> held.count + 1]

\* A known document stays in its list; it is restored if it was deleted.
InsertQuantized(held, qz, cs, id, v) ==
    LET entry == [id |-> id, q |-> Quantize(qz, v), norm |-> Absolute(v), deleted |-> FALSE]
        at == held.map[id]
        c == Nearest(cs, v)
    IN  IF at # None
        THEN [held EXCEPT !.postings[at[1]][at[2]] = entry,
                          !.count = IF held.postings[at[1]][at[2]].deleted THEN @ + 1 ELSE @]
        ELSE [postings |-> [held.postings EXCEPT ![c] = Append(@, entry)],
              map |-> [held.map EXCEPT ![id] = <<c, Len(held.postings[c]) + 1>>],
              count |-> held.count + 1]

\* The contents after each of the entries.
InsertEach(held, qz, cs, entries) ==
    LET after[n \in 0 .. Len(entries)] ==
            IF n = 0 THEN held
            ELSE InsertQuantized(after[n - 1], qz, cs, entries[n].id, entries[n].vector)
    IN  after

InsertAll(held, qz, cs, entries) == InsertEach(held, qz, cs, entries)[Len(entries)]

Become(held) == postings' = held.postings /\ docToPosting' = held.map /\ activeCount' = held.count

IdsIn(entries) == {entries[i].id : i \in DOMAIN entries}
VectorsOf(entries) == [i \in DOMAIN entries |-> entries[i].vector]
Cached(id) == {i \in DOMAIN trainingCache : trainingCache[i].id = id}
Where(id) == CHOOSE i \in Cached(id) : TRUE
CacheWithout(i) == SubSeq(trainingCache, 1, i - 1) \o SubSeq(trainingCache, i + 1, Len(trainingCache))
EntryOf(id) == postings[docToPosting[id][1]][docToPosting[id][2]]

-----------------------------------------------------------------------------
(* Operations.                                                             *)

CacheVector(id, v) ==
    /\ Cached(id) # {}
    /\ trainingCache' = [trainingCache EXCEPT ![Where(id)].vector = v]
    /\ UNCHANGED <<quantizer, centroids, postings, activeCount, docToPosting, countedTwice>>

CacheDocument(cache) ==
    /\ Len(cache) < TrainingThreshold \/ Len(cache) < NCentroids
    /\ trainingCache' = cache
    /\ activeCount' = activeCount + 1
    /\ UNCHANGED <<quantizer, centroids, postings, docToPosting, countedTwice>>

\* train: the documents of the cache move to the lists, and are counted again.
Train(cache) ==
    /\ Len(cache) >= TrainingThreshold /\ Len(cache) >= NCentroids
    /\ quantizer' = TrainQuantizer(VectorsOf(cache))
    /\ centroids' = TrainKmeans(VectorsOf(cache))
    /\ Become(InsertAll([Contents EXCEPT !.count = @ + 1], quantizer', centroids', cache))
    /\ trainingCache' = <<>>
    /\ countedTwice' = Cardinality(IdsIn(cache))

InsertCold(id, v) ==
    /\ quantizer = None
    /\ \/ CacheVector(id, v)
       \/ /\ Cached(id) = {}
          /\ LET cache == Append(trainingCache, [id |-> id, vector |-> v])
             IN  CacheDocument(cache) \/ Train(cache)

InsertTrained(id, v) ==
    /\ quantizer # None
    /\ Become(InsertQuantized(Contents, quantizer, centroids, id, v))
    /\ UNCHANGED <<quantizer, centroids, trainingCache, countedTwice>>

Insert(id, v) ==
    /\ inserts < MaxInserts
    /\ inserts' = inserts + 1
    /\ given' = [given EXCEPT ![id] = v]
    /\ moved' = IF docToPosting[id] # None THEN moved \cup {id} ELSE moved
    /\ InsertCold(id, Prepared(metric, v)) \/ InsertTrained(id, Prepared(metric, v))
    /\ UNCHANGED <<metric, bytes, leftoverDeleted>>

DeletePosted(id) ==
    /\ docToPosting[id] # None
    /\ IF EntryOf(id).deleted THEN UNCHANGED <<postings, activeCount>>
       ELSE /\ postings' = [postings EXCEPT ![docToPosting[id][1]][docToPosting[id][2]].deleted = TRUE]
            /\ activeCount' = IF activeCount > 0 THEN activeCount - 1 ELSE 0
    /\ UNCHANGED <<trainingCache, leftoverDeleted>>

DeleteCachedUnsaturated(id) ==
    /\ docToPosting[id] = None /\ Cached(id) # {}
    /\ trainingCache' = CacheWithout(Where(id))
    /\ activeCount' = activeCount - 1
    /\ leftoverDeleted' = (leftoverDeleted \/ quantizer # None)
    /\ UNCHANGED postings

DeleteCached(id) ==
    /\ docToPosting[id] = None /\ Cached(id) # {}
    /\ trainingCache' = CacheWithout(Where(id))
    /\ activeCount' = IF activeCount > 0 THEN activeCount - 1 ELSE 0
    /\ leftoverDeleted' = (leftoverDeleted \/ quantizer # None)
    /\ UNCHANGED postings

DeleteAbsent(id) ==
    /\ docToPosting[id] = None /\ Cached(id) = {}
    /\ UNCHANGED <<postings, activeCount, trainingCache, leftoverDeleted>>

Delete(id) ==
    /\ DeletePosted(id) \/ DeleteCached(id) \/ DeleteAbsent(id)
    /\ given' = [given EXCEPT ![id] = None]
    /\ UNCHANGED <<metric, quantizer, centroids, docToPosting, bytes, moved, countedTwice, inserts>>

PreparedEach(documents) ==
    [i \in DOMAIN documents |->
        [id |-> documents[i].id, vector |-> Prepared(metric, documents[i].vector)]]
Naming(documents, id) == {i \in DOMAIN documents : documents[i].id = id}
LastNaming(documents, id) ==
    CHOOSE i \in Naming(documents, id) : \A j \in Naming(documents, id) : j <= i

RetrainOver(held, documents) ==
    /\ inserts = RetrainedAfter
    /\ Len(documents) >= NCentroids
    /\ given' = [id \in Ids |-> IF id \in IdsIn(documents)
                               THEN documents[LastNaming(documents, id)].vector ELSE None]
    /\ moved' = {id \in Ids : \E i, j \in Naming(documents, id) : i # j}
    /\ quantizer' = TrainQuantizer(VectorsOf(documents))
    /\ centroids' = TrainKmeans(VectorsOf(documents))
    /\ Become(InsertAll(held, quantizer', centroids', PreparedEach(documents)))
    /\ countedTwice' = 0 /\ leftoverDeleted' = FALSE
    /\ UNCHANGED <<metric, trainingCache, bytes, inserts>>

RetrainKeepingLists(documents) == RetrainOver(Contents, documents)

\* The documents take the place of what the lists held, the last of those with one
\* id in the list of the first.  The cache is not emptied; centroids and quantizer
\* are trained on vectors that are not normalised.
Retrain(documents) == RetrainOver(Emptied, documents)

\* What the bytes hold, and the history that belongs to it.
Snapshot ==
    [metric |-> metric, quantizer |-> quantizer, centroids |-> centroids, held |-> Contents,
     cache |-> trainingCache, given |-> given, moved |-> moved,
     countedTwice |-> countedTwice, leftoverDeleted |-> leftoverDeleted]

Serialize ==
    /\ inserts = SavedAfter
    /\ bytes' = Snapshot
    /\ UNCHANGED <<index, history, inserts>>

\* The metric comes from the bytes too.
Deserialize ==
    /\ bytes # NoBytes
    /\ metric' = bytes.metric /\ quantizer' = bytes.quantizer /\ centroids' = bytes.centroids
    /\ Become(bytes.held)
    /\ trainingCache' = bytes.cache
    /\ given' = bytes.given /\ moved' = bytes.moved
    /\ countedTwice' = bytes.countedTwice /\ leftoverDeleted' = bytes.leftoverDeleted
    /\ UNCHANGED <<bytes, inserts>>

Init ==
    /\ metric \in DOMAIN Vectors
    /\ quantizer = None
    /\ centroids = <<>>
    /\ postings = Emptied.postings
    /\ trainingCache = <<>>
    /\ activeCount = 0
    /\ docToPosting = Emptied.map
    /\ bytes = NoBytes
    /\ given = [id \in Ids |-> None]
    /\ moved = {}
    /\ countedTwice = 0
    /\ leftoverDeleted = FALSE
    /\ inserts = 0

Next ==
    \/ \E id \in Ids : Delete(id) \/ \E v \in Vectors[metric] : Insert(id, v)
    \/ \E documents \in Retrainings[metric] : Retrain(documents)
    \/ Serialize \/ Deserialize

Spec == Init /\ [][Next]_vars

-----------------------------------------------------------------------------
(* Search.                                                                 *)

\* The lists of the n nearest centroids.
Probed(query, n) ==
    LET nearer(c, d) == LET dc == Distance(metric, query, centroids[c])
                            dd == Distance(metric, query, centroids[d])
                        IN  dc < dd \/ (dc = dd /\ c < d)
    IN  {c \in DOMAIN centroids : Cardinality({d \in DOMAIN centroids : nearer(d, c)}) < n}

\* The possible answers: rankings of the cache, or of the lists probed.
Search(query, k, nProbe, passing) ==
    LET q == Prepared(metric, query)
        cold == {i \in DOMAIN trainingCache : trainingCache[i].id \in passing}
        coldKey == [i \in cold |-> Distance(metric, q, trainingCache[i].vector)]
        found == {at \in UNION {{c} \X DOMAIN postings[c] : c \in Probed(q, nProbe)} :
                    LET entry == postings[at[1]][at[2]] IN ~entry.deleted /\ entry.id \in passing}
        key == [at \in found |-> LutDistance(q, postings[at[1]][at[2]])]
    IN  IF activeCount = 0 THEN {<<>>}
        ELSE IF quantizer = None
        THEN {[j \in DOMAIN r |-> trainingCache[r[j]].id] : r \in Ranked(cold, coldKey, k)}
        ELSE {[j \in DOMAIN r |-> postings[r[j][1]][r[j][2]].id] : r \in Ranked(found, key, k)}
-----------------------------------------------------------------------------
(* Properties.                                                             *)

Quantizers == [min : Int, max : Int]
ListEntries == [id : Ids, q : 0 .. Levels, norm : Nat, deleted : BOOLEAN]
AllContents == [postings : [Lists -> Seq(ListEntries)],
                map : [Ids -> (Lists \X (Nat \ {0})) \cup {None}],
                count : Nat]
CacheEntries == [id : Ids, vector : Int]
Snapshots == [metric : DOMAIN Vectors, quantizer : Quantizers \cup {None}, centroids : Seq(Int),
              held : AllContents, cache : Seq(CacheEntries),
              given : [Ids -> Int \cup {None}], moved : SUBSET Ids,
              countedTwice : Nat, leftoverDeleted : BOOLEAN]

ASSUME SnapshotAssumption == NoBytes \notin Snapshots

Trained == quantizer # None
Posted(id) == docToPosting[id] # None
Held(id) == IF Trained THEN Posted(id) /\ ~EntryOf(id).deleted ELSE Cached(id) # {}
SetOf(sequence) == {sequence[i] : i \in DOMAIN sequence}

\* Type invariant.
TypeOK ==
    /\ Snapshot \in Snapshots /\ bytes \in Snapshots \cup {NoBytes}
    /\ Len(centroids) = IF Trained THEN NCentroids ELSE 0
    /\ given \in [Ids -> Vectors[metric] \cup {None}]
    /\ inserts \in 0 .. MaxInserts

\* Every document is in one place, where the map says: in the cache until the
\* training and in one list from then on, live there exactly when it was given
\* and not deleted since.
OnePlaceEach ==
    /\ \A c \in Lists : \A i \in DOMAIN postings[c] : docToPosting[postings[c][i].id] = <<c, i>>
    /\ \A id \in Ids : Posted(id) => docToPosting[id][2] \in DOMAIN postings[docToPosting[id][1]]
                                     /\ EntryOf(id).id = id
    /\ \A id \in Ids : Cardinality(Cached(id)) <= 1 /\ (Posted(id) => Trained)
    /\ \A id \in Ids : given[id] # None <=> Held(id)

\* The count is never below that of the live documents, where a search would end
\* at once with some left, and is theirs unless a training in an insertion counted
\* them again; only what a retraining left in the cache can be deleted twice, and
\* counted off twice.
CountCoversLive == ~leftoverDeleted =>
    /\ activeCount >= Cardinality(Live)
    /\ countedTwice = 0 => activeCount = Cardinality(Live)

\* A search of all lists finds every live document that passes the filter, and
\* puts no document before one that is nearer by more than a step of the
\* quantizer; before the training the order is exact.  Values beyond the range
\* of the training are rounded to its ends, and may be anywhere.  A count that is
\* too low may have the search end at once.
FullProbeAccurate == ~leftoverDeleted => \A query \in Queries : \A passing \in {Ids} \cup {{id} : id \in Ids} :
    LET distance(id) == Distance("l2", query, given[id])
        inRange(id) == Trained => given[id] \in quantizer.min .. quantizer.max
        step == IF Trained THEN Extent(quantizer) ELSE 0
    IN  \A s \in Search(query, Cardinality(Ids), NCentroids, passing) :
            /\ SetOf(s) = Live \cap passing
            /\ Len(s) = Cardinality(Live \cap passing)
            /\ metric = "l2" => \A i, j \in DOMAIN s : i < j /\ inRange(s[i]) /\ inRange(s[j]) =>
                    Levels * distance(s[i]) <= Levels * distance(s[j]) + step

\* A search for the vector of a document finds it in the first list it probes,
\* unless the document was updated while it was in a list: it stays there.
SelfFindable == ~leftoverDeleted => \A id \in Live \ moved :
    \A s \in Search(given[id], Cardinality(Ids), 1, Ids) : id \in SetOf(s)

Promise == INSTANCE VectorIndex WITH
    Vectors <- {"held"},
    held <- [id \in Ids |-> IF Held(id) THEN "held" ELSE None],
    saved <- IF bytes = NoBytes THEN [id \in Ids |-> None]
             ELSE [id \in Ids |-> IF bytes.given[id] # None THEN "held" ELSE None]

\* Each operation does to the documents the index has what the trait promises of
\* it, and a retraining leaves those it was given: an insertion that trains the
\* index loses none of the others.
KeepsPromise ==
    /\ \A id \in Ids : /\ Delete(id) => Promise!Delete(id)
                       /\ \A v \in Vectors[metric] : Insert(id, v) => Promise!Insert(id, "held")
    /\ \A documents \in Retrainings[metric] : Retrain(documents) =>
          Promise!Replace([id \in Ids |-> IF id \in IdsIn(documents) THEN "held" ELSE None])
    /\ Serialize => Promise!Serialize
    /\ Deserialize => Promise!Deserialize

ImplementsVectorIndex == Promise!Init /\ [][KeepsPromise]_vars

-----------------------------------------------------------------------------
(* What the code's comments say and the code does not do.                  *)

\* "Returns the number of active vectors in the index (excluding deleted ones)"
\* (VectorIndex::len).
LenCountsActive == activeCount = Cardinality(Live)

=============================================================================
