-------------------------- MODULE CollectionSearch --------------------------
(***************************************************************************)
(* What a search of a collection finds: documents with several vector      *)
(* fields, each in a flat index, and two full-text fields in one inverted  *)
(* index; filters, hybrid queries, and the index file over restarts        *)
(* (crates/openvec-core/src/collection/mod.rs and what it calls).          *)
(*                                                                         *)
(* The storage keeps what it acknowledged (StorageEngine says when), and   *)
(* all documents are in its MemTable; the indexes are not yet upgraded.    *)
(***************************************************************************)
EXTENDS FlatIndex, InvertedIndex, Tokenizer, HybridFusion, Filters

CONSTANTS
    Fields,         \* the vector fields of the schema
    FieldMetric,    \* their metrics
    NoIndex,        \* no index file
    MaxInserts      \* bound: inserts, refused ones included

IndexFiles == [entries : [Fields -> Seq(Entries)], text : InvertedIndexes]

\* A body has a vector, Mismatch or None for each field, a title and a text,
\* each a text or None, and a payload for the filters.
ASSUME SearchAssumption ==
    /\ IsFiniteSet(Ids) /\ IsFiniteSet(Terms)
    /\ FieldMetric \in [Fields -> Metrics]
    /\ MaxInserts \in Nat
    /\ \A b \in Bodies :
        /\ b.vectors \in [Fields -> Vectors \cup {None, Mismatch}]
        /\ \A w \in {b.title, b.text} \ {None} : Tokenize(w) \in Seq(Terms)
    /\ None \notin Kept /\ None \notin Bodies /\ Mismatch # None /\ Fields # {}
    /\ Fields \cap {"title", "text"} = {}      \* a schema has one field of a name
    /\ NoIndex \notin IndexFiles
    /\ Panic \notin Seq(Ids)

VARIABLES
    stored,         \* the documents of the storage
    tombstones,     \* the deletions in its MemTable
    indexes,        \* a flat index for each vector field
    text,           \* the full-text index
    indexFile,      \* what index_default.json holds
    at,             \* "down", "idle", or what its opening is doing
    toReplay,       \* documents the opening has yet to index
    toDelete,       \* deletions it has yet to apply
    given,          \* history: the fields of all bodies given for an id since its deletion
    refused,        \* history: the ids whose last insert was refused
    inserts         \* history: inserts so far

memory == <<indexes, text>>
opening == <<toReplay, toDelete>>
history == <<given, refused, inserts>>
vars == <<stored, tombstones, memory, indexFile, at, opening, history>>

StoredIds == {id \in Ids : stored[id] # None}
NewIndexes == [f \in Fields |-> NewFlat(FieldMetric[f])]

-----------------------------------------------------------------------------
(* Indexing.                                                               *)

VectorFields(b) == {f \in Fields : b.vectors[f] # None}
TextFields(b) == {w \in {"title", "text"} : b[w] # None}
FieldsOf(id) == IF stored[id] = None THEN {} ELSE VectorFields(stored[id]) \cup TextFields(stored[id])
FitsCosine(b) == \A f \in Fields : FieldMetric[f] = "cosine" => b.vectors[f] # Mismatch
Fits(b) == \A f \in Fields : b.vectors[f] # Mismatch

\* index_document on the vector fields in fs.
IndexVectors(id, b, fs) ==
    indexes' = [f \in Fields |-> IF f \in fs THEN FlatInsert(indexes[f], id, b.vectors[f]) ELSE indexes[f]]

IndexText(t, id, w) == IF w = None THEN t ELSE InvertedInsert(t, id, Tokenize(w))

\* Each full-text field is inserted under the id of the document.
IndexTexts(t, id, b) == IndexText(IndexText(t, id, b.title), id, b.text)

IndexDocument(id, b) ==
    /\ Fits(b)
    /\ IndexVectors(id, b, VectorFields(b))
    /\ text' = IndexTexts(text, id, b)

\* The fields come in the order of a hash map, and the first vector of a wrong
\* length ends the call: any of the others may have been indexed by then.
IndexPartly(id, b) ==
    /\ ~Fits(b)
    /\ \E fs \in SUBSET {f \in VectorFields(b) : b.vectors[f] # Mismatch} : IndexVectors(id, b, fs)
    /\ UNCHANGED text

Unindex(id) ==
    /\ indexes' = [f \in Fields |-> FlatDelete(indexes[f], id)]
    /\ text' = InvertedDelete(text, id)

-----------------------------------------------------------------------------
(* Operations.                                                             *)

Insert(id, b) ==
    /\ at = "idle" /\ inserts < MaxInserts
    /\ IndexDocument(id, b)
    /\ stored' = [stored EXCEPT ![id] = b]
    /\ tombstones' = tombstones \ {id}
    /\ given' = [given EXCEPT ![id] = @ \cup VectorFields(b) \cup TextFields(b)]
    /\ refused' = refused \ {id}
    /\ inserts' = inserts + 1
    /\ UNCHANGED <<indexFile, at, opening>>

\* The error leaves the storage as it was.
InsertRefused(id, b) ==
    /\ at = "idle" /\ inserts < MaxInserts
    /\ IndexPartly(id, b)
    /\ given' = [given EXCEPT ![id] = @ \cup VectorFields(b)]
    /\ refused' = refused \cup {id}
    /\ inserts' = inserts + 1
    /\ UNCHANGED <<stored, tombstones, indexFile, at, opening>>

Delete(id) ==
    /\ at = "idle"
    /\ Unindex(id)
    /\ stored' = [stored EXCEPT ![id] = None]
    /\ tombstones' = tombstones \cup {id}
    /\ given' = [given EXCEPT ![id] = {}]
    /\ refused' = refused \ {id}
    /\ UNCHANGED <<indexFile, at, opening, inserts>>

SaveIndex ==
    /\ at = "idle"
    /\ indexFile' = [entries |-> [f \in Fields |-> indexes[f].entries], text |-> text]
    /\ UNCHANGED <<stored, tombstones, memory, at, opening, history>>

-----------------------------------------------------------------------------
(* The end of the process, and Collection::open.                           *)

Stop ==
    /\ at # "down"
    /\ at' = "down"
    /\ indexes' = NewIndexes
    /\ text' = NewInverted
    /\ toReplay' = {} /\ toDelete' = {}
    /\ UNCHANGED <<stored, tombstones, indexFile, history>>

OpenRebuilding ==
    /\ at = "down" /\ indexFile = NoIndex
    /\ at' = "rebuild"
    /\ toReplay' = StoredIds
    /\ given' = [id \in Ids |-> FieldsOf(id)]
    /\ refused' = {}
    /\ UNCHANGED <<stored, tombstones, memory, indexFile, toDelete, inserts>>

\* Whatever the schema says, the index that takes the entries is a cosine one.
LoadedMetric(f) == "cosine"

FieldsInFile(id) ==
    {f \in Fields : FlatHas(FlatLoaded(indexFile.entries[f], LoadedMetric(f)), id)}
        \cup IF InvertedHas(indexFile.text, id) THEN {"title", "text"} ELSE {}

OpenLoading ==
    /\ at = "down" /\ indexFile # NoIndex
    /\ at' = "replay"
    /\ indexes' = [f \in Fields |-> FlatLoaded(indexFile.entries[f], LoadedMetric(f))]
    /\ text' = indexFile.text
    /\ toReplay' = StoredIds
    /\ toDelete' = tombstones
    /\ given' = [id \in Ids |-> IF id \in tombstones THEN given[id] ELSE given[id] \cup FieldsInFile(id)]
    /\ UNCHANGED <<stored, tombstones, indexFile, refused, inserts>>

\* The documents of the MemTable come first, in the order of a hash map.
ReplayOne(id) ==
    /\ at \in {"rebuild", "replay"} /\ id \in toReplay
    /\ IndexDocument(id, stored[id])
    /\ toReplay' = toReplay \ {id}
    /\ UNCHANGED <<stored, tombstones, indexFile, at, toDelete, history>>

DeleteOne(id) ==
    /\ at = "replay" /\ toReplay = {} /\ id \in toDelete
    /\ Unindex(id)
    /\ toDelete' = toDelete \ {id}
    /\ UNCHANGED <<stored, tombstones, indexFile, at, toReplay, history>>

\* A full-text index that the file and the MemTable left empty is built from
\* the storage.
RebuildText ==
    /\ at = "replay" /\ toReplay = {} /\ toDelete = {} /\ text.numDocs = 0
    /\ at' = "rebuildText"
    /\ toReplay' = StoredIds
    /\ UNCHANGED <<stored, tombstones, memory, indexFile, toDelete, history>>

RebuildTextOne(id) ==
    /\ at = "rebuildText" /\ id \in toReplay
    /\ text' = IndexTexts(text, id, stored[id])
    /\ toReplay' = toReplay \ {id}
    /\ UNCHANGED <<stored, tombstones, indexes, indexFile, at, toDelete, history>>

Opened ==
    /\ toReplay = {} /\ toDelete = {}
    /\ at \in {"rebuild", "rebuildText"} \/ (at = "replay" /\ text.numDocs > 0)
    /\ at' = "idle"
    /\ UNCHANGED <<stored, tombstones, memory, indexFile, opening, history>>

Init ==
    /\ stored = [id \in Ids |-> None]
    /\ tombstones = {}
    /\ indexes = NewIndexes
    /\ text = NewInverted
    /\ indexFile = NoIndex
    /\ at = "down"
    /\ toReplay = {} /\ toDelete = {}
    /\ given = [id \in Ids |-> {}]
    /\ refused = {}
    /\ inserts = 0

Next ==
    \/ \E id \in Ids : Delete(id) \/ \E b \in Bodies : Insert(id, b) \/ InsertRefused(id, b)
    \/ SaveIndex \/ Stop
    \/ OpenRebuilding \/ OpenLoading \/ RebuildText \/ Opened
    \/ \E id \in Ids : ReplayOne(id) \/ DeleteOne(id) \/ RebuildTextOne(id)

Spec == Init /\ [][Next]_vars

-----------------------------------------------------------------------------
(* search.                                                                 *)

\* A request names a field, a query vector, a limit, and perhaps a filter and
\* a hybrid query with its weights; None for those it does not have.
Passing(r) ==
    IF r.filter = None THEN Ids ELSE {id \in StoredIds : stored[id] \in Matches[r.filter]}

KSearch(r) == IF r.filter = None THEN r.limit ELSE 10 * r.limit

VectorResults(r, k) == FlatSearch(indexes[r.field], r.vector, k, Passing(r))
TextResults(r, k) == InvertedSearch(text, Tokenize(r.hybrid), k)
AtLeastFifty(k) == IF k < 50 THEN 50 ELSE k

Retrieved(r) ==
    IF r.hybrid = None THEN VectorResults(r, KSearch(r))
    ELSE LET k == AtLeastFifty(KSearch(r))
         IN  UNION {IF v = Panic THEN {Panic}
                    ELSE UNION {FuseRrfWeighted(v, t, r.vectorWeight, r.textWeight, KSearch(r)) :
                                    t \in TextResults(r, k)} :
                    v \in VectorResults(r, k)}

\* What an answer has of S, in its order.
Filtered(answer, S) ==
    LET kept[n \in 0 .. Len(answer)] ==
            IF n = 0 THEN <<>>
            ELSE IF answer[n] \in S THEN Append(kept[n - 1], answer[n]) ELSE kept[n - 1]
    IN  kept[Len(answer)]

\* The filter is applied again to what was retrieved, up to the limit.
Search(r) ==
    {IF s = Panic THEN Panic
     ELSE LET kept == Filtered(s, Passing(r))
          IN  SubSeq(kept, 1, Least(r.limit, Len(kept))) : s \in Retrieved(r)}

-----------------------------------------------------------------------------
(* Properties.                                                             *)

CONSTANT Requests       \* the searches that the properties are about

\* Texts of a hybrid query have some weight, and the precision tells ranks apart.
ASSUME RequestsAssumption ==
    /\ \A r \in Requests :
        /\ r.field \in Fields /\ r.vector \in Int /\ r.limit \in Nat
        /\ r.filter \in AllFilters \cup {None}
        /\ r.hybrid # None =>
            /\ Tokenize(r.hybrid) \in Seq(Terms)
            /\ {r.vectorWeight, r.textWeight} \subseteq Nat
            /\ r.vectorWeight + r.textWeight > 0
    /\ \A n \in 1 .. Cardinality(Ids) - 1 : Precision \div (61 + n) < Precision \div (60 + n)

\* The indexes have of a document exactly the fields of its body.  An update
\* without a field, an index file older than the document and an insert that
\* was refused leave fields behind that it does not have.
Settled(id) == id \notin refused /\ given[id] = FieldsOf(id)

Answering == at = "idle" /\ \A id \in Ids : Settled(id)

PlainIds(r) == {id \in StoredIds \cap Passing(r) : stored[id].vectors[r.field] # None}

\* The full-text field of a body that is indexed last.
LastText(b) == IF b.text # None THEN b.text ELSE b.title
TokensIn(b) == IF TextFields(b) = {} THEN <<>> ELSE Tokenize(LastText(b))
TokensOf(id) == TokensIn(stored[id])
SetOf(sequence) == {sequence[i] : i \in DOMAIN sequence}

\* Type invariant.
TypeOK ==
    /\ stored \in [Ids -> {b \in Bodies : Fits(b)} \cup {None}]
    /\ tombstones \subseteq Ids \ StoredIds
    /\ indexes \in [Fields -> FlatIndexes]
    /\ text \in InvertedIndexes
    /\ indexFile \in IndexFiles \cup {NoIndex}
    /\ at \in {"down", "rebuild", "replay", "rebuildText", "idle"}
    /\ toReplay \subseteq StoredIds /\ toDelete \subseteq tombstones
    /\ given \in [Ids -> SUBSET (Fields \cup {"title", "text"})]
    /\ refused \subseteq Ids
    /\ inserts \in 0 .. MaxInserts

FlatIndexesConsistent ==
    /\ \A f \in Fields : FlatConsistent(indexes[f])
    /\ indexFile # NoIndex => \A f \in Fields : FlatConsistent(FlatLoaded(indexFile.entries[f], LoadedMetric(f)))

PostingsConsistent == InvertedConsistent(text) /\ (indexFile # NoIndex => InvertedConsistent(indexFile.text))

\* The frequencies of a document add up to its length, and the lengths to their
\* total, of which the average in a score is made.
LengthsConsistent(t) ==
    /\ \A id \in Ids : t.docLengths[id] = FoldFunction(+, 0, [w \in Terms |-> FrequencyIn(t, w, id)])
    /\ t.totalLength = FoldFunction(+, 0, t.docLengths)

\* Every index that exists, in memory or in the file, is consistent, at every
\* step of an opening and after refused inserts.
IndexesConsistent ==
    /\ FlatIndexesConsistent /\ PostingsConsistent
    /\ LengthsConsistent(text) /\ (indexFile # NoIndex => LengthsConsistent(indexFile.text))

\* A vector search answers with the nearest of the stored documents that have
\* the field and match the filter, for the metric of the schema as long as the
\* index has it; it panics at most when there is no such document, and only
\* when it has a filter.
SearchExact == Answering => \A r \in Requests :
    LET metric == FieldMetric[r.field]
        key == [id \in PlainIds(r) |-> Distance(metric, Prepared(metric, r.vector),
                                                Prepared(metric, stored[id].vectors[r.field]))]
    IN  r.hybrid = None /\ indexes[r.field].metric = metric =>
            IF PlainIds(r) = {} /\ r.filter # None
            THEN Search(r) \subseteq {<<>>, Panic}
            ELSE Search(r) = Ranked(PlainIds(r), key, r.limit)

\* Whatever updates, refused inserts and index files left behind, a stored
\* document has the vectors of its body in the indexes; and no document is in an
\* index that none of its bodies since its deletion belonged in.
StoredIsFound == at = "idle" => \A id \in Ids \ refused :
    /\ stored[id] # None => \A f \in VectorFields(stored[id]) :
            FlatVector(indexes[f], id) = Prepared(indexes[f].metric, stored[id].vectors[f])
    /\ \A f \in Fields : FlatHas(indexes[f], id) => f \in given[id]
    /\ InvertedHas(text, id) => given[id] \cap {"title", "text"} # {}

\* A text search finds a document by the tokens of the full-text field that was
\* indexed last, with their frequencies, and by no others.
TextExact == at = "idle" => \A id \in StoredIds : Settled(id) => \A w \in Terms :
    FrequencyIn(text, w, id) = Frequency(TokensOf(id), w)

\* A hybrid search with a high limit has every document that either part has
\* and the filter lets through, and never puts one before another that both
\* parts put before it.
HybridExact == Answering => \A r \in Requests : r.hybrid # None /\ r.limit >= Cardinality(Ids) =>
    LET before(s, a, b) == \E i, j \in DOMAIN s : i < j /\ s[i] = a /\ s[j] = b
        byText == {id \in StoredIds \cap Passing(r) : SetOf(TokensOf(id)) \cap SetOf(Tokenize(r.hybrid)) # {}}
    IN  \A s \in Search(r) : s # Panic =>
        /\ SetOf(s) = PlainIds(r) \cup byText
        /\ \A a, b \in SetOf(s) :
            /\ \A v \in VectorResults(r, Cardinality(Ids)) : before(v, a, b)
            /\ \A t \in TextResults(r, Cardinality(Ids)) : before(t, a, b)
            => before(s, a, b)

-----------------------------------------------------------------------------
(* Each flat index is a VectorIndex.                                       *)

SavedIn(field) ==
    IF indexFile = NoIndex THEN [id \in Ids |-> None]
    ELSE HeldIn(FlatLoaded(indexFile.entries[field], LoadedMetric(field)))

Promise(field) == INSTANCE VectorIndex WITH Vectors <- Kept,
                      held <- HeldIn(indexes[field]), saved <- SavedIn(field)

\* What inserts, deletions, saving and loading do to a flat index is what they
\* do to a map from ids to vectors.
ImplementsVectorIndex ==
    /\ \A field \in Fields : Promise(field)!Init
    /\ [][\A field \in Fields : [Promise(field)!Next]_<<HeldIn(indexes[field]), SavedIn(field)>>]_vars
=============================================================================
