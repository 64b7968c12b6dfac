----------------------- MODULE CollectionSearchProofs -----------------------
(***************************************************************************)
(* The indexes of a collection stay consistent and have its documents, and *)
(* searches answer exactly, for every schema, every set of documents and   *)
(* every order of operations.                                              *)
(***************************************************************************)
EXTENDS CollectionSearch, CollectionIndexProofs

\* What an index file has that is sound enough to be loaded.
FileSound == indexFile # NoIndex =>
    /\ \A f \in Fields : Unique(indexFile.entries[f])
    /\ InvertedConsistent(indexFile.text)

\* The documents whose vectors an opening has yet to index.
Pending == IF at \in {"rebuild", "replay"} THEN toReplay ELSE {}

\* An index that was never filled holds nothing.
DownIsEmpty == at = "down" =>
    /\ \A f \in Fields, id \in Ids : ~FlatHas(indexes[f], id)
    /\ \A id \in Ids : ~InvertedHas(text, id)

\* A document is held by the indexes of fields it was given, if it is not one
\* whose deletion the opening has yet to repeat.
HeldWasGiven ==
    /\ \A id \in Ids : FieldsOf(id) \subseteq given[id]
    /\ \A f \in Fields, id \in Ids : FlatHas(indexes[f], id) => f \in given[id] \/ id \in toDelete
    /\ \A id \in Ids : InvertedHas(text, id) => given[id] \cap {"title", "text"} # {} \/ id \in toDelete
    /\ at = "idle" => toReplay = {} /\ toDelete = {}

VectorsHeld(id) == stored[id] # None =>
    \A f \in VectorFields(stored[id]) :
        FlatVector(indexes[f], id) = Prepared(indexes[f].metric, stored[id].vectors[f])

\* The indexes have the vectors of every stored document that was not refused
\* and is not one the opening has yet to index.
StoredIsHeld == at # "down" => \A id \in Ids \ (refused \cup Pending) : VectorsHeld(id)

MemorySound == (\A f \in Fields : FlatConsistent(indexes[f])) /\ InvertedConsistent(text)

\* The inductive invariant.
IInv == TypeOK /\ MemorySound /\ FileSound /\ DownIsEmpty /\ HeldWasGiven /\ StoredIsHeld

-----------------------------------------------------------------------------
(* Indexing a document.                                                    *)

LEMMA BodyParts ==
    ASSUME NEW b \in Bodies
    PROVE  /\ \A f \in VectorFields(b) : f \in Fields /\ (b.vectors[f] # Mismatch => b.vectors[f] \in Vectors)
           /\ \A w \in {b.title, b.text} : w # None => Tokenize(w) \in Seq(Terms)
  BY SearchAssumption DEF VectorFields

\* The vector fields in fs take the vectors of the document, the others stay.
LEMMA IndexVectorsIs ==
    ASSUME indexes \in [Fields -> FlatIndexes], \A f \in Fields : FlatConsistent(indexes[f]),
           NEW id \in Ids, NEW b \in Bodies, NEW fs \in SUBSET VectorFields(b),
           \A f \in fs : b.vectors[f] # Mismatch,
           IndexVectors(id, b, fs)
    PROVE  /\ indexes' \in [Fields -> FlatIndexes]
           /\ \A f \in Fields :
                /\ FlatConsistent(indexes'[f]) /\ indexes'[f].metric = indexes[f].metric
                /\ f \in fs => /\ FlatHas(indexes'[f], id) /\ b.vectors[f] \in Vectors
                               /\ FlatVector(indexes'[f], id) = Prepared(indexes[f].metric, b.vectors[f])
                /\ f \notin fs => indexes'[f] = indexes[f]
                /\ \A x \in Ids \ {id} : FlatHas(indexes'[f], x) = FlatHas(indexes[f], x)
                                         /\ FlatVector(indexes'[f], x) = FlatVector(indexes[f], x)
  <1>1. indexes' = [f \in Fields |-> IF f \in fs THEN FlatInsert(indexes[f], id, b.vectors[f]) ELSE indexes[f]]
    BY DEF IndexVectors
  <1>2. \A f \in Fields : indexes[f] \in FlatIndexes /\ FlatConsistent(indexes[f])
    OBVIOUS
  <1>3. \A f \in fs : f \in Fields /\ b.vectors[f] \in Vectors
    BY BodyParts
  <1>4. \A f \in Fields : indexes'[f] = IF f \in fs THEN FlatInsert(indexes[f], id, b.vectors[f]) ELSE indexes[f]
    BY <1>1
  <1>5. ASSUME NEW f \in Fields
        PROVE  /\ indexes'[f] \in FlatIndexes
               /\ FlatConsistent(indexes'[f]) /\ indexes'[f].metric = indexes[f].metric
               /\ f \in fs => /\ FlatHas(indexes'[f], id) /\ b.vectors[f] \in Vectors
                              /\ FlatVector(indexes'[f], id) = Prepared(indexes[f].metric, b.vectors[f])
               /\ f \notin fs => indexes'[f] = indexes[f]
               /\ \A x \in Ids \ {id} : FlatHas(indexes'[f], x) = FlatHas(indexes[f], x)
                                        /\ FlatVector(indexes'[f], x) = FlatVector(indexes[f], x)
    <2>1. CASE f \in fs
      <3>1. indexes'[f] = FlatInsert(indexes[f], id, b.vectors[f]) /\ b.vectors[f] \in Vectors
        BY <2>1, <1>3, <1>4
      <3> DEFINE g == FlatInsert(indexes[f], id, b.vectors[f])
      <3>2. /\ g \in FlatIndexes /\ FlatConsistent(g) /\ g.metric = indexes[f].metric
            /\ FlatHas(g, id) /\ FlatVector(g, id) = Prepared(indexes[f].metric, b.vectors[f])
            /\ \A x \in Ids \ {id} : FlatHas(g, x) = FlatHas(indexes[f], x)
                                     /\ FlatVector(g, x) = FlatVector(indexes[f], x)
        BY <3>1, <1>2, FlatInsertIs
      <3>3. indexes'[f] = g
        BY <3>1
      <3> HIDE DEF g
      <3> QED BY <3>1, <3>2, <3>3, <2>1
    <2>2. CASE f \notin fs
      BY <2>2, <1>2, <1>4
    <2> QED BY <2>1, <2>2
  <1>6. indexes' \in [Fields -> FlatIndexes]
    BY <1>1, <1>5
  <1> QED BY <1>5, <1>6

\* Every index loses the document.
LEMMA UnindexIs ==
    ASSUME indexes \in [Fields -> FlatIndexes], text \in InvertedIndexes, MemorySound,
           NEW id \in Ids, Unindex(id)
    PROVE  /\ indexes' \in [Fields -> FlatIndexes] /\ text' \in InvertedIndexes /\ MemorySound'
           /\ ~InvertedHas(text', id)
           /\ \A x \in Ids \ {id} : InvertedHas(text', x) = InvertedHas(text, x)
           /\ \A f \in Fields :
                /\ ~FlatHas(indexes'[f], id) /\ indexes'[f].metric = indexes[f].metric
                /\ \A x \in Ids \ {id} : FlatHas(indexes'[f], x) = FlatHas(indexes[f], x)
                                         /\ FlatVector(indexes'[f], x) = FlatVector(indexes[f], x)
  <1>1. indexes' = [f \in Fields |-> FlatDelete(indexes[f], id)] /\ text' = InvertedDelete(text, id)
    BY DEF Unindex
  <1>2. \A f \in Fields : indexes[f] \in FlatIndexes /\ FlatConsistent(indexes[f]) /\ indexes'[f] = FlatDelete(indexes[f], id)
    BY <1>1 DEF MemorySound
  <1>3. ASSUME NEW f \in Fields
        PROVE  /\ indexes'[f] \in FlatIndexes /\ FlatConsistent(indexes'[f])
               /\ ~FlatHas(indexes'[f], id) /\ indexes'[f].metric = indexes[f].metric
               /\ \A x \in Ids \ {id} : FlatHas(indexes'[f], x) = FlatHas(indexes[f], x)
                                        /\ FlatVector(indexes'[f], x) = FlatVector(indexes[f], x)
    <2> DEFINE g == FlatDelete(indexes[f], id)
    <2>1. /\ g \in FlatIndexes /\ FlatConsistent(g) /\ g.metric = indexes[f].metric
          /\ ~FlatHas(g, id)
          /\ \A x \in Ids \ {id} : FlatHas(g, x) = FlatHas(indexes[f], x)
                                   /\ FlatVector(g, x) = FlatVector(indexes[f], x)
      BY <1>2, FlatDeleteIs
    <2>2. indexes'[f] = g
      BY <1>2
    <2> HIDE DEF g
    <2> QED BY <2>1, <2>2
  <1>4. /\ text' \in InvertedIndexes /\ InvertedConsistent(text') /\ ~InvertedHas(text', id)
        /\ \A x \in Ids \ {id} : InvertedHas(text', x) = InvertedHas(text, x)
    BY <1>1, InvertedDeleteIs, SearchAssumption DEF MemorySound
  <1>5. indexes' \in [Fields -> FlatIndexes]
    BY <1>1, <1>3
  <1> QED BY <1>3, <1>4, <1>5 DEF MemorySound

\* One full-text field.
LEMMA IndexTextIs ==
    ASSUME NEW t \in InvertedIndexes, InvertedConsistent(t), NEW id \in Ids, NEW w,
           w # None => Tokenize(w) \in Seq(Terms)
    PROVE  /\ IndexText(t, id, w) \in InvertedIndexes /\ InvertedConsistent(IndexText(t, id, w))
           /\ \A x \in Ids \ {id} : InvertedHas(IndexText(t, id, w), x) = InvertedHas(t, x)
           /\ w = None => IndexText(t, id, w) = t
  <1>1. CASE w = None
    BY <1>1 DEF IndexText
  <1>2. CASE w # None
    <2>1. IndexText(t, id, w) = InvertedInsert(t, id, Tokenize(w))
      BY <1>2 DEF IndexText
    <2> QED BY <2>1, <1>2, InvertedInsertIs, SearchAssumption
  <1> QED BY <1>1, <1>2

\* The full-text fields of a document: only its own postings change, and only
\* when it has such a field.
LEMMA IndexTextsIs ==
    ASSUME NEW t \in InvertedIndexes, InvertedConsistent(t), NEW id \in Ids, NEW b \in Bodies
    PROVE  /\ IndexTexts(t, id, b) \in InvertedIndexes /\ InvertedConsistent(IndexTexts(t, id, b))
           /\ \A x \in Ids \ {id} : InvertedHas(IndexTexts(t, id, b), x) = InvertedHas(t, x)
           /\ TextFields(b) = {} => IndexTexts(t, id, b) = t
           /\ TextFields(b) \subseteq {"title", "text"}
  <1> DEFINE t1 == IndexText(t, id, b.title)
  <1>1. \A w \in {b.title, b.text} : w # None => Tokenize(w) \in Seq(Terms)
    BY BodyParts
  <1>2. /\ t1 \in InvertedIndexes /\ InvertedConsistent(t1)
        /\ \A x \in Ids \ {id} : InvertedHas(t1, x) = InvertedHas(t, x)
        /\ b.title = None => t1 = t
    BY <1>1, IndexTextIs
  <1>3. IndexTexts(t, id, b) = IndexText(t1, id, b.text)
    BY DEF IndexTexts
  <1> HIDE DEF t1
  <1>4. /\ IndexTexts(t, id, b) \in InvertedIndexes /\ InvertedConsistent(IndexTexts(t, id, b))
        /\ \A x \in Ids \ {id} : InvertedHas(IndexTexts(t, id, b), x) = InvertedHas(t1, x)
        /\ b.text = None => IndexTexts(t, id, b) = t1
    BY <1>1, <1>2, <1>3, IndexTextIs
  <1>5. TextFields(b) = {} => b.title = None /\ b.text = None
    BY DEF TextFields
  <1> QED BY <1>2, <1>4, <1>5 DEF TextFields

\* A whole document.
LEMMA IndexDocumentIs ==
    ASSUME indexes \in [Fields -> FlatIndexes], text \in InvertedIndexes, MemorySound,
           NEW id \in Ids, NEW b \in Bodies, IndexDocument(id, b)
    PROVE  /\ indexes' \in [Fields -> FlatIndexes] /\ text' \in InvertedIndexes /\ MemorySound'
           /\ \A x \in Ids \ {id} : InvertedHas(text', x) = InvertedHas(text, x)
           /\ InvertedHas(text', id) => InvertedHas(text, id) \/ TextFields(b) # {}
           /\ TextFields(b) \subseteq {"title", "text"}
           /\ \A f \in Fields :
                /\ indexes'[f].metric = indexes[f].metric
                /\ FlatHas(indexes'[f], id) => FlatHas(indexes[f], id) \/ f \in VectorFields(b)
                /\ f \in VectorFields(b) => FlatVector(indexes'[f], id) = Prepared(indexes[f].metric, b.vectors[f])
                /\ \A x \in Ids \ {id} : FlatHas(indexes'[f], x) = FlatHas(indexes[f], x)
                                         /\ FlatVector(indexes'[f], x) = FlatVector(indexes[f], x)
  <1>1. /\ IndexVectors(id, b, VectorFields(b)) /\ text' = IndexTexts(text, id, b)
        /\ \A f \in VectorFields(b) : b.vectors[f] # Mismatch
    BY DEF IndexDocument, Fits, VectorFields
  <1>2. VectorFields(b) \in SUBSET VectorFields(b) /\ (\A f \in Fields : FlatConsistent(indexes[f])) /\ InvertedConsistent(text)
    BY DEF MemorySound
  <1>3. /\ indexes' \in [Fields -> FlatIndexes]
        /\ \A f \in Fields :
                /\ FlatConsistent(indexes'[f]) /\ indexes'[f].metric = indexes[f].metric
                /\ f \in VectorFields(b) => FlatVector(indexes'[f], id) = Prepared(indexes[f].metric, b.vectors[f])
                /\ f \notin VectorFields(b) => indexes'[f] = indexes[f]
                /\ \A x \in Ids \ {id} : FlatHas(indexes'[f], x) = FlatHas(indexes[f], x)
                                         /\ FlatVector(indexes'[f], x) = FlatVector(indexes[f], x)
    BY <1>1, <1>2, IndexVectorsIs
  <1>4. /\ text' \in InvertedIndexes /\ InvertedConsistent(text')
        /\ \A x \in Ids \ {id} : InvertedHas(text', x) = InvertedHas(text, x)
        /\ TextFields(b) = {} => text' = text
        /\ TextFields(b) \subseteq {"title", "text"}
    BY <1>1, <1>2, IndexTextsIs
  <1> QED BY <1>3, <1>4 DEF MemorySound

-----------------------------------------------------------------------------
(* The operations keep the invariant.                                      *)

LEMMA StoredBody ==
    ASSUME TypeOK, NEW id \in Ids
    PROVE  stored[id] # None => stored[id] \in Bodies /\ Fits(stored[id]) /\ id \in StoredIds
  BY DEF TypeOK, StoredIds

LEMMA InsertStep ==
    ASSUME IInv, NEW id \in Ids, NEW b \in Bodies, Insert(id, b)
    PROVE  IInv'
  <1>1. /\ at = "idle" /\ inserts < MaxInserts
        /\ IndexDocument(id, b)
        /\ stored' = [stored EXCEPT ![id] = b]
        /\ tombstones' = tombstones \ {id}
        /\ given' = [given EXCEPT ![id] = @ \cup VectorFields(b) \cup TextFields(b)]
        /\ refused' = refused \ {id}
        /\ inserts' = inserts + 1
        /\ UNCHANGED <<indexFile, at, toReplay, toDelete>>
    BY DEF Insert, opening
  <1>2. indexes \in [Fields -> FlatIndexes] /\ text \in InvertedIndexes /\ MemorySound
    BY DEF IInv, TypeOK
  <1>3. /\ indexes' \in [Fields -> FlatIndexes] /\ text' \in InvertedIndexes /\ MemorySound'
        /\ \A x \in Ids \ {id} : InvertedHas(text', x) = InvertedHas(text, x)
        /\ InvertedHas(text', id) => InvertedHas(text, id) \/ TextFields(b) # {}
        /\ TextFields(b) \subseteq {"title", "text"}
        /\ \A f \in Fields :
             /\ indexes'[f].metric = indexes[f].metric
             /\ FlatHas(indexes'[f], id) => FlatHas(indexes[f], id) \/ f \in VectorFields(b)
             /\ f \in VectorFields(b) => FlatVector(indexes'[f], id) = Prepared(indexes[f].metric, b.vectors[f])
             /\ \A x \in Ids \ {id} : FlatHas(indexes'[f], x) = FlatHas(indexes[f], x)
                                      /\ FlatVector(indexes'[f], x) = FlatVector(indexes[f], x)
    BY <1>1, <1>2, IndexDocumentIs
  <1>4. Fits(b) /\ b # None /\ VectorFields(b) \subseteq Fields
    BY <1>1, SearchAssumption DEF IndexDocument, VectorFields
  <1>5. stored'[id] = b /\ \A x \in Ids \ {id} : stored'[x] = stored[x]
    BY <1>1 DEF IInv, TypeOK
  <1>6. given'[id] = given[id] \cup VectorFields(b) \cup TextFields(b) /\ \A x \in Ids \ {id} : given'[x] = given[x]
    BY <1>1 DEF IInv, TypeOK
  <1>7. TypeOK'
    <2>1. stored' \in [Ids -> {d \in Bodies : Fits(d)} \cup {None}]
      BY <1>1, <1>4 DEF IInv, TypeOK
    <2>2. StoredIds' = StoredIds \cup {id}
      BY <1>4, <1>5 DEF StoredIds
    <2>3. toReplay' \subseteq StoredIds' /\ toDelete' \subseteq tombstones' /\ tombstones' \subseteq Ids \ StoredIds'
      BY <1>1, <2>2 DEF IInv, TypeOK, HeldWasGiven
    <2>4. given' \in [Ids -> SUBSET (Fields \cup {"title", "text"})]
      BY <1>1, <1>3, <1>4 DEF IInv, TypeOK
    <2>5. inserts' \in 0 .. MaxInserts
      BY <1>1, SearchAssumption DEF IInv, TypeOK
    <2> QED BY <1>1, <1>3, <2>1, <2>3, <2>4, <2>5 DEF IInv, TypeOK
  <1>8. FileSound' /\ DownIsEmpty'
    BY <1>1 DEF IInv, FileSound, DownIsEmpty
  <1>9. HeldWasGiven'
    <2>1. \A x \in Ids : FieldsOf(x)' \subseteq given'[x]
      BY <1>4, <1>5, <1>6 DEF IInv, HeldWasGiven, FieldsOf
    <2>2. \A f \in Fields, x \in Ids : FlatHas(indexes'[f], x) => f \in given'[x] \/ x \in toDelete'
      BY <1>1, <1>3, <1>6 DEF IInv, HeldWasGiven
    <2>3. \A x \in Ids : InvertedHas(text', x) => given'[x] \cap {"title", "text"} # {} \/ x \in toDelete'
      BY <1>1, <1>3, <1>6 DEF IInv, HeldWasGiven
    <2> QED BY <2>1, <2>2, <2>3, <1>1 DEF IInv, HeldWasGiven
  <1>10. StoredIsHeld'
    <2> SUFFICES ASSUME NEW x \in Ids \ (refused' \cup Pending') PROVE VectorsHeld(x)'
      BY DEF StoredIsHeld
    <2>1. CASE x = id
      BY <2>1, <1>3, <1>5, <1>4 DEF VectorsHeld
    <2>2. CASE x # id
      <3>1. VectorsHeld(x)
        BY <2>2, <1>1 DEF IInv, StoredIsHeld, Pending
      <3>2. \A f \in VectorFields(stored[x]) : f \in Fields
        BY DEF VectorFields
      <3> QED BY <3>1, <3>2, <2>2, <1>3, <1>5 DEF VectorsHeld
    <2> QED BY <2>1, <2>2
  <1> QED BY <1>3, <1>7, <1>8, <1>9, <1>10 DEF IInv

LEMMA InsertRefusedStep ==
    ASSUME IInv, NEW id \in Ids, NEW b \in Bodies, InsertRefused(id, b)
    PROVE  IInv'
  <1>1. /\ at = "idle" /\ inserts < MaxInserts
        /\ IndexPartly(id, b)
        /\ given' = [given EXCEPT ![id] = @ \cup VectorFields(b)]
        /\ refused' = refused \cup {id}
        /\ inserts' = inserts + 1
        /\ UNCHANGED <<stored, tombstones, indexFile, at, toReplay, toDelete, text>>
    BY DEF InsertRefused, IndexPartly, opening
  <1>2. indexes \in [Fields -> FlatIndexes] /\ text \in InvertedIndexes /\ MemorySound
    BY DEF IInv, TypeOK
  <1>3. /\ indexes' \in [Fields -> FlatIndexes] /\ \A f \in Fields : FlatConsistent(indexes'[f])
        /\ \A f \in Fields :
             /\ indexes'[f].metric = indexes[f].metric
             /\ FlatHas(indexes'[f], id) => FlatHas(indexes[f], id) \/ f \in VectorFields(b)
             /\ \A x \in Ids \ {id} : FlatHas(indexes'[f], x) = FlatHas(indexes[f], x)
                                      /\ FlatVector(indexes'[f], x) = FlatVector(indexes[f], x)
    <2>1. PICK fs \in SUBSET {f \in VectorFields(b) : b.vectors[f] # Mismatch} : IndexVectors(id, b, fs)
      BY <1>1 DEF IndexPartly
    <2>2. fs \in SUBSET VectorFields(b) /\ \A f \in fs : b.vectors[f] # Mismatch
      OBVIOUS
    <2>3. \A f \in Fields : FlatConsistent(indexes[f])
      BY <1>2 DEF MemorySound
    <2>4. /\ indexes' \in [Fields -> FlatIndexes]
          /\ \A f \in Fields :
                /\ FlatConsistent(indexes'[f]) /\ indexes'[f].metric = indexes[f].metric
                /\ f \notin fs => indexes'[f] = indexes[f]
                /\ \A x \in Ids \ {id} : FlatHas(indexes'[f], x) = FlatHas(indexes[f], x)
                                         /\ FlatVector(indexes'[f], x) = FlatVector(indexes[f], x)
      BY <1>2, <2>1, <2>2, <2>3, IndexVectorsIs
    <2> QED BY <2>2, <2>4
  <1>4. VectorFields(b) \subseteq Fields
    BY DEF VectorFields
  <1>5. given'[id] = given[id] \cup VectorFields(b) /\ \A x \in Ids \ {id} : given'[x] = given[x]
    BY <1>1 DEF IInv, TypeOK
  <1>6. TypeOK'
    <2>1. StoredIds' = StoredIds
      BY <1>1 DEF StoredIds
    <2>2. given' \in [Ids -> SUBSET (Fields \cup {"title", "text"})]
      BY <1>1, <1>4 DEF IInv, TypeOK
    <2>3. inserts' \in 0 .. MaxInserts
      BY <1>1, SearchAssumption DEF IInv, TypeOK
    <2> QED BY <1>1, <1>2, <1>3, <2>1, <2>2, <2>3 DEF IInv, TypeOK
  <1>7. FileSound' /\ DownIsEmpty' /\ MemorySound'
    BY <1>1, <1>2, <1>3 DEF IInv, FileSound, DownIsEmpty, MemorySound
  <1>8. HeldWasGiven'
    <2>1. \A x \in Ids : FieldsOf(x)' \subseteq given'[x]
      BY <1>1, <1>5 DEF IInv, HeldWasGiven, FieldsOf
    <2>2. \A f \in Fields, x \in Ids : FlatHas(indexes'[f], x) => f \in given'[x] \/ x \in toDelete'
      BY <1>1, <1>3, <1>5 DEF IInv, HeldWasGiven
    <2>3. \A x \in Ids : InvertedHas(text', x) => given'[x] \cap {"title", "text"} # {} \/ x \in toDelete'
      BY <1>1, <1>5 DEF IInv, HeldWasGiven
    <2> QED BY <2>1, <2>2, <2>3, <1>1 DEF IInv, HeldWasGiven
  <1>9. StoredIsHeld'
    <2> SUFFICES ASSUME NEW x \in Ids \ (refused' \cup Pending') PROVE VectorsHeld(x)'
      BY DEF StoredIsHeld
    <2>1. x # id /\ VectorsHeld(x)
      BY <1>1 DEF IInv, StoredIsHeld, Pending
    <2>2. \A f \in VectorFields(stored[x]) : f \in Fields
      BY DEF VectorFields
    <2> QED BY <2>1, <2>2, <1>3, <1>1 DEF VectorsHeld
  <1> QED BY <1>6, <1>7, <1>8, <1>9 DEF IInv

LEMMA DeleteStep ==
    ASSUME IInv, NEW id \in Ids, Delete(id)
    PROVE  IInv'
  <1>1. /\ at = "idle" /\ Unindex(id)
        /\ stored' = [stored EXCEPT ![id] = None]
        /\ tombstones' = tombstones \cup {id}
        /\ given' = [given EXCEPT ![id] = {}]
        /\ refused' = refused \ {id}
        /\ UNCHANGED <<indexFile, at, toReplay, toDelete, inserts>>
    BY DEF Delete, opening
  <1>2. indexes \in [Fields -> FlatIndexes] /\ text \in InvertedIndexes /\ MemorySound
    BY DEF IInv, TypeOK
  <1>3. /\ indexes' \in [Fields -> FlatIndexes] /\ text' \in InvertedIndexes /\ MemorySound'
        /\ ~InvertedHas(text', id)
        /\ \A x \in Ids \ {id} : InvertedHas(text', x) = InvertedHas(text, x)
        /\ \A f \in Fields :
             /\ ~FlatHas(indexes'[f], id) /\ indexes'[f].metric = indexes[f].metric
             /\ \A x \in Ids \ {id} : FlatHas(indexes'[f], x) = FlatHas(indexes[f], x)
                                      /\ FlatVector(indexes'[f], x) = FlatVector(indexes[f], x)
    BY <1>1, <1>2, UnindexIs
  <1>4. stored'[id] = None /\ \A x \in Ids \ {id} : stored'[x] = stored[x]
    BY <1>1 DEF IInv, TypeOK
  <1>5. given'[id] = {} /\ \A x \in Ids \ {id} : given'[x] = given[x]
    BY <1>1 DEF IInv, TypeOK
  <1>6. TypeOK'
    <2>1. stored' \in [Ids -> {d \in Bodies : Fits(d)} \cup {None}]
      BY <1>1 DEF IInv, TypeOK
    <2>2. StoredIds' = StoredIds \ {id}
      BY <1>4 DEF StoredIds
    <2>3. toReplay' \subseteq StoredIds' /\ toDelete' \subseteq tombstones' /\ tombstones' \subseteq Ids \ StoredIds'
      BY <1>1, <2>2 DEF IInv, TypeOK, HeldWasGiven
    <2>4. given' \in [Ids -> SUBSET (Fields \cup {"title", "text"})]
      BY <1>1 DEF IInv, TypeOK
    <2> QED BY <1>1, <1>3, <2>1, <2>3, <2>4 DEF IInv, TypeOK
  <1>7. FileSound' /\ DownIsEmpty'
    BY <1>1 DEF IInv, FileSound, DownIsEmpty
  <1>8. HeldWasGiven'
    <2>1. \A x \in Ids : FieldsOf(x)' \subseteq given'[x]
      BY <1>4, <1>5 DEF IInv, HeldWasGiven, FieldsOf
    <2>2. \A f \in Fields, x \in Ids : FlatHas(indexes'[f], x) => f \in given'[x] \/ x \in toDelete'
      BY <1>1, <1>3, <1>5 DEF IInv, HeldWasGiven
    <2>3. \A x \in Ids : InvertedHas(text', x) => given'[x] \cap {"title", "text"} # {} \/ x \in toDelete'
      BY <1>1, <1>3, <1>5 DEF IInv, HeldWasGiven
    <2> QED BY <2>1, <2>2, <2>3, <1>1 DEF IInv, HeldWasGiven
  <1>9. StoredIsHeld'
    <2> SUFFICES ASSUME NEW x \in Ids \ (refused' \cup Pending'), stored'[x] # None PROVE VectorsHeld(x)'
      BY DEF StoredIsHeld, VectorsHeld
    <2>1. x # id /\ VectorsHeld(x)
      BY <1>1, <1>4 DEF IInv, StoredIsHeld, Pending
    <2>2. \A f \in VectorFields(stored[x]) : f \in Fields
      BY DEF VectorFields
    <2> QED BY <2>1, <2>2, <1>3, <1>4 DEF VectorsHeld
  <1> QED BY <1>3, <1>6, <1>7, <1>8, <1>9 DEF IInv

LEMMA SaveIndexStep ==
    ASSUME IInv, SaveIndex
    PROVE  IInv'
  <1> DEFINE file == [entries |-> [f \in Fields |-> indexes[f].entries], text |-> text]
  <1>1. /\ at = "idle" /\ indexFile' = file
        /\ UNCHANGED <<stored, tombstones, indexes, text, at, toReplay, toDelete, given, refused, inserts>>
    BY DEF SaveIndex, memory, opening, history
  <1>2. \A f \in Fields : indexes[f].entries \in Seq(Entries) /\ Unique(indexes[f].entries)
    BY EntriesUnique DEF IInv, TypeOK, MemorySound
  <1>3. file \in IndexFiles
    <2>1. [f \in Fields |-> indexes[f].entries] \in [Fields -> Seq(Entries)] /\ text \in InvertedIndexes
      BY <1>2 DEF IInv, TypeOK
    <2> QED BY <2>1 DEF IndexFiles
  <1>4. StoredIds' = StoredIds
    BY <1>1 DEF StoredIds
  <1>5. TypeOK'
    BY <1>1, <1>3, <1>4 DEF IInv, TypeOK
  <1>6. FileSound'
    BY <1>1, <1>2 DEF IInv, FileSound, MemorySound
  <1>7. MemorySound' /\ DownIsEmpty' /\ HeldWasGiven'
    BY <1>1 DEF IInv, MemorySound, DownIsEmpty, HeldWasGiven, FieldsOf
  <1>8. StoredIsHeld'
    BY <1>1 DEF IInv, StoredIsHeld, Pending, VectorsHeld
  <1> QED BY <1>5, <1>6, <1>7, <1>8 DEF IInv

LEMMA StopStep ==
    ASSUME IInv, Stop
    PROVE  IInv'
  <1>1. /\ at' = "down" /\ indexes' = NewIndexes /\ text' = NewInverted
        /\ toReplay' = {} /\ toDelete' = {}
        /\ UNCHANGED <<stored, tombstones, indexFile, given, refused, inserts>>
    BY DEF Stop, history
  <1>2. /\ indexes' \in [Fields -> FlatIndexes]
        /\ \A f \in Fields : FlatConsistent(indexes'[f]) /\ \A x \in Ids : ~FlatHas(indexes'[f], x)
    BY <1>1, FlatNewIs, SearchAssumption DEF NewIndexes
  <1>3. text' \in InvertedIndexes /\ InvertedConsistent(text') /\ \A x \in Ids : ~InvertedHas(text', x)
    BY <1>1, InvertedNewIs
  <1>4. StoredIds' = StoredIds
    BY <1>1 DEF StoredIds
  <1>5. TypeOK'
    BY <1>1, <1>2, <1>3, <1>4 DEF IInv, TypeOK
  <1>6. MemorySound' /\ FileSound' /\ DownIsEmpty' /\ StoredIsHeld'
    BY <1>1, <1>2, <1>3 DEF IInv, MemorySound, FileSound, DownIsEmpty, StoredIsHeld
  <1>7. HeldWasGiven'
    BY <1>1, <1>2, <1>3 DEF IInv, HeldWasGiven, FieldsOf
  <1> QED BY <1>5, <1>6, <1>7 DEF IInv

LEMMA FieldsOfSubset ==
    ASSUME NEW id \in Ids
    PROVE  FieldsOf(id) \in SUBSET (Fields \cup {"title", "text"})
  BY DEF FieldsOf, VectorFields, TextFields

LEMMA OpenRebuildingStep ==
    ASSUME IInv, OpenRebuilding
    PROVE  IInv'
  <1>1. /\ at = "down" /\ at' = "rebuild" /\ toReplay' = StoredIds
        /\ given' = [id \in Ids |-> FieldsOf(id)] /\ refused' = {}
        /\ UNCHANGED <<stored, tombstones, indexes, text, indexFile, toDelete, inserts>>
    BY DEF OpenRebuilding, memory
  <1>2. StoredIds' = StoredIds /\ \A id \in Ids : FieldsOf(id)' = FieldsOf(id) /\ given'[id] = FieldsOf(id)
    BY <1>1 DEF StoredIds, FieldsOf
  <1>3. given' \in [Ids -> SUBSET (Fields \cup {"title", "text"})]
    BY <1>1, FieldsOfSubset
  <1>4. TypeOK'
    BY <1>1, <1>2, <1>3 DEF IInv, TypeOK
  <1>5. MemorySound' /\ FileSound' /\ DownIsEmpty'
    BY <1>1 DEF IInv, MemorySound, FileSound, DownIsEmpty
  <1>6. HeldWasGiven'
    BY <1>1, <1>2 DEF IInv, HeldWasGiven, DownIsEmpty
  <1>7. StoredIsHeld'
    <2> SUFFICES ASSUME NEW x \in Ids \ (refused' \cup Pending') PROVE VectorsHeld(x)'
      BY DEF StoredIsHeld
    <2>1. x \notin StoredIds
      BY <1>1 DEF Pending
    <2> QED BY <2>1, <1>1 DEF VectorsHeld, StoredIds
  <1> QED BY <1>4, <1>5, <1>6, <1>7 DEF IInv

LEMMA OpenLoadingStep ==
    ASSUME IInv, OpenLoading
    PROVE  IInv'
  <1> DEFINE loaded(f) == FlatLoaded(indexFile.entries[f], LoadedMetric(f))
  <1>1. /\ at = "down" /\ indexFile # NoIndex /\ at' = "replay"
        /\ indexes' = [f \in Fields |-> loaded(f)]
        /\ text' = indexFile.text
        /\ toReplay' = StoredIds /\ toDelete' = tombstones
        /\ given' = [id \in Ids |-> IF id \in tombstones THEN given[id] ELSE given[id] \cup FieldsInFile(id)]
        /\ UNCHANGED <<stored, tombstones, indexFile, refused, inserts>>
    BY DEF OpenLoading
  <1>2. /\ indexFile.entries \in [Fields -> Seq(Entries)] /\ indexFile.text \in InvertedIndexes
        /\ \A f \in Fields : Unique(indexFile.entries[f])
        /\ InvertedConsistent(indexFile.text)
    BY <1>1 DEF IInv, TypeOK, FileSound, IndexFiles
  <1>3. ASSUME NEW f \in Fields
        PROVE  loaded(f) \in FlatIndexes /\ FlatConsistent(loaded(f))
    <2>1. indexFile.entries[f] \in Seq(Entries) /\ Unique(indexFile.entries[f]) /\ LoadedMetric(f) \in Metrics
      BY <1>2 DEF LoadedMetric, Metrics
    <2> QED BY <2>1, FlatLoadedIs
  <1>4. \A f \in Fields : indexes'[f] = loaded(f)
    BY <1>1
  <1>5. indexes' \in [Fields -> FlatIndexes] /\ MemorySound'
    BY <1>1, <1>2, <1>3, <1>4 DEF MemorySound
  <1>6. \A id \in Ids : FieldsInFile(id) = {f \in Fields : FlatHas(loaded(f), id)}
                                            \cup IF InvertedHas(text', id) THEN {"title", "text"} ELSE {}
    BY <1>1 DEF FieldsInFile
  <1> HIDE DEF loaded
  <1>7. \A id \in Ids : given'[id] = IF id \in tombstones THEN given[id] ELSE given[id] \cup FieldsInFile(id)
    BY <1>1
  <1>8. StoredIds' = StoredIds /\ \A id \in Ids : FieldsOf(id)' = FieldsOf(id)
    BY <1>1 DEF StoredIds, FieldsOf
  <1>9. TypeOK'
    <2>1. \A id \in Ids : FieldsInFile(id) \subseteq Fields \cup {"title", "text"}
      BY <1>6
    <2>2. given' \in [Ids -> SUBSET (Fields \cup {"title", "text"})]
      BY <1>1, <2>1 DEF IInv, TypeOK
    <2> QED BY <1>1, <1>2, <1>5, <1>8, <2>2 DEF IInv, TypeOK
  <1>10. FileSound' /\ DownIsEmpty'
    BY <1>1 DEF IInv, FileSound, DownIsEmpty
  <1>11. HeldWasGiven'
    <2>1. \A x \in Ids : FieldsOf(x)' \subseteq given'[x]
      BY <1>7, <1>8 DEF IInv, HeldWasGiven
    <2>2. \A f \in Fields, x \in Ids : FlatHas(indexes'[f], x) => f \in given'[x] \/ x \in toDelete'
      BY <1>1, <1>4, <1>6, <1>7
    <2>3. \A x \in Ids : InvertedHas(text', x) => given'[x] \cap {"title", "text"} # {} \/ x \in toDelete'
      BY <1>1, <1>6, <1>7
    <2> QED BY <2>1, <2>2, <2>3, <1>1 DEF HeldWasGiven
  <1>12. StoredIsHeld'
    <2> SUFFICES ASSUME NEW x \in Ids \ (refused' \cup Pending') PROVE VectorsHeld(x)'
      BY DEF StoredIsHeld
    <2>1. x \notin StoredIds
      BY <1>1 DEF Pending
    <2> QED BY <2>1, <1>1 DEF VectorsHeld, StoredIds
  <1> QED BY <1>5, <1>9, <1>10, <1>11, <1>12 DEF IInv

LEMMA ReplayOneStep ==
    ASSUME IInv, NEW id \in Ids, ReplayOne(id)
    PROVE  IInv'
  <1> DEFINE b == stored[id]
  <1>1. /\ at \in {"rebuild", "replay"} /\ id \in toReplay
        /\ IndexDocument(id, b)
        /\ toReplay' = toReplay \ {id}
        /\ UNCHANGED <<stored, tombstones, indexFile, at, toDelete, given, refused, inserts>>
    BY DEF ReplayOne, history
  <1>2. b \in Bodies /\ id \in StoredIds /\ b # None
    BY <1>1, StoredBody DEF IInv, TypeOK, StoredIds
  <1>3. indexes \in [Fields -> FlatIndexes] /\ text \in InvertedIndexes /\ MemorySound
    BY DEF IInv, TypeOK
  <1>4. /\ indexes' \in [Fields -> FlatIndexes] /\ text' \in InvertedIndexes /\ MemorySound'
        /\ \A x \in Ids \ {id} : InvertedHas(text', x) = InvertedHas(text, x)
        /\ InvertedHas(text', id) => InvertedHas(text, id) \/ TextFields(b) # {}
        /\ TextFields(b) \subseteq {"title", "text"}
        /\ \A f \in Fields :
             /\ indexes'[f].metric = indexes[f].metric
             /\ FlatHas(indexes'[f], id) => FlatHas(indexes[f], id) \/ f \in VectorFields(b)
             /\ f \in VectorFields(b) => FlatVector(indexes'[f], id) = Prepared(indexes[f].metric, b.vectors[f])
             /\ \A x \in Ids \ {id} : FlatHas(indexes'[f], x) = FlatHas(indexes[f], x)
                                      /\ FlatVector(indexes'[f], x) = FlatVector(indexes[f], x)
    BY <1>1, <1>2, <1>3, IndexDocumentIs
  <1>5. StoredIds' = StoredIds /\ \A x \in Ids : FieldsOf(x)' = FieldsOf(x)
    BY <1>1 DEF StoredIds, FieldsOf
  <1>6. FieldsOf(id) = VectorFields(b) \cup TextFields(b)
    BY <1>2 DEF FieldsOf
  <1> HIDE DEF b
  <1>7. TypeOK'
    BY <1>1, <1>4, <1>5 DEF IInv, TypeOK
  <1>8. FileSound' /\ DownIsEmpty'
    BY <1>1 DEF IInv, FileSound, DownIsEmpty
  <1>9. HeldWasGiven'
    <2>1. \A x \in Ids : FieldsOf(x)' \subseteq given'[x]
      BY <1>1, <1>5 DEF IInv, HeldWasGiven
    <2>2. \A f \in Fields, x \in Ids : FlatHas(indexes'[f], x) => f \in given'[x] \/ x \in toDelete'
      BY <1>1, <1>4, <1>6 DEF IInv, HeldWasGiven
    <2>3. \A x \in Ids : InvertedHas(text', x) => given'[x] \cap {"title", "text"} # {} \/ x \in toDelete'
      BY <1>1, <1>4, <1>6 DEF IInv, HeldWasGiven
    <2> QED BY <2>1, <2>2, <2>3, <1>1 DEF HeldWasGiven
  <1>10. StoredIsHeld'
    <2> SUFFICES ASSUME NEW x \in Ids \ (refused' \cup Pending') PROVE VectorsHeld(x)'
      BY DEF StoredIsHeld
    <2>1. CASE x = id
      BY <2>1, <1>1, <1>4 DEF VectorsHeld, VectorFields, b
    <2>2. CASE x # id
      <3>1. VectorsHeld(x)
        BY <2>2, <1>1 DEF IInv, StoredIsHeld, Pending
      <3>2. \A f \in VectorFields(stored[x]) : f \in Fields
        BY DEF VectorFields
      <3> QED BY <3>1, <3>2, <2>2, <1>4, <1>1 DEF VectorsHeld
    <2> QED BY <2>1, <2>2
  <1> QED BY <1>4, <1>7, <1>8, <1>9, <1>10 DEF IInv

LEMMA DeleteOneStep ==
    ASSUME IInv, NEW id \in Ids, DeleteOne(id)
    PROVE  IInv'
  <1>1. /\ at = "replay" /\ toReplay = {} /\ id \in toDelete
        /\ Unindex(id)
        /\ toDelete' = toDelete \ {id}
        /\ UNCHANGED <<stored, tombstones, indexFile, at, toReplay, given, refused, inserts>>
    BY DEF DeleteOne, history
  <1>2. indexes \in [Fields -> FlatIndexes] /\ text \in InvertedIndexes /\ MemorySound
    BY DEF IInv, TypeOK
  <1>3. /\ indexes' \in [Fields -> FlatIndexes] /\ text' \in InvertedIndexes /\ MemorySound'
        /\ ~InvertedHas(text', id)
        /\ \A x \in Ids \ {id} : InvertedHas(text', x) = InvertedHas(text, x)
        /\ \A f \in Fields :
             /\ ~FlatHas(indexes'[f], id) /\ indexes'[f].metric = indexes[f].metric
             /\ \A x \in Ids \ {id} : FlatHas(indexes'[f], x) = FlatHas(indexes[f], x)
                                      /\ FlatVector(indexes'[f], x) = FlatVector(indexes[f], x)
    BY <1>1, <1>2, UnindexIs
  <1>4. StoredIds' = StoredIds /\ id \notin StoredIds /\ \A x \in Ids : FieldsOf(x)' = FieldsOf(x)
    BY <1>1 DEF StoredIds, FieldsOf, IInv, TypeOK
  <1>5. TypeOK'
    BY <1>1, <1>3, <1>4 DEF IInv, TypeOK
  <1>6. FileSound' /\ DownIsEmpty'
    BY <1>1 DEF IInv, FileSound, DownIsEmpty
  <1>7. HeldWasGiven'
    <2>1. \A f \in Fields, x \in Ids : FlatHas(indexes'[f], x) => f \in given'[x] \/ x \in toDelete'
      BY <1>1, <1>3 DEF IInv, HeldWasGiven
    <2>2. \A x \in Ids : InvertedHas(text', x) => given'[x] \cap {"title", "text"} # {} \/ x \in toDelete'
      BY <1>1, <1>3 DEF IInv, HeldWasGiven
    <2> QED BY <2>1, <2>2, <1>1, <1>4 DEF IInv, HeldWasGiven
  <1>8. StoredIsHeld'
    <2> SUFFICES ASSUME NEW x \in Ids \ (refused' \cup Pending'), stored'[x] # None PROVE VectorsHeld(x)'
      BY DEF StoredIsHeld, VectorsHeld
    <2>1. x # id /\ VectorsHeld(x)
      BY <1>1, <1>4 DEF IInv, StoredIsHeld, Pending, StoredIds
    <2>2. \A f \in VectorFields(stored[x]) : f \in Fields
      BY DEF VectorFields
    <2> QED BY <2>1, <2>2, <1>3, <1>1 DEF VectorsHeld
  <1> QED BY <1>3, <1>5, <1>6, <1>7, <1>8 DEF IInv

LEMMA RebuildTextStep ==
    ASSUME IInv, RebuildText
    PROVE  IInv'
  <1>1. /\ at = "replay" /\ toReplay = {} /\ at' = "rebuildText" /\ toReplay' = StoredIds
        /\ UNCHANGED <<stored, tombstones, indexes, text, indexFile, toDelete, given, refused, inserts>>
    BY DEF RebuildText, memory, history
  <1>2. StoredIds' = StoredIds /\ \A x \in Ids : FieldsOf(x)' = FieldsOf(x)
    BY <1>1 DEF StoredIds, FieldsOf
  <1>3. TypeOK'
    BY <1>1, <1>2 DEF IInv, TypeOK
  <1>4. MemorySound' /\ FileSound' /\ DownIsEmpty' /\ HeldWasGiven'
    BY <1>1, <1>2 DEF IInv, MemorySound, FileSound, DownIsEmpty, HeldWasGiven
  <1>5. StoredIsHeld'
    BY <1>1 DEF IInv, StoredIsHeld, Pending, VectorsHeld
  <1> QED BY <1>3, <1>4, <1>5 DEF IInv

LEMMA RebuildTextOneStep ==
    ASSUME IInv, NEW id \in Ids, RebuildTextOne(id)
    PROVE  IInv'
  <1> DEFINE b == stored[id]
  <1>1. /\ at = "rebuildText" /\ id \in toReplay
        /\ text' = IndexTexts(text, id, b)
        /\ toReplay' = toReplay \ {id}
        /\ UNCHANGED <<stored, tombstones, indexes, indexFile, at, toDelete, given, refused, inserts>>
    BY DEF RebuildTextOne, history
  <1>2. b \in Bodies /\ b # None
    BY <1>1, StoredBody DEF IInv, TypeOK, StoredIds
  <1>3. /\ text' \in InvertedIndexes /\ InvertedConsistent(text')
        /\ \A x \in Ids \ {id} : InvertedHas(text', x) = InvertedHas(text, x)
        /\ TextFields(b) = {} => text' = text
        /\ TextFields(b) \subseteq {"title", "text"}
    BY <1>1, <1>2, IndexTextsIs DEF IInv, TypeOK, MemorySound
  <1>4. StoredIds' = StoredIds /\ \A x \in Ids : FieldsOf(x)' = FieldsOf(x)
    BY <1>1 DEF StoredIds, FieldsOf
  <1>5. TextFields(b) \subseteq given[id]
    BY <1>2 DEF IInv, HeldWasGiven, FieldsOf
  <1> HIDE DEF b
  <1>6. TypeOK'
    BY <1>1, <1>3, <1>4 DEF IInv, TypeOK
  <1>7. MemorySound' /\ FileSound' /\ DownIsEmpty'
    BY <1>1, <1>3 DEF IInv, MemorySound, FileSound, DownIsEmpty
  <1>8. HeldWasGiven'
    <2>1. \A x \in Ids : InvertedHas(text', x) => given'[x] \cap {"title", "text"} # {} \/ x \in toDelete'
      BY <1>1, <1>3, <1>5 DEF IInv, HeldWasGiven
    <2> QED BY <2>1, <1>1, <1>4 DEF IInv, HeldWasGiven
  <1>9. StoredIsHeld'
    BY <1>1 DEF IInv, StoredIsHeld, Pending, VectorsHeld
  <1> QED BY <1>6, <1>7, <1>8, <1>9 DEF IInv

LEMMA OpenedStep ==
    ASSUME IInv, Opened
    PROVE  IInv'
  <1>1. /\ toReplay = {} /\ toDelete = {} /\ at # "down" /\ at' = "idle"
        /\ UNCHANGED <<stored, tombstones, indexes, text, indexFile, toReplay, toDelete, given, refused, inserts>>
    BY DEF Opened, memory, history, opening
  <1>2. StoredIds' = StoredIds /\ \A x \in Ids : FieldsOf(x)' = FieldsOf(x)
    BY <1>1 DEF StoredIds, FieldsOf
  <1>3. TypeOK'
    BY <1>1, <1>2 DEF IInv, TypeOK
  <1>4. MemorySound' /\ FileSound' /\ DownIsEmpty' /\ HeldWasGiven'
    BY <1>1, <1>2 DEF IInv, MemorySound, FileSound, DownIsEmpty, HeldWasGiven
  <1>5. StoredIsHeld'
    BY <1>1 DEF IInv, StoredIsHeld, Pending, VectorsHeld
  <1> QED BY <1>3, <1>4, <1>5 DEF IInv

-----------------------------------------------------------------------------
(* The invariant holds.                                                    *)

LEMMA Start == Init => IInv
  <1> SUFFICES ASSUME Init PROVE IInv
    OBVIOUS
  <1>1. /\ stored = [id \in Ids |-> None] /\ tombstones = {} /\ indexes = NewIndexes /\ text = NewInverted
        /\ indexFile = NoIndex /\ at = "down" /\ toReplay = {} /\ toDelete = {}
        /\ given = [id \in Ids |-> {}] /\ refused = {} /\ inserts = 0
    BY DEF Init
  <1>2. /\ indexes \in [Fields -> FlatIndexes]
        /\ \A f \in Fields : FlatConsistent(indexes[f]) /\ \A x \in Ids : ~FlatHas(indexes[f], x)
    BY <1>1, FlatNewIs, SearchAssumption DEF NewIndexes
  <1>3. text \in InvertedIndexes /\ InvertedConsistent(text) /\ \A x \in Ids : ~InvertedHas(text, x)
    BY <1>1, InvertedNewIs
  <1>4. TypeOK
    BY <1>1, <1>2, <1>3, SearchAssumption DEF TypeOK
  <1>5. MemorySound /\ FileSound /\ DownIsEmpty /\ StoredIsHeld
    BY <1>1, <1>2, <1>3 DEF MemorySound, FileSound, DownIsEmpty, StoredIsHeld
  <1>6. HeldWasGiven
    BY <1>1, <1>2, <1>3 DEF HeldWasGiven, FieldsOf
  <1> QED BY <1>4, <1>5, <1>6 DEF IInv

LEMMA Stutter ==
    ASSUME IInv, UNCHANGED vars
    PROVE  IInv'
  <1>1. UNCHANGED <<stored, tombstones, indexes, text, indexFile, at, toReplay, toDelete, given, refused, inserts>>
    BY DEF vars, memory, opening, history
  <1>2. StoredIds' = StoredIds /\ \A x \in Ids : FieldsOf(x)' = FieldsOf(x)
    BY <1>1 DEF StoredIds, FieldsOf
  <1>3. TypeOK' /\ MemorySound' /\ FileSound' /\ DownIsEmpty' /\ HeldWasGiven'
    BY <1>1, <1>2 DEF IInv, TypeOK, MemorySound, FileSound, DownIsEmpty, HeldWasGiven
  <1>4. StoredIsHeld'
    BY <1>1 DEF IInv, StoredIsHeld, Pending, VectorsHeld
  <1> QED BY <1>3, <1>4 DEF IInv

LEMMA Step == IInv /\ [Next]_vars => IInv'
  <1> SUFFICES ASSUME IInv, [Next]_vars PROVE IInv'
    OBVIOUS
  <1>1. ASSUME NEW id \in Ids, NEW b \in Bodies, Insert(id, b) PROVE IInv'
    BY <1>1, InsertStep
  <1>2. ASSUME NEW id \in Ids, NEW b \in Bodies, InsertRefused(id, b) PROVE IInv'
    BY <1>2, InsertRefusedStep
  <1>3. ASSUME NEW id \in Ids, Delete(id) PROVE IInv'
    BY <1>3, DeleteStep
  <1>4. ASSUME NEW id \in Ids, ReplayOne(id) \/ DeleteOne(id) \/ RebuildTextOne(id) PROVE IInv'
    BY <1>4, ReplayOneStep, DeleteOneStep, RebuildTextOneStep
  <1>5. CASE SaveIndex \/ Stop
    BY <1>5, SaveIndexStep, StopStep
  <1>6. CASE OpenRebuilding \/ OpenLoading \/ RebuildText \/ Opened
    BY <1>6, OpenRebuildingStep, OpenLoadingStep, RebuildTextStep, OpenedStep
  <1>7. CASE UNCHANGED vars
    BY <1>7, Stutter
  <1> QED BY <1>1, <1>2, <1>3, <1>4, <1>5, <1>6, <1>7 DEF Next

\* The invariant is inductive: it relates the map of each index to its
\* entries, and the entries to the documents still to be replayed.
THEOREM IndexesSound == Spec => []IInv
  BY Start, Step, PTL DEF Spec

\* Every operation, the steps of an opening included, keeps all variables in
\* their types: above all, the positions and the counts of the indexes.
THEOREM SearchTypeCorrect == Spec => []TypeOK
  <1>1. IInv => TypeOK
    BY DEF IInv
  <1> QED BY <1>1, IndexesSound, PTL

\* The maps, entries and counts of the flat indexes agree at every step, in
\* memory and as they would be loaded from the file.
THEOREM FlatIndexesStayConsistent == Spec => []FlatIndexesConsistent
  <1>1. IInv => FlatIndexesConsistent
    <2> SUFFICES ASSUME IInv, indexFile # NoIndex, NEW f \in Fields
                 PROVE  FlatConsistent(FlatLoaded(indexFile.entries[f], LoadedMetric(f)))
      BY DEF FlatIndexesConsistent, IInv, MemorySound
    <2>1. indexFile.entries[f] \in Seq(Entries) /\ Unique(indexFile.entries[f]) /\ LoadedMetric(f) \in Metrics
      BY DEF IInv, TypeOK, FileSound, IndexFiles, LoadedMetric, Metrics
    <2> QED BY <2>1, FlatLoadedIs
  <1> QED BY <1>1, IndexesSound, PTL

\* The postings, the lengths and the number of documents of the full-text index
\* agree at every step, in memory and in the file.
THEOREM PostingsStayConsistent == Spec => []PostingsConsistent
  <1>1. IInv => PostingsConsistent
    BY DEF IInv, MemorySound, FileSound, PostingsConsistent
  <1> QED BY <1>1, IndexesSound, PTL

\* Once opened, and whatever was refused, updated, deleted, saved and loaded
\* before, the indexes have every stored document with its vectors, and none in
\* a field it never had.
THEOREM StoredStaysFound == Spec => []StoredIsFound
  <1>1. IInv => StoredIsFound
    <2> SUFFICES ASSUME IInv, at = "idle", NEW id \in Ids \ refused
                 PROVE  /\ VectorsHeld(id)
                        /\ \A f \in Fields : FlatHas(indexes[f], id) => f \in given[id]
                        /\ InvertedHas(text, id) => given[id] \cap {"title", "text"} # {}
      BY DEF StoredIsFound, VectorsHeld
    <2>1. VectorsHeld(id)
      BY DEF IInv, StoredIsHeld, Pending
    <2> QED BY <2>1 DEF IInv, HeldWasGiven
  <1> QED BY <1>1, IndexesSound, PTL

-----------------------------------------------------------------------------
(* The full-text index has the tokens of the stored documents.             *)

TextsHeld(id) == stored[id] # None /\ TextFields(stored[id]) # {} =>
    \A w \in Terms : FrequencyIn(text, w, id) = Frequency(TokensOf(id), w)

\* It has the text of every stored document that is not one the opening has yet
\* to index, those included whose last insert was refused.
TextIsHeld == at # "down" => \A id \in Ids \ Pending : TextsHeld(id)

\* One full-text field: the tokens of the document are those of the field.
LEMMA IndexTextFrequencies ==
    ASSUME NEW t \in InvertedIndexes, InvertedConsistent(t), NEW id \in Ids, NEW v,
           v # None => Tokenize(v) \in Seq(Terms), NEW w \in Terms
    PROVE  /\ v # None => FrequencyIn(IndexText(t, id, v), w, id) = Frequency(Tokenize(v), w)
           /\ \A x \in Ids \ {id} : FrequencyIn(IndexText(t, id, v), w, x) = FrequencyIn(t, w, x)
  <1>1. CASE v = None
    BY <1>1 DEF IndexText
  <1>2. CASE v # None
    <2>1. IndexText(t, id, v) = InvertedInsert(t, id, Tokenize(v))
      BY <1>2 DEF IndexText
    <2> QED BY <2>1, <1>2, InsertedFrequencies, SearchAssumption
  <1> QED BY <1>1, <1>2

\* Both: those of the field that comes last.
LEMMA IndexTextsFrequencies ==
    ASSUME NEW t \in InvertedIndexes, InvertedConsistent(t), NEW id \in Ids, NEW b \in Bodies, NEW w \in Terms
    PROVE  /\ TextFields(b) # {} => FrequencyIn(IndexTexts(t, id, b), w, id) = Frequency(TokensIn(b), w)
           /\ \A x \in Ids \ {id} : FrequencyIn(IndexTexts(t, id, b), w, x) = FrequencyIn(t, w, x)
  <1> DEFINE t1 == IndexText(t, id, b.title)
             t2 == IndexText(t1, id, b.text)
  <1>1. \A v \in {b.title, b.text} : v # None => Tokenize(v) \in Seq(Terms)
    BY BodyParts
  <1>2. t1 \in InvertedIndexes /\ InvertedConsistent(t1)
    BY <1>1, IndexTextIs
  <1>3. /\ b.title # None => FrequencyIn(t1, w, id) = Frequency(Tokenize(b.title), w)
        /\ \A x \in Ids \ {id} : FrequencyIn(t1, w, x) = FrequencyIn(t, w, x)
    BY <1>1, IndexTextFrequencies
  <1> HIDE DEF t1
  <1>4. /\ b.text # None => FrequencyIn(t2, w, id) = Frequency(Tokenize(b.text), w)
        /\ \A x \in Ids \ {id} : FrequencyIn(t2, w, x) = FrequencyIn(t1, w, x)
        /\ b.text = None => t2 = t1
    BY <1>1, <1>2, IndexTextFrequencies, IndexTextIs
  <1>5. IndexTexts(t, id, b) = t2
    BY DEF IndexTexts, t1
  <1> HIDE DEF t2
  <1>6. TextFields(b) # {} => b.title # None \/ b.text # None
    BY DEF TextFields
  <1>7. TextFields(b) # {} => TokensIn(b) = Tokenize(IF b.text # None THEN b.text ELSE b.title)
    BY DEF TokensIn, LastText
  <1> QED BY <1>3, <1>4, <1>5, <1>6, <1>7

\* What indexing a document does to the texts of all.
LEMMA IndexedTextsHeld ==
    ASSUME IInv, NEW id \in Ids, NEW b \in Bodies, text' = IndexTexts(text, id, b),
           stored'[id] = b, \A x \in Ids \ {id} : stored'[x] = stored[x]
    PROVE  TextsHeld(id)' /\ \A x \in Ids \ {id} : TextsHeld(x) => TextsHeld(x)'
  <1>1. \A w \in Terms :
            /\ TextFields(b) # {} => FrequencyIn(text', w, id) = Frequency(TokensIn(b), w)
            /\ \A x \in Ids \ {id} : FrequencyIn(text', w, x) = FrequencyIn(text, w, x)
    BY IndexTextsFrequencies DEF IInv, TypeOK, MemorySound
  <1> QED BY <1>1 DEF TextsHeld, TokensOf

\* And what taking one out does.
LEMMA UnindexedTextsHeld ==
    ASSUME IInv, NEW id \in Ids, Unindex(id),
           stored'[id] = None, \A x \in Ids \ {id} : stored'[x] = stored[x]
    PROVE  TextsHeld(id)' /\ \A x \in Ids \ {id} : TextsHeld(x) => TextsHeld(x)'
  <1>1. \A w \in Terms : \A x \in Ids \ {id} : FrequencyIn(text', w, x) = FrequencyIn(text, w, x)
    BY DeletedFrequencies, SearchAssumption DEF Unindex, IInv, TypeOK, MemorySound
  <1> QED BY <1>1 DEF TextsHeld, TokensOf

LEMMA TextStep == IInv /\ TextIsHeld /\ [Next]_vars => TextIsHeld'
  <1> SUFFICES ASSUME IInv, TextIsHeld, [Next]_vars, NEW y \in Ids \ Pending', at' # "down"
               PROVE  TextsHeld(y)'
    BY DEF TextIsHeld
  <1>1. at = "idle" => Pending = {} /\ TextsHeld(y)
    BY DEF TextIsHeld, Pending
  <1>2. ASSUME NEW id \in Ids, NEW b \in Bodies, Insert(id, b) PROVE TextsHeld(y)'
    <2>1. /\ text' = IndexTexts(text, id, b) /\ at = "idle"
          /\ stored'[id] = b /\ \A x \in Ids \ {id} : stored'[x] = stored[x]
      BY <1>2 DEF Insert, IndexDocument, IInv, TypeOK
    <2> QED BY <2>1, <1>1, IndexedTextsHeld
  <1>3. ASSUME NEW id \in Ids, Delete(id) PROVE TextsHeld(y)'
    <2>1. /\ Unindex(id) /\ at = "idle"
          /\ stored'[id] = None /\ \A x \in Ids \ {id} : stored'[x] = stored[x]
      BY <1>3 DEF Delete, IInv, TypeOK
    <2> QED BY <2>1, <1>1, UnindexedTextsHeld
  <1>4. ASSUME NEW id \in Ids, ReplayOne(id) PROVE TextsHeld(y)'
    <2>1. /\ text' = IndexTexts(text, id, stored[id]) /\ stored' = stored /\ stored[id] \in Bodies
          /\ at \in {"rebuild", "replay"} /\ at' = at /\ toReplay' = toReplay \ {id}
      BY <1>4, StoredBody DEF ReplayOne, IndexDocument, IInv, TypeOK, StoredIds
    <2>2. y # id => TextsHeld(y)
      BY <2>1 DEF Pending, TextIsHeld
    <2> QED BY <2>1, <2>2, IndexedTextsHeld
  <1>5. ASSUME NEW id \in Ids, RebuildTextOne(id) PROVE TextsHeld(y)'
    <2>1. /\ text' = IndexTexts(text, id, stored[id]) /\ stored' = stored /\ stored[id] \in Bodies
          /\ at = "rebuildText" /\ at' = at
      BY <1>5, StoredBody DEF RebuildTextOne, IInv, TypeOK, StoredIds
    <2>2. TextsHeld(y)
      BY <2>1 DEF Pending, TextIsHeld
    <2> QED BY <2>1, <2>2, IndexedTextsHeld
  <1>6. ASSUME NEW id \in Ids, DeleteOne(id) PROVE TextsHeld(y)'
    <2>1. /\ Unindex(id) /\ stored' = stored /\ stored[id] = None /\ at # "down" /\ toReplay = {}
      BY <1>6 DEF DeleteOne, IInv, TypeOK, StoredIds
    <2>2. TextsHeld(y)
      BY <2>1 DEF Pending, TextIsHeld
    <2> QED BY <2>1, <2>2, UnindexedTextsHeld
  <1>7. CASE OpenRebuilding \/ OpenLoading
    <2>1. stored' = stored /\ toReplay' = StoredIds /\ at' \in {"rebuild", "replay"}
      BY <1>7 DEF OpenRebuilding, OpenLoading
    <2>2. stored'[y] = None
      BY <2>1 DEF Pending, StoredIds
    <2> QED BY <2>2 DEF TextsHeld
  <1>8. ASSUME NEW id \in Ids, NEW b \in Bodies, InsertRefused(id, b) PROVE TextsHeld(y)'
    <2>1. stored' = stored /\ text' = text /\ at = "idle"
      BY <1>8 DEF InsertRefused, IndexPartly
    <2> QED BY <2>1, <1>1 DEF TextsHeld, TokensOf
  <1>9. CASE SaveIndex
    <2>1. stored' = stored /\ text' = text /\ at = "idle"
      BY <1>9 DEF SaveIndex, memory
    <2> QED BY <2>1, <1>1 DEF TextsHeld, TokensOf
  <1>10. CASE RebuildText \/ Opened
    <2>1. stored' = stored /\ text' = text /\ at # "down" /\ Pending = {}
      BY <1>10 DEF RebuildText, Opened, memory, Pending
    <2> QED BY <2>1 DEF TextsHeld, TokensOf, TextIsHeld
  <1>11. CASE UNCHANGED vars
    <2>1. stored' = stored /\ text' = text /\ at' = at /\ Pending' = Pending
      BY <1>11 DEF vars, memory, Pending, opening
    <2> QED BY <2>1 DEF TextsHeld, TokensOf, TextIsHeld
  <1>12. CASE Stop
    BY <1>12 DEF Stop
  <1> QED BY <1>2, <1>3, <1>4, <1>5, <1>6, <1>7, <1>8, <1>9, <1>10, <1>11, <1>12 DEF Next

THEOREM TextsStayHeld == Spec => []TextIsHeld
  <1>1. Init => TextIsHeld
    BY DEF Init, TextIsHeld
  <1>2. IInv /\ TextIsHeld /\ [Next]_vars => TextIsHeld'
    BY TextStep
  <1> QED BY <1>1, <1>2, IndexesSound, PTL DEF Spec

\* Once opened, the full-text index has of every document that has the fields of
\* its body the tokens of its last full-text field and their frequencies, and no
\* other terms.
THEOREM TextStaysExact == Spec => []TextExact
  <1>1. IInv /\ TextIsHeld => TextExact
    <2> SUFFICES ASSUME IInv, TextIsHeld, at = "idle", NEW id \in StoredIds, Settled(id), NEW w \in Terms
                 PROVE  FrequencyIn(text, w, id) = Frequency(TokensOf(id), w)
      BY DEF TextExact
    <2>1. id \in Ids /\ stored[id] # None
      BY DEF StoredIds
    <2>2. CASE TextFields(stored[id]) # {}
      BY <2>1, <2>2 DEF TextIsHeld, TextsHeld, Pending
    <2>3. CASE TextFields(stored[id]) = {}
      <3>1. given[id] = VectorFields(stored[id])
        BY <2>1, <2>3 DEF Settled, FieldsOf
      <3>2. given[id] \cap {"title", "text"} = {}
        BY <3>1, SearchAssumption DEF VectorFields
      <3>3. ~InvertedHas(text, id)
        BY <2>1, <3>2 DEF IInv, HeldWasGiven
      <3>4. FrequencyIn(text, w, id) = 0
        BY <2>1, <3>3, FrequencyOfMissing DEF IInv, TypeOK, MemorySound
      <3>5. Frequency(TokensOf(id), w) = 0
        <4>1. TokensOf(id) = <<>>
          BY <2>3 DEF TokensOf, TokensIn
        <4> QED BY <4>1, FrequencyNone
      <3> QED BY <3>4, <3>5
    <2> QED BY <2>2, <2>3
  <1> QED BY <1>1, IndexesSound, TextsStayHeld, PTL

-----------------------------------------------------------------------------
(* Lengths.                                                                *)

\* The folds of LengthsConsistent are totals.
LEMMA LengthsAre ==
    ASSUME NEW t
    PROVE  LengthsConsistent(t) <=>
               /\ \A id \in Ids : t.docLengths[id] = Total([w \in Terms |-> FrequencyIn(t, w, id)])
               /\ t.totalLength = Total(t.docLengths)
  BY Zenon DEF LengthsConsistent, Total

\* A length stays what it was when the frequencies do.
LEMMA SameFrequencies ==
    ASSUME NEW s, NEW t, NEW x, \A w \in Terms : FrequencyIn(s, w, x) = FrequencyIn(t, w, x)
    PROVE  Total([w \in Terms |-> FrequencyIn(s, w, x)]) = Total([w \in Terms |-> FrequencyIn(t, w, x)])
  <1>1. [w \in Terms |-> FrequencyIn(s, w, x)] = [w \in Terms |-> FrequencyIn(t, w, x)]
    BY Zenon
  <1> QED BY <1>1, Zenon

\* A document without terms has no length.
LEMMA LengthsOfNone ==
    ASSUME NEW t, NEW x, \A w \in Terms : FrequencyIn(t, w, x) = 0
    PROVE  Total([w \in Terms |-> FrequencyIn(t, w, x)]) = 0
  <1> DEFINE f == [w \in Terms |-> FrequencyIn(t, w, x)]
  <1>1. f \in [Terms -> Nat] /\ \A w \in Terms : f[w] = 0
    OBVIOUS
  <1> HIDE DEF f
  <1>2. Total(f) = 0
    BY <1>1, TotalZero, SearchAssumption
  <1> QED BY <1>2 DEF f

\* A new index has nothing to add up.
LEMMA NewLengths == LengthsConsistent(NewInverted)
  <1>1. \A x \in Ids : Total([w \in Terms |-> FrequencyIn(NewInverted, w, x)]) = 0
    <2> SUFFICES ASSUME NEW x \in Ids PROVE Total([w \in Terms |-> FrequencyIn(NewInverted, w, x)]) = 0
      OBVIOUS
    <2>1. \A w \in Terms : FrequencyIn(NewInverted, w, x) = 0
      BY InvertedNewIs, FrequencyOfMissing
    <2> QED BY <2>1, LengthsOfNone
  <1>2. Total(NewInverted.docLengths) = 0
    <2>1. /\ NewInverted.docLengths \in [Ids -> Nat]
          /\ \A x \in Ids : NewInverted.docLengths[x] = 0
      BY DEF NewInverted
    <2> QED BY <2>1, TotalZero, SearchAssumption
  <1>3. NewInverted.totalLength = 0 /\ \A x \in Ids : NewInverted.docLengths[x] = 0
    BY DEF NewInverted
  <1> QED BY <1>1, <1>2, <1>3, LengthsAre

\* A deletion takes the length of the document off the total, which has it.
LEMMA DeletedLengths ==
    ASSUME NEW t \in InvertedIndexes, InvertedConsistent(t), LengthsConsistent(t), NEW id \in Ids
    PROVE  LengthsConsistent(InvertedDelete(t, id)) /\ InvertedDelete(t, id).docLengths[id] = 0
  <1> DEFINE d == InvertedDelete(t, id)
  <1>1. /\ \A x \in Ids : t.docLengths[x] = Total([w \in Terms |-> FrequencyIn(t, w, x)])
        /\ t.totalLength = Total(t.docLengths)
    BY LengthsAre
  <1>2. CASE ~InvertedHas(t, id)
    BY <1>2 DEF InvertedDelete, InvertedHas
  <1>3. CASE InvertedHas(t, id)
    <2>1. /\ d.docLengths = [t.docLengths EXCEPT ![id] = 0]
          /\ d.totalLength = SaturatingSub(t.totalLength, t.docLengths[id])
      BY <1>3 DEF InvertedDelete
    <2>2. t.docLengths \in [Ids -> Nat] /\ t.totalLength \in Nat
      BY InvertedParts
    <2>3. /\ d.docLengths \in [Ids -> Nat] /\ d.docLengths[id] = 0
          /\ \A x \in Ids \ {id} : d.docLengths[x] = t.docLengths[x]
      BY <2>1, <2>2
    <2> HIDE DEF d
    <2>4. /\ t.docLengths[id] <= Total(t.docLengths) /\ Total(t.docLengths) \in Nat
          /\ Total(d.docLengths) = (Total(t.docLengths) - t.docLengths[id]) + d.docLengths[id]
      BY <2>2, <2>3, TotalChanged, SearchAssumption
    <2>5. d.totalLength = Total(d.docLengths)
      BY <1>1, <2>1, <2>2, <2>3, <2>4, SaturatingSubIs
    <2>6. \A w \in Terms : /\ FrequencyIn(d, w, id) = 0
                           /\ \A x \in Ids \ {id} : FrequencyIn(d, w, x) = FrequencyIn(t, w, x)
      BY DeletedFrequencies, SearchAssumption DEF d
    <2>7. d.docLengths[id] = Total([w \in Terms |-> FrequencyIn(d, w, id)])
      BY <2>3, <2>6, LengthsOfNone
    <2>8. ASSUME NEW x \in Ids \ {id} PROVE d.docLengths[x] = Total([w \in Terms |-> FrequencyIn(d, w, x)])
      <3>1. Total([w \in Terms |-> FrequencyIn(d, w, x)]) = Total([w \in Terms |-> FrequencyIn(t, w, x)])
        BY <2>6, SameFrequencies
      <3> QED BY <1>1, <2>3, <3>1
    <2>9. LengthsConsistent(d)
      BY <2>5, <2>7, <2>8, LengthsAre
    <2> QED BY <2>3, <2>9 DEF d
  <1> QED BY <1>2, <1>3

\* An insertion puts the length of the text in its place.
LEMMA InsertedLengths ==
    ASSUME NEW t \in InvertedIndexes, InvertedConsistent(t), LengthsConsistent(t), NEW id \in Ids,
           NEW tokens \in Seq(Terms)
    PROVE  LengthsConsistent(InvertedInsert(t, id, tokens))
  <1> DEFINE d == InvertedDelete(t, id)
             g == InvertedInsert(t, id, tokens)
  <1>1. d \in InvertedIndexes /\ LengthsConsistent(d) /\ d.docLengths[id] = 0
    BY DeletedLengths, InvertedDeleteIs, SearchAssumption
  <1>2. CASE tokens = <<>>
    BY <1>1, <1>2 DEF InvertedInsert
  <1>3. CASE tokens # <<>>
    <2>1. /\ g.docLengths = [d.docLengths EXCEPT ![id] = Len(tokens)]
          /\ g.totalLength = d.totalLength + Len(tokens)
      BY <1>3 DEF InvertedInsert
    <2>2. \A w \in Terms : /\ FrequencyIn(g, w, id) = Frequency(tokens, w)
                           /\ \A x \in Ids \ {id} : FrequencyIn(g, w, x) = FrequencyIn(t, w, x)
                           /\ \A x \in Ids \ {id} : FrequencyIn(d, w, x) = FrequencyIn(t, w, x)
      BY InsertedFrequencies, DeletedFrequencies, SearchAssumption
    <2> HIDE DEF d, g
    <2>3. d.docLengths \in [Ids -> Nat] /\ d.totalLength \in Nat /\ Len(tokens) \in Nat
      BY <1>1, InvertedParts
    <2>4. /\ g.docLengths \in [Ids -> Nat] /\ g.docLengths[id] = Len(tokens)
          /\ \A x \in Ids \ {id} : g.docLengths[x] = d.docLengths[x]
      BY <2>1, <2>3
    <2>5. /\ \A x \in Ids : d.docLengths[x] = Total([w \in Terms |-> FrequencyIn(d, w, x)])
          /\ d.totalLength = Total(d.docLengths)
      BY <1>1, LengthsAre
    <2>6. Total(g.docLengths) = (Total(d.docLengths) - d.docLengths[id]) + g.docLengths[id]
      <3>1. IsFiniteSet(Ids)
        BY SearchAssumption
      <3> DEFINE old == d.docLengths
                 new == g.docLengths
      <3>2. old \in [Ids -> Nat] /\ new \in [Ids -> Nat] /\ \A x \in Ids \ {id} : new[x] = old[x]
        BY <2>3, <2>4
      <3> HIDE DEF old, new
      <3>3. Total(new) = (Total(old) - old[id]) + new[id]
        BY <3>1, <3>2, TotalChanged
      <3> QED BY <3>3 DEF old, new
    <2>7. g.totalLength = Total(g.docLengths)
      BY <1>1, <2>1, <2>3, <2>4, <2>5, <2>6
    <2>8. g.docLengths[id] = Total([w \in Terms |-> FrequencyIn(g, w, id)])
      <3>1. [w \in Terms |-> FrequencyIn(g, w, id)] = [w \in Terms |-> Frequency(tokens, w)]
        BY <2>2, Zenon
      <3>2. Total([w \in Terms |-> Frequency(tokens, w)]) = Len(tokens)
        BY FrequenciesAddUp, SearchAssumption
      <3> QED BY <2>4, <3>1, <3>2, Zenon
    <2>9. ASSUME NEW x \in Ids \ {id} PROVE g.docLengths[x] = Total([w \in Terms |-> FrequencyIn(g, w, x)])
      <3>1. \A w \in Terms : FrequencyIn(g, w, x) = FrequencyIn(d, w, x)
        BY <2>2
      <3>2. Total([w \in Terms |-> FrequencyIn(g, w, x)]) = Total([w \in Terms |-> FrequencyIn(d, w, x)])
        BY <3>1, SameFrequencies
      <3> QED BY <2>4, <2>5, <3>2
    <2>10. LengthsConsistent(g)
      BY <2>7, <2>8, <2>9, LengthsAre
    <2> QED BY <2>10 DEF g
  <1> QED BY <1>2, <1>3

\* Both full-text fields of a document, one after the other.
LEMMA IndexTextsLengths ==
    ASSUME NEW t \in InvertedIndexes, InvertedConsistent(t), LengthsConsistent(t), NEW id \in Ids, NEW b \in Bodies
    PROVE  LengthsConsistent(IndexTexts(t, id, b))
  <1>1. \A v \in {b.title, b.text} : v # None => Tokenize(v) \in Seq(Terms)
    BY BodyParts
  <1>2. ASSUME NEW s \in InvertedIndexes, InvertedConsistent(s), LengthsConsistent(s), NEW v \in {b.title, b.text}
        PROVE  /\ IndexText(s, id, v) \in InvertedIndexes /\ InvertedConsistent(IndexText(s, id, v))
               /\ LengthsConsistent(IndexText(s, id, v))
    <2>1. IndexText(s, id, v) \in InvertedIndexes /\ InvertedConsistent(IndexText(s, id, v))
      BY <1>1, <1>2, IndexTextIs
    <2>2. CASE v = None
      BY <1>2, <2>1, <2>2 DEF IndexText
    <2>3. CASE v # None
      <3>1. IndexText(s, id, v) = InvertedInsert(s, id, Tokenize(v)) /\ Tokenize(v) \in Seq(Terms)
        BY <1>1, <2>3 DEF IndexText
      <3>2. LengthsConsistent(InvertedInsert(s, id, Tokenize(v)))
        BY <1>2, <3>1, InsertedLengths
      <3> QED BY <2>1, <3>1, <3>2
    <2> QED BY <2>2, <2>3
  <1> DEFINE t1 == IndexText(t, id, b.title)
  <1>3. t1 \in InvertedIndexes /\ InvertedConsistent(t1) /\ LengthsConsistent(t1)
    BY <1>2
  <1>4. IndexTexts(t, id, b) = IndexText(t1, id, b.text)
    BY DEF IndexTexts
  <1> HIDE DEF t1
  <1>5. LengthsConsistent(IndexText(t1, id, b.text))
    BY <1>2, <1>3
  <1> QED BY <1>4, <1>5

\* In memory and in the file; inductive with IInv.
LengthsSound == LengthsConsistent(text) /\ (indexFile # NoIndex => LengthsConsistent(indexFile.text))

\* Every step that changes the full-text index or the file.
LEMMA LengthsStep == IInv /\ LengthsSound /\ [Next]_vars => LengthsSound'
  <1> SUFFICES ASSUME IInv, LengthsSound, [Next]_vars PROVE LengthsSound'
    OBVIOUS
  <1>1. text \in InvertedIndexes /\ InvertedConsistent(text) /\ LengthsConsistent(text)
    BY DEF IInv, TypeOK, MemorySound, LengthsSound
  <1>2. ASSUME NEW id \in Ids, NEW b \in Bodies, text' = IndexTexts(text, id, b), indexFile' = indexFile
        PROVE  LengthsSound'
    <2>1. LengthsConsistent(IndexTexts(text, id, b))
      BY <1>1, IndexTextsLengths
    <2> QED BY <1>2, <2>1 DEF LengthsSound
  <1>3. ASSUME NEW id \in Ids, text' = InvertedDelete(text, id), indexFile' = indexFile
        PROVE  LengthsSound'
    <2>1. LengthsConsistent(InvertedDelete(text, id))
      BY <1>1, DeletedLengths
    <2> QED BY <1>3, <2>1 DEF LengthsSound
  <1>4. ASSUME text' = text, indexFile' = indexFile PROVE LengthsSound'
    BY <1>4 DEF LengthsSound
  <1>5. ASSUME NEW id \in Ids, NEW b \in Bodies, Insert(id, b) PROVE LengthsSound'
    BY <1>2, <1>5 DEF Insert, IndexDocument
  <1>6. ASSUME NEW id \in Ids, ReplayOne(id) \/ RebuildTextOne(id) PROVE LengthsSound'
    <2>1. text' = IndexTexts(text, id, stored[id]) /\ indexFile' = indexFile /\ stored[id] \in Bodies
      BY <1>6, StoredBody DEF ReplayOne, RebuildTextOne, IndexDocument, IInv, TypeOK, StoredIds
    <2> QED BY <1>2, <2>1
  <1>7. ASSUME NEW id \in Ids, Delete(id) \/ DeleteOne(id) PROVE LengthsSound'
    BY <1>3, <1>7 DEF Delete, DeleteOne, Unindex
  <1>8. ASSUME NEW id \in Ids, NEW b \in Bodies, InsertRefused(id, b) PROVE LengthsSound'
    BY <1>4, <1>8 DEF InsertRefused, IndexPartly
  <1>9. CASE SaveIndex
    <2>1. text' = text /\ indexFile'.text = text
      BY <1>9 DEF SaveIndex, memory
    <2> QED BY <2>1, <1>1 DEF LengthsSound
  <1>10. CASE Stop
    BY <1>10, NewLengths DEF Stop, LengthsSound
  <1>11. CASE OpenLoading
    BY <1>11 DEF OpenLoading, LengthsSound
  <1>12. CASE OpenRebuilding \/ RebuildText \/ Opened \/ UNCHANGED vars
    BY <1>4, <1>12 DEF OpenRebuilding, RebuildText, Opened, memory, vars
  <1> QED BY <1>5, <1>6, <1>7, <1>8, <1>9, <1>10, <1>11, <1>12 DEF Next

\* In memory and in the file, at every step of an opening and after refused
\* inserts: the positions and the count of each flat index agree with its
\* entries; the lengths and the number of documents with the postings; and the
\* lengths add up, of which the average in a score is made.
THEOREM IndexesStayConsistent == Spec => []IndexesConsistent
  <1>1. Init => LengthsSound
    BY NewLengths DEF Init, LengthsSound
  <1>2. IInv /\ LengthsSound /\ [Next]_vars => LengthsSound'
    BY LengthsStep
  <1>3. FlatIndexesConsistent /\ PostingsConsistent /\ LengthsSound => IndexesConsistent
    BY DEF IndexesConsistent, LengthsSound
  <1> QED BY <1>1, <1>2, <1>3, IndexesSound, FlatIndexesStayConsistent, PostingsStayConsistent, PTL DEF Spec

-----------------------------------------------------------------------------
(* Filtering an answer.                                                    *)

\* What filtering makes of what is kept so far.
FilterNext(answer, S, kept, n) == IF answer[n] \in S THEN Append(kept, answer[n]) ELSE kept

\* A step of filtering goes from one of these sets into the next.
LEMMA FilteredWithin ==
    ASSUME NEW answer, NEW S, Len(answer) \in Nat, NEW W, NEW none, none = <<>>, none \in W[0],
           \A n \in 1 .. Len(answer) : \A x \in W[n - 1] : FilterNext(answer, S, x, n) \in W[n]
    PROVE  Filtered(answer, S) \in W[Len(answer)]
  <1> DEFINE b == Len(answer)
             After(x, n) == FilterNext(answer, S, x, n)
             step == [n \in 0 .. b |-> [x \in W[n - 1] |-> After(x, n)]]
             Is(f) == f = [n \in 0 .. b |-> IF n = 0 THEN none ELSE After(f[n - 1], n)]
             kept == CHOOSE f : Is(f)
  <1>1. b \in Nat /\ 0 \in Nat /\ none \in W[0] /\ \A n \in 0 .. b : n # 0 => \A x \in W[n - 1] : After(x, n) \in W[n]
    <2>1. \A n \in 0 .. b : n # 0 => n \in 1 .. b
      OBVIOUS
    <2> QED BY <2>1
  <1>2. Filtered(answer, S) = kept[b]
    BY Zenon DEF Filtered, FilterNext
  <1>3. \E f : Is(f)
    <2> HIDE DEF b, After
    <2>1. \A n \in 0 .. b : n # 0 => \A x \in W[n - 1] : step[n][x] = After(x, n)
      OBVIOUS
    <2>2. PICK f : Iterates(f, 0, b, none, step) /\ \A n \in 0 .. b : f[n] \in W[n]
      <3>1. \A n \in 0 .. b : n # 0 => \A x \in W[n - 1] : step[n][x] \in W[n]
        BY <1>1, <2>1
      <3> HIDE DEF step, Is
      <3> QED BY <1>1, <3>1, IteratedWithin
    <2>3. \A n \in 0 .. b : n # 0 => n - 1 \in 0 .. b
      BY <1>1
    <2>4. \A n \in 0 .. b : (IF n = 0 THEN none ELSE step[n][f[n - 1]]) = IF n = 0 THEN none ELSE After(f[n - 1], n)
      <3> HIDE DEF step, Is
      <3>1. \A n \in 0 .. b : n # 0 => f[n - 1] \in W[n - 1]
        BY <2>2, <2>3
      <3>2. \A n \in 0 .. b : n # 0 => step[n][f[n - 1]] = After(f[n - 1], n)
        BY <2>1, <3>1
      <3> QED BY <3>2, Zenon
    <2> HIDE DEF step
    <2>5. f = [n \in 0 .. b |-> IF n = 0 THEN none ELSE step[n][f[n - 1]]]
      BY <2>2, Zenon DEF Iterates
    <2>6. f = [n \in 0 .. b |-> IF n = 0 THEN none ELSE After(f[n - 1], n)]
      BY <2>4, <2>5, Zenon
    <2> QED BY <2>6
  <1>4. Is(kept)
    <2> HIDE DEF Is
    <2> QED BY <1>3
  <1> HIDE DEF kept, b, After
  <1>5. kept[0] = none /\ \A n \in 0 .. b : n # 0 => kept[n] = After(kept[n - 1], n)
    <2>1. \A n \in 0 .. b : kept[n] = IF n = 0 THEN none ELSE After(kept[n - 1], n)
      BY <1>4
    <2> QED BY <1>1, <2>1
  <1> HIDE DEF Is
  <1>6. \A n \in 0 .. b : kept[n] \in W[n]
    BY <1>1, <1>5, StaysWithin
  <1>7. b \in 0 .. b
    BY <1>1
  <1> QED BY <1>2, <1>6, <1>7 DEF b

\* a comes before b in a sequence.
Precedes(s, a, b) == \E i, j \in DOMAIN s : i < j /\ s[i] = a /\ s[j] = b

\* Of an answer is left what is let through, all of it, and in the same order.
LEMMA FilteredIs ==
    ASSUME NEW V, NEW answer \in Seq(V), NEW S
    PROVE  /\ Filtered(answer, S) \in Seq(V) /\ Len(Filtered(answer, S)) <= Len(answer)
           /\ (\A i \in DOMAIN answer : answer[i] \in S) => Filtered(answer, S) = answer
           /\ SetOf(Filtered(answer, S)) = SetOf(answer) \cap S
           /\ \A a, b \in S : Precedes(answer, a, b) => Precedes(Filtered(answer, S), a, b)
  <1> DEFINE all(n) == \A i \in 1 .. n : answer[i] \in S
             Part(x, n) ==
               /\ Len(x) <= n
               /\ all(n) => Len(x) = n /\ \A i \in 1 .. n : x[i] = answer[i]
               /\ \A i \in 1 .. Len(x) : x[i] \in S /\ \E j \in 1 .. n : answer[j] = x[i]
               /\ \A j \in 1 .. n : answer[j] \in S => \E i \in 1 .. Len(x) : x[i] = answer[j]
               /\ \A j, l \in 1 .. n : j < l /\ answer[j] \in S /\ answer[l] \in S =>
                      \E i, k \in 1 .. Len(x) : i < k /\ x[i] = answer[j] /\ x[k] = answer[l]
             W == [n \in 0 .. Len(answer) |-> {x \in Seq(V) : Part(x, n)}]
             f == Filtered(answer, S)
  <1>1. Len(answer) \in Nat /\ DOMAIN answer = 1 .. Len(answer) /\ \A i \in DOMAIN answer : answer[i] \in V
    OBVIOUS
  <1>2. <<>> \in W[0]
    <2>1. <<>> \in Seq(V) /\ Part(<<>>, 0) /\ 0 \in 0 .. Len(answer)
      OBVIOUS
    <2> HIDE DEF Part
    <2> QED BY <2>1
  <1>3. ASSUME NEW n \in 1 .. Len(answer), NEW x \in W[n - 1]
        PROVE  FilterNext(answer, S, x, n) \in W[n]
    <2>1. n - 1 \in 0 .. Len(answer) /\ n \in 0 .. Len(answer) /\ n \in Nat /\ n - 1 \in Nat
      BY <1>1
    <2>2. x \in Seq(V) /\ Part(x, n - 1)
      <3> HIDE DEF Part
      <3> QED BY <2>1
    <2>3. \A i \in 1 .. n : i \in 1 .. n - 1 \/ i = n
      BY <2>1
    <2>4. \A i \in 1 .. n - 1 : i \in 1 .. n /\ i < n
      BY <2>1
    <2>5. n \in 1 .. n
      BY <2>1
    <2>6. all(n) => all(n - 1) /\ answer[n] \in S
      BY <2>4, <2>5
    <2> HIDE DEF all
    <2>7. CASE answer[n] \in S
      <3> DEFINE y == Append(x, answer[n])
                 L == Len(x)
      <3>1. y \in Seq(V) /\ L \in Nat /\ Len(y) = L + 1 /\ y[L + 1] = answer[n]
            /\ \A i \in 1 .. L : i \in 1 .. L + 1 /\ y[i] = x[i] /\ i < L + 1
        BY <1>1, <2>2
      <3>2. \A i \in 1 .. L + 1 : i \in 1 .. L \/ i = L + 1
        BY <3>1
      <3>3. /\ L <= n - 1
            /\ all(n - 1) => L = n - 1 /\ \A i \in 1 .. n - 1 : x[i] = answer[i]
            /\ \A i \in 1 .. L : x[i] \in S /\ \E j \in 1 .. n - 1 : answer[j] = x[i]
            /\ \A j \in 1 .. n - 1 : answer[j] \in S => \E i \in 1 .. L : x[i] = answer[j]
            /\ \A j, l \in 1 .. n - 1 : j < l /\ answer[j] \in S /\ answer[l] \in S =>
                      \E i, k \in 1 .. L : i < k /\ x[i] = answer[j] /\ x[k] = answer[l]
        BY <2>2
      <3> HIDE DEF y, L
      <3>4. Len(y) <= n
        BY <2>1, <3>1, <3>3
      <3>5. all(n) => Len(y) = n /\ \A i \in 1 .. n : y[i] = answer[i]
        <4> SUFFICES ASSUME all(n) PROVE Len(y) = n /\ \A i \in 1 .. n : y[i] = answer[i]
          OBVIOUS
        <4>1. L = n - 1 /\ \A i \in 1 .. n - 1 : x[i] = answer[i]
          BY <2>6, <3>3
        <4>2. \A i \in 1 .. n - 1 : y[i] = answer[i]
          BY <3>1, <4>1
        <4>3. Len(y) = n /\ y[n] = answer[n]
          BY <2>1, <3>1, <4>1
        <4> QED BY <2>3, <4>2, <4>3
      <3>6. \A i \in 1 .. Len(y) : y[i] \in S /\ \E j \in 1 .. n : answer[j] = y[i]
        <4> SUFFICES ASSUME NEW i \in 1 .. L + 1 PROVE y[i] \in S /\ \E j \in 1 .. n : answer[j] = y[i]
          BY <3>1
        <4>1. CASE i = L + 1
          BY <4>1, <2>5, <2>7, <3>1
        <4>2. CASE i # L + 1
          <5>1. i \in 1 .. L /\ y[i] = x[i]
            BY <4>2, <3>1, <3>2
          <5> QED BY <5>1, <2>4, <3>3
        <4> QED BY <4>1, <4>2
      <3>7. L + 1 \in 1 .. L + 1
        BY <3>1
      <3>8. \A j \in 1 .. n : answer[j] \in S => \E i \in 1 .. L + 1 : y[i] = answer[j]
        BY <2>3, <3>1, <3>3, <3>7
      <3>9. \A j, l \in 1 .. n : j < l /\ answer[j] \in S /\ answer[l] \in S =>
                  \E i, k \in 1 .. L + 1 : i < k /\ y[i] = answer[j] /\ y[k] = answer[l]
        <4> SUFFICES ASSUME NEW j \in 1 .. n, NEW l \in 1 .. n, j < l, answer[j] \in S, answer[l] \in S
                     PROVE  \E i, k \in 1 .. L + 1 : i < k /\ y[i] = answer[j] /\ y[k] = answer[l]
          OBVIOUS
        <4>1. j \in 1 .. n - 1
          BY <2>1
        <4>2. CASE l = n
          <5>1. PICK i \in 1 .. L : x[i] = answer[j]
            BY <3>3, <4>1
          <5>2. y[i] = answer[j] /\ i < L + 1 /\ i \in 1 .. L + 1 /\ y[L + 1] = answer[l]
            BY <5>1, <4>2, <3>1
          <5> QED BY <5>2, <3>7
        <4>3. CASE l # n
          <5>1. l \in 1 .. n - 1
            BY <4>3, <2>3
          <5>2. PICK i \in 1 .. L, k \in 1 .. L : i < k /\ x[i] = answer[j] /\ x[k] = answer[l]
            BY <3>3, <4>1, <5>1
          <5>3. y[i] = answer[j] /\ i < k /\ i \in 1 .. L + 1 /\ k \in 1 .. L + 1 /\ y[k] = answer[l]
            BY <5>2, <3>1
          <5> QED BY <5>3
        <4> QED BY <4>2, <4>3
      <3>10. Part(y, n)
        BY <3>1, <3>4, <3>5, <3>6, <3>8, <3>9
      <3>11. y \in W[n]
        <4> HIDE DEF Part
        <4> QED BY <2>1, <3>1, <3>10
      <3> QED BY <3>11, <2>7, Zenon DEF y, FilterNext
    <2>8. CASE answer[n] \notin S
      <3>1. ~ all(n)
        BY <2>6, <2>8
      <3>2. Part(x, n)
        <4>1. /\ Len(x) <= n - 1 /\ Len(x) \in Nat
              /\ \A i \in 1 .. Len(x) : x[i] \in S /\ \E j \in 1 .. n - 1 : answer[j] = x[i]
              /\ \A j \in 1 .. n - 1 : answer[j] \in S => \E i \in 1 .. Len(x) : x[i] = answer[j]
              /\ \A j, l \in 1 .. n - 1 : j < l /\ answer[j] \in S /\ answer[l] \in S =>
                        \E i, k \in 1 .. Len(x) : i < k /\ x[i] = answer[j] /\ x[k] = answer[l]
          BY <2>2
        <4>2. \A j \in 1 .. n : answer[j] \in S => j \in 1 .. n - 1
          BY <2>3, <2>8
        <4>3. Len(x) <= n
          BY <2>1, <4>1
        <4>4. \A i \in 1 .. Len(x) : x[i] \in S /\ \E j \in 1 .. n : answer[j] = x[i]
          BY <2>4, <4>1
        <4>5. \A j \in 1 .. n : answer[j] \in S => \E i \in 1 .. Len(x) : x[i] = answer[j]
          BY <4>1, <4>2
        <4>6. \A j, l \in 1 .. n : j < l /\ answer[j] \in S /\ answer[l] \in S =>
                  \E i, k \in 1 .. Len(x) : i < k /\ x[i] = answer[j] /\ x[k] = answer[l]
          BY <4>1, <4>2
        <4> QED BY <3>1, <4>3, <4>4, <4>5, <4>6
      <3>3. x \in W[n]
        <4> HIDE DEF Part
        <4> QED BY <2>1, <2>2, <3>2
      <3> QED BY <3>3, <2>8, Zenon DEF FilterNext
    <2> QED BY <2>7, <2>8
  <1>4. f \in W[Len(answer)]
    <2> HIDE DEF W, f
    <2> QED BY <1>1, <1>2, <1>3, FilteredWithin DEF f
  <1>5. f \in Seq(V) /\ Part(f, Len(answer))
    <2>1. Len(answer) \in 0 .. Len(answer)
      BY <1>1
    <2> HIDE DEF Part, f
    <2> QED BY <1>4, <2>1
  <1> HIDE DEF f
  <1>6. DOMAIN f = 1 .. Len(f) /\ Len(f) \in Nat
    BY <1>5
  <1>7. (\A i \in DOMAIN answer : answer[i] \in S) => f = answer
    <2> SUFFICES ASSUME \A i \in DOMAIN answer : answer[i] \in S PROVE f = answer
      OBVIOUS
    <2>1. Len(f) = Len(answer) /\ \A i \in 1 .. Len(answer) : f[i] = answer[i]
      BY <1>1, <1>5
    <2> QED BY <1>1, <1>5, <2>1
  <1>8. SetOf(f) = SetOf(answer) \cap S
    <2>1. SetOf(f) = {f[i] : i \in 1 .. Len(f)} /\ SetOf(answer) = {answer[j] : j \in 1 .. Len(answer)}
      BY <1>1, <1>6 DEF SetOf
    <2>2. \A i \in 1 .. Len(f) : f[i] \in S /\ \E j \in 1 .. Len(answer) : answer[j] = f[i]
      BY <1>5
    <2>3. \A j \in 1 .. Len(answer) : answer[j] \in S => \E i \in 1 .. Len(f) : f[i] = answer[j]
      BY <1>5
    <2> QED BY <2>1, <2>2, <2>3
  <1>9. \A a, b \in S : Precedes(answer, a, b) => Precedes(f, a, b)
    <2> SUFFICES ASSUME NEW a \in S, NEW b \in S, Precedes(answer, a, b) PROVE Precedes(f, a, b)
      OBVIOUS
    <2>1. PICK j \in 1 .. Len(answer), l \in 1 .. Len(answer) : j < l /\ answer[j] = a /\ answer[l] = b
      BY <1>1 DEF Precedes
    <2>2. \A m, n \in 1 .. Len(answer) : m < n /\ answer[m] \in S /\ answer[n] \in S =>
                \E i, k \in 1 .. Len(f) : i < k /\ f[i] = answer[m] /\ f[k] = answer[n]
      BY <1>5
    <2>3. PICK i \in 1 .. Len(f), k \in 1 .. Len(f) : i < k /\ f[i] = answer[j] /\ f[k] = answer[l]
      BY <2>1, <2>2
    <2> QED BY <2>1, <2>3, <1>6 DEF Precedes
  <1> QED BY <1>5, <1>7, <1>8, <1>9 DEF f

-----------------------------------------------------------------------------
(* Searches.                                                               *)

\* Once every document has exactly the fields of its body, an index ranks the
\* stored documents that have its field and match the filter.
LEMMA AnsweringIs ==
    ASSUME IInv, Answering, NEW r \in Requests
    PROVE  /\ r.field \in Fields /\ r.limit \in Nat /\ KSearch(r) \in Nat /\ r.limit <= KSearch(r)
           /\ indexes[r.field] \in FlatIndexes /\ FlatConsistent(indexes[r.field])
           /\ FoundIn(indexes[r.field], Passing(r)) = PlainIds(r)
           /\ PlainIds(r) \subseteq Ids /\ IsFiniteSet(PlainIds(r))
           /\ r.filter = None /\ PlainIds(r) = {} => \A id \in Ids : ~FlatHas(indexes[r.field], id)
           /\ \A id \in PlainIds(r) :
                /\ FlatVector(indexes[r.field], id) = Prepared(indexes[r.field].metric, stored[id].vectors[r.field])
                /\ stored[id].vectors[r.field] \in Vectors
  <1> DEFINE f == indexes[r.field]
             has(id) == stored[id] # None /\ stored[id].vectors[r.field] # None
  <1>1. r.field \in Fields /\ r.limit \in Nat
    BY RequestsAssumption
  <1>2. f \in FlatIndexes /\ FlatConsistent(f)
    BY <1>1 DEF IInv, TypeOK, MemorySound
  <1>3. KSearch(r) \in Nat /\ r.limit <= KSearch(r)
    BY <1>1 DEF KSearch
  <1>4. ASSUME NEW id \in Ids, has(id)
        PROVE  /\ FlatHas(f, id)
               /\ FlatVector(f, id) = Prepared(f.metric, stored[id].vectors[r.field])
               /\ stored[id].vectors[r.field] \in Vectors
    <2>1. stored[id] \in Bodies /\ Fits(stored[id])
      BY <1>4, StoredBody DEF IInv
    <2>2. r.field \in VectorFields(stored[id]) /\ stored[id].vectors[r.field] \in Vectors
      BY <1>1, <1>4, <2>1, BodyParts DEF VectorFields, Fits
    <2>3. VectorsHeld(id)
      BY DEF IInv, StoredIsHeld, Pending, Answering, Settled
    <2>4. FlatVector(f, id) = Prepared(f.metric, stored[id].vectors[r.field])
      BY <2>2, <2>3, <1>4 DEF VectorsHeld
    <2>5. FlatVector(f, id) # None
      BY <2>2, <2>4, PreparedKept, SearchAssumption
    <2>6. FlatHas(f, id)
      BY <2>5, <1>2, FlatVectorKept
    <2> QED BY <2>2, <2>4, <2>6
  <1>5. ASSUME NEW id \in Ids, FlatHas(f, id)
        PROVE  has(id)
    <2>1. r.field \in FieldsOf(id)
      BY <1>1, <1>5 DEF IInv, HeldWasGiven, Answering, Settled
    <2>2. r.field \notin {"title", "text"}
      BY <1>1, SearchAssumption
    <2>3. stored[id] # None /\ r.field \in VectorFields(stored[id])
      BY <2>1, <2>2 DEF FieldsOf, TextFields
    <2> QED BY <2>3 DEF VectorFields
  <1> HIDE DEF f
  <1>6. FoundIn(f, Passing(r)) = PlainIds(r)
    <2>1. \A id \in Ids : FlatHas(f, id) <=> has(id)
      BY <1>4, <1>5
    <2> QED BY <2>1 DEF FoundIn, PlainIds, StoredIds
  <1>7. PlainIds(r) \subseteq Ids /\ IsFiniteSet(PlainIds(r))
    <2>1. PlainIds(r) \subseteq Ids
      BY DEF PlainIds, StoredIds
    <2> QED BY <2>1, SearchAssumption, FS_Subset
  <1>8. r.filter = None /\ PlainIds(r) = {} => \A id \in Ids : ~FlatHas(f, id)
    <2>1. r.filter = None => Passing(r) = Ids
      BY DEF Passing
    <2> QED BY <2>1, <1>6 DEF FoundIn
  <1>9. \A id \in PlainIds(r) : has(id) /\ id \in Ids
    BY DEF PlainIds, StoredIds
  <1>10. \A id \in PlainIds(r) : /\ FlatVector(f, id) = Prepared(f.metric, stored[id].vectors[r.field])
                                 /\ stored[id].vectors[r.field] \in Vectors
    BY <1>4, <1>9
  <1> QED BY <1>1, <1>2, <1>3, <1>6, <1>7, <1>8, <1>10 DEF f

\* A vector is prepared to an integer, and distances are integers.
LEMMA KeysAreInts ==
    ASSUME NEW f \in FlatIndexes, FlatConsistent(f), NEW query \in Int, NEW passing
    PROVE  \A id \in FoundIn(f, passing) : KeyIn(f, query, FoundIn(f, passing))[id] \in Int
  <1>1. f.metric \in Metrics
    BY FlatParts
  <1>2. Kept \subseteq Int
    BY VectorsAssumption, OneAssumption DEF Kept
  <1> SUFFICES ASSUME NEW id \in FoundIn(f, passing)
               PROVE  KeyIn(f, query, FoundIn(f, passing))[id] \in Int
    OBVIOUS
  <1>3. FlatVector(f, id) \in Int
    <2>1. id \in Ids /\ FlatHas(f, id)
      BY DEF FoundIn
    <2>2. FlatVector(f, id) = f.entries[f.idToPos[id]].vector /\ f.idToPos[id] \in DOMAIN f.entries
      BY <2>1 DEF FlatVector, FlatHas, FlatConsistent
    <2> QED BY <1>2, <2>2, FlatParts, EntryParts
  <1>4. KeyIn(f, query, FoundIn(f, passing))[id] = Distance(f.metric, Prepared(f.metric, query), FlatVector(f, id))
    BY Zenon DEF KeyIn
  <1>5. Prepared(f.metric, query) \in Int
    BY <1>1, Values
  <1> QED BY <1>1, <1>3, <1>4, <1>5, Values

\* An answer of which nothing is filtered out is cut off at the limit.
LEMMA AllPass ==
    ASSUME NEW r \in Requests, NEW s \in Seq(Ids), \A i \in DOMAIN s : s[i] \in Passing(r)
    PROVE  LET kept == Filtered(s, Passing(r))
           IN  (IF s = Panic THEN Panic ELSE SubSeq(kept, 1, Least(r.limit, Len(kept)))) = SubSeq(s, 1, Least(r.limit, Len(s)))
  <1>1. s # Panic
    BY SearchAssumption
  <1>2. Filtered(s, Passing(r)) = s
    BY FilteredIs
  <1> QED BY <1>1, <1>2

\* Once every document has exactly the fields of its body, and whatever was
\* updated, refused, deleted, saved and loaded before: a vector search answers
\* with the nearest of the stored documents that have the field and match the
\* filter, and panics at most when there is none.
THEOREM SearchStaysExact == Spec => []SearchExact
  <1>1. IInv => SearchExact
    <2> SUFFICES ASSUME IInv, Answering, NEW r \in Requests, r.hybrid = None, indexes[r.field].metric = FieldMetric[r.field]
                 PROVE  LET metric == FieldMetric[r.field]
                            key == [id \in PlainIds(r) |-> Distance(metric, Prepared(metric, r.vector),
                                                               Prepared(metric, stored[id].vectors[r.field]))]
                        IN  IF PlainIds(r) = {} /\ r.filter # None
                            THEN Search(r) \subseteq {<<>>, Panic}
                            ELSE Search(r) = Ranked(PlainIds(r), key, r.limit)
      BY Zenon DEF SearchExact
    <2> DEFINE f == indexes[r.field]
               metric == FieldMetric[r.field]
               key == [id \in PlainIds(r) |-> Distance(metric, Prepared(metric, r.vector),
                                                  Prepared(metric, stored[id].vectors[r.field]))]
               S == PlainIds(r)
               answers == FlatSearch(f, r.vector, KSearch(r), Passing(r))
               cut(s) == SubSeq(s, 1, Least(r.limit, Len(s)))
               final(s) == IF s = Panic THEN Panic
                           ELSE LET kept == Filtered(s, Passing(r)) IN SubSeq(kept, 1, Least(r.limit, Len(kept)))
    <2>1. /\ f \in FlatIndexes /\ FlatConsistent(f) /\ FoundIn(f, Passing(r)) = S
          /\ KSearch(r) \in Nat /\ r.limit \in Nat /\ r.limit <= KSearch(r)
          /\ S \subseteq Ids /\ IsFiniteSet(S) /\ f.metric = metric
          /\ r.filter = None /\ S = {} => \A id \in Ids : ~FlatHas(f, id)
      BY AnsweringIs
    <2>2. KeyIn(f, r.vector, S) = key
      <3>1. \A id \in S : FlatVector(f, id) = Prepared(metric, stored[id].vectors[r.field])
        BY AnsweringIs
      <3>2. \A id \in S : Distance(f.metric, Prepared(f.metric, r.vector), FlatVector(f, id)) =
                          Distance(metric, Prepared(metric, r.vector), Prepared(metric, stored[id].vectors[r.field]))
        BY <2>1, <3>1
      <3> QED BY <3>2, Zenon DEF KeyIn
    <2>3. \A id \in S : key[id] \in Int
      <3>1. r.vector \in Int
        BY RequestsAssumption
      <3> HIDE DEF key, S, f
      <3> QED BY <2>1, <2>2, <3>1, KeysAreInts
    <2>4. Search(r) = {final(s) : s \in answers}
      BY Zenon DEF Search, Retrieved, VectorResults
    <2>5. /\ (\A id \in Ids : ~FlatHas(f, id)) => answers = {<<>>}
          /\ S = {} => answers = {<<>>} \/ answers = {Panic}
          /\ S # {} => answers = Ranked(S, key, KSearch(r))
      <3> HIDE DEF f, S, key
      <3> QED BY <2>1, <2>2, FlatSearchIs
    <2> HIDE DEF f, S, key, answers
    <2>6. final(<<>>) = <<>>
      <3>1. <<>> \in Seq(Ids) /\ \A i \in DOMAIN <<>> : <<>>[i] \in Passing(r)
        OBVIOUS
      <3>2. final(<<>>) = cut(<<>>)
        BY <3>1, AllPass
      <3>3. cut(<<>>) = <<>>
        BY <2>1 DEF Least
      <3> HIDE DEF final, cut
      <3> QED BY <3>2, <3>3
    <2>7. final(Panic) = Panic
      OBVIOUS
    <2>8. CASE S = {} /\ r.filter # None
      <3> HIDE DEF final
      <3>1. Search(r) \subseteq {<<>>, Panic}
        BY <2>4, <2>5, <2>6, <2>7, <2>8
      <3> QED BY <3>1, <2>8 DEF S
    <2>9. CASE S = {} /\ r.filter = None
      <3>1. Search(r) = {<<>>}
        <4> HIDE DEF final
        <4> QED BY <2>1, <2>4, <2>5, <2>6, <2>9
      <3>2. Ranked(S, key, r.limit) = {<<>>}
        <4>1. Cardinality({}) = 0
          BY FS_EmptySet
        <4>2. Least(r.limit, 0) = 0
          BY <2>1 DEF Least
        <4>3. <<>> \in Ranked({}, key, r.limit)
          <5> DEFINE e == <<>>
                     n == Least(r.limit, Cardinality({}))
          <5>1. n = 0 /\ e \in [1 .. n -> {}] /\ 1 .. n = {}
            BY <4>1, <4>2
          <5> HIDE DEF e, n
          <5>2. /\ \A i, j \in 1 .. n : i < j => key[e[i]] <= key[e[j]]
                /\ \A i, j \in 1 .. n : e[i] = e[j] => i = j
                /\ \A x \in {} : (\E i \in 1 .. n : e[i] = x) \/ \A i \in 1 .. n : key[e[i]] <= key[x]
                /\ n \in Nat
            BY <5>1
          <5>3. e \in Ranked({}, key, r.limit)
            BY <5>1, <5>2, <2>1, IsRanked DEF n
          <5> QED BY <5>3 DEF e
        <4>4. \A q \in Ranked({}, key, r.limit) : q = <<>>
          <5> SUFFICES ASSUME NEW q \in Ranked({}, key, r.limit) PROVE q = <<>>
            OBVIOUS
          <5>1. IsFiniteSet({})
            BY FS_EmptySet
          <5>2. q \in Seq({}) /\ Len(q) = 0
            BY <4>1, <4>2, <5>1, <2>1, RankedIs
          <5> QED BY <5>2
        <4> QED BY <4>3, <4>4, <2>9
      <3> QED BY <3>1, <3>2, <2>9 DEF S, key
    <2>10. CASE S # {}
      <3>1. \A s \in Ranked(S, key, KSearch(r)) : final(s) = cut(s)
        <4> SUFFICES ASSUME NEW s \in Ranked(S, key, KSearch(r)) PROVE final(s) = cut(s)
          OBVIOUS
        <4>1. s \in Seq(S)
          BY <2>1, RankedIs
        <4>2. S \subseteq Passing(r)
          BY DEF S, PlainIds
        <4>3. s \in Seq(Ids) /\ \A i \in DOMAIN s : s[i] \in Passing(r)
          BY <4>1, <4>2, <2>1
        <4> QED BY <4>3, AllPass
      <3>2. {cut(s) : s \in Ranked(S, key, KSearch(r))} = Ranked(S, key, r.limit)
        BY <2>1, <2>3, RankedPrefixes
      <3> HIDE DEF final, cut
      <3>3. Search(r) = Ranked(S, key, r.limit)
        BY <2>4, <2>5, <2>10, <3>1, <3>2
      <3> QED BY <3>3, <2>10 DEF S, key
    <2> QED BY <2>8, <2>9, <2>10
  <1> QED BY <1>1, IndexesSound, PTL

-----------------------------------------------------------------------------
(* Fusion.                                                                 *)

Injective(s) == \A i, j \in DOMAIN s : s[i] = s[j] => i = j
Share(n) == Precision \div (60 + n)

\* The share of a better rank is larger.
LEMMA SharesFall ==
    /\ \A n \in Nat : Share(n) \in Int
    /\ \A m, n \in 1 .. Cardinality(Ids) : m < n => Share(n) < Share(m)
  <1>1. \A n \in Nat : Share(n) \in Int
    BY PrecisionAssumption DEF Share
  <1>2. Cardinality(Ids) \in Nat
    BY SearchAssumption, FS_CardinalityType
  <1>3. \A n \in 1 .. Cardinality(Ids) - 1 : Share(n + 1) < Share(n)
    <2>1. \A n \in 1 .. Cardinality(Ids) - 1 : Precision \div (61 + n) < Precision \div (60 + n)
      BY RequestsAssumption
    <2>2. \A n \in 1 .. Cardinality(Ids) - 1 : 60 + (n + 1) = 61 + n
      BY <1>2
    <2> QED BY <2>1, <2>2 DEF Share
  <1>4. ASSUME NEW m \in 1 .. Cardinality(Ids), NEW n \in 1 .. Cardinality(Ids), m < n
        PROVE  Share(n) < Share(m)
    <2> DEFINE b == Cardinality(Ids)
               S == {l \in m + 1 .. b : Share(l) < Share(m)}
    <2>1. m \in 1 .. b /\ m + 1 \in Nat /\ b \in Nat /\ n \in m + 1 .. b /\ m \in 1 .. b - 1
      BY <1>2, <1>4
    <2>2. m + 1 \in S
      BY <2>1, <1>3
    <2>3. \A l \in m + 1 .. b : l \in S /\ l < b => l + 1 \in S
      <3> SUFFICES ASSUME NEW l \in m + 1 .. b, l \in S, l < b PROVE l + 1 \in S
        OBVIOUS
      <3>1. l \in 1 .. b - 1 /\ l + 1 \in m + 1 .. b /\ l \in Nat /\ l + 1 \in Nat /\ m \in Nat
        BY <2>1
      <3>2. Share(l + 1) < Share(l) /\ Share(l) < Share(m)
        BY <3>1, <1>3
      <3>3. Share(l + 1) \in Int /\ Share(l) \in Int /\ Share(m) \in Int
        BY <3>1, <1>1
      <3> QED BY <3>1, <3>2, <3>3
    <2> HIDE DEF S, b
    <2>4. \A l \in m + 1 .. b : l \in S
      BY <2>1, <2>2, <2>3, Steps
    <2> QED BY <2>1, <2>4 DEF S
  <1> QED BY <1>1, <1>4

\* A document contributes by its rank.
LEMMA RankScoreIs ==
    ASSUME NEW ranking, Injective(ranking), NEW i \in DOMAIN ranking, NEW weight
    PROVE  RankScore(ranking, weight, ranking[i]) = weight * Share(i)
  <1>1. (CHOOSE j \in DOMAIN ranking : ranking[j] = ranking[i]) = i
    BY DEF Injective
  <1> QED BY <1>1 DEF RankScore, Share

LEMMA Weighted ==
    ASSUME NEW weight \in Nat, NEW x \in Int, NEW y \in Int, x < y
    PROVE  /\ weight * x \in Int /\ weight * y \in Int
           /\ weight * x <= weight * y
           /\ weight > 0 => weight * x < weight * y
  OBVIOUS

\* The one that is before another in a ranking contributes no less, and more
\* when the ranking has some weight.
LEMMA RankScoresFall ==
    ASSUME NEW ranking \in Seq(Ids), Injective(ranking), Len(ranking) <= Cardinality(Ids),
           NEW weight \in Nat, NEW a, NEW b, Precedes(ranking, a, b)
    PROVE  /\ RankScore(ranking, weight, a) \in Int /\ RankScore(ranking, weight, b) \in Int
           /\ RankScore(ranking, weight, b) <= RankScore(ranking, weight, a)
           /\ weight > 0 => RankScore(ranking, weight, b) < RankScore(ranking, weight, a)
  <1>1. PICK i \in DOMAIN ranking, j \in DOMAIN ranking : i < j /\ ranking[i] = a /\ ranking[j] = b
    BY DEF Precedes
  <1>2. Cardinality(Ids) \in Nat
    BY SearchAssumption, FS_CardinalityType
  <1>3. i \in 1 .. Cardinality(Ids) /\ j \in 1 .. Cardinality(Ids)
    BY <1>2
  <1>4. Share(j) < Share(i) /\ Share(i) \in Int /\ Share(j) \in Int
    BY <1>1, <1>3, SharesFall
  <1>5. RankScore(ranking, weight, a) = weight * Share(i) /\ RankScore(ranking, weight, b) = weight * Share(j)
    BY <1>1, RankScoreIs
  <1> QED BY <1>4, <1>5, Weighted

\* A fusion has the documents of both rankings, and one before another that both
\* have before it.
LEMMA FusionIs ==
    ASSUME NEW v \in Seq(Ids), Injective(v), Len(v) <= Cardinality(Ids),
           NEW t \in Seq(Ids), Injective(t), Len(t) <= Cardinality(Ids),
           NEW vectorWeight \in Nat, NEW textWeight \in Nat, vectorWeight + textWeight > 0,
           NEW limit \in Nat, Cardinality(Ids) <= limit,
           NEW q \in FuseRrfWeighted(v, t, vectorWeight, textWeight, limit)
    PROVE  /\ q \in Seq(Ids) /\ Len(q) <= Cardinality(Ids) /\ SetOf(q) = SetOf(v) \cup SetOf(t)
           /\ \A a, b : Precedes(v, a, b) /\ Precedes(t, a, b) => Precedes(q, a, b)
  <1> DEFINE ids == {v[i] : i \in DOMAIN v} \cup {t[i] : i \in DOMAIN t}
             minusScore == [id \in ids |-> -(RankScore(v, vectorWeight, id) + RankScore(t, textWeight, id))]
             n == Least(limit, Cardinality(ids))
  <1>1. q \in Ranked(ids, minusScore, limit)
    BY Zenon DEF FuseRrfWeighted
  <1>2. ids = SetOf(v) \cup SetOf(t)
    BY DEF SetOf
  <1>3. ids \in SUBSET Ids
    OBVIOUS
  <1>4. \A id \in ids : minusScore[id] = -(RankScore(v, vectorWeight, id) + RankScore(t, textWeight, id))
    BY Zenon
  <1> HIDE DEF ids, minusScore
  <1>5. IsFiniteSet(ids) /\ Cardinality(ids) <= Cardinality(Ids) /\ Cardinality(Ids) \in Nat /\ Cardinality(ids) \in Nat
    BY <1>3, SearchAssumption, FS_Subset, FS_CardinalityType
  <1>6. /\ q \in Seq(ids) /\ Len(q) = Cardinality(ids) /\ DOMAIN q = 1 .. n
        /\ n = Cardinality(ids)
        /\ \A i, j \in 1 .. n : i < j => minusScore[q[i]] <= minusScore[q[j]]
        /\ \A x \in ids : \E i \in 1 .. n : q[i] = x
    <2>1. Cardinality(ids) <= limit
      BY <1>5
    <2> HIDE DEF n
    <2> QED BY <1>1, <1>5, <2>1, RankedIs DEF n
  <1> HIDE DEF n
  <1>7. q \in Seq(Ids)
    BY <1>3, <1>6
  <1>8. SetOf(q) = ids
    <2>1. \A i \in DOMAIN q : q[i] \in ids
      BY <1>6
    <2> QED BY <2>1, <1>6 DEF SetOf
  <1>9. ASSUME NEW a, NEW b, Precedes(v, a, b), Precedes(t, a, b)
        PROVE  Precedes(q, a, b)
    <2>1. a \in ids /\ b \in ids
      BY <1>9, <1>2 DEF Precedes, SetOf
    <2>2. minusScore[a] \in Int /\ minusScore[b] \in Int /\ minusScore[a] < minusScore[b]
      <3> DEFINE va == RankScore(v, vectorWeight, a)
                 vb == RankScore(v, vectorWeight, b)
                 ta == RankScore(t, textWeight, a)
                 tb == RankScore(t, textWeight, b)
      <3>1. va \in Int /\ vb \in Int /\ vb <= va /\ (vectorWeight > 0 => vb < va)
        BY <1>9, RankScoresFall
      <3>2. ta \in Int /\ tb \in Int /\ tb <= ta /\ (textWeight > 0 => tb < ta)
        BY <1>9, RankScoresFall
      <3>3. minusScore[a] = -(va + ta) /\ minusScore[b] = -(vb + tb)
        BY <1>4, <2>1
      <3>4. vectorWeight > 0 \/ textWeight > 0
        OBVIOUS
      <3> HIDE DEF va, vb, ta, tb
      <3> QED BY <3>1, <3>2, <3>3, <3>4
    <2>3. PICK i \in 1 .. n, j \in 1 .. n : q[i] = a /\ q[j] = b
      BY <2>1, <1>6
    <2>4. ~(j < i) /\ i # j
      <3>1. i # j
        BY <2>2, <2>3
      <3>2. j < i => minusScore[b] <= minusScore[a]
        BY <2>3, <1>6
      <3> QED BY <3>1, <3>2, <2>2
    <2>5. i < j
      BY <2>4, <1>5, <1>6
    <2> QED BY <2>3, <2>5, <1>6 DEF Precedes
  <1> QED BY <1>2, <1>5, <1>6, <1>7, <1>8, <1>9

-----------------------------------------------------------------------------
(* Hybrid searches.                                                        *)

\* Of a text search that is not cut off, every answer has all documents with a
\* term of the query, and the limit does not matter.
LEMMA InvertedSearchIs ==
    ASSUME NEW x \in InvertedIndexes, InvertedConsistent(x), NEW query \in Seq(Terms),
           NEW k \in Nat, Cardinality(Ids) <= k, NEW t \in InvertedSearch(x, query, k)
    PROVE  /\ t \in Seq(Ids) /\ Injective(t) /\ Len(t) <= Cardinality(Ids)
           /\ SetOf(t) = Matching(x, query)
           /\ \A m \in Nat : Cardinality(Ids) <= m => t \in InvertedSearch(x, query, m)
  <1> DEFINE found == IF query = <<>> \/ x.numDocs = 0 THEN {} ELSE Matching(x, query)
             n == Cardinality(found)
             sorted == {r \in [1 .. n -> found] :
                          \A i, j \in 1 .. n : i < j => r[i] # r[j] /\ ~Outranks(x, query, r[j], r[i])}
             cut(r, m) == SubSeq(r, 1, IF m < n THEN m ELSE n)
  <1>1. \A m : InvertedSearch(x, query, m) = {cut(r, m) : r \in sorted}
    BY Zenon DEF InvertedSearch
  <1>2. found = Matching(x, query)
    <2>1. query = <<>> => Matching(x, query) = {}
      BY DEF Matching
    <2>2. x.numDocs = 0 => Matching(x, query) = {}
      <3> DEFINE H == {id \in Ids : InvertedHas(x, id)}
      <3>1. x.numDocs = Cardinality(H)
        BY DEF InvertedConsistent
      <3>2. IsFiniteSet(H)
        BY SearchAssumption, FS_Subset
      <3>3. x.numDocs = 0 => H = {}
        <4> HIDE DEF H
        <4> QED BY <3>1, <3>2, FS_EmptySet
      <3>4. \A i \in DOMAIN query : query[i] \in Terms
        OBVIOUS
      <3> QED BY <3>3, <3>4 DEF Matching, InvertedConsistent
    <2> QED BY <2>1, <2>2
  <1>3. found \in SUBSET Ids
    BY <1>2 DEF Matching
  <1> HIDE DEF found
  <1>4. IsFiniteSet(found) /\ n \in Nat /\ n <= Cardinality(Ids) /\ Cardinality(Ids) \in Nat
    BY <1>3, SearchAssumption, FS_Subset, FS_CardinalityType
  <1>5. ASSUME NEW r \in sorted
        PROVE  /\ r \in [1 .. n -> found] /\ r \in Seq(Ids) /\ Len(r) = n /\ DOMAIN r = 1 .. n
               /\ \A i, j \in 1 .. n : i < j => r[i] # r[j]
    <2>1. r \in [1 .. n -> found] /\ \A i, j \in 1 .. n : i < j => r[i] # r[j]
      OBVIOUS
    <2> HIDE DEF n, sorted
    <2> QED BY <1>3, <1>4, <2>1
  <1> HIDE DEF n, sorted
  <1>6. \A r \in sorted, m \in Nat : Cardinality(Ids) <= m => cut(r, m) = r
    <2> SUFFICES ASSUME NEW r \in sorted, NEW m \in Nat, Cardinality(Ids) <= m PROVE cut(r, m) = r
      OBVIOUS
    <2>1. (IF m < n THEN m ELSE n) = n
      BY <1>4
    <2>2. r \in Seq(Ids) /\ Len(r) = n
      BY <1>5
    <2> QED BY <2>1, <2>2, <1>4
  <1>7. PICK r \in sorted : t = cut(r, k)
    <2> HIDE DEF cut
    <2> QED BY <1>1
  <1>8. t = r
    BY <1>6, <1>7
  <1> HIDE DEF cut
  <1>9. \A m \in Nat : Cardinality(Ids) <= m => t \in InvertedSearch(x, query, m)
    BY <1>1, <1>6, <1>8
  <1>10. t \in [1 .. n -> found] /\ t \in Seq(Ids) /\ Len(t) = n /\ DOMAIN t = 1 .. n /\ \A i, j \in 1 .. n : i < j => t[i] # t[j]
    BY <1>5, <1>8
  <1>11. \A i, j \in 1 .. n : t[i] = t[j] => i = j
    BY <1>4, <1>10
  <1>12. SetOf(t) = found
    <2>1. SetOf(t) \in SUBSET found
      BY <1>10 DEF SetOf
    <2>2. t \in Injection(1 .. n, SetOf(t)) /\ t \in Surjection(1 .. n, SetOf(t))
      <3>1. t \in [1 .. n -> SetOf(t)] /\ \A y \in SetOf(t) : \E i \in 1 .. n : t[i] = y
        BY <1>10 DEF SetOf
      <3> QED BY <3>1, <1>11 DEF Injection, Surjection, IsInjective
    <2>3. IsFiniteSet(1 .. n) /\ Cardinality(1 .. n) = n
      BY <1>4, FS_Interval
    <2>4. Cardinality(SetOf(t)) = n
      BY <2>2, <2>3, FS_Surjection
    <2> QED BY <2>1, <2>4, <1>4, FS_Subset DEF n
  <1> QED BY <1>2, <1>4, <1>9, <1>10, <1>11, <1>12 DEF Injective

\* A term is in a text when its frequency there is not zero.
LEMMA FrequencyMeans ==
    ASSUME NEW tokens \in Seq(Terms), NEW w
    PROVE  Frequency(tokens, w) # 0 <=> w \in SetOf(tokens)
  <1>1. CASE w \in SetOf(tokens)
    <2>1. PICK i \in DOMAIN tokens : tokens[i] = w
      BY <1>1 DEF SetOf
    <2>2. Frequency(tokens, w) \in Nat \ {0}
      BY <2>1, FrequencyPositive
    <2> QED BY <1>1, <2>2
  <1>2. CASE w \notin SetOf(tokens)
    <2>1. Frequency(tokens, w) = 0
      BY <1>2, FrequencyNone DEF SetOf
    <2> QED BY <1>2, <2>1
  <1> QED BY <1>1, <1>2

\* The documents that the text search finds are those with a token of the query.
LEMMA MatchingIs ==
    ASSUME IInv, TextExact, Answering, NEW query \in Seq(Terms)
    PROVE  Matching(text, query) = {id \in StoredIds : SetOf(TokensOf(id)) \cap SetOf(query) # {}}
  <1>1. text \in InvertedIndexes /\ InvertedConsistent(text)
    BY DEF IInv, TypeOK, MemorySound
  <1>2. \A i \in DOMAIN query : query[i] \in Terms
    OBVIOUS
  <1>3. ASSUME NEW id \in Ids, NEW w \in Terms
        PROVE  (\E p \in text.postings[w] : p[1] = id) <=> FrequencyIn(text, w, id) # 0
    <2>1. CASE \E p \in text.postings[w] : p[1] = id
      <3>1. PICK p \in text.postings[w] : p[1] = id
        BY <2>1
      <3>2. p[2] \in Nat \ {0}
        BY <1>1, PostingParts
      <3>3. FrequencyIn(text, w, id) = p[2]
        BY <1>1, <3>1, FrequencyIs
      <3> QED BY <2>1, <3>2, <3>3
    <2>2. CASE ~ \E p \in text.postings[w] : p[1] = id
      BY <2>2, FrequencyZero
    <2> QED BY <2>1, <2>2
  <1>4. ASSUME NEW id \in StoredIds, NEW w \in Terms
        PROVE  FrequencyIn(text, w, id) # 0 <=> w \in SetOf(TokensOf(id))
    <2>1. id \in Ids /\ stored[id] \in Bodies
      BY StoredBody DEF StoredIds, IInv
    <2>2. TokensOf(id) \in Seq(Terms)
      <3>1. TextFields(stored[id]) # {} => LastText(stored[id]) \in {stored[id].title, stored[id].text} \ {None}
        BY DEF TextFields, LastText
      <3> QED BY <2>1, <3>1, BodyParts DEF TokensOf, TokensIn
    <2>3. FrequencyIn(text, w, id) = Frequency(TokensOf(id), w)
      BY <2>1 DEF TextExact, Answering
    <2> QED BY <2>2, <2>3, FrequencyMeans
  <1>5. ASSUME NEW id \in Ids, id \notin StoredIds, NEW w \in Terms
        PROVE  FrequencyIn(text, w, id) = 0
    <2>1. given[id] = {}
      BY <1>5 DEF StoredIds, FieldsOf, Answering, Settled
    <2>2. ~InvertedHas(text, id)
      BY <2>1 DEF IInv, HeldWasGiven, Answering
    <2> QED BY <1>1, <2>2, FrequencyOfMissing
  <1>6. \A id \in Ids : id \in Matching(text, query) <=> \E i \in DOMAIN query : FrequencyIn(text, query[i], id) # 0
    BY <1>2, <1>3 DEF Matching
  <1>7. \A id \in StoredIds : SetOf(TokensOf(id)) \cap SetOf(query) # {} <=>
                              \E i \in DOMAIN query : query[i] \in SetOf(TokensOf(id))
    BY DEF SetOf
  <1>8. Matching(text, query) \in SUBSET Ids /\ StoredIds \in SUBSET Ids
    BY DEF Matching, StoredIds
  <1> QED BY <1>2, <1>4, <1>5, <1>6, <1>7, <1>8

\* Of a vector search that is not cut off, every answer has all documents that
\* it can have, and the limit does not matter.
LEMMA VectorResultsAre ==
    ASSUME IInv, Answering, NEW r \in Requests, NEW k \in Nat, Cardinality(Ids) <= k,
           NEW v \in VectorResults(r, k), v # Panic
    PROVE  /\ v \in Seq(Ids) /\ Injective(v) /\ Len(v) <= Cardinality(Ids) /\ SetOf(v) = PlainIds(r)
           /\ \A m \in Nat : Cardinality(Ids) <= m => v \in VectorResults(r, m)
  <1> DEFINE f == indexes[r.field]
             S == PlainIds(r)
             key == KeyIn(f, r.vector, S)
             c == Cardinality(S)
  <1>1. /\ f \in FlatIndexes /\ FlatConsistent(f) /\ FoundIn(f, Passing(r)) = S
        /\ S \subseteq Ids /\ IsFiniteSet(S)
    BY AnsweringIs
  <1>2. \A m : VectorResults(r, m) = FlatSearch(f, r.vector, m, Passing(r))
    BY Zenon DEF VectorResults
  <1> HIDE DEF f, S
  <1>3. c \in Nat /\ c <= Cardinality(Ids) /\ Cardinality(Ids) \in Nat
    BY <1>1, SearchAssumption, FS_Subset, FS_CardinalityType
  <1>4. \A m \in Nat :
            /\ (\A id \in Ids : ~FlatHas(f, id)) => VectorResults(r, m) = {<<>>}
            /\ (\E id \in Ids : FlatHas(f, id)) /\ S = {} => VectorResults(r, m) = {Panic}
            /\ S # {} => VectorResults(r, m) = Ranked(S, key, m)
    <2> SUFFICES ASSUME NEW m \in Nat
                 PROVE  /\ (\A id \in Ids : ~FlatHas(f, id)) => VectorResults(r, m) = {<<>>}
                        /\ (\E id \in Ids : FlatHas(f, id)) /\ S = {} => VectorResults(r, m) = {Panic}
                        /\ S # {} => VectorResults(r, m) = Ranked(S, key, m)
      OBVIOUS
    <2> QED BY <1>1, <1>2, FlatSearchIs
  <1> HIDE DEF key
  <1>5. CASE S = {}
    <2>1. \A id \in Ids : ~FlatHas(f, id)
      BY <1>4, <1>5
    <2>2. v = <<>> /\ \A m \in Nat : <<>> \in VectorResults(r, m)
      BY <1>4, <2>1
    <2>3. <<>> \in Seq(Ids) /\ Injective(<<>>) /\ Len(<<>>) = 0 /\ SetOf(<<>>) = {}
      BY DEF Injective, SetOf
    <2> QED BY <1>3, <1>5, <2>2, <2>3 DEF S
  <1>6. CASE S # {}
    <2>1. v \in Ranked(S, key, k)
      BY <1>4, <1>6
    <2>2. \A m \in Nat : Cardinality(Ids) <= m => Ranked(S, key, m) = Ranked(S, key, k)
      <3> SUFFICES ASSUME NEW m \in Nat, Cardinality(Ids) <= m PROVE Ranked(S, key, m) = Ranked(S, key, k)
        OBVIOUS
      <3>1. Least(m, Cardinality(S)) = Least(k, Cardinality(S))
        BY <1>3 DEF Least
      <3> QED BY <3>1, RankedSame
    <2>3. \A m \in Nat : Cardinality(Ids) <= m => v \in VectorResults(r, m)
      BY <1>4, <1>6, <2>1, <2>2
    <2>4. /\ v \in Seq(S) /\ Len(v) = c /\ DOMAIN v = 1 .. c
          /\ \A i, j \in 1 .. c : v[i] = v[j] => i = j
          /\ \A x \in S : \E i \in 1 .. c : v[i] = x
      <3>1. c <= k /\ c = Least(k, Cardinality(S))
        BY <1>3 DEF Least
      <3> QED BY <1>1, <2>1, <3>1, RankedIs
    <2>5. v \in Seq(Ids) /\ \A i \in DOMAIN v : v[i] \in S
      BY <1>1, <2>4
    <2>6. SetOf(v) = S
      BY <2>4, <2>5 DEF SetOf
    <2> QED BY <1>3, <2>3, <2>4, <2>5, <2>6 DEF Injective, S
  <1> QED BY <1>5, <1>6

\* An answer of a hybrid search that the limit does not cut off.
LEMMA HybridAnswerIs ==
    ASSUME IInv, TextExact, Answering, NEW r \in Requests, r.hybrid # None, Cardinality(Ids) <= r.limit,
           NEW s \in Search(r), s # Panic
    PROVE  /\ SetOf(s) = (PlainIds(r) \cup Matching(text, Tokenize(r.hybrid))) \cap Passing(r)
           /\ \E v \in VectorResults(r, Cardinality(Ids)), t \in TextResults(r, Cardinality(Ids)) :
                  \A a, b \in Passing(r) : Precedes(v, a, b) /\ Precedes(t, a, b) => Precedes(s, a, b)
  <1> DEFINE k == AtLeastFifty(KSearch(r))
             query == Tokenize(r.hybrid)
             c == Cardinality(Ids)
             final(q) == IF q = Panic THEN Panic
                         ELSE LET kept == Filtered(q, Passing(r)) IN SubSeq(kept, 1, Least(r.limit, Len(kept)))
             fused(v, t) == FuseRrfWeighted(v, t, r.vectorWeight, r.textWeight, KSearch(r))
  <1>1. KSearch(r) \in Nat /\ r.limit \in Nat /\ r.limit <= KSearch(r) /\ c \in Nat
    BY AnsweringIs, SearchAssumption, FS_CardinalityType
  <1>2. k \in Nat /\ c <= k /\ c <= KSearch(r)
    BY <1>1 DEF AtLeastFifty
  <1>3. query \in Seq(Terms) /\ r.vectorWeight \in Nat /\ r.textWeight \in Nat /\ r.vectorWeight + r.textWeight > 0
    BY RequestsAssumption
  <1>4. Search(r) = {final(q) : q \in Retrieved(r)}
    BY Zenon DEF Search
  <1>5. Retrieved(r) = UNION {IF v = Panic THEN {Panic} ELSE UNION {fused(v, t) : t \in TextResults(r, k)} : v \in VectorResults(r, k)}
    BY Zenon DEF Retrieved
  <1>6. \A m : TextResults(r, m) = InvertedSearch(text, query, m)
    BY Zenon DEF TextResults
  <1>7. final(Panic) = Panic
    OBVIOUS
  <1> HIDE DEF final, fused, k, query, c
  <1>8. PICK q \in Retrieved(r) : s = final(q)
    BY <1>4
  <1>9. PICK v \in VectorResults(r, k) : q \in IF v = Panic THEN {Panic} ELSE UNION {fused(v, t) : t \in TextResults(r, k)}
    BY <1>5, <1>8
  <1>10. v # Panic
    BY <1>7, <1>8, <1>9
  <1>11. PICK t \in TextResults(r, k) : q \in fused(v, t)
    BY <1>9, <1>10
  <1>12. /\ v \in Seq(Ids) /\ Injective(v) /\ Len(v) <= c /\ SetOf(v) = PlainIds(r)
         /\ v \in VectorResults(r, c)
    BY <1>1, <1>2, <1>10, VectorResultsAre DEF c
  <1>13. /\ t \in Seq(Ids) /\ Injective(t) /\ Len(t) <= c /\ SetOf(t) = Matching(text, query)
         /\ t \in TextResults(r, c)
    <2>1. text \in InvertedIndexes /\ InvertedConsistent(text)
      BY DEF IInv, TypeOK, MemorySound
    <2>2. t \in InvertedSearch(text, query, k)
      BY <1>6
    <2>3. /\ t \in Seq(Ids) /\ Injective(t) /\ Len(t) <= c /\ SetOf(t) = Matching(text, query)
          /\ \A m \in Nat : c <= m => t \in InvertedSearch(text, query, m)
      BY <1>2, <1>3, <2>1, <2>2, InvertedSearchIs DEF c
    <2> QED BY <1>1, <1>6, <2>3
  <1>14. /\ q \in Seq(Ids) /\ Len(q) <= c /\ SetOf(q) = SetOf(v) \cup SetOf(t)
         /\ \A a, b : Precedes(v, a, b) /\ Precedes(t, a, b) => Precedes(q, a, b)
    <2>1. q \in FuseRrfWeighted(v, t, r.vectorWeight, r.textWeight, KSearch(r))
      BY <1>11 DEF fused
    <2> QED BY <1>1, <1>2, <1>3, <1>12, <1>13, <2>1, FusionIs DEF c
  <1> DEFINE kept == Filtered(q, Passing(r))
  <1>15. /\ kept \in Seq(Ids) /\ Len(kept) <= Len(q) /\ SetOf(kept) = SetOf(q) \cap Passing(r)
         /\ \A a, b \in Passing(r) : Precedes(q, a, b) => Precedes(kept, a, b)
    BY <1>14, FilteredIs
  <1>16. final(q) = SubSeq(kept, 1, Least(r.limit, Len(kept)))
    BY <1>8, <1>7 DEF final
  <1> HIDE DEF kept
  <1>17. s = kept
    <2>1. Len(kept) \in Nat /\ Len(kept) <= r.limit
      BY <1>1, <1>14, <1>15 DEF c
    <2>2. Least(r.limit, Len(kept)) = Len(kept)
      BY <1>1, <2>1 DEF Least
    <2>3. SubSeq(kept, 1, Len(kept)) = kept
      BY <1>15
    <2> QED BY <1>8, <1>16, <2>2, <2>3
  <1>18. \A a, b \in Passing(r) : Precedes(v, a, b) /\ Precedes(t, a, b) => Precedes(s, a, b)
    BY <1>14, <1>15, <1>17
  <1>19. SetOf(s) = (PlainIds(r) \cup Matching(text, query)) \cap Passing(r)
    BY <1>12, <1>13, <1>14, <1>15, <1>17
  <1> QED BY <1>12, <1>13, <1>18, <1>19 DEF c, query

\* Once every document has exactly the fields of its body: an answer of a hybrid
\* search with a high limit has every document that either part finds and the
\* filter lets through, and never puts one before another that both parts put
\* before it.
THEOREM HybridStaysExact == Spec => []HybridExact
  <1>1. IInv /\ TextExact => HybridExact
    <2> SUFFICES ASSUME IInv, TextExact, Answering, NEW r \in Requests, r.hybrid # None, r.limit >= Cardinality(Ids),
                        NEW s \in Search(r), s # Panic
                 PROVE  LET before(x, a, b) == \E i, j \in DOMAIN x : i < j /\ x[i] = a /\ x[j] = b
                            byText == {id \in StoredIds \cap Passing(r) :
                                          SetOf(TokensOf(id)) \cap SetOf(Tokenize(r.hybrid)) # {}}
                        IN  /\ SetOf(s) = PlainIds(r) \cup byText
                            /\ \A a, b \in SetOf(s) :
                                /\ \A v \in VectorResults(r, Cardinality(Ids)) : before(v, a, b)
                                /\ \A t \in TextResults(r, Cardinality(Ids)) : before(t, a, b)
                                => before(s, a, b)
      BY Zenon DEF HybridExact
    <2>1. Cardinality(Ids) \in Nat /\ r.limit \in Nat
      BY AnsweringIs, SearchAssumption, FS_CardinalityType
    <2>2. Cardinality(Ids) <= r.limit
      BY <2>1
    <2>3. /\ SetOf(s) = (PlainIds(r) \cup Matching(text, Tokenize(r.hybrid))) \cap Passing(r)
          /\ \E v \in VectorResults(r, Cardinality(Ids)), t \in TextResults(r, Cardinality(Ids)) :
                 \A a, b \in Passing(r) : Precedes(v, a, b) /\ Precedes(t, a, b) => Precedes(s, a, b)
      BY <2>2, HybridAnswerIs
    <2>4. Matching(text, Tokenize(r.hybrid)) = {id \in StoredIds : SetOf(TokensOf(id)) \cap SetOf(Tokenize(r.hybrid)) # {}}
      BY RequestsAssumption, MatchingIs
    <2>5. PlainIds(r) \subseteq Passing(r)
      BY DEF PlainIds
    <2>6. SetOf(s) = PlainIds(r) \cup {id \in StoredIds \cap Passing(r) :
                                          SetOf(TokensOf(id)) \cap SetOf(Tokenize(r.hybrid)) # {}}
      BY <2>3, <2>4, <2>5
    <2>7. ASSUME NEW a \in SetOf(s), NEW b \in SetOf(s),
                 \A v \in VectorResults(r, Cardinality(Ids)) : Precedes(v, a, b),
                 \A t \in TextResults(r, Cardinality(Ids)) : Precedes(t, a, b)
          PROVE  Precedes(s, a, b)
      <3>1. a \in Passing(r) /\ b \in Passing(r)
        BY <2>3
      <3> QED BY <2>3, <2>7, <3>1
    <2> QED BY <2>6, <2>7, Zenon DEF Precedes
  <1> QED BY <1>1, IndexesSound, TextStaysExact, PTL

-----------------------------------------------------------------------------
(* Each flat index implements VectorIndex.                                 *)

Refines(field) == [Promise(field)!Next]_<<HeldIn(indexes[field]), SavedIn(field)>>

\* The steps that touch one document do not touch the vectors of another.
LEMMA OthersStay ==
    ASSUME IInv, NEW id \in Ids,
           Delete(id) \/ ReplayOne(id) \/ DeleteOne(id) \/ \E b \in Bodies : Insert(id, b) \/ InsertRefused(id, b)
    PROVE  /\ indexFile' = indexFile
           /\ \A f \in Fields, x \in Ids \ {id} : FlatVector(indexes'[f], x) = FlatVector(indexes[f], x)
  <1>1. indexes \in [Fields -> FlatIndexes] /\ text \in InvertedIndexes /\ MemorySound
    BY DEF IInv, TypeOK
  <1>2. CASE Delete(id) \/ DeleteOne(id)
    <2>1. Unindex(id) /\ indexFile' = indexFile
      BY <1>2 DEF Delete, DeleteOne
    <2> QED BY <2>1, <1>1, UnindexIs
  <1>3. CASE ReplayOne(id)
    <2>1. stored[id] \in Bodies /\ IndexDocument(id, stored[id]) /\ indexFile' = indexFile
      BY <1>3, StoredBody DEF ReplayOne, IInv, TypeOK, StoredIds
    <2> QED BY <2>1, <1>1, IndexDocumentIs
  <1>4. ASSUME NEW b \in Bodies, Insert(id, b)
        PROVE  /\ indexFile' = indexFile
               /\ \A f \in Fields, x \in Ids \ {id} : FlatVector(indexes'[f], x) = FlatVector(indexes[f], x)
    <2>1. IndexDocument(id, b) /\ indexFile' = indexFile
      BY <1>4 DEF Insert
    <2> QED BY <2>1, <1>1, IndexDocumentIs
  <1>5. ASSUME NEW b \in Bodies, InsertRefused(id, b)
        PROVE  /\ indexFile' = indexFile
               /\ \A f \in Fields, x \in Ids \ {id} : FlatVector(indexes'[f], x) = FlatVector(indexes[f], x)
    <2>1. IndexPartly(id, b) /\ indexFile' = indexFile
      BY <1>5 DEF InsertRefused
    <2>2. PICK fs \in SUBSET {f \in VectorFields(b) : b.vectors[f] # Mismatch} : IndexVectors(id, b, fs)
      BY <2>1 DEF IndexPartly
    <2>3. fs \in SUBSET VectorFields(b) /\ (\A f \in fs : b.vectors[f] # Mismatch)
          /\ \A f \in Fields : FlatConsistent(indexes[f])
      BY <1>1 DEF MemorySound
    <2>4. \A f \in Fields : \A x \in Ids \ {id} : FlatVector(indexes'[f], x) = FlatVector(indexes[f], x)
      BY <1>1, <2>2, <2>3, IndexVectorsIs
    <2> QED BY <2>1, <2>4
  <1> QED BY <1>2, <1>3, <1>4, <1>5

\* A map that changes at one id had the id inserted or deleted.
LEMMA ChangedAtOne ==
    ASSUME IInv', NEW field \in Fields, NEW id \in Ids, indexFile' = indexFile,
           \A x \in Ids \ {id} : FlatVector(indexes'[field], x) = FlatVector(indexes[field], x)
    PROVE  Refines(field)
  <1> DEFINE v == FlatVector(indexes'[field], id)
  <1>1. indexes'[field] \in FlatIndexes /\ FlatConsistent(indexes'[field])
    BY DEF IInv, TypeOK, MemorySound
  <1>2. v \in Kept \cup {None}
    BY <1>1, FlatVectorKept
  <1>3. HeldIn(indexes'[field]) = [HeldIn(indexes[field]) EXCEPT ![id] = v]
    BY DEF HeldIn
  <1>4. SavedIn(field)' = SavedIn(field)
    BY DEF SavedIn, LoadedMetric
  <1> HIDE DEF v
  <1>5. CASE v \in Kept
    <2>1. Promise(field)!Insert(id, v)
      BY <1>3, <1>4 DEF Promise!Insert
    <2> QED BY <2>1, <1>5 DEF Refines, Promise!Next
  <1>6. CASE v = None
    <2>1. Promise(field)!Delete(id)
      BY <1>3, <1>4, <1>6 DEF Promise!Delete
    <2> QED BY <2>1 DEF Refines, Promise!Next
  <1> QED BY <1>2, <1>5, <1>6

\* What is saved is what is held.
LEMMA SaveIndexRefines ==
    ASSUME IInv, IInv', SaveIndex, NEW field \in Fields
    PROVE  Refines(field)
  <1>1. indexes' = indexes /\ indexFile' # NoIndex /\ indexFile'.entries[field] = indexes[field].entries
    <2>1. /\ indexFile' = [entries |-> [f \in Fields |-> indexes[f].entries], text |-> text]
          /\ indexes' = indexes /\ text' = text
      BY DEF SaveIndex, memory
    <2>2. \A f \in Fields : indexes[f].entries \in Seq(Entries)
      BY EntriesUnique DEF IInv, TypeOK, MemorySound
    <2>3. [f \in Fields |-> indexes[f].entries] \in [Fields -> Seq(Entries)] /\ text \in InvertedIndexes
      BY <2>2 DEF IInv, TypeOK
    <2>4. indexFile' \in IndexFiles
      BY <2>1, <2>3 DEF IndexFiles
    <2> QED BY <2>1, <2>4, SearchAssumption
  <1>2. SavedIn(field)' = HeldIn(FlatLoaded(indexes[field].entries, LoadedMetric(field)))
    BY <1>1 DEF SavedIn, LoadedMetric
  <1>3. indexes[field] \in FlatIndexes /\ FlatConsistent(indexes[field]) /\ LoadedMetric(field) \in Metrics
    BY DEF IInv, TypeOK, MemorySound, LoadedMetric, Metrics
  <1>4. SavedIn(field)' = HeldIn(indexes[field])
    BY <1>2, <1>3, FlatSavedIsLoaded DEF HeldIn
  <1>5. Promise(field)!Serialize
    BY <1>1, <1>4 DEF Promise!Serialize
  <1> QED BY <1>5 DEF Refines, Promise!Next

\* What is loaded is what was saved.
LEMMA OpenLoadingRefines ==
    ASSUME OpenLoading, NEW field \in Fields
    PROVE  Refines(field)
  <1>1. /\ indexFile # NoIndex /\ indexFile' = indexFile
        /\ indexes'[field] = FlatLoaded(indexFile.entries[field], LoadedMetric(field))
    BY DEF OpenLoading
  <1>2. HeldIn(indexes'[field]) = SavedIn(field) /\ SavedIn(field)' = SavedIn(field)
    BY <1>1 DEF SavedIn, LoadedMetric
  <1>3. Promise(field)!Deserialize
    BY <1>2 DEF Promise!Deserialize
  <1> QED BY <1>3 DEF Refines, Promise!Next

LEMMA NewHoldsNothing ==
    ASSUME NEW field \in Fields
    PROVE  HeldIn(NewIndexes[field]) = Promise(field)!Empty
  <1>1. NewIndexes[field] \in FlatIndexes /\ \A x \in Ids : ~FlatHas(NewIndexes[field], x)
    BY FlatNewIs, SearchAssumption DEF NewIndexes
  <1> QED BY <1>1 DEF HeldIn, FlatVector, Promise!Empty

\* The process ends with its indexes.
LEMMA StopRefines ==
    ASSUME Stop, NEW field \in Fields
    PROVE  Refines(field)
  <1>1. indexes' = NewIndexes /\ indexFile' = indexFile
    BY DEF Stop
  <1>2. HeldIn(indexes'[field]) = Promise(field)!Empty /\ SavedIn(field)' = SavedIn(field)
    BY <1>1, NewHoldsNothing DEF SavedIn, LoadedMetric
  <1>3. Promise(field)!New
    BY <1>2 DEF Promise!New
  <1> QED BY <1>3 DEF Refines, Promise!Next

\* A step that changes neither the indexes nor the file changes no map.
LEMMA StayRefines ==
    ASSUME indexes' = indexes, indexFile' = indexFile, NEW field \in Fields
    PROVE  Refines(field)
  <1>1. HeldIn(indexes[field])' = HeldIn(indexes[field]) /\ SavedIn(field)' = SavedIn(field)
    BY DEF SavedIn, LoadedMetric
  <1> QED BY <1>1 DEF Refines

LEMMA StepRefines == IInv /\ IInv' /\ [Next]_vars => \A field \in Fields : Refines(field)
  <1> SUFFICES ASSUME IInv, IInv', [Next]_vars, NEW field \in Fields PROVE Refines(field)
    OBVIOUS
  <1>1. ASSUME NEW id \in Ids,
               Delete(id) \/ ReplayOne(id) \/ DeleteOne(id) \/ \E b \in Bodies : Insert(id, b) \/ InsertRefused(id, b)
        PROVE  Refines(field)
    <2>1. indexFile' = indexFile
          /\ \A x \in Ids \ {id} : FlatVector(indexes'[field], x) = FlatVector(indexes[field], x)
      BY <1>1, OthersStay
    <2> QED BY <2>1, ChangedAtOne
  <1>2. CASE SaveIndex
    BY <1>2, SaveIndexRefines
  <1>3. CASE Stop
    BY <1>3, StopRefines
  <1>4. CASE OpenLoading
    BY <1>4, OpenLoadingRefines
  <1>5. CASE OpenRebuilding \/ RebuildText \/ Opened \/ \E id \in Ids : RebuildTextOne(id)
    <2>1. indexes' = indexes /\ indexFile' = indexFile
      BY <1>5 DEF OpenRebuilding, RebuildText, Opened, RebuildTextOne, memory
    <2> QED BY <2>1, StayRefines
  <1>6. CASE UNCHANGED vars
    <2>1. indexes' = indexes /\ indexFile' = indexFile
      BY <1>6 DEF vars, memory
    <2> QED BY <2>1, StayRefines
  <1> QED BY <1>1, <1>2, <1>3, <1>4, <1>5, <1>6 DEF Next

LEMMA StartRefines == Init => \A field \in Fields : Promise(field)!Init
  <1> SUFFICES ASSUME Init, NEW field \in Fields PROVE Promise(field)!Init
    OBVIOUS
  <1>1. indexes = NewIndexes /\ indexFile = NoIndex
    BY DEF Init
  <1>2. HeldIn(indexes[field]) = Promise(field)!Empty
    BY <1>1, NewHoldsNothing
  <1>3. SavedIn(field) = Promise(field)!Empty
    BY <1>1 DEF SavedIn, Promise!Empty
  <1> QED BY <1>2, <1>3 DEF Promise!Init

\* Inserts, deletions, saving, loading and restarts do to each flat index what
\* the trait promises of any index: a map from ids to vectors, whole again
\* after it was serialised and loaded.
THEOREM FlatImplementsVectorIndex == Spec => ImplementsVectorIndex
  <1>1. Init => \A field \in Fields : Promise(field)!Init
    BY StartRefines
  <1>2. IInv /\ IInv' /\ [Next]_vars =>
            [\A field \in Fields : [Promise(field)!Next]_<<HeldIn(indexes[field]), SavedIn(field)>>]_vars
    BY StepRefines DEF Refines
  <1> QED BY <1>1, <1>2, IndexesSound, PTL DEF Spec, ImplementsVectorIndex
=============================================================================
