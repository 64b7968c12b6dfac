----------------------- MODULE CollectionIndexProofs ------------------------
(***************************************************************************)
(* What the operations of a flat index and of the full-text index do to    *)
(* them and to the maps they stand for, for every number of documents and  *)
(* terms and every vector.                                                 *)
(***************************************************************************)
EXTENDS FlatIndex, InvertedIndex, IndexLemmas, Functions

LiveIn(entries) == {i \in DOMAIN entries : ~entries[i].deleted}

\* No id has two entries, as in every list of entries that was ever saved.
Unique(entries) == \A i, j \in DOMAIN entries : entries[i].id = entries[j].id => i = j

\* The parts of an index, one by one.
LEMMA FlatParts ==
    ASSUME NEW f \in FlatIndexes
    PROVE  /\ f.entries \in Seq(Entries)
           /\ f.idToPos \in [Ids -> Nat]
           /\ f.activeCount \in Int
           /\ f.metric \in Metrics
           /\ DOMAIN f.entries = 1 .. Len(f.entries) /\ Len(f.entries) \in Nat
           /\ \A i \in DOMAIN f.entries : f.entries[i] \in Entries
  <1>1. /\ f.entries \in Seq(Entries)
        /\ f.idToPos \in [Ids -> Nat] /\ f.activeCount \in Int /\ f.metric \in Metrics
    BY DEF FlatIndexes
  <1> HIDE DEF Entries
  <1> QED BY <1>1

LEMMA EntryParts ==
    ASSUME NEW e \in Entries
    PROVE  e.id \in Ids /\ e.vector \in Kept /\ e.deleted \in BOOLEAN
  BY DEF Entries

\* A list of entries has finitely many live ones.
LEMMA LiveFinite ==
    ASSUME NEW entries \in Seq(Entries)
    PROVE  IsFiniteSet(LiveIn(entries)) /\ Cardinality(LiveIn(entries)) \in Nat
  <1> HIDE DEF Entries
  <1>1. IsFiniteSet(1 .. Len(entries))
    BY FS_Interval
  <1>2. LiveIn(entries) \in SUBSET (1 .. Len(entries))
    BY DEF LiveIn
  <1> QED BY <1>1, <1>2, FS_Subset, FS_CardinalityType

\* A document vector, as an index keeps it.
LEMMA PreparedKept ==
    ASSUME NEW m, NEW v \in Vectors
    PROVE  Prepared(m, v) \in Kept
  BY VectorsAssumption DEF Prepared, Normalize, Kept

\* Live entries of a list after one of them is written over.
LEMMA LiveOver ==
    ASSUME NEW entries \in Seq(Entries), NEW pos \in DOMAIN entries, NEW e \in Entries
    PROVE  /\ [entries EXCEPT ![pos] = e] \in Seq(Entries)
           /\ DOMAIN [entries EXCEPT ![pos] = e] = DOMAIN entries
           /\ LiveIn([entries EXCEPT ![pos] = e]) =
                IF e.deleted THEN LiveIn(entries) \ {pos} ELSE LiveIn(entries) \cup {pos}
  <1> HIDE DEF Entries
  <1> QED BY DEF LiveIn

LEMMA LiveAppended ==
    ASSUME NEW entries \in Seq(Entries), NEW e \in Entries, ~e.deleted
    PROVE  /\ Append(entries, e) \in Seq(Entries)
           /\ DOMAIN Append(entries, e) = DOMAIN entries \cup {Len(entries) + 1}
           /\ \A i \in DOMAIN entries : Append(entries, e)[i] = entries[i]
           /\ Append(entries, e)[Len(entries) + 1] = e
           /\ Len(entries) + 1 \notin DOMAIN entries
           /\ LiveIn(Append(entries, e)) = LiveIn(entries) \cup {Len(entries) + 1}
  <1> HIDE DEF Entries
  <1>1. /\ Append(entries, e) \in Seq(Entries) /\ Len(entries) \in Nat
        /\ DOMAIN entries = 1 .. Len(entries)
        /\ DOMAIN Append(entries, e) = 1 .. Len(entries) + 1
        /\ \A i \in DOMAIN entries : Append(entries, e)[i] = entries[i]
        /\ Append(entries, e)[Len(entries) + 1] = e
    OBVIOUS
  <1>2. DOMAIN Append(entries, e) = DOMAIN entries \cup {Len(entries) + 1} /\ Len(entries) + 1 \notin DOMAIN entries
    BY <1>1
  <1> HIDE <1>1
  <1>3. LiveIn(Append(entries, e)) = LiveIn(entries) \cup {Len(entries) + 1}
    BY <1>1, <1>2, Zenon DEF LiveIn
  <1> QED BY <1>1, <1>2, <1>3

-----------------------------------------------------------------------------
(* Insertion.                                                              *)

\* An id that has an entry gets the new one in its place.
LEMMA FlatInsertOver ==
    ASSUME NEW f \in FlatIndexes, FlatConsistent(f), NEW id \in Ids, NEW v \in Vectors, f.idToPos[id] # 0
    PROVE  LET g == FlatInsert(f, id, v) IN
           /\ g \in FlatIndexes /\ FlatConsistent(g) /\ g.metric = f.metric
           /\ FlatHas(g, id) /\ FlatVector(g, id) = Prepared(f.metric, v)
           /\ \A x \in Ids \ {id} : FlatHas(g, x) = FlatHas(f, x) /\ FlatVector(g, x) = FlatVector(f, x)
  <1> DEFINE pos == f.idToPos[id]
             e == [id |-> id, vector |-> Prepared(f.metric, v), deleted |-> FALSE]
             g == FlatInsert(f, id, v)
             over == [f.entries EXCEPT ![pos] = e]
             count == IF f.entries[pos].deleted THEN f.activeCount + 1 ELSE f.activeCount
  <1>1. e \in Entries /\ e.id = id /\ e.vector = Prepared(f.metric, v) /\ e.deleted = FALSE
    BY PreparedKept DEF Entries
  <1>2. pos \in DOMAIN f.entries /\ f.entries[pos].id = id
    BY DEF FlatConsistent
  <1>3. g = [f EXCEPT !.entries = over, !.activeCount = count]
    BY DEF FlatInsert
  <1>4. g.entries = over /\ g.idToPos = f.idToPos /\ g.activeCount = count /\ g.metric = f.metric
    BY <1>3 DEF FlatIndexes
  <1>5. /\ over \in Seq(Entries) /\ DOMAIN over = DOMAIN f.entries
        /\ LiveIn(over) = LiveIn(f.entries) \cup {pos}
    BY <1>1, <1>2, FlatParts, LiveOver, Zenon
  <1>6. count \in Int
    BY FlatParts
  <1>7. g \in FlatIndexes
    <2> HIDE DEF Entries, over, count, g
    <2>1. g = [entries |-> over, idToPos |-> f.idToPos, activeCount |-> count, metric |-> f.metric]
      BY <1>3 DEF FlatIndexes
    <2> QED BY <2>1, <1>5, <1>6, FlatParts DEF FlatIndexes
  <1>8. pos \in LiveIn(f.entries) <=> ~f.entries[pos].deleted
    BY <1>2 DEF LiveIn
  <1>9. Cardinality(LiveIn(over)) = count
    <2>1. IsFiniteSet(LiveIn(f.entries)) /\ f.activeCount = Cardinality(LiveIn(f.entries))
      BY FlatParts, LiveFinite DEF FlatConsistent, LiveIn
    <2>2. Cardinality(LiveIn(over)) = IF pos \in LiveIn(f.entries) THEN f.activeCount ELSE f.activeCount + 1
      BY <2>1, <1>5, FS_AddElement, Zenon
    <2>3. CASE f.entries[pos].deleted
      BY <2>2, <2>3, <1>8
    <2>4. CASE ~f.entries[pos].deleted
      BY <2>2, <2>4, <1>8
    <2> QED BY <2>3, <2>4
  <1>10. over[pos] = e /\ \A i \in DOMAIN f.entries : i # pos => over[i] = f.entries[i]
    BY <1>2
  <1>11. FlatConsistent(g)
    <2> HIDE DEF e, over, count, g, pos
    <2>1. \A i \in DOMAIN g.entries : g.idToPos[g.entries[i].id] = i
      BY <1>1, <1>2, <1>4, <1>5, <1>10 DEF FlatConsistent, pos
    <2>2. \A x \in Ids : g.idToPos[x] # 0 => g.idToPos[x] \in DOMAIN g.entries /\ g.entries[g.idToPos[x]].id = x
      BY <1>1, <1>2, <1>4, <1>5, <1>10 DEF FlatConsistent
    <2> QED BY <2>1, <2>2, <1>9, <1>4 DEF FlatConsistent, LiveIn
  <1>12. FlatHas(g, id) /\ FlatVector(g, id) = Prepared(f.metric, v)
    BY <1>1, <1>4, <1>10 DEF FlatHas, FlatVector
  <1>13. ASSUME NEW x \in Ids \ {id}
         PROVE  FlatHas(g, x) = FlatHas(f, x) /\ FlatVector(g, x) = FlatVector(f, x)
    <2> HIDE DEF e, over, count, g
    <2>1. f.idToPos[x] # 0 => f.idToPos[x] \in DOMAIN f.entries /\ f.idToPos[x] # pos
      BY <1>2 DEF FlatConsistent
    <2>2. f.idToPos[x] # 0 => g.entries[g.idToPos[x]] = f.entries[f.idToPos[x]]
      BY <2>1, <1>4, <1>10
    <2> QED BY <2>2, <1>4, Zenon DEF FlatHas, FlatVector
  <1> QED BY <1>4, <1>7, <1>11, <1>12, <1>13

\* An id without an entry gets one at the end.
LEMMA FlatInsertNew ==
    ASSUME NEW f \in FlatIndexes, FlatConsistent(f), NEW id \in Ids, NEW v \in Vectors, f.idToPos[id] = 0
    PROVE  LET g == FlatInsert(f, id, v) IN
           /\ g \in FlatIndexes /\ FlatConsistent(g) /\ g.metric = f.metric
           /\ FlatHas(g, id) /\ FlatVector(g, id) = Prepared(f.metric, v)
           /\ \A x \in Ids \ {id} : FlatHas(g, x) = FlatHas(f, x) /\ FlatVector(g, x) = FlatVector(f, x)
  <1> DEFINE e == [id |-> id, vector |-> Prepared(f.metric, v), deleted |-> FALSE]
             g == FlatInsert(f, id, v)
             all == Append(f.entries, e)
             last == Len(f.entries) + 1
             map == [f.idToPos EXCEPT ![id] = last]
  <1>1. e \in Entries /\ e.id = id /\ e.vector = Prepared(f.metric, v) /\ e.deleted = FALSE
    BY PreparedKept DEF Entries
  <1>2. g = [f EXCEPT !.entries = all, !.idToPos = map, !.activeCount = f.activeCount + 1]
    BY DEF FlatInsert
  <1>3. g.entries = all /\ g.idToPos = map /\ g.activeCount = f.activeCount + 1 /\ g.metric = f.metric
    BY <1>2 DEF FlatIndexes
  <1>4. /\ all \in Seq(Entries) /\ DOMAIN all = DOMAIN f.entries \cup {last} /\ last \notin DOMAIN f.entries
        /\ \A i \in DOMAIN f.entries : all[i] = f.entries[i]
        /\ all[last] = e
        /\ LiveIn(all) = LiveIn(f.entries) \cup {last}
    <2> HIDE DEF e
    <2>1. f.entries \in Seq(Entries)
      BY FlatParts
    <2> QED BY <1>1, <2>1, LiveAppended, ZenonT(30)
  <1>5. last \in Nat /\ last # 0 /\ map \in [Ids -> Nat]
    BY FlatParts
  <1>6. map[id] = last /\ \A x \in Ids \ {id} : map[x] = f.idToPos[x]
    BY FlatParts
  <1>7. \A i \in DOMAIN f.entries : f.entries[i].id \in Ids \ {id}
    <2>1. \A i \in DOMAIN f.entries : f.entries[i].id \in Ids /\ i # 0
      BY FlatParts, EntryParts
    <2> QED BY <2>1 DEF FlatConsistent
  <1> HIDE DEF all, last, map, g, e
  <1>8. g \in FlatIndexes
    <2> HIDE DEF Entries
    <2>1. g = [entries |-> all, idToPos |-> map, activeCount |-> f.activeCount + 1, metric |-> f.metric]
      BY <1>2 DEF FlatIndexes
    <2>2. f.activeCount + 1 \in Int
      BY FlatParts
    <2> QED BY <2>1, <2>2, <1>4, <1>5, FlatParts DEF FlatIndexes
  <1>9. Cardinality(LiveIn(all)) = f.activeCount + 1
    <2>1. IsFiniteSet(LiveIn(f.entries)) /\ f.activeCount = Cardinality(LiveIn(f.entries))
      BY FlatParts, LiveFinite DEF FlatConsistent, LiveIn
    <2>2. last \notin LiveIn(f.entries)
      BY <1>4 DEF LiveIn
    <2>3. Cardinality(LiveIn(f.entries) \cup {last}) = Cardinality(LiveIn(f.entries)) + 1
      BY <2>1, <2>2, FS_AddElement
    <2> QED BY <2>1, <2>3, <1>4
  <1>10. FlatConsistent(g)
    <2>1. \A i \in DOMAIN g.entries : g.idToPos[g.entries[i].id] = i
      BY <1>1, <1>3, <1>4, <1>6, <1>7 DEF FlatConsistent
    <2>2. \A x \in Ids : g.idToPos[x] # 0 => g.idToPos[x] \in DOMAIN g.entries /\ g.entries[g.idToPos[x]].id = x
      BY <1>1, <1>3, <1>4, <1>6 DEF FlatConsistent
    <2> QED BY <2>1, <2>2, <1>9, <1>3 DEF FlatConsistent, LiveIn
  <1>11. FlatHas(g, id) /\ FlatVector(g, id) = Prepared(f.metric, v)
    BY <1>1, <1>3, <1>4, <1>5, <1>6 DEF FlatHas, FlatVector
  <1>12. ASSUME NEW x \in Ids \ {id}
         PROVE  FlatHas(g, x) = FlatHas(f, x) /\ FlatVector(g, x) = FlatVector(f, x)
    <2>1. f.idToPos[x] # 0 => g.entries[g.idToPos[x]] = f.entries[f.idToPos[x]]
      BY <1>3, <1>4, <1>6 DEF FlatConsistent
    <2>2. g.idToPos[x] = f.idToPos[x]
      BY <1>3, <1>6
    <2> QED BY <2>1, <2>2, Zenon DEF FlatHas, FlatVector
  <1> QED BY <1>3, <1>8, <1>10, <1>11, <1>12, Zenon DEF g

\* An insertion keeps an index consistent and changes the map at the one id.
LEMMA FlatInsertIs ==
    ASSUME NEW f \in FlatIndexes, FlatConsistent(f), NEW id \in Ids, NEW v \in Vectors
    PROVE  /\ FlatInsert(f, id, v) \in FlatIndexes /\ FlatConsistent(FlatInsert(f, id, v))
           /\ FlatInsert(f, id, v).metric = f.metric
           /\ FlatHas(FlatInsert(f, id, v), id)
           /\ FlatVector(FlatInsert(f, id, v), id) = Prepared(f.metric, v)
           /\ \A x \in Ids \ {id} : FlatHas(FlatInsert(f, id, v), x) = FlatHas(f, x)
                                    /\ FlatVector(FlatInsert(f, id, v), x) = FlatVector(f, x)
  BY FlatInsertOver, FlatInsertNew

-----------------------------------------------------------------------------
(* Deletion.                                                               *)

\* A deletion keeps an index consistent and takes the one id out of the map.
LEMMA FlatDeleteIs ==
    ASSUME NEW f \in FlatIndexes, FlatConsistent(f), NEW id \in Ids
    PROVE  /\ FlatDelete(f, id) \in FlatIndexes /\ FlatConsistent(FlatDelete(f, id))
           /\ FlatDelete(f, id).metric = f.metric
           /\ ~FlatHas(FlatDelete(f, id), id)
           /\ \A x \in Ids \ {id} : FlatHas(FlatDelete(f, id), x) = FlatHas(f, x)
                                    /\ FlatVector(FlatDelete(f, id), x) = FlatVector(f, x)
  <1> DEFINE pos == f.idToPos[id]
             e == [f.entries[pos] EXCEPT !.deleted = TRUE]
             g == FlatDelete(f, id)
             over == [f.entries EXCEPT ![pos] = e]
  <1>1. CASE ~FlatHas(f, id)
    BY <1>1 DEF FlatDelete
  <1>2. CASE FlatHas(f, id)
    <2>1. pos \in DOMAIN f.entries /\ f.entries[pos].id = id /\ ~f.entries[pos].deleted
      BY <1>2 DEF FlatConsistent, FlatHas
    <2>2. f.entries[pos] \in Entries
      BY <2>1, FlatParts
    <2>3. e \in Entries /\ e.id = id /\ e.deleted
      BY <2>1, <2>2 DEF Entries
    <2>4. g = [f EXCEPT !.entries = over, !.activeCount = f.activeCount - 1]
      BY <1>2 DEF FlatDelete
    <2>5. g.entries = over /\ g.idToPos = f.idToPos /\ g.activeCount = f.activeCount - 1 /\ g.metric = f.metric
      BY <2>4 DEF FlatIndexes
    <2>6. /\ over \in Seq(Entries) /\ DOMAIN over = DOMAIN f.entries
          /\ LiveIn(over) = LiveIn(f.entries) \ {pos}
      BY <2>3, <2>1, FlatParts, LiveOver, Zenon
    <2>7. over[pos] = e /\ \A i \in DOMAIN f.entries : i # pos => over[i] = f.entries[i]
      BY <2>1
    <2> HIDE DEF e, over, g
    <2>8. g \in FlatIndexes
      <3> HIDE DEF Entries
      <3>1. g = [entries |-> over, idToPos |-> f.idToPos, activeCount |-> f.activeCount - 1, metric |-> f.metric]
        BY <2>4 DEF FlatIndexes
      <3>2. f.activeCount - 1 \in Int
        BY FlatParts
      <3> QED BY <3>1, <3>2, <2>6, FlatParts DEF FlatIndexes
    <2>9. Cardinality(LiveIn(over)) = f.activeCount - 1
      <3>1. IsFiniteSet(LiveIn(f.entries)) /\ f.activeCount = Cardinality(LiveIn(f.entries))
        BY FlatParts, LiveFinite DEF FlatConsistent, LiveIn
      <3>2. pos \in LiveIn(f.entries)
        BY <2>1 DEF LiveIn
      <3> QED BY <3>1, <3>2, <2>6, FS_RemoveElement
    <2>10. FlatConsistent(g)
      <3>1. \A i \in DOMAIN g.entries : g.idToPos[g.entries[i].id] = i
        BY <2>1, <2>3, <2>5, <2>6, <2>7 DEF FlatConsistent
      <3>2. \A x \in Ids : g.idToPos[x] # 0 => g.idToPos[x] \in DOMAIN g.entries /\ g.entries[g.idToPos[x]].id = x
        BY <2>1, <2>3, <2>5, <2>6, <2>7 DEF FlatConsistent
      <3> QED BY <3>1, <3>2, <2>9, <2>5 DEF FlatConsistent, LiveIn
    <2>11. ~FlatHas(g, id)
      BY <2>3, <2>5, <2>7 DEF FlatHas
    <2>12. ASSUME NEW x \in Ids \ {id}
           PROVE  FlatHas(g, x) = FlatHas(f, x) /\ FlatVector(g, x) = FlatVector(f, x)
      <3>1. f.idToPos[x] # 0 => f.idToPos[x] \in DOMAIN f.entries /\ f.idToPos[x] # pos
        BY <2>1 DEF FlatConsistent
      <3>2. f.idToPos[x] # 0 => g.entries[g.idToPos[x]] = f.entries[f.idToPos[x]]
        BY <3>1, <2>5, <2>7
      <3> QED BY <3>2, <2>5, Zenon DEF FlatHas, FlatVector
    <2> QED BY <2>5, <2>8, <2>10, <2>11, <2>12, Zenon DEF g
  <1> QED BY <1>1, <1>2

-----------------------------------------------------------------------------
(* Creation and loading.                                                   *)

\* A new index holds nothing.
LEMMA FlatNewIs ==
    ASSUME NEW m \in Metrics
    PROVE  /\ NewFlat(m) \in FlatIndexes /\ FlatConsistent(NewFlat(m)) /\ NewFlat(m).metric = m
           /\ \A x \in Ids : ~FlatHas(NewFlat(m), x)
  <1>1. NewFlat(m) \in FlatIndexes
    <2> HIDE DEF Entries
    <2> QED BY DEF NewFlat, FlatIndexes
  <1>2. {i \in DOMAIN <<>> : ~<<>>[i].deleted} = {}
    OBVIOUS
  <1>3. FlatConsistent(NewFlat(m))
    BY <1>2, FS_EmptySet DEF NewFlat, FlatConsistent
  <1> QED BY <1>1, <1>3 DEF NewFlat, FlatHas

\* No id of a consistent index has two entries.
LEMMA EntriesUnique ==
    ASSUME NEW f \in FlatIndexes, FlatConsistent(f)
    PROVE  f.entries \in Seq(Entries) /\ Unique(f.entries)
  BY FlatParts DEF FlatConsistent, Unique

\* The position that loading gives to an id.
LEMMA LoadedPosition ==
    ASSUME NEW entries \in Seq(Entries), Unique(entries), NEW m, NEW i \in DOMAIN entries
    PROVE  FlatLoaded(entries, m).idToPos[entries[i].id] = i
  <1> DEFINE P(n) == n \in DOMAIN entries /\ entries[n].id = entries[i].id
                     /\ \A j \in DOMAIN entries : entries[j].id = entries[i].id => j <= n
  <1>0. DOMAIN entries \subseteq Int /\ entries[i].id \in Ids
    <2>1. entries[i] \in Entries /\ DOMAIN entries \subseteq Int
      <3> HIDE DEF Entries
      <3> QED OBVIOUS
    <2> QED BY <2>1, EntryParts
  <1>1. P(i)
    BY <1>0 DEF Unique
  <1>2. \A n : P(n) => n = i
    BY DEF Unique
  <1>3. (CHOOSE n \in DOMAIN entries : entries[n].id = entries[i].id
            /\ \A j \in DOMAIN entries : entries[j].id = entries[i].id => j <= n) = i
    BY <1>1, <1>2
  <1> QED BY <1>0, <1>3, Zenon DEF FlatLoaded

\* Loading a list without doubles gives a consistent index.
LEMMA FlatLoadedIs ==
    ASSUME NEW entries \in Seq(Entries), Unique(entries), NEW m \in Metrics
    PROVE  /\ FlatLoaded(entries, m) \in FlatIndexes /\ FlatConsistent(FlatLoaded(entries, m))
           /\ FlatLoaded(entries, m).metric = m /\ FlatLoaded(entries, m).entries = entries
  <1> DEFINE g == FlatLoaded(entries, m)
             has(x) == \E i \in DOMAIN entries : entries[i].id = x
  <1>1. g.entries = entries /\ g.metric = m /\ g.activeCount = Cardinality(LiveIn(entries))
    BY DEF FlatLoaded, LiveIn
  <1>2. \A x \in Ids : ~has(x) => g.idToPos[x] = 0
    BY DEF FlatLoaded
  <1>3. \A i \in DOMAIN entries : g.idToPos[entries[i].id] = i
    BY LoadedPosition
  <1>4. DOMAIN entries \subseteq Nat
    <2> HIDE DEF Entries
    <2> QED OBVIOUS
  <1>5. DOMAIN g.idToPos = Ids /\ g = [entries |-> entries, idToPos |-> g.idToPos,
                                       activeCount |-> g.activeCount, metric |-> m]
    BY DEF FlatLoaded
  <1>5a. g.idToPos = [x \in Ids |-> g.idToPos[x]]
    BY DEF FlatLoaded
  <1> HIDE DEF g
  <1>6. \A x \in Ids : g.idToPos[x] \in Nat
    <2> SUFFICES ASSUME NEW x \in Ids PROVE g.idToPos[x] \in Nat
      OBVIOUS
    <2>1. CASE has(x)
      <3>1. PICK i \in DOMAIN entries : entries[i].id = x
        BY <2>1
      <3> QED BY <3>1, <1>3, <1>4
    <2>2. CASE ~has(x)
      BY <2>2, <1>2
    <2> QED BY <2>1, <2>2
  <1>7. \A x \in Ids : g.idToPos[x] # 0 => g.idToPos[x] \in DOMAIN entries /\ entries[g.idToPos[x]].id = x
    BY <1>2, <1>3
  <1>8. Cardinality(LiveIn(entries)) \in Int
    BY LiveFinite
  <1>9. g \in FlatIndexes
    <2> HIDE DEF Entries
    <2>1. g.idToPos \in [Ids -> Nat]
      BY <1>5a, <1>6
    <2> QED BY <2>1, <1>1, <1>5, <1>8 DEF FlatIndexes
  <1>10. FlatConsistent(g)
    BY <1>1, <1>3, <1>7 DEF FlatConsistent, LiveIn
  <1> QED BY <1>1, <1>9, <1>10 DEF g

\* What is saved of a consistent index and loaded stands for the same map.
LEMMA FlatSavedIsLoaded ==
    ASSUME NEW f \in FlatIndexes, FlatConsistent(f), NEW m \in Metrics, NEW id \in Ids
    PROVE  /\ FlatHas(FlatLoaded(f.entries, m), id) = FlatHas(f, id)
           /\ FlatVector(FlatLoaded(f.entries, m), id) = FlatVector(f, id)
  <1> DEFINE g == FlatLoaded(f.entries, m)
  <1>1. f.entries \in Seq(Entries) /\ Unique(f.entries)
    BY EntriesUnique
  <1>2. g \in FlatIndexes /\ FlatConsistent(g) /\ g.entries = f.entries
    BY <1>1, FlatLoadedIs
  <1> HIDE DEF g
  <1>3. 0 \notin DOMAIN f.entries
    BY FlatParts
  <1>4. g.idToPos[id] = f.idToPos[id]
    BY <1>2, <1>3 DEF FlatConsistent
  <1> QED BY <1>2, <1>4, Zenon DEF FlatHas, FlatVector, g

\* What is not deleted in a consistent index has a vector that is kept.
LEMMA FlatVectorKept ==
    ASSUME NEW f \in FlatIndexes, FlatConsistent(f), NEW id \in Ids
    PROVE  FlatVector(f, id) \in Kept \cup {None} /\ (~FlatHas(f, id) => FlatVector(f, id) = None)
  BY FlatParts, EntryParts DEF FlatConsistent, FlatVector, FlatHas

-----------------------------------------------------------------------------
(* Search.                                                                 *)

\* What a search ranks: the documents that it has and that pass.
FoundIn(f, passing) == {id \in Ids \cap passing : FlatHas(f, id)}
KeyIn(f, query, S) == [id \in S |-> Distance(f.metric, Prepared(f.metric, query), FlatVector(f, id))]

\* A search of an index that has nothing finds nothing, one that nothing passes
\* panics, and any other ranks the documents that pass.
LEMMA FlatSearchIs ==
    ASSUME NEW f \in FlatIndexes, FlatConsistent(f), NEW query, NEW k \in Nat, NEW passing
    PROVE  /\ IsFiniteSet(FoundIn(f, passing))
           /\ (\A id \in Ids : ~FlatHas(f, id)) => FlatSearch(f, query, k, passing) = {<<>>}
           /\ (\E id \in Ids : FlatHas(f, id)) /\ FoundIn(f, passing) = {} =>
                  FlatSearch(f, query, k, passing) = {Panic}
           /\ FoundIn(f, passing) # {} =>
                  FlatSearch(f, query, k, passing) = Ranked(FoundIn(f, passing), KeyIn(f, query, FoundIn(f, passing)), k)
  <1> DEFINE hits == {i \in DOMAIN f.entries : ~f.entries[i].deleted /\ f.entries[i].id \in passing}
             distance == [i \in hits |-> Distance(f.metric, Prepared(f.metric, query), f.entries[i].vector)]
             found == FoundIn(f, passing)
             key == KeyIn(f, query, found)
             e == [i \in hits |-> f.entries[i].id]
             live == LiveIn(f.entries)
  <1>1. /\ DOMAIN f.entries = 1 .. Len(f.entries) /\ Len(f.entries) \in Nat
        /\ \A i \in DOMAIN f.entries : f.entries[i].id \in Ids /\ f.idToPos[f.entries[i].id] = i /\ i # 0
        /\ \A id \in Ids : f.idToPos[id] # 0 => f.idToPos[id] \in DOMAIN f.entries /\ f.entries[f.idToPos[id]].id = id
    <2>1. \A i \in DOMAIN f.entries : f.entries[i].id \in Ids
      BY FlatParts, EntryParts
    <2>2. DOMAIN f.entries = 1 .. Len(f.entries) /\ Len(f.entries) \in Nat
      BY FlatParts
    <2> QED BY <2>1, <2>2 DEF FlatConsistent
  <1>2. \A i \in DOMAIN f.entries : FlatHas(f, f.entries[i].id) <=> ~f.entries[i].deleted
    BY <1>1 DEF FlatHas
  <1>3. \A i \in hits : e[i] \in found /\ FlatVector(f, e[i]) = f.entries[i].vector
    <2> SUFFICES ASSUME NEW i \in hits PROVE e[i] \in found /\ FlatVector(f, e[i]) = f.entries[i].vector
      OBVIOUS
    <2>1. i \in DOMAIN f.entries /\ f.entries[i].id \in passing /\ e[i] = f.entries[i].id /\ ~f.entries[i].deleted
      OBVIOUS
    <2>2. FlatHas(f, e[i]) /\ f.idToPos[e[i]] = i /\ e[i] \in Ids
      BY <1>1, <1>2, <2>1
    <2> HIDE DEF e, hits
    <2>3. e[i] \in found
      BY <2>1, <2>2 DEF FoundIn
    <2> QED BY <2>2, <2>3 DEF FlatVector
  <1>4. \A x \in found : f.idToPos[x] \in hits /\ e[f.idToPos[x]] = x
    <2> SUFFICES ASSUME NEW x \in found PROVE f.idToPos[x] \in hits /\ e[f.idToPos[x]] = x
      OBVIOUS
    <2>1. x \in Ids /\ x \in passing /\ f.idToPos[x] # 0 /\ ~f.entries[f.idToPos[x]].deleted
      BY DEF FoundIn, FlatHas
    <2> QED BY <1>1, <2>1
  <1>5. \A i, j \in hits : e[i] = e[j] => i = j
    BY <1>1
  <1>6. IsFiniteSet(hits) /\ IsFiniteSet(live) /\ hits \in SUBSET live
    <2>1. hits \in SUBSET (1 .. Len(f.entries)) /\ live \in SUBSET (1 .. Len(f.entries)) /\ hits \in SUBSET live
      BY <1>1 DEF LiveIn
    <2>2. IsFiniteSet(1 .. Len(f.entries))
      BY <1>1, FS_Interval
    <2> HIDE DEF hits, live
    <2> QED BY <2>1, <2>2, FS_Subset
  <1>7. f.activeCount = Cardinality(live)
    BY DEF FlatConsistent, LiveIn
  <1>8. f.activeCount = 0 <=> live = {}
    <2> HIDE DEF live
    <2> QED BY <1>6, <1>7, FS_EmptySet
  <1>9. FlatSearch(f, query, k, passing) =
            IF f.activeCount = 0 THEN {<<>>}
            ELSE IF hits = {} THEN {Panic}
            ELSE {[j \in DOMAIN r |-> f.entries[r[j]].id] : r \in Ranked(hits, distance, k)}
    BY Zenon DEF FlatSearch
  <1>10. (\A id \in Ids : ~FlatHas(f, id)) <=> live = {}
    <2>1. live = {} => \A id \in Ids : ~FlatHas(f, id)
      BY <1>1 DEF FlatHas, LiveIn
    <2>2. (\A id \in Ids : ~FlatHas(f, id)) => live = {}
      BY <1>1, <1>2 DEF LiveIn
    <2> QED BY <2>1, <2>2
  <1>11. hits = {} <=> found = {}
    <2> HIDE DEF hits, found
    <2> QED BY <1>3, <1>4
  <1>12. \A i \in hits : distance[i] = key[e[i]]
    <2> SUFFICES ASSUME NEW i \in hits PROVE distance[i] = key[e[i]]
      OBVIOUS
    <2>1. distance[i] = Distance(f.metric, Prepared(f.metric, query), f.entries[i].vector)
      BY Zenon
    <2>2. e[i] \in found /\ FlatVector(f, e[i]) = f.entries[i].vector
      BY <1>3
    <2> HIDE DEF distance, e, hits, found
    <2>3. key[e[i]] = Distance(f.metric, Prepared(f.metric, query), FlatVector(f, e[i]))
      BY <2>2, Zenon DEF KeyIn
    <2> QED BY <2>1, <2>2, <2>3
  <1>13. e \in [hits -> found]
    <2>1. e = [i \in hits |-> e[i]]
      OBVIOUS
    <2> HIDE DEF hits, e, found
    <2> QED BY <1>3, <2>1
  <1>14. {[j \in DOMAIN r |-> f.entries[r[j]].id] : r \in Ranked(hits, distance, k)} = Ranked(found, key, k)
    <2> DEFINE n == Least(k, Cardinality(hits))
    <2>1. \A r \in Ranked(hits, distance, k) : [j \in DOMAIN r |-> f.entries[r[j]].id] = [j \in DOMAIN r |-> e[r[j]]]
      <3> SUFFICES ASSUME NEW r \in Ranked(hits, distance, k)
                   PROVE  [j \in DOMAIN r |-> f.entries[r[j]].id] = [j \in DOMAIN r |-> e[r[j]]]
        OBVIOUS
      <3>1. \A i \in hits : e[i] = f.entries[i].id
        OBVIOUS
      <3> HIDE DEF hits, e, distance
      <3>2. r \in [1 .. n -> hits]
        BY <1>6, RankedIs
      <3> QED BY <3>1, <3>2
    <2> HIDE DEF hits, e, distance, found, key
    <2>2. {[j \in DOMAIN r |-> e[r[j]]] : r \in Ranked(hits, distance, k)} = Ranked(found, key, k)
      <3>1. \A x \in found : \E i \in hits : e[i] = x
        BY <1>4
      <3> QED BY <3>1, <1>5, <1>6, <1>12, <1>13, RankedAlong
    <2> QED BY <2>1, <2>2
  <1>15. IsFiniteSet(found)
    <2>1. \A x \in found : \E i \in hits : e[i] = x
      BY <1>4
    <2> HIDE DEF hits, e, found
    <2>2. e \in Surjection(hits, found)
      BY <2>1, <1>13 DEF Surjection
    <2> QED BY <2>2, <1>6, FS_Surjection
  <1> HIDE DEF hits, distance, live, found, key
  <1>16. found # {} => live # {}
    BY <1>6, <1>11
  <1>17. /\ live = {} => FlatSearch(f, query, k, passing) = {<<>>}
         /\ live # {} /\ found = {} => FlatSearch(f, query, k, passing) = {Panic}
         /\ found # {} => FlatSearch(f, query, k, passing) = Ranked(found, key, k)
    BY <1>8, <1>9, <1>11, <1>14, <1>16, Zenon
  <1> QED BY <1>10, <1>15, <1>17, Zenon DEF found, key

-----------------------------------------------------------------------------
(* The full-text index.                                                    *)

HeldInText(t) == {id \in Ids : InvertedHas(t, id)}

LEMMA InvertedParts ==
    ASSUME NEW t \in InvertedIndexes
    PROVE  /\ t.postings \in [Terms -> SUBSET Postings]
           /\ t.docLengths \in [Ids -> Nat]
           /\ t.totalLength \in Nat /\ t.numDocs \in Nat
  BY DEF InvertedIndexes

LEMMA PostingParts ==
    ASSUME NEW t \in InvertedIndexes, NEW w \in Terms, NEW p \in t.postings[w]
    PROVE  p[1] \in Ids /\ p[2] \in Nat \ {0} /\ p = <<p[1], p[2]>>
  <1>1. p \in Postings
    BY InvertedParts
  <1> QED BY <1>1 DEF Postings

LEMMA SaturatingSubIs ==
    ASSUME NEW m \in Nat, NEW n \in Nat
    PROVE  SaturatingSub(m, n) \in Nat /\ (n <= m => SaturatingSub(m, n) = m - n)
  BY DEF SaturatingSub

\* A term of a text occurs in it at least once.
LEMMA FrequencyPositive ==
    ASSUME NEW tokens \in Seq(Terms), NEW i \in DOMAIN tokens
    PROVE  Frequency(tokens, tokens[i]) \in Nat \ {0}
  <1> DEFINE S == {j \in DOMAIN tokens : tokens[j] = tokens[i]}
  <1>1. IsFiniteSet(1 .. Len(tokens)) /\ S \in SUBSET (1 .. Len(tokens))
    BY FS_Interval
  <1>2. IsFiniteSet(S) /\ S # {}
    BY <1>1, FS_Subset
  <1>3. Cardinality(S) \in Nat /\ Cardinality(S) # 0
    BY <1>2, FS_CardinalityType, FS_EmptySet
  <1> QED BY <1>3 DEF Frequency

-----------------------------------------------------------------------------
(* Creation and deletion.                                                  *)

\* A new index has no document.
LEMMA InvertedNewIs ==
    /\ NewInverted \in InvertedIndexes /\ InvertedConsistent(NewInverted)
    /\ \A x \in Ids : ~InvertedHas(NewInverted, x)
  <1>1. NewInverted \in InvertedIndexes
    BY DEF NewInverted, InvertedIndexes
  <1>2. \A x \in Ids : ~InvertedHas(NewInverted, x)
    BY DEF NewInverted, InvertedHas
  <1>3. {x \in Ids : InvertedHas(NewInverted, x)} = {}
    BY <1>2
  <1>4. InvertedConsistent(NewInverted)
    <2>1. NewInverted.numDocs = 0 /\ \A w \in Terms : NewInverted.postings[w] = {}
      BY DEF NewInverted
    <2> QED BY <2>1, <1>3, FS_EmptySet DEF InvertedConsistent
  <1> QED BY <1>1, <1>2, <1>4

\* A deletion takes the postings and the length of the one document away.
LEMMA InvertedDeleteIs ==
    ASSUME IsFiniteSet(Ids), NEW t \in InvertedIndexes, InvertedConsistent(t), NEW id \in Ids
    PROVE  /\ InvertedDelete(t, id) \in InvertedIndexes /\ InvertedConsistent(InvertedDelete(t, id))
           /\ ~InvertedHas(InvertedDelete(t, id), id)
           /\ \A x \in Ids \ {id} : InvertedHas(InvertedDelete(t, id), x) = InvertedHas(t, x)
           /\ \A w \in Terms : \A p \in InvertedDelete(t, id).postings[w] : p[1] # id
  <1> DEFINE d == InvertedDelete(t, id)
             postings == [w \in Terms |-> {p \in t.postings[w] : p[1] # id}]
             lengths == [t.docLengths EXCEPT ![id] = 0]
  <1>1. CASE ~InvertedHas(t, id)
    <2>1. d = t
      BY <1>1 DEF InvertedDelete
    <2>2. \A w \in Terms : \A p \in t.postings[w] : p[1] # id
      BY <1>1 DEF InvertedConsistent
    <2> QED BY <2>1, <2>2, <1>1
  <1>2. CASE InvertedHas(t, id)
    <2>1. d = [postings |-> postings, docLengths |-> lengths,
               totalLength |-> SaturatingSub(t.totalLength, t.docLengths[id]),
               numDocs |-> SaturatingSub(t.numDocs, 1)]
      BY <1>2 DEF InvertedDelete
    <2>2. d.postings = postings /\ d.docLengths = lengths /\ d.numDocs = SaturatingSub(t.numDocs, 1)
      BY <2>1
    <2>3. postings \in [Terms -> SUBSET Postings]
      BY InvertedParts
    <2>4. lengths \in [Ids -> Nat] /\ lengths[id] = 0 /\ \A x \in Ids \ {id} : lengths[x] = t.docLengths[x]
      BY InvertedParts
    <2>5. SaturatingSub(t.totalLength, t.docLengths[id]) \in Nat /\ SaturatingSub(t.numDocs, 1) \in Nat
      BY InvertedParts, SaturatingSubIs
    <2>6. \A w \in Terms : postings[w] = {p \in t.postings[w] : p[1] # id}
      OBVIOUS
    <2> HIDE DEF d, postings, lengths
    <2>7. d \in InvertedIndexes
      BY <2>1, <2>3, <2>4, <2>5 DEF InvertedIndexes
    <2>8. ~InvertedHas(d, id) /\ \A x \in Ids \ {id} : InvertedHas(d, x) = InvertedHas(t, x)
      BY <2>2, <2>4 DEF InvertedHas
    <2>9. \A w \in Terms : \A p \in d.postings[w] : p \in t.postings[w] /\ p[1] # id
      BY <2>2, <2>6
    <2>10. \A w \in Terms : \A p, q \in d.postings[w] : InvertedHas(d, p[1]) /\ (p[1] = q[1] => p = q)
      <3> SUFFICES ASSUME NEW w \in Terms, NEW p \in d.postings[w], NEW q \in d.postings[w]
                   PROVE  InvertedHas(d, p[1]) /\ (p[1] = q[1] => p = q)
        OBVIOUS
      <3>1. p[1] \in Ids \ {id} /\ InvertedHas(t, p[1])
        BY <2>9, PostingParts DEF InvertedConsistent
      <3>2. p[1] = q[1] => p = q
        BY <2>9 DEF InvertedConsistent
      <3> QED BY <3>1, <3>2, <2>8
    <2>11. d.numDocs = Cardinality(HeldInText(d))
      <3>1. HeldInText(d) = HeldInText(t) \ {id} /\ id \in HeldInText(t)
        BY <2>8, <1>2 DEF HeldInText
      <3>2. IsFiniteSet(HeldInText(t)) /\ Cardinality(HeldInText(t)) = t.numDocs
        BY FS_Subset DEF HeldInText, InvertedConsistent
      <3>3. Cardinality(HeldInText(d)) = t.numDocs - 1 /\ t.numDocs # 0
        BY <3>1, <3>2, FS_RemoveElement, FS_EmptySet
      <3> QED BY <3>3, <2>2, InvertedParts, SaturatingSubIs
    <2> QED BY <2>7, <2>8, <2>9, <2>10, <2>11 DEF InvertedConsistent, HeldInText, d
  <1> QED BY <1>1, <1>2

-----------------------------------------------------------------------------
(* Insertion.                                                              *)

\* An insertion gives the document one posting for each of its terms.
LEMMA InvertedInsertIs ==
    ASSUME IsFiniteSet(Ids), NEW t \in InvertedIndexes, InvertedConsistent(t), NEW id \in Ids,
           NEW tokens \in Seq(Terms)
    PROVE  /\ InvertedInsert(t, id, tokens) \in InvertedIndexes
           /\ InvertedConsistent(InvertedInsert(t, id, tokens))
           /\ \A x \in Ids \ {id} : InvertedHas(InvertedInsert(t, id, tokens), x) = InvertedHas(t, x)
  <1> DEFINE d == InvertedDelete(t, id)
             g == InvertedInsert(t, id, tokens)
             terms == {tokens[i] : i \in DOMAIN tokens}
             own(w) == IF w \in terms THEN {<<id, Frequency(tokens, w)>>} ELSE {}
             postings == [w \in Terms |-> d.postings[w] \cup own(w)]
             lengths == [d.docLengths EXCEPT ![id] = Len(tokens)]
  <1>1. /\ d \in InvertedIndexes /\ InvertedConsistent(d) /\ ~InvertedHas(d, id)
        /\ \A x \in Ids \ {id} : InvertedHas(d, x) = InvertedHas(t, x)
        /\ \A w \in Terms : \A p \in d.postings[w] : p[1] # id
    BY InvertedDeleteIs
  <1>2. CASE tokens = <<>>
    BY <1>1, <1>2 DEF InvertedInsert
  <1>3. CASE tokens # <<>>
    <2>1. g = [postings |-> postings, docLengths |-> lengths,
               totalLength |-> d.totalLength + Len(tokens), numDocs |-> d.numDocs + 1]
      BY <1>3 DEF InvertedInsert
    <2>2. g.postings = postings /\ g.docLengths = lengths /\ g.numDocs = d.numDocs + 1
      BY <2>1
    <2>3. \A w \in Terms : own(w) \in SUBSET Postings /\ \A p \in own(w) : p = <<id, Frequency(tokens, w)>>
      <3> SUFFICES ASSUME NEW w \in Terms, w \in terms
                   PROVE  <<id, Frequency(tokens, w)>> \in Postings
        OBVIOUS
      <3>1. Frequency(tokens, w) \in Nat \ {0}
        BY FrequencyPositive
      <3> QED BY <3>1 DEF Postings
    <2> HIDE DEF d, own
    <2>4. postings \in [Terms -> SUBSET Postings]
      BY <1>1, <2>3, InvertedParts
    <2>5. Len(tokens) \in Nat \ {0}
      BY <1>3
    <2>6. lengths \in [Ids -> Nat] /\ lengths[id] = Len(tokens) /\ \A x \in Ids \ {id} : lengths[x] = d.docLengths[x]
      BY <1>1, <2>5, InvertedParts
    <2>7. \A w \in Terms : postings[w] = d.postings[w] \cup own(w)
      OBVIOUS
    <2> HIDE DEF postings, lengths, g
    <2>8. d.totalLength + Len(tokens) \in Nat /\ d.numDocs + 1 \in Nat
      BY <1>1, <2>5, InvertedParts
    <2>9. g \in InvertedIndexes
      BY <2>1, <2>4, <2>6, <2>8 DEF InvertedIndexes
    <2>10. InvertedHas(g, id) /\ \A x \in Ids \ {id} : InvertedHas(g, x) = InvertedHas(d, x)
      BY <2>2, <2>5, <2>6 DEF InvertedHas
    <2>11. \A w \in Terms : \A p \in g.postings[w] :
              (p \in d.postings[w] /\ p[1] # id) \/ p = <<id, Frequency(tokens, w)>>
      BY <1>1, <2>2, <2>3, <2>7
    <2>12. \A w \in Terms : \A p, q \in g.postings[w] : InvertedHas(g, p[1]) /\ (p[1] = q[1] => p = q)
      <3> SUFFICES ASSUME NEW w \in Terms, NEW p \in g.postings[w], NEW q \in g.postings[w]
                   PROVE  InvertedHas(g, p[1]) /\ (p[1] = q[1] => p = q)
        OBVIOUS
      <3>1. CASE p = <<id, Frequency(tokens, w)>>
        BY <3>1, <2>10, <2>11
      <3>2. CASE p \in d.postings[w] /\ p[1] # id
        <4>1. p[1] \in Ids \ {id} /\ InvertedHas(d, p[1])
          BY <3>2, <1>1, PostingParts DEF InvertedConsistent
        <4>2. q \in d.postings[w] => (p[1] = q[1] => p = q)
          BY <3>2, <1>1 DEF InvertedConsistent
        <4> QED BY <4>1, <4>2, <3>2, <2>10, <2>11
      <3> QED BY <3>1, <3>2, <2>11
    <2>13. g.numDocs = Cardinality(HeldInText(g))
      <3>1. HeldInText(g) = HeldInText(d) \cup {id} /\ id \notin HeldInText(d)
        BY <2>10, <1>1 DEF HeldInText
      <3>2. IsFiniteSet(HeldInText(d)) /\ Cardinality(HeldInText(d)) = d.numDocs
        BY <1>1, FS_Subset DEF HeldInText, InvertedConsistent
      <3> QED BY <3>1, <3>2, <2>2, FS_AddElement
    <2> QED BY <1>1, <2>9, <2>10, <2>12, <2>13 DEF InvertedConsistent, HeldInText, g
  <1> QED BY <1>2, <1>3

-----------------------------------------------------------------------------
(* How often a term is in a document.                                      *)

\* The frequency is that of the posting.
LEMMA FrequencyIs ==
    ASSUME NEW t, InvertedConsistent(t), NEW w \in Terms, NEW p \in t.postings[w], NEW x, p[1] = x
    PROVE  FrequencyIn(t, w, x) = p[2]
  <1>1. \A q \in t.postings[w] : q[1] = x => q = p
    BY DEF InvertedConsistent
  <1>2. (CHOOSE q \in t.postings[w] : q[1] = x) = p
    BY <1>1
  <1> QED BY <1>2 DEF FrequencyIn

LEMMA FrequencyZero ==
    ASSUME NEW t, NEW w, NEW x, \A p \in t.postings[w] : p[1] # x
    PROVE  FrequencyIn(t, w, x) = 0
  BY DEF FrequencyIn

\* What an index does not have has no term.
LEMMA FrequencyOfMissing ==
    ASSUME NEW t \in InvertedIndexes, InvertedConsistent(t), NEW x \in Ids, ~InvertedHas(t, x), NEW w \in Terms
    PROVE  FrequencyIn(t, w, x) = 0
  <1>1. \A p \in t.postings[w] : p[1] # x
    BY DEF InvertedConsistent
  <1> QED BY <1>1, FrequencyZero

\* Indexes with the same postings of a document have its terms alike.
LEMMA FrequencyAlike ==
    ASSUME NEW s, InvertedConsistent(s), NEW t, InvertedConsistent(t), NEW w \in Terms, NEW x,
           \A p : p[1] = x => (p \in s.postings[w] <=> p \in t.postings[w])
    PROVE  FrequencyIn(s, w, x) = FrequencyIn(t, w, x)
  <1>1. CASE \E p \in s.postings[w] : p[1] = x
    <2>1. PICK p \in s.postings[w] : p[1] = x
      BY <1>1
    <2>2. p \in t.postings[w]
      BY <2>1
    <2> QED BY <2>1, <2>2, FrequencyIs
  <1>2. CASE ~ \E p \in s.postings[w] : p[1] = x
    <2>1. \A p \in s.postings[w] : p[1] # x
      BY <1>2
    <2>2. \A p \in t.postings[w] : p[1] # x
      BY <2>1
    <2> QED BY <2>1, <2>2, FrequencyZero
  <1> QED BY <1>1, <1>2

\* A deletion takes the terms of the one document away.
LEMMA DeletedFrequencies ==
    ASSUME IsFiniteSet(Ids), NEW t \in InvertedIndexes, InvertedConsistent(t), NEW id \in Ids, NEW w \in Terms
    PROVE  /\ FrequencyIn(InvertedDelete(t, id), w, id) = 0
           /\ \A x \in Ids \ {id} : FrequencyIn(InvertedDelete(t, id), w, x) = FrequencyIn(t, w, x)
  <1> DEFINE d == InvertedDelete(t, id)
  <1>1. InvertedConsistent(d) /\ \A p \in d.postings[w] : p[1] # id
    BY InvertedDeleteIs
  <1>2. \A x \in Ids \ {id} : \A p : p[1] = x => (p \in d.postings[w] <=> p \in t.postings[w])
    BY DEF InvertedDelete
  <1> HIDE DEF d
  <1>3. FrequencyIn(d, w, id) = 0
    BY <1>1, FrequencyZero
  <1>4. ASSUME NEW x \in Ids \ {id} PROVE FrequencyIn(d, w, x) = FrequencyIn(t, w, x)
    <2>1. \A p : p[1] = x => (p \in d.postings[w] <=> p \in t.postings[w])
      BY <1>2
    <2> QED BY <1>1, <2>1, FrequencyAlike
  <1> QED BY <1>3, <1>4 DEF d

\* A term that is not in a text occurs in it no time.
LEMMA FrequencyNone ==
    ASSUME NEW tokens, NEW w, \A i \in DOMAIN tokens : tokens[i] # w
    PROVE  Frequency(tokens, w) = 0
  <1>1. {i \in DOMAIN tokens : tokens[i] = w} = {}
    OBVIOUS
  <1> QED BY <1>1, FS_EmptySet DEF Frequency

\* An insertion gives the document the frequencies of its text.
LEMMA InsertedFrequencies ==
    ASSUME IsFiniteSet(Ids), NEW t \in InvertedIndexes, InvertedConsistent(t), NEW id \in Ids,
           NEW tokens \in Seq(Terms), NEW w \in Terms
    PROVE  /\ FrequencyIn(InvertedInsert(t, id, tokens), w, id) = Frequency(tokens, w)
           /\ \A x \in Ids \ {id} : FrequencyIn(InvertedInsert(t, id, tokens), w, x) = FrequencyIn(t, w, x)
  <1> DEFINE d == InvertedDelete(t, id)
             g == InvertedInsert(t, id, tokens)
             terms == {tokens[i] : i \in DOMAIN tokens}
             own == IF w \in terms THEN {<<id, Frequency(tokens, w)>>} ELSE {}
  <1>1. InvertedConsistent(g) /\ InvertedConsistent(d) /\ \A p \in d.postings[w] : p[1] # id
    BY InvertedInsertIs, InvertedDeleteIs
  <1>2. /\ FrequencyIn(d, w, id) = 0
        /\ \A x \in Ids \ {id} : FrequencyIn(d, w, x) = FrequencyIn(t, w, x)
    BY DeletedFrequencies
  <1>3. CASE tokens = <<>>
    <2>1. g = d
      BY <1>3 DEF InvertedInsert
    <2>2. Frequency(tokens, w) = 0
      BY <1>3, FrequencyNone
    <2> HIDE DEF d, g
    <2>3. FrequencyIn(g, w, id) = Frequency(tokens, w) /\ \A x \in Ids \ {id} : FrequencyIn(g, w, x) = FrequencyIn(t, w, x)
      BY <1>2, <2>1, <2>2
    <2> QED BY <2>3 DEF g
  <1>4. CASE tokens # <<>>
    <2>1. g.postings[w] = d.postings[w] \cup own
      BY <1>4 DEF InvertedInsert
    <2> HIDE DEF d, g
    <2>2. FrequencyIn(g, w, id) = Frequency(tokens, w)
      <3>1. CASE w \in terms
        <4>1. <<id, Frequency(tokens, w)>> \in g.postings[w]
          BY <2>1, <3>1
        <4> QED BY <4>1, <1>1, FrequencyIs
      <3>2. CASE w \notin terms
        <4>1. \A p \in g.postings[w] : p[1] # id
          BY <1>1, <2>1, <3>2
        <4>2. Frequency(tokens, w) = 0
          BY <3>2, FrequencyNone
        <4> QED BY <4>1, <4>2, FrequencyZero
      <3> QED BY <3>1, <3>2
    <2>3. \A x \in Ids \ {id} : FrequencyIn(g, w, x) = FrequencyIn(d, w, x)
      <3> SUFFICES ASSUME NEW x \in Ids \ {id} PROVE FrequencyIn(g, w, x) = FrequencyIn(d, w, x)
        OBVIOUS
      <3>1. \A p : p[1] = x => (p \in g.postings[w] <=> p \in d.postings[w])
        BY <2>1
      <3> QED BY <3>1, <1>1, FrequencyAlike
    <2>4. FrequencyIn(g, w, id) = Frequency(tokens, w) /\ \A x \in Ids \ {id} : FrequencyIn(g, w, x) = FrequencyIn(t, w, x)
      BY <1>2, <2>2, <2>3
    <2> QED BY <2>4 DEF g
  <1> QED BY <1>3, <1>4

-----------------------------------------------------------------------------
(* Sums over finite functions.                                             *)

Total(f) == FoldFunction(+, 0, f)

\* The element that a fold takes out of a set.
Element(s) == CHOOSE x \in s : TRUE

\* The sums of f over all subsets of S, each by way of one with an element less.
AddElement(f, S, sums) == [s \in SUBSET S |-> IF s = {} THEN 0 ELSE f[Element(s)] + sums[s \ {Element(s)}]]

\* Without it the set is smaller by one.
LEMMA ElementLess ==
    ASSUME NEW S, IsFiniteSet(S), NEW s \in SUBSET S, s # {}
    PROVE  /\ Element(s) \in s /\ Element(s) \in S /\ s \ {Element(s)} \in SUBSET S
           /\ Cardinality(s) \in Nat /\ Cardinality(s \ {Element(s)}) = Cardinality(s) - 1
  <1>1. Element(s) \in s
    BY DEF Element
  <1>2. IsFiniteSet(s)
    BY FS_Subset
  <1> QED BY <1>1, <1>2, FS_CardinalityType, FS_RemoveElement

\* What holds of the empty set and is kept by adding an element holds of every
\* finite set.
LEMMA SubsetSteps ==
    ASSUME NEW S, IsFiniteSet(S), NEW T, {} \in T,
           \A s \in SUBSET S : s # {} /\ s \ {Element(s)} \in T => s \in T
    PROVE  \A s \in SUBSET S : s \in T
  <1> DEFINE Q == {n \in 0 .. Cardinality(S) : \A s \in SUBSET S : Cardinality(s) <= n => s \in T}
  <1>1. Cardinality(S) \in Nat /\ \A s \in SUBSET S : IsFiniteSet(s) /\ Cardinality(s) \in Nat /\ Cardinality(s) <= Cardinality(S)
    BY FS_CardinalityType, FS_Subset
  <1>2. 0 \in Q
    <2>1. \A s \in SUBSET S : Cardinality(s) <= 0 => s = {}
      BY <1>1, FS_EmptySet
    <2> QED BY <1>1, <2>1
  <1>3. \A n \in 0 .. Cardinality(S) : n \in Q /\ n < Cardinality(S) => n + 1 \in Q
    <2> SUFFICES ASSUME NEW n \in 0 .. Cardinality(S), n \in Q, n < Cardinality(S) PROVE n + 1 \in Q
      OBVIOUS
    <2>1. ASSUME NEW s \in SUBSET S, Cardinality(s) <= n + 1 PROVE s \in T
      <3>1. CASE s = {}
        BY <3>1
      <3>2. CASE s # {}
        <4>1. s \ {Element(s)} \in SUBSET S /\ Cardinality(s) \in Nat /\ Cardinality(s \ {Element(s)}) = Cardinality(s) - 1
          BY <3>2, ElementLess
        <4>2. Cardinality(s \ {Element(s)}) <= n
          BY <4>1, <2>1
        <4>3. s \ {Element(s)} \in T
          BY <4>1, <4>2
        <4> QED BY <3>2, <4>3
      <3> QED BY <3>1, <3>2
    <2> QED BY <1>1, <2>1
  <1> HIDE DEF Q
  <1>4. Cardinality(S) \in Q
    <2>1. \A n \in 0 .. Cardinality(S) : n \in Q
      BY <1>1, <1>2, <1>3, Steps
    <2> QED BY <1>1, <2>1
  <1> QED BY <1>1, <1>4 DEF Q

\* There are such sums.
LEMMA SumsExist ==
    ASSUME NEW S, IsFiniteSet(S), NEW f \in [S -> Nat]
    PROVE  \E sums : sums = AddElement(f, S, sums)
  <1> DEFINE N == Cardinality(S)
             V == [SUBSET S -> Nat]
             W == [n \in 0 .. N + 1 |-> V]
             first == [s \in SUBSET S |-> 0]
             step == [n \in 0 .. N + 1 |-> [x \in V |-> AddElement(f, S, x)]]
  <1>1. N \in Nat /\ N + 1 \in Nat /\ \A s \in SUBSET S : Cardinality(s) \in Nat /\ Cardinality(s) <= N
    BY FS_CardinalityType, FS_Subset
  <1>2. \A x \in V : AddElement(f, S, x) \in V
    <2> SUFFICES ASSUME NEW x \in V PROVE AddElement(f, S, x) \in V
      OBVIOUS
    <2>1. ASSUME NEW s \in SUBSET S, s # {} PROVE f[Element(s)] + x[s \ {Element(s)}] \in Nat
      <3>1. Element(s) \in S /\ s \ {Element(s)} \in SUBSET S
        BY <2>1, ElementLess
      <3>2. f[Element(s)] \in Nat /\ x[s \ {Element(s)}] \in Nat
        BY <3>1
      <3> QED BY <3>2
    <2> QED BY <2>1 DEF AddElement
  <1>3. PICK F : Iterates(F, 0, N + 1, first, step) /\ \A n \in 0 .. N + 1 : F[n] \in W[n]
    <2>1. first \in W[0]
      BY <1>1
    <2>2. \A n \in 0 .. N + 1 : W[n] = V /\ (n # 0 => W[n - 1] = V) /\ \A x \in V : step[n][x] = AddElement(f, S, x)
      <3> HIDE DEF V, N
      <3> QED BY <1>1
    <2>3. \A n \in 0 .. N + 1 : n # 0 => \A x \in W[n - 1] : step[n][x] \in W[n]
      <3> HIDE DEF V, N, W, step
      <3> QED BY <1>2, <2>2
    <2> HIDE DEF N, W, step, first
    <2> QED BY <1>1, <2>1, <2>3, IteratedWithin
  <1>4. F[0] = first /\ \A n \in 0 .. N : F[n] \in V /\ F[n + 1] \in V /\ F[n + 1] = AddElement(f, S, F[n])
    <2>1. \A n \in 0 .. N + 1 : F[n] = IF n = 0 THEN first ELSE step[n][F[n - 1]]
      <3> HIDE DEF step, first, N
      <3> QED BY <1>3 DEF Iterates
    <2>2. \A n \in 0 .. N + 1 : F[n] \in V
      BY <1>3
    <2>3. \A n \in 0 .. N : n + 1 \in 0 .. N + 1 /\ n \in 0 .. N + 1 /\ n + 1 # 0 /\ (n + 1) - 1 = n
      BY <1>1
    <2>4. \A n \in 0 .. N + 1, x \in V : step[n][x] = AddElement(f, S, x)
      OBVIOUS
    <2> HIDE DEF step, first, N, V
    <2>5. F[0] = first
      BY <1>1, <2>1
    <2>6. ASSUME NEW n \in 0 .. N PROVE F[n] \in V /\ F[n + 1] \in V /\ F[n + 1] = AddElement(f, S, F[n])
      <3>1. F[n + 1] = step[n + 1][F[n]]
        BY <2>1, <2>3
      <3> QED BY <3>1, <2>2, <2>3, <2>4
    <2> QED BY <2>5, <2>6
  <1> DEFINE Q == {n \in 0 .. N : \A s \in SUBSET S : Cardinality(s) <= n => F[n + 1][s] = F[n][s]}
  <1> HIDE DEF V, W, step, N
  <1>5. ASSUME NEW n \in 0 .. N, NEW s \in SUBSET S
        PROVE  F[n + 1][s] = IF s = {} THEN 0 ELSE f[Element(s)] + F[n][s \ {Element(s)}]
    <2>1. F[n + 1] = AddElement(f, S, F[n])
      BY <1>4
    <2> QED BY <2>1 DEF AddElement
  <1>6. 0 \in Q
    <2>1. \A s \in SUBSET S : Cardinality(s) <= 0 => s = {}
      BY <1>1, FS_EmptySet, FS_Subset
    <2>2. F[0 + 1][{}] = 0 /\ F[0][{}] = 0
      <3>1. 0 \in 0 .. N /\ {} \in SUBSET S
        BY <1>1
      <3>2. F[0][{}] = 0
        BY <1>4, <3>1 DEF first
      <3> QED BY <1>5, <3>1, <3>2
    <2> QED BY <1>1, <2>1, <2>2
  <1>7. \A n \in 0 .. N : n \in Q /\ n < N => n + 1 \in Q
    <2> SUFFICES ASSUME NEW n \in 0 .. N, n \in Q, n < N PROVE n + 1 \in Q
      OBVIOUS
    <2>1. n + 1 \in 0 .. N
      BY <1>1
    <2>2. ASSUME NEW s \in SUBSET S, Cardinality(s) <= n + 1 PROVE F[(n + 1) + 1][s] = F[n + 1][s]
      <3>1. CASE s = {}
        BY <1>5, <2>1, <3>1
      <3>2. CASE s # {}
        <4> DEFINE r == s \ {Element(s)}
        <4>1. r \in SUBSET S /\ Cardinality(s) \in Nat /\ Cardinality(r) = Cardinality(s) - 1
          BY <3>2, ElementLess
        <4>2. Cardinality(r) <= n
          BY <4>1, <2>2
        <4>3. F[n + 1][r] = F[n][r]
          BY <4>1, <4>2
        <4>4. F[(n + 1) + 1][s] = f[Element(s)] + F[n + 1][r] /\ F[n + 1][s] = f[Element(s)] + F[n][r]
          BY <1>5, <2>1, <3>2
        <4> QED BY <4>3, <4>4
      <3> QED BY <3>1, <3>2
    <2> QED BY <2>1, <2>2
  <1>8. N \in Q
    <2>1. \A n \in 0 .. N : n \in Q
      <3> HIDE DEF Q
      <3> QED BY <1>1, <1>6, <1>7, Steps
    <2> QED BY <1>1, <2>1
  <1>9. F[N + 1] = F[N]
    <2>1. F[N] \in V /\ F[N + 1] \in V
      BY <1>1, <1>4
    <2>2. \A s \in SUBSET S : F[N + 1][s] = F[N][s]
      BY <1>1, <1>8
    <2> QED BY <2>1, <2>2 DEF V
  <1>10. F[N] = AddElement(f, S, F[N])
    BY <1>1, <1>4, <1>9
  <1> QED BY <1>10

\* The total is the last of the sums.
SumsOf(f, S, sums) ==
    /\ sums \in [SUBSET S -> Nat]
    /\ Total(f) = sums[S]
    /\ sums[{}] = 0
    /\ \A s \in SUBSET S : s # {} => sums[s] = f[Element(s)] + sums[s \ {Element(s)}]

LEMMA TotalIs ==
    ASSUME NEW S, IsFiniteSet(S), NEW f \in [S -> Nat]
    PROVE  \E sums : SumsOf(f, S, sums)
  <1> DEFINE sums == CHOOSE g : g = AddElement(f, S, g)
  <1>1. sums = AddElement(f, S, sums)
    BY SumsExist
  <1>2. Total(f) = sums[S]
    <2>1. DOMAIN f = S
      OBVIOUS
    <2>2. Total(f) = (LET iter[s \in SUBSET S] == IF s = {} THEN 0
                                                  ELSE f[CHOOSE x \in s : TRUE] + iter[s \ {CHOOSE x \in s : TRUE}]
                      IN  iter[S])
      BY <2>1, Zenon DEF Total, FoldFunction, FoldFunctionOnSet, MapThenFoldSet
    <2> QED BY <2>2, Zenon DEF AddElement, Element
  <1> HIDE DEF sums
  <1>3. sums[{}] = 0 /\ \A s \in SUBSET S : s # {} => sums[s] = f[Element(s)] + sums[s \ {Element(s)}]
    <2>1. \A s \in SUBSET S : sums[s] = IF s = {} THEN 0 ELSE f[Element(s)] + sums[s \ {Element(s)}]
      BY <1>1 DEF AddElement
    <2> QED BY <2>1
  <1>4. \A s \in SUBSET S : sums[s] \in Nat
    <2> DEFINE T == {s \in SUBSET S : sums[s] \in Nat}
    <2>1. {} \in T
      BY <1>3
    <2>2. ASSUME NEW s \in SUBSET S, s # {}, s \ {Element(s)} \in T PROVE s \in T
      <3>1. Element(s) \in S
        BY <2>2, ElementLess
      <3>2. sums[s] = f[Element(s)] + sums[s \ {Element(s)}]
        BY <1>3, <2>2
      <3>3. f[Element(s)] \in Nat /\ sums[s \ {Element(s)}] \in Nat
        BY <2>2, <3>1
      <3> QED BY <3>2, <3>3
    <2> HIDE DEF T
    <2>3. \A s \in SUBSET S : s \in T
      BY <2>1, <2>2, SubsetSteps
    <2> QED BY <2>3 DEF T
  <1>5. sums \in [SUBSET S -> Nat]
    BY <1>1, <1>4 DEF AddElement
  <1> QED BY <1>2, <1>3, <1>5 DEF SumsOf

\* A total of nothing but zeros is zero.
LEMMA TotalZero ==
    ASSUME NEW S, IsFiniteSet(S), NEW f \in [S -> Nat], \A x \in S : f[x] = 0
    PROVE  Total(f) = 0
  <1>1. PICK sums : SumsOf(f, S, sums)
    BY TotalIs
  <1> DEFINE T == {s \in SUBSET S : sums[s] = 0}
  <1>2. {} \in T
    BY <1>1 DEF SumsOf
  <1>3. ASSUME NEW s \in SUBSET S, s # {}, s \ {Element(s)} \in T PROVE s \in T
    <2>1. Element(s) \in S
      BY <1>3, ElementLess
    <2>2. sums[s] = f[Element(s)] + sums[s \ {Element(s)}]
      BY <1>1, <1>3 DEF SumsOf
    <2> QED BY <1>3, <2>1, <2>2
  <1> HIDE DEF T
  <1>4. S \in T
    BY <1>2, <1>3, SubsetSteps
  <1> QED BY <1>1, <1>4 DEF T, SumsOf

\* When one value changes, the total changes by as much.
LEMMA TotalChanged ==
    ASSUME NEW S, IsFiniteSet(S), NEW f \in [S -> Nat], NEW g \in [S -> Nat], NEW a \in S,
           \A x \in S \ {a} : g[x] = f[x]
    PROVE  /\ Total(f) \in Nat /\ Total(g) \in Nat /\ f[a] <= Total(f)
           /\ Total(g) = (Total(f) - f[a]) + g[a]
  <1>1. PICK fs : SumsOf(f, S, fs)
    BY TotalIs
  <1>2. PICK gs : SumsOf(g, S, gs)
    BY TotalIs
  <1> DEFINE T == {s \in SUBSET S : /\ a \notin s => gs[s] = fs[s]
                                    /\ a \in s => gs[s] = (fs[s] - f[a]) + g[a] /\ f[a] <= fs[s]}
  <1>3. {} \in T
    BY <1>1, <1>2 DEF SumsOf
  <1>4. ASSUME NEW s \in SUBSET S, s # {}, s \ {Element(s)} \in T PROVE s \in T
    <2> DEFINE x == Element(s)
               r == s \ {x}
    <2>1. x \in s /\ x \in S /\ r \in SUBSET S
      BY <1>4, ElementLess
    <2>2. /\ fs[s] = f[x] + fs[r] /\ gs[s] = g[x] + gs[r]
          /\ fs[s] \in Nat /\ gs[s] \in Nat /\ fs[r] \in Nat /\ gs[r] \in Nat
          /\ f[x] \in Nat /\ g[x] \in Nat /\ f[a] \in Nat /\ g[a] \in Nat
      BY <1>1, <1>2, <1>4, <2>1 DEF SumsOf
    <2>3. r \in T
      BY <1>4
    <2>4. CASE x = a
      <3>1. a \notin r /\ a \in s
        BY <2>1, <2>4
      <3>2. gs[r] = fs[r]
        BY <2>3, <3>1
      <3>3. gs[s] = (fs[s] - f[a]) + g[a] /\ f[a] <= fs[s]
        BY <2>2, <2>4, <3>2
      <3> QED BY <3>1, <3>3
    <2>5. CASE x # a
      <3>1. (a \in r <=> a \in s) /\ g[x] = f[x]
        BY <2>1, <2>5
      <3>2. /\ a \notin r => gs[r] = fs[r]
            /\ a \in r => gs[r] = (fs[r] - f[a]) + g[a] /\ f[a] <= fs[r]
        BY <2>3
      <3> HIDE DEF r, x
      <3> QED BY <2>2, <3>1, <3>2
    <2> QED BY <2>4, <2>5
  <1> HIDE DEF T
  <1>5. S \in T
    BY <1>3, <1>4, SubsetSteps
  <1> QED BY <1>1, <1>2, <1>5 DEF T, SumsOf

\* The frequencies of the terms of a text add up to its length.
LEMMA FrequenciesAddUp ==
    ASSUME IsFiniteSet(Terms), NEW tokens \in Seq(Terms)
    PROVE  Total([w \in Terms |-> Frequency(tokens, w)]) = Len(tokens)
  <1> DEFINE L == Len(tokens)
             places(n, w) == {i \in 1 .. n : tokens[i] = w}
             among(n) == [w \in Terms |-> Cardinality(places(n, w))]
             Q == {n \in 0 .. L : Total(among(n)) = n}
  <1>1. L \in Nat /\ \A i \in 1 .. L : tokens[i] \in Terms
    OBVIOUS
  <1>2. ASSUME NEW n \in 0 .. L, NEW w
        PROVE  IsFiniteSet(places(n, w)) /\ Cardinality(places(n, w)) \in Nat
    <2>1. IsFiniteSet(1 .. n) /\ places(n, w) \in SUBSET (1 .. n)
      BY <1>1, FS_Interval
    <2> HIDE DEF places
    <2> QED BY <2>1, FS_Subset, FS_CardinalityType
  <1>3. \A n \in 0 .. L : among(n) \in [Terms -> Nat]
    <2> HIDE DEF places
    <2> QED BY <1>2
  <1>4. 0 \in Q
    <2>1. \A w : places(0, w) = {}
      OBVIOUS
    <2>2. \A w \in Terms : among(0)[w] = 0
      <3> HIDE DEF places
      <3> QED BY <2>1, FS_EmptySet
    <2>3. among(0) \in [Terms -> Nat]
      BY <1>1, <1>3
    <2> HIDE DEF among
    <2>4. Total(among(0)) = 0
      BY <2>2, <2>3, TotalZero
    <2> QED BY <1>1, <2>4
  <1>5. ASSUME NEW n \in 0 .. L, n \in Q, n < L PROVE n + 1 \in Q
    <2> DEFINE a == tokens[n + 1]
    <2>1. n + 1 \in 0 .. L /\ n + 1 \in 1 .. L /\ a \in Terms /\ n \in Nat
      BY <1>1, <1>5
    <2>2. places(n + 1, a) = places(n, a) \cup {n + 1} /\ n + 1 \notin places(n, a)
      BY <2>1
    <2>3. \A w \in Terms \ {a} : places(n + 1, w) = places(n, w)
      BY <2>1
    <2> HIDE DEF places, a
    <2>4. among(n + 1)[a] = among(n)[a] + 1
      BY <1>2, <2>1, <2>2, FS_AddElement
    <2>5. \A w \in Terms \ {a} : among(n + 1)[w] = among(n)[w]
      BY <2>3
    <2>6. among(n) \in [Terms -> Nat] /\ among(n + 1) \in [Terms -> Nat]
      BY <1>3, <2>1
    <2>7. Total(among(n)) = n
      BY <1>5
    <2> HIDE DEF among
    <2>8. Total(among(n + 1)) = (Total(among(n)) - among(n)[a]) + among(n + 1)[a] /\ among(n)[a] \in Nat
      BY <2>1, <2>5, <2>6, TotalChanged
    <2>9. Total(among(n + 1)) = n + 1
      BY <2>1, <2>4, <2>7, <2>8
    <2> QED BY <2>1, <2>9
  <1>6. L \in Q
    <2> HIDE DEF Q
    <2>1. \A n \in 0 .. L : n \in Q
      BY <1>1, <1>4, <1>5, Steps
    <2> QED BY <1>1, <2>1
  <1>7. among(L) = [w \in Terms |-> Frequency(tokens, w)]
    <2>1. DOMAIN tokens = 1 .. L
      OBVIOUS
    <2>2. \A w \in Terms : Frequency(tokens, w) = Cardinality(places(L, w))
      BY <2>1, Zenon DEF Frequency
    <2> QED BY <2>2, Zenon
  <1> HIDE DEF among
  <1> QED BY <1>6, <1>7
=============================================================================
