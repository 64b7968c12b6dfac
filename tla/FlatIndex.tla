----------------------------- MODULE FlatIndex ------------------------------
(***************************************************************************)
(* The flat index: a list of entries searched whole                        *)
(* (crates/openvec-core/src/index/flat.rs).  The operations are operators  *)
(* on an index, a record of its fields; a collection holds one per field.  *)
(***************************************************************************)
EXTENDS Documents, Distance, Sequences

CONSTANTS
    Vectors,    \* the vectors documents have
    Panic       \* the outcome of a call that panics

ASSUME VectorsAssumption == Vectors \subseteq Int /\ Mismatch \notin Vectors

\* Normalised vectors included, since a cosine index keeps those.
Kept == Vectors \cup {-One, 0, One}

Entries == [id : Ids, vector : Kept, deleted : BOOLEAN]
FlatIndexes == [entries : Seq(Entries),
                idToPos : [Ids -> Nat],     \* 0: the id is not in the map
                activeCount : Int,
                metric : Metrics]

NewFlat(metric) ==
    [entries |-> <<>>, idToPos |-> [id \in Ids |-> 0], activeCount |-> 0, metric |-> metric]

FlatInsertOnce(f, id, v) ==
    IF f.idToPos[id] # 0
    THEN [f EXCEPT !.entries = [@ EXCEPT ![f.idToPos[id]] = [@ EXCEPT !.deleted = FALSE]],
                   !.activeCount = IF f.entries[f.idToPos[id]].deleted THEN @ + 1 ELSE @]
    ELSE [f EXCEPT !.entries = Append(@, [id |-> id, vector |-> Prepared(f.metric, v), deleted |-> FALSE]),
                   !.idToPos = [@ EXCEPT ![id] = Len(f.entries) + 1],
                   !.activeCount = @ + 1]

\* A known id gets the new vector in its old entry, and is restored there.
FlatInsert(f, id, v) ==
    LET pos == f.idToPos[id]
        entry == [id |-> id, vector |-> Prepared(f.metric, v), deleted |-> FALSE]
    IN  IF pos # 0
        THEN [f EXCEPT !.entries = [@ EXCEPT ![pos] = entry],
                       !.activeCount = IF f.entries[pos].deleted THEN @ + 1 ELSE @]
        ELSE [f EXCEPT !.entries = Append(@, entry),
                       !.idToPos = [@ EXCEPT ![id] = Len(f.entries) + 1],
                       !.activeCount = @ + 1]

FlatHas(f, id) == f.idToPos[id] # 0 /\ ~f.entries[f.idToPos[id]].deleted

FlatDeleteTwice(f, id) ==
    IF f.idToPos[id] # 0
    THEN [f EXCEPT !.entries = [@ EXCEPT ![f.idToPos[id]] = [@ EXCEPT !.deleted = TRUE]],
                   !.activeCount = @ - 1]
    ELSE f

FlatDelete(f, id) ==
    LET pos == f.idToPos[id]
    IN  IF FlatHas(f, id)
        THEN [f EXCEPT !.entries = [@ EXCEPT ![pos] = [f.entries[pos] EXCEPT !.deleted = TRUE]],
                       !.activeCount = @ - 1]
        ELSE f

FlatSearchDeleted(f, query, k, passing) ==
    LET hits == {i \in DOMAIN f.entries : f.entries[i].id \in passing}
        distance == [i \in hits |-> Distance(f.metric, Prepared(f.metric, query), f.entries[i].vector)]
    IN  IF f.activeCount = 0 THEN {<<>>}
        ELSE {[j \in DOMAIN r |-> f.entries[r[j]].id] : r \in Ranked(hits, distance, k)}

\* The possible answers of a search for k ids among those that pass the filter.
\* select_nth_unstable_by panics on an empty list.
FlatSearch(f, query, k, passing) ==
    LET hits == {i \in DOMAIN f.entries : ~f.entries[i].deleted /\ f.entries[i].id \in passing}
        distance == [i \in hits |-> Distance(f.metric, Prepared(f.metric, query), f.entries[i].vector)]
    IN  IF f.activeCount = 0 THEN {<<>>}
        ELSE IF hits = {} THEN {Panic}
        ELSE {[j \in DOMAIN r |-> f.entries[r[j]].id] : r \in Ranked(hits, distance, k)}

FlatLoadedRevived(entries, metric) ==
    [entries |-> [i \in DOMAIN entries |-> [entries[i] EXCEPT !.deleted = FALSE]],
     idToPos |-> [id \in Ids |->
        IF \E i \in DOMAIN entries : entries[i].id = id
        THEN CHOOSE i \in DOMAIN entries : entries[i].id = id
        ELSE 0],
     activeCount |-> Len(entries),
     metric |-> metric]

\* serialize_to_bytes keeps the entries only; deserialize_from_bytes fills them
\* into an index that was created with some metric, and recomputes the rest.
FlatLoaded(entries, metric) ==
    [entries |-> entries,
     idToPos |-> [id \in Ids |->
        IF \E i \in DOMAIN entries : entries[i].id = id
        THEN CHOOSE i \in DOMAIN entries :
                entries[i].id = id /\ \A j \in DOMAIN entries : entries[j].id = id => j <= i
        ELSE 0],
     activeCount |-> Cardinality({i \in DOMAIN entries : ~entries[i].deleted}),
     metric |-> metric]

\* The map an index stands for.
FlatVector(f, id) == IF FlatHas(f, id) THEN f.entries[f.idToPos[id]].vector ELSE None
HeldIn(f) == [id \in Ids |-> FlatVector(f, id)]

\* The map of ids to positions and the entries of a flat index agree, and the
\* count is that of the live entries, which decides whether a search looks at all.
FlatConsistent(f) ==
    /\ \A i \in DOMAIN f.entries : f.idToPos[f.entries[i].id] = i
    /\ \A id \in Ids : f.idToPos[id] # 0 => f.idToPos[id] \in DOMAIN f.entries /\ f.entries[f.idToPos[id]].id = id
    /\ f.activeCount = Cardinality({i \in DOMAIN f.entries : ~f.entries[i].deleted})
=============================================================================
