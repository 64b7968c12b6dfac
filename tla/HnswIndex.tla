----------------------------- MODULE HnswIndex ------------------------------
(***************************************************************************)
(* The HNSW index: a graph with layers, each thinner than the one below,   *)
(* in which a search walks towards the query                               *)
(* (crates/openvec-core/src/index/hnsw.rs).                                *)
(*                                                                         *)
(* No two vectors are at the same distance from a third, so that the ties  *)
(* between candidates, which the code breaks by the layout of its heaps,   *)
(* do not arise.                                                           *)
(***************************************************************************)
EXTENDS Documents, Distance, Sequences

CONSTANTS
    Vectors,            \* the vectors of documents
    Queries,            \* the vectors of searches, among them
    Metric,
    M, MMax0,           \* m and m_max0: the neighbours of a node above and at layer 0
    EfConstruction, EfSearch,
    TopLevel,           \* bound: the highest level drawn, 16 in the code
    NoBytes,            \* before anything is serialised
    MaxInserts,         \* bound: inserts
    SavedAfter          \* bound: the number of inserts after which it is serialised

ASSUME HnswAssumption ==
    /\ IsFiniteSet(Ids)
    /\ Vectors \subseteq Int /\ Queries \subseteq Vectors /\ Metric \in Metrics
    /\ {M, MMax0, EfConstruction, EfSearch} \subseteq Nat \ {0}
    /\ {TopLevel, MaxInserts, SavedAfter} \subseteq Nat
    /\ \A q, v, w \in Vectors : v # w =>
            Distance(Metric, Prepared(Metric, q), Prepared(Metric, v))
                # Distance(Metric, Prepared(Metric, q), Prepared(Metric, w))

VARIABLES
    nodes,          \* id, vector, neighbours for each of its layers from 0 up, deleted
    idToNode,       \* 0 for ids without a node
    entryPoint,     \* 0 before the first insert
    maxLevel,
    activeCount,
    bytes,          \* what was last serialised
    revived,        \* history: the ids inserted again after a deletion
    astray,         \* history: was a document linked from an entry point that was deleted?
    inserts         \* history: inserts so far

index == <<nodes, idToNode, entryPoint, maxLevel, activeCount>>
history == <<revived, astray>>
vars == <<index, bytes, history, inserts>>

Levels == 0 .. TopLevel
Capacity(level) == IF level = 0 THEN MMax0 ELSE M
HasLayer(node, level) == level < Len(node.layers)
SetOf(sequence) == {sequence[i] : i \in DOMAIN sequence}
Neighbours(node, level) == IF HasLayer(node, level) THEN node.layers[level + 1] ELSE <<>>

-----------------------------------------------------------------------------
(* Searching a layer.  Candidates, results and visited are sets of nodes.  *)

To(ns, v, n) == Distance(Metric, v, ns[n].vector)
NearestOf(ns, v, S) == CHOOSE n \in S : \A m \in S : To(ns, v, n) <= To(ns, v, m)
FarthestOf(ns, v, S) == CHOOSE n \in S : \A m \in S : To(ns, v, m) <= To(ns, v, n)

\* The k nearest nodes of S, in order: the i-th has i of them at most as far.
NearestFirst(ns, v, S, k) ==
    [i \in 1 .. Least(k, Cardinality(S)) |->
        CHOOSE n \in S : Cardinality({m \in S : To(ns, v, m) <= To(ns, v, n)}) = i]

\* Are the results as many as wanted, and is something no nearer than all of them?
Full(results, ef) == Cardinality(results) >= ef
Worst(ns, query, results) == To(ns, query, FarthestOf(ns, query, results))

\* A neighbour is seen once; it is left out of the walk when it is deleted, or no
\* nearer than the worst of a full set of results, which has room for ef.
Visit(ns, query, ef, passing, s, n) ==
    LET more == IF ns[n].id \in passing THEN s.results \cup {n} ELSE s.results
        leftOut == \/ n \in s.visited \/ ns[n].deleted
                   \/ Full(s.results, ef) /\ To(ns, query, n) >= Worst(ns, query, s.results)
    IN  [candidates |-> IF leftOut THEN s.candidates ELSE s.candidates \cup {n},
         visited |-> s.visited \cup {n},
         results |-> IF leftOut THEN s.results
                     ELSE IF Cardinality(more) > ef THEN more \ {FarthestOf(ns, query, more)}
                     ELSE more]

\* The state after each of the neighbours.
VisitEach(ns, query, ef, passing, s, ms) ==
    LET after[i \in 0 .. Len(ms)] ==
            IF i = 0 THEN s ELSE Visit(ns, query, ef, passing, after[i - 1], ms[i])
    IN  after

\* The neighbours of the nearest candidate, unless the walk has ended.
Expand(ns, query, ef, layer, passing, s) ==
    LET cur == NearestOf(ns, query, s.candidates)
        ms == Neighbours(ns[cur], layer)
    IN  IF s.candidates = {} \/ (Full(s.results, ef) /\ To(ns, query, cur) > Worst(ns, query, s.results)) THEN s
        ELSE VisitEach(ns, query, ef, passing, [s EXCEPT !.candidates = @ \ {cur}], ms)[Len(ms)]

Start(ns, entry, passing) ==
    [candidates |-> {entry}, visited |-> {entry}, results |-> {n \in {entry} : ns[n].id \in passing}]

\* The state after each candidate: every node is one at most once.
Walk(ns, query, entry, ef, layer, passing) ==
    LET walk[i \in 0 .. Len(ns)] ==
            IF i = 0 THEN Start(ns, entry, passing)
            ELSE Expand(ns, query, ef, layer, passing, walk[i - 1])
    IN  walk

\* The ef nearest nodes that the walk from entry meets and the filter passes.
SearchLayer(ns, query, entry, ef, layer, passing) ==
    Walk(ns, query, entry, ef, layer, passing)[Len(ns)].results

\* The next node to enter by: what a search for one result finds, if anything.
Nearer(ns, query, entry, layer, passing) ==
    LET found == SearchLayer(ns, query, entry, 1, layer, passing)
    IN  IF found = {} THEN entry ELSE NearestOf(ns, query, found)

\* The node to enter the layer `low' by, layer by layer from `high'.
Descend(ns, query, entry, high, low, passing) ==
    LET steps == IF high > low THEN high - low ELSE 0
        at[i \in 0 .. steps] ==
            IF i = 0 THEN entry ELSE Nearer(ns, query, at[i - 1], high + 1 - i, passing)
    IN  at[steps]

-----------------------------------------------------------------------------
(* Insertion.                                                              *)

ConnectedUnbounded(ns, n, new, level) ==
    IF HasLayer(ns[n], level) THEN [ns[n] EXCEPT !.layers[level + 1] = Append(@, new)] ELSE ns[n]

ConnectedOneWay(ns, n, new, level) == ns[n]

\* A node with one neighbour more; beyond its capacity it keeps the nearest
\* of those that are not deleted.
Connected(ns, n, new, level) ==
    LET all == Append(Neighbours(ns[n], level), new)
        live == {all[i] : i \in {j \in DOMAIN all : ~ns[all[j]].deleted}}
        kept == IF Len(all) > Capacity(level)
                THEN NearestFirst(ns, ns[n].vector, live, Capacity(level))
                ELSE all
    IN  IF HasLayer(ns[n], level) THEN [ns[n] EXCEPT !.layers[level + 1] = kept] ELSE ns[n]

\* The new node and its neighbours at a layer.
Linked(ns, new, selected, level) ==
    [n \in DOMAIN ns |->
        IF n = new THEN [ns[n] EXCEPT !.layers[level + 1] = selected]
        ELSE IF n \in SetOf(selected) THEN Connected(ns, n, new, level)
        ELSE ns[n]]

\* At a layer the new node gets the nearest of what a search finds; the nearest
\* of all is where the search of the next layer starts.
LinkLayer(s, new, level) ==
    LET v == s.nodes[new].vector
        found == SearchLayer(s.nodes, v, s.entry, EfConstruction, level, Ids)
        selected == NearestFirst(s.nodes, v, found, Capacity(level))
    IN  [nodes |-> Linked(s.nodes, new, selected, level), entry |-> NearestOf(s.nodes, v, found)]

\* From the layer `top' down.
LinkLayers(ns, new, entry, top) ==
    LET after[i \in 0 .. top + 1] ==
            IF i = 0 THEN [nodes |-> ns, entry |-> entry] ELSE LinkLayer(after[i - 1], new, top + 1 - i)
    IN  after[top + 1].nodes

\* A known document gets the new vector; its connections stay.
Update(id, v) ==
    LET n == idToNode[id]
    IN  /\ n # 0
        /\ nodes' = [nodes EXCEPT ![n].vector = v, ![n].deleted = FALSE]
        /\ activeCount' = IF nodes[n].deleted THEN activeCount + 1 ELSE activeCount
        /\ revived' = IF nodes[n].deleted THEN revived \cup {id} ELSE revived
        /\ UNCHANGED <<idToNode, entryPoint, maxLevel, astray>>

Added(id, v, level) ==
    Append(nodes, [id |-> id, vector |-> v, layers |-> [l \in 1 .. level + 1 |-> <<>>], deleted |-> FALSE])

AddFirst(id, v, level) ==
    /\ entryPoint = 0
    /\ nodes' = Added(id, v, level)
    /\ entryPoint' = 1 /\ maxLevel' = level
    /\ UNCHANGED astray

AddLinked(id, v, level) ==
    /\ entryPoint # 0
    /\ LET ns == Added(id, v, level)
           entry == Descend(ns, v, entryPoint, maxLevel, level, Ids)
       IN  nodes' = LinkLayers(ns, Len(ns), entry, Least(level, maxLevel))
    /\ IF level > maxLevel THEN entryPoint' = Len(nodes) + 1 /\ maxLevel' = level
                           ELSE UNCHANGED <<entryPoint, maxLevel>>
    /\ astray' = (astray \/ nodes[entryPoint].deleted)

Add(id, v, level) ==
    /\ idToNode[id] = 0
    /\ AddFirst(id, v, level) \/ AddLinked(id, v, level)
    /\ idToNode' = [idToNode EXCEPT ![id] = Len(nodes) + 1]
    /\ activeCount' = activeCount + 1
    /\ UNCHANGED revived

\* The vector is not that of another node.
Insert(id, v) ==
    /\ inserts < MaxInserts
    /\ \A n \in DOMAIN nodes : nodes[n].id # id => nodes[n].vector # Prepared(Metric, v)
    /\ Update(id, Prepared(Metric, v)) \/ \E level \in Levels : Add(id, Prepared(Metric, v), level)
    /\ inserts' = inserts + 1
    /\ UNCHANGED bytes

-----------------------------------------------------------------------------
(* The other operations.                                                   *)

HeldEver(id) == idToNode[id] # 0

Held(id) == idToNode[id] # 0 /\ ~nodes[idToNode[id]].deleted

\* Nothing happens to the graph.
DeleteHeld(id) ==
    /\ Held(id)
    /\ nodes' = [nodes EXCEPT ![idToNode[id]].deleted = TRUE]
    /\ activeCount' = activeCount - 1

DeleteAbsent(id) == ~Held(id) /\ UNCHANGED <<nodes, activeCount>>

Delete(id) ==
    /\ DeleteHeld(id) \/ DeleteAbsent(id)
    /\ UNCHANGED <<idToNode, entryPoint, maxLevel, bytes, history, inserts>>

SerializeUndeleted ==
    /\ inserts = SavedAfter
    /\ bytes' = [nodes |-> [n \in DOMAIN nodes |-> [nodes[n] EXCEPT !.deleted = FALSE]],
                 idToNode |-> idToNode, entryPoint |-> entryPoint, maxLevel |-> maxLevel,
                 activeCount |-> activeCount, revived |-> revived, astray |-> astray]
    /\ UNCHANGED <<index, history, inserts>>

Serialize ==
    /\ inserts = SavedAfter
    /\ bytes' = [nodes |-> nodes, idToNode |-> idToNode, entryPoint |-> entryPoint, maxLevel |-> maxLevel,
                 activeCount |-> activeCount, revived |-> revived, astray |-> astray]
    /\ UNCHANGED <<index, history, inserts>>

Deserialize ==
    /\ bytes # NoBytes
    /\ nodes' = bytes.nodes /\ idToNode' = bytes.idToNode /\ entryPoint' = bytes.entryPoint
    /\ maxLevel' = bytes.maxLevel /\ activeCount' = bytes.activeCount
    /\ revived' = bytes.revived /\ astray' = bytes.astray
    /\ UNCHANGED <<bytes, inserts>>

Init ==
    /\ nodes = <<>>
    /\ idToNode = [id \in Ids |-> 0]
    /\ entryPoint = 0 /\ maxLevel = 0
    /\ activeCount = 0
    /\ bytes = NoBytes
    /\ revived = {}
    /\ astray = FALSE
    /\ inserts = 0

Next ==
    \/ \E id \in Ids : Delete(id) \/ \E v \in Vectors : Insert(id, v)
    \/ Serialize \/ Deserialize

Spec == Init /\ [][Next]_vars

-----------------------------------------------------------------------------
(* Search.                                                                 *)

StartAtEntryPoint == entryPoint

\* The first node that is not deleted stands in for a deleted entry point.
StartOf == IF ~nodes[entryPoint].deleted THEN entryPoint
           ELSE CHOOSE n \in DOMAIN nodes : ~nodes[n].deleted /\ \A m \in 1 .. n - 1 : nodes[m].deleted

\* The answer, nodes by ascending distance; ef is that of the request or EfSearch.
Search(query, k, ef, passing) ==
    LET q == Prepared(Metric, query)
        entry == Descend(nodes, q, StartOf, maxLevel, 0, passing)
        width == IF ef < k THEN k ELSE ef
        found == {n \in SearchLayer(nodes, q, entry, width, 0, passing) : ~nodes[n].deleted}
    IN  IF activeCount = 0 THEN <<>> ELSE NearestFirst(nodes, q, found, k)

-----------------------------------------------------------------------------
(* Properties.                                                             *)

NodeRecords == [id : Ids, vector : Int, layers : Seq(Seq(Nat)), deleted : BOOLEAN]
Snapshots == [nodes : Seq(NodeRecords), idToNode : [Ids -> Nat], entryPoint : Nat, maxLevel : Levels,
              activeCount : Nat, revived : SUBSET Ids, astray : BOOLEAN]

ASSUME SnapshotAssumption == NoBytes \notin Snapshots

Live == {id \in Ids : Held(id)}
IdsOf(answer) == {nodes[n].id : n \in SetOf(answer)}

\* Type invariant.
TypeOK ==
    /\ nodes \in Seq(NodeRecords)
    /\ idToNode \in [Ids -> 0 .. Len(nodes)]
    /\ entryPoint \in 0 .. Len(nodes)
    /\ maxLevel \in Levels
    /\ activeCount \in Nat
    /\ bytes \in Snapshots \cup {NoBytes}
    /\ revived \subseteq Ids /\ astray \in BOOLEAN /\ inserts \in 0 .. MaxInserts

\* The neighbours of a node at a layer are other nodes, once each, that have
\* the layer too, and no more than its capacity; the entry point is at the top.
\* The count is that of the live documents: with none a search ends, with some
\* it looks for a node to start from.
GraphWellFormed ==
    /\ \A n \in DOMAIN nodes : \A level \in 0 .. Len(nodes[n].layers) - 1 :
        LET ms == Neighbours(nodes[n], level)
        IN  /\ \A i, j \in DOMAIN ms : ms[i] = ms[j] => i = j
            /\ Len(ms) <= Capacity(level)
            /\ \A m \in SetOf(ms) : m \in DOMAIN nodes \ {n} /\ HasLayer(nodes[m], level)
    /\ nodes # <<>> => entryPoint # 0 /\ Len(nodes[entryPoint].layers) = maxLevel + 1
    /\ \A n \in DOMAIN nodes : Len(nodes[n].layers) <= maxLevel + 1 /\ idToNode[nodes[n].id] = n
    /\ activeCount = Cardinality(Live)

\* While there is a live document a search finds one, even with a deleted entry
\* point, and one no farther than where it started; all it finds are live,
\* pass the filter, and come in order.
SearchFindsLive == \A query \in Queries : \A passing \in {Ids} \cup {Ids \ {id} : id \in Ids} :
    LET k == 2
        answer == Search(query, k, EfSearch, passing)
        distance(n) == To(nodes, Prepared(Metric, query), n)
    IN  /\ IdsOf(answer) \subseteq Live \cap passing
        /\ Len(answer) <= k
        /\ \A i, j \in DOMAIN answer : i < j => distance(answer[i]) < distance(answer[j])
        /\ passing = Ids /\ Live # {} => answer # <<>> /\ distance(answer[1]) <= distance(StartOf)

\* As long as no node had to leave a neighbour out, no deleted document came back
\* with the connections it once had, and no insertion had to start at a deleted
\* entry point, which may leave the new document with deleted neighbours only, a
\* wide search finds all there is, whatever was deleted since.
SmallIsComplete == Len(nodes) <= Least(MMax0, EfConstruction) + 1 /\ revived = {} /\ ~astray =>
    \A query \in Queries : \A passing \in {Ids} \cup {{id} : id \in Ids} :
        IdsOf(Search(query, Cardinality(Ids), EfSearch, passing)) = Live \cap passing

\* What the operations do to the graph is what they do to a map from ids to vectors.
VectorIn(ns, map, id) == IF map[id] # 0 /\ ~ns[map[id]].deleted THEN ns[map[id]].vector ELSE None
Promise == INSTANCE VectorIndex WITH
               Vectors <- {Prepared(Metric, v) : v \in Vectors},
               held <- [id \in Ids |-> VectorIn(nodes, idToNode, id)],
               saved <- [id \in Ids |-> IF bytes = NoBytes THEN None ELSE VectorIn(bytes.nodes, bytes.idToNode, id)]
ImplementsVectorIndex == Promise!Spec
=============================================================================
