-------------------------- MODULE HnswIndexProofs ---------------------------
(***************************************************************************)
(* Proofs about HnswIndex, for every set of ids and vectors whose          *)
(* distances differ, every metric, any number of neighbours, levels and    *)
(* candidates.                                                             *)
(***************************************************************************)
EXTENDS HnswIndex, IndexLemmas

-----------------------------------------------------------------------------
(* Nearest and farthest nodes.                                             *)

\* What nodes are.
LEMMA NodesAre ==
    ASSUME NEW ns \in Seq(NodeRecords)
    PROVE  /\ DOMAIN ns = 1 .. Len(ns) /\ Len(ns) \in Nat
           /\ \A n \in DOMAIN ns :
                /\ ns[n] \in NodeRecords /\ ns[n].id \in Ids /\ ns[n].vector \in Int
                /\ ns[n].layers \in Seq(Seq(Nat)) /\ ns[n].deleted \in BOOLEAN
                /\ ns[n] = [id |-> ns[n].id, vector |-> ns[n].vector, layers |-> ns[n].layers, deleted |-> ns[n].deleted]
<1>1. DOMAIN ns = 1 .. Len(ns) /\ Len(ns) \in Nat /\ \A n \in DOMAIN ns : ns[n] \in NodeRecords
  <2>. HIDE DEF NodeRecords
  <2>. QED
    OBVIOUS
<1>2. \A r \in NodeRecords :
        /\ r.id \in Ids /\ r.vector \in Int /\ r.layers \in Seq(Seq(Nat)) /\ r.deleted \in BOOLEAN
        /\ r = [id |-> r.id, vector |-> r.vector, layers |-> r.layers, deleted |-> r.deleted]
  <2> DEFINE L == Seq(Seq(Nat))
  <2>1. NodeRecords = [id : Ids, vector : Int, layers : L, deleted : BOOLEAN]
    BY DEF NodeRecords
  <2>. HIDE DEF L, NodeRecords
  <2>2. \A r \in NodeRecords :
          /\ r.id \in Ids /\ r.vector \in Int /\ r.layers \in L /\ r.deleted \in BOOLEAN
          /\ r = [id |-> r.id, vector |-> r.vector, layers |-> r.layers, deleted |-> r.deleted]
    BY <2>1
  <2>. QED
    BY <2>2 DEF L
<1>. HIDE DEF NodeRecords
<1>. QED
  BY <1>1, <1>2

\* Distances are integers.
LEMMA ToInt ==
    ASSUME NEW ns \in Seq(NodeRecords), NEW v \in Int, NEW n \in DOMAIN ns
    PROVE  To(ns, v, n) \in Int
<1>1. ns[n].vector \in Int /\ Metric \in Metrics
  BY NodesAre, HnswAssumption
<1>. QED
  BY <1>1, Values DEF To

\* Some nodes are finitely many, and have a nearest and a farthest one.
LEMMA FarthestIs ==
    ASSUME NEW ns \in Seq(NodeRecords), NEW v \in Int, NEW S \in SUBSET DOMAIN ns, S # {}
    PROVE  /\ FarthestOf(ns, v, S) \in S
           /\ \A m \in S : To(ns, v, m) <= To(ns, v, FarthestOf(ns, v, S))
<1> DEFINE f == [i \in S |-> To(ns, v, i)]
           P(n) == n \in S /\ \A m \in S : To(ns, v, m) <= To(ns, v, n)
<1>1. Len(ns) \in Nat /\ S \in SUBSET (1 .. Len(ns))
  BY NodesAre
<1>2. \A i \in S : f[i] \in Int /\ f[i] = To(ns, v, i)
  BY ToInt
<1>3. PICK n \in S : \A m \in S : f[n] >= f[m]
  <2>. HIDE DEF f
  <2>. QED
    BY <1>1, <1>2, GreatestOf
<1>4. P(n)
  <2>. HIDE DEF f
  <2>1. \A m \in S : To(ns, v, m) <= To(ns, v, n)
    BY <1>2, <1>3
  <2>. QED
    BY <2>1
<1>5. FarthestOf(ns, v, S) = CHOOSE x : P(x)
  BY Zenon DEF FarthestOf
<1>6. P(CHOOSE x : P(x))
  <2>. HIDE DEF P
  <2>. QED
    BY <1>4
<1>. QED
  BY <1>5, <1>6

LEMMA NearestIs ==
    ASSUME NEW ns \in Seq(NodeRecords), NEW v \in Int, NEW S \in SUBSET DOMAIN ns, S # {}
    PROVE  /\ NearestOf(ns, v, S) \in S
           /\ \A m \in S : To(ns, v, NearestOf(ns, v, S)) <= To(ns, v, m)
<1> DEFINE f == [i \in S |-> -To(ns, v, i)]
           P(n) == n \in S /\ \A m \in S : To(ns, v, n) <= To(ns, v, m)
<1>1. Len(ns) \in Nat /\ S \in SUBSET (1 .. Len(ns))
  BY NodesAre
<1>2. \A i \in S : f[i] \in Int /\ f[i] = -To(ns, v, i) /\ To(ns, v, i) \in Int
  BY ToInt
<1>3. PICK n \in S : \A m \in S : f[n] >= f[m]
  <2>. HIDE DEF f
  <2>. QED
    BY <1>1, <1>2, GreatestOf
<1>4. P(n)
  <2>. HIDE DEF f
  <2>1. \A m \in S : To(ns, v, n) <= To(ns, v, m)
    BY <1>2, <1>3
  <2>. QED
    BY <2>1
<1>5. NearestOf(ns, v, S) = CHOOSE x : P(x)
  BY Zenon DEF NearestOf
<1>6. P(CHOOSE x : P(x))
  <2>. HIDE DEF P
  <2>. QED
    BY <1>4
<1>. QED
  BY <1>5, <1>6

\* Nodes at different distances from a vector.
Apart(ns, v, S) == \A m, n \in S : m # n => To(ns, v, m) # To(ns, v, n)

\* Some nodes at different distances are put in order: the k nearest, each once.
LEMMA NearestFirstIs ==
    ASSUME NEW ns \in Seq(NodeRecords), NEW v \in Int, NEW S \in SUBSET DOMAIN ns, Apart(ns, v, S), NEW k \in Nat
    PROVE  LET r == NearestFirst(ns, v, S, k)
           IN  /\ IsFiniteSet(S) /\ Cardinality(S) \in Nat
               /\ r \in Seq(Nat) /\ Len(r) \in Nat /\ Len(r) <= k /\ DOMAIN r = 1 .. Len(r)
               /\ SetOf(r) \in SUBSET S
               /\ \A i, j \in DOMAIN r : i < j => To(ns, v, r[i]) < To(ns, v, r[j])
               /\ \A i, j \in DOMAIN r : r[i] = r[j] => i = j
               /\ Cardinality(S) <= k => SetOf(r) = S
               /\ k # 0 /\ S # {} => 1 \in DOMAIN r /\ \A m \in S : To(ns, v, r[1]) <= To(ns, v, m)
<1> DEFINE within(n) == {m \in S : To(ns, v, m) <= To(ns, v, n)}
           rank == [n \in S |-> Cardinality(within(n))]
           size == Cardinality(S)
           r == NearestFirst(ns, v, S, k)
<1>1. IsFiniteSet(S) /\ size \in Nat
  <2>1. Len(ns) \in Int /\ S \in SUBSET (1 .. Len(ns))
    BY NodesAre
  <2>2. IsFiniteSet(1 .. Len(ns))
    BY <2>1, FS_Interval
  <2>. QED
    BY <2>1, <2>2, FS_Subset, FS_CardinalityType
<1>2. \A n \in S : To(ns, v, n) \in Int
  BY ToInt
<1>3. \A n \in S : IsFiniteSet(within(n)) /\ n \in within(n) /\ within(n) \in SUBSET S
  <2>1. \A n \in S : within(n) \in SUBSET S
    OBVIOUS
  <2>2. \A n \in S : n \in within(n)
    BY <1>2
  <2>. HIDE DEF within
  <2>. QED
    BY <1>1, <2>1, <2>2, FS_Subset
<1>4. rank \in [S -> 1 .. size]
  <2> SUFFICES ASSUME NEW n \in S PROVE Cardinality(within(n)) \in 1 .. size
    OBVIOUS
  <2>. HIDE DEF within
  <2>1. Cardinality(within(n)) \in Nat /\ Cardinality(within(n)) <= size /\ Cardinality(within(n)) # 0
    BY <1>1, <1>3, FS_Subset, FS_CardinalityType, FS_EmptySet
  <2>. QED
    BY <1>1, <2>1
<1>5. \A m, n \in S : To(ns, v, m) < To(ns, v, n) => rank[m] < rank[n]
  <2> SUFFICES ASSUME NEW m \in S, NEW n \in S, To(ns, v, m) < To(ns, v, n) PROVE rank[m] < rank[n]
    OBVIOUS
  <2>1. within(m) \in SUBSET within(n) /\ n \notin within(m)
    BY <1>2
  <2>2. IsFiniteSet(within(n)) /\ n \in within(n) /\ rank[m] = Cardinality(within(m)) /\ rank[n] = Cardinality(within(n))
    BY <1>3
  <2>3. rank[m] \in Int /\ rank[n] \in Int
    BY <1>4
  <2>. HIDE DEF within, rank
  <2>. QED
    BY <2>1, <2>2, <2>3, FS_Subset
<1>6. \A m, n \in S : rank[m] = rank[n] => m = n
  <2> SUFFICES ASSUME NEW m \in S, NEW n \in S, rank[m] = rank[n], m # n PROVE FALSE
    OBVIOUS
  <2>1. To(ns, v, m) # To(ns, v, n)
    BY DEF Apart
  <2>2. rank[m] < rank[n] \/ rank[n] < rank[m]
    BY <1>2, <1>5, <2>1
  <2>3. rank[m] \in Int /\ rank[n] \in Int
    BY <1>4
  <2>. HIDE DEF rank
  <2>. QED
    BY <2>2, <2>3
<1>7. \A i \in 1 .. size : \E n \in S : rank[n] = i
  <2>1. rank \in Injection(S, 1 .. size)
    <3>1. DOMAIN rank = S
      OBVIOUS
    <3>. HIDE DEF rank
    <3>. QED
      BY <1>4, <1>6, <3>1 DEF Injection, IsInjective
  <2>2. IsFiniteSet(1 .. size) /\ Cardinality(1 .. size) = Cardinality(S)
    BY <1>1, FS_Interval
  <2>3. rank \in Surjection(S, 1 .. size)
    <3>. HIDE DEF rank, size
    <3>. QED
      BY <2>1, <2>2, FS_Injection
  <2>. HIDE DEF rank
  <2>. QED
    BY <2>3 DEF Surjection
<1> DEFINE length == Least(k, size)
           P(n, i) == n \in S /\ Cardinality(within(n)) = i
<1>8. length \in 0 .. size /\ (size <= k => length = size) /\ (k # 0 /\ size # 0 => length # 0)
  BY <1>1 DEF Least
<1>9. r = [i \in 1 .. length |-> CHOOSE n \in S : Cardinality(within(n)) = i]
  BY Zenon DEF NearestFirst
<1>10. \A i \in 1 .. length : r[i] \in S /\ rank[r[i]] = i
  <2> SUFFICES ASSUME NEW i \in 1 .. length PROVE r[i] \in S /\ rank[r[i]] = i
    OBVIOUS
  <2>1. PICK n \in S : rank[n] = i
    <3>1. i \in 1 .. size
      BY <1>1, <1>8
    <3>. HIDE DEF rank
    <3>. QED
      BY <1>7, <3>1
  <2>2. P(n, i)
    BY <2>1
  <2>3. P(r[i], i)
    <3>1. r[i] = CHOOSE x \in S : Cardinality(within(x)) = i
      <4>. HIDE DEF r, length, within
      <4>. QED
        BY <1>9
    <3>2. r[i] = CHOOSE x : P(x, i)
      <4>. HIDE DEF r, length, within
      <4>. QED
        BY <3>1, Zenon
    <3>. HIDE DEF P, r
    <3>. QED
      BY <2>2, <3>2
  <2>. HIDE DEF r
  <2>. QED
    BY <2>3
<1>11. DOMAIN r = 1 .. length /\ length \in Nat
  <2>. HIDE DEF P, length
  <2>. QED
    BY <1>1, <1>8, <1>9
<1>. HIDE DEF r, rank, length
<1>12. r \in [1 .. length -> S]
  <2> DEFINE Q(i) == CHOOSE n \in S : Cardinality(within(n)) = i
  <2>1. r = [i \in 1 .. length |-> r[i]]
    <3>1. r = [i \in 1 .. length |-> Q(i)]
      BY <1>9
    <3>. HIDE DEF Q
    <3>. QED
      BY <3>1
  <2>. QED
    BY <1>10, <2>1
<1>13. r \in Seq(Nat) /\ Len(r) = length
  <2>1. S \in SUBSET Nat
    BY NodesAre
  <2>2. r \in [1 .. length -> Nat]
    BY <1>11, <1>12, <2>1
  <2>. QED
    BY <1>11, <2>2
<1>14. \A i, j \in 1 .. length : i < j => To(ns, v, r[i]) < To(ns, v, r[j])
  <2> SUFFICES ASSUME NEW i \in 1 .. length, NEW j \in 1 .. length, i < j,
                      ~ (To(ns, v, r[i]) < To(ns, v, r[j]))
               PROVE  FALSE
    OBVIOUS
  <2>1. r[i] \in S /\ r[j] \in S /\ rank[r[i]] = i /\ rank[r[j]] = j
    BY <1>10
  <2>2. To(ns, v, r[i]) \in Int /\ To(ns, v, r[j]) \in Int /\ i \in Int /\ j \in Int
    BY <1>2, <2>1
  <2>3. CASE To(ns, v, r[i]) = To(ns, v, r[j])
    BY <2>1, <2>2, <2>3 DEF Apart
  <2>4. CASE To(ns, v, r[j]) < To(ns, v, r[i])
    BY <1>5, <2>1, <2>2, <2>4
  <2>. QED
    BY <2>2, <2>3, <2>4
<1>15. \A i, j \in 1 .. length : r[i] = r[j] => i = j
  BY <1>10
<1>16. size <= k => SetOf(r) = S
  <2> SUFFICES ASSUME size <= k PROVE SetOf(r) = S
    OBVIOUS
  <2>1. length = size
    BY <1>8
  <2>2. \A n \in S : rank[n] \in 1 .. length /\ r[rank[n]] = n
    BY <1>4, <1>6, <1>10, <2>1
  <2>. QED
    BY <1>10, <1>11, <2>2 DEF SetOf
<1>17. k # 0 /\ S # {} => 1 \in 1 .. length /\ \A m \in S : To(ns, v, r[1]) <= To(ns, v, m)
  <2> SUFFICES ASSUME k # 0, S # {} PROVE 1 \in 1 .. length /\ \A m \in S : To(ns, v, r[1]) <= To(ns, v, m)
    OBVIOUS
  <2>1. size # 0
    BY <1>1, FS_EmptySet
  <2>2. 1 \in 1 .. length
    BY <1>8, <1>11, <2>1
  <2>3. r[1] \in S /\ rank[r[1]] = 1
    BY <1>10, <2>2
  <2>4. \A m \in S : To(ns, v, r[1]) <= To(ns, v, m)
    <3> SUFFICES ASSUME NEW m \in S, ~ (To(ns, v, r[1]) <= To(ns, v, m)) PROVE FALSE
      OBVIOUS
    <3>1. To(ns, v, m) < To(ns, v, r[1])
      BY <1>2, <2>3
    <3>2. rank[m] < rank[r[1]] /\ rank[m] \in 1 .. size
      BY <1>4, <1>5, <2>3, <3>1
    <3>. QED
      BY <2>3, <3>2
  <2>. QED
    BY <2>2, <2>4
<1>18. length <= k /\ SetOf(r) \in SUBSET S
  <2>1. length <= k
    BY <1>1 DEF length, Least
  <2>. QED
    BY <1>10, <1>11, <2>1 DEF SetOf
<1>. HIDE DEF size
<1>. QED
  BY <1>1, <1>11, <1>13, <1>14, <1>15, <1>16, <1>17, <1>18 DEF r, size

-----------------------------------------------------------------------------
(* The walk through a layer.                                               *)

\* Sets of nodes are finite.
LEMMA NodesFinite ==
    ASSUME NEW ns \in Seq(NodeRecords), NEW S \in SUBSET DOMAIN ns
    PROVE  IsFiniteSet(S) /\ Cardinality(S) \in Nat
<1>1. Len(ns) \in Int /\ S \in SUBSET (1 .. Len(ns))
  BY NodesAre
<1>2. IsFiniteSet(1 .. Len(ns))
  BY <1>1, FS_Interval
<1>. QED
  BY <1>1, <1>2, FS_Subset, FS_CardinalityType

\* There are as many nodes as the last of them is.
LEMMA NodesCount ==
    ASSUME NEW ns \in Seq(NodeRecords)
    PROVE  IsFiniteSet(DOMAIN ns) /\ Cardinality(DOMAIN ns) = Len(ns)
<1>1. Len(ns) \in Nat /\ Len(ns) \in Int /\ DOMAIN ns = 1 .. Len(ns)
  BY NodesAre
<1>2. Cardinality(1 .. Len(ns)) = IF 1 > Len(ns) THEN 0 ELSE Len(ns) - 1 + 1
  BY <1>1, FS_Interval
<1>3. IsFiniteSet(DOMAIN ns)
  BY NodesFinite
<1>. QED
  BY <1>1, <1>2, <1>3

\* Where visiting each neighbour leads from one set of states into the next, so
\* does visiting all of them.
LEMMA VisitEachWithin ==
    ASSUME NEW ns, NEW query, NEW ef, NEW passing, NEW s, NEW ms, Len(ms) \in Nat, NEW W, s \in W[0],
           \A n \in 1 .. Len(ms) : \A x \in W[n - 1] : Visit(ns, query, ef, passing, x, ms[n]) \in W[n]
    PROVE  VisitEach(ns, query, ef, passing, s, ms)[Len(ms)] \in W[Len(ms)]
<1> DEFINE b == Len(ms)
           After(x, n) == Visit(ns, query, ef, passing, x, ms[n])
           step == [n \in 0 .. b |-> [x \in W[n - 1] |-> After(x, n)]]
           Is(f) == f = [n \in 0 .. b |-> IF n = 0 THEN s ELSE After(f[n - 1], n)]
           after == VisitEach(ns, query, ef, passing, s, ms)
<1>1. b \in Nat /\ 0 \in Nat /\ \A n \in 0 .. b : n # 0 => \A x \in W[n - 1] : After(x, n) \in W[n]
  <2>1. \A n \in 0 .. b : n # 0 => n \in 1 .. b
    OBVIOUS
  <2>. QED
    BY <2>1
<1>. HIDE DEF b, After
<1>2. \E f : Is(f)
  <2>1. \A n \in 0 .. b : n # 0 => \A x \in W[n - 1] : step[n][x] = After(x, n)
    OBVIOUS
  <2>2. PICK f : Iterates(f, 0, b, s, step) /\ \A n \in 0 .. b : f[n] \in W[n]
    <3>. HIDE DEF step, Is
    <3>1. \A n \in 0 .. b : n # 0 => \A x \in W[n - 1] : step[n][x] \in W[n]
      BY <1>1, <2>1
    <3>. QED
      BY <1>1, <3>1, IteratedWithin
  <2>3. \A n \in 0 .. b : n # 0 => n - 1 \in 0 .. b
    BY <1>1
  <2>4. \A n \in 0 .. b : (IF n = 0 THEN s ELSE step[n][f[n - 1]]) = IF n = 0 THEN s ELSE After(f[n - 1], n)
    <3>. HIDE DEF step
    <3>. QED
      BY <2>1, <2>2, <2>3
  <2>. HIDE DEF step
  <2>. QED
    BY <2>2, <2>4 DEF Iterates
<1>3. Is(after)
  <2>1. after = CHOOSE f : Is(f)
    BY Zenon DEF VisitEach, b, After
  <2>. HIDE DEF Is, after
  <2>. QED
    BY <1>2, <2>1
<1>. HIDE DEF after
<1>4. after[0] = s /\ \A n \in 0 .. b : n # 0 => after[n] = After(after[n - 1], n)
  <2>1. \A n \in 0 .. b : after[n] = IF n = 0 THEN s ELSE After(after[n - 1], n)
    BY <1>3
  <2>. QED
    BY <1>1, <2>1
<1>. HIDE DEF Is
<1>5. \A n \in 0 .. b : after[n] \in W[n]
  BY <1>1, <1>4, StaysWithin
<1>. QED
  BY <1>1, <1>5 DEF after, b

\* Likewise for the nearest candidates one after the other.
LEMMA WalkWithin ==
    ASSUME NEW ns, NEW query, NEW entry, NEW ef, NEW layer, NEW passing, Len(ns) \in Nat,
           NEW W, Start(ns, entry, passing) \in W[0],
           \A n \in 1 .. Len(ns) : \A x \in W[n - 1] : Expand(ns, query, ef, layer, passing, x) \in W[n]
    PROVE  Walk(ns, query, entry, ef, layer, passing)[Len(ns)] \in W[Len(ns)]
<1> DEFINE b == Len(ns)
           s == Start(ns, entry, passing)
           After(x, n) == Expand(ns, query, ef, layer, passing, x)
           step == [n \in 0 .. b |-> [x \in W[n - 1] |-> After(x, n)]]
           Is(f) == f = [n \in 0 .. b |-> IF n = 0 THEN s ELSE After(f[n - 1], n)]
           after == Walk(ns, query, entry, ef, layer, passing)
<1>1. b \in Nat /\ 0 \in Nat /\ s \in W[0] /\ \A n \in 0 .. b : n # 0 => \A x \in W[n - 1] : After(x, n) \in W[n]
  <2>1. \A n \in 0 .. b : n # 0 => n \in 1 .. b
    OBVIOUS
  <2>. QED
    BY <2>1
<1>. HIDE DEF b, s, After
<1>2. \E f : Is(f)
  <2>1. \A n \in 0 .. b : n # 0 => \A x \in W[n - 1] : step[n][x] = After(x, n)
    OBVIOUS
  <2>2. PICK f : Iterates(f, 0, b, s, step) /\ \A n \in 0 .. b : f[n] \in W[n]
    <3>. HIDE DEF step, Is
    <3>1. \A n \in 0 .. b : n # 0 => \A x \in W[n - 1] : step[n][x] \in W[n]
      BY <1>1, <2>1
    <3>. QED
      BY <1>1, <3>1, IteratedWithin
  <2>3. \A n \in 0 .. b : n # 0 => n - 1 \in 0 .. b
    BY <1>1
  <2>4. \A n \in 0 .. b : (IF n = 0 THEN s ELSE step[n][f[n - 1]]) = IF n = 0 THEN s ELSE After(f[n - 1], n)
    <3>. HIDE DEF step
    <3>. QED
      BY <2>1, <2>2, <2>3
  <2>. HIDE DEF step
  <2>. QED
    BY <2>2, <2>4 DEF Iterates
<1>3. Is(after)
  <2>1. after = CHOOSE f : Is(f)
    BY Zenon DEF Walk, b, s, After
  <2>. HIDE DEF Is, after
  <2>. QED
    BY <1>2, <2>1
<1>. HIDE DEF after
<1>4. after[0] = s /\ \A n \in 0 .. b : n # 0 => after[n] = After(after[n - 1], n)
  <2>1. \A n \in 0 .. b : after[n] = IF n = 0 THEN s ELSE After(after[n - 1], n)
    BY <1>3
  <2>. QED
    BY <1>1, <2>1
<1>. HIDE DEF Is
<1>5. \A n \in 0 .. b : after[n] \in W[n]
  BY <1>1, <1>4, StaysWithin
<1>. QED
  BY <1>1, <1>5 DEF after, b

\* What is so of the results of a walk: they pass, none but the entry is deleted,
\* and if the entry passes one of them is as near.
Fair(ns, query, entry, passing, R) ==
    /\ \A n \in R : ns[n].id \in passing /\ (n = entry \/ ~ ns[n].deleted)
    /\ ns[entry].id \in passing => \E n \in R : To(ns, query, n) <= To(ns, query, entry)

\* The states of a walk among the nodes C.
Walked(ns, query, entry, ef, passing, C) ==
    {s \in [candidates : SUBSET C, visited : SUBSET C, results : SUBSET C] :
        Cardinality(s.results) <= ef /\ Fair(ns, query, entry, passing, s.results)}

\* They stay fair when the farthest of too many is dropped.
LEMMA TrimmedIs ==
    ASSUME NEW ns \in Seq(NodeRecords), NEW query \in Int, NEW C \in SUBSET DOMAIN ns, NEW entry \in C,
           NEW ef \in Nat \ {0}, NEW passing, NEW R \in SUBSET C, Cardinality(R) <= ef + 1,
           Fair(ns, query, entry, passing, R)
    PROVE  LET r == IF Cardinality(R) > ef THEN R \ {FarthestOf(ns, query, R)} ELSE R
           IN  r \in SUBSET C /\ Cardinality(r) <= ef /\ Fair(ns, query, entry, passing, r)
<1> DEFINE far == FarthestOf(ns, query, R)
           less == R \ {far}
<1>1. IsFiniteSet(R) /\ Cardinality(R) \in Nat
  BY NodesFinite
<1>2. CASE ~ (Cardinality(R) > ef)
  <2>1. Cardinality(R) <= ef
    BY <1>1, <1>2
  <2>. QED
    BY <1>2, <2>1
<1>3. CASE Cardinality(R) > ef
  <2>1. R # {} /\ R \in SUBSET DOMAIN ns
    BY <1>1, <1>3, FS_EmptySet
  <2>2. far \in R /\ \A m \in R : To(ns, query, m) <= To(ns, query, far)
    BY <2>1, FarthestIs
  <2>. HIDE DEF far
  <2>3. Cardinality(less) = Cardinality(R) - 1 /\ IsFiniteSet(less)
    BY <1>1, <2>2, FS_RemoveElement
  <2>4. Cardinality(less) <= ef /\ Cardinality(less) # 0
    BY <1>1, <1>3, <2>3
  <2>5. less # {}
    BY <2>4, FS_EmptySet
  <2>6. ns[entry].id \in passing => \E n \in less : To(ns, query, n) <= To(ns, query, entry)
    <3> SUFFICES ASSUME ns[entry].id \in passing
                 PROVE  \E n \in less : To(ns, query, n) <= To(ns, query, entry)
      OBVIOUS
    <3>1. PICK m \in R : To(ns, query, m) <= To(ns, query, entry)
      BY DEF Fair
    <3>2. CASE m # far
      BY <3>1, <3>2
    <3>3. CASE m = far
      <4>1. PICK n \in less : TRUE
        BY <2>5
      <4>2. To(ns, query, n) <= To(ns, query, far)
        BY <2>2, <4>1
      <4>3. To(ns, query, n) \in Int /\ To(ns, query, far) \in Int /\ To(ns, query, entry) \in Int
        BY <2>1, <2>2, <4>1, ToInt
      <4>4. To(ns, query, n) <= To(ns, query, entry)
        BY <3>1, <3>3, <4>2, <4>3
      <4>. QED
        BY <4>1, <4>4
    <3>. QED
      BY <3>2, <3>3
  <2>7. \A n \in less : ns[n].id \in passing /\ (n = entry \/ ~ ns[n].deleted)
    BY Zenon DEF Fair
  <2>8. Fair(ns, query, entry, passing, less)
    BY <2>6, <2>7, Zenon DEF Fair
  <2>9. less \in SUBSET C
    OBVIOUS
  <2>. QED
    BY <1>3, <2>4, <2>8, <2>9 DEF far
<1>. QED
  BY <1>2, <1>3

\* A neighbour is seen.
LEMMA VisitSees ==
    ASSUME NEW ns, NEW query, NEW ef, NEW passing, NEW s, NEW n
    PROVE  Visit(ns, query, ef, passing, s, n).visited = s.visited \cup {n}
<1> DEFINE x == Visit(ns, query, ef, passing, s, n)
           Candidates == x.candidates
           Results == x.results
<1>1. x = [candidates |-> Candidates, visited |-> s.visited \cup {n}, results |-> Results]
  BY DEF Visit
<1>. HIDE DEF x, Candidates, Results
<1>2. x.visited = s.visited \cup {n}
  BY <1>1
<1>. QED
  BY <1>2 DEF x

\* A visited neighbour leads to another state of the walk.
LEMMA VisitWalks ==
    ASSUME NEW ns \in Seq(NodeRecords), NEW query \in Int, NEW C \in SUBSET DOMAIN ns, NEW entry \in C,
           NEW ef \in Nat \ {0}, NEW passing
    PROVE  \A s \in Walked(ns, query, entry, ef, passing, C), n \in C :
                Visit(ns, query, ef, passing, s, n) \in Walked(ns, query, entry, ef, passing, C)
<1> SUFFICES ASSUME NEW s \in Walked(ns, query, entry, ef, passing, C), NEW n \in C
             PROVE  Visit(ns, query, ef, passing, s, n) \in Walked(ns, query, entry, ef, passing, C)
  OBVIOUS
<1> DEFINE more == IF ns[n].id \in passing THEN s.results \cup {n} ELSE s.results
           leftOut == \/ n \in s.visited \/ ns[n].deleted
                      \/ Full(s.results, ef) /\ To(ns, query, n) >= Worst(ns, query, s.results)
           trimmed == IF Cardinality(more) > ef THEN more \ {FarthestOf(ns, query, more)} ELSE more
           candidates == IF leftOut THEN s.candidates ELSE s.candidates \cup {n}
           results == IF leftOut THEN s.results ELSE trimmed
           visited == s.visited \cup {n}
<1>1. Visit(ns, query, ef, passing, s, n) = [candidates |-> candidates, visited |-> visited, results |-> results]
  BY Zenon DEF Visit
<1>2. /\ s.candidates \in SUBSET C /\ s.visited \in SUBSET C /\ s.results \in SUBSET C
      /\ Cardinality(s.results) <= ef /\ Fair(ns, query, entry, passing, s.results)
  BY DEF Walked
<1>3. candidates \in SUBSET C /\ visited \in SUBSET C
  BY <1>2
<1>4. results \in SUBSET C /\ Cardinality(results) <= ef /\ Fair(ns, query, entry, passing, results)
  <2>1. CASE leftOut
    BY <1>2, <2>1
  <2>2. CASE ~ leftOut
    <3>1. ~ ns[n].deleted
      BY <2>2
    <3>2. more \in SUBSET C /\ s.results \in SUBSET more
      BY <1>2
    <3>3. Cardinality(more) <= ef + 1
      <4>1. IsFiniteSet(s.results) /\ Cardinality(s.results) \in Nat
        BY <1>2, NodesFinite
      <4>2. Cardinality(s.results \cup {n}) <= Cardinality(s.results) + 1
            /\ Cardinality(s.results \cup {n}) \in Nat
        <5>. HIDE DEF more, leftOut, trimmed, candidates, results, visited
        <5>1. Cardinality(s.results \cup {n}) = IF n \in s.results THEN Cardinality(s.results) ELSE Cardinality(s.results) + 1
          BY <4>1, FS_AddElement
        <5>. QED
          BY <4>1, <5>1
      <4>. QED
        BY <1>2, <4>1, <4>2
    <3>4. \A m \in more : ns[m].id \in passing /\ (m = entry \/ ~ ns[m].deleted)
      <4>1. \A m \in s.results : ns[m].id \in passing /\ (m = entry \/ ~ ns[m].deleted)
        BY <1>2, Zenon DEF Fair
      <4>2. \A m \in more : m \in s.results \/ (m = n /\ ns[n].id \in passing)
        BY Zenon
      <4>. HIDE DEF more
      <4>. QED
        BY <3>1, <4>1, <4>2, Zenon
    <3>5. ns[entry].id \in passing => \E m \in more : To(ns, query, m) <= To(ns, query, entry)
      BY <1>2, <3>2, Zenon DEF Fair
    <3>6. Fair(ns, query, entry, passing, more)
      <4>. HIDE DEF more
      <4>. QED
        BY <3>4, <3>5, Zenon DEF Fair
    <3>7. trimmed \in SUBSET C /\ Cardinality(trimmed) <= ef /\ Fair(ns, query, entry, passing, trimmed)
      <4>. HIDE DEF more
      <4>. QED
        BY <3>2, <3>3, <3>6, TrimmedIs
    <3>. HIDE DEF leftOut, trimmed
    <3>. QED
      BY <2>2, <3>7
  <2>. QED
    BY <2>1, <2>2
<1>. HIDE DEF candidates, visited, results
<1>. QED
  BY <1>1, <1>3, <1>4 DEF Walked

\* Neighbours at a layer do not lead out of C.
Closed(ns, layer, C) == C \in SUBSET DOMAIN ns /\ \A n \in C : SetOf(Neighbours(ns[n], layer)) \in SUBSET C

\* Neighbours are a sequence.
LEMMA NeighboursAre ==
    ASSUME NEW ns \in Seq(NodeRecords), NEW n \in DOMAIN ns, NEW layer \in Nat
    PROVE  LET ms == Neighbours(ns[n], layer)
           IN  /\ ms \in Seq(Nat) /\ Len(ms) \in Nat /\ DOMAIN ms = 1 .. Len(ms)
               /\ \A i \in DOMAIN ms : ms[i] \in SetOf(ms)
               /\ SetOf(ms) \in SUBSET Nat
<1> DEFINE ms == Neighbours(ns[n], layer)
           L == Seq(Nat)
<1>1. ns[n].layers \in Seq(L)
  BY NodesAre
<1>2. ms \in L
  <2>1. CASE HasLayer(ns[n], layer)
    <3>1. layer + 1 \in 1 .. Len(ns[n].layers) /\ 1 .. Len(ns[n].layers) = DOMAIN ns[n].layers
      <4>. HIDE DEF L
      <4>. QED
        BY <1>1, <2>1 DEF HasLayer
    <3>2. ns[n].layers[layer + 1] \in L
      <4>. HIDE DEF L
      <4>. QED
        BY <1>1, <3>1
    <3>. QED
      BY <2>1, <3>2, Zenon DEF Neighbours
  <2>2. CASE ~ HasLayer(ns[n], layer)
    <3>1. ms = <<>>
      BY <2>2, Zenon DEF Neighbours
    <3>2. <<>> \in Seq(Nat)
      OBVIOUS
    <3>. QED
      BY <3>1, <3>2, Zenon
  <2>. QED
    BY <2>1, <2>2
<1>. HIDE DEF ms
<1>3. ms \in Seq(Nat) /\ Len(ms) \in Nat /\ DOMAIN ms = 1 .. Len(ms) /\ \A i \in DOMAIN ms : ms[i] \in Nat
  BY <1>2
<1>. QED
  BY <1>3 DEF SetOf, ms

\* An expansion leads from a set of states into itself when visits do, and visits
\* all neighbours of the nearest candidate unless the walk has ended.
LEMMA ExpandWithin ==
    ASSUME NEW ns \in Seq(NodeRecords), NEW query \in Int, NEW layer \in Nat, NEW C, Closed(ns, layer, C),
           NEW ef, NEW passing, NEW W,
           \A x \in W : x.candidates \in SUBSET C,
           \A x \in W : [x EXCEPT !.candidates = @ \ {NearestOf(ns, query, x.candidates)}] \in W,
           \A x \in W, n \in C : Visit(ns, query, ef, passing, x, n) \in W,
           \A x \in W : DOMAIN x = {"candidates", "visited", "results"},
           NEW s \in W
    PROVE  LET x == Expand(ns, query, ef, layer, passing, s)
               cur == NearestOf(ns, query, s.candidates)
           IN  /\ x \in W /\ s.visited \in SUBSET x.visited
               /\ ~ (s.candidates = {} \/ (Full(s.results, ef) /\ To(ns, query, cur) > Worst(ns, query, s.results)))
                    => SetOf(Neighbours(ns[cur], layer)) \in SUBSET x.visited
<1> DEFINE cur == NearestOf(ns, query, s.candidates)
           ms == Neighbours(ns[cur], layer)
           popped == [s EXCEPT !.candidates = @ \ {cur}]
           Ended == s.candidates = {} \/ (Full(s.results, ef) /\ To(ns, query, cur) > Worst(ns, query, s.results))
           x == Expand(ns, query, ef, layer, passing, s)
           final == VisitEach(ns, query, ef, passing, popped, ms)[Len(ms)]
<1>1. x = IF Ended THEN s ELSE final
  BY Zenon DEF Expand
<1>2. CASE Ended
  <2>. HIDE DEF Ended
  <2>1. x = s
    BY <1>1, <1>2, Zenon
  <2>. QED
    BY <1>2, <2>1 DEF Ended
<1>3. CASE ~ Ended
  <2>1. x = final
    <3>. HIDE DEF Ended, final
    <3>. QED
      BY <1>1, <1>3, Zenon
  <2>2. cur \in C /\ C \in SUBSET DOMAIN ns
    <3>1. s.candidates # {} /\ s.candidates \in SUBSET C /\ C \in SUBSET DOMAIN ns
      BY <1>3 DEF Closed
    <3>. QED
      BY <3>1, NearestIs
  <2>3. SetOf(ms) \in SUBSET C /\ ms \in Seq(Nat) /\ Len(ms) \in Nat /\ DOMAIN ms = 1 .. Len(ms)
        /\ \A i \in DOMAIN ms : ms[i] \in SetOf(ms)
    <3>1. SetOf(ms) \in SUBSET C
      BY <2>2 DEF Closed
    <3>2. ms \in Seq(Nat) /\ Len(ms) \in Nat /\ DOMAIN ms = 1 .. Len(ms) /\ \A i \in DOMAIN ms : ms[i] \in SetOf(ms)
      <4>1. cur \in DOMAIN ns
        BY <2>2
      <4>. HIDE DEF cur
      <4>. QED
        BY <4>1, NeighboursAre
    <3>. QED
      BY <3>1, <3>2
  <2>4. popped \in W /\ popped.visited = s.visited
    <3>1. DOMAIN s = {"candidates", "visited", "results"}
      OBVIOUS
    <3>2. popped.visited = s.visited
      BY <3>1
    <3>. QED
      BY <3>2
  <2> DEFINE V == [i \in 0 .. Len(ms) |-> {y \in W : s.visited \in SUBSET y.visited /\ \A j \in 1 .. i : ms[j] \in y.visited}]
  <2>. HIDE DEF cur, ms, popped
  <2>5. final \in V[Len(ms)]
    <3>1. popped \in V[0]
      BY <2>3, <2>4
    <3>2. \A n \in 1 .. Len(ms) : \A y \in V[n - 1] : Visit(ns, query, ef, passing, y, ms[n]) \in V[n]
      <4> SUFFICES ASSUME NEW n \in 1 .. Len(ms), NEW y \in V[n - 1]
                   PROVE  Visit(ns, query, ef, passing, y, ms[n]) \in V[n]
        OBVIOUS
      <4> DEFINE z == Visit(ns, query, ef, passing, y, ms[n])
      <4>1. n - 1 \in 0 .. Len(ms) /\ n \in 0 .. Len(ms) /\ \A j \in 1 .. n : j \in 1 .. n - 1 \/ j = n
        BY <2>3
      <4>2. y \in W /\ s.visited \in SUBSET y.visited /\ \A j \in 1 .. n - 1 : ms[j] \in y.visited
        BY <4>1
      <4>3. ms[n] \in C
        BY <2>3
      <4>4. z \in W /\ z.visited = y.visited \cup {ms[n]}
        BY <4>2, <4>3, VisitSees
      <4>. HIDE DEF z
      <4>5. s.visited \in SUBSET z.visited /\ \A j \in 1 .. n : ms[j] \in z.visited
        BY <4>1, <4>2, <4>4
      <4>. QED
        BY <4>1, <4>4, <4>5 DEF z
    <3>. HIDE DEF V
    <3>. QED
      BY <2>3, <3>1, <3>2, VisitEachWithin
  <2>6. final \in W /\ s.visited \in SUBSET final.visited /\ \A j \in 1 .. Len(ms) : ms[j] \in final.visited
    <3>1. Len(ms) \in 0 .. Len(ms)
      BY <2>3
    <3>. HIDE DEF final
    <3>. QED
      BY <2>5, <3>1
  <2>7. SetOf(ms) \in SUBSET final.visited
    <3>. HIDE DEF final
    <3>. QED
      BY <2>3, <2>6 DEF SetOf
  <2>. HIDE DEF final, x
  <2>. QED
    BY <2>1, <2>6, <2>7 DEF x, cur, ms
<1>. QED
  BY <1>2, <1>3

\* A search of a layer finds no more than wanted, among the nodes C, and fairly.
LEMMA SearchLayerIs ==
    ASSUME NEW ns \in Seq(NodeRecords), NEW query \in Int, NEW layer \in Nat, NEW C, Closed(ns, layer, C),
           NEW entry \in C, NEW ef \in Nat \ {0}, NEW passing
    PROVE  LET found == SearchLayer(ns, query, entry, ef, layer, passing)
           IN  found \in SUBSET C /\ Cardinality(found) <= ef /\ Fair(ns, query, entry, passing, found)
<1> DEFINE S == Walked(ns, query, entry, ef, passing, C)
           W == [i \in 0 .. Len(ns) |-> S]
           start == Start(ns, entry, passing)
<1>1. Len(ns) \in Nat /\ C \in SUBSET DOMAIN ns
  BY NodesAre DEF Closed
<1>2. start \in S
  <2> DEFINE R == {n \in {entry} : ns[n].id \in passing}
  <2>1. start = [candidates |-> {entry}, visited |-> {entry}, results |-> R]
    BY Zenon DEF Start
  <2>2. R = {} \/ R = {entry}
    OBVIOUS
  <2>3. Cardinality(R) <= ef
    <3>1. Cardinality({}) = 0 /\ Cardinality({entry}) = 1
      BY FS_EmptySet, FS_Singleton
    <3>. HIDE DEF R
    <3>2. Cardinality(R) = 0 \/ Cardinality(R) = 1
      BY <2>2, <3>1, Zenon
    <3>. QED
      BY <3>2
  <2>4. Fair(ns, query, entry, passing, R)
    <3>1. To(ns, query, entry) <= To(ns, query, entry)
      BY <1>1, ToInt
    <3>2. \A n \in R : n = entry /\ ns[n].id \in passing
      OBVIOUS
    <3>3. ns[entry].id \in passing => entry \in R
      OBVIOUS
    <3>. HIDE DEF R
    <3>. QED
      BY <3>1, <3>2, <3>3, Zenon DEF Fair
  <2>5. R \in SUBSET C
    OBVIOUS
  <2>. HIDE DEF R, start
  <2>. QED
    BY <2>1, <2>3, <2>4, <2>5 DEF Walked
<1>3. \A x \in S : Expand(ns, query, ef, layer, passing, x) \in S
  <2>1. \A x \in S : /\ x.candidates \in SUBSET C /\ x \in [candidates : SUBSET C, visited : SUBSET C, results : SUBSET C]
                     /\ Cardinality(x.results) <= ef /\ Fair(ns, query, entry, passing, x.results)
    BY DEF Walked
  <2>2. \A x \in S : DOMAIN x = {"candidates", "visited", "results"}
    BY <2>1
  <2>3. \A x \in S : [x EXCEPT !.candidates = @ \ {NearestOf(ns, query, x.candidates)}] \in S
    <3> SUFFICES ASSUME NEW x \in S
                 PROVE  [x EXCEPT !.candidates = @ \ {NearestOf(ns, query, x.candidates)}] \in S
      OBVIOUS
    <3> DEFINE y == [x EXCEPT !.candidates = @ \ {NearestOf(ns, query, x.candidates)}]
    <3>1. y \in [candidates : SUBSET C, visited : SUBSET C, results : SUBSET C] /\ y.results = x.results
      BY <2>1
    <3>2. Cardinality(y.results) <= ef /\ Fair(ns, query, entry, passing, y.results)
      BY <2>1, <3>1, Zenon
    <3>. HIDE DEF y
    <3>3. y \in S
      BY <3>1, <3>2, Zenon DEF Walked
    <3>. QED
      BY <3>3 DEF y
  <2>4. \A x \in S, n \in C : Visit(ns, query, ef, passing, x, n) \in S
    BY <1>1, VisitWalks
  <2>. HIDE DEF S
  <2>. QED
    BY <2>1, <2>2, <2>3, <2>4, ExpandWithin
<1>4. Walk(ns, query, entry, ef, layer, passing)[Len(ns)] \in S
  <2>1. start \in W[0] /\ W[Len(ns)] = S /\ \A n \in 1 .. Len(ns) : W[n] = S /\ W[n - 1] = S
    <3>1. \A n \in 0 .. Len(ns) : W[n] = S
      OBVIOUS
    <3>2. 0 \in 0 .. Len(ns) /\ Len(ns) \in 0 .. Len(ns)
          /\ \A n \in 1 .. Len(ns) : n \in 0 .. Len(ns) /\ n - 1 \in 0 .. Len(ns)
      BY <1>1
    <3>. HIDE DEF W, S, start
    <3>. QED
      BY <1>2, <3>1, <3>2
  <2>. HIDE DEF W, S
  <2>2. \A n \in 1 .. Len(ns) : \A x \in W[n - 1] : Expand(ns, query, ef, layer, passing, x) \in W[n]
    BY <1>3, <2>1
  <2>. QED
    BY <1>1, <2>1, <2>2, WalkWithin
<1>. QED
  <2> DEFINE x == Walk(ns, query, entry, ef, layer, passing)[Len(ns)]
  <2>1. x.results \in SUBSET C /\ Cardinality(x.results) <= ef /\ Fair(ns, query, entry, passing, x.results)
    <3>. HIDE DEF x
    <3>. QED
      BY <1>4 DEF Walked, x
  <2>2. SearchLayer(ns, query, entry, ef, layer, passing) = x.results
    BY Zenon DEF SearchLayer
  <2>. HIDE DEF x
  <2>. QED
    BY <2>1, <2>2

LiveIn(ns, C) == {n \in C : ~ ns[n].deleted}

\* A search that starts at a live node finds all of C that is live and passes, when it
\* may find as many, and every other live node is a neighbour of that one.
LEMMA SearchLayerFindsAll ==
    ASSUME NEW ns \in Seq(NodeRecords), NEW query \in Int, NEW layer \in Nat, NEW C, Closed(ns, layer, C),
           NEW ef \in Nat \ {0}, NEW passing, NEW entry \in LiveIn(ns, C), Cardinality(LiveIn(ns, C)) <= ef,
           LiveIn(ns, C) \in SUBSET ({entry} \cup SetOf(Neighbours(ns[entry], layer)))
    PROVE  SearchLayer(ns, query, entry, ef, layer, passing) = {n \in LiveIn(ns, C) : ns[n].id \in passing}
<1> DEFINE L == LiveIn(ns, C)
           Among(V) == {n \in V : ~ ns[n].deleted /\ ns[n].id \in passing}
           S == {s \in [candidates : SUBSET C, visited : SUBSET C, results : SUBSET C] : s.results = Among(s.visited)}
           start == Start(ns, entry, passing)
           W == [i \in 0 .. Len(ns) |-> IF i = 0 THEN {start} ELSE {s \in S : L \in SUBSET s.visited}]
<1>1. Len(ns) \in Nat /\ C \in SUBSET DOMAIN ns /\ entry \in C /\ ~ ns[entry].deleted
  BY NodesAre DEF Closed, LiveIn
<1>2. L \in SUBSET C /\ \A n \in C : n \in L <=> ~ ns[n].deleted
  BY Zenon DEF LiveIn
<1>3. IsFiniteSet(L) /\ Cardinality(L) \in Nat /\ Cardinality(L) <= ef
  <2>1. L \in SUBSET DOMAIN ns
    BY <1>1, <1>2
  <2>. QED
    BY <2>1, NodesFinite
<1>4. start = [candidates |-> {entry}, visited |-> {entry}, results |-> Among({entry})]
  <2>1. {n \in {entry} : ns[n].id \in passing} = Among({entry})
    BY <1>1
  <2>. QED
    BY <2>1, Zenon DEF Start
<1>5. start \in S
  <2>1. Among({entry}) \in SUBSET C
    BY <1>1
  <2>. HIDE DEF Among, start
  <2>. QED
    BY <1>1, <1>4, <2>1
<1>6. \A s \in S : /\ s.candidates \in SUBSET C /\ s.visited \in SUBSET C /\ s.results = Among(s.visited)
                   /\ DOMAIN s = {"candidates", "visited", "results"}
                   /\ s \in [candidates : SUBSET C, visited : SUBSET C, results : SUBSET C]
  <2>. HIDE DEF Among
  <2>. QED
    OBVIOUS
<1>7. \A s \in S : [s EXCEPT !.candidates = @ \ {NearestOf(ns, query, s.candidates)}] \in S
  <2> SUFFICES ASSUME NEW s \in S
               PROVE  [s EXCEPT !.candidates = @ \ {NearestOf(ns, query, s.candidates)}] \in S
    OBVIOUS
  <2>. HIDE DEF Among
  <2> DEFINE y == [s EXCEPT !.candidates = @ \ {NearestOf(ns, query, s.candidates)}]
  <2>1. y \in [candidates : SUBSET C, visited : SUBSET C, results : SUBSET C] /\ y.results = s.results
        /\ y.visited = s.visited /\ s.results = Among(s.visited)
    BY <1>6
  <2>. HIDE DEF y
  <2>2. y \in S
    BY <2>1
  <2>. QED
    BY <2>2 DEF y
<1>8. \A s \in S, n \in C : Visit(ns, query, ef, passing, s, n) \in S
  <2> SUFFICES ASSUME NEW s \in S, NEW n \in C
               PROVE  Visit(ns, query, ef, passing, s, n) \in S
    OBVIOUS
  <2> DEFINE more == IF ns[n].id \in passing THEN s.results \cup {n} ELSE s.results
             leftOut == \/ n \in s.visited \/ ns[n].deleted
                        \/ Full(s.results, ef) /\ To(ns, query, n) >= Worst(ns, query, s.results)
             trimmed == IF Cardinality(more) > ef THEN more \ {FarthestOf(ns, query, more)} ELSE more
             candidates == IF leftOut THEN s.candidates ELSE s.candidates \cup {n}
             results == IF leftOut THEN s.results ELSE trimmed
             visited == s.visited \cup {n}
             y == Visit(ns, query, ef, passing, s, n)
  <2>1. y = [candidates |-> candidates, visited |-> visited, results |-> results]
    BY Zenon DEF Visit
  <2>2. s.candidates \in SUBSET C /\ s.visited \in SUBSET C /\ s.results = Among(s.visited)
    <3>. HIDE DEF Among
    <3>. QED
      BY <1>6
  <2>3. candidates \in SUBSET C /\ visited \in SUBSET C
    BY <2>2
  <2>4. s.results \in SUBSET L /\ s.results \in SUBSET s.visited
    BY <1>2, <2>2
  <2>5. results = Among(visited)
    <3>1. CASE n \in s.visited \/ ns[n].deleted
      <4>1. results = s.results
        BY <3>1
      <4>2. Among(visited) = Among(s.visited)
        BY <3>1
      <4>. QED
        BY <2>2, <4>1, <4>2, Zenon
    <3>2. CASE ~ (n \in s.visited \/ ns[n].deleted)
      <4>1. n \in L /\ n \notin s.results
        BY <1>2, <2>4, <3>2
      <4>2. IsFiniteSet(s.results) /\ Cardinality(s.results) \in Nat
            /\ Cardinality(s.results \cup {n}) = Cardinality(s.results) + 1 /\ IsFiniteSet(s.results \cup {n})
        BY <1>3, <2>4, <4>1, FS_Subset, FS_AddElement, FS_CardinalityType
      <4>3. s.results \cup {n} \in SUBSET L
        BY <2>4, <4>1
      <4>4. Cardinality(s.results \cup {n}) <= Cardinality(L)
        BY <1>3, <4>3, FS_Subset
      <4>5. Cardinality(s.results) + 1 <= ef
        BY <1>3, <4>2, <4>4
      <4>6. ~ Full(s.results, ef)
        BY <4>2, <4>5 DEF Full
      <4>7. ~ leftOut
        BY <3>2, <4>6, Zenon
      <4>8. Cardinality(more) <= ef /\ Cardinality(more) \in Nat
        BY <4>2, <4>5
      <4>9. results = more
        <5>. HIDE DEF leftOut, more
        <5>. QED
          BY <4>7, <4>8
      <4>10. more = Among(visited)
        BY <2>2, <3>2
      <4>. QED
        BY <4>9, <4>10, Zenon
    <3>. QED
      BY <3>1, <3>2
  <2>6. results \in SUBSET C
    <3>1. Among(visited) \in SUBSET visited
      OBVIOUS
    <3>. HIDE DEF results, visited, Among
    <3>. QED
      BY <2>3, <2>5, <3>1
  <2>7. y \in S
    <3>. HIDE DEF candidates, results, visited, Among, y
    <3>. QED
      BY <2>1, <2>3, <2>5, <2>6
  <2>. QED
    BY <2>7
<1>9. \A s \in S : LET x == Expand(ns, query, ef, layer, passing, s)
                       cur == NearestOf(ns, query, s.candidates)
                   IN  /\ x \in S /\ s.visited \in SUBSET x.visited
                       /\ ~ (s.candidates = {} \/ (Full(s.results, ef) /\ To(ns, query, cur) > Worst(ns, query, s.results)))
                            => SetOf(Neighbours(ns[cur], layer)) \in SUBSET x.visited
  <2>1. (\A x \in S : x.candidates \in SUBSET C) /\ \A x \in S : DOMAIN x = {"candidates", "visited", "results"}
    <3>. HIDE DEF S
    <3>. QED
      BY <1>6
  <2>. HIDE DEF S
  <2>. QED
    BY <1>7, <1>8, <2>1, ExpandWithin
<1>10. Expand(ns, query, ef, layer, passing, start) \in {s \in S : L \in SUBSET s.visited}
  <2> DEFINE x == Expand(ns, query, ef, layer, passing, start)
             cur == NearestOf(ns, query, start.candidates)
  <2>1. start.candidates = {entry} /\ start.visited = {entry} /\ start.results = Among({entry})
    <3>. HIDE DEF Among, start
    <3>. QED
      BY <1>4
  <2>2. cur = entry
    <3>1. {entry} \in SUBSET DOMAIN ns /\ {entry} # {}
      BY <1>1
    <3>2. NearestOf(ns, query, {entry}) \in {entry}
      BY <3>1, NearestIs
    <3>. HIDE DEF start
    <3>. QED
      BY <2>1, <3>2
  <2>3. ~ (Full(start.results, ef) /\ To(ns, query, entry) > Worst(ns, query, start.results))
    <3>1. start.results = {} \/ start.results = {entry}
      <4>. HIDE DEF start
      <4>. QED
        BY <2>1
    <3>2. CASE start.results = {}
      <4>1. Cardinality(start.results) = 0
        BY <3>2, FS_EmptySet
      <4>. HIDE DEF start
      <4>. QED
        BY <4>1 DEF Full
    <3>3. CASE start.results = {entry}
      <4>1. {entry} \in SUBSET DOMAIN ns /\ {entry} # {}
        BY <1>1
      <4>2. FarthestOf(ns, query, {entry}) = entry
        BY <4>1, FarthestIs
      <4>3. Worst(ns, query, start.results) = To(ns, query, entry)
        BY <3>3, <4>2, Zenon DEF Worst
      <4>4. To(ns, query, entry) \in Int
        BY <1>1, ToInt
      <4>. HIDE DEF start
      <4>. QED
        BY <4>3, <4>4
    <3>. QED
      BY <3>1, <3>2, <3>3
  <2>4. ~ (start.candidates = {} \/ (Full(start.results, ef) /\ To(ns, query, cur) > Worst(ns, query, start.results)))
    <3>1. start.candidates # {}
      BY <2>1
    <3>. HIDE DEF start, cur
    <3>. QED
      BY <2>2, <2>3, <3>1, Zenon
  <2>5. x \in S /\ {entry} \in SUBSET x.visited /\ SetOf(Neighbours(ns[entry], layer)) \in SUBSET x.visited
    <3>. HIDE DEF start, S
    <3>. QED
      BY <1>5, <1>9, <2>1, <2>2, <2>4
  <2>6. L \in SUBSET x.visited
    <3>. HIDE DEF x
    <3>. QED
      BY <2>5
  <2>. QED
    BY <2>5, <2>6
<1>11. \A n \in 1 .. Len(ns) : \A x \in W[n - 1] : Expand(ns, query, ef, layer, passing, x) \in W[n]
  <2> SUFFICES ASSUME NEW n \in 1 .. Len(ns), NEW x \in W[n - 1]
               PROVE  Expand(ns, query, ef, layer, passing, x) \in W[n]
    OBVIOUS
  <2>1. n \in 0 .. Len(ns) /\ n - 1 \in 0 .. Len(ns) /\ n # 0
    BY <1>1
  <2>. HIDE DEF S, start
  <2>2. W[n] = {s \in S : L \in SUBSET s.visited}
        /\ (n - 1 = 0 => x = start) /\ (n - 1 # 0 => x \in S /\ L \in SUBSET x.visited)
    BY <2>1
  <2>3. CASE n - 1 = 0
    BY <1>10, <2>2, <2>3
  <2>4. CASE n - 1 # 0
    <3> DEFINE z == Expand(ns, query, ef, layer, passing, x)
    <3>1. z \in S /\ x.visited \in SUBSET z.visited
      BY <1>9, <2>2, <2>4
    <3>. HIDE DEF z
    <3>2. z \in {s \in S : L \in SUBSET s.visited}
      BY <2>2, <2>4, <3>1
    <3>. QED
      BY <2>2, <3>2 DEF z
  <2>. QED
    BY <2>3, <2>4
<1> DEFINE x == Walk(ns, query, entry, ef, layer, passing)[Len(ns)]
<1>12. x \in S /\ L \in SUBSET x.visited
  <2>1. start \in W[0]
    BY <1>1
  <2>2. Len(ns) # 0
    BY <1>1, NodesAre
  <2>3. W[Len(ns)] = {s \in S : L \in SUBSET s.visited}
    <3>. HIDE DEF S, start
    <3>. QED
      BY <1>1, <2>2
  <2>4. x \in W[Len(ns)]
    <3>. HIDE DEF W
    <3>. QED
      BY <1>1, <1>11, <2>1, WalkWithin
  <2>. HIDE DEF x, W, S
  <2>. QED
    BY <2>3, <2>4
<1>13. x.results = {n \in L : ns[n].id \in passing}
  <2>1. x.visited \in SUBSET C /\ x.results = Among(x.visited)
    <3>. HIDE DEF Among, x, S
    <3>. QED
      BY <1>6, <1>12
  <2>. HIDE DEF x
  <2>. QED
    BY <1>2, <1>12, <2>1
<1>. QED
  BY <1>13, Zenon DEF SearchLayer, LiveIn

-----------------------------------------------------------------------------
(* The descent.                                                            *)

\* The next node to enter by is no farther, if the last one passed, and none that
\* is deleted, unless it is the last one.
LEMMA NearerIs ==
    ASSUME NEW ns \in Seq(NodeRecords), NEW query \in Int, NEW layer \in Nat, NEW C, Closed(ns, layer, C),
           NEW entry \in C, NEW passing
    PROVE  LET next == Nearer(ns, query, entry, layer, passing)
           IN  /\ next \in C /\ (next = entry \/ ~ ns[next].deleted)
               /\ ns[entry].id \in passing => To(ns, query, next) <= To(ns, query, entry)
<1> DEFINE found == SearchLayer(ns, query, entry, 1, layer, passing)
           next == Nearer(ns, query, entry, layer, passing)
<1>1. found \in SUBSET C /\ Fair(ns, query, entry, passing, found)
  <2>1. 1 \in Nat \ {0}
    OBVIOUS
  <2>. QED
    BY <2>1, SearchLayerIs
<1>2. next = IF found = {} THEN entry ELSE NearestOf(ns, query, found)
  BY Zenon DEF Nearer
<1>3. C \in SUBSET DOMAIN ns
  BY DEF Closed
<1>. HIDE DEF found, next
<1>4. CASE found = {}
  <2>1. next = entry /\ ~ (ns[entry].id \in passing)
    BY <1>1, <1>2, <1>4, Zenon DEF Fair
  <2>. QED
    BY <2>1 DEF next
<1>5. CASE found # {}
  <2>1. next = NearestOf(ns, query, found) /\ found \in SUBSET DOMAIN ns
    BY <1>1, <1>2, <1>3, <1>5
  <2>2. next \in found /\ \A m \in found : To(ns, query, next) <= To(ns, query, m)
    BY <1>5, <2>1, NearestIs
  <2>3. next = entry \/ ~ ns[next].deleted
    BY <1>1, <2>2, Zenon DEF Fair
  <2>4. ns[entry].id \in passing => To(ns, query, next) <= To(ns, query, entry)
    <3> SUFFICES ASSUME ns[entry].id \in passing PROVE To(ns, query, next) <= To(ns, query, entry)
      OBVIOUS
    <3>1. PICK m \in found : To(ns, query, m) <= To(ns, query, entry)
      BY <1>1, Zenon DEF Fair
    <3>2. To(ns, query, m) \in Int /\ To(ns, query, next) \in Int /\ To(ns, query, entry) \in Int
      BY <1>3, <2>1, <2>2, ToInt
    <3>. QED
      BY <2>2, <3>1, <3>2
  <2>5. next \in C
    BY <1>1, <2>2
  <2>. QED
    BY <2>3, <2>4, <2>5 DEF next
<1>. QED
  BY <1>4, <1>5

\* Nor is the node that the descent arrives at.
LEMMA DescendIs ==
    ASSUME NEW ns \in Seq(NodeRecords), NEW query \in Int, NEW high \in Nat, NEW low \in Nat,
           NEW C \in SUBSET DOMAIN ns, \A layer \in low + 1 .. high : Closed(ns, layer, C),
           NEW entry \in C, NEW passing
    PROVE  LET d == Descend(ns, query, entry, high, low, passing)
           IN  /\ d \in C /\ (d = entry \/ ~ ns[d].deleted)
               /\ (\A n \in C : ns[n].id \in passing) => To(ns, query, d) <= To(ns, query, entry)
<1> DEFINE b == IF high > low THEN high - low ELSE 0
           S == {n \in C : /\ n = entry \/ ~ ns[n].deleted
                           /\ (\A m \in C : ns[m].id \in passing) => To(ns, query, n) <= To(ns, query, entry)}
           W == [i \in 0 .. b |-> S]
           After(x, i) == Nearer(ns, query, x, high + 1 - i, passing)
           step == [n \in 0 .. b |-> [x \in S |-> After(x, n)]]
           Is(f) == f = [n \in 0 .. b |-> IF n = 0 THEN entry ELSE After(f[n - 1], n)]
           at == CHOOSE f : Is(f)
<1>1. b \in Nat /\ 0 \in Nat /\ \A i \in 0 .. b : i # 0 => high + 1 - i \in Nat /\ high + 1 - i \in low + 1 .. high
  OBVIOUS
<1>2. entry \in S
  <2>1. To(ns, query, entry) <= To(ns, query, entry)
    BY ToInt
  <2>. QED
    BY <2>1
<1>3. \A i \in 0 .. b : i # 0 => \A x \in S : After(x, i) \in S
  <2> SUFFICES ASSUME NEW i \in 0 .. b, i # 0, NEW x \in S PROVE After(x, i) \in S
    OBVIOUS
  <2> DEFINE next == After(x, i)
  <2>1. high + 1 - i \in Nat /\ Closed(ns, high + 1 - i, C)
    BY <1>1
  <2>2. x \in C /\ (x = entry \/ ~ ns[x].deleted)
        /\ ((\A m \in C : ns[m].id \in passing) => To(ns, query, x) <= To(ns, query, entry))
    BY Zenon
  <2>3. next \in C /\ (next = x \/ ~ ns[next].deleted)
        /\ (ns[x].id \in passing => To(ns, query, next) <= To(ns, query, x))
    <3>. HIDE DEF S
    <3>. QED
      BY <2>1, <2>2, NearerIs
  <2>. HIDE DEF next
  <2>4. next = entry \/ ~ ns[next].deleted
    BY <2>2, <2>3, Zenon
  <2>5. (\A m \in C : ns[m].id \in passing) => To(ns, query, next) <= To(ns, query, entry)
    <3>1. To(ns, query, x) \in Int /\ To(ns, query, next) \in Int /\ To(ns, query, entry) \in Int
      BY <2>2, <2>3, ToInt
    <3> SUFFICES ASSUME \A m \in C : ns[m].id \in passing PROVE To(ns, query, next) <= To(ns, query, entry)
      OBVIOUS
    <3>2. To(ns, query, x) <= To(ns, query, entry) /\ To(ns, query, next) <= To(ns, query, x)
      BY <2>2, <2>3
    <3>. QED
      BY <3>1, <3>2
  <2>6. next \in S
    BY <2>3, <2>4, <2>5, Zenon
  <2>. QED
    BY <2>6 DEF next
<1>4. \A i \in 0 .. b : W[i] = S
  OBVIOUS
<1>. HIDE DEF S, W, b, After
<1>5. \A i \in 0 .. b : i # 0 => i - 1 \in 0 .. b
  BY <1>1
<1>6. \E f : Is(f)
  <2>1. \A n \in 0 .. b : n # 0 => \A x \in W[n - 1] : step[n][x] = After(x, n)
    BY <1>4, <1>5
  <2>2. PICK f : Iterates(f, 0, b, entry, step) /\ \A n \in 0 .. b : f[n] \in W[n]
    <3>. HIDE DEF step, Is
    <3>1. \A n \in 0 .. b : n # 0 => \A x \in W[n - 1] : step[n][x] \in W[n]
      BY <1>3, <1>4, <1>5, <2>1
    <3>2. entry \in W[0]
      BY <1>1, <1>2, <1>4
    <3>. QED
      BY <1>1, <3>1, <3>2, IteratedWithin
  <2>3. \A n \in 0 .. b : (IF n = 0 THEN entry ELSE step[n][f[n - 1]]) = IF n = 0 THEN entry ELSE After(f[n - 1], n)
    <3>. HIDE DEF step
    <3>. QED
      BY <1>5, <2>1, <2>2
  <2>. HIDE DEF step
  <2>. QED
    BY <2>2, <2>3 DEF Iterates
<1>7. Is(at)
  <2>. HIDE DEF Is
  <2>. QED
    BY <1>6
<1>8. Descend(ns, query, entry, high, low, passing) = at[b]
  BY Zenon DEF Descend, b, After
<1>. HIDE DEF at
<1>9. at[0] = entry /\ \A n \in 0 .. b : n # 0 => at[n] = After(at[n - 1], n)
  <2>1. \A n \in 0 .. b : at[n] = IF n = 0 THEN entry ELSE After(at[n - 1], n)
    BY <1>7
  <2>. QED
    BY <1>1, <2>1
<1>. HIDE DEF Is
<1>10. at[b] \in S
  <2>1. at[0] \in W[0]
    BY <1>1, <1>2, <1>4, <1>9
  <2>2. \A n \in 0 .. b : n # 0 => (at[n - 1] \in W[n - 1] => at[n] \in W[n])
    BY <1>3, <1>4, <1>5, <1>9
  <2>3. \A n \in 0 .. b : at[n] \in W[n]
    BY <1>1, <2>1, <2>2, StaysWithin
  <2>. QED
    BY <1>1, <1>4, <2>3
<1>. QED
  <2> DEFINE d == at[b]
  <2>1. d \in C /\ (d = entry \/ ~ ns[d].deleted)
        /\ ((\A n \in C : ns[n].id \in passing) => To(ns, query, d) <= To(ns, query, entry))
    <3>. HIDE DEF d
    <3>. QED
      BY <1>10, Zenon DEF S, d
  <2>. QED
    BY <1>8, <2>1

-----------------------------------------------------------------------------
(* Links at a layer.                                                       *)

\* The vectors that nodes have.
Own == {Prepared(Metric, v) : v \in Vectors}

\* Each node has one of its own.
Distinct(ns) ==
    /\ \A n \in DOMAIN ns : ns[n].vector \in Own
    /\ \A m, n \in DOMAIN ns : ns[m].vector = ns[n].vector => m = n

\* Whence no two are at one distance from a vector.
LEMMA ApartAre ==
    ASSUME NEW ns, Distinct(ns), NEW v \in Own, NEW S \in SUBSET DOMAIN ns
    PROVE  v \in Int /\ Apart(ns, v, S)
<1>1. PICK q \in Vectors : v = Prepared(Metric, q)
  BY DEF Own
<1>2. v \in Int
  BY <1>1, HnswAssumption, Values
<1>3. \A m, n \in S : m # n => To(ns, v, m) # To(ns, v, n)
  <2> SUFFICES ASSUME NEW m \in S, NEW n \in S, m # n PROVE To(ns, v, m) # To(ns, v, n)
    OBVIOUS
  <2>1. ns[m].vector \in Own /\ ns[n].vector \in Own /\ ns[m].vector # ns[n].vector
    BY DEF Distinct
  <2>2. PICK a \in Vectors : ns[m].vector = Prepared(Metric, a)
    BY <2>1 DEF Own
  <2>3. PICK b \in Vectors : ns[n].vector = Prepared(Metric, b)
    BY <2>1 DEF Own
  <2>4. a # b
    BY <2>1, <2>2, <2>3
  <2>5. Distance(Metric, Prepared(Metric, q), Prepared(Metric, a))
            # Distance(Metric, Prepared(Metric, q), Prepared(Metric, b))
    BY <2>4, HnswAssumption
  <2>. QED
    BY <1>1, <2>2, <2>3, <2>5 DEF To
<1>. QED
  BY <1>2, <1>3 DEF Apart

Once(ms) == \A i, j \in DOMAIN ms : ms[i] = ms[j] => i = j

\* A node with other neighbours at a layer it has.
Relinked(node, level, ms) == [node EXCEPT !.layers[level + 1] = ms]

LEMMA WithNeighbours ==
    ASSUME NEW node \in NodeRecords, NEW level \in Nat, HasLayer(node, level), NEW ms \in Seq(Nat)
    PROVE  LET x == Relinked(node, level, ms)
           IN  /\ x \in NodeRecords
               /\ x.id = node.id /\ x.vector = node.vector /\ x.deleted = node.deleted
               /\ Len(x.layers) = Len(node.layers)
               /\ Neighbours(x, level) = ms
               /\ \A l \in Nat : l # level => Neighbours(x, l) = Neighbours(node, l)
<1> DEFINE x == Relinked(node, level, ms)
           L == Seq(Nat)
           ls == [node.layers EXCEPT ![level + 1] = ms]
<1>1. node.layers \in Seq(L)
  BY DEF NodeRecords
<1>2. Len(node.layers) \in Nat /\ DOMAIN node.layers = 1 .. Len(node.layers) /\ level + 1 \in 1 .. Len(node.layers)
  <2>. HIDE DEF L
  <2>. QED
    BY <1>1 DEF HasLayer
<1>3. ls \in Seq(L) /\ Len(ls) = Len(node.layers) /\ DOMAIN ls = DOMAIN node.layers
  <2>1. ms \in L
    OBVIOUS
  <2>. HIDE DEF L
  <2>. QED
    BY <1>1, <1>2, <2>1
<1>4. x = [node EXCEPT !.layers = ls]
  BY DEF Relinked
<1>5. /\ x \in NodeRecords /\ x.layers = ls
      /\ x.id = node.id /\ x.vector = node.vector /\ x.deleted = node.deleted
  <2>1. NodeRecords = [id : Ids, vector : Int, layers : Seq(L), deleted : BOOLEAN]
    BY DEF NodeRecords
  <2>. HIDE DEF L, ls, x
  <2> DEFINE K == Seq(L)
  <2>2. ls \in K
    BY <1>3
  <2>. HIDE DEF K
  <2>3. NodeRecords = [id : Ids, vector : Int, layers : K, deleted : BOOLEAN]
    BY <2>1 DEF K
  <2>. QED
    BY <1>4, <2>2, <2>3
<1>6. Neighbours(x, level) = ms
  <2>1. ls[level + 1] = ms /\ level < Len(ls)
    <3>. HIDE DEF L
    <3>. QED
      BY <1>2, <1>3
  <2>. HIDE DEF ls, x
  <2>. QED
    BY <1>5, <2>1 DEF Neighbours, HasLayer
<1>7. \A l \in Nat : l # level => Neighbours(x, l) = Neighbours(node, l)
  <2> SUFFICES ASSUME NEW l \in Nat, l # level PROVE Neighbours(x, l) = Neighbours(node, l)
    OBVIOUS
  <2>1. l < Len(node.layers) => l + 1 \in DOMAIN node.layers /\ ls[l + 1] = node.layers[l + 1]
    <3>. HIDE DEF L
    <3>. QED
      BY <1>1, <1>2
  <2>. HIDE DEF ls, x
  <2>. QED
    BY <1>3, <1>5, <2>1 DEF Neighbours, HasLayer
<1>. HIDE DEF ls
<1>. QED
  BY <1>3, <1>5, <1>6, <1>7

\* The neighbours at a layer are other nodes that have it, once each, and not too many.
Links(ns, n, level) ==
    LET ms == Neighbours(ns[n], level)
    IN  /\ Once(ms)
        /\ Len(ms) <= Capacity(level)
        /\ \A m \in SetOf(ms) : m \in DOMAIN ns \ {n} /\ HasLayer(ns[m], level)

WellLinked(ns, level) == \A n \in DOMAIN ns : Links(ns, n, level)

\* What follows a sequence at its end.
LEMMA AppendIs ==
    ASSUME NEW ms \in Seq(Nat), NEW new \in Nat
    PROVE  LET all == Append(ms, new)
           IN  /\ all \in Seq(Nat) /\ Len(all) = Len(ms) + 1 /\ DOMAIN all = 1 .. Len(ms) + 1
               /\ \A i \in 1 .. Len(ms) : all[i] = ms[i]
               /\ all[Len(ms) + 1] = new
               /\ SetOf(all) = SetOf(ms) \cup {new}
               /\ Once(ms) /\ new \notin SetOf(ms) => Once(all)
<1> DEFINE all == Append(ms, new)
<1>1. /\ all \in Seq(Nat) /\ Len(all) = Len(ms) + 1 /\ DOMAIN all = 1 .. Len(ms) + 1
      /\ \A i \in 1 .. Len(ms) : all[i] = ms[i]
      /\ all[Len(ms) + 1] = new
      /\ Len(ms) \in Nat /\ DOMAIN ms = 1 .. Len(ms)
      /\ \A i \in 1 .. Len(ms) + 1 : i \in 1 .. Len(ms) \/ i = Len(ms) + 1
      /\ Len(ms) + 1 \in 1 .. Len(ms) + 1 /\ \A i \in 1 .. Len(ms) : i \in 1 .. Len(ms) + 1
  OBVIOUS
<1>. HIDE DEF all
<1>2. SetOf(all) = SetOf(ms) \cup {new}
  BY <1>1 DEF SetOf
<1>3. Once(ms) /\ new \notin SetOf(ms) => Once(all)
  <2> SUFFICES ASSUME Once(ms), new \notin SetOf(ms), NEW i \in DOMAIN all, NEW j \in DOMAIN all, all[i] = all[j]
               PROVE  i = j
    BY DEF Once
  <2>1. \A k \in 1 .. Len(ms) : ms[k] # new
    BY <1>1 DEF SetOf
  <2>2. (i \in 1 .. Len(ms) \/ i = Len(ms) + 1) /\ (j \in 1 .. Len(ms) \/ j = Len(ms) + 1)
    BY <1>1
  <2>3. CASE i \in 1 .. Len(ms) /\ j \in 1 .. Len(ms)
    BY <1>1, <2>3 DEF Once
  <2>. QED
    BY <1>1, <2>1, <2>2, <2>3
<1>. QED
  BY <1>1, <1>2, <1>3 DEF all

\* Neighbours that a node may get when it is linked to a new one.
Fitting(ns, n, new, level, ms) ==
    /\ Once(ms) /\ Len(ms) <= Capacity(level)
    /\ \A m \in SetOf(ms) : m \in DOMAIN ns \ {n} /\ HasLayer(ns[m], level)
    /\ Len(Neighbours(ns[n], level)) < Capacity(level) => SetOf(ms) = SetOf(Neighbours(ns[n], level)) \cup {new}

\* A node that is linked to a new one keeps its place among the layers: it has
\* other neighbours there, as many as it may, from the old ones and the new one,
\* and all of these if there is room.
LEMMA ConnectedIs ==
    ASSUME NEW ns \in Seq(NodeRecords), Distinct(ns), NEW level \in Nat,
           NEW n \in DOMAIN ns, NEW new \in DOMAIN ns, n # new, HasLayer(ns[n], level), HasLayer(ns[new], level),
           Links(ns, n, level), new \notin SetOf(Neighbours(ns[n], level))
    PROVE  \E ms \in Seq(Nat) : /\ Connected(ns, n, new, level) = Relinked(ns[n], level, ms)
                                /\ Fitting(ns, n, new, level, ms)
<1> DEFINE old == Neighbours(ns[n], level)
           all == Append(old, new)
           live == {all[i] : i \in {j \in DOMAIN all : ~ ns[all[j]].deleted}}
           nearest == NearestFirst(ns, ns[n].vector, live, Capacity(level))
           kept == IF Len(all) > Capacity(level) THEN nearest ELSE all
<1>1. Connected(ns, n, new, level) = Relinked(ns[n], level, kept)
  <2>1. Connected(ns, n, new, level) = IF HasLayer(ns[n], level) THEN Relinked(ns[n], level, kept) ELSE ns[n]
    BY Zenon DEF Connected, Relinked
  <2>. HIDE DEF kept
  <2>. QED
    BY <2>1
<1>2. /\ old \in Seq(Nat) /\ Len(old) \in Nat /\ Once(old) /\ Len(old) <= Capacity(level)
      /\ \A m \in SetOf(old) : m \in DOMAIN ns \ {n} /\ HasLayer(ns[m], level)
  BY NeighboursAre DEF Links
<1>3. new \in Nat
  BY NodesAre
<1>4. /\ all \in Seq(Nat) /\ Len(all) = Len(old) + 1 /\ DOMAIN all = 1 .. Len(old) + 1
      /\ SetOf(all) = SetOf(old) \cup {new} /\ Once(all)
  <2>. HIDE DEF old
  <2>. QED
    BY <1>2, <1>3, AppendIs DEF old
<1>5. \A m \in SetOf(all) : m \in DOMAIN ns \ {n} /\ HasLayer(ns[m], level)
  <2>. HIDE DEF all, old
  <2>. QED
    BY <1>2, <1>4
<1>6. Capacity(level) \in Nat \ {0}
  BY HnswAssumption DEF Capacity
<1>7. CASE ~ (Len(all) > Capacity(level))
  <2>1. kept = all
    <3>. HIDE DEF all, nearest
    <3>. QED
      BY <1>7
  <2>2. Len(all) <= Capacity(level)
    <3>. HIDE DEF all, old
    <3>. QED
      BY <1>2, <1>4, <1>6, <1>7
  <2>. HIDE DEF all, old, kept
  <2>. QED
    BY <1>1, <1>4, <1>5, <2>1, <2>2 DEF old, Fitting
<1>8. CASE Len(all) > Capacity(level)
  <2>1. kept = nearest
    <3>. HIDE DEF all, nearest
    <3>. QED
      BY <1>8
  <2>2. live \in SUBSET SetOf(all)
    <3>. HIDE DEF all
    <3>. QED
      BY DEF SetOf
  <2>3. live \in SUBSET DOMAIN ns
    <3>. HIDE DEF all, live
    <3>. QED
      BY <1>5, <2>2
  <2>4. ns[n].vector \in Own
    BY DEF Distinct
  <2>5. Apart(ns, ns[n].vector, live) /\ ns[n].vector \in Int
    <3>. HIDE DEF live
    <3>. QED
      BY <2>3, <2>4, ApartAre
  <2>6. /\ nearest \in Seq(Nat) /\ Len(nearest) <= Capacity(level)
        /\ SetOf(nearest) \in SUBSET live /\ Once(nearest)
    <3>. HIDE DEF live
    <3>. QED
      BY <1>6, <2>3, <2>5, NearestFirstIs DEF Once
  <2>7. ~ (Len(old) < Capacity(level))
    <3>. HIDE DEF old, all
    <3>. QED
      BY <1>2, <1>4, <1>6, <1>8
  <2>8. \A m \in SetOf(nearest) : m \in DOMAIN ns \ {n} /\ HasLayer(ns[m], level)
    <3>. HIDE DEF live, nearest, all
    <3>. QED
      BY <1>5, <2>2, <2>6
  <2>. HIDE DEF live, nearest, kept, old
  <2>. QED
    BY <1>1, <2>1, <2>6, <2>7, <2>8 DEF old, Fitting
<1>. QED
  BY <1>7, <1>8

\* The same nodes, whatever their links.
Alike(ns, ms) ==
    /\ ms \in Seq(NodeRecords) /\ Len(ms) = Len(ns)
    /\ \A n \in DOMAIN ns : /\ ms[n].id = ns[n].id /\ ms[n].vector = ns[n].vector /\ ms[n].deleted = ns[n].deleted
                            /\ Len(ms[n].layers) = Len(ns[n].layers)

\* A node without links at a layer.
Unlinked(ns, new, level) ==
    /\ Neighbours(ns[new], level) = <<>>
    /\ \A n \in DOMAIN ns : new \notin SetOf(Neighbours(ns[n], level))

\* The other nodes of a layer.
Others(ns, new, level) == {n \in DOMAIN ns \ {new} : HasLayer(ns[n], level)}

\* A node that the new one is added to the neighbours of.
Gains(ns, ts, n, new, level) == SetOf(Neighbours(ts[n], level)) = SetOf(Neighbours(ns[n], level)) \cup {new}

\* A new node that gets neighbours at a layer: every node there stays well linked,
\* and the other layers stay as they are.
LEMMA LinkedIs ==
    ASSUME NEW ns \in Seq(NodeRecords), Distinct(ns), NEW level \in Nat, WellLinked(ns, level),
           NEW new \in DOMAIN ns, HasLayer(ns[new], level), Unlinked(ns, new, level),
           NEW selected \in Seq(Nat), Once(selected), Len(selected) <= Capacity(level),
           SetOf(selected) \in SUBSET Others(ns, new, level)
    PROVE  LET ts == Linked(ns, new, selected, level)
           IN  /\ Alike(ns, ts)
               /\ WellLinked(ts, level)
               /\ \A l \in Nat : l # level => \A n \in DOMAIN ns : Neighbours(ts[n], l) = Neighbours(ns[n], l)
               /\ Neighbours(ts[new], level) = selected
               /\ \A n \in SetOf(selected) : Len(Neighbours(ns[n], level)) < Capacity(level) => Gains(ns, ts, n, new, level)
<1> DEFINE ts == Linked(ns, new, selected, level)
           N == DOMAIN ns
           With(n, ms) == Relinked(ns[n], level, ms)
           Fits(n, ms) == /\ ms \in Seq(Nat) /\ Once(ms) /\ Len(ms) <= Capacity(level)
                          /\ \A m \in SetOf(ms) : m \in N \ {n} /\ HasLayer(ns[m], level)
           Filled(n) == Len(Neighbours(ns[n], level)) < Capacity(level) => Gains(ns, ts, n, new, level)
<1>1. N = 1 .. Len(ns) /\ Len(ns) \in Nat /\ \A n \in N : ns[n] \in NodeRecords
  BY NodesAre
<1>2. /\ \A n \in N : ts[n] = IF n = new THEN With(n, selected)
                              ELSE IF n \in SetOf(selected) THEN Connected(ns, n, new, level)
                              ELSE ns[n]
      /\ ts = [n \in N |-> ts[n]]
  <2> DEFINE V(n) == IF n = new THEN With(n, selected)
                     ELSE IF n \in SetOf(selected) THEN Connected(ns, n, new, level)
                     ELSE ns[n]
  <2>1. ts = [n \in N |-> V(n)]
    BY Zenon DEF Linked, Relinked
  <2>. HIDE DEF V, ts
  <2>2. (\A n \in N : ts[n] = V(n)) /\ ts = [n \in N |-> ts[n]]
    BY <2>1
  <2>. QED
    BY <2>2 DEF V
<1>3. \A n \in SetOf(selected) : n \in N /\ n # new /\ HasLayer(ns[n], level)
  BY DEF Others
<1>. HIDE DEF ts
\* Every node has neighbours that fit.
<1>4. \A n \in N : \E ms : /\ HasLayer(ns[n], level) => ts[n] = With(n, ms)
                           /\ ~ HasLayer(ns[n], level) => ts[n] = ns[n] /\ ms = <<>>
                           /\ Fits(n, ms)
                           /\ n = new => ms = selected
                           /\ n \in SetOf(selected) /\ Len(Neighbours(ns[n], level)) < Capacity(level) =>
                                SetOf(ms) = SetOf(Neighbours(ns[n], level)) \cup {new}
                           /\ n # new /\ n \notin SetOf(selected) => ts[n] = ns[n] /\ ms = Neighbours(ns[n], level)
  <2> SUFFICES ASSUME NEW n \in N
               PROVE  \E ms : /\ HasLayer(ns[n], level) => ts[n] = With(n, ms)
                              /\ ~ HasLayer(ns[n], level) => ts[n] = ns[n] /\ ms = <<>>
                              /\ Fits(n, ms)
                              /\ n = new => ms = selected
                              /\ n \in SetOf(selected) /\ Len(Neighbours(ns[n], level)) < Capacity(level) =>
                                   SetOf(ms) = SetOf(Neighbours(ns[n], level)) \cup {new}
                              /\ n # new /\ n \notin SetOf(selected) => ts[n] = ns[n] /\ ms = Neighbours(ns[n], level)
    OBVIOUS
  <2>. HIDE DEF With
  <2>1. CASE n = new
    <3>1. ts[n] = With(n, selected) /\ n \notin SetOf(selected)
      BY <1>2, <1>3, <2>1
    <3>2. Fits(n, selected)
      BY <2>1 DEF Others
    <3>. HIDE DEF Fits
    <3>. QED
      BY <2>1, <3>1, <3>2
  <2>2. CASE n # new /\ n \in SetOf(selected)
    <3>1. ts[n] = Connected(ns, n, new, level) /\ HasLayer(ns[n], level)
      BY <1>2, <1>3, <2>2
    <3>2. Links(ns, n, level) /\ new \notin SetOf(Neighbours(ns[n], level))
      BY DEF WellLinked, Unlinked
    <3>3. PICK ms \in Seq(Nat) : Connected(ns, n, new, level) = Relinked(ns[n], level, ms) /\ Fitting(ns, n, new, level, ms)
      BY <2>2, <3>1, <3>2, ConnectedIs
    <3>4. Fits(n, ms) /\ ts[n] = With(n, ms)
      BY <3>1, <3>3, Zenon DEF With, Fitting
    <3>. HIDE DEF Fits
    <3>. QED
      BY <2>2, <3>1, <3>3, <3>4 DEF Fitting
  <2>3. CASE n # new /\ n \notin SetOf(selected)
    <3> DEFINE ms == Neighbours(ns[n], level)
    <3>1. ts[n] = ns[n]
      BY <1>2, <2>3
    <3>2. Fits(n, ms)
      BY NeighboursAre DEF WellLinked, Links
    <3>3. HasLayer(ns[n], level) => ts[n] = With(n, ms)
      <4> SUFFICES ASSUME HasLayer(ns[n], level) PROVE ns[n] = With(n, ns[n].layers[level + 1])
        BY <3>1 DEF Neighbours
      <4> DEFINE L == Seq(Seq(Nat))
      <4>1. ns[n].layers \in L /\ ns[n] \in [id : Ids, vector : Int, layers : L, deleted : BOOLEAN]
        BY <1>1, NodesAre DEF NodeRecords
      <4>2. [ns[n].layers EXCEPT ![level + 1] = ns[n].layers[level + 1]] = ns[n].layers
        <5> DEFINE K == Seq(Nat)
        <5>1. ns[n].layers \in Seq(K)
          BY <4>1
        <5>. HIDE DEF K
        <5>. QED
          BY <5>1
      <4>. HIDE DEF L
      <4>. QED
        BY <4>1, <4>2 DEF With, Relinked
    <3>4. ~ HasLayer(ns[n], level) => ms = <<>>
      BY DEF Neighbours
    <3>. HIDE DEF Fits, ms
    <3>. QED
      BY <2>3, <3>1, <3>2, <3>3, <3>4 DEF ms
  <2>. QED
    BY <2>1, <2>2, <2>3
\* Hence each is alike and well linked.
<1>5. \A n \in N : /\ ts[n] \in NodeRecords
                   /\ ts[n].id = ns[n].id /\ ts[n].vector = ns[n].vector /\ ts[n].deleted = ns[n].deleted
                   /\ Len(ts[n].layers) = Len(ns[n].layers)
                   /\ \A l \in Nat : l # level => Neighbours(ts[n], l) = Neighbours(ns[n], l)
                   /\ Fits(n, Neighbours(ts[n], level))
                   /\ n = new => Neighbours(ts[n], level) = selected
                   /\ n \in SetOf(selected) => Filled(n)
  <2> SUFFICES ASSUME NEW n \in N
               PROVE  /\ ts[n] \in NodeRecords
                      /\ ts[n].id = ns[n].id /\ ts[n].vector = ns[n].vector /\ ts[n].deleted = ns[n].deleted
                      /\ Len(ts[n].layers) = Len(ns[n].layers)
                      /\ \A l \in Nat : l # level => Neighbours(ts[n], l) = Neighbours(ns[n], l)
                      /\ Fits(n, Neighbours(ts[n], level))
                      /\ n = new => Neighbours(ts[n], level) = selected
                      /\ n \in SetOf(selected) => Filled(n)
    OBVIOUS
  <2>1. PICK ms : /\ HasLayer(ns[n], level) => ts[n] = With(n, ms)
                  /\ ~ HasLayer(ns[n], level) => ts[n] = ns[n] /\ ms = <<>>
                  /\ Fits(n, ms)
                  /\ n = new => ms = selected
                  /\ n \in SetOf(selected) /\ Len(Neighbours(ns[n], level)) < Capacity(level) =>
                       SetOf(ms) = SetOf(Neighbours(ns[n], level)) \cup {new}
    <3>. HIDE DEF With, Fits
    <3>. QED
      BY <1>4
  <2>2. /\ ts[n] \in NodeRecords
        /\ ts[n].id = ns[n].id /\ ts[n].vector = ns[n].vector /\ ts[n].deleted = ns[n].deleted
        /\ Len(ts[n].layers) = Len(ns[n].layers)
        /\ \A l \in Nat : l # level => Neighbours(ts[n], l) = Neighbours(ns[n], l)
        /\ Neighbours(ts[n], level) = ms
    <3>1. CASE HasLayer(ns[n], level)
      <4>1. ns[n] \in NodeRecords /\ ms \in Seq(Nat)
        BY <1>1, <2>1
      <4>2. ts[n] = Relinked(ns[n], level, ms)
        <5>. HIDE DEF Fits
        <5>. QED
          BY <2>1, <3>1
      <4>. HIDE DEF With, Fits
      <4>. QED
        BY <3>1, <4>1, <4>2, WithNeighbours
    <3>2. CASE ~ HasLayer(ns[n], level)
      <4>1. ts[n] = ns[n] /\ ms = <<>> /\ Neighbours(ns[n], level) = <<>>
        <5>. HIDE DEF With, Fits
        <5>. QED
          BY <2>1, <3>2 DEF Neighbours
      <4>. QED
        BY <1>1, <4>1
    <3>. QED
      BY <3>1, <3>2
  <2>3. n \in SetOf(selected) => Filled(n)
    <3>. HIDE DEF With, Fits
    <3>. QED
      BY <2>1, <2>2 DEF Gains
  <2>. HIDE DEF With, Fits, Filled
  <2>. QED
    BY <2>1, <2>2, <2>3
<1>6. ts \in Seq(NodeRecords) /\ Len(ts) = Len(ns) /\ DOMAIN ts = N
  <2>1. ts \in [1 .. Len(ns) -> NodeRecords]
    <3>. HIDE DEF Fits, Filled
    <3>. QED
      BY <1>1, <1>2, <1>5
  <2>. QED
    BY <1>1, <2>1
<1>7. Alike(ns, ts)
  <2>. HIDE DEF Fits, Filled
  <2>. QED
    BY <1>5, <1>6 DEF Alike
<1>8. WellLinked(ts, level)
  <2> SUFFICES ASSUME NEW n \in N PROVE Links(ts, n, level)
    BY <1>6 DEF WellLinked
  <2>1. Fits(n, Neighbours(ts[n], level))
    <3>. HIDE DEF Fits, Filled
    <3>. QED
      BY <1>5
  <2>2. \A m \in N : HasLayer(ts[m], level) <=> HasLayer(ns[m], level)
    <3>. HIDE DEF Fits, Filled
    <3>. QED
      BY <1>5 DEF HasLayer
  <2>. QED
    BY <1>6, <2>1, <2>2 DEF Links
<1>. QED
  <2>. HIDE DEF Fits
  <2>. QED
    BY <1>3, <1>5, <1>7, <1>8 DEF ts

-----------------------------------------------------------------------------
(* Links at one layer after the other.                                     *)

\* Neighbours of which there are none twice are no more than the nodes they are from.
LEMMA OnceIsShort ==
    ASSUME NEW ms \in Seq(Nat), Once(ms), NEW S, IsFiniteSet(S), SetOf(ms) \in SUBSET S
    PROVE  Len(ms) <= Cardinality(S)
<1>1. Len(ms) \in Nat /\ DOMAIN ms = 1 .. Len(ms) /\ ms = [i \in 1 .. Len(ms) |-> ms[i]]
  OBVIOUS
<1>2. \A i \in 1 .. Len(ms) : ms[i] \in S
  BY <1>1 DEF SetOf
<1>3. ms \in [1 .. Len(ms) -> S]
  BY <1>1, <1>2
<1>4. ms \in Injection(1 .. Len(ms), S)
  BY <1>1, <1>3 DEF Once, Injection, IsInjective
<1>5. Cardinality(1 .. Len(ms)) = Len(ms)
  <2>1. Len(ms) \in Int
    BY <1>1
  <2>2. Cardinality(1 .. Len(ms)) = IF 1 > Len(ms) THEN 0 ELSE Len(ms) - 1 + 1
    BY <2>1, FS_Interval
  <2>. QED
    BY <1>1, <2>2
<1>6. Cardinality(1 .. Len(ms)) <= Cardinality(S)
  BY <1>4, FS_Injection
<1>. QED
  BY <1>5, <1>6

\* A node may be linked at a layer when it has none there, starting at another.
Linkable(ns, e, new, level) ==
    /\ Distinct(ns) /\ WellLinked(ns, level)
    /\ new \in DOMAIN ns /\ HasLayer(ns[new], level) /\ Unlinked(ns, new, level)
    /\ e \in Others(ns, new, level)

\* Nothing leads from the others to it.
LEMMA OthersAreClosed ==
    ASSUME NEW ns, NEW new, NEW level, WellLinked(ns, level), Unlinked(ns, new, level)
    PROVE  Closed(ns, level, Others(ns, new, level))
<1> SUFFICES ASSUME NEW n \in Others(ns, new, level), NEW m \in SetOf(Neighbours(ns[n], level))
             PROVE  m \in Others(ns, new, level)
  BY DEF Closed, Others
<1>1. n \in DOMAIN ns
  BY DEF Others
<1>2. m \in DOMAIN ns \ {n} /\ HasLayer(ns[m], level)
  BY <1>1 DEF WellLinked, Links
<1>3. m # new
  BY <1>1 DEF Unlinked
<1>. QED
  BY <1>2, <1>3 DEF Others

\* What it is then linked to.
Found(ns, e, new, level) == SearchLayer(ns, ns[new].vector, e, EfConstruction, level, Ids)
Selected(ns, e, new, level) == NearestFirst(ns, ns[new].vector, Found(ns, e, new, level), Capacity(level))

\* It is linked to some of the others, the nearest of which is where it goes on.
LEMMA SelectedAre ==
    ASSUME NEW ns \in Seq(NodeRecords), NEW level \in Nat, NEW e, NEW new, Linkable(ns, e, new, level)
    PROVE  LET found == Found(ns, e, new, level)
               selected == Selected(ns, e, new, level)
               next == NearestOf(ns, ns[new].vector, found)
           IN  /\ found \in SUBSET Others(ns, new, level)
               /\ next \in found /\ (next = e \/ ~ ns[next].deleted)
               /\ selected \in Seq(Nat) /\ Once(selected) /\ Len(selected) <= Capacity(level)
               /\ SetOf(selected) \in SUBSET found
               /\ Cardinality(found) <= Capacity(level) => SetOf(selected) = found
<1> DEFINE found == Found(ns, e, new, level)
           selected == Selected(ns, e, new, level)
           v == ns[new].vector
           next == NearestOf(ns, v, found)
           C == Others(ns, new, level)
<1>1. new \in DOMAIN ns /\ e \in C /\ Closed(ns, level, C) /\ Distinct(ns) /\ C \in SUBSET DOMAIN ns
  BY OthersAreClosed DEF Linkable, Others
<1>2. v \in Own /\ v \in Int /\ ns[e].id \in Ids
  BY <1>1, NodesAre DEF Distinct
<1>3. EfConstruction \in Nat \ {0} /\ Capacity(level) \in Nat \ {0}
  BY HnswAssumption DEF Capacity
<1>4. found \in SUBSET C /\ Fair(ns, v, e, Ids, found)
  <2>. HIDE DEF C, v
  <2>. QED
    BY <1>1, <1>2, <1>3, SearchLayerIs DEF Found, v
<1>. HIDE DEF found, C, v
<1>5. found # {} /\ found \in SUBSET DOMAIN ns
  <2>1. \E n \in found : TRUE
    BY <1>2, <1>4, Zenon DEF Fair
  <2>. QED
    BY <1>1, <1>4, <2>1
<1>6. next \in found
  BY <1>2, <1>5, NearestIs
<1>7. next = e \/ ~ ns[next].deleted
  BY <1>4, <1>6, Zenon DEF Fair
<1>8. Apart(ns, v, found)
  BY <1>1, <1>2, <1>5, ApartAre
<1>9. selected = NearestFirst(ns, v, found, Capacity(level))
  BY DEF Selected, v, found
<1>. HIDE DEF selected, next
<1>10. /\ selected \in Seq(Nat) /\ Once(selected) /\ Len(selected) <= Capacity(level)
       /\ SetOf(selected) \in SUBSET found
       /\ Cardinality(found) <= Capacity(level) => SetOf(selected) = found
  BY <1>2, <1>3, <1>5, <1>8, <1>9, NearestFirstIs DEF Once
<1>. QED
  BY <1>4, <1>6, <1>7, <1>10 DEF found, selected, next, C, v

\* What linking it does.
LinkedAt(ns, e, x, new, level) ==
    /\ Alike(ns, x.nodes) /\ WellLinked(x.nodes, level)
    /\ \A l \in Nat : l # level => \A n \in DOMAIN ns : Neighbours(x.nodes[n], l) = Neighbours(ns[n], l)
    /\ x.entry \in Others(ns, new, level) /\ (x.entry = e \/ ~ ns[x.entry].deleted)

LEMMA LinkLayerIs ==
    ASSUME NEW s, s.nodes \in Seq(NodeRecords), NEW level \in Nat, NEW new, Linkable(s.nodes, s.entry, new, level)
    PROVE  LinkedAt(s.nodes, s.entry, LinkLayer(s, new, level), new, level)
<1> DEFINE ns == s.nodes
           e == s.entry
           found == Found(ns, e, new, level)
           selected == Selected(ns, e, new, level)
           next == NearestOf(ns, ns[new].vector, found)
           ts == Linked(ns, new, selected, level)
           x == LinkLayer(s, new, level)
<1>1. x.nodes = ts /\ x.entry = next
  <2>1. x = [nodes |-> ts, entry |-> next]
    BY Zenon DEF LinkLayer, Selected, Found
  <2>. HIDE DEF x, ts, next
  <2>. QED
    BY <2>1
<1>2. /\ Distinct(ns) /\ WellLinked(ns, level)
      /\ new \in DOMAIN ns /\ HasLayer(ns[new], level) /\ Unlinked(ns, new, level)
  BY DEF Linkable
<1>3. /\ found \in SUBSET Others(ns, new, level)
      /\ next \in found /\ (next = e \/ ~ ns[next].deleted)
      /\ selected \in Seq(Nat) /\ Once(selected) /\ Len(selected) <= Capacity(level)
      /\ SetOf(selected) \in SUBSET found
  <2>. HIDE DEF ns, e
  <2>. QED
    BY SelectedAre DEF ns, e
<1>. HIDE DEF found, selected, next, x
<1>4. SetOf(selected) \in SUBSET Others(ns, new, level)
  BY <1>3
<1>5. /\ Alike(ns, ts) /\ WellLinked(ts, level)
      /\ \A l \in Nat : l # level => \A n \in DOMAIN ns : Neighbours(ts[n], l) = Neighbours(ns[n], l)
  <2>. HIDE DEF ns
  <2>. QED
    BY <1>2, <1>3, <1>4, LinkedIs DEF ns
<1>. HIDE DEF ts, ns, e
<1>6. next \in Others(ns, new, level)
  BY <1>3
<1>7. LinkedAt(ns, e, x, new, level)
  BY <1>1, <1>3, <1>5, <1>6 DEF LinkedAt
<1>. QED
  BY <1>7 DEF ns, e, x

\* Nodes of which each has all others for neighbours.
Mutual(ns, S) == \A m, n \in S : m # n => m \in SetOf(Neighbours(ns[n], 0))

\* Linked from a live node, while all live ones have each other for neighbours and
\* nothing needs to be left out, it becomes one of them.
LEMMA LinkLayerCompletes ==
    ASSUME NEW s, s.nodes \in Seq(NodeRecords), NEW new, Linkable(s.nodes, s.entry, new, 0),
           \A n \in DOMAIN s.nodes : HasLayer(s.nodes[n], 0),
           Len(s.nodes) <= Least(MMax0, EfConstruction) + 1,
           ~ s.nodes[s.entry].deleted, Mutual(s.nodes, LiveIn(s.nodes, DOMAIN s.nodes \ {new}))
    PROVE  Mutual(LinkLayer(s, new, 0).nodes, LiveIn(s.nodes, DOMAIN s.nodes))
<1> DEFINE ns == s.nodes
           e == s.entry
           found == Found(ns, e, new, 0)
           selected == Selected(ns, e, new, 0)
           next == NearestOf(ns, ns[new].vector, found)
           ts == Linked(ns, new, selected, 0)
           x == LinkLayer(s, new, 0)
           C == DOMAIN ns \ {new}
           L == LiveIn(ns, C)
<1>1. x.nodes = ts
  <2>1. x = [nodes |-> ts, entry |-> next]
    BY Zenon DEF LinkLayer, Selected, Found
  <2>. HIDE DEF x, ts, next
  <2>. QED
    BY <2>1
<1>2. /\ Distinct(ns) /\ WellLinked(ns, 0)
      /\ new \in DOMAIN ns /\ HasLayer(ns[new], 0) /\ Unlinked(ns, new, 0)
      /\ e \in Others(ns, new, 0)
  BY DEF Linkable
<1>3. Others(ns, new, 0) = C
  BY DEF Others
<1>4. Closed(ns, 0, C)
  BY <1>2, <1>3, OthersAreClosed
<1>5. 0 \in Nat
  OBVIOUS
<1>6. /\ selected \in Seq(Nat) /\ Once(selected) /\ Len(selected) <= Capacity(0)
      /\ SetOf(selected) \in SUBSET found /\ found \in SUBSET C
      /\ Cardinality(found) <= Capacity(0) => SetOf(selected) = found
  <2>. HIDE DEF ns, e, C
  <2>. QED
    BY <1>3, <1>5, SelectedAre DEF ns, e
<1>7. /\ MMax0 \in Nat \ {0} /\ EfConstruction \in Nat \ {0} /\ Capacity(0) = MMax0
      /\ Least(MMax0, EfConstruction) <= MMax0 /\ Least(MMax0, EfConstruction) <= EfConstruction
      /\ Least(MMax0, EfConstruction) \in Nat
  BY HnswAssumption DEF Capacity, Least
<1>. HIDE DEF ns, e
<1>8. ns \in Seq(NodeRecords) /\ Len(ns) \in Nat /\ DOMAIN ns = 1 .. Len(ns)
  BY NodesAre DEF ns
<1>9. IsFiniteSet(C) /\ Cardinality(C) = Len(ns) - 1
  <2>1. Cardinality(DOMAIN ns) = Len(ns) /\ IsFiniteSet(DOMAIN ns)
    BY <1>8, NodesCount
  <2>. QED
    BY <1>2, <2>1, FS_RemoveElement
<1>10. \A n \in C : n \in L <=> ~ ns[n].deleted
  BY Zenon DEF LiveIn
<1>11. e \in L /\ L \in SUBSET C
  BY <1>2, <1>3, <1>10 DEF LiveIn, ns, e
<1>12. Cardinality(L) \in Nat /\ Cardinality(L) <= EfConstruction /\ Cardinality(L) <= MMax0
  <2>1. Cardinality(L) \in Nat /\ Cardinality(L) <= Cardinality(C)
    <3>. HIDE DEF L, C
    <3>. QED
      BY <1>9, <1>11, FS_Subset, FS_CardinalityType
  <2>2. Len(ns) <= Least(MMax0, EfConstruction) + 1
    BY DEF ns
  <2>. QED
    BY <1>7, <1>8, <1>9, <2>1, <2>2
<1>13. Mutual(ns, L)
  BY DEF ns
<1>14. found = L
  <2>1. L \in SUBSET ({e} \cup SetOf(Neighbours(ns[e], 0)))
    <3>. HIDE DEF L
    <3>. QED
      BY <1>11, <1>13 DEF Mutual
  <2>2. ns[new].vector \in Int
    BY <1>2, <1>8, NodesAre
  <2>3. found = {n \in L : ns[n].id \in Ids}
    <3>. HIDE DEF C
    <3>. QED
      BY <1>4, <1>5, <1>7, <1>8, <1>11, <1>12, <2>1, <2>2, SearchLayerFindsAll, SMTT(30) DEF Found
  <2>4. \A n \in L : ns[n].id \in Ids
    <3>1. L \in SUBSET DOMAIN ns
      BY <1>11
    <3>. HIDE DEF L
    <3>. QED
      BY <1>8, <3>1, NodesAre
  <2>. HIDE DEF found, L
  <2>. QED
    BY <2>3, <2>4
<1>15. SetOf(selected) = L
  <2>. HIDE DEF selected, found, L
  <2>. QED
    BY <1>6, <1>7, <1>12, <1>14
<1>16. \A n \in L : Len(Neighbours(ns[n], 0)) < MMax0
  <2> SUFFICES ASSUME NEW n \in L PROVE Len(Neighbours(ns[n], 0)) < MMax0
    OBVIOUS
  <2> DEFINE ms == Neighbours(ns[n], 0)
  <2>1. n \in DOMAIN ns /\ n # new /\ n \in C
    BY <1>11
  <2>2. ms \in Seq(Nat) /\ Len(ms) \in Nat
    BY <1>5, <1>8, <2>1, NeighboursAre
  <2>3. Once(ms) /\ SetOf(ms) \in SUBSET (C \ {n})
    <3>1. Once(ms) /\ \A m \in SetOf(ms) : m \in DOMAIN ns \ {n}
      BY <1>2, <2>1 DEF WellLinked, Links
    <3>2. new \notin SetOf(ms)
      BY <1>2, <2>1 DEF Unlinked
    <3>. HIDE DEF ms
    <3>. QED
      BY <3>1, <3>2
  <2>4. IsFiniteSet(C \ {n}) /\ Cardinality(C \ {n}) = Len(ns) - 2
    <3>. HIDE DEF C
    <3>1. IsFiniteSet(C \ {n}) /\ Cardinality(C \ {n}) = IF n \in C THEN Cardinality(C) - 1 ELSE Cardinality(C)
      BY <1>9, FS_RemoveElement
    <3>. QED
      BY <1>8, <1>9, <2>1, <3>1
  <2>5. Len(ms) <= Len(ns) - 2
    <3>. HIDE DEF ms, C
    <3>. QED
      BY <2>2, <2>3, <2>4, OnceIsShort
  <2>6. Len(ns) <= Least(MMax0, EfConstruction) + 1
    BY DEF ns
  <2>. HIDE DEF ms
  <2>7. Len(ms) < MMax0
    BY <1>7, <1>8, <2>2, <2>5, <2>6
  <2>. QED
    BY <2>7 DEF ms
<1>17. /\ Neighbours(ts[new], 0) = selected
       /\ \A n \in L : SetOf(Neighbours(ts[n], 0)) = SetOf(Neighbours(ns[n], 0)) \cup {new}
  <2>. HIDE DEF selected, found, L, C
  <2>1. SetOf(selected) \in SUBSET Others(ns, new, 0)
    BY <1>3, <1>6
  <2> DEFINE level == 0
  <2>2. /\ level \in Nat /\ Distinct(ns) /\ WellLinked(ns, level)
        /\ new \in DOMAIN ns /\ HasLayer(ns[new], level) /\ Unlinked(ns, new, level)
        /\ Len(selected) <= Capacity(level) /\ SetOf(selected) \in SUBSET Others(ns, new, level)
    BY <1>2, <1>6, <2>1
  <2>3. ts = Linked(ns, new, selected, level)
    OBVIOUS
  <2>. HIDE DEF level, ts
  <2>4. /\ Neighbours(ts[new], level) = selected
        /\ \A n \in SetOf(selected) : Len(Neighbours(ns[n], level)) < Capacity(level) => Gains(ns, ts, n, new, level)
    BY <1>6, <1>8, <2>2, <2>3, LinkedIs
  <2>5. /\ Neighbours(ts[new], 0) = selected
        /\ \A n \in SetOf(selected) : Len(Neighbours(ns[n], 0)) < Capacity(0) => Gains(ns, ts, n, new, 0)
    BY <2>4 DEF level
  <2>. HIDE DEF ts
  <2>. QED
    BY <1>7, <1>15, <1>16, <2>5 DEF Gains
<1>18. Mutual(ts, LiveIn(ns, DOMAIN ns))
  <2> SUFFICES ASSUME NEW m \in LiveIn(ns, DOMAIN ns), NEW n \in LiveIn(ns, DOMAIN ns), m # n
               PROVE  m \in SetOf(Neighbours(ts[n], 0))
    BY DEF Mutual
  <2>1. (m = new \/ m \in L) /\ (n = new \/ n \in L)
    BY DEF LiveIn
  <2>. HIDE DEF ts, L, selected
  <2>2. CASE n = new
    BY <1>15, <1>17, <2>1, <2>2
  <2>3. CASE n \in L
    <3>1. m \in L => m \in SetOf(Neighbours(ns[n], 0))
      BY <1>13, <2>3 DEF Mutual
    <3>. QED
      BY <1>17, <2>1, <2>3, <3>1
  <2>. QED
    BY <2>1, <2>2, <2>3
<1>. HIDE DEF ts
<1>. QED
  BY <1>1, <1>18 DEF ns

\* The nodes on the way from the layer `top' of the new one: linked at the layers from
\* `level' up, below which nothing has changed.
Partly(ns, s, e, new, level) ==
    /\ Alike(ns, s.nodes)
    /\ \A l \in Levels : WellLinked(s.nodes, l)
    /\ \A l \in Nat : l < level => \A n \in DOMAIN ns : Neighbours(s.nodes[n], l) = Neighbours(ns[n], l)
    /\ s.entry \in DOMAIN ns \ {new} /\ level <= Len(ns[s.entry].layers)
    /\ s.entry = e \/ ~ ns[s.entry].deleted

\* Nothing needs to be left out, the way starts at a live node, and all live nodes
\* but the new one have each other for neighbours.
Completing(ns, e, new) ==
    /\ Len(ns) <= Least(MMax0, EfConstruction) + 1
    /\ ~ ns[e].deleted
    /\ Mutual(ns, LiveIn(ns, DOMAIN ns \ {new}))

\* What holds of nodes holds of those that are alike.
LEMMA AlikeIs ==
    ASSUME NEW ns \in Seq(NodeRecords), NEW ts, Alike(ns, ts)
    PROVE  /\ ts \in Seq(NodeRecords) /\ DOMAIN ts = DOMAIN ns /\ Len(ts) = Len(ns)
           /\ Distinct(ns) => Distinct(ts)
           /\ \A C \in SUBSET DOMAIN ns : LiveIn(ts, C) = LiveIn(ns, C)
           /\ \A n \in DOMAIN ns : \A l : HasLayer(ts[n], l) <=> HasLayer(ns[n], l)
<1>1. ts \in Seq(NodeRecords) /\ DOMAIN ts = DOMAIN ns /\ Len(ts) = Len(ns)
  BY NodesAre DEF Alike
<1>2. \A n \in DOMAIN ns : /\ ts[n].id = ns[n].id /\ ts[n].vector = ns[n].vector /\ ts[n].deleted = ns[n].deleted
                           /\ Len(ts[n].layers) = Len(ns[n].layers)
  BY Zenon DEF Alike
<1>3. Distinct(ns) => Distinct(ts)
  BY <1>1, <1>2 DEF Distinct
<1>4. \A C \in SUBSET DOMAIN ns : LiveIn(ts, C) = LiveIn(ns, C)
  BY <1>2 DEF LiveIn
<1>5. \A n \in DOMAIN ns : \A l : HasLayer(ts[n], l) <=> HasLayer(ns[n], l)
  BY <1>2 DEF HasLayer
<1>. QED
  BY <1>1, <1>3, <1>4, <1>5

\* One layer further.
LEMMA LinkedFurther ==
    ASSUME NEW ns \in Seq(NodeRecords), Distinct(ns), NEW new \in DOMAIN ns, NEW e,
           NEW level \in Levels, level < Len(ns[new].layers), Unlinked(ns, new, level),
           NEW s, Partly(ns, s, e, new, level + 1)
    PROVE  LET x == LinkLayer(s, new, level)
           IN  /\ Partly(ns, x, e, new, level)
               /\ (level = 0 /\ Completing(ns, e, new) /\ \A n \in DOMAIN ns : HasLayer(ns[n], 0))
                    => Mutual(x.nodes, LiveIn(ns, DOMAIN ns))
<1> DEFINE ts == s.nodes
           x == LinkLayer(s, new, level)
<1>1. level \in Nat /\ level < level + 1 /\ \A l \in Nat : l < level => l < level + 1 /\ l # level
  BY HnswAssumption DEF Levels
<1>2. /\ Alike(ns, ts)
      /\ \A l \in Levels : WellLinked(ts, l)
      /\ \A l \in Nat : l < level + 1 => \A n \in DOMAIN ns : Neighbours(ts[n], l) = Neighbours(ns[n], l)
      /\ s.entry \in DOMAIN ns \ {new} /\ level + 1 <= Len(ns[s.entry].layers)
      /\ s.entry = e \/ ~ ns[s.entry].deleted
  BY DEF Partly
<1>3. /\ ts \in Seq(NodeRecords) /\ DOMAIN ts = DOMAIN ns /\ Len(ts) = Len(ns) /\ Distinct(ts)
      /\ \A C \in SUBSET DOMAIN ns : LiveIn(ts, C) = LiveIn(ns, C)
      /\ \A n \in DOMAIN ns : \A l : HasLayer(ts[n], l) <=> HasLayer(ns[n], l)
  BY <1>2, AlikeIs
<1>4. Len(ns[s.entry].layers) \in Nat /\ Len(ns[new].layers) \in Nat
  <2>1. \A n \in DOMAIN ns : Len(ns[n].layers) \in Nat
    <3> DEFINE L == Seq(Nat)
    <3>1. \A n \in DOMAIN ns : ns[n].layers \in Seq(L)
      BY NodesAre
    <3>. HIDE DEF L
    <3>. QED
      BY <3>1
  <2>. QED
    BY <1>2, <2>1
<1>5. Linkable(ts, s.entry, new, level)
  <2>1. HasLayer(ts[new], level) /\ HasLayer(ts[s.entry], level)
    <3>1. HasLayer(ns[new], level) /\ HasLayer(ns[s.entry], level)
      BY <1>1, <1>2, <1>4 DEF HasLayer
    <3>. QED
      BY <1>2, <1>3, <3>1
  <2>2. Unlinked(ts, new, level)
    <3>1. \A n \in DOMAIN ns : Neighbours(ts[n], level) = Neighbours(ns[n], level)
      BY <1>1, <1>2
    <3>. HIDE DEF ts
    <3>. QED
      BY <1>3, <3>1 DEF Unlinked
  <2>3. s.entry \in Others(ts, new, level)
    BY <1>2, <1>3, <2>1 DEF Others
  <2>. QED
    BY <1>2, <1>3, <2>1, <2>2, <2>3 DEF Linkable
<1>6. LinkedAt(ts, s.entry, x, new, level)
  <2>. HIDE DEF x
  <2>. QED
    BY <1>1, <1>3, <1>5, LinkLayerIs DEF x
<1>. HIDE DEF x, ts
<1>7. /\ Alike(ts, x.nodes) /\ WellLinked(x.nodes, level)
      /\ \A l \in Nat : l # level => \A n \in DOMAIN ns : Neighbours(x.nodes[n], l) = Neighbours(ts[n], l)
      /\ x.entry \in Others(ts, new, level) /\ (x.entry = s.entry \/ ~ ts[x.entry].deleted)
  BY <1>3, <1>6 DEF LinkedAt
<1>8. /\ x.nodes \in Seq(NodeRecords) /\ DOMAIN x.nodes = DOMAIN ns /\ Len(x.nodes) = Len(ns)
      /\ \A n \in DOMAIN ns : \A l : HasLayer(x.nodes[n], l) <=> HasLayer(ns[n], l)
  BY <1>3, <1>7, AlikeIs
<1>9. Alike(ns, x.nodes)
  <2>1. \A n \in DOMAIN ns : /\ ts[n].id = ns[n].id /\ ts[n].vector = ns[n].vector /\ ts[n].deleted = ns[n].deleted
                             /\ Len(ts[n].layers) = Len(ns[n].layers)
    BY <1>2, Zenon DEF Alike
  <2>2. \A n \in DOMAIN ns : /\ x.nodes[n].id = ts[n].id /\ x.nodes[n].vector = ts[n].vector
                             /\ x.nodes[n].deleted = ts[n].deleted /\ Len(x.nodes[n].layers) = Len(ts[n].layers)
    BY <1>3, <1>7, Zenon DEF Alike
  <2>3. \A n \in DOMAIN ns : /\ x.nodes[n].id = ns[n].id /\ x.nodes[n].vector = ns[n].vector
                             /\ x.nodes[n].deleted = ns[n].deleted /\ Len(x.nodes[n].layers) = Len(ns[n].layers)
    BY <2>1, <2>2
  <2>. QED
    BY <1>8, <2>3, Zenon DEF Alike
<1>10. \A l \in Levels : WellLinked(x.nodes, l)
  <2> SUFFICES ASSUME NEW l \in Levels, l # level PROVE WellLinked(x.nodes, l)
    BY <1>7
  <2>1. l \in Nat
    BY HnswAssumption DEF Levels
  <2>2. \A n \in DOMAIN ns : Neighbours(x.nodes[n], l) = Neighbours(ts[n], l)
    BY <1>7, <2>1
  <2>3. \A n \in DOMAIN ns : HasLayer(x.nodes[n], l) <=> HasLayer(ts[n], l)
    BY <1>3, <1>8
  <2>4. WellLinked(ts, l)
    BY <1>2 DEF ts
  <2>. QED
    BY <1>3, <1>8, <2>2, <2>3, <2>4 DEF WellLinked, Links
<1>11. \A l \in Nat : l < level => \A n \in DOMAIN ns : Neighbours(x.nodes[n], l) = Neighbours(ns[n], l)
  <2> SUFFICES ASSUME NEW l \in Nat, l < level, NEW n \in DOMAIN ns
               PROVE  Neighbours(x.nodes[n], l) = Neighbours(ns[n], l)
    OBVIOUS
  <2>1. l < level + 1 /\ l # level
    BY <1>1
  <2>2. Neighbours(x.nodes[n], l) = Neighbours(ts[n], l)
    BY <1>7, <2>1
  <2>3. Neighbours(ts[n], l) = Neighbours(ns[n], l)
    BY <1>2, <2>1 DEF ts
  <2>. QED
    BY <2>2, <2>3
<1>12. x.entry \in DOMAIN ns \ {new} /\ level <= Len(ns[x.entry].layers)
  <2>1. x.entry \in DOMAIN ns \ {new} /\ HasLayer(ts[x.entry], level)
    BY <1>3, <1>7 DEF Others
  <2>2. HasLayer(ns[x.entry], level)
    BY <1>3, <2>1
  <2>3. Len(ns[x.entry].layers) \in Nat
    <3> DEFINE L == Seq(Nat)
    <3>1. ns[x.entry].layers \in Seq(L)
      BY <2>1, NodesAre
    <3>. HIDE DEF L
    <3>. QED
      BY <3>1
  <2>. QED
    BY <1>1, <2>1, <2>2, <2>3 DEF HasLayer
<1>13. x.entry = e \/ ~ ns[x.entry].deleted
  <2>1. \A n \in DOMAIN ns : ts[n].deleted = ns[n].deleted
    BY <1>2, Zenon DEF Alike, ts
  <2>. QED
    BY <1>2, <1>7, <1>12, <2>1, Zenon
<1>14. Partly(ns, x, e, new, level)
  BY <1>9, <1>10, <1>11, <1>12, <1>13 DEF Partly
<1>15. ASSUME level = 0, Completing(ns, e, new), \A n \in DOMAIN ns : HasLayer(ns[n], 0)
       PROVE  Mutual(x.nodes, LiveIn(ns, DOMAIN ns))
  <2>1. \A n \in DOMAIN ns : ts[n].deleted = ns[n].deleted /\ Neighbours(ts[n], 0) = Neighbours(ns[n], 0)
    <3>1. \A n \in DOMAIN ns : ts[n].deleted = ns[n].deleted
      BY <1>2, Zenon DEF Alike, ts
    <3>2. \A n \in DOMAIN ns : Neighbours(ts[n], 0) = Neighbours(ns[n], 0)
      BY <1>1, <1>2, <1>15 DEF ts
    <3>. QED
      BY <3>1, <3>2, Zenon
  <2>2. ~ ts[s.entry].deleted
    BY <1>2, <1>15, <2>1, Zenon DEF Completing
  <2>3. Mutual(ts, LiveIn(ts, DOMAIN ts \ {new}))
    <3>1. LiveIn(ts, DOMAIN ns \ {new}) = LiveIn(ns, DOMAIN ns \ {new})
      BY <1>3
    <3>2. Mutual(ns, LiveIn(ns, DOMAIN ns \ {new}))
      BY <1>15 DEF Completing
    <3>3. \A n \in LiveIn(ns, DOMAIN ns \ {new}) : n \in DOMAIN ns
      BY DEF LiveIn
    <3>. QED
      BY <1>3, <2>1, <3>1, <3>2, <3>3 DEF Mutual
  <2>4. Len(ts) <= Least(MMax0, EfConstruction) + 1
    BY <1>3, <1>15 DEF Completing
  <2>5. \A n \in DOMAIN ts : HasLayer(ts[n], 0)
    BY <1>3, <1>15
  <2>6. LiveIn(ts, DOMAIN ts) = LiveIn(ns, DOMAIN ns)
    BY <1>3
  <2>7. Mutual(x.nodes, LiveIn(ts, DOMAIN ts))
    BY <1>3, <1>5, <1>15, <2>2, <2>3, <2>4, <2>5, LinkLayerCompletes DEF ts, x
  <2>. QED
    BY <2>6, <2>7
<1>. QED
  BY <1>14, <1>15 DEF x

\* At the end of the way the new node is linked at all of its layers, and the graph
\* is as well linked as before.
LEMMA LinkLayersIs ==
    ASSUME NEW ns \in Seq(NodeRecords), Distinct(ns), NEW new \in DOMAIN ns,
           \A l \in Levels : WellLinked(ns, l) /\ Unlinked(ns, new, l),
           NEW top \in Levels, top < Len(ns[new].layers),
           NEW e \in Others(ns, new, top), \A n \in DOMAIN ns : HasLayer(ns[n], 0)
    PROVE  LET ts == LinkLayers(ns, new, e, top)
           IN  /\ Alike(ns, ts)
               /\ \A l \in Levels : WellLinked(ts, l)
               /\ Completing(ns, e, new) => Mutual(ts, LiveIn(ns, DOMAIN ns))
<1> DEFINE b == top + 1
           first == [nodes |-> ns, entry |-> e]
           U == [nodes : Seq(NodeRecords), entry : Nat]
           After(x, i) == LinkLayer(x, new, top + 1 - i)
           Done(x) == Completing(ns, e, new) => Mutual(x.nodes, LiveIn(ns, DOMAIN ns))
           W == [i \in 0 .. b |-> {x \in U : Partly(ns, x, e, new, top + 1 - i) /\ (i = b => Done(x))}]
           step == [i \in 0 .. b |-> [x \in W[i - 1] |-> After(x, i)]]
           Is(f) == f = [i \in 0 .. b |-> IF i = 0 THEN first ELSE After(f[i - 1], i)]
           after == CHOOSE f : Is(f)
<1>1. top \in Nat /\ b \in Nat /\ b # 0 /\ 0 \in 0 .. b /\ b \in 0 .. b
  BY HnswAssumption DEF Levels
<1>2. \A i \in 0 .. b : i # 0 => /\ i - 1 \in 0 .. b /\ i - 1 # b /\ top + 1 - i \in Levels
                                 /\ top + 1 - (i - 1) = top + 1 - i + 1 /\ (i = b => top + 1 - i = 0)
  BY <1>1, HnswAssumption DEF Levels
<1>3. ns[new].layers \in Seq(Seq(Nat)) /\ Len(ns[new].layers) \in Nat /\ \A n \in DOMAIN ns : Len(ns[n].layers) \in Nat /\ n \in Nat
  <2> DEFINE L == Seq(Nat)
  <2>1. \A n \in DOMAIN ns : ns[n].layers \in Seq(L) /\ n \in Nat
    BY NodesAre
  <2>. HIDE DEF L
  <2>2. \A n \in DOMAIN ns : Len(ns[n].layers) \in Nat /\ n \in Nat
    BY <2>1
  <2>. QED
    BY <2>1, <2>2 DEF L
<1>4. first \in U /\ first.nodes = ns /\ first.entry = e
  <2> DEFINE N == Seq(NodeRecords)
  <2>1. e \in Nat
    BY <1>3 DEF Others
  <2>. HIDE DEF N
  <2>2. first \in [nodes : N, entry : Nat]
    BY <2>1 DEF N
  <2>. QED
    BY <2>2 DEF N
<1>5. first \in W[0]
  <2>1. Alike(ns, ns)
    BY Zenon DEF Alike
  <2>2. e \in DOMAIN ns \ {new} /\ top + 1 <= Len(ns[e].layers)
    BY <1>1, <1>3 DEF Others, HasLayer
  <2>. HIDE DEF first
  <2>3. Partly(ns, first, e, new, top + 1)
    BY <1>4, <2>1, <2>2 DEF Partly
  <2>4. top + 1 - 0 = top + 1
    BY <1>1
  <2>. HIDE DEF U, b
  <2>. QED
    BY <1>1, <1>4, <2>3, <2>4
<1>6. \A i \in 0 .. b : i # 0 => \A x \in W[i - 1] : After(x, i) \in W[i]
  <2> SUFFICES ASSUME NEW i \in 0 .. b, i # 0, NEW x \in W[i - 1] PROVE After(x, i) \in W[i]
    OBVIOUS
  <2> DEFINE level == top + 1 - i
             y == LinkLayer(x, new, level)
  <2>1. level \in Levels /\ level < Len(ns[new].layers) /\ (i = b => level = 0) /\ i - 1 \in 0 .. b
    BY <1>1, <1>2, <1>3
  <2>2. Partly(ns, x, e, new, level + 1)
    <3>1. Partly(ns, x, e, new, top + 1 - (i - 1))
      <4>. HIDE DEF U, Done, b
      <4>. QED
        BY <2>1
    <3>. QED
      BY <1>2, <3>1
  <2>3. Unlinked(ns, new, level)
    BY <2>1
  <2>. HIDE DEF level
  <2>4. /\ Partly(ns, y, e, new, level)
        /\ (level = 0 /\ Completing(ns, e, new) /\ \A n \in DOMAIN ns : HasLayer(ns[n], 0))
             => Mutual(y.nodes, LiveIn(ns, DOMAIN ns))
    <3>. HIDE DEF y, W
    <3>. QED
      BY <2>1, <2>2, <2>3, LinkedFurther DEF y
  <2>5. y \in U
    <3>1. DOMAIN y = {"nodes", "entry"} /\ y = [nodes |-> y.nodes, entry |-> y.entry]
      <4>1. \A p, q : LET r == [nodes |-> p, entry |-> q] IN r = [nodes |-> r.nodes, entry |-> r.entry]
        OBVIOUS
      <4>2. \E p, q : y = [nodes |-> p, entry |-> q]
        BY Zenon DEF LinkLayer
      <4>. HIDE DEF y
      <4>. QED
        BY <4>1, <4>2
    <3>. HIDE DEF y
    <3>2. y.nodes \in Seq(NodeRecords)
      BY <2>4, Zenon DEF Partly, Alike
    <3>3. y.entry \in Nat
      BY <1>3, <2>4 DEF Partly
    <3> DEFINE N == Seq(NodeRecords)
    <3>4. y.nodes \in N
      BY <3>2
    <3>. HIDE DEF N
    <3>5. y \in [nodes : N, entry : Nat]
      BY <3>1, <3>3, <3>4
    <3>. QED
      BY <3>5 DEF N
  <2>6. i = b => Done(y)
    <3>. HIDE DEF y
    <3>. QED
      BY <2>1, <2>4
  <2>7. y \in W[i]
    <3>1. Partly(ns, y, e, new, top + 1 - i)
      BY <2>4 DEF level
    <3>. HIDE DEF y, U, Done, b, level
    <3>. QED
      BY <2>5, <2>6, <3>1
  <2>. QED
    BY <2>7 DEF y, level
<1>. HIDE DEF W, b, After, first
<1>7. \E f : Is(f)
  <2>1. \A n \in 0 .. b : n # 0 => \A x \in W[n - 1] : step[n][x] = After(x, n)
    BY <1>2
  <2>2. PICK f : Iterates(f, 0, b, first, step) /\ \A n \in 0 .. b : f[n] \in W[n]
    <3>. HIDE DEF step, Is
    <3>1. \A n \in 0 .. b : n # 0 => \A x \in W[n - 1] : step[n][x] \in W[n]
      BY <1>2, <1>6, <2>1
    <3>. QED
      BY <1>1, <1>5, <3>1, IteratedWithin
  <2>3. \A n \in 0 .. b : (IF n = 0 THEN first ELSE step[n][f[n - 1]]) = IF n = 0 THEN first ELSE After(f[n - 1], n)
    <3>. HIDE DEF step
    <3>. QED
      BY <1>2, <2>1, <2>2
  <2>. HIDE DEF step
  <2>. QED
    BY <2>2, <2>3 DEF Iterates
<1>8. Is(after)
  <2>. HIDE DEF Is
  <2>. QED
    BY <1>7
<1>9. LinkLayers(ns, new, e, top) = after[b].nodes
  BY Zenon DEF LinkLayers, b, After, first
<1>. HIDE DEF after
<1>10. after[0] = first /\ \A n \in 0 .. b : n # 0 => after[n] = After(after[n - 1], n)
  <2>1. \A n \in 0 .. b : after[n] = IF n = 0 THEN first ELSE After(after[n - 1], n)
    BY <1>8
  <2>. QED
    BY <1>1, <2>1
<1>. HIDE DEF Is
<1>11. after[b] \in W[b]
  <2>1. after[0] \in W[0]
    BY <1>5, <1>10
  <2>2. \A n \in 0 .. b : n # 0 => (after[n - 1] \in W[n - 1] => after[n] \in W[n])
    BY <1>6, <1>10
  <2>3. \A n \in 0 .. b : after[n] \in W[n]
    BY <1>1, <2>1, <2>2, StaysWithin
  <2>. QED
    BY <1>1, <2>3
<1>. QED
  <2> DEFINE x == after[b]
  <2>1. Partly(ns, x, e, new, top + 1 - b) /\ Done(x)
    <3>. HIDE DEF x, U, Done
    <3>. QED
      BY <1>1, <1>11 DEF W, x
  <2>. HIDE DEF x
  <2>2. /\ Alike(ns, x.nodes)
        /\ \A l \in Levels : WellLinked(x.nodes, l)
        /\ Completing(ns, e, new) => Mutual(x.nodes, LiveIn(ns, DOMAIN ns))
    BY <2>1 DEF Partly
  <2>. QED
    BY <1>9, <2>2 DEF x

-----------------------------------------------------------------------------
(* The inductive invariant, of the index and of what was serialised.       *)

HeldIn(s, id) == s.idToNode[id] # 0 /\ ~ s.nodes[s.idToNode[id]].deleted
LiveOf(s) == {id \in Ids : HeldIn(s, id)}

\* Documents and nodes are one to one, and the entry point is at the top.
Mapped(s) ==
    /\ \A id \in Ids : s.idToNode[id] # 0 => s.idToNode[id] \in DOMAIN s.nodes /\ s.nodes[s.idToNode[id]].id = id
    /\ \A n \in DOMAIN s.nodes : s.idToNode[s.nodes[n].id] = n
    /\ \A n \in DOMAIN s.nodes : Len(s.nodes[n].layers) \in 1 .. s.maxLevel + 1
    /\ IF s.entryPoint = 0 THEN s.nodes = <<>>
       ELSE s.entryPoint \in DOMAIN s.nodes /\ Len(s.nodes[s.entryPoint].layers) = s.maxLevel + 1

\* Until a node has to leave one out, all live ones have each other for neighbours.
Complete(s) == Len(s.nodes) <= Least(MMax0, EfConstruction) + 1 /\ s.revived = {} /\ ~ s.astray =>
    Mutual(s.nodes, LiveIn(s.nodes, DOMAIN s.nodes))

Good(s) ==
    /\ s \in Snapshots /\ Mapped(s)
    /\ Distinct(s.nodes)
    /\ \A level \in Levels : WellLinked(s.nodes, level)
    /\ s.activeCount = Cardinality(LiveOf(s))
    /\ Complete(s)

Snapshot == [nodes |-> nodes, idToNode |-> idToNode, entryPoint |-> entryPoint, maxLevel |-> maxLevel,
             activeCount |-> activeCount, revived |-> revived, astray |-> astray]

IInv == Good(Snapshot) /\ (bytes = NoBytes \/ Good(bytes)) /\ inserts \in 0 .. MaxInserts

LEMMA SnapshotIs ==
    /\ Snapshot.nodes = nodes /\ Snapshot.idToNode = idToNode /\ Snapshot.entryPoint = entryPoint
    /\ Snapshot.maxLevel = maxLevel /\ Snapshot.activeCount = activeCount
    /\ Snapshot.revived = revived /\ Snapshot.astray = astray
    /\ LiveOf(Snapshot) = Live
<1>1. /\ Snapshot.nodes = nodes /\ Snapshot.idToNode = idToNode /\ Snapshot.entryPoint = entryPoint
      /\ Snapshot.maxLevel = maxLevel /\ Snapshot.activeCount = activeCount
      /\ Snapshot.revived = revived /\ Snapshot.astray = astray
  BY DEF Snapshot
<1>. QED
  BY <1>1 DEF LiveOf, HeldIn, Live, Held

\* A snapshot consists of its fields.
Built(p, map, entry, top, count, ids, flag) ==
    [nodes |-> p, idToNode |-> map, entryPoint |-> entry, maxLevel |-> top,
     activeCount |-> count, revived |-> ids, astray |-> flag]

LEMMA SnapshotsAre ==
    /\ \A s \in Snapshots :
        /\ s.nodes \in Seq(NodeRecords) /\ s.idToNode \in [Ids -> Nat] /\ s.entryPoint \in Nat
        /\ s.maxLevel \in Levels /\ s.activeCount \in Nat /\ s.revived \in SUBSET Ids /\ s.astray \in BOOLEAN
    /\ \A p \in Seq(NodeRecords), map \in [Ids -> Nat], entry \in Nat, top \in Levels, count \in Nat,
          ids \in SUBSET Ids, flag \in BOOLEAN : Built(p, map, entry, top, count, ids, flag) \in Snapshots
<1> DEFINE N == Seq(NodeRecords)
           F == [Ids -> Nat]
           P == SUBSET Ids
<1>1. Snapshots = [nodes : N, idToNode : F, entryPoint : Nat, maxLevel : Levels,
                   activeCount : Nat, revived : P, astray : BOOLEAN]
  BY DEF Snapshots
<1>. HIDE DEF N, F, P
<1>2. \A s \in Snapshots :
        /\ s.nodes \in N /\ s.idToNode \in F /\ s.entryPoint \in Nat
        /\ s.maxLevel \in Levels /\ s.activeCount \in Nat /\ s.revived \in P /\ s.astray \in BOOLEAN
  BY <1>1
<1>3. \A p \in N, map \in F, entry \in Nat, top \in Levels, count \in Nat, ids \in P, flag \in BOOLEAN :
        Built(p, map, entry, top, count, ids, flag) \in Snapshots
  BY <1>1 DEF Built
<1>. QED
  BY <1>2, <1>3 DEF N, F, P

\* The next state as a snapshot.
LEMMA NextSnapshot ==
    ASSUME nodes' \in Seq(NodeRecords), idToNode' \in [Ids -> Nat], entryPoint' \in Nat, maxLevel' \in Levels,
           activeCount' \in Nat, revived' \in SUBSET Ids, astray' \in BOOLEAN
    PROVE  Snapshot' \in Snapshots
<1>1. Snapshot' = Built(nodes', idToNode', entryPoint', maxLevel', activeCount', revived', astray')
  BY DEF Snapshot, Built
<1>. QED
  BY <1>1, SnapshotsAre

LEMMA NextSnapshotIs ==
    /\ Snapshot'.nodes = nodes' /\ Snapshot'.idToNode = idToNode' /\ Snapshot'.entryPoint = entryPoint'
    /\ Snapshot'.maxLevel = maxLevel' /\ Snapshot'.activeCount = activeCount'
    /\ Snapshot'.revived = revived' /\ Snapshot'.astray = astray'
BY DEF Snapshot

\* The layers of a node are those up to some level.
LEMMA LayersAre ==
    ASSUME NEW ns \in Seq(NodeRecords)
    PROVE  \A n \in DOMAIN ns : n \in Nat \ {0} /\ Len(ns[n].layers) \in Nat
<1> DEFINE L == Seq(Nat)
<1>1. \A n \in DOMAIN ns : ns[n].layers \in Seq(L) /\ n \in Nat \ {0}
  BY NodesAre
<1>. HIDE DEF L
<1>. QED
  BY <1>1

\* An empty graph is in order.
LEMMA InitInvariant == Init => IInv
<1> SUFFICES ASSUME Init PROVE IInv
  OBVIOUS
<1> DEFINE s == Snapshot
<1>1. /\ s.nodes = <<>> /\ s.idToNode = [id \in Ids |-> 0] /\ s.entryPoint = 0 /\ s.maxLevel = 0
      /\ s.activeCount = 0 /\ s.revived = {} /\ s.astray = FALSE
  BY SnapshotIs DEF Init
<1>2. s \in Snapshots
  <2>1. <<>> \in Seq(NodeRecords) /\ [id \in Ids |-> 0] \in [Ids -> Nat] /\ 0 \in Nat /\ 0 \in Levels
        /\ {} \in SUBSET Ids /\ FALSE \in BOOLEAN
    BY HnswAssumption DEF Levels
  <2>2. s = Built(<<>>, [id \in Ids |-> 0], 0, 0, 0, {}, FALSE)
    BY DEF Snapshot, Init, Built
  <2>. HIDE DEF s
  <2>. QED
    BY <2>1, <2>2, SnapshotsAre
<1>. HIDE DEF s
<1>3. DOMAIN s.nodes = {}
  BY <1>1
<1>4. Mapped(s)
  BY <1>1, <1>3 DEF Mapped
<1>5. LiveOf(s) = {}
  BY <1>1 DEF LiveOf, HeldIn
<1>6. s.activeCount = Cardinality(LiveOf(s))
  BY <1>1, <1>5, FS_EmptySet
<1>7. Distinct(s.nodes) /\ \A level \in Levels : WellLinked(s.nodes, level)
  BY <1>3 DEF Distinct, WellLinked
<1>8. Complete(s)
  BY <1>3 DEF Complete, Mutual, LiveIn
<1>9. Good(s)
  BY <1>2, <1>4, <1>6, <1>7, <1>8 DEF Good
<1>10. bytes = NoBytes /\ inserts \in 0 .. MaxInserts
  BY HnswAssumption DEF Init
<1>. QED
  BY <1>9, <1>10 DEF IInv, s

-----------------------------------------------------------------------------
(* Steps that change vectors and deletions only.                           *)

LEMMA StillGood ==
    ASSUME NEW s, Good(s), NEW t \in Snapshots,
           t.idToNode = s.idToNode, t.entryPoint = s.entryPoint, t.maxLevel = s.maxLevel, t.astray = s.astray,
           Len(t.nodes) = Len(s.nodes),
           \A n \in DOMAIN s.nodes : t.nodes[n].id = s.nodes[n].id /\ t.nodes[n].layers = s.nodes[n].layers,
           Distinct(t.nodes), t.activeCount = Cardinality(LiveOf(t)),
           t.revived = {} => s.revived = {} /\ \A n \in DOMAIN s.nodes : s.nodes[n].deleted => t.nodes[n].deleted
    PROVE  Good(t)
<1> DEFINE ns == s.nodes
           ts == t.nodes
<1>1. s \in Snapshots /\ Mapped(s) /\ (\A level \in Levels : WellLinked(ns, level)) /\ Complete(s)
  BY DEF Good
<1>2. ns \in Seq(NodeRecords) /\ ts \in Seq(NodeRecords)
  BY <1>1, SnapshotsAre
<1>3. DOMAIN ts = DOMAIN ns
  BY <1>2, NodesAre
<1>4. \A n \in DOMAIN ns : \A level : HasLayer(ts[n], level) <=> HasLayer(ns[n], level)
  BY DEF HasLayer
<1>5. \A n \in DOMAIN ns : \A level : Neighbours(ts[n], level) = Neighbours(ns[n], level)
  BY DEF HasLayer, Neighbours
<1>6. Mapped(t)
  <2>1. \A id \in Ids : s.idToNode[id] # 0 => s.idToNode[id] \in DOMAIN ns /\ ns[s.idToNode[id]].id = id
    BY <1>1 DEF Mapped
  <2>2. \A n \in DOMAIN ns : /\ s.idToNode[ns[n].id] = n
                             /\ Len(ns[n].layers) \in 1 .. s.maxLevel + 1
    BY <1>1 DEF Mapped
  <2>3. IF s.entryPoint = 0 THEN ns = <<>>
        ELSE s.entryPoint \in DOMAIN ns /\ Len(ns[s.entryPoint].layers) = s.maxLevel + 1
    BY <1>1 DEF Mapped
  <2>4. ns = <<>> => ts = <<>>
    BY <1>2
  <2>5. \A id \in Ids : t.idToNode[id] # 0 => t.idToNode[id] \in DOMAIN ts /\ ts[t.idToNode[id]].id = id
    BY <1>3, <2>1
  <2>6. \A n \in DOMAIN ts : t.idToNode[ts[n].id] = n /\ Len(ts[n].layers) \in 1 .. t.maxLevel + 1
    BY <1>3, <2>2
  <2>7. IF t.entryPoint = 0 THEN ts = <<>>
        ELSE t.entryPoint \in DOMAIN ts /\ Len(ts[t.entryPoint].layers) = t.maxLevel + 1
    BY <1>3, <2>3, <2>4
  <2>. QED
    BY <2>5, <2>6, <2>7 DEF Mapped
<1>7. \A level \in Levels : WellLinked(ts, level)
  <2> SUFFICES ASSUME NEW level \in Levels PROVE WellLinked(ts, level)
    OBVIOUS
  <2>1. WellLinked(ns, level)
    BY <1>1
  <2>. HIDE DEF ns, ts
  <2>. QED
    BY <1>3, <1>4, <1>5, <2>1 DEF WellLinked, Links
<1>8. Complete(t)
  <2> SUFFICES ASSUME Len(ts) <= Least(MMax0, EfConstruction) + 1, t.revived = {}, ~ t.astray
               PROVE  Mutual(ts, LiveIn(ts, DOMAIN ts))
    BY DEF Complete
  <2>1. Mutual(ns, LiveIn(ns, DOMAIN ns))
    BY <1>1 DEF Complete
  <2>2. \A n \in LiveIn(ts, DOMAIN ts) : n \in LiveIn(ns, DOMAIN ns) /\ n \in DOMAIN ns
    BY <1>3 DEF LiveIn
  <2>. HIDE DEF ns, ts
  <2>. QED
    BY <1>3, <1>5, <2>1, <2>2 DEF Mutual
<1>. QED
  BY <1>6, <1>7, <1>8 DEF Good

\* Nodes of which one has another vector, and is deleted or not.
Changed(ns, n, v, d) ==
    [m \in DOMAIN ns |-> IF m = n THEN [id |-> ns[n].id, vector |-> v, layers |-> ns[n].layers, deleted |-> d]
                         ELSE ns[m]]

Replaced(node, v, d) == [node EXCEPT !.vector = v, !.deleted = d]
Marked(node, d) == [node EXCEPT !.deleted = d]
Substituted(ns, n, node) == [ns EXCEPT ![n] = node]

LEMMA Replacing ==
    ASSUME NEW ns \in Seq(NodeRecords), NEW n \in DOMAIN ns, NEW v, NEW d
    PROVE  /\ Changed(ns, n, v, d) = Substituted(ns, n, Replaced(ns[n], v, d))
           /\ Changed(ns, n, ns[n].vector, d) = Substituted(ns, n, Marked(ns[n], d))
<1> DEFINE node == ns[n]
           a == node.id
           b == node.vector
           c == node.layers
           e == node.deleted
<1>1. node = [id |-> a, vector |-> b, layers |-> c, deleted |-> e]
  BY NodesAre
<1>2. Changed(ns, n, v, d) = [m \in DOMAIN ns |-> IF m = n THEN [id |-> a, vector |-> v, layers |-> c, deleted |-> d] ELSE ns[m]]
  BY DEF Changed
<1>3. Changed(ns, n, b, d) = [m \in DOMAIN ns |-> IF m = n THEN [id |-> a, vector |-> b, layers |-> c, deleted |-> d] ELSE ns[m]]
  BY DEF Changed
<1>. HIDE DEF a, b, c, e
<1>4. Replaced(node, v, d) = [id |-> a, vector |-> v, layers |-> c, deleted |-> d]
  <2> DEFINE moved == [node EXCEPT !.vector = v]
  <2>1. Replaced(node, v, d) = [moved EXCEPT !.deleted = d]
    BY Zenon DEF Replaced
  <2>2. moved = [id |-> a, vector |-> v, layers |-> c, deleted |-> e]
    <3>. HIDE DEF node
    <3>. QED
      BY <1>1
  <2>. HIDE DEF moved
  <2>. QED
    BY <2>1, <2>2
<1>5. Marked(node, d) = [id |-> a, vector |-> b, layers |-> c, deleted |-> d]
  <2>. HIDE DEF node
  <2>. QED
    BY <1>1 DEF Marked
<1>6. Changed(ns, n, v, d) = Substituted(ns, n, Replaced(node, v, d))
  BY <1>2, <1>4 DEF Substituted
<1>7. Changed(ns, n, b, d) = Substituted(ns, n, Marked(node, d))
  BY <1>3, <1>5 DEF Substituted
<1>. QED
  BY <1>6, <1>7 DEF b

LEMMA NodeChanged ==
    ASSUME NEW ns \in Seq(NodeRecords), NEW n \in DOMAIN ns, NEW v \in Int, NEW d \in BOOLEAN, NEW ts,
           ts = Changed(ns, n, v, d)
    PROVE  /\ ts \in Seq(NodeRecords) /\ Len(ts) = Len(ns) /\ DOMAIN ts = DOMAIN ns
           /\ \A m \in DOMAIN ns : ts[m].id = ns[m].id /\ ts[m].layers = ns[m].layers
           /\ ts[n].vector = v /\ (ts[n].deleted <=> d)
           /\ \A m \in DOMAIN ns \ {n} : ts[m] = ns[m]
<1> DEFINE L == Seq(Seq(Nat))
           node == [id |-> ns[n].id, vector |-> v, layers |-> ns[n].layers, deleted |-> d]
<1>1. DOMAIN ns = 1 .. Len(ns) /\ Len(ns) \in Nat /\ \A m \in DOMAIN ns : ns[m] \in NodeRecords
      /\ ns[n].id \in Ids /\ ns[n].layers \in L
  BY NodesAre
<1>2. node \in NodeRecords
  <2>. HIDE DEF L
  <2>1. node \in [id : Ids, vector : Int, layers : L, deleted : BOOLEAN]
    BY <1>1
  <2>. QED
    BY <2>1 DEF NodeRecords, L
<1>3. node.id = ns[n].id /\ node.layers = ns[n].layers /\ node.vector = v /\ (node.deleted <=> d)
  OBVIOUS
<1>. HIDE DEF node
<1>4. ts = [m \in DOMAIN ns |-> IF m = n THEN node ELSE ns[m]]
  BY DEF node, Changed
<1>5. ts \in Seq(NodeRecords) /\ Len(ts) = Len(ns) /\ DOMAIN ts = DOMAIN ns
  BY <1>1, <1>2, <1>4
<1>6. ts[n] = node /\ \A m \in DOMAIN ns \ {n} : ts[m] = ns[m]
  BY <1>4
<1>. QED
  BY <1>3, <1>5, <1>6

\* The live documents after one has changed.
LEMMA LiveChanged ==
    ASSUME NEW s, Good(s), NEW t, t.idToNode = s.idToNode,
           NEW id \in Ids, s.idToNode[id] # 0,
           \A m \in DOMAIN s.nodes \ {s.idToNode[id]} : t.nodes[m] = s.nodes[m]
    PROVE  /\ id \in LiveOf(t) <=> ~ t.nodes[s.idToNode[id]].deleted
           /\ id \in LiveOf(s) <=> ~ s.nodes[s.idToNode[id]].deleted
           /\ \A other \in Ids \ {id} : other \in LiveOf(t) <=> other \in LiveOf(s)
           /\ LiveOf(s) \in SUBSET Ids /\ LiveOf(t) \in SUBSET Ids
<1>1. ASSUME NEW other \in Ids \ {id} PROVE HeldIn(t, other) <=> HeldIn(s, other)
  <2>1. CASE s.idToNode[other] = 0
    BY <2>1 DEF HeldIn
  <2>2. CASE s.idToNode[other] # 0
    <3>1. s.idToNode[other] \in DOMAIN s.nodes \ {s.idToNode[id]}
      BY <2>2 DEF Good, Mapped
    <3>2. t.nodes[s.idToNode[other]] = s.nodes[s.idToNode[other]]
      BY <3>1
    <3>. QED
      BY <3>2 DEF HeldIn
  <2>. QED
    BY <2>1, <2>2
<1>2. /\ HeldIn(t, id) <=> ~ t.nodes[s.idToNode[id]].deleted
      /\ HeldIn(s, id) <=> ~ s.nodes[s.idToNode[id]].deleted
  BY Zenon DEF HeldIn
<1>. QED
  BY <1>1, <1>2 DEF LiveOf

\* The vectors that a graph holds are another's, but for one document.
Differs(s, t, id, x) == \A other \in Ids :
    VectorIn(t.nodes, t.idToNode, other) = IF other = id THEN x ELSE VectorIn(s.nodes, s.idToNode, other)

LEMMA ChangedDiffers ==
    ASSUME NEW s, Good(s), NEW t, t.idToNode = s.idToNode, NEW id \in Ids, s.idToNode[id] # 0,
           \A m \in DOMAIN s.nodes \ {s.idToNode[id]} : t.nodes[m] = s.nodes[m]
    PROVE  Differs(s, t, id, VectorIn(t.nodes, t.idToNode, id))
<1>1. ASSUME NEW other \in Ids \ {id}
      PROVE  VectorIn(t.nodes, t.idToNode, other) = VectorIn(s.nodes, s.idToNode, other)
  <2>1. CASE s.idToNode[other] = 0
    BY <2>1, Zenon DEF VectorIn
  <2>2. CASE s.idToNode[other] # 0
    <3>1. s.idToNode[other] \in DOMAIN s.nodes \ {s.idToNode[id]}
      BY <2>2 DEF Good, Mapped
    <3>2. t.nodes[s.idToNode[other]] = s.nodes[s.idToNode[other]]
      BY <3>1
    <3>. QED
      BY <3>2, Zenon DEF VectorIn
  <2>. QED
    BY <2>1, <2>2
<1>. QED
  BY <1>1 DEF Differs

\* An updated document is live.
LEMMA UpdateInvariant ==
    ASSUME IInv, NEW id \in Ids, NEW v \in Vectors,
           \A n \in DOMAIN nodes : nodes[n].id # id => nodes[n].vector # Prepared(Metric, v),
           Update(id, Prepared(Metric, v))
    PROVE  Good(Snapshot') /\ Differs(Snapshot, Snapshot', id, Prepared(Metric, v))
<1> DEFINE s == Snapshot
           t == Snapshot'
           n == idToNode[id]
           w == Prepared(Metric, v)
<1>1. /\ Good(s) /\ s \in Snapshots /\ Mapped(s) /\ Distinct(s.nodes) /\ s.activeCount = Cardinality(LiveOf(s))
  BY DEF IInv, Good
<1>2. /\ nodes \in Seq(NodeRecords) /\ idToNode \in [Ids -> Nat] /\ entryPoint \in Nat /\ maxLevel \in Levels
      /\ activeCount \in Nat /\ revived \in SUBSET Ids /\ astray \in BOOLEAN
  <2>. HIDE DEF s
  <2>1. /\ s.nodes \in Seq(NodeRecords) /\ s.idToNode \in [Ids -> Nat] /\ s.entryPoint \in Nat /\ s.maxLevel \in Levels
        /\ s.activeCount \in Nat /\ s.revived \in SUBSET Ids /\ s.astray \in BOOLEAN
    BY <1>1, SnapshotsAre
  <2>. QED
    BY <2>1, SnapshotIs DEF s
<1>3. /\ n # 0 /\ nodes' = [nodes EXCEPT ![n].vector = w, ![n].deleted = FALSE]
      /\ activeCount' = (IF nodes[n].deleted THEN activeCount + 1 ELSE activeCount)
      /\ revived' = (IF nodes[n].deleted THEN revived \cup {id} ELSE revived)
      /\ idToNode' = idToNode /\ entryPoint' = entryPoint /\ maxLevel' = maxLevel /\ astray' = astray
  BY DEF Update
<1>4. /\ s.nodes = nodes /\ s.idToNode = idToNode /\ s.entryPoint = entryPoint /\ s.maxLevel = maxLevel
      /\ s.activeCount = activeCount /\ s.revived = revived /\ s.astray = astray
  BY SnapshotIs
<1>5. /\ t.nodes = nodes' /\ t.idToNode = idToNode' /\ t.entryPoint = entryPoint' /\ t.maxLevel = maxLevel'
      /\ t.activeCount = activeCount' /\ t.revived = revived' /\ t.astray = astray'
  BY NextSnapshotIs
<1>6. n \in DOMAIN nodes /\ nodes[n].id = id /\ w \in Int /\ w \in Own
  <2>1. n \in DOMAIN nodes /\ nodes[n].id = id
    BY <1>1, <1>3, <1>4 DEF Mapped
  <2>2. w \in Int
    BY HnswAssumption, Values
  <2>. QED
    BY <2>1, <2>2 DEF Own
<1>7. nodes' = Changed(nodes, n, w, FALSE)
  <2>1. nodes' = Substituted(nodes, n, Replaced(nodes[n], w, FALSE))
    BY <1>3, <1>6, Zenon DEF Replaced, Substituted
  <2> DEFINE no == FALSE
  <2>2. nodes' = Substituted(nodes, n, Replaced(nodes[n], w, no))
    BY <2>1
  <2>. HIDE DEF n, w, no
  <2>3. nodes' = Changed(nodes, n, w, no)
    BY <1>2, <1>6, <2>2, Replacing
  <2>. QED
    BY <2>3 DEF no
<1>. HIDE DEF n, w
<1>8. /\ nodes' \in Seq(NodeRecords) /\ Len(nodes') = Len(nodes) /\ DOMAIN nodes' = DOMAIN nodes
      /\ \A m \in DOMAIN nodes : nodes'[m].id = nodes[m].id /\ nodes'[m].layers = nodes[m].layers
      /\ nodes'[n].vector = w /\ ~ nodes'[n].deleted
      /\ \A m \in DOMAIN nodes \ {n} : nodes'[m] = nodes[m]
  <2> DEFINE no == FALSE
             ts == nodes'
  <2>1. no \in BOOLEAN /\ ~ no
    OBVIOUS
  <2>2. ts = Changed(nodes, n, w, no)
    BY <1>7
  <2>. HIDE DEF no, ts
  <2>3. /\ ts \in Seq(NodeRecords) /\ Len(ts) = Len(nodes) /\ DOMAIN ts = DOMAIN nodes
        /\ \A m \in DOMAIN nodes : ts[m].id = nodes[m].id /\ ts[m].layers = nodes[m].layers
        /\ ts[n].vector = w /\ (ts[n].deleted <=> no)
        /\ \A m \in DOMAIN nodes \ {n} : ts[m] = nodes[m]
    BY <1>2, <1>6, <2>1, <2>2, NodeChanged
  <2>. QED
    BY <2>1, <2>3 DEF ts
<1>9. t \in Snapshots
  <2>1. activeCount' \in Nat /\ revived' \in SUBSET Ids
    BY <1>2, <1>3
  <2>. QED
    BY <1>2, <1>3, <1>8, <2>1, NextSnapshot
<1>. HIDE DEF s, t
<1>10. Distinct(t.nodes)
  <2>1. \A m \in DOMAIN nodes : nodes[m].vector \in Own
    BY <1>1, <1>4 DEF Distinct
  <2>2. \A m, k \in DOMAIN nodes : nodes[m].vector = nodes[k].vector => m = k
    BY <1>1, <1>4 DEF Distinct
  <2>3. \A m \in DOMAIN nodes \ {n} : nodes[m].vector # w
    <3>1. \A m \in DOMAIN nodes : idToNode[nodes[m].id] = m
      BY <1>1, <1>4 DEF Mapped
    <3>. QED
      BY <3>1, <1>6 DEF n, w
  <2>4. \A m \in DOMAIN nodes : nodes'[m].vector \in Own
    BY <1>6, <1>8, <2>1
  <2>5. \A m, k \in DOMAIN nodes : nodes'[m].vector = nodes'[k].vector => m = k
    BY <1>8, <2>2, <2>3
  <2>. QED
    BY <1>5, <1>8, <2>4, <2>5 DEF Distinct
<1>11. t.activeCount = Cardinality(LiveOf(t))
  <2>1. /\ id \in LiveOf(t)
        /\ id \in LiveOf(s) <=> ~ nodes[n].deleted
        /\ \A other \in Ids \ {id} : other \in LiveOf(t) <=> other \in LiveOf(s)
        /\ LiveOf(s) \in SUBSET Ids /\ LiveOf(t) \in SUBSET Ids
    <3>1. t.idToNode = s.idToNode /\ s.idToNode[id] = n /\ n # 0
          /\ \A m \in DOMAIN s.nodes \ {n} : t.nodes[m] = s.nodes[m]
      BY <1>3, <1>4, <1>5, <1>8 DEF n
    <3>2. /\ id \in LiveOf(t) <=> ~ t.nodes[s.idToNode[id]].deleted
          /\ id \in LiveOf(s) <=> ~ s.nodes[s.idToNode[id]].deleted
          /\ \A other \in Ids \ {id} : other \in LiveOf(t) <=> other \in LiveOf(s)
          /\ LiveOf(s) \in SUBSET Ids /\ LiveOf(t) \in SUBSET Ids
      BY <1>1, <3>1, LiveChanged
    <3>. QED
      BY <1>4, <1>5, <1>8, <3>1, <3>2, Zenon
  <2>2. IsFiniteSet(LiveOf(s))
    BY <2>1, HnswAssumption, FS_Subset
  <2>3. LiveOf(t) = LiveOf(s) \cup {id}
    BY <2>1
  <2>4. Cardinality(LiveOf(t)) = IF id \in LiveOf(s) THEN Cardinality(LiveOf(s)) ELSE Cardinality(LiveOf(s)) + 1
    BY <2>2, <2>3, FS_AddElement
  <2>5. CASE nodes[n].deleted
    BY <1>1, <1>3, <1>4, <1>5, <2>1, <2>4, <2>5
  <2>6. CASE ~ nodes[n].deleted
    BY <1>1, <1>3, <1>4, <1>5, <2>1, <2>4, <2>6
  <2>. QED
    BY <2>5, <2>6
<1>12. t.revived = {} => s.revived = {} /\ \A m \in DOMAIN s.nodes : s.nodes[m].deleted => t.nodes[m].deleted
  <2> SUFFICES ASSUME t.revived = {}
               PROVE  s.revived = {} /\ \A m \in DOMAIN s.nodes : s.nodes[m].deleted => t.nodes[m].deleted
    OBVIOUS
  <2>1. ~ nodes[n].deleted /\ revived = {}
    BY <1>3, <1>5
  <2>2. \A m \in DOMAIN nodes : nodes[m].deleted => nodes'[m].deleted
    <3> SUFFICES ASSUME NEW m \in DOMAIN nodes, nodes[m].deleted PROVE nodes'[m].deleted
      OBVIOUS
    <3>1. m # n
      BY <2>1
    <3>2. nodes'[m] = nodes[m]
      BY <1>8, <3>1
    <3>. QED
      BY <3>2
  <2>. QED
    BY <1>4, <1>5, <2>1, <2>2
<1>13. Good(t)
  <2>1. t.idToNode = s.idToNode /\ t.entryPoint = s.entryPoint /\ t.maxLevel = s.maxLevel /\ t.astray = s.astray
    BY <1>3, <1>4, <1>5
  <2>2. Len(t.nodes) = Len(s.nodes)
        /\ \A m \in DOMAIN s.nodes : t.nodes[m].id = s.nodes[m].id /\ t.nodes[m].layers = s.nodes[m].layers
    BY <1>4, <1>5, <1>8
  <2>. QED
    BY <1>1, <1>9, <1>10, <1>11, <1>12, <2>1, <2>2, StillGood
<1>14. Differs(s, t, id, w)
  <2>1. t.idToNode = s.idToNode /\ s.idToNode[id] = n /\ n # 0
        /\ \A m \in DOMAIN s.nodes \ {n} : t.nodes[m] = s.nodes[m]
    BY <1>3, <1>4, <1>5, <1>8 DEF n
  <2>2. t.nodes[n].vector = w /\ ~ t.nodes[n].deleted
    BY <1>5, <1>8
  <2>3. VectorIn(t.nodes, t.idToNode, id) = w
    BY <2>1, <2>2, Zenon DEF VectorIn
  <2>4. Differs(s, t, id, VectorIn(t.nodes, t.idToNode, id))
    BY <1>1, <2>1, ChangedDiffers
  <2>. QED
    BY <2>3, <2>4
<1>. QED
  BY <1>13, <1>14 DEF s, t, w

\* A deleted one is not, and the graph is as it was.
LEMMA DeleteInvariant ==
    ASSUME IInv, NEW id \in Ids, DeleteHeld(id),
           UNCHANGED <<idToNode, entryPoint, maxLevel, history>>
    PROVE  Good(Snapshot') /\ Differs(Snapshot, Snapshot', id, None)
<1> DEFINE s == Snapshot
           t == Snapshot'
           n == idToNode[id]
<1>1. /\ Good(s) /\ s \in Snapshots /\ Mapped(s) /\ Distinct(s.nodes) /\ s.activeCount = Cardinality(LiveOf(s))
  BY DEF IInv, Good
<1>2. /\ nodes \in Seq(NodeRecords) /\ idToNode \in [Ids -> Nat] /\ entryPoint \in Nat /\ maxLevel \in Levels
      /\ activeCount \in Nat /\ revived \in SUBSET Ids /\ astray \in BOOLEAN
  <2>. HIDE DEF s
  <2>1. /\ s.nodes \in Seq(NodeRecords) /\ s.idToNode \in [Ids -> Nat] /\ s.entryPoint \in Nat /\ s.maxLevel \in Levels
        /\ s.activeCount \in Nat /\ s.revived \in SUBSET Ids /\ s.astray \in BOOLEAN
    BY <1>1, SnapshotsAre
  <2>. QED
    BY <2>1, SnapshotIs DEF s
<1>3. /\ n # 0 /\ ~ nodes[n].deleted
      /\ nodes' = [nodes EXCEPT ![n].deleted = TRUE]
      /\ activeCount' = activeCount - 1
      /\ idToNode' = idToNode /\ entryPoint' = entryPoint /\ maxLevel' = maxLevel
      /\ revived' = revived /\ astray' = astray
  BY DEF DeleteHeld, Held, history
<1>4. /\ s.nodes = nodes /\ s.idToNode = idToNode /\ s.entryPoint = entryPoint /\ s.maxLevel = maxLevel
      /\ s.activeCount = activeCount /\ s.revived = revived /\ s.astray = astray
  BY SnapshotIs
<1>5. /\ t.nodes = nodes' /\ t.idToNode = idToNode' /\ t.entryPoint = entryPoint' /\ t.maxLevel = maxLevel'
      /\ t.activeCount = activeCount' /\ t.revived = revived' /\ t.astray = astray'
  BY NextSnapshotIs
<1>6. n \in DOMAIN nodes /\ nodes[n].id = id /\ nodes[n].vector \in Int
  <2>1. n \in DOMAIN nodes /\ nodes[n].id = id
    BY <1>1, <1>3, <1>4 DEF Mapped
  <2>. QED
    BY <1>2, <2>1, NodesAre
<1>7. nodes' = Changed(nodes, n, nodes[n].vector, TRUE)
  <2>1. nodes' = Substituted(nodes, n, Marked(nodes[n], TRUE))
    BY <1>3, <1>6, Zenon DEF Marked, Substituted
  <2> DEFINE yes == TRUE
  <2>2. nodes' = Substituted(nodes, n, Marked(nodes[n], yes))
    BY <2>1
  <2>. HIDE DEF n, yes
  <2>3. nodes' = Changed(nodes, n, nodes[n].vector, yes)
    BY <1>2, <1>6, <2>2, Replacing
  <2>. QED
    BY <2>3 DEF yes
<1>. HIDE DEF n
<1>8. /\ nodes' \in Seq(NodeRecords) /\ Len(nodes') = Len(nodes) /\ DOMAIN nodes' = DOMAIN nodes
      /\ \A m \in DOMAIN nodes : nodes'[m].id = nodes[m].id /\ nodes'[m].layers = nodes[m].layers
      /\ nodes'[n].vector = nodes[n].vector /\ nodes'[n].deleted
      /\ \A m \in DOMAIN nodes \ {n} : nodes'[m] = nodes[m]
  <2> DEFINE yes == TRUE
             ts == nodes'
             w == nodes[n].vector
  <2>1. yes \in BOOLEAN
    OBVIOUS
  <2>5. yes
    OBVIOUS
  <2>2. ts = Changed(nodes, n, w, yes)
    BY <1>7
  <2>4. w \in Int
    BY <1>6
  <2>. HIDE DEF yes, ts, w
  <2>3. /\ ts \in Seq(NodeRecords) /\ Len(ts) = Len(nodes) /\ DOMAIN ts = DOMAIN nodes
        /\ \A m \in DOMAIN nodes : ts[m].id = nodes[m].id /\ ts[m].layers = nodes[m].layers
        /\ ts[n].vector = w /\ (ts[n].deleted <=> yes)
        /\ \A m \in DOMAIN nodes \ {n} : ts[m] = nodes[m]
    BY <1>2, <1>6, <2>1, <2>2, <2>4, NodeChanged
  <2>. QED
    BY <2>3, <2>5 DEF ts, w
<1>. HIDE DEF s, t
<1>9. \A m \in DOMAIN nodes : nodes'[m].vector = nodes[m].vector
  BY <1>8
<1>10. Distinct(t.nodes)
  <2>1. Distinct(nodes)
    BY <1>1, <1>4
  <2>. QED
    BY <1>5, <1>8, <1>9, <2>1 DEF Distinct
<1>11. t.activeCount = Cardinality(LiveOf(t)) /\ activeCount' \in Nat
  <2>1. /\ id \notin LiveOf(t) /\ id \in LiveOf(s)
        /\ \A other \in Ids \ {id} : other \in LiveOf(t) <=> other \in LiveOf(s)
        /\ LiveOf(s) \in SUBSET Ids /\ LiveOf(t) \in SUBSET Ids
    <3>1. t.idToNode = s.idToNode /\ s.idToNode[id] = n /\ n # 0
          /\ \A m \in DOMAIN s.nodes \ {n} : t.nodes[m] = s.nodes[m]
      BY <1>3, <1>4, <1>5, <1>8 DEF n
    <3>2. /\ id \in LiveOf(t) <=> ~ t.nodes[s.idToNode[id]].deleted
          /\ id \in LiveOf(s) <=> ~ s.nodes[s.idToNode[id]].deleted
          /\ \A other \in Ids \ {id} : other \in LiveOf(t) <=> other \in LiveOf(s)
          /\ LiveOf(s) \in SUBSET Ids /\ LiveOf(t) \in SUBSET Ids
      BY <1>1, <3>1, LiveChanged
    <3>. QED
      BY <1>3, <1>4, <1>5, <1>8, <3>1, <3>2, Zenon
  <2>2. IsFiniteSet(LiveOf(s))
    BY <2>1, HnswAssumption, FS_Subset
  <2>3. LiveOf(t) = LiveOf(s) \ {id}
    BY <2>1
  <2>4. IsFiniteSet(LiveOf(t)) /\ Cardinality(LiveOf(t)) = IF id \in LiveOf(s) THEN Cardinality(LiveOf(s)) - 1 ELSE Cardinality(LiveOf(s))
    BY <2>2, <2>3, FS_RemoveElement
  <2>5. Cardinality(LiveOf(t)) \in Nat
    BY <2>4, FS_CardinalityType
  <2>. QED
    BY <1>1, <1>3, <1>4, <1>5, <2>1, <2>4, <2>5
<1>12. t \in Snapshots
  BY <1>2, <1>3, <1>8, <1>11, NextSnapshot DEF t
<1>13. t.revived = {} => s.revived = {} /\ \A m \in DOMAIN s.nodes : s.nodes[m].deleted => t.nodes[m].deleted
  <2>1. \A m \in DOMAIN nodes : nodes[m].deleted => nodes'[m].deleted
    <3> SUFFICES ASSUME NEW m \in DOMAIN nodes, nodes[m].deleted PROVE nodes'[m].deleted
      OBVIOUS
    <3>1. m # n
      BY <1>3
    <3>2. nodes'[m] = nodes[m]
      BY <1>8, <3>1
    <3>. QED
      BY <3>2
  <2>. QED
    BY <1>3, <1>4, <1>5, <2>1
<1>14. Good(t)
  <2>1. t.idToNode = s.idToNode /\ t.entryPoint = s.entryPoint /\ t.maxLevel = s.maxLevel /\ t.astray = s.astray
    BY <1>3, <1>4, <1>5
  <2>2. Len(t.nodes) = Len(s.nodes)
        /\ \A m \in DOMAIN s.nodes : t.nodes[m].id = s.nodes[m].id /\ t.nodes[m].layers = s.nodes[m].layers
    BY <1>4, <1>5, <1>8
  <2>. QED
    BY <1>1, <1>10, <1>11, <1>12, <1>13, <2>1, <2>2, StillGood
<1>15. Differs(s, t, id, None)
  <2>1. t.idToNode = s.idToNode /\ s.idToNode[id] = n /\ n # 0
        /\ \A m \in DOMAIN s.nodes \ {n} : t.nodes[m] = s.nodes[m]
    BY <1>3, <1>4, <1>5, <1>8 DEF n
  <2>2. t.nodes[n].deleted
    BY <1>5, <1>8
  <2>3. VectorIn(t.nodes, t.idToNode, id) = None
    BY <2>1, <2>2, Zenon DEF VectorIn
  <2>4. Differs(s, t, id, VectorIn(t.nodes, t.idToNode, id))
    BY <1>1, <2>1, ChangedDiffers
  <2>. QED
    BY <2>3, <2>4
<1>. QED
  BY <1>14, <1>15 DEF s, t

-----------------------------------------------------------------------------
(* Steps that add a node.                                                  *)

\* Nodes that a new one was put after, before it is linked.
Joined(s, ns, id, v, level) ==
    LET new == Len(s.nodes) + 1
    IN  /\ ns \in Seq(NodeRecords) /\ Len(ns) = new
        /\ \A n \in DOMAIN ns \ {new} : n \in DOMAIN s.nodes
        /\ \A n \in DOMAIN s.nodes : n \in DOMAIN ns \ {new} /\ ns[n] = s.nodes[n]
        /\ new \in DOMAIN ns /\ ns[new].id = id /\ ns[new].vector = v /\ ~ ns[new].deleted
        /\ Len(ns[new].layers) = level + 1
        /\ Distinct(ns)
        /\ \A l \in Levels : WellLinked(ns, l) /\ Unlinked(ns, new, l)

NewNode(id, v, level) == [id |-> id, vector |-> v, layers |-> [l \in 1 .. level + 1 |-> <<>>], deleted |-> FALSE]

\* A new node has layers, and nothing in them.
LEMMA NewNodeIs ==
    ASSUME NEW id \in Ids, NEW v \in Int, NEW level \in Nat
    PROVE  LET node == NewNode(id, v, level)
           IN  /\ node \in NodeRecords /\ node.id = id /\ node.vector = v /\ ~ node.deleted
               /\ Len(node.layers) = level + 1 /\ \A l \in Nat : Neighbours(node, l) = <<>>
<1> DEFINE node == NewNode(id, v, level)
           layers == [l \in 1 .. level + 1 |-> <<>>]
           L == Seq(Nat)
           LL == Seq(L)
<1>1. <<>> \in L
  OBVIOUS
<1>2. layers \in LL /\ Len(layers) = level + 1 /\ \A l \in Nat : l < Len(layers) => layers[l + 1] = <<>>
  <2>. HIDE DEF L
  <2>. QED
    BY <1>1
<1>. HIDE DEF LL, layers
<1>3. node = [id |-> id, vector |-> v, layers |-> layers, deleted |-> FALSE]
  BY DEF NewNode, layers
<1>4. node \in [id : Ids, vector : Int, layers : LL, deleted : BOOLEAN]
  BY <1>2, <1>3
<1>5. node \in NodeRecords
  BY <1>4 DEF NodeRecords, LL, L
<1>6. node.id = id /\ node.vector = v /\ node.layers = layers
  BY <1>3
<1>7. ~ node.deleted
  BY <1>3
<1>. HIDE DEF node
<1>8. \A l \in Nat : Neighbours(node, l) = <<>>
  BY <1>2, <1>6 DEF Neighbours, HasLayer
<1>9. Len(node.layers) = level + 1
  BY <1>2, <1>6
<1>. QED
  BY <1>5, <1>6, <1>7, <1>8, <1>9 DEF node

LEMMA JoinedIs ==
    ASSUME NEW s, Good(s), NEW id \in Ids, NEW v \in Own, \A n \in DOMAIN s.nodes : s.nodes[n].vector # v,
           NEW level \in Levels
    PROVE  Joined(s, Append(s.nodes, NewNode(id, v, level)), id, v, level)
<1> DEFINE os == s.nodes
           node == NewNode(id, v, level)
           ns == Append(os, node)
           new == Len(os) + 1
<1>1. s \in Snapshots /\ Mapped(s) /\ Distinct(os) /\ \A l \in Levels : WellLinked(os, l)
  BY DEF Good
<1>2. os \in Seq(NodeRecords) /\ DOMAIN os = 1 .. Len(os) /\ Len(os) \in Nat
  <2>1. os \in Seq(NodeRecords)
    BY <1>1, SnapshotsAre
  <2>. QED
    BY <2>1, NodesAre
<1>3. v \in Int /\ level \in Nat /\ Levels \in SUBSET Nat
  <2>1. \A w \in Vectors : w \in Int /\ Metric \in Metrics
    BY HnswAssumption
  <2>2. \A w \in Vectors : Prepared(Metric, w) \in Int
    BY <2>1, Values
  <2>3. v \in Int
    BY <2>2 DEF Own
  <2>. QED
    BY <2>3, HnswAssumption DEF Levels
<1>4. /\ node \in NodeRecords /\ node.id = id /\ node.vector = v /\ ~ node.deleted
      /\ Len(node.layers) = level + 1 /\ \A l \in Nat : Neighbours(node, l) = <<>>
  BY <1>3, NewNodeIs
<1>. HIDE DEF node, os
<1>5. /\ ns \in Seq(NodeRecords) /\ Len(ns) = new /\ DOMAIN ns = 1 .. new /\ ns[new] = node
      /\ \A n \in DOMAIN os : ns[n] = os[n]
  BY <1>2, <1>4
<1>6. /\ \A n \in DOMAIN ns \ {new} : n \in DOMAIN os
      /\ \A n \in DOMAIN os : n \in DOMAIN ns \ {new}
      /\ new \in DOMAIN ns /\ new \notin DOMAIN os
  BY <1>2, <1>5
<1>. HIDE DEF ns, new
<1>7. Distinct(ns)
  <2>1. \A m \in DOMAIN os : os[m].vector \in Own /\ os[m].vector # v
    BY <1>1 DEF Distinct, os
  <2>2. \A m, n \in DOMAIN os : os[m].vector = os[n].vector => m = n
    BY <1>1 DEF Distinct
  <2>3. \A m \in DOMAIN ns : ns[m].vector \in Own
    BY <1>4, <1>5, <1>6, <2>1
  <2>4. \A m, n \in DOMAIN ns : ns[m].vector = ns[n].vector => m = n
    BY <1>4, <1>5, <1>6, <2>1, <2>2
  <2>. QED
    BY <2>3, <2>4 DEF Distinct
<1>8. ASSUME NEW l \in Levels PROVE WellLinked(ns, l) /\ Unlinked(ns, new, l)
  <2>1. \A n \in DOMAIN os : Links(os, n, l)
    BY <1>1 DEF WellLinked
  <2>2. Neighbours(ns[new], l) = <<>> /\ l \in Nat
    BY <1>3, <1>4, <1>5
  <2>3. Links(ns, new, l)
    <3>1. Len(<<>>) <= Capacity(l)
      BY <1>3, <2>2, HnswAssumption DEF Capacity
    <3>2. Once(<<>>) /\ SetOf(<<>>) = {}
      BY DEF Once, SetOf
    <3>. QED
      BY <2>2, <3>1, <3>2 DEF Links
  <2>4. \A n \in DOMAIN os : Links(ns, n, l)
    <3> SUFFICES ASSUME NEW n \in DOMAIN os PROVE Links(ns, n, l)
      OBVIOUS
    <3> DEFINE ms == Neighbours(os[n], l)
    <3>1. Once(ms) /\ Len(ms) <= Capacity(l) /\ \A m \in SetOf(ms) : m \in DOMAIN os \ {n} /\ HasLayer(os[m], l)
      BY <2>1 DEF Links
    <3>2. Neighbours(ns[n], l) = ms
      BY <1>5
    <3>. HIDE DEF ms
    <3>3. \A m \in SetOf(ms) : m \in DOMAIN ns \ {n} /\ HasLayer(ns[m], l)
      BY <1>5, <1>6, <3>1
    <3>. QED
      BY <3>1, <3>2, <3>3 DEF Links
  <2>5. WellLinked(ns, l)
    BY <1>6, <2>3, <2>4 DEF WellLinked
  <2>6. \A n \in DOMAIN ns : new \notin SetOf(Neighbours(ns[n], l))
    <3> SUFFICES ASSUME NEW n \in DOMAIN ns PROVE new \notin SetOf(Neighbours(ns[n], l))
      OBVIOUS
    <3>1. CASE n = new
      <4>1. SetOf(<<>>) = {}
        BY DEF SetOf
      <4>. QED
        BY <2>2, <3>1, <4>1
    <3>2. CASE n # new
      <4>1. n \in DOMAIN os /\ ns[n] = os[n]
        BY <1>5, <1>6, <3>2
      <4>2. \A m \in SetOf(Neighbours(os[n], l)) : m \in DOMAIN os
        BY <2>1, <4>1 DEF Links
      <4>. QED
        BY <1>6, <4>1, <4>2
    <3>. QED
      BY <3>1, <3>2
  <2>. QED
    BY <2>2, <2>5, <2>6 DEF Unlinked
<1>9. Joined(s, ns, id, v, level)
  BY <1>4, <1>5, <1>6, <1>7, <1>8 DEF Joined, os, new
<1>. QED
  BY <1>9 DEF ns, os, node

\* So it is when a node joins.
LEMMA GrownDiffers ==
    ASSUME NEW s, Good(s), NEW id \in Ids, NEW level \in Levels,
           NEW ns, NEW v, Joined(s, ns, id, v, level), NEW t, Alike(ns, t.nodes),
           t.idToNode = [s.idToNode EXCEPT ![id] = Len(s.nodes) + 1]
    PROVE  Differs(s, t, id, v)
<1> DEFINE new == Len(s.nodes) + 1
<1>1. /\ ns \in Seq(NodeRecords) /\ new \in DOMAIN ns
      /\ \A n \in DOMAIN s.nodes : n \in DOMAIN ns \ {new} /\ ns[n] = s.nodes[n]
      /\ ns[new].vector = v /\ ~ ns[new].deleted
  BY DEF Joined
<1>2. new # 0
  BY <1>1, LayersAre
<1>3. \A n \in DOMAIN ns : t.nodes[n].vector = ns[n].vector /\ (t.nodes[n].deleted <=> ns[n].deleted)
  BY Zenon DEF Alike
<1>4. \A other \in Ids : t.idToNode[other] = IF other = id THEN new ELSE s.idToNode[other]
  <2>1. s.idToNode \in [Ids -> Nat]
    BY SnapshotsAre DEF Good
  <2>. QED
    BY <2>1
<1>. HIDE DEF new
<1>5. VectorIn(t.nodes, t.idToNode, id) = v
  BY <1>1, <1>2, <1>3, <1>4, Zenon DEF VectorIn
<1>6. ASSUME NEW other \in Ids \ {id}
      PROVE  VectorIn(t.nodes, t.idToNode, other) = VectorIn(s.nodes, s.idToNode, other)
  <2>1. t.idToNode[other] = s.idToNode[other]
    BY <1>4
  <2>2. CASE s.idToNode[other] = 0
    BY <2>1, <2>2, Zenon DEF VectorIn
  <2>3. CASE s.idToNode[other] # 0
    <3> DEFINE m == s.idToNode[other]
    <3>1. m \in DOMAIN s.nodes
      BY <2>3 DEF Good, Mapped
    <3>. HIDE DEF m
    <3>2. t.nodes[m].vector = s.nodes[m].vector /\ (t.nodes[m].deleted <=> s.nodes[m].deleted)
      BY <1>1, <1>3, <3>1
    <3>. QED
      BY <2>1, <3>2, Zenon DEF VectorIn, m
  <2>. QED
    BY <2>2, <2>3
<1>. QED
  BY <1>5, <1>6 DEF Differs

\* A graph stays good when a node joins it and is linked.
LEMMA GrownGood ==
    ASSUME NEW s, Good(s), NEW id \in Ids, s.idToNode[id] = 0, NEW level \in Levels,
           NEW ns, NEW v, Joined(s, ns, id, v, level), NEW t \in Snapshots, Alike(ns, t.nodes),
           \A l \in Levels : WellLinked(t.nodes, l),
           t.idToNode = [s.idToNode EXCEPT ![id] = Len(s.nodes) + 1],
           t.activeCount = s.activeCount + 1,
           s.nodes = <<>> \/ s.maxLevel <= t.maxLevel, level <= t.maxLevel,
           t.entryPoint \in DOMAIN ns, Len(ns[t.entryPoint].layers) = t.maxLevel + 1,
           Complete(t)
    PROVE  Good(t)
<1> DEFINE os == s.nodes
           ts == t.nodes
           new == Len(os) + 1
<1>1. s \in Snapshots /\ Mapped(s) /\ s.activeCount = Cardinality(LiveOf(s))
  BY DEF Good
<1>2. /\ ns \in Seq(NodeRecords)
      /\ \A n \in DOMAIN ns \ {new} : n \in DOMAIN os
      /\ \A n \in DOMAIN os : n \in DOMAIN ns \ {new} /\ ns[n] = os[n]
      /\ new \in DOMAIN ns /\ ns[new].id = id /\ ~ ns[new].deleted /\ Len(ns[new].layers) = level + 1
      /\ Distinct(ns)
  BY DEF Joined
<1>3. os \in Seq(NodeRecords) /\ s.idToNode \in [Ids -> Nat] /\ s.maxLevel \in Nat /\ t.maxLevel \in Nat /\ level \in Nat
  <2>1. s.maxLevel \in Levels /\ t.maxLevel \in Levels /\ Levels \in SUBSET Nat
    BY <1>1, SnapshotsAre, HnswAssumption DEF Levels
  <2>. QED
    BY <1>1, <2>1, SnapshotsAre
<1>4. /\ DOMAIN ts = DOMAIN ns /\ Distinct(ts)
  BY <1>2, AlikeIs
<1>5. \A n \in DOMAIN ns : ts[n].id = ns[n].id /\ (ts[n].deleted <=> ns[n].deleted) /\ Len(ts[n].layers) = Len(ns[n].layers)
  BY Zenon DEF Alike
<1>6. new \in Nat \ {0} /\ \A n \in DOMAIN ns : n # 0
  BY <1>2, LayersAre
<1>7. \A other \in Ids : t.idToNode[other] = IF other = id THEN new ELSE s.idToNode[other]
  BY <1>3
<1>8. \A n \in DOMAIN os : os[n].id \in Ids \ {id} /\ s.idToNode[os[n].id] = n
  <2>1. \A n \in DOMAIN os : s.idToNode[os[n].id] = n
    BY <1>1 DEF Mapped
  <2>2. \A n \in DOMAIN os : os[n].id \in Ids /\ n # 0
    BY <1>3, NodesAre, LayersAre
  <2>. QED
    BY <2>1, <2>2
<1>9. \A other \in Ids : s.idToNode[other] # 0 => s.idToNode[other] \in DOMAIN os /\ os[s.idToNode[other]].id = other
  BY <1>1 DEF Mapped
<1>. HIDE DEF os, ts, new
<1>10. Mapped(t)
  <2>1. \A other \in Ids : t.idToNode[other] # 0 => t.idToNode[other] \in DOMAIN ts /\ ts[t.idToNode[other]].id = other
    <3> SUFFICES ASSUME NEW other \in Ids, t.idToNode[other] # 0
                 PROVE  t.idToNode[other] \in DOMAIN ts /\ ts[t.idToNode[other]].id = other
      OBVIOUS
    <3>1. CASE other = id
      BY <1>2, <1>4, <1>5, <1>7, <3>1
    <3>2. CASE other # id
      <4>1. t.idToNode[other] = s.idToNode[other]
        BY <1>7, <3>2
      <4>2. s.idToNode[other] \in DOMAIN os /\ os[s.idToNode[other]].id = other
        BY <1>9, <4>1
      <4>. QED
        BY <1>2, <1>4, <1>5, <4>1, <4>2
    <3>. QED
      BY <3>1, <3>2
  <2>2. \A n \in DOMAIN ts : t.idToNode[ts[n].id] = n
    <3> SUFFICES ASSUME NEW n \in DOMAIN ns PROVE t.idToNode[ns[n].id] = n
      BY <1>4, <1>5
    <3>1. CASE n = new
      BY <1>2, <1>7, <3>1
    <3>2. CASE n # new
      <4>1. n \in DOMAIN os /\ ns[n] = os[n]
        BY <1>2, <3>2
      <4>. QED
        BY <1>7, <1>8, <4>1
    <3>. QED
      BY <3>1, <3>2
  <2>3. \A n \in DOMAIN ts : Len(ts[n].layers) \in 1 .. t.maxLevel + 1
    <3> SUFFICES ASSUME NEW n \in DOMAIN ns PROVE Len(ns[n].layers) \in 1 .. t.maxLevel + 1
      BY <1>4, <1>5
    <3>1. CASE n = new
      BY <1>2, <1>3, <3>1
    <3>2. CASE n # new
      <4>1. n \in DOMAIN os /\ ns[n] = os[n]
        BY <1>2, <3>2
      <4>2. Len(os[n].layers) \in 1 .. s.maxLevel + 1
        BY <1>1, <4>1 DEF Mapped, os
      <4>3. s.maxLevel <= t.maxLevel
        <5>1. os = <<>> => DOMAIN os = {}
          OBVIOUS
        <5>. QED
          BY <4>1, <5>1 DEF os
      <4>. QED
        BY <1>3, <4>1, <4>2, <4>3
    <3>. QED
      BY <3>1, <3>2
  <2>4. t.entryPoint # 0 /\ t.entryPoint \in DOMAIN ts /\ Len(ts[t.entryPoint].layers) = t.maxLevel + 1
    BY <1>4, <1>5, <1>6
  <2>. QED
    BY <2>1, <2>2, <2>3, <2>4 DEF Mapped, ts
<1>11. t.activeCount = Cardinality(LiveOf(t))
  <2>1. \A other \in Ids \ {id} : HeldIn(t, other) <=> HeldIn(s, other)
    <3> SUFFICES ASSUME NEW other \in Ids \ {id} PROVE HeldIn(t, other) <=> HeldIn(s, other)
      OBVIOUS
    <3>1. t.idToNode[other] = s.idToNode[other]
      BY <1>7
    <3>2. CASE s.idToNode[other] = 0
      BY <3>1, <3>2 DEF HeldIn
    <3>3. CASE s.idToNode[other] # 0
      <4>1. s.idToNode[other] \in DOMAIN os
        BY <1>9, <3>3
      <4>2. ts[s.idToNode[other]].deleted <=> os[s.idToNode[other]].deleted
        BY <1>2, <1>5, <4>1
      <4>. QED
        BY <3>1, <3>3, <4>2, Zenon DEF HeldIn, ts, os
    <3>. QED
      BY <3>2, <3>3
  <2>2. HeldIn(t, id)
    <3>1. ~ ts[new].deleted
      BY <1>2, <1>5
    <3>. QED
      BY <1>6, <1>7, <3>1 DEF HeldIn, ts
  <2>3. ~ HeldIn(s, id)
    BY DEF HeldIn
  <2>4. LiveOf(t) = LiveOf(s) \cup {id} /\ id \notin LiveOf(s) /\ LiveOf(s) \in SUBSET Ids
    BY <2>1, <2>2, <2>3 DEF LiveOf
  <2>5. IsFiniteSet(LiveOf(s))
    BY <2>4, HnswAssumption, FS_Subset
  <2>6. Cardinality(LiveOf(t)) = Cardinality(LiveOf(s)) + 1
    <3> DEFINE A == LiveOf(s)
               B == LiveOf(t)
    <3>1. B = A \cup {id} /\ id \notin A /\ IsFiniteSet(A)
      BY <2>4, <2>5
    <3>. HIDE DEF A, B
    <3>2. Cardinality(A \cup {id}) = Cardinality(A) + 1
      BY <3>1, FS_AddElement
    <3>3. Cardinality(B) = Cardinality(A) + 1
      BY <3>1, <3>2
    <3>. QED
      BY <3>3 DEF A, B
  <2>. QED
    BY <1>1, <2>6
<1>. QED
  BY <1>4, <1>10, <1>11 DEF Good, ts

\* The first node is alone.
LEMMA AddFirstInvariant ==
    ASSUME IInv, NEW id \in Ids, NEW v \in Vectors, NEW level \in Levels,
           \A n \in DOMAIN nodes : nodes[n].id # id => nodes[n].vector # Prepared(Metric, v),
           idToNode[id] = 0, AddFirst(id, Prepared(Metric, v), level),
           idToNode' = [idToNode EXCEPT ![id] = Len(nodes) + 1],
           activeCount' = activeCount + 1, UNCHANGED revived
    PROVE  Good(Snapshot') /\ Differs(Snapshot, Snapshot', id, Prepared(Metric, v))
<1> DEFINE s == Snapshot
           t == Snapshot'
           w == Prepared(Metric, v)
           ns == Append(nodes, NewNode(id, w, level))
<1>1. /\ Good(s) /\ s \in Snapshots /\ Mapped(s)
  BY DEF IInv, Good
<1>2. /\ idToNode \in [Ids -> Nat] /\ activeCount \in Nat /\ revived \in SUBSET Ids /\ astray \in BOOLEAN
  <2>. HIDE DEF s
  <2>1. s.idToNode \in [Ids -> Nat] /\ s.activeCount \in Nat /\ s.revived \in SUBSET Ids /\ s.astray \in BOOLEAN
    BY <1>1, SnapshotsAre
  <2>. QED
    BY <2>1, SnapshotIs DEF s
<1>3. /\ nodes' = ns /\ entryPoint = 0 /\ entryPoint' = 1 /\ maxLevel' = level /\ astray' = astray /\ revived' = revived
  BY Zenon DEF AddFirst, Added, NewNode
<1>4. /\ s.nodes = nodes /\ s.idToNode = idToNode /\ s.entryPoint = entryPoint
      /\ s.activeCount = activeCount /\ s.revived = revived /\ s.astray = astray
  BY SnapshotIs
<1>5. /\ t.nodes = nodes' /\ t.idToNode = idToNode' /\ t.entryPoint = entryPoint' /\ t.maxLevel = maxLevel'
      /\ t.activeCount = activeCount' /\ t.revived = revived' /\ t.astray = astray'
  BY NextSnapshotIs
<1>6. nodes = <<>>
  BY <1>1, <1>3, <1>4 DEF Mapped
<1>7. w \in Own
  BY DEF Own
<1>. HIDE DEF ns, w, s, t
<1>8. Joined(s, ns, id, w, level)
  <2>1. \A n \in DOMAIN s.nodes : s.nodes[n].vector # w
    BY <1>4, <1>6
  <2>. QED
    BY <1>1, <1>4, <1>7, <2>1, JoinedIs DEF ns
<1>9. /\ ns \in Seq(NodeRecords) /\ Len(ns) = 1 /\ DOMAIN ns = {1} /\ Len(ns[1].layers) = level + 1
      /\ \A l \in Levels : WellLinked(ns, l)
  <2>1. Len(s.nodes) + 1 = 1
    BY <1>4, <1>6
  <2>2. ns \in Seq(NodeRecords) /\ Len(ns) = 1 /\ Len(ns[1].layers) = level + 1 /\ \A l \in Levels : WellLinked(ns, l)
    BY <1>8, <2>1 DEF Joined
  <2>3. DOMAIN ns = 1 .. 1
    BY <2>2, NodesAre
  <2>. QED
    BY <2>2, <2>3
<1>10. t \in Snapshots
  <2>1. /\ idToNode' \in [Ids -> Nat]
    BY <1>2, <1>6
  <2>2. entryPoint' \in Nat /\ maxLevel' \in Levels /\ activeCount' \in Nat /\ revived' \in SUBSET Ids
    BY <1>2, <1>3
  <2>3. astray' \in BOOLEAN /\ nodes' \in Seq(NodeRecords)
    BY <1>2, <1>3, <1>9
  <2>. QED
    BY <2>1, <2>2, <2>3, NextSnapshot DEF t
<1>11. Complete(t)
  <2>1. \A m, n \in LiveIn(t.nodes, DOMAIN t.nodes) : m = n
    BY <1>3, <1>5, <1>9 DEF LiveIn
  <2>. QED
    BY <2>1 DEF Complete, Mutual
<1>12. Alike(ns, ns)
  BY <1>9, Zenon DEF Alike
<1>13. Good(t)
  <2>1. s.idToNode[id] = 0 /\ t.nodes = ns /\ Alike(ns, t.nodes) /\ \A l \in Levels : WellLinked(t.nodes, l)
    BY <1>3, <1>4, <1>5, <1>9, <1>12
  <2>2. /\ t.idToNode = [s.idToNode EXCEPT ![id] = Len(s.nodes) + 1]
        /\ t.activeCount = s.activeCount + 1
        /\ s.nodes = <<>>
    BY <1>4, <1>5, <1>6
  <2>3. level <= t.maxLevel
    BY <1>3, <1>5, HnswAssumption DEF Levels
  <2>4. t.entryPoint \in DOMAIN ns /\ Len(ns[t.entryPoint].layers) = t.maxLevel + 1
    BY <1>3, <1>5, <1>9
  <2>. QED
    BY <1>1, <1>8, <1>10, <1>11, <2>1, <2>2, <2>3, <2>4, GrownGood
<1>14. Differs(s, t, id, w)
  <2>1. t.nodes = ns /\ Alike(ns, t.nodes) /\ t.idToNode = [s.idToNode EXCEPT ![id] = Len(s.nodes) + 1]
    BY <1>3, <1>4, <1>5, <1>12
  <2>. QED
    BY <1>1, <1>8, <2>1, GrownDiffers
<1>. QED
  BY <1>13, <1>14 DEF s, t, w

\* Nothing at a layer of the new node leads from the old ones to it, or to a node
\* without the layer.
LEMMA JoinedClosed ==
    ASSUME NEW s, Good(s), NEW ns, NEW id, NEW v, NEW level \in Levels, Joined(s, ns, id, v, level),
           NEW low \in Levels, NEW layer \in Levels, low <= layer
    PROVE  Closed(ns, layer, Others(ns, Len(s.nodes) + 1, low))
<1> DEFINE new == Len(s.nodes) + 1
           C == Others(ns, new, low)
<1>1. ns \in Seq(NodeRecords) /\ WellLinked(ns, layer) /\ Unlinked(ns, new, layer)
  BY DEF Joined
<1>. HIDE DEF new
<1> SUFFICES ASSUME NEW n \in C, NEW m \in SetOf(Neighbours(ns[n], layer)) PROVE m \in C
  BY DEF Closed, Others, new
<1>2. n \in DOMAIN ns
  BY DEF Others
<1>3. m \in DOMAIN ns /\ HasLayer(ns[m], layer) /\ m # new
  BY <1>1, <1>2 DEF WellLinked, Links, Unlinked
<1>4. Len(ns[m].layers) \in Nat /\ low \in Nat /\ layer \in Nat
  BY <1>1, <1>3, LayersAre, HnswAssumption DEF Levels
<1>. QED
  BY <1>3, <1>4 DEF Others, HasLayer

\* Another node is linked to those that a search from the entry point meets.
LEMMA AddLinkedInvariant ==
    ASSUME IInv, NEW id \in Ids, NEW v \in Vectors, NEW level \in Levels,
           \A n \in DOMAIN nodes : nodes[n].id # id => nodes[n].vector # Prepared(Metric, v),
           idToNode[id] = 0, AddLinked(id, Prepared(Metric, v), level),
           idToNode' = [idToNode EXCEPT ![id] = Len(nodes) + 1],
           activeCount' = activeCount + 1, UNCHANGED revived
    PROVE  Good(Snapshot') /\ Differs(Snapshot, Snapshot', id, Prepared(Metric, v))
<1> DEFINE s == Snapshot
           t == Snapshot'
           w == Prepared(Metric, v)
           ns == Append(nodes, NewNode(id, w, level))
           new == Len(nodes) + 1
           top == Least(level, maxLevel)
           e == Descend(ns, w, entryPoint, maxLevel, level, Ids)
<1>1. /\ Good(s) /\ s \in Snapshots /\ Mapped(s) /\ Complete(s)
  BY DEF IInv, Good
<1>2. /\ nodes \in Seq(NodeRecords) /\ idToNode \in [Ids -> Nat] /\ entryPoint \in Nat /\ maxLevel \in Levels
      /\ activeCount \in Nat /\ revived \in SUBSET Ids /\ astray \in BOOLEAN
  <2>. HIDE DEF s
  <2>1. /\ s.nodes \in Seq(NodeRecords) /\ s.idToNode \in [Ids -> Nat] /\ s.entryPoint \in Nat /\ s.maxLevel \in Levels
        /\ s.activeCount \in Nat /\ s.revived \in SUBSET Ids /\ s.astray \in BOOLEAN
    BY <1>1, SnapshotsAre
  <2>. QED
    BY <2>1, SnapshotIs DEF s
<1>3. /\ s.nodes = nodes /\ s.idToNode = idToNode /\ s.entryPoint = entryPoint /\ s.maxLevel = maxLevel
      /\ s.activeCount = activeCount /\ s.revived = revived /\ s.astray = astray
  BY SnapshotIs
<1>4. /\ t.nodes = nodes' /\ t.idToNode = idToNode' /\ t.entryPoint = entryPoint' /\ t.maxLevel = maxLevel'
      /\ t.activeCount = activeCount' /\ t.revived = revived' /\ t.astray = astray'
  BY NextSnapshotIs
<1>5. /\ entryPoint # 0 /\ Added(id, w, level) = ns
      /\ nodes' = LinkLayers(Added(id, w, level), Len(Added(id, w, level)),
                             Descend(Added(id, w, level), w, entryPoint, maxLevel, level, Ids), top)
      /\ IF level > maxLevel THEN entryPoint' = Len(nodes) + 1 /\ maxLevel' = level
                             ELSE entryPoint' = entryPoint /\ maxLevel' = maxLevel
      /\ astray' = (astray \/ nodes[entryPoint].deleted) /\ revived' = revived
  BY Zenon DEF AddLinked, Added, NewNode
<1>6. nodes' = LinkLayers(ns, Len(ns), e, top)
  <2>. HIDE DEF ns, w, top
  <2>. QED
    BY <1>5
<1>7. w \in Own /\ w \in Int
  <2>1. w \in Int
    BY HnswAssumption, Values
  <2>. QED
    BY <2>1 DEF Own
<1>8. level \in Nat /\ maxLevel \in Nat /\ top \in Nat /\ top <= level /\ top <= maxLevel /\ top \in Levels
      /\ (maxLevel > level => top = level) /\ (maxLevel <= level => top = maxLevel)
  BY <1>2, HnswAssumption DEF Levels, Least
<1>. HIDE DEF ns, w, s, t, top
<1>9. Joined(s, ns, id, w, level)
  <2>1. \A n \in DOMAIN s.nodes : s.nodes[n].vector # w
    <3>1. \A n \in DOMAIN nodes : idToNode[nodes[n].id] = n /\ n # 0
      BY <1>1, <1>2, <1>3, LayersAre DEF Mapped
    <3>. QED
      BY <1>3, <3>1 DEF w
  <2>. QED
    BY <1>1, <1>3, <1>7, <2>1, JoinedIs DEF ns
<1>10. /\ ns \in Seq(NodeRecords) /\ Len(ns) = new
       /\ \A n \in DOMAIN ns \ {new} : n \in DOMAIN nodes
       /\ \A n \in DOMAIN nodes : n \in DOMAIN ns \ {new} /\ ns[n] = nodes[n]
       /\ new \in DOMAIN ns /\ ns[new].id = id /\ ~ ns[new].deleted /\ Len(ns[new].layers) = level + 1
       /\ Distinct(ns)
       /\ \A l \in Levels : WellLinked(ns, l) /\ Unlinked(ns, new, l)
  BY <1>3, <1>9 DEF Joined
<1>11. entryPoint \in DOMAIN nodes /\ Len(nodes[entryPoint].layers) = maxLevel + 1
       /\ \A n \in DOMAIN nodes : Len(nodes[n].layers) \in 1 .. maxLevel + 1
  BY <1>1, <1>3, <1>5 DEF Mapped
<1>. HIDE DEF new
<1>12. entryPoint \in Others(ns, new, top)
  BY <1>8, <1>10, <1>11 DEF Others, HasLayer
<1>13. e \in Others(ns, new, top) /\ (e = entryPoint \/ ~ ns[e].deleted)
  <2> DEFINE C == Others(ns, new, top)
  <2>1. \A layer \in level + 1 .. maxLevel : Closed(ns, layer, C)
    <3> SUFFICES ASSUME NEW layer \in level + 1 .. maxLevel PROVE Closed(ns, layer, C)
      OBVIOUS
    <3>1. layer \in Levels /\ top <= layer
      BY <1>2, <1>8, HnswAssumption DEF Levels
    <3>. QED
      BY <1>1, <1>3, <1>8, <1>9, <3>1, JoinedClosed DEF new
  <2>2. C \in SUBSET DOMAIN ns
    BY DEF Others
  <2>. HIDE DEF C
  <2>3. e \in C /\ (e = entryPoint \/ ~ ns[e].deleted)
    <3>. HIDE DEF e
    <3>. QED
      BY <1>7, <1>8, <1>10, <1>12, <2>1, <2>2, DescendIs DEF C, e
  <2>. QED
    BY <2>3 DEF C
<1>. HIDE DEF e
<1>14. \A n \in DOMAIN ns : HasLayer(ns[n], 0)
  <2> SUFFICES ASSUME NEW n \in DOMAIN ns PROVE HasLayer(ns[n], 0)
    OBVIOUS
  <2>1. CASE n = new
    BY <1>8, <1>10, <2>1 DEF HasLayer
  <2>2. CASE n # new
    BY <1>8, <1>10, <1>11, <2>2 DEF HasLayer
  <2>. QED
    BY <2>1, <2>2
<1>15. /\ Alike(ns, nodes') /\ \A l \in Levels : WellLinked(nodes', l)
       /\ Completing(ns, e, new) => Mutual(nodes', LiveIn(ns, DOMAIN ns))
  <2>1. top < Len(ns[new].layers)
    BY <1>8, <1>10
  <2> DEFINE ts == LinkLayers(ns, new, e, top)
  <2>2. ts = nodes'
    BY <1>6, <1>10
  <2>3. /\ Alike(ns, ts) /\ \A l \in Levels : WellLinked(ts, l)
        /\ Completing(ns, e, new) => Mutual(ts, LiveIn(ns, DOMAIN ns))
    <3>. HIDE DEF ts
    <3>. QED
      BY <1>8, <1>10, <1>13, <1>14, <2>1, LinkLayersIs DEF ts
  <2>. QED
    BY <2>2, <2>3
<1>16. nodes' \in Seq(NodeRecords) /\ DOMAIN nodes' = DOMAIN ns /\ Len(nodes') = Len(ns)
       /\ LiveIn(nodes', DOMAIN ns) = LiveIn(ns, DOMAIN ns)
  BY <1>10, <1>15, AlikeIs
<1>17. entryPoint' \in DOMAIN ns /\ Len(ns[entryPoint'].layers) = maxLevel' + 1
       /\ maxLevel' \in Levels /\ level <= maxLevel' /\ maxLevel <= maxLevel'
  <2>1. CASE level > maxLevel
    BY <1>5, <1>8, <1>10, <2>1 DEF new
  <2>2. CASE ~ (level > maxLevel)
    BY <1>2, <1>5, <1>8, <1>10, <1>11, <2>2
  <2>. QED
    BY <2>1, <2>2
<1>18. t \in Snapshots
  <2>1. entryPoint' \in Nat
    BY <1>10, <1>17, LayersAre
  <2>2. Len(nodes) + 1 \in Nat
    BY <1>2, NodesAre
  <2>3. idToNode' \in [Ids -> Nat] /\ activeCount' \in Nat /\ revived' \in SUBSET Ids
    BY <1>2, <1>5, <2>2
  <2>4. astray' \in BOOLEAN
    BY <1>5
  <2>. QED
    BY <1>16, <1>17, <2>1, <2>3, <2>4, NextSnapshot DEF t
<1>19. Complete(t)
  <2> SUFFICES ASSUME Len(t.nodes) <= Least(MMax0, EfConstruction) + 1, t.revived = {}, ~ t.astray
               PROVE  Mutual(t.nodes, LiveIn(t.nodes, DOMAIN t.nodes))
    BY DEF Complete
  <2>1. Len(ns) <= Least(MMax0, EfConstruction) + 1 /\ revived = {} /\ ~ astray /\ ~ nodes[entryPoint].deleted
    BY <1>4, <1>5, <1>16
  <2>2. Len(nodes) <= Least(MMax0, EfConstruction) + 1
    <3>1. Len(nodes) \in Nat /\ Least(MMax0, EfConstruction) \in Nat
      BY <1>2, NodesAre, HnswAssumption DEF Least
    <3>. QED
      BY <1>10, <2>1, <3>1 DEF new
  <2>3. Mutual(nodes, LiveIn(nodes, DOMAIN nodes))
    BY <1>1, <1>3, <2>1, <2>2 DEF Complete
  <2>4. Mutual(ns, LiveIn(ns, DOMAIN ns \ {new}))
    <3>1. \A n \in LiveIn(ns, DOMAIN ns \ {new}) : n \in LiveIn(nodes, DOMAIN nodes) /\ n \in DOMAIN nodes
      BY <1>10 DEF LiveIn
    <3>. QED
      BY <1>10, <2>3, <3>1 DEF Mutual
  <2>5. ~ ns[e].deleted
    BY <1>10, <1>11, <1>13, <2>1
  <2>6. Completing(ns, e, new)
    BY <2>1, <2>4, <2>5 DEF Completing
  <2>. QED
    BY <1>4, <1>15, <1>16, <2>6
<1>20. Good(t)
  <2>1. s.idToNode[id] = 0 /\ Alike(ns, t.nodes) /\ \A l \in Levels : WellLinked(t.nodes, l)
    BY <1>3, <1>4, <1>15
  <2>2. /\ t.idToNode = [s.idToNode EXCEPT ![id] = Len(s.nodes) + 1]
        /\ t.activeCount = s.activeCount + 1
    BY <1>3, <1>4
  <2>3. level <= t.maxLevel /\ s.maxLevel <= t.maxLevel
    BY <1>3, <1>4, <1>17
  <2>4. t.entryPoint \in DOMAIN ns /\ Len(ns[t.entryPoint].layers) = t.maxLevel + 1
    BY <1>4, <1>17
  <2>. QED
    BY <1>1, <1>9, <1>18, <1>19, <2>1, <2>2, <2>3, <2>4, GrownGood
<1>21. Differs(s, t, id, w)
  <2>1. Alike(ns, t.nodes) /\ t.idToNode = [s.idToNode EXCEPT ![id] = Len(s.nodes) + 1]
    BY <1>3, <1>4, <1>15
  <2>. QED
    BY <1>1, <1>9, <2>1, GrownDiffers
<1>. QED
  BY <1>20, <1>21 DEF s, t, w

-----------------------------------------------------------------------------
(* The invariant holds, and the graph is a map from ids to vectors.        *)

LEMMA InsertInvariant ==
    ASSUME IInv, NEW id \in Ids, NEW v \in Vectors, Insert(id, v)
    PROVE  Good(Snapshot') /\ Differs(Snapshot, Snapshot', id, Prepared(Metric, v))
<1>1. /\ \A n \in DOMAIN nodes : nodes[n].id # id => nodes[n].vector # Prepared(Metric, v)
      /\ Update(id, Prepared(Metric, v)) \/ \E level \in Levels : Add(id, Prepared(Metric, v), level)
  BY DEF Insert
<1>2. CASE Update(id, Prepared(Metric, v))
  BY <1>1, <1>2, UpdateInvariant
<1>3. ASSUME NEW level \in Levels, Add(id, Prepared(Metric, v), level)
      PROVE  Good(Snapshot') /\ Differs(Snapshot, Snapshot', id, Prepared(Metric, v))
  <2>1. /\ idToNode[id] = 0 /\ idToNode' = [idToNode EXCEPT ![id] = Len(nodes) + 1]
        /\ activeCount' = activeCount + 1 /\ UNCHANGED revived
        /\ AddFirst(id, Prepared(Metric, v), level) \/ AddLinked(id, Prepared(Metric, v), level)
    BY <1>3 DEF Add
  <2>2. CASE AddFirst(id, Prepared(Metric, v), level)
    BY <1>1, <2>1, <2>2, AddFirstInvariant
  <2>3. CASE AddLinked(id, Prepared(Metric, v), level)
    BY <1>1, <2>1, <2>3, AddLinkedInvariant
  <2>. QED
    BY <2>1, <2>2, <2>3
<1>. QED
  BY <1>1, <1>2, <1>3

\* What is not there is not held.
LEMMA AbsentDeleted ==
    ASSUME IInv, NEW id \in Ids, ~ Held(id)
    PROVE  Differs(Snapshot, Snapshot, id, None)
<1>1. VectorIn(nodes, idToNode, id) = None
  BY Zenon DEF VectorIn, Held
<1>. QED
  BY <1>1, SnapshotIs DEF Differs

LEMMA DeleteKeeps ==
    ASSUME IInv, NEW id \in Ids, Delete(id)
    PROVE  Good(Snapshot') /\ Differs(Snapshot, Snapshot', id, None)
<1>1. UNCHANGED <<idToNode, entryPoint, maxLevel, history>> /\ (DeleteHeld(id) \/ DeleteAbsent(id))
  BY DEF Delete
<1>2. CASE DeleteHeld(id)
  BY <1>1, <1>2, DeleteInvariant
<1>3. CASE DeleteAbsent(id)
  <2>1. Snapshot' = Snapshot /\ ~ Held(id)
    BY <1>1, <1>3 DEF DeleteAbsent, Snapshot, history
  <2>2. Good(Snapshot)
    BY DEF IInv
  <2>3. Differs(Snapshot, Snapshot, id, None)
    BY <2>1, AbsentDeleted
  <2>. QED
    BY <2>1, <2>2, <2>3
<1>. QED
  BY <1>1, <1>2, <1>3

LEMMA DeserializeIs ==
    ASSUME IInv, Deserialize
    PROVE  Snapshot' = bytes /\ Good(bytes)
<1>1. Good(bytes) /\ bytes \in Snapshots
  BY DEF IInv, Deserialize, Good
<1>2. /\ nodes' = bytes.nodes /\ idToNode' = bytes.idToNode /\ entryPoint' = bytes.entryPoint
      /\ maxLevel' = bytes.maxLevel /\ activeCount' = bytes.activeCount
      /\ revived' = bytes.revived /\ astray' = bytes.astray
  BY DEF Deserialize
<1>3. \A s \in Snapshots : s = [nodes |-> s.nodes, idToNode |-> s.idToNode, entryPoint |-> s.entryPoint,
                                maxLevel |-> s.maxLevel, activeCount |-> s.activeCount,
                                revived |-> s.revived, astray |-> s.astray]
  <2> DEFINE N == Seq(NodeRecords)
             F == [Ids -> Nat]
             P == SUBSET Ids
  <2>1. Snapshots = [nodes : N, idToNode : F, entryPoint : Nat, maxLevel : Levels,
                     activeCount : Nat, revived : P, astray : BOOLEAN]
    BY DEF Snapshots
  <2>. HIDE DEF N, F, P
  <2>. QED
    BY <2>1
<1>4. Snapshot' = [nodes |-> nodes', idToNode |-> idToNode', entryPoint |-> entryPoint',
                   maxLevel |-> maxLevel', activeCount |-> activeCount', revived |-> revived', astray |-> astray']
  BY DEF Snapshot
<1>. QED
  BY <1>1, <1>2, <1>3, <1>4

LEMMA NextInvariant == IInv /\ [Next]_vars => IInv'
<1> SUFFICES ASSUME IInv, [Next]_vars PROVE IInv'
  OBVIOUS
<1>1. Good(Snapshot) /\ (bytes = NoBytes \/ Good(bytes)) /\ inserts \in 0 .. MaxInserts
  BY DEF IInv
<1>2. ASSUME Good(Snapshot'), bytes' = NoBytes \/ Good(bytes'), inserts' \in 0 .. MaxInserts PROVE IInv'
  BY <1>2 DEF IInv
<1>3. ASSUME NEW id \in Ids, Delete(id) PROVE IInv'
  <2>1. bytes' = bytes /\ inserts' = inserts
    BY <1>3 DEF Delete
  <2>2. Good(Snapshot')
    BY <1>3, DeleteKeeps
  <2>. QED
    BY <1>1, <1>2, <2>1, <2>2
<1>4. ASSUME NEW id \in Ids, NEW v \in Vectors, Insert(id, v) PROVE IInv'
  <2>1. bytes' = bytes /\ inserts < MaxInserts /\ inserts' = inserts + 1
    BY <1>4 DEF Insert
  <2>2. inserts' \in 0 .. MaxInserts
    BY <1>1, <2>1, HnswAssumption
  <2>3. Good(Snapshot')
    BY <1>4, InsertInvariant
  <2>. QED
    BY <1>1, <1>2, <2>1, <2>2, <2>3
<1>5. CASE Serialize
  <2>1. Snapshot' = Snapshot /\ bytes' = Snapshot /\ inserts' = inserts
    BY <1>5 DEF Serialize, Snapshot, index, history
  <2>. QED
    BY <1>1, <1>2, <2>1
<1>6. CASE Deserialize
  <2>1. bytes' = bytes /\ inserts' = inserts
    BY <1>6 DEF Deserialize
  <2>2. Good(Snapshot')
    BY <1>6, DeserializeIs
  <2>. QED
    BY <1>1, <1>2, <2>1, <2>2
<1>7. CASE UNCHANGED vars
  <2>1. Snapshot' = Snapshot /\ bytes' = bytes /\ inserts' = inserts
    BY <1>7 DEF vars, Snapshot, index, history
  <2>. QED
    BY <1>1, <1>2, <2>1
<1>. QED
  BY <1>3, <1>4, <1>5, <1>6, <1>7 DEF Next

LEMMA Invariant == Spec => []IInv
BY InitInvariant, NextInvariant, PTL DEF Spec

\* The invariant has the types.
LEMMA TypeHolds == IInv => TypeOK
<1> SUFFICES ASSUME IInv PROVE TypeOK
  OBVIOUS
<1> DEFINE s == Snapshot
<1>1. s \in Snapshots /\ Mapped(s) /\ bytes \in Snapshots \cup {NoBytes} /\ inserts \in 0 .. MaxInserts
  BY DEF IInv, Good
<1>2. /\ s.nodes = nodes /\ s.idToNode = idToNode /\ s.entryPoint = entryPoint /\ s.maxLevel = maxLevel
      /\ s.activeCount = activeCount /\ s.revived = revived /\ s.astray = astray
  BY SnapshotIs
<1>. HIDE DEF s
<1>3. /\ nodes \in Seq(NodeRecords) /\ idToNode \in [Ids -> Nat] /\ entryPoint \in Nat /\ maxLevel \in Levels
      /\ activeCount \in Nat /\ revived \in SUBSET Ids /\ astray \in BOOLEAN
  BY <1>1, <1>2, SnapshotsAre
<1>4. DOMAIN nodes = 1 .. Len(nodes) /\ Len(nodes) \in Nat
  BY <1>3, NodesAre
<1>5. \A id \in Ids : idToNode[id] # 0 => idToNode[id] \in DOMAIN nodes
  BY <1>1, <1>2 DEF Mapped
<1>6. idToNode \in [Ids -> 0 .. Len(nodes)]
  <2>1. \A id \in Ids : idToNode[id] \in 0 .. Len(nodes)
    <3>1. \A id \in Ids : idToNode[id] = 0 \/ idToNode[id] \in 1 .. Len(nodes)
      BY <1>4, <1>5
    <3>2. \A n : n = 0 \/ n \in 1 .. Len(nodes) => n \in 0 .. Len(nodes)
      BY <1>4
    <3>. QED
      BY <3>1, <3>2
  <2>. QED
    BY <1>3, <2>1
<1>7. entryPoint \in 0 .. Len(nodes)
  <2>1. entryPoint # 0 => entryPoint \in DOMAIN nodes
    BY <1>1, <1>2 DEF Mapped
  <2>. QED
    BY <1>3, <1>4, <2>1
<1>. QED
  BY <1>1, <1>3, <1>6, <1>7 DEF TypeOK

\* The index keeps to its types.
THEOREM TypeCorrect == Spec => []TypeOK
BY Invariant, TypeHolds, PTL

\* The invariant has a well-formed graph.
LEMMA GraphHolds == IInv => GraphWellFormed
<1> SUFFICES ASSUME IInv PROVE GraphWellFormed
  OBVIOUS
<1> DEFINE s == Snapshot
<1>1. /\ s \in Snapshots /\ Mapped(s) /\ s.activeCount = Cardinality(LiveOf(s))
      /\ \A level \in Levels : WellLinked(s.nodes, level)
  BY DEF IInv, Good
<1>2. /\ s.nodes = nodes /\ s.idToNode = idToNode /\ s.entryPoint = entryPoint /\ s.maxLevel = maxLevel
      /\ s.activeCount = activeCount /\ LiveOf(s) = Live
  BY SnapshotIs
<1>. HIDE DEF s
<1>3. nodes \in Seq(NodeRecords) /\ maxLevel \in Levels /\ maxLevel \in Nat /\ TopLevel \in Nat
  <2>1. nodes \in Seq(NodeRecords) /\ maxLevel \in Levels
    BY <1>1, <1>2, SnapshotsAre
  <2>. QED
    BY <2>1, HnswAssumption DEF Levels
<1>4. \A n \in DOMAIN nodes : Len(nodes[n].layers) \in 1 .. maxLevel + 1 /\ idToNode[nodes[n].id] = n
  BY <1>1, <1>2 DEF Mapped
<1>5. ASSUME NEW n \in DOMAIN nodes, NEW level \in 0 .. Len(nodes[n].layers) - 1
      PROVE  Links(nodes, n, level)
  <2>1. level \in Levels
    BY <1>3, <1>4 DEF Levels
  <2>. QED
    BY <1>1, <1>2, <2>1 DEF WellLinked
<1>6. nodes # <<>> => entryPoint # 0 /\ Len(nodes[entryPoint].layers) = maxLevel + 1
  BY <1>1, <1>2 DEF Mapped
<1>7. \A n \in DOMAIN nodes : Len(nodes[n].layers) <= maxLevel + 1
  BY <1>3, <1>4
<1>8. activeCount = Cardinality(Live)
  BY <1>1, <1>2
<1>9. \A n \in DOMAIN nodes : \A level \in 0 .. Len(nodes[n].layers) - 1 :
        LET ms == Neighbours(nodes[n], level)
        IN  /\ \A i, j \in DOMAIN ms : ms[i] = ms[j] => i = j
            /\ Len(ms) <= Capacity(level)
            /\ \A m \in SetOf(ms) : m \in DOMAIN nodes \ {n} /\ HasLayer(nodes[m], level)
  BY <1>5, Zenon DEF Links, Once
<1>. QED
  BY <1>4, <1>6, <1>7, <1>8, <1>9 DEF GraphWellFormed

\* However documents come and go, the graph stays well formed: no dangling, double
\* or own links, none over capacity, none to a node without the layer.
THEOREM GraphStaysWellFormed == Spec => []GraphWellFormed
BY Invariant, GraphHolds, PTL

heldBar == [id \in Ids |-> VectorIn(nodes, idToNode, id)]
savedBar == [id \in Ids |-> IF bytes = NoBytes THEN None ELSE VectorIn(bytes.nodes, bytes.idToNode, id)]

\* What differs by a document is the map with another value for it.
LEMMA HeldChanges ==
    ASSUME NEW id \in Ids, NEW x, Differs(Snapshot, Snapshot', id, x)
    PROVE  heldBar' = [heldBar EXCEPT ![id] = x]
<1>1. \A other \in Ids : VectorIn(nodes', idToNode', other) = IF other = id THEN x ELSE VectorIn(nodes, idToNode, other)
  BY SnapshotIs, NextSnapshotIs DEF Differs
<1>2. heldBar' = [other \in Ids |-> VectorIn(nodes', idToNode', other)]
  BY DEF heldBar
<1>. QED
  BY <1>1, <1>2 DEF heldBar

\* Every step is a step of the map, or leaves it.
LEMMA StepRefines == IInv /\ [Next]_vars => [Promise!Next]_<<heldBar, savedBar>>
<1> SUFFICES ASSUME IInv, [Next]_vars PROVE [Promise!Next]_<<heldBar, savedBar>>
  OBVIOUS
<1>1. ASSUME NEW id \in Ids, Delete(id) PROVE Promise!Next
  <2>1. heldBar' = [heldBar EXCEPT ![id] = None]
    BY <1>1, DeleteKeeps, HeldChanges
  <2>2. savedBar' = savedBar
    BY <1>1 DEF Delete, savedBar
  <2>3. Promise!Delete(id)
    BY <2>1, <2>2 DEF Promise!Delete, heldBar, savedBar
  <2>. QED
    BY <2>3 DEF Promise!Next
<1>2. ASSUME NEW id \in Ids, NEW v \in Vectors, Insert(id, v) PROVE Promise!Next
  <2> DEFINE w == Prepared(Metric, v)
  <2>1. heldBar' = [heldBar EXCEPT ![id] = w]
    BY <1>2, InsertInvariant, HeldChanges
  <2>2. savedBar' = savedBar
    BY <1>2 DEF Insert, savedBar
  <2>3. w \in {Prepared(Metric, u) : u \in Vectors}
    OBVIOUS
  <2>. HIDE DEF w
  <2>4. Promise!Insert(id, w)
    BY <2>1, <2>2 DEF Promise!Insert, heldBar, savedBar
  <2>. QED
    BY <2>3, <2>4, Zenon DEF Promise!Next
<1>3. CASE Serialize
  <2>1. Snapshot \in Snapshots
    BY DEF IInv, Good
  <2>2. bytes' = Snapshot /\ nodes' = nodes /\ idToNode' = idToNode
    BY <1>3 DEF Serialize, Snapshot, index
  <2>3. bytes' # NoBytes
    BY <2>1, <2>2, SnapshotAssumption
  <2>4. bytes'.nodes = nodes /\ bytes'.idToNode = idToNode
    BY <2>2, SnapshotIs
  <2>5. savedBar' = heldBar /\ heldBar' = heldBar
    BY <2>2, <2>3, <2>4 DEF savedBar, heldBar
  <2>6. Promise!Serialize
    BY <2>5 DEF Promise!Serialize, heldBar, savedBar
  <2>. QED
    BY <2>6 DEF Promise!Next
<1>4. CASE Deserialize
  <2>1. nodes' = bytes.nodes /\ idToNode' = bytes.idToNode /\ bytes' = bytes /\ bytes # NoBytes
    BY <1>4 DEF Deserialize
  <2>2. heldBar' = savedBar /\ savedBar' = savedBar
    BY <2>1 DEF savedBar, heldBar
  <2>3. Promise!Deserialize
    BY <2>2 DEF Promise!Deserialize, heldBar, savedBar
  <2>. QED
    BY <2>3 DEF Promise!Next
<1>5. CASE UNCHANGED vars
  <2>1. heldBar' = heldBar /\ savedBar' = savedBar
    BY <1>5 DEF vars, index, heldBar, savedBar
  <2>. QED
    BY <2>1
<1>. QED
  BY <1>1, <1>2, <1>3, <1>4, <1>5 DEF Next

\* At the start the map is empty.
LEMMA InitRefines == Init => Promise!Init
<1> SUFFICES ASSUME Init PROVE Promise!Init
  OBVIOUS
<1>1. \A id \in Ids : VectorIn(nodes, idToNode, id) = None
  BY DEF Init, VectorIn
<1>2. heldBar = [id \in Ids |-> None] /\ savedBar = [id \in Ids |-> None]
  BY <1>1 DEF Init, heldBar, savedBar
<1>. QED
  BY <1>2 DEF Promise!Init, Promise!Empty, heldBar, savedBar

\* The index implements the map that the trait VectorIndex promises: whatever the
\* graph goes through, an insert changes the one document's vector, a delete takes
\* one document out, and bytes bring back what was held when they were made.
THEOREM HnswRefinesVectorIndex == Spec => ImplementsVectorIndex
<1>1. Spec => Promise!Spec
  BY Invariant, InitRefines, StepRefines, PTL DEF Spec, Promise!Spec, heldBar, savedBar
<1>. QED
  BY <1>1 DEF ImplementsVectorIndex

-----------------------------------------------------------------------------
(* Searches.                                                               *)

\* The nodes of the live documents, and the other way round.
LEMMA LiveNodes ==
    ASSUME IInv
    PROVE  /\ \A n \in DOMAIN nodes : nodes[n].id \in Ids /\ (nodes[n].id \in Live <=> ~ nodes[n].deleted)
           /\ \A id \in Live : \E n \in DOMAIN nodes : nodes[n].id = id
           /\ \A m, n \in DOMAIN nodes : nodes[m].id = nodes[n].id => m = n
           /\ activeCount = Cardinality(Live) /\ (activeCount = 0 <=> Live = {})
           /\ IsFiniteSet(Live) /\ Live \in SUBSET Ids
           /\ nodes \in Seq(NodeRecords) /\ Distinct(nodes) /\ maxLevel \in Levels /\ maxLevel \in Nat
           /\ \A layer \in 0 .. maxLevel : layer \in Nat /\ Closed(nodes, layer, DOMAIN nodes)
<1> DEFINE s == Snapshot
<1>1. /\ s \in Snapshots /\ Mapped(s) /\ s.activeCount = Cardinality(LiveOf(s)) /\ Distinct(s.nodes)
      /\ \A level \in Levels : WellLinked(s.nodes, level)
  BY DEF IInv, Good
<1>2. /\ s.nodes = nodes /\ s.idToNode = idToNode /\ s.maxLevel = maxLevel
      /\ s.activeCount = activeCount /\ LiveOf(s) = Live
  BY SnapshotIs
<1>. HIDE DEF s
<1>3. nodes \in Seq(NodeRecords) /\ maxLevel \in Levels /\ maxLevel \in Nat
  <2>1. nodes \in Seq(NodeRecords) /\ maxLevel \in Levels
    BY <1>1, <1>2, SnapshotsAre
  <2>. QED
    BY <2>1, HnswAssumption DEF Levels
<1>4. \A n \in DOMAIN nodes : nodes[n].id \in Ids /\ n # 0 /\ idToNode[nodes[n].id] = n
  <2>1. \A n \in DOMAIN nodes : nodes[n].id \in Ids /\ n # 0
    BY <1>3, NodesAre, LayersAre
  <2>. QED
    BY <1>1, <1>2, <2>1 DEF Mapped
<1>5. \A n \in DOMAIN nodes : nodes[n].id \in Live <=> ~ nodes[n].deleted
  BY <1>4, Zenon DEF Live, Held
<1>6. \A id \in Live : \E n \in DOMAIN nodes : nodes[n].id = id
  <2>1. \A id \in Ids : idToNode[id] # 0 => idToNode[id] \in DOMAIN nodes /\ nodes[idToNode[id]].id = id
    BY <1>1, <1>2 DEF Mapped
  <2>2. \A id \in Live : id \in Ids /\ idToNode[id] # 0
    BY DEF Live, Held
  <2>. QED
    BY <2>1, <2>2
<1>7. Live \in SUBSET Ids /\ IsFiniteSet(Live)
  <2>1. Live \in SUBSET Ids
    BY DEF Live
  <2>. QED
    BY <2>1, HnswAssumption, FS_Subset
<1>8. activeCount = Cardinality(Live) /\ (activeCount = 0 <=> Live = {})
  BY <1>1, <1>2, <1>7, FS_EmptySet
<1>9. \A layer \in 0 .. maxLevel : layer \in Nat /\ Closed(nodes, layer, DOMAIN nodes)
  <2> SUFFICES ASSUME NEW layer \in 0 .. maxLevel PROVE layer \in Nat /\ Closed(nodes, layer, DOMAIN nodes)
    OBVIOUS
  <2>1. layer \in Nat /\ layer \in Levels
    BY <1>3, HnswAssumption DEF Levels
  <2>2. WellLinked(nodes, layer)
    BY <1>1, <1>2, <2>1
  <2>3. Closed(nodes, layer, DOMAIN nodes)
    BY <2>2 DEF WellLinked, Links, Closed
  <2>. QED
    BY <2>1, <2>3
<1>. QED
  BY <1>1, <1>2, <1>3, <1>4, <1>5, <1>6, <1>7, <1>8, <1>9

\* A search starts at a live node.
LEMMA StartIsLive ==
    ASSUME IInv, activeCount # 0
    PROVE  StartOf \in DOMAIN nodes /\ ~ nodes[StartOf].deleted
<1>1. \E n \in DOMAIN nodes : ~ nodes[n].deleted
  <2>1. PICK id \in Live : TRUE
    BY LiveNodes
  <2>2. PICK n \in DOMAIN nodes : nodes[n].id = id
    BY <2>1, LiveNodes
  <2>. QED
    BY <2>1, <2>2, LiveNodes
<1>2. entryPoint \in DOMAIN nodes
  <2>1. Mapped(Snapshot)
    BY DEF IInv, Good
  <2>2. nodes # <<>>
    BY <1>1
  <2>. QED
    BY <2>1, <2>2, SnapshotIs DEF Mapped
<1>3. CASE ~ nodes[entryPoint].deleted
  <2>1. StartOf = entryPoint
    BY <1>3, Zenon DEF StartOf
  <2>. QED
    BY <1>2, <1>3, <2>1
<1>4. CASE nodes[entryPoint].deleted
  <2> DEFINE P(n) == n \in DOMAIN nodes /\ ~ nodes[n].deleted /\ \A m \in 1 .. n - 1 : nodes[m].deleted
             F == {n \in DOMAIN nodes : ~ nodes[n].deleted}
  <2>1. Len(nodes) \in Nat /\ DOMAIN nodes = 1 .. Len(nodes)
    BY LiveNodes, NodesAre
  <2>2. PICK n \in F : \A m \in F : n <= m
    <3>1. F \in SUBSET (1 .. Len(nodes)) /\ F # {}
      BY <1>1, <2>1
    <3>. HIDE DEF F
    <3>. QED
      BY <2>1, <3>1, FirstOf
  <2>3. P(n)
    BY <2>1, <2>2
  <2>4. StartOf = CHOOSE x : P(x)
    BY <1>4, Zenon DEF StartOf
  <2>5. P(CHOOSE x : P(x))
    <3>. HIDE DEF P
    <3>. QED
      BY <2>3
  <2>. QED
    BY <2>4, <2>5
<1>. QED
  BY <1>3, <1>4

\* The nodes that a search orders its answer from.
Met(query, k, passing) ==
    LET q == Prepared(Metric, query)
        entry == Descend(nodes, q, StartOf, maxLevel, 0, passing)
    IN  {n \in SearchLayer(nodes, q, entry, IF EfSearch < k THEN k ELSE EfSearch, 0, passing) : ~nodes[n].deleted}

LEMMA SearchIs ==
    ASSUME IInv, activeCount # 0, NEW query \in Queries, NEW k \in Nat \ {0}, NEW passing
    PROVE  LET q == Prepared(Metric, query)
               entry == Descend(nodes, q, StartOf, maxLevel, 0, passing)
               met == Met(query, k, passing)
           IN  /\ Search(query, k, EfSearch, passing) = NearestFirst(nodes, q, met, k)
               /\ q \in Int /\ entry \in DOMAIN nodes /\ ~ nodes[entry].deleted
               /\ met \in SUBSET DOMAIN nodes /\ Apart(nodes, q, met)
               /\ \A n \in met : ~ nodes[n].deleted /\ nodes[n].id \in passing
               /\ (\A n \in DOMAIN nodes : nodes[n].id \in passing)
                    => \E n \in met : To(nodes, q, n) <= To(nodes, q, StartOf)
<1> DEFINE q == Prepared(Metric, query)
           start == StartOf
           entry == Descend(nodes, q, start, maxLevel, 0, passing)
           width == IF EfSearch < k THEN k ELSE EfSearch
           all == SearchLayer(nodes, q, entry, width, 0, passing)
           met == Met(query, k, passing)
           N == DOMAIN nodes
<1>1. q \in Own /\ q \in Int
  <2>1. query \in Vectors /\ query \in Int /\ Metric \in Metrics
    BY HnswAssumption
  <2>. QED
    BY <2>1, Values DEF Own
<1>2. width \in Nat \ {0}
  BY HnswAssumption
<1>3. /\ nodes \in Seq(NodeRecords) /\ Distinct(nodes) /\ maxLevel \in Nat
      /\ \A layer \in 0 .. maxLevel : layer \in Nat /\ Closed(nodes, layer, N)
  BY LiveNodes
<1>4. start \in N /\ ~ nodes[start].deleted
  BY StartIsLive
<1>5. met = {n \in all : ~ nodes[n].deleted}
  BY Zenon DEF Met
<1>6. Search(query, k, EfSearch, passing) = NearestFirst(nodes, q, met, k)
  BY <1>5, Zenon DEF Search
<1>. HIDE DEF q, start, width, N, met
<1>7. /\ entry \in N /\ (entry = start \/ ~ nodes[entry].deleted)
      /\ (\A n \in N : nodes[n].id \in passing) => To(nodes, q, entry) <= To(nodes, q, start)
  <2> DEFINE low == 0
  <2>1. low \in Nat /\ \A layer \in low + 1 .. maxLevel : Closed(nodes, layer, N)
    <3>1. \A layer \in 0 + 1 .. maxLevel : layer \in 0 .. maxLevel
      BY <1>3
    <3>. QED
      BY <1>3, <3>1
  <2>2. entry = Descend(nodes, q, start, maxLevel, low, passing)
    OBVIOUS
  <2>. HIDE DEF low, entry
  <2>3. N \in SUBSET DOMAIN nodes
    BY DEF N
  <2>4. /\ entry \in N /\ (entry = start \/ ~ nodes[entry].deleted)
        /\ (\A n \in N : nodes[n].id \in passing) => To(nodes, q, entry) <= To(nodes, q, start)
    BY <1>1, <1>3, <1>4, <2>1, <2>2, <2>3, DescendIs
  <2>. QED
    BY <2>4
<1>. HIDE DEF entry
<1>8. ~ nodes[entry].deleted
  BY <1>4, <1>7
<1>9. all \in SUBSET N /\ Fair(nodes, q, entry, passing, all)
  <2> DEFINE layer == 0
  <2>1. layer \in Nat /\ Closed(nodes, layer, N)
    <3>1. 0 \in 0 .. maxLevel
      BY <1>3
    <3>. QED
      BY <1>3, <3>1
  <2>2. all = SearchLayer(nodes, q, entry, width, layer, passing)
    OBVIOUS
  <2>. HIDE DEF layer, all
  <2>. QED
    BY <1>1, <1>2, <1>3, <1>7, <2>1, <2>2, SearchLayerIs
<1>. HIDE DEF all
<1>10. \A n \in all : n \in N /\ ~ nodes[n].deleted /\ nodes[n].id \in passing
  <2>1. \A n \in all : nodes[n].id \in passing /\ (n = entry \/ ~ nodes[n].deleted)
    BY <1>9, Zenon DEF Fair
  <2>. QED
    BY <1>8, <1>9, <2>1
<1>11. met = all
  BY <1>5, <1>10
<1>12. met \in SUBSET N /\ Apart(nodes, q, met)
  <2>1. met \in SUBSET DOMAIN nodes
    BY <1>10, <1>11 DEF N
  <2>. QED
    BY <1>1, <1>3, <2>1, ApartAre DEF N
<1>13. (\A n \in N : nodes[n].id \in passing) => \E n \in met : To(nodes, q, n) <= To(nodes, q, start)
  <2> SUFFICES ASSUME \A n \in N : nodes[n].id \in passing
               PROVE  \E n \in met : To(nodes, q, n) <= To(nodes, q, start)
    OBVIOUS
  <2>1. PICK n \in all : To(nodes, q, n) <= To(nodes, q, entry)
    BY <1>7, <1>9, Zenon DEF Fair
  <2>2. To(nodes, q, entry) <= To(nodes, q, start)
    BY <1>7
  <2>3. To(nodes, q, n) \in Int /\ To(nodes, q, entry) \in Int /\ To(nodes, q, start) \in Int
    BY <1>1, <1>3, <1>4, <1>7, <1>10, ToInt DEF N
  <2>4. To(nodes, q, n) <= To(nodes, q, start)
    BY <2>1, <2>2, <2>3
  <2>. QED
    BY <1>11, <2>4
<1>. QED
  BY <1>1, <1>6, <1>7, <1>8, <1>10, <1>11, <1>12, <1>13 DEF q, start, entry, met, N

\* The invariant lets searches find live documents.
LEMMA FindsLiveHolds == IInv => SearchFindsLive
<1> SUFFICES ASSUME IInv, NEW query \in Queries, NEW passing \in {Ids} \cup {Ids \ {id} : id \in Ids}
             PROVE  LET k == 2
                        answer == Search(query, k, EfSearch, passing)
                        distance(n) == To(nodes, Prepared(Metric, query), n)
                    IN  /\ IdsOf(answer) \subseteq Live \cap passing
                        /\ Len(answer) <= k
                        /\ \A i, j \in DOMAIN answer : i < j => distance(answer[i]) < distance(answer[j])
                        /\ passing = Ids /\ Live # {} => answer # <<>> /\ distance(answer[1]) <= distance(StartOf)
  BY Zenon DEF SearchFindsLive
<1> DEFINE k == 2
           answer == Search(query, k, EfSearch, passing)
           q == Prepared(Metric, query)
           met == Met(query, k, passing)
<1>1. CASE activeCount = 0
  <2>1. answer = <<>>
    BY <1>1 DEF Search
  <2>2. Live = {}
    BY <1>1, LiveNodes
  <2>. HIDE DEF answer
  <2>3. IdsOf(answer) = {} /\ Len(answer) <= k /\ DOMAIN answer = {}
    BY <2>1 DEF IdsOf, SetOf
  <2>. QED
    BY <2>2, <2>3 DEF answer
<1>2. CASE activeCount # 0
  <2>1. k \in Nat \ {0}
    OBVIOUS
  <2>. HIDE DEF k
  <2>2. /\ answer = NearestFirst(nodes, q, met, k) /\ q \in Int
        /\ met \in SUBSET DOMAIN nodes /\ Apart(nodes, q, met)
        /\ \A n \in met : ~ nodes[n].deleted /\ nodes[n].id \in passing
        /\ (\A n \in DOMAIN nodes : nodes[n].id \in passing)
             => \E n \in met : To(nodes, q, n) <= To(nodes, q, StartOf)
    BY <1>2, <2>1, SearchIs
  <2>. HIDE DEF answer, met, q
  <2>3. nodes \in Seq(NodeRecords)
    BY LiveNodes
  <2>4. /\ Len(answer) \in Nat /\ Len(answer) <= k /\ DOMAIN answer = 1 .. Len(answer)
        /\ SetOf(answer) \in SUBSET met
        /\ \A i, j \in DOMAIN answer : i < j => To(nodes, q, answer[i]) < To(nodes, q, answer[j])
        /\ met # {} => 1 \in DOMAIN answer /\ \A m \in met : To(nodes, q, answer[1]) <= To(nodes, q, m)
    BY <2>1, <2>2, <2>3, NearestFirstIs
  <2>5. IdsOf(answer) \subseteq Live \cap passing
    <3>1. \A n \in SetOf(answer) : nodes[n].id \in Live /\ nodes[n].id \in passing
      BY <2>2, <2>4, LiveNodes
    <3>. QED
      BY <3>1 DEF IdsOf
  <2>6. ASSUME passing = Ids
        PROVE  answer # <<>> /\ To(nodes, q, answer[1]) <= To(nodes, q, StartOf)
    <3>1. \A n \in DOMAIN nodes : nodes[n].id \in passing
      BY <2>6, LiveNodes
    <3>2. PICK n \in met : To(nodes, q, n) <= To(nodes, q, StartOf)
      BY <2>2, <3>1
    <3>3. 1 \in DOMAIN answer /\ To(nodes, q, answer[1]) <= To(nodes, q, n)
      BY <2>4, <3>2
    <3>4. answer[1] \in met
      BY <2>4, <3>3 DEF SetOf
    <3>5. To(nodes, q, answer[1]) \in Int /\ To(nodes, q, n) \in Int /\ To(nodes, q, StartOf) \in Int
      BY <1>2, <2>2, <2>3, <3>2, <3>4, StartIsLive, ToInt
    <3>6. To(nodes, q, answer[1]) <= To(nodes, q, StartOf)
      BY <3>2, <3>3, <3>5
    <3>7. answer # <<>>
      BY <3>3
    <3>. QED
      BY <3>6, <3>7
  <2>. QED
    BY <2>4, <2>5, <2>6 DEF answer, k, q
<1>. QED
  BY <1>1, <1>2

\* While a document is live, a search finds one, no farther than where it starts,
\* even when the entry point is deleted; all it finds are live and pass the filter.
THEOREM SearchesFindLive == Spec => []SearchFindsLive
BY Invariant, FindsLiveHolds, PTL

\* Live nodes are no more than there are ids.
LEMMA LiveNodesFew ==
    ASSUME IInv
    PROVE  LET L == LiveIn(nodes, DOMAIN nodes)
           IN  L \in SUBSET DOMAIN nodes /\ Cardinality(L) \in Nat /\ Cardinality(L) <= Cardinality(Ids)
<1> DEFINE L == LiveIn(nodes, DOMAIN nodes)
           f == [n \in L |-> nodes[n].id]
<1>1. L \in SUBSET DOMAIN nodes
  BY DEF LiveIn
<1>. HIDE DEF L
<1>2. IsFiniteSet(L) /\ Cardinality(L) \in Nat
  BY <1>1, LiveNodes, NodesFinite
<1>3. f \in Injection(L, Ids)
  <2>1. f \in [L -> Ids]
    BY <1>1, LiveNodes
  <2>2. \A m, n \in L : f[m] = f[n] => m = n
    BY <1>1, LiveNodes
  <2>. HIDE DEF f
  <2>. QED
    BY <2>1, <2>2 DEF Injection, IsInjective
<1>4. IsFiniteSet(Ids)
  BY HnswAssumption
<1>5. Cardinality(L) <= Cardinality(Ids)
  <2>. HIDE DEF f
  <2>. QED
    BY <1>2, <1>3, <1>4, FS_Injection
<1>. QED
  BY <1>1, <1>2, <1>5 DEF L

\* The invariant makes wide searches of small graphs complete.
LEMMA SmallHolds == IInv => SmallIsComplete
<1> SUFFICES ASSUME IInv, Len(nodes) <= Least(MMax0, EfConstruction) + 1, revived = {}, ~ astray,
                    NEW query \in Queries, NEW passing \in {Ids} \cup {{id} : id \in Ids}
             PROVE  IdsOf(Search(query, Cardinality(Ids), EfSearch, passing)) = Live \cap passing
  BY Zenon DEF SmallIsComplete
<1> DEFINE k == Cardinality(Ids)
           answer == Search(query, k, EfSearch, passing)
           q == Prepared(Metric, query)
           entry == Descend(nodes, q, StartOf, maxLevel, 0, passing)
           width == IF EfSearch < k THEN k ELSE EfSearch
           all == SearchLayer(nodes, q, entry, width, 0, passing)
           met == Met(query, k, passing)
           N == DOMAIN nodes
           L == LiveIn(nodes, N)
<1>1. CASE activeCount = 0
  <2>1. answer = <<>>
    BY <1>1 DEF Search
  <2>2. Live = {}
    BY <1>1, LiveNodes
  <2>. HIDE DEF answer
  <2>3. IdsOf(answer) = {}
    BY <2>1 DEF IdsOf, SetOf
  <2>. QED
    BY <2>2, <2>3 DEF answer, k
<1>2. CASE activeCount # 0
  <2>1. k \in Nat \ {0} /\ Cardinality(L) \in Nat /\ Cardinality(L) <= k /\ L \in SUBSET N
    <3>1. k \in Nat /\ (k = 0 <=> Ids = {})
      BY HnswAssumption, FS_CardinalityType, FS_EmptySet
    <3>2. Ids # {}
      BY <1>2, LiveNodes
    <3>. QED
      BY <3>1, <3>2, LiveNodesFew
  <2>2. width \in Nat \ {0} /\ Cardinality(L) <= width
    BY <2>1, HnswAssumption
  <2>3. Mutual(nodes, L)
    <3>1. Complete(Snapshot)
      BY DEF IInv, Good
    <3>. HIDE DEF L, N
    <3>2. Mutual(Snapshot.nodes, LiveIn(Snapshot.nodes, DOMAIN Snapshot.nodes))
      BY <3>1, SnapshotIs DEF Complete
    <3>. QED
      BY <3>2, SnapshotIs DEF L, N
  <2>. HIDE DEF k
  <2>4. /\ answer = NearestFirst(nodes, q, met, k)
        /\ q \in Int /\ entry \in N /\ ~ nodes[entry].deleted
        /\ met \in SUBSET N /\ Apart(nodes, q, met)
    <3>. HIDE DEF answer, met
    <3>. QED
      BY <1>2, <2>1, SearchIs DEF answer, met
  <2>5. met = {n \in all : ~ nodes[n].deleted}
    BY Zenon DEF Met
  <2>6. nodes \in Seq(NodeRecords) /\ Closed(nodes, 0, N)
    <3>1. 0 \in 0 .. maxLevel
      BY LiveNodes
    <3>. QED
      BY <3>1, LiveNodes
  <2>. HIDE DEF answer, q, entry, width, met
  <2>7. all = {n \in L : nodes[n].id \in passing}
    <3> DEFINE layer == 0
    <3>1. layer \in Nat /\ Closed(nodes, layer, N)
      BY <2>6
    <3>2. L \in SUBSET ({entry} \cup SetOf(Neighbours(nodes[entry], layer))) /\ entry \in L
      <4>1. entry \in L
        BY <2>4 DEF LiveIn
      <4>. HIDE DEF L
      <4>2. \A m \in L : m # entry => m \in SetOf(Neighbours(nodes[entry], 0))
        BY <2>3, <4>1 DEF Mutual
      <4>. QED
        BY <4>1, <4>2
    <3>3. all = SearchLayer(nodes, q, entry, width, layer, passing)
      OBVIOUS
    <3>. HIDE DEF layer, all, N
    <3>. QED
      BY <2>2, <2>4, <2>6, <3>1, <3>2, <3>3, SearchLayerFindsAll
  <2>. HIDE DEF all
  <2>8. met = {n \in L : nodes[n].id \in passing}
    BY <2>5, <2>7 DEF LiveIn
  <2>9. SetOf(answer) = met
    <3>1. IsFiniteSet(L)
      BY <2>1, <2>6, NodesFinite
    <3>. HIDE DEF L
    <3>2. Cardinality(met) <= Cardinality(L) /\ Cardinality(met) \in Nat
      <4>1. met \in SUBSET L
        BY <2>8
      <4>. QED
        BY <3>1, <4>1, FS_Subset, FS_CardinalityType
    <3>3. Cardinality(met) <= k
      BY <2>1, <3>2
    <3>. QED
      BY <2>1, <2>4, <2>6, <3>3, NearestFirstIs
  <2>10. \A n \in met : nodes[n].id \in Live \cap passing
    BY <2>8, LiveNodes DEF LiveIn
  <2>11. \A id \in Live \cap passing : \E n \in met : nodes[n].id = id
    <3> SUFFICES ASSUME NEW id \in Live, id \in passing PROVE \E n \in met : nodes[n].id = id
      OBVIOUS
    <3>1. PICK n \in DOMAIN nodes : nodes[n].id = id
      BY LiveNodes
    <3>2. ~ nodes[n].deleted
      BY <3>1, LiveNodes
    <3>. QED
      BY <2>8, <3>1, <3>2 DEF LiveIn
  <2>. HIDE DEF L
  <2>12. IdsOf(answer) = Live \cap passing
    BY <2>9, <2>10, <2>11 DEF IdsOf
  <2>. QED
    BY <2>12 DEF answer, k
<1>. QED
  BY <1>1, <1>2

\* As long as no node had to leave a neighbour out, every live node has all others
\* for neighbours, and a wide search finds exactly the live documents that pass.
THEOREM SmallGraphsAreComplete == Spec => []SmallIsComplete
BY Invariant, SmallHolds, PTL
=============================================================================
