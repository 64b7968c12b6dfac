------------------------- MODULE IvfSq8IndexProofs --------------------------
(***************************************************************************)
(* Proofs about IvfSq8Index, for every set of ids and vectors, every       *)
(* metric, any number of centroids, levels and iterations, and every       *)
(* training threshold.                                                     *)
(***************************************************************************)
EXTENDS IvfSq8Index, IndexLemmas

-----------------------------------------------------------------------------
(* The nearest centroid.                                                   *)

\* Nearest, for any metric.
NearestBy(m, cs, v) ==
    CHOOSE c \in DOMAIN cs : \A d \in DOMAIN cs :
        LET near == Distance(m, v, cs[c])
            other == Distance(m, v, cs[d])
        IN  near < other \/ (near = other /\ c <= d)

\* There is a nearest one of any centroids.
LEMMA NearestIs ==
    ASSUME NEW m \in Metrics, NEW cs \in Seq(Int), Len(cs) # 0, NEW v \in Int
    PROVE  /\ NearestBy(m, cs, v) \in DOMAIN cs
           /\ NearestBy(m, cs, v) \in 1 .. Len(cs)
           /\ \A d \in DOMAIN cs :
                LET near == Distance(m, v, cs[NearestBy(m, cs, v)])
                    other == Distance(m, v, cs[d])
                IN  near < other \/ (near = other /\ NearestBy(m, cs, v) <= d)
<1> DEFINE f == [c \in 1 .. Len(cs) |-> Distance(m, v, cs[c])]
           P(c) == c \in DOMAIN cs /\ \A d \in DOMAIN cs :
                     LET near == Distance(m, v, cs[c])
                         other == Distance(m, v, cs[d])
                     IN  near < other \/ (near = other /\ c <= d)
<1>1. DOMAIN cs = 1 .. Len(cs) /\ Len(cs) \in Nat \ {0} /\ \A c \in 1 .. Len(cs) : cs[c] \in Int
  OBVIOUS
<1>2. f \in [1 .. Len(cs) -> Int]
  BY <1>1, Values
<1>3. PICK c \in 1 .. Len(cs) : \A d \in 1 .. Len(cs) : f[c] < f[d] \/ (f[c] = f[d] /\ c <= d)
  <2>. HIDE DEF f
  <2>. QED
    BY <1>1, <1>2, FirstLeast
<1>4. P(c)
  BY <1>1, <1>3
<1>5. P(NearestBy(m, cs, v))
  <2>1. NearestBy(m, cs, v) = CHOOSE x : P(x)
    BY Zenon DEF NearestBy
  <2>. HIDE DEF P
  <2>. QED
    BY <1>4, <2>1
<1>. QED
  BY <1>1, <1>5

\* The model's nearest centroid is NearestBy of the index's metric.
LEMMA NearestSame == \A cs, v : Nearest(cs, v) = NearestBy(metric, cs, v)
BY Zenon DEF Nearest, NearestBy

-----------------------------------------------------------------------------
(* The training: types, and the range of the quantizer.                    *)

\* Every vector of the training is in the range of the quantizer.
LEMMA QuantizerIs ==
    ASSUME NEW vectors \in Seq(Int), Len(vectors) # 0
    PROVE  LET qz == TrainQuantizer(vectors)
           IN  /\ qz \in Quantizers /\ qz.min <= qz.max
               /\ \A i \in DOMAIN vectors : qz.min <= vectors[i] /\ vectors[i] <= qz.max
<1> DEFINE values == {vectors[i] : i \in DOMAIN vectors}
           Low(v) == v \in values /\ \A w \in values : v <= w
           High(v) == v \in values /\ \A w \in values : w <= v
           negated == [i \in 1 .. Len(vectors) |-> -vectors[i]]
<1>1. DOMAIN vectors = 1 .. Len(vectors) /\ Len(vectors) \in Nat \ {0} /\ values \subseteq Int
      /\ \A i \in 1 .. Len(vectors) : vectors[i] \in Int
  OBVIOUS
<1>2. \E v : High(v)
  <2>1. \E i \in 1 .. Len(vectors) : \A j \in 1 .. Len(vectors) : vectors[i] >= vectors[j]
    BY <1>1, GreatestOfAll
  <2>. QED
    BY <1>1, <2>1
<1>3. \E v : Low(v)
  <2>1. \E i \in 1 .. Len(vectors) : \A j \in 1 .. Len(vectors) : negated[i] >= negated[j]
    <3>1. \A i \in 1 .. Len(vectors) : negated[i] \in Int
      BY <1>1
    <3>. HIDE DEF negated
    <3>. QED
      BY <1>1, <3>1, GreatestOfAll
  <2>2. \A i, j \in 1 .. Len(vectors) : negated[i] >= negated[j] => vectors[i] <= vectors[j]
    BY <1>1
  <2>3. PICK i \in 1 .. Len(vectors) : \A j \in 1 .. Len(vectors) : vectors[i] <= vectors[j]
    <3>. HIDE DEF negated
    <3>. QED
      BY <2>1, <2>2
  <2>4. Low(vectors[i])
    BY <1>1, <2>3
  <2>. QED
    BY <2>4
<1>4. Low(TrainQuantizer(vectors).min) /\ High(TrainQuantizer(vectors).max)
      /\ TrainQuantizer(vectors) = [min |-> TrainQuantizer(vectors).min, max |-> TrainQuantizer(vectors).max]
  <2>1. TrainQuantizer(vectors) = [min |-> CHOOSE v : Low(v), max |-> CHOOSE v : High(v)]
    BY Zenon DEF TrainQuantizer
  <2>. HIDE DEF Low, High
  <2>. QED
    BY <1>2, <1>3, <2>1
<1>. QED
  BY <1>1, <1>4 DEF Quantizers

\* The next seed is an integer, as the vectors are.
LEMMA FarthestIs ==
    ASSUME metric \in Metrics, NEW vectors \in Seq(Int), Len(vectors) # 0, NEW cs \in Seq(Int), Len(cs) # 0
    PROVE  Farthest(vectors, cs) \in Int
<1> DEFINE n == Len(vectors)
           distance == [i \in 1 .. n |-> DistanceToNearest(cs, vectors[i])]
           far == {i \in DOMAIN vectors : DistanceToNearest(cs, vectors[i]) > -(One * One)}
           farthest == {i \in far : \A j \in far :
                            DistanceToNearest(cs, vectors[i]) >= DistanceToNearest(cs, vectors[j])}
           First(i) == i \in farthest /\ \A j \in farthest : i <= j
<1>1. DOMAIN vectors = 1 .. n /\ n \in Nat \ {0} /\ \A i \in 1 .. n : vectors[i] \in Int
  OBVIOUS
<1>2. \A i \in 1 .. n : DistanceToNearest(cs, vectors[i]) \in Int
  <2> SUFFICES ASSUME NEW i \in 1 .. n PROVE DistanceToNearest(cs, vectors[i]) \in Int
    OBVIOUS
  <2>1. Nearest(cs, vectors[i]) \in DOMAIN cs
    BY <1>1, NearestIs, NearestSame
  <2>2. cs[Nearest(cs, vectors[i])] \in Int
    BY <2>1
  <2>. QED
    BY <1>1, <2>2, Values DEF DistanceToNearest
<1>3. Farthest(vectors, cs) = vectors[IF far = {} THEN 1 ELSE CHOOSE i : First(i)]
  <2>1. Farthest(vectors, cs) =
            vectors[IF far = {} THEN 1 ELSE CHOOSE i \in farthest : \A j \in farthest : i <= j]
    BY DEF Farthest
  <2>2. (CHOOSE i \in farthest : \A j \in farthest : i <= j) = CHOOSE i : First(i)
    <3>. HIDE DEF farthest
    <3>. QED
      BY Zenon
  <2>. HIDE DEF farthest, far, First
  <2>. QED
    BY <2>1, <2>2
<1>4. CASE far = {}
  BY <1>1, <1>3, <1>4
<1>5. CASE far # {}
  <2>1. far \in SUBSET (1 .. n) /\ \A i \in far : distance[i] \in Int
    BY <1>1, <1>2
  <2>2. PICK k \in far : \A j \in far : distance[k] >= distance[j]
    <3>. HIDE DEF distance, far
    <3>. QED
      BY <1>1, <1>5, <2>1, GreatestOf
  <2>3. k \in farthest /\ farthest \in SUBSET (1 .. n)
    BY <2>1, <2>2
  <2>4. \E i : First(i)
    <3>. HIDE DEF farthest
    <3>. QED
      BY <1>1, <2>3, FirstOf
  <2>5. First(CHOOSE i : First(i))
    <3>. HIDE DEF First
    <3>. QED
      BY <2>4
  <2>6. (CHOOSE i : First(i)) \in 1 .. n
    BY <2>3, <2>5
  <2>. QED
    BY <1>1, <1>3, <1>5, <2>6
<1>. QED
  BY <1>4, <1>5

\* There are as many seeds as were asked for.
LEMMA SeedsAre ==
    ASSUME metric \in Metrics, NEW vectors \in Seq(Int), NEW n \in 1 .. Len(vectors)
    PROVE  Seeds(vectors, n)[n] \in Seq(Int) /\ Len(Seeds(vectors, n)[n]) = n
<1> DEFINE V == Seq(Int) \ {<<>>}
           seed == <<vectors[1]>>
           Next1(cs) == Append(cs, Farthest(vectors, cs))
           step == [m \in 1 .. n |-> [cs \in V |-> Next1(cs)]]
           Is(f) == f = [m \in 1 .. n |-> IF m = 1 THEN seed ELSE Next1(f[m - 1])]
<1>1. Len(vectors) # 0 /\ n \in Nat \ {0} /\ seed \in V /\ Len(seed) = 1
  OBVIOUS
<1>. HIDE DEF seed
<1>2. \A cs \in V : Next1(cs) \in V /\ Len(Next1(cs)) = Len(cs) + 1
  <2> SUFFICES ASSUME NEW cs \in V PROVE Next1(cs) \in V /\ Len(Next1(cs)) = Len(cs) + 1
    OBVIOUS
  <2>1. Len(cs) # 0
    BY EmptySeq
  <2>2. Farthest(vectors, cs) \in Int
    BY <1>1, <2>1, FarthestIs
  <2>. QED
    BY <2>2
<1>3. \E f : Is(f)
  <2>1. step \in [1 .. n -> [V -> V]]
    <3>. HIDE DEF V, Next1
    <3>. QED
      BY <1>2
  <2>2. PICK f \in [1 .. n -> V] : Follows(f, 1, n, seed, step)
    <3>. HIDE DEF step, V
    <3>. QED
      BY <1>1, <2>1, Iterated
  <2>3. \A m \in 1 .. n : f[m] = IF m = 1 THEN seed ELSE step[m][f[m - 1]]
    <3>. HIDE DEF step, V
    <3>. QED
      BY <2>2 DEF Follows
  <2>4. \A m \in 1 .. n : f[m] = IF m = 1 THEN seed ELSE Next1(f[m - 1])
    <3> SUFFICES ASSUME NEW m \in 1 .. n
                 PROVE  f[m] = IF m = 1 THEN seed ELSE Next1(f[m - 1])
      OBVIOUS
    <3>1. m # 1 => m - 1 \in 1 .. n
      OBVIOUS
    <3>2. m # 1 => f[m - 1] \in V
      BY <3>1
    <3>3. m # 1 => step[m][f[m - 1]] = Next1(f[m - 1])
      <4>. HIDE DEF V, Next1
      <4>. QED
        BY <3>2
    <3>. HIDE DEF step
    <3>. QED
      BY <2>3, <3>3
  <2>5. Is(f)
    <3>. HIDE DEF V, Next1
    <3>. QED
      BY <2>4
  <2>. QED
    BY <2>5
<1>4. Is(Seeds(vectors, n))
  <2>1. Seeds(vectors, n) = CHOOSE f : Is(f)
    BY Zenon DEF Seeds, seed
  <2>. HIDE DEF Is
  <2>. QED
    BY <1>3, <2>1
<1> DEFINE s == Seeds(vectors, n)
           S == {m \in 1 .. n : s[m] \in V /\ Len(s[m]) = m}
<1>5. s[1] = seed /\ \A m \in 1 .. n : m # 1 => s[m] = Next1(s[m - 1])
  <2>1. Is(s)
    BY <1>4
  <2>. HIDE DEF s, Next1
  <2>2. \A m \in 1 .. n : s[m] = IF m = 1 THEN seed ELSE Next1(s[m - 1])
    BY <2>1
  <2>. QED
    BY <1>1, <2>2
<1>6. 1 \in S
  <2>1. seed \in Seq(Int) /\ seed # <<>> /\ Len(seed) = 1
    BY <1>1
  <2>. HIDE DEF s, V
  <2>. QED
    BY <1>1, <1>5
<1>7. \A m \in 1 .. n : m \in S /\ m < n => m + 1 \in S
  <2> SUFFICES ASSUME NEW m \in 1 .. n, m \in S, m < n PROVE m + 1 \in S
    OBVIOUS
  <2>1. m + 1 \in 1 .. n /\ m + 1 # 1 /\ m + 1 - 1 = m
    OBVIOUS
  <2>2. s[m + 1] = Next1(s[m])
    <3>. HIDE DEF s, Next1
    <3>. QED
      BY <1>5, <2>1
  <2>. HIDE DEF s, Next1, V
  <2>. QED
    BY <1>2, <2>1, <2>2
<1>8. n \in S
  <2>. HIDE DEF S
  <2>1. \A m \in 1 .. n : m \in S
    BY <1>1, <1>6, <1>7, Steps
  <2>. QED
    BY <2>1
<1>. QED
  BY <1>8

\* The sum of some of the vectors is an integer.
LEMMA TotalsAre ==
    ASSUME NEW vectors \in Seq(Int), NEW own \in SUBSET DOMAIN vectors
    PROVE  Totals(vectors, own)[Len(vectors)] \in Int
<1> DEFINE b == Len(vectors)
           Plus(x, n) == x + IF n \in own THEN vectors[n] ELSE 0
           step == [n \in 0 .. b |-> [x \in Int |-> Plus(x, n)]]
           Is(f) == f = [n \in 0 .. b |-> IF n = 0 THEN 0 ELSE Plus(f[n - 1], n)]
<1>1. b \in Nat /\ 0 \in Nat /\ 0 \in Int
  OBVIOUS
<1>2. \A n \in 0 .. b, x \in Int : Plus(x, n) \in Int
  OBVIOUS
<1>3. \E f \in [0 .. b -> Int] : Is(f)
  <2>1. step \in [0 .. b -> [Int -> Int]]
    <3>. HIDE DEF Plus, b
    <3>. QED
      BY <1>2
  <2>2. PICK f \in [0 .. b -> Int] : Follows(f, 0, b, 0, step)
    <3>. HIDE DEF step, b
    <3>. QED
      BY <1>1, <2>1, Iterated
  <2>3. \A n \in 0 .. b : f[n] = IF n = 0 THEN 0 ELSE step[n][f[n - 1]]
    <3>. HIDE DEF step, b
    <3>. QED
      BY <2>2 DEF Follows
  <2>4. \A n \in 0 .. b : f[n] = IF n = 0 THEN 0 ELSE Plus(f[n - 1], n)
    <3> SUFFICES ASSUME NEW n \in 0 .. b PROVE f[n] = IF n = 0 THEN 0 ELSE Plus(f[n - 1], n)
      OBVIOUS
    <3>1. n # 0 => f[n - 1] \in Int
      <4>1. n # 0 => n - 1 \in 0 .. b
        OBVIOUS
      <4>. QED
        BY <4>1
    <3>2. n # 0 => step[n][f[n - 1]] = Plus(f[n - 1], n)
      <4>. HIDE DEF Plus, b
      <4>. QED
        BY <3>1
    <3>. HIDE DEF step, Plus
    <3>. QED
      BY <2>3, <3>2
  <2>. HIDE DEF Plus, b
  <2>. QED
    BY <2>4
<1>4. Totals(vectors, own) \in [0 .. b -> Int]
  <2> DEFINE Q(f) == f = [n \in 0 .. Len(vectors) |->
                              IF n = 0 THEN 0 ELSE f[n - 1] + IF n \in own THEN vectors[n] ELSE 0]
  <2>1. Totals(vectors, own) = CHOOSE f : Q(f)
    BY Zenon DEF Totals
  <2>2. \A f : Is(f) = Q(f)
    OBVIOUS
  <2>3. Is(Totals(vectors, own))
    <3>. HIDE DEF Is, Q
    <3>. QED
      BY <1>3, <2>1, <2>2
  <2> DEFINE t == Totals(vectors, own)
             S == {n \in 0 .. b : t[n] \in Int}
  <2>4. t[0] = 0 /\ \A n \in 0 .. b : n # 0 => t[n] = Plus(t[n - 1], n)
    <3>1. Is(t)
      BY <2>3
    <3>. HIDE DEF t, Plus, b
    <3>2. \A n \in 0 .. b : t[n] = IF n = 0 THEN 0 ELSE Plus(t[n - 1], n)
      BY <3>1
    <3>. QED
      BY <1>1, <3>2
  <2>5. \A n \in 0 .. b : n \in S /\ n < b => n + 1 \in S
    <3> SUFFICES ASSUME NEW n \in 0 .. b, n \in S, n < b PROVE n + 1 \in S
      OBVIOUS
    <3>1. n + 1 \in 0 .. b /\ n + 1 # 0 /\ n + 1 - 1 = n
      OBVIOUS
    <3>2. t[n + 1] = Plus(t[n], n + 1)
      <4>. HIDE DEF t, Plus, b
      <4>. QED
        BY <2>4, <3>1
    <3>. HIDE DEF t, Plus, b
    <3>. QED
      BY <1>2, <3>1, <3>2
  <2>6. \A n \in 0 .. b : n \in S
    <3>1. 0 \in S
      <4>. HIDE DEF t
      <4>. QED
        BY <1>1, <2>4
    <3>. HIDE DEF S, b
    <3>. QED
      BY <1>1, <2>5, <3>1, Steps
  <2>7. t = [n \in 0 .. b |-> t[n]]
    <3>1. Is(t)
      BY <2>3
    <3>. HIDE DEF t, Plus, b
    <3>. QED
      BY <3>1
  <2>. HIDE DEF t, b
  <2>. QED
    BY <2>6, <2>7 DEF t
<1>. QED
  BY <1>1, <1>4

\* Any centroids are moved to as many.
LEMMA AveragesAre ==
    ASSUME NEW vectors \in Seq(Int), NEW cs \in Seq(Int), NEW assigned
    PROVE  Averages(vectors, cs, assigned) \in Seq(Int) /\ Len(Averages(vectors, cs, assigned)) = Len(cs)
<1> DEFINE Own(c) == {i \in DOMAIN vectors : assigned[i] = c}
           Average(c) == IF Own(c) = {} THEN cs[c]
                         ELSE Totals(vectors, Own(c))[Len(vectors)] \div Cardinality(Own(c))
<1>1. \A c \in 1 .. Len(cs) : Average(c) \in Int
  <2> SUFFICES ASSUME NEW c \in 1 .. Len(cs) PROVE Average(c) \in Int
    OBVIOUS
  <2>1. CASE Own(c) = {}
    BY <2>1
  <2>2. CASE Own(c) # {}
    <3>1. Totals(vectors, Own(c))[Len(vectors)] \in Int
      BY TotalsAre
    <3>2. IsFiniteSet(1 .. Len(vectors)) /\ Own(c) \in SUBSET (1 .. Len(vectors))
      BY FS_Interval
    <3>3. IsFiniteSet(Own(c))
      <4>. HIDE DEF Own
      <4>. QED
        BY <3>2, FS_Subset
    <3>4. Cardinality(Own(c)) \in Nat \ {0}
      <4>. HIDE DEF Own
      <4>. QED
        BY <2>2, <3>3, FS_CardinalityType, FS_EmptySet
    <3>. HIDE DEF Own
    <3>. QED
      BY <2>2, <3>1, <3>4
  <2>. QED
    BY <2>1, <2>2
<1>2. DOMAIN cs = 1 .. Len(cs) /\ Len(cs) \in Nat
  OBVIOUS
<1>3. Averages(vectors, cs, assigned) = [c \in 1 .. Len(cs) |-> Average(c)]
  BY <1>2 DEF Averages
<1>. HIDE DEF Average
<1>. QED
  BY <1>1, <1>2, <1>3

\* K-means has as many centroids as it is asked for, or one for each vector.
LEMMA KmeansAre ==
    ASSUME metric \in Metrics, NEW vectors \in Seq(Int), Len(vectors) # 0
    PROVE  /\ TrainKmeans(vectors) \in Seq(Int)
           /\ Len(TrainKmeans(vectors)) = Least(NCentroids, Len(vectors))
<1> DEFINE k == Least(NCentroids, Len(vectors))
           cs == Seeds(vectors, k)[k]
           V == [centroids : {c \in Seq(Int) : Len(c) = k}, assigned : [DOMAIN vectors -> Nat]]
           b == MaxIterations
           start == [centroids |-> cs, assigned |-> [i \in DOMAIN vectors |-> 1]]
           step == [n \in 0 .. b |-> [x \in V |-> Iteration(vectors, x)]]
           Is(f) == f = [n \in 0 .. b |-> IF n = 0 THEN start ELSE Iteration(vectors, f[n - 1])]
<1>1. k \in 1 .. Len(vectors) /\ b \in Nat /\ 0 \in Nat
  BY IvfAssumption DEF Least
<1>2. start \in V
  <2>1. cs \in Seq(Int) /\ Len(cs) = k
    <3>. HIDE DEF k
    <3>. QED
      BY <1>1, SeedsAre
  <2>. HIDE DEF cs, k
  <2>. QED
    BY <2>1
<1>3. \A x \in V : Iteration(vectors, x) \in V
  <2> SUFFICES ASSUME NEW x \in V PROVE Iteration(vectors, x) \in V
    OBVIOUS
  <2> DEFINE assigned == [i \in DOMAIN vectors |-> Nearest(x.centroids, vectors[i])]
  <2>1. x.centroids \in Seq(Int) /\ Len(x.centroids) = k /\ k # 0
    BY <1>1
  <2>2. \A i \in DOMAIN vectors : Nearest(x.centroids, vectors[i]) \in Nat
    <3> SUFFICES ASSUME NEW i \in DOMAIN vectors PROVE Nearest(x.centroids, vectors[i]) \in Nat
      OBVIOUS
    <3>1. vectors[i] \in Int
      OBVIOUS
    <3>2. Nearest(x.centroids, vectors[i]) \in 1 .. Len(x.centroids)
      <4>. HIDE DEF k, V
      <4>. QED
        BY <2>1, <3>1, NearestIs, NearestSame
    <3>. QED
      BY <2>1, <3>2
  <2>3. Averages(vectors, x.centroids, assigned) \in Seq(Int)
        /\ Len(Averages(vectors, x.centroids, assigned)) = k
    <3>. HIDE DEF k, V, assigned
    <3>. QED
      BY <2>1, AveragesAre
  <2>4. Iteration(vectors, x) = IF assigned = x.assigned THEN x
            ELSE [centroids |-> Averages(vectors, x.centroids, assigned), assigned |-> assigned]
    BY DEF Iteration
  <2>5. assigned \in [DOMAIN vectors -> Nat]
    BY <2>2
  <2>. HIDE DEF k, assigned
  <2>. QED
    BY <2>3, <2>4, <2>5
<1>. HIDE DEF k, cs, V, start, b
<1>4. \E f : Is(f)
  <2>1. step \in [0 .. b -> [V -> V]]
    BY <1>3
  <2>2. PICK f \in [0 .. b -> V] : Follows(f, 0, b, start, step)
    <3>. HIDE DEF step
    <3>. QED
      BY <1>1, <1>2, <2>1, Iterated
  <2>3. \A n \in 0 .. b : f[n] = IF n = 0 THEN start ELSE step[n][f[n - 1]]
    <3>. HIDE DEF step
    <3>. QED
      BY <2>2 DEF Follows
  <2>4. \A n \in 0 .. b : f[n] = IF n = 0 THEN start ELSE Iteration(vectors, f[n - 1])
    <3> SUFFICES ASSUME NEW n \in 0 .. b
                 PROVE  f[n] = IF n = 0 THEN start ELSE Iteration(vectors, f[n - 1])
      OBVIOUS
    <3>1. n # 0 => f[n - 1] \in V
      <4>1. n # 0 => n - 1 \in 0 .. b
        BY <1>1
      <4>. QED
        BY <4>1
    <3>2. n # 0 => step[n][f[n - 1]] = Iteration(vectors, f[n - 1])
      BY <3>1
    <3>. HIDE DEF step
    <3>. QED
      BY <2>3, <3>2
  <2>. QED
    BY <2>4
<1>5. Is(Lloyd(vectors, cs))
  <2>1. Lloyd(vectors, cs) = CHOOSE f : Is(f)
    BY Zenon DEF Lloyd, start, b
  <2>. HIDE DEF Is
  <2>. QED
    BY <1>4, <2>1
<1> DEFINE r == Lloyd(vectors, cs)
           S == {n \in 0 .. b : r[n] \in V}
<1>6. r[0] = start /\ \A n \in 0 .. b : n # 0 => r[n] = Iteration(vectors, r[n - 1])
  <2>1. Is(r)
    BY <1>5
  <2>. HIDE DEF r
  <2>2. \A n \in 0 .. b : r[n] = IF n = 0 THEN start ELSE Iteration(vectors, r[n - 1])
    BY <2>1
  <2>. QED
    BY <1>1, <2>2
<1>7. \A n \in 0 .. b : n \in S
  <2>1. 0 \in S
    <3>. HIDE DEF r
    <3>. QED
      BY <1>1, <1>2, <1>6
  <2>2. ASSUME NEW n \in 0 .. b, n \in S, n < b
        PROVE  n + 1 \in S
    <3>1. n + 1 \in 0 .. b /\ n + 1 # 0 /\ n + 1 - 1 = n
      BY <1>1, <2>2
    <3>. HIDE DEF r
    <3>2. r[n + 1] = Iteration(vectors, r[n])
      BY <1>6, <3>1
    <3>. QED
      BY <1>3, <2>2, <3>1, <3>2
  <2>. HIDE DEF S
  <2>. QED
    BY <1>1, <2>1, <2>2, Steps
<1>8. r[b] \in V
  BY <1>1, <1>7
<1>9. TrainKmeans(vectors) = r[b].centroids
  BY DEF TrainKmeans, k, cs, b
<1>. HIDE DEF r
<1>. QED
  BY <1>8, <1>9 DEF V, k

-----------------------------------------------------------------------------
(* The lists: what an insertion or a deletion does to the entries.         *)

EntryAt(held, id) == held.postings[held.map[id][1]][held.map[id][2]]

\* Every entry is where the map says, and the map knows of nothing else.
Linked(held) ==
    /\ \A c \in Lists : \A i \in DOMAIN held.postings[c] : held.map[held.postings[c][i].id] = <<c, i>>
    /\ \A id \in Ids : held.map[id] # None =>
           held.map[id][2] \in DOMAIN held.postings[held.map[id][1]] /\ EntryAt(held, id).id = id

\* The entry of one document is changed, or made, and no other.
Changed(held, new, id, e) ==
    /\ new \in AllContents /\ Linked(new)
    /\ new.map[id] # None /\ EntryAt(new, id) = e
    /\ held.map[id] # None => new.map[id] = held.map[id]
    /\ \A x \in Ids \ {id} : new.map[x] = held.map[x]
                             /\ (held.map[x] # None => EntryAt(new, x) = EntryAt(held, x))

\* What the parts of the contents are: lists of entries, and a map that points at
\* a list and a position or nowhere.
LEMMA ContentsParts ==
    ASSUME NEW held \in AllContents
    PROVE  /\ held.postings \in [Lists -> Seq(ListEntries)]
           /\ held.map \in [Ids -> (Lists \X (Nat \ {0})) \cup {None}]
           /\ held.count \in Nat
           /\ held = [postings |-> held.postings, map |-> held.map, count |-> held.count]
           /\ Lists \subseteq Nat
           /\ \A c \in Lists : /\ held.postings[c] \in Seq(ListEntries)
                               /\ DOMAIN held.postings[c] = 1 .. Len(held.postings[c])
                               /\ Len(held.postings[c]) \in Nat
                               /\ \A i \in DOMAIN held.postings[c] : held.postings[c][i] \in ListEntries
           /\ \A c \in Lists, i \in Nat : <<c, i>> # None
           /\ \A id \in Ids : held.map[id] # None =>
                  /\ held.map[id] = <<held.map[id][1], held.map[id][2]>>
                  /\ held.map[id][1] \in Lists /\ held.map[id][2] \in Nat \ {0}
<1>. HIDE DEF ListEntries
<1>1. Lists \subseteq Nat
  BY IvfAssumption DEF Lists
<1>2. \A c \in Lists, i \in Nat : <<c, i>> # None
  <2>1. None \notin Nat \X Nat
    BY IvfAssumption
  <2>. QED
    BY <1>1, <2>1
<1>3. /\ held.postings \in [Lists -> Seq(ListEntries)]
      /\ held.map \in [Ids -> (Lists \X (Nat \ {0})) \cup {None}]
      /\ held.count \in Nat
      /\ held = [postings |-> held.postings, map |-> held.map, count |-> held.count]
  BY DEF AllContents
<1>4. \A c \in Lists : held.postings[c] \in Seq(ListEntries)
  BY <1>3
<1>5. \A id \in Ids : held.map[id] # None => held.map[id] \in Lists \X (Nat \ {0})
  BY <1>3
<1>6. \A id \in Ids : held.map[id] # None =>
                  /\ held.map[id] = <<held.map[id][1], held.map[id][2]>>
                  /\ held.map[id][1] \in Lists /\ held.map[id][2] \in Nat \ {0}
  BY <1>5
<1>7. \A c \in Lists : /\ DOMAIN held.postings[c] = 1 .. Len(held.postings[c])
                       /\ Len(held.postings[c]) \in Nat
                       /\ \A i \in DOMAIN held.postings[c] : held.postings[c][i] \in ListEntries
  BY <1>4
<1>. QED
  BY <1>1, <1>2, <1>3, <1>4, <1>6, <1>7

\* An entry is written over.
LEMMA Replaced ==
    ASSUME NEW held \in AllContents, Linked(held), NEW id \in Ids, held.map[id] # None,
           NEW e \in ListEntries, e.id = id, NEW n \in Nat
    PROVE  Changed(held, [postings |-> [held.postings EXCEPT ![held.map[id][1]] =
                                           [held.postings[held.map[id][1]] EXCEPT ![held.map[id][2]] = e]],
                          map |-> held.map, count |-> n], id, e)
<1>. HIDE DEF ListEntries
<1> DEFINE c == held.map[id][1]
           i == held.map[id][2]
           list == [held.postings[c] EXCEPT ![i] = e]
           new == [postings |-> [held.postings EXCEPT ![c] = list], map |-> held.map, count |-> n]
<1>1. c \in Lists /\ i \in DOMAIN held.postings[c] /\ held.map[id] = <<c, i>>
  BY ContentsParts DEF Linked
<1>. HIDE DEF c, i
<1>2. /\ list \in Seq(ListEntries) /\ DOMAIN list = DOMAIN held.postings[c] /\ list[i] = e
      /\ \A j \in DOMAIN list : j # i => list[j] = held.postings[c][j]
  <2>1. held.postings[c] \in Seq(ListEntries) /\ i \in 1 .. Len(held.postings[c])
    BY <1>1, ContentsParts
  <2>. QED
    BY <1>1, <2>1
<1>. HIDE DEF list
<1>3. /\ new.map = held.map /\ new.count = n
      /\ new.postings[c] = list /\ \A d \in Lists : d # c => new.postings[d] = held.postings[d]
  BY <1>1, ContentsParts
<1>4. new \in AllContents
  <2>1. [held.postings EXCEPT ![c] = list] \in [Lists -> Seq(ListEntries)]
    BY <1>1, <1>2, ContentsParts
  <2>. QED
    BY <2>1, ContentsParts DEF AllContents
<1>. HIDE DEF new
<1>5. EntryAt(new, id) = e
  BY <1>1, <1>2, <1>3 DEF EntryAt
<1>6. ASSUME NEW x \in Ids \ {id}, held.map[x] # None
      PROVE  /\ held.map[x][2] \in DOMAIN new.postings[held.map[x][1]]
             /\ EntryAt(new, x) = EntryAt(held, x)
  <2>1. held.map[x][1] \in Lists /\ held.map[x] = <<held.map[x][1], held.map[x][2]>>
    BY <1>6, ContentsParts
  <2>2. held.map[x][2] \in DOMAIN held.postings[held.map[x][1]] /\ EntryAt(held, x).id = x
    BY <1>6 DEF Linked
  <2>3. held.map[x] # <<c, i>>
    <3>1. EntryAt(held, id).id = id
      BY DEF Linked
    <3>. QED
      BY <1>1, <2>2, <3>1 DEF EntryAt
  <2>4. CASE held.map[x][1] = c
    BY <1>2, <1>3, <2>1, <2>2, <2>3, <2>4 DEF EntryAt
  <2>5. CASE held.map[x][1] # c
    BY <1>3, <2>1, <2>2, <2>5 DEF EntryAt
  <2>. QED
    BY <2>4, <2>5
<1>7. Linked(new)
  <2>1. ASSUME NEW d \in Lists, NEW j \in DOMAIN new.postings[d]
        PROVE  new.map[new.postings[d][j].id] = <<d, j>>
    <3>1. CASE d = c /\ j = i
      BY <1>1, <1>2, <1>3, <3>1
    <3>2. CASE ~ (d = c /\ j = i)
      <4>1. j \in DOMAIN held.postings[d] /\ new.postings[d][j] = held.postings[d][j]
        BY <1>2, <1>3, <2>1, <3>2
      <4>. QED
        BY <1>3, <4>1 DEF Linked
    <3>. QED
      BY <3>1, <3>2
  <2>2. ASSUME NEW x \in Ids, new.map[x] # None
        PROVE  new.map[x][2] \in DOMAIN new.postings[new.map[x][1]] /\ EntryAt(new, x).id = x
    <3>1. CASE x = id
      BY <1>1, <1>2, <1>3, <1>5, <3>1
    <3>2. CASE x # id
      <4>1. x \in Ids \ {id} /\ held.map[x] # None
        BY <1>3, <2>2, <3>2
      <4>. QED
        BY <1>3, <1>6, <4>1 DEF Linked
    <3>. QED
      BY <3>1, <3>2
  <2>. QED
    BY <2>1, <2>2 DEF Linked
<1>8. Changed(held, new, id, e)
  BY <1>3, <1>4, <1>5, <1>6, <1>7 DEF Changed
<1>. QED
  BY <1>8 DEF new, list, c, i

\* An entry is added at the end of a list.
LEMMA Added ==
    ASSUME NEW held \in AllContents, Linked(held), NEW id \in Ids, held.map[id] = None,
           NEW e \in ListEntries, e.id = id, NEW n \in Nat, NEW c \in Lists
    PROVE  Changed(held, [postings |-> [held.postings EXCEPT ![c] = Append(held.postings[c], e)],
                          map |-> [held.map EXCEPT ![id] = <<c, Len(held.postings[c]) + 1>>],
                          count |-> n], id, e)
<1>. HIDE DEF ListEntries
<1> DEFINE i == Len(held.postings[c]) + 1
           list == Append(held.postings[c], e)
           new == [postings |-> [held.postings EXCEPT ![c] = list],
                   map |-> [held.map EXCEPT ![id] = <<c, i>>], count |-> n]
<1>1. i \in Nat \ {0} /\ i \notin DOMAIN held.postings[c]
  BY ContentsParts
<1>2. /\ list \in Seq(ListEntries) /\ DOMAIN list = DOMAIN held.postings[c] \cup {i} /\ list[i] = e
      /\ \A j \in DOMAIN held.postings[c] : list[j] = held.postings[c][j]
  <2>1. held.postings[c] \in Seq(ListEntries)
    BY ContentsParts
  <2>. QED
    BY <2>1
<1>. HIDE DEF list, i
<1>3. /\ new.map[id] = <<c, i>> /\ \A x \in Ids : x # id => new.map[x] = held.map[x]
      /\ new.postings[c] = list /\ \A d \in Lists : d # c => new.postings[d] = held.postings[d]
  BY ContentsParts
<1>4. new \in AllContents
  <2>1. [held.postings EXCEPT ![c] = list] \in [Lists -> Seq(ListEntries)]
    BY <1>2, ContentsParts
  <2>2. <<c, i>> \in Lists \X (Nat \ {0})
    BY <1>1
  <2>3. [held.map EXCEPT ![id] = <<c, i>>] \in [Ids -> (Lists \X (Nat \ {0})) \cup {None}]
    BY <2>2, ContentsParts
  <2>. QED
    BY <2>1, <2>3 DEF AllContents
<1>5. <<c, i>> # None
  BY <1>1, ContentsParts
<1>. HIDE DEF new
<1>6. EntryAt(new, id) = e
  BY <1>2, <1>3 DEF EntryAt
<1>7. ASSUME NEW x \in Ids \ {id}, held.map[x] # None
      PROVE  /\ held.map[x][2] \in DOMAIN new.postings[held.map[x][1]]
             /\ EntryAt(new, x) = EntryAt(held, x)
  <2>1. held.map[x][1] \in Lists /\ held.map[x][2] \in DOMAIN held.postings[held.map[x][1]]
    BY <1>7, ContentsParts DEF Linked
  <2>2. CASE held.map[x][1] = c
    BY <1>2, <1>3, <2>1, <2>2 DEF EntryAt
  <2>3. CASE held.map[x][1] # c
    BY <1>3, <2>1, <2>3 DEF EntryAt
  <2>. QED
    BY <2>2, <2>3
<1>8. Linked(new)
  <2>1. ASSUME NEW d \in Lists, NEW j \in DOMAIN new.postings[d]
        PROVE  new.map[new.postings[d][j].id] = <<d, j>>
    <3>1. CASE d = c /\ j = i
      BY <1>2, <1>3, <3>1
    <3>2. CASE ~ (d = c /\ j = i)
      <4>1. j \in DOMAIN held.postings[d] /\ new.postings[d][j] = held.postings[d][j]
        BY <1>2, <1>3, <2>1, <3>2
      <4>2. held.map[held.postings[d][j].id] = <<d, j>> /\ held.postings[d][j].id \in Ids /\ <<d, j>> # None
        <5>1. held.map[held.postings[d][j].id] = <<d, j>>
          BY <4>1 DEF Linked
        <5>2. held.postings[d][j] \in ListEntries /\ j \in Nat
          BY <4>1, ContentsParts
        <5>3. held.postings[d][j].id \in Ids
          BY <5>2 DEF ListEntries
        <5>4. <<d, j>> # None
          BY <5>2, ContentsParts
        <5>. QED
          BY <5>1, <5>3, <5>4
      <4>3. held.postings[d][j].id # id
        BY <4>2
      <4>. QED
        BY <1>3, <4>1, <4>2, <4>3
    <3>. QED
      BY <3>1, <3>2
  <2>2. ASSUME NEW x \in Ids, new.map[x] # None
        PROVE  new.map[x][2] \in DOMAIN new.postings[new.map[x][1]] /\ EntryAt(new, x).id = x
    <3>1. CASE x = id
      BY <1>2, <1>3, <1>6, <3>1
    <3>2. CASE x # id
      <4>1. x \in Ids \ {id} /\ held.map[x] # None /\ new.map[x] = held.map[x]
        BY <1>3, <2>2, <3>2
      <4>. QED
        BY <1>7, <4>1 DEF Linked
    <3>. QED
      BY <3>1, <3>2
  <2>. QED
    BY <2>1, <2>2 DEF Linked
<1>9. Changed(held, new, id, e)
  BY <1>3, <1>4, <1>5, <1>6, <1>7, <1>8 DEF Changed
<1>. QED
  BY <1>9 DEF new, list, i

-----------------------------------------------------------------------------
(* Quantisation and insertion.                                             *)

\* The quotient of a division rounded down, and its remainder.
LEMMA Division ==
    ASSUME NEW a \in Nat, NEW b \in Nat \ {0}
    PROVE  a \div b \in Nat /\ b * (a \div b) <= a /\ a < b * (a \div b) + b
OBVIOUS

\* The level of a value in the range stands for it up to half a step.
LEMMA QuantizeIs ==
    ASSUME NEW qz \in Quantizers, qz.min <= qz.max, NEW v \in Int
    PROVE  /\ Quantize(qz, v) \in 0 .. Levels
           /\ v \in qz.min .. qz.max =>
                /\ 2 * (Dequantized(qz, Quantize(qz, v)) - v * Levels) <= Extent(qz)
                /\ 2 * (v * Levels - Dequantized(qz, Quantize(qz, v))) <= Extent(qz)
<1> DEFINE E == Extent(qz)
           x == v - qz.min
           q == Quantize(qz, v)
<1>1. /\ qz.min \in Int /\ qz.max \in Int /\ E \in Nat /\ x \in Int /\ Levels \in Nat \ {0}
      /\ v = qz.min + x /\ (v \in qz.min .. qz.max <=> x \in 0 .. E)
      /\ (v <= qz.min <=> x <= 0)
  BY IvfAssumption DEF Quantizers, Extent
<1>2. q = IF E = 0 \/ x <= 0 THEN 0 ELSE Least(Levels, (2 * x * Levels + E) \div (2 * E))
  BY <1>1 DEF Quantize, Extent
<1>3. Dequantized(qz, q) - v * Levels = q * E - x * Levels \/ q \notin Int
  <2>1. v * Levels = qz.min * Levels + x * Levels /\ x * Levels \in Int /\ qz.min * Levels \in Int
    BY <1>1
  <2>2. Dequantized(qz, q) = qz.min * Levels + q * E
    BY DEF Dequantized, Extent
  <2>3. q \in Int => q * E \in Int
    BY <1>1
  <2>. HIDE DEF q, E, x
  <2>. QED
    BY <2>1, <2>2, <2>3
<1>. HIDE DEF E, x, q
<1>4. CASE E = 0 \/ x <= 0
  <2>1. q = 0 /\ (x \in 0 .. E => x = 0)
    BY <1>1, <1>2, <1>4
  <2>2. x \in 0 .. E => Dequantized(qz, q) - v * Levels = 0
    BY <1>1, <1>3, <2>1
  <2>3. x \in 0 .. E => Dequantized(qz, q) = v * Levels \/ Dequantized(qz, q) \notin Int
    BY <1>1, <2>2
  <2>4. Dequantized(qz, q) \in Int /\ v * Levels \in Int
    BY <1>1, <2>1 DEF Dequantized, E
  <2>. QED
    BY <1>1, <2>1, <2>3, <2>4 DEF q, E
<1>5. CASE E # 0 /\ ~ (x <= 0)
  <2> DEFINE p == x * Levels
             d == (2 * p + E) \div (2 * E)
  <2>1. p \in Nat /\ 2 * x * Levels = 2 * p
    BY <1>1, <1>5
  <2>2. 2 * p + E \in Nat /\ 2 * E \in Nat \ {0}
    BY <1>1, <1>5, <2>1
  <2>3. q = Least(Levels, d)
    BY <1>2, <1>5, <2>1
  <2>. HIDE DEF p, d
  <2>4. d \in Nat /\ (2 * E) * d <= 2 * p + E /\ 2 * p + E < (2 * E) * d + 2 * E
    BY <2>2, Division DEF d
  <2>5. q \in 0 .. Levels
    BY <1>1, <2>3, <2>4 DEF Least
  <2>6. CASE x \in 0 .. E
    <3>1. p <= E * Levels /\ E * Levels \in Nat
      BY <1>1, <2>6 DEF p
    <3>2. d <= Levels
      <4>1. SUFFICES ASSUME d >= Levels + 1 PROVE FALSE
        BY <1>1, <2>4
      <4>2. (2 * E) * d >= (2 * E) * (Levels + 1)
        BY <1>1, <2>2, <2>4, <4>1
      <4>3. (2 * E) * (Levels + 1) = 2 * (E * Levels) + 2 * E
        BY <1>1
      <4>. QED
        BY <1>1, <1>5, <2>1, <2>4, <3>1, <4>2, <4>3
    <3>3. q = d
      BY <1>1, <2>3, <2>4, <3>2 DEF Least
    <3>4. (2 * E) * d = 2 * (d * E) /\ d * E \in Nat
      BY <1>1, <2>4
    <3>5. Dequantized(qz, q) - v * Levels = d * E - p
      BY <1>3, <2>4, <3>3 DEF p
    <3>6. 2 * (d * E - p) <= E /\ 2 * (p - d * E) <= E
      BY <1>1, <2>1, <2>4, <3>4
    <3>7. Dequantized(qz, q) \in Int /\ v * Levels \in Int
      BY <1>1, <2>5 DEF Dequantized, E
    <3>8. v * Levels - Dequantized(qz, q) = p - d * E
      BY <2>1, <3>4, <3>5, <3>7
    <3>. QED
      BY <2>5, <3>5, <3>6, <3>8 DEF q, E
  <2>. QED
    BY <1>1, <2>5, <2>6 DEF q
<1>. QED
  BY <1>4, <1>5

\* What is kept of a vector.
NewEntry(qz, id, v) == [id |-> id, q |-> Quantize(qz, v), norm |-> Absolute(v), deleted |-> FALSE]

\* A new entry is live and has a level of the quantizer.
LEMMA NewEntryIs ==
    ASSUME NEW qz \in Quantizers, qz.min <= qz.max, NEW id \in Ids, NEW v \in Int
    PROVE  NewEntry(qz, id, v) \in ListEntries /\ NewEntry(qz, id, v).id = id /\ ~NewEntry(qz, id, v).deleted
<1>1. Absolute(v) \in Nat
  BY DEF Absolute
<1>. QED
  BY <1>1, QuantizeIs DEF NewEntry, ListEntries

\* insert_quantized changes what the contents hold of one document only; a new
\* document goes to the list of the nearest centroid, and is counted, as is one
\* that had been deleted.
LEMMA InsertQuantizedIs ==
    ASSUME metric \in Metrics, NEW held \in AllContents, Linked(held),
           NEW qz \in Quantizers, qz.min <= qz.max, NEW cs \in Seq(Int), Len(cs) = NCentroids,
           NEW id \in Ids, NEW v \in Int
    PROVE  LET new == InsertQuantized(held, qz, cs, id, v)
           IN  /\ Changed(held, new, id, NewEntry(qz, id, v))
               /\ held.map[id] = None => new.map[id][1] = NearestBy(metric, cs, v)
               /\ new.count = IF held.map[id] # None /\ ~EntryAt(held, id).deleted
                              THEN held.count ELSE held.count + 1
<1> DEFINE e == NewEntry(qz, id, v)
           at == held.map[id]
           c == NearestBy(metric, cs, v)
           new == InsertQuantized(held, qz, cs, id, v)
           n == IF held.postings[at[1]][at[2]].deleted THEN held.count + 1 ELSE held.count
           over == [held.postings EXCEPT ![at[1]] = [held.postings[at[1]] EXCEPT ![at[2]] = e]]
           more == [held.postings EXCEPT ![c] = Append(held.postings[c], e)]
           pointed == [held.map EXCEPT ![id] = <<c, Len(held.postings[c]) + 1>>]
<1>1. held.count \in Nat
      /\ held = [postings |-> held.postings, map |-> held.map, count |-> held.count]
  BY ContentsParts
<1>2. c \in Lists
  <2>1. Len(cs) # 0
    BY IvfAssumption
  <2>. QED
    BY <2>1, NearestIs DEF Lists
<1>3. e \in ListEntries /\ e.id = id
  BY NewEntryIs
<1>4. CASE at # None
  <2>1. new = [held EXCEPT !.postings = over, !.count = n]
    BY <1>4, NearestSame DEF InsertQuantized, NewEntry
  <2>2. new = [postings |-> over, map |-> held.map, count |-> n]
    <3>. HIDE DEF over, n, new
    <3>. QED
      BY <1>1, <2>1
  <2>3. n \in Nat
    BY <1>1
  <2>4. Changed(held, new, id, e)
    <3>. HIDE DEF n, new, e
    <3>. QED
      BY <1>3, <1>4, <2>2, <2>3, Replaced
  <2>5. new.count = n
    <3>. HIDE DEF over, new, n
    <3>. QED
      BY <2>2
  <2>6. n = IF ~EntryAt(held, id).deleted THEN held.count ELSE held.count + 1
    BY DEF EntryAt
  <2>. HIDE DEF over, new, e, n
  <2>. QED
    BY <1>4, <2>4, <2>5, <2>6 DEF new, e
<1>5. CASE at = None
  <2>1. new = [postings |-> more, map |-> pointed, count |-> held.count + 1]
    BY <1>5, NearestSame DEF InsertQuantized, NewEntry
  <2>2. held.count + 1 \in Nat
    BY <1>1
  <2>3. Changed(held, new, id, e)
    <3>. HIDE DEF c, new, e
    <3>. QED
      BY <1>2, <1>3, <1>5, <2>1, <2>2, Added
  <2>4. new.map[id][1] = c /\ new.count = held.count + 1
    <3>1. new.map = pointed /\ new.count = held.count + 1
      <4>. HIDE DEF more, pointed, new
      <4>. QED
        BY <2>1
    <3>2. pointed[id] = <<c, Len(held.postings[c]) + 1>>
      <4>. HIDE DEF c
      <4>. QED
        BY ContentsParts
    <3>. HIDE DEF c, pointed, new
    <3>. QED
      BY <3>1, <3>2
  <2>. HIDE DEF new, e, c
  <2>. QED
    BY <1>5, <2>3, <2>4 DEF new, e, c
<1>. QED
  BY <1>4, <1>5

\* What the entries of a cache are.
LEMMA EntriesAre ==
    ASSUME NEW entries \in Seq(CacheEntries)
    PROVE  /\ DOMAIN entries = 1 .. Len(entries) /\ Len(entries) \in Nat
           /\ \A i \in DOMAIN entries : entries[i] \in CacheEntries
                                        /\ entries[i].id \in Ids /\ entries[i].vector \in Int
<1>1. DOMAIN entries = 1 .. Len(entries) /\ Len(entries) \in Nat
      /\ \A i \in DOMAIN entries : entries[i] \in CacheEntries
  OBVIOUS
<1>2. \A e \in CacheEntries : e.id \in Ids /\ e.vector \in Int
  BY DEF CacheEntries
<1>. QED
  BY <1>1, <1>2

Distinct(entries) == \A i, j \in DOMAIN entries : entries[i].id = entries[j].id => i = j

\* The ids of the first n entries.
FirstIds(entries, n) == {entries[i].id : i \in 1 .. n}

\* No other of the first n entries comes after this one, or before it, with its id.
LastAmong(entries, i, n) == \A j \in i + 1 .. n : entries[j].id # entries[i].id
FirstAmong(entries, i) == \A j \in 1 .. i - 1 : entries[j].id # entries[i].id

\* The lists have the first n of the entries and no others: the last of those with
\* one id, where the first of them belongs.
HasFirst(held, base, qz, cs, entries, n) ==
    /\ held \in AllContents /\ Linked(held) /\ held.count = base + Cardinality(FirstIds(entries, n))
    /\ \A i \in 1 .. n :
          /\ held.map[entries[i].id] # None /\ ~EntryAt(held, entries[i].id).deleted
          /\ LastAmong(entries, i, n) =>
                EntryAt(held, entries[i].id) = NewEntry(qz, entries[i].id, entries[i].vector)
          /\ FirstAmong(entries, i) =>
                held.map[entries[i].id][1] = NearestBy(metric, cs, entries[i].vector)
    /\ \A x \in Ids : held.map[x] # None => \E i \in 1 .. n : entries[i].id = x

\* The ids of one more entry.
LEMMA OneMoreId ==
    ASSUME NEW entries \in Seq(CacheEntries), NEW n \in Nat, n + 1 \in DOMAIN entries
    PROVE  /\ FirstIds(entries, n + 1) = FirstIds(entries, n) \cup {entries[n + 1].id}
           /\ Cardinality(FirstIds(entries, n)) \in Nat
           /\ Cardinality(FirstIds(entries, n + 1)) =
                 IF entries[n + 1].id \in FirstIds(entries, n) THEN Cardinality(FirstIds(entries, n))
                 ELSE Cardinality(FirstIds(entries, n)) + 1
<1>1. \A i \in 1 .. n + 1 : i \in DOMAIN entries /\ entries[i].id \in Ids
  BY EntriesAre
<1>2. FirstIds(entries, n + 1) = FirstIds(entries, n) \cup {entries[n + 1].id}
  <2>1. 1 .. n + 1 = (1 .. n) \cup {n + 1}
    OBVIOUS
  <2>. QED
    BY <2>1 DEF FirstIds
<1>3. FirstIds(entries, n) \subseteq Ids
  BY <1>1 DEF FirstIds
<1>4. IsFiniteSet(FirstIds(entries, n)) /\ Cardinality(FirstIds(entries, n)) \in Nat
  BY <1>3, IvfAssumption, FS_Subset, FS_CardinalityType
<1>. QED
  BY <1>2, <1>4, FS_AddElement

\* After the first n entries, and one more, the lists have the first n + 1.
LEMMA HasOneMore ==
    ASSUME metric \in Metrics, NEW qz \in Quantizers, qz.min <= qz.max, NEW cs \in Seq(Int), Len(cs) = NCentroids,
           NEW entries \in Seq(CacheEntries), NEW base \in Nat,
           NEW n \in Nat, n + 1 \in DOMAIN entries, NEW held, HasFirst(held, base, qz, cs, entries, n)
    PROVE  HasFirst(InsertQuantized(held, qz, cs, entries[n + 1].id, entries[n + 1].vector),
                    base, qz, cs, entries, n + 1)
<1> DEFINE id == entries[n + 1].id
           v == entries[n + 1].vector
           new == InsertQuantized(held, qz, cs, id, v)
           known == id \in FirstIds(entries, n)
           e == NewEntry(qz, id, v)
<1>1. /\ id \in Ids /\ v \in Int
      /\ \A i \in 1 .. n : i \in DOMAIN entries /\ entries[i].id \in Ids
  BY EntriesAre
<1>2. known <=> \E i \in 1 .. n : entries[i].id = id
  BY DEF FirstIds
<1>3. held \in AllContents /\ Linked(held) /\ held.count = base + Cardinality(FirstIds(entries, n))
  BY DEF HasFirst
<1>4. (known <=> held.map[id] # None) /\ (known => ~EntryAt(held, id).deleted)
  BY <1>1, <1>2 DEF HasFirst
<1>. HIDE DEF id, v, new, known, e
<1>5. /\ Changed(held, new, id, e)
      /\ ~known => new.map[id][1] = NearestBy(metric, cs, v)
      /\ new.count = IF known THEN held.count ELSE held.count + 1
  BY <1>1, <1>3, <1>4, InsertQuantizedIs DEF new, e
<1>6. new \in AllContents /\ Linked(new) /\ new.count = base + Cardinality(FirstIds(entries, n + 1))
  <2>1. /\ Cardinality(FirstIds(entries, n)) \in Nat
        /\ Cardinality(FirstIds(entries, n + 1)) =
              IF known THEN Cardinality(FirstIds(entries, n)) ELSE Cardinality(FirstIds(entries, n)) + 1
    BY OneMoreId DEF known, id
  <2>2. new.count = base + Cardinality(FirstIds(entries, n + 1))
    BY <1>3, <1>5, <2>1
  <2>. QED
    BY <1>5, <2>2 DEF Changed
<1>7. ASSUME NEW i \in 1 .. n + 1
      PROVE  /\ new.map[entries[i].id] # None /\ ~EntryAt(new, entries[i].id).deleted
             /\ LastAmong(entries, i, n + 1) =>
                   EntryAt(new, entries[i].id) = NewEntry(qz, entries[i].id, entries[i].vector)
             /\ FirstAmong(entries, i) =>
                   new.map[entries[i].id][1] = NearestBy(metric, cs, entries[i].vector)
  <2>1. CASE entries[i].id = id
    <3>1. new.map[id] # None /\ EntryAt(new, id) = e /\ ~e.deleted
          /\ (held.map[id] # None => new.map[id] = held.map[id])
      BY <1>5 DEF Changed, e, NewEntry
    <3>2. ASSUME LastAmong(entries, i, n + 1) PROVE i = n + 1
      BY <2>1, <3>2 DEF LastAmong, id
    <3>3. ASSUME FirstAmong(entries, i) PROVE new.map[id][1] = NearestBy(metric, cs, entries[i].vector)
      <4>1. CASE i = n + 1
        <5>1. ~known
          BY <1>2, <2>1, <3>3, <4>1 DEF FirstAmong
        <5>. QED
          BY <1>5, <4>1, <5>1 DEF v
      <4>2. CASE i # n + 1
        <5>1. i \in 1 .. n
          BY <4>2
        <5>2. held.map[id] # None /\ held.map[id][1] = NearestBy(metric, cs, entries[i].vector)
          BY <2>1, <3>3, <5>1 DEF HasFirst
        <5>. QED
          BY <3>1, <5>2
      <4>. QED
        BY <4>1, <4>2
    <3>. QED
      BY <2>1, <3>1, <3>2, <3>3 DEF e, v
  <2>2. CASE entries[i].id # id
    <3>1. i \in 1 .. n
      BY <2>2 DEF id
    <3>2. entries[i].id \in Ids \ {id}
      BY <1>1, <2>2, <3>1
    <3>3. LastAmong(entries, i, n + 1) => LastAmong(entries, i, n)
      BY DEF LastAmong
    <3>4. /\ held.map[entries[i].id] # None /\ ~EntryAt(held, entries[i].id).deleted
          /\ LastAmong(entries, i, n) =>
                EntryAt(held, entries[i].id) = NewEntry(qz, entries[i].id, entries[i].vector)
          /\ FirstAmong(entries, i) =>
                held.map[entries[i].id][1] = NearestBy(metric, cs, entries[i].vector)
      BY <3>1 DEF HasFirst
    <3>5. /\ new.map[entries[i].id] = held.map[entries[i].id]
          /\ EntryAt(new, entries[i].id) = EntryAt(held, entries[i].id)
      BY <1>5, <3>2, <3>4 DEF Changed
    <3>. QED
      BY <3>3, <3>4, <3>5
  <2>. QED
    BY <2>1, <2>2
<1>8. ASSUME NEW x \in Ids, new.map[x] # None
      PROVE  \E i \in 1 .. n + 1 : entries[i].id = x
  <2>1. CASE x = id
    <3>1. n + 1 \in 1 .. n + 1
      OBVIOUS
    <3>. QED
      BY <2>1, <3>1 DEF id
  <2>2. CASE x # id
    <3>1. held.map[x] # None
      BY <1>5, <1>8, <2>2 DEF Changed
    <3>2. PICK i \in 1 .. n : entries[i].id = x
      BY <3>1 DEF HasFirst
    <3>3. i \in 1 .. n + 1
      OBVIOUS
    <3>. QED
      BY <3>2, <3>3
  <2>. QED
    BY <2>1, <2>2
<1>9. HasFirst(new, base, qz, cs, entries, n + 1)
  BY <1>6, <1>7, <1>8 DEF HasFirst
<1>. QED
  BY <1>9 DEF new, id, v

\* The entries of a cache, inserted into empty lists.
LEMMA InsertAllIs ==
    ASSUME metric \in Metrics, NEW qz \in Quantizers, qz.min <= qz.max, NEW cs \in Seq(Int), Len(cs) = NCentroids,
           NEW entries \in Seq(CacheEntries),
           NEW held \in AllContents, Linked(held), \A id \in Ids : held.map[id] = None
    PROVE  HasFirst(InsertAll(held, qz, cs, entries), held.count, qz, cs, entries, Len(entries))
<1> DEFINE b == Len(entries)
           V == {h \in AllContents : Linked(h)}
           Inserted(h, n) == InsertQuantized(h, qz, cs, entries[n].id, entries[n].vector)
           step == [n \in 0 .. b |-> [h \in V |-> IF n = 0 THEN h ELSE Inserted(h, n)]]
           Is(f) == f = [n \in 0 .. b |-> IF n = 0 THEN held ELSE Inserted(f[n - 1], n)]
<1>1. b \in Nat /\ 0 \in Nat /\ held \in V /\ DOMAIN entries = 1 .. b
  OBVIOUS
<1>2. \A n \in 0 .. b, h \in V : n # 0 => Inserted(h, n) \in V
  <2> SUFFICES ASSUME NEW n \in 0 .. b, NEW h \in V, n # 0 PROVE Inserted(h, n) \in V
    OBVIOUS
  <2>1. n \in 1 .. b
    BY <1>1
  <2>2. entries[n].id \in Ids /\ entries[n].vector \in Int
    BY <1>1, <2>1, EntriesAre
  <2>3. Changed(h, Inserted(h, n), entries[n].id, NewEntry(qz, entries[n].id, entries[n].vector))
    BY <2>2, InsertQuantizedIs
  <2>. QED
    BY <2>3 DEF Changed
<1>. HIDE DEF V, b, Inserted
<1>3. \E f : Is(f)
  <2>1. step \in [0 .. b -> [V -> V]]
    BY <1>2
  <2>2. PICK f \in [0 .. b -> V] : Follows(f, 0, b, held, step)
    <3>. HIDE DEF step
    <3>. QED
      BY <1>1, <2>1, Iterated
  <2>3. \A n \in 0 .. b : f[n] = IF n = 0 THEN held ELSE step[n][f[n - 1]]
    <3>. HIDE DEF step
    <3>. QED
      BY <2>2 DEF Follows
  <2>4. \A n \in 0 .. b : f[n] = IF n = 0 THEN held ELSE Inserted(f[n - 1], n)
    <3> SUFFICES ASSUME NEW n \in 0 .. b PROVE f[n] = IF n = 0 THEN held ELSE Inserted(f[n - 1], n)
      OBVIOUS
    <3>1. n # 0 => f[n - 1] \in V
      <4>1. n # 0 => n - 1 \in 0 .. b
        BY <1>1
      <4>. QED
        BY <4>1
    <3>2. n # 0 => step[n][f[n - 1]] = Inserted(f[n - 1], n)
      BY <3>1
    <3>. HIDE DEF step
    <3>. QED
      BY <2>3, <3>2
  <2>. QED
    BY <2>4
<1> DEFINE after == InsertEach(held, qz, cs, entries)
           S == {n \in 0 .. b : HasFirst(after[n], held.count, qz, cs, entries, n)}
<1>4. Is(after)
  <2>1. after = CHOOSE f : Is(f)
    BY Zenon DEF InsertEach, b, Inserted
  <2>. HIDE DEF Is, after
  <2>. QED
    BY <1>3, <2>1
<1>. HIDE DEF after
<1>5. after[0] = held /\ \A n \in 0 .. b : n # 0 => after[n] = Inserted(after[n - 1], n)
  <2>1. \A n \in 0 .. b : after[n] = IF n = 0 THEN held ELSE Inserted(after[n - 1], n)
    BY <1>4
  <2>. QED
    BY <1>1, <2>1
<1>6. 0 \in S
  <2>1. FirstIds(entries, 0) = {}
    BY DEF FirstIds
  <2>2. held.count = held.count + Cardinality(FirstIds(entries, 0))
    <3>1. held.count \in Nat
      BY ContentsParts
    <3>2. Cardinality(FirstIds(entries, 0)) = 0
      BY <2>1, FS_EmptySet
    <3>. QED
      BY <3>1, <3>2
  <2>3. HasFirst(held, held.count, qz, cs, entries, 0)
    BY <2>2 DEF HasFirst
  <2>. QED
    BY <1>1, <1>5, <2>3
<1>7. ASSUME NEW n \in 0 .. b, n \in S, n < b
      PROVE  n + 1 \in S
  <2>1. n + 1 \in 0 .. b /\ n + 1 # 0 /\ n + 1 - 1 = n /\ n \in Nat /\ n + 1 \in DOMAIN entries
    BY <1>1, <1>7
  <2>2. after[n + 1] = Inserted(after[n], n + 1)
    BY <1>5, <2>1
  <2>3. HasFirst(after[n], held.count, qz, cs, entries, n) /\ held.count \in Nat
    BY <1>7, ContentsParts
  <2>4. HasFirst(Inserted(after[n], n + 1), held.count, qz, cs, entries, n + 1)
    BY <2>1, <2>3, HasOneMore DEF Inserted
  <2>. QED
    BY <2>1, <2>2, <2>4
<1>8. b \in S
  <2>. HIDE DEF S
  <2>1. \A n \in 0 .. b : n \in S
    BY <1>1, <1>6, <1>7, Steps
  <2>. QED
    BY <1>1, <2>1
<1>. QED
  BY <1>8 DEF InsertAll, after, b

-----------------------------------------------------------------------------
(* The invariant, of the index as of the bytes.                            *)

LiveOf(s) == {id \in Ids : s.given[id] # None}
HeldBy(s, id) == IF s.quantizer # None THEN s.held.map[id] # None /\ ~EntryAt(s.held, id).deleted
                 ELSE \E i \in DOMAIN s.cache : s.cache[i].id = id

Typed(s) ==
    /\ s \in Snapshots
    /\ Len(s.centroids) = IF s.quantizer # None THEN NCentroids ELSE 0
    /\ s.given \in [Ids -> Vectors[s.metric] \cup {None}]
    /\ s.quantizer # None => s.quantizer.min <= s.quantizer.max

\* Each document is in one place, and live there exactly when it was given.
Placed(s) ==
    /\ Linked(s.held) /\ Distinct(s.cache)
    /\ \A id \in Ids : s.held.map[id] # None => s.quantizer # None
    /\ \A id \in Ids : s.given[id] # None <=> HeldBy(s, id)

\* The count is too high by what was counted twice, and too low only if a
\* leftover of the cache was deleted.
Counted(s) ==
    /\ s.held.count <= Cardinality(LiveOf(s)) + s.countedTwice
    /\ ~s.leftoverDeleted => s.held.count = Cardinality(LiveOf(s)) + s.countedTwice
    /\ s.quantizer = None => ~s.leftoverDeleted /\ s.countedTwice = 0

\* What is kept of a live document is its vector, prepared or quantised, in the
\* list of the nearest centroid unless it was updated there.
Faithful(s) ==
    /\ s.quantizer = None => \A i \in DOMAIN s.cache :
           s.cache[i].vector = Prepared(s.metric, s.given[s.cache[i].id])
    /\ s.quantizer # None => \A id \in LiveOf(s) :
           LET v == Prepared(s.metric, s.given[id])
           IN  /\ EntryAt(s.held, id) = NewEntry(s.quantizer, id, v)
               /\ id \notin s.moved => s.held.map[id][1] = NearestBy(s.metric, s.centroids, v)

Sound(s) == Typed(s) /\ Placed(s) /\ Counted(s) /\ Faithful(s)

IsRecord(s) ==
    s = [metric |-> s.metric, quantizer |-> s.quantizer, centroids |-> s.centroids, held |-> s.held,
         cache |-> s.cache, given |-> s.given, moved |-> s.moved,
         countedTwice |-> s.countedTwice, leftoverDeleted |-> s.leftoverDeleted]

\* The fields, one by one.
Fields(s) ==
    /\ s.metric \in DOMAIN Vectors
    /\ s.quantizer \in Quantizers \cup {None}
    /\ s.centroids \in Seq(Int)
    /\ s.held \in AllContents
    /\ s.cache \in Seq(CacheEntries)
    /\ s.given \in [Ids -> Int \cup {None}]
    /\ s.moved \in SUBSET Ids
    /\ s.countedTwice \in Nat
    /\ s.leftoverDeleted \in BOOLEAN

\* A snapshot is a record whose fields have their types.
LEMMA FieldsAre == \A s : s \in Snapshots <=> IsRecord(s) /\ Fields(s)
<1>. HIDE DEF AllContents, CacheEntries, Quantizers
<1>1. ASSUME NEW s \in Snapshots PROVE IsRecord(s) /\ Fields(s)
  BY <1>1 DEF Snapshots, IsRecord, Fields
<1>2. ASSUME NEW s, IsRecord(s), Fields(s) PROVE s \in Snapshots
  <2> DEFINE r(a, b, c, d, e, f, g, h, i) ==
        [metric |-> a, quantizer |-> b, centroids |-> c, held |-> d, cache |-> e, given |-> f, moved |-> g,
         countedTwice |-> h, leftoverDeleted |-> i]
  <2>1. r(s.metric, s.quantizer, s.centroids, s.held, s.cache, s.given, s.moved, s.countedTwice, s.leftoverDeleted)
          \in Snapshots
    BY <1>2 DEF Snapshots, Fields
  <2>. QED
    BY <1>2, <2>1 DEF IsRecord
<1>. QED
  BY <1>1, <1>2

\* What a vector given in a metric is, and what a snapshot has of it.
LEMMA GivenAre ==
    ASSUME NEW s, Typed(s)
    PROVE  /\ Fields(s) /\ IsRecord(s) /\ s.metric \in Metrics
           /\ \A v \in Vectors[s.metric] : v \in Int /\ v # None /\ Prepared(s.metric, v) \in Int
           /\ \A id \in LiveOf(s) : /\ id \in Ids
                                    /\ s.given[id] \in Vectors[s.metric] /\ s.given[id] \in Int
                                    /\ Prepared(s.metric, s.given[id]) \in Int
           /\ s.quantizer # None => s.quantizer \in Quantizers /\ s.centroids \in Seq(Int)
           /\ IsFiniteSet(LiveOf(s)) /\ Cardinality(LiveOf(s)) \in Nat
<1>1. Fields(s) /\ IsRecord(s)
  BY FieldsAre DEF Typed
<1>2. s.metric \in Metrics /\ s.metric \in DOMAIN Vectors
  BY <1>1, IvfAssumption DEF Fields
<1>3. \A v \in Vectors[s.metric] : v \in Int /\ v # None
  BY <1>2, IvfAssumption
<1>4. \A v \in Vectors[s.metric] : Prepared(s.metric, v) \in Int
  BY <1>2, <1>3, Values
<1>5. \A id \in LiveOf(s) : id \in Ids /\ s.given[id] \in Vectors[s.metric]
  BY DEF LiveOf, Typed
<1>6. IsFiniteSet(LiveOf(s)) /\ Cardinality(LiveOf(s)) \in Nat
  <2>1. LiveOf(s) \in SUBSET Ids /\ IsFiniteSet(Ids)
    BY IvfAssumption DEF LiveOf
  <2>2. IsFiniteSet(LiveOf(s))
    BY <2>1, FS_Subset
  <2>. QED
    BY <2>2, FS_CardinalityType
<1>7. s.quantizer # None => s.quantizer \in Quantizers /\ s.centroids \in Seq(Int)
  BY <1>1 DEF Fields
<1>. QED
  BY <1>1, <1>2, <1>3, <1>4, <1>5, <1>6, <1>7


-----------------------------------------------------------------------------
(* What the operations do to an index that is sound.                       *)

\* A vector that is given is one of the index's metric.
LEMMA GivenTyped ==
    ASSUME NEW s, Typed(s), NEW t, t.metric = s.metric, t.given \in [Ids -> Vectors[s.metric] \cup {None}]
    PROVE  /\ t.metric \in DOMAIN Vectors
           /\ t.given \in [Ids -> Int \cup {None}]
           /\ t.given \in [Ids -> Vectors[t.metric] \cup {None}]
<1>1. s.metric \in DOMAIN Vectors /\ Vectors[s.metric] \subseteq Int
  BY GivenAre, IvfAssumption DEF Fields
<1>. QED
  BY <1>1

\* Typed from the parts of it.
LEMMA TypedIs ==
    ASSUME NEW t, IsRecord(t), Fields(t),
           Len(t.centroids) = IF t.quantizer # None THEN NCentroids ELSE 0,
           t.given \in [Ids -> Vectors[t.metric] \cup {None}],
           t.quantizer # None => t.quantizer.min <= t.quantizer.max
    PROVE  Typed(t)
BY FieldsAre DEF Typed

\* A document is given another vector, or its first.
Given(s, t, id, v) ==
    /\ IsRecord(t) /\ t.metric = s.metric
    /\ t.given = [s.given EXCEPT ![id] = v]
    /\ t.moved = IF s.held.map[id] # None THEN s.moved \cup {id} ELSE s.moved
    /\ t.leftoverDeleted = s.leftoverDeleted

\* What an insertion does to the history and to the number of live documents.
LEMMA GivenIs ==
    ASSUME NEW s, Typed(s), NEW id \in Ids, NEW v \in Vectors[s.metric], NEW t, Given(s, t, id, v)
    PROVE  /\ IsRecord(t) /\ t.metric \in DOMAIN Vectors
           /\ t.given \in [Ids -> Int \cup {None}]
           /\ t.given \in [Ids -> Vectors[t.metric] \cup {None}]
           /\ t.moved \in SUBSET Ids /\ t.leftoverDeleted \in BOOLEAN
           /\ LiveOf(t) = LiveOf(s) \cup {id}
           /\ Cardinality(LiveOf(t)) = IF s.given[id] # None THEN Cardinality(LiveOf(s)) ELSE Cardinality(LiveOf(s)) + 1
           /\ t.given[id] = v /\ \A x \in Ids : x # id => t.given[x] = s.given[x]
           /\ v \in Int /\ v # None /\ Prepared(s.metric, v) \in Int
           /\ t.metric = s.metric /\ t.leftoverDeleted = s.leftoverDeleted
<1>1. Fields(s) /\ v \in Int /\ v # None /\ Prepared(s.metric, v) \in Int
  BY GivenAre
<1>2. t.moved \in SUBSET Ids /\ t.leftoverDeleted \in BOOLEAN
  BY <1>1 DEF Fields, Given
<1>3. /\ IsRecord(t) /\ t.metric = s.metric /\ t.leftoverDeleted = s.leftoverDeleted
      /\ t.given = [s.given EXCEPT ![id] = v]
  BY DEF Given
<1>4. /\ LiveOf(t) = LiveOf(s) \cup {id}
      /\ Cardinality(LiveOf(t)) = IF s.given[id] # None THEN Cardinality(LiveOf(s)) ELSE Cardinality(LiveOf(s)) + 1
      /\ t.given[id] = v /\ \A x \in Ids : x # id => t.given[x] = s.given[x]
      /\ t.given \in [Ids -> Vectors[s.metric] \cup {None}]
  <2>1. IsFiniteSet(LiveOf(s))
    BY GivenAre
  <2>2. /\ t.given[id] = v /\ \A x \in Ids : x # id => t.given[x] = s.given[x]
        /\ t.given \in [Ids -> Vectors[s.metric] \cup {None}]
    BY <1>3 DEF Typed
  <2>3. LiveOf(t) = LiveOf(s) \cup {id} /\ (id \in LiveOf(s) <=> s.given[id] # None)
    BY <1>1, <2>2 DEF LiveOf
  <2>. QED
    BY <2>1, <2>2, <2>3, FS_AddElement
<1>5. /\ t.metric \in DOMAIN Vectors
      /\ t.given \in [Ids -> Int \cup {None}]
      /\ t.given \in [Ids -> Vectors[t.metric] \cup {None}]
  BY <1>3, <1>4, GivenTyped
<1>. QED
  BY <1>1, <1>2, <1>3, <1>4, <1>5

\* A document is deleted.
Gone(s, t, id) ==
    /\ IsRecord(t) /\ t.metric = s.metric /\ t.quantizer = s.quantizer /\ t.centroids = s.centroids
    /\ t.given = [s.given EXCEPT ![id] = None]
    /\ t.moved = s.moved /\ t.countedTwice = s.countedTwice

\* What a deletion does to the history and to the number of live documents.
LEMMA GoneIs ==
    ASSUME NEW s, Typed(s), NEW id \in Ids, NEW t, Gone(s, t, id)
    PROVE  /\ IsRecord(t) /\ t.metric \in DOMAIN Vectors
           /\ t.given \in [Ids -> Int \cup {None}]
           /\ t.given \in [Ids -> Vectors[t.metric] \cup {None}]
           /\ LiveOf(t) = LiveOf(s) \ {id}
           /\ Cardinality(LiveOf(t)) = IF s.given[id] # None THEN Cardinality(LiveOf(s)) - 1 ELSE Cardinality(LiveOf(s))
           /\ Cardinality(LiveOf(t)) \in Nat /\ Cardinality(LiveOf(s)) \in Nat
           /\ t.given[id] = None /\ \A x \in Ids : x # id => t.given[x] = s.given[x]
           /\ t.metric = s.metric /\ t.quantizer = s.quantizer /\ t.centroids = s.centroids
           /\ t.moved = s.moved /\ t.countedTwice = s.countedTwice
<1>1. /\ IsRecord(t) /\ t.metric = s.metric /\ t.quantizer = s.quantizer /\ t.centroids = s.centroids
      /\ t.given = [s.given EXCEPT ![id] = None]
      /\ t.moved = s.moved /\ t.countedTwice = s.countedTwice
  BY DEF Gone
<1>2. IsFiniteSet(LiveOf(s)) /\ Cardinality(LiveOf(s)) \in Nat
  BY GivenAre
<1>3. /\ t.given[id] = None /\ \A x \in Ids : x # id => t.given[x] = s.given[x]
      /\ t.given \in [Ids -> Vectors[s.metric] \cup {None}]
  BY <1>1 DEF Typed
<1>4. LiveOf(t) = LiveOf(s) \ {id} /\ (id \in LiveOf(s) <=> s.given[id] # None)
  BY <1>3 DEF LiveOf
<1>5. /\ Cardinality(LiveOf(t)) = IF s.given[id] # None THEN Cardinality(LiveOf(s)) - 1 ELSE Cardinality(LiveOf(s))
      /\ Cardinality(LiveOf(t)) \in Nat
  BY <1>2, <1>4, FS_RemoveElement, FS_CardinalityType
<1>6. /\ t.metric \in DOMAIN Vectors
      /\ t.given \in [Ids -> Int \cup {None}]
      /\ t.given \in [Ids -> Vectors[t.metric] \cup {None}]
  BY <1>1, <1>3, GivenTyped
<1>. QED
  BY <1>1, <1>2, <1>3, <1>4, <1>5, <1>6

\* The vector of a document in the cache is written over.
LEMMA CacheVectorIs ==
    ASSUME NEW s, Sound(s), s.quantizer = None, NEW id \in Ids, NEW v \in Vectors[s.metric],
           NEW i \in DOMAIN s.cache, s.cache[i].id = id,
           NEW t, Given(s, t, id, v),
           t.cache = [s.cache EXCEPT ![i].vector = Prepared(s.metric, v)],
           t.quantizer = s.quantizer, t.centroids = s.centroids, t.held = s.held,
           t.countedTwice = s.countedTwice
    PROVE  Sound(t)
<1>1. Typed(s) /\ Placed(s) /\ Counted(s) /\ Faithful(s)
  BY DEF Sound
<1>2. Fields(s) /\ s.metric \in Metrics
  BY <1>1, GivenAre
<1>3. /\ IsRecord(t) /\ t.metric \in DOMAIN Vectors
      /\ t.given \in [Ids -> Int \cup {None}]
      /\ t.given \in [Ids -> Vectors[t.metric] \cup {None}]
      /\ t.moved \in SUBSET Ids /\ t.leftoverDeleted \in BOOLEAN
      /\ Cardinality(LiveOf(t)) = IF s.given[id] # None THEN Cardinality(LiveOf(s)) ELSE Cardinality(LiveOf(s)) + 1
      /\ t.given[id] = v /\ \A x \in Ids : x # id => t.given[x] = s.given[x]
      /\ v \in Int /\ v # None /\ Prepared(s.metric, v) \in Int
      /\ t.metric = s.metric /\ t.leftoverDeleted = s.leftoverDeleted
  BY <1>1, GivenIs
<1> DEFINE w == Prepared(s.metric, v)
           e == [id |-> id, vector |-> w]
<1>4. s.cache \in Seq(CacheEntries) /\ s.cache[i] = [id |-> id, vector |-> s.cache[i].vector]
      /\ DOMAIN s.cache = 1 .. Len(s.cache)
  <2>1. s.cache \in Seq(CacheEntries)
    BY <1>2 DEF Fields
  <2>2. s.cache[i] \in CacheEntries
    BY <2>1
  <2>. QED
    BY <2>1, <2>2 DEF CacheEntries
<1>5. /\ t.cache \in Seq(CacheEntries) /\ DOMAIN t.cache = DOMAIN s.cache /\ t.cache[i] = e
      /\ \A j \in DOMAIN s.cache : j # i => t.cache[j] = s.cache[j]
  <2>1. [s.cache[i] EXCEPT !.vector = w] = e
    BY <1>4
  <2>2. t.cache = [s.cache EXCEPT ![i] = e]
    BY <2>1
  <2>3. e \in CacheEntries
    BY <1>3 DEF CacheEntries
  <2>. HIDE DEF e
  <2>. QED
    BY <1>4, <2>2, <2>3
<1>6. \A j \in DOMAIN s.cache : t.cache[j].id = s.cache[j].id
  <2>1. t.cache[i].id = id
    BY <1>5
  <2>. HIDE DEF e
  <2>. QED
    BY <1>5, <2>1
<1>7. Distinct(t.cache)
  BY <1>1, <1>5, <1>6 DEF Placed, Distinct
<1>8. \A x \in Ids : HeldBy(t, x) <=> HeldBy(s, x)
  <2>. HIDE DEF e
  <2>. QED
    BY <1>5, <1>6 DEF HeldBy
<1>9. s.given[id] # None
  BY <1>1 DEF Placed, HeldBy
<1>10. Typed(t)
  <2>1. Fields(t)
    BY <1>2, <1>3, <1>5 DEF Fields
  <2>. QED
    BY <1>1, <1>3, <2>1, TypedIs DEF Typed
<1>11. Placed(t)
  BY <1>1, <1>3, <1>7, <1>8, <1>9 DEF Placed
<1>12. Counted(t)
  BY <1>1, <1>3, <1>9 DEF Counted
<1>13. Faithful(t)
  <2>1. ASSUME NEW j \in DOMAIN t.cache
        PROVE  t.cache[j].vector = Prepared(t.metric, t.given[t.cache[j].id])
    <3>1. CASE j = i
      <4>1. t.cache[j].vector = w /\ t.cache[j].id = id
        BY <1>5, <3>1
      <4>. QED
        BY <1>3, <4>1
    <3>2. CASE j # i
      <4>1. t.cache[j] = s.cache[j] /\ j \in DOMAIN s.cache
        BY <1>5, <2>1, <3>2
      <4>2. s.cache[j].id # id /\ s.cache[j].id \in Ids
        BY <1>1, <1>4, <3>2, <4>1, EntriesAre DEF Placed, Distinct
      <4>. QED
        BY <1>1, <1>3, <4>1, <4>2 DEF Faithful
    <3>. QED
      BY <3>1, <3>2
  <2>. QED
    BY <2>1 DEF Faithful
<1>. QED
  BY <1>10, <1>11, <1>12, <1>13 DEF Sound

\* A cache, and the same one with an entry more.
Grown(cache, e, new) ==
    /\ new \in Seq(CacheEntries) /\ Distinct(new)
    /\ DOMAIN new = DOMAIN cache \cup {Len(cache) + 1} /\ new[Len(cache) + 1] = e
    /\ \A i \in DOMAIN cache : new[i] = cache[i]

\* A cache with another document at its end.
LEMMA AppendedIs ==
    ASSUME NEW cache \in Seq(CacheEntries), Distinct(cache), NEW e \in CacheEntries,
           \A i \in DOMAIN cache : cache[i].id # e.id
    PROVE  Grown(cache, e, Append(cache, e))
<1> DEFINE new == Append(cache, e)
<1>1. /\ new \in Seq(CacheEntries) /\ Len(new) = Len(cache) + 1 /\ Len(cache) \in Nat
      /\ DOMAIN new = DOMAIN cache \cup {Len(cache) + 1} /\ new[Len(cache) + 1] = e
      /\ \A i \in DOMAIN cache : new[i] = cache[i]
  OBVIOUS
<1>. HIDE DEF new
<1>2. Distinct(new)
  BY <1>1 DEF Distinct
<1>3. Grown(cache, e, new)
  BY <1>1, <1>2 DEF Grown
<1>. QED
  BY <1>3 DEF new

\* A document that is new to a cold index has the cache hold what is live.
CacheHolds(t, cache) ==
    /\ cache \in Seq(CacheEntries) /\ Distinct(cache)
    /\ \A x \in Ids : t.given[x] # None <=> \E i \in DOMAIN cache : cache[i].id = x
    /\ \A i \in DOMAIN cache : cache[i].vector = Prepared(t.metric, t.given[cache[i].id])

\* With a new document at its end, the cache has what was given.
LEMMA CacheGrows ==
    ASSUME NEW s, Sound(s), s.quantizer = None, NEW id \in Ids, NEW v \in Vectors[s.metric],
           \A i \in DOMAIN s.cache : s.cache[i].id # id,
           NEW t, Given(s, t, id, v)
    PROVE  /\ CacheHolds(t, Append(s.cache, [id |-> id, vector |-> Prepared(s.metric, v)]))
           /\ s.given[id] = None
<1>1. Typed(s) /\ Placed(s) /\ Faithful(s)
  BY DEF Sound
<1>2. s.cache \in Seq(CacheEntries) /\ Distinct(s.cache)
  BY <1>1, GivenAre DEF Fields, Placed
<1>3. /\ t.given[id] = v /\ \A x \in Ids : x # id => t.given[x] = s.given[x]
      /\ v # None /\ Prepared(s.metric, v) \in Int /\ t.metric = s.metric
  BY <1>1, GivenIs
<1> DEFINE e == [id |-> id, vector |-> Prepared(s.metric, v)]
           n == Len(s.cache) + 1
           cache == Append(s.cache, e)
<1>4. e \in CacheEntries /\ e.id = id /\ e.vector = Prepared(s.metric, v)
  BY <1>3 DEF CacheEntries
<1>. HIDE DEF e
<1>5. Grown(s.cache, e, cache)
  BY <1>2, <1>4, AppendedIs
<1>. HIDE DEF cache
<1>6. /\ cache \in Seq(CacheEntries) /\ Distinct(cache)
      /\ DOMAIN cache = DOMAIN s.cache \cup {n} /\ cache[n] = e
      /\ \A i \in DOMAIN s.cache : cache[i] = s.cache[i]
  BY <1>5 DEF Grown
<1>. HIDE DEF n
<1>7. s.given[id] = None
  BY <1>1 DEF Placed, HeldBy
<1>8. ASSUME NEW x \in Ids
      PROVE  t.given[x] # None <=> \E i \in DOMAIN cache : cache[i].id = x
  <2>1. s.given[x] # None <=> \E i \in DOMAIN s.cache : s.cache[i].id = x
    BY <1>1 DEF Placed, HeldBy
  <2>2. (\E i \in DOMAIN cache : cache[i].id = x) <=> (\E i \in DOMAIN s.cache : s.cache[i].id = x) \/ x = id
    BY <1>4, <1>6
  <2>. QED
    BY <1>3, <2>1, <2>2
<1>9. ASSUME NEW j \in DOMAIN cache
      PROVE  cache[j].vector = Prepared(t.metric, t.given[cache[j].id])
  <2>1. CASE j = n
    BY <1>3, <1>4, <1>6, <2>1
  <2>2. CASE j # n
    <3>1. cache[j] = s.cache[j] /\ j \in DOMAIN s.cache
      BY <1>6, <1>9, <2>2
    <3>2. s.cache[j].id # id /\ s.cache[j].id \in Ids
      BY <1>2, <3>1, EntriesAre
    <3>. QED
      BY <1>1, <1>3, <3>1, <3>2 DEF Faithful
  <2>. QED
    BY <2>1, <2>2
<1>10. CacheHolds(t, cache)
  BY <1>6, <1>8, <1>9 DEF CacheHolds
<1>. QED
  BY <1>7, <1>10 DEF cache, e


\* Lists and map alone decide whether they point at each other.
LEMMA LinkedSame ==
    ASSUME NEW h, NEW k, Linked(h), k.postings = h.postings, k.map = h.map
    PROVE  Linked(k)
<1>1. /\ \A c \in Lists : \A i \in DOMAIN h.postings[c] : h.map[h.postings[c][i].id] = <<c, i>>
      /\ \A id \in Ids : h.map[id] # None =>
             h.map[id][2] \in DOMAIN h.postings[h.map[id][1]] /\ h.postings[h.map[id][1]][h.map[id][2]].id = id
  BY Zenon DEF Linked, EntryAt
<1>. QED
  BY <1>1, SMTT(30) DEF Linked, EntryAt

\* A new document in the cache, short of the training.
LEMMA CacheDocumentIs ==
    ASSUME NEW s, Sound(s), s.quantizer = None, NEW id \in Ids, NEW v \in Vectors[s.metric],
           \A i \in DOMAIN s.cache : s.cache[i].id # id,
           NEW t, Given(s, t, id, v),
           t.cache = Append(s.cache, [id |-> id, vector |-> Prepared(s.metric, v)]),
           t.quantizer = s.quantizer, t.centroids = s.centroids,
           t.held = [postings |-> s.held.postings, map |-> s.held.map, count |-> s.held.count + 1],
           t.countedTwice = s.countedTwice
    PROVE  Sound(t)
<1>1. Typed(s) /\ Placed(s) /\ Counted(s) /\ Faithful(s)
  BY DEF Sound
<1>2. Fields(s) /\ s.metric \in Metrics /\ Cardinality(LiveOf(s)) \in Nat
  BY <1>1, GivenAre
<1>3. /\ IsRecord(t) /\ t.metric \in DOMAIN Vectors
      /\ t.given \in [Ids -> Int \cup {None}]
      /\ t.given \in [Ids -> Vectors[t.metric] \cup {None}]
      /\ t.moved \in SUBSET Ids /\ t.leftoverDeleted \in BOOLEAN
      /\ Cardinality(LiveOf(t)) = IF s.given[id] # None THEN Cardinality(LiveOf(s)) ELSE Cardinality(LiveOf(s)) + 1
      /\ t.given[id] = v /\ \A x \in Ids : x # id => t.given[x] = s.given[x]
      /\ v \in Int /\ v # None /\ Prepared(s.metric, v) \in Int
      /\ t.metric = s.metric /\ t.leftoverDeleted = s.leftoverDeleted
  BY <1>1, GivenIs
<1>4. CacheHolds(t, t.cache) /\ s.given[id] = None
  BY CacheGrows
<1>5. s.held \in AllContents
  BY <1>2 DEF Fields
<1>6. /\ t.cache \in Seq(CacheEntries) /\ Distinct(t.cache)
      /\ \A x \in Ids : t.given[x] # None <=> \E i \in DOMAIN t.cache : t.cache[i].id = x
      /\ \A i \in DOMAIN t.cache : t.cache[i].vector = Prepared(t.metric, t.given[t.cache[i].id])
  BY <1>4 DEF CacheHolds
<1>7. /\ t.held \in AllContents /\ t.held.map = s.held.map /\ t.held.postings = s.held.postings
      /\ t.held.count = s.held.count + 1 /\ s.held.count \in Nat
  <2>1. /\ t.held.map = s.held.map /\ t.held.postings = s.held.postings /\ t.held.count = s.held.count + 1
        /\ s.held.count \in Nat /\ s.held.count + 1 \in Nat
    BY <1>5, ContentsParts
  <2>2. t.held \in AllContents
    BY <1>5, <2>1, ContentsParts DEF AllContents
  <2>. QED
    BY <2>1, <2>2
<1>8. Linked(t.held)
  BY <1>1, <1>7, LinkedSame DEF Placed
<1>11. Typed(t)
  <2>1. Fields(t)
    BY <1>2, <1>3, <1>6, <1>7 DEF Fields
  <2>. QED
    BY <1>1, <1>3, <2>1, TypedIs DEF Typed
<1>12. Placed(t)
  <2>1. \A x \in Ids : t.held.map[x] # None => t.quantizer # None
    BY <1>1, <1>7 DEF Placed
  <2>2. \A x \in Ids : t.given[x] # None <=> HeldBy(t, x)
    BY <1>6 DEF HeldBy
  <2>. QED
    BY <1>6, <1>8, <2>1, <2>2 DEF Placed
<1>13. Counted(t)
  BY <1>1, <1>2, <1>3, <1>4, <1>7 DEF Counted
<1>14. Faithful(t)
  BY <1>6 DEF Faithful
<1>. QED
  BY <1>11, <1>12, <1>13, <1>14 DEF Sound

\* The contents, put together from their parts.
Whole(held) == [postings |-> held.postings, map |-> held.map, count |-> held.count]

\* The last entry of a document, the only one unless the document was moved, has the
\* vector given for it.
IsEntryOf(t, entries, i, id) ==
    /\ entries[i].id = id /\ LastAmong(entries, i, Len(entries))
    /\ entries[i].vector = Prepared(t.metric, t.given[id])
    /\ id \notin t.moved => FirstAmong(entries, i)

\* A training puts the documents that are live into lists that were empty.
LEMMA TrainingIs ==
    ASSUME NEW t, IsRecord(t), metric = t.metric, t.metric \in DOMAIN Vectors,
           t.given \in [Ids -> Vectors[t.metric] \cup {None}],
           t.cache \in Seq(CacheEntries), Distinct(t.cache), t.moved \in SUBSET Ids,
           t.countedTwice \in Nat, t.leftoverDeleted \in BOOLEAN,
           NEW vectors \in Seq(Int), Len(vectors) >= NCentroids,
           t.quantizer = TrainQuantizer(vectors), t.centroids = TrainKmeans(vectors),
           NEW entries \in Seq(CacheEntries),
           \A id \in Ids : t.given[id] # None <=> \E i \in DOMAIN entries : entries[i].id = id,
           \A id \in LiveOf(t) : \E i \in DOMAIN entries : IsEntryOf(t, entries, i, id),
           NEW base \in AllContents, Linked(base), \A id \in Ids : base.map[id] = None,
           t.held = Whole(InsertAll(base, t.quantizer, t.centroids, entries)),
           base.count + Cardinality(IdsIn(entries)) = Cardinality(LiveOf(t)) + t.countedTwice
    PROVE  Sound(t)
<1>1. metric \in Metrics /\ NCentroids \in Nat \ {0} /\ Len(vectors) \in Nat /\ Vectors[t.metric] \subseteq Int
  BY IvfAssumption
<1>2. t.quantizer \in Quantizers /\ t.quantizer.min <= t.quantizer.max /\ t.quantizer # None
  <2>1. Len(vectors) # 0
    BY <1>1
  <2>2. t.quantizer \in Quantizers /\ t.quantizer.min <= t.quantizer.max
    BY <2>1, QuantizerIs
  <2>3. None \notin Quantizers
    BY IvfAssumption DEF Quantizers
  <2>. QED
    BY <2>2, <2>3
<1>3. t.centroids \in Seq(Int) /\ Len(t.centroids) = NCentroids
  <2>1. t.centroids \in Seq(Int) /\ Len(t.centroids) = Least(NCentroids, Len(vectors))
    BY <1>1, KmeansAre
  <2>. QED
    BY <1>1, <2>1 DEF Least
<1>4. HasFirst(t.held, base.count, t.quantizer, t.centroids, entries, Len(entries))
  <2> DEFINE new == InsertAll(base, t.quantizer, t.centroids, entries)
  <2>1. HasFirst(new, base.count, t.quantizer, t.centroids, entries, Len(entries))
    BY <1>1, <1>2, <1>3, InsertAllIs
  <2>. HIDE DEF new
  <2>2. new \in AllContents
    BY <2>1 DEF HasFirst
  <2>3. Whole(new) = new
    BY <2>2, ContentsParts DEF Whole
  <2>4. t.held = new
    BY <2>3 DEF new
  <2>. QED
    BY <2>1, <2>4
<1>5. /\ t.held \in AllContents /\ Linked(t.held)
      /\ t.held.count = base.count + Cardinality(IdsIn(entries))
      /\ \A i \in DOMAIN entries :
            /\ t.held.map[entries[i].id] # None /\ ~EntryAt(t.held, entries[i].id).deleted
            /\ LastAmong(entries, i, Len(entries)) =>
                  EntryAt(t.held, entries[i].id) = NewEntry(t.quantizer, entries[i].id, entries[i].vector)
            /\ FirstAmong(entries, i) =>
                  t.held.map[entries[i].id][1] = NearestBy(metric, t.centroids, entries[i].vector)
      /\ \A x \in Ids : t.held.map[x] # None => \E i \in DOMAIN entries : entries[i].id = x
  <2>1. DOMAIN entries = 1 .. Len(entries)
    BY EntriesAre
  <2>2. FirstIds(entries, Len(entries)) = IdsIn(entries)
    BY <2>1 DEF FirstIds, IdsIn
  <2>. QED
    BY <1>4, <2>1, <2>2 DEF HasFirst
<1>6. Typed(t)
  <2>1. t.given \in [Ids -> Int \cup {None}]
    BY <1>1
  <2>2. Fields(t)
    BY <1>2, <1>3, <1>5, <2>1 DEF Fields
  <2>. QED
    BY <1>2, <1>3, <2>2, TypedIs
<1>8. Placed(t)
  <2>1. ASSUME NEW x \in Ids
        PROVE  t.given[x] # None <=> HeldBy(t, x)
    <3>1. HeldBy(t, x) => t.given[x] # None
      BY <1>2, <1>5 DEF HeldBy
    <3>2. ASSUME t.given[x] # None PROVE HeldBy(t, x)
      <4>1. PICK i \in DOMAIN entries : entries[i].id = x
        BY <3>2
      <4>. QED
        BY <1>2, <1>5, <4>1 DEF HeldBy
    <3>. QED
      BY <3>1, <3>2
  <2>. QED
    BY <1>2, <1>5, <2>1 DEF Placed
<1>9. Counted(t)
  <2>1. Cardinality(LiveOf(t)) \in Nat
    BY <1>6, GivenAre
  <2>. QED
    BY <1>2, <1>5, <2>1 DEF Counted
<1>10. Faithful(t)
  <2>1. ASSUME NEW x \in LiveOf(t)
        PROVE  /\ EntryAt(t.held, x) = NewEntry(t.quantizer, x, Prepared(t.metric, t.given[x]))
               /\ x \notin t.moved =>
                     t.held.map[x][1] = NearestBy(t.metric, t.centroids, Prepared(t.metric, t.given[x]))
    <3>1. PICK i \in DOMAIN entries : IsEntryOf(t, entries, i, x)
      OBVIOUS
    <3>. QED
      BY <1>5, <3>1 DEF IsEntryOf
  <2>. QED
    BY <1>2, <2>1 DEF Faithful
<1>. QED
  BY <1>6, <1>8, <1>9, <1>10 DEF Sound

\* The insertion that fills the cache.
HasTrained(s, t, entries) ==
    /\ t.quantizer = TrainQuantizer(VectorsOf(entries))
    /\ t.centroids = TrainKmeans(VectorsOf(entries))
    /\ t.held = Whole(InsertAll([postings |-> s.held.postings, map |-> s.held.map, count |-> s.held.count + 1],
                                t.quantizer, t.centroids, entries))
    /\ t.cache = <<>> /\ t.countedTwice = Cardinality(IdsIn(entries))

\* The training: the documents of the cache move to the lists.
LEMMA TrainIs ==
    ASSUME NEW s, Sound(s), s.quantizer = None, metric = s.metric, NEW id \in Ids, NEW v \in Vectors[s.metric],
           \A i \in DOMAIN s.cache : s.cache[i].id # id,
           NEW entries, entries = Append(s.cache, [id |-> id, vector |-> Prepared(s.metric, v)]),
           Len(entries) >= NCentroids,
           NEW t, Given(s, t, id, v), HasTrained(s, t, entries)
    PROVE  Sound(t)
<1>1. Typed(s) /\ Placed(s) /\ Counted(s) /\ Faithful(s)
  BY DEF Sound
<1>2. Fields(s) /\ s.metric \in Metrics /\ Cardinality(LiveOf(s)) \in Nat
  BY <1>1, GivenAre
<1>3. /\ IsRecord(t) /\ t.metric \in DOMAIN Vectors
      /\ t.given \in [Ids -> Vectors[t.metric] \cup {None}]
      /\ t.moved \in SUBSET Ids /\ t.leftoverDeleted \in BOOLEAN
      /\ Cardinality(LiveOf(t)) = IF s.given[id] # None THEN Cardinality(LiveOf(s)) ELSE Cardinality(LiveOf(s)) + 1
      /\ t.metric = s.metric
  BY <1>1, GivenIs
<1>4. CacheHolds(t, entries) /\ s.given[id] = None
  BY CacheGrows
<1>5. /\ entries \in Seq(CacheEntries) /\ Distinct(entries)
      /\ \A x \in Ids : t.given[x] # None <=> \E i \in DOMAIN entries : entries[i].id = x
      /\ \A i \in DOMAIN entries : entries[i].vector = Prepared(t.metric, t.given[entries[i].id])
  BY <1>4 DEF CacheHolds
<1> DEFINE base == [postings |-> s.held.postings, map |-> s.held.map, count |-> s.held.count + 1]
           vectors == VectorsOf(entries)
<1>6. s.held \in AllContents
  BY <1>2 DEF Fields
<1>7. /\ base \in AllContents /\ base.map = s.held.map /\ base.postings = s.held.postings
      /\ base.count = s.held.count + 1 /\ s.held.count \in Nat
  <2>1. /\ base.map = s.held.map /\ base.postings = s.held.postings /\ base.count = s.held.count + 1
        /\ s.held.count \in Nat /\ s.held.count + 1 \in Nat
    BY <1>6, ContentsParts
  <2>2. base \in AllContents
    BY <1>6, <2>1, ContentsParts DEF AllContents
  <2>. QED
    BY <2>1, <2>2
<1>. HIDE DEF base
<1>8. Linked(base) /\ \A x \in Ids : base.map[x] = None
  <2>1. Linked(base)
    BY <1>1, <1>7, LinkedSame DEF Placed
  <2>. QED
    BY <1>1, <1>7, <2>1 DEF Placed
<1>9. vectors \in Seq(Int) /\ Len(vectors) = Len(entries) /\ Len(entries) \in Nat
  <2>1. DOMAIN entries = 1 .. Len(entries) /\ Len(entries) \in Nat
        /\ \A i \in DOMAIN entries : entries[i].vector \in Int
    BY <1>5, EntriesAre
  <2>. QED
    BY <2>1 DEF VectorsOf
<1>10. /\ t.quantizer = TrainQuantizer(vectors) /\ t.centroids = TrainKmeans(vectors)
       /\ t.held = Whole(InsertAll(base, t.quantizer, t.centroids, entries))
       /\ t.cache = <<>> /\ t.countedTwice = Cardinality(IdsIn(entries))
  BY DEF HasTrained, base
<1>. HIDE DEF vectors
<1> DEFINE known == Cardinality(IdsIn(entries))
<1>11. known \in Nat /\ base.count + known = Cardinality(LiveOf(t)) + t.countedTwice
  <2>1. s.held.count = Cardinality(LiveOf(s))
    BY <1>1, <1>2, <1>7 DEF Counted
  <2>2. Cardinality(LiveOf(t)) = Cardinality(LiveOf(s)) + 1
    BY <1>3, <1>4
  <2>3. known \in Nat
    <3>1. IdsIn(entries) \subseteq Ids
      BY <1>5, EntriesAre DEF IdsIn
    <3>. QED
      BY <3>1, IvfAssumption, FS_Subset, FS_CardinalityType
  <2>. HIDE DEF known
  <2>4. t.countedTwice = known
    BY <1>10 DEF known
  <2>. QED
    BY <1>2, <1>7, <2>1, <2>2, <2>3, <2>4
<1>12. t.cache \in Seq(CacheEntries) /\ Distinct(t.cache) /\ t.countedTwice \in Nat
  BY <1>10, <1>11 DEF Distinct
<1>13. Len(vectors) >= NCentroids /\ metric = t.metric
  BY <1>3, <1>9
<1>14. ASSUME NEW x \in LiveOf(t) PROVE \E i \in DOMAIN entries : IsEntryOf(t, entries, i, x)
  <2>1. PICK i \in DOMAIN entries : entries[i].id = x
    BY <1>5 DEF LiveOf
  <2>2. DOMAIN entries = 1 .. Len(entries) /\ Len(entries) \in Nat
    BY <1>5, EntriesAre
  <2>3. \A j \in DOMAIN entries : j # i => entries[j].id # entries[i].id
    BY <1>5 DEF Distinct
  <2> DEFINE n == Len(entries)
  <2>4. LastAmong(entries, i, n)
    <3>1. \A j \in i + 1 .. n : j \in DOMAIN entries /\ j # i
      <4>. HIDE DEF n
      <4>. QED
        BY <2>2 DEF n
    <3>. QED
      BY <2>3, <3>1 DEF LastAmong
  <2>5. FirstAmong(entries, i)
    <3>1. \A j \in 1 .. i - 1 : j \in DOMAIN entries /\ j # i
      BY <2>2
    <3>. QED
      BY <2>3, <3>1 DEF FirstAmong
  <2>. QED
    BY <1>5, <2>1, <2>4, <2>5 DEF IsEntryOf
<1>. QED
  BY <1>3, <1>5, <1>7, <1>8, <1>9, <1>10, <1>11, <1>12, <1>13, <1>14, TrainingIs

\* An insertion after the training.
LEMMA InsertTrainedIs ==
    ASSUME NEW s, Sound(s), s.quantizer # None, metric = s.metric, NEW id \in Ids, NEW v \in Vectors[s.metric],
           NEW t, Given(s, t, id, v),
           t.held = Whole(InsertQuantized(s.held, s.quantizer, s.centroids, id, Prepared(s.metric, v))),
           t.quantizer = s.quantizer, t.centroids = s.centroids, t.cache = s.cache,
           t.countedTwice = s.countedTwice
    PROVE  Sound(t)
<1>1. Typed(s) /\ Placed(s) /\ Counted(s) /\ Faithful(s)
  BY DEF Sound
<1>2. Fields(s) /\ s.metric \in Metrics /\ Cardinality(LiveOf(s)) \in Nat
  BY <1>1, GivenAre
<1>3. /\ IsRecord(t) /\ t.metric \in DOMAIN Vectors
      /\ t.given \in [Ids -> Int \cup {None}]
      /\ t.given \in [Ids -> Vectors[t.metric] \cup {None}]
      /\ t.moved \in SUBSET Ids /\ t.leftoverDeleted \in BOOLEAN
      /\ LiveOf(t) = LiveOf(s) \cup {id}
      /\ Cardinality(LiveOf(t)) = IF s.given[id] # None THEN Cardinality(LiveOf(s)) ELSE Cardinality(LiveOf(s)) + 1
      /\ t.given[id] = v /\ \A x \in Ids : x # id => t.given[x] = s.given[x]
      /\ v \in Int /\ v # None /\ Prepared(s.metric, v) \in Int
      /\ t.metric = s.metric /\ t.leftoverDeleted = s.leftoverDeleted
  BY <1>1, GivenIs
<1> DEFINE w == Prepared(s.metric, v)
           e == NewEntry(s.quantizer, id, w)
<1>4. /\ s.held \in AllContents /\ Linked(s.held)
      /\ s.quantizer \in Quantizers /\ s.quantizer.min <= s.quantizer.max
      /\ s.centroids \in Seq(Int) /\ Len(s.centroids) = NCentroids
      /\ w \in Int /\ metric \in Metrics
  BY <1>1, <1>2, <1>3 DEF Fields, Typed, Placed
<1>5. /\ Changed(s.held, t.held, id, e)
      /\ s.held.map[id] = None => t.held.map[id][1] = NearestBy(s.metric, s.centroids, w)
      /\ t.held.count = IF s.held.map[id] # None /\ ~EntryAt(s.held, id).deleted
                        THEN s.held.count ELSE s.held.count + 1
  <2> DEFINE new == InsertQuantized(s.held, s.quantizer, s.centroids, id, w)
  <2>1. /\ Changed(s.held, new, id, e)
        /\ s.held.map[id] = None => new.map[id][1] = NearestBy(s.metric, s.centroids, w)
        /\ new.count = IF s.held.map[id] # None /\ ~EntryAt(s.held, id).deleted
                       THEN s.held.count ELSE s.held.count + 1
    <3>. HIDE DEF w, e
    <3>. QED
      BY <1>4, InsertQuantizedIs DEF w, e
  <2>2. t.held = Whole(new)
    OBVIOUS
  <2>. HIDE DEF new, w, e
  <2>3. new \in AllContents
    BY <2>1 DEF Changed
  <2>4. Whole(new) = new
    BY <2>3, ContentsParts DEF Whole
  <2>. QED
    BY <2>1, <2>2, <2>4
<1>6. ~e.deleted
  BY DEF NewEntry
<1>. HIDE DEF w, e
<1>7. /\ t.held \in AllContents /\ Linked(t.held)
      /\ t.held.map[id] # None /\ EntryAt(t.held, id) = e
      /\ \A x \in Ids : x # id => t.held.map[x] = s.held.map[x]
                             /\ (s.held.map[x] # None => EntryAt(t.held, x) = EntryAt(s.held, x))
  BY <1>5 DEF Changed
<1>8. \A x \in Ids : HeldBy(t, x) <=> HeldBy(s, x) \/ x = id
  <2>1. HeldBy(t, id)
    BY <1>6, <1>7 DEF HeldBy
  <2>2. \A x \in Ids : x # id => (HeldBy(t, x) <=> HeldBy(s, x))
    BY <1>7 DEF HeldBy
  <2>. QED
    BY <2>1, <2>2
<1>9. Typed(t)
  <2>1. Fields(t)
    BY <1>2, <1>3, <1>7 DEF Fields
  <2>. QED
    BY <1>1, <1>3, <2>1, TypedIs DEF Typed
<1>10. Placed(t)
  <2>1. \A x \in Ids : t.given[x] # None <=> HeldBy(t, x)
    BY <1>1, <1>3, <1>8 DEF Placed
  <2>. QED
    BY <1>1, <1>7, <2>1 DEF Placed
<1>11. Counted(t)
  <2>1. s.given[id] # None <=> s.held.map[id] # None /\ ~EntryAt(s.held, id).deleted
    BY <1>1 DEF Placed, HeldBy
  <2>2. s.held.count \in Nat /\ s.countedTwice \in Nat
    BY <1>2, <1>4, ContentsParts DEF Fields
  <2>. QED
    BY <1>1, <1>2, <1>3, <1>5, <2>1, <2>2 DEF Counted
<1>12. Faithful(t)
  <2>1. ASSUME NEW x \in LiveOf(t)
        PROVE  LET y == Prepared(t.metric, t.given[x])
               IN  /\ EntryAt(t.held, x) = NewEntry(t.quantizer, x, y)
                   /\ x \notin t.moved => t.held.map[x][1] = NearestBy(t.metric, t.centroids, y)
    <3>1. CASE x = id
      <4>1. EntryAt(t.held, id) = NewEntry(s.quantizer, id, w)
        BY <1>7 DEF e
      <4>2. id \notin t.moved => s.held.map[id] = None
        BY DEF Given
      <4>. QED
        BY <1>3, <1>5, <3>1, <4>1, <4>2 DEF w
    <3>2. CASE x # id
      <4>1. x \in LiveOf(s) /\ x \in Ids /\ t.given[x] = s.given[x]
        BY <1>3, <2>1, <3>2 DEF LiveOf
      <4>2. s.held.map[x] # None
        BY <1>1, <4>1 DEF Placed, HeldBy, LiveOf
      <4>3. EntryAt(t.held, x) = EntryAt(s.held, x) /\ t.held.map[x] = s.held.map[x]
        BY <1>7, <3>2, <4>1, <4>2
      <4>4. x \notin t.moved => x \notin s.moved
        BY DEF Given
      <4>. QED
        BY <1>1, <1>3, <4>1, <4>3, <4>4 DEF Faithful
    <3>. QED
      BY <3>1, <3>2
  <2>. QED
    BY <2>1 DEF Faithful
<1>. QED
  BY <1>9, <1>10, <1>11, <1>12 DEF Sound

\* A document that is in a list is marked there.
Marked(held, id) ==
    [postings |-> [held.postings EXCEPT ![held.map[id][1]][held.map[id][2]].deleted = TRUE],
     map |-> held.map, count |-> IF held.count > 0 THEN held.count - 1 ELSE 0]

\* Marking an entry as deleted changes what the lists hold of its document only.
LEMMA MarkedIs ==
    ASSUME NEW held \in AllContents, Linked(held), NEW id \in Ids, held.map[id] # None
    PROVE  LET new == Marked(held, id)
           IN  /\ Changed(held, new, id, [EntryAt(held, id) EXCEPT !.deleted = TRUE])
               /\ new.count = IF held.count > 0 THEN held.count - 1 ELSE 0
               /\ EntryAt(new, id).deleted /\ new.map = held.map
<1> DEFINE at == held.map[id]
           old == EntryAt(held, id)
           e == [old EXCEPT !.deleted = TRUE]
           n == IF held.count > 0 THEN held.count - 1 ELSE 0
           over == [held.postings EXCEPT ![at[1]] = [held.postings[at[1]] EXCEPT ![at[2]] = e]]
           new == Marked(held, id)
<1>1. at[1] \in Lists /\ at[2] \in DOMAIN held.postings[at[1]] /\ old.id = id
  BY ContentsParts DEF Linked
<1>2. old \in ListEntries
  <2>. HIDE DEF at
  <2>. QED
    BY <1>1, ContentsParts DEF EntryAt, at
<1>3. e \in ListEntries /\ e.id = id /\ e.deleted
  BY <1>1, <1>2 DEF ListEntries
<1>4. n \in Nat
  BY ContentsParts
<1>5. new = [postings |-> over, map |-> held.map, count |-> n]
  BY DEF Marked, EntryAt
<1>6. Changed(held, new, id, e)
  <2>. HIDE DEF e, n, new
  <2>. QED
    BY <1>3, <1>4, <1>5, Replaced
<1>7. new.count = n /\ new.map = held.map
  <2>. HIDE DEF over, n, new
  <2>. QED
    BY <1>5
<1>8. EntryAt(new, id).deleted
  <2>. HIDE DEF e, new
  <2>. QED
    BY <1>3, <1>6 DEF Changed
<1>. QED
  BY <1>6, <1>7, <1>8

\* The deletion of a document in a list.
LEMMA DeletePostedIs ==
    ASSUME NEW s, Sound(s), NEW id \in Ids, s.held.map[id] # None,
           NEW t, Gone(s, t, id), t.cache = s.cache, t.leftoverDeleted = s.leftoverDeleted,
           t.held = IF EntryAt(s.held, id).deleted THEN s.held ELSE Marked(s.held, id)
    PROVE  Sound(t)
<1>1. Typed(s) /\ Placed(s) /\ Counted(s) /\ Faithful(s)
  BY DEF Sound
<1>2. Fields(s) /\ s.metric \in Metrics
  BY <1>1, GivenAre
<1>3. /\ IsRecord(t) /\ t.metric \in DOMAIN Vectors
      /\ t.given \in [Ids -> Int \cup {None}]
      /\ t.given \in [Ids -> Vectors[t.metric] \cup {None}]
      /\ LiveOf(t) = LiveOf(s) \ {id}
      /\ Cardinality(LiveOf(t)) = IF s.given[id] # None THEN Cardinality(LiveOf(s)) - 1 ELSE Cardinality(LiveOf(s))
      /\ Cardinality(LiveOf(t)) \in Nat /\ Cardinality(LiveOf(s)) \in Nat
      /\ t.given[id] = None /\ \A x \in Ids : x # id => t.given[x] = s.given[x]
      /\ t.metric = s.metric /\ t.quantizer = s.quantizer /\ t.centroids = s.centroids
      /\ t.moved = s.moved /\ t.countedTwice = s.countedTwice
  BY <1>1, GoneIs
<1>4. s.held \in AllContents /\ Linked(s.held) /\ s.quantizer # None /\ s.held.count \in Nat
      /\ s.countedTwice \in Nat
  BY <1>1, <1>2, ContentsParts DEF Fields, Placed
<1>5. s.given[id] # None <=> ~EntryAt(s.held, id).deleted
  BY <1>1, <1>4 DEF Placed, HeldBy
<1>6. /\ t.held \in AllContents /\ Linked(t.held) /\ t.held.map = s.held.map
      /\ EntryAt(t.held, id).deleted
      /\ \A x \in Ids : x # id /\ s.held.map[x] # None => EntryAt(t.held, x) = EntryAt(s.held, x)
      /\ t.held.count = IF s.given[id] # None /\ s.held.count > 0 THEN s.held.count - 1 ELSE s.held.count
  <2>1. CASE EntryAt(s.held, id).deleted
    BY <1>4, <1>5, <2>1
  <2>2. CASE ~EntryAt(s.held, id).deleted
    <3>1. t.held = Marked(s.held, id)
      BY <2>2
    <3>2. /\ Changed(s.held, t.held, id, [EntryAt(s.held, id) EXCEPT !.deleted = TRUE])
          /\ t.held.count = IF s.held.count > 0 THEN s.held.count - 1 ELSE 0
          /\ EntryAt(t.held, id).deleted /\ t.held.map = s.held.map
      BY <1>4, <3>1, MarkedIs
    <3>3. /\ t.held \in AllContents /\ Linked(t.held)
          /\ \A x \in Ids : x # id /\ s.held.map[x] # None => EntryAt(t.held, x) = EntryAt(s.held, x)
      BY <3>2 DEF Changed
    <3>4. t.held.count = IF s.given[id] # None /\ s.held.count > 0 THEN s.held.count - 1 ELSE s.held.count
      BY <1>4, <1>5, <2>2, <3>2
    <3>. QED
      BY <3>2, <3>3, <3>4
  <2>. QED
    BY <2>1, <2>2
<1>7. Typed(t)
  <2>1. Fields(t)
    BY <1>2, <1>3, <1>6 DEF Fields
  <2>. QED
    BY <1>1, <1>3, <2>1, TypedIs DEF Typed
<1>8. Placed(t)
  <2>1. ASSUME NEW x \in Ids PROVE t.given[x] # None <=> HeldBy(t, x)
    <3>1. CASE x = id
      BY <1>3, <1>4, <1>6, <3>1 DEF HeldBy
    <3>2. CASE x # id
      BY <1>1, <1>3, <1>4, <1>6, <3>2 DEF HeldBy, Placed
    <3>. QED
      BY <3>1, <3>2
  <2>. QED
    BY <1>1, <1>3, <1>6, <2>1 DEF Placed
<1>9. Counted(t)
  BY <1>1, <1>3, <1>4, <1>6 DEF Counted
<1>10. Faithful(t)
  <2>1. ASSUME NEW x \in LiveOf(t)
        PROVE  LET y == Prepared(t.metric, t.given[x])
               IN  /\ EntryAt(t.held, x) = NewEntry(t.quantizer, x, y)
                   /\ x \notin t.moved => t.held.map[x][1] = NearestBy(t.metric, t.centroids, y)
    <3>1. x \in LiveOf(s) /\ x \in Ids /\ x # id /\ t.given[x] = s.given[x]
      BY <1>3, <2>1 DEF LiveOf
    <3>2. s.held.map[x] # None
      BY <1>1, <1>4, <3>1 DEF Placed, HeldBy, LiveOf
    <3>. QED
      BY <1>1, <1>3, <1>4, <1>6, <3>1, <3>2 DEF Faithful
  <2>. QED
    BY <1>3, <1>4, <2>1 DEF Faithful
<1>. QED
  BY <1>7, <1>8, <1>9, <1>10 DEF Sound

\* A cache without the entry at a position.
Without(cache, i) == SubSeq(cache, 1, i - 1) \o SubSeq(cache, i + 1, Len(cache))

\* A cache without one of its entries has the others.
LEMMA WithoutIs ==
    ASSUME NEW cache \in Seq(CacheEntries), Distinct(cache), NEW i \in DOMAIN cache
    PROVE  LET rest == Without(cache, i)
           IN  /\ rest \in Seq(CacheEntries) /\ Distinct(rest)
               /\ \A j \in DOMAIN rest : \E k \in DOMAIN cache : k # i /\ rest[j] = cache[k]
               /\ \A k \in DOMAIN cache : k # i => \E j \in DOMAIN rest : rest[j] = cache[k]
<1> DEFINE n == Len(cache)
           rest == Without(cache, i)
           From(j) == IF j < i THEN j ELSE j + 1
<1>1. n \in Nat /\ i \in 1 .. n /\ DOMAIN cache = 1 .. n
  OBVIOUS
<1>2. rest \in Seq(CacheEntries) /\ DOMAIN rest = 1 .. n - 1
      /\ \A j \in 1 .. n - 1 : rest[j] = cache[From(j)]
  <2> DEFINE a == SubSeq(cache, 1, i - 1)
             b == SubSeq(cache, i + 1, n)
  <2>1. a \in Seq(CacheEntries) /\ Len(a) = i - 1 /\ \A j \in 1 .. i - 1 : a[j] = cache[j]
    BY <1>1, SubSeqProperties
  <2>2. b \in Seq(CacheEntries) /\ Len(b) = n - i /\ \A j \in 1 .. n - i : b[j] = cache[i + j]
    BY <1>1, SubSeqProperties
  <2>3. rest = a \o b
    BY DEF Without
  <2>. HIDE DEF a, b, rest, n
  <2>4. /\ rest \in Seq(CacheEntries) /\ Len(rest) = Len(a) + Len(b)
        /\ \A j \in 1 .. Len(rest) : rest[j] = IF j <= Len(a) THEN a[j] ELSE b[j - Len(a)]
    <3>1. a \in Seq(CacheEntries) /\ b \in Seq(CacheEntries)
      BY <2>1, <2>2
    <3>2. /\ a \o b \in Seq(CacheEntries)
          /\ Len(a \o b) = Len(a) + Len(b)
          /\ \A j \in 1 .. Len(a) + Len(b) : (a \o b)[j] = IF j <= Len(a) THEN a[j] ELSE b[j - Len(a)]
      BY <3>1, ConcatProperties, Zenon
    <3>. QED
      BY <2>3, <3>2
  <2>5. Len(rest) = n - 1 /\ Len(a) = i - 1
    BY <1>1, <2>1, <2>2, <2>4
  <2>6. ASSUME NEW j \in 1 .. n - 1 PROVE rest[j] = cache[From(j)]
    <3>1. CASE j < i
      BY <1>1, <2>1, <2>4, <2>5, <3>1
    <3>2. CASE ~ (j < i)
      <4>1. rest[j] = b[j - (i - 1)] /\ j - (i - 1) \in 1 .. n - i /\ i + (j - (i - 1)) = j + 1
        BY <1>1, <2>4, <2>5, <3>2
      <4>. QED
        BY <2>2, <3>2, <4>1
    <3>. QED
      BY <3>1, <3>2
  <2>. QED
    BY <2>4, <2>5, <2>6
<1>. HIDE DEF rest, n
<1>3. \A j \in 1 .. n - 1 : From(j) \in DOMAIN cache /\ From(j) # i
  BY <1>1
<1>4. \A k \in DOMAIN cache : k # i => \E j \in 1 .. n - 1 : From(j) = k
  <2> SUFFICES ASSUME NEW k \in DOMAIN cache, k # i PROVE \E j \in 1 .. n - 1 : From(j) = k
    OBVIOUS
  <2>1. CASE k < i
    BY <1>1, <2>1
  <2>2. CASE ~ (k < i)
    <3>1. k - 1 \in 1 .. n - 1 /\ From(k - 1) = k
      BY <1>1, <2>2
    <3>. HIDE DEF From
    <3>. QED
      BY <3>1
  <2>. QED
    BY <2>1, <2>2
<1>5. \A j, k \in 1 .. n - 1 : From(j) = From(k) => j = k
  BY <1>1
<1>. HIDE DEF From
<1>6. Distinct(rest)
  BY <1>2, <1>3, <1>5 DEF Distinct
<1>. QED
  BY <1>2, <1>3, <1>4, <1>6 DEF rest

\* A document that no list has is taken out of the cache, where it may be a
\* leftover of a retraining.
LEMMA DeleteCachedIs ==
    ASSUME NEW s, Sound(s), NEW id \in Ids, s.held.map[id] = None,
           NEW i \in DOMAIN s.cache, s.cache[i].id = id,
           NEW t, Gone(s, t, id), t.cache = Without(s.cache, i),
           t.leftoverDeleted = (s.leftoverDeleted \/ s.quantizer # None),
           t.held = [postings |-> s.held.postings, map |-> s.held.map,
                     count |-> IF s.held.count > 0 THEN s.held.count - 1 ELSE 0]
    PROVE  Sound(t)
<1>1. Typed(s) /\ Placed(s) /\ Counted(s) /\ Faithful(s)
  BY DEF Sound
<1>2. Fields(s) /\ s.metric \in Metrics
  BY <1>1, GivenAre
<1>3. /\ IsRecord(t) /\ t.metric \in DOMAIN Vectors
      /\ t.given \in [Ids -> Int \cup {None}]
      /\ t.given \in [Ids -> Vectors[t.metric] \cup {None}]
      /\ LiveOf(t) = LiveOf(s) \ {id}
      /\ Cardinality(LiveOf(t)) = IF s.given[id] # None THEN Cardinality(LiveOf(s)) - 1 ELSE Cardinality(LiveOf(s))
      /\ Cardinality(LiveOf(t)) \in Nat /\ Cardinality(LiveOf(s)) \in Nat
      /\ t.given[id] = None /\ \A x \in Ids : x # id => t.given[x] = s.given[x]
      /\ t.metric = s.metric /\ t.quantizer = s.quantizer /\ t.centroids = s.centroids
      /\ t.moved = s.moved /\ t.countedTwice = s.countedTwice
  BY <1>1, GoneIs
<1>4. s.held \in AllContents /\ Linked(s.held) /\ s.cache \in Seq(CacheEntries) /\ Distinct(s.cache)
      /\ s.leftoverDeleted \in BOOLEAN /\ s.countedTwice \in Nat
  BY <1>1, <1>2 DEF Fields, Placed
<1>5. /\ t.cache \in Seq(CacheEntries) /\ Distinct(t.cache)
      /\ \A j \in DOMAIN t.cache : \E k \in DOMAIN s.cache : k # i /\ t.cache[j] = s.cache[k]
      /\ \A k \in DOMAIN s.cache : k # i => \E j \in DOMAIN t.cache : t.cache[j] = s.cache[k]
  BY <1>4, WithoutIs
<1>6. /\ t.held \in AllContents /\ t.held.map = s.held.map /\ t.held.postings = s.held.postings
      /\ t.held.count = IF s.held.count > 0 THEN s.held.count - 1 ELSE 0
      /\ s.held.count \in Nat
  <2>1. /\ t.held.map = s.held.map /\ t.held.postings = s.held.postings
        /\ t.held.count = (IF s.held.count > 0 THEN s.held.count - 1 ELSE 0)
        /\ s.held.count \in Nat
    BY <1>4, ContentsParts
  <2>2. (IF s.held.count > 0 THEN s.held.count - 1 ELSE 0) \in Nat
    BY <2>1
  <2>3. t.held \in AllContents
    <3> DEFINE n == IF s.held.count > 0 THEN s.held.count - 1 ELSE 0
    <3>1. t.held = [postings |-> s.held.postings, map |-> s.held.map, count |-> n] /\ n \in Nat
      BY <2>2
    <3>. HIDE DEF n
    <3>. QED
      BY <1>4, <3>1, ContentsParts DEF AllContents
  <2>. QED
    BY <2>1, <2>3
<1>7. Linked(t.held)
  BY <1>4, <1>6, LinkedSame
<1>8. s.given[id] # None <=> s.quantizer = None
  BY <1>1 DEF Placed, HeldBy
<1>9. ASSUME NEW x \in Ids, x # id
      PROVE  (\E j \in DOMAIN t.cache : t.cache[j].id = x) <=> (\E k \in DOMAIN s.cache : s.cache[k].id = x)
  BY <1>5, <1>9
<1>10. ~ \E j \in DOMAIN t.cache : t.cache[j].id = id
  BY <1>4, <1>5 DEF Distinct
<1>11. Typed(t)
  <2>1. t.leftoverDeleted \in BOOLEAN
    BY <1>4
  <2>2. Fields(t)
    BY <1>2, <1>3, <1>5, <1>6, <2>1 DEF Fields
  <2>. QED
    BY <1>1, <1>3, <2>2, TypedIs DEF Typed
<1>12. Placed(t)
  <2>1. ASSUME NEW x \in Ids PROVE t.given[x] # None <=> HeldBy(t, x)
    <3>1. CASE x = id
      BY <1>3, <1>6, <1>10, <3>1 DEF HeldBy
    <3>2. CASE x # id
      <4>1. HeldBy(t, x) <=> HeldBy(s, x)
        <5>1. CASE s.quantizer = None
          BY <1>3, <1>9, <3>2, <5>1 DEF HeldBy
        <5>2. CASE s.quantizer # None
          BY <1>3, <1>6, <5>2 DEF HeldBy, EntryAt
        <5>. QED
          BY <5>1, <5>2
      <4>. QED
        BY <1>1, <1>3, <3>2, <4>1 DEF Placed
    <3>. QED
      BY <3>1, <3>2
  <2>. QED
    BY <1>1, <1>3, <1>5, <1>6, <1>7, <2>1 DEF Placed
<1>13. Counted(t)
  <2>1. CASE s.quantizer = None
    <3>1. s.held.count = Cardinality(LiveOf(s)) /\ ~t.leftoverDeleted /\ t.countedTwice = 0
      <4>1. ~s.leftoverDeleted /\ s.countedTwice = 0 /\ s.held.count = Cardinality(LiveOf(s)) + s.countedTwice
        BY <1>1, <2>1, Zenon DEF Counted
      <4>2. ~t.leftoverDeleted
        BY <2>1, <4>1, Zenon
      <4>. QED
        BY <1>3, <4>1, <4>2
    <3>2. Cardinality(LiveOf(t)) = Cardinality(LiveOf(s)) - 1
      BY <1>3, <1>8, <2>1
    <3>. QED
      BY <1>3, <1>6, <3>1, <3>2 DEF Counted
  <2>2. CASE s.quantizer # None
    <3>1. Cardinality(LiveOf(t)) = Cardinality(LiveOf(s)) /\ t.leftoverDeleted
      BY <1>3, <1>8, <2>2
    <3>2. s.held.count <= Cardinality(LiveOf(s)) + s.countedTwice
      BY <1>1 DEF Counted
    <3>. QED
      BY <1>3, <1>4, <1>6, <2>2, <3>1, <3>2 DEF Counted
  <2>. QED
    BY <2>1, <2>2
<1>14. Faithful(t)
  <2>1. ASSUME s.quantizer = None, NEW j \in DOMAIN t.cache
        PROVE  t.cache[j].vector = Prepared(t.metric, t.given[t.cache[j].id])
    <3>1. PICK k \in DOMAIN s.cache : k # i /\ t.cache[j] = s.cache[k]
      BY <1>5
    <3>2. s.cache[k].id # id /\ s.cache[k].id \in Ids
      BY <1>4, <3>1, EntriesAre DEF Distinct
    <3>. QED
      BY <1>1, <1>3, <2>1, <3>1, <3>2 DEF Faithful
  <2>2. ASSUME s.quantizer # None, NEW x \in LiveOf(t)
        PROVE  LET y == Prepared(t.metric, t.given[x])
               IN  /\ EntryAt(t.held, x) = NewEntry(t.quantizer, x, y)
                   /\ x \notin t.moved => t.held.map[x][1] = NearestBy(t.metric, t.centroids, y)
    <3>1. x \in LiveOf(s) /\ t.given[x] = s.given[x]
      BY <1>3, <2>2 DEF LiveOf
    <3>2. EntryAt(t.held, x) = EntryAt(s.held, x) /\ t.held.map[x] = s.held.map[x]
      BY <1>6 DEF EntryAt
    <3>. QED
      BY <1>1, <1>3, <2>2, <3>1, <3>2 DEF Faithful
  <2>. QED
    BY <1>3, <2>1, <2>2 DEF Faithful
<1>. QED
  BY <1>11, <1>12, <1>13, <1>14 DEF Sound

\* A document that neither a list nor the cache has: nothing changes.
LEMMA DeleteAbsentIs ==
    ASSUME NEW s, Sound(s), NEW id \in Ids, s.held.map[id] = None, \A i \in DOMAIN s.cache : s.cache[i].id # id,
           NEW t, Gone(s, t, id), t.cache = s.cache, t.leftoverDeleted = s.leftoverDeleted, t.held = s.held
    PROVE  Sound(t)
<1>1. Typed(s) /\ Placed(s)
  BY DEF Sound
<1>2. IsRecord(s) /\ Fields(s)
  BY <1>1, GivenAre
<1>3. /\ IsRecord(t) /\ t.given[id] = None /\ \A x \in Ids : x # id => t.given[x] = s.given[x]
      /\ t.given \in [Ids -> Int \cup {None}]
      /\ t.metric = s.metric /\ t.quantizer = s.quantizer /\ t.centroids = s.centroids
      /\ t.moved = s.moved /\ t.countedTwice = s.countedTwice
  BY <1>1, GoneIs
<1>4. s.given[id] = None
  BY <1>1 DEF Placed, HeldBy
<1>5. t.given = s.given
  BY <1>2, <1>3, <1>4 DEF Fields
<1>6. t = s
  BY <1>2, <1>3, <1>5 DEF IsRecord
<1>. QED
  BY <1>6

\* The caller trains the index anew, on any documents.
HasRetrained(s, t, documents) ==
    /\ IsRecord(t) /\ t.metric = s.metric /\ t.cache = s.cache
    /\ t.given = [id \in Ids |-> IF id \in IdsIn(documents)
                                THEN documents[LastNaming(documents, id)].vector ELSE None]
    /\ t.moved = {id \in Ids : \E i, j \in Naming(documents, id) : i # j}
    /\ t.countedTwice = 0 /\ t.leftoverDeleted = FALSE
    /\ t.quantizer = TrainQuantizer(VectorsOf(documents))
    /\ t.centroids = TrainKmeans(VectorsOf(documents))
    /\ t.held = Whole(InsertAll(Emptied, t.quantizer, t.centroids, PreparedEach(documents)))

\* The contents that a retraining starts from.
LEMMA EmptiedIs == /\ Emptied \in AllContents /\ Linked(Emptied) /\ Emptied.count = 0
                   /\ Emptied.postings = [c \in Lists |-> <<>>]
                   /\ Emptied.map = [id \in Ids |-> None]
                   /\ \A id \in Ids : Emptied.map[id] = None
<1>1. /\ Emptied.count = 0 /\ Emptied.postings = [c \in Lists |-> <<>>] /\ Emptied.map = [id \in Ids |-> None]
  BY DEF Emptied
<1>2. Emptied \in AllContents
  BY DEF Emptied, AllContents
<1>3. Linked(Emptied)
  BY <1>1 DEF Linked
<1>. QED
  BY <1>1, <1>2, <1>3

\* Of the documents with one id there is a last.
LEMMA LastNamingIs ==
    ASSUME NEW documents, NEW n \in Nat, DOMAIN documents = 1 .. n, NEW id \in IdsIn(documents)
    PROVE  /\ LastNaming(documents, id) \in Naming(documents, id)
           /\ \A j \in Naming(documents, id) : j <= LastNaming(documents, id)
<1> DEFINE F == Naming(documents, id)
           f == [i \in 1 .. n |-> i]
<1>1. F \in SUBSET (1 .. n) /\ F # {} /\ \A i \in F : f[i] = i /\ f[i] \in Int
  BY DEF Naming, IdsIn
<1>. HIDE DEF F, f
<1>2. \E i \in F : \A j \in F : f[i] >= f[j]
  BY <1>1, GreatestOf
<1>3. \E i \in F : \A j \in F : j <= i
  BY <1>1, <1>2
<1>. QED
  BY <1>3 DEF LastNaming, F

\* What the documents of a retraining are, and what is inserted of them.
LEMMA RetrainingIs ==
    ASSUME metric \in DOMAIN Vectors, NEW documents \in Retrainings[metric]
    PROVE  /\ Len(documents) \in Nat /\ DOMAIN documents = 1 .. Len(documents)
           /\ \A i \in DOMAIN documents :
                 /\ documents[i].id \in Ids /\ documents[i].vector \in Vectors[metric]
                 /\ documents[i].vector \in Int /\ documents[i].vector # None
           /\ VectorsOf(documents) \in Seq(Int) /\ Len(VectorsOf(documents)) = Len(documents)
           /\ PreparedEach(documents) \in Seq(CacheEntries)
           /\ Len(PreparedEach(documents)) = Len(documents)
           /\ \A i \in DOMAIN documents :
                 /\ PreparedEach(documents)[i].id = documents[i].id
                 /\ PreparedEach(documents)[i].vector = Prepared(metric, documents[i].vector)
<1> DEFINE n == Len(documents)
           pair(i) == [id |-> documents[i].id, vector |-> Prepared(metric, documents[i].vector)]
<1> DEFINE pairs == [id : Ids, vector : Vectors[metric]]
<1>1. documents \in Seq(pairs) /\ metric \in Metrics
  BY IvfAssumption, RetrainingsAssumption
<1>2. n \in Nat /\ DOMAIN documents = 1 .. n /\ \A i \in 1 .. n : documents[i] \in pairs
  <2>. HIDE DEF pairs
  <2>. QED
    BY <1>1
<1>3. \A i \in 1 .. n : /\ documents[i].id \in Ids /\ documents[i].vector \in Vectors[metric]
                       /\ documents[i].vector \in Int /\ documents[i].vector # None
  BY <1>2, IvfAssumption
<1>. HIDE DEF n, pairs
<1>4. VectorsOf(documents) \in Seq(Int) /\ Len(VectorsOf(documents)) = n
  BY <1>2, <1>3 DEF VectorsOf
<1>5. \A i \in 1 .. n : pair(i) \in CacheEntries
  <2>1. \A i \in 1 .. n : Prepared(metric, documents[i].vector) \in Int
    BY <1>1, <1>3, Values
  <2>. QED
    BY <1>3, <2>1 DEF CacheEntries
<1>6. /\ PreparedEach(documents) \in Seq(CacheEntries) /\ Len(PreparedEach(documents)) = n
      /\ \A i \in 1 .. n : PreparedEach(documents)[i] = pair(i)
  <2>1. PreparedEach(documents) = [i \in 1 .. n |-> pair(i)]
    BY <1>2 DEF PreparedEach
  <2>. HIDE DEF pair
  <2>. QED
    BY <1>2, <1>5, <2>1
<1>7. \A i \in 1 .. n : /\ PreparedEach(documents)[i].id = documents[i].id
                       /\ PreparedEach(documents)[i].vector = Prepared(metric, documents[i].vector)
  <2>1. \A i \in 1 .. n : pair(i).id = documents[i].id
                         /\ pair(i).vector = Prepared(metric, documents[i].vector)
    OBVIOUS
  <2>. HIDE DEF pair
  <2>. QED
    BY <1>6, <2>1
<1>. HIDE DEF pair
<1>. QED
  BY <1>2, <1>3, <1>4, <1>6, <1>7 DEF n

\* A retraining: its documents, and no others, are in the new lists.
LEMMA RetrainIs ==
    ASSUME NEW s, Sound(s), metric = s.metric, NEW documents \in Retrainings[metric],
           Len(documents) >= NCentroids, NEW t, HasRetrained(s, t, documents)
    PROVE  Sound(t)
<1> DEFINE n == Len(documents)
           raw == VectorsOf(documents)
           entries == PreparedEach(documents)
           last(id) == LastNaming(documents, id)
<1>1. Typed(s) /\ Placed(s)
  BY DEF Sound
<1>2. Fields(s) /\ metric \in DOMAIN Vectors
  BY <1>1, GivenAre DEF Fields
<1>3. /\ n \in Nat /\ DOMAIN documents = 1 .. n
      /\ \A i \in 1 .. n : /\ documents[i].id \in Ids /\ documents[i].vector \in Vectors[metric]
                          /\ documents[i].vector # None
      /\ raw \in Seq(Int) /\ Len(raw) = n /\ n >= NCentroids
      /\ entries \in Seq(CacheEntries) /\ Len(entries) = n
      /\ \A i \in 1 .. n : /\ entries[i].id = documents[i].id
                          /\ entries[i].vector = Prepared(metric, documents[i].vector)
  BY <1>2, RetrainingIs
<1>4. DOMAIN entries = 1 .. n
  BY <1>3
<1>5. /\ IsRecord(t) /\ t.metric = metric /\ t.cache = s.cache
      /\ t.given = [id \in Ids |-> IF id \in IdsIn(documents) THEN documents[last(id)].vector ELSE None]
      /\ t.moved = {id \in Ids : \E i, j \in Naming(documents, id) : i # j}
      /\ t.countedTwice = 0 /\ t.leftoverDeleted = FALSE
      /\ t.quantizer = TrainQuantizer(raw) /\ t.centroids = TrainKmeans(raw)
      /\ t.held = Whole(InsertAll(Emptied, t.quantizer, t.centroids, entries))
  BY DEF HasRetrained
<1>6. \A id \in IdsIn(documents) : /\ last(id) \in Naming(documents, id)
                                  /\ \A j \in Naming(documents, id) : j <= last(id)
  BY <1>3, LastNamingIs
<1>7. \A id, i : i \in Naming(documents, id) <=> i \in 1 .. n /\ entries[i].id = id
  BY <1>3 DEF Naming
<1>8. \A id : id \in IdsIn(documents) <=> \E i \in 1 .. n : entries[i].id = id
  BY <1>3 DEF IdsIn
<1>. HIDE DEF raw, entries, last, n
<1>9. \A id \in IdsIn(documents) : /\ last(id) \in 1 .. n /\ entries[last(id)].id = id
                                  /\ documents[last(id)].vector \in Vectors[metric]
                                  /\ documents[last(id)].vector # None
  BY <1>3, <1>6, <1>7
<1>10. \A id \in Ids : t.given[id] # None <=> id \in IdsIn(documents)
  BY <1>5, <1>9
<1>11. ASSUME NEW x \in LiveOf(t) PROVE \E i \in DOMAIN entries : IsEntryOf(t, entries, i, x)
  <2>1. x \in Ids /\ x \in IdsIn(documents)
    BY <1>10 DEF LiveOf
  <2>2. /\ last(x) \in DOMAIN entries /\ entries[last(x)].id = x
        /\ entries[last(x)].vector = Prepared(t.metric, t.given[x])
    BY <1>3, <1>4, <1>5, <1>9, <2>1
  <2>3. LastAmong(entries, last(x), Len(entries))
    <3>1. ASSUME NEW j \in last(x) + 1 .. n, entries[j].id = x PROVE FALSE
      <4>1. j \in Naming(documents, x) /\ last(x) \in 1 .. n
        BY <1>3, <1>4, <1>7, <2>2, <3>1
      <4>2. j <= last(x)
        BY <1>6, <2>1, <4>1
      <4>. QED
        BY <3>1, <4>1, <4>2
    <3>. QED
      BY <1>3, <2>2, <3>1 DEF LastAmong
  <2>4. x \notin t.moved => FirstAmong(entries, last(x))
    <3> SUFFICES ASSUME x \notin t.moved, NEW j \in 1 .. last(x) - 1, entries[j].id = x PROVE FALSE
      BY <2>2 DEF FirstAmong
    <3>1. j \in 1 .. n /\ j # last(x) /\ last(x) \in 1 .. n
      BY <1>3, <1>4, <2>2
    <3>2. j \in Naming(documents, x) /\ last(x) \in Naming(documents, x)
      BY <1>7, <2>2, <3>1
    <3>. QED
      BY <1>5, <2>1, <3>1, <3>2
  <2>. QED
    BY <2>2, <2>3, <2>4 DEF IsEntryOf
<1>12. Emptied.count + Cardinality(IdsIn(entries)) = Cardinality(LiveOf(t)) + t.countedTwice
  <2>1. IdsIn(entries) = LiveOf(t)
    <3>1. \A id : id \in IdsIn(entries) <=> id \in IdsIn(documents)
      BY <1>4, <1>8 DEF IdsIn
    <3>2. IdsIn(documents) \subseteq Ids
      BY <1>3 DEF IdsIn
    <3>. QED
      BY <1>10, <3>1, <3>2 DEF LiveOf
  <2>2. LiveOf(t) \subseteq Ids
    BY DEF LiveOf
  <2>3. Cardinality(LiveOf(t)) \in Nat
    BY <2>2, IvfAssumption, FS_Subset, FS_CardinalityType
  <2>. QED
    BY <1>5, <2>1, <2>3, EmptiedIs
<1>13. /\ t.metric \in DOMAIN Vectors /\ t.given \in [Ids -> Vectors[t.metric] \cup {None}]
       /\ t.cache \in Seq(CacheEntries) /\ Distinct(t.cache) /\ metric = t.metric
  <2>1. t.given \in [Ids -> Vectors[metric] \cup {None}]
    BY <1>5, <1>9
  <2>. QED
    BY <1>1, <1>2, <1>5, <2>1 DEF Fields, Placed
<1>14. t.moved \in SUBSET Ids /\ t.countedTwice \in Nat /\ t.leftoverDeleted \in BOOLEAN
  <2>1. t.moved \in SUBSET Ids /\ t.countedTwice \in Nat
    BY <1>5
  <2>2. t.leftoverDeleted \in BOOLEAN
    BY <1>5, Zenon
  <2>. QED
    BY <2>1, <2>2
<1>15. \A id \in Ids : t.given[id] # None <=> \E i \in DOMAIN entries : entries[i].id = id
  BY <1>4, <1>8, <1>10
<1>16. Len(raw) >= NCentroids
  BY <1>3
<1>. QED
  BY <1>3, <1>5, <1>11, <1>12, <1>13, <1>14, <1>15, <1>16, EmptiedIs, TrainingIs

-----------------------------------------------------------------------------
(* The inductive invariant.                                                *)

IInv == Sound(Snapshot) /\ (bytes = NoBytes \/ Sound(bytes)) /\ inserts \in 0 .. MaxInserts

\* The fields of a snapshot are the variables.
LEMMA SnapshotIs ==
    /\ IsRecord(Snapshot)
    /\ Snapshot.metric = metric /\ Snapshot.quantizer = quantizer /\ Snapshot.centroids = centroids
    /\ Snapshot.held.postings = postings /\ Snapshot.held.map = docToPosting
    /\ Snapshot.held.count = activeCount /\ Snapshot.held = Contents
    /\ Snapshot.cache = trainingCache /\ Snapshot.given = given /\ Snapshot.moved = moved
    /\ Snapshot.countedTwice = countedTwice /\ Snapshot.leftoverDeleted = leftoverDeleted
    /\ LiveOf(Snapshot) = Live
BY DEF Snapshot, IsRecord, Contents, LiveOf, Live

\* The inductive invariant: at the start, by each action, by every step, always.
LEMMA InitInvariant == Init => IInv
<1> SUFFICES ASSUME Init PROVE IInv
  OBVIOUS
<1> DEFINE s == Snapshot
<1>1. /\ IsRecord(s) /\ s.metric \in DOMAIN Vectors /\ s.quantizer = None /\ s.centroids = <<>>
      /\ s.held = Whole(Emptied) /\ s.cache = <<>> /\ s.given = [id \in Ids |-> None] /\ s.moved = {}
      /\ s.countedTwice = 0 /\ s.leftoverDeleted = FALSE
  <2>1. /\ metric \in DOMAIN Vectors /\ quantizer = None /\ centroids = <<>>
        /\ postings = Emptied.postings /\ docToPosting = Emptied.map /\ activeCount = Emptied.count
        /\ trainingCache = <<>> /\ given = [id \in Ids |-> None] /\ moved = {}
        /\ countedTwice = 0 /\ leftoverDeleted = FALSE
    BY EmptiedIs DEF Init
  <2>2. Contents = Whole(Emptied)
    BY <2>1 DEF Contents, Whole
  <2>. HIDE DEF s
  <2>. QED
    BY <2>1, <2>2, SnapshotIs DEF s
<1>. HIDE DEF s
<1>2. s.held = Emptied
  BY <1>1, EmptiedIs, ContentsParts DEF Whole
<1>3. Typed(s)
  <2>1. s.cache \in Seq(CacheEntries) /\ s.centroids \in Seq(Int) /\ Len(s.centroids) = 0
    BY <1>1
  <2>2. s.leftoverDeleted \in BOOLEAN
    BY <1>1, Zenon
  <2>3. s.countedTwice \in Nat /\ s.moved \in SUBSET Ids /\ s.quantizer \in Quantizers \cup {None}
        /\ s.given \in [Ids -> Int \cup {None}] /\ s.given \in [Ids -> Vectors[s.metric] \cup {None}]
    BY <1>1
  <2>4. Fields(s)
    BY <1>1, <1>2, <2>1, <2>2, <2>3, EmptiedIs DEF Fields
  <2>. QED
    BY <1>1, <2>1, <2>3, <2>4, TypedIs
<1>4. Placed(s)
  BY <1>1, <1>2, EmptiedIs DEF Placed, HeldBy, Distinct
<1>5. Counted(s)
  <2>1. LiveOf(s) = {}
    BY <1>1 DEF LiveOf
  <2>2. Cardinality(LiveOf(s)) = 0
    BY <2>1, FS_EmptySet
  <2>3. ~s.leftoverDeleted
    BY <1>1, Zenon
  <2>. QED
    BY <1>1, <1>2, <2>2, <2>3, EmptiedIs DEF Counted
<1>6. Faithful(s)
  BY <1>1 DEF Faithful
<1>7. bytes = NoBytes /\ inserts \in 0 .. MaxInserts
  BY IvfAssumption DEF Init
<1>. QED
  BY <1>3, <1>4, <1>5, <1>6, <1>7 DEF IInv, Sound, s

\* By an insertion, in any of its branches.
LEMMA InsertInvariant ==
    ASSUME IInv, NEW id \in Ids, NEW v \in Vectors[metric], Insert(id, v)
    PROVE  Sound(Snapshot')
<1> DEFINE s == Snapshot
           t == Snapshot'
           w == Prepared(metric, v)
           entry == [id |-> id, vector |-> w]
<1> SUFFICES Sound(t)
  OBVIOUS
<1>1. Sound(s)
  BY DEF IInv
<1>2. /\ s.metric = metric /\ s.quantizer = quantizer /\ s.centroids = centroids
      /\ s.held.postings = postings /\ s.held.map = docToPosting /\ s.held.count = activeCount
      /\ s.held = Contents /\ s.cache = trainingCache /\ s.given = given /\ s.moved = moved
      /\ s.countedTwice = countedTwice /\ s.leftoverDeleted = leftoverDeleted
  BY SnapshotIs
<1>3. /\ IsRecord(t) /\ t.metric = metric' /\ t.quantizer = quantizer' /\ t.centroids = centroids'
      /\ t.held = [postings |-> postings', map |-> docToPosting', count |-> activeCount']
      /\ t.cache = trainingCache' /\ t.given = given' /\ t.moved = moved'
      /\ t.countedTwice = countedTwice' /\ t.leftoverDeleted = leftoverDeleted'
  BY DEF Snapshot, IsRecord, Contents
<1>4. Given(s, t, id, v)
  <2>1. /\ given' = [given EXCEPT ![id] = v] /\ metric' = metric /\ leftoverDeleted' = leftoverDeleted
        /\ moved' = IF docToPosting[id] # None THEN moved \cup {id} ELSE moved
    BY DEF Insert
  <2>. HIDE DEF s, t
  <2>. QED
    BY <1>2, <1>3, <2>1 DEF Given
<1>5. v \in Vectors[s.metric] /\ metric = s.metric /\ w = Prepared(s.metric, v)
  BY <1>2
<1>. HIDE DEF s, t, w, entry
<1>6. CASE InsertTrained(id, w)
  <2>1. /\ quantizer # None /\ quantizer' = quantizer /\ centroids' = centroids
        /\ trainingCache' = trainingCache /\ countedTwice' = countedTwice
        /\ [postings |-> postings', map |-> docToPosting', count |-> activeCount']
              = Whole(InsertQuantized(Contents, quantizer, centroids, id, w))
    BY <1>6 DEF InsertTrained, Become, Whole
  <2>. QED
    BY <1>1, <1>2, <1>3, <1>4, <1>5, <2>1, InsertTrainedIs
<1>7. CASE quantizer = None /\ CacheVector(id, w)
  <2>1. Where(id) \in DOMAIN s.cache /\ s.cache[Where(id)].id = id
    BY <1>2, <1>7 DEF CacheVector, Where, Cached
  <2>2. /\ t.cache = [s.cache EXCEPT ![Where(id)].vector = w]
        /\ t.quantizer = s.quantizer /\ t.centroids = s.centroids
        /\ t.held = s.held /\ t.countedTwice = s.countedTwice
    BY <1>2, <1>3, <1>7 DEF CacheVector, Contents
  <2>. QED
    BY <1>1, <1>2, <1>4, <1>5, <1>7, <2>1, <2>2, CacheVectorIs
<1>8. CASE quantizer = None /\ Cached(id) = {} /\ CacheDocument(Append(trainingCache, entry))
  <2>1. \A i \in DOMAIN s.cache : s.cache[i].id # id
    BY <1>2, <1>8 DEF Cached
  <2>2. /\ t.cache = Append(s.cache, entry)
        /\ t.quantizer = s.quantizer /\ t.centroids = s.centroids /\ t.countedTwice = s.countedTwice
        /\ t.held = [postings |-> s.held.postings, map |-> s.held.map, count |-> s.held.count + 1]
    BY <1>2, <1>3, <1>8 DEF CacheDocument
  <2>3. entry = [id |-> id, vector |-> Prepared(s.metric, v)]
    BY <1>5 DEF entry
  <2>. QED
    BY <1>1, <1>2, <1>4, <1>5, <1>8, <2>1, <2>2, <2>3, CacheDocumentIs
<1>9. CASE quantizer = None /\ Cached(id) = {} /\ Train(Append(trainingCache, entry))
  <2> DEFINE entries == Append(trainingCache, entry)
             base == [postings |-> s.held.postings, map |-> s.held.map, count |-> s.held.count + 1]
  <2>1. \A i \in DOMAIN s.cache : s.cache[i].id # id
    BY <1>2, <1>9 DEF Cached
  <2>2. entries = Append(s.cache, [id |-> id, vector |-> Prepared(s.metric, v)])
    BY <1>2, <1>5 DEF entry
  <2>3. [Contents EXCEPT !.count = @ + 1] = base
    BY <1>2 DEF Contents
  <2>. HIDE DEF entries, base
  <2>4. /\ Len(entries) >= NCentroids
        /\ quantizer' = TrainQuantizer(VectorsOf(entries))
        /\ centroids' = TrainKmeans(VectorsOf(entries))
        /\ Become(InsertAll(base, quantizer', centroids', entries))
        /\ trainingCache' = <<>> /\ countedTwice' = Cardinality(IdsIn(entries))
    BY <1>9, <2>3 DEF Train, entries
  <2>5. t.held = Whole(InsertAll(base, t.quantizer, t.centroids, entries))
    BY <1>3, <2>4 DEF Become, Whole
  <2>6. HasTrained(s, t, entries)
    BY <1>3, <2>4, <2>5 DEF HasTrained, base
  <2>. QED
    BY <1>1, <1>2, <1>4, <1>5, <1>9, <2>1, <2>2, <2>4, <2>6, TrainIs
<1>10. \/ InsertTrained(id, w)
       \/ quantizer = None /\ CacheVector(id, w)
       \/ quantizer = None /\ Cached(id) = {} /\ CacheDocument(Append(trainingCache, entry))
       \/ quantizer = None /\ Cached(id) = {} /\ Train(Append(trainingCache, entry))
  BY DEF Insert, InsertCold, w, entry
<1>. QED
  BY <1>6, <1>7, <1>8, <1>9, <1>10

\* By a deletion, likewise.
LEMMA DeleteInvariant ==
    ASSUME IInv, NEW id \in Ids, Delete(id)
    PROVE  Sound(Snapshot')
<1> DEFINE s == Snapshot
           t == Snapshot'
<1> SUFFICES Sound(t)
  OBVIOUS
<1>1. Sound(s)
  BY DEF IInv
<1>2. /\ s.metric = metric /\ s.quantizer = quantizer /\ s.centroids = centroids
      /\ s.held.postings = postings /\ s.held.map = docToPosting /\ s.held.count = activeCount
      /\ s.held = [postings |-> postings, map |-> docToPosting, count |-> activeCount]
      /\ s.cache = trainingCache /\ s.given = given /\ s.moved = moved
      /\ s.countedTwice = countedTwice /\ s.leftoverDeleted = leftoverDeleted
  BY SnapshotIs DEF Contents
<1>3. /\ IsRecord(t) /\ t.metric = metric' /\ t.quantizer = quantizer' /\ t.centroids = centroids'
      /\ t.held = [postings |-> postings', map |-> docToPosting', count |-> activeCount']
      /\ t.cache = trainingCache' /\ t.given = given' /\ t.moved = moved'
      /\ t.countedTwice = countedTwice' /\ t.leftoverDeleted = leftoverDeleted'
  BY DEF Snapshot, IsRecord, Contents
<1>. HIDE DEF s, t
<1>4. Gone(s, t, id) /\ docToPosting' = docToPosting
  <2>1. /\ given' = [given EXCEPT ![id] = None]
        /\ metric' = metric /\ quantizer' = quantizer /\ centroids' = centroids
        /\ docToPosting' = docToPosting /\ moved' = moved /\ countedTwice' = countedTwice
    BY DEF Delete
  <2>. QED
    BY <1>2, <1>3, <2>1 DEF Gone
<1>5. CASE DeletePosted(id)
  <2>1. s.held.map[id] # None /\ t.cache = s.cache /\ t.leftoverDeleted = s.leftoverDeleted
    BY <1>2, <1>3, <1>5 DEF DeletePosted
  <2>2. EntryOf(id) = EntryAt(s.held, id)
    BY <1>2 DEF EntryOf, EntryAt
  <2>3. t.held = IF EntryAt(s.held, id).deleted THEN s.held ELSE Marked(s.held, id)
    <3>1. CASE EntryOf(id).deleted
      BY <1>2, <1>3, <1>4, <1>5, <2>2, <3>1 DEF DeletePosted
    <3>2. CASE ~EntryOf(id).deleted
      <4>1. /\ postings' = [postings EXCEPT ![docToPosting[id][1]][docToPosting[id][2]].deleted = TRUE]
            /\ activeCount' = IF activeCount > 0 THEN activeCount - 1 ELSE 0
        BY <1>5, <3>2 DEF DeletePosted
      <4>2. t.held = Marked(s.held, id)
        BY <1>2, <1>3, <1>4, <4>1 DEF Marked
      <4>. QED
        BY <2>2, <3>2, <4>2
    <3>. QED
      BY <3>1, <3>2
  <2>. QED
    BY <1>1, <1>4, <2>1, <2>3, DeletePostedIs
<1>6. CASE DeleteCached(id)
  <2> DEFINE i == Where(id)
  <2>1. i \in DOMAIN s.cache /\ s.cache[i].id = id
    BY <1>2, <1>6 DEF DeleteCached, Where, Cached
  <2>. HIDE DEF i
  <2>2. /\ s.held.map[id] = None
        /\ t.cache = Without(s.cache, i)
        /\ t.leftoverDeleted = (s.leftoverDeleted \/ s.quantizer # None)
    BY <1>2, <1>3, <1>6 DEF DeleteCached, CacheWithout, Without, i
  <2>3. t.held = [postings |-> s.held.postings, map |-> s.held.map,
                  count |-> IF s.held.count > 0 THEN s.held.count - 1 ELSE 0]
    BY <1>2, <1>3, <1>4, <1>6 DEF DeleteCached
  <2>. QED
    BY <1>1, <1>4, <2>1, <2>2, <2>3, DeleteCachedIs
<1>7. CASE DeleteAbsent(id)
  <2>1. /\ s.held.map[id] = None /\ \A i \in DOMAIN s.cache : s.cache[i].id # id
        /\ t.cache = s.cache /\ t.leftoverDeleted = s.leftoverDeleted /\ t.held = s.held
    BY <1>2, <1>3, <1>4, <1>7 DEF DeleteAbsent, Cached
  <2>. QED
    BY <1>1, <1>4, <2>1, DeleteAbsentIs
<1>. QED
  BY <1>5, <1>6, <1>7 DEF Delete

\* By a retraining.
LEMMA RetrainInvariant ==
    ASSUME IInv, NEW documents \in Retrainings[metric], Retrain(documents)
    PROVE  Sound(Snapshot')
<1> DEFINE s == Snapshot
           t == Snapshot'
<1> SUFFICES Sound(t)
  OBVIOUS
<1>1. Sound(s)
  BY DEF IInv
<1>2. s.metric = metric /\ s.cache = trainingCache
  BY SnapshotIs
<1>3. /\ IsRecord(t) /\ t.metric = metric' /\ t.quantizer = quantizer' /\ t.centroids = centroids'
      /\ t.held = [postings |-> postings', map |-> docToPosting', count |-> activeCount']
      /\ t.cache = trainingCache' /\ t.given = given' /\ t.moved = moved'
      /\ t.countedTwice = countedTwice' /\ t.leftoverDeleted = leftoverDeleted'
  BY DEF Snapshot, IsRecord, Contents
<1>. HIDE DEF s, t
<1>4. /\ Len(documents) >= NCentroids
      /\ given' = [id \in Ids |-> IF id \in IdsIn(documents)
                                 THEN documents[LastNaming(documents, id)].vector ELSE None]
      /\ moved' = {id \in Ids : \E i, j \in Naming(documents, id) : i # j}
      /\ quantizer' = TrainQuantizer(VectorsOf(documents))
      /\ centroids' = TrainKmeans(VectorsOf(documents))
      /\ Become(InsertAll(Emptied, quantizer', centroids', PreparedEach(documents)))
      /\ countedTwice' = 0 /\ leftoverDeleted' = FALSE
      /\ metric' = metric /\ trainingCache' = trainingCache
  BY DEF Retrain, RetrainOver
<1>5. t.held = Whole(InsertAll(Emptied, t.quantizer, t.centroids, PreparedEach(documents)))
  BY <1>3, <1>4 DEF Become, Whole
<1>6. HasRetrained(s, t, documents)
  BY <1>2, <1>3, <1>4, <1>5 DEF HasRetrained
<1>7. metric = s.metric
  BY <1>2
<1>. QED
  BY <1>1, <1>4, <1>6, <1>7, RetrainIs

\* Reading the bytes back restores what was sound when they were written.
LEMMA DeserializeInvariant ==
    ASSUME IInv, Deserialize
    PROVE  Snapshot' = bytes /\ Sound(bytes)
<1>1. Sound(bytes)
  BY DEF IInv, Deserialize
<1>2. IsRecord(bytes) /\ bytes.held = Whole(bytes.held)
  <2>1. IsRecord(bytes) /\ bytes.held \in AllContents
    BY <1>1, GivenAre DEF Sound, Fields
  <2>2. bytes.held = Whole(bytes.held)
    BY <2>1, ContentsParts DEF Whole
  <2>. QED
    BY <2>1, <2>2
<1>3. [postings |-> postings', map |-> docToPosting', count |-> activeCount'] = bytes.held
  <2>1. [postings |-> postings', map |-> docToPosting', count |-> activeCount'] = Whole(bytes.held)
    BY DEF Deserialize, Become, Whole
  <2>. QED
    BY <1>2, <2>1
<1>4. Snapshot' = [metric |-> metric', quantizer |-> quantizer', centroids |-> centroids',
                   held |-> [postings |-> postings', map |-> docToPosting', count |-> activeCount'],
                   cache |-> trainingCache', given |-> given', moved |-> moved',
                   countedTwice |-> countedTwice', leftoverDeleted |-> leftoverDeleted']
  BY DEF Snapshot, Contents
<1>5. /\ metric' = bytes.metric /\ quantizer' = bytes.quantizer /\ centroids' = bytes.centroids
      /\ trainingCache' = bytes.cache /\ given' = bytes.given /\ moved' = bytes.moved
      /\ countedTwice' = bytes.countedTwice /\ leftoverDeleted' = bytes.leftoverDeleted
  BY DEF Deserialize
<1>. QED
  BY <1>1, <1>2, <1>3, <1>4, <1>5 DEF IsRecord

\* A step that leaves the index leaves its snapshot.
LEMMA StutterIs ==
    ASSUME UNCHANGED <<index, history>>
    PROVE  Snapshot' = Snapshot
BY DEF index, history, Snapshot, Contents

\* By every step.
LEMMA NextInvariant == IInv /\ [Next]_vars => IInv'
<1> SUFFICES ASSUME IInv, [Next]_vars PROVE IInv'
  OBVIOUS
<1> USE DEF IInv
<1>1. ASSUME NEW id \in Ids, Delete(id) PROVE IInv'
  <2>1. Sound(Snapshot')
    BY <1>1, DeleteInvariant
  <2>2. bytes' = bytes /\ inserts' = inserts
    BY <1>1 DEF Delete
  <2>. QED
    BY <2>1, <2>2
<1>2. ASSUME NEW id \in Ids, NEW v \in Vectors[metric], Insert(id, v) PROVE IInv'
  <2>1. Sound(Snapshot')
    BY <1>2, InsertInvariant
  <2>2. bytes' = bytes /\ inserts' \in 0 .. MaxInserts
    BY <1>2, IvfAssumption DEF Insert
  <2>. QED
    BY <2>1, <2>2
<1>3. ASSUME NEW documents \in Retrainings[metric], Retrain(documents) PROVE IInv'
  <2>1. Sound(Snapshot')
    BY <1>3, RetrainInvariant
  <2>2. bytes' = bytes /\ inserts' = inserts
    BY <1>3 DEF Retrain, RetrainOver
  <2>. QED
    BY <2>1, <2>2
<1>4. CASE Serialize
  <2>1. Snapshot' = Snapshot
    BY <1>4, StutterIs DEF Serialize
  <2>2. bytes' = Snapshot /\ inserts' = inserts
    BY <1>4 DEF Serialize
  <2>. QED
    BY <2>1, <2>2
<1>5. CASE Deserialize
  <2>1. Snapshot' = bytes /\ Sound(bytes)
    BY <1>5, DeserializeInvariant
  <2>2. bytes' = bytes /\ inserts' = inserts
    BY <1>5 DEF Deserialize
  <2>. QED
    BY <2>1, <2>2
<1>6. CASE UNCHANGED vars
  <2>1. Snapshot' = Snapshot
    BY <1>6, StutterIs DEF vars
  <2>2. bytes' = bytes /\ inserts' = inserts
    BY <1>6 DEF vars
  <2>. QED
    BY <2>1, <2>2
<1>. QED
  BY <1>1, <1>2, <1>3, <1>4, <1>5, <1>6 DEF Next

\* In every state of every behaviour.
LEMMA Invariant == Spec => []IInv
BY InitInvariant, NextInvariant, PTL DEF Spec

-----------------------------------------------------------------------------
(* The invariants that the run checks.                                     *)

\* What the index holds is what its snapshot holds.
LEMMA HeldIs ==
    ASSUME NEW id \in Ids
    PROVE  /\ Held(id) <=> HeldBy(Snapshot, id)
           /\ docToPosting[id] # None => EntryOf(id) = EntryAt(Snapshot.held, id)
BY SnapshotIs DEF Held, HeldBy, Trained, Posted, EntryOf, EntryAt, Cached

\* The type invariant is part of the inductive one.
LEMMA TypeHolds == IInv => TypeOK
<1> SUFFICES ASSUME IInv PROVE TypeOK
  OBVIOUS
<1>1. Typed(Snapshot) /\ (bytes = NoBytes \/ Typed(bytes)) /\ inserts \in 0 .. MaxInserts
  BY DEF IInv, Sound
<1>2. /\ Snapshot \in Snapshots
      /\ Len(Snapshot.centroids) = IF Snapshot.quantizer # None THEN NCentroids ELSE 0
      /\ Snapshot.given \in [Ids -> Vectors[Snapshot.metric] \cup {None}]
      /\ bytes \in Snapshots \cup {NoBytes}
  BY <1>1 DEF Typed
<1>. QED
  BY <1>1, <1>2, SnapshotIs DEF TypeOK, Trained

\* The index and its bytes have their types: as many centroids as there are
\* lists once k-means has run and none before, entries at the levels of the
\* quantizer, and a count that is never negative.
THEOREM IndexTypeCorrect == Spec => []TypeOK
BY Invariant, TypeHolds, PTL

\* A document is in the cache once at most.
LEMMA CachedOnce ==
    ASSUME IInv, NEW id \in Ids
    PROVE  Cardinality(Cached(id)) <= 1
<1>1. Distinct(trainingCache)
  BY SnapshotIs DEF IInv, Sound, Placed
<1>2. CASE Cached(id) = {}
  BY <1>2, FS_EmptySet
<1>3. CASE Cached(id) # {}
  <2>1. PICK i \in Cached(id) : TRUE
    BY <1>3
  <2>2. Cached(id) = {i}
    BY <1>1, <2>1 DEF Cached, Distinct
  <2>. QED
    BY <2>2, FS_Singleton
<1>. QED
  BY <1>2, <1>3

\* The invariant has each document in one place.
LEMMA OnePlaceHolds == IInv => OnePlaceEach
<1> SUFFICES ASSUME IInv PROVE OnePlaceEach
  OBVIOUS
<1>1. Placed(Snapshot)
  BY DEF IInv, Sound
<1>2. Linked(Snapshot.held)
  BY <1>1 DEF Placed
<1>3. \A c \in Lists : \A i \in DOMAIN postings[c] : docToPosting[postings[c][i].id] = <<c, i>>
  BY <1>2, SnapshotIs DEF Linked
<1>4. \A id \in Ids : Posted(id) => docToPosting[id][2] \in DOMAIN postings[docToPosting[id][1]]
                                    /\ EntryOf(id).id = id
  BY <1>2, SnapshotIs, HeldIs DEF Linked, Posted
<1>5. \A id \in Ids : Posted(id) => Trained
  BY <1>1, SnapshotIs DEF Placed, Posted, Trained
<1>6. \A id \in Ids : given[id] # None <=> Held(id)
  BY <1>1, SnapshotIs, HeldIs DEF Placed
<1>. QED
  BY <1>3, <1>4, <1>5, <1>6, CachedOnce DEF OnePlaceEach

\* Whatever is inserted, updated, deleted, trained, retrained and read back, a
\* document has one place, the one the map points at, and is live there exactly
\* when it was given and not deleted since.
THEOREM DocumentsHaveOnePlace == Spec => []OnePlaceEach
BY Invariant, OnePlaceHolds, PTL

\* The invariant has the count right but for what the history records.
LEMMA CountHolds == IInv => CountCoversLive
<1> SUFFICES ASSUME IInv, ~leftoverDeleted
             PROVE  /\ activeCount >= Cardinality(Live)
                    /\ countedTwice = 0 => activeCount = Cardinality(Live)
  BY DEF CountCoversLive
<1>1. Typed(Snapshot) /\ Counted(Snapshot)
  BY DEF IInv, Sound
<1>2. activeCount = Cardinality(Live) + countedTwice
  BY <1>1, SnapshotIs DEF Counted
<1>3. countedTwice \in Nat /\ Cardinality(Live) \in Nat
  BY <1>1, GivenAre, SnapshotIs DEF Fields
<1>. QED
  BY <1>2, <1>3

\* Until a leftover that a retraining left in the cache is deleted, the count is
\* never short of the live documents, and is their number unless a training in an
\* insertion counted some again.
THEOREM LiveAreCounted == Spec => []CountCoversLive
BY Invariant, CountHolds, PTL

-----------------------------------------------------------------------------
(* Refinement: the index is a map from ids to what it holds.               *)

heldBar == [id \in Ids |-> IF Held(id) THEN "held" ELSE None]
savedBar == IF bytes = NoBytes THEN [id \in Ids |-> None]
            ELSE [id \in Ids |-> IF bytes.given[id] # None THEN "held" ELSE None]

\* The abstract map has the documents that were given.
LEMMA HeldBarIs ==
    ASSUME IInv
    PROVE  heldBar = [id \in Ids |-> IF given[id] # None THEN "held" ELSE None]
<1>1. \A id \in Ids : given[id] # None <=> Held(id)
  BY OnePlaceHolds DEF OnePlaceEach
<1>. QED
  BY <1>1 DEF heldBar

\* The same after a step.
LEMMA OnePlaceNext == IInv' => OnePlaceEach'
BY OnePlaceHolds, PTL

\* The abstract map after a step.
LEMMA HeldBarNext ==
    ASSUME IInv'
    PROVE  heldBar' = [id \in Ids |-> IF given'[id] # None THEN "held" ELSE None]
<1>1. \A id \in Ids : given'[id] # None <=> Held(id)'
  BY OnePlaceNext DEF OnePlaceEach
<1>. QED
  BY <1>1 DEF heldBar

\* What was serialised is what was held then.
LEMMA SnapshotKept ==
    ASSUME IInv
    PROVE  Snapshot # NoBytes
<1>1. Snapshot \in Snapshots
  BY DEF IInv, Sound, Typed
<1>. QED
  BY <1>1, SnapshotAssumption

\* Each operation has its own effect on the abstract map.
LEMMA StepKeepsPromise == IInv /\ IInv' => KeepsPromise
<1> SUFFICES ASSUME IInv, IInv' PROVE KeepsPromise
  OBVIOUS
<1> DEFINE held == [id \in Ids |-> IF given[id] # None THEN "held" ELSE None]
           heldNext == [id \in Ids |-> IF given'[id] # None THEN "held" ELSE None]
<1>1. heldBar = held /\ heldBar' = heldNext
  BY HeldBarIs, HeldBarNext
<1>2. /\ given \in [Ids -> Vectors[metric] \cup {None}] /\ metric \in DOMAIN Vectors
      /\ \A v \in Vectors[metric] : v # None
  <2>1. Typed(Snapshot) /\ Snapshot.given = given /\ Snapshot.metric = metric
    BY SnapshotIs DEF IInv, Sound
  <2>2. Fields(Snapshot) /\ \A v \in Vectors[metric] : v # None
    BY <2>1, GivenAre
  <2>. QED
    BY <2>1, <2>2 DEF Typed, Fields
<1>3. ASSUME NEW id \in Ids, Delete(id)
      PROVE  Promise!Delete(id)
  <2>1. given' = [given EXCEPT ![id] = None] /\ bytes' = bytes
    BY <1>3 DEF Delete
  <2>2. heldNext = [held EXCEPT ![id] = None]
    BY <1>2, <2>1
  <2>3. savedBar' = savedBar
    BY <2>1 DEF savedBar
  <2>4. heldBar' = [heldBar EXCEPT ![id] = None]
    BY <1>1, <2>2
  <2>. QED
    BY <2>3, <2>4 DEF Promise!Delete, heldBar, savedBar
<1>4. ASSUME NEW id \in Ids, NEW v \in Vectors[metric], Insert(id, v)
      PROVE  Promise!Insert(id, "held")
  <2>1. given' = [given EXCEPT ![id] = v] /\ bytes' = bytes
    BY <1>4 DEF Insert
  <2>2. heldNext = [held EXCEPT ![id] = "held"]
    BY <1>2, <2>1
  <2>3. savedBar' = savedBar
    BY <2>1 DEF savedBar
  <2>4. heldBar' = [heldBar EXCEPT ![id] = "held"]
    BY <1>1, <2>2
  <2>. QED
    BY <2>3, <2>4 DEF Promise!Insert, heldBar, savedBar
<1>5. ASSUME NEW documents \in Retrainings[metric], Retrain(documents)
      PROVE  Promise!Replace([id \in Ids |-> IF id \in IdsIn(documents) THEN "held" ELSE None])
  <2>1. /\ given' = [id \in Ids |-> IF id \in IdsIn(documents)
                                   THEN documents[LastNaming(documents, id)].vector ELSE None]
        /\ bytes' = bytes
    BY <1>5 DEF Retrain, RetrainOver
  <2>2. \A id \in IdsIn(documents) : documents[LastNaming(documents, id)].vector # None
    <3> SUFFICES ASSUME NEW id \in IdsIn(documents)
                 PROVE  documents[LastNaming(documents, id)].vector # None
      OBVIOUS
    <3>1. /\ Len(documents) \in Nat /\ DOMAIN documents = 1 .. Len(documents)
          /\ \A i \in DOMAIN documents : documents[i].vector # None
      BY <1>2, RetrainingIs
    <3>2. LastNaming(documents, id) \in DOMAIN documents
      BY <3>1, LastNamingIs DEF Naming
    <3>. QED
      BY <3>1, <3>2
  <2>3. heldNext = [id \in Ids |-> IF id \in IdsIn(documents) THEN "held" ELSE None]
    BY <2>1, <2>2
  <2>4. savedBar' = savedBar
    BY <2>1 DEF savedBar
  <2>5. heldBar' = [id \in Ids |-> IF id \in IdsIn(documents) THEN "held" ELSE None]
    BY <1>1, <2>3
  <2>. QED
    BY <2>4, <2>5 DEF Promise!Replace, heldBar, savedBar
<1>6. ASSUME Serialize
      PROVE  Promise!Serialize
  <2>1. given' = given /\ bytes' = Snapshot /\ bytes' # NoBytes /\ Snapshot.given = given
    BY <1>6, SnapshotKept, SnapshotIs DEF Serialize, history
  <2>2. savedBar' = held
    BY <2>1 DEF savedBar
  <2>3. savedBar' = heldBar /\ heldBar' = heldBar
    BY <1>1, <2>1, <2>2
  <2>. QED
    BY <2>3 DEF Promise!Serialize, heldBar, savedBar
<1>7. ASSUME Deserialize
      PROVE  Promise!Deserialize
  <2>1. given' = bytes.given /\ bytes' = bytes /\ bytes # NoBytes
    BY <1>7 DEF Deserialize
  <2>2. savedBar' = savedBar /\ savedBar = heldNext
    BY <2>1 DEF savedBar
  <2>3. heldBar' = savedBar
    BY <1>1, <2>2
  <2>. QED
    BY <2>2, <2>3 DEF Promise!Deserialize, heldBar, savedBar
<1>. QED
  BY <1>3, <1>4, <1>5, <1>6, <1>7, Zenon DEF KeepsPromise

\* At the start the abstract map is empty.
LEMMA InitRefines == Init => Promise!Init
<1> SUFFICES ASSUME Init PROVE Promise!Init
  OBVIOUS
<1>1. given = [id \in Ids |-> None] /\ bytes = NoBytes
  BY DEF Init
<1>2. heldBar = [id \in Ids |-> None]
  BY <1>1, InitInvariant, HeldBarIs
<1>3. savedBar = [id \in Ids |-> None]
  BY <1>1 DEF savedBar
<1>. QED
  BY <1>2, <1>3 DEF Promise!Init, Promise!Empty, heldBar, savedBar

\* Each operation does to the documents the index holds what the trait VectorIndex
\* promises of that operation: an insertion adds its own, in whichever branch, the
\* one that trains the index included; a deletion removes its own; a retraining
\* leaves exactly the documents it was given; reading the bytes back restores those
\* of the time they were written.
THEOREM IvfRefinesVectorIndex == Spec => ImplementsVectorIndex
<1>1. Init => Promise!Init
  BY InitRefines
<1>2. IInv /\ IInv' /\ [Next]_vars => [KeepsPromise]_vars
  BY StepKeepsPromise
<1>. QED
  BY <1>1, <1>2, Invariant, PTL DEF Spec, ImplementsVectorIndex

-----------------------------------------------------------------------------
(* Search: an answer that leaves nothing out.                              *)

\* A ranking of as many members as there are ids has all of them, each once.
LEMMA RankedAll ==
    ASSUME NEW S, IsFiniteSet(S), NEW k \in Nat, Cardinality(S) <= k, NEW key, NEW r \in Ranked(S, key, k)
    PROVE  /\ r \in [1 .. Cardinality(S) -> S]
           /\ \A x \in S : \E j \in 1 .. Cardinality(S) : r[j] = x
           /\ \A i, j \in 1 .. Cardinality(S) : i < j => key[r[i]] <= key[r[j]]
<1> DEFINE n == Cardinality(S)
<1>1. n \in Nat /\ Least(k, n) = n
  BY FS_CardinalityType DEF Least
<1>2. r \in [1 .. n -> S] /\ \A i, j \in 1 .. n : i < j => r[i] # r[j] /\ key[r[i]] <= key[r[j]]
  <2>. HIDE DEF n
  <2>. QED
    BY <1>1 DEF Ranked, n
<1>3. \A i, j \in 1 .. n : r[i] = r[j] => i = j
  BY <1>1, <1>2
<1>4. r \in Injection(1 .. n, S) /\ DOMAIN r = 1 .. n
  BY <1>2, <1>3 DEF Injection, IsInjective
<1>5. Cardinality(1 .. n) = Cardinality(S)
  BY <1>1, FS_Interval DEF n
<1>6. r \in Surjection(1 .. n, S)
  <2>. HIDE DEF n
  <2>. QED
    BY <1>4, <1>5, FS_Injection
<1>7. \A x \in S : \E j \in 1 .. n : r[j] = x
  BY <1>6 DEF Surjection
<1>. QED
  BY <1>2, <1>7

\* The documents at some positions, no two of the same document.
LEMMA Positions ==
    ASSUME NEW S, NEW f \in [S -> Ids], \A x, y \in S : f[x] = f[y] => x = y
    PROVE  /\ IsFiniteSet(S) /\ Cardinality(S) <= Cardinality(Ids) /\ Cardinality(Ids) \in Nat
           /\ Cardinality({f[x] : x \in S}) = Cardinality(S) /\ Cardinality(S) \in Nat
<1>1. IsFiniteSet(Ids) /\ Cardinality(Ids) \in Nat
  BY IvfAssumption, FS_CardinalityType
<1>2. f \in Injection(S, Ids)
  BY DEF Injection, IsInjective
<1>3. IsFiniteSet(S) /\ Cardinality(S) <= Cardinality(Ids)
  BY <1>1, <1>2, FS_Injection
<1> DEFINE T == {f[x] : x \in S}
<1>4. f \in Surjection(S, T) /\ f \in Injection(S, T)
  BY DEF Surjection, Injection, IsInjective
<1>5. Cardinality(T) = Cardinality(S)
  <2>. HIDE DEF T
  <2>. QED
    BY <1>3, <1>4, FS_Surjection
<1>. QED
  BY <1>1, <1>3, <1>5, FS_CardinalityType

\* The answer has the documents at the positions, in the order of their keys.
AnswerHas(s, S, f, r, key) ==
    /\ SetOf(s) = {f[x] : x \in S}
    /\ Len(s) = Cardinality({f[x] : x \in S}) /\ DOMAIN s = 1 .. Len(s)
    /\ \A j \in DOMAIN s : r[j] \in S /\ s[j] = f[r[j]]
    /\ \A i, j \in DOMAIN s : i < j => key[r[i]] <= key[r[j]]

\* An answer, as ids in the order of a ranking of distinct entries, has them all
\* once.
LEMMA Answers ==
    ASSUME NEW S, NEW f \in [S -> Ids], \A x, y \in S : f[x] = f[y] => x = y,
           NEW key, NEW r \in Ranked(S, key, Cardinality(Ids))
    PROVE  AnswerHas([j \in DOMAIN r |-> f[r[j]]], S, f, r, key)
<1> DEFINE n == Cardinality(S)
           s == [j \in DOMAIN r |-> f[r[j]]]
           T == {f[x] : x \in S}
<1>1. IsFiniteSet(S) /\ n <= Cardinality(Ids) /\ Cardinality(Ids) \in Nat /\ Cardinality(T) = n /\ n \in Nat
  BY Positions
<1>2. /\ r \in [1 .. n -> S]
      /\ \A x \in S : \E j \in 1 .. n : r[j] = x
      /\ \A i, j \in 1 .. n : i < j => key[r[i]] <= key[r[j]]
  BY <1>1, RankedAll
<1>. HIDE DEF n
<1>3. s \in Seq(Ids) /\ Len(s) = n /\ DOMAIN s = 1 .. n /\ \A j \in 1 .. n : s[j] = f[r[j]]
  BY <1>1, <1>2
<1>4. SetOf(s) = T
  <2>. HIDE DEF s
  <2>1. \A j \in 1 .. n : s[j] \in T
    BY <1>2, <1>3
  <2>2. \A x \in S : \E j \in 1 .. n : s[j] = f[x]
    BY <1>2, <1>3
  <2>. QED
    BY <1>3, <2>1, <2>2 DEF SetOf
<1>. HIDE DEF s
<1>5. AnswerHas(s, S, f, r, key)
  <2>1. Len(s) = Cardinality(T)
    BY <1>1, <1>3
  <2>. QED
    BY <1>2, <1>3, <1>4, <2>1 DEF AnswerHas
<1>. QED
  BY <1>5 DEF s

\* The positions in the cache, or in lists, that a search finds.
ColdAt(passing) == {i \in DOMAIN trainingCache : trainingCache[i].id \in passing}
FoundAt(probed, passing) ==
    {at \in UNION {{c} \X DOMAIN postings[c] : c \in probed} :
        ~postings[at[1]][at[2]].deleted /\ postings[at[1]][at[2]].id \in passing}
ColdIds(passing) == [i \in ColdAt(passing) |-> trainingCache[i].id]
FoundIds(probed, passing) == [at \in FoundAt(probed, passing) |-> postings[at[1]][at[2]].id]

\* Before the training, each document is at one position of the cache.
LEMMA ColdPositions ==
    ASSUME IInv, NEW passing \in SUBSET Ids
    PROVE  LET f == ColdIds(passing)
           IN  /\ f \in [ColdAt(passing) -> Ids]
               /\ \A x, y \in ColdAt(passing) : f[x] = f[y] => x = y
<1>1. Distinct(trainingCache)
  BY SnapshotIs DEF IInv, Sound, Placed
<1>. QED
  BY <1>1 DEF ColdIds, ColdAt, Distinct

\* From then on, each is at one position of one list.
LEMMA FoundPositions ==
    ASSUME IInv, NEW probed \in SUBSET Lists, NEW passing \in SUBSET Ids
    PROVE  LET f == FoundIds(probed, passing)
           IN  /\ f \in [FoundAt(probed, passing) -> Ids]
               /\ \A x, y \in FoundAt(probed, passing) : f[x] = f[y] => x = y
               /\ \A x \in FoundAt(probed, passing) : docToPosting[f[x]] = x
<1>1. \A c \in Lists : \A i \in DOMAIN postings[c] : docToPosting[postings[c][i].id] = <<c, i>>
  BY OnePlaceHolds DEF OnePlaceEach
<1>2. ASSUME NEW at \in FoundAt(probed, passing)
      PROVE  postings[at[1]][at[2]].id \in Ids /\ docToPosting[postings[at[1]][at[2]].id] = at
  <2>1. PICK c \in probed : at \in {c} \X DOMAIN postings[c]
    BY DEF FoundAt
  <2>2. at = <<c, at[2]>> /\ at[1] = c /\ at[2] \in DOMAIN postings[c] /\ c \in Lists
    BY <2>1
  <2>3. docToPosting[postings[c][at[2]].id] = <<c, at[2]>>
    BY <1>1, <2>2
  <2>4. postings[at[1]][at[2]].id \in Ids
    BY DEF FoundAt
  <2>. QED
    BY <2>2, <2>3, <2>4
<1>. QED
  BY <1>2 DEF FoundIds

\* A live document is found if the list that has it is probed.
LEMMA LiveFound ==
    ASSUME IInv, quantizer # None, NEW probed \in SUBSET Lists, NEW passing \in SUBSET Ids,
           NEW id \in Live \cap passing, docToPosting[id][1] \in probed
    PROVE  docToPosting[id] \in FoundAt(probed, passing) /\ FoundIds(probed, passing)[docToPosting[id]] = id
<1> DEFINE at == docToPosting[id]
<1>1. id \in Ids /\ given[id] # None
  BY DEF Live
<1>2. Held(id)
  BY <1>1, OnePlaceHolds DEF OnePlaceEach
<1>3. Posted(id) /\ ~EntryOf(id).deleted
  BY <1>2 DEF Held, Trained
<1>4. at[2] \in DOMAIN postings[at[1]] /\ EntryOf(id).id = id
  BY <1>1, <1>3, OnePlaceHolds DEF OnePlaceEach
<1>5. at = <<at[1], at[2]>>
  <2>1. Snapshot.held \in AllContents
    BY GivenAre DEF IInv, Sound, Fields
  <2>. QED
    BY <1>1, <1>3, <2>1, ContentsParts, SnapshotIs DEF Posted
<1>6. at \in {at[1]} \X DOMAIN postings[at[1]]
  <2>. HIDE DEF at
  <2>. QED
    BY <1>4, <1>5
<1>7. ~postings[at[1]][at[2]].deleted /\ postings[at[1]][at[2]].id = id
  BY <1>3, <1>4 DEF EntryOf
<1>. HIDE DEF at
<1>8. at \in FoundAt(probed, passing)
  BY <1>6, <1>7 DEF FoundAt, at
<1>. QED
  BY <1>7, <1>8 DEF FoundIds, at

\* The answers of a search that may list every document.
LEMMA SearchIs ==
    ASSUME IInv, NEW query \in Int, NEW n, NEW passing \in SUBSET Ids,
           NEW s \in Search(query, Cardinality(Ids), n, passing)
    PROVE  LET q == Prepared(metric, query)
               probed == Probed(q, n)
               cold == [i \in ColdAt(passing) |-> Distance(metric, q, trainingCache[i].vector)]
               key == [at \in FoundAt(probed, passing) |-> LutDistance(q, postings[at[1]][at[2]])]
           IN  /\ activeCount = 0 => s = <<>>
               /\ activeCount # 0 /\ quantizer = None =>
                     \E r : AnswerHas(s, ColdAt(passing), ColdIds(passing), r, cold)
               /\ activeCount # 0 /\ quantizer # None /\ probed \in SUBSET Lists =>
                     \E r : AnswerHas(s, FoundAt(probed, passing), FoundIds(probed, passing), r, key)
<1> DEFINE q == Prepared(metric, query)
           probed == Probed(q, n)
           cold == [i \in ColdAt(passing) |-> Distance(metric, q, trainingCache[i].vector)]
           key == [at \in FoundAt(probed, passing) |-> LutDistance(q, postings[at[1]][at[2]])]
           all == Cardinality(Ids)
           ColdAnswers == {[j \in DOMAIN r |-> trainingCache[r[j]].id] : r \in Ranked(ColdAt(passing), cold, all)}
           Answered == {[j \in DOMAIN r |-> postings[r[j][1]][r[j][2]].id] :
                            r \in Ranked(FoundAt(probed, passing), key, all)}
<1>1. Search(query, all, n, passing) =
        IF activeCount = 0 THEN {<<>>} ELSE IF quantizer = None THEN ColdAnswers ELSE Answered
  BY DEF Search, ColdAt, FoundAt
<1>2. activeCount = 0 => s = <<>>
  BY <1>1
<1>3. ASSUME activeCount # 0, quantizer = None
      PROVE  \E r : AnswerHas(s, ColdAt(passing), ColdIds(passing), r, cold)
  <2>1. PICK r \in Ranked(ColdAt(passing), cold, all) : s = [j \in DOMAIN r |-> trainingCache[r[j]].id]
    <3>1. s \in ColdAnswers
      BY <1>1, <1>3
    <3>. HIDE DEF cold, all
    <3>. QED
      BY <3>1
  <2>2. s = [j \in DOMAIN r |-> ColdIds(passing)[r[j]]]
    <3>1. \A j \in DOMAIN r : r[j] \in ColdAt(passing)
      BY <2>1 DEF Ranked
    <3>2. \A j \in DOMAIN r : ColdIds(passing)[r[j]] = trainingCache[r[j]].id
      BY <3>1 DEF ColdIds
    <3>. HIDE DEF cold
    <3>. QED
      BY <2>1, <3>2
  <2>3. AnswerHas([j \in DOMAIN r |-> ColdIds(passing)[r[j]]], ColdAt(passing), ColdIds(passing), r, cold)
    <3>. HIDE DEF cold
    <3>. QED
      BY ColdPositions, Answers DEF all
  <2>. QED
    BY <2>2, <2>3
<1>4. ASSUME activeCount # 0, quantizer # None, probed \in SUBSET Lists
      PROVE  \E r : AnswerHas(s, FoundAt(probed, passing), FoundIds(probed, passing), r, key)
  <2>. HIDE DEF probed
  <2>1. PICK r \in Ranked(FoundAt(probed, passing), key, all) :
            s = [j \in DOMAIN r |-> postings[r[j][1]][r[j][2]].id]
    <3>1. s \in Answered
      BY <1>1, <1>4 DEF probed
    <3>. HIDE DEF key, all
    <3>. QED
      BY <3>1
  <2>2. s = [j \in DOMAIN r |-> FoundIds(probed, passing)[r[j]]]
    <3>1. \A j \in DOMAIN r : r[j] \in FoundAt(probed, passing)
      BY <2>1 DEF Ranked
    <3>2. \A j \in DOMAIN r : FoundIds(probed, passing)[r[j]] = postings[r[j][1]][r[j][2]].id
      BY <3>1 DEF FoundIds
    <3>. HIDE DEF key
    <3>. QED
      BY <2>1, <3>2
  <2>3. AnswerHas([j \in DOMAIN r |-> FoundIds(probed, passing)[r[j]]],
                  FoundAt(probed, passing), FoundIds(probed, passing), r, key)
    <3> DEFINE f == FoundIds(probed, passing)
    <3>1. /\ f \in [FoundAt(probed, passing) -> Ids]
          /\ \A x, y \in FoundAt(probed, passing) : f[x] = f[y] => x = y
      BY <1>4, FoundPositions
    <3>2. r \in Ranked(FoundAt(probed, passing), key, Cardinality(Ids))
      BY DEF all
    <3>. HIDE DEF key, f
    <3>. QED
      BY <3>1, <3>2, Answers DEF f
  <2>. QED
    BY <2>2, <2>3
<1>. QED
  BY <1>2, <1>3, <1>4

\* The lists that are probed: the nearest is among them, and all of them are
\* when as many are asked for.
Nearer(q, c, d) == LET dc == Distance(metric, q, centroids[c])
                       dd == Distance(metric, q, centroids[d])
                   IN  dc < dd \/ (dc = dd /\ c < d)

\* A search probes the list of the nearest centroid, and all of them when it is
\* to probe as many.
LEMMA ProbedIs ==
    ASSUME IInv, quantizer # None, NEW q \in Int
    PROVE  /\ \A n : Probed(q, n) \in SUBSET Lists
           /\ Probed(q, NCentroids) = Lists
           /\ NearestBy(metric, centroids, q) \in Probed(q, 1)
<1> DEFINE Before(c) == {d \in DOMAIN centroids : Nearer(q, d, c)}
<1>1. \A n : Probed(q, n) = {c \in DOMAIN centroids : Cardinality(Before(c)) < n}
  BY DEF Probed, Nearer
<1>2. /\ metric \in Metrics /\ centroids \in Seq(Int) /\ Len(centroids) = NCentroids
      /\ NCentroids \in Nat \ {0} /\ DOMAIN centroids = Lists
  <2>1. Snapshot.metric \in Metrics /\ Snapshot.centroids \in Seq(Int)
    BY SnapshotIs, GivenAre DEF IInv, Sound
  <2>2. Len(Snapshot.centroids) = NCentroids
    BY SnapshotIs DEF IInv, Sound, Typed
  <2>. QED
    BY <2>1, <2>2, SnapshotIs, IvfAssumption DEF Lists
<1>3. \A c \in DOMAIN centroids : Distance(metric, q, centroids[c]) \in Int
  BY <1>2, Values
<1>4. IsFiniteSet(Lists) /\ Cardinality(Lists) = NCentroids
  BY <1>2, FS_Interval DEF Lists
<1>5. \A c \in Lists : Cardinality(Before(c)) < NCentroids
  <2> SUFFICES ASSUME NEW c \in Lists PROVE Cardinality(Before(c)) < NCentroids
    OBVIOUS
  <2>1. Before(c) \subseteq Lists \ {c}
    BY <1>2, <1>3 DEF Nearer, Lists
  <2>2. IsFiniteSet(Lists \ {c}) /\ Cardinality(Lists \ {c}) = NCentroids - 1
    BY <1>4, FS_RemoveElement
  <2>3. Cardinality(Before(c)) <= NCentroids - 1 /\ IsFiniteSet(Before(c))
    <3>. HIDE DEF Before
    <3>. QED
      BY <2>1, <2>2, FS_Subset
  <2>. HIDE DEF Before
  <2>4. Cardinality(Before(c)) \in Nat
    BY <2>3, FS_CardinalityType
  <2>. QED
    BY <1>2, <2>3, <2>4
<1> DEFINE c == NearestBy(metric, centroids, q)
<1>6. /\ c \in DOMAIN centroids
      /\ \A d \in DOMAIN centroids :
            LET near == Distance(metric, q, centroids[c])
                other == Distance(metric, q, centroids[d])
            IN  near < other \/ (near = other /\ c <= d)
  BY <1>2, NearestIs
<1>. HIDE DEF c
<1>7. Before(c) = {}
  BY <1>2, <1>3, <1>6 DEF Nearer, Lists
<1>8. Cardinality(Before(c)) = 0
  BY <1>7, FS_EmptySet
<1>. HIDE DEF Before
<1>9. c \in Probed(q, 1)
  BY <1>1, <1>6, <1>8
<1>. QED
  BY <1>1, <1>2, <1>5, <1>9 DEF c

\* Once nothing that was a leftover is deleted, an index that counts no document
\* has none.
LEMMA CountedLive ==
    ASSUME IInv, ~leftoverDeleted, activeCount = 0
    PROVE  Live = {}
<1>1. activeCount >= Cardinality(Live)
  BY CountHolds DEF CountCoversLive
<1>2. IsFiniteSet(Live) /\ Cardinality(Live) \in Nat /\ countedTwice \in Nat
  BY SnapshotIs, GivenAre DEF IInv, Sound, Fields
<1>3. Cardinality(Live) = 0
  BY <1>1, <1>2
<1>. QED
  BY <1>2, <1>3, FS_EmptySet

\* What is live and passes is in the cache of a cold index.
LEMMA ColdLive ==
    ASSUME IInv, quantizer = None, NEW passing \in SUBSET Ids
    PROVE  {ColdIds(passing)[x] : x \in ColdAt(passing)} = Live \cap passing
<1>1. \A id \in Ids : given[id] # None <=> \E i \in DOMAIN trainingCache : trainingCache[i].id = id
  BY OnePlaceHolds DEF OnePlaceEach, Held, Trained, Cached
<1>2. ASSUME NEW x \in ColdAt(passing)
      PROVE  ColdIds(passing)[x] \in Live \cap passing
  <2>1. x \in DOMAIN trainingCache /\ ColdIds(passing)[x] = trainingCache[x].id
        /\ trainingCache[x].id \in passing
    BY DEF ColdAt, ColdIds
  <2>. QED
    BY <1>1, <2>1 DEF Live
<1>3. ASSUME NEW id \in Live \cap passing
      PROVE  \E x \in ColdAt(passing) : ColdIds(passing)[x] = id
  <2>1. PICK i \in DOMAIN trainingCache : trainingCache[i].id = id
    BY <1>1 DEF Live
  <2>2. i \in ColdAt(passing)
    BY <2>1 DEF ColdAt
  <2>. QED
    BY <2>1, <2>2 DEF ColdIds
<1>. QED
  BY <1>2, <1>3

\* What is live and passes is in the lists of a trained one.
LEMMA TrainedLive ==
    ASSUME IInv, quantizer # None, NEW passing \in SUBSET Ids
    PROVE  {FoundIds(Lists, passing)[x] : x \in FoundAt(Lists, passing)} = Live \cap passing
<1>1. ASSUME NEW x \in FoundAt(Lists, passing)
      PROVE  FoundIds(Lists, passing)[x] \in Live \cap passing
  <2> DEFINE id == FoundIds(Lists, passing)[x]
  <2>1. id \in Ids /\ docToPosting[id] = x
    BY FoundPositions
  <2>2. /\ id = postings[x[1]][x[2]].id /\ id \in passing /\ ~postings[x[1]][x[2]].deleted
    BY DEF FoundAt, FoundIds
  <2>3. x # None
    <3>1. PICK c \in Lists : x \in {c} \X DOMAIN postings[c]
      BY DEF FoundAt
    <3>2. Snapshot.held \in AllContents
      BY GivenAre DEF IInv, Sound, Fields
    <3>3. DOMAIN postings[c] = 1 .. Len(postings[c]) /\ Len(postings[c]) \in Nat
      BY <3>2, ContentsParts, SnapshotIs
    <3>4. x = <<c, x[2]>> /\ x[2] \in Nat
      BY <3>1, <3>3
    <3>. QED
      BY <3>2, <3>4, ContentsParts
  <2>. HIDE DEF id
  <2>4. Held(id)
    BY <2>1, <2>2, <2>3 DEF Held, Trained, Posted, EntryOf
  <2>5. id \in Live
    BY <2>1, <2>4, OnePlaceHolds DEF OnePlaceEach, Live
  <2>. QED
    BY <2>2, <2>5 DEF id
<1>2. ASSUME NEW id \in Live \cap passing
      PROVE  \E x \in FoundAt(Lists, passing) : FoundIds(Lists, passing)[x] = id
  <2>1. docToPosting[id][1] \in Lists
    <3>1. Snapshot.held \in AllContents
      BY GivenAre DEF IInv, Sound, Fields
    <3>2. docToPosting[id] # None
      BY OnePlaceHolds DEF OnePlaceEach, Held, Trained, Posted, Live
    <3>. QED
      BY <3>1, <3>2, ContentsParts, SnapshotIs
  <2>. QED
    BY <2>1, LiveFound
<1>. QED
  BY <1>1, <1>2

\* The invariant has a document in the first list that a search for its vector probes.
LEMMA SelfHolds == IInv => SelfFindable
<1> SUFFICES ASSUME IInv, ~leftoverDeleted, NEW id \in Live \ moved,
                    NEW s \in Search(given[id], Cardinality(Ids), 1, Ids)
             PROVE  id \in SetOf(s)
  BY DEF SelfFindable
<1> DEFINE q == Prepared(metric, given[id])
<1>1. /\ id \in Ids /\ given[id] \in Int /\ q \in Int /\ id \in Live \cap Ids /\ Ids \in SUBSET Ids
  BY SnapshotIs, GivenAre DEF IInv, Sound, Live
<1>2. activeCount # 0
  BY CountedLive
<1>3. CASE quantizer = None
  <2>1. PICK r, key : AnswerHas(s, ColdAt(Ids), ColdIds(Ids), r, key)
    BY <1>1, <1>2, <1>3, SearchIs
  <2>2. SetOf(s) = Live \cap Ids
    BY <1>1, <1>3, <2>1, ColdLive DEF AnswerHas
  <2>. QED
    BY <1>1, <2>2
<1>4. CASE quantizer # None
  <2> DEFINE probed == Probed(q, 1)
  <2>1. probed \in SUBSET Lists /\ NearestBy(metric, centroids, q) \in probed
    BY <1>1, <1>4, ProbedIs
  <2>2. docToPosting[id][1] = NearestBy(metric, centroids, q)
    BY <1>4, SnapshotIs DEF IInv, Sound, Faithful
  <2>. HIDE DEF probed
  <2>3. PICK r, key : AnswerHas(s, FoundAt(probed, Ids), FoundIds(probed, Ids), r, key)
    BY <1>1, <1>2, <1>4, <2>1, SearchIs DEF probed
  <2>4. docToPosting[id] \in FoundAt(probed, Ids) /\ FoundIds(probed, Ids)[docToPosting[id]] = id
    BY <1>1, <1>4, <2>1, <2>2, LiveFound
  <2>. QED
    BY <2>3, <2>4 DEF AnswerHas
<1>. QED
  BY <1>3, <1>4

\* A search for the vector of a live document finds it in the first list it
\* probes: the same centroid is nearest to a vector whenever it is asked for,
\* and the entry of a document that was not updated is in that list.
THEOREM DocumentsFindThemselves == Spec => []SelfFindable
BY Invariant, SelfHolds, PTL

\* A level that is half a step off at most puts two distances a step apart at
\* most.
LEMMA HalfStep ==
    ASSUME NEW x \in Int, NEW v \in Int, NEW L \in Nat, NEW D \in Int, NEW E \in Nat,
           2 * (D - v * L) <= E, 2 * (v * L - D) <= E
    PROVE  /\ 2 * Absolute(x * L - D) <= 2 * (L * Absolute(x - v)) + E
           /\ 2 * (L * Absolute(x - v)) <= 2 * Absolute(x * L - D) + E
           /\ L * Absolute(x - v) \in Int /\ Absolute(x * L - D) \in Int
<1> DEFINE X == x * L
           V == v * L
<1>1. X \in Int /\ V \in Int
  OBVIOUS
<1>2. L * Absolute(x - v) = Absolute(X - V)
  <2>1. X - V = L * (x - v) /\ L * (x - v) \in Int /\ L * (-(x - v)) = -(L * (x - v))
    OBVIOUS
  <2>2. CASE x - v < 0
    <3>1. L * (x - v) <= 0
      BY <2>2
    <3>2. Absolute(x - v) = -(x - v)
      BY <2>2 DEF Absolute
    <3>. HIDE DEF X, V
    <3>. QED
      BY <1>1, <2>1, <3>1, <3>2 DEF Absolute
  <2>3. CASE ~ (x - v < 0)
    <3>1. L * (x - v) >= 0
      BY <2>3
    <3>2. Absolute(x - v) = x - v
      BY <2>3 DEF Absolute
    <3>. HIDE DEF X, V
    <3>. QED
      BY <1>1, <2>1, <3>1, <3>2 DEF Absolute
  <2>. QED
    BY <2>2, <2>3
<1>3. 2 * (D - V) <= E /\ 2 * (V - D) <= E
  OBVIOUS
<1>. HIDE DEF X, V
<1>4. /\ 2 * Absolute(X - D) <= 2 * Absolute(X - V) + E
      /\ 2 * Absolute(X - V) <= 2 * Absolute(X - D) + E
      /\ Absolute(X - V) \in Int /\ Absolute(X - D) \in Int
  BY <1>1, <1>3 DEF Absolute
<1>. QED
  BY <1>2, <1>4 DEF X

\* The key of a document in a list is its distance up to half a step, when it is
\* in the range of the quantizer.
LEMMA KeyIs ==
    ASSUME IInv, metric = "l2", quantizer # None, NEW query \in Int, NEW id \in Live,
           given[id] \in quantizer.min .. quantizer.max
    PROVE  LET key == LutDistance(query, EntryOf(id))
               distance == Levels * Distance("l2", query, given[id])
           IN  /\ 2 * key <= 2 * distance + Extent(quantizer)
               /\ 2 * distance <= 2 * key + Extent(quantizer)
               /\ key \in Int /\ distance \in Int
<1> DEFINE v == given[id]
           D == Dequantized(quantizer, Quantize(quantizer, v))
           E == Extent(quantizer)
<1>1. /\ id \in Ids /\ v \in Int /\ quantizer \in Quantizers /\ quantizer.min <= quantizer.max
      /\ Levels \in Nat \ {0}
  BY SnapshotIs, GivenAre, IvfAssumption DEF IInv, Sound, Typed, Live
<1>2. Prepared(metric, v) = v
  BY DEF Prepared
<1>3. EntryOf(id) = NewEntry(quantizer, id, v)
  <2>1. EntryAt(Snapshot.held, id) = NewEntry(quantizer, id, v)
    BY <1>2, SnapshotIs DEF IInv, Sound, Faithful
  <2>2. docToPosting[id] # None
    BY <1>1, OnePlaceHolds DEF OnePlaceEach, Held, Trained, Posted, Live
  <2>. QED
    BY <1>1, <2>1, <2>2, HeldIs
<1>4. EntryOf(id).q = Quantize(quantizer, v)
  BY <1>3 DEF NewEntry
<1>5. LutDistance(query, EntryOf(id)) = Absolute(query * Levels - D)
  BY <1>4 DEF LutDistance
<1>6. 2 * (D - v * Levels) <= E /\ 2 * (v * Levels - D) <= E /\ Quantize(quantizer, v) \in 0 .. Levels
  BY <1>1, QuantizeIs
<1>7. D \in Int /\ E \in Nat
  <2>1. quantizer.min \in Int /\ quantizer.max \in Int
    BY <1>1 DEF Quantizers
  <2>2. E \in Nat
    BY <1>1, <2>1 DEF Extent
  <2>3. Quantize(quantizer, v) \in Int
    BY <1>1, <1>6
  <2>4. quantizer.min * Levels \in Int /\ Quantize(quantizer, v) * Extent(quantizer) \in Int
    BY <1>1, <2>1, <2>2, <2>3
  <2>. QED
    BY <2>2, <2>4 DEF Dequantized
<1>8. Levels * Distance("l2", query, v) = Levels * Absolute(query - v)
  BY DEF Distance
<1>. HIDE DEF D, E, v
<1>9. /\ 2 * Absolute(query * Levels - D) <= 2 * (Levels * Absolute(query - v)) + E
      /\ 2 * (Levels * Absolute(query - v)) <= 2 * Absolute(query * Levels - D) + E
      /\ Levels * Absolute(query - v) \in Int /\ Absolute(query * Levels - D) \in Int
  BY <1>1, <1>6, <1>7, HalfStep
<1>. QED
  BY <1>5, <1>8, <1>9 DEF v, E

\* The invariant makes a search of all lists complete, and accurate up to a step.
LEMMA FullProbeHolds == IInv => FullProbeAccurate
<1> SUFFICES ASSUME IInv, ~leftoverDeleted, NEW query \in Queries,
                    NEW passing \in {Ids} \cup {{id} : id \in Ids},
                    NEW s \in Search(query, Cardinality(Ids), NCentroids, passing)
             PROVE  LET distance(id) == Distance("l2", query, given[id])
                        inRange(id) == Trained => given[id] \in quantizer.min .. quantizer.max
                        step == IF Trained THEN Extent(quantizer) ELSE 0
                    IN  /\ SetOf(s) = Live \cap passing
                        /\ Len(s) = Cardinality(Live \cap passing)
                        /\ metric = "l2" => \A i, j \in DOMAIN s : i < j /\ inRange(s[i]) /\ inRange(s[j]) =>
                              Levels * distance(s[i]) <= Levels * distance(s[j]) + step
  BY Zenon DEF FullProbeAccurate
<1> DEFINE q == Prepared(metric, query)
           inRange(id) == quantizer # None => given[id] \in quantizer.min .. quantizer.max
           distance(id) == Distance("l2", query, given[id])
           step == IF quantizer # None THEN Extent(quantizer) ELSE 0
<1>1. /\ query \in Int /\ passing \in SUBSET Ids /\ metric \in Metrics /\ q \in Int
      /\ (metric = "l2" => q = query) /\ Levels \in Nat
  <2>1. query \in Int /\ passing \in SUBSET Ids /\ Levels \in Nat
    BY IvfAssumption
  <2>2. metric \in Metrics
    BY SnapshotIs, GivenAre DEF IInv, Sound
  <2>. QED
    BY <2>1, <2>2, Values DEF Prepared
<1>2. \A id \in Live : id \in Ids /\ given[id] \in Int
  BY SnapshotIs, GivenAre DEF IInv, Sound
<1>3. CASE activeCount = 0
  <2>1. Live = {} /\ s = <<>>
    <3>1. Live = {}
      BY <1>3, CountedLive
    <3>2. s = <<>>
      BY <1>3 DEF Search
    <3>. QED
      BY <3>1, <3>2
  <2>2. SetOf(s) = {} /\ Len(s) = 0 /\ DOMAIN s = {}
    BY <2>1 DEF SetOf
  <2>3. Live \cap passing = {} /\ Cardinality(Live \cap passing) = 0
    BY <2>1, FS_EmptySet
  <2>. QED
    BY <2>2, <2>3
<1>4. CASE activeCount # 0 /\ quantizer = None
  <2> DEFINE cold == [i \in ColdAt(passing) |-> Distance(metric, q, trainingCache[i].vector)]
             f == ColdIds(passing)
  <2>1. PICK r : AnswerHas(s, ColdAt(passing), f, r, cold)
    BY <1>1, <1>4, SearchIs
  <2>2. {f[x] : x \in ColdAt(passing)} = Live \cap passing
    BY <1>1, <1>4, ColdLive
  <2>3. /\ SetOf(s) = Live \cap passing
        /\ Len(s) = Cardinality(Live \cap passing)
        /\ \A j \in DOMAIN s : r[j] \in ColdAt(passing) /\ s[j] = f[r[j]]
        /\ \A i, j \in DOMAIN s : i < j => cold[r[i]] <= cold[r[j]]
    <3>. HIDE DEF cold, f
    <3>. QED
      BY <2>1, <2>2 DEF AnswerHas
  <2>4. ASSUME metric = "l2", NEW i \in DOMAIN s, NEW j \in DOMAIN s, i < j
        PROVE  Levels * distance(s[i]) <= Levels * distance(s[j]) + step
    <3>1. ASSUME NEW x \in DOMAIN s
          PROVE  cold[r[x]] = distance(s[x]) /\ distance(s[x]) \in Nat
      <4>1. r[x] \in DOMAIN trainingCache /\ s[x] = trainingCache[r[x]].id
            /\ cold[r[x]] = Distance("l2", query, trainingCache[r[x]].vector)
        BY <1>1, <2>3, <2>4 DEF ColdAt, ColdIds
      <4>2. trainingCache[r[x]].vector = given[s[x]]
        <5>1. trainingCache[r[x]].vector = Prepared(metric, given[trainingCache[r[x]].id])
          BY <1>4, <4>1, SnapshotIs DEF IInv, Sound, Faithful
        <5>. QED
          BY <2>4, <4>1, <5>1 DEF Prepared
      <4>3. s[x] \in Live
        BY <2>3 DEF SetOf
      <4>4. distance(s[x]) \in Nat
        BY <1>1, <1>2, <4>3 DEF Distance, Absolute
      <4>. QED
        BY <4>1, <4>2, <4>4
    <3>2. distance(s[i]) <= distance(s[j]) /\ distance(s[i]) \in Nat /\ distance(s[j]) \in Nat
      <4>1. cold[r[i]] <= cold[r[j]]
        BY <2>3, <2>4
      <4>. HIDE DEF cold, distance
      <4>. QED
        BY <3>1, <4>1
    <3>3. step = 0
      BY <1>4
    <3>. HIDE DEF distance, step
    <3>4. Levels * distance(s[i]) <= Levels * distance(s[j])
      BY <1>1, <3>2
    <3>5. Levels * distance(s[j]) \in Nat
      BY <1>1, <3>2
    <3>. QED
      BY <3>3, <3>4, <3>5
  <2>. QED
    BY <1>4, <2>3, <2>4 DEF Trained
<1>5. CASE activeCount # 0 /\ quantizer # None
  <2> DEFINE key == [at \in FoundAt(Lists, passing) |-> LutDistance(q, postings[at[1]][at[2]])]
             f == FoundIds(Lists, passing)
  <2>1. PICK r : AnswerHas(s, FoundAt(Lists, passing), f, r, key)
    <3>1. Probed(q, NCentroids) = Lists /\ Lists \in SUBSET Lists
      BY <1>1, <1>5, ProbedIs
    <3>. QED
      BY <1>1, <1>5, <3>1, SearchIs
  <2>2. {f[x] : x \in FoundAt(Lists, passing)} = Live \cap passing
    BY <1>1, <1>5, TrainedLive
  <2>3. /\ SetOf(s) = Live \cap passing
        /\ Len(s) = Cardinality(Live \cap passing)
        /\ \A j \in DOMAIN s : r[j] \in FoundAt(Lists, passing) /\ s[j] = f[r[j]]
        /\ \A i, j \in DOMAIN s : i < j => key[r[i]] <= key[r[j]]
    <3>. HIDE DEF key, f
    <3>. QED
      BY <2>1, <2>2 DEF AnswerHas
  <2>4. ASSUME metric = "l2", NEW i \in DOMAIN s, NEW j \in DOMAIN s, i < j, inRange(s[i]), inRange(s[j])
        PROVE  Levels * distance(s[i]) <= Levels * distance(s[j]) + step
    <3>1. ASSUME NEW x \in DOMAIN s, inRange(s[x])
          PROVE  /\ 2 * key[r[x]] <= 2 * (Levels * distance(s[x])) + step
                 /\ 2 * (Levels * distance(s[x])) <= 2 * key[r[x]] + step
                 /\ key[r[x]] \in Int /\ Levels * distance(s[x]) \in Int
      <4>1. s[x] \in Live
        BY <2>3 DEF SetOf
      <4>2. docToPosting[s[x]] = r[x]
        BY <1>1, <2>3, FoundPositions
      <4>3. key[r[x]] = LutDistance(query, EntryOf(s[x]))
        BY <1>1, <2>3, <2>4, <4>2 DEF EntryOf
      <4>4. given[s[x]] \in quantizer.min .. quantizer.max /\ step = Extent(quantizer)
        BY <1>5, <3>1
      <4>. HIDE DEF key, step
      <4>. QED
        BY <1>1, <1>5, <2>4, <4>1, <4>3, <4>4, KeyIs
    <3>2. key[r[i]] <= key[r[j]]
      BY <2>3, <2>4
    <3>3. step \in Int
      BY <1>5, SnapshotIs, GivenAre DEF IInv, Sound, Quantizers, Extent
    <3> DEFINE ki == key[r[i]]
               kj == key[r[j]]
               di == Levels * distance(s[i])
               dj == Levels * distance(s[j])
    <3>4. 2 * di <= 2 * ki + step /\ 2 * kj <= 2 * dj + step /\ ki <= kj
          /\ di \in Int /\ dj \in Int /\ ki \in Int /\ kj \in Int
      BY <2>4, <3>1, <3>2
    <3>5. di <= dj + step
      <4>. HIDE DEF di, dj, ki, kj, step
      <4>. QED
        BY <3>3, <3>4
    <3>. QED
      BY <3>5
  <2>. QED
    BY <1>5, <2>3, <2>4 DEF Trained
<1>. QED
  BY <1>3, <1>4, <1>5

\* A search of all lists answers with exactly the live documents that pass the
\* filter, each once, and never puts one before another that is nearer by more
\* than a step of the quantizer, if both are in its range; before the training
\* the order is exact.
THEOREM FullProbeIsAccurate == Spec => []FullProbeAccurate
BY Invariant, FullProbeHolds, PTL
=============================================================================
