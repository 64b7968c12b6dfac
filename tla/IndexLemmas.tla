---------------------------- MODULE IndexLemmas -----------------------------
(***************************************************************************)
(* What the proofs about the vector indexes share: recursion along an      *)
(* interval, least and greatest values, distances.                         *)
(***************************************************************************)
EXTENDS Distance, Sequences, FiniteSetTheorems, SequenceTheorems, WellFoundedInduction, TLAPS

-----------------------------------------------------------------------------
(* Steps of an interval, and functions defined by recursion on one.        *)

\* What holds at the start of an interval, and one further wherever it holds,
\* holds in all of it.
LEMMA Steps ==
    ASSUME NEW a \in Nat, NEW b \in Nat, NEW S, a \in S,
           \A n \in a .. b : n \in S /\ n < b => n + 1 \in S
    PROVE  \A n \in a .. b : n \in S
<1> DEFINE R == OpToRel(<, Nat)
           T == {n \in a .. b : n \notin S}
<1>1. IsWellFoundedOn(R, Nat)
  BY NatLessThanWellFounded
<1>2. SUFFICES ASSUME T # {} PROVE FALSE
  OBVIOUS
<1>3. PICK x \in T : \A y \in T : ~ (<<y, x>> \in R)
  <2>1. T \subseteq Nat
    OBVIOUS
  <2>. QED
    BY <1>1, <1>2, <2>1, WFMin
<1>4. x \in a .. b /\ x \notin S /\ x # a
  BY <1>3
<1>5. x - 1 \in a .. b /\ x - 1 < b /\ x - 1 + 1 = x
  BY <1>4
<1>6. x - 1 \in T
  BY <1>4, <1>5
<1>7. <<x - 1, x>> \in R
  <2>1. x - 1 \in Nat /\ x \in Nat /\ x - 1 < x
    BY <1>4, <1>5
  <2>. QED
    BY <2>1, Zenon DEF OpToRel
<1>. QED
  BY <1>3, <1>6, <1>7

\* A function that starts with an element and goes on as a step function says.
Follows(f, a, b, first, step) == \A n \in a .. b : f[n] = IF n = a THEN first ELSE step[n][f[n - 1]]

\* There is one, whatever element and step function.
LEMMA Iterated ==
    ASSUME NEW a \in Nat, NEW b \in Nat, NEW V, NEW first \in V, NEW step \in [a .. b -> [V -> V]]
    PROVE  \E f \in [a .. b -> V] : Follows(f, a, b, first, step)
<1> DEFINE Good(f, m) == f = [n \in a .. m |-> IF n = a THEN first ELSE step[n][f[n - 1]]]
           S == {m \in a .. b : \E f \in [a .. m -> V] : Good(f, m)}
<1>1. CASE a > b
  <2>1. a .. b = {}
    BY <1>1
  <2> DEFINE f == [n \in a .. b |-> first]
  <2>2. f \in [a .. b -> V] /\ Follows(f, a, b, first, step)
    BY <2>1 DEF Follows
  <2>. HIDE DEF f
  <2>. QED
    BY <2>2
<1>2. CASE ~ (a > b)
  <2>1. a \in S
    <3> DEFINE f == [n \in a .. a |-> first]
    <3>1. f \in [a .. a -> V] /\ Good(f, a) /\ a \in a .. b
      BY <1>2
    <3>. HIDE DEF f, Good
    <3>. QED
      BY <3>1
  <2>2. ASSUME NEW m \in a .. b, m \in S, m < b
        PROVE  m + 1 \in S
    <3>1. PICK f \in [a .. m -> V] : Good(f, m)
      BY <2>2
    <3> DEFINE g == [n \in a .. m + 1 |-> IF n = m + 1 THEN step[m + 1][f[m]] ELSE f[n]]
    <3>2. m \in Nat /\ m + 1 \in a .. b /\ \A n \in a .. m + 1 : n # m + 1 => n \in a .. m
      BY <2>2
    <3>3. step[m + 1][f[m]] \in V
      BY <3>1, <3>2
    <3>4. g \in [a .. m + 1 -> V]
      BY <3>1, <3>2, <3>3
    <3>5. \A n \in a .. m + 1 : g[n] = IF n = a THEN first ELSE step[n][g[n - 1]]
      <4> SUFFICES ASSUME NEW n \in a .. m + 1
                   PROVE  g[n] = IF n = a THEN first ELSE step[n][g[n - 1]]
        OBVIOUS
      <4>1. CASE n = m + 1
        <5>1. m \in a .. m + 1 /\ m # m + 1 /\ n - 1 = m /\ n # a
          BY <4>1, <2>2
        <5>2. g[m] = f[m]
          BY <5>1
        <5>. QED
          BY <4>1, <5>1, <5>2
      <4>2. CASE n # m + 1
        <5>1. n \in a .. m /\ (n # a => n - 1 \in a .. m + 1 /\ n - 1 # m + 1)
          BY <4>2, <3>2, <2>2
        <5>2. g[n] = f[n] /\ (n # a => g[n - 1] = f[n - 1])
          BY <4>2, <5>1
        <5>. QED
          BY <3>1, <5>1, <5>2
      <4>. QED
        BY <4>1, <4>2
    <3>6. Good(g, m + 1)
      <4>. HIDE DEF g
      <4>. QED
        BY <3>4, <3>5
    <3>. QED
      BY <3>2, <3>4, <3>6
  <2>3. b \in S
    <3>. HIDE DEF S
    <3>1. \A m \in a .. b : m \in S
      BY <2>1, <2>2, Steps
    <3>. QED
      BY <1>2, <3>1
  <2>4. PICK f \in [a .. b -> V] : Good(f, b)
    BY <2>3
  <2>5. Follows(f, a, b, first, step)
    BY <2>4 DEF Follows
  <2>. QED
    BY <2>5
<1>. QED
  BY <1>1, <1>2

Iterates(f, a, b, first, step) == f = [n \in a .. b |-> IF n = a THEN first ELSE step[n][f[n - 1]]]

\* Where each step leads from one set into the next, so does the function.
LEMMA IteratedWithin ==
    ASSUME NEW a \in Nat, NEW b \in Nat, NEW W, NEW first, first \in W[a], NEW step,
           \A n \in a .. b : n # a => \A x \in W[n - 1] : step[n][x] \in W[n]
    PROVE  \E f : Iterates(f, a, b, first, step) /\ \A n \in a .. b : f[n] \in W[n]
<1> DEFINE V == (UNION {W[n] : n \in a .. b}) \cup {first}
           total == [n \in a .. b |-> [x \in V |-> IF n # a /\ x \in W[n - 1] THEN step[n][x] ELSE first]]
<1>1. \A n \in a .. b : W[n] \subseteq V
  OBVIOUS
<1>2. total \in [a .. b -> [V -> V]]
  <2>1. \A n \in a .. b, x \in V : (IF n # a /\ x \in W[n - 1] THEN step[n][x] ELSE first) \in V
    BY <1>1
  <2>. HIDE DEF V
  <2>. QED
    BY <2>1
<1>3. PICK f \in [a .. b -> V] : Follows(f, a, b, first, total)
  <2>1. first \in V
    OBVIOUS
  <2>. HIDE DEF V, total
  <2>. QED
    BY <1>2, <2>1, Iterated
<1> DEFINE S == {n \in a .. b : f[n] \in W[n]}
<1>4. \A n \in a .. b : f[n] = IF n = a THEN first ELSE total[n][f[n - 1]]
  <2>. HIDE DEF total
  <2>. QED
    BY <1>3 DEF Follows
<1>5. \A n \in a .. b : n # a => n - 1 \in a .. b /\ n - 1 + 1 = n
  OBVIOUS
<1>6. \A n \in a .. b : n # a /\ n - 1 \in S => f[n] = step[n][f[n - 1]] /\ n \in S
  <2> SUFFICES ASSUME NEW n \in a .. b, n # a, n - 1 \in S
               PROVE  f[n] = step[n][f[n - 1]] /\ n \in S
    OBVIOUS
  <2>1. f[n - 1] \in W[n - 1] /\ f[n - 1] \in V
    BY <1>3, <1>5
  <2>2. total[n][f[n - 1]] = step[n][f[n - 1]]
    <3>. HIDE DEF V
    <3>. QED
      BY <2>1
  <2>3. f[n] = step[n][f[n - 1]]
    <3>. HIDE DEF total
    <3>. QED
      BY <1>4, <2>2
  <2>. QED
    BY <2>1, <2>3
<1>7. \A n \in a .. b : n \in S
  <2>1. CASE a > b
    BY <2>1
  <2>2. CASE ~ (a > b)
    <3>1. a \in a .. b
      BY <2>2
    <3>2. a \in S
      <4>1. f[a] = first
        <5>. HIDE DEF total
        <5>. QED
          BY <1>4, <3>1
      <4>. QED
        BY <3>1, <4>1
    <3>3. \A n \in a .. b : n \in S /\ n < b => n + 1 \in S
      <4> SUFFICES ASSUME NEW n \in a .. b, n \in S, n < b PROVE n + 1 \in S
        OBVIOUS
      <4>1. n + 1 \in a .. b /\ n + 1 # a /\ n + 1 - 1 = n
        BY <3>1
      <4>. HIDE DEF S
      <4>. QED
        BY <1>6, <4>1
    <3>. HIDE DEF S
    <3>. QED
      BY <3>2, <3>3, Steps
  <2>. QED
    BY <2>1, <2>2
<1>8. \A n \in a .. b : f[n] = IF n = a THEN first ELSE step[n][f[n - 1]]
  <2> SUFFICES ASSUME NEW n \in a .. b PROVE f[n] = IF n = a THEN first ELSE step[n][f[n - 1]]
    OBVIOUS
  <2>1. n = a => f[n] = first
    <3>. HIDE DEF total
    <3>. QED
      BY <1>4
  <2>2. n # a => f[n] = step[n][f[n - 1]]
    <3>. HIDE DEF S
    <3>. QED
      BY <1>5, <1>6, <1>7
  <2>. QED
    BY <2>1, <2>2
<1>9. Iterates(f, a, b, first, step)
  <2>. HIDE DEF V, total
  <2>. QED
    BY <1>3, <1>8 DEF Iterates
<1>. QED
  BY <1>7, <1>9

\* What leads from one set into the next stays within.
LEMMA StaysWithin ==
    ASSUME NEW b \in Nat, NEW W, NEW f, f[0] \in W[0],
           \A n \in 0 .. b : n # 0 => (f[n - 1] \in W[n - 1] => f[n] \in W[n])
    PROVE  \A n \in 0 .. b : f[n] \in W[n]
<1> DEFINE S == {n \in 0 .. b : f[n] \in W[n]}
<1>1. 0 \in S
  OBVIOUS
<1>2. \A n \in 0 .. b : n \in S /\ n < b => n + 1 \in S
  <2> SUFFICES ASSUME NEW n \in 0 .. b, n \in S, n < b PROVE n + 1 \in S
    OBVIOUS
  <2>1. n + 1 \in 0 .. b /\ n + 1 # 0 /\ n + 1 - 1 = n
    OBVIOUS
  <2>. QED
    BY <2>1
<1>3. \A n \in 0 .. b : n \in S
  <2>. HIDE DEF S
  <2>1. 0 \in Nat
    OBVIOUS
  <2>. QED
    BY <1>1, <1>2, <2>1, Steps
<1>. QED
  BY <1>3

-----------------------------------------------------------------------------
(* Least and greatest values, distances.                                   *)

\* Of finitely many positions with integers at them, some have the greatest.
LEMMA GreatestOf ==
    ASSUME NEW n \in Nat, NEW F \in SUBSET (1 .. n), F # {}, NEW f, \A i \in F : f[i] \in Int
    PROVE  \E i \in F : \A j \in F : f[i] >= f[j]
<1> DEFINE S == {m \in 0 .. n : (\E j \in F : j <= m) =>
                                    \E i \in F : i <= m /\ \A j \in F : j <= m => f[i] >= f[j]}
<1>1. 0 \in S
  OBVIOUS
<1>2. ASSUME NEW m \in 0 .. n, m \in S, m < n
      PROVE  m + 1 \in S
  <2>1. m + 1 \in 0 .. n /\ \A j \in F : j <= m + 1 <=> j <= m \/ j = m + 1
    BY <1>2
  <2>2. CASE m + 1 \notin F
    BY <1>2, <2>1, <2>2
  <2>3. CASE m + 1 \in F /\ \A j \in F : ~ (j <= m)
    BY <2>1, <2>3
  <2>4. CASE m + 1 \in F /\ \E j \in F : j <= m
    <3>1. PICK i \in F : i <= m /\ \A j \in F : j <= m => f[i] >= f[j]
      BY <1>2, <2>4
    <3>2. CASE f[i] >= f[m + 1]
      <4>1. i <= m + 1 /\ \A j \in F : j <= m + 1 => f[i] >= f[j]
        BY <2>1, <3>1, <3>2
      <4>. QED
        BY <2>1, <4>1
    <3>3. CASE ~ (f[i] >= f[m + 1])
      <4>1. f[m + 1] \in Int /\ f[i] \in Int /\ f[m + 1] > f[i]
        BY <2>4, <3>3
      <4>2. \A j \in F : j <= m + 1 => f[m + 1] >= f[j]
        BY <2>1, <3>1, <4>1
      <4>. QED
        BY <2>1, <2>4, <4>2
    <3>. QED
      BY <3>2, <3>3
  <2>. QED
    BY <2>2, <2>3, <2>4
<1>3. n \in S
  <2>. HIDE DEF S
  <2>1. \A m \in 0 .. n : m \in S
    BY <1>1, <1>2, Steps
  <2>. QED
    BY <2>1
<1>4. \A j \in F : j <= n
  OBVIOUS
<1>5. \E j \in F : j <= n
  BY <1>4
<1>6. \E i \in F : i <= n /\ \A j \in F : j <= n => f[i] >= f[j]
  BY <1>3, <1>5
<1>. QED
  BY <1>4, <1>6

\* Of the positions 1 to n, some have the greatest value.
LEMMA GreatestOfAll ==
    ASSUME NEW n \in Nat \ {0}, NEW f, \A i \in 1 .. n : f[i] \in Int
    PROVE  \E i \in 1 .. n : \A j \in 1 .. n : f[i] >= f[j]
<1> DEFINE F == 1 .. n
<1>1. F # {} /\ F \in SUBSET (1 .. n)
  OBVIOUS
<1>2. \E i \in F : \A j \in F : f[i] >= f[j]
  <2>1. \A i \in F : f[i] \in Int
    OBVIOUS
  <2>. HIDE DEF F
  <2>. QED
    BY <1>1, <2>1, GreatestOf
<1>. QED
  BY <1>2

\* One of them is the first.
LEMMA FirstOf ==
    ASSUME NEW n \in Nat, NEW F \in SUBSET (1 .. n), F # {}
    PROVE  \E i \in F : \A j \in F : i <= j
<1> DEFINE f == [i \in 1 .. n |-> -i]
<1>1. \E i \in F : \A j \in F : f[i] >= f[j]
  <2>1. \A i \in F : f[i] \in Int
    OBVIOUS
  <2>. HIDE DEF f
  <2>. QED
    BY <2>1, GreatestOf
<1>2. \A i, j \in F : i \in Int /\ j \in Int /\ (f[i] >= f[j] => i <= j)
  OBVIOUS
<1>. QED
  BY <1>1, <1>2, Zenon

\* Of the positions with the least value one is the first.
LEMMA FirstLeast ==
    ASSUME NEW n \in Nat \ {0}, NEW f \in [1 .. n -> Int]
    PROVE  \E i \in 1 .. n : \A j \in 1 .. n : f[i] < f[j] \/ (f[i] = f[j] /\ i <= j)
<1> DEFINE g == [i \in 1 .. n |-> -f[i]]
<1>1. PICK i \in 1 .. n : \A j \in 1 .. n : g[i] >= g[j]
  <2>1. \A i \in 1 .. n : g[i] \in Int
    OBVIOUS
  <2>2. 1 .. n # {} /\ 1 .. n \in SUBSET (1 .. n)
    OBVIOUS
  <2>. HIDE DEF g
  <2>. QED
    BY <2>1, <2>2, GreatestOf
<1>2. \A j \in 1 .. n : f[i] <= f[j]
  BY <1>1
<1> DEFINE F == {j \in 1 .. n : f[j] = f[i]}
<1>3. PICK k \in F : \A j \in F : k <= j
  <2>1. F # {} /\ F \in SUBSET (1 .. n)
    OBVIOUS
  <2>. HIDE DEF F
  <2>. QED
    BY <2>1, FirstOf
<1>4. \A j \in 1 .. n : f[k] < f[j] \/ (f[k] = f[j] /\ k <= j)
  BY <1>2, <1>3
<1>. QED
  BY <1>3, <1>4

\* Prepared vectors, distances and norms are integers.
LEMMA Values ==
    ASSUME NEW m \in Metrics, NEW a \in Int, NEW b \in Int
    PROVE  Prepared(m, a) \in Int /\ Distance(m, a, b) \in Int /\ Absolute(a) \in Nat
<1>1. Prepared(m, a) \in Int /\ Absolute(a) \in Nat /\ a - b \in Int
  BY OneAssumption DEF Prepared, Normalize, Absolute
<1>2. a * b \in Int /\ One * One \in Int
  BY OneAssumption
<1>3. Absolute(a - b) \in Int
  BY <1>1 DEF Absolute
<1>. QED
  BY <1>1, <1>2, <1>3 DEF Distance, Metrics

-----------------------------------------------------------------------------
(* Rankings.                                                               *)

\* A ranking is a sequence of different members by ascending keys, none of which is
\* greater than that of a member left out; of as many as there are it has all.
LEMMA RankedIs ==
    ASSUME NEW S, IsFiniteSet(S), NEW k \in Nat, NEW key, NEW r \in Ranked(S, key, k),
           NEW n, n = Least(k, Cardinality(S))
    PROVE  /\ Cardinality(S) \in Nat /\ n \in Nat /\ n <= k /\ n <= Cardinality(S)
           /\ Cardinality(S) <= k => n = Cardinality(S)
           /\ r \in [1 .. n -> S] /\ r \in Seq(S) /\ Len(r) = n /\ DOMAIN r = 1 .. n
           /\ \A i, j \in 1 .. n : i < j => key[r[i]] <= key[r[j]]
           /\ \A i, j \in 1 .. n : r[i] = r[j] => i = j
           /\ \A x \in S : (\E i \in 1 .. n : r[i] = x) \/ \A i \in 1 .. n : key[r[i]] <= key[x]
           /\ n < Cardinality(S) => \E x \in S : \A i \in 1 .. n : r[i] # x
           /\ Cardinality(S) <= k => \A x \in S : \E i \in 1 .. n : r[i] = x
<1> DEFINE T == {r[i] : i \in 1 .. n}
<1>1. /\ Cardinality(S) \in Nat /\ n \in Nat /\ n <= k /\ n <= Cardinality(S)
      /\ Cardinality(S) <= k => n = Cardinality(S)
  BY FS_CardinalityType DEF Least
<1>2. /\ r \in [1 .. n -> S]
      /\ \A i, j \in 1 .. n : i < j => r[i] # r[j] /\ key[r[i]] <= key[r[j]]
      /\ \A x \in S \ T : \A i \in 1 .. n : key[r[i]] <= key[x]
  BY Zenon DEF Ranked
<1>3. r \in Seq(S) /\ Len(r) = n /\ DOMAIN r = 1 .. n
  BY <1>1, <1>2
<1>4. \A i, j \in 1 .. n : r[i] = r[j] => i = j
  BY <1>1, <1>2
<1>5. T \in SUBSET S
  BY <1>2
<1>6. Cardinality(T) = n
  <2>1. r \in Injection(1 .. n, T) /\ r \in Surjection(1 .. n, T)
    BY <1>3, <1>4 DEF Injection, Surjection, IsInjective
  <2>2. IsFiniteSet(1 .. n) /\ Cardinality(1 .. n) = n
    BY <1>1, FS_Interval
  <2>. HIDE DEF T
  <2>. QED
    BY <2>1, <2>2, FS_Surjection
<1>7. Cardinality(S) <= k => T = S
  <2> SUFFICES ASSUME Cardinality(S) <= k PROVE T = S
    OBVIOUS
  <2>1. Cardinality(T) = Cardinality(S)
    BY <1>1, <1>6
  <2>. HIDE DEF T
  <2>. QED
    BY <1>5, <2>1, FS_Subset
<1>8. n < Cardinality(S) => T # S
  BY <1>1, <1>6
<1>9. \A x \in S : (\E i \in 1 .. n : r[i] = x) \/ \A i \in 1 .. n : key[r[i]] <= key[x]
  BY <1>2
<1>. QED
  BY <1>1, <1>2, <1>3, <1>4, <1>5, <1>7, <1>8, <1>9

\* And such a sequence is a ranking.
LEMMA IsRanked ==
    ASSUME NEW S, NEW k \in Nat, NEW key, NEW n, n = Least(k, Cardinality(S)), NEW r \in [1 .. n -> S], n \in Nat,
           \A i, j \in 1 .. n : i < j => key[r[i]] <= key[r[j]],
           \A i, j \in 1 .. n : r[i] = r[j] => i = j,
           \A x \in S : (\E i \in 1 .. n : r[i] = x) \/ \A i \in 1 .. n : key[r[i]] <= key[x]
    PROVE  r \in Ranked(S, key, k)
<1>1. \A i, j \in 1 .. n : i < j => r[i] # r[j] /\ key[r[i]] <= key[r[j]]
  OBVIOUS
<1>2. \A x \in S \ {r[i] : i \in 1 .. n} : \A i \in 1 .. n : key[r[i]] <= key[x]
  OBVIOUS
<1>. QED
  BY <1>1, <1>2, Zenon DEF Ranked

\* The rankings of all but as many members are one and the same set.
LEMMA RankedSame ==
    ASSUME NEW S, NEW key, NEW k, NEW m, Least(k, Cardinality(S)) = Least(m, Cardinality(S))
    PROVE  Ranked(S, key, k) = Ranked(S, key, m)
  BY Zenon DEF Ranked

\* Members of finite sets have a least key.
LEMMA LeastKey ==
    ASSUME NEW S, IsFiniteSet(S), S # {}, NEW key, \A x \in S : key[x] \in Int
    PROVE  \E x \in S : \A y \in S : key[x] <= key[y]
<1>1. PICK f : Cardinality(S) \in Nat /\ f \in Bijection(1 .. Cardinality(S), S)
  <2>1. Cardinality(S) \in Nat /\ ExistsBijection(1 .. Cardinality(S), S)
    BY FS_CardinalityType
  <2>. QED
    BY <2>1 DEF ExistsBijection
<1> DEFINE n == Cardinality(S)
           g == [i \in 1 .. n |-> -key[f[i]]]
<1>2. n \in Nat \ {0} /\ \A i \in 1 .. n : f[i] \in S
  BY <1>1, FS_EmptySet DEF Bijection, Injection
<1>. HIDE DEF n
<1>3. PICK i \in 1 .. n : \A j \in 1 .. n : g[i] >= g[j]
  <2>1. \A i \in 1 .. n : g[i] \in Int
    BY <1>2
  <2>. HIDE DEF g
  <2>. QED
    BY <1>2, <2>1, GreatestOfAll
<1>4. \A y \in S : \E j \in 1 .. n : f[j] = y
  BY <1>1 DEF Bijection, Surjection, n
<1>5. \A j \in 1 .. n : key[f[i]] <= key[f[j]]
  BY <1>2, <1>3
<1>. QED
  BY <1>2, <1>4, <1>5

\* The rankings of one set, mapped to another one to one and with the same keys,
\* are those of the other.
LEMMA RankedAlong ==
    ASSUME NEW S, IsFiniteSet(S), NEW T, NEW e \in [S -> T], NEW k \in Nat, NEW keyS, NEW keyT,
           \A i, j \in S : e[i] = e[j] => i = j,
           \A x \in T : \E i \in S : e[i] = x,
           \A i \in S : keyS[i] = keyT[e[i]]
    PROVE  {[j \in DOMAIN r |-> e[r[j]]] : r \in Ranked(S, keyS, k)} = Ranked(T, keyT, k)
<1>1. IsFiniteSet(T) /\ Cardinality(T) = Cardinality(S)
  <2>1. e \in Bijection(S, T)
    BY DEF Bijection, Injection, Surjection, IsInjective
  <2>. QED
    BY <2>1, FS_Bijection DEF ExistsBijection
<1> DEFINE n == Least(k, Cardinality(S))
<1>2. n \in Nat /\ n = Least(k, Cardinality(T))
  BY <1>1, FS_CardinalityType DEF Least
<1>. HIDE DEF n
<1>3. ASSUME NEW r \in Ranked(S, keyS, k)
      PROVE  [j \in DOMAIN r |-> e[r[j]]] \in Ranked(T, keyT, k)
  <2> DEFINE q == [j \in DOMAIN r |-> e[r[j]]]
  <2>1. /\ r \in [1 .. n -> S] /\ DOMAIN r = 1 .. n
        /\ \A i, j \in 1 .. n : i < j => keyS[r[i]] <= keyS[r[j]]
        /\ \A i, j \in 1 .. n : r[i] = r[j] => i = j
        /\ \A x \in S : (\E i \in 1 .. n : r[i] = x) \/ \A i \in 1 .. n : keyS[r[i]] <= keyS[x]
    BY RankedIs DEF n
  <2>2. q \in [1 .. n -> T] /\ \A i \in 1 .. n : q[i] = e[r[i]] /\ r[i] \in S /\ keyT[q[i]] = keyS[r[i]]
    BY <2>1
  <2>. HIDE DEF q
  <2>3. \A i, j \in 1 .. n : i < j => keyT[q[i]] <= keyT[q[j]]
    BY <2>1, <2>2
  <2>4. \A i, j \in 1 .. n : q[i] = q[j] => i = j
    BY <2>1, <2>2
  <2>5. \A x \in T : (\E i \in 1 .. n : q[i] = x) \/ \A i \in 1 .. n : keyT[q[i]] <= keyT[x]
    <3> SUFFICES ASSUME NEW x \in T, \A l \in 1 .. n : q[l] # x, NEW i \in 1 .. n
                 PROVE  keyT[q[i]] <= keyT[x]
      OBVIOUS
    <3>1. PICK y \in S : e[y] = x
      OBVIOUS
    <3>2. \A l \in 1 .. n : r[l] # y
      BY <3>1, <2>2
    <3>. QED
      BY <3>1, <3>2, <2>1, <2>2
  <2>6. q \in Ranked(T, keyT, k)
    BY <1>2, <2>2, <2>3, <2>4, <2>5, IsRanked
  <2>. QED
    BY <2>6 DEF q
<1>4. ASSUME NEW q \in Ranked(T, keyT, k)
      PROVE  \E r \in Ranked(S, keyS, k) : q = [j \in DOMAIN r |-> e[r[j]]]
  <2> DEFINE back(x) == CHOOSE i \in S : e[i] = x
             r == [j \in 1 .. n |-> back(q[j])]
  <2>1. /\ q \in [1 .. n -> T] /\ DOMAIN q = 1 .. n
        /\ \A i, j \in 1 .. n : i < j => keyT[q[i]] <= keyT[q[j]]
        /\ \A i, j \in 1 .. n : q[i] = q[j] => i = j
        /\ \A x \in T : (\E i \in 1 .. n : q[i] = x) \/ \A i \in 1 .. n : keyT[q[i]] <= keyT[x]
    BY <1>1, <1>2, RankedIs
  <2>2. \A x \in T : back(x) \in S /\ e[back(x)] = x
    OBVIOUS
  <2>. HIDE DEF back
  <2>3. r \in [1 .. n -> S] /\ DOMAIN r = 1 .. n
        /\ \A i \in 1 .. n : q[i] \in T /\ e[r[i]] = q[i] /\ r[i] \in S /\ keyT[q[i]] = keyS[r[i]]
    BY <2>1, <2>2
  <2>4. q = [j \in DOMAIN r |-> e[r[j]]]
    BY <2>1, <2>3
  <2>. HIDE DEF r
  <2>5. \A i, j \in 1 .. n : i < j => keyS[r[i]] <= keyS[r[j]]
    BY <2>1, <2>3
  <2>6. \A i, j \in 1 .. n : r[i] = r[j] => i = j
    BY <2>1, <2>3
  <2>7. \A x \in S : (\E i \in 1 .. n : r[i] = x) \/ \A i \in 1 .. n : keyS[r[i]] <= keyS[x]
    <3> SUFFICES ASSUME NEW x \in S, \A l \in 1 .. n : r[l] # x, NEW i \in 1 .. n
                 PROVE  keyS[r[i]] <= keyS[x]
      OBVIOUS
    <3>1. e[x] \in T /\ \A l \in 1 .. n : q[l] # e[x]
      BY <2>3
    <3>. QED
      BY <3>1, <2>1, <2>3
  <2>8. r \in Ranked(S, keyS, k)
    BY <1>2, <2>3, <2>5, <2>6, <2>7, IsRanked DEF n
  <2>. QED
    BY <2>4, <2>8
<1>. QED
  BY <1>3, <1>4

\* A ranking that has not all is the beginning of a longer one.
LEMMA RankedByOneMore ==
    ASSUME NEW S, IsFiniteSet(S), NEW k \in Nat, NEW key, \A x \in S : key[x] \in Int, NEW r \in Ranked(S, key, k)
    PROVE  \E q \in Ranked(S, key, k + 1) : \A i \in DOMAIN r : i \in DOMAIN q /\ q[i] = r[i]
<1> DEFINE c == Cardinality(S)
<1>1. c \in Nat
  BY FS_CardinalityType
<1>. HIDE DEF c
<1>2. CASE c <= k
  <2>1. Least(k, c) = Least(k + 1, c)
    BY <1>1, <1>2 DEF Least
  <2>2. r \in Ranked(S, key, k + 1)
    BY <2>1, RankedSame DEF c
  <2>. QED
    BY <2>2
<1>3. CASE k < c
  <2> DEFINE T == {r[i] : i \in 1 .. k}
  <2>1. /\ r \in [1 .. k -> S] /\ DOMAIN r = 1 .. k
        /\ \A i, j \in 1 .. k : i < j => key[r[i]] <= key[r[j]]
        /\ \A i, j \in 1 .. k : r[i] = r[j] => i = j
        /\ \A x \in S : (\E i \in 1 .. k : r[i] = x) \/ \A i \in 1 .. k : key[r[i]] <= key[x]
        /\ \E x \in S : \A i \in 1 .. k : r[i] # x
    <3>1. k = Least(k, Cardinality(S)) /\ k < Cardinality(S)
      BY <1>1, <1>3 DEF Least, c
    <3>. QED
      BY <3>1, RankedIs
  <2>2. IsFiniteSet(S \ T) /\ S \ T # {}
    <3>1. S \ T # {}
      BY <2>1
    <3>. HIDE DEF T
    <3>. QED
      BY <3>1, FS_Difference
  <2>. HIDE DEF T
  <2>3. PICK x \in S \ T : \A y \in S \ T : key[x] <= key[y]
    BY <2>2, LeastKey
  <2> DEFINE q == [i \in 1 .. k + 1 |-> IF i = k + 1 THEN x ELSE r[i]]
  <2>4. /\ q \in [1 .. k + 1 -> S] /\ q[k + 1] = x
        /\ \A i \in 1 .. k + 1 : i # k + 1 => i \in 1 .. k /\ q[i] = r[i]
        /\ \A i \in 1 .. k : i \in 1 .. k + 1 /\ q[i] = r[i] /\ i # k + 1
    BY <2>1
  <2>5. \A i \in 1 .. k : r[i] # x
    BY DEF T
  <2>. HIDE DEF q
  <2>6. \A i, j \in 1 .. k + 1 : i < j => key[q[i]] <= key[q[j]]
    <3> SUFFICES ASSUME NEW i \in 1 .. k + 1, NEW j \in 1 .. k + 1, i < j PROVE key[q[i]] <= key[q[j]]
      OBVIOUS
    <3>1. i # k + 1 /\ i \in 1 .. k /\ q[i] = r[i]
      BY <2>4
    <3>2. CASE j = k + 1
      BY <3>1, <3>2, <2>1, <2>4 DEF T
    <3>3. CASE j # k + 1
      BY <3>1, <3>3, <2>1, <2>4
    <3>. QED
      BY <3>2, <3>3
  <2>7. \A i, j \in 1 .. k + 1 : q[i] = q[j] => i = j
    BY <2>1, <2>4, <2>5
  <2>8. \A y \in S : (\E i \in 1 .. k + 1 : q[i] = y) \/ \A i \in 1 .. k + 1 : key[q[i]] <= key[y]
    <3> SUFFICES ASSUME NEW y \in S, \A l \in 1 .. k + 1 : q[l] # y, NEW i \in 1 .. k + 1
                 PROVE  key[q[i]] <= key[y]
      OBVIOUS
    <3>1. y \in S \ T
      BY <2>4 DEF T
    <3>2. CASE i = k + 1
      BY <3>1, <3>2, <2>3, <2>4
    <3>3. CASE i # k + 1
      BY <3>1, <3>3, <2>1, <2>4
    <3>. QED
      BY <3>2, <3>3
  <2>9. k + 1 = Least(k + 1, Cardinality(S))
    BY <1>1, <1>3 DEF Least, c
  <2>10. q \in Ranked(S, key, k + 1)
    <3> DEFINE m == k + 1
    <3>1. m \in Nat /\ m = Least(m, Cardinality(S)) /\ q \in [1 .. m -> S]
      BY <2>4, <2>9
    <3>2. \A i, j \in 1 .. m : i < j => key[q[i]] <= key[q[j]]
      BY <2>6
    <3>3. \A i, j \in 1 .. m : q[i] = q[j] => i = j
      BY <2>7
    <3>4. \A y \in S : (\E i \in 1 .. m : q[i] = y) \/ \A i \in 1 .. m : key[q[i]] <= key[y]
      BY <2>8
    <3>. HIDE DEF m
    <3>5. q \in Ranked(S, key, m)
      BY <3>1, <3>2, <3>3, <3>4, IsRanked
    <3>. QED
      BY <3>5 DEF m
  <2>11. DOMAIN q = 1 .. k + 1
    BY <2>4
  <2>. QED
    BY <2>1, <2>4, <2>10, <2>11
<1>. QED
  BY <1>1, <1>2, <1>3

LEMMA RankedExtends ==
    ASSUME NEW S, IsFiniteSet(S), NEW k \in Nat, NEW m \in Nat, k <= m, NEW key, \A x \in S : key[x] \in Int,
           NEW r \in Ranked(S, key, k)
    PROVE  \E q \in Ranked(S, key, m) : \A i \in DOMAIN r : i \in DOMAIN q /\ q[i] = r[i]
<1> DEFINE Z == {n \in k .. m : \E q \in Ranked(S, key, n) : \A i \in DOMAIN r : i \in DOMAIN q /\ q[i] = r[i]}
<1>1. k \in Z
  OBVIOUS
<1>2. ASSUME NEW n \in k .. m, n \in Z, n < m
      PROVE  n + 1 \in Z
  <2>1. PICK q \in Ranked(S, key, n) : \A i \in DOMAIN r : i \in DOMAIN q /\ q[i] = r[i]
    BY <1>2
  <2>2. PICK p \in Ranked(S, key, n + 1) : \A i \in DOMAIN q : i \in DOMAIN p /\ p[i] = q[i]
    BY RankedByOneMore
  <2>. QED
    BY <1>2, <2>1, <2>2
<1>. HIDE DEF Z
<1>3. \A n \in k .. m : n \in Z
  BY <1>1, <1>2, Steps
<1>. QED
  BY <1>3 DEF Z

\* The beginnings of the longer rankings are the shorter rankings.
LEMMA RankedPrefixes ==
    ASSUME NEW S, IsFiniteSet(S), NEW k \in Nat, NEW m \in Nat, k <= m, NEW key, \A x \in S : key[x] \in Int
    PROVE  {SubSeq(q, 1, Least(k, Len(q))) : q \in Ranked(S, key, m)} = Ranked(S, key, k)
<1> DEFINE c == Cardinality(S)
           n == Least(k, c)
           l == Least(m, c)
<1>1. n \in Nat /\ l \in Nat /\ n <= l /\ Least(k, l) = n
  BY FS_CardinalityType DEF Least
<1>. HIDE DEF c, n, l
<1>2. ASSUME NEW q \in Ranked(S, key, m)
      PROVE  /\ q \in [1 .. l -> S] /\ DOMAIN q = 1 .. l /\ Len(q) = l /\ q \in Seq(S)
             /\ SubSeq(q, 1, Least(k, Len(q))) = [i \in 1 .. n |-> q[i]]
  <2>1. q \in [1 .. l -> S] /\ DOMAIN q = 1 .. l /\ Len(q) = l /\ q \in Seq(S)
    BY RankedIs DEF l, c
  <2>. QED
    BY <1>1, <2>1
<1>3. ASSUME NEW q \in Ranked(S, key, m)
      PROVE  [i \in 1 .. n |-> q[i]] \in Ranked(S, key, k)
  <2> DEFINE p == [i \in 1 .. n |-> q[i]]
  <2>1. /\ q \in [1 .. l -> S]
        /\ \A i, j \in 1 .. l : i < j => key[q[i]] <= key[q[j]]
        /\ \A i, j \in 1 .. l : q[i] = q[j] => i = j
        /\ \A x \in S : (\E i \in 1 .. l : q[i] = x) \/ \A i \in 1 .. l : key[q[i]] <= key[x]
    BY RankedIs DEF l, c
  <2>2. \A i \in 1 .. n : i \in 1 .. l /\ p[i] = q[i]
    BY <1>1
  <2>3. p \in [1 .. n -> S]
    BY <2>1, <2>2
  <2>. HIDE DEF p
  <2>4. \A i, j \in 1 .. n : i < j => key[p[i]] <= key[p[j]]
    BY <2>1, <2>2
  <2>5. \A i, j \in 1 .. n : p[i] = p[j] => i = j
    BY <2>1, <2>2
  <2>6. \A x \in S : (\E i \in 1 .. n : p[i] = x) \/ \A i \in 1 .. n : key[p[i]] <= key[x]
    <3> SUFFICES ASSUME NEW x \in S, \A j \in 1 .. n : p[j] # x, NEW i \in 1 .. n
                 PROVE  key[p[i]] <= key[x]
      OBVIOUS
    <3>1. CASE \E j \in 1 .. l : q[j] = x
      <4>1. PICK j \in 1 .. l : x = q[j]
        BY <3>1
      <4>2. j \notin 1 .. n
        BY <4>1, <2>2
      <4>3. i < j
        BY <4>2, <1>1
      <4>. QED
        BY <4>1, <4>3, <2>1, <2>2
    <3>2. CASE \A j \in 1 .. l : q[j] # x
      BY <3>2, <2>1, <2>2
    <3>. QED
      BY <3>1, <3>2
  <2>7. p \in Ranked(S, key, k)
    BY <1>1, <2>3, <2>4, <2>5, <2>6, IsRanked DEF n, c
  <2>. QED
    BY <2>7 DEF p
<1>4. ASSUME NEW r \in Ranked(S, key, k)
      PROVE  \E q \in Ranked(S, key, m) : r = [i \in 1 .. n |-> q[i]]
  <2>1. PICK q \in Ranked(S, key, m) : \A i \in DOMAIN r : i \in DOMAIN q /\ q[i] = r[i]
    BY RankedExtends
  <2>2. r \in [1 .. n -> S] /\ DOMAIN r = 1 .. n
    BY RankedIs DEF n, c
  <2>3. r = [i \in 1 .. n |-> q[i]]
    BY <2>1, <2>2
  <2>. QED
    BY <2>3
<1> DEFINE cut(q) == SubSeq(q, 1, Least(k, Len(q)))
<1>5. \A q \in Ranked(S, key, m) : cut(q) = [i \in 1 .. n |-> q[i]]
  BY <1>2
<1>. HIDE DEF cut
<1>6. {cut(q) : q \in Ranked(S, key, m)} = Ranked(S, key, k)
  <2>1. \A q \in Ranked(S, key, m) : cut(q) \in Ranked(S, key, k)
    <3> SUFFICES ASSUME NEW q \in Ranked(S, key, m) PROVE cut(q) \in Ranked(S, key, k)
      OBVIOUS
    <3>1. cut(q) = [i \in 1 .. n |-> q[i]]
      BY <1>5
    <3>. QED
      BY <3>1, <1>3
  <2>2. \A r \in Ranked(S, key, k) : \E q \in Ranked(S, key, m) : r = cut(q)
    <3> SUFFICES ASSUME NEW r \in Ranked(S, key, k) PROVE \E q \in Ranked(S, key, m) : r = cut(q)
      OBVIOUS
    <3>1. PICK q \in Ranked(S, key, m) : r = [i \in 1 .. n |-> q[i]]
      BY <1>4
    <3>2. cut(q) = [i \in 1 .. n |-> q[i]]
      BY <1>5
    <3>. QED
      BY <3>1, <3>2
  <2>. QED
    BY <2>1, <2>2
<1>. QED
  BY <1>6 DEF cut
=============================================================================
