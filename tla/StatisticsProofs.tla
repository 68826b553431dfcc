-------------------------- MODULE StatisticsProofs --------------------------
(***************************************************************************)
(* Theorems about the figures of the dashboard, for any full percentage    *)
(* and any interval: they agree with the checks they are made of and with  *)
(* each other.  A sum over a finite set is a recursive function, and what  *)
(* holds of it is shown by induction over the subsets of the set: if it    *)
(* failed for one of them, it would for one that is smallest (WFMin).      *)
(***************************************************************************)
EXTENDS Statistics, FiniteSetTheorems, FunctionTheorems, WellFoundedInduction, TLAPS

(* Induction over the subsets of a finite set: if some of them are bad,    *)
(* one is that has no bad subset of its own.                               *)
LEMMA Smallest ==
  ASSUME NEW S, IsFiniteSet(S), NEW Bad \in SUBSET SUBSET S, Bad # {}
  PROVE  \E t \in Bad : \A u \in Bad : u \subseteq t => u = t
<1>1. IsWellFoundedOn(StrictSubsetOrdering(S), SUBSET S)
  BY FS_StrictSubsetOrderingWellFounded, FS_FiniteSubsetsOfFinite
<1>2. PICK t \in Bad : \A u \in Bad : ~ (<<u, t>> \in StrictSubsetOrdering(S))
  BY <1>1, WFMin
<1>3. ASSUME NEW u \in Bad, u \subseteq t PROVE u = t
  <2>1. u \in SUBSET S /\ t \in SUBSET S
    OBVIOUS
  <2> QED BY <1>2, <1>3, <2>1 DEF StrictSubsetOrdering
<1> QED BY <1>3

----------------------------------------------------------------------------
(* Sums over finite sets.                                                  *)

(* What is added first, and one unfolding of the recursion of a sum.       *)
Elt(s) == CHOOSE x \in s : TRUE
Rec(w, S, g) == [s \in SUBSET S |-> IF s = {} THEN 0 ELSE w[Elt(s)] + g[s \ {Elt(s)}]]

LEMMA Fewer ==
  ASSUME NEW s, s # {}
  PROVE  Elt(s) \in s /\ s \ {Elt(s)} \subseteq s /\ s \ {Elt(s)} # s
BY DEF Elt

(* The recursion determines the sum of every subset.                       *)
LEMMA Determined ==
  ASSUME NEW w, NEW S, IsFiniteSet(S), NEW T \in SUBSET S, NEW g, NEW h,
         g = Rec(w, S, g), h = Rec(w, T, h)
  PROVE  \A t \in SUBSET T : g[t] = h[t]
<1> DEFINE Bad == {t \in SUBSET T : g[t] # h[t]}
<1>1. SUFFICES ASSUME Bad # {} PROVE FALSE
  OBVIOUS
<1>2. IsFiniteSet(T) /\ Bad \in SUBSET SUBSET T
  BY FS_Subset
<1>3. PICK t \in Bad : \A u \in Bad : u \subseteq t => u = t
  <2> HIDE DEF Bad
  <2> QED BY <1>1, <1>2, Smallest
<1>4. /\ g[t] = IF t = {} THEN 0 ELSE w[Elt(t)] + g[t \ {Elt(t)}]
      /\ h[t] = IF t = {} THEN 0 ELSE w[Elt(t)] + h[t \ {Elt(t)}]
  <2>1. t \in SUBSET S /\ t \in SUBSET T
    OBVIOUS
  <2> QED BY <2>1 DEF Rec
<1>5. t # {}
  BY <1>4
<1>6. t \ {Elt(t)} \notin Bad
  BY <1>3, <1>5, Fewer
<1>7. g[t \ {Elt(t)}] = h[t \ {Elt(t)}]
  BY <1>6
<1> QED BY <1>4, <1>5, <1>7

(* And there is a function that follows it.                                *)
LEMMA Exists ==
  ASSUME NEW w, NEW S, IsFiniteSet(S)
  PROVE  \E g : g = Rec(w, S, g)
<1> DEFINE Bad == {t \in SUBSET S : ~ \E g : g = Rec(w, t, g)}
<1>1. SUFFICES ASSUME Bad # {} PROVE FALSE
  OBVIOUS
<1>2. PICK t \in Bad : \A u \in Bad : u \subseteq t => u = t
  <2>1. Bad \in SUBSET SUBSET S
    OBVIOUS
  <2> HIDE DEF Bad
  <2> QED BY <1>1, <2>1, Smallest
<1> DEFINE G(u) == CHOOSE g : g = Rec(w, u, g)
           whole == [s \in SUBSET t |-> IF s = {} THEN 0
                                        ELSE w[Elt(s)] + G(s \ {Elt(s)})[s \ {Elt(s)}]]
<1>3. ASSUME NEW u \in SUBSET t, u # t PROVE G(u) = Rec(w, u, G(u)) /\ IsFiniteSet(u)
  <2>1. u \in SUBSET S /\ u \notin Bad
    BY <1>2, <1>3
  <2>2. \E g : g = Rec(w, u, g)
    BY <2>1
  <2> QED BY <2>1, <2>2, FS_Subset
<1>4. ASSUME NEW u \in SUBSET t, u # t PROVE whole[u] = G(u)[u]
  <2>1. G(u)[u] = IF u = {} THEN 0 ELSE w[Elt(u)] + G(u)[u \ {Elt(u)}]
    <3> HIDE DEF G
    <3>1. G(u) = Rec(w, u, G(u)) /\ u \in SUBSET u
      BY <1>3, <1>4
    <3> DEFINE g == G(u)
    <3>2. g = Rec(w, u, g)
      BY <3>1
    <3> HIDE DEF g
    <3>3. g[u] = IF u = {} THEN 0 ELSE w[Elt(u)] + g[u \ {Elt(u)}]
      BY <3>2 DEF Rec
    <3> QED BY <3>3 DEF g
  <2>2. CASE u = {}
    BY <2>1, <2>2
  <2>3. CASE u # {}
    <3> DEFINE v == u \ {Elt(u)}
    <3>1. v \in SUBSET u /\ v \in SUBSET t /\ v # t
      BY <1>4, <2>3, Fewer
    <3>2. /\ G(u) = Rec(w, u, G(u)) /\ IsFiniteSet(u)
          /\ G(v) = Rec(w, v, G(v))
      BY <1>3, <1>4, <3>1
    <3> HIDE DEF G, v
    <3>3. G(u)[v] = G(v)[v]
      BY <3>1, <3>2, Determined
    <3> QED BY <2>1, <2>3, <3>3 DEF v
  <2> QED BY <2>2, <2>3
<1>5. whole = Rec(w, t, whole)
  <2>1. ASSUME NEW s \in SUBSET t
        PROVE  whole[s] = IF s = {} THEN 0 ELSE w[Elt(s)] + whole[s \ {Elt(s)}]
    <3>1. CASE s = {}
      BY <3>1
    <3>2. CASE s # {}
      <4> DEFINE u == s \ {Elt(s)}
      <4>1. u \in SUBSET t /\ u # t
        BY <3>2, Fewer
      <4>2. whole[u] = G(u)[u]
        BY <1>4, <4>1
      <4>3. whole[s] = w[Elt(s)] + G(u)[u]
        BY <3>2
      <4> QED BY <3>2, <4>2, <4>3
    <3> QED BY <3>1, <3>2
  <2>2. whole = [s \in SUBSET t |-> whole[s]]
    OBVIOUS
  <2> HIDE DEF whole
  <2>3. [s \in SUBSET t |-> whole[s]] = Rec(w, t, whole)
    BY <2>1 DEF Rec
  <2> QED BY <2>2, <2>3
<1> HIDE DEF whole
<1>6. \E g : g = Rec(w, t, g)
  BY <1>5
<1> QED BY <1>6

Sum(w, S) == SumFunctionOnSet(w, S)

LEMMA SumIs ==
  ASSUME NEW w, NEW S, IsFiniteSet(S)
  PROVE  \E g : g = Rec(w, S, g) /\ Sum(w, S) = g[S]
<1> DEFINE g == CHOOSE h : h = Rec(w, S, h)
<1>1. g = Rec(w, S, g)
  BY Exists
<1>2. Sum(w, S) = g[S]
  BY DEF Sum, SumFunctionOnSet, FoldFunctionOnSet, MapThenFoldSet, Rec, Elt
<1> HIDE DEF g
<1> QED BY <1>1, <1>2

LEMMA SumOfNone == ASSUME NEW w PROVE Sum(w, {}) = 0
<1>1. PICK g : g = Rec(w, {}, g) /\ Sum(w, {}) = g[{}]
  BY SumIs, FS_EmptySet
<1> QED BY <1>1 DEF Rec

LEMMA SumFirst ==
  ASSUME NEW w, NEW S, IsFiniteSet(S), S # {}
  PROVE  Sum(w, S) = w[Elt(S)] + Sum(w, S \ {Elt(S)})
<1> DEFINE T == S \ {Elt(S)}
<1>1. T \in SUBSET S /\ IsFiniteSet(T)
  BY FS_Subset
<1>2. PICK g : g = Rec(w, S, g) /\ Sum(w, S) = g[S]
  BY SumIs
<1>3. PICK h : h = Rec(w, T, h) /\ Sum(w, T) = h[T]
  BY <1>1, SumIs
<1>4. g[S] = w[Elt(S)] + g[T]
  BY <1>2 DEF Rec
<1> HIDE DEF T
<1>5. g[T] = h[T]
  BY <1>1, <1>2, <1>3, Determined
<1> QED BY <1>2, <1>3, <1>4, <1>5 DEF T

(* A sum of integers is one, and does not depend on the order.             *)
LEMMA SumTyped ==
  ASSUME NEW S, IsFiniteSet(S), NEW w, \A x \in S : w[x] \in Int
  PROVE  Sum(w, S) \in Int
<1> DEFINE Bad == {t \in SUBSET S : Sum(w, t) \notin Int}
<1>1. SUFFICES ASSUME Bad # {} PROVE FALSE
  OBVIOUS
<1>2. Bad \in SUBSET SUBSET S
  OBVIOUS
<1>3. PICK t \in Bad : \A u \in Bad : u \subseteq t => u = t
  <2> HIDE DEF Bad
  <2> QED BY <1>1, <1>2, Smallest
<1>4. t # {} /\ IsFiniteSet(t)
  <2>1. Sum(w, {}) = 0 /\ Sum(w, t) \notin Int
    BY SumOfNone
  <2>2. IsFiniteSet(t)
    BY FS_Subset
  <2> QED BY <2>1, <2>2
<1>5. Elt(t) \in t /\ t \ {Elt(t)} \notin Bad
  BY <1>3, <1>4, Fewer
<1>6. w[Elt(t)] \in Int /\ Sum(w, t \ {Elt(t)}) \in Int
  BY <1>5
<1> QED BY <1>4, <1>6, SumFirst

LEMMA SumTake ==
  ASSUME NEW S, IsFiniteSet(S), NEW w, \A x \in S : w[x] \in Int, NEW x \in S
  PROVE  Sum(w, S) = w[x] + Sum(w, S \ {x})
<1> DEFINE Fine(t, y) == Sum(w, t) = w[y] + Sum(w, t \ {y})
           Bad == {t \in SUBSET S : \E y \in t : ~Fine(t, y)}
<1>1. SUFFICES ASSUME Bad # {} PROVE FALSE
  OBVIOUS
<1>2. Bad \in SUBSET SUBSET S
  OBVIOUS
<1>3. PICK t \in Bad : \A u \in Bad : u \subseteq t => u = t
  <2> HIDE DEF Bad
  <2> QED BY <1>1, <1>2, Smallest
<1>4. PICK y \in t : ~Fine(t, y)
  OBVIOUS
<1> DEFINE e == Elt(t)
           both == (t \ {e}) \ {y}
<1>5. e \in t /\ IsFiniteSet(t) /\ t \in SUBSET S
  BY FS_Subset, Fewer
<1>6. Sum(w, t) = w[e] + Sum(w, t \ {e})
  BY <1>5, SumFirst
<1>7. e # y
  BY <1>4, <1>6
<1>8. t \ {e} \notin Bad /\ t \ {y} \notin Bad
  BY <1>3, <1>5
<1>9. Fine(t \ {e}, y) /\ Fine(t \ {y}, e)
  BY <1>5, <1>7, <1>8
<1>10. both = (t \ {y}) \ {e}
  OBVIOUS
<1>11. /\ Sum(w, t \ {e}) = w[y] + Sum(w, both)
       /\ Sum(w, t \ {y}) = w[e] + Sum(w, both)
  BY <1>9, <1>10
<1>12. Sum(w, both) \in Int /\ w[e] \in Int /\ w[y] \in Int
  <2>1. IsFiniteSet(both) /\ both \in SUBSET S
    BY <1>5, FS_Subset
  <2>2. \A z \in both : w[z] \in Int
    BY <2>1
  <2> HIDE DEF both
  <2> QED BY <1>5, <2>1, <2>2, SumTyped
<1> HIDE DEF both, e
<1>13. Sum(w, t) = w[y] + Sum(w, t \ {y})
  BY <1>6, <1>11, <1>12
<1> QED BY <1>4, <1>13

LEMMA SumSame ==
  ASSUME NEW S, IsFiniteSet(S), NEW v, NEW w, \A x \in S : v[x] = w[x]
  PROVE  Sum(v, S) = Sum(w, S)
<1> DEFINE Bad == {t \in SUBSET S : Sum(v, t) # Sum(w, t)}
<1>1. SUFFICES ASSUME Bad # {} PROVE FALSE
  OBVIOUS
<1>2. Bad \in SUBSET SUBSET S
  OBVIOUS
<1>3. PICK t \in Bad : \A u \in Bad : u \subseteq t => u = t
  <2> HIDE DEF Bad
  <2> QED BY <1>1, <1>2, Smallest
<1>4. t # {} /\ IsFiniteSet(t)
  BY SumOfNone, FS_Subset
<1>5. Elt(t) \in t /\ t \ {Elt(t)} \notin Bad
  BY <1>3, <1>4, Fewer
<1>6. v[Elt(t)] = w[Elt(t)] /\ Sum(v, t \ {Elt(t)}) = Sum(w, t \ {Elt(t)})
  BY <1>5
<1> QED BY <1>4, <1>6, SumFirst

LEMMA SumUnion ==
  ASSUME NEW S, IsFiniteSet(S), NEW T, IsFiniteSet(T), S \cap T = {}, NEW w,
         \A x \in S \cup T : w[x] \in Int
  PROVE  Sum(w, S \cup T) = Sum(w, S) + Sum(w, T)
<1> DEFINE Bad == {t \in SUBSET S : Sum(w, t \cup T) # Sum(w, t) + Sum(w, T)}
<1>1. SUFFICES ASSUME Bad # {} PROVE FALSE
  OBVIOUS
<1>2. Bad \in SUBSET SUBSET S
  OBVIOUS
<1>3. PICK t \in Bad : \A u \in Bad : u \subseteq t => u = t
  <2> HIDE DEF Bad
  <2> QED BY <1>1, <1>2, Smallest
<1>4. Sum(w, T) \in Int /\ IsFiniteSet(t) /\ IsFiniteSet(t \cup T)
  BY SumTyped, FS_Subset, FS_Union
<1>5. t # {}
  BY <1>4, SumOfNone
<1>6. PICK x \in t : TRUE
  BY <1>5
<1> DEFINE u == t \ {x}
<1>7. u \notin Bad /\ u \in SUBSET S /\ IsFiniteSet(u)
  BY <1>3, <1>4, FS_Subset
<1>8. Sum(w, u \cup T) = Sum(w, u) + Sum(w, T)
  BY <1>7
<1>9. (t \cup T) \ {x} = u \cup T
  OBVIOUS
<1>10. Sum(w, t \cup T) = w[x] + Sum(w, u \cup T) /\ Sum(w, t) = w[x] + Sum(w, u)
  BY <1>4, <1>9, SumTake
<1>11. w[x] \in Int /\ Sum(w, u) \in Int
  BY <1>7, SumTyped
<1> HIDE DEF u
<1>12. Sum(w, t \cup T) = Sum(w, t) + Sum(w, T)
  BY <1>4, <1>8, <1>10, <1>11
<1> QED BY <1>12

(* A sum lies between as many times its smallest and its largest term.     *)
LEMMA SumBetween ==
  ASSUME NEW S, IsFiniteSet(S), NEW w, NEW lo \in Int, NEW hi \in Int,
         \A x \in S : w[x] \in Int /\ lo <= w[x] /\ w[x] <= hi
  PROVE  lo * Cardinality(S) <= Sum(w, S) /\ Sum(w, S) <= hi * Cardinality(S)
<1> DEFINE Fine(t) == lo * Cardinality(t) <= Sum(w, t) /\ Sum(w, t) <= hi * Cardinality(t)
           Bad == {t \in SUBSET S : ~Fine(t)}
<1>1. SUFFICES ASSUME Bad # {} PROVE FALSE
  <2>1. S \in SUBSET S
    OBVIOUS
  <2> QED BY <2>1
<1>2. Bad \in SUBSET SUBSET S
  OBVIOUS
<1>3. PICK t \in Bad : \A u \in Bad : u \subseteq t => u = t
  <2> HIDE DEF Bad
  <2> QED BY <1>1, <1>2, Smallest
<1>4. t # {}
  <2>1. Sum(w, {}) = 0 /\ Cardinality({}) = 0
    BY SumOfNone, FS_EmptySet
  <2>2. Fine({})
    BY <2>1
  <2> QED BY <2>2
<1>5. PICK x \in t : TRUE
  BY <1>4
<1> DEFINE u == t \ {x}
           n == Cardinality(u)
<1>6. t \in SUBSET S /\ IsFiniteSet(t) /\ u \in SUBSET S /\ IsFiniteSet(u) /\ u \notin Bad
  BY <1>3, FS_Subset
<1>7. n \in Nat /\ Cardinality(t) = n + 1
  <2>1. u \cup {x} = t /\ x \notin u
    OBVIOUS
  <2> HIDE DEF u
  <2>2. Cardinality(u \cup {x}) = Cardinality(u) + 1
    BY <1>6, <2>1, FS_AddElement
  <2> QED BY <1>6, <2>1, <2>2, FS_CardinalityType
<1>8. Sum(w, t) = w[x] + Sum(w, u) /\ Sum(w, u) \in Int /\ w[x] \in Int /\ lo <= w[x] /\ w[x] <= hi
  BY <1>6, SumTake, SumTyped
<1>9. Fine(u)
  BY <1>6
<1> HIDE DEF u, n
<1>10. lo * (n + 1) = lo * n + lo /\ hi * (n + 1) = hi * n + hi /\ lo * n \in Int /\ hi * n \in Int
  BY <1>7
<1>11. lo * n <= Sum(w, u) /\ Sum(w, u) <= hi * n
  BY <1>9 DEF n
<1>12. Fine(t)
  BY <1>7, <1>8, <1>10, <1>11
<1> QED BY <1>12

(* A set in pieces: if every piece k has a figure w[k] that is half of its *)
(* allowance e at most away from its measure m, so has the sum of the      *)
(* figures, of the whole.                                                  *)
LEMMA Pieces ==
  ASSUME NEW K, IsFiniteSet(K), NEW S, NEW m \in [SUBSET S -> Int], NEW e \in [SUBSET S -> Int],
         m[{}] = 0, e[{}] = 0,
         \A u, v \in SUBSET S :
           u \cap v = {} => m[u \cup v] = m[u] + m[v] /\ e[u \cup v] = e[u] + e[v],
         NEW piece, \A k \in K : piece[k] \in SUBSET S,
         \A j, k \in K : j # k => piece[j] \cap piece[k] = {},
         NEW w, \A k \in K : /\ w[k] \in Int
                             /\ 2 * (w[k] - m[piece[k]]) <= e[piece[k]]
                             /\ 2 * (m[piece[k]] - w[k]) <= e[piece[k]],
         NEW all \in SUBSET S, \A k \in K : piece[k] \subseteq all,
         \A c \in all : \E k \in K : c \in piece[k]
  PROVE  /\ Sum(w, K) \in Int
         /\ 2 * (Sum(w, K) - m[all]) <= e[all]
         /\ 2 * (m[all] - Sum(w, K)) <= e[all]
<1> DEFINE Whole(t) == UNION {piece[k] : k \in t}
           Fine(t) == /\ 2 * (Sum(w, t) - m[Whole(t)]) <= e[Whole(t)]
                      /\ 2 * (m[Whole(t)] - Sum(w, t)) <= e[Whole(t)]
           Bad == {t \in SUBSET K : ~Fine(t)}
<1>1. Sum(w, K) \in Int
  BY SumTyped
<1>2. SUFFICES ASSUME Bad # {} PROVE FALSE
  <2>1. K \in SUBSET K
    OBVIOUS
  <2>2. Whole(K) = all
    OBVIOUS
  <2>3. ASSUME Bad = {} PROVE Fine(K)
    BY <2>1, <2>3
  <2> HIDE DEF Whole, Bad
  <2> QED BY <1>1, <2>2, <2>3
<1>3. PICK t \in Bad : \A u \in Bad : u \subseteq t => u = t
  <2>1. Bad \in SUBSET SUBSET K
    OBVIOUS
  <2> HIDE DEF Bad
  <2> QED BY <1>2, <2>1, Smallest
<1>4. t # {}
  <2>1. Sum(w, {}) = 0 /\ Whole({}) = {}
    BY SumOfNone
  <2>2. Fine({})
    BY <2>1
  <2> QED BY <2>2
<1>5. PICK x \in t : TRUE
  BY <1>4
<1> DEFINE u == t \ {x}
<1>6. t \in SUBSET K /\ IsFiniteSet(t) /\ u \in SUBSET K /\ IsFiniteSet(u) /\ u \notin Bad
  <2>1. t \in SUBSET K /\ u \in SUBSET K /\ u \subseteq t /\ u # t
    OBVIOUS
  <2>2. u \notin Bad
    <3> HIDE DEF Bad, u
    <3> QED BY <1>3, <2>1
  <2> HIDE DEF Bad, u
  <2> QED BY <2>1, <2>2, FS_Subset
<1>7. Sum(w, t) = w[x] + Sum(w, u) /\ Sum(w, u) \in Int /\ w[x] \in Int
  <2>1. \A y \in t : w[y] \in Int
    BY <1>6
  <2>2. Sum(w, t) = w[x] + Sum(w, t \ {x})
    BY ONLY <1>6, <2>1, x \in t, SumTake
  <2>3. \A y \in u : w[y] \in Int
    BY <2>1
  <2> QED BY <1>6, <2>1, <2>2, <2>3, SumTyped
<1>8. /\ Whole(t) = piece[x] \cup Whole(u) /\ piece[x] \cap Whole(u) = {}
      /\ piece[x] \in SUBSET S /\ Whole(u) \in SUBSET S
  BY <1>6
<1>9. Fine(u)
  BY <1>6
<1> HIDE DEF u, Whole
<1>10. /\ m[Whole(t)] = m[piece[x]] + m[Whole(u)] /\ e[Whole(t)] = e[piece[x]] + e[Whole(u)]
       /\ m[piece[x]] \in Int /\ m[Whole(u)] \in Int /\ e[piece[x]] \in Int /\ e[Whole(u)] \in Int
  <2>1. /\ m[piece[x] \cup Whole(u)] = m[piece[x]] + m[Whole(u)]
        /\ e[piece[x] \cup Whole(u)] = e[piece[x]] + e[Whole(u)]
    BY <1>8, Zenon
  <2> QED BY <1>8, <2>1
<1>11. 2 * (w[x] - m[piece[x]]) <= e[piece[x]] /\ 2 * (m[piece[x]] - w[x]) <= e[piece[x]]
  OBVIOUS
<1>12. Fine(t)
  BY <1>7, <1>9, <1>10, <1>11
<1> QED BY <1>12

----------------------------------------------------------------------------
(* Arithmetic.                                                             *)

LEMMA Multiples ==
  ASSUME NEW n \in Nat \ {0}, NEW a \in Int, NEW b \in Int
  PROVE  /\ n * a \in Int /\ n * b \in Int
         /\ a <= b => n * a <= n * b
         /\ a < b => n * a + n <= n * b
         /\ n * a <= n * b => a <= b
         /\ n * a < n * b => a < b
<1>1. n * a \in Int /\ n * b \in Int
  OBVIOUS
<1>2. ASSUME a <= b PROVE n * a <= n * b
  <2>1. b - a >= 0 /\ b - a \in Int
    BY <1>2
  <2>2. n * (b - a) >= 0
    BY <2>1
  <2>3. n * (b - a) = n * b - n * a
    OBVIOUS
  <2> QED BY <1>1, <2>2, <2>3
<1>3. ASSUME a < b PROVE n * a + n <= n * b
  <2>1. b - a - 1 >= 0 /\ b - a - 1 \in Int
    BY <1>3
  <2>2. n * (b - a - 1) >= 0
    BY <2>1
  <2>3. n * (b - a - 1) = n * b - n * a - n
    OBVIOUS
  <2> QED BY <1>1, <2>2, <2>3
<1>4. ASSUME b < a PROVE n * b + n <= n * a
  <2>1. a - b - 1 >= 0 /\ a - b - 1 \in Int
    BY <1>4
  <2>2. n * (a - b - 1) >= 0
    BY <2>1
  <2>3. n * (a - b - 1) = n * a - n * b - n
    OBVIOUS
  <2> QED BY <1>1, <2>2, <2>3
<1>5. a = b => n * a = n * b
  OBVIOUS
<1> QED BY <1>1, <1>2, <1>3, <1>4, <1>5

LEMMA Division ==
  ASSUME NEW p \in Int, NEW q \in Nat \ {0}
  PROVE  p \div q \in Int /\ q * (p \div q) <= p /\ p < q * (p \div q) + q
OBVIOUS

(* A percentage of a part that is not the whole is no full one.            *)
LEMMA Floored ==
  ASSUME NEW s \in Nat, NEW t \in Nat, s < t
  PROVE  (s * Full) \div t \in Nat /\ (s * Full) \div t < Full
<1> DEFINE p == s * Full
           q == p \div t
<1>1. Full \in Nat \ {0} /\ t \in Nat \ {0}
  BY StatisticsAssumption DEF StatisticsAssumption
<1>2. p \in Nat /\ p < t * Full
  <2>1. Full * s + Full <= Full * t /\ Full * s \in Int /\ Full * t \in Int
    BY <1>1, Multiples
  <2>2. Full * s = s * Full /\ Full * t = t * Full /\ s * Full >= 0
    BY <1>1
  <2> QED BY <1>1, <2>1, <2>2
<1> HIDE DEF p
<1>3. q \in Int /\ t * q <= p /\ p < t * q + t
  BY <1>1, <1>2, Division
<1> HIDE DEF q
<1>4. t * q \in Int /\ t * Full \in Int /\ t * (-1) = -t
  BY <1>1, <1>3
<1>5. q < Full
  BY <1>1, <1>2, <1>3, <1>4, Multiples
<1>6. ASSUME q < 0 PROVE FALSE
  <2>1. t * q + t <= t * 0
    BY <1>1, <1>3, <1>6, Multiples
  <2>2. t * 0 = 0
    BY <1>1
  <2> QED BY <1>2, <1>3, <1>4, <2>1, <2>2
<1> QED BY <1>3, <1>5, <1>6 DEF p, q

(* Rounding is at most half a unit off, and stays within whole bounds.     *)
LEMMA RoundedNear ==
  ASSUME NEW p \in Int, NEW n \in Nat \ {0}
  PROVE  /\ Rounded(p, n) \in Int
         /\ 2 * (Rounded(p, n) * n - p) <= n
         /\ 2 * (p - Rounded(p, n) * n) <= n
         /\ \A lo, hi \in Int : lo * n <= p /\ p <= hi * n => lo <= Rounded(p, n) /\ Rounded(p, n) <= hi
<1> DEFINE r == Rounded(p, n)
<1>1. r = (2 * p + n) \div (2 * n) /\ 2 * n \in Nat \ {0} /\ 2 * p + n \in Int
  BY DEF Rounded
<1>2. r \in Int /\ (2 * n) * r <= 2 * p + n /\ 2 * p + n < (2 * n) * r + 2 * n
  BY <1>1, Division
<1> HIDE DEF r
<1>3. (2 * n) * r = 2 * (r * n) /\ r * n \in Int
  BY <1>2
<1>4. 2 * (r * n - p) <= n /\ 2 * (p - r * n) <= n
  BY <1>2, <1>3
<1>5. ASSUME NEW lo \in Int, NEW hi \in Int, lo * n <= p, p <= hi * n
      PROVE  lo <= r /\ r <= hi
  <2>1. lo * n = n * lo /\ hi * n = n * hi /\ r * n = n * r
    BY <1>2
  <2>2. /\ n * lo \in Int /\ n * hi \in Int /\ n * r \in Int
        /\ r < lo => n * r + n <= n * lo
        /\ hi < r => n * hi + n <= n * r
    BY <1>2, Multiples
  <2> QED BY <1>2, <1>4, <1>5, <2>1, <2>2
<1> QED BY <1>2, <1>4, <1>5 DEF r

----------------------------------------------------------------------------
(* The figures of any finite set of checks.                                *)

LEMMA Times ==
  /\ DOMAIN Ms = {"fast", "slow"} /\ Ms["fast"] \in Nat /\ Ms["slow"] \in Nat
  /\ \A o \in DOMAIN Ms : Ms[o] \in Nat
BY DEF Ms

LEMMA CountsTyped ==
  ASSUME NEW checks, IsFiniteSet(checks)
  PROVE  /\ Successful(checks) \in SUBSET checks /\ IsFiniteSet(Successful(checks))
         /\ Cardinality(checks) \in Nat /\ Cardinality(Successful(checks)) \in Nat
         /\ Cardinality(Successful(checks)) <= Cardinality(checks)
         /\ Cardinality(checks) = 0 <=> checks = {}
         /\ Cardinality(Successful(checks)) = 0 <=> Successful(checks) = {}
         /\ Cardinality(Successful(checks)) = Cardinality(checks) <=>
              \A c \in checks : recorded[c] \in DOMAIN Ms
<1> DEFINE up == Successful(checks)
<1>1. up \in SUBSET checks /\ (up = checks <=> \A c \in checks : recorded[c] \in DOMAIN Ms)
  BY DEF Successful
<1> HIDE DEF up
<1>2. IsFiniteSet(up) /\ Cardinality(up) <= Cardinality(checks)
      /\ (Cardinality(checks) = Cardinality(up) => checks = up)
  BY <1>1, FS_Subset
<1>3. Cardinality(checks) \in Nat /\ Cardinality(up) \in Nat
  BY <1>2, FS_CardinalityType
<1>4. (Cardinality(checks) = 0 <=> checks = {}) /\ (Cardinality(up) = 0 <=> up = {})
  BY <1>2, FS_EmptySet
<1> QED BY <1>1, <1>2, <1>3, <1>4 DEF up

(* calculateUptimePercentage tells nothing, everything and the rest apart. *)
LEMMA HonestUptime ==
  ASSUME NEW checks, IsFiniteSet(checks),
         \A c \in checks : recorded[c] \in {"failed", "fast", "slow"}
  PROVE  Honest(calculateUptimePercentage(Cardinality(Successful(checks)), Cardinality(checks)),
                checks)
<1> DEFINE s == Cardinality(Successful(checks))
           t == Cardinality(checks)
           uptime == calculateUptimePercentage(s, t)
<1>1. /\ s \in Nat /\ t \in Nat /\ s <= t /\ (t = 0 <=> checks = {})
      /\ s = t <=> \A c \in checks : recorded[c] \in DOMAIN Ms
  BY CountsTyped
<1>2. s = t <=> \A c \in checks : recorded[c] # "failed"
  BY <1>1, Times
<1> HIDE DEF s, t
<1>3. Full \in Nat \ {0} /\ Null = -1
  BY StatisticsAssumption DEF StatisticsAssumption, Null
<1>4. s < t => (s * Full) \div t \in Nat /\ (s * Full) \div t < Full
  BY <1>1, Floored
<1>5. uptime = Null <=> t = 0
  BY <1>1, <1>3, <1>4 DEF calculateUptimePercentage
<1>6. uptime = Full <=> t # 0 /\ s = t
  BY <1>1, <1>3, <1>4 DEF calculateUptimePercentage
<1> HIDE DEF uptime
<1>7. Honest(uptime, checks)
  BY <1>1, <1>2, <1>5, <1>6 DEF Honest
<1> QED BY <1>7 DEF uptime, s, t

(* The time of all successful checks, as a sum of the checks' own times.   *)
LEMMA TotalIsSum ==
  ASSUME NEW S, NEW checks \in SUBSET S, IsFiniteSet(checks), NEW w,
         \A c \in Successful(S) : w[c] = Ms[recorded[c]]
  PROVE  TotalMs(checks) = Sum(w, Successful(checks))
<1> DEFINE up == Successful(checks)
           v == [c \in up |-> Ms[recorded[c]]]
<1>1. IsFiniteSet(up) /\ \A c \in up : v[c] = w[c]
  BY CountsTyped DEF Successful
<1>2. TotalMs(checks) = Sum(v, up)
  BY DEF TotalMs, SumFunction, Sum
<1> HIDE DEF v, up
<1>3. Sum(v, up) = Sum(w, up)
  BY <1>1, SumSame
<1> QED BY <1>2, <1>3 DEF up

LEMMA Extremes ==
  ASSUME NEW f \in Nat, NEW s \in Nat, NEW T \in SUBSET {f, s}, T # {}
  PROVE  /\ Min(T) \in T /\ \A y \in T : Min(T) <= y
         /\ Max(T) \in T /\ \A y \in T : y <= Max(T)
<1>1. \A y \in T : y \in Nat /\ (y = f \/ y = s)
  OBVIOUS
<1>2. \E x \in T : \A y \in T : x =< y
  <2>1. CASE T = {f} \/ T = {s}
    BY <2>1
  <2>2. CASE f \in T /\ s \in T
    BY <1>1, <2>2
  <2> QED BY <2>1, <2>2
<1>3. \E x \in T : \A y \in T : x >= y
  <2>1. CASE T = {f} \/ T = {s}
    BY <2>1
  <2>2. CASE f \in T /\ s \in T
    BY <1>1, <2>2
  <2> QED BY <2>1, <2>2
<1>4. Min(T) \in T /\ \A y \in T : Min(T) =< y
  BY <1>2 DEF Min
<1>5. Max(T) \in T /\ \A y \in T : Max(T) >= y
  BY <1>3 DEF Max
<1>6. Max(T) \in Nat
  BY <1>1, <1>5
<1> HIDE DEF Max
<1> QED BY <1>1, <1>4, <1>5, <1>6

(* The average of successful checks lies between the fastest and the       *)
(* slowest, and is at most half a millisecond off for each of them.        *)
LEMMA Averaged ==
  ASSUME NEW checks, IsFiniteSet(checks), NEW t, t = Totals(checks)
  PROVE  /\ t.total = Cardinality(checks) /\ t.up = Cardinality(Successful(checks))
         /\ t.fastest <= t.average /\ t.average <= t.slowest
         /\ t.average \in Int /\ TotalMs(checks) \in Int
         /\ t.up = 0 => TotalMs(checks) = 0
         /\ t.up > 0 => /\ 2 * (t.average * t.up - TotalMs(checks)) <= t.up
                        /\ 2 * (TotalMs(checks) - t.average * t.up) <= t.up
<1> DEFINE up == Successful(checks)
           n == Cardinality(up)
           w == [c \in up |-> Ms[recorded[c]]]
           times == {Ms[recorded[c]] : c \in up}
<1>1. /\ t.total = Cardinality(checks) /\ t.up = n
      /\ t.average = IF up = {} THEN Null ELSE Rounded(TotalMs(checks), n)
      /\ t.fastest = IF up = {} THEN Null ELSE Min(times)
      /\ t.slowest = IF up = {} THEN Null ELSE Max(times)
  BY DEF Totals
<1>2. IsFiniteSet(up) /\ n \in Nat /\ (n = 0 <=> up = {}) /\ up \in SUBSET checks
  BY CountsTyped
<1>3. \A c \in up : w[c] \in Nat /\ w[c] \in times /\ recorded[c] \in DOMAIN Ms
  BY Times DEF Successful
<1>4. TotalMs(checks) = Sum(w, up)
  <2>1. \A c \in up : w[c] = Ms[recorded[c]]
    OBVIOUS
  <2> HIDE DEF w
  <2> QED BY <2>1, TotalIsSum
<1>5. times \subseteq {Ms["fast"], Ms["slow"]}
  BY <1>3, Times
<1> HIDE DEF w
<1>6. TotalMs(checks) \in Int
  BY <1>2, <1>3, <1>4, SumTyped
<1>7. CASE up = {}
  <2>1. TotalMs(checks) = 0
    BY <1>4, <1>7, SumOfNone
  <2> QED BY <1>1, <1>2, <1>7, <2>1 DEF Null
<1>8. CASE up # {}
  <2>1. times # {} /\ times \in SUBSET {Ms["fast"], Ms["slow"]}
    BY <1>5, <1>8
  <2> HIDE DEF times
  <2> DEFINE lo == Min(times)
             hi == Max(times)
  <2>2. /\ lo \in times /\ \A y \in times : lo <= y
        /\ hi \in times /\ \A y \in times : y <= hi
    BY <2>1, Times, Extremes
  <2> HIDE DEF lo, hi
  <2>3. lo \in Int /\ hi \in Int
    BY <2>1, <2>2, Times
  <2>6. \A c \in up : w[c] \in Int /\ lo <= w[c] /\ w[c] <= hi
    BY <1>3, <2>2
  <2>7. lo * n <= TotalMs(checks) /\ TotalMs(checks) <= hi * n
    BY <1>2, <1>4, <2>3, <2>6, SumBetween
  <2>8. n \in Nat \ {0} /\ t.average = Rounded(TotalMs(checks), n) /\ t.fastest = lo /\ t.slowest = hi
    BY <1>1, <1>2, <1>8 DEF lo, hi
  <2> HIDE DEF n, up
  <2>9. lo <= t.average /\ t.average <= hi /\ t.average \in Int
    BY <1>6, <2>3, <2>7, <2>8, RoundedNear
  <2>10. /\ 2 * (t.average * n - TotalMs(checks)) <= n
         /\ 2 * (TotalMs(checks) - t.average * n) <= n
    BY <1>6, <2>8, RoundedNear
  <2> QED BY <1>1, <1>6, <2>8, <2>9, <2>10 DEF n, up
<1> QED BY <1>7, <1>8

(* What is counted and what is timed adds up.                              *)
LEMMA Adds ==
  ASSUME NEW S, IsFiniteSet(S), NEW u \in SUBSET S, NEW v \in SUBSET S, u \cap v = {}
  PROVE  /\ Cardinality(u \cup v) = Cardinality(u) + Cardinality(v)
         /\ Cardinality(Successful(u \cup v)) = Cardinality(Successful(u)) + Cardinality(Successful(v))
         /\ TotalMs(u \cup v) = TotalMs(u) + TotalMs(v)
<1> DEFINE w == [c \in Successful(S) |-> Ms[recorded[c]]]
           a == Successful(u)
           b == Successful(v)
<1>1. /\ IsFiniteSet(u) /\ IsFiniteSet(v) /\ u \cup v \in SUBSET S /\ IsFiniteSet(u \cup v)
  BY FS_Subset
<1>2. Successful(u \cup v) = a \cup b /\ a \cap b = {} /\ a \cup b \subseteq Successful(S)
  BY DEF Successful
<1>3. IsFiniteSet(a) /\ IsFiniteSet(b)
  BY <1>1, CountsTyped
<1>4. \A c \in Successful(S) : w[c] = Ms[recorded[c]] /\ w[c] \in Int
  BY Times DEF Successful
<1> HIDE DEF w, a, b
<1>5. /\ TotalMs(u) = Sum(w, a) /\ TotalMs(v) = Sum(w, b)
      /\ TotalMs(u \cup v) = Sum(w, a \cup b)
  BY <1>1, <1>2, <1>4, TotalIsSum DEF a, b
<1>6. Sum(w, a \cup b) = Sum(w, a) + Sum(w, b)
  BY <1>2, <1>3, <1>4, SumUnion
<1>7. Cardinality({}) = 0
  BY FS_EmptySet
<1>8. /\ Cardinality(u \cup v) = Cardinality(u) + Cardinality(v)
      /\ Cardinality(a \cup b) = Cardinality(a) + Cardinality(b)
  <2>1. /\ Cardinality(u) \in Nat /\ Cardinality(v) \in Nat
        /\ Cardinality(a) \in Nat /\ Cardinality(b) \in Nat
    BY <1>1, <1>3, FS_CardinalityType
  <2>2. /\ Cardinality(u \cup v) = Cardinality(u) + Cardinality(v) - Cardinality(u \cap v)
        /\ Cardinality(a \cup b) = Cardinality(a) + Cardinality(b) - Cardinality(a \cap b)
    BY <1>1, <1>3, FS_Union
  <2>3. Cardinality(u \cap v) = 0 /\ Cardinality(a \cap b) = 0
    BY <1>2, <1>7
  <2> QED BY <2>1, <2>2, <2>3
<1> QED BY <1>2, <1>5, <1>6, <1>8 DEF a, b

(* The three measures of a set of checks, as Pieces takes them.            *)
Count(S) == [u \in SUBSET S |-> Cardinality(u)]
Ups(S) == [u \in SUBSET S |-> Cardinality(Successful(u))]
Spent(S) == [u \in SUBSET S |-> TotalMs(u)]
Exact(S) == [u \in SUBSET S |-> 0]

Measure(S, m) ==
  /\ m \in [SUBSET S -> Int] /\ m[{}] = 0
  /\ \A u, v \in SUBSET S : u \cap v = {} => m[u \cup v] = m[u] + m[v]

LEMMA Measures ==
  ASSUME NEW S, IsFiniteSet(S)
  PROVE  Measure(S, Count(S)) /\ Measure(S, Ups(S)) /\ Measure(S, Spent(S)) /\ Measure(S, Exact(S))
<1>1. ASSUME NEW u \in SUBSET S
      PROVE  Cardinality(u) \in Int /\ Cardinality(Successful(u)) \in Int /\ TotalMs(u) \in Int
  <2>1. IsFiniteSet(u)
    BY FS_Subset
  <2> QED BY <2>1, CountsTyped, Averaged
<1>2. Cardinality({}) = 0 /\ Cardinality(Successful({})) = 0 /\ TotalMs({}) = 0
  <2>1. Successful({}) = {} /\ Cardinality({}) = 0 /\ IsFiniteSet({})
    BY FS_EmptySet DEF Successful
  <2>2. Totals({}).up = 0
    BY <2>1, Averaged
  <2> QED BY <2>1, <2>2, Averaged
<1>3. ASSUME NEW u \in SUBSET S, NEW v \in SUBSET S, u \cap v = {}
      PROVE  /\ Count(S)[u \cup v] = Count(S)[u] + Count(S)[v]
             /\ Ups(S)[u \cup v] = Ups(S)[u] + Ups(S)[v]
             /\ Spent(S)[u \cup v] = Spent(S)[u] + Spent(S)[v]
  <2>1. u \cup v \in SUBSET S
    OBVIOUS
  <2> QED BY <1>3, <2>1, Adds DEF Count, Ups, Spent
<1>4. Measure(S, Count(S))
  BY <1>1, <1>2, <1>3 DEF Measure, Count
<1>5. Measure(S, Ups(S))
  BY <1>1, <1>2, <1>3 DEF Measure, Ups
<1>6. Measure(S, Spent(S))
  BY <1>1, <1>2, <1>3 DEF Measure, Spent
<1>7. Measure(S, Exact(S))
  BY DEF Measure, Exact
<1> QED BY <1>4, <1>5, <1>6, <1>7

(* The figures of the pieces of a set of checks, summed up: what counts    *)
(* exactly in each piece counts exactly in the whole.                      *)
LEMMA ExactPieces ==
  ASSUME NEW K, IsFiniteSet(K), NEW S, IsFiniteSet(S), NEW m, Measure(S, m),
         NEW piece, \A k \in K : piece[k] \in SUBSET S,
         \A j, k \in K : j # k => piece[j] \cap piece[k] = {},
         \A c \in S : \E k \in K : c \in piece[k],
         NEW w, \A k \in K : w[k] = m[piece[k]]
  PROVE  Sum(w, K) = m[S]
<1> DEFINE e == Exact(S)
<1>1. Measure(S, e)
  BY Measures
<1>2. \A k \in K : /\ w[k] \in Int /\ m[piece[k]] \in Int
                   /\ e[piece[k]] = 0 /\ w[k] = m[piece[k]]
  BY DEF Measure, Exact
<1>3. m[S] \in Int /\ e[S] = 0
  BY DEF Measure, Exact
<1> HIDE DEF e
<1>4. \A k \in K : /\ w[k] \in Int
                   /\ 2 * (w[k] - m[piece[k]]) <= e[piece[k]]
                   /\ 2 * (m[piece[k]] - w[k]) <= e[piece[k]]
  BY <1>2
<1>5. /\ Sum(w, K) \in Int
      /\ 2 * (Sum(w, K) - m[S]) <= e[S]
      /\ 2 * (m[S] - Sum(w, K)) <= e[S]
  <2>1. /\ m \in [SUBSET S -> Int] /\ e \in [SUBSET S -> Int] /\ m[{}] = 0 /\ e[{}] = 0
        /\ \A u, v \in SUBSET S :
             u \cap v = {} => m[u \cup v] = m[u] + m[v] /\ e[u \cup v] = e[u] + e[v]
    BY <1>1 DEF Measure
  <2> QED BY <1>4, <2>1, Pieces
<1> QED BY <1>3, <1>5

----------------------------------------------------------------------------
(* The chart.                                                              *)

(* A bucket holds the checks of its span, and no others.                   *)
LEMMA BucketSpan ==
  ASSUME NEW size \in Nat \ {0}, NEW c, c[2] \in Int, NEW d, d[2] \in Int
  PROVE  LET start == BucketOf(c, size)
         IN /\ start \in Int /\ start <= c[2] /\ c[2] < start + size
            /\ (start <= d[2] /\ d[2] < start + size) <=> BucketOf(d, size) = start
<1> DEFINE p == c[2] \div size
           q == d[2] \div size
<1>1. BucketOf(c, size) = size * p /\ BucketOf(d, size) = size * q
  BY DEF BucketOf
<1>2. /\ p \in Int /\ size * p <= c[2] /\ c[2] < size * p + size
      /\ q \in Int /\ size * q <= d[2] /\ d[2] < size * q + size
  BY Division
<1> HIDE DEF p, q
<1>3. /\ size * p \in Int /\ size * q \in Int
      /\ p < q => size * p + size <= size * q
      /\ q < p => size * q + size <= size * p
  BY <1>2, Multiples
<1>4. (size * p <= d[2] /\ d[2] < size * p + size) <=> size * q = size * p
  <2>1. p = q => size * q = size * p
    OBVIOUS
  <2> QED BY <1>2, <1>3, <2>1
<1> QED BY <1>1, <1>2, <1>3, <1>4

InBucket(checks, size, start) == {c \in checks : BucketOf(c, size) = start}
Bucket(checks, size, start) ==
  LET t == Totals(InBucket(checks, size, start))
  IN [start |-> start, totals |-> t, uptime |-> calculateUptimePercentage(t.up, t.total)]
Chart(checks, size) == {Bucket(checks, size, start) : start \in {BucketOf(c, size) : c \in checks}}

(* The buckets as the action websiteBuckets makes them.                    *)
LEMMA ChartIs ==
  ASSUME NEW checks, NEW size
  PROVE  {[start |-> b.start, totals |-> b.totals,
           uptime |-> calculateUptimePercentage(b.totals.up, b.totals.total)] :
            b \in bucketsFor(checks, size)}
         = Chart(checks, size)
<1> DEFINE starts == {BucketOf(c, size) : c \in checks}
           raw(start) == [start |-> start, totals |-> Totals(InBucket(checks, size, start))]
           shown(b) == [start |-> b.start, totals |-> b.totals,
                        uptime |-> calculateUptimePercentage(b.totals.up, b.totals.total)]
<1>1. bucketsFor(checks, size) = {raw(start) : start \in starts}
  BY DEF bucketsFor, InBucket
<1>2. \A start : shown(raw(start)) = Bucket(checks, size, start)
  BY DEF Bucket
<1> HIDE DEF raw
<1>3. {shown(b) : b \in {raw(start) : start \in starts}} = {shown(raw(start)) : start \in starts}
  OBVIOUS
<1> HIDE DEF shown, starts
<1>4. {shown(raw(start)) : start \in starts} = {Bucket(checks, size, start) : start \in starts}
  BY <1>2
<1> QED BY <1>1, <1>3, <1>4 DEF Chart, shown, starts

(* The chart of any finite set of checks, at any times and any size of its *)
(* buckets: every check is in a bucket of its own span, each bucket counts *)
(* what falls into its span and has an honest percentage, and together     *)
(* they count all successful checks.                                       *)
THEOREM ChartAgrees ==
  ASSUME NEW checks, IsFiniteSet(checks), NEW size \in Nat \ {0},
         \A c \in checks : c[2] \in Int /\ recorded[c] \in {"failed", "fast", "slow"},
         NEW buckets, buckets = Chart(checks, size)
  PROVE  /\ \A c \in checks : \E b \in buckets : b.start <= c[2] /\ c[2] < b.start + size
         /\ \A b \in buckets :
              LET within == {c \in checks : b.start <= c[2] /\ c[2] < b.start + size}
              IN b.totals.total = Cardinality(within) /\ Honest(b.uptime, within)
         /\ SumFunction([b \in buckets |-> b.totals.up]) = Cardinality(Successful(checks))
<1> DEFINE Held(start) == InBucket(checks, size, start)
<1>1. ASSUME NEW c \in checks
      PROVE  LET b == Bucket(checks, size, BucketOf(c, size))
             IN b \in buckets /\ b.start = BucketOf(c, size)
  BY DEF Chart, Bucket
<1>2. ASSUME NEW b \in buckets
      PROVE  \E c \in checks : b.start = BucketOf(c, size) /\ b = Bucket(checks, size, b.start)
  BY DEF Chart, Bucket
<1>3. ASSUME NEW c \in checks
      PROVE  \E b \in buckets : b.start <= c[2] /\ c[2] < b.start + size
  <2>1. BucketOf(c, size) <= c[2] /\ c[2] < BucketOf(c, size) + size
    BY BucketSpan
  <2> QED BY <1>1, <2>1
<1>4. ASSUME NEW b \in buckets
      PROVE  {c \in checks : b.start <= c[2] /\ c[2] < b.start + size} = Held(b.start)
  <2>1. PICK c \in checks : b.start = BucketOf(c, size)
    BY <1>2
  <2>2. \A d \in checks :
          (b.start <= d[2] /\ d[2] < b.start + size) <=> BucketOf(d, size) = b.start
    BY <2>1, BucketSpan
  <2> QED BY <2>2 DEF InBucket
<1>5. ASSUME NEW b \in buckets
      PROVE  /\ IsFiniteSet(Held(b.start)) /\ Held(b.start) \in SUBSET checks
             /\ b.totals.total = Cardinality(Held(b.start))
             /\ b.totals.up = Cardinality(Successful(Held(b.start)))
             /\ Honest(b.uptime, Held(b.start))
  <2>1. Held(b.start) \in SUBSET checks
    BY DEF InBucket
  <2>2. IsFiniteSet(Held(b.start))
    BY <2>1, FS_Subset
  <2>3. b.totals = Totals(Held(b.start)) /\ b.uptime = calculateUptimePercentage(b.totals.up, b.totals.total)
    <3>1. b = Bucket(checks, size, b.start)
      BY <1>2
    <3> QED BY <3>1 DEF Bucket
  <2> HIDE DEF Held
  <2>4. /\ b.totals.total = Cardinality(Held(b.start))
        /\ b.totals.up = Cardinality(Successful(Held(b.start)))
    BY <2>2, <2>3, Averaged
  <2>5. \A c \in Held(b.start) : recorded[c] \in {"failed", "fast", "slow"}
    BY <2>1
  <2> QED BY <2>1, <2>2, <2>3, <2>4, <2>5, HonestUptime
<1>6. IsFiniteSet(buckets)
  <2> DEFINE f == [c \in checks |-> Bucket(checks, size, BucketOf(c, size))]
  <2>1. f \in [checks -> buckets] /\ \A b \in buckets : \E c \in checks : f[c] = b
    BY <1>1, <1>2
  <2> HIDE DEF f
  <2>2. f \in Surjection(checks, buckets)
    BY <2>1, Fun_IsSurj
  <2> QED BY <2>2, FS_Surjection
<1> DEFINE w == [b \in buckets |-> b.totals.up]
           piece == [b \in buckets |-> Held(b.start)]
<1>7. \A b \in buckets : w[b] = Ups(checks)[piece[b]] /\ piece[b] \in SUBSET checks
  BY <1>5 DEF Ups
<1>8. ASSUME NEW j \in buckets, NEW k \in buckets, j # k PROVE piece[j] \cap piece[k] = {}
  <2>1. j.start # k.start
    BY <1>2, <1>8
  <2> QED BY <2>1 DEF InBucket
<1>9. ASSUME NEW c \in checks PROVE \E b \in buckets : c \in piece[b]
  BY <1>1 DEF InBucket
<1>10. Measure(checks, Ups(checks))
  BY Measures
<1>11. SumFunction(w) = Sum(w, buckets)
  BY DEF SumFunction, Sum
<1> HIDE DEF w, piece
<1>12. Sum(w, buckets) = Ups(checks)[checks]
  BY <1>6, <1>7, <1>8, <1>9, <1>10, ExactPieces
<1>13. SumFunction(w) = Cardinality(Successful(checks))
  BY <1>11, <1>12 DEF Ups
<1> QED BY <1>3, <1>4, <1>5, <1>13 DEF w

----------------------------------------------------------------------------
(* All websites in one figure.                                             *)

(* The figure of any finite set of websites, with any checks: its          *)
(* percentage is honest about all of them, and its average, which is made  *)
(* of the rounded averages of the websites, is at most a millisecond off.  *)
THEOREM CombinedAgrees ==
  ASSUME NEW sites, IsFiniteSet(sites), NEW checks, IsFiniteSet(checks),
         \A c \in checks : c[1] \in sites /\ recorded[c] \in {"failed", "fast", "slow"},
         NEW of, of = [site \in sites |-> {c \in checks : c[1] = site}],
         NEW all, all = combineTotals([site \in sites |-> Totals(of[site])])
  PROVE  /\ Honest(calculateUptimePercentage(all.up, all.total), checks)
         /\ all.up > 0 => LET off == all.average * all.up - TotalMs(checks)
                         IN off <= all.up /\ -off <= all.up
<1> DEFINE totals == [site \in sites |-> Totals(of[site])]
           total == [site \in sites |-> totals[site].total]
           up == [site \in sites |-> totals[site].up]
           ms == [site \in sites |-> IF totals[site].up > 0
                                     THEN totals[site].average * totals[site].up ELSE 0]
           n == Cardinality(Successful(checks))
           spent == TotalMs(checks)
<1>1. /\ all.total = Sum(total, sites) /\ all.up = Sum(up, sites)
      /\ all.average = IF all.up = 0 THEN Null ELSE Rounded(Sum(ms, sites), all.up)
  BY DEF combineTotals, SumFunction, Sum
<1>2. ASSUME NEW site \in sites
      PROVE  /\ of[site] \in SUBSET checks /\ totals[site] = Totals(of[site])
             /\ total[site] = Cardinality(of[site])
             /\ up[site] = Cardinality(Successful(of[site])) /\ up[site] \in Nat
             /\ ms[site] \in Int /\ TotalMs(of[site]) \in Int
             /\ 2 * (ms[site] - TotalMs(of[site])) <= up[site]
             /\ 2 * (TotalMs(of[site]) - ms[site]) <= up[site]
  <2> DEFINE t == Totals(of[site])
  <2>1. of[site] \in SUBSET checks /\ totals[site] = t
    OBVIOUS
  <2>2. IsFiniteSet(of[site])
    BY <2>1, FS_Subset
  <2>3. total[site] = t.total /\ up[site] = t.up
        /\ ms[site] = IF t.up > 0 THEN t.average * t.up ELSE 0
    OBVIOUS
  <2> HIDE DEF t, totals, total, up, ms
  <2>4. /\ t.total = Cardinality(of[site]) /\ t.up = Cardinality(Successful(of[site]))
        /\ t.average \in Int /\ TotalMs(of[site]) \in Int
        /\ t.up = 0 => TotalMs(of[site]) = 0
        /\ t.up > 0 => /\ 2 * (t.average * t.up - TotalMs(of[site])) <= t.up
                       /\ 2 * (TotalMs(of[site]) - t.average * t.up) <= t.up
    BY <2>2, Averaged DEF t
  <2>5. t.up \in Nat
    BY <2>2, <2>4, CountsTyped
  <2>6. /\ ms[site] \in Int
        /\ 2 * (ms[site] - TotalMs(of[site])) <= up[site]
        /\ 2 * (TotalMs(of[site]) - ms[site]) <= up[site]
    <3>1. CASE t.up = 0
      <4>1. ms[site] = 0 /\ up[site] = 0 /\ TotalMs(of[site]) = 0
        BY <2>3, <2>4, <3>1
      <4> QED BY ONLY <4>1
    <3>2. CASE t.up > 0
      <4>1. ms[site] = t.average * t.up /\ up[site] = t.up
        BY <2>3, <3>2
      <4>2. t.average * t.up \in Int
        BY <2>4, <2>5
      <4> QED BY <2>4, <3>2, <4>1, <4>2
    <3> QED BY <2>5, <3>1, <3>2
  <2>7. total[site] = Cardinality(of[site]) /\ up[site] = Cardinality(Successful(of[site]))
    BY <2>3, <2>4
  <2> QED BY <2>1, <2>3, <2>4, <2>5, <2>6, <2>7 DEF t
<1>3. \A j, k \in sites : j # k => of[j] \cap of[k] = {}
  OBVIOUS
<1>4. \A c \in checks : \E site \in sites : c \in of[site]
  OBVIOUS
<1>5. n \in Nat /\ spent \in Int
  BY CountsTyped, Averaged
<1>6. /\ Measure(checks, Count(checks)) /\ Measure(checks, Ups(checks))
      /\ Measure(checks, Spent(checks))
  BY Measures
<1>7. \A site \in sites : of[site] \in SUBSET checks
  BY <1>2
<1>8. \A site \in sites : /\ total[site] = Count(checks)[of[site]]
                          /\ up[site] = Ups(checks)[of[site]]
  BY <1>2, <1>7 DEF Count, Ups
<1>9. \A site \in sites : /\ ms[site] \in Int
                          /\ 2 * (ms[site] - Spent(checks)[of[site]]) <= Ups(checks)[of[site]]
                          /\ 2 * (Spent(checks)[of[site]] - ms[site]) <= Ups(checks)[of[site]]
  BY <1>2, <1>7 DEF Spent, Ups
<1>10. /\ Count(checks)[checks] = Cardinality(checks) /\ Ups(checks)[checks] = n
       /\ Spent(checks)[checks] = spent
  BY DEF Count, Ups, Spent
<1> HIDE DEF totals, total, up, ms, n, spent
<1>11. Sum(total, sites) = Cardinality(checks)
  <2> DEFINE m == Count(checks)
  <2>1. Measure(checks, m) /\ \A site \in sites : total[site] = m[of[site]]
    BY <1>6, <1>8
  <2> HIDE DEF m
  <2>2. Sum(total, sites) = m[checks]
    BY ONLY IsFiniteSet(sites), IsFiniteSet(checks), <1>3, <1>4, <1>7, <2>1, ExactPieces
  <2> QED BY <1>10, <2>2 DEF m
<1>12. Sum(up, sites) = n
  <2> DEFINE m == Ups(checks)
  <2>1. Measure(checks, m) /\ \A site \in sites : up[site] = m[of[site]]
    BY <1>6, <1>8
  <2> HIDE DEF m
  <2>2. Sum(up, sites) = m[checks]
    BY ONLY IsFiniteSet(sites), IsFiniteSet(checks), <1>3, <1>4, <1>7, <2>1, ExactPieces
  <2> QED BY <1>10, <2>2 DEF m
<1>13. /\ Sum(ms, sites) \in Int
       /\ 2 * (Sum(ms, sites) - spent) <= n
       /\ 2 * (spent - Sum(ms, sites)) <= n
  <2> DEFINE m == Spent(checks)
             e == Ups(checks)
  <2>1. /\ m \in [SUBSET checks -> Int] /\ e \in [SUBSET checks -> Int] /\ m[{}] = 0 /\ e[{}] = 0
        /\ \A u, v \in SUBSET checks :
             u \cap v = {} => m[u \cup v] = m[u] + m[v] /\ e[u \cup v] = e[u] + e[v]
    BY <1>6 DEF Measure
  <2>2. /\ checks \in SUBSET checks /\ m[checks] = spent /\ e[checks] = n
        /\ \A site \in sites : of[site] \subseteq checks
    BY <1>7, <1>10
  <2>3. \A site \in sites : /\ ms[site] \in Int
                            /\ 2 * (ms[site] - m[of[site]]) <= e[of[site]]
                            /\ 2 * (m[of[site]] - ms[site]) <= e[of[site]]
    BY <1>9
  <2> HIDE DEF m, e
  <2>4. /\ Sum(ms, sites) \in Int
        /\ 2 * (Sum(ms, sites) - m[checks]) <= e[checks]
        /\ 2 * (m[checks] - Sum(ms, sites)) <= e[checks]
    BY ONLY IsFiniteSet(sites), <1>3, <1>4, <1>7, <2>1, <2>2, <2>3, Pieces
  <2> QED BY <2>2, <2>4
<1>14. all.total = Cardinality(checks) /\ all.up = n
  BY <1>1, <1>11, <1>12
<1>15. Honest(calculateUptimePercentage(all.up, all.total), checks)
  BY <1>14, HonestUptime DEF n
<1>16. ASSUME n > 0
       PROVE  LET off == all.average * n - spent IN off <= n /\ -off <= n
  <2> DEFINE sum == Sum(ms, sites)
             r == Rounded(sum, n)
  <2>1. n \in Nat \ {0} /\ all.average = r
    BY <1>1, <1>5, <1>14, <1>16
  <2> HIDE DEF sum
  <2>2. r \in Int /\ 2 * (r * n - sum) <= n /\ 2 * (sum - r * n) <= n
    BY <1>13, <2>1, RoundedNear DEF sum
  <2> HIDE DEF r
  <2>3. r * n \in Int
    BY <2>1, <2>2
  <2> QED BY <1>5, <1>13, <2>1, <2>2, <2>3 DEF sum
<1> QED BY <1>14, <1>15, <1>16 DEF spent, n

----------------------------------------------------------------------------
(* The answers.                                                            *)

(* What every question of the specification is about.                      *)
LEMMA Sampled ==
  /\ IsFiniteSet(Slots) /\ IsFiniteSet(Websites)
  /\ \A c \in Slots : c[1] \in Websites /\ c[2] \in Int
<1>1. /\ IsFiniteSet({"a"}) /\ IsFiniteSet({"b"}) /\ IsFiniteSet({<<"b", 3>>})
  BY FS_Singleton
<1>2. IsFiniteSet(1..4)
  <2>1. 1 \in Int /\ 4 \in Int
    OBVIOUS
  <2> QED BY <2>1, FS_Interval
<1>3. IsFiniteSet({"a"} \X (1..4))
  BY <1>1, <1>2, FS_Product
<1>4. IsFiniteSet(Slots)
  BY <1>1, <1>3, FS_Union DEF Slots
<1>5. IsFiniteSet({"a"} \cup {"b"}) /\ {"a"} \cup {"b"} = Websites
  BY <1>1, FS_Union DEF Websites
<1> QED BY <1>4, <1>5 DEF Slots, Websites

(* The answer of each request, as a function of the checks.                *)
WebsiteAnswer(site, range) ==
  LET totals == Totals(ChecksOf({site}, windowStart(range)))
  IN [of |-> "website", site |-> site, range |-> range, totals |-> totals,
      uptime |-> calculateUptimePercentage(totals.up, totals.total),
      downtime |-> estimateDowntime(totals.total - totals.up)]
ChartAnswer(site, range) ==
  [of |-> "buckets", site |-> site, range |-> range,
   buckets |-> Chart(ChecksOf({site}, windowStart(range)), bucketSizeFor(range))]
TotalsOfSites(since) ==
  [site \in {c[1] : c \in ChecksOf(Websites, since)} |-> Totals(ChecksOf({site}, since))]
CombinedAnswer ==
  LET all == combineTotals(TotalsOfSites(windowStart("day")))
  IN [of |-> "all", totals |-> all, uptime |-> calculateUptimePercentage(all.up, all.total)]

(* An answer is the one to its question: nothing changes behind it.        *)
AnswerIsCurrent ==
  /\ StatsTypeOK
  /\ \/ figures = Unasked
     \/ \E site \in Websites, range \in Ranges :
          figures = WebsiteAnswer(site, range) \/ figures = ChartAnswer(site, range)
     \/ figures = CombinedAnswer

LEMMA ChecksTyped ==
  ASSUME StatsTypeOK, NEW sites, NEW since
  PROVE  /\ IsFiniteSet(ChecksOf(sites, since)) /\ ChecksOf(sites, since) \subseteq Slots
         /\ \A c \in ChecksOf(sites, since) :
              c[1] \in sites /\ c[2] \in Int /\ recorded[c] \in {"failed", "fast", "slow"}
<1>1. ChecksOf(sites, since) \in SUBSET Slots
  BY DEF ChecksOf
<1>2. IsFiniteSet(ChecksOf(sites, since))
  BY <1>1, Sampled, FS_Subset
<1> QED BY <1>1, <1>2, Sampled DEF StatsTypeOK, ChecksOf

LEMMA WebsiteAgrees ==
  ASSUME StatsTypeOK, NEW site, NEW range, figures = WebsiteAnswer(site, range)
  PROVE  FiguresAgree
<1> DEFINE checks == ChecksOf({site}, windowStart(range))
           totals == Totals(checks)
<1>1. /\ figures.of = "website" /\ figures.site = site /\ figures.range = range
      /\ figures.totals = totals
      /\ figures.uptime = calculateUptimePercentage(totals.up, totals.total)
      /\ figures.downtime = (totals.total - totals.up) * Interval
  BY DEF WebsiteAnswer, estimateDowntime
<1>2. IsFiniteSet(checks) /\ \A c \in checks : recorded[c] \in {"failed", "fast", "slow"}
  BY ChecksTyped
<1> HIDE DEF checks, totals
<1>3. /\ totals.total = Cardinality(checks) /\ totals.up = Cardinality(Successful(checks))
      /\ totals.fastest <= totals.average /\ totals.average <= totals.slowest
  BY <1>2, Averaged DEF totals
<1>4. Honest(figures.uptime, checks)
  BY <1>1, <1>2, <1>3, HonestUptime
<1>5. figures.downtime = 0 <=> \A c \in checks : recorded[c] # "failed"
  <2>1. /\ totals.total \in Nat /\ totals.up \in Nat /\ totals.up <= totals.total
        /\ totals.up = totals.total <=> \A c \in checks : recorded[c] \in DOMAIN Ms
    BY <1>2, <1>3, CountsTyped
  <2>2. totals.up = totals.total <=> \A c \in checks : recorded[c] # "failed"
    BY <1>2, <2>1, Times
  <2>3. Interval \in Nat \ {0}
    BY StatisticsAssumption DEF StatisticsAssumption
  <2> DEFINE failed == totals.total - totals.up
  <2>4. failed \in Nat /\ (failed = 0 <=> totals.up = totals.total)
    BY <2>1
  <2>5. figures.downtime = failed * Interval
    BY <1>1
  <2> HIDE DEF failed
  <2>6. failed > 0 => failed * Interval > 0
    BY <2>3, <2>4
  <2>7. failed = 0 => failed * Interval = 0
    BY <2>3
  <2> QED BY <2>2, <2>4, <2>5, <2>6, <2>7
<1> QED BY <1>1, <1>3, <1>4, <1>5 DEF FiguresAgree, checks

LEMMA BucketsAgree ==
  ASSUME StatsTypeOK, NEW site, NEW range \in Ranges, figures = ChartAnswer(site, range)
  PROVE  FiguresAgree
<1> DEFINE checks == ChecksOf({site}, windowStart(range))
           size == bucketSizeFor(range)
<1>1. /\ figures.of = "buckets" /\ figures.site = site /\ figures.range = range
      /\ figures.buckets = Chart(checks, size)
  BY DEF ChartAnswer
<1>2. /\ IsFiniteSet(checks)
      /\ \A c \in checks : c[2] \in Int /\ recorded[c] \in {"failed", "fast", "slow"}
  BY ChecksTyped
<1>3. size \in Nat \ {0}
  BY DEF bucketSizeFor
<1> HIDE DEF checks, size
<1>4. /\ \A c \in checks : \E b \in figures.buckets : b.start <= c[2] /\ c[2] < b.start + size
      /\ \A b \in figures.buckets :
           LET within == {c \in checks : b.start <= c[2] /\ c[2] < b.start + size}
           IN b.totals.total = Cardinality(within) /\ Honest(b.uptime, within)
      /\ SumFunction([b \in figures.buckets |-> b.totals.up]) = Cardinality(Successful(checks))
  BY <1>1, <1>2, <1>3, ChartAgrees
<1> QED BY <1>1, <1>4 DEF FiguresAgree, checks, size

LEMMA AllAgree == ASSUME StatsTypeOK, figures = CombinedAnswer PROVE FiguresAgree
<1> DEFINE since == windowStart("day")
           checks == ChecksOf(Websites, since)
           sites == {c[1] : c \in checks}
           of == [site \in sites |-> {c \in checks : c[1] = site}]
           all == combineTotals(TotalsOfSites(since))
<1>1. /\ figures.of = "all" /\ figures.totals = all
      /\ figures.uptime = calculateUptimePercentage(all.up, all.total)
  BY DEF CombinedAnswer
<1>2. /\ IsFiniteSet(checks)
      /\ \A c \in checks : /\ c[1] \in Websites /\ c[1] \in sites
                           /\ recorded[c] \in {"failed", "fast", "slow"}
  BY ChecksTyped
<1>3. IsFiniteSet(sites)
  <2>1. sites \in SUBSET Websites
    BY <1>2
  <2> QED BY <2>1, Sampled, FS_Subset
<1>4. \A site \in sites : ChecksOf({site}, since) = of[site]
  BY <1>2 DEF ChecksOf
<1>5. all = combineTotals([site \in sites |-> Totals(of[site])])
  <2>1. TotalsOfSites(since) = [site \in sites |-> Totals(ChecksOf({site}, since))]
    BY DEF TotalsOfSites
  <2> HIDE DEF of
  <2>2. [site \in sites |-> Totals(ChecksOf({site}, since))] = [site \in sites |-> Totals(of[site])]
    BY <1>4
  <2> QED BY <2>1, <2>2
<1>6. of = [site \in sites |-> {c \in checks : c[1] = site}]
  OBVIOUS
<1> HIDE DEF checks, sites, of, all
<1>7. /\ Honest(calculateUptimePercentage(all.up, all.total), checks)
      /\ all.up > 0 => LET off == all.average * all.up - TotalMs(checks)
                      IN off <= all.up /\ -off <= all.up
  BY <1>2, <1>3, <1>5, <1>6, CombinedAgrees
<1> QED BY <1>1, <1>7 DEF FiguresAgree, checks

LEMMA AnsweredAgrees == AnswerIsCurrent => FiguresAgree
<1> SUFFICES ASSUME AnswerIsCurrent PROVE FiguresAgree
  OBVIOUS
<1>1. StatsTypeOK
  BY DEF AnswerIsCurrent
<1>2. CASE figures = Unasked
  BY <1>2 DEF Unasked, FiguresAgree
<1> QED BY <1>1, <1>2, WebsiteAgrees, BucketsAgree, AllAgree DEF AnswerIsCurrent

LEMMA StatsStart == StatsInit => AnswerIsCurrent
BY DEF StatsInit, AnswerIsCurrent, StatsTypeOK, Unasked

LEMMA StatsStep == AnswerIsCurrent /\ [StatsNext]_statsVars => AnswerIsCurrent'
<1> SUFFICES ASSUME AnswerIsCurrent, [StatsNext]_statsVars PROVE AnswerIsCurrent'
  OBVIOUS
<1>1. /\ recorded \in [Slots -> {"none", "failed", "fast", "slow"}] /\ live \subseteq Websites
      /\ figures.of \in {"nothing", "website", "buckets", "all"}
  BY DEF AnswerIsCurrent, StatsTypeOK
<1>2. ASSUME NEW site \in Websites, NEW range \in Ranges, websiteStats(site, range)
      PROVE  AnswerIsCurrent'
  <2>1. figures' = WebsiteAnswer(site, range)' /\ UNCHANGED <<recorded, live>>
    BY <1>2 DEF websiteStats, WebsiteAnswer, Totals, ChecksOf, Successful, TotalMs
  <2>2. figures'.of = "website"
    BY <1>2 DEF websiteStats
  <2> QED BY <1>1, <2>1, <2>2 DEF AnswerIsCurrent, StatsTypeOK
<1>3. ASSUME NEW site \in Websites, NEW range \in Ranges, websiteBuckets(site, range)
      PROVE  AnswerIsCurrent'
  <2>1. figures' = ChartAnswer(site, range) /\ UNCHANGED <<recorded, live>>
    BY <1>3, ChartIs DEF websiteBuckets, ChartAnswer
  <2>2. figures' = ChartAnswer(site, range)'
    BY <2>1 DEF ChartAnswer, Chart, Bucket, InBucket, Totals, ChecksOf, Successful, TotalMs
  <2>3. figures'.of = "buckets"
    BY <1>3 DEF websiteBuckets
  <2> QED BY <1>1, <2>1, <2>2, <2>3 DEF AnswerIsCurrent, StatsTypeOK
<1>4. CASE dashboardStats
  <2>1. figures' = CombinedAnswer /\ UNCHANGED <<recorded, live>>
    BY <1>4 DEF dashboardStats, CombinedAnswer, TotalsOfSites
  <2>2. figures' = CombinedAnswer'
    BY <2>1 DEF CombinedAnswer, TotalsOfSites, Totals, ChecksOf, Successful, TotalMs
  <2>3. figures'.of = "all"
    BY <1>4 DEF dashboardStats
  <2> QED BY <1>1, <2>1, <2>2, <2>3 DEF AnswerIsCurrent, StatsTypeOK
<1>5. ASSUME NEW site \in Websites, DeleteWebsite(site) \/ PurgeChecks(site) PROVE AnswerIsCurrent'
  <2>1. figures' = Unasked
    BY <1>5 DEF DeleteWebsite, PurgeChecks
  <2>2. recorded' \in [Slots -> {"none", "failed", "fast", "slow"}] /\ live' \subseteq Websites
    BY <1>1, <1>5 DEF DeleteWebsite, PurgeChecks
  <2> QED BY <2>1, <2>2 DEF AnswerIsCurrent, StatsTypeOK, Unasked
<1>6. CASE UNCHANGED statsVars
  <2>1. UNCHANGED <<recorded, live, figures>>
    BY <1>6 DEF statsVars
  <2>2. CombinedAnswer' = CombinedAnswer
    BY <2>1 DEF CombinedAnswer, TotalsOfSites, Totals, ChecksOf, Successful, TotalMs
  <2>3. ASSUME NEW site \in Websites, NEW range \in Ranges
        PROVE  /\ WebsiteAnswer(site, range)' = WebsiteAnswer(site, range)
               /\ ChartAnswer(site, range)' = ChartAnswer(site, range)
    <3>1. WebsiteAnswer(site, range)' = WebsiteAnswer(site, range)
      BY <2>1 DEF WebsiteAnswer, Totals, ChecksOf, Successful, TotalMs
    <3>2. ChartAnswer(site, range)' = ChartAnswer(site, range)
      BY <2>1 DEF ChartAnswer, Chart, Bucket, InBucket, Totals, ChecksOf, Successful, TotalMs
    <3> QED BY <3>1, <3>2
  <2>4. StatsTypeOK'
    BY <1>1, <2>1 DEF StatsTypeOK
  <2> QED BY <2>1, <2>2, <2>3, <2>4 DEF AnswerIsCurrent
<1> QED BY <1>2, <1>3, <1>4, <1>5, <1>6 DEF StatsNext

(* FiguresAgree: the figures that are shown agree with the checks and with *)
(* each other.  The lemmas it rests on say so of any finite number of      *)
(* checks and of websites: HonestUptime and Averaged of the totals of one  *)
(* website, ChartAgrees of the buckets of a chart, of whatever width, and  *)
(* CombinedAgrees of all websites in one figure.                           *)
THEOREM FiguresAreTrue == StatsSpec => []FiguresAgree
BY StatsStart, StatsStep, AnsweredAgrees, PTL DEF StatsSpec
=============================================================================
