--------------------------- MODULE EvaluationProofs ---------------------------
(***************************************************************************)
(* The evaluation pipeline, for every file of data points and whatever the *)
(* baseline and PolicyAI answer: what the reports say, what the tools make *)
(* of them, and the operators both rest on.                                *)
(***************************************************************************)
EXTENDS Evaluation, SequenceProofs

\* What policyai-evaluate-policies counts as matched, within 0.001%, policyai-extract-regressions
\* accepts as well, within 0.1% and under any flags: its values_match is never the stricter one.
THEOREM ExtractionIsLenient ==
  ASSUME NEW e \in Scalars, NEW a \in Scalars, NEW flags, evaluate_values_match(e, a)
  PROVE  ScalarsMatch(a, e, flags)
<1>1. CASE a = e
  <2>1. CASE a[1] = "number"
    <3>1. PICK x \in Int : a = <<"number", x>>
      BY <2>1 DEF Scalars
    <3>2. Magnitude(x - x) * 1000 <= Magnitude(x)
      BY DEF Magnitude
    <3> QED BY <1>1, <3>1, <3>2 DEF ScalarsMatch
  <2>2. CASE a[1] # "number"
    BY <1>1, <2>2 DEF ScalarsMatch, normalize_whitespace
  <2> QED BY <2>1, <2>2
<1>2. CASE a # e
  <2>1. e[1] = "number" /\ a[1] = "number" /\ Magnitude(e[2] - a[2]) * 100000 <= Magnitude(e[2])
    BY <1>2 DEF evaluate_values_match
  <2>2. PICK x \in Int, y \in Int : e = <<"number", x>> /\ a = <<"number", y>>
    BY <2>1 DEF Scalars
  <2>3. Magnitude(x - y) * 100000 <= Magnitude(x)
    BY <2>1, <2>2
  <2>4. Magnitude(y - x) * 1000 <= Magnitude(x)
    BY <2>3 DEF Magnitude
  <2> QED BY <2>2, <2>4 DEF ScalarsMatch
<1> QED BY <1>1, <1>2

LEMMA ScaledDown ==
  ASSUME NEW k \in Nat, NEW p \in 0..100
  PROVE  p * k \in Nat /\ p * k <= 100 * k
OBVIOUS

\* TokenUsageAnalysis::percentile never indexes past its vector, for any percentage and any number
\* of values, and p = 0 and p = 100 are its first and its last element.
THEOREM PercentileIndexInRange ==
  ASSUME NEW n \in Nat \ {0}, NEW p \in 0..100
  PROVE  /\ percentile_index(n, p) \in 0..(n - 1)
         /\ percentile_index(n, 0) = 0
         /\ percentile_index(n, 100) = n - 1
<1> DEFINE k == n - 1
           q == p * k
<1>1. k \in Nat
  OBVIOUS
<1>2. q \in Nat /\ q <= 100 * k
  BY <1>1, ScaledDown
<1>3. percentile_index(n, p) = (2 * q + 100) \div 200
  <2>1. 2 * p * (n - 1) = 2 * q
    BY <1>1
  <2> QED BY <2>1 DEF percentile_index
<1>4. (2 * q + 100) \div 200 \in 0..k
  <2> HIDE DEF q, k
  <2> QED BY <1>1, <1>2
<1>5. percentile_index(n, 0) = 0
  BY DEF percentile_index
<1>6. percentile_index(n, 100) = n - 1
  BY DEF percentile_index
<1> QED BY <1>3, <1>4, <1>5, <1>6

\* percentile: of one sample, a larger percentage never has a smaller index.
THEOREM PercentileIndexMonotone ==
  ASSUME NEW n \in Nat \ {0}, NEW p \in 0..100, NEW q \in 0..100, p <= q
  PROVE  percentile_index(n, p) <= percentile_index(n, q)
<1> DEFINE c == n - 1
           a == p * c
           b == q * c
<1>1. c \in Nat /\ p \in Nat /\ q \in Nat
  OBVIOUS
<1> HIDE DEF c
<1>2. a \in Nat /\ b \in Nat
  BY <1>1
<1>3. a <= b
  <2>1. b - a = (q - p) * c /\ q - p \in Nat
    BY <1>1
  <2>2. (q - p) * c >= 0
    BY <1>1, <2>1
  <2> HIDE DEF a, b
  <2> QED BY <1>2, <2>1, <2>2
<1>4. 2 * p * c = 2 * a /\ 2 * q * c = 2 * b
  BY <1>1
<1>5. percentile_index(n, p) = (2 * a + 100) \div 200 /\ percentile_index(n, q) = (2 * b + 100) \div 200
  BY <1>4 DEF percentile_index, c
<1> HIDE DEF a, b
<1>6. (2 * a + 100) \div 200 <= (2 * b + 100) \div 200
  BY <1>2, <1>3
<1> QED BY <1>5, <1>6
-----------------------------------------------------------------------------
(* Two arrays that are equal match, in either order of comparison.          *)

Flagged(s) == [used : SUBSET (1..Len(s)), found_match : BOOLEAN]
Start == [used |-> {}, found_match |-> TRUE]

\* What the loop of arrays_match_unordered does with one element of a.
Free(acc, x, b, flags) == {k \in DOMAIN b \ acc.used : ScalarsMatch(x, b[k], flags)}
Taken(acc, x, b, flags) ==
  IF Free(acc, x, b, flags) = {} THEN [acc EXCEPT !.found_match = FALSE]
  ELSE [acc EXCEPT !.used = @ \cup {Min(Free(acc, x, b, flags))}]

\* h[k] is its state after the first k elements of a.
TakesAlong(h, a, b, flags) ==
  /\ h[0] = Start /\ (arrays_match_unordered(a, b, flags) <=> Len(a) = Len(b) /\ h[Len(a)].found_match)
  /\ \A k \in 1..Len(a) : h[k] = Taken(h[k - 1], a[k], b, flags)

LEMMA MinInside ==
  ASSUME NEW n \in Nat, NEW S \in SUBSET (1..n), S # {}
  PROVE  Min(S) \in S /\ \A x \in S : Min(S) <= x
<1>1. \E x \in S : \A y \in S : x <= y
  <2> DEFINE T == {k \in Nat : \A u \in SUBSET (1..k) : u # {} => \E x \in u : \A y \in u : x <= y}
  <2>1. 0 \in T
    <3>1. 1..0 = {}
      OBVIOUS
    <3> QED BY <3>1
  <2>2. ASSUME NEW k \in Nat, k \in T PROVE k + 1 \in T
    <3> SUFFICES ASSUME NEW u \in SUBSET (1..(k + 1)), u # {}
                 PROVE  \E x \in u : \A y \in u : x <= y
      OBVIOUS
    <3>1. CASE u \subseteq 1..k
      BY <2>2, <3>1
    <3>2. CASE u = {k + 1}
      BY <3>2
    <3>3. CASE ~(u \subseteq 1..k) /\ u # {k + 1}
      <4> DEFINE v == u \ {k + 1}
      <4>1. \A y \in u : y \in 1..k \/ y = k + 1
        OBVIOUS
      <4>2. v \in SUBSET (1..k) /\ v # {}
        BY <3>3, <4>1
      <4>3. PICK x \in v : \A y \in v : x <= y
        BY <2>2, <4>2
      <4>4. x \in u /\ x \in 1..k /\ x <= k + 1
        BY <4>2, <4>3
      <4>5. \A y \in u : x <= y
        BY <4>3, <4>4
      <4> QED BY <4>4, <4>5
    <3> QED BY <3>1, <3>2, <3>3
  <2>3. Nat \subseteq T
    <3> HIDE DEF T
    <3> QED BY <2>1, <2>2, NatSetInduction
  <2> QED BY <2>3
<1>2. PICK x \in S : \A y \in S : x <= y
  BY <1>1
<1>3. Min(S) \in S /\ \A y \in S : Min(S) <= y
  BY <1>2 DEF Min
<1> QED BY <1>3

LEMMA TakenType ==
  ASSUME NEW b, NEW n \in Nat, DOMAIN b = 1..n, Len(b) = n, NEW acc \in Flagged(b), NEW x, NEW flags
  PROVE  Taken(acc, x, b, flags) \in Flagged(b)
<1> DEFINE free == Free(acc, x, b, flags)
<1>1. free \in SUBSET (1..n)
  BY DEF Free
<1>2. CASE free = {}
  <2>1. Taken(acc, x, b, flags) = [acc EXCEPT !.found_match = FALSE]
    BY <1>2 DEF Taken
  <2> QED BY <2>1 DEF Flagged
<1>3. CASE free # {}
  <2>1. Taken(acc, x, b, flags) = [acc EXCEPT !.used = acc.used \cup {Min(free)}]
    BY <1>3 DEF Taken
  <2>2. Min(free) \in 1..n
    <3> HIDE DEF free
    <3> QED BY <1>1, <1>3, MinInside
  <2> QED BY <2>1, <2>2 DEF Flagged
<1> QED BY <1>2, <1>3

LEMMA TakeFold ==
  ASSUME NEW X, NEW a \in Seq(X), NEW b \in Seq(X), NEW flags
  PROVE  \E h \in [0..Len(a) -> Flagged(b)] : TakesAlong(h, a, b, flags)
<1> DEFINE n == Len(a)
           A == Flagged(b)
           Op(acc, x) == Taken(acc, x, b, flags)
           F == [p \in A \X (1..n) |-> Op(p[1], a[p[2]])]
           Body(g) == [t \in SUBSET DOMAIN a |-> IF t = {} THEN Start ELSE Op(g[t \ {Max(t)}], a[Max(t)])]
           it == CHOOSE g : g = Body(g)
<1>1. n \in Nat /\ DOMAIN a = 1..n
  OBVIOUS
<1>2. Start \in A /\ \A acc \in A, k \in 1..n : Op(acc, a[k]) \in A
  <2>1. Start \in A
    BY DEF Start, Flagged
  <2>2. Len(b) \in Nat /\ DOMAIN b = 1..Len(b)
    OBVIOUS
  <2> QED BY <2>1, <2>2, TakenType
<1>3. arrays_match_unordered(a, b, flags) <=> Len(a) = Len(b) /\ it[DOMAIN a].found_match
  BY DEF arrays_match_unordered, FoldLeft, MapThenFoldSet, Taken, Free, Start
<1> HIDE DEF n, A, Op
<1>4. F \in [A \X (1..n) -> A] /\ \A acc \in A, k \in 1..n : F[<<acc, k>>] = Op(acc, a[k])
  BY <1>1, <1>2
<1> HIDE DEF F
<1>5. PICK g \in [SUBSET (1..n) -> A] : FoldsOver(g, F, Start, n)
  BY <1>1, <1>2, <1>4, FoldExists
<1>6. g = Body(g)
  <2>1. ASSUME NEW t \in SUBSET (1..n), t # {} PROVE g[t] = Op(g[t \ {Max(t)}], a[Max(t)])
    <3>1. Max(t) \in 1..n /\ g[t \ {Max(t)}] \in A /\ g[t] = F[<<g[t \ {Max(t)}], Max(t)>>]
      BY <1>5, <2>1 DEF FoldsOver
    <3> QED BY <1>4, <3>1
  <2>2. g[{}] = Start
    BY <1>5 DEF FoldsOver
  <2> QED BY <1>1, <1>5, <2>1, <2>2
<1>7. it = Body(it)
  <2> HIDE DEF Body
  <2> QED BY <1>6, Zenon
<1> HIDE DEF it
<1>8. FoldsTo(it, F, A, Start, n)
  BY <1>1, <1>4, <1>5, <1>7 DEF FoldsTo, FoldsOver
<1>9. PICK h \in [0..n -> A] : Along(h, F, Start, n, it[1..n])
  BY <1>1, <1>2, <1>4, <1>8, FoldAlong
<1>10. ASSUME NEW k \in 1..n PROVE h[k] = Op(h[k - 1], a[k])
  <2>1. k - 1 \in 0..n /\ h[k] = F[<<h[k - 1], k>>]
    BY <1>1, <1>9 DEF Along
  <2> QED BY <1>4, <1>9, <2>1
<1> QED BY <1>1, <1>3, <1>9, <1>10 DEF n, A, Op, Along, TakesAlong

\* One element: it takes a free position that it matches, if there is one.
LEMMA TakenEffect ==
  ASSUME NEW b, NEW n \in Nat, DOMAIN b = 1..n, Len(b) = n, NEW acc \in Flagged(b), NEW x, NEW flags
  PROVE  LET free == Free(acc, x, b, flags)
             next == Taken(acc, x, b, flags)
         IN /\ free = {} => next.used = acc.used /\ ~next.found_match
            /\ free # {} => /\ next.found_match = acc.found_match /\ next.used = acc.used \cup {Min(free)}
                            /\ Min(free) \in free /\ \A k \in free : Min(free) <= k
<1> DEFINE free == Free(acc, x, b, flags)
           next == Taken(acc, x, b, flags)
<1>1. next = IF free = {} THEN [acc EXCEPT !.found_match = FALSE]
             ELSE [acc EXCEPT !.used = acc.used \cup {Min(free)}]
  BY DEF Taken
<1>2. free \in SUBSET (1..n)
  BY DEF Free
<1> HIDE DEF free, next
<1>3. free # {} => Min(free) \in free /\ \A k \in free : Min(free) <= k
  BY <1>2, MinInside
<1>4. free = {} => next.used = acc.used /\ ~next.found_match
  BY <1>1 DEF Flagged
<1>5. free # {} => next.used = acc.used \cup {Min(free)} /\ next.found_match = acc.found_match
  BY <1>1 DEF Flagged
<1> QED BY <1>3, <1>4, <1>5 DEF free, next

\* An array matches itself: each element takes its own position.
LEMMA UnorderedReflexive ==
  ASSUME NEW X, NEW a \in Seq(X), NEW flags, \A x \in X : ScalarsMatch(x, x, flags)
  PROVE  arrays_match_unordered(a, a, flags)
<1> DEFINE n == Len(a)
<1>1. n \in Nat /\ DOMAIN a = 1..n /\ \A k \in 1..n : a[k] \in X
  OBVIOUS
<1>2. PICK h \in [0..n -> Flagged(a)] : TakesAlong(h, a, a, flags)
  BY TakeFold
<1> HIDE DEF n
<1> DEFINE P(k) == h[k].found_match /\ h[k].used = 1..k
           T == {k \in Nat : k <= n => P(k)}
<1>3. P(0)
  <2>1. 1..0 = {}
    OBVIOUS
  <2> QED BY <1>2, <2>1 DEF TakesAlong, Start
<1>4. ASSUME NEW k \in Nat, P(k), k + 1 <= n PROVE P(k + 1)
  <2>1. k + 1 \in 1..n /\ (k + 1) - 1 = k /\ k \in 0..n /\ h[k] \in Flagged(a) /\ Len(a) = n
    BY <1>1, <1>2, <1>4 DEF n
  <2>2. h[k + 1] = Taken(h[k], a[k + 1], a, flags)
    BY <1>2, <2>1 DEF TakesAlong
  <2> DEFINE free == {j \in 1..n : j \notin h[k].used /\ ScalarsMatch(a[k + 1], a[j], flags)}
  <2>3. k + 1 \in free
    <3>1. k + 1 \notin 1..k
      OBVIOUS
    <3> QED BY <1>1, <1>4, <2>1, <3>1
  <2>4. \A j \in free : j >= k + 1
    BY <1>1, <1>4, <2>1
  <2>5. /\ h[k + 1].found_match = h[k].found_match /\ h[k + 1].used = h[k].used \cup {Min(free)}
        /\ Min(free) \in free /\ \A j \in free : Min(free) <= j
    <3>1. free = Free(h[k], a[k + 1], a, flags) /\ free # {}
      BY <1>1, <2>3 DEF Free
    <3> HIDE DEF free
    <3> QED BY <1>1, <2>1, <2>2, <3>1, TakenEffect
  <2>6. \A j \in free : j \in Nat
    BY <1>1
  <2>7. Min(free) = k + 1
    <3> HIDE DEF free
    <3> QED BY <2>1, <2>3, <2>4, <2>5, <2>6
  <2>8. (1..k) \cup {k + 1} = 1..(k + 1)
    OBVIOUS
  <2> QED BY <1>4, <2>5, <2>7, <2>8
<1> HIDE DEF P
<1>5. 0 \in T /\ \A k \in Nat : k \in T => k + 1 \in T
  BY <1>1, <1>3, <1>4
<1>6. Nat \subseteq T
  <2> HIDE DEF T
  <2> QED BY <1>5, NatSetInduction
<1>7. P(n)
  BY <1>1, <1>6
<1> QED BY <1>1, <1>2, <1>7 DEF P, TakesAlong, n

\* q is a way to match each element of a with one of b of its own.
Rearranges(q, a, b, flags) ==
  /\ q \in [1..Len(a) -> 1..Len(a)] /\ IsPermutation(q, Len(a))
  /\ \A j \in 1..Len(a) : ScalarsMatch(a[j], b[q[j]], flags)

\* What the loop found is such a way.
LEMMA FoundIsRearrangement ==
  ASSUME NEW X, NEW a \in Seq(X), NEW b \in Seq(X), NEW flags, arrays_match_unordered(a, b, flags)
  PROVE  Len(a) = Len(b) /\ \E q : Rearranges(q, a, b, flags)
<1> DEFINE n == Len(a)
<1>1. n \in Nat /\ DOMAIN a = 1..n
  OBVIOUS
<1>2. PICK h \in [0..n -> Flagged(b)] : TakesAlong(h, a, b, flags)
  BY TakeFold
<1>3. Len(b) = n /\ DOMAIN b = 1..n /\ h[n].found_match
  BY <1>2 DEF TakesAlong
<1> HIDE DEF n
<1> DEFINE free(k) == {j \in 1..n : j \notin h[k - 1].used /\ ScalarsMatch(a[k], b[j], flags)}
           q == [k \in 1..n |-> Min(free(k))]
           P(k) == h[k].found_match =>
                     /\ h[k].used = {q[j] : j \in 1..k}
                     /\ \A j \in 1..k : q[j] \in 1..n /\ ScalarsMatch(a[j], b[q[j]], flags)
                     /\ \A i, j \in 1..k : q[i] = q[j] => i = j
           T == {k \in Nat : k <= n => P(k)}
<1>4. P(0)
  <2>1. 1..0 = {}
    OBVIOUS
  <2> QED BY <1>2, <2>1 DEF TakesAlong, Start
<1>5. ASSUME NEW k \in Nat, P(k), k + 1 <= n PROVE P(k + 1)
  <2>1. k + 1 \in 1..n /\ (k + 1) - 1 = k /\ k \in 0..n /\ h[k] \in Flagged(b)
    BY <1>1, <1>2, <1>5
  <2>2. h[k + 1] = Taken(h[k], a[k + 1], b, flags)
    BY <1>2, <2>1 DEF TakesAlong, n
  <2> DEFINE f == {j \in 1..n : j \notin h[k].used /\ ScalarsMatch(a[k + 1], b[j], flags)}
  <2>3. /\ f = {} => ~h[k + 1].found_match
        /\ f # {} => /\ h[k + 1].found_match = h[k].found_match /\ h[k + 1].used = h[k].used \cup {Min(f)}
                     /\ Min(f) \in f
    <3>1. f = Free(h[k], a[k + 1], b, flags)
      BY <1>3 DEF Free
    <3> HIDE DEF f
    <3> QED BY <1>1, <1>3, <2>1, <2>2, <3>1, TakenEffect DEF n
  <2>4. q[k + 1] = Min(f)
    BY <2>1
  <2>5. \A i : i \in 1..(k + 1) <=> i \in 1..k \/ i = k + 1
    OBVIOUS
  <2>6. CASE f # {} /\ h[k + 1].found_match
    <3>1. /\ h[k].found_match /\ h[k + 1].used = h[k].used \cup {q[k + 1]}
          /\ q[k + 1] \in 1..n /\ q[k + 1] \notin h[k].used /\ ScalarsMatch(a[k + 1], b[q[k + 1]], flags)
      BY <2>3, <2>4, <2>6
    <3> HIDE DEF q, f
    <3>2. h[k].used = {q[j] : j \in 1..k} /\ \A j \in 1..k : q[j] # q[k + 1]
      BY <1>5, <3>1
    <3> QED BY <1>5, <2>5, <3>1, <3>2
  <2> QED BY <2>3, <2>6
<1> HIDE DEF P
<1>6. 0 \in T /\ \A k \in Nat : k \in T => k + 1 \in T
  BY <1>1, <1>4, <1>5
<1>7. Nat \subseteq T
  <2> HIDE DEF T
  <2> QED BY <1>6, NatSetInduction
<1>8. P(n)
  BY <1>1, <1>7
<1>9. q \in [1..n -> 1..n]
  <2>1. DOMAIN q = 1..n /\ q = [k \in 1..n |-> q[k]]
    OBVIOUS
  <2> HIDE DEF q
  <2> QED BY <1>3, <1>8, <2>1 DEF P
<1> HIDE DEF q
<1>10. Rearranges(q, a, b, flags)
  BY <1>3, <1>8, <1>9 DEF P, Rearranges, IsPermutation, n
<1> QED BY <1>3, <1>10 DEF n

\* Taking the first match never takes the wrong one, if elements that match a common one are alike.
LEMMA RearrangementIsFound ==
  ASSUME NEW X, NEW a \in Seq(X), NEW b \in Seq(X), NEW flags, Len(a) = Len(b), NEW p,
         Rearranges(p, a, b, flags),
         \A i, j \in 1..Len(a), u, v \in X :
           ScalarsMatch(a[i], u, flags) /\ ScalarsMatch(a[i], v, flags) /\ ScalarsMatch(a[j], u, flags)
             => ScalarsMatch(a[j], v, flags)
  PROVE  arrays_match_unordered(a, b, flags)
<1> DEFINE n == Len(a)
           M(x, u) == ScalarsMatch(x, u, flags)
<1>1. n \in Nat /\ DOMAIN a = 1..n /\ DOMAIN b = 1..n /\ Len(b) = n /\ \A j \in 1..n : a[j] \in X /\ b[j] \in X
  OBVIOUS
<1>2. PICK h \in [0..n -> Flagged(b)] : TakesAlong(h, a, b, flags)
  BY TakeFold
<1>3. Rearranges(p, a, b, flags)
  OBVIOUS
<1> HIDE DEF n
<1> DEFINE R(q, k) == Rearranges(q, a, b, flags) /\ h[k].used = {q[j] : j \in 1..k}
           P(k) == h[k].found_match /\ \E q : R(q, k)
           T == {k \in Nat : k <= n => P(k)}
<1>4. P(0)
  <2>1. 1..0 = {}
    OBVIOUS
  <2>2. R(p, 0)
    BY <1>2, <1>3, <2>1 DEF TakesAlong, Start
  <2> QED BY <1>2, <2>2 DEF TakesAlong, Start
<1>5. ASSUME NEW k \in Nat, P(k), k + 1 <= n PROVE P(k + 1)
  <2>1. k + 1 \in 1..n /\ (k + 1) - 1 = k /\ k \in 0..n /\ h[k] \in Flagged(b)
    BY <1>1, <1>2, <1>5
  <2>2. h[k + 1] = Taken(h[k], a[k + 1], b, flags)
    BY <1>2, <2>1 DEF TakesAlong, n
  <2>3. PICK q : R(q, k)
    BY <1>5
  <2>4. /\ q \in [1..n -> 1..n] /\ (\A i, j \in 1..n : q[i] = q[j] => i = j)
        /\ (\A j \in 1..n : M(a[j], b[q[j]])) /\ h[k].used = {q[j] : j \in 1..k}
    BY <2>3 DEF Rearranges, IsPermutation, n
  <2> HIDE DEF R, M
  <2> DEFINE f == {j \in 1..n : j \notin h[k].used /\ M(a[k + 1], b[j])}
             m == Min(f)
  <2>5. \A j \in 1..k : j \in 1..n /\ j # k + 1
    BY <1>1, <2>1
  <2>6. q[k + 1] \in f
    BY <2>1, <2>4, <2>5
  <2>7. /\ h[k + 1].found_match = h[k].found_match /\ h[k + 1].used = h[k].used \cup {m} /\ m \in f
    <3>1. f = Free(h[k], a[k + 1], b, flags) /\ f # {}
      BY <1>1, <2>6 DEF M, Free
    <3> HIDE DEF f
    <3> QED BY <1>1, <2>1, <2>2, <3>1, TakenEffect
  <2>8. m \in 1..n /\ m \notin {q[j] : j \in 1..k} /\ M(a[k + 1], b[m])
    BY <2>4, <2>7
  <2> HIDE DEF f, m
  <2> DEFINE r == [j \in 1..n |-> IF j = k + 1 THEN m ELSE IF q[j] = m THEN q[k + 1] ELSE q[j]]
  <2>9. r \in [1..n -> 1..n]
    BY <2>1, <2>4, <2>8
  <2>10. ASSUME NEW i \in 1..n, NEW j \in 1..n, r[i] = r[j] PROVE i = j
    BY <2>1, <2>4, <2>8, <2>10
  <2>11. ASSUME NEW j \in 1..n PROVE M(a[j], b[r[j]])
    <3>1. CASE j = k + 1
      BY <2>8, <3>1
    <3>2. CASE j # k + 1 /\ q[j] # m
      BY <2>4, <3>2
    <3>3. CASE j # k + 1 /\ q[j] = m
      <4>1. M(a[k + 1], b[m]) /\ M(a[k + 1], b[q[k + 1]]) /\ M(a[j], b[m]) /\ q[k + 1] \in 1..n
        BY <2>1, <2>4, <2>8, <3>3
      <4>2. M(a[j], b[q[k + 1]])
        BY <1>1, <2>1, <2>8, <4>1 DEF M, n
      <4> QED BY <3>3, <4>2
    <3> QED BY <3>1, <3>2, <3>3
  <2>12. {r[j] : j \in 1..(k + 1)} = h[k].used \cup {m}
    <3>1. \A j : j \in 1..(k + 1) <=> j \in 1..k \/ j = k + 1
      OBVIOUS
    <3>2. \A j \in 1..k : r[j] = q[j]
      BY <2>4, <2>5, <2>8
    <3>3. r[k + 1] = m
      BY <2>1
    <3> HIDE DEF r
    <3> QED BY <2>4, <3>1, <3>2, <3>3
  <2> HIDE DEF r
  <2>13. R(r, k + 1)
    BY <2>7, <2>9, <2>10, <2>11, <2>12 DEF R, M, Rearranges, IsPermutation, n
  <2> QED BY <1>5, <2>7, <2>13
<1> HIDE DEF P
<1>6. 0 \in T /\ \A k \in Nat : k \in T => k + 1 \in T
  BY <1>1, <1>4, <1>5
<1>7. Nat \subseteq T
  <2> HIDE DEF T
  <2> QED BY <1>6, NatSetInduction
<1>8. P(n)
  BY <1>1, <1>7
<1> QED BY <1>1, <1>2, <1>8 DEF P, TakesAlong, n
-----------------------------------------------------------------------------
(* What the metrics of a document say.                                      *)

\* d has entries under finitely many keys.
Bounded(d) == IsFiniteSet(DOMAIN d.map)

\* Each expected field is matched, wrong or missing.
LEMMA FieldsCounted ==
  ASSUME NEW e, NEW d, IsFiniteSet(DOMAIN e), Bounded(d)
  PROVE  LET m == calculate_field_metrics(e, d)
         IN /\ m \in [Outcomes -> Nat]
            /\ m.matched + m.wrong + m.missing = Cardinality(DOMAIN e)
            /\ m.wrong = 0 /\ m.missing = 0 <=>
                 \A k \in DOMAIN e : k \in DOMAIN d.map /\ evaluate_values_match(e[k], d.map[k])
            /\ m.extra = 0 => DOMAIN d.map \subseteq DOMAIN e \cup {RuleNumbers}
            /\ DOMAIN d.map = {} => m.matched = 0 /\ m.wrong = 0 /\ m.missing = Cardinality(DOMAIN e)
<1> DEFINE m == calculate_field_metrics(e, d)
           E == DOMAIN e
           D == DOMAIN d.map
           present == E \cap D
           matched == {k \in present : evaluate_values_match(e[k], d.map[k])}
           wrong == present \ matched
           missing == E \ present
           extra == D \ (E \cup {RuleNumbers})
<1>1. m = [matched |-> Cardinality(matched), wrong |-> Cardinality(wrong),
           missing |-> Cardinality(missing), extra |-> Cardinality(extra)]
  BY DEF calculate_field_metrics
<1>2. IsFiniteSet(E) /\ IsFiniteSet(D)
  BY DEF Bounded
<1>3. /\ present \in SUBSET E /\ matched \in SUBSET E /\ wrong \in SUBSET E /\ missing \in SUBSET E
      /\ extra \in SUBSET D
      /\ E \cap present = present /\ present \cap matched = matched
  OBVIOUS
<1>4. \A k \in E : k \in matched <=> k \in D /\ evaluate_values_match(e[k], d.map[k])
  OBVIOUS
<1>5. (wrong = {} /\ missing = {}) <=> \A k \in E : k \in matched
  OBVIOUS
<1>6. extra = {} => D \subseteq E \cup {RuleNumbers}
  OBVIOUS
<1>7. D = {} => matched = {} /\ wrong = {} /\ missing = E
  OBVIOUS
<1>8. wrong = present \ matched /\ missing = E \ present
  OBVIOUS
<1> HIDE DEF m, present, matched, wrong, missing, extra, E, D
<1>9. /\ IsFiniteSet(present) /\ IsFiniteSet(matched) /\ IsFiniteSet(wrong) /\ IsFiniteSet(missing)
       /\ IsFiniteSet(extra)
  BY <1>2, <1>3, FS_Subset
<1>10. /\ Cardinality(E) \in Nat /\ Cardinality(present) \in Nat /\ Cardinality(matched) \in Nat
       /\ Cardinality(wrong) \in Nat /\ Cardinality(missing) \in Nat /\ Cardinality(extra) \in Nat
  BY <1>2, <1>9, FS_CardinalityType
<1>11. Cardinality(wrong) = Cardinality(present) - Cardinality(matched)
  BY <1>3, <1>8, <1>9, FS_Difference
<1>12. Cardinality(missing) = Cardinality(E) - Cardinality(present)
  BY <1>2, <1>3, <1>8, FS_Difference
<1>13. /\ Cardinality(wrong) = 0 <=> wrong = {} 
       /\ Cardinality(missing) = 0 <=> missing = {}
       /\ Cardinality(extra) = 0 <=> extra = {}
       /\ Cardinality({}) = 0
  BY <1>9, FS_EmptySet
<1>14. m \in [Outcomes -> Nat]
  BY <1>1, <1>10 DEF Outcomes
<1>15. /\ m.matched = Cardinality(matched) /\ m.wrong = Cardinality(wrong)
       /\ m.missing = Cardinality(missing) /\ m.extra = Cardinality(extra)
  BY <1>1
<1>16. m.matched + m.wrong + m.missing = Cardinality(E)
  BY <1>10, <1>11, <1>12, <1>15
<1>17. m.wrong = 0 /\ m.missing = 0 <=> \A k \in E : k \in D /\ evaluate_values_match(e[k], d.map[k])
  BY <1>4, <1>5, <1>13, <1>15
<1>18. m.extra = 0 => D \subseteq E \cup {RuleNumbers}
  BY <1>6, <1>13, <1>15
<1>19. D = {} => m.matched = 0 /\ m.wrong = 0 /\ m.missing = Cardinality(E)
  BY <1>7, <1>13, <1>15
<1> QED BY <1>14, <1>16, <1>17, <1>18, <1>19 DEF m, E, D

\* h[k] are the defaults of the first k policies.
DefaultsAlong(h, s) ==
  /\ h[0] = <<>> /\ FoldLeft(LAMBDA m, t : OrElse(m, t.defaults), <<>>, s) = h[Len(s)]
  /\ \A k \in 1..Len(s) : h[k] = OrElse(h[k - 1], s[k].defaults)

FiniteMaps(K) == UNION {[S -> FieldValues] : S \in {T \in SUBSET K : IsFiniteSet(T)}}

LEMMA FiniteMapsOr ==
  ASSUME NEW K, NEW f \in FiniteMaps(K), NEW g, Entries(g), DOMAIN g \subseteq K
  PROVE  OrElse(f, g) \in FiniteMaps(K)
<1>1. PICK S \in SUBSET K : IsFiniteSet(S) /\ f \in [S -> FieldValues]
  BY DEF FiniteMaps
<1> DEFINE D == DOMAIN g
<1>2. IsFiniteSet(D) /\ g \in [D -> FieldValues] /\ D \subseteq K
  BY DEF Entries
<1> HIDE DEF D
<1>3. IsFiniteSet(S \cup D)
  BY <1>1, <1>2, FS_Union
<1>4. OrElse(f, g) \in [S \cup D -> FieldValues]
  BY <1>1, <1>2 DEF OrElse
<1> QED BY <1>2, <1>3, <1>4 DEF FiniteMaps

LEMMA DefaultsFold ==
  ASSUME NEW K, NEW X, NEW s \in Seq(X), \A t \in X : Entries(t.defaults) /\ DOMAIN t.defaults \subseteq K
  PROVE  \E h \in [0..Len(s) -> FiniteMaps(K)] : DefaultsAlong(h, s)
<1> DEFINE n == Len(s)
           A == FiniteMaps(K)
           Op(m, t) == OrElse(m, t.defaults)
           F == [p \in A \X (1..n) |-> Op(p[1], s[p[2]])]
           Body(g) == [t \in SUBSET DOMAIN s |-> IF t = {} THEN <<>> ELSE Op(g[t \ {Max(t)}], s[Max(t)])]
           it == CHOOSE g : g = Body(g)
<1>1. n \in Nat /\ DOMAIN s = 1..n /\ \A k \in 1..n : s[k] \in X
  OBVIOUS
<1>2. <<>> \in A /\ \A m \in A, k \in 1..n : Op(m, s[k]) \in A
  <2>1. <<>> \in [{} -> FieldValues] /\ IsFiniteSet({})
    BY FS_EmptySet
  <2>2. <<>> \in A
    BY <2>1 DEF FiniteMaps
  <2> QED BY <1>1, <2>2, FiniteMapsOr
<1>3. FoldLeft(LAMBDA m, t : OrElse(m, t.defaults), <<>>, s) = it[DOMAIN s]
  BY DEF FoldLeft, MapThenFoldSet
<1> HIDE DEF n, A, Op
<1>4. F \in [A \X (1..n) -> A] /\ \A m \in A, k \in 1..n : F[<<m, k>>] = Op(m, s[k])
  BY <1>1, <1>2
<1> HIDE DEF F
<1>5. PICK g \in [SUBSET (1..n) -> A] : FoldsOver(g, F, <<>>, n)
  BY <1>1, <1>2, <1>4, FoldExists
<1>6. g = Body(g)
  <2>1. ASSUME NEW t \in SUBSET (1..n), t # {} PROVE g[t] = Op(g[t \ {Max(t)}], s[Max(t)])
    <3>1. Max(t) \in 1..n /\ g[t \ {Max(t)}] \in A /\ g[t] = F[<<g[t \ {Max(t)}], Max(t)>>]
      BY <1>5, <2>1 DEF FoldsOver
    <3> QED BY <1>4, <3>1
  <2>2. g[{}] = <<>>
    BY <1>5 DEF FoldsOver
  <2> QED BY <1>1, <1>5, <2>1, <2>2
<1>7. it = Body(it)
  <2> HIDE DEF Body
  <2> QED BY <1>6, Zenon
<1> HIDE DEF it
<1>8. FoldsTo(it, F, A, <<>>, n)
  BY <1>1, <1>4, <1>5, <1>7 DEF FoldsTo, FoldsOver
<1>9. PICK h \in [0..n -> A] : Along(h, F, <<>>, n, it[1..n])
  BY <1>1, <1>2, <1>4, <1>8, FoldAlong
<1>10. ASSUME NEW k \in 1..n PROVE h[k] = Op(h[k - 1], s[k])
  <2>1. k - 1 \in 0..n /\ h[k] = F[<<h[k - 1], k>>]
    BY <1>1, <1>9 DEF Along
  <2> QED BY <1>4, <1>9, <2>1
<1> QED BY <1>1, <1>3, <1>9, <1>10 DEF n, A, Op, Along, DefaultsAlong

\* A point expects values for finitely many fields.
LEMMA ExpectedFinite ==
  ASSUME NEW p \in Points
  PROVE  Entries(Expected(p)) /\ IsFiniteSet(DOMAIN Expected(p))
<1> DEFINE X == TypesOf(p)
           K == UNION {DOMAIN t.defaults : t \in X}
           d == FoldLeft(LAMBDA m, t : OrElse(m, t.defaults), <<>>, p.policies)
<1>1. p.policies \in Seq(X) /\ \A t \in X : Entries(t.defaults) /\ DOMAIN t.defaults \subseteq K
  BY InputDocuments
<1> HIDE DEF X, K
<1>2. PICK h \in [0..Len(p.policies) -> FiniteMaps(K)] : DefaultsAlong(h, p.policies)
  BY <1>1, DefaultsFold
<1>3. Len(p.policies) \in 0..Len(p.policies)
  BY <1>1
<1>4. d \in FiniteMaps(K)
  BY <1>2, <1>3 DEF DefaultsAlong
<1> HIDE DEF d
<1>5. Entries(d)
  BY <1>4 DEF FiniteMaps, Entries
<1>6. Expected(p) = IF p.expected # None /\ p.expected[1].object THEN OrElse(p.expected[1].map, d) ELSE d
  BY DEF Expected, build_expected_with_defaults, d
<1>7. CASE p.expected # None
  <2> DEFINE e == p.expected[1].map
  <2>1. Entries(e)
    BY <1>7, InputDocuments DEF Document
  <2> HIDE DEF e
  <2>2. IsFiniteSet(DOMAIN e \cup DOMAIN d)
    BY <1>5, <2>1, FS_Union DEF Entries
  <2>3. OrElse(e, d) \in [DOMAIN e \cup DOMAIN d -> FieldValues]
    BY <1>5, <2>1 DEF OrElse, Entries
  <2>4. Entries(OrElse(e, d))
    BY <2>2, <2>3 DEF Entries
  <2> QED BY <1>5, <1>6, <2>4 DEF e, Entries
<1> QED BY <1>5, <1>6, <1>7 DEF Entries
-----------------------------------------------------------------------------
(* The invariant: what a report says is what was measured, and a tool has   *)
(* read the reports up to tool.at and nothing else.                         *)

UsageRecords ==
  {u \in [claudius_usage : {None} \cup {Some(cu) : cu \in ClaudiusUsages}, wall_clock_time : Nat, iterations : Nat] :
     u.claudius_usage = None <=> u.iterations = 0}
MetricsRecords ==
  [fields : [Sides -> [Outcomes -> Nat]], error : [Sides -> BOOLEAN],
   apply_duration_ms : [Sides -> Nat], usage : [Sides -> UsageRecords]]
BaselineResults == {None} \cup {Some(d) : d \in Baselines}

\* The metrics of the baseline's answer b to the point p.
BaselineMeasured(p, m, b) ==
  /\ m.error["baseline"] <=> b = None
  /\ m.fields["baseline"] =
       IF b = None THEN NoFields ELSE calculate_field_metrics(Expected(p), clean_baseline(b[1]))

\* The metrics of PolicyAI's output o; its keys are fields of the policies.
OutputMeasured(p, m, o) ==
  /\ m.fields["policyai"] = calculate_field_metrics(Expected(p), o)
  /\ m.error["policyai"] => o = Empty
  /\ \A k \in DOMAIN o.map : \E t \in TypesOf(p) : k \in t.fields

EvaluationReports ==
  {r \in [input : Points, metrics : MetricsRecords, output : Outputs \cup {Empty}, baseline : BaselineResults] :
     BaselineMeasured(r.input, r.metrics, r.baseline) /\ OutputMeasured(r.input, r.metrics, r.output)}

EvaluatorInv ==
  /\ pc \in {"read", "baseline", "policyai", "done", "panicked"}
  /\ pc \in {"baseline", "policyai"} => point \in Points
  /\ pc = "baseline" => metrics = NewMetrics
  /\ pc = "policyai" => /\ metrics \in MetricsRecords /\ baseline \in BaselineResults
                        /\ BaselineMeasured(point, metrics, baseline)
  /\ reports \in Seq(EvaluationReports)

\* A tool starts when the evaluator has ended, and fills its own tally.
ToolInv ==
  /\ tool \in [name : Tools \cup {"none"}, at : Nat, status : {"none", "running", "done", "Err"}]
  /\ tool.at <= Len(reports)
  /\ tool.name # "none" => pc \in {"done", "panicked"}
  /\ tool.name = "none" => tool.at = 0
  /\ tool.at = 0 => analysis = NewAnalysis /\ matrix = NewMatrix /\ usages = NewTokens
  /\ extracted \subseteq 1..tool.at
  /\ \A j \in extracted : is_regression(reports[j])

LEMMA NewMetricsType == NewMetrics \in MetricsRecords /\ NewUsage \in UsageRecords /\ NoFields \in [Outcomes -> Nat]
<1>1. NewUsage \in UsageRecords
  BY DEF NewUsage, UsageRecords
<1>2. NoFields \in [Outcomes -> Nat]
  BY DEF NoFields
<1> QED BY <1>1, <1>2 DEF NewMetrics, MetricsRecords

LEMMA UsageAfterType ==
  ASSUME NEW cu \in ClaudiusUsages, NEW ms \in Times
  PROVE  UsageAfter(cu, ms) \in UsageRecords
BY EvaluationBounds DEF UsageAfter, UsageRecords, Some, None

\* The metrics once one side is done.
SideDone(m, s, e, ms, u, f) ==
  [m EXCEPT !.error[s] = e, !.apply_duration_ms[s] = ms, !.usage[s] = u, !.fields[s] = f]

LEMMA MetricsSet ==
  ASSUME NEW m \in MetricsRecords, NEW s \in Sides, NEW e \in BOOLEAN, NEW ms \in Nat, NEW u \in UsageRecords,
         NEW f \in [Outcomes -> Nat]
  PROVE  LET n == SideDone(m, s, e, ms, u, f)
         IN /\ n \in MetricsRecords /\ n.error[s] = e /\ n.fields[s] = f
            /\ \A z \in Sides \ {s} : n.error[z] = m.error[z] /\ n.fields[z] = m.fields[z]
BY DEF MetricsRecords, SideDone

LEMMA EvaluatorInit == Init => EvaluatorInv /\ ToolInv
<1> SUFFICES ASSUME Init PROVE EvaluatorInv /\ ToolInv
  OBVIOUS
<1>1. reports = <<>> /\ Len(reports) = 0 /\ reports \in Seq(EvaluationReports)
  BY DEF Init
<1> QED BY <1>1 DEF Init, EvaluatorInv, ToolInv

\* What the baseline answers has finitely many entries, and so has it without the rule numbers.
LEMMA CleanBounded ==
  ASSUME NEW d \in Baselines
  PROVE  Bounded(clean_baseline(d))
<1>1. IsFiniteSet(DOMAIN d.map)
  BY InputDocuments DEF Document, Entries
<1>2. IsFiniteSet(DOMAIN d.map \ {RuleNumbers})
  BY <1>1, FS_Difference
<1>3. clean_baseline(d) = d \/ DOMAIN clean_baseline(d).map = DOMAIN d.map \ {RuleNumbers}
  BY DEF clean_baseline, Object
<1> QED BY <1>1, <1>2, <1>3 DEF Bounded

LEMMA OutputBounded ==
  ASSUME NEW o \in Outputs \cup {Empty}
  PROVE  Bounded(o) /\ o.object /\ (o = Empty => DOMAIN o.map = {})
<1>1. DOMAIN Empty.map = {} /\ Empty.object
  BY DEF Empty, Object
<1>2. Bounded(Empty)
  BY <1>1, FS_EmptySet DEF Bounded
<1>3. o \in Outputs => Bounded(o) /\ o.object
  BY InputDocuments DEF Document, Entries, Bounded
<1> QED BY <1>1, <1>2, <1>3

LEMMA BaselineKeeps ==
  ASSUME EvaluatorInv, ToolInv, NEW v \in BaselineResults, NEW u \in UsageRecords, NEW ms \in Times, Baseline(v, u, ms)
  PROVE  EvaluatorInv' /\ ToolInv'
<1> DEFINE f == IF v = None THEN NoFields ELSE calculate_field_metrics(Expected(point), clean_baseline(v[1]))
<1>1. point \in Points /\ metrics = NewMetrics /\ pc = "baseline" /\ ms \in Nat /\ "baseline" \in Sides
  BY EvaluationBounds DEF EvaluatorInv, Baseline, Sides
<1>2. metrics \in MetricsRecords /\ metrics.fields["baseline"] = NoFields
  BY <1>1, NewMetricsType DEF NewMetrics
<1>3. f \in [Outcomes -> Nat]
  <2>1. CASE v = None
    BY <2>1, NewMetricsType
  <2>2. CASE v # None
    <3>1. PICK d \in Baselines : v = Some(d)
      BY <2>2 DEF BaselineResults
    <3>2. v[1] = d
      BY <3>1 DEF Some
    <3> QED BY <1>1, <2>2, <3>2, CleanBounded, ExpectedFinite, FieldsCounted
  <2> QED BY <2>1, <2>2
<1>4. metrics' = SideDone(metrics, "baseline", v = None, ms, u, f)
  BY <1>2 DEF Baseline, SideDone
<1>5. f = IF v = None THEN NoFields ELSE calculate_field_metrics(Expected(point), clean_baseline(v[1]))
  OBVIOUS
<1> HIDE DEF f
<1>6. metrics' \in MetricsRecords /\ (metrics'.error["baseline"] <=> v = None) /\ metrics'.fields["baseline"] = f
  <2> DEFINE e == v = None
  <2>1. e \in BOOLEAN /\ metrics' = SideDone(metrics, "baseline", e, ms, u, f)
    BY <1>4
  <2>2. e <=> v = None
    OBVIOUS
  <2> HIDE DEF e
  <2>3. metrics' \in MetricsRecords /\ metrics'.error["baseline"] = e /\ metrics'.fields["baseline"] = f
    BY <1>1, <1>2, <1>3, <2>1, MetricsSet
  <2> QED BY <2>2, <2>3
<1>7. /\ pc' = "policyai" /\ baseline' = v /\ point' = point /\ reports' = reports
      /\ tool' = tool /\ args' = args /\ analysis' = analysis /\ matrix' = matrix /\ usages' = usages
      /\ extracted' = extracted
  BY DEF Baseline, toolVars
<1>8. BaselineMeasured(point', metrics', baseline')
  BY <1>5, <1>6, <1>7 DEF BaselineMeasured
<1>9. EvaluatorInv'
  BY <1>1, <1>6, <1>7, <1>8 DEF EvaluatorInv
<1>10. ToolInv'
  BY <1>1, <1>7 DEF ToolInv, is_regression
<1> QED BY <1>9, <1>10

LEMMA PolicyAIKeeps ==
  ASSUME EvaluatorInv, ToolInv, NEW output \in Outputs \cup {Empty}, NEW failed \in BOOLEAN, failed => output = Empty,
         \A k \in DOMAIN output.map : \E t \in TypesOf(point) : k \in t.fields,
         NEW u \in UsageRecords, NEW ms \in Times, PolicyAI(output, failed, u, ms)
  PROVE  EvaluatorInv' /\ ToolInv'
<1> DEFINE f == calculate_field_metrics(Expected(point), output)
           r == [input |-> point, metrics |-> metrics', output |-> output, baseline |-> baseline]
<1>1. /\ point \in Points /\ metrics \in MetricsRecords /\ pc = "policyai" /\ ms \in Nat /\ "policyai" \in Sides
      /\ "baseline" \in Sides \ {"policyai"} /\ baseline \in BaselineResults
      /\ BaselineMeasured(point, metrics, baseline) /\ reports \in Seq(EvaluationReports)
  BY EvaluationBounds DEF EvaluatorInv, PolicyAI, Sides
<1>2. f \in [Outcomes -> Nat]
  BY <1>1, OutputBounded, ExpectedFinite, FieldsCounted
<1>3. metrics' = SideDone(metrics, "policyai", failed, ms, u, f)
  BY DEF PolicyAI, SideDone
<1>4. f = calculate_field_metrics(Expected(point), output)
  OBVIOUS
<1>5. reports' = Append(reports, r)
  BY DEF PolicyAI
<1>6. /\ pc' = "read"
      /\ tool' = tool /\ args' = args /\ analysis' = analysis /\ matrix' = matrix /\ usages' = usages
      /\ extracted' = extracted
  BY DEF PolicyAI, toolVars
<1> HIDE DEF f
<1>7. /\ metrics' \in MetricsRecords /\ metrics'.error["policyai"] = failed /\ metrics'.fields["policyai"] = f
      /\ metrics'.error["baseline"] = metrics.error["baseline"]
      /\ metrics'.fields["baseline"] = metrics.fields["baseline"]
  BY <1>1, <1>2, <1>3, MetricsSet
<1>8. r \in EvaluationReports
  <2>1. BaselineMeasured(point, metrics', baseline)
    BY <1>1, <1>7 DEF BaselineMeasured
  <2>2. OutputMeasured(point, metrics', output)
    BY <1>4, <1>7 DEF OutputMeasured
  <2> QED BY <1>1, <1>7, <2>1, <2>2 DEF EvaluationReports
<1> HIDE DEF r
<1>9. reports' \in Seq(EvaluationReports) /\ Len(reports') = Len(reports) + 1 /\ Len(reports) \in Nat
  BY <1>1, <1>5, <1>8
<1>10. tool.name = "none" /\ tool.at = 0 /\ extracted = {}
  <2>1. tool.name = "none" /\ tool.at = 0
    BY <1>1 DEF ToolInv
  <2>2. 1..0 = {}
    OBVIOUS
  <2> QED BY <2>1, <2>2 DEF ToolInv
<1>11. EvaluatorInv'
  BY <1>6, <1>9 DEF EvaluatorInv
<1>12. ToolInv'
  BY <1>6, <1>9, <1>10 DEF ToolInv
<1> QED BY <1>11, <1>12

\* The evaluator's steps leave a tool alone, and none has started yet.
LEMMA EvaluateKeeps ==
  ASSUME EvaluatorInv, ToolInv, Evaluate
  PROVE  EvaluatorInv' /\ ToolInv'
<1>1. ASSUME UNCHANGED <<reports, toolVars>>, pc \notin {"done", "panicked"} PROVE ToolInv'
  BY <1>1 DEF ToolInv, toolVars, is_regression
<1>2. ASSUME NEW p \in Points, ReadPoint(p) PROVE EvaluatorInv' /\ ToolInv'
  BY <1>1, <1>2 DEF ReadPoint, EvaluatorInv
<1>3. CASE SkipLine
  BY <1>1, <1>3 DEF SkipLine, EvaluatorInv
<1>4. CASE EndOfInput
  BY <1>1, <1>4 DEF EndOfInput, EvaluatorInv
<1>5. CASE BaselineFails
  <2>1. None \in BaselineResults
    BY DEF BaselineResults
  <2> QED BY <1>5, <2>1, NewMetricsType, BaselineKeeps DEF BaselineFails
<1>6. CASE BaselineAnswers
  <2>1. PICK doc \in Baselines, cu \in ClaudiusUsages, ms \in Times : Baseline(Some(doc), UsageAfter(cu, ms), ms)
    BY <1>6 DEF BaselineAnswers
  <2>2. Some(doc) \in BaselineResults
    BY DEF BaselineResults
  <2> QED BY <2>1, <2>2, UsageAfterType, BaselineKeeps
<1>7. CASE BaselinePanics
  BY <1>1, <1>7 DEF BaselinePanics, EvaluatorInv
<1>8. CASE PolicyAIAnswers
  <2>1. PICK doc \in Outputs, cu \in ClaudiusUsages, ms \in Times :
          Possible(doc) /\ PolicyAI(doc, FALSE, UsageAfter(cu, ms), ms)
    BY <1>8 DEF PolicyAIAnswers
  <2>2. \A k \in DOMAIN doc.map : \E t \in TypesOf(point) : k \in t.fields
    BY <2>1 DEF Possible
  <2> QED BY <2>1, <2>2, UsageAfterType, PolicyAIKeeps
<1>9. CASE PolicyAIFails
  <2>1. PICK ms \in Times, u \in UsagesSoFar : PolicyAI(Empty, TRUE, u, ms)
    BY <1>9 DEF PolicyAIFails
  <2>2. u \in UsageRecords
    BY NewMetricsType, UsageAfterType DEF UsagesSoFar
  <2>3. Empty \in Outputs \cup {Empty} /\ DOMAIN Empty.map = {}
    BY OutputBounded
  <2> QED BY <2>1, <2>2, <2>3, PolicyAIKeeps
<1> QED BY <1>2, <1>3, <1>4, <1>5, <1>6, <1>7, <1>8, <1>9 DEF Evaluate

\* A tool leaves the reports alone.
ToolStep ==
  \/ \E name \in Tools, stdin, bad \in BOOLEAN : StartTool(name, stdin, bad)
  \/ AddToRegressionReport \/ AddToTokenUsageReport \/ ProcessLine \/ FinishTool

LEMMA ToolKeeps ==
  ASSUME EvaluatorInv, ToolInv, ToolStep
  PROVE  EvaluatorInv' /\ ToolInv'
<1>0. Len(reports) \in Nat /\ tool.at \in Nat
  BY DEF EvaluatorInv, ToolInv
<1>1. UNCHANGED evaluatorVars
  BY DEF ToolStep, StartTool, AddToRegressionReport, AddToTokenUsageReport, ProcessLine, FinishTool
<1>2. EvaluatorInv'
  BY <1>1 DEF EvaluatorInv, evaluatorVars
<1>3. ASSUME NEW name \in Tools, NEW stdin \in BOOLEAN, NEW bad \in BOOLEAN, StartTool(name, stdin, bad) PROVE ToolInv'
  <2>1. tool.at = 0 /\ extracted = {}
    <3>1. tool.at = 0
      BY <1>3 DEF StartTool, ToolInv
    <3>2. 1..0 = {}
      OBVIOUS
    <3> QED BY <3>1, <3>2 DEF ToolInv
  <2> QED BY <1>0, <1>1, <1>3, <2>1 DEF StartTool, ToolInv, evaluatorVars
<1>4. ASSUME NEW name \in Tools, Running(name), tool' = [tool EXCEPT !.at = @ + 1]
      PROVE  /\ tool' \in [name : Tools \cup {"none"}, at : Nat, status : {"none", "running", "done", "Err"}]
             /\ tool'.at = tool.at + 1 /\ tool'.name = tool.name /\ tool'.at <= Len(reports)
             /\ tool.name # "none" /\ tool'.at # 0 /\ 1..tool.at \subseteq 1..tool'.at /\ tool.at + 1 \in 1..tool'.at
  <2>1. tool.at < Len(reports) /\ tool.name = name /\ name # "none"
    BY <1>4 DEF Running, Tools
  <2>2. tool'.at = tool.at + 1 /\ tool'.name = tool.name
    BY <1>4 DEF ToolInv
  <2>3. tool' \in [name : Tools \cup {"none"}, at : Nat, status : {"none", "running", "done", "Err"}]
    BY <1>0, <1>4 DEF ToolInv
  <2> QED BY <1>0, <2>1, <2>2, <2>3
<1>11. ASSUME UNCHANGED <<extracted, args>> PROVE \A j \in extracted' : is_regression(reports[j])'
  BY <1>1, <1>11 DEF evaluatorVars, is_regression, ToolInv
<1>12. pc' = pc /\ reports' = reports
  BY <1>1 DEF evaluatorVars
<1>5. CASE AddToRegressionReport
  <2>1. UNCHANGED <<extracted, args>> /\ tool' = [tool EXCEPT !.at = @ + 1] /\ Running("regression-report")
    BY <1>5 DEF AddToRegressionReport
  <2>2. "regression-report" \in Tools
    BY DEF Tools
  <2> QED BY <1>2, <1>4, <1>11, <1>12, <2>1, <2>2 DEF ToolInv
<1>6. CASE AddToTokenUsageReport
  <2>1. UNCHANGED <<extracted, args>> /\ tool' = [tool EXCEPT !.at = @ + 1] /\ Running("token-usage-report")
    BY <1>6 DEF AddToTokenUsageReport
  <2>2. "token-usage-report" \in Tools
    BY DEF Tools
  <2> QED BY <1>2, <1>4, <1>11, <1>12, <2>1, <2>2 DEF ToolInv
<1>7. CASE ProcessLine
  <2>1. /\ tool' \in [name : Tools \cup {"none"}, at : Nat, status : {"none", "running", "done", "Err"}]
        /\ tool'.at = tool.at + 1 /\ tool'.name = tool.name /\ tool'.at <= Len(reports)
        /\ tool.name # "none" /\ tool'.at # 0 /\ 1..tool.at \subseteq 1..tool'.at /\ tool.at + 1 \in 1..tool'.at
    BY <1>4, <1>7 DEF ProcessLine, Tools
  <2>2. \A j \in extracted' : j \in extracted \/ (j = tool.at + 1 /\ is_regression(reports[j]))
    BY <1>7 DEF ProcessLine, NextReport
  <2>3. \A j \in extracted' : is_regression(reports[j])
    BY <2>2 DEF ToolInv
  <2>4. reports' = reports /\ args' = args /\ pc' = pc
    BY <1>1, <1>7 DEF ProcessLine, evaluatorVars
  <2>5. \A j : is_regression(reports[j])' <=> is_regression(reports[j])
    BY <2>4 DEF is_regression
  <2>6. extracted' \subseteq 1..tool'.at
    BY <2>1, <2>2 DEF ToolInv
  <2> QED BY <1>2, <2>1, <2>3, <2>4, <2>5, <2>6 DEF ToolInv
<1>8. CASE FinishTool
  BY <1>2, <1>8, <1>11, <1>12 DEF FinishTool, ToolInv
<1> QED BY <1>2, <1>3, <1>5, <1>6, <1>7, <1>8 DEF ToolStep

LEMMA EvaluationStep == EvaluatorInv /\ ToolInv /\ [Next]_vars => EvaluatorInv' /\ ToolInv'
<1> SUFFICES ASSUME EvaluatorInv, ToolInv, [Next]_vars PROVE EvaluatorInv' /\ ToolInv'
  OBVIOUS
<1>1. CASE UNCHANGED vars
  BY <1>1 DEF vars, evaluatorVars, toolVars, EvaluatorInv, ToolInv, is_regression
<1>2. CASE Evaluate
  BY <1>2, EvaluateKeeps
<1>3. CASE ToolStep
  BY <1>3, ToolKeeps
<1> QED BY <1>1, <1>2, <1>3 DEF Next, ToolStep

\* The reports hold what was measured of a point and of what the two sides answered, and a tool
\* extracts only reports it has read and found to be regressions.
THEOREM EvaluationInvariant == Spec => [](EvaluatorInv /\ ToolInv)
BY EvaluatorInit, EvaluationStep, PTL DEF Spec
-----------------------------------------------------------------------------
(* policyai-extract-regressions                                             *)

LEMMA ScalarReflexive ==
  ASSUME NEW x \in Scalars, NEW flags
  PROVE  ScalarsMatch(x, x, flags)
<1>1. evaluate_values_match(x, x)
  BY DEF evaluate_values_match
<1> QED BY <1>1, ExtractionIsLenient

\* The same for fields that may be arrays, which the evaluator compares with ==.
LEMMA FieldsLenient ==
  ASSUME NEW e \in FieldValues, NEW a \in FieldValues, NEW flags, evaluate_values_match(e, a)
  PROVE  FieldsMatch(a, e, flags)
<1>1. \A x \in Scalars : x[1] # "array"
  BY DEF Scalars
<1>2. \A x \in FieldValues : (x[1] = "array" => x[2] \in Seq(Scalars)) /\ (x[1] # "array" => x \in Scalars)
  BY <1>1 DEF FieldValues
<1>3. CASE a[1] = "array" /\ e[1] = "array"
  <2> DEFINE s == a[2]
  <2>1. s \in Seq(Scalars) /\ e = a
    BY <1>2, <1>3 DEF evaluate_values_match
  <2>2. FieldsMatch(a, e, flags) <=>
          IF flags.ignore_array_order THEN arrays_match_unordered(s, s, flags) ELSE arrays_match_ordered(s, s, flags)
    BY <1>3, <2>1 DEF FieldsMatch
  <2> HIDE DEF s
  <2>3. arrays_match_unordered(s, s, flags)
    BY <2>1, ScalarReflexive, UnorderedReflexive
  <2>4. arrays_match_ordered(s, s, flags)
    <3>1. \A j \in DOMAIN s : s[j] \in Scalars
      BY <2>1
    <3> QED BY <3>1, ScalarReflexive DEF arrays_match_ordered
  <2> QED BY <2>2, <2>3, <2>4
<1>4. CASE ~(a[1] = "array" /\ e[1] = "array")
  <2>1. a \in Scalars /\ e \in Scalars
    BY <1>2, <1>4 DEF evaluate_values_match
  <2>2. ScalarsMatch(a, e, flags)
    BY <2>1, ExtractionIsLenient
  <2> QED BY <1>4, <2>2 DEF FieldsMatch
<1> QED BY <1>3, <1>4

\* values_match_recursive accepts an output in which the metrics find no fault.
LEMMA FaultlessMatches ==
  ASSUME NEW r \in EvaluationReports, SpellsOutDefaults(r.input), Perfect(r, "policyai"),
         r.metrics.fields["policyai"].extra = 0, NEW flags,
         \A t \in TypesOf(r.input) : RuleNumbers \notin t.fields
  PROVE  values_match_recursive(r.output, r.input.expected[1], flags)
<1> DEFINE p == r.input
           o == r.output
           e == p.expected[1]
           m == calculate_field_metrics(Expected(p), o)
<1>1. /\ p \in Points /\ o \in Outputs \cup {Empty} /\ OutputMeasured(p, r.metrics, o)
  BY DEF EvaluationReports
<1>2. r.metrics.fields["policyai"] = m
  BY <1>1 DEF OutputMeasured
<1>3. m.wrong = 0 /\ m.missing = 0 /\ m.extra = 0
  BY <1>2 DEF Perfect
<1>4. p.expected # None /\ e.object /\ DOMAIN Expected(p) = DOMAIN e.map /\ Entries(e.map)
  BY <1>1, InputDocuments DEF SpellsOutDefaults, Document
<1>5. \A k \in DOMAIN o.map : \E t \in TypesOf(p) : k \in t.fields
  BY <1>1 DEF OutputMeasured
<1>6. \A t \in TypesOf(p) : RuleNumbers \notin t.fields
  OBVIOUS
<1> HIDE DEF p, o, e
<1>7. o.object /\ Bounded(o) /\ o.map \in [DOMAIN o.map -> FieldValues]
  <2>1. Empty.map \in [{} -> FieldValues] /\ DOMAIN Empty.map = {}
    BY DEF Empty, Object
  <2>2. o \in Outputs => o.map \in [DOMAIN o.map -> FieldValues]
    BY InputDocuments DEF Document, Entries
  <2> QED BY <1>1, <2>1, <2>2, OutputBounded
<1>8. /\ \A k \in DOMAIN Expected(p) : k \in DOMAIN o.map /\ evaluate_values_match(Expected(p)[k], o.map[k])
      /\ DOMAIN o.map \subseteq DOMAIN Expected(p) \cup {RuleNumbers}
  BY <1>1, <1>3, <1>7, ExpectedFinite, FieldsCounted
<1>9. DOMAIN o.map = DOMAIN e.map
  BY <1>4, <1>5, <1>6, <1>8
<1>10. \A k \in DOMAIN e.map : Expected(p)[k] = e.map[k]
  BY <1>4 DEF Expected, build_expected_with_defaults, OrElse, e
<1>11. ASSUME NEW k \in DOMAIN o.map PROVE FieldsMatch(o.map[k], e.map[k], flags)
  <2>1. evaluate_values_match(e.map[k], o.map[k])
    BY <1>4, <1>8, <1>9, <1>10
  <2>2. e.map[k] \in FieldValues /\ o.map[k] \in FieldValues
    BY <1>4, <1>7, <1>9 DEF Entries
  <2> QED BY <2>1, <2>2, FieldsLenient
<1>12. values_match_recursive(o, e, flags)
  BY <1>4, <1>7, <1>9, <1>11 DEF values_match_recursive
<1> QED BY <1>12 DEF o, e, p

\* What policyai-extract-regressions prints is faulted by the metrics of policyai-evaluate-policies
\* too, for every file and all flags, when the expected output spells out the defaults and no field
\* is called __rule_numbers__, which the metrics do not count as extra.
THEOREM EvaluationRegressionsHaveFaults ==
  ASSUME \A p \in Points : \A t \in TypesOf(p) : RuleNumbers \notin t.fields
  PROVE  Spec => []RegressionsHaveFaults
<1>1. EvaluatorInv /\ ToolInv => RegressionsHaveFaults
  <2> SUFFICES ASSUME EvaluatorInv, ToolInv, NEW j \in extracted, SpellsOutDefaults(reports[j].input),
                      Perfect(reports[j], "policyai"), ~(reports[j].metrics.fields["policyai"].extra > 0)
               PROVE  FALSE
    BY DEF RegressionsHaveFaults
  <2> DEFINE r == reports[j]
  <2>1. j \in 1..Len(reports) /\ is_regression(r)
    BY DEF ToolInv, EvaluatorInv
  <2>2. r \in EvaluationReports
    BY <2>1 DEF EvaluatorInv
  <2>3. SpellsOutDefaults(r.input) /\ Perfect(r, "policyai") /\ ~(r.metrics.fields["policyai"].extra > 0)
    OBVIOUS
  <2> HIDE DEF r
  <2>4. r.metrics.fields["policyai"] \in [Outcomes -> Nat] /\ r.input \in Points
    BY <2>2 DEF EvaluationReports, MetricsRecords, Sides
  <2>5. r.metrics.fields["policyai"].extra = 0
    BY <2>3, <2>4 DEF Outcomes
  <2>6. values_match_recursive(r.output, r.input.expected[1], args)
    BY <2>2, <2>3, <2>4, <2>5, FaultlessMatches
  <2> QED BY <2>1, <2>6 DEF is_regression
<1> QED BY <1>1, EvaluationInvariant, PTL

\* Strings that match a common one match one another's partners.
LEMMA StringsAlike ==
  ASSUME NEW x \in {"string"} \X DOMAIN Normal, NEW y \in {"string"} \X DOMAIN Normal,
         NEW u \in Scalars, NEW v \in Scalars, NEW flags,
         ScalarsMatch(x, u, flags), ScalarsMatch(x, v, flags), ScalarsMatch(y, u, flags)
  PROVE  ScalarsMatch(y, v, flags)
BY DEF ScalarsMatch, Scalars, normalize_whitespace

\* With ignore_array_order, an output's array is accepted exactly when it is a rearrangement of the
\* expected one up to whitespace, for arrays of any length: the loop of arrays_match_unordered,
\* which never goes back on a choice, needs not to.
THEOREM EvaluationUnorderedIsRearranged == Spec => []UnorderedIsRearranged
<1>1. EvaluatorInv /\ ToolInv => UnorderedIsRearranged
  <2> SUFFICES ASSUME EvaluatorInv, ToolInv, NEW r \in {reports[j] : j \in DOMAIN reports},
                      NEW k \in DOMAIN r.output.map \cap DOMAIN Expected(r.input),
                      r.output.map[k][1] = "array" /\ Expected(r.input)[k][1] = "array"
               PROVE  LET a == r.output.map[k]
                          b == Expected(r.input)[k]
                          n == Len(a[2])
                      IN (arrays_match_unordered(a[2], b[2], args)
                            <=> n = Len(b[2]) /\ \E q \in [1..n -> 1..n] :
                                  IsPermutation(q, n) /\ \A j \in 1..n : ScalarsMatch(a[2][j], b[2][q[j]], args))
    BY Zenon DEF UnorderedIsRearranged
  <2> DEFINE a == r.output.map[k][2]
             b == Expected(r.input)[k][2]
             n == Len(a)
  <2>1. r \in EvaluationReports
    BY DEF EvaluatorInv
  <2>2. r.input \in Points /\ r.output \in Outputs \cup {Empty}
    BY <2>1 DEF EvaluationReports
  <2>3. r.output \in Outputs
    BY <2>2, OutputBounded
  <2>4. a \in Seq({"string"} \X DOMAIN Normal)
    BY <2>3, InputDocuments
  <2>5. Expected(r.input)[k] \in FieldValues
    BY <2>2, ExpectedFinite DEF Entries
  <2>6. b \in Seq(Scalars)
    BY <2>5 DEF FieldValues, Scalars
  <2> HIDE DEF a, b
  <2>7. {"string"} \X DOMAIN Normal \subseteq Scalars
    BY DEF Scalars
  <2>8. /\ a \in Seq(Scalars) /\ n \in Nat
        /\ \A j \in 1..n : a[j] \in {"string"} \X DOMAIN Normal
    BY <2>4, <2>7
  <2>9. arrays_match_unordered(a, b, args) => n = Len(b) /\ \E q : Rearranges(q, a, b, args)
    BY <2>6, <2>8, FoundIsRearrangement
  <2>10. ASSUME n = Len(b), NEW q, Rearranges(q, a, b, args) PROVE arrays_match_unordered(a, b, args)
    <3>1. \A l, j \in 1..Len(a), u, v \in Scalars :
            ScalarsMatch(a[l], u, args) /\ ScalarsMatch(a[l], v, args) /\ ScalarsMatch(a[j], u, args)
              => ScalarsMatch(a[j], v, args)
      BY <2>8, StringsAlike
    <3> QED BY <2>6, <2>8, <2>10, <3>1, RearrangementIsFound
  <2>11. arrays_match_unordered(a, b, args) <=> n = Len(b) /\ \E q : Rearranges(q, a, b, args)
    BY <2>9, <2>10
  <2> QED BY <2>11 DEF Rearranges, a, b
<1> QED BY <1>1, EvaluationInvariant, PTL
-----------------------------------------------------------------------------
(* The tallies of policyai-regression-report.                               *)

FieldCount(r) == Cardinality(DOMAIN Expected(r.input))
FieldSum(rs, S) == MapThenSumSet(LAMBDA j : Cardinality(DOMAIN Expected(rs[j].input)), S)

LEMMA FieldCountNat ==
  ASSUME NEW r \in EvaluationReports
  PROVE  FieldCount(r) \in Nat
<1>1. r.input \in Points
  BY DEF EvaluationReports
<1>2. IsFiniteSet(DOMAIN Expected(r.input))
  BY <1>1, ExpectedFinite
<1> QED BY <1>2, FS_CardinalityType DEF FieldCount

LEMMA FieldSumIs ==
  ASSUME NEW rs \in Seq(EvaluationReports), NEW F, F = [j \in 1..Len(rs) |-> FieldCount(rs[j])],
         NEW g \in [SUBSET (1..Len(rs)) -> Nat], SumsOver(g, F, Len(rs)), NEW S \in SUBSET (1..Len(rs))
  PROVE  FieldSum(rs, S) = g[S]
<1> DEFINE N == Len(rs)
           pick == [t \in SUBSET S |-> CHOOSE x \in t : TRUE]
           Body(i) == [t \in SUBSET S |->
                         IF t = {} THEN 0
                         ELSE FieldCount(rs[CHOOSE x \in t : TRUE]) + i[t \ {CHOOSE x \in t : TRUE}]]
           it == CHOOSE i : i = Body(i)
           gs == [t \in SUBSET S |-> g[t]]
<1>1. N \in Nat /\ F \in [1..N -> Nat] /\ \A j \in 1..N : F[j] = FieldCount(rs[j])
  BY FieldCountNat
<1>2. FieldSum(rs, S) = it[S]
  BY DEF FieldSum, MapThenSumSet, MapThenFoldSet, FieldCount
<1>3. \A t \in SUBSET S : t # {} => (CHOOSE x \in t : TRUE) \in t
  OBVIOUS
<1>4. \A t \in SUBSET S : t # {} => (CHOOSE x \in t : TRUE) \in 1..N
  BY <1>3
<1>5. gs = Body(gs)
  <2>1. ASSUME NEW t \in SUBSET S, t # {}, NEW x \in t, x = (CHOOSE z \in t : TRUE)
        PROVE  gs[t] = FieldCount(rs[x]) + gs[t \ {x}]
    <3>1. t \in SUBSET (1..N) /\ t \ {x} \in SUBSET S /\ x \in 1..N
      BY <2>1
    <3>2. g[t] = F[x] + g[t \ {x}]
      BY <2>1, <3>1 DEF SumsOver
    <3> QED BY <1>1, <3>1, <3>2
  <2>2. gs[{}] = 0
    BY DEF SumsOver
  <2>3. \A t \in SUBSET S : t # {} =>
          gs[t] = FieldCount(rs[CHOOSE x \in t : TRUE]) + gs[t \ {CHOOSE x \in t : TRUE}]
    BY <1>3, <2>1
  <2> QED BY <2>2, <2>3
<1>6. it = Body(it)
  <2> HIDE DEF Body
  <2> QED BY <1>5, Zenon
<1> HIDE DEF it
<1>7. \A t \in SUBSET S : t # {} => pick[t] \in t
  BY <1>3
<1>8. \A t \in SUBSET S : it[t] = IF t = {} THEN 0 ELSE F[pick[t]] + it[t \ {pick[t]}]
  BY <1>1, <1>4, <1>6
<1> HIDE DEF pick, N
<1>9. it[S] = g[S]
  <2>1. SumsByPicking(it, F, pick, S)
    BY <1>7, <1>8 DEF SumsByPicking
  <2> QED BY <1>1, <2>1, SumUnique DEF N
<1> QED BY <1>2, <1>9

LEMMA FieldSumAdd ==
  ASSUME NEW rs \in Seq(EvaluationReports)
  PROVE  /\ FieldSum(rs, {}) = 0
         /\ \A S \in SUBSET (1..Len(rs)) : FieldSum(rs, S) \in Nat
         /\ \A S \in SUBSET (1..Len(rs)) : \A x \in 1..Len(rs) :
              x \notin S => FieldSum(rs, S \cup {x}) = FieldSum(rs, S) + FieldCount(rs[x])
<1> DEFINE N == Len(rs)
           F == [j \in 1..N |-> FieldCount(rs[j])]
<1>1. N \in Nat /\ F \in [1..N -> Nat] /\ \A j \in 1..N : F[j] = FieldCount(rs[j])
  BY FieldCountNat
<1>2. F = [j \in 1..N |-> FieldCount(rs[j])]
  OBVIOUS
<1> HIDE DEF F
<1>3. PICK g \in [SUBSET (1..N) -> Nat] : SumsOver(g, F, N)
  BY <1>1, SumExists
<1>4. \A S \in SUBSET (1..N) : FieldSum(rs, S) = g[S]
  BY <1>2, <1>3, FieldSumIs
<1>5. ASSUME NEW S \in SUBSET (1..N), NEW x \in 1..N, x \notin S
      PROVE  FieldSum(rs, S \cup {x}) = FieldSum(rs, S) + FieldCount(rs[x])
  <2> DEFINE t == S \cup {x}
  <2>1. t \in SUBSET (1..N) /\ x \in t /\ t \ {x} = S
    BY <1>5
  <2> HIDE DEF t
  <2>2. g[t] = F[x] + g[S]
    BY <1>3, <2>1 DEF SumsOver
  <2>3. FieldSum(rs, t) = g[t] /\ FieldSum(rs, S) = g[S] /\ g[S] \in Nat /\ F[x] \in Nat
    BY <1>1, <1>3, <1>4, <2>1
  <2> QED BY <1>1, <2>2, <2>3 DEF t
<1>6. {} \in SUBSET (1..N) /\ g[{}] = 0
  BY <1>3 DEF SumsOver
<1>7. FieldSum(rs, {}) = 0
  BY <1>4, <1>6
<1> QED BY <1>3, <1>4, <1>5, <1>7

AnalysisRecords ==
  [total_reports : Nat, total : [Sides -> [Outcomes -> Nat]], errors : [Sides -> Nat], duration_ms : [Sides -> Nat]]

Failed(rs, n, s) == {j \in 1..n : rs[j].metrics.error[s]}

\* What the analysis of the first n reports holds.
Tallied(a, rs, n) ==
  /\ a \in AnalysisRecords /\ a.total_reports = n /\ \A s \in Sides : a.errors[s] <= n
  /\ a.total["policyai"].matched + a.total["policyai"].wrong + a.total["policyai"].missing = FieldSum(rs, 1..n)
  /\ a.total["baseline"].matched + a.total["baseline"].wrong + a.total["baseline"].missing
       = FieldSum(rs, 1..n \ Failed(rs, n, "baseline"))
  /\ a.total["policyai"].missing >= FieldSum(rs, Failed(rs, n, "policyai"))

LEMMA TallyStart ==
  ASSUME NEW rs \in Seq(EvaluationReports)
  PROVE  Tallied(NewAnalysis, rs, 0)
<1>1. 1..0 = {} /\ Failed(rs, 0, "baseline") = {} /\ Failed(rs, 0, "policyai") = {} /\ (1..0) \ {} = {}
  BY DEF Failed
<1>2. /\ FieldSum(rs, 1..0) = 0 /\ FieldSum(rs, 1..0 \ Failed(rs, 0, "baseline")) = 0
      /\ FieldSum(rs, Failed(rs, 0, "policyai")) = 0
  <2>1. FieldSum(rs, {}) = 0
    BY FieldSumAdd
  <2> QED BY <1>1, <2>1, Zenon
<1>3. NewAnalysis \in AnalysisRecords
  BY DEF NewAnalysis, AnalysisRecords
<1>4. \A s \in Sides, o \in Outcomes : NewAnalysis.total[s][o] = 0 /\ NewAnalysis.errors[s] = 0
  BY DEF NewAnalysis
<1>5. NewAnalysis.total_reports = 0
  BY DEF NewAnalysis
<1>6. \A s \in Sides :
        NewAnalysis.total[s].matched = 0 /\ NewAnalysis.total[s].wrong = 0 /\ NewAnalysis.total[s].missing = 0
  BY DEF NewAnalysis, Outcomes
<1>7. "policyai" \in Sides /\ "baseline" \in Sides /\ "matched" \in Outcomes
  BY DEF Sides, Outcomes
<1> QED BY <1>2, <1>3, <1>4, <1>5, <1>6, <1>7 DEF Tallied

\* The metrics of a report: the expected fields are accounted for, or the side failed.
LEMMA ReportCounts ==
  ASSUME NEW r \in EvaluationReports
  PROVE  LET p == r.metrics.fields["policyai"]
             b == r.metrics.fields["baseline"]
         IN /\ p \in [Outcomes -> Nat] /\ b \in [Outcomes -> Nat]
            /\ p.matched + p.wrong + p.missing = FieldCount(r)
            /\ r.metrics.error["policyai"] => p.matched = 0 /\ p.missing = FieldCount(r)
            /\ IF r.metrics.error["baseline"] THEN b = NoFields
               ELSE b.matched + b.wrong + b.missing = FieldCount(r)
<1> DEFINE m == r.metrics
           e == Expected(r.input)
<1>1. /\ r.input \in Points /\ m \in MetricsRecords /\ r.output \in Outputs \cup {Empty}
      /\ r.baseline \in BaselineResults
      /\ BaselineMeasured(r.input, m, r.baseline) /\ OutputMeasured(r.input, m, r.output)
  BY DEF EvaluationReports
<1>2. IsFiniteSet(DOMAIN e) /\ FieldCount(r) = Cardinality(DOMAIN e)
  BY <1>1, ExpectedFinite DEF FieldCount
<1>3. m.fields["policyai"] = calculate_field_metrics(e, r.output) /\ (m.error["policyai"] => r.output = Empty)
  BY <1>1 DEF OutputMeasured
<1>4. /\ m.error["baseline"] <=> r.baseline = None
      /\ m.fields["baseline"] =
           IF r.baseline = None THEN NoFields ELSE calculate_field_metrics(e, clean_baseline(r.baseline[1]))
  BY <1>1 DEF BaselineMeasured
<1>5. r.baseline # None => Bounded(clean_baseline(r.baseline[1]))
  <2> SUFFICES ASSUME r.baseline # None PROVE Bounded(clean_baseline(r.baseline[1]))
    OBVIOUS
  <2>1. PICK d \in Baselines : r.baseline = Some(d)
    BY <1>1 DEF BaselineResults
  <2>2. r.baseline[1] = d
    BY <2>1 DEF Some
  <2> QED BY <2>2, CleanBounded
<1>6. Bounded(r.output) /\ (r.output = Empty => DOMAIN r.output.map = {})
  BY <1>1, OutputBounded
<1> HIDE DEF m, e
<1>7. /\ m.fields["policyai"].matched + m.fields["policyai"].wrong + m.fields["policyai"].missing = FieldCount(r)
      /\ m.error["policyai"] => m.fields["policyai"].matched = 0 /\ m.fields["policyai"].missing = FieldCount(r)
  BY <1>2, <1>3, <1>6, FieldsCounted
<1>8. IF m.error["baseline"] THEN m.fields["baseline"] = NoFields
      ELSE m.fields["baseline"].matched + m.fields["baseline"].wrong + m.fields["baseline"].missing = FieldCount(r)
  BY <1>2, <1>4, <1>5, FieldsCounted
<1>9. m.fields["policyai"] \in [Outcomes -> Nat] /\ m.fields["baseline"] \in [Outcomes -> Nat]
  BY <1>1 DEF MetricsRecords, Sides
<1> QED BY <1>7, <1>8, <1>9 DEF m

\* FieldSum over one more report, if it counts.
SumNext(rs, n, A, B, c) ==
  /\ FieldSum(rs, A) \in Nat /\ FieldCount(rs[n + 1]) \in Nat
  /\ FieldSum(rs, B) = FieldSum(rs, A) + (IF c THEN FieldCount(rs[n + 1]) ELSE 0)

LEMMA FieldSumNext ==
  ASSUME NEW rs \in Seq(EvaluationReports), NEW n \in Nat, n < Len(rs), NEW A \in SUBSET (1..n), NEW B, NEW c \in BOOLEAN,
         B = IF c THEN A \cup {n + 1} ELSE A
  PROVE  SumNext(rs, n, A, B, c)
<1>1. n + 1 \in 1..Len(rs) /\ n + 1 \notin A /\ A \in SUBSET (1..Len(rs)) /\ rs[n + 1] \in EvaluationReports
  OBVIOUS
<1>2. FieldSum(rs, A) \in Nat /\ FieldSum(rs, A \cup {n + 1}) = FieldSum(rs, A) + FieldCount(rs[n + 1])
  BY <1>1, FieldSumAdd
<1>3. FieldCount(rs[n + 1]) \in Nat
  BY <1>1, FieldCountNat
<1>4. CASE c
  <2>1. B = A \cup {n + 1}
    BY <1>4
  <2>2. FieldSum(rs, B) = FieldSum(rs, A \cup {n + 1})
    BY <2>1, Zenon
  <2> QED BY <1>2, <1>3, <1>4, <2>2 DEF SumNext
<1>5. CASE ~c
  <2>1. B = A
    BY <1>5
  <2>2. FieldSum(rs, B) = FieldSum(rs, A)
    BY <2>1, Zenon
  <2> QED BY <1>2, <1>3, <1>5, <2>2 DEF SumNext
<1> QED BY <1>4, <1>5

LEMMA RegressionAdd ==
  ASSUME NEW a \in AnalysisRecords, NEW m \in MetricsRecords
  PROVE  LET q == Regression_add_report(a, m)
         IN /\ q \in AnalysisRecords /\ q.total_reports = a.total_reports + 1
            /\ \A s \in Sides :
                 /\ q.errors[s] <= a.errors[s] + 1
                 /\ q.total[s].matched = a.total[s].matched + m.fields[s].matched
                 /\ q.total[s].wrong = a.total[s].wrong + m.fields[s].wrong
                 /\ q.total[s].missing = a.total[s].missing + m.fields[s].missing
<1> DEFINE q == Regression_add_report(a, m)
<1>1. q \in AnalysisRecords /\ q.total_reports = a.total_reports + 1
  BY DEF AnalysisRecords, MetricsRecords, Regression_add_report
<1>2. \A s \in Sides : q.errors[s] <= a.errors[s] + 1
  BY DEF AnalysisRecords, MetricsRecords, Regression_add_report
<1>3. \A s \in Sides : \A o \in Outcomes : q.total[s][o] = a.total[s][o] + m.fields[s][o]
  BY DEF Regression_add_report
<1>4. "matched" \in Outcomes /\ "wrong" \in Outcomes /\ "missing" \in Outcomes
  BY DEF Outcomes
<1>5. ASSUME NEW s \in Sides
      PROVE  /\ q.total[s]["matched"] = a.total[s]["matched"] + m.fields[s]["matched"]
             /\ q.total[s]["wrong"] = a.total[s]["wrong"] + m.fields[s]["wrong"]
             /\ q.total[s]["missing"] = a.total[s]["missing"] + m.fields[s]["missing"]
  BY <1>3, <1>4
<1> HIDE DEF q
<1> QED BY <1>1, <1>2, <1>5 DEF q

\* f accounts for k fields.
Accounts(f, k) ==
  /\ f.matched \in Nat /\ f.wrong \in Nat /\ f.missing \in Nat
  /\ f.matched + f.wrong + f.missing = k

Adds(z, x, y) ==
  z.matched = x.matched + y.matched /\ z.wrong = x.wrong + y.wrong /\ z.missing = x.missing + y.missing

LEMMA AccountsAdd ==
  ASSUME NEW x, NEW y, NEW z, NEW s, NEW t, Accounts(x, s), Accounts(y, t), Adds(z, x, y)
  PROVE  Accounts(z, s + t)
<1>1. PICK x1 \in Nat, x2 \in Nat, x3 \in Nat : x.matched = x1 /\ x.wrong = x2 /\ x.missing = x3
  BY DEF Accounts
<1>2. PICK y1 \in Nat, y2 \in Nat, y3 \in Nat : y.matched = y1 /\ y.wrong = y2 /\ y.missing = y3
  BY DEF Accounts
<1>3. s = x1 + x2 + x3 /\ t = y1 + y2 + y3
  BY <1>1, <1>2 DEF Accounts
<1>4. z.matched = x1 + y1 /\ z.wrong = x2 + y2 /\ z.missing = x3 + y3
  BY <1>1, <1>2 DEF Adds
<1> QED BY <1>3, <1>4 DEF Accounts

LEMMA TallyAdd ==
  ASSUME NEW rs \in Seq(EvaluationReports), NEW n \in Nat, n < Len(rs), NEW a, Tallied(a, rs, n)
  PROVE  Tallied(Regression_add_report(a, rs[n + 1].metrics), rs, n + 1)
<1> DEFINE r == rs[n + 1]
           m == r.metrics
           p == m.fields["policyai"]
           b == m.fields["baseline"]
           q == Regression_add_report(a, m)
           k == FieldCount(r)
           eb == m.error["baseline"]
           ep == m.error["policyai"]
<1>1. r \in EvaluationReports /\ m \in MetricsRecords
  BY DEF EvaluationReports
<1>2. eb \in BOOLEAN /\ ep \in BOOLEAN /\ (~eb) \in BOOLEAN
  BY <1>1 DEF MetricsRecords, Sides
<1>3. /\ p \in [Outcomes -> Nat] /\ b \in [Outcomes -> Nat] /\ p.matched + p.wrong + p.missing = k
      /\ (ep => p.missing = k) /\ (IF eb THEN b = NoFields ELSE b.matched + b.wrong + b.missing = k)
  BY <1>1, ReportCounts
<1>4. /\ p.matched \in Nat /\ p.wrong \in Nat /\ p.missing \in Nat
      /\ b.matched \in Nat /\ b.wrong \in Nat /\ b.missing \in Nat
      /\ NoFields.matched = 0 /\ NoFields.wrong = 0 /\ NoFields.missing = 0
  BY <1>3 DEF Outcomes, NoFields
<1>5. q \in AnalysisRecords /\ q.total_reports = n + 1 /\ \A s \in Sides : q.errors[s] <= a.errors[s] + 1
  BY <1>1, RegressionAdd DEF Tallied
<1>6. \A s \in Sides : /\ q.total[s].matched = a.total[s].matched + m.fields[s].matched
                       /\ q.total[s].wrong = a.total[s].wrong + m.fields[s].wrong
                       /\ q.total[s].missing = a.total[s].missing + m.fields[s].missing
  BY <1>1, RegressionAdd DEF Tallied
<1>7. \A s \in Sides : a.total[s].matched \in Nat /\ a.total[s].wrong \in Nat /\ a.total[s].missing \in Nat
  BY DEF Tallied, AnalysisRecords, Outcomes
<1> DEFINE all == FieldSum(rs, 1..n)
           answered == FieldSum(rs, 1..n \ Failed(rs, n, "baseline"))
           failed == FieldSum(rs, Failed(rs, n, "policyai"))
<1>8. \A j : j \in 1..(n + 1) <=> j \in 1..n \/ j = n + 1
  OBVIOUS
<1>9. all \in Nat /\ k \in Nat /\ FieldSum(rs, 1..(n + 1)) = all + k
  <2>1. n + 1 \in 1..Len(rs) /\ n + 1 \notin 1..n /\ 1..n \in SUBSET (1..Len(rs))
    OBVIOUS
  <2>2. all \in Nat /\ FieldSum(rs, 1..n \cup {n + 1}) = all + k
    BY <2>1, FieldSumAdd
  <2>3. 1..(n + 1) = 1..n \cup {n + 1}
    BY <1>8
  <2>4. FieldSum(rs, 1..(n + 1)) = FieldSum(rs, 1..n \cup {n + 1})
    BY <2>3, Zenon
  <2> QED BY <1>1, <2>2, <2>4, FieldCountNat
<1>10. answered \in Nat /\ FieldSum(rs, 1..(n + 1) \ Failed(rs, n + 1, "baseline")) = answered + (IF ~eb THEN k ELSE 0)
  <2> DEFINE A == 1..n \ Failed(rs, n, "baseline")
             B == 1..(n + 1) \ Failed(rs, n + 1, "baseline")
             c == ~eb
  <2>1. A \in SUBSET (1..n) /\ B = IF c THEN A \cup {n + 1} ELSE A
    BY <1>8 DEF Failed
  <2>2. c \in BOOLEAN
    BY <1>2
  <2> HIDE DEF A, B, c
  <2>3. SumNext(rs, n, A, B, c)
    BY <2>1, <2>2, FieldSumNext
  <2> QED BY <2>3 DEF SumNext, A, B, c
<1>11. failed \in Nat /\ FieldSum(rs, Failed(rs, n + 1, "policyai")) = failed + (IF ep THEN k ELSE 0)
  <2> DEFINE A == Failed(rs, n, "policyai")
             B == Failed(rs, n + 1, "policyai")
  <2>1. A \in SUBSET (1..n) /\ B = IF ep THEN A \cup {n + 1} ELSE A
    BY <1>8 DEF Failed
  <2> HIDE DEF A, B, ep
  <2>2. SumNext(rs, n, A, B, ep)
    BY <1>2, <2>1, FieldSumNext
  <2> QED BY <2>2 DEF SumNext, A, B
<1>12. /\ a.total["policyai"].matched + a.total["policyai"].wrong + a.total["policyai"].missing = all
       /\ a.total["baseline"].matched + a.total["baseline"].wrong + a.total["baseline"].missing = answered
       /\ a.total["policyai"].missing >= failed
       /\ \A s \in Sides : a.errors[s] <= n
  BY DEF Tallied
<1>13. "policyai" \in Sides /\ "baseline" \in Sides
  BY DEF Sides
<1> HIDE DEF q, k, eb, ep, all, answered, failed, m, r
<1>14. Accounts(q.total["policyai"], all + k)
  <2>1. Adds(q.total["policyai"], a.total["policyai"], p)
    BY <1>6, <1>13 DEF Adds
  <2>2. Accounts(a.total["policyai"], all)
    BY <1>7, <1>12, <1>13 DEF Accounts
  <2>3. Accounts(p, k)
    BY <1>3, <1>4 DEF Accounts
  <2> QED BY <2>1, <2>2, <2>3, AccountsAdd
<1>15. Accounts(q.total["baseline"], answered + (IF ~eb THEN k ELSE 0))
  <2> DEFINE t == IF ~eb THEN k ELSE 0
  <2>1. Adds(q.total["baseline"], a.total["baseline"], b)
    BY <1>6, <1>13 DEF Adds
  <2>2. Accounts(a.total["baseline"], answered)
    BY <1>7, <1>12, <1>13 DEF Accounts
  <2>3. Accounts(b, t)
    <3>1. CASE eb
      <4>1. b = NoFields
        BY <1>3, <3>1
      <4>2. b.matched = 0 /\ b.wrong = 0 /\ b.missing = 0
        BY <1>4, <4>1
      <4> HIDE DEF b
      <4> QED BY <3>1, <4>2 DEF Accounts
    <3>2. CASE ~eb
      BY <1>3, <1>4, <3>2 DEF Accounts
    <3> QED BY <3>1, <3>2
  <2> HIDE DEF t
  <2>4. Accounts(q.total["baseline"], answered + t)
    BY <2>1, <2>2, <2>3, AccountsAdd
  <2> QED BY <2>4 DEF t
<1>16. q.total["policyai"].missing >= failed + (IF ep THEN k ELSE 0)
  <2> DEFINE x == a.total["policyai"].missing
  <2>1. q.total["policyai"].missing = x + p.missing /\ x \in Nat /\ x >= failed
    BY <1>6, <1>7, <1>12, <1>13
  <2>2. p.missing \in Nat /\ (ep => p.missing = k) /\ failed \in Nat /\ k \in Nat
    BY <1>3, <1>4, <1>9, <1>11
  <2> HIDE DEF x, p
  <2>3. PICK y \in Nat : p.missing = y
    BY <2>2
  <2>4. CASE ep
    BY <2>1, <2>2, <2>3, <2>4
  <2>5. CASE ~ep
    BY <2>1, <2>2, <2>3, <2>5
  <2> QED BY <2>4, <2>5
<1>17. \A s \in Sides : q.errors[s] <= n + 1
  <2>1. \A s \in Sides : a.errors[s] \in Nat /\ q.errors[s] \in Nat
    BY <1>5 DEF Tallied, AnalysisRecords
  <2> QED BY <1>5, <1>12, <2>1
<1>18. Tallied(q, rs, n + 1)
  BY <1>5, <1>9, <1>10, <1>11, <1>14, <1>15, <1>16, <1>17 DEF Tallied, Accounts
<1> QED BY <1>18 DEF q, m, r

\* A report whose matched fields the matrix takes for all that were expected.
Right(r, s) == r.metrics.fields[s].matched = ExpectedFieldCount(r.input)
RightIn(rs, s) == {j \in 1..Len(rs) : Right(rs[j], s)}
BothIn(rs) == RightIn(rs, "policyai") \cap RightIn(rs, "baseline")
CountIn(n, Q) == Cardinality(1..n \cap Q)

MatrixRecords == [true_positive : Nat, false_positive : Nat, true_negative : Nat, false_negative : Nat]

\* What the matrix of the first n reports holds.
Scored(m, rs, n) ==
  /\ m \in MatrixRecords
  /\ m.true_positive + m.false_positive = CountIn(n, RightIn(rs, "policyai"))
  /\ m.true_positive + m.false_negative = CountIn(n, RightIn(rs, "baseline"))
  /\ m.true_positive = CountIn(n, BothIn(rs))
  /\ m.true_positive + m.false_positive + m.true_negative + m.false_negative = n

LEMMA NothingCounted ==
  ASSUME NEW Q
  PROVE  CountIn(0, Q) = 0
<1>1. 1..0 \cap Q = {}
  OBVIOUS
<1>2. Cardinality({}) = 0
  BY FS_EmptySet
<1> QED BY <1>1, <1>2, Zenon DEF CountIn

LEMMA ScoreStart ==
  ASSUME NEW rs
  PROVE  Scored(NewMatrix, rs, 0)
BY NothingCounted DEF Scored, NewMatrix, MatrixRecords

\* The matrix q has these cells, and agrees with the counts p, a and b of n reports.
Cells(q, t, f, u, g) ==
  /\ t \in Nat /\ f \in Nat /\ u \in Nat /\ g \in Nat
  /\ q = [true_positive |-> t, false_positive |-> f, true_negative |-> u, false_negative |-> g]
Agrees(q, n, p, a, b) ==
  /\ q \in MatrixRecords
  /\ q.true_positive + q.false_positive = p /\ q.true_positive + q.false_negative = a /\ q.true_positive = b
  /\ q.true_positive + q.false_positive + q.true_negative + q.false_negative = n

LEMMA CellsAgree ==
  ASSUME NEW q, NEW t, NEW f, NEW u, NEW g, Cells(q, t, f, u, g)
  PROVE  Agrees(q, t + f + u + g, t + f, t + g, t)
<1>1. q.true_positive = t /\ q.false_positive = f /\ q.true_negative = u /\ q.false_negative = g
  BY DEF Cells
<1>2. q \in MatrixRecords
  BY DEF MatrixRecords, Cells
<1> QED BY <1>1, <1>2 DEF Agrees

LEMMA ScoreAdd ==
  ASSUME NEW rs \in Seq(EvaluationReports), NEW n \in Nat, n < Len(rs), NEW m, Scored(m, rs, n)
  PROVE  Scored(FieldMatch_add_report(m, rs[n + 1].metrics, ExpectedFieldCount(rs[n + 1].input)), rs, n + 1)
<1> DEFINE P == RightIn(rs, "policyai")
           A == RightIn(rs, "baseline")
           B == BothIn(rs)
           predicted == n + 1 \in P
           actual == n + 1 \in A
           q == FieldMatch_add_report(m, rs[n + 1].metrics, ExpectedFieldCount(rs[n + 1].input))
<1>1. n + 1 \in 1..Len(rs)
  OBVIOUS
<1>2. /\ CountIn(n, P) \in Nat /\ CountIn(n, A) \in Nat /\ CountIn(n, B) \in Nat
      /\ CountIn(n + 1, P) = CountIn(n, P) + (IF n + 1 \in P THEN 1 ELSE 0)
      /\ CountIn(n + 1, A) = CountIn(n, A) + (IF n + 1 \in A THEN 1 ELSE 0)
      /\ CountIn(n + 1, B) = CountIn(n, B) + (IF n + 1 \in B THEN 1 ELSE 0)
  BY CountUp DEF CountIn
<1>3. /\ predicted <=> rs[n + 1].metrics.fields["policyai"].matched = ExpectedFieldCount(rs[n + 1].input)
      /\ actual <=> rs[n + 1].metrics.fields["baseline"].matched = ExpectedFieldCount(rs[n + 1].input)
      /\ n + 1 \in B <=> actual /\ predicted
  BY <1>1 DEF RightIn, BothIn, Right
<1>4. /\ actual /\ predicted => q = [m EXCEPT !.true_positive = @ + 1]
      /\ actual /\ ~predicted => q = [m EXCEPT !.false_negative = @ + 1]
      /\ ~actual /\ predicted => q = [m EXCEPT !.false_positive = @ + 1]
      /\ ~actual /\ ~predicted => q = [m EXCEPT !.true_negative = @ + 1]
  BY <1>3 DEF FieldMatch_add_report, add_prediction
<1>5. /\ m \in MatrixRecords /\ m.true_positive + m.false_positive = CountIn(n, P)
      /\ m.true_positive + m.false_negative = CountIn(n, A) /\ m.true_positive = CountIn(n, B)
      /\ m.true_positive + m.false_positive + m.true_negative + m.false_negative = n
  BY DEF Scored
<1> HIDE DEF P, A, B, q
<1>6. Agrees(q, n + 1, CountIn(n + 1, P), CountIn(n + 1, A), CountIn(n + 1, B))
  <2>1. PICK t \in Nat, f \in Nat, u \in Nat, g \in Nat :
          m = [true_positive |-> t, false_positive |-> f, true_negative |-> u, false_negative |-> g]
    BY <1>5 DEF MatrixRecords
  <2>2. t + f = CountIn(n, P) /\ t + g = CountIn(n, A) /\ t = CountIn(n, B)
    BY <1>5, <2>1
  <2>7. t + f + u + g = n
    BY <1>5, <2>1
  <2>3. CASE actual /\ predicted
    <3>1. CountIn(n + 1, P) = t + f + 1 /\ CountIn(n + 1, A) = t + g + 1 /\ CountIn(n + 1, B) = t + 1
      BY <1>2, <1>3, <2>2, <2>3
    <3>2. Cells(q, t + 1, f, u, g)
      BY <1>4, <2>1, <2>3 DEF Cells
    <3>3. Agrees(q, (t + 1) + f + u + g, (t + 1) + f, (t + 1) + g, t + 1)
      BY <3>2, CellsAgree
    <3>4. (t + 1) + f = CountIn(n + 1, P) /\ (t + 1) + g = CountIn(n + 1, A)
      BY <3>1
    <3>5. (t + 1) + f + u + g = n + 1
      BY <2>7
    <3> QED BY <3>1, <3>3, <3>4, <3>5
  <2>4. CASE actual /\ ~predicted
    <3>1. CountIn(n + 1, P) = t + f /\ CountIn(n + 1, A) = t + g + 1 /\ CountIn(n + 1, B) = t
      BY <1>2, <1>3, <2>2, <2>4
    <3>2. Cells(q, t, f, u, g + 1)
      BY <1>4, <2>1, <2>4 DEF Cells
    <3>3. Agrees(q, t + f + u + (g + 1), t + f, t + (g + 1), t)
      BY <3>2, CellsAgree
    <3>4. t + f = CountIn(n + 1, P) /\ t + (g + 1) = CountIn(n + 1, A)
      BY <3>1
    <3>5. t + f + u + (g + 1) = n + 1
      BY <2>7
    <3> QED BY <3>1, <3>3, <3>4, <3>5
  <2>5. CASE ~actual /\ predicted
    <3>1. CountIn(n + 1, P) = t + f + 1 /\ CountIn(n + 1, A) = t + g /\ CountIn(n + 1, B) = t
      BY <1>2, <1>3, <2>2, <2>5
    <3>2. Cells(q, t, f + 1, u, g)
      BY <1>4, <2>1, <2>5 DEF Cells
    <3>3. Agrees(q, t + (f + 1) + u + g, t + (f + 1), t + g, t)
      BY <3>2, CellsAgree
    <3>4. t + (f + 1) = CountIn(n + 1, P) /\ t + g = CountIn(n + 1, A)
      BY <3>1
    <3>5. t + (f + 1) + u + g = n + 1
      BY <2>7
    <3> QED BY <3>1, <3>3, <3>4, <3>5
  <2>6. CASE ~actual /\ ~predicted
    <3>1. CountIn(n + 1, P) = t + f /\ CountIn(n + 1, A) = t + g /\ CountIn(n + 1, B) = t
      BY <1>2, <1>3, <2>2, <2>6
    <3>2. Cells(q, t, f, u + 1, g)
      BY <1>4, <2>1, <2>6 DEF Cells
    <3>3. Agrees(q, t + f + (u + 1) + g, t + f, t + g, t)
      BY <3>2, CellsAgree
    <3>4. t + f = CountIn(n + 1, P) /\ t + g = CountIn(n + 1, A)
      BY <3>1
    <3>5. t + f + (u + 1) + g = n + 1
      BY <2>7
    <3> QED BY <3>1, <3>3, <3>4, <3>5
  <2> QED BY <2>3, <2>4, <2>5, <2>6
<1> QED BY <1>6 DEF Agrees, Scored, P, A, B, q

\* The F1 score, 2 * p * r / (p + r) of the precision p and the recall r, is 2tp / (2tp + fp + fn),
\* and 0 where the code's tests for a zero divisor say so.
LEMMA F1IsRight ==
  ASSUME NEW m \in MatrixRecords
  PROVE  SameRatio(f1_score(m), Ratio(2 * m.true_positive, 2 * m.true_positive + m.false_positive + m.false_negative))
<1>1. PICK t \in Nat, f \in Nat, g \in Nat : m.true_positive = t /\ m.false_positive = f /\ m.false_negative = g
  BY DEF MatrixRecords
<1>2. precision(m) = Ratio(t, t + f) /\ recall(m) = Ratio(t, t + g)
  BY <1>1 DEF precision, recall
<1>3. CASE t = 0
  <2>1. precision(m)[1] = 0 /\ recall(m)[1] = 0 /\ precision(m)[2] \in Nat /\ recall(m)[2] \in Nat
    BY <1>2, <1>3 DEF Ratio
  <2>2. f1_score(m) = <<0, 1>>
    BY <2>1 DEF f1_score, Ratio
  <2>3. Ratio(2 * t, 2 * t + f + g)[1] = 0
    BY <1>3 DEF Ratio
  <2>4. Ratio(2 * t, 2 * t + f + g)[2] \in Nat
    BY <1>3 DEF Ratio
  <2> QED BY <1>1, <2>2, <2>3, <2>4 DEF SameRatio
<1>4. CASE t > 0
  <2>1. precision(m) = <<t, t + f>> /\ recall(m) = <<t, t + g>>
    BY <1>2, <1>4 DEF Ratio
  <2> DEFINE d == 2 * t + f + g
             e == t * (t + g) + t * (t + f)
  <2>2. d \in Nat /\ d # 0 /\ e = t * d
    BY <1>4
  <2>3. e # 0 /\ e \in Nat
    BY <1>4, <2>2
  <2>4. f1_score(m) = <<2 * t * t, e>>
    BY <2>1, <2>3 DEF f1_score, Ratio
  <2>5. Ratio(2 * t, d) = <<2 * t, d>>
    BY <2>2 DEF Ratio
  <2>6. (2 * t * t) * d = (2 * t) * e
    BY <2>2
  <2> HIDE DEF e
  <2>7. SameRatio(f1_score(m), Ratio(2 * t, d))
    BY <2>4, <2>5, <2>6 DEF SameRatio
  <2> QED BY <1>1, <2>7
<1> QED BY <1>3, <1>4

\* For an expected output that spells out the defaults and says something, to match as many fields
\* as it has is to have no fault.
LEMMA RightIsPerfect ==
  ASSUME NEW r \in EvaluationReports, SpellsOutDefaults(r.input), DOMAIN r.input.expected[1].map # {}, NEW s \in Sides
  PROVE  Right(r, s) <=> Perfect(r, s)
<1> DEFINE k == FieldCount(r)
           f == r.metrics.fields[s]
           e == r.metrics.error[s]
<1>1. r.input \in Points
  BY DEF EvaluationReports
<1>2. k \in Nat /\ k # 0 /\ ExpectedFieldCount(r.input) = k
  <2>1. DOMAIN Expected(r.input) = DOMAIN r.input.expected[1].map /\ r.input.expected # None
    BY DEF SpellsOutDefaults
  <2>2. IsFiniteSet(DOMAIN Expected(r.input))
    BY <1>1, ExpectedFinite
  <2>3. Cardinality(DOMAIN Expected(r.input)) # 0
    BY <2>1, <2>2, FS_EmptySet
  <2> QED BY <2>1, <2>3, FieldCountNat DEF ExpectedFieldCount, FieldCount
<1>3. Accounts(f, k) \/ (e /\ f = NoFields)
  <2>1. s = "policyai" \/ s = "baseline"
    BY DEF Sides
  <2> QED BY <2>1, ReportCounts DEF Accounts, Outcomes
<1>4. e => f.matched = 0
  <2>1. s = "policyai" \/ s = "baseline"
    BY DEF Sides
  <2> QED BY <2>1, ReportCounts DEF NoFields, Outcomes
<1>5. Right(r, s) <=> f.matched = k
  BY <1>2 DEF Right
<1>6. Perfect(r, s) <=> f.wrong = 0 /\ f.missing = 0 /\ ~e
  BY DEF Perfect
<1> HIDE DEF k, f, e
<1>7. CASE e
  BY <1>2, <1>4, <1>5, <1>6, <1>7
<1>8. CASE ~e
  <2>1. PICK x \in Nat, y \in Nat, z \in Nat : f.matched = x /\ f.wrong = y /\ f.missing = z /\ x + y + z = k
    BY <1>3, <1>8 DEF Accounts
  <2> QED BY <1>5, <1>6, <1>8, <2>1
<1> QED BY <1>7, <1>8
-----------------------------------------------------------------------------
(* The tallies of policyai-token-usage-report.                              *)

\* The reports in which the calls of a side got a response.
Responded(rs, s) == {j \in 1..Len(rs) : rs[j].metrics.usage[s].iterations > 0}

\* What the token usage analysis of the first n reports holds of a side.
Collected(u, rs, n, s) ==
  /\ u.iterations[s] \in Seq(Nat) /\ Len(u.iterations[s]) = n
  /\ \A j \in 1..n : u.iterations[s][j] = rs[j].metrics.usage[s].iterations
  /\ u.wall_clock_ms[s] \in Seq(Nat) /\ Len(u.wall_clock_ms[s]) = n
  /\ \A t \in TokenKinds : u.tokens[s][t] \in Seq(Nat) /\ Len(u.tokens[s][t]) = CountIn(n, Responded(rs, s))

LEMMA CollectStart ==
  ASSUME NEW rs, NEW s \in Sides
  PROVE  Collected(NewTokens, rs, 0, s)
<1>1. NewTokens.iterations[s] = <<>> /\ NewTokens.wall_clock_ms[s] = <<>> /\ \A t \in TokenKinds : NewTokens.tokens[s][t] = <<>>
  BY DEF NewTokens
<1>2. <<>> \in Seq(Nat) /\ Len(<<>>) = 0
  OBVIOUS
<1>3. CountIn(0, Responded(rs, s)) = 0
  BY NothingCounted
<1>4. \A j \in 1..0 : FALSE
  OBVIOUS
<1> HIDE DEF NewTokens
<1>5. \A t \in TokenKinds : NewTokens.tokens[s][t] \in Seq(Nat) /\ Len(NewTokens.tokens[s][t]) = 0
  BY <1>1, <1>2
<1>6. /\ NewTokens.iterations[s] \in Seq(Nat) /\ Len(NewTokens.iterations[s]) = 0
      /\ NewTokens.wall_clock_ms[s] \in Seq(Nat) /\ Len(NewTokens.wall_clock_ms[s]) = 0
  BY <1>1, <1>2
<1> QED BY <1>3, <1>4, <1>5, <1>6 DEF Collected

LEMMA CollectAdd ==
  ASSUME NEW rs \in Seq(EvaluationReports), NEW n \in Nat, n < Len(rs), NEW u, NEW s \in Sides, Collected(u, rs, n, s)
  PROVE  Collected(TokenUsage_add_report(u, rs[n + 1].metrics), rs, n + 1, s)
<1> DEFINE m == rs[n + 1].metrics
           v == TokenUsage_add_report(u, m)
           w == m.usage[s]
           Q == Responded(rs, s)
<1>1. n + 1 \in 1..Len(rs) /\ rs[n + 1] \in EvaluationReports
  OBVIOUS
<1>2. m \in MetricsRecords
  BY <1>1 DEF EvaluationReports
<1>3. w \in UsageRecords
  BY <1>2 DEF MetricsRecords
<1>4. /\ w.iterations \in Nat /\ w.wall_clock_time \in Nat
      /\ w.claudius_usage = <<>> <=> ~(w.iterations > 0)
      /\ w.claudius_usage # <<>> => \A t \in TokenKinds : w.claudius_usage[1][t] \in Nat
  <2>1. /\ w.iterations \in Nat /\ w.wall_clock_time \in Nat /\ (w.claudius_usage = None <=> w.iterations = 0)
        /\ w.claudius_usage \in {None} \cup {Some(cu) : cu \in ClaudiusUsages}
    BY <1>3 DEF UsageRecords
  <2>2. ASSUME w.claudius_usage # None PROVE \A t \in TokenKinds : w.claudius_usage[1][t] \in Nat
    <3>1. PICK cu \in ClaudiusUsages : w.claudius_usage = Some(cu)
      BY <2>1, <2>2
    <3>2. w.claudius_usage[1] = cu /\ cu \in [TokenKinds -> Nat]
      BY <3>1, EvaluationBounds DEF Some
    <3> QED BY <3>2
  <2>3. w.claudius_usage = None <=> ~(w.iterations > 0)
    BY <2>1
  <2> QED BY <2>1, <2>2, <2>3 DEF None
<1>5. n + 1 \in Q <=> w.iterations > 0
  BY <1>1 DEF Responded
<1>6. CountIn(n, Q) \in Nat /\ CountIn(n + 1, Q) = CountIn(n, Q) + (IF n + 1 \in Q THEN 1 ELSE 0)
  BY CountUp DEF CountIn
<1>7. /\ v.iterations[s] = Append(u.iterations[s], w.iterations)
      /\ v.wall_clock_ms[s] = Append(u.wall_clock_ms[s], w.wall_clock_time)
      /\ \A t \in TokenKinds :
           v.tokens[s][t] = IF w.claudius_usage = <<>> THEN u.tokens[s][t]
                            ELSE Append(u.tokens[s][t], w.claudius_usage[1][t])
  BY DEF TokenUsage_add_report
<1>8. \A j \in 1..(n + 1) : j \in 1..n \/ j = n + 1
  OBVIOUS
<1>9. w.iterations = rs[n + 1].metrics.usage[s].iterations
  OBVIOUS
<1> HIDE DEF v, w, Q
<1>15. ASSUME NEW q \in Seq(Nat), Len(q) = n, NEW x \in Nat
       PROVE  Append(q, x) \in Seq(Nat) /\ Len(Append(q, x)) = n + 1
  BY <1>15
<1>16. /\ u.iterations[s] \in Seq(Nat) /\ Len(u.iterations[s]) = n
       /\ u.wall_clock_ms[s] \in Seq(Nat) /\ Len(u.wall_clock_ms[s]) = n
  BY DEF Collected
<1>10. v.iterations[s] \in Seq(Nat) /\ Len(v.iterations[s]) = n + 1
  BY <1>4, <1>7, <1>15, <1>16
<1>11. ASSUME NEW j \in 1..(n + 1) PROVE v.iterations[s][j] = rs[j].metrics.usage[s].iterations
  BY <1>4, <1>7, <1>8, <1>9 DEF Collected
<1>12. v.wall_clock_ms[s] \in Seq(Nat) /\ Len(v.wall_clock_ms[s]) = n + 1
  BY <1>4, <1>7, <1>15, <1>16
<1>13. ASSUME NEW t \in TokenKinds
       PROVE  v.tokens[s][t] \in Seq(Nat) /\ Len(v.tokens[s][t]) = CountIn(n + 1, Q)
  <2>1. u.tokens[s][t] \in Seq(Nat) /\ Len(u.tokens[s][t]) = CountIn(n, Q)
    BY DEF Collected, Q
  <2>2. CASE w.claudius_usage = <<>>
    BY <1>4, <1>5, <1>6, <1>7, <2>1, <2>2
  <2>3. CASE w.claudius_usage # <<>>
    <3>1. CountIn(n + 1, Q) = CountIn(n, Q) + 1
      BY <1>4, <1>5, <1>6, <2>3
    <3>2. v.tokens[s][t] = Append(u.tokens[s][t], w.claudius_usage[1][t]) /\ w.claudius_usage[1][t] \in Nat
      BY <1>4, <1>7, <2>3
    <3>3. Append(u.tokens[s][t], w.claudius_usage[1][t]) \in Seq(Nat)
      BY <2>1, <3>2
    <3>4. Len(Append(u.tokens[s][t], w.claudius_usage[1][t])) = CountIn(n, Q) + 1
      BY <2>1
    <3> QED BY <3>1, <3>2, <3>3, <3>4
  <2> QED BY <2>2, <2>3
<1>14. Collected(v, rs, n + 1, s)
  BY <1>10, <1>11, <1>12, <1>13 DEF Collected, Q
<1> QED BY <1>14 DEF v
-----------------------------------------------------------------------------
\* The tallies of the tool that runs are those of the reports it has read.
TallyInv ==
  /\ tool.name = "regression-report" => Tallied(analysis, reports, tool.at) /\ Scored(matrix, reports, tool.at)
  /\ tool.name = "token-usage-report" => \A s \in Sides : Collected(usages, reports, tool.at, s)

\* A tool that has read nothing holds the empty tallies.
LEMMA TallyInvStart ==
  ASSUME EvaluatorInv, ToolInv, tool.at = 0
  PROVE  TallyInv
<1>1. reports \in Seq(EvaluationReports) /\ analysis = NewAnalysis /\ matrix = NewMatrix /\ usages = NewTokens
  BY DEF EvaluatorInv, ToolInv
<1>2. Tallied(analysis, reports, 0) /\ Scored(matrix, reports, 0) /\ \A s \in Sides : Collected(usages, reports, 0, s)
  BY <1>1, TallyStart, ScoreStart, CollectStart
<1> QED BY <1>2 DEF TallyInv

LEMMA TallyInvInit == Init => TallyInv
<1>1. Init => tool.at = 0
  BY DEF Init
<1> QED BY <1>1, EvaluatorInit, TallyInvStart

LEMMA TallyInvStep == EvaluatorInv /\ ToolInv /\ TallyInv /\ [Next]_vars => TallyInv'
<1> SUFFICES ASSUME EvaluatorInv, ToolInv, TallyInv, [Next]_vars PROVE TallyInv'
  OBVIOUS
<1>1. EvaluatorInv' /\ ToolInv'
  BY EvaluationStep
<1>2. ASSUME tool'.at = 0 PROVE TallyInv'
  <2>1. (EvaluatorInv /\ ToolInv /\ tool.at = 0 => TallyInv)'
    BY TallyInvStart, PTL
  <2> QED BY <1>1, <1>2, <2>1
<1>3. ASSUME UNCHANGED <<reports, analysis, matrix, usages>>, tool'.name = tool.name, tool'.at = tool.at PROVE TallyInv'
  BY <1>3 DEF TallyInv
<1>4. CASE UNCHANGED vars
  BY <1>3, <1>4 DEF vars, evaluatorVars, toolVars
<1>5. CASE Evaluate
  <2>1. pc \notin {"done", "panicked"} /\ tool' = tool
    BY <1>5 DEF Evaluate, ReadPoint, SkipLine, EndOfInput, BaselineFails, BaselineAnswers, BaselinePanics, Baseline,
                PolicyAIAnswers, PolicyAIFails, PolicyAI, toolVars
  <2>2. tool'.at = 0
    BY <2>1 DEF ToolInv
  <2> QED BY <1>2, <2>2
<1>6. CASE \E name \in Tools, stdin, bad \in BOOLEAN : StartTool(name, stdin, bad)
  <2>1. tool'.at = 0
    BY <1>6 DEF StartTool
  <2> QED BY <1>2, <2>1
<1>7. reports \in Seq(EvaluationReports) /\ tool.at \in Nat
  BY DEF EvaluatorInv, ToolInv
<1>8. ASSUME NEW name, Running(name), tool' = [tool EXCEPT !.at = @ + 1]
      PROVE  tool.name = name /\ tool'.name = name /\ tool'.at = tool.at + 1 /\ tool.at < Len(reports)
  BY <1>8 DEF Running, ToolInv
<1>9. CASE AddToRegressionReport
  <2>1. /\ tool.name = "regression-report" /\ tool'.name = "regression-report" /\ tool'.at = tool.at + 1
        /\ tool.at < Len(reports)
    BY <1>8, <1>9 DEF AddToRegressionReport
  <2>2. /\ analysis' = Regression_add_report(analysis, reports[tool.at + 1].metrics) /\ reports' = reports
        /\ matrix' = FieldMatch_add_report(matrix, reports[tool.at + 1].metrics,
                                           ExpectedFieldCount(reports[tool.at + 1].input))
    BY <1>9 DEF AddToRegressionReport, NextReport, evaluatorVars
  <2>3. Tallied(analysis', reports, tool.at + 1)
    BY <1>7, <2>1, <2>2, TallyAdd DEF TallyInv
  <2>4. Scored(matrix', reports, tool.at + 1)
    BY <1>7, <2>1, <2>2, ScoreAdd DEF TallyInv
  <2> QED BY <2>1, <2>2, <2>3, <2>4 DEF TallyInv
<1>10. CASE AddToTokenUsageReport
  <2>1. /\ tool.name = "token-usage-report" /\ tool'.name = "token-usage-report" /\ tool'.at = tool.at + 1
        /\ tool.at < Len(reports)
    BY <1>8, <1>10 DEF AddToTokenUsageReport
  <2>2. usages' = TokenUsage_add_report(usages, reports[tool.at + 1].metrics) /\ reports' = reports
    BY <1>10 DEF AddToTokenUsageReport, NextReport, evaluatorVars
  <2>3. \A s \in Sides : Collected(usages', reports, tool.at + 1, s)
    BY <1>7, <2>1, <2>2, CollectAdd DEF TallyInv
  <2> QED BY <2>1, <2>2, <2>3 DEF TallyInv
<1>11. CASE ProcessLine
  <2>1. tool.name = "extract-regressions" /\ tool'.name = "extract-regressions"
    BY <1>8, <1>11 DEF ProcessLine
  <2> QED BY <2>1 DEF TallyInv
<1>12. CASE FinishTool
  <2>1. tool'.name = tool.name /\ tool'.at = tool.at
    BY <1>12 DEF FinishTool, ToolInv
  <2> QED BY <1>3, <1>12, <2>1 DEF FinishTool, evaluatorVars
<1> QED BY <1>4, <1>5, <1>6, <1>9, <1>10, <1>11, <1>12 DEF Next

\* Whatever the evaluator printed, the analysis, the matrix and the usages of the tool that reads
\* it are at every step those of the reports it has read.
THEOREM EvaluationTallyInvariant == Spec => [](EvaluatorInv /\ ToolInv /\ TallyInv)
<1>1. Init => EvaluatorInv /\ ToolInv /\ TallyInv
  BY EvaluatorInit, TallyInvInit
<1>2. EvaluatorInv /\ ToolInv /\ TallyInv /\ [Next]_vars => (EvaluatorInv /\ ToolInv /\ TallyInv)'
  BY EvaluationStep, TallyInvStep
<1> QED BY <1>1, <1>2, PTL DEF Spec

\* The totals policyai-regression-report and policyai-token-usage-report print account for every
\* report and every expected field once, for any number of reports, fields and policies.
THEOREM EvaluationReportsAccounted == Spec => []ReportsAccounted
<1>1. ASSUME EvaluatorInv, ToolInv, TallyInv PROVE ReportsAccounted
  <2> DEFINE n == tool.at
  <2>1. n \in Nat /\ n <= Len(reports) /\ Len(reports) \in Nat
    BY <1>1 DEF EvaluatorInv, ToolInv
  <2>2. ASSUME tool.name = "regression-report"
        PROVE  \A s \in Sides : error_rate(analysis, s)[1] <= error_rate(analysis, s)[2]
    <3>1. Tallied(analysis, reports, n)
      BY <1>1, <2>2 DEF TallyInv
    <3>2. \A s \in Sides : analysis.errors[s] \in Nat /\ analysis.errors[s] <= n /\ analysis.total_reports = n
      BY <3>1 DEF Tallied, AnalysisRecords
    <3> QED BY <2>1, <3>2 DEF error_rate, Ratio
  <2>3. ASSUME tool.name = "regression-report"
        PROVE  /\ analysis.total["policyai"].matched + analysis.total["policyai"].wrong + analysis.total["policyai"].missing
                    = FieldSum(reports, Read)
               /\ analysis.total["baseline"].matched + analysis.total["baseline"].wrong + analysis.total["baseline"].missing
                    = FieldSum(reports, Read \ {j \in Read : reports[j].metrics.error["baseline"]})
               /\ analysis.total["policyai"].missing >= FieldSum(reports, {j \in Read : reports[j].metrics.error["policyai"]})
    <3>1. Tallied(analysis, reports, n)
      BY <1>1, <2>3 DEF TallyInv
    <3> QED BY <3>1 DEF Tallied, Failed, Read
  <2>4. ASSUME tool.name = "token-usage-report", NEW s \in Sides, NEW t \in TokenKinds
        PROVE  /\ Len(usages.iterations[s]) = n /\ Len(usages.wall_clock_ms[s]) = n
               /\ Len(usages.tokens[s][t]) = Cardinality({j \in Read : usages.iterations[s][j] > 0})
    <3>1. Collected(usages, reports, n, s)
      BY <1>1, <2>4 DEF TallyInv
    <3> DEFINE S == {j \in Read : usages.iterations[s][j] > 0}
               T == 1..n \cap Responded(reports, s)
    <3>2. \A j \in 1..n : j \in 1..Len(reports)
      BY <2>1
    <3>3. S = T
      BY <3>1, <3>2 DEF Collected, Responded, Read
    <3>4. Len(usages.tokens[s][t]) = Cardinality(T)
      BY <3>1 DEF Collected, CountIn
    <3> HIDE DEF S, T
    <3>5. Len(usages.tokens[s][t]) = Cardinality(S)
      BY <3>3, <3>4
    <3> QED BY <3>1, <3>5 DEF Collected, S
  <2> QED BY <2>2, <2>3, <2>4 DEF ReportsAccounted, FieldSum
<1> QED BY <1>1, EvaluationTallyInvariant, PTL

\* The accuracy matrix and its scores are right for any number of reports.
THEOREM EvaluationMatrixIsRight == Spec => []MatrixIsRight
<1>1. ASSUME EvaluatorInv, ToolInv, TallyInv, tool.name = "regression-report"
      PROVE  /\ (\A j \in Read : SpellsOutDefaults(reports[j].input) /\ DOMAIN reports[j].input.expected[1].map # {}) =>
                  /\ matrix.true_positive + matrix.false_positive = Cardinality({j \in Read : Perfect(reports[j], "policyai")})
                  /\ matrix.true_positive + matrix.false_negative = Cardinality({j \in Read : Perfect(reports[j], "baseline")})
                  /\ matrix.true_positive = Cardinality({j \in Read : \A s \in Sides : Perfect(reports[j], s)})
             /\ SameRatio(f1_score(matrix), Ratio(2 * matrix.true_positive,
                  2 * matrix.true_positive + matrix.false_positive + matrix.false_negative))
             /\ accuracy(matrix)[1] <= accuracy(matrix)[2] /\ accuracy(matrix)[2] \in {1, tool.at}
  <2> DEFINE n == tool.at
  <2>1. n \in Nat /\ n <= Len(reports) /\ Len(reports) \in Nat /\ reports \in Seq(EvaluationReports)
    BY <1>1 DEF EvaluatorInv, ToolInv
  <2>2. Scored(matrix, reports, n)
    BY <1>1 DEF TallyInv
  <2>3. SameRatio(f1_score(matrix), Ratio(2 * matrix.true_positive,
          2 * matrix.true_positive + matrix.false_positive + matrix.false_negative))
    BY <2>2, F1IsRight DEF Scored
  <2>4. accuracy(matrix)[1] <= accuracy(matrix)[2] /\ accuracy(matrix)[2] \in {1, n}
    <3>1. PICK t \in Nat, f \in Nat, u \in Nat, g \in Nat :
            /\ matrix.true_positive = t /\ matrix.false_positive = f
            /\ matrix.true_negative = u /\ matrix.false_negative = g
      BY <2>2 DEF Scored, MatrixRecords
    <3>2. t + f + u + g = n
      BY <2>2, <3>1 DEF Scored
    <3>3. accuracy(matrix) = Ratio(t + u, n)
      BY <3>1, <3>2 DEF accuracy
    <3>4. t + u <= n
      BY <3>2
    <3> QED BY <2>1, <3>3, <3>4 DEF Ratio
  <2>5. ASSUME \A j \in Read : SpellsOutDefaults(reports[j].input) /\ DOMAIN reports[j].input.expected[1].map # {}
        PROVE  /\ matrix.true_positive + matrix.false_positive = Cardinality({j \in Read : Perfect(reports[j], "policyai")})
               /\ matrix.true_positive + matrix.false_negative = Cardinality({j \in Read : Perfect(reports[j], "baseline")})
               /\ matrix.true_positive = Cardinality({j \in Read : \A s \in Sides : Perfect(reports[j], s)})
    <3>1. \A j \in Read : j \in 1..Len(reports) /\ reports[j] \in EvaluationReports
      BY <2>1 DEF Read
    <3>2. \A j \in Read : \A s \in Sides : Right(reports[j], s) <=> Perfect(reports[j], s)
      BY <2>5, <3>1, RightIsPerfect
    <3>3. "policyai" \in Sides /\ "baseline" \in Sides /\ \A s \in Sides : s = "policyai" \/ s = "baseline"
      BY DEF Sides
    <3>4. \A s \in Sides : {j \in Read : Perfect(reports[j], s)} = 1..n \cap RightIn(reports, s)
      BY <3>1, <3>2 DEF RightIn, Read
    <3>5. {j \in Read : \A s \in Sides : Perfect(reports[j], s)} = 1..n \cap BothIn(reports)
      BY <3>1, <3>2, <3>3 DEF BothIn, RightIn, Read
    <3>6. \A s \in Sides : Cardinality({j \in Read : Perfect(reports[j], s)}) = CountIn(n, RightIn(reports, s))
      BY <3>4, Zenon DEF CountIn
    <3>7. Cardinality({j \in Read : \A s \in Sides : Perfect(reports[j], s)}) = CountIn(n, BothIn(reports))
      BY <3>5, Zenon DEF CountIn
    <3> QED BY <2>2, <3>3, <3>6, <3>7 DEF Scored
  <2> QED BY <2>3, <2>4, <2>5
<1>2. EvaluatorInv /\ ToolInv /\ TallyInv => MatrixIsRight
  BY <1>1 DEF MatrixIsRight
<1> QED BY <1>2, EvaluationTallyInvariant, PTL
-----------------------------------------------------------------------------
(* What policyai-token-usage-report prints of a vector.                     *)

LEMMA IntervalCount ==
  ASSUME NEW n \in Nat
  PROVE  IsFiniteSet(1..n) /\ Cardinality(1..n) = n
<1>1. IsFiniteSet(1..n) /\ Cardinality(1..n) = IF 1 > n THEN 0 ELSE n - 1 + 1
  BY FS_Interval
<1> QED BY <1>1

LEMMA LeastNat ==
  ASSUME NEW S \in SUBSET Nat, S # {}
  PROVE  Min(S) \in S /\ \A x \in S : Min(S) <= x
<1>1. PICK x \in S : \A y \in S : ~(<<y, x>> \in Less)
  <2>1. OpToRel(<, Nat) = Less
    BY DEF OpToRel, Less
  <2> QED BY <2>1, NatLessThanWellFounded, WFMin
<1>2. ASSUME NEW y \in S PROVE x <= y
  <2>1. x \in Nat /\ y \in Nat
    OBVIOUS
  <2>2. y < x => <<y, x>> \in Less
    BY <2>1 DEF Less
  <2> QED BY <1>1, <2>1, <2>2
<1> QED BY <1>2 DEF Min

\* Among any of the positions there is one with the largest value.
LEMMA LargestAt ==
  ASSUME NEW n \in Nat, NEW v \in [1..n -> Nat], NEW S \in SUBSET (1..n), S # {}
  PROVE  \E j \in S : \A i \in S : v[i] <= v[j]
<1> DEFINE P(k) == \A u \in SUBSET (1..n) : u \subseteq 1..k /\ u # {} => \E j \in u : \A i \in u : v[i] <= v[j]
           T == {k \in Nat : P(k)}
<1>1. P(0)
  <2>1. 1..0 = {}
    OBVIOUS
  <2> QED BY <2>1
<1>2. ASSUME NEW k \in Nat, P(k) PROVE P(k + 1)
  <2> SUFFICES ASSUME NEW u \in SUBSET (1..n), u \subseteq 1..(k + 1), u # {}
               PROVE  \E j \in u : \A i \in u : v[i] <= v[j]
    OBVIOUS
  <2> DEFINE w == u \ {k + 1}
  <2>1. w \in SUBSET (1..n) /\ w \subseteq 1..k
    OBVIOUS
  <2>2. \A i \in u : v[i] \in Nat
    OBVIOUS
  <2>3. CASE w = {}
    <3>1. u = {k + 1}
      BY <2>3
    <3> QED BY <2>2, <3>1
  <2>4. CASE w # {}
    <3>1. PICK j \in w : \A i \in w : v[i] <= v[j]
      BY <1>2, <2>1, <2>4
    <3>2. CASE k + 1 \in u /\ v[j] <= v[k + 1]
      <4>1. v[j] \in Nat /\ v[k + 1] \in Nat
        BY <2>2, <3>2
      <4>2. ASSUME NEW i \in u PROVE v[i] <= v[k + 1]
        <5>1. CASE i = k + 1
          BY <4>1, <5>1
        <5>2. CASE i # k + 1
          <6>1. v[i] <= v[j] /\ v[i] \in Nat
            BY <2>2, <3>1, <5>2
          <6> HIDE DEF w
          <6> QED BY <3>2, <4>1, <6>1
        <5> QED BY <5>1, <5>2
      <4> QED BY <3>2, <4>2
    <3>3. CASE k + 1 \in u /\ ~(v[j] <= v[k + 1])
      <4>1. v[k + 1] <= v[j]
        BY <2>2, <3>3
      <4> QED BY <3>1, <4>1
    <3>4. CASE k + 1 \notin u
      BY <3>1, <3>4
    <3> QED BY <3>2, <3>3, <3>4
  <2> QED BY <2>3, <2>4
<1> HIDE DEF P
<1>3. Nat \subseteq T
  <2>1. 0 \in T /\ \A k \in Nat : k \in T => k + 1 \in T
    BY <1>1, <1>2
  <2> HIDE DEF T
  <2> QED BY <2>1, NatSetInduction
<1>4. P(n)
  BY <1>3
<1> QED BY <1>4 DEF P

\* The smallest and the largest value of a vector.
LEMMA EndsOf ==
  ASSUME NEW v \in Seq(Nat), Len(v) > 0
  PROVE  /\ min(v) \in Nat /\ max(v) \in Nat /\ max(v) \in Elements(v)
         /\ \A j \in 1..Len(v) : min(v) <= v[j] /\ v[j] <= max(v)
<1> DEFINE n == Len(v)
           E == Elements(v)
<1>1. n \in Nat /\ DOMAIN v = 1..n /\ v \in [1..n -> Nat] /\ v # <<>> /\ 1..n # {} /\ 1..n \in SUBSET (1..n)
  <2>1. n \in Nat /\ n > 0 /\ DOMAIN v = 1..n /\ v \in [1..n -> Nat] /\ v # <<>>
    OBVIOUS
  <2>2. 1 \in 1..n
    BY <2>1
  <2> QED BY <2>1, <2>2
<1>2. E \in SUBSET Nat /\ E # {} /\ \A j \in 1..n : v[j] \in E
  BY <1>1 DEF Elements
<1>3. min(v) = Min(E) /\ max(v) = Max(E)
  BY <1>1 DEF min, max
<1> HIDE DEF n
<1>4. PICK j \in 1..n : \A i \in 1..n : v[i] <= v[j]
  BY <1>1, LargestAt
<1>5. \A x \in E : \E i \in 1..n : x = v[i]
  BY <1>1 DEF Elements
<1> HIDE DEF E
<1>6. v[j] \in E /\ \A y \in E : v[j] >= y
  BY <1>2, <1>4, <1>5
<1>7. Max(E) \in E /\ \A y \in E : Max(E) >= y
  BY <1>6 DEF Max
<1>8. Min(E) \in E /\ \A y \in E : Min(E) <= y
  BY <1>2, LeastNat
<1>9. \A i \in 1..n : min(v) <= v[i] /\ v[i] <= max(v)
  BY <1>2, <1>3, <1>7, <1>8
<1> QED BY <1>2, <1>3, <1>7, <1>8, <1>9 DEF E, n

LEMMA UpToCount ==
  ASSUME NEW v \in Seq(Nat), NEW x
  PROVE  /\ UpTo(v, x) \in SUBSET (1..Len(v)) /\ IsFiniteSet(UpTo(v, x)) /\ Cardinality(UpTo(v, x)) \in Nat
<1>1. UpTo(v, x) \in SUBSET (1..Len(v)) /\ Len(v) \in Nat
  BY DEF UpTo
<1>2. IsFiniteSet(1..Len(v))
  BY <1>1, FS_Interval
<1> QED BY <1>1, <1>2, FS_Subset, FS_CardinalityType

\* The k-th value of the sorted vector.
Ranked(v, k, y) ==
  /\ y \in Elements(v) /\ y \in Nat /\ Cardinality(UpTo(v, y)) >= k
  /\ \A x \in Elements(v) : Cardinality(UpTo(v, x)) >= k => y <= x

LEMMA SortedRanked ==
  ASSUME NEW v \in Seq(Nat), NEW k \in 1..Len(v)
  PROVE  Ranked(v, k, sort_unstable(v)[k])
<1> DEFINE n == Len(v)
           S == {x \in Elements(v) : Cardinality(UpTo(v, x)) >= k}
<1>1. n \in Nat /\ DOMAIN v = 1..n /\ n > 0 /\ k \in Nat /\ k <= n
  OBVIOUS
<1>2. sort_unstable(v)[k] = Min(S)
  BY <1>1 DEF sort_unstable
<1>3. S \in SUBSET Nat
  BY <1>1 DEF Elements
<1>4. max(v) \in S
  <2>1. max(v) \in Elements(v) /\ \A j \in 1..n : v[j] <= max(v)
    BY <1>1, EndsOf
  <2>2. UpTo(v, max(v)) = 1..n
    BY <1>1, <2>1 DEF UpTo
  <2>3. Cardinality(1..n) = n
    BY <1>1, IntervalCount
  <2>4. Cardinality(UpTo(v, max(v))) >= k
    BY <1>1, <2>2, <2>3
  <2> QED BY <2>1, <2>4
<1> HIDE DEF S
<1>5. Min(S) \in S /\ \A x \in S : Min(S) <= x
  BY <1>3, <1>4, LeastNat
<1>6. \A x : x \in S <=> x \in Elements(v) /\ Cardinality(UpTo(v, x)) >= k
  BY DEF S
<1> QED BY <1>2, <1>3, <1>5, <1>6 DEF Ranked

\* Fewer than k values are smaller than the k-th.
LEMMA RankedBelow ==
  ASSUME NEW v \in Seq(Nat), NEW k \in 1..Len(v), NEW y, Ranked(v, k, y)
  PROVE  /\ Cardinality({j \in 1..Len(v) : v[j] <= y}) \in Nat /\ Cardinality({j \in 1..Len(v) : v[j] <= y}) >= k
         /\ Cardinality({j \in 1..Len(v) : v[j] >= y}) \in Nat
         /\ Cardinality({j \in 1..Len(v) : v[j] >= y}) > Len(v) - k
<1> DEFINE n == Len(v)
           L == {j \in 1..n : v[j] < y}
           S == {j \in 1..n : v[j] >= y}
<1>1. n \in Nat /\ DOMAIN v = 1..n /\ v \in [1..n -> Nat] /\ k \in Nat /\ k > 0 /\ y \in Nat
  BY DEF Ranked
<1>2. UpTo(v, y) = {j \in 1..n : v[j] <= y}
  BY <1>1 DEF UpTo
<1>3. IsFiniteSet(1..n) /\ Cardinality(1..n) = n
  BY <1>1, IntervalCount
<1>4. L \in SUBSET (1..n) /\ S \in SUBSET (1..n) /\ L \cup S = 1..n /\ L \cap S = {}
  BY <1>1
<1>5. Cardinality(L) < k
  <2>1. CASE L = {}
    <3>1. Cardinality(L) = 0
      BY <2>1, FS_EmptySet
    <3> QED BY <1>1, <3>1
  <2>2. CASE L # {}
    <3> HIDE DEF L, n
    <3>1. PICK j \in L : \A i \in L : v[i] <= v[j]
      BY <1>1, <1>4, <2>2, LargestAt
    <3>2. j \in 1..n /\ v[j] < y /\ v[j] \in Nat /\ v[j] \in Elements(v)
      BY <1>1, <3>1 DEF L, Elements
    <3>3. UpTo(v, v[j]) = L
      BY <1>1, <3>1, <3>2 DEF UpTo, L
    <3>4. ~(Cardinality(UpTo(v, v[j])) >= k)
      BY <1>1, <3>2 DEF Ranked
    <3>5. Cardinality(L) \in Nat
      BY <3>3, UpToCount
    <3> QED BY <1>1, <3>3, <3>4, <3>5
  <2> QED BY <2>1, <2>2
<1> HIDE DEF L, S
<1>6. /\ IsFiniteSet(L) /\ IsFiniteSet(S) /\ Cardinality(L) \in Nat /\ Cardinality(S) \in Nat
  BY <1>3, <1>4, FS_Subset, FS_CardinalityType
<1>7. Cardinality(L \cup S) = Cardinality(L) + Cardinality(S) - Cardinality(L \cap S)
  BY <1>6, FS_Union
<1>8. n = Cardinality(L) + Cardinality(S)
  <2>1. Cardinality({}) = 0
    BY FS_EmptySet
  <2>2. Cardinality(L \cup S) = n /\ Cardinality(L \cap S) = 0
    BY <1>3, <1>4, <2>1
  <2> QED BY <1>1, <1>6, <1>7, <2>2
<1>9. Cardinality(S) > n - k
  BY <1>1, <1>5, <1>6, <1>8
<1>10. Cardinality(UpTo(v, y)) \in Nat /\ Cardinality(UpTo(v, y)) >= k
  BY UpToCount DEF Ranked
<1> QED BY <1>2, <1>6, <1>9, <1>10 DEF S, n

\* h[k] is the sum of the first k values.
SumsAlong(h, v) == h[0] = 0 /\ h[Len(v)] = total(v) /\ \A k \in 1..Len(v) : h[k] = h[k - 1] + v[k]

LEMMA TotalFold ==
  ASSUME NEW v \in Seq(Nat)
  PROVE  \E h \in [0..Len(v) -> Nat] : SumsAlong(h, v)
<1> DEFINE n == Len(v)
           Op(x, y) == x + y
           F == [p \in Nat \X (1..n) |-> Op(p[1], v[p[2]])]
           Body(g) == [t \in SUBSET DOMAIN v |-> IF t = {} THEN 0 ELSE Op(g[t \ {Max(t)}], v[Max(t)])]
           it == CHOOSE g : g = Body(g)
<1>1. n \in Nat /\ DOMAIN v = 1..n /\ \A k \in 1..n : v[k] \in Nat
  OBVIOUS
<1>2. 0 \in Nat /\ \A x \in Nat, k \in 1..n : Op(x, v[k]) \in Nat
  BY <1>1
<1>3. total(v) = it[DOMAIN v]
  BY DEF total, FoldLeft, MapThenFoldSet
<1> HIDE DEF n, Op
<1>4. F \in [Nat \X (1..n) -> Nat] /\ \A x \in Nat, k \in 1..n : F[<<x, k>>] = Op(x, v[k])
  BY <1>1, <1>2
<1> HIDE DEF F
<1>5. PICK g \in [SUBSET (1..n) -> Nat] : FoldsOver(g, F, 0, n)
  BY <1>1, <1>2, <1>4, FoldExists
<1>6. g = Body(g)
  <2>1. ASSUME NEW t \in SUBSET (1..n), t # {} PROVE g[t] = Op(g[t \ {Max(t)}], v[Max(t)])
    <3>1. Max(t) \in 1..n /\ g[t \ {Max(t)}] \in Nat /\ g[t] = F[<<g[t \ {Max(t)}], Max(t)>>]
      BY <1>5, <2>1 DEF FoldsOver
    <3> QED BY <1>4, <3>1
  <2>2. g[{}] = 0
    BY <1>5 DEF FoldsOver
  <2> QED BY <1>1, <1>5, <2>1, <2>2
<1>7. it = Body(it)
  <2> HIDE DEF Body
  <2> QED BY <1>6, Zenon
<1> HIDE DEF it
<1>8. FoldsTo(it, F, Nat, 0, n)
  BY <1>1, <1>4, <1>5, <1>7 DEF FoldsTo, FoldsOver
<1>9. PICK h \in [0..n -> Nat] : Along(h, F, 0, n, it[1..n])
  BY <1>1, <1>2, <1>4, <1>8, FoldAlong
<1>10. ASSUME NEW k \in 1..n PROVE h[k] = Op(h[k - 1], v[k])
  <2>1. k - 1 \in 0..n /\ h[k] = F[<<h[k - 1], k>>]
    BY <1>1, <1>9 DEF Along
  <2> QED BY <1>4, <1>9, <2>1
<1> QED BY <1>1, <1>3, <1>9, <1>10 DEF n, Op, Along, SumsAlong

\* A sum of n values between a and b is between n times each.
LEMMA TotalBounds ==
  ASSUME NEW v \in Seq(Nat), NEW a \in Nat, NEW b \in Nat, \A j \in 1..Len(v) : a <= v[j] /\ v[j] <= b
  PROVE  total(v) \in Nat /\ a * Len(v) <= total(v) /\ total(v) <= b * Len(v)
<1> DEFINE n == Len(v)
<1>1. n \in Nat /\ \A j \in 1..n : v[j] \in Nat
  OBVIOUS
<1>2. PICK h \in [0..n -> Nat] : SumsAlong(h, v)
  BY TotalFold
<1>3. h[0] = 0 /\ h[n] = total(v) /\ \A k \in 1..n : h[k] = h[k - 1] + v[k]
  BY <1>2 DEF SumsAlong
<1>4. \A j \in 1..n : a <= v[j] /\ v[j] <= b
  OBVIOUS
<1> HIDE DEF n
<1> DEFINE T == {k \in Nat : k <= n => a * k <= h[k] /\ h[k] <= b * k}
<1>5. 0 \in T
  BY <1>3
<1>6. ASSUME NEW k \in Nat, k \in T PROVE k + 1 \in T
  <2> SUFFICES ASSUME k + 1 <= n PROVE a * (k + 1) <= h[k + 1] /\ h[k + 1] <= b * (k + 1)
    OBVIOUS
  <2>1. k <= n /\ k + 1 \in 1..n /\ (k + 1) - 1 = k /\ k \in 0..n
    BY <1>1
  <2>2. a * k <= h[k] /\ h[k] <= b * k /\ h[k] \in Nat
    BY <1>6, <2>1
  <2>3. h[k + 1] = h[k] + v[k + 1] /\ v[k + 1] \in Nat /\ a <= v[k + 1] /\ v[k + 1] <= b
    BY <1>1, <1>3, <1>4, <2>1
  <2>4. a * (k + 1) = a * k + a /\ b * (k + 1) = b * k + b /\ a * k \in Nat /\ b * k \in Nat
    OBVIOUS
  <2> DEFINE x == a * k
             y == b * k
             z == h[k]
             w == v[k + 1]
  <2>5. x + a <= z + w /\ z + w <= y + b
    <3>1. x \in Nat /\ y \in Nat /\ z \in Nat /\ w \in Nat /\ x <= z /\ z <= y /\ a <= w /\ w <= b
      BY <2>2, <2>3, <2>4
    <3> HIDE DEF x, y, z, w
    <3> QED BY <3>1
  <2> QED BY <2>3, <2>4, <2>5
<1>7. Nat \subseteq T
  <2> HIDE DEF T
  <2> QED BY <1>5, <1>6, NatSetInduction
<1>8. n \in T /\ n \in 0..n
  BY <1>1, <1>7
<1>9. a * n <= h[n] /\ h[n] <= b * n /\ h[n] \in Nat
  BY <1>1, <1>8
<1> QED BY <1>3, <1>9 DEF n

\* The figures of a vector that is not empty.
LEMMA SummaryOf ==
  ASSUME NEW v \in Seq(Nat), Len(v) > 0
  PROVE  LET n == Len(v)
             s == Summary(v)
         IN /\ s.min <= s.p50 /\ s.p50 <= s.p99 /\ s.p99 <= s.max
            /\ s.min * n <= s.total /\ s.total <= s.max * n
            /\ 2 * Cardinality({j \in 1..n : v[j] <= s.p50}) >= n
            /\ 2 * Cardinality({j \in 1..n : v[j] >= s.p50}) >= n
<1> DEFINE n == Len(v)
           s == Summary(v)
           i == percentile_index(n, 50)
           k == percentile_index(n, 99)
           y == sort_unstable(v)[i + 1]
           z == sort_unstable(v)[k + 1]
<1>1. n \in Nat /\ n > 0 /\ DOMAIN v = 1..n /\ v # <<>> /\ \A j \in 1..n : v[j] \in Nat
  OBVIOUS
<1>2. s.min = min(v) /\ s.max = max(v) /\ s.total = total(v) /\ s.p50 = y /\ s.p99 = z
  BY <1>1 DEF Summary, p50, p99, percentile
<1>3. i \in 0..(n - 1) /\ k \in 0..(n - 1) /\ i <= k
  <2>1. n \in Nat \ {0} /\ 50 \in 0..100 /\ 99 \in 0..100 /\ 50 <= 99
    BY <1>1
  <2> HIDE DEF n
  <2> QED BY <2>1, PercentileIndexInRange, PercentileIndexMonotone
<1>4. i = n \div 2
  <2> HIDE DEF n
  <2>1. i = (100 * (n - 1) + 100) \div 200
    BY <1>1 DEF percentile_index
  <2>2. (100 * (n - 1) + 100) \div 200 = n \div 2
    BY <1>1
  <2> QED BY <2>1, <2>2
<1> HIDE DEF i, k, s
<1>5. i + 1 \in 1..n /\ k + 1 \in 1..n
  BY <1>1, <1>3
<1>6. Ranked(v, i + 1, y) /\ Ranked(v, k + 1, z)
  BY <1>5, SortedRanked
<1> HIDE DEF y, z, n
<1>7. /\ min(v) \in Nat /\ max(v) \in Nat /\ \A j \in 1..n : min(v) <= v[j] /\ v[j] <= max(v)
      /\ y \in Elements(v) /\ z \in Elements(v)
  BY <1>1, <1>6, EndsOf DEF Ranked, n
<1>8. min(v) <= y /\ z <= max(v)
  BY <1>1, <1>7 DEF Elements
<1>9. y <= z
  <2>1. Cardinality(UpTo(v, z)) \in Nat
    BY UpToCount
  <2>2. Cardinality(UpTo(v, z)) >= k + 1
    BY <1>6 DEF Ranked
  <2>3. Cardinality(UpTo(v, z)) >= i + 1
    BY <1>1, <1>3, <2>1, <2>2
  <2> QED BY <1>6, <1>7, <2>3 DEF Ranked
<1>10. total(v) \in Nat /\ min(v) * n <= total(v) /\ total(v) <= max(v) * n
  BY <1>7, TotalBounds DEF n
<1> DEFINE c == Cardinality({j \in 1..n : v[j] <= y})
           d == Cardinality({j \in 1..n : v[j] >= y})
<1>11. c \in Nat /\ c >= i + 1 /\ d \in Nat /\ d > n - (i + 1)
  BY <1>5, <1>6, RankedBelow DEF n
<1>12. 2 * c >= n /\ 2 * d >= n
  <2> HIDE DEF c, d
  <2> QED BY <1>1, <1>3, <1>4, <1>11
<1> QED BY <1>2, <1>8, <1>9, <1>10, <1>12 DEF s, n

\* The figures policyai-token-usage-report prints are in order and within the counts it collected, and
\* p50 splits them in halves; for any number of reports, and whatever the counts are.
THEOREM EvaluationPercentilesAreRanks == Spec => []PercentilesAreRanks
<1>1. ASSUME EvaluatorInv, ToolInv, TallyInv PROVE PercentilesAreRanks
  <2>1. ASSUME tool.name = "token-usage-report", NEW more \in BoundedSeq(Samples, MaxSamples), NEW t \in TokenKinds
        PROVE  usages.tokens["policyai"][t] \o more \in Seq(Nat)
    <3>1. Collected(usages, reports, tool.at, "policyai")
      BY <1>1, <2>1 DEF TallyInv, Sides
    <3>2. usages.tokens["policyai"][t] \in Seq(Nat)
      BY <3>1 DEF Collected
    <3>3. more \in Seq(Nat)
      <4>1. PICK m \in 0..MaxSamples : more \in [1..m -> Samples]
        BY <2>1 DEF BoundedSeq, SeqOf
      <4>2. Samples \subseteq Nat /\ MaxSamples \in Nat
        BY EvaluationBounds
      <4>3. m \in Nat
        BY <4>2
      <4>4. \A j \in 1..m : more[j] \in Nat
        BY <4>1, <4>2
      <4>5. more \in [1..m -> Nat]
        BY <4>1, <4>4
      <4> QED BY <4>3, <4>5
    <3> QED BY <3>2, <3>3, ConcatProperties
  <2> QED BY <2>1, SummaryOf DEF PercentilesAreRanks
<1> QED BY <1>1, EvaluationTallyInvariant, PTL
=============================================================================
