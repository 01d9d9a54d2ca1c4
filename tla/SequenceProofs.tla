---------------------------- MODULE SequenceProofs ----------------------------
(***************************************************************************)
(* Facts about naturals, sequences and folds that the other proofs share.  *)
(* FoldLeft and MapThenFoldSet of the community modules are recursive      *)
(* functions over sets of positions; FoldExists and FoldAlong turn one     *)
(* into a chain of results, one per position.                              *)
(***************************************************************************)
EXTENDS Integers, Sequences, FiniteSets, SequencesExt, FiniteSetsExt, SequenceTheorems, FiniteSetTheorems, WellFoundedInduction, TLAPS
-----------------------------------------------------------------------------
(* Induction and folds.                                                     *)

Less == {ss \in Nat \X Nat : ss[1] < ss[2]}

\* Induction over the naturals, for a set in place of a predicate.
LEMMA NatSetInduction ==
  ASSUME NEW S, 0 \in S, \A n \in Nat : n \in S => n + 1 \in S
  PROVE  Nat \subseteq S
<1> DEFINE T == Nat \ S
<1>1. SUFFICES ASSUME T # {} PROVE FALSE
  OBVIOUS
<1>2. PICK x \in T : \A y \in T : ~(<<y, x>> \in Less)
  <2> HIDE DEF T
  <2>1. T \subseteq Nat
    BY DEF T
  <2>2. OpToRel(<, Nat) = Less
    BY DEF OpToRel, Less
  <2> QED BY <1>1, <2>1, <2>2, NatLessThanWellFounded, WFMin
<1>3. x \in Nat /\ x # 0
  OBVIOUS
<1>4. x - 1 \in Nat /\ x = (x - 1) + 1 /\ <<x - 1, x>> \in Less
  BY <1>3 DEF Less
<1>5. x - 1 \in S
  BY <1>2, <1>4
<1> QED BY <1>4, <1>5

\* The subsets of an interval, by whether they hold its largest element.
LEMMA IntervalTop ==
  ASSUME NEW n \in Nat, NEW t \in SUBSET (1..(n + 1))
  PROVE  /\ n + 1 \notin t => t \in SUBSET (1..n)
         /\ n + 1 \in t => Max(t) = n + 1 /\ t \ {n + 1} \in SUBSET (1..n)
<1>1. \A x \in 1..(n + 1) : x \in 1..n \/ x = n + 1
  OBVIOUS
<1>2. \A x \in 1..(n + 1) : x <= n + 1 /\ x \in Int
  OBVIOUS
<1>3. ASSUME n + 1 \in t PROVE Max(t) = n + 1
  <2>1. \A y \in t : n + 1 >= y
    BY <1>2
  <2>2. \A x \in t : (\A y \in t : x >= y) => x = n + 1
    BY <1>2, <1>3
  <2> QED BY <1>3, <2>1, <2>2 DEF Max
<1> QED BY <1>1, <1>3

LEMMA MaxInside ==
  ASSUME NEW n \in Nat, NEW t \in SUBSET (1..n), t # {}
  PROVE  Max(t) \in t
<1> DEFINE T == {k \in Nat : \A u \in SUBSET (1..k) : u # {} => Max(u) \in u}
<1>1. 0 \in T
  <2>1. 1..0 = {}
    OBVIOUS
  <2> QED BY <2>1
<1>2. ASSUME NEW k \in Nat, k \in T PROVE k + 1 \in T
  BY <1>2, IntervalTop
<1>3. Nat \subseteq T
  <2> HIDE DEF T
  <2> QED BY <1>1, <1>2, NatSetInduction
<1> QED BY <1>3

LEMMA IntervalPrefix ==
  ASSUME NEW n \in Nat, NEW k \in 1..n
  PROVE  /\ 1..k \in SUBSET (1..n) /\ 1..k # {} /\ Max(1..k) = k /\ (1..k) \ {k} = 1..(k - 1)
         /\ k \in 0..n /\ k - 1 \in 0..n
<1>1. k \in Nat /\ k - 1 \in Nat /\ (k - 1) + 1 = k /\ k \in 1..k
  OBVIOUS
<1>2. Max(1..k) = k
  BY <1>1, IntervalTop
<1>3. \A x : x \in (1..k) \ {k} <=> x \in 1..(k - 1)
  BY <1>1
<1>4. (1..k) \ {k} = 1..(k - 1)
  BY <1>3
<1>5. \A x \in 1..k : x \in 1..n
  BY <1>1
<1> QED BY <1>1, <1>2, <1>4, <1>5

\* The elements of a sequence after appending one, and of two sequences put together.
LEMMA AppendSet ==
  ASSUME NEW X, NEW s \in Seq(X), NEW x \in X
  PROVE  ToSet(Append(s, x)) = ToSet(s) \cup {x}
<1>1. /\ DOMAIN s = 1..Len(s) /\ Len(s) \in Nat
      /\ DOMAIN Append(s, x) = 1..(Len(s) + 1)
      /\ \A j \in 1..Len(s) : Append(s, x)[j] = s[j]
      /\ Append(s, x)[Len(s) + 1] = x
  OBVIOUS
<1>2. \A j : j \in 1..(Len(s) + 1) <=> j \in 1..Len(s) \/ j = Len(s) + 1
  BY <1>1
<1> QED BY <1>1, <1>2 DEF ToSet

LEMMA ConcatSet ==
  ASSUME NEW X, NEW s \in Seq(X), NEW t \in Seq(X)
  PROVE  s \o t \in Seq(X) /\ ToSet(s \o t) = ToSet(s) \cup ToSet(t)
<1> DEFINE n == Len(s)
           m == Len(t)
<1>1. /\ DOMAIN s = 1..n /\ DOMAIN t = 1..m /\ n \in Nat /\ m \in Nat
      /\ s \o t \in Seq(X) /\ DOMAIN (s \o t) = 1..(n + m)
      /\ \A j \in 1..(n + m) : (s \o t)[j] = IF j <= n THEN s[j] ELSE t[j - n]
  OBVIOUS
<1> HIDE DEF n, m
<1>2. ASSUME NEW x \in ToSet(s \o t) PROVE x \in ToSet(s) \cup ToSet(t)
  <2>1. PICK j \in 1..(n + m) : x = (s \o t)[j]
    BY <1>1 DEF ToSet
  <2>2. CASE j <= n
    BY <1>1, <2>1, <2>2 DEF ToSet
  <2>3. CASE ~(j <= n)
    <3>1. j - n \in 1..m /\ x = t[j - n]
      BY <1>1, <2>1, <2>3
    <3> QED BY <1>1, <3>1 DEF ToSet
  <2> QED BY <2>2, <2>3
<1>3. ASSUME NEW x \in ToSet(s) PROVE x \in ToSet(s \o t)
  <2>1. PICK j \in 1..n : x = s[j]
    BY <1>1, <1>3 DEF ToSet
  <2>2. j \in 1..(n + m) /\ (s \o t)[j] = x
    BY <1>1, <2>1
  <2> QED BY <1>1, <2>2 DEF ToSet
<1>4. ASSUME NEW x \in ToSet(t) PROVE x \in ToSet(s \o t)
  <2>1. PICK j \in 1..m : x = t[j]
    BY <1>1, <1>4 DEF ToSet
  <2>2. n + j \in 1..(n + m) /\ ~(n + j <= n) /\ (n + j) - n = j
    BY <1>1
  <2>3. (s \o t)[n + j] = x
    BY <1>1, <2>1, <2>2
  <2> QED BY <1>1, <2>2, <2>3 DEF ToSet
<1> QED BY <1>1, <1>2, <1>3, <1>4

\* FoldLeft is defined by recursion over the subsets of the positions, each reached from the subset
\* without its largest position.
FoldsOver(g, F, base, n) ==
  \A t \in SUBSET (1..n) :
    /\ t # {} => Max(t) \in 1..n
    /\ g[t] = IF t = {} THEN base ELSE F[<<g[t \ {Max(t)}], Max(t)>>]

\* Such a recursion has a solution.
LEMMA FoldExists ==
  ASSUME NEW A, NEW base \in A, NEW N \in Nat, NEW F \in [A \X (1..N) -> A]
  PROVE  \E g \in [SUBSET (1..N) -> A] : FoldsOver(g, F, base, N)
<1> DEFINE P(n) == \E g \in [SUBSET (1..n) -> A] : FoldsOver(g, F, base, n)
           S == {n \in Nat : n <= N => P(n)}
<1>1. P(0)
  <2>1. 1..0 = {}
    OBVIOUS
  <2> DEFINE g == [t \in SUBSET (1..0) |-> base]
  <2>2. g \in [SUBSET (1..0) -> A] /\ FoldsOver(g, F, base, 0)
    BY <2>1 DEF FoldsOver
  <2> QED BY <2>2
<1>2. ASSUME NEW n \in Nat, P(n), n + 1 <= N PROVE P(n + 1)
  <2>1. PICK g \in [SUBSET (1..n) -> A] : FoldsOver(g, F, base, n)
    BY <1>2
  <2> DEFINE h == [t \in SUBSET (1..(n + 1)) |-> IF n + 1 \in t THEN F[<<g[t \ {n + 1}], n + 1>>] ELSE g[t]]
  <2>2. \A t \in SUBSET (1..(n + 1)) : n + 1 \in t => Max(t) = n + 1 /\ t \ {n + 1} \in SUBSET (1..n)
    BY IntervalTop
  <2>3. \A t \in SUBSET (1..(n + 1)) : n + 1 \notin t => t \in SUBSET (1..n)
    BY IntervalTop
  <2>4. n + 1 \in 1..N
    BY <1>2
  <2>5. h \in [SUBSET (1..(n + 1)) -> A]
    BY <2>1, <2>2, <2>3, <2>4
  <2>6. ASSUME NEW t \in SUBSET (1..(n + 1))
        PROVE  /\ t # {} => Max(t) \in 1..(n + 1)
               /\ h[t] = IF t = {} THEN base ELSE F[<<h[t \ {Max(t)}], Max(t)>>]
    <3>1. CASE n + 1 \in t
      <4>1. Max(t) = n + 1 /\ t \ {n + 1} \in SUBSET (1..n)
        BY <2>2, <3>1
      <4>2. t \ {n + 1} \in SUBSET (1..(n + 1)) /\ h[t \ {n + 1}] = g[t \ {n + 1}]
        BY <4>1
      <4> QED BY <3>1, <4>1, <4>2
    <3>2. CASE n + 1 \notin t
      <4>1. t \in SUBSET (1..n) /\ h[t] = g[t]
        BY <2>3, <3>2
      <4>2. /\ t # {} => Max(t) \in 1..n
            /\ g[t] = IF t = {} THEN base ELSE F[<<g[t \ {Max(t)}], Max(t)>>]
        BY <2>1, <4>1 DEF FoldsOver
      <4>3. h[t \ {Max(t)}] = g[t \ {Max(t)}]
        BY <3>2, <4>1
      <4> QED BY <4>1, <4>2, <4>3
    <3> QED BY <3>1, <3>2
  <2>7. FoldsOver(h, F, base, n + 1)
    <3> HIDE DEF h
    <3> QED BY <2>6 DEF FoldsOver
  <2> QED BY <2>5, <2>7
<1> HIDE DEF P
<1>3. 0 \in S /\ \A n \in Nat : n \in S => n + 1 \in S
  BY <1>1, <1>2
<1>4. Nat \subseteq S
  <2> HIDE DEF S
  <2> QED BY <1>3, NatSetInduction
<1>5. P(N)
  BY <1>4
<1> QED BY <1>5 DEF P

\* `it` obeys the recursion of a fold as long as the results stay in A.
FoldsTo(it, F, A, base, n) ==
  \A t \in SUBSET (1..n) :
    IF t = {} THEN it[t] = base
    ELSE it[t \ {Max(t)}] \in A => it[t] = F[<<it[t \ {Max(t)}], Max(t)>>]

\* What a fold computes, position by position: h[k] is the result after the first k elements.
Along(h, F, base, n, result) ==
  /\ h[0] = base /\ h[n] = result
  /\ \A k \in 1..n : h[k] = F[<<h[k - 1], k>>]

LEMMA FoldAlong ==
  ASSUME NEW A, NEW base \in A, NEW m \in Nat, NEW G \in [A \X (1..m) -> A], NEW rec,
         FoldsTo(rec, G, A, base, m)
  PROVE  \E h \in [0..m -> A] : Along(h, G, base, m, rec[1..m])
<1> DEFINE h == [k \in 0..m |-> rec[1..k]]
<1>1. h[0] = base
  <2>1. 1..0 = {} /\ {} \in SUBSET (1..m)
    OBVIOUS
  <2>2. rec[{}] = base
    BY <2>1 DEF FoldsTo
  <2> QED BY <2>1, <2>2
<1>2. ASSUME NEW k \in 1..m, h[k - 1] \in A PROVE h[k] = G[<<h[k - 1], k>>] /\ h[k] \in A
  <2>1. /\ 1..k \in SUBSET (1..m) /\ 1..k # {} /\ Max(1..k) = k /\ (1..k) \ {k} = 1..(k - 1)
        /\ k \in 0..m /\ k - 1 \in 0..m
    BY IntervalPrefix
  <2>2. h[k - 1] = rec[1..(k - 1)] /\ h[k] = rec[1..k]
    BY <2>1
  <2>3. rec[1..k] = G[<<rec[1..(k - 1)], k>>]
    BY <1>2, <2>1, <2>2 DEF FoldsTo
  <2>4. G[<<h[k - 1], k>>] \in A
    BY <1>2
  <2> QED BY <2>2, <2>3, <2>4
<1>3. h[m] = rec[1..m]
  OBVIOUS
<1> HIDE DEF h
<1> DEFINE T == {k \in Nat : k <= m => h[k] \in A}
<1>4. 0 \in T
  BY <1>1
<1>5. ASSUME NEW k \in Nat, k \in T PROVE k + 1 \in T
  <2>1. CASE k + 1 <= m
    <3>1. k + 1 \in 1..m /\ (k + 1) - 1 = k /\ h[k] \in A
      BY <1>5, <2>1
    <3>2. h[k + 1] \in A
      BY <1>2, <3>1
    <3> QED BY <3>2
  <2> QED BY <2>1
<1>6. Nat \subseteq T
  <2> HIDE DEF T
  <2> QED BY <1>4, <1>5, NatSetInduction
<1>7. \A k \in 0..m : h[k] \in A
  BY <1>6
<1>8. h \in [0..m -> A]
  BY <1>7 DEF h
<1>9. \A k \in 1..m : k - 1 \in 0..m
  OBVIOUS
<1>10. \A k \in 1..m : h[k] = G[<<h[k - 1], k>>]
  BY <1>2, <1>7, <1>9
<1> QED BY <1>1, <1>3, <1>8, <1>10 DEF Along
-----------------------------------------------------------------------------
(* Prefixes of a sequence.                                                  *)

\* A log is a prefix of itself, of what one appends to it, and prefixes compose.
LEMMA PrefixReflexive ==
  ASSUME NEW S, NEW s \in Seq(S)
  PROVE  IsPrefix(s, s)
<1>1. Len(s) \in Nat
  OBVIOUS
<1> QED BY <1>1 DEF IsPrefix

LEMMA PrefixAppend ==
  ASSUME NEW S, NEW s \in Seq(S), NEW e \in S
  PROVE  IsPrefix(s, Append(s, e))
<1> DEFINE n == Len(s)
           t == Append(s, e)
<1>1. n \in Nat /\ t \in Seq(S) /\ Len(t) = n + 1 /\ \A i \in 1..n : t[i] = s[i]
  BY AppendProperties
<1>2. \A i \in 1..n : s[i] \in S /\ t[i] \in S
  BY <1>1
<1> HIDE DEF n, t
<1>3. /\ SubSeq(s, 1, n) \in Seq(S) /\ Len(SubSeq(s, 1, n)) = n
      /\ \A i \in 1..n : SubSeq(s, 1, n)[i] = s[i]
  BY <1>1, <1>2
<1>4. /\ SubSeq(t, 1, n) \in Seq(S) /\ Len(SubSeq(t, 1, n)) = n
      /\ \A i \in 1..n : SubSeq(t, 1, n)[i] = t[i]
  BY <1>1, <1>2
<1>5. SubSeq(s, 1, n) = SubSeq(t, 1, n)
  BY <1>1, <1>3, <1>4, SeqEqual
<1> QED BY <1>1, <1>5 DEF IsPrefix, n, t

LEMMA PrefixTransitive ==
  ASSUME NEW S, NEW s \in Seq(S), NEW t \in Seq(S), NEW u \in Seq(S), IsPrefix(s, t), IsPrefix(t, u)
  PROVE  IsPrefix(s, u)
<1> DEFINE n == Len(s)
           m == Len(t)
<1>1. n \in Nat /\ m \in Nat /\ Len(u) \in Nat /\ n <= m /\ m <= Len(u)
  BY DEF IsPrefix
<1>2. ASSUME NEW k \in Nat, NEW a \in Seq(S), NEW b \in Seq(S), k <= Len(a), k <= Len(b)
      PROVE  SubSeq(a, 1, k) = SubSeq(b, 1, k) <=> \A i \in 1..k : a[i] = b[i]
  <2>1. \A i \in 1..k : a[i] \in S /\ b[i] \in S
    BY <1>2
  <2>2. /\ SubSeq(a, 1, k) \in Seq(S) /\ Len(SubSeq(a, 1, k)) = k
        /\ \A i \in 1..k : SubSeq(a, 1, k)[i] = a[i]
    BY <2>1
  <2>3. /\ SubSeq(b, 1, k) \in Seq(S) /\ Len(SubSeq(b, 1, k)) = k
        /\ \A i \in 1..k : SubSeq(b, 1, k)[i] = b[i]
    BY <2>1
  <2> QED BY <2>2, <2>3, SeqEqual
<1>3. (\A i \in 1..n : s[i] = t[i]) /\ (\A i \in 1..m : t[i] = u[i])
  BY <1>1, <1>2 DEF IsPrefix
<1>4. \A i \in 1..n : s[i] = u[i]
  BY <1>1, <1>3
<1> QED BY <1>1, <1>2, <1>4 DEF IsPrefix
-----------------------------------------------------------------------------
(* Sums and counts over the positions of a sequence.                        *)

\* g[t] is the sum of F over t, in whichever order it is taken.
SumsOver(g, F, n) == g[{}] = 0 /\ \A t \in SUBSET (1..n) : \A x \in t : g[t] = F[x] + g[t \ {x}]

LEMMA SumExists ==
  ASSUME NEW N \in Nat, NEW F \in [1..N -> Nat]
  PROVE  \E g \in [SUBSET (1..N) -> Nat] : SumsOver(g, F, N)
<1> DEFINE P(n) == \E g \in [SUBSET (1..n) -> Nat] : SumsOver(g, F, n)
           S == {n \in Nat : n <= N => P(n)}
<1>1. P(0)
  <2>1. 1..0 = {}
    OBVIOUS
  <2> DEFINE g == [t \in SUBSET (1..0) |-> 0]
  <2>2. g \in [SUBSET (1..0) -> Nat] /\ SumsOver(g, F, 0)
    BY <2>1 DEF SumsOver
  <2> QED BY <2>2
<1>2. ASSUME NEW n \in Nat, P(n), n + 1 <= N PROVE P(n + 1)
  <2>1. PICK g \in [SUBSET (1..n) -> Nat] : SumsOver(g, F, n)
    BY <1>2
  <2> DEFINE c(t) == IF n + 1 \in t THEN F[n + 1] ELSE 0
             h == [t \in SUBSET (1..(n + 1)) |-> g[t \ {n + 1}] + c(t)]
  <2>2. \A t \in SUBSET (1..(n + 1)) : t \ {n + 1} \in SUBSET (1..n)
    <3>1. \A x \in 1..(n + 1) : x \in 1..n \/ x = n + 1
      OBVIOUS
    <3> QED BY <3>1
  <2>3. n + 1 \in 1..N /\ F[n + 1] \in Nat /\ \A x \in 1..(n + 1) : F[x] \in Nat
    BY <1>2
  <2>4. \A t \in SUBSET (1..(n + 1)) : c(t) \in Nat /\ g[t \ {n + 1}] \in Nat
    BY <2>2, <2>3
  <2>5. h \in [SUBSET (1..(n + 1)) -> Nat]
    BY <2>4
  <2>6. h[{}] = 0
    <3>1. {} \in SUBSET (1..(n + 1)) /\ {} \ {n + 1} = {} /\ c({}) = 0
      OBVIOUS
    <3> QED BY <2>1, <3>1 DEF SumsOver
  <2>7. ASSUME NEW t \in SUBSET (1..(n + 1)), NEW x \in t PROVE h[t] = F[x] + h[t \ {x}]
    <3> DEFINE t0 == t \ {n + 1}
               tx == t \ {x}
    <3>1. tx \in SUBSET (1..(n + 1)) /\ x \in 1..(n + 1)
      OBVIOUS
    <3>2. h[t] = g[t0] + c(t) /\ h[tx] = g[tx \ {n + 1}] + c(tx)
      BY <3>1
    <3>3. CASE x = n + 1
      <4>1. tx \ {n + 1} = t0 /\ c(tx) = 0 /\ c(t) = F[x] /\ g[t0] \in Nat
        BY <2>4, <3>3
      <4>2. h[tx] = g[t0] + 0 /\ h[t] = g[t0] + F[x]
        <5> HIDE DEF h, c, t0, tx
        <5> QED BY <3>2, <4>1
      <4>3. F[x] \in Nat
        BY <2>3, <3>1
      <4> HIDE DEF h, t0
      <4> QED BY <4>1, <4>2, <4>3
    <3>4. CASE x # n + 1
      <4>1. tx \ {n + 1} = t0 \ {x} /\ c(tx) = c(t) /\ x \in t0
        BY <3>4
      <4>2. t0 \in SUBSET (1..n) /\ t0 \ {x} \in SUBSET (1..n)
        BY <2>2
      <4>3. g[t0] = F[x] + g[t0 \ {x}]
        BY <2>1, <4>1, <4>2 DEF SumsOver
      <4>4. g[t0] \in Nat /\ g[t0 \ {x}] \in Nat /\ c(t) \in Nat /\ F[x] \in Nat
        BY <2>3, <2>4, <3>1, <4>2
      <4>5. h[tx] = g[t0 \ {x}] + c(t) /\ h[t] = g[t0] + c(t)
        <5> HIDE DEF h, c, t0, tx
        <5> QED BY <3>2, <4>1
      <4> HIDE DEF h, c, t0
      <4> QED BY <4>3, <4>4, <4>5
    <3> QED BY <3>3, <3>4
  <2> HIDE DEF h
  <2>8. SumsOver(h, F, n + 1)
    BY <2>6, <2>7 DEF SumsOver
  <2> QED BY <2>5, <2>8
<1> HIDE DEF P
<1>3. 0 \in S /\ \A n \in Nat : n \in S => n + 1 \in S
  BY <1>1, <1>2
<1>4. Nat \subseteq S
  <2> HIDE DEF S
  <2> QED BY <1>3, NatSetInduction
<1>5. P(N)
  BY <1>4
<1> QED BY <1>5 DEF P

\* Whatever obeys the recursion of MapThenSumSet is that sum.
SumsByPicking(rec, F, pick, S) ==
  /\ \A t \in SUBSET S : t # {} => pick[t] \in t
  /\ \A t \in SUBSET S : rec[t] = IF t = {} THEN 0 ELSE F[pick[t]] + rec[t \ {pick[t]}]

LEMMA SumUnique ==
  ASSUME NEW N \in Nat, NEW F \in [1..N -> Nat], NEW g \in [SUBSET (1..N) -> Nat], SumsOver(g, F, N),
         NEW S \in SUBSET (1..N), NEW rec, NEW pick, SumsByPicking(rec, F, pick, S)
  PROVE  rec[S] = g[S]
<1> DEFINE P(k) == \A t \in SUBSET S : Cardinality(t) = k => rec[t] = g[t]
           T == {k \in Nat : P(k)}
<1>1. \A t \in SUBSET S : IsFiniteSet(t) /\ Cardinality(t) \in Nat
  <2>1. IsFiniteSet(1..N)
    BY FS_Interval
  <2>2. ASSUME NEW t \in SUBSET S PROVE IsFiniteSet(t)
    <3>1. t \in SUBSET (1..N)
      OBVIOUS
    <3> QED BY <2>1, <3>1, FS_Subset
  <2> QED BY <2>2, FS_CardinalityType
<1>2. rec[{}] = 0 /\ g[{}] = 0
  BY DEF SumsOver, SumsByPicking
<1>3. P(0)
  BY <1>1, <1>2, FS_EmptySet
<1>4. ASSUME NEW k \in Nat, P(k) PROVE P(k + 1)
  <2> SUFFICES ASSUME NEW t \in SUBSET S, Cardinality(t) = k + 1 PROVE rec[t] = g[t]
    OBVIOUS
  <2>1. t # {}
    <3>1. Cardinality(t) # 0
      OBVIOUS
    <3> QED BY <1>1, <3>1, FS_EmptySet
  <2> DEFINE x == pick[t]
  <2>2. x \in t
    BY <2>1 DEF SumsByPicking
  <2> HIDE DEF x
  <2>3. t \ {x} \in SUBSET S /\ Cardinality(t \ {x}) = k
    BY <1>1, <2>2, FS_RemoveElement
  <2>4. rec[t \ {x}] = g[t \ {x}]
    BY <1>4, <2>3
  <2>5. g[t] = F[x] + g[t \ {x}]
    BY <2>2 DEF SumsOver
  <2>6. rec[t] = F[x] + rec[t \ {x}]
    BY <2>1 DEF x, SumsByPicking
  <2> QED BY <2>4, <2>5, <2>6
<1> HIDE DEF P
<1>5. 0 \in T /\ \A k \in Nat : k \in T => k + 1 \in T
  BY <1>3, <1>4
<1>6. Nat \subseteq T
  <2> HIDE DEF T
  <2> QED BY <1>5, NatSetInduction
<1>7. P(Cardinality(S))
  BY <1>1, <1>6
<1> QED BY <1>7 DEF P

\* One more position to count.
LEMMA CountUp ==
  ASSUME NEW n \in Nat, NEW Q
  PROVE  /\ IsFiniteSet(1..n \cap Q) /\ Cardinality(1..n \cap Q) \in Nat
         /\ Cardinality(1..(n + 1) \cap Q) = Cardinality(1..n \cap Q) + (IF n + 1 \in Q THEN 1 ELSE 0)
<1> DEFINE A == 1..n \cap Q
           B == 1..(n + 1) \cap Q
<1>1. IsFiniteSet(A) /\ Cardinality(A) \in Nat
  <2>1. IsFiniteSet(1..n)
    BY FS_Interval
  <2>2. IsFiniteSet(A)
    BY <2>1, FS_Intersection
  <2> QED BY <2>2, FS_CardinalityType
<1>2. \A x : x \in 1..(n + 1) <=> x \in 1..n \/ x = n + 1
  OBVIOUS
<1>3. n + 1 \notin A /\ B = IF n + 1 \in Q THEN A \cup {n + 1} ELSE A
  BY <1>2
<1> HIDE DEF A, B
<1>4. Cardinality(A \cup {n + 1}) = Cardinality(A) + 1
  BY <1>1, <1>3, FS_AddElement
<1> QED BY <1>1, <1>3, <1>4 DEF A, B
-----------------------------------------------------------------------------
(* Concatenations.                                                          *)

\* An element appended to a concatenation is appended to its second part.
LEMMA ConcatAppend ==
  ASSUME NEW X, NEW a \in Seq(X), NEW b \in Seq(X), NEW x \in X
  PROVE  a \o b \in Seq(X) /\ Append(b, x) \in Seq(X) /\ a \o Append(b, x) = Append(a \o b, x)
<1>1. a \o b \in Seq(X) /\ Append(b, x) \in Seq(X) /\ <<x>> \in Seq(X)
  OBVIOUS
<1>2. Append(b, x) = b \o <<x>> /\ Append(a \o b, x) = (a \o b) \o <<x>>
  BY <1>1, AppendIsConcat
<1>3. (a \o b) \o <<x>> = a \o (b \o <<x>>)
  BY <1>1, ConcatAssociative
<1> QED BY <1>1, <1>2, <1>3

\* h[i] is the concatenation of the first i sequences of ss.
Flattens(h, ss, n) == \A i \in 1..n : h[i] = IF i = 1 THEN ss[i] ELSE h[i - 1] \o ss[i]

\* FlattenSeq is a recursive function of the positions of its argument; it has a solution.
LEMMA FlattenExists ==
  ASSUME NEW X, NEW ss \in Seq(Seq(X)), NEW n \in Nat, n <= Len(ss)
  PROVE  \E h \in [1..n -> Seq(X)] : Flattens(h, ss, n)
<1> DEFINE P(k) == \E h \in [1..k -> Seq(X)] : \A i \in 1..k : h[i] = IF i = 1 THEN ss[i] ELSE h[i - 1] \o ss[i]
           S == {k \in Nat : k <= Len(ss) => P(k)}
<1>0. Len(ss) \in Nat
  OBVIOUS
<1>1. P(0)
  <2>1. 1..0 = {}
    OBVIOUS
  <2> DEFINE h == [i \in 1..0 |-> <<>>]
  <2>2. h \in [1..0 -> Seq(X)]
    BY <2>1
  <2> QED BY <2>1, <2>2
<1>2. ASSUME NEW k \in Nat, P(k), k + 1 <= Len(ss) PROVE P(k + 1)
  <2>1. PICK h \in [1..k -> Seq(X)] : \A i \in 1..k : h[i] = IF i = 1 THEN ss[i] ELSE h[i - 1] \o ss[i]
    BY <1>2
  <2>2. k + 1 \in 1..Len(ss) /\ ss[k + 1] \in Seq(X)
    BY <1>0, <1>2
  <2> DEFINE top == IF k = 0 THEN ss[k + 1] ELSE h[k] \o ss[k + 1]
             g == [i \in 1..(k + 1) |-> IF i = k + 1 THEN top ELSE h[i]]
  <2>3. top \in Seq(X)
    <3>1. CASE k = 0
      BY <2>2, <3>1
    <3>2. CASE k # 0
      <4>1. h[k] \in Seq(X)
        BY <3>2
      <4> QED BY <2>2, <3>2, <4>1, ConcatProperties
    <3> QED BY <3>1, <3>2
  <2>4. \A i \in 1..(k + 1) : i # k + 1 => i \in 1..k
    OBVIOUS
  <2>5. g \in [1..(k + 1) -> Seq(X)]
    <3> HIDE DEF top
    <3> QED BY <2>3, <2>4
  <2>6. ASSUME NEW i \in 1..(k + 1) PROVE g[i] = IF i = 1 THEN ss[i] ELSE g[i - 1] \o ss[i]
    <3>1. CASE i = k + 1
      <4>1. i # 1 => k \in 1..(k + 1) /\ k # k + 1 /\ i - 1 = k
        BY <3>1
      <4>2. i # 1 => g[i - 1] = h[k]
        BY <4>1
      <4> QED BY <3>1, <4>2
    <3>2. CASE i # k + 1
      <4>1. i \in 1..k
        BY <2>4, <3>2
      <4>2. i # 1 => i - 1 \in 1..(k + 1) /\ i - 1 # k + 1
        BY <4>1
      <4>3. g[i] = h[i] /\ (i # 1 => g[i - 1] = h[i - 1])
        BY <3>2, <4>2
      <4> QED BY <2>1, <4>1, <4>3
    <3> QED BY <3>1, <3>2
  <2> HIDE DEF g
  <2> QED BY <2>5, <2>6
<1> HIDE DEF P
<1>3. 0 \in S /\ \A k \in Nat : k \in S => k + 1 \in S
  BY <1>0, <1>1, <1>2
<1>4. Nat \subseteq S
  <2> HIDE DEF S
  <2> QED BY <1>3, NatSetInduction
<1>5. P(n)
  BY <1>4
<1> QED BY <1>5 DEF P, Flattens

LEMMA FlattenAlong ==
  ASSUME NEW X, NEW ss \in Seq(Seq(X)), Len(ss) # 0
  PROVE  \E h \in [1..Len(ss) -> Seq(X)] : Flattens(h, ss, Len(ss)) /\ FlattenSeq(ss) = h[Len(ss)]
<1> DEFINE n == Len(ss)
           Body(f) == [i \in 1..n |-> IF i = 1 THEN ss[i] ELSE f[i - 1] \o ss[i]]
           it == CHOOSE f : f = Body(f)
<1>1. FlattenSeq(ss) = it[n]
  BY DEF FlattenSeq
<1>2. n \in Nat /\ n <= Len(ss)
  OBVIOUS
<1>a. PICK h \in [1..n -> Seq(X)] : Flattens(h, ss, n)
  BY <1>2, FlattenExists
<1>3. \A i \in 1..n : h[i] = IF i = 1 THEN ss[i] ELSE h[i - 1] \o ss[i]
  BY <1>a DEF Flattens
<1>4. h = Body(h)
  BY <1>3
<1>5. it = Body(it)
  <2> HIDE DEF Body
  <2> QED BY <1>4, Zenon
<1>6. \A i \in 1..n : it[i] = IF i = 1 THEN ss[i] ELSE it[i - 1] \o ss[i]
  <2> HIDE DEF it
  <2> QED BY <1>5
<1> HIDE DEF it
<1> DEFINE S == {k \in Nat : k \in 1..n => it[k] = h[k]}
<1>7. 0 \in S
  OBVIOUS
<1>8. ASSUME NEW k \in Nat, k \in S PROVE k + 1 \in S
  <2>1. (k + 1) - 1 = k /\ (k + 1 \in 1..n => k = 0 \/ k \in 1..n)
    BY <1>2
  <2>2. k + 1 \in 1..n => it[k + 1] = IF k + 1 = 1 THEN ss[k + 1] ELSE it[k] \o ss[k + 1]
    BY <1>6, <2>1
  <2>3. k + 1 \in 1..n => h[k + 1] = IF k + 1 = 1 THEN ss[k + 1] ELSE h[k] \o ss[k + 1]
    BY <1>3, <2>1
  <2> QED BY <1>8, <2>1, <2>2, <2>3
<1>9. Nat \subseteq S
  <2> HIDE DEF S
  <2> QED BY <1>7, <1>8, NatSetInduction
<1>10. n \in 1..n
  BY <1>2
<1>11. it[n] = h[n]
  <2>1. n \in S
    <3> HIDE DEF S
    <3> QED BY <1>2, <1>9
  <2> QED BY <1>10, <2>1
<1>12. Flattens(h, ss, n)
  BY <1>3 DEF Flattens
<1> QED BY <1>1, <1>11, <1>12

\* FlattenSeq of no sequence, and of one sequence more.
LEMMA FlattenEmpty ==
  FlattenSeq(<<>>) = <<>>
  BY DEF FlattenSeq

LEMMA FlattenType ==
  ASSUME NEW X, NEW ss \in Seq(Seq(X))
  PROVE  FlattenSeq(ss) \in Seq(X)
<1>1. CASE Len(ss) = 0
  <2>1. ss = <<>>
    BY <1>1, EmptySeq
  <2> QED BY <2>1, FlattenEmpty, EmptySeq
<1>2. CASE Len(ss) # 0
  <2>1. PICK h \in [1..Len(ss) -> Seq(X)] : FlattenSeq(ss) = h[Len(ss)]
    BY <1>2, FlattenAlong
  <2>2. Len(ss) \in 1..Len(ss)
    <3>1. Len(ss) \in Nat
      OBVIOUS
    <3> QED BY <1>2, <3>1
  <2> QED BY <2>1, <2>2
<1> QED BY <1>1, <1>2

LEMMA FlattenAppend ==
  ASSUME NEW X, NEW ss \in Seq(Seq(X)), NEW x \in Seq(X)
  PROVE  FlattenSeq(Append(ss, x)) = FlattenSeq(ss) \o x
<1> DEFINE n == Len(ss)
           tt == Append(ss, x)
<1>1. n \in Nat /\ tt \in Seq(Seq(X)) /\ Len(tt) = n + 1 /\ tt[n + 1] = x
      /\ \A i \in 1..n : tt[i] = ss[i]
  BY AppendProperties
<1> HIDE DEF tt
<1>2. PICK g \in [1..Len(tt) -> Seq(X)] : Flattens(g, tt, Len(tt)) /\ FlattenSeq(tt) = g[Len(tt)]
  <2>1. Len(tt) # 0
    BY <1>1
  <2> QED BY <1>1, <2>1, FlattenAlong
<1>3. CASE n = 0
  <2>1. ss = <<>>
    BY <1>3, EmptySeq
  <2>2. g[1] = tt[1]
    BY <1>1, <1>2, <1>3 DEF Flattens
  <2>3. FlattenSeq(tt) = x
    BY <1>1, <1>2, <1>3, <2>2
  <2>4. FlattenSeq(ss) \o x = x
    BY <2>1, FlattenEmpty, ConcatEmptySeq
  <2> QED BY <2>3, <2>4 DEF tt
<1>4. CASE n # 0
  <2>1. PICK h \in [1..n -> Seq(X)] : Flattens(h, ss, Len(ss)) /\ FlattenSeq(ss) = h[n]
    BY <1>4, FlattenAlong
  <2>2. \A i \in 1..n : h[i] = IF i = 1 THEN ss[i] ELSE h[i - 1] \o ss[i]
    BY <2>1 DEF Flattens
  <2>3. \A i \in 1..(n + 1) : g[i] = IF i = 1 THEN tt[i] ELSE g[i - 1] \o tt[i]
    BY <1>1, <1>2 DEF Flattens
  <2> HIDE DEF n
  <2> DEFINE S == {k \in Nat : k \in 1..n => g[k] = h[k]}
  <2>4. 0 \in S
    BY <1>1
  <2>5. ASSUME NEW k \in Nat, k \in S PROVE k + 1 \in S
    <3>1. (k + 1) - 1 = k /\ (k + 1 \in 1..n => (k = 0 \/ k \in 1..n) /\ k + 1 \in 1..(n + 1))
      BY <1>1
    <3>2. k + 1 \in 1..n => g[k + 1] = IF k + 1 = 1 THEN ss[k + 1] ELSE g[k] \o ss[k + 1]
      BY <1>1, <2>3, <3>1
    <3>3. k + 1 \in 1..n => h[k + 1] = IF k + 1 = 1 THEN ss[k + 1] ELSE h[k] \o ss[k + 1]
      BY <2>2, <3>1
    <3> QED BY <2>5, <3>1, <3>2, <3>3
  <2>6. Nat \subseteq S
    <3> HIDE DEF S
    <3> QED BY <2>4, <2>5, NatSetInduction
  <2>7. n \in 1..n /\ n + 1 \in 1..(n + 1) /\ (n + 1) - 1 = n /\ n + 1 # 1
    BY <1>1, <1>4
  <2>8. g[n] = h[n]
    BY <2>6, <2>7
  <2>9. g[n + 1] = g[n] \o tt[n + 1]
    BY <2>3, <2>7
  <2> QED BY <1>1, <1>2, <2>1, <2>8, <2>9 DEF tt
<1> QED BY <1>3, <1>4

\* A sequence is empty or ends in an element, and induction over sequences, for a set in place of a
\* predicate.
LEMMA SeqSnoc ==
  ASSUME NEW X, NEW s \in Seq(X), s # <<>>
  PROVE  \E r \in Seq(X), x \in X : s = Append(r, x) /\ Len(s) = Len(r) + 1
<1> DEFINE n == Len(s)
           r == SubSeq(s, 1, n - 1)
<1>1. n \in Nat \ {0}
  BY EmptySeq
<1>2. \A i \in 1..(n - 1) : i \in 1..n /\ s[i] \in X
  BY <1>1
<1>3. s[n] \in X
  BY <1>1
<1>4. r \in Seq(X) /\ Len(r) = n - 1 /\ \A i \in 1..(n - 1) : r[i] = s[i]
  <2>1. n - 1 \in Nat /\ n \in Int
    BY <1>1
  <2> HIDE DEF n
  <2> QED BY <1>2, <2>1
<1> HIDE DEF n, r
<1>5. /\ Append(r, s[n]) \in Seq(X) /\ Len(Append(r, s[n])) = (n - 1) + 1
      /\ Append(r, s[n])[(n - 1) + 1] = s[n]
      /\ \A i \in 1..(n - 1) : Append(r, s[n])[i] = r[i]
  BY <1>3, <1>4, AppendProperties
<1>6. (n - 1) + 1 = n /\ \A i \in 1..n : i \in 1..(n - 1) \/ i = n
  BY <1>1
<1>7. Len(Append(r, s[n])) = Len(s) /\ \A i \in 1..Len(s) : Append(r, s[n])[i] = s[i]
  BY <1>4, <1>5, <1>6 DEF n
<1>8. s = Append(r, s[n])
  BY <1>5, <1>7, SeqEqual
<1>9. n = Len(r) + 1
  BY <1>4, <1>6
<1> QED BY <1>3, <1>4, <1>8, <1>9 DEF n

LEMMA SeqInduction ==
  ASSUME NEW X, NEW S, <<>> \in S,
         \A s \in Seq(X), x \in X : s \in S => Append(s, x) \in S
  PROVE  Seq(X) \subseteq S
<1> DEFINE T == {n \in Nat : \A s \in Seq(X) : Len(s) = n => s \in S}
<1>1. 0 \in T
  <2>1. \A s \in Seq(X) : Len(s) = 0 => s = <<>>
    BY EmptySeq
  <2> QED BY <2>1
<1>2. ASSUME NEW n \in Nat, n \in T PROVE n + 1 \in T
  <2>1. ASSUME NEW s \in Seq(X), Len(s) = n + 1 PROVE s \in S
    <3>1. s # <<>>
      BY <2>1
    <3>2. PICK r \in Seq(X), x \in X : s = Append(r, x) /\ Len(s) = Len(r) + 1
      BY <3>1, SeqSnoc
    <3>3. Len(r) = n
      <4>1. Len(r) \in Nat
        OBVIOUS
      <4> QED BY <2>1, <3>2, <4>1
    <3> QED BY <1>2, <3>2, <3>3
  <2> QED BY <2>1
<1>3. Nat \subseteq T
  <2> HIDE DEF T
  <2> QED BY <1>1, <1>2, NatSetInduction
<1>4. \A s \in Seq(X) : Len(s) \in Nat
  OBVIOUS
<1> QED BY <1>3, <1>4

\* A function on one position more is that of the positions before with its last value appended.
LEMMA FunctionAppend ==
  ASSUME NEW Y, NEW n \in Nat, NEW f \in [1..(n + 1) -> Y], NEW g \in [1..n -> Y],
         \A j \in 1..n : f[j] = g[j]
  PROVE  f \in Seq(Y) /\ g \in Seq(Y) /\ f = Append(g, f[n + 1])
<1>1. f \in Seq(Y) /\ Len(f) = n + 1 /\ g \in Seq(Y) /\ Len(g) = n
  OBVIOUS
<1>2. f[n + 1] \in Y
  OBVIOUS
<1>3. /\ Append(g, f[n + 1]) \in Seq(Y) /\ Len(Append(g, f[n + 1])) = n + 1
      /\ Append(g, f[n + 1])[n + 1] = f[n + 1]
      /\ \A j \in 1..n : Append(g, f[n + 1])[j] = g[j]
  BY <1>1, <1>2, AppendProperties
<1>4. \A j \in 1..(n + 1) : j \in 1..n \/ j = n + 1
  OBVIOUS
<1>5. \A j \in 1..(n + 1) : f[j] = Append(g, f[n + 1])[j]
  BY <1>3, <1>4
<1> QED BY <1>1, <1>3, <1>5, SeqEqual

\* The element before the last one left out.
LEMMA DropSecondLast ==
  ASSUME NEW S, NEW s \in Seq(S), NEW a \in S, NEW b \in S, NEW d, d = Append(Append(s, a), b)
  PROVE  SubSeq(d, 1, Len(d) - 2) \o <<d[Len(d)]>> = Append(s, b)
<1> DEFINE n == Len(s)
           r == Append(s, a)
<1>1. n \in Nat /\ r \in Seq(S) /\ Len(r) = n + 1 /\ \A j \in 1..n : r[j] = s[j]
  OBVIOUS
<1>2. s \o <<b>> = Append(s, b)
  OBVIOUS
<1>3. d = Append(r, b)
  OBVIOUS
<1> HIDE DEF r
<1>4. d \in Seq(S) /\ Len(d) = n + 2 /\ d[n + 2] = b
  BY <1>1, <1>3
<1>5. \A j \in 1..n : d[j] = s[j]
  BY <1>1, <1>3
<1> DEFINE u == SubSeq(d, 1, n)
<1>6. u \in Seq(S) /\ Len(u) = n /\ \A j \in 1..n : u[j] = d[j]
  BY <1>1, <1>4
<1> HIDE DEF u
<1>7. u = s
  <2>1. \A j \in 1..n : u[j] = s[j]
    BY <1>5, <1>6
  <2> QED BY <1>6, <2>1
<1>8. Len(d) - 2 = n /\ d[Len(d)] = b
  BY <1>1, <1>4
<1> QED BY <1>2, <1>7, <1>8 DEF u

LEMMA AppendNotEmpty ==
  ASSUME NEW S, NEW s \in Seq(S), NEW x \in S
  PROVE  Append(s, x) # <<>>
<1>1. Len(Append(s, x)) = Len(s) + 1 /\ Len(s) \in Nat
  OBVIOUS
<1>2. Len(<<>>) = 0
  OBVIOUS
<1> QED BY <1>1, <1>2

\* A sequence from its first element on.
Leads(d, x, s) ==
  d # <<>> /\ Len(d) = Len(s) + 1 /\ d[1] = x /\ \A j \in 1..Len(s) : d[j + 1] = s[j]

LEMMA ConsFacts ==
  ASSUME NEW X, NEW x \in X, NEW s \in Seq(X)
  PROVE  Cons(x, s) \in Seq(X) /\ Leads(Cons(x, s), x, s)
<1>1. <<x>> \in Seq(X) /\ Len(<<x>>) = 1 /\ <<x>>[1] = x /\ Len(s) \in Nat
  OBVIOUS
<1> DEFINE u == <<x>>
           d == u \o s
<1> HIDE DEF u
<1>2. u \in Seq(X) /\ Len(u) = 1 /\ u[1] = x
  BY <1>1 DEF u
<1>3. /\ d \in Seq(X) /\ Len(d) = Len(u) + Len(s)
      /\ \A j \in 1..(Len(u) + Len(s)) : d[j] = IF j <= Len(u) THEN u[j] ELSE s[j - Len(u)]
  BY <1>2, ConcatProperties
<1> HIDE DEF d
<1>4. \A j \in 1..Len(s) : j + 1 \in 1..(1 + Len(s)) /\ ~(j + 1 <= 1) /\ (j + 1) - 1 = j
  BY <1>1
<1>5. 1 \in 1..(1 + Len(s)) /\ 1 <= 1 /\ 1 + Len(s) = Len(s) + 1 /\ Len(s) + 1 # 0
  BY <1>1
<1>6. d[1] = x /\ \A j \in 1..Len(s) : d[j + 1] = s[j]
  BY <1>2, <1>3, <1>4, <1>5
<1>7. Len(d) = Len(s) + 1 /\ d # <<>>
  BY <1>2, <1>3, <1>5
<1> QED BY <1>3, <1>6, <1>7 DEF Leads, Cons, d, u

LEMMA SeqCons ==
  ASSUME NEW X, NEW s \in Seq(X), s # <<>>
  PROVE  \E x \in X, r \in Seq(X) : s = Cons(x, r)
<1> DEFINE n == Len(s)
           r == Tail(s)
<1>1. n \in Nat \ {0}
  BY EmptySeq
<1>2. s[1] \in X
  BY <1>1
<1>3. r \in Seq(X) /\ Len(r) = n - 1 /\ \A j \in 1..(n - 1) : r[j] = s[j + 1]
  BY <1>1
<1> DEFINE h == s[1]
           d == Cons(h, r)
<1>4. h \in X /\ h = s[1]
  BY <1>2
<1> HIDE DEF h, r
<1>5. /\ d \in Seq(X) /\ Len(d) = Len(r) + 1 /\ d[1] = h
      /\ \A j \in 1..Len(r) : d[j + 1] = r[j]
  <2>1. d \in Seq(X) /\ Leads(d, h, r)
    BY <1>3, <1>4, ConsFacts
  <2> HIDE DEF d
  <2> QED BY <2>1 DEF Leads
<1> HIDE DEF d
<1>6. \A j \in 1..n : d[j] = s[j]
  <2>1. ASSUME NEW j \in 1..n, j # 1 PROVE d[j] = s[j]
    <3> DEFINE i == j - 1
    <3>1. i \in 1..(n - 1) /\ i + 1 = j
      BY <1>1, <2>1
    <3> HIDE DEF i
    <3>2. r[i] = s[i + 1] /\ d[i + 1] = r[i]
      BY <1>3, <1>5, <3>1
    <3> QED BY <3>1, <3>2
  <2> QED BY <1>4, <1>5, <2>1
<1>7. Len(d) = n
  BY <1>1, <1>3, <1>5
<1>8. d = s
  BY <1>5, <1>6, <1>7, SeqEqual
<1> QED BY <1>3, <1>4, <1>8 DEF d

\* An element moves from the front of one part to the end of the other.
LEMMA ConsMoves ==
  ASSUME NEW X, NEW a \in Seq(X), NEW x \in X, NEW b \in Seq(X)
  PROVE  a \o Cons(x, b) = Append(a, x) \o b
<1>1. <<x>> \in Seq(X) /\ a \o <<x>> = Append(a, x)
  BY AppendIsConcat
<1>2. a \o (<<x>> \o b) = (a \o <<x>>) \o b
  BY <1>1, ConcatAssociative
<1> QED BY <1>1, <1>2 DEF Cons

\* f is h and then g.
Shifts(f, g, h, n, Y) ==
  /\ n \in Nat /\ f \in [1..(n + 1) -> Y] /\ g \in [1..n -> Y]
  /\ f[1] = h /\ \A j \in 1..n : f[j + 1] = g[j]

LEMMA FunctionCons ==
  ASSUME NEW Y, NEW n, NEW f, NEW g, NEW h, Shifts(f, g, h, n, Y)
  PROVE  f = Cons(h, g)
<1>1. n \in Nat /\ f \in [1..(n + 1) -> Y] /\ g \in [1..n -> Y] /\ f[1] = h
  BY DEF Shifts
<1>2. f \in Seq(Y) /\ Len(f) = n + 1 /\ g \in Seq(Y) /\ Len(g) = n /\ h \in Y
  BY <1>1
<1> DEFINE d == Cons(h, g)
<1>3. d \in Seq(Y) /\ Leads(d, h, g)
  BY <1>2, ConsFacts
<1> HIDE DEF d
<1>4. Len(d) = n + 1 /\ d[1] = h /\ \A j \in 1..n : d[j + 1] = g[j]
  BY <1>2, <1>3 DEF Leads
<1>5. \A j \in 1..(n + 1) : f[j] = d[j]
  <2>1. ASSUME NEW j \in 1..(n + 1), j # 1 PROVE f[j] = d[j]
    <3> DEFINE i == j - 1
    <3>1. i \in 1..n /\ i + 1 = j
      BY <1>1, <2>1
    <3> HIDE DEF i
    <3>2. f[i + 1] = g[i] /\ d[i + 1] = g[i]
      BY <1>4, <3>1 DEF Shifts
    <3> QED BY <3>1, <3>2
  <2> QED BY <1>1, <1>4, <2>1
<1>6. f = d
  BY <1>2, <1>3, <1>4, <1>5, SeqEqual
<1> QED BY <1>6 DEF d

LEMMA FlattenCons ==
  ASSUME NEW X, NEW w \in Seq(X), NEW ss \in Seq(Seq(X))
  PROVE  FlattenSeq(Cons(w, ss)) = w \o FlattenSeq(ss)
<1> DEFINE S == {tt \in Seq(Seq(X)) : FlattenSeq(Cons(w, tt)) = w \o FlattenSeq(tt)}
<1>1. <<>> \in S
  <2>1. Cons(w, <<>>) = Append(<<>>, w)
    BY DEF Cons
  <2>4. <<>> \in Seq(Seq(X))
    OBVIOUS
  <2>2. FlattenSeq(Append(<<>>, w)) = FlattenSeq(<<>>) \o w
    BY <2>4, FlattenAppend
  <2>3. <<>> \o w = w /\ w \o <<>> = w
    BY ConcatEmptySeq
  <2> QED BY <2>1, <2>2, <2>3, <2>4, FlattenEmpty
<1>2. ASSUME NEW tt \in Seq(Seq(X)), NEW v \in Seq(X), tt \in S PROVE Append(tt, v) \in S
  <2>1. <<w>> \in Seq(Seq(X)) /\ Append(tt, v) \in Seq(Seq(X))
    OBVIOUS
  <2>2. Cons(w, Append(tt, v)) = Append(Cons(w, tt), v) /\ Cons(w, tt) \in Seq(Seq(X))
    BY <2>1, ConcatAppend DEF Cons
  <2>3. /\ FlattenSeq(Append(Cons(w, tt), v)) = FlattenSeq(Cons(w, tt)) \o v
        /\ FlattenSeq(Append(tt, v)) = FlattenSeq(tt) \o v
    BY <2>2, FlattenAppend
  <2>4. FlattenSeq(tt) \in Seq(X)
    BY FlattenType
  <2>5. (w \o FlattenSeq(tt)) \o v = w \o (FlattenSeq(tt) \o v)
    <3> DEFINE u == FlattenSeq(tt)
    <3> HIDE DEF u
    <3>1. u \in Seq(X)
      BY <2>4 DEF u
    <3>2. (w \o u) \o v = w \o (u \o v)
      BY <3>1, ConcatAssociative
    <3> QED BY <3>2 DEF u
  <2>6. FlattenSeq(Cons(w, tt)) = w \o FlattenSeq(tt)
    BY <1>2
  <2> QED BY <2>1, <2>2, <2>3, <2>5, <2>6
<1>3. Seq(Seq(X)) \subseteq S
  <2> HIDE DEF S
  <2> QED BY <1>1, <1>2, SeqInduction
<1> QED BY <1>3
=============================================================================
