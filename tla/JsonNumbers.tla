----------------------------- MODULE JsonNumbers -----------------------------
(***************************************************************************)
(* The number comparisons of src/lib.rs.  A serde_json::Number is a tagged *)
(* pair: <<"pos", n>> (a u64), <<"neg", n>> (a negative i64) or            *)
(* <<"float", x>>.  A finite f64 is its rank on an integer scale, on which *)
(* 0.0 has rank 0; F64 is the rounding conversion `as f64` of an integer,  *)
(* onto that scale.  serde_json numbers are never NaN or infinite.         *)
(***************************************************************************)
EXTENDS Integers

CONSTANTS
  Ints,     \* the integers that occur (u64 and negative i64)
  Floats,   \* the ranks of the f64 values that occur
  I64Max,   \* i64::MAX: a u64 above it is not an i64
  F64       \* the conversion of an integer to the rank of the nearest f64

ASSUME NumberSets == Ints \subseteq Int /\ Floats \subseteq Int /\ I64Max \in Nat

\* Rounding to the nearest f64 is monotone and preserves the sign; it is not injective.
ASSUME F64Type == F64 \in [Ints -> Int]
ASSUME F64Monotone == \A i, j \in Ints : i <= j => F64[i] <= F64[j]
ASSUME F64Sign == \A i \in Ints : i < 0 <=> F64[i] < 0

Numbers == {<<"pos", n>> : n \in {i \in Ints : i >= 0}}
             \cup {<<"neg", n>> : n \in {i \in Ints : i < 0}}
             \cup {<<"float", x>> : x \in Floats}

is_f64(n) == n[1] = "float"
is_u64(n) == n[1] = "pos"
is_i64(n) == n[1] = "neg" \/ (n[1] = "pos" /\ n[2] <= I64Max)
as_f64(n) == IF is_f64(n) THEN n[2] ELSE F64[n[2]]

\* Whether two numbers are compared as integers rather than through f64.
ComparedAsInts(l, r) == (is_u64(l) /\ is_u64(r)) \/ (is_i64(l) /\ is_i64(r))

number_is_equal(l, r) == IF ComparedAsInts(l, r) THEN l[2] = r[2] ELSE as_f64(l) = as_f64(r)

number_less_than(l, r) == IF ComparedAsInts(l, r) THEN l[2] < r[2] ELSE as_f64(l) < as_f64(r)
=============================================================================
