------------------------------- MODULE Sampling -------------------------------
(***************************************************************************)
(* apply_policy_fractional in src/data.rs: ask the LLM up to n times       *)
(* whether a policy applies to a text, stop at k yeses, and the two        *)
(* predicates that call it, policy_applies and policy_does_not_apply.      *)
(* `yes` and `asked` are the loop's counters; every question is one await. *)
(***************************************************************************)
EXTENDS Integers

CONSTANTS
  Ks, Ns   \* the thresholds and numbers of attempts callers may pass (usize)

ASSUME SamplingBounds == Ks \subseteq Nat /\ Ns \subseteq Nat

VARIABLES
  predicate,   \* "applies" or "does_not_apply": which of the two is running
  k, n,        \* its arguments
  success,     \* yes answers so far
  total,       \* questions so far
  pc,          \* "asking", "true", "false" or "Err"
  nos          \* history: no answers so far

vars == <<predicate, k, n, success, total, pc, nos>>

saturating_sub(a, b) == IF a >= b THEN a - b ELSE 0

\* Mutants: one yes too few is enough; the threshold is taken for the number of noes.
policy_applies_off_by_one(s) == s + 1 >= k
policy_does_not_apply_up_to_k(s) == s <= k

policy_applies(s) == s >= k
policy_does_not_apply(s) == s <= saturating_sub(n, k)

Verdict(s) == IF predicate = "applies" THEN policy_applies(s) ELSE policy_does_not_apply(s)

Init ==
  /\ predicate \in {"applies", "does_not_apply"}
  /\ k \in Ks /\ n \in Ns
  /\ success = 0 /\ total = 0 /\ nos = 0
  /\ pc = "asking"

\* Mutants: the loop runs once too often, for the questions and for the yeses.
MoreToAsk_past_n == success < k /\ total <= n
MoreToAsk_past_k == success <= k /\ total < n

\* The loop's guard, evaluated before each question.
MoreToAsk == success < k /\ total < n

\* The answer to one question: the stop sequence "yes" or "no".
Answer(yes) ==
  /\ pc = "asking" /\ MoreToAsk
  /\ total' = total + 1
  /\ success' = IF yes THEN success + 1 ELSE success
  /\ nos' = IF yes THEN nos ELSE nos + 1
  /\ UNCHANGED <<predicate, k, n, pc>>

\* The client fails, or the response does not stop at "yes" or "no".
AnswerFails ==
  /\ pc = "asking" /\ MoreToAsk
  /\ total' = total + 1
  /\ pc' = "Err"
  /\ UNCHANGED <<predicate, k, n, success, nos>>

\* Mutant: only k yeses end the call.
Finish_on_success ==
  /\ pc = "asking" /\ success >= k
  /\ pc' = IF Verdict(success) THEN "true" ELSE "false"
  /\ UNCHANGED <<predicate, k, n, success, total, nos>>

Finish ==
  /\ pc = "asking" /\ ~MoreToAsk
  /\ pc' = IF Verdict(success) THEN "true" ELSE "false"
  /\ UNCHANGED <<predicate, k, n, success, total, nos>>

Next == Answer(TRUE) \/ Answer(FALSE) \/ AnswerFails \/ Finish

\* client.send resolves sooner or later.
Spec == Init /\ [][Next]_vars /\ WF_vars(Next)
-----------------------------------------------------------------------------
\* Every variable has its type, and no more than n questions are asked.
TypeOK ==
  /\ predicate \in {"applies", "does_not_apply"}
  /\ k \in Ks /\ n \in Ns
  /\ total \in 0..n /\ success \in 0..total /\ nos \in 0..total
  /\ pc \in {"asking", "true", "false", "Err"}

\* The loop never asks more than n questions nor counts more than k yeses, and it counts each
\* answer once.
Counted ==
  /\ success <= k /\ total <= n
  /\ total = success + nos + (IF pc = "Err" THEN 1 ELSE 0)

\* policy_applies says yes exactly when it collected k yeses, and says no only when the answers it
\* did not ask for could no longer have changed that.
AppliesIsExact ==
  predicate = "applies" =>
    /\ pc = "true" => success = k
    /\ pc = "false" => nos > n - k \/ n < k

\* When a majority is asked for (n < 2k), a text on which k of the questions are answered yes is never
\* taken as one to which the policy does not apply.
NegativesAreNegative ==
  predicate = "does_not_apply" /\ pc = "true" /\ n < 2 * k => success < k

\* Every verdict that is reached is final, and one is always reached.
Terminates == <>(pc # "asking")
=============================================================================
