--------------------------- MODULE SamplingProofs ---------------------------
(* The safety properties of Sampling for every threshold k and every n.      *)
EXTENDS Sampling, TLAPS

\* The three loop facts that hold together: the counters are in range, each answer is counted
\* once, and a verdict is given only when the loop guard fails.
SamplingInv ==
  /\ TypeOK
  /\ Counted
  /\ pc \in {"true", "false"} => ~MoreToAsk /\ (pc = "true" <=> Verdict(success))

\* SamplingInv holds in every state of the loop of apply_policy_fractional.
THEOREM SamplingInvariant == Spec => []SamplingInv
<1> USE SamplingBounds
<1>1. Init => SamplingInv
  BY DEF Init, SamplingInv, TypeOK, Counted
<1>2. SamplingInv /\ [Next]_vars => SamplingInv'
  <2> SUFFICES ASSUME SamplingInv, [Next]_vars PROVE SamplingInv'
    OBVIOUS
  <2> USE DEF SamplingInv, TypeOK, Counted, MoreToAsk
  <2>1. ASSUME NEW yes \in BOOLEAN, Answer(yes) PROVE SamplingInv'
    BY <2>1 DEF Answer
  <2>2. CASE AnswerFails
    BY <2>2 DEF AnswerFails
  <2>3. CASE Finish
    BY <2>3 DEF Finish, Verdict, policy_applies, policy_does_not_apply
  <2>4. CASE UNCHANGED vars
    BY <2>4 DEF vars, Verdict, policy_applies, policy_does_not_apply
  <2> QED BY <2>1, <2>2, <2>3, <2>4 DEF Next
<1> QED BY <1>1, <1>2, PTL DEF Spec

\* The loop of apply_policy_fractional asks no more than n questions.
THEOREM SamplingTypeCorrect == Spec => []TypeOK
  BY SamplingInvariant, PTL DEF SamplingInv

\* apply_policy_fractional never asks more than n times and counts each answer once.
THEOREM SamplingCounted == Spec => []Counted
  BY SamplingInvariant, PTL DEF SamplingInv

\* policy_applies is exact: true after k yeses, false only when k yeses were out of reach.
THEOREM SamplingAppliesIsExact == Spec => []AppliesIsExact
<1>1. SamplingInv => AppliesIsExact
  BY SamplingBounds DEF SamplingInv, TypeOK, Counted, MoreToAsk, AppliesIsExact, Verdict, policy_applies
<1> QED BY <1>1, SamplingInvariant, PTL

\* For a majority threshold, policy_does_not_apply never accepts a text with k yeses.
THEOREM SamplingNegatives == Spec => []NegativesAreNegative
<1>1. SamplingInv => NegativesAreNegative
  BY SamplingBounds
     DEF SamplingInv, TypeOK, Counted, MoreToAsk, NegativesAreNegative, Verdict,
         policy_does_not_apply, saturating_sub
<1> QED BY <1>1, SamplingInvariant, PTL
=============================================================================
