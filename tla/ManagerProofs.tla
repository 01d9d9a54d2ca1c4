---------------------------- MODULE ManagerProofs ----------------------------
(***************************************************************************)
(* The accounting of Manager::apply, for every set of policies, templates, *)
(* answers and tokens, and every limit on attempts and calls.              *)
(***************************************************************************)
EXTENDS Manager, BuilderOpsProofs

TokenType == {None} \cup ({"some"} \X Nat)

UsageType == [tokens : TokenType, iterations : Nat, timed : BOOLEAN]

\* The part of the state the accounting depends on has its type.
CountersOK ==
  /\ pc \in {"idle", "sending", "panicked"}
  /\ attempt \in Nat /\ responses \in Nat /\ spent \in Nat /\ applies \in Nat
  /\ tracked \in BOOLEAN /\ usage \in UsageType
  /\ responses = 0 => spent = 0

\* While apply waits for a reply it has returned nothing yet and has attempts left.
InCall ==
  pc = "sending" =>
    /\ result = "none" /\ applies > 0
    /\ attempt = responses + 1 /\ attempt <= MaxAttempts

\* What the caller's Usage shows, unless request_for failed before it was reset.
UsageShown ==
  tracked /\ result # "Policy" /\ applies > 0 =>
    /\ usage.iterations = responses
    /\ usage.tokens = IF responses = 0 THEN None ELSE <<"some", spent>>
    /\ usage.timed <=> result \in {"Ok", "TooManyIterations"}

GaveUp == result = "TooManyIterations" => responses = MaxAttempts

UsageInv == CountersOK /\ InCall /\ UsageShown /\ GaveUp

LEMMA UsageInit == Init => UsageInv
<1> SUFFICES ASSUME Init PROVE UsageInv
  OBVIOUS
<1>1. usage \in UsageType
  BY DEF Init, NoUsage, UsageType, TokenType, None
<1> QED BY <1>1 DEF Init, UsageInv, CountersOK, InCall, UsageShown, GaveUp

\* What the two setters do to a usage.
Counted(u, k, m) == [u EXCEPT !.tokens = k, !.iterations = m]

LEMMA UsageCounted ==
  ASSUME NEW u \in UsageType, NEW k \in TokenType, NEW m \in Nat
  PROVE  /\ Counted(u, k, m) \in UsageType
         /\ Counted(u, k, m).tokens = k
         /\ Counted(u, k, m).iterations = m
         /\ Counted(u, k, m).timed = u.timed
  BY DEF UsageType, Counted

LEMMA UsageTimed ==
  ASSUME NEW u \in UsageType
  PROVE  LET after == [u EXCEPT !.timed = TRUE]
         IN  /\ after \in UsageType
             /\ after.tokens = u.tokens /\ after.iterations = u.iterations /\ after.timed = TRUE
  BY DEF UsageType

\* A response is counted once, with its tokens.
LEMMA CountResponse ==
  ASSUME UsageInv, NEW t \in Nat, NEW timed \in BOOLEAN, Receive(t), Track(t, timed)
  PROVE  /\ usage' \in UsageType
         /\ responses' = responses + 1 /\ responses' \in Nat
         /\ spent' = spent + t /\ spent' \in Nat
         /\ tracked => /\ usage'.iterations = responses'
                       /\ usage'.tokens = <<"some", spent'>>
                       /\ usage'.timed = timed
         /\ pc = "sending"
<1>1. pc = "sending" /\ responses' = responses + 1 /\ spent' = spent + t
  BY DEF Receive
<1>2. responses \in Nat /\ spent \in Nat /\ usage \in UsageType /\ tracked \in BOOLEAN
  BY DEF UsageInv, CountersOK
<1>3. CASE ~tracked
  BY <1>1, <1>2, <1>3 DEF Track
<1>4. CASE tracked
  <2>1. /\ usage.iterations = responses
        /\ usage.tokens = IF responses = 0 THEN None ELSE <<"some", spent>>
        /\ usage.timed = FALSE
    BY <1>1, <1>2, <1>4 DEF UsageInv, InCall, UsageShown, UsageType
  <2>2. spent + t = (IF usage.tokens = None THEN t ELSE usage.tokens[2] + t)
    <3>1. CASE responses = 0
      <4>1. spent = 0 /\ usage.tokens = None
        BY <2>1, <3>1 DEF UsageInv, CountersOK
      <4> QED BY <4>1
    <3>2. CASE responses # 0
      <4>1. usage.tokens = <<"some", spent>>
        BY <2>1, <3>2
      <4>2. usage.tokens # None /\ usage.tokens[2] = spent
        BY <1>2, <4>1 DEF None
      <4> QED BY <4>2
    <3> QED BY <3>1, <3>2
  <2> DEFINE tok == IF usage.tokens = None THEN <<"some", t>> ELSE <<"some", usage.tokens[2] + t>>
  <2>3. tok = <<"some", spent'>>
    BY <1>1, <2>2
  <2>4. tok \in TokenType /\ usage.iterations + 1 \in Nat /\ usage.iterations + 1 = responses'
    BY <1>1, <1>2, <2>1, <2>3 DEF TokenType
  <2>5. AfterResponse(t) = Counted(usage, tok, usage.iterations + 1)
    BY DEF AfterResponse, Counted
  <2>6. /\ AfterResponse(t) \in UsageType
        /\ AfterResponse(t).tokens = <<"some", spent'>>
        /\ AfterResponse(t).iterations = responses'
        /\ AfterResponse(t).timed = FALSE
    <3> DEFINE n == usage.iterations + 1
               after == Counted(usage, tok, n)
    <3>1. usage \in UsageType /\ tok \in TokenType /\ n \in Nat
      BY <1>2, <2>4
    <3> HIDE DEF tok, n
    <3>2. /\ after \in UsageType /\ after.tokens = tok
          /\ after.iterations = n /\ after.timed = usage.timed
      BY <3>1, UsageCounted
    <3>3. AfterResponse(t) = after /\ n = responses'
      BY <2>4, <2>5 DEF n
    <3> HIDE DEF after
    <3> QED BY <2>1, <2>3, <3>2, <3>3
  <2>7. responses' \in Nat /\ spent' \in Nat
    BY <1>1, <1>2
  <2>8. CASE timed
    <3>1. usage' = [AfterResponse(t) EXCEPT !.timed = TRUE]
      BY <1>4, <2>8 DEF Track
    <3> QED BY <1>1, <2>6, <2>7, <2>8, <3>1, UsageTimed
  <2>9. CASE ~timed
    <3>1. usage' = AfterResponse(t)
      BY <1>4, <2>9 DEF Track
    <3> QED BY <1>1, <2>6, <2>7, <2>9, <3>1
  <2> QED BY <2>8, <2>9
<1> QED BY <1>3, <1>4

\* apply returns after a response.
LEMMA ReturnAfterResponse ==
  ASSUME UsageInv, NEW t \in Nat, NEW timed \in BOOLEAN, NEW how, NEW error,
         Receive(t), Track(t, timed), Return(how, error),
         timed <=> how \in {"Ok", "TooManyIterations"},
         how = "TooManyIterations" => attempt = MaxAttempts
  PROVE  UsageInv'
<1>1. /\ usage' \in UsageType
      /\ responses' = responses + 1 /\ responses' \in Nat
      /\ spent' = spent + t /\ spent' \in Nat
      /\ tracked => /\ usage'.iterations = responses'
                    /\ usage'.tokens = <<"some", spent'>>
                    /\ usage'.timed = timed
      /\ pc = "sending"
  BY CountResponse
<1>2. /\ pc' = "idle" /\ result' = how /\ attempt' = 0
      /\ tracked' = tracked /\ applies' = applies
  BY DEF Return
<1>3. responses' # 0
  BY <1>1 DEF UsageInv, CountersOK
<1>4. CountersOK'
  BY <1>1, <1>2, <1>3 DEF UsageInv, CountersOK
<1>5. UsageShown'
  BY <1>1, <1>2, <1>3 DEF UsageShown
<1>6. GaveUp'
  BY <1>1, <1>2 DEF UsageInv, InCall, GaveUp
<1> QED BY <1>2, <1>4, <1>5, <1>6 DEF UsageInv, InCall

\* The end of the loop body, after an inconsistent or an unnumbered reply.
LEMMA AttemptCounted ==
  ASSUME UsageInv, NEW t \in Nat, NEW error, NEW msgs, NextAttempt(t, error, msgs)
  PROVE  UsageInv'
<1>0. MaxAttempts \in Nat \ {0}
  BY ManagerBounds
<1>1. CASE attempt = MaxAttempts
  <2>1. Receive(t) /\ Track(t, TRUE) /\ Return("TooManyIterations", error)
    BY <1>1 DEF NextAttempt
  <2> QED BY <1>1, <2>1, ReturnAfterResponse
<1>2. CASE attempt # MaxAttempts
  <2>1. Receive(t) /\ Track(t, FALSE) /\ GoOn(error, msgs)
    BY <1>2 DEF NextAttempt
  <2>2. /\ usage' \in UsageType
        /\ responses' = responses + 1 /\ responses' \in Nat
        /\ spent' = spent + t /\ spent' \in Nat
        /\ tracked => /\ usage'.iterations = responses'
                      /\ usage'.tokens = <<"some", spent'>>
                      /\ usage'.timed = FALSE
        /\ pc = "sending"
    BY <2>1, CountResponse
  <2>3. /\ attempt' = attempt + 1 /\ pc' = pc /\ tracked' = tracked
        /\ result' = result /\ applies' = applies
    BY <2>1 DEF GoOn
  <2>4. /\ result = "none" /\ applies > 0 /\ attempt = responses + 1 /\ attempt <= MaxAttempts
        /\ attempt \in Nat /\ responses \in Nat /\ applies \in Nat /\ tracked \in BOOLEAN
    BY <2>2 DEF UsageInv, InCall, CountersOK
  <2>5. responses' # 0
    BY <2>2, <2>4
  <2>6. CountersOK'
    BY <2>2, <2>3, <2>4, <2>5 DEF CountersOK
  <2>7. InCall'
    BY <1>0, <1>2, <2>2, <2>3, <2>4 DEF InCall
  <2>8. UsageShown'
    BY <2>2, <2>3, <2>4, <2>5 DEF UsageShown
  <2> QED BY <2>3, <2>4, <2>6, <2>7, <2>8 DEF UsageInv, GaveUp
<1> QED BY <1>1, <1>2

\* apply returns without a response to count.
LEMMA ReturnWithout ==
  ASSUME UsageInv, pc = "sending", NEW how, Return(how, 0),
         how \notin {"Ok", "TooManyIterations"},
         UNCHANGED <<usage, report, responses, spent, reported>>
  PROVE  UsageInv'
<1>1. /\ pc' = "idle" /\ result' = how /\ attempt' = 0 /\ tracked' = tracked /\ applies' = applies
      /\ usage' = usage /\ responses' = responses /\ spent' = spent
  BY DEF Return
<1>2. CountersOK'
  BY <1>1 DEF UsageInv, CountersOK
<1>3. UsageShown'
  BY <1>1 DEF UsageInv, InCall, UsageShown
<1> QED BY <1>1, <1>2, <1>3 DEF UsageInv, InCall, GaveUp

LEMMA UsageStep == UsageInv /\ [Next]_vars => UsageInv'
<1> SUFFICES ASSUME UsageInv, [Next]_vars PROVE UsageInv'
  OBVIOUS
<1> USE ManagerBounds
<1>1. ASSUME NEW policy \in PolicySet, Add(policy) PROVE UsageInv'
  BY <1>1 DEF Add, callVars, historyVars, UsageInv, CountersOK, InCall, UsageShown, GaveUp
<1>2. ASSUME NEW policy \in PolicySet, AddPanics(policy) PROVE UsageInv'
  BY <1>2 DEF AddPanics, callVars, historyVars, UsageInv, CountersOK, InCall, UsageShown, GaveUp
<1>3. ASSUME NEW template \in Templates, NEW track \in BOOLEAN, Apply(template, track) PROVE UsageInv'
  <2>1. /\ pc' = "sending" /\ attempt' = 1 /\ result' = "none" /\ tracked' = track
        /\ responses' = 0 /\ spent' = 0 /\ applies' = applies + 1
        /\ usage' = IF track THEN NoUsage ELSE usage
    BY <1>3 DEF Apply
  <2>2. applies \in Nat /\ usage \in UsageType
    BY DEF UsageInv, CountersOK
  <2>3. NoUsage \in UsageType /\ NoUsage.iterations = 0 /\ NoUsage.tokens = None /\ NoUsage.timed = FALSE
    BY DEF NoUsage, UsageType, TokenType, None
  <2>4. CountersOK'
    BY <2>1, <2>2, <2>3 DEF CountersOK
  <2>5. UsageShown'
    BY <2>1, <2>3 DEF UsageShown
  <2> QED BY <2>1, <2>2, <2>4, <2>5 DEF UsageInv, InCall, GaveUp
<1>4. ASSUME NEW track \in BOOLEAN, ApplyRejectsPolicy(track) PROVE UsageInv'
  BY <1>4 DEF ApplyRejectsPolicy, callVars, UsageInv, CountersOK, InCall, UsageShown, GaveUp
<1>5. CASE SendFails
  BY <1>5, ReturnWithout DEF SendFails
<1>6. CASE Dropped
  BY <1>6, ReturnWithout DEF Dropped
<1>7. ASSUME NEW t \in Tokens, ReceiveInvalid(t) PROVE UsageInv'
  <2>1. t \in Nat /\ Receive(t) /\ Track(t, FALSE) /\ Return("InvalidResponse", 0)
    BY <1>7 DEF ReceiveInvalid
  <2> QED BY <2>1, ReturnAfterResponse
<1>8. ASSUME NEW t \in Tokens, ReceiveUnnumbered(t) PROVE UsageInv'
  BY <1>8, AttemptCounted DEF ReceiveUnnumbered
<1>9. ASSUME NEW t \in Tokens, NEW ir, NEW claimed, ReceiveConsistent(ir, claimed, t) PROVE UsageInv'
  <2>1. t \in Nat /\ Receive(t) /\ Track(t, TRUE) /\ Return("Ok", 0)
    BY <1>9 DEF ReceiveConsistent
  <2> QED BY <2>1, ReturnAfterResponse
<1>10. ASSUME NEW t \in Tokens, NEW ir, NEW claimed, ReceiveInconsistent(ir, claimed, t) PROVE UsageInv'
  <2>1. \E msgs : NextAttempt(t, attempt, msgs)
    BY <1>10 DEF ReceiveInconsistent
  <2> QED BY <2>1, AttemptCounted
<1>11. CASE UNCHANGED vars
  BY <1>11 DEF vars, callVars, historyVars, UsageInv, CountersOK, InCall, UsageShown, GaveUp
<1>12. CASE Reply
  BY <1>5, <1>7, <1>8, <1>9, <1>10, <1>12 DEF Reply
<1> QED BY <1>1, <1>2, <1>3, <1>4, <1>6, <1>11, <1>12 DEF Next

\* The usage Manager::apply shows counts every response of the call once, however replies, failures
\* and cancellations are mixed, and TooManyIterations comes after exactly max_attempts responses.
THEOREM ManagerUsageCountsResponses == Spec => []UsageCountsResponses
<1>1. UsageInv => UsageCountsResponses
  BY DEF UsageInv, InCall, UsageShown, GaveUp, UsageCountsResponses
<1> QED BY <1>1, UsageInit, UsageStep, PTL DEF Spec

\* The same invariant bounds the work: apply never waits for more than max_attempts replies.
THEOREM ManagerAttemptsBounded == Spec => [](pc = "sending" => attempt \in 1..MaxAttempts)
<1>1. UsageInv => (pc = "sending" => attempt \in 1..MaxAttempts)
  BY ManagerBounds DEF UsageInv, CountersOK, InCall
<1> QED BY <1>1, UsageInit, UsageStep, PTL DEF Spec
-----------------------------------------------------------------------------
(* The types and the bounds.                                                *)

BoundsOK ==
  /\ policies \in Seq(PolicySet) /\ Len(policies) <= MaxPolicies
  /\ attempt <= MaxAttempts /\ last_error \in 0..MaxAttempts
  /\ result \in Results /\ responses <= MaxAttempts /\ applies <= MaxApplies

\* apply returns, after a response or without one.
LEMMA ReturnBounded ==
  ASSUME UsageInv, BoundsOK, NEW how \in Results, NEW error \in 0..MaxAttempts, pc = "sending",
         Return(how, error), responses' \in {responses, responses + 1}
  PROVE  BoundsOK'
<1>1. attempt' = 0 /\ last_error' = error /\ result' = how /\ policies' = policies /\ applies' = applies
  BY DEF Return
<1>2. responses + 1 <= MaxAttempts /\ responses \in Nat
  BY DEF UsageInv, CountersOK, InCall
<1>3. responses' <= MaxAttempts
  BY <1>2, ManagerBounds
<1> QED BY <1>1, <1>3, ManagerBounds DEF BoundsOK

LEMMA AttemptBounded ==
  ASSUME UsageInv, BoundsOK, NEW t \in Nat, NEW error \in 0..MaxAttempts, NEW msgs,
         NextAttempt(t, error, msgs)
  PROVE  BoundsOK'
<1>1. pc = "sending" /\ responses' = responses + 1
  BY DEF NextAttempt, Receive
<1>2. CASE attempt = MaxAttempts
  <2>1. Return("TooManyIterations", error)
    BY <1>2 DEF NextAttempt
  <2> QED BY <1>1, <2>1, ReturnBounded DEF Results
<1>3. CASE attempt # MaxAttempts
  <2>1. /\ attempt' = attempt + 1 /\ last_error' = error /\ policies' = policies
        /\ result' = result /\ applies' = applies
    BY <1>3 DEF NextAttempt, GoOn
  <2>2. attempt = responses + 1 /\ attempt <= MaxAttempts /\ attempt \in Nat /\ responses \in Nat
    BY <1>1 DEF UsageInv, CountersOK, InCall
  <2>3. attempt' <= MaxAttempts /\ responses' <= MaxAttempts
    BY <1>1, <1>3, <2>1, <2>2, ManagerBounds
  <2> QED BY <2>1, <2>3 DEF BoundsOK
<1> QED BY <1>2, <1>3

LEMMA BoundsStep == UsageInv /\ BoundsOK /\ [Next]_vars => BoundsOK'
<1> SUFFICES ASSUME UsageInv, BoundsOK, [Next]_vars PROVE BoundsOK'
  OBVIOUS
<1> USE ManagerBounds
<1>1. ASSUME NEW policy \in PolicySet, Add(policy) PROVE BoundsOK'
  <2>1. policies \in Seq(PolicySet) /\ policies' = Append(policies, policy) /\ Len(policies) < MaxPolicies
    BY <1>1 DEF Add, BoundsOK
  <2>2. policies' \in Seq(PolicySet) /\ Len(policies') <= MaxPolicies
    BY <2>1
  <2> QED BY <1>1, <2>2 DEF Add, callVars, historyVars, BoundsOK
<1>2. ASSUME NEW policy \in PolicySet, AddPanics(policy) PROVE BoundsOK'
  BY <1>2 DEF AddPanics, callVars, historyVars, BoundsOK
<1>3. ASSUME NEW template \in Templates, NEW track \in BOOLEAN, Apply(template, track) PROVE BoundsOK'
  <2>1. applies' <= MaxApplies
    BY <1>3 DEF Apply, UsageInv, CountersOK
  <2> QED BY <1>3, <2>1 DEF Apply, BoundsOK, Results
<1>4. ASSUME NEW track \in BOOLEAN, ApplyRejectsPolicy(track) PROVE BoundsOK'
  <2>1. applies' <= MaxApplies
    BY <1>4 DEF ApplyRejectsPolicy, UsageInv, CountersOK
  <2> QED BY <1>4, <2>1 DEF ApplyRejectsPolicy, callVars, BoundsOK, Results
<1>5. CASE SendFails
  BY <1>5, ReturnBounded DEF SendFails, Results
<1>6. CASE Dropped
  BY <1>6, ReturnBounded DEF Dropped, Results
<1>7. ASSUME NEW t \in Tokens, ReceiveInvalid(t) PROVE BoundsOK'
  BY <1>7, ReturnBounded DEF ReceiveInvalid, Receive, Results
<1>8. ASSUME NEW t \in Tokens, ReceiveUnnumbered(t) PROVE BoundsOK'
  BY <1>8, AttemptBounded DEF ReceiveUnnumbered, BoundsOK
<1>9. ASSUME NEW t \in Tokens, NEW ir, NEW claimed, ReceiveConsistent(ir, claimed, t) PROVE BoundsOK'
  BY <1>9, ReturnBounded DEF ReceiveConsistent, Receive, Results
<1>10. ASSUME NEW t \in Tokens, NEW ir, NEW claimed, ReceiveInconsistent(ir, claimed, t) PROVE BoundsOK'
  <2>1. \E msgs : NextAttempt(t, attempt, msgs)
    BY <1>10 DEF ReceiveInconsistent
  <2>2. attempt \in 0..MaxAttempts
    BY DEF UsageInv, CountersOK, BoundsOK
  <2> QED BY <2>1, <2>2, AttemptBounded
<1>11. CASE UNCHANGED vars
  BY <1>11 DEF vars, callVars, historyVars, BoundsOK
<1>12. CASE Reply
  BY <1>5, <1>7, <1>8, <1>9, <1>10, <1>12 DEF Reply
<1> QED BY <1>1, <1>2, <1>3, <1>4, <1>6, <1>11, <1>12 DEF Next

\* Every variable of the manager keeps its type, and neither the attempts nor the responses of a call
\* ever pass max_attempts.
THEOREM ManagerTypeOK == Spec => []TypeOK
<1>1. Init => BoundsOK
  BY ManagerBounds DEF Init, BoundsOK, Results
<1>2. UsageInv /\ BoundsOK => TypeOK
  <2> SUFFICES ASSUME UsageInv, BoundsOK PROVE TypeOK
    OBVIOUS
  <2>1. usage.iterations \in Nat /\ usage.timed \in BOOLEAN /\ usage.tokens \in TokenType
    BY DEF UsageInv, CountersOK, UsageType
  <2>2. attempt \in 0..MaxAttempts /\ responses \in 0..MaxAttempts /\ applies \in 0..MaxApplies
    BY ManagerBounds DEF UsageInv, CountersOK, BoundsOK
  <2> QED BY <2>1, <2>2 DEF UsageInv, CountersOK, BoundsOK, TypeOK, TokenType
<1> QED BY <1>1, <1>2, UsageInit, UsageStep, BoundsStep, PTL DEF Spec
-----------------------------------------------------------------------------
(* The conversation.                                                        *)

\* The blocks that request_for writes: none is a tool call or the result of one.
PlainBlocks == Seq({"default", "rule", "text", "suffix"} \X Nat)

\* Conversations that wait for the assistant: what apply may send.
Asked == {ms \in Seq(MessageRecords) : ms # <<>> /\ Last(ms).role = "user" /\ Conversation(ms)}

LEMMA PlainParts ==
  ASSUME NEW bl \in PlainBlocks
  PROVE  bl \in Seq(Blocks) /\ \A x \in ToSet(bl) : x[1] # "tool_use" /\ x[1] # "tool_result"
<1> DEFINE X == {"default", "rule", "text", "suffix"} \X Nat
<1>1. bl \in Seq(X) /\ X \subseteq Blocks /\ \A x \in X : x[1] # "tool_use" /\ x[1] # "tool_result"
  BY DEF PlainBlocks, Blocks
<1>2. \A j \in DOMAIN bl : bl[j] \in X
  BY <1>1
<1> HIDE DEF X
<1>3. bl \in Seq(Blocks)
  BY <1>1, <1>2
<1> QED BY <1>1, <1>2, <1>3 DEF ToSet

\* A message of the other role is put behind the last one.
LEMMA PushOther ==
  ASSUME NEW ms \in Seq(MessageRecords), NEW role \in {"user", "assistant"}, NEW bl \in Seq(Blocks),
         ms # <<>> => Last(ms).role # role
  PROVE  LET new == [role |-> role, blocks |-> bl]
         IN  new \in MessageRecords /\ push_or_merge_message(ms, role, bl) = Append(ms, new)
  BY DEF push_or_merge_message, MessageRecords

\* Such a message, with the results of the calls before it, continues the conversation.
LEMMA ConversationGrows ==
  ASSUME NEW ms \in Seq(MessageRecords), NEW m \in MessageRecords,
         \A k \in 1..(Len(ms) - 1) : ms[k].role # ms[k + 1].role /\ Calls(ms[k]) = Returns(ms[k + 1]),
         ms # <<>> => /\ Last(ms).role # m.role /\ Calls(Last(ms)) = Returns(m)
                      /\ Returns(ms[1]) = {},
         ms = <<>> => Returns(m) = {}
  PROVE  LET longer == Append(ms, m)
         IN  /\ longer \in Seq(MessageRecords) /\ longer # <<>> /\ Last(longer) = m
             /\ Len(longer) = Len(ms) + 1
             /\ \A k \in 1..(Len(longer) - 1) : /\ longer[k].role # longer[k + 1].role
                                               /\ Calls(longer[k]) = Returns(longer[k + 1])
             /\ Returns(longer[1]) = {}
<1> DEFINE n == Len(ms)
           longer == Append(ms, m)
<1>1. /\ n \in Nat /\ longer \in Seq(MessageRecords) /\ Len(longer) = n + 1 /\ longer # <<>>
      /\ longer[n + 1] = m /\ \A k \in 1..n : longer[k] = ms[k]
      /\ (ms = <<>> <=> n = 0)
  OBVIOUS
<1>2. Last(longer) = m /\ (n # 0 => Last(ms) = ms[n])
  BY <1>1 DEF Last
<1> HIDE DEF longer, n
<1>3. ASSUME NEW k \in 1..n
      PROVE  longer[k].role # longer[k + 1].role /\ Calls(longer[k]) = Returns(longer[k + 1])
  <2>1. CASE k = n
    <3>1. ms # <<>> /\ longer[k] = Last(ms) /\ longer[k + 1] = m
      BY <1>1, <1>2, <2>1
    <3> QED BY <3>1
  <2>2. CASE k # n
    <3>1. k \in 1..(n - 1) /\ longer[k] = ms[k] /\ longer[k + 1] = ms[k + 1]
      BY <1>1, <2>2
    <3> QED BY <3>1 DEF n
  <2> QED BY <2>1, <2>2
<1>4. Returns(longer[1]) = {}
  <2>1. CASE n = 0
    BY <1>1, <2>1
  <2>2. CASE n # 0
    <3>1. longer[1] = ms[1] /\ ms # <<>>
      BY <1>1, <2>2
    <3> QED BY <3>1
  <2> QED BY <2>1, <2>2
<1>5. Len(longer) - 1 = n
  BY <1>1
<1> QED BY <1>1, <1>2, <1>3, <1>4, <1>5 DEF longer, n

\* A message of the same role is merged with the last one.
Merges(q, ms, bl) ==
  /\ q \in Seq(MessageRecords) /\ Len(q) = Len(ms)
  /\ \A k \in 1..(Len(ms) - 1) : q[k] = ms[k]
  /\ q[Len(ms)].role = ms[Len(ms)].role
  /\ q[Len(ms)].blocks = ms[Len(ms)].blocks \o bl

LEMMA PushSame ==
  ASSUME NEW ms \in Seq(MessageRecords), ms # <<>>, NEW bl \in Seq(Blocks), NEW role, role = Last(ms).role
  PROVE  Merges(push_or_merge_message(ms, role, bl), ms, bl)
<1> DEFINE n == Len(ms)
           old == ms[n]
           new == [old EXCEPT !.blocks = old.blocks \o bl]
           merged == [ms EXCEPT ![n] = new]
<1>1. n \in Nat \ {0} /\ n \in DOMAIN ms /\ Last(ms) = old /\ old \in MessageRecords
  BY DEF Last
<1>2. push_or_merge_message(ms, role, bl) = merged
  BY <1>1 DEF push_or_merge_message
<1>3. old.blocks \in Seq(Blocks) /\ old.role \in {"user", "assistant"}
  <2> HIDE DEF old
  <2> QED BY <1>1 DEF MessageRecords
<1>4. new \in MessageRecords /\ new.role = old.role /\ new.blocks = old.blocks \o bl
  <2> HIDE DEF old
  <2>1. old.blocks \o bl \in Seq(Blocks)
    BY <1>3
  <2> QED BY <1>1, <2>1 DEF MessageRecords
<1> HIDE DEF new, n
<1>5. /\ merged \in Seq(MessageRecords) /\ Len(merged) = n /\ merged[n] = new
      /\ \A k \in 1..(n - 1) : merged[k] = ms[k]
  BY <1>1, <1>4 DEF n
<1> HIDE DEF merged
<1>6. Merges(merged, ms, bl)
  BY <1>4, <1>5 DEF n, Merges
<1> QED BY <1>2, <1>6

\* Pushing plain blocks of the user leaves a conversation that waits for the assistant.
LEMMA PushPlain ==
  ASSUME NEW ms \in Seq(MessageRecords), Conversation(ms), NEW bl \in PlainBlocks
  PROVE  push_or_merge_message(ms, "user", bl) \in Asked
<1> DEFINE q == push_or_merge_message(ms, "user", bl)
<1>1. bl \in Seq(Blocks) /\ \A x \in ToSet(bl) : x[1] # "tool_use" /\ x[1] # "tool_result"
  BY PlainParts
<1>2. CASE ms # <<>> /\ Last(ms).role = "user"
  <2> DEFINE n == Len(ms)
  <2>1. n \in Nat \ {0} /\ ms[n] \in MessageRecords /\ Last(ms) = ms[n]
    BY <1>2 DEF Last
  <2>2. /\ q \in Seq(MessageRecords) /\ Len(q) = n
        /\ \A k \in 1..(n - 1) : q[k] = ms[k]
        /\ q[n].role = ms[n].role /\ q[n].blocks = ms[n].blocks \o bl
    <3>1. Merges(q, ms, bl)
      BY <1>1, <1>2, PushSame
    <3> HIDE DEF q
    <3> QED BY <3>1 DEF Merges
  <2> HIDE DEF q, n
  <2>3. ToSet(q[n].blocks) = ToSet(ms[n].blocks) \cup ToSet(bl)
    <3> DEFINE u == ms[n].blocks
    <3>1. u \in Seq(Blocks)
      BY <2>1 DEF MessageRecords
    <3> HIDE DEF u
    <3>2. ToSet(u \o bl) = ToSet(u) \cup ToSet(bl)
      BY <1>1, <3>1, ConcatSet
    <3> QED BY <2>2, <3>2 DEF u
  <2>4. Calls(q[n]) = Calls(ms[n]) /\ Returns(q[n]) = Returns(ms[n])
    BY <1>1, <2>3 DEF Calls, Returns, BlocksOf
  <2>5. q # <<>> /\ Last(q) = q[n]
    BY <2>1, <2>2 DEF Last
  <2>6. \A k \in 1..n : q[k].role = ms[k].role /\ Calls(q[k]) = Calls(ms[k]) /\ Returns(q[k]) = Returns(ms[k])
    <3>1. \A k \in 1..n : k \in 1..(n - 1) \/ k = n
      BY <2>1
    <3> QED BY <2>2, <2>4, <3>1
  <2>7. \A k \in 1..(n - 1) : k \in 1..n /\ k + 1 \in 1..n
    BY <2>1
  <2>8. 1 \in 1..n /\ n \in 1..n
    BY <2>1
  <2>9. Conversation(q)
    BY <1>2, <2>1, <2>2, <2>5, <2>6, <2>7, <2>8 DEF Conversation, n
  <2>10. q \in Asked
    BY <1>2, <2>1, <2>2, <2>5, <2>9 DEF Asked
  <2> QED BY <2>10 DEF q
<1>3. CASE ms # <<>> => Last(ms).role # "user"
  <2> DEFINE m == [role |-> "user", blocks |-> bl]
  <2>1. m \in MessageRecords /\ q = Append(ms, m) /\ m.role = "user" /\ m.blocks = bl
    BY <1>1, <1>3, PushOther
  <2>2. Calls(m) = {} /\ Returns(m) = {}
    <3> HIDE DEF m
    <3> QED BY <1>1, <2>1 DEF Calls, Returns, BlocksOf
  <2> HIDE DEF m, q
  <2>3. /\ q \in Seq(MessageRecords) /\ q # <<>> /\ Last(q) = m
        /\ \A k \in 1..(Len(q) - 1) : q[k].role # q[k + 1].role /\ Calls(q[k]) = Returns(q[k + 1])
        /\ Returns(q[1]) = {}
    <3>1. /\ \A k \in 1..(Len(ms) - 1) : ms[k].role # ms[k + 1].role /\ Calls(ms[k]) = Returns(ms[k + 1])
          /\ ms # <<>> => /\ Last(ms).role # m.role /\ Calls(Last(ms)) = Returns(m)
                          /\ Returns(ms[1]) = {}
          /\ ms = <<>> => Returns(m) = {}
      BY <1>3, <2>1, <2>2 DEF Conversation
    <3> QED BY <2>1, <3>1, ConversationGrows
  <2>4. q \in Asked
    BY <2>1, <2>2, <2>3 DEF Asked, Conversation
  <2> QED BY <2>4 DEF q
<1> QED BY <1>2, <1>3

\* The reply and the feedback on it continue the conversation.
LEMMA PushFeedback ==
  ASSUME NEW ms \in Asked, NEW id \in Nat, NEW found \in SUBSET Findings
  PROVE  LET call == push_or_merge_message(ms, "assistant", <<<<"tool_use", id>>>>)
             new == push_or_merge_message(call, "user", <<<<"tool_result", id, found>>>>)
         IN  /\ new \in Asked /\ Last(new).blocks = <<<<"tool_result", id, found>>>>
             /\ IsPrefix(ms, new) /\ Len(new) = Len(ms) + 2
<1> DEFINE use == <<<<"tool_use", id>>>>
           res == <<<<"tool_result", id, found>>>>
           m1 == [role |-> "assistant", blocks |-> use]
           m2 == [role |-> "user", blocks |-> res]
           call == push_or_merge_message(ms, "assistant", use)
           new == push_or_merge_message(call, "user", res)
<1>0. ms \in Seq(MessageRecords) /\ ms # <<>> /\ Last(ms).role = "user" /\ Conversation(ms)
  BY DEF Asked
<1>1. use \in Seq(Blocks) /\ res \in Seq(Blocks)
  <2>1. <<"tool_use", id>> \in Blocks
    BY DEF Blocks
  <2>2. <<"tool_result", id, found>> \in Blocks
    BY DEF Blocks
  <2> QED BY <2>1, <2>2
<1>2. ToSet(use) = {<<"tool_use", id>>} /\ ToSet(res) = {<<"tool_result", id, found>>}
  BY DEF ToSet
<1>3. Calls(m1) = {id} /\ Returns(m1) = {}
  BY <1>2 DEF Calls, Returns, BlocksOf
<1>4. Calls(m2) = {} /\ Returns(m2) = {id}
  BY <1>2 DEF Calls, Returns, BlocksOf
<1> HIDE DEF use, res
<1>5. m1 \in MessageRecords /\ call = Append(ms, m1) /\ m1.role = "assistant"
  BY <1>0, <1>1, PushOther
<1> HIDE DEF m1, call
<1>6. /\ call \in Seq(MessageRecords) /\ call # <<>> /\ Last(call) = m1 /\ Len(call) = Len(ms) + 1
      /\ \A k \in 1..(Len(call) - 1) : call[k].role # call[k + 1].role /\ Calls(call[k]) = Returns(call[k + 1])
      /\ Returns(call[1]) = {}
  <2>1. /\ \A k \in 1..(Len(ms) - 1) : ms[k].role # ms[k + 1].role /\ Calls(ms[k]) = Returns(ms[k + 1])
        /\ ms # <<>> => /\ Last(ms).role # m1.role /\ Calls(Last(ms)) = Returns(m1)
                        /\ Returns(ms[1]) = {}
        /\ ms = <<>> => Returns(m1) = {}
    BY <1>0, <1>3, <1>5 DEF Conversation
  <2> QED BY <1>0, <1>5, <2>1, ConversationGrows
<1>7. m2 \in MessageRecords /\ new = Append(call, m2) /\ m2.role = "user" /\ m2.blocks = res
  BY <1>1, <1>5, <1>6, PushOther
<1> HIDE DEF m2, new
<1>8. /\ new \in Seq(MessageRecords) /\ new # <<>> /\ Last(new) = m2 /\ Len(new) = Len(call) + 1
      /\ \A k \in 1..(Len(new) - 1) : new[k].role # new[k + 1].role /\ Calls(new[k]) = Returns(new[k + 1])
      /\ Returns(new[1]) = {}
  <2>1. /\ call # <<>> => /\ Last(call).role # m2.role /\ Calls(Last(call)) = Returns(m2)
                          /\ Returns(call[1]) = {}
        /\ call = <<>> => Returns(m2) = {}
    BY <1>3, <1>4, <1>5, <1>6, <1>7
  <2> QED BY <1>6, <1>7, <2>1, ConversationGrows
<1>9. new \in Asked
  BY <1>4, <1>7, <1>8 DEF Asked, Conversation
<1>10. IsPrefix(ms, new)
  <2>1. IsPrefix(ms, call)
    BY <1>0, <1>5, PrefixAppend
  <2>2. IsPrefix(call, new)
    BY <1>6, <1>7, PrefixAppend
  <2> QED BY <1>0, <1>6, <1>8, <2>1, <2>2, PrefixTransitive
<1>11. Len(new) = Len(ms) + 2
  BY <1>0, <1>6, <1>8
<1> QED BY <1>7, <1>8, <1>9, <1>10, <1>11 DEF call, new, use, res

\* The loop of request_for over the builder's messages.
PushAll(s, base) == FoldLeft(LAMBDA ms, m : push_or_merge_message(ms, m.role, m.blocks), base, s)

LEMMA PushFold ==
  ASSUME NEW s \in RuleMessages, NEW base \in Asked
  PROVE  PushAll(s, base) \in Asked
<1> DEFINE n == Len(s)
           A == Asked
           X == [role : {"user"}, blocks : Seq({"rule"} \X Nat)]
           Op(acc, x) == push_or_merge_message(acc, x.role, x.blocks)
           F == [p \in A \X (1..n) |-> Op(p[1], s[p[2]])]
           Body(g) == [t \in SUBSET DOMAIN s |-> IF t = {} THEN base ELSE Op(g[t \ {Max(t)}], s[Max(t)])]
           it == CHOOSE g : g = Body(g)
<1>0. s \in Seq(X)
  BY DEF RuleMessages
<1>1. n \in Nat /\ DOMAIN s = 1..n /\ \A k \in 1..n : s[k] \in X
  <2> HIDE DEF X
  <2> QED BY <1>0
<1>2. \A a \in A, x \in X : Op(a, x) \in A
  <2>1. ASSUME NEW a \in A, NEW x \in X PROVE Op(a, x) \in A
    <3>1. a \in Seq(MessageRecords) /\ Conversation(a) /\ x.role = "user"
      BY DEF Asked
    <3>2. x.blocks \in PlainBlocks
      <4>1. x.blocks \in Seq({"rule"} \X Nat)
        OBVIOUS
      <4> DEFINE bl == x.blocks
      <4>2. bl \in Seq({"rule"} \X Nat)
        BY <4>1
      <4> HIDE DEF bl
      <4>3. bl \in Seq({"default", "rule", "text", "suffix"} \X Nat)
        BY <4>2
      <4> QED BY <4>3 DEF PlainBlocks, bl
    <3> QED BY <3>1, <3>2, PushPlain
  <2> QED BY <2>1
<1>3. PushAll(s, base) = it[DOMAIN s]
  BY DEF PushAll, FoldLeft, MapThenFoldSet
<1> HIDE DEF n, A, Op, X
<1>4. F \in [A \X (1..n) -> A] /\ \A a \in A, k \in 1..n : F[<<a, k>>] = Op(a, s[k])
  BY <1>1, <1>2
<1> HIDE DEF F
<1>5. base \in A
  BY DEF A
<1>6. PICK g \in [SUBSET (1..n) -> A] : FoldsOver(g, F, base, n)
  BY <1>1, <1>4, <1>5, FoldExists
<1>7. g = Body(g)
  <2>1. ASSUME NEW t \in SUBSET (1..n), t # {} PROVE g[t] = Op(g[t \ {Max(t)}], s[Max(t)])
    <3>1. Max(t) \in 1..n /\ g[t \ {Max(t)}] \in A /\ g[t] = F[<<g[t \ {Max(t)}], Max(t)>>]
      BY <1>6, <2>1 DEF FoldsOver
    <3> QED BY <1>4, <3>1
  <2>2. g[{}] = base
    BY <1>6 DEF FoldsOver
  <2> QED BY <1>1, <1>6, <2>1, <2>2
<1>8. it = Body(it)
  <2> HIDE DEF Body
  <2> QED BY <1>7, Zenon
<1> HIDE DEF it
<1>9. FoldsTo(it, F, A, base, n)
  BY <1>1, <1>4, <1>6, <1>8 DEF FoldsTo, FoldsOver
<1>10. PICK h \in [0..n -> A] : Along(h, F, base, n, it[1..n])
  BY <1>1, <1>4, <1>5, <1>9, FoldAlong
<1>11. h[n] \in A /\ h[n] = it[1..n]
  BY <1>1, <1>10 DEF Along
<1> QED BY <1>1, <1>3, <1>11 DEF A

\* The request that apply sends first.
LEMMA RequestAsked ==
  ASSUME NEW template \in Templates, NEW b \in BuilderType
  PROVE  RequestMessages(template, b) \in Asked
<1> DEFINE d == <<<<"default", 0>>>>
           t == <<<<"text", 0>>>>
           u == <<<<"suffix", 0>>>>
           q1 == push_or_merge_message(template, "user", d)
           q2 == PushAll(b.messages, q1)
           q3 == push_or_merge_message(q2, "user", t)
           q4 == push_or_merge_message(q3, "user", u)
<1>1. d \in PlainBlocks /\ t \in PlainBlocks /\ u \in PlainBlocks
  BY DEF PlainBlocks
<1>2. template \in Seq(MessageRecords) /\ Conversation(template) /\ b.messages \in RuleMessages
  BY TemplateTypes DEF BuilderType, RuleMessages
<1>3. RequestMessages(template, b) = q4
  BY DEF RequestMessages, PushAll
<1> HIDE DEF d, t, u
<1>4. q1 \in Asked
  BY <1>1, <1>2, PushPlain
<1> HIDE DEF q1
<1>5. q2 \in Asked
  BY <1>2, <1>4, PushFold
<1> HIDE DEF q2
<1>6. q3 \in Asked
  BY <1>1, <1>5, PushPlain DEF Asked
<1> HIDE DEF q3
<1>7. q4 \in Asked
  BY <1>1, <1>6, PushPlain DEF Asked
<1> QED BY <1>3, <1>7
-----------------------------------------------------------------------------
(* The builder of request_for.                                              *)

\* h[k] is the builder after the first k policies.
BuildsAlong(h, s) ==
  /\ h[0] = NewBuilder /\ FoldLeft(add_policy, NewBuilder, s) = h[Len(s)]
  /\ \A k \in 1..Len(s) : h[k] = add_policy(h[k - 1], s[k])

Builders == {b \in BuilderType : \E q \in Seq(PolicyRecords) : Built(b, q)}

LEMMA BuildFold ==
  ASSUME NEW s \in Seq(PolicyRecords)
  PROVE  \E h \in [0..Len(s) -> Builders] : BuildsAlong(h, s)
<1> DEFINE n == Len(s)
           A == Builders
           Op(acc, x) == add_policy(acc, x)
           F == [p \in A \X (1..n) |-> Op(p[1], s[p[2]])]
           Body(g) == [t \in SUBSET DOMAIN s |-> IF t = {} THEN NewBuilder ELSE Op(g[t \ {Max(t)}], s[Max(t)])]
           it == CHOOSE g : g = Body(g)
<1>1. n \in Nat /\ DOMAIN s = 1..n /\ \A k \in 1..n : s[k] \in PolicyRecords
  OBVIOUS
<1>2. NewBuilder \in A /\ \A a \in A, x \in PolicyRecords : Op(a, x) \in A
  <2>1. ASSUME NEW a \in A, NEW x \in PolicyRecords PROVE Op(a, x) \in A
    <3>1. PICK q \in Seq(PolicyRecords) : Built(a, q)
      BY DEF Builders
    <3>2. Append(q, x) \in Seq(PolicyRecords)
      OBVIOUS
    <3>3. Built(add_policy(a, x), q) \/ Built(add_policy(a, x), Append(q, x))
      BY <3>1, AddBuilt
    <3>4. PICK w \in Seq(PolicyRecords) : Built(add_policy(a, x), w)
      BY <3>2, <3>3
    <3> QED BY <3>4 DEF Built, Builders
  <2>2. <<>> \in Seq(PolicyRecords)
    OBVIOUS
  <2> QED BY <2>1, <2>2, NewBuilt DEF Built, Builders
<1>3. FoldLeft(add_policy, NewBuilder, s) = it[DOMAIN s]
  BY DEF FoldLeft, MapThenFoldSet
<1> HIDE DEF n, A, Op
<1>4. F \in [A \X (1..n) -> A] /\ \A a \in A, k \in 1..n : F[<<a, k>>] = Op(a, s[k])
  BY <1>1, <1>2
<1> HIDE DEF F
<1> DEFINE base == NewBuilder
<1> HIDE DEF base
<1>5. PICK g \in [SUBSET (1..n) -> A] : FoldsOver(g, F, base, n)
  BY <1>1, <1>2, <1>4, FoldExists DEF base
<1>6. g = Body(g)
  <2>1. ASSUME NEW t \in SUBSET (1..n), t # {} PROVE g[t] = Op(g[t \ {Max(t)}], s[Max(t)])
    <3>1. Max(t) \in 1..n /\ g[t \ {Max(t)}] \in A /\ g[t] = F[<<g[t \ {Max(t)}], Max(t)>>]
      BY <1>5, <2>1 DEF FoldsOver
    <3> QED BY <1>4, <3>1
  <2>2. g[{}] = NewBuilder
    BY <1>5 DEF FoldsOver, base
  <2> QED BY <1>1, <1>5, <2>1, <2>2
<1>7. it = Body(it)
  <2> HIDE DEF Body
  <2> QED BY <1>6, Zenon
<1> HIDE DEF it
<1>8. FoldsTo(it, F, A, base, n)
  BY <1>1, <1>4, <1>5, <1>7 DEF FoldsTo, FoldsOver, base
<1>9. PICK h \in [0..n -> A] : Along(h, F, base, n, it[1..n])
  BY <1>1, <1>2, <1>4, <1>8, FoldAlong DEF base
<1>10. ASSUME NEW k \in 1..n PROVE h[k] = Op(h[k - 1], s[k])
  <2>1. k - 1 \in 0..n /\ h[k] = F[<<h[k - 1], k>>]
    BY <1>1, <1>9 DEF Along
  <2> QED BY <1>4, <1>9, <2>1
<1> QED BY <1>1, <1>3, <1>9, <1>10 DEF n, A, Op, Along, BuildsAlong, base

\* When no policy is rejected, the builder holds them all.
LEMMA RequestHoldsPolicies ==
  ASSUME NEW s \in Seq(PolicyRecords), \A i \in DOMAIN s : ~AddPolicyFails(s[i])
  PROVE  Built(FoldLeft(add_policy, NewBuilder, s), s)
<1>1. PICK h \in [0..Len(s) -> Builders] : BuildsAlong(h, s)
  BY BuildFold
<1>2. Len(s) \in Nat /\ DOMAIN s = 1..Len(s) /\ \A k \in 1..Len(s) : s[k] \in PolicyRecords
  OBVIOUS
<1> DEFINE P(k) == \E q \in Seq(PolicyRecords) :
                     Len(q) = k /\ (\A i \in 1..k : q[i] = s[i]) /\ Built(h[k], q)
           T == {k \in Nat : k <= Len(s) => P(k)}
<1>3. P(0)
  <2>1. <<>> \in Seq(PolicyRecords) /\ Len(<<>>) = 0 /\ \A i \in 1..0 : <<>>[i] = s[i]
    OBVIOUS
  <2>2. Built(h[0], <<>>)
    BY <1>1, NewBuilt DEF BuildsAlong
  <2> QED BY <2>1, <2>2
<1>4. ASSUME NEW k \in Nat, P(k), k + 1 <= Len(s) PROVE P(k + 1)
  <2>1. k + 1 \in 1..Len(s) /\ (k + 1) - 1 = k
    BY <1>2, <1>4
  <2>2. PICK q \in Seq(PolicyRecords) : Len(q) = k /\ (\A i \in 1..k : q[i] = s[i]) /\ Built(h[k], q)
    BY <1>4
  <2> DEFINE x == s[k + 1]
             w == Append(q, x)
  <2>3. x \in PolicyRecords /\ ~AddPolicyFails(x) /\ h[k + 1] = add_policy(h[k], x)
    BY <1>1, <1>2, <2>1 DEF BuildsAlong
  <2>4. /\ w \in Seq(PolicyRecords) /\ Len(w) = k + 1 /\ w[k + 1] = x
        /\ \A i \in 1..k : w[i] = q[i]
    <3> HIDE DEF x
    <3> QED BY <2>2, <2>3
  <2>5. \A i \in 1..(k + 1) : w[i] = s[i]
    <3> HIDE DEF w
    <3>1. \A i \in 1..(k + 1) : i \in 1..k \/ i = k + 1
      OBVIOUS
    <3> QED BY <2>2, <2>4, <3>1
  <2>6. Built(h[k + 1], w)
    <3> HIDE DEF x
    <3> QED BY <2>2, <2>3, AddBuilt
  <2> QED BY <2>4, <2>5, <2>6
<1> HIDE DEF P
<1>5. 0 \in T /\ \A k \in Nat : k \in T => k + 1 \in T
  BY <1>3, <1>4
<1>6. Nat \subseteq T
  <2> HIDE DEF T
  <2> QED BY <1>5, NatSetInduction
<1>7. P(Len(s))
  BY <1>2, <1>6
<1>8. PICK q \in Seq(PolicyRecords) :
        Len(q) = Len(s) /\ (\A i \in 1..Len(s) : q[i] = s[i]) /\ Built(h[Len(s)], q)
  BY <1>7 DEF P
<1>9. q = s
  BY <1>8, SeqEqual
<1> QED BY <1>1, <1>8, <1>9 DEF BuildsAlong
-----------------------------------------------------------------------------
(* What apply sends, and what it returns.                                   *)

\* While apply waits, its builder holds the manager's policies and its messages are a conversation.
Waiting == pc = "sending" => Built(builder, policies) /\ messages \in Asked

CallInv == UsageInv /\ BoundsOK /\ Waiting /\ OkIsAccountedFor

\* The rules that the answers match are rules of the builder.
LEMMA MatchedRules ==
  ASSUME CallInv, pc = "sending", NEW ir \in [MaskIds(builder) -> Answers]
  PROVE  LET q == consume_ir(builder, ir)
         IN  /\ ToSet(q.rules_matched) = Matched(ir)
             /\ Matched(ir) = {m.policy_index : m \in {x \in MasksOf(builder) : Fires(x, ir[x.mask])}}
             /\ Matched(ir) \subseteq 1..Len(policies)
             /\ ValuesBy(MasksOf(builder), ir, q)
<1> DEFINE q == consume_ir(builder, ir)
<1>1. Built(builder, policies) /\ ir \in [MaskIds(builder) -> JsonAnswers]
  BY InputTypes DEF CallInv, Waiting
<1>2. MatchedBy(MasksOf(builder), ir, q) /\ ValuesBy(MasksOf(builder), ir, q)
  BY <1>1, ConsumeEffect
<1>3. ToSet(q.rules_matched) = Matched(ir)
  BY DEF Matched
<1> HIDE DEF q
<1>4. Matched(ir) = {m.policy_index : m \in {x \in MasksOf(builder) : Fires(x, ir[x.mask])}}
  BY <1>2, <1>3 DEF MatchedBy
<1>5. \A m \in MasksOf(builder) : m.policy_index \in 1..Len(policies)
  BY <1>1 DEF Built, MasksBuilt
<1>6. Matched(ir) \subseteq 1..Len(policies)
  BY <1>4, <1>5
<1> QED BY <1>2, <1>3, <1>4, <1>6 DEF q

\* What the LLM is told about rule i, and about an inconsistent reply.
Told(how, i) ==
  IF i \in DOMAIN builder.masks_by_index
  THEN {<<how, i, x>> : x \in ToSet(builder.masks_by_index[i])}
  ELSE {<<"unknown", i, None>>}

LEMMA InconsistenciesTold ==
  ASSUME NEW S, NEW claimed
  PROVE  Inconsistencies(S, claimed)
           = (UNION {Told("not reported", i) : i \in S \ claimed})
               \cup (UNION {Told("not set", i) : i \in claimed \ S})
  BY Zenon DEF Inconsistencies, Told

LEMMA ListedIds ==
  ASSUME NEW table \in Seq(Seq(Ids)), NEW i \in DOMAIN table
  PROVE  ToSet(table[i]) \subseteq Ids
<1>1. \A s \in Seq(Ids) : ToSet(s) \subseteq Ids
  BY DEF ToSet
<1>2. table[i] \in Seq(Ids)
  BY ElementOfSeq
<1> QED BY <1>1, <1>2

LEMMA ToldType ==
  ASSUME CallInv, pc = "sending", NEW how \in {"not reported", "not set"}, NEW i \in Nat
  PROVE  Told(how, i) \subseteq Findings
<1>1. builder.masks_by_index \in Seq(Seq(Ids))
  BY DEF CallInv, Waiting, Built, BuilderType
<1>2. CASE i \in DOMAIN builder.masks_by_index
  <2> DEFINE S == ToSet(builder.masks_by_index[i])
  <2>1. S \subseteq {"mask"} \X Nat
    BY <1>1, <1>2, ListedIds DEF Ids
  <2>2. Told(how, i) = {<<how, i, x>> : x \in S}
    BY <1>2 DEF Told
  <2>3. \A x \in {"mask"} \X Nat : <<how, i, x>> \in Findings
    BY DEF Findings
  <2> HIDE DEF S
  <2> QED BY <2>1, <2>2, <2>3
<1>3. CASE i \notin DOMAIN builder.masks_by_index
  <2>1. Told(how, i) = {<<"unknown", i, None>>}
    BY <1>3 DEF Told
  <2>2. <<"unknown", i, None>> \in Findings
    BY Zenon DEF Findings
  <2> QED BY <2>1, <2>2
<1> QED BY <1>2, <1>3

LEMMA InconsistenciesType ==
  ASSUME CallInv, pc = "sending", NEW S \in SUBSET Nat, NEW claimed \in SUBSET Nat
  PROVE  Inconsistencies(S, claimed) \in SUBSET Findings
<1>1. \A i \in Nat : Told("not reported", i) \subseteq Findings /\ Told("not set", i) \subseteq Findings
  BY ToldType
<1> QED BY <1>1, InconsistenciesTold

\* The step that an inconsistent reply takes.
LEMMA InconsistentStep ==
  ASSUME CallInv, NEW ir \in [MaskIds(builder) -> Answers], NEW claimed \in RuleSets, NEW t \in Tokens,
         ReceiveInconsistent(ir, claimed, t)
  PROVE  \E msgs \in Asked :
           /\ NextAttempt(t, attempt, msgs)
           /\ Last(msgs).blocks = <<<<"tool_result", attempt, Inconsistencies(Matched(ir), claimed)>>>>
           /\ IsPrefix(messages, msgs) /\ Len(msgs) = Len(messages) + 2
<1> DEFINE found == Inconsistencies(Matched(ir), claimed)
           id == attempt
           ms == messages
           call == push_or_merge_message(ms, "assistant", <<<<"tool_use", id>>>>)
           new == push_or_merge_message(call, "user", <<<<"tool_result", id, found>>>>)
<1>1. pc = "sending" /\ NextAttempt(t, attempt, new)
  BY DEF ReceiveInconsistent
<1>2. Matched(ir) \in SUBSET Nat /\ claimed \in SUBSET Nat
  <2>1. Matched(ir) \subseteq 1..Len(policies)
    BY <1>1, MatchedRules
  <2> QED BY <2>1, ManagerBounds
<1>3. found \in SUBSET Findings
  BY <1>1, <1>2, InconsistenciesType
<1>4. ms \in Asked /\ id \in Nat
  BY <1>1 DEF CallInv, Waiting, UsageInv, CountersOK
<1> HIDE DEF found, id, ms
<1>5. /\ new \in Asked /\ Last(new).blocks = <<<<"tool_result", id, found>>>>
      /\ IsPrefix(ms, new) /\ Len(new) = Len(ms) + 2
  BY <1>3, <1>4, PushFeedback
<1> HIDE DEF new
<1> QED BY <1>1, <1>5 DEF found, id, ms

\* The end of the loop body keeps the invariant.
LEMMA AttemptWaits ==
  ASSUME CallInv, NEW t \in Nat, NEW error \in 0..MaxAttempts, NEW msgs \in Asked,
         NextAttempt(t, error, msgs)
  PROVE  CallInv'
<1>1. UsageInv' /\ BoundsOK'
  BY AttemptCounted, AttemptBounded DEF CallInv
<1>2. CASE attempt = MaxAttempts
  <2>1. pc' = "idle" /\ result' = "TooManyIterations"
    BY <1>2 DEF NextAttempt, Return
  <2> QED BY <1>1, <2>1 DEF CallInv, Waiting, OkIsAccountedFor
<1>3. CASE attempt # MaxAttempts
  <2>1. /\ pc' = pc /\ messages' = msgs /\ builder' = builder /\ policies' = policies /\ result' = result
        /\ pc = "sending"
    BY <1>3 DEF NextAttempt, GoOn, Receive
  <2>2. result = "none"
    BY <2>1 DEF CallInv, UsageInv, InCall
  <2> QED BY <1>1, <2>1, <2>2 DEF CallInv, Waiting, OkIsAccountedFor
<1> QED BY <1>2, <1>3

\* What a consistent reply returns is accounted for.
LEMMA ConsistentStep ==
  ASSUME CallInv, NEW ir \in [MaskIds(builder) -> Answers], NEW claimed, NEW t,
         ReceiveConsistent(ir, claimed, t)
  PROVE  OkIsAccountedFor'
<1>1. /\ pc = "sending" /\ Matched(ir) = claimed /\ report' = consume_ir(builder, ir)
      /\ reported' = claimed /\ policies' = policies
  BY DEF ReceiveConsistent, Receive, Return
<1> DEFINE M == MasksOf(builder)
<1>2. /\ ToSet(report'.rules_matched) = claimed
      /\ claimed = {m.policy_index : m \in {x \in M : Fires(x, ir[x.mask])}}
      /\ claimed \subseteq 1..Len(policies) /\ ValuesBy(M, ir, report')
  BY <1>1, MatchedRules
<1>3. policies \in Seq(PolicySet) /\ DOMAIN policies = 1..Len(policies)
  BY DEF CallInv, BoundsOK
<1>4. \A i \in 1..Len(policies) : Covers(M, i, policies[i])
  BY <1>1 DEF CallInv, Waiting, Built, RulesBuilt
<1> HIDE DEF M
<1>5. ASSUME NEW f \in Fields, report'.value[f] # Unset
      PROVE  \E i \in claimed : policies[i].action[f] # Unset
  <2>1. PICK m \in M : m.name = f /\ Fires(m, ir[m.mask])
    BY <1>2, <1>5 DEF ValuesBy
  <2>2. m.policy_index \in claimed /\ m.policy_index \in 1..Len(policies)
    BY <1>2, <2>1
  <2>3. policies[m.policy_index].action[f] # Unset
    BY <1>4, <2>1, <2>2 DEF Covers
  <2> QED BY <2>2, <2>3
<1> QED BY <1>1, <1>2, <1>3, <1>5 DEF OkIsAccountedFor

LEMMA CallStep == CallInv /\ [Next]_vars => CallInv'
<1> SUFFICES ASSUME CallInv, [Next]_vars PROVE CallInv'
  OBVIOUS
<1>0. UsageInv' /\ BoundsOK' /\ UsageInv /\ BoundsOK
  BY UsageStep, BoundsStep DEF CallInv
<1>1. ASSUME NEW policy \in PolicySet, Add(policy) PROVE CallInv'
  <2>1. /\ policies' = Append(policies, policy) /\ pc = "idle" /\ pc' = pc /\ result' = result
        /\ report' = report /\ reported' = reported
    BY <1>1 DEF Add, historyVars
  <2>2. policies \in Seq(PolicySet)
    BY <1>0 DEF BoundsOK
  <2>3. DOMAIN policies \subseteq DOMAIN policies' /\ \A i \in DOMAIN policies : policies'[i] = policies[i]
    BY <2>1, <2>2
  <2>4. OkIsAccountedFor'
    BY <2>1, <2>3 DEF CallInv, OkIsAccountedFor
  <2> QED BY <1>0, <2>1, <2>4 DEF CallInv, Waiting
<1>2. ASSUME NEW policy \in PolicySet, AddPanics(policy) PROVE CallInv'
  BY <1>0, <1>2 DEF AddPanics, historyVars, CallInv, Waiting, OkIsAccountedFor
<1>3. ASSUME NEW template \in Templates, NEW track \in BOOLEAN, Apply(template, track) PROVE CallInv'
  <2>1. /\ builder' = RequestBuilder /\ messages' = RequestMessages(template, RequestBuilder)
        /\ policies' = policies /\ result' = "none" /\ ~RequestFails
    BY <1>3 DEF Apply
  <2>2. policies \in Seq(PolicyRecords)
    BY <1>0, InputTypes DEF BoundsOK
  <2>3. Built(RequestBuilder, policies)
    BY <2>1, <2>2, RequestHoldsPolicies DEF RequestBuilder, RequestFails
  <2>4. RequestBuilder \in BuilderType
    BY <2>3 DEF Built
  <2>5. messages' \in Asked
    BY <2>1, <2>4, RequestAsked
  <2> QED BY <1>0, <2>1, <2>3, <2>5 DEF CallInv, Waiting, OkIsAccountedFor
<1>4. ASSUME NEW track \in BOOLEAN, ApplyRejectsPolicy(track) PROVE CallInv'
  BY <1>0, <1>4 DEF ApplyRejectsPolicy, callVars, CallInv, Waiting, OkIsAccountedFor
<1>5. CASE SendFails
  BY <1>0, <1>5 DEF SendFails, Return, CallInv, Waiting, OkIsAccountedFor
<1>6. CASE Dropped
  BY <1>0, <1>6 DEF Dropped, Return, CallInv, Waiting, OkIsAccountedFor
<1>7. ASSUME NEW t \in Tokens, ReceiveInvalid(t) PROVE CallInv'
  BY <1>0, <1>7 DEF ReceiveInvalid, Return, CallInv, Waiting, OkIsAccountedFor
<1>8. ASSUME NEW t \in Tokens, ReceiveUnnumbered(t) PROVE CallInv'
  <2>1. NextAttempt(t, last_error, messages) /\ pc = "sending" /\ t \in Nat
    BY <1>8, ManagerBounds DEF ReceiveUnnumbered, NextAttempt, Receive
  <2>2. messages \in Asked /\ last_error \in 0..MaxAttempts
    BY <2>1 DEF CallInv, Waiting, BoundsOK
  <2> QED BY <2>1, <2>2, AttemptWaits
<1>9. ASSUME NEW t \in Tokens, NEW ir \in [MaskIds(builder) -> Answers], NEW claimed \in RuleSets,
             ReceiveConsistent(ir, claimed, t)
      PROVE  CallInv'
  <2>1. pc' = "idle"
    BY <1>9 DEF ReceiveConsistent, Return
  <2>2. OkIsAccountedFor'
    BY <1>9, ConsistentStep
  <2> QED BY <1>0, <2>1, <2>2 DEF CallInv, Waiting
<1>10. ASSUME NEW t \in Tokens, NEW ir \in [MaskIds(builder) -> Answers], NEW claimed \in RuleSets,
              ReceiveInconsistent(ir, claimed, t)
       PROVE  CallInv'
  <2>1. PICK msgs \in Asked : NextAttempt(t, attempt, msgs)
    BY <1>10, InconsistentStep
  <2>2. attempt \in 0..MaxAttempts /\ t \in Nat
    BY <1>0, ManagerBounds DEF UsageInv, CountersOK, BoundsOK
  <2> QED BY <2>1, <2>2, AttemptWaits
<1>11. CASE UNCHANGED vars
  BY <1>0, <1>11 DEF vars, callVars, historyVars, CallInv, Waiting, OkIsAccountedFor
<1>12. CASE Reply
  BY <1>5, <1>7, <1>8, <1>9, <1>10, <1>12 DEF Reply
<1> QED BY <1>1, <1>2, <1>3, <1>4, <1>6, <1>11, <1>12 DEF Next

LEMMA CallInit == Init => CallInv
<1>1. Init => BoundsOK
  BY ManagerBounds DEF Init, BoundsOK, Results
<1> QED BY <1>1, UsageInit DEF Init, CallInv, Waiting, OkIsAccountedFor

\* Every request Manager::apply sends is a conversation the API accepts, for every template that is
\* one, every number of policies and every sequence of inconsistent and unnumbered replies.
THEOREM ManagerConversationWellFormed == Spec => []ConversationWellFormed
<1>1. CallInv => ConversationWellFormed
  BY DEF CallInv, Waiting, Asked, ConversationWellFormed
<1> QED BY <1>1, CallInit, CallStep, PTL DEF Spec

\* Whatever the LLM answers, Manager::apply returns only a report whose matched rules are the ones
\* the LLM reported, are policies of the manager, and account for every field that is set.
THEOREM ManagerOkIsAccountedFor == Spec => []OkIsAccountedFor
<1>1. CallInv => OkIsAccountedFor
  BY DEF CallInv
<1> QED BY <1>1, CallInit, CallStep, PTL DEF Spec

\* A retry puts the reply and the feedback on it behind the conversation so far, or resends it.
THEOREM ManagerConversationOnlyGrows == Spec => ConversationOnlyGrows
<1> DEFINE Grow == pc = "sending" /\ pc' = "sending" =>
                     /\ IsPrefix(messages, messages')
                     /\ Len(messages') \in {Len(messages), Len(messages) + 2}
<1>1. CallInv /\ [Next]_vars => [Grow]_vars
  <2> SUFFICES ASSUME CallInv, [Next]_vars, pc = "sending", pc' = "sending"
               PROVE  /\ IsPrefix(messages, messages')
                      /\ Len(messages') \in {Len(messages), Len(messages) + 2}
    BY DEF Grow
  <2>1. messages \in Asked
    BY DEF CallInv, Waiting
  <2>2. messages \in Seq(MessageRecords)
    BY <2>1 DEF Asked
  <2>3. IsPrefix(messages, messages)
    BY <2>2, PrefixReflexive
  <2>4. ASSUME NEW t, NEW error, NEW msgs, NextAttempt(t, error, msgs) PROVE messages' = msgs
    BY <2>4 DEF NextAttempt, Return, GoOn
  <2>5. ASSUME NEW t \in Tokens, NEW ir \in [MaskIds(builder) -> Answers], NEW claimed \in RuleSets,
               ReceiveInconsistent(ir, claimed, t)
        PROVE  IsPrefix(messages, messages') /\ Len(messages') = Len(messages) + 2
    BY <2>4, <2>5, InconsistentStep
  <2>6. ASSUME NEW t \in Tokens, ReceiveUnnumbered(t) PROVE messages' = messages
    BY <2>4, <2>6 DEF ReceiveUnnumbered
  <2>7. CASE UNCHANGED vars
    BY <2>3, <2>7 DEF vars, callVars
  <2>8. CASE Reply
    BY <2>3, <2>5, <2>6, <2>8 DEF Reply, SendFails, ReceiveInvalid, ReceiveConsistent, Return
  <2>9. CASE Dropped
    BY <2>9 DEF Dropped, Return
  <2> QED BY <2>7, <2>8, <2>9 DEF Next, Add, AddPanics, Apply, ApplyRejectsPolicy
<1> QED BY <1>1, CallInit, CallStep, PTL DEF Spec, ConversationOnlyGrows

\* What is told about a rule names it, unless the rule exists and has no masks.
LEMMA ToldNames ==
  ASSUME CallInv, pc = "sending", NEW how, NEW i, ~(i \in DOMAIN policies /\ Mentioned(policies[i]) = <<>>)
  PROVE  \E x \in Told(how, i) : x[2] = i
<1>1. /\ policies \in Seq(PolicyRecords) /\ Built(builder, policies)
  BY InputTypes DEF CallInv, BoundsOK, Waiting
<1>2. DOMAIN builder.masks_by_index = DOMAIN policies /\ DOMAIN policies = 1..Len(policies)
  <2>1. builder.masks_by_index \in Seq(Seq(Ids)) /\ Len(builder.masks_by_index) = Len(policies)
    BY <1>1 DEF Built, BuilderType, RulesBuilt
  <2> QED BY <1>1, <2>1
<1>3. CASE i \notin DOMAIN policies
  BY <1>2, <1>3 DEF Told
<1>4. CASE i \in DOMAIN policies
  <2> DEFINE p == policies[i]
             M == MasksOf(builder)
  <2>1. p \in PolicyRecords /\ Mentioned(p) # <<>>
    BY <1>1, <1>4
  <2>2. ToSet(builder.masks_by_index[i]) = RuleMasks(M, i) /\ Covers(M, i, p)
    BY <1>1, <1>2, <1>4 DEF Built, RulesBuilt
  <2> HIDE DEF p, M
  <2>3. Mentioned(p) \in Seq(FieldRecords)
        /\ \A y : y \in ToSet(Mentioned(p)) <=> y \in ToSet(p.type) /\ p.action[y.name] # Unset
    BY <2>1, MentionedFields
  <2>4. PICK y \in FieldRecords : y \in ToSet(Mentioned(p))
    <3> DEFINE s == Mentioned(p)
    <3>1. s \in Seq(FieldRecords) /\ s # <<>>
      BY <2>1, <2>3
    <3> HIDE DEF s
    <3>2. s[1] \in FieldRecords /\ 1 \in DOMAIN s
      BY <3>1
    <3>3. s[1] \in ToSet(s)
      BY <3>2 DEF ToSet
    <3> QED BY <3>2, <3>3 DEF s
  <2>5. y.name \in Fields /\ y \in ToSet(p.type) /\ p.action[y.name] # Unset
    BY <2>3, <2>4 DEF FieldRecords
  <2>6. PICK m \in M : m.policy_index = i /\ m.name = y.name
    BY <2>2, <2>5 DEF Covers
  <2>7. m.mask \in ToSet(builder.masks_by_index[i])
    BY <2>2, <2>6 DEF RuleMasks
  <2>8. <<how, i, m.mask>> \in Told(how, i)
    BY <1>2, <1>4, <2>7 DEF Told
  <2> QED BY <2>8
<1> QED BY <1>3, <1>4

\* The feedback that Manager::apply sends on an inconsistent reply names every rule number on which
\* the reply and its answers disagree, except a rule of the manager that mentions no field.
THEOREM ManagerFeedbackNamesRules == Spec => FeedbackNamesRules
<1> DEFINE Named ==
      \A ir \in [MaskIds(builder) -> Answers], claimed \in RuleSets, t \in Tokens :
        pc' = "sending" /\ ReceiveInconsistent(ir, claimed, t) =>
          LET blocks == Last(messages').blocks
              named == {x[2] : x \in blocks[Len(blocks)][3]}
          IN \A i \in (Matched(ir) \ claimed) \cup (claimed \ Matched(ir)) :
               i \in named \/ (i \in DOMAIN policies /\ Mentioned(policies[i]) = <<>>)
<1>1. CallInv => Named
  <2> SUFFICES ASSUME CallInv, NEW ir \in [MaskIds(builder) -> Answers], NEW claimed \in RuleSets,
                      NEW t \in Tokens, pc' = "sending", ReceiveInconsistent(ir, claimed, t),
                      NEW i \in (Matched(ir) \ claimed) \cup (claimed \ Matched(ir)),
                      ~(i \in DOMAIN policies /\ Mentioned(policies[i]) = <<>>)
               PROVE  LET blocks == Last(messages').blocks
                      IN  i \in {x[2] : x \in blocks[Len(blocks)][3]}
    BY DEF Named
  <2> DEFINE found == Inconsistencies(Matched(ir), claimed)
             blocks == Last(messages').blocks
  <2>1. PICK msgs \in Asked : NextAttempt(t, attempt, msgs)
                              /\ Last(msgs).blocks = <<<<"tool_result", attempt, found>>>>
    BY InconsistentStep
  <2>2. messages' = msgs /\ pc = "sending"
    BY <2>1 DEF NextAttempt, Receive, Return, GoOn
  <2>3. blocks = <<<<"tool_result", attempt, found>>>>
    BY <2>1, <2>2
  <2> HIDE DEF found
  <2>4. blocks[Len(blocks)][3] = found
    <3> HIDE DEF blocks
    <3> QED BY <2>3
  <2>5. \E x \in found : x[2] = i
    <3>1. (\E x \in Told("not reported", i) : x[2] = i) /\ (\E x \in Told("not set", i) : x[2] = i)
      BY <2>2, ToldNames
    <3> QED BY <3>1, InconsistenciesTold DEF found
  <2> HIDE DEF blocks
  <2>6. i \in {x[2] : x \in blocks[Len(blocks)][3]}
    BY <2>4, <2>5
  <2> QED BY <2>6 DEF blocks
<1>2. CallInv /\ [Next]_vars => [Named]_vars
  BY <1>1
<1> QED BY <1>2, CallInit, CallStep, PTL DEF Spec, FeedbackNamesRules
-----------------------------------------------------------------------------
(* The errors in a report that apply returns.                               *)

\* The builder of request_for starts the report from the defaults of the last policy's type.
LEMMA RequestDefaults ==
  ASSUME NEW s \in Seq(PolicyRecords)
  PROVE  FoldLeft(add_policy, NewBuilder, s).default_return = default_value(LatestType(s))
<1>1. PICK h \in [0..Len(s) -> Builders] : BuildsAlong(h, s)
  BY BuildFold
<1>2. h[0] = NewBuilder /\ FoldLeft(add_policy, NewBuilder, s) = h[Len(s)]
  BY <1>1 DEF BuildsAlong
<1>3. CASE s = <<>>
  <2>1. Len(s) = 0
    BY <1>3
  <2> QED BY <1>2, <1>3, <2>1, NewDefaults
<1>4. CASE s # <<>>
  <2> DEFINE n == Len(s)
             b == h[n - 1]
             p == s[n]
  <2>1. n \in 1..Len(s) /\ n - 1 \in 0..Len(s) /\ p \in PolicyRecords /\ LatestType(s) = p.type
    BY <1>4 DEF LatestType, Last
  <2>2. h[n] = add_policy(b, p) /\ b \in Builders
    BY <1>1, <2>1 DEF BuildsAlong
  <2> HIDE DEF b, p
  <2>3. PICK q \in Seq(PolicyRecords) : Built(b, q)
    BY <2>2 DEF Builders
  <2>4. add_policy(b, p).default_return = default_value(p.type)
    BY <2>1, <2>3, AddBuilt
  <2> QED BY <1>2, <2>1, <2>2, <2>4
<1> QED BY <1>3, <1>4

\* Manager::add lets in policies of one type only, and apply's builder has its defaults.
CleanInv ==
  /\ CallInv
  /\ \A i \in 1..Len(policies) : policies[i].type = LatestType(policies)
  /\ pc = "sending" => builder.default_return = default_value(LatestType(policies))
  /\ OkHasNoInternalError

LEMMA CleanStep ==
  ASSUME \A p \in PolicySet : PlainType(p.type), CleanInv, [Next]_vars
  PROVE  CleanInv'
<1>0. CallInv' /\ CallInv /\ policies \in Seq(PolicySet) /\ policies \in Seq(PolicyRecords)
  BY CallStep, InputTypes DEF CleanInv, CallInv, BoundsOK
<1>1. ASSUME NEW policy \in PolicySet, Add(policy) PROVE CleanInv'
  <2>1. /\ policies' = Append(policies, policy) /\ pc' = "idle" /\ result' = result /\ report' = report
        /\ policies # <<>> => Last(policies).type = policy.type
    BY <1>1 DEF Add
  <2>2. /\ Len(policies') = Len(policies) + 1 /\ Len(policies) \in Nat /\ policies' # <<>>
        /\ policies'[Len(policies) + 1] = policy
        /\ \A i \in 1..Len(policies) : policies'[i] = policies[i]
    BY <1>0, <2>1
  <2>3. LatestType(policies') = policy.type
    BY <2>2 DEF LatestType, Last
  <2>4. ASSUME NEW i \in 1..Len(policies') PROVE policies'[i].type = policy.type
    <3>1. CASE i = Len(policies) + 1
      BY <2>2, <3>1
    <3>2. CASE i # Len(policies) + 1
      <4>1. i \in 1..Len(policies) /\ policies # <<>>
        BY <1>0, <2>2, <3>2
      <4>2. policies[i].type = Last(policies).type
        BY <4>1 DEF CleanInv, LatestType
      <4> QED BY <2>1, <2>2, <4>1, <4>2
    <3> QED BY <3>1, <3>2
  <2>5. OkHasNoInternalError'
    BY <2>1 DEF CleanInv, OkHasNoInternalError
  <2> QED BY <1>0, <2>1, <2>3, <2>4, <2>5 DEF CleanInv
<1>2. ASSUME NEW policy \in PolicySet, AddPanics(policy) PROVE CleanInv'
  BY <1>0, <1>2 DEF AddPanics, CleanInv, OkHasNoInternalError
<1>3. ASSUME NEW template \in Templates, NEW track \in BOOLEAN, Apply(template, track) PROVE CleanInv'
  <2>1. builder' = FoldLeft(add_policy, NewBuilder, policies) /\ policies' = policies /\ result' = "none"
    BY <1>3 DEF Apply, RequestBuilder
  <2>2. builder'.default_return = default_value(LatestType(policies))
    BY <1>0, <2>1, RequestDefaults
  <2> QED BY <1>0, <2>1, <2>2 DEF CleanInv, OkHasNoInternalError
<1>4. ASSUME NEW track \in BOOLEAN, ApplyRejectsPolicy(track) PROVE CleanInv'
  BY <1>0, <1>4 DEF ApplyRejectsPolicy, callVars, CleanInv, OkHasNoInternalError
<1>5. ASSUME NEW how, NEW error, Return(how, error), how # "Ok" PROVE CleanInv'
  BY <1>0, <1>5 DEF Return, CleanInv, OkHasNoInternalError
<1>6. ASSUME NEW t, NEW error, NEW msgs, NextAttempt(t, error, msgs) PROVE CleanInv'
  <2>1. CASE attempt = MaxAttempts
    BY <1>5, <1>6, <2>1 DEF NextAttempt
  <2>2. CASE attempt # MaxAttempts
    BY <1>0, <1>6, <2>2 DEF NextAttempt, Receive, GoOn, CleanInv, OkHasNoInternalError
  <2> QED BY <2>1, <2>2
<1>7. ASSUME NEW t \in Tokens, NEW ir \in [MaskIds(builder) -> Answers], NEW claimed \in RuleSets,
             ReceiveConsistent(ir, claimed, t)
      PROVE  CleanInv'
  <2>1. pc = "sending" /\ pc' = "idle" /\ policies' = policies /\ report' = consume_ir(builder, ir)
    BY <1>7 DEF ReceiveConsistent, Receive, Return
  <2>2. /\ Built(builder, policies) /\ ir \in [MaskIds(builder) -> JsonAnswers]
        /\ builder.default_return = default_value(LatestType(policies))
    BY <1>0, <2>1, InputTypes DEF CleanInv, CallInv, Waiting
  <2>3. LatestType(policies) \in Seq(FieldRecords) /\ PlainType(LatestType(policies))
    <3>1. CASE policies = <<>>
      <4>1. ToSet(<<>>) = {}
        BY DEF ToSet
      <4> QED BY <3>1, <4>1 DEF LatestType, PlainType
    <3>2. CASE policies # <<>>
      <4> DEFINE p == policies[Len(policies)]
      <4>1. p \in PolicySet /\ p \in PolicyRecords /\ LatestType(policies) = p.type
        BY <1>0, <3>2 DEF LatestType, Last
      <4> HIDE DEF p
      <4> QED BY <4>1 DEF PolicyRecords
    <3> QED BY <3>1, <3>2
  <2>4. \A i \in 1..Len(policies) : policies[i].type = LatestType(policies)
    BY DEF CleanInv
  <2>5. CleanAfter(FALSE, consume_ir(builder, ir))
    BY <2>2, <2>3, <2>4, ConsumeClean
  <2>6. OkHasNoInternalError'
    BY <2>1, <2>5 DEF CleanAfter, OnlyTypeChecks, OkHasNoInternalError
  <2> QED BY <1>0, <2>1, <2>4, <2>6 DEF CleanInv
<1>8. CASE UNCHANGED vars
  BY <1>0, <1>8 DEF vars, callVars, CleanInv, OkHasNoInternalError
<1>9. CASE Reply
  BY <1>5, <1>6, <1>7, <1>9 DEF Reply, SendFails, ReceiveInvalid, ReceiveUnnumbered, ReceiveInconsistent
<1>10. CASE Dropped
  BY <1>5, <1>10 DEF Dropped
<1> QED BY <1>1, <1>2, <1>3, <1>4, <1>8, <1>9, <1>10 DEF Next

\* Whatever the LLM answers, a report that Manager::apply returns holds no default conflict and no
\* invariant violation, provided the policies' type names no field twice and JSON can hold its
\* default numbers: Manager::add rules out the rest.
THEOREM ManagerOkHasNoInternalError ==
  ASSUME \A p \in PolicySet : PlainType(p.type)
  PROVE  Spec => []OkHasNoInternalError
<1>1. Init => CleanInv
  <2> SUFFICES ASSUME Init PROVE CleanInv
    OBVIOUS
  <2>1. policies = <<>> /\ pc = "idle" /\ result = "none"
    BY DEF Init
  <2> QED BY <2>1, CallInit DEF CleanInv, OkHasNoInternalError
<1>2. CleanInv /\ [Next]_vars => CleanInv'
  BY CleanStep
<1>3. CleanInv => OkHasNoInternalError
  BY DEF CleanInv
<1> QED BY <1>1, <1>2, <1>3, PTL DEF Spec
=============================================================================
