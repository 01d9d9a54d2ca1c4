------------------------------- MODULE Manager -------------------------------
(***************************************************************************)
(* src/manager.rs: a Manager collects policies of one type and applies     *)
(* them to a text by asking an LLM, retrying while the rule numbers the    *)
(* LLM reports disagree with the fields it sets.                           *)
(*                                                                         *)
(* apply suspends at `client.send(..).await` only, so a step is what runs  *)
(* between two such points: the handling of one reply, up to the next send *)
(* or to the return.  The reply is arbitrary: an error of the client, a    *)
(* response of the wrong shape, or a tool call with any rule numbers and   *)
(* any answers.  The caller may drop the future while it is suspended.     *)
(***************************************************************************)
EXTENDS BuilderOps

CONSTANTS
  PolicySet,     \* the policies a caller may add
  Templates,     \* the messages a caller's request template may start with
  Answers,       \* what the LLM may put under a mask (Unset: nothing)
  RuleSets,      \* the sets of rule numbers the LLM may report
  Tokens,        \* the tokens one response may cost
  MaxAttempts,   \* max_attempts (5 in the code)
  MaxPolicies,   \* bound on the policies of the manager
  MaxApplies     \* bound on the calls of apply

ASSUME ManagerBounds ==
  /\ MaxAttempts \in Nat \ {0} /\ MaxPolicies \in Nat /\ MaxApplies \in Nat
  /\ Tokens \subseteq Nat /\ \A S \in RuleSets : S \subseteq Nat
ASSUME InputTypes == PolicySet \subseteq PolicyRecords /\ Answers \subseteq JsonAnswers

\* The content blocks of a conversation: texts, numbered where there are several, tool calls and
\* their results.  The content of a tool_result is the set of the inconsistencies it lists.
Findings == {"not reported", "not set", "unknown"} \X Nat \X ({None} \cup ({"mask"} \X Nat))
Blocks ==
  ({"prefix", "default", "rule", "text", "suffix", "tool_use"} \X Nat)
    \cup ({"tool_result"} \X Nat \X SUBSET Findings)
MessageRecords == [role : {"user", "assistant"}, blocks : Seq(Blocks)]

BlocksOf(m) == ToSet(m.blocks)
Calls(m) == {b[2] : b \in {x \in BlocksOf(m) : x[1] = "tool_use"}}
Returns(m) == {b[2] : b \in {x \in BlocksOf(m) : x[1] = "tool_result"}}

\* Roles alternate, and every tool call is answered by a tool_result of the same id in the very next
\* message, which holds no other.
Conversation(ms) ==
  /\ \A k \in 1..(Len(ms) - 1) : /\ ms[k].role # ms[k + 1].role
                                /\ Calls(ms[k]) = Returns(ms[k + 1])
  /\ ms # <<>> => Calls(Last(ms)) = {} /\ Returns(ms[1]) = {}

\* The caller's template is a conversation so far.
ASSUME TemplateTypes == \A template \in Templates : template \in Seq(MessageRecords) /\ Conversation(template)

VARIABLES
  policies,      \* Manager.policies
  pc,            \* "idle", "sending" (suspended in client.send) or "panicked"
  builder,       \* apply's ReportBuilder
  messages,      \* req.messages
  attempt,       \* the loop variable
  last_error,    \* the attempt that last_error describes; 0: the empty string
  tracked,       \* did the caller pass Some(usage)?
  usage,         \* the caller's Usage; it outlives the call
  result,        \* how the latest call of apply ended
  report,        \* the Report of the latest call that ended with Ok
  responses,     \* history: responses received in this call
  spent,         \* history: tokens of those responses
  reported,      \* history: the rule numbers of the accepted reply
  applies        \* history: calls of apply

callVars == <<builder, messages, attempt, last_error>>
historyVars == <<responses, spent, reported, applies>>
vars == <<policies, pc, callVars, tracked, usage, result, report, historyVars>>

NoUsage == [tokens |-> None, iterations |-> 0, timed |-> FALSE]
NoReport == NewReport([f \in Fields |-> Unset])

Init ==
  /\ policies = <<>> /\ pc = "idle"
  /\ builder = NewBuilder /\ messages = <<>> /\ attempt = 0 /\ last_error = 0
  /\ tracked = FALSE /\ usage = NoUsage
  /\ result = "none" /\ report = NoReport
  /\ responses = 0 /\ spent = 0 /\ reported = {} /\ applies = 0

\* Mutant: no assertion on the type.
Add_unchecked(policy) ==
  /\ pc = "idle" /\ Len(policies) < MaxPolicies
  /\ policies' = Append(policies, policy)
  /\ UNCHANGED <<pc, callVars, tracked, usage, result, report, historyVars>>

\* Manager::add pushes a policy; a policy of another type than the last one fails the assertion.
Add(policy) ==
  /\ pc = "idle" /\ Len(policies) < MaxPolicies
  /\ policies # <<>> => Last(policies).type = policy.type
  /\ policies' = Append(policies, policy)
  /\ UNCHANGED <<pc, callVars, tracked, usage, result, report, historyVars>>

AddPanics(policy) ==
  /\ pc = "idle" /\ Len(policies) < MaxPolicies
  /\ policies # <<>> /\ Last(policies).type # policy.type
  /\ pc' = "panicked"
  /\ UNCHANGED <<policies, callVars, tracked, usage, result, report, historyVars>>

\* The builder of request_for, and the messages it appends to the template's.
RequestBuilder == FoldLeft(add_policy, NewBuilder, policies)

RequestMessages(template, b) ==
  LET user(ms, blocks) == push_or_merge_message(ms, "user", blocks)
      withDefault == user(template, <<<<"default", 0>>>>)
      withRules == FoldLeft(LAMBDA ms, m : push_or_merge_message(ms, m.role, m.blocks),
                            withDefault, b.messages)
  IN user(user(withRules, <<<<"text", 0>>>>), <<<<"suffix", 0>>>>)

RequestFails == \E i \in DOMAIN policies : AddPolicyFails(policies[i])

\* Mutant: the caller's usage is not reset.
Apply_keeps_usage(template, track) ==
  /\ pc = "idle" /\ applies < MaxApplies
  /\ ~RequestFails
  /\ builder' = RequestBuilder
  /\ messages' = RequestMessages(template, RequestBuilder)
  /\ attempt' = 1 /\ last_error' = 0
  /\ tracked' = track
  /\ pc' = "sending" /\ result' = "none" /\ report' = NoReport
  /\ responses' = 0 /\ spent' = 0 /\ reported' = {} /\ applies' = applies + 1
  /\ UNCHANGED <<policies, usage>>

\* apply up to its first send.  request_for comes first: when a policy is rejected there, the
\* caller's usage is not reset.
Apply(template, track) ==
  /\ pc = "idle" /\ applies < MaxApplies
  /\ ~RequestFails
  /\ builder' = RequestBuilder
  /\ messages' = RequestMessages(template, RequestBuilder)
  /\ attempt' = 1 /\ last_error' = 0
  /\ tracked' = track
  /\ usage' = IF track THEN NoUsage ELSE usage
  /\ pc' = "sending" /\ result' = "none" /\ report' = NoReport
  /\ responses' = 0 /\ spent' = 0 /\ reported' = {} /\ applies' = applies + 1
  /\ UNCHANGED policies

ApplyRejectsPolicy(track) ==
  /\ pc = "idle" /\ applies < MaxApplies
  /\ RequestFails
  /\ tracked' = track
  /\ result' = "Policy" /\ report' = NoReport
  /\ responses' = 0 /\ spent' = 0 /\ reported' = {} /\ applies' = applies + 1
  /\ UNCHANGED <<policies, pc, callVars, usage>>

\* apply returns: its locals are gone, but for the last_error that TooManyIterations carries.
Return(how, error) ==
  /\ pc' = "idle" /\ result' = how /\ last_error' = error
  /\ builder' = NewBuilder /\ messages' = <<>> /\ attempt' = 0
  /\ UNCHANGED <<policies, tracked, applies>>

\* add_claudius_usage and increment_iterations
AfterResponse(t) ==
  [usage EXCEPT !.tokens = IF @ = None THEN <<"some", t>> ELSE <<"some", @[2] + t>>,
                !.iterations = @ + 1]

Receive(t) == pc = "sending" /\ responses' = responses + 1 /\ spent' = spent + t

Track(t, timed) ==
  usage' = IF ~tracked THEN usage
           ELSE IF timed THEN [AfterResponse(t) EXCEPT !.timed = TRUE] ELSE AfterResponse(t)

SendFails ==
  /\ pc = "sending"
  /\ Return("Claudius", 0)
  /\ UNCHANGED <<usage, report, responses, spent, reported>>

\* Not exactly one content block, or one that is no tool call.
ReceiveInvalid(t) ==
  /\ Receive(t) /\ Track(t, FALSE)
  /\ Return("InvalidResponse", 0)
  /\ UNCHANGED <<report, reported>>

GoOn(error, msgs) ==
  /\ attempt' = attempt + 1 /\ last_error' = error /\ messages' = msgs
  /\ UNCHANGED <<policies, pc, builder, tracked, result, applies>>

\* Mutants: one attempt too many; the call starts over when its attempts are used up.
NextAttempt_once_more(t, error, msgs) ==
  /\ Receive(t) /\ Track(t, attempt > MaxAttempts)
  /\ IF attempt > MaxAttempts THEN Return("TooManyIterations", error) ELSE GoOn(error, msgs)
  /\ UNCHANGED <<report, reported>>
NextAttempt_starts_over(t, error, msgs) ==
  \/ /\ attempt < MaxAttempts
     /\ Receive(t) /\ Track(t, FALSE) /\ GoOn(error, msgs)
     /\ UNCHANGED <<report, reported>>
  \/ /\ pc = "sending" /\ attempt = MaxAttempts
     /\ attempt' = 1 /\ last_error' = 0 /\ messages' = SubSeq(messages, 1, 1)
     /\ usage' = NoUsage /\ responses' = 0 /\ spent' = 0
     /\ UNCHANGED <<policies, pc, builder, tracked, result, report, reported, applies>>

\* The end of the loop body: the next attempt, or the return after the loop.
NextAttempt(t, error, msgs) ==
  /\ Receive(t) /\ Track(t, attempt = MaxAttempts)
  /\ IF attempt = MaxAttempts
     THEN Return("TooManyIterations", error)
     ELSE GoOn(error, msgs)
  /\ UNCHANGED <<report, reported>>

\* The tool call has no __rule_numbers__, or one that is no list of numbers: `continue`.
ReceiveUnnumbered(t) == NextAttempt(t, last_error, messages)

Matched(ir) == ToSet(consume_ir(builder, ir).rules_matched)

\* Mutant: rules the LLM reported but set no field of are not listed.
Inconsistencies_one_sided(empirical, claimed) ==
  UNION {{<<"not reported", i, x>> : x \in ToSet(builder.masks_by_index[i])} : i \in empirical \ claimed}

\* The inconsistencies listed for the LLM: every mask of each rule on which the two sides differ.
Inconsistencies(empirical, claimed) ==
  LET masks(i) == ToSet(builder.masks_by_index[i])
      exists(i) == i \in DOMAIN builder.masks_by_index
      listed(how, S) == UNION {IF exists(i) THEN {<<how, i, x>> : x \in masks(i)}
                               ELSE {<<"unknown", i, None>>} : i \in S}
  IN listed("not reported", empirical \ claimed) \cup listed("not set", claimed \ empirical)

\* Mutant: every reported rule has to be matched, but not the other way round.
ReceiveConsistent_subset(ir, claimed, t) ==
  /\ Receive(t) /\ Track(t, TRUE)
  /\ claimed \subseteq Matched(ir)
  /\ report' = consume_ir(builder, ir)
  /\ reported' = claimed
  /\ Return("Ok", 0)

\* The rule numbers agree with the answers: apply returns the report.
ReceiveConsistent(ir, claimed, t) ==
  /\ Receive(t) /\ Track(t, TRUE)
  /\ Matched(ir) = claimed
  /\ report' = consume_ir(builder, ir)
  /\ reported' = claimed
  /\ Return("Ok", 0)

\* Mutants: the reply itself is not put in the conversation; each retry starts from the first message.
ReceiveInconsistent_no_call(ir, claimed, t) ==
  /\ pc = "sending" /\ Matched(ir) # claimed
  /\ LET feedback == <<"tool_result", attempt, Inconsistencies(Matched(ir), claimed)>>
     IN NextAttempt(t, attempt, push_or_merge_message(messages, "user", <<feedback>>))
ReceiveInconsistent_restarts(ir, claimed, t) ==
  /\ pc = "sending" /\ Matched(ir) # claimed
  /\ LET call == push_or_merge_message(SubSeq(messages, 1, 1), "assistant", <<<<"tool_use", attempt>>>>)
         feedback == <<"tool_result", attempt, Inconsistencies(Matched(ir), claimed)>>
     IN NextAttempt(t, attempt, push_or_merge_message(call, "user", <<feedback>>))

\* They disagree: the reply and a tool_result with the inconsistencies join the conversation.
ReceiveInconsistent(ir, claimed, t) ==
  /\ pc = "sending" /\ Matched(ir) # claimed
  /\ LET id == attempt   \* the id of the tool call
         call == push_or_merge_message(messages, "assistant", <<<<"tool_use", id>>>>)
         feedback == <<"tool_result", id, Inconsistencies(Matched(ir), claimed)>>
     IN NextAttempt(t, attempt, push_or_merge_message(call, "user", <<feedback>>))

\* The caller drops the future of apply, e.g. on a timeout of its own.
Dropped ==
  /\ pc = "sending"
  /\ Return("Dropped", 0)
  /\ UNCHANGED <<usage, report, responses, spent, reported>>

Reply ==
  \/ SendFails
  \/ \E t \in Tokens :
       \/ ReceiveInvalid(t)
       \/ ReceiveUnnumbered(t)
       \/ \E ir \in [MaskIds(builder) -> Answers], claimed \in RuleSets :
            ReceiveConsistent(ir, claimed, t) \/ ReceiveInconsistent(ir, claimed, t)

Next ==
  \/ \E policy \in PolicySet : Add(policy) \/ AddPanics(policy)
  \/ \E template \in Templates, track \in BOOLEAN : Apply(template, track)
  \/ \E track \in BOOLEAN : ApplyRejectsPolicy(track)
  \/ Reply
  \/ Dropped

\* client.send resolves, with a response or with an error, sooner or later.
Spec == Init /\ [][Next]_vars /\ WF_vars(Reply)
-----------------------------------------------------------------------------
Results == {"none", "Ok", "Policy", "Claudius", "InvalidResponse", "TooManyIterations", "Dropped"}

\* Every variable has its type, and no call makes more than MaxAttempts attempts.
TypeOK ==
  /\ policies \in Seq(PolicySet) /\ Len(policies) <= MaxPolicies
  /\ pc \in {"idle", "sending", "panicked"}
  /\ attempt \in 0..MaxAttempts /\ last_error \in 0..MaxAttempts
  /\ tracked \in BOOLEAN /\ result \in Results
  /\ responses \in 0..MaxAttempts /\ spent \in Nat /\ applies \in 0..MaxApplies
  /\ usage.iterations \in Nat /\ usage.timed \in BOOLEAN
  /\ usage.tokens = None \/ usage.tokens \in {"some"} \X Nat

\* Every request is a conversation the API accepts: roles alternate, it ends with the user, and
\* every tool call in it is answered by a tool_result of the same id in the very next message.
ConversationWellFormed ==
  pc = "sending" => messages # <<>> /\ Last(messages).role = "user" /\ Conversation(messages)

\* While apply retries, the usage it shows counts exactly the responses received in this call, and
\* the attempt number never falls behind them: no response is paid for and not counted, whatever
\* mix of unnumbered and inconsistent replies there was, and apply gives up after MaxAttempts
\* responses and not before.
UsageCountsResponses ==
  /\ result = "TooManyIterations" => responses = MaxAttempts
  /\ pc = "sending" => attempt = responses + 1
  /\ tracked /\ result # "Policy" /\ applies > 0 =>
       /\ usage.iterations = responses
       /\ usage.tokens = IF responses = 0 THEN None ELSE <<"some", spent>>
       /\ usage.timed <=> result \in {"Ok", "TooManyIterations"}

\* A report is returned only when it is accounted for: the rules it matched are the ones the LLM
\* reported, they all exist, and every field that is set was set by a mask of one of them.
OkIsAccountedFor ==
  result = "Ok" =>
    /\ ToSet(report.rules_matched) = reported
    /\ reported \subseteq DOMAIN policies
    /\ \A f \in Fields : report.value[f] # Unset =>
         \E i \in reported : policies[i].action[f] # Unset

\* A report that apply returns has no internal consistency error, for any answer: policies of one
\* type never disagree on a default or on the kind of a field.
OkHasNoInternalError ==
  result = "Ok" => \A j \in DOMAIN report.errors : report.errors[j][1] = "TypeCheckFailure"

\* The conversation only grows while apply retries: a retry never loses or reorders feedback.
ConversationOnlyGrows ==
  [][pc = "sending" /\ pc' = "sending" =>
       /\ IsPrefix(messages, messages')
       /\ Len(messages') \in {Len(messages), Len(messages) + 2}]_vars

\* Once the client keeps answering, every call of apply returns.
ApplyReturns == (pc = "sending") ~> (pc = "idle")

\* The feedback to an inconsistent reply names each rule number it is about, provided the number is
\* no rule at all or a rule with masks.
FeedbackNamesRules ==
  [][\A ir \in [MaskIds(builder) -> Answers], claimed \in RuleSets, t \in Tokens :
       pc' = "sending" /\ ReceiveInconsistent(ir, claimed, t) =>
         LET blocks == Last(messages').blocks
             named == {x[2] : x \in blocks[Len(blocks)][3]}
         IN \A i \in (Matched(ir) \ claimed) \cup (claimed \ Matched(ir)) :
              i \in named \/ (i \in DOMAIN policies /\ Mentioned(policies[i]) = <<>>)]_vars
-----------------------------------------------------------------------------
(* What the repository's own words say, and the code does not do.           *)

\* src/errors.rs on TooManyIterations.last_error: "The error from the final attempt."
LastErrorIsFinal == result = "TooManyIterations" => last_error = MaxAttempts
=============================================================================
