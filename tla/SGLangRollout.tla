---------------------------- MODULE SGLangRollout ----------------------------
(***************************************************************************)
(* Multi-turn generation of SGLangRollout: one task per request, each a    *)
(* state machine over engine turns, tool calls and user turns, and a       *)
(* driver that stops waiting when enough requests have returned, cancels   *)
(* the others and pads their rows.                                         *)
(*                                                                         *)
(* The driver is tensor-parallel rank 0.  The others of its group wait for *)
(* it at a barrier, and from there on all ranks do the same with the rows  *)
(* that it broadcasts.                                                     *)
(*                                                                         *)
(* A token is its kind and the turn it belongs to.  input_ids and          *)
(* loss_mask are kept apart; attention_mask and position_ids are cut and   *)
(* extended at the places loss_mask is.  A message is added with the       *)
(* tokens the engine produced, closed by the chat template.                *)
(***************************************************************************)
EXTENDS Integers, Sequences, FiniteSets, SequencesExt

CONSTANTS
    NRequests,
    Configs,              \* records of target_completion and of what is switched on
    PromptLength, ResponseLength, MaxModelLen,
    MaxAssistantTurns, MaxUserTurns,
    PromptLens,           \* lengths of a prompt
    AnswerLens,           \* lengths of what the engine generates
    ReplyLens             \* lengths of what tools and interactions answer

ASSUME SGLangAssumption ==
    /\ {NRequests, PromptLength, ResponseLength, MaxModelLen, MaxAssistantTurns} \subseteq Nat \ {0}
    /\ MaxUserTurns \in Nat
    /\ Configs \subseteq [target : 0 .. NRequests, validate : BOOLEAN, tools : BOOLEAN, interaction : BOOLEAN,
                          create_text : BOOLEAN, log_probs : BOOLEAN]
    /\ PromptLens \subseteq Nat \ {0} /\ AnswerLens \subseteq Nat /\ ReplyLens \subseteq Nat

VARIABLES
    config,
    reqs,                 \* req_list, the task of each request and its copy of it
    instances,            \* the requests that have tool instances
    phase,                \* of _req_level_generate_sequences: "run" and "stranded" are before the barrier
    completed,            \* the tasks as_completed has given, in its order
    output                \* the rows of the batch

rolloutVars == <<config, reqs, instances, phase, completed, output>>

Requests == 1 .. NRequests

Tokens(kind, n, turn) == [i \in 1 .. n |-> <<kind, turn>>]
Gen    == <<"generation_prompt", 0>>
Close  == <<"end_of_turn", 0>>
Pad    == <<"pad", 0>>
Repeat(x, n) == [i \in 1 .. n |-> x]

NoRow == [response_ids |-> <<>>, loss_mask |-> <<>>, log_probs |-> <<>>]

\* initialize_request: the prompt with its generation prompt.
NewRequest(n) ==
    LET ids == Append(Tokens("prompt", n, 0), Gen) IN
    [state |-> "PENDING", at |-> "loop", finish |-> "none", current_turns |-> 0, user_turns |-> 0,
     prompt_ids |-> ids, input_ids |-> ids, loss_mask |-> Repeat(FALSE, n + 1),
     calls |-> <<>>, row |-> NoRow]

RolloutInit ==
    /\ config \in Configs
    /\ reqs \in [Requests -> {NewRequest(n) : n \in PromptLens}]
    /\ instances = {} /\ phase = "run" /\ completed = <<>> /\ output = <<>>
------------------------------------------------------------------------------
\* The messages of an AsyncRolloutRequest.
Extended(q, ids, loss) ==
    [q EXCEPT !.input_ids = @ \o ids, !.loss_mask = @ \o Repeat(loss, Len(ids))]
WithoutGen(q) ==
    IF Last(q.input_ids) = Gen THEN [q EXCEPT !.input_ids = Front(@), !.loss_mask = Front(@)] ELSE q
WithGen(q) == IF Last(q.input_ids) = Gen THEN q ELSE Extended(q, <<Gen>>, FALSE)
AddAssistant(q, ids) == Extended(q, Append(ids, Close), TRUE)
AddToolResponse(q, ids) == IF ids = <<>> THEN q ELSE Extended(WithoutGen(q), ids, FALSE)
AddUser(q, ids) == Extended(q, Append(ids, Close), FALSE)

\* len(input_ids): the tensor has one row.
LenOfTensor(ids) == 1

\* Mutant of MaxNewTokens: no room is left for the end.
MaxNewTokens_NoEos(n) ==
    IF ResponseLength < MaxModelLen - n THEN ResponseLength ELSE MaxModelLen - n

MaxNewTokens(n) ==
    IF ResponseLength < MaxModelLen - n - 1 THEN ResponseLength ELSE MaxModelLen - n - 1

\* Mutant of Left: the reason is kept when the turns have run out.
Left_KeepsReason(q, reason) == [q EXCEPT !.at = "release", !.finish = reason]

\* The request leaves its loop, with the reason that stands after it.
Left(q, reason) ==
    [q EXCEPT !.at = "release",
              !.finish = IF q.current_turns >= MaxAssistantTurns THEN "stop" ELSE reason]
\* The loop goes on while it may take another turn.
Continue(q, state, reason) ==
    LET p == [q EXCEPT !.state = state, !.finish = reason] IN
    IF q.current_turns < MaxAssistantTurns THEN p ELSE Left(p, reason)
------------------------------------------------------------------------------
\* The loop of _async_rollout_a_request, from one await to the next.
Runs(r, state) == phase = "run" /\ reqs[r].at = "loop" /\ reqs[r].state = state
Becomes(r, q) == reqs' = [reqs EXCEPT ![r] = q]
Elsewhere == UNCHANGED <<config, phase, completed, output>>

Raise(r) ==
    /\ Becomes(r, [reqs[r] EXCEPT !.at = "raised"])
    /\ UNCHANGED instances

Create(r) ==
    /\ Runs(r, "PENDING")
    /\ instances' = instances \cup (IF config.tools THEN {r} ELSE {})
    /\ \E n \in IF config.tools /\ config.create_text THEN ReplyLens ELSE {0} :
        Becomes(r, [AddToolResponse(reqs[r], Tokens("create", n, 0)) EXCEPT !.state = "RUNNING"])
    /\ Elsewhere

\* What the request does with an answer: cut off by length, calling tools, with a call that cannot be
\* parsed, or plain.
Answered(q, ending) ==
    CASE ending = "length"   -> Left(q, "length")
      [] ending = "call"     -> Continue(q, "TOOL_CALLING", "tool_calls")
      [] ending = "bad_call" -> Left([q EXCEPT !.state = "COMPLETED"], "stop")
      [] ending = "plain"    ->
            IF /\ config.interaction
               /\ q.user_turns < MaxUserTurns /\ q.current_turns < MaxAssistantTurns
            THEN Continue(q, "INTERACTING", "stop")
            ELSE Left(q, "stop")

Generate(r) ==
    /\ Runs(r, "RUNNING")
    /\ LET q == WithGen(reqs[r])
           turn == q.current_turns + 1
           max_new == MaxNewTokens(Len(q.input_ids))
       IN  \/ /\ Len(q.input_ids) + 1 >= MaxModelLen
              /\ Becomes(r, Left(q, "length"))
           \/ /\ Len(q.input_ids) + 1 < MaxModelLen
              /\ \E n \in AnswerLens :
                  /\ n <= max_new
                  /\ \E ending \in (IF n = max_new THEN {"length"} ELSE {}) \cup
                                   (IF config.tools THEN {"call", "bad_call", "plain"} ELSE {"plain"}) :
                        LET ids == Tokens("answer", n, turn)
                            said == [AddAssistant(q, ids) EXCEPT
                                        !.current_turns = turn,
                                        !.calls = Append(@, [input |-> q.input_ids, max_new |-> max_new,
                                                             answer |-> ids])]
                        IN  Becomes(r, Answered(said, ending))
    /\ UNCHANGED instances /\ Elsewhere

Execute(r) ==
    /\ Runs(r, "TOOL_CALLING")
    /\ \/ \E n \in ReplyLens :
            LET q == AddToolResponse(reqs[r], Tokens("tool", n, reqs[r].current_turns))
            IN  /\ Becomes(r, IF LenOfTensor(q.input_ids) >= MaxModelLen
                              THEN Left(q, "stop") ELSE [q EXCEPT !.state = "RUNNING"])
                /\ UNCHANGED instances
       \/ Raise(r)
    /\ Elsewhere

Interact(r) ==
    /\ Runs(r, "INTERACTING")
    /\ LET q == [reqs[r] EXCEPT !.user_turns = @ + 1]
       IN  \/ Becomes(r, Left([q EXCEPT !.state = "COMPLETED"], "stop"))
           \/ \E n \in ReplyLens :
                LET p == AddUser(q, Tokens("user", n, q.current_turns))
                IN  Becomes(r, IF LenOfTensor(p.input_ids) >= MaxModelLen
                               THEN Left(p, "stop") ELSE [p EXCEPT !.state = "RUNNING"])
    /\ UNCHANGED instances /\ Elsewhere

\* calc_reward_and_release_fn for the tools of the request.
Release(r) ==
    /\ phase = "run" /\ reqs[r].at = "release"
    /\ instances' = instances \ {r}
    /\ Becomes(r, [reqs[r] EXCEPT !.at = "finalize"])
    /\ Elsewhere

\* A slice of the first n, and one that starts after n.
First(s, n) == SubSeq(s, 1, IF Len(s) < n THEN Len(s) ELSE n)
After(s, n) == SubSeq(s, n + 1, Len(s))

\* Mutant of Response: the generation prompt is not counted.
Response_WithGen(q, tensor) == First(After(tensor, Len(q.prompt_ids) - 1), ResponseLength)

\* truncate_output_ids: the response of a tensor of the request.
Response(q, tensor) ==
    LET room == PromptLength + ResponseLength
        kept == First(tensor, IF MaxModelLen < room THEN MaxModelLen ELSE room)
    IN  First(After(kept, Len(q.prompt_ids)), ResponseLength)

\* The log-probabilities the engine gives for input_ids, by the token they are of; the batch takes the
\* last len(response_ids) of them and pads them to the right.
LogProbs(q, response) ==
    After(q.input_ids, Len(q.input_ids) - LenOfTensor(response))

Finalize(r) ==
    /\ phase = "run" /\ reqs[r].at = "finalize"
    /\ IF reqs[r].finish \in {"stop", "length"}
       THEN LET q == WithoutGen(reqs[r])
                response == Response(q, q.input_ids)
            IN  Becomes(r, [q EXCEPT
                    !.at = "returned", !.state = "COMPLETED",
                    !.row = [response_ids |-> response, loss_mask |-> Response(q, q.loss_mask),
                             log_probs |-> IF config.log_probs THEN LogProbs(q, response) ELSE <<>>]])
       ELSE Becomes(r, [WithoutGen(reqs[r]) EXCEPT !.at = "raised", !.state = "COMPLETED"])
    /\ UNCHANGED instances /\ Elsewhere

RequestStep(r) == Create(r) \/ Generate(r) \/ Execute(r) \/ Interact(r) \/ Release(r) \/ Finalize(r)
------------------------------------------------------------------------------
Done(r) == reqs[r].at \in {"returned", "raised"}

\* The loop over the finished tasks breaks with enough of them, and ends with all.
Enough(n) == n >= config.target \/ n = NRequests

\* run_with_cancellation takes the next finished task; with enough of them, or when one has raised,
\* it cancels the tasks that are not done.  An exception leaves the other ranks at the barrier.
TakeCompleted(r) ==
    /\ phase = "run" /\ ~ config.validate
    /\ Done(r) /\ r \notin ToSet(completed)
    /\ LET taken == Append(completed, r)
           raised == reqs[r].at = "raised"
           stop == raised \/ Enough(Len(taken))
       IN  /\ completed' = taken
           /\ phase' = IF raised THEN "stranded" ELSE IF stop THEN "collect" ELSE "run"
           /\ reqs' = [q \in Requests |->
                IF stop /\ ~ Done(q) THEN [reqs[q] EXCEPT !.at = "aborted"] ELSE reqs[q]]
    /\ UNCHANGED <<config, instances, output>>

\* In validation all requests are gathered and none is aborted.
GatherAll ==
    /\ phase = "run" /\ config.validate
    /\ \/ \E r \in Requests : reqs[r].at = "raised" /\ phase' = "stranded"
       \/ (\A r \in Requests : reqs[r].at = "returned") /\ phase' = "collect"
    /\ UNCHANGED <<config, reqs, instances, completed, output>>

\* _create_padding_request
Padding(r) == [prompt_ids |-> reqs[r].prompt_ids,
    response_ids |-> Repeat(Pad, ResponseLength), loss_mask |-> Repeat(FALSE, ResponseLength), log_probs |-> <<>>]

RealRow(r) == [prompt_ids |-> reqs[r].prompt_ids, response_ids |-> reqs[r].row.response_ids,
    loss_mask |-> reqs[r].row.loss_mask, log_probs |-> reqs[r].row.log_probs]

\* Mutant of SortedRows: the rows are in the order of completion.
SortedRows_Completion == [i \in Requests |->
    IF i \in DOMAIN completed /\ reqs[completed[i]].at # "aborted" THEN RealRow(completed[i]) ELSE Padding(i)]
\* The rows sorted by batch_data_id.
SortedRows == [r \in Requests |-> IF reqs[r].at = "aborted" THEN Padding(r) ELSE RealRow(r)]

\* A padding request is a copy of the request as it was before its task: nothing has cut its prompt,
\* which is asserted to fit in the model, and it has no log-probabilities to take the last of.
PaddingRejected(r) ==
    /\ reqs[r].at = "aborted"
    /\ config.log_probs \/ Len(reqs[r].prompt_ids) > MaxModelLen

\* An exception among the results cannot be sorted, which is before the barrier.  What is wrong with
\* a padding request every rank finds behind it.
Collect ==
    /\ phase = "collect"
    /\ phase' = IF \E r \in Requests : reqs[r].at = "raised" THEN "stranded"
                ELSE IF \E r \in Requests : PaddingRejected(r) THEN "rejected" ELSE "done"
    /\ output' = IF phase' = "done" THEN SortedRows ELSE output
    /\ UNCHANGED <<config, reqs, instances, completed>>

RolloutNext ==
    \/ \E r \in Requests : RequestStep(r) \/ TakeCompleted(r)
    \/ GatherAll
    \/ Collect

\* The event loop runs every task that can run; the engine and the tools answer.
RolloutSpec ==
    /\ RolloutInit /\ [][RolloutNext]_rolloutVars
    /\ \A r \in 1 .. NRequests : WF_rolloutVars(RequestStep(r)) /\ WF_rolloutVars(TakeCompleted(r))
    /\ WF_rolloutVars(GatherAll) /\ WF_rolloutVars(Collect)
------------------------------------------------------------------------------
RolloutTypeOK ==
    /\ config \in Configs /\ instances \subseteq Requests
    /\ phase \in {"run", "collect", "done", "rejected", "stranded"}
    /\ completed \in Seq(Requests) /\ Len(completed) <= NRequests
    /\ \A r \in Requests :
        /\ reqs[r].at \in {"loop", "release", "finalize", "returned", "raised", "aborted"}
        /\ reqs[r].current_turns \in 0 .. MaxAssistantTurns
        /\ reqs[r].user_turns \in 0 .. MaxUserTurns
        /\ Len(reqs[r].input_ids) = Len(reqs[r].loss_mask)

Real(r) == reqs[r].at = "returned"
Comparable(s, t) == IsPrefix(s, t) \/ IsPrefix(t, s)

(* The batch has a row for every prompt, at its index: its own, or padding  *)
(* that takes no part in the loss if the request was cancelled.             *)
RowsMatchPrompts ==
    phase = "done" => \A r \in Requests :
        /\ output[r].prompt_ids = reqs[r].prompt_ids
        /\ Real(r) => output[r].response_ids = reqs[r].row.response_ids
        /\ ~ Real(r) => \A i \in DOMAIN output[r].loss_mask : ~ output[r].loss_mask[i]

(* "here input_ids become the whole sentences" (sglang_rollout.py): prompt  *)
(* and response of a row read on as what the engine read and answered in    *)
(* every turn, as far as the row goes.                                      *)
WholeSentences ==
    phase = "done" => \A r \in Requests : Real(r) =>
        \A k \in DOMAIN reqs[r].calls :
            Comparable(output[r].prompt_ids \o output[r].response_ids,
                       reqs[r].calls[k].input \o reqs[r].calls[k].answer)

(* The loss is taken on the assistant's turns, and on nothing a tool, a     *)
(* user or the template put between them.                                   *)
LossOnAnswersOnly ==
    phase = "done" => \A r \in Requests : Real(r) =>
        LET ids == output[r].response_ids
            loss == output[r].loss_mask
        IN  /\ Len(loss) = Len(ids)
            /\ \A i \in DOMAIN ids :
                /\ ids[i][1] = "answer" => loss[i]
                /\ ids[i][1] \in {"prompt", "generation_prompt", "create", "tool", "user"} => ~ loss[i]

(* No more than target_completion requests are waited for, and the batch    *)
(* has that many real rows.                                                 *)
EnoughAreReal ==
    phase = "done" =>
        Cardinality({r \in Requests : Real(r)}) >= IF config.validate THEN NRequests ELSE config.target

(* "SGLang raises an error when max_new_tokens + 1 is greater to            *)
(* max_model_len": every call leaves room for a token and for its end.      *)
EngineCallsFit ==
    \A r \in Requests : \A k \in DOMAIN reqs[r].calls : LET c == reqs[r].calls[k] IN
        c.max_new >= 1 /\ Len(c.input) + c.max_new + 1 <= MaxModelLen

(* A request that ends never fails in finalize for its finish reason, at    *)
(* whatever state of the conversation its turns ran out.                    *)
FinalizeAccepts == \A r \in Requests : reqs[r].at = "finalize" => reqs[r].finish \in {"stop", "length"}

(* Only the tools of cancelled requests are left unreleased.                *)
OnlyAbortedKeepTools ==
    phase = "done" => \A r \in instances : reqs[r].at = "aborted"

(* What generation returns: rows for all prompts, enough of them real, and  *)
(* all tools released but those of requests that were cancelled.            *)
BatchIsComplete == RolloutTypeOK /\ RowsMatchPrompts /\ EnoughAreReal /\ OnlyAbortedKeepTools

(* What a row holds: the whole conversation, with the loss on the answers.  *)
RowsAreRight == WholeSentences /\ LossOnAnswersOnly

(* What the engine and finalize are called with is what they accept.        *)
CallsAreAccepted == EngineCallsFit /\ FinalizeAccepts

(* The log-probabilities of a row are those of its response tokens.         *)
LogProbsMatch ==
    phase = "done" /\ config.log_probs => \A r \in Requests : Real(r) =>
        output[r].log_probs = output[r].response_ids

\* In TOOL_CALLING a request raises what its tool has raised.
ToolRaised(r) == reqs[r].at = "raised" /\ reqs[r].state = "TOOL_CALLING"

(* Tensor-parallel rank 0 comes to the end of every generation, and unless  *)
(* a tool raises it comes to the barrier (line 1172), so that all ranks     *)
(* return their batch or raise alike: no order of ends, cancellations and   *)
(* limits makes a request raise by itself and leave the other ranks         *)
(* waiting.  A tool that raises does just that.                             *)
RolloutEnds ==
    /\ <>(phase \notin {"run", "collect"})
    /\ [](\A r \in Requests : ~ ToolRaised(r)) => <>(phase \in {"done", "rejected"})
==============================================================================
