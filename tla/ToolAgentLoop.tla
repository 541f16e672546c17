---------------------------- MODULE ToolAgentLoop ----------------------------
(***************************************************************************)
(* ToolAgentLoop.run, the coroutine of one conversation of the tool agent: *)
(* the engine answers, the tools that the answer calls run next to each    *)
(* other, their responses are appended, and the engine goes on, until a    *)
(* limit is reached or an answer calls no tool.                            *)
(*                                                                         *)
(* A token is known by where it comes from, and an image stands for the    *)
(* run of placeholder tokens that it is expanded to.  What the engine and  *)
(* the tools answer is any choice.  A video, which ends the job with       *)
(* NotImplementedError, and the metrics are left out.                      *)
(***************************************************************************)
EXTENDS Integers, FiniteSets, Sequences

CONSTANTS
    PromptLength,         \* rollout.prompt_length: what rows are padded to
    ResponseLength,       \* rollout.response_length
    MaxAssistantTurns,    \* 0 without a limit
    MaxUserTurns,         \* 0 without a limit
    MaxParallelCalls,
    CalculateLogProbs,    \* rollout.calculate_log_probs
    MaxToolCalls,         \* bound: tool calls in one answer
    LongestPrompt,        \* bound: tokens of a prompt
    MaxToolTokens         \* bound: tokens of the text of all tool responses of a turn

ASSUME ToolAgentLoopAssumption ==
    /\ {PromptLength, ResponseLength, MaxParallelCalls, LongestPrompt, MaxToolTokens} \subseteq Nat \ {0}
    /\ {MaxAssistantTurns, MaxUserTurns, MaxToolCalls} \subseteq Nat
    /\ CalculateLogProbs \in BOOLEAN

VARIABLES
    pc,
    prompt_ids,
    response_mask,
    response_logprobs,
    image_data,        \* number of images
    user_turns,
    assistant_turns,
    calls,             \* where each tool call of the turn is
    images,            \* the calls of the turn that returned an image
    instances,         \* the calls that hold an instance of their tool
    output

turnVars == <<user_turns, assistant_turns>>
toolVars == <<calls, images, instances>>
vars == <<pc, prompt_ids, response_mask, response_logprobs, image_data,
          turnVars, toolVars, output>>

Repeat(token, n)      == [i \in 1 .. n |-> token]
Images(tokens)        == Cardinality({i \in DOMAIN tokens : tokens[i] = "image"})
LastOf(tokens, n)     == SubSeq(tokens, Len(tokens) - n + 1, Len(tokens))
Truncated(tokens)     == SubSeq(tokens, 1, IF Len(tokens) < ResponseLength THEN Len(tokens) ELSE ResponseLength)
Reached(turns, limit) == limit # 0 /\ turns >= limit

\* max_model_len is not set.
MaxModelLen == PromptLength + ResponseLength

\* Nothing holds a prompt to PromptLength: the dataset's filter is off unless
\* it is asked for and measures without the schemas of the tools, which are
\* part of the prompt here, and no one truncates.
Init ==
    /\ pc = "generate"
    /\ \E i \in 0 .. 1 : \E n \in 1 .. LongestPrompt - i :
            prompt_ids = Repeat("image", i) \o Repeat("prompt", n)
    /\ response_mask = <<>> /\ response_logprobs = <<>>
    /\ image_data = Images(prompt_ids)
    /\ user_turns = 0 /\ assistant_turns = 0
    /\ calls = <<>> /\ images = {} /\ instances = {}
    /\ output = <<>>

-----------------------------------------------------------------------------
(* An answer of the engine *)

\* The limits that end a conversation before its tools are called.
LimitReached ==
    \/ Len(response_mask') >= ResponseLength
    \/ Reached(assistant_turns', MaxAssistantTurns)
    \/ Reached(user_turns, MaxUserTurns)

\* max_tokens = max_model_len - len(prompt_ids); the engine generates at least a token.
Generate ==
    /\ pc = "generate"
    /\ \E n \in 1 .. MaxModelLen - Len(prompt_ids) :
        /\ prompt_ids' = prompt_ids \o Repeat("model", n)
        /\ response_mask' = response_mask \o Repeat(1, n)
        /\ response_logprobs' =
                IF CalculateLogProbs THEN response_logprobs \o Repeat("logprob", n) ELSE <<>>
    /\ assistant_turns' = assistant_turns + 1
    /\ pc' = IF LimitReached THEN "output" ELSE "extract_tool_calls"
    /\ UNCHANGED <<image_data, user_turns, toolVars, output>>

\* SamplingParams raises ValueError for max_tokens less than 1, and run with it.
GenerateRaises ==
    /\ pc = "generate"
    /\ Len(prompt_ids) >= MaxModelLen
    /\ pc' = "raised"
    /\ UNCHANGED <<prompt_ids, response_mask, response_logprobs, image_data,
                   turnVars, toolVars, output>>

-----------------------------------------------------------------------------
(* The tool calls of an answer *)

NoToolCalls ==
    /\ pc = "extract_tool_calls"
    /\ pc' = "output"
    /\ UNCHANGED <<prompt_ids, response_mask, response_logprobs, image_data,
                   turnVars, toolVars, output>>

CallTools ==
    /\ pc = "extract_tool_calls"
    /\ \E n \in 1 .. MaxToolCalls :
        calls' = Repeat("create", IF n < MaxParallelCalls THEN n ELSE MaxParallelCalls)
    /\ images' = {}
    /\ pc' = "gather"
    /\ UNCHANGED <<prompt_ids, response_mask, response_logprobs, image_data,
                   turnVars, instances, output>>

CallStep(c, from, to) ==
    /\ calls[c] = from
    /\ calls' = [calls EXCEPT ![c] = to]
    /\ UNCHANGED <<pc, prompt_ids, response_mask, response_logprobs, image_data, turnVars, output>>

\* Malformed arguments, an unknown tool, or a tool that does not create an instance.
CallFails(c) ==
    /\ CallStep(c, "create", "returned")
    /\ UNCHANGED <<images, instances>>

Create(c) ==
    /\ CallStep(c, "create", "execute")
    /\ instances' = instances \cup {c}
    /\ UNCHANGED images

\* Mutant of Execute: an exception returns without the finally clause.
Execute_ErrorReturns(c) ==
    /\ \/ CallStep(c, "execute", "release") /\ images' \in {images, images \cup {c}}
       \/ CallStep(c, "execute", "returned") /\ UNCHANGED images
    /\ UNCHANGED instances

\* An exception becomes the text of the response.
Execute(c) ==
    /\ CallStep(c, "execute", "release")
    /\ images' \in {images, images \cup {c}}
    /\ UNCHANGED instances

Release(c) ==
    /\ CallStep(c, "release", "returned")
    /\ instances' = instances \ {c}
    /\ UNCHANGED images

CallTool(c) == CallFails(c) \/ Create(c) \/ Execute(c) \/ Release(c)

-----------------------------------------------------------------------------
(* The responses of the tools *)

Gathered == pc = "gather" /\ \A c \in DOMAIN calls : calls[c] = "returned"

\* Mutant of ToolResponseIds: the images are left out of the chat template.
ToolResponseIds_NoImages(n) == Repeat("tool", n)

\* The tokens of the messages, without those of the system prompt.
ToolResponseIds(n) == Repeat("image", Cardinality(images)) \o Repeat("tool", n)

\* Mutant of Fits: the tokens so far are forgotten.
Fits_WithoutMask(n) == n < ResponseLength

\* Mutant of Fits: the response may be full, with no token left for an answer.
Fits_OffByOne(n) == Len(response_mask) + n <= ResponseLength

\* "last turn should not be user turn"
Fits(n) == Len(response_mask) + n < ResponseLength

\* Mutant of AppendResponses: the response is trained on.
AppendResponses_Unmasked ==
    /\ Gathered
    /\ image_data' = image_data + Cardinality(images)
    /\ \E n \in 1 .. MaxToolTokens :
        LET tool_response_ids == ToolResponseIds(n) IN
            /\ Fits(Len(tool_response_ids))
            /\ prompt_ids' = prompt_ids \o tool_response_ids
            /\ response_mask' = response_mask \o Repeat(1, Len(tool_response_ids))
            /\ UNCHANGED response_logprobs
    /\ user_turns' = user_turns + 1
    /\ pc' = "generate"
    /\ UNCHANGED <<assistant_turns, toolVars, output>>

AppendResponses ==
    /\ Gathered
    /\ image_data' = image_data + Cardinality(images)
    /\ \E n \in 1 .. MaxToolTokens :
        LET tool_response_ids == ToolResponseIds(n) IN
            /\ Fits(Len(tool_response_ids))
            /\ prompt_ids' = prompt_ids \o tool_response_ids
            /\ response_mask' = response_mask \o Repeat(0, Len(tool_response_ids))
            /\ response_logprobs' =
                    IF response_logprobs # <<>>
                    THEN response_logprobs \o Repeat("zero", Len(tool_response_ids))
                    ELSE <<>>
    /\ user_turns' = user_turns + 1
    /\ pc' = "generate"
    /\ UNCHANGED <<assistant_turns, toolVars, output>>

\* The images are added to image_data before the length is looked at.
ResponsesDoNotFit ==
    /\ Gathered
    /\ image_data' = image_data + Cardinality(images)
    /\ \E n \in 1 .. MaxToolTokens : ~ Fits(Len(ToolResponseIds(n)))
    /\ pc' = "output"
    /\ UNCHANGED <<prompt_ids, response_mask, response_logprobs, turnVars, toolVars, output>>

Return ==
    /\ pc = "output"
    /\ output' = [prompt_ids        |-> SubSeq(prompt_ids, 1, Len(prompt_ids) - Len(response_mask)),
                  response_ids      |-> Truncated(LastOf(prompt_ids, Len(response_mask))),
                  response_mask     |-> Truncated(response_mask),
                  response_logprobs |-> Truncated(response_logprobs),
                  num_turns         |-> user_turns + assistant_turns + 1]
    /\ pc' = "done"
    /\ UNCHANGED <<prompt_ids, response_mask, response_logprobs, image_data, turnVars, toolVars>>

\* tokenizer.pad fills up to a length and never cuts.
Missing(tokens, n)          == IF Len(tokens) < n THEN n - Len(tokens) ELSE 0
RightPadded(tokens, pad, n) == tokens \o Repeat(pad, Missing(tokens, n))
LeftPadded(tokens, pad, n)  == Repeat(pad, Missing(tokens, n)) \o tokens
Ones(tokens)                == [i \in DOMAIN tokens |-> 1]
Sum(numbers)                == Cardinality({i \in DOMAIN numbers : numbers[i] = 1})

\* The id that tokenizer.pad fills up with, of masks as well, is neither 0 nor 1.
PadTokenId == 2

\* Mutant of Padded: the padded mask is taken as it is.
Padded_NotMasked(mask, attention_mask) == mask
Padded(mask, attention_mask) == [i \in DOMAIN mask |-> mask[i] * attention_mask[i]]

\* _run_agent_loop, after run: one row of the batch; _postprocess puts the reward on it.
Pad ==
    /\ pc = "done"
    /\ LET prompt    == LeftPadded(output.prompt_ids, "pad", PromptLength)
           response  == RightPadded(output.response_ids, "pad", ResponseLength)
           attended  == RightPadded(Ones(output.response_ids), 0, ResponseLength)
           attention == LeftPadded(Ones(output.prompt_ids), 0, PromptLength) \o attended
       IN  output' = [input_ids        |-> prompt \o response,
                      attention_mask    |-> attention,
                      position_ids      |-> [i \in DOMAIN attention |->
                            LET before == Sum(SubSeq(attention, 1, i)) IN IF before = 0 THEN 0 ELSE before - 1],
                      response_mask     |->
                            Padded(RightPadded(output.response_mask, PadTokenId, ResponseLength), attended),
                      rollout_log_probs |->
                            IF output.response_logprobs = <<>> THEN <<>>
                            ELSE RightPadded(output.response_logprobs, "zero", ResponseLength),
                      rewarded          |-> Sum(attended)]
    /\ pc' = "padded"
    /\ UNCHANGED <<prompt_ids, response_mask, response_logprobs, image_data, turnVars, toolVars>>

Turn ==
    \/ Generate \/ GenerateRaises \/ NoToolCalls \/ CallTools
    \/ AppendResponses \/ ResponsesDoNotFit \/ Return \/ Pad

Next == Turn \/ \E c \in DOMAIN calls : CallTool(c)

\* The engine and every tool answer in the end.
Spec == Init /\ [][Next]_vars /\ WF_vars(Next)

-----------------------------------------------------------------------------

TypeOK ==
    /\ pc \in {"generate", "extract_tool_calls", "gather", "output", "done", "padded", "raised"}
    /\ prompt_ids \in Seq({"prompt", "model", "tool", "image"})
    /\ response_mask \in Seq({0, 1})
    /\ response_logprobs \in Seq({"logprob", "zero"})
    /\ {image_data, user_turns, assistant_turns} \subseteq Nat
    /\ calls \in Seq({"create", "execute", "release", "returned"})
    /\ Len(calls) <= MaxParallelCalls
    /\ images \subseteq DOMAIN calls
    /\ instances \subseteq DOMAIN calls

(***************************************************************************)
(* "Response mask, 1 for LLM generated token, 0 for tool response token":  *)
(* after all turns, slices and truncations the output is one response of   *)
(* at most response_length tokens, whose mask and log-probabilities fit    *)
(* token by token, and the prompt holds nothing that was generated.        *)
(***************************************************************************)
OutputAligned ==
    pc = "done" =>
        /\ Len(output.response_ids) \in 1 .. ResponseLength
        /\ Len(output.response_mask) = Len(output.response_ids)
        /\ \A i \in DOMAIN output.response_ids :
            output.response_mask[i] = 1 <=> output.response_ids[i] = "model"
        /\ CalculateLogProbs =>
            /\ Len(output.response_logprobs) = Len(output.response_ids)
            /\ \A i \in DOMAIN output.response_ids :
                output.response_logprobs[i] = "logprob" <=> output.response_ids[i] = "model"
        /\ \A i \in DOMAIN output.prompt_ids : output.prompt_ids[i] \in {"prompt", "image"}

(***************************************************************************)
(* "last turn should not be user turn, or the EOS token reward can't be    *)
(* propagated to previous token in GAE": the reward is put on the last     *)
(* token of the response, and the model has generated that token.          *)
(***************************************************************************)
EndsWithGenerated ==
    pc = "done" => output.response_ids[Len(output.response_ids)] = "model"

(***************************************************************************)
(* "prompts: [bsz, prompt_length], prompt token ids from dataset": a       *)
(* prompt that fits is answered in every turn, since max_model_len leaves  *)
(* room for a token after whatever the tools have added, and its row has   *)
(* the width of every other of the batch.  A prompt that does not fit      *)
(* makes the engine raise in some turn, or a row that is too wide.         *)
(***************************************************************************)
PromptTokens == Len(prompt_ids) - Len(response_mask)
PromptFits   == PromptTokens <= PromptLength

FittingPromptIsServed ==
    PromptFits =>
        /\ pc # "raised"
        /\ pc = "padded" => Len(output.input_ids) = PromptLength + ResponseLength

(***************************************************************************)
(* "Use only the new images from this turn for processing tool responses": *)
(* the engine is given as many images as its prompt has places for them.   *)
(* The output need not be: see ResponsesDoNotFit.                          *)
(***************************************************************************)
EngineSeesItsImages == pc = "generate" => image_data = Images(prompt_ids)

(***************************************************************************)
(* The row that is trained on, with prompts padded on the left, responses  *)
(* and what belongs to them on the right: attention is on the tokens and   *)
(* on nothing else, their positions count up from 0, the loss mask and the *)
(* log-probabilities are of the tokens the model has generated, and the    *)
(* reward is on the last of these.  A prompt that is too long keeps its    *)
(* tokens and is not padded.                                               *)
(***************************************************************************)
Columns == IF PromptTokens < PromptLength THEN PromptLength ELSE PromptTokens

RowAligned ==
    pc = "padded" =>
        LET ids      == output.input_ids
            tokens   == {i \in DOMAIN ids : ids[i] # "pad"}
            model(i) == ids[Columns + i] = "model"
        IN  /\ Len(ids) = Columns + ResponseLength
            /\ \A i \in DOMAIN ids : output.attention_mask[i] = 1 <=> i \in tokens
            /\ \A i \in tokens : output.position_ids[i] = Cardinality({j \in tokens : j < i})
            /\ \A i, j \in tokens : i .. j \subseteq tokens
            /\ \A i \in 1 .. ResponseLength :
                /\ output.response_mask[i] = IF model(i) THEN 1 ELSE 0
                /\ CalculateLogProbs => (output.rollout_log_probs[i] = "logprob" <=> model(i))
            /\ model(output.rewarded)
            /\ \A i \in tokens : i <= Columns + output.rewarded

(* All of this: the output and the row made of it fit their masks token by
   token, the reward is on a generated token, and the engine's images are
   those of its tokens. *)
OutputIsRight == OutputAligned /\ EndsWithGenerated /\ RowAligned /\ EngineSeesItsImages

(***************************************************************************)
(* Whatever fails, no tool instance outlives the turn that created it.     *)
(***************************************************************************)
InstancesReleased == pc # "gather" => instances = {}

(***************************************************************************)
(* A conversation ends, whatever the engine and the tools answer and also  *)
(* if nothing but its length limits it, and one whose prompt fits ends     *)
(* with a row and not with an exception of the engine.                     *)
(***************************************************************************)
Returns ==
    /\ <>(pc \in {"padded", "raised"})
    /\ PromptFits ~> pc = "padded"

=============================================================================
