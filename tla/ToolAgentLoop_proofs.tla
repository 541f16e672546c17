------------------------ MODULE ToolAgentLoop_proofs ------------------------
(***************************************************************************)
(* What holds of a conversation for any lengths, limits and tools: its     *)
(* types, that no tool instance is left behind, that its output and its    *)
(* row are right, and that a prompt that fits is served to the end.  And   *)
(* the limit that the sandbox tools of all conversations share.            *)
(***************************************************************************)
EXTENDS ToolAgentLoop, SandboxFusionTool, FiniteSetTheorems, SequenceTheorems, TLAPS

Tokens   == {"prompt", "model", "tool", "image"}
Mask     == {0, 1}
LogProbs == {"logprob", "zero"}

\* Repeat is a sequence of its length, and a concatenation one of the sum of
\* the lengths.
LEMMA TokenSeqs ==
    /\ \A token \in Tokens, n \in Nat :
            Repeat(token, n) \in Seq(Tokens) /\ Len(Repeat(token, n)) = n
    /\ \A s, t \in Seq(Tokens) : s \o t \in Seq(Tokens) /\ Len(s \o t) = Len(s) + Len(t)
BY DEF Repeat

LEMMA MaskSeqs ==
    /\ \A bit \in Mask, n \in Nat :
            Repeat(bit, n) \in Seq(Mask) /\ Len(Repeat(bit, n)) = n
    /\ \A s, t \in Seq(Mask) : s \o t \in Seq(Mask) /\ Len(s \o t) = Len(s) + Len(t)
BY DEF Repeat

LEMMA LogProbSeqs ==
    /\ \A p \in LogProbs, n \in Nat : Repeat(p, n) \in Seq(LogProbs)
    /\ \A s, t \in Seq(LogProbs) : s \o t \in Seq(LogProbs)
    /\ <<>> \in Seq(LogProbs)
BY DEF Repeat

\* The calls of a turn are finitely many, and so are its images.
LEMMA CardinalityOfCalls ==
    ASSUME calls \in Seq({"create", "execute", "release", "returned"}),
           NEW T, T \subseteq DOMAIN calls
    PROVE  Cardinality(T) \in Nat
<1>1. DOMAIN calls = 1 .. Len(calls) /\ Len(calls) \in Nat
  OBVIOUS
<1>2. IsFiniteSet(DOMAIN calls)
  BY <1>1, FS_Interval
<1>. QED  BY <1>2, FS_Subset, FS_CardinalityType

-----------------------------------------------------------------------------
(***************************************************************************)
(* The inductive invariant.  Outside a turn's tool calls all of them have  *)
(* returned, and exactly those between create and release hold an          *)
(* instance.  The engine is only asked while the response is shorter than  *)
(* its limit, so it can only raise for a prompt that does not fit.         *)
(***************************************************************************)
InstanceInv ==
    /\ pc # "gather" => \A c \in DOMAIN calls : calls[c] = "returned"
    /\ instances = {c \in DOMAIN calls : calls[c] \in {"execute", "release"}}

RoomInv ==
    /\ pc = "generate" => Len(response_mask) < ResponseLength
    /\ pc = "raised" => ~ PromptFits

Inv == TypeOK /\ InstanceInv /\ RoomInv

LEMMA InitInv == Init => Inv
<1>. SUFFICES ASSUME Init PROVE Inv
  OBVIOUS
<1>. USE ToolAgentLoopAssumption
<1>1. PICK i \in 0 .. 1 : \E n \in 1 .. LongestPrompt - i :
            prompt_ids = Repeat("image", i) \o Repeat("prompt", n)
  BY DEF Init
<1>2. PICK n \in 1 .. LongestPrompt - i : prompt_ids = Repeat("image", i) \o Repeat("prompt", n)
  BY <1>1
<1>3. /\ "image" \in Tokens /\ "prompt" \in Tokens
      /\ i \in Nat /\ n \in Nat /\ i + n <= LongestPrompt
  BY DEF Tokens
<1>4. /\ Repeat("image", i) \in Seq(Tokens) /\ Len(Repeat("image", i)) = i
      /\ Repeat("prompt", n) \in Seq(Tokens) /\ Len(Repeat("prompt", n)) = n
  BY <1>3, TokenSeqs
<1>5. prompt_ids \in Seq(Tokens) /\ Len(prompt_ids) = i + n
  BY <1>2, <1>4, TokenSeqs
<1>6. Images(prompt_ids) \in Nat
  <2>1. DOMAIN prompt_ids = 1 .. Len(prompt_ids) /\ Len(prompt_ids) \in Nat
    BY <1>5
  <2>2. IsFiniteSet(DOMAIN prompt_ids)
    BY <2>1, FS_Interval
  <2>. QED  BY <2>2, FS_Subset, FS_CardinalityType DEF Images
<1>7. TypeOK
  BY <1>5, <1>6 DEF Init, TypeOK, Tokens
<1>8. InstanceInv
  BY DEF Init, InstanceInv
<1>9. RoomInv
  BY <1>3, <1>5 DEF Init, RoomInv
<1>. QED  BY <1>7, <1>8, <1>9 DEF Inv

-----------------------------------------------------------------------------
(* One lemma for each kind of step *)

LEMMA GenerateInv == Inv /\ Generate => Inv'
<1>. SUFFICES ASSUME Inv, Generate PROVE Inv'
  OBVIOUS
<1>. USE ToolAgentLoopAssumption
<1>1. PICK n \in 1 .. MaxModelLen - Len(prompt_ids) :
            /\ prompt_ids' = prompt_ids \o Repeat("model", n)
            /\ response_mask' = response_mask \o Repeat(1, n)
            /\ response_logprobs' =
                    IF CalculateLogProbs THEN response_logprobs \o Repeat("logprob", n) ELSE <<>>
  BY DEF Generate
<1>2. /\ prompt_ids \in Seq(Tokens) /\ response_mask \in Seq(Mask)
      /\ response_logprobs \in Seq(LogProbs)
  BY DEF Inv, TypeOK, Tokens, Mask, LogProbs
<1>3. /\ n \in Nat /\ 1 \in Mask
      /\ "model" \in Tokens /\ "logprob" \in LogProbs
  BY <1>2 DEF MaxModelLen, Tokens, Mask, LogProbs
<1>4. /\ prompt_ids' \in Seq(Tokens)
      /\ Len(prompt_ids') = Len(prompt_ids) + n
  <2>1. Repeat("model", n) \in Seq(Tokens) /\ Len(Repeat("model", n)) = n
    BY <1>3, TokenSeqs
  <2>. QED  BY <1>1, <1>2, <2>1, TokenSeqs
<1>5. /\ response_mask' \in Seq(Mask)
      /\ Len(response_mask') = Len(response_mask) + n
  <2>1. Repeat(1, n) \in Seq(Mask) /\ Len(Repeat(1, n)) = n
    BY <1>3, MaskSeqs
  <2>. QED  BY <1>1, <1>2, <2>1, MaskSeqs
<1>6. response_logprobs' \in Seq(LogProbs)
  <2>1. response_logprobs \o Repeat("logprob", n) \in Seq(LogProbs)
    BY <1>2, <1>3, LogProbSeqs
  <2>. QED  BY <1>1, <2>1, LogProbSeqs
<1>7. pc' \in {"output", "extract_tool_calls"} /\ pc = "generate"
  BY DEF Generate
<1>8. UNCHANGED <<image_data, user_turns, calls, images, instances>>
  BY DEF Generate, toolVars
<1>9. TypeOK'
  <2>1. /\ prompt_ids' \in Seq({"prompt", "model", "tool", "image"})
        /\ response_mask' \in Seq({0, 1})
        /\ response_logprobs' \in Seq({"logprob", "zero"})
    BY <1>4, <1>5, <1>6 DEF Tokens, Mask, LogProbs
  <2>2. assistant_turns' = assistant_turns + 1
    BY DEF Generate
  <2>3. {image_data, user_turns, assistant_turns}' \subseteq Nat
    BY <1>8, <2>2 DEF Inv, TypeOK
  <2>4. pc' \in {"generate", "extract_tool_calls", "gather", "output", "done", "padded", "raised"}
    BY <1>7
  <2>. QED  BY <1>8, <2>1, <2>3, <2>4 DEF Inv, TypeOK
<1>10. InstanceInv'
  BY <1>7, <1>8 DEF Inv, InstanceInv
<1>11. RoomInv'
  BY <1>2, <1>3, <1>4, <1>5, <1>7 DEF Inv, RoomInv
<1>. QED  BY <1>9, <1>10, <1>11 DEF Inv

LEMMA GenerateRaisesInv == Inv /\ GenerateRaises => Inv'
<1>. SUFFICES ASSUME Inv, GenerateRaises PROVE Inv'
  OBVIOUS
<1>1. /\ pc = "generate" /\ pc' = "raised" /\ Len(prompt_ids) >= MaxModelLen
      /\ UNCHANGED <<prompt_ids, response_mask, response_logprobs, image_data,
                     user_turns, assistant_turns, calls, images, instances>>
  BY DEF GenerateRaises, turnVars, toolVars
<1>2. TypeOK' /\ InstanceInv'
  BY <1>1 DEF Inv, TypeOK, InstanceInv
<1>3. ~ PromptFits
  <2>1. /\ Len(prompt_ids) \in Nat /\ Len(response_mask) \in Nat
        /\ PromptLength \in Nat /\ ResponseLength \in Nat
    BY ToolAgentLoopAssumption DEF Inv, TypeOK
  <2>2. Len(response_mask) < ResponseLength
    BY <1>1 DEF Inv, RoomInv
  <2>. QED  BY <1>1, <2>1, <2>2 DEF PromptFits, PromptTokens, MaxModelLen
<1>4. RoomInv'
  BY <1>1, <1>3 DEF RoomInv, PromptFits, PromptTokens
<1>. QED  BY <1>2, <1>4 DEF Inv

LEMMA CallToolsInv == Inv /\ (NoToolCalls \/ CallTools) => Inv'
<1>. SUFFICES ASSUME Inv, NoToolCalls \/ CallTools PROVE Inv'
  OBVIOUS
<1>. USE ToolAgentLoopAssumption
<1>1. CASE NoToolCalls
  BY <1>1 DEF NoToolCalls, Inv, TypeOK, InstanceInv, RoomInv, turnVars, toolVars
<1>2. CASE CallTools
  <2>1. PICK m \in Nat : m <= MaxParallelCalls /\ calls' = Repeat("create", m)
    BY <1>2 DEF CallTools
  <2>2. /\ calls' \in Seq({"create", "execute", "release", "returned"})
        /\ Len(calls') = m
        /\ \A c \in DOMAIN calls' : calls'[c] = "create"
    BY <2>1 DEF Repeat
  <2>3. instances = {} /\ instances' = {} /\ images' = {} /\ pc' = "gather"
    BY <1>2 DEF CallTools, Inv, InstanceInv
  <2>4. UNCHANGED <<prompt_ids, response_mask, response_logprobs, image_data,
                    user_turns, assistant_turns>>
    BY <1>2 DEF CallTools, turnVars
  <2>5. TypeOK'
    BY <2>1, <2>2, <2>3, <2>4 DEF Inv, TypeOK
  <2>6. InstanceInv'
    BY <2>2, <2>3 DEF InstanceInv
  <2>7. RoomInv'
    BY <2>3, <2>4 DEF Inv, RoomInv
  <2>. QED  BY <2>5, <2>6, <2>7 DEF Inv
<1>. QED  BY <1>1, <1>2

LEMMA CallToolInv == ASSUME NEW c \in DOMAIN calls PROVE Inv /\ CallTool(c) => Inv'
<1>. SUFFICES ASSUME Inv, CallTool(c) PROVE Inv'
  OBVIOUS
<1>1. PICK from \in {"create", "execute", "release"}, to \in {"execute", "release", "returned"} :
            CallStep(c, from, to)
  BY DEF CallTool, CallFails, Create, Execute, Release
<1>2. /\ calls[c] # "returned" /\ pc = "gather" /\ pc' = "gather"
      /\ calls' = [calls EXCEPT ![c] = to]
      /\ UNCHANGED <<prompt_ids, response_mask, response_logprobs, image_data,
                     user_turns, assistant_turns>>
  BY <1>1 DEF CallStep, Inv, InstanceInv, turnVars
<1>3. /\ calls' \in Seq({"create", "execute", "release", "returned"})
      /\ Len(calls') = Len(calls) /\ DOMAIN calls' = DOMAIN calls
      /\ \A d \in DOMAIN calls : calls'[d] = IF d = c THEN to ELSE calls[d]
  BY <1>2 DEF Inv, TypeOK
<1>4. images' \subseteq DOMAIN calls'
  BY <1>3 DEF CallTool, CallFails, Create, Execute, Release, Inv, TypeOK
<1>5. instances' = {d \in DOMAIN calls' : calls'[d] \in {"execute", "release"}}
  BY <1>3 DEF CallTool, CallFails, Create, Execute, Release, CallStep, Inv, TypeOK, InstanceInv
<1>6. InstanceInv'
  BY <1>2, <1>5 DEF InstanceInv
<1>7. TypeOK'
  BY <1>2, <1>3, <1>4, <1>5 DEF Inv, TypeOK
<1>8. RoomInv'
  BY <1>2 DEF Inv, RoomInv
<1>. QED  BY <1>6, <1>7, <1>8 DEF Inv

\* What the tools add to the conversation.
LEMMA ResponseTypes ==
    ASSUME Inv, NEW n \in 1 .. MaxToolTokens
    PROVE  /\ ToolResponseIds(n) \in Seq(Tokens)
           /\ Len(ToolResponseIds(n)) \in Nat
<1>1. Cardinality(images) \in Nat
  BY CardinalityOfCalls DEF Inv, TypeOK
<1>2. n \in Nat /\ "image" \in Tokens /\ "tool" \in Tokens
  BY ToolAgentLoopAssumption DEF Tokens
<1>3. /\ Repeat("image", Cardinality(images)) \in Seq(Tokens)
      /\ Repeat("tool", n) \in Seq(Tokens)
  BY <1>1, <1>2, TokenSeqs
<1>4. ToolResponseIds(n) \in Seq(Tokens)
  BY <1>3, TokenSeqs DEF ToolResponseIds
<1>. QED  BY <1>4

LEMMA AppendInv == Inv /\ AppendResponses => Inv'
<1>. SUFFICES ASSUME Inv, AppendResponses PROVE Inv'
  OBVIOUS
<1>1. PICK n \in 1 .. MaxToolTokens :
            /\ Fits(Len(ToolResponseIds(n)))
            /\ prompt_ids' = prompt_ids \o ToolResponseIds(n)
            /\ response_mask' = response_mask \o Repeat(0, Len(ToolResponseIds(n)))
            /\ response_logprobs' =
                    IF response_logprobs # <<>>
                    THEN response_logprobs \o Repeat("zero", Len(ToolResponseIds(n)))
                    ELSE <<>>
  BY DEF AppendResponses
<1>. DEFINE ids == ToolResponseIds(n)
            k   == Len(ids)
<1>2. ids \in Seq(Tokens) /\ k \in Nat
  BY ResponseTypes
<1>3. /\ prompt_ids \in Seq(Tokens) /\ response_mask \in Seq(Mask)
      /\ response_logprobs \in Seq(LogProbs)
  BY DEF Inv, TypeOK, Tokens, Mask, LogProbs
<1>4. /\ prompt_ids' = prompt_ids \o ids
      /\ response_mask' = response_mask \o Repeat(0, k)
      /\ Len(response_mask) + k < ResponseLength
      /\ response_logprobs' = IF response_logprobs # <<>>
                              THEN response_logprobs \o Repeat("zero", k) ELSE <<>>
  BY <1>1 DEF Fits
<1>5. /\ UNCHANGED <<assistant_turns, calls, images, instances>> /\ Gathered
      /\ pc' = "generate" /\ user_turns' = user_turns + 1
      /\ image_data' = image_data + Cardinality(images)
  BY DEF AppendResponses, toolVars
<1>6. /\ prompt_ids' \in Seq(Tokens)
      /\ Len(prompt_ids') = Len(prompt_ids) + k
  BY <1>2, <1>3, <1>4, TokenSeqs
<1>. HIDE DEF ids, k
<1>7. 0 \in Mask /\ "zero" \in LogProbs
  BY DEF Mask, LogProbs
<1>8. /\ response_mask' \in Seq(Mask)
      /\ Len(response_mask') = Len(response_mask) + k
  BY <1>2, <1>3, <1>4, <1>7, MaskSeqs
<1>9. response_logprobs' \in Seq(LogProbs)
  <2>1. response_logprobs \o Repeat("zero", k) \in Seq(LogProbs)
    BY <1>2, <1>3, <1>7, LogProbSeqs
  <2>. QED  BY <1>4, <2>1, LogProbSeqs
<1>10. Cardinality(images) \in Nat
  BY CardinalityOfCalls DEF Inv, TypeOK
<1>11. TypeOK'
  BY <1>5, <1>6, <1>8, <1>9, <1>10 DEF Inv, TypeOK, Tokens, Mask, LogProbs
<1>12. InstanceInv'
  BY <1>5 DEF Inv, InstanceInv, Gathered
<1>13. RoomInv'
  <2>1. /\ ResponseLength \in Nat /\ k \in Nat /\ Len(response_mask) \in Nat
    BY <1>2, <1>3, ToolAgentLoopAssumption
  <2>2. Len(response_mask') < ResponseLength
    BY <1>4, <1>8, <2>1
  <2>. QED  BY <1>5, <2>2 DEF RoomInv
<1>. QED  BY <1>11, <1>12, <1>13 DEF Inv

LEMMA EndInv == Inv /\ (ResponsesDoNotFit \/ Return \/ Pad) => Inv'
<1>. SUFFICES ASSUME Inv, ResponsesDoNotFit \/ Return \/ Pad PROVE Inv'
  OBVIOUS
<1>1. CASE ResponsesDoNotFit
  <2>1. Cardinality(images) \in Nat
    BY CardinalityOfCalls DEF Inv, TypeOK
  <2>2. /\ pc' = "output" /\ Gathered /\ image_data' = image_data + Cardinality(images)
        /\ UNCHANGED <<prompt_ids, response_mask, response_logprobs, user_turns,
                       assistant_turns, calls, images, instances>>
    BY <1>1 DEF ResponsesDoNotFit, turnVars, toolVars
  <2>3. TypeOK'
    BY <2>1, <2>2 DEF Inv, TypeOK
  <2>4. InstanceInv' /\ RoomInv'
    BY <2>2 DEF Inv, InstanceInv, RoomInv, Gathered
  <2>. QED  BY <2>3, <2>4 DEF Inv
<1>2. CASE Return
  BY <1>2 DEF Return, Inv, TypeOK, InstanceInv, RoomInv, turnVars, toolVars
<1>3. CASE Pad
  BY <1>3 DEF Pad, Inv, TypeOK, InstanceInv, RoomInv, turnVars, toolVars
<1>. QED  BY <1>1, <1>2, <1>3

LEMMA Invariance == Spec => []Inv
<1>1. Inv /\ [Next]_vars => Inv'
  <2>1. CASE UNCHANGED vars
    BY <2>1 DEF vars, turnVars, toolVars, Inv, TypeOK, InstanceInv, RoomInv, PromptFits, PromptTokens
  <2>. QED  BY <2>1, GenerateInv, GenerateRaisesInv, CallToolsInv, CallToolInv, AppendInv, EndInv DEF Next, Turn
<1>. QED  BY InitInv, <1>1, PTL DEF Spec

-----------------------------------------------------------------------------
(* What follows *)

\* Every variable of a conversation keeps its type, and at most
\* max_parallel_calls tools run.
THEOREM TypeCorrect == Spec => []TypeOK
<1>1. Inv => TypeOK
  BY DEF Inv
<1>. QED  BY Invariance, <1>1, PTL

\* Whatever fails, no tool instance outlives the turn that created it.
THEOREM InstancesAreReleased == Spec => []InstancesReleased
<1>1. Inv => InstancesReleased
  BY DEF Inv, InstanceInv, InstancesReleased
<1>. QED  BY Invariance, <1>1, PTL

-----------------------------------------------------------------------------
(***************************************************************************)
(* What is returned.  On top of Inv: the conversation is a prompt followed *)
(* by what the mask is of, token by token, and the log-probabilities are   *)
(* as many.  A tool's tokens end before the place where the response may   *)
(* be cut off, and the last token is the engine's whenever none is awaited *)
(* of it; that is what keeps the reward on a generated token.              *)
(***************************************************************************)
\* In the prompt nothing was generated, and from there on the mask tells what was.
TokensInv ==
    /\ PromptTokens \in Nat \ {0}
    /\ \A i \in 1 .. PromptTokens : prompt_ids[i] \in {"prompt", "image"}
    /\ \A i \in 1 .. Len(response_mask) :
            response_mask[i] = 1 <=> prompt_ids[PromptTokens + i] = "model"

\* The log-probabilities are as many as the mask, and of the same tokens.
LogProbsInv ==
    CalculateLogProbs =>
        /\ Len(response_logprobs) = Len(response_mask)
        /\ \A i \in 1 .. Len(response_mask) :
                response_logprobs[i] = "logprob" <=> response_mask[i] = 1

\* What a tool said ends before the response may be cut off, and when no answer
\* of the engine is awaited, the last token is one that it generated.
EndingInv ==
    /\ \A i \in 1 .. Len(response_mask) : i >= ResponseLength => response_mask[i] = 1
    /\ pc \in {"extract_tool_calls", "gather", "output"} =>
            response_mask # <<>> /\ response_mask[Len(response_mask)] = 1

ImagesInv ==
    pc \in {"generate", "extract_tool_calls", "gather"} => image_data = Images(prompt_ids)

\* What run returns.
DoneInv ==
    pc = "done" =>
        /\ output.prompt_ids \in Seq({"prompt", "image"})
        /\ Len(output.prompt_ids) = PromptTokens
        /\ output.response_ids \in Seq({"prompt", "model", "tool", "image"})
        /\ Len(output.response_ids) \in 1 .. ResponseLength
        /\ output.response_mask \in Seq({0, 1})
        /\ Len(output.response_mask) = Len(output.response_ids)
        /\ \A i \in 1 .. Len(output.response_ids) :
                output.response_mask[i] = 1 <=> output.response_ids[i] = "model"
        /\ output.response_ids[Len(output.response_ids)] = "model"
        /\ CalculateLogProbs =>
            /\ output.response_logprobs \in Seq({"logprob", "zero"})
            /\ Len(output.response_logprobs) = Len(output.response_ids)
            /\ \A i \in 1 .. Len(output.response_ids) :
                    output.response_logprobs[i] = "logprob" <=> output.response_ids[i] = "model"

OutputInv == TokensInv /\ LogProbsInv /\ EndingInv /\ ImagesInv /\ DoneInv /\ RowAligned

\* Lemmas about the operators that make sequences.
LEMMA RepeatFacts ==
    ASSUME NEW S, NEW token \in S, NEW n \in Nat
    PROVE  /\ Repeat(token, n) \in Seq(S) /\ Len(Repeat(token, n)) = n
           /\ DOMAIN Repeat(token, n) = 1 .. n
           /\ \A i \in 1 .. n : Repeat(token, n)[i] = token
BY DEF Repeat

LEMMA RightPaddedFacts ==
    ASSUME NEW S, NEW tokens \in Seq(S), NEW pad \in S, NEW n \in Nat, Len(tokens) <= n
    PROVE  /\ RightPadded(tokens, pad, n) \in Seq(S) /\ Len(RightPadded(tokens, pad, n)) = n
           /\ \A i \in 1 .. n : RightPadded(tokens, pad, n)[i] =
                    IF i <= Len(tokens) THEN tokens[i] ELSE pad
<1>. DEFINE k == n - Len(tokens)
            padding == Repeat(pad, k)
<1>1. Len(tokens) \in Nat /\ k \in Nat /\ Len(tokens) + k = n /\ Missing(tokens, n) = k
  BY DEF Missing
<1>. HIDE DEF k
<1>2. padding \in Seq(S) /\ Len(padding) = k /\ \A i \in 1 .. k : padding[i] = pad
  BY <1>1, RepeatFacts
<1>. HIDE DEF padding
<1>3. /\ tokens \o padding \in Seq(S) /\ Len(tokens \o padding) = n
      /\ \A i \in 1 .. n : (tokens \o padding)[i] =
            IF i <= Len(tokens) THEN tokens[i] ELSE padding[i - Len(tokens)]
  BY <1>1, <1>2, ConcatProperties
<1>4. \A i \in 1 .. n : i > Len(tokens) => i - Len(tokens) \in 1 .. k
  BY <1>1
<1>5. RightPadded(tokens, pad, n) = tokens \o padding
  BY <1>1 DEF RightPadded, padding
<1>. QED  BY <1>2, <1>3, <1>4, <1>5

LEMMA LeftPaddedFacts ==
    ASSUME NEW S, NEW tokens \in Seq(S), NEW pad \in S, NEW n \in Nat, NEW k \in Nat,
           Missing(tokens, n) = k
    PROVE  /\ LeftPadded(tokens, pad, n) \in Seq(S)
           /\ Len(LeftPadded(tokens, pad, n)) = k + Len(tokens)
           /\ \A i \in 1 .. k + Len(tokens) : LeftPadded(tokens, pad, n)[i] =
                    IF i <= k THEN pad ELSE tokens[i - k]
<1>. DEFINE padding == Repeat(pad, k)
<1>1. Len(tokens) \in Nat
  OBVIOUS
<1>2. padding \in Seq(S) /\ Len(padding) = k /\ \A i \in 1 .. k : padding[i] = pad
  BY <1>1, RepeatFacts
<1>. HIDE DEF padding
<1>3. /\ padding \o tokens \in Seq(S) /\ Len(padding \o tokens) = k + Len(tokens)
      /\ \A i \in 1 .. k + Len(tokens) : (padding \o tokens)[i] =
            IF i <= k THEN padding[i] ELSE tokens[i - k]
  <2>1. padding \in Seq(S) /\ tokens \in Seq(S)
    BY <1>2
  <2>2. /\ padding \o tokens \in Seq(S)
        /\ Len(padding \o tokens) = Len(padding) + Len(tokens)
        /\ \A i \in 1 .. Len(padding) + Len(tokens) : (padding \o tokens)[i] =
                IF i <= Len(padding) THEN padding[i] ELSE tokens[i - Len(padding)]
    BY <2>1, ConcatProperties
  <2>. QED  BY <1>2, <2>2
<1>4. \A i \in 1 .. k + Len(tokens) : i <= k => i \in 1 .. k
  BY <1>1
<1>. DEFINE row == padding \o tokens
            m == k + Len(tokens)
<1>. HIDE DEF row, m
<1>5. \A i \in 1 .. m : row[i] = IF i <= k THEN pad ELSE tokens[i - k]
  <2>. TAKE i \in 1 .. m
  <2>1. row[i] = IF i <= k THEN padding[i] ELSE tokens[i - k]
    BY <1>3 DEF row, m
  <2>2. i <= k => i \in 1 .. k
    BY <1>4 DEF m
  <2>. QED  BY <1>2, <2>1, <2>2
<1>6. LeftPadded(tokens, pad, n) = padding \o tokens
  BY DEF LeftPadded, padding
<1>. QED  BY <1>3, <1>5, <1>6 DEF row, m

LEMMA TruncatedFacts ==
    ASSUME NEW S, NEW tokens \in Seq(S)
    PROVE  LET n == IF Len(tokens) < ResponseLength THEN Len(tokens) ELSE ResponseLength
           IN  /\ Truncated(tokens) \in Seq(S) /\ Len(Truncated(tokens)) = n
               /\ \A i \in 1 .. n : Truncated(tokens)[i] = tokens[i]
<1>. DEFINE n == IF Len(tokens) < ResponseLength THEN Len(tokens) ELSE ResponseLength
<1>1. n \in Nat /\ n <= Len(tokens) /\ 1 \in Int /\ n \in Int
  BY ToolAgentLoopAssumption
<1>2. \A i \in 1 .. n : tokens[i] \in S
  BY <1>1
<1>. HIDE DEF n
<1>3. /\ SubSeq(tokens, 1, n) \in Seq(S)
      /\ Len(SubSeq(tokens, 1, n)) = IF 1 <= n THEN n - 1 + 1 ELSE 0
      /\ \A i \in 1 .. n - 1 + 1 : SubSeq(tokens, 1, n)[i] = tokens[1 + i - 1]
  BY <1>1, <1>2, SubSeqProperties
<1>4. \A i \in 1 .. n : i \in 1 .. n - 1 + 1 /\ 1 + i - 1 = i
  BY <1>1
<1>5. Len(SubSeq(tokens, 1, n)) = n
  BY <1>1, <1>3
<1>6. Truncated(tokens) = SubSeq(tokens, 1, n)
  BY DEF Truncated, n
<1>. QED  BY <1>3, <1>4, <1>5, <1>6 DEF n

LEMMA LastOfFacts ==
    ASSUME NEW S, NEW tokens \in Seq(S), NEW n \in 0 .. Len(tokens)
    PROVE  /\ LastOf(tokens, n) \in Seq(S) /\ Len(LastOf(tokens, n)) = n
           /\ \A i \in 1 .. n : LastOf(tokens, n)[i] = tokens[Len(tokens) - n + i]
<1>. DEFINE a == Len(tokens) - n + 1
            b == Len(tokens)
<1>1. a \in Int /\ b \in Int /\ b - a + 1 = n /\ n \in Nat /\ (a <= b <=> n > 0)
  OBVIOUS
<1>2. \A i \in a .. b : tokens[i] \in S
  OBVIOUS
<1>3. \A i \in 1 .. n : a + i - 1 = Len(tokens) - n + i
  OBVIOUS
<1>4. LastOf(tokens, n) = SubSeq(tokens, a, b)
  BY DEF LastOf
<1>. HIDE DEF a, b
<1>5. /\ SubSeq(tokens, a, b) \in Seq(S)
      /\ Len(SubSeq(tokens, a, b)) = IF a <= b THEN b - a + 1 ELSE 0
      /\ \A i \in 1 .. b - a + 1 : SubSeq(tokens, a, b)[i] = tokens[a + i - 1]
  BY <1>1, <1>2, SubSeqProperties
<1>6. Len(SubSeq(tokens, a, b)) = n
  BY <1>1, <1>5
<1>7. \A i \in 1 .. n : SubSeq(tokens, a, b)[i] = tokens[Len(tokens) - n + i]
  BY <1>1, <1>3, <1>5
<1>. QED  BY <1>4, <1>5, <1>6, <1>7

\* How many images a conversation has places for.
LEMMA ImagesFinite ==
    ASSUME NEW s \in Seq(Tokens)
    PROVE  IsFiniteSet({i \in DOMAIN s : s[i] = "image"}) /\ Images(s) \in Nat
<1>1. DOMAIN s = 1 .. Len(s) /\ Len(s) \in Nat
  OBVIOUS
<1>2. IsFiniteSet(DOMAIN s)
  BY <1>1, FS_Interval
<1>. QED  BY <1>2, FS_Subset, FS_CardinalityType DEF Images

LEMMA ImagesOfRepeat ==
    ASSUME NEW token \in Tokens, NEW n \in Nat
    PROVE  Images(Repeat(token, n)) = IF token = "image" THEN n ELSE 0
<1>1. CASE token = "image"
  <2>1. {i \in DOMAIN Repeat(token, n) : Repeat(token, n)[i] = "image"} = 1 .. n
    BY <1>1 DEF Repeat
  <2>2. Cardinality(1 .. n) = n
    BY FS_Interval
  <2>. QED  BY <1>1, <2>1, <2>2 DEF Images
<1>2. CASE token # "image"
  <2>1. {i \in DOMAIN Repeat(token, n) : Repeat(token, n)[i] = "image"} = {}
    BY <1>2 DEF Repeat
  <2>. QED  BY <1>2, <2>1, FS_EmptySet DEF Images
<1>. QED  BY <1>1, <1>2

LEMMA ImagesOfConcat ==
    ASSUME NEW s \in Seq(Tokens), NEW t \in Seq(Tokens)
    PROVE  Images(s \o t) = Images(s) + Images(t)
<1>. DEFINE A == {i \in DOMAIN s : s[i] = "image"}
            B == {i \in DOMAIN t : t[i] = "image"}
            C == {i \in DOMAIN (s \o t) : (s \o t)[i] = "image"}
            D == {i \in C : i > Len(s)}
            shift == [i \in B |-> i + Len(s)]
<1>1. /\ s \o t \in Seq(Tokens) /\ Len(s \o t) = Len(s) + Len(t)
      /\ Len(s) \in Nat /\ Len(t) \in Nat
      /\ DOMAIN s = 1 .. Len(s) /\ DOMAIN t = 1 .. Len(t)
      /\ DOMAIN (s \o t) = 1 .. Len(s) + Len(t)
      /\ \A i \in 1 .. Len(s) + Len(t) : (s \o t)[i] =
            IF i <= Len(s) THEN s[i] ELSE t[i - Len(s)]
  BY ConcatProperties
<1>2. C = A \cup D /\ A \cap D = {}
  <2>1. \A i \in A : i \in 1 .. Len(s) + Len(t) /\ i <= Len(s) /\ (s \o t)[i] = s[i]
    BY <1>1
  <2>2. A \subseteq C /\ A \cap D = {}
    BY <1>1, <2>1
  <2>3. \A i \in C : i \in A \/ i \in D
    BY <1>1
  <2>. QED  BY <2>2, <2>3
<1>3. \A i \in B : i + Len(s) \in D
  BY <1>1
<1>4. \A d \in D : d - Len(s) \in B /\ (d - Len(s)) + Len(s) = d
  BY <1>1
<1>5. shift \in Bijection(B, D)
  <2>1. shift \in [B -> D]
    BY <1>3
  <2>2. \A x, y \in B : shift[x] = shift[y] => x = y
    BY <1>1
  <2>3. \A d \in D : \E x \in B : shift[x] = d
    BY <1>4
  <2>. QED  BY <2>1, <2>2, <2>3 DEF Bijection, Injection, Surjection, IsInjective
<1>6. IsFiniteSet(A) /\ IsFiniteSet(B) /\ IsFiniteSet(C) /\ IsFiniteSet(D)
  <2>1. IsFiniteSet(A) /\ IsFiniteSet(B) /\ IsFiniteSet(C)
    BY <1>1, ImagesFinite
  <2>2. D \subseteq C
    OBVIOUS
  <2>. HIDE DEF A, B, C, D
  <2>. QED  BY <2>1, <2>2, FS_Subset
<1>7. Images(s) = Cardinality(A) /\ Images(t) = Cardinality(B) /\ Images(s \o t) = Cardinality(C)
  BY DEF Images
<1>. HIDE DEF A, B, C, D, shift
<1>8. Cardinality(D) = Cardinality(B)
  BY <1>5, <1>6, FS_Bijection DEF ExistsBijection
<1>9. Cardinality(C) = Cardinality(A) + Cardinality(D)
  <2>1. Cardinality(A \cap D) = 0
    BY <1>2, FS_EmptySet
  <2>2. Cardinality(A \cup D) = Cardinality(A) + Cardinality(D) - Cardinality(A \cap D)
    BY <1>6, FS_Union
  <2>3. Cardinality(A) \in Nat /\ Cardinality(D) \in Nat
    BY <1>6, FS_CardinalityType
  <2>. QED  BY <1>2, <2>1, <2>2, <2>3
<1>. QED  BY <1>7, <1>8, <1>9

-----------------------------------------------------------------------------
(* The steps *)

\* Tokens are appended with bits that tell which of them the engine generated.
LEMMA AppendTokens ==
    ASSUME Inv, TokensInv, NEW ids \in Seq(Tokens), NEW bits \in Seq(Mask), Len(bits) = Len(ids),
           \A i \in 1 .. Len(ids) : bits[i] = 1 <=> ids[i] = "model",
           prompt_ids' = prompt_ids \o ids, response_mask' = response_mask \o bits
    PROVE  TokensInv'
<1>. DEFINE n == Len(prompt_ids)
            m == Len(response_mask)
            k == Len(ids)
<1>1. /\ prompt_ids \in Seq(Tokens) /\ response_mask \in Seq(Mask)
      /\ n \in Nat /\ m \in Nat /\ k \in Nat
      /\ Len(prompt_ids) = n /\ Len(response_mask) = m /\ Len(ids) = k /\ Len(bits) = k
  BY ToolAgentLoopAssumption DEF Inv, TypeOK, Tokens, Mask
<1>. HIDE DEF n, m, k
<1>2. /\ Len(prompt_ids') = n + k
      /\ \A i \in 1 .. n + k : prompt_ids'[i] = IF i <= n THEN prompt_ids[i] ELSE ids[i - n]
  <2>1. prompt_ids \in Seq(Tokens) /\ ids \in Seq(Tokens)
    BY <1>1
  <2>2. /\ Len(prompt_ids \o ids) = Len(prompt_ids) + Len(ids)
        /\ \A i \in 1 .. Len(prompt_ids) + Len(ids) : (prompt_ids \o ids)[i] =
              IF i <= Len(prompt_ids) THEN prompt_ids[i] ELSE ids[i - Len(prompt_ids)]
    BY <2>1, ConcatProperties
  <2>. QED  BY <1>1, <2>2
<1>3. /\ Len(response_mask') = m + k
      /\ \A i \in 1 .. m + k :
            response_mask'[i] = IF i <= m THEN response_mask[i] ELSE bits[i - m]
  <2>1. response_mask \in Seq(Mask) /\ bits \in Seq(Mask)
    BY <1>1
  <2>2. /\ Len(response_mask \o bits) = Len(response_mask) + Len(bits)
        /\ \A i \in 1 .. Len(response_mask) + Len(bits) : (response_mask \o bits)[i] =
              IF i <= Len(response_mask) THEN response_mask[i] ELSE bits[i - Len(response_mask)]
    <3>1. \A t \in Seq(Mask) :
            /\ Len(response_mask \o t) = Len(response_mask) + Len(t)
            /\ \A i \in 1 .. Len(response_mask) + Len(t) : (response_mask \o t)[i] =
                  IF i <= Len(response_mask) THEN response_mask[i] ELSE t[i - Len(response_mask)]
      BY <2>1, ConcatProperties
    <3>. QED  BY <2>1, <3>1
  <2>. QED  BY <1>1, <2>2
<1>4. /\ PromptTokens = n - m /\ PromptTokens \in Nat \ {0}
      /\ \A i \in 1 .. PromptTokens : prompt_ids[i] \in {"prompt", "image"}
      /\ \A i \in 1 .. m : response_mask[i] = 1 <=> prompt_ids[PromptTokens + i] = "model"
  BY DEF TokensInv, PromptTokens, n, m
<1>5. PromptTokens' = PromptTokens
  <2>1. PromptTokens' = (n + k) - (m + k)
    BY <1>2, <1>3 DEF PromptTokens
  <2>. QED  BY <1>1, <1>4, <2>1
<1>6. \A i \in 1 .. PromptTokens : prompt_ids'[i] \in {"prompt", "image"}
  BY <1>1, <1>2, <1>4
<1>7. \A i \in 1 .. m + k : response_mask'[i] = 1 <=> prompt_ids'[PromptTokens + i] = "model"
  <2>. TAKE i \in 1 .. m + k
  <2>1. CASE i <= m
    <3>1. i \in 1 .. m /\ PromptTokens + i \in 1 .. n + k /\ PromptTokens + i <= n
      BY <1>1, <1>4, <2>1
    <3>2. response_mask'[i] = response_mask[i]
      BY <1>3, <2>1
    <3>3. prompt_ids'[PromptTokens + i] = prompt_ids[PromptTokens + i]
      BY <1>2, <3>1
    <3>. QED  BY <1>4, <3>1, <3>2, <3>3
  <2>2. CASE ~(i <= m)
    <3>1. /\ i - m \in 1 .. k /\ PromptTokens + i \in 1 .. n + k /\ ~(PromptTokens + i <= n)
          /\ (PromptTokens + i) - n = i - m
      BY <1>1, <1>4, <2>2
    <3>2. response_mask'[i] = bits[i - m]
      BY <1>3, <2>2
    <3>3. prompt_ids'[PromptTokens + i] = ids[i - m]
      BY <1>2, <3>1
    <3>. QED  BY <3>1, <3>2, <3>3 DEF k
  <2>. QED  BY <2>1, <2>2
<1>. QED  BY <1>3, <1>4, <1>5, <1>6, <1>7 DEF TokensInv

LEMMA AppendLogProbs ==
    ASSUME Inv, LogProbsInv, CalculateLogProbs, NEW n \in Nat,
           NEW bit \in Mask, NEW p \in LogProbs, p = "logprob" <=> bit = 1,
           response_mask' = response_mask \o Repeat(bit, n),
           response_logprobs' = response_logprobs \o Repeat(p, n)
    PROVE  LogProbsInv'
<1>. DEFINE m == Len(response_mask)
<1>1. /\ response_mask \in Seq(Mask) /\ response_logprobs \in Seq(LogProbs) /\ m \in Nat
      /\ Repeat(bit, n) \in Seq(Mask) /\ Len(Repeat(bit, n)) = n
      /\ \A i \in 1 .. n : Repeat(bit, n)[i] = bit
      /\ Repeat(p, n) \in Seq(LogProbs) /\ Len(Repeat(p, n)) = n
      /\ \A i \in 1 .. n : Repeat(p, n)[i] = p
  <2>1. response_mask \in Seq(Mask) /\ response_logprobs \in Seq(LogProbs)
    BY DEF Inv, TypeOK, Mask, LogProbs
  <2>2. m \in Nat
    BY <2>1
  <2>3. /\ Repeat(bit, n) \in Seq(Mask) /\ Len(Repeat(bit, n)) = n
        /\ \A i \in 1 .. n : Repeat(bit, n)[i] = bit
    BY RepeatFacts
  <2>4. /\ Repeat(p, n) \in Seq(LogProbs) /\ Len(Repeat(p, n)) = n
        /\ \A i \in 1 .. n : Repeat(p, n)[i] = p
    BY RepeatFacts
  <2>. QED  BY <2>1, <2>2, <2>3, <2>4
<1>2. /\ Len(response_logprobs) = m
      /\ \A i \in 1 .. m : response_logprobs[i] = "logprob" <=> response_mask[i] = 1
  BY DEF LogProbsInv
<1>8. Len(response_mask) = m
  OBVIOUS
<1>. HIDE DEF m
<1>3. /\ Len(response_mask') = m + n
      /\ \A i \in 1 .. m + n :
            response_mask'[i] = IF i <= m THEN response_mask[i] ELSE Repeat(bit, n)[i - m]
  <2>1. response_mask \in Seq(Mask) /\ Repeat(bit, n) \in Seq(Mask)
    BY <1>1
  <2>2. /\ Len(response_mask \o Repeat(bit, n)) = Len(response_mask) + Len(Repeat(bit, n))
        /\ \A i \in 1 .. Len(response_mask) + Len(Repeat(bit, n)) : (response_mask \o Repeat(bit, n))[i] =
              IF i <= Len(response_mask) THEN response_mask[i] ELSE (Repeat(bit, n))[i - Len(response_mask)]
    BY <2>1, ConcatProperties
  <2>. QED  BY <1>1, <1>8, <2>2
<1>4. /\ Len(response_logprobs') = m + n
      /\ \A i \in 1 .. m + n :
            response_logprobs'[i] = IF i <= m THEN response_logprobs[i] ELSE Repeat(p, n)[i - m]
  <2>1. response_logprobs \in Seq(LogProbs) /\ Repeat(p, n) \in Seq(LogProbs)
    BY <1>1
  <2>2. /\ Len(response_logprobs \o Repeat(p, n)) = Len(response_logprobs) + Len(Repeat(p, n))
        /\ \A i \in 1 .. Len(response_logprobs) + Len(Repeat(p, n)) : (response_logprobs \o Repeat(p, n))[i] =
              IF i <= Len(response_logprobs) THEN response_logprobs[i] ELSE (Repeat(p, n))[i - Len(response_logprobs)]
    BY <2>1, ConcatProperties
  <2>. QED  BY <1>1, <1>2, <2>2
<1>5. \A i \in 1 .. m + n : IF i <= m THEN i \in 1 .. m ELSE i - m \in 1 .. n
  BY <1>1
<1>6. \A i \in 1 .. m + n : response_logprobs'[i] = "logprob" <=> response_mask'[i] = 1
  BY <1>1, <1>2, <1>3, <1>4, <1>5
<1>. QED  BY <1>3, <1>4, <1>6 DEF LogProbsInv

\* The mask of what was appended ends with its bit.
LEMMA AppendMask ==
    ASSUME NEW bit \in Mask, NEW n \in Nat, response_mask \in Seq(Mask),
           response_mask' = response_mask \o Repeat(bit, n)
    PROVE  /\ Len(response_mask') = Len(response_mask) + n
           /\ \A i \in 1 .. Len(response_mask) : response_mask'[i] = response_mask[i]
           /\ \A i \in Len(response_mask) + 1 .. Len(response_mask) + n : response_mask'[i] = bit
<1>. DEFINE m == Len(response_mask)
<1>1. /\ Repeat(bit, n) \in Seq(Mask) /\ Len(Repeat(bit, n)) = n /\ m \in Nat
      /\ \A i \in 1 .. n : Repeat(bit, n)[i] = bit
  <2>1. m \in Nat
    OBVIOUS
  <2>2. /\ Repeat(bit, n) \in Seq(Mask) /\ Len(Repeat(bit, n)) = n
        /\ \A i \in 1 .. n : Repeat(bit, n)[i] = bit
    BY RepeatFacts
  <2>. QED  BY <2>1, <2>2
<1>5. Len(response_mask) = m
  OBVIOUS
<1>. HIDE DEF m
<1>2. /\ Len(response_mask') = m + n
      /\ \A i \in 1 .. m + n :
            response_mask'[i] = IF i <= m THEN response_mask[i] ELSE Repeat(bit, n)[i - m]
  <2>1. response_mask \in Seq(Mask) /\ Repeat(bit, n) \in Seq(Mask)
    BY <1>1
  <2>2. /\ Len(response_mask \o Repeat(bit, n)) = Len(response_mask) + Len(Repeat(bit, n))
        /\ \A i \in 1 .. Len(response_mask) + Len(Repeat(bit, n)) : (response_mask \o Repeat(bit, n))[i] =
              IF i <= Len(response_mask) THEN response_mask[i] ELSE (Repeat(bit, n))[i - Len(response_mask)]
    BY <2>1, ConcatProperties
  <2>. QED  BY <1>1, <1>5, <2>2
<1>3. \A i \in 1 .. m : i \in 1 .. m + n
  BY <1>1
<1>4. \A i \in m + 1 .. m + n : i \in 1 .. m + n /\ ~(i <= m) /\ i - m \in 1 .. n
  BY <1>1
<1>. QED  BY <1>1, <1>2, <1>3, <1>4 DEF m

LEMMA InitOutputInv == Init => OutputInv
<1>. SUFFICES ASSUME Init PROVE OutputInv
  OBVIOUS
<1>1. PICK i \in 0 .. 1 : \E n \in 1 .. LongestPrompt - i :
            prompt_ids = Repeat("image", i) \o Repeat("prompt", n)
  BY DEF Init
<1>2. PICK n \in 1 .. LongestPrompt - i : prompt_ids = Repeat("image", i) \o Repeat("prompt", n)
  BY <1>1
<1>3. i \in Nat /\ n \in Nat /\ i + n \in Nat \ {0}
  BY ToolAgentLoopAssumption
<1>. DEFINE P == {"prompt", "image"}
<1>4. /\ Repeat("image", i) \in Seq(P) /\ Len(Repeat("image", i)) = i
      /\ Repeat("prompt", n) \in Seq(P) /\ Len(Repeat("prompt", n)) = n
  BY <1>3, RepeatFacts
<1>5. prompt_ids \in Seq(P) /\ Len(prompt_ids) = i + n
  BY <1>2, <1>4, ConcatProperties
<1>6. response_mask = <<>> /\ Len(response_mask) = 0
  BY DEF Init
<1>7. PromptTokens = i + n
  BY <1>3, <1>5, <1>6 DEF PromptTokens
<1>8. TokensInv
  BY <1>3, <1>5, <1>6, <1>7 DEF TokensInv
<1>9. LogProbsInv
  BY <1>6 DEF Init, LogProbsInv
<1>10. EndingInv /\ ImagesInv /\ DoneInv /\ RowAligned
  BY <1>6 DEF Init, EndingInv, ImagesInv, DoneInv, RowAligned
<1>. QED  BY <1>8, <1>9, <1>10 DEF OutputInv

LEMMA GenerateOutputInv == Inv /\ OutputInv /\ Generate => OutputInv'
<1>. SUFFICES ASSUME Inv, OutputInv, Generate PROVE OutputInv'
  OBVIOUS
<1>1. PICK n \in 1 .. MaxModelLen - Len(prompt_ids) :
            /\ prompt_ids' = prompt_ids \o Repeat("model", n)
            /\ response_mask' = response_mask \o Repeat(1, n)
            /\ response_logprobs' =
                    IF CalculateLogProbs THEN response_logprobs \o Repeat("logprob", n) ELSE <<>>
  BY DEF Generate
<1>2. /\ prompt_ids \in Seq(Tokens) /\ response_mask \in Seq(Mask) /\ Len(response_mask) \in Nat
      /\ n \in Nat /\ n > 0 /\ ResponseLength \in Nat
  BY ToolAgentLoopAssumption DEF Inv, TypeOK, Tokens, Mask, MaxModelLen
<1>3. /\ "model" \in Tokens /\ 1 \in Mask /\ "logprob" \in LogProbs /\ "model" # "image"
  BY DEF Tokens, Mask, LogProbs
<1>4. /\ Repeat("model", n) \in Seq(Tokens) /\ Len(Repeat("model", n)) = n
      /\ \A i \in 1 .. n : Repeat("model", n)[i] = "model"
      /\ Repeat(1, n) \in Seq(Mask) /\ Len(Repeat(1, n)) = n
      /\ \A i \in 1 .. n : Repeat(1, n)[i] = 1
  BY <1>2, <1>3, RepeatFacts
<1>5. /\ pc = "generate" /\ pc' \in {"output", "extract_tool_calls"} /\ UNCHANGED image_data
  BY DEF Generate
<1>6. TokensInv'
  BY <1>1, <1>4, AppendTokens DEF OutputInv
<1>7. LogProbsInv'
  <2>1. CASE CalculateLogProbs
    BY <1>1, <1>2, <1>3, <2>1, AppendLogProbs DEF OutputInv
  <2>2. CASE ~CalculateLogProbs
    BY <2>2 DEF LogProbsInv
  <2>. QED  BY <2>1, <2>2
<1>8. EndingInv'
  <2>1. /\ Len(response_mask') = Len(response_mask) + n
        /\ \A i \in 1 .. Len(response_mask) : response_mask'[i] = response_mask[i]
        /\ \A i \in Len(response_mask) + 1 .. Len(response_mask) + n : response_mask'[i] = 1
    BY <1>1, <1>2, <1>3, AppendMask
  <2>2. \A i \in 1 .. Len(response_mask') : i >= ResponseLength => response_mask'[i] = 1
    <3>. SUFFICES ASSUME NEW i \in 1 .. Len(response_mask'), i >= ResponseLength
                  PROVE  response_mask'[i] = 1
      OBVIOUS
    <3>1. i \in 1 .. Len(response_mask) \/ i \in Len(response_mask) + 1 .. Len(response_mask) + n
      BY <1>2, <2>1
    <3>. QED  BY <2>1, <3>1 DEF OutputInv, EndingInv
  <2>3. response_mask'[Len(response_mask')] = 1
    BY <1>2, <2>1
  <2>4. response_mask' # <<>>
    BY <1>2, <2>1
  <2>. QED  BY <2>2, <2>3, <2>4 DEF EndingInv
<1>9. ImagesInv'
  <2>1. Images(prompt_ids') = Images(prompt_ids) + 0
    BY <1>1, <1>2, <1>3, <1>4, ImagesOfConcat, ImagesOfRepeat
  <2>2. Images(prompt_ids) \in Nat
    BY <1>2, ImagesFinite
  <2>. QED  BY <1>5, <2>1, <2>2 DEF OutputInv, ImagesInv
<1>10. DoneInv' /\ RowAligned'
  BY <1>5 DEF DoneInv, RowAligned
<1>. QED  BY <1>6, <1>7, <1>8, <1>9, <1>10 DEF OutputInv

LEMMA ToolsOutputInv ==
    Inv /\ OutputInv /\ (NoToolCalls \/ CallTools \/ \E c \in DOMAIN calls : CallTool(c)) => OutputInv'
<1>. SUFFICES ASSUME Inv, OutputInv, NoToolCalls \/ CallTools \/ \E c \in DOMAIN calls : CallTool(c)
              PROVE  OutputInv'
  OBVIOUS
<1>1. UNCHANGED <<prompt_ids, response_mask, response_logprobs, image_data, output>>
  BY DEF NoToolCalls, CallTools, CallTool, CallFails, Create, Execute, Release, CallStep
<1>2. /\ pc \in {"extract_tool_calls", "gather"} /\ pc' \in {"output", "gather"}
  <2>1. CASE NoToolCalls \/ CallTools
    BY <2>1 DEF NoToolCalls, CallTools
  <2>2. CASE \E c \in DOMAIN calls : CallTool(c)
    BY <2>2 DEF CallTool, CallFails, Create, Execute, Release, CallStep, Inv, InstanceInv
  <2>. QED  BY <2>1, <2>2
<1>3. TokensInv' /\ LogProbsInv'
  BY <1>1 DEF OutputInv, TokensInv, LogProbsInv, PromptTokens
<1>4. EndingInv'
  BY <1>1, <1>2 DEF OutputInv, EndingInv
<1>5. ImagesInv'
  BY <1>1, <1>2 DEF OutputInv, ImagesInv
<1>6. DoneInv' /\ RowAligned'
  BY <1>2 DEF DoneInv, RowAligned
<1>. QED  BY <1>3, <1>4, <1>5, <1>6 DEF OutputInv

LEMMA AppendOutputInv == Inv /\ OutputInv /\ AppendResponses => OutputInv'
<1>. SUFFICES ASSUME Inv, OutputInv, AppendResponses PROVE OutputInv'
  OBVIOUS
<1>1. PICK n \in 1 .. MaxToolTokens :
            /\ Fits(Len(ToolResponseIds(n)))
            /\ prompt_ids' = prompt_ids \o ToolResponseIds(n)
            /\ response_mask' = response_mask \o Repeat(0, Len(ToolResponseIds(n)))
            /\ response_logprobs' =
                    IF response_logprobs # <<>>
                    THEN response_logprobs \o Repeat("zero", Len(ToolResponseIds(n)))
                    ELSE <<>>
  BY DEF AppendResponses
<1>. DEFINE ids == ToolResponseIds(n)
            c   == Cardinality(images)
            k   == Len(ids)
<1>2. /\ prompt_ids \in Seq(Tokens) /\ response_mask \in Seq(Mask)
      /\ response_logprobs \in Seq(LogProbs) /\ Len(response_mask) \in Nat
      /\ n \in Nat /\ c \in Nat /\ ResponseLength \in Nat
  BY ToolAgentLoopAssumption, CardinalityOfCalls DEF Inv, TypeOK, Tokens, Mask, LogProbs
<1>3. /\ {"image", "tool"} \subseteq Tokens /\ 0 \in Mask /\ "zero" \in LogProbs /\ 0 # 1
      /\ "tool" # "image" /\ "tool" # "model" /\ "image" # "model" /\ "zero" # "logprob"
  BY DEF Tokens, Mask, LogProbs
<1>4. /\ Repeat("image", c) \in Seq({"image", "tool"})
      /\ Repeat("tool", n) \in Seq({"image", "tool"})
      /\ Repeat("image", c) \in Seq(Tokens) /\ Repeat("tool", n) \in Seq(Tokens)
  BY <1>2, <1>3, RepeatFacts
<1>5. ids \in Seq({"image", "tool"}) /\ ids \in Seq(Tokens) /\ k \in Nat
  BY <1>4, ConcatProperties DEF ToolResponseIds
<1>6. Images(ids) = c
  <2>1. Images(Repeat("image", c)) = c /\ Images(Repeat("tool", n)) = 0
    BY <1>2, <1>3, ImagesOfRepeat
  <2>2. Images(ids) = Images(Repeat("image", c)) + Images(Repeat("tool", n))
    BY <1>4, ImagesOfConcat DEF ToolResponseIds
  <2>. QED  BY <1>2, <2>1, <2>2
<1>7. /\ pc = "gather" /\ pc' = "generate" /\ image_data' = image_data + c
  BY DEF AppendResponses, Gathered
<1>8. Len(response_mask) + k < ResponseLength
  BY <1>1 DEF Fits
<1>9. \A i \in 1 .. k : ids[i] \in {"image", "tool"}
  BY <1>5
<1>. HIDE DEF ids, c, k
<1>10. /\ prompt_ids' = prompt_ids \o ids /\ response_mask' = response_mask \o Repeat(0, k)
       /\ response_logprobs' =
            IF response_logprobs # <<>> THEN response_logprobs \o Repeat("zero", k) ELSE <<>>
  BY <1>1 DEF ids, k
<1>11. /\ Repeat(0, k) \in Seq(Mask) /\ Len(Repeat(0, k)) = k /\ \A i \in 1 .. k : Repeat(0, k)[i] = 0
  BY <1>3, <1>5, RepeatFacts
<1>12. TokensInv'
  <2>1. \A i \in 1 .. k : Repeat(0, k)[i] = 1 <=> ids[i] = "model"
    BY <1>3, <1>9, <1>11
  <2>. QED  BY <1>5, <1>10, <1>11, <2>1, AppendTokens DEF OutputInv, k
<1>13. LogProbsInv'
  <2>1. CASE CalculateLogProbs
    <3>1. response_logprobs # <<>>
      <4>1. response_mask # <<>> /\ Len(response_logprobs) = Len(response_mask)
        BY <1>7, <2>1 DEF OutputInv, EndingInv, LogProbsInv
      <4>. QED  BY <1>2, <4>1
    <3>. QED  BY <1>3, <1>5, <1>10, <2>1, <3>1, AppendLogProbs DEF OutputInv
  <2>2. CASE ~CalculateLogProbs
    BY <2>2 DEF LogProbsInv
  <2>. QED  BY <2>1, <2>2
<1>14. EndingInv'
  <2>1. Len(response_mask') = Len(response_mask) + k
    BY <1>2, <1>3, <1>5, <1>10, AppendMask
  <2>2. Len(response_mask') < ResponseLength
    BY <1>8, <2>1
  <2>3. \A i \in 1 .. Len(response_mask') : ~(i >= ResponseLength)
    BY <1>2, <1>5, <2>1, <2>2
  <2>. QED  BY <1>7, <2>3 DEF EndingInv
<1>15. ImagesInv'
  <2>1. Images(prompt_ids') = Images(prompt_ids) + c
    BY <1>2, <1>5, <1>6, <1>10, ImagesOfConcat
  <2>. QED  BY <1>7, <2>1 DEF OutputInv, ImagesInv
<1>16. DoneInv' /\ RowAligned'
  BY <1>7 DEF DoneInv, RowAligned
<1>. QED  BY <1>12, <1>13, <1>14, <1>15, <1>16 DEF OutputInv

LEMMA ReturnOutputInv == Inv /\ OutputInv /\ Return => OutputInv'
<1>. SUFFICES ASSUME Inv, OutputInv, Return PROVE OutputInv'
  OBVIOUS
<1>. DEFINE n == Len(prompt_ids)
            m == Len(response_mask)
            r == IF m < ResponseLength THEN m ELSE ResponseLength
            tail == LastOf(prompt_ids, m)
<1>1. /\ prompt_ids \in Seq(Tokens) /\ response_mask \in Seq(Mask)
      /\ response_logprobs \in Seq(LogProbs)
      /\ n \in Nat /\ m \in Nat /\ ResponseLength \in Nat \ {0}
  BY ToolAgentLoopAssumption DEF Inv, TypeOK, Tokens, Mask, LogProbs
<1>2. /\ PromptTokens = n - m /\ PromptTokens \in Nat \ {0}
      /\ \A i \in 1 .. PromptTokens : prompt_ids[i] \in {"prompt", "image"}
      /\ \A i \in 1 .. m : response_mask[i] = 1 <=> prompt_ids[PromptTokens + i] = "model"
  BY DEF OutputInv, TokensInv, PromptTokens
<1>3. pc = "output" /\ pc' = "done" /\ UNCHANGED <<prompt_ids, response_mask, response_logprobs, image_data>>
  BY DEF Return
<1>4. /\ output'.prompt_ids = SubSeq(prompt_ids, 1, n - m)
      /\ output'.response_ids = Truncated(tail)
      /\ output'.response_mask = Truncated(response_mask)
      /\ output'.response_logprobs = Truncated(response_logprobs)
  BY DEF Return
<1>5. m > 0 /\ response_mask[m] = 1
  BY <1>1, <1>3 DEF OutputInv, EndingInv
<1>6. r \in 1 .. ResponseLength /\ r \in 1 .. m /\ (r = m \/ r >= ResponseLength)
  BY <1>1, <1>5
<1>7. response_mask[r] = 1
  BY <1>5, <1>6 DEF OutputInv, EndingInv
<1>8. /\ output'.prompt_ids \in Seq({"prompt", "image"})
      /\ Len(output'.prompt_ids) = PromptTokens
  <2>1. /\ SubSeq(prompt_ids, 1, n - m) \in Seq({"prompt", "image"})
        /\ Len(SubSeq(prompt_ids, 1, n - m)) =
                IF 1 <= n - m THEN (n - m) - 1 + 1 ELSE 0
    BY <1>1, <1>2, SubSeqProperties
  <2>. HIDE DEF n, m
  <2>. QED  BY <1>1, <1>2, <1>4, <2>1
<1>9. /\ tail \in Seq(Tokens) /\ Len(tail) = m
      /\ \A i \in 1 .. m : tail[i] = prompt_ids[n - m + i]
  <2>1. m \in 0 .. n
    BY <1>1, <1>2
  <2>. QED  BY <1>1, <2>1, LastOfFacts
<1>10. /\ output'.response_ids \in Seq(Tokens) /\ Len(output'.response_ids) = r
       /\ \A i \in 1 .. r : output'.response_ids[i] = tail[i]
  <2>. HIDE DEF tail, m
  <2>. QED  BY <1>4, <1>9, TruncatedFacts DEF r
<1>11. /\ output'.response_mask \in Seq(Mask) /\ Len(output'.response_mask) = r
       /\ \A i \in 1 .. r : output'.response_mask[i] = response_mask[i]
  BY <1>1, <1>4, TruncatedFacts
<1>12. \A i \in 1 .. r : output'.response_ids[i] = prompt_ids[PromptTokens + i]
  <2>. HIDE DEF r, tail, n, m
  <2>. QED  BY <1>1, <1>2, <1>6, <1>9, <1>10
<1>13. CalculateLogProbs =>
            /\ output'.response_logprobs \in Seq(LogProbs)
            /\ Len(output'.response_logprobs) = r
            /\ \A i \in 1 .. r : output'.response_logprobs[i] = "logprob" <=> response_mask[i] = 1
  <2>. SUFFICES ASSUME CalculateLogProbs
                PROVE  /\ output'.response_logprobs \in Seq(LogProbs)
                       /\ Len(output'.response_logprobs) = r
                       /\ \A i \in 1 .. r :
                            output'.response_logprobs[i] = "logprob" <=> response_mask[i] = 1
    OBVIOUS
  <2>1. /\ Len(response_logprobs) = m
        /\ \A i \in 1 .. m : response_logprobs[i] = "logprob" <=> response_mask[i] = 1
    BY DEF OutputInv, LogProbsInv
  <2>2. /\ output'.response_logprobs \in Seq(LogProbs) /\ Len(output'.response_logprobs) = r
        /\ \A i \in 1 .. r : output'.response_logprobs[i] = response_logprobs[i]
    BY <1>1, <1>4, <2>1, TruncatedFacts
  <2>. HIDE DEF r, m
  <2>. QED  BY <1>1, <1>6, <2>1, <2>2
<1>. HIDE DEF n, m, r, tail
<1>14. \A i \in 1 .. r : i \in 1 .. m
  BY <1>1, <1>6
<1>15. \A i \in 1 .. r : output'.response_mask[i] = 1 <=> output'.response_ids[i] = "model"
  BY <1>2, <1>11, <1>12, <1>14
<1>16. output'.response_ids[r] = "model"
  BY <1>2, <1>6, <1>7, <1>12
<1>17. CalculateLogProbs => \A i \in 1 .. r :
            output'.response_logprobs[i] = "logprob" <=> output'.response_ids[i] = "model"
  BY <1>2, <1>12, <1>13, <1>14
<1>21. PromptTokens' = PromptTokens
  BY <1>3 DEF PromptTokens
<1>18. DoneInv'
  BY <1>6, <1>8, <1>10, <1>11, <1>13, <1>15, <1>16, <1>17, <1>21 DEF DoneInv, Tokens, Mask, LogProbs
<1>19. TokensInv' /\ LogProbsInv'
  BY <1>3 DEF OutputInv, TokensInv, LogProbsInv, PromptTokens
<1>20. EndingInv' /\ ImagesInv' /\ RowAligned'
  BY <1>3 DEF OutputInv, EndingInv, ImagesInv, RowAligned
<1>. QED  BY <1>18, <1>19, <1>20 DEF OutputInv

\* The positions that are attended to are counted from the first of them.
LEMMA CountOfInterval ==
    ASSUME NEW mask, NEW i \in Nat, NEW a \in Nat, NEW b \in Nat,
           mask \in Seq({0, 1}), i <= Len(mask), a < i, i <= b,
           \A j \in 1 .. Len(mask) : mask[j] = 1 <=> j \in a + 1 .. b
    PROVE  Sum(SubSeq(mask, 1, i)) = i - a
<1>1. /\ SubSeq(mask, 1, i) \in Seq({0, 1})
      /\ Len(SubSeq(mask, 1, i)) = i
      /\ \A j \in 1 .. i : SubSeq(mask, 1, i)[j] = mask[j]
  <2>1. \A j \in 1 .. i : mask[j] \in {0, 1}
    OBVIOUS
  <2>2. 1 \in Int /\ i \in Int /\ 1 <= i
    OBVIOUS
  <2>3. /\ SubSeq(mask, 1, i) \in Seq({0, 1})
        /\ Len(SubSeq(mask, 1, i)) = IF 1 <= i THEN i - 1 + 1 ELSE 0
        /\ \A j \in 1 .. i - 1 + 1 : SubSeq(mask, 1, i)[j] = mask[1 + j - 1]
    BY <2>1, <2>2, SubSeqProperties
  <2>4. \A j \in 1 .. i : j \in 1 .. i - 1 + 1 /\ 1 + j - 1 = j
    OBVIOUS
  <2>5. Len(SubSeq(mask, 1, i)) = i
    BY <2>2, <2>3
  <2>. QED  BY <2>3, <2>4, <2>5
<1>2. DOMAIN SubSeq(mask, 1, i) = 1 .. i
  BY <1>1
<1>3. {j \in 1 .. i : mask[j] = 1} = a + 1 .. i
  <2>1. \A j \in 1 .. i : j \in 1 .. Len(mask)
    OBVIOUS
  <2>2. \A j \in 1 .. i : mask[j] = 1 <=> j \in a + 1 .. i
    BY <2>1
  <2>3. a + 1 .. i \subseteq 1 .. i
    OBVIOUS
  <2>. QED  BY <2>2, <2>3
<1>4. {j \in DOMAIN SubSeq(mask, 1, i) : SubSeq(mask, 1, i)[j] = 1} = a + 1 .. i
  BY <1>1, <1>2, <1>3
<1>5. Cardinality(a + 1 .. i) = i - a
  <2>1. Cardinality(a + 1 .. i) = IF a + 1 > i THEN 0 ELSE i - (a + 1) + 1
    BY FS_Interval
  <2>. QED  BY <2>1
<1>. QED  BY <1>4, <1>5 DEF Sum

\* A row: padded on the left up to its prompt's place if there is room, and on the
\* right after its response.
RowOf(left, right, pad) ==
    LeftPadded(left, pad, PromptLength) \o RightPadded(right, pad, ResponseLength)

LEMMA RowFacts ==
    ASSUME NEW S, NEW pad \in S, NEW left \in Seq(S), NEW right \in Seq(S),
           Columns \in Nat, Len(left) <= Columns,
           Missing(left, PromptLength) = Columns - Len(left),
           Len(right) <= ResponseLength
    PROVE  /\ RowOf(left, right, pad) \in Seq(S)
           /\ Len(RowOf(left, right, pad)) = Columns + ResponseLength
           /\ \A i \in 1 .. Columns - Len(left) : RowOf(left, right, pad)[i] = pad
           /\ \A i \in 1 .. Len(left) :
                    RowOf(left, right, pad)[Columns - Len(left) + i] = left[i]
           /\ \A i \in 1 .. Len(right) : RowOf(left, right, pad)[Columns + i] = right[i]
           /\ \A i \in Len(right) + 1 .. ResponseLength :
                    RowOf(left, right, pad)[Columns + i] = pad
<1>. DEFINE P == Columns
            R == ResponseLength
            a == Len(left)
            b == Len(right)
            l == LeftPadded(left, pad, PromptLength)
            r == RightPadded(right, pad, R)
            row == l \o r
<1>0. /\ P \in Nat /\ R \in Nat /\ a \in Nat /\ b \in Nat /\ a <= P /\ b <= R
      /\ Missing(left, PromptLength) = P - a
  BY ToolAgentLoopAssumption
<1>1. /\ l \in Seq(S) /\ Len(l) = P
      /\ \A i \in 1 .. P : l[i] = IF i <= P - a THEN pad ELSE left[i - (P - a)]
  <2>. DEFINE k == Missing(left, PromptLength)
  <2>1. k = P - a /\ k \in Nat /\ k + a = P
    BY <1>0
  <2>2. /\ l \in Seq(S) /\ Len(l) = k + a
        /\ \A i \in 1 .. k + a : l[i] = IF i <= k THEN pad ELSE left[i - k]
    <3>1. PromptLength \in Nat /\ Missing(left, PromptLength) = k
      BY ToolAgentLoopAssumption
    <3>2. left \in Seq(S) /\ pad \in S /\ k \in Nat
      BY <2>1
    <3>. HIDE DEF k
    <3>3. /\ LeftPadded(left, pad, PromptLength) \in Seq(S)
          /\ Len(LeftPadded(left, pad, PromptLength)) = k + Len(left)
          /\ \A i \in 1 .. k + Len(left) : LeftPadded(left, pad, PromptLength)[i] =
                    IF i <= k THEN pad ELSE left[i - k]
      BY <3>1, <3>2, LeftPaddedFacts, SMTT(60)
    <3>. QED  BY <3>3
  <2>. HIDE DEF k, l, P, a
  <2>3. /\ l \in Seq(S) /\ Len(l) = P
        /\ \A i \in 1 .. P : l[i] = IF i <= k THEN pad ELSE left[i - k]
    BY <2>1, <2>2
  <2>. QED  BY <2>1, <2>3
<1>2. /\ r \in Seq(S) /\ Len(r) = R
      /\ \A i \in 1 .. R : r[i] = IF i <= b THEN right[i] ELSE pad
  BY <1>0, RightPaddedFacts
<1>. HIDE DEF l, r
<1>3. /\ row \in Seq(S) /\ Len(row) = P + R
      /\ \A i \in 1 .. P + R : row[i] = IF i <= P THEN l[i] ELSE r[i - P]
  BY <1>0, <1>1, <1>2, ConcatProperties
<1>. HIDE DEF row, P, R, a, b
<1>4. \A i \in 1 .. P - a : row[i] = pad
  BY <1>0, <1>1, <1>3
<1>5. \A i \in 1 .. a : row[P - a + i] = left[i]
  <2>. TAKE i \in 1 .. a
  <2>1. /\ P - a + i \in 1 .. P /\ P - a + i \in 1 .. P + R /\ P - a + i <= P
        /\ ~(P - a + i <= P - a) /\ (P - a + i) - (P - a) = i
    BY <1>0
  <2>. QED  BY <1>1, <1>3, <2>1
<1>6. \A i \in 1 .. R : row[P + i] = r[i]
  <2>. TAKE i \in 1 .. R
  <2>1. P + i \in 1 .. P + R /\ ~(P + i <= P) /\ (P + i) - P = i
    BY <1>0
  <2>. QED  BY <1>3, <2>1
<1>7. \A i \in 1 .. b : row[P + i] = right[i]
  <2>. TAKE i \in 1 .. b
  <2>1. i \in 1 .. R /\ i <= b
    BY <1>0
  <2>. QED  BY <1>2, <1>6, <2>1
<1>9. \A i \in b + 1 .. R : row[P + i] = pad
  <2>. TAKE i \in b + 1 .. R
  <2>1. i \in 1 .. R /\ ~(i <= b)
    BY <1>0
  <2>. QED  BY <1>2, <1>6, <2>1
<1>8. RowOf(left, right, pad) = row
  BY DEF RowOf, row, l, r, P, R
<1>. QED  BY <1>3, <1>4, <1>5, <1>7, <1>8, <1>9 DEF P, R, a, b

LEMMA OnesFacts ==
    ASSUME NEW S, NEW tokens \in Seq(S)
    PROVE  /\ Ones(tokens) \in Seq({0, 1}) /\ Len(Ones(tokens)) = Len(tokens)
           /\ \A i \in 1 .. Len(tokens) : Ones(tokens)[i] = 1
<1>1. DOMAIN tokens = 1 .. Len(tokens) /\ Len(tokens) \in Nat
  OBVIOUS
<1>. QED  BY <1>1 DEF Ones

LEMMA PadOutputInv == Inv /\ OutputInv /\ Pad => OutputInv'
<1>. SUFFICES ASSUME Inv, OutputInv, Pad PROVE OutputInv'
  OBVIOUS
<1>. DEFINE Padding   == Tokens \cup {"pad"}
            a         == Len(output.prompt_ids)
            b         == Len(output.response_ids)
            attended  == RightPadded(Ones(output.response_ids), 0, ResponseLength)
            ids       == RowOf(output.prompt_ids, output.response_ids, "pad")
            attention == RowOf(Ones(output.prompt_ids), Ones(output.response_ids), 0)
            width     == Columns + ResponseLength
            first     == Columns - a
            last      == Columns + b
<1>1. pc = "done" /\ pc' = "padded" /\ UNCHANGED <<prompt_ids, response_mask, response_logprobs, image_data>>
  BY DEF Pad
<1>2. /\ output.prompt_ids \in Seq(Tokens) /\ output.response_ids \in Seq(Tokens)
      /\ a \in 1 .. Columns /\ b \in 1 .. ResponseLength
      /\ Columns \in Nat /\ ResponseLength \in Nat /\ PromptLength \in Nat
      /\ a = PromptTokens /\ Columns = IF a < PromptLength THEN PromptLength ELSE a
  <2>1. output.prompt_ids \in Seq(Tokens) /\ output.response_ids \in Seq(Tokens)
    BY <1>1, SeqMonotonic DEF OutputInv, DoneInv, Tokens
  <2>2. a = PromptTokens /\ PromptTokens \in Nat \ {0} /\ b \in 1 .. ResponseLength
    BY <1>1 DEF OutputInv, DoneInv, TokensInv
  <2>3. PromptLength \in Nat /\ ResponseLength \in Nat
    BY ToolAgentLoopAssumption
  <2>4. Columns = IF a < PromptLength THEN PromptLength ELSE a
    BY <2>2 DEF Columns
  <2>. HIDE DEF a, b
  <2>. QED  BY <2>1, <2>2, <2>3, <2>4
<1>3. /\ output.response_mask \in Seq(Mask) /\ Len(output.response_mask) = b
      /\ \A i \in 1 .. b : output.response_mask[i] = 1 <=> output.response_ids[i] = "model"
      /\ output.response_ids[b] = "model"
      /\ CalculateLogProbs =>
            /\ output.response_logprobs \in Seq(LogProbs)
            /\ Len(output.response_logprobs) = b
            /\ \A i \in 1 .. b :
                    output.response_logprobs[i] = "logprob" <=> output.response_ids[i] = "model"
  BY <1>1 DEF OutputInv, DoneInv, Mask, LogProbs
<1>4. /\ output'.input_ids = ids /\ output'.attention_mask = attention
      /\ output'.position_ids = [i \in DOMAIN attention |->
            LET s == Sum(SubSeq(attention, 1, i)) IN IF s = 0 THEN 0 ELSE s - 1]
      /\ output'.response_mask =
            Padded(RightPadded(output.response_mask, PadTokenId, ResponseLength), attended)
      /\ output'.rollout_log_probs =
            IF output.response_logprobs = <<>> THEN <<>>
            ELSE RightPadded(output.response_logprobs, "zero", ResponseLength)
      /\ output'.rewarded = Sum(attended)
  BY DEF Pad, RowOf
<1>5. /\ output.prompt_ids \in Seq(Padding) /\ output.response_ids \in Seq(Padding)
      /\ "pad" \in Padding /\ "pad" \notin Tokens
      /\ \A i \in 1 .. a : output.prompt_ids[i] \in Tokens
      /\ \A i \in 1 .. b : output.response_ids[i] \in Tokens
  <2>1. Tokens \subseteq Padding /\ "pad" \in Padding /\ "pad" \notin Tokens
    BY DEF Tokens
  <2>. HIDE DEF Padding
  <2>. QED  BY <1>2, <2>1, SeqMonotonic
<1>6. Len(output.prompt_ids) = a /\ Len(output.response_ids) = b /\ a \in Nat /\ b \in Nat
  BY <1>2
<1>7. /\ Ones(output.prompt_ids) \in Seq(Mask) /\ Len(Ones(output.prompt_ids)) = a
      /\ \A i \in 1 .. a : Ones(output.prompt_ids)[i] = 1
      /\ Ones(output.response_ids) \in Seq(Mask) /\ Len(Ones(output.response_ids)) = b
      /\ \A i \in 1 .. b : Ones(output.response_ids)[i] = 1
      /\ 0 \in Mask
  BY <1>2, OnesFacts DEF Mask
<1>. HIDE DEF a, b, Padding
<1>8. a <= Columns /\ b <= ResponseLength /\ a > 0 /\ b > 0
  BY <1>2, <1>6
<1>9. /\ ids \in Seq(Padding) /\ Len(ids) = Columns + ResponseLength
      /\ \A i \in 1 .. Columns - a : ids[i] = "pad"
      /\ \A i \in 1 .. a : ids[Columns - a + i] = output.prompt_ids[i]
      /\ \A i \in 1 .. b : ids[Columns + i] = output.response_ids[i]
      /\ \A i \in b + 1 .. ResponseLength : ids[Columns + i] = "pad"
  <2>1. /\ output.prompt_ids \in Seq(Padding) /\ output.response_ids \in Seq(Padding)
        /\ "pad" \in Padding
        /\ Len(output.prompt_ids) <= Columns /\ Len(output.response_ids) <= ResponseLength
        /\ Columns \in Nat /\ Missing(output.prompt_ids, PromptLength) = Columns - Len(output.prompt_ids)
    BY <1>2, <1>5, <1>6, <1>8 DEF Missing
  <2>. DEFINE prompt == output.prompt_ids
              response == output.response_ids
  <2>. HIDE DEF prompt, response
  <2>2. /\ RowOf(prompt, response, "pad") \in Seq(Padding)
        /\ Len(RowOf(prompt, response, "pad")) = Columns + ResponseLength
        /\ \A i \in 1 .. Columns - Len(prompt) : RowOf(prompt, response, "pad")[i] = "pad"
        /\ \A i \in 1 .. Len(prompt) :
                RowOf(prompt, response, "pad")[Columns - Len(prompt) + i] = prompt[i]
        /\ \A i \in 1 .. Len(response) :
                RowOf(prompt, response, "pad")[Columns + i] = response[i]
        /\ \A i \in Len(response) + 1 .. ResponseLength :
                RowOf(prompt, response, "pad")[Columns + i] = "pad"
    <3>1. /\ prompt \in Seq(Padding) /\ response \in Seq(Padding) /\ "pad" \in Padding
          /\ Len(prompt) <= Columns /\ Len(response) <= ResponseLength
          /\ Columns \in Nat /\ Missing(prompt, PromptLength) = Columns - Len(prompt)
      BY <2>1 DEF prompt, response
    <3>. QED  BY <3>1, RowFacts
  <2>. QED  BY <1>6, <2>2 DEF prompt, response
<1>10. /\ attention \in Seq(Mask) /\ Len(attention) = Columns + ResponseLength
       /\ \A i \in 1 .. Columns - a : attention[i] = 0
       /\ \A i \in 1 .. a : attention[Columns - a + i] = Ones(output.prompt_ids)[i]
       /\ \A i \in 1 .. b : attention[Columns + i] = Ones(output.response_ids)[i]
       /\ \A i \in b + 1 .. ResponseLength : attention[Columns + i] = 0
  <2>. DEFINE prompt == Ones(output.prompt_ids)
              response == Ones(output.response_ids)
  <2>1. /\ prompt \in Seq(Mask) /\ response \in Seq(Mask) /\ 0 \in Mask
        /\ Len(prompt) = a /\ Len(response) = b
        /\ Len(prompt) <= Columns /\ Len(response) <= ResponseLength
        /\ Columns \in Nat /\ Missing(prompt, PromptLength) = Columns - Len(prompt)
    BY <1>2, <1>7, <1>8 DEF Missing
  <2>. HIDE DEF prompt, response
  <2>2. /\ RowOf(prompt, response, 0) \in Seq(Mask)
        /\ Len(RowOf(prompt, response, 0)) = Columns + ResponseLength
        /\ \A i \in 1 .. Columns - Len(prompt) : RowOf(prompt, response, 0)[i] = 0
        /\ \A i \in 1 .. Len(prompt) :
                RowOf(prompt, response, 0)[Columns - Len(prompt) + i] = prompt[i]
        /\ \A i \in 1 .. Len(response) : RowOf(prompt, response, 0)[Columns + i] = response[i]
        /\ \A i \in Len(response) + 1 .. ResponseLength :
                RowOf(prompt, response, 0)[Columns + i] = 0
    <3>1. prompt \in Seq(Mask) /\ response \in Seq(Mask) /\ 0 \in Mask
      BY <2>1
    <3>2. /\ Columns \in Nat /\ Len(prompt) <= Columns /\ Len(response) <= ResponseLength
          /\ Missing(prompt, PromptLength) = Columns - Len(prompt)
      BY <2>1
    <3>. QED  BY <3>1, <3>2, RowFacts, SMTT(40)
  <2>. QED  BY <2>1, <2>2 DEF prompt, response
<1>11. /\ attended \in Seq(Mask) /\ Len(attended) = ResponseLength
       /\ \A i \in 1 .. ResponseLength : attended[i] =
            IF i <= b THEN Ones(output.response_ids)[i] ELSE 0
  <2>. DEFINE ones == Ones(output.response_ids)
  <2>1. ones \in Seq(Mask) /\ 0 \in Mask /\ Len(ones) <= ResponseLength /\ Len(ones) = b
    BY <1>7, <1>8
  <2>. HIDE DEF ones
  <2>2. /\ RightPadded(ones, 0, ResponseLength) \in Seq(Mask)
        /\ Len(RightPadded(ones, 0, ResponseLength)) = ResponseLength
        /\ \A i \in 1 .. ResponseLength : RightPadded(ones, 0, ResponseLength)[i] =
                IF i <= Len(ones) THEN ones[i] ELSE 0
    <3>1. ResponseLength \in Nat
      BY <1>2
    <3>. QED  BY <2>1, <3>1, RightPaddedFacts
  <2>. QED  BY <2>1, <2>2 DEF ones
<1>12. /\ first \in Nat /\ first < Columns /\ last \in Nat /\ last <= width /\ width \in Nat
       /\ Columns < last
       /\ first + a = Columns /\ Columns + b = last
       /\ Columns + ResponseLength = width /\ Columns - a = first
  BY <1>2, <1>6, <1>8
<1>. HIDE DEF attended, width, first, last, ids, attention
<1>13. Len(ids) = width /\ Len(attention) = width
  BY <1>9, <1>10, <1>12
\* Where a position is.
<1>14. ASSUME NEW i \in 1 .. width
       PROVE  \/ i \in 1 .. first /\ i \notin first + 1 .. last
              \/ i \in first + 1 .. last /\ \E j \in 1 .. a : i = Columns - a + j
              \/ i \in first + 1 .. last /\ \E j \in 1 .. b : i = Columns + j
              \/ i \notin first + 1 .. last /\ \E j \in b + 1 .. ResponseLength : i = Columns + j
  <2>1. CASE i <= first
    BY <1>12, <2>1
  <2>2. CASE first < i /\ i <= Columns
    <3>1. i - first \in 1 .. a /\ i = Columns - a + (i - first) /\ i \in first + 1 .. last
      BY <1>2, <1>6, <1>12, <2>2
    <3>. QED  BY <3>1
  <2>3. CASE Columns < i /\ i <= last
    <3>1. i - Columns \in 1 .. b /\ i = Columns + (i - Columns) /\ i \in first + 1 .. last
      BY <1>2, <1>6, <1>12, <2>3
    <3>. QED  BY <3>1
  <2>4. CASE last < i
    <3>1. /\ i - Columns \in b + 1 .. ResponseLength /\ i = Columns + (i - Columns)
          /\ i \notin first + 1 .. last
      BY <1>2, <1>6, <1>12, <2>4
    <3>. QED  BY <3>1
  <2>. QED  BY <1>2, <1>12, <2>1, <2>2, <2>3, <2>4
<1>15. \A i \in 1 .. width : ids[i] # "pad" <=> i \in first + 1 .. last
  <2>. SUFFICES ASSUME NEW i \in 1 .. width PROVE ids[i] # "pad" <=> i \in first + 1 .. last
    OBVIOUS
  <2>1. CASE i \in 1 .. first /\ i \notin first + 1 .. last
    BY <1>9, <1>12, <2>1
  <2>2. CASE i \in first + 1 .. last /\ \E j \in 1 .. a : i = Columns - a + j
    <3>1. PICK j \in 1 .. a : i = Columns - a + j
      BY <2>2
    <3>2. ids[i] = output.prompt_ids[j] /\ output.prompt_ids[j] \in Tokens
      BY <1>5, <1>9, <3>1
    <3>. QED  BY <1>5, <2>2, <3>2
  <2>3. CASE i \in first + 1 .. last /\ \E j \in 1 .. b : i = Columns + j
    <3>1. PICK j \in 1 .. b : i = Columns + j
      BY <2>3
    <3>2. ids[i] = output.response_ids[j] /\ output.response_ids[j] \in Tokens
      BY <1>5, <1>9, <3>1
    <3>. QED  BY <1>5, <2>3, <3>2
  <2>4. CASE i \notin first + 1 .. last /\ \E j \in b + 1 .. ResponseLength : i = Columns + j
    <3>1. PICK j \in b + 1 .. ResponseLength : i = Columns + j
      BY <2>4
    <3>2. ids[i] = "pad"
      BY <1>9, <3>1
    <3>. QED  BY <2>4, <3>2
  <2>. QED  BY <1>14, <2>1, <2>2, <2>3, <2>4
<1>16. \A i \in 1 .. width : attention[i] = 1 <=> i \in first + 1 .. last
  <2>. SUFFICES ASSUME NEW i \in 1 .. width PROVE attention[i] = 1 <=> i \in first + 1 .. last
    OBVIOUS
  <2>1. CASE i \in 1 .. first /\ i \notin first + 1 .. last
    BY <1>10, <1>12, <2>1
  <2>2. CASE i \in first + 1 .. last /\ \E j \in 1 .. a : i = Columns - a + j
    <3>1. PICK j \in 1 .. a : i = Columns - a + j
      BY <2>2
    <3>2. attention[i] = 1
      BY <1>7, <1>10, <3>1
    <3>. QED  BY <2>2, <3>2
  <2>3. CASE i \in first + 1 .. last /\ \E j \in 1 .. b : i = Columns + j
    <3>1. PICK j \in 1 .. b : i = Columns + j
      BY <2>3
    <3>2. attention[i] = 1
      BY <1>7, <1>10, <3>1
    <3>. QED  BY <2>3, <3>2
  <2>4. CASE i \notin first + 1 .. last /\ \E j \in b + 1 .. ResponseLength : i = Columns + j
    <3>1. PICK j \in b + 1 .. ResponseLength : i = Columns + j
      BY <2>4
    <3>2. attention[i] = 0
      BY <1>10, <3>1
    <3>. QED  BY <2>4, <3>2
  <2>. QED  BY <1>14, <2>1, <2>2, <2>3, <2>4
<1>17. \A i \in first + 1 .. last : output'.position_ids[i] = i - first - 1
  <2>. SUFFICES ASSUME NEW i \in first + 1 .. last PROVE output'.position_ids[i] = i - first - 1
    OBVIOUS
  <2>1. i \in 1 .. width /\ i \in Nat /\ first < i /\ i <= last /\ i <= Len(attention)
    BY <1>12, <1>13
  <2>2. i \in DOMAIN attention
    BY <1>10, <1>13, <2>1
  <2>3. Sum(SubSeq(attention, 1, i)) = i - first
    <3>1. attention \in Seq({0, 1})
      BY <1>10 DEF Mask
    <3>2. \A j \in 1 .. Len(attention) : attention[j] = 1 <=> j \in first + 1 .. last
      BY <1>13, <1>16
    <3>. QED  BY <1>12, <2>1, <3>1, <3>2, CountOfInterval
  <2>. QED  BY <1>4, <1>12, <2>1, <2>2, <2>3
<1>18. \A i \in first + 1 .. last : Cardinality({j \in first + 1 .. last : j < i}) = i - first - 1
  <2>. SUFFICES ASSUME NEW i \in first + 1 .. last
                PROVE  Cardinality({j \in first + 1 .. last : j < i}) = i - first - 1
    OBVIOUS
  <2>1. {j \in first + 1 .. last : j < i} = first + 1 .. i - 1
    BY <1>12
  <2>2. first + 1 \in Int /\ i - 1 \in Int /\ first \in Nat /\ i \in Nat /\ first < i
    BY <1>12
  <2>3. Cardinality(first + 1 .. i - 1) = IF first + 1 > i - 1 THEN 0 ELSE i - 1 - (first + 1) + 1
    BY <2>2, FS_Interval
  <2>4. (IF first + 1 > i - 1 THEN 0 ELSE i - 1 - (first + 1) + 1) = i - first - 1
    BY <2>2
  <2>. QED  BY <2>1, <2>3, <2>4
<1>19. \A i \in 1 .. ResponseLength :
            ids[Columns + i] = "model" <=> i <= b /\ output.response_ids[i] = "model"
  <2>. TAKE i \in 1 .. ResponseLength
  <2>1. CASE i <= b
    <3>1. i \in 1 .. b
      BY <1>6, <2>1
    <3>. QED  BY <1>9, <2>1, <3>1
  <2>2. CASE ~(i <= b)
    <3>1. i \in b + 1 .. ResponseLength
      BY <1>2, <1>6, <2>2
    <3>. QED  BY <1>9, <2>2, <3>1
  <2>. QED  BY <2>1, <2>2
<1>20. \A i \in 1 .. ResponseLength : output'.response_mask[i] =
            IF ids[Columns + i] = "model" THEN 1 ELSE 0
  <2>. DEFINE mask == RightPadded(output.response_mask, PadTokenId, ResponseLength)
  <2>1. /\ mask \in Seq({0, 1, 2}) /\ Len(mask) = ResponseLength
        /\ \A i \in 1 .. ResponseLength : mask[i] = IF i <= b THEN output.response_mask[i] ELSE 2
    <3>. DEFINE given == output.response_mask
                pad == PadTokenId
                MaskIds == {0, 1, 2}
    <3>1. given \in Seq(MaskIds)
      BY <1>3, SeqMonotonic DEF Mask
    <3>2. pad = 2 /\ pad \in MaskIds
      BY DEF PadTokenId
    <3>3. Len(given) = b /\ Len(given) <= ResponseLength /\ ResponseLength \in Nat
      BY <1>2, <1>3, <1>8
    <3>. HIDE DEF given, pad, MaskIds
    <3>4. /\ RightPadded(given, pad, ResponseLength) \in Seq(MaskIds)
          /\ Len(RightPadded(given, pad, ResponseLength)) = ResponseLength
          /\ \A i \in 1 .. ResponseLength : RightPadded(given, pad, ResponseLength)[i] =
                IF i <= Len(given) THEN given[i] ELSE pad
      BY <3>1, <3>2, <3>3, RightPaddedFacts
    <3>5. mask = RightPadded(given, pad, ResponseLength)
      BY DEF given, pad
    <3>. HIDE DEF mask
    <3>. QED  BY <3>2, <3>3, <3>4, <3>5 DEF given, MaskIds
  <2>. HIDE DEF mask
  <2>2. output'.response_mask = [i \in 1 .. ResponseLength |-> mask[i] * attended[i]]
    BY <1>4, <2>1 DEF Padded, mask
  <2>. SUFFICES ASSUME NEW i \in 1 .. ResponseLength
                PROVE  mask[i] * attended[i] = IF ids[Columns + i] = "model" THEN 1 ELSE 0
    BY <2>2
  <2>3. CASE i <= b
    <3>1. i \in 1 .. b
      BY <1>6, <2>3
    <3>2. attended[i] = 1 /\ mask[i] = output.response_mask[i]
      BY <1>7, <1>11, <2>1, <2>3, <3>1
    <3>3. output.response_mask[i] \in {0, 1}
      BY <1>3, <3>1 DEF Mask
    <3>4. mask[i] * attended[i] = output.response_mask[i]
      BY <3>2, <3>3
    <3>. QED  BY <1>3, <1>19, <2>3, <3>1, <3>3, <3>4
  <2>4. CASE ~(i <= b)
    <3>1. attended[i] = 0 /\ mask[i] = 2
      BY <1>11, <2>1, <2>4
    <3>. QED  BY <1>19, <2>4, <3>1
  <2>. QED  BY <2>3, <2>4
<1>21. CalculateLogProbs => \A i \in 1 .. ResponseLength :
            output'.rollout_log_probs[i] = "logprob" <=> ids[Columns + i] = "model"
  <2>. SUFFICES ASSUME CalculateLogProbs, NEW i \in 1 .. ResponseLength
                PROVE  output'.rollout_log_probs[i] = "logprob" <=> ids[Columns + i] = "model"
    OBVIOUS
  <2>1. /\ output.response_logprobs \in Seq(LogProbs) /\ Len(output.response_logprobs) = b
        /\ output.response_logprobs # <<>> /\ b <= ResponseLength
    BY <1>3, <1>6, <1>8
  <2>2. "zero" \in LogProbs
    BY DEF LogProbs
  <2>. DEFINE padded == RightPadded(output.response_logprobs, "zero", ResponseLength)
  <2>3. \A k \in 1 .. ResponseLength :
            padded[k] = IF k <= b THEN output.response_logprobs[k] ELSE "zero"
    <3>. DEFINE given == output.response_logprobs
    <3>1. /\ given \in Seq(LogProbs) /\ Len(given) = b /\ Len(given) <= ResponseLength
          /\ ResponseLength \in Nat
      BY <1>2, <2>1
    <3>. HIDE DEF given
    <3>2. \A k \in 1 .. ResponseLength : RightPadded(given, "zero", ResponseLength)[k] =
                IF k <= Len(given) THEN given[k] ELSE "zero"
      BY <2>2, <3>1, RightPaddedFacts
    <3>. QED  BY <3>1, <3>2 DEF given
  <2>4. output'.rollout_log_probs = padded
    BY <1>4, <2>1
  <2>. HIDE DEF padded
  <2>5. i <= b => i \in 1 .. b
    BY <1>6
  <2>. QED  BY <1>3, <1>19, <2>3, <2>4, <2>5
<1>22. output'.rewarded = b
  <2>1. {i \in DOMAIN attended : attended[i] = 1} = 1 .. b
    <3>1. DOMAIN attended = 1 .. ResponseLength
      BY <1>11
    <3>2. \A i \in 1 .. ResponseLength : attended[i] = 1 <=> i \in 1 .. b
      BY <1>6, <1>7, <1>11
    <3>3. 1 .. b \subseteq 1 .. ResponseLength
      BY <1>2, <1>6, <1>8
    <3>. QED  BY <3>1, <3>2, <3>3
  <2>2. Cardinality(1 .. b) = b
    BY <1>6, FS_Interval
  <2>. QED  BY <1>4, <2>1, <2>2 DEF Sum
<1>23. RowAligned'
  <2>1. DOMAIN ids = 1 .. width
    BY <1>9, <1>13
  <2>2. {i \in DOMAIN ids : ids[i] # "pad"} = first + 1 .. last
    <3>1. first + 1 .. last \subseteq 1 .. width
      BY <1>12
    <3>. QED  BY <1>15, <2>1, <3>1
  <2>3. \A i, j \in first + 1 .. last : i .. j \subseteq first + 1 .. last
    BY <1>12
  <2>4. ids[Columns + b] = "model"
    <3>1. b \in 1 .. ResponseLength /\ b <= b
      BY <1>2, <1>6, <1>8
    <3>. QED  BY <1>3, <1>19, <3>1
  <2>5. \A i \in first + 1 .. last : i <= Columns + b
    BY <1>12
  <2>6. \A i \in 1 .. width : output'.attention_mask[i] = 1 <=> i \in first + 1 .. last
    BY <1>4, <1>16
  <2>7. \A i \in first + 1 .. last :
            output'.position_ids[i] = Cardinality({j \in first + 1 .. last : j < i})
    BY <1>17, <1>18
  <2>8. Len(ids) = Columns + ResponseLength
    BY <1>12, <1>13
  <2>9. output'.input_ids = ids
    BY <1>4
  <2>10. Columns' = Columns
    BY <1>1 DEF Columns, PromptTokens
  <2>. QED  BY <1>20, <1>21, <1>22, <2>1, <2>2, <2>3, <2>4, <2>5, <2>6, <2>7, <2>8, <2>9, <2>10
            DEF RowAligned
<1>24. TokensInv' /\ LogProbsInv'
  BY <1>1 DEF OutputInv, TokensInv, LogProbsInv, PromptTokens
<1>25. EndingInv' /\ ImagesInv' /\ DoneInv'
  BY <1>1 DEF OutputInv, EndingInv, ImagesInv, DoneInv
<1>. QED  BY <1>23, <1>24, <1>25 DEF OutputInv

LEMMA DoesNotFitOutputInv == Inv /\ OutputInv /\ ResponsesDoNotFit => OutputInv'
<1>. SUFFICES ASSUME Inv, OutputInv, ResponsesDoNotFit PROVE OutputInv'
  OBVIOUS
<1>1. /\ pc = "gather" /\ pc' = "output"
      /\ UNCHANGED <<prompt_ids, response_mask, response_logprobs, output>>
  BY DEF ResponsesDoNotFit, Gathered
<1>2. TokensInv' /\ LogProbsInv'
  BY <1>1 DEF OutputInv, TokensInv, LogProbsInv, PromptTokens
<1>3. EndingInv'
  BY <1>1 DEF OutputInv, EndingInv
<1>4. ImagesInv' /\ DoneInv' /\ RowAligned'
  BY <1>1 DEF ImagesInv, DoneInv, RowAligned
<1>. QED  BY <1>2, <1>3, <1>4 DEF OutputInv

LEMMA RaisesOutputInv == Inv /\ OutputInv /\ GenerateRaises => OutputInv'
<1>. SUFFICES ASSUME OutputInv, GenerateRaises PROVE OutputInv'
  OBVIOUS
<1>1. /\ pc' = "raised"
      /\ UNCHANGED <<prompt_ids, response_mask, response_logprobs, image_data, output>>
  BY DEF GenerateRaises
<1>2. TokensInv' /\ LogProbsInv' /\ EndingInv'
  BY <1>1 DEF OutputInv, TokensInv, LogProbsInv, EndingInv, PromptTokens
<1>3. ImagesInv' /\ DoneInv' /\ RowAligned'
  BY <1>1 DEF ImagesInv, DoneInv, RowAligned
<1>. QED  BY <1>2, <1>3 DEF OutputInv

LEMMA OutputInvariance == Spec => []OutputInv
<1>1. Inv /\ OutputInv /\ [Next]_vars => OutputInv'
  <2>1. CASE UNCHANGED vars
    <3>. SUFFICES ASSUME OutputInv, UNCHANGED vars PROVE OutputInv'
      BY <2>1
    <3>1. UNCHANGED <<pc, prompt_ids, response_mask, response_logprobs, image_data, output>>
      BY DEF vars
    <3>2. TokensInv' /\ LogProbsInv' /\ EndingInv'
      BY <3>1 DEF OutputInv, TokensInv, LogProbsInv, EndingInv, PromptTokens
    <3>3. ImagesInv'
      BY <3>1 DEF OutputInv, ImagesInv
    <3>4. DoneInv'
      BY <3>1 DEF OutputInv, DoneInv, PromptTokens
    <3>5. RowAligned'
      <4>. DEFINE Row(row, c) ==
              LET ids      == row.input_ids
                  tokens   == {i \in DOMAIN ids : ids[i] # "pad"}
                  model(i) == ids[c + i] = "model"
              IN  /\ Len(ids) = c + ResponseLength
                  /\ \A i \in DOMAIN ids : row.attention_mask[i] = 1 <=> i \in tokens
                  /\ \A i \in tokens : row.position_ids[i] = Cardinality({j \in tokens : j < i})
                  /\ \A i, j \in tokens : i .. j \subseteq tokens
                  /\ \A i \in 1 .. ResponseLength :
                      /\ row.response_mask[i] = IF model(i) THEN 1 ELSE 0
                      /\ CalculateLogProbs => (row.rollout_log_probs[i] = "logprob" <=> model(i))
                  /\ model(row.rewarded)
                  /\ \A i \in tokens : i <= c + row.rewarded
      <4>1. RowAligned = (pc = "padded" => Row(output, Columns))
        BY DEF RowAligned
      <4>2. RowAligned' = (pc' = "padded" => Row(output', Columns'))
        BY DEF RowAligned
      <4>3. RowAligned /\ pc' = pc /\ output' = output /\ Columns' = Columns
        BY <3>1 DEF OutputInv, Columns, PromptTokens
      <4>. HIDE DEF Row
      <4>. QED  BY <4>1, <4>2, <4>3
    <3>. QED  BY <3>2, <3>3, <3>4, <3>5 DEF OutputInv
  <2>. QED  BY <2>1, GenerateOutputInv, RaisesOutputInv, ToolsOutputInv, AppendOutputInv, DoesNotFitOutputInv,
               ReturnOutputInv, PadOutputInv DEF Next, Turn
<1>. QED  BY InitOutputInv, Invariance, <1>1, PTL DEF Spec

\* The output and the row of the batch made of it fit their masks and
\* log-probabilities token by token, the reward is on a token the engine
\* generated, and the engine is given the images its prompt has places for.
THEOREM OutputStaysRight == Spec => []OutputIsRight
<1>1. Inv /\ OutputInv => OutputIsRight
  <2>. SUFFICES ASSUME Inv, OutputInv PROVE OutputIsRight
    OBVIOUS
  <2>1. OutputAligned /\ EndsWithGenerated
    <3>. SUFFICES ASSUME pc = "done" PROVE OutputAligned /\ EndsWithGenerated
      BY DEF OutputAligned, EndsWithGenerated
    <3>1. /\ output.prompt_ids \in Seq({"prompt", "image"})
          /\ output.response_ids \in Seq({"prompt", "model", "tool", "image"})
          /\ DOMAIN output.response_ids = 1 .. Len(output.response_ids)
          /\ DOMAIN output.prompt_ids = 1 .. Len(output.prompt_ids)
      BY DEF OutputInv, DoneInv
    <3>. QED  BY <3>1 DEF OutputInv, DoneInv, OutputAligned, EndsWithGenerated
  <2>2. RowAligned /\ EngineSeesItsImages
    BY DEF OutputInv, ImagesInv, EngineSeesItsImages
  <2>. QED  BY <2>1, <2>2 DEF OutputIsRight
<1>. QED  BY Invariance, OutputInvariance, <1>1, PTL

\* The engine never raises for a prompt that fits, however many turns its tools
\* have and whatever they say, and its row has the width of the batch.
THEOREM FittingPromptsAreServed == Spec => []FittingPromptIsServed
<1>1. Inv /\ OutputInv => FittingPromptIsServed
  <2>. SUFFICES ASSUME Inv, OutputInv, PromptFits
                PROVE  /\ pc # "raised"
                       /\ pc = "padded" => Len(output.input_ids) = PromptLength + ResponseLength
    BY DEF FittingPromptIsServed
  <2>1. pc # "raised"
    BY DEF Inv, RoomInv
  <2>2. Columns = PromptLength
    BY ToolAgentLoopAssumption DEF OutputInv, TokensInv, PromptFits, Columns
  <2>3. pc = "padded" => Len(output.input_ids) = Columns + ResponseLength
    BY DEF OutputInv, RowAligned
  <2>. QED  BY <2>1, <2>2, <2>3
<1>. QED  BY Invariance, OutputInvariance, <1>1, PTL

-----------------------------------------------------------------------------
(***************************************************************************)
(* The limit of SandboxFusionTool, for any tools, limits, threads and      *)
(* calls.  The invariant counts tokens: those in the semaphore, those of   *)
(* running calls and those that a release is bringing back are always      *)
(* rate_limit together.  For the call at the head of the queue to take a   *)
(* token it did not have, the queue must hold exactly the calls that wait. *)
(***************************************************************************)

(* Who waits for acquire has at = "acquire" and waits once. *)
QueueInv ==
    /\ \A i \in DOMAIN acquires : at[acquires[i]] = "acquire"
    /\ \A i, j \in DOMAIN acquires : acquires[i] = acquires[j] => i = j

(* Without a worker there is no limiter and no call has got further than its pool. *)
FirstInv ==
    rate_limit = None =>
        /\ workers = {} /\ acquires = <<>> /\ releases = 0
        /\ \A c \in Calls : at[c] \in {"none", "queued"}

(* The limit is that of some tool. *)
LimitInv == rate_limit # None => \E t \in workers : rate_limit = RateLimitOf[t]

(* No token is lost or made. *)
TokenInv == rate_limit # None => semaphore + Cardinality(Running) + releases = rate_limit

SandboxInv == SandboxTypeOK /\ QueueInv /\ FirstInv /\ LimitInv /\ TokenInv

(* The calls that run are finitely many. *)
LEMMA RunningFinite ==
    IsFiniteSet(Running) /\ Cardinality(Running) \in Nat /\ IsFiniteSet(Running') /\ Cardinality(Running') \in Nat
<1>1. Running \subseteq Calls /\ Running' \subseteq Calls
  BY DEF Running
<1> QED
  BY <1>1, SandboxAssumption, FS_Subset, FS_CardinalityType

(* Actions that start and end no call leave the running ones as they are. *)
LEMMA SameRunning ==
    ASSUME \A c \in Calls : at'[c] = "run" <=> at[c] = "run"
    PROVE  Running' = Running
BY DEF Running

LEMMA SandboxInitInv == SandboxInit => SandboxInv
<1> SUFFICES ASSUME SandboxInit PROVE SandboxInv
  OBVIOUS
<1>1. SandboxTypeOK
  BY SandboxAssumption DEF SandboxInit, SandboxTypeOK
<1>2. QueueInv /\ FirstInv /\ LimitInv /\ TokenInv
  BY SandboxAssumption DEF SandboxInit, QueueInv, FirstInv, LimitInv, TokenInv
<1> QED
  BY <1>1, <1>2 DEF SandboxInv

LEMMA CreateToolInv ==
    ASSUME SandboxInv, NEW t \in Tools, CreateTool(t)
    PROVE  SandboxInv'
<1> USE SandboxAssumption
<1>1. SandboxTypeOK'
  BY DEF SandboxInv, SandboxTypeOK, CreateTool, InitRateLimit, limiterVars
<1>2. QueueInv'
  BY DEF SandboxInv, QueueInv, CreateTool
<1>3. RateLimitOf[t] \in Nat /\ RateLimitOf[t] # None
  OBVIOUS
<1>4. FirstInv'
  BY <1>3 DEF SandboxInv, FirstInv, CreateTool, InitRateLimit, limiterVars
<1>5. LimitInv'
  BY DEF SandboxInv, LimitInv, CreateTool, InitRateLimit, limiterVars
<1>6. Running' = Running
  BY SameRunning DEF CreateTool
<1>7. CASE rate_limit = None
  <2>1. Running = {} /\ releases = 0
    BY <1>7 DEF SandboxInv, FirstInv, Running
  <2>2. Cardinality(Running') = 0
    BY <1>6, <2>1, FS_EmptySet
  <2>3. TokenInv'
    BY <1>3, <1>7, <2>1, <2>2 DEF TokenInv, CreateTool, InitRateLimit
  <2> QED
    BY <1>1, <1>2, <1>4, <1>5, <2>3 DEF SandboxInv
<1>8. CASE rate_limit # None
  <2>1. TokenInv'
    BY <1>6, <1>8 DEF SandboxInv, TokenInv, CreateTool, InitRateLimit, limiterVars
  <2> QED
    BY <1>1, <1>2, <1>4, <1>5, <2>1 DEF SandboxInv
<1> QED
  BY <1>7, <1>8

LEMMA SandboxExecuteInv ==
    ASSUME SandboxInv, NEW c \in Calls, SandboxExecute(c)
    PROVE  SandboxInv'
<1> USE SandboxAssumption
<1>1. SandboxTypeOK'
  BY DEF SandboxInv, SandboxTypeOK, SandboxExecute, limiterVars
<1>2. QueueInv'
  BY DEF SandboxInv, SandboxTypeOK, QueueInv, SandboxExecute
<1>3. FirstInv' /\ LimitInv'
  BY DEF SandboxInv, SandboxTypeOK, FirstInv, LimitInv, SandboxExecute, limiterVars
<1>4. Running' = Running
  BY SameRunning DEF SandboxInv, SandboxTypeOK, SandboxExecute
<1>5. TokenInv'
  BY <1>4 DEF SandboxInv, TokenInv, SandboxExecute, limiterVars
<1> QED
  BY <1>1, <1>2, <1>3, <1>5 DEF SandboxInv

LEMMA StartInv ==
    ASSUME SandboxInv, NEW c \in Calls, Start(c)
    PROVE  SandboxInv'
<1> USE SandboxAssumption
<1>1. SandboxTypeOK'
  BY DEF SandboxInv, SandboxTypeOK, Start, limiterVars
<1>2. QueueInv'
  <2>1. acquires \in Seq(Calls) /\ at[c] = "queued" /\ at' = [at EXCEPT ![c] = "acquire"] /\ acquires' = Append(acquires, c)
    BY DEF SandboxInv, SandboxTypeOK, Start
  <2>2. \A i \in DOMAIN acquires : acquires[i] \in Calls /\ acquires[i] # c /\ at[acquires[i]] = "acquire"
    BY <2>1 DEF SandboxInv, QueueInv
  <2>3. \A i \in DOMAIN acquires' : (i \in DOMAIN acquires /\ acquires'[i] = acquires[i]) \/ (i = Len(acquires) + 1 /\ acquires'[i] = c)
    BY <2>1
  <2>4. \A i \in DOMAIN acquires' : at'[acquires'[i]] = "acquire"
    BY <2>1, <2>2, <2>3 DEF SandboxInv, SandboxTypeOK
  <2>5. \A i, j \in DOMAIN acquires' : acquires'[i] = acquires'[j] => i = j
    BY <2>2, <2>3 DEF SandboxInv, QueueInv
  <2> QED
    BY <2>4, <2>5 DEF QueueInv
<1>3. rate_limit # None
  BY DEF SandboxInv, FirstInv, Start
<1>4. FirstInv' /\ LimitInv'
  BY <1>3 DEF SandboxInv, FirstInv, LimitInv, Start, limiterVars
<1>5. Running' = Running
  BY SameRunning DEF SandboxInv, SandboxTypeOK, Start
<1>6. TokenInv'
  BY <1>5 DEF SandboxInv, TokenInv, Start, limiterVars
<1> QED
  BY <1>1, <1>2, <1>4, <1>6 DEF SandboxInv

LEMMA AcquireInv ==
    ASSUME SandboxInv, Acquire
    PROVE  SandboxInv'
<1> USE SandboxAssumption
<1> DEFINE first == Head(acquires)
<1>1. /\ acquires \in Seq(Calls) /\ acquires # <<>> /\ semaphore \in Nat /\ semaphore > 0
      /\ semaphore' = semaphore - 1 /\ acquires' = Tail(acquires) /\ at' = [at EXCEPT ![first] = "run"]
      /\ UNCHANGED <<workers, rate_limit, releases>>
  BY DEF SandboxInv, SandboxTypeOK, Acquire
<1>2. first \in Calls /\ 1 \in DOMAIN acquires /\ first = acquires[1]
  BY <1>1
<1>3. at[first] = "acquire"
  BY <1>2 DEF SandboxInv, QueueInv
<1>4. SandboxTypeOK'
  BY <1>1, <1>2 DEF SandboxInv, SandboxTypeOK
<1>5. QueueInv'
  <2>1. \A i \in DOMAIN acquires' : i + 1 \in DOMAIN acquires /\ acquires'[i] = acquires[i + 1] /\ acquires[i + 1] \in Calls /\ i \in Nat /\ i > 0
    BY <1>1
  <2>2. \A i \in DOMAIN acquires' : acquires'[i] # first /\ at[acquires'[i]] = "acquire"
    BY <1>2, <2>1 DEF SandboxInv, QueueInv
  <2>3. \A i \in DOMAIN acquires' : at'[acquires'[i]] = "acquire"
    BY <1>1, <2>1, <2>2 DEF SandboxInv, SandboxTypeOK
  <2>4. \A i, j \in DOMAIN acquires' : acquires'[i] = acquires'[j] => i + 1 = j + 1
    BY <2>1 DEF SandboxInv, QueueInv
  <2>5. \A i, j \in DOMAIN acquires' : acquires'[i] = acquires'[j] => i = j
    BY <2>1, <2>4
  <2> QED
    BY <2>3, <2>5 DEF QueueInv
<1>6. rate_limit # None
  BY <1>1 DEF SandboxInv, FirstInv
<1>7. FirstInv' /\ LimitInv'
  BY <1>1, <1>6 DEF SandboxInv, FirstInv, LimitInv
<1>8. Running' = Running \cup {first} /\ first \notin Running
  BY <1>1, <1>2, <1>3 DEF SandboxInv, SandboxTypeOK, Running
<1>9. Cardinality(Running') = Cardinality(Running) + 1
  BY <1>8, RunningFinite, FS_AddElement
<1>10. TokenInv'
  BY <1>1, <1>6, <1>9, RunningFinite DEF SandboxInv, SandboxTypeOK, TokenInv
<1> QED
  BY <1>4, <1>5, <1>7, <1>10 DEF SandboxInv

LEMMA FinishInv ==
    ASSUME SandboxInv, NEW c \in Calls, Finish(c)
    PROVE  SandboxInv'
<1> USE SandboxAssumption
<1>1. PICK over \in {"returned", "failed"} : at' = [at EXCEPT ![c] = over]
  BY DEF Finish
<1>2. SandboxTypeOK'
  BY DEF SandboxInv, SandboxTypeOK, Finish, limiterVars
<1>3. QueueInv'
  BY <1>1 DEF SandboxInv, SandboxTypeOK, QueueInv, Finish
<1>4. rate_limit # None
  BY DEF SandboxInv, FirstInv, Finish
<1>5. FirstInv' /\ LimitInv'
  BY <1>4 DEF SandboxInv, FirstInv, LimitInv, Finish, limiterVars
<1>6. Running' = Running \ {c} /\ c \in Running
  BY <1>1 DEF SandboxInv, SandboxTypeOK, Running, Finish
<1>7. Cardinality(Running') = Cardinality(Running) - 1
  BY <1>6, RunningFinite, FS_RemoveElement
<1>8. TokenInv'
  <2>1. semaphore + Cardinality(Running) + releases = rate_limit
    BY <1>4 DEF SandboxInv, TokenInv
  <2>2. semaphore \in Nat /\ releases \in Nat /\ Cardinality(Running) \in Nat
    BY RunningFinite DEF SandboxInv, SandboxTypeOK
  <2>3. semaphore' = semaphore /\ releases' = releases + 1 /\ rate_limit' = rate_limit
    BY DEF Finish, limiterVars
  <2> QED
    BY <1>7, <2>1, <2>2, <2>3 DEF TokenInv
<1> QED
  BY <1>2, <1>3, <1>5, <1>8 DEF SandboxInv

LEMMA ReleaseTokenInv ==
    ASSUME SandboxInv, ReleaseToken
    PROVE  SandboxInv'
<1> USE SandboxAssumption
<1>1. SandboxTypeOK'
  BY DEF SandboxInv, SandboxTypeOK, ReleaseToken
<1>2. QueueInv'
  BY DEF SandboxInv, QueueInv, ReleaseToken
<1>3. rate_limit # None
  BY DEF SandboxInv, FirstInv, ReleaseToken
<1>4. FirstInv' /\ LimitInv'
  BY <1>3 DEF SandboxInv, FirstInv, LimitInv, ReleaseToken
<1>5. Running' = Running
  BY SameRunning DEF ReleaseToken
<1>6. TokenInv'
  BY <1>3, <1>5, RunningFinite DEF SandboxInv, SandboxTypeOK, TokenInv, ReleaseToken
<1> QED
  BY <1>1, <1>2, <1>4, <1>6 DEF SandboxInv

LEMMA SandboxInvariance == SandboxSpec => []SandboxInv
<1>1. SandboxInv /\ [SandboxNext]_sandboxVars => SandboxInv'
  <2> SUFFICES ASSUME SandboxInv, [SandboxNext]_sandboxVars PROVE SandboxInv'
    OBVIOUS
  <2>1. ASSUME NEW t \in Tools, CreateTool(t) PROVE SandboxInv'
    BY <2>1, CreateToolInv
  <2>2. ASSUME NEW c \in Calls, SandboxExecute(c) PROVE SandboxInv'
    BY <2>2, SandboxExecuteInv
  <2>3. ASSUME NEW c \in Calls, Start(c) PROVE SandboxInv'
    BY <2>3, StartInv
  <2>4. ASSUME NEW c \in Calls, Finish(c) PROVE SandboxInv'
    BY <2>4, FinishInv
  <2>5. CASE Acquire
    BY <2>5, AcquireInv
  <2>6. CASE ReleaseToken
    BY <2>6, ReleaseTokenInv
  <2>7. CASE UNCHANGED sandboxVars
    <3>1. Running' = Running
      BY <2>7, SameRunning DEF sandboxVars
    <3>2. SandboxTypeOK' /\ QueueInv' /\ FirstInv' /\ LimitInv'
      BY <2>7 DEF SandboxInv, SandboxTypeOK, QueueInv, FirstInv, LimitInv, sandboxVars, limiterVars
    <3>3. TokenInv'
      BY <2>7, <3>1 DEF SandboxInv, TokenInv, sandboxVars, limiterVars
    <3> QED
      BY <3>2, <3>3 DEF SandboxInv
  <2> QED
    BY <2>1, <2>2, <2>3, <2>4, <2>5, <2>6, <2>7 DEF SandboxNext
<1> QED
  BY SandboxInitInv, <1>1, PTL DEF SandboxSpec

(* The type invariant of the limiter and its callers. *)
THEOREM SandboxTypeCorrect == SandboxSpec => []SandboxTypeOK
BY SandboxInvariance, PTL DEF SandboxInv

(***************************************************************************)
(* One limit, that of the tool created first, holds for the calls of all   *)
(* tools, and every token comes back, whatever raises.                     *)
(***************************************************************************)
THEOREM RateStaysLimited == SandboxSpec => []RateLimited
<1>1. SandboxInv => RateLimited
  <2> SUFFICES ASSUME SandboxInv PROVE RateLimited
    OBVIOUS
  <2>1. semaphore \in Nat /\ releases \in Nat /\ Cardinality(Running) \in Nat
    BY RunningFinite DEF SandboxInv, SandboxTypeOK
  <2>2. ASSUME Running # {}
        PROVE  \E t \in workers : rate_limit = RateLimitOf[t] /\ Cardinality(Running) <= RateLimitOf[t]
    <3>1. rate_limit # None
      BY <2>2 DEF SandboxInv, FirstInv, Running
    <3>2. PICK t \in workers : rate_limit = RateLimitOf[t]
      BY <3>1 DEF SandboxInv, LimitInv
    <3>3. Cardinality(Running) <= rate_limit
      BY <2>1, <3>1 DEF SandboxInv, TokenInv
    <3> QED
      BY <3>2, <3>3
  <2>3. ASSUME rate_limit # None, Running = {}, releases = 0
        PROVE  semaphore = rate_limit
    <3>1. Cardinality(Running) = 0
      BY <2>3, FS_EmptySet
    <3> QED
      BY <2>1, <2>3, <3>1 DEF SandboxInv, TokenInv
  <2> QED
    BY <2>2, <2>3 DEF RateLimited
<1> QED
  BY SandboxInvariance, <1>1, PTL
=============================================================================
