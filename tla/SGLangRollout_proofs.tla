------------------------- MODULE SGLangRollout_proofs -------------------------
(***************************************************************************)
(* A row of the batch from its conversation to the weights of its turns:   *)
(* the requests of SGLangRollout, for any number of requests, turns and    *)
(* lengths, and the step-wise weights of StepwiseOPD, which are made of a  *)
(* row's mask.  The two modules share nothing but that mask.               *)
(***************************************************************************)
EXTENDS SGLangRollout, StepwiseOPD, FiniteSetTheorems, SequenceTheorems, TLAPS

-----------------------------------------------------------------------------
(***************************************************************************)
(* One request.  What a step does to a request is a change of one record,  *)
(* so its invariant is about a record q of the request's configuration c:  *)
(* its types; that its turns and reasons are those that let it go on or    *)
(* end (TurnsOK); that every call to the engine fitted, and is still where *)
(* it was in input_ids, with the end of the turn behind it (CallsOK); that *)
(* the loss mask is the one of the tokens (MaskOK); that the prompt is     *)
(* where the conversation begins (PromptOK), and what finalize has made of *)
(* all that (RowOK).                                                       *)
(***************************************************************************)
Kinds == {"prompt", "generation_prompt", "end_of_turn", "create", "answer", "tool", "user"}
Token == Kinds \X Nat

EngineCall == [input : Seq(Token), max_new : Int, answer : Seq(Token)]
Row        == [response_ids : Seq(Token), loss_mask : Seq(BOOLEAN), log_probs : Seq(Token)]

Request ==
    [state : {"PENDING", "RUNNING", "TOOL_CALLING", "INTERACTING", "COMPLETED"},
     at : {"loop", "release", "finalize", "returned", "raised", "aborted"},
     finish : {"none", "tool_calls", "stop", "length"},
     current_turns : 0 .. MaxAssistantTurns, user_turns : 0 .. MaxUserTurns,
     prompt_ids : Seq(Token), input_ids : Seq(Token), loss_mask : Seq(BOOLEAN),
     calls : Seq(EngineCall), row : Row]

\* The loss is on what the engine answered, and may be on the end of a turn.
MaskFits(token, loss) ==
    /\ token[1] = "answer" => loss
    /\ token[1] \in {"prompt", "generation_prompt", "create", "tool", "user"} => ~ loss

Fits(ids, mask) == Len(mask) = Len(ids) /\ \A i \in 1 .. Len(ids) : MaskFits(ids[i], mask[i])

\* One sequence begins with another.
Begins(long, short) == Len(short) <= Len(long) /\ \A i \in 1 .. Len(short) : long[i] = short[i]

TurnsOK(q) ==
    /\ q.at = "loop" => q.current_turns < MaxAssistantTurns
    /\ q.at = "loop" /\ q.state = "INTERACTING" => q.user_turns < MaxUserTurns
    /\ q.at = "loop" /\ q.state = "TOOL_CALLING" => q.calls # <<>>
    /\ q.at \in {"release", "finalize"} => q.finish \in {"stop", "length"}

\* A call fitted, and what it read and answered is what the conversation begins with.
CallOK(call, ids) ==
    /\ call.max_new >= 1 /\ Len(call.input) + call.max_new + 1 <= MaxModelLen
    /\ Begins(ids, call.input \o call.answer)
    /\ Len(call.input) + Len(call.answer) + 1 <= Len(ids)
    /\ ids[Len(call.input) + Len(call.answer) + 1] = Close

CallsOK(q) == \A k \in DOMAIN q.calls : CallOK(q.calls[k], q.input_ids)
\* The conversation never consists of a generation prompt alone, so taking one off leaves it a beginning.
MaskOK(q) == Len(q.input_ids) >= 1 /\ q.input_ids[1] # Gen /\ Fits(q.input_ids, q.loss_mask)

PromptOK(q, c) ==
    ~ c.create_text =>
        /\ q.at # "returned" => Begins(q.input_ids, q.prompt_ids)
        /\ \A k \in DOMAIN q.calls : Len(q.prompt_ids) <= Len(q.calls[k].input)

RowOK(q, c) ==
    q.at = "returned" =>
        /\ Fits(q.row.response_ids, q.row.loss_mask)
        /\ ~ c.create_text /\ q.calls # <<>> => Begins(q.input_ids, q.prompt_ids \o q.row.response_ids)

RequestOK(q, c) ==
    /\ q \in Request /\ TurnsOK(q) /\ CallsOK(q) /\ MaskOK(q)
    /\ PromptOK(q, c) /\ RowOK(q, c)

(***************************************************************************)
(* The batch: the tasks taken have ended and are taken once each, enough   *)
(* of them when no more is waited for, and then none is running.           *)
(***************************************************************************)
EndedInv ==
    /\ completed \in Seq(Requests)
    /\ \A i, j \in 1 .. Len(completed) : completed[i] = completed[j] => i = j
    /\ \A i \in 1 .. Len(completed) : Done(completed[i])

PhaseInv ==
    /\ phase \in {"collect", "done"} =>
        /\ \A r \in Requests : reqs[r].at \in {"returned", "raised", "aborted"}
        /\ IF config.validate THEN \A r \in Requests : Real(r) ELSE Enough(Len(completed))
    /\ phase = "done" => output = SortedRows /\ \A r \in Requests : reqs[r].at # "raised"

RolloutInv ==
    /\ config \in Configs /\ instances \subseteq Requests
    /\ phase \in {"run", "collect", "done", "rejected", "stranded"}
    /\ reqs \in [Requests -> Request]
    /\ \A r \in Requests : RequestOK(reqs[r], config)
    /\ \A r \in instances : reqs[r].at \in {"loop", "release", "raised", "aborted"}
    /\ EndedInv /\ PhaseInv

(***************************************************************************)
(* The sequences of a conversation.                                        *)
(***************************************************************************)
LEMMA RolloutConstants ==
    /\ NRequests \in Nat \ {0} /\ PromptLength \in Nat \ {0} /\ ResponseLength \in Nat \ {0}
    /\ MaxModelLen \in Nat \ {0} /\ MaxAssistantTurns \in Nat \ {0} /\ MaxUserTurns \in Nat
BY SGLangAssumption

LEMMA SpecialTokens ==
    /\ Gen \in Token /\ Close \in Token /\ Gen # Close
    /\ MaskFits(Gen, FALSE) /\ MaskFits(Close, FALSE) /\ MaskFits(Close, TRUE)
BY DEF Gen, Close, Token, Kinds, MaskFits

LEMMA TokensAreTokens ==
    ASSUME NEW kind \in Kinds, NEW n \in Nat, NEW turn \in Nat
    PROVE  /\ Tokens(kind, n, turn) \in Seq(Token) /\ Len(Tokens(kind, n, turn)) = n
           /\ \A i \in 1 .. n : Tokens(kind, n, turn)[i] = <<kind, turn>>
<1>1. <<kind, turn>> \in Token
  BY DEF Token
<1>. QED  BY <1>1 DEF Tokens

LEMMA Repeats ==
    ASSUME NEW S, NEW x \in S, NEW n \in Nat
    PROVE  /\ Repeat(x, n) \in Seq(S) /\ Len(Repeat(x, n)) = n
           /\ \A i \in 1 .. n : Repeat(x, n)[i] = x
BY DEF Repeat

LEMMA FrontIsShorter ==
    ASSUME NEW S, NEW s \in Seq(S), Len(s) >= 1
    PROVE  /\ Front(s) \in Seq(S) /\ Len(Front(s)) = Len(s) - 1
           /\ \A i \in 1 .. Len(s) - 1 : Front(s)[i] = s[i]
<1>. DEFINE m == Len(s) - 1
<1>1. m \in Nat /\ \A i \in 1 .. m : s[i] \in S
  OBVIOUS
<1>. HIDE DEF m
<1>2. /\ SubSeq(s, 1, m) \in Seq(S) /\ Len(SubSeq(s, 1, m)) = IF 1 <= m THEN m - 1 + 1 ELSE 0
      /\ \A i \in 1 .. m - 1 + 1 : SubSeq(s, 1, m)[i] = s[1 + i - 1]
  BY <1>1, SubSeqProperties
<1>3. Front(s) = SubSeq(s, 1, m)
  BY DEF Front, m
<1>4. Len(Front(s)) = m /\ \A i \in 1 .. m : Front(s)[i] = s[i]
  BY <1>1, <1>2, <1>3
<1>. QED  BY <1>2, <1>3, <1>4 DEF m

LEMMA FirstIsPrefix ==
    ASSUME NEW S, NEW s \in Seq(S), NEW n \in Nat
    PROVE  /\ First(s, n) \in Seq(S) /\ Len(First(s, n)) <= n /\ Len(First(s, n)) <= Len(s)
           /\ Len(First(s, n)) = IF Len(s) < n THEN Len(s) ELSE n
           /\ \A i \in 1 .. Len(First(s, n)) : First(s, n)[i] = s[i]
<1>. DEFINE m == IF Len(s) < n THEN Len(s) ELSE n
<1>1. m \in Nat /\ m <= Len(s) /\ m <= n /\ \A i \in 1 .. m : s[i] \in S
  OBVIOUS
<1>. HIDE DEF m
<1>2. /\ SubSeq(s, 1, m) \in Seq(S) /\ Len(SubSeq(s, 1, m)) = IF 1 <= m THEN m - 1 + 1 ELSE 0
      /\ \A i \in 1 .. m - 1 + 1 : SubSeq(s, 1, m)[i] = s[1 + i - 1]
  BY <1>1, SubSeqProperties
<1>3. First(s, n) = SubSeq(s, 1, m)
  BY DEF First, m
<1>. QED  BY <1>1, <1>2, <1>3 DEF m

LEMMA AfterIsSuffix ==
    ASSUME NEW S, NEW s \in Seq(S), NEW n \in Nat
    PROVE  /\ After(s, n) \in Seq(S)
           /\ Len(After(s, n)) = IF n < Len(s) THEN Len(s) - n ELSE 0
           /\ \A i \in 1 .. Len(After(s, n)) : After(s, n)[i] = s[n + i]
<1>1. Len(s) \in Nat /\ \A i \in n + 1 .. Len(s) : s[i] \in S
  OBVIOUS
<1>2. /\ SubSeq(s, n + 1, Len(s)) \in Seq(S)
      /\ Len(SubSeq(s, n + 1, Len(s))) = IF n + 1 <= Len(s) THEN Len(s) - (n + 1) + 1 ELSE 0
      /\ \A i \in 1 .. Len(s) - (n + 1) + 1 : SubSeq(s, n + 1, Len(s))[i] = s[n + 1 + i - 1]
  BY <1>1, SubSeqProperties
<1>. QED  BY <1>1, <1>2 DEF After

(* truncate_output_ids cuts every tensor of a request at the same places.  *)
LEMMA ResponseIsACut ==
    ASSUME NEW S, NEW q \in Request, NEW tensor \in Seq(S)
    PROVE  LET p == Len(q.prompt_ids)
               room == PromptLength + ResponseLength
               cut == IF MaxModelLen < room THEN MaxModelLen ELSE room
               kept == IF Len(tensor) < cut THEN Len(tensor) ELSE cut
               left == IF p < kept THEN kept - p ELSE 0
           IN  /\ Response(q, tensor) \in Seq(S)
               /\ Len(Response(q, tensor)) = IF left < ResponseLength THEN left ELSE ResponseLength
               /\ \A i \in 1 .. Len(Response(q, tensor)) :
                    p + i \in 1 .. Len(tensor) /\ Response(q, tensor)[i] = tensor[p + i]
<1>. DEFINE p == Len(q.prompt_ids)
            room == PromptLength + ResponseLength
            cut == IF MaxModelLen < room THEN MaxModelLen ELSE room
            kept == First(tensor, cut)
            rest == After(kept, p)
<1>1. p \in Nat /\ cut \in Nat /\ ResponseLength \in Nat
  BY RolloutConstants DEF Request
<1>2. Response(q, tensor) = First(rest, ResponseLength)
  BY DEF Response
<1>. HIDE DEF cut, p
<1>3. /\ kept \in Seq(S) /\ Len(kept) = (IF Len(tensor) < cut THEN Len(tensor) ELSE cut)
      /\ \A i \in 1 .. Len(kept) : kept[i] = tensor[i]
  BY <1>1, FirstIsPrefix
<1>. HIDE DEF kept
<1>4. /\ rest \in Seq(S) /\ Len(rest) = (IF p < Len(kept) THEN Len(kept) - p ELSE 0)
      /\ \A i \in 1 .. Len(rest) : rest[i] = kept[p + i]
  BY <1>1, <1>3, AfterIsSuffix
<1>. HIDE DEF rest
<1>5. /\ First(rest, ResponseLength) \in Seq(S) /\ Len(First(rest, ResponseLength)) <= Len(rest)
      /\ Len(First(rest, ResponseLength)) = IF Len(rest) < ResponseLength THEN Len(rest) ELSE ResponseLength
      /\ \A i \in 1 .. Len(First(rest, ResponseLength)) : First(rest, ResponseLength)[i] = rest[i]
  BY <1>1, <1>4, FirstIsPrefix
<1>. DEFINE resp == First(rest, ResponseLength)
<1>. HIDE DEF resp
<1>6. /\ resp \in Seq(S) /\ Len(resp) <= Len(rest) /\ Len(resp) \in Nat
      /\ Len(resp) = (IF Len(rest) < ResponseLength THEN Len(rest) ELSE ResponseLength)
      /\ \A i \in 1 .. Len(resp) : resp[i] = rest[i]
  BY <1>5 DEF resp
<1>7. Len(tensor) \in Nat
  OBVIOUS
<1>8. ASSUME NEW i \in 1 .. Len(resp)
      PROVE  p + i \in 1 .. Len(tensor) /\ resp[i] = tensor[p + i]
  <2>1. i \in 1 .. Len(rest) /\ p + i \in 1 .. Len(kept) /\ p + i \in 1 .. Len(tensor)
    BY <1>1, <1>3, <1>4, <1>6, <1>7
  <2>. QED  BY <2>1, <1>3, <1>4, <1>6
<1>9. Response(q, tensor) = resp
  BY <1>2 DEF resp
<1>. QED  BY <1>3, <1>4, <1>6, <1>8, <1>9 DEF p, cut

(* What a conversation keeps when tokens are added, and when a trailing     *)
(* generation prompt is taken off.                                          *)
LEMMA AddedTokensFit ==
    ASSUME NEW ids \in Seq(Token), NEW mask \in Seq(BOOLEAN), NEW new \in Seq(Token), NEW loss \in BOOLEAN,
           Fits(ids, mask), \A i \in 1 .. Len(new) : MaskFits(new[i], loss)
    PROVE  /\ ids \o new \in Seq(Token) /\ mask \o Repeat(loss, Len(new)) \in Seq(BOOLEAN)
           /\ Len(ids \o new) = Len(ids) + Len(new)
           /\ \A i \in 1 .. Len(ids) : (ids \o new)[i] = ids[i]
           /\ \A i \in 1 .. Len(new) : (ids \o new)[Len(ids) + i] = new[i]
           /\ Fits(ids \o new, mask \o Repeat(loss, Len(new)))
<1>. DEFINE l == Len(new)
            all == ids \o new
            rep == Repeat(loss, l)
            masks == mask \o rep
<1>1. l \in Nat /\ Len(ids) \in Nat /\ Len(mask) = Len(ids)
  BY DEF Fits
<1>2. rep \in Seq(BOOLEAN) /\ Len(rep) = l /\ \A i \in 1 .. l : rep[i] = loss
  BY <1>1, Repeats
<1>3. /\ all \in Seq(Token) /\ Len(all) = Len(ids) + l
      /\ \A i \in 1 .. Len(ids) + l : all[i] = IF i <= Len(ids) THEN ids[i] ELSE new[i - Len(ids)]
  BY ConcatProperties
<1>. HIDE DEF rep
<1>4. /\ masks \in Seq(BOOLEAN) /\ Len(masks) = Len(mask) + Len(rep)
      /\ \A i \in 1 .. Len(mask) + Len(rep) :
            masks[i] = IF i <= Len(mask) THEN mask[i] ELSE rep[i - Len(mask)]
  BY <1>2, ConcatProperties
<1>. HIDE DEF all, masks, l
<1>5. \A i \in 1 .. l : all[Len(ids) + i] = new[i]
  BY <1>1, <1>3
<1>6. ASSUME NEW i \in 1 .. Len(all)
      PROVE  MaskFits(all[i], masks[i])
  <2>1. CASE i <= Len(ids)
    <3>1. i \in 1 .. Len(ids) /\ all[i] = ids[i] /\ masks[i] = mask[i]
      BY <2>1, <1>1, <1>2, <1>3, <1>4
    <3>2. MaskFits(ids[i], mask[i])
      BY <3>1 DEF Fits
    <3>. QED  BY <3>1, <3>2, Zenon
  <2>2. CASE i > Len(ids)
    <3>1. i - Len(ids) \in 1 .. l
      BY <2>2, <1>1, <1>3
    <3>2. all[i] = new[i - Len(ids)] /\ masks[i] = rep[i - Len(ids)] /\ rep[i - Len(ids)] = loss
      BY <2>2, <3>1, <1>1, <1>2, <1>3, <1>4
    <3>3. MaskFits(new[i - Len(ids)], loss)
      BY <3>1 DEF l
    <3>. QED  BY <3>2, <3>3, Zenon
  <2>. QED  BY <2>1, <2>2, <1>1
<1>7. Fits(all, masks)
  BY <1>1, <1>2, <1>3, <1>4, <1>6 DEF Fits
<1>. QED  BY <1>1, <1>3, <1>4, <1>5, <1>7 DEF all, masks, rep, l

LEMMA CallStaysOK ==
    ASSUME NEW call \in EngineCall, NEW ids \in Seq(Token), NEW more \in Seq(Token), CallOK(call, ids),
           Len(ids) <= Len(more), \A i \in 1 .. Len(ids) : more[i] = ids[i]
    PROVE  CallOK(call, more)
<1>. DEFINE said == call.input \o call.answer
            n == Len(call.input) + Len(call.answer)
<1>1. said \in Seq(Token) /\ Len(said) = n /\ n \in Nat
  BY ConcatProperties DEF EngineCall
<1>2. Begins(ids, said) /\ n + 1 <= Len(ids) /\ ids[n + 1] = Close
  BY DEF CallOK
<1>3. Len(ids) \in Nat /\ Len(more) \in Nat
  OBVIOUS
<1>. HIDE DEF said, n
<1>4. n + 1 \in 1 .. Len(ids) /\ n + 1 <= Len(more) /\ more[n + 1] = Close
  BY <1>1, <1>2, <1>3
<1>5. ASSUME NEW i \in 1 .. Len(said)
      PROVE  more[i] = said[i]
  BY <1>1, <1>2, <1>3 DEF Begins
<1>6. Begins(more, said)
  BY <1>1, <1>2, <1>3, <1>5 DEF Begins
<1>. QED  BY <1>4, <1>6 DEF CallOK, said, n

LEMMA CallStaysWithoutGen ==
    ASSUME NEW call \in EngineCall, NEW ids \in Seq(Token), CallOK(call, ids), Len(ids) >= 1, Last(ids) = Gen
    PROVE  CallOK(call, Front(ids)) /\ Len(call.input) + 2 <= Len(ids)
<1>. DEFINE said == call.input \o call.answer
            n == Len(call.input) + Len(call.answer)
<1>1. /\ said \in Seq(Token) /\ Len(said) = n /\ n \in Nat
      /\ Len(call.input) \in Nat /\ Len(call.answer) \in Nat
  BY ConcatProperties DEF EngineCall
<1>2. Begins(ids, said) /\ n + 1 <= Len(ids) /\ ids[n + 1] = Close
  BY DEF CallOK
<1>3. Len(ids) \in Nat /\ ids[Len(ids)] = Gen
  BY DEF Last
<1>4. Front(ids) \in Seq(Token) /\ Len(Front(ids)) = Len(ids) - 1 /\ \A i \in 1 .. Len(ids) - 1 : Front(ids)[i] = ids[i]
  BY FrontIsShorter
<1>. HIDE DEF said
<1>5. n + 1 < Len(ids)
  <2>. HIDE DEF n
  <2>. QED  BY <1>1, <1>2, <1>3, SpecialTokens
<1>6. Len(call.input) + 2 <= Len(ids)
  <2>. DEFINE x == Len(call.input)
              y == Len(call.answer)
  <2>1. x \in Nat /\ y \in Nat /\ Len(ids) \in Nat /\ (x + y) + 1 < Len(ids)
    BY <1>1, <1>3, <1>5
  <2>. HIDE DEF x, y
  <2>2. x + 2 <= Len(ids)
    BY <2>1
  <2>. QED  BY <2>2 DEF x
<1>. HIDE DEF n
<1>7. Begins(Front(ids), said) /\ n + 1 <= Len(Front(ids)) /\ Front(ids)[n + 1] = Close
  BY <1>1, <1>2, <1>3, <1>4, <1>5 DEF Begins
<1>. QED  BY <1>6, <1>7 DEF CallOK, said, n

(***************************************************************************)
(* What the messages do to a request: they change its two sequences and    *)
(* nothing else.                                                           *)
(***************************************************************************)
SameButTokens(p, q) ==
    /\ p.state = q.state /\ p.at = q.at /\ p.finish = q.finish
    /\ p.current_turns = q.current_turns /\ p.user_turns = q.user_turns
    /\ p.prompt_ids = q.prompt_ids /\ p.calls = q.calls /\ p.row = q.row

Conversation(q) == q \in Request /\ CallsOK(q) /\ MaskOK(q)

LEMMA RequestFields ==
    ASSUME NEW q \in Request
    PROVE  /\ q.prompt_ids \in Seq(Token) /\ q.input_ids \in Seq(Token) /\ q.loss_mask \in Seq(BOOLEAN)
           /\ q.calls \in Seq(EngineCall) /\ q.row \in Row
           /\ q.current_turns \in 0 .. MaxAssistantTurns /\ q.user_turns \in 0 .. MaxUserTurns
BY DEF Request

LEMMA CallFields ==
    ASSUME NEW q \in Request, NEW k \in DOMAIN q.calls
    PROVE  q.calls[k] \in EngineCall
BY RequestFields

LEMMA ExtendedKeeps ==
    ASSUME NEW q, Conversation(q), NEW ids \in Seq(Token), NEW loss \in BOOLEAN,
           \A i \in 1 .. Len(ids) : MaskFits(ids[i], loss)
    PROVE  /\ Conversation(Extended(q, ids, loss)) /\ SameButTokens(Extended(q, ids, loss), q)
           /\ Extended(q, ids, loss).input_ids = q.input_ids \o ids
           /\ \A c : PromptOK(q, c) => PromptOK(Extended(q, ids, loss), c)
<1>. DEFINE p == Extended(q, ids, loss)
            all == q.input_ids \o ids
            masks == q.loss_mask \o Repeat(loss, Len(ids))
<1>1. /\ q \in Request /\ q.input_ids \in Seq(Token) /\ q.loss_mask \in Seq(BOOLEAN)
      /\ Fits(q.input_ids, q.loss_mask) /\ Len(q.input_ids) \in Nat /\ Len(ids) \in Nat
      /\ Len(q.input_ids) >= 1 /\ q.input_ids[1] # Gen
  BY RequestFields DEF Conversation, MaskOK
<1>2. /\ all \in Seq(Token) /\ masks \in Seq(BOOLEAN)
      /\ Len(all) = Len(q.input_ids) + Len(ids)
      /\ \A i \in 1 .. Len(q.input_ids) : all[i] = q.input_ids[i]
      /\ Fits(all, masks)
  BY <1>1, AddedTokensFit
<1>3. p = [q EXCEPT !.input_ids = all, !.loss_mask = masks]
  BY <1>1 DEF Extended, Request
<1>. HIDE DEF all, masks
<1>. HIDE DEF p
<1>4. p \in Request /\ SameButTokens(p, q) /\ p.input_ids = all /\ p.loss_mask = masks
  BY <1>1, <1>2, <1>3 DEF Request, SameButTokens
<1>5. MaskOK(p)
  <2>1. Len(all) >= 1 /\ all[1] = q.input_ids[1]
    BY <1>1, <1>2
  <2>. QED  BY <2>1, <1>1, <1>2, <1>4 DEF MaskOK
<1>6. CallsOK(p)
  <2>1. Len(q.input_ids) <= Len(all)
    BY <1>1, <1>2
  <2>2. ASSUME NEW k \in DOMAIN q.calls PROVE CallOK(q.calls[k], all)
    <3>1. q.calls[k] \in EngineCall /\ CallOK(q.calls[k], q.input_ids)
      BY <1>1, CallFields DEF Conversation, CallsOK
    <3>. QED  BY <3>1, <2>1, <1>1, <1>2, CallStaysOK
  <2>. QED  BY <2>2, <1>4 DEF CallsOK, SameButTokens
<1>7. ASSUME NEW c, PromptOK(q, c) PROVE PromptOK(p, c)
  <2>1. ASSUME Begins(q.input_ids, q.prompt_ids) PROVE Begins(all, q.prompt_ids)
    <3>1. q.prompt_ids \in Seq(Token) /\ Len(q.prompt_ids) \in Nat
      BY <1>1, RequestFields
    <3>. QED  BY <2>1, <3>1, <1>1, <1>2 DEF Begins
  <2>. QED  BY <2>1, <1>4, <1>7 DEF PromptOK, SameButTokens
<1>. QED  BY <1>4, <1>5, <1>6, <1>7 DEF Conversation, all, p

LEMMA WithoutGenKeeps ==
    ASSUME NEW q, Conversation(q)
    PROVE  /\ Conversation(WithoutGen(q)) /\ SameButTokens(WithoutGen(q), q)
           /\ q.calls # <<>> => \A c : PromptOK(q, c) => PromptOK(WithoutGen(q), c)
           /\ Len(WithoutGen(q).input_ids) <= Len(q.input_ids)
           /\ \A i \in 1 .. Len(WithoutGen(q).input_ids) : WithoutGen(q).input_ids[i] = q.input_ids[i]
<1>1. /\ q \in Request /\ q.input_ids \in Seq(Token) /\ q.loss_mask \in Seq(BOOLEAN)
      /\ Fits(q.input_ids, q.loss_mask) /\ Len(q.input_ids) \in Nat
      /\ Len(q.input_ids) >= 1 /\ q.input_ids[1] # Gen
  BY RequestFields DEF Conversation, MaskOK
<1>2. CASE Last(q.input_ids) # Gen
  <2>1. WithoutGen(q) = q
    BY <1>2 DEF WithoutGen
  <2>. QED  BY <1>1, <2>1 DEF SameButTokens
<1>3. CASE Last(q.input_ids) = Gen
  <2>. DEFINE p == WithoutGen(q)
              all == Front(q.input_ids)
              masks == Front(q.loss_mask)
  <2>1. Len(q.loss_mask) = Len(q.input_ids)
    BY <1>1 DEF Fits
  <2>2. /\ all \in Seq(Token) /\ Len(all) = Len(q.input_ids) - 1
        /\ \A i \in 1 .. Len(q.input_ids) - 1 : all[i] = q.input_ids[i]
    BY <1>1, FrontIsShorter
  <2>3. /\ masks \in Seq(BOOLEAN) /\ Len(masks) = Len(q.loss_mask) - 1
        /\ \A i \in 1 .. Len(q.loss_mask) - 1 : masks[i] = q.loss_mask[i]
    <3>. DEFINE B == BOOLEAN
    <3>0. q.loss_mask \in Seq(B) /\ Len(q.loss_mask) >= 1
      BY <1>1, <2>1
    <3>. HIDE DEF B
    <3>1. /\ masks \in Seq(B) /\ Len(masks) = Len(q.loss_mask) - 1
          /\ \A i \in 1 .. Len(q.loss_mask) - 1 : masks[i] = q.loss_mask[i]
      BY <3>0, FrontIsShorter
    <3>. QED  BY <3>1 DEF B
  <2>4. p = [q EXCEPT !.input_ids = all, !.loss_mask = masks]
    BY <1>1, <1>3 DEF WithoutGen, Request
  <2>. HIDE DEF all, masks
  <2>. HIDE DEF p
  <2>5. p \in Request /\ SameButTokens(p, q) /\ p.input_ids = all /\ p.loss_mask = masks
    BY <1>1, <2>2, <2>3, <2>4 DEF Request, SameButTokens
  <2>6. Len(q.input_ids) >= 2
    <3>1. q.input_ids[Len(q.input_ids)] = Gen
      BY <1>3 DEF Last
    <3>. QED  BY <3>1, <1>1
  <2>7. MaskOK(p)
    <3>1. ASSUME NEW i \in 1 .. Len(all) PROVE MaskFits(all[i], masks[i])
      <4>1. i \in 1 .. Len(q.input_ids) /\ all[i] = q.input_ids[i] /\ masks[i] = q.loss_mask[i]
        BY <1>1, <2>1, <2>2, <2>3
      <4>2. MaskFits(q.input_ids[i], q.loss_mask[i])
        BY <1>1, <4>1 DEF Fits
      <4>. QED  BY <4>1, <4>2, Zenon
    <3>2. Len(all) >= 1 /\ all[1] = q.input_ids[1] /\ Len(masks) = Len(all)
      BY <1>1, <2>1, <2>2, <2>3, <2>6
    <3>. QED  BY <3>1, <3>2, <1>1, <2>5 DEF MaskOK, Fits
  <2>8. ASSUME NEW k \in DOMAIN q.calls
        PROVE  CallOK(q.calls[k], all) /\ Len(q.calls[k].input) + 2 <= Len(q.input_ids)
    <3>1. q.calls[k] \in EngineCall /\ CallOK(q.calls[k], q.input_ids)
      BY <1>1, CallFields DEF Conversation, CallsOK
    <3>. QED  BY <3>1, <1>1, <1>3, CallStaysWithoutGen DEF all
  <2>9. CallsOK(p)
    BY <2>5, <2>8 DEF CallsOK, SameButTokens
  <2>10. ASSUME q.calls # <<>>, NEW c, PromptOK(q, c) PROVE PromptOK(p, c)
    <3>1. 1 \in DOMAIN q.calls /\ q.calls[1] \in EngineCall
      <4>1. q.calls \in Seq(EngineCall)
        BY <1>1, RequestFields
      <4>. QED  BY <4>1, <2>10
    <3>2. q.prompt_ids \in Seq(Token) /\ Len(q.prompt_ids) \in Nat /\ Len(q.calls[1].input) \in Nat
      BY <3>1, <1>1, RequestFields DEF EngineCall
    <3>3. ASSUME ~ c.create_text, q.at # "returned" PROVE Begins(all, q.prompt_ids)
      <4>1. Begins(q.input_ids, q.prompt_ids) /\ Len(q.prompt_ids) <= Len(q.calls[1].input)
        BY <2>10, <3>1, <3>3 DEF PromptOK
      <4>2. Len(q.calls[1].input) + 2 <= Len(q.input_ids)
        BY <2>8, <3>1
      <4>. QED  BY <4>1, <4>2, <3>2, <1>1, <2>2 DEF Begins
    <3>. QED  BY <3>3, <2>5, <2>10 DEF PromptOK, SameButTokens
  <2>11. Len(all) <= Len(q.input_ids) /\ \A i \in 1 .. Len(all) : all[i] = q.input_ids[i]
    BY <1>1, <2>2
  <2>. QED  BY <2>5, <2>7, <2>9, <2>10, <2>11 DEF Conversation, p
<1>. QED  BY <1>2, <1>3

LEMMA WithGenKeeps ==
    ASSUME NEW q, Conversation(q)
    PROVE  /\ Conversation(WithGen(q)) /\ SameButTokens(WithGen(q), q)
           /\ \A c : PromptOK(q, c) => PromptOK(WithGen(q), c)
<1>1. CASE Last(q.input_ids) = Gen
  BY <1>1 DEF WithGen, SameButTokens
<1>2. CASE Last(q.input_ids) # Gen
  <2>1. <<Gen>> \in Seq(Token) /\ \A i \in 1 .. Len(<<Gen>>) : MaskFits(<<Gen>>[i], FALSE)
    <3>. HIDE DEF Gen
    <3>1. Len(<<Gen>>) = 1 /\ <<Gen>>[1] = Gen /\ <<Gen>> \in Seq(Token)
      BY SpecialTokens
    <3>2. ASSUME NEW i \in 1 .. Len(<<Gen>>) PROVE MaskFits(<<Gen>>[i], FALSE)
      <4>1. i = 1
        BY <3>1
      <4>. QED  BY <4>1, <3>1, SpecialTokens
    <3>. QED  BY <3>1, <3>2
  <2>2. WithGen(q) = Extended(q, <<Gen>>, FALSE)
    BY <1>2 DEF WithGen
  <2>. QED  BY <2>1, <2>2, ExtendedKeeps
<1>. QED  BY <1>1, <1>2

\* A message and its end: the tokens of one kind with the mask they get, and Close.
LEMMA ClosedTokens ==
    ASSUME NEW ids \in Seq(Token)
    PROVE  /\ Append(ids, Close) \in Seq(Token) /\ Len(Append(ids, Close)) = Len(ids) + 1
           /\ \A i \in 1 .. Len(ids) : Append(ids, Close)[i] = ids[i]
           /\ Append(ids, Close)[Len(ids) + 1] = Close
<1>1. Close \in Token
  BY SpecialTokens
<1>. QED  BY <1>1

LEMMA MessageFits ==
    ASSUME NEW kind \in Kinds, NEW n \in Nat, NEW turn \in Nat, NEW loss \in BOOLEAN,
           MaskFits(<<kind, turn>>, loss)
    PROVE  LET ids == Tokens(kind, n, turn) IN
           /\ \A i \in 1 .. Len(ids) : MaskFits(ids[i], loss)
           /\ \A i \in 1 .. Len(Append(ids, Close)) : MaskFits(Append(ids, Close)[i], loss)
<1>. DEFINE ids == Tokens(kind, n, turn)
<1>1. ids \in Seq(Token) /\ Len(ids) = n /\ \A i \in 1 .. n : ids[i] = <<kind, turn>>
  BY TokensAreTokens
<1>. HIDE DEF ids
<1>2. /\ Len(Append(ids, Close)) = n + 1 /\ Append(ids, Close)[n + 1] = Close
      /\ \A i \in 1 .. n : Append(ids, Close)[i] = ids[i]
  BY <1>1, ClosedTokens
<1>3. ASSUME NEW i \in 1 .. n PROVE MaskFits(ids[i], loss)
  BY <1>1
<1>0. MaskFits(Close, loss)
  <2>1. CASE loss = TRUE
    BY <2>1, SpecialTokens
  <2>2. CASE loss = FALSE
    BY <2>2, SpecialTokens
  <2>. QED  BY <2>1, <2>2
<1>4. ASSUME NEW i \in 1 .. n + 1 PROVE MaskFits(Append(ids, Close)[i], loss)
  <2>1. CASE i \in 1 .. n
    BY <2>1, <1>2, <1>3
  <2>2. CASE i = n + 1
    BY <2>2, <1>0, <1>2
  <2>3. i \in 1 .. n \/ i = n + 1
    OBVIOUS
  <2>. QED  BY <2>1, <2>2, <2>3, Zenon
<1>. QED  BY <1>1, <1>2, <1>3, <1>4 DEF ids

LEMMA KindsFit ==
    ASSUME NEW turn \in Nat
    PROVE  /\ MaskFits(<<"answer", turn>>, TRUE)
           /\ MaskFits(<<"create", turn>>, FALSE) /\ MaskFits(<<"tool", turn>>, FALSE)
           /\ MaskFits(<<"user", turn>>, FALSE) /\ MaskFits(<<"prompt", turn>>, FALSE)
BY DEF MaskFits

LEMMA AddToolResponseKeeps ==
    ASSUME NEW q, Conversation(q), NEW kind \in {"create", "tool"}, NEW n \in Nat, NEW turn \in Nat
    PROVE  LET p == AddToolResponse(q, Tokens(kind, n, turn)) IN
           /\ Conversation(p) /\ SameButTokens(p, q)
           /\ n = 0 => p = q
           /\ q.calls # <<>> => \A c : PromptOK(q, c) => PromptOK(p, c)
<1>. DEFINE ids == Tokens(kind, n, turn)
            p == AddToolResponse(q, ids)
<1>1. kind \in Kinds /\ MaskFits(<<kind, turn>>, FALSE)
  BY KindsFit DEF Kinds
<1>2. ids \in Seq(Token) /\ Len(ids) = n /\ \A i \in 1 .. Len(ids) : MaskFits(ids[i], FALSE)
  BY <1>1, TokensAreTokens, MessageFits
<1>. HIDE DEF ids
<1>3. n = 0 => ids = <<>>
  BY <1>2, EmptySeq
<1>4. CASE ids = <<>>
  BY <1>4, <1>3 DEF AddToolResponse, SameButTokens, ids
<1>5. CASE ids # <<>>
  <2>. DEFINE w == WithoutGen(q)
  <2>1. /\ Conversation(w) /\ SameButTokens(w, q)
        /\ q.calls # <<>> => \A c : PromptOK(q, c) => PromptOK(w, c)
    BY WithoutGenKeeps
  <2>2. p = Extended(w, ids, FALSE)
    BY <1>5 DEF AddToolResponse
  <2>. HIDE DEF w, p
  <2>3. /\ Conversation(p) /\ SameButTokens(p, w)
        /\ \A c : PromptOK(w, c) => PromptOK(p, c)
    BY <1>2, <2>1, <2>2, ExtendedKeeps
  <2>4. SameButTokens(p, q)
    BY <2>1, <2>3 DEF SameButTokens
  <2>5. q.calls # <<>> => \A c : PromptOK(q, c) => PromptOK(p, c)
    BY <2>1, <2>3
  <2>. QED  BY <1>3, <1>5, <2>3, <2>4, <2>5 DEF p, ids
<1>. QED  BY <1>4, <1>5

LEMMA AddUserKeeps ==
    ASSUME NEW q, Conversation(q), NEW n \in Nat, NEW turn \in Nat
    PROVE  LET p == AddUser(q, Tokens("user", n, turn)) IN
           /\ Conversation(p) /\ SameButTokens(p, q)
           /\ \A c : PromptOK(q, c) => PromptOK(p, c)
<1>. DEFINE ids == Tokens("user", n, turn)
            more == Append(ids, Close)
<1>1. "user" \in Kinds /\ MaskFits(<<"user", turn>>, FALSE)
  BY KindsFit DEF Kinds
<1>2. ids \in Seq(Token)
  BY <1>1, TokensAreTokens
<1>3. more \in Seq(Token) /\ \A i \in 1 .. Len(more) : MaskFits(more[i], FALSE)
  BY <1>1, <1>2, ClosedTokens, MessageFits
<1>4. AddUser(q, ids) = Extended(q, more, FALSE)
  BY DEF AddUser
<1>. HIDE DEF more
<1>5. /\ Conversation(Extended(q, more, FALSE)) /\ SameButTokens(Extended(q, more, FALSE), q)
      /\ \A c : PromptOK(q, c) => PromptOK(Extended(q, more, FALSE), c)
  BY <1>3, ExtendedKeeps
<1>. QED  BY <1>4, <1>5

(***************************************************************************)
(* What the steps of the loop make of a request.                           *)
(***************************************************************************)
SameTokens(p, q) ==
    /\ p.prompt_ids = q.prompt_ids /\ p.input_ids = q.input_ids
    /\ p.loss_mask = q.loss_mask /\ p.calls = q.calls

LEMMA SameTokensKeep ==
    ASSUME NEW q, NEW c, Conversation(q), PromptOK(q, c), q.at # "returned",
           NEW p \in Request, SameTokens(p, q), p.at # "returned", TurnsOK(p)
    PROVE  RequestOK(p, c)
<1>1. CallsOK(p) /\ MaskOK(p)
  BY DEF Conversation, CallsOK, MaskOK, SameTokens
<1>2. PromptOK(p, c)
  BY DEF PromptOK, SameTokens
<1>. QED  BY <1>1, <1>2 DEF RequestOK, RowOK

LEMMA RequestIsConversation ==
    ASSUME NEW q, NEW c, RequestOK(q, c)
    PROVE  Conversation(q) /\ PromptOK(q, c) /\ q \in Request
BY DEF RequestOK, Conversation

\* Which request has left its loop, or goes on with it.
Moves(p) == p.at \in {"loop", "release"}

LEMMA LeftKeeps ==
    ASSUME NEW q, NEW c, Conversation(q), PromptOK(q, c), q.at = "loop", NEW reason \in {"stop", "length"}
    PROVE  RequestOK(Left(q, reason), c) /\ Moves(Left(q, reason))
<1>. DEFINE p == Left(q, reason)
<1>1. q \in Request
  BY DEF Conversation
<1>2. /\ p \in Request /\ SameTokens(p, q) /\ p.at = "release" /\ p.finish \in {"stop", "length"}
  BY <1>1 DEF Left, Request, SameTokens
<1>. HIDE DEF p
<1>3. RequestOK(p, c)
  BY <1>2, SameTokensKeep DEF TurnsOK
<1>. QED  BY <1>2, <1>3 DEF Moves, p

\* The request goes on in a state its turns allow.
GoesOn(q, state) ==
    /\ state \in {"RUNNING", "TOOL_CALLING", "INTERACTING"}
    /\ state = "INTERACTING" => q.user_turns < MaxUserTurns
    /\ state = "TOOL_CALLING" => q.calls # <<>>

LEMMA StateKeeps ==
    ASSUME NEW q, NEW c, Conversation(q), PromptOK(q, c), q.at = "loop", q.current_turns < MaxAssistantTurns,
           NEW state, GoesOn(q, state)
    PROVE  RequestOK([q EXCEPT !.state = state], c) /\ Moves([q EXCEPT !.state = state])
<1>. DEFINE p == [q EXCEPT !.state = state]
<1>1. q \in Request
  BY DEF Conversation
<1>2. /\ p \in Request /\ SameTokens(p, q) /\ p.at = "loop" /\ p.state = state
      /\ p.current_turns = q.current_turns /\ p.user_turns = q.user_turns
  BY <1>1 DEF Request, SameTokens, GoesOn
<1>. HIDE DEF p
<1>3. TurnsOK(p)
  BY <1>2 DEF TurnsOK, GoesOn, SameTokens
<1>4. RequestOK(p, c)
  BY <1>2, <1>3, SameTokensKeep
<1>. QED  BY <1>2, <1>4 DEF Moves, p

LEMMA ContinueKeeps ==
    ASSUME NEW q, NEW c, Conversation(q), PromptOK(q, c), q.at = "loop",
           NEW state, GoesOn(q, state), NEW reason \in {"stop", "tool_calls"}
    PROVE  RequestOK(Continue(q, state, reason), c) /\ Moves(Continue(q, state, reason))
<1>. DEFINE p == [q EXCEPT !.state = state, !.finish = reason]
<1>1. q \in Request /\ q.current_turns \in 0 .. MaxAssistantTurns
  BY RequestFields DEF Conversation
<1>2. /\ p \in Request /\ SameTokens(p, q) /\ p.at = "loop" /\ p.state = state /\ p.finish = reason
      /\ p.current_turns = q.current_turns /\ p.user_turns = q.user_turns
  BY <1>1 DEF Request, SameTokens, GoesOn
<1>3. Continue(q, state, reason) = IF q.current_turns < MaxAssistantTurns THEN p ELSE Left(p, reason)
  BY DEF Continue
<1>. HIDE DEF p
<1>4. CASE q.current_turns < MaxAssistantTurns
  <2>1. TurnsOK(p)
    BY <1>2, <1>4 DEF TurnsOK, GoesOn, SameTokens
  <2>2. RequestOK(p, c)
    BY <1>2, <2>1, SameTokensKeep
  <2>. QED  BY <1>2, <1>3, <1>4, <2>2 DEF Moves
<1>5. CASE ~ q.current_turns < MaxAssistantTurns
  <2>1. p.current_turns >= MaxAssistantTurns
    BY <1>1, <1>2, <1>5, RolloutConstants
  <2>. DEFINE e == Left(p, reason)
  <2>2. e \in Request /\ SameTokens(e, q) /\ e.at = "release" /\ e.finish = "stop"
    BY <1>2, <2>1 DEF Left, Request, SameTokens
  <2>. HIDE DEF e
  <2>3. RequestOK(e, c)
    BY <2>2, SameTokensKeep DEF TurnsOK
  <2>. QED  BY <1>3, <1>5, <2>2, <2>3 DEF Moves, e
<1>. QED  BY <1>4, <1>5

\* With the turn counted and the call kept, the answer is part of the conversation.
LEMMA AnswerKeeps ==
    ASSUME NEW q, NEW c, Conversation(q), PromptOK(q, c), q.at = "loop", q.current_turns < MaxAssistantTurns,
           Len(q.input_ids) + 1 < MaxModelLen, NEW n \in Nat,
           NEW said,
           said = [AddAssistant(q, Tokens("answer", n, q.current_turns + 1)) EXCEPT
                     !.current_turns = q.current_turns + 1,
                     !.calls = Append(@, [input |-> q.input_ids, max_new |-> MaxNewTokens(Len(q.input_ids)),
                                          answer |-> Tokens("answer", n, q.current_turns + 1)])]
    PROVE  /\ Conversation(said) /\ PromptOK(said, c) /\ said.at = "loop" /\ said.calls # <<>>
           /\ said.user_turns = q.user_turns
<1>. DEFINE turn == q.current_turns + 1
            ids == Tokens("answer", n, turn)
            more == Append(ids, Close)
            max_new == MaxNewTokens(Len(q.input_ids))
            call == [input |-> q.input_ids, max_new |-> max_new, answer |-> ids]
            p == AddAssistant(q, ids)
<1>1. /\ q \in Request /\ q.input_ids \in Seq(Token) /\ Len(q.input_ids) \in Nat
      /\ q.current_turns \in 0 .. MaxAssistantTurns /\ turn \in 0 .. MaxAssistantTurns /\ turn \in Nat
  BY RequestFields, RolloutConstants DEF Conversation
<1>. HIDE DEF turn
<1>2. "answer" \in Kinds /\ MaskFits(<<"answer", turn>>, TRUE)
  BY <1>1, KindsFit DEF Kinds
<1>3. ids \in Seq(Token) /\ Len(ids) = n
  BY <1>1, <1>2, TokensAreTokens
<1>4. more \in Seq(Token) /\ \A i \in 1 .. Len(more) : MaskFits(more[i], TRUE)
  BY <1>1, <1>2, <1>3, ClosedTokens, MessageFits
<1>5. Len(more) = n + 1 /\ more[n + 1] = Close /\ \A i \in 1 .. n : more[i] = ids[i]
  BY <1>3, ClosedTokens
<1>6. p = Extended(q, more, TRUE)
  BY DEF AddAssistant
<1>. HIDE DEF ids, more, p
<1>7. /\ Conversation(p) /\ SameButTokens(p, q) /\ p.input_ids = q.input_ids \o more
      /\ PromptOK(p, c)
  BY <1>4, <1>6, ExtendedKeeps
<1>8. max_new \in Int /\ max_new >= 1 /\ Len(q.input_ids) + max_new + 1 <= MaxModelLen
  <2>. DEFINE l == Len(q.input_ids)
  <2>1. l \in Nat /\ l + 1 < MaxModelLen
    BY <1>1
  <2>. HIDE DEF l
  <2>2. MaxNewTokens(l) \in Int /\ MaxNewTokens(l) >= 1 /\ l + MaxNewTokens(l) + 1 <= MaxModelLen
    BY <2>1, RolloutConstants DEF MaxNewTokens
  <2>. QED  BY <2>2 DEF l
<1>9. said = [p EXCEPT !.current_turns = turn, !.calls = Append(@, call)]
  BY DEF p, ids, turn
<1>. HIDE DEF max_new
<1>10. call \in EngineCall /\ call.input = q.input_ids /\ call.max_new = max_new /\ call.answer = ids
  BY <1>1, <1>3, <1>8 DEF EngineCall
<1>. HIDE DEF call
<1>11. p.calls \in Seq(EngineCall) /\ p.calls = q.calls /\ p \in Request
  BY <1>7, RequestFields DEF Conversation, SameButTokens
<1>12. /\ Append(p.calls, call) \in Seq(EngineCall) /\ Len(Append(p.calls, call)) = Len(p.calls) + 1
       /\ Append(p.calls, call)[Len(p.calls) + 1] = call /\ Len(p.calls) \in Nat
       /\ \A k \in 1 .. Len(p.calls) : Append(p.calls, call)[k] = p.calls[k]
  BY <1>10, <1>11
<1>. DEFINE calls == Append(p.calls, call)
<1>13. said = [p EXCEPT !.current_turns = turn, !.calls = calls]
  BY <1>9, <1>11 DEF Request
<1>. HIDE DEF calls
<1>14. /\ said \in Request /\ said.at = p.at /\ said.user_turns = p.user_turns /\ said.calls = calls
       /\ said.prompt_ids = p.prompt_ids /\ said.input_ids = p.input_ids /\ said.loss_mask = p.loss_mask
  BY <1>1, <1>11, <1>12, <1>13 DEF Request, calls
<1>15. CallOK(call, p.input_ids)
  <2>. DEFINE all == q.input_ids \o more
              l == Len(q.input_ids)
              both == q.input_ids \o ids
  <2>1. /\ all \in Seq(Token) /\ Len(all) = l + Len(more)
        /\ \A i \in 1 .. l + Len(more) : all[i] = IF i <= l THEN q.input_ids[i] ELSE more[i - l]
    BY <1>1, <1>4, ConcatProperties
  <2>2. /\ both \in Seq(Token) /\ Len(both) = l + Len(ids)
        /\ \A i \in 1 .. l + Len(ids) : both[i] = IF i <= l THEN q.input_ids[i] ELSE ids[i - l]
    BY <1>1, <1>3, ConcatProperties
  <2>. HIDE DEF all, both
  <2>3. l \in Nat /\ Len(ids) = n /\ Len(more) = n + 1
    BY <1>1, <1>3, <1>5
  <2>. HIDE DEF l
  <2>4. \A i \in 1 .. l + n : all[i] = both[i]
    <3>1. ASSUME NEW i \in 1 .. l + n PROVE all[i] = both[i]
      <4>1. CASE i <= l
        <5>1. i \in 1 .. l + (n + 1) /\ i \in 1 .. l + n
          BY <4>1, <2>3
        <5>. QED  BY <5>1, <4>1, <2>1, <2>2, <2>3
      <4>2. CASE ~ i <= l
        <5>1. i - l \in 1 .. n /\ i \in 1 .. l + (n + 1) /\ i \in 1 .. l + n
          BY <4>2, <2>3
        <5>. QED  BY <5>1, <4>2, <1>5, <2>1, <2>2, <2>3
      <4>. QED  BY <4>1, <4>2
    <3>. QED  BY <3>1
  <2>5. all[l + n + 1] = Close /\ l + n + 1 <= Len(all)
    <3>1. l + n + 1 \in 1 .. l + (n + 1) /\ ~ (l + n + 1 <= l) /\ (l + n + 1) - l = n + 1
      BY <2>3
    <3>. QED  BY <3>1, <1>5, <2>1, <2>3
  <2>6. Begins(all, both)
    BY <2>1, <2>2, <2>3, <2>4 DEF Begins
  <2>. QED  BY <2>3, <2>5, <2>6, <1>7, <1>8, <1>10 DEF CallOK, all, both, l
<1>16. CallsOK(said)
  <2>1. ASSUME NEW k \in DOMAIN calls PROVE CallOK(calls[k], p.input_ids)
    <3>1. CASE k = Len(p.calls) + 1
      BY <3>1, <1>12, <1>15 DEF calls
    <3>2. CASE k \in 1 .. Len(p.calls)
      BY <3>2, <1>7, <1>11, <1>12 DEF Conversation, CallsOK, calls
    <3>3. k = Len(p.calls) + 1 \/ k \in 1 .. Len(p.calls)
      BY <1>12 DEF calls
    <3>. QED  BY <3>1, <3>2, <3>3
  <2>. QED  BY <2>1, <1>14 DEF CallsOK
<1>17. MaskOK(said)
  BY <1>7, <1>14 DEF Conversation, MaskOK
<1>18. PromptOK(said, c)
  <2>1. ASSUME ~ c.create_text PROVE Begins(p.input_ids, p.prompt_ids)
    BY <2>1, <1>7 DEF PromptOK, SameButTokens
  <2>2. ASSUME ~ c.create_text, NEW k \in DOMAIN calls PROVE Len(p.prompt_ids) <= Len(calls[k].input)
    <3>1. CASE k = Len(p.calls) + 1
      <4>1. Begins(q.input_ids, q.prompt_ids)
        BY <2>2 DEF PromptOK
      <4>. QED  BY <4>1, <3>1, <1>7, <1>10, <1>12 DEF Begins, SameButTokens, calls
    <3>2. CASE k \in 1 .. Len(p.calls)
      BY <2>2, <3>2, <1>7, <1>11, <1>12 DEF PromptOK, calls
    <3>3. k = Len(p.calls) + 1 \/ k \in 1 .. Len(p.calls)
      BY <1>12 DEF calls
    <3>. QED  BY <3>1, <3>2, <3>3
  <2>. QED  BY <2>1, <2>2, <1>14 DEF PromptOK
<1>19. said.calls # <<>>
  BY <1>12, <1>14 DEF calls
<1>. QED  BY <1>7, <1>14, <1>16, <1>17, <1>18, <1>19 DEF Conversation, SameButTokens

LEMMA AnsweredKeeps ==
    ASSUME NEW q, NEW c, Conversation(q), PromptOK(q, c), q.at = "loop", q.calls # <<>>,
           NEW ending \in {"length", "call", "bad_call", "plain"}
    PROVE  config = c => RequestOK(Answered(q, ending), c) /\ Moves(Answered(q, ending))
<1>1. CASE ending = "length"
  <2>1. Answered(q, ending) = Left(q, "length")
    BY <1>1 DEF Answered
  <2>. QED  BY <2>1, LeftKeeps
<1>2. CASE ending = "call"
  <2>1. Answered(q, ending) = Continue(q, "TOOL_CALLING", "tool_calls")
    BY <1>2 DEF Answered
  <2>2. GoesOn(q, "TOOL_CALLING")
    BY DEF GoesOn
  <2>. QED  BY <2>1, <2>2, ContinueKeeps
<1>3. CASE ending = "bad_call"
  <2>. DEFINE p == [q EXCEPT !.state = "COMPLETED"]
  <2>1. Answered(q, ending) = Left(p, "stop")
    BY <1>3 DEF Answered
  <2>2. /\ p \in Request /\ SameTokens(p, q) /\ p.at = "loop"
    BY DEF Request, SameTokens, Conversation
  <2>. HIDE DEF p
  <2>3. Conversation(p) /\ PromptOK(p, c)
    BY <2>2 DEF Conversation, CallsOK, MaskOK, PromptOK, SameTokens
  <2>. QED  BY <2>1, <2>2, <2>3, LeftKeeps
<1>4. CASE ending = "plain"
  <2>1. CASE config.interaction /\ q.user_turns < MaxUserTurns /\ q.current_turns < MaxAssistantTurns
    <3>1. Answered(q, ending) = Continue(q, "INTERACTING", "stop")
      BY <1>4, <2>1 DEF Answered
    <3>2. GoesOn(q, "INTERACTING")
      BY <2>1 DEF GoesOn
    <3>. QED  BY <3>1, <3>2, ContinueKeeps
  <2>2. CASE ~ (config.interaction /\ q.user_turns < MaxUserTurns /\ q.current_turns < MaxAssistantTurns)
    <3>1. Answered(q, ending) = Left(q, "stop")
      BY <1>4, <2>2 DEF Answered
    <3>. QED  BY <3>1, LeftKeeps
  <2>. QED  BY <2>1, <2>2
<1>. QED  BY <1>1, <1>2, <1>3, <1>4

\* What finalize returns, and a request that is stopped by what has been raised or cancelled.
LEMMA StoppedKeeps ==
    ASSUME NEW q, NEW c, RequestOK(q, c), q.at # "returned", NEW at \in {"raised", "aborted"}
    PROVE  RequestOK([q EXCEPT !.at = at], c)
<1>. DEFINE p == [q EXCEPT !.at = at]
<1>1. Conversation(q) /\ PromptOK(q, c) /\ q \in Request
  BY RequestIsConversation
<1>2. p \in Request /\ SameTokens(p, q) /\ p.at = at
  BY <1>1 DEF Request, SameTokens
<1>. HIDE DEF p
<1>3. RequestOK(p, c)
  BY <1>1, <1>2, SameTokensKeep DEF TurnsOK
<1>. QED  BY <1>3 DEF p

LEMMA ReleasedKeeps ==
    ASSUME NEW q, NEW c, RequestOK(q, c), q.at = "release"
    PROVE  RequestOK([q EXCEPT !.at = "finalize"], c)
<1>. DEFINE p == [q EXCEPT !.at = "finalize"]
<1>1. Conversation(q) /\ PromptOK(q, c) /\ q \in Request /\ TurnsOK(q)
  BY RequestIsConversation DEF RequestOK
<1>2. p \in Request /\ SameTokens(p, q) /\ p.at = "finalize" /\ p.finish = q.finish
  BY <1>1 DEF Request, SameTokens
<1>. HIDE DEF p
<1>3. TurnsOK(p)
  BY <1>1, <1>2 DEF TurnsOK
<1>4. RequestOK(p, c)
  BY <1>1, <1>2, <1>3, SameTokensKeep
<1>. QED  BY <1>4 DEF p

(* The two tensors of a request are cut alike, so the mask of the response  *)
(* is the one of its tokens, and the response follows the prompt.           *)
LEMMA ResponseFits ==
    ASSUME NEW q, Conversation(q)
    PROVE  /\ Response(q, q.input_ids) \in Seq(Token) /\ Response(q, q.loss_mask) \in Seq(BOOLEAN)
           /\ Fits(Response(q, q.input_ids), Response(q, q.loss_mask))
           /\ Begins(q.input_ids, q.prompt_ids) =>
                Begins(q.input_ids, q.prompt_ids \o Response(q, q.input_ids))
<1>. DEFINE ids == q.input_ids
            mask == q.loss_mask
            resp == Response(q, ids)
            loss == Response(q, mask)
            l == Len(q.prompt_ids)
<1>1. /\ q \in Request /\ ids \in Seq(Token) /\ mask \in Seq(BOOLEAN) /\ q.prompt_ids \in Seq(Token)
      /\ Fits(ids, mask) /\ Len(mask) = Len(ids) /\ Len(ids) \in Nat /\ l \in Nat
  BY RequestFields DEF Conversation, MaskOK, Fits
<1>. HIDE DEF ids, mask
<1>2. /\ resp \in Seq(Token)
      /\ \A i \in 1 .. Len(resp) : l + i \in 1 .. Len(ids) /\ resp[i] = ids[l + i]
  BY <1>1, ResponseIsACut
<1>. DEFINE B == BOOLEAN
<1>3. /\ loss \in Seq(B)
      /\ \A i \in 1 .. Len(loss) : l + i \in 1 .. Len(mask) /\ loss[i] = mask[l + i]
  <2>1. mask \in Seq(B)
    BY <1>1
  <2>. HIDE DEF B
  <2>. QED  BY <1>1, <2>1, ResponseIsACut
<1>4. Len(loss) = Len(resp)
  <2>. DEFINE room == PromptLength + ResponseLength
              cut == IF MaxModelLen < room THEN MaxModelLen ELSE room
              kept == IF Len(ids) < cut THEN Len(ids) ELSE cut
              left == IF l < kept THEN kept - l ELSE 0
              n == IF left < ResponseLength THEN left ELSE ResponseLength
  <2>1. Len(resp) = n
    BY <1>1, ResponseIsACut
  <2>2. Len(loss) = n
    <3>1. mask \in Seq(B)
      BY <1>1
    <3>. HIDE DEF B
    <3>. QED  BY <1>1, <3>1, ResponseIsACut
  <2>. QED  BY <2>1, <2>2
<1>. HIDE DEF resp, loss
<1>5. Fits(resp, loss)
  <2>1. ASSUME NEW i \in 1 .. Len(resp) PROVE MaskFits(resp[i], loss[i])
    <3>1. l + i \in 1 .. Len(ids) /\ resp[i] = ids[l + i] /\ loss[i] = mask[l + i]
      BY <1>2, <1>3, <1>4
    <3>2. MaskFits(ids[l + i], mask[l + i])
      BY <1>1, <3>1 DEF Fits
    <3>. QED  BY <3>1, <3>2, Zenon
  <2>. QED  BY <2>1, <1>4 DEF Fits
<1>6. ASSUME Begins(ids, q.prompt_ids) PROVE Begins(ids, q.prompt_ids \o resp)
  <2>. DEFINE both == q.prompt_ids \o resp
  <2>1. /\ both \in Seq(Token) /\ Len(both) = l + Len(resp)
        /\ \A i \in 1 .. l + Len(resp) : both[i] = IF i <= l THEN q.prompt_ids[i] ELSE resp[i - l]
    BY <1>1, <1>2, ConcatProperties
  <2>2. l <= Len(ids) /\ \A i \in 1 .. l : ids[i] = q.prompt_ids[i]
    BY <1>6 DEF Begins
  <2>. HIDE DEF both, l
  <2>3. Len(resp) \in Nat /\ l + Len(resp) <= Len(ids)
    <3>1. Len(resp) \in Nat
      BY <1>2
    <3>2. CASE Len(resp) = 0
      BY <3>2, <2>2, <1>1
    <3>3. CASE Len(resp) > 0
      <4>1. Len(resp) \in 1 .. Len(resp)
        BY <3>1, <3>3
      <4>. QED  BY <4>1, <1>2, <1>1
    <3>. QED  BY <3>1, <3>2, <3>3
  <2>4. ASSUME NEW i \in 1 .. l + Len(resp) PROVE ids[i] = both[i]
    <3>1. CASE i <= l
      BY <3>1, <1>1, <2>1, <2>2
    <3>2. CASE ~ i <= l
      <4>1. i - l \in 1 .. Len(resp) /\ l + (i - l) = i
        BY <3>2, <2>3, <1>1
      <4>2. resp[i - l] = ids[l + (i - l)]
        BY <4>1, <1>2
      <4>. QED  BY <4>1, <4>2, <3>2, <2>1
    <3>. QED  BY <3>1, <3>2
  <2>. QED  BY <2>1, <2>3, <2>4 DEF Begins, both
<1>. QED  BY <1>1, <1>2, <1>3, <1>5, <1>6 DEF ids, mask, resp, loss

LEMMA FinalizedKeeps ==
    ASSUME NEW q, NEW c, RequestOK(q, c), q.at = "finalize", NEW logs \in Seq(Token),
           NEW w, w = WithoutGen(q), NEW p,
           p = [w EXCEPT
                 !.at = "returned", !.state = "COMPLETED",
                 !.row = [response_ids |-> Response(w, w.input_ids), loss_mask |-> Response(w, w.loss_mask),
                          log_probs |-> logs]]
    PROVE  RequestOK(p, c) /\ p.at = "returned"
<1>1. Conversation(q) /\ PromptOK(q, c)
  BY RequestIsConversation
<1>2. /\ Conversation(w) /\ SameButTokens(w, q)
      /\ q.calls # <<>> => PromptOK(w, c)
  BY <1>1, WithoutGenKeeps
<1>. DEFINE ids == Response(w, w.input_ids)
            loss == Response(w, w.loss_mask)
            made == [response_ids |-> ids, loss_mask |-> loss, log_probs |-> logs]
<1>3. /\ ids \in Seq(Token) /\ loss \in Seq(BOOLEAN) /\ Fits(ids, loss)
      /\ Begins(w.input_ids, w.prompt_ids) => Begins(w.input_ids, w.prompt_ids \o ids)
  BY <1>2, ResponseFits
<1>. HIDE DEF ids, loss
<1>4. made \in Row /\ made.response_ids = ids /\ made.loss_mask = loss
  BY <1>3 DEF Row
<1>5. p = [w EXCEPT !.at = "returned", !.state = "COMPLETED", !.row = made]
  BY DEF ids, loss
<1>. HIDE DEF made
<1>6. /\ p \in Request /\ SameTokens(p, w) /\ p.at = "returned" /\ p.row = made
  BY <1>2, <1>4, <1>5 DEF Request, SameTokens, Conversation
<1>7. CallsOK(p) /\ MaskOK(p) /\ TurnsOK(p)
  BY <1>2, <1>6 DEF Conversation, CallsOK, MaskOK, TurnsOK, SameTokens
<1>8. PromptOK(p, c)
  BY <1>1, <1>2, <1>6 DEF PromptOK, SameTokens, SameButTokens
<1>9. RowOK(p, c)
  <2>1. ASSUME ~ c.create_text, q.calls # <<>> PROVE Begins(w.input_ids, w.prompt_ids)
    BY <2>1, <1>2 DEF PromptOK, SameButTokens
  <2>. QED  BY <2>1, <1>2, <1>3, <1>4, <1>6 DEF RowOK, SameTokens, SameButTokens
<1>. QED  BY <1>6, <1>7, <1>8, <1>9 DEF RequestOK

LEMMA LogProbsAreTokens ==
    ASSUME NEW q, Conversation(q), NEW response
    PROVE  LogProbs(q, response) \in Seq(Token)
<1>1. q.input_ids \in Seq(Token) /\ Len(q.input_ids) \in Nat /\ Len(q.input_ids) >= 1
  BY RequestFields DEF Conversation, MaskOK
<1>2. Len(q.input_ids) - 1 \in Nat
  BY <1>1
<1>. QED  BY <1>1, <1>2, AfterIsSuffix DEF LogProbs, LenOfTensor

LEMMA NewRequestOK ==
    ASSUME NEW n \in PromptLens, NEW c
    PROVE  /\ RequestOK(NewRequest(n), c) /\ NewRequest(n) \in Request
           /\ NewRequest(n).at = "loop"
<1>. DEFINE prompt == Tokens("prompt", n, 0)
            ids == Append(prompt, Gen)
            mask == Repeat(FALSE, n + 1)
            p == NewRequest(n)
<1>1. n \in Nat /\ n >= 1
  BY SGLangAssumption
<1>2. "prompt" \in Kinds /\ MaskFits(<<"prompt", 0>>, FALSE)
  BY KindsFit DEF Kinds
<1>3. prompt \in Seq(Token) /\ Len(prompt) = n /\ \A i \in 1 .. n : prompt[i] = <<"prompt", 0>>
  BY <1>1, <1>2, TokensAreTokens
<1>. HIDE DEF prompt
<1>4. /\ ids \in Seq(Token) /\ Len(ids) = n + 1 /\ ids[n + 1] = Gen
      /\ \A i \in 1 .. n : ids[i] = <<"prompt", 0>>
  <2>1. Gen \in Token
    BY SpecialTokens
  <2>. QED  BY <1>3, <2>1
<1>5. mask \in Seq(BOOLEAN) /\ Len(mask) = n + 1 /\ \A i \in 1 .. n + 1 : mask[i] = FALSE
  <2>. DEFINE B == BOOLEAN
              x == FALSE
  <2>1. n + 1 \in Nat /\ x \in B
    BY <1>1
  <2>. HIDE DEF B, x
  <2>2. Repeat(x, n + 1) \in Seq(B) /\ Len(Repeat(x, n + 1)) = n + 1 /\ \A i \in 1 .. n + 1 : Repeat(x, n + 1)[i] = x
    BY <2>1, Repeats
  <2>. QED  BY <2>2 DEF B, x
<1>6. /\ p = [state |-> "PENDING", at |-> "loop", finish |-> "none", current_turns |-> 0, user_turns |-> 0,
              prompt_ids |-> ids, input_ids |-> ids, loss_mask |-> mask, calls |-> <<>>, row |-> NoRow]
  BY DEF NewRequest, ids, mask, prompt
<1>. HIDE DEF ids, mask, p
<1>7. NoRow \in Row /\ <<>> \in Seq(EngineCall)
  BY EmptySeq DEF NoRow, Row
<1>8. p \in Request
  BY <1>4, <1>5, <1>6, <1>7, RolloutConstants DEF Request
<1>9. Fits(ids, mask)
  <2>1. ASSUME NEW i \in 1 .. n + 1 PROVE MaskFits(ids[i], mask[i])
    <3>1. CASE i \in 1 .. n
      BY <3>1, <1>2, <1>4, <1>5, Zenon
    <3>2. CASE i = n + 1
      BY <3>2, <1>4, <1>5, SpecialTokens, Zenon
    <3>3. i \in 1 .. n \/ i = n + 1
      BY <1>1
    <3>. QED  BY <3>1, <3>2, <3>3, Zenon
  <2>. QED  BY <2>1, <1>4, <1>5 DEF Fits
<1>10. ids[1] # Gen
  <2>1. ids[1] = <<"prompt", 0>>
    BY <1>1, <1>4
  <2>. QED  BY <2>1 DEF Gen
<1>11. Begins(ids, ids)
  BY <1>1, <1>4 DEF Begins
<1>12. TurnsOK(p) /\ CallsOK(p) /\ MaskOK(p) /\ PromptOK(p, c) /\ RowOK(p, c)
  BY <1>1, <1>4, <1>6, <1>9, <1>10, <1>11, RolloutConstants
     DEF TurnsOK, CallsOK, MaskOK, PromptOK, RowOK
<1>. QED  BY <1>6, <1>8, <1>12 DEF RequestOK, p

(***************************************************************************)
(* The steps of a task.                                                    *)
(***************************************************************************)
\* The request r becomes q, whatever else its step does to the tools.
LEMMA TaskStepKeepsInv ==
    ASSUME RolloutInv, NEW r \in Requests, NEW q, Becomes(r, q), RequestOK(q, config),
           phase = "run", ~ Done(r), Elsewhere,
           instances' \subseteq Requests, instances' \subseteq instances \cup {r},
           r \in instances' => q.at \in {"loop", "release", "raised", "aborted"}
    PROVE  RolloutInv'
<1>1. q \in Request /\ reqs \in [Requests -> Request]
  BY DEF RequestOK, RolloutInv
<1>2. reqs' \in [Requests -> Request] /\ reqs'[r] = q /\ \A x \in Requests \ {r} : reqs'[x] = reqs[x]
  BY <1>1 DEF Becomes
<1>3. config' = config /\ phase' = phase /\ completed' = completed /\ output' = output
  BY DEF Elsewhere
<1>4. (\A x \in Requests : RequestOK(reqs[x], config))'
  BY <1>2, <1>3 DEF RolloutInv, RequestOK, TurnsOK, CallsOK, MaskOK, PromptOK, RowOK
<1>5. (\A x \in instances : reqs[x].at \in {"loop", "release", "raised", "aborted"})'
  BY <1>2 DEF RolloutInv
<1>6. EndedInv'
  <2>1. \A i \in 1 .. Len(completed) : completed[i] \in Requests /\ Done(completed[i]) /\ completed[i] # r
    BY DEF RolloutInv, EndedInv
  <2>. QED  BY <2>1, <1>2, <1>3 DEF RolloutInv, EndedInv, Done
<1>7. PhaseInv'
  BY <1>3 DEF PhaseInv
<1>. QED  BY <1>2, <1>3, <1>4, <1>5, <1>6, <1>7 DEF RolloutInv

LEMMA RunningFacts ==
    ASSUME RolloutInv, NEW r \in Requests, NEW state, Runs(r, state)
    PROVE  /\ RequestOK(reqs[r], config) /\ Conversation(reqs[r]) /\ PromptOK(reqs[r], config)
           /\ reqs[r] \in Request /\ TurnsOK(reqs[r]) /\ phase = "run" /\ ~ Done(r)
           /\ reqs[r].at = "loop" /\ reqs[r].state = state
           /\ reqs[r].current_turns \in 0 .. MaxAssistantTurns
           /\ reqs[r].current_turns < MaxAssistantTurns
           /\ reqs \in [Requests -> Request] /\ instances \subseteq Requests
<1>1. RequestOK(reqs[r], config)
  BY DEF RolloutInv
<1>. QED  BY <1>1, RequestIsConversation, RequestFields DEF Runs, Done, RequestOK, TurnsOK, RolloutInv

LEMMA ConfigFacts ==
    ASSUME RolloutInv
    PROVE  /\ config.target \in 0 .. NRequests /\ config.validate \in BOOLEAN /\ config.tools \in BOOLEAN
           /\ config.create_text \in BOOLEAN
BY SGLangAssumption DEF RolloutInv

LEMMA RaiseKeepsInv ==
    ASSUME RolloutInv, NEW r \in Requests, NEW state, Runs(r, state), Raise(r), Elsewhere
    PROVE  RolloutInv'
<1>. DEFINE q == [reqs[r] EXCEPT !.at = "raised"]
<1>1. RequestOK(reqs[r], config) /\ reqs[r].at = "loop" /\ reqs[r] \in Request
  BY RunningFacts
<1>2. RequestOK(q, config) /\ q.at = "raised"
  BY <1>1, StoppedKeeps DEF Request
<1>3. Becomes(r, q) /\ instances' = instances
  BY DEF Raise
<1>. HIDE DEF q
<1>. QED  BY <1>2, <1>3, RunningFacts, TaskStepKeepsInv

LEMMA CreateKeepsInv ==
    ASSUME RolloutInv, NEW r \in Requests, Create(r)
    PROVE  RolloutInv'
<1>1. /\ Conversation(reqs[r]) /\ PromptOK(reqs[r], config) /\ reqs[r].at = "loop"
      /\ phase = "run" /\ ~ Done(r) /\ reqs[r].current_turns < MaxAssistantTurns
      /\ instances \subseteq Requests
  BY RunningFacts DEF Create
<1>2. PICK n \in IF config.tools /\ config.create_text THEN ReplyLens ELSE {0} :
        Becomes(r, [AddToolResponse(reqs[r], Tokens("create", n, 0)) EXCEPT !.state = "RUNNING"])
  BY DEF Create
<1>. DEFINE p == AddToolResponse(reqs[r], Tokens("create", n, 0))
            q == [p EXCEPT !.state = "RUNNING"]
<1>3. n \in Nat /\ (~ config.create_text => n = 0)
  BY <1>2, SGLangAssumption
<1>4. Conversation(p) /\ SameButTokens(p, reqs[r]) /\ (n = 0 => p = reqs[r])
  BY <1>1, <1>3, AddToolResponseKeeps
<1>. HIDE DEF p
<1>5. PromptOK(p, config)
  <2>1. CASE config.create_text
    BY <2>1 DEF PromptOK
  <2>2. CASE ~ config.create_text
    BY <2>2, <1>1, <1>3, <1>4
  <2>. QED  BY <2>1, <2>2
<1>6. p.at = "loop" /\ p.current_turns < MaxAssistantTurns /\ GoesOn(p, "RUNNING")
  BY <1>1, <1>4 DEF SameButTokens, GoesOn
<1>7. RequestOK(q, config) /\ Moves(q)
  BY <1>4, <1>5, <1>6, StateKeeps
<1>8. Becomes(r, q)
  BY <1>2 DEF p
<1>. HIDE DEF q
<1>9. instances' \subseteq instances \cup {r} /\ Elsewhere
  BY DEF Create
<1>. QED  BY <1>1, <1>7, <1>8, <1>9, TaskStepKeepsInv DEF Moves

LEMMA GenerateKeepsInv ==
    ASSUME RolloutInv, NEW r \in Requests, Generate(r)
    PROVE  RolloutInv'
<1>1. /\ Conversation(reqs[r]) /\ PromptOK(reqs[r], config) /\ reqs[r].at = "loop"
      /\ phase = "run" /\ ~ Done(r) /\ reqs[r].current_turns < MaxAssistantTurns
      /\ instances \subseteq Requests
  BY RunningFacts DEF Generate
<1>. DEFINE q == WithGen(reqs[r])
            turn == q.current_turns + 1
            max_new == MaxNewTokens(Len(q.input_ids))
            Said(n) == [AddAssistant(q, Tokens("answer", n, turn)) EXCEPT
                          !.current_turns = turn,
                          !.calls = Append(@, [input |-> q.input_ids, max_new |-> max_new,
                                               answer |-> Tokens("answer", n, turn)])]
<1>2. instances' = instances /\ Elsewhere
  BY DEF Generate
<1>3. \/ Becomes(r, Left(q, "length"))
      \/ /\ Len(q.input_ids) + 1 < MaxModelLen
         /\ \E n \in AnswerLens : \E ending \in {"length", "call", "bad_call", "plain"} :
                Becomes(r, Answered(Said(n), ending))
  <2>1. \/ Becomes(r, Left(q, "length"))
        \/ /\ Len(q.input_ids) + 1 < MaxModelLen
           /\ \E n \in AnswerLens : \E ending \in (IF n = max_new THEN {"length"} ELSE {}) \cup
                                   (IF config.tools THEN {"call", "bad_call", "plain"} ELSE {"plain"}) :
                Becomes(r, Answered(Said(n), ending))
    BY DEF Generate
  <2>. HIDE DEF q, turn, max_new, Said
  <2>. QED  BY <2>1
<1>4. Conversation(q) /\ SameButTokens(q, reqs[r]) /\ PromptOK(q, config)
  BY <1>1, WithGenKeeps
<1>. HIDE DEF q
<1>5. q.at = "loop" /\ q.current_turns < MaxAssistantTurns
  BY <1>1, <1>4 DEF SameButTokens
<1>6. CASE Becomes(r, Left(q, "length"))
  <2>. DEFINE p == Left(q, "length")
  <2>1. RequestOK(p, config) /\ Moves(p)
    BY <1>4, <1>5, LeftKeeps
  <2>2. Becomes(r, p)
    BY <1>6
  <2>. HIDE DEF p
  <2>. QED  BY <2>1, <2>2, <1>1, <1>2, TaskStepKeepsInv DEF Moves
<1>7. ASSUME Len(q.input_ids) + 1 < MaxModelLen, NEW n \in AnswerLens,
             NEW ending \in {"length", "call", "bad_call", "plain"}, Becomes(r, Answered(Said(n), ending))
      PROVE  RolloutInv'
  <2>. DEFINE said == Said(n)
              p == Answered(said, ending)
  <2>1. n \in Nat
    BY SGLangAssumption
  <2>2. said = Said(n)
    OBVIOUS
  <2>. HIDE DEF said
  <2>3. said = [AddAssistant(q, Tokens("answer", n, q.current_turns + 1)) EXCEPT
                     !.current_turns = q.current_turns + 1,
                     !.calls = Append(@, [input |-> q.input_ids, max_new |-> MaxNewTokens(Len(q.input_ids)),
                                          answer |-> Tokens("answer", n, q.current_turns + 1)])]
    BY <2>2
  <2>4. /\ Conversation(said) /\ PromptOK(said, config) /\ said.at = "loop" /\ said.calls # <<>>
    BY <2>1, <2>3, <1>4, <1>5, <1>7, AnswerKeeps
  <2>5. RequestOK(p, config) /\ Moves(p)
    BY <2>4, AnsweredKeeps
  <2>6. Becomes(r, p)
    BY <1>7 DEF said
  <2>. HIDE DEF p
  <2>. QED  BY <2>5, <2>6, <1>1, <1>2, TaskStepKeepsInv DEF Moves
<1>. HIDE DEF turn, max_new, Said
<1>. QED  BY <1>3, <1>6, <1>7

LEMMA ExecuteKeepsInv ==
    ASSUME RolloutInv, NEW r \in Requests, Execute(r)
    PROVE  RolloutInv'
<1>1. /\ Conversation(reqs[r]) /\ PromptOK(reqs[r], config) /\ reqs[r].at = "loop"
      /\ phase = "run" /\ ~ Done(r) /\ reqs[r].current_turns < MaxAssistantTurns
      /\ reqs[r].current_turns \in 0 .. MaxAssistantTurns
      /\ instances \subseteq Requests /\ reqs[r].calls # <<>>
  BY RunningFacts DEF Execute, TurnsOK
<1>2. Elsewhere
  BY DEF Execute
<1>3. CASE Raise(r)
  BY <1>2, <1>3, RaiseKeepsInv DEF Execute
<1>4. ASSUME NEW n \in ReplyLens, NEW q,
             q = AddToolResponse(reqs[r], Tokens("tool", n, reqs[r].current_turns)),
             Becomes(r, IF LenOfTensor(q.input_ids) >= MaxModelLen
                        THEN Left(q, "stop") ELSE [q EXCEPT !.state = "RUNNING"]),
             instances' = instances
      PROVE  RolloutInv'
  <2>1. n \in Nat /\ reqs[r].current_turns \in Nat
    BY <1>1, SGLangAssumption, RolloutConstants
  <2>2. Conversation(q) /\ SameButTokens(q, reqs[r]) /\ PromptOK(q, config)
    BY <1>1, <1>4, <2>1, AddToolResponseKeeps
  <2>3. q.at = "loop" /\ q.current_turns < MaxAssistantTurns /\ GoesOn(q, "RUNNING")
    BY <1>1, <2>2 DEF SameButTokens, GoesOn
  <2>. DEFINE p == IF LenOfTensor(q.input_ids) >= MaxModelLen
                   THEN Left(q, "stop") ELSE [q EXCEPT !.state = "RUNNING"]
  <2>4. RequestOK(p, config) /\ Moves(p)
    BY <2>2, <2>3, LeftKeeps, StateKeeps
  <2>5. Becomes(r, p)
    BY <1>4
  <2>. HIDE DEF p
  <2>. QED  BY <2>4, <2>5, <1>1, <1>2, <1>4, TaskStepKeepsInv DEF Moves
<1>. QED  BY <1>3, <1>4 DEF Execute

LEMMA InteractKeepsInv ==
    ASSUME RolloutInv, NEW r \in Requests, Interact(r)
    PROVE  RolloutInv'
<1>1. /\ Conversation(reqs[r]) /\ PromptOK(reqs[r], config) /\ reqs[r].at = "loop" /\ reqs[r] \in Request
      /\ phase = "run" /\ ~ Done(r) /\ reqs[r].current_turns < MaxAssistantTurns
      /\ reqs[r].current_turns \in 0 .. MaxAssistantTurns
      /\ instances \subseteq Requests /\ reqs[r].user_turns < MaxUserTurns
  BY RunningFacts DEF Interact, TurnsOK
<1>2. instances' = instances /\ Elsewhere
  BY DEF Interact
<1>. DEFINE q == [reqs[r] EXCEPT !.user_turns = @ + 1]
            d == [q EXCEPT !.state = "COMPLETED"]
<1>3. q.user_turns \in 0 .. MaxUserTurns /\ q \in Request /\ SameTokens(q, reqs[r])
      /\ q.at = "loop" /\ q.current_turns = reqs[r].current_turns
  <2>1. reqs[r].user_turns + 1 \in 0 .. MaxUserTurns
    BY <1>1, RequestFields, RolloutConstants
  <2>. QED  BY <1>1, <2>1 DEF Request, SameTokens
<1>4. \/ Becomes(r, Left(d, "stop"))
      \/ \E n \in ReplyLens : \E p : 
            /\ p = AddUser(q, Tokens("user", n, q.current_turns))
            /\ Becomes(r, IF LenOfTensor(p.input_ids) >= MaxModelLen
                          THEN Left(p, "stop") ELSE [p EXCEPT !.state = "RUNNING"])
  BY DEF Interact
<1>. HIDE DEF q
<1>5. Conversation(q) /\ PromptOK(q, config)
  BY <1>1, <1>3 DEF Conversation, CallsOK, MaskOK, PromptOK, SameTokens
<1>6. CASE Becomes(r, Left(d, "stop"))
  <2>1. d \in Request /\ SameTokens(d, q) /\ d.at = "loop"
    BY <1>3 DEF Request, SameTokens
  <2>. HIDE DEF d
  <2>2. Conversation(d) /\ PromptOK(d, config)
    BY <2>1, <1>3, <1>5 DEF Conversation, CallsOK, MaskOK, PromptOK, SameTokens
  <2>. DEFINE p == Left(d, "stop")
  <2>3. RequestOK(p, config) /\ Moves(p)
    BY <2>1, <2>2, LeftKeeps
  <2>4. Becomes(r, p)
    BY <1>6
  <2>. HIDE DEF p
  <2>. QED  BY <2>3, <2>4, <1>1, <1>2, TaskStepKeepsInv DEF Moves
<1>7. ASSUME NEW n \in ReplyLens, NEW p,
             p = AddUser(q, Tokens("user", n, q.current_turns)),
             Becomes(r, IF LenOfTensor(p.input_ids) >= MaxModelLen
                        THEN Left(p, "stop") ELSE [p EXCEPT !.state = "RUNNING"])
      PROVE  RolloutInv'
  <2>1. n \in Nat /\ q.current_turns \in Nat
    BY <1>1, <1>3, SGLangAssumption, RolloutConstants
  <2>2. Conversation(p) /\ SameButTokens(p, q) /\ PromptOK(p, config)
    BY <1>5, <1>7, <2>1, AddUserKeeps
  <2>3. p.at = "loop" /\ p.current_turns < MaxAssistantTurns /\ GoesOn(p, "RUNNING")
    BY <1>1, <1>3, <2>2 DEF SameButTokens, GoesOn
  <2>. DEFINE e == IF LenOfTensor(p.input_ids) >= MaxModelLen
                   THEN Left(p, "stop") ELSE [p EXCEPT !.state = "RUNNING"]
  <2>4. RequestOK(e, config) /\ Moves(e)
    BY <2>2, <2>3, LeftKeeps, StateKeeps
  <2>5. Becomes(r, e)
    BY <1>7
  <2>. HIDE DEF e
  <2>. QED  BY <2>4, <2>5, <1>1, <1>2, TaskStepKeepsInv DEF Moves
<1>. QED  BY <1>4, <1>6, <1>7

LEMMA ReleaseKeepsInv ==
    ASSUME RolloutInv, NEW r \in Requests, Release(r)
    PROVE  RolloutInv'
<1>. DEFINE q == [reqs[r] EXCEPT !.at = "finalize"]
<1>1. RequestOK(reqs[r], config) /\ instances \subseteq Requests
  BY DEF RolloutInv
<1>2. phase = "run" /\ ~ Done(r) /\ Elsewhere /\ Becomes(r, q) /\ reqs[r].at = "release"
  BY DEF Release, Done
<1>3. RequestOK(q, config)
  BY <1>1, <1>2, ReleasedKeeps
<1>4. instances' = instances \ {r}
  BY DEF Release
<1>. HIDE DEF q
<1>5. r \notin instances' /\ instances' \subseteq Requests /\ instances' \subseteq instances \cup {r}
  BY <1>1, <1>4
<1>. QED  BY <1>2, <1>3, <1>5, TaskStepKeepsInv

LEMMA FinalizeKeepsInv ==
    ASSUME RolloutInv, NEW r \in Requests, Finalize(r)
    PROVE  RolloutInv'
<1>1. /\ RequestOK(reqs[r], config) /\ instances \subseteq Requests /\ reqs[r] \in Request
      /\ r \notin instances
  BY DEF RolloutInv, Finalize
<1>2. phase = "run" /\ ~ Done(r) /\ Elsewhere /\ reqs[r].at = "finalize" /\ instances' = instances
  BY DEF Finalize, Done
<1>3. reqs[r].finish \in {"stop", "length"}
  BY <1>1, <1>2 DEF RequestOK, TurnsOK
<1>. DEFINE q == WithoutGen(reqs[r])
            response == Response(q, q.input_ids)
            logs == IF config.log_probs THEN LogProbs(q, response) ELSE <<>>
            p == [q EXCEPT
                    !.at = "returned", !.state = "COMPLETED",
                    !.row = [response_ids |-> response, loss_mask |-> Response(q, q.loss_mask),
                             log_probs |-> logs]]
<1>4. Becomes(r, p)
  BY <1>3 DEF Finalize
<1>5. Conversation(q)
  BY <1>1, RequestIsConversation, WithoutGenKeeps
<1>6. logs \in Seq(Token)
  <2>. HIDE DEF q, response
  <2>. QED  BY <1>5, LogProbsAreTokens, EmptySeq
<1>7. q = WithoutGen(reqs[r])
  OBVIOUS
<1>. HIDE DEF q, logs
<1>8. RequestOK(p, config)
  BY <1>1, <1>2, <1>6, <1>7, FinalizedKeeps
<1>. HIDE DEF p
<1>. QED  BY <1>1, <1>2, <1>4, <1>8, TaskStepKeepsInv

(***************************************************************************)
(* The steps of the driver.                                                *)
(***************************************************************************)
\* The requests that were not done are cancelled, the others stay as they are.
LEMMA TakeCompletedKeepsInv ==
    ASSUME RolloutInv, NEW r \in Requests, TakeCompleted(r)
    PROVE  RolloutInv'
<1>. DEFINE taken == Append(completed, r)
            raised == reqs[r].at = "raised"
            stop == raised \/ Enough(Len(taken))
<1>1. /\ phase = "run" /\ ~ config.validate /\ Done(r) /\ r \notin ToSet(completed)
      /\ config' = config /\ instances' = instances /\ output' = output
      /\ completed' = taken
      /\ phase' = IF raised THEN "stranded" ELSE IF stop THEN "collect" ELSE "run"
  BY DEF TakeCompleted
<1>2. reqs' = [q \in Requests |-> IF stop /\ ~ Done(q) THEN [reqs[q] EXCEPT !.at = "aborted"] ELSE reqs[q]]
  BY DEF TakeCompleted
<1>3. /\ reqs \in [Requests -> Request] /\ completed \in Seq(Requests) /\ Len(completed) \in Nat
      /\ config \in Configs /\ instances \subseteq Requests
  BY DEF RolloutInv, EndedInv
<1>4. /\ taken \in Seq(Requests) /\ Len(taken) = Len(completed) + 1
      /\ taken[Len(completed) + 1] = r /\ \A i \in 1 .. Len(completed) : taken[i] = completed[i]
  BY <1>3
<1>. HIDE DEF taken, raised, stop
<1>5. ASSUME NEW q \in Requests
      PROVE  /\ reqs'[q] \in Request /\ RequestOK(reqs'[q], config)
             /\ Done(q) => reqs'[q] = reqs[q]
             /\ reqs'[q] = reqs[q] \/ reqs'[q].at = "aborted"
             /\ stop => reqs'[q].at \in {"returned", "raised", "aborted"}
  <2>1. RequestOK(reqs[q], config) /\ reqs[q] \in Request
    BY <1>3 DEF RolloutInv
  <2>2. CASE stop /\ ~ Done(q)
    <3>. DEFINE p == [reqs[q] EXCEPT !.at = "aborted"]
    <3>1. reqs'[q] = p
      BY <1>2, <2>2
    <3>2. p.at = "aborted" /\ p \in Request
      BY <2>1 DEF Request
    <3>3. RequestOK(p, config)
      BY <2>1, <2>2, StoppedKeeps DEF Done
    <3>. HIDE DEF p
    <3>. QED  BY <3>1, <3>2, <3>3, <2>2
  <2>3. CASE ~ (stop /\ ~ Done(q))
    <3>1. reqs'[q] = reqs[q]
      BY <1>2, <2>3
    <3>. QED  BY <3>1, <2>1, <2>3 DEF Done
  <2>. QED  BY <2>2, <2>3
<1>6. reqs' \in [Requests -> Request]
  <2>1. reqs' = [q \in Requests |-> reqs'[q]]
    BY <1>2
  <2>. QED  BY <2>1, <1>5
<1>7. (\A q \in Requests : RequestOK(reqs[q], config))'
  BY <1>1, <1>5 DEF RequestOK, TurnsOK, CallsOK, MaskOK, PromptOK, RowOK
<1>8. (\A q \in instances : reqs[q].at \in {"loop", "release", "raised", "aborted"})'
  BY <1>1, <1>3, <1>5 DEF RolloutInv
<1>9. EndedInv'
  <2>1. \A i \in 1 .. Len(completed) : completed[i] \in Requests /\ Done(completed[i]) /\ completed[i] # r
    BY <1>1, <1>3 DEF RolloutInv, EndedInv, ToSet
  <2>2. \A i, j \in 1 .. Len(completed) : completed[i] = completed[j] => i = j
    BY DEF RolloutInv, EndedInv
  <2>3. ASSUME NEW i \in 1 .. Len(taken) PROVE i \in 1 .. Len(completed) \/ i = Len(completed) + 1
    BY <1>3, <1>4
  <2>4. ASSUME NEW i \in 1 .. Len(taken), NEW j \in 1 .. Len(taken), taken[i] = taken[j] PROVE i = j
    BY <1>4, <2>1, <2>2, <2>3, <2>4
  <2>5. ASSUME NEW i \in 1 .. Len(taken) PROVE taken[i] \in Requests /\ Done(taken[i])
    BY <1>1, <1>4, <2>1, <2>3
  <2>6. ASSUME NEW i \in 1 .. Len(taken) PROVE reqs'[taken[i]].at \in {"returned", "raised"}
    <3>1. reqs'[taken[i]] = reqs[taken[i]]
      BY <2>5, <1>5
    <3>. QED  BY <2>5, <3>1 DEF Done
  <2>7. completed' \in Seq(Requests)
    BY <1>1, <1>4
  <2>8. \A i, j \in 1 .. Len(completed') : completed'[i] = completed'[j] => i = j
    BY <1>1, <2>4
  <2>9. \A i \in 1 .. Len(completed') : reqs'[completed'[i]].at \in {"returned", "raised"}
    BY <1>1, <2>6
  <2>. QED  BY <2>7, <2>8, <2>9 DEF EndedInv, Done
<1>10. PhaseInv'
  <2>1. CASE raised
    BY <2>1, <1>1 DEF PhaseInv
  <2>2. CASE ~ raised /\ ~ stop
    BY <2>2, <1>1 DEF PhaseInv
  <2>3. CASE ~ raised /\ stop
    <3>1. Enough(Len(taken))
      BY <2>3 DEF stop, raised
    <3>2. phase' = "collect" /\ completed' = taken /\ config' = config
      BY <2>3, <1>1
    <3>3. Enough(Len(completed))'
      BY <3>1, <3>2 DEF Enough
    <3>. QED  BY <3>2, <3>3, <2>3, <1>1, <1>5 DEF PhaseInv
  <2>. QED  BY <2>1, <2>2, <2>3
<1>11. phase' \in {"run", "collect", "done", "rejected", "stranded"}
  BY <1>1
<1>. QED  BY <1>1, <1>3, <1>6, <1>7, <1>8, <1>9, <1>10, <1>11 DEF RolloutInv

\* What does not change a request.
LEMMA DriverKeepsInv ==
    ASSUME RolloutInv, UNCHANGED <<config, reqs, instances, completed>>,
           phase' \in {"run", "collect", "done", "rejected", "stranded"}, PhaseInv'
    PROVE  RolloutInv'
BY DEF RolloutInv, EndedInv, RequestOK, TurnsOK, CallsOK, MaskOK, PromptOK, RowOK, Done

LEMMA GatherAllKeepsInv ==
    ASSUME RolloutInv, GatherAll
    PROVE  RolloutInv'
<1>1. /\ UNCHANGED <<config, reqs, instances, completed>> /\ config.validate
      /\ \/ phase' = "stranded"
         \/ (\A r \in Requests : reqs[r].at = "returned") /\ phase' = "collect"
  BY DEF GatherAll
<1>2. PhaseInv'
  BY <1>1 DEF PhaseInv, Real
<1>. QED  BY <1>1, <1>2, DriverKeepsInv

LEMMA CollectKeepsInv ==
    ASSUME RolloutInv, Collect
    PROVE  RolloutInv'
<1>1. UNCHANGED <<config, reqs, instances, completed>> /\ phase = "collect"
  BY DEF Collect
<1>2. \/ phase' \in {"rejected", "stranded"}
      \/ /\ phase' = "done" /\ output' = SortedRows
         /\ \A r \in Requests : reqs[r].at # "raised"
  BY DEF Collect
<1>3. SortedRows' = SortedRows
  BY <1>1 DEF SortedRows, Padding, RealRow
<1>4. PhaseInv'
  <2>1. CASE phase' \in {"rejected", "stranded"}
    BY <2>1 DEF PhaseInv
  <2>2. CASE phase' = "done"
    BY <2>2, <1>1, <1>2, <1>3 DEF RolloutInv, PhaseInv, Real, Enough
  <2>. QED  BY <2>1, <2>2, <1>2
<1>. QED  BY <1>1, <1>2, <1>4, DriverKeepsInv

LEMMA RolloutInitInv ==
    ASSUME RolloutInit
    PROVE  RolloutInv
<1>1. /\ config \in Configs /\ reqs \in [Requests -> {NewRequest(n) : n \in PromptLens}]
      /\ instances = {} /\ phase = "run" /\ completed = <<>>
  BY DEF RolloutInit
<1>2. ASSUME NEW r \in Requests PROVE reqs[r] \in Request /\ RequestOK(reqs[r], config)
  <2>1. PICK n \in PromptLens : reqs[r] = NewRequest(n)
    BY <1>1
  <2>. QED  BY <2>1, NewRequestOK
<1>3. reqs \in [Requests -> Request]
  BY <1>1, <1>2
<1>4. completed \in Seq(Requests) /\ Len(completed) = 0
  BY <1>1, EmptySeq
<1>. QED  BY <1>1, <1>2, <1>3, <1>4 DEF RolloutInv, EndedInv, PhaseInv

LEMMA RolloutStutterInv ==
    ASSUME RolloutInv, UNCHANGED rolloutVars
    PROVE  RolloutInv'
<1>1. PhaseInv'
  BY DEF RolloutInv, PhaseInv, rolloutVars, Real, Enough, SortedRows, Padding, RealRow
<1>. QED  BY <1>1, DriverKeepsInv DEF rolloutVars, RolloutInv

(* Every request, and the batch made of them, is what RolloutInv says.     *)
THEOREM RolloutInvariance == RolloutSpec => []RolloutInv
<1>1. RolloutInit => RolloutInv
  BY RolloutInitInv
<1>2. RolloutInv /\ [RolloutNext]_rolloutVars => RolloutInv'
  <2>1. ASSUME RolloutInv, NEW r \in Requests, RequestStep(r) PROVE RolloutInv'
    BY <2>1, CreateKeepsInv, GenerateKeepsInv, ExecuteKeepsInv, InteractKeepsInv, ReleaseKeepsInv,
       FinalizeKeepsInv DEF RequestStep
  <2>. QED  BY <2>1, TakeCompletedKeepsInv, GatherAllKeepsInv, CollectKeepsInv, RolloutStutterInv
            DEF RolloutNext
<1>. QED  BY <1>1, <1>2, PTL DEF RolloutSpec

LEMMA SubSeqsAgree ==
    ASSUME NEW s \in Seq(Token), NEW u \in Seq(Token), Len(s) <= Len(u),
           \A i \in 1 .. Len(s) : s[i] = u[i]
    PROVE  IsPrefix(s, u)
<1>. DEFINE n == Len(s)
<1>1. n \in Nat /\ (\A i \in 1 .. n : s[i] \in Token) /\ (\A i \in 1 .. n : u[i] \in Token)
  OBVIOUS
<1>. HIDE DEF n
<1>2. /\ SubSeq(s, 1, n) \in Seq(Token) /\ Len(SubSeq(s, 1, n)) = (IF 1 <= n THEN n - 1 + 1 ELSE 0)
      /\ \A i \in 1 .. n - 1 + 1 : SubSeq(s, 1, n)[i] = s[1 + i - 1]
  BY <1>1, SubSeqProperties
<1>3. /\ SubSeq(u, 1, n) \in Seq(Token) /\ Len(SubSeq(u, 1, n)) = (IF 1 <= n THEN n - 1 + 1 ELSE 0)
      /\ \A i \in 1 .. n - 1 + 1 : SubSeq(u, 1, n)[i] = u[1 + i - 1]
  BY <1>1, SubSeqProperties
<1>4. /\ Len(SubSeq(s, 1, n)) = n /\ Len(SubSeq(u, 1, n)) = n
      /\ \A i \in 1 .. n : SubSeq(s, 1, n)[i] = s[i] /\ SubSeq(u, 1, n)[i] = u[i]
  BY <1>1, <1>2, <1>3
<1>5. \A i \in 1 .. n : SubSeq(s, 1, n)[i] = SubSeq(u, 1, n)[i]
  BY <1>4 DEF n
<1>. DEFINE x == SubSeq(s, 1, n)
            y == SubSeq(u, 1, n)
<1>6. x \in Seq(Token) /\ y \in Seq(Token) /\ Len(x) = Len(y) /\ \A i \in 1 .. Len(x) : x[i] = y[i]
  BY <1>2, <1>3, <1>4, <1>5
<1>. HIDE DEF x, y
<1>7. x = y
  BY <1>6, SeqEqual
<1>. QED  BY <1>7 DEF IsPrefix, n, x, y

\* Two beginnings of one conversation.
LEMMA BeginningsCompare ==
    ASSUME NEW all \in Seq(Token), NEW s \in Seq(Token), NEW u \in Seq(Token),
           Begins(all, s), Begins(all, u)
    PROVE  Comparable(s, u)
<1>1. Len(s) \in Nat /\ Len(u) \in Nat
  OBVIOUS
<1>2. CASE Len(s) <= Len(u)
  <2>1. \A i \in 1 .. Len(s) : s[i] = u[i]
    BY <1>1, <1>2 DEF Begins
  <2>. QED  BY <1>2, <2>1, SubSeqsAgree DEF Comparable
<1>3. CASE Len(u) <= Len(s)
  <2>1. \A i \in 1 .. Len(u) : u[i] = s[i]
    BY <1>1, <1>3 DEF Begins
  <2>. QED  BY <1>3, <2>1, SubSeqsAgree DEF Comparable
<1>. QED  BY <1>1, <1>2, <1>3

\* A sequence of different requests is no longer than a set they are in.
LEMMA DifferentRequests ==
    ASSUME NEW s \in Seq(Requests), NEW T \in SUBSET Requests,
           \A i \in 1 .. Len(s) : s[i] \in T,
           \A i, j \in 1 .. Len(s) : s[i] = s[j] => i = j
    PROVE  IsFiniteSet(T) /\ Cardinality(T) \in Nat /\ Len(s) <= Cardinality(T)
<1>1. NRequests \in Nat /\ Len(s) \in Nat
  BY RolloutConstants
<1>2. IsFiniteSet(Requests) /\ IsFiniteSet(1 .. Len(s)) /\ Cardinality(1 .. Len(s)) = Len(s)
  <2>. DEFINE n == Len(s)
  <2>1. IsFiniteSet(Requests)
    BY <1>1, FS_Interval DEF Requests
  <2>2. n \in Nat
    BY <1>1
  <2>. HIDE DEF n
  <2>3. IsFiniteSet(1 .. n) /\ Cardinality(1 .. n) = IF 1 > n THEN 0 ELSE n - 1 + 1
    BY <2>2, FS_Interval
  <2>4. Cardinality(1 .. n) = n
    BY <2>2, <2>3
  <2>. QED  BY <2>1, <2>3, <2>4 DEF n
<1>3. IsFiniteSet(T) /\ Cardinality(T) \in Nat
  BY <1>2, FS_Subset, FS_CardinalityType
<1>4. s \in [1 .. Len(s) -> T]
  <2>1. s \in [1 .. Len(s) -> Requests]
    OBVIOUS
  <2>. QED  BY <2>1
<1>5. ASSUME Cardinality(T) < Len(s) PROVE FALSE
  BY <1>2, <1>3, <1>4, <1>5, FS_PigeonHole
<1>. QED  BY <1>1, <1>3, <1>5

LEMMA TypesFollow ==
    ASSUME RolloutInv
    PROVE  RolloutTypeOK
<1>1. completed \in Seq(Requests) /\ Len(completed) <= NRequests
  <2>1. completed \in Seq(Requests) /\ Len(completed) <= Cardinality(Requests)
    BY DifferentRequests DEF RolloutInv, EndedInv
  <2>2. Cardinality(Requests) = NRequests
    BY FS_Interval, RolloutConstants DEF Requests
  <2>. QED  BY <2>1, <2>2
<1>2. ASSUME NEW r \in Requests
      PROVE  /\ reqs[r].at \in {"loop", "release", "finalize", "returned", "raised", "aborted"}
             /\ reqs[r].current_turns \in 0 .. MaxAssistantTurns
             /\ reqs[r].user_turns \in 0 .. MaxUserTurns
             /\ Len(reqs[r].input_ids) = Len(reqs[r].loss_mask)
  <2>1. reqs[r] \in Request /\ RequestOK(reqs[r], config)
    BY DEF RolloutInv
  <2>. QED  BY <2>1 DEF Request, RequestOK, MaskOK, Fits
<1>. QED  BY <1>1, <1>2 DEF RolloutTypeOK, RolloutInv

LEMMA EnoughFollow ==
    ASSUME RolloutInv
    PROVE  EnoughAreReal
<1>. DEFINE T == {r \in Requests : Real(r)}
<1>1. SUFFICES ASSUME phase = "done"
               PROVE  Cardinality(T) >= IF config.validate THEN NRequests ELSE config.target
  BY DEF EnoughAreReal
<1>2. /\ \A r \in Requests : reqs[r].at # "raised"
      /\ IF config.validate THEN \A r \in Requests : Real(r) ELSE Enough(Len(completed))
  BY <1>1 DEF RolloutInv, PhaseInv
<1>3. CASE config.validate
  <2>1. T = Requests
    BY <1>2, <1>3
  <2>2. Cardinality(Requests) = NRequests
    BY FS_Interval, RolloutConstants DEF Requests
  <2>. QED  BY <1>3, <2>1, <2>2, RolloutConstants
<1>4. CASE ~ config.validate
  <2>1. \A i \in 1 .. Len(completed) : completed[i] \in T
    BY <1>2 DEF RolloutInv, EndedInv, Done, Real
  <2>2. T \in SUBSET Requests
    OBVIOUS
  <2>. HIDE DEF T
  <2>3. Len(completed) <= Cardinality(T) /\ Cardinality(T) \in Nat /\ Len(completed) \in Nat
    <3>1. /\ completed \in Seq(Requests) /\ Len(completed) \in Nat
          /\ \A i, j \in 1 .. Len(completed) : completed[i] = completed[j] => i = j
      BY DEF RolloutInv, EndedInv
    <3>. QED  BY <2>1, <2>2, <3>1, DifferentRequests
  <2>4. Len(completed) >= config.target
    BY <1>2, <1>4, <2>3, ConfigFacts, RolloutConstants DEF Enough
  <2>. QED  BY <1>4, <2>3, <2>4, ConfigFacts
<1>. QED  BY <1>3, <1>4

LEMMA RowsFollow ==
    ASSUME RolloutInv, phase = "done", NEW r \in Requests
    PROVE  /\ reqs[r].at \in {"returned", "aborted"}
           /\ output[r] = IF reqs[r].at = "aborted" THEN Padding(r) ELSE RealRow(r)
           /\ Real(r) => /\ output[r].prompt_ids = reqs[r].prompt_ids
                         /\ output[r].response_ids = reqs[r].row.response_ids
                         /\ output[r].loss_mask = reqs[r].row.loss_mask
           /\ ~ Real(r) => /\ output[r].prompt_ids = reqs[r].prompt_ids
                           /\ output[r].loss_mask = Repeat(FALSE, ResponseLength)
<1>1. output = SortedRows /\ reqs[r].at \in {"returned", "aborted"}
  BY DEF RolloutInv, PhaseInv
<1>2. output[r] = IF reqs[r].at = "aborted" THEN Padding(r) ELSE RealRow(r)
  BY <1>1 DEF SortedRows
<1>3. ASSUME Real(r)
      PROVE  /\ output[r].prompt_ids = reqs[r].prompt_ids
             /\ output[r].response_ids = reqs[r].row.response_ids
             /\ output[r].loss_mask = reqs[r].row.loss_mask
  <2>1. output[r] = RealRow(r)
    BY <1>2, <1>3 DEF Real
  <2>. QED  BY <2>1 DEF RealRow
<1>4. ASSUME ~ Real(r)
      PROVE  /\ output[r].prompt_ids = reqs[r].prompt_ids
             /\ output[r].loss_mask = Repeat(FALSE, ResponseLength)
  <2>1. output[r] = Padding(r)
    BY <1>1, <1>2, <1>4 DEF Real
  <2>. QED  BY <2>1 DEF Padding
<1>. QED  BY <1>1, <1>2, <1>3, <1>4

LEMMA PromptsFollow ==
    ASSUME RolloutInv
    PROVE  RowsMatchPrompts
<1>1. SUFFICES ASSUME phase = "done", NEW r \in Requests
               PROVE  /\ output[r].prompt_ids = reqs[r].prompt_ids
                      /\ Real(r) => output[r].response_ids = reqs[r].row.response_ids
                      /\ ~ Real(r) => \A i \in DOMAIN output[r].loss_mask : ~ output[r].loss_mask[i]
  BY DEF RowsMatchPrompts
<1>2. output[r].prompt_ids = reqs[r].prompt_ids
  BY <1>1, RowsFollow
<1>3. Real(r) => output[r].response_ids = reqs[r].row.response_ids
  BY <1>1, RowsFollow
<1>4. ASSUME ~ Real(r), NEW i \in DOMAIN output[r].loss_mask PROVE ~ output[r].loss_mask[i]
  <2>1. output[r].loss_mask = Repeat(FALSE, ResponseLength)
    BY <1>1, <1>4, RowsFollow
  <2>2. \A j \in DOMAIN Repeat(FALSE, ResponseLength) : ~ Repeat(FALSE, ResponseLength)[j]
    BY DEF Repeat
  <2>. QED  BY <1>4, <2>1, <2>2, Zenon
<1>. QED  BY <1>2, <1>3, <1>4

(* Whatever the requests do and however many are cancelled, the batch has   *)
(* target_completion real rows, a row of its own for every prompt, and no   *)
(* tools are left but those of cancelled requests (_req_level_generate_     *)
(* sequences with run_with_cancellation).                                   *)
THEOREM BatchStaysComplete == RolloutSpec => []BatchIsComplete
<1>1. RolloutInv => BatchIsComplete
  <2>1. RolloutInv => OnlyAbortedKeepTools
    BY RowsFollow DEF RolloutInv, OnlyAbortedKeepTools
  <2>. QED  BY <2>1, TypesFollow, EnoughFollow, PromptsFollow DEF BatchIsComplete
<1>. QED  BY RolloutInvariance, <1>1, PTL

(* Every call of the engine leaves room for a token and its end, and no     *)
(* request fails in finalize for its finish reason, whichever of its turns  *)
(* ran out (_handle_engine_call, _async_rollout_a_request).                 *)
THEOREM CallsStayAccepted == RolloutSpec => []CallsAreAccepted
<1>1. RolloutInv => CallsAreAccepted
  BY DEF RolloutInv, RequestOK, TurnsOK, CallsOK, CallOK, CallsAreAccepted, EngineCallsFit, FinalizeAccepts
<1>. QED  BY RolloutInvariance, <1>1, PTL

\* No tool answers with a text when it is created.
NoCreateText == \A c \in Configs : ~ c.create_text

LEMMA SentencesFollow ==
    ASSUME RolloutInv, NoCreateText
    PROVE  WholeSentences
<1>1. SUFFICES ASSUME phase = "done", NEW r \in Requests, Real(r), NEW k \in DOMAIN reqs[r].calls
               PROVE  Comparable(output[r].prompt_ids \o output[r].response_ids,
                                 reqs[r].calls[k].input \o reqs[r].calls[k].answer)
  BY DEF WholeSentences
<1>. DEFINE q == reqs[r]
            ids == q.prompt_ids \o q.row.response_ids
            said == q.calls[k].input \o q.calls[k].answer
<1>2. RequestOK(q, config) /\ q \in Request /\ q.at = "returned" /\ ~ config.create_text
  BY <1>1 DEF RolloutInv, Real, NoCreateText
<1>3. output[r].prompt_ids = q.prompt_ids /\ output[r].response_ids = q.row.response_ids
  BY <1>1, RowsFollow
<1>4. /\ q.prompt_ids \in Seq(Token) /\ q.row.response_ids \in Seq(Token) /\ q.input_ids \in Seq(Token)
      /\ q.calls \in Seq(EngineCall)
  BY <1>2, RequestFields DEF Row
<1>5. q.calls[k] \in EngineCall /\ q.calls # <<>>
  BY <1>1, <1>4
<1>6. ids \in Seq(Token) /\ said \in Seq(Token)
  BY <1>4, <1>5, ConcatProperties DEF EngineCall
<1>7. Begins(q.input_ids, ids)
  BY <1>2, <1>5 DEF RequestOK, RowOK
<1>8. Begins(q.input_ids, said)
  BY <1>1, <1>2 DEF RequestOK, CallsOK, CallOK
<1>. HIDE DEF ids, said
<1>9. Comparable(ids, said)
  BY <1>4, <1>6, <1>7, <1>8, BeginningsCompare
<1>. QED  BY <1>3, <1>9 DEF ids, said

LEMMA LossFollows ==
    ASSUME RolloutInv
    PROVE  LossOnAnswersOnly
<1>1. SUFFICES ASSUME phase = "done", NEW r \in Requests, Real(r)
               PROVE  LET ids == output[r].response_ids
                          loss == output[r].loss_mask
                      IN  /\ Len(loss) = Len(ids)
                          /\ \A i \in DOMAIN ids :
                              /\ ids[i][1] = "answer" => loss[i]
                              /\ ids[i][1] \in {"prompt", "generation_prompt", "create", "tool", "user"} => ~ loss[i]
  BY DEF LossOnAnswersOnly
<1>. DEFINE ids == output[r].response_ids
            loss == output[r].loss_mask
<1>2. RequestOK(reqs[r], config) /\ reqs[r] \in Request /\ reqs[r].at = "returned"
  BY <1>1 DEF RolloutInv, Real
<1>3. ids = reqs[r].row.response_ids /\ loss = reqs[r].row.loss_mask
  BY <1>1, RowsFollow
<1>4. Fits(reqs[r].row.response_ids, reqs[r].row.loss_mask) /\ reqs[r].row.response_ids \in Seq(Token)
  BY <1>2, RequestFields DEF RequestOK, RowOK, Row
<1>. HIDE DEF ids, loss
<1>5. Fits(ids, loss) /\ DOMAIN ids = 1 .. Len(ids)
  BY <1>3, <1>4
<1>6. Len(loss) = Len(ids) /\ \A i \in DOMAIN ids : MaskFits(ids[i], loss[i])
  BY <1>5 DEF Fits
<1>. QED  BY <1>6 DEF MaskFits, ids, loss

(* The tokens of a row read on as the engine read and answered them, turn   *)
(* by turn, and the loss is on its answers alone, if no tool of the run     *)
(* answers with a text when it is created: that text would go between the   *)
(* prompt a row is given and the conversation (_handle_pending_state,       *)
(* truncate_output_ids).                                                    *)
THEOREM RowsStayRight ==
    ASSUME NoCreateText
    PROVE  RolloutSpec => []RowsAreRight
<1>1. RolloutInv => RowsAreRight
  BY SentencesFollow, LossFollows DEF RowsAreRight
<1>. QED  BY RolloutInvariance, <1>1, PTL

-----------------------------------------------------------------------------
(***************************************************************************)
(* The weights of the turns, for rows of any length, any distances, any    *)
(* epsilon and any cap of at least 1.                                      *)
(***************************************************************************)
Positive == (Nat \ {0}) \X (Nat \ {0})
Zero == [i \in DOMAIN response_mask |-> <<0, 1>>]

\* The turns that ended before position u.
TurnsBefore(u) ==
    /\ \A k \in DOMAIN boundaries :
        /\ IsTurn(boundaries[k][1], boundaries[k][2])
        /\ 1 <= boundaries[k][1] /\ boundaries[k][2] < u
    /\ \A k \in 1 .. Len(boundaries) - 1 : boundaries[k][2] < boundaries[k + 1][1]

InTurn(i) == \E k \in DOMAIN boundaries : i \in boundaries[k][1] .. boundaries[k][2] - 1

\* The segment that is open, if one is.
Segment ==
    IF in_segment
    THEN /\ seg_start < t
         /\ \A i \in seg_start .. t - 1 : response_mask[i]
         /\ seg_start = 1 \/ ~ response_mask[seg_start - 1]
         /\ \A k \in DOMAIN boundaries : boundaries[k][2] < seg_start
    ELSE t = 1 \/ ~ response_mask[t - 1]

Scanned == pc = "scan" =>
    /\ TurnsBefore(t)
    /\ Segment
    /\ \A i \in 1 .. t - 1 : response_mask[i] => InTurn(i) \/ (in_segment /\ seg_start <= i)

Found == pc # "scan" =>
    /\ TurnsBefore(Len(response_mask) + 2)
    /\ \A i \in DOMAIN response_mask : response_mask[i] => InTurn(i)

Unweighed == /\ pc \in {"scan", "measure"} => d_values = <<>> /\ w_values = <<>> /\ cum_prod = One
             /\ pc \in {"measure", "weigh"} => weight_mask = Zero /\ boundaries # <<>>

Weighed == pc = "weigh" =>
    /\ d_values \in Seq(Nat \X (Nat \ {0}))
    /\ Len(d_values) = Len(boundaries)
    /\ Len(w_values) \in 1 .. Len(d_values)
    /\ cum_prod \in Positive
    /\ Same(cum_prod, Ratio(d_values[1], d_values[Len(w_values)]))
    /\ w_values \in Seq(Positive)
    /\ \A k \in DOMAIN w_values : AtMost(w_values[k], Cap)

OPDInv ==
    /\ OPDTypeOK
    /\ Scanned
    /\ Found
    /\ Unweighed
    /\ Weighed
    /\ WeightsAreRight

-----------------------------------------------------------------------------
(* Quotients *)

LEMMA Cancel ==
    ASSUME NEW q \in Nat \ {0}, NEW m \in Nat, NEW n \in Nat, q * m <= q * n
    PROVE  m <= n
<1>1. SUFFICES ASSUME n < m PROVE FALSE
  OBVIOUS
<1>2. PICK j \in Nat : m = n + 1 + j
  <2>1. m = n + 1 + (m - n - 1) /\ m - n - 1 \in Nat
    BY <1>1
  <2>. QED  BY <2>1
<1>3. q * m = q * n + q + q * j
  BY <1>2
<1>4. q * j \in Nat /\ q * n \in Nat
  BY <1>2
<1>. QED  BY <1>3, <1>4

LEMMA Telescopes ==
    ASSUME NEW p \in Nat, NEW q \in Nat, NEW a \in Nat, NEW b \in Nat,
           NEW c \in Nat, NEW d \in Nat, NEW e \in Nat, NEW f \in Nat,
           p * (b * c) = (a * d) * q
    PROVE  (p * (c * f)) * (b * e) = (a * f) * (q * (d * e))
<1>1. (p * (c * f)) * (b * e) = (p * (b * c)) * (f * e)
  OBVIOUS
<1>2. ((a * d) * q) * (f * e) = (a * f) * (q * (d * e))
  OBVIOUS
<1>. QED  BY <1>1, <1>2

LEMMA CapsAgree ==
    ASSUME NEW p \in Nat, NEW q \in Nat \ {0}, NEW x \in Nat, NEW y \in Nat \ {0},
           NEW c \in Nat, NEW d \in Nat, p * y = x * q, x * d <= c * y
    PROVE  p * d <= c * q
<1>. DEFINE m == p * d
            n == c * q
<1>1. m \in Nat /\ n \in Nat
  OBVIOUS
<1>2. y * (p * d) = (x * d) * q
  <2>1. y * (p * d) = (p * y) * d
    OBVIOUS
  <2>2. (x * q) * d = (x * d) * q
    OBVIOUS
  <2>. QED  BY <2>1, <2>2
<1>3. y * (c * q) = (c * y) * q
  OBVIOUS
<1>4. (x * d) * q <= (c * y) * q
  <2>1. PICK j \in Nat : c * y = x * d + j
    <3>1. c * y = x * d + (c * y - x * d) /\ c * y - x * d \in Nat
      OBVIOUS
    <3>. QED  BY <3>1
  <2>2. (x * d + j) * q = (x * d) * q + j * q
    OBVIOUS
  <2>3. j * q \in Nat /\ (x * d) * q \in Nat
    OBVIOUS
  <2>. QED  BY <2>1, <2>2, <2>3
<1>5. y * m <= y * n
  BY <1>2, <1>3, <1>4
<1>. QED  BY <1>1, <1>5, Cancel

LEMMA ShiftedIsPositive ==
    ASSUME NEW d \in Nat \X (Nat \ {0})
    PROVE  Shifted(d) \in Positive
<1>1. d[1] \in Nat /\ d[2] \in Nat \ {0} /\ Epsilon \in Nat \ {0}
  BY OPDAssumption
<1>2. Epsilon * d[2] \in Nat \ {0}
  BY <1>1
<1>. QED  BY <1>1, <1>2 DEF Shifted, Positive

LEMMA ProductIsPositive ==
    ASSUME NEW m \in Nat \ {0}, NEW n \in Nat \ {0}
    PROVE  m * n \in Nat \ {0}
  OBVIOUS

\* The quotient of two distances is positive, and a distance with itself gives 1.
LEMMA RatioFacts ==
    ASSUME NEW d \in Nat \X (Nat \ {0}), NEW e \in Nat \X (Nat \ {0})
    PROVE  Ratio(d, e) \in Positive /\ Same(One, Ratio(d, d))
<1>1. Shifted(d) \in Positive /\ Shifted(e) \in Positive
  BY ShiftedIsPositive
<1>2. PICK a \in Nat \ {0}, b \in Nat \ {0} : Shifted(d) = <<a, b>>
  BY <1>1 DEF Positive
<1>3. PICK g \in Nat \ {0}, h \in Nat \ {0} : Shifted(e) = <<g, h>>
  BY <1>1 DEF Positive
<1>4. Ratio(d, e) = <<a * h, b * g>> /\ Ratio(d, d) = <<a * b, b * a>>
  BY <1>2, <1>3 DEF Ratio
<1>5. a * h \in Nat \ {0} /\ b * g \in Nat \ {0}
  BY ProductIsPositive
<1>6. 1 * (b * a) = (a * b) * 1
  OBVIOUS
<1>. QED  BY <1>4, <1>5, <1>6 DEF Positive, Same, One

\* The product of all ratios so far is the first distance over the next one.
LEMMA ProductTelescopes ==
    ASSUME NEW p \in Positive, NEW d \in Nat \X (Nat \ {0}), NEW e \in Nat \X (Nat \ {0}),
           NEW f \in Nat \X (Nat \ {0}), Same(p, Ratio(d, e))
    PROVE  /\ Times(p, Ratio(e, f)) \in Positive
           /\ Same(Times(p, Ratio(e, f)), Ratio(d, f))
<1>1. /\ Shifted(d) \in Positive /\ Shifted(e) \in Positive /\ Shifted(f) \in Positive
      /\ Ratio(e, f) \in Positive
  BY ShiftedIsPositive, RatioFacts
<1>2. PICK a \in Nat \ {0}, b \in Nat \ {0} : Shifted(d) = <<a, b>>
  BY <1>1 DEF Positive
<1>3. PICK g \in Nat \ {0}, h \in Nat \ {0} : Shifted(e) = <<g, h>>
  BY <1>1 DEF Positive
<1>4. PICK x \in Nat \ {0}, y \in Nat \ {0} : Shifted(f) = <<x, y>>
  BY <1>1 DEF Positive
<1>5. PICK m \in Nat \ {0}, n \in Nat \ {0} : p = <<m, n>>
  BY DEF Positive
<1>6. /\ Ratio(d, e) = <<a * h, b * g>>
      /\ Ratio(e, f) = <<g * y, h * x>>
      /\ Ratio(d, f) = <<a * y, b * x>>
  BY <1>2, <1>3, <1>4 DEF Ratio
<1>7. Times(p, Ratio(e, f)) = <<m * (g * y), n * (h * x)>>
  BY <1>5, <1>6 DEF Times
<1>8. m * (g * y) \in Nat \ {0} /\ n * (h * x) \in Nat \ {0}
  <2>1. g * y \in Nat \ {0} /\ h * x \in Nat \ {0}
    BY ProductIsPositive
  <2>. QED  BY <2>1, ProductIsPositive
<1>9. m * (b * g) = (a * h) * n
  BY <1>5, <1>6 DEF Same
<1>10. (m * (g * y)) * (b * x) = (a * y) * (n * (h * x))
  BY <1>9, Telescopes
<1>11. Times(p, Ratio(e, f)) \in Positive
  BY <1>7, <1>8 DEF Positive
<1>12. Same(Times(p, Ratio(e, f)), Ratio(d, f))
  <2>. DEFINE v == m * (g * y)
              w == n * (h * x)
              z == a * y
              r == b * x
  <2>1. Times(p, Ratio(e, f)) = <<v, w>> /\ Ratio(d, f) = <<z, r>> /\ v * r = z * w
    BY <1>6, <1>7, <1>10
  <2>. HIDE DEF v, w, z, r
  <2>. QED  BY <2>1 DEF Same
<1>. QED  BY <1>11, <1>12

\* What exceeds the cap exceeds it also as another pair for the same number.
LEMMA SameAboveCap ==
    ASSUME NEW p \in Positive, NEW r \in Positive, Same(p, r), ~ AtMost(p, Cap)
    PROVE  ~ AtMost(r, Cap)
<1>1. PICK m \in Nat \ {0}, n \in Nat \ {0} : p = <<m, n>>
  BY DEF Positive
<1>2. PICK x \in Nat \ {0}, y \in Nat \ {0} : r = <<x, y>>
  BY DEF Positive
<1>3. Cap[1] \in Nat /\ Cap[2] \in Nat
  BY OPDAssumption
<1>4. m * y = x * n /\ ~ (m * Cap[2] <= Cap[1] * n)
  BY <1>1, <1>2 DEF Same, AtMost
<1>5. SUFFICES ASSUME x * Cap[2] <= Cap[1] * y PROVE FALSE
  BY <1>2 DEF AtMost
<1>. QED  BY <1>3, <1>4, <1>5, CapsAgree

LEMMA CappedFacts ==
    ASSUME NEW p \in Positive
    PROVE  /\ Capped(p) \in Positive /\ AtMost(Capped(p), Cap)
           /\ Capped(p) = p \/ (Capped(p) = Cap /\ ~ AtMost(p, Cap))
<1>1. Cap \in Positive
  BY OPDAssumption DEF Positive
<1>2. AtMost(Cap, Cap)
  BY OPDAssumption DEF AtMost
<1>. QED  BY <1>1, <1>2 DEF Capped, Lesser

LEMMA OneIsWithin == One \in Positive /\ AtMost(One, Cap)
  BY OPDAssumption DEF One, AtMost, Positive

-----------------------------------------------------------------------------
(* The mean distance of a turn *)

LEMMA MeanFacts ==
    ASSUME NEW s \in Nat, NEW e \in Nat, s < e
    PROVE  <<Sum(s .. e - 1), Cardinality(s .. e - 1)>> \in Nat \X (Nat \ {0})
<1>. DEFINE turn == s .. e - 1
            units == 1 .. MaxDiff
            counted == {p \in turn \X units : p[2] <= abs_logprob_diff[p[1]]}
<1>1. IsFiniteSet(turn) /\ IsFiniteSet(units) /\ MaxDiff \in Nat
  <2>1. s \in Int /\ e - 1 \in Int /\ 1 \in Int /\ MaxDiff \in Int /\ MaxDiff \in Nat
    BY OPDAssumption
  <2>2. IsFiniteSet(s .. e - 1)
    BY <2>1, FS_Interval
  <2>3. IsFiniteSet(1 .. MaxDiff)
    BY <2>1, FS_Interval
  <2>. QED  BY <2>1, <2>2, <2>3
<1>2. IsFiniteSet(turn \X units)
  BY <1>1, FS_Product, Zenon
<1>3. counted \subseteq turn \X units
  OBVIOUS
<1>4. IsFiniteSet(counted)
  BY <1>2, <1>3, FS_Subset
<1>5. Cardinality(counted) \in Nat /\ Cardinality(turn) \in Nat
  BY <1>1, <1>4, FS_CardinalityType
<1>6. Cardinality(turn) # 0
  <2>1. s \in turn
    OBVIOUS
  <2>. QED  BY <2>1, <1>1, FS_EmptySet
<1>7. Sum(turn) = Cardinality(counted)
  BY DEF Sum
<1>. HIDE DEF turn, counted
<1>8. <<Sum(turn), Cardinality(turn)>> \in Nat \X (Nat \ {0})
  BY <1>5, <1>6, <1>7
<1>. QED  BY <1>8 DEF turn

-----------------------------------------------------------------------------
(* The invariant *)

LEMMA InitInv == OPDInit => OPDInv
<1>. SUFFICES ASSUME OPDInit PROVE OPDInv
  OBVIOUS
<1>1. response_mask \in Seq(BOOLEAN) /\ Len(response_mask) \in Nat
  BY OPDAssumption DEF OPDInit
<1>2. abs_logprob_diff \in [DOMAIN response_mask -> Nat]
  <2>1. Diffs \subseteq Nat
    BY OPDAssumption
  <2>2. abs_logprob_diff \in [DOMAIN response_mask -> Diffs]
    BY DEF OPDInit
  <2>. QED  BY <2>1, <2>2
<1>3. OPDTypeOK
  <2>1. <<>> \in Seq(Nat \X Nat) /\ One \in Nat \X Nat
    BY DEF One
  <2>2. t = 1 /\ seg_start = 1 /\ 1 \in 1 .. Len(response_mask) + 1
    BY <1>1 DEF OPDInit
  <2>. QED  BY <1>1, <1>2, <2>1, <2>2 DEF OPDInit, OPDTypeOK
<1>4. Scanned
  <2>1. TurnsBefore(t)
    BY DEF OPDInit, TurnsBefore
  <2>. QED  BY <2>1 DEF OPDInit, Scanned, Segment
<1>5. Found /\ Unweighed /\ Weighed /\ WeightsAreRight
  BY DEF OPDInit, Found, Unweighed, Weighed, WeightsAreRight, WeightsCompareWithFirst, WeightsAreBounded
<1>. QED  BY <1>3, <1>4, <1>5 DEF OPDInv

\* While no turn is weighed, the parts about weights say nothing.
LEMMA NoWeights ==
    ASSUME w_values = <<>>, pc # "done"
    PROVE  WeightsAreRight
  BY DEF WeightsAreRight, WeightsCompareWithFirst, WeightsAreBounded

\* A turn that ends at u, after all others, is one more turn.
LEMMA OneMoreTurn ==
    ASSUME boundaries \in Seq(Nat \X Nat), NEW u \in Nat, TurnsBefore(u),
           NEW s \in Nat, 1 <= s, IsTurn(s, u), \A k \in DOMAIN boundaries : boundaries[k][2] < s,
           boundaries' = Append(boundaries, <<s, u>>), UNCHANGED response_mask
    PROVE  /\ \A v \in Nat : u < v => TurnsBefore(v)'
           /\ \A i \in Nat : InTurn(i) => InTurn(i)'
           /\ \A i \in s .. u - 1 : InTurn(i)'
<1>. DEFINE n == Len(boundaries)
<1>1. n \in Nat /\ DOMAIN boundaries = 1 .. n
  OBVIOUS
<1>2. /\ Len(boundaries') = n + 1 /\ DOMAIN boundaries' = 1 .. n + 1
      /\ \A k \in 1 .. n : boundaries'[k] = boundaries[k]
      /\ boundaries'[n + 1] = <<s, u>>
  OBVIOUS
<1>3. \A k \in 1 .. n : boundaries[k] \in Nat \X Nat
  BY <1>1
<1>. HIDE DEF n
<1>4. \A k \in 1 .. n :
        /\ IsTurn(boundaries[k][1], boundaries[k][2])
        /\ 1 <= boundaries[k][1] /\ boundaries[k][2] < u /\ boundaries[k][2] < s
  BY <1>1 DEF TurnsBefore
<1>5. ASSUME NEW v \in Nat, u < v, NEW k \in 1 .. n + 1
      PROVE  /\ IsTurn(boundaries[k][1], boundaries[k][2])'
             /\ 1 <= boundaries'[k][1] /\ boundaries'[k][2] < v
  <2>1. CASE k \in 1 .. n
    <3>1. boundaries[k][2] < v
      BY <1>3, <1>4, <1>5, <2>1
    <3>. QED  BY <1>2, <1>4, <2>1, <3>1 DEF IsTurn
  <2>2. CASE k = n + 1
    BY <1>2, <1>5, <2>2 DEF IsTurn
  <2>. QED  BY <1>1, <2>1, <2>2
<1>6. ASSUME NEW k \in 1 .. n PROVE boundaries'[k][2] < boundaries'[k + 1][1]
  <2>1. CASE k = n
    BY <1>2, <1>4, <2>1
  <2>2. CASE k # n
    <3>1. k \in 1 .. n - 1 /\ k + 1 \in 1 .. n
      BY <1>1, <2>2
    <3>2. boundaries[k][2] < boundaries[k + 1][1]
      BY <3>1 DEF TurnsBefore, n
    <3>. QED  BY <1>2, <3>1, <3>2
  <2>. QED  BY <2>1, <2>2
<1>7. ASSUME NEW v \in Nat, u < v PROVE TurnsBefore(v)'
  <2>1. Len(boundaries') - 1 = n
    BY <1>1, <1>2
  <2>. QED  BY <1>2, <1>5, <1>6, <1>7, <2>1 DEF TurnsBefore
<1>8. ASSUME NEW i \in Nat, InTurn(i) PROVE InTurn(i)'
  <2>1. PICK k \in 1 .. n : i \in boundaries[k][1] .. boundaries[k][2] - 1
    BY <1>1, <1>8 DEF InTurn
  <2>2. k \in 1 .. n + 1
    BY <1>1
  <2>. QED  BY <1>2, <2>1, <2>2 DEF InTurn
<1>9. ASSUME NEW i \in s .. u - 1 PROVE InTurn(i)'
  <2>1. n + 1 \in 1 .. n + 1 /\ i \in boundaries'[n + 1][1] .. boundaries'[n + 1][2] - 1
    BY <1>1, <1>2
  <2>. QED  BY <1>2, <2>1 DEF InTurn
<1>. QED  BY <1>7, <1>8, <1>9

LEMMA ScanInv == OPDInv /\ Scan => OPDInv'
<1>. SUFFICES ASSUME OPDInv, Scan PROVE OPDInv'
  OBVIOUS
<1>. DEFINE n == Len(response_mask)
<1>1. n \in Nat /\ DOMAIN response_mask = 1 .. n /\ response_mask \in Seq(BOOLEAN)
  BY DEF OPDInv, OPDTypeOK
<1>2. /\ pc = "scan" /\ pc' = "scan" /\ t \in 1 .. n /\ t' = t + 1
      /\ UNCHANGED <<sample, d_values, cum_prod, w_values, weight_mask>>
  BY <1>1 DEF OPDInv, OPDTypeOK, Scan
<1>3. UNCHANGED <<response_mask, abs_logprob_diff>>
  BY <1>2 DEF sample
<1>4. /\ in_segment \in BOOLEAN /\ seg_start \in 1 .. n + 1 /\ boundaries \in Seq(Nat \X Nat)
      /\ response_mask[t] \in BOOLEAN
  BY <1>1, <1>2 DEF OPDInv, OPDTypeOK
<1>5. /\ TurnsBefore(t) /\ Segment
      /\ \A i \in 1 .. t - 1 : response_mask[i] => InTurn(i) \/ (in_segment /\ seg_start <= i)
  BY <1>2 DEF OPDInv, Scanned
<1>6. d_values = <<>> /\ w_values = <<>> /\ cum_prod = One
  BY <1>2 DEF OPDInv, Unweighed
<1>7. Found' /\ Unweighed' /\ Weighed' /\ WeightsAreRight'
  BY <1>2, <1>6 DEF Found, Unweighed, Weighed, WeightsAreRight, WeightsCompareWithFirst, WeightsAreBounded
\* What holds if the turns stay as they are.
<1>8. ASSUME UNCHANGED boundaries
      PROVE  TurnsBefore(t)' /\ \A i \in Nat : InTurn(i) => InTurn(i)'
  <2>1. \A k \in DOMAIN boundaries : boundaries[k] \in Nat \X Nat
    BY <1>4
  <2>2. \A k \in DOMAIN boundaries : boundaries[k][2] < t + 1
    BY <1>2, <1>5, <2>1 DEF TurnsBefore
  <2>. QED  BY <1>2, <1>3, <1>5, <1>8, <2>2 DEF TurnsBefore, IsTurn, InTurn
<1>9. CASE response_mask[t] /\ ~ in_segment
  <2>1. seg_start' = t /\ in_segment' /\ in_segment' \in BOOLEAN /\ boundaries' = boundaries
    BY <1>4, <1>9 DEF Scan, Opens, Closes
  <2>2. OPDTypeOK'
    BY <1>1, <1>2, <1>3, <2>1 DEF OPDInv, OPDTypeOK
  <2>3. Segment'
    <3>1. t = 1 \/ ~ response_mask[t - 1]
      BY <1>5, <1>9 DEF Segment
    <3>2. \A i \in t .. t + 1 - 1 : response_mask[i]
      BY <1>2, <1>9
    <3>3. \A k \in DOMAIN boundaries : boundaries[k][2] < t
      BY <1>5 DEF TurnsBefore
    <3>4. t < t + 1
      BY <1>2
    <3>. QED  BY <1>2, <1>3, <2>1, <3>1, <3>2, <3>3, <3>4 DEF Segment
  <2>4. ASSUME NEW i \in 1 .. t, response_mask[i]
        PROVE  InTurn(i)' \/ t <= i
    <3>1. CASE i = t
      BY <3>1
    <3>2. CASE i # t
      <4>1. i \in 1 .. t - 1 /\ i \in Nat
        BY <1>2, <3>2
      <4>. QED  BY <1>5, <1>8, <1>9, <2>1, <2>4, <4>1
    <3>. QED  BY <3>1, <3>2
  <2>5. Scanned'
    <3>1. t + 1 - 1 = t
      BY <1>2
    <3>. QED  BY <1>2, <1>3, <1>8, <2>1, <2>3, <2>4, <3>1 DEF Scanned
  <2>. QED  BY <1>7, <2>2, <2>5 DEF OPDInv
<1>10. CASE ~ response_mask[t] /\ in_segment
  <2>1. /\ seg_start' = seg_start /\ ~ in_segment' /\ in_segment' \in BOOLEAN
        /\ boundaries' = Append(boundaries, <<seg_start, t>>)
    BY <1>4, <1>10 DEF Scan, Opens, Closes
  <2>2. OPDTypeOK'
    <3>1. <<seg_start, t>> \in Nat \X Nat
      BY <1>2, <1>4
    <3>2. boundaries' \in Seq(Nat \X Nat)
      BY <1>4, <2>1, <3>1
    <3>. QED  BY <1>1, <1>2, <1>3, <2>1, <3>2 DEF OPDInv, OPDTypeOK
  <2>3. /\ seg_start < t /\ \A k \in DOMAIN boundaries : boundaries[k][2] < seg_start
        /\ IsTurn(seg_start, t)
    BY <1>5, <1>10 DEF Segment, IsTurn
  <2>4. /\ TurnsBefore(t)'
        /\ \A i \in Nat : InTurn(i) => InTurn(i)'
        /\ \A i \in seg_start .. t - 1 : InTurn(i)'
    <3>1. PICK u \in Nat : u = t
      BY <1>2
    <3>2. PICK s \in Nat : s = seg_start /\ 1 <= s
      BY <1>4
    <3>3. /\ \A v \in Nat : u < v => TurnsBefore(v)'
          /\ \A i \in Nat : InTurn(i) => InTurn(i)'
          /\ \A i \in s .. u - 1 : InTurn(i)'
      BY <1>3, <1>4, <1>5, <2>1, <2>3, <3>1, <3>2, OneMoreTurn
    <3>4. t' \in Nat /\ u < t'
      BY <1>2, <3>1
    <3>5. TurnsBefore(t)'
      BY <3>3, <3>4
    <3>. QED  BY <3>1, <3>2, <3>3, <3>5
  <2>5. ASSUME NEW i \in 1 .. t, response_mask[i]
        PROVE  InTurn(i)'
    <3>1. i \in 1 .. t - 1 /\ i \in Nat
      BY <1>2, <1>10, <2>5
    <3>2. CASE InTurn(i)
      BY <2>4, <3>1, <3>2
    <3>3. CASE seg_start <= i
      <4>1. i \in seg_start .. t - 1
        BY <1>4, <3>1, <3>3
      <4>. QED  BY <2>4, <4>1
    <3>. QED  BY <1>5, <2>5, <3>1, <3>2, <3>3
  <2>6. Segment'
    <3>1. t + 1 - 1 = t
      BY <1>2
    <3>. QED  BY <1>2, <1>3, <1>10, <2>1, <3>1 DEF Segment
  <2>7. Scanned'
    <3>1. t + 1 - 1 = t
      BY <1>2
    <3>. QED  BY <1>2, <1>3, <2>1, <2>4, <2>5, <2>6, <3>1 DEF Scanned
  <2>. QED  BY <1>7, <2>2, <2>7 DEF OPDInv
<1>11. CASE response_mask[t] = in_segment
  <2>1. seg_start' = seg_start /\ in_segment' = in_segment /\ boundaries' = boundaries
    BY <1>4, <1>11 DEF Scan, Opens, Closes
  <2>2. OPDTypeOK'
    BY <1>1, <1>2, <1>3, <2>1 DEF OPDInv, OPDTypeOK
  <2>3. t + 1 - 1 = t
    BY <1>2
  <2>4. Segment'
    <3>1. CASE in_segment
      <4>1. seg_start < t + 1
        BY <1>2, <1>4, <1>5, <3>1 DEF Segment
      <4>2. ASSUME NEW i \in seg_start .. t PROVE response_mask[i]
        <5>1. CASE i = t
          BY <1>11, <3>1, <5>1
        <5>2. CASE i # t
          <6>1. i \in seg_start .. t - 1
            BY <1>2, <1>4, <5>2
          <6>. QED  BY <1>5, <3>1, <6>1 DEF Segment
        <5>. QED  BY <5>1, <5>2
      <4>3. /\ seg_start = 1 \/ ~ response_mask[seg_start - 1]
            /\ \A k \in DOMAIN boundaries : boundaries[k][2] < seg_start
        BY <1>5, <3>1 DEF Segment
      <4>. QED  BY <1>2, <1>3, <2>1, <2>3, <3>1, <4>1, <4>2, <4>3 DEF Segment
    <3>2. CASE ~ in_segment
      BY <1>2, <1>3, <1>11, <2>1, <2>3, <3>2 DEF Segment
    <3>. QED  BY <3>1, <3>2
  <2>5. ASSUME NEW i \in 1 .. t, response_mask[i]
        PROVE  InTurn(i)' \/ (in_segment /\ seg_start <= i)
    <3>1. CASE i = t
      <4>1. in_segment
        BY <1>11, <2>5, <3>1
      <4>2. seg_start < t
        BY <1>5, <4>1 DEF Segment
      <4>. QED  BY <1>2, <1>4, <3>1, <4>1, <4>2
    <3>2. CASE i # t
      <4>1. i \in 1 .. t - 1 /\ i \in Nat
        BY <1>2, <3>2
      <4>. QED  BY <1>5, <1>8, <2>1, <2>5, <4>1
    <3>. QED  BY <3>1, <3>2
  <2>6. Scanned'
    BY <1>2, <1>3, <1>8, <2>1, <2>3, <2>4, <2>5 DEF Scanned
  <2>. QED  BY <1>7, <2>2, <2>6 DEF OPDInv
<1>. QED  BY <1>4, <1>9, <1>10, <1>11

LEMMA EndScanInv == OPDInv /\ EndScan => OPDInv'
<1>. SUFFICES ASSUME OPDInv, EndScan PROVE OPDInv'
  OBVIOUS
<1>. DEFINE n == Len(response_mask)
<1>1. n \in Nat /\ DOMAIN response_mask = 1 .. n /\ response_mask \in Seq(BOOLEAN)
  BY DEF OPDInv, OPDTypeOK
<1>2. /\ pc = "scan" /\ pc' \in {"measure", "done"} /\ t = n + 1 /\ t \in Nat
      /\ pc' = IF boundaries' = <<>> THEN "done" ELSE "measure"
      /\ weight_mask' = Zero
      /\ UNCHANGED <<response_mask, abs_logprob_diff, t, in_segment, seg_start, d_values, cum_prod, w_values>>
  BY <1>1 DEF OPDInv, OPDTypeOK, EndScan, Zero, sample
<1>3. in_segment \in BOOLEAN /\ seg_start \in 1 .. n + 1 /\ boundaries \in Seq(Nat \X Nat)
  BY <1>1 DEF OPDInv, OPDTypeOK
<1>4. /\ TurnsBefore(t) /\ Segment
      /\ \A i \in 1 .. t - 1 : response_mask[i] => InTurn(i) \/ (in_segment /\ seg_start <= i)
  BY <1>2 DEF OPDInv, Scanned
<1>5. d_values = <<>> /\ w_values = <<>> /\ cum_prod = One
  BY <1>2 DEF OPDInv, Unweighed
<1>6. t - 1 = n /\ t < n + 2
  BY <1>1, <1>2
<1>7. /\ boundaries' \in Seq(Nat \X Nat)
      /\ TurnsBefore(n + 2)'
      /\ \A i \in 1 .. n : response_mask[i] => InTurn(i)'
  <2>1. CASE in_segment
    <3>1. boundaries' = Append(boundaries, <<seg_start, t>>)
      BY <2>1 DEF EndScan
    <3>2. <<seg_start, t>> \in Nat \X Nat /\ seg_start \in Nat /\ 1 <= seg_start /\ n + 2 \in Nat
      BY <1>1, <1>2, <1>3
    <3>3. /\ \A k \in DOMAIN boundaries : boundaries[k][2] < seg_start
          /\ IsTurn(seg_start, t)
      BY <1>2, <1>4, <2>1 DEF Segment, IsTurn
    <3>4. /\ TurnsBefore(n + 2)'
          /\ \A i \in Nat : InTurn(i) => InTurn(i)'
          /\ \A i \in seg_start .. t - 1 : InTurn(i)'
      <4>1. PICK u \in Nat : u = t
        BY <1>2
      <4>2. PICK s \in Nat : s = seg_start /\ 1 <= s
        BY <3>2
      <4>3. /\ \A v \in Nat : u < v => TurnsBefore(v)'
            /\ \A i \in Nat : InTurn(i) => InTurn(i)'
            /\ \A i \in s .. u - 1 : InTurn(i)'
        BY <1>2, <1>3, <1>4, <3>1, <3>3, <4>1, <4>2, OneMoreTurn
      <4>4. (n + 2)' \in Nat /\ u < (n + 2)'
        BY <1>1, <1>2, <1>6, <4>1
      <4>5. TurnsBefore(n + 2)'
        BY <4>3, <4>4
      <4>. QED  BY <4>1, <4>2, <4>3, <4>5
    <3>5. ASSUME NEW i \in 1 .. n, response_mask[i] PROVE InTurn(i)'
      <4>1. i \in Nat /\ i \in 1 .. t - 1
        BY <1>6
      <4>2. CASE InTurn(i)
        BY <3>4, <4>1, <4>2
      <4>3. CASE seg_start <= i
        <5>1. i \in seg_start .. t - 1
          BY <1>3, <4>1, <4>3
        <5>. QED  BY <3>4, <5>1
      <4>. QED  BY <1>4, <3>5, <4>1, <4>2, <4>3
    <3>6. boundaries' \in Seq(Nat \X Nat)
      BY <1>3, <3>1, <3>2
    <3>. QED  BY <3>4, <3>5, <3>6
  <2>2. CASE ~ in_segment
    <3>1. boundaries' = boundaries
      BY <2>2 DEF EndScan
    <3>2. \A k \in DOMAIN boundaries : boundaries[k] \in Nat \X Nat
      BY <1>3
    <3>3. \A k \in DOMAIN boundaries : boundaries[k][2] < n + 2
      BY <1>1, <1>2, <1>4, <1>6, <3>2 DEF TurnsBefore
    <3>4. TurnsBefore(n + 2)'
      BY <1>2, <1>4, <3>1, <3>3 DEF TurnsBefore, IsTurn
    <3>5. \A i \in 1 .. n : response_mask[i] => InTurn(i)'
      BY <1>4, <1>6, <2>2, <3>1 DEF InTurn
    <3>. QED  BY <1>3, <3>1, <3>4, <3>5
  <2>. QED  BY <1>3, <2>1, <2>2
<1>8. OPDTypeOK'
  BY <1>2, <1>3, <1>7 DEF OPDInv, OPDTypeOK
<1>9. Found'
  BY <1>1, <1>2, <1>7 DEF Found
<1>10. Scanned' /\ Unweighed' /\ Weighed'
  BY <1>2, <1>5 DEF Scanned, Unweighed, Weighed, Zero
<1>11. WeightsAreRight'
  <2>1. WeightsCompareWithFirst'
    BY <1>2, <1>5 DEF WeightsCompareWithFirst
  <2>2. ASSUME pc' = "done", NEW i \in 1 .. n
        PROVE  weight_mask'[i] = <<0, 1>> /\ ~ response_mask[i]
    <3>1. boundaries' = <<>>
      BY <1>2, <2>2
    <3>2. ~ InTurn(i)'
      BY <3>1 DEF InTurn
    <3>. QED  BY <1>1, <1>2, <1>7, <3>2 DEF Zero
  <2>3. WeightsAreBounded'
    BY <1>1, <1>2, <2>2 DEF WeightsAreBounded
  <2>. QED  BY <2>1, <2>3 DEF WeightsAreRight
<1>. QED  BY <1>8, <1>9, <1>10, <1>11 DEF OPDInv

\* The turns stay the turns while the sample and the boundaries do.
LEMMA TurnsStay ==
    ASSUME UNCHANGED <<sample, scan>>, Found, pc # "scan", pc' # "scan"
    PROVE  Found' /\ Scanned'
<1>1. UNCHANGED <<response_mask, boundaries>>
  BY DEF sample, scan
<1>. QED  BY <1>1 DEF Found, Scanned, TurnsBefore, IsTurn, InTurn

LEMMA MeasureInv == OPDInv /\ Measure => OPDInv'
<1>. SUFFICES ASSUME OPDInv, Measure PROVE OPDInv'
  OBVIOUS
<1>1. /\ pc = "measure" /\ pc' = "weigh" /\ w_values' = <<One>>
      /\ UNCHANGED <<sample, scan, cum_prod, weight_mask>>
  BY DEF Measure
<1>2. /\ UNCHANGED <<response_mask, abs_logprob_diff, t, in_segment, seg_start, boundaries>>
  BY <1>1 DEF sample, scan
<1>3. boundaries \in Seq(Nat \X Nat) /\ cum_prod = One /\ weight_mask = Zero
  BY <1>1 DEF OPDInv, OPDTypeOK, Unweighed
<1>4. Found' /\ Scanned'
  BY <1>1, TurnsStay DEF OPDInv
<1>5. ASSUME NEW k \in DOMAIN boundaries
      PROVE  d_values'[k] \in Nat \X (Nat \ {0})
  <2>1. boundaries[k][1] \in Nat /\ boundaries[k][2] \in Nat /\ boundaries[k][1] < boundaries[k][2]
    BY <1>1, <1>3 DEF OPDInv, Found, TurnsBefore, IsTurn
  <2>. QED  BY <2>1, MeanFacts DEF Measure
<1>6. d_values' \in Seq(Nat \X (Nat \ {0})) /\ Len(d_values') = Len(boundaries)
  <2>1. Len(boundaries) \in Nat /\ DOMAIN boundaries = 1 .. Len(boundaries)
    BY <1>3
  <2>2. d_values' \in [1 .. Len(boundaries) -> Nat \X (Nat \ {0})]
    BY <1>5, <2>1 DEF Measure
  <2>. QED  BY <2>1, <2>2
<1>7. One \in Positive /\ AtMost(One, Cap)
  BY OneIsWithin
<1>8. Len(boundaries) \in Nat \ {0}
  BY <1>1, <1>3 DEF OPDInv, Unweighed
<1>9. OPDTypeOK'
  <2>1. d_values' \in Seq(Nat \X Nat)
    BY <1>6
  <2>2. w_values' \in Seq(Nat \X Nat)
    BY <1>1 DEF One
  <2>. QED  BY <1>1, <1>2, <2>1, <2>2 DEF OPDInv, OPDTypeOK
<1>10. Unweighed'
  BY <1>1, <1>2, <1>3 DEF OPDInv, Unweighed, Zero
<1>11. Weighed'
  <2>1. Len(w_values') = 1 /\ w_values'[1] = One /\ DOMAIN w_values' = {1} /\ w_values' \in Seq(Positive)
    BY <1>1, <1>7
  <2>2. 1 \in 1 .. Len(d_values')
    BY <1>6, <1>8
  <2>3. d_values'[1] \in Nat \X (Nat \ {0})
    BY <1>6, <2>2
  <2>4. Same(One, Ratio(d_values'[1], d_values'[1]))
    BY <2>3, RatioFacts
  <2>5. Same(cum_prod, Ratio(d_values[1], d_values[Len(w_values)]))'
    BY <1>1, <1>3, <2>1, <2>4 DEF Same, Ratio, Shifted
  <2>. QED  BY <1>1, <1>2, <1>3, <1>6, <1>7, <2>1, <2>2, <2>5 DEF Weighed
<1>12. WeightsAreRight'
  BY <1>1 DEF WeightsAreRight, WeightsCompareWithFirst, WeightsAreBounded
<1>. QED  BY <1>4, <1>9, <1>10, <1>11, <1>12 DEF OPDInv

LEMMA WeighInv == OPDInv /\ Weigh => OPDInv'
<1>. SUFFICES ASSUME OPDInv, Weigh PROVE OPDInv'
  OBVIOUS
<1>. DEFINE u == Len(w_values)
            product == Times(cum_prod, Ratio(d_values[u], d_values[u + 1]))
<1>1. /\ pc = "weigh" /\ pc' = "weigh" /\ u < Len(d_values)
      /\ cum_prod' = product /\ w_values' = Append(w_values, Capped(product))
      /\ UNCHANGED <<sample, scan, d_values, weight_mask>>
  BY DEF Weigh, Kept
<1>2. /\ UNCHANGED <<response_mask, abs_logprob_diff, t, in_segment, seg_start, boundaries>>
  BY <1>1 DEF sample, scan
<1>3. /\ d_values \in Seq(Nat \X (Nat \ {0})) /\ Len(d_values) = Len(boundaries)
      /\ Len(d_values) \in Nat /\ u \in 1 .. Len(d_values)
      /\ cum_prod \in Positive /\ Same(cum_prod, Ratio(d_values[1], d_values[u]))
      /\ w_values \in Seq(Positive)
      /\ \A k \in DOMAIN w_values : AtMost(w_values[k], Cap)
      /\ weight_mask = Zero
  BY <1>1 DEF OPDInv, Weighed, Unweighed
<1>4. /\ d_values[1] \in Nat \X (Nat \ {0})
      /\ d_values[u] \in Nat \X (Nat \ {0})
      /\ d_values[u + 1] \in Nat \X (Nat \ {0})
  <2>. HIDE DEF u
  <2>1. 1 \in 1 .. Len(d_values) /\ u + 1 \in 1 .. Len(d_values)
    BY <1>1, <1>3
  <2>. QED  BY <1>3, <2>1
<1>5. product \in Positive /\ Same(product, Ratio(d_values[1], d_values[u + 1]))
  <2>. HIDE DEF u
  <2>. QED  BY <1>3, <1>4, ProductTelescopes
<1>6. Ratio(d_values[1], d_values[u + 1]) \in Positive
  BY <1>4, RatioFacts
<1>. HIDE DEF product
<1>7. /\ Capped(product) \in Positive /\ AtMost(Capped(product), Cap)
      /\ Capped(product) = product \/ (Capped(product) = Cap /\ ~ AtMost(product, Cap))
  BY <1>5, CappedFacts
<1>8. /\ w_values' \in Seq(Positive) /\ Len(w_values') = u + 1 /\ DOMAIN w_values' = 1 .. u + 1
      /\ w_values'[u + 1] = Capped(product)
      /\ \A k \in 1 .. u : w_values'[k] = w_values[k]
      /\ DOMAIN w_values = 1 .. u
  BY <1>1, <1>3, <1>7
<1>. HIDE DEF u
<1>9. Found' /\ Scanned'
  BY <1>1, TurnsStay DEF OPDInv
<1>10. OPDTypeOK'
  <2>1. cum_prod' \in Nat \X Nat
    BY <1>1, <1>5 DEF Positive
  <2>2. w_values' \in Seq(Nat \X Nat)
    BY <1>8 DEF Positive
  <2>. QED  BY <1>1, <1>2, <2>1, <2>2 DEF OPDInv, OPDTypeOK
<1>11. Unweighed'
  BY <1>1, <1>2, <1>3 DEF OPDInv, Unweighed, Zero
<1>12. Weighed'
  <2>1. Len(w_values') \in 1 .. Len(d_values)
    BY <1>1, <1>3, <1>8
  <2>2. Same(cum_prod', Ratio(d_values[1], d_values[Len(w_values')]))
    BY <1>1, <1>5, <1>8
  <2>3. Same(cum_prod, Ratio(d_values[1], d_values[Len(w_values)]))'
    BY <1>1, <2>2 DEF Same, Ratio, Shifted
  <2>4. ASSUME NEW k \in 1 .. u + 1 PROVE AtMost(w_values'[k], Cap)
    <3>1. k \in 1 .. u \/ k = u + 1
      BY <1>3
    <3>. QED  BY <1>3, <1>7, <1>8, <3>1
  <2>. QED  BY <1>1, <1>2, <1>3, <1>5, <1>8, <2>1, <2>3, <2>4 DEF Weighed, AtMost
<1>13. WeightsAreRight'
  <2>1. ASSUME NEW k \in 1 .. u + 1, k > 1
        PROVE  \/ Same(w_values'[k], Ratio(d_values[1], d_values[k]))
               \/ w_values'[k] = Cap /\ ~ AtMost(Ratio(d_values[1], d_values[k]), Cap)
    <3>1. CASE k \in 1 .. u
      BY <1>8, <2>1, <3>1 DEF OPDInv, WeightsAreRight, WeightsCompareWithFirst
    <3>2. CASE k = u + 1
      <4>1. CASE Capped(product) = product
        BY <1>5, <1>8, <3>2, <4>1
      <4>2. CASE Capped(product) = Cap /\ ~ AtMost(product, Cap)
        <5>1. ~ AtMost(Ratio(d_values[1], d_values[u + 1]), Cap)
          BY <1>5, <1>6, <4>2, SameAboveCap
        <5>. QED  BY <1>8, <3>2, <4>2, <5>1
      <4>. QED  BY <1>7, <4>1, <4>2
    <3>. QED  BY <1>3, <3>1, <3>2
  <2>2. WeightsCompareWithFirst'
    BY <1>1, <1>8, <2>1 DEF WeightsCompareWithFirst, Same, Ratio, Shifted, AtMost
  <2>3. WeightsAreBounded'
    BY <1>1 DEF WeightsAreBounded
  <2>. QED  BY <2>2, <2>3 DEF WeightsAreRight
<1>. QED  BY <1>9, <1>10, <1>11, <1>12, <1>13 DEF OPDInv

LEMMA BroadcastInv == OPDInv /\ Broadcast => OPDInv'
<1>. SUFFICES ASSUME OPDInv, Broadcast PROVE OPDInv'
  OBVIOUS
<1>1. /\ pc = "weigh" /\ pc' = "done" /\ Len(w_values) = Len(d_values)
      /\ UNCHANGED <<sample, scan, d_values, cum_prod, w_values>>
  BY DEF Broadcast
<1>2. /\ UNCHANGED <<response_mask, abs_logprob_diff, t, in_segment, seg_start, boundaries>>
  BY <1>1 DEF sample, scan
<1>3. /\ Len(d_values) = Len(boundaries) /\ w_values \in Seq(Positive)
      /\ \A k \in DOMAIN w_values : AtMost(w_values[k], Cap)
      /\ weight_mask = Zero
  BY <1>1 DEF OPDInv, Weighed, Unweighed
<1>4. DOMAIN w_values = DOMAIN boundaries
  BY <1>1, <1>3 DEF OPDInv, OPDTypeOK
<1>5. Found' /\ Scanned'
  BY <1>1, TurnsStay DEF OPDInv
<1>6. OPDTypeOK'
  BY <1>1, <1>2 DEF OPDInv, OPDTypeOK
<1>7. Unweighed' /\ Weighed'
  BY <1>1 DEF Unweighed, Weighed
<1>8. WeightsCompareWithFirst'
  BY <1>1 DEF OPDInv, WeightsAreRight, WeightsCompareWithFirst, Same, Ratio, Shifted, AtMost
<1>9. ASSUME NEW i \in DOMAIN response_mask
      PROVE  /\ weight_mask'[i][2] > 0
             /\ IF response_mask[i] THEN weight_mask'[i][1] > 0 /\ AtMost(weight_mask'[i], Cap)
                ELSE weight_mask'[i][1] = 0
  <2>. DEFINE In(k) == i \in boundaries[k][1] .. boundaries[k][2] - 1
              pick == CHOOSE k \in DOMAIN boundaries : In(k)
  <2>1. weight_mask'[i] = IF \E k \in DOMAIN boundaries : In(k) THEN w_values[pick] ELSE weight_mask[i]
    BY DEF Broadcast
  <2>2. response_mask[i] <=> \E k \in DOMAIN boundaries : In(k)
    BY <1>1 DEF OPDInv, Found, TurnsBefore, IsTurn, InTurn
  <2>3. CASE response_mask[i]
    <3>1. pick \in DOMAIN boundaries
      BY <2>2, <2>3
    <3>2. weight_mask'[i] = w_values[pick]
      BY <2>1, <2>2, <2>3
    <3>. HIDE DEF pick
    <3>3. w_values[pick] \in Positive /\ AtMost(w_values[pick], Cap)
      BY <1>3, <1>4, <3>1
    <3>. QED  BY <2>3, <3>2, <3>3 DEF Positive
  <2>4. CASE ~ response_mask[i]
    <3>1. weight_mask'[i] = <<0, 1>>
      BY <1>3, <2>1, <2>2, <2>4 DEF Zero
    <3>. QED  BY <2>4, <3>1
  <2>. QED  BY <2>3, <2>4
<1>10. WeightsAreBounded'
  BY <1>1, <1>2, <1>9 DEF WeightsAreBounded, AtMost
<1>. QED  BY <1>5, <1>6, <1>7, <1>8, <1>10 DEF OPDInv, WeightsAreRight

LEMMA StutterInv == OPDInv /\ UNCHANGED opdVars => OPDInv'
<1>. SUFFICES ASSUME OPDInv, UNCHANGED opdVars PROVE OPDInv'
  OBVIOUS
<1>1. /\ UNCHANGED <<response_mask, abs_logprob_diff, pc, t, in_segment, seg_start, boundaries>>
      /\ UNCHANGED <<d_values, cum_prod, w_values, weight_mask>>
  BY DEF opdVars, sample, scan
<1>2. OPDTypeOK' /\ Unweighed'
  BY <1>1 DEF OPDInv, OPDTypeOK, Unweighed, Zero
<1>3. Scanned' /\ Found'
  BY <1>1 DEF OPDInv, Scanned, Found, Segment, TurnsBefore, IsTurn, InTurn
<1>4. Weighed'
  BY <1>1 DEF OPDInv, Weighed, Same, Ratio, Shifted, AtMost
<1>5. WeightsAreRight'
  BY <1>1 DEF OPDInv, WeightsAreRight, WeightsCompareWithFirst, WeightsAreBounded, Same, Ratio, Shifted, AtMost
<1>. QED  BY <1>2, <1>3, <1>4, <1>5 DEF OPDInv

THEOREM Invariant == OPDSpec => []OPDInv
<1>1. OPDInv /\ [OPDNext]_opdVars => OPDInv'
  BY ScanInv, EndScanInv, MeasureInv, WeighInv, BroadcastInv, StutterInv DEF OPDNext
<1>. QED  BY InitInv, <1>1, PTL DEF OPDSpec

-----------------------------------------------------------------------------
(* The values of the scan and of the weights stay what they are meant to be *)
(* (compute_stepwise_opd_weights and _extract_step_boundaries).             *)
THEOREM WeightsTypeCorrect == OPDSpec => []OPDTypeOK
<1>1. OPDInv => OPDTypeOK
  BY DEF OPDInv
<1>. QED  BY Invariant, <1>1, PTL

(* _extract_step_boundaries returns the longest runs of the assistant's     *)
(* tokens, in their order and without missing a token, for rows of any      *)
(* length.                                                                  *)
THEOREM TurnsAreExact == OPDSpec => []BoundariesAreTurns
<1>1. OPDInv => BoundariesAreTurns
  BY DEF OPDInv, Found, TurnsBefore, InTurn, BoundariesAreTurns
<1>. QED  BY Invariant, <1>1, PTL

(* A turn's weight is the first turn's distance over its own, capped at     *)
(* 1 + delta, whatever the turns between; every token of the assistant has  *)
(* a positive weight, every other token weight 0.                           *)
THEOREM WeightsStayRight == OPDSpec => []WeightsAreRight
<1>1. OPDInv => WeightsAreRight
  BY DEF OPDInv
<1>. QED  BY Invariant, <1>1, PTL
==============================================================================
