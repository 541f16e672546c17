----------------------------- MODULE StepwiseOPD -----------------------------
(***************************************************************************)
(* compute_stepwise_opd_weights for one sample: the response mask is       *)
(* scanned for the assistant's turns, each turn is measured by how far the *)
(* student's log-probabilities are from the teacher's, and the tokens of a *)
(* turn are weighted by the product of the ratios of neighbouring turns,   *)
(* capped.  A batch is such samples, one after the other.                  *)
(*                                                                         *)
(* Distances are natural numbers of one small unit, epsilon is a number of *)
(* the same unit, and quotients are pairs <<numerator, denominator>>.      *)
(* Positions count from 1, so a boundary <<s, e>> holds s .. e - 1.        *)
(***************************************************************************)
EXTENDS Integers, Sequences, FiniteSets

CONSTANTS
    Masks,         \* the rows of response_mask
    Diffs,         \* the distances a token may have
    MaxDiff,
    Epsilon,
    Cap            \* 1 + delta, as a quotient

ASSUME OPDAssumption ==
    /\ Masks \subseteq Seq(BOOLEAN)
    /\ MaxDiff \in Nat /\ Diffs \subseteq 0 .. MaxDiff
    /\ Epsilon \in Nat \ {0}
    /\ Cap \in (Nat \ {0}) \X (Nat \ {0})
    /\ Cap[1] >= Cap[2]

VARIABLES
    response_mask, abs_logprob_diff,              \* the sample
    pc,
    t, in_segment, seg_start, boundaries,         \* _extract_step_boundaries
    d_values, cum_prod, w_values,
    weight_mask

sample == <<response_mask, abs_logprob_diff>>
scan   == <<t, in_segment, seg_start, boundaries>>
opdVars == <<sample, pc, scan, d_values, cum_prod, w_values, weight_mask>>

One == <<1, 1>>
AtMost(p, q) == p[1] * q[2] <= q[1] * p[2]
Lesser(p, q) == IF AtMost(p, q) THEN p ELSE q
Times(p, q)  == <<p[1] * q[1], p[2] * q[2]>>

OPDInit ==
    /\ response_mask \in Masks
    /\ abs_logprob_diff \in [DOMAIN response_mask -> Diffs]
    /\ pc = "scan" /\ t = 1 /\ in_segment = FALSE /\ seg_start = 1 /\ boundaries = <<>>
    /\ d_values = <<>> /\ cum_prod = One /\ w_values = <<>> /\ weight_mask = <<>>
------------------------------------------------------------------------------
\* Mutant of Opens: every token of the assistant opens a turn.
Opens_Always(i) == response_mask[i]

Opens(i)  == response_mask[i] /\ ~ in_segment
Closes(i) == ~ response_mask[i] /\ in_segment

Scan ==
    /\ pc = "scan" /\ t <= Len(response_mask)
    /\ seg_start' = IF Opens(t) THEN t ELSE seg_start
    /\ boundaries' = IF Closes(t) THEN Append(boundaries, <<seg_start, t>>) ELSE boundaries
    /\ in_segment' = IF Opens(t) THEN TRUE ELSE IF Closes(t) THEN FALSE ELSE in_segment
    /\ t' = t + 1
    /\ UNCHANGED <<sample, pc, d_values, cum_prod, w_values, weight_mask>>

\* A turn may reach the end of the row; a row without turns keeps weight 0.
EndScan ==
    /\ pc = "scan" /\ t = Len(response_mask) + 1
    /\ boundaries' = IF in_segment THEN Append(boundaries, <<seg_start, t>>) ELSE boundaries
    /\ weight_mask' = [i \in DOMAIN response_mask |-> <<0, 1>>]
    /\ pc' = IF boundaries' = <<>> THEN "done" ELSE "measure"
    /\ UNCHANGED <<sample, t, in_segment, seg_start, d_values, cum_prod, w_values>>

\* The sum of the distances of some tokens: how many units they have.
Sum(turn) == Cardinality({p \in turn \X (1 .. MaxDiff) : p[2] <= abs_logprob_diff[p[1]]})

\* d_k: the mean distance of the tokens of a turn.
Measure ==
    /\ pc = "measure"
    /\ d_values' = [k \in DOMAIN boundaries |->
            LET turn == boundaries[k][1] .. boundaries[k][2] - 1
            IN  <<Sum(turn), Cardinality(turn)>>]
    /\ w_values' = <<One>> /\ pc' = "weigh"
    /\ UNCHANGED <<sample, scan, cum_prod, weight_mask>>

\* d + epsilon, as a quotient of positive numbers.
Shifted(d) == <<d[1] + Epsilon * d[2], d[2]>>
Ratio(d, e) == <<Shifted(d)[1] * Shifted(e)[2], Shifted(d)[2] * Shifted(e)[1]>>

\* Mutant of Kept: the next ratio is multiplied on the capped product.
Kept_Capped(p) == Lesser(p, Cap)
Kept(p)   == p
Capped(p) == Lesser(p, Cap)

Weigh ==
    /\ pc = "weigh" /\ Len(w_values) < Len(d_values)
    /\ LET u == Len(w_values)
           product == Times(cum_prod, Ratio(d_values[u], d_values[u + 1]))
       IN  /\ cum_prod' = Kept(product)
           /\ w_values' = Append(w_values, Capped(product))
    /\ UNCHANGED <<sample, pc, scan, d_values, weight_mask>>

Broadcast ==
    /\ pc = "weigh" /\ Len(w_values) = Len(d_values)
    /\ weight_mask' = [i \in DOMAIN response_mask |->
            IF \E k \in DOMAIN boundaries : i \in boundaries[k][1] .. boundaries[k][2] - 1
            THEN w_values[CHOOSE k \in DOMAIN boundaries : i \in boundaries[k][1] .. boundaries[k][2] - 1]
            ELSE weight_mask[i]]
    /\ pc' = "done"
    /\ UNCHANGED <<sample, scan, d_values, cum_prod, w_values>>

OPDNext == Scan \/ EndScan \/ Measure \/ Weigh \/ Broadcast

OPDSpec == OPDInit /\ [][OPDNext]_opdVars
------------------------------------------------------------------------------
OPDTypeOK ==
    /\ response_mask \in Seq(BOOLEAN)
    /\ abs_logprob_diff \in [DOMAIN response_mask -> Nat]
    /\ pc \in {"scan", "measure", "weigh", "done"}
    /\ t \in 1 .. Len(response_mask) + 1
    /\ in_segment \in BOOLEAN
    /\ seg_start \in 1 .. Len(response_mask) + 1
    /\ boundaries \in Seq(Nat \X Nat)
    /\ d_values \in Seq(Nat \X Nat)
    /\ cum_prod \in Nat \X Nat
    /\ w_values \in Seq(Nat \X Nat)

IsTurn(s, e) ==
    /\ s < e
    /\ \A i \in s .. e - 1 : response_mask[i]
    /\ s = 1 \/ ~ response_mask[s - 1]
    /\ e = Len(response_mask) + 1 \/ ~ response_mask[e]

(* "Each contiguous run of 1s is one step": the boundaries are the longest  *)
(* runs of the assistant's tokens, in their order, and every token of the   *)
(* assistant is in one.                                                     *)
BoundariesAreTurns ==
    pc # "scan" =>
        /\ \A k \in DOMAIN boundaries : IsTurn(boundaries[k][1], boundaries[k][2])
        /\ \A k \in 1 .. Len(boundaries) - 1 : boundaries[k][2] < boundaries[k + 1][1]
        /\ \A i \in DOMAIN response_mask : response_mask[i] =>
                \E k \in DOMAIN boundaries : i \in boundaries[k][1] .. boundaries[k][2] - 1

\* Two quotients are the same number.
Same(p, q) == p[1] * q[2] = q[1] * p[2]

(* The capped products of ratios telescope: a turn's weight compares it     *)
(* with the first turn only, whatever the turns between them and however    *)
(* often the cap was reached before.                                        *)
WeightsCompareWithFirst ==
    \A k \in DOMAIN w_values : k > 1 =>
        \/ Same(w_values[k], Ratio(d_values[1], d_values[k]))
        \/ w_values[k] = Cap /\ ~ AtMost(Ratio(d_values[1], d_values[k]), Cap)

(* Every token of the assistant has a positive weight of at most 1 + delta, *)
(* every other token has weight 0.                                          *)
WeightsAreBounded ==
    pc = "done" => \A i \in DOMAIN response_mask :
        /\ weight_mask[i][2] > 0
        /\ IF response_mask[i] THEN weight_mask[i][1] > 0 /\ AtMost(weight_mask[i], Cap)
           ELSE weight_mask[i][1] = 0

(* Weights compare turns with the first, and stay within their bounds.      *)
WeightsAreRight == WeightsCompareWithFirst /\ WeightsAreBounded
==============================================================================
