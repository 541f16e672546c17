---------------------------- MODULE MCStepwiseOPD ----------------------------
EXTENDS StepwiseOPD

\* All masks of five tokens, and one of seven with four turns.
MCMasks == [1 .. 5 -> BOOLEAN] \cup {[i \in 1 .. 7 |-> i % 2 = 1]}
MCCap == <<3, 2>>
==============================================================================
