--------------------------- MODULE MCSGLangRollout ---------------------------
EXTENDS SGLangRollout

\* Two requests; all combinations of tools, interaction and log-probabilities, aborting or not.
MCConfigs ==
    {[target |-> t, validate |-> v, tools |-> tools, interaction |-> i, create_text |-> FALSE, log_probs |-> FALSE] :
        t \in 1 .. 2, v \in BOOLEAN, tools \in BOOLEAN, i \in BOOLEAN}
    \cup {[target |-> t, validate |-> FALSE, tools |-> FALSE, interaction |-> FALSE, create_text |-> FALSE,
           log_probs |-> TRUE] : t \in 1 .. 2}

\* Log-probabilities of the rollout are asked for.
MCLogProbConfigs ==
    {[target |-> 2, validate |-> FALSE, tools |-> FALSE, interaction |-> FALSE, create_text |-> FALSE, log_probs |-> TRUE]}
==============================================================================
