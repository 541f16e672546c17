---------------------------- MODULE MCHybridEngine ----------------------------
EXTENDS HybridEngine

MCConfigs == {c \in Config : Supported(c)}
==============================================================================
