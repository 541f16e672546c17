------------------------ MODULE MCSandboxFusionTool ------------------------
(* Two tools with different limits, one with more calls than threads. *)
EXTENDS SandboxFusionTool, TLC

CONSTANTS a, b, c1, c2, c3, c4, c5

MCToolOf == (c1 :> a) @@ (c2 :> a) @@ (c3 :> a) @@ (c4 :> b) @@ (c5 :> b)
MCRateLimitOf == (a :> 1) @@ (b :> 2)
=============================================================================
