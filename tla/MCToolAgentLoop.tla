--------------------------- MODULE MCToolAgentLoop ---------------------------
(***************************************************************************)
(* One conversation without limits on turns, so that only its length ends  *)
(* it: the response has room for four answers with short tool responses in *)
(* between, an answer calls up to three tools of which two may run.        *)
(* Prompts fit, are too long but leave the engine room for some turns, or  *)
(* leave it none.                                                          *)
(***************************************************************************)
EXTENDS ToolAgentLoop
=============================================================================
