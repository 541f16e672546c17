------------------------- MODULE MCAgentLoopManager -------------------------
(* AgentLoopManager on small instances: a request_id is its batch, its     *)
(* worker and its place in the chunk.                                      *)
EXTENDS AgentLoopManager

CONSTANT ChunkSize

MCDummy == -1

MCRequests == (1 .. NumBatches) \X Workers \X (1 .. ChunkSize)
MCWorkerOf == [r \in MCRequests |-> r[2]]
MCBatchOf  == [r \in MCRequests |-> r[1]]
=============================================================================
