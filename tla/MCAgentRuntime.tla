--------------------------- MODULE MCAgentRuntime ---------------------------
(* AgentRuntime on a handful of calls. *)
EXTENDS AgentRuntime, TLC

CallSymmetry == Permutations(Calls)
=============================================================================
