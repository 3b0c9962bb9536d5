--------------------------- MODULE MCAgentRuntime ---------------------------
(* Small instances of AgentRuntime for TLC.                                *)
EXTENDS AgentRuntime, TLC

Symmetry == Permutations(Workers) \cup Permutations(Invocations) \cup Permutations(Requests)
=============================================================================
