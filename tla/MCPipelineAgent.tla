-------------------------- MODULE MCPipelineAgent --------------------------
(* PipelineAgent for TLC: symmetry of the request threads.                 *)
EXTENDS PipelineAgent, TLC

AgentSymmetry == Permutations(Agents)
=============================================================================
