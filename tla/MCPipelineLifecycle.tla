------------------------ MODULE MCPipelineLifecycle ------------------------
(***************************************************************************)
(* Instances of PipelineLifecycle for TLC. Threads of a kind are           *)
(* interchangeable.                                                        *)
(***************************************************************************)
EXTENDS PipelineLifecycle, TLC

Symmetry == Permutations(Admins) \cup Permutations(Producers)
=============================================================================
