----------------------------- MODULE MCPodRuns -----------------------------
(* Small instances of PodRuns for TLC.                                     *)
EXTENDS PodRuns, TLC

Symmetric == Permutations(Checks)

=============================================================================
