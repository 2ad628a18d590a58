---------------------------- MODULE MCPolicyEngine ----------------------------
(* Instance of PolicyEngine for TLC: goroutines and revisions are symmetric. *)
EXTENDS PolicyEngine, TLC

CONSTANTS r1, r2, r3, r4, c1, c2, c3

Symmetry == Permutations(Callers) \cup Permutations(Sound)
==============================================================================
