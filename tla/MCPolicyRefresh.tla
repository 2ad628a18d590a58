---------------------------- MODULE MCPolicyRefresh ----------------------------
(* Instance of PolicyRefresh for TLC.                                      *)
EXTENDS PolicyRefresh
==============================================================================
