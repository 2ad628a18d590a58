--------------------------- MODULE MCPolicyManager ---------------------------
(* Instance of PolicyManager for TLC.                                      *)
EXTENDS PolicyManager, TLC

CONSTANTS r1, r2, r3, s1, s2, t1, t2, d1

\* s1 and s2 use the same two tags the other way round, and give r3 none.
TagIn(s, r) ==
    CASE r = r3 -> NoTag
      [] s = s1 -> IF r = r1 THEN t1 ELSE t2
      [] OTHER  -> IF r = r1 THEN t2 ELSE t1

MCTagOf == [s \in Sources |-> [r \in Revisions |-> TagIn(s, r)]]

\* Each source gives a tag to one revision only.
MCOneTag ==
    [s \in Sources |->
        [r \in Revisions |-> IF TagIn(s, r) = t1 THEN t1 ELSE NoTag]]
==============================================================================
