--------------------------- MODULE PolicyLifecycle ---------------------------
(***************************************************************************)
(* What the policy lifecycle promises to a caller and to a reader, with no *)
(* disk, engine, tag or step of a call in it: one revision is agreed, all  *)
(* readers that start are admitted with it, a call either switches to a    *)
(* revision that passed its tests or changes nothing, and a restart serves *)
(* the agreed revision, one that a crash caught half-way, or one that was  *)
(* in force before.  PolicyManager implements it when fsync does not fail. *)
(***************************************************************************)
CONSTANTS Revisions, Passing, Readers, NoRev

VARIABLES
    up,         \* the manager is running
    agreed,     \* the revision of the last call that returned nil
    pending,    \* revisions being switched to
    past,       \* revisions that were in force
    reader      \* the revision each reader evaluates under

lifecycle == <<up, agreed, pending, past, reader>>

Init ==
    /\ up = FALSE
    /\ agreed = NoRev
    /\ pending = {}
    /\ past = {}
    /\ reader = [d \in Readers |-> NoRev]

\* A running manager switches to any tested revision; one that is starting
\* only to one that was in force before.
Propose(r) ==
    /\ r \in Passing
    /\ up \/ r \in past
    /\ pending' = pending \cup {r}
    /\ UNCHANGED <<up, agreed, past, reader>>

Switch(r) ==
    /\ r \in pending
    /\ up' = TRUE
    /\ agreed' = r
    /\ pending' = {}
    /\ past' = past \cup {r}
    /\ UNCHANGED reader

Resume ==
    /\ ~up
    /\ up' = TRUE
    /\ pending' = {}
    /\ UNCHANGED <<agreed, past, reader>>

Stop ==
    /\ up' = FALSE
    /\ reader' = [d \in Readers |-> NoRev]
    /\ UNCHANGED <<agreed, pending, past>>

Admit(d) ==
    /\ up /\ agreed # NoRev /\ reader[d] = NoRev
    /\ reader' = [reader EXCEPT ![d] = agreed]
    /\ UNCHANGED <<up, agreed, pending, past>>

Finish(d) ==
    /\ reader[d] # NoRev
    /\ reader' = [reader EXCEPT ![d] = NoRev]
    /\ UNCHANGED <<up, agreed, pending, past>>

Next ==
    \/ \E r \in Revisions : Propose(r) \/ Switch(r)
    \/ Resume \/ Stop
    \/ \E d \in Readers : Admit(d) \/ Finish(d)

Spec == Init /\ [][Next]_lifecycle
==============================================================================
