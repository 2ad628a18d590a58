----------------------------- MODULE PolicyEngine -----------------------------
(***************************************************************************)
(* The revision cache of the OPA engine (internal/policy/opa/engine.go):   *)
(* any number of goroutines call Compile, Explain and Close on one Engine. *)
(* Each critical section of Engine.mu is one action; parsing, preparing    *)
(* and evaluating happen outside the lock, where contexts may expire and   *)
(* other calls interleave.  A prepared revision is named by its digest.    *)
(***************************************************************************)
EXTENDS Naturals, FiniteSets

CONSTANTS
    Revisions,      \* revisions of the bundles that are compiled
    Sound,          \* those that pass the compiler and its checks
    Callers,        \* goroutines that use the engine
    MaxRevisions,   \* size of the cache
    NoRev

ASSUME EngineAssumption ==
    /\ Sound \subseteq Revisions
    /\ NoRev \notin Revisions
    /\ MaxRevisions \in Nat

VARIABLES
    prepared,   \* keys of Engine.revisions
    closed,     \* Engine.closed
    call        \* what each goroutine is doing in the engine

vars == <<prepared, closed, call>>

Results == {"none", "compiled", "decision", "closed", "revision_limit",
            "unknown_revision", "failed"}

Call == [pc: {"idle", "looking", "building", "inserting", "finding",
              "evaluating"},
         rev: Revisions \cup {NoRev},
         result: Results]

NotCalling == [pc |-> "idle", rev |-> NoRev, result |-> "none"]

TypeOK ==
    /\ prepared \in SUBSET Revisions
    /\ closed \in BOOLEAN
    /\ call \in [Callers -> Call]

Init ==
    /\ prepared = {}
    /\ closed = FALSE
    /\ call = [c \in Callers |-> NotCalling]

Goto(c, pc) == call' = [call EXCEPT ![c].pc = pc]

\* The call is over; its result stays visible until the goroutine calls again.
Return(c, result) ==
    call' = [call EXCEPT ![c].pc = "idle", ![c].result = result]

------------------------------------------------------------------------------
StartCompile(c, r) ==
    /\ call[c].pc = "idle"
    /\ call' = [call EXCEPT ![c] = [pc |-> "looking", rev |-> r, result |-> "none"]]
    /\ UNCHANGED <<prepared, closed>>

\* The read-locked look: closed, already compiled, or to be built.
Look(c) ==
    /\ call[c].pc = "looking"
    /\ \/ closed /\ Return(c, "closed")
       \/ ~closed /\ call[c].rev \in prepared /\ Return(c, "compiled")
       \/ ~closed /\ call[c].rev \notin prepared /\ Goto(c, "building")
    /\ UNCHANGED <<prepared, closed>>

\* Parsing, the checks of the rules, and PrepareForEval of every layer.
Build(c) ==
    /\ call[c].pc = "building"
    /\ call[c].rev \in Sound
    /\ Goto(c, "inserting")
    /\ UNCHANGED <<prepared, closed>>

\* A bundle the compiler rejects.
BuildFails(c) ==
    /\ call[c].pc = "building"
    /\ call[c].rev \notin Sound
    /\ Return(c, "failed")
    /\ UNCHANGED <<prepared, closed>>

\* Mutant of Insert: the entry is stored under the zero revision.
InsertUnderNoKey(c) ==
    /\ call[c].pc = "inserting"
    /\ ~closed /\ Cardinality(prepared) < MaxRevisions
    /\ prepared' = prepared \cup {NoRev}
    /\ Return(c, "compiled")
    /\ UNCHANGED closed

\* Mutant of Insert: the limit is only tested at the first look.
InsertUnbounded(c) ==
    /\ call[c].pc = "inserting" /\ ~closed
    /\ prepared' = prepared \cup {call[c].rev}
    /\ Return(c, "compiled")
    /\ UNCHANGED closed

\* Mutant of Insert: closed is only tested at the first look.
InsertAfterClose(c) ==
    /\ call[c].pc = "inserting" /\ Cardinality(prepared) < MaxRevisions
    /\ prepared' = prepared \cup {call[c].rev}
    /\ Return(c, "compiled")
    /\ UNCHANGED closed

\* Mutant of Insert: a full cache drops an entry.
InsertEvicts(c) ==
    /\ call[c].pc = "inserting" /\ ~closed
    /\ \/ /\ Cardinality(prepared) < MaxRevisions
          /\ prepared' = prepared \cup {call[c].rev}
       \/ \E r \in prepared : prepared' = (prepared \ {r}) \cup {call[c].rev}
    /\ Return(c, "compiled")
    /\ UNCHANGED closed

\* The write-locked insertion looks at closed and at the limit again.
Insert(c) ==
    /\ call[c].pc = "inserting"
    /\ ~closed /\ Cardinality(prepared) < MaxRevisions
    /\ prepared' = prepared \cup {call[c].rev}
    /\ Return(c, "compiled")
    /\ UNCHANGED closed

InsertRefused(c) ==
    /\ call[c].pc = "inserting"
    /\ \/ closed /\ Return(c, "closed")
       \/ /\ ~closed /\ Cardinality(prepared) >= MaxRevisions
          /\ Return(c, "revision_limit")
    /\ UNCHANGED <<prepared, closed>>

------------------------------------------------------------------------------
StartExplain(c, r) ==
    /\ call[c].pc = "idle"
    /\ call' = [call EXCEPT ![c] = [pc |-> "finding", rev |-> r, result |-> "none"]]
    /\ UNCHANGED <<prepared, closed>>

Find(c) ==
    /\ call[c].pc = "finding"
    /\ \/ closed /\ Return(c, "closed")
       \/ ~closed /\ call[c].rev \notin prepared /\ Return(c, "unknown_revision")
       \/ ~closed /\ call[c].rev \in prepared /\ Goto(c, "evaluating")
    /\ UNCHANGED <<prepared, closed>>

\* The evaluation uses the prepared queries it found, also after a Close.
Decide(c) ==
    /\ call[c].pc = "evaluating"
    /\ Return(c, "decision")
    /\ UNCHANGED <<prepared, closed>>

\* A context that ends, one of the deadlines, an evaluation error.
Expire(c) ==
    /\ call[c].pc # "idle"
    /\ Return(c, "failed")
    /\ UNCHANGED <<prepared, closed>>

Close ==
    /\ closed' = TRUE
    /\ prepared' = {}
    /\ UNCHANGED call

Next ==
    \/ Close
    \/ \E c \in Callers :
        \/ \E r \in Revisions : StartCompile(c, r) \/ StartExplain(c, r)
        \/ Look(c) \/ Build(c) \/ BuildFails(c) \/ Insert(c) \/ InsertRefused(c)
        \/ Find(c) \/ Decide(c) \/ Expire(c)

Spec == Init /\ [][Next]_vars

------------------------------------------------------------------------------
(* Properties.                                                             *)

\* However many goroutines build at once, the cache keeps its bound: the limit
\* is tested where the entry is made (engine.go:257-264).
CacheIsBounded == Cardinality(prepared) <= MaxRevisions

\* A Close during a long Compile is not undone by its insertion
\* (engine.go:259): a closed engine holds nothing and never will again.
ClosedIsEmpty == closed => prepared = {}

\* A revision that Compile reported compiled, or that an evaluation is using,
\* stays in the cache until Close, whatever others compile meanwhile ("rejects
\* further distinct revisions rather than evicting an in-use revision",
\* docs/policy.md:166).
CompiledStays ==
    \A c \in Callers :
        \/ call[c].result = "compiled"
        \/ call[c].pc = "evaluating"
        => closed \/ call[c].rev \in prepared

\* Only a distinct revision is rejected for want of room (docs/policy.md:166:
\* "The bounded revision cache rejects further distinct revisions").  Two
\* goroutines compiling one revision into the last slot violate it.
OnlyDistinctAreRefused ==
    \A c \in Callers :
        call[c].result = "revision_limit" => closed \/ call[c].rev \notin prepared
==============================================================================
