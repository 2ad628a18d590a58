-------------------------- MODULE PolicyEngineProofs --------------------------
(***************************************************************************)
(* Proofs about PolicyEngine, for any goroutines, revisions and size of    *)
(* the cache.                                                              *)
(***************************************************************************)
EXTENDS PolicyEngine, FiniteSetTheorems, TLAPS

\* A cache of finitely many entries, within its bound, empty once closed.
CacheInv ==
    /\ IsFiniteSet(prepared)
    /\ CacheIsBounded
    /\ ClosedIsEmpty

\* Only an insertion and Close touch the cache.
LEMMA OtherSteps ==
    ASSUME NEW c \in Callers,
           \/ \E r \in Revisions : StartCompile(c, r) \/ StartExplain(c, r)
           \/ Look(c) \/ Build(c) \/ BuildFails(c) \/ InsertRefused(c)
           \/ Find(c) \/ Decide(c) \/ Expire(c)
    PROVE  UNCHANGED <<prepared, closed>>
BY DEF StartCompile, StartExplain, Look, Build, BuildFails, InsertRefused, Find,
   Decide, Expire

\* The limit is tested in the critical section that adds the one entry.
LEMMA InsertKeepsCache ==
    ASSUME CacheInv, NEW c \in Callers, Insert(c)
    PROVE  CacheInv'
<1>1. IsFiniteSet(prepared')
  BY FS_AddElement DEF Insert, CacheInv
<1>2. Cardinality(prepared) \in Nat /\ Cardinality(prepared) < MaxRevisions
  BY FS_CardinalityType DEF Insert, CacheInv
<1>3. Cardinality(prepared') \in {Cardinality(prepared), Cardinality(prepared) + 1}
  BY FS_AddElement DEF Insert, CacheInv
<1>4. CacheIsBounded'
  BY <1>2, <1>3, EngineAssumption DEF CacheIsBounded
<1>5. ClosedIsEmpty'
  BY DEF Insert, ClosedIsEmpty
<1> QED BY <1>1, <1>4, <1>5 DEF CacheInv

LEMMA CacheStep ==
    ASSUME CacheInv, [Next]_vars
    PROVE  CacheInv'
<1>1. CASE Close
  <2>1. prepared' = {} /\ IsFiniteSet({}) /\ Cardinality({}) = 0
    BY <1>1, FS_EmptySet DEF Close
  <2> QED BY <2>1, EngineAssumption DEF CacheInv, CacheIsBounded, ClosedIsEmpty
<1>2. ASSUME NEW c \in Callers, Insert(c)
      PROVE  CacheInv'
  BY <1>2, InsertKeepsCache
<1>3. ASSUME UNCHANGED <<prepared, closed>>
      PROVE  CacheInv'
  BY <1>3 DEF CacheInv, CacheIsBounded, ClosedIsEmpty
<1> QED BY <1>1, <1>2, <1>3, OtherSteps DEF Next, vars

LEMMA CacheHolds == Spec => []CacheInv
<1>1. Init => CacheInv
  <2> SUFFICES ASSUME Init PROVE CacheInv OBVIOUS
  <2>1. prepared = {} /\ IsFiniteSet({}) /\ Cardinality({}) = 0
    BY FS_EmptySet DEF Init
  <2> QED BY <2>1, EngineAssumption DEF CacheInv, CacheIsBounded, ClosedIsEmpty
<1> QED BY <1>1, CacheStep, PTL DEF Spec

\* The cache never holds more than MaxRevisions revisions, however many
\* goroutines compile at the same time.
THEOREM Bounded == Spec => []CacheIsBounded
<1>1. CacheInv => CacheIsBounded BY DEF CacheInv
<1> QED BY <1>1, CacheHolds, PTL

\* A closed engine is empty and stays so, whatever was being compiled.
THEOREM NothingAfterClose == Spec => []ClosedIsEmpty
<1>1. CacheInv => ClosedIsEmpty BY DEF CacheInv
<1> QED BY <1>1, CacheHolds, PTL

------------------------------------------------------------------------------
(* Nothing is evicted.                                                     *)

\* A goroutine in the engine has named a revision.
Named == \A c \in Callers : call[c].pc # "idle" => call[c].rev \in Revisions

\* TypeOK is not inductive alone: Insert adds the revision of the record.
EngineTypes == TypeOK /\ Named

\* What a step of one goroutine does to the records.
LEMMA ReturnRecords ==
    ASSUME EngineTypes, NEW c \in Callers, NEW result \in Results, Return(c, result)
    PROVE  /\ call' \in [Callers -> Call]
           /\ Named'
           /\ \A b \in Callers : b # c => call'[b] = call[b]
           /\ call'[c].pc = "idle" /\ call'[c].result = result
           /\ call'[c].rev = call[c].rev
BY DEF EngineTypes, TypeOK, Named, Return, Call

LEMMA GotoRecords ==
    ASSUME EngineTypes, NEW c \in Callers,
           NEW pc \in {"building", "inserting", "evaluating"}, Goto(c, pc),
           call[c].pc # "idle"
    PROVE  /\ call' \in [Callers -> Call]
           /\ Named'
           /\ \A b \in Callers : b # c => call'[b] = call[b]
           /\ call'[c].pc = pc /\ call'[c].result = call[c].result
           /\ call'[c].rev = call[c].rev
BY DEF EngineTypes, TypeOK, Named, Goto, Call

LEMMA StartRecords ==
    ASSUME EngineTypes, NEW c \in Callers, NEW r \in Revisions,
           StartCompile(c, r) \/ StartExplain(c, r)
    PROVE  /\ call' \in [Callers -> Call]
           /\ Named'
           /\ \A b \in Callers : b # c => call'[b] = call[b]
           /\ call'[c].pc \in {"looking", "finding"} /\ call'[c].result = "none"
<1>1. PICK pc \in {"looking", "finding"} :
        call' = [call EXCEPT ![c] = [pc |-> pc, rev |-> r, result |-> "none"]]
  BY DEF StartCompile, StartExplain
<1>2. [pc |-> pc, rev |-> r, result |-> "none"] \in Call
  BY DEF Call, Results
<1> QED BY <1>1, <1>2 DEF EngineTypes, TypeOK, Named

LEMMA EngineTypesStep ==
    ASSUME EngineTypes, [Next]_vars
    PROVE  EngineTypes'
<1>1. CASE Close \/ UNCHANGED vars
  BY <1>1 DEF Close, vars, EngineTypes, TypeOK, Named
<1>2. ASSUME NEW c \in Callers, NEW r \in Revisions,
             StartCompile(c, r) \/ StartExplain(c, r)
      PROVE  EngineTypes'
  BY <1>2, StartRecords, OtherSteps DEF EngineTypes, TypeOK
<1>3. ASSUME NEW c \in Callers,
             \/ Look(c) \/ Build(c) \/ BuildFails(c) \/ InsertRefused(c)
             \/ Find(c) \/ Decide(c) \/ Expire(c)
      PROVE  EngineTypes'
  <2>1. \/ \E result \in Results : Return(c, result)
        \/ /\ call[c].pc # "idle"
           /\ \E pc \in {"building", "inserting", "evaluating"} : Goto(c, pc)
    BY <1>3 DEF Look, Build, BuildFails, InsertRefused, Find, Decide, Expire, Results
  <2>2. call' \in [Callers -> Call] /\ Named'
    BY <2>1, ReturnRecords, GotoRecords
  <2> QED BY <1>3, <2>2, OtherSteps DEF EngineTypes, TypeOK
<1>4. ASSUME NEW c \in Callers, Insert(c)
      PROVE  EngineTypes'
  <2>1. call[c].rev \in Revisions
    BY <1>4 DEF Insert, EngineTypes, Named
  <2>2. call' \in [Callers -> Call] /\ Named'
    BY <1>4, ReturnRecords DEF Insert, Results
  <2> QED BY <1>4, <2>1, <2>2 DEF Insert, EngineTypes, TypeOK
<1> QED BY <1>1, <1>2, <1>3, <1>4 DEF Next

LEMMA EngineTypesHold == Spec => []EngineTypes
<1>1. Init => EngineTypes
  <2> SUFFICES ASSUME Init PROVE EngineTypes OBVIOUS
  <2>1. NotCalling \in Call
    BY DEF NotCalling, Call, Results
  <2>2. \A c \in Callers : call[c].pc = "idle"
    BY DEF Init, NotCalling
  <2>3. TypeOK
    BY <2>1 DEF Init, TypeOK
  <2> QED BY <2>2, <2>3 DEF EngineTypes, Named
<1>2. EngineTypes /\ [Next]_vars => EngineTypes'
  BY EngineTypesStep
<1> QED BY <1>1, <1>2, PTL DEF Spec

\* Only revisions are ever cached, whatever goroutines are under way.
THEOREM TypeCorrect == Spec => []TypeOK
<1>1. EngineTypes => TypeOK BY DEF EngineTypes
<1> QED BY <1>1, EngineTypesHold, PTL

LEMMA StaysStep ==
    ASSUME EngineTypes, CompiledStays, [Next]_vars
    PROVE  CompiledStays'
<1>1. CASE Close \/ UNCHANGED vars
  BY <1>1 DEF Close, vars, CompiledStays
<1>2. ASSUME NEW c \in Callers, NEW r \in Revisions,
             StartCompile(c, r) \/ StartExplain(c, r)
      PROVE  CompiledStays'
  BY <1>2, StartRecords, OtherSteps DEF CompiledStays
<1>3. ASSUME NEW c \in Callers, Look(c) \/ Find(c)
      PROVE  CompiledStays'
  <2>1. UNCHANGED <<prepared, closed>>
    BY <1>3, OtherSteps
  <2>2. CASE closed
    BY <2>1, <2>2 DEF CompiledStays
  <2>3. CASE call[c].rev \in prepared
    <3>1. /\ \A b \in Callers : b # c => call'[b] = call[b]
          /\ call'[c].rev = call[c].rev
      BY <1>3, ReturnRecords, GotoRecords DEF Look, Find, Results
    <3> QED BY <2>1, <2>3, <3>1 DEF CompiledStays
  <2>4. CASE ~closed /\ call[c].rev \notin prepared
    <3>1. \/ Goto(c, "building") /\ call[c].pc = "looking"
          \/ Return(c, "unknown_revision")
      BY <1>3, <2>4 DEF Look, Find
    <3>2. CASE Return(c, "unknown_revision")
      BY <2>1, <3>2, ReturnRecords DEF CompiledStays, Results
    <3>3. CASE Goto(c, "building") /\ call[c].pc = "looking"
      BY <2>1, <3>3, GotoRecords DEF CompiledStays
    <3> QED BY <3>1, <3>2, <3>3
  <2> QED BY <2>2, <2>3, <2>4
<1>4. ASSUME NEW c \in Callers, Build(c)
      PROVE  CompiledStays'
  BY <1>4, GotoRecords, OtherSteps DEF Build, CompiledStays
<1>5. ASSUME NEW c \in Callers, BuildFails(c) \/ InsertRefused(c) \/ Decide(c) \/ Expire(c)
      PROVE  CompiledStays'
  <2>1. PICK result \in Results \ {"compiled"} : Return(c, result)
    BY <1>5 DEF BuildFails, InsertRefused, Decide, Expire, Results
  <2> QED BY <1>5, <2>1, ReturnRecords, OtherSteps DEF CompiledStays
<1>6. ASSUME NEW c \in Callers, Insert(c)
      PROVE  CompiledStays'
  BY <1>6, ReturnRecords DEF Insert, CompiledStays, Results
<1> QED BY <1>1, <1>2, <1>3, <1>4, <1>5, <1>6 DEF Next

\* A revision that was reported compiled, or under which an evaluation runs, is
\* in the cache until the engine closes.
THEOREM NothingEvicted == Spec => []CompiledStays
<1>1. Init => CompiledStays
  BY DEF Init, NotCalling, CompiledStays
<1>2. EngineTypes /\ CompiledStays /\ [Next]_vars => CompiledStays'
  BY StaysStep
<1> QED BY <1>1, <1>2, EngineTypesHold, PTL DEF Spec
==============================================================================
