------------------------- MODULE PolicyManagerProofs -------------------------
(***************************************************************************)
(* Proofs about PolicyManager, for every value of its constants.           *)
(***************************************************************************)
EXTENDS PolicyManager, TLAPS

USE DEF OnlineCalls, StartupCalls

------------------------------------------------------------------------------
(* Type correctness.                                                       *)

\* Which fields of `op' mean something at which step.
OpShape ==
    /\ op.pc = "idle" <=> op.call = "none"
    /\ op.call \in OnlineCalls => process = "up"
    /\ op.call \in StartupCalls =>
        /\ process = "starting"
        /\ op.next.rev \in Revisions
        /\ op.pc \in {"checking", "testing", "persist", "stateSync", "publish"}
    /\ op.call = "renew" => op.pc \in {"persist", "stateSync", "publish"}
    /\ op.pc = "fetching" => op.call = "activate" /\ op.source \in Sources
    /\ op.pc = "testing" => op.content \in Revisions
    /\ op.pc \in {"artifact", "artifactSync"} => op.call = "activate"
    /\ op.pc \in {"artifact", "artifactSync", "persist", "stateSync", "publish"} =>
        op.next.rev \in Revisions

TypeInv == TypeOK /\ OpShape

LEMMA StatusTypes ==
    /\ NoStatus \in Status
    /\ Idle \in Op
BY DEF NoStatus, Status, Idle, Op, Steps, SourceNames, Contents

LEMMA InitTypes == Init => TypeInv
<1> SUFFICES ASSUME Init PROVE TypeInv OBVIOUS
<1>1. TypeOK
  BY StatusTypes DEF Init, TypeOK, Contents
<1>2. OpShape
  BY DEF Init, OpShape, Idle
<1> QED BY <1>1, <1>2 DEF TypeInv

LEMMA ReturnErrorTypes ==
    ASSUME TypeInv, ReturnError, UNCHANGED <<disk, remote>>
    PROVE  TypeInv'
<1>1. active' \in Status
  BY DEF ReturnError, TypeInv, TypeOK, Status
<1>2. TypeOK'
  BY <1>1, StatusTypes DEF ReturnError, TypeInv, TypeOK, disk, engine
<1>3. OpShape'
  BY DEF ReturnError, OpShape, Idle
<1> QED BY <1>2, <1>3 DEF TypeInv

LEMMA LoseMemoryTypes ==
    ASSUME TypeInv, LoseMemory, UNCHANGED limbo, UNCHANGED remote,
           artifact' \in [Revisions -> Contents],
           maybeArtifact' \in [Revisions -> SUBSET Contents],
           saved' \in Status, maybeSaved' \in SUBSET Status
    PROVE  TypeInv'
<1>1. TypeOK'
  BY StatusTypes DEF LoseMemory, TypeInv, TypeOK
<1>2. OpShape'
  BY DEF LoseMemory, OpShape, Idle
<1> QED BY <1>1, <1>2 DEF TypeInv

LEMMA FallBackTypes ==
    ASSUME TypeInv, FallBack, UNCHANGED <<disk, remote>>,
           op.call = "primary", op.next.prev # NoRev
    PROVE  TypeInv'
<1>1. op.next.prev \in Revisions
  BY DEF TypeInv, TypeOK, Op, Status
<1>2. op'.next \in Status /\ op'.next.rev = op.next.prev
  BY <1>1 DEF FallBack, TypeInv, TypeOK, Op, Status
<1>3. op' \in Op
  BY <1>1, <1>2 DEF FallBack, TypeInv, TypeOK, Op, Steps
<1>4. TypeOK'
  BY <1>3 DEF FallBack, TypeInv, TypeOK, disk, engine, history
<1>5. OpShape'
  BY <1>1, <1>2, <1>3 DEF FallBack, TypeInv, TypeOK, OpShape, Op
<1> QED BY <1>4, <1>5 DEF TypeInv

LEMMA FailTypes ==
    ASSUME TypeInv, Fail, UNCHANGED <<disk, remote>>
    PROVE  TypeInv'
<1>1. CASE op.call \in OnlineCalls /\ ReturnError
  BY <1>1, ReturnErrorTypes
<1>2. CASE op.call = "primary" /\ op.next.prev # NoRev /\ FallBack
  BY <1>2, FallBackTypes
<1>3. CASE LoseMemory /\ UNCHANGED limbo
  BY <1>3, LoseMemoryTypes DEF disk, TypeInv, TypeOK
<1> QED BY <1>1, <1>2, <1>3 DEF Fail

LEMMA StartupTypes ==
    ASSUME TypeInv, Startup
    PROVE  TypeInv'
<1>1. CASE BootEmpty
  <2>1. TypeOK'
    BY <1>1 DEF BootEmpty, TypeInv, TypeOK, disk, engine
  <2>2. OpShape'
    BY <1>1 DEF BootEmpty, TypeInv, OpShape, engine, disk
  <2> QED BY <2>1, <2>2 DEF TypeInv
<1>2. CASE BootSaved
  <2>1. saved.rev \in Revisions
    BY <1>2 DEF BootSaved, TypeInv, TypeOK, Status
  <2>2. artifact[saved.rev] \in Contents
    BY <2>1 DEF TypeInv, TypeOK
  <2>3. op' \in Op /\ op'.next.rev \in Revisions
    BY <1>2, <2>1, <2>2, StatusTypes DEF BootSaved, TypeInv, TypeOK, Op, Steps, Idle
  <2>4. TypeOK'
    BY <1>2, <2>3 DEF BootSaved, TypeInv, TypeOK, disk, engine, history
  <2>5. OpShape'
    BY <1>2, <2>3 DEF BootSaved, OpShape, Idle
  <2> QED BY <2>4, <2>5 DEF TypeInv
<1> QED BY <1>1, <1>2 DEF Startup

\* A call that starts only fills `op'.
LEMMA BeginTypes ==
    ASSUME TypeInv, process = "up",
           op' \in Op, op'.pc \in {"checking", "fetching"}, op'.call = "activate",
           op'.pc = "fetching" => op'.source \in Sources,
           UNCHANGED <<disk, process, active, engine, reader, remote, history>>
    PROVE  TypeInv'
<1>1. TypeOK'
  BY DEF TypeInv, TypeOK, disk, engine, history
<1>2. OpShape'
  BY DEF OpShape
<1> QED BY <1>1, <1>2 DEF TypeInv

LEMMA CallTypes ==
    ASSUME TypeInv, Call
    PROVE  TypeInv'
<1>1. ASSUME NEW c \in Revisions \cup {Corrupt}, NEW s \in Sources,
             NEW t \in Tags \cup {NoTag}, Activate(c, s, t)
      PROVE  TypeInv'
  <2>1. s \in SourceNames /\ c \in Contents
    BY DEF SourceNames, Contents
  <2>2. op' \in Op /\ op'.pc = "checking" /\ op'.call = "activate"
    BY <1>1, <2>1, StatusTypes DEF Activate, Op, Steps, Idle
  <2> QED BY <1>1, <2>2, BeginTypes DEF Activate, CanStart
<1>2. ASSUME NEW r \in Revisions, Rollback(r)
      PROVE  TypeInv'
  <2>1. <<"rollback", r>> \in SourceNames /\ artifact[r] \in Contents
    BY DEF SourceNames, Rollbacks, TypeInv, TypeOK
  <2>2. op' \in Op /\ op'.pc = "checking" /\ op'.call = "activate"
    BY <1>2, <2>1, StatusTypes DEF Rollback, Op, Steps, Idle
  <2> QED BY <1>2, <2>2, BeginTypes DEF Rollback, CanStart
<1>3. ASSUME NEW r \in Revisions, RollbackUnknown(r)
      PROVE  TypeInv'
  BY <1>3, ReturnErrorTypes DEF RollbackUnknown
<1>4. ASSUME NEW s \in Sources, Refresh(s)
      PROVE  TypeInv'
  <2>1. SentTag(s) \in Tags \cup {NoTag} /\ s \in SourceNames
    BY DEF SentTag, TypeInv, TypeOK, Status, SourceNames
  <2>2. /\ op' \in Op /\ op'.pc = "fetching" /\ op'.call = "activate"
        /\ op'.source = s
    BY <1>4, <2>1, StatusTypes DEF Refresh, Op, Steps, Idle
  <2> QED BY <1>4, <2>2, BeginTypes DEF Refresh, CanStart
<1> QED BY <1>1, <1>2, <1>3, <1>4 DEF Call

LEMMA FailureTypes ==
    ASSUME TypeInv, Failure
    PROVE  TypeInv'
BY FailTypes DEF Failure, FetchFails, CompileFails, RunTestsFails, ArtifactFails,
   SyncArtifactFails, WriteStateFails, SyncStateFails

\* A step that only moves `op' on keeps it well formed.
LEMMA AdvanceTypes ==
    ASSUME TypeInv, NEW pc \in {"persist", "artifactSync", "stateSync", "publish"},
           Advance(pc),
           op.next.rev \in Revisions, op.pc # "idle",
           pc = "artifactSync" => op.call = "activate"
    PROVE  op' \in Op /\ OpShape'
<1>1. op' \in Op /\ op'.pc = pc /\ op'.call = op.call /\ op'.next = op.next
  BY DEF Advance, TypeInv, TypeOK, Op, Steps
<1>2. OpShape'
  BY <1>1 DEF Advance, TypeInv, OpShape
<1> QED BY <1>1, <1>2

LEMMA ProgressTypes ==
    ASSUME TypeInv, Progress
    PROVE  TypeInv'
<1> USE DEF TypeInv
<1>1. CASE FetchBytes
  <2>1. remote[op.source] \in Revisions /\ op.source \in Sources
    BY <1>1 DEF FetchBytes, TypeOK, OpShape
  <2>2. TagOf[op.source][remote[op.source]] \in Tags \cup {NoTag}
    BY <2>1, ConstantsAssumption
  <2>3. op' \in Op /\ op'.pc = "checking" /\ op'.call = op.call /\ op'.next = op.next
    BY <1>1, <2>1, <2>2 DEF FetchBytes, TypeOK, Op, Steps, Contents
  <2>4. TypeOK'
    BY <1>1, <2>3 DEF FetchBytes, TypeOK, disk, engine, history
  <2>5. OpShape'
    BY <1>1, <2>3 DEF FetchBytes, OpShape
  <2> QED BY <2>4, <2>5
<1>2. CASE FetchNotModified
  <2>1. remote[op.source] \in Revisions /\ active.rev \in Revisions
    BY <1>2 DEF FetchNotModified, TypeOK, OpShape, Status
  <2>2. [active EXCEPT !.err = "none"] \in Status
    BY DEF TypeOK, Status
  <2>3. /\ op' \in Op /\ op'.pc = "persist" /\ op'.call = "renew"
        /\ op'.next.rev = active.rev
    BY <1>2, <2>1, <2>2 DEF FetchNotModified, TypeOK, Op, Steps, Contents, Status
  <2>4. TypeOK'
    BY <1>2, <2>3 DEF FetchNotModified, TypeOK, disk, engine, history
  <2>5. OpShape'
    BY <1>2, <2>1, <2>3 DEF FetchNotModified, OpShape
  <2> QED BY <2>4, <2>5
<1>3. CASE Compile
  <2>1. op' \in Op /\ op'.pc = "testing" /\ op' = [op EXCEPT !.pc = "testing"]
    BY <1>3 DEF Compile, Advance, TypeOK, Op, Steps
  <2>2. TypeOK'
    BY <1>3, <2>1 DEF Compile, Compiles, Advance, TypeOK, disk, history
  <2>3. OpShape'
    BY <1>3, <2>1 DEF Compile, Compiles, Advance, TypeOK, Op, OpShape
  <2> QED BY <2>2, <2>3
<1>4. CASE RunTests
  <2>1. Candidate \in Status /\ Candidate.rev = op.content
    BY <1>4 DEF RunTests, Candidate, OpShape, TypeOK, Op, Status
  <2>2. /\ op' \in Op /\ op'.call = op.call
        /\ op.call = "activate" => op'.pc = "artifact" /\ op'.next = Candidate
        /\ op.call # "activate" => op'.pc = "persist" /\ op'.next = op.next
    BY <1>4, <2>1 DEF RunTests, TypeOK, Op, Steps
  <2>3. op.call \in StartupCalls \cup {"activate"}
    BY <1>4 DEF RunTests, OpShape, TypeOK, Op
  <2>4. TypeOK'
    BY <1>4, <2>2 DEF RunTests, TypeOK, disk, engine, history
  <2>5. OpShape'
    BY <1>4, <2>1, <2>2, <2>3 DEF RunTests, OpShape
  <2> QED BY <2>4, <2>5
<1>5. CASE KeepArtifact
  <2>1. op' \in Op /\ OpShape'
    BY <1>5, AdvanceTypes DEF KeepArtifact, OpShape
  <2> QED BY <1>5, <2>1 DEF KeepArtifact, Advance, TypeOK, disk, engine, history
<1>6. CASE WriteArtifact
  <2>1. op' \in Op /\ OpShape'
    BY <1>6, AdvanceTypes DEF WriteArtifact, OpShape
  <2>2. op.next.rev \in Revisions /\ op.content \in Contents
    BY <1>6 DEF WriteArtifact, OpShape, TypeOK, Op
  <2> QED BY <1>6, <2>1, <2>2 DEF WriteArtifact, Advance, TypeOK, engine, history
<1>7. CASE SyncArtifact
  <2>1. op' \in Op /\ OpShape'
    BY <1>7, AdvanceTypes DEF SyncArtifact, OpShape
  <2> QED BY <1>7, <2>1 DEF SyncArtifact, SyncDirectory, Advance, TypeOK, engine, history
<1>8. CASE WriteState
  <2>1. op' \in Op /\ OpShape'
    BY <1>8, AdvanceTypes DEF WriteState, OpShape
  <2>2. op.next \in Status /\ op.next.rev \in Revisions
    BY <1>8 DEF WriteState, OpShape, TypeOK, Op
  <2> QED BY <1>8, <2>1, <2>2 DEF WriteState, Advance, TypeOK, engine
<1>9. CASE SyncState
  <2>1. op' \in Op /\ OpShape'
    BY <1>9, AdvanceTypes DEF SyncState, OpShape
  <2> QED BY <1>9, <2>1 DEF SyncState, SyncDirectory, Advance, TypeOK, engine, history
<1>10. CASE Publish
  <2>1. op.next \in Status /\ op.next.rev \in Revisions
    BY <1>10 DEF Publish, OpShape, TypeOK, Op
  <2>2. TypeOK'
    BY <1>10, <2>1, StatusTypes DEF Publish, TypeOK, disk, engine
  <2>3. OpShape'
    BY <1>10 DEF Publish, OpShape, Idle
  <2> QED BY <2>2, <2>3
<1> QED BY <1>1, <1>2, <1>3, <1>4, <1>5, <1>6, <1>7, <1>8, <1>9, <1>10 DEF Progress

LEMMA EnvironmentTypes ==
    ASSUME TypeInv, Environment
    PROVE  TypeInv'
<1>1. ASSUME NEW d \in Readers, Admit(d) \/ Evaluate(d)
      PROVE  TypeInv'
  BY <1>1 DEF Admit, Evaluate, TypeInv, TypeOK, OpShape, Status, disk, engine, history
<1>2. CASE CloseEngine
  BY <1>2 DEF CloseEngine, TypeInv, TypeOK, OpShape, disk, history
<1>3. CASE Crash
  BY <1>3, LoseMemoryTypes DEF Crash, disk, TypeInv, TypeOK
<1>4. CASE PowerLoss
  <2>1. artifact' \in [Revisions -> Contents] /\ saved' \in Status
    BY <1>4 DEF PowerLoss, TypeInv, TypeOK
  <2>2. /\ maybeArtifact' \in [Revisions -> SUBSET Contents]
        /\ maybeSaved' \in SUBSET Status
    BY <1>4, <2>1 DEF PowerLoss
  <2> QED BY <1>4, <2>1, <2>2, LoseMemoryTypes DEF PowerLoss
<1>5. ASSUME NEW s \in Sources, NEW r \in Revisions, Serve(s, r)
      PROVE  TypeInv'
  BY <1>5 DEF Serve, TypeInv, TypeOK, OpShape, disk, engine, history
<1>6. ASSUME NEW r \in Revisions, NEW c \in Contents, Damage(r, c)
      PROVE  TypeInv'
  BY <1>6 DEF Damage, TypeInv, TypeOK, OpShape, engine, history
<1> QED BY <1>1, <1>2, <1>3, <1>4, <1>5, <1>6 DEF Environment

LEMMA StutterTypes ==
    ASSUME TypeInv, UNCHANGED vars
    PROVE  TypeInv'
BY DEF vars, disk, engine, history, TypeInv, TypeOK, OpShape

LEMMA TypesHold == Spec => []TypeInv
<1>1. TypeInv /\ [Next]_vars => TypeInv'
  BY StartupTypes, CallTypes, ProgressTypes, FailureTypes, EnvironmentTypes,
     StutterTypes DEF Next
<1> QED BY <1>1, InitTypes, PTL DEF Spec

\* Every variable keeps its type, whatever calls, faults and crashes happen.
THEOREM TypeCorrect == Spec => []TypeOK
<1>1. TypeInv => TypeOK BY DEF TypeInv
<1> QED BY <1>1, TypesHold, PTL

------------------------------------------------------------------------------
(* Readers switch only to what has reached the disk.                       *)

\* From the rename on, state.json is the state the call will publish; after
\* the directory fsync nothing else can be found there.
DurableInv ==
    /\ op.pc \in {"stateSync", "publish"} => saved = op.next
    /\ op.pc = "publish" => maybeSaved = {op.next}

LEMMA FailResets ==
    ASSUME TypeInv, Fail
    PROVE  op'.pc \in {"idle", "checking"}
<1>1. CASE ReturnError \/ LoseMemory
  BY <1>1 DEF ReturnError, LoseMemory, Idle
<1>2. CASE FallBack
  BY <1>2 DEF FallBack, TypeInv, TypeOK, Op
<1> QED BY <1>1, <1>2 DEF Fail

LEMMA CallBegins ==
    ASSUME Call
    PROVE  op'.pc \in {"idle", "checking", "fetching"}
<1>1. ASSUME NEW c, NEW s, NEW t, Activate(c, s, t)
      PROVE  op'.pc = "checking"
  BY <1>1 DEF Activate, Idle
<1>2. ASSUME NEW r, Rollback(r)
      PROVE  op'.pc = "checking"
  BY <1>2 DEF Rollback, Idle
<1>3. ASSUME NEW r, RollbackUnknown(r)
      PROVE  op'.pc = "idle"
  BY <1>3 DEF RollbackUnknown, ReturnError, Idle
<1>4. ASSUME NEW s, Refresh(s)
      PROVE  op'.pc = "fetching"
  BY <1>4 DEF Refresh, Idle
<1> QED BY <1>1, <1>2, <1>3, <1>4 DEF Call

LEMMA DurableStep ==
    ASSUME TypeInv, DurableInv, [Next]_vars
    PROVE  DurableInv'
<1>1. CASE Failure
  <2>1. Fail
    BY <1>1 DEF Failure, FetchFails, CompileFails, RunTestsFails, ArtifactFails,
       SyncArtifactFails, WriteStateFails, SyncStateFails
  <2> QED BY <2>1, FailResets DEF DurableInv
<1>2. CASE BootEmpty
  BY <1>2 DEF BootEmpty, disk, DurableInv
<1>3. CASE BootSaved
  BY <1>3 DEF BootSaved, Idle, DurableInv
<1>4. CASE Call
  BY <1>4, CallBegins DEF DurableInv
<1>5. CASE FetchBytes \/ FetchNotModified \/ Compile \/ RunTests \/ KeepArtifact
           \/ WriteArtifact \/ SyncArtifact
  <2>1. op'.pc \notin {"stateSync", "publish"}
    BY <1>5 DEF FetchBytes, FetchNotModified, Compile, RunTests, KeepArtifact,
       WriteArtifact, SyncArtifact, Advance, TypeInv, TypeOK, Op
  <2> QED BY <2>1 DEF DurableInv
<1>6. CASE WriteState
  <2>1. op'.pc = "stateSync" /\ op'.next = op.next
    BY <1>6 DEF WriteState, Advance, TypeInv, TypeOK, Op
  <2> QED BY <1>6, <2>1 DEF WriteState, DurableInv
<1>7. CASE SyncState
  <2>1. op'.pc = "publish" /\ op'.next = op.next
    BY <1>7 DEF SyncState, Advance, TypeInv, TypeOK, Op
  <2> QED BY <1>7, <2>1 DEF SyncState, SyncDirectory, DurableInv
<1>8. CASE Publish \/ Crash \/ PowerLoss
  BY <1>8 DEF Publish, Crash, PowerLoss, LoseMemory, Idle, DurableInv
<1>9. CASE \/ \E d \in Readers : Admit(d) \/ Evaluate(d)
           \/ CloseEngine
           \/ \E s \in Sources, r \in Revisions : Serve(s, r)
           \/ \E r \in Revisions, c \in Contents : Damage(r, c)
  BY <1>9 DEF Admit, Evaluate, CloseEngine, Serve, Damage, disk, DurableInv
<1>10. CASE UNCHANGED vars
  BY <1>10 DEF vars, disk, DurableInv
<1> QED
  BY <1>1, <1>2, <1>3, <1>4, <1>5, <1>6, <1>7, <1>8, <1>9, <1>10
  DEF Next, Startup, Progress, Environment

LEMMA DurableHolds == Spec => []DurableInv
<1>1. Init => DurableInv
  BY DEF Init, Idle, DurableInv
<1>2. TypeInv /\ DurableInv /\ [Next]_vars => DurableInv'
  BY DurableStep
<1> QED BY <1>1, <1>2, TypesHold, PTL DEF Spec

\* A call publishes its state only when state.json holds it and nothing older
\* can come back, also when earlier fsyncs failed.
THEOREM DurableFirst == Spec => []DurableBeforePublish
<1>1. DurableInv => DurableBeforePublish
  BY DEF DurableInv, DurableBeforePublish
<1> QED BY <1>1, DurableHolds, PTL

------------------------------------------------------------------------------
(* What is acknowledged is in force, and stays so over crashes.            *)

\* AcknowledgedIsActive says nothing of the disk.  What makes it inductive is
\* that every state file a restart may find names the acknowledged revision
\* or one of a call that a crash cut off, and that no call in a running
\* process leaves such a file behind when it returns.
AckInv ==
    /\ AcknowledgedIsActive
    /\ process # "up" => active = NoStatus
    /\ saved \in maybeSaved
    /\ saved.rev = NoRev => maybeSaved = {saved}
    /\ \A s \in maybeSaved : s.rev = committed \/ s.rev \in limbo
    /\ process = "up" /\ op.pc \notin {"stateSync", "publish"} => limbo = {}
    /\ op.call = "primary" => op.next.rev = committed \/ op.next.rev \in limbo
    /\ op.pc \in {"stateSync", "publish"} /\ op.call # "primary" =>
        op.next.rev \in limbo

LEMMA AckInit == Init => AckInv
BY DEF Init, AckInv, AcknowledgedIsActive, Idle, NoStatus

\* A call that fails before its rename changes neither disk nor snapshot.
LEMMA AckFail ==
    ASSUME TypeInv, AckInv, Fail, UNCHANGED disk,
           op.pc \notin {"idle", "stateSync", "publish"}
    PROVE  AckInv'
<1>1. CASE op.call \in OnlineCalls /\ ReturnError
  <2>1. process = "up" /\ limbo = {}
    BY <1>1 DEF AckInv, TypeInv, OpShape
  <2>2. active'.rev = active.rev
    BY <1>1 DEF ReturnError, TypeInv, TypeOK, Status
  <2> QED BY <1>1, <2>1, <2>2 DEF ReturnError, AckInv, AcknowledgedIsActive, Idle, disk
<1>2. CASE op.call = "primary" /\ FallBack
  <2>1. op'.pc = "checking" /\ op'.call = "fallback" /\ process = "starting"
    BY <1>2 DEF FallBack, TypeInv, TypeOK, OpShape, Op
  <2> QED BY <1>2, <2>1 DEF FallBack, AckInv, AcknowledgedIsActive, disk, history
<1>3. CASE LoseMemory /\ UNCHANGED limbo
  BY <1>3 DEF LoseMemory, AckInv, AcknowledgedIsActive, Idle, disk
<1> QED BY <1>1, <1>2, <1>3 DEF Fail

LEMMA AckStep ==
    ASSUME "sync" \notin Faults, TypeInv, DurableInv, AckInv, [Next]_vars
    PROVE  AckInv'
<1>1. CASE Failure
  <2>1. /\ Fail /\ UNCHANGED disk
        /\ op.pc \notin {"idle", "stateSync", "publish"}
    BY <1>1 DEF Failure, FetchFails, CompileFails, RunTestsFails, ArtifactFails,
       SyncArtifactFails, WriteStateFails, SyncStateFails
  <2> QED BY <2>1, AckFail
<1>2. CASE BootEmpty
  <2>1. saved.rev = committed
    BY <1>2, NullsAssumption DEF BootEmpty, AckInv, TypeInv, TypeOK
  <2>2. op.pc = "idle" /\ op.call = "none"
    BY <1>2 DEF BootEmpty, TypeInv, OpShape, TypeOK, Op
  <2> QED BY <1>2, <2>1, <2>2 DEF BootEmpty, AckInv, AcknowledgedIsActive, NoStatus, disk
<1>3. CASE BootSaved
  <2>1. op'.pc = "checking" /\ op'.call = "primary" /\ op'.next = saved
    BY <1>3 DEF BootSaved, Idle
  <2> QED BY <1>3, <2>1 DEF BootSaved, AckInv, AcknowledgedIsActive, disk, history
<1>4. CASE Call
  <2>1. ASSUME NEW r \in Revisions, RollbackUnknown(r)
        PROVE  AckInv'
    <3>1. active'.rev = active.rev
      BY <2>1 DEF RollbackUnknown, ReturnError, TypeInv, TypeOK, Status
    <3> QED BY <2>1, <3>1 DEF RollbackUnknown, CanStart, ReturnError, AckInv,
              AcknowledgedIsActive, Idle, disk
  <2>2. ASSUME \/ \E c \in Revisions \cup {Corrupt}, s \in Sources,
                     t \in Tags \cup {NoTag} : Activate(c, s, t)
               \/ \E r \in Revisions : Rollback(r)
               \/ \E s \in Sources : Refresh(s)
        PROVE  AckInv'
    <3>1. /\ op.pc = "idle"
          /\ op'.pc \in {"checking", "fetching"} /\ op'.call = "activate"
          /\ UNCHANGED <<disk, process, active, history>>
      BY <2>2 DEF Activate, Rollback, Refresh, CanStart, Idle
    <3> QED BY <3>1 DEF AckInv, AcknowledgedIsActive, disk, history
  <2> QED BY <1>4, <2>1, <2>2 DEF Call
<1>5. CASE FetchBytes \/ FetchNotModified \/ Compile \/ RunTests \/ KeepArtifact
  <2>1. /\ op'.pc \in {"checking", "testing", "artifact", "persist"}
        /\ op.pc \notin {"stateSync", "publish"}
        /\ op'.call = "primary" => op.call = "primary" /\ op'.next = op.next
        /\ UNCHANGED <<disk, process, active, history>>
    BY <1>5 DEF FetchBytes, FetchNotModified, Compile, RunTests, KeepArtifact,
       Advance, TypeInv, TypeOK, Op
  <2> QED BY <2>1 DEF AckInv, AcknowledgedIsActive, disk, history
<1>6. CASE WriteArtifact
  <2>1. op'.pc = "artifactSync" /\ op'.call = op.call /\ op'.next = op.next
    BY <1>6 DEF WriteArtifact, Advance, TypeInv, TypeOK, Op
  <2> QED BY <1>6, <2>1 DEF WriteArtifact, Advance, AckInv, AcknowledgedIsActive,
            history
<1>7. CASE SyncArtifact
  <2>1. op'.pc = "persist" /\ op'.call = op.call /\ op'.next = op.next
    BY <1>7 DEF SyncArtifact, Advance, TypeInv, TypeOK, Op
  <2> QED BY <1>7, <2>1 DEF SyncArtifact, SyncDirectory, Advance, AckInv,
            AcknowledgedIsActive, history
<1>8. CASE WriteState
  <2>1. op'.pc = "stateSync" /\ op'.call = op.call /\ op'.next = op.next
    BY <1>8 DEF WriteState, Advance, TypeInv, TypeOK, Op
  <2>2. saved' = op.next /\ op.next.rev # NoRev
    BY <1>8, NullsAssumption DEF WriteState, TypeInv, OpShape
  <2> QED BY <1>8, <2>1, <2>2 DEF WriteState, Advance, AckInv, AcknowledgedIsActive
<1>9. CASE SyncState
  <2>1. op'.pc = "publish" /\ op'.call = op.call /\ op'.next = op.next
    BY <1>9 DEF SyncState, Advance, TypeInv, TypeOK, Op
  <2> QED BY <1>9, <2>1 DEF SyncState, SyncDirectory, Advance, AckInv,
            AcknowledgedIsActive, history
<1>10. CASE Publish
  <2>1. maybeSaved = {op.next} /\ saved = op.next
    BY <1>10 DEF Publish, DurableInv
  <2>2. committed' = op.next.rev /\ op.next.rev # NoRev
    BY <1>10, NullsAssumption DEF Publish, AckInv, TypeInv, OpShape, TypeOK, Op
  <2> QED BY <1>10, <2>1, <2>2 DEF Publish, AckInv, AcknowledgedIsActive, Idle, disk
<1>11. CASE Crash
  BY <1>11 DEF Crash, LoseMemory, AckInv, AcknowledgedIsActive, Idle, disk
<1>12. CASE PowerLoss
  BY <1>12 DEF PowerLoss, LoseMemory, AckInv, AcknowledgedIsActive, Idle
<1>13. CASE \/ \E d \in Readers : Admit(d) \/ Evaluate(d)
            \/ CloseEngine
            \/ \E s \in Sources, r \in Revisions : Serve(s, r)
            \/ \E r \in Revisions, c \in Contents : Damage(r, c)
  BY <1>13 DEF Admit, Evaluate, CloseEngine, Serve, Damage, AckInv,
     AcknowledgedIsActive, disk, history
<1>14. CASE UNCHANGED vars
  BY <1>14 DEF vars, AckInv, AcknowledgedIsActive, disk, history
<1> QED
  BY <1>1, <1>2, <1>3, <1>4, <1>5, <1>6, <1>7, <1>8, <1>9, <1>10, <1>11, <1>12,
     <1>13, <1>14 DEF Next, Startup, Progress, Environment

LEMMA AckHolds ==
    ASSUME "sync" \notin Faults
    PROVE  Spec => []AckInv
<1>1. TypeInv /\ DurableInv /\ AckInv /\ [Next]_vars => AckInv'
  BY AckStep
<1> QED BY <1>1, AckInit, TypesHold, DurableHolds, PTL DEF Spec

\* As long as directory fsyncs succeed, readers run under the revision that was
\* acknowledged last, over any crashes, losses of power and damaged archives.
THEOREM Acknowledged ==
    ASSUME "sync" \notin Faults
    PROVE  Spec => []AcknowledgedIsActive
<1>1. AckInv => AcknowledgedIsActive
  BY DEF AckInv
<1>2. Spec => []AckInv
  BY AckHolds
<1> QED BY <1>1, <1>2, PTL

------------------------------------------------------------------------------
(* How the steps of a call move `op', for the proofs below.                *)

LEMMA BootFields ==
    ASSUME BootSaved
    PROVE  /\ op'.pc = "checking" /\ op'.call = "primary"
           /\ op'.next = saved /\ op'.tag = NoTag
BY DEF BootSaved, Idle

LEMMA FallBackFields ==
    ASSUME TypeInv, FallBack
    PROVE  /\ op'.pc = "checking" /\ op'.call = "fallback" /\ op'.tag = op.tag
           /\ op'.next.etag = NoTag /\ op'.next.prev = NoRev
BY DEF FallBack, TypeInv, TypeOK, Op

LEMMA MoveFields ==
    ASSUME TypeInv,
           \/ Compile \/ KeepArtifact \/ WriteArtifact \/ SyncArtifact
           \/ WriteState \/ SyncState
    PROVE  /\ op'.call = op.call /\ op'.next = op.next /\ op'.tag = op.tag
           /\ op'.source = op.source /\ op'.content = op.content
           /\ UNCHANGED <<active, reader, process, remote>>
<1>1. ASSUME NEW pc, op' = [op EXCEPT !.pc = pc]
      PROVE  /\ op'.call = op.call /\ op'.next = op.next /\ op'.tag = op.tag
             /\ op'.source = op.source /\ op'.content = op.content
  BY <1>1 DEF TypeInv, TypeOK, Op
<1> QED BY <1>1 DEF Compile, KeepArtifact, WriteArtifact, SyncArtifact, WriteState,
           SyncState, Advance

LEMMA RunTestsFields ==
    ASSUME TypeInv, RunTests
    PROVE  /\ op'.call = op.call /\ op'.tag = op.tag
           /\ op'.source = op.source /\ op'.content = op.content
           /\ op.call = "activate" => op'.pc = "artifact" /\ op'.next = Candidate
           /\ op.call # "activate" => op'.pc = "persist" /\ op'.next = op.next
           /\ op.call \in StartupCalls \cup {"activate"}
BY DEF RunTests, TypeInv, TypeOK, OpShape, Op

LEMMA IdleFields ==
    /\ Idle.pc = "idle" /\ Idle.call = "none" /\ Idle.tag = NoTag
    /\ Idle.next = NoStatus
BY DEF Idle

------------------------------------------------------------------------------
(* A 304 renews the bytes it was answered for.                             *)

Matches(s) ==
    s.etag # NoTag => /\ s.source \in Sources
                      /\ s.rev # NoRev
                      /\ s.etag = TagOf[s.source][s.rev]

\* Every tag that is kept, read back or about to be kept names the revision it
\* stands beside, and a tag under way to a source is the one kept for it.
TagInv ==
    /\ \A s \in maybeSaved \cup {active, saved, op.next} : Matches(s)
    /\ op.pc = "fetching" /\ op.tag # NoTag =>
        active.source = op.source /\ active.etag = op.tag
    /\ op.call = "activate" /\ op.pc # "fetching" /\ op.tag # NoTag /\ op.content \in Revisions =>
        op.source \in Sources /\ op.tag = TagOf[op.source][op.content]
    /\ RenewalKeepsBytes

LEMMA NoTagMatches == \A s : s.etag = NoTag => Matches(s)
BY DEF Matches

LEMMA TagReturn ==
    ASSUME TypeInv, TagInv, ReturnError, UNCHANGED disk
    PROVE  TagInv'
<1>1. /\ active'.etag = active.etag /\ active'.source = active.source
      /\ active'.rev = active.rev
  BY DEF ReturnError, TypeInv, TypeOK, Status
<1>2. Matches(active)' /\ Matches(NoStatus)
  BY <1>1 DEF TagInv, Matches, NoStatus
<1> QED BY <1>2, IdleFields DEF ReturnError, TagInv, RenewalKeepsBytes, disk, Matches

LEMMA TagLose ==
    ASSUME TagInv, LoseMemory,
           \A s \in (maybeSaved \cup {saved})' : s \in maybeSaved \cup {saved}
    PROVE  TagInv'
<1>1. Matches(NoStatus)
  BY DEF Matches, NoStatus
<1> QED BY <1>1, IdleFields DEF LoseMemory, TagInv, RenewalKeepsBytes, Matches

LEMMA TagStep ==
    ASSUME TypeInv, TagInv, [Next]_vars
    PROVE  TagInv'
<1>1. CASE Failure
  <2>1. Fail /\ UNCHANGED disk
    BY <1>1 DEF Failure, FetchFails, CompileFails, RunTestsFails, ArtifactFails,
       SyncArtifactFails, WriteStateFails, SyncStateFails
  <2>2. CASE ReturnError
    BY <2>1, <2>2, TagReturn
  <2>3. CASE FallBack
    <3>1. Matches(op.next)'
      BY <2>3, FallBackFields DEF Matches
    <3> QED BY <2>1, <2>3, <3>1, FallBackFields
            DEF FallBack, TagInv, RenewalKeepsBytes, disk, Matches
  <2>4. CASE LoseMemory
    BY <2>1, <2>4, TagLose DEF disk
  <2> QED BY <2>1, <2>2, <2>3, <2>4 DEF Fail
<1>2. CASE BootEmpty
  BY <1>2 DEF BootEmpty, TagInv, RenewalKeepsBytes, disk, Matches
<1>3. CASE BootSaved
  BY <1>3, BootFields DEF BootSaved, TagInv, RenewalKeepsBytes, disk, Matches
<1>4. ASSUME NEW c \in Revisions \cup {Corrupt}, NEW s \in Sources,
             NEW t \in Tags \cup {NoTag}, Activate(c, s, t)
      PROVE  TagInv'
  <2>1. /\ op'.pc = "checking" /\ op'.call = "activate" /\ op'.tag = t
        /\ op'.source = s /\ op'.content = c /\ op'.next = NoStatus
    BY <1>4 DEF Activate, Idle
  <2>2. Matches(NoStatus)
    BY DEF Matches, NoStatus
  <2> QED BY <1>4, <2>1, <2>2 DEF Activate, TagInv, RenewalKeepsBytes, disk, Matches
<1>5. ASSUME NEW r \in Revisions, Rollback(r)
      PROVE  TagInv'
  <2>1. /\ op'.pc = "checking" /\ op'.call = "activate" /\ op'.tag = NoTag
        /\ op'.next = NoStatus
    BY <1>5 DEF Rollback, Idle
  <2>2. Matches(NoStatus)
    BY DEF Matches, NoStatus
  <2> QED BY <1>5, <2>1, <2>2 DEF Rollback, TagInv, RenewalKeepsBytes, disk, Matches
<1>6. ASSUME NEW r \in Revisions, RollbackUnknown(r)
      PROVE  TagInv'
  BY <1>6, TagReturn DEF RollbackUnknown
<1>7. ASSUME NEW s \in Sources, Refresh(s)
      PROVE  TagInv'
  <2>1. /\ op'.pc = "fetching" /\ op'.call = "activate" /\ op'.tag = SentTag(s)
        /\ op'.source = s /\ op'.next = NoStatus
    BY <1>7 DEF Refresh, Idle
  <2>2. Matches(NoStatus)
    BY DEF Matches, NoStatus
  <2> QED BY <1>7, <2>1, <2>2
          DEF Refresh, SentTag, TagInv, RenewalKeepsBytes, disk, Matches
<1>8. CASE FetchBytes
  <2>1. /\ op'.call = "activate" /\ op'.content = remote[op.source]
        /\ op'.tag = TagOf[op.source][remote[op.source]]
        /\ op'.source = op.source /\ op'.next = op.next /\ op'.pc = "checking"
        /\ op.source \in Sources
    BY <1>8 DEF FetchBytes, TypeInv, TypeOK, OpShape, Op
  <2> QED BY <1>8, <2>1 DEF FetchBytes, TagInv, RenewalKeepsBytes, disk, Matches
<1>9. CASE FetchNotModified
  <2>1. /\ op'.call = "renew" /\ op'.content = remote[op.source]
        /\ op'.next = [active EXCEPT !.err = "none"] /\ op'.pc = "persist"
        /\ op.source \in Sources
    BY <1>9 DEF FetchNotModified, TypeInv, TypeOK, OpShape, Op
  <2>2. /\ op'.next.rev = active.rev /\ op'.next.etag = active.etag
        /\ op'.next.source = active.source
    BY <2>1 DEF TypeInv, TypeOK, Status
  <2>3. active.rev \in Revisions /\ remote[op.source] \in Revisions
    BY <1>9, <2>1 DEF FetchNotModified, TypeInv, TypeOK, Status
  <2>4. TagOf[op.source][active.rev] = TagOf[op.source][remote[op.source]]
    BY <1>9 DEF FetchNotModified, TagInv, Matches
  <2>5. active.rev = remote[op.source]
    BY <1>9, <2>1, <2>3, <2>4, TagsAreStrong DEF FetchNotModified
  <2> QED BY <1>9, <2>1, <2>2, <2>5
          DEF FetchNotModified, TagInv, RenewalKeepsBytes, disk, Matches
<1>10. CASE Compile
  BY <1>10, MoveFields DEF Compile, Advance, TagInv, RenewalKeepsBytes, disk, Matches,
     TypeInv, TypeOK, Op
<1>11. CASE RunTests
  <2>1. op.call = "activate" => Matches(Candidate)
    BY <1>11, RunTestsFields, NullsAssumption
    DEF RunTests, Candidate, TagInv, Matches, TypeInv, OpShape
  <2>2. op.call # "renew"
    BY <1>11, RunTestsFields
  <2>3. Matches(op.next)'
    BY <2>1, <1>11, RunTestsFields DEF TagInv, Matches, RunTests
  <2> QED BY <1>11, <2>2, <2>3, RunTestsFields
          DEF RunTests, TagInv, RenewalKeepsBytes, disk, Matches
<1>12. CASE KeepArtifact \/ WriteArtifact \/ SyncArtifact \/ SyncState \/ WriteState
  <2>1. op.pc # "fetching" /\ op'.pc # "fetching"
    BY <1>12 DEF KeepArtifact, WriteArtifact, SyncArtifact, SyncState, WriteState,
       Advance, TypeInv, TypeOK, Op
  <2>2. \A s \in (maybeSaved \cup {saved})' : s \in maybeSaved \cup {saved, op.next}
    BY <1>12 DEF KeepArtifact, WriteArtifact, SyncArtifact, SyncState, WriteState,
       SyncDirectory, disk
  <2> QED BY <1>12, <2>1, <2>2, MoveFields DEF TagInv, RenewalKeepsBytes, Matches
<1>13. CASE Publish
  <2>1. Matches(NoStatus)
    BY DEF Matches, NoStatus
  <2> QED BY <1>13, <2>1, IdleFields DEF Publish, TagInv, RenewalKeepsBytes, disk, Matches
<1>14. CASE Crash
  BY <1>14, TagLose DEF Crash, disk
<1>15. CASE PowerLoss
  BY <1>15, TagLose DEF PowerLoss
<1>16. CASE \/ \E d \in Readers : Admit(d) \/ Evaluate(d)
            \/ CloseEngine
            \/ \E s \in Sources, r \in Revisions : Serve(s, r)
            \/ \E r \in Revisions, c \in Contents : Damage(r, c)
  BY <1>16 DEF Admit, Evaluate, CloseEngine, Serve, Damage, TagInv,
     RenewalKeepsBytes, disk, Matches
<1>17. CASE UNCHANGED vars
  BY <1>17 DEF vars, disk, TagInv, RenewalKeepsBytes, Matches
<1> QED
  BY <1>1, <1>2, <1>3, <1>4, <1>5, <1>6, <1>7, <1>8, <1>9, <1>10, <1>11, <1>12,
     <1>13, <1>14, <1>15, <1>16, <1>17
  DEF Next, Startup, Call, Progress, Environment

LEMMA TagsHold == Spec => []TagInv
<1>1. Init => TagInv
  BY IdleFields DEF Init, TagInv, RenewalKeepsBytes, Matches, NoStatus
<1>2. TypeInv /\ TagInv /\ [Next]_vars => TagInv'
  BY TagStep
<1> QED BY <1>1, <1>2, TypesHold, PTL DEF Spec

\* A tag that is kept names the revision it is kept with, through fallback,
\* rollback, failed calls and changes of source.
THEOREM TagsMatch == Spec => []SavedTagMatches
<1>1. TagInv => SavedTagMatches
  BY DEF TagInv, SavedTagMatches, Matches
<1> QED BY <1>1, TagsHold, PTL

\* When a source answers "not modified", what it serves is the active revision:
\* it rests on tags that name one content at one source, and on nothing about
\* tags of different sources.
THEOREM RenewalSound == Spec => []RenewalKeepsBytes
<1>1. TagInv => RenewalKeepsBytes
  BY DEF TagInv
<1> QED BY <1>1, TagsHold, PTL

------------------------------------------------------------------------------
(* What readers run under is tested and in the engine.                     *)

\* A revision that a reader may be given.
Fit(r) == r \in Passing /\ (~closed => r \in prepared)

\* AdmittedIsPrepared and ReadersRunTestedRevision speak of admitted readers
\* alone.  Readers are admitted with the active revision, which is the one a
\* call carries since its tests: each of these is fit.
ReaderInv ==
    /\ \A d \in Readers : reader[d] # NoRev => Fit(reader[d])
    /\ active.rev # NoRev => Fit(active.rev)
    /\ op.pc = "testing" /\ ~closed => op.content \in prepared
    /\ op.pc \in {"artifact", "artifactSync", "persist", "stateSync", "publish"} =>
        Fit(op.next.rev)

LEMMA LoseMemoryReader ==
    ASSUME TypeInv, LoseMemory
    PROVE  ReaderInv'
<1>1. NoStatus.rev = NoRev /\ Idle.pc = "idle"
  BY DEF NoStatus, Idle
<1>2. \A d \in Readers : reader'[d] = NoRev
  BY DEF LoseMemory
<1> QED BY <1>1, <1>2 DEF LoseMemory, ReaderInv

LEMMA ReturnErrorReader ==
    ASSUME TypeInv, ReaderInv, ReturnError
    PROVE  ReaderInv'
<1>1. active'.rev = active.rev
  BY DEF ReturnError, TypeInv, TypeOK, Status
<1> QED BY <1>1, IdleFields DEF ReturnError, ReaderInv, Fit, engine

\* A step that leaves readers, snapshot and engine alone, and enters none of the
\* steps after the tests.
LEMMA QuietReader ==
    ASSUME ReaderInv, UNCHANGED <<reader, active, engine>>,
           op'.pc \in {"idle", "checking", "fetching"}
    PROVE  ReaderInv'
BY DEF ReaderInv, Fit, engine

LEMMA ReaderStep ==
    ASSUME TypeInv, ReaderInv, [Next]_vars
    PROVE  ReaderInv'
<1>1. CASE Failure
  <2>1. Fail
    BY <1>1 DEF Failure, FetchFails, CompileFails, RunTestsFails, ArtifactFails,
       SyncArtifactFails, WriteStateFails, SyncStateFails
  <2>2. CASE FallBack
    BY <2>2, FallBackFields, QuietReader DEF FallBack
  <2> QED BY <2>1, <2>2, LoseMemoryReader, ReturnErrorReader DEF Fail
<1>2. CASE BootEmpty
  BY <1>2 DEF BootEmpty, ReaderInv, Fit, engine
<1>3. CASE BootSaved
  BY <1>3, BootFields, QuietReader DEF BootSaved
<1>4. CASE Call
  <2>1. ASSUME NEW r \in Revisions, RollbackUnknown(r)
        PROVE  ReaderInv'
    BY <2>1, ReturnErrorReader DEF RollbackUnknown
  <2>2. CASE \/ \E c \in Revisions \cup {Corrupt}, s \in Sources,
                   t \in Tags \cup {NoTag} : Activate(c, s, t)
             \/ \E r \in Revisions : Rollback(r)
             \/ \E s \in Sources : Refresh(s)
    <3>1. UNCHANGED <<reader, active, engine>>
      BY <2>2 DEF Activate, Rollback, Refresh
    <3> QED BY <1>4, <3>1, CallBegins, QuietReader
  <2> QED BY <1>4, <2>1, <2>2 DEF Call
<1>5. CASE FetchBytes
  <2>1. op'.pc = "checking"
    BY <1>5 DEF FetchBytes, TypeInv, TypeOK, Op
  <2> QED BY <1>5, <2>1, QuietReader DEF FetchBytes
<1>6. CASE FetchNotModified
  <2>1. op'.pc = "persist" /\ op'.next = [active EXCEPT !.err = "none"]
    BY <1>6 DEF FetchNotModified, TypeInv, TypeOK, Op
  <2>2. op'.next.rev = active.rev /\ active.rev # NoRev
    BY <1>6, <2>1 DEF FetchNotModified, TypeInv, TypeOK, Status
  <2> QED BY <1>6, <2>1, <2>2 DEF FetchNotModified, ReaderInv, Fit, engine
<1>7. CASE Compile
  <2>1. op'.pc = "testing" /\ op'.content = op.content
    BY <1>7 DEF Compile, Advance, TypeInv, TypeOK, Op
  <2>2. /\ prepared' = prepared \cup {op.content}
        /\ UNCHANGED <<reader, active, closed>>
    BY <1>7 DEF Compile, Advance
  <2> QED BY <2>1, <2>2 DEF ReaderInv, Fit
<1>8. CASE RunTests
  <2>1. op.content \in Passing /\ ~closed /\ op.content \in prepared
    BY <1>8 DEF RunTests, TestsPass, ReaderInv
  <2>2. op'.pc \in {"artifact", "persist"} /\ op'.next.rev = op.content
    BY <1>8, RunTestsFields DEF RunTests, TestsPass, Candidate
  <2> QED BY <1>8, <2>1, <2>2 DEF RunTests, ReaderInv, Fit, engine
<1>9. CASE KeepArtifact \/ WriteArtifact \/ SyncArtifact \/ WriteState \/ SyncState
  <2>1. op.pc \in {"artifact", "artifactSync", "persist", "stateSync"}
        /\ op'.pc # "testing"
    BY <1>9 DEF KeepArtifact, WriteArtifact, SyncArtifact, WriteState, SyncState,
       Advance, TypeInv, TypeOK, Op
  <2>2. UNCHANGED <<reader, active, engine>> /\ op'.next = op.next
    BY <1>9, MoveFields DEF KeepArtifact, WriteArtifact, SyncArtifact, WriteState,
       SyncState
  <2> QED BY <2>1, <2>2 DEF ReaderInv, Fit, engine
<1>10. CASE Publish
  <2>1. op'.pc = "idle" /\ active' = op.next /\ UNCHANGED <<reader, engine>>
    BY <1>10, IdleFields DEF Publish
  <2>2. Fit(op.next.rev)
    BY <1>10 DEF Publish, ReaderInv
  <2> QED BY <2>1, <2>2 DEF ReaderInv, Fit, engine
<1>11. CASE Crash \/ PowerLoss
  BY <1>11, LoseMemoryReader DEF Crash, PowerLoss
<1>12. ASSUME NEW d \in Readers, Admit(d)
       PROVE  ReaderInv'
  <2>1. \A e \in Readers : reader'[e] = IF e = d THEN active.rev ELSE reader[e]
    BY <1>12 DEF Admit, TypeInv, TypeOK
  <2> QED BY <1>12, <2>1 DEF Admit, ReaderInv, Fit, engine
<1>13. ASSUME NEW d \in Readers, Evaluate(d)
       PROVE  ReaderInv'
  <2>1. \A e \in Readers : reader'[e] = IF e = d THEN NoRev ELSE reader[e]
    BY <1>13 DEF Evaluate, TypeInv, TypeOK
  <2> QED BY <1>13, <2>1 DEF Evaluate, ReaderInv, Fit, engine
<1>14. CASE CloseEngine
  BY <1>14 DEF CloseEngine, ReaderInv, Fit
<1>15. CASE \/ \E s \in Sources, r \in Revisions : Serve(s, r)
            \/ \E r \in Revisions, c \in Contents : Damage(r, c)
  BY <1>15 DEF Serve, Damage, ReaderInv, Fit, engine
<1>16. CASE UNCHANGED vars
  BY <1>16 DEF vars, engine, ReaderInv, Fit
<1> QED
  BY <1>1, <1>2, <1>3, <1>4, <1>5, <1>6, <1>7, <1>8, <1>9, <1>10, <1>11, <1>12,
     <1>13, <1>14, <1>15, <1>16
  DEF Next, Startup, Progress, Environment

LEMMA ReadersHold == Spec => []ReaderInv
<1>1. Init => ReaderInv
  <2> SUFFICES ASSUME Init PROVE ReaderInv OBVIOUS
  <2>1. active.rev = NoRev /\ op.pc = "idle"
    BY IdleFields DEF Init, NoStatus
  <2>2. \A d \in Readers : reader[d] = NoRev
    BY DEF Init
  <2> QED BY <2>1, <2>2 DEF ReaderInv
<1>2. TypeInv /\ ReaderInv /\ [Next]_vars => ReaderInv'
  BY ReaderStep
<1> QED BY <1>1, <1>2, TypesHold, PTL DEF Spec

\* An admitted reader finds its revision in the engine, however many revisions
\* are activated before it evaluates and however small the cache is.
THEOREM AdmittedFindsRevision == Spec => []AdmittedIsPrepared
<1>1. ReaderInv => AdmittedIsPrepared
  BY DEF ReaderInv, AdmittedIsPrepared, Fit
<1> QED BY <1>1, ReadersHold, PTL

\* No reader ever runs under a revision whose scenarios do not pass.
THEOREM OnlyTestedRevisions == Spec => []ReadersRunTestedRevision
<1>1. ReaderInv => ReadersRunTestedRevision
  BY DEF ReaderInv, ReadersRunTestedRevision, Fit
<1> QED BY <1>1, ReadersHold, PTL

------------------------------------------------------------------------------
(* The fallback revision was in force.                                     *)

\* The fallback of a status is another revision, and one that was in force.
GoodPrevious(s) == s.prev # NoRev => s.prev \in served /\ s.prev # s.rev

\* PreviousWasServed, and the same of the state a call is about to write; the
\* next fallback is the active revision, hence the second conjunct.
PrevInv ==
    /\ \A s \in maybeSaved \cup {active, saved, op.next} : GoodPrevious(s)
    /\ active.rev # NoRev => active.rev \in served

LEMMA PrevLose ==
    ASSUME PrevInv, LoseMemory,
           \A s \in (maybeSaved \cup {saved})' : s \in maybeSaved \cup {saved}
    PROVE  PrevInv'
<1>1. GoodPrevious(NoStatus) /\ NoStatus.rev = NoRev
  BY DEF GoodPrevious, NoStatus
<1> QED BY <1>1, IdleFields DEF LoseMemory, PrevInv, GoodPrevious

LEMMA PrevReturn ==
    ASSUME TypeInv, PrevInv, ReturnError, UNCHANGED disk
    PROVE  PrevInv'
<1>1. GoodPrevious(NoStatus)
  BY DEF GoodPrevious, NoStatus
<1>2. active'.rev = active.rev /\ active'.prev = active.prev
  BY DEF ReturnError, TypeInv, TypeOK, Status
<1>3. GoodPrevious(active)'
  BY <1>2 DEF ReturnError, PrevInv, GoodPrevious
<1>4. op'.next = NoStatus /\ UNCHANGED <<maybeSaved, saved, served>>
  BY IdleFields DEF ReturnError, disk
<1> QED BY <1>1, <1>2, <1>3, <1>4 DEF PrevInv, GoodPrevious

\* A step that leaves snapshot and history alone, writes nothing to state.json
\* but what the call carries, and carries a good status afterwards.
LEMMA PrevMove ==
    ASSUME PrevInv, UNCHANGED <<active, served>>,
           \A s \in (maybeSaved \cup {saved})' : s \in maybeSaved \cup {saved, op.next},
           GoodPrevious(op'.next)
    PROVE  PrevInv'
BY DEF PrevInv, GoodPrevious

LEMMA PrevStep ==
    ASSUME TypeInv, PrevInv, [Next]_vars
    PROVE  PrevInv'
<1>1. CASE Failure
  <2>1. Fail /\ UNCHANGED disk
    BY <1>1 DEF Failure, FetchFails, CompileFails, RunTestsFails, ArtifactFails,
       SyncArtifactFails, WriteStateFails, SyncStateFails
  <2>2. CASE FallBack
    <3>1. GoodPrevious(op'.next)
      BY <2>2, FallBackFields DEF GoodPrevious
    <3> QED BY <2>1, <2>2, <3>1, PrevMove DEF FallBack, disk, history
  <2> QED BY <2>1, <2>2, PrevLose, PrevReturn DEF Fail, disk
<1>2. CASE BootEmpty
  BY <1>2 DEF BootEmpty, PrevInv, GoodPrevious, disk
<1>3. CASE BootSaved
  BY <1>3, BootFields DEF BootSaved, PrevInv, GoodPrevious, disk, history
<1>4. CASE Call
  <2>1. ASSUME NEW r \in Revisions, RollbackUnknown(r)
        PROVE  PrevInv'
    BY <2>1, PrevReturn DEF RollbackUnknown
  <2>2. CASE \/ \E c \in Revisions \cup {Corrupt}, s \in Sources,
                   t \in Tags \cup {NoTag} : Activate(c, s, t)
             \/ \E r \in Revisions : Rollback(r)
             \/ \E s \in Sources : Refresh(s)
    <3>1. op'.next = NoStatus /\ UNCHANGED <<disk, active, history>>
      BY <2>2 DEF Activate, Rollback, Refresh, Idle
    <3>2. GoodPrevious(NoStatus)
      BY DEF GoodPrevious, NoStatus
    <3> QED BY <3>1, <3>2, PrevMove DEF disk, history
  <2> QED BY <1>4, <2>1, <2>2 DEF Call
<1>5. CASE FetchBytes
  <2>1. op'.next = op.next
    BY <1>5 DEF FetchBytes, TypeInv, TypeOK, Op
  <2> QED BY <1>5, <2>1, PrevMove DEF FetchBytes, PrevInv, disk, history
<1>6. CASE FetchNotModified
  <2>1. op'.next = [active EXCEPT !.err = "none"]
    BY <1>6 DEF FetchNotModified, TypeInv, TypeOK, Op
  <2>2. op'.next.prev = active.prev /\ op'.next.rev = active.rev
    BY <2>1 DEF TypeInv, TypeOK, Status
  <2>3. GoodPrevious(op'.next)
    BY <2>2 DEF PrevInv, GoodPrevious
  <2> QED BY <1>6, <2>3, PrevMove DEF FetchNotModified, disk, history
<1>7. CASE RunTests
  <2>1. GoodPrevious(Candidate)
    BY DEF Candidate, PrevInv, GoodPrevious
  <2>2. GoodPrevious(op'.next)
    BY <1>7, <2>1, RunTestsFields DEF PrevInv
  <2> QED BY <1>7, <2>2, PrevMove DEF RunTests, disk, history
<1>8. CASE Compile \/ KeepArtifact \/ WriteArtifact \/ SyncArtifact \/ WriteState
           \/ SyncState
  <2>1. \A s \in (maybeSaved \cup {saved})' : s \in maybeSaved \cup {saved, op.next}
    BY <1>8 DEF Compile, KeepArtifact, WriteArtifact, SyncArtifact, WriteState,
       SyncState, SyncDirectory, disk
  <2>2. UNCHANGED served
    BY <1>8 DEF Compile, KeepArtifact, WriteArtifact, SyncArtifact, WriteState,
       SyncState, history
  <2> QED BY <1>8, <2>1, <2>2, MoveFields, PrevMove DEF PrevInv
<1>9. CASE Publish
  <2>1. GoodPrevious(NoStatus)
    BY DEF GoodPrevious, NoStatus
  <2> QED BY <1>9, <2>1, IdleFields DEF Publish, PrevInv, GoodPrevious, disk
<1>10. CASE Crash \/ PowerLoss
  BY <1>10, PrevLose DEF Crash, PowerLoss, disk
<1>11. CASE \/ \E d \in Readers : Admit(d) \/ Evaluate(d)
            \/ CloseEngine
            \/ \E s \in Sources, r \in Revisions : Serve(s, r)
            \/ \E r \in Revisions, c \in Contents : Damage(r, c)
  BY <1>11 DEF Admit, Evaluate, CloseEngine, Serve, Damage, PrevInv, GoodPrevious,
     disk, history
<1>12. CASE UNCHANGED vars
  BY <1>12 DEF vars, disk, history, PrevInv, GoodPrevious
<1> QED
  BY <1>1, <1>2, <1>3, <1>4, <1>5, <1>6, <1>7, <1>8, <1>9, <1>10, <1>11, <1>12
  DEF Next, Startup, Progress, Environment

LEMMA PrevHolds == Spec => []PrevInv
<1>1. Init => PrevInv
  BY IdleFields DEF Init, PrevInv, GoodPrevious, NoStatus
<1>2. TypeInv /\ PrevInv /\ [Next]_vars => PrevInv'
  BY PrevStep
<1> QED BY <1>1, <1>2, TypesHold, PTL DEF Spec

\* The revision a start may fall back to is another one than it replaces and
\* was in force, in memory and in every state file that may be found.
THEOREM FallbackWasServed == Spec => []PreviousWasServed
<1>1. PrevInv => PreviousWasServed
  BY DEF PrevInv, PreviousWasServed, GoodPrevious
<1> QED BY <1>1, PrevHolds, PTL
==============================================================================
