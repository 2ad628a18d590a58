------------------------- MODULE PolicyRecoveryProofs -------------------------
(***************************************************************************)
(* Proofs about PolicyManager, for every value of its constants: what a    *)
(* crash or a loss of power leaves of the directory is enough to start     *)
(* from, and, as long as directory fsyncs succeed, holds both the archive  *)
(* that state.json names and its fallback's.  Nobody else damages or       *)
(* replaces an archive.  On the same assumption PolicyManager implements   *)
(* PolicyLifecycle.                                                        *)
(***************************************************************************)
EXTENDS PolicyManagerProofs

USE DEF OnlineCalls, StartupCalls

------------------------------------------------------------------------------
(* The invariant.                                                          *)

\* The sound archive of r is on the disk for good.
Kept(r) == maybeArtifact[r] = {r}

\* No rename waits for an fsync of the directory.
Synced == \A r \in Revisions : maybeArtifact[r] = {artifact[r]}

\* A fallback is always one that was kept.  So a state that has one is enough
\* to start from, as is one whose own archive is kept.
SoundFallback(s) == s.prev # NoRev => Kept(s.prev)
Startable(s) == s.rev # NoRev /\ (Kept(s.rev) \/ s.prev # NoRev)

Written == {"persist", "stateSync", "publish"}

\* An archive is only ever added, under its own name.
Stored ==
    \A r \in Revisions :
        artifact[r] \in maybeArtifact[r] /\ maybeArtifact[r] \subseteq {Missing, r}

\* EveryCrashStarts.
Files ==
    /\ saved \in maybeSaved
    /\ \A s \in maybeSaved : SoundFallback(s)
    /\ committed # NoRev => \A s \in maybeSaved : Startable(s)

\* The active revision, which is the next fallback, was synced with its state.
Memory ==
    /\ SoundFallback(active)
    /\ active.rev # NoRev => Kept(active.rev)
    /\ process = "up" /\ committed # NoRev => active.rev # NoRev
    /\ process # "up" => active = NoStatus

\* The state a call is about to write names an archive that is in place, and
\* after an acknowledgement one that is kept or a fallback.
Carried ==
    /\ SoundFallback(op.next)
    /\ op.pc = "publish" => Synced
    /\ op.pc = "artifact" => op.content = op.next.rev
    /\ op.call \in StartupCalls /\ op.pc \in {"checking", "testing"} =>
        op.content = artifact[op.next.rev]
    /\ op.pc \in Written \cup {"artifactSync"} => artifact[op.next.rev] = op.next.rev
    /\ committed # NoRev /\ (op.call \in StartupCalls
                             \/ op.pc \in Written \cup {"artifact", "artifactSync"}) =>
        Startable(op.next)

StartInv == Stored /\ Files /\ Memory /\ Carried

\* With fsyncs that succeed: a running manager that has an active revision has
\* settled every rename but the one it is about to sync.  That is why an archive
\* found in place need not be synced again.
SettledInv ==
    /\ active.rev # NoRev /\ op.pc # "artifactSync" => Synced
    /\ committed # NoRev => \A s \in maybeSaved : Kept(s.rev)
    /\ committed # NoRev /\ (op.call \in StartupCalls \/ op.pc \in Written) =>
        Kept(op.next.rev)

------------------------------------------------------------------------------
(* What the steps do to the directory.                                     *)

\* Nobody but the manager touches an archive.
Undamaged == Faults \cap {"corrupt", "misfile"} = {}

\* What is on the disk for good stays.
Keeps == Stored' /\ \A r \in Revisions : Kept(r) => Kept(r)'

LEMMA SyncKeeps ==
    ASSUME Stored, SyncDirectory
    PROVE  Keeps /\ Synced'
<1>1. \A r \in Revisions : maybeArtifact'[r] = {artifact[r]} /\ artifact'[r] = artifact[r]
  BY DEF SyncDirectory
<1> QED BY <1>1 DEF Stored, Keeps, Kept, Synced

LEMMA PowerLossKeeps ==
    ASSUME Stored, PowerLoss
    PROVE  Keeps
<1>1. \A r \in Revisions : artifact'[r] \in maybeArtifact[r]
                           /\ maybeArtifact'[r] = {artifact'[r]}
  BY DEF PowerLoss
<1> QED BY <1>1 DEF Stored, Keeps, Kept

\* An archive is written where there is none, so nothing that was there for
\* good is put at risk.
LEMMA WriteKeeps ==
    ASSUME TypeInv, Stored, Carried, WriteArtifact
    PROVE  Keeps /\ artifact'[op.next.rev] = op.next.rev
<1> DEFINE q == op.next.rev
<1>1. q \in Revisions /\ op.content = q /\ artifact[q] = Missing
  BY DEF WriteArtifact, TypeInv, OpShape, Carried
<1>2. \A r \in Revisions :
        /\ artifact'[r] = IF r = q THEN q ELSE artifact[r]
        /\ maybeArtifact'[r] = IF r = q THEN maybeArtifact[r] \cup {q}
                                        ELSE maybeArtifact[r]
  BY <1>1 DEF WriteArtifact, TypeInv, TypeOK
<1>3. ~Kept(q)
  <2>1. Missing \in maybeArtifact[q] /\ Missing # q
    BY <1>1, NullsAssumption DEF Stored
  <2> QED BY <2>1 DEF Kept
<1>4. Stored'
  <2> SUFFICES ASSUME NEW r \in Revisions
               PROVE  /\ artifact'[r] \in maybeArtifact'[r]
                      /\ maybeArtifact'[r] \subseteq {Missing, r}
    BY DEF Stored
  <2>1. CASE r = q
    <3>1. artifact'[r] = r /\ maybeArtifact'[r] = maybeArtifact[r] \cup {r}
      BY <1>2, <2>1
    <3>2. maybeArtifact[r] \subseteq {Missing, r}
      BY DEF Stored
    <3> QED BY <3>1, <3>2
  <2>2. CASE r # q
    BY <1>2, <2>2 DEF Stored
  <2> QED BY <2>1, <2>2
<1>5. \A r \in Revisions : Kept(r) => Kept(r)'
  BY <1>2, <1>3 DEF Kept
<1> QED BY <1>1, <1>2, <1>4, <1>5 DEF Keeps

LEMMA NextKeeps ==
    ASSUME Undamaged, TypeInv, Stored, Carried, [Next]_vars
    PROVE  Keeps
<1>1. CASE WriteArtifact
  BY <1>1, WriteKeeps
<1>2. CASE SyncArtifact \/ SyncState
  BY <1>2, SyncKeeps DEF SyncArtifact, SyncState
<1>3. CASE PowerLoss
  BY <1>3, PowerLossKeeps
<1>4. \A r \in Revisions, c \in Contents : ~Damage(r, c)
  BY DEF Damage, Undamaged
<1>5. CASE UNCHANGED <<artifact, maybeArtifact>>
  BY <1>5 DEF Stored, Keeps, Kept
<1>6. CASE Startup \/ Call \/ Failure \/ UNCHANGED vars
  <2>1. UNCHANGED <<artifact, maybeArtifact>>
    BY <1>6 DEF Startup, BootEmpty, BootSaved, Call, Activate, Rollback,
       RollbackUnknown, Refresh, Failure, FetchFails, CompileFails, RunTestsFails,
       ArtifactFails, SyncArtifactFails, WriteStateFails, SyncStateFails, vars, disk
  <2> QED BY <1>5, <2>1
<1>7. CASE Progress
  BY <1>1, <1>2, <1>5, <1>7 DEF Progress, FetchBytes, FetchNotModified, Compile,
     RunTests, KeepArtifact, WriteState, Publish, disk
<1>8. CASE Environment
  BY <1>3, <1>4, <1>5, <1>8 DEF Environment, Admit, Evaluate, CloseEngine, Crash,
     Serve, disk
<1> QED BY <1>6, <1>7, <1>8 DEF Next

------------------------------------------------------------------------------
(* Every crash leaves something to start from.                             *)

\* A status stays sound.
LEMMA SoundStays ==
    ASSUME Keeps, NEW s \in Status
    PROVE  /\ SoundFallback(s) => SoundFallback(s)'
           /\ Startable(s) => Startable(s)'
BY DEF Keeps, SoundFallback, Startable, Status

\* A step that writes no state.json and takes no acknowledgement.
LEMMA FilesStay ==
    ASSUME TypeInv, Keeps, Files, saved' \in maybeSaved', maybeSaved' \subseteq maybeSaved,
           UNCHANGED committed
    PROVE  Files'
BY SoundStays DEF Files, TypeInv, TypeOK

\* A step that leaves the snapshot alone.
LEMMA MemoryStays ==
    ASSUME TypeInv, Keeps, Memory, UNCHANGED <<active, committed>>,
           process' = process \/ (process' # "up" /\ process # "up")
    PROVE  Memory'
<1>1. SoundFallback(active)' /\ (active.rev # NoRev => Kept(active.rev)')
  BY DEF TypeInv, TypeOK, Status, Keeps, Memory, SoundFallback, Kept
<1> QED BY <1>1 DEF Memory

\* A step that moves a call on with the state it carries.
LEMMA CarriedStays ==
    ASSUME TypeInv, Keeps, Carried, op'.next = op.next
    PROVE  /\ SoundFallback(op.next)'
           /\ Startable(op.next) => Startable(op.next)'
BY DEF TypeInv, TypeOK, Op, Status, Keeps, Carried, SoundFallback, Startable, Kept

\* No call, or one that has not reached its state yet.
LEMMA EmptyHanded ==
    ASSUME op'.next = NoStatus, op'.pc \in {"idle", "checking", "fetching"},
           op'.call \notin StartupCalls
    PROVE  Carried'
BY DEF Carried, NoStatus, SoundFallback, Written

LEMMA LoseMemoryStarts ==
    ASSUME TypeInv, StartInv, Keeps, LoseMemory,
           saved' \in maybeSaved', maybeSaved' \subseteq maybeSaved
    PROVE  StartInv'
<1>1. Files'
  BY FilesStay DEF LoseMemory, StartInv
<1>2. Memory'
  BY DEF LoseMemory, Memory, NoStatus, SoundFallback
<1>3. Carried'
  BY EmptyHanded DEF LoseMemory, Idle
<1> QED BY <1>1, <1>2, <1>3 DEF StartInv, Keeps

LEMMA ReturnErrorStarts ==
    ASSUME TypeInv, StartInv, Keeps, ReturnError, UNCHANGED disk, process = "up"
    PROVE  StartInv'
<1>1. Files'
  BY FilesStay DEF ReturnError, StartInv, Files, disk
<1>2. Memory'
  <2>1. /\ active'.rev = active.rev /\ active'.prev = active.prev
        /\ UNCHANGED <<process, committed, maybeArtifact>>
    BY DEF ReturnError, TypeInv, TypeOK, Status, disk
  <2> QED BY <2>1 DEF StartInv, Memory, SoundFallback, Kept
<1>3. Carried'
  BY EmptyHanded DEF ReturnError, Idle
<1> QED BY <1>1, <1>2, <1>3 DEF StartInv, Keeps

\* The fallback was kept before the state that names it was written.
LEMMA FallBackStarts ==
    ASSUME TypeInv, StartInv, Keeps, FallBack, UNCHANGED disk, op.next.prev # NoRev
    PROVE  StartInv'
<1>1. Files'
  BY FilesStay DEF FallBack, StartInv, Files, disk, history
<1>2. Memory'
  BY MemoryStays DEF FallBack, StartInv, history
<1>3. Carried'
  <2>1. /\ op'.pc = "checking" /\ op'.content = artifact[op.next.prev]
        /\ op'.next.rev = op.next.prev /\ op'.next.prev = NoRev
    BY DEF FallBack, TypeInv, TypeOK, Op
  <2>2. Kept(op.next.prev)
    BY DEF StartInv, Carried, SoundFallback
  <2> QED BY <2>1, <2>2 DEF Carried, SoundFallback, Startable, Written, Kept, disk
<1> QED BY <1>1, <1>2, <1>3 DEF StartInv, Keeps

LEMMA FailureStarts ==
    ASSUME TypeInv, StartInv, Keeps, Failure
    PROVE  StartInv'
<1>1. Fail /\ UNCHANGED disk
  BY DEF Failure, FetchFails, CompileFails, RunTestsFails, ArtifactFails,
     SyncArtifactFails, WriteStateFails, SyncStateFails
<1>2. saved \in maybeSaved
  BY DEF StartInv, Files
<1>3. op.call \in OnlineCalls => process = "up"
  BY DEF TypeInv, OpShape
<1> QED BY <1>1, <1>2, <1>3, ReturnErrorStarts, FallBackStarts, LoseMemoryStarts DEF Fail, disk

LEMMA BootStarts ==
    ASSUME TypeInv, StartInv, Keeps, Startup
    PROVE  StartInv'
<1>1. Files'
  BY FilesStay DEF Startup, BootEmpty, BootSaved, StartInv, Files, disk, history
<1>2. CASE BootEmpty
  <2>1. committed = NoRev
    BY <1>2 DEF BootEmpty, StartInv, Files, Startable
  <2>2. Memory'
    BY <1>2, <2>1 DEF BootEmpty, StartInv, Memory, SoundFallback, Kept, disk
  <2>3. Carried'
    BY <1>2 DEF BootEmpty, StartInv, Carried, SoundFallback, Startable, Kept, Synced,
       disk
  <2> QED BY <1>1, <2>2, <2>3 DEF StartInv, Keeps
<1>3. CASE BootSaved
  <2>1. /\ op'.pc = "checking" /\ op'.call = "primary" /\ op'.next = saved
        /\ op'.content = artifact[saved.rev]
    BY <1>3 DEF BootSaved, Idle
  <2>2. SoundFallback(saved) /\ (committed # NoRev => Startable(saved))
    BY DEF StartInv, Files
  <2>3. UNCHANGED <<disk, active, history>> /\ process # "up" /\ process' # "up"
    BY <1>3 DEF BootSaved
  <2>4. Memory'
    BY <2>3, MemoryStays DEF StartInv, history
  <2>5. Carried'
    BY <2>1, <2>2, <2>3 DEF Carried, Written, Kept, SoundFallback, Startable, disk,
       history
  <2> QED BY <1>1, <2>4, <2>5 DEF StartInv, Keeps
<1> QED BY <1>2, <1>3 DEF Startup

\* The steps that change no file, snapshot or acknowledgement.
LEMMA QuietStarts ==
    ASSUME TypeInv, StartInv, Keeps, UNCHANGED <<disk, active, committed, process>>,
           Carried'
    PROVE  StartInv'
<1>1. Files'
  BY FilesStay DEF StartInv, Files, disk
<1>2. Memory'
  BY MemoryStays DEF StartInv
<1> QED BY <1>1, <1>2 DEF StartInv, Keeps

LEMMA CallStarts ==
    ASSUME TypeInv, StartInv, Keeps, Call
    PROVE  StartInv'
<1>1. ASSUME NEW r \in Revisions, RollbackUnknown(r)
      PROVE  StartInv'
  BY <1>1, ReturnErrorStarts DEF RollbackUnknown, CanStart
<1>2. ASSUME \/ \E c \in Revisions \cup {Corrupt}, s \in Sources,
                   t \in Tags \cup {NoTag} : Activate(c, s, t)
             \/ \E r \in Revisions : Rollback(r)
             \/ \E s \in Sources : Refresh(s)
      PROVE  StartInv'
  <2>1. /\ op'.pc \in {"checking", "fetching"}
        /\ op'.call = "activate" /\ op'.next = NoStatus
        /\ UNCHANGED <<disk, active, process, history>>
    BY <1>2 DEF Activate, Rollback, Refresh, Idle
  <2> QED BY <2>1, EmptyHanded, QuietStarts DEF history
<1> QED BY <1>1, <1>2 DEF Call

LEMMA FetchStarts ==
    ASSUME TypeInv, StartInv, Keeps, FetchBytes \/ FetchNotModified
    PROVE  StartInv'
<1>1. CASE FetchBytes
  <2>1. op'.pc = "checking" /\ op'.call = "activate" /\ op'.next = op.next
    BY <1>1 DEF FetchBytes, TypeInv, OpShape, TypeOK, Op
  <2>2. Carried'
    BY <2>1, CarriedStays DEF StartInv, Carried, Written
  <2> QED BY <1>1, <2>2, QuietStarts DEF FetchBytes, history
<1>2. CASE FetchNotModified
  <2>1. op'.pc = "persist" /\ op'.call = "renew" /\ op'.next = [active EXCEPT !.err = "none"]
    BY <1>2 DEF FetchNotModified, TypeInv, TypeOK, Op
  <2>2. /\ op'.next.rev = active.rev /\ op'.next.prev = active.prev
        /\ active.rev \in Revisions /\ active.rev # NoRev
    BY <1>2, <2>1 DEF FetchNotModified, TypeInv, TypeOK, Status
  <2>3. Kept(active.rev) /\ SoundFallback(active)
    BY <2>2 DEF StartInv, Memory
  <2>4. artifact[active.rev] = active.rev
    BY <2>2, <2>3 DEF StartInv, Stored, Kept
  <2>5. Carried'
    BY <1>2, <2>1, <2>2, <2>3, <2>4 DEF FetchNotModified, Carried, SoundFallback,
       Startable, Kept, disk, history
  <2> QED BY <1>2, <2>5, QuietStarts DEF FetchNotModified, history
<1> QED BY <1>1, <1>2

\* The predecessor of a candidate is the active revision or its predecessor.
LEMMA ValidateStarts ==
    ASSUME TypeInv, StartInv, Keeps, Compile \/ RunTests
    PROVE  StartInv'
<1>1. CASE Compile
  <2>1. op.pc = "checking" /\ op'.pc = "testing" /\ UNCHANGED <<disk, history>>
    BY <1>1 DEF Compile, Advance, TypeInv, TypeOK, Op
  <2>2. Carried'
    BY <1>1, <2>1, MoveFields, CarriedStays DEF StartInv, Carried, Written, disk, history
  <2> QED BY <1>1, <2>1, <2>2, MoveFields, QuietStarts DEF history
<1>2. CASE RunTests /\ op.call = "activate"
  <2>1. /\ op'.pc = "artifact" /\ op'.call = "activate" /\ op'.next = Candidate
        /\ op'.content = op.content
    BY <1>2 DEF RunTests, TypeInv, TypeOK, Op
  <2>2. op.content \in Revisions /\ op.content # NoRev /\ process = "up"
    BY <1>2, NullsAssumption DEF RunTests, TypeInv, OpShape
  <2>3. SoundFallback(Candidate) /\ (committed # NoRev => Startable(Candidate))
    BY <2>2 DEF Candidate, StartInv, Memory, SoundFallback, Startable
  <2>4. Carried'
    BY <1>2, <2>1, <2>3 DEF RunTests, Candidate, Carried, SoundFallback, Startable, Kept,
       Written, disk, history
  <2> QED BY <1>2, <2>4, QuietStarts DEF RunTests, history
<1>3. CASE RunTests /\ op.call # "activate"
  <2>1. op.call \in StartupCalls
    BY <1>3 DEF RunTests, TypeInv, OpShape, TypeOK, Op
  <2>2. op'.pc = "persist" /\ op'.call = op.call /\ op'.next = op.next
    BY <1>3 DEF RunTests, TypeInv, TypeOK, Op
  <2>3. artifact[op.next.rev] = op.next.rev /\ (committed # NoRev => Startable(op.next))
    BY <1>3, <2>1 DEF RunTests, TestsPass, StartInv, Carried
  <2>4. Carried'
    BY <1>3, <2>2, <2>3, CarriedStays DEF RunTests, StartInv, Carried, disk, history
  <2> QED BY <1>3, <2>4, QuietStarts DEF RunTests, history
<1> QED BY <1>1, <1>2, <1>3

LEMMA ArtifactStarts ==
    ASSUME TypeInv, StartInv, Keeps, KeepArtifact \/ WriteArtifact \/ SyncArtifact
    PROVE  StartInv'
<1>1. /\ op.pc \in {"artifact", "artifactSync"} /\ op'.pc \in {"artifactSync", "persist"}
      /\ op'.next = op.next /\ op'.call = op.call /\ op.call = "activate"
      /\ UNCHANGED <<active, process, saved, committed>>
  <2>1. op'.pc \in {"artifactSync", "persist"} /\ UNCHANGED <<saved, committed>>
    BY DEF KeepArtifact, WriteArtifact, SyncArtifact, SyncDirectory, Advance, TypeInv,
       TypeOK, Op, disk, history
  <2> QED BY <2>1, MoveFields DEF KeepArtifact, WriteArtifact, SyncArtifact, TypeInv,
             OpShape
<1>2. artifact'[op.next.rev] = op.next.rev
  <2>1. CASE WriteArtifact
    BY <2>1, WriteKeeps DEF StartInv
  <2>2. CASE KeepArtifact \/ SyncArtifact
    BY <2>2 DEF KeepArtifact, SyncArtifact, SyncDirectory, StartInv, Carried, disk
  <2> QED BY <2>1, <2>2
<1>3. Files'
  <2>1. saved' \in maybeSaved' /\ maybeSaved' \subseteq maybeSaved
    BY DEF KeepArtifact, WriteArtifact, SyncArtifact, SyncDirectory, StartInv, Files, disk
  <2> QED BY <1>1, <2>1, FilesStay DEF StartInv
<1>4. Memory'
  BY <1>1, MemoryStays DEF StartInv
<1>5. Carried'
  BY <1>1, <1>2, CarriedStays DEF StartInv, Carried, Written
<1> QED BY <1>3, <1>4, <1>5 DEF StartInv, Keeps

LEMMA StateStarts ==
    ASSUME TypeInv, StartInv, Keeps, WriteState \/ SyncState
    PROVE  StartInv'
<1>1. /\ op.pc \in {"persist", "stateSync"}
      /\ op'.next = op.next /\ op'.call = op.call
      /\ UNCHANGED <<active, process, artifact, committed>>
  BY MoveFields DEF WriteState, SyncState, SyncDirectory, history
<1>2. Memory'
  BY <1>1, MemoryStays DEF StartInv
<1>3. CASE WriteState
  <2>1. op'.pc = "stateSync" /\ saved' = op.next /\ maybeSaved' = maybeSaved \cup {op.next}
    BY <1>3 DEF WriteState, Advance, TypeInv, TypeOK, Op
  <2>2. SoundFallback(op.next) /\ (committed # NoRev => Startable(op.next))
    BY <1>1 DEF StartInv, Carried, Written
  <2>3. \A s \in maybeSaved' : s \in Status /\ SoundFallback(s)
                               /\ (committed # NoRev => Startable(s))
    BY <2>1, <2>2 DEF StartInv, Files, TypeInv, TypeOK, Op
  <2>4. Files'
    BY <1>1, <2>1, <2>3, SoundStays DEF Files
  <2>5. Carried'
    BY <1>1, <2>1, CarriedStays DEF StartInv, Carried, Written
  <2> QED BY <1>2, <2>4, <2>5 DEF StartInv, Keeps
<1>4. CASE SyncState
  <2>1. op'.pc = "publish" /\ SyncDirectory
    BY <1>4 DEF SyncState, Advance, TypeInv, TypeOK, Op
  <2>2. Files'
    BY <1>1, <2>1, FilesStay DEF SyncDirectory, StartInv, Files
  <2>3. Synced'
    BY <2>1, SyncKeeps DEF StartInv
  <2>4. Carried'
    BY <1>1, <2>1, <2>3, CarriedStays DEF StartInv, Carried, Written
  <2> QED BY <1>2, <2>2, <2>4 DEF StartInv, Keeps
<1> QED BY <1>3, <1>4

\* The first acknowledgement is of an archive and a state that are both synced.
LEMMA PublishStarts ==
    ASSUME TypeInv, DurableInv, StartInv, Publish
    PROVE  StartInv'
<1> DEFINE q == op.next.rev
<1>1. /\ op.pc = "publish" /\ saved = op.next /\ maybeSaved = {op.next}
      /\ q \in Revisions /\ q # NoRev
      /\ UNCHANGED disk /\ active' = op.next /\ op' = Idle /\ process' = "up"
  BY NullsAssumption DEF Publish, DurableInv, TypeInv, OpShape
<1>2. Synced /\ artifact[q] = q
  BY <1>1 DEF StartInv, Carried, Written
<1>3. Kept(q)
  BY <1>1, <1>2 DEF Synced, Kept
<1>4. SoundFallback(op.next)
  BY DEF StartInv, Carried
<1>5. Files'
  BY <1>1, <1>3, <1>4 DEF Files, Startable, SoundFallback, Kept, disk
<1>6. Memory'
  BY <1>1, <1>3, <1>4 DEF Memory, SoundFallback, Kept, disk
<1>7. Carried'
  BY <1>1, EmptyHanded DEF Idle
<1> QED BY <1>1, <1>5, <1>6, <1>7 DEF StartInv, Stored, disk

LEMMA EnvironmentStarts ==
    ASSUME Undamaged, TypeInv, StartInv, Keeps, Environment
    PROVE  StartInv'
<1>1. CASE Crash \/ PowerLoss
  <2>1. LoseMemory /\ saved' \in maybeSaved' /\ maybeSaved' \subseteq maybeSaved
    BY <1>1 DEF Crash, PowerLoss, StartInv, Files, disk
  <2> QED BY <2>1, LoseMemoryStarts
<1>2. ASSUME UNCHANGED <<disk, active, op, process, history>>
      PROVE  StartInv'
  BY <1>2 DEF StartInv, Stored, Files, Memory, Carried, SoundFallback, Startable, Kept,
     Synced, disk, history
<1>3. \A r \in Revisions, c \in Contents : ~Damage(r, c)
  BY DEF Damage, Undamaged
<1> QED BY <1>1, <1>2, <1>3 DEF Environment, Admit, Evaluate, CloseEngine, Serve

LEMMA StartStep ==
    ASSUME Undamaged, TypeInv, DurableInv, StartInv, [Next]_vars
    PROVE  StartInv'
<1>1. Keeps
  BY NextKeeps DEF StartInv
<1>2. CASE UNCHANGED vars
  BY <1>2 DEF vars, disk, history, StartInv, Stored, Files, Memory, Carried,
     SoundFallback, Startable, Kept, Synced
<1>3. CASE Progress
  BY <1>1, <1>3, FetchStarts, ValidateStarts, ArtifactStarts, StateStarts,
     PublishStarts DEF Progress
<1> QED
  BY <1>1, <1>2, <1>3, BootStarts, CallStarts, FailureStarts, EnvironmentStarts DEF Next

LEMMA StartHolds ==
    ASSUME Undamaged
    PROVE  Spec => []StartInv
<1>1. Init => StartInv
  <2> SUFFICES ASSUME Init PROVE StartInv OBVIOUS
  <2>1. \A r \in Revisions : artifact[r] = Missing /\ maybeArtifact[r] = {Missing}
    BY DEF Init
  <2>2. /\ committed = NoRev /\ active = NoStatus
        /\ saved = NoStatus /\ maybeSaved = {NoStatus}
        /\ NoStatus.prev = NoRev /\ NoStatus.rev = NoRev
        /\ op.pc = "idle" /\ op.call = "none" /\ op.next.prev = NoRev
    BY DEF Init, NoStatus, Idle
  <2> QED BY <2>1, <2>2 DEF StartInv, Stored, Files, Memory, Carried, SoundFallback,
             Written
<1>2. TypeInv /\ DurableInv /\ StartInv /\ [Next]_vars => StartInv'
  BY StartStep
<1> QED BY <1>1, <1>2, TypesHold, DurableHolds, PTL DEF Spec

\* After an acknowledgement, whatever mixture of old and new directory entries
\* is left, with any fsyncs that failed before, state.json names an archive
\* that is there or a fallback that is.
THEOREM CrashesStart ==
    ASSUME Faults \cap {"corrupt", "misfile"} = {}
    PROVE  Spec => []EveryCrashStarts
<1>1. Undamaged
  BY DEF Undamaged
<1>2. StartInv => EveryCrashStarts
  <2> SUFFICES ASSUME StartInv, committed # NoRev, NEW s \in maybeSaved
               PROVE  \E r \in {s.rev, s.prev} \ {NoRev} : maybeArtifact[r] = {r}
    BY DEF EveryCrashStarts
  <2>1. Startable(s) /\ SoundFallback(s)
    BY DEF StartInv, Files
  <2> QED BY <2>1 DEF Startable, SoundFallback, Kept
<1>3. Spec => []StartInv
  BY <1>1, StartHolds
<1> QED BY <1>2, <1>3, PTL

------------------------------------------------------------------------------
(* With fsyncs that succeed, both archives are there.                      *)

Settling == Undamaged /\ "sync" \notin Faults

LEMMA SettledFail ==
    ASSUME TypeInv, StartInv, SettledInv, Fail, UNCHANGED disk, op.pc # "artifactSync"
    PROVE  SettledInv'
<1>1. CASE ReturnError
  <2>1. active'.rev = active.rev /\ op'.pc = "idle" /\ op'.call = "none"
    BY <1>1 DEF ReturnError, Idle, TypeInv, TypeOK, Status
  <2> QED BY <1>1, <2>1 DEF ReturnError, SettledInv, Synced, Kept, Written, disk
<1>2. CASE FallBack /\ op.next.prev # NoRev
  <2>1. op'.pc = "checking" /\ op'.next.rev = op.next.prev
    BY <1>2 DEF FallBack, TypeInv, TypeOK, Op
  <2>2. Kept(op.next.prev)
    BY <1>2 DEF StartInv, Carried, SoundFallback
  <2> QED BY <1>2, <2>1, <2>2 DEF FallBack, SettledInv, Synced, Kept, disk, history
<1>3. CASE LoseMemory
  BY <1>3 DEF LoseMemory, SettledInv, Idle, NoStatus, Kept, Written, disk
<1> QED BY <1>1, <1>2, <1>3 DEF Fail

LEMMA SettledStep ==
    ASSUME Settling, TypeInv, DurableInv, StartInv, SettledInv, [Next]_vars
    PROVE  SettledInv'
<1>1. CASE Failure
  <2>1. Fail /\ UNCHANGED disk /\ op.pc # "artifactSync"
    BY <1>1 DEF Failure, FetchFails, CompileFails, RunTestsFails, ArtifactFails,
       SyncArtifactFails, WriteStateFails, SyncStateFails, Settling
  <2> QED BY <2>1, SettledFail
<1>2. CASE BootEmpty
  BY <1>2 DEF BootEmpty, SettledInv, Synced, Kept, disk
<1>3. CASE BootSaved
  <2>1. /\ op'.pc = "checking" /\ op'.next = saved /\ saved \in maybeSaved
        /\ active.rev = NoRev
    BY <1>3 DEF BootSaved, Idle, StartInv, Files, Memory, NoStatus
  <2> QED BY <1>3, <2>1 DEF BootSaved, SettledInv, Synced, Kept, disk, history
<1>4. CASE Call
  <2>1. ASSUME NEW r \in Revisions, RollbackUnknown(r)
        PROVE  SettledInv'
    <3>1. /\ active'.rev = active.rev /\ op.pc = "idle"
          /\ op'.pc = "idle" /\ op'.call = "none"
      BY <2>1 DEF RollbackUnknown, CanStart, ReturnError, Idle, TypeInv, TypeOK, Status
    <3> QED BY <2>1, <3>1 DEF RollbackUnknown, ReturnError, SettledInv, Synced, Kept,
              Written, disk
  <2>2. CASE \/ \E c \in Revisions \cup {Corrupt}, s \in Sources,
                   t \in Tags \cup {NoTag} : Activate(c, s, t)
             \/ \E r \in Revisions : Rollback(r)
             \/ \E s \in Sources : Refresh(s)
    <3>1. /\ op.pc = "idle" /\ op'.pc \in {"checking", "fetching"}
          /\ op'.call = "activate" /\ UNCHANGED <<disk, active, history>>
      BY <2>2 DEF Activate, Rollback, Refresh, CanStart, Idle
    <3> QED BY <3>1 DEF SettledInv, Synced, Kept, Written, disk, history
  <2> QED BY <1>4, <2>1, <2>2 DEF Call
<1>5. CASE FetchBytes \/ Compile
  <2>1. /\ op.pc \in {"fetching", "checking"} /\ op'.pc \in {"checking", "testing"}
        /\ op'.next = op.next /\ op'.call = op.call
        /\ UNCHANGED <<disk, active, history>>
    BY <1>5 DEF FetchBytes, Compile, Advance, TypeInv, TypeOK, Op
  <2> QED BY <2>1 DEF SettledInv, Synced, Kept, Written, disk, history
<1>6. CASE FetchNotModified
  <2>1. op'.pc = "persist" /\ op'.next = [active EXCEPT !.err = "none"]
    BY <1>6 DEF FetchNotModified, TypeInv, TypeOK, Op
  <2>2. op'.next.rev = active.rev /\ active.rev # NoRev
    BY <1>6, <2>1 DEF FetchNotModified, TypeInv, TypeOK, Status
  <2>3. Kept(active.rev)
    BY <2>2 DEF StartInv, Memory
  <2> QED BY <1>6, <2>1, <2>2, <2>3 DEF FetchNotModified, SettledInv, Synced, Kept,
            disk, history
<1>7. CASE RunTests
  <2>1. op.call = "activate" \/ op.call \in StartupCalls
    BY <1>7 DEF RunTests, TypeInv, OpShape, TypeOK, Op
  <2>2. \/ op'.pc = "artifact" /\ op'.call = "activate"
        \/ op'.pc = "persist" /\ op'.next = op.next /\ op.call \in StartupCalls
    BY <1>7, <2>1 DEF RunTests, TypeInv, TypeOK, Op
  <2> QED BY <1>7, <2>2 DEF RunTests, SettledInv, Synced, Kept, Written, disk, history
<1>8. CASE KeepArtifact
  <2>1. /\ op.pc = "artifact" /\ op'.pc = "persist" /\ op'.next = op.next
        /\ op.call = "activate" /\ UNCHANGED <<disk, active, history>>
    BY <1>8, MoveFields DEF KeepArtifact, Advance, TypeInv, OpShape, TypeOK, Op
  <2>2. op.next.rev \in Revisions /\ artifact[op.next.rev] = op.next.rev
    BY <1>8 DEF KeepArtifact, TypeInv, OpShape
  <2>3. committed # NoRev => Kept(op.next.rev)
    <3>1. process = "up"
      BY <2>1 DEF TypeInv, OpShape
    <3> QED BY <2>1, <2>2, <3>1 DEF StartInv, Memory, SettledInv, Synced, Kept
  <2> QED BY <2>1, <2>3 DEF SettledInv, Synced, Kept, disk, history
<1>9. CASE WriteArtifact
  <2>1. Keeps
    BY <1>9, WriteKeeps DEF StartInv
  <2>2. /\ op'.pc = "artifactSync" /\ op'.call = "activate"
        /\ UNCHANGED <<maybeSaved, committed>>
    BY <1>9 DEF WriteArtifact, Advance, TypeInv, OpShape, TypeOK, Op, history
  <2>3. committed # NoRev => \A s \in maybeSaved : Kept(s.rev)'
    BY <2>1, <2>2 DEF Keeps, SettledInv, StartInv, Files, Startable, TypeInv, TypeOK,
       Status
  <2> QED BY <2>2, <2>3 DEF SettledInv, Written, Kept
<1>10. CASE SyncArtifact \/ SyncState
  <2>1. /\ SyncDirectory /\ op'.next = op.next /\ UNCHANGED committed
        /\ op.next.rev \in Revisions /\ artifact[op.next.rev] = op.next.rev
        /\ saved \in maybeSaved
    BY <1>10, MoveFields DEF SyncArtifact, SyncState, TypeInv, OpShape, StartInv,
       Carried, Files, Written, history
  <2>2. Keeps /\ Synced'
    BY <2>1, SyncKeeps DEF StartInv
  <2>3. committed # NoRev => \A s \in maybeSaved' : Kept(s.rev)'
    BY <2>1, <2>2 DEF SyncDirectory, Keeps, SettledInv, StartInv, Files, Startable,
       TypeInv, TypeOK, Status
  <2>4. Kept(op.next.rev)'
    BY <2>1, <2>2 DEF SyncDirectory, Synced, Kept
  <2> QED BY <2>1, <2>2, <2>3, <2>4 DEF SettledInv
<1>11. CASE WriteState
  <2>1. /\ op.pc = "persist" /\ op'.next = op.next
        /\ maybeSaved' = maybeSaved \cup {op.next}
        /\ UNCHANGED <<artifact, maybeArtifact, active, committed>>
    BY <1>11, MoveFields DEF WriteState
  <2>2. committed # NoRev => Kept(op.next.rev)
    BY <2>1 DEF SettledInv, Written
  <2> QED BY <2>1, <2>2 DEF SettledInv, Synced, Kept
<1>12. CASE Publish
  <2>1. /\ op.pc = "publish" /\ maybeSaved = {op.next} /\ op.next.rev \in Revisions
        /\ UNCHANGED disk /\ op' = Idle
    BY <1>12 DEF Publish, DurableInv, TypeInv, OpShape
  <2>2. Synced /\ artifact[op.next.rev] = op.next.rev
    BY <2>1 DEF StartInv, Carried, Written
  <2>3. Kept(op.next.rev)
    BY <2>1, <2>2 DEF Synced, Kept
  <2> QED BY <2>1, <2>2, <2>3 DEF SettledInv, Synced, Kept, Idle, Written, disk
<1>13. CASE Crash
  BY <1>13 DEF Crash, LoseMemory, SettledInv, Idle, NoStatus, Kept, Written, disk
<1>14. CASE PowerLoss
  <2>1. Keeps /\ maybeSaved' \subseteq maybeSaved
    BY <1>14, PowerLossKeeps DEF PowerLoss, StartInv
  <2>2. committed # NoRev => \A s \in maybeSaved' : Kept(s.rev)'
    BY <2>1 DEF Keeps, SettledInv, StartInv, Files, Startable, TypeInv, TypeOK, Status
  <2> QED BY <1>14, <2>2 DEF PowerLoss, LoseMemory, SettledInv, Idle, NoStatus, Written
<1>15. CASE \/ \E d \in Readers : Admit(d) \/ Evaluate(d)
            \/ CloseEngine
            \/ \E s \in Sources, r \in Revisions : Serve(s, r)
            \/ UNCHANGED vars
  BY <1>15 DEF Admit, Evaluate, CloseEngine, Serve, vars, SettledInv, Synced, Kept,
     disk, history
<1>16. \A r \in Revisions, c \in Contents : ~Damage(r, c)
  BY DEF Damage, Settling, Undamaged
<1> QED
  BY <1>1, <1>2, <1>3, <1>4, <1>5, <1>6, <1>7, <1>8, <1>9, <1>10, <1>11, <1>12,
     <1>13, <1>14, <1>15, <1>16 DEF Next, Startup, Progress, Environment

\* Once an activation returned nil, every mixture of old and new directory
\* entries that a crash or a loss of power leaves lets the next start recover
\* the revision it finds and, if that one is refused, its fallback.
THEOREM CrashesRecover ==
    ASSUME Faults \cap {"sync", "corrupt", "misfile"} = {}
    PROVE  Spec => []EveryCrashRecovers
<1>1. Settling /\ Undamaged
  BY DEF Settling, Undamaged
<1>2. Init => SettledInv
  BY DEF Init, NoStatus, SettledInv
<1>3. TypeInv /\ DurableInv /\ StartInv /\ SettledInv /\ [Next]_vars => SettledInv'
  BY <1>1, SettledStep
<1>4. StartInv /\ SettledInv => EveryCrashRecovers
  BY DEF StartInv, Files, SoundFallback, Startable, SettledInv, Kept, EveryCrashRecovers
<1>5. Spec => []StartInv
  BY <1>1, StartHolds
<1> QED BY <1>2, <1>3, <1>4, <1>5, TypesHold, DurableHolds, PTL DEF Spec

------------------------------------------------------------------------------
(***************************************************************************)
(* PolicyManager implements PolicyLifecycle, as long as directory fsyncs   *)
(* succeed.  Seen through the refinement mapping of PolicyManager, the     *)
(* write of state.json proposes a revision, the store of the snapshot      *)
(* switches to it or resumes, and everything else a call does is invisible.*)
(***************************************************************************)

\* The revision in force, and the one a start falls back to, were in force:
\* a start brings nothing new to readers.
ForceInv ==
    /\ committed # NoRev => committed \in served
    /\ op.call = "fallback" => op.next.rev \in served

LEMMA ForceFail ==
    ASSUME TypeInv, PrevInv, ForceInv, Fail
    PROVE  ForceInv'
<1>1. CASE ReturnError \/ LoseMemory
  BY <1>1 DEF ReturnError, LoseMemory, Idle, ForceInv
<1>2. CASE FallBack /\ op.next.prev # NoRev
  <2>1. op'.next.rev = op.next.prev
    BY <1>2 DEF FallBack, TypeInv, TypeOK, Op
  <2>2. op.next.prev \in served
    BY <1>2 DEF PrevInv, GoodPrevious
  <2> QED BY <1>2, <2>1, <2>2 DEF FallBack, ForceInv, history
<1> QED BY <1>1, <1>2 DEF Fail

LEMMA ForceStep ==
    ASSUME TypeInv, PrevInv, ForceInv, [Next]_vars
    PROVE  ForceInv'
<1>1. CASE Failure
  <2>1. Fail
    BY <1>1 DEF Failure, FetchFails, CompileFails, RunTestsFails, ArtifactFails,
       SyncArtifactFails, WriteStateFails, SyncStateFails
  <2> QED BY <2>1, ForceFail
<1>2. CASE Startup
  BY <1>2 DEF Startup, BootEmpty, BootSaved, Idle, ForceInv, history
<1>3. CASE Call
  <2>1. UNCHANGED <<committed, served>>
    BY <1>3 DEF Call, Activate, Rollback, RollbackUnknown, Refresh, ReturnError, history
  <2>2. op'.call \in {"activate", "none"}
    <3>1. ASSUME NEW r, RollbackUnknown(r)
          PROVE  op'.call = "none"
      BY <3>1 DEF RollbackUnknown, ReturnError, Idle
    <3> QED BY <1>3, <3>1 DEF Call, Activate, Rollback, Refresh, Idle
  <2> QED BY <2>1, <2>2 DEF ForceInv
<1>4. CASE Publish
  BY <1>4 DEF Publish, Idle, ForceInv
<1>5. CASE FetchBytes \/ FetchNotModified \/ RunTests
  <2>1. /\ UNCHANGED <<committed, served>>
        /\ op'.call = "fallback" => op.call = "fallback" /\ op'.next = op.next
    BY <1>5 DEF FetchBytes, FetchNotModified, RunTests, TypeInv, TypeOK, Op, history
  <2> QED BY <2>1 DEF ForceInv
<1>6. CASE Compile \/ KeepArtifact \/ WriteArtifact \/ SyncArtifact \/ WriteState
           \/ SyncState
  <2>1. UNCHANGED <<committed, served>>
    BY <1>6 DEF Compile, KeepArtifact, WriteArtifact, SyncArtifact, WriteState,
       SyncState, history
  <2> QED BY <1>6, <2>1, MoveFields DEF ForceInv
<1>7. CASE Crash \/ PowerLoss
  BY <1>7 DEF Crash, PowerLoss, LoseMemory, Idle, ForceInv
<1>8. CASE \/ \E d \in Readers : Admit(d) \/ Evaluate(d)
           \/ CloseEngine
           \/ \E s \in Sources, r \in Revisions : Serve(s, r)
           \/ \E r \in Revisions, c \in Contents : Damage(r, c)
           \/ UNCHANGED vars
  BY <1>8 DEF Admit, Evaluate, CloseEngine, Serve, Damage, ForceInv, history, vars
<1> QED
  BY <1>1, <1>2, <1>3, <1>4, <1>5, <1>6, <1>7, <1>8 DEF Next, Progress, Environment

LEMMA ForceHolds == Spec => []ForceInv
<1>1. Init => ForceInv
  BY DEF Init, Idle, ForceInv
<1>2. TypeInv /\ PrevInv /\ ForceInv /\ [Next]_vars => ForceInv'
  BY ForceStep
<1> QED BY <1>1, <1>2, TypesHold, PrevHolds, PTL DEF Spec

------------------------------------------------------------------------------
(* Every step is a step of the promise, or invisible.                      *)

Seen == <<process, committed, limbo, served, reader>>

LEMMA UnseenStep ==
    ASSUME UNCHANGED Seen
    PROVE  UNCHANGED Lifecycle!lifecycle
BY DEF Seen, Lifecycle!lifecycle

LEMMA StopStep ==
    ASSUME LoseMemory, UNCHANGED limbo
    PROVE  Lifecycle!Stop
BY DEF LoseMemory, Lifecycle!Stop

\* A call that fails had promised nothing: no crash cut it off.
LEMMA ReturnErrorStep ==
    ASSUME TypeInv, AckInv, ReturnError, process = "up",
           op.pc \notin {"stateSync", "publish"}
    PROVE  UNCHANGED Seen
BY DEF AckInv, ReturnError, Seen

LEMMA FailStep ==
    ASSUME TypeInv, AckInv, Fail, op.pc \notin {"stateSync", "publish"}
    PROVE  [Lifecycle!Next]_Lifecycle!lifecycle
<1>1. CASE op.call \in OnlineCalls /\ ReturnError
  BY <1>1, ReturnErrorStep, UnseenStep DEF TypeInv, OpShape
<1>2. CASE FallBack
  BY <1>2, UnseenStep DEF FallBack, Seen, history
<1>3. CASE LoseMemory /\ UNCHANGED limbo
  BY <1>3, StopStep DEF Lifecycle!Next
<1> QED BY <1>1, <1>2, <1>3 DEF Fail

LEMMA WriteStateStep ==
    ASSUME TypeInv, ReaderInv, ForceInv, WriteState
    PROVE  [Lifecycle!Next]_Lifecycle!lifecycle
<1> DEFINE r == op.next.rev
<1>1. UNCHANGED <<process, committed, served, reader>> /\ op.pc = "persist"
  BY DEF WriteState, Advance
<1>2. CASE op.call = "primary"
  BY <1>1, <1>2, UnseenStep DEF WriteState, Seen
<1>3. CASE op.call # "primary"
  <2>1. r \in Revisions /\ r \in Passing
    BY <1>1 DEF TypeInv, OpShape, ReaderInv, Fit
  <2>2. process = "up" \/ r \in served
    BY <1>1, <1>3 DEF TypeInv, OpShape, TypeOK, Op, ForceInv
  <2>3. limbo' = limbo \cup {r}
    BY <1>3 DEF WriteState
  <2>4. Lifecycle!Propose(r)
    BY <1>1, <2>1, <2>2, <2>3 DEF Lifecycle!Propose
  <2> QED BY <2>1, <2>4 DEF Lifecycle!Next
<1> QED BY <1>2, <1>3

\* The snapshot is stored: either the revision was proposed, by this call or by
\* one that a crash cut off, or it is the agreed one.
LEMMA PublishStep ==
    ASSUME TypeInv, AckInv, ForceInv, Publish
    PROVE  [Lifecycle!Next]_Lifecycle!lifecycle
<1> DEFINE r == op.next.rev
<1>1. /\ r \in Revisions /\ r # NoRev /\ op.pc = "publish"
      /\ process' = "up" /\ limbo' = {} /\ served' = served \cup {r}
      /\ UNCHANGED reader
  BY NullsAssumption DEF Publish, TypeInv, OpShape
<1>2. CASE r \in limbo
  <2>1. committed' = r
    BY <1>2 DEF Publish
  <2>2. Lifecycle!Switch(r)
    BY <1>1, <1>2, <2>1 DEF Lifecycle!Switch
  <2> QED BY <1>1, <2>2 DEF Lifecycle!Next
<1>3. CASE r \notin limbo
  <2>1. op.call = "primary" /\ r = committed
    BY <1>1, <1>3 DEF AckInv
  <2>2. process # "up" /\ committed' = committed /\ r \in served
    BY <1>1, <1>3, <2>1 DEF Publish, TypeInv, OpShape, ForceInv
  <2>3. served' = served
    BY <1>1, <2>2
  <2>4. Lifecycle!Resume
    BY <1>1, <2>2, <2>3 DEF Lifecycle!Resume
  <2> QED BY <2>4 DEF Lifecycle!Next
<1> QED BY <1>2, <1>3

LEMMA EnvironmentStep ==
    ASSUME TypeInv, AckInv, Environment
    PROVE  [Lifecycle!Next]_Lifecycle!lifecycle
<1>1. ASSUME NEW d \in Readers, Admit(d)
      PROVE  Lifecycle!Next
  <2>1. active.rev = committed
    BY <1>1 DEF Admit, AckInv, AcknowledgedIsActive
  <2>2. Lifecycle!Admit(d)
    BY <1>1, <2>1 DEF Admit, history, Lifecycle!Admit
  <2> QED BY <2>2 DEF Lifecycle!Next
<1>2. ASSUME NEW d \in Readers, Evaluate(d)
      PROVE  Lifecycle!Next
  <2>1. Lifecycle!Finish(d)
    BY <1>2 DEF Evaluate, history, Lifecycle!Finish
  <2> QED BY <2>1 DEF Lifecycle!Next
<1>3. CASE Crash \/ PowerLoss
  BY <1>3, StopStep DEF Crash, PowerLoss, Lifecycle!Next
<1>4. CASE \/ CloseEngine
           \/ \E s \in Sources, r \in Revisions : Serve(s, r)
           \/ \E r \in Revisions, c \in Contents : Damage(r, c)
  <2>1. UNCHANGED Seen
    BY <1>4 DEF CloseEngine, Serve, Damage, Seen, history
  <2> QED BY <2>1, UnseenStep
<1> QED BY <1>1, <1>2, <1>3, <1>4 DEF Environment

LEMMA LifecycleStep ==
    ASSUME "sync" \notin Faults,
           TypeInv, AckInv, ReaderInv, ForceInv, [Next]_vars
    PROVE  [Lifecycle!Next]_Lifecycle!lifecycle
<1>1. CASE Failure
  <2>1. Fail /\ op.pc \notin {"stateSync", "publish"}
    BY <1>1 DEF Failure, FetchFails, CompileFails, RunTestsFails, ArtifactFails,
       SyncArtifactFails, WriteStateFails, SyncStateFails
  <2> QED BY <2>1, FailStep
<1>2. CASE BootEmpty
  <2>1. Lifecycle!Resume
    BY <1>2 DEF BootEmpty, Lifecycle!Resume
  <2> QED BY <2>1 DEF Lifecycle!Next
<1>3. CASE BootSaved
  <2>1. /\ process # "up" /\ process' # "up"
        /\ UNCHANGED <<committed, limbo, served, reader>>
    BY <1>3 DEF BootSaved, history
  <2> QED BY <2>1 DEF Lifecycle!lifecycle
<1>4. CASE Call
  <2>1. UNCHANGED Seen
    <3>1. ASSUME NEW r \in Revisions, RollbackUnknown(r)
          PROVE  UNCHANGED Seen
      BY <3>1, ReturnErrorStep DEF RollbackUnknown, CanStart
    <3> QED BY <1>4, <3>1 DEF Call, Activate, Rollback, Refresh, Seen, history
  <2> QED BY <2>1, UnseenStep
<1>5. CASE Progress
  <2>1. CASE \/ FetchBytes \/ FetchNotModified \/ Compile \/ RunTests
             \/ KeepArtifact \/ WriteArtifact \/ SyncArtifact \/ SyncState
    <3>1. UNCHANGED Seen
      BY <2>1 DEF FetchBytes, FetchNotModified, Compile, RunTests, KeepArtifact,
         WriteArtifact, SyncArtifact, SyncState, Advance, Seen, history
    <3> QED BY <3>1, UnseenStep
  <2> QED BY <1>5, <2>1, WriteStateStep, PublishStep DEF Progress
<1>6. CASE UNCHANGED vars
  BY <1>6, UnseenStep DEF vars, history, Seen
<1> QED BY <1>1, <1>2, <1>3, <1>4, <1>5, <1>6, EnvironmentStep DEF Next, Startup

\* Whatever calls, crashes, losses of power and damaged archives happen, caller
\* and readers see no more than the promise allows: a call switches to a tested
\* revision or changes nothing, and a restart serves the agreed revision, one
\* that a crash caught half-way or one that was in force before.
THEOREM LifecycleImplemented ==
    ASSUME "sync" \notin Faults
    PROVE  Spec => ImplementsLifecycle
<1>1. Init => Lifecycle!Init
  BY DEF Init, Lifecycle!Init
<1>2. TypeInv /\ AckInv /\ ReaderInv /\ ForceInv /\ [Next]_vars
        => [Lifecycle!Next]_Lifecycle!lifecycle
  BY LifecycleStep
<1>3. Spec => []AckInv
  BY AckHolds
<1> QED BY <1>1, <1>2, <1>3, TypesHold, ReadersHold, ForceHolds, PTL
        DEF Spec, ImplementsLifecycle, Lifecycle!Spec
==============================================================================
