---------------------------- MODULE PolicyManager ----------------------------
(***************************************************************************)
(* The policy lifecycle of normgate (internal/policy/manager.go): one      *)
(* Manager per state directory stages a bundle, compiles and tests it in   *)
(* the policy engine, stores its archive and state.json, and only then     *)
(* switches the snapshot that lock-free readers evaluate under.            *)
(*                                                                         *)
(* The mutex Manager.mu serialises Activate, Rollback and Refresh: `op' is *)
(* the one call that holds it, or the NewManager call that is starting the *)
(* process.  Readers interleave with every step of it.  A directory entry  *)
(* that was renamed but not yet fsynced may or may not survive a loss of   *)
(* power: maybeArtifact and maybeSaved hold what could be found then.      *)
(*                                                                         *)
(* Bundles are named by their revision (the digest of their files).  The   *)
(* time of a refresh and the staleness of a snapshot are not in this       *)
(* module: a stale snapshot refuses a reader, which changes no state.      *)
(***************************************************************************)
EXTENDS Naturals, FiniteSets

CONSTANTS
    Revisions,      \* revisions of the bundles in play
    Passing,        \* those whose bundled scenarios pass
    Sources,        \* identities of the refresh sources
    Movable,        \* the sources without a checksum pin: their content changes
    Tags,           \* entity tags the sources use
    TagOf,          \* the tag a source gives a revision, or NoTag
    Readers,        \* goroutines that call Evaluate
    MaxRevisions,   \* slots of the engine's revision cache
    Faults,         \* which faults the environment may inject
    NoRev, NoSource, NoTag, Missing, Corrupt

Rollbacks == {<<"rollback", r>> : r \in Revisions}
SourceNames == Sources \cup Rollbacks \cup {NoSource}
Contents == Revisions \cup {Missing, Corrupt}

FaultKinds == {"crash", "power", "sync", "write", "timeout", "network",
               "corrupt", "misfile", "close"}

ASSUME ConstantsAssumption ==
    /\ Passing \subseteq Revisions
    /\ Movable \subseteq Sources
    /\ TagOf \in [Sources -> [Revisions -> Tags \cup {NoTag}]]
    /\ MaxRevisions \in Nat
    /\ IsFiniteSet(Revisions)
    /\ Faults \subseteq FaultKinds

ASSUME NullsAssumption ==
    /\ NoRev \notin Revisions
    /\ NoTag \notin Tags
    /\ NoSource \notin Sources \cup Rollbacks
    /\ Sources \cap Rollbacks = {}
    /\ {Missing, Corrupt} \cap Revisions = {}
    /\ Missing # Corrupt

\* An entity tag is a strong validator: at one source it names one content.
\* Two sources may use the same tag for different contents.
ASSUME TagsAreStrong ==
    \A s \in Sources, q, r \in Revisions :
        TagOf[s][q] = TagOf[s][r] /\ TagOf[s][q] # NoTag => q = r

VARIABLES
    artifact,       \* <revision>.tar.gz of the state directory, as read now
    maybeArtifact,  \* what may be found there after a loss of power
    saved,          \* state.json as read now (NoStatus: no such file)
    maybeSaved,     \* what state.json may be after a loss of power
    process,        \* "down", "starting" (in NewManager) or "up"
    active,         \* Manager.active, the snapshot readers load
    op,             \* the call that holds Manager.mu
    prepared,       \* Engine.revisions
    closed,         \* Engine.closed
    reader,         \* the revision each reader was admitted with
    remote,         \* what each source serves now
    committed,      \* history: revision of the last call that returned nil
    limbo,          \* history: revisions of calls a crash cut off mid-switch
    served          \* history: every revision ever published to readers

disk == <<artifact, maybeArtifact, saved, maybeSaved>>
engine == <<prepared, closed>>
history == <<committed, limbo, served>>
vars == <<disk, process, active, op, engine, reader, remote, history>>

------------------------------------------------------------------------------
Status == [rev: Revisions \cup {NoRev}, prev: Revisions \cup {NoRev},
           source: SourceNames, etag: Tags \cup {NoTag},
           err: {"none", "failed", "recovered_previous"}]

NoStatus == [rev |-> NoRev, prev |-> NoRev, source |-> NoSource,
             etag |-> NoTag, err |-> "none"]

Steps == {"idle", "fetching", "checking", "testing", "artifact",
          "artifactSync", "persist", "stateSync", "publish"}
OnlineCalls == {"activate", "renew"}
StartupCalls == {"primary", "fallback"}

Op == [pc: Steps, call: OnlineCalls \cup StartupCalls \cup {"none"},
       source: SourceNames, tag: Tags \cup {NoTag},
       content: Contents, next: Status]

Idle == [pc |-> "idle", call |-> "none", source |-> NoSource, tag |-> NoTag,
         content |-> Missing, next |-> NoStatus]

TypeOK ==
    /\ artifact \in [Revisions -> Contents]
    /\ maybeArtifact \in [Revisions -> SUBSET Contents]
    /\ saved \in Status
    /\ maybeSaved \in SUBSET Status
    /\ process \in {"down", "starting", "up"}
    /\ active \in Status
    /\ op \in Op
    /\ prepared \in SUBSET Revisions
    /\ closed \in BOOLEAN
    /\ reader \in [Readers -> Revisions \cup {NoRev}]
    /\ remote \in [Sources -> Revisions]
    /\ committed \in Revisions \cup {NoRev}
    /\ limbo \in SUBSET Revisions
    /\ served \in SUBSET Revisions

Init ==
    /\ artifact = [r \in Revisions |-> Missing]
    /\ maybeArtifact = [r \in Revisions |-> {Missing}]
    /\ saved = NoStatus
    /\ maybeSaved = {NoStatus}
    /\ process = "down"
    /\ active = NoStatus
    /\ op = Idle
    /\ prepared = {}
    /\ closed = FALSE
    /\ reader = [d \in Readers |-> NoRev]
    /\ remote \in [Sources -> Revisions]
    /\ committed = NoRev
    /\ limbo = {}
    /\ served = {}

------------------------------------------------------------------------------
(* How a call ends, and the steps of atomicWrite.                          *)

\* recordError: the caller gets the error, readers keep their snapshot.
ReturnError ==
    /\ op' = Idle
    /\ active' = [active EXCEPT !.err = "failed"]
    /\ limbo' = {}
    /\ UNCHANGED <<process, engine, reader, committed, served>>

\* Everything but the directory dies with the process.
LoseMemory ==
    /\ process' = "down"
    /\ active' = NoStatus
    /\ op' = Idle
    /\ prepared' = {}
    /\ closed' = FALSE
    /\ reader' = [d \in Readers |-> NoRev]
    /\ UNCHANGED <<committed, served>>

\* Mutant of FallBack: the tag of the primary revision is kept.
FallBackKeepsTag ==
    /\ op' = [op EXCEPT !.call = "fallback", !.pc = "checking",
                        !.content = artifact[op.next.prev],
                        !.next.rev = op.next.prev, !.next.prev = NoRev,
                        !.next.err = "recovered_previous"]
    /\ UNCHANGED <<process, active, engine, reader, history>>

\* Mutant of FallBack: it is tried again and again.
FallBackForEver ==
    /\ op' = [op EXCEPT !.pc = "checking", !.content = artifact[op.next.prev],
                        !.next.rev = op.next.prev]
    /\ UNCHANGED <<process, active, engine, reader, history>>

\* NewManager falls back once, to the previous revision of the saved state.
FallBack ==
    /\ op' = [op EXCEPT !.call = "fallback", !.pc = "checking",
                        !.content = artifact[op.next.prev],
                        !.next = [rev |-> op.next.prev, prev |-> NoRev,
                                  source |-> op.next.source, etag |-> NoTag,
                                  err |-> "recovered_previous"]]
    /\ UNCHANGED <<process, active, engine, reader, history>>

\* A bundle that could not be recovered or validated, or was not written.
Fail ==
    \/ op.call \in OnlineCalls /\ ReturnError
    \/ /\ op.call = "primary" /\ op.pc \in {"checking", "testing"}
       /\ op.next.prev # NoRev
       /\ FallBack
    \/ /\ op.call \in StartupCalls
       /\ ~(/\ op.call = "primary" /\ op.pc \in {"checking", "testing"}
            /\ op.next.prev # NoRev)
       /\ LoseMemory
       /\ UNCHANGED limbo

\* A directory fsync that succeeds settles every entry renamed before it.
SyncDirectory ==
    /\ maybeArtifact' = [r \in Revisions |-> {artifact[r]}]
    /\ maybeSaved' = {saved}
    /\ UNCHANGED <<artifact, saved>>

Advance(pc) ==
    /\ op' = [op EXCEPT !.pc = pc]
    /\ UNCHANGED <<process, active, reader>>

------------------------------------------------------------------------------
(* NewManager.                                                             *)

\* No state.json: an empty manager, not ready.
BootEmpty ==
    /\ process = "down" /\ saved.rev = NoRev
    /\ process' = "up"
    /\ limbo' = {}
    /\ UNCHANGED <<disk, active, op, engine, reader, remote, committed, served>>

BootSaved ==
    /\ process = "down" /\ saved.rev # NoRev
    /\ process' = "starting"
    /\ op' = [Idle EXCEPT !.pc = "checking", !.call = "primary",
                          !.content = artifact[saved.rev], !.next = saved]
    /\ UNCHANGED <<disk, active, engine, reader, remote, history>>

(* Activate, Rollback and Refresh take the mutex.                          *)

CanStart == process = "up" /\ op.pc = "idle"

\* The caller passes the tag its bytes came with, or none.
Activate(content, s, tag) ==
    /\ CanStart
    /\ content \in Revisions => tag \in {NoTag, TagOf[s][content]}
    /\ content \notin Revisions => tag = NoTag
    /\ op' = [Idle EXCEPT !.pc = "checking", !.call = "activate",
                          !.source = s, !.tag = tag, !.content = content]
    /\ UNCHANGED <<disk, process, active, engine, reader, remote, history>>

\* Mutant of Rollback: source and tag of the active revision are kept.
RollbackKeepsSource(r) ==
    /\ CanStart
    /\ artifact[r] # Missing
    /\ op' = [Idle EXCEPT !.pc = "checking", !.call = "activate",
                          !.source = active.source, !.tag = active.etag,
                          !.content = artifact[r]]
    /\ UNCHANGED <<disk, process, active, engine, reader, remote, history>>

\* The file under the requested revision's name is re-activated as it is.
Rollback(r) ==
    /\ CanStart
    /\ artifact[r] # Missing
    /\ op' = [Idle EXCEPT !.pc = "checking", !.call = "activate",
                          !.source = <<"rollback", r>>,
                          !.content = artifact[r]]
    /\ UNCHANGED <<disk, process, active, engine, reader, remote, history>>

RollbackUnknown(r) ==
    /\ CanStart
    /\ artifact[r] = Missing
    /\ ReturnError
    /\ UNCHANGED <<disk, remote>>

\* The saved tag is sent only to the source it came from.
SentTag(s) == IF active.source = s THEN active.etag ELSE NoTag

Refresh(s) ==
    /\ CanStart
    /\ op' = [Idle EXCEPT !.pc = "fetching", !.call = "activate",
                          !.source = s, !.tag = SentTag(s)]
    /\ UNCHANGED <<disk, process, active, engine, reader, remote, history>>

FetchFails ==
    /\ op.pc = "fetching" /\ "network" \in Faults
    /\ Fail
    /\ UNCHANGED <<disk, remote>>

\* Mutant of FetchBytes: the tag that was sent is kept beside the new bytes.
FetchBytesKeepsTag ==
    /\ op.pc = "fetching"
    /\ op' = [op EXCEPT !.pc = "checking", !.content = remote[op.source]]
    /\ UNCHANGED <<disk, process, active, engine, reader, remote, history>>

FetchBytes ==
    /\ op.pc = "fetching"
    /\ LET r == remote[op.source] IN
       op' = [op EXCEPT !.pc = "checking", !.content = r,
                        !.tag = TagOf[op.source][r]]
    /\ UNCHANGED <<disk, process, active, engine, reader, remote, history>>

\* 304: `content' records what the source serves, which was not sent.
FetchNotModified ==
    /\ op.pc = "fetching"
    /\ op.tag # NoTag
    /\ op.tag = TagOf[op.source][remote[op.source]]
    /\ active.rev # NoRev /\ active.source = op.source
    /\ op' = [op EXCEPT !.pc = "persist", !.call = "renew",
                        !.content = remote[op.source],
                        !.next = [active EXCEPT !.err = "none"]]
    /\ UNCHANGED <<disk, process, active, engine, reader, remote, history>>

------------------------------------------------------------------------------
(* validate: ReadArchive, Compile, Health, RunTests.                       *)

\* Mutant of Compiles: the archive is not read before it is compiled.
CompilesUnread ==
    /\ ~closed
    /\ op.content \in prepared \/ Cardinality(prepared) < MaxRevisions

Compiles ==
    /\ op.content \in Revisions
    /\ ~closed
    /\ op.content \in prepared \/ Cardinality(prepared) < MaxRevisions

\* Mutant of Compile: a full cache is emptied for the new revision.
CompileEvicts ==
    /\ op.pc = "checking"
    /\ op.content \in Revisions /\ ~closed
    /\ prepared' = IF Compiles THEN prepared \cup {op.content} ELSE {op.content}
    /\ Advance("testing")
    /\ UNCHANGED <<disk, closed, remote, history>>

Compile ==
    /\ op.pc = "checking"
    /\ Compiles
    /\ prepared' = prepared \cup {op.content}
    /\ Advance("testing")
    /\ UNCHANGED <<disk, closed, remote, history>>

CompileFails ==
    /\ op.pc = "checking"
    /\ ~Compiles \/ "timeout" \in Faults
    /\ Fail
    /\ UNCHANGED <<disk, remote>>

\* Mutant of TestsPass: the results of the scenarios are ignored.
TestsIgnored ==
    /\ ~closed
    /\ op.call \in StartupCalls => op.content = op.next.rev

\* recover also compares the file with the revision it was saved under.
TestsPass ==
    /\ op.content \in Passing
    /\ ~closed
    /\ op.call \in StartupCalls => op.content = op.next.rev

\* Mutant of Candidate: the active revision is its own predecessor.
CandidateOfItself ==
    [rev |-> op.content, prev |-> active.rev,
     source |-> op.source, etag |-> op.tag, err |-> "none"]

\* Mutant of Candidate: the predecessor is taken from state.json.
CandidateOfSaved ==
    [rev |-> op.content,
     prev |-> IF saved.rev = op.content THEN saved.prev ELSE saved.rev,
     source |-> op.source, etag |-> op.tag, err |-> "none"]

\* Mutant of Candidate: no predecessor is kept.
CandidateAlone ==
    [rev |-> op.content, prev |-> NoRev,
     source |-> op.source, etag |-> op.tag, err |-> "none"]

Candidate ==
    [rev |-> op.content,
     prev |-> IF active.rev = op.content THEN active.prev ELSE active.rev,
     source |-> op.source, etag |-> op.tag, err |-> "none"]

RunTests ==
    /\ op.pc = "testing"
    /\ TestsPass
    /\ op' = IF op.call = "activate"
             THEN [op EXCEPT !.pc = "artifact", !.next = Candidate]
             ELSE [op EXCEPT !.pc = "persist"]
    /\ UNCHANGED <<disk, process, active, engine, reader, remote, history>>

RunTestsFails ==
    /\ op.pc = "testing"
    /\ ~TestsPass \/ "timeout" \in Faults
    /\ Fail
    /\ UNCHANGED <<disk, remote>>

------------------------------------------------------------------------------
(* The archive, then state.json, then the snapshot.                        *)

\* An archive that is already there and sound is kept and not synced again.
KeepArtifact ==
    /\ op.pc = "artifact"
    /\ artifact[op.next.rev] = op.next.rev
    /\ Advance("persist")
    /\ UNCHANGED <<disk, engine, remote, history>>

WriteArtifact ==
    /\ op.pc = "artifact"
    /\ artifact[op.next.rev] = Missing
    /\ artifact' = [artifact EXCEPT ![op.next.rev] = op.content]
    /\ maybeArtifact' = [maybeArtifact EXCEPT ![op.next.rev] = @ \cup {op.content}]
    /\ Advance("artifactSync")
    /\ UNCHANGED <<saved, maybeSaved, engine, remote, history>>

ArtifactFails ==
    /\ op.pc = "artifact"
    /\ artifact[op.next.rev] \notin {op.next.rev, Missing} \/ "write" \in Faults
    /\ Fail
    /\ UNCHANGED <<disk, remote>>

\* Mutant of SyncArtifact: the directory is not synced after the rename.
SyncArtifactSkipped ==
    /\ op.pc = "artifactSync"
    /\ Advance("persist")
    /\ UNCHANGED <<disk, engine, remote, history>>

SyncArtifact ==
    /\ op.pc = "artifactSync"
    /\ SyncDirectory
    /\ Advance("persist")
    /\ UNCHANGED <<engine, remote, history>>

\* The archive has its final name although the call fails.
SyncArtifactFails ==
    /\ op.pc = "artifactSync" /\ "sync" \in Faults
    /\ Fail
    /\ UNCHANGED <<disk, remote>>

\* Mutant of WriteState: readers switch before the state is written.
WriteStateAfterStore ==
    /\ op.pc = "persist"
    /\ active' = op.next
    /\ saved' = op.next
    /\ maybeSaved' = maybeSaved \cup {op.next}
    /\ limbo' = IF op.call = "primary" THEN limbo ELSE limbo \cup {op.next.rev}
    /\ op' = [op EXCEPT !.pc = "stateSync"]
    /\ UNCHANGED <<artifact, maybeArtifact, process, reader, engine, remote,
                   committed, served>>

WriteState ==
    /\ op.pc = "persist"
    /\ saved' = op.next
    /\ maybeSaved' = maybeSaved \cup {op.next}
    /\ limbo' = IF op.call = "primary" THEN limbo ELSE limbo \cup {op.next.rev}
    /\ Advance("stateSync")
    /\ UNCHANGED <<artifact, maybeArtifact, engine, remote, committed, served>>

\* A cancelled context, or a failure before the rename.
WriteStateFails ==
    /\ op.pc = "persist"
    /\ "write" \in Faults \/ ("timeout" \in Faults /\ op.call \in OnlineCalls)
    /\ Fail
    /\ UNCHANGED <<disk, remote>>

\* Mutant of SyncState: the directory is not synced after the rename.
SyncStateSkipped ==
    /\ op.pc = "stateSync"
    /\ Advance("publish")
    /\ UNCHANGED <<disk, engine, remote, history>>

SyncState ==
    /\ op.pc = "stateSync"
    /\ SyncDirectory
    /\ Advance("publish")
    /\ UNCHANGED <<engine, remote, history>>

\* Mutant of SyncStateFails: the error of the directory fsync is ignored.
SyncStateFailureIgnored ==
    /\ op.pc = "stateSync" /\ "sync" \in Faults
    /\ Advance("publish")
    /\ UNCHANGED <<disk, engine, remote, history>>

\* state.json was replaced although the call fails.
SyncStateFails ==
    /\ op.pc = "stateSync" /\ "sync" \in Faults
    /\ Fail
    /\ UNCHANGED <<disk, remote>>

\* active.Store: readers switch.  A restart that resumes a call cut off by a
\* crash, or that falls back, settles which revision is in force.
Publish ==
    /\ op.pc = "publish"
    /\ active' = op.next
    /\ process' = "up"
    /\ op' = Idle
    /\ committed' = IF op.call \in OnlineCalls \/ op.next.rev \in limbo
                    THEN op.next.rev ELSE committed
    /\ limbo' = {}
    /\ served' = served \cup {op.next.rev}
    /\ UNCHANGED <<disk, engine, reader, remote>>

------------------------------------------------------------------------------
(* Readers, and the world outside.                                         *)

\* Mutant of Admit: the reader asks state.json.
AdmitSaved(d) ==
    /\ process = "up" /\ reader[d] = NoRev
    /\ saved.rev # NoRev /\ ~closed
    /\ reader' = [reader EXCEPT ![d] = saved.rev]
    /\ UNCHANGED <<disk, process, active, op, engine, remote, history>>

\* Status: the snapshot is loaded once; readiness asks the engine.
Admit(d) ==
    /\ process = "up" /\ reader[d] = NoRev
    /\ active.rev # NoRev /\ ~closed
    /\ reader' = [reader EXCEPT ![d] = active.rev]
    /\ UNCHANGED <<disk, process, active, op, engine, remote, history>>

\* Engine.Evaluate returns a decision or an error, and the reader is done.
Evaluate(d) ==
    /\ reader[d] # NoRev
    /\ reader' = [reader EXCEPT ![d] = NoRev]
    /\ UNCHANGED <<disk, process, active, op, engine, remote, history>>

CloseEngine ==
    /\ process = "up" /\ ~closed /\ "close" \in Faults
    /\ closed' = TRUE
    /\ prepared' = {}
    /\ UNCHANGED <<disk, process, active, op, reader, remote, history>>

Serve(s, r) ==
    /\ s \in Movable /\ remote[s] # r
    /\ remote' = [remote EXCEPT ![s] = r]
    /\ UNCHANGED <<disk, process, active, op, engine, reader, history>>

Crash ==
    /\ process # "down" /\ "crash" \in Faults
    /\ LoseMemory
    /\ UNCHANGED <<disk, remote, limbo>>

\* Each unsynced entry is found in its old or its new form.
PowerLoss ==
    /\ process # "down" /\ "power" \in Faults
    /\ LoseMemory
    /\ artifact' \in {f \in [Revisions -> Contents] :
                        \A r \in Revisions : f[r] \in maybeArtifact[r]}
    /\ saved' \in maybeSaved
    /\ maybeArtifact' = [r \in Revisions |-> {artifact'[r]}]
    /\ maybeSaved' = {saved'}
    /\ UNCHANGED <<remote, limbo>>

\* An archive is damaged, or another archive is copied over it.
Damage(r, c) ==
    /\ artifact[r] # c
    /\ \/ c = Corrupt /\ artifact[r] # Missing /\ "corrupt" \in Faults
       \/ /\ c \in Revisions \ {r} /\ "misfile" \in Faults
          /\ artifact[c] = c
    /\ artifact' = [artifact EXCEPT ![r] = c]
    /\ maybeArtifact' = [maybeArtifact EXCEPT ![r] = {c}]
    /\ UNCHANGED <<saved, maybeSaved, process, active, op, engine, reader,
                   remote, history>>

------------------------------------------------------------------------------
Startup == BootEmpty \/ BootSaved

Call ==
    \/ \E c \in Revisions \cup {Corrupt}, s \in Sources, t \in Tags \cup {NoTag} :
          Activate(c, s, t)
    \/ \E r \in Revisions : Rollback(r) \/ RollbackUnknown(r)
    \/ \E s \in Sources : Refresh(s)

Progress ==
    \/ FetchBytes \/ FetchNotModified \/ Compile \/ RunTests
    \/ KeepArtifact \/ WriteArtifact \/ SyncArtifact
    \/ WriteState \/ SyncState \/ Publish

Failure ==
    \/ FetchFails \/ CompileFails \/ RunTestsFails \/ ArtifactFails
    \/ SyncArtifactFails \/ WriteStateFails \/ SyncStateFails

Environment ==
    \/ \E d \in Readers : Admit(d) \/ Evaluate(d)
    \/ CloseEngine \/ Crash \/ PowerLoss
    \/ \E s \in Sources, r \in Revisions : Serve(s, r)
    \/ \E r \in Revisions, c \in Contents : Damage(r, c)

Next == Startup \/ Call \/ Progress \/ Failure \/ Environment

Spec == Init /\ [][Next]_vars

\* A call or a start in progress takes its next step, since no step of it waits
\* for anything but itself and a fetch has a deadline.
StepFairness == WF_vars(Startup) /\ WF_vars(Progress \/ Failure)

\* Run refreshes each source for ever, and Manager.mu is granted in turn (a Go
\* mutex does not starve a waiter).
RefreshFairness == \A s \in Sources : SF_vars(Refresh(s))

StepSpec == Spec /\ StepFairness
FairSpec == StepSpec /\ RefreshFairness

------------------------------------------------------------------------------
(* Properties.                                                             *)

\* What readers evaluate under is what was last acknowledged: a revision whose
\* activation returned an error is not in force, whatever crash and restart
\* follow ("Failed candidates retain the active revision", docs/policy.md:157),
\* and an activation that returned nil is never forgotten.  Holds as long as
\* directory fsyncs succeed; with one that fails it does not.
AcknowledgedIsActive == process = "up" => active.rev = committed

\* Once a revision has been acknowledged, whatever mixture of old and new
\* directory entries a loss of power leaves, the state file found names sound
\* archives, its own and its fallback's (the archive is synced before
\* state.json is renamed).  Needs directory fsyncs that succeed.
EveryCrashRecovers ==
    committed # NoRev =>
        \A s \in maybeSaved :
            /\ s.rev # NoRev
            /\ \A r \in {s.rev, s.prev} \ {NoRev} : maybeArtifact[r] = {r}

\* Also with fsyncs that fail, one of the two archives is there.  An archive
\* that a failed call left unsynced is not synced by the next call that finds
\* it (manager.go:163-171), so state.json may outlive it: the fallback covers
\* that.
EveryCrashStarts ==
    committed # NoRev =>
        \A s \in maybeSaved :
            \E r \in {s.rev, s.prev} \ {NoRev} : maybeArtifact[r] = {r}

\* Readers switch only to a state that has reached the disk ("The primary
\* state is durable before readers switch", manager.go:56).
DurableBeforePublish ==
    op.pc = "publish" => saved = op.next /\ maybeSaved = {op.next}

\* The fallback revision, in memory and in every state file that may be found,
\* is another revision that readers have already run under.
PreviousWasServed ==
    \A s \in maybeSaved \cup {active} :
        s.prev # NoRev => s.prev \in served /\ s.prev # s.rev

\* What Rollback(r) puts in force is r ("Rollback accepts an exact persisted
\* revision", docs/policy.md:163).  The code activates whatever sound archive
\* the file of r holds.
RollbackIsExact ==
    \A r \in Revisions : active.source = <<"rollback", r>> => active.rev = r

\* A saved tag names the bytes of the saved revision at the saved source.
SavedTagMatches ==
    \A s \in maybeSaved \cup {active} :
        s.etag # NoTag => /\ s.source \in Sources
                          /\ s.rev # NoRev
                          /\ s.etag = TagOf[s.source][s.rev]

\* A 304 renews a revision only if the source still serves that revision
\* (docs/policy.md: "only for the same already-active source").
RenewalKeepsBytes == op.call = "renew" => op.content = op.next.rev

\* A reader that was admitted finds its revision in the engine, however often
\* the active revision changes before it evaluates, unless the engine closes.
AdmittedIsPrepared ==
    \A d \in Readers : reader[d] # NoRev /\ ~closed => reader[d] \in prepared

\* Readers only run under revisions whose bundled scenarios passed, also those
\* that are already compiled because an earlier attempt failed its tests.
ReadersRunTestedRevision ==
    \A d \in Readers : reader[d] # NoRev => reader[d] \in Passing

\* Every call gives the mutex back, and every start ends, whichever archives a
\* loss of power took and whichever step fails, by a deadline, a write, an fsync,
\* a failing scenario or an engine that was closed (the fallback is tried once).
CallsEnd == op.pc # "idle" ~> op.pc = "idle"

\* A source that settles on a sound revision that passes its tests is served
\* again and again, also after rollbacks and other sources took over in
\* between, whatever fails in the calls for others.  This needs an
\* undamaged stored archive, an open engine, and room in its cache: once that
\* is full of other revisions only a restart helps ("The bounded revision cache
\* rejects further distinct revisions ...  A restart reconstructs it",
\* docs/policy.md:166).  And its calls have to stop failing where they could
\* have gone on.
Settled(s, r) ==
    /\ process = "up" /\ remote[s] = r /\ artifact[r] \in {r, Missing}
    /\ ~closed /\ (r \in prepared \/ Cardinality(prepared) < MaxRevisions)
Unlucky(s) == op.source = s /\ Failure /\ ENABLED Progress
SettledSourceIsServed ==
    \A s \in Sources, r \in Passing :
        <>[]Settled(s, r) /\ <>[][~Unlucky(s)]_vars => []<>(active.rev = r)

\* The manager implements the promise of PolicyLifecycle: seen through the
\* acknowledged revision, the calls cut off by a crash and the readers, no step
\* of a call, a crash or a restart does anything the promise does not allow.
Lifecycle == INSTANCE PolicyLifecycle
    WITH up <- process = "up", agreed <- committed,
         pending <- limbo, past <- served
ImplementsLifecycle == Lifecycle!Spec
==============================================================================
