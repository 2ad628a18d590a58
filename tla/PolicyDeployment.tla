---------------------------- MODULE PolicyDeployment ----------------------------
(***************************************************************************)
(* Several processes on one state directory: a service that embeds a       *)
(* Manager and polls sources with Run, and the one-shot commands activate, *)
(* status and rollback of internal/cli/policy.go.  Nothing in the code     *)
(* keeps them apart: each has its own Manager, reads state.json once, when *)
(* it starts, and replaces it by what it believes the state to be.         *)
(*                                                                         *)
(* PolicyManager takes one process through every fault of the disk.  Here  *)
(* a rename is one durable step and archives are not damaged: the module   *)
(* is about the other writers and about what sources and servers answer.   *)
(* A write fails before its rename ("write") and changes nothing, or after *)
(* it ("sync": the directory cannot be opened or fsynced), when the file   *)
(* is replaced although the call returns an error.                         *)
(* What a process does alone, a fetch from a server included, is joined to *)
(* its next step on something others share: a file or the directory.       *)
(*                                                                         *)
(* A revision is named by the bytes of its archive.  An archive that does  *)
(* not compile or fails its scenarios is Junk.                             *)
(***************************************************************************)
EXTENDS PolicySource

CONSTANTS
    Service,        \* the process that polls
    Commands,       \* processes that make one call and end
    Faults,         \* which faults the environment may inject
    NoRev, NoSource

Processes == {Service} \cup Commands
Rollbacks == {<<"rollback", r>> : r \in Archives}
FaultKinds == {"crash", "write", "sync", "timeout"}

ASSUME DeploymentAssumption ==
    /\ Service \notin Commands
    /\ NoRev \notin Archives
    /\ NoSource \notin Sources \cup Rollbacks
    /\ Sources \cap Rollbacks = {}
    /\ Archives \cap (Manifests \cup {Junk}) = {}
    /\ Faults \subseteq FaultKinds

VARIABLES
    artifact,       \* <revision>.tar.gz of the state directory
    saved,          \* state.json (NoStatus: no such file)
    file,           \* the bundle files that FileSources read
    life,           \* each process is "down", in NewManager ("starting") or "up"
    active,         \* Manager.active of each process
    op,             \* the call that holds Manager.mu in each process
    alone,          \* history: no other process has run since this one started
    refused         \* history: the service, alone, wrote `saved' in a call that
                    \* failed

vars == <<artifact, saved, file, life, active, op, alone, refused>>

------------------------------------------------------------------------------
Status == [rev: Archives \cup {NoRev}, prev: Archives \cup {NoRev},
           source: Sources \cup Rollbacks \cup {NoSource},
           tag: Tags \cup {NoTag}]

NoStatus == [rev |-> NoRev, prev |-> NoRev, source |-> NoSource, tag |-> NoTag]

Steps == {"idle", "primary", "fallback", "checking", "persist"}

Op == [pc: Steps, source: Sources \cup Rollbacks \cup {NoSource},
       tag: Tags \cup {NoTag}, bytes: Bytes, next: Status]

Idle == [pc |-> "idle", source |-> NoSource, tag |-> NoTag,
         bytes |-> Junk, next |-> NoStatus]

TypeOK ==
    /\ artifact \in [Archives -> Archives \cup {Missing}]
    /\ saved \in Status
    /\ file \in [FileSources -> Bytes \cup {Missing}]
    /\ life \in [Processes -> {"down", "starting", "up"}]
    /\ active \in [Processes -> Status]
    /\ op \in [Processes -> Op]
    /\ alone \in [Processes -> BOOLEAN]
    /\ refused \in BOOLEAN

Init ==
    /\ artifact = [r \in Archives |-> Missing]
    /\ saved = NoStatus
    /\ file \in [FileSources -> Archives \cup {Missing}]
    /\ life = [p \in Processes |-> "down"]
    /\ active = [p \in Processes |-> NoStatus]
    /\ op = [p \in Processes |-> Idle]
    /\ alone = [p \in Processes |-> FALSE]
    /\ refused = FALSE

------------------------------------------------------------------------------
(* How a write of the state fails, and how a call ends.                    *)

\* atomicWrite: what fails before the rename changes nothing, what fails after
\* it leaves the new state behind.
WriteFails(p, next, early) ==
    \/ Faults \cap early # {} /\ UNCHANGED <<saved, refused>>
    \/ "sync" \in Faults /\ saved' = next /\ refused' = (p = Service /\ alone[p])

At(p, pc) == op[p].pc = pc

Goto(p, next) ==
    /\ op' = [op EXCEPT ![p] = next]
    /\ UNCHANGED <<life, active>>

End(p) ==
    /\ life' = [life EXCEPT ![p] = "down"]
    /\ active' = [active EXCEPT ![p] = NoStatus]
    /\ op' = [op EXCEPT ![p] = Idle]

\* A command prints the status or the error, and exits.
Return(p, status) ==
    IF p = Service
    THEN /\ active' = [active EXCEPT ![p] = status]
         /\ op' = [op EXCEPT ![p] = Idle]
         /\ UNCHANGED life
    ELSE End(p)

ReturnError(p) == Return(p, active[p])

------------------------------------------------------------------------------
(* NewManager.                                                             *)

Boot(p) ==
    /\ life[p] = "down"
    /\ alone' = [q \in Processes |->
                    q = p /\ \A o \in Processes \ {p} : life[o] = "down"]
    /\ refused' = FALSE
    /\ life' = [life EXCEPT ![p] = IF saved.rev = NoRev THEN "up" ELSE "starting"]
    /\ op' = [op EXCEPT ![p] =
                IF saved.rev = NoRev THEN Idle
                ELSE [Idle EXCEPT !.pc = "primary", !.next = saved]]
    /\ UNCHANGED <<artifact, saved, file, active>>

Recovers(p) ==
    /\ At(p, "primary") \/ At(p, "fallback")
    /\ artifact[op[p].next.rev] = op[p].next.rev

\* Mutant of Restore: a recovered state is not written back.
RestoreInMemory(p) ==
    /\ Recovers(p)
    /\ life' = [life EXCEPT ![p] = "up"]
    /\ active' = [active EXCEPT ![p] = op[p].next]
    /\ op' = [op EXCEPT ![p] = Idle]
    /\ UNCHANGED <<artifact, saved, file, alone, refused>>

\* Whatever state.json has become since, it is replaced by what was read.
Restore(p) ==
    /\ Recovers(p)
    /\ saved' = op[p].next /\ refused' = FALSE
    /\ life' = [life EXCEPT ![p] = "up"]
    /\ active' = [active EXCEPT ![p] = op[p].next]
    /\ op' = [op EXCEPT ![p] = Idle]
    /\ UNCHANGED <<artifact, file, alone>>

\* Only an archive that cannot be recovered leads to the fallback.
RecoverFails(p) ==
    /\ At(p, "primary") \/ At(p, "fallback")
    /\ artifact[op[p].next.rev] # op[p].next.rev \/ "timeout" \in Faults
    /\ IF At(p, "primary") /\ op[p].next.prev # NoRev
       THEN Goto(p, [op[p] EXCEPT !.pc = "fallback",
                                  !.next.rev = op[p].next.prev,
                                  !.next.prev = NoRev, !.next.tag = NoTag])
       ELSE End(p)
    /\ UNCHANGED <<artifact, saved, file, alone, refused>>

RestoreFails(p) ==
    /\ Recovers(p)
    /\ WriteFails(p, op[p].next, {"write"})
    /\ End(p)
    /\ UNCHANGED <<artifact, file, alone>>

------------------------------------------------------------------------------
(* Refresh and Rollback, up to the bytes to activate.                      *)

CanStart(p) == life[p] = "up" /\ At(p, "idle")

SentTag(p, s) == IF active[p].source = s THEN active[p].tag ELSE NoTag

\* A 304 renews the state that was loaded when the call began.
Fetched(p, s, result) ==
    \/ /\ result.kind = "bytes"
       /\ Goto(p, [Idle EXCEPT !.pc = "checking", !.source = s,
                               !.bytes = result.bytes, !.tag = result.tag])
    \/ /\ result.kind = "not_modified"
       /\ IF active[p].rev = NoRev \/ active[p].source # s \/ SentTag(p, s) = NoTag
          THEN ReturnError(p)
          ELSE Goto(p, [Idle EXCEPT !.pc = "persist", !.source = s,
                                    !.next = active[p]])
    \/ result.kind = "failed" /\ ReturnError(p)

\* The command activate reads an archive by its path, without a checksum.
RefreshFile(p, s) ==
    /\ CanStart(p)
    /\ s \in FileSources /\ (p \in Commands => Pin[s] = NoPin)
    /\ Fetched(p, s, FileFetch(s, SentTag(p, s), file[s]))
    /\ UNCHANGED <<artifact, saved, file, alone, refused>>

RemoteFetch(s, tag, answers) ==
    IF s \in OCISources THEN OCIFetch(s, tag, answers)
    ELSE HTTPFetch(Pin[s], tag, answers[1])

\* Whatever the server answers to one request or two.
RefreshRemote(p, s) ==
    /\ CanStart(p) /\ p = Service
    /\ s \in Remote
    /\ \E result \in {RemoteFetch(s, SentTag(p, s), answers) :
                          answers \in Answers \X Answers} : Fetched(p, s, result)
    /\ UNCHANGED <<artifact, saved, file, alone, refused>>

Rollback(p, r) ==
    /\ CanStart(p) /\ p \in Commands
    /\ IF artifact[r] = Missing THEN ReturnError(p)
       ELSE Goto(p, [Idle EXCEPT !.pc = "checking", !.bytes = artifact[r],
                                 !.source = <<"rollback", r>>])
    /\ UNCHANGED <<artifact, saved, file, alone, refused>>

\* The command status makes no call at all.
Exit(p) ==
    /\ CanStart(p) /\ p \in Commands
    /\ End(p)
    /\ UNCHANGED <<artifact, saved, file, alone, refused>>

------------------------------------------------------------------------------
(* activate.                                                               *)

Candidate(p) ==
    [rev |-> op[p].bytes,
     prev |-> IF active[p].rev = op[p].bytes
              THEN active[p].prev ELSE active[p].rev,
     source |-> op[p].source, tag |-> op[p].tag]

\* Mutant of Store: the bytes are not read as an archive.
StoreAnything(p) ==
    /\ At(p, "checking")
    /\ artifact' = [artifact EXCEPT ![op[p].bytes] = op[p].bytes]
    /\ Goto(p, [op[p] EXCEPT !.pc = "persist", !.next = Candidate(p)])
    /\ UNCHANGED <<saved, file, alone, refused>>

\* Mutant of Store: the archive is left for later.
StoreNothing(p) ==
    /\ At(p, "checking") /\ op[p].bytes \in Archives
    /\ Goto(p, [op[p] EXCEPT !.pc = "persist", !.next = Candidate(p)])
    /\ UNCHANGED <<artifact, saved, file, alone, refused>>

\* validate, then the archive, which is kept as it is if it is there and sound.
Store(p) ==
    /\ At(p, "checking") /\ op[p].bytes \in Archives
    /\ artifact[op[p].bytes] \in {Missing, op[p].bytes}
    /\ artifact' = [artifact EXCEPT ![op[p].bytes] = op[p].bytes]
    /\ Goto(p, [op[p] EXCEPT !.pc = "persist", !.next = Candidate(p)])
    /\ UNCHANGED <<saved, file, alone, refused>>

\* The archive too may have its final name although the call fails.
StoreFails(p) ==
    /\ At(p, "checking")
    /\ \/ /\ op[p].bytes \notin Archives \/ Faults \cap {"timeout", "write"} # {}
          /\ UNCHANGED artifact
       \/ /\ op[p].bytes \in Archives /\ artifact[op[p].bytes] = Missing
          /\ "sync" \in Faults
          /\ artifact' = [artifact EXCEPT ![op[p].bytes] = op[p].bytes]
    /\ ReturnError(p)
    /\ UNCHANGED <<saved, file, alone, refused>>

\* Mutant of Persist: a renewal is not written.
PersistActivations(p) ==
    /\ At(p, "persist")
    /\ saved' = IF op[p].next = active[p] THEN saved ELSE op[p].next
    /\ refused' = (refused /\ op[p].next = active[p])
    /\ Return(p, op[p].next)
    /\ UNCHANGED <<artifact, file, alone>>

\* state.json is replaced, and the readers of this process switch.
Persist(p) ==
    /\ At(p, "persist")
    /\ saved' = op[p].next /\ refused' = FALSE
    /\ Return(p, op[p].next)
    /\ UNCHANGED <<artifact, file, alone>>

\* The readers of this process keep their snapshot, whatever the file is now.
PersistFails(p) ==
    /\ At(p, "persist")
    /\ WriteFails(p, op[p].next, {"timeout", "write"})
    /\ ReturnError(p)
    /\ UNCHANGED <<artifact, file, alone>>

------------------------------------------------------------------------------
(* The world outside.                                                      *)

Crash(p) ==
    /\ life[p] # "down" /\ "crash" \in Faults
    /\ End(p)
    /\ UNCHANGED <<artifact, saved, file, alone, refused>>

\* Whoever builds bundles replaces the file, or writes over it and is read
\* in between.
Rewrite(s, content) ==
    /\ file[s] # content
    /\ file' = [file EXCEPT ![s] = content]
    /\ UNCHANGED <<artifact, saved, life, active, op, alone, refused>>

------------------------------------------------------------------------------
Call(p) ==
    \/ \E s \in FileSources : RefreshFile(p, s)
    \/ \E s \in Remote : RefreshRemote(p, s)
    \/ \E r \in Archives : Rollback(p, r)
    \/ Exit(p)

Step(p) ==
    \/ Restore(p) \/ RecoverFails(p) \/ RestoreFails(p)
    \/ Store(p) \/ StoreFails(p) \/ Persist(p) \/ PersistFails(p)

Environment ==
    \/ \E p \in Processes : Boot(p) \/ Crash(p)
    \/ \E s \in FileSources, c \in Archives \cup {Junk} : Rewrite(s, c)

Next == Environment \/ \E p \in Processes : Call(p) \/ Step(p)

Spec == Init /\ [][Next]_vars

\* A step in progress waits for nothing.  Run refreshes its source for ever and
\* Manager.mu is granted in turn.  Validation and writes of what a source
\* delivers do not fail for ever: the engine's cache, which is not in this
\* module, is not full.
Fairness ==
    /\ WF_vars(Step(Service))
    /\ \A s \in FileSources :
        /\ SF_vars(RefreshFile(Service, s))
        /\ SF_vars(op[Service].source = s /\ Store(Service))
        /\ SF_vars(op[Service].source = s /\ Persist(Service))

FairSpec == Spec /\ Fairness

------------------------------------------------------------------------------
(* Properties.                                                             *)

\* However two processes interleave, crash and overwrite each other's
\* state.json, what it names can be recovered: the archive of the revision and
\* that of the fallback are in the directory, sound and under their own names.
\* activate stores the archive before it writes the state, and nothing in the
\* code removes one ("Artifacts are retained for exact rollback",
\* docs/policy.md:164).
EveryProcessStarts ==
    \A r \in {saved.rev, saved.prev} \ {NoRev} : artifact[r] = r

\* A process that has had the directory for itself since it started serves
\* what state.json says, between any two calls and after a start that fell
\* back.  This is what "Use one manager/writer per state directory"
\* (docs/policy.md:159) buys: without `alone' it is false, a second process
\* that only asks for the status being enough.  The one exception is a call
\* that failed after the rename of state.json (manager.go:214-221): the file is
\* then one activation ahead of the process, and its fallback is what the
\* process serves, until the next call that succeeds.
OneAhead(next, status) ==
    next.prev = IF next.rev = status.rev THEN status.prev ELSE status.rev
SingleWriterAgrees ==
    \A p \in Processes :
        alone[p] /\ CanStart(p) =>
            saved = active[p] \/ (refused /\ OneAhead(saved, active[p]))

\* What every status says of itself: a tag was given by a real source, with
\* the very bytes the revision is of.  A server that lies with a 304, or sends
\* other bytes, or a registry that swaps the layer, can then at most renew the
\* pinned content.  Also in the state of a process that read what another one
\* wrote, and after fallbacks, rollbacks and rewrites of the file.
Proven(status) ==
    status.tag # NoTag =>
        /\ status.source \in Sources
        /\ status.rev = IF Pinned(status.source) # NoPin
                        THEN Pinned(status.source) ELSE status.tag
TagProvesContent ==
    /\ Proven(saved)
    /\ \A p \in Processes : Proven(active[p]) /\ Proven(op[p].next)

\* What a command wrote over the state of a polling service does not stay for
\* ever: once only the service is left and the file it polls has settled,
\* state.json is again and again what the service serves, with the file's
\* revision.  A refresh that finds nothing new still writes the state.  (They
\* need not agree for good: with several sources a call may fail after the
\* rename of state.json at each switch of the source.)
Settled(s, a) ==
    /\ file[s] = a
    /\ life[Service] = "up" /\ \A c \in Commands : life[c] = "down"
PollingHeals ==
    \A s \in FileSources, a \in Archives :
        Pinned(s) \in {NoPin, a} /\ <>[]Settled(s, a) =>
            []<>(saved = active[Service] /\ saved.rev = a)
==============================================================================
