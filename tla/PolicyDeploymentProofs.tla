------------------------ MODULE PolicyDeploymentProofs ------------------------
(***************************************************************************)
(* Proofs about PolicyDeployment and PolicySource, for any sources, pins,  *)
(* servers, files, commands and faults.                                    *)
(***************************************************************************)
EXTENDS PolicyDeployment, TLAPS

------------------------------------------------------------------------------
(* What a fetch delivers.                                                  *)

\* A tag, if there is one, proves what the bytes are.
Delivered(s, bytes, tag) ==
    tag # NoTag =>
        /\ s \in Sources
        /\ bytes = IF Pinned(s) # NoPin THEN Pinned(s) ELSE tag

Delivers(s, result) ==
    /\ result \in Results
    /\ result.kind = "bytes" => Delivered(s, result.bytes, result.tag)

LEMMA FailedDelivers == \A s : Delivers(s, Failed)
BY DEF Delivers, Failed, Results, Bytes

LEMMA FileDelivers ==
    ASSUME NEW s \in FileSources, NEW tag \in Tags \cup {NoTag},
           NEW content \in Bytes \cup {Missing}
    PROVE  Delivers(s, FileFetch(s, tag, content))
<1>1. Pinned(s) = Pin[s] /\ s \in Sources
  BY SourceAssumption DEF Pinned, Sources, Remote
<1>2. CASE content = Missing \/ (Pin[s] # NoPin /\ content # Pin[s])
  BY <1>2, FailedDelivers DEF FileFetch
<1>3. CASE content # Missing /\ (Pin[s] = NoPin \/ content = Pin[s])
  <2>1. content \in Bytes /\ content \in Tags
    BY <1>3 DEF Tags
  <2>2. FileFetch(s, tag, content) =
            [kind |-> IF tag = content THEN "not_modified" ELSE "bytes",
             bytes |-> content, tag |-> content]
    BY <1>3 DEF FileFetch
  <2>3. FileFetch(s, tag, content) \in Results
    BY <2>1, <2>2 DEF Results
  <2> QED BY <1>1, <1>3, <2>2, <2>3 DEF Delivers, Delivered
<1> QED BY <1>2, <1>3

\* A request delivers the pinned bytes or none.
LEMMA HTTPDelivers ==
    ASSUME NEW pin, NEW tag \in Tags \cup {NoTag}, NEW answer \in Answers
    PROVE  /\ HTTPFetch(pin, tag, answer) \in Results
           /\ HTTPFetch(pin, tag, answer).kind = "bytes" =>
                HTTPFetch(pin, tag, answer).bytes = pin
<1>1. /\ answer.status \in {"ok", "not_modified", "refused"}
      /\ answer.bytes \in Bytes /\ answer.tag \in Tags \cup {NoTag}
  BY DEF Answers, Bytes, Tags
<1>2. CASE answer.status = "not_modified" /\ tag # NoTag
  <2>1. HTTPFetch(pin, tag, answer) =
            [kind |-> "not_modified", bytes |-> Junk, tag |-> tag]
    BY <1>2 DEF HTTPFetch
  <2> QED BY <2>1 DEF Results, Bytes
<1>3. CASE answer.status = "ok" /\ answer.bytes = pin /\ answer.tag \notin LongTags
  <2>1. HTTPFetch(pin, tag, answer) =
            [kind |-> "bytes", bytes |-> answer.bytes, tag |-> answer.tag]
    BY <1>3 DEF HTTPFetch
  <2> QED BY <1>1, <1>3, <2>1 DEF Results
<1>4. ASSUME HTTPFetch(pin, tag, answer) = Failed
      PROVE  /\ Failed \in Results /\ Failed.kind # "bytes"
  BY FailedDelivers DEF Failed, Delivers
<1> QED BY <1>1, <1>2, <1>3, <1>4 DEF HTTPFetch

\* The second request of a registry is pinned by the answer to the first.
LEMMA OCIDelivers ==
    ASSUME NEW s \in OCISources, NEW tag \in Tags \cup {NoTag},
           NEW answers \in Answers \X Answers
    PROVE  Delivers(s, OCIFetch(s, tag, answers))
<1> DEFINE image == HTTPFetch(Pin[s], tag, answers[1])
           blob == HTTPFetch(LayerOf[image.bytes], NoTag, answers[2])
<1>1. answers[1] \in Answers /\ answers[2] \in Answers
  OBVIOUS
<1>2. /\ s \in Sources /\ Pin[s] \in Manifests /\ Pinned(s) = LayerOf[Pin[s]]
      /\ LayerOf[Pin[s]] \in Bytes \cup {NoLayer}
  BY SourceAssumption DEF Pinned, Sources, Remote
<1>3. image \in Results /\ (image.kind = "bytes" => image.bytes = Pin[s])
  BY <1>1, HTTPDelivers
<1>4. blob \in Results /\ (blob.kind = "bytes" => blob.bytes = LayerOf[image.bytes])
  BY <1>1, HTTPDelivers
<1>5. CASE image.kind # "bytes"
  BY <1>3, <1>5 DEF OCIFetch, Delivers
<1>6. CASE /\ image.kind = "bytes"
           /\ image.bytes \notin Sized \/ LayerOf[image.bytes] = NoLayer
              \/ blob.kind # "bytes"
  BY <1>6, FailedDelivers DEF OCIFetch
<1>7. CASE /\ image.kind = "bytes" /\ image.bytes \in Sized
           /\ LayerOf[image.bytes] # NoLayer /\ blob.kind = "bytes"
  <2>1. OCIFetch(s, tag, answers) =
            [kind |-> "bytes", bytes |-> blob.bytes, tag |-> image.tag]
    BY <1>7 DEF OCIFetch
  <2>2. OCIFetch(s, tag, answers) \in Results
    BY <1>3, <1>4, <2>1 DEF Results
  <2>3. OCIFetch(s, tag, answers).bytes = Pinned(s) /\ Pinned(s) # NoPin
    BY <1>2, <1>3, <1>4, <1>7, <2>1, SourceNulls DEF Results
  <2> QED BY <1>2, <2>2, <2>3 DEF Delivers, Delivered
<1> QED BY <1>5, <1>6, <1>7

LEMMA RemoteDelivers ==
    ASSUME NEW s \in Remote, NEW tag \in Tags \cup {NoTag},
           NEW answers \in Answers \X Answers
    PROVE  Delivers(s, RemoteFetch(s, tag, answers))
<1>1. CASE s \in OCISources
  BY <1>1, OCIDelivers DEF RemoteFetch
<1>2. CASE s \notin OCISources
  <2>1. s \in Sources /\ Pinned(s) = Pin[s] /\ Pin[s] # NoPin
    BY <1>2, SourceAssumption DEF Pinned, Sources
  <2>2. answers[1] \in Answers
    OBVIOUS
  <2>3. /\ HTTPFetch(Pin[s], tag, answers[1]) \in Results
        /\ HTTPFetch(Pin[s], tag, answers[1]).kind = "bytes" =>
            HTTPFetch(Pin[s], tag, answers[1]).bytes = Pin[s]
    BY <2>2, HTTPDelivers
  <2> QED BY <1>2, <2>1, <2>3 DEF RemoteFetch, Delivers, Delivered
<1> QED BY <1>1, <1>2

------------------------------------------------------------------------------
(* The invariant: what every status that may become state.json satisfies.  *)

Kept(status) == \A r \in {status.rev, status.prev} \ {NoRev} : artifact[r] = r

Good(status) ==
    /\ status \in Status
    /\ Proven(status)
    /\ Kept(status)
    /\ status.rev = NoRev => status = NoStatus

GoodOp(o) ==
    /\ o \in Op
    /\ Good(o.next)
    /\ o.pc = "checking" => Delivered(o.source, o.bytes, o.tag)
    /\ o.pc \in {"primary", "fallback", "persist"} => o.next.rev # NoRev

\* Which calls a process can be in.
Phase(l, a, o) ==
    /\ l = "down" => a = NoStatus /\ o = Idle
    /\ l = "starting" <=> o.pc \in {"primary", "fallback"}
    /\ o.pc = "persist" => OneAhead(o.next, a)

GoodProcess(l, a, o) == Good(a) /\ GoodOp(o) /\ Phase(l, a, o)

Inv ==
    /\ TypeOK
    /\ Good(saved)
    /\ \A p \in Processes : GoodProcess(life[p], active[p], op[p])

LEMMA Nothing == NoStatus \in Status /\ Idle \in Op /\ Idle.next = NoStatus /\ Idle.pc = "idle"
BY DEF NoStatus, Status, Idle, Op, Steps, Bytes

LEMMA NothingIsGood == Good(NoStatus) /\ GoodOp(Idle)
<1>1. Good(NoStatus)
  BY Nothing DEF Good, NoStatus, Proven, Kept
<1> QED BY <1>1, Nothing DEF GoodOp

LEMMA InitInv == Init => Inv
<1> SUFFICES ASSUME Init PROVE Inv OBVIOUS
<1>1. TypeOK
  BY Nothing DEF Init, TypeOK, Bytes
<1>2. \A p \in Processes : GoodProcess(life[p], active[p], op[p])
  BY NothingIsGood, Nothing DEF Init, GoodProcess, Phase
<1> QED BY <1>1, <1>2, NothingIsGood DEF Init, Inv

------------------------------------------------------------------------------
(* A step of one process.                                                  *)

Update(p, l, a, o) ==
    /\ life' = [life EXCEPT ![p] = l]
    /\ active' = [active EXCEPT ![p] = a]
    /\ op' = [op EXCEPT ![p] = o]

LEMMA GotoUpdates ==
    ASSUME TypeOK, NEW p \in Processes, NEW o, Goto(p, o)
    PROVE  Update(p, life[p], active[p], o)
BY DEF Goto, Update, TypeOK

LEMMA ReturnUpdates ==
    ASSUME TypeOK, NEW p \in Processes, NEW status, Return(p, status)
    PROVE  Update(p, life[p], status, Idle) \/ Update(p, "down", NoStatus, Idle)
BY DEF Return, End, Update, TypeOK

LEMMA UpdateTypes ==
    ASSUME TypeOK, NEW p \in Processes,
           NEW l \in {"down", "starting", "up"}, NEW a \in Status, NEW o \in Op,
           Update(p, l, a, o)
    PROVE  /\ life' \in [Processes -> {"down", "starting", "up"}]
           /\ active' \in [Processes -> Status]
           /\ op' \in [Processes -> Op]
           /\ \A q \in Processes \ {p} :
                life'[q] = life[q] /\ active'[q] = active[q] /\ op'[q] = op[q]
           /\ life'[p] = l /\ active'[p] = a /\ op'[p] = o
BY DEF Update, TypeOK

\* If the archives stay, it is enough that the new state of the process and
\* what it wrote are good.
LEMMA UpdateKeeps ==
    ASSUME Inv, NEW p \in Processes,
           NEW l \in {"down", "starting", "up"}, NEW a, NEW o,
           Update(p, l, a, o), GoodProcess(l, a, o), Good(saved'),
           refused' \in BOOLEAN, UNCHANGED <<artifact, file, alone>>
    PROVE  Inv'
<1>1. a \in Status /\ o \in Op /\ saved' \in Status
  BY DEF GoodProcess, Good, GoodOp
<1>2. TypeOK'
  BY <1>1, UpdateTypes DEF Inv, TypeOK
<1>3. ASSUME NEW q \in Processes
      PROVE  GoodProcess(life'[q], active'[q], op'[q])
  BY <1>1, UpdateTypes DEF Inv
<1>4. ASSUME NEW q \in Processes
      PROVE  GoodProcess(life[q], active[q], op[q])'
  BY <1>3 DEF GoodProcess, Good, GoodOp, Kept, Proven, Delivered, Phase,
            OneAhead
<1>5. Good(saved)'
  BY DEF Good, Kept, Proven
<1> QED BY <1>2, <1>4, <1>5 DEF Inv

LEMMA SavedIsGood == Inv => Good(saved) /\ refused \in BOOLEAN
BY DEF Inv, TypeOK

LEMMA EndKeeps ==
    ASSUME Inv, NEW p \in Processes, End(p), Good(saved'),
           refused' \in BOOLEAN, UNCHANGED <<artifact, file, alone>>
    PROVE  Inv'
<1>1. Update(p, "down", NoStatus, Idle)
  BY DEF End, Update
<1>2. GoodProcess("down", NoStatus, Idle)
  BY NothingIsGood, Nothing DEF GoodProcess, Phase
<1> QED BY <1>1, <1>2, UpdateKeeps

\* A call that returns leaves a good status, its own or none.
LEMMA ReturnKeeps ==
    ASSUME Inv, NEW p \in Processes, NEW status, life[p] = "up",
           Return(p, status), Good(status), Good(saved'),
           refused' \in BOOLEAN, UNCHANGED <<artifact, file, alone>>
    PROVE  Inv'
<1>1. GoodProcess("up", status, Idle) /\ GoodProcess("down", NoStatus, Idle)
  BY NothingIsGood, Nothing DEF GoodProcess, Phase
<1> QED BY <1>1, ReturnUpdates, UpdateKeeps DEF Inv

LEMMA ReturnErrorKeeps ==
    ASSUME Inv, NEW p \in Processes, life[p] = "up", ReturnError(p), Good(saved'),
           refused' \in BOOLEAN, UNCHANGED <<artifact, file, alone>>
    PROVE  Inv'
BY ReturnKeeps DEF ReturnError, Inv, GoodProcess

\* A write that fails leaves the old state or the new one.
LEMMA WriteFailsIsGood ==
    ASSUME Inv, NEW p \in Processes, NEW next, NEW early,
           Good(next), WriteFails(p, next, early)
    PROVE  Good(saved') /\ refused' \in BOOLEAN
<1>1. alone[p] \in BOOLEAN /\ Good(saved) /\ refused \in BOOLEAN
  BY DEF Inv, TypeOK
<1> QED BY <1>1 DEF WriteFails

LEMMA GotoKeeps ==
    ASSUME Inv, NEW p \in Processes, NEW o, Goto(p, o),
           GoodOp(o), Phase(life[p], active[p], o),
           UNCHANGED <<artifact, saved, file, alone, refused>>
    PROVE  Inv'
<1>1. life[p] \in {"down", "starting", "up"} /\ Good(active[p])
  BY DEF Inv, TypeOK, GoodProcess
<1>2. Good(saved') /\ refused' \in BOOLEAN
  BY SavedIsGood
<1>3. GoodProcess(life[p], active[p], o)
  BY <1>1 DEF GoodProcess
<1> QED BY <1>1, <1>2, <1>3, GotoUpdates, UpdateKeeps DEF Inv

------------------------------------------------------------------------------
(* The steps of NewManager.                                                *)

LEMMA BootStep ==
    ASSUME Inv, NEW p \in Processes, Boot(p)
    PROVE  Inv'
<1> DEFINE l == IF saved.rev = NoRev THEN "up" ELSE "starting"
           o == IF saved.rev = NoRev THEN Idle
                ELSE [Idle EXCEPT !.pc = "primary", !.next = saved]
<1>1. Good(saved) /\ saved \in Status /\ active[p] = NoStatus
  BY DEF Inv, Good, Boot, GoodProcess, Phase
<1>2. /\ o \in Op /\ (saved.rev = NoRev => o = Idle)
      /\ saved.rev # NoRev => o.pc = "primary" /\ o.next = saved
  BY <1>1, Nothing DEF Op, Steps
<1>3. GoodProcess(l, active[p], o)
  BY <1>1, <1>2, NothingIsGood, Nothing DEF GoodProcess, GoodOp, Phase
<1>4. Update(p, l, active[p], o)
  BY DEF Boot, Update, Inv, TypeOK
<1>5. l \in {"down", "starting", "up"} /\ active[p] \in Status
  BY <1>1, Nothing
<1>6. TypeOK'
  BY <1>2, <1>4, <1>5, UpdateTypes DEF Boot, Inv, TypeOK
<1>7. ASSUME NEW q \in Processes
      PROVE  GoodProcess(life'[q], active'[q], op'[q])
  BY <1>2, <1>3, <1>4, <1>5, UpdateTypes DEF Inv
<1>8. ASSUME NEW q \in Processes
      PROVE  GoodProcess(life[q], active[q], op[q])'
  BY <1>7 DEF Boot, GoodProcess, Good, GoodOp, Kept, Proven, Delivered, Phase,
         OneAhead
<1>9. Good(saved)'
  BY <1>1 DEF Boot, Good, Kept, Proven
<1> QED BY <1>6, <1>8, <1>9 DEF Inv

LEMMA RestoreStep ==
    ASSUME Inv, NEW p \in Processes, Restore(p)
    PROVE  Inv'
<1>1. Good(op[p].next)
  BY DEF Inv, GoodProcess, GoodOp
<1>2. GoodProcess("up", op[p].next, Idle)
  BY <1>1, NothingIsGood, Nothing DEF GoodProcess, Phase
<1>3. Update(p, "up", op[p].next, Idle)
  BY DEF Restore, Update
<1> QED BY <1>1, <1>2, <1>3, UpdateKeeps DEF Restore

LEMMA RecoverFailsStep ==
    ASSUME Inv, NEW p \in Processes, RecoverFails(p)
    PROVE  Inv'
<1>1. CASE End(p)
  BY <1>1, SavedIsGood, EndKeeps DEF RecoverFails
<1>2. CASE At(p, "primary") /\ op[p].next.prev # NoRev /\ ~End(p)
  <2> DEFINE o == [op[p] EXCEPT !.pc = "fallback", !.next.rev = op[p].next.prev,
                                !.next.prev = NoRev, !.next.tag = NoTag]
  <2>1. Goto(p, o)
    BY <1>2 DEF RecoverFails
  <2>2. op[p] \in Op /\ op[p].next \in Status /\ Kept(op[p].next)
    BY DEF Inv, GoodProcess, GoodOp, Good
  <2>3. /\ o \in Op /\ o.pc = "fallback" /\ o.next \in Status
        /\ o.next.rev = op[p].next.prev /\ o.next.prev = NoRev
        /\ o.next.tag = NoTag
    BY <2>2 DEF Op, Status, Steps
  <2>4. GoodOp(o)
    BY <1>2, <2>2, <2>3 DEF GoodOp, Good, Kept, Proven
  <2>5. life[p] = "starting"
    BY <1>2 DEF At, Inv, GoodProcess, Phase
  <2>6. Phase(life[p], active[p], o)
    BY <2>3, <2>5 DEF Phase
  <2> QED BY <2>1, <2>4, <2>6, GotoKeeps DEF RecoverFails
<1> QED BY <1>1, <1>2 DEF RecoverFails

------------------------------------------------------------------------------
(* The steps of a call.                                                    *)

LEMMA TagTypes ==
    ASSUME Inv, NEW p \in Processes, NEW s
    PROVE  SentTag(p, s) \in Tags \cup {NoTag}
BY DEF Inv, TypeOK, SentTag, Status

LEMMA FetchedStep ==
    ASSUME Inv, NEW p \in Processes, NEW s \in Sources, NEW result,
           CanStart(p), Delivers(s, result), Fetched(p, s, result),
           UNCHANGED <<artifact, saved, file, alone, refused>>
    PROVE  Inv'
<1>1. life[p] = "up" /\ result \in Results
  BY DEF CanStart, Delivers
<1>2. CASE result.kind = "bytes" /\ Goto(p, [Idle EXCEPT !.pc = "checking",
                !.source = s, !.bytes = result.bytes, !.tag = result.tag])
  <2> DEFINE o == [Idle EXCEPT !.pc = "checking", !.source = s,
                               !.bytes = result.bytes, !.tag = result.tag]
  <2>1. /\ o \in Op /\ o.pc = "checking" /\ o.next = NoStatus /\ o.source = s
        /\ o.bytes = result.bytes /\ o.tag = result.tag
    BY <1>1, Nothing DEF Results, Op, Steps
  <2>2. GoodOp(o) /\ Phase(life[p], active[p], o)
    BY <1>1, <1>2, <2>1, NothingIsGood DEF GoodOp, Phase, Delivers
  <2> QED BY <1>2, <2>2, GotoKeeps
<1>3. CASE /\ active[p].rev # NoRev
           /\ Goto(p, [Idle EXCEPT !.pc = "persist", !.source = s,
                                   !.next = active[p]])
  <2> DEFINE o == [Idle EXCEPT !.pc = "persist", !.source = s,
                               !.next = active[p]]
  <2>1. Good(active[p]) /\ active[p] \in Status
    BY DEF Inv, GoodProcess, Good
  <2>2. o \in Op /\ o.pc = "persist" /\ o.next = active[p]
    BY <2>1, Nothing DEF Op, Steps
  <2>3. GoodOp(o) /\ Phase(life[p], active[p], o)
    BY <1>1, <1>3, <2>1, <2>2 DEF GoodOp, Phase, OneAhead
  <2> QED BY <1>3, <2>3, GotoKeeps
<1>4. CASE ReturnError(p)
  BY <1>1, <1>4, SavedIsGood, ReturnErrorKeeps
<1> QED BY <1>2, <1>3, <1>4 DEF Fetched

LEMMA RefreshFileStep ==
    ASSUME Inv, NEW p \in Processes, NEW s \in FileSources, RefreshFile(p, s)
    PROVE  Inv'
<1>1. file[s] \in Bytes \cup {Missing} /\ s \in Sources
  BY DEF Inv, TypeOK, Sources
<1>2. Delivers(s, FileFetch(s, SentTag(p, s), file[s]))
  BY <1>1, TagTypes, FileDelivers
<1> QED BY <1>1, <1>2, FetchedStep DEF RefreshFile

LEMMA RefreshRemoteStep ==
    ASSUME Inv, NEW p \in Processes, NEW s \in Remote,
           RefreshRemote(p, s)
    PROVE  Inv'
<1>1. PICK answers \in Answers \X Answers :
            Fetched(p, s, RemoteFetch(s, SentTag(p, s), answers))
  BY DEF RefreshRemote
<1>2. Delivers(s, RemoteFetch(s, SentTag(p, s), answers)) /\ s \in Sources
  BY TagTypes, RemoteDelivers DEF Sources
<1> QED BY <1>1, <1>2, FetchedStep DEF RefreshRemote

LEMMA RollbackStep ==
    ASSUME Inv, NEW p \in Processes, NEW r \in Archives, Rollback(p, r)
    PROVE  Inv'
<1>1. CASE artifact[r] = Missing
  BY <1>1, SavedIsGood, ReturnErrorKeeps DEF Rollback, CanStart
<1>2. CASE artifact[r] # Missing
  <2> DEFINE o == [Idle EXCEPT !.pc = "checking", !.bytes = artifact[r],
                               !.source = <<"rollback", r>>]
  <2>1. artifact[r] \in Bytes /\ <<"rollback", r>> \in Rollbacks
    BY <1>2 DEF Inv, TypeOK, Bytes, Rollbacks
  <2>2. o \in Op /\ o.pc = "checking" /\ o.tag = NoTag /\ o.next = NoStatus
    BY <2>1, Nothing DEF Op, Steps, Idle
  <2>3. GoodOp(o) /\ Phase(life[p], active[p], o)
    BY <2>2, NothingIsGood DEF GoodOp, Phase, Delivered, Rollback, CanStart
  <2> QED BY <1>2, <2>3, GotoKeeps DEF Rollback
<1> QED BY <1>1, <1>2

\* An archive that is stored has its own name, and spoils no other.
LEMMA StoredKeeps ==
    ASSUME Inv, NEW p \in Processes, NEW b \in Archives,
           artifact' = [artifact EXCEPT ![b] = b],
           UNCHANGED <<saved, file, alone, refused>>,
           NEW l \in {"down", "starting", "up"}, NEW a, NEW o \in Op,
           Update(p, l, a, o), Good(a), Phase(l, a, o),
           o.pc = "checking" => Delivered(o.source, o.bytes, o.tag),
           o.pc \in {"primary", "fallback", "persist"} => o.next.rev # NoRev,
           o.next.rev = NoRev => o.next = NoStatus,
           Proven(o.next),
           \A r \in {o.next.rev, o.next.prev} \ {NoRev} : artifact'[r] = r
    PROVE  Inv'
<1>1. /\ artifact \in [Archives -> Archives \cup {Missing}]
      /\ a \in Status /\ o.next \in Status
  BY DEF Inv, TypeOK, Good, Op
<1>2. /\ artifact' \in [Archives -> Archives \cup {Missing}]
      /\ \A r \in Archives : artifact[r] = r => artifact'[r] = r
  BY <1>1
<1>3. ASSUME NEW status, Good(status)
      PROVE  \A r \in {status.rev, status.prev} \ {NoRev} : artifact'[r] = r
  BY <1>2, <1>3 DEF Good, Kept, Status
<1>4. /\ life' \in [Processes -> {"down", "starting", "up"}]
      /\ active' \in [Processes -> Status]
      /\ op' \in [Processes -> Op]
      /\ \A q \in Processes \ {p} :
            life'[q] = life[q] /\ active'[q] = active[q] /\ op'[q] = op[q]
      /\ life'[p] = l /\ active'[p] = a /\ op'[p] = o
  BY <1>1, UpdateTypes DEF Inv
<1>5. TypeOK'
  BY <1>2, <1>4 DEF Inv, TypeOK
<1>6. Good(saved)'
  BY <1>3 DEF Inv, Good, Kept, Proven
<1>7. ASSUME NEW q \in Processes \ {p}
      PROVE  GoodProcess(life[q], active[q], op[q])'
  <2>1. life'[q] = life[q] /\ active'[q] = active[q] /\ op'[q] = op[q]
    BY <1>4
  <2>2. GoodProcess(life[q], active[q], op[q])
    BY DEF Inv
  <2>3. Good(active[q])'
    BY <1>3, <2>1, <2>2 DEF GoodProcess, Good, Kept, Proven
  <2>4. Good(op[q].next)'
    BY <1>3, <2>1, <2>2 DEF GoodProcess, GoodOp, Good, Kept, Proven
  <2> QED BY <2>1, <2>2, <2>3, <2>4
          DEF GoodProcess, GoodOp, Phase, Delivered, OneAhead
<1>8. GoodProcess(life[p], active[p], op[p])'
  <2>1. Good(active[p])'
    BY <1>1, <1>3, <1>4 DEF Good, Kept, Proven
  <2>2. Good(op[p].next)'
    BY <1>1, <1>4 DEF Good, Kept, Proven
  <2> QED BY <1>4, <2>1, <2>2 DEF GoodProcess, GoodOp, Phase, Delivered, OneAhead
<1> QED BY <1>5, <1>6, <1>7, <1>8 DEF Inv

LEMMA StoreStep ==
    ASSUME Inv, NEW p \in Processes, Store(p)
    PROVE  Inv'
<1> DEFINE b == op[p].bytes
           c == Candidate(p)
           o == [op[p] EXCEPT !.pc = "persist", !.next = c]
<1>1. /\ b \in Archives /\ b # NoRev
      /\ op[p] \in Op /\ Good(active[p]) /\ active[p] \in Status
      /\ Delivered(op[p].source, b, op[p].tag)
      /\ artifact \in [Archives -> Archives \cup {Missing}]
  BY DeploymentAssumption
     DEF Store, At, Inv, TypeOK, GoodProcess, GoodOp, Good
<1>2. /\ artifact' = [artifact EXCEPT ![b] = b] /\ artifact'[b] = b
      /\ UNCHANGED <<saved, file, alone, refused>>
      /\ \A r \in Archives : artifact[r] = r => artifact'[r] = r
  BY <1>1 DEF Store
<1>3. /\ c \in Status /\ c.rev = b /\ c.tag = op[p].tag /\ c.source = op[p].source
      /\ c.prev \in {active[p].rev, active[p].prev}
      /\ OneAhead(c, active[p])
  BY <1>1 DEF Candidate, Status, Op, OneAhead
<1>4. \A r \in {active[p].rev, active[p].prev} \ {NoRev} : artifact'[r] = r
  BY <1>1, <1>2 DEF Good, Kept, Status
<1>5. \A r \in {c.rev, c.prev} \ {NoRev} : artifact'[r] = r
  BY <1>1, <1>2, <1>3, <1>4
<1>6. Proven(c) /\ c.rev # NoRev
  BY <1>1, <1>3 DEF Proven, Delivered
<1>7. o \in Op /\ o.pc = "persist" /\ o.next = c
  BY <1>1, <1>3 DEF Op, Steps
<1>8. life[p] = "up"
  BY DEF Store, At, Inv, TypeOK, GoodProcess, Phase, Idle
<1>9. Update(p, life[p], active[p], o)
  BY GotoUpdates DEF Store, Inv
<1>10. Phase(life[p], active[p], o)
  BY <1>3, <1>7, <1>8 DEF Phase
<1> HIDE DEF b, c, o
<1> QED BY <1>1, <1>2, <1>5, <1>6, <1>7, <1>8, <1>9, <1>10, StoredKeeps

\* The archive may have been stored although the call fails.
LEMMA StoreFailsStep ==
    ASSUME Inv, NEW p \in Processes, StoreFails(p)
    PROVE  Inv'
<1>1. /\ life[p] = "up" /\ Good(saved) /\ refused \in BOOLEAN
      /\ Good(active[p]) /\ active[p] \in Status
  BY DEF StoreFails, At, Inv, TypeOK, GoodProcess, Good, Phase, Idle
<1>2. CASE UNCHANGED artifact
  BY <1>1, <1>2, ReturnErrorKeeps DEF StoreFails
<1>3. CASE /\ op[p].bytes \in Archives
           /\ artifact' = [artifact EXCEPT ![op[p].bytes] = op[p].bytes]
  <2>1. \/ Update(p, "up", active[p], Idle)
        \/ Update(p, "down", NoStatus, Idle)
    BY <1>1, ReturnUpdates DEF StoreFails, ReturnError, Inv
  <2>2. /\ Idle \in Op /\ Idle.pc = "idle" /\ Idle.next = NoStatus
        /\ Proven(Idle.next) /\ Good(NoStatus)
        /\ {Idle.next.rev, Idle.next.prev} \ {NoRev} = {}
    BY Nothing, NothingIsGood DEF Good, NoStatus
  <2>3. Phase("up", active[p], Idle) /\ Phase("down", NoStatus, Idle)
    BY <2>2 DEF Phase
  <2>4. UNCHANGED <<saved, file, alone, refused>>
    BY DEF StoreFails
  <2> HIDE DEF Idle, NoStatus
  <2> QED BY <1>1, <1>3, <2>1, <2>2, <2>3, <2>4, StoredKeeps
<1> QED BY <1>2, <1>3 DEF StoreFails

LEMMA PersistStep ==
    ASSUME Inv, NEW p \in Processes, Persist(p)
    PROVE  Inv'
<1>1. Good(op[p].next)
  BY DEF Inv, GoodProcess, GoodOp
<1>2. life[p] = "up"
  BY DEF Persist, At, Inv, TypeOK, GoodProcess, Phase, Idle
<1> QED BY <1>1, <1>2, ReturnKeeps DEF Persist

LEMMA FailureStep ==
    ASSUME Inv, NEW p \in Processes,
           RestoreFails(p) \/ PersistFails(p) \/ Exit(p) \/ Crash(p)
    PROVE  Inv'
<1>1. Good(saved) /\ refused \in BOOLEAN /\ Good(op[p].next)
  BY DEF Inv, TypeOK, GoodProcess, GoodOp
<1>2. CASE Exit(p) \/ Crash(p)
  BY <1>1, <1>2, EndKeeps DEF Exit, Crash
<1>3. CASE RestoreFails(p)
  BY <1>1, <1>3, WriteFailsIsGood, EndKeeps DEF RestoreFails
<1>4. CASE PersistFails(p)
  <2>1. life[p] = "up"
    BY <1>4 DEF PersistFails, At, Inv, TypeOK, GoodProcess, Phase, Idle
  <2> QED BY <1>1, <1>4, <2>1, WriteFailsIsGood, ReturnErrorKeeps DEF PersistFails
<1> QED BY <1>2, <1>3, <1>4

LEMMA QuietStep ==
    ASSUME Inv, UNCHANGED <<artifact, saved, life, active, op, alone, refused>>,
           file' \in [FileSources -> Bytes \cup {Missing}]
    PROVE  Inv'
<1>1. TypeOK'
  BY DEF Inv, TypeOK
<1>2. Good(saved)'
  BY DEF Inv, Good, Kept, Proven
<1>3. ASSUME NEW q \in Processes
      PROVE  GoodProcess(life[q], active[q], op[q])'
  BY DEF Inv, GoodProcess, Good, GoodOp, Kept, Proven, Delivered, Phase,
         OneAhead
<1> QED BY <1>1, <1>2, <1>3 DEF Inv

LEMMA InvStep ==
    ASSUME Inv, [Next]_vars
    PROVE  Inv'
<1>1. ASSUME NEW p \in Processes, Boot(p) \/ Crash(p)
      PROVE  Inv'
  BY <1>1, BootStep, FailureStep
<1>2. ASSUME NEW s \in FileSources, NEW c \in Archives \cup {Junk}, Rewrite(s, c)
      PROVE  Inv'
  <2>1. file' \in [FileSources -> Bytes \cup {Missing}]
    BY <1>2 DEF Rewrite, Inv, TypeOK, Bytes
  <2> QED BY <1>2, <2>1, QuietStep DEF Rewrite
<1>3. ASSUME NEW p \in Processes, Call(p)
      PROVE  Inv'
  BY <1>3, RefreshFileStep, RefreshRemoteStep, RollbackStep, FailureStep DEF Call
<1>4. ASSUME NEW p \in Processes, Step(p)
      PROVE  Inv'
  BY <1>4, RestoreStep, RecoverFailsStep, StoreStep, StoreFailsStep, PersistStep,
     FailureStep DEF Step
<1>5. CASE UNCHANGED vars
  BY <1>5, QuietStep DEF vars, Inv, TypeOK
<1> QED BY <1>1, <1>2, <1>3, <1>4, <1>5 DEF Next, Environment

LEMMA InvHolds == Spec => []Inv
BY InitInv, InvStep, PTL DEF Spec

------------------------------------------------------------------------------
(* Theorems.                                                               *)

\* Every variable of every process keeps its type, whatever sources deliver.
THEOREM TypeCorrect == Spec => []TypeOK
<1>1. Inv => TypeOK
  BY DEF Inv
<1> QED BY <1>1, InvHolds, PTL

\* Any number of processes may overwrite each other's state.json and crash: the
\* archives of the revision and of the fallback it names are always there.
THEOREM EveryStateRecovers == Spec => []EveryProcessStarts
<1>1. Inv => EveryProcessStarts
  BY DEF Inv, Good, Kept, EveryProcessStarts
<1> QED BY <1>1, InvHolds, PTL

\* Whatever servers answer, and whoever writes the state, a tag beside a
\* revision proves that the source named there has, or had, its bytes.
THEOREM TagsProve == Spec => []TagProvesContent
<1>1. Inv => TagProvesContent
  BY DEF Inv, GoodProcess, GoodOp, Good, TagProvesContent
<1> QED BY <1>1, InvHolds, PTL

------------------------------------------------------------------------------
(* A process that is alone.                                                *)

Agrees(status) == saved = status \/ (refused /\ OneAhead(saved, status))

AloneInv ==
    \A p \in Processes :
        alone[p] =>
            /\ \A q \in Processes \ {p} : life[q] = "down"
            /\ life[p] = "up" => Agrees(active[p])

\* What a step of a process may leave in state.json, if it stays up.
Leaves(p) ==
    \/ life'[p] # "up"
    \/ saved' = active'[p]
    \/ /\ life[p] = "up" /\ active'[p] = active[p]
       /\ \/ UNCHANGED <<saved, refused>>
          \/ OneAhead(saved', active[p]) /\ (alone[p] => refused')

LEMMA OwnStep ==
    ASSUME Inv, NEW p \in Processes,
           Call(p) \/ Step(p) \/ Crash(p)
    PROVE  /\ life[p] # "down" /\ alone' = alone
           /\ life' \in [Processes -> {"down", "starting", "up"}]
           /\ \A q \in Processes \ {p} : life'[q] = life[q]
           /\ Leaves(p)
<1>1. /\ life \in [Processes -> {"down", "starting", "up"}]
      /\ active \in [Processes -> Status]
      /\ life[p] = "starting" <=> op[p].pc \in {"primary", "fallback"}
      /\ life[p] = "down" => op[p].pc = "idle"
      /\ op[p].pc = "persist" => OneAhead(op[p].next, active[p])
  BY Nothing DEF Inv, TypeOK, GoodProcess, Phase
<1> USE DEF Leaves
<1>2. CASE Crash(p) \/ Exit(p) \/ RestoreFails(p)
  BY <1>1, <1>2 DEF Crash, Exit, RestoreFails, CanStart, Recovers, At, End
<1>3. CASE Restore(p)
  BY <1>1, <1>3 DEF Restore, Recovers, At
<1>4. CASE RecoverFails(p)
  BY <1>1, <1>4 DEF RecoverFails, At, Goto, End
<1>5. CASE Store(p)
  BY <1>1, <1>5 DEF Store, At, Goto
<1>6. ASSUME ReturnError(p), life[p] = "up", alone' = alone,
             \/ UNCHANGED <<saved, refused>>
             \/ OneAhead(saved', active[p]) /\ (p = Service /\ alone[p] => refused')
      PROVE  /\ life' \in [Processes -> {"down", "starting", "up"}]
             /\ \A q \in Processes \ {p} : life'[q] = life[q]
             /\ Leaves(p)
  BY <1>1, <1>6 DEF ReturnError, Return, End
<1>7. CASE StoreFails(p)
  BY <1>1, <1>6, <1>7 DEF StoreFails, At
<1>8. CASE PersistFails(p)
  BY <1>1, <1>6, <1>8 DEF PersistFails, WriteFails, At
<1>9. CASE Persist(p)
  BY <1>1, <1>9 DEF Persist, At, Return, End
<1>10. ASSUME NEW r \in Archives, Rollback(p, r)
       PROVE  /\ CanStart(p) /\ UNCHANGED <<saved, alone, refused>>
              /\ ReturnError(p) \/ \E o : Goto(p, o)
  BY <1>10 DEF Rollback
<1>11. ASSUME NEW s, NEW result, Fetched(p, s, result)
       PROVE  ReturnError(p) \/ \E o : Goto(p, o)
  BY <1>11 DEF Fetched
<1>12. CASE /\ CanStart(p) /\ UNCHANGED <<saved, alone, refused>>
            /\ ReturnError(p) \/ \E o : Goto(p, o)
  BY <1>1, <1>6, <1>12 DEF CanStart, Goto
<1>13. ASSUME NEW s \in FileSources, RefreshFile(p, s)
       PROVE  CanStart(p) /\ UNCHANGED <<saved, alone, refused>>
              /\ (ReturnError(p) \/ \E o : Goto(p, o))
  BY <1>11, <1>13 DEF RefreshFile
<1>14. ASSUME NEW s \in Remote, RefreshRemote(p, s)
       PROVE  CanStart(p) /\ UNCHANGED <<saved, alone, refused>>
              /\ (ReturnError(p) \/ \E o : Goto(p, o))
  BY <1>11, <1>14 DEF RefreshRemote
<1>15. CASE Call(p)
  BY <1>2, <1>10, <1>12, <1>13, <1>14, <1>15 DEF Call
<1>16. CASE Step(p)
  BY <1>2, <1>3, <1>4, <1>5, <1>7, <1>8, <1>9, <1>16 DEF Step
<1> QED BY <1>2, <1>15, <1>16

LEMMA AloneStep ==
    ASSUME Inv, AloneInv, [Next]_vars
    PROVE  AloneInv'
<1>1. ASSUME NEW p \in Processes, Boot(p)
      PROVE  AloneInv'
  <2>1. /\ active[p] = NoStatus /\ (saved.rev = NoRev => saved = NoStatus)
        /\ life \in [Processes -> {"down", "starting", "up"}]
    BY <1>1 DEF Boot, Inv, TypeOK, Good, GoodProcess, Phase
  <2> QED BY <1>1, <2>1 DEF Boot, AloneInv, Agrees
<1>2. ASSUME NEW p \in Processes, Call(p) \/ Step(p) \/ Crash(p)
      PROVE  AloneInv'
  <2>1. /\ life[p] # "down" /\ alone' = alone
        /\ life' \in [Processes -> {"down", "starting", "up"}]
        /\ \A q \in Processes \ {p} : life'[q] = life[q]
        /\ Leaves(p)
    BY <1>2, OwnStep
  <2>2. ASSUME NEW q \in Processes, alone'[q]
        PROVE  q = p
    BY <2>1, <2>2 DEF AloneInv
  <2>3. ASSUME alone[p], life'[p] = "up"
        PROVE  Agrees(active[p])'
    BY <2>1, <2>3 DEF AloneInv, Leaves, Agrees, OneAhead
  <2> QED BY <2>1, <2>2, <2>3 DEF AloneInv
<1>3. CASE UNCHANGED <<saved, life, active, alone, refused>>
  BY <1>3 DEF AloneInv, Agrees, OneAhead
<1> QED BY <1>1, <1>2, <1>3 DEF Next, Environment, Rewrite, vars

\* A process that had the directory for itself since it started serves what
\* state.json names, between any two calls, unless its last write failed after
\* the rename: then the file is one activation ahead.
THEOREM SingleWriter == Spec => []SingleWriterAgrees
<1>1. Init => AloneInv
  BY DEF Init, AloneInv
<1>2. AloneInv => SingleWriterAgrees
  BY DEF AloneInv, SingleWriterAgrees, CanStart, Agrees
<1> QED BY <1>1, <1>2, AloneStep, InvHolds, PTL DEF Spec
==============================================================================
