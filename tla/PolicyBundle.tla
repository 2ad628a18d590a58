------------------------------ MODULE PolicyBundle ------------------------------
(***************************************************************************)
(* Bundles and archives (internal/policy/bundle.go): ReadArchive takes an  *)
(* archive entry by entry, Inspect looks at its manifests (which is        *)
(* PolicyDependencies) and at its layers, and seal computes the digests    *)
(* that its manifest must carry.  Build inspects and seals a directory and *)
(* writes the archive, which is then read back.                            *)
(*                                                                         *)
(* Files are a function from names to contents.  Digests are free of       *)
(* collisions, so the digest of some files is those files; a manifest is   *)
(* one of PolicyDependencies with its signing identity, its two digests    *)
(* and the form it is written in, which json.Marshal makes canonical.      *)
(***************************************************************************)
EXTENDS PolicyDependencies, Integers, Sorting

CONSTANTS
    FileNames,      \* the names of files in play, sorted
    Directories,    \* what Build is called with: files
    Archives,       \* what ReadArchive is called with: sequences of entries
    Unsafe,         \* file names that are refused
    Unwritable,     \* file names that a USTAR header cannot hold
    Modules,        \* the names that end in .rego
    ManifestSize(_),    \* the size of a manifest, in the form it has
    MaxFiles, MaxModules, MaxBytes,
    MaxFileBytes,   \* the limit on a single file
    MaxLayers,
    Words,          \* the segments that a layer's namespace may have
    Malformed       \* a content that does not parse

LayerNames == <<"baseline", "organization", "tenant", "application",
                "local_override">>
Rank(l) == CHOOSE i \in DOMAIN LayerNames : LayerNames[i] = l.name

VARIABLES
    job,        \* "build", "read", or "reread" of what was built
    phase,      \* "entries", "inspect", "dependencies", "layers", "seal" or "done"
    archive,    \* the entries to be read: [name, regular, content]
    at,         \* the next entry, or layer
    files,      \* Bundle.Files
    outcome     \* "none", "accepted" or the code of the failure

\* The codes that an operation may end with.
Failures ==
    Codes \cup
    {"invalid_path", "duplicate_file", "bundle_limit", "invalid_manifest",
     "invalid_signing_identity", "invalid_layers", "missing_baseline",
     "invalid_reasons", "invalid_data", "archive_write", "checksum_mismatch"}

bundleVars == <<job, phase, archive, at, files, outcome>>

Zero == <<>>
Manifest == files["manifest.json"]
Layers == files["layers.json"]

FileSize(name, content) ==
    CASE name = "manifest.json" /\ content # Malformed -> ManifestSize(content)
      [] name = "notes" -> content
      [] OTHER -> 1

\* The bytes of the files: every file has as many as its size says.
Bytes(f) == UNION {{n} \X (1..FileSize(n, f[n])) : n \in DOMAIN f}
Size(f) == Cardinality(Bytes(f))

Short(name, content) == FileSize(name, content) <= MaxFileBytes

Parsed(f, name) == name \in DOMAIN f /\ f[name] # Malformed

------------------------------------------------------------------------------
(* Digests.                                                                *)

WithDigests(f, source, build) ==
    [f EXCEPT !["manifest.json"] =
        [@ EXCEPT !.source = source, !.build = build, !.form = "canonical"]]

\* Mutant of FileDigest: the manifest is left out.
FileDigestWithoutManifest(f) == [f EXCEPT !["manifest.json"] = Zero]

FileDigest(f) == f
SourceDigest(f) == FileDigest(WithDigests(f, Zero, Zero))

BuildDigest(f) == FileDigest(WithDigests(f, SourceDigest(f), Zero))
Seal(f) == WithDigests(f, SourceDigest(f), BuildDigest(f))

Matches(f) ==
    /\ f["manifest.json"].source = SourceDigest(f)
    /\ f["manifest.json"].build = BuildDigest(f)

------------------------------------------------------------------------------
(* What the constants have to be.                                          *)

ASSUME Limits ==
    /\ MaxFiles \in Nat /\ MaxModules \in Nat /\ MaxBytes \in Nat
    /\ MaxFileBytes \in Nat /\ MaxLayers \in Nat

ASSUME NamesSorted ==
    /\ FileNames \in Seq(ToSet(FileNames))
    /\ \A j, k \in DOMAIN FileNames : FileNames[j] = FileNames[k] => j = k

\* The fields of a manifest.
HasFields(m) ==
    /\ DOMAIN m = {"id", "version", "compatible", "namespaces", "pins", "signing",
                   "source", "build", "form"}
    /\ m = [k \in DOMAIN m |-> m[k]]

\* Every file has a size, a manifest that parses has all its fields, and layers
\* that parse are a list with integer priorities.
IsContent(name, content) ==
    /\ name \in ToSet(FileNames)
    /\ FileSize(name, content) \in Nat
    /\ name = "manifest.json" /\ content # Malformed => HasFields(content)
    /\ name = "layers.json" /\ content # Malformed =>
        /\ content \in Seq(ToSet(content))
        /\ \A l \in ToSet(content) : l.priority \in Int

\* What json.Marshal writes can be read.
ASSUME Contents ==
    /\ \A a \in Archives :
        /\ a \in Seq(ToSet(a))
        /\ \A e \in ToSet(a) : IsContent(e.name, e.content)
    /\ \A f \in Directories :
        /\ \A n \in DOMAIN f : IsContent(n, f[n])
        /\ Parsed(f, "manifest.json") =>
            /\ Seal(f)["manifest.json"] # Malformed
            /\ IsContent("manifest.json", Seal(f)["manifest.json"])

------------------------------------------------------------------------------
BundleTypeOK ==
    /\ TypeOK
    /\ job \in {"build", "read", "reread"}
    /\ phase \in {"entries", "inspect", "dependencies", "layers", "seal", "done"}
    /\ job = "read" => archive \in Archives
    /\ at \in Nat \ {0}
    /\ job # "build" => Cardinality(DOMAIN files) <= MaxFiles
    /\ job # "build" => DOMAIN files \subseteq {e.name : e \in ToSet(archive)}
    /\ outcome \in Failures \cup {"none", "accepted"}

BundleInit ==
    /\ Init
    /\ \/ job = "build" /\ phase = "inspect" /\ files \in Directories /\ archive = <<>>
       \/ job = "read" /\ phase = "entries" /\ files = <<>> /\ archive \in Archives
    /\ at = 1
    /\ outcome = "none"

Exit(result) ==
    /\ outcome' = result
    /\ phase' = "done"
    /\ UNCHANGED <<job, archive, at, files, vars>>

Goto(next) ==
    /\ phase' = next
    /\ at' = 1
    /\ UNCHANGED <<job, archive, files, outcome>>

------------------------------------------------------------------------------
(* ReadArchive: the entries of the archive.                                *)

Reading == phase = "entries" /\ at <= Len(archive)
Entry == archive[at]
Safe(e) == e.regular /\ e.name \notin Unsafe /\ Short(e.name, e.content)

\* Mutant of Fits: only the bytes are counted.
FitsInBytes(f, e) == Size(f) + FileSize(e.name, e.content) <= MaxBytes

Fits(f, e) ==
    /\ Cardinality(DOMAIN f) < MaxFiles
    /\ Size(f) + FileSize(e.name, e.content) <= MaxBytes

EntryUnsafe == Reading /\ ~Safe(Entry) /\ Exit("invalid_path")

EntryTwice ==
    /\ Reading /\ Safe(Entry)
    /\ Entry.name \in DOMAIN files
    /\ Exit("duplicate_file")

EntryTooMuch ==
    /\ Reading /\ Safe(Entry)
    /\ Entry.name \notin DOMAIN files /\ ~Fits(files, Entry)
    /\ Exit("bundle_limit")

\* Mutant of ReadEntry: a second file of the same name replaces the first.
ReadEntryAgain ==
    /\ Reading /\ Safe(Entry) /\ Fits(files, Entry)
    /\ files' = [n \in DOMAIN files \cup {Entry.name} |->
                    IF n = Entry.name THEN Entry.content ELSE files[n]]
    /\ at' = at + 1
    /\ UNCHANGED <<job, phase, archive, outcome, vars>>

ReadEntry ==
    /\ Reading /\ Safe(Entry)
    /\ Entry.name \notin DOMAIN files /\ Fits(files, Entry)
    /\ files' = [n \in DOMAIN files \cup {Entry.name} |->
                    IF n = Entry.name THEN Entry.content ELSE files[n]]
    /\ at' = at + 1
    /\ UNCHANGED <<job, phase, archive, outcome, vars>>

EndOfArchive ==
    /\ phase = "entries" /\ at > Len(archive)
    /\ Goto("inspect")
    /\ UNCHANGED vars

------------------------------------------------------------------------------
(* Inspect.                                                                *)

\* checkFiles, which Build needs as well.
Misnamed(f) == DOMAIN f \cap Unsafe # {}
Countable(f) == Cardinality(DOMAIN f) \in 1..MaxFiles
WithinLimits(f) ==
    /\ Countable(f)
    /\ \A n \in DOMAIN f : Short(n, f[n])
    /\ Size(f) <= MaxBytes
    /\ Cardinality(DOMAIN f \cap Modules) \in 1..MaxModules

AllManifests(f) ==
    <<f["manifest.json"]>> \o
    (IF "dependencies.json" \in DOMAIN f THEN f["dependencies.json"] ELSE <<>>)

ManifestsParse(f) ==
    /\ Parsed(f, "manifest.json")
    /\ "dependencies.json" \in DOMAIN f =>
        /\ f["dependencies.json"] # Malformed
        /\ f["dependencies.json"] \in Seq(ToSet(f["dependencies.json"]))
    /\ \A m \in ToSet(AllManifests(f)) : IsManifest(m)

FilesMisnamed ==
    /\ phase = "inspect" /\ Countable(files)
    /\ Misnamed(files)
    /\ Exit("invalid_path")

\* The files are looked at in the order of a map: one that is too long may come
\* before one that is misnamed.
FilesOverLimits ==
    /\ phase = "inspect" /\ ~WithinLimits(files)
    /\ Countable(files) /\ Misnamed(files) =>
        \E n \in DOMAIN files \ Unsafe : ~Short(n, files[n])
    /\ Exit("bundle_limit")

ManifestMalformed ==
    /\ phase = "inspect" /\ ~Misnamed(files) /\ WithinLimits(files)
    /\ ~ManifestsParse(files)
    /\ Exit("invalid_manifest")

CallDependencies ==
    /\ phase = "inspect" /\ ~Misnamed(files) /\ WithinLimits(files)
    /\ ManifestsParse(files)
    /\ Goto("dependencies")
    /\ ValidateDependencies(AllManifests(files))

StepDependencies ==
    /\ phase = "dependencies"
    /\ Next
    /\ UNCHANGED bundleVars

DependenciesRefused ==
    /\ phase = "dependencies" /\ pc = "done"
    /\ verdict # "accepted"
    /\ Exit(verdict)

LayersParse(f) ==
    /\ Parsed(f, "layers.json")
    /\ f["layers.json"] # <<>> /\ Len(f["layers.json"]) <= MaxLayers

SignerRefused ==
    /\ phase = "dependencies" /\ pc = "done" /\ verdict = "accepted"
    /\ ~Manifest.signing
    /\ Exit("invalid_signing_identity")

LayersMalformed ==
    /\ phase = "dependencies" /\ pc = "done" /\ verdict = "accepted"
    /\ Manifest.signing /\ ~LayersParse(files)
    /\ Exit("invalid_layers")

StartLayers ==
    /\ phase = "dependencies" /\ pc = "done" /\ verdict = "accepted"
    /\ Manifest.signing /\ LayersParse(files)
    /\ Goto("layers")
    /\ UNCHANGED vars

\* The loop over the layers, in the order of the file.
Layer == Layers[at]
Before == SubSeq(Layers, 1, at - 1)
InLayers == phase = "layers" /\ at <= Len(Layers)

\* A manifest may own more: its schema allows hyphens.
NamespaceMatches(namespace) == namespace # <<>> /\ ToSet(namespace) \subseteq Words

\* Mutant of LayerKnown: the namespace may be anybody's.
LayerUnowned(l) ==
    /\ l.name \in ToSet(LayerNames) /\ NamespaceMatches(l.namespace)
    /\ \A k \in ToSet(Before) : k.name # l.name /\ k.priority # l.priority

\* Mutant of LayerKnown: whatever a manifest may own will do.
LayerUnmatched(l) ==
    /\ l.name \in ToSet(LayerNames)
    /\ \E m \in Given : l.namespace \in m.namespaces
    /\ \A k \in ToSet(Before) : k.name # l.name /\ k.priority # l.priority

LayerKnown(l) ==
    /\ l.name \in ToSet(LayerNames) /\ NamespaceMatches(l.namespace)
    /\ \E m \in Given : l.namespace \in m.namespaces
    /\ \A k \in ToSet(Before) : k.name # l.name /\ k.priority # l.priority

LayerApart(l) == \A k \in ToSet(Before) : ~Overlap(k.namespace, l.namespace)

LayerUnknown == InLayers /\ ~LayerKnown(Layer) /\ Exit("invalid_layers")

LayerCollides ==
    /\ InLayers /\ LayerKnown(Layer)
    /\ ~LayerApart(Layer)
    /\ Exit("namespace_collision")

TakeLayer ==
    /\ InLayers /\ LayerKnown(Layer) /\ LayerApart(Layer)
    /\ at' = at + 1
    /\ UNCHANGED <<job, phase, archive, files, outcome, vars>>

LayersTaken == phase = "layers" /\ at > Len(Layers)
HasBaseline == \E l \in ToSet(Layers) : l.name = "baseline"

\* Sorted by name, the priorities have to grow.
Canonical ==
    LET before == {jk \in (DOMAIN Layers) \X (DOMAIN Layers) :
                      Rank(Layers[jk[1]]) < Rank(Layers[jk[2]])}
        order == InOrder(DOMAIN Layers, before)
    IN  [k \in DOMAIN Layers |-> Layers[order[k]]]

\* Mutant of Ascending: the file has to be in the order of the names.
AscendingInFile ==
    \A j \in 2..Len(Layers) : Layers[j - 1].priority < Layers[j].priority

Ascending ==
    \A j \in 2..Len(Layers) : Canonical[j - 1].priority < Canonical[j].priority

NoBaseline == LayersTaken /\ ~HasBaseline /\ Exit("missing_baseline")

NotAscending ==
    /\ LayersTaken /\ HasBaseline
    /\ ~Ascending
    /\ Exit("invalid_layers")

ReasonsMalformed ==
    /\ LayersTaken /\ HasBaseline /\ Ascending
    /\ ~Parsed(files, "reasons.json")
    /\ Exit("invalid_reasons")

DataMalformed ==
    /\ LayersTaken /\ HasBaseline /\ Ascending
    /\ Parsed(files, "reasons.json") /\ ~Parsed(files, "data.json")
    /\ Exit("invalid_data")

Inspected ==
    /\ LayersTaken /\ HasBaseline /\ Ascending
    /\ Parsed(files, "reasons.json") /\ Parsed(files, "data.json")
    /\ Goto("seal")
    /\ UNCHANGED vars

------------------------------------------------------------------------------
(* Build writes the sealed files, ReadArchive compares the digests.        *)

NamesBefore ==
    {<<FileNames[ij[1]], FileNames[ij[2]]>> :
        ij \in {p \in (DOMAIN FileNames) \X (DOMAIN FileNames) : p[1] < p[2]}}

EntriesOf(f) ==
    LET names == InOrder(DOMAIN f, NamesBefore) IN
    [j \in DOMAIN names |->
        [name |-> names[j], regular |-> TRUE, content |-> f[names[j]]]]

WriteArchiveFails ==
    /\ phase = "seal" /\ job = "build"
    /\ DOMAIN files \cap Unwritable # {}
    /\ Exit("archive_write")

\* Mutant of WriteArchive: the manifest is written before it is sealed.
WriteArchiveUnsealed ==
    /\ phase = "seal" /\ job = "build"
    /\ DOMAIN files \cap Unwritable = {}
    /\ archive' = EntriesOf(files)
    /\ job' = "reread" /\ phase' = "entries" /\ at' = 1 /\ files' = <<>>
    /\ UNCHANGED <<outcome, vars>>

WriteArchive ==
    /\ phase = "seal" /\ job = "build"
    /\ DOMAIN files \cap Unwritable = {}
    /\ archive' = EntriesOf(Seal(files))
    /\ job' = "reread" /\ phase' = "entries" /\ at' = 1 /\ files' = <<>>
    /\ UNCHANGED <<outcome, vars>>

ChecksumDiffers ==
    /\ phase = "seal" /\ job # "build"
    /\ ~Matches(files)
    /\ Exit("checksum_mismatch")

ArchiveRead ==
    /\ phase = "seal" /\ job # "build"
    /\ Matches(files)
    /\ Exit("accepted")

BundleNext ==
    \/ EntryUnsafe \/ EntryTwice \/ EntryTooMuch \/ ReadEntry \/ EndOfArchive
    \/ FilesMisnamed \/ FilesOverLimits \/ ManifestMalformed
    \/ CallDependencies \/ StepDependencies \/ DependenciesRefused
    \/ SignerRefused \/ LayersMalformed \/ StartLayers
    \/ LayerUnknown \/ LayerCollides \/ TakeLayer
    \/ NoBaseline \/ NotAscending \/ ReasonsMalformed \/ DataMalformed \/ Inspected
    \/ WriteArchiveFails \/ WriteArchive \/ ChecksumDiffers \/ ArchiveRead

BundleSpec == BundleInit /\ [][BundleNext]_<<bundleVars, vars>>

\* One goroutine, which nothing holds up.
BundleFairSpec == BundleSpec /\ WF_<<bundleVars, vars>>(BundleNext)

------------------------------------------------------------------------------
(* Properties.                                                             *)

\* What the manual says of layers, whatever their order in the file.
LayersSound ==
    /\ LayersParse(files) /\ HasBaseline
    /\ \A l \in ToSet(Layers) :
        /\ l.name \in ToSet(LayerNames) /\ NamespaceMatches(l.namespace)
        /\ \E m \in Given : l.namespace \in m.namespaces
    /\ \A j, k \in DOMAIN Layers :
        j # k => /\ Layers[j].name # Layers[k].name
                 /\ ~Overlap(Layers[j].namespace, Layers[k].namespace)
                 /\ Rank(Layers[j]) < Rank(Layers[k])
                    <=> Layers[j].priority < Layers[k].priority

Accepted == phase = "done" /\ outcome = "accepted"

\* An archive is accepted exactly when no file comes twice or is misplaced, the
\* limits hold, its manifests are a valid set (AcceptsExactlyValid), its layers
\* are known, owned, apart and in the order of their priorities whatever the
\* order of layers.json, and its manifest has the digests of the files
\* (docs/policy.md:50-62).  A namespace that a manifest may own but that
\* namespacePattern does not match, as "my-app", can have no layer.
AcceptsExactlySound ==
    /\ AcceptsExactlyValid
    /\ phase = "done" /\ job # "build" =>
        (Accepted <=>
            /\ \A j, k \in DOMAIN archive : archive[j].name = archive[k].name => j = k
            /\ \A e \in ToSet(archive) : Safe(e)
            /\ DOMAIN files = {e.name : e \in ToSet(archive)} /\ WithinLimits(files)
            /\ ManifestsParse(files) /\ Manifest.signing
            /\ Compatible /\ Distinct /\ Apart /\ PinsMet /\ Acyclic
            /\ LayersSound
            /\ Parsed(files, "reasons.json") /\ Parsed(files, "data.json")
            /\ Manifest = [Seal(files)["manifest.json"] EXCEPT !.form = Manifest.form])

\* Revisions name contents: two archives that ReadArchive takes for the same
\* revision differ in the formatting of manifest.json at most.  The engine
\* caches bundles, and the manager keeps archives, by nothing but the revision.
AsFiles(a) ==
    [n \in {e.name : e \in ToSet(a)} |->
        (CHOOSE e \in ToSet(a) : e.name = n).content]
Unformatted(f) == [f EXCEPT !["manifest.json"].form = "canonical"]
RevisionNamesContent ==
    Accepted =>
        \A a \in Archives :
            LET other == AsFiles(a) IN
            /\ Parsed(other, "manifest.json") /\ Matches(other)
            /\ other["manifest.json"].build = Manifest.build
            => Unformatted(other) = Unformatted(files)

\* What Build writes, ReadArchive accepts, with the revision and the files that
\* were inspected, unless json.Marshal makes the manifest longer and the bundle,
\* or the manifest on its own, is then over a limit, which Build does not check
\* again.
BuiltIsReadable ==
    job = "reread" /\ phase = "done" =>
        \/ outcome = "accepted" /\ Manifest.form = "canonical"
        \/ outcome = "bundle_limit" /\ Size(AsFiles(archive)) > MaxBytes
        \/ outcome = "invalid_path" /\ ~Short("manifest.json", AsFiles(archive)["manifest.json"])

\* Reading, inspecting and building end, whatever the archive holds.
Ends == <>(phase = "done")
==============================================================================
