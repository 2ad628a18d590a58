------------------------------ MODULE PolicySource ------------------------------
(***************************************************************************)
(* What the three policy sources of internal/policy/source.go make of a    *)
(* file or of the answers of a server, as pure operators.  Nothing is      *)
(* assumed of a server: it may answer any request with any status, bytes   *)
(* and tag.                                                                *)
(*                                                                         *)
(* Bytes stand for their own SHA-256 digest.  A checksum pin is the bytes  *)
(* it is the digest of, and the tag of a file is the bytes that were read. *)
(* An OCI source is pinned to a manifest, and the manifest to its layer.   *)
(***************************************************************************)
EXTENDS Naturals

CONSTANTS
    Archives,       \* bytes of sound archives, one for each revision
    Manifests,      \* bytes of OCI image manifests
    Junk,           \* bytes of anything else, a torn read of a file included
    FileSources, HTTPSources, OCISources,
    Pin,            \* the checksum of a source, NoPin for a file without one
    LayerOf,        \* the layer a manifest names, NoLayer if it is not valid
    Sized,          \* manifests that give the true size of their layer
    ServerTags,     \* entity tags servers send
    LongTags,       \* those of more than 1024 bytes
    NoPin, NoLayer, NoTag, Missing

Bytes == Archives \cup Manifests \cup {Junk}
Remote == HTTPSources \cup OCISources
Sources == FileSources \cup Remote
Tags == ServerTags \cup Bytes

\* NewHTTPSource and NewOCISource refuse to be made without a pin.
ASSUME SourceAssumption ==
    /\ Pin \in [Sources -> Bytes \cup {NoPin}]
    /\ \A s \in Remote : Pin[s] # NoPin
    /\ \A s \in OCISources : Pin[s] \in Manifests
    /\ LayerOf \in [Manifests -> Bytes \cup {NoLayer}]
    /\ LongTags \subseteq ServerTags
    /\ FileSources \cap Remote = {} /\ HTTPSources \cap OCISources = {}

ASSUME SourceNulls ==
    /\ NoTag \notin Tags /\ NoPin \notin Bytes
    /\ NoLayer \notin Bytes /\ Missing \notin Bytes

\* The bytes a source is pinned to, whichever way; NoPin for a free file.
Pinned(s) == IF s \in OCISources THEN LayerOf[Pin[s]] ELSE Pin[s]

------------------------------------------------------------------------------
\* FetchResult, or an error.
Results == [kind: {"bytes", "not_modified", "failed"},
            bytes: Bytes, tag: Tags \cup {NoTag}]

Failed == [kind |-> "failed", bytes |-> Junk, tag |-> NoTag]

\* What a server may answer; "refused" is any other status, a redirect, an
\* answer that is too long, a broken connection, the end of the context.
Answers ==
    [status: {"ok"}, bytes: Bytes, tag: ServerTags \cup {NoTag}]
    \cup [status: {"not_modified", "refused"}, bytes: {Junk}, tag: {NoTag}]

FileFetch(s, tag, content) ==
    IF content = Missing \/ (Pin[s] # NoPin /\ content # Pin[s]) THEN Failed
    ELSE [kind |-> IF tag = content THEN "not_modified" ELSE "bytes",
          bytes |-> content, tag |-> content]

\* One request, whose tag is sent as If-None-Match.
HTTPFetch(pin, tag, answer) ==
    IF answer.status = "not_modified" /\ tag # NoTag
    THEN [kind |-> "not_modified", bytes |-> Junk, tag |-> tag]
    ELSE IF /\ answer.status = "ok"
            /\ answer.bytes = pin /\ answer.tag \notin LongTags
    THEN [kind |-> "bytes", bytes |-> answer.bytes, tag |-> answer.tag]
    ELSE Failed

\* Mutant of OCIFetch: the digest of the layer is not compared.
OCIFetchUnpinned(s, tag, answers) ==
    LET manifest == HTTPFetch(Pin[s], tag, answers[1])
        blob == HTTPFetch(answers[2].bytes, NoTag, answers[2])
    IN IF manifest.kind # "bytes" THEN manifest
       ELSE IF blob.kind # "bytes" THEN Failed
       ELSE [kind |-> "bytes", bytes |-> blob.bytes, tag |-> manifest.tag]

\* Two requests, for the manifest and for its only layer.  The second one sends
\* no tag; the tag of the manifest is the one that is kept.
OCIFetch(s, tag, answers) ==
    LET manifest == HTTPFetch(Pin[s], tag, answers[1])
        blob == HTTPFetch(LayerOf[manifest.bytes], NoTag, answers[2])
    IN IF manifest.kind # "bytes" THEN manifest
       ELSE IF manifest.bytes \notin Sized \/ LayerOf[manifest.bytes] = NoLayer
               \/ blob.kind # "bytes"
            THEN Failed
       ELSE [kind |-> "bytes", bytes |-> blob.bytes, tag |-> manifest.tag]
==============================================================================
