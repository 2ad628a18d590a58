--------------------------- MODULE PolicyDependencies ---------------------------
(***************************************************************************)
(* ValidateDependencies (internal/policy/bundle.go): the manifests of a    *)
(* bundle are registered one by one, then a depth-first search follows the *)
(* pins of each.  The search starts from the registered bundles in the     *)
(* order of a Go map, which is any order.  PolicyBundle calls it.          *)
(*                                                                         *)
(* A manifest is [id, version, compatible, namespaces, pins]: compatible   *)
(* says that the core is recent enough for it, a namespace is the sequence *)
(* of its segments, and a pin is [id, version].  A pin that cannot be      *)
(* parsed is one whose id no manifest has.                                 *)
(***************************************************************************)
EXTENDS Naturals, Sequences, SequencesExt

CONSTANT Ids        \* identities of bundles

VARIABLES
    pc,         \* "idle", "register", "search" or "done"
    manifests,  \* the argument
    index,      \* of the manifest to be registered
    byID,       \* the registered manifests, by identity
    owners,     \* the namespaces they own
    state,      \* of each identity: "new", "open" or "visited"
    stack,      \* the calls of visit in progress: [id, next pin]
    verdict     \* "none", "accepted" or the code of the failure

vars == <<pc, manifests, index, byID, owners, state, stack, verdict>>

Codes == {"incompatible_version", "dependency_conflict", "namespace_collision",
          "dependency_constraint", "dependency_cycle"}

Overlap(a, b) == IsPrefix(a, b) \/ IsPrefix(b, a)

\* What json.Unmarshal and the manifest contract let through.
IsManifest(m) ==
    /\ m.id \in Ids
    /\ m.pins \in Seq(ToSet(m.pins))
    /\ \A n \in m.namespaces : n \in Seq(ToSet(n))

TypeOK ==
    /\ pc \in {"idle", "register", "search", "done"}
    /\ \A j \in DOMAIN manifests : manifests[j].id \in Ids
    /\ index \in 1..(Len(manifests) + 1)
    /\ DOMAIN byID \subseteq Ids
    /\ \A i \in DOMAIN byID : byID[i] \in ToSet(manifests) /\ byID[i].id = i
    /\ owners \subseteq UNION {m.namespaces : m \in ToSet(manifests)}
    /\ state \in [Ids -> {"new", "open", "visited"}]
    /\ stack \in Seq([id: DOMAIN byID, next: Nat \ {0}])
    /\ verdict \in Codes \cup {"none", "accepted"}

Init ==
    /\ pc = "idle"
    /\ manifests = <<>>
    /\ index = 1
    /\ byID = <<>>
    /\ owners = {}
    /\ state = [i \in Ids |-> "new"]
    /\ stack = <<>>
    /\ verdict = "none"

\* The call, with fresh variables.
ValidateDependencies(list) ==
    /\ pc' = "register"
    /\ manifests' = list
    /\ index' = 1
    /\ byID' = <<>>
    /\ owners' = {}
    /\ state' = [i \in Ids |-> "new"]
    /\ stack' = <<>>
    /\ verdict' = "none"

Return(result) ==
    /\ pc' = "done"
    /\ verdict' = result
    /\ UNCHANGED <<manifests, index, byID, owners, state, stack>>

------------------------------------------------------------------------------
(* The loop over the manifests.                                            *)

Current == manifests[index]

Registering == pc = "register" /\ index <= Len(manifests)

\* Mutant of Collides: no prefixes, only equal namespaces are found.
CollidesIfEqual(m) == m.namespaces \cap owners # {}

\* A namespace is compared with all that were registered before it, those of
\* its own manifest included.
Collides(m) ==
    \E n \in m.namespaces :
        \/ n \in owners
        \/ \E o \in (owners \cup m.namespaces) \ {n} : Overlap(n, o)

Incompatible ==
    /\ Registering
    /\ ~Current.compatible
    /\ Return("incompatible_version")

RegisteredTwice ==
    /\ Registering
    /\ Current.compatible /\ Current.id \in DOMAIN byID
    /\ Return("dependency_conflict")

NamespaceTaken ==
    /\ Registering
    /\ Current.compatible /\ Current.id \notin DOMAIN byID
    /\ Collides(Current)
    /\ Return("namespace_collision")

Register ==
    /\ Registering
    /\ Current.compatible /\ Current.id \notin DOMAIN byID
    /\ ~Collides(Current)
    /\ byID' = [i \in DOMAIN byID \cup {Current.id} |->
                   IF i = Current.id THEN Current ELSE byID[i]]
    /\ owners' = owners \cup Current.namespaces
    /\ index' = index + 1
    /\ UNCHANGED <<pc, manifests, state, stack, verdict>>

StartSearch ==
    /\ pc = "register" /\ index > Len(manifests)
    /\ pc' = "search"
    /\ UNCHANGED <<manifests, index, byID, owners, state, stack, verdict>>

------------------------------------------------------------------------------
(* visit: one frame of the stack is one call.                              *)

Frame == Last(stack)
Pins == byID[Frame.id].pins
Pin == Pins[Frame.next]
HasPin == pc = "search" /\ stack # <<>> /\ Frame.next <= Len(Pins)

\* Mutant of Met: the result of the map lookup is used without its ok.
MetIfNamed(pin) == pin.id \in Ids

Met(pin) == pin.id \in DOMAIN byID /\ byID[pin.id].version = pin.version

Call(id, frames) ==
    /\ state' = [state EXCEPT ![id] = "open"]
    /\ stack' = Append(frames, [id |-> id, next |-> 1])

\* The frame of the caller, when the call for its pin has returned.
Advanced == Append(Front(stack), [Frame EXCEPT !.next = @ + 1])

\* The outer loop; an identity that was visited returns at once.
VisitRoot(id) ==
    /\ pc = "search" /\ stack = <<>>
    /\ id \in DOMAIN byID /\ state[id] = "new"
    /\ Call(id, <<>>)
    /\ UNCHANGED <<pc, manifests, index, byID, owners, verdict>>

PinUnmet ==
    /\ HasPin /\ ~Met(Pin)
    /\ Return("dependency_constraint")

PinOpen ==
    /\ HasPin /\ Met(Pin)
    /\ state[Pin.id] = "open"
    /\ Return("dependency_cycle")

PinVisited ==
    /\ HasPin /\ Met(Pin)
    /\ state[Pin.id] = "visited"
    /\ stack' = Advanced
    /\ UNCHANGED <<pc, manifests, index, byID, owners, state, verdict>>

PinNew ==
    /\ HasPin /\ Met(Pin)
    /\ state[Pin.id] = "new"
    /\ Call(Pin.id, Advanced)
    /\ UNCHANGED <<pc, manifests, index, byID, owners, verdict>>

\* Mutant of Visited: the mark of a call in progress stays.
VisitedStaysOpen ==
    /\ pc = "search" /\ stack # <<>> /\ ~HasPin
    /\ stack' = Front(stack)
    /\ UNCHANGED <<pc, manifests, index, byID, owners, state, verdict>>

\* Mutant of Visited: the mark is taken back when the call returns.
VisitedForgets ==
    /\ pc = "search" /\ stack # <<>> /\ ~HasPin
    /\ state' = [state EXCEPT ![Frame.id] = "new"]
    /\ stack' = Front(stack)
    /\ UNCHANGED <<pc, manifests, index, byID, owners, verdict>>

Visited ==
    /\ pc = "search" /\ stack # <<>> /\ ~HasPin
    /\ state' = [state EXCEPT ![Frame.id] = "visited"]
    /\ stack' = Front(stack)
    /\ UNCHANGED <<pc, manifests, index, byID, owners, verdict>>

Accept ==
    /\ pc = "search" /\ stack = <<>>
    /\ \A i \in DOMAIN byID : state[i] = "visited"
    /\ Return("accepted")

Next ==
    \/ Incompatible \/ RegisteredTwice \/ NamespaceTaken \/ Register \/ StartSearch
    \/ \E i \in Ids : VisitRoot(i)
    \/ PinUnmet \/ PinOpen \/ PinVisited \/ PinNew \/ Visited \/ Accept

------------------------------------------------------------------------------
(* Properties, against what the manual says a valid set of manifests is.   *)

Given == ToSet(manifests)

Distinct == \A j, k \in DOMAIN manifests : manifests[j].id = manifests[k].id => j = k

Apart ==
    \A j, k \in DOMAIN manifests :
        \A n \in manifests[j].namespaces, o \in manifests[k].namespaces :
            Overlap(n, o) => j = k /\ n = o

PinsMet == \A m \in Given : \A p \in ToSet(m.pins) :
    \E d \in Given : d.id = p.id /\ d.version = p.version

\* Every manifest can be given a rank above those it is pinned to.
Acyclic ==
    \E rank \in [Ids -> 0..Len(manifests)] :
        \A m \in Given : \A p \in ToSet(m.pins) :
            p.id \in Ids => rank[p.id] < rank[m.id]

Compatible == \A m \in Given : m.compatible

\* In whatever order the map is walked, a set is accepted exactly when it is
\* compatible, without duplicates and overlaps, closed under its pins and without
\* a cycle ("Missing, incompatible or cyclic dependencies fail validation.
\* Namespace ownership cannot overlap", docs/policy.md:50).
AcceptsExactlyValid ==
    pc = "done" => (verdict = "accepted" <=>
                    Compatible /\ Distinct /\ Apart /\ PinsMet /\ Acyclic)

\* A failure names something that is wrong, also where several things are and
\* the order of the map decides which is met first.
CodeNamesCause ==
    /\ verdict = "incompatible_version" => ~Compatible
    /\ verdict = "dependency_conflict" => ~Distinct
    /\ verdict = "namespace_collision" => ~Apart
    /\ verdict = "dependency_constraint" => ~PinsMet
    /\ verdict = "dependency_cycle" => ~Acyclic
==============================================================================
