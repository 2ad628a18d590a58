------------------------------ MODULE Composition ------------------------------
(***************************************************************************)
(* How partial decisions of the policy layers become one decision          *)
(* (internal/policy/composition.go), as pure operators.                    *)
(*                                                                         *)
(* An obligation is [id, kind, paths, target]: paths is the set of JSON    *)
(* pointers of a field obligation, each the sequence of its segments, and  *)
(* {} for the other kinds; target stands for its destination, limit,       *)
(* reviewer group or check.  A contribution is [layer, rule, outcome,      *)
(* reasons, obligations], with sets for its reasons and obligations.       *)
(***************************************************************************)
EXTENDS Naturals, Sequences, SequencesExt, FiniteSetsExt, Sorting

CONSTANTS
    MaxItems,   \* how long the arrays of a decision may be
    JSONRank    \* the place of a contribution in the order of the JSON texts

LayerNames == {"baseline", "organization", "tenant", "application",
               "local_override"}

FieldKinds == {"remove_paths", "retain_paths", "tokenize", "mask"}
TransformKinds == FieldKinds \cup {"cap_records", "cap_bytes"}
AllowKinds == {"restrict_destination", "require_confirmation",
               "prohibit_retention", "response_check"}
Kinds == TransformKinds \cup AllowKinds \cup {"require_approval"}
Outcomes == {"allow", "transform", "require_approval", "deny"}

KindsOf(obligations) == {o.kind : o \in obligations}

\* The decision schema, as far as outcome, reasons and obligations go.
FitsSchema(d) ==
    Cardinality(d.reasons) <= MaxItems /\ Cardinality(d.obligations) <= MaxItems

ValidDecision(d) ==
    /\ FitsSchema(d)
    /\ d.outcome \in Outcomes
    /\ d.reasons # {}
    /\ \A o \in d.obligations :
        o.kind \in Kinds /\ (o.kind \in FieldKinds <=> o.paths # {})
    /\ d.outcome = "deny" => d.obligations = {}
    /\ d.outcome = "transform" => KindsOf(d.obligations) \cap TransformKinds # {}
    /\ d.outcome = "require_approval" <=> "require_approval" \in KindsOf(d.obligations)
    /\ d.outcome = "allow" => KindsOf(d.obligations) \subseteq AllowKinds

Deny(code) == [outcome |-> "deny", reasons |-> {code}, obligations |-> {}]

\* Mutant of Overlaps: a pointer under another is overlooked.
OverlapsIfEqual(a, b) == a = b

\* One pointer is the other or lies under it.
Overlaps(a, b) == IsPrefix(a, b) \/ IsPrefix(b, a)

\* Whether two obligations of one decision exclude each other.
Conflict(a, b) ==
    \/ /\ a.kind = "restrict_destination" /\ b.kind = a.kind
       /\ a.target # b.target
    \/ /\ a.paths # {} /\ b.paths # {}
       /\ IF "retain_paths" \in {a.kind, b.kind}
          THEN a.kind # b.kind \/ a.paths # b.paths
          ELSE /\ a.kind # b.kind \/ a.kind \in {"tokenize", "mask"}
               /\ \E x \in a.paths, y \in b.paths : Overlaps(x, y)

\* What the loop of Compose has gathered from some parts.
Gather(seen) ==
    [outcomes |-> {p.outcome : p \in seen},
     reasons |-> UNION {p.reasons : p \in seen},
     obligations |-> UNION {p.obligations : p \in seen}]

\* The code of the denial with which a part ends the loop.
\* Mutant of HaltCode: the contributions are not validated.
HaltCodeUnchecked(sum, p) ==
    IF p.outcome = "" THEN "no_decision"
    ELSE IF \E a, b \in sum.obligations \cup p.obligations : a.id = b.id /\ a # b
         THEN "obligation_conflict"
    ELSE "none"

HaltCode(sum, p) ==
    IF p.outcome = "" THEN "no_decision"
    ELSE IF p.layer \notin LayerNames \/ p.rule = "" \/ ~ValidDecision(p)
         THEN "invalid_decision"
    ELSE IF \E a, b \in sum.obligations \cup p.obligations : a.id = b.id /\ a # b
         THEN "obligation_conflict"
    ELSE "none"

\* Mutant of Gathered: the obligations of one part replace the others.
GatheredReplaces(parts, i) ==
    [Gather({parts[j] : j \in 1..(i - 1)}) EXCEPT
        !.obligations = IF i = 1 THEN {} ELSE parts[i - 1].obligations]

\* Mutant of Gathered: the outcome of the last part wins.
GatheredLastWins(parts, i) ==
    [Gather({parts[j] : j \in 1..(i - 1)}) EXCEPT
        !.outcomes = IF i = 1 THEN {} ELSE {parts[i - 1].outcome}]

\* What the loop has gathered before part i.
Gathered(parts, i) == Gather({parts[j] : j \in 1..(i - 1)})

\* The indices of the parts in the order of their JSON texts.
JSONBefore(parts) ==
    {ij \in (DOMAIN parts) \X (DOMAIN parts) :
        \/ JSONRank[parts[ij[1]]] < JSONRank[parts[ij[2]]]
        \/ JSONRank[parts[ij[1]]] = JSONRank[parts[ij[2]]] /\ ij[1] < ij[2]}

\* Mutant of Sorted: the parts are composed as they came.
Unsorted(parts) == parts

Sorted(parts) ==
    LET order == InOrder(DOMAIN parts, JSONBefore(parts)) IN
    [k \in DOMAIN parts |-> parts[order[k]]]

Strongest(outcomes) ==
    IF "deny" \in outcomes THEN "deny"
    ELSE IF "require_approval" \in outcomes THEN "require_approval"
    ELSE IF "transform" \in outcomes THEN "transform"
    ELSE "allow"

\* The first sorted part that has a code ends the loop.
Compose(parts) ==
    LET sorted == Sorted(parts)
        Code(i) == HaltCode(Gathered(sorted, i), sorted[i])
        halts == {i \in DOMAIN sorted : Code(i) # "none"}
        sum == Gathered(sorted, Len(parts) + 1)
        outcome == Strongest(sum.outcomes)
    IN  IF parts = <<>> THEN Deny("no_decision")
        ELSE IF halts # {} THEN Deny(Code(Min(halts)))
        ELSE IF \E a, b \in sum.obligations : a.id # b.id /\ Conflict(a, b)
             THEN Deny("obligation_conflict")
        ELSE [outcome |-> outcome, reasons |-> sum.reasons,
              obligations |-> IF outcome = "deny" THEN {} ELSE sum.obligations]
==============================================================================
