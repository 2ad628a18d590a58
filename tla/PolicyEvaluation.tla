--------------------------- MODULE PolicyEvaluation ---------------------------
(***************************************************************************)
(* One evaluation of an event under a prepared revision: Engine.Explain    *)
(* (internal/policy/opa/engine.go) checks the external facts, queries the  *)
(* configured layers one after the other, and composes their partial       *)
(* decisions.  A query of Rego may return anything of Outputs or fail; the *)
(* context may end before any step.                                        *)
(***************************************************************************)
EXTENDS Composition

CONSTANTS
    Layers,     \* the layers the revision configures, in order
    Outputs,    \* lists of contributions a layer's query may return
    Reasons,    \* reason codes the revision declares
    Declared,   \* fact sources the revision's manifest declares
    Events,     \* sets of external facts an event may carry
    EventTime   \* occurred_at of the event

\* JSON texts of different contributions differ; a list holds an item at least.
ASSUME Texts ==
    /\ \A p \in DOMAIN JSONRank :
        p = [layer |-> p.layer, rule |-> p.rule, outcome |-> p.outcome,
             reasons |-> p.reasons, obligations |-> p.obligations]
    /\ JSONRank \in [DOMAIN JSONRank -> Nat]
    /\ \A p, q \in DOMAIN JSONRank : JSONRank[p] = JSONRank[q] => p = q
    /\ MaxItems \in Nat \ {0}

VARIABLES
    pc,         \* "facts", "layers" or "done"
    facts,      \* external_facts of the event
    visible,    \* the facts Rego sees
    parts,      \* contributions collected so far
    next,       \* index of the layer to query
    result      \* what Explain returns

vars == <<pc, facts, visible, parts, next, result>>

NoResult == [kind |-> "none", decision |-> Deny("none")]
Error == [kind |-> "error", decision |-> Deny("none")]
Decided(d) == [kind |-> "decision", decision |-> d]

Valid(f) == f.resolved <= EventTime /\ EventTime < f.expires

\* Every fact has its own id and every declared source a valid fact.
FactsPresent ==
    /\ \A f, g \in facts : f.id = g.id => f = g
    /\ \A s \in Declared : \E f \in facts : f.source = s /\ Valid(f)

TypeOK ==
    /\ pc \in {"facts", "layers", "done"}
    /\ facts \in Events
    /\ visible \subseteq facts
    /\ parts \in Seq(DOMAIN JSONRank)
    /\ next \in 1..(Len(Layers) + 1)
    /\ result.kind \in {"none", "error", "decision"}
    /\ result.decision.outcome \in Outcomes

Init ==
    /\ pc = "facts"
    /\ facts \in Events
    /\ visible = {}
    /\ parts = <<>>
    /\ next = 1
    /\ result = NoResult

Finish(r) == pc' = "done" /\ result' = r

MissingFact ==
    /\ pc = "facts" /\ ~FactsPresent
    /\ Finish(Decided(Deny("missing_fact")))
    /\ UNCHANGED <<facts, visible, parts, next>>

\* Facts of undeclared sources are hidden from Rego.
ShowFacts ==
    /\ pc = "facts" /\ FactsPresent
    /\ visible' = {f \in facts : f.source \in Declared}
    /\ pc' = "layers"
    /\ UNCHANGED <<facts, parts, next, result>>

\* The list a layer returned is well formed: no item names a layer, rule ids
\* are distinct, and every reason is declared.
WellFormed(output) ==
    /\ \A i \in DOMAIN output : output[i].layer = "" /\ output[i].reasons \subseteq Reasons
    /\ \A i, j \in DOMAIN output : i # j => output[i].rule # output[j].rule

NoDecision(layer) ==
    [layer |-> layer, rule |-> "", outcome |-> "", reasons |-> {}, obligations |-> {}]

\* Mutant of Contributions: a silent layer is passed over.
ContributionsIfAny(layer, output) ==
    [i \in DOMAIN output |-> [output[i] EXCEPT !.layer = layer]]

\* A layer without a decision contributes one that denies.
Contributions(layer, output) ==
    IF output = <<>> THEN <<NoDecision(layer)>>
    ELSE [i \in DOMAIN output |-> [output[i] EXCEPT !.layer = layer]]

\* What the layers contribute are contributions.
ASSUME LayersContribute ==
    /\ Layers \in Seq(LayerNames)
    /\ \A output \in Outputs : output \in Seq(ToSet(output))
    /\ \A l \in ToSet(Layers), output \in Outputs :
        WellFormed(output) => ToSet(Contributions(l, output)) \subseteq DOMAIN JSONRank

\* Mutant of EvalLayer: every other layer is left out.
EvalLayerSkips(output) ==
    /\ pc = "layers" /\ next <= Len(Layers)
    /\ WellFormed(output)
    /\ parts' = parts \o Contributions(Layers[next], output)
    /\ next' = next + 2
    /\ UNCHANGED <<pc, facts, visible, result>>

EvalLayer(output) ==
    /\ pc = "layers" /\ next <= Len(Layers)
    /\ WellFormed(output)
    /\ parts' = parts \o Contributions(Layers[next], output)
    /\ next' = next + 1
    /\ UNCHANGED <<pc, facts, visible, result>>

RejectLayer(output) ==
    /\ pc = "layers" /\ next <= Len(Layers)
    /\ ~WellFormed(output)
    /\ Finish(Error)
    /\ UNCHANGED <<facts, visible, parts, next>>

\* The event is not canonical, a query fails, or the context has ended.
Fail ==
    /\ pc # "done"
    /\ Finish(Error)
    /\ UNCHANGED <<facts, visible, parts, next>>

\* ExplainResult: the composed decision is validated once more.
Decide ==
    /\ pc = "layers" /\ next > Len(Layers)
    /\ Finish(IF ValidDecision(Compose(parts)) THEN Decided(Compose(parts)) ELSE Error)
    /\ UNCHANGED <<facts, visible, parts, next>>

Next ==
    \/ MissingFact \/ ShowFacts \/ Fail \/ Decide
    \/ \E output \in Outputs : EvalLayer(output) \/ RejectLayer(output)

Spec == Init /\ [][Next]_vars

------------------------------------------------------------------------------
(* Properties.                                                             *)

Rank(outcome) ==
    CASE outcome = "allow" -> 0
      [] outcome = "transform" -> 1
      [] outcome = "require_approval" -> 2
      [] outcome = "deny" -> 3

Released == result.kind = "decision" /\ result.decision.outcome # "deny"

\* An operation that is not denied had a decision of every configured layer,
\* none of which denied it, and a valid fact of every declared source ("A
\* configured layer returning no decision denies the operation").
ReleaseNeedsEveryLayer ==
    Released =>
        /\ \A l \in ToSet(Layers) : \E p \in ToSet(parts) : p.layer = l
        /\ \A p \in ToSet(parts) : p.outcome \in Outcomes \ {"deny"}
        /\ \A s \in Declared : \E f \in facts : f.source = s /\ Valid(f)

\* The outcome is the strongest any contribution asks for, and everything they
\* oblige is in force ("Any deny wins; approval prevents direct allow").
ReleaseKeepsConstraints ==
    Released =>
        /\ \A p \in ToSet(parts) : Rank(p.outcome) <= Rank(result.decision.outcome)
        /\ \E p \in ToSet(parts) : p.outcome = result.decision.outcome
        /\ result.decision.obligations = UNION {p.obligations : p \in ToSet(parts)}
        /\ result.decision.reasons = UNION {p.reasons : p \in ToSet(parts)}

\* No further contribution weakens what was composed before it ("It never
\* permits a higher layer to erase a lower layer's constraints",
\* composition.go:18).
Tightens(d, e) ==
    /\ Rank(d.outcome) <= Rank(e.outcome)
    /\ e.outcome # "deny" => d.obligations \subseteq e.obligations
LayersOnlyTighten ==
    [][parts # <<>> => Tightens(Compose(parts), Compose(parts'))]_parts

\* The obligations of a decision can all be carried out: one definition per id,
\* one destination, one set of fields to retain, which goes with no other
\* operation on fields, and no field that two operations claim unless both only
\* remove it.
NoContradiction ==
    \A a, b \in result.decision.obligations :
        /\ a.id = b.id => a = b
        /\ a.kind = "restrict_destination" /\ b.kind = a.kind => a.target = b.target
        /\ \A x \in a.paths, y \in b.paths :
            /\ "retain_paths" \in {a.kind, b.kind} =>
                a.kind = b.kind /\ a.paths = b.paths
            /\ IsPrefix(x, y) \/ IsPrefix(y, x) =>
                a = b \/ (a.kind = b.kind /\ a.kind \notin {"mask", "tokenize"})

\* What valid parts are put together to satisfies the decision contract, unless
\* it outgrows the arrays of the contract: no evaluation ends in an error for
\* another reason than its size, and none is released that is too large.
ComposedIsValid ==
    /\ pc = "layers" => (ValidDecision(Compose(parts)) <=> FitsSchema(Compose(parts)))
    /\ result.kind = "decision" => FitsSchema(result.decision)

\* "Compose is commutative" (composition.go:18), codes of its denials included.
OrderIrrelevant == Compose(parts) = Compose(Reverse(parts))

\* The facts Rego decides on are valid at the time of the event ("External
\* facts ... must have unique IDs and be valid at event time",
\* docs/policy.md:128).  The code asks for one valid fact of each source and
\* shows all facts of that source.
VisibleFactsAreValid == \A f \in visible : Valid(f)
==============================================================================
