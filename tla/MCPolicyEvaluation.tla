-------------------------- MODULE MCPolicyEvaluation --------------------------
(***************************************************************************)
(* Instance of PolicyEvaluation for TLC: three layers, whose queries       *)
(* return nothing, one item, or two.  The items meet every branch of       *)
(* Compose: each outcome, an invalid one, one id with two definitions,     *)
(* nested pointers, two destinations, two retain sets.                     *)
(***************************************************************************)
EXTENDS PolicyEvaluation

Oblige(id, kind, paths, target) ==
    [id |-> id, kind |-> kind, paths |-> paths, target |-> target]

Item(rule, outcome, obligations) ==
    [layer |-> "", rule |-> rule, outcome |-> outcome,
     reasons |-> {"declared"}, obligations |-> obligations]

\* In the order of their JSON text: by rule id first.
Items == <<
    Item("", "allow", {}),
    Item("allow", "allow", {}),
    Item("approve", "require_approval", {Oblige("g", "require_approval", {}, "owners")}),
    Item("deny", "deny", {}),
    Item("east", "allow", {Oblige("e", "restrict_destination", {}, "east")}),
    Item("invalid", "allow", {Oblige("m", "mask", {<<"a">>}, "")}),
    Item("mask_a", "transform", {Oblige("m", "mask", {<<"a">>}, "")}),
    Item("mask_b", "transform", {Oblige("m", "mask", {<<"b">>}, "")}),
    Item("mask_x", "transform", {Oblige("p", "mask", {<<"a", "x">>}, "")}),
    Item("remove", "transform", {Oblige("n", "remove_paths", {<<"a", "x">>, <<"c">>}, "")}),
    Item("retain", "transform", {Oblige("k", "retain_paths", {<<"c">>}, "")}),
    Item("retain_more", "transform", {Oblige("l", "retain_paths", {<<"c">>, <<"d">>}, "")}),
    Item("west", "allow", {Oblige("w", "restrict_destination", {}, "west")})>>

MCLayers == <<"baseline", "tenant", "application">>

\* Layer names in the order of their text, and within one the order of Items.
Listed ==
    FlattenSeq([k \in 1..3 |->
        LET layer == <<"application", "baseline", "tenant">>[k] IN
        <<NoDecision(layer)>> \o [i \in DOMAIN Items |-> [Items[i] EXCEPT !.layer = layer]]])

MCJSONRank == [p \in ToSet(Listed) |-> CHOOSE i \in DOMAIN Listed : Listed[i] = p]

MCOutputs ==
    {<<>>} \cup {<<Items[i]>> : i \in DOMAIN Items}
    \cup {<<Items[2], Items[10]>>, <<Items[7], Items[3]>>, <<Items[2], Items[2]>>,
          <<[Items[2] EXCEPT !.layer = "baseline"]>>,
          <<[Items[2] EXCEPT !.reasons = {"unknown"}]>>}

Fact(id, source, resolved, expires) ==
    [id |-> id, source |-> source, resolved |-> resolved, expires |-> expires]

MCEvents == {
    {Fact("f", "hr", 1, 3)},
    {Fact("f", "hr", 1, 2)},
    {Fact("f", "hr", 1, 3), Fact("f", "geo", 1, 3)},
    {Fact("f", "hr", 1, 3), Fact("g", "hr", 0, 1), Fact("h", "geo", 3, 4)}}
==============================================================================
