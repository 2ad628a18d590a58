------------------------- MODULE MCPolicyDependencies -------------------------
(***************************************************************************)
(* Instance of PolicyBundle and PolicyDependencies for TLC.                *)
(*                                                                         *)
(* Graphs: three bundles, each pinned to up to two of the three, itself    *)
(* included, in either order.  Pairs: every way in which two manifests can *)
(* be wrong on their own or together.  Each list is given to Build in a    *)
(* directory with one layer.  Directories and archives that are odd in     *)
(* themselves are variations of one sound bundle.                          *)
(***************************************************************************)
EXTENDS PolicyBundle

ManifestOf(id, compatible, namespaces, pins) ==
    [id |-> id, version |-> "1", compatible |-> compatible,
     namespaces |-> namespaces, pins |-> pins, signing |-> TRUE,
     source |-> Zero, build |-> Zero, form |-> "short"]

To(id) == [id |-> id, version |-> "1"]

PinLists ==
    {<<>>} \cup {<<To(i)>> : i \in Ids}
           \cup {<<To(p[1]), To(p[2])>> : p \in {q \in Ids \X Ids : q[1] # q[2]}}

Graphs ==
    {<<ManifestOf("a", TRUE, {<<"a">>}, p), ManifestOf("b", TRUE, {<<"b">>}, q),
       ManifestOf("c", TRUE, {<<"c">>}, r)>> : p \in PinLists, q \in PinLists, r \in PinLists}

Claims == {{<<"x">>}, {<<"x", "y">>}, {<<"z">>}, {<<"x">>, <<"x", "y">>}}

\* Other versions, a bundle that is not supplied, a pin that is none.
OddPins ==
    {<<>>, <<To("b")>>, <<[id |-> "b", version |-> "2"]>>, <<To("c")>>,
     <<[id |-> "bad", version |-> "bad"]>>}

Variants(ids) ==
    {ManifestOf(i, c, n, p) : i \in ids, c \in BOOLEAN, n \in Claims, p \in OddPins}

Pairs == {<<m, n>> : m \in Variants({"a"}), n \in Variants({"a", "b"})}

------------------------------------------------------------------------------
LayerOf(name, namespace, priority) ==
    [name |-> name, namespace |-> namespace, priority |-> priority]

With(f, name, content) == (name :> content) @@ f
Without(f, names) == [n \in DOMAIN f \ names |-> f[n]]

Directory(list, layers) ==
    "manifest.json" :> list[1] @@ "layers.json" :> layers
    @@ "dependencies.json" :> Tail(list)
    @@ "policy.rego" :> 1 @@ "reasons.json" :> 1 @@ "data.json" :> 1

\* One bundle that owns three namespaces, two of them nested in no other.
Root == ManifestOf("a", TRUE, {<<"x">>, <<"y">>}, <<>>)
\* Its text grows beyond the limit on a file when json.Marshal escapes it.
Escaped == [Root EXCEPT !.version = "escaped"]
Base == LayerOf("baseline", <<"x">>, 1)
Sound == Without(Directory(<<Root>>, <<Base>>), {"dependencies.json"})
\* It may own a namespace that no layer can have.
Helper == ManifestOf("b", TRUE, {<<"z">>, <<"v">>, <<"my-app">>}, <<>>)

\* One, two or three layers of any order, names, namespaces and priorities, a
\* layer under a hyphen, and one layer too many.
SomeLayers ==
    {Base} \cup
    {LayerOf(n, s, p) : n \in {"baseline", "tenant", "other"},
                        s \in {<<"y">>, <<"z">>, <<"q">>}, p \in 1..2}
LayerLists ==
    {<<>>} \cup {<<k>> : k \in SomeLayers} \cup {<<k, l>> : k, l \in SomeLayers}
    \cup {<<l, LayerOf("organization", <<"y">>, 2), Base>> :
             l \in {LayerOf("tenant", <<"z">>, p) : p \in 0..3}}
    \cup {<<Base, LayerOf("tenant", <<"my-app">>, 2)>>,
          <<Base, LayerOf("organization", <<"y">>, 2), LayerOf("tenant", <<"z">>, 3),
            LayerOf("application", <<"v">>, 4)>>}

OddDirectories ==
    {With(Sound, "layers.json", Malformed), With(Sound, "manifest.json", Malformed),
     With(Sound, "reasons.json", Malformed), With(Sound, "data.json", Malformed),
     With(Sound, "dependencies.json", Malformed), With(Sound, "bad:name", 1),
     With(Sound, "long", 1), With(Sound, "second.rego", 1),
     Without(Sound, {"policy.rego"}), Without(Sound, {"layers.json"}),
     With(Sound, "manifest.json", [Root EXCEPT !.signing = FALSE]), <<>>,
     With(Sound, "manifest.json", Escaped),
     With(Sound, "manifest.json", [Escaped EXCEPT !.form = "long"]),
     With(With(Sound, "notes", 7), "bad:name", 1)}
    \cup {With(Sound, "notes", n) : n \in 1..7}

MCDirectories ==
    {Directory(l, <<LayerOf("baseline", CHOOSE n \in l[1].namespaces : TRUE, 1)>>) :
        l \in Graphs \cup Pairs}
    \cup {Directory(<<Root, Helper>>, l) : l \in LayerLists}
    \cup OddDirectories

\* Archives: as built, rearranged, spoiled, and sealed but changed afterwards.
Entry1(name, content) == [name |-> name, regular |-> TRUE, content |-> content]

Manifests(f) ==
    LET m == Seal(f)["manifest.json"] IN
    {m, f["manifest.json"], [m EXCEPT !.form = "long"], [m EXCEPT !.form = "short"],
     [m EXCEPT !.source = Zero], [m EXCEPT !.build = Zero],
     [m EXCEPT !.build = BuildDigest(With(f, "policy.rego", 2))],
     [m EXCEPT !.pins = <<To("b")>>]}

Sealed ==
    UNION {{With(f, "manifest.json", m) : m \in Manifests(f)} :
              f \in {Sound, With(Sound, "policy.rego", 2), With(Sound, "notes", 1)}}

MCArchives ==
    LET whole == EntriesOf(Seal(Sound)) IN
    {EntriesOf(f) : f \in Sealed}
    \cup {Reverse(EntriesOf(f)) : f \in Sealed}
    \cup {Append(whole, e) :
            e \in {Entry1("policy.rego", 1), Entry1("policy.rego", 2),
                   Entry1("notes", 1), Entry1("notes", 6), Entry1("notes", 7),
                   Entry1("bad:name", 1),
                   [Entry1("notes", 1) EXCEPT !.regular = FALSE]}}
    \cup {SubSeq(whole, 1, n) : n \in 0..4}
    \cup {whole \o <<Entry1("notes", 1), Entry1("long", 1), Entry1("second.rego", 1)>>,
          whole \o <<Entry1("notes", 1), Entry1("long", 1), Entry1("dependencies.json", <<>>)>>}

FormSize == [short |-> 1, canonical |-> 2, long |-> 3]
MCManifestSize(m) ==
    IF m.version = "escaped" /\ m.form # "short" THEN 7 ELSE FormSize[m.form]
MCFileNames == <<"bad:name", "data.json", "dependencies.json", "layers.json", "long",
                 "manifest.json", "notes", "policy.rego", "reasons.json", "second.rego">>
==============================================================================
