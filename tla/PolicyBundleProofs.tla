--------------------------- MODULE PolicyBundleProofs ---------------------------
(***************************************************************************)
(* Proofs about ReadArchive, Inspect and Build, and ValidateDependencies   *)
(* as Inspect calls it, for lists of any number of manifests, pins and     *)
(* namespaces, in archives and directories of any content: what is         *)
(* accepted is valid and what is named is wrong, nothing valid is refused, *)
(* a revision names the files, and what is built can be read.              *)
(***************************************************************************)
EXTENDS PolicyBundle, DataProofs, FiniteSetTheorems, SequenceTheorems, TLAPS

IsList(list) ==
    /\ list \in Seq(ToSet(list))
    /\ \A m \in ToSet(list) : IsManifest(m)

Frames == [id: Ids, next: Nat \ {0}]

Typed ==
    /\ IsList(manifests)
    /\ pc \in {"idle", "register", "search", "done"}
    /\ index \in 1..(Len(manifests) + 1)
    /\ state \in [Ids -> {"new", "open", "visited"}]
    /\ stack \in Seq(Frames)
    /\ verdict \in Codes \cup {"none", "accepted"}
    /\ pc = "done" <=> verdict # "none"

\* The manifests before the index are registered, and nothing else is.
Passed == 1..(index - 1)

Registered ==
    /\ DOMAIN byID = {manifests[j].id : j \in Passed}
    /\ \A j \in Passed : byID[manifests[j].id] = manifests[j]
    /\ \A j \in Passed : manifests[j].compatible
    /\ \A j, k \in Passed : manifests[j].id = manifests[k].id => j = k
    /\ IsFiniteSet(DOMAIN byID) /\ Cardinality(DOMAIN byID) = index - 1

Owned ==
    /\ owners = UNION {manifests[j].namespaces : j \in Passed}
    /\ \A j, k \in Passed :
        \A n \in manifests[j].namespaces, o \in manifests[k].namespaces :
            Overlap(n, o) => j = k /\ n = o

Phases ==
    /\ pc \in {"idle", "register"} => stack = <<>> /\ state = [i \in Ids |-> "new"]
    /\ pc = "search" => index = Len(manifests) + 1

\* A call in progress has its pins before the next one met and finished, but for
\* the pin whose call it waits for.
PinsOf(i) == byID[i].pins

FrameGood(k) ==
    LET f == stack[k] IN
    /\ f.id \in DOMAIN byID /\ state[f.id] = "open"
    /\ f.next <= Len(PinsOf(f.id)) + 1
    /\ \A q \in 1..(f.next - 1) :
        /\ Met(PinsOf(f.id)[q])
        /\ \/ state[PinsOf(f.id)[q].id] = "visited"
           \/ k < Len(stack) /\ q = f.next - 1
    /\ k < Len(stack) =>
        f.next > 1 /\ stack[k + 1].id = PinsOf(f.id)[f.next - 1].id

Stacked ==
    /\ \A k \in 1..Len(stack) : FrameGood(k)
    /\ \A j, k \in 1..Len(stack) : stack[j].id = stack[k].id => j = k
    /\ \A i \in Ids : state[i] = "open" => \E k \in 1..Len(stack) : stack[k].id = i
    /\ \A i \in Ids : state[i] # "new" => i \in DOMAIN byID

\* What was visited is closed under its pins, and in the order of finishing
\* every bundle comes after those it is pinned to.
Done == {i \in Ids : state[i] = "visited"}

Closed ==
    \A i \in Done : \A q \in 1..Len(PinsOf(i)) :
        Met(PinsOf(i)[q]) /\ PinsOf(i)[q].id \in Done

Ranked ==
    \E rank \in [Ids -> Nat] : \A i \in Done :
        /\ rank[i] < Cardinality(Done)
        /\ \A q \in 1..Len(PinsOf(i)) : rank[PinsOf(i)[q].id] < rank[i]

\* Whatever orders the pins descends along the stack: a pin to a call in
\* progress is a cycle.
Orders(rank) ==
    \A m \in Given : \A p \in ToSet(m.pins) : p.id \in Ids => rank[p.id] < rank[m.id]

Descends ==
    \A rank \in [Ids -> Nat] : Orders(rank) =>
        \A j, k \in 1..Len(stack) : j < k => rank[stack[k].id] < rank[stack[j].id]

Judged ==
    /\ CodeNamesCause
    /\ verdict = "accepted" => Compatible /\ Distinct /\ Apart /\ PinsMet /\ Acyclic

Searching == Stacked /\ Closed /\ Ranked /\ Descends
Inv == Typed /\ Registered /\ Owned /\ Phases /\ Searching /\ Judged

------------------------------------------------------------------------------
LEMMA Elements ==
    ASSUME NEW list, IsList(list)
    PROVE  /\ Len(list) \in Nat /\ DOMAIN list = 1..Len(list)
           /\ \A j \in 1..Len(list) : IsManifest(list[j]) /\ list[j] \in ToSet(list)
BY DEF IsList, ToSet

LEMMA PinElements ==
    ASSUME NEW m, IsManifest(m)
    PROVE  /\ Len(m.pins) \in Nat /\ DOMAIN m.pins = 1..Len(m.pins)
           /\ \A q \in 1..Len(m.pins) : m.pins[q] \in ToSet(m.pins)
           /\ \A p \in ToSet(m.pins) : \E q \in 1..Len(m.pins) : p = m.pins[q]
BY DEF IsManifest, ToSet

LEMMA Prefix ==
    ASSUME NEW S, NEW s \in Seq(S), NEW m \in 0..Len(s)
    PROVE  /\ SubSeq(s, 1, m) \in Seq(S) /\ Len(SubSeq(s, 1, m)) = m
           /\ \A k \in 1..m : SubSeq(s, 1, m)[k] = s[k]
<1>1. SubSeq(s, 1, m) \in Seq(S)
  OBVIOUS
<1>2. Len(SubSeq(s, 1, m)) = m
  OBVIOUS
<1>3. \A k \in 1..m : SubSeq(s, 1, m)[k] = s[k]
  OBVIOUS
<1> QED BY <1>1, <1>2, <1>3, Zenon

LEMMA LastAndFront ==
    ASSUME NEW S, NEW s \in Seq(S)
    PROVE  /\ Len(s) \in Nat /\ \A k \in 1..Len(s) : s[k] \in S
           /\ s # <<>> =>
                /\ Len(s) \in Nat \ {0} /\ Last(s) = s[Len(s)] /\ Last(s) \in S
                /\ Front(s) \in Seq(S) /\ Len(Front(s)) = Len(s) - 1
                /\ \A k \in 1..(Len(s) - 1) : Front(s)[k] = s[k]
<1>1. Len(s) \in Nat /\ \A k \in 1..Len(s) : s[k] \in S
  OBVIOUS
<1>2. ASSUME s # <<>>
      PROVE  Len(s) \in Nat \ {0} /\ Last(s) = s[Len(s)] /\ Last(s) \in S
  <2>1. Len(s) \in Nat \ {0}
    BY <1>2
  <2>2. Len(s) \in 1..Len(s)
    BY <2>1
  <2> QED BY <1>1, <2>1, <2>2 DEF Last
<1>3. ASSUME s # <<>>
      PROVE  /\ Front(s) \in Seq(S) /\ Len(Front(s)) = Len(s) - 1
             /\ \A k \in 1..(Len(s) - 1) : Front(s)[k] = s[k]
  <2>1. Front(s) = SubSeq(s, 1, Len(s) - 1)
    BY DEF Front
  <2>2. Len(s) - 1 \in 0..Len(s)
    BY <1>2, <1>3
  <2>3. SubSeq(s, 1, Len(s) - 1) \in Seq(S)
    BY <2>2, Prefix
  <2>4. Len(SubSeq(s, 1, Len(s) - 1)) = Len(s) - 1
    BY <2>2, Prefix
  <2>5. \A k \in 1..(Len(s) - 1) : SubSeq(s, 1, Len(s) - 1)[k] = s[k]
    BY <2>2, Prefix
  <2> HIDE DEF Front
  <2> QED BY <2>1, <2>3, <2>4, <2>5, Zenon
<1> QED BY <1>1, <1>2, <1>3

LEMMA Pushed ==
    ASSUME NEW S, NEW s \in Seq(S), NEW x \in S
    PROVE  /\ Append(s, x) \in Seq(S) /\ Len(Append(s, x)) = Len(s) + 1
           /\ \A k \in 1..Len(s) : Append(s, x)[k] = s[k]
           /\ Append(s, x)[Len(s) + 1] = x
OBVIOUS

\* What byID holds are manifests of the list, under their own names.
LEMMA ByIDHolds ==
    ASSUME Typed, Registered
    PROVE  \A i \in DOMAIN byID :
              /\ i \in Ids /\ byID[i] \in Given /\ byID[i].id = i /\ IsManifest(byID[i])
<1>1. SUFFICES ASSUME NEW j \in Passed
      PROVE  /\ manifests[j].id \in Ids /\ manifests[j] \in Given
             /\ IsManifest(manifests[j])
  BY DEF Registered
<1>2. index \in 1..(Len(manifests) + 1) /\ Len(manifests) \in Nat
  BY Elements DEF Typed
<1>3. j \in 1..Len(manifests)
  BY <1>1, <1>2 DEF Passed
<1> QED BY <1>3, Elements DEF Typed, IsManifest, Given

\* A fresh call, and Init.
LEMMA Fresh ==
    ASSUME index' = 1, byID' = <<>>, owners' = {}, stack' = <<>>, verdict' = "none",
           state' = [i \in Ids |-> "new"], pc' \in {"idle", "register"},
           IsList(manifests')
    PROVE  Inv'
<1>1. Len(manifests') \in Nat
  BY Elements
<1>2. Typed'
  BY <1>1 DEF Typed
<1>3. Passed' = {} /\ DOMAIN byID' = {} /\ Done' = {}
  BY DEF Passed, Done
<1>4. Registered' /\ Owned'
  BY <1>3, FS_EmptySet DEF Registered, Owned
<1>5. Phases'
  BY DEF Phases
<1>6. Len(stack') = 0
  OBVIOUS
<1>7. Stacked' /\ Descends'
  BY <1>6 DEF Stacked, Descends
<1>8. Closed'
  BY <1>3 DEF Closed
<1>9. Ranked'
  <2>1. [i \in Ids |-> 0] \in [Ids -> Nat]
    OBVIOUS
  <2> QED BY <1>3, <2>1 DEF Ranked
<1>10. Judged'
  BY DEF Judged, CodeNamesCause
<1> QED BY <1>2, <1>4, <1>5, <1>7, <1>8, <1>9, <1>10 DEF Inv, Searching

------------------------------------------------------------------------------
(* The search leaves the registration alone, and a step of it moves only   *)
(* state and stack.                                                        *)

LEMMA SearchKeeps ==
    ASSUME Typed, Registered, Owned, Phases, Judged, pc = "search",
           UNCHANGED <<pc, manifests, index, byID, owners, verdict>>,
           state' \in [Ids -> {"new", "open", "visited"}],
           stack' \in Seq(Frames)
    PROVE  Typed' /\ Registered' /\ Owned' /\ Phases' /\ Judged'
<1>1. Given' = Given /\ Passed' = Passed
  BY DEF Given, Passed
<1>2. Typed'
  BY DEF Typed
<1>3. Registered' /\ Owned'
  BY <1>1 DEF Registered, Owned
<1>4. Phases'
  BY DEF Phases
<1>5. Judged'
  BY DEF Typed, Judged, CodeNamesCause
<1> QED BY <1>2, <1>3, <1>4, <1>5

LEMMA RegisterStep ==
    ASSUME Inv, Register
    PROVE  Inv'
<1> USE DEF Inv
<1>1. /\ index \in 1..Len(manifests) /\ Len(manifests) \in Nat
      /\ Passed' = Passed \cup {index} /\ index \notin Passed
      /\ Current = manifests[index] /\ IsManifest(Current) /\ Current.id \notin DOMAIN byID
      /\ UNCHANGED <<pc, manifests, state, stack, verdict>> /\ pc = "register"
  BY Elements DEF Register, Registering, Typed, Passed, Current
<1>2. Typed'
  BY <1>1 DEF Typed, Register
<1>3. Registered'
  <2>1. DOMAIN byID' = DOMAIN byID \cup {Current.id}
    BY DEF Register
  <2>2. /\ DOMAIN byID' = {manifests'[j].id : j \in Passed'}
        /\ \A j \in Passed' : byID'[manifests'[j].id] = manifests'[j]
    BY <1>1, <2>1 DEF Register, Registered
  <2>3. \A j \in Passed' : manifests'[j].compatible
    BY <1>1 DEF Register, Registered
  <2>4. \A j, k \in Passed' : manifests'[j].id = manifests'[k].id => j = k
    BY <1>1 DEF Registered
  <2>5. IsFiniteSet(DOMAIN byID') /\ Cardinality(DOMAIN byID') = index' - 1
    <3>1. /\ IsFiniteSet(DOMAIN byID \cup {Current.id})
          /\ Cardinality(DOMAIN byID \cup {Current.id}) = (index - 1) + 1
      BY <1>1, FS_AddElement DEF Registered
    <3>2. index' = index + 1
      BY DEF Register
    <3> QED BY <1>1, <2>1, <3>1, <3>2
  <2> QED BY <2>2, <2>3, <2>4, <2>5 DEF Registered
<1>4. Owned'
  <2>1. owners' = UNION {manifests'[j].namespaces : j \in Passed'}
    BY <1>1 DEF Register, Owned
  <2>2. \A n \in Current.namespaces :
          /\ \A o \in owners : ~Overlap(n, o) /\ ~Overlap(o, n)
          /\ \A o \in Current.namespaces : Overlap(n, o) => n = o
    BY <1>1 DEF Register, Collides, Overlap
  <2>3. \A j \in Passed : manifests[j].namespaces \subseteq owners
    BY DEF Owned
  <2>4. ASSUME NEW j \in Passed', NEW k \in Passed',
               NEW n \in manifests[j].namespaces, NEW o \in manifests[k].namespaces,
               Overlap(n, o)
        PROVE  j = k /\ n = o
    <3>1. CASE j \in Passed /\ k \in Passed
      BY <2>4, <3>1 DEF Owned
    <3>2. CASE j = index \/ k = index
      BY <1>1, <2>2, <2>3, <2>4, <3>2
    <3> QED BY <1>1, <3>1, <3>2
  <2> QED BY <1>1, <2>1, <2>4 DEF Owned
<1>5. Phases'
  BY <1>1 DEF Phases
<1>6. Len(stack) = 0 /\ Done = {} /\ Given' = Given
  BY <1>1 DEF Phases, Done, Given
<1>7. Searching'
  <2>1. Stacked'
    BY <1>1, <1>6 DEF Phases, Stacked
  <2>2. Closed' /\ Descends'
    BY <1>1, <1>6 DEF Closed, Descends, Done
  <2>3. Ranked'
    BY <1>1, <1>6 DEF Searching, Ranked, Done
  <2> QED BY <2>1, <2>2, <2>3 DEF Searching
<1>8. Judged'
  BY <1>1 DEF Typed, Judged, CodeNamesCause
<1> QED BY <1>2, <1>3, <1>4, <1>5, <1>7, <1>8

\* Only pc changes when the search starts, pc and the verdict when it returns.
LEMMA SameSearch ==
    ASSUME Searching, Registered, Owned,
           UNCHANGED <<manifests, index, byID, owners, state, stack>>
    PROVE  Searching' /\ Registered' /\ Owned'
<1>1. Given' = Given /\ Passed' = Passed /\ Done' = Done
  BY DEF Given, Passed, Done
<1>2. Registered' /\ Owned'
  BY <1>1 DEF Registered, Owned
<1>3. Stacked'
  <2>1. ASSUME NEW k \in 1..Len(stack), FrameGood(k)
        PROVE  FrameGood(k)'
    BY <2>1 DEF FrameGood, PinsOf, Met
  <2> QED BY <2>1 DEF Searching, Stacked
<1>4. Closed' /\ Ranked'
  BY <1>1 DEF Searching, Closed, Ranked, PinsOf, Met
<1>5. Descends'
  BY <1>1 DEF Searching, Descends, Orders
<1> QED BY <1>2, <1>3, <1>4, <1>5 DEF Searching

LEMMA StartSearchStep ==
    ASSUME Inv, StartSearch
    PROVE  Inv'
<1>1. Searching' /\ Registered' /\ Owned'
  BY SameSearch DEF Inv, StartSearch
<1>2. Len(manifests) \in Nat /\ Given' = Given
  BY Elements DEF Inv, Typed, StartSearch, Given
<1>3. Typed' /\ Phases'
  BY <1>2 DEF Inv, Typed, Phases, StartSearch
<1>4. Judged'
  BY DEF Inv, Typed, Judged, CodeNamesCause, StartSearch
<1> QED BY <1>1, <1>3, <1>4 DEF Inv

------------------------------------------------------------------------------
(* The search: the frame on top of the stack.                              *)

LEMMA Top ==
    ASSUME Inv, stack # <<>>
    PROVE  /\ Len(stack) \in Nat \ {0} /\ Frame = stack[Len(stack)]
           /\ Frame \in [id: Ids, next: Nat \ {0}]
           /\ Frame.id \in DOMAIN byID /\ byID[Frame.id] \in Given
           /\ byID[Frame.id].id = Frame.id
           /\ Pins = PinsOf(Frame.id) /\ Pins = byID[Frame.id].pins
           /\ Len(Pins) \in Nat /\ \A q \in 1..Len(Pins) : Pins[q] \in ToSet(Pins)
           /\ state[Frame.id] = "open" /\ Frame.next <= Len(Pins) + 1
           /\ \A q \in 1..(Frame.next - 1) : Met(Pins[q]) /\ Pins[q].id \in Done
<1>1. /\ Len(stack) \in Nat \ {0} /\ Frame = stack[Len(stack)]
      /\ Frame \in [id: Ids, next: Nat \ {0}]
  <2>1. stack \in Seq(Frames)
    BY DEF Inv, Typed
  <2>2. /\ Len(stack) \in Nat \ {0} /\ Last(stack) = stack[Len(stack)]
        /\ Last(stack) \in Frames
    BY ONLY <2>1, stack # <<>>, LastAndFront
  <2> QED BY <2>2 DEF Frame, Frames
<1>2. FrameGood(Len(stack))
  BY <1>1 DEF Inv, Searching, Stacked
<1>3. /\ Frame.id \in DOMAIN byID /\ state[Frame.id] = "open"
      /\ Pins = PinsOf(Frame.id) /\ Frame.next <= Len(Pins) + 1
  BY <1>1, <1>2 DEF FrameGood, PinsOf, Pins
<1>4. \A q \in 1..(Frame.next - 1) : Met(Pins[q]) /\ state[Pins[q].id] = "visited"
  BY <1>1, <1>2, <1>3 DEF FrameGood
<1>5. \A q \in 1..(Frame.next - 1) : Pins[q].id \in Done
  <2>1. \A i \in DOMAIN byID : i \in Ids
    BY ByIDHolds DEF Inv
  <2> QED BY <1>4, <2>1 DEF Met, Done
<1>6. /\ byID[Frame.id] \in Given /\ byID[Frame.id].id = Frame.id
      /\ IsManifest(byID[Frame.id])
  BY <1>3, ByIDHolds DEF Inv
<1> QED BY <1>1, <1>3, <1>4, <1>5, <1>6, PinElements DEF Pins

LEMMA NextPin ==
    ASSUME Inv, HasPin
    PROVE  /\ Frame.next \in 1..Len(Pins) /\ Pin = Pins[Frame.next]
           /\ Pin \in ToSet(Pins)
           /\ Met(Pin) => Pin.id \in DOMAIN byID /\ Pin.id \in Ids
<1>1. Frame.next \in 1..Len(Pins) /\ Pin = Pins[Frame.next]
  BY Top DEF HasPin, Pin
<1>2. Met(Pin) => Pin.id \in DOMAIN byID /\ Pin.id \in Ids
  BY ByIDHolds DEF Inv, Met
<1> QED BY <1>1, <1>2, Top DEF HasPin

LEMMA AdvancedTop ==
    ASSUME Inv, stack # <<>>
    PROVE  /\ Advanced \in Seq(Frames)
           /\ Len(Advanced) = Len(stack)
           /\ \A k \in 1..(Len(stack) - 1) : Advanced[k] = stack[k]
           /\ Advanced[Len(stack)] = [Frame EXCEPT !.next = @ + 1]
<1>1. /\ Len(stack) \in Nat \ {0} /\ Frame \in [id: Ids, next: Nat \ {0}]
      /\ stack \in Seq(Frames)
  BY Top DEF Inv, Typed
<1>2. /\ Front(stack) \in Seq(Frames)
      /\ Len(Front(stack)) = Len(stack) - 1
      /\ \A k \in 1..(Len(stack) - 1) : Front(stack)[k] = stack[k]
  BY ONLY <1>1, stack # <<>>, LastAndFront
<1>3. [Frame EXCEPT !.next = @ + 1] \in Frames
  BY <1>1 DEF Frames
<1>4. Advanced = Append(Front(stack), [Frame EXCEPT !.next = @ + 1])
  BY DEF Advanced
<1> HIDE DEF Front
<1>5. /\ Advanced \in Seq(Frames) /\ Len(Advanced) = Len(Front(stack)) + 1
      /\ \A k \in 1..Len(Front(stack)) : Advanced[k] = Front(stack)[k]
      /\ Advanced[Len(Front(stack)) + 1] = [Frame EXCEPT !.next = @ + 1]
  BY ONLY <1>2, <1>3, <1>4, Pushed
<1> QED BY <1>1, <1>2, <1>5

\* Once all are registered, byID is the list.
LEMMA AllRegistered ==
    ASSUME Inv, pc = "search"
    PROVE  /\ DOMAIN manifests = Passed
           /\ \A m \in Given : m.id \in DOMAIN byID /\ byID[m.id] = m
<1>1. DOMAIN manifests = Passed
  BY Elements DEF Inv, Typed, Phases, Passed
<1> QED BY <1>1 DEF Inv, Registered, Given, ToSet

\* Along a pin, whatever orders the pins descends.
LEMMA PinDescends ==
    ASSUME Inv, HasPin, NEW rank \in [Ids -> Nat], Orders(rank), Pin.id \in Ids
    PROVE  /\ rank[Pin.id] < rank[Frame.id]
           /\ \A k \in 1..Len(stack) : rank[Frame.id] <= rank[stack[k].id]
           /\ \A k \in 1..Len(stack) : stack[k].id \in Ids
<1>1. rank[Pin.id] < rank[Frame.id]
  <2>1. Pin \in ToSet(byID[Frame.id].pins) /\ byID[Frame.id] \in Given
    BY Top, NextPin DEF HasPin
  <2>2. byID[Frame.id].id = Frame.id
    BY Top DEF HasPin
  <2> QED BY <2>1, <2>2 DEF Orders
<1>2. \A k \in 1..Len(stack) : stack[k].id \in Ids
  <2>1. stack \in Seq(Frames)
    BY DEF Inv, Typed
  <2>2. \A k \in 1..Len(stack) : stack[k] \in Frames
    BY ONLY <2>1, LastAndFront
  <2> QED BY <2>2 DEF Frames
<1>3. \A k \in 1..Len(stack) : rank[Frame.id] <= rank[stack[k].id]
  <2>1. Len(stack) \in Nat \ {0} /\ Frame = stack[Len(stack)]
    BY Top DEF HasPin
  <2>2. \A j, k \in 1..Len(stack) : j < k => rank[stack[k].id] < rank[stack[j].id]
    BY DEF Inv, Searching, Descends
  <2>3. SUFFICES ASSUME NEW k \in 1..Len(stack)
        PROVE  rank[Frame.id] <= rank[stack[k].id]
    OBVIOUS
  <2>4. CASE k < Len(stack)
    <3>1. rank[stack[Len(stack)].id] < rank[stack[k].id]
      BY <2>1, <2>2, <2>4
    <3>2. rank[stack[k].id] \in Nat /\ rank[Frame.id] \in Nat
      BY <1>2, <2>1
    <3> QED BY <2>1, <3>1, <3>2
  <2>5. CASE k = Len(stack)
    BY <1>2, <2>1, <2>5
  <2> QED BY <2>1, <2>4, <2>5
<1> QED BY <1>1, <1>2, <1>3

------------------------------------------------------------------------------
\* A call in progress that is not the last one is good as long as it stays, with
\* the call above it, and nothing that was visited is forgotten.
LEMMA FrameKept ==
    ASSUME NEW k \in Nat, FrameGood(k), byID' = byID,
           \A i \in DOMAIN byID : i \in Ids,
           k < Len(stack), k < Len(stack'),
           stack'[k] = stack[k], stack'[k + 1].id = stack[k + 1].id,
           state'[stack[k].id] = state[stack[k].id],
           \A i \in Ids : state[i] = "visited" => state'[i] = "visited"
    PROVE  FrameGood(k)'
<1> DEFINE f == stack[k]
           pins == byID[f.id].pins
<1>1. /\ f.id \in DOMAIN byID /\ state'[f.id] = "open"
      /\ f.next <= Len(pins) + 1 /\ f.next > 1
      /\ stack'[k + 1].id = pins[f.next - 1].id
  BY DEF FrameGood, PinsOf
<1>2. ASSUME NEW q \in 1..(f.next - 1)
      PROVE  Met(pins[q]) /\ (state'[pins[q].id] = "visited" \/ q = f.next - 1)
  BY DEF FrameGood, PinsOf, Met
<1>3. \A q \in 1..(f.next - 1) :
         /\ pins[q].id \in DOMAIN byID' /\ byID'[pins[q].id].version = pins[q].version
         /\ state'[pins[q].id] = "visited" \/ q = f.next - 1
  BY <1>2 DEF Met
<1>4. stack'[k] = f /\ byID'[f.id].pins = pins
  OBVIOUS
<1> HIDE DEF pins, f
<1> QED BY <1>1, <1>3, <1>4 DEF FrameGood, PinsOf, Met

LEMMA PinVisitedStep ==
    ASSUME Inv, PinVisited
    PROVE  Inv'
<1>1. /\ stack # <<>> /\ HasPin /\ Met(Pin) /\ Pin.id \in Ids /\ state[Pin.id] = "visited"
      /\ stack' = Advanced /\ pc = "search"
      /\ UNCHANGED <<pc, manifests, index, byID, owners, state, verdict>>
  BY NextPin DEF PinVisited, HasPin
<1> DEFINE n == Len(stack)
<1>2. /\ n \in Nat \ {0} /\ Len(stack') = n
      /\ \A k \in 1..n : stack'[k].id = stack[k].id
      /\ \A k \in 1..(n - 1) : stack'[k] = stack[k]
      /\ stack'[n].next = Frame.next + 1
      /\ stack' \in Seq(Frames)
  BY <1>1, Top, AdvancedTop
<1>3. Typed' /\ Registered' /\ Owned' /\ Phases' /\ Judged'
  BY <1>1, <1>2, SearchKeeps DEF Inv, Typed
<1>4. Done' = Done /\ Given' = Given
  BY <1>1 DEF Done, Given
<1>5. ASSUME NEW k \in 1..n
      PROVE  FrameGood(k)'
  <2>1. FrameGood(k)
    BY DEF Inv, Searching, Stacked
  <2>2. CASE k < n
    <3>1. /\ stack'[k] = stack[k] /\ stack'[k + 1].id = stack[k + 1].id
          /\ k \in Nat /\ k < Len(stack) /\ k < Len(stack')
      BY <1>2, <2>2
    <3>2. \A i \in DOMAIN byID : i \in Ids
      BY ByIDHolds DEF Inv
    <3>3. state' = state /\ byID' = byID
      BY <1>1
    <3> QED BY ONLY <2>1, <3>1, <3>2, <3>3, FrameKept
  <2>3. CASE k = n
    <3>1. \A q \in 1..Frame.next : Met(Pins[q]) /\ state[Pins[q].id] = "visited"
      BY <1>1, Top, NextPin DEF Done
    <3>2. Pins = byID[Frame.id].pins /\ stack'[k].id = Frame.id /\ Frame.next \in 1..Len(Pins)
      BY <1>1, <1>2, <2>3, Top, NextPin
    <3>3. /\ stack'[k].next = Frame.next + 1 /\ stack'[k].next - 1 = Frame.next
          /\ Frame.next + 1 <= Len(Pins) + 1 /\ ~(k < Len(stack'))
      BY <1>1, <1>2, <2>3, <3>2, Top
    <3>4. /\ stack'[k].id \in DOMAIN byID' /\ state'[stack'[k].id] = "open"
          /\ byID'[stack'[k].id].pins = Pins
      BY <1>1, <3>2, Top
    <3>5. \A q \in 1..(stack'[k].next - 1) :
             /\ Pins[q].id \in DOMAIN byID'
             /\ byID'[Pins[q].id].version = Pins[q].version
             /\ state'[Pins[q].id] = "visited"
      BY <1>1, <3>1, <3>3 DEF Met
    <3> QED BY ONLY <3>3, <3>4, <3>5 DEF FrameGood, PinsOf, Met
  <2> QED BY <1>2, <2>2, <2>3
<1>6. Stacked'
  BY <1>1, <1>2, <1>5 DEF Inv, Searching, Stacked
<1>7. Closed' /\ Ranked'
  BY <1>1, <1>4 DEF Inv, Searching, Closed, Ranked, PinsOf, Met
<1>8. Descends'
  <2>1. SUFFICES ASSUME NEW rank \in [Ids -> Nat], Orders(rank),
                        NEW j \in 1..n, NEW k \in 1..n, j < k
        PROVE  rank[stack'[k].id] < rank[stack'[j].id]
    BY <1>2, <1>4 DEF Descends, Orders
  <2>2. rank[stack[k].id] < rank[stack[j].id]
    BY <2>1 DEF Inv, Searching, Descends
  <2> QED BY <1>2, <2>2
<1> QED BY <1>3, <1>6, <1>7, <1>8 DEF Inv, Searching

\* visit is called: from the outer loop, or for the next pin.
LEMMA CallStep ==
    ASSUME Inv, NEW frames \in Seq(Frames), NEW id \in Ids,
           pc = "search", id \in DOMAIN byID, state[id] = "new", Call(id, frames),
           UNCHANGED <<pc, manifests, index, byID, owners, verdict>>,
           Len(frames) = Len(stack),
           \A k \in 1..Len(stack) : frames[k].id = stack[k].id,
           \A k \in 1..Len(stack) : k < Len(stack) => frames[k] = stack[k],
           \A k \in 1..Len(stack) : k = Len(stack) =>
                /\ HasPin /\ Met(Pin) /\ id = Pin.id
                /\ frames[k].next = Frame.next + 1
    PROVE  Inv'
<1> DEFINE n == Len(stack)
<1>1. /\ n \in Nat /\ Len(stack') = n + 1
      /\ stack' \in Seq(Frames)
      /\ \A k \in 1..n : stack'[k] = frames[k]
      /\ stack'[n + 1] = [id |-> id, next |-> 1]
  <2>1. [id |-> id, next |-> 1] \in Frames
    BY DEF Frames
  <2>2. stack' = Append(frames, [id |-> id, next |-> 1])
    BY DEF Call
  <2>3. n \in Nat
    BY DEF Inv, Typed
  <2> QED BY ONLY <2>1, <2>2, <2>3, Pushed, frames \in Seq(Frames), Len(frames) = Len(stack)
<1>2. /\ state' \in [Ids -> {"new", "open", "visited"}]
      /\ state'[id] = "open" /\ \A i \in Ids \ {id} : state'[i] = state[i]
      /\ state \in [Ids -> {"new", "open", "visited"}]
  BY DEF Call, Inv, Typed
<1>3. Typed' /\ Registered' /\ Owned' /\ Phases' /\ Judged'
  BY <1>1, <1>2, SearchKeeps DEF Inv
<1>4. Done' = Done /\ Given' = Given
  BY <1>2 DEF Done, Given
<1>5. \A i \in DOMAIN byID : i \in Ids
  BY ByIDHolds DEF Inv
<1>6. \A k \in 1..n : stack[k].id \in Ids /\ stack[k].id # id
  BY <1>5 DEF Inv, Searching, Stacked, FrameGood
<1>7. ASSUME NEW k \in 1..(n + 1)
      PROVE  FrameGood(k)'
  <2>1. CASE k < n
    <3>1. /\ FrameGood(k) /\ stack'[k] = stack[k] /\ stack'[k + 1].id = stack[k + 1].id
          /\ k + 1 \in 1..n
      BY <1>1, <2>1 DEF Inv, Searching, Stacked
    <3>2. k \in Nat /\ k < Len(stack) /\ k < Len(stack') /\ byID' = byID
      BY <1>1, <2>1
    <3>3. state'[stack[k].id] = state[stack[k].id]
      BY <1>1, <1>2, <1>6, <2>1
    <3>4. \A i \in Ids : state[i] = "visited" => state'[i] = "visited"
      BY <1>2
    <3> QED BY ONLY <1>5, <3>1, <3>2, <3>3, <3>4, FrameKept
  <2>2. CASE k = n
    <3>1. /\ HasPin /\ Met(Pin) /\ id = Pin.id /\ n \in 1..n
          /\ stack'[k].id = Frame.id /\ stack'[k].next = Frame.next + 1
          /\ stack'[k + 1].id = Pin.id
      BY <1>1, <2>2, Top DEF HasPin
    <3>2. /\ Frame.next \in 1..Len(Pins) /\ Pin = Pins[Frame.next]
          /\ Frame.id \in DOMAIN byID /\ Pins = byID[Frame.id].pins /\ Len(Pins) \in Nat
          /\ state[Frame.id] = "open" /\ Frame.id \in Ids
          /\ \A q \in 1..(Frame.next - 1) : Met(Pins[q]) /\ Pins[q].id \in Done
      BY <1>5, <3>1, NextPin, Top DEF HasPin
    <3>3. state'[Frame.id] = "open"
      BY <1>2, <3>2
    <3>4. \A q \in 1..Frame.next :
             /\ Met(Pins[q])
             /\ state'[Pins[q].id] = "visited" \/ q = Frame.next
      <4>1. \A i \in Done : state'[i] = "visited"
        BY <1>2 DEF Done
      <4>2. \A q \in 1..Frame.next : q = Frame.next \/ q \in 1..(Frame.next - 1)
        BY <3>2
      <4> QED BY <3>1, <3>2, <4>1, <4>2
    <3>5. /\ byID' = byID /\ stack'[k].next - 1 = Frame.next /\ k < Len(stack')
          /\ byID'[stack'[k].id].pins = Pins
      <4>1. stack'[k].next - 1 = Frame.next
        BY ONLY <3>1, <3>2
      <4>2. k < Len(stack')
        BY ONLY <1>1, <2>2
      <4>3. byID' = byID
        OBVIOUS
      <4> QED BY <3>1, <3>2, <4>1, <4>2, <4>3
    <3>6. \A q \in 1..(stack'[k].next - 1) :
             /\ Pins[q].id \in DOMAIN byID'
             /\ byID'[Pins[q].id].version = Pins[q].version
             /\ state'[Pins[q].id] = "visited" \/ q = stack'[k].next - 1
      BY <3>4, <3>5 DEF Met
    <3>7. /\ stack'[k].id \in DOMAIN byID' /\ state'[stack'[k].id] = "open"
          /\ stack'[k].next <= Len(Pins) + 1 /\ stack'[k].next > 1
          /\ stack'[k + 1].id = Pins[stack'[k].next - 1].id
      <4>1. stack'[k].id \in DOMAIN byID' /\ state'[stack'[k].id] = "open"
        BY <3>1, <3>2, <3>3, <3>5
      <4>2. stack'[k].next <= Len(Pins) + 1 /\ stack'[k].next > 1
        BY ONLY <3>1, <3>2
      <4>3. stack'[k + 1].id = Pins[stack'[k].next - 1].id
        BY <3>1, <3>2, <3>5
      <4> QED BY <4>1, <4>2, <4>3
    <3> HIDE DEF n
    <3> QED BY <3>5, <3>6, <3>7 DEF FrameGood, PinsOf, Met
  <2>3. CASE k = n + 1
    <3>1. IsManifest(byID[id])
      BY ByIDHolds DEF Inv
    <3>2. Len(byID[id].pins) \in Nat
      BY <3>1, PinElements
    <3>3. /\ stack'[k].id = id /\ stack'[k].next = 1 /\ ~(k < Len(stack'))
          /\ id \in DOMAIN byID' /\ state'[id] = "open"
          /\ byID'[id].pins = byID[id].pins
      BY <1>1, <1>2, <2>3
    <3>4. 1..(stack'[k].next - 1) = {}
      BY <3>3
    <3> QED BY <3>2, <3>3, <3>4 DEF FrameGood, PinsOf
  <2> QED BY <1>1, <2>1, <2>2, <2>3
<1>8. Stacked'
  <2>1. \A j, k \in 1..(n + 1) : stack'[j].id = stack'[k].id => j = k
    BY <1>1, <1>6 DEF Inv, Searching, Stacked
  <2>2. ASSUME NEW i \in Ids, state'[i] = "open"
        PROVE  \E k \in 1..(n + 1) : stack'[k].id = i
    <3>1. CASE i = id
      BY <1>1, <3>1
    <3>2. CASE i # id
      <4>1. PICK k \in 1..n : stack[k].id = i
        BY <1>2, <2>2, <3>2 DEF Inv, Searching, Stacked
      <4> QED BY <1>1, <4>1
    <3> QED BY <3>1, <3>2
  <2>3. \A i \in Ids : state'[i] # "new" => i \in DOMAIN byID
    BY <1>2 DEF Inv, Searching, Stacked
  <2> QED BY <1>1, <1>7, <2>1, <2>2, <2>3 DEF Stacked
<1>9. Closed' /\ Ranked'
  BY <1>4 DEF Inv, Searching, Closed, Ranked, PinsOf, Met
<1>10. Descends'
  <2>1. SUFFICES ASSUME NEW rank \in [Ids -> Nat], Orders(rank),
                        NEW j \in 1..(n + 1), NEW k \in 1..(n + 1), j < k
        PROVE  rank[stack'[k].id] < rank[stack'[j].id]
    BY <1>1, <1>4 DEF Descends, Orders
  <2>2. CASE k \in 1..n
    <3>1. j \in 1..n /\ stack'[j].id = stack[j].id /\ stack'[k].id = stack[k].id
      BY <1>1, <2>1, <2>2
    <3>2. \A a, b \in 1..n : a < b => rank[stack[b].id] < rank[stack[a].id]
      BY <2>1 DEF Inv, Searching, Descends
    <3> QED BY <2>1, <2>2, <3>1, <3>2
  <2>3. CASE k = n + 1
    <3>1. j \in 1..n /\ n \in 1..n
      BY <1>1, <2>1, <2>3
    <3>2. HasPin /\ id = Pin.id
      BY <3>1
    <3>3. /\ rank[id] < rank[Frame.id] /\ rank[Frame.id] <= rank[stack[j].id]
          /\ stack[j].id \in Ids
      BY <2>1, <3>1, <3>2, PinDescends
    <3>4. Frame.id \in Ids
      BY <3>2, Top DEF HasPin
    <3>5. rank[id] < rank[stack[j].id]
      BY <3>3, <3>4
    <3> QED BY <1>1, <2>3, <3>1, <3>5
  <2> QED BY <1>1, <2>2, <2>3
<1> QED BY <1>3, <1>8, <1>9, <1>10 DEF Inv, Searching

LEMMA VisitRootStep ==
    ASSUME Inv, NEW id \in Ids, VisitRoot(id)
    PROVE  Inv'
<1>1. <<>> \in Seq(Frames) /\ Len(stack) = 0 /\ Len(<<>>) = 0
  BY DEF VisitRoot
<1>2. /\ pc = "search" /\ id \in DOMAIN byID /\ state[id] = "new" /\ Call(id, <<>>)
      /\ UNCHANGED <<pc, manifests, index, byID, owners, verdict>>
  BY DEF VisitRoot
<1>3. 1..Len(stack) = {}
  BY <1>1
<1> QED BY ONLY Inv, id \in Ids, <1>1, <1>2, <1>3, CallStep

LEMMA PinNewStep ==
    ASSUME Inv, PinNew
    PROVE  Inv'
<1>1. /\ HasPin /\ stack # <<>> /\ Met(Pin) /\ Pin.id \in DOMAIN byID /\ Pin.id \in Ids
  BY NextPin DEF PinNew, HasPin
<1>2. Frame \in [id: Ids, next: Nat \ {0}] /\ Len(stack) \in Nat \ {0}
      /\ Frame = stack[Len(stack)]
  BY <1>1, Top
<1>3. /\ Advanced \in Seq(Frames) /\ Len(Advanced) = Len(stack)
      /\ \A k \in 1..(Len(stack) - 1) : Advanced[k] = stack[k]
      /\ Advanced[Len(stack)].id = Frame.id
      /\ Advanced[Len(stack)].next = Frame.next + 1
  BY <1>1, <1>2, AdvancedTop
<1>4. \A k \in 1..Len(stack) : Advanced[k].id = stack[k].id
  BY <1>2, <1>3
<1>5. \A k \in 1..Len(stack) : k < Len(stack) => Advanced[k] = stack[k]
  BY <1>2, <1>3
<1> QED BY <1>1, <1>3, <1>4, <1>5, CallStep DEF PinNew, HasPin

\* visit returns: the bundle is the last of those finished.
LEMMA VisitedStep ==
    ASSUME Inv, Visited
    PROVE  Inv'
<1> DEFINE n == Len(stack)
           top == Frame.id
<1>1. /\ pc = "search" /\ stack # <<>> /\ stack' = Front(stack)
      /\ UNCHANGED <<pc, manifests, index, byID, owners, verdict>>
      /\ stack \in Seq(Frames) /\ state \in [Ids -> {"new", "open", "visited"}]
  BY DEF Visited, Inv, Typed
<1>2. /\ n \in Nat \ {0} /\ stack' \in Seq(Frames) /\ Len(stack') = n - 1
      /\ \A k \in 1..(n - 1) : stack'[k] = stack[k]
  BY ONLY <1>1, LastAndFront
<1>3. /\ Frame = stack[n] /\ top \in Ids /\ top \in DOMAIN byID /\ state[top] = "open"
      /\ Pins = byID[top].pins /\ Len(Pins) \in Nat
      /\ \A q \in 1..(Frame.next - 1) : Met(Pins[q]) /\ Pins[q].id \in Done
      /\ Frame.next \in Nat /\ Frame.next <= Len(Pins) + 1
  BY <1>1, Top
<1>4. Frame.next = Len(Pins) + 1
  BY <1>1, <1>3 DEF Visited, HasPin
<1>5. \A q \in 1..Len(Pins) : Met(Pins[q]) /\ Pins[q].id \in Done
  BY <1>3, <1>4
<1>6. /\ state' \in [Ids -> {"new", "open", "visited"}]
      /\ state'[top] = "visited" /\ \A i \in Ids \ {top} : state'[i] = state[i]
  BY <1>1, <1>3 DEF Visited
<1>7. Done' = Done \cup {top} /\ top \notin Done
  BY <1>3, <1>6 DEF Done
<1>8. Given' = Given
  BY <1>1 DEF Given
<1>9. Typed' /\ Registered' /\ Owned' /\ Phases' /\ Judged'
  BY <1>1, <1>2, <1>6, SearchKeeps DEF Inv
<1>10. \A i \in DOMAIN byID : i \in Ids
  BY ByIDHolds DEF Inv
<1>11. \A k \in 1..(n - 1) : stack[k].id \in Ids /\ stack[k].id # top
  <2>1. \A k \in 1..n : stack[k].id \in Ids
    BY <1>10 DEF Inv, Searching, Stacked, FrameGood
  <2>2. \A j, k \in 1..n : stack[j].id = stack[k].id => j = k
    BY DEF Inv, Searching, Stacked
  <2> HIDE DEF n
  <2> QED BY ONLY <1>2, <1>3, <2>1, <2>2
<1>12. ASSUME NEW k \in 1..(n - 1)
       PROVE  FrameGood(k)'
  <2>1. /\ FrameGood(k) /\ k \in Nat /\ k < Len(stack) /\ stack'[k] = stack[k]
        /\ byID' = byID
    BY <1>1, <1>2 DEF Inv, Searching, Stacked
  <2>2. state'[stack[k].id] = state[stack[k].id]
    BY <1>6, <1>11
  <2>3. \A i \in Ids : state[i] = "visited" => state'[i] = "visited"
    BY <1>6
  <2>4. CASE k < n - 1
    <3>1. k < Len(stack') /\ k + 1 \in 1..(n - 1)
      BY <1>2, <2>1, <2>4
    <3>2. stack'[k + 1].id = stack[k + 1].id
      BY <1>2, <3>1
    <3> QED BY ONLY <1>10, <2>1, <2>2, <2>3, <3>1, <3>2, FrameKept
  <2>5. CASE k = n - 1
    <3> DEFINE f == stack[k]
               pins == byID[f.id].pins
    <3>1. stack[k + 1].id = top /\ ~(k < Len(stack'))
      BY <1>2, <1>3, <2>5
    <3>2. /\ f.id \in DOMAIN byID /\ state[f.id] = "open"
          /\ f.next <= Len(pins) + 1 /\ pins[f.next - 1].id = top
          /\ \A q \in 1..(f.next - 1) :
               Met(pins[q]) /\ (state[pins[q].id] = "visited" \/ q = f.next - 1)
      BY <2>1, <3>1 DEF FrameGood, PinsOf
    <3>3. \A q \in 1..(f.next - 1) : Met(pins[q]) /\ pins[q].id \in Ids
      BY <1>10, <3>2 DEF Met
    <3>4. \A q \in 1..(f.next - 1) :
             /\ pins[q].id \in DOMAIN byID' /\ byID'[pins[q].id].version = pins[q].version
             /\ state'[pins[q].id] = "visited"
      BY <1>6, <2>1, <2>3, <3>2, <3>3 DEF Met
    <3>5. /\ stack'[k] = f /\ f.id \in DOMAIN byID' /\ byID'[f.id].pins = pins
          /\ state'[f.id] = "open"
      BY <2>1, <2>2, <3>2
    <3> HIDE DEF f, pins
    <3> QED BY ONLY <3>1, <3>2, <3>4, <3>5 DEF FrameGood, PinsOf, Met
  <2> QED BY <1>2, <2>4, <2>5
<1>13. Stacked'
  <2>1. \A j, k \in 1..(n - 1) : stack'[j].id = stack'[k].id => j = k
    BY <1>2 DEF Inv, Searching, Stacked
  <2>2. ASSUME NEW i \in Ids, state'[i] = "open"
        PROVE  \E k \in 1..(n - 1) : stack'[k].id = i
    <3>1. i # top /\ state[i] = "open"
      BY <1>6, <2>2
    <3>2. PICK k \in 1..n : stack[k].id = i
      BY <3>1 DEF Inv, Searching, Stacked
    <3>3. k \in 1..(n - 1)
      BY <1>2, <1>3, <3>1, <3>2
    <3> QED BY <1>2, <3>2, <3>3
  <2>3. \A i \in Ids : state'[i] # "new" => i \in DOMAIN byID
    BY <1>3, <1>6 DEF Inv, Searching, Stacked
  <2> QED BY <1>1, <1>2, <1>12, <2>1, <2>2, <2>3 DEF Stacked
<1>14. Closed'
  <2>1. byID' = byID
    BY <1>1
  <2>2. \A i \in Done' : \A q \in 1..Len(PinsOf(i)) :
           Met(PinsOf(i)[q]) /\ PinsOf(i)[q].id \in Done
    <3>1. \A q \in 1..Len(PinsOf(top)) :
             Met(PinsOf(top)[q]) /\ PinsOf(top)[q].id \in Done
      BY <1>3, <1>5 DEF PinsOf
    <3> QED BY <1>7, <3>1 DEF Inv, Searching, Closed
  <2> QED BY <1>7, <2>1, <2>2 DEF Closed, PinsOf, Met
<1>15. Ranked'
  <2>1. IsFiniteSet(Done) /\ Cardinality(Done) \in Nat
    <3>1. Done \subseteq DOMAIN byID
      BY DEF Inv, Searching, Stacked, Done
    <3> QED BY <3>1, FS_Subset, FS_CardinalityType DEF Inv, Registered
  <2>2. Cardinality(Done') = Cardinality(Done) + 1
    BY <1>7, <2>1, FS_AddElement
  <2>3. PICK rank \in [Ids -> Nat] : \A i \in Done :
           /\ rank[i] < Cardinality(Done)
           /\ \A q \in 1..Len(PinsOf(i)) : rank[PinsOf(i)[q].id] < rank[i]
    BY DEF Inv, Searching, Ranked
  <2> DEFINE later == [rank EXCEPT ![top] = Cardinality(Done)]
  <2>4. later \in [Ids -> Nat] /\ later[top] = Cardinality(Done)
        /\ \A i \in Done : later[i] = rank[i] /\ i \in Ids
    BY <1>3, <1>7, <2>1, <2>3 DEF Done
  <2>5. \A i \in Done' : later[i] < Cardinality(Done')
    <3>1. \A i \in Done : rank[i] \in Nat
      BY <2>3, <2>4
    <3> QED BY <1>7, <2>1, <2>2, <2>3, <2>4, <3>1
  <2>6. ASSUME NEW i \in Done', NEW q \in 1..Len(PinsOf(i))
        PROVE  later[PinsOf(i)[q].id] < later[i]
    <3>1. CASE i \in Done
      BY <2>3, <2>4, <3>1 DEF Inv, Searching, Closed
    <3>2. CASE i = top
      BY <1>3, <1>5, <2>3, <2>4, <3>2 DEF PinsOf
    <3> QED BY <1>7, <3>1, <3>2
  <2> HIDE DEF later
  <2> QED BY <1>1, <2>4, <2>5, <2>6 DEF Ranked, PinsOf
<1>16. Descends'
  <2>1. SUFFICES ASSUME NEW rank \in [Ids -> Nat], Orders(rank),
                        NEW j \in 1..(n - 1), NEW k \in 1..(n - 1), j < k
        PROVE  rank[stack'[k].id] < rank[stack'[j].id]
    BY <1>2, <1>8 DEF Descends, Orders
  <2>2. \A a, b \in 1..n : a < b => rank[stack[b].id] < rank[stack[a].id]
    BY <2>1 DEF Inv, Searching, Descends
  <2> QED BY <1>2, <2>1, <2>2
<1> QED BY <1>9, <1>13, <1>14, <1>15, <1>16 DEF Inv, Searching

------------------------------------------------------------------------------
(* Each failure has its cause, and what is accepted is valid.              *)

\* A pin to a call in progress would have to be above and below itself.
LEMMA OpenPinIsCycle ==
    ASSUME Inv, PinOpen
    PROVE  ~Acyclic
<1>1. /\ HasPin /\ stack # <<>> /\ Pin.id \in Ids /\ state[Pin.id] = "open"
  BY NextPin DEF PinOpen, HasPin
<1>2. SUFFICES ASSUME NEW rank \in [Ids -> 0..Len(manifests)], Orders(rank)
      PROVE  FALSE
  BY DEF Acyclic, Orders
<1>3. Len(manifests) \in Nat
  BY Elements DEF Inv, Typed
<1>4. rank \in [Ids -> Nat]
  BY <1>3
<1>5. PICK k \in 1..Len(stack) : stack[k].id = Pin.id
  BY <1>1 DEF Inv, Searching, Stacked
<1>6. /\ rank[Pin.id] < rank[Frame.id] /\ rank[Frame.id] <= rank[Pin.id]
      /\ rank[Pin.id] \in Nat /\ rank[Frame.id] \in Nat
  BY <1>1, <1>2, <1>4, <1>5, PinDescends, Top
<1> QED BY <1>6

LEMMA UnmetPinIsMissing ==
    ASSUME Inv, PinUnmet
    PROVE  ~PinsMet
<1>1. /\ HasPin /\ pc = "search" /\ ~Met(Pin) /\ byID[Frame.id] \in Given
      /\ Pin \in ToSet(byID[Frame.id].pins)
  BY NextPin, Top DEF PinUnmet, HasPin
<1>2. SUFFICES ASSUME NEW d \in Given, d.id = Pin.id, d.version = Pin.version
      PROVE  FALSE
  BY <1>1 DEF PinsMet
<1> QED BY <1>1, <1>2, AllRegistered DEF Met

LEMMA RegisteringFacts ==
    ASSUME Inv, Registering
    PROVE  /\ index \in 1..Len(manifests) /\ DOMAIN manifests = 1..Len(manifests)
           /\ Len(manifests) \in Nat /\ index \notin Passed
           /\ Passed \subseteq DOMAIN manifests
           /\ Current = manifests[index] /\ Current \in Given /\ IsManifest(Current)
BY Elements DEF Inv, Typed, Registering, Passed, Current, Given

LEMMA TwiceIsConflict ==
    ASSUME Inv, RegisteredTwice
    PROVE  ~Distinct
<1>1. PICK j \in Passed : Current.id = manifests[j].id
  BY DEF RegisteredTwice, Inv, Registered
<1> QED BY <1>1, RegisteringFacts DEF RegisteredTwice, Distinct

LEMMA TakenIsCollision ==
    ASSUME Inv, NamespaceTaken
    PROVE  ~Apart
<1>1. PICK n \in Current.namespaces :
        \/ n \in owners
        \/ \E o \in (owners \cup Current.namespaces) \ {n} : Overlap(n, o)
  BY DEF NamespaceTaken, Collides
<1>2. Overlap(n, n)
  BY RegisteringFacts DEF NamespaceTaken, IsManifest, Overlap, IsPrefix
<1>3. PICK o \in owners \cup Current.namespaces :
        Overlap(n, o) /\ (o \in owners \/ o # n)
  BY <1>1, <1>2
<1>4. CASE o \in owners
  <2>1. PICK j \in Passed : o \in manifests[j].namespaces
    BY <1>4 DEF Inv, Owned
  <2> QED BY <1>3, <2>1, RegisteringFacts DEF NamespaceTaken, Apart
<1>5. CASE o \in Current.namespaces /\ o # n
  BY <1>3, <1>5, RegisteringFacts DEF NamespaceTaken, Apart
<1> QED BY <1>3, <1>4, <1>5

LEMMA AcceptedIsValid ==
    ASSUME Inv, Accept
    PROVE  Compatible /\ Distinct /\ Apart /\ PinsMet /\ Acyclic
<1>1. /\ pc = "search" /\ DOMAIN manifests = Passed
      /\ \A i \in DOMAIN byID : i \in Ids /\ i \in Done /\ byID[i] \in Given
                                 /\ byID[i].id = i
      /\ \A m \in Given : m.id \in DOMAIN byID /\ byID[m.id] = m /\ IsManifest(m)
  BY AllRegistered, ByIDHolds DEF Accept, Inv, Typed, IsList, Given, Done
<1>2. Compatible /\ Distinct /\ Apart
  BY <1>1 DEF Inv, Registered, Owned, Compatible, Distinct, Apart, Given, ToSet
<1>3. ASSUME NEW m \in Given, NEW p \in ToSet(m.pins)
      PROVE  /\ Met(p) /\ p.id \in Done /\ m.id \in Done
             /\ \E q \in 1..Len(PinsOf(m.id)) : p = PinsOf(m.id)[q]
  <2>1. PICK q \in 1..Len(m.pins) : p = m.pins[q]
    BY <1>1, <1>3, PinElements
  <2>2. PinsOf(m.id) = m.pins /\ m.id \in Done
    BY <1>1 DEF PinsOf
  <2> QED BY <2>1, <2>2 DEF Inv, Searching, Closed
<1>4. PinsMet
  <2>1. SUFFICES ASSUME NEW m \in Given, NEW p \in ToSet(m.pins)
        PROVE  \E d \in Given : d.id = p.id /\ d.version = p.version
    BY DEF PinsMet
  <2>2. Met(p)
    BY <1>3
  <2> QED BY <1>1, <2>2 DEF Met
<1>5. Acyclic
  <2>1. PICK rank \in [Ids -> Nat] : \A i \in Done :
           /\ rank[i] < Cardinality(Done)
           /\ \A q \in 1..Len(PinsOf(i)) : rank[PinsOf(i)[q].id] < rank[i]
    BY DEF Inv, Searching, Ranked
  <2>2. Cardinality(Done) \in Nat /\ Cardinality(Done) <= Len(manifests)
    <3>1. Done \subseteq DOMAIN byID
      BY DEF Inv, Searching, Stacked, Done
    <3>2. /\ IsFiniteSet(DOMAIN byID) /\ Cardinality(DOMAIN byID) = index - 1
          /\ index = Len(manifests) + 1 /\ Len(manifests) \in Nat
      BY <1>1, Elements DEF Inv, Typed, Registered, Phases
    <3>3. IsFiniteSet(Done) /\ Cardinality(Done) <= Cardinality(DOMAIN byID)
      BY <3>1, <3>2, FS_Subset
    <3>4. Cardinality(Done) \in Nat
      BY <3>3, FS_CardinalityType
    <3> QED BY <3>2, <3>3, <3>4
  <2> DEFINE order == [i \in Ids |-> IF i \in Done THEN rank[i] ELSE 0]
  <2>3. order \in [Ids -> 0..Len(manifests)]
    <3>1. Len(manifests) \in Nat
      BY Elements DEF Inv, Typed
    <3> QED BY <2>1, <2>2, <3>1
  <2>4. ASSUME NEW m \in Given, NEW p \in ToSet(m.pins)
        PROVE  order[p.id] < order[m.id]
    <3>1. rank[p.id] < rank[m.id] /\ p.id \in Done /\ m.id \in Done
      BY <1>3, <2>1
    <3> QED BY <3>1 DEF Done
  <2> HIDE DEF order
  <2> QED BY <2>3, <2>4 DEF Acyclic
<1> QED BY <1>2, <1>4, <1>5

LEMMA ReturnStep ==
    ASSUME Inv, NEW code \in Codes \cup {"accepted"}, Return(code),
           pc \in {"register", "search"},
           code = "incompatible_version" => ~Compatible,
           code = "dependency_conflict" => ~Distinct,
           code = "namespace_collision" => ~Apart,
           code = "dependency_constraint" => ~PinsMet,
           code = "dependency_cycle" => ~Acyclic,
           code = "accepted" => Compatible /\ Distinct /\ Apart /\ PinsMet /\ Acyclic
    PROVE  Inv'
<1>1. Searching' /\ Registered' /\ Owned'
  BY SameSearch DEF Inv, Return
<1>2. Typed' /\ Phases'
  BY DEF Inv, Typed, Phases, Return, Codes
<1>3. manifests' = manifests /\ Given' = Given /\ verdict' = code
  BY DEF Return, Given
<1>4. /\ Compatible' = Compatible /\ Distinct' = Distinct /\ Apart' = Apart
      /\ PinsMet' = PinsMet /\ Acyclic' = Acyclic
  BY <1>3 DEF Compatible, Distinct, Apart, PinsMet, Acyclic
<1>5. Judged'
  BY <1>3, <1>4 DEF Judged, CodeNamesCause
<1> QED BY <1>1, <1>2, <1>5 DEF Inv

LEMMA JudgedStep ==
    ASSUME Inv, Incompatible \/ RegisteredTwice \/ NamespaceTaken
                \/ PinUnmet \/ PinOpen \/ Accept
    PROVE  Inv'
<1>1. CASE Incompatible
  <2>1. ~Compatible
    BY <1>1, RegisteringFacts DEF Incompatible, Compatible
  <2> QED BY <1>1, <2>1, ReturnStep DEF Incompatible, Registering, Codes
<1>2. CASE RegisteredTwice
  BY <1>2, TwiceIsConflict, ReturnStep DEF RegisteredTwice, Registering, Codes
<1>3. CASE NamespaceTaken
  BY <1>3, TakenIsCollision, ReturnStep DEF NamespaceTaken, Registering, Codes
<1>4. CASE PinUnmet
  BY <1>4, UnmetPinIsMissing, ReturnStep DEF PinUnmet, HasPin, Codes
<1>5. CASE PinOpen
  BY <1>5, OpenPinIsCycle, ReturnStep DEF PinOpen, HasPin, Codes
<1>6. CASE Accept
  BY <1>6, AcceptedIsValid, ReturnStep DEF Accept, Codes
<1> QED BY <1>1, <1>2, <1>3, <1>4, <1>5, <1>6

LEMMA DependenciesStep ==
    ASSUME Inv, Next
    PROVE  Inv'
BY RegisterStep, StartSearchStep, VisitRootStep, PinVisitedStep, PinNewStep,
   VisitedStep, JudgedStep DEF Next

------------------------------------------------------------------------------
(* PolicyBundle calls ValidateDependencies and else leaves it alone.       *)

LEMMA ParsedIsList ==
    ASSUME NEW f, ManifestsParse(f)
    PROVE  IsList(AllManifests(f))
<1> DEFINE rest == IF "dependencies.json" \in DOMAIN f THEN f["dependencies.json"] ELSE <<>>
<1>1. \E S : rest \in Seq(S)
  BY DEF ManifestsParse
<1>2. AllManifests(f) = <<f["manifest.json"]>> \o rest
  BY DEF AllManifests
<1>3. \E S : AllManifests(f) \in Seq(S)
  <2>1. PICK S : rest \in Seq(S)
    BY <1>1
  <2> HIDE DEF rest
  <2>2. rest \in Seq(S \cup {f["manifest.json"]})
    BY <2>1
  <2>3. <<f["manifest.json"]>> \in Seq(S \cup {f["manifest.json"]})
    OBVIOUS
  <2> QED BY <1>2, <2>2, <2>3
<1>4. AllManifests(f) \in Seq(ToSet(AllManifests(f)))
  BY <1>3 DEF ToSet
<1> QED BY <1>4 DEF ManifestsParse, IsList

LEMMA BundleSteps ==
    ASSUME BundleNext
    PROVE  \/ Next
           \/ UNCHANGED vars
           \/ \E list : IsList(list) /\ ValidateDependencies(list)
<1>1. CASE CallDependencies
  BY <1>1, ParsedIsList DEF CallDependencies
<1>2. CASE StepDependencies
  BY <1>2 DEF StepDependencies
<1>3. CASE EntryUnsafe \/ EntryTwice \/ EntryTooMuch \/ ReadEntry \/ EndOfArchive
  BY <1>3 DEF EntryUnsafe, EntryTwice, EntryTooMuch, ReadEntry, EndOfArchive, Exit
<1>4. CASE FilesMisnamed \/ FilesOverLimits \/ ManifestMalformed \/ DependenciesRefused
           \/ SignerRefused \/ LayersMalformed \/ StartLayers
  BY <1>4 DEF FilesMisnamed, FilesOverLimits, ManifestMalformed, DependenciesRefused,
              SignerRefused, LayersMalformed, StartLayers, Exit
<1>5. CASE LayerUnknown \/ LayerCollides \/ TakeLayer \/ NoBaseline \/ NotAscending
           \/ ReasonsMalformed \/ DataMalformed \/ Inspected
  BY <1>5 DEF LayerUnknown, LayerCollides, TakeLayer, NoBaseline, NotAscending,
              ReasonsMalformed, DataMalformed, Inspected, Exit
<1>6. CASE WriteArchiveFails \/ WriteArchive \/ ChecksumDiffers \/ ArchiveRead
  BY <1>6 DEF WriteArchiveFails, WriteArchive, ChecksumDiffers, ArchiveRead, Exit
<1> QED BY <1>1, <1>2, <1>3, <1>4, <1>5, <1>6 DEF BundleNext

LEMMA InvStep ==
    ASSUME Inv, [BundleNext]_<<bundleVars, vars>>
    PROVE  Inv'
<1>1. CASE UNCHANGED vars
  <2>1. Searching' /\ Registered' /\ Owned' /\ Given' = Given
    BY <1>1, SameSearch DEF vars, Inv, Given
  <2>2. Typed' /\ Phases'
    BY <1>1 DEF vars, Inv, Typed, Phases
  <2>3. /\ Compatible' = Compatible /\ Distinct' = Distinct /\ Apart' = Apart
        /\ PinsMet' = PinsMet /\ Acyclic' = Acyclic
    BY <1>1, <2>1 DEF vars, Compatible, Distinct, Apart, PinsMet, Acyclic
  <2>4. Judged'
    BY <1>1, <2>3 DEF vars, Inv, Judged, CodeNamesCause
  <2> QED BY <2>1, <2>2, <2>4 DEF Inv
<1>2. ASSUME NEW list, IsList(list), ValidateDependencies(list)
      PROVE  Inv'
  BY <1>2, Fresh DEF ValidateDependencies
<1> QED BY <1>1, <1>2, BundleSteps, DependenciesStep

LEMMA InitInv == BundleInit => Inv
<1>1. SUFFICES ASSUME BundleInit
      PROVE  Inv
  OBVIOUS
<1>2. Len(manifests) = 0 /\ Given = {} /\ manifests \in Seq({}) /\ Given = ToSet(manifests)
  BY <1>1 DEF BundleInit, Init, Given, ToSet
<1>3. Typed /\ Phases
  BY <1>1, <1>2 DEF BundleInit, Init, Typed, Phases, IsList
<1>4. Passed = {} /\ DOMAIN byID = {} /\ Done = {} /\ Len(stack) = 0
  BY <1>1 DEF BundleInit, Init, Passed, Done
<1>5. Registered /\ Owned
  BY <1>1, <1>4, FS_EmptySet DEF BundleInit, Init, Registered, Owned
<1>6. Stacked /\ Closed /\ Descends
  BY <1>1, <1>4 DEF BundleInit, Init, Stacked, Closed, Descends
<1>7. Ranked
  <2>1. [i \in Ids |-> 0] \in [Ids -> Nat]
    OBVIOUS
  <2> QED BY <1>4, <2>1 DEF Ranked
<1>8. Judged
  BY <1>1 DEF BundleInit, Init, Judged, CodeNamesCause
<1> QED BY <1>3, <1>5, <1>6, <1>7, <1>8 DEF Inv, Searching

LEMMA InvHolds == BundleSpec => []Inv
BY InitInv, InvStep, PTL DEF BundleSpec

------------------------------------------------------------------------------
(* The bytes of files.                                                     *)

\* The bytes of a file.
FileBytes(name, content) == {name} \X (1..FileSize(name, content))

Sized(f) == IsFiniteSet(DOMAIN f) /\ \A n \in DOMAIN f : FileSize(n, f[n]) \in Nat

LEMMA FileBytesCounted ==
    ASSUME NEW name, NEW content, FileSize(name, content) \in Nat
    PROVE  /\ IsFiniteSet(FileBytes(name, content))
           /\ Cardinality(FileBytes(name, content)) = FileSize(name, content)
<1> DEFINE k == FileSize(name, content)
<1>1. IsFiniteSet({name}) /\ Cardinality({name}) = 1
  BY FS_Singleton
<1>2. IsFiniteSet(1..k) /\ Cardinality(1..k) = k
  <2> HIDE DEF k
  <2> SUFFICES ASSUME k \in Nat
               PROVE  IsFiniteSet(1..k) /\ Cardinality(1..k) = k
    BY DEF k
  <2>1. 1 \in Int /\ k \in Int
    OBVIOUS
  <2>2. IsFiniteSet(1..k) /\ Cardinality(1..k) = IF 1 > k THEN 0 ELSE k - 1 + 1
    BY <2>1, FS_Interval
  <2> QED BY <2>2
<1>3. /\ IsFiniteSet({name} \X (1..k))
      /\ Cardinality({name} \X (1..k)) = Cardinality({name}) * Cardinality(1..k)
  <2> HIDE DEF k
  <2> QED BY <1>1, <1>2, FS_Product
<1> HIDE DEF k
<1>4. k \in Nat
  BY DEF k
<1> QED BY <1>1, <1>2, <1>3, <1>4 DEF FileBytes, k

LEMMA SizeIsCounted ==
    ASSUME NEW f, Sized(f)
    PROVE  IsFiniteSet(Bytes(f)) /\ Size(f) \in Nat
<1> DEFINE parts == {FileBytes(n, f[n]) : n \in DOMAIN f}
           onto == [n \in DOMAIN f |-> FileBytes(n, f[n])]
<1>1. onto \in Surjection(DOMAIN f, parts)
  BY DEF Surjection
<1>2. IsFiniteSet(parts)
  <2> HIDE DEF onto, parts
  <2> QED BY <1>1, FS_Surjection DEF Sized
<1>3. \A p \in parts : IsFiniteSet(p)
  BY FileBytesCounted DEF Sized
<1>4. Bytes(f) = UNION parts
  BY DEF Bytes, FileBytes
<1>5. IsFiniteSet(Bytes(f))
  <2> HIDE DEF parts
  <2> QED BY <1>2, <1>3, <1>4, FS_UNION
<1> QED BY <1>5, FS_CardinalityType DEF Size

\* Files that are among others have no more bytes.
LEMMA SizeGrows ==
    ASSUME NEW f, NEW g, Sized(g), DOMAIN f \subseteq DOMAIN g,
           \A n \in DOMAIN f : f[n] = g[n]
    PROVE  Sized(f) /\ Size(f) <= Size(g)
<1>1. Bytes(f) \subseteq Bytes(g)
  BY DEF Bytes
<1>2. IsFiniteSet(DOMAIN f)
  BY FS_Subset DEF Sized
<1> QED BY <1>1, <1>2, SizeIsCounted, FS_Subset DEF Size, Sized

Added(f, name, content) ==
    [n \in DOMAIN f \cup {name} |-> IF n = name THEN content ELSE f[n]]

LEMMA SizeAdds ==
    ASSUME NEW f, Sized(f), NEW name, name \notin DOMAIN f, NEW content,
           FileSize(name, content) \in Nat
    PROVE  /\ Sized(Added(f, name, content))
           /\ Size(Added(f, name, content)) = Size(f) + FileSize(name, content)
<1> DEFINE h == Added(f, name, content)
           P == FileBytes(name, content)
<1>1. DOMAIN h = DOMAIN f \cup {name} /\ h[name] = content
      /\ \A n \in DOMAIN f : h[n] = f[n]
  BY DEF Added
<1>2. Sized(h)
  <2>1. IsFiniteSet(DOMAIN f \cup {name})
    BY FS_AddElement DEF Sized
  <2> HIDE DEF h
  <2> QED BY <1>1, <2>1 DEF Sized
<1>3. Bytes(h) = Bytes(f) \cup P
  <2> HIDE DEF h
  <2>1. Bytes(h) = UNION {FileBytes(n, h[n]) : n \in DOMAIN f \cup {name}}
    BY <1>1 DEF Bytes, FileBytes
  <2>2. Bytes(f) = UNION {FileBytes(n, f[n]) : n \in DOMAIN f}
    BY DEF Bytes, FileBytes
  <2>3. Bytes(h) = (UNION {FileBytes(n, h[n]) : n \in DOMAIN f}) \cup FileBytes(name, h[name])
    BY <2>1
  <2> QED BY <1>1, <2>2, <2>3
<1>4. Bytes(f) \cap P = {}
  BY DEF Bytes, FileBytes
<1>5. IsFiniteSet(Bytes(f)) /\ IsFiniteSet(P) /\ Cardinality(P) = FileSize(name, content)
      /\ Size(f) \in Nat
  BY SizeIsCounted, FileBytesCounted
<1>6. Cardinality(Bytes(f) \cup P)
        = Cardinality(Bytes(f)) + Cardinality(P) - Cardinality(Bytes(f) \cap P)
  <2> HIDE DEF P
  <2> QED BY <1>5, FS_Union
<1>7. Cardinality({}) = 0
  BY FS_EmptySet
<1> HIDE DEF h, P
<1>8. Size(h) = Cardinality(Bytes(f)) + Cardinality(P) - 0
  BY <1>3, <1>4, <1>6, <1>7 DEF Size
<1> QED BY <1>2, <1>5, <1>8 DEF Size, h

------------------------------------------------------------------------------
\* Files with the contents that their names ask for.
Holds(f) == \A n \in DOMAIN f : IsContent(n, f[n])

LEMMA NamesAreFinite == IsFiniteSet(ToSet(FileNames))
<1> DEFINE n == Len(FileNames)
           onto == [j \in 1..n |-> FileNames[j]]
<1>1. n \in Nat /\ DOMAIN FileNames = 1..n
  BY NamesSorted
<1>2. onto \in Surjection(1..n, ToSet(FileNames))
  BY <1>1 DEF Surjection, ToSet
<1>3. IsFiniteSet(1..n)
  <2> HIDE DEF n
  <2>1. 1 \in Int /\ n \in Int
    BY <1>1
  <2> QED BY <2>1, FS_Interval
<1> HIDE DEF onto, n
<1> QED BY <1>2, <1>3, FS_Surjection

LEMMA HeldIsSized ==
    ASSUME NEW f, Holds(f)
    PROVE  Sized(f) /\ DOMAIN f \subseteq ToSet(FileNames)
<1>1. DOMAIN f \subseteq ToSet(FileNames)
  BY DEF Holds, IsContent
<1>2. IsFiniteSet(DOMAIN f)
  BY <1>1, NamesAreFinite, FS_Subset
<1> QED BY <1>1, <1>2 DEF Holds, IsContent, Sized

------------------------------------------------------------------------------
(* Archives as files, and files as archives.                               *)

IsArchive(a) ==
    a \in Seq(ToSet(a)) /\ \A e \in ToSet(a) : IsContent(e.name, e.content)

NamesOf(a) == {e.name : e \in ToSet(a)}
Single(a) == \A j, k \in DOMAIN a : a[j].name = a[k].name => j = k

LEMMA ArchiveFiles ==
    ASSUME NEW a, IsArchive(a)
    PROVE  /\ Len(a) \in Nat /\ DOMAIN a = 1..Len(a)
           /\ \A j \in 1..Len(a) : a[j] \in ToSet(a)
           /\ \A e \in ToSet(a) : \E j \in 1..Len(a) : e = a[j]
           /\ NamesOf(a) = {a[j].name : j \in 1..Len(a)}
           /\ AsFiles(a) = [n \in NamesOf(a) |-> AsFiles(a)[n]]
           /\ DOMAIN AsFiles(a) = NamesOf(a)
           /\ Holds(AsFiles(a))
           /\ Single(a) => \A j \in 1..Len(a) : AsFiles(a)[a[j].name] = a[j].content
<1>1. /\ Len(a) \in Nat /\ DOMAIN a = 1..Len(a)
      /\ \A j \in 1..Len(a) : a[j] \in ToSet(a)
      /\ \A e \in ToSet(a) : \E j \in 1..Len(a) : e = a[j]
  BY DEF IsArchive, ToSet
<1>2. NamesOf(a) = {a[j].name : j \in 1..Len(a)}
  BY <1>1 DEF NamesOf
<1>3. /\ AsFiles(a) = [n \in NamesOf(a) |-> AsFiles(a)[n]]
      /\ DOMAIN AsFiles(a) = NamesOf(a)
  BY DEF AsFiles, NamesOf
<1>4. ASSUME NEW n \in NamesOf(a)
      PROVE  \E e \in ToSet(a) : e.name = n /\ AsFiles(a)[n] = e.content
  <2>1. \E e \in ToSet(a) : e.name = n
    BY DEF NamesOf
  <2> QED BY <2>1 DEF AsFiles, NamesOf
<1>5. Holds(AsFiles(a))
  BY <1>3, <1>4 DEF Holds, IsArchive
<1>6. ASSUME Single(a), NEW j \in 1..Len(a)
      PROVE  AsFiles(a)[a[j].name] = a[j].content
  <2>1. PICK e \in ToSet(a) : e.name = a[j].name /\ AsFiles(a)[a[j].name] = e.content
    BY <1>2, <1>4
  <2>2. PICK k \in 1..Len(a) : e = a[k]
    BY <1>1
  <2>3. j = k
    BY <1>1, <1>6, <2>1, <2>2 DEF Single
  <2> QED BY <2>1, <2>2, <2>3
<1> QED BY <1>1, <1>2, <1>3, <1>5, <1>6

\* In the order of FileNames any names in play can be sorted.
LEMMA NamesBeforeIsStrict ==
    ASSUME NEW S, S \subseteq ToSet(FileNames)
    PROVE  Strict(S, NamesBefore)
<1>1. /\ Len(FileNames) \in Nat /\ DOMAIN FileNames = 1..Len(FileNames)
      /\ \A j, k \in 1..Len(FileNames) : FileNames[j] = FileNames[k] => j = k
  BY NamesSorted
<1>2. \A x \in S : \E j \in 1..Len(FileNames) : x = FileNames[j]
  BY <1>1 DEF ToSet
<1>3. ASSUME NEW j \in 1..Len(FileNames), NEW k \in 1..Len(FileNames)
      PROVE  <<FileNames[j], FileNames[k]>> \in NamesBefore <=> j < k
  <2>1. ASSUME <<FileNames[j], FileNames[k]>> \in NamesBefore
        PROVE  j < k
    <3>1. PICK p \in (1..Len(FileNames)) \X (1..Len(FileNames)) :
            /\ p[1] < p[2]
            /\ <<FileNames[j], FileNames[k]>> = <<FileNames[p[1]], FileNames[p[2]]>>
      BY <1>1, <2>1 DEF NamesBefore
    <3>2. FileNames[j] = FileNames[p[1]] /\ FileNames[k] = FileNames[p[2]]
      BY <3>1
    <3>3. j = p[1] /\ k = p[2]
      BY <1>1, <3>1, <3>2
    <3> QED BY <3>1, <3>3
  <2>2. ASSUME j < k
        PROVE  <<FileNames[j], FileNames[k]>> \in NamesBefore
    <3>1. <<j, k>> \in {p \in (DOMAIN FileNames) \X (DOMAIN FileNames) : p[1] < p[2]}
      BY <1>1, <2>2
    <3> QED BY <3>1 DEF NamesBefore
  <2> QED BY <2>1, <2>2
<1> QED BY <1>1, <1>2, <1>3 DEF Strict

LEMMA EntriesAreFiles ==
    ASSUME NEW f, Holds(f), f = [n \in DOMAIN f |-> f[n]]
    PROVE  LET a == EntriesOf(f) IN
           /\ IsArchive(a) /\ Single(a) /\ NamesOf(a) = DOMAIN f /\ AsFiles(a) = f
           /\ \A e \in ToSet(a) : e.regular /\ e.name \in DOMAIN f
<1> DEFINE names == InOrder(DOMAIN f, NamesBefore)
           n == Cardinality(DOMAIN f)
           a == EntriesOf(f)
<1>1. IsFiniteSet(DOMAIN f) /\ Strict(DOMAIN f, NamesBefore)
  BY HeldIsSized, NamesBeforeIsStrict DEF Sized
<1>2. /\ n \in Nat /\ names \in [1..n -> DOMAIN f]
      /\ \A x \in DOMAIN f : \E k \in 1..n : names[k] = x
      /\ \A j, k \in 1..n : j < k <=> <<names[j], names[k]>> \in NamesBefore
  BY <1>1, InOrderSorts
<1>3. a = [j \in 1..n |-> [name |-> names[j], regular |-> TRUE, content |-> f[names[j]]]]
  BY <1>2 DEF EntriesOf
<1> HIDE DEF names, n, a
<1>4. /\ \A j \in 1..n : a[j].name = names[j] /\ a[j].regular /\ a[j].content = f[names[j]]
      /\ DOMAIN a = 1..n
  BY <1>3
<1>5. a \in Seq(ToSet(a)) /\ Len(a) = n /\ ToSet(a) = {a[j] : j \in 1..n}
  <2>1. ToSet(a) = {a[j] : j \in 1..n}
    BY <1>4 DEF ToSet
  <2>2. a \in [1..n -> ToSet(a)]
    BY <1>3, <1>4, <2>1
  <2>3. a \in Seq(ToSet(a))
    BY <1>2, <2>2
  <2>4. Len(a) = n
    BY <1>2, <1>4, <2>3
  <2> QED BY <2>1, <2>3, <2>4
<1>6. \A e \in ToSet(a) : e.regular /\ e.name \in DOMAIN f /\ e.content = f[e.name]
  BY <1>2, <1>4, <1>5
<1>7. IsArchive(a)
  BY <1>5, <1>6 DEF IsArchive, Holds
<1>8. Single(a)
  <2>1. ASSUME NEW j \in 1..n, NEW k \in 1..n, names[j] = names[k]
        PROVE  j = k
    <3>1. ~(<<names[j], names[k]>> \in NamesBefore)
          /\ ~(<<names[k], names[j]>> \in NamesBefore)
      BY <1>1, <1>2, <2>1 DEF Strict
    <3>2. ~(j < k) /\ ~(k < j)
      BY <1>2, <3>1
    <3> QED BY <1>2, <3>2
  <2> QED BY <1>4, <2>1 DEF Single
<1>9. NamesOf(a) = DOMAIN f
  <2>1. NamesOf(a) = {names[j] : j \in 1..n}
    BY <1>4, <1>5 DEF NamesOf
  <2>2. \A j \in 1..n : names[j] \in DOMAIN f
    BY <1>2
  <2>3. NamesOf(a) \subseteq DOMAIN f
    BY <2>1, <2>2
  <2>4. DOMAIN f \subseteq NamesOf(a)
    BY <1>2, <2>1
  <2> QED BY <2>3, <2>4
<1>10. AsFiles(a) = f
  <2>1. /\ AsFiles(a) = [x \in NamesOf(a) |-> AsFiles(a)[x]]
        /\ \A j \in 1..n : AsFiles(a)[a[j].name] = a[j].content
    BY <1>5, <1>7, <1>8, ArchiveFiles
  <2>2. \A x \in DOMAIN f : AsFiles(a)[x] = f[x]
    BY <1>2, <1>4, <2>1
  <2> QED BY <1>9, <2>1, <2>2
<1> QED BY <1>6, <1>7, <1>8, <1>9, <1>10 DEF a

------------------------------------------------------------------------------
(* Digests: what Seal writes Matches accepts, and nothing else.            *)

\* A manifest with other digests, in canonical form.
Stamped(m, source, build) ==
    [m EXCEPT !.source = source, !.build = build, !.form = "canonical"]

LEMMA Stamping ==
    ASSUME NEW m, HasFields(m), NEW s, NEW b
    PROVE  LET n == Stamped(m, s, b) IN
           /\ HasFields(n) /\ DOMAIN n = DOMAIN m
           /\ n.source = s /\ n.build = b /\ n.form = "canonical"
           /\ \A k \in DOMAIN m : k \notin {"source", "build", "form"} => n[k] = m[k]
           /\ \A t, c : Stamped(n, t, c) = Stamped(m, t, c)
<1> DEFINE n == Stamped(m, s, b)
<1>1. /\ DOMAIN n = DOMAIN m /\ n = [k \in DOMAIN n |-> n[k]]
      /\ n["source"] = s /\ n["build"] = b /\ n["form"] = "canonical"
      /\ \A k \in DOMAIN m : k \notin {"source", "build", "form"} => n[k] = m[k]
  BY DEF Stamped, HasFields
<1>2. ASSUME NEW t, NEW c
      PROVE  Stamped(n, t, c) = Stamped(m, t, c)
  <2> HIDE DEF n
  <2>1. /\ DOMAIN Stamped(n, t, c) = DOMAIN m /\ DOMAIN Stamped(m, t, c) = DOMAIN m
        /\ Stamped(n, t, c) = [k \in DOMAIN m |-> Stamped(n, t, c)[k]]
        /\ Stamped(m, t, c) = [k \in DOMAIN m |-> Stamped(m, t, c)[k]]
    BY <1>1 DEF Stamped
  <2>2. \A k \in DOMAIN m : Stamped(n, t, c)[k] = Stamped(m, t, c)[k]
    BY <1>1 DEF Stamped
  <2> HIDE DEF Stamped
  <2> QED BY <2>1, <2>2
<1> HIDE DEF n
<1> QED BY <1>1, <1>2 DEF n, HasFields

LEMMA Digesting ==
    ASSUME NEW f, "manifest.json" \in DOMAIN f, NEW s, NEW b
    PROVE  LET g == WithDigests(f, s, b) IN
           /\ DOMAIN g = DOMAIN f /\ g = [n \in DOMAIN f |-> g[n]]
           /\ g["manifest.json"] = Stamped(f["manifest.json"], s, b)
           /\ \A n \in DOMAIN f : n # "manifest.json" => g[n] = f[n]
BY DEF WithDigests, Stamped

\* What a digest is of does not depend on the digests that were there before.
LEMMA DigestsReplaced ==
    ASSUME NEW f, "manifest.json" \in DOMAIN f, HasFields(f["manifest.json"]),
           NEW s, NEW b, NEW t, NEW c
    PROVE  WithDigests(WithDigests(f, s, b), t, c) = WithDigests(f, t, c)
<1> DEFINE g == WithDigests(f, s, b)
           h == WithDigests(g, t, c)
           k == WithDigests(f, t, c)
<1>1. /\ DOMAIN g = DOMAIN f /\ g["manifest.json"] = Stamped(f["manifest.json"], s, b)
      /\ \A n \in DOMAIN f : n # "manifest.json" => g[n] = f[n]
  BY Digesting
<1>2. /\ DOMAIN k = DOMAIN f /\ k = [n \in DOMAIN f |-> k[n]]
      /\ k["manifest.json"] = Stamped(f["manifest.json"], t, c)
      /\ \A n \in DOMAIN f : n # "manifest.json" => k[n] = f[n]
  BY Digesting
<1> HIDE DEF g
<1>3. /\ DOMAIN h = DOMAIN g /\ h = [n \in DOMAIN g |-> h[n]]
      /\ h["manifest.json"] = Stamped(g["manifest.json"], t, c)
      /\ \A n \in DOMAIN g : n # "manifest.json" => h[n] = g[n]
  BY <1>1, Digesting
<1>4. Stamped(g["manifest.json"], t, c) = Stamped(f["manifest.json"], t, c)
  BY <1>1, Stamping
<1> HIDE DEF h, k
<1>5. \A n \in DOMAIN f : h[n] = k[n]
  BY <1>1, <1>2, <1>3, <1>4
<1>6. h = k
  BY <1>1, <1>2, <1>3, <1>5
<1> QED BY <1>6 DEF g, h, k

\* What is sealed carries its own digests.
LEMMA SealedMatches ==
    ASSUME NEW f, "manifest.json" \in DOMAIN f, HasFields(f["manifest.json"])
    PROVE  LET g == Seal(f) IN
           /\ DOMAIN g = DOMAIN f /\ g = [n \in DOMAIN f |-> g[n]] /\ Matches(g)
           /\ HasFields(g["manifest.json"])
           /\ g["manifest.json"].form = "canonical"
           /\ DOMAIN g["manifest.json"] = DOMAIN f["manifest.json"]
           /\ \A k \in DOMAIN f["manifest.json"] :
                k \notin {"source", "build", "form"} =>
                    g["manifest.json"][k] = f["manifest.json"][k]
           /\ \A n \in DOMAIN f : n # "manifest.json" => g[n] = f[n]
<1> DEFINE g == Seal(f)
           m == f["manifest.json"]
<1>1. /\ DOMAIN g = DOMAIN f /\ g = [n \in DOMAIN f |-> g[n]]
      /\ g["manifest.json"] = Stamped(m, SourceDigest(f), BuildDigest(f))
      /\ \A n \in DOMAIN f : n # "manifest.json" => g[n] = f[n]
  BY Digesting DEF Seal
<1>2. /\ HasFields(g["manifest.json"]) /\ DOMAIN g["manifest.json"] = DOMAIN m
      /\ g["manifest.json"].source = SourceDigest(f)
      /\ g["manifest.json"].build = BuildDigest(f)
      /\ g["manifest.json"].form = "canonical"
      /\ \A k \in DOMAIN m : k \notin {"source", "build", "form"} =>
            g["manifest.json"][k] = m[k]
  <2> HIDE DEF g
  <2> QED BY <1>1, Stamping
<1>3. SourceDigest(g) = SourceDigest(f)
  BY DigestsReplaced DEF Seal, SourceDigest, FileDigest
<1>4. BuildDigest(g) = BuildDigest(f)
  <2>1. WithDigests(g, SourceDigest(f), Zero) = WithDigests(f, SourceDigest(f), Zero)
    BY DigestsReplaced DEF Seal
  <2> QED BY <1>3, <2>1 DEF BuildDigest, FileDigest
<1> HIDE DEF g
<1>5. Matches(g)
  BY <1>2, <1>3, <1>4 DEF Matches
<1> QED BY <1>1, <1>2, <1>5 DEF g

LEMMA MatchesIsSealed ==
    ASSUME NEW f, "manifest.json" \in DOMAIN f, HasFields(f["manifest.json"])
    PROVE  LET m == f["manifest.json"] IN
           Matches(f) <=> m = [Seal(f)["manifest.json"] EXCEPT !.form = m.form]
<1> DEFINE m == f["manifest.json"]
           n == Seal(f)["manifest.json"]
           o == [n EXCEPT !.form = m.form]
<1>1. n = Stamped(m, SourceDigest(f), BuildDigest(f))
  BY Digesting DEF Seal
<1> HIDE DEF n
<1>2. /\ HasFields(n) /\ DOMAIN n = DOMAIN m
      /\ n.source = SourceDigest(f) /\ n.build = BuildDigest(f)
      /\ \A k \in DOMAIN m : k \notin {"source", "build", "form"} => n[k] = m[k]
  <2> HIDE DEF m
  <2> QED BY <1>1, Stamping DEF m
<1>3. /\ DOMAIN o = DOMAIN m /\ o = [k \in DOMAIN m |-> o[k]]
      /\ o["source"] = SourceDigest(f) /\ o["build"] = BuildDigest(f) /\ o["form"] = m["form"]
      /\ \A k \in DOMAIN m : k \notin {"source", "build", "form"} => o[k] = m[k]
  BY <1>2 DEF HasFields
<1> HIDE DEF o
<1>4. ASSUME Matches(f)
      PROVE  m = o
  <2>1. m["source"] = SourceDigest(f) /\ m["build"] = BuildDigest(f)
    BY <1>4 DEF Matches
  <2>2. \A k \in DOMAIN m : m[k] = o[k]
    BY <1>3, <2>1
  <2> HIDE DEF m
  <2> QED BY <1>3, <2>2 DEF HasFields, m
<1>5. ASSUME m = o
      PROVE  Matches(f)
  BY <1>3, <1>5 DEF Matches
<1> QED BY <1>4, <1>5 DEF o, n

\* Files that carry their own digests, and the same one, are the same but for the
\* form of their manifest.
LEMMA DigestNamesFiles ==
    ASSUME NEW f, "manifest.json" \in DOMAIN f, HasFields(f["manifest.json"]),
           f = [n \in DOMAIN f |-> f[n]], Matches(f),
           NEW g, "manifest.json" \in DOMAIN g, HasFields(g["manifest.json"]),
           g = [n \in DOMAIN g |-> g[n]], Matches(g),
           f["manifest.json"].build = g["manifest.json"].build
    PROVE  Unformatted(f) = Unformatted(g)
<1> DEFINE m == f["manifest.json"]
           n == g["manifest.json"]
           df == BuildDigest(f)
           dg == BuildDigest(g)
<1>1. df = dg
  BY DEF Matches
<1>2. /\ DOMAIN df = DOMAIN f
      /\ df["manifest.json"] = Stamped(m, SourceDigest(f), Zero)
      /\ \A x \in DOMAIN f : x # "manifest.json" => df[x] = f[x]
  BY Digesting DEF BuildDigest, FileDigest
<1>3. /\ DOMAIN dg = DOMAIN g
      /\ dg["manifest.json"] = Stamped(n, SourceDigest(g), Zero)
      /\ \A x \in DOMAIN g : x # "manifest.json" => dg[x] = g[x]
  BY Digesting DEF BuildDigest, FileDigest
<1> HIDE DEF df, dg
<1>4. /\ DOMAIN f = DOMAIN g
      /\ \A x \in DOMAIN f : x # "manifest.json" => f[x] = g[x]
      /\ Stamped(m, SourceDigest(f), Zero) = Stamped(n, SourceDigest(g), Zero)
  BY <1>1, <1>2, <1>3
<1>5. /\ DOMAIN m = DOMAIN n /\ m["source"] = n["source"] /\ m["build"] = n["build"]
      /\ \A k \in DOMAIN m : k \notin {"source", "build", "form"} => m[k] = n[k]
  <2>1. m.source = SourceDigest(f) /\ n.source = SourceDigest(g)
    BY DEF Matches
  <2> HIDE DEF m, n
  <2>2. /\ DOMAIN Stamped(m, SourceDigest(f), Zero) = DOMAIN m
        /\ Stamped(m, SourceDigest(f), Zero).source = SourceDigest(f)
        /\ \A k \in DOMAIN m : k \notin {"source", "build", "form"} =>
              Stamped(m, SourceDigest(f), Zero)[k] = m[k]
    BY Stamping DEF m
  <2>3. /\ DOMAIN Stamped(n, SourceDigest(g), Zero) = DOMAIN n
        /\ Stamped(n, SourceDigest(g), Zero).source = SourceDigest(g)
        /\ \A k \in DOMAIN n : k \notin {"source", "build", "form"} =>
              Stamped(n, SourceDigest(g), Zero)[k] = n[k]
    BY Stamping DEF n
  <2> QED BY <1>4, <2>1, <2>2, <2>3 DEF m, n
<1>6. [m EXCEPT !.form = "canonical"] = [n EXCEPT !.form = "canonical"]
  <2>1. /\ DOMAIN [m EXCEPT !.form = "canonical"] = DOMAIN m
        /\ DOMAIN [n EXCEPT !.form = "canonical"] = DOMAIN m
        /\ \A k \in DOMAIN m :
              [m EXCEPT !.form = "canonical"][k] = [n EXCEPT !.form = "canonical"][k]
    BY <1>5
  <2> HIDE DEF m, n
  <2> QED BY <2>1
<1>7. /\ Unformatted(f) = [x \in DOMAIN f |->
            IF x = "manifest.json" THEN [m EXCEPT !.form = "canonical"] ELSE f[x]]
      /\ Unformatted(g) = [x \in DOMAIN g |->
            IF x = "manifest.json" THEN [n EXCEPT !.form = "canonical"] ELSE g[x]]
  BY DEF Unformatted
<1> HIDE DEF m, n
<1> QED BY <1>4, <1>6, <1>7

------------------------------------------------------------------------------
(* Lists of manifests, before and after they are sealed.                   *)

\* What the manual asks of a list of manifests.
ValidList(list) ==
    /\ \A m \in ToSet(list) : m.compatible
    /\ \A j, k \in DOMAIN list : list[j].id = list[k].id => j = k
    /\ \A j, k \in DOMAIN list :
        \A n \in list[j].namespaces, o \in list[k].namespaces :
            Overlap(n, o) => j = k /\ n = o
    /\ \A m \in ToSet(list) : \A p \in ToSet(m.pins) :
        \E d \in ToSet(list) : d.id = p.id /\ d.version = p.version
    /\ \E rank \in [Ids -> 0..Len(list)] :
        \A m \in ToSet(list) : \A p \in ToSet(m.pins) :
            p.id \in Ids => rank[p.id] < rank[m.id]

LEMMA ValidManifests ==
    ValidList(manifests) <=> Compatible /\ Distinct /\ Apart /\ PinsMet /\ Acyclic
BY DEF ValidList, Compatible, Distinct, Apart, PinsMet, Acyclic, Given

\* Its layers, of the files f.
SoundLayers(f) ==
    LET layers == f["layers.json"] IN
    /\ LayersParse(f) /\ \E l \in ToSet(layers) : l.name = "baseline"
    /\ \A l \in ToSet(layers) :
        /\ l.name \in ToSet(LayerNames) /\ NamespaceMatches(l.namespace)
        /\ \E m \in ToSet(AllManifests(f)) : l.namespace \in m.namespaces
    /\ \A j, k \in DOMAIN layers :
        j # k => /\ layers[j].name # layers[k].name
                 /\ ~Overlap(layers[j].namespace, layers[k].namespace)
                 /\ Rank(layers[j]) < Rank(layers[k])
                    <=> layers[j].priority < layers[k].priority

LEMMA SoundLayersHere ==
    ASSUME manifests = AllManifests(files)
    PROVE  LayersSound <=> SoundLayers(files)
BY DEF LayersSound, SoundLayers, HasBaseline, Layers, Given

\* The check of manifests looks at five fields of each.
SameChecks(m, n) ==
    /\ m.id = n.id /\ m.version = n.version /\ m.compatible = n.compatible
    /\ m.namespaces = n.namespaces /\ m.pins = n.pins

LEMMA SameVerdict ==
    ASSUME NEW a, NEW b, a \in Seq(ToSet(a)), b \in Seq(ToSet(b)), Len(a) = Len(b),
           \A j \in 1..Len(a) : SameChecks(a[j], b[j]), ValidList(a)
    PROVE  ValidList(b)
<1>1. /\ Len(a) \in Nat /\ DOMAIN a = 1..Len(a) /\ DOMAIN b = 1..Len(a)
      /\ \A m \in ToSet(a) : \E j \in 1..Len(a) : m = a[j]
      /\ \A m \in ToSet(b) : \E j \in 1..Len(a) : m = b[j]
      /\ \A j \in 1..Len(a) : a[j] \in ToSet(a) /\ b[j] \in ToSet(b)
  BY DEF ToSet
<1>2. \A m \in ToSet(b) : \E n \in ToSet(a) : SameChecks(n, m)
  <2>1. TAKE m \in ToSet(b)
  <2>2. PICK j \in 1..Len(a) : m = b[j]
    BY <1>1
  <2> QED BY <1>1, <2>2
<1>3. \A n \in ToSet(a) : \E m \in ToSet(b) : SameChecks(n, m)
  <2>1. TAKE n \in ToSet(a)
  <2>2. PICK j \in 1..Len(a) : n = a[j]
    BY <1>1
  <2> QED BY <1>1, <2>2
<1>4. \A m \in ToSet(b) : m.compatible
  BY <1>2 DEF ValidList, SameChecks
<1>5. \A j, k \in DOMAIN b : b[j].id = b[k].id => j = k
  <2>1. \A j \in 1..Len(a) : a[j].id = b[j].id
    BY DEF SameChecks
  <2>2. \A j, k \in 1..Len(a) : a[j].id = a[k].id => j = k
    BY <1>1 DEF ValidList
  <2> QED BY <1>1, <2>1, <2>2
<1>6. \A j, k \in DOMAIN b :
        \A n \in b[j].namespaces, o \in b[k].namespaces : Overlap(n, o) => j = k /\ n = o
  <2>1. \A j \in 1..Len(a) : a[j].namespaces = b[j].namespaces
    BY DEF SameChecks
  <2>2. \A j, k \in 1..Len(a) :
          \A n \in a[j].namespaces, o \in a[k].namespaces : Overlap(n, o) => j = k /\ n = o
    BY <1>1 DEF ValidList
  <2>3. ASSUME NEW j \in 1..Len(a), NEW k \in 1..Len(a),
               NEW n \in b[j].namespaces, NEW o \in b[k].namespaces, Overlap(n, o)
        PROVE  j = k /\ n = o
    <3>1. n \in a[j].namespaces /\ o \in a[k].namespaces
      BY <2>1
    <3> QED BY <2>2, <2>3, <3>1
  <2>4. DOMAIN b = 1..Len(a)
    BY <1>1
  <2> QED BY <2>3, <2>4
<1>7. ASSUME NEW m \in ToSet(b), NEW p \in ToSet(m.pins)
      PROVE  \E d \in ToSet(b) : d.id = p.id /\ d.version = p.version
  <2>1. PICK n \in ToSet(a) : SameChecks(n, m)
    BY <1>2
  <2>2. p \in ToSet(n.pins)
    BY <2>1 DEF SameChecks
  <2>3. PICK c \in ToSet(a) : c.id = p.id /\ c.version = p.version
    BY <2>2 DEF ValidList
  <2>4. PICK d \in ToSet(b) : SameChecks(c, d)
    BY <1>3
  <2> QED BY <2>3, <2>4 DEF SameChecks
<1>8. PICK rank \in [Ids -> 0..Len(a)] :
        \A m \in ToSet(a) : \A p \in ToSet(m.pins) : p.id \in Ids => rank[p.id] < rank[m.id]
  BY DEF ValidList
<1>9. \A m \in ToSet(b) : \A p \in ToSet(m.pins) : p.id \in Ids => rank[p.id] < rank[m.id]
  BY <1>2, <1>8 DEF SameChecks
<1> QED BY <1>4, <1>5, <1>6, <1>7, <1>8, <1>9 DEF ValidList

LEMMA ManifestList ==
    ASSUME NEW f, ManifestsParse(f)
    PROVE  LET list == AllManifests(f)
               rest == IF "dependencies.json" \in DOMAIN f THEN f["dependencies.json"]
                       ELSE <<>>
           IN  /\ list \in Seq(ToSet(list)) /\ Len(rest) \in Nat
               /\ Len(list) = Len(rest) + 1 /\ list[1] = f["manifest.json"]
               /\ \A j \in 2..Len(list) : list[j] = rest[j - 1]
<1> DEFINE list == AllManifests(f)
           rest == IF "dependencies.json" \in DOMAIN f THEN f["dependencies.json"] ELSE <<>>
<1>1. list \in Seq(ToSet(list))
  BY ParsedIsList DEF IsList
<1>2. \E S : rest \in Seq(S)
  BY DEF ManifestsParse
<1>3. list = <<f["manifest.json"]>> \o rest
  BY DEF AllManifests
<1>4. /\ Len(rest) \in Nat /\ Len(list) = Len(rest) + 1 /\ list[1] = f["manifest.json"]
      /\ \A j \in 2..Len(list) : list[j] = rest[j - 1]
  <2>1. PICK S : rest \in Seq(S)
    BY <1>2
  <2> HIDE DEF list, rest
  <2>2. rest \in Seq(S \cup {f["manifest.json"]})
    BY <2>1
  <2>3. <<f["manifest.json"]>> \in Seq(S \cup {f["manifest.json"]})
    OBVIOUS
  <2> QED BY <1>3, <2>2, <2>3
<1> QED BY <1>1, <1>4

\* Sealing changes no verdict but that of the digests.
LEMMA SealedIsValid ==
    ASSUME NEW f, Holds(f), ManifestsParse(f), Seal(f)["manifest.json"] # Malformed
    PROVE  /\ ManifestsParse(Seal(f))
           /\ ValidList(AllManifests(f)) => ValidList(AllManifests(Seal(f)))
           /\ SoundLayers(f) => SoundLayers(Seal(f))
           /\ Seal(f)["manifest.json"].signing = f["manifest.json"].signing
<1> DEFINE g == Seal(f)
           a == AllManifests(f)
           b == AllManifests(g)
<1>1. "manifest.json" \in DOMAIN f /\ HasFields(f["manifest.json"])
  BY DEF ManifestsParse, Parsed, Holds, IsContent
<1>2. /\ DOMAIN g = DOMAIN f /\ g["manifest.json"] # Malformed
      /\ \A k \in DOMAIN f["manifest.json"] : k \notin {"source", "build", "form"} =>
            g["manifest.json"][k] = f["manifest.json"][k]
      /\ \A n \in DOMAIN f : n # "manifest.json" => g[n] = f[n]
  BY <1>1, SealedMatches
<1> HIDE DEF g
<1>3. /\ SameChecks(f["manifest.json"], g["manifest.json"])
      /\ g["manifest.json"].signing = f["manifest.json"].signing
  BY <1>1, <1>2 DEF HasFields, SameChecks
<1>4. /\ a = <<f["manifest.json"]>> \o
             (IF "dependencies.json" \in DOMAIN f THEN f["dependencies.json"] ELSE <<>>)
      /\ b = <<g["manifest.json"]>> \o
             (IF "dependencies.json" \in DOMAIN f THEN f["dependencies.json"] ELSE <<>>)
  BY <1>2 DEF AllManifests
<1>5. ManifestsParse(g)
  <2>1. Parsed(g, "manifest.json")
    BY <1>1, <1>2 DEF Parsed
  <2>2. "dependencies.json" \in DOMAIN g =>
            /\ g["dependencies.json"] # Malformed
            /\ g["dependencies.json"] \in Seq(ToSet(g["dependencies.json"]))
    BY <1>2 DEF ManifestsParse
  <2>3. IsManifest(g["manifest.json"])
    <3>1. IsManifest(f["manifest.json"])
      <4>1. a \in Seq(ToSet(a)) /\ Len(a) >= 1 /\ a[1] = f["manifest.json"]
        BY ManifestList
      <4>2. a[1] \in ToSet(a)
        <5> HIDE DEF a
        <5> QED BY <4>1 DEF ToSet
      <4> QED BY <4>1, <4>2 DEF ManifestsParse
    <3> QED BY <1>3, <3>1 DEF IsManifest, SameChecks
  <2>4. \A m \in ToSet(b) : m = g["manifest.json"] \/ m \in ToSet(a)
    <3> DEFINE rest == IF "dependencies.json" \in DOMAIN f THEN f["dependencies.json"]
                       ELSE <<>>
    <3>1. PICK S : rest \in Seq(S)
      BY DEF ManifestsParse
    <3>2. a = <<f["manifest.json"]>> \o rest /\ b = <<g["manifest.json"]>> \o rest
      BY <1>4
    <3> HIDE DEF rest, a, b
    <3>3. /\ rest \in Seq(S \cup {f["manifest.json"], g["manifest.json"]})
          /\ <<f["manifest.json"]>> \in Seq(S \cup {f["manifest.json"], g["manifest.json"]})
          /\ <<g["manifest.json"]>> \in Seq(S \cup {f["manifest.json"], g["manifest.json"]})
      BY <3>1
    <3>4. /\ Len(rest) \in Nat /\ DOMAIN a = 1..(Len(rest) + 1) /\ DOMAIN b = DOMAIN a
          /\ b[1] = g["manifest.json"] /\ \A j \in 2..(Len(rest) + 1) : b[j] = a[j]
      BY <3>2, <3>3
    <3> QED BY <3>4 DEF ToSet
  <2>5. \A m \in ToSet(b) : IsManifest(m)
    BY <2>3, <2>4 DEF ManifestsParse
  <2> QED BY <2>1, <2>2, <2>5 DEF ManifestsParse
<1>6. /\ a \in Seq(ToSet(a)) /\ b \in Seq(ToSet(b)) /\ Len(a) = Len(b)
      /\ \A j \in 1..Len(a) : SameChecks(a[j], b[j])
  <2>1. /\ a \in Seq(ToSet(a)) /\ a[1] = f["manifest.json"] /\ Len(a) \in Nat
        /\ b \in Seq(ToSet(b)) /\ b[1] = g["manifest.json"] /\ Len(a) = Len(b)
        /\ \A j \in 2..Len(a) : a[j] = b[j]
    BY <1>2, <1>5, ManifestList
  <2> HIDE DEF a, b
  <2> QED BY <1>3, <2>1 DEF SameChecks
<1>7. ValidList(a) => ValidList(b)
  <2> HIDE DEF a, b
  <2> QED BY <1>6, SameVerdict
<1>8. ASSUME SoundLayers(f)
      PROVE  SoundLayers(g)
  <2>1. /\ "layers.json" \in DOMAIN f /\ g["layers.json"] = f["layers.json"]
        /\ LayersParse(g)
    BY <1>2, <1>8 DEF SoundLayers, LayersParse, Parsed
  <2>2. \A m \in ToSet(a) : \E n \in ToSet(b) : SameChecks(m, n)
    <3> HIDE DEF a, b
    <3> QED BY <1>6 DEF ToSet
  <2>3. ASSUME NEW l \in ToSet(f["layers.json"])
        PROVE  \E m \in ToSet(b) : l.namespace \in m.namespaces
    <3>1. PICK m \in ToSet(a) : l.namespace \in m.namespaces
      BY <1>8 DEF SoundLayers
    <3>2. PICK n \in ToSet(b) : SameChecks(m, n)
      BY <2>2
    <3> QED BY <3>1, <3>2 DEF SameChecks
  <2> HIDE DEF b
  <2> QED BY <1>8, <2>1, <2>3 DEF SoundLayers, b
<1> QED BY <1>3, <1>5, <1>7, <1>8 DEF g

------------------------------------------------------------------------------
(* Layers in the order of their names.                                     *)

LEMMA RankNamesLayer ==
    ASSUME NEW l, l.name \in ToSet(LayerNames)
    PROVE  Rank(l) \in 1..5 /\ LayerNames[Rank(l)] = l.name
<1>1. DOMAIN LayerNames = 1..5
  BY DEF LayerNames
<1>2. \E i \in DOMAIN LayerNames : LayerNames[i] = l.name
  <2> HIDE DEF LayerNames
  <2> QED BY DEF ToSet
<1> HIDE DEF LayerNames
<1> QED BY <1>1, <1>2 DEF Rank

\* A file of layers that are known under different names.
NamedLayers ==
    /\ Layers \in Seq(ToSet(Layers)) /\ \A l \in ToSet(Layers) : l.priority \in Int
    /\ \A l \in ToSet(Layers) : l.name \in ToSet(LayerNames)
    /\ \A j, k \in DOMAIN Layers : j # k => Layers[j].name # Layers[k].name

\* The loop compares neighbours after sorting; that compares any two.
LEMMA AscendingIsOrder ==
    ASSUME NamedLayers
    PROVE  Ascending <=>
            \A j, k \in DOMAIN Layers : j # k =>
                (Rank(Layers[j]) < Rank(Layers[k])
                    <=> Layers[j].priority < Layers[k].priority)
<1> DEFINE n == Len(Layers)
           R(j) == Rank(Layers[j])
           P(j) == Layers[j].priority
           before == {jk \in (DOMAIN Layers) \X (DOMAIN Layers) :
                        Rank(Layers[jk[1]]) < Rank(Layers[jk[2]])}
           order == InOrder(DOMAIN Layers, before)
<1>1. /\ n \in Nat /\ DOMAIN Layers = 1..n
      /\ \A j \in 1..n : R(j) \in Nat /\ P(j) \in Int
      /\ \A j, k \in 1..n : R(j) = R(k) => j = k
  <2>1. n \in Nat /\ DOMAIN Layers = 1..n /\ \A j \in 1..n : Layers[j] \in ToSet(Layers)
    BY DEF NamedLayers, ToSet
  <2>2. \A j \in 1..n : R(j) \in Nat /\ LayerNames[R(j)] = Layers[j].name
    BY <2>1, RankNamesLayer DEF NamedLayers
  <2>3. \A j \in 1..n : P(j) \in Int
    BY <2>1 DEF NamedLayers
  <2>4. \A j, k \in 1..n : R(j) = R(k) => j = k
    <3> HIDE DEF R
    <3> QED BY <2>1, <2>2 DEF NamedLayers
  <2> QED BY <2>1, <2>2, <2>3, <2>4
<1>2. \A j, k \in 1..n : <<j, k>> \in before <=> R(j) < R(k)
  BY <1>1
<1> HIDE DEF R, n
<1>3. Strict(1..n, before)
  <2> HIDE DEF before
  <2>1. \A j \in 1..n : <<j, j>> \notin before
    BY <1>1, <1>2
  <2>2. \A j, k \in 1..n : j # k => <<j, k>> \in before \/ <<k, j>> \in before
    <3>1. \A j, k \in 1..n : j # k => R(j) # R(k)
      BY <1>1
    <3> QED BY <1>1, <1>2, <3>1
  <2>3. \A i, j, k \in 1..n :
          <<i, j>> \in before /\ <<j, k>> \in before => <<i, k>> \in before
    BY <1>1, <1>2
  <2> QED BY <2>1, <2>2, <2>3 DEF Strict
<1>4. IsFiniteSet(1..n) /\ Cardinality(1..n) = n
  <2>1. 1 \in Int /\ n \in Int
    BY <1>1
  <2>2. IsFiniteSet(1..n) /\ Cardinality(1..n) = IF 1 > n THEN 0 ELSE n - 1 + 1
    BY <2>1, FS_Interval
  <2> QED BY <1>1, <2>2
<1>5. /\ order \in [1..n -> 1..n]
      /\ \A x \in 1..n : \E k \in 1..n : order[k] = x
      /\ \A j, k \in 1..n : j < k <=> <<order[j], order[k]>> \in before
  <2>1. order = InOrder(1..n, before)
    BY <1>1
  <2> HIDE DEF order, before
  <2> QED BY <1>3, <1>4, <2>1, InOrderSorts
<1>6. Canonical = [k \in 1..n |-> Layers[order[k]]]
  BY <1>1 DEF Canonical
<1> HIDE DEF before
<1> HIDE DEF order
<1>7. \A k \in 1..n : Canonical[k].priority = P(order[k]) /\ order[k] \in 1..n
  BY <1>5, <1>6
<1>8. Ascending <=> \A j \in 2..n : P(order[j - 1]) < P(order[j])
  <2>1. \A j \in 2..n : j - 1 \in 1..n /\ j \in 1..n
    BY <1>1
  <2>2. Ascending <=> \A j \in 2..n : Canonical[j - 1].priority < Canonical[j].priority
    BY DEF Ascending, n
  <2>3. \A j \in 2..n : /\ Canonical[j - 1].priority = P(order[j - 1])
                        /\ Canonical[j].priority = P(order[j])
    BY <1>7, <2>1
  <2> HIDE DEF P
  <2> QED BY <2>2, <2>3
<1>9. \A j, k \in 1..n : j < k <=> R(order[j]) < R(order[k])
  BY <1>2, <1>5
<1> HIDE DEF P
<1>10. ASSUME \A j, k \in 1..n : j # k => (R(j) < R(k) <=> P(j) < P(k)), NEW j \in 2..n
       PROVE  P(order[j - 1]) < P(order[j])
  <2>1. j - 1 \in 1..n /\ j \in 1..n /\ j - 1 < j
    BY <1>1
  <2>2. R(order[j - 1]) < R(order[j]) /\ order[j - 1] \in 1..n /\ order[j] \in 1..n
    BY <1>7, <1>9, <2>1
  <2>3. order[j - 1] # order[j]
    BY <1>1, <2>2
  <2> QED BY <1>10, <2>2, <2>3
<1>11. ASSUME \A j \in 2..n : P(order[j - 1]) < P(order[j]),
              NEW a \in 1..n, NEW b \in 1..n, a # b
       PROVE  R(a) < R(b) <=> P(a) < P(b)
  <2> DEFINE Q(k) == P(order[k])
             T == {d \in Nat : \A i, j \in 1..n : j = i + d + 1 => Q(i) < Q(j)}
  <2>0. \A k \in 1..n : Q(k) \in Int
    BY <1>1, <1>7
  <2>00. \A j \in 2..n : Q(j - 1) < Q(j)
    BY <1>11
  <2> HIDE DEF Q
  <2>1. 0 \in T
    <3>1. ASSUME NEW i \in 1..n, NEW j \in 1..n, j = i + 0 + 1
          PROVE  Q(i) < Q(j)
      <4>1. j \in 2..n /\ j - 1 = i
        BY <1>1, <3>1
      <4> QED BY <2>00, <4>1
    <3> QED BY <3>1
  <2>2. ASSUME NEW d \in Nat, d \in T
        PROVE  d + 1 \in T
    <3>1. ASSUME NEW i \in 1..n, NEW j \in 1..n, j = i + (d + 1) + 1
          PROVE  Q(i) < Q(j)
      <4>1. j - 1 \in 1..n /\ j - 1 = i + d + 1 /\ j \in 2..n
        BY <1>1, <3>1
      <4>2. Q(i) < Q(j - 1) /\ Q(j - 1) < Q(j)
        BY <2>00, <2>2, <4>1
      <4> QED BY <2>0, <4>1, <4>2
    <3> QED BY <2>2, <3>1
  <2>3. \A d \in Nat : d \in T
    <3> HIDE DEF T
    <3> QED BY <2>1, <2>2, Induction
  <2>4. ASSUME NEW i \in 1..n, NEW j \in 1..n, i < j
        PROVE  Q(i) < Q(j)
    <3>1. j - i - 1 \in Nat /\ j = i + (j - i - 1) + 1
      BY <1>1, <2>4
    <3> QED BY <2>3, <3>1
  <2>5. PICK i \in 1..n, j \in 1..n : a = order[i] /\ b = order[j]
    BY <1>5
  <2>6. i \in Nat /\ j \in Nat /\ i # j
    BY <1>11, <2>5
  <2>7. P(a) = Q(i) /\ P(b) = Q(j)
    BY <2>5 DEF Q
  <2>8. R(a) \in Nat /\ R(b) \in Nat /\ Q(i) \in Int /\ Q(j) \in Int
    BY <1>1, <2>0
  <2>9. CASE i < j
    <3>1. R(a) < R(b) /\ Q(i) < Q(j)
      BY <1>9, <2>4, <2>5, <2>9
    <3> QED BY <2>7, <3>1
  <2>10. CASE j < i
    <3>1. R(b) < R(a) /\ Q(j) < Q(i)
      BY <1>9, <2>4, <2>5, <2>10
    <3> QED BY <2>7, <2>8, <3>1
  <2> QED BY <2>6, <2>9, <2>10
<1> QED BY <1>1, <1>8, <1>10, <1>11 DEF R, P

------------------------------------------------------------------------------
(* The inductive invariant of reading, inspecting and building.            *)

\* The types, and what the archive and the files have to do with each other.
BundleTyped ==
    /\ job \in {"build", "read", "reread"}
    /\ phase \in {"entries", "inspect", "dependencies", "layers", "seal", "done"}
    /\ at \in Nat \ {0}
    /\ outcome \in Failures \cup {"none", "accepted"}
    /\ IsArchive(archive) /\ Holds(files)
    /\ job = "read" => archive \in Archives
    /\ job = "build" => files \in Directories /\ phase # "entries" /\ outcome # "accepted"
    /\ job # "build" =>
        /\ files = [n \in DOMAIN files |-> files[n]]
        /\ DOMAIN files \subseteq NamesOf(archive)
        /\ Cardinality(DOMAIN files) <= MaxFiles

Taken == 1..(at - 1)
AllSafe(a) == \A e \in ToSet(a) : Safe(e)

\* The entries before the next are among the files, and nothing else is.
TakenIn ==
    /\ at <= Len(archive) + 1
    /\ \A j, k \in Taken : archive[j].name = archive[k].name => j = k
    /\ \A j \in Taken : Safe(archive[j]) /\ files[archive[j].name] = archive[j].content
    /\ DOMAIN files = {archive[j].name : j \in Taken}

Complete == Single(archive) /\ AllSafe(archive) /\ files = AsFiles(archive)

\* What Inspect has established when it calls ValidateDependencies, and after that.
Checked ==
    /\ ~Misnamed(files) /\ WithinLimits(files)
    /\ ManifestsParse(files) /\ manifests = AllManifests(files)

Passing == pc = "done" /\ verdict = "accepted" /\ Manifest.signing /\ LayersParse(files)

LayersTakenIn ==
    /\ at <= Len(Layers) + 1
    /\ \A j \in Taken :
        /\ Layers[j].name \in ToSet(LayerNames) /\ NamespaceMatches(Layers[j].namespace)
        /\ \E m \in Given : Layers[j].namespace \in m.namespaces
    /\ \A j, k \in Taken : j # k =>
        /\ Layers[j].name # Layers[k].name /\ Layers[j].priority # Layers[k].priority
        /\ ~Overlap(Layers[j].namespace, Layers[k].namespace)

Explained == Parsed(files, "reasons.json") /\ Parsed(files, "data.json")

Deserved ==
    /\ Manifest.signing /\ Compatible /\ Distinct /\ Apart /\ PinsMet /\ Acyclic
    /\ LayersSound /\ Explained /\ Matches(files)

\* Every refusal has a ground, in the archive or in what was read of it.
TooMuch(a) == Cardinality(NamesOf(a)) > MaxFiles \/ Size(AsFiles(a)) > MaxBytes

Refusable(code) ==
    \/ ~Single(archive)
    \/ code = "invalid_path" /\ ~AllSafe(archive)
    \/ code = "bundle_limit" /\ DOMAIN files # NamesOf(archive) /\ TooMuch(archive)
    \/ /\ code = "bundle_limit" /\ files = AsFiles(archive) /\ AllSafe(archive)
       /\ ~WithinLimits(files)
    \/ files = AsFiles(archive) /\ ~ManifestsParse(files)
    \/ /\ files = AsFiles(archive) /\ ManifestsParse(files)
       /\ manifests = AllManifests(files) /\ ~Deserved

Progress ==
    /\ phase = "entries" => TakenIn
    /\ phase \in {"inspect", "dependencies", "layers", "seal"} /\ job # "build" => Complete
    /\ phase \in {"dependencies", "layers", "seal"} => Checked
    /\ phase \in {"layers", "seal"} => Passing
    /\ phase = "layers" => LayersTakenIn
    /\ phase = "seal" => LayersSound /\ Explained
    /\ phase = "done" /\ job # "build" =>
        IF outcome = "accepted" THEN Complete /\ Checked /\ Deserved ELSE Refusable(outcome)

\* What was built would be accepted, but for its size or that of its manifest.
Acceptable(a) ==
    LET f == AsFiles(a)
        m == f["manifest.json"] IN
    /\ Single(a)
    /\ \A e \in ToSet(a) : e.regular /\ e.name \notin Unsafe
    /\ \A n \in DOMAIN f \ {"manifest.json"} : Short(n, f[n])
    /\ Countable(f) /\ Cardinality(DOMAIN f \cap Modules) \in 1..MaxModules
    /\ ManifestsParse(f) /\ m.signing /\ m.form = "canonical" /\ Matches(f)
    /\ ValidList(AllManifests(f)) /\ SoundLayers(f)
    /\ Parsed(f, "reasons.json") /\ Parsed(f, "data.json")

Rebuilt == job = "reread" => Acceptable(archive)

BundleInv == Inv /\ BundleTyped /\ Progress /\ Rebuilt

------------------------------------------------------------------------------
LEMMA SafeFilesAreShort ==
    ASSUME NEW a, IsArchive(a), Single(a), AllSafe(a)
    PROVE  \A n \in DOMAIN AsFiles(a) : Short(n, AsFiles(a)[n])
<1>1. TAKE n \in DOMAIN AsFiles(a)
<1>2. PICK j \in 1..Len(a) : n = a[j].name
  BY ArchiveFiles
<1>3. a[j] \in ToSet(a) /\ AsFiles(a)[n] = a[j].content
  BY <1>2, ArchiveFiles
<1> QED BY <1>2, <1>3 DEF AllSafe, Safe

LEMMA Unmoved ==
    ASSUME UNCHANGED <<archive, files, vars>>
    PROVE  /\ Given' = Given /\ Manifest' = Manifest /\ Layers' = Layers
           /\ Complete' = Complete /\ Checked' = Checked /\ Passing' = Passing
           /\ LayersSound' = LayersSound /\ Explained' = Explained
           /\ Deserved' = Deserved
           /\ \A code : Refusable(code)' = Refusable(code)
<1>1. /\ archive' = archive /\ files' = files /\ manifests' = manifests
      /\ pc' = pc /\ verdict' = verdict
  BY DEF vars
<1>2. Given' = Given /\ Manifest' = Manifest /\ Layers' = Layers
  BY <1>1 DEF Given, Manifest, Layers
<1>3. Complete' = Complete /\ Checked' = Checked /\ Passing' = Passing
  BY <1>1, <1>2 DEF Complete, Checked, Passing
<1>4. LayersSound' = LayersSound /\ Explained' = Explained
  BY <1>1, <1>2 DEF LayersSound, HasBaseline, Explained
<1>5. /\ Compatible' = Compatible /\ Distinct' = Distinct /\ Apart' = Apart
      /\ PinsMet' = PinsMet /\ Acyclic' = Acyclic
  BY <1>1, <1>2 DEF Compatible, Distinct, Apart, PinsMet, Acyclic
<1>6. Deserved' = Deserved
  BY <1>1, <1>2, <1>4, <1>5 DEF Deserved
<1>7. \A code : Refusable(code)' = Refusable(code)
  BY <1>1, <1>6 DEF Refusable
<1> QED BY <1>2, <1>3, <1>4, <1>6, <1>7

\* Steps that leave the archive and the files alone keep their types.
LEMMA TypesKept ==
    ASSUME BundleTyped, UNCHANGED <<job, archive, files>>,
           phase' \in {"inspect", "dependencies", "layers", "seal", "done"},
           at' \in Nat \ {0}, outcome' \in Failures \cup {"none", "accepted"}, job = "build" => outcome' # "accepted"
    PROVE  BundleTyped'
BY DEF BundleTyped

LEMMA RebuiltKept ==
    ASSUME Rebuilt, UNCHANGED <<job, archive>>
    PROVE  Rebuilt'
BY DEF Rebuilt

LEMMA ExitStep ==
    ASSUME BundleInv, NEW code \in Failures \cup {"none", "accepted"}, Exit(code),
           code = "accepted" => job # "build" /\ Complete /\ Checked /\ Deserved,
           code # "accepted" /\ job # "build" => Refusable(code)
    PROVE  BundleTyped' /\ Progress' /\ Rebuilt'
<1>1. UNCHANGED <<job, archive, files>> /\ UNCHANGED <<archive, files, vars>>
      /\ phase' = "done" /\ outcome' = code /\ at' = at
  BY DEF Exit
<1>2. BundleTyped' /\ Rebuilt'
  BY <1>1, TypesKept, RebuiltKept DEF BundleInv, BundleTyped
<1>3. /\ Complete' = Complete /\ Checked' = Checked /\ Deserved' = Deserved
      /\ Refusable(code)' = Refusable(code)
  BY <1>1, Unmoved
<1>4. Refusable(outcome)' = Refusable(code)'
  BY <1>1 DEF Refusable
<1>5. IF outcome' = "accepted" THEN job' # "build" /\ Complete' /\ Checked' /\ Deserved'
      ELSE job' # "build" => Refusable(outcome)'
  BY <1>1, <1>3, <1>4
<1>6. Progress'
  BY <1>1, <1>5 DEF Progress
<1> QED BY <1>2, <1>6

LEMMA RefusalStep ==
    ASSUME BundleInv, NEW code \in Failures, Exit(code),
           job # "build" => Refusable(code)
    PROVE  BundleTyped' /\ Progress' /\ Rebuilt'
<1>1. code # "accepted"
  BY DEF Failures, Codes
<1>2. code \in Failures \cup {"none", "accepted"}
  OBVIOUS
<1>3. /\ code = "accepted" => job # "build" /\ Complete /\ Checked /\ Deserved
      /\ code # "accepted" /\ job # "build" => Refusable(code)
  BY <1>1
<1> QED BY <1>2, <1>3, ExitStep

------------------------------------------------------------------------------
(* Reading an archive, entry by entry.                                     *)

\* The entry to be read.
LEMMA EntryFacts ==
    ASSUME BundleInv, Reading
    PROVE  /\ job # "build" /\ TakenIn /\ IsArchive(archive) /\ phase = "entries"
           /\ Len(archive) \in Nat /\ DOMAIN archive = 1..Len(archive)
           /\ at \in 1..Len(archive) /\ Taken \subseteq 1..Len(archive) /\ at \notin Taken
           /\ Entry = archive[at] /\ Entry \in ToSet(archive)
           /\ IsContent(Entry.name, Entry.content)
           /\ Sized(files) /\ Size(files) \in Nat
           /\ IsFiniteSet(NamesOf(archive)) /\ Sized(AsFiles(archive))
           /\ FileSize(Entry.name, Entry.content) \in Nat
           /\ Size(AsFiles(archive)) \in Nat
<1>1. /\ job # "build" /\ TakenIn /\ IsArchive(archive) /\ phase = "entries" /\ Holds(files)
      /\ at \in Nat \ {0} /\ at <= Len(archive)
  BY DEF BundleInv, BundleTyped, Progress, Reading
<1>2. /\ Len(archive) \in Nat /\ DOMAIN archive = 1..Len(archive)
      /\ \A j \in 1..Len(archive) : archive[j] \in ToSet(archive)
      /\ DOMAIN AsFiles(archive) = NamesOf(archive) /\ Holds(AsFiles(archive))
  BY <1>1, ArchiveFiles
<1>3. at \in 1..Len(archive) /\ Taken \subseteq 1..Len(archive) /\ at \notin Taken
  BY <1>1, <1>2 DEF Taken
<1>4. Entry = archive[at] /\ Entry \in ToSet(archive)
  BY <1>2, <1>3 DEF Entry
<1>5. IsContent(Entry.name, Entry.content)
  BY <1>1, <1>4 DEF IsArchive
<1>6. Sized(files) /\ Sized(AsFiles(archive)) /\ IsFiniteSet(NamesOf(archive))
  BY <1>1, <1>2, HeldIsSized DEF Sized
<1>7. Size(files) \in Nat /\ Size(AsFiles(archive)) \in Nat
  BY <1>6, SizeIsCounted
<1>8. FileSize(Entry.name, Entry.content) \in Nat
  BY <1>5 DEF IsContent
<1> QED BY <1>1, <1>2, <1>3, <1>4, <1>5, <1>6, <1>7, <1>8

LEMMA EntryUnsafeStep ==
    ASSUME BundleInv, EntryUnsafe
    PROVE  BundleTyped' /\ Progress' /\ Rebuilt'
<1>1. ~AllSafe(archive)
  BY EntryFacts DEF EntryUnsafe, AllSafe
<1>2. Refusable("invalid_path")
  BY <1>1 DEF Refusable
<1> QED BY <1>2, RefusalStep DEF EntryUnsafe, Failures

LEMMA EntryTwiceStep ==
    ASSUME BundleInv, EntryTwice
    PROVE  BundleTyped' /\ Progress' /\ Rebuilt'
<1>1. PICK j \in Taken : archive[j].name = archive[at].name
  BY EntryFacts DEF EntryTwice, TakenIn
<1>2. ~Single(archive)
  BY <1>1, EntryFacts DEF EntryTwice, Single
<1>3. Refusable("duplicate_file")
  BY <1>2 DEF Refusable
<1> QED BY <1>3, RefusalStep DEF EntryTwice, Failures

\* With the entry, the files are still some of those in the archive.
LEMMA AddedIsThere ==
    ASSUME BundleInv, Reading, Single(archive), Entry.name \notin DOMAIN files
    PROVE  LET h == Added(files, Entry.name, Entry.content)
               g == AsFiles(archive)
           IN  DOMAIN h \subseteq DOMAIN g /\ \A n \in DOMAIN h : h[n] = g[n]
<1> DEFINE h == Added(files, Entry.name, Entry.content)
           g == AsFiles(archive)
<1>1. /\ DOMAIN g = NamesOf(archive) /\ NamesOf(archive) = {archive[j].name : j \in 1..Len(archive)}
      /\ \A j \in 1..Len(archive) : g[archive[j].name] = archive[j].content
  BY EntryFacts, ArchiveFiles
<1>2. /\ DOMAIN h = DOMAIN files \cup {Entry.name} /\ h[Entry.name] = Entry.content
      /\ \A n \in DOMAIN files : h[n] = files[n]
  BY DEF Added
<1>3. /\ DOMAIN files = {archive[j].name : j \in Taken}
      /\ \A j \in Taken : files[archive[j].name] = archive[j].content
  BY EntryFacts DEF TakenIn
<1>4. /\ Entry = archive[at] /\ at \in 1..Len(archive) /\ Taken \subseteq 1..Len(archive)
  BY EntryFacts
<1> HIDE DEF g, h
<1>5. \A n \in DOMAIN files : n \in DOMAIN g /\ files[n] = g[n]
  BY <1>1, <1>3, <1>4
<1>6. Entry.name \in DOMAIN g /\ g[Entry.name] = Entry.content
  BY <1>1, <1>4
<1> QED BY <1>2, <1>5, <1>6 DEF g, h

LEMMA EntryTooMuchStep ==
    ASSUME BundleInv, EntryTooMuch
    PROVE  BundleTyped' /\ Progress' /\ Rebuilt'
<1> DEFINE h == Added(files, Entry.name, Entry.content)
<1>1. /\ Reading /\ Entry.name \notin DOMAIN files /\ ~Fits(files, Entry)
      /\ Exit("bundle_limit")
  BY DEF EntryTooMuch
<1>2. ASSUME Single(archive)
      PROVE  DOMAIN files # NamesOf(archive) /\ TooMuch(archive)
  <2>1. /\ DOMAIN AsFiles(archive) = NamesOf(archive) /\ DOMAIN h \subseteq NamesOf(archive)
        /\ \A n \in DOMAIN h : h[n] = AsFiles(archive)[n]
    BY <1>1, <1>2, AddedIsThere, ArchiveFiles, EntryFacts
  <2>2. DOMAIN h = DOMAIN files \cup {Entry.name}
    BY DEF Added
  <2>3. CASE ~(Cardinality(DOMAIN files) < MaxFiles)
    <3>1. /\ IsFiniteSet(DOMAIN h)
          /\ Cardinality(DOMAIN h) = Cardinality(DOMAIN files) + 1
          /\ Cardinality(DOMAIN files) \in Nat
      BY <1>1, <2>2, EntryFacts, FS_AddElement, FS_CardinalityType DEF Sized
    <3>2. Cardinality(DOMAIN h) <= Cardinality(NamesOf(archive))
      BY <1>1, <2>1, EntryFacts, FS_Subset
    <3>3. Cardinality(NamesOf(archive)) \in Nat
      BY <1>1, EntryFacts, FS_CardinalityType
    <3> HIDE DEF h
    <3>4. Cardinality(NamesOf(archive)) > MaxFiles
      BY <2>3, <3>1, <3>2, <3>3, Limits
    <3> QED BY <1>1, <2>1, <2>2, <3>4 DEF TooMuch
  <2>4. CASE ~(Size(files) + FileSize(Entry.name, Entry.content) <= MaxBytes)
    <3>1. Size(h) = Size(files) + FileSize(Entry.name, Entry.content)
      BY <1>1, SizeAdds, EntryFacts
    <3>2. Size(h) <= Size(AsFiles(archive))
      <4> HIDE DEF h
      <4> QED BY <1>1, <2>1, SizeGrows, EntryFacts
    <3> HIDE DEF h
    <3>3. Size(AsFiles(archive)) > MaxBytes
      BY <1>1, <2>4, <3>1, <3>2, EntryFacts, Limits
    <3> QED BY <1>1, <2>1, <2>2, <3>3 DEF TooMuch
  <2> QED BY <1>1, <2>3, <2>4 DEF Fits
<1>3. Refusable("bundle_limit")
  BY <1>2 DEF Refusable
<1> QED BY <1>1, <1>3, RefusalStep DEF Failures

LEMMA ReadEntryStep ==
    ASSUME BundleInv, ReadEntry
    PROVE  BundleTyped' /\ Progress' /\ Rebuilt'
<1> DEFINE h == Added(files, Entry.name, Entry.content)
<1>1. /\ Reading /\ Safe(Entry) /\ Entry.name \notin DOMAIN files /\ Fits(files, Entry)
      /\ files' = h /\ at' = at + 1 /\ UNCHANGED <<job, phase, archive, outcome, vars>>
  BY DEF ReadEntry, Added
<1>2. /\ DOMAIN h = DOMAIN files \cup {Entry.name} /\ h[Entry.name] = Entry.content
      /\ \A n \in DOMAIN files : h[n] = files[n]
  BY <1>1 DEF Added
<1>0. h = [n \in DOMAIN h |-> h[n]]
  BY DEF Added
<1> HIDE DEF h
<1>3. Cardinality(DOMAIN h) <= MaxFiles
  <2>1. /\ Cardinality(DOMAIN h) = Cardinality(DOMAIN files) + 1
        /\ Cardinality(DOMAIN files) \in Nat
    BY <1>1, <1>2, EntryFacts, FS_AddElement, FS_CardinalityType DEF Sized
  <2> QED BY <1>1, <2>1, Limits DEF Fits
<1>4. Holds(h)
  BY <1>1, <1>2, EntryFacts DEF BundleInv, BundleTyped, Holds
<1>5. DOMAIN h \subseteq NamesOf(archive)
  <2>1. Entry.name \in NamesOf(archive)
    BY <1>1, EntryFacts DEF NamesOf
  <2> QED BY <1>1, <1>2, <2>1, EntryFacts DEF BundleInv, BundleTyped
<1>6. BundleTyped'
  BY <1>0, <1>1, <1>3, <1>4, <1>5, EntryFacts DEF BundleInv, BundleTyped, Holds
<1>7. TakenIn'
  <2>1. Taken' = Taken \cup {at}
    BY <1>1, EntryFacts DEF Taken
  <2>2. at' <= Len(archive') + 1
    BY <1>1, EntryFacts
  <2>3. /\ \A j, k \in Taken : archive[j].name = archive[k].name => j = k
        /\ \A j \in Taken : Safe(archive[j]) /\ files[archive[j].name] = archive[j].content
        /\ DOMAIN files = {archive[j].name : j \in Taken}
    BY <1>1, EntryFacts DEF TakenIn
  <2>4. Entry = archive[at]
    BY DEF Entry
  <2>5. \A j, k \in Taken' : archive[j].name = archive[k].name => j = k
    BY <1>1, <2>1, <2>3, <2>4
  <2>6. \A j \in Taken' : Safe(archive[j]) /\ h[archive[j].name] = archive[j].content
    BY <1>1, <1>2, <2>1, <2>3, <2>4
  <2>7. DOMAIN h = {archive[j].name : j \in Taken'}
    BY <1>2, <2>1, <2>3, <2>4
  <2> QED BY <1>1, <2>2, <2>5, <2>6, <2>7 DEF TakenIn, Safe
<1>8. Progress' /\ Rebuilt'
  BY <1>1, <1>7, EntryFacts, RebuiltKept DEF Progress, BundleInv
<1> QED BY <1>6, <1>8

LEMMA EndOfArchiveStep ==
    ASSUME BundleInv, EndOfArchive
    PROVE  BundleTyped' /\ Progress' /\ Rebuilt'
<1>1. /\ phase = "entries" /\ at > Len(archive) /\ phase' = "inspect" /\ at' = 1
      /\ UNCHANGED <<job, archive, files, outcome, vars>>
  BY DEF EndOfArchive, Goto
<1>2. /\ BundleTyped /\ TakenIn /\ job # "build" /\ IsArchive(archive) /\ at \in Nat \ {0}
  BY <1>1 DEF BundleInv, BundleTyped, Progress
<1>3. /\ Len(archive) \in Nat /\ DOMAIN archive = 1..Len(archive)
      /\ \A e \in ToSet(archive) : \E j \in 1..Len(archive) : e = archive[j]
      /\ NamesOf(archive) = {archive[j].name : j \in 1..Len(archive)}
      /\ AsFiles(archive) = [n \in NamesOf(archive) |-> AsFiles(archive)[n]]
      /\ Single(archive) => \A j \in 1..Len(archive) :
                                AsFiles(archive)[archive[j].name] = archive[j].content
  BY <1>2, ArchiveFiles
<1>4. Taken = 1..Len(archive)
  BY <1>1, <1>2, <1>3 DEF TakenIn, Taken
<1>5. Single(archive) /\ AllSafe(archive)
  BY <1>2, <1>3, <1>4 DEF TakenIn, Single, AllSafe
<1>6. files = AsFiles(archive)
  <2>1. DOMAIN files = NamesOf(archive) /\ files = [n \in DOMAIN files |-> files[n]]
    BY <1>2, <1>3, <1>4 DEF TakenIn, BundleTyped
  <2>2. \A n \in NamesOf(archive) : files[n] = AsFiles(archive)[n]
    BY <1>2, <1>3, <1>4, <1>5 DEF TakenIn
  <2> QED BY <1>3, <2>1, <2>2
<1>7. Complete'
  BY <1>1, <1>5, <1>6, Unmoved DEF Complete
<1>8. BundleTyped' /\ Rebuilt'
  BY <1>1, <1>2, TypesKept, RebuiltKept DEF BundleInv, BundleTyped
<1> QED BY <1>1, <1>7, <1>8 DEF Progress

------------------------------------------------------------------------------
(* Inspecting the files.                                                   *)

\* Inspect is called with all files of an archive.
LEMMA FilesMisnamedStep ==
    ASSUME BundleInv, FilesMisnamed
    PROVE  BundleTyped' /\ Progress' /\ Rebuilt'
<1>1. phase = "inspect" /\ Misnamed(files) /\ Exit("invalid_path")
  BY DEF FilesMisnamed
<1>2. ASSUME job # "build", AllSafe(archive)
      PROVE  FALSE
  <2>1. files = AsFiles(archive) /\ IsArchive(archive)
    BY <1>1, <1>2 DEF BundleInv, Progress, BundleTyped, Complete
  <2>2. DOMAIN files = NamesOf(archive)
    BY <2>1, ArchiveFiles
  <2> QED BY <1>1, <1>2, <2>2 DEF Misnamed, NamesOf, AllSafe, Safe
<1>3. job # "build" => Refusable("invalid_path")
  BY <1>2 DEF Refusable
<1> QED BY <1>1, <1>3, RefusalStep DEF Failures

LEMMA FilesOverLimitsStep ==
    ASSUME BundleInv, FilesOverLimits
    PROVE  BundleTyped' /\ Progress' /\ Rebuilt'
<1>1. phase = "inspect" /\ ~WithinLimits(files) /\ Exit("bundle_limit")
  BY DEF FilesOverLimits
<1>2. job # "build" => Refusable("bundle_limit")
  BY <1>1 DEF BundleInv, Progress, Complete, Refusable
<1> QED BY <1>1, <1>2, RefusalStep DEF Failures

LEMMA ManifestMalformedStep ==
    ASSUME BundleInv, ManifestMalformed
    PROVE  BundleTyped' /\ Progress' /\ Rebuilt'
<1>1. phase = "inspect" /\ ~ManifestsParse(files) /\ Exit("invalid_manifest")
  BY DEF ManifestMalformed
<1>2. job # "build" => Refusable("invalid_manifest")
  BY <1>1 DEF BundleInv, Progress, Complete, Refusable
<1> QED BY <1>1, <1>2, RefusalStep DEF Failures

LEMMA CallDependenciesStep ==
    ASSUME BundleInv, CallDependencies
    PROVE  BundleTyped' /\ Progress' /\ Rebuilt'
<1>1. /\ phase = "inspect" /\ ~Misnamed(files) /\ WithinLimits(files)
      /\ ManifestsParse(files) /\ manifests' = AllManifests(files)
      /\ phase' = "dependencies" /\ at' = 1 /\ UNCHANGED <<job, archive, files, outcome>>
  BY DEF CallDependencies, Goto, ValidateDependencies
<1>2. BundleTyped' /\ Rebuilt'
  BY <1>1, TypesKept, RebuiltKept DEF BundleInv, BundleTyped
<1>3. job # "build" => Complete'
  BY <1>1 DEF BundleInv, Progress, Complete
<1>4. Checked'
  BY <1>1 DEF Checked
<1> QED BY <1>1, <1>2, <1>3, <1>4 DEF Progress

LEMMA StepDependenciesStep ==
    ASSUME BundleInv, StepDependencies
    PROVE  BundleTyped' /\ Progress' /\ Rebuilt'
<1>1. /\ phase = "dependencies" /\ UNCHANGED <<job, phase, archive, at, files, outcome>>
      /\ manifests' = manifests
  BY DEF StepDependencies, bundleVars, Next, Incompatible, RegisteredTwice,
         NamespaceTaken, Register, StartSearch, VisitRoot, PinUnmet, PinOpen, PinVisited,
         PinNew, Visited, Accept, Return
<1>2. BundleTyped' /\ Rebuilt'
  BY <1>1, TypesKept, RebuiltKept DEF BundleInv, BundleTyped
<1>3. /\ job # "build" => Complete' 
      /\ Checked'
  BY <1>1 DEF BundleInv, Progress, Complete, Checked
<1> QED BY <1>1, <1>2, <1>3 DEF Progress

\* A refusal of manifests that parse.
LEMMA Undeserved ==
    ASSUME BundleInv, NEW code \in Failures, Exit(code),
           phase \in {"dependencies", "layers", "seal"}, ~Deserved
    PROVE  BundleTyped' /\ Progress' /\ Rebuilt'
<1>1. job # "build" => Refusable(code)
  BY DEF BundleInv, Progress, Complete, Checked, Refusable
<1> QED BY <1>1, RefusalStep

LEMMA DependenciesRefusedStep ==
    ASSUME BundleInv, DependenciesRefused
    PROVE  BundleTyped' /\ Progress' /\ Rebuilt'
<1>1. /\ phase = "dependencies" /\ pc = "done" /\ verdict # "accepted" /\ Exit(verdict)
  BY DEF DependenciesRefused
<1>2. verdict \in Codes
  BY <1>1 DEF BundleInv, Inv, Typed
<1>3. ~Deserved
  BY <1>2 DEF BundleInv, Inv, Judged, CodeNamesCause, Codes, Deserved
<1> QED BY <1>1, <1>2, <1>3, Undeserved DEF Failures

LEMMA SignerRefusedStep ==
    ASSUME BundleInv, SignerRefused
    PROVE  BundleTyped' /\ Progress' /\ Rebuilt'
BY Undeserved DEF SignerRefused, Deserved, Failures

LEMMA LayersMalformedStep ==
    ASSUME BundleInv, LayersMalformed
    PROVE  BundleTyped' /\ Progress' /\ Rebuilt'
BY Undeserved DEF LayersMalformed, Deserved, LayersSound, Failures

------------------------------------------------------------------------------
(* The layers.                                                             *)

LEMMA LayerList ==
    ASSUME Holds(files), LayersParse(files)
    PROVE  /\ Layers \in Seq(ToSet(Layers)) /\ \A l \in ToSet(Layers) : l.priority \in Int
           /\ Len(Layers) \in Nat /\ DOMAIN Layers = 1..Len(Layers)
           /\ \A j \in 1..Len(Layers) : Layers[j] \in ToSet(Layers)
           /\ \A l \in ToSet(Layers) : \E j \in 1..Len(Layers) : l = Layers[j]
<1>1. Layers \in Seq(ToSet(Layers)) /\ \A l \in ToSet(Layers) : l.priority \in Int
  BY DEF Holds, LayersParse, Parsed, IsContent, Layers
<1> QED BY <1>1 DEF ToSet

LEMMA StartLayersStep ==
    ASSUME BundleInv, StartLayers
    PROVE  BundleTyped' /\ Progress' /\ Rebuilt'
<1>1. /\ phase = "dependencies" /\ phase' = "layers" /\ at' = 1
      /\ UNCHANGED <<job, archive, files, outcome, vars>>
      /\ Passing /\ LayersParse(files)
  BY DEF StartLayers, Goto, Passing
<1>2. BundleTyped' /\ Rebuilt'
  BY <1>1, TypesKept, RebuiltKept DEF BundleInv, BundleTyped
<1>3. (job # "build" => Complete') /\ Checked' /\ Passing'
  BY <1>1, Unmoved DEF BundleInv, Progress
<1>4. Layers' = Layers /\ Len(Layers) \in Nat
  BY <1>1, Unmoved, LayerList DEF BundleInv, BundleTyped
<1>5. LayersTakenIn'
  <2>1. Taken' = {}
    BY <1>1 DEF Taken
  <2> QED BY <1>1, <1>4, <2>1 DEF LayersTakenIn
<1> QED BY <1>1, <1>2, <1>3, <1>5 DEF Progress

LEMMA LayerFacts ==
    ASSUME BundleInv, phase = "layers"
    PROVE  /\ LayersTakenIn /\ LayersParse(files) /\ Passing /\ Checked
           /\ Len(Layers) \in Nat /\ DOMAIN Layers = 1..Len(Layers)
           /\ \A j \in 1..Len(Layers) :
                Layers[j] \in ToSet(Layers) /\ Layers[j].priority \in Int
           /\ \A l \in ToSet(Layers) : \E j \in 1..Len(Layers) : l = Layers[j]
           /\ at \in 1..(Len(Layers) + 1) /\ Taken \subseteq 1..Len(Layers)
           /\ ToSet(Before) = {Layers[j] : j \in Taken}
<1>1. LayersTakenIn /\ LayersParse(files) /\ Passing /\ Checked /\ at \in Nat \ {0}
      /\ Holds(files)
  BY DEF BundleInv, Progress, Passing, BundleTyped
<1>2. /\ Len(Layers) \in Nat /\ DOMAIN Layers = 1..Len(Layers)
      /\ Layers \in Seq(ToSet(Layers))
      /\ \A j \in 1..Len(Layers) :
            Layers[j] \in ToSet(Layers) /\ Layers[j].priority \in Int
      /\ \A l \in ToSet(Layers) : \E j \in 1..Len(Layers) : l = Layers[j]
  BY <1>1, LayerList
<1>3. at \in 1..(Len(Layers) + 1) /\ Taken \subseteq 1..Len(Layers)
  BY <1>1, <1>2 DEF LayersTakenIn, Taken
<1>4. ToSet(Before) = {Layers[j] : j \in Taken}
  <2>1. at - 1 \in 0..Len(Layers)
    BY <1>2, <1>3
  <2>2. /\ Before \in Seq(ToSet(Layers)) /\ Len(Before) = at - 1
        /\ \A k \in 1..(at - 1) : Before[k] = Layers[k]
    BY <1>2, <2>1, Prefix DEF Before
  <2>3. DOMAIN Before = Taken
    BY <2>2 DEF Taken
  <2> QED BY <2>2, <2>3 DEF ToSet, Taken
<1> QED BY <1>1, <1>2, <1>3, <1>4

LEMMA LayerUnknownStep ==
    ASSUME BundleInv, LayerUnknown
    PROVE  BundleTyped' /\ Progress' /\ Rebuilt'
<1>1. /\ phase = "layers" /\ at \in 1..Len(Layers) /\ ~LayerKnown(Layers[at])
      /\ Exit("invalid_layers")
  BY LayerFacts DEF LayerUnknown, InLayers, Layer
<1>2. ASSUME LayersSound
      PROVE  FALSE
  <2>1. \A l \in ToSet(Layers) : /\ l.name \in ToSet(LayerNames)
                                 /\ NamespaceMatches(l.namespace)
                                 /\ \E m \in Given : l.namespace \in m.namespaces
    BY <1>2 DEF LayersSound
  <2>2. PICK j \in Taken : \/ Layers[j].name = Layers[at].name
                           \/ Layers[j].priority = Layers[at].priority
    BY <1>1, <2>1, LayerFacts DEF LayerKnown
  <2>3. j \in 1..Len(Layers) /\ j # at
    BY <1>1, LayerFacts DEF Taken
  <2>4. /\ Layers[j].name # Layers[at].name
        /\ Rank(Layers[j]) < Rank(Layers[at]) <=> Layers[j].priority < Layers[at].priority
        /\ Rank(Layers[at]) < Rank(Layers[j]) <=> Layers[at].priority < Layers[j].priority
    BY <1>1, <1>2, <2>3, LayerFacts DEF LayersSound
  <2>5. /\ Rank(Layers[j]) \in 1..5 /\ LayerNames[Rank(Layers[j])] = Layers[j].name
        /\ Rank(Layers[at]) \in 1..5 /\ LayerNames[Rank(Layers[at])] = Layers[at].name
    BY <1>1, <2>1, <2>3, LayerFacts, RankNamesLayer
  <2>6. Rank(Layers[j]) # Rank(Layers[at])
    BY <2>4, <2>5
  <2>7. Layers[j].priority \in Int /\ Layers[at].priority \in Int
    BY <1>1, <2>3, LayerFacts
  <2> QED BY <2>2, <2>4, <2>5, <2>6, <2>7
<1> QED BY <1>1, <1>2, Undeserved DEF Deserved, Failures

LEMMA LayerCollidesStep ==
    ASSUME BundleInv, LayerCollides
    PROVE  BundleTyped' /\ Progress' /\ Rebuilt'
<1>1. /\ phase = "layers" /\ at \in 1..Len(Layers) /\ ~LayerApart(Layers[at])
      /\ Exit("namespace_collision")
  BY LayerFacts DEF LayerCollides, InLayers, Layer
<1>2. PICK j \in Taken : Overlap(Layers[j].namespace, Layers[at].namespace)
  BY <1>1, LayerFacts DEF LayerApart
<1>3. j \in 1..Len(Layers) /\ j # at
  BY <1>1, LayerFacts DEF Taken
<1>4. ~LayersSound
  BY <1>1, <1>2, <1>3, LayerFacts DEF LayersSound
<1> QED BY <1>1, <1>4, Undeserved DEF Deserved, Failures, Codes

LEMMA TakeLayerStep ==
    ASSUME BundleInv, TakeLayer
    PROVE  BundleTyped' /\ Progress' /\ Rebuilt'
<1>1. /\ phase = "layers" /\ at \in 1..Len(Layers)
      /\ LayerKnown(Layers[at]) /\ LayerApart(Layers[at])
      /\ at' = at + 1 /\ UNCHANGED <<job, phase, archive, files, outcome, vars>>
  BY LayerFacts DEF TakeLayer, InLayers, Layer
<1>2. BundleTyped' /\ Rebuilt'
  BY <1>1, LayerFacts, TypesKept, RebuiltKept DEF BundleInv, BundleTyped
<1>3. (job # "build" => Complete') /\ Checked' /\ Passing' /\ Layers' = Layers
      /\ Given' = Given
  BY <1>1, Unmoved DEF BundleInv, Progress
<1>4. LayersTakenIn'
  <2>1. Taken' = Taken \cup {at} /\ at' <= Len(Layers) + 1 /\ at \notin Taken
    BY <1>1, LayerFacts DEF Taken
  <2>2. /\ Layers[at].name \in ToSet(LayerNames) /\ NamespaceMatches(Layers[at].namespace)
        /\ \E m \in Given : Layers[at].namespace \in m.namespaces
        /\ \A j \in Taken : /\ Layers[j].name # Layers[at].name
                            /\ Layers[j].priority # Layers[at].priority
                            /\ ~Overlap(Layers[j].namespace, Layers[at].namespace)
    BY <1>1, LayerFacts DEF LayerKnown, LayerApart
  <2>3. \A j \in Taken : ~Overlap(Layers[at].namespace, Layers[j].namespace)
    BY <2>2 DEF Overlap
  <2>4. \A j \in Taken :
            /\ Layers[j].name \in ToSet(LayerNames) /\ NamespaceMatches(Layers[j].namespace)
            /\ \E m \in Given : Layers[j].namespace \in m.namespaces
    BY <1>1, LayerFacts DEF LayersTakenIn
  <2>5. \A j, k \in Taken : j # k =>
            /\ Layers[j].name # Layers[k].name /\ Layers[j].priority # Layers[k].priority
            /\ ~Overlap(Layers[j].namespace, Layers[k].namespace)
    BY <1>1, LayerFacts DEF LayersTakenIn
  <2>6. \A j \in Taken' :
            /\ Layers[j].name \in ToSet(LayerNames) /\ NamespaceMatches(Layers[j].namespace)
            /\ \E m \in Given : Layers[j].namespace \in m.namespaces
    BY <2>1, <2>2, <2>4
  <2>7. \A j, k \in Taken' : j # k =>
            /\ Layers[j].name # Layers[k].name /\ Layers[j].priority # Layers[k].priority
            /\ ~Overlap(Layers[j].namespace, Layers[k].namespace)
    BY <2>1, <2>2, <2>3, <2>5
  <2> QED BY <1>3, <2>1, <2>6, <2>7 DEF LayersTakenIn
<1> QED BY <1>1, <1>2, <1>3, <1>4 DEF Progress

\* When all layers are taken, they are known under different names, and apart.
LEMMA LayersAreTaken ==
    ASSUME BundleInv, LayersTaken
    PROVE  /\ NamedLayers /\ LayersParse(files)
           /\ \A l \in ToSet(Layers) : /\ NamespaceMatches(l.namespace)
                                      /\ \E m \in Given : l.namespace \in m.namespaces
           /\ \A j, k \in DOMAIN Layers :
                j # k => ~Overlap(Layers[j].namespace, Layers[k].namespace)
<1>1. phase = "layers" /\ at > Len(Layers)
  BY DEF LayersTaken
<1>2. Taken = 1..Len(Layers)
  BY <1>1, LayerFacts DEF Taken
<1>3. NamedLayers
  BY <1>1, <1>2, LayerFacts, LayerList
     DEF LayersTakenIn, NamedLayers, BundleInv, BundleTyped
<1> QED BY <1>1, <1>2, <1>3, LayerFacts DEF LayersTakenIn

LEMMA LayersEndStep ==
    ASSUME BundleInv, NoBaseline \/ NotAscending \/ ReasonsMalformed \/ DataMalformed
    PROVE  BundleTyped' /\ Progress' /\ Rebuilt'
<1>1. CASE NoBaseline
  BY <1>1, Undeserved DEF NoBaseline, LayersTaken, Deserved, LayersSound, Failures
<1>2. CASE NotAscending
  <2>1. ~LayersSound
    BY <1>2, LayersAreTaken, AscendingIsOrder DEF NotAscending, LayersSound
  <2> QED BY <1>2, <2>1, Undeserved DEF NotAscending, LayersTaken, Deserved, Failures
<1>3. CASE ReasonsMalformed
  BY <1>3, Undeserved DEF ReasonsMalformed, LayersTaken, Deserved, Explained, Failures
<1>4. CASE DataMalformed
  BY <1>4, Undeserved DEF DataMalformed, LayersTaken, Deserved, Explained, Failures
<1> QED BY <1>1, <1>2, <1>3, <1>4

LEMMA InspectedStep ==
    ASSUME BundleInv, Inspected
    PROVE  BundleTyped' /\ Progress' /\ Rebuilt'
<1>1. /\ LayersTaken /\ HasBaseline /\ Ascending /\ Explained
      /\ phase' = "seal" /\ at' = 1 /\ UNCHANGED <<job, archive, files, outcome, vars>>
  BY DEF Inspected, Goto, Explained
<1>2. LayersSound
  BY <1>1, LayersAreTaken, AscendingIsOrder DEF LayersSound, NamedLayers
<1>3. BundleTyped' /\ Rebuilt'
  BY <1>1, TypesKept, RebuiltKept DEF BundleInv, BundleTyped
<1>4. (job # "build" => Complete') /\ Checked' /\ Passing' /\ LayersSound' /\ Explained'
  BY <1>1, <1>2, Unmoved DEF BundleInv, Progress, LayersTaken
<1> QED BY <1>1, <1>3, <1>4 DEF Progress

------------------------------------------------------------------------------
(* Writing the sealed files, and all steps.                                *)

LEMMA WriteArchiveStep ==
    ASSUME BundleInv, WriteArchive
    PROVE  BundleTyped' /\ Progress' /\ Rebuilt'
<1> DEFINE g == Seal(files)
<1>1. /\ phase = "seal" /\ job = "build" /\ files \in Directories
      /\ archive' = EntriesOf(g) /\ job' = "reread" /\ phase' = "entries" /\ at' = 1
      /\ files' = <<>> /\ outcome' = outcome /\ Holds(files)
      /\ Checked /\ Passing /\ LayersSound /\ Explained
  BY DEF WriteArchive, BundleInv, BundleTyped, Progress
<1>2. /\ Parsed(files, "manifest.json") /\ ManifestsParse(files)
      /\ "manifest.json" \in DOMAIN files /\ HasFields(files["manifest.json"])
  BY <1>1 DEF Checked, ManifestsParse, Parsed, Holds, IsContent
<1>3. g["manifest.json"] # Malformed /\ IsContent("manifest.json", g["manifest.json"])
  BY <1>1, <1>2, Contents
<1>4. /\ DOMAIN g = DOMAIN files /\ g = [n \in DOMAIN g |-> g[n]] /\ Matches(g)
      /\ g["manifest.json"].form = "canonical"
      /\ \A n \in DOMAIN files : n # "manifest.json" => g[n] = files[n]
  BY <1>2, SealedMatches
<1>5. Holds(g)
  <2> HIDE DEF g
  <2> QED BY <1>1, <1>3, <1>4 DEF Holds
<1>6. /\ ManifestsParse(g) /\ ValidList(AllManifests(g)) /\ SoundLayers(g)
      /\ g["manifest.json"].signing
  <2>1. ValidList(AllManifests(files))
    BY <1>1, ValidManifests DEF BundleInv, Inv, Judged, Passing, Checked
  <2>2. SoundLayers(files)
    BY <1>1, SoundLayersHere DEF Checked
  <2> QED BY <1>1, <1>2, <1>3, <2>1, <2>2, SealedIsValid DEF Passing, Manifest
<1> HIDE DEF g
<1>7. /\ IsArchive(archive') /\ Single(archive') /\ NamesOf(archive') = DOMAIN files
      /\ AsFiles(archive') = g
      /\ \A e \in ToSet(archive') : e.regular /\ e.name \in DOMAIN files
  BY <1>1, <1>4, <1>5, EntriesAreFiles
<1>8. BundleTyped'
  <2>1. DOMAIN files' = {} /\ files' = [n \in DOMAIN files' |-> files'[n]]
    BY <1>1
  <2>2. Cardinality(DOMAIN files') <= MaxFiles
    BY <2>1, FS_EmptySet, Limits
  <2> QED BY <1>1, <1>7, <2>1, <2>2 DEF BundleTyped, BundleInv, Holds
<1>9. Progress'
  <2>1. Taken' = {} /\ DOMAIN files' = {}
    BY <1>1 DEF Taken
  <2>2. Len(archive') \in Nat
    BY <1>7, ArchiveFiles
  <2>3. TakenIn'
    BY <1>1, <2>1, <2>2 DEF TakenIn
  <2> QED BY <1>1, <2>3 DEF Progress
<1>10. Acceptable(archive')
  <2>1. \A e \in ToSet(archive') : e.regular /\ e.name \notin Unsafe
    BY <1>1, <1>7 DEF Checked, Misnamed
  <2>2. Countable(g) /\ Cardinality(DOMAIN g \cap Modules) \in 1..MaxModules
    BY <1>1, <1>4 DEF Checked, WithinLimits, Countable
  <2>3. Parsed(g, "reasons.json") /\ Parsed(g, "data.json")
    BY <1>1, <1>4 DEF Explained, Parsed
  <2>4. \A n \in DOMAIN g \ {"manifest.json"} : Short(n, g[n])
    BY <1>1, <1>4 DEF Checked, WithinLimits
  <2> QED BY <1>4, <1>6, <1>7, <2>1, <2>2, <2>3, <2>4 DEF Acceptable
<1>11. Rebuilt'
  BY <1>10 DEF Rebuilt
<1> QED BY <1>8, <1>9, <1>11

LEMMA SealStep ==
    ASSUME BundleInv, WriteArchiveFails \/ ChecksumDiffers \/ ArchiveRead
    PROVE  BundleTyped' /\ Progress' /\ Rebuilt'
<1>1. CASE WriteArchiveFails
  BY <1>1, RefusalStep DEF WriteArchiveFails, Failures
<1>2. CASE ChecksumDiffers
  BY <1>2, Undeserved DEF ChecksumDiffers, Deserved, Failures
<1>3. CASE ArchiveRead
  <2>1. phase = "seal" /\ job # "build" /\ Matches(files) /\ Exit("accepted")
    BY <1>3 DEF ArchiveRead
  <2>2. Complete /\ Checked /\ Passing /\ LayersSound /\ Explained
    BY <2>1 DEF BundleInv, Progress
  <2>3. Deserved
    BY <2>1, <2>2 DEF Deserved, Passing, BundleInv, Inv, Judged
  <2> QED BY <2>1, <2>2, <2>3, ExitStep
<1> QED BY <1>1, <1>2, <1>3

LEMMA BundleInvStep ==
    ASSUME BundleInv, [BundleNext]_<<bundleVars, vars>>
    PROVE  BundleInv'
<1>1. Inv'
  BY InvStep DEF BundleInv
<1>2. CASE UNCHANGED <<bundleVars, vars>>
  <2>1. /\ UNCHANGED <<archive, files, vars>> /\ UNCHANGED <<job, archive>>
        /\ UNCHANGED <<job, phase, archive, at, files, outcome>>
    BY <1>2 DEF bundleVars
  <2>2. /\ Layers' = Layers /\ Given' = Given /\ Complete' = Complete
        /\ Checked' = Checked /\ Passing' = Passing
        /\ LayersSound' = LayersSound /\ Explained' = Explained /\ Deserved' = Deserved
    BY <2>1, Unmoved
  <2>3. Refusable(outcome)' = Refusable(outcome)
    BY <2>1, <2>2 DEF Refusable, vars
  <2>4. TakenIn' = TakenIn /\ LayersTakenIn' = LayersTakenIn
    BY <2>1, <2>2 DEF TakenIn, LayersTakenIn, Taken
  <2>5. BundleTyped' /\ Rebuilt'
    BY <2>1, RebuiltKept DEF BundleInv, BundleTyped
  <2>6. Progress'
    BY <2>1, <2>2, <2>3, <2>4 DEF BundleInv, Progress
  <2> QED BY <1>1, <2>5, <2>6 DEF BundleInv
<1>3. CASE BundleNext
  <2>1. BundleTyped' /\ Progress' /\ Rebuilt'
    BY <1>3, EntryUnsafeStep, EntryTwiceStep, EntryTooMuchStep, ReadEntryStep,
       EndOfArchiveStep, FilesMisnamedStep, FilesOverLimitsStep, ManifestMalformedStep,
       CallDependenciesStep, StepDependenciesStep, DependenciesRefusedStep,
       SignerRefusedStep, LayersMalformedStep, StartLayersStep, LayerUnknownStep,
       LayerCollidesStep, TakeLayerStep, LayersEndStep, InspectedStep,
       WriteArchiveStep, SealStep
       DEF BundleNext
  <2> QED BY <1>1, <2>1 DEF BundleInv
<1> QED BY <1>2, <1>3

LEMMA BundleInvInit == BundleInit => BundleInv
<1>1. SUFFICES ASSUME BundleInit
      PROVE  BundleInv
  OBVIOUS
<1>2. Inv
  BY <1>1, InitInv
<1>3. Taken = {} /\ outcome = "none" /\ at = 1 /\ job # "reread"
  BY <1>1 DEF BundleInit, Taken
<1>4. CASE job = "build"
  <2>1. /\ phase = "inspect" /\ files \in Directories /\ archive = <<>>
    BY <1>1, <1>4 DEF BundleInit
  <2>2. Holds(files)
    BY <2>1, Contents DEF Holds
  <2>3. IsArchive(archive)
    <3>1. ToSet(archive) = {}
      BY <2>1 DEF ToSet
    <3>2. archive \in Seq(ToSet(archive))
      BY <2>1
    <3> QED BY <3>1, <3>2 DEF IsArchive
  <2> QED BY <1>2, <1>3, <1>4, <2>1, <2>2, <2>3 DEF BundleInv, BundleTyped, Progress, Rebuilt
<1>5. CASE job = "read"
  <2>1. phase = "entries" /\ files = <<>> /\ archive \in Archives
    BY <1>1, <1>5 DEF BundleInit
  <2>2. IsArchive(archive) /\ Len(archive) \in Nat
    BY <2>1, Contents DEF IsArchive
  <2>3. DOMAIN files = {} /\ files = [n \in DOMAIN files |-> files[n]]
    BY <2>1
  <2>4. Cardinality(DOMAIN files) <= MaxFiles
    BY <2>3, FS_EmptySet, Limits
  <2>5. BundleTyped
    BY <1>3, <1>5, <2>1, <2>2, <2>3, <2>4 DEF BundleTyped, Holds
  <2>6. TakenIn
    BY <1>3, <2>2, <2>3 DEF TakenIn
  <2> QED BY <1>2, <1>3, <2>1, <2>5, <2>6 DEF BundleInv, Progress, Rebuilt
<1> QED BY <1>1, <1>4, <1>5 DEF BundleInit

LEMMA BundleInvHolds == BundleSpec => []BundleInv
BY BundleInvInit, BundleInvStep, PTL DEF BundleSpec

------------------------------------------------------------------------------
(* Theorems.                                                               *)

\* Of any number of manifests, pins and nested namespaces, and whatever order the
\* map is walked in, the failure that Inspect reports names something that is
\* wrong with the manifests.
THEOREM CausesNamed == BundleSpec => []CodeNamesCause
<1>1. Inv => CodeNamesCause
  BY DEF Inv, Judged
<1> QED BY <1>1, InvHolds, PTL

LEMMA AcceptedExactly == Inv => AcceptsExactlyValid
<1>1. SUFFICES ASSUME Inv, pc = "done"
      PROVE  verdict = "accepted" <=>
                  Compatible /\ Distinct /\ Apart /\ PinsMet /\ Acyclic
  BY DEF AcceptsExactlyValid
<1>2. verdict \in Codes \cup {"accepted"}
  BY <1>1 DEF Inv, Typed
<1> QED BY <1>1, <1>2 DEF Inv, Judged, CodeNamesCause, Codes

\* ValidateDependencies accepts a list exactly when it is compatible, without
\* duplicates and overlaps, closed under its pins and without a cycle.
THEOREM AcceptsExactly == BundleSpec => []AcceptsExactlyValid
BY AcceptedExactly, InvHolds, PTL

\* Of whatever archive or directory, ReadArchive and Inspect never hold more
\* files than the limit nor one that is not an entry of the archive, and they
\* end accepted or with one of the codes of bundle.go.
THEOREM BundleTypeCorrect == BundleSpec => []BundleTypeOK
<1>1. BundleInv => BundleTypeOK
  <2>1. SUFFICES ASSUME BundleInv
        PROVE  BundleTypeOK
    OBVIOUS
  <2>2. TypeOK
    <3>1. /\ Len(manifests) \in Nat /\ DOMAIN manifests = 1..Len(manifests)
          /\ \A j \in 1..Len(manifests) :
                manifests[j] \in ToSet(manifests) /\ manifests[j].id \in Ids
          /\ Passed \subseteq 1..Len(manifests)
      <4>1. /\ Len(manifests) \in Nat /\ DOMAIN manifests = 1..Len(manifests)
            /\ \A j \in 1..Len(manifests) :
                 IsManifest(manifests[j]) /\ manifests[j] \in ToSet(manifests)
        BY <2>1, Elements DEF BundleInv, Inv, Typed
      <4>2. index \in 1..(Len(manifests) + 1)
        BY <2>1 DEF BundleInv, Inv, Typed
      <4> QED BY <4>1, <4>2 DEF IsManifest, Passed
    <3>2. \A i \in DOMAIN byID : i \in Ids /\ byID[i] \in ToSet(manifests) /\ byID[i].id = i
      BY <2>1, ByIDHolds DEF BundleInv, Inv, Given
    <3>3. owners \subseteq UNION {m.namespaces : m \in ToSet(manifests)}
      BY <2>1, <3>1 DEF BundleInv, Inv, Owned
    <3>4. stack \in Seq([id: DOMAIN byID, next: Nat \ {0}])
      <4>1. /\ stack \in Seq(Frames) /\ Len(stack) \in Nat
            /\ \A k \in 1..Len(stack) : stack[k] \in Frames /\ stack[k].id \in DOMAIN byID
        BY <2>1 DEF BundleInv, Inv, Typed, Searching, Stacked, FrameGood
      <4>2. \A k \in 1..Len(stack) : stack[k] \in [id: DOMAIN byID, next: Nat \ {0}]
        BY <4>1 DEF Frames
      <4> DEFINE Calls == [id: DOMAIN byID, next: Nat \ {0}]
      <4>3. stack \in [1..Len(stack) -> Calls]
        BY <4>1, <4>2
      <4> HIDE DEF Calls
      <4>4. stack \in Seq(Calls)
        BY <4>1, <4>3
      <4> QED BY <4>4 DEF Calls
    <3> QED BY <2>1, <3>1, <3>2, <3>3, <3>4 DEF BundleInv, Inv, Typed, TypeOK
  <2> QED BY <2>1, <2>2 DEF BundleInv, BundleTyped, BundleTypeOK, NamesOf
<1> QED BY <1>1, BundleInvHolds, PTL

\* Whatever it holds, an archive is accepted exactly when it deserves it: no file
\* twice, none misplaced, within the limits, its manifests a valid set, its layers
\* known, owned, apart and ascending, and its manifest with the digests of its
\* files.  The loop that compares neighbours of the sorted layers compares all.
THEOREM AcceptsSound == BundleSpec => []AcceptsExactlySound
<1>1. BundleInv => AcceptsExactlyValid
  BY AcceptedExactly DEF BundleInv
<1>2. BundleInv => AcceptsExactlySound
  <2> DEFINE Asked ==
            /\ \A j, k \in DOMAIN archive : archive[j].name = archive[k].name => j = k
            /\ \A e \in ToSet(archive) : Safe(e)
            /\ DOMAIN files = {e.name : e \in ToSet(archive)} /\ WithinLimits(files)
            /\ ManifestsParse(files) /\ Manifest.signing
            /\ Compatible /\ Distinct /\ Apart /\ PinsMet /\ Acyclic
            /\ LayersSound
            /\ Parsed(files, "reasons.json") /\ Parsed(files, "data.json")
            /\ Manifest = [Seal(files)["manifest.json"] EXCEPT !.form = Manifest.form]
  <2>1. SUFFICES ASSUME BundleInv, phase = "done", job # "build"
        PROVE  outcome = "accepted" <=> Asked
    BY <1>1 DEF AcceptsExactlySound, Accepted
  <2>2. Holds(files) /\ IsArchive(archive)
        /\ IF outcome = "accepted" THEN Complete /\ Checked /\ Deserved
           ELSE Refusable(outcome)
    BY <2>1 DEF BundleInv, BundleTyped, Progress
  <2>3. ASSUME ManifestsParse(files)
        PROVE  Matches(files) <=>
                 Manifest = [Seal(files)["manifest.json"] EXCEPT !.form = Manifest.form]
    <3>1. "manifest.json" \in DOMAIN files /\ HasFields(files["manifest.json"])
      BY <2>2, <2>3 DEF ManifestsParse, Parsed, Holds, IsContent
    <3> QED BY <3>1, MatchesIsSealed DEF Manifest
  <2>4. ASSUME outcome = "accepted"
        PROVE  Asked
    <3>1. Complete /\ Checked /\ Deserved
      BY <2>2, <2>4
    <3>2. DOMAIN files = {e.name : e \in ToSet(archive)}
      BY <2>2, <3>1, ArchiveFiles DEF Complete, NamesOf
    <3>3. Manifest = [Seal(files)["manifest.json"] EXCEPT !.form = Manifest.form]
      BY <2>3, <3>1 DEF Checked, Deserved
    <3> QED BY <3>1, <3>2, <3>3
            DEF Complete, Checked, Deserved, Single, AllSafe, Explained
  <2>5. ASSUME outcome # "accepted", Asked
        PROVE  FALSE
    <3>1. Refusable(outcome)
      BY <2>2, <2>5
    <3>2. Single(archive) /\ AllSafe(archive) /\ DOMAIN files = NamesOf(archive)
      BY <2>5 DEF Single, AllSafe, NamesOf
    <3>3. Deserved
      BY <2>3, <2>5 DEF Deserved, Explained
    <3> QED BY <2>5, <3>1, <3>2, <3>3 DEF Refusable
  <2> HIDE DEF Asked
  <2> QED BY <2>4, <2>5
<1> QED BY <1>2, BundleInvHolds, PTL

\* Whatever other archive there is, if it carries its digests and the revision of
\* the one that ReadArchive has accepted, it holds the same files, but for the
\* formatting of its manifest: the caches by revision confuse nothing.
THEOREM RevisionsNameContents == BundleSpec => []RevisionNamesContent
<1>1. BundleInv => RevisionNamesContent
  <2>1. SUFFICES ASSUME BundleInv, Accepted, NEW a \in Archives,
                        Parsed(AsFiles(a), "manifest.json"), Matches(AsFiles(a)),
                        AsFiles(a)["manifest.json"].build = Manifest.build
        PROVE  Unformatted(AsFiles(a)) = Unformatted(files)
    BY DEF RevisionNamesContent
  <2>2. /\ job # "build" /\ phase = "done" /\ outcome = "accepted"
        /\ Holds(files) /\ files = [n \in DOMAIN files |-> files[n]]
        /\ ManifestsParse(files) /\ Matches(files)
    BY <2>1 DEF BundleInv, BundleTyped, Accepted, Progress, Checked, Deserved
  <2>3. "manifest.json" \in DOMAIN files /\ HasFields(files["manifest.json"])
    BY <2>2 DEF ManifestsParse, Parsed, Holds, IsContent
  <2> DEFINE g == AsFiles(a)
  <2>4. Holds(g) /\ g = [n \in DOMAIN g |-> g[n]]
    <3>1. IsArchive(a)
      BY <2>1, Contents DEF IsArchive
    <3> QED BY <3>1, ArchiveFiles
  <2>5. /\ "manifest.json" \in DOMAIN g /\ HasFields(g["manifest.json"]) /\ Matches(g)
        /\ g["manifest.json"].build = files["manifest.json"].build
    BY <2>1, <2>4 DEF Parsed, Holds, IsContent, Manifest
  <2> HIDE DEF g
  <2>6. Unformatted(g) = Unformatted(files)
    BY <2>2, <2>3, <2>4, <2>5, DigestNamesFiles
  <2> QED BY <2>6 DEF g
<1> QED BY <1>1, BundleInvHolds, PTL

\* Whatever directory Build accepts, ReadArchive accepts the archive that is
\* written of it, unless sealing has made it, or its manifest, too long.
THEOREM BuiltCanBeRead == BundleSpec => []BuiltIsReadable
<1>1. BundleInv => BuiltIsReadable
  <2>1. SUFFICES ASSUME BundleInv, job = "reread", phase = "done"
        PROVE  \/ outcome = "accepted" /\ Manifest.form = "canonical"
               \/ outcome = "bundle_limit" /\ Size(AsFiles(archive)) > MaxBytes
               \/ /\ outcome = "invalid_path"
                  /\ ~Short("manifest.json", AsFiles(archive)["manifest.json"])
    BY DEF BuiltIsReadable
  <2> DEFINE f == AsFiles(archive)
  <2>2. /\ Acceptable(archive) /\ IsArchive(archive)
        /\ IF outcome = "accepted" THEN Complete /\ Checked /\ Deserved
           ELSE Refusable(outcome)
    BY <2>1 DEF BundleInv, BundleTyped, Progress, Rebuilt
  <2>3. DOMAIN f = NamesOf(archive) /\ Size(f) \in Nat
    BY <2>2, ArchiveFiles, HeldIsSized, SizeIsCounted
  <2>4. CASE outcome = "accepted"
    BY <2>2, <2>4 DEF Complete, Acceptable, Manifest
  <2>5. CASE outcome # "accepted"
    <3>1. /\ Single(archive) /\ ManifestsParse(f)
          /\ \A e \in ToSet(archive) : e.regular /\ e.name \notin Unsafe
          /\ \A n \in DOMAIN f \ {"manifest.json"} : Short(n, f[n])
          /\ Countable(f) /\ Cardinality(DOMAIN f \cap Modules) \in 1..MaxModules
      BY <2>2 DEF Acceptable
    <3>2. ~(Cardinality(NamesOf(archive)) > MaxFiles)
      BY <2>3, <3>1, Limits DEF Countable
    <3>3. CASE outcome = "bundle_limit" /\ TooMuch(archive)
      BY <3>2, <3>3 DEF TooMuch
    <3>4. CASE /\ outcome = "bundle_limit" /\ files = f /\ AllSafe(archive)
               /\ ~WithinLimits(files)
      <4>1. ~(Size(f) <= MaxBytes)
        <5>1. \A n \in DOMAIN f : Short(n, f[n])
          BY <2>2, <3>1, <3>4, SafeFilesAreShort
        <5> QED BY <3>1, <3>4, <5>1 DEF WithinLimits
      <4> HIDE DEF f
      <4>2. Size(f) > MaxBytes
        BY <2>3, <4>1, Limits
      <4> QED BY <3>4, <4>2 DEF f
    <3>5. CASE files = f /\ manifests = AllManifests(files) /\ ~Deserved
      <4>1. /\ Manifest.signing /\ ValidList(manifests) /\ SoundLayers(files)
            /\ Explained /\ Matches(files)
        BY <2>2, <3>5 DEF Acceptable, Manifest, Explained
      <4>2. LayersSound
        BY <3>5, <4>1, SoundLayersHere
      <4> QED BY <3>5, <4>1, <4>2, ValidManifests DEF Deserved
    <3>6. CASE outcome = "invalid_path" /\ ~AllSafe(archive)
      <4>1. PICK e \in ToSet(archive) : ~Short(e.name, e.content)
        BY <3>1, <3>6 DEF AllSafe, Safe
      <4>2. e.name \in DOMAIN f /\ f[e.name] = e.content
        BY <2>2, <3>1, ArchiveFiles
      <4>3. e.name = "manifest.json"
        BY <3>1, <4>1, <4>2
      <4> QED BY <3>6, <4>1, <4>2, <4>3
    <3> QED BY <2>2, <2>5, <3>1, <3>3, <3>4, <3>5, <3>6 DEF Refusable
  <2> QED BY <2>4, <2>5
<1> QED BY <1>1, BundleInvHolds, PTL
==============================================================================
