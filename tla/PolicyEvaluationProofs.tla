------------------------ MODULE PolicyEvaluationProofs ------------------------
(***************************************************************************)
(* Proofs about Compose and about the evaluation that uses it, for layers, *)
(* contributions, facts and sizes of any number.                           *)
(*                                                                         *)
(* Compose sorts its parts and stops at the first that has a code.  The    *)
(* proofs go through Joined, which decides the same of the set of parts,   *)
(* without an order: a part is refused for what it is and for the          *)
(* obligations of the parts with smaller texts.                            *)
(***************************************************************************)
EXTENDS PolicyEvaluation, DataProofs

Contributed == DOMAIN JSONRank

Earlier(S, p) == {q \in S : JSONRank[q] < JSONRank[p]}

CodeOf(S, p) == HaltCode(Gather(Earlier(S, p)), p)

Refused(S) == {p \in S : CodeOf(S, p) # "none"}

FirstRefused(S) ==
    CHOOSE p \in Refused(S) : \A q \in Refused(S) : JSONRank[p] <= JSONRank[q]

Obliged(S) == UNION {p.obligations : p \in S}

Exclusive(S) == \E a, b \in Obliged(S) : a.id # b.id /\ Conflict(a, b)

Joined(S) ==
    LET outcome == Strongest({p.outcome : p \in S}) IN
    IF S = {} THEN Deny("no_decision")
    ELSE IF Refused(S) # {} THEN Deny(CodeOf(S, FirstRefused(S)))
    ELSE IF Exclusive(S) THEN Deny("obligation_conflict")
    ELSE [outcome |-> outcome, reasons |-> UNION {p.reasons : p \in S},
          obligations |-> IF outcome = "deny" THEN {} ELSE Obliged(S)]

------------------------------------------------------------------------------
\* Sorting.

LEMMA Members ==
    ASSUME NEW S, NEW list \in Seq(S)
    PROVE  /\ Len(list) \in Nat /\ DOMAIN list = 1..Len(list)
           /\ \A k \in 1..Len(list) : list[k] \in S
           /\ ToSet(list) = {list[k] : k \in 1..Len(list)} /\ ToSet(list) \subseteq S
           /\ list = <<>> <=> ToSet(list) = {}
<1>1. Len(list) \in Nat /\ DOMAIN list = 1..Len(list) /\ \A k \in 1..Len(list) : list[k] \in S
  OBVIOUS
<1>2. ToSet(list) = {list[k] : k \in 1..Len(list)}
  BY <1>1, Zenon DEF ToSet
<1>3. ToSet(list) \subseteq S
  BY <1>1, <1>2
<1>4. list = <<>> <=> Len(list) = 0
  OBVIOUS
<1>5. Len(list) = 0 <=> ToSet(list) = {}
  <2>1. Len(list) # 0 => 1 \in 1..Len(list)
    BY <1>1
  <2>2. Len(list) # 0 => list[1] \in ToSet(list)
    BY <1>2, <2>1
  <2>3. Len(list) = 0 => 1..Len(list) = {}
    OBVIOUS
  <2>4. Len(list) = 0 => ToSet(list) = {}
    BY <1>2, <2>3
  <2> QED BY <2>2, <2>4
<1> QED BY <1>1, <1>2, <1>3, <1>4, <1>5

LEMMA JSONBeforeIsStrict ==
    ASSUME NEW list \in Seq(Contributed)
    PROVE  Strict(1..Len(list), JSONBefore(list))
<1> DEFINE n == Len(list)
           rank(i) == JSONRank[list[i]]
<1>1. n \in Nat /\ DOMAIN list = 1..n /\ \A i \in 1..n : list[i] \in Contributed
  BY Members
<1>2. \A i \in 1..n : rank(i) \in Nat
  BY <1>1, Texts DEF Contributed
<1>3. ASSUME NEW i \in 1..n, NEW j \in 1..n
      PROVE  <<i, j>> \in JSONBefore(list)
             <=> rank(i) < rank(j) \/ (rank(i) = rank(j) /\ i < j)
  <2>1. <<i, j>> \in (DOMAIN list) \X (DOMAIN list)
    BY <1>1
  <2> QED BY <2>1 DEF JSONBefore
<1> HIDE DEF n, rank
<1>4. \A i \in 1..n : i \in Nat
  BY <1>1
<1>5. Strict(1..n, JSONBefore(list))
  BY <1>2, <1>3, <1>4 DEF Strict
<1> QED BY <1>5 DEF n

\* Sorted has the same parts, in the order of their texts.
LEMMA SortedParts ==
    ASSUME NEW list \in Seq(Contributed)
    PROVE  LET n == Len(list)
               s == Sorted(list)
           IN  /\ s \in [1..n -> ToSet(list)]
               /\ \A p \in ToSet(list) : \E k \in 1..n : s[k] = p
               /\ \A j, k \in 1..n : j < k => JSONRank[s[j]] <= JSONRank[s[k]]
<1> DEFINE n == Len(list)
           s == Sorted(list)
           order == InOrder(1..n, JSONBefore(list))
<1>1. /\ n \in Nat /\ DOMAIN list = 1..n
      /\ \A i \in 1..n : list[i] \in ToSet(list) /\ list[i] \in Contributed
      /\ ToSet(list) = {list[i] : i \in 1..n}
  BY Members
<1>2. IsFiniteSet(1..n) /\ Cardinality(1..n) = n
  BY <1>1, FS_Interval
<1>3. Strict(1..n, JSONBefore(list))
  BY JSONBeforeIsStrict
<1>4. /\ order \in [1..n -> 1..n]
      /\ \A i \in 1..n : \E k \in 1..n : order[k] = i
      /\ \A j, k \in 1..n : j < k <=> <<order[j], order[k]>> \in JSONBefore(list)
  <2> HIDE DEF n
  <2> QED BY <1>2, <1>3, InOrderSorts
<1>5. s = [k \in 1..n |-> list[order[k]]]
  BY <1>1 DEF Sorted
<1> HIDE DEF n, s, order
<1>6. s \in [1..n -> ToSet(list)] /\ \A k \in 1..n : s[k] = list[order[k]]
  BY <1>1, <1>4, <1>5
<1>7. ASSUME NEW p \in ToSet(list)
      PROVE  \E k \in 1..n : s[k] = p
  <2>1. PICK i \in 1..n : list[i] = p
    BY <1>1
  <2> QED BY <1>4, <1>6, <2>1
<1>8. ASSUME NEW j \in 1..n, NEW k \in 1..n, j < k
      PROVE  JSONRank[s[j]] <= JSONRank[s[k]]
  <2>1. <<order[j], order[k]>> \in JSONBefore(list)
    BY <1>4, <1>8
  <2>2. \/ JSONRank[list[order[j]]] < JSONRank[list[order[k]]]
        \/ JSONRank[list[order[j]]] = JSONRank[list[order[k]]]
    BY <2>1 DEF JSONBefore
  <2>3. order[j] \in 1..n /\ order[k] \in 1..n
    BY <1>4
  <2>4. JSONRank[list[order[j]]] \in Nat /\ JSONRank[list[order[k]]] \in Nat
    BY <1>1, <2>3, Texts DEF Contributed
  <2> QED BY <1>6, <2>2, <2>4
<1> QED BY <1>6, <1>7, <1>8 DEF n, s

------------------------------------------------------------------------------
\* The code of a part.

\* It depends on the obligations gathered with its own, and on nothing else.
LEMMA SameObligationsSameCode ==
    ASSUME NEW p, NEW sum, NEW other,
           sum.obligations \cup p.obligations = other.obligations \cup p.obligations
    PROVE  HaltCode(sum, p) = HaltCode(other, p)
BY DEF HaltCode

LEMMA Gathers ==
    ASSUME NEW S
    PROVE  Gather(S).obligations = Obliged(S)
BY DEF Gather, Obliged

\* Where a part stands among equal ones makes no difference to its code.
LEMMA CodeOfPart ==
    ASSUME NEW list \in Seq(Contributed), NEW i \in 1..Len(list)
    PROVE  HaltCode(Gathered(Sorted(list), i), Sorted(list)[i])
           = CodeOf(ToSet(list), Sorted(list)[i])
<1> DEFINE n == Len(list)
           s == Sorted(list)
           S == ToSet(list)
           p == s[i]
           seen == {s[j] : j \in 1..(i - 1)}
<1>1. /\ n \in Nat /\ s \in [1..n -> S]
      /\ \A q \in S : \E k \in 1..n : s[k] = q
      /\ \A j, k \in 1..n : j < k => JSONRank[s[j]] <= JSONRank[s[k]]
  <2>1. n \in Nat
    BY Members
  <2> QED BY <2>1, SortedParts
<1>2. \A q \in S : JSONRank[q] \in Nat
  BY Members, Texts DEF Contributed
<1>3. \A q, r \in S : JSONRank[q] = JSONRank[r] => q = r
  <2>1. S \subseteq Contributed
    BY Members
  <2> QED BY <2>1, Texts DEF Contributed
<1> HIDE DEF n, s, S
<1>4. p \in S /\ i \in 1..n
  BY <1>1 DEF n
<1>5. seen \subseteq Earlier(S, p) \cup {p}
  <2> SUFFICES ASSUME NEW j \in 1..(i - 1)
               PROVE  s[j] \in Earlier(S, p) \cup {p}
    OBVIOUS
  <2>1. j \in 1..n /\ j < i
    BY <1>1, <1>4
  <2>2. s[j] \in S /\ JSONRank[s[j]] <= JSONRank[p]
    BY <1>1, <1>4, <2>1
  <2> QED BY <1>2, <1>3, <1>4, <2>2 DEF Earlier
<1>6. Earlier(S, p) \subseteq seen
  <2> SUFFICES ASSUME NEW q \in Earlier(S, p)
               PROVE  q \in seen
    OBVIOUS
  <2>1. q \in S /\ JSONRank[q] < JSONRank[p]
    BY DEF Earlier
  <2>2. PICK k \in 1..n : s[k] = q
    BY <1>1, <2>1
  <2>3. ~(i <= k)
    <3>1. i < k => JSONRank[p] <= JSONRank[q]
      BY <1>1, <1>4, <2>2
    <3>2. JSONRank[p] \in Nat /\ JSONRank[q] \in Nat
      BY <1>2, <1>4, <2>1
    <3>3. k \in Nat /\ i \in Nat
      BY <1>1, <1>4
    <3> HIDE DEF p
    <3>4. i # k
      BY <2>1, <2>2, <3>2 DEF p
    <3> QED BY <2>1, <3>1, <3>2, <3>3, <3>4
  <2> QED BY <1>1, <1>4, <2>2, <2>3
<1>7. Obliged(seen) \cup p.obligations = Obliged(Earlier(S, p)) \cup p.obligations
  <2> HIDE DEF seen, p
  <2> QED BY <1>5, <1>6 DEF Obliged
<1>8. HaltCode(Gather(seen), p) = HaltCode(Gather(Earlier(S, p)), p)
  <2> HIDE DEF seen, p
  <2> QED BY <1>7, Gathers, SameObligationsSameCode
<1> QED BY <1>8 DEF CodeOf, Gathered, s, S

\* Compose decides on the set of its parts.
LEMMA ComposeIsJoined ==
    ASSUME NEW list \in Seq(Contributed)
    PROVE  Compose(list) = Joined(ToSet(list))
<1> DEFINE n == Len(list)
           s == Sorted(list)
           S == ToSet(list)
           Code(i) == HaltCode(Gathered(s, i), s[i])
           halts == {i \in 1..n : Code(i) # "none"}
           sum == Gathered(s, n + 1)
<1>1. /\ n \in Nat /\ s \in [1..n -> S]
      /\ \A q \in S : \E k \in 1..n : s[k] = q
      /\ \A j, k \in 1..n : j < k => JSONRank[s[j]] <= JSONRank[s[k]]
  <2>1. n \in Nat
    BY Members
  <2> QED BY <2>1, SortedParts
<1>2. \A i \in 1..n : Code(i) = CodeOf(S, s[i])
  BY CodeOfPart
<1>3. /\ \A q \in S : JSONRank[q] \in Nat
      /\ \A q, r \in S : JSONRank[q] = JSONRank[r] => q = r
  <2>1. S \subseteq Contributed
    BY Members
  <2> QED BY <2>1, Texts DEF Contributed
<1>4. list = <<>> <=> S = {}
  BY Members
<1>5. sum = Gather(S)
  <2>1. 1..((n + 1) - 1) = 1..n
    BY <1>1
  <2>2. {s[j] : j \in 1..n} = S
    <3> HIDE DEF n, s, S
    <3> QED BY <1>1
  <2> HIDE DEF n, s, S
  <2> QED BY <2>1, <2>2 DEF Gathered
<1>6. halts # {} <=> Refused(S) # {}
  <2> HIDE DEF n, s, S, Code
  <2> QED BY <1>1, <1>2 DEF Refused
<1>7. ASSUME halts # {}
      PROVE  Code(Min(halts)) = CodeOf(S, FirstRefused(S))
  <2> HIDE DEF n, s, S, Code
  <2>1. PICK m \in halts : \A k \in halts : m <= k
    <3>1. halts \subseteq Nat
      BY <1>1
    <3> HIDE DEF halts
    <3> QED BY <1>7, <3>1, Least
  <2>2. Min(halts) = m
    <3>1. \A k \in halts : k \in Nat
      BY <1>1
    <3> HIDE DEF halts
    <3> QED BY <2>1, <3>1 DEF Min
  <2>3. s[m] \in Refused(S)
    BY <1>1, <1>2, <2>1 DEF Refused
  <2>4. ASSUME NEW q \in Refused(S)
        PROVE  JSONRank[s[m]] <= JSONRank[q]
    <3>1. PICK k \in 1..n : s[k] = q
      BY <1>1 DEF Refused
    <3>2. k \in halts
      BY <1>2, <3>1 DEF Refused
    <3>3. m = k \/ m < k
      BY <1>1, <2>1, <3>2
    <3>4. m \in 1..n /\ JSONRank[s[m]] \in Nat
      BY <1>1, <1>3, <2>1
    <3> QED BY <1>1, <3>1, <3>3, <3>4
  <2>5. FirstRefused(S) = s[m]
    <3>1. \A q \in Refused(S) : q \in S
      BY DEF Refused
    <3>2. ASSUME NEW p \in Refused(S), \A q \in Refused(S) : JSONRank[p] <= JSONRank[q]
          PROVE  p = s[m]
      <4>1. JSONRank[p] <= JSONRank[s[m]] /\ JSONRank[s[m]] <= JSONRank[p]
        BY <2>3, <2>4, <3>2
      <4>2. p \in S /\ s[m] \in S
        BY <2>3, <3>1
      <4>3. JSONRank[p] = JSONRank[s[m]]
        BY <1>3, <4>1, <4>2
      <4> QED BY <1>3, <4>2, <4>3
    <3> QED BY <2>3, <2>4, <3>2 DEF FirstRefused
  <2> QED BY <1>2, <2>1, <2>2, <2>5
<1>8. /\ sum.outcomes = {p.outcome : p \in S}
      /\ sum.reasons = UNION {p.reasons : p \in S}
      /\ sum.obligations = Obliged(S)
  <2> HIDE DEF sum, S
  <2> QED BY <1>5 DEF Gather, Obliged
<1>9. Compose(list) =
        IF list = <<>> THEN Deny("no_decision")
        ELSE IF halts # {} THEN Deny(Code(Min(halts)))
        ELSE IF \E a, b \in sum.obligations : a.id # b.id /\ Conflict(a, b)
             THEN Deny("obligation_conflict")
        ELSE [outcome |-> Strongest(sum.outcomes), reasons |-> sum.reasons,
              obligations |-> IF Strongest(sum.outcomes) = "deny" THEN {} ELSE sum.obligations]
  <2>1. DOMAIN s = 1..n
    BY <1>1
  <2>2. Len(list) = n
    OBVIOUS
  <2> HIDE DEF n
  <2> QED BY <2>1, <2>2 DEF Compose
<1> HIDE DEF n, s, S, Code, halts, sum
<1> QED BY <1>4, <1>6, <1>7, <1>8, <1>9 DEF Joined, Exclusive, S

\* "Compose is commutative", and idempotent as well: lists of the same parts, in
\* any order and with any repetitions, give one decision or one denial.
THEOREM ComposeIsCommutative ==
    ASSUME NEW list \in Seq(Contributed), NEW other \in Seq(Contributed),
           ToSet(list) = ToSet(other)
    PROVE  Compose(list) = Compose(other)
BY ComposeIsJoined

LEMMA ReverseMembers ==
    ASSUME NEW S, NEW list \in Seq(S)
    PROVE  Reverse(list) \in Seq(S) /\ ToSet(Reverse(list)) = ToSet(list)
<1> DEFINE n == Len(list)
           r == Reverse(list)
<1>1. n \in Nat /\ r = [i \in 1..n |-> list[(n - i) + 1]]
  BY DEF Reverse
<1>2. \A i \in 1..n : (n - i) + 1 \in 1..n /\ (n - ((n - i) + 1)) + 1 = i
  BY <1>1
<1>3. \A i \in 1..n : list[i] \in S
  BY Members
<1>4. r \in Seq(S) /\ Len(r) = n
  <2> HIDE DEF n, r
  <2>1. r \in [1..n -> S]
    BY <1>1, <1>2, <1>3
  <2> QED BY <1>1, <2>1
<1>5. /\ ToSet(list) = {list[k] : k \in 1..n}
      /\ ToSet(r) = {r[k] : k \in 1..n}
  BY <1>4, Members
<1>6. ToSet(r) \subseteq ToSet(list)
  <2> HIDE DEF n, r
  <2> QED BY <1>1, <1>2, <1>5
<1>7. ToSet(list) \subseteq ToSet(r)
  <2> SUFFICES ASSUME NEW i \in 1..n
               PROVE  list[i] \in ToSet(r)
    BY <1>5
  <2> DEFINE k == (n - i) + 1
  <2>1. k \in 1..n /\ (n - k) + 1 = i
    BY <1>2
  <2>2. r[k] = list[(n - k) + 1]
    <3> HIDE DEF n, r, k
    <3> QED BY <1>1, <2>1
  <2> HIDE DEF n, r, k
  <2> QED BY <1>5, <2>1, <2>2
<1> QED BY <1>4, <1>6, <1>7

------------------------------------------------------------------------------
\* What Compose decides.

LEMMA Denies ==
    ASSUME NEW code
    PROVE  /\ Deny(code).outcome = "deny" /\ Deny(code).obligations = {}
           /\ FitsSchema(Deny(code)) /\ ValidDecision(Deny(code))
<1>1. /\ Deny(code).outcome = "deny" /\ Deny(code).obligations = {}
      /\ Deny(code).reasons = {code}
  BY DEF Deny
<1>2. Cardinality({code}) = 1 /\ Cardinality({}) = 0 /\ MaxItems \in Nat \ {0}
  BY FS_Singleton, FS_EmptySet, Texts
<1>3. FitsSchema(Deny(code))
  BY <1>1, <1>2 DEF FitsSchema
<1> QED BY <1>1, <1>3 DEF ValidDecision, Outcomes, KindsOf

LEMMA StrongestIsStrongest ==
    ASSUME NEW outcomes, outcomes \subseteq Outcomes
    PROVE  /\ Strongest(outcomes) \in Outcomes
           /\ outcomes # {} => Strongest(outcomes) \in outcomes
           /\ \A o \in outcomes : Rank(o) <= Rank(Strongest(outcomes))
BY DEF Strongest, Outcomes, Rank

\* Part p has no code: it is valid, and agrees with the parts before it.
LEMMA NotRefused ==
    ASSUME NEW S, Refused(S) = {}, NEW p \in S
    PROVE  /\ ValidDecision(p) /\ p.outcome \in Outcomes
           /\ \A a, b \in Obliged(Earlier(S, p)) \cup p.obligations : a.id = b.id => a = b
<1>1. CodeOf(S, p) = "none"
  BY DEF Refused
<1>2. /\ ValidDecision(p)
      /\ ~ \E a, b \in Gather(Earlier(S, p)).obligations \cup p.obligations :
             a.id = b.id /\ a # b
  BY <1>1 DEF CodeOf, HaltCode
<1>3. p.outcome \in Outcomes
  BY <1>2 DEF ValidDecision
<1> QED BY <1>2, <1>3, Gathers

\* What is accepted of many parts is accepted of fewer.
LEMMA FewerAreNotRefused ==
    ASSUME NEW S, NEW T, S \subseteq T, Refused(T) = {}, ~Exclusive(T)
    PROVE  Refused(S) = {} /\ ~Exclusive(S)
<1>1. Obliged(S) \subseteq Obliged(T)
  BY DEF Obliged
<1>2. ~Exclusive(S)
  BY <1>1 DEF Exclusive
<1>3. ASSUME NEW p \in S
      PROVE  CodeOf(S, p) = "none"
  <2>1. CodeOf(T, p) = "none"
    BY DEF Refused
  <2>2. Earlier(S, p) \subseteq Earlier(T, p)
    BY DEF Earlier
  <2>3. Obliged(Earlier(S, p)) \subseteq Obliged(Earlier(T, p))
    BY <2>2 DEF Obliged
  <2>4. Gather(Earlier(S, p)).obligations \subseteq Gather(Earlier(T, p)).obligations
    BY <2>3, Gathers
  <2> QED BY <2>1, <2>4 DEF CodeOf, HaltCode
<1> QED BY <1>2, <1>3 DEF Refused

\* A set of parts that is not denied: all are valid, none denies, and their
\* obligations are in force together.
LEMMA JoinedReleased ==
    ASSUME NEW S, S \subseteq Contributed, Joined(S).outcome # "deny"
    PROVE  /\ S # {} /\ Refused(S) = {} /\ ~Exclusive(S)
           /\ Joined(S).outcome = Strongest({p.outcome : p \in S})
           /\ Joined(S).reasons = UNION {p.reasons : p \in S}
           /\ Joined(S).obligations = Obliged(S)
           /\ \A p \in S : p.outcome \in Outcomes \ {"deny"}
<1>1. S # {} /\ Refused(S) = {} /\ ~Exclusive(S)
  BY Denies DEF Joined
<1>2. Joined(S) =
        [outcome |-> Strongest({p.outcome : p \in S}), reasons |-> UNION {p.reasons : p \in S},
         obligations |-> IF Strongest({p.outcome : p \in S}) = "deny" THEN {} ELSE Obliged(S)]
  BY <1>1 DEF Joined
<1>3. Strongest({p.outcome : p \in S}) # "deny"
  BY <1>2
<1>4. \A p \in S : p.outcome # "deny"
  BY <1>3 DEF Strongest
<1>5. \A p \in S : p.outcome \in Outcomes
  BY <1>1, NotRefused
<1> QED BY <1>1, <1>2, <1>3, <1>4, <1>5

\* The outcome of Compose is always one of the four.
LEMMA JoinedOutcome ==
    ASSUME NEW S, S \subseteq Contributed
    PROVE  Joined(S).outcome \in Outcomes
<1>1. CASE Joined(S).outcome = "deny"
  BY <1>1 DEF Outcomes
<1>2. CASE Joined(S).outcome # "deny"
  <2>1. Joined(S).outcome = Strongest({p.outcome : p \in S})
    BY <1>2, JoinedReleased
  <2> QED BY <2>1 DEF Strongest, Outcomes
<1> QED BY <1>1, <1>2

LEMMA JoinedTightens ==
    ASSUME NEW S, NEW T, S \subseteq T, T \subseteq Contributed, S # {}
    PROVE  Tightens(Joined(S), Joined(T))
<1>1. Joined(S).outcome \in Outcomes /\ S \subseteq Contributed
  BY JoinedOutcome
<1>2. CASE Joined(T).outcome = "deny"
  BY <1>1, <1>2 DEF Tightens, Rank, Outcomes
<1>3. CASE Joined(T).outcome # "deny"
  <2>1. /\ Refused(T) = {} /\ ~Exclusive(T)
        /\ Joined(T).outcome = Strongest({p.outcome : p \in T})
        /\ Joined(T).obligations = Obliged(T)
        /\ \A p \in T : p.outcome \in Outcomes \ {"deny"}
    BY <1>3, JoinedReleased
  <2>2. Refused(S) = {} /\ ~Exclusive(S)
    BY <2>1, FewerAreNotRefused
  <2>3. Strongest({p.outcome : p \in S}) # "deny"
    BY <2>1 DEF Strongest
  <2>4. /\ Joined(S).outcome = Strongest({p.outcome : p \in S})
        /\ Joined(S).obligations = Obliged(S)
    BY <2>2, <2>3 DEF Joined
  <2>5. Obliged(S) \subseteq Obliged(T)
    BY DEF Obliged
  <2>6. Rank(Strongest({p.outcome : p \in S})) <= Rank(Strongest({p.outcome : p \in T}))
    <3>1. {p.outcome : p \in S} \subseteq Outcomes /\ {p.outcome : p \in T} \subseteq Outcomes
      BY <2>1
    <3>2. Strongest({p.outcome : p \in S}) \in {p.outcome : p \in T}
      <4>1. {p.outcome : p \in S} # {}
        OBVIOUS
      <4>2. Strongest({p.outcome : p \in S}) \in {p.outcome : p \in S}
        BY <3>1, <4>1, StrongestIsStrongest
      <4> QED BY <4>2
    <3> QED BY <3>1, <3>2, StrongestIsStrongest
  <2> QED BY <2>1, <2>4, <2>5, <2>6 DEF Tightens
<1> QED BY <1>2, <1>3

\* Of two obligations with one id, the part with the greater text has met both.
LEMMA OneDefinition ==
    ASSUME NEW S, S \subseteq Contributed, Refused(S) = {},
           NEW a \in Obliged(S), NEW b \in Obliged(S), a.id = b.id
    PROVE  a = b
<1>1. PICK p \in S : a \in p.obligations
  BY DEF Obliged
<1>2. PICK q \in S : b \in q.obligations
  BY DEF Obliged
<1>3. /\ JSONRank[p] \in Nat /\ JSONRank[q] \in Nat
      /\ JSONRank[p] = JSONRank[q] => p = q
  BY Texts DEF Contributed
<1>4. p \in Earlier(S, q) \/ q \in Earlier(S, p) \/ p = q
  BY <1>3 DEF Earlier
<1>5. CASE p \in Earlier(S, q) \/ p = q
  <2>1. a \in Obliged(Earlier(S, q)) \cup q.obligations
    BY <1>1, <1>5 DEF Obliged
  <2> QED BY <1>2, <2>1, NotRefused
<1>6. CASE q \in Earlier(S, p)
  <2>1. b \in Obliged(Earlier(S, p)) \cup p.obligations
    BY <1>2, <1>6 DEF Obliged
  <2> QED BY <1>1, <2>1, NotRefused
<1> QED BY <1>4, <1>5, <1>6

Contradict(a, b) ==
    ~ /\ a.id = b.id => a = b
      /\ a.kind = "restrict_destination" /\ b.kind = a.kind => a.target = b.target
      /\ \A x \in a.paths, y \in b.paths :
            /\ "retain_paths" \in {a.kind, b.kind} =>
                a.kind = b.kind /\ a.paths = b.paths
            /\ IsPrefix(x, y) \/ IsPrefix(y, x) =>
                a = b \/ (a.kind = b.kind /\ a.kind \notin {"mask", "tokenize"})

LEMMA JoinedIsConsistent ==
    ASSUME NEW S, S \subseteq Contributed,
           NEW a \in Joined(S).obligations, NEW b \in Joined(S).obligations
    PROVE  ~Contradict(a, b)
<1>1. Joined(S).outcome # "deny"
  <2>1. Joined(S).obligations # {}
    OBVIOUS
  <2>2. ASSUME Joined(S).outcome = "deny"
        PROVE  Joined(S).obligations = {}
    BY <2>2, Denies DEF Joined
  <2> QED BY <2>1, <2>2
<1>2. Refused(S) = {} /\ ~Exclusive(S) /\ Joined(S).obligations = Obliged(S)
  BY <1>1, JoinedReleased
<1>3. a.id = b.id => a = b
  BY <1>2, OneDefinition
<1>4. a.id # b.id => ~Conflict(a, b)
  BY <1>2 DEF Exclusive
<1>5. a.kind = "restrict_destination" /\ b.kind = a.kind => a.target = b.target
  BY <1>3, <1>4 DEF Conflict
<1>6. ASSUME NEW x \in a.paths, NEW y \in b.paths, "retain_paths" \in {a.kind, b.kind}
      PROVE  a.kind = b.kind /\ a.paths = b.paths
  <2>1. a.paths # {} /\ b.paths # {}
    BY <1>6
  <2> QED BY <1>3, <1>4, <1>6, <2>1 DEF Conflict
<1>7. ASSUME NEW x \in a.paths, NEW y \in b.paths, a # b,
             IsPrefix(x, y) \/ IsPrefix(y, x)
      PROVE  a.kind = b.kind /\ a.kind \notin {"mask", "tokenize"}
  <2>1. a.paths # {} /\ b.paths # {} /\ ~Conflict(a, b)
    BY <1>3, <1>4, <1>7
  <2>2. Overlaps(x, y)
    BY <1>7 DEF Overlaps
  <2>3. CASE "retain_paths" \in {a.kind, b.kind}
    BY <1>6, <1>7, <2>3
  <2>4. CASE "retain_paths" \notin {a.kind, b.kind}
    BY <2>1, <2>2, <2>4 DEF Conflict
  <2> QED BY <2>3, <2>4
<1> QED BY <1>3, <1>5, <1>6, <1>7 DEF Contradict

\* Valid parts are put together to what the contract accepts, but for its size.
LEMMA JoinedIsValid ==
    ASSUME NEW S, S \subseteq Contributed, FitsSchema(Joined(S))
    PROVE  ValidDecision(Joined(S))
<1> DEFINE d == Joined(S)
           outcomes == {p.outcome : p \in S}
<1>1. CASE S = {} \/ Refused(S) # {} \/ Exclusive(S)
  BY <1>1, Denies DEF Joined
<1>2. CASE S # {} /\ Refused(S) = {} /\ ~Exclusive(S)
  <2>1. /\ d.outcome = Strongest(outcomes) /\ d.reasons = UNION {p.reasons : p \in S}
        /\ d.obligations = IF Strongest(outcomes) = "deny" THEN {} ELSE Obliged(S)
    BY <1>2 DEF Joined
  <2>2. \A p \in S : ValidDecision(p) /\ p.outcome \in Outcomes
    BY <1>2, NotRefused
  <2>3. /\ \A p \in S : p.reasons # {}
        /\ \A p \in S : \A o \in p.obligations :
             o.kind \in Kinds /\ (o.kind \in FieldKinds <=> o.paths # {})
        /\ \A p \in S : p.outcome = "transform" =>
             \E o \in p.obligations : o.kind \in TransformKinds
        /\ \A p \in S : p.outcome = "require_approval" <=>
             \E o \in p.obligations : o.kind = "require_approval"
        /\ \A p \in S : p.outcome = "allow" => \A o \in p.obligations : o.kind \in AllowKinds
    BY <2>2 DEF ValidDecision, KindsOf
  <2>4. outcomes \subseteq Outcomes /\ outcomes # {}
    BY <1>2, <2>2
  <2>5. d.outcome \in Outcomes /\ d.outcome \in outcomes
    BY <2>1, <2>4, StrongestIsStrongest
  <2>6. d.reasons # {}
    <3>1. PICK p \in S : TRUE
      BY <1>2
    <3>2. PICK r \in p.reasons : TRUE
      BY <2>3
    <3> QED BY <2>1, <3>1, <3>2
  <2>7. \A o \in d.obligations : \E p \in S : o \in p.obligations
    BY <2>1 DEF Obliged
  <2>8. \A o \in d.obligations :
          o.kind \in Kinds /\ (o.kind \in FieldKinds <=> o.paths # {})
    BY <2>3, <2>7
  <2>9. CASE d.outcome = "deny"
    <3>1. d.obligations = {}
      BY <2>1, <2>9
    <3> QED BY <2>5, <2>6, <2>9, <3>1 DEF ValidDecision, KindsOf
  <2>10. CASE d.outcome = "require_approval"
    <3>1. PICK p \in S : p.outcome = "require_approval"
      BY <2>5, <2>10
    <3>2. PICK o \in p.obligations : o.kind = "require_approval"
      BY <2>3, <3>1
    <3>3. d.obligations = Obliged(S)
      BY <2>1, <2>10
    <3>4. o \in d.obligations
      BY <3>3 DEF Obliged
    <3>5. "require_approval" \in KindsOf(d.obligations)
      BY <3>2, <3>4 DEF KindsOf
    <3> QED BY <2>5, <2>6, <2>8, <2>10, <3>5 DEF ValidDecision
  <2>11. CASE d.outcome = "transform" \/ d.outcome = "allow"
    <3>1. d.obligations = Obliged(S)
      BY <2>1, <2>11
    <3>2. \A p \in S : p.outcome \in {"transform", "allow"}
      BY <2>1, <2>2, <2>11 DEF Strongest, Outcomes
    <3>3. "require_approval" \notin KindsOf(d.obligations)
      BY <2>3, <2>7, <3>2 DEF KindsOf
    <3>4. CASE d.outcome = "transform"
      <4>1. PICK p \in S : p.outcome = "transform"
        BY <2>5, <3>4
      <4>2. PICK o \in p.obligations : o.kind \in TransformKinds
        BY <2>3, <4>1
      <4>3. o \in d.obligations
        BY <3>1 DEF Obliged
      <4>4. KindsOf(d.obligations) \cap TransformKinds # {}
        BY <4>2, <4>3 DEF KindsOf
      <4> QED BY <2>5, <2>6, <2>8, <3>3, <3>4, <4>4 DEF ValidDecision
    <3>5. CASE d.outcome = "allow"
      <4>1. \A p \in S : p.outcome = "allow"
        BY <2>1, <3>2, <3>5 DEF Strongest
      <4>2. KindsOf(d.obligations) \subseteq AllowKinds
        BY <2>3, <2>7, <4>1 DEF KindsOf
      <4> QED BY <2>5, <2>6, <2>8, <3>3, <3>5, <4>2 DEF ValidDecision
    <3> QED BY <2>11, <3>4, <3>5
  <2> QED BY <2>5, <2>9, <2>10, <2>11 DEF Outcomes
<1> QED BY <1>1, <1>2

------------------------------------------------------------------------------
\* The inductive invariant: the layers asked so far have contributed, and what
\* is returned is what was composed of every layer's part, with the facts there.
Heard == \A k \in 1..(next - 1) : \E p \in ToSet(parts) : p.layer = Layers[k]

Decision ==
    /\ pc # "done" => result = NoResult
    /\ pc = "layers" => FactsPresent
    /\ result.kind # "decision" => result.decision = Deny("none")
    /\ result.kind = "decision" =>
        \/ result.decision = Deny("missing_fact")
        \/ /\ result.decision = Compose(parts) /\ ValidDecision(Compose(parts))
           /\ next > Len(Layers) /\ FactsPresent

Inv == TypeOK /\ Heard /\ Decision

LEMMA Results ==
    ASSUME NEW d
    PROVE  /\ NoResult.kind = "none" /\ NoResult.decision = Deny("none")
           /\ Error.kind = "error" /\ Error.decision = Deny("none")
           /\ Decided(d).kind = "decision" /\ Decided(d).decision = d
BY DEF NoResult, Error, Decided

LEMMA ComposedOutcome ==
    ASSUME TypeOK
    PROVE  /\ parts \in Seq(Contributed) /\ ToSet(parts) \subseteq Contributed
           /\ Compose(parts) = Joined(ToSet(parts))
           /\ Compose(parts).outcome \in Outcomes
<1>1. parts \in Seq(Contributed)
  BY DEF TypeOK, Contributed
<1> QED BY <1>1, Members, ComposeIsJoined, JoinedOutcome

\* A layer contributes something, and all of it bears the layer's name.
LEMMA LayerContributes ==
    ASSUME NEW l \in ToSet(Layers), NEW output \in Outputs, WellFormed(output)
    PROVE  /\ Contributions(l, output) \in Seq(Contributed)
           /\ Contributions(l, output) # <<>>
           /\ \A p \in ToSet(Contributions(l, output)) : p.layer = l
<1> DEFINE c == Contributions(l, output)
<1>1. ToSet(c) \subseteq Contributed
  BY LayersContribute DEF Contributed
<1>2. CASE output = <<>>
  <2>1. c = <<NoDecision(l)>>
    BY <1>2 DEF Contributions
  <2>2. NoDecision(l).layer = l
    BY DEF NoDecision
  <2>3. c \in Seq({NoDecision(l)}) /\ Len(c) = 1 /\ c[1] = NoDecision(l)
    BY <2>1
  <2>4. ToSet(c) = {NoDecision(l)}
    <3> HIDE DEF c
    <3> QED BY <2>3, Members
  <2>5. c \in Seq(Contributed) /\ c # <<>>
    BY <1>1, <2>1, <2>4
  <2> QED BY <2>2, <2>4, <2>5
<1>3. CASE output # <<>>
  <2>1. /\ output \in Seq(ToSet(output)) /\ Len(output) \in Nat
        /\ DOMAIN output = 1..Len(output)
    BY LayersContribute, Members
  <2>2. c = [i \in 1..Len(output) |-> [output[i] EXCEPT !.layer = l]]
    BY <1>3, <2>1 DEF Contributions
  <2>3. ToSet(c) = {[output[i] EXCEPT !.layer = l] : i \in 1..Len(output)}
    <3>1. DOMAIN c = 1..Len(output)
      BY <2>2
    <3> HIDE DEF c
    <3> QED BY <2>2, <3>1 DEF ToSet
  <2>4. c \in Seq(Contributed) /\ Len(c) = Len(output)
    <3>1. \A i \in 1..Len(output) : c[i] \in Contributed
      <4> HIDE DEF c
      <4> QED BY <1>1, <2>2, <2>3
    <3> HIDE DEF c
    <3> QED BY <2>1, <2>2, <3>1
  <2>5. \A p \in ToSet(c) : p.layer = l
    <3> SUFFICES ASSUME NEW i \in 1..Len(output)
                 PROVE  [output[i] EXCEPT !.layer = l].layer = l
      BY <2>3
    <3> DEFINE p == [output[i] EXCEPT !.layer = l]
    <3>1. p \in Contributed
      BY <1>1, <2>3
    <3>2. DOMAIN p = {"layer", "rule", "outcome", "reasons", "obligations"}
      <4>1. p = [layer |-> p.layer, rule |-> p.rule, outcome |-> p.outcome,
                 reasons |-> p.reasons, obligations |-> p.obligations]
        <5> HIDE DEF p
        <5> QED BY <3>1, Texts DEF Contributed
      <4> HIDE DEF p
      <4> QED BY <4>1
    <3>3. DOMAIN p = DOMAIN output[i]
      OBVIOUS
    <3> QED BY <3>2, <3>3
  <2>6. c # <<>>
    <3> HIDE DEF c
    <3> QED BY <1>3, <2>1, <2>4
  <2> QED BY <2>4, <2>5, <2>6
<1> QED BY <1>2, <1>3

LEMMA Joining ==
    ASSUME NEW S, NEW s \in Seq(S), NEW t \in Seq(S)
    PROVE  s \o t \in Seq(S) /\ ToSet(s \o t) = ToSet(s) \cup ToSet(t)
<1>1. /\ s \o t \in Seq(S) /\ Len(s \o t) = Len(s) + Len(t)
      /\ \A k \in 1..(Len(s) + Len(t)) :
            (s \o t)[k] = IF k <= Len(s) THEN s[k] ELSE t[k - Len(s)]
  OBVIOUS
<1> DEFINE u == s \o t
           m == Len(s)
           n == Len(t)
<1>2. /\ m \in Nat /\ n \in Nat
      /\ ToSet(s) = {s[k] : k \in 1..m} /\ ToSet(t) = {t[k] : k \in 1..n}
      /\ ToSet(u) = {u[k] : k \in 1..(m + n)}
  <2>1. Len(u) = m + n /\ u \in Seq(S)
    BY <1>1
  <2>2. m \in Nat /\ ToSet(s) = {s[k] : k \in 1..m}
    BY Members
  <2>3. n \in Nat /\ ToSet(t) = {t[k] : k \in 1..n}
    BY Members
  <2>4. ToSet(u) = {u[k] : k \in 1..Len(u)}
    <3> HIDE DEF u
    <3> QED BY <2>1, Members
  <2> HIDE DEF u, m, n
  <2> QED BY <2>1, <2>2, <2>3, <2>4
<1>3. \A k \in 1..(m + n) : u[k] = IF k <= m THEN s[k] ELSE t[k - m]
  BY <1>1
<1>4. u \in Seq(S)
  BY <1>1
<1> HIDE DEF u, m, n
<1>5. ASSUME NEW k \in 1..(m + n)
      PROVE  u[k] \in ToSet(s) \cup ToSet(t)
  <2>1. k <= m => k \in 1..m
    BY <1>2
  <2>2. ~(k <= m) => k - m \in 1..n
    BY <1>2
  <2> QED BY <1>2, <1>3, <2>1, <2>2
<1>6. ASSUME NEW k \in 1..m
      PROVE  s[k] \in ToSet(u)
  <2>1. k \in 1..(m + n) /\ k <= m
    BY <1>2
  <2> QED BY <1>2, <1>3, <2>1
<1>7. ASSUME NEW k \in 1..n
      PROVE  t[k] \in ToSet(u)
  <2>1. m + k \in 1..(m + n) /\ ~(m + k <= m) /\ (m + k) - m = k
    BY <1>2
  <2>2. u[m + k] = t[k]
    BY <1>3, <2>1
  <2> QED BY <1>2, <2>1, <2>2
<1>8. ToSet(u) = ToSet(s) \cup ToSet(t)
  BY <1>2, <1>5, <1>6, <1>7
<1> QED BY <1>4, <1>8 DEF u

------------------------------------------------------------------------------
LEMMA InitInv == Init => Inv
<1> SUFFICES ASSUME Init
             PROVE  Inv
  OBVIOUS
<1>1. Len(Layers) \in Nat
  BY LayersContribute
<1>2. TypeOK
  BY <1>1, Results, Denies DEF Init, TypeOK, Outcomes
<1>3. Heard
  BY DEF Init, Heard
<1>4. Decision
  BY Results DEF Init, Decision
<1> QED BY <1>2, <1>3, <1>4 DEF Inv

\* Ending with an error, or with a denial for want of a fact.
LEMMA EndStep ==
    ASSUME Inv, MissingFact \/ Fail \/ \E output \in Outputs : RejectLayer(output)
    PROVE  Inv'
<1>1. /\ UNCHANGED <<facts, visible, parts, next>>
      /\ pc' = "done"
      /\ result' \in {Error, Decided(Deny("missing_fact"))}
  BY DEF MissingFact, Fail, RejectLayer, Finish
<1>2. /\ result'.kind \in {"error", "decision"}
      /\ result'.kind = "error" => result'.decision = Deny("none")
      /\ result'.kind = "decision" => result'.decision = Deny("missing_fact")
      /\ result'.decision.outcome \in Outcomes
  BY <1>1, Results, Denies DEF Outcomes
<1>3. TypeOK'
  BY <1>1, <1>2 DEF Inv, TypeOK
<1>4. Heard'
  BY <1>1 DEF Inv, Heard
<1>5. Decision'
  BY <1>1, <1>2 DEF Decision
<1> QED BY <1>3, <1>4, <1>5 DEF Inv

LEMMA ShowFactsStep ==
    ASSUME Inv, ShowFacts
    PROVE  Inv'
<1>1. TypeOK'
  BY DEF Inv, TypeOK, ShowFacts
<1>2. Heard'
  BY DEF Inv, Heard, ShowFacts
<1>3. Decision'
  BY Results DEF Inv, Decision, ShowFacts, FactsPresent
<1> QED BY <1>1, <1>2, <1>3 DEF Inv

\* The parts after a layer was asked are those before it and its own.
LEMMA EvalLayerParts ==
    ASSUME Inv, NEW output \in Outputs, EvalLayer(output)
    PROVE  LET c == Contributions(Layers[next], output) IN
           /\ next \in 1..Len(Layers) /\ Layers[next] \in ToSet(Layers)
           /\ c \in Seq(Contributed) /\ c # <<>>
           /\ \A p \in ToSet(c) : p.layer = Layers[next]
           /\ parts' \in Seq(Contributed)
           /\ ToSet(parts') = ToSet(parts) \cup ToSet(c)
<1> DEFINE c == Contributions(Layers[next], output)
<1>1. next \in 1..Len(Layers) /\ Layers[next] \in ToSet(Layers)
  <2>1. next \in 1..(Len(Layers) + 1) /\ next <= Len(Layers)
    BY DEF Inv, TypeOK, EvalLayer
  <2>2. Len(Layers) \in Nat /\ ToSet(Layers) = {Layers[k] : k \in 1..Len(Layers)}
    BY LayersContribute, Members
  <2> QED BY <2>1, <2>2
<1>2. /\ c \in Seq(Contributed) /\ c # <<>>
      /\ \A p \in ToSet(c) : p.layer = Layers[next]
  BY <1>1, LayerContributes DEF EvalLayer
<1>3. parts \in Seq(Contributed) /\ parts' = parts \o c
  BY DEF Inv, TypeOK, EvalLayer, Contributed
<1> HIDE DEF c
<1>4. parts' \in Seq(Contributed) /\ ToSet(parts') = ToSet(parts) \cup ToSet(c)
  BY <1>2, <1>3, Joining
<1> QED BY <1>1, <1>2, <1>4 DEF c

LEMMA EvalLayerStep ==
    ASSUME Inv, NEW output \in Outputs, EvalLayer(output)
    PROVE  Inv'
<1> DEFINE c == Contributions(Layers[next], output)
<1>1. /\ next \in 1..Len(Layers)
      /\ c \in Seq(Contributed) /\ c # <<>>
      /\ \A p \in ToSet(c) : p.layer = Layers[next]
      /\ parts' \in Seq(Contributed)
      /\ ToSet(parts') = ToSet(parts) \cup ToSet(c)
  BY EvalLayerParts
<1>2. next' = next + 1 /\ UNCHANGED <<pc, facts, visible, result>> /\ pc = "layers"
  BY DEF EvalLayer
<1> HIDE DEF c
<1>3. Len(Layers) \in Nat
  BY LayersContribute
<1>4. TypeOK'
  BY <1>1, <1>2, <1>3 DEF Inv, TypeOK, Contributed
<1>5. Heard'
  <2>1. \E p \in ToSet(c) : p.layer = Layers[next]
    <3>1. ToSet(c) # {}
      BY <1>1, Members
    <3> QED BY <1>1, <3>1
  <2>2. \A k \in 1..(next' - 1) : k \in 1..(next - 1) \/ k = next
    BY <1>1, <1>2
  <2> QED BY <1>1, <2>1, <2>2 DEF Inv, Heard
<1>6. Decision'
  BY <1>2, Results DEF Inv, Decision, FactsPresent
<1> QED BY <1>4, <1>5, <1>6 DEF Inv

LEMMA DecideStep ==
    ASSUME Inv, Decide
    PROVE  Inv'
<1>1. /\ pc = "layers" /\ pc' = "done" /\ next > Len(Layers)
      /\ UNCHANGED <<facts, visible, parts, next>>
      /\ \/ result' = Error
         \/ ValidDecision(Compose(parts)) /\ result' = Decided(Compose(parts))
  BY DEF Decide, Finish
<1>2. FactsPresent
  BY <1>1 DEF Inv, Decision
<1>3. Compose(parts).outcome \in Outcomes
  BY ComposedOutcome DEF Inv
<1>4. result'.kind \in {"error", "decision"} /\ result'.decision.outcome \in Outcomes
  BY <1>1, <1>3, Results, Denies DEF Outcomes
<1>5. TypeOK'
  BY <1>1, <1>4 DEF Inv, TypeOK
<1>6. Heard'
  BY <1>1 DEF Inv, Heard
<1>7. FactsPresent' /\ Compose(parts)' = Compose(parts)
  BY <1>1, <1>2 DEF FactsPresent
<1>8. Decision'
  <2>1. CASE result' = Error
    BY <1>1, <2>1, Results DEF Decision
  <2>2. CASE ValidDecision(Compose(parts)) /\ result' = Decided(Compose(parts))
    BY <1>1, <1>7, <2>2, Results DEF Decision
  <2> QED BY <1>1, <2>1, <2>2
<1> QED BY <1>5, <1>6, <1>8 DEF Inv

LEMMA InvStep == Inv /\ [Next]_vars => Inv'
<1> SUFFICES ASSUME Inv, [Next]_vars
             PROVE  Inv'
  OBVIOUS
<1>1. CASE UNCHANGED vars
  <2>1. UNCHANGED <<pc, facts, visible, parts, next, result>>
    BY <1>1 DEF vars
  <2>2. TypeOK'
    BY <2>1 DEF Inv, TypeOK
  <2>3. Heard'
    BY <2>1 DEF Inv, Heard
  <2>4. Compose(parts)' = Compose(parts) /\ (FactsPresent <=> FactsPresent')
    BY <2>1 DEF FactsPresent
  <2>5. Decision'
    BY <2>1, <2>4 DEF Inv, Decision
  <2> QED BY <2>2, <2>3, <2>5 DEF Inv
<1>2. CASE MissingFact \/ Fail \/ \E output \in Outputs : RejectLayer(output)
  BY <1>2, EndStep
<1>3. CASE ShowFacts
  BY <1>3, ShowFactsStep
<1>4. CASE Decide
  BY <1>4, DecideStep
<1>5. CASE \E output \in Outputs : EvalLayer(output)
  BY <1>5, EvalLayerStep
<1> QED BY <1>1, <1>2, <1>3, <1>4, <1>5 DEF Next

LEMMA AlwaysInv == Spec => []Inv
BY InitInv, InvStep, PTL DEF Spec

------------------------------------------------------------------------------
\* Whatever the layers return, the state of an evaluation is well formed: what
\* was collected are contributions, and what is returned is an outcome.
THEOREM TypeCorrect == Spec => []TypeOK
<1>1. Inv => TypeOK
  BY DEF Inv
<1> QED BY <1>1, AlwaysInv, PTL

\* What is released was composed of the parts of every layer.
LEMMA ReleasedIsJoined ==
    ASSUME Inv, Released
    PROVE  LET S == ToSet(parts) IN
           /\ S \subseteq Contributed /\ S # {}
           /\ Refused(S) = {}
           /\ result.decision.outcome = Strongest({p.outcome : p \in S})
           /\ result.decision.reasons = UNION {p.reasons : p \in S}
           /\ result.decision.obligations = Obliged(S)
           /\ \A p \in S : p.outcome \in Outcomes \ {"deny"}
           /\ next > Len(Layers) /\ FactsPresent
<1>1. /\ result.decision = Compose(parts) /\ result.decision.outcome # "deny"
      /\ next > Len(Layers) /\ FactsPresent
  BY Denies DEF Inv, Decision, Released
<1>2. /\ ToSet(parts) \subseteq Contributed
      /\ Compose(parts) = Joined(ToSet(parts))
  BY ComposedOutcome DEF Inv
<1> QED BY <1>1, <1>2, JoinedReleased

\* Nothing is released on the word of some layers only: every configured layer
\* has contributed, none of them a denial, and every declared fact was there.
THEOREM ReleaseHasEveryLayer == Spec => []ReleaseNeedsEveryLayer
<1>1. ASSUME Inv, Released
      PROVE  /\ \A l \in ToSet(Layers) : \E p \in ToSet(parts) : p.layer = l
             /\ \A p \in ToSet(parts) : p.outcome \in Outcomes \ {"deny"}
             /\ \A s \in Declared : \E f \in facts : f.source = s /\ Valid(f)
  <2>1. /\ \A p \in ToSet(parts) : p.outcome \in Outcomes \ {"deny"}
        /\ next > Len(Layers) /\ FactsPresent
    BY <1>1, ReleasedIsJoined
  <2>2. next \in 1..(Len(Layers) + 1) /\ Len(Layers) \in Nat
    BY <1>1, LayersContribute DEF Inv, TypeOK
  <2>3. ToSet(Layers) = {Layers[k] : k \in 1..Len(Layers)}
    BY LayersContribute, Members
  <2>4. \A k \in 1..Len(Layers) : k \in 1..(next - 1)
    BY <2>1, <2>2
  <2> QED BY <1>1, <2>1, <2>3, <2>4 DEF Inv, Heard, FactsPresent
<1>2. Inv => ReleaseNeedsEveryLayer
  BY <1>1 DEF ReleaseNeedsEveryLayer
<1> QED BY <1>2, AlwaysInv, PTL

\* The released outcome is the strongest that was asked for, and no obligation
\* and no reason of any layer is lost on the way.
THEOREM ReleaseKeepsEverything == Spec => []ReleaseKeepsConstraints
<1>1. ASSUME Inv, Released
      PROVE  ReleaseKeepsConstraints
  <2> DEFINE S == ToSet(parts)
             outcomes == {p.outcome : p \in S}
  <2>1. /\ S # {}
        /\ result.decision.outcome = Strongest(outcomes)
        /\ result.decision.reasons = UNION {p.reasons : p \in S}
        /\ result.decision.obligations = UNION {p.obligations : p \in S}
        /\ \A p \in S : p.outcome \in Outcomes \ {"deny"}
    BY <1>1, ReleasedIsJoined DEF Obliged
  <2>2. outcomes \subseteq Outcomes /\ outcomes # {}
    BY <2>1
  <2>3. /\ Strongest(outcomes) \in outcomes
        /\ \A o \in outcomes : Rank(o) <= Rank(Strongest(outcomes))
    <3> HIDE DEF outcomes
    <3> QED BY <2>2, StrongestIsStrongest
  <2>4. \A p \in S : p.outcome \in outcomes
    OBVIOUS
  <2>5. \E p \in S : p.outcome = Strongest(outcomes)
    BY <2>3
  <2> HIDE DEF outcomes
  <2> QED BY <2>1, <2>3, <2>4, <2>5 DEF ReleaseKeepsConstraints
<1>2. ~Released => ReleaseKeepsConstraints
  BY DEF ReleaseKeepsConstraints
<1>3. Inv => ReleaseKeepsConstraints
  BY <1>1, <1>2
<1> QED BY <1>3, AlwaysInv, PTL

\* The obligations of a decision never contradict each other, however many
\* layers they come from.
THEOREM DecisionsAreConsistent == Spec => []NoContradiction
<1>1. ASSUME Inv, NEW a \in result.decision.obligations, NEW b \in result.decision.obligations
      PROVE  ~Contradict(a, b)
  <2>1. result.decision = Compose(parts)
    BY <1>1, Denies DEF Inv, Decision
  <2>2. /\ ToSet(parts) \subseteq Contributed
        /\ Compose(parts) = Joined(ToSet(parts))
    BY <1>1, ComposedOutcome DEF Inv
  <2> QED BY <1>1, <2>1, <2>2, JoinedIsConsistent
<1>2. Inv => NoContradiction
  BY <1>1 DEF NoContradiction, Contradict
<1> QED BY <1>2, AlwaysInv, PTL

\* The second validation can only fail for the size of what was composed.
THEOREM ComposedDecisionsAreValid == Spec => []ComposedIsValid
<1>1. ASSUME Inv
      PROVE  ValidDecision(Compose(parts)) <=> FitsSchema(Compose(parts))
  <2>1. /\ ToSet(parts) \subseteq Contributed
        /\ Compose(parts) = Joined(ToSet(parts))
    BY <1>1, ComposedOutcome DEF Inv
  <2>2. ValidDecision(Compose(parts)) => FitsSchema(Compose(parts))
    BY DEF ValidDecision
  <2> QED BY <2>1, <2>2, JoinedIsValid
<1>2. ASSUME Inv, result.kind = "decision"
      PROVE  FitsSchema(result.decision)
  <2>1. result.decision = Deny("missing_fact") \/ ValidDecision(result.decision)
    BY <1>2 DEF Inv, Decision
  <2>2. ValidDecision(result.decision) => FitsSchema(result.decision)
    BY DEF ValidDecision
  <2> QED BY <2>1, <2>2, Denies
<1>3. Inv => ComposedIsValid
  BY <1>1, <1>2 DEF ComposedIsValid
<1> QED BY <1>3, AlwaysInv, PTL

\* The order in which the layers were asked does not matter.
THEOREM OrderDoesNotMatter == Spec => []OrderIrrelevant
<1>1. ASSUME Inv
      PROVE  OrderIrrelevant
  <2>1. parts \in Seq(Contributed)
    BY <1>1, ComposedOutcome DEF Inv
  <2>2. Reverse(parts) \in Seq(Contributed) /\ ToSet(Reverse(parts)) = ToSet(parts)
    BY <2>1, ReverseMembers
  <2> QED BY <2>1, <2>2, ComposeIsCommutative DEF OrderIrrelevant
<1> QED BY <1>1, AlwaysInv, PTL

\* No layer ever weakens what the layers before it have decided.
THEOREM NoLayerWeakens == Spec => LayersOnlyTighten
<1> DEFINE Act == parts # <<>> => Tightens(Compose(parts), Compose(parts'))
<1>1. ASSUME Inv, [Next]_vars, parts' # parts
      PROVE  Act
  <2>1. PICK output \in Outputs : EvalLayer(output)
    BY <1>1 DEF Next, vars, MissingFact, ShowFacts, Fail, Decide, RejectLayer
  <2>2. parts \in Seq(Contributed) /\ parts' \in Seq(Contributed)
        /\ ToSet(parts) \subseteq ToSet(parts')
    BY <1>1, <2>1, EvalLayerParts, ComposedOutcome DEF Inv
  <2>3. /\ ToSet(parts') \subseteq Contributed
        /\ Compose(parts) = Joined(ToSet(parts)) /\ Compose(parts') = Joined(ToSet(parts'))
        /\ parts # <<>> => ToSet(parts) # {}
    BY <2>2, Members, ComposeIsJoined
  <2> QED BY <2>2, <2>3, JoinedTightens
<1>2. Inv /\ [Next]_vars => [Act]_parts
  BY <1>1
<1> QED BY <1>2, AlwaysInv, PTL DEF Spec, LayersOnlyTighten
==============================================================================
