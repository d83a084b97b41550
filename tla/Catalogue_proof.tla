--------------------------- MODULE Catalogue_proof ---------------------------
(* The parts of Catalogue keep their promises, for every value of the      *)
(* constants: one section for each, from its type invariant and inductive  *)
(* invariant to the property.                                              *)
EXTENDS Catalogue, Sequences, FiniteSetTheorems, SequenceTheorems,
        WellFoundedInduction, TLAPS

-----------------------------------------------------------------------------
(* Induction on the naturals, for a set instead of a predicate.            *)
LEMMA Induction ==
  ASSUME NEW T, T \subseteq Nat, 0 \in T, \A n \in Nat : n \in T => n + 1 \in T
  PROVE  T = Nat
<1>1. PICK R : /\ IsWellFoundedOn(R, Nat)
               /\ \A x, y \in Nat : <<x, y>> \in R <=> x < y
  <2> DEFINE S == OpToRel(<, Nat)
  <2>1. IsWellFoundedOn(S, Nat)
    BY NatLessThanWellFounded
  <2>2. \A x, y \in Nat : <<x, y>> \in S <=> x < y
    BY DEF OpToRel
  <2> HIDE DEF S
  <2> QED BY <2>1, <2>2, Zenon
<1>2. SUFFICES ASSUME Nat \ T # {} PROVE FALSE
  OBVIOUS
<1>3. PICK m \in Nat \ T : \A y \in Nat \ T : <<y, m>> \notin R
  BY <1>1, <1>2, WFMin
<1>4. PICK k \in Nat : m = k + 1 /\ k < m
  <2>1. m \in Nat /\ m # 0
    BY <1>3
  <2>2. m - 1 \in Nat /\ m = (m - 1) + 1 /\ m - 1 < m
    BY <2>1
  <2> QED BY <2>2
<1>5. <<k, m>> \in R
  BY <1>1, <1>4
<1>6. k \in T
  BY <1>3, <1>4, <1>5, Zenon
<1> QED BY <1>3, <1>4, <1>6

-----------------------------------------------------------------------------
(* Hierarchy: an update closes no loop                                     *)

HiCalls == [group : HiGroups, parents : SUBSET HiGroups]

\* Unset is no call.
HiConstantsOK == HiMaxRecurses \in Nat /\ Unset \notin HiCalls

HiLinks == [HiGroups -> SUBSET HiGroups]

\* What a request that is not stale has validated still is allowed.
HiInv ==
  /\ hiParents \in HiLinks
  /\ hiDeleted \subseteq HiGroups
  /\ hiCall \in [HiRequests -> HiCalls \cup {Unset}]
  /\ hiStale \subseteq HiRequests
  /\ \A r \in HiRequests \ hiStale :
       hiCall[r] # Unset => hiCall[r].parents \subseteq HI!Allowed(hiCall[r].group)

LEMMA HiTypeHolds == ASSUME HiInv PROVE HI!TypeOK
BY DEF HiInv, HI!TypeOK, HiLinks, HI!Pending, HiCalls

LEMMA HiInitInv == ASSUME HiConstantsOK, HI!Init PROVE HiInv
BY DEF HiConstantsOK, HI!Init, HiInv, HiLinks, HiCalls

\* What is allowed depends on the parents and on what is deleted.
LEMMA HiAllowedSame ==
  ASSUME UNCHANGED <<hiParents, hiDeleted>>, NEW g
  PROVE  HI!Allowed(g)' = HI!Allowed(g)
BY DEF HI!Allowed, HI!Descendants, HI!Levels, HI!Children

LEMMA HiInvNext == ASSUME HiConstantsOK, HiInv, [HI!Next]_(HI!vars)
                   PROVE HiInv'
<1> USE DEF HiInv, HiConstantsOK, HiLinks
<1>1. ASSUME NEW r \in HiRequests, NEW g \in HiGroups, NEW named \in SUBSET HiGroups,
             HI!Validate(r, g, named)
      PROVE  HiInv'
  <2> USE <1>1 DEF HI!Validate
  <2> DEFINE c == [group |-> g, parents |-> named]
  <2>1. c \in HiCalls /\ c.group = g /\ c.parents = named
    BY DEF HiCalls
  <2>2. hiCall' = [hiCall EXCEPT ![r] = c] /\ hiCall' \in [HiRequests -> HiCalls \cup {Unset}]
    BY <2>1
  <2>3. \A h : HI!Allowed(h)' = HI!Allowed(h)
    BY HiAllowedSame
  <2> HIDE DEF c
  <2>4. ASSUME NEW q \in HiRequests \ hiStale', hiCall'[q] # Unset
        PROVE  hiCall'[q].parents \subseteq (HI!Allowed(hiCall[q].group))'
    <3>1. CASE q = r
      <4>1. hiCall'[q] = c
        BY <2>2, <3>1
      <4> QED BY <2>1, <2>3, <4>1
    <3>2. CASE q # r
      <4>1. hiCall'[q] = hiCall[q] /\ q \in HiRequests \ hiStale
        BY <2>2, <2>4, <3>2
      <4> QED BY <2>3, <2>4, <4>1
    <3> QED BY <3>1, <3>2
  <2> QED BY <2>2, <2>4
<1>2. ASSUME NEW r \in HiRequests, HI!Save(r) PROVE HiInv'
  <2>1. hiCall[r] \in HiCalls /\ hiCall[r].group \in HiGroups
        /\ hiCall[r].parents \in SUBSET HiGroups
    BY <1>2 DEF HI!Save, HiCalls
  <2>2. hiParents' \in HiLinks /\ hiDeleted' \subseteq HiGroups
    BY <1>2, <2>1 DEF HI!Save
  <2>3. hiCall' \in [HiRequests -> HiCalls \cup {Unset}] /\ hiStale' \subseteq HiRequests
    BY <1>2 DEF HI!Save, HI!Pending
  <2>4. \A q \in HiRequests \ hiStale' : hiCall'[q] = Unset
    BY <1>2 DEF HI!Save, HI!Pending
  <2> QED BY <2>2, <2>3, <2>4
<1>3. ASSUME NEW g \in HiGroups, HI!Restore(g) PROVE HiInv'
  BY <1>3 DEF HI!Restore, HI!Pending
<1>4. ASSUME NEW g \in HiGroups, NEW ref, HI!Delete(g, ref) PROVE HiInv'
  <2>1. hiParents' \in HiLinks
    BY <1>4 DEF HI!Delete
  <2> QED BY <1>4, <2>1 DEF HI!Delete, HI!Pending
<1>5. CASE UNCHANGED HI!vars
  BY <1>5, HiAllowedSame DEF HI!vars
<1> QED BY <1>1, <1>2, <1>3, <1>4, <1>5 DEF HI!Next

LEMMA HiInvHolds == ASSUME HiConstantsOK PROVE HI!Spec => []HiInv
<1>1. HI!Init => HiInv
  BY HiInitInv
<1>2. HiInv /\ [HI!Next]_(HI!vars) => HiInv'
  BY HiInvNext
<1> QED BY <1>1, <1>2, PTL DEF HI!Spec

-----------------------------------------------------------------------------
(* Walks *)

\* A walk goes on from one of the parents.
LEMMA HiWalkOn ==
  ASSUME NEW up \in HiLinks, NEW g \in HiGroups, NEW h \in HiGroups, NEW k \in Nat
  PROVE  HI!Walk(up, g, h, k + 1) <=> \E p \in HiGroups : p \in up[g] /\ HI!Walk(up, p, h, k)
<1>1. ASSUME HI!Walk(up, g, h, k + 1)
      PROVE  \E p \in HiGroups : p \in up[g] /\ HI!Walk(up, p, h, k)
  <2>1. PICK w \in [0 .. k + 1 -> HiGroups] :
          /\ w[0] = g /\ w[k + 1] = h
          /\ \A i \in 0 .. (k + 1) - 1 : w[i + 1] \in up[w[i]]
    BY <1>1 DEF HI!Walk
  <2> DEFINE v == [i \in 0 .. k |-> w[i + 1]]
  <2>2. v \in [0 .. k -> HiGroups] /\ v[0] = w[1] /\ v[k] = h
    BY <2>1
  <2>3. ASSUME NEW i \in 0 .. k - 1 PROVE v[i + 1] \in up[v[i]]
    <3>1. i + 1 \in 0 .. (k + 1) - 1 /\ i \in 0 .. k /\ i + 1 \in 0 .. k
      OBVIOUS
    <3>2. v[i + 1] = w[(i + 1) + 1] /\ v[i] = w[i + 1]
      BY <3>1
    <3> QED BY <2>1, <3>1, <3>2
  <2>4. w[1] \in HiGroups /\ w[1] \in up[g]
    <3>1. 0 \in 0 .. (k + 1) - 1 /\ 1 \in 0 .. k + 1 /\ 0 + 1 = 1
      OBVIOUS
    <3> QED BY <2>1, <3>1
  <2> HIDE DEF v
  <2> QED BY <2>2, <2>3, <2>4 DEF HI!Walk
<1>2. ASSUME NEW p \in HiGroups, p \in up[g], HI!Walk(up, p, h, k)
      PROVE  HI!Walk(up, g, h, k + 1)
  <2>1. PICK w \in [0 .. k -> HiGroups] :
          /\ w[0] = p /\ w[k] = h
          /\ \A i \in 0 .. k - 1 : w[i + 1] \in up[w[i]]
    BY <1>2 DEF HI!Walk
  <2> DEFINE v == [i \in 0 .. k + 1 |-> IF i = 0 THEN g ELSE w[i - 1]]
  <2>2. v \in [0 .. k + 1 -> HiGroups] /\ v[0] = g /\ v[k + 1] = h
    BY <2>1
  <2>3. ASSUME NEW i \in 0 .. (k + 1) - 1 PROVE v[i + 1] \in up[v[i]]
    <3>1. i \in 0 .. k + 1 /\ i + 1 \in 0 .. k + 1 /\ i + 1 # 0 /\ (i + 1) - 1 = i
      OBVIOUS
    <3>2. v[i + 1] = w[i]
      BY <3>1
    <3>3. CASE i = 0
      BY <1>2, <2>1, <3>2, <3>3
    <3>4. CASE i # 0
      <4>1. i - 1 \in 0 .. k - 1 /\ (i - 1) + 1 = i
        BY <3>4
      <4>2. v[i] = w[i - 1]
        BY <3>1, <3>4
      <4> QED BY <2>1, <3>2, <4>1, <4>2
    <3> QED BY <3>3, <3>4
  <2> HIDE DEF v
  <2> QED BY <2>2, <2>3 DEF HI!Walk
<1> QED BY <1>1, <1>2

\* A walk of no links stays where it is.
LEMMA HiWalkNone ==
  ASSUME NEW up, NEW g \in HiGroups, NEW h \in HiGroups
  PROVE  HI!Walk(up, g, h, 0) <=> g = h
<1>1. ASSUME g = h PROVE HI!Walk(up, g, h, 0)
  <2> DEFINE w == [i \in 0 .. 0 |-> g]
  <2>1. w \in [0 .. 0 -> HiGroups] /\ w[0] = g /\ w[0] = h
    BY <1>1
  <2>2. \A i \in 0 .. 0 - 1 : w[i + 1] \in up[w[i]]
    OBVIOUS
  <2> QED BY <2>1, <2>2 DEF HI!Walk
<1>2. ASSUME HI!Walk(up, g, h, 0) PROVE g = h
  BY <1>2 DEF HI!Walk
<1> QED BY <1>1, <1>2

\* One walk after the other.
LEMMA HiWalkTwo ==
  ASSUME NEW up \in HiLinks, NEW p \in HiGroups, NEW h \in HiGroups, NEW l \in Nat,
         HI!Walk(up, p, h, l)
  PROVE  \A k \in Nat : \A g \in HiGroups :
           HI!Walk(up, g, p, k) => HI!Walk(up, g, h, k + l)
<1> DEFINE T == {k \in Nat : \A g \in HiGroups :
                   HI!Walk(up, g, p, k) => HI!Walk(up, g, h, k + l)}
<1>1. 0 \in T
  BY HiWalkNone
<1>2. ASSUME NEW k \in Nat, k \in T PROVE k + 1 \in T
  <2>1. ASSUME NEW g \in HiGroups, HI!Walk(up, g, p, k + 1)
        PROVE  HI!Walk(up, g, h, (k + 1) + l)
    <3>1. PICK q \in HiGroups : q \in up[g] /\ HI!Walk(up, q, p, k)
      BY <2>1, HiWalkOn
    <3>2. HI!Walk(up, q, h, k + l)
      BY <1>2, <3>1
    <3>3. k + l \in Nat /\ (k + l) + 1 = (k + 1) + l
      OBVIOUS
    <3>4. HI!Walk(up, g, h, (k + l) + 1)
      BY <3>1, <3>2, <3>3, HiWalkOn
    <3> QED BY <3>3, <3>4
  <2> QED BY <2>1
<1> HIDE DEF T
<1>3. T \subseteq Nat
  BY DEF T
<1>4. T = Nat
  BY <1>1, <1>2, <1>3, Induction
<1> QED BY <1>4 DEF T

\* A walk that does not leave x by one of its new parents is an old one.
LEMMA HiWalkOld ==
  ASSUME NEW up \in HiLinks, NEW new \in HiLinks, NEW x \in HiGroups,
         \A g \in HiGroups \ {x} : new[g] = up[g]
  PROVE  \A k \in Nat : \A g \in HiGroups :
           HI!Walk(new, g, x, k) => \E l \in 0 .. k : HI!Walk(up, g, x, l)
<1> DEFINE T == {k \in Nat : \A g \in HiGroups :
                   HI!Walk(new, g, x, k) => \E l \in 0 .. k : HI!Walk(up, g, x, l)}
<1>1. 0 \in T
  <2>1. 0 \in 0 .. 0
    OBVIOUS
  <2> QED BY <2>1, HiWalkNone
<1>2. ASSUME NEW k \in Nat, k \in T PROVE k + 1 \in T
  <2>1. ASSUME NEW g \in HiGroups, HI!Walk(new, g, x, k + 1)
        PROVE  \E l \in 0 .. k + 1 : HI!Walk(up, g, x, l)
    <3>1. CASE g = x
      <4>1. HI!Walk(up, g, x, 0) /\ 0 \in 0 .. k + 1
        BY <3>1, HiWalkNone
      <4> QED BY <4>1
    <3>2. CASE g # x
      <4>1. PICK q \in HiGroups : q \in new[g] /\ HI!Walk(new, q, x, k)
        BY <2>1, HiWalkOn
      <4>2. PICK l \in 0 .. k : HI!Walk(up, q, x, l)
        BY <1>2, <4>1
      <4>3. q \in up[g]
        BY <3>2, <4>1
      <4>4. l \in Nat /\ l + 1 \in 0 .. k + 1
        OBVIOUS
      <4>5. HI!Walk(up, g, x, l + 1)
        BY <4>2, <4>3, <4>4, HiWalkOn
      <4> QED BY <4>4, <4>5
    <3> QED BY <3>1, <3>2
  <2> QED BY <2>1
<1> HIDE DEF T
<1>3. T \subseteq Nat
  BY DEF T
<1>4. T = Nat
  BY <1>1, <1>2, <1>3, Induction
<1> QED BY <1>4 DEF T

\* The walks to x that end there for the first time; those of others are old.
LEMMA HiWalkSame ==
  ASSUME NEW up \in HiLinks, NEW new \in HiLinks, NEW x \in HiGroups,
         \A g \in HiGroups \ {x} : new[g] = up[g]
  PROVE  \A k \in Nat : \A g, h \in HiGroups :
           HI!Walk(new, g, h, k) =>
             \/ HI!Walk(up, g, h, k)
             \/ \E i \in 0 .. k - 1 : HI!Walk(new, g, x, i) /\ HI!Walk(new, x, h, k - i)
<1> DEFINE Met(g, h, k) ==
             \E i \in 0 .. k - 1 : HI!Walk(new, g, x, i) /\ HI!Walk(new, x, h, k - i)
<1> DEFINE T == {k \in Nat : \A g, h \in HiGroups :
                   HI!Walk(new, g, h, k) => HI!Walk(up, g, h, k) \/ Met(g, h, k)}
<1>1. 0 \in T
  BY HiWalkNone
<1>2. ASSUME NEW k \in Nat, k \in T PROVE k + 1 \in T
  <2>1. ASSUME NEW g \in HiGroups, NEW h \in HiGroups, HI!Walk(new, g, h, k + 1)
        PROVE  HI!Walk(up, g, h, k + 1) \/ Met(g, h, k + 1)
    <3>1. CASE g = x
      <4>1. HI!Walk(new, g, x, 0)
        BY <3>1, HiWalkNone
      <4>2. 0 \in 0 .. (k + 1) - 1 /\ (k + 1) - 0 = k + 1
        OBVIOUS
      <4> QED BY <2>1, <3>1, <4>1, <4>2
    <3>2. CASE g # x
      <4>1. PICK q \in HiGroups : q \in new[g] /\ HI!Walk(new, q, h, k)
        BY <2>1, HiWalkOn
      <4>2. q \in up[g]
        BY <3>2, <4>1
      <4>3. CASE HI!Walk(up, q, h, k)
        BY <4>2, <4>3, HiWalkOn
      <4>4. CASE Met(q, h, k)
        <5>1. PICK i \in 0 .. k - 1 : HI!Walk(new, q, x, i) /\ HI!Walk(new, x, h, k - i)
          BY <4>4
        <5>2. i \in Nat /\ i + 1 \in 0 .. (k + 1) - 1 /\ (k + 1) - (i + 1) = k - i
          OBVIOUS
        <5>3. HI!Walk(new, g, x, i + 1)
          BY <4>1, <5>1, <5>2, HiWalkOn
        <5> QED BY <5>1, <5>2, <5>3
      <4>5. HI!Walk(up, q, h, k) \/ Met(q, h, k)
        BY <1>2, <4>1
      <4> QED BY <4>3, <4>4, <4>5
    <3> QED BY <3>1, <3>2
  <2> QED BY <2>1
<1> HIDE DEF T
<1>3. T \subseteq Nat
  BY DEF T
<1>4. T = Nat
  BY <1>1, <1>2, <1>3, Induction
<1> QED BY <1>4 DEF T
-----------------------------------------------------------------------------
(* The query *)

HiUpto(f, n, g) ==
  /\ f \in [0 .. n -> SUBSET HiGroups]
  /\ f = [k \in 0 .. n |-> HI!Children(IF k = 0 THEN {g} ELSE f[k - 1])]

\* The equation of the levels has a solution.
LEMMA HiLevelsExist ==
  ASSUME NEW g
  PROVE  \A n \in Nat : \E f : HiUpto(f, n, g)
<1> DEFINE T == {n \in Nat : \E f : HiUpto(f, n, g)}
<1>0. \A s : HI!Children(s) \in SUBSET HiGroups
  BY DEF HI!Children
<1>1. 0 \in T
  <2> DEFINE f == [k \in 0 .. 0 |-> HI!Children({g})]
  <2>1. f = [k \in 0 .. 0 |-> HI!Children(IF k = 0 THEN {g} ELSE f[k - 1])]
    OBVIOUS
  <2>2. f \in [0 .. 0 -> SUBSET HiGroups]
    BY <1>0
  <2> HIDE DEF f
  <2> QED BY <2>1, <2>2 DEF HiUpto
<1>2. ASSUME NEW n \in Nat, n \in T PROVE n + 1 \in T
  <2>1. PICK f : HiUpto(f, n, g)
    BY <1>2
  <2> DEFINE h == [k \in 0 .. n + 1 |-> IF k = n + 1 THEN HI!Children(f[n]) ELSE f[k]]
  <2>2. h \in [0 .. n + 1 -> SUBSET HiGroups]
    BY <1>0, <2>1 DEF HiUpto
  <2>3. ASSUME NEW k \in 0 .. n + 1
        PROVE  h[k] = HI!Children(IF k = 0 THEN {g} ELSE h[k - 1])
    <3>1. CASE k = n + 1
      <4>1. k # 0 /\ k - 1 = n /\ n \in 0 .. n + 1 /\ n # n + 1
        BY <3>1
      <4>2. h[k] = HI!Children(f[n]) /\ h[k - 1] = f[n]
        BY <3>1, <4>1
      <4> QED BY <4>1, <4>2
    <3>2. CASE k # n + 1
      <4>1. k \in 0 .. n
        BY <3>2
      <4>2. h[k] = f[k]
        BY <3>2
      <4>3. f[k] = HI!Children(IF k = 0 THEN {g} ELSE f[k - 1])
        BY <2>1, <4>1 DEF HiUpto
      <4>4. CASE k = 0
        BY <4>2, <4>3, <4>4
      <4>5. CASE k # 0
        <5>1. k - 1 \in 0 .. n + 1 /\ k - 1 # n + 1
          BY <4>1, <4>5
        <5>2. h[k - 1] = f[k - 1]
          BY <5>1
        <5> QED BY <4>2, <4>3, <4>5, <5>2
      <4> QED BY <4>4, <4>5
    <3> QED BY <3>1, <3>2
  <2> HIDE DEF h
  <2>4. h = [k \in 0 .. n + 1 |-> HI!Children(IF k = 0 THEN {g} ELSE h[k - 1])]
    BY <2>2, <2>3
  <2>5. HiUpto(h, n + 1, g)
    BY <2>2, <2>4, Zenon DEF HiUpto
  <2> QED BY <2>5
<1> HIDE DEF T
<1>3. T \subseteq Nat
  BY DEF T
<1>4. T = Nat
  BY <1>1, <1>2, <1>3, Induction
<1> QED BY <1>4 DEF T

\* What leads to g by at most MaxRecurses + 1 links is found.
LEMMA HiLevelsFind ==
  ASSUME HiConstantsOK, hiParents \in HiLinks, NEW g \in HiGroups, NEW h \in HiGroups,
         NEW k \in 1 .. HiMaxRecurses + 1, HI!Walk(hiParents, h, g, k)
  PROVE  h \in HI!Levels(g)
<1> DEFINE Solves(f) ==
      f = [n \in 0 .. HiMaxRecurses |-> HI!Children(IF n = 0 THEN {g} ELSE f[n - 1])]
<1> DEFINE level == CHOOSE f : Solves(f)
<1>1. Solves(level)
  <2>1. PICK f : HiUpto(f, HiMaxRecurses, g)
    BY HiLevelsExist DEF HiConstantsOK
  <2>2. Solves(f)
    BY <2>1 DEF HiUpto
  <2> QED BY <2>2
<1>2. HI!Levels(g) = UNION {level[n] : n \in 0 .. HiMaxRecurses}
  BY DEF HI!Levels
<1> HIDE DEF level
<1> DEFINE T == {n \in Nat : n <= HiMaxRecurses =>
                   \A a \in HiGroups : HI!Walk(hiParents, a, g, n + 1) => a \in level[n]}
<1>3. 0 \in T
  <2>1. ASSUME NEW a \in HiGroups, HI!Walk(hiParents, a, g, 0 + 1)
        PROVE a \in level[0]
    <3>1. PICK p \in HiGroups : p \in hiParents[a] /\ HI!Walk(hiParents, p, g, 0)
      BY <2>1, HiWalkOn
    <3>2. p = g
      BY <3>1, HiWalkNone
    <3>3. level[0] = HI!Children({g})
      BY <1>1 DEF HiConstantsOK
    <3> QED BY <3>1, <3>2, <3>3 DEF HI!Children
  <2> QED BY <2>1
<1>4. ASSUME NEW n \in Nat, n \in T PROVE n + 1 \in T
  <2>1. ASSUME n + 1 <= HiMaxRecurses, NEW a \in HiGroups,
               HI!Walk(hiParents, a, g, (n + 1) + 1)
        PROVE  a \in level[n + 1]
    <3>1. PICK p \in HiGroups : p \in hiParents[a] /\ HI!Walk(hiParents, p, g, n + 1)
      BY <2>1, HiWalkOn
    <3>2. p \in level[n]
      BY <1>4, <2>1, <3>1 DEF HiConstantsOK
    <3>3. level[n + 1] = HI!Children(level[n])
      <4>1. n + 1 \in 0 .. HiMaxRecurses /\ n + 1 # 0 /\ (n + 1) - 1 = n
        BY <2>1 DEF HiConstantsOK
      <4> QED BY <1>1, <4>1
    <3> QED BY <3>1, <3>2, <3>3 DEF HI!Children
  <2> HIDE DEF Solves
  <2>2. n + 1 \in Nat
    OBVIOUS
  <2> QED BY <2>1, <2>2
<1> HIDE DEF T, Solves
<1>5. T \subseteq Nat
  BY DEF T
<1>6. T = Nat
  BY <1>3, <1>4, <1>5, Induction
<1>7. k - 1 \in Nat /\ k - 1 <= HiMaxRecurses /\ (k - 1) + 1 = k
  BY DEF HiConstantsOK
<1>8. h \in level[k - 1]
  BY <1>6, <1>7 DEF T
<1>9. k - 1 \in 0 .. HiMaxRecurses
  BY <1>7 DEF HiConstantsOK
<1> QED BY <1>2, <1>8, <1>9

\* A loop through a group would lead from one of its new parents to it.
LEMMA HiNoLoopThrough ==
  ASSUME HiConstantsOK, hiParents \in HiLinks, NEW new \in HiLinks, NEW x \in HiGroups,
         \A g \in HiGroups \ {x} : new[g] = hiParents[g],
         new[x] \subseteq HI!Allowed(x),
         NEW k \in 1 .. HiMaxRecurses + 2
  PROVE  ~HI!Walk(new, x, x, k)
<1> SUFFICES ASSUME HI!Walk(new, x, x, k) PROVE FALSE
  OBVIOUS
<1>1. k - 1 \in Nat /\ (k - 1) + 1 = k
  BY DEF HiConstantsOK
<1>2. PICK p \in HiGroups : p \in new[x] /\ HI!Walk(new, p, x, k - 1)
  BY <1>1, HiWalkOn
<1>3. PICK l \in 0 .. k - 1 : HI!Walk(hiParents, p, x, l)
  BY <1>1, <1>2, HiWalkOld
<1>4. p \in HI!Allowed(x)
  BY <1>2
<1>5. l # 0
  BY <1>3, <1>4, HiWalkNone DEF HI!Allowed
<1>6. l \in 1 .. HiMaxRecurses + 1
  BY <1>5 DEF HiConstantsOK
<1>7. p \in HI!Levels(x)
  BY <1>3, <1>6, HiLevelsFind
<1> QED BY <1>4, <1>7 DEF HI!Allowed, HI!Descendants

\* So the loops after an update of x are old.
LEMMA HiLoopsAreOld ==
  ASSUME HiConstantsOK, hiParents \in HiLinks, NEW new \in HiLinks, NEW x \in HiGroups,
         \A g \in HiGroups \ {x} : new[g] = hiParents[g],
         new[x] \subseteq HI!Allowed(x),
         NEW g \in HiGroups, HI!OnLoop(new, g, HiMaxRecurses + 2)
  PROVE  HI!OnLoop(hiParents, g, HiMaxRecurses + 2)
<1>1. PICK k \in 1 .. HiMaxRecurses + 2 : HI!Walk(new, g, g, k)
  BY DEF HI!OnLoop
<1>2. k \in Nat
  BY DEF HiConstantsOK
<1>3. CASE HI!Walk(hiParents, g, g, k)
  BY <1>3 DEF HI!OnLoop
<1>4. ASSUME NEW i \in 0 .. k - 1, HI!Walk(new, g, x, i), HI!Walk(new, x, g, k - i)
      PROVE  FALSE
  <2>1. i \in Nat /\ k - i \in Nat /\ (k - i) + i = k
    BY <1>2
  <2>2. HI!Walk(new, x, x, (k - i) + i)
    BY <1>4, <2>1, HiWalkTwo
  <2> QED BY <2>1, <2>2, HiNoLoopThrough
<1> QED BY <1>1, <1>2, <1>3, <1>4, HiWalkSame

(* Hierarchy: An update that no other overlaps never closes a loop of at   *)
(* most MaxRecurses + 2 links.                                             *)
THEOREM HiUpdatesCloseNoLoop == ASSUME HiConstantsOK PROVE HI!Spec => HI!UpdateClosesNoLoop
<1>1. ASSUME HiInv, [HI!Next]_(HI!vars),
             NEW r \in HiRequests \ hiStale, hiCall[r] # Unset, hiCall'[r] = Unset,
             NEW g \in HiGroups, HI!OnLoop(hiParents', g, HiMaxRecurses + 2)
      PROVE  HI!OnLoop(hiParents, g, HiMaxRecurses + 2)
  <2>1. HI!Save(r)
    <3>1. ASSUME NEW q \in HiRequests, NEW h \in HiGroups, NEW named \in SUBSET HiGroups,
                 HI!Validate(q, h, named)
          PROVE  FALSE
      <4>1. [group |-> h, parents |-> named] # Unset
        BY DEF HiConstantsOK, HiCalls
      <4> QED BY <1>1, <3>1, <4>1 DEF HI!Validate, HiInv
    <3>2. ASSUME NEW q \in HiRequests, HI!Save(q) PROVE q = r
      BY <1>1, <3>2 DEF HI!Save, HiInv
    <3>3. ~(UNCHANGED HI!vars) /\ \A h \in HiGroups : ~HI!Restore(h)
      BY <1>1 DEF HI!vars, HI!Restore
    <3>4. \A h \in HiGroups, ref \in {"id", "name"} : ~HI!Delete(h, ref)
      BY <1>1 DEF HI!Delete
    <3> QED BY <1>1, <3>1, <3>2, <3>3, <3>4 DEF HI!Next
  <2> DEFINE x == hiCall[r].group
  <2>2. x \in HiGroups /\ hiCall[r].parents \in SUBSET HiGroups
    BY <1>1 DEF HiInv, HiCalls
  <2>3. hiParents' \in HiLinks /\ \A h \in HiGroups \ {x} : hiParents'[h] = hiParents[h]
    BY <1>1, <2>1, <2>2 DEF HI!Save, HiInv, HiLinks
  <2>4. hiParents'[x] \subseteq HI!Allowed(x)
    BY <1>1, <2>1, <2>2 DEF HI!Save, HiInv, HiLinks
  <2> HIDE DEF x
  <2> QED BY <1>1, <2>2, <2>3, <2>4, HiLoopsAreOld DEF HiInv
<1>2. HiInv /\ [HI!Next]_(HI!vars) =>
        [\A r \in HiRequests \ hiStale :
           hiCall[r] # Unset /\ hiCall'[r] = Unset
           => \A g \in HiGroups : HI!OnLoop(hiParents', g, HiMaxRecurses + 2)
                                => HI!OnLoop(hiParents, g, HiMaxRecurses + 2)]_(HI!vars)
  BY <1>1
<1> QED BY <1>2, HiInvHolds, PTL DEF HI!Spec, HI!UpdateClosesNoLoop

-----------------------------------------------------------------------------
(* Plugins: the table of actions follows the plugins                       *)

PlLists == Seq(PlNames)

-----------------------------------------------------------------------------
(* What Only returns *)

LEMMA PlAppendFacts ==
  ASSUME NEW s \in PlLists, NEW x \in PlNames
  PROVE  /\ Append(s, x) \in PlLists /\ Len(Append(s, x)) = Len(s) + 1
         /\ Append(s, x)[Len(s) + 1] = x
         /\ \A i \in 1 .. Len(s) : Append(s, x)[i] = s[i]
BY AppendProperties DEF PlLists

\* A set of lists that is closed under Append has them all.
LEMMA PlListInduction ==
  ASSUME NEW T, T \subseteq PlLists, <<>> \in T,
         \A s \in T, x \in PlNames : Append(s, x) \in T
  PROVE  T = PlLists
<1> DEFINE N == {n \in Nat : \A s \in PlLists : Len(s) = n => s \in T}
<1>1. 0 \in N
  BY DEF PlLists
<1>2. ASSUME NEW n \in Nat, n \in N PROVE n + 1 \in N
  <2>1. ASSUME NEW s \in PlLists, Len(s) = n + 1 PROVE s \in T
    <3> DEFINE front == SubSeq(s, 1, n)
    <3>1. s[n + 1] \in PlNames /\ front \in PlLists /\ Len(front) = n
      BY <2>1 DEF PlLists
    <3>2. front \in T
      BY <1>2, <3>1
    <3>0. \A i \in 1 .. n : front[i] = s[i]
      BY <2>1 DEF PlLists
    <3> HIDE DEF front
    <3>3. s = Append(front, s[n + 1])
      <4> DEFINE t == Append(front, s[n + 1])
      <4>1. t \in PlLists /\ Len(t) = n + 1 /\ t[n + 1] = s[n + 1]
            /\ \A i \in 1 .. n : t[i] = s[i]
        <5>1. t \in PlLists /\ Len(t) = Len(front) + 1 /\ t[Len(front) + 1] = s[n + 1]
              /\ \A i \in 1 .. Len(front) : t[i] = front[i]
          BY <3>1, PlAppendFacts, Zenon
        <5> HIDE DEF t
        <5> QED BY <3>0, <3>1, <5>1
      <4> HIDE DEF t
      <4>2. s \in [1 .. n + 1 -> PlNames] /\ t \in [1 .. n + 1 -> PlNames]
        BY <2>1, <4>1, LenProperties DEF PlLists
      <4>3. \A i \in 1 .. n + 1 : t[i] = s[i]
        BY <4>1
      <4>4. t = s
        BY <4>2, <4>3
      <4> QED BY <4>4 DEF t
    <3> QED BY <3>1, <3>2, <3>3
  <2> QED BY <2>1
<1> HIDE DEF N
<1>3. N \subseteq Nat
  BY DEF N
<1>4. N = Nat
  BY <1>1, <1>2, <1>3, Induction
<1>5. ASSUME NEW s \in PlLists PROVE s \in T
  <2>1. Len(s) \in Nat
    BY DEF PlLists
  <2> QED BY <1>4, <2>1 DEF N
<1> QED BY <1>5

PlFound(f, s, S, k) ==
  f = [n \in 0 .. k |->
         IF n = 0 THEN <<>>
         ELSE IF s[n] \in S THEN Append(f[n - 1], s[n]) ELSE f[n - 1]]

\* The equation of Only has a solution, and one only.
LEMMA PlFoundExists ==
  ASSUME NEW s, NEW S
  PROVE  \A k \in Nat : \E f : PlFound(f, s, S, k)
<1> DEFINE T == {k \in Nat : \E f : PlFound(f, s, S, k)}
<1>1. 0 \in T
  <2> DEFINE f == [n \in 0 .. 0 |-> <<>>]
  <2>1. PlFound(f, s, S, 0)
    BY DEF PlFound
  <2> QED BY <2>1
<1>2. ASSUME NEW k \in Nat, k \in T PROVE k + 1 \in T
  <2>1. PICK f : PlFound(f, s, S, k)
    BY <1>2
  <2> DEFINE last == IF s[k + 1] \in S THEN Append(f[k], s[k + 1]) ELSE f[k]
  <2> DEFINE g == [n \in 0 .. k + 1 |-> IF n = k + 1 THEN last ELSE f[n]]
  <2>2. ASSUME NEW n \in 0 .. k + 1
        PROVE  g[n] = IF n = 0 THEN <<>>
                      ELSE IF s[n] \in S THEN Append(g[n - 1], s[n]) ELSE g[n - 1]
    <3>1. CASE n = k + 1
      <4>1. n # 0 /\ n - 1 = k /\ k \in 0 .. k + 1 /\ k # k + 1
        BY <3>1
      <4>2. g[n] = last /\ g[n - 1] = f[k]
        BY <3>1, <4>1
      <4> QED BY <3>1, <4>1, <4>2
    <3>2. CASE n # k + 1
      <4>1. n \in 0 .. k
        BY <3>2
      <4>2. g[n] = f[n]
        BY <3>2
      <4>3. f[n] = IF n = 0 THEN <<>>
                   ELSE IF s[n] \in S THEN Append(f[n - 1], s[n]) ELSE f[n - 1]
        BY <2>1, <4>1 DEF PlFound
      <4>4. n # 0 => g[n - 1] = f[n - 1]
        <5>1. n # 0 => n - 1 \in 0 .. k + 1 /\ n - 1 # k + 1
          BY <4>1
        <5> QED BY <5>1
      <4> QED BY <4>2, <4>3, <4>4
    <3> QED BY <3>1, <3>2
  <2>3. g = [n \in 0 .. k + 1 |-> g[n]]
    OBVIOUS
  <2> HIDE DEF g
  <2>4. PlFound(g, s, S, k + 1)
    BY <2>2, <2>3, Zenon DEF PlFound
  <2> QED BY <2>4
<1> HIDE DEF T
<1>3. T \subseteq Nat
  BY DEF T
<1>4. T = Nat
  BY <1>1, <1>2, <1>3, Induction
<1> QED BY <1>4 DEF T

LEMMA PlFoundOnce ==
  ASSUME NEW s, NEW t, NEW S, NEW k \in Nat, NEW l \in Nat, k <= l,
         \A n \in 1 .. k : t[n] = s[n],
         NEW f, NEW g, PlFound(f, s, S, k), PlFound(g, t, S, l)
  PROVE  g[k] = f[k]
<1> DEFINE T == {n \in Nat : n <= k => g[n] = f[n]}
<1>1. 0 \in T
  BY DEF PlFound
<1>2. ASSUME NEW n \in Nat, n \in T PROVE n + 1 \in T
  <2>1. ASSUME n + 1 <= k PROVE g[n + 1] = f[n + 1]
    <3>1. /\ n + 1 \in 0 .. k /\ n + 1 \in 0 .. l /\ n + 1 # 0 /\ (n + 1) - 1 = n
          /\ n + 1 \in 1 .. k
      BY <2>1
    <3>2. f[n + 1] = IF s[n + 1] \in S THEN Append(f[n], s[n + 1]) ELSE f[n]
      BY <3>1 DEF PlFound
    <3>3. g[n + 1] = IF t[n + 1] \in S THEN Append(g[n], t[n + 1]) ELSE g[n]
      BY <3>1 DEF PlFound
    <3>4. g[n] = f[n]
      BY <1>2, <2>1
    <3> QED BY <3>1, <3>2, <3>3, <3>4
  <2> QED BY <2>1
<1> HIDE DEF T
<1>3. T \subseteq Nat
  BY DEF T
<1>4. T = Nat
  BY <1>1, <1>2, <1>3, Induction
<1> QED BY <1>4 DEF T

LEMMA PlOnlyFound ==
  ASSUME NEW s \in PlLists, NEW S
  PROVE  \E f : PlFound(f, s, S, Len(s)) /\ PL!Only(s, S) = f[Len(s)]
<1> DEFINE found == CHOOSE f : PlFound(f, s, S, Len(s))
<1>1. PlFound(found, s, S, Len(s))
  <2>1. Len(s) \in Nat
    BY DEF PlLists
  <2> QED BY <2>1, PlFoundExists
<1>2. PL!Only(s, S) = found[Len(s)]
  BY DEF PL!Only, PlFound
<1> QED BY <1>1, <1>2

\* Only goes through a list from its first element to its last.
LEMMA PlOnlyEmpty ==
  ASSUME NEW S
  PROVE  PL!Only(<<>>, S) = <<>>
<1>1. <<>> \in PlLists /\ Len(<<>>) = 0
  BY DEF PlLists
<1>2. PICK f : PlFound(f, <<>>, S, 0) /\ PL!Only(<<>>, S) = f[0]
  BY <1>1, PlOnlyFound
<1> QED BY <1>2 DEF PlFound

LEMMA PlOnlyAppend ==
  ASSUME NEW S, NEW s \in PlLists, NEW x \in PlNames
  PROVE  PL!Only(Append(s, x), S) =
           IF x \in S THEN Append(PL!Only(s, S), x) ELSE PL!Only(s, S)
<1> DEFINE t == Append(s, x)
<1> DEFINE k == Len(s)
<1>1. t \in PlLists /\ k \in Nat /\ Len(t) = k + 1 /\ t[k + 1] = x
      /\ \A n \in 1 .. k : t[n] = s[n]
  BY AppendProperties DEF PlLists
<1>2. PICK f : PlFound(f, s, S, k) /\ PL!Only(s, S) = f[k]
  BY PlOnlyFound
<1> HIDE DEF t, k
<1>3. PICK g : PlFound(g, t, S, k + 1) /\ PL!Only(t, S) = g[k + 1]
  BY <1>1, PlOnlyFound
<1>4. g[k] = f[k]
  BY <1>1, <1>2, <1>3, PlFoundOnce
<1>5. k + 1 \in 0 .. k + 1 /\ k + 1 # 0 /\ (k + 1) - 1 = k
  BY <1>1
<1>6. g[k + 1] = IF t[k + 1] \in S THEN Append(g[k], t[k + 1]) ELSE g[k]
  BY <1>3, <1>5 DEF PlFound
<1> QED BY <1>1, <1>2, <1>3, <1>4, <1>6 DEF t
LEMMA PlEmptyList == <<>> \in PlLists
BY DEF PlLists

LEMMA PlOnlyType ==
  ASSUME NEW S, NEW s \in PlLists
  PROVE  PL!Only(s, S) \in PlLists
<1> DEFINE T == {t \in PlLists : PL!Only(t, S) \in PlLists}
<1>1. <<>> \in T
  BY PlOnlyEmpty, PlEmptyList
<1>2. ASSUME NEW t \in T, NEW x \in PlNames PROVE Append(t, x) \in T
  <2>0. t \in PlLists
    OBVIOUS
  <2>1. Append(t, x) \in PlLists
    BY <2>0, PlAppendFacts
  <2>2. PL!Only(Append(t, x), S) = IF x \in S THEN Append(PL!Only(t, S), x) ELSE PL!Only(t, S)
    BY <2>0, PlOnlyAppend
  <2>3. PL!Only(Append(t, x), S) \in PlLists
    BY <2>2, PlAppendFacts
  <2> QED BY <2>1, <2>3
<1> HIDE DEF T
<1>3. T \subseteq PlLists
  BY DEF T
<1>4. T = PlLists
  BY <1>1, <1>2, <1>3, PlListInduction
<1> QED BY <1>4 DEF T

LEMMA PlToSetAppend ==
  ASSUME NEW s \in PlLists, NEW x \in PlNames
  PROVE  PL!ToSet(Append(s, x)) = PL!ToSet(s) \cup {x}
<1>1. /\ Append(s, x) \in PlLists /\ Len(Append(s, x)) = Len(s) + 1
      /\ Append(s, x)[Len(s) + 1] = x
      /\ \A i \in 1 .. Len(s) : Append(s, x)[i] = s[i]
  BY PlAppendFacts
<1>2. Len(s) \in Nat /\ DOMAIN s = 1 .. Len(s)
      /\ DOMAIN Append(s, x) = 1 .. Len(s) + 1
  BY <1>1 DEF PlLists
<1> QED BY <1>1, <1>2 DEF PL!ToSet

LEMMA PlToSetEmpty == PL!ToSet(<<>>) = {}
BY DEF PL!ToSet

\* The elements that are in S.
LEMMA PlOnlySet ==
  ASSUME NEW S, NEW s \in PlLists
  PROVE  PL!ToSet(PL!Only(s, S)) = PL!ToSet(s) \cap S
<1> DEFINE T == {t \in PlLists : PL!ToSet(PL!Only(t, S)) = PL!ToSet(t) \cap S}
<1>1. <<>> \in T
  BY PlOnlyEmpty, PlToSetEmpty, PlEmptyList
<1>2. ASSUME NEW t \in T, NEW x \in PlNames PROVE Append(t, x) \in T
  <2>0. t \in PlLists
    OBVIOUS
  <2>1. Append(t, x) \in PlLists
    BY <2>0, PlAppendFacts
  <2>2. PL!Only(t, S) \in PlLists
    BY PlOnlyType
  <2>3. PL!ToSet(PL!Only(Append(t, x), S)) = PL!ToSet(Append(t, x)) \cap S
    <3>1. PL!ToSet(Append(t, x)) = PL!ToSet(t) \cup {x}
      BY <2>0, PlToSetAppend
    <3>2. CASE x \in S
      <4>1. PL!Only(Append(t, x), S) = Append(PL!Only(t, S), x)
        BY <2>0, <3>2, PlOnlyAppend
      <4>2. PL!ToSet(Append(PL!Only(t, S), x)) = PL!ToSet(PL!Only(t, S)) \cup {x}
        BY <2>2, PlToSetAppend
      <4> QED BY <3>1, <3>2, <4>1, <4>2
    <3>3. CASE x \notin S
      <4>1. PL!Only(Append(t, x), S) = PL!Only(t, S)
        BY <2>0, <3>3, PlOnlyAppend
      <4> QED BY <3>1, <3>3, <4>1
    <3> QED BY <3>2, <3>3
  <2> QED BY <2>1, <2>3
<1> HIDE DEF T
<1>3. T \subseteq PlLists
  BY DEF T
<1>4. T = PlLists
  BY <1>1, <1>2, <1>3, PlListInduction
<1> QED BY <1>4 DEF T

LEMMA PlInjectiveAppend ==
  ASSUME NEW s \in PlLists, NEW x \in PlNames
  PROVE  PL!IsInjective(Append(s, x)) <=> PL!IsInjective(s) /\ x \notin PL!ToSet(s)
<1>1. /\ Append(s, x) \in PlLists /\ Len(Append(s, x)) = Len(s) + 1
      /\ Append(s, x)[Len(s) + 1] = x
      /\ \A i \in 1 .. Len(s) : Append(s, x)[i] = s[i]
  BY PlAppendFacts
<1>2. Len(s) \in Nat /\ DOMAIN s = 1 .. Len(s)
      /\ DOMAIN Append(s, x) = 1 .. Len(s) + 1
  BY <1>1 DEF PlLists
<1>3. ASSUME PL!IsInjective(Append(s, x))
      PROVE PL!IsInjective(s) /\ x \notin PL!ToSet(s)
  BY <1>1, <1>2, <1>3 DEF PL!IsInjective, PL!ToSet
<1>4. ASSUME PL!IsInjective(s), x \notin PL!ToSet(s)
      PROVE PL!IsInjective(Append(s, x))
  BY <1>1, <1>2, <1>4 DEF PL!IsInjective, PL!ToSet
<1> QED BY <1>3, <1>4

LEMMA PlInjectiveEmpty == PL!IsInjective(<<>>)
BY DEF PL!IsInjective

LEMMA PlOnlyInjective ==
  ASSUME NEW S
  PROVE  \A s \in PlLists : PL!IsInjective(s) => PL!IsInjective(PL!Only(s, S))
<1> DEFINE T == {t \in PlLists : PL!IsInjective(t) => PL!IsInjective(PL!Only(t, S))}
<1>1. <<>> \in T
  BY PlOnlyEmpty, PlInjectiveEmpty, PlEmptyList
<1>2. ASSUME NEW t \in T, NEW x \in PlNames PROVE Append(t, x) \in T
  <2>0. t \in PlLists
    OBVIOUS
  <2>1. Append(t, x) \in PlLists
    BY <2>0, PlAppendFacts
  <2>2. PL!Only(t, S) \in PlLists /\ PL!ToSet(PL!Only(t, S)) = PL!ToSet(t) \cap S
    BY PlOnlyType, PlOnlySet
  <2>3. PL!IsInjective(Append(t, x)) => PL!IsInjective(PL!Only(Append(t, x), S))
    <3>1. PL!IsInjective(Append(t, x)) <=> PL!IsInjective(t) /\ x \notin PL!ToSet(t)
      BY <2>0, PlInjectiveAppend
    <3>2. CASE x \in S
      <4>1. PL!Only(Append(t, x), S) = Append(PL!Only(t, S), x)
        BY <2>0, <3>2, PlOnlyAppend
      <4>2. PL!IsInjective(Append(PL!Only(t, S), x))
              <=> PL!IsInjective(PL!Only(t, S)) /\ x \notin PL!ToSet(PL!Only(t, S))
        BY <2>2, PlInjectiveAppend
      <4> QED BY <2>2, <3>1, <4>1, <4>2
    <3>3. CASE x \notin S
      <4>1. PL!Only(Append(t, x), S) = PL!Only(t, S)
        BY <2>0, <3>3, PlOnlyAppend
      <4> QED BY <3>1, <4>1
    <3> QED BY <3>2, <3>3
  <2> QED BY <2>1, <2>3
<1> HIDE DEF T
<1>3. T \subseteq PlLists
  BY DEF T
<1>4. T = PlLists
  BY <1>1, <1>2, <1>3, PlListInduction
<1> QED BY <1>4 DEF T

\* First the elements in S, then those of them in R.
LEMMA PlOnlyOnly ==
  ASSUME NEW S, NEW R, NEW s \in PlLists
  PROVE  PL!Only(PL!Only(s, S), R) = PL!Only(s, S \cap R)
<1> DEFINE T == {t \in PlLists : PL!Only(PL!Only(t, S), R) = PL!Only(t, S \cap R)}
<1>1. <<>> \in T
  BY PlOnlyEmpty, PlEmptyList
<1>2. ASSUME NEW t \in T, NEW x \in PlNames PROVE Append(t, x) \in T
  <2>0. t \in PlLists
    OBVIOUS
  <2>1. Append(t, x) \in PlLists
    BY <2>0, PlAppendFacts
  <2>2. PL!Only(t, S) \in PlLists
    BY PlOnlyType
  <2>3. PL!Only(PL!Only(Append(t, x), S), R) = PL!Only(Append(t, x), S \cap R)
    <3>1. PL!Only(Append(t, x), S \cap R) =
            IF x \in S \cap R THEN Append(PL!Only(t, S \cap R), x)
            ELSE PL!Only(t, S \cap R)
      BY <2>0, PlOnlyAppend
    <3>2. CASE x \in S
      <4>1. PL!Only(Append(t, x), S) = Append(PL!Only(t, S), x)
        BY <2>0, <3>2, PlOnlyAppend
      <4>2. PL!Only(Append(PL!Only(t, S), x), R) =
              IF x \in R THEN Append(PL!Only(PL!Only(t, S), R), x)
              ELSE PL!Only(PL!Only(t, S), R)
        BY <2>2, PlOnlyAppend
      <4> QED BY <3>1, <3>2, <4>1, <4>2
    <3>3. CASE x \notin S
      <4>1. PL!Only(Append(t, x), S) = PL!Only(t, S)
        BY <2>0, <3>3, PlOnlyAppend
      <4> QED BY <3>1, <3>3, <4>1
    <3> QED BY <3>2, <3>3
  <2> QED BY <2>1, <2>3
<1> HIDE DEF T
<1>3. T \subseteq PlLists
  BY DEF T
<1>4. T = PlLists
  BY <1>1, <1>2, <1>3, PlListInduction
<1> QED BY <1>4 DEF T

\* What is no name does not matter.
LEMMA PlOnlySame ==
  ASSUME NEW S, NEW R, NEW s \in PlLists, \A x \in PlNames : x \in S <=> x \in R
  PROVE  PL!Only(s, S) = PL!Only(s, R)
<1> DEFINE T == {t \in PlLists : PL!Only(t, S) = PL!Only(t, R)}
<1>1. <<>> \in T
  BY PlOnlyEmpty, PlEmptyList
<1>2. ASSUME NEW t \in T, NEW x \in PlNames PROVE Append(t, x) \in T
  <2>0. t \in PlLists
    OBVIOUS
  <2>1. Append(t, x) \in PlLists
    BY <2>0, PlAppendFacts
  <2>2. PL!Only(Append(t, x), S) = PL!Only(Append(t, x), R)
    BY <2>0, PlOnlyAppend
  <2> QED BY <2>1, <2>2
<1> HIDE DEF T
<1>3. T \subseteq PlLists
  BY DEF T
<1>4. T = PlLists
  BY <1>1, <1>2, <1>3, PlListInduction
<1> QED BY <1>4 DEF T

LEMMA PlConcatAppend ==
  ASSUME NEW s \in PlLists, NEW u \in PlLists, NEW x \in PlNames
  PROVE  s \o Append(u, x) = Append(s \o u, x)
<1>1. s \o u \in PlLists /\ <<x>> \in PlLists
  BY ConcatProperties DEF PlLists
<1>2. Append(u, x) = u \o <<x>> /\ Append(s \o u, x) = (s \o u) \o <<x>>
  BY <1>1, AppendIsConcat DEF PlLists
<1> QED BY <1>1, <1>2, ConcatAssociative DEF PlLists

LEMMA PlOnlyConcat ==
  ASSUME NEW S, NEW s \in PlLists, NEW t \in PlLists
  PROVE  PL!Only(s \o t, S) = PL!Only(s, S) \o PL!Only(t, S)
<1> DEFINE T == {u \in PlLists : PL!Only(s \o u, S) = PL!Only(s, S) \o PL!Only(u, S)}
<1>0. PL!Only(s, S) \in PlLists
  BY PlOnlyType
<1>1. <<>> \in T
  <2>1. s \o <<>> = s /\ PL!Only(s, S) \o <<>> = PL!Only(s, S)
    BY <1>0, ConcatEmptySeq DEF PlLists
  <2> QED BY <2>1, PlOnlyEmpty, PlEmptyList
<1>2. ASSUME NEW u \in T, NEW x \in PlNames PROVE Append(u, x) \in T
  <2>0. u \in PlLists /\ PL!Only(u, S) \in PlLists
    <3>1. u \in PlLists
      OBVIOUS
    <3> QED BY <3>1, PlOnlyType
  <2>1. Append(u, x) \in PlLists /\ s \o u \in PlLists
    BY <2>0, PlAppendFacts, ConcatProperties DEF PlLists
  <2>2. s \o Append(u, x) = Append(s \o u, x)
    BY <2>0, PlConcatAppend
  <2>3. PL!Only(s, S) \o Append(PL!Only(u, S), x) = Append(PL!Only(s, S) \o PL!Only(u, S), x)
    BY <1>0, <2>0, PlConcatAppend
  <2>4. PL!Only(s \o Append(u, x), S) = PL!Only(s, S) \o PL!Only(Append(u, x), S)
    <3>1. PL!Only(Append(s \o u, x), S) =
            IF x \in S THEN Append(PL!Only(s \o u, S), x) ELSE PL!Only(s \o u, S)
      BY <2>1, PlOnlyAppend
    <3>2. PL!Only(Append(u, x), S) =
            IF x \in S THEN Append(PL!Only(u, S), x) ELSE PL!Only(u, S)
      BY <2>0, PlOnlyAppend
    <3>3. PL!Only(s \o u, S) = PL!Only(s, S) \o PL!Only(u, S)
      OBVIOUS
    <3> HIDE DEF T
    <3> QED BY <2>2, <2>3, <3>1, <3>2, <3>3
  <2> QED BY <2>1, <2>4
<1> HIDE DEF T
<1>3. T \subseteq PlLists
  BY DEF T
<1>4. T = PlLists
  BY <1>1, <1>2, <1>3, PlListInduction
<1> QED BY <1>4 DEF T

LEMMA PlToSetConcat ==
  ASSUME NEW s \in PlLists, NEW t \in PlLists
  PROVE  PL!ToSet(s \o t) = PL!ToSet(s) \cup PL!ToSet(t)
<1>1. /\ s \o t \in PlLists /\ Len(s \o t) = Len(s) + Len(t)
      /\ \A i \in 1 .. Len(s) + Len(t) :
           (s \o t)[i] = IF i <= Len(s) THEN s[i] ELSE t[i - Len(s)]
  BY ConcatProperties DEF PlLists
<1>2. /\ Len(s) \in Nat /\ Len(t) \in Nat
      /\ DOMAIN s = 1 .. Len(s) /\ DOMAIN t = 1 .. Len(t)
      /\ DOMAIN (s \o t) = 1 .. Len(s) + Len(t)
  BY <1>1 DEF PlLists
<1>3. PL!ToSet(s) \subseteq PL!ToSet(s \o t)
  BY <1>1, <1>2 DEF PL!ToSet
<1>4. PL!ToSet(t) \subseteq PL!ToSet(s \o t)
  <2>1. ASSUME NEW i \in 1 .. Len(t) PROVE t[i] \in PL!ToSet(s \o t)
    <3>1. i + Len(s) \in 1 .. Len(s) + Len(t) /\ ~(i + Len(s) <= Len(s))
          /\ (i + Len(s)) - Len(s) = i
      BY <1>2
    <3>2. (s \o t)[i + Len(s)] = t[i]
      BY <1>1, <3>1
    <3> QED BY <1>2, <3>1, <3>2 DEF PL!ToSet
  <2> QED BY <1>2, <2>1 DEF PL!ToSet
<1>5. PL!ToSet(s \o t) \subseteq PL!ToSet(s) \cup PL!ToSet(t)
  BY <1>1, <1>2 DEF PL!ToSet
<1> QED BY <1>3, <1>4, <1>5

LEMMA PlInjectiveConcat ==
  ASSUME NEW s \in PlLists, NEW t \in PlLists, PL!IsInjective(s), PL!IsInjective(t),
         PL!ToSet(s) \cap PL!ToSet(t) = {}
  PROVE  PL!IsInjective(s \o t)
<1>1. /\ s \o t \in PlLists /\ Len(s \o t) = Len(s) + Len(t)
      /\ \A i \in 1 .. Len(s) + Len(t) :
           (s \o t)[i] = IF i <= Len(s) THEN s[i] ELSE t[i - Len(s)]
  BY ConcatProperties DEF PlLists
<1>2. /\ Len(s) \in Nat /\ Len(t) \in Nat
      /\ DOMAIN s = 1 .. Len(s) /\ DOMAIN t = 1 .. Len(t)
      /\ DOMAIN (s \o t) = 1 .. Len(s) + Len(t)
  BY <1>1 DEF PlLists
<1>3. ASSUME NEW i \in 1 .. Len(s) + Len(t), NEW j \in 1 .. Len(s) + Len(t),
             (s \o t)[i] = (s \o t)[j]
      PROVE  i = j
  <2>1. CASE i <= Len(s) /\ j <= Len(s)
    <3>1. i \in DOMAIN s /\ j \in DOMAIN s /\ s[i] = s[j]
      BY <1>1, <1>2, <1>3, <2>1
    <3> QED BY <3>1 DEF PL!IsInjective
  <2>2. CASE ~(i <= Len(s)) /\ ~(j <= Len(s))
    <3>1. i - Len(s) \in DOMAIN t /\ j - Len(s) \in DOMAIN t
          /\ t[i - Len(s)] = t[j - Len(s)]
      BY <1>1, <1>2, <1>3, <2>2
    <3>2. i - Len(s) = j - Len(s)
      BY <3>1 DEF PL!IsInjective
    <3> QED BY <1>2, <3>2
  <2>3. CASE i <= Len(s) /\ ~(j <= Len(s))
    <3>1. i \in DOMAIN s /\ j - Len(s) \in DOMAIN t /\ s[i] = t[j - Len(s)]
      BY <1>1, <1>2, <1>3, <2>3
    <3> QED BY <3>1 DEF PL!ToSet
  <2>4. CASE ~(i <= Len(s)) /\ j <= Len(s)
    <3>1. j \in DOMAIN s /\ i - Len(s) \in DOMAIN t /\ s[j] = t[i - Len(s)]
      BY <1>1, <1>2, <1>3, <2>4
    <3> QED BY <3>1 DEF PL!ToSet
  <2> QED BY <2>1, <2>2, <2>3, <2>4
<1> QED BY <1>2, <1>3 DEF PL!IsInjective

\* A list that names one element once.
LEMMA PlOneElement ==
  ASSUME NEW s \in PlLists, PL!IsInjective(s)
  PROVE  /\ PL!ToSet(s) = {} <=> s = <<>>
         /\ Len(s) <= 1 /\ s # <<>> =>
              s = <<s[1]>> /\ PL!ToSet(s) = {s[1]} /\ s[1] \in PlNames
<1>1. Len(s) \in Nat /\ DOMAIN s = 1 .. Len(s) /\ s \in [1 .. Len(s) -> PlNames]
  BY LenProperties DEF PlLists
<1>2. ASSUME s # <<>> PROVE Len(s) # 0 /\ 1 \in DOMAIN s
  BY <1>1, <1>2, EmptySeq DEF PlLists
<1>3. PL!ToSet(s) = {} <=> s = <<>>
  BY <1>2, PlToSetEmpty DEF PL!ToSet
<1>4. ASSUME Len(s) <= 1, s # <<>>
      PROVE  s = <<s[1]>> /\ PL!ToSet(s) = {s[1]} /\ s[1] \in PlNames
  <2>1. Len(s) = 1
    BY <1>1, <1>2, <1>4
  <2>2. s[1] \in PlNames /\ PL!ToSet(s) = {s[1]}
    BY <1>1, <2>1 DEF PL!ToSet
  <2>3. s = <<s[1]>>
    BY <1>1, <2>1
  <2> QED BY <2>2, <2>3
<1> QED BY <1>3, <1>4
-----------------------------------------------------------------------------
(* The entry of the action *)

PlEntries == [calls : Seq(PlNames \cup {"core"}), wrapped : BOOLEAN]
PlCalls == [pc : {"core", "fetch", "wrap"}, fetched : PlEntries \cup {Unset}]

(* The configuration names a plugin once (load raises for one that is      *)
(* loaded), and Unset is no entry and no call.                             *)
PlConstantsOK ==
  /\ PlConfigured \in PlLists /\ PL!IsInjective(PlConfigured)
  /\ Unset \notin PlEntries /\ Unset \notin PlCalls

\* What Expected is, for any list of plugins.
PlChainFor(s) ==
  PL!Only(PlConfigured, PL!ToSet(s) \cap PlChained) \o PL!Only(s, PlChained \ PL!ToSet(PlConfigured))
PlExpectedFor(s) ==
  PlChainFor(s) \o (IF PL!ToSet(s) \ PlChained = {} THEN <<"core">>
                 ELSE <<CHOOSE p \in PL!ToSet(s) \ PlChained : TRUE>>)

LEMMA PlExpectedIsFor == PL!Expected = PlExpectedFor(plService)
BY DEF PL!Expected, PlExpectedFor, PlChainFor

LEMMA PlSetOfNames == ASSUME NEW s \in PlLists
                      PROVE PL!ToSet(s) \subseteq PlNames
BY DEF PlLists, PL!ToSet

\* The implementations are the plugins, each once.
LEMMA PlImplementationsSet ==
  ASSUME PlConstantsOK, NEW s \in PlLists, PL!IsInjective(s)
  PROVE  /\ PL!Implementations(s) \in PlLists
         /\ PL!ToSet(PL!Implementations(s)) = PL!ToSet(s)
         /\ PL!IsInjective(PL!Implementations(s))
<1> DEFINE a == PL!Only(PlConfigured, PL!ToSet(s))
<1> DEFINE b == PL!Only(s, PlNames \ PL!ToSet(PlConfigured))
<1>1. a \in PlLists /\ b \in PlLists
  BY PlOnlyType DEF PlConstantsOK
<1>2. /\ PL!ToSet(a) = PL!ToSet(PlConfigured) \cap PL!ToSet(s)
      /\ PL!ToSet(b) = PL!ToSet(s) \cap (PlNames \ PL!ToSet(PlConfigured))
  BY PlOnlySet DEF PlConstantsOK
<1>3. PL!IsInjective(a) /\ PL!IsInjective(b)
  BY PlOnlyInjective DEF PlConstantsOK
<1>4. PL!Implementations(s) = a \o b
  BY DEF PL!Implementations
<1> HIDE DEF a, b
<1>5. PL!ToSet(s) \subseteq PlNames
  BY PlSetOfNames
<1>6. PL!ToSet(a \o b) = PL!ToSet(a) \cup PL!ToSet(b)
  BY <1>1, PlToSetConcat
<1>7. a \o b \in PlLists
  BY <1>1, ConcatProperties DEF PlLists
<1>8. PL!IsInjective(a \o b)
  BY <1>1, <1>2, <1>3, PlInjectiveConcat
<1> QED BY <1>2, <1>4, <1>5, <1>6, <1>7, <1>8

\* The order of the plugins in a chain is that of the configuration.
LEMMA PlChainIs ==
  ASSUME PlConstantsOK, NEW s \in PlLists
  PROVE  PL!ChainedOf(s) = PlChainFor(s) /\ PL!ChainedOf(s) \in PlLists
<1> DEFINE a == PL!Only(PlConfigured, PL!ToSet(s))
<1> DEFINE b == PL!Only(s, PlNames \ PL!ToSet(PlConfigured))
<1>1. a \in PlLists /\ b \in PlLists
  BY PlOnlyType DEF PlConstantsOK
<1>2. PL!ChainedOf(s) = PL!Only(a, PlChained) \o PL!Only(b, PlChained)
  BY <1>1, PlOnlyConcat DEF PL!ChainedOf, PL!Implementations
<1>3. PL!Only(a, PlChained) = PL!Only(PlConfigured, PL!ToSet(s) \cap PlChained)
  BY PlOnlyOnly DEF PlConstantsOK
<1>4. PL!Only(b, PlChained) = PL!Only(s, (PlNames \ PL!ToSet(PlConfigured)) \cap PlChained)
  BY PlOnlyOnly
<1>5. PL!Only(s, (PlNames \ PL!ToSet(PlConfigured)) \cap PlChained)
        = PL!Only(s, PlChained \ PL!ToSet(PlConfigured))
  BY PlOnlySame, PlSetOfNames
<1>6. PlChainFor(s) \in PlLists
  <2>1. /\ PL!Only(PlConfigured, PL!ToSet(s) \cap PlChained) \in PlLists
        /\ PL!Only(s, PlChained \ PL!ToSet(PlConfigured)) \in PlLists
    BY PlOnlyType DEF PlConstantsOK
  <2> QED BY <2>1, ConcatProperties DEF PlChainFor, PlLists
<1> HIDE DEF a, b
<1> QED BY <1>2, <1>3, <1>4, <1>5, <1>6 DEF PlChainFor

\* The plugin that ends a chain, if there is no conflict.
LEMMA PlPlainIs ==
  ASSUME PlConstantsOK, NEW s \in PlLists, PL!IsInjective(s)
  PROVE  /\ PL!PlainOf(s) \in PlLists
         /\ PL!ToSet(s) \ PlChained = {} <=> PL!PlainOf(s) = <<>>
         /\ ~PL!Conflict(s) /\ PL!PlainOf(s) # <<>> =>
              PL!PlainOf(s) = <<CHOOSE p \in PL!ToSet(s) \ PlChained : TRUE>>
<1> DEFINE a == PL!Implementations(s)
<1>1. a \in PlLists /\ PL!ToSet(a) = PL!ToSet(s) /\ PL!IsInjective(a)
  BY PlImplementationsSet
<1>2. PL!PlainOf(s) = PL!Only(a, PlNames \ PlChained)
  BY DEF PL!PlainOf
<1> HIDE DEF a
<1>3. /\ PL!PlainOf(s) \in PlLists
      /\ PL!IsInjective(PL!PlainOf(s))
      /\ PL!ToSet(PL!PlainOf(s)) = PL!ToSet(s) \cap (PlNames \ PlChained)
  BY <1>1, <1>2, PlOnlyType, PlOnlyInjective, PlOnlySet
<1>4. PL!ToSet(PL!PlainOf(s)) = PL!ToSet(s) \ PlChained
  BY <1>3, PlSetOfNames
<1>5. ASSUME ~PL!Conflict(s), PL!PlainOf(s) # <<>>
      PROVE  PL!PlainOf(s) = <<CHOOSE p \in PL!ToSet(s) \ PlChained : TRUE>>
  <2> DEFINE x == PL!PlainOf(s)[1]
  <2>1. Len(PL!PlainOf(s)) <= 1
    BY <1>3, <1>5 DEF PL!Conflict, PlLists
  <2>2. PL!PlainOf(s) = <<x>> /\ PL!ToSet(PL!PlainOf(s)) = {x}
    BY <1>3, <1>5, <2>1, PlOneElement
  <2> HIDE DEF x
  <2>3. (CHOOSE p \in PL!ToSet(s) \ PlChained : TRUE) = x
    BY <1>4, <2>2
  <2> QED BY <2>2, <2>3
<1> QED BY <1>3, <1>4, <1>5, PlOneElement
PlRight(s) == [calls |-> PlExpectedFor(s), wrapped |-> TRUE]

LEMMA PlCoreType == PL!Core \in PlEntries
<1>1. <<"core">> \in Seq(PlNames \cup {"core"})
  OBVIOUS
<1> QED BY <1>1 DEF PL!Core, PlEntries

\* A name or core's: the functions that an entry calls.
LEMMA PlCallsType ==
  ASSUME NEW s \in PlLists, NEW c \in Seq(PlNames \cup {"core"})
  PROVE  s \o c \in Seq(PlNames \cup {"core"})
<1>1. s \in Seq(PlNames \cup {"core"})
  BY SeqMonotonic DEF PlLists
<1> QED BY <1>1, ConcatProperties

LEMMA PlListCalls ==
  ASSUME NEW s \in PlLists PROVE s \in Seq(PlNames \cup {"core"})
BY SeqMonotonic DEF PlLists

LEMMA PlWrappedIs ==
  ASSUME NEW a \in PlEntries
  PROVE  PL!Wrapped(a) = [calls |-> a.calls, wrapped |-> TRUE] /\ PL!Wrapped(a) \in PlEntries
BY DEF PL!Wrapped, PlEntries

LEMMA PlFetchedType ==
  ASSUME PlConstantsOK, NEW s \in PlLists, PL!IsInjective(s), NEW a \in PlEntries
  PROVE  PL!Fetched(s, a) \in PlEntries \cup {Unset}
<1>1. PL!ChainedOf(s) \in PlLists /\ PL!PlainOf(s) \in PlLists
  BY PlChainIs, PlPlainIs
<1>2. (IF PL!PlainOf(s) = <<>> THEN a.calls ELSE PL!PlainOf(s))
        \in Seq(PlNames \cup {"core"})
  BY <1>1, PlListCalls DEF PlEntries
<1>3. PL!ChainedOf(s) \o (IF PL!PlainOf(s) = <<>> THEN a.calls ELSE PL!PlainOf(s))
        \in Seq(PlNames \cup {"core"})
  BY <1>1, <1>2, PlCallsType
<1> QED BY <1>3 DEF PL!Fetched, PlEntries

\* What a build makes of the plugins in s when there is no conflict.
LEMMA PlFetchedRight ==
  ASSUME PlConstantsOK, NEW s \in PlLists, PL!IsInjective(s), ~PL!Conflict(s)
  PROVE  PL!Wrapped(IF PL!Fetched(s, PL!Core) = Unset THEN PL!Core ELSE PL!Fetched(s, PL!Core))
           = PlRight(s)
<1> DEFINE chain == PL!ChainedOf(s)
<1> DEFINE plain == PL!PlainOf(s)
<1> DEFINE f == PL!Fetched(s, PL!Core)
<1>1. chain = PlChainFor(s) /\ chain \in PlLists /\ plain \in PlLists
  BY PlChainIs, PlPlainIs
<1>2. PlExpectedFor(s) = chain \o (IF plain = <<>> THEN <<"core">> ELSE plain)
  BY <1>1, PlPlainIs DEF PlExpectedFor
<1>3. chain \o plain = <<>> <=> chain = <<>> /\ plain = <<>>
  BY <1>1, ConcatEqualIffEmpty DEF PlLists
<1>4. CASE chain \o plain = <<>>
  <2>1. f = Unset
    BY <1>4 DEF PL!Fetched
  <2>2. PlExpectedFor(s) = <<"core">>
    <3>1. <<>> \o <<"core">> = <<"core">>
      BY ConcatEmptySeq, PlListCalls, PlEmptyList
    <3> QED BY <1>2, <1>3, <1>4, <3>1
  <2> QED BY <2>1, <2>2, PlWrappedIs, PlCoreType DEF PlRight, PL!Core
<1>5. CASE chain \o plain # <<>>
  <2>1. f = [calls |-> PlExpectedFor(s), wrapped |-> FALSE]
    BY <1>2, <1>5 DEF PL!Fetched, PL!Core
  <2>2. f # Unset /\ f \in PlEntries
    <3>1. (IF plain = <<>> THEN <<"core">> ELSE plain) \in Seq(PlNames \cup {"core"})
      <4>1. <<"core">> \in Seq(PlNames \cup {"core"})
        OBVIOUS
      <4>2. plain \in Seq(PlNames \cup {"core"})
        BY <1>1, PlListCalls
      <4> QED BY <4>1, <4>2
    <3>2. PlExpectedFor(s) \in Seq(PlNames \cup {"core"})
      BY <1>1, <1>2, <3>1, PlCallsType
    <3>3. f \in PlEntries
      BY <2>1, <3>2 DEF PlEntries
    <3> QED BY <3>3 DEF PlConstantsOK
  <2>3. PL!Wrapped(f) = [calls |-> f.calls, wrapped |-> TRUE]
    BY <2>2, PlWrappedIs
  <2>4. f.calls = PlExpectedFor(s)
    BY <2>1
  <2> QED BY <2>2, <2>3, <2>4 DEF PlRight
<1> QED BY <1>4, <1>5

PlTypes ==
  /\ plPlugins \in PlLists /\ plService \in PlLists
  /\ plActions \in PlEntries \cup {Unset}
  /\ plTables \in BOOLEAN /\ plMixed \in BOOLEAN
  /\ plBroken \subseteq PlNames
  /\ plCall \in [PlThreads -> PlCalls \cup {Unset}]

\* One thread builds, and nothing else has changed since it began.
PlSound ==
  ~plMixed =>
    /\ \A t, u \in PlThreads : plCall[t] # Unset /\ plCall[u] # Unset => t = u
    /\ PL!Building = {} /\ plActions # Unset => plActions = PlRight(plService)
    /\ \A t \in PlThreads :
         /\ PL!At(t, "core") => plActions = Unset
         /\ PL!At(t, "fetch") => plActions = PL!Core
         /\ PL!At(t, "wrap") =>
              /\ plActions = PL!Core /\ ~PL!Conflict(plService)
              /\ plCall[t].fetched = PL!Fetched(plService, PL!Core)

PlInv == PlTypes /\ PL!RegistersAgree /\ PlSound

LEMMA PlInitInv == ASSUME PlConstantsOK, PL!Init PROVE PlInv
<1>1. PlTypes
  BY PlEmptyList DEF PL!Init, PlTypes
<1>2. PL!RegistersAgree
  BY PlInjectiveEmpty, PlToSetEmpty DEF PL!Init, PL!RegistersAgree
<1>3. PlSound
  BY DEF PL!Init, PlSound, PL!Building, PL!At
<1> QED BY <1>1, <1>2, <1>3 DEF PlInv

\* What update_config leaves is an entry, and the right one.
LEMMA PlBuiltRight ==
  ASSUME PlConstantsOK, NEW s \in PlLists, PL!IsInjective(s)
  PROVE  /\ PL!Built(s) \in PlEntries \cup {Unset}
         /\ ~(plTables /\ PL!Conflict(s)) /\ PL!Built(s) # Unset => PL!Built(s) = PlRight(s)
<1> DEFINE f == IF PL!Fetched(s, PL!Core) = Unset THEN PL!Core ELSE PL!Fetched(s, PL!Core)
<1>1. f \in PlEntries
  BY PlCoreType, PlFetchedType
<1>2. PL!Wrapped(f) \in PlEntries
  BY <1>1, PlWrappedIs
<1>3. ~PL!Conflict(s) => PL!Wrapped(f) = PlRight(s)
  BY PlFetchedRight
<1>4. PL!Built(s) = IF ~plTables THEN Unset
                 ELSE IF PL!Conflict(s) THEN PL!Core ELSE PL!Wrapped(f)
  BY DEF PL!Built
<1> HIDE DEF f
<1> QED BY <1>2, <1>3, <1>4, PlCoreType

\* Whatever changes the plugins.
LEMMA PlUpdateSound ==
  ASSUME PlConstantsOK, PlInv, plService' \in PlLists, PL!IsInjective(plService'),
         NEW fails \in BOOLEAN, PL!PluginsUpdate(plService', fails),
         UNCHANGED <<plTables, plCall>>
  PROVE  plActions' \in PlEntries \cup {Unset} /\ plMixed' \in BOOLEAN /\ PlSound'
<1>1. CASE fails
  BY <1>1 DEF PlInv, PlTypes, PlSound, PL!PluginsUpdate
<1>2. CASE ~fails
  <2>1. /\ plActions' = PL!Built(plService')
        /\ plMixed' = (PL!Building # {} \/ (plTables /\ PL!Conflict(plService')))
    BY <1>2 DEF PL!PluginsUpdate
  <2>2. /\ plActions' \in PlEntries \cup {Unset}
        /\ ~(plTables /\ PL!Conflict(plService')) /\ plActions' # Unset =>
             plActions' = PlRight(plService')
    BY <2>1, PlBuiltRight
  <2>3. plMixed' \in BOOLEAN
    BY <2>1
  <2>4. ASSUME ~plMixed'
        PROVE PL!Building = {} /\ ~(plTables /\ PL!Conflict(plService'))
    BY <2>1, <2>4
  <2>5. PL!Building' = PL!Building
    BY DEF PL!Building
  <2>6. PlRight(plService)' = PlRight(plService')
    BY DEF PlRight, PlExpectedFor, PlChainFor
  <2>7. ASSUME ~plMixed' PROVE \A t \in PlThreads : plCall'[t] = Unset
    BY <2>4, <2>7 DEF PL!Building
  <2> QED BY <2>2, <2>3, <2>4, <2>5, <2>6, <2>7 DEF PlSound, PL!At
<1> QED BY <1>1, <1>2
LEMMA PlWithoutIs ==
  ASSUME NEW s \in PlLists, NEW S, PL!IsInjective(s)
  PROVE  /\ PL!Only(s, PlNames \ S) \in PlLists /\ PL!IsInjective(PL!Only(s, PlNames \ S))
         /\ PL!ToSet(PL!Only(s, PlNames \ S)) = PL!ToSet(s) \ S
BY PlOnlyType, PlOnlySet, PlOnlyInjective, PlSetOfNames

LEMMA PlEnterIs ==
  ASSUME NEW s \in PlLists, NEW p \in PlNames, PL!IsInjective(s)
  PROVE  /\ PL!Enter(s, p) \in PlLists /\ PL!IsInjective(PL!Enter(s, p))
         /\ PL!ToSet(PL!Enter(s, p)) = PL!ToSet(s) \cup {p}
BY PlAppendFacts, PlToSetAppend, PlInjectiveAppend DEF PL!Enter

\* The registers after one of them was changed.
LEMMA PlLoadRegisters ==
  ASSUME PlConstantsOK, PlInv, NEW p \in PlNames, NEW fail, PL!Load(p, fail)
  PROVE  /\ plPlugins' \in PlLists /\ plService' \in PlLists
         /\ plBroken' \subseteq PlNames /\ PL!RegistersAgree'
<1>1. /\ plService' \in PlLists /\ PL!IsInjective(plService')
      /\ PL!ToSet(plService') = PL!ToSet(plService) \cup {p}
  BY PlEnterIs DEF PL!Load, PlInv, PlTypes, PL!RegistersAgree
<1>2. CASE fail = "observer"
  <2>1. plPlugins' = plPlugins /\ plBroken' = plBroken \cup {p} /\ p \notin PL!ToSet(plPlugins)
    BY <1>2 DEF PL!Load
  <2> QED BY <1>1, <2>1 DEF PlInv, PlTypes, PL!RegistersAgree
<1>3. CASE fail # "observer"
  <2>1. plPlugins' = Append(plPlugins, p) /\ plBroken' = plBroken \ {p}
        /\ p \notin PL!ToSet(plPlugins)
    BY <1>3 DEF PL!Load
  <2>2. /\ plPlugins' \in PlLists /\ PL!IsInjective(plPlugins')
        /\ PL!ToSet(plPlugins') = PL!ToSet(plPlugins) \cup {p}
    BY <2>1, PlAppendFacts, PlToSetAppend, PlInjectiveAppend DEF PlInv,
         PlTypes, PL!RegistersAgree
  <2> QED BY <1>1, <2>1, <2>2 DEF PlInv, PlTypes, PL!RegistersAgree
<1> QED BY <1>2, <1>3

LEMMA PlUnloadRegisters ==
  ASSUME PlConstantsOK, PlInv, NEW p \in PlNames, NEW fail, PL!Unload(p, fail)
  PROVE  /\ plPlugins' \in PlLists /\ plService' \in PlLists
         /\ plBroken' \subseteq PlNames /\ PL!RegistersAgree'
<1>1. /\ plService' \in PlLists /\ PL!IsInjective(plService')
      /\ PL!ToSet(plService') = PL!ToSet(plService) \ {p}
  BY PlWithoutIs DEF PL!Unload, PL!Without, PlInv, PlTypes, PL!RegistersAgree
<1>2. /\ plPlugins' \in PlLists /\ PL!IsInjective(plPlugins')
      /\ PL!ToSet(plPlugins') = PL!ToSet(plPlugins) \ {p}
  BY PlWithoutIs DEF PL!Unload, PL!Without, PlInv, PlTypes, PL!RegistersAgree
<1> QED BY <1>1, <1>2 DEF PL!Unload, PlInv, PlTypes, PL!RegistersAgree

LEMMA PlLoadAllRegisters ==
  ASSUME PlConstantsOK, PlInv, PL!LoadAll
  PROVE  /\ plPlugins' \in PlLists /\ plService' \in PlLists
         /\ plBroken' \subseteq PlNames /\ PL!RegistersAgree'
<1> DEFINE kept == PL!Only(plService, PlNames \ PL!ToSet(plPlugins))
<1>1. /\ kept \in PlLists /\ PL!IsInjective(kept)
      /\ PL!ToSet(kept) = plBroken
  BY PlWithoutIs DEF PlInv, PlTypes, PL!RegistersAgree
<1> DEFINE fresh == PL!Only(PlConfigured, PlNames \ PL!ToSet(kept))
<1>2. /\ fresh \in PlLists /\ PL!IsInjective(fresh)
      /\ PL!ToSet(fresh) = PL!ToSet(PlConfigured) \ PL!ToSet(kept)
  BY PlWithoutIs DEF PlConstantsOK
<1>3. plService' = kept \o fresh /\ plPlugins' = PlConfigured
      /\ plBroken' = plBroken \ PL!ToSet(PlConfigured)
  BY DEF PL!LoadAll
<1> HIDE DEF kept, fresh
<1>4. /\ plService' \in PlLists /\ PL!IsInjective(plService')
      /\ PL!ToSet(plService') = plBroken \cup PL!ToSet(PlConfigured)
  <2>1. kept \o fresh \in PlLists
    BY <1>1, <1>2, ConcatProperties DEF PlLists
  <2>2. PL!IsInjective(kept \o fresh)
    BY <1>1, <1>2, PlInjectiveConcat
  <2>3. PL!ToSet(kept \o fresh) = PL!ToSet(kept) \cup PL!ToSet(fresh)
    BY <1>1, <1>2, PlToSetConcat
  <2> QED BY <1>1, <1>2, <1>3, <2>1, <2>2, <2>3
<1> QED BY <1>3, <1>4 DEF PlConstantsOK, PlInv, PlTypes, PL!RegistersAgree

\* One thread builds.
LEMMA PlBuildSound ==
  ASSUME PlConstantsOK, PlInv, NEW t \in PlThreads,
         PL!FindEmpty(t) \/ PL!EnterCore(t) \/ PL!Fetch(t) \/ PL!UpdateAndWrap(t)
  PROVE  PlInv'
<1> USE DEF PlInv, PlTypes
<1>0. PL!RegistersAgree' /\ UNCHANGED <<plPlugins, plService, plTables, plBroken>>
      /\ \A s : (PL!Conflict(s)' <=> PL!Conflict(s)) /\ PlRight(s)' = PlRight(s)
  BY DEF PL!FindEmpty, PL!EnterCore, PL!Fetch, PL!UpdateAndWrap,
       PL!RegistersAgree
<1>1. CASE PL!FindEmpty(t)
  <2> DEFINE c == [pc |-> "core", fetched |-> Unset]
  <2>1. c \in PlCalls /\ c # Unset /\ c.pc = "core"
    BY DEF PlCalls, PlConstantsOK
  <2>2. plCall[t] = Unset /\ plActions = Unset
        /\ plCall' = [plCall EXCEPT ![t] = c] /\ plMixed' = (plMixed \/ PL!Building # {})
        /\ UNCHANGED plActions
    BY <1>1 DEF PL!FindEmpty
  <2> HIDE DEF c
  <2>3. PlTypes'
    BY <1>0, <2>1, <2>2
  <2>4. ASSUME ~plMixed' PROVE \A u \in PlThreads \ {t} : plCall'[u] = Unset
    BY <2>2, <2>4 DEF PL!Building
  <2>5. plCall'[t] = c /\ t \in PL!Building'
    BY <2>1, <2>2 DEF PL!Building
  <2>6. PlSound'
    BY <2>1, <2>2, <2>4, <2>5 DEF PlSound, PL!At
  <2> QED BY <1>0, <2>3, <2>6
<1>2. CASE PL!EnterCore(t)
  <2> DEFINE c == [plCall[t] EXCEPT !.pc = "fetch"]
  <2>1. plCall[t] # Unset /\ plCall[t] \in PlCalls
    BY <1>2 DEF PL!EnterCore, PL!At
  <2>2. c \in PlCalls /\ c.pc = "fetch" /\ c # Unset
    BY <2>1 DEF PlCalls, PlConstantsOK
  <2>3. plCall' = [plCall EXCEPT ![t] = c] /\ plActions' = PL!Core /\ UNCHANGED plMixed
    BY <1>2 DEF PL!EnterCore
  <2> HIDE DEF c
  <2>4. PlTypes'
    BY <1>0, <2>2, <2>3, PlCoreType
  <2>5. ASSUME ~plMixed' PROVE \A u \in PlThreads \ {t} : plCall'[u] = Unset
    BY <2>1, <2>3, <2>5 DEF PlSound
  <2>6. plCall'[t] = c /\ t \in PL!Building'
    BY <2>2, <2>3 DEF PL!Building
  <2>7. PlSound'
    BY <2>2, <2>3, <2>5, <2>6 DEF PlSound, PL!At
  <2> QED BY <1>0, <2>4, <2>7
<1>3. CASE PL!Fetch(t)
  <2>1. plCall[t] # Unset /\ plCall[t].pc = "fetch" /\ UNCHANGED plActions
    BY <1>3 DEF PL!Fetch, PL!At
  <2>2. CASE PL!Conflict(plService)
    <3>1. plCall' = [plCall EXCEPT ![t] = Unset] /\ plMixed' = TRUE
      BY <1>3, <2>2 DEF PL!Fetch
    <3> QED BY <1>0, <2>1, <3>1 DEF PlSound
  <2>3. CASE ~PL!Conflict(plService)
    <3> DEFINE f == PL!Fetched(plService, IF plActions = Unset THEN PL!Core ELSE plActions)
    <3> DEFINE c == [pc |-> "wrap", fetched |-> f]
    <3>1. f \in PlEntries \cup {Unset}
      BY PlCoreType, PlFetchedType DEF PL!RegistersAgree
    <3>2. c \in PlCalls /\ c # Unset /\ c.pc = "wrap" /\ c.fetched = f
      BY <3>1 DEF PlCalls, PlConstantsOK
    <3>3. plCall' = [plCall EXCEPT ![t] = c] /\ UNCHANGED plMixed
      BY <1>3, <2>3 DEF PL!Fetch
    <3>4. ASSUME ~plMixed
          PROVE plActions = PL!Core /\ f = PL!Fetched(plService, PL!Core)
      BY <2>1, <3>4, PlCoreType DEF PlSound, PL!At, PlConstantsOK
    <3> HIDE DEF c, f
    <3>5. PlTypes'
      BY <1>0, <2>1, <3>2, <3>3
    <3>6. ASSUME ~plMixed' PROVE \A u \in PlThreads \ {t} : plCall'[u] = Unset
      BY <2>1, <3>3, <3>6 DEF PlSound
    <3>7. plCall'[t] = c /\ t \in PL!Building'
      BY <3>2, <3>3 DEF PL!Building
    <3>8. (PL!Fetched(plService, PL!Core))' = PL!Fetched(plService, PL!Core)
      BY <1>0 DEF PL!Fetched, PL!ChainedOf, PL!PlainOf, PL!Implementations,
           PL!Core
    <3>9. PlSound'
      BY <1>0, <2>1, <2>3, <3>2, <3>3, <3>4, <3>6, <3>7, <3>8 DEF PlSound,
           PL!At, PL!Core
    <3> QED BY <1>0, <3>5, <3>9
  <2> QED BY <2>2, <2>3
<1>4. CASE PL!UpdateAndWrap(t)
  <2> DEFINE f == plCall[t].fetched
  <2>1. plCall[t] # Unset /\ plCall[t].pc = "wrap" /\ f \in PlEntries \cup {Unset}
    BY <1>4 DEF PL!UpdateAndWrap, PL!At, PlCalls
  <2>2. /\ plActions' = IF f # Unset THEN PL!Wrapped(f)
                     ELSE IF plActions = Unset THEN Unset ELSE PL!Wrapped(plActions)
        /\ plCall' = [plCall EXCEPT ![t] = Unset] /\ UNCHANGED plMixed
    BY <1>4 DEF PL!UpdateAndWrap
  <2> HIDE DEF f
  <2>3. PlTypes'
    BY <1>0, <2>1, <2>2, PlWrappedIs
  <2>4. ASSUME ~plMixed' PROVE \A u \in PlThreads : plCall'[u] = Unset
    BY <2>1, <2>2, <2>4 DEF PlSound
  <2>5. ASSUME ~plMixed' PROVE plActions' = PlRight(plService)
    <3>1. plActions = PL!Core /\ ~PL!Conflict(plService) /\ f = PL!Fetched(plService, PL!Core)
      BY <2>1, <2>2, <2>5 DEF PlSound, PL!At, f
    <3>2. PL!Core # Unset
      BY PlCoreType DEF PlConstantsOK
    <3>3. plActions' = PL!Wrapped(IF f = Unset THEN PL!Core ELSE f)
      BY <2>2, <3>1, <3>2
    <3> QED BY <3>1, <3>3, PlFetchedRight DEF PL!RegistersAgree
  <2>6. PlRight(plService)' = PlRight(plService)
    BY <1>0 DEF PlRight, PlExpectedFor, PlChainFor
  <2>7. PlSound'
    BY <2>4, <2>5, <2>6 DEF PlSound, PL!At
  <2> QED BY <1>0, <2>3, <2>7
<1> QED BY <1>1, <1>2, <1>3, <1>4

LEMMA PlInvNext == ASSUME PlConstantsOK, PlInv, [PL!Next]_(PL!vars)
                   PROVE PlInv'
<1>1. ASSUME NEW p \in PlNames, NEW fail \in {"none", "observer", "update"},
             PL!Load(p, fail) \/ PL!Unload(p, fail)
      PROVE  PlInv'
  <2>1. /\ plPlugins' \in PlLists /\ plService' \in PlLists
        /\ plBroken' \subseteq PlNames /\ PL!RegistersAgree'
    BY <1>1, PlLoadRegisters, PlUnloadRegisters
  <2>2. PL!PluginsUpdate(plService', fail # "none") /\ UNCHANGED <<plTables, plCall>>
    BY <1>1 DEF PL!Load, PL!Unload
  <2>3. plActions' \in PlEntries \cup {Unset} /\ plMixed' \in BOOLEAN /\ PlSound'
    <3>1. PL!IsInjective(plService') /\ (fail # "none") \in BOOLEAN
      BY <2>1 DEF PL!RegistersAgree
    <3> QED BY <2>1, <2>2, <3>1, PlUpdateSound
  <2> QED BY <2>1, <2>2, <2>3 DEF PlInv, PlTypes
<1>2. CASE PL!LoadAll
  <2>1. /\ plPlugins' \in PlLists /\ plService' \in PlLists
        /\ plBroken' \subseteq PlNames /\ PL!RegistersAgree'
    BY <1>2, PlLoadAllRegisters
  <2>2. PL!PluginsUpdate(plService', FALSE) /\ UNCHANGED <<plTables, plCall>>
    BY <1>2 DEF PL!LoadAll
  <2>3. plActions' \in PlEntries \cup {Unset} /\ plMixed' \in BOOLEAN /\ PlSound'
    BY <2>1, <2>2, PlUpdateSound DEF PL!RegistersAgree
  <2> QED BY <2>1, <2>2, <2>3 DEF PlInv, PlTypes
<1>3. CASE PL!InitDatabase
  <2>1. UNCHANGED <<plPlugins, plService, plActions, plCall, plBroken, plMixed>> /\ plTables' = TRUE
    BY <1>3 DEF PL!InitDatabase
  <2>2. PlSound'
    BY <2>1 DEF PlInv, PlSound, PL!At, PL!Building, PlRight, PlExpectedFor,
         PlChainFor, PL!Conflict,
                PL!PlainOf, PL!Implementations, PL!Fetched, PL!ChainedOf, PL!Core
  <2> QED BY <2>1, <2>2 DEF PlInv, PlTypes, PL!RegistersAgree
<1>4. CASE UNCHANGED PL!vars
  <2>1. PlSound'
    BY <1>4 DEF PlInv, PlSound, PL!At, PL!Building, PlRight, PlExpectedFor,
         PlChainFor, PL!Conflict,
                PL!PlainOf, PL!Implementations, PL!Fetched, PL!ChainedOf, PL!Core, PL!vars
  <2> QED BY <1>4, <2>1 DEF PlInv, PlTypes, PL!RegistersAgree, PL!vars
<1> QED BY <1>1, <1>2, <1>3, <1>4, PlBuildSound DEF PL!Next

LEMMA PlInvHolds == ASSUME PlConstantsOK PROVE PL!Spec => []PlInv
<1>1. PL!Init => PlInv
  BY PlInitInv
<1>2. PlInv /\ [PL!Next]_(PL!vars) => PlInv'
  BY PlInvNext
<1> QED BY <1>1, <1>2, PTL DEF PL!Spec

(* Plugins: The registers agree, and what get_action returns calls the     *)
(* plugins that are in, in the order of the configuration, wrapped by the  *)
(* audit of authorization.                                                 *)
THEOREM PlActionsDoFollow == ASSUME PlConstantsOK PROVE PL!Spec => []PL!ActionsFollowPlugins
<1>1. PlInv => PL!ActionsFollowPlugins
  BY PlExpectedIsFor DEF PlInv, PlSound, PlRight, PL!ActionsFollowPlugins
<1> QED BY <1>1, PlInvHolds, PTL

-----------------------------------------------------------------------------
(* Tracking: the summary follows the views                                 *)

\* The component counts as the other modules do.
LEMMA TrCardinality == \A S : TR!Cardinality(S) = Cardinality(S)
BY DEF TR!Cardinality, Cardinality

-----------------------------------------------------------------------------
(* Sums over finite sets *)

TrPick(s) == CHOOSE x \in s : TRUE

\* h sums f over the subsets of S that have at most k elements.
TrSums(h, f, S, k) ==
  h = [s \in {t \in SUBSET S : TR!Cardinality(t) <= k} |->
         IF s = {} THEN 0 ELSE f[TrPick(s)] + h[s \ {TrPick(s)}]]

TrSolves(h, f, S) ==
  h = [s \in SUBSET S |-> IF s = {} THEN 0 ELSE f[TrPick(s)] + h[s \ {TrPick(s)}]]

LEMMA TrSumIs ==
  ASSUME NEW f, NEW S
  PROVE  TR!Sum(f, S) = (CHOOSE h : TrSolves(h, f, S))[S]
BY DEF TR!Sum, TR!MapThenSumSet, TR!MapThenFoldSet, TrSolves, TrPick

\* The set without the element that is picked is smaller.
LEMMA TrFewer ==
  ASSUME NEW s, IsFiniteSet(s), s # {}
  PROVE  /\ TrPick(s) \in s /\ IsFiniteSet(s \ {TrPick(s)})
         /\ TR!Cardinality(s) \in Nat
         /\ TR!Cardinality(s \ {TrPick(s)}) = TR!Cardinality(s) - 1
<1>1. TrPick(s) \in s
  BY DEF TrPick
<1> QED BY <1>1, FS_RemoveElement, FS_CardinalityType, TrCardinality

LEMMA TrSumsExist ==
  ASSUME NEW f, NEW S, IsFiniteSet(S)
  PROVE  \A k \in Nat : \E h : TrSums(h, f, S, k)
<1> DEFINE T == {k \in Nat : \E h : TrSums(h, f, S, k)}
<1> DEFINE Small(k) == {t \in SUBSET S : TR!Cardinality(t) <= k}
<1>0. \A t \in SUBSET S : IsFiniteSet(t) /\ TR!Cardinality(t) \in Nat
  BY FS_Subset, FS_CardinalityType, TrCardinality
<1>1. 0 \in T
  <2> DEFINE h == [s \in Small(0) |-> 0]
  <2>1. \A s \in Small(0) : s = {}
    BY <1>0, FS_EmptySet, TrCardinality
  <2>2. TrSums(h, f, S, 0)
    BY <2>1 DEF TrSums
  <2> QED BY <2>2
<1>2. ASSUME NEW k \in Nat, k \in T PROVE k + 1 \in T
  <2>1. PICK h : TrSums(h, f, S, k)
    BY <1>2
  <2> DEFINE g == [s \in Small(k + 1) |->
                     IF s = {} THEN 0 ELSE f[TrPick(s)] + h[s \ {TrPick(s)}]]
  <2>2. ASSUME NEW s \in Small(k + 1), s # {}
        PROVE  g[s \ {TrPick(s)}] = h[s \ {TrPick(s)}]
    <3> DEFINE t == s \ {TrPick(s)}
    <3>1. IsFiniteSet(s)
      BY <1>0
    <3>2. t \in Small(k)
      BY <1>0, <2>2, <3>1, TrFewer
    <3>3. t \in Small(k + 1)
      BY <1>0, <3>2
    <3>4. h[t] = IF t = {} THEN 0 ELSE f[TrPick(t)] + h[t \ {TrPick(t)}]
      BY <2>1, <3>2, Zenon DEF TrSums
    <3>5. g[t] = IF t = {} THEN 0 ELSE f[TrPick(t)] + h[t \ {TrPick(t)}]
      BY <3>3, Zenon
    <3> QED BY <3>4, <3>5
  <2>3. g = [s \in Small(k + 1) |->
               IF s = {} THEN 0 ELSE f[TrPick(s)] + g[s \ {TrPick(s)}]]
    BY <2>2, Zenon
  <2> HIDE DEF g
  <2>4. TrSums(g, f, S, k + 1)
    BY <2>3, Zenon DEF TrSums
  <2> QED BY <2>4
<1> HIDE DEF T
<1>3. T \subseteq Nat
  BY DEF T
<1>4. T = Nat
  BY <1>1, <1>2, <1>3, Induction
<1> QED BY <1>4 DEF T

LEMMA TrSolvesExist ==
  ASSUME NEW f, NEW S, IsFiniteSet(S)
  PROVE  TrSolves(CHOOSE h : TrSolves(h, f, S), f, S)
<1>1. TR!Cardinality(S) \in Nat
  BY FS_CardinalityType, TrCardinality
<1>2. PICK h : TrSums(h, f, S, TR!Cardinality(S))
  BY <1>1, TrSumsExist
<1>3. {t \in SUBSET S : TR!Cardinality(t) <= TR!Cardinality(S)} = SUBSET S
  BY FS_Subset, TrCardinality
<1>4. TrSolves(h, f, S)
  BY <1>2, <1>3, Zenon DEF TrSums, TrSolves
<1> QED BY <1>4, Zenon

\* What two of them say of a set that both know is the same.
LEMMA TrSolvesOnce ==
  ASSUME NEW f, NEW S, NEW R, NEW h, NEW g, TrSolves(h, f, S), TrSolves(g, f, R),
         IsFiniteSet(S), NEW t \in SUBSET S, t \in SUBSET R
  PROVE  h[t] = g[t]
<1> DEFINE T == {k \in Nat : \A s \in SUBSET S :
                   s \in SUBSET R /\ TR!Cardinality(s) = k => h[s] = g[s]}
<1>0. \A s \in SUBSET S : IsFiniteSet(s) /\ TR!Cardinality(s) \in Nat
  BY FS_Subset, FS_CardinalityType, TrCardinality
<1>a. ASSUME NEW s \in SUBSET S
      PROVE  h[s] = IF s = {} THEN 0 ELSE f[TrPick(s)] + h[s \ {TrPick(s)}]
  BY Zenon DEF TrSolves
<1>b. ASSUME NEW s \in SUBSET R
      PROVE  g[s] = IF s = {} THEN 0 ELSE f[TrPick(s)] + g[s \ {TrPick(s)}]
  BY Zenon DEF TrSolves
<1>1. 0 \in T
  <2>1. ASSUME NEW s \in SUBSET S, s \in SUBSET R, TR!Cardinality(s) = 0
        PROVE  h[s] = g[s]
    <3>1. s = {}
      BY <1>0, <2>1, FS_EmptySet, TrCardinality
    <3> QED BY <1>a, <1>b, <2>1, <3>1
  <2> QED BY <2>1
<1>2. ASSUME NEW k \in Nat, k \in T PROVE k + 1 \in T
  <2>1. ASSUME NEW s \in SUBSET S, s \in SUBSET R, TR!Cardinality(s) = k + 1
        PROVE  h[s] = g[s]
    <3>1. s # {}
      BY <2>1, FS_EmptySet, TrCardinality
    <3>2. TR!Cardinality(s \ {TrPick(s)}) = k
      BY <1>0, <2>1, <3>1, TrFewer
    <3>3. s \ {TrPick(s)} \in SUBSET S /\ s \ {TrPick(s)} \in SUBSET R
      BY <2>1
    <3>4. h[s \ {TrPick(s)}] = g[s \ {TrPick(s)}]
      BY <1>2, <3>2, <3>3
    <3> QED BY <1>a, <1>b, <2>1, <3>1, <3>4
  <2> QED BY <2>1
<1> HIDE DEF T
<1>3. T \subseteq Nat
  BY DEF T
<1>4. T = Nat
  BY <1>1, <1>2, <1>3, Induction
<1> QED BY <1>0, <1>4 DEF T

\* The sum over no elements, and over one element and the others.
LEMMA TrSumEmpty == ASSUME NEW f PROVE TR!Sum(f, {}) = 0
<1> DEFINE h == CHOOSE h : TrSolves(h, f, {})
<1>1. TrSolves(h, f, {})
  BY FS_EmptySet, TrCardinality, TrSolvesExist
<1>2. TR!Sum(f, {}) = h[{}]
  BY TrSumIs
<1> HIDE DEF h
<1> QED BY <1>1, <1>2 DEF TrSolves

LEMMA TrSumPick ==
  ASSUME NEW f, NEW S, IsFiniteSet(S), S # {}
  PROVE  TR!Sum(f, S) = f[TrPick(S)] + TR!Sum(f, S \ {TrPick(S)})
<1> DEFINE h == CHOOSE h : TrSolves(h, f, S)
<1> DEFINE R == S \ {TrPick(S)}
<1> DEFINE g == CHOOSE g : TrSolves(g, f, R)
<1>1. TrSolves(h, f, S) /\ TR!Sum(f, S) = h[S]
  BY TrSolvesExist, TrSumIs
<1>2. TrSolves(g, f, R) /\ TR!Sum(f, R) = g[R]
  BY TrFewer, TrSolvesExist, TrSumIs
<1> HIDE DEF h, g
<1>3. h[S] = f[TrPick(S)] + h[R]
  BY <1>1, Zenon DEF TrSolves
<1>4. h[R] = g[R]
  BY <1>1, <1>2, TrSolvesOnce
<1> QED BY <1>1, <1>2, <1>3, <1>4

LEMMA TrSumNat ==
  ASSUME NEW f
  PROVE  \A S : IsFiniteSet(S) /\ (\A x \in S : f[x] \in Nat) => TR!Sum(f, S) \in Nat
<1> DEFINE T == {k \in Nat : \A S : IsFiniteSet(S) /\ TR!Cardinality(S) = k
                     /\ (\A x \in S : f[x] \in Nat) => TR!Sum(f, S) \in Nat}
<1>1. 0 \in T
  <2>1. ASSUME NEW S, IsFiniteSet(S), TR!Cardinality(S) = 0 PROVE S = {}
    BY <2>1, FS_EmptySet, TrCardinality
  <2> QED BY <2>1, TrSumEmpty
<1>2. ASSUME NEW k \in Nat, k \in T PROVE k + 1 \in T
  <2>1. ASSUME NEW S, IsFiniteSet(S), TR!Cardinality(S) = k + 1,
               \A x \in S : f[x] \in Nat
        PROVE  TR!Sum(f, S) \in Nat
    <3>1. S # {}
      BY <2>1, FS_EmptySet, TrCardinality
    <3>2. /\ TrPick(S) \in S /\ IsFiniteSet(S \ {TrPick(S)})
          /\ TR!Cardinality(S \ {TrPick(S)}) = k
      BY <2>1, <3>1, TrFewer
    <3>3. TR!Sum(f, S \ {TrPick(S)}) \in Nat
      BY <1>2, <2>1, <3>2
    <3> QED BY <2>1, <3>1, <3>2, <3>3, TrSumPick
  <2>2. k + 1 \in Nat
    OBVIOUS
  <2> QED BY <2>1, <2>2
<1> HIDE DEF T
<1>3. T \subseteq Nat
  BY DEF T
<1>4. T = Nat
  BY <1>1, <1>2, <1>3, Induction
<1>5. ASSUME NEW S, IsFiniteSet(S) PROVE TR!Cardinality(S) \in Nat
  BY <1>5, FS_CardinalityType, TrCardinality
<1> QED BY <1>4, <1>5 DEF T

\* Any element may be taken first.
LEMMA TrSumAny ==
  ASSUME NEW f
  PROVE  \A S : IsFiniteSet(S) /\ (\A x \in S : f[x] \in Nat) =>
           /\ TR!Sum(f, S) \in Nat
           /\ \A x \in S : TR!Sum(f, S) = f[x] + TR!Sum(f, S \ {x})
<1> DEFINE Good(S) ==
      /\ TR!Sum(f, S) \in Nat
      /\ \A x \in S : TR!Sum(f, S) = f[x] + TR!Sum(f, S \ {x})
<1> DEFINE T == {k \in Nat : \A S : IsFiniteSet(S) /\ TR!Cardinality(S) = k
                                 /\ (\A x \in S : f[x] \in Nat) => Good(S)}
<1>1. 0 \in T
  <2>1. ASSUME NEW S, IsFiniteSet(S), TR!Cardinality(S) = 0 PROVE S = {}
    BY <2>1, FS_EmptySet, TrCardinality
  <2>2. Good({})
    BY TrSumEmpty
  <2> HIDE DEF Good
  <2> QED BY <2>1, <2>2
<1>2. ASSUME NEW k \in Nat, k \in T PROVE k + 1 \in T
  <2>1. ASSUME NEW S, IsFiniteSet(S), TR!Cardinality(S) = k + 1,
               \A x \in S : f[x] \in Nat
        PROVE  Good(S)
    <3> DEFINE c == TrPick(S)
    <3>1. S # {}
      BY <2>1, FS_EmptySet, TrCardinality
    <3>2. c \in S /\ TR!Sum(f, S) = f[c] + TR!Sum(f, S \ {c})
      BY <2>1, <3>1, TrFewer, TrSumPick
    <3> HIDE DEF c
    <3>3. ASSUME NEW x \in S PROVE IsFiniteSet(S \ {x}) /\ Good(S \ {x})
      <4>1. IsFiniteSet(S \ {x}) /\ TR!Cardinality(S \ {x}) = k
        BY <2>1, FS_RemoveElement, TrCardinality
      <4> HIDE DEF Good
      <4> QED BY <1>2, <2>1, <4>1
    <3>4. TR!Sum(f, S) \in Nat
      BY <2>1, <3>2, <3>3
    <3>5. ASSUME NEW x \in S PROVE TR!Sum(f, S) = f[x] + TR!Sum(f, S \ {x})
      <4>1. CASE x = c
        BY <3>2, <4>1
      <4>2. CASE x # c
        <5>1. TR!Sum(f, S \ {c}) = f[x] + TR!Sum(f, (S \ {c}) \ {x})
          BY <3>2, <3>3, <4>2
        <5>2. TR!Sum(f, S \ {x}) = f[c] + TR!Sum(f, (S \ {x}) \ {c})
          BY <3>2, <3>3, <4>2
        <5>3. (S \ {c}) \ {x} = (S \ {x}) \ {c}
          OBVIOUS
        <5>4. TR!Sum(f, (S \ {c}) \ {x}) \in Nat
          <6>1. IsFiniteSet((S \ {c}) \ {x})
            BY <2>1, FS_Subset, TrCardinality
          <6> QED BY <2>1, <6>1, TrSumNat
        <5> QED BY <2>1, <3>2, <5>1, <5>2, <5>3, <5>4
      <4> QED BY <4>1, <4>2
    <3> QED BY <3>4, <3>5
  <2> HIDE DEF Good
  <2>2. k + 1 \in Nat
    OBVIOUS
  <2> QED BY <2>1, <2>2
<1> HIDE DEF T
<1>3. T \subseteq Nat
  BY DEF T
<1>4. T = Nat
  BY <1>1, <1>2, <1>3, Induction
<1>5. ASSUME NEW S, IsFiniteSet(S), \A x \in S : f[x] \in Nat PROVE Good(S)
  <2>1. TR!Cardinality(S) \in Nat
    BY <1>5, FS_CardinalityType, TrCardinality
  <2> HIDE DEF Good
  <2> QED BY <1>4, <1>5, <2>1 DEF T
<1> QED BY <1>5
-----------------------------------------------------------------------------
(* One update after the other *)

TrRows == [day : TR!Days, by : Nat, count : Nat \ {0}, total : Nat]
TrRuns ==
  [pc : {"day", "replace", "totals"}, from : TR!Days, day : Nat \ {0}, to : TR!Days,
   by : Nat, seen : SUBSET Nat, count : Nat]

\* Finitely many visitors; Unset is no update.
TrConstantsOK ==
  /\ IsFiniteSet(TrVisitors)
  /\ TrWindow \in Nat /\ TrMaxDay \in Nat \ {0} /\ TrMaxRuns \in Nat
  /\ Unset \notin TrRuns

TrDayRows(d) == {x \in trRows : x.day = d}
TrTotal(d) == TR!Sum([e \in TR!Days |-> TR!Count(e)], 1 .. d)

\* The row of a day tells what the views do, its total as far as there is one.
TrCounted(d) ==
  /\ \A x \in TrDayRows(d) : x.count = TR!Count(d)
  /\ TR!Count(d) # 0 => TrDayRows(d) # {}
TrSettled(d) == TrCounted(d) /\ \A x \in TrDayRows(d) : x.total \in {0, TrTotal(d)}

TrTypes ==
  /\ trToday \in TR!Days
  /\ trViews \in [TR!Days -> [TrVisitors -> Nat]]
  /\ trRows \subseteq TrRows /\ IsFiniteSet(trRows)
  /\ trRun \in [TrRequests -> TrRuns \cup {Unset}]
  /\ trStarted \in Nat /\ trIndexed \in Nat /\ trDone \in Nat
  /\ \A x \in trRows : x.day <= trToday /\ x.count <= TR!Count(x.day)
  /\ \A r \in TR!Busy :
       /\ trRun[r].to <= trToday
       /\ trRun[r].pc # "day" => trRun[r].day <= trRun[r].to
       /\ trRun[r].pc = "replace" => trRun[r].count <= TR!Count(trRun[r].day)

\* The days that an update has been through.
TrPassed(c, d) == d < c.day \/ (d = c.day /\ c.pc = "totals")

TrUnder(c) ==
  /\ trDone = 0
  /\ c.from <= c.day /\ c.from <= TR!LastDay
  /\ \A x \in trRows : x.day <= c.to
  /\ \A d \in TR!Days : d < c.to /\ TrPassed(c, d) => TrSettled(d)
  /\ c.pc = "day" /\ c.day > c.from => TR!Unfinished(trRows) = {}
  /\ c.pc = "replace" =>
       /\ c.seen = {x.by : x \in TrDayRows(c.day)}
       /\ c.day < c.to => c.count = TR!Count(c.day)
       /\ TrDayRows(c.day) # {} => c.count # 0

TrAtEnd ==
  /\ trDone <= trToday
  /\ TR!Unfinished(trRows) = {}
  /\ \A d \in TR!Days : d < trDone => TrSettled(d)
  /\ ~trFailed => \A x \in trRows : x.day = TR!LastDay => trIndexed = x.total

TrSound ==
  trExcuse = {} =>
    /\ \A q, r \in TR!Busy : q = r
    /\ \A x, y \in trRows : x.day = y.day => x = y
    /\ \A d \in TR!Days : d < TR!LastDay => TrSettled(d)
    /\ \A r \in TR!Busy : TrUnder(trRun[r])
    /\ TR!Busy = {} /\ trDone > 0 => TrAtEnd

TrInv == TrTypes /\ TrSound
-----------------------------------------------------------------------------
(* Sums of rows *)

\* Only what is summed matters.
LEMMA TrSumSame ==
  ASSUME NEW f, NEW g
  PROVE  \A S : IsFiniteSet(S) /\ (\A x \in S : f[x] = g[x]) => TR!Sum(f, S) = TR!Sum(g, S)
<1> DEFINE T == {k \in Nat : \A S : IsFiniteSet(S) /\ TR!Cardinality(S) = k
                     /\ (\A x \in S : f[x] = g[x]) => TR!Sum(f, S) = TR!Sum(g, S)}
<1>1. 0 \in T
  <2>1. ASSUME NEW S, IsFiniteSet(S), TR!Cardinality(S) = 0 PROVE S = {}
    BY <2>1, FS_EmptySet, TrCardinality
  <2> QED BY <2>1, TrSumEmpty
<1>2. ASSUME NEW k \in Nat, k \in T PROVE k + 1 \in T
  <2>1. ASSUME NEW S, IsFiniteSet(S), TR!Cardinality(S) = k + 1,
               \A x \in S : f[x] = g[x]
        PROVE  TR!Sum(f, S) = TR!Sum(g, S)
    <3>1. S # {}
      BY <2>1, FS_EmptySet, TrCardinality
    <3>2. /\ TrPick(S) \in S /\ IsFiniteSet(S \ {TrPick(S)})
          /\ TR!Cardinality(S \ {TrPick(S)}) = k
      BY <2>1, <3>1, TrFewer
    <3>3. TR!Sum(f, S \ {TrPick(S)}) = TR!Sum(g, S \ {TrPick(S)})
      BY <1>2, <2>1, <3>2
    <3> QED BY <2>1, <3>1, <3>2, <3>3, TrSumPick
  <2>2. k + 1 \in Nat
    OBVIOUS
  <2> QED BY <2>1, <2>2
<1> HIDE DEF T
<1>3. T \subseteq Nat
  BY DEF T
<1>4. T = Nat
  BY <1>1, <1>2, <1>3, Induction
<1>5. ASSUME NEW S, IsFiniteSet(S) PROVE TR!Cardinality(S) \in Nat
  BY <1>5, FS_CardinalityType, TrCardinality
<1> QED BY <1>4, <1>5 DEF T

\* One row for each day that has a count: their sum is that of the counts.
LEMMA TrSumOfRows ==
  ASSUME TrConstantsOK, NEW rs, rs \subseteq TrRows, IsFiniteSet(rs),
         NEW cnt \in [TR!Days -> Nat], NEW d \in TR!Days,
         \A x, y \in rs : x.day = y.day => x = y,
         \A x \in rs : x.day <= d => x.count = cnt[x.day],
         \A e \in 1 .. d : cnt[e] # 0 => \E x \in rs : x.day = e
  PROVE  TR!Sum([y \in rs |-> y.count], {x \in rs : x.day <= d}) = TR!Sum(cnt, 1 .. d)
<1> DEFINE f == [y \in rs |-> y.count]
<1> DEFINE Low(n) == {x \in rs : x.day <= n}
<1> DEFINE T == {n \in Nat : n <= d => TR!Sum(f, Low(n)) = TR!Sum(cnt, 1 .. n)}
<1>0. /\ \A y \in rs : f[y] = y.count /\ f[y] \in Nat /\ y.day \in Nat \ {0}
      /\ \A n : IsFiniteSet(Low(n))
      /\ \A n \in Nat : IsFiniteSet(1 .. n)
      /\ d \in Nat /\ 1 .. d \subseteq TR!Days
  <2>1. \A y \in rs : f[y] = y.count /\ f[y] \in Nat /\ y.day \in Nat \ {0}
    BY DEF TrRows, TR!Days
  <2>2. \A n : IsFiniteSet(Low(n))
    BY FS_Subset, TrCardinality
  <2>3. \A n \in Nat : IsFiniteSet(1 .. n)
    BY FS_Interval, TrCardinality
  <2>4. d \in Nat /\ 1 .. d \subseteq TR!Days
    BY DEF TR!Days, TrConstantsOK
  <2> HIDE DEF f, Low
  <2> QED BY <2>1, <2>2, <2>3, <2>4
<1> HIDE DEF f
<1>1. 0 \in T
  <2>1. Low(0) = {} /\ 1 .. 0 = {}
    BY <1>0
  <2> QED BY <2>1, TrSumEmpty
<1>2. ASSUME NEW n \in Nat, n \in T PROVE n + 1 \in T
  <2>1. ASSUME n + 1 <= d PROVE TR!Sum(f, Low(n + 1)) = TR!Sum(cnt, 1 .. n + 1)
    <3> DEFINE e == n + 1
    <3>1. TR!Sum(f, Low(n)) = TR!Sum(cnt, 1 .. n) /\ TR!Sum(f, Low(n)) \in Nat
      <4>1. n <= d
        BY <1>0, <2>1
      <4> QED BY <1>0, <1>2, <4>1, TrSumNat
    <3>2. e \in 1 .. e /\ (1 .. e) \ {e} = 1 .. n /\ e \in 1 .. d
      BY <1>0, <2>1
    <3>3. TR!Sum(cnt, 1 .. e) = cnt[e] + TR!Sum(cnt, (1 .. e) \ {e})
      <4>1. \A i \in 1 .. e : cnt[i] \in Nat
        BY <1>0, <2>1
      <4>2. IsFiniteSet(1 .. e)
        BY <1>0
      <4> QED BY <3>2, <4>1, <4>2, TrSumAny
    <3>4. CASE \E x \in rs : x.day = e
      <4>1. PICK x \in rs : x.day = e
        BY <3>4
      <4>2. x \in Low(e) /\ x.count = cnt[e]
        BY <2>1, <4>1
      <4>3. Low(e) \ {x} = Low(n)
        BY <1>0, <4>1
      <4>4. TR!Sum(f, Low(e)) = f[x] + TR!Sum(f, Low(e) \ {x})
        <5>1. \A y \in Low(e) : f[y] \in Nat
          BY <1>0
        <5> HIDE DEF Low
        <5> QED BY <1>0, <4>2, <5>1, TrSumAny
      <4>5. f[x] = cnt[e]
        BY <1>0, <4>1, <4>2
      <4> HIDE DEF Low
      <4> QED BY <3>1, <3>2, <3>3, <4>3, <4>4, <4>5
    <3>5. CASE ~(\E x \in rs : x.day = e)
      <4>1. cnt[e] = 0
        BY <3>2, <3>5
      <4>2. Low(e) = Low(n)
        BY <1>0, <3>5
      <4> HIDE DEF Low
      <4>3. TR!Sum(cnt, 1 .. e) = 0 + TR!Sum(f, Low(e))
        BY <3>1, <3>2, <3>3, <4>1, <4>2, Zenon
      <4>4. TR!Sum(f, Low(e)) \in Nat
        BY <3>1, <4>2
      <4> QED BY <4>3, <4>4
    <3> QED BY <3>4, <3>5
  <2>2. n + 1 \in Nat
    OBVIOUS
  <2> QED BY <2>1, <2>2
<1> HIDE DEF T
<1>3. T \subseteq Nat
  BY DEF T
<1>4. T = Nat
  BY <1>1, <1>2, <1>3, Induction
<1>5. TR!Sum(f, Low(d)) = TR!Sum(cnt, 1 .. d)
  BY <1>0, <1>4 DEF T
<1> QED BY <1>5 DEF f

-----------------------------------------------------------------------------
(* Counts and days *)

LEMMA TrCountNat ==
  ASSUME TrConstantsOK, NEW d
  PROVE  TR!Count(d) \in Nat
<1>1. IsFiniteSet({v \in TrVisitors : trViews[d][v] > 0})
  BY FS_Subset, TrCardinality DEF TrConstantsOK
<1> QED BY <1>1, FS_CardinalityType, TrCardinality DEF TR!Count

LEMMA TrCountNatNext ==
  ASSUME TrConstantsOK, NEW d
  PROVE  TR!Count(d)' \in Nat
<1>1. IsFiniteSet({v \in TrVisitors : trViews'[d][v] > 0})
  BY FS_Subset, TrCardinality DEF TrConstantsOK
<1> QED BY <1>1, FS_CardinalityType, TrCardinality DEF TR!Count

LEMMA TrCountSame == ASSUME NEW d, trViews'[d] = trViews[d]
                     PROVE TR!Count(d)' = TR!Count(d)
BY DEF TR!Count

\* A set of days has a last one.
LEMMA TrLastOne ==
  ASSUME NEW rs, rs \subseteq TrRows, rs # {}, TrConstantsOK
  PROVE  /\ TR!Max({x.day : x \in rs}) \in {x.day : x \in rs}
         /\ \A x \in rs : x.day <= TR!Max({y.day : y \in rs})
<1> DEFINE T == {n \in Nat : \A S \in SUBSET (1 .. n) :
                   S # {} => \E m \in S : \A y \in S : m >= y}
<1>1. 0 \in T
  <2>1. SUBSET (1 .. 0) = {{}}
    OBVIOUS
  <2> QED BY <2>1
<1>2. ASSUME NEW n \in Nat, n \in T PROVE n + 1 \in T
  <2>1. ASSUME NEW S \in SUBSET (1 .. n + 1), S # {}
        PROVE  \E m \in S : \A y \in S : m >= y
    <3>1. CASE n + 1 \in S
      BY <3>1
    <3>2. CASE n + 1 \notin S
      <4>1. S \in SUBSET (1 .. n)
        BY <3>2
      <4> QED BY <1>2, <2>1, <4>1
    <3> QED BY <3>1, <3>2
  <2> QED BY <2>1
<1> HIDE DEF T
<1>3. T \subseteq Nat
  BY DEF T
<1>4. T = Nat
  BY <1>1, <1>2, <1>3, Induction
<1> DEFINE S == {x.day : x \in rs}
<1>5. S \in SUBSET (1 .. TrMaxDay) /\ S # {} /\ TrMaxDay \in Nat
  BY DEF TrRows, TR!Days, TrConstantsOK
<1>6. \E m \in S : \A y \in S : m >= y
  BY <1>4, <1>5 DEF T
<1>7. TR!Max(S) \in S /\ \A y \in S : TR!Max(S) >= y
  <2> HIDE DEF S
  <2> QED BY <1>6 DEF TR!Max
<1>8. \A x \in rs : x.day \in Nat
  BY DEF TrRows, TR!Days
<1> QED BY <1>5, <1>7, <1>8

LEMMA TrLastDayIs ==
  ASSUME TrConstantsOK, trRows \subseteq TrRows
  PROVE  /\ TR!LastDay \in TR!Days
         /\ trRows = {} => TR!LastDay = 1
         /\ trRows # {} => \E x \in trRows : x.day = TR!LastDay
         /\ \A x \in trRows : x.day <= TR!LastDay
<1>1. CASE trRows = {}
  BY <1>1 DEF TR!LastDay, TR!Days, TrConstantsOK
<1>2. CASE trRows # {}
  <2>1. TR!LastDay = TR!Max({x.day : x \in trRows})
    BY <1>2 DEF TR!LastDay
  <2>2. /\ TR!LastDay \in {x.day : x \in trRows}
        /\ \A x \in trRows : x.day <= TR!LastDay
    BY <1>2, <2>1, TrLastOne
  <2>3. \A x \in trRows : x.day \in TR!Days
    BY DEF TrRows
  <2> QED BY <1>2, <2>2, <2>3
<1> QED BY <1>1, <1>2

LEMMA TrLastDayNext ==
  ASSUME TrConstantsOK, trRows' \subseteq TrRows
  PROVE  /\ TR!LastDay' \in TR!Days
         /\ trRows' = {} => TR!LastDay' = 1
         /\ trRows' # {} => \E x \in trRows' : x.day = TR!LastDay'
         /\ \A x \in trRows' : x.day <= TR!LastDay'
<1>1. CASE trRows' = {}
  BY <1>1 DEF TR!LastDay, TR!Days, TrConstantsOK
<1>2. CASE trRows' # {}
  <2>1. TR!LastDay' = TR!Max({x.day : x \in trRows'})
    BY <1>2 DEF TR!LastDay
  <2>2. /\ TR!LastDay' \in {x.day : x \in trRows'}
        /\ \A x \in trRows' : x.day <= TR!LastDay'
    BY <1>2, <2>1, TrLastOne
  <2>3. \A x \in trRows' : x.day \in TR!Days
    BY DEF TrRows
  <2> QED BY <1>2, <2>2, <2>3
<1> QED BY <1>1, <1>2

LEMMA TrTotalSame ==
  ASSUME TrConstantsOK, NEW d \in TR!Days, \A e \in 1 .. d : trViews'[e] = trViews[e]
  PROVE  TrTotal(d)' = TrTotal(d)
<1> DEFINE f == [e \in TR!Days |-> TR!Count(e)]
<1> DEFINE g == [e \in TR!Days |-> TR!Count(e)']
<1>1. IsFiniteSet(1 .. d)
  BY FS_Interval, TrCardinality DEF TR!Days, TrConstantsOK
<1>2. \A e \in 1 .. d : e \in TR!Days
  BY DEF TR!Days, TrConstantsOK
<1>3. \A e \in 1 .. d : f[e] = g[e]
  BY <1>2, TrCountSame
<1>4. TrTotal(d) = TR!Sum(f, 1 .. d) /\ TrTotal(d)' = TR!Sum(g, 1 .. d)
  BY DEF TrTotal
<1> HIDE DEF f, g
<1> QED BY <1>1, <1>3, <1>4, TrSumSame

\* A day whose rows and views, and the views before it, are the same.
LEMMA TrSettledSame ==
  ASSUME TrConstantsOK, NEW d \in TR!Days, \A e \in 1 .. d : trViews'[e] = trViews[e],
         TrDayRows(d)' = TrDayRows(d), TrSettled(d)
  PROVE  TrSettled(d)'
<1>1. d \in 1 .. d
  BY DEF TR!Days, TrConstantsOK
<1>2. TR!Count(d)' = TR!Count(d) /\ TrTotal(d)' = TrTotal(d)
  BY <1>1, TrCountSame, TrTotalSame
<1> QED BY <1>2 DEF TrSettled, TrCounted
-----------------------------------------------------------------------------
(* Types *)

\* The totals that are made up, and the other rows as they are.
TrMade(x) ==
  IF x.total = 0 THEN [x EXCEPT !.total = TR!Sum([y \in trRows |-> y.count], TR!UpTo(x.day))]
  ELSE x

LEMMA TrSumOfUpTo ==
  ASSUME trRows \subseteq TrRows, IsFiniteSet(trRows), NEW x \in trRows
  PROVE  /\ TR!Sum([y \in trRows |-> y.count], TR!UpTo(x.day)) \in Nat \ {0}
<1> DEFINE f == [y \in trRows |-> y.count]
<1>1. \A y \in trRows : f[y] = y.count /\ y.count \in Nat \ {0} /\ y.day \in Int
  BY DEF TrRows, TR!Days
<1>2. TR!UpTo(x.day) \subseteq trRows /\ x \in TR!UpTo(x.day) /\ IsFiniteSet(TR!UpTo(x.day))
      /\ IsFiniteSet(TR!UpTo(x.day) \ {x})
  BY <1>1, FS_Subset, TrCardinality DEF TR!UpTo
<1> HIDE DEF f
<1>3. \A y \in TR!UpTo(x.day) : f[y] \in Nat
  BY <1>1, <1>2
<1>4. TR!Sum(f, TR!UpTo(x.day)) = f[x] + TR!Sum(f, TR!UpTo(x.day) \ {x})
  BY <1>2, <1>3, TrSumAny
<1>5. TR!Sum(f, TR!UpTo(x.day) \ {x}) \in Nat
  BY <1>2, <1>3, TrSumNat
<1>6. TR!Sum(f, TR!UpTo(x.day)) \in Nat \ {0}
  BY <1>1, <1>4, <1>5
<1> QED BY <1>6 DEF f

LEMMA TrMadeIs ==
  ASSUME trRows \subseteq TrRows, IsFiniteSet(trRows), NEW x \in trRows
  PROVE  /\ TrMade(x) \in TrRows /\ TrMade(x).day = x.day /\ TrMade(x).count = x.count
         /\ TrMade(x).total # 0
         /\ x.total # 0 => TrMade(x) = x
         /\ x.total = 0 =>
              TrMade(x).total = TR!Sum([y \in trRows |-> y.count], TR!UpTo(x.day))
<1> DEFINE n == TR!Sum([y \in trRows |-> y.count], TR!UpTo(x.day))
<1>1. n \in Nat \ {0} /\ x \in TrRows
  BY TrSumOfUpTo
<1>2. TrMade(x) = IF x.total = 0 THEN [x EXCEPT !.total = n] ELSE x
  BY DEF TrMade
<1> HIDE DEF n
<1>3. CASE x.total = 0
  <2>1. TrMade(x) = [x EXCEPT !.total = n]
    BY <1>2, <1>3
  <2>2. TrMade(x).total = n /\ TrMade(x).day = x.day /\ TrMade(x).count = x.count
        /\ TrMade(x) \in TrRows
    BY <1>1, <2>1 DEF TrRows
  <2> QED BY <1>1, <1>3, <2>2 DEF n
<1>4. CASE x.total # 0
  BY <1>1, <1>2, <1>4
<1> QED BY <1>3, <1>4

LEMMA TrTotalsMakes ==
  ASSUME NEW r, TR!Totals(r), trRows \subseteq TrRows
  PROVE  trRows' = {TrMade(x) : x \in trRows}
BY DEF TR!Totals, TrMade, TR!Unfinished

LEMMA TrMadeFinite ==
  ASSUME trRows \subseteq TrRows, IsFiniteSet(trRows)
  PROVE  IsFiniteSet({TrMade(x) : x \in trRows})
<1> DEFINE f == [x \in trRows |-> TrMade(x)]
<1> DEFINE T == {TrMade(x) : x \in trRows}
<1>1. f \in Surjection(trRows, T)
  BY DEF Surjection
<1> HIDE DEF f
<1>2. IsFiniteSet(T)
  BY <1>1, FS_Surjection, TrCardinality
<1> QED BY <1>2

LEMMA TrInitTypes == ASSUME TrConstantsOK, TR!Init PROVE TrTypes
<1>1. IsFiniteSet(trRows)
  BY FS_EmptySet, TrCardinality DEF TR!Init
<1> QED BY <1>1 DEF TR!Init, TrTypes, TrConstantsOK, TR!Days, TR!Busy

\* The views grow.
LEMMA TrViewGrows ==
  ASSUME TrConstantsOK, TrTypes, NEW v \in TrVisitors, TR!View(v)
  PROVE  /\ trViews' \in [TR!Days -> [TrVisitors -> Nat]]
         /\ \A d \in TR!Days : TR!Count(d) <= TR!Count(d)'
         /\ \A d \in TR!Days : d < trToday => trViews'[d] = trViews[d]
<1>1. /\ trViews' = [trViews EXCEPT ![trToday][v] = @ + 1] /\ trToday \in TR!Days
      /\ trViews \in [TR!Days -> [TrVisitors -> Nat]]
  BY DEF TR!View, TrTypes
<1>2. trViews' \in [TR!Days -> [TrVisitors -> Nat]]
  BY <1>1
<1>3. \A d \in TR!Days : d # trToday => trViews'[d] = trViews[d]
  BY <1>1
<1>4. \A u \in TrVisitors : trViews[trToday][u] > 0 => trViews'[trToday][u] > 0
  BY <1>1
<1>5. ASSUME NEW d \in TR!Days PROVE TR!Count(d) <= TR!Count(d)'
  <2>1. CASE d # trToday
    BY <1>3, <2>1, TrCountSame, TrCountNat
  <2>2. CASE d = trToday
    <3> DEFINE A == {u \in TrVisitors : trViews[trToday][u] > 0}
    <3> DEFINE B == {u \in TrVisitors : trViews'[trToday][u] > 0}
    <3>1. A \subseteq B /\ IsFiniteSet(B)
      BY <1>4, FS_Subset, TrCardinality DEF TrConstantsOK
    <3>2. TR!Cardinality(A) <= TR!Cardinality(B)
      <4> HIDE DEF A, B
      <4> QED BY <3>1, FS_Subset, TrCardinality
    <3>3. TR!Count(d) = TR!Cardinality(A) /\ TR!Count(d)' = TR!Cardinality(B)
      BY <1>1, <2>2 DEF TR!Count, TR!View
    <3> QED BY <3>2, <3>3
  <2> QED BY <2>1, <2>2
<1>6. \A d \in TR!Days : d < trToday => d # trToday
  BY <1>1 DEF TR!Days
<1> QED BY <1>2, <1>3, <1>5, <1>6

\* A step of an update that goes on: what the others see of it.
LEMMA TrRunsOn ==
  ASSUME TrConstantsOK, TrTypes, NEW r \in TR!Busy
  PROVE  /\ r \in TrRequests /\ trRun[r] # Unset /\ trRun[r] \in TrRuns
         /\ trRun[r].day \in Nat \ {0} /\ trRun[r].to \in TR!Days /\ trRun[r].from \in TR!Days
         /\ trRun[r].count \in Nat /\ trRun[r].by \in Nat
         /\ trRun[r].to <= trToday /\ trToday \in Nat /\ trRun[r].to \in Nat
BY DEF TR!Busy, TrTypes, TrRuns, TR!Days, TrConstantsOK

LEMMA TrLookRuns ==
  ASSUME TrConstantsOK, TrTypes, NEW r \in TrRequests, TR!Look(r)
  PROVE  /\ r \in TR!Busy /\ TR!Busy' = TR!Busy /\ trRun' \in [TrRequests -> TrRuns \cup {Unset}]
         /\ \A q \in TR!Busy \ {r} : trRun'[q] = trRun[q]
         /\ trRun'[r].pc = "replace" /\ trRun'[r].day = trRun[r].day
         /\ trRun'[r].to = trRun[r].to /\ trRun'[r].from = trRun[r].from
         /\ trRun'[r].count = TR!Count(trRun[r].day)
         /\ trRun'[r].seen = {x.by : x \in TrDayRows(trRun[r].day)}
         /\ trRun[r].pc = "day" /\ trRun[r].day <= trRun[r].to
<1> DEFINE n == TR!Count(trRun[r].day)
<1> DEFINE s == {x.by : x \in TrDayRows(trRun[r].day)}
<1>1. r \in TR!Busy /\ trRun[r].pc = "day" /\ trRun[r].day <= trRun[r].to
  BY DEF TR!Look, TR!At, TR!Busy
<1>2. trRun' = [trRun EXCEPT ![r].pc = "replace", ![r].count = n, ![r].seen = s]
  BY DEF TR!Look, TrDayRows
<1>3. n \in Nat /\ s \in SUBSET Nat
  BY TrCountNat DEF TrTypes, TrRows, TrDayRows
<1> HIDE DEF n, s
<1>4. trRun[r] \in TrRuns
  BY <1>1, TrRunsOn
<1>5. /\ trRun'[r].pc = "replace" /\ trRun'[r].day = trRun[r].day
      /\ trRun'[r].to = trRun[r].to /\ trRun'[r].from = trRun[r].from
      /\ trRun'[r].count = n /\ trRun'[r].seen = s /\ trRun'[r] \in TrRuns
  BY <1>2, <1>3, <1>4 DEF TrTypes, TrRuns
<1>6. \A q \in TrRequests \ {r} : trRun'[q] = trRun[q]
  BY <1>2 DEF TrTypes
<1>7. trRun' \in [TrRequests -> TrRuns \cup {Unset}]
  BY <1>2, <1>3, <1>4 DEF TrTypes, TrRuns
<1>8. TR!Busy' = TR!Busy
  BY <1>1, <1>5, <1>6 DEF TR!Busy, TrConstantsOK
<1> QED BY <1>1, <1>5, <1>6, <1>7, <1>8 DEF n, s, TR!Busy

LEMMA TrReplaceRuns ==
  ASSUME TrConstantsOK, TrTypes, NEW r \in TrRequests, TR!Replace(r)
  PROVE  /\ r \in TR!Busy /\ TR!Busy' = TR!Busy /\ trRun' \in [TrRequests -> TrRuns \cup {Unset}]
         /\ \A q \in TR!Busy \ {r} : trRun'[q] = trRun[q]
         /\ trRun'[r].pc = "totals" /\ trRun'[r].day = trRun[r].day
         /\ trRun'[r].to = trRun[r].to /\ trRun'[r].from = trRun[r].from
         /\ trRun[r].pc = "replace"
<1>1. r \in TR!Busy /\ trRun[r].pc = "replace"
  BY DEF TR!Replace, TR!At, TR!Busy
<1>2. trRun' = [trRun EXCEPT ![r].pc = "totals"]
  BY DEF TR!Replace
<1>4. trRun[r] \in TrRuns
  BY <1>1, TrRunsOn
<1>5. /\ trRun'[r].pc = "totals" /\ trRun'[r].day = trRun[r].day
      /\ trRun'[r].to = trRun[r].to /\ trRun'[r].from = trRun[r].from
      /\ trRun'[r] \in TrRuns
  BY <1>2, <1>4 DEF TrTypes, TrRuns
<1>6. \A q \in TrRequests \ {r} : trRun'[q] = trRun[q]
  BY <1>2 DEF TrTypes
<1>7. trRun' \in [TrRequests -> TrRuns \cup {Unset}]
  BY <1>2, <1>4 DEF TrTypes, TrRuns
<1>8. TR!Busy' = TR!Busy
  BY <1>1, <1>5, <1>6 DEF TR!Busy, TrConstantsOK
<1> QED BY <1>1, <1>5, <1>6, <1>7, <1>8 DEF TR!Busy

LEMMA TrTotalsRuns ==
  ASSUME TrConstantsOK, TrTypes, NEW r \in TrRequests, TR!Totals(r)
  PROVE  /\ r \in TR!Busy /\ TR!Busy' = TR!Busy /\ trRun' \in [TrRequests -> TrRuns \cup {Unset}]
         /\ \A q \in TR!Busy \ {r} : trRun'[q] = trRun[q]
         /\ trRun'[r].pc = "day" /\ trRun'[r].day = trRun[r].day + 1
         /\ trRun'[r].to = trRun[r].to /\ trRun'[r].from = trRun[r].from
         /\ trRun[r].pc = "totals"
<1>1. r \in TR!Busy /\ trRun[r].pc = "totals"
  BY DEF TR!Totals, TR!At, TR!Busy
<1>2. trRun' = [trRun EXCEPT ![r].pc = "day", ![r].day = trRun[r].day + 1]
  BY DEF TR!Totals
<1>4. trRun[r] \in TrRuns /\ trRun[r].day + 1 \in Nat \ {0}
  BY <1>1, TrRunsOn
<1>5. /\ trRun'[r].pc = "day" /\ trRun'[r].day = trRun[r].day + 1
      /\ trRun'[r].to = trRun[r].to /\ trRun'[r].from = trRun[r].from
      /\ trRun'[r] \in TrRuns
  BY <1>2, <1>4 DEF TrTypes, TrRuns
<1>6. \A q \in TrRequests \ {r} : trRun'[q] = trRun[q]
  BY <1>2 DEF TrTypes
<1>7. trRun' \in [TrRequests -> TrRuns \cup {Unset}]
  BY <1>2, <1>4 DEF TrTypes, TrRuns
<1>8. TR!Busy' = TR!Busy
  BY <1>1, <1>5, <1>6 DEF TR!Busy, TrConstantsOK
<1> QED BY <1>1, <1>5, <1>6, <1>7, <1>8 DEF TR!Busy

LEMMA TrStartRuns ==
  ASSUME TrConstantsOK, TrTypes, NEW r \in TrRequests, NEW from \in TR!Days, NEW given,
         TR!Start(r, from, given)
  PROVE  /\ r \notin TR!Busy /\ TR!Busy' = TR!Busy \cup {r}
         /\ trRun' \in [TrRequests -> TrRuns \cup {Unset}]
         /\ \A q \in TR!Busy : trRun'[q] = trRun[q]
         /\ trRun'[r].pc = "day" /\ trRun'[r].day = from
         /\ trRun'[r].to = trToday /\ trRun'[r].from = from
<1> DEFINE c == [pc |-> "day", from |-> from, day |-> from, to |-> trToday,
                 by |-> trStarted + 1, seen |-> {}, count |-> 0]
<1>1. /\ c \in TrRuns /\ c.pc = "day" /\ c.from = from /\ c.day = from
      /\ c.to = trToday
  BY DEF TrRuns, TrTypes, TR!Days, TrConstantsOK
<1>2. trRun' = [trRun EXCEPT ![r] = c] /\ trRun[r] = Unset
  BY DEF TR!Start
<1> HIDE DEF c
<1>3. c # Unset
  BY <1>1 DEF TrConstantsOK
<1>4. /\ trRun'[r] = c /\ \A q \in TrRequests \ {r} : trRun'[q] = trRun[q]
      /\ trRun' \in [TrRequests -> TrRuns \cup {Unset}]
  BY <1>1, <1>2 DEF TrTypes
<1>5. r \notin TR!Busy /\ TR!Busy' = TR!Busy \cup {r}
  BY <1>2, <1>3, <1>4 DEF TR!Busy
<1> QED BY <1>1, <1>4, <1>5 DEF TR!Busy

LEMMA TrEndRuns ==
  ASSUME TrConstantsOK, TrTypes, NEW r \in TrRequests, TR!Index(r) \/ TR!Crash(r)
  PROVE  /\ r \in TR!Busy /\ TR!Busy' = TR!Busy \ {r}
         /\ trRun' \in [TrRequests -> TrRuns \cup {Unset}]
         /\ \A q \in TR!Busy \ {r} : trRun'[q] = trRun[q]
<1>1. trRun' = [trRun EXCEPT ![r] = Unset] /\ trRun[r] # Unset
  BY DEF TR!Index, TR!Crash, TR!At
<1> QED BY <1>1 DEF TrTypes, TR!Busy

LEMMA TrFirstDayIs ==
  ASSUME TrConstantsOK, trRows \subseteq TrRows
  PROVE  TR!FirstDay \in TR!Days /\ TR!FirstDay <= TR!LastDay
BY TrLastDayIs DEF TR!FirstDay, TR!Days, TrConstantsOK

LEMMA TrFreshIs ==
  ASSUME NEW c \in TrRuns, c.day \in TR!Days
  PROVE  /\ TR!Fresh(c) \subseteq TrRows /\ IsFiniteSet(TR!Fresh(c))
         /\ \A x \in TR!Fresh(c) : x.day = c.day /\ x.count = c.count /\ x.total = 0
         /\ \A x, y \in TR!Fresh(c) : x = y
         /\ TR!Fresh(c) = {} <=> c.count = 0
<1>1. c.count \in Nat /\ c.by \in Nat
  BY DEF TrRuns
<1>2. CASE c.count = 0
  BY <1>2, FS_EmptySet, TrCardinality DEF TR!Fresh
<1>3. CASE c.count # 0
  <2> DEFINE x == TR!SummaryRow(c)
  <2>1. x \in TrRows /\ x.day = c.day /\ x.count = c.count /\ x.total = 0
    BY <1>1, <1>3 DEF TR!SummaryRow, TrRows
  <2>2. TR!Fresh(c) = {x}
    BY <1>3 DEF TR!Fresh
  <2> HIDE DEF x
  <2>3. IsFiniteSet(TR!Fresh(c))
    BY <2>2, FS_Singleton, TrCardinality
  <2> QED BY <1>3, <2>1, <2>2, <2>3
<1> QED BY <1>2, <1>3

\* The rows that a replacement leaves.
LEMMA TrReplaceRows ==
  ASSUME TrConstantsOK, TrTypes, NEW r \in TrRequests, TR!Replace(r)
  PROVE  /\ trRun[r] \in TrRuns /\ trRun[r].day \in TR!Days
         /\ trRows' = {x \in trRows : ~(x.day = trRun[r].day /\ x.by \in trRun[r].seen)}
                      \cup TR!Fresh(trRun[r])
         /\ trRows' \subseteq TrRows /\ IsFiniteSet(trRows')
<1>1. /\ r \in TR!Busy /\ trRun[r] \in TrRuns /\ trRun[r].pc = "replace"
      /\ trRun[r].day \in Nat \ {0} /\ trRun[r].to \in TR!Days
  BY TrRunsOn, TrReplaceRuns
<1>2. trRun[r].day <= trRun[r].to
  BY <1>1 DEF TrTypes
<1>3. trRun[r].day \in TR!Days
  BY <1>1, <1>2 DEF TR!Days, TrConstantsOK
<1>4. trRows' = {x \in trRows : ~(x.day = trRun[r].day /\ x.by \in trRun[r].seen)}
                \cup TR!Fresh(trRun[r])
  BY DEF TR!Replace
<1>5. IsFiniteSet(trRows')
  <2>1. IsFiniteSet({x \in trRows : ~(x.day = trRun[r].day /\ x.by \in trRun[r].seen)})
    BY FS_Subset, TrCardinality DEF TrTypes
  <2> QED BY <1>1, <1>3, <1>4, <2>1, TrFreshIs, FS_Union, TrCardinality
<1> QED BY <1>1, <1>3, <1>4, <1>5, TrFreshIs DEF TrTypes

LEMMA TrViewTypes ==
  ASSUME TrConstantsOK, TrTypes, NEW v \in TrVisitors, TR!View(v)
  PROVE TrTypes'
<1>1. /\ UNCHANGED <<trToday, trRows, trRun, trStarted, trIndexed, trFailed, trDone>> /\ TR!Busy' = TR!Busy
  BY DEF TR!View, TR!Busy
<1>2. /\ trViews' \in [TR!Days -> [TrVisitors -> Nat]]
      /\ \A d \in TR!Days : TR!Count(d) <= TR!Count(d)'
      /\ \A d : TR!Count(d) \in Nat /\ TR!Count(d)' \in Nat
  BY TrViewGrows, TrCountNat, TrCountNatNext
<1>3. \A x \in trRows : x.count <= TR!Count(x.day)'
  BY <1>2 DEF TrTypes, TrRows
<1>4. ASSUME NEW r \in TR!Busy, trRun[r].pc = "replace"
      PROVE  trRun[r].count <= TR!Count(trRun[r].day)'
  <2>1. trRun[r].day <= trRun[r].to /\ trRun[r].count <= TR!Count(trRun[r].day)
    BY <1>4 DEF TrTypes
  <2>2. trRun[r].day \in TR!Days /\ trRun[r].count \in Nat
    BY <2>1, TrRunsOn DEF TR!Days, TrConstantsOK
  <2> QED BY <1>1, <1>2, <2>1, <2>2
<1> QED BY <1>1, <1>2, <1>3, <1>4 DEF TrTypes

LEMMA TrNextDayTypes == ASSUME TrConstantsOK, TrTypes, TR!NextDay
                        PROVE TrTypes'
<1>1. /\ UNCHANGED <<trViews, trRows, trRun, trStarted, trIndexed, trFailed, trDone>> /\ TR!Busy' = TR!Busy
      /\ \A d : TR!Count(d)' = TR!Count(d)
      /\ trToday' = trToday + 1 /\ trToday < TrMaxDay
  BY DEF TR!NextDay, TR!Busy, TR!Count
<1>2. trToday' \in TR!Days /\ trToday <= trToday' /\ trToday \in Nat
  BY <1>1 DEF TrTypes, TR!Days, TrConstantsOK
<1>3. \A x \in trRows : x.day <= trToday'
  BY <1>1, <1>2 DEF TrTypes, TrRows, TR!Days
<1>4. \A r \in TR!Busy : trRun[r].to <= trToday'
  BY <1>1, <1>2, TrRunsOn
<1> QED BY <1>1, <1>2, <1>3, <1>4 DEF TrTypes

LEMMA TrStartTypes ==
  ASSUME TrConstantsOK, TrTypes, NEW r \in TrRequests, NEW from \in TR!Days, NEW given,
         TR!Start(r, from, given)
  PROVE  TrTypes'
<1>1. /\ UNCHANGED <<trToday, trViews, trRows, trIndexed, trFailed>> /\ trStarted' = trStarted + 1
      /\ trDone' = 0 /\ \A d : TR!Count(d)' = TR!Count(d)
  BY DEF TR!Start, TR!Count
<1>2. \A q \in TR!Busy' :
        /\ trRun'[q].to <= trToday
        /\ trRun'[q].pc # "day" => trRun'[q].day <= trRun'[q].to
        /\ trRun'[q].pc = "replace" => trRun'[q].count <= TR!Count(trRun'[q].day)
  <2>1. trToday <= trToday
    BY DEF TrTypes, TR!Days
  <2> QED BY <2>1, TrStartRuns DEF TrTypes
<1> QED BY <1>1, <1>2, TrStartRuns DEF TrTypes

LEMMA TrLookTypes ==
  ASSUME TrConstantsOK, TrTypes, NEW r \in TrRequests, TR!Look(r)
  PROVE TrTypes'
<1>1. /\ UNCHANGED <<trToday, trViews, trRows, trStarted, trIndexed, trFailed, trDone>>
      /\ \A d : TR!Count(d)' = TR!Count(d) /\ TR!Count(d) \in Nat
  BY TrCountNat DEF TR!Look, TR!Count
<1>2. \A q \in TR!Busy' :
        /\ trRun'[q].to <= trToday
        /\ trRun'[q].pc # "day" => trRun'[q].day <= trRun'[q].to
        /\ trRun'[q].pc = "replace" => trRun'[q].count <= TR!Count(trRun'[q].day)
  BY <1>1, TrLookRuns, TrRunsOn DEF TrTypes
<1> QED BY <1>1, <1>2, TrLookRuns DEF TrTypes

LEMMA TrReplaceTypes ==
  ASSUME TrConstantsOK, TrTypes, NEW r \in TrRequests, TR!Replace(r)
  PROVE TrTypes'
<1>1. /\ UNCHANGED <<trToday, trViews, trStarted, trIndexed, trFailed, trDone>>
      /\ \A d : TR!Count(d)' = TR!Count(d) /\ TR!Count(d) \in Nat
  BY TrCountNat DEF TR!Replace, TR!Count
<1>2. \A q \in TR!Busy' :
        /\ trRun'[q].to <= trToday
        /\ trRun'[q].pc # "day" => trRun'[q].day <= trRun'[q].to
        /\ trRun'[q].pc = "replace" => trRun'[q].count <= TR!Count(trRun'[q].day)
  BY <1>1, TrReplaceRuns, TrRunsOn DEF TrTypes
<1>3. \A x \in trRows' : x.day <= trToday /\ x.count <= TR!Count(x.day)
  <2>1. TAKE x \in trRows'
  <2>2. CASE x \in trRows
    BY <2>2 DEF TrTypes
  <2>3. CASE x \in TR!Fresh(trRun[r])
    <3>1. /\ x.day = trRun[r].day /\ x.count = trRun[r].count
          /\ r \in TR!Busy /\ trRun[r].pc = "replace"
      BY <2>3, TrReplaceRows, TrReplaceRuns, TrFreshIs
    <3>2. /\ trRun[r].day <= trRun[r].to /\ trRun[r].count <= TR!Count(trRun[r].day)
          /\ trRun[r].to <= trToday
      BY <3>1 DEF TrTypes
    <3> QED BY <3>1, <3>2, TrRunsOn
  <2> QED BY <2>2, <2>3, TrReplaceRows
<1> QED BY <1>1, <1>2, <1>3, TrReplaceRuns, TrReplaceRows DEF TrTypes

LEMMA TrTotalsTypes ==
  ASSUME TrConstantsOK, TrTypes, NEW r \in TrRequests, TR!Totals(r)
  PROVE TrTypes'
<1>1. /\ UNCHANGED <<trToday, trViews, trStarted, trIndexed, trFailed, trDone>>
      /\ \A d : TR!Count(d)' = TR!Count(d) /\ TR!Count(d) \in Nat
  BY TrCountNat DEF TR!Totals, TR!Count
<1>2. \A q \in TR!Busy' :
        /\ trRun'[q].to <= trToday
        /\ trRun'[q].pc # "day" => trRun'[q].day <= trRun'[q].to
        /\ trRun'[q].pc = "replace" => trRun'[q].count <= TR!Count(trRun'[q].day)
  BY <1>1, TrTotalsRuns, TrRunsOn DEF TrTypes
<1>3. trRows' = {TrMade(x) : x \in trRows} /\ trRows \subseteq TrRows /\ IsFiniteSet(trRows)
  BY TrTotalsMakes DEF TrTypes
<1>4. /\ trRows' \subseteq TrRows /\ IsFiniteSet(trRows')
      /\ \A x \in trRows' : x.day <= trToday /\ x.count <= TR!Count(x.day)
  <2>1. IsFiniteSet(trRows')
    BY <1>3, TrMadeFinite
  <2>2. ASSUME NEW x \in trRows
        PROVE  /\ TrMade(x) \in TrRows
               /\ TrMade(x).day <= trToday /\ TrMade(x).count <= TR!Count(TrMade(x).day)
    <3>1. /\ TrMade(x) \in TrRows /\ TrMade(x).day = x.day /\ TrMade(x).count = x.count
      BY <1>3, TrMadeIs
    <3>2. x.day <= trToday /\ x.count <= TR!Count(x.day)
      BY DEF TrTypes
    <3> QED BY <3>1, <3>2
  <2> QED BY <1>3, <2>1, <2>2
<1> QED BY <1>1, <1>2, <1>4, TrTotalsRuns DEF TrTypes

LEMMA TrEndTypes ==
  ASSUME TrConstantsOK, TrTypes, NEW r \in TrRequests,
         TR!Index(r) \/ TR!Crash(r)
  PROVE TrTypes'
<1>1. /\ UNCHANGED <<trToday, trViews, trRows, trStarted>>
      /\ \A d : TR!Count(d)' = TR!Count(d) /\ TR!Count(d) \in Nat
  BY TrCountNat DEF TR!Index, TR!Crash, TR!Count
<1>2. \A q \in TR!Busy' :
        /\ trRun'[q].to <= trToday
        /\ trRun'[q].pc # "day" => trRun'[q].day <= trRun'[q].to
        /\ trRun'[q].pc = "replace" => trRun'[q].count <= TR!Count(trRun'[q].day)
  BY TrEndRuns DEF TrTypes
<1>3. trIndexed' \in Nat
  BY DEF TR!Index, TR!Rebuilds, TR!RebuildFails, TR!Crash, TrTypes, TrRows
<1>4. trDone' \in Nat
  <2>1. CASE TR!Index(r)
    BY <2>1, TrEndRuns, TrRunsOn DEF TR!Index
  <2>2. CASE TR!Crash(r)
    BY <2>2 DEF TR!Crash, TrTypes
  <2> QED BY <2>1, <2>2
<1> QED BY <1>1, <1>2, <1>3, <1>4, TrEndRuns DEF TrTypes

LEMMA TrTypesNext == ASSUME TrConstantsOK, TrTypes, [TR!Next]_(TR!vars)
                     PROVE TrTypes'
<1>1. CASE \E v \in TrVisitors : TR!View(v)
  BY <1>1, TrViewTypes
<1>2. CASE TR!NextDay
  BY <1>2, TrNextDayTypes
<1>3. ASSUME NEW r \in TrRequests, TR!Start(r, TR!FirstDay, FALSE)
      PROVE TrTypes'
  BY <1>3, TrFirstDayIs, TrStartTypes DEF TrTypes
<1>4. ASSUME NEW r \in TrRequests, NEW d \in 1 .. trToday, TR!Start(r, d, TRUE)
      PROVE  TrTypes'
  <2>1. d \in TR!Days
    BY DEF TrTypes, TR!Days, TrConstantsOK
  <2> QED BY <1>4, <2>1, TrStartTypes
<1>5. ASSUME NEW r \in TrRequests,
             TR!Look(r) \/ TR!Replace(r) \/ TR!Totals(r) \/ TR!Index(r) \/ TR!Crash(r)
      PROVE  TrTypes'
  BY <1>5, TrLookTypes, TrReplaceTypes, TrTotalsTypes, TrEndTypes
<1>6. CASE UNCHANGED TR!vars
  BY <1>6 DEF TR!vars, TrTypes, TR!Busy, TR!Count
<1> QED BY <1>1, <1>2, <1>3, <1>4, <1>5, <1>6 DEF TR!Next

-----------------------------------------------------------------------------
(* What the rows say *)

\* Neither the views nor the rows change.
LEMMA TrStillSettled ==
  ASSUME UNCHANGED <<trViews, trRows>>
  PROVE  /\ \A d : TrSettled(d)' = TrSettled(d) /\ TrDayRows(d)' = TrDayRows(d)
                   /\ TR!Count(d)' = TR!Count(d)
         /\ TR!LastDay' = TR!LastDay
BY DEF TrSettled, TrCounted, TrTotal, TR!Count, TrDayRows, TR!LastDay

LEMMA TrLastDayPassed == ASSUME TrConstantsOK, TrTypes
                         PROVE TR!LastDay <= trToday
<1>1. CASE trRows = {}
  BY <1>1, TrLastDayIs DEF TrTypes, TR!Days
<1>2. CASE trRows # {}
  BY <1>2, TrLastDayIs DEF TrTypes
<1> QED BY <1>1, <1>2

LEMMA TrInitSound == ASSUME TrConstantsOK, TR!Init PROVE TrSound
<1>1. trRows = {} /\ TR!Busy = {} /\ trDone = 0
  BY DEF TR!Init, TR!Busy
<1>2. TR!LastDay = 1
  BY <1>1 DEF TR!LastDay
<1>3. \A d \in TR!Days : ~(d < TR!LastDay)
  BY <1>2 DEF TR!Days, TrConstantsOK
<1> QED BY <1>1, <1>3 DEF TrSound

\* Views that come in change no day but the last.
LEMMA TrDaysGoBy ==
  ASSUME TrConstantsOK, TrTypes, TrSound, UNCHANGED <<trRows, trRun, trIndexed, trFailed, trDone, trExcuse>>,
         \A d \in TR!Days : d < trToday => trViews'[d] = trViews[d],
         trToday' \in Nat, trToday <= trToday'
  PROVE  TrSound'
<1> SUFFICES ASSUME trExcuse = {} PROVE TrSound'
  BY DEF TrSound
<1>1. /\ TR!Busy' = TR!Busy /\ TR!LastDay' = TR!LastDay /\ \A d : TrDayRows(d)' = TrDayRows(d)
      /\ TR!Unfinished(trRows)' = TR!Unfinished(trRows)
  BY DEF TR!Busy, TR!LastDay, TrDayRows, TR!Unfinished
<1>2. trToday \in Nat /\ TR!LastDay \in Nat /\ TR!LastDay <= trToday
  BY TrLastDayIs, TrLastDayPassed DEF TrTypes, TR!Days
<1>3. ASSUME NEW d \in TR!Days, d < trToday, TrSettled(d) PROVE TrSettled(d)'
  <2>1. \A e \in 1 .. d : e \in TR!Days /\ e < trToday
    BY <1>2, <1>3 DEF TR!Days, TrConstantsOK
  <2> QED BY <1>1, <1>3, <2>1, TrSettledSame
<1>4. \A d \in TR!Days : d < TR!LastDay => TrSettled(d)'
  BY <1>2, <1>3 DEF TrSound, TR!Days
<1>5. ASSUME NEW r \in TR!Busy PROVE TrUnder(trRun[r])'
  <2>1. TrUnder(trRun[r])
    BY DEF TrSound
  <2>2. /\ trRun[r].to <= trToday /\ trRun[r].to \in Nat /\ trRun[r].day \in Nat \ {0}
        /\ trRun' = trRun
    BY TrRunsOn
  <2>3. \A d \in TR!Days : d < trRun[r].to /\ TrPassed(trRun[r], d) => TrSettled(d)'
    BY <1>2, <1>3, <2>1, <2>2 DEF TrUnder, TR!Days
  <2>4. trRun[r].day < trRun[r].to => TR!Count(trRun[r].day)' = TR!Count(trRun[r].day)
    <3>1. ASSUME trRun[r].day < trRun[r].to
          PROVE  trRun[r].day \in TR!Days /\ trRun[r].day < trToday
      BY <1>2, <2>2, <3>1, TrRunsOn DEF TR!Days, TrConstantsOK
    <3> QED BY <2>2, <3>1, TrCountSame
  <2>5. \A d : TrPassed(trRun[r], d)' = TrPassed(trRun[r], d)
    BY <2>2 DEF TrPassed
  <2> QED BY <1>1, <2>1, <2>2, <2>3, <2>4, <2>5 DEF TrUnder
<1>6. TR!Busy = {} /\ trDone > 0 => TrAtEnd'
  <2>1. SUFFICES ASSUME TR!Busy = {}, trDone > 0 PROVE TrAtEnd'
    OBVIOUS
  <2>2. TrAtEnd /\ trDone \in Nat
    BY <2>1 DEF TrSound, TrTypes
  <2>3. \A d \in TR!Days : d < trDone => TrSettled(d)'
    BY <1>2, <1>3, <2>2 DEF TrAtEnd, TR!Days
  <2> QED BY <1>1, <1>2, <2>2, <2>3 DEF TrAtEnd
<1> QED BY <1>1, <1>4, <1>5, <1>6 DEF TrSound

LEMMA TrViewSound ==
  ASSUME TrConstantsOK, TrTypes, TrSound, NEW v \in TrVisitors, TR!View(v)
  PROVE TrSound'
<1>1. /\ UNCHANGED <<trRows, trRun, trIndexed, trFailed, trDone, trExcuse, trToday>>
      /\ \A d \in TR!Days : d < trToday => trViews'[d] = trViews[d]
  BY TrViewGrows DEF TR!View
<1>2. trToday' \in Nat /\ trToday <= trToday'
  BY <1>1 DEF TrTypes, TR!Days
<1> QED BY <1>1, <1>2, TrDaysGoBy

LEMMA TrNextDaySound == ASSUME TrConstantsOK, TrTypes, TrSound, TR!NextDay
                        PROVE TrSound'
<1>1. trToday' \in Nat /\ trToday <= trToday'
  BY DEF TR!NextDay, TrTypes, TR!Days
<1> QED BY <1>1, TrDaysGoBy DEF TR!NextDay

LEMMA TrStartSound ==
  ASSUME TrConstantsOK, TrTypes, TrSound, NEW r \in TrRequests, NEW from \in TR!Days,
         NEW given \in BOOLEAN, ~given => from <= TR!LastDay, TR!Start(r, from, given)
  PROVE  TrSound'
<1> SUFFICES ASSUME trExcuse' = {} PROVE TrSound'
  BY DEF TrSound
<1>1. /\ trExcuse = {} /\ TR!Busy = {} /\ ~(given /\ from > TR!LastDay)
      /\ UNCHANGED <<trToday, trViews, trRows, trIndexed, trFailed>> /\ trDone' = 0
  <2>1. trExcuse' = trExcuse \cup (IF TR!Busy = {} THEN {} ELSE {"overlap"})
                      \cup (IF given /\ from > TR!LastDay THEN {"skipped"} ELSE {})
    BY DEF TR!Start
  <2> QED BY <2>1 DEF TR!Start
<1>2. /\ TR!LastDay \in Nat /\ from \in Nat /\ trToday \in Nat /\ from <= TR!LastDay
      /\ TR!LastDay <= trToday
  BY <1>1, TrLastDayIs, TrLastDayPassed DEF TR!Days, TrTypes
<1>3. /\ TR!Busy' = {r} /\ trRun'[r].pc = "day" /\ trRun'[r].day = from
      /\ trRun'[r].to = trToday /\ trRun'[r].from = from
  BY <1>1, TrStartRuns
<1>4. \A d \in TR!Days : d < TR!LastDay => TrSettled(d)
  BY <1>1 DEF TrSound
<1>5. TrUnder(trRun[r])'
  <2>1. \A d \in TR!Days : TrPassed(trRun[r], d)' => TrSettled(d)'
    BY <1>1, <1>2, <1>3, <1>4, TrStillSettled DEF TrPassed, TR!Days
  <2>2. \A x \in trRows' : x.day <= trRun'[r].to
    BY <1>1, <1>3 DEF TrTypes
  <2>3. TR!LastDay' = TR!LastDay
    BY <1>1, TrStillSettled
  <2> QED BY <1>1, <1>2, <1>3, <2>1, <2>2, <2>3 DEF TrUnder
<1>6. /\ \A d \in TR!Days : d < TR!LastDay' => TrSettled(d)'
      /\ \A x, y \in trRows' : x.day = y.day => x = y
  BY <1>1, <1>4, TrStillSettled DEF TrSound
<1>7. \A p, q \in TR!Busy' : p = q
  BY <1>3
<1>8. \A q \in TR!Busy' : TrUnder(trRun[q])'
  BY <1>3, <1>5
<1> QED BY <1>3, <1>6, <1>7, <1>8 DEF TrSound

LEMMA TrLookSound ==
  ASSUME TrConstantsOK, TrTypes, TrSound, NEW r \in TrRequests, TR!Look(r)
  PROVE TrSound'
<1> SUFFICES ASSUME trExcuse = {} PROVE TrSound'
  BY DEF TrSound, TR!Look
<1>1. UNCHANGED <<trToday, trViews, trRows, trStarted, trIndexed, trFailed, trDone, trExcuse>>
  BY DEF TR!Look
<1>2. /\ r \in TR!Busy /\ TR!Busy' = TR!Busy /\ TrUnder(trRun[r]) /\ trRun[r].pc = "day"
      /\ trRun[r].day <= trRun[r].to
  BY TrLookRuns DEF TrSound
<1>3. \A d : TrPassed(trRun[r], d)' => TrPassed(trRun[r], d)
  BY TrLookRuns DEF TrPassed
<1>4. TrDayRows(trRun[r].day) # {} => TR!Count(trRun[r].day) # 0
  <2>1. ASSUME NEW x \in TrDayRows(trRun[r].day)
        PROVE TR!Count(trRun[r].day) # 0
    <3>1. /\ x.count \in Nat \ {0} /\ x.count <= TR!Count(x.day)
          /\ x.day = trRun[r].day /\ TR!Count(trRun[r].day) \in Nat
      BY TrCountNat DEF TrDayRows, TrTypes, TrRows
    <3> QED BY <3>1
  <2> QED BY <2>1
<1>5. TrUnder(trRun[r])'
  <2>1. /\ \A d \in TR!Days : d < trRun'[r].to /\ TrPassed(trRun[r], d)' => TrSettled(d)'
        /\ \A x \in trRows' : x.day <= trRun'[r].to
    BY <1>1, <1>2, <1>3, TrStillSettled, TrLookRuns DEF TrUnder
  <2>2. /\ trRun'[r].seen = {x.by : x \in TrDayRows(trRun[r].day)'}
        /\ trRun'[r].count = TR!Count(trRun[r].day)
        /\ trRun'[r].day = trRun[r].day
        /\ \A d : TrDayRows(d)' = TrDayRows(d) /\ TR!Count(d)' = TR!Count(d)
    BY <1>1, TrLookRuns, TrStillSettled
  <2>3. trRun'[r].from <= trRun'[r].day /\ trRun'[r].from <= TR!LastDay' /\ trDone' = 0
    BY <1>1, <1>2, TrLookRuns, TrStillSettled DEF TrUnder
  <2>4. trRun'[r].pc = "replace"
    BY TrLookRuns
  <2>5. TrDayRows(trRun[r].day)' = TrDayRows(trRun[r].day) /\ TR!Count(trRun[r].day)' = TR!Count(trRun[r].day)
    BY <1>1, <2>2 DEF TrDayRows, TR!Count
  <2> QED BY <1>4, <2>1, <2>2, <2>3, <2>4, <2>5 DEF TrUnder
<1>6. /\ \A d \in TR!Days : d < TR!LastDay' => TrSettled(d)'
      /\ \A x, y \in trRows' : x.day = y.day => x = y
      /\ \A p, q \in TR!Busy' : p = q
  BY <1>1, <1>2, TrStillSettled DEF TrSound
<1>7. \A q \in TR!Busy' : q = r
  BY <1>2, <1>6
<1> QED BY <1>2, <1>5, <1>6, <1>7 DEF TrSound

\* An update that is cut.
LEMMA TrCrashSound ==
  ASSUME TrConstantsOK, TrTypes, TrSound, NEW r \in TrRequests, TR!Crash(r)
  PROVE TrSound'
<1> SUFFICES ASSUME trExcuse = {} PROVE TrSound'
  BY DEF TrSound, TR!Crash
<1>1. UNCHANGED <<trToday, trViews, trRows, trStarted, trIndexed, trFailed, trDone, trExcuse>>
  BY DEF TR!Crash
<1>2. r \in TR!Busy /\ TR!Busy' = {} /\ trDone = 0
  BY TrEndRuns DEF TrSound, TrUnder
<1> QED BY <1>1, <1>2, TrStillSettled DEF TrSound

\* An update that comes to its end.
LEMMA TrIndexSound ==
  ASSUME TrConstantsOK, TrTypes, TrSound, NEW r \in TrRequests, TR!Index(r)
  PROVE TrSound'
<1> SUFFICES ASSUME trExcuse = {} PROVE TrSound'
  BY DEF TrSound, TR!Index
<1>1. /\ UNCHANGED <<trToday, trViews, trRows, trStarted, trExcuse>>
      /\ trRun[r].pc = "day" /\ trRun[r].day > trRun[r].to /\ trDone' = trRun[r].to
  BY DEF TR!Index, TR!At
<1>2. r \in TR!Busy /\ TR!Busy' = {} /\ TrUnder(trRun[r])
  BY TrEndRuns DEF TrSound
<1>3. /\ trRun[r].to \in Nat \ {0} /\ trRun[r].day \in Nat /\ trRun[r].from \in Nat
      /\ TR!LastDay \in Nat /\ trRun[r].to <= trToday
  BY <1>2, TrRunsOn, TrLastDayIs DEF TR!Days, TrTypes
<1>4. TR!LastDay <= trRun[r].to
  <2>1. CASE trRows = {}
    BY <1>3, <2>1, TrLastDayIs DEF TrTypes
  <2>2. CASE trRows # {}
    BY <1>2, <2>2, TrLastDayIs DEF TrUnder, TrTypes
  <2> QED BY <2>1, <2>2
<1>5. trRun[r].from <= TR!LastDay /\ trRun[r].day > trRun[r].from
  BY <1>1, <1>2, <1>3, <1>4 DEF TrUnder
<1>6. TR!Unfinished(trRows) = {}
  BY <1>1, <1>2, <1>5 DEF TrUnder
<1>7. \A d \in TR!Days : d < trRun[r].to => TrSettled(d)
  BY <1>1, <1>2, <1>3 DEF TrUnder, TrPassed, TR!Days
<1>8. ~trFailed' => \A x \in trRows : x.day = TR!LastDay => trIndexed' = x.total
  <2>1. ASSUME ~trFailed', NEW y \in trRows, y.day = TR!LastDay
        PROVE trIndexed' = y.total
    <3>1. \E x \in trRows : x.day >= trRun[r].from
      BY <1>3, <1>5, <2>1
    <3>2. \E x \in trRows : x.day = TR!LastDay /\ trIndexed' = x.total
      BY <2>1, <3>1 DEF TR!Index, TR!Rebuilds, TR!RebuildFails
    <3>3. \A x \in trRows : x.day = y.day => x = y
      BY DEF TrSound
    <3> QED BY <2>1, <3>2, <3>3
  <2> QED BY <2>1
<1>9. TrAtEnd'
  <2>1. TR!LastDay' = TR!LastDay /\ \A d : TrSettled(d)' = TrSettled(d)
    BY <1>1, TrStillSettled
  <2>2. TR!Unfinished(trRows)' = {}
    BY <1>1, <1>6 DEF TR!Unfinished
  <2> QED BY <1>1, <1>3, <1>7, <1>8, <2>1, <2>2 DEF TrAtEnd
<1> QED BY <1>1, <1>2, <1>9, TrStillSettled DEF TrSound

\* With one row a day, all the rows of the day are replaced.
LEMMA TrReplaceDays ==
  ASSUME TrConstantsOK, TrTypes, NEW r \in TrRequests, TR!Replace(r), TrUnder(trRun[r])
  PROVE  /\ TrDayRows(trRun[r].day)' = TR!Fresh(trRun[r])
         /\ \A d : d # trRun[r].day => TrDayRows(d)' = TrDayRows(d)
<1> DEFINE c == trRun[r]
<1>1. /\ c \in TrRuns /\ c.day \in TR!Days /\ c.pc = "replace"
      /\ trRows' = {x \in trRows : ~(x.day = c.day /\ x.by \in c.seen)} \cup TR!Fresh(c)
      /\ \A x \in TR!Fresh(c) : x.day = c.day
  BY TrReplaceRows, TrReplaceRuns, TrFreshIs
<1>2. c.seen = {x.by : x \in TrDayRows(c.day)}
  BY <1>1 DEF TrUnder
<1> HIDE DEF c
<1>3. \A x \in trRows : x.day = c.day => x.by \in c.seen
  BY <1>2 DEF TrDayRows
<1>4. {x \in trRows' : x.day = c.day} = TR!Fresh(c)
  BY <1>1, <1>3
<1>5. ASSUME NEW d, d # c.day
      PROVE  {x \in trRows' : x.day = d} = {x \in trRows : x.day = d}
  BY <1>1, <1>5
<1>6. {x \in trRows' : x.day = trRun[r].day} = TR!Fresh(trRun[r])
  BY <1>4 DEF c
<1>7. TrDayRows(trRun[r].day)' = {x \in trRows' : x.day = trRun'[r].day}
  BY DEF TrDayRows
<1>8. trRun'[r].day = trRun[r].day
  BY TrReplaceRuns
<1> QED BY <1>4, <1>5, <1>6, <1>7, <1>8 DEF TrDayRows, c

LEMMA TrReplaceSound ==
  ASSUME TrConstantsOK, TrTypes, TrSound, NEW r \in TrRequests, TR!Replace(r)
  PROVE TrSound'
<1> SUFFICES ASSUME trExcuse = {} PROVE TrSound'
  BY DEF TrSound, TR!Replace
<1> DEFINE c == trRun[r]
<1> DEFINE D == c.day
<1>1. UNCHANGED <<trToday, trViews, trStarted, trIndexed, trFailed, trDone, trExcuse>>
  BY DEF TR!Replace
<1>2. /\ r \in TR!Busy /\ TR!Busy' = TR!Busy /\ TrUnder(c) /\ c.pc = "replace" /\ c \in TrRuns
      /\ D \in TR!Days /\ trRows' \subseteq TrRows
  BY TrReplaceRuns, TrReplaceRows DEF TrSound
<1>3. /\ \A q \in TR!Busy : q = r
      /\ trRun'[r].pc = "totals" /\ trRun'[r].day = D
      /\ trRun'[r].to = c.to /\ trRun'[r].from = c.from
  BY <1>2, TrReplaceRuns DEF TrSound
<1>4. /\ TR!Fresh(c) \subseteq trRows' /\ \A x \in trRows' : x.day = D => x \in TR!Fresh(c)
      /\ \A d : d # D => TrDayRows(d)' = TrDayRows(d)
      /\ \A x \in trRows' : x.day # D => x \in trRows
      /\ \A x \in trRows : x.day # D => x \in trRows'
  <2>1. {x \in trRows' : x.day = D} = TR!Fresh(c)
    BY <1>2, <1>3, TrReplaceDays DEF TrDayRows
  <2>2. \A d : d # D => {x \in trRows' : x.day = d} = {x \in trRows : x.day = d}
    BY <1>2, TrReplaceDays DEF TrDayRows
  <2> HIDE DEF D, c
  <2> QED BY <2>1, <2>2 DEF TrDayRows
<1>5. /\ D \in Nat \ {0} /\ c.to \in Nat /\ c.from \in Nat /\ D <= c.to
      /\ TR!LastDay \in Nat \ {0} /\ TR!LastDay' \in Nat \ {0}
      /\ c.from <= D /\ c.from <= TR!LastDay
      /\ \A x \in trRows : x.day <= c.to /\ x.day \in Nat
      /\ \A x \in trRows' : x.day \in Nat
  <2>1. D <= c.to
    BY <1>2 DEF TrTypes
  <2>2. TR!LastDay \in TR!Days /\ TR!LastDay' \in TR!Days
    BY <1>2, TrLastDayIs, TrLastDayNext DEF TrTypes
  <2>3. \A x \in trRows' : x.day \in Nat
    BY <1>2 DEF TrRows, TR!Days
  <2>4. \A x \in trRows : x.day <= c.to /\ x.day \in Nat
    BY <1>2 DEF TrRows, TR!Days, TrTypes, TrUnder
  <2>5. c.from <= D /\ c.from <= TR!LastDay
    BY <1>2 DEF TrUnder
  <2> HIDE DEF c, D
  <2> QED BY <1>2, <2>1, <2>2, <2>3, <2>4, <2>5 DEF TR!Days, TrRuns
<1>6. /\ \A x \in TR!Fresh(c) : x.day = D /\ x.count = c.count /\ x.total = 0
      /\ \A x, y \in TR!Fresh(c) : x = y
      /\ TR!Fresh(c) = {} <=> c.count = 0
  BY <1>2, TrFreshIs
<1>7. /\ D < c.to => c.count = TR!Count(D)
      /\ \A x \in trRows : x.day = D => c.count # 0
  <2>1. (D < c.to => c.count = TR!Count(D)) /\ (TrDayRows(D) # {} => c.count # 0)
    BY <1>2 DEF TrUnder
  <2>2. \A x \in trRows : x.day = D => x \in TrDayRows(D)
    BY DEF TrDayRows
  <2> HIDE DEF c, D
  <2> QED BY <2>1, <2>2
<1>8. \A x \in trRows' : x.day <= c.to
  <2> HIDE DEF c, D
  <2> QED BY <1>4, <1>5, <1>6
<1>9. TR!LastDay <= TR!LastDay'
  <2>1. CASE trRows = {}
    <3>1. TR!LastDay = 1
      BY <2>1, TrLastDayIs DEF TrTypes
    <3> QED BY <1>5, <3>1
  <2>2. CASE trRows # {}
    <3>1. PICK x \in trRows : x.day = TR!LastDay
      BY <2>2, TrLastDayIs DEF TrTypes
    <3>2. \E y \in trRows' : y.day = TR!LastDay
      <4>1. CASE x.day = D
        <5>1. TR!Fresh(c) # {}
          BY <1>6, <1>7, <4>1
        <5> HIDE DEF c, D
        <5> QED BY <1>4, <1>6, <3>1, <4>1, <5>1
      <4>2. CASE x.day # D
        BY <1>4, <3>1, <4>2
      <4> QED BY <4>1, <4>2
    <3>3. \A y \in trRows' : y.day <= TR!LastDay'
      BY <1>2, TrLastDayNext
    <3> QED BY <3>2, <3>3
  <2> QED BY <2>1, <2>2
<1>10. TR!LastDay' <= c.to
  <2>1. CASE trRows' = {}
    BY <1>2, <1>5, <2>1, TrLastDayNext
  <2>2. CASE trRows' # {}
    BY <1>2, <1>8, <2>2, TrLastDayNext
  <2> QED BY <2>1, <2>2
\* The day that was replaced, and the days before it.
<1>11. D < c.to => TrSettled(D)'
  <2>1. SUFFICES ASSUME D < c.to PROVE TrSettled(D)'
    OBVIOUS
  <2>2. c.count = TR!Count(D) /\ trRun'[r].day = D
    BY <1>3, <1>7, <2>1
  <2>3. /\ \A x \in trRows' : x.day = D => x.count = TR!Count(D) /\ x.total = 0
        /\ TR!Count(D) # 0 => \E x \in trRows' : x.day = D
    <3> HIDE DEF c, D
    <3> QED BY <1>4, <1>6, <2>2
  <2>4. TR!Count(D)' = TR!Count(D)
    BY <1>1, <2>2 DEF TR!Count
  <2>5. \A x \in TrDayRows(D)' : x \in trRows' /\ x.day = D
    BY <2>2 DEF TrDayRows
  <2>6. \A x \in trRows' : x.day = D => x \in TrDayRows(D)'
    BY <2>2 DEF TrDayRows
  <2>7. /\ \A x \in TrDayRows(D)' : x.count = TR!Count(D)' /\ x.total = 0
        /\ TR!Count(D)' # 0 => TrDayRows(D)' # {}
    BY <2>3, <2>4, <2>5, <2>6
  <2> QED BY <2>7 DEF TrSettled, TrCounted
<1>12. ASSUME NEW d \in TR!Days, TrSettled(d), d # D PROVE TrSettled(d)'
  <2>1. TrDayRows(d)' = TrDayRows(d)
    BY <1>4, <1>12
  <2> QED BY <1>1, <1>12, <2>1, TrSettledSame
<1>13. \A d \in TR!Days : d < c.to /\ d <= D => TrSettled(d)'
  <2>1. TAKE d \in TR!Days
  <2>2. SUFFICES ASSUME d < c.to, d <= D PROVE TrSettled(d)'
    OBVIOUS
  <2>3. CASE d = D
    <3>1. TrSettled(D)'
      BY <1>11, <2>2, <2>3
    <3>2. trRun'[r].day = D
      BY <1>3
    <3> QED BY <2>3, <3>1, <3>2
  <2>4. CASE d # D
    <3>1. TrPassed(c, d)
      BY <1>5, <2>2, <2>4 DEF TrPassed, TR!Days
    <3>2. TrSettled(d)
      BY <1>2, <2>2, <3>1 DEF TrUnder
    <3> QED BY <1>12, <2>4, <3>2
  <2> QED BY <2>3, <2>4
<1>14. \A d \in TR!Days : d < TR!LastDay' => TrSettled(d)'
  <2>1. TAKE d \in TR!Days
  <2>2. SUFFICES ASSUME d < TR!LastDay' PROVE TrSettled(d)'
    OBVIOUS
  <2>3. d \in Nat \ {0} /\ d < c.to
    BY <1>5, <1>10, <2>2 DEF TR!Days
  <2>4. CASE d <= D
    BY <1>13, <2>3, <2>4
  <2>5. CASE d > D
    <3>1. TR!LastDay' <= TR!LastDay
      <4>1. trRows' # {}
        BY <1>2, <2>2, <2>3, TrLastDayNext
      <4>2. PICK x \in trRows' : x.day = TR!LastDay'
        BY <1>2, <4>1, TrLastDayNext
      <4>3. x.day # D
        BY <1>5, <2>2, <2>3, <2>5, <4>2
      <4>4. x \in trRows
        BY <1>4, <4>3
      <4> QED BY <4>2, <4>4, TrLastDayIs DEF TrTypes
    <3>2. TrSettled(d)
      BY <1>5, <2>2, <2>3, <3>1 DEF TrSound
    <3> QED BY <1>5, <1>12, <2>3, <2>5, <3>2
  <2> QED BY <1>5, <2>3, <2>4, <2>5
<1>15. \A x, y \in trRows' : x.day = y.day => x = y
  <2>1. \A x, y \in trRows : x.day = y.day => x = y
    BY DEF TrSound
  <2> HIDE DEF c, D
  <2> QED BY <1>4, <1>6, <2>1
<1>16. TrUnder(trRun[r])'
  <2>1. \A d \in TR!Days : d < trRun'[r].to /\ TrPassed(trRun[r], d)' => TrSettled(d)'
    <3>1. TAKE d \in TR!Days
    <3>2. SUFFICES ASSUME d < trRun'[r].to, TrPassed(trRun[r], d)'
                   PROVE TrSettled(d)'
      OBVIOUS
    <3>3. d <= D
      BY <1>3, <1>5, <3>2 DEF TrPassed, TR!Days
    <3> QED BY <1>3, <1>13, <3>2, <3>3
  <2>2. trDone' = 0
    BY <1>1, <1>2 DEF TrUnder
  <2>3. trRun'[r].from <= trRun'[r].day /\ trRun'[r].from <= TR!LastDay'
    <3> HIDE DEF c, D
    <3> QED BY <1>3, <1>5, <1>9
  <2>4. \A x \in trRows' : x.day <= trRun'[r].to
    BY <1>3, <1>8
  <2> QED BY <1>3, <2>1, <2>2, <2>3, <2>4 DEF TrUnder
<1>17. (\A p, q \in TR!Busy' : p = q) /\ (\A q \in TR!Busy' : TrUnder(trRun[q])')
  BY <1>2, <1>3, <1>16
<1> QED BY <1>2, <1>14, <1>15, <1>17 DEF TrSound

\* The totals that are made up are those of the views.
LEMMA TrTotalsSettle ==
  ASSUME TrConstantsOK, TrTypes, NEW r \in TrRequests, TR!Totals(r), NEW d \in TR!Days,
         \A x, y \in trRows : x.day = y.day => x = y,
         \A e \in 1 .. d : TrSettled(e)
  PROVE  TrSettled(d)'
<1>1. /\ trRows' = {TrMade(x) : x \in trRows} /\ trRows \subseteq TrRows /\ IsFiniteSet(trRows)
      /\ trViews' = trViews
  BY TrTotalsMakes DEF TrTypes, TR!Totals
<1>2. TR!Count(d)' = TR!Count(d) /\ TrTotal(d)' = TrTotal(d)
  BY <1>1, TrCountSame, TrTotalSame
<1>3. /\ d \in 1 .. d /\ d \in Nat /\ \A e \in 1 .. d : e \in TR!Days
      /\ TrSettled(d)
  BY DEF TR!Days, TrConstantsOK
<1>4. TR!Sum([y \in trRows |-> y.count], TR!UpTo(d)) = TrTotal(d)
  <2> DEFINE cnt == [e \in TR!Days |-> TR!Count(e)]
  <2>1. cnt \in [TR!Days -> Nat] /\ \A e \in TR!Days : cnt[e] = TR!Count(e)
    BY TrCountNat
  <2> HIDE DEF cnt
  <2>2. \A x \in trRows : x.day <= d => x.count = cnt[x.day]
    <3>1. ASSUME NEW x \in trRows, x.day <= d PROVE x.count = cnt[x.day]
      <4>1. x.day \in 1 .. d /\ x.day \in TR!Days
        BY <1>1, <1>3, <3>1 DEF TrRows, TR!Days
      <4>2. TrSettled(x.day) /\ x \in TrDayRows(x.day)
        BY <4>1 DEF TrDayRows
      <4> QED BY <2>1, <4>1, <4>2 DEF TrSettled, TrCounted
    <3> QED BY <3>1
  <2>3. \A e \in 1 .. d : cnt[e] # 0 => \E x \in trRows : x.day = e
    BY <1>3, <2>1 DEF TrSettled, TrCounted, TrDayRows
  <2>4. TR!Sum([y \in trRows |-> y.count], {x \in trRows : x.day <= d}) = TR!Sum(cnt, 1 .. d)
    BY <1>1, <2>1, <2>2, <2>3, TrSumOfRows
  <2> QED BY <2>4 DEF TR!UpTo, TrTotal, cnt
<1>5. ASSUME NEW x \in trRows, x.day = d
      PROVE  TrMade(x).day = d /\ TrMade(x).count = TR!Count(d) /\ TrMade(x).total = TrTotal(d)
  <2>1. x.count = TR!Count(d) /\ x.total \in {0, TrTotal(d)}
    BY <1>3, <1>5 DEF TrSettled, TrCounted, TrDayRows
  <2>2. /\ TrMade(x).day = x.day /\ TrMade(x).count = x.count
        /\ x.total # 0 => TrMade(x) = x
        /\ x.total = 0 =>
             TrMade(x).total = TR!Sum([y \in trRows |-> y.count], TR!UpTo(x.day))
    BY <1>1, TrMadeIs
  <2> QED BY <1>4, <1>5, <2>1, <2>2
<1>6. \A x \in trRows : TrMade(x).day = x.day
  BY <1>1, TrMadeIs
<1>7. \A y \in trRows' : y.day = d => y.count = TR!Count(d) /\ y.total = TrTotal(d)
  BY <1>1, <1>5, <1>6
<1>8. TR!Count(d) # 0 => \E y \in trRows' : y.day = d
  BY <1>1, <1>3, <1>5 DEF TrSettled, TrCounted, TrDayRows
<1> QED BY <1>2, <1>7, <1>8 DEF TrSettled, TrCounted, TrDayRows

LEMMA TrTotalsSound ==
  ASSUME TrConstantsOK, TrTypes, TrSound, NEW r \in TrRequests, TR!Totals(r)
  PROVE TrSound'
<1> SUFFICES ASSUME trExcuse = {} PROVE TrSound'
  BY DEF TrSound, TR!Totals
<1> DEFINE c == trRun[r]
<1>1. UNCHANGED <<trToday, trViews, trStarted, trIndexed, trFailed, trDone, trExcuse>>
  BY DEF TR!Totals
<1>2. /\ r \in TR!Busy /\ TR!Busy' = TR!Busy /\ TrUnder(c) /\ c.pc = "totals"
      /\ trRun'[r].pc = "day" /\ trRun'[r].day = c.day + 1
      /\ trRun'[r].to = c.to /\ trRun'[r].from = c.from
      /\ \A q \in TR!Busy : q = r
  BY TrTotalsRuns DEF TrSound
<1>3. /\ trRows' = {TrMade(x) : x \in trRows} /\ trRows \subseteq TrRows
      /\ \A x \in trRows : TrMade(x).day = x.day /\ TrMade(x).total # 0
      /\ trRows' \subseteq TrRows
  <2>1. trRows \subseteq TrRows /\ IsFiniteSet(trRows)
    BY DEF TrTypes
  <2>2. trRows' = {TrMade(x) : x \in trRows}
    BY <2>1, TrTotalsMakes
  <2>3. \A x \in trRows : /\ TrMade(x) \in TrRows
                          /\ TrMade(x).day = x.day /\ TrMade(x).total # 0
    BY <2>1, TrMadeIs
  <2> QED BY <2>1, <2>2, <2>3
<1>4. /\ c.day \in Nat \ {0} /\ c.to \in Nat /\ c.from \in Nat
      /\ TR!LastDay \in Nat /\ TR!LastDay' \in Nat
  BY <1>2, <1>3, TrRunsOn, TrLastDayIs, TrLastDayNext DEF TR!Days
<1>5. TR!LastDay' = TR!LastDay
  <2>1. CASE trRows = {}
    BY <1>3, <2>1, TrLastDayIs, TrLastDayNext
  <2>2. CASE trRows # {}
    <3>1. PICK x \in trRows : x.day = TR!LastDay
      BY <1>3, <2>2, TrLastDayIs
    <3>2. PICK y \in trRows : TrMade(y).day = TR!LastDay'
      BY <1>3, <2>2, TrLastDayNext
    <3>3. y.day <= TR!LastDay /\ TrMade(x).day <= TR!LastDay'
      BY <1>3, TrLastDayIs, TrLastDayNext
    <3> QED BY <1>3, <1>4, <3>1, <3>2, <3>3
  <2> QED BY <2>1, <2>2
<1>6. \A x, y \in trRows : x.day = y.day => x = y
  BY DEF TrSound
<1>7. \A x, y \in trRows' : x.day = y.day => x = y
  BY <1>3, <1>6
<1>8. \A d \in TR!Days : d < TR!LastDay' => TrSettled(d)'
  <2>1. TAKE d \in TR!Days
  <2>2. SUFFICES ASSUME d < TR!LastDay' PROVE TrSettled(d)'
    OBVIOUS
  <2>3. \A e \in 1 .. d : TrSettled(e)
    BY <1>4, <1>5, <2>2 DEF TrSound, TR!Days, TrConstantsOK
  <2> QED BY <1>6, <2>3, TrTotalsSettle
<1>9. \A d \in TR!Days : d < trRun'[r].to /\ TrPassed(trRun[r], d)' => TrSettled(d)'
  <2>1. TAKE d \in TR!Days
  <2>2. SUFFICES ASSUME d < trRun'[r].to, TrPassed(trRun[r], d)'
                 PROVE TrSettled(d)'
    OBVIOUS
  <2>3. d <= c.day /\ d < c.to /\ d \in Nat
    BY <1>2, <1>4, <2>2 DEF TrPassed, TR!Days
  <2>4. \A e \in 1 .. d : TrSettled(e)
    <3>1. TAKE e \in 1 .. d
    <3>2. e \in TR!Days /\ e < c.to /\ (e < c.day \/ e = c.day)
      BY <1>4, <2>3 DEF TR!Days, TrConstantsOK
    <3>3. TrPassed(c, e)
      BY <1>2, <3>2 DEF TrPassed
    <3> QED BY <1>2, <3>2, <3>3 DEF TrUnder
  <2> QED BY <1>6, <2>4, TrTotalsSettle
<1>10. TR!Unfinished(trRows)' = {}
  BY <1>3 DEF TR!Unfinished
<1>11. TrUnder(trRun[r])'
  <2>1. \A x \in trRows' : x.day <= trRun'[r].to
    BY <1>2, <1>3 DEF TrUnder
  <2>2. trRun'[r].from <= trRun'[r].day /\ trRun'[r].from <= TR!LastDay' /\ trDone' = 0
    <3>1. c.from <= c.day /\ c.from <= TR!LastDay /\ trDone = 0
      BY <1>2 DEF TrUnder
    <3> QED BY <1>1, <1>2, <1>4, <1>5, <3>1
  <2> QED BY <1>2, <1>9, <1>10, <2>1, <2>2 DEF TrUnder
<1>12. (\A p, q \in TR!Busy' : p = q) /\ (\A q \in TR!Busy' : TrUnder(trRun[q])')
  BY <1>2, <1>11
<1> QED BY <1>2, <1>7, <1>8, <1>12 DEF TrSound

-----------------------------------------------------------------------------
(* The summary *)

LEMMA TrSoundNext == ASSUME TrConstantsOK, TrInv, [TR!Next]_(TR!vars)
                     PROVE TrSound'
<1>0. TrTypes /\ TrSound
  BY DEF TrInv
<1>1. CASE \E v \in TrVisitors : TR!View(v)
  BY <1>0, <1>1, TrViewSound
<1>2. CASE TR!NextDay
  BY <1>0, <1>2, TrNextDaySound
<1>3. ASSUME NEW r \in TrRequests, TR!Start(r, TR!FirstDay, FALSE)
      PROVE TrSound'
  BY <1>0, <1>3, TrFirstDayIs, TrStartSound DEF TrTypes
<1>4. ASSUME NEW r \in TrRequests, NEW d \in 1 .. trToday, TR!Start(r, d, TRUE)
      PROVE  TrSound'
  <2>1. d \in TR!Days
    BY <1>0 DEF TrTypes, TR!Days, TrConstantsOK
  <2> QED BY <1>0, <1>4, <2>1, TrStartSound
<1>5. ASSUME NEW r \in TrRequests,
             TR!Look(r) \/ TR!Replace(r) \/ TR!Totals(r) \/ TR!Index(r) \/ TR!Crash(r)
      PROVE  TrSound'
  BY <1>0, <1>5, TrLookSound, TrReplaceSound, TrTotalsSound, TrIndexSound,
       TrCrashSound
<1>6. CASE UNCHANGED TR!vars
  <2>1. /\ UNCHANGED <<trViews, trRows, trRun, trIndexed, trFailed, trDone, trExcuse, trToday>>
        /\ trToday' \in Nat /\ trToday <= trToday'
    BY <1>0, <1>6 DEF TR!vars, TrTypes, TR!Days
  <2> QED BY <1>0, <2>1, TrDaysGoBy
<1> QED BY <1>1, <1>2, <1>3, <1>4, <1>5, <1>6 DEF TR!Next

LEMMA TrSummaryIs == ASSUME TrConstantsOK, TrInv PROVE TR!SummaryFollowsViews
<1>1. SUFFICES ASSUME trDone > 0, TR!Busy = {}, trExcuse = {} PROVE
        /\ \A d \in 1 .. trDone - 1 :
             {[count |-> x.count, total |-> x.total] : x \in {y \in trRows : y.day = d}}
               = IF TR!Count(d) = 0 THEN {}
                 ELSE {[count |-> TR!Count(d), total |-> TrTotal(d)]}
        /\ \A x, y \in trRows : x.day = y.day => x = y
        /\ \A x \in trRows : x.count <= TR!Count(x.day)
        /\ ~trFailed => \A x \in trRows : x.day = TR!LastDay => trIndexed = x.total
  BY DEF TR!SummaryFollowsViews, TrTotal
<1>2. /\ TrTypes /\ TrAtEnd /\ trRows \subseteq TrRows
      /\ \A x, y \in trRows : x.day = y.day => x = y
  BY <1>1 DEF TrInv, TrSound, TrTypes
<1>3. ASSUME NEW d \in 1 .. trDone - 1
      PROVE  {[count |-> x.count, total |-> x.total] : x \in TrDayRows(d)}
               = IF TR!Count(d) = 0 THEN {}
                 ELSE {[count |-> TR!Count(d), total |-> TrTotal(d)]}
  <2>1. TrSettled(d)
    <3>1. d \in TR!Days /\ d < trDone
      BY <1>2 DEF TrTypes, TrAtEnd, TR!Days, TrConstantsOK
    <3> QED BY <1>2, <3>1 DEF TrAtEnd
  <2>2. \A x \in TrDayRows(d) : x \in trRows /\ x.count = TR!Count(d) /\ x.total = TrTotal(d)
    BY <1>2, <2>1 DEF TrAtEnd, TrSettled, TrCounted, TR!Unfinished, TrDayRows
  <2>3. \A x \in TrDayRows(d) : TR!Count(d) # 0
    BY <1>2, <2>2 DEF TrRows
  <2>4. TR!Count(d) # 0 => TrDayRows(d) # {}
    BY <2>1 DEF TrSettled, TrCounted
  <2> QED BY <2>2, <2>3, <2>4
<1>4. \A x \in trRows : x.count <= TR!Count(x.day)
  BY <1>2 DEF TrTypes
<1>5. ~trFailed => \A x \in trRows : x.day = TR!LastDay => trIndexed = x.total
  BY <1>2 DEF TrAtEnd
<1> QED BY <1>2, <1>3, <1>4, <1>5 DEF TrDayRows

\* The rows, the runs under way and what they have done so far, always.
LEMMA TrInvHolds == ASSUME TrConstantsOK PROVE TR!Spec => []TrInv
<1>1. TR!Init => TrInv
  BY TrInitTypes, TrInitSound DEF TrInv
<1>2. TrInv /\ [TR!Next]_(TR!vars) => TrInv'
  BY TrTypesNext, TrSoundNext DEF TrInv
<1> QED BY <1>1, <1>2, PTL DEF TR!Spec

(* After any history of views, updates and updates that were cut, the      *)
(* summary that an update leaves has for every day before its last one the *)
(* visitors and the total of that day, and the index has the last total    *)
(* (the updates alone, the days without gaps).                             *)
THEOREM TrSummaryDoesFollow == ASSUME TrConstantsOK PROVE TR!Spec => []TR!SummaryFollowsViews
<1>1. TrInv => TR!SummaryFollowsViews
  BY TrSummaryIs
<1> QED BY <1>1, TrInvHolds, PTL

-----------------------------------------------------------------------------
(* PackageSave: a request leaves the list that it sent                     *)

\* The component counts as the other modules do.
LEMMA PsCardinality == \A S : PS!Cardinality(S) = Cardinality(S)
BY DEF PS!Cardinality, Cardinality

-----------------------------------------------------------------------------
(* Lists of resources *)

\* A resource for each of the first positions; Unset is no resource and no call.
PsConstantsOK ==
  /\ PsIds \subseteq Nat \ {0} /\ PsMaxSent \in Nat /\ 1 .. PsMaxSent \subseteq PsIds
  /\ Unset \notin PsIds /\ Unset \notin PsRequests
  /\ "pc" \notin DOMAIN Unset

\* s is the one list that the rows may be read as.
PsNeat(rs, s) ==
  /\ s \in Seq(PsIds)
  /\ \A i, j \in 1 .. Len(s) : s[i] = s[j] => i = j
  /\ PS!Of(rs, "active") = {s[i] : i \in 1 .. Len(s)}
  /\ \A i \in 1 .. Len(s) : rs[s[i]].position = i - 1

\* Rising numbers below n, n of them, are all of them.
LEMMA PsRising ==
  ASSUME NEW n \in Nat, NEW p \in [1 .. n -> 0 .. n - 1],
         \A i, j \in 1 .. n : i < j => p[i] < p[j]
  PROVE  \A i \in 1 .. n : p[i] = i - 1
<1> DEFINE Up == {k \in Nat : k + 1 \in 1 .. n => p[k + 1] >= k}
<1> DEFINE Down == {k \in Nat : n - k \in 1 .. n => p[n - k] <= n - k - 1}
<1>1. Up = Nat
  <2>1. 0 \in Up
    OBVIOUS
  <2>2. ASSUME NEW k \in Nat, k \in Up PROVE k + 1 \in Up
    <3>1. ASSUME (k + 1) + 1 \in 1 .. n PROVE p[(k + 1) + 1] >= k + 1
      <4>1. k + 1 \in 1 .. n /\ k + 1 < (k + 1) + 1
        BY <3>1
      <4>2. p[k + 1] < p[(k + 1) + 1] /\ p[k + 1] >= k
        BY <2>2, <3>1, <4>1
      <4>3. p[k + 1] \in 0 .. n - 1 /\ p[(k + 1) + 1] \in 0 .. n - 1
        BY <3>1, <4>1
      <4> QED BY <4>2, <4>3
    <3> QED BY <3>1
  <2> HIDE DEF Up
  <2>3. Up \subseteq Nat
    BY DEF Up
  <2> QED BY <2>1, <2>2, <2>3, Induction
<1>2. Down = Nat
  <2>1. 0 \in Down
    OBVIOUS
  <2>2. ASSUME NEW k \in Nat, k \in Down PROVE k + 1 \in Down
    <3>1. ASSUME n - (k + 1) \in 1 .. n PROVE p[n - (k + 1)] <= n - (k + 1) - 1
      <4>1. n - k \in 1 .. n /\ n - (k + 1) < n - k
        BY <3>1
      <4>2. p[n - (k + 1)] < p[n - k] /\ p[n - k] <= n - k - 1
        BY <2>2, <3>1, <4>1
      <4>3. p[n - (k + 1)] \in 0 .. n - 1 /\ p[n - k] \in 0 .. n - 1
        BY <3>1, <4>1
      <4> QED BY <4>2, <4>3
    <3> QED BY <3>1
  <2> HIDE DEF Down
  <2>3. Down \subseteq Nat
    BY DEF Down
  <2> QED BY <2>1, <2>2, <2>3, Induction
<1>3. ASSUME NEW i \in 1 .. n PROVE p[i] = i - 1
  <2>1. i - 1 \in Up /\ n - i \in Down
    <3>1. i - 1 \in Nat /\ n - i \in Nat
      OBVIOUS
    <3> HIDE DEF Up, Down
    <3> QED BY <1>1, <1>2, <3>1
  <2>2. (i - 1) + 1 = i /\ n - (n - i) = i
    OBVIOUS
  <2>3. p[i] >= i - 1
    BY <2>1, <2>2
  <2>4. p[i] <= i - 1
    BY <2>1, <2>2
  <2>5. p[i] \in 0 .. n - 1
    OBVIOUS
  <2> QED BY <2>3, <2>4, <2>5
<1> QED BY <1>3

LEMMA PsNeatLists ==
  ASSUME NEW rs, NEW s, PsNeat(rs, s)
  PROVE  PS!Lists(rs) = {s}
<1> DEFINE A == PS!Of(rs, "active")
<1> DEFINE n == Len(s)
<1>1. /\ n \in Nat /\ s \in [1 .. n -> PsIds] /\ DOMAIN s = 1 .. n
      /\ A = {s[i] : i \in 1 .. n}
      /\ \A i, j \in 1 .. n : s[i] = s[j] => i = j
      /\ \A i \in 1 .. n : rs[s[i]].position = i - 1
  BY LenProperties DEF PsNeat
<1>2. PS!Cardinality(A) = n
  <2>1. s \in Surjection(1 .. n, A) /\ s \in Injection(1 .. n, A)
    BY <1>1 DEF Surjection, Injection, IsInjective
  <2>2. ExistsBijection(1 .. n, A)
    BY <2>1 DEF ExistsBijection, Bijection
  <2>3. IsFiniteSet(1 .. n) /\ PS!Cardinality(1 .. n) = n
    <3>1. PS!Cardinality(1 .. n) = IF 1 > n THEN 0 ELSE n - 1 + 1
      BY <1>1, FS_Interval, PsCardinality
    <3> QED BY <1>1, <3>1, FS_Interval, PsCardinality
  <2> QED BY <2>2, <2>3, FS_Bijection, PsCardinality
<1> HIDE DEF A, n
<1>3. PS!Lists(rs) =
        {f \in [1 .. n -> A] :
           /\ \A i, j \in 1 .. n : i # j => f[i] # f[j]
           /\ \A i, j \in DOMAIN f : i < j => rs[f[i]].position <= rs[f[j]].position}
  BY <1>2 DEF PS!Lists, PS!SetToSeqs, A
<1>4. s \in PS!Lists(rs)
  <2>1. s \in [1 .. n -> A]
    BY <1>1
  <2>2. \A i, j \in 1 .. n : i < j => rs[s[i]].position <= rs[s[j]].position
    BY <1>1
  <2>3. \A i, j \in 1 .. n : i # j => s[i] # s[j]
    BY <1>1
  <2> QED BY <1>1, <1>3, <2>1, <2>2, <2>3
<1>5. ASSUME NEW f \in PS!Lists(rs) PROVE f = s
  <2>1. /\ f \in [1 .. n -> A] /\ DOMAIN f = 1 .. n
        /\ \A i, j \in 1 .. n : i # j => f[i] # f[j]
        /\ \A i, j \in 1 .. n : i < j => rs[f[i]].position <= rs[f[j]].position
    BY <1>3
  <2> DEFINE p == [i \in 1 .. n |-> rs[f[i]].position]
  <2>2. \A i \in 1 .. n : /\ p[i] = rs[f[i]].position
                          /\ p[i] \in 0 .. n - 1 /\ f[i] = s[p[i] + 1]
    <3>1. TAKE i \in 1 .. n
    <3>2. PICK j \in 1 .. n : f[i] = s[j]
      BY <1>1, <2>1
    <3>3. p[i] = j - 1
      BY <1>1, <3>2
    <3> QED BY <1>1, <3>2, <3>3
  <2>3. p \in [1 .. n -> 0 .. n - 1]
    BY <2>2
  <2> HIDE DEF p
  <2>4. \A i, j \in 1 .. n : i < j => p[i] < p[j]
    <3>1. SUFFICES ASSUME NEW i \in 1 .. n, NEW j \in 1 .. n, i < j
                   PROVE  p[i] < p[j]
      OBVIOUS
    <3>2. p[i] <= p[j] /\ f[i] # f[j] /\ p[i] \in 0 .. n - 1 /\ p[j] \in 0 .. n - 1
      <4>1. i # j /\ p[i] = rs[f[i]].position /\ p[j] = rs[f[j]].position
        BY <1>1, <2>2, <3>1
      <4> QED BY <2>1, <2>2, <3>1, <4>1
    <3>3. p[i] # p[j]
      BY <2>2, <3>2
    <3> QED BY <1>1, <3>2, <3>3
  <2>5. \A i \in 1 .. n : p[i] = i - 1
    BY <1>1, <2>3, <2>4, PsRising
  <2>6. \A i \in 1 .. n : f[i] = s[i]
    <3>1. TAKE i \in 1 .. n
    <3>2. f[i] = s[p[i] + 1] /\ p[i] = i - 1
      BY <2>2, <2>5
    <3>3. (i - 1) + 1 = i
      BY <1>1
    <3> QED BY <3>2, <3>3
  <2> QED BY <1>1, <2>1, <2>6
<1> QED BY <1>4, <1>5

-----------------------------------------------------------------------------
(* What a save writes *)

\* A list that is sent names every resource once.
PsListed(sent) ==
  /\ \E n \in Nat : DOMAIN sent = 1 .. n
  /\ sent = [i \in DOMAIN sent |-> sent[i]]
  /\ \A i \in DOMAIN sent : sent[i].id \in PsIds
  /\ \A i, j \in DOMAIN sent : sent[i].id = sent[j].id => i = j

PsOrder(sent) == [i \in DOMAIN sent |-> sent[i].id]

PsFrom(rs, s, sent, kept, i) ==
  PS!CopyOf(PS!Copies(PS!Shown(rs, s), sent, kept), PS!Shown(rs, s), i)

\* What is copied is the resource that was sent.
LEMMA PsFromIs ==
  ASSUME NEW rs, NEW s, PsNeat(rs, s), NEW sent, PsListed(sent), NEW kept,
         NEW i \in DOMAIN sent, PsFrom(rs, s, sent, kept, i) # {}
  PROVE  \E j \in 1 .. Len(s) :
           /\ PsFrom(rs, s, sent, kept, i) = {j - 1}
           /\ s[j] = sent[i].id /\ rs[s[j]].content = sent[i].content
<1> DEFINE shown == PS!Shown(rs, s)
<1> DEFINE copies == PS!Copies(shown, sent, kept)
<1>1. /\ Len(s) \in Nat /\ DOMAIN s = 1 .. Len(s) /\ DOMAIN shown = 1 .. Len(s)
      /\ \A j \in 1 .. Len(s) :
           /\ shown[j].id = s[j] /\ shown[j].content = rs[s[j]].content
           /\ shown[j].position = j - 1
  BY LenProperties DEF PsNeat, PS!Shown
<1>2. \A c \in copies :
        /\ c[1] \in DOMAIN sent /\ c[2] \in 1 .. Len(s)
        /\ sent[c[1]].id = s[c[2]] /\ sent[c[1]].content = rs[s[c[2]]].content
  BY <1>1 DEF PS!Copies, PS!Item
<1>3. PsFrom(rs, s, sent, kept, i) =
        {shown[c[2]].position : c \in {d \in copies : d[1] = i}}
  BY DEF PsFrom, PS!CopyOf
<1> HIDE DEF shown, copies
<1>4. PICK c \in copies : c[1] = i
  BY <1>3
<1>5. \A d \in copies : d[1] = i => d[2] = c[2]
  BY <1>1, <1>2, <1>4 DEF PsNeat
<1>6. PsFrom(rs, s, sent, kept, i) = {shown[c[2]].position}
  BY <1>3, <1>4, <1>5
<1>7. shown[c[2]].position = c[2] - 1
  BY <1>1, <1>2, <1>4
<1> QED BY <1>2, <1>4, <1>6, <1>7

PsSaving(rs, s, sent, kept) ==
  {i \in DOMAIN sent : PsFrom(rs, s, sent, kept, i) = {}}

PsAgain(rs, s, sent, kept, id) ==
  {i \in PsSaving(rs, s, sent, kept) : sent[i].id = id}

PsPlaces(sent, id) == {i - 1 : i \in {k \in DOMAIN PsOrder(sent) : PsOrder(sent)[k] = id}}

PsNewRow(rs, seen, s, sent, kept, id) ==
  [content |-> IF PsAgain(rs, s, sent, kept, id) = {} THEN seen[id].content
               ELSE sent[PS!Min(PsAgain(rs, s, sent, kept, id))].content,
   state |-> IF PsOrder(sent) # s /\ id \in PS!Range(s) \ PS!Range(PsOrder(sent))
               THEN "deleted"
             ELSE IF PsAgain(rs, s, sent, kept, id) # {} THEN "active"
             ELSE seen[id].state,
   position |-> IF ~(PsOrder(sent) # s) THEN seen[id].position
                ELSE IF PsPlaces(sent, id) # {} THEN PS!Max(PsPlaces(sent, id)) ELSE 0]

PsTouched(s, sent) == PS!Range(s) \cup PS!Range(PsOrder(sent))

PsSavesAs(rs, seen, s, sent, kept, w) ==
  /\ w.fails = FALSE
  /\ ~w.change => /\ PsOrder(sent) = s
                  /\ \A i \in PsSaving(rs, s, sent, kept) :
                       seen[sent[i].id].content = sent[i].content
  /\ w.inserts = {id \in PS!Range(PsOrder(sent)) : seen[id] = PS!Absent}
  /\ w.purges = IF PsOrder(sent) # s THEN PS!Of(rs, "deleted") \ PS!Range(PsOrder(sent))
                ELSE {}
  /\ w.writes =
       UNION {{<<id, f, PsNewRow(rs, seen, s, sent, kept, id)[f]>> :
                 f \in DOMAIN PS!Absent}
                \ {<<id, f, seen[id][f]>> : f \in DOMAIN PS!Absent} :
              id \in PsTouched(s, sent)}

\* A save that is not beyond the list, with the list that was sent.
LEMMA PsSavedIs ==
  ASSUME NEW rs, NEW s, PsNeat(rs, s), NEW sent, PsListed(sent), NEW kept, NEW seen,
         NEW w, w = PS!Saved(rs, seen, s, PS!Shown(rs, s), sent, kept)
  PROVE  PsSavesAs(rs, seen, s, sent, kept, w)
<1> DEFINE F(i) == PsFrom(rs, s, sent, kept, i)
<1> DEFINE objs ==
      [i \in DOMAIN sent |-> IF F(i) = {} THEN sent[i].id ELSE s[1 + PS!Min(F(i))]]
<1> DEFINE beyond == \E i \in DOMAIN sent : \E p \in F(i) : p >= Len(s)
<1> DEFINE saved == {i \in DOMAIN sent : F(i) = {}}
<1> DEFINE Ag(id) == {i \in saved : sent[i].id = id}
<1> DEFINE Pl(id) == {i - 1 : i \in {k \in DOMAIN objs : objs[k] = id}}
<1> DEFINE New(id) ==
      [content |-> IF Ag(id) = {} THEN seen[id].content
                   ELSE sent[PS!Min(Ag(id))].content,
       state |-> IF objs # s /\ id \in PS!Range(s) \ PS!Range(objs) THEN "deleted"
                 ELSE IF Ag(id) # {} THEN "active" ELSE seen[id].state,
       position |-> IF ~(objs # s) THEN seen[id].position
                    ELSE IF Pl(id) # {} THEN PS!Max(Pl(id)) ELSE 0]
<1> DEFINE change ==
      \/ objs # s
      \/ \E i \in DOMAIN sent : F(i) \notin {{}, {i - 1}}
      \/ \E i \in saved :
           \/ seen[sent[i].id] = PS!Absent
           \/ seen[sent[i].id].content # sent[i].content
<1>1. w = IF beyond THEN PS!Fails
          ELSE [fails |-> FALSE, change |-> change,
                inserts |-> {id \in PS!Range(objs) : seen[id] = PS!Absent},
                purges |-> IF objs # s THEN PS!Of(rs, "deleted") \ PS!Range(objs) ELSE {},
                writes |-> UNION {{<<id, f, New(id)[f]>> : f \in DOMAIN PS!Absent}
                               \ {<<id, f, seen[id][f]>> : f \in DOMAIN PS!Absent} :
                             id \in PS!Range(s) \cup PS!Range(objs)}]
  BY DEF PS!Saved, PsFrom
<1>2. ASSUME NEW i \in DOMAIN sent, F(i) # {}
      PROVE  /\ s[1 + PS!Min(F(i))] = sent[i].id
             /\ \A p \in F(i) : ~(p >= Len(s))
  <2>1. PICK j \in 1 .. Len(s) : F(i) = {j - 1} /\ s[j] = sent[i].id
    BY <1>2, PsFromIs
  <2>2. Len(s) \in Nat
    BY DEF PsNeat
  <2>3. PS!Min({j - 1}) = j - 1
    BY <2>2 DEF PS!Min
  <2>4. 1 + (j - 1) = j /\ ~(j - 1 >= Len(s))
    BY <2>2
  <2> HIDE DEF F
  <2> QED BY <2>1, <2>3, <2>4
<1>3. objs = PsOrder(sent)
  BY <1>2 DEF PsOrder
<1>4. ~beyond
  BY <1>2
<1> HIDE DEF beyond
<1>5. \A id : New(id) = PsNewRow(rs, seen, s, sent, kept, id)
  BY <1>3, Zenon DEF PsNewRow, PsAgain, PsSaving, PsPlaces
<1>6. change = TRUE \/ change = FALSE
  OBVIOUS
<1>7. ~change => /\ PsOrder(sent) = s
                 /\ \A i \in PsSaving(rs, s, sent, kept) :
                      seen[sent[i].id].content = sent[i].content
  BY <1>3 DEF PsSaving
<1> HIDE DEF objs, New, change
<1>8. w = [fails |-> FALSE, change |-> change,
           inserts |-> {id \in PS!Range(PsOrder(sent)) : seen[id] = PS!Absent},
           purges |-> IF PsOrder(sent) # s THEN PS!Of(rs, "deleted") \ PS!Range(PsOrder(sent))
                      ELSE {},
           writes |-> UNION {{<<id, f, PsNewRow(rs, seen, s, sent, kept, id)[f]>> :
                                f \in DOMAIN PS!Absent}
                               \ {<<id, f, seen[id][f]>> : f \in DOMAIN PS!Absent} :
                             id \in PsTouched(s, sent)}]
  <2> DEFINE Old(id) == {<<id, f, seen[id][f]>> : f \in DOMAIN PS!Absent}
  <2> DEFINE R(id) == PsNewRow(rs, seen, s, sent, kept, id)
  <2> DEFINE W(id) == {<<id, f, New(id)[f]>> : f \in DOMAIN PS!Absent} \ Old(id)
  <2> DEFINE V(id) == {<<id, f, R(id)[f]>> : f \in DOMAIN PS!Absent} \ Old(id)
  <2>1. \A id : W(id) = V(id)
    <3> HIDE DEF Old, R
    <3>1. \A id : New(id) = R(id)
      BY <1>5 DEF R
    <3> QED BY <3>1
  <2> HIDE DEF W, V
  <2>2. UNION {W(id) : id \in PS!Range(s) \cup PS!Range(objs)}
          = UNION {V(id) : id \in PsTouched(s, sent)}
    BY <1>3, <2>1 DEF PsTouched
  <2>3. UNION {W(id) : id \in PS!Range(s) \cup PS!Range(objs)}
          = UNION {{<<id, f, New(id)[f]>> : f \in DOMAIN PS!Absent}
                     \ {<<id, f, seen[id][f]>> : f \in DOMAIN PS!Absent} :
                   id \in PS!Range(s) \cup PS!Range(objs)}
    BY Zenon DEF W
  <2>4. UNION {V(id) : id \in PsTouched(s, sent)}
          = UNION {{<<id, f, PsNewRow(rs, seen, s, sent, kept, id)[f]>> :
                                f \in DOMAIN PS!Absent}
                               \ {<<id, f, seen[id][f]>> : f \in DOMAIN PS!Absent} :
                             id \in PsTouched(s, sent)}
    BY Zenon DEF V
  <2> HIDE DEF Old, R
  <2> QED BY <1>1, <1>3, <1>4, <2>2, <2>3, <2>4, Zenon
<1> HIDE DEF F, saved
<1> QED BY <1>7, <1>8 DEF PsSavesAs

\* A column is written when it is another than the one loaded.
LEMMA PsWrittenIs ==
  ASSUME NEW rs, NEW seen, NEW s, NEW sent, NEW kept, NEW w,
         NEW id \in PsIds, id \notin w.purges,
         PsSavesAs(rs, seen, s, sent, kept, w),
         NEW f \in {"state", "position", "content"}
  PROVE  PS!Written(rs, w)[id][f] =
           IF /\ id \in PsTouched(s, sent)
              /\ PsNewRow(rs, seen, s, sent, kept, id)[f] # seen[id][f]
             THEN PsNewRow(rs, seen, s, sent, kept, id)[f] ELSE rs[id][f]
<1> DEFINE New(x) == PsNewRow(rs, seen, s, sent, kept, x)
<1> DEFINE T == PsTouched(s, sent)
<1> DEFINE to == {x \in w.writes : x[1] = id /\ x[2] = f}
<1> HIDE DEF New, T
<1>0. w.writes = UNION {{<<x, g, New(x)[g]>> : g \in DOMAIN PS!Absent}
                          \ {<<x, g, seen[x][g]>> : g \in DOMAIN PS!Absent} : x \in T}
  BY Zenon DEF New, T, PsSavesAs
<1>1. DOMAIN PS!Absent = {"state", "position", "content"}
  BY DEF PS!Absent
<1>2. PS!Written(rs, w)[id][f] = IF to = {} THEN rs[id][f]
                              ELSE (CHOOSE x \in to : TRUE)[3]
  BY <1>1 DEF PS!Written
<1>3. \A x \in to : id \in T /\ x[3] = New(id)[f] /\ New(id)[f] # seen[id][f]
  BY <1>0, <1>1
<1>4. id \in T /\ New(id)[f] # seen[id][f] => <<id, f, New(id)[f]>> \in to
  BY <1>0, <1>1
<1> HIDE DEF to
<1>5. PS!Written(rs, w)[id][f] =
        IF id \in T /\ New(id)[f] # seen[id][f] THEN New(id)[f] ELSE rs[id][f]
  <2>1. CASE to = {}
    BY <1>2, <1>4, <2>1
  <2>2. CASE to # {}
    <3>1. (CHOOSE x \in to : TRUE) \in to
      BY <2>2
    <3> QED BY <1>2, <1>3, <2>2, <3>1
  <2> QED BY <2>1, <2>2
<1> QED BY <1>5, Zenon DEF New, T

-----------------------------------------------------------------------------
(* What a save leaves *)

PsRowsOK(rs) ==
  /\ rs = [id \in PsIds |-> rs[id]]
  /\ \A id \in PsIds : rs[id].position \in Nat

\* The session has the rows as they are, but perhaps one of them.
PsSees(seen, rs, s, sent, one) ==
  /\ \A id \in PsIds : id # one => seen[id] = rs[id]
  /\ one \in PsIds =>
       /\ seen[one].state = "active" /\ seen[one].position \in Nat
       /\ one \in PS!Range(PsOrder(sent)) =>
            one \in PS!Range(s) /\ seen[one].position = rs[one].position

PsLeaves(rs, new, sent, one) ==
  /\ PsRowsOK(new) /\ PsNeat(new, PsOrder(sent))
  /\ \A i \in DOMAIN sent :
       new[sent[i].id].content = sent[i].content \/ sent[i].id = one
  /\ \A id \in PS!Of(rs, "active") : new[id] # PS!Absent

LEMMA PsOrderIs ==
  ASSUME NEW sent, PsListed(sent)
  PROVE  /\ PsOrder(sent) \in Seq(PsIds) /\ DOMAIN PsOrder(sent) = DOMAIN sent
         /\ Len(PsOrder(sent)) \in Nat /\ DOMAIN sent = 1 .. Len(PsOrder(sent))
         /\ \A i \in DOMAIN sent : PsOrder(sent)[i] = sent[i].id
         /\ PS!Range(PsOrder(sent)) = {sent[i].id : i \in DOMAIN sent}
<1>1. PICK n \in Nat : DOMAIN sent = 1 .. n
  BY DEF PsListed
<1>2. PsOrder(sent) \in [1 .. n -> PsIds]
  BY <1>1 DEF PsListed, PsOrder
<1>3. PsOrder(sent) \in Seq(PsIds) /\ DOMAIN PsOrder(sent) = 1 .. n
  BY <1>2, SeqDef
<1>4. Len(PsOrder(sent)) = n
  BY <1>1, <1>3, LenProperties
<1>5. \A i \in DOMAIN sent : PsOrder(sent)[i] = sent[i].id
  BY DEF PsOrder
<1> QED BY <1>1, <1>3, <1>4, <1>5 DEF PS!Range

LEMMA PsNeatRange ==
  ASSUME NEW rs, NEW s, PsNeat(rs, s)
  PROVE  /\ PS!Range(s) = PS!Of(rs, "active") /\ PS!Range(s) \subseteq PsIds
         /\ \A id \in PS!Range(s) : rs[id].state = "active"
<1>1. DOMAIN s = 1 .. Len(s)
  BY LenProperties DEF PsNeat
<1> QED BY <1>1 DEF PsNeat, PS!Range, PS!Of

PsSentAs(new, rs, s, seen, sent, i) ==
  /\ new.state = "active"
  /\ PsOrder(sent) # s => new.position = i - 1
  /\ PsOrder(sent) = s => new.position = seen[sent[i].id].position
  /\ \/ new.content = sent[i].content
     \/ /\ new.content = seen[sent[i].id].content
        /\ rs[sent[i].id].content = sent[i].content

\* The row of a resource that was sent.
LEMMA PsSentRow ==
  ASSUME NEW rs, NEW s, PsNeat(rs, s), PsRowsOK(rs), NEW sent, PsListed(sent), NEW kept,
         NEW seen, NEW one, PsSees(seen, rs, s, sent, one), NEW i \in DOMAIN sent,
         NEW new, new = PsNewRow(rs, seen, s, sent, kept, sent[i].id)
  PROVE  PsSentAs(new, rs, s, seen, sent, i)
<1> DEFINE id == sent[i].id
<1> DEFINE A == PsAgain(rs, s, sent, kept, id)
<1>1. id \in PsIds /\ id \in PS!Range(PsOrder(sent)) /\ i \in Nat
  BY PsOrderIs DEF PsListed
<1>2. new = [content |-> IF A = {} THEN seen[id].content ELSE sent[PS!Min(A)].content,
             state |-> IF A # {} THEN "active" ELSE seen[id].state,
             position |-> IF ~(PsOrder(sent) # s) THEN seen[id].position
                          ELSE IF PsPlaces(sent, id) # {} THEN PS!Max(PsPlaces(sent, id))
                          ELSE 0]
  BY <1>1 DEF PsNewRow
<1>3. A \subseteq {i}
  BY DEF PsAgain, PsSaving, PsListed
<1>4. A = {} => /\ new.state = "active" /\ new.content = seen[id].content
                /\ rs[id].content = sent[i].content
  <2>1. SUFFICES ASSUME A = {}
                 PROVE  /\ new.state = "active" /\ new.content = seen[id].content
                        /\ rs[id].content = sent[i].content
    OBVIOUS
  <2>2. PsFrom(rs, s, sent, kept, i) # {}
    BY <2>1 DEF PsAgain, PsSaving
  <2>3. PICK j \in 1 .. Len(s) : s[j] = id /\ rs[id].content = sent[i].content
    BY <2>2, PsFromIs
  <2>4. id \in PS!Of(rs, "active")
    BY <2>3 DEF PsNeat
  <2>5. seen[id].state = "active"
    BY <1>1, <2>4 DEF PsSees, PS!Of
  <2> HIDE DEF A
  <2> QED BY <1>2, <2>1, <2>3, <2>5
<1>5. A # {} => new.state = "active" /\ new.content = sent[i].content
  <2>1. SUFFICES ASSUME A # {}
                 PROVE  new.state = "active" /\ new.content = sent[i].content
    OBVIOUS
  <2>2. A = {i}
    BY <1>3, <2>1
  <2>3. PS!Min({i}) = i
    BY <1>1 DEF PS!Min
  <2> HIDE DEF A
  <2> QED BY <1>2, <2>1, <2>2, <2>3
<1>6. PsPlaces(sent, id) = {i - 1}
  <2>1. DOMAIN PsOrder(sent) = DOMAIN sent
        /\ \A k \in DOMAIN sent : PsOrder(sent)[k] = sent[k].id
    BY PsOrderIs
  <2>2. \A k \in DOMAIN sent : sent[k].id = id <=> k = i
    BY DEF PsListed
  <2>3. {k \in DOMAIN PsOrder(sent) : PsOrder(sent)[k] = id} = {i}
    BY <2>1, <2>2
  <2> QED BY <2>3 DEF PsPlaces
<1>7. PS!Max({i - 1}) = i - 1
  BY <1>1 DEF PS!Max
<1>8. /\ PsOrder(sent) # s => new.position = i - 1
      /\ PsOrder(sent) = s => new.position = seen[id].position
  BY <1>2, <1>6, <1>7
<1> HIDE DEF A
<1>9. /\ new.state = "active"
      /\ new.content = sent[i].content \/
           (new.content = seen[id].content /\ rs[id].content = sent[i].content)
  BY <1>4, <1>5
<1> QED BY <1>8, <1>9 DEF PsSentAs

\* A save leaves what was sent, and its writes find their rows.
LEMMA PsSaveLeaves ==
  ASSUME NEW rs, NEW s, PsNeat(rs, s), PsRowsOK(rs), NEW sent, PsListed(sent), NEW kept,
         NEW seen, NEW one, PsSees(seen, rs, s, sent, one),
         NEW w, w = PS!Saved(rs, seen, s, PS!Shown(rs, s), sent, kept)
  PROVE  /\ ~w.fails /\ ~PS!Clashes(rs, w)
         /\ PsLeaves(rs, PS!Written(rs, w), sent, one)
<1> DEFINE new == PS!Written(rs, w)
<1> DEFINE R(id) == PsNewRow(rs, seen, s, sent, kept, id)
<1> DEFINE ids == PS!Range(PsOrder(sent))
<1> DEFINE T == PsTouched(s, sent)
<1>1. /\ w.fails = FALSE
      /\ w.inserts = {id \in ids : seen[id] = PS!Absent}
      /\ w.purges = IF PsOrder(sent) # s THEN PS!Of(rs, "deleted") \ ids ELSE {}
      /\ \A x \in w.writes : x[1] \in T
  <2>1. PsSavesAs(rs, seen, s, sent, kept, w)
    BY PsSavedIs
  <2> QED BY <2>1 DEF PsSavesAs
<1>0. PsSavesAs(rs, seen, s, sent, kept, w)
  BY PsSavedIs
<1>2. /\ ids \subseteq PsIds /\ PS!Range(s) \subseteq PsIds /\ T = PS!Range(s) \cup ids
      /\ \A id \in PS!Range(s) : rs[id].state = "active"
      /\ ids = {sent[i].id : i \in DOMAIN sent}
      /\ PS!Of(rs, "active") = PS!Range(s)
  BY PsNeatRange, PsOrderIs DEF PsTouched, PsListed
<1>3. \A id \in ids : seen[id] = rs[id] \/ (id = one /\ id \in PS!Range(s))
  BY <1>2 DEF PsSees
<1>4. ~PS!Clashes(rs, w)
  <2>1. \A id \in w.inserts : rs[id] = PS!Absent
    <3>1. TAKE id \in w.inserts
    <3>2. id \in ids /\ seen[id] = PS!Absent
      BY <1>1
    <3>3. PS!Absent.state = "absent"
      BY DEF PS!Absent
    <3>4. id # one
      BY <1>2, <3>2, <3>3 DEF PsSees
    <3> QED BY <1>2, <3>2, <3>4 DEF PsSees
  <2>2. \A x \in w.writes : x[1] \in T
    BY <1>1
  <2>3. ASSUME NEW id \in T, rs[id] = PS!Absent PROVE id \in w.inserts
    <3>1. id \notin PS!Range(s)
      BY <1>2, <2>3 DEF PS!Absent
    <3>2. id \in ids /\ seen[id] = rs[id]
      BY <1>2, <1>3, <3>1
    <3> QED BY <1>1, <2>3, <3>2
  <2> QED BY <2>1, <2>2, <2>3 DEF PS!Clashes
\* The columns of a row that is not purged.
<1>5. ASSUME NEW id \in PsIds, id \notin w.purges,
             NEW f \in {"state", "position", "content"}
      PROVE  new[id][f] = IF id \in T /\ R(id)[f] # seen[id][f] THEN R(id)[f]
                          ELSE rs[id][f]
  BY <1>0, <1>5, PsWrittenIs
<1>6. /\ new = [id \in PsIds |-> new[id]]
      /\ \A id \in w.purges : id \in PsIds => new[id] = PS!Absent
  BY DEF PS!Written
<1> HIDE DEF new
<1>7. ASSUME NEW id \in PsIds, id \notin w.purges
      PROVE  /\ new[id].state = IF id \in T /\ R(id).state # seen[id].state
                                  THEN R(id).state ELSE rs[id].state
             /\ new[id].position = IF id \in T /\ R(id).position # seen[id].position
                                     THEN R(id).position ELSE rs[id].position
             /\ new[id].content = IF id \in T /\ R(id).content # seen[id].content
                                    THEN R(id).content ELSE rs[id].content
  <2> HIDE DEF R, T
  <2> QED BY <1>5, <1>7
\* A row that was sent.
<1>8. ASSUME NEW i \in DOMAIN sent
      PROVE  /\ new[sent[i].id].state = "active"
             /\ new[sent[i].id].position = i - 1
             /\ new[sent[i].id].content = sent[i].content \/ sent[i].id = one
  <2> DEFINE id == sent[i].id
  <2>1. id \in ids /\ id \in PsIds /\ id \in T /\ id \notin w.purges
    BY <1>1, <1>2
  <2>2. /\ R(id).state = "active"
        /\ PsOrder(sent) # s => R(id).position = i - 1
        /\ PsOrder(sent) = s => R(id).position = seen[id].position
        /\ \/ R(id).content = sent[i].content
           \/ R(id).content = seen[id].content /\ rs[id].content = sent[i].content
    <3> HIDE DEF T, ids
    <3>1. PsSentAs(R(id), rs, s, seen, sent, i)
      BY PsSentRow
    <3> HIDE DEF R
    <3> QED BY <3>1 DEF PsSentAs
  <2>3. PsOrder(sent) = s => rs[id].position = i - 1
    BY PsOrderIs DEF PsNeat
  <2>4. /\ id # one => seen[id] = rs[id]
        /\ id = one => /\ seen[id].state = "active" /\ rs[id].state = "active"
                       /\ seen[id].position = rs[id].position
    BY <1>2, <2>1 DEF PsSees
  <2>5. /\ new[id].state = IF id \in T /\ R(id).state # seen[id].state
                                  THEN R(id).state ELSE rs[id].state
        /\ new[id].position = IF id \in T /\ R(id).position # seen[id].position
                                     THEN R(id).position ELSE rs[id].position
        /\ new[id].content = IF id \in T /\ R(id).content # seen[id].content
                                    THEN R(id).content ELSE rs[id].content
    BY <1>7, <2>1
  <2>6. /\ new[id].state = "active" /\ new[id].position = i - 1
        /\ new[id].content = sent[i].content \/ id = one
    <3> HIDE DEF id, R, T
    <3> QED BY <2>1, <2>2, <2>3, <2>4, <2>5
  <2> QED BY <2>6
\* A row that was not sent.
<1>9. ASSUME NEW id \in PsIds, id \notin ids
      PROVE  new[id].state # "active"
  <2>1. CASE id \in w.purges
    BY <1>6, <2>1 DEF PS!Absent
  <2>2. CASE id \notin w.purges /\ id \notin PS!Range(s)
    <3>1. new[id].state = rs[id].state
      BY <1>2, <1>7, <1>9, <2>2
    <3> QED BY <1>2, <2>2, <3>1 DEF PS!Of
  <2>3. CASE id \notin w.purges /\ id \in PS!Range(s)
    <3>1. PsOrder(sent) # s
      BY <1>9, <2>3
    <3>2. R(id).state = "deleted"
      BY <1>9, <2>3, <3>1 DEF PsNewRow
    <3>3. rs[id].state = "active" /\ seen[id].state = "active" /\ id \in T
      BY <1>2, <2>3 DEF PsSees
    <3> HIDE DEF R
    <3> QED BY <1>7, <2>3, <3>2, <3>3
  <2> QED BY <2>1, <2>2, <2>3
<1>10. \A id \in PsIds : new[id].position \in Nat
  <2>1. TAKE id \in PsIds
  <2>2. CASE id \in ids
    <3>1. PICK i \in DOMAIN sent : id = sent[i].id
      BY <1>2, <2>2
    <3>2. i - 1 \in Nat
      BY PsOrderIs
    <3> QED BY <1>8, <3>1, <3>2
  <2>3. CASE id \notin ids /\ id \in w.purges
    BY <1>6, <2>3 DEF PS!Absent
  <2>4. CASE id \notin ids /\ id \notin w.purges
    <3>1. rs[id].position \in Nat /\ seen[id].position \in Nat
      BY DEF PsRowsOK, PsSees
    <3>2. PsPlaces(sent, id) = {}
      BY <1>2, <2>4, PsOrderIs DEF PsPlaces
    <3>3. R(id).position \in Nat
      BY <3>1, <3>2 DEF PsNewRow
    <3> HIDE DEF R
    <3> QED BY <1>7, <2>4, <3>1, <3>3
  <2> QED BY <2>2, <2>3, <2>4
<1>11. PsNeat(new, PsOrder(sent))
  <2>1. PS!Of(new, "active") = ids
    BY <1>2, <1>8, <1>9 DEF PS!Of
  <2>2. \A i \in 1 .. Len(PsOrder(sent)) :
          i \in DOMAIN sent /\ PsOrder(sent)[i] = sent[i].id
    BY PsOrderIs
  <2>3. PsOrder(sent) \in Seq(PsIds) /\ ids = {PsOrder(sent)[i] : i \in 1 .. Len(PsOrder(sent))}
    BY PsOrderIs
  <2>4. \A i, j \in 1 .. Len(PsOrder(sent)) : PsOrder(sent)[i] = PsOrder(sent)[j] => i = j
    BY <2>2 DEF PsListed
  <2>5. \A i \in 1 .. Len(PsOrder(sent)) : new[PsOrder(sent)[i]].position = i - 1
    BY <1>8, <2>2
  <2> HIDE DEF ids
  <2> QED BY <2>1, <2>3, <2>4, <2>5 DEF PsNeat
<1>12. \A id \in PS!Of(rs, "active") : new[id] # PS!Absent
  <2>1. TAKE id \in PS!Of(rs, "active")
  <2>2. CASE id \in ids
    BY <1>2, <1>8, <2>2 DEF PS!Absent
  <2>3. CASE id \notin ids
    <3>1. id \in PS!Range(s) /\ id \in PsIds /\ id \notin w.purges
      BY <1>1, <1>2 DEF PS!Of
    <3>2. R(id).state = "deleted"
      BY <2>3, <3>1 DEF PsNewRow
    <3>3. rs[id].state = "active"
      BY <1>2, <3>1
    <3> HIDE DEF R
    <3>4. new[id].state \in {"active", "deleted"}
      BY <1>7, <3>1, <3>2, <3>3
    <3> QED BY <3>4 DEF PS!Absent
  <2> QED BY <2>2, <2>3
<1>13. PsLeaves(rs, new, sent, one)
  BY <1>6, <1>8, <1>10, <1>11, <1>12 DEF PsLeaves, PsRowsOK
<1> QED BY <1>1, <1>4, <1>13 DEF new

\* Nothing to save: the list is the one that was sent.
LEMMA PsNoChange ==
  ASSUME NEW rs, NEW s, PsNeat(rs, s), NEW sent, PsListed(sent), NEW kept, NEW w,
         w = PS!Saved(rs, rs, s, PS!Shown(rs, s), sent, kept), ~w.change
  PROVE  /\ PsNeat(rs, PsOrder(sent))
         /\ \A i \in DOMAIN sent : rs[sent[i].id].content = sent[i].content
<1>1. /\ PsOrder(sent) = s
      /\ \A i \in PsSaving(rs, s, sent, kept) : rs[sent[i].id].content = sent[i].content
  <2>1. PsSavesAs(rs, rs, s, sent, kept, w)
    BY PsSavedIs
  <2> QED BY <2>1 DEF PsSavesAs
<1>2. ASSUME NEW i \in DOMAIN sent, i \notin PsSaving(rs, s, sent, kept)
      PROVE  rs[sent[i].id].content = sent[i].content
  <2>1. PsFrom(rs, s, sent, kept, i) # {}
    BY <1>2 DEF PsSaving
  <2> QED BY <2>1, PsFromIs
<1> QED BY <1>1, <1>2

\* What the rows are when the list is neat.
LEMMA PsListIsSent ==
  ASSUME NEW rs, NEW sent, PsListed(sent), PsNeat(rs, PsOrder(sent)), NEW one,
         \A i \in DOMAIN sent :
           rs[sent[i].id].content = sent[i].content \/ sent[i].id = one
  PROVE  PS!ListIsBut(one, rs, sent)
<1>1. PS!Lists(rs) = {PsOrder(sent)}
  BY PsNeatLists
<1>2. \A i \in DOMAIN sent : rs[sent[i].id].position = i - 1
  BY PsOrderIs DEF PsNeat
<1> QED BY <1>1, <1>2 DEF PS!ListIsBut, PsOrder

-----------------------------------------------------------------------------
(* The lists that requests make *)

LEMMA PsItemsAreListed ==
  ASSUME NEW rs, NEW s \in Seq(PsIds),
         \A i, j \in 1 .. Len(s) : s[i] = s[j] => i = j
  PROVE  /\ PsListed(PS!Items(PS!Shown(rs, s))) /\ PsOrder(PS!Items(PS!Shown(rs, s))) = s
         /\ DOMAIN PS!Items(PS!Shown(rs, s)) = 1 .. Len(s)
         /\ \A i \in 1 .. Len(s) :
              PS!Items(PS!Shown(rs, s))[i] = PS!Item(s[i], rs[s[i]].content)
<1>1. Len(s) \in Nat /\ s \in [1 .. Len(s) -> PsIds] /\ DOMAIN s = 1 .. Len(s)
  BY LenProperties
<1> DEFINE items == PS!Items(PS!Shown(rs, s))
<1>2. /\ DOMAIN items = 1 .. Len(s) /\ items = [i \in DOMAIN items |-> items[i]]
      /\ \A i \in 1 .. Len(s) : items[i] = PS!Item(s[i], rs[s[i]].content)
  BY <1>1 DEF PS!Items, PS!Shown
<1> HIDE DEF items
<1>3. \A i \in 1 .. Len(s) : items[i].id = s[i]
  BY <1>2 DEF PS!Item
<1>4. PsListed(items)
  BY <1>1, <1>2, <1>3 DEF PsListed
<1>5. PsOrder(items) = s
  BY <1>1, <1>2, <1>3 DEF PsOrder
<1> QED BY <1>2, <1>4, <1>5 DEF items

LEMMA PsNeatItems ==
  ASSUME NEW rs, NEW s, PsNeat(rs, s)
  PROVE  /\ PsListed(PS!Items(PS!Shown(rs, s))) /\ PsOrder(PS!Items(PS!Shown(rs, s))) = s
         /\ DOMAIN PS!Items(PS!Shown(rs, s)) = 1 .. Len(s)
         /\ \A i \in 1 .. Len(s) :
              PS!Items(PS!Shown(rs, s))[i] = PS!Item(s[i], rs[s[i]].content)
BY PsItemsAreListed DEF PsNeat

\* A rest lists every one of its resources once.
LEMMA PsRestIs ==
  ASSUME NEW ids, ids \subseteq PsIds, IsFiniteSet(ids),
         NEW was, NEW s \in PS!Rest(was, ids)
  PROVE  /\ s \in Seq(PsIds) /\ PS!Range(s) \subseteq ids
         /\ \A i, j \in 1 .. Len(s) : s[i] = s[j] => i = j
<1>1. PS!Cardinality(ids) \in Nat
  BY FS_CardinalityType, PsCardinality
<1>2. /\ s \in [1 .. PS!Cardinality(ids) -> ids]
      /\ \A i, j \in 1 .. PS!Cardinality(ids) : i # j => s[i] # s[j]
  BY DEF PS!Rest, PS!SetToSeqs
<1> DEFINE n == PS!Cardinality(ids)
<1> HIDE DEF n
<1>3. n \in Nat /\ s \in [1 .. n -> ids] /\ s \in [1 .. n -> PsIds]
      /\ \A i, j \in 1 .. n : i # j => s[i] # s[j]
  BY <1>1, <1>2 DEF n
<1>4. s \in Seq(PsIds) /\ DOMAIN s = 1 .. n
  BY <1>3, SeqDef
<1>5. Len(s) = n
  BY <1>3, <1>4, LenProperties
<1> QED BY <1>3, <1>4, <1>5 DEF PS!Range

LEMMA PsActiveIsFinite ==
  ASSUME NEW rs, NEW s, PsNeat(rs, s), NEW ids, ids \subseteq PS!Of(rs, "active")
  PROVE  ids \subseteq PsIds /\ IsFiniteSet(ids)
<1>1. /\ Len(s) \in Nat /\ s \in [1 .. Len(s) -> PsIds]
      /\ PS!Of(rs, "active") = {s[i] : i \in 1 .. Len(s)}
  BY LenProperties DEF PsNeat
<1> DEFINE A == PS!Of(rs, "active")
<1> DEFINE n == Len(s)
<1> HIDE DEF n, A
<1>2. n \in Int /\ 1 \in Int
  BY <1>1 DEF n
<1>3. IsFiniteSet(1 .. n)
  BY <1>2, FS_Interval, PsCardinality
<1>5. s \in Surjection(1 .. n, A)
  BY <1>1 DEF Surjection, n, A
<1>6. IsFiniteSet(A)
  BY <1>3, <1>5, FS_Surjection, PsCardinality
<1>4. IsFiniteSet(PS!Of(rs, "active"))
  BY <1>6 DEF A
<1> QED BY <1>4, FS_Subset, PsCardinality DEF PS!Of

\* What is sent with a new resource at the end.
LEMMA PsAppendIsListed ==
  ASSUME NEW rs, NEW s, PsNeat(rs, s), NEW id \in PsIds, rs[id] = PS!Absent, NEW content
  PROVE  PsListed(Append(PS!Items(PS!Shown(rs, s)), PS!Item(id, content)))
<1> DEFINE items == PS!Items(PS!Shown(rs, s))
<1> DEFINE X == {items[i] : i \in 1 .. Len(s)} \cup {PS!Item(id, content)}
<1>1. /\ Len(s) \in Nat /\ DOMAIN items = 1 .. Len(s) /\ PsOrder(items) = s
      /\ PsListed(items)
  BY PsNeatItems, LenProperties DEF PsNeat
<1>2. items \in [1 .. Len(s) -> X]
  BY <1>1 DEF PsListed
<1> HIDE DEF items
<1>3. items \in Seq(X) /\ Len(items) = Len(s) /\ PS!Item(id, content) \in X
  <2>1. items \in Seq(X)
    BY <1>1, <1>2, SeqDef
  <2> QED BY <1>1, <2>1, LenProperties
<1> DEFINE all == Append(items, PS!Item(id, content))
<1>4. /\ all \in Seq(X) /\ Len(all) = Len(s) + 1
      /\ \A i \in 1 .. Len(s) : all[i] = items[i]
      /\ all[Len(s) + 1] = PS!Item(id, content)
  <2> HIDE DEF X
  <2>1. /\ Append(items, PS!Item(id, content)) \in Seq(X)
        /\ Len(Append(items, PS!Item(id, content))) = Len(items) + 1
        /\ \A i \in 1 .. Len(items) : Append(items, PS!Item(id, content))[i] = items[i]
        /\ Append(items, PS!Item(id, content))[Len(items) + 1] = PS!Item(id, content)
    BY <1>3, AppendProperties
  <2> QED BY <1>3, <2>1
<1> HIDE DEF all
<1>5. DOMAIN all = 1 .. (Len(s) + 1) /\ all = [i \in DOMAIN all |-> all[i]]
  <2>1. DOMAIN all = 1 .. Len(all) /\ all \in [1 .. Len(all) -> X]
    BY <1>4, LenProperties
  <2> QED BY <1>4, <2>1
<1>6. \A i \in 1 .. Len(s) : all[i].id = s[i]
  BY <1>1, <1>4 DEF PsOrder
<1>7. all[Len(s) + 1].id = id
  BY <1>4 DEF PS!Item
<1>8. \A i \in 1 .. Len(s) : s[i] # id /\ s[i] \in PsIds
  <2>1. PS!Of(rs, "active") = {s[i] : i \in 1 .. Len(s)}
    BY DEF PsNeat
  <2> QED BY <2>1 DEF PS!Of, PS!Absent
<1>9. \A i, j \in 1 .. Len(s) : s[i] = s[j] => i = j
  BY DEF PsNeat
<1>10. \A i, j \in DOMAIN all : all[i].id = all[j].id => i = j
  BY <1>1, <1>5, <1>6, <1>7, <1>8, <1>9
<1>11. \A i \in DOMAIN all : all[i].id \in PsIds
  BY <1>1, <1>5, <1>6, <1>7, <1>8
<1>12. \E n \in Nat : DOMAIN all = 1 .. n
  BY <1>1, <1>5
<1>13. PsListed(all)
  BY <1>5, <1>10, <1>11, <1>12 DEF PsListed
<1> QED BY <1>13 DEF all, items

\* What is sent with one resource changed.
LEMMA PsChangedIsListed ==
  ASSUME NEW rs, NEW s, PsNeat(rs, s), NEW at \in DOMAIN s, NEW content
  PROVE  /\ PsListed([PS!Items(PS!Shown(rs, s)) EXCEPT ![at] = PS!Item(s[at], content)])
         /\ PsOrder([PS!Items(PS!Shown(rs, s)) EXCEPT ![at] = PS!Item(s[at], content)]) = s
<1> DEFINE items == PS!Items(PS!Shown(rs, s))
<1> DEFINE new == [items EXCEPT ![at] = PS!Item(s[at], content)]
<1>1. /\ PsListed(items) /\ DOMAIN items = DOMAIN s /\ PsOrder(items) = s
      /\ DOMAIN s = 1 .. Len(s) /\ Len(s) \in Nat
  BY PsNeatItems, LenProperties DEF PsNeat
<1>2. PS!Item(s[at], content).id = s[at]
  BY DEF PS!Item
<1> HIDE DEF items
<1>3. \A i \in DOMAIN items : items[i].id = s[i]
  BY <1>1 DEF PsOrder
<1>4. /\ DOMAIN new = DOMAIN s /\ new = [i \in DOMAIN new |-> new[i]]
      /\ \A i \in DOMAIN s : new[i].id = s[i]
  BY <1>1, <1>2, <1>3
<1> HIDE DEF new
<1>5. s = [i \in DOMAIN s |-> s[i]] /\ \A i \in DOMAIN s : s[i] \in PsIds
  BY DEF PsNeat
<1>6. PsOrder(new) = s
  BY <1>4, <1>5 DEF PsOrder
<1>7. PsListed(new)
  <2>1. \E n \in Nat : DOMAIN new = 1 .. n
    BY <1>1, <1>4
  <2>2. \A i, j \in DOMAIN new : new[i].id = new[j].id => i = j
    BY <1>1, <1>4 DEF PsNeat
  <2> QED BY <1>4, <1>5, <2>1, <2>2 DEF PsListed
<1> QED BY <1>6, <1>7 DEF new, items

\* What a reorder sends: those named, then the others.
LEMMA PsReorderIsListed ==
  ASSUME NEW rs, NEW s, PsNeat(rs, s), NEW order \in PS!Orders, PsMaxSent \in Nat,
         PS!Range(order) \subseteq PS!Of(rs, "active"),
         NEW rest \in PS!Rest(s, PS!Of(rs, "active") \ PS!Range(order))
  PROVE  PsListed(PS!Items(PS!Shown(rs, order \o rest)))
<1>1. PICK n \in 1 .. PsMaxSent : order \in [1 .. n -> PsIds] /\ PS!IsInjective(order)
  BY DEF PS!Orders
<1>2. order \in Seq(PsIds) /\ DOMAIN order = 1 .. n /\ n \in Nat
  BY <1>1, SeqDef
<1>3. Len(order) = n
  BY <1>2, LenProperties
<1>4. \A i, j \in 1 .. Len(order) : order[i] = order[j] => i = j
  BY <1>1, <1>2, <1>3 DEF PS!IsInjective
<1>5. /\ rest \in Seq(PsIds) /\ PS!Range(rest) \cap PS!Range(order) = {}
      /\ \A i, j \in 1 .. Len(rest) : rest[i] = rest[j] => i = j
  <2>1. /\ PS!Of(rs, "active") \ PS!Range(order) \subseteq PsIds
        /\ IsFiniteSet(PS!Of(rs, "active") \ PS!Range(order))
    BY PsActiveIsFinite
  <2>2. /\ rest \in Seq(PsIds) /\ PS!Range(rest) \subseteq PS!Of(rs, "active") \ PS!Range(order)
        /\ \A i, j \in 1 .. Len(rest) : rest[i] = rest[j] => i = j
    BY <2>1, PsRestIs
  <2> QED BY <2>2
<1>6. \A i \in 1 .. Len(order), j \in 1 .. Len(rest) : order[i] # rest[j]
  <2>1. DOMAIN order = 1 .. Len(order) /\ DOMAIN rest = 1 .. Len(rest)
    BY <1>2, <1>5, LenProperties
  <2> QED BY <1>5, <2>1 DEF PS!Range
<1> DEFINE all == order \o rest
<1>7. /\ all \in Seq(PsIds) /\ Len(all) = Len(order) + Len(rest)
      /\ \A i \in 1 .. Len(all) : all[i] = IF i <= Len(order) THEN order[i]
                                         ELSE rest[i - Len(order)]
  BY <1>2, <1>5, ConcatProperties
<1> HIDE DEF all
<1>8. Len(order) \in Nat /\ Len(rest) \in Nat
  BY <1>2, <1>5
<1>9. \A i, j \in 1 .. Len(all) : all[i] = all[j] => i = j
  <2>1. \A i \in 1 .. Len(all) :
          \/ i \in 1 .. Len(order) /\ all[i] = order[i]
          \/ /\ i - Len(order) \in 1 .. Len(rest) /\ all[i] = rest[i - Len(order)]
             /\ ~(i <= Len(order))
    BY <1>7, <1>8
  <2> QED BY <1>4, <1>5, <1>6, <1>8, <2>1
<1>10. PsListed(PS!Items(PS!Shown(rs, all)))
  BY <1>7, <1>9, PsItemsAreListed
<1> QED BY <1>10 DEF all

-----------------------------------------------------------------------------
(* The invariant *)

\* What a request that has the lock is about to leave behind.
PsEnding(rs, c, overtaken) ==
  /\ c.pc \in {"commit", "unchanged", "fail"}
  /\ c.pc = "commit" =>
       /\ PsListed(c.sent)
       /\ ~overtaken => PsLeaves(rs, PS!Written(rs, c.saves), c.sent, Unset)
       /\ c.one # Unset => PsLeaves(rs, PS!Written(rs, c.saves), c.sent, c.one)
  /\ c.pc = "unchanged" /\ ~overtaken => PS!ListIs(rs, c.sent)
  /\ c.pc = "fail" /\ ~overtaken => c.sent = Unset

PsLoaded(rs, c, overtaken) ==
  /\ c.pc = "lock" /\ c.op \in {"update", "delete"} /\ c.id \in PsIds
  /\ c.row.position \in Nat
  /\ ~overtaken => c.row = rs[c.id]

\* The list was neat when it was shown, and shown as it was.
PsWasShown(rs, c, overtaken) ==
  /\ c.pc = "shown" /\ PsListed(c.sent) /\ c.kept \in BOOLEAN
  /\ ~overtaken => \A s \in PS!Lists(rs) : c.shown = PS!Shown(rs, s)

PsHasRead(rs, c, overtaken) ==
  /\ c.pc = "read" /\ PsListed(c.sent)
  /\ ~overtaken => \E kept \in BOOLEAN : \A s \in PS!Lists(rs) :
       c.saves = PS!Saved(rs, rs, s, PS!Shown(rs, s), c.sent, kept)

PsCallOK(rs, c, overtaken, holds) ==
  \/ c \in {Unset, PS!Done} /\ ~holds
  \/ /\ c \notin {Unset, PS!Done} /\ ~holds
     /\ \/ PsLoaded(rs, c, overtaken) \/ PsWasShown(rs, c, overtaken)
        \/ PsHasRead(rs, c, overtaken)
  \/ c \notin {Unset, PS!Done} /\ holds /\ PsEnding(rs, c, overtaken)

PsInv ==
  /\ psCall = [r \in PsRequests |-> psCall[r]]
  /\ psTorn \in BOOLEAN
  /\ ~psTorn =>
       /\ PsRowsOK(psRows) /\ \E s \in PS!Lists(psRows) : PsNeat(psRows, s)
       /\ \A r \in PsRequests : PsCallOK(psRows, psCall[r], r \in psOld, psHolder = r)

\* What a flush ends with.
PsFlushed(w, clashes, sent, one) ==
  [pc |-> IF w.fails \/ (w.change /\ clashes) THEN "fail"
          ELSE IF w.change THEN "commit" ELSE "unchanged",
   sent |-> sent, one |-> one, saves |-> w]

(* A request not overtaken has seen the rows as they are; one that has     *)
(* loaded a resource before has seen all the others so.                    *)
LEMMA PsFlushEnds ==
  ASSUME NEW rs, NEW s, PsNeat(rs, s), PsRowsOK(rs), NEW sent, PsListed(sent), NEW kept,
         NEW seen, NEW one, NEW overtaken \in BOOLEAN, Unset \notin PsIds,
         ~overtaken => seen = rs,
         one # Unset => PsSees(seen, rs, s, sent, one),
         NEW w, ~overtaken \/ one # Unset =>
                  w = PS!Saved(rs, seen, s, PS!Shown(rs, s), sent, kept),
         NEW c, c = PsFlushed(w, PS!Clashes(rs, w), sent, one)
  PROVE  PsEnding(rs, c, overtaken)
<1>1. /\ c.pc = IF w.fails \/ (w.change /\ PS!Clashes(rs, w)) THEN "fail"
                ELSE IF w.change THEN "commit" ELSE "unchanged"
      /\ c.sent = sent /\ c.one = one /\ c.saves = w
  BY DEF PsFlushed
<1>2. c.pc \in {"commit", "unchanged", "fail"}
  BY <1>1
<1>3. ~overtaken => PsSees(seen, rs, s, sent, Unset)
  BY DEF PsSees
<1>4. ~overtaken => /\ ~w.fails /\ ~PS!Clashes(rs, w)
                    /\ PsLeaves(rs, PS!Written(rs, w), sent, Unset)
  BY <1>3, PsSaveLeaves
<1>5. one # Unset => PsLeaves(rs, PS!Written(rs, w), sent, one)
  BY PsSaveLeaves
<1>6. c.pc = "unchanged" /\ ~overtaken => PS!ListIs(rs, c.sent)
  <2>1. SUFFICES ASSUME c.pc = "unchanged", ~overtaken
                 PROVE PS!ListIs(rs, sent)
    BY <1>1
  <2>2. ~w.change
    BY <1>1, <2>1
  <2>3. /\ PsNeat(rs, PsOrder(sent))
        /\ \A i \in DOMAIN sent : rs[sent[i].id].content = sent[i].content
    BY <2>1, <2>2, PsNoChange
  <2> QED BY <2>3, PsListIsSent DEF PS!ListIs
<1>7. c.pc = "fail" => overtaken
  BY <1>1, <1>4
<1> QED BY <1>1, <1>2, <1>4, <1>5, <1>6, <1>7 DEF PsEnding

\* The call of a request that has just taken the lock.
LEMMA PsFlushOK ==
  ASSUME PsConstantsOK, NEW rs, NEW c, NEW overtaken, PsEnding(rs, c, overtaken),
         "pc" \in DOMAIN c
  PROVE  PsCallOK(rs, c, overtaken, TRUE)
<1>1. c # Unset
  BY DEF PsConstantsOK
<1>2. c # PS!Done
  BY DEF PsEnding, PS!Done
<1> QED BY <1>1, <1>2 DEF PsCallOK

LEMMA PsFirstIsNeat ==
  ASSUME PsConstantsOK, NEW n \in 1 .. PsMaxSent, NEW deleted
  PROVE  /\ PsRowsOK(PS!FirstRows(n, deleted))
         /\ PsNeat(PS!FirstRows(n, deleted), [i \in 1 .. n |-> i])
<1> DEFINE rs == PS!FirstRows(n, deleted)
<1>1. n \in Nat /\ 1 .. n \subseteq PsIds
  BY DEF PsConstantsOK
<1>2. /\ rs = [id \in PsIds |-> rs[id]]
      /\ \A id \in PsIds : id <= n => rs[id].state = "active" /\ rs[id].position = id - 1
      /\ \A id \in PsIds : ~(id <= n) => rs[id].state # "active" /\ rs[id].position = 0
  BY DEF PS!FirstRows, PS!Absent
<1> HIDE DEF rs
<1>3. \A id \in PsIds : id \in Nat /\ id >= 1
  BY DEF PsConstantsOK
<1>4. PS!Of(rs, "active") = 1 .. n
  BY <1>1, <1>2, <1>3 DEF PS!Of
<1>5. PsRowsOK(rs)
  BY <1>2, <1>3 DEF PsRowsOK
<1> DEFINE s == [i \in 1 .. n |-> i]
<1>6. s \in [1 .. n -> PsIds]
  BY <1>1
<1>7. s \in Seq(PsIds) /\ DOMAIN s = 1 .. n
  BY <1>1, <1>6, SeqDef
<1>8. Len(s) = n
  BY <1>1, <1>7, LenProperties
<1>9. PsNeat(rs, s)
  <2>1. \A i \in 1 .. n : s[i] = i
    OBVIOUS
  <2> HIDE DEF s
  <2>2. \A i, j \in 1 .. Len(s) : s[i] = s[j] => i = j
    BY <1>8, <2>1
  <2>3. PS!Of(rs, "active") = {s[i] : i \in 1 .. Len(s)}
    BY <1>4, <1>8, <2>1
  <2>4. \A i \in 1 .. Len(s) : rs[s[i]].position = i - 1
    BY <1>1, <1>2, <1>8, <2>1
  <2> QED BY <1>7, <2>2, <2>3, <2>4 DEF PsNeat
<1> QED BY <1>5, <1>9 DEF rs

\* What the invariant says of the rows and of one call.
LEMMA PsInvIs ==
  ASSUME PsConstantsOK, PsInv, ~psTorn, NEW r \in PsRequests
  PROVE  /\ PsRowsOK(psRows) /\ \E s : PS!Lists(psRows) = {s} /\ PsNeat(psRows, s)
         /\ PsCallOK(psRows, psCall[r], r \in psOld, psHolder = r)
         /\ psCall[r] = Unset => psHolder # r
         /\ psCall[r] # Unset /\ psCall[r].pc \in {"lock", "shown", "read"} => psHolder # r
<1>1. PICK s \in PS!Lists(psRows) : PsNeat(psRows, s)
  BY DEF PsInv
<1>2. PS!Lists(psRows) = {s}
  BY <1>1, PsNeatLists
<1>3. PsRowsOK(psRows) /\ PsCallOK(psRows, psCall[r], r \in psOld, psHolder = r)
  BY DEF PsInv
<1>4. psCall[r] = Unset => psHolder # r
  BY <1>3 DEF PsCallOK
<1>5. psCall[r] # Unset /\ psCall[r].pc \in {"lock", "shown", "read"} => psHolder # r
  BY <1>3 DEF PsCallOK, PsEnding, PS!Done
<1> QED BY <1>1, <1>2, <1>3, <1>4, <1>5

\* The calls of the others stay as they are, and so do the rows.
LEMMA PsOneCall ==
  ASSUME PsConstantsOK, PsInv, ~psTorn, NEW r \in PsRequests, NEW c,
         psCall' = [psCall EXCEPT ![r] = c], UNCHANGED <<psRows, psOld, psTorn>>,
         PsCallOK(psRows, c, r \in psOld, psHolder' = r),
         \A q \in PsRequests : q # r => (psHolder' = q <=> psHolder = q)
  PROVE  PsInv'
<1>1. /\ psCall' = [q \in PsRequests |-> psCall'[q]] /\ psCall'[r] = c
      /\ \A q \in PsRequests : q # r => psCall'[q] = psCall[q]
  BY DEF PsInv
<1>2. psRows' = psRows /\ psOld' = psOld /\ psTorn' = psTorn
  OBVIOUS
<1>3. psTorn' \in BOOLEAN
  BY <1>2 DEF PsInv
<1>4. PsRowsOK(psRows') /\ \E s \in PS!Lists(psRows') : PsNeat(psRows', s)
  BY <1>2 DEF PsInv
<1>5. ASSUME NEW q \in PsRequests
      PROVE  PsCallOK(psRows', psCall'[q], q \in psOld', psHolder' = q)
  <2>1. CASE q = r
    BY <1>1, <1>2, <2>1
  <2>2. CASE q # r
    <3>1. PsCallOK(psRows, psCall[q], q \in psOld, psHolder = q)
      BY DEF PsInv
    <3>2. (psHolder' = q) = (psHolder = q)
      BY <2>2
    <3>3. psCall'[q] = psCall[q]
      BY <1>1, <2>2
    <3> QED BY <1>2, <3>1, <3>2, <3>3
  <2> QED BY <2>1, <2>2
<1>6. PsRowsOK(psRows)' /\ (\E s \in PS!Lists(psRows) : PsNeat(psRows, s))'
  BY <1>4
<1> QED BY <1>1, <1>3, <1>5, <1>6 DEF PsInv

LEMMA PsTakes ==
  ASSUME PsConstantsOK, PsInv, ~psTorn, NEW r \in PsRequests, NEW c,
         psHolder = Unset, psHolder' = r,
         psCall' = [psCall EXCEPT ![r] = c], UNCHANGED <<psRows, psOld, psTorn>>,
         "pc" \in DOMAIN c, PsEnding(psRows, c, r \in psOld)
  PROVE  PsInv'
<1>1. PsCallOK(psRows, c, r \in psOld, TRUE)
  BY PsFlushOK
<1>2. PsCallOK(psRows, c, r \in psOld, psHolder' = r)
  <2>1. (psHolder' = r) = TRUE
    OBVIOUS
  <2> QED BY <1>1, <2>1
<1>3. \A q \in PsRequests : q # r => (psHolder' = q <=> psHolder = q)
  BY DEF PsConstantsOK
<1> QED BY <1>2, <1>3, PsOneCall

LEMMA PsSaves ==
  ASSUME PsConstantsOK, PsInv, ~psTorn, NEW r \in PsRequests,
         psHolder = Unset, psHolder' = r, UNCHANGED <<psRows, psOld, psTorn>>,
         NEW s, PS!Lists(psRows) = {s}, PsNeat(psRows, s), PsRowsOK(psRows),
         NEW sent, PsListed(sent), NEW seen, NEW shown, NEW kept, NEW one,
         PS!Save(r, seen, shown, sent, kept, one),
         r \notin psOld => seen = psRows,
         one # Unset => PsSees(seen, psRows, s, sent, one),
         r \notin psOld \/ one # Unset => shown = PS!Shown(psRows, s)
  PROVE  PsInv'
<1> DEFINE w == PS!Saved(psRows, seen, s, shown, sent, kept)
<1> DEFINE c == PsFlushed(w, PS!Clashes(psRows, w), sent, one)
<1>1. psCall' = [psCall EXCEPT ![r] = c]
  BY DEF PS!Save, PS!OldList, PS!Flush, PsFlushed
<1>2. "pc" \in DOMAIN c
  BY DEF PsFlushed
<1>3. ~(r \in psOld) \/ one # Unset => w = PS!Saved(psRows, seen, s, PS!Shown(psRows, s), sent, kept)
  OBVIOUS
<1> HIDE DEF w
<1>4. c = PsFlushed(w, PS!Clashes(psRows, w), sent, one) /\ (r \in psOld) \in BOOLEAN
  OBVIOUS
<1> HIDE DEF c
<1>5. Unset \notin PsIds
  BY DEF PsConstantsOK
<1>6. PsEnding(psRows, c, r \in psOld)
  BY <1>3, <1>4, <1>5, PsFlushEnds
<1> QED BY <1>1, <1>2, <1>6, PsTakes

LEMMA PsInitOK ==
  ASSUME PsConstantsOK, PS!Init
  PROVE  PsInv
<1>1. PICK n \in 1 .. PsMaxSent, deleted \in SUBSET PsIds : psRows = PS!FirstRows(n, deleted)
  BY DEF PS!Init
<1>2. PsRowsOK(psRows) /\ \E s : PsNeat(psRows, s)
  BY <1>1, PsFirstIsNeat
<1>3. \E s \in PS!Lists(psRows) : PsNeat(psRows, s)
  BY <1>2, PsNeatLists
<1>4. \A r \in PsRequests : psCall[r] = Unset /\ psHolder # r
  BY DEF PS!Init, PsConstantsOK
<1>5. \A r \in PsRequests : PsCallOK(psRows, psCall[r], r \in psOld, psHolder = r)
  BY <1>4 DEF PsCallOK
<1> QED BY <1>2, <1>3, <1>5 DEF PsInv, PS!Init

\* The requests that lock the dataset as they read it.
LEMMA PsPatchOK ==
  ASSUME PsConstantsOK, PsInv, ~psTorn, NEW r \in PsRequests, NEW sent \in PS!Sent,
         PS!Patch(r, sent)
  PROVE  PsInv'
<1>1. PsRowsOK(psRows) /\ \E s : PS!Lists(psRows) = {s} /\ PsNeat(psRows, s)
  BY PsInvIs
<1>2. PICK s : PS!Lists(psRows) = {s} /\ PsNeat(psRows, s)
  BY <1>1
<1>3. PS!Save(r, psRows, PS!Shown(psRows, s), sent, TRUE, Unset)
  BY <1>2 DEF PS!Patch
<1>4. PsListed(sent)
  BY DEF PS!Sent, PsListed
<1>5. psHolder = Unset /\ psHolder' = r /\ UNCHANGED <<psRows, psOld, psTorn>>
  BY DEF PS!Patch
<1> QED BY <1>1, <1>2, <1>3, <1>4, <1>5, PsSaves

LEMMA PsResourceCreateOK ==
  ASSUME PsConstantsOK, PsInv, ~psTorn, NEW r \in PsRequests, NEW content,
         PS!ResourceCreate(r, content)
  PROVE  PsInv'
<1>1. PsRowsOK(psRows) /\ \E s : PS!Lists(psRows) = {s} /\ PsNeat(psRows, s)
  BY PsInvIs
<1>2. PICK s : PS!Lists(psRows) = {s} /\ PsNeat(psRows, s)
  BY <1>1
<1> DEFINE sent == Append(PS!Items(PS!Shown(psRows, s)), PS!Item(PS!NewId, content))
<1>3. PS!Save(r, psRows, PS!Shown(psRows, s), sent, TRUE, Unset)
  BY <1>2 DEF PS!ResourceCreate
<1>4. PS!NewId \in PsIds /\ psRows[PS!NewId] = PS!Absent
  BY DEF PS!ResourceCreate, PS!HasNew, PS!NewId
<1>5. PsListed(sent)
  BY <1>2, <1>4, PsAppendIsListed
<1>6. psHolder = Unset /\ psHolder' = r /\ UNCHANGED <<psRows, psOld, psTorn>>
  BY DEF PS!ResourceCreate
<1> HIDE DEF sent
<1> QED BY <1>1, <1>2, <1>3, <1>5, <1>6, PsSaves

LEMMA PsReorderOK ==
  ASSUME PsConstantsOK, PsInv, ~psTorn, NEW r \in PsRequests, NEW order \in PS!Orders,
         PS!Reorder(r, order)
  PROVE  PsInv'
<1>1. PsRowsOK(psRows) /\ \E s : PS!Lists(psRows) = {s} /\ PsNeat(psRows, s)
  BY PsInvIs
<1>2. PICK s : PS!Lists(psRows) = {s} /\ PsNeat(psRows, s)
  BY <1>1
<1>3. PICK rest \in PS!Rest(s, PS!Of(psRows, "active") \ PS!Range(order)) :
        PS!Save(r, psRows, PS!Shown(psRows, s), PS!Items(PS!Shown(psRows, order \o rest)), TRUE, Unset)
  BY <1>2 DEF PS!Reorder
<1> DEFINE sent == PS!Items(PS!Shown(psRows, order \o rest))
<1>4. PsListed(sent)
  BY <1>2, PsReorderIsListed DEF PS!Reorder, PsConstantsOK
<1>5. psHolder = Unset /\ psHolder' = r /\ UNCHANGED <<psRows, psOld, psTorn>>
  BY DEF PS!Reorder
<1>6. PS!Save(r, psRows, PS!Shown(psRows, s), sent, TRUE, Unset)
  BY <1>3
<1> HIDE DEF sent
<1> QED BY <1>1, <1>2, <1>4, <1>5, <1>6, PsSaves

\* The requests that read before they lock.
LEMMA PsLoadOK ==
  ASSUME PsConstantsOK, PsInv, ~psTorn, NEW r \in PsRequests, NEW op \in {"update", "delete"},
         NEW id \in PsIds, NEW content, PS!Load(r, op, id, content)
  PROVE  PsInv'
<1> DEFINE c == [pc |-> "lock", op |-> op, id |-> id, content |-> content,
                 row |-> psRows[id]]
<1>1. /\ psCall' = [psCall EXCEPT ![r] = c] /\ UNCHANGED <<psRows, psOld, psTorn>>
      /\ psHolder' = psHolder /\ psHolder # r
  BY PsInvIs DEF PS!Load
<1>2. PsLoaded(psRows, c, r \in psOld)
  BY PsInvIs DEF PsLoaded, PsRowsOK
<1>3. c \notin {Unset, PS!Done}
  BY DEF PsConstantsOK, PS!Done
<1> HIDE DEF c
<1>4. PsCallOK(psRows, c, r \in psOld, psHolder' = r)
  BY <1>1, <1>2, <1>3 DEF PsCallOK
<1> QED BY <1>1, <1>4, PsOneCall

LEMMA PsShowOK ==
  ASSUME PsConstantsOK, PsInv, ~psTorn, NEW r \in PsRequests, NEW sent \in PS!Sent,
         NEW kept \in BOOLEAN, PS!Show(r, sent, kept)
  PROVE  PsInv'
<1>1. PICK s : PS!Lists(psRows) = {s}
  BY PsInvIs
<1> DEFINE c == [pc |-> "shown", sent |-> sent, kept |-> kept, shown |-> PS!Shown(psRows, s)]
<1>2. /\ psCall' = [psCall EXCEPT ![r] = c] /\ UNCHANGED <<psRows, psOld, psTorn>>
      /\ psHolder' = psHolder /\ psHolder # r
  BY <1>1, PsInvIs DEF PS!Show
<1>3. PsListed(sent)
  BY DEF PS!Sent, PsListed
<1>4. PsWasShown(psRows, c, r \in psOld)
  BY <1>1, <1>3 DEF PsWasShown
<1>5. c \notin {Unset, PS!Done}
  BY DEF PsConstantsOK, PS!Done
<1> HIDE DEF c
<1>6. PsCallOK(psRows, c, r \in psOld, psHolder' = r)
  BY <1>2, <1>4, <1>5 DEF PsCallOK
<1> QED BY <1>2, <1>6, PsOneCall

LEMMA PsReadRowsOK ==
  ASSUME PsConstantsOK, PsInv, ~psTorn, NEW r \in PsRequests, PS!ReadRows(r)
  PROVE  PsInv'
<1>1. PICK s : PS!Lists(psRows) = {s}
  BY PsInvIs
<1> DEFINE w == PS!Saved(psRows, psRows, s, psCall[r].shown, psCall[r].sent, psCall[r].kept)
<1> DEFINE c == [pc |-> "read", sent |-> psCall[r].sent, saves |-> w]
<1>2. /\ psCall' = [psCall EXCEPT ![r] = c] /\ UNCHANGED <<psRows, psOld, psTorn>>
      /\ psHolder' = psHolder /\ psHolder # r
  BY <1>1, PsInvIs DEF PS!ReadRows, PS!OldList
<1>3. PsWasShown(psRows, psCall[r], r \in psOld)
  BY PsInvIs DEF PsCallOK, PS!ReadRows, PsLoaded, PsHasRead, PsEnding, PS!Done
<1>4. PsHasRead(psRows, c, r \in psOld)
  <2>1. r \notin psOld => psCall[r].shown = PS!Shown(psRows, s)
    BY <1>1, <1>3 DEF PsWasShown
  <2>2. r \notin psOld => w = PS!Saved(psRows, psRows, s, PS!Shown(psRows, s), psCall[r].sent, psCall[r].kept)
    BY <2>1
  <2> HIDE DEF w
  <2>3. c.pc = "read" /\ c.sent = psCall[r].sent /\ c.saves = w
    OBVIOUS
  <2> HIDE DEF c
  <2> QED BY <1>1, <1>3, <2>2, <2>3 DEF PsHasRead, PsWasShown
<1> HIDE DEF w
<1>5. c \notin {Unset, PS!Done}
  BY DEF PsConstantsOK, PS!Done
<1> HIDE DEF c
<1>6. PsCallOK(psRows, c, r \in psOld, psHolder' = r)
  BY <1>2, <1>4, <1>5 DEF PsCallOK
<1> QED BY <1>2, <1>6, PsOneCall

\* The requests that lock late.
LEMMA PsUpdateLockedOK ==
  ASSUME PsConstantsOK, PsInv, ~psTorn, NEW r \in PsRequests, PS!UpdateLocked(r)
  PROVE  PsInv'
<1>1. PsRowsOK(psRows) /\ \E s : PS!Lists(psRows) = {s} /\ PsNeat(psRows, s)
  BY PsInvIs
<1>2. PICK s : PS!Lists(psRows) = {s} /\ PsNeat(psRows, s)
  BY <1>1
<1>3. PsWasShown(psRows, psCall[r], r \in psOld)
  BY PsInvIs DEF PsCallOK, PS!UpdateLocked, PsLoaded, PsHasRead, PsEnding,
       PS!Done
<1>4. PsListed(psCall[r].sent) /\ (r \notin psOld => psCall[r].shown = PS!Shown(psRows, s))
  BY <1>2, <1>3 DEF PsWasShown
<1>5. /\ PS!Save(r, psRows, psCall[r].shown, psCall[r].sent, psCall[r].kept, Unset)
      /\ psHolder = Unset /\ psHolder' = r /\ UNCHANGED <<psRows, psOld, psTorn>>
  BY DEF PS!UpdateLocked
<1> QED BY <1>1, <1>2, <1>4, <1>5, PsSaves

LEMMA PsWriteOK ==
  ASSUME PsConstantsOK, PsInv, ~psTorn, NEW r \in PsRequests, PS!Write(r)
  PROVE  PsInv'
<1>1. PsRowsOK(psRows) /\ \E s : PS!Lists(psRows) = {s} /\ PsNeat(psRows, s)
  BY PsInvIs
<1>2. PICK s : PS!Lists(psRows) = {s} /\ PsNeat(psRows, s)
  BY <1>1
<1>3. PsHasRead(psRows, psCall[r], r \in psOld)
  BY PsInvIs DEF PsCallOK, PS!Write, PsLoaded, PsWasShown, PsEnding, PS!Done
<1> DEFINE w == psCall[r].saves
<1> DEFINE sent == psCall[r].sent
<1>4. PICK kept \in BOOLEAN :
        r \notin psOld => w = PS!Saved(psRows, psRows, s, PS!Shown(psRows, s), sent, kept)
  BY <1>2, <1>3 DEF PsHasRead
<1>5. PsListed(sent)
  BY <1>3 DEF PsHasRead
<1> DEFINE c == PsFlushed(w, PS!Clashes(psRows, w), sent, Unset)
<1>6. /\ psCall' = [psCall EXCEPT ![r] = c]
      /\ psHolder = Unset /\ psHolder' = r /\ UNCHANGED <<psRows, psOld, psTorn>>
  BY DEF PS!Write, PS!Flush, PsFlushed
<1>7. "pc" \in DOMAIN c
  BY DEF PsFlushed
<1> HIDE DEF w, sent
<1>8. c = PsFlushed(w, PS!Clashes(psRows, w), sent, Unset) /\ (r \in psOld) \in BOOLEAN
  OBVIOUS
<1> HIDE DEF c
<1>9. Unset \notin PsIds
  BY DEF PsConstantsOK
<1>10. PsEnding(psRows, c, r \in psOld)
  <2> DEFINE overtaken == r \in psOld
  <2>1. ~overtaken \/ Unset # Unset =>
          w = PS!Saved(psRows, psRows, s, PS!Shown(psRows, s), sent, kept)
    BY <1>4
  <2>2. overtaken \in BOOLEAN
    OBVIOUS
  <2> HIDE DEF overtaken
  <2>3. Unset # Unset => PsSees(psRows, psRows, s, sent, Unset)
    OBVIOUS
  <2>4. PsEnding(psRows, c, overtaken)
    BY <1>1, <1>2, <1>5, <1>8, <1>9, <2>1, <2>2, <2>3, PsFlushEnds
  <2> QED BY <2>4 DEF overtaken
<1> QED BY <1>6, <1>7, <1>10, PsTakes

\* What the session has of the resource that was loaded before.
LEMMA PsLoadedSees ==
  ASSUME NEW rs, PsRowsOK(rs), NEW s, NEW sent, NEW id \in PsIds, NEW row,
         row.position \in Nat,
         NEW one, one = IF row.state = "active" THEN id ELSE Unset, Unset \notin PsIds,
         id \in PS!Range(PsOrder(sent)) => id \in PS!Range(s) /\ row.position = rs[id].position
  PROVE  one # Unset => PsSees([rs EXCEPT ![id] = row], rs, s, sent, one)
<1>1. DOMAIN rs = PsIds
  BY DEF PsRowsOK
<1>2. /\ [rs EXCEPT ![id] = row][id] = row
      /\ \A x \in PsIds : x # id => [rs EXCEPT ![id] = row][x] = rs[x]
  BY <1>1
<1> QED BY <1>2 DEF PsSees

LEMMA PsResourceUpdateOK ==
  ASSUME PsConstantsOK, PsInv, ~psTorn, NEW r \in PsRequests, PS!ResourceUpdate(r)
  PROVE  PsInv'
<1>1. PsRowsOK(psRows) /\ \E s : PS!Lists(psRows) = {s} /\ PsNeat(psRows, s)
  BY PsInvIs
<1>2. PICK s : PS!Lists(psRows) = {s} /\ PsNeat(psRows, s)
  BY <1>1
<1>3. PsLoaded(psRows, psCall[r], r \in psOld)
  BY PsInvIs DEF PsCallOK, PS!ResourceUpdate, PsWasShown, PsHasRead, PsEnding,
       PS!Done
<1> DEFINE id == psCall[r].id
<1> DEFINE row == psCall[r].row
<1> DEFINE at == 1 + row.position
<1> DEFINE seen == [psRows EXCEPT ![id] = row]
<1> DEFINE sent == [PS!Items(PS!Shown(psRows, s)) EXCEPT ![at] = PS!Item(id, psCall[r].content)]
<1>4. /\ psHolder = Unset /\ psHolder' = r /\ UNCHANGED <<psRows, psOld, psTorn>>
      /\ IF at \in DOMAIN s /\ s[at] = id
           THEN PS!Save(r, seen, PS!Shown(psRows, s), sent, TRUE, PS!One(r))
         ELSE psCall' = [psCall EXCEPT ![r] = [pc |-> "fail", sent |-> Unset]]
  BY <1>2 DEF PS!ResourceUpdate
<1>5. /\ id \in PsIds /\ row.position \in Nat /\ (r \notin psOld => row = psRows[id])
      /\ PS!One(r) = IF row.state = "active" THEN id ELSE Unset
      /\ Unset \notin PsIds /\ psRows = [x \in PsIds |-> psRows[x]]
  BY <1>1, <1>3 DEF PsLoaded, PS!One, PsConstantsOK, PsRowsOK
<1>6. r \notin psOld => seen = psRows
  BY <1>5
<1>7. ASSUME at \in DOMAIN s, s[at] = id PROVE PsInv'
  <2>1. PsListed(sent) /\ PsOrder(sent) = s
    BY <1>2, <1>7, PsChangedIsListed
  <2>2. id \in PS!Range(s) /\ row.position = psRows[id].position
    <3>1. at \in 1 .. Len(s) /\ psRows[s[at]].position = at - 1
      <4>1. DOMAIN s = 1 .. Len(s)
        BY <1>2, LenProperties DEF PsNeat
      <4> QED BY <1>2, <1>7, <4>1 DEF PsNeat
    <3>2. psRows[id].position = (1 + row.position) - 1
      BY <1>7, <3>1
    <3> QED BY <1>5, <1>7, <3>2 DEF PS!Range
  <2> HIDE DEF at, sent, id, row
  <2>3. PS!One(r) # Unset => PsSees(seen, psRows, s, sent, PS!One(r))
    BY <1>1, <1>5, <2>2, PsLoadedSees
  <2>4. PS!Save(r, seen, PS!Shown(psRows, s), sent, TRUE, PS!One(r))
    BY <1>4, <1>7
  <2> HIDE DEF seen
  <2> QED BY <1>1, <1>2, <1>4, <1>6, <2>1, <2>3, <2>4, PsSaves
<1>8. ASSUME ~(at \in DOMAIN s /\ s[at] = id) PROVE PsInv'
  <2> DEFINE c == [pc |-> "fail", sent |-> Unset]
  <2>1. psCall' = [psCall EXCEPT ![r] = c]
    BY <1>4, <1>8
  <2>2. "pc" \in DOMAIN c /\ c.pc = "fail" /\ c.sent = Unset
    OBVIOUS
  <2>3. PsEnding(psRows, c, r \in psOld)
    <3> HIDE DEF c
    <3>1. c.pc = "fail" /\ c.sent = Unset
      BY <2>2
    <3> QED BY <3>1, Zenon DEF PsEnding
  <2> HIDE DEF c
  <2> QED BY <1>4, <2>1, <2>2, <2>3, PsTakes
<1> HIDE DEF at, sent, id, row, seen
<1> QED BY <1>7, <1>8

LEMMA PsResourceDeleteOK ==
  ASSUME PsConstantsOK, PsInv, ~psTorn, NEW r \in PsRequests, PS!ResourceDelete(r)
  PROVE  PsInv'
<1>1. PsRowsOK(psRows) /\ \E s : PS!Lists(psRows) = {s} /\ PsNeat(psRows, s)
  BY PsInvIs
<1>2. PICK s : PS!Lists(psRows) = {s} /\ PsNeat(psRows, s)
  BY <1>1
<1>3. PsLoaded(psRows, psCall[r], r \in psOld)
  BY PsInvIs DEF PsCallOK, PS!ResourceDelete, PsWasShown, PsHasRead, PsEnding,
       PS!Done
<1> DEFINE id == psCall[r].id
<1> DEFINE row == psCall[r].row
<1> DEFINE seen == [psRows EXCEPT ![id] = row]
<1>4. PICK left \in PS!Rest(s, PS!Of(psRows, "active") \ {id}) :
        PS!Save(r, seen, PS!Shown(psRows, s), PS!Items(PS!Shown(psRows, left)), TRUE, PS!One(r))
  BY <1>2 DEF PS!ResourceDelete
<1>5. /\ id \in PsIds /\ row.position \in Nat /\ (r \notin psOld => row = psRows[id])
      /\ PS!One(r) = IF row.state = "active" THEN id ELSE Unset
      /\ Unset \notin PsIds /\ psRows = [x \in PsIds |-> psRows[x]]
  BY <1>1, <1>3 DEF PsLoaded, PS!One, PsConstantsOK, PsRowsOK
<1>6. r \notin psOld => seen = psRows
  BY <1>5
<1> DEFINE sent == PS!Items(PS!Shown(psRows, left))
<1>7. PsListed(sent) /\ id \notin PS!Range(PsOrder(sent))
  <2>1. /\ PS!Of(psRows, "active") \ {id} \subseteq PsIds
        /\ IsFiniteSet(PS!Of(psRows, "active") \ {id})
    BY <1>2, PsActiveIsFinite
  <2>2. /\ left \in Seq(PsIds) /\ PS!Range(left) \subseteq PS!Of(psRows, "active") \ {id}
        /\ \A i, j \in 1 .. Len(left) : left[i] = left[j] => i = j
    BY <2>1, PsRestIs
  <2>3. PsListed(sent) /\ PsOrder(sent) = left
    BY <2>2, PsItemsAreListed
  <2> QED BY <2>2, <2>3
<1> HIDE DEF sent, id, row
<1>8. PS!One(r) # Unset => PsSees(seen, psRows, s, sent, PS!One(r))
  BY <1>1, <1>5, <1>7, PsLoadedSees
<1>9. PS!Save(r, seen, PS!Shown(psRows, s), sent, TRUE, PS!One(r))
  BY <1>4 DEF sent
<1>10. psHolder = Unset /\ psHolder' = r /\ UNCHANGED <<psRows, psOld, psTorn>>
  BY DEF PS!ResourceDelete
<1> HIDE DEF seen
<1> QED BY <1>1, <1>2, <1>6, <1>7, <1>8, <1>9, <1>10, PsSaves

\* All other requests that have begun are overtaken by a commit.
LEMMA PsCommitOK ==
  ASSUME PsConstantsOK, PsInv, ~psTorn, NEW r \in PsRequests, PS!Commit(r)
  PROVE  /\ PsInv'
         /\ PsEnding(psRows, psCall[r], r \in psOld) /\ psCall[r].pc = "commit"
<1>1. PsEnding(psRows, psCall[r], r \in psOld) /\ psHolder = r
  BY PsInvIs DEF PsCallOK, PS!Commit, PsLoaded, PsWasShown, PsHasRead, PS!Done
<1>2. psTorn' \in BOOLEAN
  BY DEF PS!Commit, PsInv
<1>3. /\ psCall' = [q \in PsRequests |-> psCall'[q]] /\ psCall'[r] = PS!Done
      /\ \A q \in PsRequests : q # r => psCall'[q] = psCall[q]
      /\ psHolder' = Unset /\ psCall[r].pc = "commit"
      /\ psRows' = PS!Written(psRows, psCall[r].saves)
      /\ ~psTorn' => r \notin psOld \/ psCall[r].one # Unset
      /\ \A q \in PsRequests : q # r /\ psCall[q] \notin {Unset, PS!Done} => q \in psOld'
  BY DEF PS!Commit, PsInv
<1>4. ASSUME ~psTorn'
      PROVE  /\ PsRowsOK(psRows') /\ \E s \in PS!Lists(psRows') : PsNeat(psRows', s)
             /\ \A q \in PsRequests : PsCallOK(psRows', psCall'[q], q \in psOld', psHolder' = q)
  <2>1. \E one : PsLeaves(psRows, psRows', psCall[r].sent, one)
    BY <1>1, <1>3, <1>4 DEF PsEnding
  <2>2. PsRowsOK(psRows') /\ \E s : PsNeat(psRows', s)
    BY <2>1 DEF PsLeaves
  <2>3. \E s \in PS!Lists(psRows') : PsNeat(psRows', s)
    BY <2>2, PsNeatLists
  <2>4. ASSUME NEW q \in PsRequests
        PROVE  PsCallOK(psRows', psCall'[q], q \in psOld', psHolder' = q)
    <3>1. psHolder' # q
      BY <1>3 DEF PsConstantsOK
    <3>2. CASE q = r
      BY <1>3, <3>1, <3>2 DEF PsCallOK
    <3>3. CASE q # r /\ psCall[q] \in {Unset, PS!Done}
      BY <1>3, <3>1, <3>3 DEF PsCallOK
    <3>4. CASE q # r /\ psCall[q] \notin {Unset, PS!Done}
      <4>1. q \in psOld' /\ psCall'[q] = psCall[q] /\ psHolder # q
        BY <1>1, <1>3, <3>4
      <4>2. \/ PsLoaded(psRows, psCall[q], q \in psOld) \/ PsWasShown(psRows, psCall[q], q \in psOld)
            \/ PsHasRead(psRows, psCall[q], q \in psOld)
        BY <3>4, <4>1, PsInvIs DEF PsCallOK
      <4>3. \/ PsLoaded(psRows', psCall[q], TRUE) \/ PsWasShown(psRows', psCall[q], TRUE)
            \/ PsHasRead(psRows', psCall[q], TRUE)
        BY <4>2 DEF PsLoaded, PsWasShown, PsHasRead
      <4>4. (q \in psOld') = TRUE /\ (psHolder' = q) = FALSE
        BY <3>1, <4>1
      <4>5. PsCallOK(psRows', psCall[q], TRUE, FALSE)
        BY <3>4, <4>3 DEF PsCallOK
      <4> QED BY <4>1, <4>4, <4>5
    <3> QED BY <3>2, <3>3, <3>4
  <2> QED BY <2>2, <2>3, <2>4
<1>5. ~psTorn' => PsRowsOK(psRows)' /\ (\E s \in PS!Lists(psRows) : PsNeat(psRows, s))'
  BY <1>4
<1> QED BY <1>1, <1>2, <1>3, <1>4, <1>5 DEF PsInv

LEMMA PsStopOK ==
  ASSUME PsConstantsOK, PsInv, ~psTorn, NEW r \in PsRequests, PS!Stop(r)
  PROVE  PsInv'
<1>1. /\ psCall' = [q \in PsRequests |-> psCall'[q]] /\ psCall'[r] = PS!Done
      /\ \A q \in PsRequests : q # r => psCall'[q] = psCall[q]
      /\ psHolder' = Unset /\ psRows' = psRows /\ psTorn' = psTorn
      /\ \A q \in PsRequests : q # r => (q \in psOld' <=> q \in psOld)
      /\ psHolder = r
  BY DEF PS!Stop, PS!End, PsInv
<1>2. psTorn' \in BOOLEAN
  BY <1>1 DEF PsInv
<1>3. PsRowsOK(psRows') /\ \E s \in PS!Lists(psRows') : PsNeat(psRows', s)
  BY <1>1 DEF PsInv
<1>4. ASSUME NEW q \in PsRequests
      PROVE  PsCallOK(psRows', psCall'[q], q \in psOld', psHolder' = q)
  <2>1. psHolder' # q
    BY <1>1 DEF PsConstantsOK
  <2>2. CASE q = r
    BY <1>1, <2>1, <2>2 DEF PsCallOK
  <2>3. CASE q # r
    <3>1. PsCallOK(psRows, psCall[q], q \in psOld, psHolder = q)
      BY DEF PsInv
    <3>2. (q \in psOld') = (q \in psOld) /\ (psHolder' = q) = (psHolder = q) /\ psCall'[q] = psCall[q]
      BY <1>1, <2>1, <2>3
    <3> QED BY <1>1, <3>1, <3>2
  <2> QED BY <2>2, <2>3
<1>5. PsRowsOK(psRows)' /\ (\E s \in PS!Lists(psRows) : PsNeat(psRows, s))'
  BY <1>3
<1> QED BY <1>1, <1>2, <1>4, <1>5 DEF PsInv

-----------------------------------------------------------------------------
(* The theorem *)

LEMMA PsNextOK ==
  ASSUME PsConstantsOK, PsInv, [PS!Next]_(PS!vars)
  PROVE  PsInv'
<1>1. CASE UNCHANGED PS!vars
  <2>1. psRows' = psRows /\ psHolder' = psHolder /\ psCall' = psCall /\ psOld' = psOld /\ psTorn' = psTorn
    BY <1>1 DEF PS!vars
  <2> QED BY <2>1 DEF PsInv
<1>2. ASSUME PS!Next PROVE PsInv'
  <2>1. ~psTorn
    BY <1>2 DEF PS!Next
  <2>2. PICK r \in PsRequests :
       \/ \E sent \in PS!Sent : PS!Patch(r, sent)
       \/ \E content \in PsContents : PS!ResourceCreate(r, content)
       \/ \E order \in PS!Orders : PS!Reorder(r, order)
       \/ \E id \in PsIds, content \in PsContents : PS!Load(r, "update", id, content)
       \/ \E id \in PsIds : PS!Load(r, "delete", id, Unset)
       \/ PS!ResourceUpdate(r) \/ PS!ResourceDelete(r)
       \/ \E sent \in PS!Sent, kept \in BOOLEAN : PS!Show(r, sent, kept)
       \/ PS!UpdateLocked(r) \/ PS!ReadRows(r) \/ PS!Write(r)
       \/ PS!Commit(r) \/ PS!Stop(r)
    BY <1>2 DEF PS!Next
  <2> QED BY <2>1, <2>2, PsPatchOK, PsResourceCreateOK, PsReorderOK, PsLoadOK,
            PsResourceUpdateOK, PsResourceDeleteOK, PsShowOK, PsUpdateLockedOK, PsReadRowsOK,
            PsWriteOK, PsCommitOK, PsStopOK
<1> QED BY <1>1, <1>2

\* A request ends with a commit, or it stops.
LEMMA PsEndsSo ==
  ASSUME PsConstantsOK, PsInv, PS!Next, ~psTorn, NEW r \in PsRequests, psCall[r] # PS!Done,
         psCall'[r] = PS!Done
  PROVE  \/ PS!Commit(r)
         \/ psRows' = psRows /\ PsEnding(psRows, psCall[r], r \in psOld)
<1>1. ASSUME NEW q \in PsRequests, NEW c, c # PS!Done, psCall' = [psCall EXCEPT ![q] = c]
      PROVE  FALSE
  <2>1. psCall = [x \in PsRequests |-> psCall[x]]
    BY DEF PsInv
  <2> QED BY <1>1, <2>1
<1>2. \A q \in PsRequests : \A seen, shown, sent, kept, one :
        ~PS!Save(q, seen, shown, sent, kept, one)
  BY <1>1 DEF PS!Save, PS!Flush, PS!Done
<1>3. \A q \in PsRequests : q # r => ~PS!Commit(q) /\ ~PS!Stop(q)
  BY DEF PS!Commit, PS!Stop, PS!End, PsInv
<1>4. PS!Stop(r) => psRows' = psRows /\ PsEnding(psRows, psCall[r], r \in psOld)
  BY PsInvIs DEF PsCallOK, PS!Stop
<1>5. PICK q \in PsRequests :
       \/ \E sent \in PS!Sent : PS!Patch(q, sent)
       \/ \E content \in PsContents : PS!ResourceCreate(q, content)
       \/ \E order \in PS!Orders : PS!Reorder(q, order)
       \/ \E id \in PsIds, content \in PsContents : PS!Load(q, "update", id, content)
       \/ \E id \in PsIds : PS!Load(q, "delete", id, Unset)
       \/ PS!ResourceUpdate(q) \/ PS!ResourceDelete(q)
       \/ \E sent \in PS!Sent, kept \in BOOLEAN : PS!Show(q, sent, kept)
       \/ PS!UpdateLocked(q) \/ PS!ReadRows(q) \/ PS!Write(q)
       \/ PS!Commit(q) \/ PS!Stop(q)
  BY DEF PS!Next
<1>6. ~(\E sent \in PS!Sent : PS!Patch(q, sent))
  BY <1>2, Zenon DEF PS!Patch
<1>7. ~(\E content \in PsContents : PS!ResourceCreate(q, content))
  BY <1>2, Zenon DEF PS!ResourceCreate
<1>8. ~(\E order \in PS!Orders : PS!Reorder(q, order))
  BY <1>2, Zenon DEF PS!Reorder
<1>9. \A op, id, content : ~PS!Load(q, op, id, content)
  BY <1>1 DEF PS!Load, PS!Done
<1>10. ~PS!ResourceUpdate(q)
  BY <1>1, <1>2 DEF PS!ResourceUpdate, PS!Done
<1>11. ~PS!ResourceDelete(q)
  BY <1>2 DEF PS!ResourceDelete
<1>12. \A sent, kept : ~PS!Show(q, sent, kept)
  BY <1>1 DEF PS!Show, PS!Done
<1>13. ~PS!UpdateLocked(q)
  BY <1>2 DEF PS!UpdateLocked
<1>14. ~PS!ReadRows(q)
  BY <1>1 DEF PS!ReadRows, PS!Done
<1>15. ~PS!Write(q)
  BY <1>1 DEF PS!Write, PS!Flush, PS!Done
<1> QED BY <1>3, <1>4, <1>5, <1>6, <1>7, <1>8, <1>9, <1>10, <1>11, <1>12,
           <1>13, <1>14, <1>15

LEMMA PsStepSaves ==
  ASSUME PsConstantsOK, PsInv, [PS!Next]_(PS!vars)
  PROVE  [\A r \in PsRequests :
            psCall[r] # PS!Done /\ psCall'[r] = PS!Done /\ ~psTorn' =>
              /\ psCall[r].pc = "commit" /\ psRows' # psRows =>
                   /\ IF r \in psOld THEN PS!ListIsBut(psCall[r].one, psRows', psCall[r].sent)
                      ELSE PS!ListIs(psRows', psCall[r].sent)
                   /\ \A id \in PS!Of(psRows, "active") : psRows'[id] # PS!Absent
              /\ psCall[r].pc = "unchanged" /\ r \notin psOld =>
                   PS!ListIs(psRows, psCall[r].sent)
              /\ psCall[r].pc = "fail" /\ r \notin psOld => psCall[r].sent = Unset]_(PS!vars)
<1>1. SUFFICES ASSUME PS!Next, NEW r \in PsRequests, psCall[r] # PS!Done, psCall'[r] = PS!Done, ~psTorn'
               PROVE
              /\ psCall[r].pc = "commit" /\ psRows' # psRows =>
                   /\ IF r \in psOld THEN PS!ListIsBut(psCall[r].one, psRows', psCall[r].sent)
                      ELSE PS!ListIs(psRows', psCall[r].sent)
                   /\ \A id \in PS!Of(psRows, "active") : psRows'[id] # PS!Absent
              /\ psCall[r].pc = "unchanged" /\ r \notin psOld =>
                   PS!ListIs(psRows, psCall[r].sent)
              /\ psCall[r].pc = "fail" /\ r \notin psOld => psCall[r].sent = Unset
  BY DEF PS!vars
<1>2. ~psTorn
  BY <1>1 DEF PS!Next
<1>3. CASE psRows' = psRows /\ PsEnding(psRows, psCall[r], r \in psOld)
  BY <1>3 DEF PsEnding
<1>4. CASE PS!Commit(r)
  <2>1. PsEnding(psRows, psCall[r], r \in psOld) /\ psCall[r].pc = "commit"
    BY <1>2, <1>4, PsCommitOK
  <2>2. psRows' = PS!Written(psRows, psCall[r].saves) /\ (r \notin psOld \/ psCall[r].one # Unset)
    BY <1>1, <1>4 DEF PS!Commit
  <2> DEFINE one == IF r \in psOld THEN psCall[r].one ELSE Unset
  <2>3. PsLeaves(psRows, psRows', psCall[r].sent, one) /\ PsListed(psCall[r].sent)
    BY <2>1, <2>2 DEF PsEnding
  <2> HIDE DEF one
  <2>4. PS!ListIsBut(one, psRows', psCall[r].sent)
    <3>1. \A new : PsLeaves(psRows, new, psCall[r].sent, one)
                     => PS!ListIsBut(one, new, psCall[r].sent)
      BY <2>3, PsListIsSent DEF PsLeaves
    <3> QED BY <2>3, <3>1
  <2>5. \A id \in PS!Of(psRows, "active") : psRows'[id] # PS!Absent
    BY <2>3 DEF PsLeaves
  <2>6. IF r \in psOld THEN PS!ListIsBut(psCall[r].one, psRows', psCall[r].sent)
        ELSE PS!ListIs(psRows', psCall[r].sent)
    <3>1. PS!ListIs(psRows', psCall[r].sent) = PS!ListIsBut(Unset, psRows', psCall[r].sent)
      BY DEF PS!ListIs
    <3> QED BY <2>4, <3>1 DEF one
  <2> QED BY <2>1, <2>5, <2>6
<1> QED BY <1>1, <1>2, <1>3, <1>4, PsEndsSo

THEOREM PsSavesDoLeaveWhatWasSent == ASSUME PsConstantsOK PROVE PS!Spec => PS!SavesWhatWasSent
<1>1. PS!Init => PsInv
  BY PsInitOK
<1>2. PsInv /\ [PS!Next]_(PS!vars) => PsInv'
  BY PsNextOK
<1>3. PsInv /\ [PS!Next]_(PS!vars) =>
        [\A r \in PsRequests :
            psCall[r] # PS!Done /\ psCall'[r] = PS!Done /\ ~psTorn' =>
              /\ psCall[r].pc = "commit" /\ psRows' # psRows =>
                   /\ IF r \in psOld THEN PS!ListIsBut(psCall[r].one, psRows', psCall[r].sent)
                      ELSE PS!ListIs(psRows', psCall[r].sent)
                   /\ \A id \in PS!Of(psRows, "active") : psRows'[id] # PS!Absent
              /\ psCall[r].pc = "unchanged" /\ r \notin psOld =>
                   PS!ListIs(psRows, psCall[r].sent)
              /\ psCall[r].pc = "fail" /\ r \notin psOld => psCall[r].sent = Unset]_(PS!vars)
  BY PsStepSaves
<1> QED BY <1>1, <1>2, <1>3, PTL DEF PS!Spec, PS!SavesWhatWasSent

-----------------------------------------------------------------------------
(* Changes: the list tells of all that changed                             *)

\* The component counts as the other modules do.
LEMMA ChCardinality == \A S : CH!Cardinality(S) = Cardinality(S)
BY DEF CH!Cardinality, Cardinality

-----------------------------------------------------------------------------
(* Changes of fields *)

ChFields == CH!Plain \cup CH!Described \cup CH!Linked \cup {"owner_org"}

\* What a change of a field tells of the two versions.
ChTells(c, old, new) ==
  /\ "type" \in DOMAIN c /\ "new" \notin DOMAIN c /\ "change" \notin DOMAIN c
  /\ c.type \in ChFields \cup {"private"}
  /\ c.type \in ChFields => CH!Same(c.value, CH!Get(new, c.type))
  /\ c.type = "private" => c.value = CH!Privacy(new["private"])

LEMMA ChFieldKinds ==
  /\ ChFields = {"title", "name", "license_title", "maintainer", "notes", "url", "owner_org"}
  /\ CH!Plain = {"title", "name", "license_title"} /\ CH!Described = {"maintainer", "notes"}
  /\ CH!Linked = {"url"}
BY DEF ChFields, CH!Plain, CH!Described, CH!Linked

LEMMA ChPlainTells ==
  ASSUME NEW old, NEW new, NEW f \in CH!Plain
  PROVE  ChTells(CH!PlainChange(f, CH!Get(old, f), CH!Get(new, f)), old, new)
<1> DEFINE b == CH!Get(new, f)
<1> DEFINE c == CH!PlainChange(f, CH!Get(old, f), b)
<1>1. /\ DOMAIN c = {"type", "method", "value", "was"}
      /\ c.type = f /\ c.value = b
  BY DEF CH!PlainChange
<1> HIDE DEF c, b
<1>2. f \in ChFields /\ f # "private"
  BY ChFieldKinds
<1>3. CH!Same(b, b)
  BY DEF CH!Same
<1>4. ChTells(c, old, new)
  BY <1>1, <1>2, <1>3 DEF ChTells, b
<1> QED BY <1>4 DEF c, b

LEMMA ChFieldTells ==
  ASSUME NEW old, NEW new, NEW f \in CH!Described \cup {"owner_org"}
  PROVE  ChTells(CH!FieldChange(f, CH!Get(old, f), CH!Get(new, f)), old, new)
<1> DEFINE b == CH!Get(new, f)
<1> DEFINE c == CH!FieldChange(f, CH!Get(old, f), b)
<1>1. /\ DOMAIN c = {"type", "method", "value", "was"}
      /\ c.type = f /\ c.value = IF CH!True(b) THEN b ELSE Unset
  BY DEF CH!FieldChange
<1> HIDE DEF c, b
<1>2. f \in ChFields /\ f # "private"
  BY ChFieldKinds
<1>3. CH!Same(c.value, b)
  BY <1>1 DEF CH!Same, CH!True
<1>4. ChTells(c, old, new)
  BY <1>1, <1>2, <1>3 DEF ChTells, b
<1> QED BY <1>4 DEF c, b

LEMMA ChLinkTells ==
  ASSUME NEW old, NEW new, NEW f \in CH!Linked
  PROVE  ChTells(CH!LinkChange(f, CH!Get(old, f), CH!Get(new, f)), old, new)
<1> DEFINE b == CH!Get(new, f)
<1> DEFINE c == CH!LinkChange(f, CH!Get(old, f), b)
<1>1. /\ DOMAIN c = {"type", "method", "value", "was"}
      /\ c.type = f /\ c.value = IF CH!True(b) THEN b ELSE Unset
  BY DEF CH!LinkChange
<1> HIDE DEF c, b
<1>2. f \in ChFields /\ f # "private"
  BY ChFieldKinds
<1>3. CH!Same(c.value, b)
  BY <1>1 DEF CH!Same, CH!True
<1>4. ChTells(c, old, new)
  BY <1>1, <1>2, <1>3 DEF ChTells, b
<1> QED BY <1>4 DEF c, b

-----------------------------------------------------------------------------
(* Names that were added or removed *)

\* The change has just these fields, and none of the others that tell changes apart.
LEMMA ChNamesIs ==
  ASSUME NEW type, NEW one, NEW many, NEW names, NEW c \in CH!Names(type, one, many, names)
  PROVE  /\ names # {} /\ c.type = type /\ c.method \in {one, many} /\ c.names = names
         /\ DOMAIN c = {"type", "method", "names"}
BY DEF CH!Names

LEMMA ChNamesAre ==
  ASSUME NEW type, NEW one, NEW many, NEW names, names # {}
  PROVE  \E c \in CH!Names(type, one, many, names) : TRUE
BY DEF CH!Names

LEMMA ChAddedIs ==
  ASSUME NEW type, NEW new, NEW names, NEW c \in CH!AddedFields(type, new, names)
  PROVE  /\ c.type = type /\ c.names = names
         /\ DOMAIN c = {"type", "method", "names", "values"}
         /\ \A f \in names : CH!Same(c.values[f], new[f])
<1>1. names # {}
  BY DEF CH!AddedFields
<1>2. CASE CH!Cardinality(names) = 1
  <2>1. PICK f \in names :
          c = [type |-> type,
               method |-> IF CH!True(new[f]) THEN "add_one_value" ELSE "add_one_no_value",
               names |-> names,
               values |-> [g \in names |-> IF CH!True(new[g]) THEN new[g] ELSE Unset]]
    BY <1>1, <1>2 DEF CH!AddedFields
  <2>2. \A g \in names : c.values[g] = IF CH!True(new[g]) THEN new[g] ELSE Unset
    BY <2>1
  <2>3. \A g \in names : CH!Same(c.values[g], new[g])
    BY <2>2 DEF CH!Same, CH!True
  <2> QED BY <2>1, <2>3
<1>3. CASE CH!Cardinality(names) # 1
  <2>1. c = [type |-> type, method |-> "add_multiple", names |-> names,
             values |-> [g \in names |-> new[g]]]
    BY <1>1, <1>3 DEF CH!AddedFields
  <2>2. \A g \in names : c.values[g] = new[g]
    BY <2>1
  <2> QED BY <2>1, <2>2 DEF CH!Same
<1> QED BY <1>2, <1>3

LEMMA ChAddedAre ==
  ASSUME NEW type, NEW new, NEW names, names # {}
  PROVE  \E c \in CH!AddedFields(type, new, names) : TRUE
<1>1. CASE CH!Cardinality(names) = 1
  BY <1>1 DEF CH!AddedFields
<1>2. CASE CH!Cardinality(names) # 1
  BY <1>2 DEF CH!AddedFields
<1> QED BY <1>1, <1>2

-----------------------------------------------------------------------------
(* Extra fields: added, removed, or with another value                     *)

ChCommon(a, b) == DOMAIN a \cap DOMAIN b

\* V tells of every field that both have and that differs.
ChValuesTold(V, type, a, b) ==
  /\ \A c \in V : /\ c.type = type /\ DOMAIN c = {"type", "key", "method", "value"}
                  /\ c.key \in ChCommon(a, b) /\ CH!Same(c.value, b[c.key])
  /\ \A f \in ChCommon(a, b) : a[f] # b[f] => \E c \in V : c.key = f

\* A tells of the names that were added, with their values.
ChAddedTold(A, type, b, names) ==
  /\ \A c \in A : /\ c.type = type /\ c.names = names
                  /\ DOMAIN c = {"type", "method", "names", "values"}
                  /\ \A f \in names : CH!Same(c.values[f], b[f])
  /\ names # {} => A # {}

LEMMA ChAddedFieldsTold ==
  ASSUME NEW type, NEW b, NEW names
  PROVE  ChAddedTold(CH!AddedFields(type, b, names), type, b, names)
BY ChAddedIs, ChAddedAre DEF ChAddedTold

LEMMA ChExtrasRead ==
  ASSUME NEW cs, NEW type, NEW a, NEW b, NEW A, NEW V,
         ChAddedTold(A, type, b, DOMAIN b \ DOMAIN a), ChValuesTold(V, type, a, b),
         {c \in cs : c.type = type} =
           A \cup CH!Names(type, "remove_one", "remove_multiple", DOMAIN a \ DOMAIN b)
             \cup V
  PROVE  CH!SameExtras(CH!ReadExtras(cs, type, a), b)
<1> DEFINE N == CH!Names(type, "remove_one", "remove_multiple", DOMAIN a \ DOMAIN b)
<1>1. /\ \A c \in A : /\ c.type = type /\ c.names = DOMAIN b \ DOMAIN a
                      /\ DOMAIN c = {"type", "method", "names", "values"}
                      /\ \A f \in DOMAIN b \ DOMAIN a : CH!Same(c.values[f], b[f])
      /\ DOMAIN b \ DOMAIN a # {} => A # {}
  BY DEF ChAddedTold
<1>2. /\ \A c \in N : /\ c.type = type /\ c.names = DOMAIN a \ DOMAIN b
                      /\ DOMAIN c = {"type", "method", "names"}
      /\ DOMAIN a \ DOMAIN b # {} => N # {}
  BY ChNamesIs, ChNamesAre
<1>3. /\ \A c \in V : /\ c.type = type /\ DOMAIN c = {"type", "key", "method", "value"}
                      /\ c.key \in ChCommon(a, b) /\ CH!Same(c.value, b[c.key])
      /\ \A f \in ChCommon(a, b) : a[f] # b[f] => \E c \in V : c.key = f
  BY DEF ChValuesTold
<1>4. {c \in cs : c.type = type} = A \cup N \cup V
  OBVIOUS
<1> HIDE DEF N
<1> DEFINE named == {c \in cs : c.type = type /\ "names" \in DOMAIN c}
<1> DEFINE valued == {c \in cs : c.type = type /\ "key" \in DOMAIN c}
<1> DEFINE added == {c \in named : "values" \in DOMAIN c}
<1> DEFINE removed == UNION {c.names : c \in named \ added}
<1> DEFINE Read(f) ==
        IF \E c \in added : f \in c.names
          THEN (CHOOSE c \in added : f \in c.names).values[f]
        ELSE IF \E c \in valued : c.key = f
          THEN (CHOOSE c \in valued : c.key = f).value
        ELSE a[f]
<1> DEFINE R == (DOMAIN a \ removed) \cup UNION {c.names : c \in added}
<1>5. CH!ReadExtras(cs, type, a) = [f \in R |-> Read(f)]
  BY DEF CH!ReadExtras
<1>6. named = A \cup N
  <2>1. \A c : c \in named <=> c \in {d \in cs : d.type = type} /\ "names" \in DOMAIN c
    OBVIOUS
  <2> HIDE DEF named
  <2> QED BY <1>1, <1>2, <1>3, <1>4, <2>1
<1>7. valued = V
  <2>1. \A c : c \in valued <=> c \in A \cup N \cup V /\ "key" \in DOMAIN c
    BY <1>4
  <2>2. \A c \in A \cup N : "key" \notin DOMAIN c
    BY <1>1, <1>2
  <2>3. \A c \in V : "key" \in DOMAIN c
    BY <1>3
  <2> HIDE DEF valued
  <2> QED BY <2>1, <2>2, <2>3
<1>8. added = A
  BY <1>1, <1>2, <1>6
<1>9. removed = DOMAIN a \ DOMAIN b
  <2>1. N \ A = N /\ named \ added = N
    BY <1>1, <1>2, <1>6, <1>8
  <2>2. removed = UNION {c.names : c \in N}
    BY <2>1
  <2> HIDE DEF removed
  <2> QED BY <1>2, <2>2
<1>10. UNION {c.names : c \in added} = DOMAIN b \ DOMAIN a
  BY <1>1, <1>8
<1>11. R = DOMAIN b
  BY <1>9, <1>10
<1>12. ASSUME NEW f \in DOMAIN b PROVE CH!Same(Read(f), b[f])
  <2> HIDE DEF named, added, valued, removed
  <2>1. CASE f \notin DOMAIN a
    <3>1. \E c \in A : f \in c.names
      BY <1>1, <2>1
    <3>2. Read(f) = (CHOOSE c \in A : f \in c.names).values[f]
      BY <1>8, <3>1
    <3>3. (CHOOSE c \in A : f \in c.names) \in A
      BY <3>1
    <3> QED BY <1>1, <2>1, <3>2, <3>3
  <2>2. CASE f \in DOMAIN a
    <3>1. ~(\E c \in added : f \in c.names) /\ f \in ChCommon(a, b)
      BY <1>1, <1>8, <2>2 DEF ChCommon
    <3>2. CASE \E c \in V : c.key = f
      <4>1. Read(f) = (CHOOSE c \in V : c.key = f).value
        BY <1>7, <3>1, <3>2
      <4>2. (CHOOSE c \in V : c.key = f) \in V /\ (CHOOSE c \in V : c.key = f).key = f
        BY <3>2
      <4> QED BY <1>3, <4>1, <4>2
    <3>3. CASE ~(\E c \in V : c.key = f)
      <4>1. Read(f) = a[f] /\ a[f] = b[f]
        BY <1>3, <1>7, <3>1, <3>3
      <4> HIDE DEF Read
      <4> QED BY <4>1 DEF CH!Same
    <3> QED BY <3>2, <3>3
  <2> QED BY <2>1, <2>2
<1> HIDE DEF Read, R
<1>13. DOMAIN CH!ReadExtras(cs, type, a) = DOMAIN b
  BY <1>5, <1>11
<1>14. \A f \in DOMAIN b : CH!ReadExtras(cs, type, a)[f] = Read(f)
  BY <1>5, <1>11
<1> QED BY <1>12, <1>13, <1>14 DEF CH!SameExtras

\* Extras of datasets, and of resources but for the fields with a form of their own.
LEMMA ChExtraValuesTold ==
  ASSUME NEW a, NEW b
  PROVE  ChValuesTold({CH!ExtraValue(a, b, f) : f \in {g \in DOMAIN a \cap DOMAIN b : a[g] # b[g]}},
                    "extra_fields", a, b)
<1>1. \A f : LET c == CH!ExtraValue(a, b, f) IN
        /\ c.type = "extra_fields" /\ DOMAIN c = {"type", "key", "method", "value"}
        /\ c.key = f /\ CH!Same(c.value, b[f])
  BY DEF CH!ExtraValue, CH!Same
<1> QED BY <1>1 DEF ChValuesTold, ChCommon

\* The fields of a resource that have no form of their own.
ChKept(r) == [f \in DOMAIN r \ CH!DefaultFields |-> r[f]]

LEMMA ChResourceValuesTold ==
  ASSUME NEW a, NEW b
  PROVE  ChValuesTold({CH!ResourceExtra(a, b, f) :
                       f \in {g \in (DOMAIN a \ CH!DefaultFields) \cap (DOMAIN b \ CH!DefaultFields) :
                               a[g] # b[g]}},
                    "resource_extras", ChKept(a), ChKept(b))
<1>1. ASSUME NEW f
      PROVE  LET c == CH!ResourceExtra(a, b, f) IN
        /\ c.type = "resource_extras" /\ DOMAIN c = {"type", "key", "method", "value"}
        /\ c.key = f /\ CH!Same(c.value, b[f])
  <2> DEFINE c == CH!ResourceExtra(a, b, f)
  <2>1. /\ c.type = "resource_extras" /\ DOMAIN c = {"type", "key", "method", "value"}
        /\ c.key = f
        /\ c.value = IF CH!True(a[f]) /\ ~CH!True(b[f]) THEN Unset ELSE b[f]
    BY DEF CH!ResourceExtra
  <2>2. CH!Same(c.value, b[f])
    BY <2>1 DEF CH!Same, CH!True
  <2> QED BY <2>1, <2>2
<1>2. ASSUME NEW r
      PROVE  /\ DOMAIN ChKept(r) = DOMAIN r \ CH!DefaultFields
             /\ \A f \in DOMAIN r \ CH!DefaultFields : ChKept(r)[f] = r[f]
  BY DEF ChKept
<1>3. /\ ChCommon(ChKept(a), ChKept(b)) = (DOMAIN a \ CH!DefaultFields) \cap (DOMAIN b \ CH!DefaultFields)
      /\ \A f \in ChCommon(ChKept(a), ChKept(b)) : ChKept(a)[f] = a[f] /\ ChKept(b)[f] = b[f]
  BY <1>2 DEF ChCommon
<1> QED BY <1>1, <1>3 DEF ChValuesTold

-----------------------------------------------------------------------------
(* The changes of the metadata *)

ChExtras(v) == IF "extras" \in DOMAIN v THEN v["extras"] ELSE CH!NoExtras

ChDiffers(f, old, new) == CH!Get(old, f) # CH!Get(new, f)

LEMMA ChMetadataIs ==
  ASSUME NEW old, NEW new, NEW c
  PROVE  c \in CH!MetadataChanges(old, new) <=>
           \/ \E f \in CH!Plain : ChDiffers(f, old, new) /\ c = CH!PlainChange(f, CH!Get(old, f), CH!Get(new, f))
           \/ \E f \in CH!Described :
                ChDiffers(f, old, new) /\ c = CH!FieldChange(f, CH!Get(old, f), CH!Get(new, f))
           \/ \E f \in CH!Linked : ChDiffers(f, old, new) /\ c = CH!LinkChange(f, CH!Get(old, f), CH!Get(new, f))
           \/ /\ ChDiffers("owner_org", old, new)
              /\ c = CH!FieldChange("owner_org", CH!Get(old, "owner_org"), CH!Get(new, "owner_org"))
           \/ /\ old["private"] # new["private"]
              /\ c = CH!PlainChange("private", Unset, CH!Privacy(new["private"]))
           \/ c \in CH!TagChange(old["tags"], new["tags"])
           \/ c \in CH!ExtensionFields(old, new)
           \/ c \in CH!ExtraFields(old, new)
BY DEF CH!MetadataChanges, CH!OrgChange, ChDiffers

LEMMA ChTagIs ==
  ASSUME NEW a, NEW b, NEW c \in CH!TagChange(a, b)
  PROVE  /\ c.type = "tags" /\ DOMAIN c = {"type", "method", "names"}
         /\ \/ /\ c.method \in {"remove_one", "remove_multiple"}
               /\ c.names = a \ b
            \/ /\ c.method \in {"add_one", "add_multiple"}
               /\ c.names = b \ a
<1>1. CASE c \in CH!Names("tags", "remove_one", "remove_multiple", a \ b)
  BY <1>1, ChNamesIs
<1>2. CASE c \in CH!Names("tags", "add_one", "add_multiple", b \ a)
  BY <1>2, ChNamesIs
<1> QED BY <1>1, <1>2 DEF CH!TagChange

LEMMA ChTagsAre ==
  ASSUME NEW a, NEW b
  PROVE  /\ a \ b # {} => \E c \in CH!TagChange(a, b) : c.names = a \ b
                              /\ c.method \in {"remove_one", "remove_multiple"}
         /\ b \ a # {} => \E c \in CH!TagChange(a, b) : c.names = b \ a
                              /\ c.method \in {"add_one", "add_multiple"}
<1>1. ASSUME a \ b # {}
      PROVE  \E c \in CH!TagChange(a, b) : c.names = a \ b
                              /\ c.method \in {"remove_one", "remove_multiple"}
  BY <1>1, ChNamesIs, ChNamesAre DEF CH!TagChange
<1>2. ASSUME b \ a # {}
      PROVE  \E c \in CH!TagChange(a, b) : c.names = b \ a
                              /\ c.method \in {"add_one", "add_multiple"}
  BY <1>2, ChNamesIs, ChNamesAre DEF CH!TagChange
<1> QED BY <1>1, <1>2

LEMMA ChExtensionIs ==
  ASSUME NEW old, NEW new, NEW c \in CH!ExtensionFields(old, new)
  PROVE  c.type = "extension_fields" /\ DOMAIN c = {"type", "key", "value"}
BY DEF CH!ExtensionFields

LEMMA ChExtraIs ==
  ASSUME NEW old, NEW new, NEW c \in CH!ExtraFields(old, new)
  PROVE  /\ c.type = "extra_fields" /\ "type" \in DOMAIN c
         /\ "new" \notin DOMAIN c /\ "change" \notin DOMAIN c
<1> DEFINE a == ChExtras(old)
<1> DEFINE b == ChExtras(new)
<1> DEFINE V == {CH!ExtraValue(a, b, f) : f \in {g \in DOMAIN a \cap DOMAIN b : a[g] # b[g]}}
<1>1. c \in CH!AddedFields("extra_fields", b, DOMAIN b \ DOMAIN a)
             \cup CH!Names("extra_fields", "remove_one", "remove_multiple", DOMAIN a \ DOMAIN b)
             \cup V
  BY DEF CH!ExtraFields, ChExtras
<1>2. ChValuesTold(V, "extra_fields", a, b)
  BY ChExtraValuesTold
<1> HIDE DEF V, a, b
<1>3. CASE c \in CH!AddedFields("extra_fields", b, DOMAIN b \ DOMAIN a)
  BY <1>3, ChAddedIs
<1>4. CASE c \in CH!Names("extra_fields", "remove_one", "remove_multiple", DOMAIN a \ DOMAIN b)
  BY <1>4, ChNamesIs
<1>5. CASE c \in V
  BY <1>2, <1>5 DEF ChValuesTold
<1> QED BY <1>1, <1>3, <1>4, <1>5

\* The kinds of changes, told apart by their type.
LEMMA ChKinds ==
  ASSUME NEW old, NEW new, NEW c \in CH!MetadataChanges(old, new)
  PROVE  /\ "type" \in DOMAIN c /\ "new" \notin DOMAIN c /\ "change" \notin DOMAIN c
         /\ \/ ChTells(c, old, new)
            \/ c.type = "tags" /\ c \in CH!TagChange(old["tags"], new["tags"])
            \/ c.type = "extension_fields" /\ c \in CH!ExtensionFields(old, new)
            \/ c.type = "extra_fields" /\ c \in CH!ExtraFields(old, new)
<1>1. CASE \E f \in CH!Plain : ChDiffers(f, old, new) /\ c = CH!PlainChange(f, CH!Get(old, f), CH!Get(new, f))
  BY <1>1, ChPlainTells DEF ChTells
<1>2. CASE \E f \in CH!Described :
             ChDiffers(f, old, new) /\ c = CH!FieldChange(f, CH!Get(old, f), CH!Get(new, f))
  BY <1>2, ChFieldTells DEF ChTells
<1>3. CASE \E f \in CH!Linked : ChDiffers(f, old, new) /\ c = CH!LinkChange(f, CH!Get(old, f), CH!Get(new, f))
  BY <1>3, ChLinkTells DEF ChTells
<1>4. CASE c = CH!FieldChange("owner_org", CH!Get(old, "owner_org"), CH!Get(new, "owner_org"))
  BY <1>4, ChFieldTells DEF ChTells
<1>5. CASE c = CH!PlainChange("private", Unset, CH!Privacy(new["private"]))
  <2>1. /\ DOMAIN c = {"type", "method", "value", "was"}
        /\ c.type = "private" /\ c.value = CH!Privacy(new["private"])
    BY <1>5 DEF CH!PlainChange
  <2>2. "private" \notin ChFields
    BY ChFieldKinds
  <2> QED BY <2>1, <2>2 DEF ChTells
<1>6. CASE c \in CH!TagChange(old["tags"], new["tags"])
  BY <1>6, ChTagIs
<1>7. CASE c \in CH!ExtensionFields(old, new)
  BY <1>7, ChExtensionIs
<1>8. CASE c \in CH!ExtraFields(old, new)
  BY <1>8, ChExtraIs
<1> QED BY <1>1, <1>2, <1>3, <1>4, <1>5, <1>6, <1>7, <1>8, ChMetadataIs

-----------------------------------------------------------------------------
(* What a reader makes of them *)

\* cs is the set S of changes, or tells that there is none.
ChCovers(cs, S) == \A c : c \in S <=> c \in cs /\ c.type # "no_change"

LEMMA ChReadIs ==
  ASSUME NEW cs, NEW type, NEW a, NEW b,
         \A c \in cs : c.type = type => CH!Same(c.value, b),
         (\E c \in cs : c.type = type) \/ CH!Same(a, b)
  PROVE  CH!Same(CH!ReadField(cs, type, a), b)
BY DEF CH!ReadField

LEMMA ChFieldsTold ==
  ASSUME NEW old, NEW new, NEW cs, ChCovers(cs, CH!MetadataChanges(old, new)), NEW f \in ChFields
  PROVE  CH!Same(CH!ReadField(cs, f, CH!Get(old, f)), CH!Get(new, f))
<1>1. \A c \in cs : c.type = f => CH!Same(c.value, CH!Get(new, f))
  <2> SUFFICES ASSUME NEW c \in cs, c.type = f
               PROVE CH!Same(c.value, CH!Get(new, f))
    OBVIOUS
  <2>1. f \notin {"no_change", "tags", "extension_fields", "extra_fields"}
    BY ChFieldKinds
  <2>2. c \in CH!MetadataChanges(old, new)
    BY <2>1 DEF ChCovers
  <2> QED BY <2>1, <2>2, ChKinds DEF ChTells
<1>2. (\E c \in cs : c.type = f) \/ CH!Same(CH!Get(old, f), CH!Get(new, f))
  <2>1. CASE CH!Get(old, f) = CH!Get(new, f)
    BY <2>1 DEF CH!Same
  <2>2. CASE ChDiffers(f, old, new)
    <3>1. CASE f \in CH!Plain
      <4> DEFINE c == CH!PlainChange(f, CH!Get(old, f), CH!Get(new, f))
      <4>1. c \in CH!MetadataChanges(old, new)
        BY <2>2, <3>1, ChMetadataIs
      <4>2. c.type = f
        BY DEF CH!PlainChange
      <4> QED BY <4>1, <4>2 DEF ChCovers
    <3>2. CASE f \in CH!Described \cup {"owner_org"}
      <4> DEFINE c == CH!FieldChange(f, CH!Get(old, f), CH!Get(new, f))
      <4>1. c \in CH!MetadataChanges(old, new)
        BY <2>2, <3>2, ChMetadataIs
      <4>2. c.type = f
        BY DEF CH!FieldChange
      <4> QED BY <4>1, <4>2 DEF ChCovers
    <3>3. CASE f \in CH!Linked
      <4> DEFINE c == CH!LinkChange(f, CH!Get(old, f), CH!Get(new, f))
      <4>1. c \in CH!MetadataChanges(old, new)
        BY <2>2, <3>3, ChMetadataIs
      <4>2. c.type = f
        BY DEF CH!LinkChange
      <4> QED BY <4>1, <4>2 DEF ChCovers
    <3> QED BY <3>1, <3>2, <3>3 DEF ChFields
  <2> QED BY <2>1, <2>2 DEF ChDiffers
<1> QED BY <1>1, <1>2, ChReadIs

LEMMA ChPrivateTold ==
  ASSUME NEW old, NEW new, NEW cs, ChCovers(cs, CH!MetadataChanges(old, new))
  PROVE  CH!ReadField(cs, "private", CH!Privacy(old["private"])) = CH!Privacy(new["private"])
<1>1. \A c \in cs : c.type = "private" => c.value = CH!Privacy(new["private"])
  <2> SUFFICES ASSUME NEW c \in cs, c.type = "private"
               PROVE  c.value = CH!Privacy(new["private"])
    OBVIOUS
  <2>1. c \in CH!MetadataChanges(old, new)
    BY DEF ChCovers
  <2> QED BY <2>1, ChKinds DEF ChTells
<1>2. (\E c \in cs : c.type = "private") \/ old["private"] = new["private"]
  <2> DEFINE c == CH!PlainChange("private", Unset, CH!Privacy(new["private"]))
  <2>1. old["private"] # new["private"] => c \in CH!MetadataChanges(old, new)
    BY ChMetadataIs
  <2>2. c.type = "private"
    BY DEF CH!PlainChange
  <2> QED BY <2>1, <2>2 DEF ChCovers
<1>3. CASE \E c \in cs : c.type = "private"
  BY <1>1, <1>3 DEF CH!ReadField
<1>4. CASE ~(\E c \in cs : c.type = "private")
  BY <1>2, <1>4 DEF CH!ReadField
<1> QED BY <1>3, <1>4

LEMMA ChTagsTold ==
  ASSUME NEW old, NEW new, NEW cs, ChCovers(cs, CH!MetadataChanges(old, new))
  PROVE  (old["tags"] \ CH!ReadNames(cs, "tags", {"remove_one", "remove_multiple"}))
           \cup CH!ReadNames(cs, "tags", {"add_one", "add_multiple"}) = new["tags"]
<1> DEFINE a == old["tags"]
<1> DEFINE b == new["tags"]
<1>1. \A c : c \in cs /\ c.type = "tags" <=> c \in CH!TagChange(a, b)
  <2>1. \A c \in CH!TagChange(a, b) : c \in CH!MetadataChanges(old, new) /\ c.type = "tags"
    BY ChMetadataIs, ChTagIs
  <2>2. \A c \in CH!MetadataChanges(old, new) : c.type = "tags" => c \in CH!TagChange(a, b)
    BY ChKinds, ChFieldKinds DEF ChTells
  <2> QED BY <2>1, <2>2 DEF ChCovers
<1> HIDE DEF a, b
<1>2. ASSUME NEW methods
      PROVE  CH!ReadNames(cs, "tags", methods)
               = UNION {c.names : c \in {d \in CH!TagChange(a, b) : d.method \in methods}}
  <2>1. {d \in cs : d.type = "tags" /\ d.method \in methods}
          = {d \in CH!TagChange(a, b) : d.method \in methods}
    BY <1>1
  <2> QED BY <2>1 DEF CH!ReadNames
<1>3. CH!ReadNames(cs, "tags", {"remove_one", "remove_multiple"}) = a \ b
  <2>1. \A c \in CH!TagChange(a, b) :
          c.method \in {"remove_one", "remove_multiple"} => c.names = a \ b
    BY ChTagIs
  <2>2. a \ b # {} => \E c \in CH!TagChange(a, b) : c.names = a \ b
                        /\ c.method \in {"remove_one", "remove_multiple"}
    BY ChTagsAre
  <2>3. CH!ReadNames(cs, "tags", {"remove_one", "remove_multiple"})
          = UNION {c.names : c \in {d \in CH!TagChange(a, b) :
                                     d.method \in {"remove_one", "remove_multiple"}}}
    BY <1>2
  <2> QED BY <2>1, <2>2, <2>3
<1>4. CH!ReadNames(cs, "tags", {"add_one", "add_multiple"}) = b \ a
  <2>1. \A c \in CH!TagChange(a, b) :
          c.method \in {"add_one", "add_multiple"} => c.names = b \ a
    BY ChTagIs
  <2>2. b \ a # {} => \E c \in CH!TagChange(a, b) : c.names = b \ a
                        /\ c.method \in {"add_one", "add_multiple"}
    BY ChTagsAre
  <2>3. CH!ReadNames(cs, "tags", {"add_one", "add_multiple"})
          = UNION {c.names : c \in {d \in CH!TagChange(a, b) :
                                     d.method \in {"add_one", "add_multiple"}}}
    BY <1>2
  <2> QED BY <2>1, <2>2, <2>3
<1> QED BY <1>3, <1>4 DEF a, b

LEMMA ChExtensionsTold ==
  ASSUME NEW old, NEW new, NEW cs, ChCovers(cs, CH!MetadataChanges(old, new)),
         NEW f \in (DOMAIN old \cap DOMAIN new) \ CH!Standard
  PROVE  old[f] # new[f]
           <=> [type |-> "extension_fields", key |-> f, value |-> new[f]] \in cs
<1> DEFINE c == [type |-> "extension_fields", key |-> f, value |-> new[f]]
<1>1. c.type = "extension_fields" /\ c.key = f
  OBVIOUS
<1>2. c \in CH!ExtensionFields(old, new) <=> old[f] # new[f]
  <2>1. ASSUME c \in CH!ExtensionFields(old, new) PROVE old[f] # new[f]
    <3>1. PICK g \in (DOMAIN old \cap DOMAIN new) \ CH!Standard :
            /\ old[g] # new[g]
            /\ c = [type |-> "extension_fields", key |-> g, value |-> new[g]]
      BY <2>1 DEF CH!ExtensionFields
    <3>2. c.key = g
      BY <3>1
    <3> HIDE DEF c
    <3> QED BY <1>1, <3>1, <3>2
  <2> QED BY <2>1 DEF CH!ExtensionFields
<1> HIDE DEF c
<1>3. c \in CH!MetadataChanges(old, new) <=> c \in CH!ExtensionFields(old, new)
  BY <1>1, ChMetadataIs, ChKinds, ChFieldKinds DEF ChTells
<1>4. c \in cs <=> c \in CH!MetadataChanges(old, new)
  BY <1>1 DEF ChCovers
<1> QED BY <1>2, <1>3, <1>4 DEF c

LEMMA ChExtrasTold ==
  ASSUME NEW old, NEW new, NEW cs, ChCovers(cs, CH!MetadataChanges(old, new))
  PROVE  CH!SameExtras(CH!ReadExtras(cs, "extra_fields", ChExtras(old)), ChExtras(new))
<1> DEFINE a == ChExtras(old)
<1> DEFINE b == ChExtras(new)
<1> DEFINE V == {CH!ExtraValue(a, b, f) : f \in {g \in DOMAIN a \cap DOMAIN b : a[g] # b[g]}}
<1> DEFINE A == CH!AddedFields("extra_fields", b, DOMAIN b \ DOMAIN a)
<1>1. CH!ExtraFields(old, new) =
        A \cup CH!Names("extra_fields", "remove_one", "remove_multiple", DOMAIN a \ DOMAIN b)
             \cup V
  BY DEF CH!ExtraFields, ChExtras
<1>2. ChValuesTold(V, "extra_fields", a, b)
  BY ChExtraValuesTold
<1>3. ChAddedTold(A, "extra_fields", b, DOMAIN b \ DOMAIN a)
  BY ChAddedFieldsTold
<1> HIDE DEF V, A
<1>4. \A c : c \in cs /\ c.type = "extra_fields" <=> c \in CH!ExtraFields(old, new)
  <2>1. \A c \in CH!ExtraFields(old, new) :
          c \in CH!MetadataChanges(old, new) /\ c.type = "extra_fields"
    BY ChMetadataIs, ChExtraIs
  <2>2. \A c \in CH!MetadataChanges(old, new) :
          c.type = "extra_fields" => c \in CH!ExtraFields(old, new)
    BY ChKinds, ChFieldKinds DEF ChTells
  <2> QED BY <2>1, <2>2 DEF ChCovers
<1>5. {c \in cs : c.type = "extra_fields"} = CH!ExtraFields(old, new)
  BY <1>4
<1> HIDE DEF a, b
<1>6. CH!SameExtras(CH!ReadExtras(cs, "extra_fields", a), b)
  BY <1>1, <1>2, <1>5, <1>3, ChExtrasRead
<1> QED BY <1>6 DEF a, b

-----------------------------------------------------------------------------
(* The changes of a resource *)

ChValueChange(type, method, v) == [type |-> type, method |-> method, value |-> v]

LEMMA ChValueChangeIs ==
  ASSUME NEW type, NEW method, NEW v
  PROVE  ChValueChange(type, method, v).type = type /\ ChValueChange(type, method, v).value = v
BY DEF ChValueChange

ChNameChanges(a, b) ==
  {ChValueChange("name", "change", v) : v \in {CH!Get(b, "name")} \ {CH!Get(a, "name")}}

ChFileChanges(a, b) ==
  {ChValueChange("file", "change", Unset) : v \in {CH!Get(b, "url")} \ {CH!Get(a, "url")}}

\* The changes of one kind: all of the type, with the value that the new version has.
ChFieldTold(S, type, a, b) ==
  /\ \A c \in S : c.type = type /\ CH!Same(c.value, b)
  /\ S # {} \/ CH!Same(a, b)

LEMMA ChNamesOfResource ==
  ASSUME NEW a, NEW b
  PROVE  ChFieldTold(ChNameChanges(a, b), "name", CH!Get(a, "name"), CH!Get(b, "name"))
<1> DEFINE x == CH!Get(a, "name")
<1> DEFINE y == CH!Get(b, "name")
<1>1. ChNameChanges(a, b) = {ChValueChange("name", "change", v) : v \in {y} \ {x}}
  BY DEF ChNameChanges
<1> HIDE DEF x, y
<1>2. \A c \in ChNameChanges(a, b) : c.type = "name" /\ c.value = y
  BY <1>1, ChValueChangeIs
<1>3. x = y \/ ChValueChange("name", "change", y) \in ChNameChanges(a, b)
  BY <1>1
<1>4. ChFieldTold(ChNameChanges(a, b), "name", x, y)
  BY <1>2, <1>3 DEF ChFieldTold, CH!Same
<1> QED BY <1>4 DEF x, y

LEMMA ChFormatOfResource ==
  ASSUME NEW a, NEW b
  PROVE  ChFieldTold(CH!ResourceFormat(a, b), "format", a, b)
<1> DEFINE m == IF ~CH!True(a) /\ CH!True(b) THEN "add" ELSE "change"
<1>1. CH!ResourceFormat(a, b) = IF a = b THEN {} ELSE {ChValueChange("format", m, b)}
  BY DEF CH!ResourceFormat, ChValueChange
<1> HIDE DEF m
<1>2. CASE a = b
  BY <1>1, <1>2 DEF ChFieldTold, CH!Same
<1>3. CASE a # b
  BY <1>1, <1>3, ChValueChangeIs DEF ChFieldTold, CH!Same
<1> QED BY <1>2, <1>3

LEMMA ChDescriptionOfResource ==
  ASSUME NEW a, NEW b
  PROVE  ChFieldTold(CH!ResourceDescription(a, b), "desc", a, b)
<1> DEFINE m == IF ~CH!True(a) /\ CH!True(b) THEN "add"
                ELSE IF CH!True(a) /\ ~CH!True(b) THEN "remove" ELSE "change"
<1> DEFINE v == IF CH!True(b) THEN b ELSE Unset
<1>1. CH!ResourceDescription(a, b) = IF a = b THEN {} ELSE {ChValueChange("desc", m, v)}
  BY DEF CH!ResourceDescription, ChValueChange
<1>2. CH!Same(v, b)
  BY DEF CH!Same, CH!True
<1> HIDE DEF m, v
<1>3. CASE a = b
  BY <1>1, <1>3 DEF ChFieldTold, CH!Same
<1>4. CASE a # b
  BY <1>1, <1>2, <1>4, ChValueChangeIs DEF ChFieldTold
<1> QED BY <1>3, <1>4

LEMMA ChFileOfResource ==
  ASSUME NEW a, NEW b
  PROVE  /\ \A c \in ChFileChanges(a, b) : c.type = "file"
         /\ ChFileChanges(a, b) # {} <=> CH!Get(a, "url") # CH!Get(b, "url")
BY ChValueChangeIs DEF ChFileChanges

LEMMA ChExtrasOfResource ==
  ASSUME NEW a, NEW b
  PROVE  \E A, V :
           /\ ChAddedTold(A, "resource_extras", ChKept(b), DOMAIN ChKept(b) \ DOMAIN ChKept(a))
           /\ ChValuesTold(V, "resource_extras", ChKept(a), ChKept(b))
           /\ CH!ResourceExtras(a, b) =
                A \cup CH!Names("resource_extras", "remove_one", "remove_multiple",
                             DOMAIN ChKept(a) \ DOMAIN ChKept(b))
                  \cup V
<1> DEFINE was == DOMAIN a \ CH!DefaultFields
<1> DEFINE is == DOMAIN b \ CH!DefaultFields
<1> DEFINE A == CH!AddedFields("resource_extras", b, is \ was)
<1> DEFINE V == {CH!ResourceExtra(a, b, f) : f \in {g \in was \cap is : a[g] # b[g]}}
<1>1. DOMAIN ChKept(a) = was /\ DOMAIN ChKept(b) = is /\ \A f \in is : ChKept(b)[f] = b[f]
  BY DEF ChKept
<1>2. ChAddedTold(A, "resource_extras", b, is \ was)
  BY ChAddedFieldsTold
<1>3. ChValuesTold(V, "resource_extras", ChKept(a), ChKept(b))
  BY ChResourceValuesTold
<1>4. CH!ResourceExtras(a, b) =
        A \cup CH!Names("resource_extras", "remove_one", "remove_multiple", was \ is) \cup V
  BY DEF CH!ResourceExtras
<1> HIDE DEF A, V, was, is
<1>5. ChAddedTold(A, "resource_extras", ChKept(b), is \ was)
  BY <1>1, <1>2 DEF ChAddedTold
<1> QED BY <1>1, <1>3, <1>4, <1>5

LEMMA ChExtrasHaveTheirType ==
  ASSUME NEW a, NEW b, NEW c \in CH!ResourceExtras(a, b)
  PROVE  c.type = "resource_extras"
<1>1. PICK A, V :
         /\ ChAddedTold(A, "resource_extras", ChKept(b), DOMAIN ChKept(b) \ DOMAIN ChKept(a))
         /\ ChValuesTold(V, "resource_extras", ChKept(a), ChKept(b))
         /\ CH!ResourceExtras(a, b) =
              A \cup CH!Names("resource_extras", "remove_one", "remove_multiple",
                           DOMAIN ChKept(a) \ DOMAIN ChKept(b))
                \cup V
  BY ChExtrasOfResource
<1>2. CASE c \in A
  BY <1>1, <1>2 DEF ChAddedTold
<1>3. CASE c \in V
  BY <1>1, <1>3 DEF ChValuesTold
<1>4. CASE c \in CH!Names("resource_extras", "remove_one", "remove_multiple",
                       DOMAIN ChKept(a) \ DOMAIN ChKept(b))
  BY <1>4, ChNamesIs
<1> QED BY <1>1, <1>2, <1>3, <1>4

LEMMA ChResourceFieldsAre ==
  ASSUME NEW a, NEW b
  PROVE  CH!ResourceFields(a, b) =
           ChNameChanges(a, b) \cup CH!ResourceFormat(CH!Get(a, "format"), CH!Get(b, "format"))
             \cup CH!ResourceDescription(CH!Get(a, "description"), CH!Get(b, "description"))
             \cup ChFileChanges(a, b) \cup CH!ResourceExtras(a, b)
BY DEF CH!ResourceFields, ChNameChanges, ChFileChanges, ChValueChange

\* What ToldOfResource says of the changes of the resource.
LEMMA ChResourceTold ==
  ASSUME NEW a, NEW b, NEW cs, cs = CH!ResourceFields(a, b)
  PROVE  /\ CH!Same(CH!ReadField(cs, "name", CH!Get(a, "name")), CH!Get(b, "name"))
         /\ CH!Same(CH!ReadField(cs, "format", CH!Get(a, "format")), CH!Get(b, "format"))
         /\ CH!Same(CH!ReadField(cs, "desc", CH!Get(a, "description")), CH!Get(b, "description"))
         /\ (\E c \in cs : c.type = "file") <=> CH!Get(a, "url") # CH!Get(b, "url")
         /\ CH!SameExtras(CH!ReadExtras(cs, "resource_extras", ChKept(a)), ChKept(b))
<1> DEFINE N == ChNameChanges(a, b)
<1> DEFINE F == CH!ResourceFormat(CH!Get(a, "format"), CH!Get(b, "format"))
<1> DEFINE D == CH!ResourceDescription(CH!Get(a, "description"), CH!Get(b, "description"))
<1> DEFINE U == ChFileChanges(a, b)
<1> DEFINE E == CH!ResourceExtras(a, b)
<1>1. ChFieldTold(N, "name", CH!Get(a, "name"), CH!Get(b, "name"))
  BY ChNamesOfResource
<1>2. ChFieldTold(F, "format", CH!Get(a, "format"), CH!Get(b, "format"))
  BY ChFormatOfResource
<1>3. ChFieldTold(D, "desc", CH!Get(a, "description"), CH!Get(b, "description"))
  BY ChDescriptionOfResource
<1>4. /\ \A c \in U : c.type = "file"
      /\ U # {} <=> CH!Get(a, "url") # CH!Get(b, "url")
  BY ChFileOfResource
<1>5. \A c \in E : c.type = "resource_extras"
  BY ChExtrasHaveTheirType
<1>6. cs = N \cup F \cup D \cup U \cup E
  BY ChResourceFieldsAre
<1> HIDE DEF N, F, D, U, E
<1>7. /\ {c \in cs : c.type = "name"} = N
      /\ {c \in cs : c.type = "format"} = F
      /\ {c \in cs : c.type = "desc"} = D
      /\ {c \in cs : c.type = "file"} = U
      /\ {c \in cs : c.type = "resource_extras"} = E
  BY <1>1, <1>2, <1>3, <1>4, <1>5, <1>6 DEF ChFieldTold
<1>8. ASSUME NEW S, NEW type, NEW x, NEW y, ChFieldTold(S, type, x, y),
             {c \in cs : c.type = type} = S
      PROVE  CH!Same(CH!ReadField(cs, type, x), y)
  <2>1. (\A c \in cs : c.type = type => CH!Same(c.value, y))
        /\ ((\E c \in cs : c.type = type) \/ CH!Same(x, y))
    BY <1>8 DEF ChFieldTold
  <2> QED BY <2>1, ChReadIs
<1>9. (\E c \in cs : c.type = "file") <=> CH!Get(a, "url") # CH!Get(b, "url")
  BY <1>4, <1>7
<1>10. CH!SameExtras(CH!ReadExtras(cs, "resource_extras", ChKept(a)), ChKept(b))
  <2>1. PICK A, V :
           /\ ChAddedTold(A, "resource_extras", ChKept(b), DOMAIN ChKept(b) \ DOMAIN ChKept(a))
           /\ ChValuesTold(V, "resource_extras", ChKept(a), ChKept(b))
           /\ E = A \cup CH!Names("resource_extras", "remove_one", "remove_multiple",
                               DOMAIN ChKept(a) \ DOMAIN ChKept(b))
                  \cup V
    BY ChExtrasOfResource DEF E
  <2>2. {c \in cs : c.type = "resource_extras"} = E
    BY <1>7
  <2> QED BY <2>1, <2>2, ChExtrasRead
<1>11. CH!Same(CH!ReadField(cs, "name", CH!Get(a, "name")), CH!Get(b, "name"))
  BY <1>1, <1>7, <1>8
<1>12. CH!Same(CH!ReadField(cs, "format", CH!Get(a, "format")), CH!Get(b, "format"))
  BY <1>2, <1>7, <1>8
<1>13. CH!Same(CH!ReadField(cs, "desc", CH!Get(a, "description")), CH!Get(b, "description"))
  BY <1>3, <1>7, <1>8
<1> QED BY <1>9, <1>10, <1>11, <1>12, <1>13

-----------------------------------------------------------------------------
(* The changes of the list of resources *)

ChInner(id, c) == [resource |-> id, change |-> c]

LEMMA ChWholeIs ==
  ASSUME NEW id, NEW r
  PROVE  /\ CH!NewResource(id, r).resource = id /\ CH!NewResource(id, r).new
         /\ DOMAIN CH!NewResource(id, r) = {"resource", "new", "name"}
         /\ CH!DeletedResource(id, r).resource = id /\ ~CH!DeletedResource(id, r).new
         /\ DOMAIN CH!DeletedResource(id, r) = {"resource", "new", "name"}
BY DEF CH!NewResource, CH!DeletedResource

LEMMA ChInnerIs ==
  ASSUME NEW id, NEW d
  PROVE  /\ ChInner(id, d).resource = id /\ ChInner(id, d).change = d
         /\ DOMAIN ChInner(id, d) = {"resource", "change"}
BY DEF ChInner

LEMMA ChResourceChangeIs ==
  ASSUME NEW a, NEW b, NEW c
  PROVE  c \in CH!ResourceChanges(a, b) <=>
           \/ \E id \in DOMAIN b \ DOMAIN a : c = CH!NewResource(id, b[id])
           \/ \E id \in DOMAIN a \ DOMAIN b : c = CH!DeletedResource(id, a[id])
           \/ \E id \in DOMAIN a \cap DOMAIN b :
                \E d \in CH!ResourceFields(a[id], b[id]) : c = ChInner(id, d)
<1>2. \A id, cs : CH!InResource(id, cs) = {ChInner(id, d) : d \in cs}
  BY DEF CH!InResource, ChInner
<1>3. CH!ResourceChanges(a, b) =
        {CH!NewResource(id, b[id]) : id \in DOMAIN b \ DOMAIN a}
          \cup {CH!DeletedResource(id, a[id]) : id \in DOMAIN a \ DOMAIN b}
          \cup UNION {CH!InResource(id, CH!ResourceFields(a[id], b[id])) :
                        id \in DOMAIN a \cap DOMAIN b}
  BY DEF CH!ResourceChanges
<1>4. c \in {CH!NewResource(id, b[id]) : id \in DOMAIN b \ DOMAIN a}
        <=> \E id \in DOMAIN b \ DOMAIN a : c = CH!NewResource(id, b[id])
  OBVIOUS
<1>5. c \in {CH!DeletedResource(id, a[id]) : id \in DOMAIN a \ DOMAIN b}
        <=> \E id \in DOMAIN a \ DOMAIN b : c = CH!DeletedResource(id, a[id])
  OBVIOUS
<1>6. c \in UNION {CH!InResource(id, CH!ResourceFields(a[id], b[id])) :
                     id \in DOMAIN a \cap DOMAIN b}
        <=> \E id \in DOMAIN a \cap DOMAIN b :
              \E d \in CH!ResourceFields(a[id], b[id]) : c = ChInner(id, d)
  <2>1. c \in UNION {CH!InResource(id, CH!ResourceFields(a[id], b[id])) :
                       id \in DOMAIN a \cap DOMAIN b}
          <=> \E id \in DOMAIN a \cap DOMAIN b :
                c \in CH!InResource(id, CH!ResourceFields(a[id], b[id]))
    OBVIOUS
  <2>2. \A id : c \in CH!InResource(id, CH!ResourceFields(a[id], b[id]))
                  <=> \E d \in CH!ResourceFields(a[id], b[id]) : c = ChInner(id, d)
    BY <1>2
  <2> QED BY <2>1, <2>2
<1> QED BY <1>3, <1>4, <1>5, <1>6

\* What distinguishes the three.
LEMMA ChResourceChangeKinds ==
  ASSUME NEW a, NEW b, NEW c \in CH!ResourceChanges(a, b)
  PROVE  \/ /\ DOMAIN c = {"resource", "new", "name"}
            /\ \/ c.new /\ c.resource \in DOMAIN b \ DOMAIN a
               \/ ~c.new /\ c.resource \in DOMAIN a \ DOMAIN b
         \/ /\ DOMAIN c = {"resource", "change"}
            /\ c.resource \in DOMAIN a \cap DOMAIN b
            /\ c.change \in CH!ResourceFields(a[c.resource], b[c.resource])
<1>1. CASE \E id \in DOMAIN b \ DOMAIN a : c = CH!NewResource(id, b[id])
  <2>1. PICK id \in DOMAIN b \ DOMAIN a : c = CH!NewResource(id, b[id])
    BY <1>1
  <2> QED BY <2>1, ChWholeIs
<1>2. CASE \E id \in DOMAIN a \ DOMAIN b : c = CH!DeletedResource(id, a[id])
  <2>1. PICK id \in DOMAIN a \ DOMAIN b : c = CH!DeletedResource(id, a[id])
    BY <1>2
  <2> QED BY <2>1, ChWholeIs
<1>3. CASE \E id \in DOMAIN a \cap DOMAIN b :
             \E d \in CH!ResourceFields(a[id], b[id]) : c = ChInner(id, d)
  <2>1. PICK id \in DOMAIN a \cap DOMAIN b :
          \E d \in CH!ResourceFields(a[id], b[id]) : c = ChInner(id, d)
    BY <1>3
  <2>2. PICK d \in CH!ResourceFields(a[id], b[id]) : c = ChInner(id, d)
    BY <2>1
  <2>3. c.resource = id /\ c.change = d /\ DOMAIN c = {"resource", "change"}
    BY <2>2, ChInnerIs
  <2> QED BY <2>3
<1> QED BY <1>1, <1>2, <1>3, ChResourceChangeIs

\* rs are the changes of whole resources that told has.
LEMMA ChResourcesTold ==
  ASSUME NEW a, NEW b, NEW rs,
         \A c : c \in rs <=> c \in CH!ResourceChanges(a, b) /\ "new" \in DOMAIN c
  PROVE  (DOMAIN a \ {c.resource : c \in {d \in rs : ~d.new}})
           \cup {c.resource : c \in {d \in rs : d.new}} = DOMAIN b
<1>1. ASSUME NEW c \in rs
      PROVE  \/ c.new /\ c.resource \in DOMAIN b \ DOMAIN a
             \/ ~c.new /\ c.resource \in DOMAIN a \ DOMAIN b
  BY <1>1, ChResourceChangeKinds
<1>2. ASSUME NEW id \in DOMAIN b \ DOMAIN a
      PROVE  \E c \in rs : c.new /\ c.resource = id
  <2> DEFINE c == CH!NewResource(id, b[id])
  <2>1. c \in CH!ResourceChanges(a, b)
    BY ChResourceChangeIs
  <2>2. c.resource = id /\ c.new /\ "new" \in DOMAIN c
    BY ChWholeIs
  <2> HIDE DEF c
  <2> QED BY <2>1, <2>2
<1>3. ASSUME NEW id \in DOMAIN a \ DOMAIN b
      PROVE  \E c \in rs : ~c.new /\ c.resource = id
  <2> DEFINE c == CH!DeletedResource(id, a[id])
  <2>1. c \in CH!ResourceChanges(a, b)
    BY ChResourceChangeIs
  <2>2. c.resource = id /\ ~c.new /\ "new" \in DOMAIN c
    BY ChWholeIs
  <2> HIDE DEF c
  <2> QED BY <2>1, <2>2
<1>4. {c.resource : c \in {d \in rs : ~d.new}} = DOMAIN a \ DOMAIN b
  BY <1>1, <1>3
<1>5. {c.resource : c \in {d \in rs : d.new}} = DOMAIN b \ DOMAIN a
  BY <1>1, <1>2
<1> QED BY <1>4, <1>5

LEMMA ChFieldsOfResource ==
  ASSUME NEW a, NEW b, NEW cs, NEW id \in DOMAIN a \cap DOMAIN b,
         \A c : c \in cs <=> c \in CH!ResourceChanges(a, b) /\ "change" \in DOMAIN c
  PROVE  {c.change : c \in {d \in cs : d.resource = id}} = CH!ResourceFields(a[id], b[id])
<1>1. ASSUME NEW c \in cs, c.resource = id
      PROVE  c.change \in CH!ResourceFields(a[id], b[id])
  BY <1>1, ChResourceChangeKinds
<1>2. ASSUME NEW d \in CH!ResourceFields(a[id], b[id])
      PROVE  \E c \in cs : c.resource = id /\ c.change = d
  <2>1. ChInner(id, d) \in CH!ResourceChanges(a, b)
    BY ChResourceChangeIs
  <2> QED BY <2>1, ChInnerIs
<1> QED BY <1>1, <1>2

LEMMA ChResourceKinds ==
  ASSUME NEW a, NEW b, NEW c \in CH!ResourceChanges(a, b)
  PROVE  "type" \notin DOMAIN c /\ "resource" \in DOMAIN c
BY ChResourceChangeKinds

-----------------------------------------------------------------------------
(* The list *)

ChAll(old, new) ==
  CH!MetadataChanges(old, new) \cup CH!ResourceChanges(old["resources"], new["resources"])

ChNone == [type |-> "no_change"]

ChResult(old, new) == IF ChAll(old, new) = {} THEN {ChNone} ELSE ChAll(old, new)

LEMMA ChNoneIs == ChNone.type = "no_change" /\ DOMAIN ChNone = {"type"}
BY DEF ChNone

LEMMA ChMetadataIsNeverNone ==
  ASSUME NEW old, NEW new, NEW c \in CH!MetadataChanges(old, new)
  PROVE  c.type # "no_change"
BY ChKinds, ChFieldKinds DEF ChTells

LEMMA ChCovered ==
  ASSUME NEW old, NEW new, NEW cs,
         cs = {c \in ChResult(old, new) : "type" \in DOMAIN c}
  PROVE  ChCovers(cs, CH!MetadataChanges(old, new))
<1> DEFINE M == CH!MetadataChanges(old, new)
<1> DEFINE R == CH!ResourceChanges(old["resources"], new["resources"])
<1>1. \A c \in M : "type" \in DOMAIN c /\ c.type # "no_change"
  BY ChKinds, ChMetadataIsNeverNone
<1>2. \A c \in R : "type" \notin DOMAIN c
  BY ChResourceKinds
<1>3. ChAll(old, new) = M \cup R
  BY DEF ChAll
<1> SUFFICES ChCovers(cs, M)
  OBVIOUS
<1> HIDE DEF M, R
<1>4. CASE M \cup R = {}
  <2>1. cs = {ChNone}
    BY <1>3, <1>4, ChNoneIs DEF ChResult
  <2> QED BY <1>4, <2>1, ChNoneIs DEF ChCovers
<1>5. CASE M \cup R # {}
  <2>1. ChResult(old, new) = M \cup R
    BY <1>3, <1>5 DEF ChResult
  <2>2. cs = M
    BY <1>1, <1>2, <2>1
  <2> QED BY <1>1, <2>2 DEF ChCovers
<1> QED BY <1>4, <1>5

LEMMA ChOfResources ==
  ASSUME NEW old, NEW new, NEW c
  PROVE  /\ c \in ChResult(old, new) /\ "new" \in DOMAIN c
              <=> c \in CH!ResourceChanges(old["resources"], new["resources"])
                    /\ "new" \in DOMAIN c
         /\ c \in ChResult(old, new) /\ "change" \in DOMAIN c
              <=> c \in CH!ResourceChanges(old["resources"], new["resources"])
                    /\ "change" \in DOMAIN c
<1>1. c \in CH!MetadataChanges(old, new) => "new" \notin DOMAIN c /\ "change" \notin DOMAIN c
  BY ChKinds
<1>2. CASE ChAll(old, new) = {}
  BY <1>2, ChNoneIs DEF ChResult, ChAll
<1>3. CASE ChAll(old, new) # {}
  BY <1>1, <1>3 DEF ChResult, ChAll
<1> QED BY <1>2, <1>3

LEMMA ChNothingChanged ==
  ASSUME NEW old, NEW new, ChResult(old, new) = {ChNone},
         NEW f \in (DOMAIN old \cap DOMAIN new) \ {"organization", "extras", "resources"}
  PROVE  old[f] = new[f]
<1>1. ChAll(old, new) = {}
  <2>1. ChNone \notin ChAll(old, new)
    BY ChNoneIs, ChMetadataIsNeverNone, ChResourceKinds DEF ChAll
  <2> QED BY <2>1 DEF ChResult
<1>2. \A c : c \notin CH!MetadataChanges(old, new)
  BY <1>1 DEF ChAll
<1>3. CASE f \in ChFields
  <2>1. ~ChDiffers(f, old, new)
    BY <1>2, <1>3, ChMetadataIs DEF ChFields
  <2> QED BY <2>1 DEF ChDiffers, CH!Get
<1>4. CASE f = "private"
  BY <1>2, <1>4, ChMetadataIs
<1>5. CASE f = "tags"
  <2>1. \A c : c \notin CH!TagChange(old["tags"], new["tags"])
    BY <1>2, ChMetadataIs
  <2>2. old["tags"] \ new["tags"] = {} /\ new["tags"] \ old["tags"] = {}
    BY <2>1, ChTagsAre
  <2>3. old["tags"] = new["tags"]
    BY <2>2
  <2> QED BY <1>5, <2>3
<1>6. CASE f \notin CH!Standard
  <2>1. SUFFICES ASSUME old[f] # new[f] PROVE FALSE
    OBVIOUS
  <2>2. [type |-> "extension_fields", key |-> f, value |-> new[f]] \in CH!ExtensionFields(old, new)
    BY <1>6, <2>1 DEF CH!ExtensionFields
  <2> QED BY <1>2, <2>2, ChMetadataIs
<1>7. CH!Standard \subseteq
        ChFields \cup {"private", "tags", "organization", "extras", "resources"}
  BY ChFieldKinds DEF CH!Standard
<1> QED BY <1>3, <1>4, <1>5, <1>6, <1>7

LEMMA ChResultTells ==
  ASSUME chTold = ChResult(chPair[1], chPair[2])
  PROVE  CH!ChangesAreTold
<1> DEFINE old == chPair[1]
<1> DEFINE new == chPair[2]
<1> DEFINE cs == {c \in chTold : "type" \in DOMAIN c}
<1> DEFINE rs == {c \in chTold : "new" \in DOMAIN c}
<1>1. ChCovers(cs, CH!MetadataChanges(old, new))
  BY ChCovered
<1>2. \A c : c \in rs <=> c \in CH!ResourceChanges(old["resources"], new["resources"])
                          /\ "new" \in DOMAIN c
  BY ChOfResources
<1>3. (DOMAIN old["resources"] \ {c.resource : c \in {d \in rs : ~d.new}})
        \cup {c.resource : c \in {d \in rs : d.new}} = DOMAIN new["resources"]
  <2> HIDE DEF rs
  <2> QED BY <1>2, ChResourcesTold
<1>4. ASSUME NEW id \in DOMAIN old["resources"] \cap DOMAIN new["resources"]
      PROVE  CH!ToldOfResource(id, old["resources"][id], new["resources"][id])
  <2> DEFINE its == {c.change : c \in {d \in chTold : "change" \in DOMAIN d /\ d.resource = id}}
  <2> DEFINE ins == {c \in chTold : "change" \in DOMAIN c}
  <2>1. \A c : c \in ins <=> c \in CH!ResourceChanges(old["resources"], new["resources"])
                            /\ "change" \in DOMAIN c
    BY ChOfResources
  <2>2. {d \in chTold : "change" \in DOMAIN d /\ d.resource = id} = {d \in ins : d.resource = id}
    OBVIOUS
  <2>3. its = {c.change : c \in {d \in ins : d.resource = id}}
    BY <2>2
  <2> HIDE DEF ins, its
  <2>4. its = CH!ResourceFields(old["resources"][id], new["resources"][id])
    BY <2>1, <2>3, ChFieldsOfResource
  <2> DEFINE a == old["resources"][id]
  <2> DEFINE b == new["resources"][id]
  <2> HIDE DEF a, b, old, new
  <2>5. /\ CH!Same(CH!ReadField(its, "name", CH!Get(a, "name")), CH!Get(b, "name"))
        /\ CH!Same(CH!ReadField(its, "format", CH!Get(a, "format")), CH!Get(b, "format"))
        /\ CH!Same(CH!ReadField(its, "desc", CH!Get(a, "description")), CH!Get(b, "description"))
        /\ (\E c \in its : c.type = "file") <=> CH!Get(a, "url") # CH!Get(b, "url")
        /\ CH!SameExtras(CH!ReadExtras(its, "resource_extras", ChKept(a)), ChKept(b))
    BY <2>4, ChResourceTold DEF a, b
  <2>6. CH!ToldOfResource(id, a, b)
    BY <2>5, Zenon DEF CH!ToldOfResource, ChKept, its
  <2> QED BY <2>6 DEF a, b
<1>5. ASSUME chTold = {ChNone}
      PROVE  \A f \in (DOMAIN old \cap DOMAIN new) \ {"organization", "extras"} :
               f # "resources" => old[f] = new[f]
  <2> SUFFICES ASSUME NEW f \in DOMAIN old \cap DOMAIN new,
                      f \notin {"organization", "extras", "resources"}
               PROVE  old[f] = new[f]
    OBVIOUS
  <2>1. ChResult(old, new) = {ChNone}
    BY <1>5
  <2> HIDE DEF old, new
  <2> QED BY <2>1, ChNothingChanged
<1> HIDE DEF old, new, cs
<1>6. \A f \in ChFields : CH!Same(CH!ReadField(cs, f, CH!Get(old, f)), CH!Get(new, f))
  BY <1>1, ChFieldsTold
<1>7. CH!ReadField(cs, "private", CH!Privacy(old["private"])) = CH!Privacy(new["private"])
  BY <1>1, ChPrivateTold
<1>8. (old["tags"] \ CH!ReadNames(cs, "tags", {"remove_one", "remove_multiple"}))
        \cup CH!ReadNames(cs, "tags", {"add_one", "add_multiple"}) = new["tags"]
  BY <1>1, ChTagsTold
<1>9. \A f \in (DOMAIN old \cap DOMAIN new) \ CH!Standard :
        old[f] # new[f] <=> [type |-> "extension_fields", key |-> f, value |-> new[f]] \in cs
  BY <1>1, ChExtensionsTold
<1>10. CH!SameExtras(CH!ReadExtras(cs, "extra_fields", ChExtras(old)), ChExtras(new))
  BY <1>1, ChExtrasTold
<1> QED BY <1>3, <1>4, <1>5, <1>6, <1>7, <1>8, <1>9, <1>10
        DEF CH!ChangesAreTold, ChFields, ChExtras, ChNone, old, new, cs

-----------------------------------------------------------------------------
(* The list is not there yet, is that of the page that failed, or has      *)
(* every change.                                                           *)
ChMade == chTold \in {Unset, CH!Error} \/ chTold = ChResult(chPair[1], chPair[2])

THEOREM ChAlwaysMade == CH!Spec => []ChMade
<1>1. CH!Init => ChMade
  BY DEF CH!Init, ChMade
<1>2. ChMade /\ [CH!Next]_(CH!vars) => ChMade'
  <2> SUFFICES ASSUME ChMade, [CH!Next]_(CH!vars) PROVE ChMade'
    OBVIOUS
  <2>1. CASE CH!Compare
    BY <2>1 DEF CH!Compare, ChMade, ChResult, ChAll, ChNone
  <2>2. CASE UNCHANGED CH!vars
    BY <2>2 DEF CH!vars, ChMade
  <2> QED BY <2>1, <2>2 DEF CH!Next
<1> QED BY <1>1, <1>2, PTL DEF CH!Spec

(* Whoever applies the list to the old version has the new one.            *)
THEOREM ChListTellsChanges == CH!Spec => []CH!ChangesAreTold
<1>1. ChMade => CH!ChangesAreTold
  <2>1. CASE chTold \in {Unset, CH!Error}
    BY <2>1 DEF CH!ChangesAreTold
  <2> QED BY <2>1, ChResultTells DEF ChMade
<1> QED BY <1>1, ChAlwaysMade, PTL

-----------------------------------------------------------------------------
(* What Catalogue states of its parts                                      *)

\* An update of a group that no other update overlaps closes no loop in the
\* tree, however deep the tree is and whatever was deleted and brought back.
THEOREM UpdatesCloseNoLoop ==
  ASSUME HiConstantsOK PROVE HI!Spec => UpdateClosesNoLoop
BY HiUpdatesCloseNoLoop DEF UpdateClosesNoLoop

\* Whatever is loaded and unloaded, what get_action returns calls the plugins
\* that are in, in the order of the configuration, inside the audit.
THEOREM ActionsDoFollowPlugins ==
  ASSUME PlConstantsOK PROVE PL!Spec => []ActionsFollowPlugins
<1>1. PL!ActionsFollowPlugins => ActionsFollowPlugins
  BY DEF ActionsFollowPlugins
<1> QED BY <1>1, PlActionsDoFollow, PTL

\* Wherever earlier updates of the page views were cut, one that comes to its
\* end leaves the summary and the index as the raw views have them.
THEOREM SummaryDoesFollowViews ==
  ASSUME TrConstantsOK PROVE TR!Spec => []SummaryFollowsViews
<1>1. TR!SummaryFollowsViews => SummaryFollowsViews
  BY DEF SummaryFollowsViews
<1> QED BY <1>1, TrSummaryDoesFollow, PTL

\* A request that saves a list of resources, and that no other one overtook
\* between its first read and its commit, leaves just the list that it sent.
THEOREM SavesLeaveWhatWasSent ==
  ASSUME PsConstantsOK PROVE PS!Spec => SavesWhatWasSent
BY PsSavesDoLeaveWhatWasSent DEF SavesWhatWasSent

\* Whoever applies the list of changes to the old version of a dataset has the
\* new one, whatever the two are.
THEOREM ListDoesTellChanges == CH!Spec => []ChangesAreTold
<1>1. CH!ChangesAreTold => ChangesAreTold
  BY DEF ChangesAreTold
<1> QED BY <1>1, ChListTellsChanges, PTL
=============================================================================
