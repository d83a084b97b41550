---------------------------- MODULE Access_proof ----------------------------
(***************************************************************************)
(* Proofs about Access, for any users, organizations, datasets, settings   *)
(* and depth of the hierarchy, from SettingsAssumption alone.              *)
(*                                                                         *)
(* The recursive queries are described by paths (Led): what Reach computes *)
(* is what some path of at most MaxRecurses + 1 steps leads to (ReachIsLed,*)
(* by induction on the depth).  A path can be turned round, which makes    *)
(* the downward look-up the converse of the upward one, and a path that    *)
(* meets no changed row is a path of the changed relation.                 *)
(***************************************************************************)
EXTENDS Access, TLAPS, WellFoundedInduction

(* Induction on the naturals, for a set instead of a predicate.            *)
LEMMA Induction ==
  ASSUME NEW T, T \subseteq Nat, 0 \in T, \A n \in Nat : n \in T => n + 1 \in T
  PROVE  T = Nat
<1>1. PICK R : /\ IsWellFoundedOn(R, Nat)
               /\ \A x, y \in Nat : <<x, y>> \in R <=> x < y
  <2> DEFINE S == OpToRel(<, Nat)
  <2>1. IsWellFoundedOn(S, Nat)
    BY NatLessThanWellFounded
  <2>2. \A x, y \in Nat : <<x, y>> \in S <=> x < y
    BY DEF OpToRel
  <2> HIDE DEF S
  <2> QED BY <2>1, <2>2, Zenon
<1>2. SUFFICES ASSUME Nat \ T # {} PROVE FALSE
  OBVIOUS
<1>3. PICK m \in Nat \ T : \A y \in Nat \ T : <<y, m>> \notin R
  BY <1>1, <1>2, WFMin
<1>4. PICK k \in Nat : m = k + 1 /\ k < m
  <2>1. m \in Nat /\ m # 0
    BY <1>3
  <2>2. m - 1 \in Nat /\ m = (m - 1) + 1 /\ m - 1 < m
    BY <2>1
  <2> QED BY <2>2
<1>5. <<k, m>> \in R
  BY <1>1, <1>4
<1>6. k \in T
  BY <1>3, <1>4, <1>5, Zenon
<1> QED BY <1>3, <1>4, <1>6

-----------------------------------------------------------------------------
(* What the recursive queries return                                       *)

Relations == [Orgs -> SUBSET Orgs]

Upto(f, n, o, next) ==
  /\ f \in [0 .. n -> SUBSET Orgs]
  /\ f = [k \in 0 .. n |->
            IF k = 0 THEN next[o]
            ELSE f[k - 1] \cup UNION {next[p] : p \in f[k - 1]}]

(* The equation of Reach has a solution.                                   *)
LEMMA ReachExists ==
  ASSUME NEW next \in Relations, NEW o \in Orgs
  PROVE  \A n \in Nat : \E f : Upto(f, n, o, next)
<1> DEFINE T == {n \in Nat : \E f : Upto(f, n, o, next)}
<1>1. 0 \in T
  <2> DEFINE f == [k \in 0 .. 0 |-> next[o]]
  <2>1. f = [k \in 0 .. 0 |->
               IF k = 0 THEN next[o]
               ELSE f[k - 1] \cup UNION {next[p] : p \in f[k - 1]}]
    OBVIOUS
  <2>2. f \in [0 .. 0 -> SUBSET Orgs]
    BY DEF Relations
  <2> HIDE DEF f
  <2> QED BY <2>1, <2>2 DEF Upto
<1>2. ASSUME NEW n \in Nat, n \in T PROVE n + 1 \in T
  <2>1. PICK f : Upto(f, n, o, next)
    BY <1>2
  <2> DEFINE last == f[n] \cup UNION {next[p] : p \in f[n]}
  <2> DEFINE g == [k \in 0 .. n + 1 |-> IF k = n + 1 THEN last ELSE f[k]]
  <2>2. last \in SUBSET Orgs
    BY <2>1 DEF Upto, Relations
  <2>3. g \in [0 .. n + 1 -> SUBSET Orgs]
    BY <2>1, <2>2 DEF Upto
  <2>4. ASSUME NEW k \in 0 .. n + 1
        PROVE  g[k] = IF k = 0 THEN next[o]
                      ELSE g[k - 1] \cup UNION {next[p] : p \in g[k - 1]}
    <3>1. CASE k = n + 1
      <4>1. k # 0 /\ k - 1 = n /\ n \in 0 .. n + 1 /\ n # n + 1
        BY <3>1
      <4>2. g[k] = last /\ g[k - 1] = f[n]
        BY <3>1, <4>1
      <4> QED BY <4>1, <4>2
    <3>2. CASE k # n + 1
      <4>1. k \in 0 .. n
        BY <3>2
      <4>2. g[k] = f[k]
        BY <3>2
      <4>3. CASE k = 0
        BY <2>1, <4>1, <4>2, <4>3 DEF Upto
      <4>4. CASE k # 0
        <5>1. k - 1 \in 0 .. n /\ k - 1 \in 0 .. n + 1 /\ k - 1 # n + 1
          BY <4>1, <4>4
        <5>2. g[k - 1] = f[k - 1]
          BY <5>1
        <5>3. f[k] = f[k - 1] \cup UNION {next[p] : p \in f[k - 1]}
          BY <2>1, <4>1, <4>4 DEF Upto
        <5> QED BY <4>2, <4>4, <5>2, <5>3
      <4> QED BY <4>3, <4>4
    <3> QED BY <3>1, <3>2
  <2> HIDE DEF g
  <2>5. g = [k \in 0 .. n + 1 |->
               IF k = 0 THEN next[o]
               ELSE g[k - 1] \cup UNION {next[p] : p \in g[k - 1]}]
    BY <2>3, <2>4
  <2> QED BY <2>3, <2>5 DEF Upto
<1> HIDE DEF T
<1>3. T \subseteq Nat
  BY DEF T
<1>4. T = Nat
  BY <1>1, <1>2, <1>3, Induction
<1> QED BY <1>4 DEF T

(* What a query returns with a depth of n is next[o] and, step by step,    *)
(* what the relation leads to from there.                                  *)
LEMMA ReachStep ==
  ASSUME NEW next \in Relations, NEW o \in Orgs
  PROVE  /\ Reach(o, next) \in [0 .. MaxRecurses -> SUBSET Orgs]
         /\ Reach(o, next)[0] = next[o]
         /\ \A n \in 1 .. MaxRecurses :
              Reach(o, next)[n] =
                Reach(o, next)[n - 1]
                  \cup UNION {next[p] : p \in Reach(o, next)[n - 1]}
<1> DEFINE Solves(f) ==
      f = [k \in 0 .. MaxRecurses |->
             IF k = 0 THEN next[o]
             ELSE f[k - 1] \cup UNION {next[p] : p \in f[k - 1]}]
<1>1. MaxRecurses \in Nat
  BY SettingsAssumption
<1>2. PICK f : Upto(f, MaxRecurses, o, next)
  BY <1>1, ReachExists
<1>3. Reach(o, next) = CHOOSE g : Solves(g)
  BY DEF Reach
<1>4. Solves(f)
  BY <1>2 DEF Upto
<1>5. Solves(Reach(o, next))
  <2> HIDE DEF Solves
  <2> QED BY <1>3, <1>4
<1> DEFINE r == Reach(o, next)
<1>6. r = [k \in 0 .. MaxRecurses |->
             IF k = 0 THEN next[o]
             ELSE r[k - 1] \cup UNION {next[p] : p \in r[k - 1]}]
  BY <1>5
<1> HIDE DEF r, Solves
<1> SUFFICES /\ r \in [0 .. MaxRecurses -> SUBSET Orgs]
             /\ r[0] = next[o]
             /\ \A n \in 1 .. MaxRecurses :
                  r[n] = r[n - 1] \cup UNION {next[p] : p \in r[n - 1]}
  BY DEF r
<1>7. r[0] = next[o]
  BY <1>1, <1>6
<1>8. \A n \in 1 .. MaxRecurses :
        r[n] = r[n - 1] \cup UNION {next[p] : p \in r[n - 1]}
  BY <1>1, <1>6
<1> DEFINE T == {n \in Nat : n \in 0 .. MaxRecurses => r[n] \in SUBSET Orgs}
<1>9. T = Nat
  <2>1. 0 \in T
    BY <1>7 DEF Relations
  <2>2. ASSUME NEW n \in Nat, n \in T PROVE n + 1 \in T
    <3> SUFFICES ASSUME n + 1 \in 0 .. MaxRecurses
                 PROVE  r[n + 1] \in SUBSET Orgs
      OBVIOUS
    <3>1. n \in 0 .. MaxRecurses /\ n + 1 \in 1 .. MaxRecurses
          /\ (n + 1) - 1 = n
      BY <1>1
    <3>2. r[n] \in SUBSET Orgs
      BY <2>2, <3>1
    <3>3. r[n + 1] = r[n] \cup UNION {next[p] : p \in r[n]}
      BY <1>8, <3>1
    <3> QED BY <3>2, <3>3 DEF Relations
  <2>3. T \subseteq Nat
    OBVIOUS
  <2> HIDE DEF T
  <2> QED BY <2>1, <2>2, <2>3, Induction
<1>10. \A n \in 0 .. MaxRecurses : r[n] \in SUBSET Orgs
  BY <1>1, <1>9
<1>11. r \in [0 .. MaxRecurses -> SUBSET Orgs]
  BY <1>6, <1>10
<1> QED BY <1>7, <1>8, <1>11

-----------------------------------------------------------------------------
(* Paths                                                                   *)

Path(s, k, next) ==
  s \in [0 .. k -> Orgs] /\ \A i \in 0 .. k - 1 : s[i + 1] \in next[s[i]]

Led(o, a, next, k) == \E s : Path(s, k, next) /\ s[0] = o /\ s[k] = a

LEMMA LedOnce ==
  ASSUME NEW next \in Relations, NEW o \in Orgs, NEW a \in Orgs
  PROVE  Led(o, a, next, 1) <=> a \in next[o]
<1>1. ASSUME Led(o, a, next, 1) PROVE a \in next[o]
  <2>1. PICK s : Path(s, 1, next) /\ s[0] = o /\ s[1] = a
    BY <1>1 DEF Led
  <2>2. 0 \in 0 .. 1 - 1 /\ 0 + 1 = 1
    OBVIOUS
  <2> QED BY <2>1, <2>2 DEF Path
<1>2. ASSUME a \in next[o] PROVE Led(o, a, next, 1)
  <2> DEFINE s == [i \in 0 .. 1 |-> IF i = 0 THEN o ELSE a]
  <2>1. s \in [0 .. 1 -> Orgs] /\ s[0] = o /\ s[1] = a
    OBVIOUS
  <2> HIDE DEF s
  <2>2. \A i \in 0 .. 1 - 1 : i = 0 /\ i + 1 = 1
    OBVIOUS
  <2>3. \A i \in 0 .. 1 - 1 : s[i + 1] \in next[s[i]]
    BY <1>2, <2>1, <2>2
  <2> QED BY <2>1, <2>3 DEF Led, Path
<1> QED BY <1>1, <1>2

LEMMA LedOn ==
  ASSUME NEW next \in Relations, NEW o \in Orgs, NEW a \in Orgs,
         NEW k \in Nat
  PROVE  Led(o, a, next, k + 1)
           <=> \E p \in Orgs : Led(o, p, next, k) /\ a \in next[p]
<1>1. ASSUME Led(o, a, next, k + 1)
      PROVE  \E p \in Orgs : Led(o, p, next, k) /\ a \in next[p]
  <2>1. PICK s : Path(s, k + 1, next) /\ s[0] = o /\ s[k + 1] = a
    BY <1>1 DEF Led
  <2> DEFINE t == [i \in 0 .. k |-> s[i]]
  <2>2. t \in [0 .. k -> Orgs] /\ t[0] = o /\ t[k] = s[k]
    BY <2>1 DEF Path
  <2>3. \A i \in 0 .. k - 1 :
          i \in 0 .. (k + 1) - 1 /\ t[i] = s[i] /\ t[i + 1] = s[i + 1]
    OBVIOUS
  <2> HIDE DEF t
  <2>4. Led(o, s[k], next, k)
    BY <2>1, <2>2, <2>3 DEF Led, Path
  <2>5. k \in 0 .. (k + 1) - 1
    OBVIOUS
  <2>6. s[k] \in Orgs /\ a \in next[s[k]]
    BY <2>1, <2>5 DEF Path
  <2> QED BY <2>4, <2>6
<1>2. ASSUME NEW p \in Orgs, Led(o, p, next, k), a \in next[p]
      PROVE  Led(o, a, next, k + 1)
  <2>1. PICK s : Path(s, k, next) /\ s[0] = o /\ s[k] = p
    BY <1>2 DEF Led
  <2> DEFINE t == [i \in 0 .. k + 1 |-> IF i = k + 1 THEN a ELSE s[i]]
  <2>2. /\ t \in [0 .. k + 1 -> Orgs] /\ t[0] = o /\ t[k + 1] = a
        /\ t[k] = p
    BY <2>1 DEF Path
  <2>3. \A i \in 0 .. k - 1 : t[i] = s[i] /\ t[i + 1] = s[i + 1]
    OBVIOUS
  <2> HIDE DEF t
  <2>4. ASSUME NEW i \in 0 .. (k + 1) - 1 PROVE t[i + 1] \in next[t[i]]
    <3>1. CASE i = k
      BY <1>2, <2>2, <3>1
    <3>2. CASE i # k
      <4>1. i \in 0 .. k - 1
        BY <3>2
      <4> QED BY <2>1, <2>3, <4>1 DEF Path
    <3> QED BY <3>1, <3>2
  <2> QED BY <2>2, <2>4 DEF Led, Path
<1> QED BY <1>1, <1>2

(* A path turned round.                                                    *)
Converse(next) == [p \in Orgs |-> {c \in Orgs : p \in next[c]}]

LEMMA LedBack ==
  ASSUME NEW next \in Relations, NEW o \in Orgs, NEW a \in Orgs,
         NEW k \in Nat, Led(o, a, next, k)
  PROVE  Led(a, o, Converse(next), k)
<1>1. PICK s : Path(s, k, next) /\ s[0] = o /\ s[k] = a
  BY DEF Led
<1> DEFINE t == [i \in 0 .. k |-> s[k - i]]
<1>2. t \in [0 .. k -> Orgs] /\ t[0] = a /\ t[k] = o
  BY <1>1 DEF Path
<1>3. ASSUME NEW i \in 0 .. k - 1
      PROVE  t[i + 1] \in Converse(next)[t[i]]
  <2> DEFINE j == k - (i + 1)
  <2>1. j \in 0 .. k - 1 /\ j \in 0 .. k /\ j + 1 \in 0 .. k /\ k - i = j + 1
    OBVIOUS
  <2>2. t[i] = s[j + 1] /\ t[i + 1] = s[j]
    BY <2>1
  <2> HIDE DEF t, j
  <2>3. s[j] \in Orgs /\ s[j + 1] \in Orgs /\ s[j + 1] \in next[s[j]]
    BY <1>1, <2>1 DEF Path
  <2> QED BY <2>2, <2>3 DEF Converse
<1> HIDE DEF t
<1> QED BY <1>2, <1>3 DEF Led, Path

(* With a depth of n a query returns what paths of up to n + 1 steps lead  *)
(* to.                                                                     *)
LEMMA ReachIsLed ==
  ASSUME NEW next \in Relations, NEW o \in Orgs
  PROVE  \A n \in 0 .. MaxRecurses : \A a \in Orgs :
           a \in Reach(o, next)[n] <=> \E k \in 1 .. n + 1 : Led(o, a, next, k)
<1> DEFINE r == Reach(o, next)
<1> DEFINE L(a, k) == Led(o, a, next, k)
<1>1. /\ r \in [0 .. MaxRecurses -> SUBSET Orgs]
      /\ r[0] = next[o]
      /\ \A n \in 1 .. MaxRecurses :
           r[n] = r[n - 1] \cup UNION {next[p] : p \in r[n - 1]}
  BY ReachStep
<1>2. \A a \in Orgs : L(a, 1) <=> a \in next[o]
  BY LedOnce
<1>3. \A a \in Orgs, k \in Nat :
        L(a, k + 1) <=> \E p \in Orgs : L(p, k) /\ a \in next[p]
  BY LedOn
<1>4. MaxRecurses \in Nat
  BY SettingsAssumption
<1> SUFFICES \A n \in 0 .. MaxRecurses : \A a \in Orgs :
               a \in r[n] <=> \E k \in 1 .. n + 1 : L(a, k)
  OBVIOUS
<1> HIDE DEF r, L
<1> DEFINE P(n) == \A a \in Orgs : a \in r[n] <=> \E k \in 1 .. n + 1 : L(a, k)
<1> DEFINE T == {n \in Nat : n \in 0 .. MaxRecurses => P(n)}
<1>5. 0 \in T
  <2>1. \A k \in 1 .. 0 + 1 : k = 1
    OBVIOUS
  <2>2. 1 \in 1 .. 0 + 1
    OBVIOUS
  <2> QED BY <1>1, <1>2, <2>1, <2>2
<1>6. ASSUME NEW n \in Nat, n \in T PROVE n + 1 \in T
  <2> SUFFICES ASSUME n + 1 \in 0 .. MaxRecurses PROVE P(n + 1)
    OBVIOUS
  <2>1. n \in 0 .. MaxRecurses /\ n + 1 \in 1 .. MaxRecurses
        /\ (n + 1) - 1 = n
    BY <1>4
  <2>2. P(n) /\ r[n] \subseteq Orgs
    BY <1>1, <1>6, <2>1
  <2>3. r[n + 1] = r[n] \cup UNION {next[p] : p \in r[n]}
    BY <1>1, <2>1
  <2>4. ASSUME NEW a \in Orgs, a \in r[n + 1]
        PROVE  \E k \in 1 .. (n + 1) + 1 : L(a, k)
    <3>1. CASE a \in r[n]
      <4>1. PICK k \in 1 .. n + 1 : L(a, k)
        BY <2>2, <3>1
      <4>2. k \in 1 .. (n + 1) + 1
        OBVIOUS
      <4> QED BY <4>1, <4>2
    <3>2. CASE a \notin r[n]
      <4>1. PICK p \in r[n] : a \in next[p]
        BY <2>3, <2>4, <3>2
      <4>2. p \in Orgs
        BY <2>2
      <4>3. PICK k \in 1 .. n + 1 : L(p, k)
        BY <2>2, <4>2
      <4>4. k \in Nat /\ k + 1 \in 1 .. (n + 1) + 1
        OBVIOUS
      <4>5. L(a, k + 1)
        BY <1>3, <4>1, <4>2, <4>3, <4>4
      <4> QED BY <4>4, <4>5
    <3> QED BY <3>1, <3>2
  <2>5. ASSUME NEW a \in Orgs, NEW k \in 1 .. (n + 1) + 1, L(a, k)
        PROVE  a \in r[n + 1]
    <3>1. CASE k = 1
      <4>1. 1 \in 1 .. n + 1
        OBVIOUS
      <4> QED BY <2>2, <2>3, <2>5, <3>1, <4>1
    <3>2. CASE k # 1
      <4>1. k - 1 \in Nat /\ k - 1 \in 1 .. n + 1 /\ (k - 1) + 1 = k
        BY <3>2
      <4>2. PICK p \in Orgs : L(p, k - 1) /\ a \in next[p]
        BY <1>3, <2>5, <4>1
      <4>3. p \in r[n]
        BY <2>2, <4>1, <4>2
      <4> QED BY <2>3, <4>2, <4>3
    <3> QED BY <3>1, <3>2
  <2> QED BY <2>4, <2>5
<1>7. T \subseteq Nat
  OBVIOUS
<1> HIDE DEF P
<1>8. T = Nat
  <2> HIDE DEF T
  <2> QED BY <1>5, <1>6, <1>7, Induction
<1>9. \A n \in 0 .. MaxRecurses : P(n)
  BY <1>4, <1>8
<1> QED BY <1>9 DEF P

(* All that is reached.                                                    *)
Reached(o, next) == Reach(o, next)[MaxRecurses]

LEMMA ReachedIsLed ==
  ASSUME NEW next \in Relations, NEW o \in Orgs
  PROVE  /\ Reached(o, next) \subseteq Orgs
         /\ \A a \in Orgs :
              a \in Reached(o, next)
                <=> \E k \in 1 .. MaxRecurses + 1 : Led(o, a, next, k)
<1>1. MaxRecurses \in Nat /\ MaxRecurses \in 0 .. MaxRecurses
  BY SettingsAssumption
<1>2. Reached(o, next) \subseteq Orgs
  BY <1>1, ReachStep DEF Reached
<1> QED BY <1>1, <1>2, ReachIsLed DEF Reached

(* What is reached is what some row leads to.                              *)
LEMMA ReachedIn ==
  ASSUME NEW next \in Relations, NEW o \in Orgs,
         NEW S, \A p \in Orgs : next[p] \subseteq S
  PROVE  Reached(o, next) \subseteq S
<1> SUFFICES ASSUME NEW a \in Reached(o, next) PROVE a \in S
  OBVIOUS
<1>1. a \in Orgs
  BY ReachedIsLed
<1>2. MaxRecurses \in Nat
  BY SettingsAssumption
<1>3. PICK k \in 1 .. MaxRecurses + 1 : Led(o, a, next, k)
  BY <1>1, ReachedIsLed
<1>4. CASE k = 1
  BY <1>1, <1>3, <1>4, LedOnce
<1>5. CASE k # 1
  <2>1. k - 1 \in Nat /\ (k - 1) + 1 = k
    BY <1>2
  <2>2. Led(o, a, next, (k - 1) + 1)
    BY <1>3, <2>1
  <2>3. PICK p \in Orgs : a \in next[p]
    BY <1>1, <2>1, <2>2, LedOn
  <2> QED BY <2>3
<1> QED BY <1>4, <1>5

(* Fewer rows lead to less.                                                *)
LEMMA ReachedFewer ==
  ASSUME NEW next \in Relations, NEW after \in Relations, NEW o \in Orgs,
         \A p \in Orgs : after[p] \subseteq next[p]
  PROVE  Reached(o, after) \subseteq Reached(o, next)
<1>1. ASSUME NEW a \in Orgs, NEW k \in 1 .. MaxRecurses + 1,
             Led(o, a, after, k)
      PROVE  Led(o, a, next, k)
  <2>1. MaxRecurses \in Nat
    BY SettingsAssumption
  <2>2. PICK s : Path(s, k, after) /\ s[0] = o /\ s[k] = a
    BY <1>1 DEF Led
  <2>3. \A i \in 0 .. k - 1 : s[i] \in Orgs /\ s[i + 1] \in after[s[i]]
    BY <2>1, <2>2 DEF Path
  <2>4. Path(s, k, next)
    BY <2>2, <2>3 DEF Path
  <2> QED BY <2>2, <2>4 DEF Led
<1>2. Reached(o, after) \subseteq Orgs
  BY ReachedIsLed
<1> QED BY <1>1, <1>2, ReachedIsLed

(* A change of rows that are not met on the way is not noticed.            *)
LEMMA ReachedKept ==
  ASSUME NEW next \in Relations, NEW after \in Relations, NEW o \in Orgs,
         \A p \in {o} \cup Reached(o, next) : after[p] = next[p]
  PROVE  Reached(o, after) = Reached(o, next)
<1> DEFINE r == Reach(o, next)
           q == Reach(o, after)
<1>1. MaxRecurses \in Nat
  BY SettingsAssumption
<1>2. /\ r[0] = next[o]
      /\ \A n \in 1 .. MaxRecurses :
           r[n] = r[n - 1] \cup UNION {next[p] : p \in r[n - 1]}
  BY ReachStep
<1>3. /\ q[0] = after[o]
      /\ \A n \in 1 .. MaxRecurses :
           q[n] = q[n - 1] \cup UNION {after[p] : p \in q[n - 1]}
  BY ReachStep
<1>4. ASSUME NEW n \in 0 .. MaxRecurses PROVE r[n] \subseteq Reached(o, next)
  <2>1. r[n] \subseteq Orgs
    BY ReachStep
  <2> SUFFICES ASSUME NEW a \in r[n] PROVE a \in Reached(o, next)
    OBVIOUS
  <2>2. PICK k \in 1 .. n + 1 : Led(o, a, next, k)
    BY <2>1, ReachIsLed
  <2>3. k \in 1 .. MaxRecurses + 1
    BY <1>1
  <2> QED BY <2>1, <2>2, <2>3, ReachedIsLed
<1> DEFINE T == {n \in Nat : n \in 0 .. MaxRecurses => q[n] = r[n]}
<1>5. 0 \in T
  BY <1>2, <1>3
<1>6. ASSUME NEW n \in Nat, n \in T PROVE n + 1 \in T
  <2> SUFFICES ASSUME n + 1 \in 0 .. MaxRecurses PROVE q[n + 1] = r[n + 1]
    OBVIOUS
  <2> HIDE DEF r, q
  <2>1. n \in 0 .. MaxRecurses /\ n + 1 \in 1 .. MaxRecurses
        /\ (n + 1) - 1 = n
    BY <1>1
  <2>2. q[n] = r[n] /\ r[n] \subseteq Reached(o, next)
    BY <1>4, <1>6, <2>1
  <2>3. \A p \in r[n] : after[p] = next[p]
    BY <2>2
  <2>4. /\ r[n + 1] = r[n] \cup UNION {next[p] : p \in r[n]}
        /\ q[n + 1] = r[n] \cup UNION {after[p] : p \in r[n]}
    BY <1>2, <1>3, <2>1, <2>2
  <2> QED BY <2>3, <2>4
<1>7. T \subseteq Nat
  OBVIOUS
<1>8. T = Nat
  <2> HIDE DEF T
  <2> QED BY <1>5, <1>6, <1>7, Induction
<1>9. MaxRecurses \in T
  BY <1>1, <1>8
<1>10. MaxRecurses \in 0 .. MaxRecurses
  BY <1>1
<1> QED BY <1>9, <1>10 DEF Reached

(* One organization is reached upwards where the other is downwards.       *)
LEMMA ReachedBack ==
  ASSUME NEW next \in Relations, NEW o \in Orgs, NEW a \in Orgs
  PROVE  a \in Reached(o, next) <=> o \in Reached(a, Converse(next))
<1>1. Converse(next) \in Relations
  BY DEF Converse, Relations
<1>2. Converse(Converse(next)) = next
  <2>1. \A p, c \in Orgs : p \in Converse(next)[c] <=> c \in next[p]
    BY DEF Converse
  <2>2. ASSUME NEW p \in Orgs
        PROVE  Converse(Converse(next))[p] = next[p]
    <3>1. Converse(Converse(next))[p] = {c \in Orgs : p \in Converse(next)[c]}
      BY DEF Converse
    <3>2. next[p] \subseteq Orgs
      BY DEF Relations
    <3> QED BY <2>1, <3>1, <3>2
  <2>3. next = [p \in Orgs |-> next[p]]
    BY DEF Relations
  <2>4. Converse(Converse(next)) = [p \in Orgs |-> Converse(Converse(next))[p]]
    BY DEF Converse
  <2> QED BY <2>2, <2>3, <2>4
<1>3. MaxRecurses \in Nat
  BY SettingsAssumption
<1>4. \A k \in 1 .. MaxRecurses + 1 : k \in Nat
  BY <1>3
<1>5. \A k \in 1 .. MaxRecurses + 1 :
        Led(o, a, next, k) <=> Led(a, o, Converse(next), k)
  BY <1>1, <1>2, <1>4, LedBack
<1> QED BY <1>1, <1>5, ReachedIsLed

LEMMA FollowIs ==
  ASSUME NEW o \in Orgs
  PROVE  /\ Ancestors(o) = Reached(o, parents) \cap ActiveOrgs
         /\ Descendants(o) = Reached(o, Converse(parents)) \cap ActiveOrgs
BY DEF Ancestors, Descendants, Follow, Reached, Children, Converse

-----------------------------------------------------------------------------
(* Types, and what rows may name                                           *)

(* Organizations are placed under organizations that exist: rows are       *)
(* written below existing ones and forgotten before their parent is gone.  *)
NoStray == \A o \in Orgs : parents[o] \subseteq KnownOrgs

Inv == TypeOK /\ NoStray

Package ==
  [state : {"absent", "active", "draft", "deleted"}, private : BOOLEAN,
   owner : Orgs \cup {NoOrg}, creator : Users \cup {Nobody}]

LEMMA TypeInit == Init => Inv
<1> SUFFICES ASSUME Init PROVE Inv
  OBVIOUS
<1>1. NoRoles \in [Users -> Roles \cup {"none"}]
  BY DEF NoRoles
<1>2. TypeOK
  BY <1>1 DEF Init, TypeOK
<1>3. NoStray
  BY DEF Init, NoStray
<1> QED BY <1>2, <1>3 DEF Inv

LEMMA PackageStays ==
  ASSUME NEW p \in Package
  PROVE  /\ \A o \in Orgs \cup {NoOrg} : [p EXCEPT !.owner = o] \in Package
         /\ \A b \in BOOLEAN : [p EXCEPT !.private = b] \in Package
         /\ \A t \in {"active", "draft", "deleted"} :
              [p EXCEPT !.state = t] \in Package
<1>1. ASSUME NEW o \in Orgs \cup {NoOrg} PROVE [p EXCEPT !.owner = o] \in Package
  BY DEF Package
<1>2. ASSUME NEW b \in BOOLEAN PROVE [p EXCEPT !.private = b] \in Package
  BY DEF Package
<1>3. ASSUME NEW t \in {"active", "draft", "deleted"}
      PROVE  [p EXCEPT !.state = t] \in Package
  BY DEF Package
<1> QED BY <1>1, <1>2, <1>3

LEMMA GiveUpTyped ==
  ASSUME TypeOK, NEW me \in Users, NEW o \in Orgs, GiveUp(me, o)
  PROVE  dataset' \in [Datasets -> Package]
<1>1. \A d \in Datasets :
        /\ dataset[d] \in Package
        /\ [dataset[d] EXCEPT !.owner = NoOrg] \in Package
  <2>1. dataset \in [Datasets -> Package]
    BY DEF TypeOK, Package
  <2> QED BY <2>1, PackageStays
<1> QED BY <1>1 DEF GiveUp

LEMMA ForgetTyped ==
  ASSUME TypeOK, NEW o \in Orgs, ForgetRows(o)
  PROVE  /\ role' \in [Orgs -> [Users -> Roles \cup {"none"}]]
         /\ parents' \in [Orgs -> SUBSET Orgs]
         /\ \A p \in Orgs : parents'[p] \subseteq parents[p] \ {o}
<1>1. NoRoles \in [Users -> Roles \cup {"none"}]
  BY DEF NoRoles
<1>2. role' \in [Orgs -> [Users -> Roles \cup {"none"}]]
  BY <1>1 DEF TypeOK, ForgetRows
<1>3. \A p \in Orgs : parents[p] \in SUBSET Orgs
  BY DEF TypeOK
<1>4. parents' \in [Orgs -> SUBSET Orgs]
  BY <1>3 DEF ForgetRows
<1>5. \A p \in Orgs : parents'[p] \subseteq parents[p] \ {o}
  BY DEF ForgetRows
<1> QED BY <1>2, <1>4, <1>5

(* What requests do to the tables that say who belongs where.              *)
LEMMA TypeStepOrgs ==
  ASSUME Inv, NEW me \in Users, NEW o \in Orgs,
         \/ \E ps \in SUBSET Orgs : OrganizationCreate(me, o, ps)
         \/ \E ps \in SUBSET Orgs, state \in {"active", "deleted"} :
              OrganizationUpdate(me, o, ps, state)
         \/ \E byName \in BOOLEAN : OrganizationDelete(me, o, byName)
         \/ OrganizationPurge(me, o)
  PROVE  Inv'
<1> USE DEF Inv
<1>1. ASSUME NEW ps \in SUBSET Orgs, OrganizationCreate(me, o, ps) PROVE Inv'
  <2>1. /\ org' \in [Orgs -> {"absent", "active", "deleted", "purged"}]
        /\ parents' \in [Orgs -> SUBSET Orgs]
        /\ KnownOrgs \subseteq KnownOrgs'
    BY <1>1 DEF TypeOK, OrganizationCreate, KnownOrgs
  <2>2. role' \in [Orgs -> [Users -> Roles \cup {"none"}]]
    BY <1>1 DEF TypeOK, OrganizationCreate, Roles
  <2>3. TypeOK'
    BY <1>1, <2>1, <2>2 DEF TypeOK, OrganizationCreate
  <2>4. \A p \in Orgs : parents'[p] \subseteq KnownOrgs
    BY <1>1 DEF TypeOK, NoStray, OrganizationCreate
  <2> QED BY <2>1, <2>3, <2>4 DEF NoStray
<1>2. ASSUME NEW ps \in SUBSET Orgs, NEW state \in {"active", "deleted"},
             OrganizationUpdate(me, o, ps, state)
      PROVE  Inv'
  <2>1. /\ org' \in [Orgs -> {"absent", "active", "deleted", "purged"}]
        /\ parents' \in [Orgs -> SUBSET Orgs]
        /\ KnownOrgs \subseteq KnownOrgs'
    BY <1>2 DEF TypeOK, OrganizationUpdate, KnownOrgs
  <2>2. TypeOK'
    BY <1>2, <2>1 DEF TypeOK, OrganizationUpdate
  <2>3. ps \subseteq KnownOrgs
    BY <1>2 DEF OrganizationUpdate, AllowedParents, ActiveOrgs, KnownOrgs
  <2>4. \A p \in Orgs : parents'[p] \subseteq KnownOrgs
    BY <1>2, <2>3 DEF TypeOK, NoStray, OrganizationUpdate
  <2> QED BY <2>1, <2>2, <2>4 DEF NoStray
<1>3. ASSUME NEW byName \in BOOLEAN, OrganizationDelete(me, o, byName)
      PROVE  Inv'
  <2>1. /\ org' \in [Orgs -> {"absent", "active", "deleted", "purged"}]
        /\ KnownOrgs \subseteq KnownOrgs'
    BY <1>3 DEF TypeOK, OrganizationDelete, KnownOrgs
  <2>2. dataset' \in [Datasets -> Package]
    BY <1>3, GiveUpTyped DEF OrganizationDelete
  <2>3. /\ role' \in [Orgs -> [Users -> Roles \cup {"none"}]]
        /\ parents' \in [Orgs -> SUBSET Orgs]
        /\ \A p \in Orgs : parents'[p] \subseteq parents[p]
    BY <1>3, ForgetTyped DEF OrganizationDelete, TypeOK
  <2>4. TypeOK'
    BY <1>3, <2>1, <2>2, <2>3 DEF TypeOK, OrganizationDelete, Package
  <2> QED BY <2>1, <2>3, <2>4 DEF NoStray
<1>4. ASSUME OrganizationPurge(me, o) PROVE Inv'
  <2>1. /\ org' \in [Orgs -> {"absent", "active", "deleted", "purged"}]
        /\ KnownOrgs \ {o} \subseteq KnownOrgs'
    BY <1>4 DEF TypeOK, OrganizationPurge, KnownOrgs
  <2>2. dataset' \in [Datasets -> Package]
    BY <1>4, GiveUpTyped DEF OrganizationPurge
  <2>3. /\ role' \in [Orgs -> [Users -> Roles \cup {"none"}]]
        /\ parents' \in [Orgs -> SUBSET Orgs]
        /\ \A p \in Orgs : parents'[p] \subseteq parents[p] \ {o}
    BY <1>4, ForgetTyped DEF OrganizationPurge
  <2>4. TypeOK'
    BY <1>4, <2>1, <2>2, <2>3 DEF TypeOK, OrganizationPurge, Package
  <2> QED BY <2>1, <2>3, <2>4 DEF NoStray
<1> QED BY <1>1, <1>2, <1>3, <1>4

LEMMA TypeStepUsers ==
  ASSUME Inv, NEW me \in Users, NEW u \in Users,
         \/ \E o \in Orgs, r \in Roles : MemberCreate(me, o, u, r)
         \/ \E o \in Orgs : MemberDelete(me, o, u)
         \/ \E d \in Datasets, r \in Roles : CollaboratorCreate(me, d, u, r)
         \/ \E d \in Datasets : CollaboratorDelete(me, d, u)
         \/ UserDelete(me, u)
         \/ UserRestore(me, u)
  PROVE  Inv'
<1> USE DEF Inv
<1> DEFINE Marks == [Users -> Roles \cup {"none"}]
<1>1. UNCHANGED <<org, parents>>
  BY DEF MemberCreate, MemberDelete, CollaboratorCreate, CollaboratorDelete,
         UserDelete, UserRestore
<1>2. NoStray'
  BY <1>1 DEF NoStray, KnownOrgs
<1>3. role' \in [Orgs -> Marks] /\ collaborator' \in [Datasets -> Marks]
  <2>1. role \in [Orgs -> Marks] /\ collaborator \in [Datasets -> Marks]
        /\ "none" \in Roles \cup {"none"}
    BY DEF TypeOK
  <2> HIDE DEF Marks
  <2>2. ASSUME NEW o \in Orgs, NEW r \in Roles, MemberCreate(me, o, u, r)
        PROVE  role' \in [Orgs -> Marks] /\ collaborator' = collaborator
    BY <2>1, <2>2 DEF MemberCreate, Marks
  <2>3. ASSUME NEW o \in Orgs, MemberDelete(me, o, u)
        PROVE  role' \in [Orgs -> Marks] /\ collaborator' = collaborator
    BY <2>1, <2>3 DEF MemberDelete, Marks
  <2>4. ASSUME NEW d \in Datasets, NEW r \in Roles,
               CollaboratorCreate(me, d, u, r)
        PROVE  role' = role /\ collaborator' \in [Datasets -> Marks]
    BY <2>1, <2>4 DEF CollaboratorCreate, Marks
  <2>5. ASSUME NEW d \in Datasets, CollaboratorDelete(me, d, u)
        PROVE  role' = role /\ collaborator' \in [Datasets -> Marks]
    BY <2>1, <2>5 DEF CollaboratorDelete, Marks
  <2>6. CASE UserDelete(me, u)
    <3>1. \A m \in Marks : [m EXCEPT ![u] = "none"] \in Marks
      BY DEF Marks
    <3> QED BY <2>1, <2>6, <3>1 DEF UserDelete
  <2>7. CASE UserRestore(me, u)
    BY <2>1, <2>7 DEF UserRestore
  <2> QED BY <2>1, <2>2, <2>3, <2>4, <2>5, <2>6, <2>7
<1>4. account' \in [Users -> {"active", "deleted"}]
  BY DEF TypeOK, MemberCreate, MemberDelete, CollaboratorCreate,
         CollaboratorDelete, UserDelete, UserRestore
<1>5. dataset' = dataset /\ actor' = me
  BY DEF MemberCreate, MemberDelete, CollaboratorCreate, CollaboratorDelete,
         UserDelete, UserRestore
<1> QED BY <1>1, <1>2, <1>3, <1>4, <1>5 DEF TypeOK

LEMMA TypeStepDatasets ==
  ASSUME Inv, NEW me \in Users,
         \/ \E d \in Datasets, o \in Orgs \cup {NoOrg}, private \in BOOLEAN,
              state \in {"active", "draft"} :
              PackageCreate(me, d, o, private, state)
         \/ \E d \in Datasets, o \in Orgs \cup {NoOrg}, private \in BOOLEAN,
              state \in {"active", "draft", "deleted"} :
              PackageUpdate(me, d, o, private, state)
         \/ \E d \in Datasets : PackageDelete(me, d)
         \/ \E d \in Datasets, o \in Orgs \cup {NoOrg} :
              PackageOwnerOrgUpdate(me, d, o)
         \/ \E o \in Orgs, chosen \in SUBSET Datasets, private \in BOOLEAN :
              BulkUpdate(me, o, chosen, "private", private)
         \/ \E o \in Orgs, chosen \in SUBSET Datasets :
              BulkUpdate(me, o, chosen, "state", "deleted")
  PROVE  Inv'
<1> USE DEF Inv
<1>1. UNCHANGED <<account, org, parents, role>> /\ actor' = me
  BY DEF PackageCreate, PackageUpdate, PackageDelete, PackageOwnerOrgUpdate,
         BulkUpdate
<1>2. NoStray'
  BY <1>1 DEF NoStray, KnownOrgs
<1>3. NoRoles \in [Users -> Roles \cup {"none"}]
  BY DEF NoRoles
<1>4. collaborator' \in [Datasets -> [Users -> Roles \cup {"none"}]]
  BY <1>3 DEF TypeOK, PackageCreate, PackageUpdate, PackageDelete,
              PackageOwnerOrgUpdate, BulkUpdate
<1>5. dataset \in [Datasets -> Package]
  BY DEF TypeOK, Package
<1>6. dataset' \in [Datasets -> Package]
  <2>1. ASSUME NEW d \in Datasets, NEW o \in Orgs \cup {NoOrg},
               NEW private \in BOOLEAN, NEW state \in {"active", "draft"},
               PackageCreate(me, d, o, private, state)
        PROVE  dataset' \in [Datasets -> Package]
    BY <1>5, <2>1 DEF PackageCreate, Package
  <2>2. ASSUME NEW d \in Datasets, NEW o \in Orgs \cup {NoOrg},
               NEW private \in BOOLEAN,
               NEW state \in {"active", "draft", "deleted"},
               PackageUpdate(me, d, o, private, state)
        PROVE  dataset' \in [Datasets -> Package]
    <3>1. dataset[d] \in Package /\ [dataset[d] EXCEPT !.owner = o] \in Package
      BY <1>5, PackageStays
    <3>2. [dataset[d] EXCEPT !.owner = o, !.private = private] \in Package
      BY <3>1, PackageStays
    <3>3. [dataset[d] EXCEPT !.owner = o, !.private = private,
                             !.state = state] \in Package
      BY <3>2, PackageStays
    <3>4. dataset' = [dataset EXCEPT ![d] =
                        [dataset[d] EXCEPT !.owner = o, !.private = private,
                                           !.state = state]]
      BY <1>5, <2>2 DEF PackageUpdate
    <3> QED BY <1>5, <3>3, <3>4
  <2>3. ASSUME NEW d \in Datasets, PackageDelete(me, d)
        PROVE  dataset' \in [Datasets -> Package]
    BY <1>5, <2>3 DEF PackageDelete, Package
  <2>4. ASSUME NEW d \in Datasets, NEW o \in Orgs \cup {NoOrg},
               PackageOwnerOrgUpdate(me, d, o)
        PROVE  dataset' \in [Datasets -> Package]
    BY <1>5, <2>4 DEF PackageOwnerOrgUpdate, Package
  <2>5. ASSUME NEW o \in Orgs, NEW chosen \in SUBSET Datasets,
               NEW private \in BOOLEAN,
               BulkUpdate(me, o, chosen, "private", private)
        PROVE  dataset' \in [Datasets -> Package]
    <3>1. \A d \in Datasets :
            [dataset[d] EXCEPT !["private"] = private] \in Package
      BY <1>5 DEF Package
    <3> QED BY <1>5, <2>5, <3>1 DEF BulkUpdate
  <2>6. ASSUME NEW o \in Orgs, NEW chosen \in SUBSET Datasets,
               BulkUpdate(me, o, chosen, "state", "deleted")
        PROVE  dataset' \in [Datasets -> Package]
    <3>1. \A d \in Datasets :
            [dataset[d] EXCEPT !["state"] = "deleted"] \in Package
      BY <1>5 DEF Package
    <3> QED BY <1>5, <2>6, <3>1 DEF BulkUpdate
  <2> QED BY <2>1, <2>2, <2>3, <2>4, <2>5, <2>6
<1> QED BY <1>1, <1>2, <1>4, <1>6 DEF TypeOK, Package

LEMMA TypeStep == Inv /\ [Next]_vars => Inv'
<1> SUFFICES ASSUME Inv, [Next]_vars PROVE Inv'
  OBVIOUS
<1>1. ASSUME NEW me \in Users, OrganizationStep(me) PROVE Inv'
  <2>1. NamesToo \in BOOLEAN /\ Invitees \subseteq Users
    BY SettingsAssumption
  <2> QED BY <1>1, <2>1, TypeStepOrgs, TypeStepUsers, TypeStepDatasets
          DEF OrganizationStep
<1>2. ASSUME NEW me \in Users, DatasetStep(me) PROVE Inv'
  <2>1. States \subseteq {"active", "draft", "deleted"} /\ Invitees \subseteq Users
    BY SettingsAssumption
  <2> QED BY <1>2, <2>1, TypeStepUsers, TypeStepDatasets DEF DatasetStep
<1>3. ASSUME NEW me \in Users, UserStep(me) PROVE Inv'
  BY <1>3, SettingsAssumption, TypeStepUsers DEF UserStep
<1>4. CASE UNCHANGED vars
  BY <1>4 DEF vars, Inv, TypeOK, NoStray, KnownOrgs
<1> QED BY <1>1, <1>2, <1>3, <1>4 DEF Next

LEMMA InvHolds == Spec => []Inv
BY TypeInit, TypeStep, PTL DEF Spec

(* Every reachable state of the tables is well typed: no request, whatever *)
(* the settings, stores a value of another kind.                           *)
THEOREM TypeCorrect == Spec => []TypeOK
<1>1. Inv => TypeOK
  BY DEF Inv
<1> QED BY <1>1, InvHolds, PTL

-----------------------------------------------------------------------------
(* The two look-ups                                                        *)

LEMMA RolesAre ==
  /\ RolesWith("update") = {"admin"}
  /\ RolesWith("update_dataset") = {"admin", "editor"}
  /\ RolesWith("read") = Roles
BY DEF RolesWith, Permissions, Roles

(* A role is found above an organization exactly if the organization is    *)
(* found below one where the user has it, if those are all active.         *)
LEMMA LookupsAgree ==
  ASSUME TypeOK, NEW o \in ActiveOrgs, NEW u \in Users \ Sysadmins,
         InActiveOrgs(u)
  PROVE  HasPermission(o, u, "read") <=> o \in OrganizationsFor(u, "read")
<1>1. parents \in Relations /\ o \in Orgs /\ o \in KnownOrgs
  BY DEF TypeOK, Relations, ActiveOrgs, KnownOrgs
<1>2. ASSUME NEW a \in Orgs, role[a][u] \in Roles
      PROVE  a \in Ancestors(o) <=> o \in Descendants(a)
  <2>1. a \in ActiveOrgs
    BY <1>2 DEF InActiveOrgs, ActiveOrgs, Roles
  <2>2. a \in Reached(o, parents) <=> o \in Reached(a, Converse(parents))
    BY <1>1, ReachedBack
  <2> QED BY <1>1, <2>1, <2>2, FollowIs
<1>3. Ancestors(o) \subseteq Orgs
  BY <1>1, FollowIs, ReachedIsLed
<1>4. HasPermission(o, u, "read")
        <=> \/ role[o][u] \in Roles
            \/ \E a \in Ancestors(o) : role[a][u] \in Cascading \cap Roles
  BY <1>1, RolesAre DEF HasPermission
<1>5. o \in OrganizationsFor(u, "read")
        <=> \/ role[o][u] \in Roles
            \/ \E a \in Orgs : /\ role[a][u] \in Cascading \cap Roles
                               /\ o \in Descendants(a)
  BY <1>1, RolesAre DEF OrganizationsFor
<1> QED BY <1>2, <1>3, <1>4, <1>5

(* For any hierarchy, however deep, and any settings: the labels that      *)
(* package_show and the search compare let those read a dataset of an      *)
(* active organization whom the look-up of roles lets, and whoever may     *)
(* change it may see it.                                                   *)
THEOREM LabelsFollowRoles == Spec => []ShowMatchesRoles
<1>1. TypeOK => ShowMatchesRoles
  <2> SUFFICES ASSUME TypeOK, NEW d \in Datasets, NEW u \in Users,
                      Settled(d), InActiveOrgs(u)
               PROVE  /\ ~Public(d) =>
                           (MayShow(u, d) <=> Authorized(u,
                              \/ HasPermission(dataset[d].owner, u, "read")
                              \/ IsCollaborator(u, d, Roles)))
                      /\ MayUpdate(u, d) => MayShow(u, d)
    BY DEF ShowMatchesRoles
  <2> DEFINE o == dataset[d].owner
  <2>1. o \in ActiveOrgs /\ o # NoOrg /\ o \in Orgs
    BY SettingsAssumption DEF Settled, ActiveOrgs
  <2>2. CASE u \in Sysadmins
    BY <2>2 DEF MayShow, Authorized, MayUpdate
  <2>3. CASE u \notin Sysadmins
    <3>1. HasPermission(o, u, "read") <=> o \in OrganizationsFor(u, "read")
      BY <2>1, <2>3, LookupsAgree
    <3>2. ASSUME ~Public(d)
          PROVE  DatasetLabels(d) \cap UserLabels(u) # {}
                   <=> \/ HasPermission(o, u, "read")
                       \/ IsCollaborator(u, d, Roles)
      <4>1. DatasetLabels(d) = {<<"collaborator", d>>, <<"member", o>>}
        BY <2>1, <3>2 DEF DatasetLabels
      <4>2. <<"collaborator", d>> \in UserLabels(u)
              <=> IsCollaborator(u, d, Roles)
        BY DEF UserLabels
      <4>3. <<"member", o>> \in UserLabels(u)
              <=> o \in OrganizationsFor(u, "read")
        BY DEF UserLabels
      <4> QED BY <3>1, <4>1, <4>2, <4>3
    <3>3. ASSUME Public(d) PROVE DatasetLabels(d) \cap UserLabels(u) # {}
      BY <3>3 DEF DatasetLabels, UserLabels
    <3>4. HasPermission(o, u, "update_dataset") => HasPermission(o, u, "read")
      BY RolesAre DEF HasPermission, Roles
    <3>5. IsCollaborator(u, d, {"admin", "editor"})
            => IsCollaborator(u, d, Roles)
      BY DEF IsCollaborator, Roles
    <3>6. MayUpdate(u, d) =>
            account[u] # "deleted"
              /\ (\/ HasPermission(o, u, "update_dataset")
                  \/ IsCollaborator(u, d, {"admin", "editor"}))
      BY <2>1, <2>3 DEF MayUpdate, Authorized
    <3>7. MayShow(u, d) <=>
            account[u] # "deleted" /\ DatasetLabels(d) \cap UserLabels(u) # {}
      BY <2>3 DEF MayShow, Authorized
    <3> QED BY <2>3, <3>2, <3>3, <3>4, <3>5, <3>6, <3>7 DEF Authorized
  <2> QED BY <2>2, <2>3
<1> QED BY <1>1, TypeCorrect, PTL

-----------------------------------------------------------------------------
(* Power                                                                   *)

(* Fewer rows on the way lead to less.                                     *)
LEMMA ReachedFewerMet ==
  ASSUME NEW next \in Relations, NEW after \in Relations, NEW o \in Orgs,
         \A p \in {o} \cup Reached(o, next) : after[p] \subseteq next[p]
  PROVE  Reached(o, after) \subseteq Reached(o, next)
<1> DEFINE met == {o} \cup Reached(o, next)
           mid == [p \in Orgs |-> IF p \in met THEN next[p] ELSE after[p]]
<1>1. mid \in Relations /\ met \subseteq Orgs
  BY ReachedIsLed DEF Relations
<1>2. \A p \in met : mid[p] = next[p]
  BY <1>1
<1>3. \A p \in Orgs : after[p] \subseteq mid[p]
  OBVIOUS
<1> HIDE DEF mid
<1>4. Reached(o, mid) = Reached(o, next)
  BY <1>1, <1>2, ReachedKept
<1>5. Reached(o, after) \subseteq Reached(o, mid)
  BY <1>1, <1>3, ReachedFewer
<1> QED BY <1>4, <1>5

LEMMA UpdateIsAdmin ==
  ASSUME NEW o \in Orgs, NEW u \in Users \ Sysadmins
  PROVE  /\ HasPermission(o, u, "update")
              <=> /\ o \in KnownOrgs
                  /\ \/ role[o][u] = "admin"
                     \/ /\ "admin" \in Cascading
                        /\ \E a \in Reached(o, parents) \cap ActiveOrgs :
                             role[a][u] = "admin"
         /\ HasPermission(o, u, "update")'
              => \/ role'[o][u] = "admin"
                 \/ /\ "admin" \in Cascading
                    /\ \E a \in Reached(o, parents') :
                         org'[a] = "active" /\ role'[a][u] = "admin"
<1>1. HasPermission(o, u, "update")
        <=> /\ o \in KnownOrgs
            /\ \/ role[o][u] = "admin"
               \/ \E a \in Ancestors(o) :
                    role[a][u] \in Cascading \cap {"admin"}
  BY RolesAre DEF HasPermission
<1>2. HasPermission(o, u, "update")'
        => \/ role'[o][u] = "admin"
           \/ \E a \in Ancestors(o)' : role'[a][u] \in Cascading \cap {"admin"}
  BY RolesAre DEF HasPermission, RolesWith
<1>3. Ancestors(o)' = Reached(o, parents') \cap ActiveOrgs'
  BY DEF Ancestors, Follow, Reached
<1>4. \A a \in ActiveOrgs' : org'[a] = "active"
  BY DEF ActiveOrgs
<1> QED BY <1>1, <1>2, <1>3, <1>4, FollowIs

(* Those above exist.                                                      *)
LEMMA AboveKnown ==
  ASSUME Inv, NEW o \in KnownOrgs
  PROVE  Above(o) \subseteq KnownOrgs /\ o \in Above(o)
<1>1. parents \in Relations /\ o \in Orgs
  BY DEF Inv, TypeOK, Relations, KnownOrgs
<1>2. Reached(o, parents) \subseteq KnownOrgs
  BY <1>1, ReachedIn DEF Inv, NoStray
<1> QED BY <1>2 DEF Above, Reached

(* To gain power over an organization, the user gets the role, or a row or *)
(* an organization becomes active, there or above.                         *)
LEMMA PowerFromAbove ==
  ASSUME Inv, Inv', NEW o \in KnownOrgs, NEW u \in Users \ Sysadmins,
         ~HasPermission(o, u, "update"), HasPermission(o, u, "update")'
  PROVE  \E p \in Above(o) :
           \/ org'[p] = "active" /\ org[p] # "active"
           \/ ~(parents'[p] \subseteq parents[p])
           \/ role'[p][u] = "admin" /\ role[p][u] # "admin"
<1> SUFFICES ASSUME \A p \in Above(o) :
                      /\ org'[p] = "active" => org[p] = "active"
                      /\ parents'[p] \subseteq parents[p]
                      /\ role'[p][u] = "admin" => role[p][u] = "admin"
             PROVE  FALSE
  OBVIOUS
<1>1. parents \in Relations /\ parents' \in Relations /\ o \in Orgs
  BY DEF Inv, TypeOK, Relations, KnownOrgs
<1>2. o \in Above(o)
  BY AboveKnown
<1>3. role'[o][u] # "admin" /\ role[o][u] # "admin"
  BY <1>1, <1>2, UpdateIsAdmin
<1>4. PICK a \in Reached(o, parents') :
        "admin" \in Cascading /\ org'[a] = "active" /\ role'[a][u] = "admin"
  BY <1>1, <1>3, UpdateIsAdmin
<1>5. Above(o) = {o} \cup Reached(o, parents)
  BY <1>4 DEF Above, Reached
<1>6. a \in Reached(o, parents)
  BY <1>1, <1>5, ReachedFewerMet
<1>7. a \in Orgs
  BY <1>1, <1>6, ReachedIsLed
<1>8. a \in ActiveOrgs /\ role[a][u] = "admin"
  BY <1>4, <1>5, <1>6, <1>7 DEF ActiveOrgs
<1> QED BY <1>1, <1>4, <1>6, <1>8, UpdateIsAdmin

LEMMA AdministersHas ==
  ASSUME NEW me \in Users, NEW o \in KnownOrgs, MayAdminister(me, o)
  PROVE  HasPermission(o, me, "update")
BY DEF MayAdminister, Authorized, HasPermission

(* Rows are forgotten without giving anybody a role or a parent.           *)
LEMMA ForgetShrinks ==
  ASSUME TypeOK, NEW o \in Orgs,
         ForgetRows(o) \/ UNCHANGED <<role, parents>>
  PROVE  \A p \in Orgs :
           /\ parents'[p] \subseteq parents[p]
           /\ \A u \in Users : role'[p][u] = "admin" => role[p][u] = "admin"
<1>1. CASE ForgetRows(o)
  BY <1>1 DEF ForgetRows, NoRoles, TypeOK
<1>2. CASE UNCHANGED <<role, parents>>
  BY <1>2
<1> QED BY <1>1, <1>2

LEMMA DatasetRequest ==
  ASSUME NEW me \in Users, DatasetStep(me)
  PROVE  actor' = me /\ UNCHANGED <<org, parents, role>>
<1> DEFINE Goal == actor' = me /\ UNCHANGED <<org, parents, role>>
<1>1. ASSUME NEW d, NEW o, NEW private, NEW state,
             \/ PackageCreate(me, d, o, private, state)
             \/ PackageUpdate(me, d, o, private, state)
      PROVE  Goal
  BY <1>1 DEF PackageCreate, PackageUpdate
<1>2. ASSUME NEW d, NEW o,
             PackageDelete(me, d) \/ PackageOwnerOrgUpdate(me, d, o)
      PROVE  Goal
  BY <1>2 DEF PackageDelete, PackageOwnerOrgUpdate
<1>3. ASSUME NEW d, NEW u, NEW r,
             CollaboratorCreate(me, d, u, r) \/ CollaboratorDelete(me, d, u)
      PROVE  Goal
  BY <1>3 DEF CollaboratorCreate, CollaboratorDelete
<1> HIDE DEF Goal
<1>4. Goal
  BY <1>1, <1>2, <1>3 DEF DatasetStep
<1> QED BY <1>4 DEF Goal

LEMMA PowerStep ==
  ASSUME Inv, Inv', NEW o \in KnownOrgs, NEW u \in Users \ Sysadmins,
         ~HasPermission(o, u, "update"), HasPermission(o, u, "update")',
         NEW me \in Users, actor' = me,
         OrganizationStep(me) \/ DatasetStep(me) \/ UserStep(me)
  PROVE  \E p \in Above(o) : HasPermission(p, me, "update")
<1>1. PICK p \in Above(o) :
        \/ org'[p] = "active" /\ org[p] # "active"
        \/ ~(parents'[p] \subseteq parents[p])
        \/ role'[p][u] = "admin" /\ role[p][u] # "admin"
  BY PowerFromAbove
<1>2. p \in KnownOrgs /\ p \in Orgs /\ TypeOK /\ Invitees \subseteq Users
  BY AboveKnown, SettingsAssumption DEF KnownOrgs, Inv
<1>3. ASSUME UNCHANGED <<org, parents, role>> PROVE FALSE
  BY <1>1, <1>3
<1> SUFFICES HasPermission(p, me, "update")
  OBVIOUS
<1>4. ASSUME NEW q \in Orgs, NEW ps \in SUBSET Orgs,
             OrganizationCreate(me, q, ps)
      PROVE  FALSE
  <2>1. q # p
    BY <1>2, <1>4 DEF OrganizationCreate, KnownOrgs
  <2>2. /\ org'[p] = org[p] /\ parents'[p] = parents[p]
        /\ role'[p] = role[p]
    BY <1>2, <1>4, <2>1 DEF OrganizationCreate, TypeOK
  <2> QED BY <1>1, <2>2
<1>5. ASSUME NEW q \in Orgs, NEW ps \in SUBSET Orgs,
             NEW state \in {"active", "deleted"},
             OrganizationUpdate(me, q, ps, state)
      PROVE  HasPermission(p, me, "update")
  <2>1. /\ p # q => org'[p] = org[p] /\ parents'[p] = parents[p]
        /\ role' = role
    BY <1>2, <1>5 DEF OrganizationUpdate, TypeOK
  <2>2. p = q
    BY <1>1, <2>1
  <2> QED BY <1>2, <1>5, <2>2, AdministersHas DEF OrganizationUpdate
<1>6. ASSUME NEW q \in Orgs, NEW state \in {"deleted", "purged"},
             org' = [org EXCEPT ![q] = state],
             ForgetRows(q) \/ UNCHANGED <<role, parents>>
      PROVE  FALSE
  <2>1. org'[p] = "active" => org[p] = "active"
    BY <1>2, <1>6 DEF TypeOK
  <2>2. /\ parents'[p] \subseteq parents[p]
        /\ role'[p][u] = "admin" => role[p][u] = "admin"
    BY <1>2, <1>6, ForgetShrinks
  <2> QED BY <1>1, <2>1, <2>2
<1>7. ASSUME NEW q \in Orgs, NEW byName \in BOOLEAN,
             OrganizationDelete(me, q, byName)
      PROVE  FALSE
  BY <1>6, <1>7 DEF OrganizationDelete
<1>8. ASSUME NEW q \in Orgs, OrganizationPurge(me, q) PROVE FALSE
  BY <1>6, <1>8 DEF OrganizationPurge
<1>9. ASSUME NEW q \in Orgs, NEW v \in Users, NEW r \in Roles,
             MemberCreate(me, q, v, r)
      PROVE  HasPermission(p, me, "update")
  <2>1. /\ org' = org /\ parents' = parents
        /\ p # q => role'[p] = role[p]
    BY <1>2, <1>9 DEF MemberCreate, TypeOK
  <2>2. p = q
    BY <1>1, <2>1
  <2> QED BY <1>2, <1>9, <2>2, AdministersHas DEF MemberCreate
<1>10. ASSUME NEW q \in Orgs, NEW v \in Users, MemberDelete(me, q, v)
       PROVE  FALSE
  <2>1. /\ org' = org /\ parents' = parents
        /\ role'[p][u] = "admin" => role[p][u] = "admin"
    BY <1>2, <1>10 DEF MemberDelete, TypeOK
  <2> QED BY <1>1, <2>1
<1>11. ASSUME NEW v \in Users, UserDelete(me, v) PROVE FALSE
  <2>1. /\ org' = org /\ parents' = parents
        /\ role'[p][u] = "admin" => role[p][u] = "admin"
    BY <1>2, <1>11 DEF UserDelete, TypeOK
  <2> QED BY <1>1, <2>1
<1>12. ASSUME NEW v \in Users, UserRestore(me, v) PROVE FALSE
  BY <1>3, <1>12 DEF UserRestore
<1>13. ASSUME DatasetStep(me) PROVE FALSE
  BY <1>3, <1>13, DatasetRequest
<1>14. ASSUME NEW q \in Orgs, NEW chosen \in SUBSET Datasets, NEW field,
              NEW value, BulkUpdate(me, q, chosen, field, value)
       PROVE  FALSE
  BY <1>3, <1>14 DEF BulkUpdate
<1>15. NamesToo \in BOOLEAN
  BY SettingsAssumption
<1>16. CASE OrganizationStep(me)
  BY <1>2, <1>4, <1>5, <1>7, <1>8, <1>9, <1>10, <1>14, <1>15, <1>16
     DEF OrganizationStep
<1>17. CASE UserStep(me)
  BY <1>2, <1>11, <1>12, <1>17 DEF UserStep
<1> QED BY <1>13, <1>16, <1>17

LEMMA ActorIs ==
  ASSUME NEW me \in Users,
         OrganizationStep(me) \/ DatasetStep(me) \/ UserStep(me)
  PROVE  actor' = me
<1>1. CASE OrganizationStep(me)
  BY <1>1 DEF OrganizationStep, OrganizationCreate, OrganizationUpdate,
              OrganizationDelete, OrganizationPurge, MemberCreate,
              MemberDelete, BulkUpdate
<1>2. CASE DatasetStep(me)
  BY <1>2, DatasetRequest
<1>3. CASE UserStep(me)
  BY <1>3 DEF UserStep, UserDelete, UserRestore
<1> QED BY <1>1, <1>2, <1>3

(* Whoever comes to administer an organization that exists does so by a    *)
(* request of one who administered it or one above it: no request, at any  *)
(* depth of any hierarchy and under any settings, takes power that nobody  *)
(* in the line had to give.                                                *)
THEOREM PowerComesFromPower == Spec => PowerIsGiven
<1>1. Inv /\ Inv' /\ [Next]_vars =>
        [\A o \in KnownOrgs, u \in Users \ Sysadmins :
           ~HasPermission(o, u, "update") /\ HasPermission(o, u, "update")' =>
             \E p \in Above(o) : HasPermission(p, actor', "update")]_vars
  <2> SUFFICES ASSUME Inv, Inv', Next,
                      NEW o \in KnownOrgs, NEW u \in Users \ Sysadmins,
                      ~HasPermission(o, u, "update"),
                      HasPermission(o, u, "update")'
               PROVE  \E p \in Above(o) : HasPermission(p, actor', "update")
    OBVIOUS
  <2>1. PICK me \in Users :
          OrganizationStep(me) \/ DatasetStep(me) \/ UserStep(me)
    BY DEF Next
  <2>2. actor' = me
    BY <2>1, ActorIs
  <2>3. \E p \in Above(o) : HasPermission(p, me, "update")
    BY <2>1, <2>2, PowerStep
  <2> QED BY <2>2, <2>3
<1> QED BY <1>1, InvHolds, PTL DEF Spec, PowerIsGiven

-----------------------------------------------------------------------------
(* Private datasets                                                        *)

LEMMA LossStep ==
  ASSUME TypeOK, Next, NEW d \in Datasets,
         dataset'[d].private, dataset'[d].owner = NoOrg,
         dataset[d].state # "absent", ~dataset[d].private
  PROVE  dataset[d].owner # NoOrg
<1> SUFFICES ASSUME dataset[d].owner = NoOrg PROVE FALSE
  OBVIOUS
<1>1. dataset \in [Datasets -> Package] /\ NoOrg \notin Orgs
  BY SettingsAssumption DEF TypeOK, Package
<1>2. ASSUME dataset'[d] = dataset[d] PROVE FALSE
  BY <1>2
<1>3. ASSUME NEW me, NEW o \in Orgs, GiveUp(me, o) PROVE FALSE
  <2>1. d \notin Owned(o)
    BY <1>1 DEF Owned
  <2> QED BY <1>2, <1>3, <2>1 DEF GiveUp
<1>4. ASSUME NEW me, NEW e \in Datasets, NEW o, NEW private, NEW state,
             PackageCreate(me, e, o, private, state)
      PROVE  FALSE
  BY <1>1, <1>2, <1>4 DEF PackageCreate
<1>5. ASSUME NEW me, NEW e \in Datasets, NEW o, NEW private, NEW state,
             PackageUpdate(me, e, o, private, state)
      PROVE  FALSE
  <2>1. CASE e = d
    <3>1. dataset'[d].private = private /\ dataset'[d].owner = o
      BY <1>1, <1>5, <2>1 DEF PackageUpdate, Package
    <3> QED BY <1>5, <2>1, <3>1 DEF PackageUpdate, PrivateAccepted
  <2>2. CASE e # d
    BY <1>1, <1>2, <1>5, <2>2 DEF PackageUpdate
  <2> QED BY <2>1, <2>2
<1>6. ASSUME NEW me, NEW e \in Datasets, PackageDelete(me, e) PROVE FALSE
  BY <1>1, <1>6 DEF PackageDelete, Package
<1>7. ASSUME NEW me, NEW e \in Datasets, NEW o, PackageOwnerOrgUpdate(me, e, o)
      PROVE  FALSE
  BY <1>1, <1>7 DEF PackageOwnerOrgUpdate, Package
<1>8. ASSUME NEW me, NEW o \in Orgs, NEW chosen, NEW field, NEW value,
             BulkUpdate(me, o, chosen, field, value)
      PROVE  FALSE
  BY <1>1, <1>2, <1>8 DEF BulkUpdate
<1>9. ASSUME NEW me \in Users, OrganizationStep(me) PROVE FALSE
  BY <1>2, <1>3, <1>8, <1>9
     DEF OrganizationStep, OrganizationCreate, OrganizationUpdate,
         OrganizationDelete, OrganizationPurge, MemberCreate, MemberDelete
<1>10. ASSUME NEW me \in Users, DatasetStep(me) PROVE FALSE
  BY <1>2, <1>4, <1>5, <1>6, <1>7, <1>10
     DEF DatasetStep, CollaboratorCreate, CollaboratorDelete
<1>11. ASSUME NEW me \in Users, UserStep(me) PROVE FALSE
  BY <1>2, <1>11 DEF UserStep, UserDelete, UserRestore
<1> QED BY <1>9, <1>10, <1>11 DEF Next

(* No request turns an ownerless dataset private, whatever the settings:   *)
(* the validator reads the dataset as stored, and all requests that go     *)
(* round it keep what is private or whose it is.                           *)
THEOREM PrivateNeedsOwner == Spec => PrivateUnownedByLoss
<1>1. Inv /\ [Next]_vars =>
        [\A d \in Datasets :
           dataset'[d].private /\ dataset'[d].owner = NoOrg
             /\ dataset[d].state # "absent"
           => dataset[d].private \/ dataset[d].owner # NoOrg]_vars
  BY LossStep DEF Inv
<1> QED BY <1>1, InvHolds, PTL DEF Spec, PrivateUnownedByLoss
=============================================================================
