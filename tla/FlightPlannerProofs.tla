-------------------------- MODULE FlightPlannerProofs --------------------------
(***************************************************************************)
(* Proofs about FlightPlanner: sorting a path loses no action of it and    *)
(* forgets their order, so a propagation that carries its path takes no    *)
(* action twice and one change is owed one receipt for each next action.   *)
(***************************************************************************)
EXTENDS FlightPlanner, WellFoundedInduction, FiniteSetTheorems, SequenceTheorems, TLAPS

-----------------------------------------------------------------------------
(* Induction over sets of naturals, in place of predicates.                *)

LEMMA LeastNatural ==
    ASSUME NEW S, S \subseteq Nat, S # {}
    PROVE  \E n \in S : \A m \in Nat : m < n => m \notin S
<1> DEFINE R == OpToRel(<, Nat)
<1>1. ASSUME NEW m \in Nat, NEW n \in Nat, m < n
      PROVE  <<m, n>> \in R
  BY <1>1 DEF OpToRel
<1>2. IsWellFoundedOn(R, Nat)
  BY NatLessThanWellFounded
<1> HIDE DEF R
<1>3. PICK n \in S : \A m \in S : ~(<<m, n>> \in R)
  BY <1>2, WFMin
<1>4. QED  BY <1>1, <1>3

LEMMA InductiveSet ==
    ASSUME NEW S, 0 \in S, \A n \in Nat : n \in S => n + 1 \in S
    PROVE  Nat \subseteq S
<1> SUFFICES ASSUME Nat \ S # {}
             PROVE  FALSE
  OBVIOUS
<1>1. PICK n \in Nat \ S : \A m \in Nat : m < n => m \notin Nat \ S
  BY LeastNatural
<1>2. n # 0 /\ n - 1 \in Nat /\ n - 1 < n
  BY <1>1
<1>3. n - 1 \in S
  BY <1>1, <1>2
<1>4. QED  BY <1>2, <1>3

-----------------------------------------------------------------------------
(* How often an action is in a path, and how many there are up to it.      *)

At(s, e) == {i \in DOMAIN s : s[i] = e}

LEMMA Counts ==
    ASSUME NEW s \in Seq(Nat), NEW e \in Nat
    PROVE  /\ IsFiniteSet(Below(s, e)) /\ Cardinality(Below(s, e)) \in Nat
           /\ IsFiniteSet(UpTo(s, e)) /\ Cardinality(UpTo(s, e)) \in Nat
           /\ IsFiniteSet(At(s, e)) /\ Cardinality(At(s, e)) \in Nat
           /\ Cardinality(UpTo(s, e)) = Cardinality(Below(s, e)) + Cardinality(At(s, e))
           /\ Cardinality(UpTo(s, e)) <= Len(s)
<1> DEFINE d == 1 .. Len(s)
<1>1. DOMAIN s = d /\ Len(s) \in Nat /\ \A i \in d : s[i] \in Nat
  OBVIOUS
<1>2. IsFiniteSet(d) /\ Cardinality(d) = Len(s)
  BY <1>1, FS_Interval
<1>3. Below(s, e) \subseteq d /\ UpTo(s, e) \subseteq d /\ At(s, e) \subseteq d
  BY DEF Below, UpTo, At
<1>4. /\ UpTo(s, e) = Below(s, e) \cup At(s, e)
      /\ Below(s, e) \cap At(s, e) = {}
  BY <1>1 DEF Below, UpTo, At
<1> HIDE DEF d
<1>5. /\ IsFiniteSet(Below(s, e)) /\ IsFiniteSet(UpTo(s, e)) /\ IsFiniteSet(At(s, e))
      /\ Cardinality(UpTo(s, e)) <= Len(s)
  BY <1>2, <1>3, FS_Subset
<1>6. /\ Cardinality(Below(s, e)) \in Nat /\ Cardinality(UpTo(s, e)) \in Nat
      /\ Cardinality(At(s, e)) \in Nat
  BY <1>5, FS_CardinalityType
<1>7. Cardinality(Below(s, e) \cup At(s, e))
        = Cardinality(Below(s, e)) + Cardinality(At(s, e)) - Cardinality(Below(s, e) \cap At(s, e))
  BY <1>5, FS_Union
<1>8. Cardinality(Below(s, e) \cap At(s, e)) = 0
  BY <1>4, FS_EmptySet
<1>9. QED  BY <1>4, <1>5, <1>6, <1>7, <1>8

(* What is up to an action is below any greater one.                       *)
LEMMA CountsGrow ==
    ASSUME NEW s \in Seq(Nat), NEW d \in Nat, NEW e \in Nat, d < e
    PROVE  Cardinality(UpTo(s, d)) <= Cardinality(Below(s, e))
<1>1. UpTo(s, d) \subseteq Below(s, e)
  BY DEF UpTo, Below
<1>2. QED  BY <1>1, Counts, FS_Subset

LEMMA CountsAdd ==
    ASSUME NEW s \in Seq(Nat), NEW e \in Nat
    PROVE  Below(s, e + 1) = UpTo(s, e) /\ Below(s, 0) = {}
BY DEF Below, UpTo

(* Some action is at or above every action of a path.                      *)
LEMMA PathIsBounded ==
    ASSUME NEW s \in Seq(Nat)
    PROVE  \E e \in Nat : Cardinality(UpTo(s, e)) = Len(s)
<1> DEFINE S == {k \in Nat : \E e \in Nat : \A i \in DOMAIN s : i <= k => s[i] <= e}
<1>1. 0 \in S
  OBVIOUS
<1>2. ASSUME NEW k \in Nat, k \in S
      PROVE  k + 1 \in S
  <2>1. PICK e \in Nat : \A i \in DOMAIN s : i <= k => s[i] <= e
    BY <1>2
  <2>2. CASE k + 1 \in DOMAIN s /\ s[k + 1] > e
    <3>1. \A i \in DOMAIN s : i <= k + 1 => s[i] <= s[k + 1]
      BY <2>1, <2>2
    <3>2. QED  BY <2>2, <3>1
  <2>3. CASE ~(k + 1 \in DOMAIN s /\ s[k + 1] > e)
    <3>1. \A i \in DOMAIN s : i <= k + 1 => s[i] <= e
      BY <2>1, <2>3
    <3>2. QED  BY <3>1
  <2>4. QED  BY <2>2, <2>3
<1> HIDE DEF S
<1>3. Len(s) \in S
  BY <1>1, <1>2, InductiveSet
<1>4. PICK e \in Nat : \A i \in DOMAIN s : i <= Len(s) => s[i] <= e
  BY <1>3 DEF S
<1>5. UpTo(s, e) = 1 .. Len(s)
  BY <1>4 DEF UpTo
<1>6. Cardinality(1 .. Len(s)) = Len(s)
  <2>1. Len(s) \in Nat /\ Len(s) \in Int /\ 1 \in Int
    OBVIOUS
  <2> DEFINE n == Len(s)
  <2> HIDE DEF n
  <2>2. Cardinality(1 .. n) = IF 1 > n THEN 0 ELSE n - 1 + 1
    BY <2>1, FS_Interval DEF n
  <2>3. QED  BY <2>1, <2>2 DEF n
<1>7. QED  BY <1>5, <1>6

-----------------------------------------------------------------------------
(* Sorting.                                                                *)

Place(s, e, i) == Cardinality(Below(s, e)) < i /\ i <= Cardinality(UpTo(s, e))

(* Exactly one action has its place at i.                                  *)
LEMMA OnePlace ==
    ASSUME NEW s \in Seq(Nat), NEW i \in 1 .. Len(s)
    PROVE  /\ \E e \in ToSet(s) : Place(s, e, i)
           /\ \A d, e \in Nat : Place(s, d, i) /\ Place(s, e, i) => d = e
<1> DEFINE S == {e \in Nat : i <= Cardinality(UpTo(s, e))}
<1>1. S # {}
  <2>1. PICK e \in Nat : Cardinality(UpTo(s, e)) = Len(s)
    BY PathIsBounded
  <2>2. e \in S
    BY <2>1
  <2>3. QED  BY <2>2
<1>2. PICK e \in S : \A d \in Nat : d < e => d \notin S
  BY <1>1, LeastNatural
<1>3. Cardinality(Below(s, e)) < i
  <2>1. CASE e = 0
    <3>1. Below(s, 0) = {}
      BY CountsAdd
    <3>2. Cardinality(Below(s, e)) = 0
      BY <2>1, <3>1, FS_EmptySet
    <3>3. QED  BY <3>2
  <2>2. CASE e # 0
    <3>1. e - 1 \in Nat /\ e - 1 < e /\ (e - 1) + 1 = e
      BY <2>2
    <3>2. ~(i <= Cardinality(UpTo(s, e - 1)))
      BY <1>2, <3>1
    <3>3. Below(s, e) = UpTo(s, e - 1)
      BY <3>1, CountsAdd
    <3>4. Cardinality(UpTo(s, e - 1)) \in Nat
      BY <3>1, Counts
    <3>5. QED  BY <3>2, <3>3, <3>4
  <2>3. QED  BY <2>1, <2>2
<1>4. Place(s, e, i)
  BY <1>2, <1>3 DEF Place
<1>5. e \in ToSet(s)
  <2>1. UpTo(s, e) # Below(s, e)
    BY <1>4, Counts DEF Place
  <2>2. PICK j \in DOMAIN s : s[j] = e
    BY <2>1 DEF UpTo, Below
  <2>3. QED  BY <2>2 DEF ToSet
<1>6. ASSUME NEW c \in Nat, NEW d \in Nat, Place(s, c, i), Place(s, d, i)
      PROVE  c = d
  <2>1. ASSUME NEW x \in Nat, NEW y \in Nat, Place(s, x, i), Place(s, y, i), x < y
        PROVE  FALSE
    <3>1. Cardinality(UpTo(s, x)) <= Cardinality(Below(s, y))
      BY <2>1, CountsGrow
    <3>2. Cardinality(UpTo(s, x)) \in Nat /\ Cardinality(Below(s, y)) \in Nat
      BY Counts
    <3>3. QED  BY <2>1, <3>1, <3>2 DEF Place
  <2>2. QED  BY <1>6, <2>1
<1>7. QED  BY <1>4, <1>5, <1>6

LEMMA ActionsAreNumbers ==
    ASSUME NEW s \in Seq(Nat)
    PROVE  ToSet(s) \subseteq Nat /\ \A e : e \in ToSet(s) <=> At(s, e) # {}
BY DEF ToSet, At

LEMMA SortedPlaces ==
    ASSUME NEW s \in Seq(Nat)
    PROVE  /\ Sorted(s) \in Seq(ToSet(s)) /\ Len(Sorted(s)) = Len(s)
           /\ \A i \in 1 .. Len(s) : Place(s, Sorted(s)[i], i)
<1> DEFINE at(i) == CHOOSE e \in ToSet(s) : Place(s, e, i)
<1>1. Sorted(s) = [i \in 1 .. Len(s) |-> at(i)]
  BY DEF Sorted, Place
<1>2. ASSUME NEW i \in 1 .. Len(s)
      PROVE  at(i) \in ToSet(s) /\ Place(s, at(i), i)
  BY OnePlace
<1>3. \A i \in 1 .. Len(s) : Sorted(s)[i] \in ToSet(s) /\ Place(s, Sorted(s)[i], i)
  BY <1>1, <1>2
<1>4. QED  BY <1>1, <1>3

(* A sorted path has every action as often as it was given.                *)
LEMMA SortedKeepsCounts ==
    ASSUME NEW s \in Seq(Nat), NEW e \in Nat
    PROVE  Cardinality(At(Sorted(s), e)) = Cardinality(At(s, e))
<1> DEFINE low == Cardinality(Below(s, e))
           high == Cardinality(UpTo(s, e))
<1>1. /\ low \in Nat /\ high \in Nat /\ high <= Len(s)
      /\ high = low + Cardinality(At(s, e)) /\ Cardinality(At(s, e)) \in Nat
  BY Counts
<1>2. DOMAIN Sorted(s) = 1 .. Len(s)
  BY DEF Sorted
<1>3. ASSUME NEW i \in 1 .. Len(s)
      PROVE  Sorted(s)[i] = e <=> i \in (low + 1) .. high
  <2>1. Place(s, Sorted(s)[i], i) /\ Sorted(s)[i] \in Nat
    BY SortedPlaces, ActionsAreNumbers
  <2>2. Place(s, e, i) <=> i \in (low + 1) .. high
    BY <1>1 DEF Place
  <2>3. Place(s, e, i) => Sorted(s)[i] = e
    BY <2>1, OnePlace
  <2>4. QED  BY <2>1, <2>2, <2>3
<1>4. (low + 1) .. high \subseteq 1 .. Len(s)
  BY <1>1
<1> HIDE DEF low, high
<1>5. At(Sorted(s), e) = (low + 1) .. high
  BY <1>2, <1>3, <1>4 DEF At
<1>6. low + 1 \in Int /\ high \in Int
  BY <1>1
<1>7. Cardinality((low + 1) .. high) = IF low + 1 > high THEN 0 ELSE high - (low + 1) + 1
  BY <1>6, FS_Interval
<1>8. QED  BY <1>1, <1>5, <1>7

-----------------------------------------------------------------------------
(* Paths of the same actions, whatever their order.                        *)

LEMMA PathsAreOfNumbers ==
    ASSUME NEW s \in Seq(Edges)
    PROVE  s \in Seq(Nat)
<1>1. Len(s) \in Nat /\ s = [i \in 1 .. Len(s) |-> s[i]] /\ \A i \in 1 .. Len(s) : s[i] \in Edges
  OBVIOUS
<1>2. \A i \in 1 .. Len(s) : s[i] \in Nat
  BY <1>1, PlannerAssumption
<1>3. QED  BY <1>1, <1>2

LEMMA SameCounts ==
    ASSUME NEW s \in Seq(Edges), NEW t \in Seq(Edges), SameActions(s, t), NEW e \in Nat
    PROVE  Cardinality(At(s, e)) = Cardinality(At(t, e))
<1>1. CASE e \in Edges
  BY <1>1 DEF SameActions, At
<1>2. CASE e \notin Edges
  <2>1. At(s, e) = {} /\ At(t, e) = {}
    BY <1>2 DEF At
  <2>2. QED  BY <2>1
<1>3. QED  BY <1>1, <1>2

LEMMA SameUpTo ==
    ASSUME NEW s \in Seq(Edges), NEW t \in Seq(Edges), SameActions(s, t), NEW e \in Nat
    PROVE  /\ Cardinality(UpTo(s, e)) = Cardinality(UpTo(t, e))
           /\ Cardinality(Below(s, e)) = Cardinality(Below(t, e))
<1> DEFINE S == {n \in Nat : Cardinality(Below(s, n)) = Cardinality(Below(t, n))}
<1>0. s \in Seq(Nat) /\ t \in Seq(Nat)
  BY PathsAreOfNumbers
<1>1. ASSUME NEW n \in Nat, n \in S
      PROVE  Cardinality(UpTo(s, n)) = Cardinality(UpTo(t, n))
  <2>1. Cardinality(At(s, n)) = Cardinality(At(t, n))
    BY SameCounts
  <2>2. Cardinality(Below(s, n)) = Cardinality(Below(t, n))
    BY <1>1
  <2>3. Cardinality(UpTo(s, n)) = Cardinality(Below(s, n)) + Cardinality(At(s, n))
    BY <1>0, Counts
  <2>4. Cardinality(UpTo(t, n)) = Cardinality(Below(t, n)) + Cardinality(At(t, n))
    BY <1>0, Counts
  <2>5. QED  BY <2>1, <2>2, <2>3, <2>4
<1>2. 0 \in S
  <2>1. Below(s, 0) = {} /\ Below(t, 0) = {}
    BY <1>0, CountsAdd
  <2>2. QED  BY <2>1
<1>3. ASSUME NEW n \in Nat, n \in S
      PROVE  n + 1 \in S
  <2>1. Below(s, n + 1) = UpTo(s, n) /\ Below(t, n + 1) = UpTo(t, n)
    BY <1>0, CountsAdd
  <2>2. QED  BY <1>1, <1>3, <2>1
<1>4. e \in S
  <2> HIDE DEF S
  <2>1. QED  BY <1>2, <1>3, InductiveSet
<1>5. QED  BY <1>1, <1>4

LEMMA SameLength ==
    ASSUME NEW s \in Seq(Edges), NEW t \in Seq(Edges), SameActions(s, t)
    PROVE  Len(s) = Len(t)
<1>0. s \in Seq(Nat) /\ t \in Seq(Nat)
  BY PathsAreOfNumbers
<1>1. ASSUME NEW u \in Seq(Edges), NEW v \in Seq(Edges), SameActions(u, v)
      PROVE  Len(u) <= Len(v)
  <2>1. u \in Seq(Nat) /\ v \in Seq(Nat)
    BY PathsAreOfNumbers
  <2>2. PICK e \in Nat : Cardinality(UpTo(u, e)) = Len(u)
    BY <2>1, PathIsBounded
  <2>3. Cardinality(UpTo(u, e)) = Cardinality(UpTo(v, e))
    BY <1>1, SameUpTo
  <2>4. Cardinality(UpTo(v, e)) <= Len(v)
    BY <2>1, Counts
  <2>5. QED  BY <2>2, <2>3, <2>4
<1>2. SameActions(t, s)
  BY DEF SameActions
<1>3. Len(s) <= Len(t) /\ Len(t) <= Len(s)
  BY <1>1, <1>2
<1>4. QED  BY <1>3

(* Sorting forgets the order.                                              *)
LEMMA SameSorted ==
    ASSUME NEW s \in Seq(Edges), NEW t \in Seq(Edges), SameActions(s, t)
    PROVE  Sorted(s) = Sorted(t)
<1>0. s \in Seq(Nat) /\ t \in Seq(Nat) /\ Len(s) = Len(t)
  BY PathsAreOfNumbers, SameLength
<1>1. ASSUME NEW i \in 1 .. Len(s)
      PROVE  Sorted(s)[i] = Sorted(t)[i]
  <2> DEFINE d == Sorted(s)[i]
             e == Sorted(t)[i]
  <2>1. i \in 1 .. Len(t)
    BY <1>0
  <2>2. Place(s, d, i) /\ d \in Nat
    BY <1>0, SortedPlaces, ActionsAreNumbers
  <2>3. Place(t, e, i) /\ e \in Nat
    BY <1>0, <2>1, SortedPlaces, ActionsAreNumbers
  <2> HIDE DEF d, e
  <2>4. Place(t, d, i)
    <3>1. Cardinality(UpTo(s, d)) = Cardinality(UpTo(t, d))
      BY <2>2, SameUpTo
    <3>2. Cardinality(Below(s, d)) = Cardinality(Below(t, d))
      BY <2>2, SameUpTo
    <3>3. QED  BY <2>2, <3>1, <3>2 DEF Place
  <2>5. d = e
    BY <1>0, <2>1, <2>2, <2>3, <2>4, OnePlace
  <2>6. QED  BY <2>5 DEF d, e
<1>2. /\ Sorted(s) \in Seq(ToSet(s)) /\ Len(Sorted(s)) = Len(s)
      /\ Sorted(t) \in Seq(ToSet(t)) /\ Len(Sorted(t)) = Len(t)
  BY <1>0, SortedPlaces
<1>3. QED  BY <1>0, <1>1, <1>2

LEMMA SortedPath ==
    ASSUME NEW s \in Seq(Edges)
    PROVE  Sorted(s) \in Seq(Edges) /\ SameActions(Sorted(s), s)
<1>0. s \in Seq(Nat)
  BY PathsAreOfNumbers
<1>1. Sorted(s) \in Seq(ToSet(s)) /\ ToSet(s) \subseteq Edges
  BY <1>0, SortedPlaces DEF ToSet
<1>2. ASSUME NEW e \in Edges
      PROVE  Cardinality(At(Sorted(s), e)) = Cardinality(At(s, e))
  <2>1. e \in Nat
    BY PlannerAssumption
  <2>2. QED  BY <1>0, <2>1, SortedKeepsCounts
<1>3. QED  BY <1>1, <1>2 DEF SameActions, At

(* What is on one path is on another of the same actions.                  *)
LEMMA SameMembers ==
    ASSUME NEW s \in Seq(Edges), NEW t \in Seq(Edges), SameActions(s, t)
    PROVE  ToSet(s) = ToSet(t)
<1>1. ASSUME NEW u \in Seq(Edges), NEW v \in Seq(Edges), SameActions(u, v),
             NEW e \in ToSet(u)
      PROVE  e \in ToSet(v)
  <2>1. e \in Edges /\ e \in Nat /\ u \in Seq(Nat) /\ v \in Seq(Nat)
    BY PathsAreOfNumbers, PlannerAssumption DEF ToSet
  <2>2. At(u, e) # {}
    BY DEF ToSet, At
  <2>3. Cardinality(At(u, e)) = Cardinality(At(v, e))
    BY <1>1, <2>1, SameCounts
  <2>4. IsFiniteSet(At(u, e)) /\ IsFiniteSet(At(v, e))
    BY <2>1, Counts
  <2>5. At(v, e) # {}
    BY <2>2, <2>3, <2>4, FS_EmptySet
  <2>6. QED  BY <2>5 DEF ToSet, At
<1>2. SameActions(t, s)
  BY DEF SameActions
<1>3. QED  BY <1>1, <1>2

LEMMA AppendCounts ==
    ASSUME NEW s \in Seq(Edges), NEW d \in Edges, NEW e \in Edges
    PROVE  Cardinality(At(Append(s, d), e)) = Cardinality(At(s, e)) + (IF d = e THEN 1 ELSE 0)
<1>0. s \in Seq(Nat) /\ e \in Nat
  BY PathsAreOfNumbers, PlannerAssumption
<1>1. /\ IsFiniteSet(At(s, e)) /\ Cardinality(At(s, e)) \in Nat
      /\ Len(s) + 1 \notin At(s, e)
  <2>1. IsFiniteSet(At(s, e)) /\ Cardinality(At(s, e)) \in Nat
    BY <1>0, Counts
  <2>2. Len(s) + 1 \notin At(s, e)
    BY DEF At
  <2>3. QED  BY <2>1, <2>2
<1>2. CASE d = e
  <2>1. At(Append(s, d), e) = At(s, e) \cup {Len(s) + 1}
    BY <1>2 DEF At
  <2>2. QED  BY <1>1, <1>2, <2>1, FS_AddElement
<1>3. CASE d # e
  <2>1. At(Append(s, d), e) = At(s, e)
    BY <1>3 DEF At
  <2>2. QED  BY <1>1, <1>3, <2>1
<1>4. QED  BY <1>2, <1>3

LEMMA SameAppended ==
    ASSUME NEW s \in Seq(Edges), NEW t \in Seq(Edges), SameActions(s, t), NEW d \in Edges
    PROVE  SameActions(Append(s, d), Append(t, d))
<1>1. ASSUME NEW e \in Edges
      PROVE  Cardinality(At(Append(s, d), e)) = Cardinality(At(Append(t, d), e))
  <2>1. Cardinality(At(Append(s, d), e)) = Cardinality(At(s, e)) + (IF d = e THEN 1 ELSE 0)
    BY AppendCounts
  <2>2. Cardinality(At(Append(t, d), e)) = Cardinality(At(t, e)) + (IF d = e THEN 1 ELSE 0)
    BY AppendCounts
  <2>3. Cardinality(At(s, e)) = Cardinality(At(t, e))
    BY DEF SameActions, At
  <2>4. QED  BY <2>1, <2>2, <2>3
<1>2. QED  BY <1>1 DEF SameActions, At

LEMMA SameThrough ==
    ASSUME NEW r, NEW s, NEW t, SameActions(r, s), SameActions(s, t)
    PROVE  SameActions(r, t) /\ SameActions(s, r) /\ SameActions(r, r)
BY DEF SameActions

-----------------------------------------------------------------------------
(* What each step of an agent's call makes of the agent.                   *)

Fields == {"phase", "request", "carries", "impact", "relationships", "plan", "followed"}

Shaped == DOMAIN agent = Agents /\ \A a \in Agents : DOMAIN agent[a] = Fields

OnlyAgent(a) ==
    /\ DOMAIN agent' = Agents /\ DOMAIN agent'[a] = Fields
    /\ \A b \in Agents : b # a => agent'[b] = agent[b]

LEMMA TypesAreShapes ==
    ASSUME TypeOK
    PROVE  Shaped
BY DEF TypeOK, Shaped, Fields

LEMMA SetOutFields ==
    ASSUME Shaped, NEW a \in Agents, NEW q, NEW c, SetOut(a, q, c)
    PROVE  /\ OnlyAgent(a) /\ agent[a].phase = "idle" /\ agent'[a].phase = "reading"
           /\ agent'[a].request = q /\ agent'[a].carries = c
           /\ agent'[a].plan = agent[a].plan /\ agent'[a].followed = agent[a].followed
BY DEF Shaped, Fields, OnlyAgent, SetOut

LEMMA RefuseFields ==
    ASSUME Shaped, NEW a \in Agents, Refuse(a)
    PROVE  /\ OnlyAgent(a) /\ agent[a].phase = "reading" /\ agent'[a].phase = "resting"
           /\ agent'[a].request = agent[a].request /\ agent'[a].carries = agent[a].carries
           /\ agent'[a].plan = NoPlan /\ agent'[a].followed = agent[a].followed
BY DEF Shaped, Fields, OnlyAgent, Refuse

LEMMA ReadFields ==
    ASSUME Shaped, NEW a \in Agents, ReadImpact(a) \/ ReadRelationships(a)
    PROVE  /\ OnlyAgent(a) /\ agent[a].phase = "reading" /\ agent'[a].phase = "reading"
           /\ agent'[a].request = agent[a].request /\ agent'[a].carries = agent[a].carries
           /\ agent'[a].plan = agent[a].plan /\ agent'[a].followed = agent[a].followed
BY DEF Shaped, Fields, OnlyAgent, ReadImpact, ReadRelationships

LEMMA AnswerPlanFields ==
    ASSUME Shaped, NEW a \in Agents, AnswerPlan(a)
    PROVE  /\ OnlyAgent(a) /\ agent[a].phase = "reading" /\ agent'[a].phase = "planned"
           /\ agent'[a].request = agent[a].request /\ agent'[a].carries = agent[a].carries
           /\ agent'[a].plan = FlightPlan(agent[a].request, agent[a].impact,
                                          agent[a].relationships)
           /\ agent'[a].followed = agent[a].followed
BY DEF Shaped, Fields, OnlyAgent, AnswerPlan

LEMMA FollowFields ==
    ASSUME Shaped, NEW a \in Agents, NEW e, NEW s, Follow(a, e, s)
    PROVE  /\ OnlyAgent(a) /\ agent[a].phase = "planned" /\ agent'[a].phase = "reading"
           /\ e \in agent[a].plan.proposed
           /\ agent'[a].request = Onward(agent[a], e, s) /\ agent'[a].carries = agent[a].carries
           /\ agent'[a].plan = NoPlan
           /\ agent'[a].followed = Append(agent[a].followed, e)
BY DEF Shaped, Fields, OnlyAgent, Follow

LEMMA RestFields ==
    ASSUME Shaped, NEW a \in Agents, Rest(a)
    PROVE  /\ OnlyAgent(a) /\ agent[a].phase = "planned" /\ agent'[a].phase = "resting"
           /\ agent'[a].request = agent[a].request /\ agent'[a].carries = agent[a].carries
           /\ agent'[a].plan = NoPlan /\ agent'[a].followed = agent[a].followed
BY DEF Shaped, Fields, OnlyAgent, Rest

-----------------------------------------------------------------------------
(* The invariant, agent by agent.                                          *)

AgentKept(mine) ==
    /\ mine.phase \in {"idle", "reading", "planned", "resting"}
    /\ mine.followed \in Seq(Edges) /\ mine.plan.path \in Seq(Edges)
    /\ mine.plan.proposed \subseteq Edges
    /\ mine.phase # "idle" => mine.carries \in Carried /\ RequestFollows(mine)
    /\ mine.phase = "idle" => mine.followed = <<>> /\ mine.carries = {}
    /\ mine.phase = "planned" => PlanFollows(mine)

LEMMA ByAgent ==
    (TypeOK /\ CausationIsCarried)
        <=> (/\ graph \in Views /\ seeded \in Impacts /\ Shaped
             /\ \A a \in Agents : AgentKept(agent[a]))
BY DEF TypeOK, CausationIsCarried, Shaped, Fields, AgentKept

LEMMA ByAgentNext ==
    (TypeOK /\ CausationIsCarried)'
        <=> (/\ graph' \in Views /\ seeded' \in Impacts
             /\ DOMAIN agent' = Agents /\ \A a \in Agents : DOMAIN agent'[a] = Fields
             /\ \A a \in Agents : AgentKept(agent'[a]))
BY DEF TypeOK, CausationIsCarried, Fields, AgentKept

(* A step of one agent leaves the others as they were.                     *)
LEMMA OneAgentSteps ==
    ASSUME TypeOK, CausationIsCarried, NEW a \in Agents, OnlyAgent(a),
           UNCHANGED <<graph, seeded>>, AgentKept(agent'[a])
    PROVE  (TypeOK /\ CausationIsCarried)'
<1>1. /\ graph \in Views /\ seeded \in Impacts /\ Shaped
      /\ \A b \in Agents : AgentKept(agent[b])
  BY ByAgent
<1>2. \A b \in Agents : DOMAIN agent'[b] = Fields /\ AgentKept(agent'[b])
  <2>1. TAKE b \in Agents
  <2>2. CASE b = a
    BY <2>2 DEF OnlyAgent
  <2>3. CASE b # a
    BY <1>1, <2>3 DEF OnlyAgent, Shaped
  <2>4. QED  BY <2>2, <2>3
<1>3. DOMAIN agent' = Agents
  BY DEF OnlyAgent
<1>4. QED  BY <1>1, <1>2, <1>3, ByAgentNext

(* What a request follows from is unchanged if its agent's part is.        *)
LEMMA SameRequestFollows ==
    ASSUME NEW mine, NEW next, RequestFollows(mine), next.request = mine.request,
           next.carries = mine.carries, next.followed = mine.followed
    PROVE  RequestFollows(next)
BY DEF RequestFollows

LEMMA CandidatesAreEdges ==
    ASSUME NEW q, q.targets \subseteq Refs, q.requested \subseteq Edges
    PROVE  Candidates(q) \subseteq Edges
BY PlannerAssumption DEF Candidates

LEMMA EmptyPath ==
    <<>> \in Seq(Edges) /\ Len(<<>>) = 0 /\ SameActions(<<>>, <<>>)
BY DEF SameActions

LEMMA InitKept ==
    ASSUME Init
    PROVE  TypeOK /\ CausationIsCarried
<1>1. graph \in Views /\ seeded \in Impacts /\ Shaped
  BY DEF Init, Shaped, Fields
<1>2. ASSUME NEW a \in Agents
      PROVE  AgentKept(agent[a])
  <2>1. /\ agent[a].phase = "idle" /\ agent[a].carries = {} /\ agent[a].followed = <<>>
        /\ agent[a].plan = NoPlan
    BY DEF Init
  <2>2. NoPlan.path = <<>> /\ NoPlan.proposed = {}
    BY DEF NoPlan
  <2>3. QED  BY <2>1, <2>2, EmptyPath DEF AgentKept
<1>3. QED  BY <1>1, <1>2, ByAgent

LEMMA SetOutKept ==
    ASSUME TypeOK, CausationIsCarried, NEW a \in Agents, NEW q \in Requests,
           NEW c \in Carried, SetOut(a, q, c)
    PROVE  (TypeOK /\ CausationIsCarried)'
<1>1. Shaped /\ AgentKept(agent[a])
  BY ByAgent
<1>2. /\ OnlyAgent(a) /\ agent[a].phase = "idle" /\ agent'[a].phase = "reading"
      /\ agent'[a].request = q /\ agent'[a].carries = c
      /\ agent'[a].plan = agent[a].plan /\ agent'[a].followed = agent[a].followed
  BY <1>1, SetOutFields
<1>3. agent'[a].followed = <<>>
  BY <1>1, <1>2 DEF AgentKept
<1>4. /\ DOMAIN q = {"targets", "summary", "requested", "rationale", "depth", "max", "path",
                  "asOf"}
      /\ q.targets \subseteq Refs /\ q.requested \subseteq Edges
      /\ q.depth = 0 /\ q.path = <<>> /\ q.max \in Nat
  BY PlannerAssumption
<1>5. RequestFollows(agent'[a])
  BY <1>2, <1>3, <1>4, EmptyPath DEF RequestFollows
<1>6. AgentKept(agent'[a])
  BY <1>1, <1>2, <1>5 DEF AgentKept
<1>7. UNCHANGED <<graph, seeded>>
  BY DEF SetOut
<1>8. QED  BY <1>2, <1>6, <1>7, OneAgentSteps

LEMMA RefuseKept ==
    ASSUME TypeOK, CausationIsCarried, NEW a \in Agents, Refuse(a)
    PROVE  (TypeOK /\ CausationIsCarried)'
<1>1. Shaped /\ AgentKept(agent[a])
  BY ByAgent
<1>2. /\ OnlyAgent(a) /\ agent[a].phase = "reading" /\ agent'[a].phase = "resting"
      /\ agent'[a].request = agent[a].request /\ agent'[a].carries = agent[a].carries
      /\ agent'[a].plan = NoPlan /\ agent'[a].followed = agent[a].followed
  BY <1>1, RefuseFields
<1>3. NoPlan.path = <<>> /\ NoPlan.proposed = {}
  BY DEF NoPlan
<1>4. RequestFollows(agent'[a])
  <2>1. RequestFollows(agent[a])
    BY <1>1, <1>2 DEF AgentKept
  <2>2. QED  BY <1>2, <2>1, SameRequestFollows
<1>5. AgentKept(agent'[a])
  BY <1>1, <1>2, <1>3, <1>4, EmptyPath DEF AgentKept
<1>6. UNCHANGED <<graph, seeded>>
  BY DEF Refuse
<1>7. QED  BY <1>2, <1>5, <1>6, OneAgentSteps

LEMMA ReadKept ==
    ASSUME TypeOK, CausationIsCarried, NEW a \in Agents, ReadImpact(a) \/ ReadRelationships(a)
    PROVE  (TypeOK /\ CausationIsCarried)'
<1>1. Shaped /\ AgentKept(agent[a])
  BY ByAgent
<1>2. /\ OnlyAgent(a) /\ agent[a].phase = "reading" /\ agent'[a].phase = "reading"
      /\ agent'[a].request = agent[a].request /\ agent'[a].carries = agent[a].carries
      /\ agent'[a].plan = agent[a].plan /\ agent'[a].followed = agent[a].followed
  BY <1>1, ReadFields
<1>3. RequestFollows(agent'[a])
  <2>1. RequestFollows(agent[a])
    BY <1>1, <1>2 DEF AgentKept
  <2>2. QED  BY <1>2, <2>1, SameRequestFollows
<1>4. AgentKept(agent'[a])
  BY <1>1, <1>2, <1>3 DEF AgentKept
<1>5. UNCHANGED <<graph, seeded>>
  BY DEF ReadImpact, ReadRelationships
<1>6. QED  BY <1>2, <1>4, <1>5, OneAgentSteps

LEMMA AnswerPlanKept ==
    ASSUME TypeOK, CausationIsCarried, NEW a \in Agents, AnswerPlan(a)
    PROVE  (TypeOK /\ CausationIsCarried)'
<1> DEFINE q == agent[a].request
           i == agent[a].impact
           p == FlightPlan(q, i, agent[a].relationships)
<1>1. Shaped /\ AgentKept(agent[a])
  BY ByAgent
<1>2. /\ OnlyAgent(a) /\ agent[a].phase = "reading" /\ agent'[a].phase = "planned"
      /\ agent'[a].request = q /\ agent'[a].carries = agent[a].carries
      /\ agent'[a].plan = p /\ agent'[a].followed = agent[a].followed
  BY <1>1, AnswerPlanFields
<1>3. RequestFollows(agent[a])
  BY <1>1, <1>2 DEF AgentKept
<1>4. RequestFollows(agent'[a])
  BY <1>2, <1>3, SameRequestFollows
<1>5. q.targets \subseteq Refs /\ q.requested \subseteq Edges /\ q.path \in Seq(Edges)
  BY <1>3 DEF RequestFollows
<1>6. /\ p.path = PropagationPath(q) /\ p.proposed = Candidates(q) \ Suppressed(q)
      /\ p.receipts = {ExpectedReceipt(q, e, i) : e \in p.proposed}
  BY DEF FlightPlan
<1>7. p.path \in Seq(Edges) /\ p.proposed \subseteq Edges
  BY <1>5, <1>6, SortedPath, CandidatesAreEdges DEF PropagationPath
<1>8. \A e : ExpectedReceipt(q, e, i).id = RequirementId(q, e)
  BY DEF ExpectedReceipt
<1> HIDE DEF q, i, p
<1>9. PlanFollows(agent'[a])
  BY <1>2, <1>6, <1>8 DEF PlanFollows
<1>10. AgentKept(agent'[a])
  BY <1>1, <1>2, <1>4, <1>7, <1>9 DEF AgentKept
<1>11. UNCHANGED <<graph, seeded>>
  BY DEF AnswerPlan
<1>12. QED  BY <1>2, <1>10, <1>11, OneAgentSteps

LEMMA RestKept ==
    ASSUME TypeOK, CausationIsCarried, NEW a \in Agents, Rest(a)
    PROVE  (TypeOK /\ CausationIsCarried)'
<1>1. Shaped /\ AgentKept(agent[a])
  BY ByAgent
<1>2. /\ OnlyAgent(a) /\ agent[a].phase = "planned" /\ agent'[a].phase = "resting"
      /\ agent'[a].request = agent[a].request /\ agent'[a].carries = agent[a].carries
      /\ agent'[a].plan = NoPlan /\ agent'[a].followed = agent[a].followed
  BY <1>1, RestFields
<1>3. NoPlan.path = <<>> /\ NoPlan.proposed = {}
  BY DEF NoPlan
<1>4. RequestFollows(agent'[a])
  <2>1. RequestFollows(agent[a])
    BY <1>1, <1>2 DEF AgentKept
  <2>2. QED  BY <1>2, <2>1, SameRequestFollows
<1>5. AgentKept(agent'[a])
  BY <1>1, <1>2, <1>3, <1>4, EmptyPath DEF AgentKept
<1>6. UNCHANGED <<graph, seeded>>
  BY DEF Rest
<1>7. QED  BY <1>2, <1>5, <1>6, OneAgentSteps

LEMMA OnwardFields ==
    ASSUME NEW mine, NEW e, NEW s,
           DOMAIN mine.request = {"targets", "summary", "requested", "rationale", "depth", "max", "path",
                  "asOf"}
    PROVE  /\ DOMAIN Onward(mine, e, s) = DOMAIN mine.request
           /\ Onward(mine, e, s).targets = Spread[TargetOf[e]] /\ Onward(mine, e, s).requested = {}
           /\ Onward(mine, e, s).max = mine.request.max /\ Onward(mine, e, s).asOf = mine.request.asOf
           /\ Onward(mine, e, s).depth = IF "depth" \in mine.carries THEN mine.request.depth + 1
                                      ELSE mine.request.depth
           /\ Onward(mine, e, s).path = IF "path" \in mine.carries THEN Append(mine.plan.path, e)
                                     ELSE mine.request.path
BY DEF Onward

(* A proposed action is not suppressed: there is depth left, and it is not *)
(* on the path.                                                            *)
LEMMA ProposedIsNotSuppressed ==
    ASSUME NEW mine, PlanFollows(mine), NEW e \in mine.plan.proposed
    PROVE  /\ ~(mine.request.depth >= mine.request.max)
           /\ e \notin ToSet(mine.request.path) /\ e \in Candidates(mine.request)
BY DEF PlanFollows, Suppressed

LEMMA FollowKept ==
    ASSUME TypeOK, CausationIsCarried, NEW a \in Agents, NEW e \in Edges, NEW s,
           Follow(a, e, s)
    PROVE  (TypeOK /\ CausationIsCarried)'
<1> DEFINE mine == agent[a]
           q == mine.request
           r == Onward(mine, e, s)
<1>1. Shaped /\ AgentKept(mine)
  BY ByAgent
<1>2. /\ OnlyAgent(a) /\ mine.phase = "planned" /\ agent'[a].phase = "reading"
      /\ e \in mine.plan.proposed
      /\ agent'[a].request = r /\ agent'[a].carries = mine.carries
      /\ agent'[a].plan = NoPlan /\ agent'[a].followed = Append(mine.followed, e)
  BY <1>1, FollowFields
<1>3. RequestFollows(mine) /\ PlanFollows(mine) /\ mine.followed \in Seq(Edges)
  BY <1>1, <1>2 DEF AgentKept
<1>4. /\ DOMAIN q = {"targets", "summary", "requested", "rationale", "depth", "max", "path",
                  "asOf"}
      /\ q.max \in Nat /\ q.path \in Seq(Edges)
      /\ "path" \in mine.carries => SameActions(q.path, mine.followed)
      /\ "path" \notin mine.carries => q.path = <<>>
      /\ q.depth = IF "depth" \in mine.carries THEN Len(mine.followed) ELSE 0
  BY <1>3 DEF RequestFollows
<1>5. /\ DOMAIN r = DOMAIN q
      /\ r.targets = Spread[TargetOf[e]] /\ r.requested = {} /\ r.max = q.max
      /\ r.depth = IF "depth" \in mine.carries THEN q.depth + 1 ELSE q.depth
      /\ r.path = IF "path" \in mine.carries THEN Append(mine.plan.path, e) ELSE q.path
  <2>1. DOMAIN mine.request = {"targets", "summary", "requested", "rationale", "depth",
                               "max", "path", "asOf"}
    BY <1>4
  <2> HIDE DEF mine
  <2>2. QED  BY <2>1, OnwardFields
<1>6. r.targets \subseteq Refs
  BY <1>5, PlannerAssumption
<1>7. ~(q.depth >= q.max)
  BY <1>2, <1>3, ProposedIsNotSuppressed
<1>8. /\ mine.plan.path = Sorted(q.path)
      /\ mine.plan.path \in Seq(Edges) /\ SameActions(mine.plan.path, q.path)
  BY <1>3, <1>4, SortedPath DEF PlanFollows, PropagationPath
<1>9. /\ r.path \in Seq(Edges)
      /\ "path" \in mine.carries => SameActions(r.path, Append(mine.followed, e))
      /\ "path" \notin mine.carries => r.path = <<>>
  <2>1. CASE "path" \in mine.carries
    <3>1. SameActions(mine.plan.path, mine.followed)
      BY <1>4, <1>8, <2>1, SameThrough
    <3>2. SameActions(Append(mine.plan.path, e), Append(mine.followed, e))
      BY <1>3, <1>8, <3>1, SameAppended
    <3>3. Append(mine.plan.path, e) \in Seq(Edges)
      BY <1>8
    <3>4. QED  BY <1>5, <2>1, <3>2, <3>3
  <2>2. CASE "path" \notin mine.carries
    BY <1>4, <1>5, <2>2
  <2>3. QED  BY <2>1, <2>2
<1>10. Len(mine.followed) \in Nat /\ Len(Append(mine.followed, e)) = Len(mine.followed) + 1
  BY <1>3
<1>11. /\ r.depth = IF "depth" \in mine.carries THEN Len(Append(mine.followed, e)) ELSE 0
       /\ "depth" \in mine.carries => Len(Append(mine.followed, e)) <= r.max
  BY <1>4, <1>5, <1>7, <1>10
<1>12. Append(mine.followed, e) \in Seq(Edges)
  BY <1>3
<1> HIDE DEF mine, q, r
<1>13. RequestFollows(agent'[a])
  BY <1>2, <1>4, <1>5, <1>6, <1>9, <1>11 DEF RequestFollows
<1>14. NoPlan.path = <<>> /\ NoPlan.proposed = {}
  BY DEF NoPlan
<1>15. AgentKept(agent'[a])
  BY <1>1, <1>2, <1>12, <1>13, <1>14, EmptyPath DEF AgentKept
<1>16. UNCHANGED <<graph, seeded>>
  BY DEF Follow
<1>17. QED  BY <1>2, <1>15, <1>16, OneAgentSteps DEF mine

LEMMA StepKept ==
    ASSUME TypeOK, CausationIsCarried, [Next]_vars
    PROVE  (TypeOK /\ CausationIsCarried)'
<1>1. CASE UNCHANGED vars
  BY <1>1, ByAgent, ByAgentNext DEF vars, Shaped
<1>2. CASE ChangeGraph
  BY <1>2, ByAgent, ByAgentNext DEF ChangeGraph, Shaped
<1>3. ASSUME NEW a \in Agents, NEW q \in Requests, NEW c \in Carried, SetOut(a, q, c)
      PROVE  (TypeOK /\ CausationIsCarried)'
  BY <1>3, SetOutKept
<1>4. ASSUME NEW a \in Agents, Refuse(a) \/ HandlerStep(a) \/ AgentStep(a)
      PROVE  (TypeOK /\ CausationIsCarried)'
  <2>1. CASE Refuse(a)
    BY <2>1, RefuseKept
  <2>2. CASE ReadImpact(a) \/ ReadRelationships(a)
    BY <2>2, ReadKept
  <2>3. CASE AnswerPlan(a)
    BY <2>3, AnswerPlanKept
  <2>4. CASE Rest(a)
    BY <2>4, RestKept
  <2>5. CASE \E e \in Edges, s \in Words : Follow(a, e, s)
    BY <2>5, FollowKept
  <2>6. QED  BY <1>4, <2>1, <2>2, <2>3, <2>4, <2>5 DEF HandlerStep, AgentStep
<1>5. QED  BY <1>1, <1>2, <1>3, <1>4 DEF Next

-----------------------------------------------------------------------------
(* What carried causation is for.                                          *)

LEMMA CarriedPathIsLoopSafe ==
    ASSUME TypeOK, CausationIsCarried
    PROVE  PropagationIsLoopSafe
<1> SUFFICES ASSUME NEW a \in Agents
             PROVE  /\ ("path" \in agent[a].carries /\ agent[a].phase = "planned") =>
                          {r.id.action.edge : r \in agent[a].plan.receipts}
                              \cap ToSet(agent[a].followed) = {}
                    /\ "depth" \in agent[a].carries =>
                          Len(agent[a].followed) <= agent[a].request.max
  BY DEF PropagationIsLoopSafe
<1> DEFINE mine == agent[a]
<1>1. AgentKept(mine)
  BY ByAgent
<1>2. ASSUME "path" \in mine.carries, mine.phase = "planned", NEW r \in mine.plan.receipts
      PROVE  r.id.action.edge \notin ToSet(mine.followed)
  <2>1. RequestFollows(mine) /\ PlanFollows(mine) /\ mine.followed \in Seq(Edges)
    BY <1>1, <1>2 DEF AgentKept
  <2>2. PICK e \in mine.plan.proposed : r.id.action.edge = e
    <3>1. PICK e \in mine.plan.proposed : r.id = RequirementId(mine.request, e)
      <4> HIDE DEF mine
      <4>1. QED  BY <1>2, <2>1 DEF PlanFollows
    <3>2. QED  BY <3>1 DEF RequirementId, Action
  <2>3. e \notin ToSet(mine.request.path)
    BY <2>1, ProposedIsNotSuppressed
  <2>4. mine.request.path \in Seq(Edges) /\ SameActions(mine.request.path, mine.followed)
    BY <1>2, <2>1 DEF RequestFollows
  <2>5. ToSet(mine.request.path) = ToSet(mine.followed)
    BY <2>1, <2>4, SameMembers
  <2>6. QED  BY <2>2, <2>3, <2>5
<1>3. ASSUME "depth" \in mine.carries
      PROVE  Len(mine.followed) <= mine.request.max
  <2>1. RequestFollows(mine)
    BY <1>1, <1>3 DEF AgentKept
  <2>2. QED  BY <1>3, <2>1 DEF RequestFollows
<1>4. QED  BY <1>2, <1>3

LEMMA CarriedPathIsIdempotent ==
    ASSUME TypeOK, CausationIsCarried
    PROVE  StepsAreIdempotent
<1> SUFFICES ASSUME NEW a \in Agents, NEW b \in Agents,
                    agent[a].phase = "planned", agent[b].phase = "planned",
                    agent[a].carries = agent[b].carries,
                    agent[a].request.targets = agent[b].request.targets,
                    agent[a].request.summary = agent[b].request.summary,
                    agent[a].request.asOf = agent[b].request.asOf,
                    SameActions(agent[a].followed, agent[b].followed),
                    NEW r \in agent[a].plan.receipts, NEW o \in agent[b].plan.receipts,
                    r.id.action = o.id.action
             PROVE  r.id = o.id
  BY DEF StepsAreIdempotent
<1> DEFINE p == agent[a].request
           q == agent[b].request
<1>1. AgentKept(agent[a]) /\ AgentKept(agent[b])
  BY ByAgent
<1>2. /\ RequestFollows(agent[a]) /\ PlanFollows(agent[a]) /\ agent[a].followed \in Seq(Edges)
      /\ RequestFollows(agent[b]) /\ PlanFollows(agent[b]) /\ agent[b].followed \in Seq(Edges)
  BY <1>1 DEF AgentKept
<1>3. p.path \in Seq(Edges) /\ q.path \in Seq(Edges)
  BY <1>2 DEF RequestFollows
<1>4. p.depth = q.depth
  <2>1. Len(agent[a].followed) = Len(agent[b].followed)
    BY <1>2, SameLength
  <2>2. QED  BY <1>2, <2>1 DEF RequestFollows
<1>5. PropagationPath(p) = PropagationPath(q)
  <2>1. CASE "path" \in agent[a].carries
    <3>1. SameActions(p.path, agent[a].followed) /\ SameActions(q.path, agent[b].followed)
      BY <1>2, <2>1 DEF RequestFollows
    <3>2. SameActions(p.path, q.path)
      BY <3>1 DEF SameActions
    <3>3. QED  BY <1>3, <3>2, SameSorted DEF PropagationPath
  <2>2. CASE "path" \notin agent[a].carries
    <3>1. p.path = <<>> /\ q.path = <<>>
      BY <1>2, <2>2 DEF RequestFollows
    <3>2. QED  BY <3>1 DEF PropagationPath
  <2>3. QED  BY <2>1, <2>2
<1>6. PICK d \in agent[a].plan.proposed : r.id = RequirementId(p, d)
  BY <1>2 DEF PlanFollows
<1>7. PICK e \in agent[b].plan.proposed : o.id = RequirementId(q, e)
  BY <1>2 DEF PlanFollows
<1>8. r.id.action = Action(p, d) /\ o.id.action = Action(q, e)
  BY <1>6, <1>7 DEF RequirementId
<1>9. Action(p, d) = Action(q, e)
  BY <1>8
<1> HIDE DEF p, q
<1>10. RequirementId(p, d) = RequirementId(q, e)
  <2>1. /\ p.asOf = q.asOf /\ p.targets = q.targets /\ p.summary = q.summary
    BY DEF p, q
  <2>2. QED  BY <1>4, <1>5, <1>9, <2>1 DEF RequirementId
<1>11. QED  BY <1>6, <1>7, <1>10

-----------------------------------------------------------------------------
(* No propagation that carries its path or its depth loops: whatever the   *)
(* dependencies, decisions, targets and actions, however many agents plan  *)
(* at once and however the graph changes between their reads, an agent     *)
(* with its path is never proposed an action it has taken, and one with    *)
(* its depth takes no more actions than the maximum of its request.        *)
THEOREM PlannerInvariant == Spec => []PlannerInv
<1>1. Init => TypeOK /\ CausationIsCarried
  BY InitKept
<1>2. (TypeOK /\ CausationIsCarried) /\ [Next]_vars => (TypeOK /\ CausationIsCarried)'
  BY StepKept
<1>3. TypeOK /\ CausationIsCarried => PlannerInv
  BY CarriedPathIsLoopSafe DEF PlannerInv
<1>4. QED  BY <1>1, <1>2, <1>3, PTL DEF Spec

(* Agents that have come to one change by the same actions, and put it in  *)
(* the same words, are owed the same receipts, in whatever order they took *)
(* them: the path in a receipt's idempotency key is sorted, and sorting    *)
(* forgets only order.                                                     *)
THEOREM StepsAreIdempotentAlways == Spec => []StepsAreIdempotent
<1>1. Init => TypeOK /\ CausationIsCarried
  BY InitKept
<1>2. (TypeOK /\ CausationIsCarried) /\ [Next]_vars => (TypeOK /\ CausationIsCarried)'
  BY StepKept
<1>3. TypeOK /\ CausationIsCarried => StepsAreIdempotent
  BY CarriedPathIsIdempotent
<1>4. QED  BY <1>1, <1>2, <1>3, PTL DEF Spec
===============================================================================
