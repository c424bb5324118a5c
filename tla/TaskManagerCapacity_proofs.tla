------------------- MODULE TaskManagerCapacity_proofs -------------------
(***************************************************************************)
(* Instances and container groups are never given more than they take, for *)
(* any tasks, instances and groups: the sums of impacts, what a start adds *)
(* to them, and what is left of them when tasks end or are handed back.    *)
(***************************************************************************)
EXTENDS TaskManager_proofs, FiniteSetTheorems, WellFoundedInduction
-----------------------------------------------------------------------------
(* Induction over finite sets, in the form of a minimal counterexample.    *)

\* Of finite sets, one has no other as a subset.
LEMMA MinimalSet ==
  ASSUME NEW F, F # {}, \A S \in F : IsFiniteSet(S)
  PROVE  \E S \in F : \A T \in F : T \subseteq S => T = S
<1> DEFINE All == UNION F
<1>1. IsWellFoundedOn(StrictSubsetOrdering(All), FiniteSubsetsOf(All))
  BY FS_StrictSubsetOrderingWellFounded
<1>2. F \subseteq FiniteSubsetsOf(All)
  BY DEF FiniteSubsetsOf
<1>3. PICK S \in F : \A T \in F : <<T, S>> \notin StrictSubsetOrdering(All)
  BY <1>1, <1>2, WFMin
<1>4. \A T \in F : T \subseteq S => T = S
  BY <1>3 DEF StrictSubsetOrdering
<1> QED BY <1>4

-----------------------------------------------------------------------------
(* Sums of impacts.                                                        *)

Pick(s) == CHOOSE t \in s : TRUE

\* f sums up the impacts of every subset of S, in the order of Pick.
Sums(f, S) ==
    f = [s \in SUBSET S |-> IF s = {} THEN 0 ELSE Info[Pick(s)].impact + f[s \ {Pick(s)}]]

SumsOf(S) == CHOOSE f : Sums(f, S)

LEMMA PickIsIn == ASSUME NEW s, s # {}  PROVE Pick(s) \in s
BY DEF Pick

LEMMA ImpactIsSum == ASSUME NEW S  PROVE ImpactOf(S) = SumsOf(S)[S]
BY DEF ImpactOf, MapThenSumSet, MapThenFoldSet, SumsOf, Sums, Pick

\* Two such functions agree where both are defined.
LEMMA SumsAgree ==
    ASSUME NEW S, NEW T, NEW f, NEW g, Sums(f, S), Sums(g, T), NEW s \in SUBSET (S \cap T),
           IsFiniteSet(s)
    PROVE  f[s] = g[s]
<1> DEFINE F == {u \in SUBSET s : f[u] # g[u]}
<1>1. SUFFICES ASSUME F # {}  PROVE FALSE
  OBVIOUS
<1>2. \A u \in F : IsFiniteSet(u)
  BY FS_Subset
<1>3. PICK u \in F : \A v \in F : v \subseteq u => v = u
  <2> HIDE DEF F
  <2> QED  BY <1>1, <1>2, MinimalSet
<1>4. /\ f[u] = IF u = {} THEN 0 ELSE Info[Pick(u)].impact + f[u \ {Pick(u)}]
      /\ g[u] = IF u = {} THEN 0 ELSE Info[Pick(u)].impact + g[u \ {Pick(u)}]
  <2>1. u \in SUBSET S /\ u \in SUBSET T
    OBVIOUS
  <2> QED  BY <2>1 DEF Sums
<1>5. u # {} /\ Pick(u) \in u
  BY <1>4, PickIsIn
<1>6. u \ {Pick(u)} \notin F
  BY <1>3, <1>5
<1> QED  BY <1>4, <1>5, <1>6

LEMMA SumsExist == ASSUME NEW S, IsFiniteSet(S)  PROVE Sums(SumsOf(S), S)
<1> DEFINE F == {u \in SUBSET S : ~Sums(SumsOf(u), u)}
<1>1. SUFFICES ASSUME F # {}  PROVE FALSE
  OBVIOUS
<1>2. \A u \in F : IsFiniteSet(u)
  BY FS_Subset
<1>3. PICK u \in F : \A v \in F : v \subseteq u => v = u
  <2> HIDE DEF F
  <2> QED  BY <1>1, <1>2, MinimalSet
<1>4. \A v \in SUBSET u : v # u => Sums(SumsOf(v), v)
  BY <1>3
<1>5. IsFiniteSet(u)
  BY <1>2
<1> DEFINE rest(s) == s \ {Pick(s)}
           h == [s \in SUBSET u |->
                   IF s = {} THEN 0 ELSE Info[Pick(s)].impact + SumsOf(rest(s))[rest(s)]]
<1>6. \A s \in SUBSET u : s # {} => rest(s) # u /\ rest(s) \in SUBSET u
  BY PickIsIn
<1>7. \A v \in SUBSET u : v # u => h[v] = SumsOf(v)[v]
  <2> SUFFICES ASSUME NEW v \in SUBSET u, v # u  PROVE h[v] = SumsOf(v)[v]
    OBVIOUS
  <2>1. Sums(SumsOf(v), v)
    BY <1>4
  <2>2. SumsOf(v)[v] = IF v = {} THEN 0 ELSE Info[Pick(v)].impact + SumsOf(v)[rest(v)]
    <3> DEFINE f == SumsOf(v)
    <3> HIDE DEF f
    <3>1. Sums(f, v)
      BY <2>1 DEF f
    <3>2. f[v] = IF v = {} THEN 0 ELSE Info[Pick(v)].impact + f[rest(v)]
      BY <3>1 DEF Sums
    <3> QED  BY <3>2 DEF f
  <2>3. CASE v = {}
    BY <2>2, <2>3
  <2>4. CASE v # {}
    <3>1. rest(v) \in SUBSET u /\ rest(v) # u /\ rest(v) \in SUBSET (v \cap rest(v))
      BY <1>6, <2>4
    <3>2. Sums(SumsOf(rest(v)), rest(v)) /\ IsFiniteSet(rest(v))
      BY <1>4, <1>5, <3>1, FS_Subset
    <3> HIDE DEF rest
    <3>3. SumsOf(v)[rest(v)] = SumsOf(rest(v))[rest(v)]
      BY <2>1, <3>1, <3>2, SumsAgree
    <3>4. h[v] = Info[Pick(v)].impact + SumsOf(rest(v))[rest(v)]
      BY <2>4
    <3> QED  BY <2>2, <2>4, <3>3, <3>4
  <2> QED  BY <2>3, <2>4
<1>8. Sums(h, u)
  <2>1. \A s \in SUBSET u : s # {} => h[rest(s)] = SumsOf(rest(s))[rest(s)]
    <3> HIDE DEF h
    <3> QED  BY <1>6, <1>7
  <2>2. h = [s \in SUBSET u |-> IF s = {} THEN 0 ELSE Info[Pick(s)].impact + h[rest(s)]]
    BY <2>1
  <2> QED  BY <2>2 DEF Sums
<1>9. Sums(SumsOf(u), u)
  <2> HIDE DEF h
  <2> QED  BY <1>8 DEF SumsOf
<1> QED  BY <1>3, <1>9

\* The sum of a set is the impact of any of its tasks and the sum of the others.
LEMMA ImpactPicked ==
    ASSUME NEW S, IsFiniteSet(S)
    PROVE  /\ S = {} => ImpactOf(S) = 0
           /\ S # {} => ImpactOf(S) = Info[Pick(S)].impact + ImpactOf(S \ {Pick(S)})
<1> DEFINE R == S \ {Pick(S)}
<1>1. IsFiniteSet(R)
  BY FS_Subset
<1>2. Sums(SumsOf(S), S) /\ Sums(SumsOf(R), R)
  BY <1>1, SumsExist
<1> DEFINE f == SumsOf(S)
           g == SumsOf(R)
<1> HIDE DEF f, g
<1>3. Sums(f, S) /\ Sums(g, R)
  BY <1>2 DEF f, g
<1>4. f[S] = IF S = {} THEN 0 ELSE Info[Pick(S)].impact + f[R]
  BY <1>3 DEF Sums
<1>5. f[R] = g[R]
  BY <1>1, <1>3, SumsAgree
<1>6. ImpactOf(S) = f[S] /\ ImpactOf(R) = g[R]
  BY ImpactIsSum DEF f, g
<1> QED  BY <1>4, <1>5, <1>6

\* It does not matter which of them is taken.
LEMMA ImpactWithout ==
    ASSUME NEW S \in SUBSET Tasks, IsFiniteSet(S)
    PROVE  /\ ImpactOf(S) \in Nat
           /\ \A t \in S : ImpactOf(S) = Info[t].impact + ImpactOf(S \ {t})
<1> DEFINE Right(u) == /\ ImpactOf(u) \in Nat
                       /\ \A t \in u : ImpactOf(u) = Info[t].impact + ImpactOf(u \ {t})
           F == {u \in SUBSET S : ~Right(u)}
<1>1. SUFFICES ASSUME F # {}  PROVE FALSE
  OBVIOUS
<1>2. \A u \in F : IsFiniteSet(u)
  BY FS_Subset
<1>3. PICK u \in F : \A v \in F : v \subseteq u => v = u
  <2> HIDE DEF F
  <2> QED  BY <1>1, <1>2, MinimalSet
<1>4. \A v \in SUBSET u : v # u => Right(v)
  BY <1>3
<1>5. IsFiniteSet(u) /\ \A t \in u : Info[t].impact \in Nat
  BY <1>2, InfoAssumption
<1> DEFINE p == Pick(u)
<1>6. CASE u = {}
  <2>1. ImpactOf(u) = 0
    BY <1>5, <1>6, ImpactPicked
  <2> QED  BY <1>6, <2>1
<1>7. CASE u # {}
  <2>1. ImpactOf(u) = Info[p].impact + ImpactOf(u \ {p})
    BY <1>5, <1>7, ImpactPicked
  <2>2. p \in u
    BY <1>7, PickIsIn
  <2> HIDE DEF p, F
  <2>3. Right(u \ {p}) /\ IsFiniteSet(u \ {p})
    BY <1>4, <1>5, <2>2, FS_Subset
  <2>4. ImpactOf(u) \in Nat
    BY <1>5, <2>1, <2>2, <2>3
  <2>5. ASSUME NEW t \in u  PROVE ImpactOf(u) = Info[t].impact + ImpactOf(u \ {t})
    <3>1. CASE t = p
      BY <2>1, <3>1
    <3>2. CASE t # p
      <4>1. Right(u \ {t}) /\ Right((u \ {p}) \ {t})
        BY <1>4, <2>2, <2>5
      <4>2. ImpactOf(u \ {p}) = Info[t].impact + ImpactOf((u \ {p}) \ {t})
        BY <2>3, <2>5, <3>2
      <4>3. ImpactOf(u \ {t}) = Info[p].impact + ImpactOf((u \ {t}) \ {p})
        BY <2>2, <3>2, <4>1
      <4>4. (u \ {t}) \ {p} = (u \ {p}) \ {t}
        OBVIOUS
      <4>5. Info[t].impact \in Nat /\ Info[p].impact \in Nat
        BY <1>5, <2>2, <2>5
      <4> HIDE DEF Right
      <4>6. ImpactOf((u \ {p}) \ {t}) \in Nat
        BY <4>1 DEF Right
      <4> DEFINE X == ImpactOf((u \ {p}) \ {t})
      <4>7. /\ ImpactOf(u) = Info[p].impact + (Info[t].impact + X)
            /\ ImpactOf(u \ {t}) = Info[p].impact + X
            /\ X \in Nat
        BY <2>1, <4>2, <4>3, <4>4, <4>6
      <4> HIDE DEF X
      <4> QED  BY <4>5, <4>7
    <3> QED  BY <3>1, <3>2
  <2> QED  BY <1>3, <2>4, <2>5 DEF F
<1> QED  BY <1>3, <1>6, <1>7

LEMMA ImpactAdded ==
    ASSUME NEW S \in SUBSET Tasks, IsFiniteSet(S), NEW t \in Tasks \ S
    PROVE  ImpactOf(S \cup {t}) = Info[t].impact + ImpactOf(S)
<1>1. IsFiniteSet(S \cup {t}) /\ S \cup {t} \in SUBSET Tasks /\ (S \cup {t}) \ {t} = S
  BY FS_AddElement
<1> QED  BY <1>1, ImpactWithout

\* Fewer tasks have no more impact.
LEMMA ImpactGrows ==
    ASSUME NEW S \in SUBSET Tasks, IsFiniteSet(S), NEW T \in SUBSET S
    PROVE  ImpactOf(T) <= ImpactOf(S)
<1> DEFINE F == {u \in SUBSET S : T \subseteq u /\ ~(ImpactOf(T) <= ImpactOf(u))}
<1>1. SUFFICES ASSUME F # {}  PROVE FALSE
  OBVIOUS
<1>2. \A u \in F : IsFiniteSet(u)
  BY FS_Subset
<1>3. PICK u \in F : \A v \in F : v \subseteq u => v = u
  <2> HIDE DEF F
  <2> QED  BY <1>1, <1>2, MinimalSet
<1>4. IsFiniteSet(T) /\ ImpactOf(T) \in Nat
  BY FS_Subset, ImpactWithout
<1>5. PICK t \in u : t \notin T
  BY <1>4
<1>6. ImpactOf(u) = Info[t].impact + ImpactOf(u \ {t})
  BY <1>2, ImpactWithout
<1>7. ImpactOf(u \ {t}) \in Nat
  BY <1>2, FS_Subset, ImpactWithout
<1>8. ImpactOf(T) <= ImpactOf(u \ {t})
  BY <1>3, <1>5
<1>9. Info[t].impact \in Nat
  BY InfoAssumption
<1> HIDE DEF F
<1>10. ImpactOf(T) <= ImpactOf(u)
  BY <1>4, <1>6, <1>7, <1>8, <1>9
<1> QED  BY <1>3, <1>10 DEF F

\* Every task that executes somewhere has an impact.
LEMMA ImpactOfNone ==
    ASSUME NEW S \in SUBSET Tasks, IsFiniteSet(S)
    PROVE  /\ S = {} => ImpactOf(S) = 0
           /\ ImpactOf(S) = 0 /\ (\A t \in S : Kind(t) # "workflow job") => S = {}
<1>1. S = {} => ImpactOf(S) = 0
  BY ImpactPicked
<1>2. ASSUME NEW t \in S, Kind(t) # "workflow job"  PROVE ImpactOf(S) # 0
  <2>1. ImpactOf(S) = Info[t].impact + ImpactOf(S \ {t}) /\ ImpactOf(S \ {t}) \in Nat
    BY FS_Subset, ImpactWithout
  <2>2. Info[t].impact \in Nat /\ Info[t].impact > 0
    BY <1>2, InfoAssumption DEF Kind
  <2> QED  BY <2>1, <2>2
<1> QED  BY <1>1, <1>2

-----------------------------------------------------------------------------
(* What a place is kept to, and what is left of it with fewer tasks.       *)

\* An instance over its capacity executes one job, and controls, that job
\* apart, no more than it can.
Within(n, at) ==
    \/ Consumed(n, at) <= NodeInfo[n].capacity
    \/ \E t \in Tasks :
         /\ ExecutesOn(n, at) = {t} /\ ~OnControlPlane(t)
         /\ ControlImpact * Cardinality(ControlledFrom(n, at) \ {t}) <= NodeInfo[n].capacity

Admits(g, at) ==
    GroupInfo[g].container /\ GroupInfo[g].maxJobs > 0 =>
        Cardinality(InGroup(g, at)) <= GroupInfo[g].maxJobs

Kept(at) == (\A n \in Nodes : Within(n, at)) /\ (\A g \in Groups : Admits(g, at))

\* Workflow jobs execute nowhere.
NotWorkflows(at) == \A t \in DOMAIN at : Kind(t) = "workflow job" => at[t].node = None

LEMMA Parts ==
    ASSUME NEW at, DOMAIN at \subseteq Tasks, NEW n
    PROVE  /\ ExecutesOn(n, at) \in SUBSET Tasks /\ IsFiniteSet(ExecutesOn(n, at))
           /\ ControlledFrom(n, at) \in SUBSET Tasks /\ IsFiniteSet(ControlledFrom(n, at))
           /\ InGroup(n, at) \in SUBSET Tasks /\ IsFiniteSet(InGroup(n, at))
           /\ ImpactOf(ExecutesOn(n, at)) \in Nat
           /\ Cardinality(ControlledFrom(n, at)) \in Nat
           /\ Cardinality(InGroup(n, at)) \in Nat
<1>1. /\ ExecutesOn(n, at) \in SUBSET Tasks /\ ControlledFrom(n, at) \in SUBSET Tasks
      /\ InGroup(n, at) \in SUBSET Tasks
  BY DEF ExecutesOn, ControlledFrom, InGroup
<1>2. \A S \in SUBSET Tasks : IsFiniteSet(S)
  BY LaunchAssumption, FS_Subset
<1>3. ImpactOf(ExecutesOn(n, at)) \in Nat
  BY <1>1, <1>2, ImpactWithout
<1> QED  BY <1>1, <1>2, <1>3, FS_CardinalityType

LEMMA Times ==
    ASSUME NEW a \in Nat, NEW b \in Nat, NEW c \in Nat, a <= b
    PROVE  c * a <= c * b /\ c * a \in Nat /\ c * b \in Nat
<1>1. PICK d \in Nat : b = a + d
  <2>1. b - a \in Nat /\ b = a + (b - a)
    OBVIOUS
  <2> QED  BY <2>1
<1>2. c * b = c * a + c * d /\ c * d \in Nat /\ c * a \in Nat
  BY <1>1
<1> QED  BY <1>1, <1>2

LEMMA ControlCosts ==
    ASSUME NEW S, IsFiniteSet(S), NEW T \in SUBSET S
    PROVE  /\ ControlImpact * Cardinality(T) <= ControlImpact * Cardinality(S)
           /\ ControlImpact * Cardinality(T) \in Nat /\ ControlImpact * Cardinality(S) \in Nat
<1>1. Cardinality(T) <= Cardinality(S) /\ Cardinality(T) \in Nat /\ Cardinality(S) \in Nat
  BY FS_Subset, FS_CardinalityType
<1>2. ControlImpact \in Nat
  BY NumbersAssumption
<1> QED  BY <1>1, <1>2, Times

LEMMA KeptWithFewer ==
    ASSUME NEW at, NEW bt, DOMAIN at \subseteq Tasks, DOMAIN bt \subseteq DOMAIN at,
           \A t \in DOMAIN bt : bt[t] = at[t], Kept(at)
    PROVE  Kept(bt)
<1>1. ASSUME NEW n \in Nodes  PROVE Within(n, bt)
  <2> DEFINE E == ExecutesOn(n, at)
             C == ControlledFrom(n, at)
             F == ExecutesOn(n, bt)
             D == ControlledFrom(n, bt)
  <2>1. F \subseteq E /\ D \subseteq C /\ E \ F \subseteq DOMAIN at \ DOMAIN bt
    BY DEF ExecutesOn, ControlledFrom
  <2>2. D \subseteq DOMAIN bt
    BY DEF ControlledFrom
  <2>3. /\ E \in SUBSET Tasks /\ IsFiniteSet(E) /\ C \in SUBSET Tasks /\ IsFiniteSet(C)
        /\ F \in SUBSET Tasks /\ IsFiniteSet(F) /\ D \in SUBSET Tasks /\ IsFiniteSet(D)
        /\ ImpactOf(E) \in Nat /\ ImpactOf(F) \in Nat
    BY Parts
  <2>4. /\ Consumed(n, at) = ImpactOf(E) + ControlImpact * Cardinality(C)
        /\ Consumed(n, bt) = ImpactOf(F) + ControlImpact * Cardinality(D)
    BY DEF Consumed
  <2>5. NodeInfo[n].capacity \in Nat
    BY NodesAssumption
  <2> HIDE DEF E, C, F, D
  <2>6. CASE Consumed(n, at) <= NodeInfo[n].capacity
    <3>1. ImpactOf(F) <= ImpactOf(E)
      BY <2>1, <2>3, ImpactGrows
    <3>2. /\ ControlImpact * Cardinality(D) <= ControlImpact * Cardinality(C)
          /\ ControlImpact * Cardinality(D) \in Nat /\ ControlImpact * Cardinality(C) \in Nat
      BY <2>1, <2>3, ControlCosts
    <3>3. Consumed(n, bt) <= NodeInfo[n].capacity
      BY <2>3, <2>4, <2>5, <2>6, <3>1, <3>2
    <3> QED  BY <3>3 DEF Within
  <2>7. CASE ~(Consumed(n, at) <= NodeInfo[n].capacity)
    <3>1. PICK t \in Tasks : /\ E = {t} /\ ~OnControlPlane(t)
                             /\ ControlImpact * Cardinality(C \ {t}) <= NodeInfo[n].capacity
      BY <2>7 DEF Kept, Within, E, C
    <3>2. IsFiniteSet(C \ {t}) /\ D \ {t} \in SUBSET (C \ {t})
      BY <2>1, <2>3, FS_Subset
    <3>3. /\ ControlImpact * Cardinality(D \ {t}) <= ControlImpact * Cardinality(C \ {t})
          /\ ControlImpact * Cardinality(D \ {t}) \in Nat
          /\ ControlImpact * Cardinality(C \ {t}) \in Nat
      BY <3>2, ControlCosts
    <3>4. ControlImpact * Cardinality(D \ {t}) <= NodeInfo[n].capacity
      BY <2>5, <3>1, <3>3
    <3>5. CASE t \in F
      <4>1. ExecutesOn(n, bt) = {t}
        BY <2>1, <3>1, <3>5 DEF F
      <4> QED  BY <3>1, <3>4, <4>1 DEF Within, D
    <3>6. CASE t \notin F
      <4>1. F = {} /\ D \ {t} = D
        BY <2>1, <2>2, <3>1, <3>6
      <4>2. ImpactOf(F) = 0
        BY <2>3, <4>1, ImpactOfNone
      <4> DEFINE c == ControlImpact * Cardinality(D)
      <4>3. Consumed(n, bt) = 0 + c /\ c <= NodeInfo[n].capacity /\ c \in Nat
        BY <2>4, <3>3, <3>4, <4>1, <4>2
      <4> HIDE DEF c
      <4>4. Consumed(n, bt) <= NodeInfo[n].capacity
        BY <4>3
      <4> QED  BY <4>4 DEF Within
    <3> QED  BY <3>5, <3>6
  <2> QED  BY <2>6, <2>7
<1>2. ASSUME NEW g \in Groups, GroupInfo[g].container, GroupInfo[g].maxJobs > 0
      PROVE  Cardinality(InGroup(g, bt)) <= GroupInfo[g].maxJobs
  <2>1. InGroup(g, bt) \in SUBSET InGroup(g, at)
    BY DEF InGroup
  <2>2. Cardinality(InGroup(g, at)) <= GroupInfo[g].maxJobs
    BY <1>2 DEF Kept, Admits
  <2>3. Cardinality(InGroup(g, bt)) <= Cardinality(InGroup(g, at))
    BY <2>1, Parts, FS_Subset
  <2> QED  BY <2>2, <2>3, Parts, GroupsAssumption
<1> QED  BY <1>1, <1>2 DEF Kept, Admits
-----------------------------------------------------------------------------
(* What a start adds.                                                      *)

Executes(site, n) == site.node = n /\ NodeInfo[n].type \in {"hybrid", "execution"}
Controls(site, n) == site.controller = n /\ NodeInfo[n].type \in {"hybrid", "control"}

With(at, t, site) == [s \in DOMAIN at \cup {t} |-> IF s = t THEN site ELSE at[s]]

\* What t costs instance n from there.
Cost(t, site, n) ==
    (IF Executes(site, n) THEN Info[t].impact ELSE 0)
        + (IF Controls(site, n) THEN ControlImpact ELSE 0)

LEMMA Joined ==
    ASSUME NEW at, NEW t, t \notin DOMAIN at, NEW site, NEW n
    PROVE  LET bt == With(at, t, site)
           IN  /\ ExecutesOn(n, bt) = ExecutesOn(n, at)
                                      \cup (IF Executes(site, n) THEN {t} ELSE {})
               /\ ControlledFrom(n, bt) = ControlledFrom(n, at)
                                          \cup (IF Controls(site, n) THEN {t} ELSE {})
               /\ InGroup(n, bt) = InGroup(n, at) \cup (IF site.group = n THEN {t} ELSE {})
               /\ t \notin ExecutesOn(n, at) \cup ControlledFrom(n, at) \cup InGroup(n, at)
<1> DEFINE bt == With(at, t, site)
<1>1. /\ DOMAIN bt = DOMAIN at \cup {t} /\ bt[t] = site
      /\ \A s \in DOMAIN at : bt[s] = at[s]
  BY DEF With
<1> HIDE DEF bt
<1>2. t \notin ExecutesOn(n, at) \cup ControlledFrom(n, at) \cup InGroup(n, at)
  BY DEF ExecutesOn, ControlledFrom, InGroup
<1>3. ExecutesOn(n, bt) = ExecutesOn(n, at) \cup (IF Executes(site, n) THEN {t} ELSE {})
  BY <1>1 DEF ExecutesOn, Executes
<1>4. ControlledFrom(n, bt) = ControlledFrom(n, at) \cup (IF Controls(site, n) THEN {t} ELSE {})
  BY <1>1 DEF ControlledFrom, Controls
<1>5. InGroup(n, bt) = InGroup(n, at) \cup (IF site.group = n THEN {t} ELSE {})
  BY <1>1 DEF InGroup
<1> QED  BY <1>2, <1>3, <1>4, <1>5 DEF bt

LEMMA CostIs ==
    ASSUME NEW t \in Tasks, NEW site, NEW n
    PROVE  /\ Cost(t, site, n) \in Nat
           /\ ~Executes(site, n) => Cost(t, site, n) <= ControlImpact
           /\ ~Controls(site, n) => Cost(t, site, n) <= Info[t].impact
           /\ Cost(t, site, n) <= Info[t].impact + ControlImpact
<1> DEFINE m == Info[t].impact
<1>1. m \in Nat /\ ControlImpact \in Nat
  BY InfoAssumption, NumbersAssumption
<1>2. Cost(t, site, n) = (IF Executes(site, n) THEN m ELSE 0)
                             + (IF Controls(site, n) THEN ControlImpact ELSE 0)
  BY DEF Cost
<1> HIDE DEF m
<1>3. /\ Cost(t, site, n) \in Nat
      /\ ~Executes(site, n) => Cost(t, site, n) <= ControlImpact
      /\ ~Controls(site, n) => Cost(t, site, n) <= m
      /\ Cost(t, site, n) <= m + ControlImpact
  <2>1. CASE Executes(site, n) /\ Controls(site, n)
    BY <1>1, <1>2, <2>1
  <2>2. CASE Executes(site, n) /\ ~Controls(site, n)
    BY <1>1, <1>2, <2>2
  <2>3. CASE ~Executes(site, n) /\ Controls(site, n)
    BY <1>1, <1>2, <2>3
  <2>4. CASE ~Executes(site, n) /\ ~Controls(site, n)
    BY <1>1, <1>2, <2>4
  <2> QED  BY <2>1, <2>2, <2>3, <2>4
<1> QED  BY <1>3 DEF m

LEMMA ConsumedIsNat ==
    ASSUME NEW at, DOMAIN at \subseteq Tasks, NEW n
    PROVE  Consumed(n, at) \in Nat
<1>1. ControlImpact * Cardinality(ControlledFrom(n, at)) \in Nat
  BY Parts, ControlCosts
<1> DEFINE c == ControlImpact * Cardinality(ControlledFrom(n, at))
<1>2. Consumed(n, at) = ImpactOf(ExecutesOn(n, at)) + c /\ c \in Nat
  BY <1>1 DEF Consumed
<1> HIDE DEF c
<1> QED  BY <1>2, Parts

LEMMA ConsumedWith ==
    ASSUME NEW at, DOMAIN at \subseteq Tasks, NEW t \in Tasks, t \notin DOMAIN at,
           NEW site, NEW n
    PROVE  Consumed(n, With(at, t, site)) = Consumed(n, at) + Cost(t, site, n)
<1> DEFINE bt == With(at, t, site)
           E == ExecutesOn(n, at)
           C == ControlledFrom(n, at)
           F == ExecutesOn(n, bt)
           D == ControlledFrom(n, bt)
<1>1. /\ F = E \cup (IF Executes(site, n) THEN {t} ELSE {})
      /\ D = C \cup (IF Controls(site, n) THEN {t} ELSE {})
      /\ t \notin E /\ t \notin C
  BY Joined
<1>2. /\ Consumed(n, bt) = ImpactOf(F) + ControlImpact * Cardinality(D)
      /\ Consumed(n, at) = ImpactOf(E) + ControlImpact * Cardinality(C)
  BY DEF Consumed
<1>3. /\ E \in SUBSET Tasks /\ IsFiniteSet(E) /\ IsFiniteSet(C)
      /\ ImpactOf(E) \in Nat /\ Cardinality(C) \in Nat
  BY Parts
<1> HIDE DEF bt, E, C, F, D
<1>4. ImpactOf(F) = ImpactOf(E) + (IF Executes(site, n) THEN Info[t].impact ELSE 0)
  <2>1. Info[t].impact \in Nat
    BY InfoAssumption
  <2>2. CASE Executes(site, n)
    <3>1. F = E \cup {t}
      BY <1>1, <2>2
    <3>2. ImpactOf(F) = Info[t].impact + ImpactOf(E)
      BY <1>1, <1>3, <3>1, ImpactAdded
    <3> QED  BY <1>3, <2>1, <2>2, <3>2
  <2>3. CASE ~Executes(site, n)
    <3>1. F = E
      BY <1>1, <2>3
    <3> QED  BY <1>3, <2>3, <3>1
  <2> QED  BY <2>2, <2>3
<1>5. /\ ControlImpact * Cardinality(D) =
           ControlImpact * Cardinality(C) + (IF Controls(site, n) THEN ControlImpact ELSE 0)
      /\ ControlImpact * Cardinality(C) \in Nat
  <2>1. ControlImpact \in Nat
    BY NumbersAssumption
  <2>2. ControlImpact * Cardinality(C) \in Nat
    BY <1>3, ControlCosts
  <2>3. CASE Controls(site, n)
    <3>1. Cardinality(D) = Cardinality(C) + 1
      BY <1>1, <1>3, <2>3, FS_AddElement
    <3>2. \A c, d \in Nat : c * (d + 1) = c * d + c
      OBVIOUS
    <3> QED  BY <1>3, <2>1, <2>2, <2>3, <3>1, <3>2
  <2>4. CASE ~Controls(site, n)
    <3>1. D = C
      BY <1>1, <2>4
    <3> DEFINE c == ControlImpact * Cardinality(C)
    <3>2. ControlImpact * Cardinality(D) = c /\ c \in Nat
      BY <2>2, <3>1
    <3> HIDE DEF c
    <3>3. ControlImpact * Cardinality(D) = c + 0
      BY <3>2
    <3> QED  BY <2>2, <2>4, <3>3 DEF c
  <2> QED  BY <2>3, <2>4
<1> DEFINE a == ControlImpact * Cardinality(C)
           x == IF Executes(site, n) THEN Info[t].impact ELSE 0
           y == IF Controls(site, n) THEN ControlImpact ELSE 0
<1>6. x \in Nat /\ y \in Nat
  BY InfoAssumption, NumbersAssumption
<1>7. /\ Consumed(n, bt) = (ImpactOf(E) + x) + (a + y)
      /\ Consumed(n, at) = ImpactOf(E) + a
      /\ Cost(t, site, n) = x + y /\ a \in Nat
  BY <1>2, <1>4, <1>5 DEF Cost
<1> HIDE DEF a, x, y
<1>8. Consumed(n, bt) = Consumed(n, at) + Cost(t, site, n)
  BY <1>3, <1>6, <1>7
<1> QED  BY <1>8 DEF bt
-----------------------------------------------------------------------------
(* What the search for a place answers for.                                *)

\* An instance that fits takes what was asked for beside what it has.
LEMMA FitHolds ==
    ASSUME NEW g \in Groups, NEW type, NEW impact \in Nat, impact > 0, NEW hybridCost \in BOOLEAN,
           NEW at, DOMAIN at \subseteq Tasks, NEW n \in Fit(g, type, impact, hybridCost, at)
    PROVE  /\ n \in Nodes /\ NodeInfo[n].type \in {type, "hybrid"}
           /\ Consumed(n, at) + impact <= NodeInfo[n].capacity
           /\ hybridCost /\ NodeInfo[n].type = "hybrid" =>
                  Consumed(n, at) + impact + ControlImpact <= NodeInfo[n].capacity
<1> DEFINE extra == IF hybridCost /\ NodeInfo[n].type = "hybrid" THEN ControlImpact ELSE 0
           capacity == NodeInfo[n].capacity
<1>1. n \in OfType(g, type) /\ Remaining(n, at) - impact - extra >= 0
  BY DEF Fit
<1>2. n \in Nodes /\ NodeInfo[n].type \in {type, "hybrid"}
  BY <1>1, GroupsAssumption DEF OfType
<1>3. Consumed(n, at) \in Nat /\ capacity \in Nat /\ extra \in Nat /\ ControlImpact \in Nat
  BY <1>2, ConsumedIsNat, NodesAssumption, NumbersAssumption
<1>4. Remaining(n, at) = IF capacity - Consumed(n, at) < 0 THEN 0
                         ELSE capacity - Consumed(n, at)
  BY DEF Remaining
<1>5. hybridCost /\ NodeInfo[n].type = "hybrid" => extra = ControlImpact
  OBVIOUS
<1> HIDE DEF extra, capacity
<1>6. Consumed(n, at) + impact + extra <= capacity
  BY <1>1, <1>3, <1>4
<1>7. Consumed(n, at) + impact <= capacity
  BY <1>3, <1>6
<1> QED  BY <1>2, <1>5, <1>6, <1>7 DEF capacity

\* An idle instance executes nothing.
LEMMA IdleHolds ==
    ASSUME NEW g \in Groups, NEW type, NEW at, DOMAIN at \subseteq Tasks, NotWorkflows(at),
           NEW n \in LargestIdle(g, type, at)
    PROVE  /\ n \in Nodes /\ NodeInfo[n].type \in {type, "hybrid"}
           /\ ExecutesOn(n, at) = {}
<1>1. /\ n \in OfType(g, type)
      /\ ExecutesOn(n, at) = {} \/ Consumed(n, at) = 0
  BY DEF LargestIdle
<1>2. n \in Nodes /\ NodeInfo[n].type \in {type, "hybrid"}
  BY <1>1, GroupsAssumption DEF OfType
<1>3. CASE Consumed(n, at) = 0
  <2> DEFINE c == ControlImpact * Cardinality(ControlledFrom(n, at))
  <2>1. Consumed(n, at) = ImpactOf(ExecutesOn(n, at)) + c /\ c \in Nat
    BY Parts, ControlCosts DEF Consumed
  <2> HIDE DEF c
  <2>2. ImpactOf(ExecutesOn(n, at)) = 0
    BY <1>3, <2>1, Parts
  <2>3. \A t \in ExecutesOn(n, at) : Kind(t) # "workflow job"
    BY <1>2, GroupsAssumption DEF ExecutesOn, NotWorkflows
  <2> QED  BY <1>2, <2>2, <2>3, Parts, ImpactOfNone
<1> QED  BY <1>1, <1>2, <1>3

\* Whether instance n and group g take t at a place.
Bears(t, site, n, at) ==
    \/ ~Executes(site, n) /\ ~Controls(site, n)
    \/ Consumed(n, at) + Cost(t, site, n) <= NodeInfo[n].capacity
    \/ Executes(site, n) /\ ExecutesOn(n, at) = {} /\ ~OnControlPlane(t)

Receives(site, g, at) ==
    site.group = g /\ GroupInfo[g].container /\ GroupInfo[g].maxJobs > 0 =>
        Cardinality(InGroup(g, at)) + 1 <= GroupInfo[g].maxJobs

LEMMA SiteHolds ==
    ASSUME NEW at, DOMAIN at \subseteq Tasks, NotWorkflows(at), NEW t \in Tasks,
           NEW site \in Sites(t, at)
    PROVE  /\ \A n \in Nodes : Bears(t, site, n, at)
           /\ \A g \in Groups : Receives(site, g, at)
           /\ Kind(t) = "workflow job" => site.node = None
<1>1. CASE Kind(t) = "workflow job"
  <2>0. site = Nowhere
    BY <1>1 DEF Sites
  <2>1. site.node = None /\ site.controller = None /\ site.group = None
    BY <2>0 DEF Nowhere
  <2> QED  BY <2>1, GroupsAssumption DEF Bears, Receives, Executes, Controls
<1> DEFINE m == Info[t].impact
<1>n. m \in Nat /\ ControlImpact \in Nat /\ ControlImpact > 0
  BY InfoAssumption, NumbersAssumption
<1>m. Kind(t) # "workflow job" => m > 0
  BY InfoAssumption DEF Kind
<1>c. ASSUME NEW n \in Nodes
      PROVE  /\ Cost(t, site, n) \in Nat
             /\ ~Executes(site, n) => Cost(t, site, n) <= ControlImpact
             /\ ~Controls(site, n) => Cost(t, site, n) <= m
             /\ Cost(t, site, n) <= m + ControlImpact
  BY CostIs
<1>3. CASE Kind(t) # "workflow job" /\ OnControlPlane(t)
  <2>1. PICK c \in Controllers(t, at) : site = [group |-> ControlPlane, node |-> c, controller |-> c]
    BY <1>3 DEF Sites
  <2>2. c \in Fit(ControlPlane, "control", ControlImpact + m, FALSE, at)
    BY <1>3 DEF Controllers
  <2>3. m > 0
    BY <1>m, <1>3
  <2> HIDE DEF m
  <2>4. Bears(t, site, c, at)
    <3>1. ControlImpact + m \in Nat /\ ControlImpact + m > 0
      BY <1>n, <2>3
    <3>2. c \in Nodes /\ Consumed(c, at) + (ControlImpact + m) <= NodeInfo[c].capacity
      BY <2>2, <3>1, FitHolds, GroupsAssumption
    <3>3. Consumed(c, at) \in Nat /\ NodeInfo[c].capacity \in Nat
      BY <3>2, ConsumedIsNat, NodesAssumption
    <3>4. Cost(t, site, c) \in Nat /\ Cost(t, site, c) <= m + ControlImpact
      BY <1>c, <3>2
    <3>5. Consumed(c, at) + Cost(t, site, c) <= NodeInfo[c].capacity
      BY <1>n, <3>2, <3>3, <3>4
    <3> QED  BY <3>5 DEF Bears
  <2>5. \A n \in Nodes \ {c} : Bears(t, site, n, at)
    BY <2>1 DEF Bears, Executes, Controls
  <2>6. \A g \in Groups : Receives(site, g, at)
    BY <2>1, GroupsAssumption DEF Receives
  <2> QED  BY <1>3, <2>4, <2>5, <2>6
<1>4. CASE Kind(t) # "workflow job" /\ ~OnControlPlane(t)
  <2>0. m > 0
    BY <1>m, <1>4
  <2>1. PICK i \in DOMAIN Info[t].groups :
           /\ HasRoom(Info[t].groups[i], 1, m, at)
           /\ site \in PlacesIn(t, Info[t].groups[i], at)
    BY <1>4 DEF Sites
  <2>g. Info[t].groups[i] \in Groups
    <3>1. Info[t].groups \in Seq(Groups)
      BY InfoAssumption
    <3> QED  BY <3>1
  <2> DEFINE g == Info[t].groups[i]
  <2>2. g \in Groups
    BY <2>g
  <2> HIDE DEF g
  <2>3. HasRoom(g, 1, m, at) /\ site \in PlacesIn(t, g, at)
    BY <2>1 DEF g
  <2>4. \A c \in Controllers(t, at) :
           /\ c \in Nodes /\ NodeInfo[c].type \in {"control", "hybrid"}
           /\ Consumed(c, at) + ControlImpact <= NodeInfo[c].capacity
           /\ Consumed(c, at) \in Nat
    <3>1. \A c \in Controllers(t, at) : c \in Fit(ControlPlane, "control", ControlImpact, FALSE, at)
      <4>1. Controllers(t, at) = Fit(ControlPlane, "control", ControlImpact + 0, FALSE, at)
        BY <1>4 DEF Controllers
      <4>2. ControlImpact + 0 = ControlImpact
        BY NumbersAssumption
      <4> QED  BY <4>1, <4>2
    <3> QED  BY <1>n, <3>1, FitHolds, ConsumedIsNat, GroupsAssumption
  <2>5. CASE GroupInfo[g].container
    <3>1. PICK c \in Controllers(t, at) : site = [group |-> g, node |-> None, controller |-> c]
      BY <2>3, <2>5 DEF PlacesIn
    <3>2. ASSUME NEW n \in Nodes  PROVE Bears(t, site, n, at)
      <4>1. ~Executes(site, n)
        BY <3>1, GroupsAssumption DEF Executes
      <4>2. CASE n # c
        BY <3>1, <4>1, <4>2 DEF Bears, Controls
      <4>3. CASE n = c
        <5>1. NodeInfo[c].capacity \in Nat
          BY <2>4, NodesAssumption
        <5>2. Cost(t, site, c) \in Nat /\ Cost(t, site, c) <= ControlImpact
          BY <1>c, <4>1, <4>3
        <5>3. Consumed(c, at) + Cost(t, site, c) <= NodeInfo[c].capacity
          BY <1>n, <2>4, <5>1, <5>2
        <5> QED  BY <4>3, <5>3 DEF Bears
      <4> QED  BY <4>2, <4>3
    <3>3. ASSUME NEW k \in Groups  PROVE Receives(site, k, at)
      <4>1. \/ GroupInfo[g].maxJobs = 0
            \/ Cardinality(InGroup(g, at)) + 1 <= GroupInfo[g].maxJobs
        BY <2>3, <2>5 DEF HasRoom
      <4>2. GroupInfo[g].maxJobs \in Nat
        BY <2>2, GroupsAssumption
      <4> QED  BY <3>1, <4>1, <4>2 DEF Receives
    <3> QED  BY <1>4, <3>2, <3>3
  <2>6. CASE ~GroupInfo[g].container
    <3>1. PICK p \in Hosts(t, g, at) \X Controllers(t, at) :
             site = [group |-> g, node |-> p[1],
                     controller |-> IF NodeInfo[p[1]].type = "hybrid" THEN p[1] ELSE p[2]]
      BY <2>3, <2>6 DEF PlacesIn
    <3>2. PICK h \in Hosts(t, g, at), c \in Controllers(t, at) : h = p[1] /\ c = p[2]
      OBVIOUS
    <3>3. /\ site.group = g /\ site.node = h
          /\ site.controller = IF NodeInfo[h].type = "hybrid" THEN h ELSE c
      BY <3>1, <3>2
    <3>4. \/ h \in Fit(g, "execution", m, TRUE, at)
          \/ h \in LargestIdle(g, "execution", at)
      BY <1>4 DEF Hosts, TypeNeeded, m
    <3> HIDE DEF m
    <3>5. h \in Nodes /\ NodeInfo[h].type \in {"execution", "hybrid"}
      BY <1>n, <2>0, <2>2, <3>4, FitHolds, IdleHolds
    <3>6. Executes(site, h) /\ (Controls(site, h) => NodeInfo[h].type = "hybrid")
      BY <3>3, <3>5 DEF Executes, Controls
    <3>7. Bears(t, site, h, at)
      <4>1. CASE h \in Fit(g, "execution", m, TRUE, at)
        <5>1. /\ Consumed(h, at) + m <= NodeInfo[h].capacity
              /\ NodeInfo[h].type = "hybrid" =>
                     Consumed(h, at) + m + ControlImpact <= NodeInfo[h].capacity
          BY <1>n, <2>0, <2>2, <4>1, FitHolds
        <5>2. Consumed(h, at) \in Nat /\ NodeInfo[h].capacity \in Nat
          BY <3>5, ConsumedIsNat, NodesAssumption
        <5>3. /\ Cost(t, site, h) \in Nat /\ Cost(t, site, h) <= m + ControlImpact
              /\ NodeInfo[h].type = "hybrid" \/ Cost(t, site, h) <= m
          BY <1>c, <3>5, <3>6
        <5>4. Consumed(h, at) + Cost(t, site, h) <= NodeInfo[h].capacity
          BY <1>n, <5>1, <5>2, <5>3
        <5> QED  BY <5>4 DEF Bears
      <4>2. CASE h \in LargestIdle(g, "execution", at)
        <5>1. ExecutesOn(h, at) = {}
          BY <2>2, <4>2, IdleHolds
        <5> QED  BY <1>4, <3>6, <5>1 DEF Bears
      <4> QED  BY <3>4, <4>1, <4>2
    <3>8. ASSUME NEW n \in Nodes, n # h  PROVE Bears(t, site, n, at)
      <4>1. ~Executes(site, n)
        BY <3>3, <3>8 DEF Executes
      <4>2. CASE ~Controls(site, n)
        BY <4>1, <4>2 DEF Bears
      <4>3. CASE Controls(site, n)
        <5>1. n = c
          BY <3>3, <3>8, <4>3 DEF Controls
        <5>2. NodeInfo[c].capacity \in Nat
          BY <2>4, NodesAssumption
        <5>3. Cost(t, site, c) \in Nat /\ Cost(t, site, c) <= ControlImpact
          BY <1>c, <4>1, <5>1
        <5>4. Consumed(c, at) + Cost(t, site, c) <= NodeInfo[c].capacity
          BY <1>n, <2>4, <5>2, <5>3
        <5> QED  BY <5>1, <5>4 DEF Bears
      <4> QED  BY <4>2, <4>3
    <3>9. \A k \in Groups : Receives(site, k, at)
      BY <2>6, <3>3 DEF Receives
    <3> QED  BY <1>4, <3>7, <3>8, <3>9
  <2> QED  BY <2>5, <2>6
<1> QED  BY <1>1, <1>3, <1>4

\* A start leaves every instance and every group within what it takes.
LEMMA KeptWithOneMore ==
    ASSUME NEW at, DOMAIN at \subseteq Tasks, Kept(at), NotWorkflows(at),
           NEW t \in Tasks, t \notin DOMAIN at, NEW site \in Sites(t, at)
    PROVE  Kept(With(at, t, site)) /\ NotWorkflows(With(at, t, site))
<1> DEFINE bt == With(at, t, site)
<1>1. /\ \A n \in Nodes : Bears(t, site, n, at)
      /\ \A g \in Groups : Receives(site, g, at)
      /\ Kind(t) = "workflow job" => site.node = None
  BY SiteHolds
<1>2. NotWorkflows(bt)
  BY <1>1 DEF With, NotWorkflows
<1>3. ASSUME NEW n \in Nodes  PROVE Within(n, bt)
  <2>1. /\ ExecutesOn(n, bt) = ExecutesOn(n, at) \cup (IF Executes(site, n) THEN {t} ELSE {})
        /\ ControlledFrom(n, bt) = ControlledFrom(n, at)
                                   \cup (IF Controls(site, n) THEN {t} ELSE {})
        /\ t \notin ControlledFrom(n, at)
        /\ Consumed(n, bt) = Consumed(n, at) + Cost(t, site, n)
    BY Joined, ConsumedWith
  <2>2. Consumed(n, at) \in Nat /\ NodeInfo[n].capacity \in Nat /\ Cost(t, site, n) \in Nat
    BY ConsumedIsNat, NodesAssumption, CostIs
  <2> HIDE DEF bt
  <2>3. CASE ~Executes(site, n) /\ ~Controls(site, n)
    <3>1. /\ ExecutesOn(n, bt) = ExecutesOn(n, at)
          /\ ControlledFrom(n, bt) = ControlledFrom(n, at)
      BY <2>1, <2>3
    <3>2. Within(n, at)
      BY DEF Kept
    <3> QED  BY <3>1, <3>2 DEF Within, Consumed
  <2>4. CASE Consumed(n, at) + Cost(t, site, n) <= NodeInfo[n].capacity
    BY <2>1, <2>4 DEF Within
  <2>5. CASE Executes(site, n) /\ ExecutesOn(n, at) = {} /\ ~OnControlPlane(t)
    <3>1. ExecutesOn(n, bt) = {t} /\ ControlledFrom(n, bt) \ {t} = ControlledFrom(n, at)
      BY <2>1, <2>5
    <3>2. Consumed(n, at) <= NodeInfo[n].capacity
      BY <2>5 DEF Kept, Within
    <3> DEFINE c == ControlImpact * Cardinality(ControlledFrom(n, at))
    <3>3. Consumed(n, at) = ImpactOf(ExecutesOn(n, at)) + c /\ c \in Nat
      BY Parts, ControlCosts DEF Consumed
    <3>4. ControlImpact * Cardinality(ControlledFrom(n, bt) \ {t}) = c
      BY <3>1
    <3> HIDE DEF c
    <3>5. c <= NodeInfo[n].capacity
      BY <2>2, <3>2, <3>3, Parts
    <3> QED  BY <2>5, <3>1, <3>4, <3>5 DEF Within
  <2> QED  BY <1>1, <2>3, <2>4, <2>5 DEF Bears
<1>4. ASSUME NEW g \in Groups  PROVE Admits(g, bt)
  <2>1. /\ InGroup(g, bt) = InGroup(g, at) \cup (IF site.group = g THEN {t} ELSE {})
        /\ t \notin InGroup(g, at)
    BY Joined
  <2> HIDE DEF bt
  <2>2. Admits(g, at) /\ Receives(site, g, at)
    BY <1>1 DEF Kept
  <2>3. CASE site.group = g
    <3>1. Cardinality(InGroup(g, bt)) = Cardinality(InGroup(g, at)) + 1
      BY <2>1, <2>3, Parts, FS_AddElement
    <3> QED  BY <2>2, <2>3, <3>1 DEF Admits, Receives
  <2>4. CASE site.group # g
    BY <2>1, <2>2, <2>4 DEF Admits
  <2> QED  BY <2>3, <2>4
<1> QED  BY <1>2, <1>3, <1>4 DEF Kept
-----------------------------------------------------------------------------
(* The pass and the rows.                                                  *)

\* The pass knows where everything under way is.
SamePlaces ==
    pc # "idle" => \A t \in Tasks : status[t] = "active" => t \in DOMAIN on /\ on[t] = place[t]

\* What the pass counts beside its own starts may have ended, but all that is
\* under way is counted where it is: if this is kept, so are the rows.
CInv ==
    /\ Kept(on) /\ Kept(UnderWay)
    /\ NotWorkflows(on) /\ NotWorkflows(UnderWay)
    /\ SamePlaces
    /\ todo \cap DOMAIN on = {}

LEMMA WayIs ==
    /\ DOMAIN UnderWay = {t \in Tasks : status[t] = "active"}
    /\ \A t \in DOMAIN UnderWay : UnderWay[t] = place[t]
    /\ DOMAIN UnderWay' = {t \in Tasks : status'[t] = "active"}
    /\ \A t \in DOMAIN UnderWay' : UnderWay'[t] = place'[t]
BY DEF UnderWay

LEMMA NoneKept == Kept(NoneCounted) /\ NotWorkflows(NoneCounted)
<1> DEFINE at == NoneCounted
<1>1. DOMAIN at = {}
  BY DEF NoneCounted
<1> HIDE DEF at
<1>2. NotWorkflows(at)
  BY <1>1 DEF NotWorkflows
<1>3. ASSUME NEW n \in Nodes  PROVE Within(n, at)
  <2>1. ExecutesOn(n, at) = {} /\ ControlledFrom(n, at) = {}
    BY <1>1 DEF ExecutesOn, ControlledFrom
  <2>2. ImpactOf({}) = 0 /\ Cardinality({}) = 0
    BY FS_EmptySet, ImpactOfNone
  <2>3. Consumed(n, at) = 0 + ControlImpact * 0
    BY <2>1, <2>2 DEF Consumed
  <2>4. ControlImpact \in Nat /\ NodeInfo[n].capacity \in Nat
    BY NumbersAssumption, NodesAssumption
  <2>5. Consumed(n, at) <= NodeInfo[n].capacity
    BY <2>3, <2>4
  <2> QED  BY <2>5 DEF Within
<1>4. ASSUME NEW g \in Groups  PROVE Admits(g, at)
  <2>1. InGroup(g, at) = {}
    BY <1>1 DEF InGroup
  <2>2. GroupInfo[g].maxJobs \in Nat /\ Cardinality({}) = 0
    BY GroupsAssumption, FS_EmptySet
  <2> QED  BY <2>1, <2>2 DEF Admits
<1>5. Kept(at)
  BY <1>3, <1>4 DEF Kept
<1> QED  BY <1>2, <1>5 DEF at

\* Fewer under way.
LEMMA FewerUnderWay ==
    ASSUME Kept(UnderWay), NotWorkflows(UnderWay),
           \A t \in Tasks : status'[t] = "active" => status[t] = "active" /\ place'[t] = place[t]
    PROVE  Kept(UnderWay') /\ NotWorkflows(UnderWay')
<1> DEFINE at == UnderWay
           bt == UnderWay'
<1>1. /\ DOMAIN at \subseteq Tasks /\ DOMAIN bt \subseteq DOMAIN at
      /\ \A t \in DOMAIN bt : bt[t] = at[t]
  BY WayIs
<1>2. Kept(at) /\ NotWorkflows(at)
  OBVIOUS
<1> HIDE DEF at, bt
<1>3. Kept(bt)
  BY <1>1, <1>2, KeptWithFewer
<1>4. NotWorkflows(bt)
  BY <1>1, <1>2 DEF NotWorkflows
<1> QED  BY <1>3, <1>4 DEF bt

LEMMA EndedKept ==
    ASSUME CInv, UNCHANGED pass,
           \A t \in Tasks : status'[t] = "active" => status[t] = "active" /\ place'[t] = place[t]
    PROVE  CInv'
<1>1. UNCHANGED <<pc, todo, on>>
  BY DEF pass
<1>2. Kept(UnderWay') /\ NotWorkflows(UnderWay')
  BY FewerUnderWay DEF CInv
<1>3. SamePlaces'
  BY <1>1 DEF CInv, SamePlaces
<1>4. Kept(on') /\ NotWorkflows(on')
  BY <1>1 DEF CInv
<1>5. todo' \cap DOMAIN on' = {}
  BY <1>1 DEF CInv
<1> QED  BY <1>2, <1>3, <1>4, <1>5 DEF CInv

LEMMA LookingKept ==
    ASSUME CInv, UNCHANGED rows, on' = on, todo' \subseteq todo, pc # "idle"
    PROVE  CInv'
<1>1. UNCHANGED <<status, place>>
  BY DEF rows
<1>2. Kept(UnderWay') /\ NotWorkflows(UnderWay')
  BY <1>1, FewerUnderWay DEF CInv
<1>3. SamePlaces' /\ todo' \cap DOMAIN on' = {}
  BY <1>1 DEF CInv, SamePlaces
<1>4. Kept(on') /\ NotWorkflows(on')
  BY DEF CInv
<1> QED  BY <1>2, <1>3, <1>4 DEF CInv

LEMMA ReadKept == IInv /\ CInv /\ ReadTasks => CInv'
<1> SUFFICES ASSUME IInv, CInv, ReadTasks  PROVE CInv'
  OBVIOUS
<1>1. /\ UNCHANGED <<status, place>>
      /\ todo' = {t \in processed : status[t] = "pending"}
      /\ on' = [t \in {s \in processed : status[s] = "active"} |-> place[t]]
  BY DEF ReadTasks, rows
<1>2. Kept(UnderWay') /\ NotWorkflows(UnderWay')
  BY <1>1, FewerUnderWay DEF CInv
<1> DEFINE at == UnderWay
           bt == on'
<1>3. /\ DOMAIN at \subseteq Tasks /\ DOMAIN bt \subseteq DOMAIN at
      /\ \A t \in DOMAIN bt : bt[t] = at[t]
  BY <1>1, WayIs DEF IInv, Typed
<1>4. Kept(at) /\ NotWorkflows(at)
  BY DEF CInv
<1>5. SamePlaces'
  BY <1>1 DEF SamePlaces, IInv, Unlooked, Waits
<1>6. todo' \cap DOMAIN on' = {}
  BY <1>1
<1> HIDE DEF at, bt
<1>7. Kept(bt)
  BY <1>3, <1>4, KeptWithFewer
<1>8. NotWorkflows(bt)
  BY <1>3, <1>4 DEF NotWorkflows
<1> QED  BY <1>2, <1>5, <1>6, <1>7, <1>8 DEF CInv, bt

LEMMA StartKept ==
    ASSUME TInv, CInv, NEW t \in Tasks, NEW refused \in BOOLEAN, StartTask(t, refused)
    PROVE  CInv'
<1>1. PICK site \in Sites(t, on) :
         on' = [s \in DOMAIN on \cup {t} |-> IF s = t THEN site ELSE on[s]]
  BY DEF StartTask
<1>2. /\ pc = "deciding" /\ t \in todo /\ todo' = todo \ {t} /\ UNCHANGED rows
  BY DEF StartTask, Considers
<1>3. UNCHANGED <<status, place>>
  BY <1>2 DEF rows
<1>4. Kept(UnderWay') /\ NotWorkflows(UnderWay')
  BY <1>3, FewerUnderWay DEF CInv
<1>5. t \notin DOMAIN on /\ DOMAIN on \subseteq Tasks
  BY <1>2 DEF CInv, TInv, PassTyped
<1>6. on' = With(on, t, site)
  BY <1>1 DEF With
<1>7. Kept(on') /\ NotWorkflows(on')
  BY <1>5, <1>6, KeptWithOneMore DEF CInv
<1>8. DOMAIN on' = DOMAIN on \cup {t} /\ \A s \in DOMAIN on : on'[s] = on[s]
  BY <1>1, <1>5
<1>9. SamePlaces'
  BY <1>2, <1>3, <1>8 DEF CInv, SamePlaces
<1>10. todo' \cap DOMAIN on' = {}
  BY <1>2, <1>8 DEF CInv
<1> QED  BY <1>4, <1>7, <1>9, <1>10 DEF CInv

\* A pass that is over counts nothing.
LEMMA EndsKept ==
    ASSUME PassEnds
    PROVE  Kept(on') /\ NotWorkflows(on') /\ SamePlaces' /\ todo' \cap DOMAIN on' = {}
<1>1. pc' = "idle" /\ on' = NoneCounted /\ todo' = {}
  BY DEF PassEnds
<1>2. Kept(on') /\ NotWorkflows(on')
  BY <1>1, NoneKept
<1>3. SamePlaces' /\ todo' \cap DOMAIN on' = {}
  BY <1>1 DEF SamePlaces
<1> QED  BY <1>2, <1>3

\* What is under way after the commit was counted by the pass.
LEMMA CommitKept == IInv /\ TInv /\ CInv /\ Commit => CInv'
<1> SUFFICES ASSUME IInv, TInv, CInv, Commit  PROVE CInv'
  OBVIOUS
<1> DEFINE saved == {t \in DOMAIN on : writes[t] # "none"}
           at == on
           bt == UnderWay'
<1>1. /\ pc = "deciding" /\ PassEnds
      /\ status' = [t \in Tasks |-> IF writes[t] = "none" THEN status[t] ELSE writes[t]]
      /\ place' = [t \in Tasks |-> IF t \in saved THEN on[t] ELSE place[t]]
  BY DEF Commit
<1>2. ASSUME NEW t \in Tasks, status'[t] = "active"
      PROVE  t \in DOMAIN on /\ place'[t] = on[t]
  <2>1. CASE writes[t] = "none"
    <3>1. status[t] = "active" /\ place'[t] = place[t]
      BY <1>1, <1>2, <2>1
    <3> QED  BY <1>1, <3>1 DEF CInv, SamePlaces
  <2>2. CASE writes[t] # "none"
    <3>1. writes[t] = "active"
      BY <1>1, <1>2, <2>2
    <3>2. t \in saved
      BY <2>2, <3>1 DEF IInv, Cleared
    <3> QED  BY <1>1, <3>2
  <2> QED  BY <2>1, <2>2
<1>3. /\ DOMAIN at \subseteq Tasks /\ DOMAIN bt \subseteq DOMAIN at
      /\ \A t \in DOMAIN bt : bt[t] = at[t]
  BY <1>2, WayIs DEF TInv, PassTyped
<1>4. Kept(at) /\ NotWorkflows(at)
  BY DEF CInv
<1> HIDE DEF at, bt
<1>5. Kept(bt)
  BY <1>3, <1>4, KeptWithFewer
<1>6. NotWorkflows(bt)
  BY <1>3, <1>4 DEF NotWorkflows
<1> QED  BY <1>1, <1>5, <1>6, EndsKept DEF CInv, bt

LEMMA StepKept == IInv /\ TInv /\ CInv /\ [Next]_vars => CInv'
<1> SUFFICES ASSUME IInv, TInv, CInv, [Next]_vars  PROVE CInv'
  OBVIOUS
<1>1. CASE ResolveDependencies
  <2>1. UNCHANGED pass /\ UNCHANGED place
    BY <1>1 DEF ResolveDependencies
  <2>2. \A t \in Tasks : status'[t] = "active" => status[t] = "active"
    BY <1>1 DEF ResolveDependencies
  <2> QED  BY <2>1, <2>2, EndedKept
<1>2. CASE ReadTasks
  BY <1>2, ReadKept
<1>3. CASE ReadDependencies \/ TimeOut
  BY <1>3, LookingKept DEF ReadDependencies, TimeOut
<1>4. ASSUME NEW t \in Tasks, CancelPending(t) \/ FailForDependency(t) \/ LeavePending(t)
      PROVE  CInv'
  <2>1. /\ UNCHANGED rows /\ on' = on /\ pc = "deciding" /\ todo' \subseteq todo
    BY <1>4 DEF CancelPending, FailForDependency, TurnDown, LeavePending, Considers
  <2> QED  BY <2>1, LookingKept
<1>5. ASSUME NEW t \in Tasks, NEW refused \in BOOLEAN, StartTask(t, refused)  PROVE CInv'
  BY <1>5, StartKept
<1>6. CASE Commit
  BY <1>6, CommitKept
<1>7. CASE PassDies
  <2>1. PassEnds /\ UNCHANGED <<status, place>>
    BY <1>7 DEF PassDies, rows
  <2>2. Kept(UnderWay') /\ NotWorkflows(UnderWay')
    BY <2>1, FewerUnderWay DEF CInv
  <2> QED  BY <2>1, <2>2, EndsKept DEF CInv
<1>8. ASSUME NEW t \in Tasks, Launch(t) \/ Cancel(t) \/ CancelCloses(t) \/ Expire(t)
      PROVE  CInv'
  <2>1. UNCHANGED pass /\ UNCHANGED place
    BY <1>8 DEF Launch, Cancel, CancelCloses, Expire
  <2>2. \A s \in Tasks : status'[s] = "active" => status[s] = "active"
    BY <1>8 DEF Launch, Cancel, CancelCloses, Expire, TInv, RowsTyped
  <2> QED  BY <2>1, <2>2, EndedKept
<1>9. ASSUME NEW t \in Tasks, EndTask(t) \/ ExceedQuota(t)  PROVE CInv'
  <2>1. UNCHANGED pass /\ UNCHANGED place
    BY <1>9 DEF EndTask, ExceedQuota
  <2>2. PICK s \in Ended \cup {"pending"} : status' = [status EXCEPT ![t] = s]
    BY <1>9 DEF EndTask, ExceedQuota
  <2>3. \A r \in Tasks : status'[r] = "active" => status[r] = "active"
    BY <2>2 DEF Ended, TInv, RowsTyped
  <2> QED  BY <2>1, <2>3, EndedKept
<1>10. ASSUME NEW n \in Nodes, LoseController(n)  PROVE CInv'
  <2>1. PICK waiting :
           /\ status' = [t \in Tasks |-> IF t \in waiting THEN "pending" ELSE status[t]]
           /\ place' = [t \in Tasks |-> IF t \in waiting
                                        THEN [place[t] EXCEPT !.node = None, !.controller = None]
                                        ELSE place[t]]
    BY <1>10 DEF LoseController
  <2>2. \A s \in Tasks : status'[s] = "active" => status[s] = "active" /\ place'[s] = place[s]
    BY <2>1
  <2>3. UNCHANGED pass
    BY <1>10 DEF LoseController
  <2> QED  BY <2>2, <2>3, EndedKept
<1>11. CASE UNCHANGED vars
  <2>1. UNCHANGED pass /\ UNCHANGED <<status, place>>
    BY <1>11 DEF vars, pass
  <2> QED  BY <2>1, EndedKept
<1> QED  BY <1>1, <1>2, <1>3, <1>4, <1>5, <1>6, <1>7, <1>8, <1>9, <1>10, <1>11
         DEF Next, TaskManagerStep, Decides

\* However many tasks start in one pass and whatever ends, is handed back or
\* cut off meanwhile: an instance is over its capacity only for one job that
\* found it idle, and no container group has more jobs than it allows.
THEOREM CapacityIsKept == Spec => []CapacityKept
<1>1. Init => CInv
  <2> SUFFICES ASSUME Init  PROVE CInv
    OBVIOUS
  <2>1. on = NoneCounted /\ todo = {} /\ pc = "idle" /\ \A t \in Tasks : status[t] = "new"
    BY DEF Init
  <2>2. UnderWay = NoneCounted
    <3>1. DOMAIN UnderWay = {}
      BY <2>1 DEF UnderWay
    <3> QED  BY <2>1, <3>1 DEF UnderWay, NoneCounted
  <2> QED  BY <2>1, <2>2, NoneKept DEF CInv, SamePlaces
<1>2. Init => TInv
  BY InitTyped
<1>3. IInv /\ TInv /\ [Next]_vars => TInv'
  BY StepTyped
<1>4. IInv /\ TInv /\ CInv /\ [Next]_vars => CInv'
  BY StepKept
<1>5. CInv => CapacityKept
  BY DEF CInv, Kept, Within, Admits, CapacityKept
<1> QED  BY <1>1, <1>2, <1>3, <1>4, <1>5, Invariant, PTL DEF Spec
=============================================================================
