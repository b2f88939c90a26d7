-------------------------- MODULE StepManagerProofs --------------------------
(****************************************************************************)
(* The scheduler's promises, for every set of steps, every dependency and   *)
(* invalidation relation and every schedule length.                         *)
(****************************************************************************)
EXTENDS StepManager, FiniteSetTheorems, TLAPS

(* Type correctness of the scheduler: the schedule is a sequence of steps   *)
(* and both bookkeeping sets are sets of steps.                             *)
THEOREM TypeCorrect == Spec => []TypeOK
<1>1. Init => TypeOK
  BY DEF Init, TypeOK
<1>2. TypeOK /\ [Next]_vars => TypeOK'
  <2> SUFFICES ASSUME TypeOK, [Next]_vars PROVE TypeOK'
    OBVIOUS
  <2>1. ASSUME NEW s \in StepIDs, AddStep(s) PROVE TypeOK'
    BY <2>1, StepsAssumption DEF AddStep, TypeOK, InsertedWith, InvalidatedWith
  <2>2. CASE Reset
    BY <2>2 DEF Reset, TypeOK
  <2>3. CASE StartRun
    BY <2>3 DEF StartRun, TypeOK
  <2>4. CASE RunStep
    BY <2>4 DEF RunStep, TypeOK
  <2>5. CASE FinishRun
    BY <2>5 DEF FinishRun, TypeOK
  <2>6. CASE UNCHANGED vars
    BY <2>6 DEF vars, TypeOK
  <2>7. QED
    BY <2>1, <2>2, <2>3, <2>4, <2>5, <2>6 DEF Next
<1>3. QED
  BY <1>1, <1>2, PTL DEF Spec

------------------------------------------------------------------------------
(* Appending a step s to the schedule: at the positions the schedule had,   *)
(* what is in effect does not change.                                       *)
LEMMA AppendKeepsPast ==
  ASSUME TypeOK, NEW s \in StepIDs, Schedule' = Append(Schedule, s),
         NEW t \in StepIDs, NEW i \in 1..(Len(Schedule) + 1)
  PROVE  InEffectAt(t, i)' <=> InEffectAt(t, i)
<1>1. /\ Schedule \in Seq(StepIDs)
      /\ \A k \in 1..Len(Schedule) : Schedule'[k] = Schedule[k]
  BY DEF TypeOK
<1>2. \A k \in 1..(i - 1) : Schedule'[k] = Schedule[k]
  BY <1>1
<1>3. QED
  BY <1>2 DEF InEffectAt

(* At the new end of the schedule, exactly s and the steps that were in     *)
(* effect and that s does not invalidate are in effect.                     *)
LEMMA AppendAtEnd ==
  ASSUME TypeOK, NEW s \in StepIDs, Schedule' = Append(Schedule, s),
         NEW t \in StepIDs
  PROVE  InEffectAt(t, Len(Schedule) + 1)' <=>
           t = s \/ (InEffectAt(t, Len(Schedule) + 1) /\ t \notin Invalidated[s])
<1> DEFINE n == Len(Schedule)
<1>1. /\ Schedule \in Seq(StepIDs)
      /\ n \in Nat
      /\ Len(Schedule') = n + 1
      /\ Schedule'[n + 1] = s
      /\ \A k \in 1..n : Schedule'[k] = Schedule[k]
  BY DEF TypeOK
<1>2. ASSUME InEffectAt(t, n + 1)', t # s
      PROVE  InEffectAt(t, n + 1) /\ t \notin Invalidated[s]
  <2>1. PICK j \in 1..(n + 1) :
           /\ Schedule'[j] = t
           /\ \A k \in (j + 1)..(n + 1) : t \notin Invalidated[Schedule'[k]]
    BY <1>1, <1>2 DEF InEffectAt
  <2>2. j \in 1..n
    BY <1>1, <1>2, <2>1
  <2>3. t \notin Invalidated[s]
    BY <1>1, <2>1, <2>2
  <2>4. /\ Schedule[j] = t
        /\ \A k \in (j + 1)..n : t \notin Invalidated[Schedule[k]]
    BY <1>1, <2>1, <2>2
  <2>5. QED
    BY <1>1, <2>2, <2>3, <2>4 DEF InEffectAt
<1>3. ASSUME t = s PROVE InEffectAt(t, n + 1)'
  BY <1>1, <1>3 DEF InEffectAt
<1>4. ASSUME InEffectAt(t, n + 1), t \notin Invalidated[s]
      PROVE  InEffectAt(t, n + 1)'
  <2>1. PICK j \in 1..n :
           /\ Schedule[j] = t
           /\ \A k \in (j + 1)..n : t \notin Invalidated[Schedule[k]]
    BY <1>1, <1>4 DEF InEffectAt
  <2>2. \A k \in (j + 1)..(n + 1) : t \notin Invalidated[Schedule'[k]]
    BY <1>1, <1>4, <2>1
  <2>3. QED
    BY <1>1, <2>1, <2>2 DEF InEffectAt
<1>5. QED
  BY <1>2, <1>3, <1>4

------------------------------------------------------------------------------
(* The inductive invariant: the bookkeeping sets summarise the schedule,    *)
(* and that is all addStep looks at when it accepts a step.                 *)
IInv == TypeOK /\ InsertedIsInEffect /\ DependenciesInEffect

LEMMA AddStepKeepsIInv ==
  ASSUME IInv, TypeOK', NEW s \in StepIDs, AddStep(s)
  PROVE  IInv'
<1> DEFINE n == Len(Schedule)
<1>1. /\ TypeOK
      /\ Schedule' = Append(Schedule, s)
      /\ InsertedSteps' = (InsertedSteps \ Invalidated[s]) \cup {s}
      /\ InvalidatedSteps' =
           (InvalidatedSteps \cup (Invalidated[s] \cap InsertedSteps)) \ {s}
      /\ s \notin Invalidated[s]
      /\ \A d \in Dependencies[s] : d \in InsertedSteps
  BY DEF IInv, AddStep, IsAccepted, IsNotValid, InsertedWith, InvalidatedWith
<1>2. /\ n \in Nat
      /\ Len(Schedule') = n + 1
      /\ Schedule'[n + 1] = s
      /\ \A k \in 1..n : Schedule'[k] = Schedule[k] /\ Schedule[k] \in StepIDs
  BY <1>1 DEF TypeOK
<1>3. \A t \in StepIDs : t \in InsertedSteps <=> InEffectAt(t, n + 1)
  BY DEF IInv, InsertedIsInEffect
<1>4. \A t \in StepIDs :
        InEffectAt(t, Len(Schedule) + 1)' <=>
          t = s \/ (t \in InsertedSteps /\ t \notin Invalidated[s])
  BY <1>1, <1>3, AppendAtEnd
<1>5. InsertedSteps' = {t \in StepIDs : InEffectAt(t, Len(Schedule) + 1)}'
  BY <1>1, <1>4 DEF TypeOK
<1>6. InvalidatedSteps' =
        {t \in StepIDs : /\ \E j \in 1..Len(Schedule) : Schedule[j] = t
                         /\ ~InEffectAt(t, Len(Schedule) + 1)}'
  <2>1. \A t \in StepIDs :
          (\E j \in 1..Len(Schedule') : Schedule'[j] = t) <=>
            t = s \/ (\E j \in 1..n : Schedule[j] = t)
    BY <1>2
  <2>2. \A t \in StepIDs :
          t \in InvalidatedSteps <=>
            /\ \E j \in 1..n : Schedule[j] = t
            /\ t \notin InsertedSteps
    BY <1>3 DEF IInv, InsertedIsInEffect
  <2>3. \A t \in InsertedSteps : \E j \in 1..n : Schedule[j] = t
    BY <1>1, <1>2, <1>3 DEF InEffectAt, TypeOK
  <2>4. \A t \in StepIDs :
          t \in InvalidatedSteps' <=>
            /\ \E j \in 1..Len(Schedule') : Schedule'[j] = t
            /\ ~InEffectAt(t, Len(Schedule) + 1)'
    BY <1>1, <1>4, <2>1, <2>2, <2>3
  <2>5. InvalidatedSteps' \subseteq StepIDs
    BY DEF TypeOK
  <2>6. QED
    BY <2>4, <2>5
<1>7. DependenciesInEffect'
  <2> SUFFICES ASSUME NEW i \in 1..(n + 1), NEW d \in Dependencies[Schedule'[i]]
               PROVE  InEffectAt(d, i)'
    BY <1>2 DEF DependenciesInEffect
  <2>1. /\ Schedule'[i] \in StepIDs
        /\ d \in StepIDs
    BY <1>2, StepsAssumption
  <2>2. InEffectAt(d, i)' <=> InEffectAt(d, i)
    BY <1>1, <2>1, AppendKeepsPast
  <2>3. CASE i \in 1..n
    BY <1>2, <2>2, <2>3 DEF IInv, DependenciesInEffect
  <2>4. CASE i = n + 1
    BY <1>1, <1>2, <1>3, <2>1, <2>2, <2>4
  <2>5. QED
    BY <1>2, <2>3, <2>4
<1>8. QED
  BY <1>5, <1>6, <1>7 DEF IInv, InsertedIsInEffect

LEMMA ResetGivesIInv ==
  ASSUME TypeOK', Reset PROVE IInv'
BY DEF Reset, IInv, InsertedIsInEffect, DependenciesInEffect, InEffectAt

LEMMA UnchangedKeepsIInv ==
  ASSUME IInv, TypeOK', UNCHANGED <<Schedule, InsertedSteps, InvalidatedSteps>>
  PROVE  IInv'
BY DEF IInv, InsertedIsInEffect, DependenciesInEffect, InEffectAt

LEMMA Inductive == Spec => []IInv
<1>1. Init => IInv
  BY DEF Init, IInv, TypeOK, InsertedIsInEffect, DependenciesInEffect, InEffectAt
<1>2. TypeOK /\ TypeOK' /\ IInv /\ [Next]_vars => IInv'
  <2> SUFFICES ASSUME TypeOK, TypeOK', IInv, [Next]_vars PROVE IInv'
    OBVIOUS
  <2>1. ASSUME NEW s \in StepIDs, AddStep(s) PROVE IInv'
    BY <2>1, AddStepKeepsIInv
  <2>2. CASE Reset
    BY <2>2, ResetGivesIInv
  <2>3. CASE StartRun
    BY <2>3, UnchangedKeepsIInv DEF StartRun
  <2>4. CASE RunStep
    BY <2>4, UnchangedKeepsIInv DEF RunStep
  <2>5. CASE FinishRun
    BY <2>5, UnchangedKeepsIInv DEF FinishRun
  <2>6. CASE UNCHANGED vars
    BY <2>6, UnchangedKeepsIInv DEF vars
  <2>7. QED
    BY <2>1, <2>2, <2>3, <2>4, <2>5, <2>6 DEF Next
<1>3. QED
  BY <1>1, <1>2, TypeCorrect, PTL DEF Spec

(* Whichever steps are offered to addStep, in whatever order, every step of *)
(* the schedule finds all its dependencies before it and still in effect.   *)
THEOREM ScheduleRespectsDependencies == Spec => []DependenciesInEffect
BY Inductive, PTL DEF IInv

(* The two sets addStep consults never drift from the schedule they stand   *)
(* for, so refusing or accepting by them is refusing or accepting by it.    *)
THEOREM BookkeepingMatchesSchedule == Spec => []InsertedIsInEffect
BY Inductive, PTL DEF IInv
------------------------------------------------------------------------------
(* A set of naturals that is not empty has a least element.                 *)
LEMMA LeastOf ==
  ASSUME NEW S \in SUBSET Nat, S # {}
  PROVE  \E x \in S : \A y \in S : x <= y
<1> DEFINE T == {0..n : n \in S}
<1>1. T \subseteq FiniteSubsetsOf(Nat) /\ T # {}
  <2>1. \A n \in S : IsFiniteSet(0..n)
    BY FS_Interval
  <2>2. \A n \in S : 0..n \in SUBSET Nat
    OBVIOUS
  <2>3. QED
    BY <2>1, <2>2 DEF FiniteSubsetsOf
<1>2. \E x \in T : \A y \in T : ~(<<y, x>> \in StrictSubsetOrdering(Nat))
  <2> HIDE DEF T
  <2>1. IsWellFoundedOn(StrictSubsetOrdering(Nat), FiniteSubsetsOf(Nat))
    BY FS_StrictSubsetOrderingWellFounded
  <2>2. QED
    BY <1>1, <2>1, WFMin
<1>3. PICK n \in S : \A m \in S : ~(<<0..m, 0..n>> \in StrictSubsetOrdering(Nat))
  BY <1>2
<1>4. ASSUME NEW m \in S, m < n PROVE FALSE
  <2>1. 0..m \in SUBSET Nat /\ 0..n \in SUBSET Nat
    OBVIOUS
  <2>2. 0..m \subseteq 0..n /\ n \in 0..n /\ n \notin 0..m
    BY <1>4
  <2>3. QED
    BY <1>3, <2>1, <2>2 DEF StrictSubsetOrdering
<1>5. QED
  BY <1>4

(* The walk of intersect finds nothing in two ranges that have no element   *)
(* in common, sorted or not: it never compares two equal addresses, and it  *)
(* gets closer to the end of one of them in every iteration.                *)
LEMMA DisjointDoNotIntersect ==
  ASSUME NEW p \in Seq(StepIDs), NEW q \in Seq(StepIDs),
         \A i \in 1..Len(p), j \in 1..Len(q) : p[i] # q[j]
  PROVE  ~Intersect(p, q)
<1> DEFINE n == Len(p)
           m == Len(q)
           D == (1..n+1) \X (1..m+1)
           W(f, ij) == IF ij[1] > n \/ ij[2] > m THEN FALSE
                       ELSE IF Rank[p[ij[1]]] < Rank[q[ij[2]]] THEN f[<<ij[1] + 1, ij[2]>>]
                       ELSE IF Rank[q[ij[2]]] < Rank[p[ij[1]]] THEN f[<<ij[1], ij[2] + 1>>]
                       ELSE TRUE
           walk == CHOOSE f : f = [ij \in D |-> W(f, ij)]
<1>1. n \in Nat /\ m \in Nat
  OBVIOUS
<1>2. \A i \in 1..n, j \in 1..m : Rank[p[i]] < Rank[q[j]] \/ Rank[q[j]] < Rank[p[i]]
  <2> SUFFICES ASSUME NEW i \in 1..n, NEW j \in 1..m
               PROVE  Rank[p[i]] < Rank[q[j]] \/ Rank[q[j]] < Rank[p[i]]
    OBVIOUS
  <2>1. p[i] \in StepIDs /\ q[j] \in StepIDs /\ p[i] # q[j]
    OBVIOUS
  <2>2. Rank[p[i]] \in Nat /\ Rank[q[j]] \in Nat /\ Rank[p[i]] # Rank[q[j]]
    BY <2>1, RankAssumption
  <2>3. QED
    BY <2>2
<1>3. walk = [ij \in D |-> W(walk, ij)]
  <2> DEFINE none == [ij \in D |-> FALSE]
  <2>1. ASSUME NEW i \in 1..n+1, NEW j \in 1..m+1 PROVE W(none, <<i, j>>) = FALSE
    <3>1. i <= n => <<i + 1, j>> \in D
      BY <1>1
    <3>2. j <= m => <<i, j + 1>> \in D
      BY <1>1
    <3>3. CASE i > n \/ j > m
      BY <3>3
    <3>4. CASE i <= n /\ j <= m
      <4>1. Rank[p[i]] < Rank[q[j]] \/ Rank[q[j]] < Rank[p[i]]
        BY <1>1, <1>2, <3>4
      <4>2. none[<<i + 1, j>>] = FALSE /\ none[<<i, j + 1>>] = FALSE
        BY <3>1, <3>2, <3>4
      <4> HIDE DEF none
      <4>3. QED
        BY <4>1, <4>2
    <3>5. (i > n \/ j > m) \/ (i <= n /\ j <= m)
      BY <1>1
    <3>6. QED
      BY <3>3, <3>4, <3>5, Zenon
  <2>2. ASSUME NEW ij \in D PROVE W(none, ij) = FALSE
    <3>1. PICK i \in 1..n+1, j \in 1..m+1 : ij = <<i, j>>
      OBVIOUS
    <3> HIDE DEF W, none
    <3>2. QED
      BY <2>1, <3>1
  <2>3. none = [ij \in D |-> W(none, ij)]
    <3> HIDE DEF W
    <3>1. QED
      BY <2>2
  <2> HIDE DEF none, W, D
  <2>4. QED
    BY <2>3
<1>4. \A i \in 1..n+1, j \in 1..m+1 : walk[<<i, j>>] = W(walk, <<i, j>>)
  <2> HIDE DEF W, walk
  <2>1. QED
    BY <1>3
<1> HIDE DEF walk
<1> DEFINE at(i, j) == walk[<<i, j>>]
<1>5. ASSUME NEW i \in 1..n+1, NEW j \in 1..m+1, at(i, j) # FALSE
      PROVE  /\ i <= n /\ j <= m
             /\ at(i + 1, j) # FALSE \/ at(i, j + 1) # FALSE
  <2>1. at(i, j) = IF i > n \/ j > m THEN FALSE
                   ELSE IF Rank[p[i]] < Rank[q[j]] THEN at(i + 1, j)
                   ELSE IF Rank[q[j]] < Rank[p[i]] THEN at(i, j + 1)
                   ELSE TRUE
    <3>1. at(i, j) = W(walk, <<i, j>>)
      BY <1>4
    <3> DEFINE a == walk[<<i + 1, j>>]
               b == walk[<<i, j + 1>>]
    <3>2. <<i, j>>[1] = i /\ <<i, j>>[2] = j
      OBVIOUS
    <3> HIDE DEF n, m
    <3>3. QED
      BY <3>1, <3>2, Zenon
  <2> HIDE DEF at
  <2>2. ~(i > n \/ j > m)
    BY <2>1, <1>5, Zenon
  <2>3. i <= n /\ j <= m /\ i \in 1..n /\ j \in 1..m
    BY <2>2, <1>1
  <2>4. CASE Rank[p[i]] < Rank[q[j]]
    <3>1. at(i, j) = at(i + 1, j)
      BY <2>1, <2>2, <2>4, Zenon
    <3>2. QED
      BY <3>1, <1>5, <2>3, Zenon
  <2>5. CASE Rank[q[j]] < Rank[p[i]]
    <3>1. ~(Rank[p[i]] < Rank[q[j]])
      <4>1. p[i] \in StepIDs /\ q[j] \in StepIDs
        BY <2>3
      <4>2. Rank[p[i]] \in Nat /\ Rank[q[j]] \in Nat
        BY <4>1, RankAssumption
      <4>3. QED
        BY <4>2, <2>5
    <3>2. at(i, j) = at(i, j + 1)
      BY <2>1, <2>2, <2>5, <3>1, Zenon
    <3>3. QED
      BY <3>2, <1>5, <2>3, Zenon
  <2>6. QED
    BY <1>2, <2>3, <2>4, <2>5, Zenon
<1> HIDE DEF at
<1>6. at(1, 1) = FALSE
  <2> DEFINE bad == {k \in Nat : \E i \in 1..n+1, j \in 1..m+1 :
                       at(i, j) # FALSE /\ k + i + j = n + m + 2}
  <2> SUFFICES ASSUME at(1, 1) # FALSE PROVE FALSE
    OBVIOUS
  <2> HIDE DEF n, m
  <2>1. n + m \in bad
    <3>1. 1 \in 1..n+1 /\ 1 \in 1..m+1 /\ n + m \in Nat /\ n + m + 1 + 1 = n + m + 2
      BY <1>1
    <3>2. QED
      BY <3>1
  <2>2. PICK k \in bad : \A l \in bad : k <= l
    <3>1. bad \in SUBSET Nat
      OBVIOUS
    <3> HIDE DEF bad
    <3>2. QED
      BY <2>1, <3>1, LeastOf
  <2>3. PICK i \in 1..n+1, j \in 1..m+1 : at(i, j) # FALSE /\ k + i + j = n + m + 2
    BY <2>2
  <2>4. i <= n /\ j <= m /\ (at(i + 1, j) # FALSE \/ at(i, j + 1) # FALSE)
    BY <1>5, <2>3
  <2>5. k \in Nat /\ k - 1 \in Nat
    BY <2>2, <2>3, <2>4, <1>1
  <2>6. k - 1 \in bad
    <3>1. CASE at(i + 1, j) # FALSE
      <4>1. i + 1 \in 1..n+1 /\ (k - 1) + (i + 1) + j = n + m + 2
        BY <2>3, <2>4, <2>5, <1>1
      <4>2. QED
        BY <3>1, <4>1, <2>5
    <3>2. CASE at(i, j + 1) # FALSE
      <4>1. j + 1 \in 1..m+1 /\ (k - 1) + i + (j + 1) = n + m + 2
        BY <2>3, <2>4, <2>5, <1>1
      <4>2. QED
        BY <3>2, <4>1, <2>5
    <3>3. QED
      BY <2>4, <3>1, <3>2
  <2>7. QED
    <3> HIDE DEF bad
    <3>1. k <= k - 1
      BY <2>2, <2>6
    <3>2. QED
      BY <3>1, <2>5
<1>7. QED
  BY <1>6 DEF Intersect, walk, at

(* Whatever order a set enumerates in, it enumerates a sequence of its      *)
(* elements.                                                                *)
LEMMA EnumerationsAreSequences ==
  ASSUME NEW S \in SUBSET StepIDs, NEW p \in Enumerations(S)
  PROVE  p \in Seq(StepIDs) /\ \A i \in 1..Len(p) : p[i] \in S
<1>1. IsFiniteSet(S)
  BY FS_Subset, StepsAssumption
<1>2. Cardinality(S) \in Nat
  BY <1>1, FS_CardinalityType
<1>3. p \in [1..Cardinality(S) -> S]
  BY DEF Enumerations
<1>4. QED
  BY <1>2, <1>3

(* The sets that addStep keeps have no step in common, since a step is in   *)
(* one of them if it is in effect, and in the other if it is not.           *)
LEMMA BookkeepingIsDisjoint ==
  ASSUME InsertedIsInEffect PROVE InsertedSteps \cap InvalidatedSteps = {}
BY DEF InsertedIsInEffect

(* run never aborts: hasValidSchedule, whose intersect takes for sorted two *)
(* ranges that are not, still finds every schedule that addStep built valid.*)
THEOREM NeverAborts == Spec => []NeverAborted
<1>1. Init => NeverAborted
  BY DEF Init, NeverAborted
<1>2. TypeOK /\ IInv /\ NeverAborted /\ [Next]_vars => NeverAborted'
  <2> SUFFICES ASSUME TypeOK, IInv, NeverAborted, [Next]_vars PROVE NeverAborted'
    OBVIOUS
  <2> USE DEF NeverAborted
  <2>1. ASSUME NEW s \in StepIDs, AddStep(s) PROVE NeverAborted'
    BY <2>1 DEF AddStep
  <2>2. CASE Reset
    BY <2>2 DEF Reset
  <2>3. CASE StartRun
    <3>1. ASSUME NEW p \in Enumerations(InsertedSteps),
                 NEW q \in Enumerations(InvalidatedSteps)
          PROVE  ~Intersect(p, q)
      <4>1. InsertedSteps \in SUBSET StepIDs /\ InvalidatedSteps \in SUBSET StepIDs
        BY DEF TypeOK
      <4>2. p \in Seq(StepIDs) /\ q \in Seq(StepIDs)
        BY <4>1, EnumerationsAreSequences
      <4>3. \A i \in 1..Len(p), j \in 1..Len(q) : p[i] # q[j]
        BY <4>1, EnumerationsAreSequences, BookkeepingIsDisjoint DEF IInv
      <4>4. QED
        BY <4>2, <4>3, DisjointDoNotIntersect
    <3>2. PICK p \in Enumerations(InsertedSteps), q \in Enumerations(InvalidatedSteps) :
            pc' = IF Intersect(p, q) THEN "aborted" ELSE "running"
      BY <2>3 DEF StartRun
    <3>3. QED
      BY <3>1, <3>2
  <2>4. CASE RunStep
    BY <2>4 DEF RunStep
  <2>5. CASE FinishRun
    BY <2>5 DEF FinishRun
  <2>6. CASE UNCHANGED vars
    BY <2>6 DEF vars
  <2>7. QED
    BY <2>1, <2>2, <2>3, <2>4, <2>5, <2>6 DEF Next
<1>3. QED
  BY <1>1, <1>2, TypeCorrect, Inductive, PTL DEF Spec
=============================================================================
