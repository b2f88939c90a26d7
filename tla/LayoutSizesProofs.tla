--------------------------- MODULE LayoutSizesProofs ---------------------------
(****************************************************************************)
(* The theorems of DLANormalization about sizes, offsets and strides: that  *)
(* DecomposeStridedEdges moves no byte, whatever the schedule, and that in  *)
(* the schedule of the normalization, once the instances are a DAG, fields  *)
(* fit, strides stay valid and no assertion fails.                          *)
(****************************************************************************)
EXTENDS DLANormalizationProofs

------------------------------------------------------------------------------
(* Sets of naturals, and graphs without cycles.                             *)
LEMMA MaxOf ==
  ASSUME NEW S \in SUBSET Nat, S # {}, IsFiniteSet(S)
  PROVE  Max(S) \in S /\ \A y \in S : y <= Max(S)
<1> DEFINE above(x) == {y \in S : y > x}
           T == {above(x) : x \in S}
<1>1. T \subseteq FiniteSubsetsOf(S) /\ T # {}
  <2>1. \A x \in S : above(x) \in SUBSET S /\ IsFiniteSet(above(x))
    BY FS_Subset
  <2> QED  BY <2>1 DEF FiniteSubsetsOf
<1>2. \E X \in T : \A Y \in T : ~(<<Y, X>> \in StrictSubsetOrdering(S))
  <2> HIDE DEF T
  <2>1. IsWellFoundedOn(StrictSubsetOrdering(S), FiniteSubsetsOf(S))
    BY FS_StrictSubsetOrderingWellFounded
  <2> QED  BY <1>1, <2>1, WFMin
<1>3. PICK x \in S : \A y \in S : ~(<<above(y), above(x)>> \in StrictSubsetOrdering(S))
  BY <1>2
<1>4. ASSUME NEW y \in S, y > x PROVE FALSE
  <2>1. (\A z \in S : z > y => z > x) /\ ~(y > y)
    BY <1>4
  <2>2. above(y) \subseteq above(x) /\ y \in above(x) /\ y \notin above(y)
    BY <1>4, <2>1, Zenon
  <2>3. above(x) \in SUBSET S /\ above(y) \in SUBSET S
    OBVIOUS
  <2> QED  BY <1>3, <2>2, <2>3 DEF StrictSubsetOrdering
<1>5. \E z \in S : \A y \in S : z >= y
  BY <1>4
<1> QED  BY <1>5 DEF Max

LEMMA MinOf ==
  ASSUME NEW S \in SUBSET Nat, S # {}
  PROVE  Min(S) \in S
BY LeastOf DEF Min

(* No set of edges where each one is followed by another of the set, and    *)
(* none where each one follows another.                                     *)
Followed(X) == \A e \in X : \E f \in X : f.src = e.tgt
Preceded(X) == \A e \in X : \E f \in X : f.tgt = e.src
Grounded(edges) == \A X \in SUBSET edges : Followed(X) \/ Preceded(X) => X = {}

LEMMA AcyclicIsGrounded ==
  ASSUME NEW edges, IsFiniteSet(edges), isAcyclic(edges)
  PROVE  Grounded(edges)
<1> DEFINE K == Cardinality(edges)
<1>1. PICK left : /\ left[0] = edges
                  /\ \A k \in Nat : left[k + 1] = LeadsOn(left[k])
                  /\ left[K] = {}
  BY PeelingEdges
<1>2. K \in Nat
  BY FS_CardinalityType
<1> HIDE DEF K
<1>3. \A k \in Nat : k # 0 => k - 1 \in Nat /\ (k - 1) + 1 = k
  OBVIOUS
<1>4. SUFFICES ASSUME NEW X \in SUBSET edges, Followed(X) \/ Preceded(X), X # {}
               PROVE  \A k \in Nat : X \cap left[k] # {}
  BY <1>1, <1>2 DEF Grounded
<1>5. CASE Followed(X)
  <2> DEFINE bad == {k \in Nat : ~(X \subseteq left[k])}
  <2>1. ASSUME bad # {} PROVE FALSE
    <3>1. PICK k \in bad : \A j \in bad : k <= j
      BY <2>1, LeastOf
    <3>2. k # 0
      BY <1>1
    <3>3. k - 1 \in Nat /\ (k - 1) + 1 = k /\ X \subseteq left[k - 1]
      BY <1>3, <3>1, <3>2
    <3>4. left[k] = LeadsOn(left[k - 1])
      BY <1>1, <3>3
    <3> QED  BY <1>5, <3>1, <3>3, <3>4 DEF LeadsOn, Followed
  <2> QED  BY <1>4, <2>1
<1>6. CASE Preceded(X)
  <2>1. \A j \in Nat : left[j + 1] \subseteq left[j]
    BY <1>1 DEF LeadsOn
  <2>2. ASSUME NEW k \in Nat, NEW e \in left[k] \cap X, NEW f \in X, f.tgt = e.src
        PROVE  \A j \in Nat : j <= k + 1 => f \in left[j]
    <3> DEFINE lost == {j \in Nat : j <= k + 1 /\ f \notin left[j]}
               gone == {j \in Nat : j <= k /\ e \notin left[k - j]}
    <3>1. gone = {}
      <4> SUFFICES ASSUME gone # {} PROVE FALSE
        OBVIOUS
      <4>1. PICK i \in gone : \A j \in gone : i <= j
        BY LeastOf
      <4>2. i # 0
        BY <2>2
      <4>3. i - 1 \in Nat /\ i - 1 <= k /\ i - 1 \notin gone /\ k - i \in Nat /\ (k - i) + 1 = k - (i - 1)
        BY <4>1, <4>2
      <4> QED  BY <2>1, <4>1, <4>3
    <3>2. \A j \in Nat : j <= k => e \in left[j]
      <4> SUFFICES ASSUME NEW j \in Nat, j <= k PROVE e \in left[j]
        OBVIOUS
      <4>1. k - j \in Nat /\ k - j <= k /\ k - (k - j) = j
        OBVIOUS
      <4> QED  BY <3>1, <4>1
    <3>3. ASSUME lost # {} PROVE FALSE
      <4>1. PICK j \in lost : \A i \in lost : j <= i
        BY <3>3, LeastOf
      <4>2. j # 0
        BY <1>1
      <4>3. j - 1 \in Nat /\ (j - 1) + 1 = j /\ j - 1 <= k /\ j - 1 \notin lost
        BY <4>1, <4>2
      <4>4. f \in left[j - 1] /\ e \in left[j - 1] /\ left[j] = LeadsOn(left[j - 1])
        BY <1>1, <3>2, <4>3
      <4> QED  BY <2>2, <4>1, <4>4 DEF LeadsOn
    <3> QED  BY <3>3
  <2> DEFINE bad == {k \in Nat : X \cap left[k] = {}}
  <2>3. ASSUME bad # {} PROVE FALSE
    <3>1. PICK k \in bad : \A j \in bad : k <= j
      BY <2>3, LeastOf
    <3>2. k # 0
      BY <1>1, <1>4
    <3>3. k - 1 \in Nat /\ (k - 1) + 1 = k /\ X \cap left[k - 1] # {}
      BY <1>3, <3>1, <3>2
    <3>4. PICK e \in X : e \in left[k - 1]
      BY <3>3
    <3>5. PICK f \in X : f.tgt = e.src
      BY <1>6 DEF Preceded
    <3>6. f \in left[(k - 1) + 1]
      BY <2>2, <3>3, <3>4, <3>5
    <3> QED  BY <3>1, <3>3, <3>6
  <2> QED  BY <2>3
<1> QED  BY <1>4, <1>5, <1>6

LEMMA FewerEdgesAreGrounded ==
  ASSUME NEW edges, Grounded(edges), NEW fewer \in SUBSET edges
  PROVE  Grounded(fewer)
BY DEF Grounded

(* A visit in post-order of some nodes takes one whose edges all lead out   *)
(* of them.                                                                 *)
LEMMA NextIsReady ==
  ASSUME NEW edges, Grounded(edges), NEW todo \in SUBSET Nat, todo # {}
  PROVE  LET n == nextInPostOrder(todo, edges) IN
         n \in todo /\ \A e \in edges : e.src = n => e.tgt \notin todo
<1> DEFINE ready == {n \in todo : \A e \in edges : e.src = n => e.tgt \notin todo}
           X == {e \in edges : e.src \in todo /\ e.tgt \in todo}
<1>1. ready # {}
  <2> SUFFICES ASSUME ready = {} PROVE FALSE
    OBVIOUS
  <2>1. \A n \in todo : \E e \in X : e.src = n
    OBVIOUS
  <2>2. Followed(X) /\ X # {}
    BY <2>1 DEF Followed
  <2>3. X \in SUBSET edges
    OBVIOUS
  <2> HIDE DEF X, ready
  <2> QED  BY <2>2, <2>3 DEF Grounded
<1>2. nextInPostOrder(todo, edges) = Min(ready)
  BY <1>1 DEF nextInPostOrder
<1>3. Min(ready) \in ready
  <2>1. ready \in SUBSET Nat
    OBVIOUS
  <2> HIDE DEF ready
  <2> QED  BY <1>1, <2>1, MinOf
<1> QED  BY <1>2, <1>3

(* The visits from the roots get to every node.                             *)
LEMMA VisitsReachEveryNode ==
  ASSUME NEW sys, WellFormed(sys), NEW edges \in SUBSET sys.Succ, Grounded(edges),
         NEW roots, \A n \in sys.Layouts : n \in roots \/ \E e \in edges : e.tgt = n
  PROVE  \A n \in sys.Layouts : n \in visitedFrom(roots, edges)
<1> DEFINE V == visitedFrom(roots, edges)
           X == {e \in edges : e.tgt \notin V}
<1>1. IsFiniteSet({e.tgt : e \in edges})
  BY LiveNodesAreFinite
<1>2. \A r \in roots : r \in V
  BY <1>1, ReachableIsLeastClosed DEF visitedFrom
<1>3. \A e \in edges : e.src \in V => e.tgt \in V
  BY <1>1, ReachableIsLeastClosed DEF visitedFrom, Closed
<1>4. Preceded(X)
  <2> SUFFICES ASSUME NEW e \in X PROVE \E f \in X : f.tgt = e.src
    BY DEF Preceded
  <2>1. e.src \in sys.Layouts /\ e.src \notin V
    BY <1>3 DEF WellFormed, Joins
  <2> QED  BY <1>2, <2>1
<1>5. X = {}
  <2>1. X \in SUBSET edges
    OBVIOUS
  <2> HIDE DEF X
  <2> QED  BY <1>4, <2>1 DEF Grounded
<1> QED  BY <1>2, <1>5

LEMMA EveryNodeIsVisited ==
  ASSUME NEW sys, WellFormed(sys), Grounded(NonPointerEdges(sys))
  PROVE  /\ \A n \in sys.Layouts : n \in FromRoots(sys)
         /\ \A n \in sys.Layouts : n \in FromInstanceRoots(sys)
         /\ FromRoots(sys) \subseteq sys.Layouts /\ FromInstanceRoots(sys) \subseteq sys.Layouts
<1> DEFINE roots == {n \in sys.Layouts : IsRoot(sys, n)}
           instanceRoots == {n \in sys.Layouts : IsInstanceRoot(sys, n)}
<1>1. NonPointerEdges(sys) \in SUBSET sys.Succ /\ InstancesOf(sys) \in SUBSET NonPointerEdges(sys)
  BY DEF NonPointerEdges, InstancesOf, IsInstanceEdge, IsPointerEdge, IsNotPointerEdge
<1>2. Grounded(InstancesOf(sys))
  BY <1>1, FewerEdgesAreGrounded
<1>3. sys.Pred = sys.Succ
  BY DEF WellFormed
<1>4. \A n \in sys.Layouts : n \in roots \/ \E e \in NonPointerEdges(sys) : e.tgt = n
  BY <1>3 DEF IsRoot, PredecessorEdges, NonPointerEdges, IsNotPointerEdge
<1>5. \A n \in sys.Layouts : n \in instanceRoots \/ \E e \in InstancesOf(sys) : e.tgt = n
  BY <1>3 DEF IsInstanceRoot, PredecessorEdges, InstancesOf
<1>6. ASSUME NEW edges \in SUBSET sys.Succ, NEW r \in sys.Layouts
      PROVE  reachable(edges, r) \subseteq sys.Layouts
  <2>1. Closed(edges, sys.Layouts)
    BY DEF Closed, WellFormed, Joins
  <2> QED  BY <2>1, LiveNodesAreFinite, ReachableIsLeastClosed
<1>7. FromRoots(sys) \subseteq sys.Layouts /\ FromInstanceRoots(sys) \subseteq sys.Layouts
  BY <1>1, <1>6 DEF FromRoots, FromInstanceRoots, visitedFrom
<1>8. InstancesOf(sys) \in SUBSET sys.Succ
  BY <1>1
<1> HIDE DEF roots, instanceRoots
<1>9. /\ \A n \in sys.Layouts : n \in visitedFrom(roots, NonPointerEdges(sys))
      /\ \A n \in sys.Layouts : n \in visitedFrom(instanceRoots, InstancesOf(sys))
  BY <1>1, <1>2, <1>4, <1>5, <1>8, VisitsReachEveryNode
<1> QED  BY <1>7, <1>9 DEF FromRoots, FromInstanceRoots, roots, instanceRoots

------------------------------------------------------------------------------
(* The post-order of a visit.  Every node of done, and every node of the    *)
(* order, leads only to nodes of done and to those that come before it.     *)
On(order, n) == \E i \in 1..Len(order) : order[i] = n
ChildrenFirst(edges, done, order) ==
  /\ \A i, j \in 1..Len(order) : i # j => order[i] # order[j]
  /\ \A i \in 1..Len(order) : order[i] \notin done
  /\ \A e \in edges : e.src \in done => e.tgt \in done
  /\ \A i \in 1..Len(order) : \A e \in edges : e.src = order[i] =>
       e.tgt \in done \/ \E j \in 1..(i - 1) : e.tgt = order[j]

Entries(nodes) == [node : nodes, left : SUBSET nodes]

(* What holds of the visit before each step: the stack is a path of nodes   *)
(* whose children are visited, next on the stack, or still to be looked at. *)
SeenNodes(nodes, v) ==
  \A n \in nodes : n \in v.seen <=>
    On(v.order, n) \/ \E i \in 1..Len(v.stack) : v.stack[i].node = n
StackIsApart(v) ==
  \A i \in 1..Len(v.stack) :
    /\ ~On(v.order, v.stack[i].node)
    /\ \A j \in 1..Len(v.stack) : i # j => v.stack[i].node # v.stack[j].node
ChildrenLooked(edges, v) ==
  \A i \in 1..Len(v.stack) : \A e \in edges : e.src = v.stack[i].node =>
    \/ e.tgt \in v.stack[i].left
    \/ On(v.order, e.tgt)
    \/ i < Len(v.stack) /\ e.tgt = v.stack[i + 1].node
LeftAreChildren(edges, v) ==
  \A i \in 1..Len(v.stack) : \A c \in v.stack[i].left :
    \E e \in edges : e.src = v.stack[i].node /\ e.tgt = c
StackIsPath(edges, v) ==
  \A i \in 1..(Len(v.stack) - 1) :
    \E e \in edges : e.src = v.stack[i].node /\ e.tgt = v.stack[i + 1].node

VisitIsSound(edges, nodes, v) ==
  /\ v.stack \in Seq(Entries(nodes)) /\ v.order \in Seq(nodes)
  /\ ChildrenFirst(edges, {}, v.order)
  /\ SeenNodes(nodes, v) /\ StackIsApart(v)
  /\ ChildrenLooked(edges, v) /\ LeftAreChildren(edges, v) /\ StackIsPath(edges, v)

LEMMA TopOfStack ==
  ASSUME NEW nodes, NEW s \in Seq(Entries(nodes)), Len(s) > 0
  PROVE  /\ Len(s) \in Nat /\ Len(s) \in 1..Len(s)
         /\ s[Len(s)].node \in nodes /\ s[Len(s)].left \subseteq nodes
<1>1. Len(s) \in Nat /\ Len(s) \in 1..Len(s) /\ s[Len(s)] \in Entries(nodes)
  OBVIOUS
<1>2. ASSUME NEW x \in Entries(nodes) PROVE x.node \in nodes /\ x.left \subseteq nodes
  BY DEF Entries
<1> QED  BY <1>1, <1>2

JoinsOnly(edges, nodes) == \A e \in edges : e.src \in nodes /\ e.tgt \in nodes

LEMMA EntryFields ==
  ASSUME NEW edges, NEW nodes, JoinsOnly(edges, nodes), NEW n \in nodes
  PROVE  /\ visitEntry(edges, n) \in Entries(nodes)
         /\ visitEntry(edges, n).node = n
         /\ \A c : c \in visitEntry(edges, n).left <=> \E e \in edges : e.src = n /\ e.tgt = c
BY DEF visitEntry, Entries, JoinsOnly

(* A node whose children have all been looked at is popped.                 *)
LEMMA PopIsSound ==
  ASSUME NEW edges, NEW nodes, NEW v, VisitIsSound(edges, nodes, v),
         Len(v.stack) > 0, v.stack[Len(v.stack)].left = {},
         NEW w, w.stack = Front(v.stack), w.seen = v.seen,
         w.order = Append(v.order, v.stack[Len(v.stack)].node)
  PROVE  VisitIsSound(edges, nodes, w)
<1> DEFINE m == Len(v.stack)
           k == Len(v.order)
           n == v.stack[m].node
<1>1. /\ v.stack \in Seq(Entries(nodes)) /\ v.order \in Seq(nodes)
      /\ m \in Nat /\ m > 0 /\ k \in Nat /\ m \in 1..m
  BY TopOfStack DEF VisitIsSound
<1>2. n \in nodes
  BY <1>1, TopOfStack
<1>3. /\ w.stack \in Seq(Entries(nodes)) /\ Len(w.stack) = m - 1
      /\ \A i \in 1..(m - 1) : w.stack[i] = v.stack[i]
  <2> DEFINE s == v.stack
             front == Front(s)
  <2>1. s \in Seq(Entries(nodes)) /\ Len(s) > 0
    BY <1>1
  <2> HIDE DEF s
  <2>2. front \in Seq(Entries(nodes)) /\ Len(front) = Len(s) - 1
        /\ \A i \in 1..Len(front) : front[i] = s[i]
    BY <2>1, FrontFields
  <2> HIDE DEF front
  <2>3. w.stack = front
    BY DEF front, s
  <2> QED  BY <2>2, <2>3 DEF s
<1>4. /\ w.order \in Seq(nodes) /\ Len(w.order) = k + 1 /\ w.order[k + 1] = n
      /\ \A i \in 1..k : w.order[i] = v.order[i]
  BY <1>1, <1>2
<1>5. \A i \in 1..(k + 1) : i = k + 1 \/ i \in 1..k
  BY <1>1
<1>6. 1..k \subseteq 1..(k + 1) /\ k + 1 \in 1..(k + 1)
  BY <1>1
<1>7. \A x : On(w.order, x) <=> On(v.order, x) \/ x = n
  BY <1>4, <1>5, <1>6 DEF On
<1>8. \A i \in 1..(m - 1) : i \in 1..m /\ i # m
  BY <1>1
<1>9. \A i \in 1..m : i = m \/ i \in 1..(m - 1)
  BY <1>1
<1>10. ~On(v.order, n)
  BY <1>1 DEF VisitIsSound, StackIsApart
<1>11. ChildrenFirst(edges, {}, v.order)
  BY DEF VisitIsSound
<1>12. \A e \in edges : e.src = n => On(v.order, e.tgt)
  <2>1. ~(m < m)
    BY <1>1
  <2> QED  BY <1>1, <2>1 DEF VisitIsSound, ChildrenLooked
<1>13. ChildrenFirst(edges, {}, w.order)
  <2>1. ASSUME NEW i \in 1..(k + 1), NEW j \in 1..(k + 1), i # j PROVE w.order[i] # w.order[j]
    BY <1>4, <1>5, <1>10, <1>11, <2>1 DEF ChildrenFirst, On
  <2>2. ASSUME NEW i \in 1..(k + 1), NEW e \in edges, e.src = w.order[i]
        PROVE  \E j \in 1..(i - 1) : e.tgt = w.order[j]
    <3>1. CASE i = k + 1
      <4>1. (k + 1) - 1 = k
        BY <1>1
      <4>2. PICK j \in 1..k : e.tgt = v.order[j]
        BY <1>4, <1>12, <2>2, <3>1 DEF On
      <4> QED  BY <1>4, <3>1, <4>1, <4>2
    <3>2. CASE i \in 1..k
      <4>1. PICK j \in 1..(i - 1) : e.tgt = v.order[j]
        BY <1>4, <1>11, <2>2, <3>2 DEF ChildrenFirst
      <4>2. j \in 1..k
        BY <1>1, <3>2
      <4> QED  BY <1>4, <4>1, <4>2
    <3> QED  BY <1>5, <3>1, <3>2
  <2> QED  BY <1>4, <2>1, <2>2 DEF ChildrenFirst
<1>14. SeenNodes(nodes, w)
  <2>1. \A x \in nodes : x \in v.seen <=> On(v.order, x) \/ \E i \in 1..m : v.stack[i].node = x
    BY DEF VisitIsSound, SeenNodes
  <2>2. \A x : (\E i \in 1..m : v.stack[i].node = x)
                 <=> x = n \/ \E i \in 1..(m - 1) : v.stack[i].node = x
    BY <1>1, <1>8, <1>9
  <2> QED  BY <1>3, <1>7, <2>1, <2>2 DEF SeenNodes
<1>15. StackIsApart(w)
  <2>1. \A i \in 1..m : ~On(v.order, v.stack[i].node)
                        /\ \A j \in 1..m : i # j => v.stack[i].node # v.stack[j].node
    BY DEF VisitIsSound, StackIsApart
  <2>2. ASSUME NEW i \in 1..(m - 1)
        PROVE  /\ ~On(w.order, w.stack[i].node)
               /\ \A j \in 1..(m - 1) : i # j => w.stack[i].node # w.stack[j].node
    <3>1. i \in 1..m /\ i # m /\ m \in 1..m /\ w.stack[i] = v.stack[i]
      BY <1>1, <1>3, <1>8
    <3>2. v.stack[i].node # n /\ ~On(v.order, v.stack[i].node)
      BY <2>1, <3>1
    <3>3. ASSUME NEW j \in 1..(m - 1), i # j PROVE v.stack[i].node # w.stack[j].node
      BY <1>3, <1>8, <2>1, <3>1, <3>3
    <3> QED  BY <1>7, <3>1, <3>2, <3>3
  <2> QED  BY <1>3, <2>2 DEF StackIsApart
<1>16. ChildrenLooked(edges, w)
  <2> SUFFICES ASSUME NEW i \in 1..(m - 1), NEW e \in edges, e.src = w.stack[i].node
               PROVE  \/ e.tgt \in w.stack[i].left
                      \/ On(w.order, e.tgt)
                      \/ i < m - 1 /\ e.tgt = w.stack[i + 1].node
    BY <1>3 DEF ChildrenLooked
  <2>1. i \in 1..m /\ w.stack[i] = v.stack[i]
    BY <1>3, <1>8
  <2>2. \/ e.tgt \in v.stack[i].left
        \/ On(v.order, e.tgt)
        \/ i < m /\ e.tgt = v.stack[i + 1].node
    BY <2>1 DEF VisitIsSound, ChildrenLooked
  <2>3. i + 1 = m \/ (i < m - 1 /\ i + 1 \in 1..(m - 1))
    BY <1>1
  <2> QED  BY <1>3, <1>7, <2>1, <2>2, <2>3
<1>17. LeftAreChildren(edges, w)
  <2> SUFFICES ASSUME NEW i \in 1..(m - 1), NEW c \in w.stack[i].left
               PROVE  \E e \in edges : e.src = w.stack[i].node /\ e.tgt = c
    BY <1>3 DEF LeftAreChildren
  <2>1. i \in 1..m /\ w.stack[i] = v.stack[i]
    BY <1>3, <1>8
  <2> QED  BY <2>1 DEF VisitIsSound, LeftAreChildren
<1>18. StackIsPath(edges, w)
  <2> SUFFICES ASSUME NEW i \in 1..((m - 1) - 1)
               PROVE  \E e \in edges : e.src = w.stack[i].node /\ e.tgt = w.stack[i + 1].node
    BY <1>3 DEF StackIsPath
  <2>1. i \in 1..(m - 1) /\ i + 1 \in 1..(m - 1)
    BY <1>1
  <2>2. \E e \in edges : e.src = v.stack[i].node /\ e.tgt = v.stack[i + 1].node
    BY <2>1 DEF VisitIsSound, StackIsPath
  <2> QED  BY <1>3, <2>1, <2>2
<1> QED  BY <1>3, <1>4, <1>13, <1>14, <1>15, <1>16, <1>17, <1>18 DEF VisitIsSound

(* The stack once a child has been taken from its top.                      *)
Passed(s, child) ==
  Append(Front(s), [node |-> s[Len(s)].node, left |-> s[Len(s)].left \ {child}])

LEMMA PassedFields ==
  ASSUME NEW nodes, NEW s \in Seq(Entries(nodes)), Len(s) > 0, NEW child
  PROVE  LET p == Passed(s, child) IN
         /\ p \in Seq(Entries(nodes)) /\ Len(p) = Len(s)
         /\ \A i \in 1..(Len(s) - 1) : p[i] = s[i]
         /\ \A i \in 1..Len(s) : p[i].node = s[i].node /\ p[i].left \subseteq s[i].left
         /\ p[Len(s)].left = s[Len(s)].left \ {child}
<1> DEFINE m == Len(s)
           p == Passed(s, child)
           last == [node |-> s[m].node, left |-> s[m].left \ {child}]
<1>1. m \in Nat /\ m > 0 /\ s[m] \in Entries(nodes)
  OBVIOUS
<1>2. last \in Entries(nodes) /\ last.node = s[m].node /\ last.left = s[m].left \ {child}
  BY <1>1 DEF Entries
<1>3. /\ Front(s) \in Seq(Entries(nodes)) /\ Len(Front(s)) = m - 1
      /\ \A i \in 1..(m - 1) : Front(s)[i] = s[i]
  BY <1>1, FrontFields
<1> HIDE DEF last
<1>4. p = Append(Front(s), last)
  BY DEF last, Passed
<1> HIDE DEF p
<1>5. /\ p \in Seq(Entries(nodes)) /\ Len(p) = m /\ p[m] = last
      /\ \A i \in 1..(m - 1) : p[i] = s[i]
  BY <1>1, <1>2, <1>3, <1>4
<1>6. \A i \in 1..m : i = m \/ i \in 1..(m - 1)
  BY <1>1
<1> QED  BY <1>2, <1>5, <1>6 DEF p

(* No child of the node on top is below it: the edges in between would make *)
(* a loop.                                                                  *)
LEMMA NoChildIsBelow ==
  ASSUME NEW edges, Grounded(edges), NEW nodes, NEW v, VisitIsSound(edges, nodes, v),
         Len(v.stack) > 0, NEW child \in v.stack[Len(v.stack)].left
  PROVE  \A j \in 1..Len(v.stack) : v.stack[j].node # child
<1> DEFINE m == Len(v.stack)
           step1(e, i) == e.src = v.stack[i].node /\ e.tgt = v.stack[i + 1].node
           back(e) == e.src = v.stack[m].node /\ e.tgt = child
<1> SUFFICES ASSUME NEW j \in 1..m, v.stack[j].node = child PROVE FALSE
  OBVIOUS
<1>1. m \in Nat /\ m > 0 /\ m \in 1..m
  BY TopOfStack DEF VisitIsSound
<1> DEFINE X == {e \in edges : back(e) \/ \E i \in j..(m - 1) : step1(e, i)}
<1>2. PICK b \in edges : back(b)
  BY <1>1 DEF VisitIsSound, LeftAreChildren
<1>3. \A i \in j..(m - 1) : \E e \in edges : step1(e, i)
  <2>1. \A i \in j..(m - 1) : i \in 1..(m - 1)
    BY <1>1
  <2> QED  BY <2>1 DEF VisitIsSound, StackIsPath
<1>4. \A i \in j..m : \E f \in X : f.src = v.stack[i].node
  <2> SUFFICES ASSUME NEW i \in j..m PROVE \E f \in X : f.src = v.stack[i].node
    OBVIOUS
  <2>1. CASE i = m
    BY <1>2, <2>1
  <2>2. CASE i # m
    <3>1. i \in j..(m - 1)
      BY <1>1, <2>2
    <3> QED  BY <1>3, <3>1
  <2> QED  BY <2>1, <2>2
<1>5. Followed(X)
  <2> SUFFICES ASSUME NEW e \in X PROVE \E f \in X : f.src = e.tgt
    BY DEF Followed
  <2>1. CASE back(e)
    <3>1. j \in j..m
      BY <1>1
    <3> QED  BY <1>4, <2>1, <3>1
  <2>2. CASE \E i \in j..(m - 1) : step1(e, i)
    <3>1. PICK i \in j..(m - 1) : step1(e, i)
      BY <2>2
    <3>2. i + 1 \in j..m
      BY <1>1
    <3> QED  BY <1>4, <3>1, <3>2
  <2> QED  BY <2>1, <2>2
<1>6. b \in X /\ X \in SUBSET edges
  BY <1>2
<1> HIDE DEF X
<1> QED  BY <1>5, <1>6 DEF Grounded

(* A child that was seen is skipped: its visit is over.                     *)
LEMMA SkipIsSound ==
  ASSUME NEW edges, Grounded(edges), NEW nodes, NEW v, VisitIsSound(edges, nodes, v),
         Len(v.stack) > 0, NEW child \in v.stack[Len(v.stack)].left, child \in v.seen,
         NEW w, w.seen = v.seen, w.order = v.order,
         w.stack = Passed(v.stack, child)
  PROVE  VisitIsSound(edges, nodes, w)
<1> DEFINE m == Len(v.stack)
<1>1. /\ v.stack \in Seq(Entries(nodes)) /\ m \in Nat /\ m > 0 /\ m \in 1..m
      /\ child \in nodes
  BY TopOfStack DEF VisitIsSound
<1>2. /\ w.stack \in Seq(Entries(nodes)) /\ Len(w.stack) = m
      /\ \A i \in 1..(m - 1) : w.stack[i] = v.stack[i]
      /\ \A i \in 1..m : w.stack[i].node = v.stack[i].node /\ w.stack[i].left \subseteq v.stack[i].left
      /\ w.stack[m].left = v.stack[m].left \ {child}
  BY <1>1, PassedFields
<1>3. On(v.order, child)
  <2>1. \A j \in 1..m : v.stack[j].node # child
    BY NoChildIsBelow
  <2> QED  BY <1>1, <2>1 DEF VisitIsSound, SeenNodes
<1>4. ChildrenLooked(edges, w)
  <2> SUFFICES ASSUME NEW i \in 1..m, NEW e \in edges, e.src = v.stack[i].node
               PROVE  \/ e.tgt \in w.stack[i].left
                      \/ On(v.order, e.tgt)
                      \/ i < m /\ e.tgt = w.stack[i + 1].node
    BY <1>2 DEF ChildrenLooked
  <2>1. \/ e.tgt \in v.stack[i].left
        \/ On(v.order, e.tgt)
        \/ i < m /\ e.tgt = v.stack[i + 1].node
    BY DEF VisitIsSound, ChildrenLooked
  <2>2. i = m \/ i \in 1..(m - 1)
    BY <1>1
  <2>3. i < m => i + 1 \in 1..m
    BY <1>1
  <2> QED  BY <1>2, <1>3, <2>1, <2>2, <2>3
<1>5. \A i \in 1..(m - 1) : i \in 1..m /\ i + 1 \in 1..m
  BY <1>1
<1>6. StackIsPath(edges, w)
  BY <1>2, <1>5 DEF VisitIsSound, StackIsPath
<1>7. LeftAreChildren(edges, w)
  BY <1>2 DEF VisitIsSound, LeftAreChildren
<1>8. SeenNodes(nodes, w)
  <2>1. \A n : (\E i \in 1..m : w.stack[i].node = n) <=> \E i \in 1..m : v.stack[i].node = n
    BY <1>2
  <2>2. \A n \in nodes : n \in v.seen <=>
          On(v.order, n) \/ \E i \in 1..m : v.stack[i].node = n
    BY DEF VisitIsSound, SeenNodes
  <2> QED  BY <1>2, <2>1, <2>2 DEF SeenNodes
<1>9. StackIsApart(w)
  BY <1>2 DEF VisitIsSound, StackIsApart
<1> QED  BY <1>2, <1>4, <1>6, <1>7, <1>8, <1>9 DEF VisitIsSound

(* A child that was not seen is pushed.                                     *)
LEMMA PushIsSound ==
  ASSUME NEW edges, NEW nodes, JoinsOnly(edges, nodes), NEW v, VisitIsSound(edges, nodes, v),
         Len(v.stack) > 0, NEW child \in v.stack[Len(v.stack)].left, child \notin v.seen,
         NEW w, w.seen = v.seen \cup {child}, w.order = v.order,
         w.stack = Append(Passed(v.stack, child), visitEntry(edges, child))
  PROVE  VisitIsSound(edges, nodes, w)
<1> DEFINE m == Len(v.stack)
           p == Passed(v.stack, child)
           new == visitEntry(edges, child)
<1>1. /\ v.stack \in Seq(Entries(nodes)) /\ m \in Nat /\ m > 0 /\ m \in 1..m
      /\ child \in nodes
  BY TopOfStack DEF VisitIsSound
<1>2. /\ p \in Seq(Entries(nodes)) /\ Len(p) = m
      /\ \A i \in 1..(m - 1) : p[i] = v.stack[i]
      /\ \A i \in 1..m : p[i].node = v.stack[i].node /\ p[i].left \subseteq v.stack[i].left
      /\ p[m].left = v.stack[m].left \ {child}
  BY <1>1, PassedFields
<1> HIDE DEF p
<1>4. /\ new \in Entries(nodes) /\ new.node = child
      /\ \A c : c \in new.left <=> \E e \in edges : e.src = child /\ e.tgt = c
  BY <1>1, EntryFields
<1> HIDE DEF new
<1>5. /\ w.stack \in Seq(Entries(nodes)) /\ Len(w.stack) = m + 1 /\ w.stack[m + 1] = new
      /\ \A i \in 1..m : w.stack[i] = p[i]
  BY <1>2, <1>4 DEF new, p
<1>6. ~On(v.order, child) /\ \A i \in 1..m : v.stack[i].node # child
  BY <1>1 DEF VisitIsSound, SeenNodes
<1>7. \A i \in 1..(m + 1) : i = m + 1 \/ i \in 1..m
  BY <1>1
<1>8. 1..m \subseteq 1..(m + 1) /\ m + 1 \in 1..(m + 1)
  BY <1>1
<1>9. \A i \in 1..m : w.stack[i].node = v.stack[i].node /\ w.stack[i].left \subseteq v.stack[i].left
  BY <1>2, <1>5
<1>10. w.stack[m + 1].node = child
  BY <1>4, <1>5
<1>11. /\ w.order \in Seq(nodes) /\ ChildrenFirst(edges, {}, w.order)
  BY DEF VisitIsSound
<1>12. SeenNodes(nodes, w)
  <2>1. \A n : (\E i \in 1..(m + 1) : w.stack[i].node = n)
                 <=> n = child \/ \E i \in 1..m : v.stack[i].node = n
    BY <1>7, <1>8, <1>9, <1>10
  <2>2. \A n \in nodes : n \in v.seen <=>
          On(v.order, n) \/ \E i \in 1..m : v.stack[i].node = n
    BY DEF VisitIsSound, SeenNodes
  <2> QED  BY <1>5, <2>1, <2>2 DEF SeenNodes
<1>13. StackIsApart(w)
  <2>1. \A i \in 1..m : ~On(v.order, v.stack[i].node)
                        /\ \A j \in 1..m : i # j => v.stack[i].node # v.stack[j].node
    BY DEF VisitIsSound, StackIsApart
  <2>2. ASSUME NEW i \in 1..(m + 1) PROVE ~On(v.order, w.stack[i].node)
    BY <1>6, <1>7, <1>9, <1>10, <2>1
  <2>3. ASSUME NEW i \in 1..(m + 1), NEW j \in 1..(m + 1), i # j
        PROVE  w.stack[i].node # w.stack[j].node
    <3>1. CASE i = m + 1
      <4>1. j \in 1..m
        BY <1>7, <2>3, <3>1
      <4> QED  BY <1>6, <1>9, <1>10, <3>1, <4>1
    <3>2. CASE i \in 1..m
      <4>1. CASE j = m + 1
        BY <1>6, <1>9, <1>10, <3>2, <4>1
      <4>2. CASE j \in 1..m
        BY <1>9, <2>1, <2>3, <3>2, <4>2
      <4> QED  BY <1>7, <4>1, <4>2
    <3> QED  BY <1>7, <3>1, <3>2
  <2> QED  BY <1>5, <2>2, <2>3 DEF StackIsApart
<1>14. ASSUME NEW i \in 1..(m + 1), NEW e \in edges, e.src = w.stack[i].node
       PROVE  \/ e.tgt \in w.stack[i].left
              \/ On(w.order, e.tgt)
              \/ i < m + 1 /\ e.tgt = w.stack[i + 1].node
  <2>1. CASE i = m + 1
    BY <1>4, <1>5, <1>10, <1>14, <2>1
  <2>2. CASE i = m
    <3>1. \/ e.tgt \in v.stack[m].left
          \/ On(v.order, e.tgt)
      <4>1. m \in 1..m /\ ~(m < m)
        BY <1>1
      <4>2. e.src = v.stack[m].node
        BY <1>9, <1>14, <2>2, <4>1
      <4> QED  BY <4>1, <4>2 DEF VisitIsSound, ChildrenLooked
    <3>2. e.tgt \in v.stack[m].left => e.tgt = child \/ e.tgt \in w.stack[m].left
      BY <1>1, <1>2, <1>5
    <3>3. i < m + 1 /\ i + 1 = m + 1
      BY <1>1, <2>2
    <3> QED  BY <1>10, <2>2, <3>1, <3>2, <3>3
  <2>3. CASE i \in 1..(m - 1)
    <3>1. i \in 1..m /\ i + 1 \in 1..m /\ i < m + 1
      BY <1>1, <2>3
    <3>2. \/ e.tgt \in v.stack[i].left
          \/ On(v.order, e.tgt)
          \/ i < m /\ e.tgt = v.stack[i + 1].node
      BY <1>9, <1>14, <3>1 DEF VisitIsSound, ChildrenLooked
    <3>3. w.stack[i] = v.stack[i] /\ w.stack[i + 1].node = v.stack[i + 1].node
      BY <1>2, <1>5, <1>9, <2>3, <3>1
    <3> QED  BY <3>1, <3>2, <3>3
  <2>4. i = m + 1 \/ i = m \/ i \in 1..(m - 1)
    BY <1>1
  <2> QED  BY <2>1, <2>2, <2>3, <2>4
<1>15. ASSUME NEW i \in 1..(m + 1), NEW c \in w.stack[i].left
       PROVE  \E e \in edges : e.src = w.stack[i].node /\ e.tgt = c
  <2>1. CASE i = m + 1
    BY <1>4, <1>5, <2>1
  <2>2. CASE i \in 1..m
    <3>1. c \in v.stack[i].left /\ w.stack[i].node = v.stack[i].node
      BY <1>9, <1>15, <2>2
    <3>2. \E e \in edges : e.src = v.stack[i].node /\ e.tgt = c
      BY <2>2, <3>1 DEF VisitIsSound, LeftAreChildren
    <3> QED  BY <3>1, <3>2
  <2> QED  BY <1>7, <2>1, <2>2
<1>16. ASSUME NEW i \in 1..m
       PROVE  \E e \in edges : e.src = w.stack[i].node /\ e.tgt = w.stack[i + 1].node
  <2>1. CASE i = m
    <3>1. \E e \in edges : e.src = v.stack[m].node /\ e.tgt = child
      BY <1>1 DEF VisitIsSound, LeftAreChildren
    <3> QED  BY <1>1, <1>9, <1>10, <2>1, <3>1
  <2>2. CASE i # m
    <3>1. i \in 1..(m - 1) /\ i + 1 \in 1..m
      BY <1>1, <2>2
    <3>2. \E e \in edges : e.src = v.stack[i].node /\ e.tgt = v.stack[i + 1].node
      BY <3>1 DEF VisitIsSound, StackIsPath
    <3> QED  BY <1>9, <3>1, <3>2
  <2> QED  BY <2>1, <2>2
<1>17. (m + 1) - 1 = m
  BY <1>1
<1>18. ChildrenLooked(edges, w) /\ LeftAreChildren(edges, w) /\ StackIsPath(edges, w)
  <2>1. Len(w.stack) = m + 1 /\ Len(w.stack) - 1 = m
    BY <1>5, <1>17
  <2>2. ChildrenLooked(edges, w)
    BY <1>14, <2>1 DEF ChildrenLooked
  <2>3. LeftAreChildren(edges, w)
    BY <1>15, <2>1 DEF LeftAreChildren
  <2>4. StackIsPath(edges, w)
    BY <1>16, <2>1 DEF StackIsPath
  <2> QED  BY <2>2, <2>3, <2>4
<1> QED  BY <1>5, <1>11, <1>12, <1>13, <1>18 DEF VisitIsSound

LEMMA VisitStepIsSound ==
  ASSUME NEW edges, Grounded(edges), NEW nodes \in SUBSET Nat, JoinsOnly(edges, nodes),
         NEW v, VisitIsSound(edges, nodes, v)
  PROVE  VisitIsSound(edges, nodes, visitStep(edges, v))
<1> DEFINE m == Len(v.stack)
           left == v.stack[m].left
           child == Min(left)
           w == visitStep(edges, v)
<1>1. v.stack \in Seq(Entries(nodes)) /\ m \in Nat
  BY DEF VisitIsSound
<1>2. CASE m = 0
  <2>1. v.stack = << >>
    BY <1>1, <1>2
  <2> QED  BY <2>1 DEF visitStep
<1>3. CASE m > 0
  <2>1. /\ v.stack # << >> /\ Last(v.stack) = v.stack[m]
        /\ left \subseteq nodes
    BY <1>1, <1>3, TopOfStack DEF Last
  <2>2. CASE left = {}
    <3>1. w = [stack |-> Front(v.stack), seen |-> v.seen, order |-> Append(v.order, v.stack[m].node)]
      BY <2>1, <2>2 DEF visitStep
    <3> HIDE DEF w
    <3>2. /\ w.stack = Front(v.stack) /\ w.seen = v.seen
          /\ w.order = Append(v.order, v.stack[m].node)
      BY <3>1
    <3>3. VisitIsSound(edges, nodes, w)
      BY <1>3, <2>2, <3>2, PopIsSound
    <3> QED  BY <3>3 DEF w
  <2>3. CASE left # {}
    <3>1. child \in left
      <4>1. left \in SUBSET Nat
        BY <2>1
      <4> HIDE DEF left
      <4> QED  BY <2>3, <4>1, MinOf
    <3>2. w = IF child \in v.seen
              THEN [stack |-> Passed(v.stack, child), seen |-> v.seen, order |-> v.order]
              ELSE [stack |-> Append(Passed(v.stack, child), visitEntry(edges, child)),
                    seen |-> v.seen \cup {child}, order |-> v.order]
      BY <2>1, <2>3 DEF visitStep, Passed
    <3> HIDE DEF w, child
    <3>3. CASE child \in v.seen
      <4>1. w.stack = Passed(v.stack, child) /\ w.seen = v.seen /\ w.order = v.order
        BY <3>2, <3>3
      <4>2. VisitIsSound(edges, nodes, w)
        BY <1>3, <3>1, <3>3, <4>1, SkipIsSound
      <4> QED  BY <4>2 DEF w
    <3>4. CASE child \notin v.seen
      <4>1. /\ w.stack = Append(Passed(v.stack, child), visitEntry(edges, child))
            /\ w.seen = v.seen \cup {child} /\ w.order = v.order
        BY <3>2, <3>4
      <4>2. VisitIsSound(edges, nodes, w)
        BY <1>3, <3>1, <3>4, <4>1, PushIsSound
      <4> QED  BY <4>2 DEF w
    <3> QED  BY <3>3, <3>4
  <2> QED  BY <2>2, <2>3
<1> QED  BY <1>1, <1>2, <1>3

(* What postOrder returns is where a sequence of steps has got to.          *)
VisitStart(edges, n, seen) ==
  [stack |-> IF n \in seen THEN << >> ELSE <<visitEntry(edges, n)>>,
   seen |-> seen \cup {n}, order |-> << >>]

LEMMA VisitRecursion ==
  ASSUME NEW edges, NEW n, NEW seen, Cardinality(edges) \in Nat
  PROVE  \E visit : \E fuel \in Nat :
           /\ visit[0] = VisitStart(edges, n, seen)
           /\ \A k \in Nat : k # 0 => visit[k] = visitStep(edges, visit[k - 1])
           /\ postOrder(edges, n, seen) = visit[fuel].order
<1> DEFINE start == VisitStart(edges, n, seen)
           Body(g) == [k \in Nat |-> IF k = 0 THEN start ELSE visitStep(edges, g[k - 1])]
           visit == CHOOSE g : g = Body(g)
           fuel == 2 * Cardinality(edges) + 1
<1>10. postOrder(edges, n, seen) = visit[fuel].order
  BY DEF postOrder, VisitStart
<1>11. fuel \in Nat
  OBVIOUS
<1> HIDE DEF visit, start, fuel
<1> DEFINE Up(f, k) == f[0] = start /\ \A i \in 1..k : f[i] = visitStep(edges, f[i - 1])
           missing == {k \in Nat : ~\E f : Up(f, k)}
<1>1. ASSUME missing # {} PROVE FALSE
  <2>1. PICK k \in missing : \A j \in missing : k <= j
    BY <1>1, LeastOf
  <2>2. k # 0
    <3>1. Up([i \in 0..0 |-> start], 0)
      OBVIOUS
    <3> QED  BY <2>1, <3>1
  <2>3. k - 1 \in Nat /\ k - 1 \notin missing
    BY <2>1, <2>2
  <2>4. PICK f : Up(f, k - 1)
    BY <2>3
  <2> DEFINE g == [i \in 0..k |-> IF i = k THEN visitStep(edges, f[k - 1]) ELSE f[i]]
  <2>5. \A i \in 0..(k - 1) : g[i] = f[i]
    BY <2>1
  <2>6. g[k] = visitStep(edges, f[k - 1])
    BY <2>1
  <2> HIDE DEF g
  <2>7. g[0] = start
    <3>1. 0 \in 0..(k - 1)
      BY <2>1, <2>2
    <3> QED  BY <2>4, <2>5, <3>1
  <2>8. ASSUME NEW i \in 1..k PROVE g[i] = visitStep(edges, g[i - 1])
    <3>1. i - 1 \in 0..(k - 1)
      BY <2>1
    <3>2. CASE i = k
      BY <2>5, <2>6, <3>1, <3>2
    <3>3. CASE i # k
      <4>1. i \in 1..(k - 1) /\ i \in 0..(k - 1)
        BY <2>1, <3>3
      <4> QED  BY <2>4, <2>5, <3>1, <4>1
    <3> QED  BY <3>2, <3>3
  <2> QED  BY <2>1, <2>7, <2>8
<1>2. \A k \in Nat : Up(CHOOSE f : Up(f, k), k)
  BY <1>1
<1> DEFINE at(k) == CHOOSE f : Up(f, k)
           W == [k \in Nat |-> at(k)[k]]
<1>3. ASSUME NEW k \in Nat, NEW j \in Nat, k <= j
      PROVE  \A i \in 0..k : at(k)[i] = at(j)[i]
  <2> DEFINE other == {i \in 0..k : at(k)[i] # at(j)[i]}
  <2>0. Up(at(k), k) /\ Up(at(j), j)
    BY <1>2, <1>3
  <2> HIDE DEF at
  <2> SUFFICES ASSUME other # {} PROVE FALSE
    OBVIOUS
  <2>1. PICK i \in other : \A l \in other : i <= l
    <3>1. other \in SUBSET Nat
      OBVIOUS
    <3> HIDE DEF other
    <3> QED  BY <3>1, LeastOf
  <2>2. i # 0
    BY <2>0, <2>1
  <2>3. i \in 1..k /\ i \in 1..j /\ i - 1 \in 0..k /\ i - 1 \notin other
    BY <1>3, <2>1, <2>2
  <2>4. at(k)[i - 1] = at(j)[i - 1]
    BY <2>3
  <2> QED  BY <2>0, <2>1, <2>3, <2>4
<1>4. \A k \in Nat : W[k] = at(k)[k]
  OBVIOUS
<1>5. \A k \in Nat : W[k] = IF k = 0 THEN start ELSE visitStep(edges, W[k - 1])
  <2> SUFFICES ASSUME NEW k \in Nat
               PROVE  W[k] = IF k = 0 THEN start ELSE visitStep(edges, W[k - 1])
    OBVIOUS
  <2>1. Up(at(k), k)
    BY <1>2
  <2> HIDE DEF W, at
  <2>2. CASE k = 0
    BY <1>4, <2>1, <2>2
  <2>3. CASE k # 0
    <3>1. k - 1 \in Nat /\ k - 1 <= k /\ k \in 1..k /\ k - 1 \in 0..(k - 1)
      BY <2>3
    <3>2. at(k - 1)[k - 1] = at(k)[k - 1]
      BY <1>3, <3>1
    <3>3. W[k] = at(k)[k] /\ W[k - 1] = at(k)[k - 1]
      BY <1>4, <3>1, <3>2
    <3> QED  BY <2>1, <2>3, <3>1, <3>3
  <2> QED  BY <2>2, <2>3
<1>6. W = [k \in Nat |-> W[k]]
  OBVIOUS
<1> HIDE DEF W
<1>7. W = Body(W)
  BY <1>5, <1>6
<1>8. visit = Body(visit)
  <2> HIDE DEF Body
  <2> QED  BY <1>7 DEF visit
<1>9. visit[0] = start /\ \A k \in Nat : k # 0 => visit[k] = visitStep(edges, visit[k - 1])
  BY <1>8
<1> QED  BY <1>9, <1>10, <1>11 DEF start

(* In a graph without loops, the post-order lists nodes after their         *)
(* children, each of them once.                                             *)
LEMMA PostOrderIsSound ==
  ASSUME NEW edges, Grounded(edges), NEW nodes \in SUBSET Nat, JoinsOnly(edges, nodes),
         NEW root \in nodes, Cardinality(edges) \in Nat
  PROVE  /\ postOrder(edges, root, {}) \in Seq(nodes)
         /\ ChildrenFirst(edges, {}, postOrder(edges, root, {}))
<1> DEFINE start == VisitStart(edges, root, {})
<1>1. PICK visit : \E fuel \in Nat :
         /\ visit[0] = start
         /\ \A k \in Nat : k # 0 => visit[k] = visitStep(edges, visit[k - 1])
         /\ postOrder(edges, root, {}) = visit[fuel].order
  BY VisitRecursion
<1>2. PICK fuel \in Nat : postOrder(edges, root, {}) = visit[fuel].order
  BY <1>1
<1>3. visit[0] = start /\ \A k \in Nat : k # 0 => visit[k] = visitStep(edges, visit[k - 1])
  BY <1>1
<1>4. VisitIsSound(edges, nodes, start)
  <2> DEFINE new == visitEntry(edges, root)
             s == <<new>>
             o == << >>
  <2>1. /\ new \in Entries(nodes) /\ new.node = root
        /\ \A c : c \in new.left <=> \E e \in edges : e.src = root /\ e.tgt = c
    BY EntryFields
  <2> HIDE DEF new
  <2>2. s \in Seq(Entries(nodes)) /\ Len(s) = 1 /\ s[1] = new
    BY <2>1
  <2>3. o \in Seq(nodes) /\ Len(o) = 0
    OBVIOUS
  <2>4. start.stack = s /\ start.seen = {root} /\ start.order = o
    BY DEF new, VisitStart
  <2> HIDE DEF s, o, start
  <2>5. 1..0 = {} /\ 1..1 = {1} /\ 1..(1 - 1) = {}
    OBVIOUS
  <2>6. \A x : ~On(o, x)
    BY <2>3, <2>5 DEF On
  <2>7. ChildrenFirst(edges, {}, start.order)
    BY <2>3, <2>4, <2>5 DEF ChildrenFirst
  <2>8. \A i : i \in 1..Len(start.stack) <=> i = 1
    BY <2>2, <2>4, <2>5
  <2>9. start.stack[1].node = root /\ start.stack[1].left = new.left
    BY <2>1, <2>2, <2>4
  <2>11. SeenNodes(nodes, start)
    BY <2>4, <2>6, <2>8, <2>9 DEF SeenNodes
  <2>12. StackIsApart(start)
    BY <2>4, <2>6, <2>8, <2>9 DEF StackIsApart
  <2>13. ChildrenLooked(edges, start)
    BY <2>1, <2>8, <2>9 DEF ChildrenLooked
  <2>14. LeftAreChildren(edges, start)
    BY <2>1, <2>8, <2>9 DEF LeftAreChildren
  <2>10. StackIsPath(edges, start)
    BY <2>2, <2>4, <2>5 DEF StackIsPath
  <2> QED  BY <2>2, <2>3, <2>4, <2>7, <2>10, <2>11, <2>12, <2>13, <2>14 DEF VisitIsSound
<1> HIDE DEF start
<1> DEFINE wrong == {k \in Nat : ~VisitIsSound(edges, nodes, visit[k])}
<1>5. ASSUME wrong # {} PROVE FALSE
  <2>1. PICK k \in wrong : \A j \in wrong : k <= j
    BY <1>5, LeastOf
  <2>2. k # 0
    BY <1>3, <1>4, <2>1
  <2>3. k - 1 \in Nat /\ k - 1 \notin wrong
    BY <2>1, <2>2
  <2>4. VisitIsSound(edges, nodes, visitStep(edges, visit[k - 1]))
    BY <2>3, VisitStepIsSound
  <2> QED  BY <1>3, <2>1, <2>2, <2>4
<1>6. VisitIsSound(edges, nodes, visit[fuel])
  BY <1>5
<1> QED  BY <1>2, <1>6 DEF VisitIsSound

(* Merging from into its neighbour makes no loop, where the first has no    *)
(* other way in or the second no other way out: of a loop through the node  *)
(* they become, the edges of the graph before, and the link where it goes   *)
(* from one to the other, would have been one too.                          *)
IsQuotient(more, edges, into, from) ==
  \A q \in more : q.src # q.tgt /\
    \E e \in edges : q.src = renamed(e.src, into, from) /\ q.tgt = renamed(e.tgt, into, from)

OnlyChild(edges, n, c) == \A e \in edges : e.src = n => e.tgt = c
OnlyParent(edges, n, c) == \A e \in edges : e.tgt = c => e.src = n

LEMMA MergeKeepsGrounded ==
  ASSUME NEW edges, Grounded(edges), NEW into, NEW from, into # from,
         NEW link \in edges, link.src = into, link.tgt = from,
         OnlyChild(edges, into, from) \/ OnlyParent(edges, into, from),
         NEW more, IsQuotient(more, edges, into, from)
  PROVE  Grounded(more)
<1> DEFINE r(x) == renamed(x, into, from)
           stands(e, q) == q.src = r(e.src) /\ q.tgt = r(e.tgt)
<1> SUFFICES ASSUME NEW X \in SUBSET more, Followed(X) \/ Preceded(X), X # {} PROVE FALSE
  BY DEF Grounded
<1> DEFINE lift == {e \in edges : \E q \in X : stands(e, q)}
           crossed == (\E f \in lift : f.src = from) /\ (\E g \in lift : g.tgt = into)
           Y == lift \cup {l \in {link} : crossed}
<1>1. \A q \in X : q.src # q.tgt /\ \E e \in lift : stands(e, q)
  BY DEF IsQuotient
<1>2. \A x : r(x) = IF x = from THEN into ELSE x
  BY DEF renamed
<1>3. \A e \in lift : r(e.src) # r(e.tgt)
  BY <1>1
<1>4. ~\E e, f \in lift : e.tgt = from /\ f.src = into
  <2>1. \A e \in lift : ~(e.src = into /\ e.tgt = from)
    BY <1>2, <1>3
  <2> QED  BY <2>1 DEF OnlyChild, OnlyParent
<1>5. Y \in SUBSET edges /\ Y # {}
  BY <1>1
<1>6. CASE Followed(X)
  <2>1. ASSUME NEW e \in lift PROVE \E f \in lift : r(f.src) = r(e.tgt)
    <3>1. PICK q \in X : stands(e, q)
      OBVIOUS
    <3>2. PICK p \in X : p.src = q.tgt
      BY <1>6 DEF Followed
    <3> QED  BY <1>1, <3>1, <3>2
  <2>2. ASSUME NEW e \in lift PROVE \E f \in Y : f.src = e.tgt
    <3>1. PICK f \in lift : r(f.src) = r(e.tgt)
      BY <2>1
    <3>2. CASE f.src = e.tgt
      BY <3>2
    <3>3. CASE f.src # e.tgt
      <4>1. e.tgt = into /\ f.src = from
        BY <1>2, <1>4, <3>1, <3>3
      <4> QED  BY <4>1
    <3> QED  BY <3>2, <3>3
  <2>3. Followed(Y)
    BY <2>2 DEF Followed
  <2> HIDE DEF Y
  <2> QED  BY <1>5, <2>3 DEF Grounded
<1>7. CASE Preceded(X)
  <2>1. ASSUME NEW e \in lift PROVE \E f \in lift : r(f.tgt) = r(e.src)
    <3>1. PICK q \in X : stands(e, q)
      OBVIOUS
    <3>2. PICK p \in X : p.tgt = q.src
      BY <1>7 DEF Preceded
    <3> QED  BY <1>1, <3>1, <3>2
  <2>2. ASSUME NEW e \in lift PROVE \E f \in Y : f.tgt = e.src
    <3>1. PICK f \in lift : r(f.tgt) = r(e.src)
      BY <2>1
    <3>2. CASE f.tgt = e.src
      BY <3>2
    <3>3. CASE f.tgt # e.src
      <4>1. f.tgt = into /\ e.src = from
        BY <1>2, <1>4, <3>1, <3>3
      <4> QED  BY <4>1
    <3> QED  BY <3>2, <3>3
  <2>3. Preceded(Y)
    BY <2>2 DEF Preceded
  <2> HIDE DEF Y
  <2> QED  BY <1>5, <2>3 DEF Grounded
<1> QED  BY <1>6, <1>7

(* A new node with edges to others starts no loop.                          *)
LEMMA RootKeepsGrounded ==
  ASSUME NEW edges, Grounded(edges), NEW root, \A e \in edges : e.src # root /\ e.tgt # root,
         NEW more, \A e \in more : e \in edges \/ e.src = root,
         \A e \in more : e.tgt # root
  PROVE  Grounded(more)
<1> SUFFICES ASSUME NEW X \in SUBSET more, Followed(X) \/ Preceded(X), X # {} PROVE FALSE
  BY DEF Grounded
<1> DEFINE Y == {e \in X : e \in edges}
<1>1. Y \in SUBSET edges
  OBVIOUS
<1>2. CASE Followed(X)
  <2>1. \A e \in X : \E f \in Y : f.src = e.tgt
    BY <1>2 DEF Followed
  <2>2. Followed(Y) /\ Y # {}
    BY <2>1 DEF Followed
  <2> HIDE DEF Y
  <2> QED  BY <1>1, <2>2 DEF Grounded
<1>3. CASE Preceded(X)
  <2>1. X \subseteq edges
    BY <1>3 DEF Preceded
  <2> QED  BY <1>3, <2>1 DEF Grounded
<1> QED  BY <1>2, <1>3

(* What is left of an order once its head is visited, or its last left out, *)
(* and after a merge of two nodes that have been visited.                   *)
LEMMA FrontIsChildrenFirst ==
  ASSUME NEW edges, NEW nodes, NEW order \in Seq(nodes), ChildrenFirst(edges, {}, order)
  PROVE  Front(order) \in Seq(nodes) /\ ChildrenFirst(edges, {}, Front(order))
<1>1. CASE Len(order) = 0
  <2>1. Front(order) = << >> /\ order = << >>
    BY <1>1 DEF Front
  <2> QED  BY <2>1
<1>2. CASE Len(order) > 0
  <2>1. /\ Front(order) \in Seq(nodes) /\ Len(Front(order)) = Len(order) - 1
        /\ \A i \in 1..(Len(order) - 1) : Front(order)[i] = order[i]
    BY <1>2, FrontFields
  <2>2. \A i \in 1..(Len(order) - 1) : i \in 1..Len(order) /\ \A j \in 1..(i - 1) : j \in 1..(Len(order) - 1)
    OBVIOUS
  <2> QED  BY <2>1, <2>2 DEF ChildrenFirst
<1> QED  BY <1>1, <1>2

LEMMA HeadIsReady ==
  ASSUME NEW edges, NEW done, NEW nodes, NEW order \in Seq(nodes), order # << >>,
         ChildrenFirst(edges, done, order)
  PROVE  /\ Head(order) \in nodes /\ Tail(order) \in Seq(nodes)
         /\ ChildrenFirst(edges, done \cup {Head(order)}, Tail(order))
<1> DEFINE k == Len(order)
           o == Tail(order)
           n == Head(order)
<1>1. k \in Nat /\ k > 0 /\ 1 \in 1..k /\ n = order[1] /\ n \in nodes
  OBVIOUS
<1>2. o \in Seq(nodes) /\ Len(o) = k - 1 /\ \A i \in 1..(k - 1) : o[i] = order[i + 1]
  OBVIOUS
<1>3. \A i \in 1..(k - 1) : i + 1 \in 1..k /\ i + 1 # 1
  BY <1>1
<1> HIDE DEF o, n
<1>4. \A i, j \in 1..(k - 1) : i # j => o[i] # o[j]
  <2> SUFFICES ASSUME NEW i \in 1..(k - 1), NEW j \in 1..(k - 1), i # j PROVE o[i] # o[j]
    OBVIOUS
  <2>1. i + 1 # j + 1 /\ i + 1 \in 1..k /\ j + 1 \in 1..k
    BY <1>3
  <2> QED  BY <1>2, <2>1 DEF ChildrenFirst
<1>5. \A i \in 1..(k - 1) : o[i] \notin done \cup {n}
  BY <1>1, <1>2, <1>3 DEF ChildrenFirst
<1>6. ASSUME NEW e \in edges, e.src \in done \cup {n} PROVE e.tgt \in done \cup {n}
  <2>1. 1..(1 - 1) = {}
    OBVIOUS
  <2>2. CASE e.src \in done
    BY <2>2 DEF ChildrenFirst
  <2>3. CASE e.src = order[1]
    BY <1>1, <2>1, <2>3 DEF ChildrenFirst
  <2> QED  BY <1>1, <1>6, <2>2, <2>3
<1>7. ASSUME NEW i \in 1..(k - 1), NEW e \in edges, e.src = o[i]
      PROVE  e.tgt \in done \cup {n} \/ \E j \in 1..(i - 1) : e.tgt = o[j]
  <2>1. e.src = order[i + 1] /\ i + 1 \in 1..k /\ (i + 1) - 1 = i
    BY <1>2, <1>3, <1>7
  <2>2. e.tgt \in done \/ \E j \in 1..i : e.tgt = order[j]
    BY <2>1 DEF ChildrenFirst
  <2>3. ASSUME NEW j \in 1..i, e.tgt = order[j], j # 1 PROVE \E l \in 1..(i - 1) : e.tgt = o[l]
    <3>1. j - 1 \in 1..(i - 1) /\ j - 1 \in 1..(k - 1) /\ (j - 1) + 1 = j
      BY <1>1, <2>3
    <3> QED  BY <1>2, <2>3, <3>1
  <2> QED  BY <1>1, <2>2, <2>3
<1>8. ChildrenFirst(edges, done \cup {n}, o)
  BY <1>2, <1>4, <1>5, <1>6, <1>7 DEF ChildrenFirst
<1> QED  BY <1>1, <1>2, <1>8 DEF o, n

LEMMA MergeKeepsOrder ==
  ASSUME NEW edges, NEW done, NEW order, ChildrenFirst(edges, done, order),
         NEW into \in done, NEW from \in done, into # from,
         NEW more, IsQuotient(more, edges, into, from)
  PROVE  ChildrenFirst(more, done \ {from}, order)
<1>1. ASSUME NEW q \in more, q.src \in done \ {from} PROVE q.tgt \in done \ {from}
  <2>1. PICK e \in edges : q.src = renamed(e.src, into, from) /\ q.tgt = renamed(e.tgt, into, from)
    BY DEF IsQuotient
  <2>2. e.src \in done
    BY <1>1, <2>1 DEF renamed
  <2>3. e.tgt \in done
    BY <2>2 DEF ChildrenFirst
  <2> QED  BY <2>1, <2>3 DEF renamed
<1>2. ASSUME NEW i \in 1..Len(order), NEW q \in more, q.src = order[i]
      PROVE  q.tgt \in done \ {from} \/ \E j \in 1..(i - 1) : q.tgt = order[j]
  <2>1. PICK e \in edges : q.src = renamed(e.src, into, from) /\ q.tgt = renamed(e.tgt, into, from)
    BY DEF IsQuotient
  <2>2. order[i] \notin done
    BY DEF ChildrenFirst
  <2>3. e.src = order[i]
    BY <1>2, <2>1, <2>2 DEF renamed
  <2>4. e.tgt \in done \/ \E j \in 1..(i - 1) : e.tgt = order[j]
    BY <2>3 DEF ChildrenFirst
  <2>5. CASE e.tgt \in done
    BY <2>1, <2>5 DEF renamed
  <2>6. CASE e.tgt \notin done
    <3>1. q.tgt = e.tgt
      BY <2>1, <2>6 DEF renamed
    <3> QED  BY <2>4, <2>6, <3>1
  <2> QED  BY <2>5, <2>6
<1> QED  BY <1>1, <1>2 DEF ChildrenFirst

------------------------------------------------------------------------------
(* The bytes that strides span.                                             *)
IsOE(oe) == oe.Offset \in Nat /\ oe.Strides \in Seq(Stride)
Depth(e) == Len(e.tag.OE.Strides)

LEMMA LayersOf ==
  ASSUME NEW e, IsOE(e.tag.OE)
  PROVE  Depth(e) \in Nat /\ \A i \in 1..Depth(e) : layerOf(e, i) \in Stride
<1>1. Depth(e) \in Nat
  BY DEF IsOE, Depth
<1>2. ASSUME NEW i \in 1..Depth(e) PROVE layerOf(e, i) \in Stride
  <2>1. Depth(e) + 1 - i \in 1..Depth(e)
    BY <1>1
  <2> QED  BY <2>1 DEF IsOE, Depth, layerOf
<1> QED  BY <1>1, <1>2

LEMMA ProductsAreNat ==
  ASSUME NEW a \in Nat, NEW b \in Nat
  PROVE  a * b \in Nat
OBVIOUS

LEMMA LayerGrows ==
  ASSUME NEW s \in Stride
  PROVE  /\ \A size \in Nat : layerSize(size, s) \in Nat /\ size <= layerSize(size, s)
         /\ \A m, n \in Nat : m <= n => layerSize(m, s) <= layerSize(n, s)
<1>1. elements(s) - 1 \in Nat /\ s.Stride \in Nat
  BY DEF elements, Stride
<1> DEFINE more == (elements(s) - 1) * s.Stride
<1>2. more \in Nat
  BY <1>1, ProductsAreNat
<1>3. \A size : layerSize(size, s) = more + size
  BY DEF layerSize
<1> HIDE DEF more
<1> QED  BY <1>2, <1>3

LEMMA SpansRecursion ==
  ASSUME NEW e, IsOE(e.tag.OE), NEW size \in Nat
  PROVE  /\ spans(size, e) \in [0..Depth(e) -> Nat]
         /\ spans(size, e)[0] = size
         /\ \A i \in 1..Depth(e) : spans(size, e)[i] = layerSize(spans(size, e)[i - 1], layerOf(e, i))
<1> DEFINE L == Depth(e)
           Up(f, k) == /\ f \in [0..k -> Nat] /\ f[0] = size
                       /\ \A i \in 1..k : f[i] = layerSize(f[i - 1], layerOf(e, i))
           bad == {k \in 0..L : ~\E f : Up(f, k)}
<1>1. L \in Nat /\ \A i \in 1..L : layerOf(e, i) \in Stride
  BY LayersOf
<1> HIDE DEF L
<1>2. ASSUME bad # {} PROVE FALSE
  <2>1. PICK k \in bad : \A j \in bad : k <= j
    <3>1. bad \in SUBSET Nat
      BY <1>1
    <3> HIDE DEF bad
    <3> QED  BY <1>2, <3>1, LeastOf
  <2>2. k # 0
    <3>1. Up([i \in 0..0 |-> size], 0)
      OBVIOUS
    <3> QED  BY <2>1, <3>1
  <2>3. k \in 1..L /\ k - 1 \in 0..L /\ k - 1 \notin bad
    <3>1. k \in 0..L /\ \A j \in 0..L : j \in bad => k <= j
      BY <2>1
    <3>2. k \in 1..L /\ k - 1 \in 0..L /\ ~(k <= k - 1)
      BY <1>1, <2>2, <3>1
    <3> QED  BY <3>1, <3>2
  <2>4. PICK f : Up(f, k - 1)
    BY <2>3
  <2> DEFINE g == [i \in 0..k |-> IF i = k THEN layerSize(f[k - 1], layerOf(e, k)) ELSE f[i]]
  <2>5. k - 1 \in 0..(k - 1) /\ f[k - 1] \in Nat
    BY <2>3, <2>4
  <2>6. layerSize(f[k - 1], layerOf(e, k)) \in Nat
    BY <1>1, <2>3, <2>5, LayerGrows
  <2>7. g \in [0..k -> Nat]
    BY <2>3, <2>4, <2>6
  <2>8. g[0] = size /\ g[k] = layerSize(g[k - 1], layerOf(e, k))
    BY <2>2, <2>3, <2>4
  <2>9. ASSUME NEW i \in 1..k, i # k PROVE g[i] = layerSize(g[i - 1], layerOf(e, i))
    <3>1. i \in 1..(k - 1) /\ i - 1 \in 0..k /\ i - 1 # k /\ i \in 0..k
      BY <2>3, <2>9
    <3>2. g[i] = f[i] /\ g[i - 1] = f[i - 1]
      BY <2>9, <3>1
    <3> QED  BY <2>4, <3>1, <3>2
  <2> HIDE DEF g
  <2>10. Up(g, k)
    BY <2>7, <2>8, <2>9
  <2> QED  BY <2>1, <2>10
<1>3. PICK W : Up(W, L)
  BY <1>1, <1>2
<1> DEFINE Body(g) == [i \in 0..L |-> IF i = 0 THEN size ELSE layerSize(g[i - 1], layerOf(e, i))]
           span == CHOOSE g : g = Body(g)
<1>4. W = Body(W)
  <2>1. \A i \in 0..L : W[i] = IF i = 0 THEN size ELSE layerSize(W[i - 1], layerOf(e, i))
    <3>1. \A i \in 0..L : i # 0 => i \in 1..L
      BY <1>1
    <3> QED  BY <1>3, <3>1
  <2>2. W = [i \in 0..L |-> W[i]]
    BY <1>3
  <2> QED  BY <2>1, <2>2
<1>5. span = Body(span)
  <2> HIDE DEF Body
  <2> QED  BY <1>4
<1>6. span = spans(size, e)
  BY DEF spans, L, Depth
<1> HIDE DEF span
<1>7. ASSUME NEW i \in 0..L
      PROVE  span[i] = IF i = 0 THEN size ELSE layerSize(span[i - 1], layerOf(e, i))
  BY <1>5
<1> DEFINE other == {i \in 0..L : span[i] # W[i]}
<1>8. ASSUME other # {} PROVE FALSE
  <2>1. PICK i \in other : \A j \in other : i <= j
    <3>1. other \in SUBSET Nat
      BY <1>1
    <3> HIDE DEF other
    <3> QED  BY <1>8, <3>1, LeastOf
  <2>2. i # 0
    BY <1>3, <1>7, <2>1
  <2>3. i \in 1..L /\ i - 1 \in 0..L /\ i - 1 \notin other
    BY <1>1, <2>1, <2>2
  <2> QED  BY <1>3, <1>7, <2>1, <2>2, <2>3
<1>9. span = W
  <2>1. span = [i \in 0..L |-> span[i]]
    <3> DEFINE b == Body(span)
    <3>1. b = [i \in 0..L |-> b[i]]
      OBVIOUS
    <3> HIDE DEF b
    <3>2. span = b
      BY <1>5 DEF b
    <3> QED  BY <3>1, <3>2
  <2>2. W = [i \in 0..L |-> W[i]]
    BY <1>3
  <2> QED  BY <1>8, <2>1, <2>2
<1> QED  BY <1>3, <1>6, <1>9 DEF L

LEMMA SpansGrow ==
  ASSUME NEW e, IsOE(e.tag.OE), NEW m \in Nat, NEW n \in Nat, m <= n
  PROVE  \A i \in 0..Depth(e) :
           /\ spans(m, e)[i] \in Nat /\ m <= spans(m, e)[i]
           /\ spans(n, e)[i] \in Nat /\ spans(m, e)[i] <= spans(n, e)[i]
<1> DEFINE L == Depth(e)
           bad == {i \in 0..L : ~(m <= spans(m, e)[i] /\ spans(m, e)[i] <= spans(n, e)[i])}
<1>1. L \in Nat /\ \A i \in 1..L : layerOf(e, i) \in Stride
  BY LayersOf
<1>2. /\ \A i \in 0..L : spans(m, e)[i] \in Nat /\ spans(n, e)[i] \in Nat
      /\ spans(m, e)[0] = m /\ spans(n, e)[0] = n
      /\ \A i \in 1..L : /\ spans(m, e)[i] = layerSize(spans(m, e)[i - 1], layerOf(e, i))
                         /\ spans(n, e)[i] = layerSize(spans(n, e)[i - 1], layerOf(e, i))
  BY SpansRecursion
<1> HIDE DEF L
<1>3. ASSUME bad # {} PROVE FALSE
  <2>1. PICK i \in bad : \A j \in bad : i <= j
    <3>1. bad \in SUBSET Nat
      BY <1>1
    <3> HIDE DEF bad
    <3> QED  BY <1>3, <3>1, LeastOf
  <2>2. i # 0
    BY <1>2, <2>1
  <2>3. i \in 1..L /\ i - 1 \in 0..L /\ i - 1 \notin bad
    BY <1>1, <2>1, <2>2
  <2> DEFINE a == spans(m, e)[i - 1]
             b == spans(n, e)[i - 1]
             s == layerOf(e, i)
  <2>4. a \in Nat /\ b \in Nat /\ m <= a /\ a <= b /\ s \in Stride
    BY <1>1, <1>2, <2>3
  <2>5. spans(m, e)[i] = layerSize(a, s) /\ spans(n, e)[i] = layerSize(b, s)
    BY <1>2, <2>3
  <2> HIDE DEF a, b, s
  <2>6. a <= layerSize(a, s) /\ layerSize(a, s) <= layerSize(b, s) /\ layerSize(a, s) \in Nat
    BY <2>4, LayerGrows
  <2>7. m <= layerSize(a, s)
    BY <2>4, <2>6
  <2> QED  BY <2>1, <2>5, <2>6, <2>7
<1> QED  BY <1>2, <1>3 DEF L

------------------------------------------------------------------------------
(* What the methods do to the sizes, and to the scalars; and that there are *)
(* finitely many edges, with offsets and strides that are numbers.          *)
Measured(sys) ==
  /\ sys.Size \in [Nat -> Nat] /\ sys.NonScalar \in [Nat -> BOOLEAN]
  /\ IsFiniteSet(sys.Succ)
  /\ \A e \in sys.Succ : IsOE(e.tag.OE)

NonScalarsAreSized(sys) ==
  \A n \in Nat : sys.NonScalar[n] => n \in sys.Layouts /\ sys.Size[n] # 0

SameSizes(new, sys) == new.Size = sys.Size /\ new.NonScalar = sys.NonScalar

LEMMA OffsetsOfTags ==
  /\ \A offset \in Nat : IsOE(AtOffset(offset)) /\ AtOffset(offset).Offset = offset
                         /\ Len(AtOffset(offset).Strides) = 0
  /\ IsOE(EqualityTag.OE) /\ IsOE(PointerTag.OE)
  /\ \A oe : InstanceTag(oe).OE = oe
<1>1. << >> \in Seq(Stride) /\ Len(<< >>) = 0
  OBVIOUS
<1>2. \A offset : AtOffset(offset).Offset = offset /\ AtOffset(offset).Strides = << >>
  BY DEF AtOffset, OffsetExpression
<1>3. /\ EqualityTag.OE = AtOffset(0) /\ PointerTag.OE = AtOffset(0)
      /\ \A oe : InstanceTag(oe).OE = oe
  BY DEF EqualityTag, PointerTag, InstanceTag
<1>4. \A offset \in Nat : IsOE(AtOffset(offset))
  BY <1>1, <1>2 DEF IsOE
<1>5. \A offset \in Nat : Len(AtOffset(offset).Strides) = 0
  BY <1>1, <1>2
<1>6. IsOE(AtOffset(0))
  BY <1>4
<1> QED  BY <1>2, <1>3, <1>4, <1>5, <1>6

LEMMA EdgesAreMeasured ==
  ASSUME NEW sys, Measured(sys), NEW new, SameSizes(new, sys),
         \A n \in sys.Layouts : n \in new.Layouts,
         NEW F, IsFiniteSet(F), \A e \in F : IsOE(e.tag.OE),
         \A e \in new.Succ : e \in sys.Succ \/ e \in F
  PROVE  Measured(new) /\ (NonScalarsAreSized(sys) => NonScalarsAreSized(new))
<1>1. IsFiniteSet(sys.Succ \cup F)
  BY FS_Union DEF Measured
<1>2. IsFiniteSet(new.Succ)
  BY <1>1, FS_Subset
<1> QED  BY <1>2 DEF Measured, NonScalarsAreSized, SameSizes

LEMMA EdgeMethodsKeepSizes ==
  ASSUME NEW sys, HasFields(sys)
  PROVE  /\ SameSizes(createArtificialLayoutType(sys), sys)
         /\ \A E : SameSizes(withEdges(sys, E), sys) /\ SameSizes(withoutEdges(sys, E), sys)
         /\ \A s, t, g : SameSizes(addLink(sys, s, t, g), sys) /\ HasFields(addLink(sys, s, t, g))
         /\ \A s, t, oe : SameSizes(addInstanceLink(sys, s, t, oe), sys)
         /\ \A n, x : SameSizes([sys EXCEPT !.Info[n] = x], sys)
<1>1. SameSizes(createArtificialLayoutType(sys), sys)
  BY DEF HasFields, SameSizes, createArtificialLayoutType
<1>2. \A E : SameSizes(withEdges(sys, E), sys) /\ SameSizes(withoutEdges(sys, E), sys)
  BY DEF HasFields, SameSizes, withEdges, withoutEdges
<1>3. \A s, t, g : SameSizes(addLink(sys, s, t, g), sys) /\ HasFields(addLink(sys, s, t, g))
  BY DEF HasFields, SameSizes, addLink
<1>4. \A s, t, oe : SameSizes(addInstanceLink(sys, s, t, oe), sys)
  BY <1>3 DEF addInstanceLink, SameSizes
<1>5. \A n, x : SameSizes([sys EXCEPT !.Info[n] = x], sys)
  BY DEF HasFields, SameSizes
<1> QED  BY <1>1, <1>2, <1>3, <1>4, <1>5

LEMMA CreatedIsMeasured ==
  ASSUME NEW sys, WellFormed(sys), Measured(sys)
  PROVE  LET new == createArtificialLayoutType(sys) IN
         /\ Measured(new) /\ (NonScalarsAreSized(sys) => NonScalarsAreSized(new))
         /\ SameSizes(new, sys)
<1> DEFINE new == createArtificialLayoutType(sys)
<1>1. /\ \A n : n \in new.Layouts <=> n \in sys.Layouts \/ n = sys.NID
      /\ new.Succ = sys.Succ
  BY CreateFields
<1>2. SameSizes(new, sys)
  BY EdgeMethodsKeepSizes DEF WellFormed
<1> HIDE DEF new
<1> QED  BY <1>1, <1>2, EdgesAreMeasured, FS_EmptySet DEF new

LEMMA InstanceLinkIsMeasured ==
  ASSUME NEW sys, WellFormed(sys), Measured(sys),
         NEW s \in sys.Layouts, NEW t \in sys.Layouts, NEW oe, IsOE(oe)
  PROVE  LET new == addInstanceLink(sys, s, t, oe) IN
         /\ Measured(new) /\ (NonScalarsAreSized(sys) => NonScalarsAreSized(new))
         /\ SameSizes(new, sys)
<1> DEFINE new == addInstanceLink(sys, s, t, oe)
           link == Edge(s, t, InstanceTag(oe))
<1>1. /\ new.Layouts = sys.Layouts
      /\ \A e \in new.Succ : e \in sys.Succ \/ e = link
  BY AddInstanceLinkFields, NullIsNoID DEF IsOE
<1>2. SameSizes(new, sys)
  BY EdgeMethodsKeepSizes DEF WellFormed
<1>3. IsOE(link.tag.OE)
  BY EdgeFields, OffsetsOfTags
<1> HIDE DEF new, link
<1>4. \A e \in new.Succ : e \in sys.Succ \/ e \in {link}
  BY <1>1
<1>5. IsFiniteSet({link}) /\ \A e \in {link} : IsOE(e.tag.OE)
  BY <1>3, FS_Singleton
<1> QED  BY <1>1, <1>2, <1>4, <1>5, EdgesAreMeasured DEF new

LEMMA LinkIsMeasured ==
  ASSUME NEW sys, WellFormed(sys), Measured(sys),
         NEW s \in sys.Layouts, NEW t \in sys.Layouts, NEW g \in {PointerTag, EqualityTag}
  PROVE  LET new == addLink(sys, s, t, g) IN
         /\ Measured(new) /\ (NonScalarsAreSized(sys) => NonScalarsAreSized(new))
         /\ SameSizes(new, sys)
<1> DEFINE new == addLink(sys, s, t, g)
           link == Edge(s, t, g)
<1>1. /\ new.Layouts = sys.Layouts
      /\ \A e : e \in new.Succ <=> e \in sys.Succ \/ (s # t /\ e = link)
  BY AddLinkFields, TagFields, NullIsNoID
<1>2. SameSizes(new, sys)
  BY EdgeMethodsKeepSizes DEF WellFormed
<1>3. IsOE(link.tag.OE)
  BY EdgeFields, OffsetsOfTags
<1> HIDE DEF new, link
<1>4. \A e \in new.Succ : e \in sys.Succ \/ e \in {link}
  BY <1>1
<1>5. IsFiniteSet({link}) /\ \A e \in {link} : IsOE(e.tag.OE)
  BY <1>3, FS_Singleton
<1> QED  BY <1>1, <1>2, <1>4, <1>5, EdgesAreMeasured DEF new

LEMMA WithEdgesIsMeasured ==
  ASSUME NEW sys, WellFormed(sys), Measured(sys), NEW E, IsFiniteSet(E),
         \A e \in E : Joins(e, sys.Layouts) /\ IsOE(e.tag.OE)
  PROVE  LET new == withEdges(sys, E) IN
         /\ Measured(new) /\ (NonScalarsAreSized(sys) => NonScalarsAreSized(new))
         /\ SameSizes(new, sys)
<1> DEFINE new == withEdges(sys, E)
<1>1. /\ new.Layouts = sys.Layouts
      /\ \A e : e \in new.Succ <=> e \in sys.Succ \/ e \in E
  BY WithEdgesFields
<1>2. SameSizes(new, sys)
  BY EdgeMethodsKeepSizes DEF WellFormed
<1> HIDE DEF new
<1> QED  BY <1>1, <1>2, EdgesAreMeasured DEF new

LEMMA WithoutEdgesIsMeasured ==
  ASSUME NEW sys, WellFormed(sys), Measured(sys), NEW E
  PROVE  LET new == withoutEdges(sys, E) IN
         /\ Measured(new) /\ (NonScalarsAreSized(sys) => NonScalarsAreSized(new))
         /\ SameSizes(new, sys)
<1> DEFINE new == withoutEdges(sys, E)
<1>1. /\ new.Layouts = sys.Layouts
      /\ \A e : e \in new.Succ <=> e \in sys.Succ /\ e \notin E
  BY WithoutEdgesFields
<1>2. SameSizes(new, sys)
  BY EdgeMethodsKeepSizes DEF WellFormed
<1> HIDE DEF new
<1> QED  BY <1>1, <1>2, EdgesAreMeasured, FS_EmptySet DEF new

(* A size is assigned; a scalar keeps one.                                  *)
LEMMA SetSizeIsMeasured ==
  ASSUME NEW sys, HasFields(sys), Measured(sys), NEW n, NEW x \in Nat
  PROVE  LET new == [sys EXCEPT !.Size[n] = x] IN
         /\ Measured(new)
         /\ new.Size = [sys.Size EXCEPT ![n] = x] /\ new.NonScalar = sys.NonScalar
         /\ NonScalarsAreSized(sys) /\ (sys.NonScalar[n] => x > 0) => NonScalarsAreSized(new)
<1> DEFINE new == [sys EXCEPT !.Size[n] = x]
<1>1. /\ new.Size = [sys.Size EXCEPT ![n] = x] /\ new.NonScalar = sys.NonScalar
      /\ new.Succ = sys.Succ /\ new.Layouts = sys.Layouts
  BY DEF HasFields
<1> HIDE DEF new
<1>2. new.Size \in [Nat -> Nat]
  BY <1>1 DEF Measured
<1>3. Measured(new)
  BY <1>1, <1>2 DEF Measured
<1>4. ASSUME NonScalarsAreSized(sys), sys.NonScalar[n] => x > 0
      PROVE  NonScalarsAreSized(new)
  BY <1>1, <1>4 DEF NonScalarsAreSized, Measured
<1> QED  BY <1>1, <1>3, <1>4 DEF new

(* The sizes of a graph where from has been merged into into.               *)
LEMMA MergeNodeSizes ==
  ASSUME NEW sys, WellFormed(sys), Measured(sys),
         NEW into \in sys.Layouts, NEW from \in sys.Layouts, into # from
  PROVE  LET new == mergeNode(sys, into, from) IN
         /\ Measured(new)
         /\ new.Size[into] = mergedSize(sys, into, from)
         /\ \A n \in Nat : n # into /\ n # from => new.Size[n] = sys.Size[n]
         /\ NonScalarsAreSized(sys) => NonScalarsAreSized(new)
<1> DEFINE new == mergeNode(sys, into, from)
           fixed == fixPredSucc(sys, from, into)
           merged == destroyed(fixed, from)
           Q == quotient(sys.Succ, into, from)
<1>1. into \in Nat /\ from \in Nat
  BY DEF WellFormed
<1>2. /\ new.Succ = Q
      /\ \A m : m \in new.Layouts <=> m \in sys.Layouts /\ m # from
  BY MergeNodeFields
<1>3. HasFields(fixed) /\ SameSizes(fixed, sys)
  <2>1. HasFields(fixed)
    BY FixPredSuccFields
  <2>2. SameSizes(fixed, sys)
    BY DEF fixPredSucc, SameSizes, WellFormed, HasFields
  <2> QED  BY <2>1, <2>2
<1> HIDE DEF fixed
<1>4. /\ HasFields(merged)
      /\ merged.Size = [sys.Size EXCEPT ![from] = 0]
      /\ merged.NonScalar = [sys.NonScalar EXCEPT ![from] = FALSE]
  BY <1>3 DEF destroyed, SameSizes, HasFields
<1>5. new = [merged EXCEPT !.Info[into] = "Unknown",
                           !.Size[into] = mergedSize(sys, into, from),
                           !.NonScalar[into] = @ \/ sys.NonScalar[from],
                           !.Class = joined(@, into, from)]
  BY DEF mergeNode, merged, fixed
<1> HIDE DEF merged, new
<1>6. /\ new.Size = [merged.Size EXCEPT ![into] = mergedSize(sys, into, from)]
      /\ new.NonScalar = [merged.NonScalar EXCEPT ![into] = @ \/ sys.NonScalar[from]]
  BY <1>4, <1>5 DEF HasFields
<1>7. mergedSize(sys, into, from) \in Nat /\ mergedSize(sys, into, from) >= sys.Size[into]
      /\ mergedSize(sys, into, from) >= sys.Size[from]
  BY <1>1 DEF mergedSize, Measured
<1>8. /\ new.Size \in [Nat -> Nat] /\ new.Size[into] = mergedSize(sys, into, from)
      /\ \A n \in Nat : n # into /\ n # from => new.Size[n] = sys.Size[n]
  BY <1>1, <1>4, <1>6, <1>7 DEF Measured
<1>9. /\ new.NonScalar \in [Nat -> BOOLEAN]
      /\ \A n \in Nat : new.NonScalar[n] =>
           n # from /\ (IF n = into THEN sys.NonScalar[into] \/ sys.NonScalar[from] ELSE sys.NonScalar[n])
  BY <1>1, <1>4, <1>6, ZenonT(60) DEF Measured
<1>10. IsFiniteSet(Q) /\ \A e \in Q : IsOE(e.tag.OE)
  <2> DEFINE f == [e \in sys.Succ |-> renamedEdge(e, into, from)]
             T == {f[e] : e \in sys.Succ}
  <2>1. f \in Surjection(sys.Succ, T)
    BY DEF Surjection
  <2>2. IsFiniteSet(T)
    <3> HIDE DEF f, T
    <3> QED  BY <2>1, FS_Surjection DEF Measured
  <2>3. Q \subseteq T
    BY DEF quotient
  <2>4. \A e \in Q : IsOE(e.tag.OE)
    BY QuotientEdges DEF Measured
  <2> QED  BY <2>2, <2>3, <2>4, FS_Subset
<1>11. Measured(new)
  BY <1>2, <1>8, <1>9, <1>10 DEF Measured
<1>12. ASSUME NonScalarsAreSized(sys) PROVE NonScalarsAreSized(new)
  <2> SUFFICES ASSUME NEW n \in Nat, new.NonScalar[n] PROVE n \in new.Layouts /\ new.Size[n] # 0
    BY DEF NonScalarsAreSized
  <2>1. CASE n = into
    <3>1. sys.Size[into] # 0 \/ sys.Size[from] # 0
      BY <1>1, <1>9, <1>12, <2>1 DEF NonScalarsAreSized
    <3>2. sys.Size[into] \in Nat /\ sys.Size[from] \in Nat
      BY <1>1 DEF Measured
    <3> QED  BY <1>2, <1>7, <1>8, <2>1, <3>1, <3>2
  <2>2. CASE n # into
    BY <1>2, <1>8, <1>9, <1>12, <2>2 DEF NonScalarsAreSized
  <2> QED  BY <2>1, <2>2
<1> QED  BY <1>8, <1>11, <1>12 DEF new

LEMMA RemoveNodeSizes ==
  ASSUME NEW sys, WellFormed(sys), Measured(sys), NEW n
  PROVE  LET new == removeNode(sys, n) IN
         /\ Measured(new)
         /\ \A m \in Nat : m # n => new.Size[m] = sys.Size[m]
         /\ NonScalarsAreSized(sys) => NonScalarsAreSized(new)
<1> DEFINE new == removeNode(sys, n)
           removed == removeClass(sys, n)
           dead == destroyed(removed, n)
<1>1. /\ \A m : m \in new.Layouts <=> m \in sys.Layouts /\ m # n
      /\ \A e : e \in new.Succ <=> e \in sys.Succ /\ e.src # n /\ e.tgt # n
  BY RemoveNodeFields
<1>2. HasFields(removed) /\ SameSizes(removed, sys)
  BY DEF removeClass, SameSizes, WellFormed, HasFields
<1> HIDE DEF removed
<1>3. /\ HasFields(dead)
      /\ dead.Size = [sys.Size EXCEPT ![n] = 0]
      /\ dead.NonScalar = [sys.NonScalar EXCEPT ![n] = FALSE]
  BY <1>2 DEF destroyed, SameSizes, HasFields
<1>4. /\ new.Size = dead.Size /\ new.NonScalar = dead.NonScalar
  <2> HIDE DEF dead
  <2>1. \E P, S : new = [dead EXCEPT !.Pred = P, !.Succ = S]
    BY DEF removeNode, dead, removed
  <2> HIDE DEF new
  <2> QED  BY <1>3, <2>1 DEF HasFields
<1> HIDE DEF dead, new
<1>5. /\ new.Size \in [Nat -> Nat] /\ \A m \in Nat : m # n => new.Size[m] = sys.Size[m]
  BY <1>3, <1>4 DEF Measured
<1>6. /\ new.NonScalar \in [Nat -> BOOLEAN]
      /\ \A m \in Nat : new.NonScalar[m] => m # n /\ sys.NonScalar[m]
  BY <1>3, <1>4, ZenonT(60) DEF Measured
<1>7. IsFiniteSet(new.Succ)
  <2>1. new.Succ \subseteq sys.Succ
    BY <1>1
  <2> QED  BY <2>1, FS_Subset DEF Measured
<1>8. Measured(new)
  BY <1>1, <1>5, <1>6, <1>7 DEF Measured
<1>9. ASSUME NonScalarsAreSized(sys) PROVE NonScalarsAreSized(new)
  BY <1>1, <1>5, <1>6, <1>9 DEF NonScalarsAreSized
<1> QED  BY <1>5, <1>8, <1>9 DEF new

------------------------------------------------------------------------------
(* The handlers of the front-end.                                           *)
StaysMeasured(new, sys) ==
  Measured(new) /\ (NonScalarsAreSized(sys) => NonScalarsAreSized(new))

LEMMA NewNodeIsMeasured ==
  ASSUME NEW sys, WellFormed(sys), LinksBothWays(sys.Succ), Measured(sys), NEW x \in Nat
  PROVE  LET new == [createArtificialLayoutType(sys) EXCEPT !.Size[sys.NID] = x] IN
         /\ WellFormed(new) /\ LinksBothWays(new.Succ) /\ StaysMeasured(new, sys)
         /\ \A m : m \in new.Layouts <=> m \in sys.Layouts \/ m = sys.NID
<1> DEFINE created == createArtificialLayoutType(sys)
           new == [created EXCEPT !.Size[sys.NID] = x]
<1>1. /\ WellFormed(new) /\ LinksBothWays(new.Succ)
      /\ \A m : m \in new.Layouts <=> m \in sys.Layouts \/ m = sys.NID
  BY CreatedIsSound
<1>2. StaysMeasured(created, sys) /\ SameSizes(created, sys)
  BY CreatedIsMeasured DEF StaysMeasured
<1>3. HasFields(created)
  BY CreateFields DEF WellFormed
<1>4. sys.NID \in Nat /\ sys.NID \notin sys.Layouts
  BY DEF WellFormed
<1>5. NonScalarsAreSized(sys) => ~created.NonScalar[sys.NID]
  BY <1>2, <1>4 DEF SameSizes, NonScalarsAreSized
<1> HIDE DEF created
<1>6. Measured(new) /\ (NonScalarsAreSized(created) /\ ~created.NonScalar[sys.NID] => NonScalarsAreSized(new))
  BY <1>2, <1>3, SetSizeIsMeasured DEF StaysMeasured
<1>7. StaysMeasured(new, sys)
  BY <1>2, <1>5, <1>6 DEF StaysMeasured
<1> QED  BY <1>1, <1>7 DEF created

LEMMA GetOrCreateIsMeasured ==
  ASSUME NEW b, IsBuilder(b), Measured(b.sys), NEW v \in Values
  PROVE  StaysMeasured(getOrCreateLayoutType(b, v).sys, b.sys)
<1>1. CASE v = NoNode \/ b.map[v] # NoNode
  BY <1>1 DEF getOrCreateLayoutType, StaysMeasured
<1>2. CASE ~(v = NoNode \/ b.map[v] # NoNode)
  <2>1. getOrCreateLayoutType(b, v).sys = createArtificialLayoutType(b.sys)
    BY <1>2 DEF getOrCreateLayoutType
  <2> QED  BY <2>1, CreatedIsMeasured DEF StaysMeasured, IsBuilder
<1> QED  BY <1>1, <1>2

LEMMA PlaceholderIsMeasured ==
  ASSUME NEW sys, WellFormed(sys), LinksBothWays(sys.Succ), Measured(sys), NEW n \in sys.Layouts
  PROVE  StaysMeasured(addPlaceholder(sys, n), sys)
<1> DEFINE sized == [createArtificialLayoutType(sys) EXCEPT !.Size[sys.NID] = PointerSize]
<1>1. /\ WellFormed(sized) /\ LinksBothWays(sized.Succ) /\ StaysMeasured(sized, sys)
      /\ \A m : m \in sized.Layouts <=> m \in sys.Layouts \/ m = sys.NID
  BY NewNodeIsMeasured, FrontendAssumption
<1>2. addPlaceholder(sys, n) = addLink(sized, sys.NID, n, PointerTag)
  BY DEF addPlaceholder, addPointerLink
<1> HIDE DEF sized
<1>3. sys.NID \in sized.Layouts /\ n \in sized.Layouts
  BY <1>1
<1> QED  BY <1>1, <1>2, <1>3, LinkIsMeasured DEF StaysMeasured

LEMMA TypedArgumentIsMeasured ==
  ASSUME NEW b, IsBuilder(b), Measured(b.sys), NEW i, HasNode(b, i.val),
         i.Size \in Nat, i.NonScalar \in BOOLEAN
  PROVE  LET new == typedArgument(b, i).sys IN
         Measured(new) /\ (NonScalarsAreSized(b.sys) /\ i.Size > 0 => NonScalarsAreSized(new))
<1> DEFINE n == b.map[i.val]
           scalar == [b.sys EXCEPT !.NonScalar[n] = b.sys.NonScalar[n] \/ i.NonScalar]
           sized == [scalar EXCEPT !.Size[n] = i.Size]
<1>1. HasFields(b.sys) /\ n \in b.sys.Layouts /\ n \in Nat
  BY DEF IsBuilder, WellFormed, HasNode
<1>2. typedArgument(b, i).sys = sized
  BY DEF typedArgument, IsBuilder
<1> HIDE DEF n
<1>3. /\ HasFields(scalar) /\ scalar.Size = b.sys.Size
      /\ scalar.NonScalar = [b.sys.NonScalar EXCEPT ![n] = b.sys.NonScalar[n] \/ i.NonScalar]
      /\ scalar.Succ = b.sys.Succ /\ scalar.Layouts = b.sys.Layouts
  BY <1>1 DEF HasFields
<1> HIDE DEF scalar
<1>4. scalar.NonScalar \in [Nat -> BOOLEAN]
  BY <1>1, <1>3, Zenon DEF Measured
<1>5. Measured(scalar)
  BY <1>3, <1>4 DEF Measured
<1>6. /\ sized.Size = [scalar.Size EXCEPT ![n] = i.Size]
      /\ sized.NonScalar = scalar.NonScalar
      /\ sized.Layouts = scalar.Layouts /\ sized.Succ = scalar.Succ
  BY <1>3 DEF HasFields
<1>7. Measured(sized) /\ sized.Layouts = b.sys.Layouts
  <2>1. [scalar.Size EXCEPT ![n] = i.Size] \in [Nat -> Nat]
    BY <1>5 DEF Measured
  <2> HIDE DEF sized
  <2> QED  BY <1>3, <1>5, <1>6, <2>1 DEF Measured
<1> HIDE DEF sized
<1>8. ASSUME NonScalarsAreSized(b.sys), i.Size > 0 PROVE NonScalarsAreSized(sized)
  <2> SUFFICES ASSUME NEW m \in Nat, sized.NonScalar[m]
               PROVE  m \in sized.Layouts /\ sized.Size[m] # 0
    BY DEF NonScalarsAreSized
  <2>1. CASE m = n
    <3>1. sized.Size[m] = i.Size
      BY <1>1, <1>3, <1>6, <2>1 DEF Measured
    <3> QED  BY <1>1, <1>7, <1>8, <2>1, <3>1
  <2>2. CASE m # n
    <3>1. sized.Size[m] = b.sys.Size[m]
      BY <1>3, <1>6, <2>2 DEF Measured
    <3>2. b.sys.NonScalar[m]
      <4>1. b.sys.NonScalar \in [Nat -> BOOLEAN] /\ scalar.NonScalar[m]
        BY <1>6 DEF Measured
      <4> DEFINE ns == b.sys.NonScalar
                 x == b.sys.NonScalar[n] \/ i.NonScalar
      <4>2. scalar.NonScalar = [ns EXCEPT ![n] = x] /\ ns \in [Nat -> BOOLEAN]
        BY <1>3, <4>1
      <4> HIDE DEF ns, x
      <4>3. ns[m]
        BY <2>2, <4>1, <4>2, Zenon
      <4> QED  BY <4>3 DEF ns
    <3> QED  BY <1>7, <1>8, <3>1, <3>2 DEF NonScalarsAreSized
  <2> QED  BY <2>1, <2>2
<1> QED  BY <1>2, <1>7, <1>8

LEMMA HandlersOfPairsAreMeasured ==
  ASSUME NEW b, IsBuilder(b), Measured(b.sys), NEW i, HasNode(b, i.val), HasNode(b, i.other)
  PROVE  /\ StaysMeasured(sameLayout(b, i).sys, b.sys)
         /\ StaysMeasured(incomingValue(b, i).sys, b.sys)
         /\ StaysMeasured(passedValue(b, i).sys, b.sys)
         /\ IsOE(i.OE) => StaysMeasured(addressFromBase(b, i).sys, b.sys)
<1> DEFINE s == b.map[i.val]
           t == b.map[i.other]
<1>1. WellFormed(b.sys) /\ LinksBothWays(b.sys.Succ) /\ s \in b.sys.Layouts /\ t \in b.sys.Layouts
  BY DEF IsBuilder, HasNode
<1>2. /\ sameLayout(b, i).sys = addEqualityLink(b.sys, s, t)
      /\ incomingValue(b, i).sys = addInstanceLink(b.sys, s, t, AtOffset(0))
      /\ passedValue(b, i).sys = addPlaceholder(addInstanceLink(b.sys, s, t, AtOffset(0)), s)
      /\ addressFromBase(b, i).sys \in {b.sys, addInstanceLink(b.sys, s, t, i.OE)}
  BY DEF IsBuilder, sameLayout, incomingValue, passedValue, addressFromBase
<1> HIDE DEF s, t
<1>3. StaysMeasured(addEqualityLink(b.sys, s, t), b.sys)
  <2> DEFINE first == addLink(b.sys, s, t, EqualityTag)
  <2>1. WellFormed(first) /\ first.Layouts = b.sys.Layouts
    BY <1>1, AddLinkFields, TagFields, NullIsNoID
  <2>2. StaysMeasured(first, b.sys)
    BY <1>1, LinkIsMeasured DEF StaysMeasured
  <2>3. addEqualityLink(b.sys, s, t) = addLink(first, t, s, EqualityTag)
    BY DEF addEqualityLink
  <2> HIDE DEF first
  <2>4. StaysMeasured(addLink(first, t, s, EqualityTag), first)
    BY <1>1, <2>1, <2>2, LinkIsMeasured DEF StaysMeasured
  <2> QED  BY <2>2, <2>3, <2>4 DEF StaysMeasured
<1>4. /\ StaysMeasured(addInstanceLink(b.sys, s, t, AtOffset(0)), b.sys)
      /\ IsOE(i.OE) => StaysMeasured(addInstanceLink(b.sys, s, t, i.OE), b.sys)
  BY <1>1, OffsetsOfTags, InstanceLinkIsMeasured DEF StaysMeasured
<1>5. StaysMeasured(addPlaceholder(addInstanceLink(b.sys, s, t, AtOffset(0)), s), b.sys)
  <2> DEFINE linked == addInstanceLink(b.sys, s, t, AtOffset(0))
  <2>1. WellFormed(linked) /\ LinksBothWays(linked.Succ) /\ linked.Layouts = b.sys.Layouts
    BY <1>1, InstanceLinkIsSound, TagFields
  <2>2. Measured(linked) /\ StaysMeasured(linked, b.sys)
    BY <1>4 DEF StaysMeasured
  <2> HIDE DEF linked
  <2>3. StaysMeasured(addPlaceholder(linked, s), linked)
    BY <1>1, <2>1, <2>2, PlaceholderIsMeasured
  <2>4. StaysMeasured(addPlaceholder(linked, s), b.sys)
    BY <2>2, <2>3 DEF StaysMeasured
  <2> QED  BY <2>4 DEF linked
<1>6. StaysMeasured(b.sys, b.sys)
  BY DEF StaysMeasured
<1> QED  BY <1>2, <1>3, <1>4, <1>5, <1>6

LEMMA StringLiteralIsMeasured ==
  ASSUME NEW b, IsBuilder(b), Measured(b.sys), NEW i, HasNode(b, i.val), HasNode(b, i.other),
         i.call \in Values, i.Offset \in Nat, i.Length \in Nat
  PROVE  StaysMeasured(stringLiteral(b, i).sys, b.sys)
<1> DEFINE byte == b.sys.NID
           bytes == OffsetExpression(0, <<[Stride |-> 1, TripCount |-> 1 + i.Length]>>)
           inSegment == addInstanceLink(b.sys, b.map[i.val], b.map[i.other], AtOffset(i.Offset))
           created == [createArtificialLayoutType(inSegment) EXCEPT !.Size[byte] = 1]
           literal == addInstanceLink(created, b.map[i.other], byte, bytes)
           withLiteral == [b EXCEPT !.sys = literal]
           withCall == getOrCreateLayoutType(withLiteral, i.call)
           final == addInstanceLink(withCall.sys, withCall.map[i.call], byte, AtOffset(0))
<1>1. /\ WellFormed(inSegment) /\ LinksBothWays(inSegment.Succ)
      /\ inSegment.NID = byte /\ inSegment.Layouts = b.sys.Layouts
  BY InstanceLinkIsSound, TagFields DEF IsBuilder, HasNode
<1>2. StaysMeasured(inSegment, b.sys)
  BY InstanceLinkIsMeasured, OffsetsOfTags DEF IsBuilder, HasNode, StaysMeasured
<1> HIDE DEF inSegment
<1>3. created = [createArtificialLayoutType(inSegment) EXCEPT !.Size[inSegment.NID] = 1]
  BY <1>1
<1>4. /\ WellFormed(created) /\ LinksBothWays(created.Succ) /\ StaysMeasured(created, inSegment)
      /\ \A m : m \in created.Layouts <=> m \in b.sys.Layouts \/ m = byte
  <2>1. Measured(inSegment)
    BY <1>2 DEF StaysMeasured
  <2> HIDE DEF created, byte
  <2> QED  BY <1>1, <1>3, <2>1, NewNodeIsMeasured
<1> HIDE DEF created
<1>5. byte \in created.Layouts /\ b.map[i.other] \in created.Layouts
  BY <1>4 DEF HasNode
<1>6. IsOE(bytes) /\ Len(bytes.Strides) \in Nat
  <2>1. <<[Stride |-> 1, TripCount |-> 1 + i.Length]>> \in Seq(Stride)
    BY DEF Stride
  <2> QED  BY <2>1 DEF IsOE, OffsetExpression
<1>7. /\ WellFormed(literal) /\ LinksBothWays(literal.Succ) /\ literal.Layouts = created.Layouts
      /\ StaysMeasured(literal, created)
  <2>1. Measured(created)
    BY <1>4 DEF StaysMeasured
  <2> HIDE DEF byte, bytes
  <2> QED  BY <1>4, <1>5, <1>6, <2>1, InstanceLinkIsSound, InstanceLinkIsMeasured DEF StaysMeasured
<1> HIDE DEF literal
<1>8. \A m \in b.sys.Layouts : m \in literal.Layouts
  BY <1>4, <1>7
<1>9. IsBuilder(withLiteral) /\ withLiteral.sys = literal
  BY <1>7, <1>8, SetSysIsBuilder, Zenon
<1> HIDE DEF withLiteral
<1>10. /\ IsBuilder(withCall) /\ HasNode(withCall, i.call)
       /\ \A m \in literal.Layouts : m \in withCall.sys.Layouts
  BY <1>9, GetOrCreateFields
<1>11. StaysMeasured(withCall.sys, literal)
  BY <1>7, <1>9, GetOrCreateIsMeasured DEF StaysMeasured
<1> HIDE DEF withCall
<1>12. byte \in withCall.sys.Layouts
  BY <1>5, <1>7, <1>10
<1>13. StaysMeasured(final, withCall.sys)
  <2>1. Measured(withCall.sys)
    BY <1>11 DEF StaysMeasured
  <2> HIDE DEF byte
  <2> QED  BY <1>10, <1>12, <2>1, InstanceLinkIsMeasured, OffsetsOfTags
           DEF IsBuilder, HasNode, StaysMeasured
<1>14. stringLiteral(b, i).sys = final
  <2>1. stringLiteral(b, i)
          = [withCall EXCEPT !.sys = addInstanceLink(@, withCall.map[i.call], byte, AtOffset(0))]
    BY Zenon DEF stringLiteral, withCall, withLiteral, literal, created, inSegment, byte, bytes
  <2> QED  BY <1>10, <2>1 DEF IsBuilder
<1> HIDE DEF final
<1> QED  BY <1>2, <1>4, <1>7, <1>11, <1>13, <1>14 DEF StaysMeasured

LEMMA AccessIsMeasured ==
  ASSUME NEW b, IsBuilder(b), Measured(b.sys), NEW i, HasNode(b, i.val), HasNode(b, i.other),
         i.Size \in Nat
  PROVE  StaysMeasured(accessThrough(b, i).sys, b.sys)
<1> DEFINE n == b.sys.NID
           pointee == b.map[i.other]
           sized == [createArtificialLayoutType(b.sys) EXCEPT !.Size[n] = i.Size]
           created == [sized EXCEPT !.Info[n] = "AllChildrenAreNonInterfering"]
           linked == addInstanceLink(created, b.map[i.val], n, AtOffset(0))
           unknown == [linked EXCEPT !.Info[pointee] = "Unknown"]
           pointing == addPointerLink(unknown, n, pointee)
           others == {e.src : e \in {p \in PredecessorEdges(pointing, pointee) : IsPointerEdge(p)}} \ {n}
           equal == {Edge(n, o, EqualityTag) : o \in others} \cup {Edge(o, n, EqualityTag) : o \in others}
           final == IF i.Size # PointerSize THEN linked ELSE withEdges(pointing, equal)
<1>1. accessThrough(b, i) = [b EXCEPT !.sys = final]
  BY Zenon DEF accessThrough
<1>2. accessThrough(b, i).sys = final
  <2> HIDE DEF final
  <2> QED  BY <1>1 DEF IsBuilder
<1>3. /\ WellFormed(sized) /\ LinksBothWays(sized.Succ) /\ n \notin b.sys.Layouts
      /\ \A m : m \in sized.Layouts <=> m \in b.sys.Layouts \/ m = n
      /\ StaysMeasured(sized, b.sys)
  BY NewNodeIsMeasured DEF IsBuilder, WellFormed
<1> HIDE DEF sized
<1>4. SameGraph(created, sized) /\ SameSizes(created, sized)
  BY <1>3, SetFields, EdgeMethodsKeepSizes DEF WellFormed
<1>5. /\ WellFormed(created) /\ LinksBothWays(created.Succ) /\ StaysMeasured(created, b.sys)
      /\ \A m : m \in created.Layouts <=> m \in b.sys.Layouts \/ m = n
  <2>1. WellFormed(created) /\ created.Succ = sized.Succ /\ created.Layouts = sized.Layouts
    BY <1>3, <1>4, SameGraphIsWellFormed DEF SameGraph
  <2> HIDE DEF created
  <2>2. StaysMeasured(created, b.sys)
    BY <1>3, <1>4, <2>1 DEF StaysMeasured, Measured, NonScalarsAreSized, SameSizes
  <2> QED  BY <1>3, <2>1, <2>2
<1> HIDE DEF created
<1>6. n \in created.Layouts /\ pointee \in created.Layouts /\ b.map[i.val] \in created.Layouts /\ n # pointee
  BY <1>3, <1>5 DEF HasNode
<1> HIDE DEF n, pointee
<1>7. WellFormed(linked) /\ linked.Layouts = created.Layouts /\ StaysMeasured(linked, b.sys)
  <2>1. Measured(created)
    BY <1>5 DEF StaysMeasured
  <2>2. StaysMeasured(linked, created)
    BY <1>5, <1>6, <2>1, InstanceLinkIsMeasured, OffsetsOfTags DEF StaysMeasured
  <2>3. WellFormed(linked) /\ linked.Layouts = created.Layouts
    BY <1>5, <1>6, InstanceLinkIsSound, TagFields
  <2> HIDE DEF linked
  <2> QED  BY <1>5, <2>2, <2>3 DEF StaysMeasured
<1> HIDE DEF linked
<1>8. SameGraph(unknown, linked) /\ SameSizes(unknown, linked)
  BY <1>7, SetFields, EdgeMethodsKeepSizes DEF WellFormed
<1>9. WellFormed(unknown) /\ unknown.Layouts = created.Layouts /\ StaysMeasured(unknown, b.sys)
  <2>1. WellFormed(unknown) /\ unknown.Succ = linked.Succ /\ unknown.Layouts = linked.Layouts
    BY <1>7, <1>8, SameGraphIsWellFormed DEF SameGraph
  <2> HIDE DEF unknown
  <2>2. StaysMeasured(unknown, b.sys)
    BY <1>7, <1>8, <2>1 DEF StaysMeasured, Measured, NonScalarsAreSized, SameSizes
  <2> QED  BY <1>7, <2>1, <2>2
<1> HIDE DEF unknown
<1>10. WellFormed(pointing) /\ pointing.Layouts = created.Layouts /\ StaysMeasured(pointing, b.sys)
  <2>1. WellFormed(pointing) /\ pointing.Layouts = created.Layouts
    BY <1>6, <1>9, AddLinkFields, TagFields, NullIsNoID DEF addPointerLink
  <2>2. StaysMeasured(addLink(unknown, n, pointee, PointerTag), unknown)
    BY <1>6, <1>9, LinkIsMeasured DEF StaysMeasured
  <2>3. pointing = addLink(unknown, n, pointee, PointerTag)
    BY DEF addPointerLink
  <2> HIDE DEF pointing
  <2> QED  BY <1>9, <2>1, <2>2, <2>3 DEF StaysMeasured
<1> HIDE DEF pointing
<1>11. /\ \A o \in others : o \in created.Layouts /\ o # n
       /\ others \subseteq pointing.Layouts
  BY <1>10 DEF WellFormed, PredecessorEdges, Joins
<1>12. IsFiniteSet(others)
  BY <1>10, <1>11, LiveNodesAreFinite, FS_Subset
<1> HIDE DEF others
<1>13. \A e \in equal : Joins(e, pointing.Layouts) /\ IsOE(e.tag.OE)
  BY <1>6, <1>10, <1>11, EdgeFields, TagFields, OffsetsOfTags DEF Joins
<1>14. IsFiniteSet(equal)
  <2> DEFINE f == [o \in others |-> Edge(n, o, EqualityTag)]
             g == [o \in others |-> Edge(o, n, EqualityTag)]
             F == {f[o] : o \in others}
             G == {g[o] : o \in others}
  <2>1. f \in Surjection(others, F) /\ g \in Surjection(others, G)
    BY DEF Surjection
  <2>2. equal = F \cup G
    OBVIOUS
  <2> HIDE DEF f, g, F, G, equal
  <2> QED  BY <1>12, <2>1, <2>2, FS_Surjection, FS_Union
<1> HIDE DEF equal
<1>15. StaysMeasured(withEdges(pointing, equal), pointing)
  BY <1>10, <1>13, <1>14, WithEdgesIsMeasured DEF StaysMeasured
<1>16. StaysMeasured(withEdges(pointing, equal), b.sys)
  BY <1>10, <1>15 DEF StaysMeasured
<1> QED  BY <1>2, <1>7, <1>16

(* Whatever the instruction; an argument with a type in the model has a     *)
(* size.                                                                    *)
LEMMA ProcessedIsMeasured ==
  ASSUME NEW b, IsBuilder(b), Measured(b.sys), NEW i \in Instruction
  PROVE  LET new == processed(b, i).sys IN
         /\ Measured(new)
         /\ NonScalarsAreSized(b.sys) /\ (i.op = "Arg" => i.Size > 0) => NonScalarsAreSized(new)
<1> DEFINE first == getOrCreateLayoutType(b, i.val)
           both == getOrCreateLayoutType(first, i.other)
<1>1. /\ i.op \in {"Arg", "StackFrame", "Literal", "Same", "Call", "Phi", "Base", "Access"}
      /\ i.val \in Values
      /\ i.op \notin {"Arg", "StackFrame"} => i.other \in Values
      /\ i.op = "Arg" => i.Size \in Nat /\ i.NonScalar \in BOOLEAN
      /\ i.op = "Literal" => i.call \in Values /\ i.Offset \in Nat /\ i.Length \in Nat
      /\ i.op = "Base" => IsOE(i.OE)
      /\ i.op = "Access" => i.Size \in Nat
  BY DEF Instruction, IsOE
<1>2. IsBuilder(first) /\ HasNode(first, i.val) /\ StaysMeasured(first.sys, b.sys)
  BY <1>1, GetOrCreateFields, GetOrCreateIsMeasured
<1> HIDE DEF first
<1>3. Measured(first.sys)
  BY <1>2 DEF StaysMeasured
<1>4. i.op \notin {"Arg", "StackFrame"} =>
        /\ IsBuilder(both) /\ HasNode(both, i.val) /\ HasNode(both, i.other)
        /\ StaysMeasured(both.sys, b.sys) /\ Measured(both.sys)
  <2> SUFFICES ASSUME i.op \notin {"Arg", "StackFrame"}
               PROVE  /\ IsBuilder(both) /\ HasNode(both, i.val) /\ HasNode(both, i.other)
                      /\ StaysMeasured(both.sys, b.sys) /\ Measured(both.sys)
    OBVIOUS
  <2>1. IsBuilder(both) /\ HasNode(both, i.val) /\ HasNode(both, i.other)
    BY <1>1, <1>2, GetOrCreateFields
  <2>2. StaysMeasured(both.sys, first.sys)
    BY <1>1, <1>2, <1>3, GetOrCreateIsMeasured
  <2> QED  BY <1>2, <2>1, <2>2 DEF StaysMeasured
<1> HIDE DEF both
<1>5. processed(b, i) =
        CASE i.op = "Arg" -> typedArgument(first, i)
          [] i.op = "StackFrame" -> stackFrame(first, i)
          [] i.op = "Literal" -> stringLiteral(both, i)
          [] i.op = "Same" -> sameLayout(both, i)
          [] i.op = "Call" -> passedValue(both, i)
          [] i.op = "Phi" -> incomingValue(both, i)
          [] i.op = "Base" -> addressFromBase(both, i)
          [] i.op = "Access" -> accessThrough(both, i)
  BY DEF processed, first, both
<1>6. CASE i.op = "Arg"
  <2>1. processed(b, i) = typedArgument(first, i)
    BY <1>5, <1>6
  <2> QED  BY <1>1, <1>2, <1>3, <1>6, <2>1, TypedArgumentIsMeasured DEF StaysMeasured
<1>7. CASE i.op = "StackFrame"
  <2>1. processed(b, i).sys = addPlaceholder(first.sys, first.map[i.val])
    BY <1>2, <1>5, <1>7 DEF stackFrame, IsBuilder
  <2>2. StaysMeasured(processed(b, i).sys, first.sys)
    BY <1>2, <1>3, <2>1, PlaceholderIsMeasured DEF IsBuilder, HasNode
  <2> QED  BY <1>2, <2>2 DEF StaysMeasured
<1>8. CASE i.op \notin {"Arg", "StackFrame"}
  <2>1. StaysMeasured(processed(b, i).sys, both.sys)
    <3>1. CASE i.op = "Literal"
      BY <1>1, <1>4, <1>5, <3>1, StringLiteralIsMeasured
    <3>2. CASE i.op = "Access"
      BY <1>1, <1>4, <1>5, <3>2, AccessIsMeasured
    <3>3. CASE i.op \in {"Same", "Call", "Phi", "Base"}
      BY <1>1, <1>4, <1>5, <3>3, HandlersOfPairsAreMeasured
    <3> QED  BY <1>1, <1>8, <3>1, <3>2, <3>3
  <2> QED  BY <1>4, <1>8, <2>1 DEF StaysMeasured
<1> QED  BY <1>6, <1>7, <1>8

------------------------------------------------------------------------------
(* The edges DecomposeStridedEdges makes, and the sizes of the new nodes.   *)
LEMMA ChainEdgeFields ==
  ASSUME NEW sys, WellFormed(sys), Measured(sys), NEW e \in manyStrides(sys), NEW i \in 1..Depth(e)
  PROVE  LET f == chainEdge(sys, e, i) IN
         /\ f.src = NodeChain(sys, e, i) /\ f.tgt = NodeChain(sys, e, i - 1)
         /\ IsInstanceEdge(f) /\ IsOE(f.tag.OE) /\ Depth(f) = 1
         /\ f.tag.OE.Offset = (IF i = Depth(e) THEN e.tag.OE.Offset ELSE 0)
         /\ layerOf(f, 1) = layerOf(e, i) /\ layerOf(e, i) \in Stride
<1> DEFINE offset == IF i = Depth(e) THEN e.tag.OE.Offset ELSE 0
           layer == layerOf(e, i)
           f == Edge(NodeChain(sys, e, i), NodeChain(sys, e, i - 1),
                     InstanceTag(OffsetExpression(offset, <<layer>>)))
<1>1. chainEdge(sys, e, i) = f
  BY DEF chainEdge, Depth
<1>2. e \in sys.Succ /\ IsOE(e.tag.OE)
  BY DEF manyStrides, Measured
<1>3. layer \in Stride /\ offset \in Nat
  BY <1>2, LayersOf DEF IsOE
<1> HIDE DEF offset, layer
<1>4. /\ f.src = NodeChain(sys, e, i) /\ f.tgt = NodeChain(sys, e, i - 1)
      /\ IsInstanceEdge(f) /\ f.tag.OE.Offset = offset /\ f.tag.OE.Strides = <<layer>>
  BY DEF Edge, InstanceTag, OffsetExpression, IsInstanceEdge
<1> HIDE DEF f
<1>5. <<layer>> \in Seq(Stride) /\ Len(<<layer>>) = 1 /\ <<layer>>[1 + 1 - 1] = layer
  BY <1>3
<1>6. IsOE(f.tag.OE) /\ Depth(f) = 1 /\ layerOf(f, 1) = layer
  BY <1>3, <1>4, <1>5 DEF IsOE, Depth, layerOf
<1> QED  BY <1>1, <1>3, <1>4, <1>6 DEF offset, layer

LEMMA DecomposedSizes ==
  ASSUME NEW sys, WellFormed(sys), LinksBothWays(sys.Succ), Measured(sys), Node = Nat,
         NEW e \in manyStrides(sys)
  PROVE  LET new == decomposed(sys, e)
             size == spans(sys.Size[e.tgt], e) IN
         /\ Measured(new)
         /\ \A n \in sys.Layouts : new.Size[n] = sys.Size[n]
         /\ \A i \in 0..(Depth(e) - 1) : new.Size[NodeChain(sys, e, i)] = size[i]
         /\ \A f : f \in new.Succ <=> \/ f \in sys.Succ /\ f # e
                                      \/ \E i \in 1..Depth(e) : f = chainEdge(sys, e, i)
<1> DEFINE L == Depth(e)
           fresh == {NodeChain(sys, e, i) : i \in 1..(L - 1)}
           chain == {chainEdge(sys, e, i) : i \in 1..L}
           created == [sys EXCEPT !.NID = @ + L - 1, !.Layouts = @ \cup fresh]
           linked == withEdges(created, chain)
           cut == withoutEdges(linked, {e})
           size == spans(sys.Size[e.tgt], e)
           sizes == [n \in Node |-> IF n \in fresh THEN size[n - sys.NID + 1] ELSE sys.Size[n]]
           new == decomposed(sys, e)
<1>1. /\ e \in sys.Succ /\ L >= 2 /\ L \in Nat /\ IsOE(e.tag.OE)
      /\ e.src \in sys.Layouts /\ e.tgt \in sys.Layouts /\ e.tgt \in Nat
  BY LayersOf DEF manyStrides, WellFormed, Joins, Measured, Depth
<1>2. sys.NID \in Nat /\ \A n \in sys.Layouts : n \in Nat /\ n < sys.NID
  BY DEF WellFormed
<1>3. \A i \in 0..L : NodeChain(sys, e, i) =
        IF i = 0 THEN e.tgt ELSE IF i = L THEN e.src ELSE sys.NID + i - 1
  BY DEF NodeChain, Depth
<1>4. size \in [0..L -> Nat] /\ size[0] = sys.Size[e.tgt]
  BY <1>1, SpansRecursion DEF Measured
<1>5. HasFields(created) /\ created.Succ = sys.Succ /\ created.Pred = sys.Pred
      /\ created.Size = sys.Size /\ created.NonScalar = sys.NonScalar
  BY DEF WellFormed, HasFields
<1> HIDE DEF created
<1>6. HasFields(cut) /\ cut.Succ = (sys.Succ \cup chain) \ {e}
      /\ cut.Size = sys.Size /\ cut.NonScalar = sys.NonScalar
  BY <1>5 DEF withEdges, withoutEdges, HasFields
<1>7. new = [cut EXCEPT !.Size = [n \in Node |-> IF n \in fresh THEN size[n - sys.NID + 1] ELSE @[n]]]
  BY DEF decomposed, cut, linked, created, Depth
<1> HIDE DEF cut, new
<1>8. /\ new.Succ = (sys.Succ \cup chain) \ {e} /\ new.NonScalar = sys.NonScalar
      /\ new.Size = sizes
  BY <1>6, <1>7 DEF HasFields
<1> HIDE DEF size, L
<1>9. ASSUME NEW i \in 1..(L - 1)
      PROVE  /\ NodeChain(sys, e, i) = sys.NID + i - 1 /\ i \in 0..L
             /\ (sys.NID + i - 1) - sys.NID + 1 = i /\ sys.NID + i - 1 \in Nat
             /\ sys.NID + i - 1 \notin sys.Layouts
  BY <1>1, <1>2, <1>3
<1>10. \A n \in sys.Layouts : n \notin fresh
  BY <1>9
<1>11. new.Size \in [Nat -> Nat]
  <2>1. \A n \in Nat : (IF n \in fresh THEN size[n - sys.NID + 1] ELSE sys.Size[n]) \in Nat
    <3> SUFFICES ASSUME NEW n \in Nat
                 PROVE  (IF n \in fresh THEN size[n - sys.NID + 1] ELSE sys.Size[n]) \in Nat
      OBVIOUS
    <3>1. CASE n \in fresh
      BY <1>4, <1>9, <3>1
    <3>2. CASE n \notin fresh
      BY <3>2 DEF Measured
    <3> QED  BY <3>1, <3>2
  <2> HIDE DEF fresh
  <2> QED  BY <1>8, <2>1
<1>12. \A n \in sys.Layouts : new.Size[n] = sys.Size[n]
  BY <1>2, <1>8, <1>10
<1>13. \A i \in 0..(L - 1) : new.Size[NodeChain(sys, e, i)] = size[i]
  <2> SUFFICES ASSUME NEW i \in 0..(L - 1) PROVE new.Size[NodeChain(sys, e, i)] = size[i]
    OBVIOUS
  <2>1. CASE i = 0
    BY <1>1, <1>3, <1>4, <1>12, <2>1
  <2>2. CASE i # 0
    <3>1. i \in 1..(L - 1)
      BY <1>1, <2>2
    <3>2. NodeChain(sys, e, i) \in fresh
      BY <3>1
    <3> QED  BY <1>8, <1>9, <3>1, <3>2
  <2> QED  BY <2>1, <2>2
<1>14. \A i \in 1..L : IsOE(chainEdge(sys, e, i).tag.OE) /\ chainEdge(sys, e, i) # e
  BY <1>1, ChainEdgeFields DEF L
<1>15. \A f : f \in new.Succ <=> \/ f \in sys.Succ /\ f # e
                                 \/ \E i \in 1..L : f = chainEdge(sys, e, i)
  BY <1>8, <1>14
<1>16. IsFiniteSet(new.Succ)
  <2> DEFINE g == [i \in 1..L |-> chainEdge(sys, e, i)]
  <2>1. g \in Surjection(1..L, {g[i] : i \in 1..L})
    BY DEF Surjection
  <2>2. chain = {g[i] : i \in 1..L}
    OBVIOUS
  <2> HIDE DEF g, chain
  <2>3. IsFiniteSet(1..L)
    BY <1>1, FS_Interval
  <2>4. IsFiniteSet(chain)
    BY <2>1, <2>2, <2>3, FS_Surjection
  <2>5. IsFiniteSet(sys.Succ \cup chain)
    BY <2>4, FS_Union DEF Measured
  <2> QED  BY <1>8, <2>5, FS_Subset
<1>17. Measured(new)
  BY <1>8, <1>11, <1>14, <1>15, <1>16 DEF Measured
<1> QED  BY <1>12, <1>13, <1>15, <1>17 DEF new, size, L

(* What a single stride spans.                                              *)
LEMMA SpansOfOneStride ==
  ASSUME NEW f, IsOE(f.tag.OE), Depth(f) = 1, NEW size \in Nat
  PROVE  spans(size, f)[0] = size /\ spans(size, f)[1] = layerSize(size, layerOf(f, 1))
<1>1. 1 \in 1..Depth(f) /\ 1 - 1 = 0
  OBVIOUS
<1> QED  BY <1>1, SpansRecursion

(* The fields an edge with several strides is made into, and the others.    *)
LEMMA DecomposedFields ==
  ASSUME NEW sys, WellFormed(sys), LinksBothWays(sys.Succ), Measured(sys), Node = Nat,
         NEW e \in manyStrides(sys)
  PROVE  LET new == decomposed(sys, e)
             size == spans(sys.Size[e.tgt], e) IN
         /\ \A f \in sys.Succ : getFieldSize(new, f) = getFieldSize(sys, f)
         /\ \A i \in 1..Depth(e) : getFieldSize(new, chainEdge(sys, e, i)) = size[i]
         /\ size[Depth(e)] = getFieldSize(sys, e)
<1> DEFINE new == decomposed(sys, e)
           size == spans(sys.Size[e.tgt], e)
<1>1. /\ \A n \in sys.Layouts : new.Size[n] = sys.Size[n]
      /\ \A i \in 0..(Depth(e) - 1) : new.Size[NodeChain(sys, e, i)] = size[i]
  BY DecomposedSizes
<1> HIDE DEF new
<1>2. \A f \in sys.Succ : getFieldSize(new, f) = getFieldSize(sys, f)
  BY <1>1 DEF getFieldSize, WellFormed, Joins
<1>3. /\ Depth(e) \in Nat /\ size \in [0..Depth(e) -> Nat]
      /\ \A i \in 1..Depth(e) : size[i] = layerSize(size[i - 1], layerOf(e, i))
  <2>1. e \in sys.Succ /\ IsOE(e.tag.OE) /\ sys.Size[e.tgt] \in Nat
    BY DEF manyStrides, WellFormed, Joins, Measured
  <2> QED  BY <2>1, LayersOf, SpansRecursion
<1> HIDE DEF size
<1>4. ASSUME NEW i \in 1..Depth(e) PROVE getFieldSize(new, chainEdge(sys, e, i)) = size[i]
  <2> DEFINE f == chainEdge(sys, e, i)
  <2>1. /\ f.tgt = NodeChain(sys, e, i - 1) /\ IsOE(f.tag.OE) /\ Depth(f) = 1
        /\ layerOf(f, 1) = layerOf(e, i)
    BY ChainEdgeFields
  <2> HIDE DEF f
  <2>2. i - 1 \in 0..(Depth(e) - 1) /\ i - 1 \in 0..Depth(e)
    BY <1>3
  <2>3. new.Size[f.tgt] = size[i - 1] /\ size[i - 1] \in Nat
    BY <1>1, <1>3, <2>1, <2>2
  <2>4. getFieldSize(new, f) = layerSize(size[i - 1], layerOf(e, i))
    BY <2>1, <2>3, SpansOfOneStride DEF getFieldSize, Depth
  <2> QED  BY <1>3, <2>4 DEF f
<1> QED  BY <1>2, <1>4 DEF new, size, getFieldSize, Depth

------------------------------------------------------------------------------
(* Every action.                                                            *)
LEMMA SameIsMeasured ==
  ASSUME Measured(ts), ts' = ts
  PROVE  StaysMeasured(ts', ts)
BY DEF StaysMeasured

LEMMA MergeStaysMeasured ==
  ASSUME NEW sys, WellFormed(sys), Measured(sys),
         NEW into \in sys.Layouts, NEW from \in sys.Layouts, into # from
  PROVE  StaysMeasured(mergeNode(sys, into, from), sys)
BY MergeNodeSizes DEF StaysMeasured

(* The nodes the collapsing steps merge and link are alive.                 *)
LEMMA CollapsedNodes ==
  ASSUME IInv
  PROVE  /\ WellFormed(ts)
         /\ label = "merge" => \A n \in NodesToMerge(work) : n \in ts.Layouts
         /\ label = "merge" => \A n \in work.ToMerge \cup work.Smaller : n # work.First
         /\ label = "chain" => work.Leader \in ts.Layouts /\ \A n \in work.Left : n \in ts.Layouts
BY DEF IInv, TypeInv, CollapseState, Apart, NodesToMerge

LEMMA CollapseStaysMeasured ==
  ASSUME IInv, Measured(ts), CollapseNext
  PROVE  StaysMeasured(ts', ts)
<1>1. WellFormed(ts)
  BY DEF IInv, TypeInv
<1>2. CASE \/ FindSCCs \/ CollapseOneSCC \/ NothingToMerge \/ CollapseDone
           \/ NextRoot \/ PushChild \/ CloseLoop \/ AlreadyVisited \/ Pop \/ BackedgesDone
  <2>1. ts' = ts
    BY <1>2 DEF FindSCCs, CollapseOneSCC, NothingToMerge, CollapseDone, NextRoot, PushChild,
                CloseLoop, AlreadyVisited, Pop, BackedgesDone, Fail, frontendVars
  <2> QED  BY <2>1, SameIsMeasured
<1>3. CASE MergeSameSize \/ MergeLastLeader
  <2>1. label = "merge"
    BY <1>3 DEF MergeSameSize, MergeLastLeader, At
  <2>2. ts' = ts \/ \E n \in work.ToMerge \cup work.Smaller : ts' = mergeNode(ts, work.First, n)
    BY <1>3 DEF MergeSameSize, MergeLastLeader, Fail, frontendVars
  <2>3. work.First \in ts.Layouts
        /\ \A n \in work.ToMerge \cup work.Smaller : n \in ts.Layouts /\ n # work.First
    BY <2>1, CollapsedNodes DEF NodesToMerge
  <2> QED  BY <1>1, <2>2, <2>3, SameIsMeasured, MergeStaysMeasured
<1>4. CASE ChainLeader
  <2> DEFINE erased == withoutEdges(ts, edgesToLeaders(work.Leader))
  <2>1. label = "chain"
    BY <1>4 DEF ChainLeader, At
  <2>2. WellFormed(erased) /\ erased.Layouts = ts.Layouts
    BY <1>1, WithoutEdgesFields
  <2>3. StaysMeasured(erased, ts) /\ Measured(erased)
    BY <1>1, WithoutEdgesIsMeasured DEF StaysMeasured
  <2>4. \/ ts' = erased
        \/ \E n \in work.Left : ts' = addInstanceLink(erased, work.Leader, n, AtOffset(0))
    BY <1>4 DEF ChainLeader, largest
  <2> HIDE DEF erased
  <2>5. work.Leader \in erased.Layouts /\ \A n \in work.Left : n \in erased.Layouts
    BY <2>1, <2>2, CollapsedNodes
  <2>6. \A n \in work.Left :
          StaysMeasured(addInstanceLink(erased, work.Leader, n, AtOffset(0)), erased)
    BY <2>2, <2>3, <2>5, InstanceLinkIsMeasured, OffsetsOfTags DEF StaysMeasured
  <2> QED  BY <2>3, <2>4, <2>6 DEF StaysMeasured
<1>5. CASE RemoveBackedges
  <2>1. ts' = ts \/ ts' = withoutEdges(ts, work.ToRemove)
    BY <1>5 DEF RemoveBackedges, Fail, frontendVars
  <2> QED  BY <1>1, <2>1, SameIsMeasured, WithoutEdgesIsMeasured DEF StaysMeasured
<1> QED  BY <1>2, <1>3, <1>4, <1>5 DEF CollapseNext

(* The root SimplifyInstanceAtOffset0 adds for its visit.                   *)
LEMMA RootedGraph ==
  ASSUME NEW sys, WellFormed(sys), Measured(sys)
  PROVE  LET new == addArtificialRoot(sys) IN
         /\ WellFormed(new) /\ StaysMeasured(new, sys) /\ SameSizes(new, sys)
         /\ \A m : m \in new.Layouts <=> m \in sys.Layouts \/ m = sys.NID
         /\ \A e : e \in new.Succ <=>
              \/ e \in sys.Succ
              \/ \E n \in sys.Layouts : IsInstanceRoot(sys, n) /\ e = Edge(sys.NID, n, InstanceTag(AtOffset(0)))
<1> DEFINE created == createArtificialLayoutType(sys)
           roots == {n \in sys.Layouts : IsInstanceRoot(sys, n)}
           f == [n \in roots |-> Edge(sys.NID, n, InstanceTag(AtOffset(0)))]
           links == {Edge(sys.NID, n, InstanceTag(AtOffset(0))) : n \in roots}
           new == addArtificialRoot(sys)
<1>1. /\ WellFormed(created) /\ created.Succ = sys.Succ /\ sys.NID \notin sys.Layouts
      /\ \A m : m \in created.Layouts <=> m \in sys.Layouts \/ m = sys.NID
      /\ StaysMeasured(created, sys) /\ SameSizes(created, sys)
  BY CreateFields, CreatedIsMeasured DEF StaysMeasured
<1>2. new = withEdges(created, links)
  BY DEF addArtificialRoot
<1> HIDE DEF created
<1>3. IsFiniteSet(links)
  <2>1. f \in Surjection(roots, links)
    BY DEF Surjection
  <2>2. IsFiniteSet(roots)
    BY LiveNodesAreFinite, FS_Subset
  <2> HIDE DEF f, roots, links
  <2> QED  BY <2>1, <2>2, FS_Surjection
<1>4. \A e \in links : Joins(e, created.Layouts) /\ IsOE(e.tag.OE)
  BY <1>1, EdgeFields, TagFields, OffsetsOfTags DEF Joins
<1> HIDE DEF new
<1>5. \A e : e \in links <=>
        \E n \in sys.Layouts : IsInstanceRoot(sys, n) /\ e = Edge(sys.NID, n, InstanceTag(AtOffset(0)))
  OBVIOUS
<1> HIDE DEF links
<1>6. /\ WellFormed(new) /\ new.Layouts = created.Layouts
      /\ \A e : e \in new.Succ <=> e \in created.Succ \/ e \in links
  BY <1>1, <1>2, <1>4, WithEdgesFields
<1>7. StaysMeasured(new, created) /\ SameSizes(new, created)
  <2>1. Measured(created)
    BY <1>1 DEF StaysMeasured
  <2> QED  BY <1>1, <1>2, <1>3, <1>4, <2>1, WithEdgesIsMeasured DEF StaysMeasured
<1>8. StaysMeasured(new, sys) /\ SameSizes(new, sys)
  BY <1>1, <1>7 DEF StaysMeasured, SameSizes
<1>9. /\ \A m : m \in new.Layouts <=> m \in sys.Layouts \/ m = sys.NID
      /\ \A e : e \in new.Succ <=> e \in sys.Succ \/ e \in links
  BY <1>1, <1>6
<1> QED  BY <1>5, <1>6, <1>8, <1>9 DEF new

LEMMA SimplifyStaysMeasured ==
  ASSUME IInv, Measured(ts), SimplifyNext
  PROVE  StaysMeasured(ts', ts)
<1>1. WellFormed(ts)
  BY DEF IInv, TypeInv
<1>2. CASE AddFakeRoot
  <2>1. ts' = addArtificialRoot(ts)
    BY <1>2 DEF AddFakeRoot
  <2> QED  BY <1>1, <2>1, RootedGraph
<1>3. CASE NextChild
  <2>1. PICK c \in ChildrenLeft : ts' = ts \/ ts' = mergeNode(ts, work.Node, c)
    BY <1>3 DEF NextChild, Fail, frontendVars
  <2>2. PICK e \in ts.Succ : e.src = work.Node /\ e.tgt = c
    BY DEF ChildrenLeft, ChildrenAtOffset0, SuccessorEdges
  <2>3. work.Node \in ts.Layouts /\ c \in ts.Layouts /\ work.Node # c
    BY <1>1, <2>2 DEF WellFormed, Joins
  <2> QED  BY <1>1, <2>1, <2>3, SameIsMeasured, MergeStaysMeasured
<1>4. CASE NextNode \/ ChildrenDone
  BY <1>4, SameIsMeasured DEF NextNode, ChildrenDone, Fail, frontendVars
<1>5. CASE RemoveFakeRoot
  BY <1>1, <1>5, RemoveNodeSizes DEF RemoveFakeRoot, StaysMeasured
<1> QED  BY <1>2, <1>3, <1>4, <1>5 DEF SimplifyNext

(* The bounds the sizes are computed from.                                  *)
LEMMA FieldSizes ==
  ASSUME NEW sys, WellFormed(sys), Measured(sys), NEW e \in sys.Succ
  PROVE  /\ getFieldSize(sys, e) \in Nat /\ sys.Size[e.tgt] <= getFieldSize(sys, e)
         /\ getFieldUpperMember(sys, e) \in Nat
         /\ getFieldUpperMember(sys, e) = e.tag.OE.Offset + getFieldSize(sys, e)
         /\ sys.Size[e.src] \in Nat /\ sys.Size[e.tgt] \in Nat
<1>1. /\ IsOE(e.tag.OE) /\ e.src \in Nat /\ e.tgt \in Nat
      /\ sys.Size[e.tgt] \in Nat /\ sys.Size[e.src] \in Nat
  BY DEF WellFormed, Joins, Measured
<1>2. Depth(e) \in Nat /\ Depth(e) \in 0..Depth(e) /\ sys.Size[e.tgt] <= sys.Size[e.tgt]
  BY <1>1, LayersOf
<1>3. getFieldSize(sys, e) = spans(sys.Size[e.tgt], e)[Depth(e)]
  BY DEF getFieldSize, Depth
<1>4. getFieldSize(sys, e) \in Nat /\ sys.Size[e.tgt] <= getFieldSize(sys, e)
  BY <1>1, <1>2, <1>3, SpansGrow
<1>5. e.tag.OE.Offset \in Nat
  BY <1>1 DEF IsOE
<1>6. getFieldUpperMember(sys, e) = e.tag.OE.Offset + getFieldSize(sys, e)
  BY DEF getFieldUpperMember
<1> QED  BY <1>1, <1>4, <1>5, <1>6

LEMMA UpperMembers ==
  ASSUME NEW sys, WellFormed(sys), Measured(sys), NEW E \in SUBSET sys.Succ
  PROVE  /\ upperMember(sys, E) \in Nat
         /\ \A e \in E : getFieldUpperMember(sys, e) <= upperMember(sys, E)
         /\ \A x \in Nat : (\A e \in E : getFieldUpperMember(sys, e) <= x) => upperMember(sys, E) <= x
<1> DEFINE members == {getFieldUpperMember(sys, e) : e \in E}
           f == [e \in E |-> getFieldUpperMember(sys, e)]
           S == {0} \cup members
<1>1. \A e \in E : getFieldUpperMember(sys, e) \in Nat
  BY FieldSizes
<1>2. IsFiniteSet(E)
  BY FS_Subset DEF Measured
<1>3. f \in Surjection(E, members)
  BY DEF Surjection
<1>4. S \in SUBSET Nat /\ S # {} /\ \A e \in E : getFieldUpperMember(sys, e) \in S
  BY <1>1
<1>5. \A s \in S : s = 0 \/ \E e \in E : s = getFieldUpperMember(sys, e)
  OBVIOUS
<1>6. upperMember(sys, E) = Max(S)
  BY DEF upperMember
<1> HIDE DEF f, members
<1>7. IsFiniteSet(S)
  BY <1>2, <1>3, FS_Surjection, FS_Singleton, FS_Union
<1> HIDE DEF S
<1>8. Max(S) \in S /\ \A x \in S : x <= Max(S)
  <2>1. Max(S) \in S /\ \A x \in S : Max(S) >= x
    BY <1>4, <1>7, MaxOf
  <2> QED  BY <1>4, <2>1
<1>9. Max(S) \in Nat /\ \A e \in E : getFieldUpperMember(sys, e) <= Max(S)
  BY <1>4, <1>8
<1>10. ASSUME NEW x \in Nat, \A e \in E : getFieldUpperMember(sys, e) <= x PROVE Max(S) <= x
  <2>1. Max(S) = 0 \/ \E e \in E : Max(S) = getFieldUpperMember(sys, e)
    BY <1>5, <1>8
  <2> QED  BY <1>10, <2>1
<1> QED  BY <1>6, <1>9, <1>10

LEMMA FinalSizes ==
  ASSUME WellFormed(ts), Measured(ts), NEW n \in Nat
  PROVE  /\ FinalSize(n) \in Nat /\ ts.Size[n] <= FinalSize(n)
         /\ \A e \in NonPointerEdges(ts) : e.src = n => getFieldUpperMember(ts, e) <= FinalSize(n)
         /\ (\A e \in NonPointerEdges(ts) : e.src = n => getFieldUpperMember(ts, e) <= ts.Size[n])
              => FinalSize(n) = ts.Size[n]
<1> DEFINE E == {e \in SuccessorEdges(ts, n) : IsNotPointerEdge(e)}
           u == upperMember(ts, E)
           S == {ts.Size[n], u}
<1>1. E \in SUBSET ts.Succ /\ \A e : e \in E <=> e \in NonPointerEdges(ts) /\ e.src = n
  BY DEF SuccessorEdges, NonPointerEdges
<1>2. FinalSize(n) = Max(S)
  BY DEF FinalSize
<1>3. ts.Size[n] \in Nat
  BY DEF Measured
<1> HIDE DEF E
<1>4. /\ u \in Nat /\ \A e \in E : getFieldUpperMember(ts, e) <= u
      /\ (\A e \in E : getFieldUpperMember(ts, e) <= ts.Size[n]) => u <= ts.Size[n]
  BY <1>1, <1>3, UpperMembers
<1> HIDE DEF u
<1>5. Max(S) \in S /\ \A x \in S : Max(S) >= x
  <2>1. S \in SUBSET Nat /\ S # {}
    BY <1>3, <1>4
  <2>2. IsFiniteSet(S)
    <3>1. S = {ts.Size[n]} \cup {u}
      OBVIOUS
    <3>2. IsFiniteSet({ts.Size[n]}) /\ IsFiniteSet({u})
      BY FS_Singleton
    <3> HIDE DEF S
    <3> QED  BY <3>1, <3>2, FS_Union
  <2> HIDE DEF S
  <2> QED  BY <2>1, <2>2, MaxOf
<1>6. Max(S) \in Nat /\ Max(S) >= ts.Size[n] /\ Max(S) >= u /\ Max(S) \in {ts.Size[n], u}
  BY <1>3, <1>4, <1>5
<1> HIDE DEF S
<1>7. \A e \in E : getFieldUpperMember(ts, e) \in Nat
  BY <1>1, FieldSizes
<1>8. \A e \in E : getFieldUpperMember(ts, e) <= Max(S)
  BY <1>4, <1>6, <1>7
<1>9. (\A e \in E : getFieldUpperMember(ts, e) <= ts.Size[n]) => Max(S) = ts.Size[n]
  BY <1>3, <1>4, <1>6
<1> QED  BY <1>1, <1>2, <1>3, <1>6, <1>8, <1>9

LEMMA SizesStayMeasured ==
  ASSUME Node = Nat, IInv, Measured(ts), SizesNext
  PROVE  Measured(ts')
<1>1. WellFormed(ts)
  BY DEF IInv, TypeInv
<1>2. CASE \/ StartPrune \/ PruneVisit \/ PruneDone \/ StartUpper \/ UpperDone
           \/ StartStrides \/ StridesDone \/ DecomposeDone
  BY <1>2 DEF StartPrune, PruneVisit, PruneDone, StartUpper, UpperDone, StartStrides, StridesDone,
              DecomposeDone, Fail, frontendVars
<1>3. CASE RemoveInvalidPointers
  BY <1>1, <1>3, WithoutEdgesIsMeasured DEF RemoveInvalidPointers
<1>4. CASE Prune
  <2>1. PICK n \in work.ToRemove : ts' = removeNode(ts, n)
    BY <1>4 DEF Prune
  <2> QED  BY <1>1, <2>1, RemoveNodeSizes
<1>5. CASE UpperVisit
  <2> DEFINE n == nextInPostOrder(work.todo, NonPointerEdges(ts))
  <2>1. ts' = ts \/ ts' = [ts EXCEPT !.Size[n] = FinalSize(n)]
    BY <1>5 DEF UpperVisit, Fail, frontendVars
  <2> HIDE DEF n
  <2>2. CASE n \in Nat
    <3>1. FinalSize(n) \in Nat /\ HasFields(ts)
      BY <1>1, <2>2, FinalSizes DEF WellFormed
    <3> QED  BY <2>1, <3>1, SetSizeIsMeasured
  <2>3. CASE n \notin Nat
    <3>1. \A x : Measured([ts EXCEPT !.Size[n] = x])
      <4> SUFFICES ASSUME NEW x PROVE Measured([ts EXCEPT !.Size[n] = x])
        OBVIOUS
      <4> DEFINE new == [ts EXCEPT !.Size[n] = x]
      <4>1. /\ new.Size = [ts.Size EXCEPT ![n] = x] /\ new.NonScalar = ts.NonScalar
            /\ new.Succ = ts.Succ
        BY <1>1 DEF WellFormed, HasFields
      <4>2. [ts.Size EXCEPT ![n] = x] \in [Nat -> Nat]
        BY <2>3 DEF Measured
      <4> HIDE DEF new
      <4>3. Measured(new)
        BY <4>1, <4>2 DEF Measured
      <4> QED  BY <4>3 DEF new
    <3> QED  BY <2>1, <3>1
  <2> QED  BY <2>2, <2>3
<1>6. CASE StridesVisit
  <2> DEFINE n == nextInPostOrder(work.todo, InstancesOf(ts))
             removed == invalidStrides(n)
             cut == withoutEdges(ts, removed)
  <2>1. ts' = [cut EXCEPT !.Size[n] = SizeWithout(n, removed)]
    BY <1>6 DEF StridesVisit
  <2>2. WellFormed(cut) /\ HasFields(cut) /\ Measured(cut) /\ SameSizes(cut, ts)
    BY <1>1, WithoutEdgesFields, WithoutEdgesIsMeasured DEF WellFormed
  <2> HIDE DEF cut, removed, n
  <2>3. n \in Nat => SizeWithout(n, removed) \in Nat
    <3>1. {e \in SuccessorEdges(ts, n) \ removed : IsNotPointerEdge(e)} \in SUBSET ts.Succ
      BY DEF SuccessorEdges
    <3> QED  BY <1>1, <3>1, UpperMembers DEF SizeWithout, Measured
  <2>4. CASE n \in Nat
    BY <2>1, <2>2, <2>3, <2>4, SetSizeIsMeasured
  <2>5. CASE n \notin Nat
    <3>1. /\ ts'.Size = [cut.Size EXCEPT ![n] = SizeWithout(n, removed)]
          /\ ts'.NonScalar = cut.NonScalar /\ ts'.Succ = cut.Succ
      BY <2>1, <2>2 DEF HasFields
    <3>2. ts'.Size \in [Nat -> Nat]
      BY <2>2, <2>5, <3>1 DEF Measured
    <3> QED  BY <2>2, <3>1, <3>2 DEF Measured
  <2> QED  BY <2>4, <2>5
<1>7. CASE Decompose
  <2>1. label \notin CollapseLabels
    BY <1>7 DEF Decompose, At, CollapseLabels
  <2>2. PICK e \in manyStrides(ts) : ts' = decomposed(ts, e)
    BY <1>7 DEF Decompose
  <2> QED  BY <1>1, <2>1, <2>2, SoundOutsideCollapse, DecomposedSizes
<1> QED  BY <1>2, <1>3, <1>4, <1>5, <1>6, <1>7 DEF SizesNext

LEMMA FrontendStaysMeasured ==
  ASSUME IInv, Measured(ts), Frontend
  PROVE  /\ Measured(ts')
         /\ NonScalarsAreSized(ts) /\ (program[next].op = "Arg" => program[next].Size > 0)
              => NonScalarsAreSized(ts')
<1> DEFINE b == [sys |-> ts, map |-> VisitedValues]
           i == program[next]
<1>1. step = 0 /\ next \in 1..Len(program) /\ ts' = processed(b, i).sys
  BY DEF Frontend, ProcessInstruction, IInv, TypeInv
<1>2. i \in Instruction /\ IsBuilder(b) /\ b.sys = ts
  BY <1>1 DEF IInv, TypeInv
<1> HIDE DEF b, i
<1>3. /\ Measured(processed(b, i).sys)
      /\ NonScalarsAreSized(ts) /\ (i.op = "Arg" => i.Size > 0) => NonScalarsAreSized(processed(b, i).sys)
  BY <1>2, ProcessedIsMeasured
<1> QED  BY <1>1, <1>3 DEF i

LEMMA MeasuredNext ==
  ASSUME Node = Nat, IInv, Measured(ts), [Next]_vars
  PROVE  Measured(ts')
<1>1. CASE FrontendDone \/ Finished \/ UNCHANGED vars
  BY <1>1 DEF FrontendDone, Finished, vars, frontendVars
<1> QED  BY <1>1, FrontendStaysMeasured, CollapseStaysMeasured, SimplifyStaysMeasured,
            SizesStayMeasured DEF Next, StaysMeasured

LEMMA MeasuredInit ==
  ASSUME Node = Nat, Init
  PROVE  Measured(ts) /\ NonScalarsAreSized(ts)
<1>1. ts = EmptySystem
  BY DEF Init, DLAInit, frontendInit
<1>2. /\ ts.Size = [n \in Nat |-> 0] /\ ts.NonScalar = [n \in Nat |-> FALSE] /\ ts.Succ = {}
  BY <1>1 DEF EmptySystem
<1> QED  BY <1>2, FS_EmptySet DEF Measured, NonScalarsAreSized

LEMMA AlwaysMeasured == Node = Nat /\ Spec => [](IInv /\ VisitInv /\ Measured(ts))
<1> DEFINE Inv == Node = Nat /\ IInv /\ VisitInv /\ Measured(ts)
<1>1. Node = Nat /\ Init => Inv
  BY InvInit, VisitInvInit, MeasuredInit
<1>2. Inv /\ [Next]_vars => Inv'
  BY InvNext, MeasuredNext
<1>3. Inv => IInv /\ VisitInv /\ Measured(ts)
  OBVIOUS
<1> HIDE DEF Inv
<1> QED  BY <1>1, <1>2, <1>3, PTL DEF Spec

(* While DecomposeStridedEdges runs nothing else acts on the graph.         *)
LEMMA OnlyDecompose ==
  ASSUME IInv, [Next]_vars, At({"DecomposeStridedEdges"}, "start")
  PROVE  Decompose \/ DecomposeDone \/ UNCHANGED vars
<1>1. step \in DOMAIN Schedule /\ Schedule[step] = "DecomposeStridedEdges" /\ step # 0
      /\ ~(step > Len(Schedule))
  <2>1. step \in DOMAIN Schedule /\ Schedule[step] = "DecomposeStridedEdges"
    BY DEF At
  <2>2. DOMAIN Schedule = 1..Len(Schedule) /\ Len(Schedule) \in Nat
    BY ProgramsAssumption
  <2> QED  BY <2>1, <2>2
<1>2. ~Frontend /\ ~FrontendDone
  BY <1>1 DEF Frontend, FrontendDone
<1>3. ~CollapseNext
  BY <1>1 DEF CollapseNext, FindSCCs, CollapseOneSCC, MergeSameSize, MergeLastLeader,
              NothingToMerge, ChainLeader, CollapseDone, NextRoot, PushChild, CloseLoop,
              AlreadyVisited, Pop, RemoveBackedges, BackedgesDone, At, CollapseSteps
<1>4. ~SimplifyNext
  BY <1>1 DEF SimplifyNext, AddFakeRoot, NextNode, NextChild, ChildrenDone, RemoveFakeRoot, At,
              Simplify
<1>5. SizesNext => Decompose \/ DecomposeDone
  BY <1>1 DEF SizesNext, RemoveInvalidPointers, StartPrune, PruneVisit, Prune, PruneDone,
              StartUpper, UpperVisit, UpperDone, StartStrides, StridesVisit, StridesDone, At
<1>6. Finished => UNCHANGED vars
  BY DEF Finished
<1> QED  BY <1>2, <1>3, <1>4, <1>5, <1>6 DEF Next

(* Each field of the parent is still there, at its offset and over as many  *)
(* bytes, once an edge has been decomposed.                                 *)
LEMMA DecomposedKeepsSpans ==
  ASSUME NEW sys, WellFormed(sys), LinksBothWays(sys.Succ), Measured(sys), Node = Nat,
         NEW e \in manyStrides(sys), NEW f \in InstancesOf(sys)
  PROVE  \E g \in InstancesOf(decomposed(sys, e)) : SpanOf(decomposed(sys, e), g) = SpanOf(sys, f)
<1> DEFINE new == decomposed(sys, e)
<1>1. f \in sys.Succ /\ IsInstanceEdge(f)
  BY DEF InstancesOf
<1>2. e \in sys.Succ /\ Depth(e) \in Nat /\ Depth(e) >= 2
  BY LayersOf DEF manyStrides, Measured, Depth
<1>3. CASE f # e
  <2>1. f \in new.Succ
    BY <1>1, <1>3, DecomposedSizes
  <2>2. getFieldSize(new, f) = getFieldSize(sys, f)
    BY <1>1, DecomposedFields
  <2> HIDE DEF new
  <2>3. f \in InstancesOf(new) /\ SpanOf(new, f) = SpanOf(sys, f)
    BY <1>1, <2>1, <2>2 DEF InstancesOf, SpanOf
  <2> QED  BY <2>3 DEF new
<1>4. CASE f = e
  <2> DEFINE g == chainEdge(sys, e, Depth(e))
  <2>1. Depth(e) \in 1..Depth(e)
    BY <1>2
  <2>2. g \in new.Succ
    BY <2>1, DecomposedSizes
  <2>3. getFieldSize(new, g) = getFieldSize(sys, e)
    BY <2>1, DecomposedFields
  <2>4. g.src = NodeChain(sys, e, Depth(e)) /\ IsInstanceEdge(g) /\ g.tag.OE.Offset = e.tag.OE.Offset
    BY <2>1, ChainEdgeFields
  <2>5. NodeChain(sys, e, Depth(e)) = e.src
    BY <1>2 DEF NodeChain, Depth
  <2> HIDE DEF new, g
  <2>6. g \in InstancesOf(new) /\ SpanOf(new, g) = SpanOf(sys, e)
    BY <2>2, <2>3, <2>4, <2>5 DEF InstancesOf, SpanOf
  <2> QED  BY <1>4, <2>6 DEF new
<1> QED  BY <1>3, <1>4

(* DecomposeStridedEdges moves no byte of any node, whatever the schedule   *)
(* it is a step of: the chain an edge with several strides is made into     *)
(* starts where the edge did and spans as much, and no other edge changes.  *)
THEOREM DecompositionMovesNoByte == Node = Nat /\ Spec => DecomposeKeepsSpans
<1> DEFINE Inv == Node = Nat /\ IInv /\ VisitInv /\ Measured(ts)
           Keeps == At({"DecomposeStridedEdges"}, "start") /\ label' = label /\ step' = step =>
                      {SpanOf(ts, e) : e \in InstancesOf(ts)}
                        \subseteq {SpanOf(ts', e) : e \in InstancesOf(ts')}
<1>1. Node = Nat /\ Init => Inv
  BY InvInit, VisitInvInit, MeasuredInit
<1>2. Inv /\ [Next]_vars => Inv'
  BY InvNext, MeasuredNext
<1>3. Inv /\ [Next]_vars => [Keeps]_vars
  <2> SUFFICES ASSUME Inv, [Next]_vars, At({"DecomposeStridedEdges"}, "start"), step' = step,
                      NEW f \in InstancesOf(ts)
               PROVE  \E g \in InstancesOf(ts') : SpanOf(ts', g) = SpanOf(ts, f)
    OBVIOUS
  <2>1. CASE Decompose
    <3>1. PICK e \in manyStrides(ts) : ts' = decomposed(ts, e)
      BY <2>1 DEF Decompose
    <3>2. WellFormed(ts) /\ LinksBothWays(ts.Succ)
      BY SoundOutsideCollapse DEF At, CollapseLabels
    <3> QED  BY <3>1, <3>2, DecomposedKeepsSpans
  <2>2. CASE DecomposeDone
    <3>1. step' = step + 1 /\ step \in Nat
      BY <2>2, StepsAreIndices DEF DecomposeDone, EndStep, IInv, TypeInv
    <3> QED  BY <3>1
  <2>3. CASE UNCHANGED vars
    <3>1. ts' = ts
      BY <2>3 DEF vars, frontendVars
    <3> QED  BY <3>1
  <2> QED  BY <2>1, <2>2, <2>3, OnlyDecompose
<1>4. [][Keeps]_vars => DecomposeKeepsSpans
  BY DEF DecomposeKeepsSpans
<1> HIDE DEF Inv, Keeps
<1> QED  BY <1>1, <1>2, <1>3, <1>4, PTL DEF Spec

------------------------------------------------------------------------------
(****************************************************************************)
(* The sizes through the normalization, whose schedule is                   *)
(* NormalizationSteps.  SizesState says what holds of the graph sys at      *)
(* label l of step s, where w are the variables of the loop: until the      *)
(* pruning, a scalar has a size, and so the merges are accepted; once the   *)
(* loops are cut, and up to the decomposition, the edges that are not       *)
(* pointers have no loop, and so each visit gets to a node after its        *)
(* children; the post-order SimplifyInstanceAtOffset0 has computed stays    *)
(* one, and names no node it has merged; the first pruning gives every leaf *)
(* a size, the sizes then make every field fit, the removal of strides      *)
(* leaves valid ones, and the steps after it undo neither.                  *)
(****************************************************************************)
Fits(sys) == \A e \in InstancesOf(sys) : getFieldUpperMember(sys, e) <= sys.Size[e.src]
AllValid(sys) == \A e \in InstancesOf(sys) : hasValidStrides(sys, e)

(* The nodes CollapseOneSCC found to have the same size.                    *)
OneSize(sys, w) == \A n \in w.ToMerge : sys.Size[n] = sys.Size[w.First]

NoEqualities(sys) == \A e \in sys.Succ : ~IsEqualityEdge(e)

(* done: the nodes whose turn has come.                                     *)
OrderState(sys, l, w) ==
  /\ l \in {"nodes", "children"} => \E done :
       /\ w.PostOrder \in Seq(sys.Layouts)
       /\ ChildrenFirst(InstancesOf(sys), done, w.PostOrder)
       /\ l = "children" => w.Node \in done
  /\ l = "children" => w = [FakeRoot |-> w.FakeRoot, PostOrder |-> w.PostOrder,
                            Node |-> w.Node, After |-> w.After]

PruneState(sys, w) ==
  /\ w = [todo |-> w.todo, ToRemove |-> w.ToRemove]
  /\ w.todo \subseteq sys.Layouts
  /\ \A e \in NonPointerEdges(sys) : e.src \notin w.todo => e.tgt \notin w.todo
  /\ \A n \in sys.Layouts : n \notin w.todo =>
       \/ n \in w.ToRemove
       \/ sys.Size[n] # 0
       \/ \E e \in NonPointerEdges(sys) : e.src = n /\ e.tgt \notin w.ToRemove

UpperState(sys, w) ==
  /\ w.todo \subseteq sys.Layouts
  /\ \A n \in sys.Layouts : n \notin w.todo => sys.Size[n] # 0
  /\ \A e \in NonPointerEdges(sys) : e.src \notin w.todo =>
       e.tgt \notin w.todo /\ getFieldUpperMember(sys, e) <= sys.Size[e.src]

StridesState(sys, w) ==
  /\ w.todo \subseteq sys.Layouts
  /\ \A e \in InstancesOf(sys) : e.src \notin w.todo =>
       e.tgt \notin w.todo /\ hasValidStrides(sys, e)

SizesState(sys, s, l, w) ==
  /\ s \in 0..4 => NonScalarsAreSized(sys)
  /\ l = "merge" => OneSize(sys, w)
  /\ s = 3 => NoEqualities(sys)
  /\ s \in 4..9 => Grounded(NonPointerEdges(sys))
  /\ s = 4 => OrderState(sys, l, w)
  /\ s \in 7..11 => Fits(sys)
  /\ s \in 8..11 => AllValid(sys)
  /\ s \in {6, 9} => verifyLeafs(sys)
  /\ s \in {5, 8} /\ l = "visit" => PruneState(sys, w)
  /\ s \in {6, 9} /\ l = "visit" => UpperState(sys, w)
  /\ s = 7 /\ l = "visit" => StridesState(sys, w)

ArgumentsAreSized(p) == \A i \in DOMAIN p : p[i].op = "Arg" => p[i].Size > 0

SizesInv ==
  /\ Measured(ts)
  /\ step \in 0..11
  /\ step = 0 => ArgumentsAreSized(program)
  /\ SizesState(ts, step, label, work)
  /\ failed \in {""} \cup VisitFailures

Normalizing == Node = Nat /\ Schedule = NormalizationSteps
ProgramsAreSized == \A p \in Programs : ArgumentsAreSized(p)

LEMMA StepNumbers ==
  ASSUME Normalizing
  PROVE  /\ DOMAIN Schedule = 1..10 /\ Len(Schedule) = 10
         /\ Schedule[1] = "RemoveInvalidPointers"
         /\ Schedule[2] = "CollapseEqualitySCC"
         /\ Schedule[3] = "CollapseInstanceAtOffset0SCC"
         /\ Schedule[4] = "SimplifyInstanceAtOffset0"
         /\ Schedule[5] = "PruneLayoutNodesWithoutLayout"
         /\ Schedule[6] = "ComputeUpperMemberAccesses"
         /\ Schedule[7] = "RemoveInvalidStrideEdges"
         /\ Schedule[8] = "PruneLayoutNodesWithoutLayout"
         /\ Schedule[9] = "ComputeUpperMemberAccesses"
         /\ Schedule[10] = "DecomposeStridedEdges"
BY DEF Normalizing, NormalizationSteps

(* The steps by name.                                                       *)
LEMMA StepAt ==
  ASSUME Normalizing, step \in DOMAIN Schedule
  PROVE  /\ step \in 1..10
         /\ Schedule[step] = "RemoveInvalidPointers" => step = 1
         /\ Schedule[step] \in CollapseSteps => step \in {2, 3}
         /\ Schedule[step] \in Simplify => step = 4
         /\ Schedule[step] = "PruneLayoutNodesWithoutLayout" => step \in {5, 8}
         /\ Schedule[step] = "ComputeUpperMemberAccesses" => step \in {6, 9}
         /\ Schedule[step] = "RemoveInvalidStrideEdges" => step = 7
         /\ Schedule[step] = "DecomposeStridedEdges" => step = 10
<1>1. step \in 1..10
  BY StepNumbers
<1>2. step \in {1, 2, 3, 4, 5, 6, 7, 8, 9, 10}
  BY <1>1
<1> QED  BY <1>1, <1>2, StepNumbers DEF CollapseSteps, Simplify

(* Edges that are not pointers, where they have no loop, are instances.     *)
LEMMA GroundedEdgesAreInstances ==
  ASSUME NEW sys, WellFormed(sys), LinksBothWays(sys.Succ), Grounded(NonPointerEdges(sys))
  PROVE  /\ NonPointerEdges(sys) = InstancesOf(sys)
         /\ \A e \in sys.Succ : IsNotPointerEdge(e) => IsInstanceEdge(e)
<1>1. ASSUME NEW e \in sys.Succ, IsEqualityEdge(e) PROVE FALSE
  <2>1. PICK f \in sys.Succ : IsEqualityEdge(f) /\ f.src = e.tgt /\ f.tgt = e.src
    BY <1>1 DEF LinksBothWays
  <2>2. {e, f} \in SUBSET NonPointerEdges(sys)
    BY <1>1, <2>1 DEF NonPointerEdges, IsNotPointerEdge, IsEqualityEdge, IsPointerEdge
  <2>3. Followed({e, f})
    BY <2>1 DEF Followed
  <2> QED  BY <2>2, <2>3 DEF Grounded
<1>2. \A e \in sys.Succ : e.tag.Kind \in {"Equality", "Instance", "Pointer"}
  BY DEF WellFormed, Joins, IsTag, LinkKinds
<1> QED  BY <1>1, <1>2 DEF NonPointerEdges, InstancesOf, IsNotPointerEdge, IsEqualityEdge,
            IsPointerEdge, IsInstanceEdge

(* Merging a node of the same size, or one of size 0, is always allowed.    *)
LEMMA MergeIsAllowed ==
  ASSUME NEW sys, Measured(sys), NonScalarsAreSized(sys), NEW into \in Nat, NEW from \in Nat,
         into # from, sys.Size[from] \in {0, sys.Size[into]}
  PROVE  sizesAllowMerge(sys, into, from)
<1>1. sys.Size[into] \in Nat /\ sys.Size[from] \in Nat
  BY DEF Measured
<1>2. sys.NonScalar[from] => sys.Size[from] # 0
  BY DEF NonScalarsAreSized
<1>3. CASE sys.Size[from] = sys.Size[into]
  BY <1>1, <1>3 DEF sizesAllowMerge
<1>4. CASE sys.Size[from] = 0 /\ ~sys.NonScalar[from]
  BY <1>1, <1>4 DEF sizesAllowMerge
<1> QED  BY <1>2, <1>3, <1>4

(* The steps before the pruning.                                            *)
LEMMA EarlyStep ==
  ASSUME SizesInv, step \in 0..4, step' \in 0..4, StaysMeasured(ts', ts),
         label' = "merge" => OneSize(ts', work'),
         step' = 0 => ArgumentsAreSized(program'),
         step' = 3 => NoEqualities(ts'),
         step' = 4 => Grounded(NonPointerEdges(ts')) /\ OrderState(ts', label', work'),
         failed' = failed \/ failed' \in VisitFailures
  PROVE  SizesInv'
<1>1. NonScalarsAreSized(ts') /\ Measured(ts')
  BY DEF SizesInv, SizesState, StaysMeasured
<1>2. /\ step' \in 4..9 => step' = 4
      /\ step' \notin 7..11 /\ step' \notin 8..11
      /\ step' \notin {6, 9} /\ step' \notin {5, 8} /\ step' # 7 /\ step' \in 0..11
  OBVIOUS
<1>3. SizesState(ts', step', label', work')
  BY <1>1, <1>2 DEF SizesState
<1>4. failed' \in {""} \cup VisitFailures
  BY DEF SizesInv
<1> QED  BY <1>1, <1>2, <1>3, <1>4, Zenon DEF SizesInv

LEMMA FrontendKeepsSizes ==
  ASSUME Normalizing, IInv, SizesInv, Frontend \/ FrontendDone
  PROVE  SizesInv'
<1>1. step = 0 /\ label' = label /\ label = "start" /\ program' = program /\ failed' = failed
  BY DEF Frontend, FrontendDone, ProcessInstruction, loopVars, frontendVars, IInv, TypeInv
<1>2. Measured(ts) /\ NonScalarsAreSized(ts) /\ ArgumentsAreSized(program)
  <2>1. step \in 0..4
    BY <1>1
  <2> QED  BY <1>1, <2>1, Zenon DEF SizesInv, SizesState
<1>3. CASE Frontend
  <2>1. next \in DOMAIN program /\ step' = 0 /\ step' # 3 /\ step' # 4
    BY <1>1, <1>3 DEF Frontend, ProcessInstruction, loopVars, IInv, TypeInv
  <2>2. Measured(ts') /\ NonScalarsAreSized(ts')
    BY <1>2, <1>3, <2>1, FrontendStaysMeasured DEF ArgumentsAreSized
  <2> QED  BY <1>1, <1>2, <2>1, <2>2, EarlyStep DEF StaysMeasured
<1>4. CASE FrontendDone
  <2>1. ts' = ts /\ step' = 1 /\ step' # 3 /\ step' # 4
    BY <1>4 DEF FrontendDone, frontendVars
  <2> QED  BY <1>1, <1>2, <2>1, SameIsMeasured, EarlyStep
<1> QED  BY <1>3, <1>4

LEMMA EarlyFacts ==
  ASSUME SizesInv, step \in 0..4
  PROVE  Measured(ts) /\ NonScalarsAreSized(ts)
BY Zenon DEF SizesInv, SizesState

(* CollapseInstanceAtOffset0SCC brings no equality edge back, and so when   *)
(* the instances have no loop the edges that are not pointers have none.    *)
LEMMA EqualitiesAreNotAdded ==
  ASSUME IInv, CollapseNext, NoEqualities(ts)
  PROVE  NoEqualities(ts')
<1>1. WellFormed(ts)
  BY DEF IInv, TypeInv
<1>2. CASE \/ FindSCCs \/ CollapseOneSCC \/ NothingToMerge \/ CollapseDone
           \/ NextRoot \/ PushChild \/ CloseLoop \/ AlreadyVisited \/ Pop \/ BackedgesDone
  <2>1. ts' = ts
    BY <1>2 DEF FindSCCs, CollapseOneSCC, NothingToMerge, CollapseDone, NextRoot, PushChild,
                CloseLoop, AlreadyVisited, Pop, BackedgesDone, Fail, frontendVars
  <2> QED  BY <2>1
<1>3. CASE MergeSameSize \/ MergeLastLeader
  <2>1. label = "merge"
    BY <1>3 DEF MergeSameSize, MergeLastLeader, At
  <2>2. ts' = ts \/ \E n \in work.ToMerge \cup work.Smaller : ts' = mergeNode(ts, work.First, n)
    BY <1>3 DEF MergeSameSize, MergeLastLeader, Fail, frontendVars
  <2>3. work.First \in ts.Layouts
        /\ \A n \in work.ToMerge \cup work.Smaller : n \in ts.Layouts /\ n # work.First
    BY <2>1, CollapsedNodes DEF NodesToMerge
  <2>4. \A n \in work.ToMerge \cup work.Smaller : NoEqualities(mergeNode(ts, work.First, n))
    <3> SUFFICES ASSUME NEW n \in work.ToMerge \cup work.Smaller
                 PROVE  NoEqualities(mergeNode(ts, work.First, n))
      OBVIOUS
    <3>1. mergeNode(ts, work.First, n).Succ = quotient(ts.Succ, work.First, n)
      BY <1>1, <2>3, MergeNodeFields
    <3> QED  BY <3>1, QuotientEdges DEF NoEqualities, IsEqualityEdge
  <2> QED  BY <2>2, <2>4
<1>4. CASE ChainLeader
  <2>1. ChainedGraph(ts')
    BY <1>4, ChainLeaderEffect
  <2>2. \A e \in ts'.Succ :
          e \in ts.Succ \/ \E n \in work.Left : e = Edge(work.Leader, n, InstanceTag(AtOffset(0)))
    BY <2>1 DEF ChainedGraph
  <2> QED  BY <2>2, TagsTellKinds DEF NoEqualities
<1>5. CASE RemoveBackedges
  <2>1. ts' = ts \/ ts' = withoutEdges(ts, work.ToRemove)
    BY <1>5 DEF RemoveBackedges, Fail, frontendVars
  <2> QED  BY <1>1, <2>1, WithoutEdgesFields DEF NoEqualities
<1> QED  BY <1>2, <1>3, <1>4, <1>5 DEF CollapseNext

LEMMA NoEqualitiesAreKept ==
  ASSUME Normalizing, IInv, SizesInv, CollapseNext, IInv', step \in {2, 3},
         step = 3 \/ EndStep
  PROVE  NoEqualities(ts')
<1>1. CASE step = 3
  <2>1. NoEqualities(ts)
    BY <1>1, Zenon DEF SizesInv, SizesState
  <2> QED  BY <2>1, EqualitiesAreNotAdded
<1>2. CASE step = 2
  <2>1. EndStep
    BY <1>2
  <2>2. JustDone' = "CollapseEqualitySCC"
    BY <1>2, <2>1, StepNumbers DEF JustDone, EndStep
  <2> QED  BY <2>2 DEF IInv, NoEqualityIsLeft, NoEqualities
<1> QED  BY <1>1, <1>2

LEMMA GroundedAtFirst ==
  ASSUME NEW sys, WellFormed(sys), Measured(sys), NoEqualities(sys),
         isAcyclic(InstancesOf(sys))
  PROVE  Grounded(NonPointerEdges(sys))
<1>1. \A e \in sys.Succ : e.tag.Kind \in {"Equality", "Instance", "Pointer"}
  BY DEF WellFormed, Joins, IsTag, LinkKinds
<1>2. NonPointerEdges(sys) = InstancesOf(sys)
  BY <1>1 DEF NonPointerEdges, InstancesOf, NoEqualities, IsNotPointerEdge, IsEqualityEdge,
              IsPointerEdge, IsInstanceEdge
<1>3. InstancesOf(sys) \subseteq sys.Succ
  BY DEF InstancesOf
<1>4. IsFiniteSet(InstancesOf(sys))
  BY <1>3, FS_Subset DEF Measured
<1> QED  BY <1>2, <1>4, AcyclicIsGrounded

LEMMA CollapseKeepsSizes ==
  ASSUME Normalizing, IInv, SizesInv, CollapseNext, IInv', LoopsAreGone'
  PROVE  SizesInv'
<1>1. step \in {2, 3}
  <2>1. step \in DOMAIN Schedule /\ Schedule[step] \in CollapseSteps
    BY DEF CollapseNext, FindSCCs, CollapseOneSCC, MergeSameSize, MergeLastLeader,
           NothingToMerge, ChainLeader, CollapseDone, NextRoot, PushChild, CloseLoop,
           AlreadyVisited, Pop, RemoveBackedges, BackedgesDone, At
  <2> QED  BY <2>1, StepAt
<1>2. step \in 0..4 /\ step + 1 \in 0..4 /\ step # 0 /\ step + 1 # 0
  BY <1>1
<1>3. Measured(ts) /\ NonScalarsAreSized(ts) /\ WellFormed(ts)
  BY <1>2, EarlyFacts DEF IInv, TypeInv
<1>4. StaysMeasured(ts', ts)
  BY <1>3, CollapseStaysMeasured
<1>5. ASSUME step' = step \/ EndStep, label' = "merge" => OneSize(ts', work'),
             failed' = failed \/ failed' \in VisitFailures
      PROVE  SizesInv'
  <2>1. step' \in 0..4 /\ step' # 0 /\ step \in 0..4
    BY <1>2, <1>5 DEF EndStep
  <2>2. step' = 3 => NoEqualities(ts')
    BY <1>1, <1>5, NoEqualitiesAreKept
  <2>3. step' = 4 => Grounded(NonPointerEdges(ts')) /\ OrderState(ts', label', work')
    <3> SUFFICES ASSUME step' = 4
                 PROVE  Grounded(NonPointerEdges(ts')) /\ OrderState(ts', label', work')
      OBVIOUS
    <3>1. step = 3 /\ EndStep
      BY <1>1, <1>5 DEF EndStep
    <3>2. NoEqualities(ts')
      BY <3>1, NoEqualitiesAreKept
    <3>3. JustDone' = "CollapseInstanceAtOffset0SCC"
      BY <3>1, StepNumbers DEF JustDone, EndStep
    <3>4. Measured(ts') /\ WellFormed(ts')
      BY <1>4 DEF StaysMeasured, IInv, TypeInv
    <3>5. isAcyclic(InstancesOf(ts'))
      BY <3>3 DEF LoopsAreGone, verifyInstanceDAG, InstancesOf
    <3>6. Grounded(NonPointerEdges(ts'))
      BY <3>2, <3>4, <3>5, GroundedAtFirst
    <3>7. OrderState(ts', label', work')
      BY <3>1 DEF OrderState, EndStep
    <3> QED  BY <3>6, <3>7
  <2> QED  BY <1>4, <1>5, <2>1, <2>2, <2>3, EarlyStep
<1>6. CASE \/ FindSCCs \/ NothingToMerge \/ ChainLeader \/ CollapseDone
           \/ NextRoot \/ PushChild \/ CloseLoop \/ AlreadyVisited \/ BackedgesDone
  <2>1. label' # "merge" /\ failed' = failed /\ (step' = step \/ EndStep)
    BY <1>6 DEF FindSCCs, NothingToMerge, LeadersLeft, ChainLeader, CollapseDone, NextRoot,
                PushChild, CloseLoop, AlreadyVisited, BackedgesDone, Goto, EndStep
  <2> QED  BY <1>5, <2>1
<1>7. CASE Pop \/ RemoveBackedges
  <2>1. label' # "merge" /\ step' = step /\ (failed' = failed \/ failed' \in VisitFailures)
    BY <1>7 DEF Pop, RemoveBackedges, Goto, Fail, At, VisitFailures
  <2> QED  BY <1>5, <2>1
<1>8. CASE CollapseOneSCC
  <2>10. PICK C \in work.ToCollapse : \E first \in largest(C) :
           Goto("merge", [ToCollapse |-> work.ToCollapse \ {C}, First |-> first,
                          ToMerge |-> largest(C) \ {first}, Smaller |-> C \ largest(C)])
    BY <1>8 DEF CollapseOneSCC
  <2>1. PICK first \in largest(C) :
          Goto("merge", [ToCollapse |-> work.ToCollapse \ {C}, First |-> first,
                         ToMerge |-> largest(C) \ {first}, Smaller |-> C \ largest(C)])
    BY <2>10
  <2>2. ts' = ts /\ label = "collapse"
    BY <1>8 DEF CollapseOneSCC, frontendVars, At
  <2>3. \A n \in C : n \in ts.Layouts
    BY <2>2 DEF IInv, CollapseState, Apart
  <2>4. \A n \in largest(C) : ts.Size[n] = ts.Size[first]
    <3>1. \A n \in C : ts.Size[n] \in Nat
      BY <1>3, <2>3 DEF WellFormed, Measured
    <3> QED  BY <3>1 DEF largest
  <2>5. work'.First = first /\ work'.ToMerge = largest(C) \ {first}
    BY <2>1 DEF Goto
  <2>6. OneSize(ts', work')
    BY <2>2, <2>4, <2>5 DEF OneSize
  <2>7. step' = step /\ failed' = failed
    BY <2>1 DEF Goto
  <2> QED  BY <1>5, <2>6, <2>7
<1>9. CASE MergeSameSize
  <2>1. label = "merge"
    BY <1>9 DEF MergeSameSize, At
  <2>2. OneSize(ts, work)
    BY <2>1, Zenon DEF SizesInv, SizesState
  <2>3. PICK n \in work.ToMerge :
          IF sizesAllowMerge(ts, work.First, n)
          THEN /\ ts' = mergeNode(ts, work.First, n)
               /\ Goto("merge", [work EXCEPT !.ToMerge = @ \ {n}])
          ELSE Fail("mergeNodes")
    BY <1>9 DEF MergeSameSize
  <2>4. /\ work.First \in ts.Layouts /\ n \in ts.Layouts /\ n # work.First
        /\ \A m \in work.ToMerge : m \in ts.Layouts /\ m # work.First
    BY <2>1, CollapsedNodes DEF NodesToMerge
  <2>5. n \in Nat /\ work.First \in Nat /\ ts.Size[n] = ts.Size[work.First]
        /\ ts.Size[work.First] \in Nat /\ \A m \in work.ToMerge : m \in Nat
    BY <1>3, <2>2, <2>4 DEF WellFormed, OneSize, Measured
  <2>6. sizesAllowMerge(ts, work.First, n)
    BY <1>3, <2>4, <2>5, MergeIsAllowed
  <2>7. ts' = mergeNode(ts, work.First, n) /\ Goto("merge", [work EXCEPT !.ToMerge = @ \ {n}])
    BY <2>3, <2>6
  <2>8. /\ ts'.Size[work.First] = ts.Size[work.First]
        /\ \A m \in Nat : m # work.First /\ m # n => ts'.Size[m] = ts.Size[m]
    <3>1. mergedSize(ts, work.First, n) = ts.Size[work.First]
      BY <2>5 DEF mergedSize
    <3> QED  BY <1>3, <2>4, <2>7, <3>1, MergeNodeSizes
  <2>9. work'.First = work.First /\ work'.ToMerge = work.ToMerge \ {n}
    BY <2>1, <2>7 DEF Goto, IInv, CollapseState
  <2>10. OneSize(ts', work')
    BY <2>2, <2>4, <2>5, <2>8, <2>9 DEF OneSize
  <2>11. step' = step /\ failed' = failed
    BY <2>7 DEF Goto
  <2> QED  BY <1>5, <2>10, <2>11
<1>10. CASE MergeLastLeader
  <2>1. label = "merge"
    BY <1>10 DEF MergeLastLeader, At
  <2>2. PICK n \in work.Smaller :
          /\ ts.Size[n] = 0
          /\ IF sizesAllowMerge(ts, work.First, n) THEN LeadersLeft(work.Smaller \ {n})
             ELSE Fail("mergeNodes")
    BY <1>10 DEF MergeLastLeader
  <2>3. work.First \in Nat /\ n \in Nat /\ n # work.First
    BY <1>3, <2>1, CollapsedNodes DEF NodesToMerge, WellFormed
  <2>4. sizesAllowMerge(ts, work.First, n)
    BY <1>3, <2>2, <2>3, MergeIsAllowed
  <2>5. LeadersLeft(work.Smaller \ {n})
    BY <2>2, <2>4
  <2>6. label' # "merge" /\ step' = step /\ failed' = failed
    BY <2>5 DEF LeadersLeft, Goto
  <2> QED  BY <1>5, <2>6
<1> QED  BY <1>6, <1>7, <1>8, <1>9, <1>10 DEF CollapseNext

LEMMA PointersKeepSizes ==
  ASSUME Normalizing, IInv, SizesInv, RemoveInvalidPointers
  PROVE  SizesInv'
<1>1. step = 1 /\ step' = step + 1 /\ label' = "start" /\ failed' = failed
  BY StepAt DEF RemoveInvalidPointers, At, EndStep
<1>2. step \in 0..4 /\ step' \in 0..4 /\ step' # 0 /\ step' # 3 /\ step' # 4
  BY <1>1
<1>3. Measured(ts) /\ WellFormed(ts)
  BY <1>2, EarlyFacts DEF IInv, TypeInv
<1>4. StaysMeasured(ts', ts)
  BY <1>3, WithoutEdgesIsMeasured DEF RemoveInvalidPointers, StaysMeasured
<1> QED  BY <1>1, <1>2, <1>4, EarlyStep

(* The ends of an edge.                                                     *)
LEMMA EndsOf ==
  ASSUME NEW sys, WellFormed(sys), NEW e \in sys.Succ
  PROVE  e.src \in sys.Layouts /\ e.tgt \in sys.Layouts /\ e.src # e.tgt
         /\ e.src \in Nat /\ e.tgt \in Nat
BY DEF WellFormed, Joins

(* The post-order is made of the nodes of the graph with the new root.      *)
LEMMA AddFakeRootKeepsOrder ==
  ASSUME IInv, Measured(ts), Grounded(NonPointerEdges(ts)), AddFakeRoot
  PROVE  Grounded(NonPointerEdges(ts')) /\ OrderState(ts', label', work')
<1> DEFINE new == addArtificialRoot(ts)
           edges == InstancesOf(new)
           all == postOrder(edges, ts.NID, {})
<1>1. WellFormed(ts)
  BY DEF IInv, TypeInv
<1>2. /\ WellFormed(new) /\ Measured(new)
      /\ \A m : m \in new.Layouts <=> m \in ts.Layouts \/ m = ts.NID
      /\ \A e : e \in new.Succ <=>
           \/ e \in ts.Succ
           \/ \E n \in ts.Layouts : IsInstanceRoot(ts, n) /\ e = Edge(ts.NID, n, InstanceTag(AtOffset(0)))
  BY <1>1, RootedGraph DEF StaysMeasured
<1>3. /\ ts' = new /\ label' = "nodes"
      /\ work' = [FakeRoot |-> ts.NID, PostOrder |-> getPostOrder(edges, ts.NID)]
  BY DEF AddFakeRoot, Goto
<1> HIDE DEF new
<1>4. /\ \A m \in ts.Layouts : m # ts.NID
      /\ \A e \in ts.Succ : e.src \in ts.Layouts /\ e.tgt \in ts.Layouts
  <2>1. ts.NID \notin ts.Layouts
    BY <1>1, CreateFields
  <2> QED  BY <1>1, <2>1, EndsOf
<1>5. Grounded(NonPointerEdges(new))
  <2>1. \A e \in NonPointerEdges(new) : e \in NonPointerEdges(ts) \/ e.src = ts.NID
    BY <1>2, EdgeFields DEF NonPointerEdges
  <2>2. \A e \in new.Succ : e.tgt # ts.NID
    BY <1>2, <1>4, EdgeFields
  <2>3. \A e \in NonPointerEdges(new) : e.tgt # ts.NID
    BY <2>2 DEF NonPointerEdges
  <2>4. \A e \in NonPointerEdges(ts) : e.src # ts.NID /\ e.tgt # ts.NID
    BY <1>4 DEF NonPointerEdges
  <2> QED  BY <2>1, <2>3, <2>4, RootKeepsGrounded
<1>6. Grounded(edges) /\ Cardinality(edges) \in Nat
  <2>1. edges \in SUBSET NonPointerEdges(new) /\ edges \in SUBSET new.Succ
    BY DEF NonPointerEdges, InstancesOf, IsInstanceEdge, IsPointerEdge, IsNotPointerEdge
  <2>2. IsFiniteSet(new.Succ)
    BY <1>2 DEF Measured
  <2>3. IsFiniteSet(edges)
    BY <2>1, <2>2, FS_Subset
  <2> QED  BY <1>5, <2>1, <2>3, FewerEdgesAreGrounded, FS_CardinalityType
<1>7. JoinsOnly(edges, new.Layouts) /\ new.Layouts \in SUBSET Nat /\ ts.NID \in new.Layouts
  BY <1>2 DEF JoinsOnly, InstancesOf, WellFormed, Joins
<1>8. all \in Seq(new.Layouts) /\ ChildrenFirst(edges, {}, all)
  BY <1>6, <1>7, PostOrderIsSound
<1> HIDE DEF edges
<1>9. /\ getPostOrder(edges, ts.NID) \in Seq(new.Layouts)
      /\ ChildrenFirst(edges, {}, getPostOrder(edges, ts.NID))
  BY <1>8, FrontIsChildrenFirst DEF getPostOrder
<1>10. OrderState(new, "nodes", work')
  BY <1>3, <1>9 DEF OrderState, edges
<1> QED  BY <1>3, <1>5, <1>10

(* Its next node has not been merged into another.                          *)
LEMMA NextNodeKeepsOrder ==
  ASSUME OrderState(ts, label, work), NextNode
  PROVE  /\ ts' = ts /\ step' = step /\ label' = "children" /\ failed' = failed
         /\ OrderState(ts', label', work')
<1>1. label = "nodes" /\ work.PostOrder # << >>
  BY DEF NextNode, At
<1>2. PICK done : work.PostOrder \in Seq(ts.Layouts)
                  /\ ChildrenFirst(InstancesOf(ts), done, work.PostOrder)
  BY <1>1 DEF OrderState
<1> DEFINE n == Head(work.PostOrder)
           rest == Tail(work.PostOrder)
<1>3. /\ n \in ts.Layouts /\ rest \in Seq(ts.Layouts)
      /\ ChildrenFirst(InstancesOf(ts), done \cup {n}, rest)
  BY <1>1, <1>2, HeadIsReady
<1>4. /\ Goto("children", [FakeRoot |-> work.FakeRoot, PostOrder |-> rest, Node |-> n, After |-> 0])
      /\ ts' = ts
  BY <1>3 DEF NextNode, frontendVars
<1> HIDE DEF n, rest
<1>5. /\ label' = "children" /\ step' = step /\ failed' = failed
      /\ work' = [FakeRoot |-> work.FakeRoot, PostOrder |-> rest, Node |-> n, After |-> 0]
  BY <1>4 DEF Goto
<1>6. OrderState(ts, "children", work')
  BY <1>3, <1>5 DEF OrderState
<1> QED  BY <1>4, <1>5, <1>6

LEMMA MergedEdges ==
  ASSUME NEW sys, WellFormed(sys), NEW into \in sys.Layouts, NEW from \in sys.Layouts, into # from
  PROVE  LET new == mergeNode(sys, into, from) IN
         /\ IsQuotient(NonPointerEdges(new), NonPointerEdges(sys), into, from)
         /\ IsQuotient(InstancesOf(new), InstancesOf(sys), into, from)
<1>1. mergeNode(sys, into, from).Succ = quotient(sys.Succ, into, from)
  BY MergeNodeFields
<1> QED  BY <1>1, QuotientEdges DEF IsQuotient, NonPointerEdges, InstancesOf, IsNotPointerEdge,
            IsPointerEdge, IsInstanceEdge

(* A child is collapsed where its edge is the only one out of the node, or  *)
(* the only one into the child.                                             *)
LEMMA CollapsedIsAlone ==
  ASSUME NEW sys, WellFormed(sys), Measured(sys), NEW link \in sys.Succ,
         canBeCollapsed(sys, link.src, link.tgt)
  PROVE  \/ OnlyChild(NonPointerEdges(sys), link.src, link.tgt)
         \/ OnlyParent(NonPointerEdges(sys), link.src, link.tgt)
<1> DEFINE out == SuccessorEdges(sys, link.src)
           in == PredecessorEdges(sys, link.tgt)
<1>1. sys.Pred = sys.Succ
  BY DEF WellFormed
<1>2. out \subseteq sys.Succ /\ in \subseteq sys.Succ /\ link \in out /\ link \in in
  BY <1>1 DEF SuccessorEdges, PredecessorEdges
<1>3. IsFiniteSet(out) /\ IsFiniteSet(in)
  BY <1>2, FS_Subset DEF Measured
<1>4. Cardinality(out) = 1 \/ Cardinality(in) = 1
  BY DEF canBeCollapsed
<1> HIDE DEF out, in
<1>5. (\A e \in out : e = link) \/ (\A e \in in : e = link)
  BY <1>2, <1>3, <1>4, FS_Singleton
<1>6. /\ \A e \in NonPointerEdges(sys) : e.src = link.src => e \in out
      /\ \A e \in NonPointerEdges(sys) : e.tgt = link.tgt => e \in in
  BY <1>1 DEF NonPointerEdges, SuccessorEdges, PredecessorEdges, out, in
<1> QED  BY <1>5, <1>6 DEF OnlyChild, OnlyParent

(* The child merged into the node comes before it in the post-order.        *)
LEMMA MergeChildKeepsOrder ==
  ASSUME IInv, Measured(ts), Grounded(NonPointerEdges(ts)), OrderState(ts, "children", work),
         NEW c \in ChildrenLeft, canBeCollapsed(ts, work.Node, c),
         NEW after, NEW new, new = mergeNode(ts, work.Node, c)
  PROVE  /\ Grounded(NonPointerEdges(new))
         /\ OrderState(new, "children", [work EXCEPT !.After = after])
<1> DEFINE n == work.Node
           passed == [work EXCEPT !.After = after]
<1>1. WellFormed(ts)
  BY DEF IInv, TypeInv
<1>2. PICK link \in ts.Succ : link.src = n /\ link.tgt = c /\ IsInstanceEdge(link)
  BY DEF ChildrenLeft, ChildrenAtOffset0, SuccessorEdges, IsInstanceOff0
<1>3. n \in ts.Layouts /\ c \in ts.Layouts /\ n # c
  BY <1>1, <1>2, EndsOf
<1>4. link \in NonPointerEdges(ts) /\ link \in InstancesOf(ts)
  BY <1>2 DEF NonPointerEdges, InstancesOf, IsInstanceEdge, IsPointerEdge, IsNotPointerEdge
<1>5. /\ IsQuotient(NonPointerEdges(new), NonPointerEdges(ts), n, c)
      /\ IsQuotient(InstancesOf(new), InstancesOf(ts), n, c)
  BY <1>1, <1>3, MergedEdges
<1>6. OnlyChild(NonPointerEdges(ts), n, c) \/ OnlyParent(NonPointerEdges(ts), n, c)
  BY <1>1, <1>2, CollapsedIsAlone
<1>7. \A m : m \in new.Layouts <=> m \in ts.Layouts /\ m # c
  BY <1>1, <1>3, MergeNodeFields
<1>8. PICK done : /\ work.PostOrder \in Seq(ts.Layouts)
                  /\ ChildrenFirst(InstancesOf(ts), done, work.PostOrder)
                  /\ work.Node \in done
  BY DEF OrderState
<1>9. work = [FakeRoot |-> work.FakeRoot, PostOrder |-> work.PostOrder,
              Node |-> work.Node, After |-> work.After]
  BY DEF OrderState
<1>10. passed = [FakeRoot |-> work.FakeRoot, PostOrder |-> work.PostOrder,
                 Node |-> work.Node, After |-> after]
  BY <1>9
<1> HIDE DEF n, passed
<1>11. Grounded(NonPointerEdges(new))
  BY <1>2, <1>3, <1>4, <1>5, <1>6, MergeKeepsGrounded
<1>12. n \in done /\ c \in done
  BY <1>2, <1>4, <1>8 DEF ChildrenFirst, n
<1>13. ChildrenFirst(InstancesOf(new), done \ {c}, work.PostOrder)
  BY <1>3, <1>5, <1>8, <1>12, MergeKeepsOrder
<1>14. work.PostOrder \in Seq(new.Layouts)
  <2>1. \A i \in 1..Len(work.PostOrder) : work.PostOrder[i] # c
    BY <1>8, <1>12 DEF ChildrenFirst
  <2>2. \A i \in 1..Len(work.PostOrder) : work.PostOrder[i] \in new.Layouts
    BY <1>7, <1>8, <2>1
  <2> QED  BY <1>8, <2>2
<1>15. OrderState(new, "children", passed)
  BY <1>3, <1>10, <1>12, <1>13, <1>14 DEF OrderState, n
<1> QED  BY <1>11, <1>15 DEF passed

LEMMA SimplifyKeepsSizes ==
  ASSUME Normalizing, IInv, SizesInv, SimplifyNext
  PROVE  SizesInv'
<1>1. step = 4
  BY StepAt DEF SimplifyNext, AddFakeRoot, NextNode, NextChild, ChildrenDone, RemoveFakeRoot, At
<1>2. step \in 0..4 /\ step \in 4..9
  BY <1>1
<1>3. Measured(ts) /\ NonScalarsAreSized(ts) /\ WellFormed(ts)
  BY <1>2, EarlyFacts DEF IInv, TypeInv
<1>4. StaysMeasured(ts', ts)
  BY <1>3, SimplifyStaysMeasured
<1>5. Grounded(NonPointerEdges(ts)) /\ OrderState(ts, label, work)
  BY <1>1, <1>2, Zenon DEF SizesInv, SizesState
<1>6. ASSUME step' = step, label' # "merge", failed' = failed,
             Grounded(NonPointerEdges(ts')), OrderState(ts', label', work')
      PROVE SizesInv'
  <2>1. step' \in 0..4 /\ step' # 0 /\ step' # 3
    BY <1>1, <1>6
  <2> QED  BY <1>2, <1>4, <1>6, <2>1, EarlyStep
<1>7. CASE AddFakeRoot
  BY <1>3, <1>5, <1>6, <1>7, AddFakeRootKeepsOrder DEF AddFakeRoot, Goto
<1>8. CASE NextNode
  BY <1>5, <1>6, <1>8, NextNodeKeepsOrder
<1>9. CASE ChildrenDone
  <2>1. /\ label = "children" /\ label' = "nodes" /\ ts' = ts /\ step' = step /\ failed' = failed
        /\ work' = [FakeRoot |-> work.FakeRoot, PostOrder |-> work.PostOrder]
    BY <1>9 DEF ChildrenDone, At, Goto, frontendVars
  <2>2. OrderState(ts, "nodes", work')
    BY <1>5, <2>1 DEF OrderState
  <2> QED  BY <1>5, <1>6, <2>1, <2>2
<1>10. CASE NextChild
  <2>1. label = "children"
    BY <1>10 DEF NextChild, At
  <2>2. PICK c \in ChildrenLeft :
          \/ ts' = ts /\ Goto("children", [work EXCEPT !.After = NextAfter(c)])
          \/ /\ canBeCollapsed(ts, work.Node, c)
             /\ ts' = mergeNode(ts, work.Node, c)
             /\ Goto("children", [work EXCEPT !.After = NextAfter(c)])
          \/ canBeCollapsed(ts, work.Node, c) /\ ~sizesAllowMerge(ts, work.Node, c)
    BY <1>10 DEF NextChild, frontendVars
  <2>3. PICK e \in ts.Succ : e.src = work.Node /\ e.tgt = c
    BY DEF ChildrenLeft, ChildrenAtOffset0, SuccessorEdges
  <2>4. work.Node \in Nat /\ c \in Nat /\ work.Node # c
    BY <1>3, <2>3, EndsOf
  <2>5. canBeCollapsed(ts, work.Node, c) => sizesAllowMerge(ts, work.Node, c)
    BY <1>3, <2>4, MergeIsAllowed DEF canBeCollapsed
  <2>6. Goto("children", [work EXCEPT !.After = NextAfter(c)])
    BY <2>2, <2>5
  <2>7. Grounded(NonPointerEdges(ts')) /\ OrderState(ts', "children", work')
    <3>1. work' = [work EXCEPT !.After = NextAfter(c)]
      BY <2>6 DEF Goto
    <3>2. CASE ts' = ts
      <4>1. work = [FakeRoot |-> work.FakeRoot, PostOrder |-> work.PostOrder,
                    Node |-> work.Node, After |-> work.After]
        BY <1>5, <2>1 DEF OrderState
      <4>2. work' = [FakeRoot |-> work.FakeRoot, PostOrder |-> work.PostOrder,
                     Node |-> work.Node, After |-> NextAfter(c)]
        BY <3>1, <4>1
      <4>3. OrderState(ts, "children", work')
        BY <1>5, <2>1, <4>2 DEF OrderState
      <4> QED  BY <1>5, <3>2, <4>3
    <3>3. CASE canBeCollapsed(ts, work.Node, c) /\ ts' = mergeNode(ts, work.Node, c)
      BY <1>3, <1>5, <2>1, <3>1, <3>3, MergeChildKeepsOrder
    <3> QED  BY <2>2, <2>5, <3>2, <3>3
  <2> QED  BY <1>6, <2>6, <2>7 DEF Goto
<1>11. CASE RemoveFakeRoot
  <2>1. step' = 5 /\ label' = "start" /\ failed' = failed /\ ts' = removeNode(ts, work.FakeRoot)
    BY <1>1, <1>11 DEF RemoveFakeRoot, EndStep
  <2>2. NonPointerEdges(ts') \in SUBSET NonPointerEdges(ts)
    BY <1>3, <2>1, RemoveNodeFields DEF NonPointerEdges
  <2>3. Grounded(NonPointerEdges(ts'))
    BY <1>5, <2>2, FewerEdgesAreGrounded
  <2>4. SizesState(ts', step', label', work')
    BY <2>1, <2>3 DEF SizesState
  <2>5. Measured(ts') /\ step' \in 0..11 /\ step' # 0
    BY <1>4, <2>1 DEF StaysMeasured
  <2>6. failed' \in {""} \cup VisitFailures
    BY <2>1 DEF SizesInv
  <2> QED  BY <2>4, <2>5, <2>6, Zenon DEF SizesInv
<1> QED  BY <1>7, <1>8, <1>9, <1>10, <1>11 DEF SimplifyNext

(* What SizesState says at each of the steps from the pruning on.           *)
LEMMA StateAt ==
  ASSUME NEW sys, NEW l, l # "merge", NEW w
  PROVE  /\ SizesState(sys, 5, l, w) <=>
              Grounded(NonPointerEdges(sys)) /\ (l = "visit" => PruneState(sys, w))
         /\ SizesState(sys, 6, l, w) <=>
              /\ Grounded(NonPointerEdges(sys)) /\ verifyLeafs(sys)
              /\ l = "visit" => UpperState(sys, w)
         /\ SizesState(sys, 7, l, w) <=>
              /\ Grounded(NonPointerEdges(sys)) /\ Fits(sys)
              /\ l = "visit" => StridesState(sys, w)
         /\ SizesState(sys, 8, l, w) <=>
              /\ Grounded(NonPointerEdges(sys)) /\ Fits(sys) /\ AllValid(sys)
              /\ l = "visit" => PruneState(sys, w)
         /\ SizesState(sys, 9, l, w) <=>
              /\ Grounded(NonPointerEdges(sys)) /\ Fits(sys) /\ AllValid(sys) /\ verifyLeafs(sys)
              /\ l = "visit" => UpperState(sys, w)
         /\ SizesState(sys, 10, l, w) <=> Fits(sys) /\ AllValid(sys)
         /\ SizesState(sys, 11, l, w) <=> Fits(sys) /\ AllValid(sys)
BY DEF SizesState

(* The graph at one of those steps, and what is left to show after it.      *)
LEMMA LaterFacts ==
  ASSUME IInv, SizesInv, label \in {"start", "visit"}
  PROVE  /\ Measured(ts) /\ WellFormed(ts) /\ LinksBothWays(ts.Succ)
         /\ SizesState(ts, step, label, work)
<1>1. label \notin CollapseLabels
  BY DEF CollapseLabels
<1> QED  BY <1>1, SoundOutsideCollapse DEF SizesInv

LEMMA LaterStep ==
  ASSUME SizesInv, Measured(ts'), step' \in 5..11, failed' = failed,
         SizesState(ts', step', label', work')
  PROVE  SizesInv'
<1>1. step' \in 0..11 /\ step' # 0
  OBVIOUS
<1>2. failed' \in {""} \cup VisitFailures
  BY DEF SizesInv
<1> QED  BY <1>1, <1>2, Zenon DEF SizesInv

(* What is computed of an edge depends on the size of its target.           *)
LEMMA SameTargetSameField ==
  ASSUME NEW sys, NEW new, NEW e, new.Size[e.tgt] = sys.Size[e.tgt]
  PROVE  /\ getFieldSize(new, e) = getFieldSize(sys, e)
         /\ getFieldUpperMember(new, e) = getFieldUpperMember(sys, e)
         /\ hasValidStrides(new, e) <=> hasValidStrides(sys, e)
BY DEF getFieldSize, getFieldUpperMember, hasValidStrides

LEMMA PruneStep ==
  ASSUME NEW sys, WellFormed(sys), Grounded(NonPointerEdges(sys)), Measured(sys),
         NEW w, PruneState(sys, w), w.todo = {}, NEW n, n \in w.ToRemove,
         NEW v, v = [todo |-> {}, ToRemove |-> w.ToRemove \ {n}]
  PROVE  LET new == removeNode(sys, n) IN
         /\ Grounded(NonPointerEdges(new)) /\ PruneState(new, v)
         /\ Fits(sys) => Fits(new)
         /\ AllValid(sys) => AllValid(new)
<1> DEFINE new == removeNode(sys, n)
<1>1. /\ \A m : m \in new.Layouts <=> m \in sys.Layouts /\ m # n
      /\ \A e : e \in new.Succ <=> e \in sys.Succ /\ e.src # n /\ e.tgt # n
  BY RemoveNodeFields
<1>2. \A m \in Nat : m # n => new.Size[m] = sys.Size[m]
  BY RemoveNodeSizes
<1> HIDE DEF new
<1>3. \A e \in new.Succ : /\ e \in sys.Succ /\ e.src # n /\ e.tgt # n
                          /\ new.Size[e.src] = sys.Size[e.src] /\ new.Size[e.tgt] = sys.Size[e.tgt]
  BY <1>1, <1>2, EndsOf
<1>4. NonPointerEdges(new) \in SUBSET NonPointerEdges(sys)
  BY <1>1 DEF NonPointerEdges
<1>5. InstancesOf(new) \in SUBSET InstancesOf(sys)
  BY <1>1 DEF InstancesOf
<1>6. Grounded(NonPointerEdges(new))
  BY <1>4, FewerEdgesAreGrounded
<1>7. \A e \in InstancesOf(new) : e \in new.Succ
  BY DEF InstancesOf
<1>8. Fits(sys) => Fits(new)
  BY <1>3, <1>5, <1>7, SameTargetSameField DEF Fits
<1>9. AllValid(sys) => AllValid(new)
  BY <1>3, <1>5, <1>7, SameTargetSameField DEF AllValid
<1>10. ASSUME NEW m \in new.Layouts, m \notin v.ToRemove, new.Size[m] = 0
       PROVE  \E e \in NonPointerEdges(new) : e.src = m /\ e.tgt \notin v.ToRemove
  <2>1. m \in sys.Layouts /\ m # n /\ m \in Nat
    BY <1>1 DEF WellFormed
  <2>2. m \notin w.ToRemove /\ sys.Size[m] = 0
    BY <1>2, <1>10, <2>1
  <2>3. PICK e \in NonPointerEdges(sys) : e.src = m /\ e.tgt \notin w.ToRemove
    BY <2>1, <2>2 DEF PruneState
  <2>4. e \in NonPointerEdges(new)
    BY <1>1, <2>1, <2>3 DEF NonPointerEdges
  <2> QED  BY <2>3, <2>4
<1>11. PruneState(new, v)
  BY <1>10 DEF PruneState
<1> QED  BY <1>6, <1>8, <1>9, <1>11 DEF new

LEMMA PruneVisitStep ==
  ASSUME WellFormed(ts), Grounded(NonPointerEdges(ts)), PruneState(ts, work), work.todo # {},
         NEW n, n = nextInPostOrder(work.todo, NonPointerEdges(ts)),
         NEW v, v = [todo |-> work.todo \ {n},
                     ToRemove |-> work.ToRemove \cup (IF hasNoLayout(n) THEN {n} ELSE {})]
  PROVE  PruneState(ts, v)
<1>1. n \in work.todo /\ \A e \in NonPointerEdges(ts) : e.src = n => e.tgt \notin work.todo
  <2>1. work.todo \in SUBSET Nat
    BY DEF PruneState, WellFormed
  <2> QED  BY <2>1, NextIsReady
<1>2. v.todo \subseteq ts.Layouts
  BY DEF PruneState
<1>3. \A e \in NonPointerEdges(ts) : e.src \notin v.todo => e.tgt \notin v.todo
  BY <1>1 DEF PruneState
<1>4. ASSUME NEW m \in ts.Layouts, m \notin v.todo, m \notin v.ToRemove, ts.Size[m] = 0
      PROVE  \E e \in NonPointerEdges(ts) : e.src = m /\ e.tgt \notin v.ToRemove
  <2>1. CASE m = n
    <3>1. ~hasNoLayout(n)
      BY <1>4, <2>1
    <3>2. PICK e \in SuccessorEdges(ts, n) : IsNotPointerEdge(e) /\ e.tgt \notin work.ToRemove
      BY <1>4, <2>1, <3>1 DEF hasNoLayout
    <3> QED  BY <2>1, <3>1, <3>2 DEF SuccessorEdges, NonPointerEdges
  <2>2. CASE m # n
    <3>1. PICK e \in NonPointerEdges(ts) : e.src = m /\ e.tgt \notin work.ToRemove
      BY <1>4, <2>2 DEF PruneState
    <3>2. e.tgt # n
      BY <1>1, <1>4, <2>2, <3>1 DEF PruneState
    <3> QED  BY <3>1, <3>2
  <2> QED  BY <2>1, <2>2
<1> QED  BY <1>2, <1>3, <1>4 DEF PruneState

LEMMA PruneKeepsSizes ==
  ASSUME Normalizing, IInv, SizesInv, StartPrune \/ PruneVisit \/ Prune \/ PruneDone
  PROVE  SizesInv'
<1>1. step \in {5, 8} /\ label \in {"start", "visit"} /\ label # "merge"
  <2>1. /\ step \in DOMAIN Schedule /\ Schedule[step] = "PruneLayoutNodesWithoutLayout"
        /\ label \in {"start", "visit"}
    BY DEF StartPrune, PruneVisit, Prune, PruneDone, At
  <2> QED  BY <2>1, StepAt
<1>2. /\ Measured(ts) /\ WellFormed(ts) /\ LinksBothWays(ts.Succ)
      /\ Grounded(NonPointerEdges(ts))
      /\ label = "visit" => PruneState(ts, work)
      /\ step = 8 => Fits(ts) /\ AllValid(ts)
  BY <1>1, LaterFacts, StateAt
<1>3. ASSUME ts' = ts \/ Measured(ts'), step' = step, label' = "visit", failed' = failed,
             Grounded(NonPointerEdges(ts')), PruneState(ts', work'),
             Fits(ts) => Fits(ts'), AllValid(ts) => AllValid(ts')
      PROVE  SizesInv'
  <2>1. Measured(ts') /\ label' # "merge" /\ step' \in 5..11
    BY <1>1, <1>2, <1>3
  <2>2. SizesState(ts', step', label', work')
    BY <1>1, <1>2, <1>3, <2>1, StateAt
  <2> QED  BY <1>3, <2>1, <2>2, LaterStep
<1>4. CASE StartPrune
  <2>1. /\ ts' = ts /\ step' = step /\ label' = "visit" /\ failed' = failed
        /\ work' = [todo |-> FromRoots(ts), ToRemove |-> {}]
    BY <1>4 DEF StartPrune, Goto, frontendVars
  <2>2. PruneState(ts, work')
    <3>1. \A n \in ts.Layouts : n \in work'.todo
      BY <1>2, <2>1, EveryNodeIsVisited
    <3>2. work'.todo \subseteq ts.Layouts
      BY <1>2, <2>1, EveryNodeIsVisited
    <3>3. \A e \in NonPointerEdges(ts) : e.src \in work'.todo
      BY <1>2, <3>1, EndsOf DEF NonPointerEdges
    <3> QED  BY <2>1, <3>1, <3>2, <3>3 DEF PruneState
  <2> QED  BY <1>2, <1>3, <2>1, <2>2
<1>5. CASE PruneVisit
  <2> DEFINE n == nextInPostOrder(work.todo, NonPointerEdges(ts))
  <2>1. /\ ts' = ts /\ step' = step /\ label' = "visit" /\ failed' = failed /\ label = "visit"
        /\ work.todo # {}
        /\ work' = [todo |-> work.todo \ {n},
                    ToRemove |-> work.ToRemove \cup (IF hasNoLayout(n) THEN {n} ELSE {})]
    BY <1>5 DEF PruneVisit, Goto, frontendVars, At
  <2> HIDE DEF n
  <2>2. PruneState(ts, work')
    BY <1>2, <2>1, PruneVisitStep DEF n
  <2> QED  BY <1>2, <1>3, <2>1, <2>2
<1>6. CASE Prune
  <2>1. label = "visit" /\ work.todo = {}
    BY <1>6 DEF Prune, At
  <2>2. PICK n \in work.ToRemove :
          ts' = removeNode(ts, n) /\ Goto("visit", [work EXCEPT !.ToRemove = @ \ {n}])
    BY <1>6 DEF Prune
  <2>3. work = [todo |-> work.todo, ToRemove |-> work.ToRemove]
    BY <1>2, <2>1 DEF PruneState
  <2>4. /\ step' = step /\ label' = "visit" /\ failed' = failed
        /\ work' = [todo |-> {}, ToRemove |-> work.ToRemove \ {n}]
    BY <2>1, <2>2, <2>3 DEF Goto
  <2>5. /\ Grounded(NonPointerEdges(ts')) /\ PruneState(ts', work')
        /\ (Fits(ts) => Fits(ts')) /\ (AllValid(ts) => AllValid(ts'))
    BY <1>2, <2>1, <2>2, <2>4, PruneStep
  <2>6. Measured(ts')
    BY <1>2, <2>2, RemoveNodeSizes
  <2> QED  BY <1>3, <2>4, <2>5, <2>6
<1>7. CASE PruneDone
  <2>1. /\ ts' = ts /\ step' = step + 1 /\ label' = "start" /\ failed' = failed /\ label = "visit"
        /\ work.todo = {} /\ work.ToRemove = {}
    BY <1>7 DEF PruneDone, EndStep, frontendVars, At
  <2>2. verifyLeafs(ts)
    <3>1. \A n \in ts.Layouts : ts.Size[n] # 0 \/ \E e \in NonPointerEdges(ts) : e.src = n
      BY <1>2, <2>1 DEF PruneState
    <3> QED  BY <3>1 DEF verifyLeafs, IsLeaf, SuccessorEdges, NonPointerEdges, IsNotPointerEdge
  <2>3. /\ step' \in 5..11 /\ (step' = 6 \/ (step' = 9 /\ step = 8))
        /\ label' # "merge" /\ label' # "visit"
    <3>1. step' \in 5..11
      BY <1>1, <2>1
    <3>2. step' = 6 \/ (step' = 9 /\ step = 8)
      BY <1>1, <2>1
    <3> QED  BY <2>1, <3>1, <3>2
  <2>4. SizesState(ts', step', label', work')
    BY <1>2, <2>1, <2>2, <2>3, StateAt
  <2> QED  BY <1>2, <2>1, <2>3, <2>4, LaterStep
<1> QED  BY <1>4, <1>5, <1>6, <1>7

(* The next node of a visit and the edges to the nodes already visited.     *)
LEMMA VisitedChildren ==
  ASSUME NEW sys, WellFormed(sys), NEW edges, Grounded(edges), NEW todo, todo # {},
         \A m \in todo : m \in sys.Layouts
  PROVE  LET n == nextInPostOrder(todo, edges) IN
         /\ n \in todo /\ n \in sys.Layouts /\ n \in Nat
         /\ \A e \in edges : e.src = n => e.tgt \notin todo
<1>1. todo \in SUBSET Nat
  BY DEF WellFormed
<1> QED  BY <1>1, NextIsReady

(* A node grows to hold its fields once its children have their sizes.      *)
LEMMA UpperVisitStep ==
  ASSUME WellFormed(ts), LinksBothWays(ts.Succ), Measured(ts), Grounded(NonPointerEdges(ts)),
         verifyLeafs(ts), UpperState(ts, work), work.todo # {},
         NEW n, n = nextInPostOrder(work.todo, NonPointerEdges(ts)),
         NEW v, v.todo = work.todo \ {n},
         NEW new, new = [ts EXCEPT !.Size[n] = FinalSize(n)]
  PROVE  /\ hasSizedFields(n) /\ FinalSize(n) > 0
         /\ Measured(new) /\ Grounded(NonPointerEdges(new)) /\ verifyLeafs(new)
         /\ UpperState(new, v)
         /\ Fits(ts) => new.Size = ts.Size /\ new.Succ = ts.Succ
<1>1. /\ n \in work.todo /\ n \in ts.Layouts /\ n \in Nat
      /\ \A e \in NonPointerEdges(ts) : e.src = n => e.tgt \notin work.todo
  BY VisitedChildren DEF UpperState
<1>2. /\ \A e \in ts.Succ : IsNotPointerEdge(e) => IsInstanceEdge(e)
      /\ NonPointerEdges(ts) = InstancesOf(ts)
  BY GroundedEdgesAreInstances
<1>3. \A m \in ts.Layouts : m \in Nat /\ ts.Size[m] \in Nat
  BY DEF WellFormed, Measured
<1>4. ASSUME NEW e \in NonPointerEdges(ts), e.src = n
      PROVE  e.tgt \in ts.Layouts /\ ts.Size[e.tgt] # 0 /\ ts.Size[e.tgt] > 0
  <2>1. e \in ts.Succ
    BY DEF NonPointerEdges
  <2> QED  BY <1>1, <1>3, <1>4, <2>1, EndsOf DEF UpperState
<1>5. hasSizedFields(n)
  BY <1>2, <1>4 DEF hasSizedFields, SuccessorEdges, NonPointerEdges
<1>6. /\ FinalSize(n) \in Nat /\ ts.Size[n] <= FinalSize(n)
      /\ \A e \in NonPointerEdges(ts) : e.src = n => getFieldUpperMember(ts, e) <= FinalSize(n)
      /\ (\A e \in NonPointerEdges(ts) : e.src = n => getFieldUpperMember(ts, e) <= ts.Size[n])
           => FinalSize(n) = ts.Size[n]
  BY <1>1, FinalSizes
<1>7. FinalSize(n) > 0
  <2>1. CASE \E e \in NonPointerEdges(ts) : e.src = n
    <3>1. PICK e \in NonPointerEdges(ts) : e.src = n
      BY <2>1
    <3>2. e \in ts.Succ
      BY DEF NonPointerEdges
    <3>3. /\ getFieldSize(ts, e) \in Nat /\ ts.Size[e.tgt] <= getFieldSize(ts, e)
          /\ getFieldUpperMember(ts, e) = e.tag.OE.Offset + getFieldSize(ts, e)
          /\ ts.Size[e.tgt] \in Nat
      BY <3>2, FieldSizes
    <3>4. e.tag.OE.Offset \in Nat
      BY <3>2 DEF Measured, IsOE
    <3>5. ts.Size[e.tgt] > 0 /\ getFieldUpperMember(ts, e) <= FinalSize(n)
      BY <1>4, <1>6, <3>1
    <3> QED  BY <1>6, <3>3, <3>4, <3>5
  <2>2. CASE ~\E e \in NonPointerEdges(ts) : e.src = n
    <3>1. IsLeaf(ts, n)
      BY <2>2 DEF IsLeaf, SuccessorEdges, NonPointerEdges, IsNotPointerEdge
    <3>2. ts.Size[n] # 0 /\ ts.Size[n] \in Nat
      BY <1>1, <1>3, <3>1 DEF verifyLeafs
    <3> QED  BY <1>6, <3>2
  <2> QED  BY <2>1, <2>2
<1>8. /\ new.Size = [ts.Size EXCEPT ![n] = FinalSize(n)]
      /\ new.Succ = ts.Succ /\ new.Layouts = ts.Layouts
  BY DEF WellFormed, HasFields
<1>9. Measured(new)
  BY <1>6, SetSizeIsMeasured DEF WellFormed
<1>10. new.Size[n] = FinalSize(n) /\ \A m \in Nat : m # n => new.Size[m] = ts.Size[m]
  BY <1>1, <1>8 DEF Measured
<1>11. Grounded(NonPointerEdges(new)) /\ NonPointerEdges(new) = NonPointerEdges(ts)
  BY <1>8 DEF NonPointerEdges
<1>12. \A m \in ts.Layouts : ts.Size[m] # 0 => new.Size[m] # 0
  BY <1>3, <1>7, <1>10
<1>13. verifyLeafs(new)
  BY <1>8, <1>12 DEF verifyLeafs, IsLeaf, SuccessorEdges
<1>14. UpperState(new, v)
  <2>1. v.todo \subseteq new.Layouts
    BY <1>8 DEF UpperState
  <2>2. \A m \in new.Layouts : m \notin v.todo => new.Size[m] # 0
    BY <1>7, <1>8, <1>10, <1>12 DEF UpperState
  <2>3. ASSUME NEW e \in NonPointerEdges(new), e.src \notin v.todo
        PROVE  e.tgt \notin v.todo /\ getFieldUpperMember(new, e) <= new.Size[e.src]
    <3>1. e \in NonPointerEdges(ts) /\ e \in ts.Succ
      BY <1>11 DEF NonPointerEdges
    <3>2. e.src \in ts.Layouts /\ e.tgt \in ts.Layouts /\ e.src # e.tgt /\ e.src \in Nat /\ e.tgt \in Nat
      BY <3>1, EndsOf
    <3>3. CASE e.src = n
      <4>1. getFieldUpperMember(new, e) = getFieldUpperMember(ts, e)
        BY <1>10, <3>2, <3>3, SameTargetSameField
      <4> QED  BY <1>1, <1>6, <1>10, <3>1, <3>3, <4>1
    <3>4. CASE e.src # n
      <4>1. e.src \notin work.todo
        BY <2>3, <3>4
      <4>2. e.tgt \notin work.todo /\ getFieldUpperMember(ts, e) <= ts.Size[e.src]
        BY <3>1, <4>1 DEF UpperState
      <4>3. getFieldUpperMember(new, e) = getFieldUpperMember(ts, e)
        BY <1>1, <1>10, <3>2, <4>2, SameTargetSameField
      <4> QED  BY <1>10, <3>2, <3>4, <4>2, <4>3
    <3> QED  BY <3>3, <3>4
  <2> QED  BY <2>1, <2>2, <2>3 DEF UpperState
<1>15. ASSUME Fits(ts) PROVE new.Size = ts.Size /\ new.Succ = ts.Succ
  <2>1. FinalSize(n) = ts.Size[n]
    BY <1>2, <1>6, <1>15 DEF Fits
  <2>2. [ts.Size EXCEPT ![n] = ts.Size[n]] = ts.Size
    BY DEF Measured
  <2> QED  BY <1>8, <2>1, <2>2
<1> QED  BY <1>5, <1>7, <1>9, <1>11, <1>13, <1>14, <1>15

LEMMA UpperKeepsSizes ==
  ASSUME Normalizing, IInv, SizesInv, StartUpper \/ UpperVisit \/ UpperDone
  PROVE  SizesInv'
<1>1. step \in {6, 9} /\ label \in {"start", "visit"} /\ label # "merge"
  <2>1. /\ step \in DOMAIN Schedule /\ Schedule[step] = "ComputeUpperMemberAccesses"
        /\ label \in {"start", "visit"}
    BY DEF StartUpper, UpperVisit, UpperDone, At
  <2> QED  BY <2>1, StepAt
<1>2. /\ Measured(ts) /\ WellFormed(ts) /\ LinksBothWays(ts.Succ)
      /\ Grounded(NonPointerEdges(ts)) /\ verifyLeafs(ts)
      /\ label = "visit" => UpperState(ts, work)
      /\ step = 9 => Fits(ts) /\ AllValid(ts)
  BY <1>1, LaterFacts, StateAt
<1>3. ASSUME Measured(ts'), step' = step, label' = "visit", failed' = failed,
             Grounded(NonPointerEdges(ts')), verifyLeafs(ts'), UpperState(ts', work'),
             Fits(ts) => ts'.Size = ts.Size /\ ts'.Succ = ts.Succ
      PROVE  SizesInv'
  <2>1. label' # "merge" /\ step' \in 5..11
    BY <1>1, <1>3
  <2>2. ASSUME step = 9 PROVE Fits(ts') /\ AllValid(ts')
    <3>1. ts'.Size = ts.Size /\ ts'.Succ = ts.Succ
      BY <1>2, <1>3, <2>2
    <3>2. \A e : /\ getFieldUpperMember(ts', e) = getFieldUpperMember(ts, e)
                /\ hasValidStrides(ts', e) <=> hasValidStrides(ts, e)
      BY <3>1, SameTargetSameField
    <3> QED  BY <1>2, <2>2, <3>1, <3>2 DEF Fits, AllValid, InstancesOf
  <2>3. SizesState(ts', step', label', work')
    BY <1>1, <1>3, <2>1, <2>2, StateAt
  <2> QED  BY <1>3, <2>1, <2>3, LaterStep
<1>4. CASE StartUpper
  <2>1. /\ ts' = ts /\ step' = step /\ label' = "visit" /\ failed' = failed
        /\ work'.todo = FromRoots(ts)
    BY <1>2, <1>4 DEF StartUpper, Goto, frontendVars
  <2>2. UpperState(ts, work')
    <3>1. \A n \in ts.Layouts : n \in work'.todo
      BY <1>2, <2>1, EveryNodeIsVisited
    <3>2. work'.todo \subseteq ts.Layouts
      BY <1>2, <2>1, EveryNodeIsVisited
    <3>3. \A e \in NonPointerEdges(ts) : e.src \in work'.todo
      BY <1>2, <3>1, EndsOf DEF NonPointerEdges
    <3> QED  BY <3>1, <3>2, <3>3 DEF UpperState
  <2> QED  BY <1>2, <1>3, <2>1, <2>2
<1>5. CASE UpperVisit
  <2> DEFINE n == nextInPostOrder(work.todo, NonPointerEdges(ts))
             new == [ts EXCEPT !.Size[n] = FinalSize(n)]
  <2>1. /\ label = "visit" /\ work.todo # {}
        /\ hasSizedFields(n) /\ FinalSize(n) > 0 =>
             ts' = new /\ Goto("visit", [todo |-> work.todo \ {n}])
    BY <1>5 DEF UpperVisit, At
  <2> HIDE DEF n, new
  <2>2. /\ hasSizedFields(n) /\ FinalSize(n) > 0
        /\ Measured(new) /\ Grounded(NonPointerEdges(new)) /\ verifyLeafs(new)
        /\ UpperState(new, [todo |-> work.todo \ {n}])
        /\ Fits(ts) => new.Size = ts.Size /\ new.Succ = ts.Succ
    <3> DEFINE v == [todo |-> work.todo \ {n}]
    <3>1. n = nextInPostOrder(work.todo, NonPointerEdges(ts))
      BY DEF n
    <3>2. new = [ts EXCEPT !.Size[n] = FinalSize(n)]
      BY DEF new
    <3>3. v.todo = work.todo \ {n}
      OBVIOUS
    <3> HIDE DEF v
    <3>4. /\ hasSizedFields(n) /\ FinalSize(n) > 0
          /\ Measured(new) /\ Grounded(NonPointerEdges(new)) /\ verifyLeafs(new)
          /\ UpperState(new, v)
          /\ Fits(ts) => new.Size = ts.Size /\ new.Succ = ts.Succ
      BY <1>2, <2>1, <3>1, <3>2, <3>3, UpperVisitStep
    <3> QED  BY <3>4 DEF v
  <2>3. ts' = new /\ Goto("visit", [todo |-> work.todo \ {n}])
    BY <2>1, <2>2 DEF new
  <2>4. step' = step /\ label' = "visit" /\ failed' = failed /\ work' = [todo |-> work.todo \ {n}]
    BY <2>3 DEF Goto
  <2> QED  BY <1>3, <2>2, <2>3, <2>4
<1>6. CASE UpperDone
  <2>1. /\ ts' = ts /\ step' = step + 1 /\ label' = "start" /\ failed' = failed /\ label = "visit"
        /\ work.todo = {}
    BY <1>6 DEF UpperDone, EndStep, frontendVars, At
  <2>2. Fits(ts)
    <3>1. \A e \in NonPointerEdges(ts) : getFieldUpperMember(ts, e) <= ts.Size[e.src]
      BY <1>2, <2>1 DEF UpperState
    <3>2. NonPointerEdges(ts) = InstancesOf(ts)
      BY <1>2, GroundedEdgesAreInstances
    <3> QED  BY <3>1, <3>2 DEF Fits
  <2>3. step' \in 5..11
    BY <1>1, <2>1
  <2>4. step' = 7 \/ (step' = 10 /\ step = 9)
    BY <1>1, <2>1
  <2>5. label' # "merge" /\ label' # "visit"
    BY <2>1
  <2>6. SizesState(ts', step', label', work')
    BY <1>2, <2>1, <2>2, <2>4, <2>5, StateAt
  <2> QED  BY <1>2, <2>1, <2>3, <2>6, LaterStep
<1> QED  BY <1>4, <1>5, <1>6

(* A node that loses the edges whose strides are not valid only gets        *)
(* smaller, and is still large enough for the fields it keeps.              *)
LEMMA StridesVisitStep ==
  ASSUME WellFormed(ts), LinksBothWays(ts.Succ), Measured(ts), Grounded(NonPointerEdges(ts)),
         Fits(ts), StridesState(ts, work), work.todo # {},
         NEW n, n = nextInPostOrder(work.todo, InstancesOf(ts)),
         NEW v, v.todo = work.todo \ {n},
         NEW new, new = [withoutEdges(ts, invalidStrides(n)) EXCEPT
                           !.Size[n] = SizeWithout(n, invalidStrides(n))]
  PROVE  /\ Measured(new) /\ Grounded(NonPointerEdges(new)) /\ Fits(new)
         /\ StridesState(new, v)
<1> DEFINE removed == invalidStrides(n)
           cut == withoutEdges(ts, removed)
           size == SizeWithout(n, removed)
           left == {e \in SuccessorEdges(ts, n) \ removed : IsNotPointerEdge(e)}
<1>1. NonPointerEdges(ts) = InstancesOf(ts)
  BY GroundedEdgesAreInstances
<1>2. /\ n \in work.todo /\ n \in ts.Layouts /\ n \in Nat
      /\ \A e \in InstancesOf(ts) : e.src = n => e.tgt \notin work.todo
  BY <1>1, VisitedChildren DEF StridesState
<1>3. /\ WellFormed(cut) /\ HasFields(cut) /\ Measured(cut) /\ SameSizes(cut, ts)
      /\ cut.Layouts = ts.Layouts /\ \A e : e \in cut.Succ <=> e \in ts.Succ /\ e \notin removed
  BY WithoutEdgesFields, WithoutEdgesIsMeasured DEF WellFormed
<1>4. left \in SUBSET ts.Succ /\ \A e : e \in left <=>
        e \in ts.Succ /\ e.src = n /\ e \notin removed /\ IsNotPointerEdge(e)
  BY DEF SuccessorEdges
<1>5. \A e \in ts.Succ : e.src = n /\ IsInstanceEdge(e) /\ e \notin removed => hasValidStrides(ts, e)
  BY DEF invalidStrides, SuccessorEdges
<1>6. new = [cut EXCEPT !.Size[n] = size]
  OBVIOUS
<1>7. /\ size \in Nat /\ size <= ts.Size[n]
      /\ \A e \in left : getFieldUpperMember(ts, e) <= size
  <2>1. ts.Size[n] \in Nat
    BY <1>2 DEF Measured
  <2>2. \A e \in left : e \in InstancesOf(ts) /\ e.src = n
    BY <1>1, <1>4 DEF NonPointerEdges
  <2>3. \A e \in left : getFieldUpperMember(ts, e) <= ts.Size[n]
    BY <2>2 DEF Fits
  <2>4. CASE removed = {}
    <3>1. size = ts.Size[n]
      BY <2>4 DEF SizeWithout
    <3> QED  BY <2>1, <2>3, <3>1
  <2>5. CASE removed # {}
    <3>1. size = upperMember(ts, left)
      BY <2>5 DEF SizeWithout
    <3> HIDE DEF left, size
    <3> QED  BY <1>4, <2>1, <2>3, <3>1, UpperMembers
  <2> QED  BY <2>4, <2>5
<1> HIDE DEF removed, cut, size, left
<1>8. /\ new.Size = [ts.Size EXCEPT ![n] = size]
      /\ new.Succ = cut.Succ /\ new.Layouts = ts.Layouts
  BY <1>3, <1>6 DEF HasFields, SameSizes
<1>9. Measured(new)
  <2>1. Measured([cut EXCEPT !.Size[n] = size])
    BY <1>3, <1>7, SetSizeIsMeasured
  <2> QED  BY <1>6, <2>1
<1>10. new.Size[n] = size /\ \A m \in Nat : m # n => new.Size[m] = ts.Size[m]
  BY <1>2, <1>8 DEF Measured
<1>11. \A e \in InstancesOf(new) : e \in InstancesOf(ts) /\ e \in ts.Succ /\ e \notin removed
  BY <1>3, <1>8 DEF InstancesOf
<1>12. Grounded(NonPointerEdges(new))
  <2>1. NonPointerEdges(new) \in SUBSET NonPointerEdges(ts)
    BY <1>3, <1>8 DEF NonPointerEdges
  <2> QED  BY <2>1, FewerEdgesAreGrounded
<1>13. ASSUME NEW e \in InstancesOf(new)
       PROVE  getFieldUpperMember(new, e) <= new.Size[e.src]
  <2>1. e \in InstancesOf(ts) /\ e \in ts.Succ /\ e \notin removed
    BY <1>11
  <2>2. e.src # e.tgt /\ e.src \in Nat /\ e.tgt \in Nat
    BY <2>1, EndsOf
  <2>3. CASE e.src = n
    <3>1. e \in left
      BY <1>4, <2>1, <2>3 DEF InstancesOf, IsNotPointerEdge, IsPointerEdge, IsInstanceEdge
    <3>2. getFieldUpperMember(new, e) = getFieldUpperMember(ts, e)
      BY <1>10, <2>2, <2>3, SameTargetSameField
    <3> QED  BY <1>7, <1>10, <2>3, <3>1, <3>2
  <2>4. CASE e.src # n /\ e.tgt # n
    <3>1. getFieldUpperMember(new, e) = getFieldUpperMember(ts, e)
      BY <1>10, <2>2, <2>4, SameTargetSameField
    <3> QED  BY <1>10, <2>1, <2>2, <2>4, <3>1 DEF Fits
  <2>5. CASE e.src # n /\ e.tgt = n
    <3>1. IsOE(e.tag.OE) /\ e.tag.OE.Offset \in Nat
      BY <2>1 DEF Measured, IsOE
    <3>2. new.Size[e.tgt] = size /\ new.Size[e.src] = ts.Size[e.src] /\ ts.Size[n] \in Nat
      BY <1>2, <1>10, <2>2, <2>5 DEF Measured
    <3>3. Depth(e) \in Nat
      BY <3>1, LayersOf
    <3>4. Depth(e) \in 0..Depth(e)
      BY <3>3
    <3>5. /\ getFieldSize(new, e) \in Nat /\ getFieldSize(ts, e) \in Nat
          /\ getFieldSize(new, e) <= getFieldSize(ts, e)
      BY <1>7, <2>5, <3>1, <3>2, <3>4, SpansGrow DEF getFieldSize, Depth
    <3>6. getFieldUpperMember(ts, e) <= ts.Size[e.src] /\ ts.Size[e.src] \in Nat
      BY <2>1, <2>2 DEF Fits, Measured
    <3>7. e.tag.OE.Offset + getFieldSize(ts, e) <= ts.Size[e.src]
      BY <3>6 DEF getFieldUpperMember
    <3>8. e.tag.OE.Offset + getFieldSize(new, e) <= ts.Size[e.src]
      BY <3>1, <3>5, <3>6, <3>7
    <3> QED  BY <3>2, <3>8 DEF getFieldUpperMember
  <2> QED  BY <2>3, <2>4, <2>5
<1>14. StridesState(new, v)
  <2>1. v.todo \subseteq new.Layouts
    BY <1>8 DEF StridesState
  <2>2. ASSUME NEW e \in InstancesOf(new), e.src \notin v.todo
        PROVE  e.tgt \notin v.todo /\ hasValidStrides(new, e)
    <3>1. e \in InstancesOf(ts) /\ e \in ts.Succ /\ e \notin removed
      BY <1>11
    <3>2. e.src # e.tgt /\ e.src \in Nat /\ e.tgt \in Nat
      BY <3>1, EndsOf
    <3>3. e.tgt \notin work.todo /\ hasValidStrides(ts, e)
      BY <1>2, <1>5, <2>2, <3>1 DEF StridesState, InstancesOf
    <3>4. e.tgt # n
      BY <1>2, <3>3
    <3> QED  BY <1>10, <3>2, <3>3, <3>4, SameTargetSameField
  <2> QED  BY <2>1, <2>2 DEF StridesState
<1> QED  BY <1>9, <1>12, <1>13, <1>14 DEF Fits

LEMMA StridesKeepSizes ==
  ASSUME Normalizing, IInv, SizesInv, StartStrides \/ StridesVisit \/ StridesDone
  PROVE  SizesInv'
<1>1. step = 7 /\ label \in {"start", "visit"} /\ label # "merge"
  <2>1. /\ step \in DOMAIN Schedule /\ Schedule[step] = "RemoveInvalidStrideEdges"
        /\ label \in {"start", "visit"}
    BY DEF StartStrides, StridesVisit, StridesDone, At
  <2> QED  BY <2>1, StepAt
<1>2. /\ Measured(ts) /\ WellFormed(ts) /\ LinksBothWays(ts.Succ)
      /\ Grounded(NonPointerEdges(ts)) /\ Fits(ts)
      /\ label = "visit" => StridesState(ts, work)
  BY <1>1, LaterFacts, StateAt
<1>3. ASSUME Measured(ts'), step' = step, label' = "visit", failed' = failed,
             Grounded(NonPointerEdges(ts')), Fits(ts'), StridesState(ts', work')
      PROVE  SizesInv'
  <2>1. label' # "merge" /\ step' \in 5..11
    BY <1>1, <1>3
  <2>2. SizesState(ts', step', label', work')
    BY <1>1, <1>3, <2>1, StateAt
  <2> QED  BY <1>3, <2>1, <2>2, LaterStep
<1>4. CASE StartStrides
  <2>1. /\ ts' = ts /\ step' = step /\ label' = "visit" /\ failed' = failed
        /\ work'.todo = FromInstanceRoots(ts)
    BY <1>4 DEF StartStrides, Goto, frontendVars
  <2>2. StridesState(ts, work')
    <3>1. \A n \in ts.Layouts : n \in work'.todo
      BY <1>2, <2>1, EveryNodeIsVisited
    <3>2. work'.todo \subseteq ts.Layouts
      BY <1>2, <2>1, EveryNodeIsVisited
    <3>3. \A e \in InstancesOf(ts) : e.src \in work'.todo
      BY <1>2, <3>1, EndsOf DEF InstancesOf
    <3> QED  BY <3>1, <3>2, <3>3 DEF StridesState
  <2> QED  BY <1>2, <1>3, <2>1, <2>2
<1>5. CASE StridesVisit
  <2> DEFINE n == nextInPostOrder(work.todo, InstancesOf(ts))
             new == [withoutEdges(ts, invalidStrides(n)) EXCEPT
                       !.Size[n] = SizeWithout(n, invalidStrides(n))]
  <2>1. /\ label = "visit" /\ work.todo # {}
        /\ ts' = new /\ Goto("visit", [todo |-> work.todo \ {n}])
    BY <1>5 DEF StridesVisit, At
  <2> HIDE DEF n
  <2>2. /\ Measured(new) /\ Grounded(NonPointerEdges(new)) /\ Fits(new)
        /\ StridesState(new, [todo |-> work.todo \ {n}])
    BY <1>2, <2>1, StridesVisitStep DEF n
  <2>3. step' = step /\ label' = "visit" /\ failed' = failed /\ work' = [todo |-> work.todo \ {n}]
    BY <2>1 DEF Goto
  <2> HIDE DEF new
  <2> QED  BY <1>3, <2>1, <2>2, <2>3
<1>6. CASE StridesDone
  <2>1. /\ ts' = ts /\ step' = step + 1 /\ label' = "start" /\ failed' = failed /\ label = "visit"
        /\ work.todo = {}
    BY <1>6 DEF StridesDone, EndStep, frontendVars, At
  <2>2. AllValid(ts)
    BY <1>2, <2>1 DEF StridesState, AllValid
  <2>3. step' = 8 /\ step' \in 5..11
    BY <1>1, <2>1
  <2>4. label' # "merge" /\ label' # "visit"
    BY <2>1
  <2>5. SizesState(ts', step', label', work')
    BY <1>2, <2>1, <2>2, <2>3, <2>4, StateAt
  <2> QED  BY <1>2, <2>1, <2>3, <2>5, LaterStep
<1> QED  BY <1>4, <1>5, <1>6

(* The edges of a chain fit, and their strides are valid: each of its nodes *)
(* has the size of the field it is made of, and the edge it stands for had  *)
(* strides that could hold it.                                              *)
LEMMA DecomposeStep ==
  ASSUME NEW sys, WellFormed(sys), LinksBothWays(sys.Succ), Measured(sys), Node = Nat,
         Fits(sys), AllValid(sys), NEW e \in manyStrides(sys)
  PROVE  Fits(decomposed(sys, e)) /\ AllValid(decomposed(sys, e))
<1> DEFINE new == decomposed(sys, e)
           size == spans(sys.Size[e.tgt], e)
<1>1. e \in sys.Succ /\ e \in InstancesOf(sys) /\ Depth(e) \in Nat /\ Depth(e) >= 2
  BY DEF manyStrides, InstancesOf, Depth, WellFormed, Joins, IsTag
<1>2. /\ \A n \in sys.Layouts : new.Size[n] = sys.Size[n]
      /\ \A i \in 0..(Depth(e) - 1) : new.Size[NodeChain(sys, e, i)] = size[i]
      /\ \A f : f \in new.Succ <=> \/ f \in sys.Succ /\ f # e
                                   \/ \E i \in 1..Depth(e) : f = chainEdge(sys, e, i)
  BY DecomposedSizes
<1>3. /\ \A i \in 1..Depth(e) : getFieldSize(new, chainEdge(sys, e, i)) = size[i]
      /\ size[Depth(e)] = getFieldSize(sys, e)
  BY DecomposedFields
<1>4. IsOE(e.tag.OE) /\ e.tag.OE.Offset \in Nat /\ e.src \in sys.Layouts /\ sys.Size[e.tgt] \in Nat
  BY <1>1, EndsOf DEF Measured, IsOE
<1>5. /\ size \in [0..Depth(e) -> Nat]
      /\ \A i \in 0..Depth(e) : sys.Size[e.tgt] <= size[i]
  BY <1>4, SpansRecursion, SpansGrow
<1>6. /\ sys.Size[e.tgt] # 0
      /\ \A i \in 1..Depth(e) : layerOf(e, i).Stride >= size[i - 1]
  BY <1>1 DEF AllValid, hasValidStrides, Depth
<1> HIDE DEF new, size
<1>7. ASSUME NEW f \in sys.Succ, IsInstanceEdge(f)
      PROVE  getFieldUpperMember(new, f) <= new.Size[f.src] /\ hasValidStrides(new, f)
  <2>1. f \in InstancesOf(sys) /\ new.Size[f.src] = sys.Size[f.src] /\ new.Size[f.tgt] = sys.Size[f.tgt]
    BY <1>2, <1>7, EndsOf DEF InstancesOf
  <2> QED  BY <2>1, SameTargetSameField DEF Fits, AllValid
<1>8. ASSUME NEW i \in 1..Depth(e)
      PROVE  LET f == chainEdge(sys, e, i) IN
             getFieldUpperMember(new, f) <= new.Size[f.src] /\ hasValidStrides(new, f)
  <2> DEFINE f == chainEdge(sys, e, i)
  <2>1. /\ f.src = NodeChain(sys, e, i) /\ f.tgt = NodeChain(sys, e, i - 1)
        /\ IsOE(f.tag.OE) /\ Depth(f) = 1
        /\ f.tag.OE.Offset = (IF i = Depth(e) THEN e.tag.OE.Offset ELSE 0)
        /\ layerOf(f, 1) = layerOf(e, i)
    BY ChainEdgeFields
  <2>2. getFieldSize(new, f) = size[i]
    BY <1>3
  <2>3. i - 1 \in 0..(Depth(e) - 1) /\ i - 1 \in 0..Depth(e) /\ i \in 0..Depth(e) /\ i \in Nat
    BY <1>1
  <2>4. new.Size[f.tgt] = size[i - 1] /\ size[i - 1] \in Nat /\ size[i] \in Nat
    BY <1>2, <1>5, <2>1, <2>3
  <2> HIDE DEF f
  <2>5. hasValidStrides(new, f)
    <3>1. new.Size[f.tgt] # 0
      BY <1>4, <1>5, <1>6, <2>3, <2>4
    <3>2. \A j \in DOMAIN f.tag.OE.Strides : j = 1
      <4>1. DOMAIN f.tag.OE.Strides = 1..1
        BY <2>1 DEF IsOE, Depth
      <4> QED  BY <4>1
    <3>3. spans(new.Size[f.tgt], f)[0] = size[i - 1]
      BY <2>1, <2>4, SpansOfOneStride
    <3>4. layerOf(f, 1).Stride >= spans(new.Size[f.tgt], f)[1 - 1]
      BY <1>6, <2>1, <3>3
    <3> QED  BY <3>1, <3>2, <3>4 DEF hasValidStrides
  <2>6. getFieldUpperMember(new, f) = f.tag.OE.Offset + size[i]
    BY <2>2 DEF getFieldUpperMember
  <2>7. CASE i = Depth(e)
    <3>1. f.src = e.src
      BY <1>1, <2>1, <2>7 DEF NodeChain, Depth
    <3>2. getFieldUpperMember(sys, e) <= sys.Size[e.src]
      BY <1>1 DEF Fits
    <3>3. getFieldUpperMember(sys, e) = e.tag.OE.Offset + size[i]
      BY <1>3, <2>7 DEF getFieldUpperMember
    <3>4. new.Size[f.src] = sys.Size[e.src]
      BY <1>2, <1>4, <3>1
    <3> QED  BY <2>1, <2>5, <2>6, <2>7, <3>2, <3>3, <3>4 DEF f
  <2>8. CASE i # Depth(e)
    <3>1. i \in 0..(Depth(e) - 1)
      BY <1>1, <2>3, <2>8
    <3>2. new.Size[f.src] = size[i]
      BY <1>2, <2>1, <3>1
    <3>3. getFieldUpperMember(new, f) <= new.Size[f.src]
      BY <2>1, <2>4, <2>6, <2>8, <3>2
    <3> QED  BY <2>5, <3>3 DEF f
  <2> QED  BY <2>7, <2>8
<1>9. \A f \in InstancesOf(new) : \/ f \in sys.Succ /\ IsInstanceEdge(f)
                                  \/ \E i \in 1..Depth(e) : f = chainEdge(sys, e, i)
  BY <1>2 DEF InstancesOf
<1>10. \A f \in InstancesOf(new) : getFieldUpperMember(new, f) <= new.Size[f.src] /\ hasValidStrides(new, f)
  BY <1>7, <1>8, <1>9
<1>11. Fits(new) /\ AllValid(new)
  BY <1>10 DEF Fits, AllValid
<1> QED  BY <1>11 DEF new

LEMMA DecomposeKeepsSizes ==
  ASSUME Normalizing, IInv, SizesInv, Decompose \/ DecomposeDone
  PROVE  SizesInv'
<1>1. step = 10 /\ label = "start"
  <2>1. step \in DOMAIN Schedule /\ Schedule[step] = "DecomposeStridedEdges" /\ label = "start"
    BY DEF Decompose, DecomposeDone, At
  <2> QED  BY <2>1, StepAt
<1>2. /\ Measured(ts) /\ WellFormed(ts) /\ LinksBothWays(ts.Succ) /\ Fits(ts) /\ AllValid(ts)
  BY <1>1, LaterFacts, StateAt
<1>3. label' = "start" /\ failed' = failed /\ step' \in {10, 11}
  BY <1>1 DEF Decompose, DecomposeDone, Goto, EndStep
<1>4. Measured(ts') /\ Fits(ts') /\ AllValid(ts')
  <2>1. CASE Decompose
    <3>1. PICK e \in manyStrides(ts) : ts' = decomposed(ts, e)
      BY <2>1 DEF Decompose
    <3>2. Node = Nat
      BY DEF Normalizing
    <3> QED  BY <1>2, <3>1, <3>2, DecomposedSizes, DecomposeStep
  <2>2. CASE DecomposeDone
    BY <1>2, <2>2 DEF DecomposeDone, frontendVars
  <2> QED  BY <2>1, <2>2
<1>5. step' \in 5..11 /\ label' # "merge"
  BY <1>3
<1>6. SizesState(ts', step', label', work')
  BY <1>3, <1>4, <1>5, StateAt
<1> QED  BY <1>3, <1>4, <1>5, <1>6, LaterStep

LEMMA SizesNextStep ==
  ASSUME Normalizing, IInv, SizesInv, IInv', LoopsAreGone', [Next]_vars
  PROVE  SizesInv'
<1>1. CASE Finished \/ UNCHANGED vars
  <2>1. /\ ts' = ts /\ program' = program /\ step' = step /\ label' = label /\ work' = work
        /\ failed' = failed
    BY <1>1 DEF Finished, vars, frontendVars, loopVars
  <2>2. /\ Measured(ts) /\ SizesState(ts, step, label, work) /\ step \in 0..11
        /\ step = 0 => ArgumentsAreSized(program)
        /\ failed \in {""} \cup VisitFailures
    BY DEF SizesInv
  <2>3. Measured(ts') /\ SizesState(ts', step', label', work')
    BY <2>1, <2>2
  <2>4. /\ step' \in 0..11 /\ failed' \in {""} \cup VisitFailures
        /\ step' = 0 => ArgumentsAreSized(program')
    BY <2>1, <2>2
  <2> QED  BY <2>3, <2>4, Zenon DEF SizesInv
<1>2. CASE SizesNext
  BY <1>2, PointersKeepSizes, PruneKeepsSizes, UpperKeepsSizes, StridesKeepSizes,
     DecomposeKeepsSizes DEF SizesNext
<1> QED  BY <1>1, <1>2, FrontendKeepsSizes, CollapseKeepsSizes, SimplifyKeepsSizes DEF Next

LEMMA SizesInit ==
  ASSUME Normalizing, ProgramsAreSized, Init
  PROVE  SizesInv
<1>1. step = 0 /\ label = "start" /\ failed = "" /\ program \in Programs
  BY DEF Init, DLAInit, frontendInit
<1>2. step = 0
  BY <1>1
<1>3. Measured(ts) /\ NonScalarsAreSized(ts)
  BY MeasuredInit DEF Normalizing
<1>4. /\ step \notin 4..9 /\ step \notin 7..11 /\ step \notin 8..11 /\ step # 3 /\ step # 4
      /\ step \notin {6, 9} /\ step \notin {5, 8} /\ step # 7 /\ step \in 0..11
  BY <1>2
<1>5. SizesState(ts, step, label, work)
  <2>1. label # "merge" /\ label # "visit"
    BY <1>1
  <2> QED  BY <1>3, <1>4, <2>1, Zenon DEF SizesState
<1>6. failed \in {""} \cup VisitFailures
  BY <1>1
<1>7. step = 0 => ArgumentsAreSized(program)
  BY <1>1 DEF ProgramsAreSized
<1>8. step \in 0..11
  BY <1>2
<1> QED  BY <1>3, <1>5, <1>6, <1>7, <1>8, Zenon DEF SizesInv


LEMMA NormalizationHolds ==
  Normalizing /\ ProgramsAreSized /\ Spec /\ []LoopsAreGone
    => [](Normalizing /\ IInv /\ SizesInv)
<1> DEFINE Inv == Normalizing /\ IInv /\ VisitInv /\ SizesInv
<1>1. Normalizing /\ ProgramsAreSized /\ Init => Inv
  BY InvInit, VisitInvInit, SizesInit
<1>2. Inv /\ LoopsAreGone' /\ [Next]_vars => Inv'
  BY InvNext, SizesNextStep DEF Normalizing
<1>3. Inv => Normalizing /\ IInv /\ SizesInv
  OBVIOUS
<1> HIDE DEF Inv
<1> QED  BY <1>1, <1>2, <1>3, PTL DEF Spec

(* At the end of a step from the sixth on, and at the end of them all.      *)
LEMMA SizesAtTheEnd ==
  ASSUME Normalizing, SizesInv
  PROVE  /\ JustDone \in {"ComputeUpperMemberAccesses", "DecomposeStridedEdges"} => Fits(ts)
         /\ step > Len(Schedule) => AllValid(ts)
<1>1. step \in 0..11 /\ SizesState(ts, step, label, work)
  BY DEF SizesInv
<1>2. ASSUME JustDone \in {"ComputeUpperMemberAccesses", "DecomposeStridedEdges"}
      PROVE  Fits(ts)
  <2>1. step > 1 /\ JustDone = Schedule[step - 1] /\ JustDone # "none"
    BY <1>2 DEF JustDone
  <2>2. step \in {2, 3, 4, 5, 6, 7, 8, 9, 10, 11}
    BY <1>1, <2>1
  <2>3. step \in {7, 10, 11}
    BY <1>2, <2>1, <2>2, StepNumbers
  <2>4. step \in 7..11
    BY <2>3
  <2> QED  BY <1>1, <2>4, Zenon DEF SizesState
<1>3. ASSUME step > Len(Schedule) PROVE AllValid(ts)
  <2>1. Len(Schedule) = 10 /\ step \in 0..11
    BY <1>1, StepNumbers
  <2>2. step > 10
    BY <1>3, <2>1
  <2>3. step \in 8..11
    BY <2>1, <2>2
  <2> QED  BY <1>1, <2>3, Zenon DEF SizesState
<1> QED  BY <1>2, <1>3

------------------------------------------------------------------------------
(* Whenever the sizes have been computed, and at the end, every field fits  *)
(* in its node.  That the instances are a DAG once the loops are cut is     *)
(* what CollapseSCC.cpp:217 asserts, and SimplifyInstanceAtOffset0 again    *)
(* when it starts; types the model gives to arguments have a size, and so   *)
(* those of the programs do.                                                *)
THEOREM FieldsAlwaysFit ==
  Normalizing /\ ProgramsAreSized /\ Spec /\ []LoopsAreGone => []FieldsFit
<1>1. Normalizing /\ IInv /\ SizesInv => FieldsFit
  <2> SUFFICES ASSUME Normalizing, SizesInv,
                      JustDone \in {"ComputeUpperMemberAccesses", "DecomposeStridedEdges"},
                      NEW e \in ts.Succ, IsInstanceEdge(e)
               PROVE  getFieldUpperMember(ts, e) <= ts.Size[e.src]
    BY DEF FieldsFit
  <2>1. Fits(ts)
    BY SizesAtTheEnd
  <2> QED  BY <2>1 DEF Fits, InstancesOf
<1> QED  BY <1>1, NormalizationHolds, PTL

(* One removal of invalid strides is enough: the pruning, the sizes that    *)
(* are computed again and the decomposition make no stride invalid.         *)
THEOREM StridesAreValidAtTheEnd ==
  Normalizing /\ ProgramsAreSized /\ Spec /\ []LoopsAreGone => []StridesStayValid
<1>1. Normalizing /\ IInv /\ SizesInv => StridesStayValid
  <2> SUFFICES ASSUME Normalizing, SizesInv, step > Len(Schedule),
                      NEW e \in ts.Succ, IsInstanceEdge(e)
               PROVE  hasValidStrides(ts, e)
    BY DEF StridesStayValid
  <2>1. AllValid(ts)
    BY SizesAtTheEnd
  <2> QED  BY <2>1 DEF AllValid, InstancesOf
<1> QED  BY <1>1, NormalizationHolds, PTL

(* No assertion of a step fails: mergeNodes accepts the sizes of the nodes  *)
(* the steps collapse, no node of the post-order that                       *)
(* SimplifyInstanceAtOffset0 computes once is erased before its turn, a     *)
(* leaf has a size when ComputeUpperMemberAccesses starts, and every node   *)
(* it visits ends with one.                                                 *)
THEOREM NormalizationNeverAborts ==
  Normalizing /\ ProgramsAreSized /\ Spec /\ []LoopsAreGone => []NoAssertionFails
<1>1. SizesInv /\ VisitAssertionsHold => NoAssertionFails
  BY DEF SizesInv, VisitAssertionsHold, NoAssertionFails
<1> QED  BY <1>1, NormalizationHolds, VisitsNeverAbort, PTL
==============================================================================
