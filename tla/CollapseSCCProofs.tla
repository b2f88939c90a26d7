--------------------------- MODULE CollapseSCCProofs ---------------------------
(****************************************************************************)
(* Proofs about the graph of layouts from the front-end to the end of the   *)
(* normalization, for every set of programs and every schedule: what the    *)
(* methods do to a graph, that each handler of the front-end and each step  *)
(* leaves it well formed, and that the two collapsing steps leave no edge   *)
(* they collapse along but where IInv says.  The visits that cut backedges, *)
(* and the theorems, are in DLANormalizationProofs.                         *)
(****************************************************************************)
EXTENDS DLANormalization, FiniteSetTheorems, TLAPS

------------------------------------------------------------------------------
(* What the methods of LayoutTypeGraph do to a graph, for any nodes, tags   *)
(* and sizes: the two copies of the edges stay equal and join live nodes.   *)

(* A type system has its fields, whatever the values of those that are not  *)
(* about the graph.                                                         *)
HasFields(sys) ==
  DOMAIN sys = {"NID", "Layouts", "Succ", "Pred", "Size", "NonScalar", "Info", "Class", "RemovedID"}

(* A tag has a kind and an offset expression, with a list of strides.       *)
IsTag(g) ==
  g = [Kind |-> g.Kind, OE |-> g.OE] /\ g.Kind \in LinkKinds /\ Len(g.OE.Strides) \in Nat

(* An edge that joins two of a set of nodes.                                *)
Joins(e, nodes) ==
  /\ e = Edge(e.src, e.tgt, e.tag)
  /\ e.src \in nodes /\ e.tgt \in nodes /\ e.src # e.tgt
  /\ IsTag(e.tag)

(* The nodes alive are among the IDs given, and the edges, the same in both *)
(* copies, join them.                                                       *)
WellFormed(sys) ==
  /\ HasFields(sys)
  /\ sys.NID \in Nat
  /\ \A n \in sys.Layouts : n \in Nat /\ n < sys.NID
  /\ sys.Succ = sys.Pred
  /\ \A e \in sys.Succ : Joins(e, sys.Layouts)

(* A method that changes neither the nodes nor the edges.                   *)
SameGraph(new, sys) ==
  /\ HasFields(new)
  /\ new.NID = sys.NID /\ new.Layouts = sys.Layouts
  /\ new.Succ = sys.Succ /\ new.Pred = sys.Pred

LEMMA EdgeFields ==
  ASSUME NEW s, NEW t, NEW g
  PROVE  /\ Edge(s, t, g).src = s /\ Edge(s, t, g).tgt = t /\ Edge(s, t, g).tag = g
BY DEF Edge

LEMMA TagFields ==
  /\ \A oe : IsTag(InstanceTag(oe)) <=> Len(oe.Strides) \in Nat
  /\ IsTag(EqualityTag) /\ IsTag(PointerTag)
  /\ \A offset : Len(AtOffset(offset).Strides) \in Nat
BY DEF IsTag, LinkKinds, InstanceTag, EqualityTag, PointerTag, AtOffset, OffsetExpression

LEMMA SameGraphIsWellFormed ==
  ASSUME NEW sys, WellFormed(sys), NEW new, SameGraph(new, sys)
  PROVE  WellFormed(new)
BY DEF WellFormed, SameGraph

LEMMA SetFields ==
  ASSUME NEW sys, HasFields(sys), NEW n, NEW x
  PROVE  /\ SameGraph([sys EXCEPT !.Size[n] = x], sys)
         /\ SameGraph([sys EXCEPT !.NonScalar[n] = x], sys)
         /\ SameGraph([sys EXCEPT !.Info[n] = x], sys)
         /\ SameGraph([sys EXCEPT !.Size = x], sys)
BY DEF HasFields, SameGraph

LEMMA CreateFields ==
  ASSUME NEW sys, WellFormed(sys)
  PROVE  LET new == createArtificialLayoutType(sys) IN
         /\ WellFormed(new)
         /\ new.NID = sys.NID + 1
         /\ \A n : n \in new.Layouts <=> n \in sys.Layouts \/ n = sys.NID
         /\ new.Succ = sys.Succ
         /\ sys.NID \in Nat /\ sys.NID \notin sys.Layouts
<1> DEFINE new == createArtificialLayoutType(sys)
<1>1. /\ HasFields(new) /\ new.NID = sys.NID + 1 /\ new.Layouts = sys.Layouts \cup {sys.NID}
      /\ new.Succ = sys.Succ /\ new.Pred = sys.Pred
  BY DEF createArtificialLayoutType, WellFormed, HasFields
<1>2. sys.NID \in Nat /\ sys.NID \notin sys.Layouts
  BY DEF WellFormed
<1> HIDE DEF new
<1>3. WellFormed(new)
  BY <1>1, <1>2 DEF WellFormed, Joins
<1> QED  BY <1>1, <1>2, <1>3 DEF new

LEMMA WithEdgesFields ==
  ASSUME NEW sys, WellFormed(sys), NEW E, \A e \in E : Joins(e, sys.Layouts)
  PROVE  LET new == withEdges(sys, E) IN
         /\ WellFormed(new)
         /\ new.NID = sys.NID /\ new.Layouts = sys.Layouts
         /\ \A e : e \in new.Succ <=> e \in sys.Succ \/ e \in E
<1> DEFINE new == withEdges(sys, E)
<1>1. /\ HasFields(new) /\ new.NID = sys.NID /\ new.Layouts = sys.Layouts
      /\ new.Succ = sys.Succ \cup E /\ new.Pred = sys.Pred \cup E
  BY DEF withEdges, WellFormed, HasFields
<1> HIDE DEF new
<1>2. WellFormed(new)
  BY <1>1 DEF WellFormed
<1> QED  BY <1>1, <1>2 DEF new

LEMMA WithoutEdgesFields ==
  ASSUME NEW sys, WellFormed(sys), NEW E
  PROVE  LET new == withoutEdges(sys, E) IN
         /\ WellFormed(new)
         /\ new.NID = sys.NID /\ new.Layouts = sys.Layouts
         /\ \A e : e \in new.Succ <=> e \in sys.Succ /\ e \notin E
<1> DEFINE new == withoutEdges(sys, E)
<1>1. /\ HasFields(new) /\ new.NID = sys.NID /\ new.Layouts = sys.Layouts
      /\ new.Succ = sys.Succ \ E /\ new.Pred = sys.Pred \ E
  BY DEF withoutEdges, WellFormed, HasFields
<1> HIDE DEF new
<1>2. WellFormed(new)
  BY <1>1 DEF WellFormed
<1> QED  BY <1>1, <1>2 DEF new

LEMMA AddLinkFields ==
  ASSUME NEW sys, WellFormed(sys), NoNode \notin Nat,
         NEW s \in sys.Layouts, NEW t \in sys.Layouts, NEW g, IsTag(g)
  PROVE  LET new == addLink(sys, s, t, g) IN
         /\ WellFormed(new)
         /\ new.NID = sys.NID /\ new.Layouts = sys.Layouts
         /\ \A e : e \in new.Succ <=> e \in sys.Succ \/ (s # t /\ e = Edge(s, t, g))
<1>1. s # NoNode /\ t # NoNode
  BY DEF WellFormed
<1>2. CASE s = t
  BY <1>2 DEF addLink
<1>3. CASE s # t
  <2>1. Joins(Edge(s, t, g), sys.Layouts)
    BY <1>3, EdgeFields DEF Joins
  <2>2. addLink(sys, s, t, g) = withEdges(sys, {Edge(s, t, g)})
    BY <1>1, <1>3 DEF addLink, withEdges, WellFormed, HasFields
  <2> QED  BY <1>3, <2>1, <2>2, WithEdgesFields
<1> QED  BY <1>2, <1>3

LEMMA AddInstanceLinkFields ==
  ASSUME NEW sys, WellFormed(sys), NoNode \notin Nat,
         NEW s \in sys.Layouts, NEW t \in sys.Layouts, NEW oe, Len(oe.Strides) \in Nat
  PROVE  LET new == addInstanceLink(sys, s, t, oe) IN
         /\ WellFormed(new)
         /\ new.NID = sys.NID /\ new.Layouts = sys.Layouts
         /\ \A e \in sys.Succ : e \in new.Succ
         /\ \A e \in new.Succ : e \in sys.Succ \/ e = Edge(s, t, InstanceTag(oe))
<1> DEFINE linked == addLink(sys, s, t, InstanceTag(oe))
<1>1. /\ WellFormed(linked) /\ linked.NID = sys.NID /\ linked.Layouts = sys.Layouts
      /\ \A e : e \in linked.Succ <=> e \in sys.Succ \/ (s # t /\ e = Edge(s, t, InstanceTag(oe)))
  BY AddLinkFields, TagFields
<1>2. addInstanceLink(sys, s, t, oe) \in {linked, sys}
  BY DEF addInstanceLink
<1> HIDE DEF linked
<1> QED  BY <1>1, <1>2

LEMMA AddEqualityLinkFields ==
  ASSUME NEW sys, WellFormed(sys), NoNode \notin Nat,
         NEW s \in sys.Layouts, NEW t \in sys.Layouts
  PROVE  LET new == addEqualityLink(sys, s, t) IN
         /\ WellFormed(new)
         /\ new.NID = sys.NID /\ new.Layouts = sys.Layouts
         /\ \A e : e \in new.Succ <=>
              \/ e \in sys.Succ
              \/ s # t /\ e \in {Edge(s, t, EqualityTag), Edge(t, s, EqualityTag)}
<1> DEFINE first == addLink(sys, s, t, EqualityTag)
<1>1. /\ WellFormed(first) /\ first.NID = sys.NID /\ first.Layouts = sys.Layouts
      /\ \A e : e \in first.Succ <=> e \in sys.Succ \/ (s # t /\ e = Edge(s, t, EqualityTag))
  BY AddLinkFields, TagFields
<1> HIDE DEF first
<1>2. addEqualityLink(sys, s, t) = addLink(first, t, s, EqualityTag)
  BY DEF addEqualityLink, first
<1> DEFINE both == addLink(first, t, s, EqualityTag)
<1>3. /\ WellFormed(both) /\ both.NID = first.NID /\ both.Layouts = first.Layouts
      /\ \A e : e \in both.Succ <=> e \in first.Succ \/ (t # s /\ e = Edge(t, s, EqualityTag))
  BY <1>1, AddLinkFields, TagFields
<1> HIDE DEF both
<1> QED  BY <1>1, <1>2, <1>3 DEF both

------------------------------------------------------------------------------
(* The edges of a graph where from has been identified with into.           *)
renamed(n, into, from) == IF n = from THEN into ELSE n
renamedEdge(e, into, from) ==
  Edge(renamed(e.src, into, from), renamed(e.tgt, into, from), e.tag)
quotient(edges, into, from) ==
  {q \in {renamedEdge(e, into, from) : e \in edges} : q.src # q.tgt}

(* fixPredSucc walks the neighbours of From and updates each of the two     *)
(* copies of their edges on its own: the two end up equal.                  *)
LEMMA FixPredSuccFields ==
  ASSUME NEW sys, WellFormed(sys), NEW into \in sys.Layouts, NEW from \in sys.Layouts, into # from
  PROVE  LET new == fixPredSucc(sys, from, into) IN
         /\ HasFields(new) /\ new.NID = sys.NID /\ new.Layouts = sys.Layouts
         /\ new.Succ = quotient(sys.Succ, into, from)
         /\ new.Pred = quotient(sys.Succ, into, from)
<1> DEFINE E == sys.Succ
           Q == quotient(E, into, from)
           toInto(e) == [e EXCEPT !.tgt = into]
           fromInto(e) == [e EXCEPT !.src = into]
<1>1. \A e \in E : /\ Joins(e, sys.Layouts)
                   /\ toInto(e) = Edge(e.src, into, e.tag)
                   /\ fromInto(e) = Edge(into, e.tgt, e.tag)
  BY DEF WellFormed, Joins, Edge
<1>2. \A e \in E : e.src # e.tgt
  BY <1>1 DEF Joins
<1>3. sys.Pred = E
  BY DEF WellFormed
<1> DEFINE Untouched == {e \in E : e.src # from /\ e.tgt # from}
           Incoming == {toInto(e) : e \in {d \in E : d.tgt = from /\ d.src # into}}
           Outgoing == {fromInto(e) : e \in {d \in E : d.src = from /\ d.tgt # into}}
           NewEdges == Untouched \cup Incoming \cup Outgoing
<1>4. \A e \in E : /\ toInto(e).src = e.src /\ toInto(e).tgt = into
                   /\ fromInto(e).src = into /\ fromInto(e).tgt = e.tgt
  BY <1>1, EdgeFields
<1>5. \A e \in E : renamedEdge(e, into, from) =
        IF e.src = from THEN fromInto(e) ELSE IF e.tgt = from THEN toInto(e) ELSE e
  BY <1>1, <1>2 DEF renamedEdge, renamed, Joins
<1> HIDE DEF toInto, fromInto
<1>6. Q = NewEdges
  <2>1. ASSUME NEW q \in Q PROVE q \in NewEdges
    <3>1. PICK e \in E : q = renamedEdge(e, into, from) /\ q.src # q.tgt
      BY DEF quotient
    <3> QED  BY <3>1, <1>2, <1>4, <1>5
  <2>2. ASSUME NEW q \in NewEdges PROVE q \in Q
    <3>1. CASE q \in Untouched
      BY <3>1, <1>2, <1>5 DEF quotient
    <3>2. CASE q \in Incoming
      BY <3>2, <1>2, <1>4, <1>5 DEF quotient
    <3>3. CASE q \in Outgoing
      BY <3>3, <1>2, <1>4, <1>5 DEF quotient
    <3> QED  BY <3>1, <3>2, <3>3
  <2> QED  BY <2>1, <2>2
<1> DEFINE succs == redirectedSuccs(sys, from, into)
           allSuccs == succs \cup {fromInto(e) : e \in {d \in succs : d.src = from}}
           newSuccs == {e \in allSuccs : e.src # from /\ ~(e.src = into /\ e.tgt \in {from, into})}
<1>7. succs = {IF e.tgt = from THEN toInto(e) ELSE e : e \in E}
  BY <1>3 DEF redirectedSuccs, toInto
<1>8. newSuccs = NewEdges
  <2> HIDE DEF succs
  <2>1. ASSUME NEW q \in newSuccs PROVE q \in NewEdges
    <3>1. CASE q \in succs
      BY <3>1, <1>2, <1>4, <1>7
    <3>2. CASE q \notin succs
      <4>1. PICK d \in succs : d.src = from /\ q = fromInto(d)
        BY <3>2
      <4>2. PICK e \in E : d = IF e.tgt = from THEN toInto(e) ELSE e
        BY <4>1, <1>7
      <4>3. e.src = from /\ q = fromInto(e)
        BY <4>1, <4>2, <1>2, <1>4
      <4> QED  BY <4>3, <1>4
    <3> QED  BY <3>1, <3>2
  <2>2. ASSUME NEW q \in NewEdges PROVE q \in newSuccs
    <3>1. CASE q \in Untouched
      BY <3>1, <1>2, <1>7
    <3>2. CASE q \in Incoming
      BY <3>2, <1>2, <1>4, <1>7
    <3>3. CASE q \in Outgoing
      <4>1. PICK e \in E : e.src = from /\ e.tgt # into /\ q = fromInto(e)
        BY <3>3
      <4>2. e \in succs
        BY <4>1, <1>2, <1>7
      <4> QED  BY <4>1, <4>2, <1>2, <1>4
    <3> QED  BY <3>1, <3>2, <3>3
  <2> QED  BY <2>1, <2>2
<1> DEFINE preds == redirectedPreds(sys, from, into)
           allPreds == preds \cup {toInto(e) : e \in {d \in preds : d.tgt = from}}
           newPreds == {e \in allPreds : e.tgt # from /\ ~(e.tgt = into /\ e.src \in {from, into})}
<1>9. preds = {IF e.src = from THEN fromInto(e) ELSE e : e \in E}
  BY <1>3 DEF redirectedPreds, fromInto
<1>10. newPreds = NewEdges
  <2> HIDE DEF preds
  <2>1. ASSUME NEW q \in newPreds PROVE q \in NewEdges
    <3>1. CASE q \in preds
      BY <3>1, <1>2, <1>4, <1>9
    <3>2. CASE q \notin preds
      <4>1. PICK d \in preds : d.tgt = from /\ q = toInto(d)
        BY <3>2
      <4>2. PICK e \in E : d = IF e.src = from THEN fromInto(e) ELSE e
        BY <4>1, <1>9
      <4>3. e.tgt = from /\ q = toInto(e)
        BY <4>1, <4>2, <1>2, <1>4
      <4> QED  BY <4>3, <1>4
    <3> QED  BY <3>1, <3>2
  <2>2. ASSUME NEW q \in NewEdges PROVE q \in newPreds
    <3>1. CASE q \in Untouched
      BY <3>1, <1>2, <1>9
    <3>2. CASE q \in Outgoing
      BY <3>2, <1>2, <1>4, <1>9
    <3>3. CASE q \in Incoming
      <4>1. PICK e \in E : e.tgt = from /\ e.src # into /\ q = toInto(e)
        BY <3>3
      <4>2. e \in preds
        BY <4>1, <1>2, <1>9
      <4> QED  BY <4>1, <4>2, <1>2, <1>4
    <3> QED  BY <3>1, <3>2, <3>3
  <2> QED  BY <2>1, <2>2
<1>11. fixPredSucc(sys, from, into) = [sys EXCEPT !.Pred = newPreds, !.Succ = newSuccs]
  BY DEF fixPredSucc, toInto, fromInto
<1>12. newPreds = Q /\ newSuccs = Q
  BY <1>6, <1>8, <1>10
<1> HIDE DEF newPreds, newSuccs, Q
<1>13. fixPredSucc(sys, from, into) = [sys EXCEPT !.Pred = Q, !.Succ = Q]
  BY <1>11, <1>12
<1> QED  BY <1>13 DEF WellFormed, HasFields, Q

LEMMA QuotientEdges ==
  ASSUME NEW edges, NEW into, NEW from
  PROVE  /\ \A q \in quotient(edges, into, from) : q.src # q.tgt /\
              \E e \in edges : /\ q.src = renamed(e.src, into, from)
                              /\ q.tgt = renamed(e.tgt, into, from)
                              /\ q.tag = e.tag
         /\ \A e \in edges : renamed(e.src, into, from) # renamed(e.tgt, into, from) =>
              \E q \in quotient(edges, into, from) :
                /\ q.src = renamed(e.src, into, from)
                /\ q.tgt = renamed(e.tgt, into, from)
                /\ q.tag = e.tag
<1>1. \A e : /\ renamedEdge(e, into, from).src = renamed(e.src, into, from)
             /\ renamedEdge(e, into, from).tgt = renamed(e.tgt, into, from)
             /\ renamedEdge(e, into, from).tag = e.tag
  BY EdgeFields DEF renamedEdge
<1> QED  BY <1>1 DEF quotient

LEMMA QuotientJoins ==
  ASSUME NEW sys, WellFormed(sys), NEW into \in sys.Layouts, NEW from \in sys.Layouts, into # from
  PROVE  \A q \in quotient(sys.Succ, into, from) : Joins(q, sys.Layouts \ {from})
<1> SUFFICES ASSUME NEW q \in quotient(sys.Succ, into, from)
             PROVE  Joins(q, sys.Layouts \ {from})
  OBVIOUS
<1>1. PICK e \in sys.Succ : q = renamedEdge(e, into, from) /\ q.src # q.tgt
  BY DEF quotient
<1>2. Joins(e, sys.Layouts)
  BY DEF WellFormed
<1>3. /\ q.src = renamed(e.src, into, from) /\ q.tgt = renamed(e.tgt, into, from) /\ q.tag = e.tag
  BY <1>1, EdgeFields DEF renamedEdge
<1>4. q = Edge(q.src, q.tgt, q.tag)
  BY <1>1, <1>3 DEF renamedEdge
<1> QED  BY <1>1, <1>2, <1>3, <1>4 DEF Joins, renamed

LEMMA DestroyedFields ==
  ASSUME NEW sys, HasFields(sys), NEW n
  PROVE  LET new == destroyed(sys, n) IN
         /\ HasFields(new) /\ new.NID = sys.NID /\ new.Succ = sys.Succ /\ new.Pred = sys.Pred
         /\ \A m : m \in new.Layouts <=> m \in sys.Layouts /\ m # n
BY DEF destroyed, HasFields

LEMMA MergeNodeFields ==
  ASSUME NEW sys, WellFormed(sys), NEW into \in sys.Layouts, NEW from \in sys.Layouts, into # from
  PROVE  LET new == mergeNode(sys, into, from) IN
         /\ WellFormed(new)
         /\ new.NID = sys.NID
         /\ \A m : m \in new.Layouts <=> m \in sys.Layouts /\ m # from
         /\ new.Succ = quotient(sys.Succ, into, from)
<1> DEFINE Q == quotient(sys.Succ, into, from)
           f == fixPredSucc(sys, from, into)
           d == destroyed(f, from)
           new == mergeNode(sys, into, from)
<1>1. /\ HasFields(f) /\ f.NID = sys.NID /\ f.Layouts = sys.Layouts /\ f.Succ = Q /\ f.Pred = Q
  BY FixPredSuccFields
<1> HIDE DEF f
<1>2. /\ HasFields(d) /\ d.NID = sys.NID /\ d.Succ = Q /\ d.Pred = Q
      /\ \A m : m \in d.Layouts <=> m \in sys.Layouts /\ m # from
  BY <1>1, DestroyedFields
<1>3. new = [d EXCEPT !.Info[into] = "Unknown",
                      !.Size[into] = mergedSize(sys, into, from),
                      !.NonScalar[into] = @ \/ sys.NonScalar[from],
                      !.Class = joined(@, into, from)]
  BY DEF mergeNode, d, f
<1> HIDE DEF d, new
<1>4. /\ HasFields(new) /\ new.NID = d.NID /\ new.Layouts = d.Layouts
      /\ new.Succ = d.Succ /\ new.Pred = d.Pred
  BY <1>2, <1>3 DEF HasFields
<1>5. \A e \in Q : Joins(e, sys.Layouts \ {from})
  BY QuotientJoins
<1>6. WellFormed(new)
  BY <1>2, <1>4, <1>5 DEF WellFormed
<1> QED  BY <1>2, <1>4, <1>6 DEF new

(* removeNode walks the neighbours of n: no copy of an edge of n is left.   *)
LEMMA RemoveNodeFields ==
  ASSUME NEW sys, WellFormed(sys), NEW n
  PROVE  LET new == removeNode(sys, n) IN
         /\ WellFormed(new)
         /\ new.NID = sys.NID
         /\ \A m : m \in new.Layouts <=> m \in sys.Layouts /\ m # n
         /\ \A e : e \in new.Succ <=> e \in sys.Succ /\ e.src # n /\ e.tgt # n
<1> DEFINE E == sys.Succ
           r == removeClass(sys, n)
           d == destroyed(r, n)
           new == removeNode(sys, n)
           left == {e \in E : n \notin {e.src, e.tgt}}
<1>1. sys.Pred = E /\ HasFields(sys)
  BY DEF WellFormed
<1>2. /\ HasFields(r) /\ r.NID = sys.NID /\ r.Layouts = sys.Layouts /\ r.Succ = E /\ r.Pred = E
  BY <1>1 DEF removeClass, HasFields
<1> HIDE DEF r
<1>3. /\ HasFields(d) /\ d.NID = sys.NID /\ d.Succ = E /\ d.Pred = E
      /\ \A m : m \in d.Layouts <=> m \in sys.Layouts /\ m # n
  BY <1>2, DestroyedFields
<1> HIDE DEF d
<1> DEFINE newPred == {e \in d.Pred : /\ ~(e.src = n /\ \E f \in E : f.src = n /\ f.tgt = e.tgt)
                                      /\ e.tgt # n}
           newSucc == {e \in d.Succ : /\ ~(e.tgt = n /\ \E p \in sys.Pred : p.tgt = n /\ p.src = e.src)
                                      /\ e.src # n}
<1>4. newPred = left /\ newSucc = left
  BY <1>1, <1>3
<1>5. new = [d EXCEPT !.Pred = newPred, !.Succ = newSucc]
  BY DEF removeNode, d, r
<1> HIDE DEF newPred, newSucc, new
<1>6. /\ HasFields(new) /\ new.NID = d.NID /\ new.Layouts = d.Layouts
      /\ new.Succ = left /\ new.Pred = left
  BY <1>3, <1>4, <1>5 DEF HasFields
<1>7. WellFormed(new)
  BY <1>3, <1>6 DEF WellFormed, Joins
<1> QED  BY <1>3, <1>6, <1>7 DEF new

------------------------------------------------------------------------------
(* A nonempty set of naturals has a least element: what the inductions over *)
(* data below rest on.                                                      *)
LEMMA LeastOf ==
  ASSUME NEW S \in SUBSET Nat, S # {}
  PROVE  \E x \in S : \A y \in S : x <= y
<1> DEFINE T == {0..n : n \in S}
<1>1. T \subseteq FiniteSubsetsOf(Nat) /\ T # {}
  <2>1. \A n \in S : IsFiniteSet(0..n)
    BY FS_Interval
  <2>2. \A n \in S : 0..n \in SUBSET Nat
    OBVIOUS
  <2> QED  BY <2>1, <2>2 DEF FiniteSubsetsOf
<1>2. \E x \in T : \A y \in T : ~(<<y, x>> \in StrictSubsetOrdering(Nat))
  <2> HIDE DEF T
  <2>1. IsWellFoundedOn(StrictSubsetOrdering(Nat), FiniteSubsetsOf(Nat))
    BY FS_StrictSubsetOrderingWellFounded
  <2> QED  BY <1>1, <2>1, WFMin
<1>3. PICK n \in S : \A m \in S : ~(<<0..m, 0..n>> \in StrictSubsetOrdering(Nat))
  BY <1>2
<1>4. ASSUME NEW m \in S, m < n PROVE FALSE
  <2>1. 0..m \in SUBSET Nat /\ 0..n \in SUBSET Nat
    OBVIOUS
  <2>2. 0..m \subseteq 0..n /\ n \in 0..n /\ n \notin 0..m
    BY <1>4
  <2> QED  BY <1>3, <2>1, <2>2 DEF StrictSubsetOrdering
<1> QED  BY <1>4

(* The edges lead out of no node of the set.                                *)
Closed(edges, S) == \A e \in edges : e.src \in S => e.tgt \in S

(* reachable finds the least set with n that the edges do not lead out of:  *)
(* it grows by one node at least each time until then.                      *)
LEMMA ReachableIsLeastClosed ==
  ASSUME NEW edges, NEW n, IsFiniteSet({e.tgt : e \in edges})
  PROVE  /\ n \in reachable(edges, n)
         /\ Closed(edges, reachable(edges, n))
         /\ \A S : n \in S /\ Closed(edges, S) => reachable(edges, n) \subseteq S
<1> DEFINE T == {e.tgt : e \in edges}
           U == {n} \cup T
           Linked(x, y) == \E e \in edges : e.src = x /\ e.tgt = y
           after(X) == X \cup {e.tgt : e \in {f \in edges : f.src \in X}}
           IsPath(p, k) == p[0] = n /\ \A i \in 0..(k - 1) : p[i + 1] = p[i] \/ Linked(p[i], p[i + 1])
           W == [k \in Nat |-> {m \in U : \E p \in [0..k -> U] : IsPath(p, k) /\ p[k] = m}]
<1>0. \A k \in Nat : \A m :
        m \in W[k] <=> m \in U /\ \E p \in [0..k -> U] : IsPath(p, k) /\ p[k] = m
  <2> HIDE DEF U, IsPath
  <2> QED  OBVIOUS
<1>1. W[0] = {n}
  <2>1. ASSUME NEW m \in W[0] PROVE m = n
    OBVIOUS
  <2>2. n \in W[0]
    <3> DEFINE p == [i \in 0..0 |-> n]
    <3>1. p \in [0..0 -> U] /\ IsPath(p, 0) /\ p[0] = n
      OBVIOUS
    <3> QED  BY <3>1
  <2> QED  BY <2>1, <2>2
<1> HIDE DEF W
<1>2. ASSUME NEW k \in Nat PROVE W[k + 1] = after(W[k])
  <2>0. k + 1 \in Nat
    OBVIOUS
  <2>1. ASSUME NEW m \in W[k + 1] PROVE m \in after(W[k])
    <3>1. PICK p \in [0..(k + 1) -> U] : IsPath(p, k + 1) /\ p[k + 1] = m
      <4> HIDE DEF U, IsPath
      <4> QED  BY <1>0, <2>0
    <3> DEFINE q == [i \in 0..k |-> p[i]]
    <3>2. p[k] \in U /\ q \in [0..k -> U] /\ \A i \in 0..k : q[i] = p[i]
      <4> HIDE DEF U, IsPath
      <4> QED  BY <3>1
    <3> HIDE DEF q
    <3>3. IsPath(q, k)
      <4>1. ASSUME NEW i \in 0..(k - 1) PROVE q[i + 1] = q[i] \/ Linked(q[i], q[i + 1])
        <5>1. i \in 0..k /\ i + 1 \in 0..k /\ i \in 0..((k + 1) - 1)
          OBVIOUS
        <5>2. p[i + 1] = p[i] \/ Linked(p[i], p[i + 1])
          BY <3>1, <5>1
        <5> QED  BY <3>2, <5>1, <5>2
      <4> QED  BY <3>1, <3>2, <4>1
    <3>4. p[k] \in W[k]
      <4> HIDE DEF U, IsPath
      <4> QED  BY <3>2, <3>3, <1>0
    <3>5. m = p[k] \/ Linked(p[k], m)
      BY <3>1
    <3> QED  BY <3>4, <3>5
  <2>2. ASSUME NEW m \in after(W[k]) PROVE m \in W[k + 1]
    <3>1. PICK x \in W[k] : m = x \/ Linked(x, m)
      OBVIOUS
    <3>2. PICK p \in [0..k -> U] : IsPath(p, k) /\ p[k] = x
      <4> HIDE DEF U, IsPath
      <4> QED  BY <1>0
    <3> DEFINE q == [i \in 0..(k + 1) |-> IF i = k + 1 THEN m ELSE p[i]]
    <3>3. m \in U
      <4> HIDE DEF IsPath
      <4> QED  BY <3>1, <1>0
    <3>4. q \in [0..(k + 1) -> U]
      BY <3>3
    <3>5. q[k + 1] = m /\ \A i \in 0..k : q[i] = p[i]
      OBVIOUS
    <3> HIDE DEF q
    <3>6. IsPath(q, k + 1)
      <4>1. ASSUME NEW i \in 0..((k + 1) - 1) PROVE q[i + 1] = q[i] \/ Linked(q[i], q[i + 1])
        <5>1. CASE i = k
          BY <5>1, <3>1, <3>2, <3>5
        <5>2. CASE i # k
          BY <5>2, <3>2, <3>5
        <5> QED  BY <5>1, <5>2
      <4>2. q[0] = n
        BY <3>2, <3>5
      <4> QED  BY <4>1, <4>2
    <3> HIDE DEF U, IsPath
    <3> QED  BY <1>0, <2>0, <3>3, <3>4, <3>5, <3>6
  <2> QED  BY <2>1, <2>2
<1> DEFINE Body(g) == [k \in Nat |-> IF k = 0 THEN {n} ELSE after(g[k - 1])]
           grow == CHOOSE g : g = Body(g)
<1>3. W = Body(W)
  <2> HIDE DEF after
  <2>1. \A k \in Nat : W[k] = IF k = 0 THEN {n} ELSE after(W[k - 1])
    <3>1. \A k \in Nat : k # 0 => k - 1 \in Nat /\ (k - 1) + 1 = k
      OBVIOUS
    <3> QED  BY <3>1, <1>1, <1>2
  <2>2. W = [k \in Nat |-> W[k]]
    BY DEF W
  <2> QED  BY <2>1, <2>2
<1>4. grow = Body(grow)
  <2> HIDE DEF W, Body
  <2> QED  BY <1>3
<1>5. grow[0] = {n} /\ \A k \in Nat : grow[k + 1] = after(grow[k])
  <2> HIDE DEF grow, after
  <2>1. \A k \in Nat : grow[k] = IF k = 0 THEN {n} ELSE after(grow[k - 1])
    BY <1>4
  <2>2. \A k \in Nat : k + 1 \in Nat /\ k + 1 # 0 /\ (k + 1) - 1 = k
    OBVIOUS
  <2> QED  BY <2>1, <2>2
<1>6. reachable(edges, n) = grow[Cardinality(T)]
  BY DEF reachable
<1> HIDE DEF grow
<1>7. ASSUME NEW S, n \in S, Closed(edges, S)
      PROVE  \A k \in Nat : n \in grow[k] /\ grow[k] \subseteq S
  <2> DEFINE bad == {k \in Nat : ~(n \in grow[k] /\ grow[k] \subseteq S)}
  <2> SUFFICES ASSUME bad # {} PROVE FALSE
    OBVIOUS
  <2>1. PICK k \in bad : \A j \in bad : k <= j
    BY LeastOf
  <2>2. k # 0
    BY <1>5, <1>7
  <2>3. k - 1 \in Nat /\ k - 1 \notin bad
    BY <2>1, <2>2
  <2>4. grow[k] = after(grow[k - 1])
    BY <1>5, <2>1, <2>3
  <2> QED  BY <1>7, <2>1, <2>3, <2>4 DEF Closed
<1>8. \A k \in Nat : n \in grow[k] /\ grow[k] \subseteq U
  BY <1>7 DEF Closed
<1>9. IsFiniteSet(T) /\ Cardinality(T) \in Nat
  BY FS_CardinalityType
<1>10. \A k \in Nat : /\ grow[k] \ {n} \subseteq T /\ IsFiniteSet(grow[k] \ {n})
                      /\ Cardinality(grow[k] \ {n}) \in Nat
  BY <1>8, <1>9, FS_Subset, FS_CardinalityType
<1>11. \A k \in Nat : after(grow[k]) = grow[k] \/ Cardinality(grow[k] \ {n}) >= k
  <2> DEFINE bad == {k \in Nat : ~(after(grow[k]) = grow[k] \/ Cardinality(grow[k] \ {n}) >= k)}
  <2> SUFFICES ASSUME bad # {} PROVE FALSE
    OBVIOUS
  <2> HIDE DEF after
  <2>1. PICK k \in bad : \A j \in bad : k <= j
    BY LeastOf
  <2>2. k # 0
    BY <1>10, <2>1
  <2>3. k - 1 \in Nat /\ k - 1 \notin bad
    BY <2>1, <2>2
  <2> DEFINE X == grow[k - 1] \ {n}
             Y == grow[k] \ {n}
  <2>4. grow[k] = after(grow[k - 1])
    BY <1>5, <2>1, <2>3
  <2>5. after(grow[k - 1]) # grow[k - 1]
    BY <2>1, <2>4
  <2>6. Cardinality(X) >= k - 1
    BY <2>3, <2>5
  <2>7. X \subseteq Y /\ X # Y
    BY <1>8, <2>3, <2>4, <2>5 DEF after
  <2>8. /\ IsFiniteSet(Y) /\ Cardinality(X) \in Nat /\ Cardinality(Y) \in Nat
    BY <1>10, <2>1, <2>3
  <2>9. Cardinality(X) < Cardinality(Y)
    <3> HIDE DEF X, Y
    <3> QED  BY <2>7, <2>8, FS_Subset
  <2> QED  BY <2>1, <2>6, <2>8, <2>9
<1>12. Closed(edges, grow[Cardinality(T)])
  <2> DEFINE K == Cardinality(T)
  <2>1. CASE after(grow[K]) = grow[K]
    BY <2>1 DEF Closed
  <2>2. CASE Cardinality(grow[K] \ {n}) >= K
    <3>1. grow[K] \ {n} = T
      <4> DEFINE X == grow[K] \ {n}
      <4>1. /\ X \subseteq T /\ IsFiniteSet(T) /\ Cardinality(T) \in Nat
            /\ Cardinality(X) \in Nat /\ Cardinality(X) >= Cardinality(T)
        BY <2>2, <1>9, <1>10
      <4> HIDE DEF X, T
      <4>2. X = T
        BY <4>1, FS_Subset
      <4> QED  BY <4>2 DEF X
    <3> QED  BY <3>1 DEF Closed
  <2> QED  BY <1>9, <1>11, <2>1, <2>2
<1> QED  BY <1>6, <1>7, <1>8, <1>9, <1>12

------------------------------------------------------------------------------
LEMMA NullIsNoID == NoNode \notin Nat /\ NoNode \notin Values
BY FrontendAssumption

(* Equality is symmetric: each of its edges has one the other way.          *)
LinksBothWays(edges) ==
  \A e \in edges : IsEqualityEdge(e) =>
    \E f \in edges : IsEqualityEdge(f) /\ f.src = e.tgt /\ f.tgt = e.src

LEMMA OtherLinksKeepSymmetry ==
  ASSUME NEW edges, LinksBothWays(edges), NEW more,
         \A e \in edges : IsEqualityEdge(e) => e \in more,
         \A e \in more : e \in edges \/ ~IsEqualityEdge(e)
  PROVE  LinksBothWays(more)
BY DEF LinksBothWays

LEMMA TagsTellKinds ==
  /\ \A s, t, oe : ~IsEqualityEdge(Edge(s, t, InstanceTag(oe)))
  /\ \A s, t : ~IsEqualityEdge(Edge(s, t, PointerTag))
  /\ \A s, t : IsEqualityEdge(Edge(s, t, EqualityTag))
BY DEF IsEqualityEdge, Edge, InstanceTag, PointerTag, EqualityTag

(* A graph under construction: each value has no node, or one that is alive.*)
IsBuilder(b) ==
  /\ b = [sys |-> b.sys, map |-> b.map]
  /\ WellFormed(b.sys)
  /\ LinksBothWays(b.sys.Succ)
  /\ b.map \in [Values -> b.sys.Layouts \cup {NoNode}]

HasNode(b, v) == v \in Values /\ b.map[v] \in b.sys.Layouts

LEMMA GetOrCreateFields ==
  ASSUME NEW b, IsBuilder(b), NEW v \in Values
  PROVE  LET new == getOrCreateLayoutType(b, v) IN
         /\ IsBuilder(new) /\ HasNode(new, v)
         /\ \A w : HasNode(b, w) => HasNode(new, w)
         /\ new.sys.Succ = b.sys.Succ
         /\ \A m \in b.sys.Layouts : m \in new.sys.Layouts
<1> DEFINE new == getOrCreateLayoutType(b, v)
           created == createArtificialLayoutType(b.sys)
<1>1. v # NoNode
  BY NullIsNoID
<1>2. CASE b.map[v] # NoNode
  BY <1>1, <1>2 DEF getOrCreateLayoutType, IsBuilder, HasNode
<1>3. CASE b.map[v] = NoNode
  <2>1. new = [sys |-> created, map |-> [b.map EXCEPT ![v] = b.sys.NID]]
    BY <1>1, <1>3 DEF getOrCreateLayoutType
  <2>2. /\ WellFormed(created)
        /\ \A m : m \in created.Layouts <=> m \in b.sys.Layouts \/ m = b.sys.NID
        /\ created.Succ = b.sys.Succ
    BY CreateFields DEF IsBuilder
  <2> HIDE DEF created
  <2> QED  BY <2>1, <2>2 DEF IsBuilder, HasNode
<1> QED  BY <1>2, <1>3

LEMMA SetSysIsBuilder ==
  ASSUME NEW b, IsBuilder(b), NEW sys, WellFormed(sys), LinksBothWays(sys.Succ),
         \A m \in b.sys.Layouts : m \in sys.Layouts
  PROVE  /\ IsBuilder([b EXCEPT !.sys = sys])
         /\ [b EXCEPT !.sys = sys].sys = sys /\ [b EXCEPT !.sys = sys].map = b.map
BY DEF IsBuilder

LEMMA PlaceholderFields ==
  ASSUME NEW sys, WellFormed(sys), NEW n \in sys.Layouts
  PROVE  LET new == addPlaceholder(sys, n) IN
         /\ WellFormed(new) /\ \A m \in sys.Layouts : m \in new.Layouts
         /\ \A e : e \in new.Succ <=> e \in sys.Succ \/ e = Edge(sys.NID, n, PointerTag)
<1> DEFINE created == createArtificialLayoutType(sys)
           sized == [created EXCEPT !.Size[sys.NID] = PointerSize]
<1>1. /\ WellFormed(created) /\ created.Succ = sys.Succ /\ sys.NID \notin sys.Layouts
      /\ \A m : m \in created.Layouts <=> m \in sys.Layouts \/ m = sys.NID
  BY CreateFields
<1> HIDE DEF created
<1>2. SameGraph(sized, created)
  BY <1>1, SetFields DEF WellFormed
<1>3. WellFormed(sized)
  BY <1>1, <1>2, SameGraphIsWellFormed
<1> HIDE DEF sized
<1>4. /\ sys.NID \in sized.Layouts /\ n \in sized.Layouts /\ sys.NID # n
      /\ \A m \in sys.Layouts : m \in sized.Layouts
      /\ sized.Succ = sys.Succ
  BY <1>1, <1>2 DEF SameGraph
<1>5. addPlaceholder(sys, n) = addLink(sized, sys.NID, n, PointerTag)
  BY DEF addPlaceholder, addPointerLink, created, sized
<1> DEFINE linked == addLink(sized, sys.NID, n, PointerTag)
<1>6. /\ WellFormed(linked) /\ linked.Layouts = sized.Layouts
      /\ \A e : e \in linked.Succ <=>
           e \in sized.Succ \/ (sys.NID # n /\ e = Edge(sys.NID, n, PointerTag))
  BY <1>3, <1>4, AddLinkFields, TagFields, NullIsNoID
<1> QED  BY <1>4, <1>5, <1>6

LEMMA TypedArgumentFields ==
  ASSUME NEW b, IsBuilder(b), NEW i, HasNode(b, i.val)
  PROVE  LET new == typedArgument(b, i) IN IsBuilder(new) /\ new.sys.Succ = b.sys.Succ
<1> DEFINE n == b.map[i.val]
           scalar == [b.sys EXCEPT !.NonScalar[n] = b.sys.NonScalar[n] \/ i.NonScalar]
           sized == [scalar EXCEPT !.Size[n] = i.Size]
<1>1. HasFields(b.sys)
  BY DEF IsBuilder, WellFormed
<1>2. SameGraph(scalar, b.sys)
  BY <1>1, SetFields
<1>3. typedArgument(b, i) = [b EXCEPT !.sys = sized]
  BY DEF typedArgument, IsBuilder
<1> HIDE DEF scalar
<1>4. SameGraph(sized, scalar)
  BY <1>2, SetFields DEF SameGraph
<1>5. WellFormed(sized) /\ sized.Layouts = b.sys.Layouts /\ sized.Succ = b.sys.Succ
  BY <1>2, <1>4, SameGraphIsWellFormed DEF IsBuilder, SameGraph
<1> QED  BY <1>3, <1>5, SetSysIsBuilder DEF IsBuilder

LEMMA InstanceIsBuilder ==
  ASSUME NEW b, IsBuilder(b), NEW v, NEW w, HasNode(b, v), HasNode(b, w),
         NEW oe, Len(oe.Strides) \in Nat
  PROVE  LET new == [b EXCEPT !.sys = addInstanceLink(b.sys, b.map[v], b.map[w], oe)] IN
         IsBuilder(new) /\ new.map = b.map
<1> DEFINE sys == addInstanceLink(b.sys, b.map[v], b.map[w], oe)
<1>1. /\ WellFormed(sys) /\ sys.Layouts = b.sys.Layouts
      /\ \A e \in b.sys.Succ : e \in sys.Succ
      /\ \A e \in sys.Succ : e \in b.sys.Succ \/ e = Edge(b.map[v], b.map[w], InstanceTag(oe))
  BY AddInstanceLinkFields, NullIsNoID DEF IsBuilder, HasNode
<1> HIDE DEF sys
<1>2. LinksBothWays(sys.Succ)
  BY <1>1, OtherLinksKeepSymmetry, TagsTellKinds DEF IsBuilder
<1>3. IsBuilder([b EXCEPT !.sys = sys]) /\ [b EXCEPT !.sys = sys].map = b.map
  BY <1>1, <1>2, SetSysIsBuilder, Zenon
<1> QED  BY <1>3 DEF sys

LEMMA PlaceholderIsBuilder ==
  ASSUME NEW b, IsBuilder(b), NEW v, HasNode(b, v)
  PROVE  IsBuilder([b EXCEPT !.sys = addPlaceholder(b.sys, b.map[v])])
<1> DEFINE sys == addPlaceholder(b.sys, b.map[v])
<1>1. /\ WellFormed(sys) /\ \A m \in b.sys.Layouts : m \in sys.Layouts
      /\ \A e : e \in sys.Succ <=> e \in b.sys.Succ \/ e = Edge(b.sys.NID, b.map[v], PointerTag)
  BY PlaceholderFields DEF IsBuilder, HasNode
<1> HIDE DEF sys
<1>2. LinksBothWays(sys.Succ)
  BY <1>1, OtherLinksKeepSymmetry, TagsTellKinds DEF IsBuilder
<1>3. IsBuilder([b EXCEPT !.sys = sys]) /\ [b EXCEPT !.sys = sys].map = b.map
  BY <1>1, <1>2, SetSysIsBuilder, Zenon
<1> QED  BY <1>3 DEF sys

LEMMA SameLayoutIsBuilder ==
  ASSUME NEW b, IsBuilder(b), NEW i, HasNode(b, i.val), HasNode(b, i.other)
  PROVE  IsBuilder(sameLayout(b, i))
<1> DEFINE s == b.map[i.val]
           t == b.map[i.other]
           sys == addEqualityLink(b.sys, s, t)
<1>1. /\ WellFormed(sys) /\ sys.Layouts = b.sys.Layouts
      /\ \A e : e \in sys.Succ <=>
           \/ e \in b.sys.Succ
           \/ s # t /\ e \in {Edge(s, t, EqualityTag), Edge(t, s, EqualityTag)}
  BY AddEqualityLinkFields, NullIsNoID DEF IsBuilder, HasNode
<1>2. sameLayout(b, i) = [b EXCEPT !.sys = sys]
  BY DEF sameLayout, IsBuilder
<1> HIDE DEF sys, s, t
<1>3. LinksBothWays(sys.Succ)
  <2> SUFFICES ASSUME NEW e \in sys.Succ, IsEqualityEdge(e)
               PROVE  \E f \in sys.Succ : IsEqualityEdge(f) /\ f.src = e.tgt /\ f.tgt = e.src
    BY DEF LinksBothWays
  <2>1. CASE e \in b.sys.Succ
    BY <2>1, <1>1 DEF IsBuilder, LinksBothWays
  <2>2. CASE s # t /\ e = Edge(s, t, EqualityTag)
    BY <2>2, <1>1, EdgeFields, TagsTellKinds
  <2>3. CASE s # t /\ e = Edge(t, s, EqualityTag)
    BY <2>3, <1>1, EdgeFields, TagsTellKinds
  <2> QED  BY <1>1, <2>1, <2>2, <2>3
<1> QED  BY <1>1, <1>2, <1>3, SetSysIsBuilder

LEMMA PassedValueIsBuilder ==
  ASSUME NEW b, IsBuilder(b), NEW i, HasNode(b, i.val), HasNode(b, i.other)
  PROVE  IsBuilder(passedValue(b, i)) /\ IsBuilder(incomingValue(b, i))
<1> DEFINE linked == incomingValue(b, i)
<1>1. linked = [b EXCEPT !.sys = addInstanceLink(b.sys, b.map[i.val], b.map[i.other], AtOffset(0))]
  BY DEF incomingValue, IsBuilder
<1>2. IsBuilder(linked) /\ linked.map = b.map
  BY <1>1, InstanceIsBuilder, TagFields
<1>3. linked.sys.Layouts = b.sys.Layouts
  BY <1>1, AddInstanceLinkFields, TagFields, NullIsNoID DEF IsBuilder, HasNode
<1>4. passedValue(b, i) = [linked EXCEPT !.sys = addPlaceholder(linked.sys, linked.map[i.val])]
  BY <1>1, <1>2 DEF passedValue, IsBuilder
<1> HIDE DEF linked
<1>5. HasNode(linked, i.val)
  BY <1>2, <1>3 DEF HasNode
<1> QED  BY <1>2, <1>4, <1>5, PlaceholderIsBuilder DEF linked

LEMMA AddressIsBuilder ==
  ASSUME NEW b, IsBuilder(b), NEW i, HasNode(b, i.val), HasNode(b, i.other),
         Len(i.OE.Strides) \in Nat
  PROVE  IsBuilder(addressFromBase(b, i))
<1>1. [b EXCEPT !.sys = addInstanceLink(@, b.map[i.val], b.map[i.other], i.OE)]
        = [b EXCEPT !.sys = addInstanceLink(b.sys, b.map[i.val], b.map[i.other], i.OE)]
  BY DEF IsBuilder
<1> QED  BY <1>1, InstanceIsBuilder DEF addressFromBase

LEMMA InstanceLinkIsSound ==
  ASSUME NEW sys, WellFormed(sys), LinksBothWays(sys.Succ),
         NEW s \in sys.Layouts, NEW t \in sys.Layouts, NEW oe, Len(oe.Strides) \in Nat
  PROVE  LET new == addInstanceLink(sys, s, t, oe) IN
         /\ WellFormed(new) /\ LinksBothWays(new.Succ)
         /\ new.NID = sys.NID /\ new.Layouts = sys.Layouts
<1> DEFINE new == addInstanceLink(sys, s, t, oe)
<1>1. /\ WellFormed(new) /\ new.NID = sys.NID /\ new.Layouts = sys.Layouts
      /\ \A e \in sys.Succ : e \in new.Succ
      /\ \A e \in new.Succ : e \in sys.Succ \/ e = Edge(s, t, InstanceTag(oe))
  BY AddInstanceLinkFields, NullIsNoID
<1> HIDE DEF new
<1>2. LinksBothWays(new.Succ)
  BY <1>1, OtherLinksKeepSymmetry, TagsTellKinds
<1> QED  BY <1>1, <1>2 DEF new

(* A new node, with a size.                                                 *)
LEMMA CreatedIsSound ==
  ASSUME NEW sys, WellFormed(sys), LinksBothWays(sys.Succ), NEW size
  PROVE  LET new == [createArtificialLayoutType(sys) EXCEPT !.Size[sys.NID] = size] IN
         /\ WellFormed(new) /\ LinksBothWays(new.Succ) /\ new.Succ = sys.Succ
         /\ \A m : m \in new.Layouts <=> m \in sys.Layouts \/ m = sys.NID
         /\ sys.NID \notin sys.Layouts
<1> DEFINE created == createArtificialLayoutType(sys)
           new == [created EXCEPT !.Size[sys.NID] = size]
<1>1. /\ WellFormed(created) /\ created.Succ = sys.Succ /\ sys.NID \notin sys.Layouts
      /\ \A m : m \in created.Layouts <=> m \in sys.Layouts \/ m = sys.NID
  BY CreateFields
<1> HIDE DEF created
<1>2. SameGraph(new, created)
  BY <1>1, SetFields DEF WellFormed
<1> HIDE DEF new
<1>3. WellFormed(new)
  BY <1>1, <1>2, SameGraphIsWellFormed
<1> QED  BY <1>1, <1>2, <1>3 DEF SameGraph, new, created

LEMMA StringLiteralIsBuilder ==
  ASSUME NEW b, IsBuilder(b), NEW i, HasNode(b, i.val), HasNode(b, i.other), i.call \in Values
  PROVE  IsBuilder(stringLiteral(b, i))
<1> DEFINE byte == b.sys.NID
           bytes == OffsetExpression(0, <<[Stride |-> 1, TripCount |-> 1 + i.Length]>>)
           inSegment == addInstanceLink(b.sys, b.map[i.val], b.map[i.other], AtOffset(i.Offset))
           created == [createArtificialLayoutType(inSegment) EXCEPT !.Size[byte] = 1]
           literal == addInstanceLink(created, b.map[i.other], byte, bytes)
           withLiteral == [b EXCEPT !.sys = literal]
           withCall == getOrCreateLayoutType(withLiteral, i.call)
           final == addInstanceLink(withCall.sys, withCall.map[i.call], byte, AtOffset(0))
<1>1. /\ WellFormed(inSegment) /\ LinksBothWays(inSegment.Succ)
      /\ inSegment.NID = byte /\ inSegment.Layouts = b.sys.Layouts
  BY InstanceLinkIsSound, TagFields DEF IsBuilder, HasNode
<1> HIDE DEF inSegment
<1>2. created = [createArtificialLayoutType(inSegment) EXCEPT !.Size[inSegment.NID] = 1]
  BY <1>1
<1>3. /\ WellFormed(created) /\ LinksBothWays(created.Succ)
      /\ \A m : m \in created.Layouts <=> m \in b.sys.Layouts \/ m = byte
  <2> HIDE DEF created, byte
  <2> QED  BY <1>1, <1>2, CreatedIsSound
<1> HIDE DEF created
<1>4. byte \in created.Layouts /\ b.map[i.other] \in created.Layouts
  BY <1>3 DEF HasNode
<1>5. /\ WellFormed(literal) /\ LinksBothWays(literal.Succ) /\ literal.Layouts = created.Layouts
  <2>1. Len(bytes.Strides) \in Nat
    BY DEF OffsetExpression
  <2> HIDE DEF byte, bytes
  <2> QED  BY <1>3, <1>4, <2>1, InstanceLinkIsSound
<1> HIDE DEF literal
<1>6. \A m \in b.sys.Layouts : m \in literal.Layouts
  BY <1>3, <1>5
<1>7. IsBuilder(withLiteral) /\ withLiteral.sys = literal
  BY <1>5, <1>6, SetSysIsBuilder, Zenon
<1> HIDE DEF withLiteral
<1>8. /\ IsBuilder(withCall) /\ HasNode(withCall, i.call)
      /\ \A m \in literal.Layouts : m \in withCall.sys.Layouts
  BY <1>7, GetOrCreateFields
<1> HIDE DEF withCall
<1>9. byte \in withCall.sys.Layouts
  BY <1>4, <1>5, <1>8
<1>10. /\ WellFormed(final) /\ LinksBothWays(final.Succ) /\ final.Layouts = withCall.sys.Layouts
  <2> HIDE DEF byte
  <2> QED  BY <1>8, <1>9, InstanceLinkIsSound, TagFields DEF IsBuilder, HasNode
<1>11. stringLiteral(b, i) = [withCall EXCEPT !.sys = final]
  <2>1. stringLiteral(b, i)
          = [withCall EXCEPT !.sys = addInstanceLink(@, withCall.map[i.call], byte, AtOffset(0))]
    BY Zenon DEF stringLiteral, withCall, withLiteral, literal, created, inSegment, byte, bytes
  <2> QED  BY <1>8, <2>1 DEF IsBuilder
<1> HIDE DEF final
<1>12. IsBuilder([withCall EXCEPT !.sys = final])
  BY <1>8, <1>10, SetSysIsBuilder, Zenon
<1> QED  BY <1>11, <1>12

LEMMA AccessIsBuilder ==
  ASSUME NEW b, IsBuilder(b), NEW i, HasNode(b, i.val), HasNode(b, i.other)
  PROVE  IsBuilder(accessThrough(b, i))
<1> DEFINE n == b.sys.NID
           pointee == b.map[i.other]
           sized == [createArtificialLayoutType(b.sys) EXCEPT !.Size[n] = i.Size]
           created == [sized EXCEPT !.Info[n] = "AllChildrenAreNonInterfering"]
           linked == addInstanceLink(created, b.map[i.val], n, AtOffset(0))
           unknown == [linked EXCEPT !.Info[pointee] = "Unknown"]
           pointing == addPointerLink(unknown, n, pointee)
           others == {e.src : e \in {p \in PredecessorEdges(pointing, pointee) : IsPointerEdge(p)}} \ {n}
           equal == {Edge(n, o, EqualityTag) : o \in others} \cup {Edge(o, n, EqualityTag) : o \in others}
           final == IF i.Size # PointerSize THEN linked ELSE withEdges(pointing, equal)
<1>1. accessThrough(b, i) = [b EXCEPT !.sys = final]
  BY Zenon DEF accessThrough
<1>2. /\ WellFormed(sized) /\ LinksBothWays(sized.Succ) /\ n \notin b.sys.Layouts
      /\ \A m : m \in sized.Layouts <=> m \in b.sys.Layouts \/ m = n
  BY CreatedIsSound DEF IsBuilder
<1> HIDE DEF sized
<1>3. SameGraph(created, sized)
  BY <1>2, SetFields DEF WellFormed
<1>4. /\ WellFormed(created) /\ LinksBothWays(created.Succ)
      /\ \A m : m \in created.Layouts <=> m \in b.sys.Layouts \/ m = n
  BY <1>2, <1>3, SameGraphIsWellFormed DEF SameGraph
<1> HIDE DEF created
<1>5. n \in created.Layouts /\ pointee \in created.Layouts /\ b.map[i.val] \in created.Layouts /\ n # pointee
  BY <1>2, <1>4 DEF HasNode
<1> HIDE DEF n, pointee
<1>6. WellFormed(linked) /\ LinksBothWays(linked.Succ) /\ linked.Layouts = created.Layouts
  BY <1>4, <1>5, InstanceLinkIsSound, TagFields
<1> HIDE DEF linked
<1>7. SameGraph(unknown, linked)
  BY <1>6, SetFields DEF WellFormed
<1>8. WellFormed(unknown) /\ unknown.Succ = linked.Succ /\ unknown.Layouts = created.Layouts
  BY <1>6, <1>7, SameGraphIsWellFormed DEF SameGraph
<1> HIDE DEF unknown
<1>9. /\ WellFormed(pointing) /\ pointing.Layouts = created.Layouts
      /\ \A e : e \in pointing.Succ <=> e \in linked.Succ \/ e = Edge(n, pointee, PointerTag)
  BY <1>5, <1>8, AddLinkFields, TagFields, NullIsNoID DEF addPointerLink
<1>10. LinksBothWays(pointing.Succ)
  BY <1>6, <1>9, OtherLinksKeepSymmetry, TagsTellKinds
<1> HIDE DEF pointing
<1>11. \A o \in others : o \in created.Layouts /\ o # n
  BY <1>9 DEF WellFormed, PredecessorEdges, Joins
<1> HIDE DEF others
<1>12. \A e \in equal : Joins(e, pointing.Layouts) /\ IsEqualityEdge(e)
  BY <1>5, <1>9, <1>11, EdgeFields, TagFields, TagsTellKinds DEF Joins
<1>13. \A e \in equal : \E f \in equal : f.src = e.tgt /\ f.tgt = e.src
  BY EdgeFields
<1> HIDE DEF equal
<1> DEFINE equated == withEdges(pointing, equal)
<1>14. /\ WellFormed(equated) /\ equated.Layouts = created.Layouts
       /\ \A e : e \in equated.Succ <=> e \in pointing.Succ \/ e \in equal
  BY <1>9, <1>12, WithEdgesFields
<1> HIDE DEF equated
<1>15. LinksBothWays(equated.Succ)
  BY <1>10, <1>12, <1>13, <1>14 DEF LinksBothWays
<1>16. final \in {linked, equated}
  BY DEF equated
<1> HIDE DEF final
<1>17. WellFormed(final) /\ LinksBothWays(final.Succ) /\ final.Layouts = created.Layouts
  BY <1>6, <1>14, <1>15, <1>16
<1>18. \A m \in b.sys.Layouts : m \in final.Layouts
  BY <1>4, <1>17 DEF n
<1>19. IsBuilder([b EXCEPT !.sys = final])
  BY <1>17, <1>18, SetSysIsBuilder, Zenon
<1> QED  BY <1>1, <1>19

(* Whatever the instruction, every handler leaves a sound graph.            *)
LEMMA ProcessedIsBuilder ==
  ASSUME NEW b, IsBuilder(b), NEW i \in Instruction
  PROVE  IsBuilder(processed(b, i))
<1> DEFINE first == getOrCreateLayoutType(b, i.val)
           both == getOrCreateLayoutType(first, i.other)
<1>1. /\ i.op \in {"Arg", "StackFrame", "Literal", "Same", "Call", "Phi", "Base", "Access"}
      /\ i.val \in Values
      /\ i.op \notin {"Arg", "StackFrame"} => i.other \in Values
      /\ i.op = "Literal" => i.call \in Values
      /\ i.op = "Base" => Len(i.OE.Strides) \in Nat
  BY DEF Instruction
<1>2. IsBuilder(first) /\ HasNode(first, i.val)
  BY <1>1, GetOrCreateFields
<1> HIDE DEF first
<1>3. i.op \notin {"Arg", "StackFrame"} =>
        IsBuilder(both) /\ HasNode(both, i.val) /\ HasNode(both, i.other)
  BY <1>1, <1>2, GetOrCreateFields
<1> HIDE DEF both
<1>4. processed(b, i) =
        CASE i.op = "Arg" -> typedArgument(first, i)
          [] i.op = "StackFrame" -> stackFrame(first, i)
          [] i.op = "Literal" -> stringLiteral(both, i)
          [] i.op = "Same" -> sameLayout(both, i)
          [] i.op = "Call" -> passedValue(both, i)
          [] i.op = "Phi" -> incomingValue(both, i)
          [] i.op = "Base" -> addressFromBase(both, i)
          [] i.op = "Access" -> accessThrough(both, i)
  BY DEF processed, first, both
<1>5. stackFrame(first, i) = [first EXCEPT !.sys = addPlaceholder(first.sys, first.map[i.val])]
  BY <1>2 DEF stackFrame, IsBuilder
<1>6. IsBuilder(stackFrame(first, i))
  BY <1>2, <1>5, PlaceholderIsBuilder
<1>7. IsBuilder(typedArgument(first, i))
  BY <1>2, TypedArgumentFields
<1> QED  BY <1>1, <1>3, <1>4, <1>6, <1>7, StringLiteralIsBuilder, SameLayoutIsBuilder,
            PassedValueIsBuilder, AddressIsBuilder, AccessIsBuilder

------------------------------------------------------------------------------
(* The inductive invariant, in parts that are about a graph sys and the     *)
(* label l and the variables w of the loop.  The components still to        *)
(* collapse and the nodes now being collapsed are alive and do not overlap. *)
Apart(sys, sets, nodes) ==
  /\ \A n \in nodes : n \in sys.Layouts
  /\ \A C \in sets : \A n \in C : n \in sys.Layouts /\ n \notin nodes
  /\ \A C, D \in sets : C # D => \A n \in C : n \notin D
NodesToMerge(w) == {w.First} \cup w.ToMerge \cup w.Smaller

CollapseState(sys, l, w) ==
  /\ l = "collapse" => w = [ToCollapse |-> w.ToCollapse] /\ Apart(sys, w.ToCollapse, {})
  /\ l = "merge" =>
       /\ w = [ToCollapse |-> w.ToCollapse, First |-> w.First,
               ToMerge |-> w.ToMerge, Smaller |-> w.Smaller]
       /\ Apart(sys, w.ToCollapse, NodesToMerge(w))
       /\ \A n \in w.ToMerge : n # w.First /\ n \notin w.Smaller
       /\ w.First \notin w.Smaller
  /\ l = "chain" =>
       /\ w = [ToCollapse |-> w.ToCollapse, Leaders |-> w.Leaders,
               Leader |-> w.Leader, Left |-> w.Left]
       /\ Apart(sys, w.ToCollapse, w.Leaders)
       /\ w.Leader \in w.Leaders /\ w.Leader \notin w.Left
       /\ \A n \in w.Left : n \in w.Leaders

(* Where the edges that are left to collapse may be.  In a chain, the       *)
(* leaders from the current one on keep edges to the others.                *)
Within(e, nodes) == e.src \in nodes /\ e.tgt \in nodes
LeftToCollapse(e, w) == \E C \in w.ToCollapse : Within(e, C)
Unchained(e, w) == (e.src = w.Leader \/ e.src \in w.Left) /\ e.tgt \in w.Leaders
LeftIn(edges, l, w) ==
  /\ l = "collapse" => \A e \in edges : LeftToCollapse(e, w)
  /\ l = "merge" => \A e \in edges : LeftToCollapse(e, w) \/ Within(e, NodesToMerge(w))
  /\ l = "chain" => \A e \in edges : LeftToCollapse(e, w) \/ Unchained(e, w)

(* The step s is being run.                                                 *)
Running(s) == step \in DOMAIN Schedule /\ Schedule[step] = s

Equalities(sys) == {e \in sys.Succ : IsEqualityEdge(e)}

Symmetric(sys, l, w) ==
  /\ l # "chain" => LinksBothWays(sys.Succ)
  /\ l = "chain" => \A e \in Equalities(sys) :
       IF Within(e, w.Leaders) THEN Unchained(e, w)
       ELSE \E f \in Equalities(sys) : f.src = e.tgt /\ f.tgt = e.src

TypeInv ==
  /\ WellFormed(ts)
  /\ program \in Seq(Instruction) /\ next \in Nat \ {0} /\ step \in Nat
  /\ step = 0 => label = "start" /\ IsBuilder([sys |-> ts, map |-> VisitedValues])

IInv ==
  /\ TypeInv
  /\ CollapseState(ts, label, work)
  /\ Symmetric(ts, label, work)
  /\ Running("CollapseEqualitySCC") => LeftIn(Equalities(ts), label, work)
  /\ NoEqualityIsLeft

LEMMA InvInit == Init => IInv
<1> SUFFICES ASSUME Init PROVE IInv
  OBVIOUS
<1>1. /\ ts = EmptySystem /\ VisitedValues = [v \in Values |-> NoNode]
      /\ program \in Programs /\ next = 1 /\ step = 0 /\ label = "start"
  BY DEF Init, DLAInit, frontendInit
<1>2. WellFormed(ts) /\ ts.Succ = {}
  BY <1>1 DEF EmptySystem, WellFormed, HasFields
<1>3. LinksBothWays(ts.Succ)
  BY <1>2 DEF LinksBothWays
<1>4. IsBuilder([sys |-> ts, map |-> VisitedValues])
  BY <1>1, <1>2, <1>3 DEF IsBuilder
<1>5. TypeInv
  BY <1>1, <1>2, <1>4, ProgramsAssumption DEF TypeInv
<1>6. ~Running("CollapseEqualitySCC")
  BY <1>1, ProgramsAssumption DEF Running
<1> QED  BY <1>1, <1>3, <1>5, <1>6 DEF IInv, CollapseState, Symmetric, NoEqualityIsLeft, JustDone

LEMMA StepsAreIndices ==
  ASSUME NEW s \in DOMAIN Schedule
  PROVE  s \in Nat \ {0}
BY ProgramsAssumption

LEMMA FrontendKeepsInv == IInv /\ (Frontend \/ FrontendDone) => IInv'
<1> SUFFICES ASSUME IInv, Frontend \/ FrontendDone PROVE IInv'
  OBVIOUS
<1>1. CASE Frontend
  <2> DEFINE b == [sys |-> ts, map |-> VisitedValues]
             new == processed(b, program[next])
  <2>1. /\ step = 0 /\ next \in 1..Len(program) /\ ts' = new.sys /\ VisitedValues' = new.map
        /\ next' = next + 1 /\ program' = program /\ step' = step /\ label' = label
    BY <1>1 DEF Frontend, ProcessInstruction, loopVars, IInv, TypeInv
  <2>2. program[next] \in Instruction
    BY <2>1 DEF IInv, TypeInv
  <2>3. IsBuilder(b)
    BY <2>1 DEF IInv, TypeInv
  <2>4. IsBuilder(new)
    <3> HIDE DEF b
    <3> QED  BY <2>2, <2>3, ProcessedIsBuilder
  <2> HIDE DEF new
  <2>5. new = [sys |-> ts', map |-> VisitedValues']
    BY <2>1, <2>4 DEF IsBuilder
  <2>6. WellFormed(ts') /\ LinksBothWays(ts'.Succ)
    BY <2>1, <2>4 DEF IsBuilder
  <2>7. TypeInv'
    BY <2>1, <2>4, <2>5, <2>6 DEF IInv, TypeInv
  <2>8. label' = "start" /\ ~Running("CollapseEqualitySCC")' /\ step' = 0
    BY <2>1, StepsAreIndices DEF IInv, TypeInv, Running
  <2> QED  BY <2>6, <2>7, <2>8 DEF IInv, CollapseState, Symmetric, NoEqualityIsLeft, JustDone
<1>2. CASE FrontendDone
  <2>1. step = 0 /\ step' = 1 /\ label' = label /\ label = "start" /\ UNCHANGED frontendVars
    BY <1>2 DEF FrontendDone, IInv, TypeInv
  <2>2. TypeInv'
    BY <2>1 DEF IInv, TypeInv, frontendVars
  <2> QED  BY <2>1, <2>2 DEF IInv, CollapseState, Symmetric, LeftIn, frontendVars,
                                NoEqualityIsLeft, JustDone
<1> QED  BY <1>1, <1>2

------------------------------------------------------------------------------
(* The steps that are not about collapsing.                                 *)
LEMMA FailKeepsInv == IInv /\ UNCHANGED <<frontendVars, step, label, work>> => IInv'
BY DEF IInv, TypeInv, Running, NoEqualityIsLeft, JustDone, frontendVars

LEMMA MergeIsSound ==
  ASSUME NEW sys, WellFormed(sys), LinksBothWays(sys.Succ),
         NEW into \in sys.Layouts, NEW from \in sys.Layouts, into # from
  PROVE  WellFormed(mergeNode(sys, into, from)) /\ LinksBothWays(mergeNode(sys, into, from).Succ)
<1> DEFINE Q == quotient(sys.Succ, into, from)
<1>1. WellFormed(mergeNode(sys, into, from)) /\ mergeNode(sys, into, from).Succ = Q
  BY MergeNodeFields
<1>2. LinksBothWays(Q)
  <2> SUFFICES ASSUME NEW q \in Q, IsEqualityEdge(q)
               PROVE  \E f \in Q : IsEqualityEdge(f) /\ f.src = q.tgt /\ f.tgt = q.src
    BY DEF LinksBothWays
  <2>1. PICK e \in sys.Succ : /\ q.src = renamed(e.src, into, from)
                              /\ q.tgt = renamed(e.tgt, into, from)
                              /\ q.tag = e.tag /\ q.src # q.tgt
    BY QuotientEdges
  <2>2. PICK f \in sys.Succ : IsEqualityEdge(f) /\ f.src = e.tgt /\ f.tgt = e.src
    BY <2>1 DEF LinksBothWays, IsEqualityEdge
  <2>3. \E r \in Q : r.src = q.tgt /\ r.tgt = q.src /\ r.tag = f.tag
    BY <2>1, <2>2, QuotientEdges
  <2> QED  BY <2>2, <2>3 DEF IsEqualityEdge
<1> QED  BY <1>1, <1>2

LEMMA RemoveIsSound ==
  ASSUME NEW sys, WellFormed(sys), LinksBothWays(sys.Succ), NEW n
  PROVE  WellFormed(removeNode(sys, n)) /\ LinksBothWays(removeNode(sys, n).Succ)
<1>1. /\ WellFormed(removeNode(sys, n))
      /\ \A e : e \in removeNode(sys, n).Succ <=> e \in sys.Succ /\ e.src # n /\ e.tgt # n
  BY RemoveNodeFields
<1> QED  BY <1>1 DEF LinksBothWays

LEMMA WithoutIsSound ==
  ASSUME NEW sys, WellFormed(sys), LinksBothWays(sys.Succ),
         NEW E, \A e \in E : ~IsEqualityEdge(e)
  PROVE  WellFormed(withoutEdges(sys, E)) /\ LinksBothWays(withoutEdges(sys, E).Succ)
<1>1. /\ WellFormed(withoutEdges(sys, E))
      /\ \A e : e \in withoutEdges(sys, E).Succ <=> e \in sys.Succ /\ e \notin E
  BY WithoutEdgesFields
<1> QED  BY <1>1, OtherLinksKeepSymmetry

CollapseLabels == {"collapse", "merge", "chain"}

LEMMA OtherStepKeepsInv ==
  ASSUME IInv, step \in DOMAIN Schedule, WellFormed(ts'), LinksBothWays(ts'.Succ),
         UNCHANGED <<VisitedValues, program, next>>,
         step' = step \/ step' = step + 1, label' \notin CollapseLabels, NoEqualityIsLeft'
  PROVE  IInv'
<1>1. step' \in Nat /\ step' # 0
  BY StepsAreIndices
<1>2. TypeInv'
  BY <1>1 DEF IInv, TypeInv
<1> QED  BY <1>2 DEF IInv, CollapseState, Symmetric, LeftIn, CollapseLabels

(* An action that goes on with a step, and one that ends it.                *)
LEMMA GotoKeepsInv ==
  ASSUME IInv, step \in DOMAIN Schedule, KeepFrontend, WellFormed(ts'), LinksBothWays(ts'.Succ),
         NEW l, NEW w, Goto(l, w), l \notin CollapseLabels, l # "start"
  PROVE  IInv'
<1>1. NoEqualityIsLeft'
  BY DEF Goto, NoEqualityIsLeft, JustDone
<1> QED  BY <1>1, OtherStepKeepsInv DEF Goto, KeepFrontend

LEMMA EndKeepsInv ==
  ASSUME IInv, step \in DOMAIN Schedule, KeepFrontend, WellFormed(ts'), LinksBothWays(ts'.Succ),
         EndStep, Schedule[step] # "CollapseEqualitySCC"
  PROVE  IInv'
<1>1. step' - 1 = step
  BY StepsAreIndices DEF EndStep
<1>2. NoEqualityIsLeft'
  BY <1>1 DEF EndStep, NoEqualityIsLeft, JustDone
<1>3. label' \notin CollapseLabels
  BY DEF EndStep, CollapseLabels
<1> QED  BY <1>2, <1>3, OtherStepKeepsInv DEF EndStep, KeepFrontend

LEMMA SoundOutsideCollapse ==
  ASSUME IInv, label \notin CollapseLabels
  PROVE  WellFormed(ts) /\ LinksBothWays(ts.Succ)
BY DEF IInv, TypeInv, Symmetric, CollapseLabels

LEMMA SimplifyKeepsInv == IInv /\ SimplifyNext => IInv'
<1> SUFFICES ASSUME IInv, SimplifyNext PROVE IInv'
  OBVIOUS
<1>1. /\ step \in DOMAIN Schedule /\ Schedule[step] # "CollapseEqualitySCC"
      /\ label \notin CollapseLabels
  BY DEF SimplifyNext, AddFakeRoot, NextNode, NextChild, ChildrenDone, RemoveFakeRoot, At,
         Simplify, CollapseLabels
<1>2. WellFormed(ts) /\ LinksBothWays(ts.Succ)
  BY <1>1, SoundOutsideCollapse
<1>3. "nodes" \notin CollapseLabels /\ "children" \notin CollapseLabels
  BY DEF CollapseLabels
<1>4. CASE AddFakeRoot
  <2> DEFINE created == createArtificialLayoutType(ts)
             roots == {n \in ts.Layouts : IsInstanceRoot(ts, n)}
             links == {Edge(ts.NID, n, InstanceTag(AtOffset(0))) : n \in roots}
             new == withEdges(created, links)
  <2>1. /\ WellFormed(created) /\ created.Succ = ts.Succ /\ ts.NID \notin ts.Layouts
        /\ \A m : m \in created.Layouts <=> m \in ts.Layouts \/ m = ts.NID
    BY <1>2, CreateFields
  <2>2. ts' = new /\ KeepFrontend
    BY <1>4 DEF AddFakeRoot, addArtificialRoot
  <2>3. \E w : Goto("nodes", w)
    BY <1>4 DEF AddFakeRoot
  <2> HIDE DEF created
  <2>4. \A e \in links : Joins(e, created.Layouts) /\ ~IsEqualityEdge(e)
    BY <2>1, EdgeFields, TagFields, TagsTellKinds DEF Joins
  <2> HIDE DEF links
  <2>5. WellFormed(new) /\ \A e : e \in new.Succ <=> e \in created.Succ \/ e \in links
    BY <2>1, <2>4, WithEdgesFields
  <2> HIDE DEF new
  <2>6. LinksBothWays(new.Succ)
    BY <1>2, <2>1, <2>4, <2>5, OtherLinksKeepSymmetry
  <2> QED  BY <1>1, <1>3, <2>2, <2>3, <2>5, <2>6, GotoKeepsInv
<1>5. CASE NextNode
  <2>1. CASE UNCHANGED frontendVars /\ \E w : Goto("children", w)
    BY <1>1, <1>2, <1>3, <2>1, GotoKeepsInv DEF frontendVars, KeepFrontend
  <2>2. CASE Fail("Node was erased")
    BY <2>2, FailKeepsInv DEF Fail
  <2> QED  BY <1>5, <2>1, <2>2 DEF NextNode
<1>6. CASE NextChild
  <2>1. PICK c \in ChildrenLeft :
          IF ~canBeCollapsed(ts, work.Node, c)
          THEN Goto("children", [work EXCEPT !.After = NextAfter(c)]) /\ UNCHANGED frontendVars
          ELSE IF sizesAllowMerge(ts, work.Node, c)
          THEN /\ ts' = mergeNode(ts, work.Node, c)
               /\ Goto("children", [work EXCEPT !.After = NextAfter(c)])
               /\ KeepFrontend
          ELSE Fail("mergeNodes")
    BY <1>6 DEF NextChild
  <2>2. PICK e \in ts.Succ : e.src = work.Node /\ e.tgt = c
    BY DEF ChildrenLeft, ChildrenAtOffset0, SuccessorEdges
  <2>3. work.Node \in ts.Layouts /\ c \in ts.Layouts /\ work.Node # c
    BY <1>2, <2>2 DEF WellFormed, Joins
  <2>4. CASE UNCHANGED frontendVars /\ \E w : Goto("children", w)
    BY <1>1, <1>2, <1>3, <2>4, GotoKeepsInv DEF frontendVars, KeepFrontend
  <2>5. CASE ts' = mergeNode(ts, work.Node, c) /\ KeepFrontend /\ \E w : Goto("children", w)
    <3>1. WellFormed(ts') /\ LinksBothWays(ts'.Succ)
      BY <1>2, <2>3, <2>5, MergeIsSound
    <3> QED  BY <1>1, <1>3, <2>5, <3>1, GotoKeepsInv
  <2>6. CASE Fail("mergeNodes")
    BY <2>6, FailKeepsInv DEF Fail
  <2> QED  BY <2>1, <2>4, <2>5, <2>6
<1>7. CASE ChildrenDone
  <2>1. UNCHANGED frontendVars /\ \E w : Goto("nodes", w)
    BY <1>7 DEF ChildrenDone
  <2> QED  BY <1>1, <1>2, <1>3, <2>1, GotoKeepsInv DEF frontendVars, KeepFrontend
<1>8. CASE RemoveFakeRoot
  <2>1. ts' = removeNode(ts, work.FakeRoot) /\ EndStep /\ KeepFrontend
    BY <1>8 DEF RemoveFakeRoot
  <2> QED  BY <1>1, <1>2, <2>1, RemoveIsSound, EndKeepsInv
<1> QED  BY <1>4, <1>5, <1>6, <1>7, <1>8 DEF SimplifyNext

LEMMA SetSizeIsSound ==
  ASSUME NEW sys, WellFormed(sys), LinksBothWays(sys.Succ), NEW n, NEW x
  PROVE  /\ WellFormed([sys EXCEPT !.Size[n] = x]) /\ LinksBothWays([sys EXCEPT !.Size[n] = x].Succ)
<1>1. SameGraph([sys EXCEPT !.Size[n] = x], sys)
  BY SetFields DEF WellFormed
<1> QED  BY <1>1, SameGraphIsWellFormed DEF SameGraph

LEMMA PruneKeepsInv == IInv /\ (StartPrune \/ PruneVisit \/ Prune \/ PruneDone) => IInv'
<1> SUFFICES ASSUME IInv, StartPrune \/ PruneVisit \/ Prune \/ PruneDone PROVE IInv'
  OBVIOUS
<1>1. /\ step \in DOMAIN Schedule /\ Schedule[step] # "CollapseEqualitySCC"
      /\ label \notin CollapseLabels
  BY DEF StartPrune, PruneVisit, Prune, PruneDone, At, CollapseLabels
<1>2. WellFormed(ts) /\ LinksBothWays(ts.Succ)
  BY <1>1, SoundOutsideCollapse
<1>3. "visit" \notin CollapseLabels
  BY DEF CollapseLabels
<1>4. CASE StartPrune \/ PruneVisit
  <2>1. UNCHANGED frontendVars /\ \E w : Goto("visit", w)
    BY <1>4 DEF StartPrune, PruneVisit
  <2> QED  BY <1>1, <1>2, <1>3, <2>1, GotoKeepsInv DEF frontendVars, KeepFrontend
<1>5. CASE Prune
  <2>1. PICK n \in work.ToRemove : ts' = removeNode(ts, n)
    BY <1>5 DEF Prune
  <2>2. KeepFrontend /\ \E w : Goto("visit", w)
    BY <1>5 DEF Prune
  <2>3. WellFormed(ts') /\ LinksBothWays(ts'.Succ)
    BY <1>2, <2>1, RemoveIsSound
  <2> QED  BY <1>1, <1>3, <2>2, <2>3, GotoKeepsInv
<1>6. CASE PruneDone
  <2>1. EndStep /\ UNCHANGED frontendVars
    BY <1>6 DEF PruneDone
  <2> QED  BY <1>1, <1>2, <2>1, EndKeepsInv DEF frontendVars, KeepFrontend
<1> QED  BY <1>4, <1>5, <1>6

LEMMA PointersKeepInv == IInv /\ RemoveInvalidPointers => IInv'
<1> SUFFICES ASSUME IInv, RemoveInvalidPointers PROVE IInv'
  OBVIOUS
<1>1. /\ step \in DOMAIN Schedule /\ Schedule[step] # "CollapseEqualitySCC"
      /\ label \notin CollapseLabels /\ ts' = withoutEdges(ts, invalidPointers(ts))
      /\ EndStep /\ KeepFrontend
  BY DEF RemoveInvalidPointers, At, CollapseLabels
<1>2. WellFormed(ts) /\ LinksBothWays(ts.Succ)
  BY <1>1, SoundOutsideCollapse
<1>3. \A e \in invalidPointers(ts) : ~IsEqualityEdge(e)
  BY DEF invalidPointers, IsPointerEdge, IsEqualityEdge
<1> QED  BY <1>1, <1>2, <1>3, WithoutIsSound, EndKeepsInv

LEMMA UpperKeepsInv == IInv /\ (StartUpper \/ UpperVisit \/ UpperDone) => IInv'
<1> SUFFICES ASSUME IInv, StartUpper \/ UpperVisit \/ UpperDone PROVE IInv'
  OBVIOUS
<1>1. /\ step \in DOMAIN Schedule /\ Schedule[step] # "CollapseEqualitySCC"
      /\ label \notin CollapseLabels
  BY DEF StartUpper, UpperVisit, UpperDone, At, CollapseLabels
<1>2. WellFormed(ts) /\ LinksBothWays(ts.Succ)
  BY <1>1, SoundOutsideCollapse
<1>3. "visit" \notin CollapseLabels
  BY DEF CollapseLabels
<1>4. CASE StartUpper
  <2>1. CASE UNCHANGED frontendVars /\ \E w : Goto("visit", w)
    BY <1>1, <1>2, <1>3, <2>1, GotoKeepsInv DEF frontendVars, KeepFrontend
  <2>2. CASE Fail("not isLeaf(Root) or Root->Size")
    BY <2>2, FailKeepsInv DEF Fail
  <2> QED  BY <1>4, <2>1, <2>2 DEF StartUpper
<1>5. CASE UpperVisit
  <2>1. CASE Fail("FinalSize")
    BY <2>1, FailKeepsInv DEF Fail
  <2>2. CASE KeepFrontend /\ (\E w : Goto("visit", w)) /\ \E n, x : ts' = [ts EXCEPT !.Size[n] = x]
    <3>1. WellFormed(ts') /\ LinksBothWays(ts'.Succ)
      BY <1>2, <2>2, SetSizeIsSound
    <3> QED  BY <1>1, <1>3, <2>2, <3>1, GotoKeepsInv
  <2> QED  BY <1>5, <2>1, <2>2 DEF UpperVisit
<1>6. CASE UpperDone
  <2>1. EndStep /\ UNCHANGED frontendVars
    BY <1>6 DEF UpperDone
  <2> QED  BY <1>1, <1>2, <2>1, EndKeepsInv DEF frontendVars, KeepFrontend
<1> QED  BY <1>4, <1>5, <1>6

LEMMA StridesKeepInv == IInv /\ (StartStrides \/ StridesVisit \/ StridesDone) => IInv'
<1> SUFFICES ASSUME IInv, StartStrides \/ StridesVisit \/ StridesDone PROVE IInv'
  OBVIOUS
<1>1. /\ step \in DOMAIN Schedule /\ Schedule[step] # "CollapseEqualitySCC"
      /\ label \notin CollapseLabels
  BY DEF StartStrides, StridesVisit, StridesDone, At, CollapseLabels
<1>2. WellFormed(ts) /\ LinksBothWays(ts.Succ)
  BY <1>1, SoundOutsideCollapse
<1>3. "visit" \notin CollapseLabels
  BY DEF CollapseLabels
<1>4. CASE StartStrides
  <2>1. UNCHANGED frontendVars /\ \E w : Goto("visit", w)
    BY <1>4 DEF StartStrides
  <2> QED  BY <1>1, <1>2, <1>3, <2>1, GotoKeepsInv DEF frontendVars, KeepFrontend
<1>5. CASE StridesVisit
  <2> DEFINE n == nextInPostOrder(work.todo, InstancesOf(ts))
             removed == invalidStrides(n)
             cut == withoutEdges(ts, removed)
  <2>1. ts' = [cut EXCEPT !.Size[n] = SizeWithout(n, removed)]
    BY <1>5 DEF StridesVisit
  <2>2. \A e \in removed : ~IsEqualityEdge(e)
    BY DEF invalidStrides, IsInstanceEdge, IsEqualityEdge
  <2> HIDE DEF n, removed
  <2>3. WellFormed(cut) /\ LinksBothWays(cut.Succ)
    BY <1>2, <2>2, WithoutIsSound
  <2> HIDE DEF cut
  <2>4. WellFormed(ts') /\ LinksBothWays(ts'.Succ)
    BY <2>1, <2>3, SetSizeIsSound
  <2>5. KeepFrontend /\ \E w : Goto("visit", w)
    BY <1>5 DEF StridesVisit
  <2> QED  BY <1>1, <1>3, <2>4, <2>5, GotoKeepsInv
<1>6. CASE StridesDone
  <2>1. EndStep /\ UNCHANGED frontendVars
    BY <1>6 DEF StridesDone
  <2> QED  BY <1>1, <1>2, <2>1, EndKeepsInv DEF frontendVars, KeepFrontend
<1> QED  BY <1>4, <1>5, <1>6

LEMMA StridedIsNotAtOffset0 ==
  /\ \A e : Len(e.tag.OE.Strides) >= 2 => ~IsInstanceOff0(e)
  /\ \A s, t, offset, x : ~IsInstanceOff0(Edge(s, t, InstanceTag(OffsetExpression(offset, <<x>>))))
BY DEF IsInstanceOff0, AtOffset, OffsetExpression, Edge, InstanceTag

InChain(sys, e, f) ==
  /\ ~IsEqualityEdge(f) /\ ~IsInstanceOff0(f)
  /\ \E i \in 1..Len(e.tag.OE.Strides) :
       f.src = NodeChain(sys, e, i) /\ f.tgt = NodeChain(sys, e, i - 1)

(* The nodes of the chain are the parent, the child and new ones.           *)
LEMMA DecomposedIsSound ==
  ASSUME NEW sys, WellFormed(sys), LinksBothWays(sys.Succ), NEW e \in manyStrides(sys)
  PROVE  LET new == decomposed(sys, e) IN
         /\ WellFormed(new) /\ LinksBothWays(new.Succ)
         /\ \A f \in new.Succ : (f \in sys.Succ /\ f # e) \/ InChain(sys, e, f)
         /\ \A f \in sys.Succ : f = e \/ f \in new.Succ
         /\ \A m \in new.Layouts : \/ m \in sys.Layouts
                                   \/ \E i \in 1..(Len(e.tag.OE.Strides) - 1) : m = NodeChain(sys, e, i)
         /\ \A m \in sys.Layouts : m \in new.Layouts
         /\ \A i \in 0..Len(e.tag.OE.Strides) : NodeChain(sys, e, i) \in new.Layouts
<1> DEFINE layers == Len(e.tag.OE.Strides)
           fresh == {NodeChain(sys, e, i) : i \in 1..(layers - 1)}
           chain == {chainEdge(sys, e, i) : i \in 1..layers}
           created == [sys EXCEPT !.NID = @ + layers - 1, !.Layouts = @ \cup fresh]
           linked == withEdges(created, chain)
           cut == withoutEdges(linked, {e})
           new == decomposed(sys, e)
<1>1. /\ e \in sys.Succ /\ IsInstanceEdge(e) /\ layers >= 2 /\ layers \in Nat
      /\ e.src \in sys.Layouts /\ e.tgt \in sys.Layouts
  BY DEF manyStrides, WellFormed, Joins, IsTag
<1>2. \A i \in 0..layers : NodeChain(sys, e, i) =
        IF i = 0 THEN e.tgt ELSE IF i = layers THEN e.src ELSE sys.NID + i - 1
  BY DEF NodeChain
<1>3. /\ HasFields(created) /\ created.NID = sys.NID + layers - 1
      /\ created.Layouts = sys.Layouts \cup fresh
      /\ created.Succ = sys.Succ /\ created.Pred = sys.Pred
  BY DEF WellFormed, HasFields
<1>4. sys.NID \in Nat /\ \A n \in sys.Layouts : n \in Nat /\ n < sys.NID
  BY DEF WellFormed
<1> HIDE DEF layers
<1>5. \A n \in fresh : n \in Nat /\ n < created.NID
  BY <1>1, <1>2, <1>3, <1>4
<1>6. \A i \in 0..layers : NodeChain(sys, e, i) \in created.Layouts
  <2> SUFFICES ASSUME NEW i \in 0..layers PROVE NodeChain(sys, e, i) \in created.Layouts
    OBVIOUS
  <2>1. CASE i = 0 \/ i = layers
    BY <2>1, <1>1, <1>2, <1>3
  <2>2. CASE i \in 1..(layers - 1)
    BY <2>2, <1>3
  <2> QED  BY <1>1, <2>1, <2>2
<1> HIDE DEF created, fresh
<1>7. WellFormed(created)
  <2>1. created.NID \in Nat
    BY <1>1, <1>3, <1>4
  <2>2. \A n \in created.Layouts : n \in Nat /\ n < created.NID
    BY <1>1, <1>3, <1>4, <1>5
  <2>3. \A f \in created.Succ : Joins(f, created.Layouts)
    BY <1>3 DEF WellFormed, Joins
  <2> QED  BY <1>3, <2>1, <2>2, <2>3 DEF WellFormed
<1>8. \A i \in 1..layers : NodeChain(sys, e, i) # NodeChain(sys, e, i - 1)
  <2> SUFFICES ASSUME NEW i \in 1..layers PROVE NodeChain(sys, e, i) # NodeChain(sys, e, i - 1)
    OBVIOUS
  <2>1. i \in 0..layers /\ i - 1 \in 0..layers
    BY <1>1
  <2> QED  BY <1>1, <1>2, <1>4, <2>1
<1>9. \A f \in chain : Joins(f, created.Layouts) /\ InChain(sys, e, f)
  <2> SUFFICES ASSUME NEW i \in 1..layers
               PROVE  LET f == chainEdge(sys, e, i) IN Joins(f, created.Layouts) /\ InChain(sys, e, f)
    OBVIOUS
  <2>1. i \in 0..layers /\ i - 1 \in 0..layers
    BY <1>1
  <2>2. PICK offset : chainEdge(sys, e, i) =
          Edge(NodeChain(sys, e, i), NodeChain(sys, e, i - 1),
               InstanceTag(OffsetExpression(offset, <<layerOf(e, i)>>)))
    BY DEF chainEdge
  <2>3. Len(OffsetExpression(offset, <<layerOf(e, i)>>).Strides) \in Nat
    BY DEF OffsetExpression
  <2> DEFINE f == chainEdge(sys, e, i)
  <2>4. /\ f.src = NodeChain(sys, e, i) /\ f.tgt = NodeChain(sys, e, i - 1)
        /\ ~IsEqualityEdge(f) /\ ~IsInstanceOff0(f)
    BY <2>2, EdgeFields, TagsTellKinds, StridedIsNotAtOffset0
  <2>5. Joins(f, created.Layouts)
    BY <1>6, <1>8, <2>1, <2>2, <2>3, EdgeFields, TagFields DEF Joins
  <2> HIDE DEF f
  <2>6. InChain(sys, e, f)
    BY <2>4 DEF InChain, layers
  <2> QED  BY <2>5, <2>6 DEF f
<1> HIDE DEF chain
<1>10. /\ WellFormed(linked) /\ linked.Layouts = created.Layouts
       /\ \A f : f \in linked.Succ <=> f \in sys.Succ \/ f \in chain
  BY <1>3, <1>7, <1>9, WithEdgesFields
<1> HIDE DEF linked
<1>11. LinksBothWays(linked.Succ)
  BY <1>9, <1>10, OtherLinksKeepSymmetry DEF InChain
<1>12. \A f \in {e} : ~IsEqualityEdge(f)
  BY <1>1 DEF IsInstanceEdge, IsEqualityEdge
<1>13. /\ WellFormed(cut) /\ LinksBothWays(cut.Succ) /\ cut.Layouts = linked.Layouts
       /\ \A f : f \in cut.Succ <=> f \in linked.Succ /\ f \notin {e}
  BY <1>10, <1>11, <1>12, WithoutIsSound, WithoutEdgesFields
<1> HIDE DEF cut
<1>14. \E sizes : new = [cut EXCEPT !.Size = sizes]
  BY DEF decomposed, cut, linked, chain, created, fresh, layers
<1>15. SameGraph(new, cut)
  BY <1>13, <1>14, SetFields DEF WellFormed
<1> HIDE DEF new
<1>16. new.Succ = cut.Succ /\ new.Layouts = created.Layouts
  BY <1>10, <1>13, <1>15 DEF SameGraph
<1>17. WellFormed(new) /\ LinksBothWays(new.Succ)
  BY <1>13, <1>15, SameGraphIsWellFormed DEF SameGraph
<1>18. /\ \A f \in new.Succ : (f \in sys.Succ /\ f # e) \/ InChain(sys, e, f)
       /\ \A f \in sys.Succ : f = e \/ f \in new.Succ
  BY <1>9, <1>10, <1>13, <1>16
<1>19. /\ \A m \in new.Layouts : \/ m \in sys.Layouts
                                 \/ \E i \in 1..(layers - 1) : m = NodeChain(sys, e, i)
       /\ \A m \in sys.Layouts : m \in new.Layouts
       /\ \A i \in 0..layers : NodeChain(sys, e, i) \in new.Layouts
  BY <1>3, <1>6, <1>16 DEF fresh
<1> QED  BY <1>17, <1>18, <1>19 DEF new, layers

LEMMA DecomposeKeepsInv == IInv /\ (Decompose \/ DecomposeDone) => IInv'
<1> SUFFICES ASSUME IInv, Decompose \/ DecomposeDone PROVE IInv'
  OBVIOUS
<1>1. /\ step \in DOMAIN Schedule /\ Schedule[step] # "CollapseEqualitySCC"
      /\ label \notin CollapseLabels /\ label = "start"
  BY DEF Decompose, DecomposeDone, At, CollapseLabels
<1>2. WellFormed(ts) /\ LinksBothWays(ts.Succ)
  BY <1>1, SoundOutsideCollapse
<1>3. CASE Decompose
  <2>1. PICK e \in manyStrides(ts) : ts' = decomposed(ts, e)
    BY <1>3 DEF Decompose
  <2>2. step' = step /\ label' = label /\ KeepFrontend
    BY <1>1, <1>3 DEF Decompose, Goto
  <2>3. /\ WellFormed(ts') /\ LinksBothWays(ts'.Succ)
        /\ \A f \in ts'.Succ : f \in ts.Succ \/ ~IsEqualityEdge(f)
    BY <1>2, <2>1, DecomposedIsSound DEF InChain
  <2>4. NoEqualityIsLeft'
    BY <2>2, <2>3 DEF IInv, NoEqualityIsLeft, JustDone
  <2> QED  BY <1>1, <2>2, <2>3, <2>4, OtherStepKeepsInv DEF KeepFrontend
<1>4. CASE DecomposeDone
  <2>1. EndStep /\ UNCHANGED frontendVars
    BY <1>4 DEF DecomposeDone
  <2> QED  BY <1>1, <1>2, <2>1, EndKeepsInv DEF frontendVars, KeepFrontend
<1> QED  BY <1>3, <1>4

------------------------------------------------------------------------------
(* Components.                                                              *)
LEMMA ReachAlongEdge ==
  ASSUME NEW edges, IsFiniteSet({e.tgt : e \in edges}), NEW e \in edges
  PROVE  \A m \in reachable(edges, e.tgt) : m \in reachable(edges, e.src)
<1>1. e.tgt \in reachable(edges, e.src) /\ Closed(edges, reachable(edges, e.src))
  BY ReachableIsLeastClosed DEF Closed
<1>2. reachable(edges, e.tgt) \subseteq reachable(edges, e.src)
  BY <1>1, ReachableIsLeastClosed
<1> QED  BY <1>2

LEMMA LiveNodesAreFinite ==
  ASSUME NEW sys, WellFormed(sys)
  PROVE  /\ IsFiniteSet(sys.Layouts)
         /\ \A edges : edges \subseteq sys.Succ => IsFiniteSet({e.tgt : e \in edges})
<1>1. IsFiniteSet(0..sys.NID)
  BY FS_Interval DEF WellFormed
<1>2. sys.Layouts \subseteq 0..sys.NID
  BY DEF WellFormed
<1>3. \A edges : edges \subseteq sys.Succ => {e.tgt : e \in edges} \subseteq 0..sys.NID
  BY <1>2 DEF WellFormed, Joins
<1> QED  BY <1>1, <1>2, <1>3, FS_Subset

LEMMA ComponentsAreApart ==
  ASSUME NEW sys, NEW edges
  PROVE  /\ Apart(sys, components(sys, edges), {})
         /\ \A C \in components(sys, edges) : \A m, n \in C :
              reachable(edges, m) = reachable(edges, n)
<1> DEFINE reach == [n \in sys.Layouts |-> reachable(edges, n)]
           scc(n) == {m \in sys.Layouts : reach[m] = reach[n]}
<1>1. \A C \in components(sys, edges) : \E n \in sys.Layouts : C = scc(n)
  BY DEF components
<1>2. \A n \in sys.Layouts : reach[n] = reachable(edges, n)
  OBVIOUS
<1> HIDE DEF reach
<1>3. \A C \in components(sys, edges) : \A m, n \in C :
        m \in sys.Layouts /\ n \in sys.Layouts /\ reach[m] = reach[n]
  BY <1>1
<1>4. ASSUME NEW C \in components(sys, edges), NEW D \in components(sys, edges), C # D, NEW n \in C
      PROVE  n \notin D
  <2>1. PICK c \in sys.Layouts : C = scc(c)
    BY <1>1
  <2>2. PICK d \in sys.Layouts : D = scc(d)
    BY <1>1
  <2>3. reach[c] # reach[d]
    BY <1>4, <2>1, <2>2
  <2> QED  BY <1>4, <2>1, <2>2, <2>3
<1> QED  BY <1>2, <1>3, <1>4 DEF Apart

LEMMA SameReachSameComponent ==
  ASSUME NEW sys, WellFormed(sys), NEW edges,
         NEW m \in sys.Layouts, NEW n \in sys.Layouts, m # n,
         reachable(edges, m) = reachable(edges, n)
  PROVE  \E C \in components(sys, edges) : m \in C /\ n \in C
<1> DEFINE reach == [x \in sys.Layouts |-> reachable(edges, x)]
           C == {x \in sys.Layouts : reach[x] = reach[n]}
<1>1. m \in C /\ n \in C
  OBVIOUS
<1>2. IsFiniteSet(C) /\ Cardinality(C) > 1
  <2>1. IsFiniteSet(C)
    BY LiveNodesAreFinite, FS_Subset
  <2>2. {m, n} \subseteq C
    BY <1>1
  <2>3. Cardinality({m, n}) = 2
    <3>1. IsFiniteSet({m}) /\ Cardinality({m}) = 1 /\ n \notin {m}
      BY FS_Singleton
    <3>2. Cardinality({m} \cup {n}) = 2
      BY <3>1, FS_AddElement
    <3>3. {m} \cup {n} = {m, n}
      OBVIOUS
    <3> QED  BY <3>2, <3>3
  <2> HIDE DEF C
  <2> QED  BY <2>1, <2>2, <2>3, FS_Subset, FS_CardinalityType
<1>3. components(sys, edges)
        = {D \in {{x \in sys.Layouts : reach[x] = reach[k]} : k \in sys.Layouts} : Cardinality(D) > 1}
  BY DEF components
<1>4. C \in {{x \in sys.Layouts : reach[x] = reach[k]} : k \in sys.Layouts}
  OBVIOUS
<1> HIDE DEF C, reach
<1> QED  BY <1>1, <1>2, <1>3, <1>4

(* The two ends of an equality edge reach each other.                       *)
LEMMA EqualitiesAreInComponents ==
  ASSUME NEW sys, WellFormed(sys), LinksBothWays(sys.Succ), NEW e \in Equalities(sys)
  PROVE  \E C \in components(sys, Equalities(sys)) : Within(e, C)
<1> DEFINE E == Equalities(sys)
<1>1. E \subseteq sys.Succ
  BY DEF Equalities
<1>2. PICK f \in E : f.src = e.tgt /\ f.tgt = e.src
  BY DEF Equalities, LinksBothWays
<1>3. IsFiniteSet({d.tgt : d \in E})
  BY <1>1, LiveNodesAreFinite
<1>4. e.src \in sys.Layouts /\ e.tgt \in sys.Layouts /\ e.src # e.tgt
  BY <1>1 DEF WellFormed, Joins
<1>5. /\ \A m \in reachable(E, e.tgt) : m \in reachable(E, e.src)
      /\ \A m \in reachable(E, e.src) : m \in reachable(E, e.tgt)
  <2>1. e \in E /\ f \in E
    OBVIOUS
  <2> HIDE DEF E
  <2>2. \A d \in E : \A m \in reachable(E, d.tgt) : m \in reachable(E, d.src)
    BY <1>3, ReachAlongEdge
  <2> QED  BY <1>2, <2>1, <2>2
<1>6. reachable(E, e.src) = reachable(E, e.tgt)
  BY <1>5
<1> QED  BY <1>4, <1>6, SameReachSameComponent DEF Within

------------------------------------------------------------------------------
(* What each action of the two collapsing steps does to the state of the    *)
(* loop, and to the set of edges that are left to collapse.                 *)
LEMMA OneSCCState ==
  ASSUME NEW sys, NEW w, CollapseState(sys, "collapse", w),
         NEW C \in w.ToCollapse, NEW L, L \subseteq C, NEW first \in L,
         NEW v, v = [ToCollapse |-> w.ToCollapse \ {C}, First |-> first,
                     ToMerge |-> L \ {first}, Smaller |-> C \ L]
  PROVE  /\ CollapseState(sys, "merge", v)
         /\ NodesToMerge(v) = C
         /\ \A E : LeftIn(E, "collapse", w) => LeftIn(E, "merge", v)
<1>1. /\ v.ToCollapse = w.ToCollapse \ {C} /\ v.First = first
      /\ v.ToMerge = L \ {first} /\ v.Smaller = C \ L
  OBVIOUS
<1>2. v = [ToCollapse |-> v.ToCollapse, First |-> v.First,
           ToMerge |-> v.ToMerge, Smaller |-> v.Smaller]
  OBVIOUS
<1>3. NodesToMerge(v) = C
  BY <1>1 DEF NodesToMerge
<1>4. Apart(sys, v.ToCollapse, C)
  BY <1>1 DEF CollapseState, Apart
<1>5. CollapseState(sys, "merge", v)
  BY <1>1, <1>2, <1>3, <1>4 DEF CollapseState
<1>6. ASSUME NEW E, LeftIn(E, "collapse", w), NEW e \in E
      PROVE  LeftToCollapse(e, v) \/ Within(e, C)
  BY <1>1, <1>6 DEF LeftIn, LeftToCollapse
<1> QED  BY <1>3, <1>5, <1>6 DEF LeftIn

(* The edges of more come from those of edges once from is called into.     *)
Renames(edges, more, into, from) ==
  \A q \in more : q.src # q.tgt /\
    \E e \in edges : q.src = renamed(e.src, into, from) /\ q.tgt = renamed(e.tgt, into, from)

LEMMA MergeState ==
  ASSUME NEW sys, NEW w, CollapseState(sys, "merge", w), NEW n \in NodesToMerge(w), n # w.First,
         NEW new, \A m : m \in new.Layouts <=> m \in sys.Layouts /\ m # n
  PROVE  /\ Apart(new, w.ToCollapse, NodesToMerge(w) \ {n})
         /\ \A E, F : Renames(E, F, w.First, n) /\ LeftIn(E, "merge", w) =>
              \A q \in F : LeftToCollapse(q, w) \/ Within(q, NodesToMerge(w) \ {n})
<1>1. Apart(sys, w.ToCollapse, NodesToMerge(w)) /\ w.First \in NodesToMerge(w)
  BY DEF CollapseState, NodesToMerge
<1>2. Apart(new, w.ToCollapse, NodesToMerge(w) \ {n})
  BY <1>1 DEF Apart
<1>3. ASSUME NEW E, NEW F, Renames(E, F, w.First, n), LeftIn(E, "merge", w), NEW q \in F
      PROVE  LeftToCollapse(q, w) \/ Within(q, NodesToMerge(w) \ {n})
  <2>1. PICK e \in E : q.src = renamed(e.src, w.First, n) /\ q.tgt = renamed(e.tgt, w.First, n)
    BY <1>3 DEF Renames
  <2>2. CASE LeftToCollapse(e, w)
    <3>1. PICK C \in w.ToCollapse : e.src \in C /\ e.tgt \in C
      BY <2>2 DEF LeftToCollapse, Within
    <3>2. q.src = e.src /\ q.tgt = e.tgt
      BY <1>1, <2>1, <3>1 DEF Apart, renamed
    <3> QED  BY <3>1, <3>2 DEF LeftToCollapse, Within
  <2>3. CASE Within(e, NodesToMerge(w))
    BY <1>1, <2>1, <2>3 DEF Within, renamed
  <2> QED  BY <1>3, <2>2, <2>3 DEF LeftIn
<1> QED  BY <1>2, <1>3

LEMMA LeadersState ==
  ASSUME NEW sys, NEW w, NEW smaller, w.First \notin smaller,
         Apart(sys, w.ToCollapse, {w.First} \cup smaller), LinksBothWays(sys.Succ),
         NEW l, NEW v,
         IF smaller = {} THEN l = "collapse" /\ v = [ToCollapse |-> w.ToCollapse]
         ELSE l = "chain" /\ v = [ToCollapse |-> w.ToCollapse, Leaders |-> {w.First} \cup smaller,
                                  Leader |-> w.First, Left |-> smaller]
  PROVE  /\ CollapseState(sys, l, v) /\ Symmetric(sys, l, v)
         /\ \A E : (\A q \in E : /\ q.src # q.tgt
                                 /\ LeftToCollapse(q, w) \/ Within(q, {w.First} \cup smaller)) =>
              LeftIn(E, l, v)
<1>1. CASE smaller = {}
  <2>1. l = "collapse" /\ v = [ToCollapse |-> v.ToCollapse] /\ v.ToCollapse = w.ToCollapse
    BY <1>1
  <2>2. Apart(sys, v.ToCollapse, {})
    BY <2>1 DEF Apart
  <2>3. CollapseState(sys, l, v) /\ Symmetric(sys, l, v)
    BY <2>1, <2>2 DEF CollapseState, Symmetric
  <2>4. ASSUME NEW q, q.src # q.tgt, LeftToCollapse(q, w) \/ Within(q, {w.First} \cup smaller)
        PROVE  LeftToCollapse(q, v)
    BY <1>1, <2>1, <2>4 DEF LeftToCollapse, Within
  <2> QED  BY <2>1, <2>3, <2>4 DEF LeftIn
<1>2. CASE smaller # {}
  <2>1. /\ l = "chain" /\ v.ToCollapse = w.ToCollapse /\ v.Leaders = {w.First} \cup smaller
        /\ v.Leader = w.First /\ v.Left = smaller
    BY <1>2
  <2>2. v = [ToCollapse |-> v.ToCollapse, Leaders |-> v.Leaders, Leader |-> v.Leader, Left |-> v.Left]
    BY <1>2
  <2>3. CollapseState(sys, l, v)
    BY <2>1, <2>2 DEF CollapseState
  <2>4. \A e : Within(e, v.Leaders) <=> Unchained(e, v)
    BY <2>1 DEF Within, Unchained
  <2>5. Symmetric(sys, l, v)
    BY <2>1, <2>4 DEF Symmetric, Equalities, LinksBothWays
  <2>6. \A e : LeftToCollapse(e, v) <=> LeftToCollapse(e, w)
    BY <2>1 DEF LeftToCollapse
  <2> QED  BY <2>1, <2>3, <2>4, <2>5, <2>6 DEF LeftIn
<1> QED  BY <1>1, <1>2

(* The edges of more are among those of edges, but for those that went from *)
(* the leader to the others.                                                *)
LEMMA ChainState ==
  ASSUME NEW sys, NEW w, CollapseState(sys, "chain", w), NEW new, new.Layouts = sys.Layouts,
         NEW l, NEW v,
         IF w.Left = {} THEN l = "collapse" /\ v = [ToCollapse |-> w.ToCollapse]
         ELSE \E n \in w.Left : l = "chain" /\ v = [w EXCEPT !.Leader = n, !.Left = @ \ {n}]
  PROVE  /\ CollapseState(new, l, v)
         /\ \A E, F : (\A q \in F : q \in E /\ ~(q.src = w.Leader /\ q.tgt \in w.Leaders))
                        /\ LeftIn(E, "chain", w) => LeftIn(F, l, v)
<1>1. CASE w.Left = {}
  <2>1. l = "collapse" /\ v = [ToCollapse |-> v.ToCollapse] /\ v.ToCollapse = w.ToCollapse
    BY <1>1
  <2>2. CollapseState(new, l, v)
    BY <2>1 DEF CollapseState, Apart
  <2>3. ASSUME NEW q, LeftToCollapse(q, w) \/ Unchained(q, w), ~(q.src = w.Leader /\ q.tgt \in w.Leaders)
        PROVE  LeftToCollapse(q, v)
    BY <1>1, <2>1, <2>3 DEF LeftToCollapse, Unchained
  <2> QED  BY <2>1, <2>2, <2>3 DEF LeftIn
<1>2. CASE w.Left # {}
  <2>1. PICK n \in w.Left : l = "chain" /\ v = [w EXCEPT !.Leader = n, !.Left = @ \ {n}]
    BY <1>2
  <2>2. w = [ToCollapse |-> w.ToCollapse, Leaders |-> w.Leaders, Leader |-> w.Leader, Left |-> w.Left]
    BY DEF CollapseState
  <2>3. /\ v.ToCollapse = w.ToCollapse /\ v.Leaders = w.Leaders
        /\ v.Leader = n /\ v.Left = w.Left \ {n}
        /\ v = [ToCollapse |-> v.ToCollapse, Leaders |-> v.Leaders, Leader |-> v.Leader, Left |-> v.Left]
    BY <2>1, <2>2
  <2>4. CollapseState(new, l, v)
    BY <2>1, <2>3 DEF CollapseState, Apart
  <2>5. ASSUME NEW q, LeftToCollapse(q, w) \/ Unchained(q, w), ~(q.src = w.Leader /\ q.tgt \in w.Leaders)
        PROVE  LeftToCollapse(q, v) \/ Unchained(q, v)
    BY <2>3, <2>5 DEF LeftToCollapse, Unchained
  <2> QED  BY <2>1, <2>4, <2>5 DEF LeftIn
<1> QED  BY <1>1, <1>2

LEMMA CollapseStepKeepsInv ==
  ASSUME IInv, step \in DOMAIN Schedule, step' = step, KeepFrontend, WellFormed(ts'),
         label' \in CollapseLabels,
         CollapseState(ts', label', work'), Symmetric(ts', label', work'),
         Running("CollapseEqualitySCC") => LeftIn(Equalities(ts'), label', work')
  PROVE  IInv'
<1>1. step # 0
  BY StepsAreIndices
<1>2. TypeInv'
  BY <1>1 DEF IInv, TypeInv, KeepFrontend
<1>3. NoEqualityIsLeft'
  BY DEF NoEqualityIsLeft, JustDone, CollapseLabels
<1> QED  BY <1>2, <1>3 DEF IInv, Running

LEMMA FindSCCsKeepsInv == IInv /\ FindSCCs => IInv'
<1> SUFFICES ASSUME IInv, FindSCCs PROVE IInv'
  OBVIOUS
<1>1. /\ step \in DOMAIN Schedule /\ label = "start" /\ step' = step /\ label' = "collapse"
      /\ work' = [ToCollapse |-> components(ts, CollapsedEdges(ts))]
      /\ UNCHANGED frontendVars
  BY DEF FindSCCs, At, Goto, ToCollapse
<1>2. WellFormed(ts) /\ LinksBothWays(ts.Succ) /\ ts' = ts
  BY <1>1, SoundOutsideCollapse DEF CollapseLabels, frontendVars
<1>3. CollapseState(ts', label', work')
  BY <1>1, <1>2, ComponentsAreApart DEF CollapseState
<1>4. ASSUME Running("CollapseEqualitySCC") PROVE LeftIn(Equalities(ts'), label', work')
  <2>1. CollapsedEdges(ts) = Equalities(ts)
    BY <1>4 DEF CollapsedEdges, Equalities, Running
  <2>2. \A e \in Equalities(ts) : LeftToCollapse(e, work')
    BY <1>1, <1>2, <2>1, EqualitiesAreInComponents DEF LeftToCollapse
  <2> QED  BY <1>1, <1>2, <2>2 DEF LeftIn
<1>5. Symmetric(ts', label', work')
  BY <1>1, <1>2 DEF Symmetric
<1> QED  BY <1>1, <1>2, <1>3, <1>4, <1>5, CollapseStepKeepsInv DEF CollapseLabels, frontendVars, KeepFrontend

LEMMA CollapseOneSCCKeepsInv == IInv /\ CollapseOneSCC => IInv'
<1> SUFFICES ASSUME IInv, CollapseOneSCC PROVE IInv'
  OBVIOUS
<1>0. PICK C \in work.ToCollapse : \E first \in largest(C) :
        Goto("merge", [ToCollapse |-> work.ToCollapse \ {C}, First |-> first,
                       ToMerge |-> largest(C) \ {first}, Smaller |-> C \ largest(C)])
  BY DEF CollapseOneSCC
<1>1. PICK first \in largest(C) :
        Goto("merge", [ToCollapse |-> work.ToCollapse \ {C}, First |-> first,
                       ToMerge |-> largest(C) \ {first}, Smaller |-> C \ largest(C)])
  BY <1>0
<1>2. /\ step \in DOMAIN Schedule /\ label = "collapse" /\ step' = step /\ label' = "merge"
      /\ UNCHANGED frontendVars /\ ts' = ts
  BY <1>1 DEF CollapseOneSCC, At, Goto, frontendVars
<1>3. WellFormed(ts) /\ CollapseState(ts, "collapse", work) /\ Symmetric(ts, "collapse", work)
  BY <1>2 DEF IInv, TypeInv
<1>4. largest(C) \subseteq C
  BY DEF largest
<1>5. /\ CollapseState(ts, "merge", work')
      /\ \A E : LeftIn(E, "collapse", work) => LeftIn(E, "merge", work')
  BY <1>1, <1>3, <1>4, OneSCCState DEF Goto
<1>6. Running("CollapseEqualitySCC") => LeftIn(Equalities(ts'), label', work')
  BY <1>2, <1>5 DEF IInv
<1>7. Symmetric(ts', label', work')
  BY <1>2, <1>3 DEF Symmetric
<1> QED  BY <1>2, <1>3, <1>5, <1>6, <1>7, CollapseStepKeepsInv DEF CollapseLabels, frontendVars, KeepFrontend

(* The graph once n has been merged into the first node.                    *)
LEMMA MergedGraph ==
  ASSUME IInv, label = "merge", NEW n \in NodesToMerge(work), n # work.First
  PROVE  LET new == mergeNode(ts, work.First, n) IN
         /\ WellFormed(new) /\ LinksBothWays(new.Succ)
         /\ \A m : m \in new.Layouts <=> m \in ts.Layouts /\ m # n
         /\ new.Succ = quotient(ts.Succ, work.First, n)
         /\ Renames(Equalities(ts), Equalities(new), work.First, n)
<1>1. WellFormed(ts) /\ LinksBothWays(ts.Succ)
  BY DEF IInv, TypeInv, Symmetric
<1>2. n \in ts.Layouts /\ work.First \in ts.Layouts
  BY DEF IInv, CollapseState, Apart, NodesToMerge
<1> DEFINE new == mergeNode(ts, work.First, n)
<1>3. WellFormed(new) /\ LinksBothWays(new.Succ)
  BY <1>1, <1>2, MergeIsSound
<1>4. /\ \A m : m \in new.Layouts <=> m \in ts.Layouts /\ m # n
      /\ new.Succ = quotient(ts.Succ, work.First, n)
  BY <1>1, <1>2, MergeNodeFields
<1> HIDE DEF new
<1>5. Renames(Equalities(ts), Equalities(new), work.First, n)
  BY <1>4, QuotientEdges DEF Renames, Equalities, IsEqualityEdge
<1> QED  BY <1>3, <1>4, <1>5 DEF new

LEMMA MergeSameSizeKeepsInv == IInv /\ MergeSameSize => IInv'
<1> SUFFICES ASSUME IInv, MergeSameSize PROVE IInv'
  OBVIOUS
<1>1. PICK n \in work.ToMerge :
        IF sizesAllowMerge(ts, work.First, n)
        THEN /\ ts' = mergeNode(ts, work.First, n)
             /\ Goto("merge", [work EXCEPT !.ToMerge = @ \ {n}])
             /\ KeepFrontend
        ELSE Fail("mergeNodes")
  BY DEF MergeSameSize
<1>2. step \in DOMAIN Schedule /\ label = "merge"
  BY DEF MergeSameSize, At
<1>3. CASE Fail("mergeNodes")
  BY <1>3, FailKeepsInv DEF Fail
<1>4. CASE /\ ts' = mergeNode(ts, work.First, n)
           /\ Goto("merge", [work EXCEPT !.ToMerge = @ \ {n}])
           /\ KeepFrontend
  <2>1. CollapseState(ts, "merge", work)
    BY <1>2 DEF IInv
  <2>2. n \in NodesToMerge(work) /\ n # work.First
    BY <2>1 DEF CollapseState, NodesToMerge
  <2>3. /\ WellFormed(ts') /\ LinksBothWays(ts'.Succ)
        /\ \A m : m \in ts'.Layouts <=> m \in ts.Layouts /\ m # n
        /\ Renames(Equalities(ts), Equalities(ts'), work.First, n)
    BY <1>2, <1>4, <2>2, MergedGraph
  <2>4. /\ work' = [ToCollapse |-> work'.ToCollapse, First |-> work'.First,
                    ToMerge |-> work'.ToMerge, Smaller |-> work'.Smaller]
        /\ work'.ToCollapse = work.ToCollapse /\ work'.First = work.First
        /\ work'.ToMerge = work.ToMerge \ {n} /\ work'.Smaller = work.Smaller
    BY <1>4, <2>1 DEF Goto, CollapseState
  <2>5. NodesToMerge(work') = NodesToMerge(work) \ {n}
    BY <2>1, <2>4 DEF NodesToMerge, CollapseState
  <2>6. /\ Apart(ts', work.ToCollapse, NodesToMerge(work) \ {n})
        /\ \A E, F : Renames(E, F, work.First, n) /\ LeftIn(E, "merge", work) =>
              \A q \in F : LeftToCollapse(q, work) \/ Within(q, NodesToMerge(work) \ {n})
    BY <2>1, <2>2, <2>3, MergeState
  <2>7. CollapseState(ts', "merge", work')
    BY <2>1, <2>4, <2>5, <2>6 DEF CollapseState
  <2>8. Running("CollapseEqualitySCC") => LeftIn(Equalities(ts'), "merge", work')
    BY <1>2, <2>3, <2>4, <2>5, <2>6 DEF IInv, LeftIn, LeftToCollapse
  <2>9. label' = "merge" /\ step' = step /\ Symmetric(ts', "merge", work')
    BY <1>4, <2>3 DEF Goto, Symmetric
  <2> QED  BY <1>2, <1>4, <2>3, <2>7, <2>8, <2>9, CollapseStepKeepsInv DEF CollapseLabels
<1> QED  BY <1>1, <1>3, <1>4

LEMMA LeadersLeftState ==
  ASSUME NEW smaller, LeadersLeft(smaller)
  PROVE  /\ step' = step /\ label' \in CollapseLabels
         /\ IF smaller = {}
            THEN label' = "collapse" /\ work' = [ToCollapse |-> work.ToCollapse]
            ELSE /\ label' = "chain"
                 /\ work' = [ToCollapse |-> work.ToCollapse, Leaders |-> {work.First} \cup smaller,
                             Leader |-> work.First, Left |-> smaller]
BY DEF LeadersLeft, Goto, CollapseLabels

LEMMA MergeLastLeaderKeepsInv == IInv /\ MergeLastLeader => IInv'
<1> SUFFICES ASSUME IInv, MergeLastLeader PROVE IInv'
  OBVIOUS
<1>1. PICK n \in work.Smaller :
        IF sizesAllowMerge(ts, work.First, n)
        THEN ts' = mergeNode(ts, work.First, n) /\ LeadersLeft(work.Smaller \ {n}) /\ KeepFrontend
        ELSE Fail("mergeNodes")
  BY DEF MergeLastLeader
<1>2. step \in DOMAIN Schedule /\ label = "merge" /\ work.ToMerge = {}
  BY DEF MergeLastLeader, At
<1>3. CASE Fail("mergeNodes")
  BY <1>3, FailKeepsInv DEF Fail
<1>4. CASE ts' = mergeNode(ts, work.First, n) /\ LeadersLeft(work.Smaller \ {n}) /\ KeepFrontend
  <2> DEFINE smaller == work.Smaller \ {n}
  <2>1. CollapseState(ts, "merge", work)
    BY <1>2 DEF IInv
  <2>2. n \in NodesToMerge(work) /\ n # work.First /\ work.First \notin smaller
    BY <2>1 DEF CollapseState, NodesToMerge
  <2>3. /\ WellFormed(ts') /\ LinksBothWays(ts'.Succ)
        /\ \A m : m \in ts'.Layouts <=> m \in ts.Layouts /\ m # n
        /\ Renames(Equalities(ts), Equalities(ts'), work.First, n)
    BY <1>2, <1>4, <2>2, MergedGraph
  <2>4. NodesToMerge(work) \ {n} = {work.First} \cup smaller
    BY <1>2, <2>2 DEF NodesToMerge
  <2> HIDE DEF smaller
  <2>10. /\ Apart(ts', work.ToCollapse, NodesToMerge(work) \ {n})
         /\ \A E, F : Renames(E, F, work.First, n) /\ LeftIn(E, "merge", work) =>
               \A q \in F : LeftToCollapse(q, work) \/ Within(q, NodesToMerge(work) \ {n})
    BY <2>1, <2>2, <2>3, MergeState
  <2>5. /\ Apart(ts', work.ToCollapse, {work.First} \cup smaller)
        /\ \A E, F : Renames(E, F, work.First, n) /\ LeftIn(E, "merge", work) =>
              \A q \in F : LeftToCollapse(q, work) \/ Within(q, {work.First} \cup smaller)
    BY <2>4, <2>10, Zenon
  <2>6. /\ step' = step /\ label' \in CollapseLabels
        /\ IF smaller = {}
           THEN label' = "collapse" /\ work' = [ToCollapse |-> work.ToCollapse]
           ELSE /\ label' = "chain"
                /\ work' = [ToCollapse |-> work.ToCollapse, Leaders |-> {work.First} \cup smaller,
                            Leader |-> work.First, Left |-> smaller]
    BY <1>4, LeadersLeftState DEF smaller
  <2>7. /\ CollapseState(ts', label', work') /\ Symmetric(ts', label', work')
        /\ \A E : (\A q \in E : /\ q.src # q.tgt
                                /\ LeftToCollapse(q, work) \/ Within(q, {work.First} \cup smaller)) =>
             LeftIn(E, label', work')
    BY <2>2, <2>3, <2>5, <2>6, LeadersState
  <2>8. Running("CollapseEqualitySCC") => LeftIn(Equalities(ts'), label', work')
    BY <1>2, <2>3, <2>5, <2>7 DEF IInv, Renames
  <2> QED  BY <1>2, <1>4, <2>3, <2>6, <2>7, <2>8, CollapseStepKeepsInv
<1> QED  BY <1>1, <1>3, <1>4

LEMMA NothingToMergeKeepsInv == IInv /\ NothingToMerge => IInv'
<1> SUFFICES ASSUME IInv, NothingToMerge PROVE IInv'
  OBVIOUS
<1>1. /\ step \in DOMAIN Schedule /\ label = "merge" /\ work.ToMerge = {}
      /\ LeadersLeft(work.Smaller) /\ UNCHANGED frontendVars
  BY DEF NothingToMerge, At
<1>2. CollapseState(ts, "merge", work) /\ WellFormed(ts) /\ LinksBothWays(ts.Succ) /\ ts' = ts
  BY <1>1 DEF IInv, TypeInv, Symmetric, frontendVars
<1>3. NodesToMerge(work) = {work.First} \cup work.Smaller
  BY <1>1 DEF NodesToMerge
<1>4. /\ Apart(ts', work.ToCollapse, {work.First} \cup work.Smaller)
      /\ work.First \notin work.Smaller
  BY <1>2, <1>3 DEF CollapseState
<1>5. /\ step' = step /\ label' \in CollapseLabels
      /\ IF work.Smaller = {}
         THEN label' = "collapse" /\ work' = [ToCollapse |-> work.ToCollapse]
         ELSE /\ label' = "chain"
              /\ work' = [ToCollapse |-> work.ToCollapse, Leaders |-> {work.First} \cup work.Smaller,
                          Leader |-> work.First, Left |-> work.Smaller]
  BY <1>1, LeadersLeftState
<1>6. /\ CollapseState(ts', label', work') /\ Symmetric(ts', label', work')
      /\ \A E : (\A q \in E : /\ q.src # q.tgt
                              /\ LeftToCollapse(q, work) \/ Within(q, {work.First} \cup work.Smaller)) =>
           LeftIn(E, label', work')
  BY <1>2, <1>4, <1>5, LeadersState
<1>7. ASSUME Running("CollapseEqualitySCC") PROVE LeftIn(Equalities(ts'), label', work')
  <2>1. LeftIn(Equalities(ts), "merge", work)
    BY <1>1, <1>7 DEF IInv
  <2>2. \A q \in Equalities(ts) : LeftToCollapse(q, work) \/ Within(q, {work.First} \cup work.Smaller)
    BY <2>1, <1>3, Zenon DEF LeftIn
  <2>3. \A q \in Equalities(ts) : q.src # q.tgt
    BY <1>2 DEF Equalities, WellFormed, Joins
  <2> QED  BY <1>2, <1>6, <2>2, <2>3
<1> QED  BY <1>1, <1>2, <1>5, <1>6, <1>7, CollapseStepKeepsInv DEF frontendVars, KeepFrontend

(* Equality stays symmetric among the nodes that are not leaders, and has   *)
(* gone from those that are.                                                *)
LEMMA ChainSymmetric ==
  ASSUME NEW sys, NEW w, CollapseState(sys, "chain", w), Symmetric(sys, "chain", w), NEW new,
         \A e : e \in Equalities(new) <=>
                  e \in Equalities(sys) /\ ~(e.src = w.Leader /\ e.tgt \in w.Leaders),
         NEW l, NEW v,
         IF w.Left = {} THEN l = "collapse" /\ v = [ToCollapse |-> w.ToCollapse]
         ELSE \E n \in w.Left : l = "chain" /\ v = [w EXCEPT !.Leader = n, !.Left = @ \ {n}]
  PROVE  Symmetric(new, l, v)
<1>1. ASSUME NEW e \in Equalities(new), ~Within(e, w.Leaders)
      PROVE  \E f \in Equalities(new) : f.src = e.tgt /\ f.tgt = e.src
  <2>1. PICK f \in Equalities(sys) : f.src = e.tgt /\ f.tgt = e.src
    BY <1>1 DEF Symmetric
  <2>2. ~(f.src = w.Leader /\ f.tgt \in w.Leaders)
    BY <1>1, <2>1 DEF Within, CollapseState
  <2> QED  BY <2>1, <2>2
<1>2. ASSUME NEW e \in Equalities(new), Within(e, w.Leaders)
      PROVE  e.src \in w.Left
  BY <1>2 DEF Symmetric, Unchained, Within
<1>3. CASE w.Left = {}
  <2>1. \A e \in Equalities(new) : \E f \in Equalities(new) : f.src = e.tgt /\ f.tgt = e.src
    BY <1>1, <1>2, <1>3
  <2> QED  BY <1>3, <2>1 DEF Symmetric, LinksBothWays, Equalities
<1>4. CASE w.Left # {}
  <2>1. PICK n \in w.Left : l = "chain" /\ v = [w EXCEPT !.Leader = n, !.Left = @ \ {n}]
    BY <1>4
  <2>2. w = [ToCollapse |-> w.ToCollapse, Leaders |-> w.Leaders, Leader |-> w.Leader, Left |-> w.Left]
    BY DEF CollapseState
  <2>3. v.Leaders = w.Leaders /\ v.Leader = n /\ v.Left = w.Left \ {n}
    BY <2>1, <2>2
  <2>4. \A e \in Equalities(new) : Within(e, w.Leaders) => Unchained(e, v)
    BY <1>2, <2>3 DEF Within, Unchained
  <2> QED  BY <1>1, <2>1, <2>3, <2>4 DEF Symmetric
<1> QED  BY <1>3, <1>4

(* The graph once the leader has lost its edges to the others, and may have *)
(* been linked to the next one.                                             *)
ChainedGraph(sys) ==
  /\ WellFormed(sys) /\ sys.Layouts = ts.Layouts
  /\ \A e \in sys.Succ : \/ e \in ts.Succ /\ e \notin edgesToLeaders(work.Leader)
                         \/ \E n \in work.Left : e = Edge(work.Leader, n, InstanceTag(AtOffset(0)))
  /\ \A e \in ts.Succ : e \in sys.Succ \/ e \in edgesToLeaders(work.Leader)

LEMMA ChainLeaderEffect ==
  ASSUME IInv, ChainLeader
  PROVE  /\ step \in DOMAIN Schedule /\ Schedule[step] \in CollapseSteps
         /\ label = "chain" /\ step' = step /\ KeepFrontend
         /\ IF work.Left = {} THEN label' = "collapse" /\ work' = [ToCollapse |-> work.ToCollapse]
            ELSE \E n \in work.Left :
                   label' = "chain" /\ work' = [work EXCEPT !.Leader = n, !.Left = @ \ {n}]
         /\ ChainedGraph(ts')
<1> DEFINE erased == withoutEdges(ts, edgesToLeaders(work.Leader))
<1>1. /\ step \in DOMAIN Schedule /\ Schedule[step] \in CollapseSteps
      /\ label = "chain" /\ step' = step /\ KeepFrontend
  BY DEF ChainLeader, At, Goto
<1>2. WellFormed(ts) /\ CollapseState(ts, "chain", work)
  BY <1>1 DEF IInv, TypeInv
<1>3. /\ WellFormed(erased) /\ erased.Layouts = ts.Layouts
      /\ \A e : e \in erased.Succ <=> e \in ts.Succ /\ e \notin edgesToLeaders(work.Leader)
  BY <1>2, WithoutEdgesFields
<1>4. \/ /\ work.Left = {} /\ ts' = erased
         /\ Goto("collapse", [ToCollapse |-> work.ToCollapse])
      \/ /\ work.Left # {}
         /\ \E smaller \in largest(work.Left) :
              /\ ts' = addInstanceLink(erased, work.Leader, smaller, AtOffset(0))
              /\ Goto("chain", [work EXCEPT !.Leader = smaller, !.Left = @ \ {smaller}])
  BY DEF ChainLeader
<1> HIDE DEF erased
<1>5. CASE work.Left = {}
  BY <1>1, <1>3, <1>4, <1>5 DEF Goto, ChainedGraph
<1>6. CASE work.Left # {}
  <2>1. PICK smaller \in largest(work.Left) :
          /\ ts' = addInstanceLink(erased, work.Leader, smaller, AtOffset(0))
          /\ Goto("chain", [work EXCEPT !.Leader = smaller, !.Left = @ \ {smaller}])
    BY <1>4, <1>6
  <2>2. smaller \in work.Left
    BY DEF largest
  <2>3. smaller \in erased.Layouts /\ work.Leader \in erased.Layouts
    BY <1>2, <1>3, <2>2 DEF CollapseState, Apart
  <2>4. /\ WellFormed(ts') /\ ts'.Layouts = erased.Layouts
        /\ \A e \in erased.Succ : e \in ts'.Succ
        /\ \A e \in ts'.Succ : e \in erased.Succ \/ e = Edge(work.Leader, smaller, InstanceTag(AtOffset(0)))
    BY <1>3, <2>1, <2>3, AddInstanceLinkFields, TagFields, NullIsNoID
  <2>5. ChainedGraph(ts')
    BY <1>3, <2>2, <2>4 DEF ChainedGraph
  <2>6. \E n \in work.Left :
          label' = "chain" /\ work' = [work EXCEPT !.Leader = n, !.Left = @ \ {n}]
    BY <2>1, <2>2 DEF Goto
  <2> QED  BY <1>1, <1>6, <2>5, <2>6
<1> QED  BY <1>5, <1>6

LEMMA ChainLeaderKeepsInv == IInv /\ ChainLeader => IInv'
<1> SUFFICES ASSUME IInv, ChainLeader PROVE IInv'
  OBVIOUS
<1>1. /\ step \in DOMAIN Schedule
      /\ label = "chain" /\ step' = step /\ KeepFrontend
      /\ IF work.Left = {} THEN label' = "collapse" /\ work' = [ToCollapse |-> work.ToCollapse]
         ELSE \E n \in work.Left :
                label' = "chain" /\ work' = [work EXCEPT !.Leader = n, !.Left = @ \ {n}]
      /\ ChainedGraph(ts')
  BY ChainLeaderEffect
<1>2. CollapseState(ts, "chain", work) /\ Symmetric(ts, "chain", work)
  BY <1>1 DEF IInv
<1>3. /\ WellFormed(ts') /\ ts'.Layouts = ts.Layouts
      /\ \A e : e \in Equalities(ts') <=>
                  e \in Equalities(ts) /\ ~(e.src = work.Leader /\ e.tgt \in work.Leaders)
  <2>1. \A e \in ts.Succ : e \in edgesToLeaders(work.Leader) <=>
          ~IsPointerEdge(e) /\ e.src = work.Leader /\ e.tgt \in work.Leaders
    BY DEF edgesToLeaders, SuccessorEdges, IsNotPointerEdge
  <2>2. \A e : IsEqualityEdge(e) => ~IsPointerEdge(e)
    BY DEF IsEqualityEdge, IsPointerEdge
  <2>3. WellFormed(ts') /\ ts'.Layouts = ts.Layouts
    BY <1>1 DEF ChainedGraph
  <2>4. \A e \in ts'.Succ : IsEqualityEdge(e) => e \in ts.Succ /\ e \notin edgesToLeaders(work.Leader)
    <3>1. \A e, n : e = Edge(work.Leader, n, InstanceTag(AtOffset(0))) => ~IsEqualityEdge(e)
      BY TagsTellKinds, Zenon
    <3> QED  BY <1>1, <3>1 DEF ChainedGraph
  <2>5. \A e \in ts.Succ : e \in ts'.Succ \/ e \in edgesToLeaders(work.Leader)
    BY <1>1 DEF ChainedGraph
  <2>6. ASSUME NEW e \in Equalities(ts')
        PROVE  e \in Equalities(ts) /\ ~(e.src = work.Leader /\ e.tgt \in work.Leaders)
    BY <2>1, <2>2, <2>4 DEF Equalities
  <2>7. ASSUME NEW e \in Equalities(ts), ~(e.src = work.Leader /\ e.tgt \in work.Leaders)
        PROVE  e \in Equalities(ts')
    BY <2>1, <2>2, <2>5, <2>7 DEF Equalities
  <2> QED  BY <2>3, <2>6, <2>7
<1>4. Symmetric(ts', label', work')
  BY <1>1, <1>2, <1>3, ChainSymmetric
<1>5. /\ CollapseState(ts', label', work')
      /\ \A E, F : (\A q \in F : q \in E /\ ~(q.src = work.Leader /\ q.tgt \in work.Leaders))
                     /\ LeftIn(E, "chain", work) => LeftIn(F, label', work')
  BY <1>1, <1>2, <1>3, ChainState
<1>6. Running("CollapseEqualitySCC") => LeftIn(Equalities(ts'), label', work')
  BY <1>1, <1>3, <1>5 DEF IInv
<1>7. label' \in CollapseLabels
  BY <1>1 DEF CollapseLabels
<1> QED  BY <1>1, <1>3, <1>4, <1>5, <1>6, <1>7, CollapseStepKeepsInv

LEMMA CollapseDoneKeepsInv == IInv /\ CollapseDone => IInv'
<1> SUFFICES ASSUME IInv, CollapseDone PROVE IInv'
  OBVIOUS
<1>1. /\ step \in DOMAIN Schedule /\ Schedule[step] \in CollapseSteps
      /\ label = "collapse" /\ work.ToCollapse = {}
      /\ UNCHANGED frontendVars
      /\ IF Schedule[step] = "CollapseEqualitySCC" THEN EndStep
         ELSE \E w : Goto("backedges", w)
  BY DEF CollapseDone, At
<1>2. WellFormed(ts') /\ LinksBothWays(ts'.Succ) /\ ts' = ts
  BY <1>1 DEF IInv, TypeInv, Symmetric, frontendVars
<1>3. CASE Schedule[step] = "CollapseEqualitySCC"
  <2>1. LeftIn(Equalities(ts), "collapse", work)
    BY <1>1, <1>3 DEF IInv, Running
  <2>2. \A e \in ts'.Succ : ~IsEqualityEdge(e)
    BY <1>1, <1>2, <2>1 DEF LeftIn, LeftToCollapse, Equalities
  <2>3. NoEqualityIsLeft'
    BY <2>2 DEF NoEqualityIsLeft
  <2>4. label' \notin CollapseLabels /\ step' = step + 1
    BY <1>1, <1>3 DEF EndStep, CollapseLabels
  <2> QED  BY <1>1, <1>2, <2>3, <2>4, OtherStepKeepsInv DEF frontendVars
<1>4. CASE Schedule[step] # "CollapseEqualitySCC"
  <2>1. "backedges" \notin CollapseLabels
    BY DEF CollapseLabels
  <2> QED  BY <1>1, <1>2, <1>4, <2>1, GotoKeepsInv DEF frontendVars, KeepFrontend
<1> QED  BY <1>3, <1>4
==============================================================================
