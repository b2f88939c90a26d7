--------------------------- MODULE LayoutTypeGraph ---------------------------
(****************************************************************************)
(* The type system of the Data Layout Analysis, dla::LayoutTypeSystem, as a *)
(* value: include/revng-c/DataLayoutAnalysis/DLATypeSystem.h and            *)
(* lib/DataLayoutAnalysis/DLATypeSystem.cpp.  One operator per method.      *)
(*                                                                          *)
(* Nodes are named by their IDs, 0, 1, 2, ...  An edge is stored twice by   *)
(* the code, in the Successors of its source and in the Predecessors of its *)
(* target; Succ and Pred are the unions of those sets over all the nodes,   *)
(* and each operator updates the two the way the code walks them.           *)
(****************************************************************************)
EXTENDS Naturals, Sequences, FiniteSets

CONSTANTS
  Node,       \* the IDs a node may have
  NoNode,     \* a null LayoutTypeSystemNode *, an unset optional
  MaxOffset   \* the largest offset addInstanceLink accepts (0xFFFF)

LinkKinds == {"Equality", "Instance", "Pointer"}
InterferingChildrenInfo ==
  {"Unknown", "AllChildrenAreInterfering", "AllChildrenAreNonInterfering"}

(* OffsetExpression: the strides with their trip counts, outermost first; a *)
(* trip count of 0 stands for std::nullopt.                                 *)
OffsetExpression(offset, strides) == [Offset |-> offset, Strides |-> strides]
AtOffset(offset) == OffsetExpression(offset, << >>)

EqualityTag == [Kind |-> "Equality", OE |-> AtOffset(0)]
PointerTag == [Kind |-> "Pointer", OE |-> AtOffset(0)]
InstanceTag(oe) == [Kind |-> "Instance", OE |-> oe]

Edge(s, t, g) == [src |-> s, tgt |-> t, tag |-> g]

(* The edge filters of DLATypeSystem.h.                                     *)
IsEqualityEdge(e) == e.tag.Kind = "Equality"
IsInstanceEdge(e) == e.tag.Kind = "Instance"
IsPointerEdge(e) == e.tag.Kind = "Pointer"
IsInstanceOff0(e) == IsInstanceEdge(e) /\ e.tag.OE = AtOffset(0)
IsInstanceOffNon0(e) == IsInstanceEdge(e) /\ ~IsInstanceOff0(e)
IsStridedInstance(e) == IsInstanceEdge(e) /\ e.tag.OE.Strides # << >>
IsNotPointerEdge(e) == ~IsPointerEdge(e)

SuccessorEdges(ts, n) == {e \in ts.Succ : e.src = n}
PredecessorEdges(ts, n) == {e \in ts.Pred : e.tgt = n}
IsLeaf(ts, n) == \A e \in SuccessorEdges(ts, n) : IsPointerEdge(e)
IsRoot(ts, n) == \A e \in PredecessorEdges(ts, n) : IsPointerEdge(e)
IsInstanceLeaf(ts, n) == \A e \in SuccessorEdges(ts, n) : ~IsInstanceEdge(e)
IsInstanceRoot(ts, n) == \A e \in PredecessorEdges(ts, n) : ~IsInstanceEdge(e)
IsPointerNode(ts, n) == \E e \in SuccessorEdges(ts, n) : IsPointerEdge(e)
IsPointerLeaf(ts, n) == ~IsPointerNode(ts, n)
IsPointerRoot(ts, n) == \A e \in PredecessorEdges(ts, n) : ~IsPointerEdge(e)
IsUnionNode(ts, n) == ts.Info[n] = "AllChildrenAreInterfering"
IsStructNode(ts, n) == /\ ts.Info[n] = "AllChildrenAreNonInterfering"
                       /\ ~IsLeaf(ts, n)

------------------------------------------------------------------------------
EmptySystem ==
  [NID |-> 0,                              \* the next ID
   Layouts |-> {},                         \* the nodes that are alive
   Succ |-> {}, Pred |-> {},
   Size |-> [n \in Node |-> 0],
   NonScalar |-> [n \in Node |-> FALSE],
   Info |-> [n \in Node |-> "Unknown"],    \* InterferingInfo
   Class |-> [n \in Node |-> {n}],         \* the class of n in EqClasses
   RemovedID |-> NoNode]

createArtificialLayoutType(ts) ==
  [ts EXCEPT !.NID = @ + 1, !.Layouts = @ \cup {ts.NID}]

(* addLink: a link to a null node or from a node to itself is not added.    *)
addLink(ts, s, t, g) ==
  IF s = NoNode \/ t = NoNode \/ s = t THEN ts
  ELSE [ts EXCEPT !.Succ = @ \cup {Edge(s, t, g)},
                  !.Pred = @ \cup {Edge(s, t, g)}]

addEqualityLink(ts, s, t) == addLink(addLink(ts, s, t, EqualityTag), t, s, EqualityTag)

(* Mutant: offsets are not checked.                                         *)
MutaddInstanceLink(ts, s, t, oe) == addLink(ts, s, t, InstanceTag(oe))

(* A link whose offset is too large is silently dropped.  Offset is a       *)
(* uint64_t, so that a negative offset is a huge one.                       *)
addInstanceLink(ts, s, t, oe) ==
  IF oe.Offset \in 0..MaxOffset THEN addLink(ts, s, t, InstanceTag(oe)) ELSE ts

addPointerLink(ts, s, t) == addLink(ts, s, t, PointerTag)

------------------------------------------------------------------------------
(* The equivalence classes: VectEqClasses over llvm::IntEqClasses.          *)
(* Mutant: only one of the two classes grows.                               *)
Mutjoined(class, a, b) ==
  [n \in Node |-> IF n \in class[a] THEN class[a] \cup class[b] ELSE class[n]]

joined(class, a, b) ==
  LET both == class[a] \cup class[b]
  IN [n \in Node |-> IF n \in both THEN both ELSE class[n]]

(* The first class ever removed stands for all of them.                     *)
removeClass(ts, a) ==
  IF ts.RemovedID = NoNode THEN [ts EXCEPT !.RemovedID = a]
  ELSE [ts EXCEPT !.Class = joined(@, a, ts.RemovedID)]

isRemoved(ts, a) == ts.RemovedID # NoNode /\ a \in ts.Class[ts.RemovedID]
haveSameEqClass(ts, a, b) == b \in ts.Class[a]

------------------------------------------------------------------------------
(* fixPredSucc, first loop: each node From has an edge to now finds Into    *)
(* among its predecessors; the second loop does the same for the successors *)
(* of the predecessors of From.                                             *)
redirectedPreds(ts, from, into) ==
  {IF e.src = from /\ \E s \in ts.Succ : s.src = from /\ s.tgt = e.tgt
   THEN [e EXCEPT !.src = into] ELSE e : e \in ts.Pred}

redirectedSuccs(ts, from, into) ==
  {IF e.tgt = from /\ \E p \in ts.Pred : p.tgt = from /\ p.src = e.src
   THEN [e EXCEPT !.tgt = into] ELSE e : e \in ts.Succ}

(* Mutant: the edges between From and Into become self edges.               *)
MutfixPredSucc(ts, from, into) ==
  LET renamed(n) == IF n = from THEN into ELSE n
      moved(edges) == {[e EXCEPT !.src = renamed(@), !.tgt = renamed(@)] : e \in edges}
  IN [ts EXCEPT !.Pred = moved(@), !.Succ = moved(@)]

(* Into takes over the edges of From, and what became a self edge goes; the *)
(* sets of From itself die with it.                                         *)
fixPredSucc(ts, from, into) ==
  LET preds == redirectedPreds(ts, from, into)
      succs == redirectedSuccs(ts, from, into)
      allPreds == preds \cup {[e EXCEPT !.tgt = into] : e \in {p \in preds : p.tgt = from}}
      allSuccs == succs \cup {[e EXCEPT !.src = into] : e \in {s \in succs : s.src = from}}
  IN [ts EXCEPT
        !.Pred = {e \in allPreds : e.tgt # from /\ ~(e.tgt = into /\ e.src \in {from, into})},
        !.Succ = {e \in allSuccs : e.src # from /\ ~(e.src = into /\ e.tgt \in {from, into})}]

(* The assertions of mergeNodes on one From, and the size it leaves.        *)
sizesAllowMerge(ts, into, from) ==
  /\ from # into
  /\ IF ts.NonScalar[into] /\ ts.NonScalar[from] THEN ts.Size[into] = ts.Size[from]
     ELSE IF ts.NonScalar[into] THEN ts.Size[from] <= ts.Size[into]
     ELSE IF ts.NonScalar[from] THEN ts.Size[into] <= ts.Size[from]
     ELSE ts.Size[into] = 0 \/ ts.Size[from] <= ts.Size[into]

mergedSize(ts, into, from) ==
  IF ts.Size[into] < ts.Size[from] THEN ts.Size[from] ELSE ts.Size[into]

(* Mutant: the equivalence classes of the two nodes are not joined.         *)
MutmergeNode(ts, into, from) ==
  [fixPredSucc(ts, from, into) EXCEPT
     !.Size[into] = mergedSize(ts, into, from), !.Layouts = @ \ {from}]

(* A node that dies: what its fields held is gone.                          *)
destroyed(ts, n) ==
  [ts EXCEPT !.Layouts = @ \ {n}, !.Size[n] = 0, !.NonScalar[n] = FALSE, !.Info[n] = "Unknown"]

(* One iteration of the loop of mergeNodes.                                 *)
mergeNode(ts, into, from) ==
  LET merged == destroyed(fixPredSucc(ts, from, into), from) IN
  [merged EXCEPT !.Info[into] = "Unknown",
                 !.Size[into] = mergedSize(ts, into, from),
                 !.NonScalar[into] = @ \/ ts.NonScalar[from],
                 !.Class = joined(@, into, from)]

(* Mutant: the edges that come to n stay in the Successors of their sources.*)
MutremoveNode(ts, n) ==
  [removeClass(ts, n) EXCEPT !.Pred = {e \in @ : n \notin {e.src, e.tgt}},
                             !.Succ = {e \in @ : e.src # n},
                             !.Layouts = @ \ {n}]

(* removeNode goes through the neighbours of n to find the edges to erase.  *)
removeNode(ts, n) ==
  [destroyed(removeClass(ts, n), n) EXCEPT
     !.Pred = {e \in @ : /\ ~(e.src = n /\ \E s \in ts.Succ : s.src = n /\ s.tgt = e.tgt)
                         /\ e.tgt # n},
     !.Succ = {e \in @ : /\ ~(e.tgt = n /\ \E p \in ts.Pred : p.tgt = n /\ p.src = e.src)
                         /\ e.src # n}]

------------------------------------------------------------------------------
(* The two halves of an edge, erased one after the other.                   *)
eraseEdge(ts, e) == [ts EXCEPT !.Pred = @ \ {e}, !.Succ = @ \ {e}]

withoutEdges(ts, edges) == [ts EXCEPT !.Pred = @ \ edges, !.Succ = @ \ edges]
withEdges(ts, edges) == [ts EXCEPT !.Pred = @ \cup edges, !.Succ = @ \cup edges]

dropOutgoingEdges(ts, n) == withoutEdges(ts, SuccessorEdges(ts, n))

shiftedOffset(oe, sum) == [oe EXCEPT !.Offset = @ + sum]

(* moveEdgeTarget and moveEdgeSource, for an instance edge when sum is not  *)
(* 0.  Without a sum the edge is renamed in place, even into a self edge.   *)
moveEdgeTarget(ts, e, newTgt, sum) ==
  LET dropped == eraseEdge(ts, e)
      moved == [e EXCEPT !.tgt = newTgt]
  IN IF newTgt = NoNode THEN ts
     ELSE IF sum = 0 THEN [dropped EXCEPT !.Pred = @ \cup {moved}, !.Succ = @ \cup {moved}]
     ELSE addInstanceLink(dropped, e.src, newTgt, shiftedOffset(e.tag.OE, sum))

moveEdgeSource(ts, e, newSrc, sum) ==
  LET dropped == eraseEdge(ts, e)
      moved == [e EXCEPT !.src = newSrc]
  IN IF newSrc = NoNode THEN ts
     ELSE IF sum = 0 THEN [dropped EXCEPT !.Pred = @ \cup {moved}, !.Succ = @ \cup {moved}]
     ELSE addInstanceLink(dropped, newSrc, e.tgt, shiftedOffset(e.tag.OE, sum))

------------------------------------------------------------------------------
(* The parts of verifyConsistency: the two copies of every edge agree and   *)
(* join live nodes, no edge is a self edge, and a pointer node has a single *)
(* pointer edge and no instance edge.                                       *)
edgesAreMirrored(ts) == ts.Succ = ts.Pred
edgesJoinLiveNodes(ts) ==
  \A e \in ts.Succ \cup ts.Pred : e.src \in ts.Layouts /\ e.tgt \in ts.Layouts
noSelfEdges(ts) == \A e \in ts.Succ \cup ts.Pred : e.src # e.tgt
pointersAreOnlyPointers(ts) ==
  \A e, f \in ts.Succ :
    IsPointerEdge(e) /\ f.src = e.src /\ f # e => IsEqualityEdge(f)

verifyConsistency(ts) ==
  /\ edgesAreMirrored(ts)
  /\ edgesJoinLiveNodes(ts)
  /\ noSelfEdges(ts)
  /\ pointersAreOnlyPointers(ts)

verifyNoEquality(ts) == verifyConsistency(ts) /\ ~\E e \in ts.Succ : IsEqualityEdge(e)
verifyLeafs(ts) == \A n \in ts.Layouts : IsLeaf(ts, n) => ts.Size[n] # 0
verifyUnions(ts) ==
  \A n \in ts.Layouts : IsUnionNode(ts, n) =>
    \E e, f \in SuccessorEdges(ts, n) : e # f

(* A set of edges without a cycle: taking off, again and again, the edges   *)
(* whose target has no edge going out leaves none.                          *)
isAcyclic(edges) ==
  LET left[k \in Nat] ==
        IF k = 0 THEN edges
        ELSE LET before == left[k - 1]
             IN {e \in before : \E f \in before : f.src = e.tgt}
  IN left[Cardinality(edges)] = {}

verifyInstanceAtOffset0DAG(ts) ==
  verifyConsistency(ts) /\ isAcyclic({e \in ts.Succ : IsInstanceOff0(e)})
verifyInstanceDAG(ts) ==
  verifyConsistency(ts) /\ isAcyclic({e \in ts.Succ : IsInstanceEdge(e)})
verifyPointerDAG(ts) ==
  verifyConsistency(ts) /\ isAcyclic({e \in ts.Succ : IsPointerEdge(e)})
verifyDAG(ts) ==
  verifyInstanceDAG(ts) /\ isAcyclic({e \in ts.Succ : IsNotPointerEdge(e)})
=============================================================================
