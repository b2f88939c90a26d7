------------------------------ MODULE LayoutSizes ------------------------------
(****************************************************************************)
(* The normalization steps of the middle-end that are about sizes:          *)
(* RemoveInvalidPointers, PruneLayoutNodesWithoutLayout,                    *)
(* ComputeUpperMemberAccesses, RemoveInvalidStrideEdges and                 *)
(* DecomposeStridedEdges, each in the file of its name in                   *)
(* lib/DataLayoutAnalysis/Middleend, and FieldSizeComputation.cpp.          *)
(****************************************************************************)
EXTENDS DLASteps

(* The nodes a visit reaches from the nodes without a non-pointer           *)
(* predecessor, and from those without an instance predecessor.             *)
FromRoots(sys) ==
  visitedFrom({n \in sys.Layouts : IsRoot(sys, n)}, NonPointerEdges(sys))
FromInstanceRoots(sys) ==
  visitedFrom({n \in sys.Layouts : IsInstanceRoot(sys, n)}, InstancesOf(sys))

------------------------------------------------------------------------------
(* RemoveInvalidPointers: a node that has not the size of a pointer loses   *)
(* its pointer edges.                                                       *)
invalidPointers(sys) ==
  {e \in sys.Succ : IsPointerEdge(e) /\ sys.Size[e.src] # PointerSize}

RemoveInvalidPointers ==
  /\ At({"RemoveInvalidPointers"}, "start")
  /\ ts' = withoutEdges(ts, invalidPointers(ts))
  /\ EndStep
  /\ KeepFrontend

------------------------------------------------------------------------------
(* FieldSizeComputation.cpp: the bytes an instance spans from its offset to *)
(* the end of its last element.  A missing trip count, 0 here, counts for   *)
(* one element.                                                             *)
elements(s) == IF s.TripCount = 0 THEN 1 ELSE s.TripCount

layerSize(size, s) == (elements(s) - 1) * s.Stride + size

(* The i-th stride of an edge, from the child.                              *)
layerOf(e, i) == e.tag.OE.Strides[Len(e.tag.OE.Strides) + 1 - i]

(* The bytes spanned by the i innermost strides around a child of some size.*)
spans(size, e) ==
  LET span[i \in 0..Len(e.tag.OE.Strides)] ==
        IF i = 0 THEN size ELSE layerSize(span[i - 1], layerOf(e, i))
  IN span

getFieldSize(sys, e) == spans(sys.Size[e.tgt], e)[Len(e.tag.OE.Strides)]
getFieldUpperMember(sys, e) == e.tag.OE.Offset + getFieldSize(sys, e)

(* The size the children of n require.                                      *)
upperMember(sys, edges) ==
  Max({0} \cup {getFieldUpperMember(sys, e) : e \in edges})

------------------------------------------------------------------------------
(* PruneLayoutNodesWithoutLayout, a node of the post-order at a time.  Only *)
(* a node of size 0 whose children are all to be removed is removed.        *)
StartPrune ==
  /\ At({"PruneLayoutNodesWithoutLayout"}, "start")
  /\ Goto("visit", [todo |-> FromRoots(ts), ToRemove |-> {}])
  /\ UNCHANGED frontendVars

(* Mutant: one child without a layout is enough.                            *)
MuthasNoLayout(n) ==
  /\ ts.Size[n] = 0
  /\ \/ SuccessorEdges(ts, n) = {}
     \/ \E e \in SuccessorEdges(ts, n) : IsNotPointerEdge(e) /\ e.tgt \in work.ToRemove

hasNoLayout(n) ==
  /\ ts.Size[n] = 0
  /\ \A e \in SuccessorEdges(ts, n) : IsNotPointerEdge(e) => e.tgt \in work.ToRemove

PruneVisit ==
  /\ At({"PruneLayoutNodesWithoutLayout"}, "visit")
  /\ work.todo # {}
  /\ LET n == nextInPostOrder(work.todo, NonPointerEdges(ts)) IN
     Goto("visit", [todo |-> work.todo \ {n},
                    ToRemove |-> work.ToRemove \cup (IF hasNoLayout(n) THEN {n} ELSE {})])
  /\ UNCHANGED frontendVars

(* The nodes to remove are a set of pointers: they go in any order.         *)
Prune ==
  /\ At({"PruneLayoutNodesWithoutLayout"}, "visit")
  /\ work.todo = {}
  /\ \E n \in work.ToRemove :
       /\ ts' = removeNode(ts, n)
       /\ Goto("visit", [work EXCEPT !.ToRemove = @ \ {n}])
  /\ KeepFrontend

PruneDone ==
  /\ At({"PruneLayoutNodesWithoutLayout"}, "visit")
  /\ work.todo = {} /\ work.ToRemove = {}
  /\ EndStep
  /\ UNCHANGED frontendVars

------------------------------------------------------------------------------
(* ComputeUpperMemberAccesses grows each node to hold its children.         *)
(* The visit asserts that a leaf has a size, and that a node ends with one. *)
StartUpper ==
  /\ At({"ComputeUpperMemberAccesses"}, "start")
  /\ IF verifyLeafs(ts)
     THEN /\ Goto("visit", [todo |-> FromRoots(ts)])
          /\ UNCHANGED frontendVars
     ELSE Fail("not isLeaf(Root) or Root->Size")

(* Mutant: an array counts for one element.                                 *)
MutFinalSize(n) ==
  Max({ts.Size[n]} \cup
      {e.tag.OE.Offset + ts.Size[e.tgt] : e \in {f \in SuccessorEdges(ts, n) : IsNotPointerEdge(f)}})

FinalSize(n) ==
  Max({ts.Size[n], upperMember(ts, {e \in SuccessorEdges(ts, n) : IsNotPointerEdge(e)})})

(* getFieldSize wants instances of nodes that have a size.                  *)
hasSizedFields(n) ==
  \A e \in SuccessorEdges(ts, n) :
    IsNotPointerEdge(e) => IsInstanceEdge(e) /\ ts.Size[e.tgt] > 0

UpperVisit ==
  /\ At({"ComputeUpperMemberAccesses"}, "visit")
  /\ work.todo # {}
  /\ LET n == nextInPostOrder(work.todo, NonPointerEdges(ts)) IN
     IF hasSizedFields(n) /\ FinalSize(n) > 0
     THEN /\ ts' = [ts EXCEPT !.Size[n] = FinalSize(n)]
          /\ Goto("visit", [todo |-> work.todo \ {n}])
          /\ KeepFrontend
     ELSE Fail("FinalSize")

UpperDone ==
  /\ At({"ComputeUpperMemberAccesses"}, "visit")
  /\ work.todo = {}
  /\ EndStep
  /\ UNCHANGED frontendVars

------------------------------------------------------------------------------
(* RemoveInvalidStrideEdges.  From the innermost stride outwards, a stride  *)
(* must be able to hold what it repeats; an edge to a node that has become  *)
(* empty is invalid too, strided or not.                                    *)
hasValidStrides(sys, e) ==
  LET size == sys.Size[e.tgt] IN
  size # 0 /\ \A i \in DOMAIN e.tag.OE.Strides : layerOf(e, i).Stride >= spans(size, e)[i - 1]

invalidStrides(n) ==
  {e \in SuccessorEdges(ts, n) : IsInstanceEdge(e) /\ ~hasValidStrides(ts, e)}

StartStrides ==
  /\ At({"RemoveInvalidStrideEdges"}, "start")
  /\ Goto("visit", [todo |-> FromInstanceRoots(ts)])
  /\ UNCHANGED frontendVars

(* The size of a node that lost a child is computed anew from the children  *)
(* it is left with, whether or not it had a size of its own.                *)
SizeWithout(n, removed) ==
  IF removed = {} THEN ts.Size[n]
  ELSE upperMember(ts, {e \in SuccessorEdges(ts, n) \ removed : IsNotPointerEdge(e)})

StridesVisit ==
  /\ At({"RemoveInvalidStrideEdges"}, "visit")
  /\ work.todo # {}
  /\ LET n == nextInPostOrder(work.todo, InstancesOf(ts))
         removed == invalidStrides(n)
     IN /\ ts' = [withoutEdges(ts, removed) EXCEPT !.Size[n] = SizeWithout(n, removed)]
        /\ Goto("visit", [todo |-> work.todo \ {n}])
  /\ KeepFrontend

StridesDone ==
  /\ At({"RemoveInvalidStrideEdges"}, "visit")
  /\ work.todo = {}
  /\ EndStep
  /\ UNCHANGED frontendVars

------------------------------------------------------------------------------
(* DecomposeStridedEdges replaces an edge with several strides by a chain   *)
(* of edges with one stride each, through new nodes, innermost first.  The  *)
(* outermost edge, which leaves from the parent, has the offset.            *)
manyStrides(sys) == {e \in sys.Succ : IsInstanceEdge(e) /\ Len(e.tag.OE.Strides) >= 2}

(* NodeChain: the child, the new nodes and the parent.                      *)
NodeChain(sys, e, i) ==
  IF i = 0 THEN e.tgt
  ELSE IF i = Len(e.tag.OE.Strides) THEN e.src ELSE sys.NID + i - 1

(* Mutant: the strides are taken from the outermost.                        *)
MutchainEdge(sys, e, i) ==
  Edge(NodeChain(sys, e, i), NodeChain(sys, e, i - 1),
       InstanceTag(OffsetExpression(
         IF i = Len(e.tag.OE.Strides) THEN e.tag.OE.Offset ELSE 0, <<e.tag.OE.Strides[i]>>)))

(* The i-th edge of the chain; the last one has the offset.                 *)
chainEdge(sys, e, i) ==
  Edge(NodeChain(sys, e, i), NodeChain(sys, e, i - 1),
       InstanceTag(OffsetExpression(
         IF i = Len(e.tag.OE.Strides) THEN e.tag.OE.Offset ELSE 0, <<layerOf(e, i)>>)))

(* The size of a new node is that of the field it has, by getFieldSize.     *)
decomposed(sys, e) ==
  LET layers == Len(e.tag.OE.Strides)
      new == {NodeChain(sys, e, i) : i \in 1..(layers - 1)}
      size == spans(sys.Size[e.tgt], e)
      created == [sys EXCEPT !.NID = @ + layers - 1, !.Layouts = @ \cup new]
  IN [withoutEdges(withEdges(created, {chainEdge(sys, e, i) : i \in 1..layers}), {e}) EXCEPT
        !.Size = [n \in Node |-> IF n \in new THEN size[n - sys.NID + 1] ELSE @[n]]]

Decompose ==
  /\ At({"DecomposeStridedEdges"}, "start")
  /\ manyStrides(ts) # {}
  /\ \E e \in manyStrides(ts) : ts' = decomposed(ts, e)
  /\ Goto("start", Nothing)
  /\ KeepFrontend

DecomposeDone ==
  /\ At({"DecomposeStridedEdges"}, "start")
  /\ manyStrides(ts) = {}
  /\ EndStep
  /\ UNCHANGED frontendVars

SizesNext ==
  \/ RemoveInvalidPointers
  \/ StartPrune \/ PruneVisit \/ Prune \/ PruneDone
  \/ StartUpper \/ UpperVisit \/ UpperDone
  \/ StartStrides \/ StridesVisit \/ StridesDone
  \/ Decompose \/ DecomposeDone
=============================================================================
