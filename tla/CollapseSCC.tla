------------------------------ MODULE CollapseSCC ------------------------------
(****************************************************************************)
(* The steps CollapseEqualitySCC, CollapseInstanceAtOffset0SCC and          *)
(* SimplifyInstanceAtOffset0 of the middle-end: CollapseSCC.cpp,            *)
(* RemoveBackedges.cpp and SimplifyInstanceAtOffset0.cpp in                 *)
(* lib/DataLayoutAnalysis/Middleend.                                        *)
(*                                                                          *)
(* Nodes linked in a cycle of equality edges, then in a cycle of instance   *)
(* edges at offset 0, are collapsed into one node, or into a chain of nodes *)
(* of decreasing size.  The second step then cuts the loops that go through *)
(* instance edges at other offsets, with a depth-first visit.               *)
(* SimplifyInstanceAtOffset0 comes next: a node collapses the children it   *)
(* has at offset 0 that say nothing of their own.                           *)
(****************************************************************************)
EXTENDS DLASteps

CollapseSteps == {"CollapseEqualitySCC", "CollapseInstanceAtOffset0SCC"}

(* The edges the current step collapses along.                              *)
CollapsedEdges(sys) ==
  IF Schedule[step] = "CollapseEqualitySCC" THEN {e \in sys.Succ : IsEqualityEdge(e)}
  ELSE {e \in sys.Succ : IsInstanceOff0(e)}

ToCollapse(sys) == components(sys, CollapsedEdges(sys))

FindSCCs ==
  /\ At(CollapseSteps, "start")
  /\ Goto("collapse", [ToCollapse |-> ToCollapse(ts)])
  /\ UNCHANGED frontendVars

------------------------------------------------------------------------------
(* The stable sort puts the larger nodes of an SCC first and may leave      *)
(* those of a same size in any order.                                       *)
largest(nodes) == {n \in nodes : \A m \in nodes : ts.Size[m] <= ts.Size[n]}

(* CurrentSize is the size of the first node of the SCC and is not updated  *)
(* when the loop goes to the next size: only the nodes of that size are     *)
(* merged, and each of the smaller nodes is a leader of its own.            *)
CollapseOneSCC ==
  /\ At(CollapseSteps, "collapse")
  /\ \E C \in work.ToCollapse : \E first \in largest(C) :
       Goto("merge", [ToCollapse |-> work.ToCollapse \ {C},
                      First |-> first,
                      ToMerge |-> largest(C) \ {first},
                      Smaller |-> C \ largest(C)])
  /\ UNCHANGED frontendVars

MergeSameSize ==
  /\ At(CollapseSteps, "merge")
  /\ \E n \in work.ToMerge :
       IF sizesAllowMerge(ts, work.First, n)
       THEN /\ ts' = mergeNode(ts, work.First, n)
            /\ Goto("merge", [work EXCEPT !.ToMerge = @ \ {n}])
            /\ KeepFrontend
       ELSE Fail("mergeNodes")

(* The leaders the SCC is left with become a chain, unless there is only    *)
(* one.                                                                     *)
LeadersLeft(smaller) ==
  IF smaller = {} THEN Goto("collapse", [ToCollapse |-> work.ToCollapse])
  ELSE Goto("chain", [ToCollapse |-> work.ToCollapse,
                      Leaders |-> {work.First} \cup smaller,
                      Leader |-> work.First, Left |-> smaller])

(* The last leader is merged into the first one if its size is 0.           *)
MergeLastLeader ==
  /\ At(CollapseSteps, "merge")
  /\ work.ToMerge = {}
  /\ \E n \in work.Smaller :
       /\ ts.Size[n] = 0
       /\ IF sizesAllowMerge(ts, work.First, n)
          THEN /\ ts' = mergeNode(ts, work.First, n)
               /\ LeadersLeft(work.Smaller \ {n})
               /\ KeepFrontend
          ELSE Fail("mergeNodes")

NothingToMerge ==
  /\ At(CollapseSteps, "merge")
  /\ work.ToMerge = {} /\ \A n \in work.Smaller : ts.Size[n] # 0
  /\ LeadersLeft(work.Smaller)
  /\ UNCHANGED frontendVars

(* Mutant: the edges among the leaders stay.                                *)
MutedgesToLeaders(n) == {}

(* The non-pointer edges from a leader to the others.                       *)
edgesToLeaders(n) ==
  {e \in SuccessorEdges(ts, n) : IsNotPointerEdge(e) /\ e.tgt \in work.Leaders}

(* Each leader is linked to the one that follows it in order of size.       *)
ChainLeader ==
  /\ At(CollapseSteps, "chain")
  /\ LET erased == withoutEdges(ts, edgesToLeaders(work.Leader)) IN
     IF work.Left = {}
     THEN /\ ts' = erased
          /\ Goto("collapse", [ToCollapse |-> work.ToCollapse])
     ELSE \E smaller \in largest(work.Left) :
            /\ ts' = addInstanceLink(erased, work.Leader, smaller, AtOffset(0))
            /\ Goto("chain", [work EXCEPT !.Leader = smaller, !.Left = @ \ {smaller}])
  /\ KeepFrontend

(* removeBackedgesFromSCC.  A root has edges at offset 0 going out and none *)
(* coming in; the visit from it follows the instance edges at any offset.   *)
IsMixedEdge(e) == IsInstanceEdge(e)
IsBackedge(e) == IsInstanceOffNon0(e)
isSCCRoot(n) == ~\E e \in ts.Pred : e.tgt = n /\ IsInstanceOff0(e)
hasNoSCCEdge(n) == ~\E e \in ts.Succ : n \in {e.src, e.tgt} /\ IsInstanceOff0(e)

(* Which nodes are roots does not change as backedges are removed: the      *)
(* nodes the loop skips are left out from the start.                        *)
CollapseDone ==
  /\ At(CollapseSteps, "collapse")
  /\ work.ToCollapse = {}
  /\ UNCHANGED frontendVars
  /\ IF Schedule[step] = "CollapseEqualitySCC" THEN EndStep
     ELSE Goto("backedges",
               [Roots |-> {n \in ts.Layouts : isSCCRoot(n) /\ ~hasNoSCCEdge(n)}])

------------------------------------------------------------------------------
MixedEdgesOf(n) == {e \in SuccessorEdges(ts, n) : IsMixedEdge(e)}

(* NextToVisit: the edges from NextToVisitIt on.  Taken: the edge before    *)
(* the iterator, none at the beginning.                                     *)
StackEntry(n) == [Node |-> n, NextToVisit |-> MixedEdgesOf(n), Taken |-> {}]

NextRoot ==
  /\ At(CollapseSteps, "backedges")
  /\ \E r \in work.Roots :
       Goto("visit", [Roots |-> work.Roots \ {r}, Root |-> r, Visited |-> {r},
                      VisitStack |-> <<StackEntry(r)>>,
                      BackedgesOnStack |-> << >>, ToRemove |-> {}])
  /\ UNCHANGED frontendVars

Top == work.VisitStack[Len(work.VisitStack)]
InStack == {work.VisitStack[i].Node : i \in DOMAIN work.VisitStack}

(* The edge the iterator of the top of the stack is at, unless at the end.  *)
NextEdge == {e \in Top.NextToVisit : \A f \in Top.NextToVisit \ {e} : EdgeBefore(e, f)}

(* The stack once e has been taken from its top.                            *)
advanced(e) ==
  [work.VisitStack EXCEPT ![Len(work.VisitStack)] =
     [Node |-> Top.Node, NextToVisit |-> Top.NextToVisit \ {e}, Taken |-> {e}]]

PushChild ==
  /\ At(CollapseSteps, "visit")
  /\ work.VisitStack # << >>
  /\ \E e \in NextEdge :
       /\ e.tgt \notin work.Visited
       /\ Goto("visit", [work EXCEPT
            !.Visited = @ \cup {e.tgt},
            !.VisitStack = Append(advanced(e), StackEntry(e.tgt)),
            !.BackedgesOnStack = IF IsBackedge(e) THEN Append(@, e) ELSE @])
  /\ UNCHANGED frontendVars

(* Mutant: the edge that closes the loop is not removed.                    *)
MutLoopBackedges(e) == ToSet(work.BackedgesOnStack)

(* The edges to remove when e closes a loop: all the backedges on the stack,*)
(* those that come before the loop included, and e if it is one.            *)
LoopBackedges(e) ==
  ToSet(work.BackedgesOnStack) \cup (IF IsBackedge(e) THEN {e} ELSE {})

CloseLoop ==
  /\ At(CollapseSteps, "visit")
  /\ work.VisitStack # << >>
  /\ \E e \in NextEdge :
       /\ e.tgt \in InStack
       /\ Goto("visit", [work EXCEPT !.VisitStack = advanced(e),
                                     !.ToRemove = @ \cup LoopBackedges(e)])
  /\ UNCHANGED frontendVars

AlreadyVisited ==
  /\ At(CollapseSteps, "visit")
  /\ work.VisitStack # << >>
  /\ \E e \in NextEdge :
       /\ e.tgt \in work.Visited \ InStack
       /\ Goto("visit", [work EXCEPT !.VisitStack = advanced(e)])
  /\ UNCHANGED frontendVars

(* Pop also takes from BackedgesOnStack the edge that pushed the node: the  *)
(* one before the iterator of the parent.                                   *)
pushedBy == work.VisitStack[Len(work.VisitStack) - 1].Taken

Pop ==
  /\ At(CollapseSteps, "visit")
  /\ work.VisitStack # << >> /\ Top.NextToVisit = {}
  /\ LET popped == Front(work.VisitStack) IN
     IF popped = << >> \/ (pushedBy # {} /\ \A e \in pushedBy : ~IsBackedge(e))
     THEN /\ Goto("visit", [work EXCEPT !.VisitStack = popped])
          /\ UNCHANGED frontendVars
     ELSE IF work.BackedgesOnStack # << >> /\ {Last(work.BackedgesOnStack)} = pushedBy
     THEN /\ Goto("visit", [work EXCEPT !.VisitStack = popped, !.BackedgesOnStack = Front(@)])
          /\ UNCHANGED frontendVars
     ELSE Fail("BackedgesOnStack.back() == PoppedEdge")

(* Each edge to remove must still have its two halves.                      *)
RemoveBackedges ==
  /\ At(CollapseSteps, "visit")
  /\ work.VisitStack = << >>
  /\ IF work.ToRemove \subseteq ts.Pred \cap ts.Succ
     THEN /\ ts' = withoutEdges(ts, work.ToRemove)
          /\ Goto("backedges", [Roots |-> work.Roots])
          /\ KeepFrontend
     ELSE Fail("Erased")

BackedgesDone ==
  /\ At(CollapseSteps, "backedges")
  /\ work.Roots = {}
  /\ EndStep
  /\ UNCHANGED frontendVars

CollapseNext ==
  \/ FindSCCs \/ CollapseOneSCC
  \/ MergeSameSize \/ MergeLastLeader \/ NothingToMerge \/ ChainLeader
  \/ CollapseDone
  \/ NextRoot \/ PushChild \/ CloseLoop \/ AlreadyVisited \/ Pop
  \/ RemoveBackedges \/ BackedgesDone

------------------------------------------------------------------------------
(* SimplifyInstanceAtOffset0.                                               *)
Simplify == {"SimplifyInstanceAtOffset0"}

(* A new node has every instance root at offset 0.                          *)
addArtificialRoot(sys) ==
  LET roots == {n \in sys.Layouts : IsInstanceRoot(sys, n)}
      links == {Edge(sys.NID, n, InstanceTag(AtOffset(0))) : n \in roots}
  IN withEdges(createArtificialLayoutType(sys), links)

(* Mutant: a child at offset 0 is collapsed whatever its size.              *)
MutcanBeCollapsed(sys, node, child) ==
  /\ ~IsPointerNode(sys, child)
  /\ Cardinality(SuccessorEdges(sys, node)) = 1 \/ Cardinality(PredecessorEdges(sys, child)) = 1

canBeCollapsed(sys, node, child) ==
  /\ sys.Size[child] \in {0, sys.Size[node]}
  /\ ~IsPointerNode(sys, child)
  /\ Cardinality(SuccessorEdges(sys, node)) = 1 \/ Cardinality(PredecessorEdges(sys, child)) = 1

(* Mutant: parents come before their children.                              *)
MutgetPostOrder(edges, root) == Tail(preOrder(edges, root, {}))

(* The root comes last, and the loop skips it.                              *)
getPostOrder(edges, root) == Front(postOrder(edges, root, {}))

AddFakeRoot ==
  /\ At(Simplify, "start")
  /\ LET rooted == addArtificialRoot(ts) IN
     /\ ts' = rooted
     /\ Goto("nodes", [FakeRoot |-> ts.NID,
                       PostOrder |-> getPostOrder(InstancesOf(rooted), ts.NID)])
  /\ KeepFrontend

(* The post-order is that of the graph before any merge: the loop over the  *)
(* children of its next node starts, unless the node has been merged away.  *)
NextNode ==
  /\ At(Simplify, "nodes")
  /\ work.PostOrder # << >>
  /\ LET n == Head(work.PostOrder) IN
     IF n \in ts.Layouts
     THEN /\ Goto("children", [FakeRoot |-> work.FakeRoot, PostOrder |-> Tail(work.PostOrder),
                               Node |-> n, After |-> 0])
          /\ UNCHANGED frontendVars
     ELSE Fail("Node was erased")

(* The children at offset 0 the iterator has not passed.  The iterator is   *)
(* moved to the next child before the current one is merged: what the merge *)
(* brings before that next child is not looked at.                          *)
ChildrenAtOffset0(sys, n) == {e.tgt : e \in {f \in SuccessorEdges(sys, n) : IsInstanceOff0(f)}}
ChildrenLeft == {c \in ChildrenAtOffset0(ts, work.Node) : c >= work.After}

NextAfter(c) ==
  LET later == {d \in ChildrenAtOffset0(ts, work.Node) : d > c}
  IN IF later = {} THEN ts.NID ELSE Min(later)

NextChild ==
  /\ At(Simplify, "children")
  /\ \E c \in ChildrenLeft :
       /\ \A d \in ChildrenLeft : c <= d
       /\ IF ~canBeCollapsed(ts, work.Node, c)
          THEN /\ Goto("children", [work EXCEPT !.After = NextAfter(c)])
               /\ UNCHANGED frontendVars
          ELSE IF sizesAllowMerge(ts, work.Node, c)
          THEN /\ ts' = mergeNode(ts, work.Node, c)
               /\ Goto("children", [work EXCEPT !.After = NextAfter(c)])
               /\ KeepFrontend
          ELSE Fail("mergeNodes")

ChildrenDone ==
  /\ At(Simplify, "children")
  /\ ChildrenLeft = {}
  /\ Goto("nodes", [FakeRoot |-> work.FakeRoot, PostOrder |-> work.PostOrder])
  /\ UNCHANGED frontendVars

RemoveFakeRoot ==
  /\ At(Simplify, "nodes")
  /\ work.PostOrder = << >>
  /\ ts' = removeNode(ts, work.FakeRoot)
  /\ EndStep
  /\ KeepFrontend

SimplifyNext ==
  AddFakeRoot \/ NextNode \/ NextChild \/ ChildrenDone \/ RemoveFakeRoot

------------------------------------------------------------------------------
(* The two copies of the edges agree and join live nodes, and no edge is a  *)
(* self edge: what verifyConsistency asserts before and after each step     *)
(* holds in the middle of the steps too.                                    *)
Consistent == edgesAreMirrored(ts) /\ edgesJoinLiveNodes(ts) /\ noSelfEdges(ts)

(* What the steps assert at their end besides that, when VerifyLog is       *)
(* enabled.  Collapsing equality leaves no equality edge, also where nodes  *)
(* of different sizes become a chain; collapsing instances at offset 0      *)
(* leaves no loop of them, also where a chain of such instances is made.    *)
NoEqualityIsLeft ==
  JustDone = "CollapseEqualitySCC" => ~\E e \in ts.Succ : IsEqualityEdge(e)

NoLoopAtOffset0 ==
  JustDone = "CollapseInstanceAtOffset0SCC" => isAcyclic({e \in ts.Succ : IsInstanceOff0(e)})

CollapsePostconditions == NoEqualityIsLeft /\ NoLoopAtOffset0

(* The assertions of the visits that cut loops: Pop takes from              *)
(* BackedgesOnStack the edge it is at, and each edge to remove is there to  *)
(* be erased.                                                               *)
VisitFailures == {"BackedgesOnStack.back() == PoppedEdge", "Erased"}
VisitAssertionsHold == failed \notin VisitFailures

(* What the visits of removeBackedgesFromSCC achieve: no loop of instance   *)
(* edges goes through a node they started from.                             *)
RootsAreCut ==
  JustDone = "CollapseInstanceAtOffset0SCC" =>
    LET mixed == {e \in ts.Succ : IsMixedEdge(e)}
    IN \A r \in ts.Layouts : isSCCRoot(r) /\ ~hasNoSCCEdge(r) =>
         \A e \in mixed : e.src = r => r \notin reachable(mixed, e.tgt)

(* What it asserts, when VerifyLog is enabled, of the loops it is about: no *)
(* loop of instance edges that goes through an edge at offset 0 is left     *)
(* (RemoveBackedges.cpp:382).                                               *)
NoMixedLoops ==
  JustDone = "CollapseInstanceAtOffset0SCC" =>
    LET mixed == {e \in ts.Succ : IsMixedEdge(e)}
    IN ~\E e \in ts.Succ : IsInstanceOff0(e) /\ e.src \in reachable(mixed, e.tgt)
=============================================================================
