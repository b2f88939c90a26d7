----------------------------- MODULE LayoutAccesses -----------------------------
(****************************************************************************)
(* The optimization steps of the middle-end that arrange the fields of a    *)
(* node: ArrangeAccessesHierarchically pushes a field down the field that   *)
(* contains it (ArrangeAccessesHierarchically.cpp), and                     *)
(* ComputeNonInterferingComponents makes a union of the fields that overlap *)
(* (DLAComputeNonInterferingComponents.cpp).                                *)
(****************************************************************************)
EXTENDS LayoutSizes

fieldsOf(sys, n) == {e \in SuccessorEdges(sys, n) : IsNotPointerEdge(e)}
containersOf(sys, n) == {e \in PredecessorEdges(sys, n) : IsNotPointerEdge(e)}

------------------------------------------------------------------------------
(* A child that is nothing of its own is absorbed: its fields become those  *)
(* of the parent.                                                           *)
isFixedChild(sys, parent, n) ==
  \/ sys.NonScalar[n]
  \/ IsLeaf(sys, n)
  \/ IsPointerNode(sys, n) \/ ~IsPointerRoot(sys, n)
  \/ \E e \in containersOf(sys, n) : IsStridedInstance(e) \/ e.src # parent

getVolatileChildren(sys, n) ==
  {m \in {e.tgt : e \in fieldsOf(sys, n)} : ~isFixedChild(sys, n, m)}

append(oe, inner) ==
  OffsetExpression(oe.Offset + inner.Offset, oe.Strides \o inner.Strides)

CompoundEdges(sys, n, volatile) ==
  {Edge(n, p[2].tgt, InstanceTag(append(p[1].tag.OE, p[2].tag.OE))) :
     p \in {q \in fieldsOf(sys, n) \X sys.Succ :
              q[1].tgt \in volatile /\ q[2].src = q[1].tgt /\ IsNotPointerEdge(q[2])}}

addInstanceLinks(sys, edges) ==
  FoldSet(LAMBDA e, s : addInstanceLink(s, e.src, e.tgt, e.tag.OE), sys, edges)

(* One round of the loop, until there is nothing to absorb.                 *)
absorbRound(sys, n) ==
  LET volatile == getVolatileChildren(sys, n)
      merged == FoldSet(LAMBDA m, s : mergeNode(dropOutgoingEdges(s, m), n, m), sys, volatile)
  IN addInstanceLinks(merged, CompoundEdges(sys, n, volatile))

absorbVolatileChildren(sys, n) ==
  LET round[k \in Nat] == IF k = 0 THEN sys ELSE absorbRound(round[k - 1], n)
  IN round[Cardinality(sys.Layouts)]

absorbAll(sys) ==
  LET roots == SetToSortSeq({n \in sys.Layouts : IsRoot(sys, n)}, <)
      absorbed(v, order) ==
        [sys |-> FoldLeft(LAMBDA s, n : IF n \in s.Layouts THEN absorbVolatileChildren(s, n) ELSE s,
                          v.sys, order),
         Visited |-> v.Visited \cup ToSet(order)]
      visit(v, r) == absorbed(v, postOrder(NonPointerEdges(v.sys), r, v.Visited))
  IN FoldLeft(visit, [sys |-> sys, Visited |-> {}], roots).sys

------------------------------------------------------------------------------
(* The inner edge can be pushed through the outer one: its field lies       *)
(* within the other, and within one element when that is an array.          *)
elementSize(sys, e) ==
  IF IsStridedInstance(e) THEN e.tag.OE.Strides[1].Stride ELSE sys.Size[e.tgt]

offsetAfterPush(sys, inner, outer) ==
  LET distance == inner.tag.OE.Offset - outer.tag.OE.Offset
  IN IF IsStridedInstance(outer) THEN distance % elementSize(sys, outer) ELSE distance

offsetInElement(sys, inner, outer) ==
  (inner.tag.OE.Offset - outer.tag.OE.Offset) % elementSize(sys, outer)

contains(sys, outer, inner) ==
  /\ outer.tag.OE.Offset <= inner.tag.OE.Offset
  /\ getFieldUpperMember(sys, inner) <= getFieldUpperMember(sys, outer)
  /\ getFieldSize(sys, inner) < getFieldSize(sys, outer)

(* Mutant: the inner field may go past the end of an element.               *)
MutcanPushThrough(sys, inner, outer) ==
  /\ inner # outer /\ ~IsLeaf(sys, outer.tgt)
  /\ contains(sys, outer, inner)

canPushThrough(sys, inner, outer) ==
  /\ inner # outer /\ ~IsLeaf(sys, outer.tgt)
  /\ contains(sys, outer, inner)
  /\ offsetInElement(sys, inner, outer) + getFieldSize(sys, inner) <= sys.Size[outer.tgt]

(* The assertions of computeOffsetAfterPush.                                *)
pushFits(sys, inner, outer) ==
  /\ inner.tag.OE.Offset >= outer.tag.OE.Offset
  /\ offsetAfterPush(sys, inner, outer) + getFieldSize(sys, inner) <= sys.Size[outer.tgt]

(* ChildrenHierarchy, after each edge of a list is compared with those that *)
(* follow and were not pushed down yet.  What was pushed through an edge    *)
(* that is pushed in its turn goes with it, when the larger edge follows.   *)
after(list, e) == {f \in ToSet(list) : \E i, j \in DOMAIN list : i < j /\ list[i] = e /\ list[j] = f}

(* Mutant: an edge is not pushed through a larger one that follows.         *)
MutChildrenHierarchy(sys, list) ==
  LET compare(h, e) ==
        LET containedInE == {f \in h.roots \cap after(list, e) : canPushThrough(sys, f, e)}
        IN IF e \notin h.roots THEN h
           ELSE [roots |-> h.roots \ containedInE,
                 pushed |-> [h.pushed EXCEPT ![e] = @ \cup containedInE]]
  IN FoldLeft(compare, [roots |-> ToSet(list), pushed |-> [e \in ToSet(list) |-> {}]], list)

ChildrenHierarchy(sys, list) ==
  LET compare(h, e) ==
        LET later == h.roots \cap after(list, e)
            containedInE == {f \in later : canPushThrough(sys, f, e)}
            containsE == {f \in later : canPushThrough(sys, e, f)}
            pushedInE == h.pushed[e] \cup containedInE
        IN IF e \notin h.roots THEN h
           ELSE [roots |-> (h.roots \ containedInE) \ (IF containsE = {} THEN {} ELSE {e}),
                 pushed |-> [f \in DOMAIN h.pushed |->
                               IF f = e THEN pushedInE
                               ELSE IF f \in containsE THEN h.pushed[f] \cup pushedInE \cup {e}
                               ELSE h.pushed[f]]]
  IN FoldLeft(compare, [roots |-> ToSet(list), pushed |-> [e \in ToSet(list) |-> {}]], list)

Pushes(h) == {p \in (DOMAIN h.pushed) \X h.roots : p[1] \in h.pushed[p[2]]}

pushedEdge(sys, p) ==
  [p[1] EXCEPT !.src = p[2].tgt, !.tag.OE.Offset = offsetAfterPush(sys, p[1], p[2])]

pushedThrough(sys, pushes) ==
  LET added == addInstanceLinks(sys, {pushedEdge(sys, p) : p \in pushes})
  IN FoldSet(LAMBDA e, s : eraseEdge(s, e), added, {p[1] : p \in pushes})

------------------------------------------------------------------------------
(* The nodes are analyzed in a reverse post-order computed once, again and  *)
(* again, those a field was pushed into.                                    *)
fakeRooted(sys) ==
  FoldSet(LAMBDA n, s : addInstanceLink(s, sys.NID, n, AtOffset(0)),
          createArtificialLayoutType(sys), {n \in sys.Layouts : IsRoot(sys, n)})

StartArrange ==
  /\ At({"ArrangeAccessesHierarchically"}, "start")
  /\ \E rooted \in {fakeRooted(absorbAll(ts))} :
     \E order \in {Front(postOrder(NonPointerEdges(rooted), rooted.NID - 1, {}))} :
        /\ ts' = removeNode(rooted, rooted.NID - 1)
        /\ Goto("nodes", [Queue |-> order, ToAnalyze |-> ToSet(order), left |-> Len(order)])
  /\ KeepFrontend

(* The nodes to analyze after node n.                                       *)
(* Mutant: a node stays among those to analyze.                             *)
MutToAnalyzeAfter(n, pushes) == work.ToAnalyze \cup {p[2].tgt : p \in pushes}

ToAnalyzeAfter(n, pushes) == (work.ToAnalyze \ {n}) \cup {p[2].tgt : p \in pushes}

(* The order in which the edges are compared is that of the addresses of    *)
(* the children.                                                            *)
ArrangeNode ==
  /\ At({"ArrangeAccessesHierarchically"}, "nodes")
  /\ work.left > 0 /\ work.ToAnalyze # {}
  /\ LET n == work.Queue[work.left]
         absorbed == absorbVolatileChildren(ts, n)
         edges == {e \in SuccessorEdges(absorbed, n) : IsInstanceEdge(e)}
     IN IF n \notin work.ToAnalyze
        THEN Goto("nodes", [work EXCEPT !.left = @ - 1]) /\ UNCHANGED frontendVars
        ELSE \E list \in Orders(edges) :
               LET pushes == Pushes(ChildrenHierarchy(absorbed, list)) IN
               IF ~\A p \in pushes : pushFits(absorbed, p[1], p[2])
               THEN Fail("ThroughElemSize >= PushedFieldSize + Final.Offset")
               ELSE /\ ts' = pushedThrough(absorbed, pushes)
                    /\ Goto("nodes", [work EXCEPT
                         !.left = @ - 1,
                         !.ToAnalyze = ToAnalyzeAfter(n, pushes) \cap ts'.Layouts])
                    /\ KeepFrontend

ArrangeAgain ==
  /\ At({"ArrangeAccessesHierarchically"}, "nodes")
  /\ work.left = 0 /\ work.ToAnalyze # {}
  /\ Goto("nodes", [work EXCEPT !.left = Len(work.Queue)])
  /\ UNCHANGED frontendVars

ArrangeDone ==
  /\ At({"ArrangeAccessesHierarchically"}, "nodes")
  /\ work.ToAnalyze = {}
  /\ EndStep
  /\ UNCHANGED frontendVars

------------------------------------------------------------------------------
(* ComputeNonInterferingComponents.  A component starts at a byte where a   *)
(* field starts and that no earlier field extends over.                     *)
StartBytes(sys, n) ==
  {e.tag.OE.Offset : e \in {f \in fieldsOf(sys, n) : \A g \in fieldsOf(sys, n) :
     ~(g.tag.OE.Offset < f.tag.OE.Offset /\ f.tag.OE.Offset < getFieldUpperMember(sys, g))}}

component(sys, n, start) ==
  {e \in fieldsOf(sys, n) : start = Max({b \in StartBytes(sys, n) : b <= e.tag.OE.Offset})}

manyElements(sys, n, b) == Cardinality(component(sys, n, b)) > 1

newUnion(sys, n, start, edges) ==
  LET new == sys.NID
      size == Max({getFieldUpperMember(sys, e) : e \in edges}) - start
      created == [createArtificialLayoutType(sys) EXCEPT
                    !.Info[new] = "AllChildrenAreInterfering", !.Size[new] = size]
      moved == FoldSet(LAMBDA e, s : moveEdgeSource(s, e, new, -start), created, edges)
  IN addInstanceLink(moved, n, new, AtOffset(start))

nonInterfering(sys, n) ==
  LET unions == SetToSortSeq({b \in StartBytes(sys, n) : manyElements(sys, n, b)}, <)
      alone == Cardinality(StartBytes(sys, n)) < 2
      split == FoldLeft(LAMBDA s, b : newUnion(s, n, b, component(sys, n, b)), sys, unions)
  IN IF alone /\ unions # << >>
     THEN [sys EXCEPT !.Info[n] = "AllChildrenAreInterfering"]
     ELSE [split EXCEPT !.Info[n] = "AllChildrenAreNonInterfering"]

StartComponents ==
  /\ At({"ComputeNonInterferingComponents"}, "start")
  /\ Goto("visit", [todo |-> FromRoots(ts)])
  /\ UNCHANGED frontendVars

ComponentsVisit ==
  /\ At({"ComputeNonInterferingComponents"}, "visit")
  /\ work.todo # {}
  /\ LET n == nextInPostOrder(work.todo, NonPointerEdges(ts)) IN
     IF hasSizedFields(n) /\ ts.Size[n] > 0
     THEN /\ ts' = nonInterfering(ts, n)
          /\ Goto("visit", [todo |-> work.todo \ {n}])
          /\ KeepFrontend
     ELSE Fail("N->Size")

ComponentsDone ==
  /\ At({"ComputeNonInterferingComponents"}, "visit")
  /\ work.todo = {}
  /\ EndStep
  /\ UNCHANGED frontendVars

AccessesNext ==
  \/ StartArrange \/ ArrangeNode \/ ArrangeAgain \/ ArrangeDone
  \/ StartComponents \/ ComponentsVisit \/ ComponentsDone
=============================================================================
