------------------------------ MODULE LayoutFields ------------------------------
(****************************************************************************)
(* The optimization steps of the middle-end that make fields disappear:     *)
(* CollapseSingleChild (DLACollapseSingleChild.cpp) and DeduplicateFields   *)
(* (DeduplicateFields.cpp).                                                 *)
(****************************************************************************)
EXTENDS DLASteps

(* collapseSingle.  A node with one field, not an array, and no other bytes *)
(* is the field: at offset 0 the two are merged; at another offset the      *)
(* padding before the field goes to the nodes that contain it, unless some  *)
(* pointer relies on where it starts.                                       *)
onlyChild(sys, n) ==
  {e \in SuccessorEdges(sys, n) :
     /\ Cardinality(SuccessorEdges(sys, n)) = 1
     /\ IsInstanceEdge(e) /\ e.tag.OE.Strides = << >>}

fillsParent(sys, e) == e.tag.OE.Offset + sys.Size[e.tgt] = sys.Size[e.src]

(* Mutant: the parent may be pointed to.                                    *)
MutpaddingMayMove(sys, e) ==
  /\ ~IsInstanceRoot(sys, e.src)
  /\ ~sys.NonScalar[e.tgt]

paddingMayMove(sys, e) ==
  /\ IsPointerRoot(sys, e.src) /\ ~IsInstanceRoot(sys, e.src)
  /\ ~sys.NonScalar[e.tgt]

toCollapse(sys, n) ==
  {e \in onlyChild(sys, n) :
     fillsParent(sys, e) /\ (e.tag.OE.Offset = 0 \/ paddingMayMove(sys, e))}

collapsed(sys, e) ==
  LET offset == e.tag.OE.Offset
      moved == FoldSet(LAMBDA p, s : moveEdgeTarget(s, p, e.tgt, offset), sys,
                       PredecessorEdges(sys, e.src))
  IN IF offset = 0 THEN mergeNode(sys, e.src, e.tgt)
     ELSE [mergeNode(moved, e.src, e.tgt) EXCEPT !.Size[e.src] = sys.Size[e.tgt]]

(* Each round of the loop merges a node away.                               *)
collapseSingle(sys, n) ==
  LET round[k \in Nat] ==
        IF k = 0 THEN sys
        ELSE LET before == round[k - 1]
             IN FoldSet(LAMBDA e, s : collapsed(s, e), before, toCollapse(before, n))
  IN round[Cardinality(sys.Layouts)]

StartSingle ==
  /\ At({"CollapseSingleChild"}, "start")
  /\ Goto("nodes", [todo |-> ts.Layouts])
  /\ UNCHANGED frontendVars

CollapseSingle ==
  /\ At({"CollapseSingleChild"}, "nodes")
  /\ \E n \in work.todo :
       /\ ts' = collapseSingle(ts, n)
       /\ Goto("nodes", [todo |-> (work.todo \ {n}) \cap ts'.Layouts])
  /\ KeepFrontend

SingleDone ==
  /\ At({"CollapseSingleChild"}, "nodes")
  /\ work.todo = {}
  /\ EndStep
  /\ UNCHANGED frontendVars

------------------------------------------------------------------------------
(* DeduplicateFields, what is compared of two nodes: -1 when the first goes *)
(* before the second, 0 when neither does (weakOrderNodes), and the order   *)
(* of the links to them (orderLinks), where unknown trip counts go last.    *)
sign(m, n) == IF m < n THEN -1 ELSE IF n < m THEN 1 ELSE 0

Instances(sys, n) == {e \in SuccessorEdges(sys, n) : IsInstanceEdge(e)}

weakOrderNodes(sys, m, n) ==
  IF m = n THEN 0
  ELSE IF sys.Size[m] # sys.Size[n] THEN sign(sys.Size[m], sys.Size[n])
  ELSE LET all(k) == Cardinality(SuccessorEdges(sys, k))
           fields(k) == Cardinality(Instances(sys, k))
       IN IF all(m) # all(n) THEN sign(all(m), all(n)) ELSE sign(fields(m), fields(n))

unknownLast(oe) ==
  FlattenSeq([i \in DOMAIN oe.Strides |->
                IF oe.Strides[i].TripCount = 0 THEN <<1, 0>> ELSE <<0, oe.Strides[i].TripCount>>])

orderLinks(sys, e, f) ==
  IF e.tag # f.tag THEN InTagOrder(e.tag, f.tag, unknownLast)
  ELSE LET cmp == weakOrderNodes(sys, e.tgt, f.tgt)
       IN IF cmp # 0 THEN cmp < 0 ELSE e.tgt < f.tgt

sortedLinks(sys, n) ==
  SortSeq(SetToSeq(SuccessorEdges(sys, n)), LAMBDA e, f : e # f /\ orderLinks(sys, e, f))

(* exploreAndCompare: the pairs of nodes that two parallel visits compare,  *)
(* in order, and whether they found no difference.  The tags of the edges   *)
(* are compared at the top only; below, the visit pairs the sorted links of *)
(* two nodes of the same shape whatever their offsets.                      *)
samePointers(s, t) ==
  \A i \in DOMAIN s : IsPointerEdge(s[i]) => s[i].tgt = t[i].tgt

visitPair(sys, v) ==
  LET pair == v.pairs[v.next]
      s == sortedLinks(sys, pair[1])
      t == sortedLinks(sys, pair[2])
      fields == SelectSeq([i \in DOMAIN s |-> i], LAMBDA i : ~IsPointerEdge(s[i]))
  IN IF pair[1] = pair[2] THEN [v EXCEPT !.next = @ + 1]
     ELSE IF weakOrderNodes(sys, pair[1], pair[2]) # 0 \/ ~samePointers(s, t)
     THEN [v EXCEPT !.equal = FALSE]
     ELSE [v EXCEPT !.next = @ + 1,
                    !.pairs = @ \o [k \in DOMAIN fields |-> <<s[fields[k]].tgt, t[fields[k]].tgt>>]]

(* The visits go no deeper than the graph, if it has no loops of instances. *)
exploreAndCompare(sys, keep, merge) ==
  LET start == [pairs |-> <<<<keep.tgt, merge.tgt>>>>, next |-> 1, equal |-> keep.tag = merge.tag]
      visit[k \in Nat] ==
        IF k = 0 THEN start
        ELSE LET v == visit[k - 1]
             IN IF v.equal /\ v.next <= Len(v.pairs) THEN visitPair(sys, v) ELSE v
  IN visit[Cardinality(sys.Layouts) * Cardinality(sys.Succ)]

areEquivSubtrees(sys, keep, merge) == exploreAndCompare(sys, keep, merge).equal

(* mergeIfTopologicallyEq: the nodes compared with each other, one way or   *)
(* another, are merged, into the child to keep when it is among them and    *)
(* otherwise into the one that leads the class.                             *)
mergeClasses(pairs) ==
  LET lead(class, p) ==
        [n \in DOMAIN class |-> IF class[n] = class[p[2]] THEN class[p[1]] ELSE class[n]]
      nodes == {p[1] : p \in ToSet(pairs)} \cup {p[2] : p \in ToSet(pairs)}
  IN FoldLeft(lead, [n \in nodes |-> n], pairs)

kept(leader, keep, n) == IF leader[n] = leader[keep] THEN keep ELSE leader[n]

Preserved(leader, keep) == {kept(leader, keep, n) : n \in DOMAIN leader}
Erased(leader, keep) == DOMAIN leader \ Preserved(leader, keep)

mergedSubtrees(sys, leader, keep) ==
  FoldSet(LAMBDA n, s : mergeNode(s, kept(leader, keep, n), n), sys, Erased(leader, keep))

(* Then every node under the preserved child that is left with one field is *)
(* collapsed, in a post-order computed before: erased holds the nodes of it *)
(* that were no longer there when the loop got to them.                     *)
collapsedBelow(sys, n) ==
  FoldLeft(LAMBDA v, m : IF m \in v.sys.Layouts THEN [v EXCEPT !.sys = collapseSingle(@, m)]
                         ELSE [v EXCEPT !.erased = @ \cup {m}],
           [sys |-> sys, erased |-> {}], postOrder(NonPointerEdges(sys), n, {}))

------------------------------------------------------------------------------
(* The nodes with many fields, in a post-order for each root.               *)
manyFields(sys, n) ==
  Cardinality({e \in SuccessorEdges(sys, n) : IsNotPointerEdge(e)}) >= 2

StartDedup ==
  /\ At({"DeduplicateFields"}, "start")
  /\ Goto("roots", [Roots |-> ts.Layouts, VisitedNodes |-> {}])
  /\ UNCHANGED frontendVars

DedupRoot ==
  /\ At({"DeduplicateFields"}, "roots")
  /\ \E r \in {n \in work.Roots : IsRoot(ts, n)} :
       LET order == postOrder(NonPointerEdges(ts), r, work.VisitedNodes) IN
       Goto("fields", [Roots |-> work.Roots \ {r},
                       VisitedNodes |-> work.VisitedNodes \cup ToSet(order),
                       PostOrder |-> SelectSeq(order, LAMBDA n : manyFields(ts, n))])
  /\ UNCHANGED frontendVars

(* The lists of the loops below are made before the merges and hold nodes   *)
(* that a merge may erase: to look at one of those is a use after free.     *)
(* What collapseSingle erases is left in the lists of fields, and is looked *)
(* at: memory of nodes is not used again, so its ID is still there to be    *)
(* read, and no link to it is found.                                        *)
UsesErased == Fail("Node was erased")
wasErased(n) == n \notin ts.Layouts \cup work.Collapsed

(* The fields of the next node are to be compared, the last one first.      *)
DedupNode ==
  /\ At({"DeduplicateFields"}, "fields")
  /\ work.PostOrder # << >>
  /\ LET n == Head(work.PostOrder)
         fields == {e.tgt : e \in SuccessorEdges(ts, n)}
     IN IF n \notin ts.Layouts THEN UsesErased
        ELSE /\ Goto("compare", [Roots |-> work.Roots, VisitedNodes |-> work.VisitedNodes,
                                 PostOrder |-> Tail(work.PostOrder), NodeWithFields |-> n,
                                 FieldsToCompare |-> SetToSortSeq(fields, <),
                                 AnalyzedNodesNotMerged |-> << >>,
                                 OriginalFields |-> fields, Collapsed |-> {}, Changed |-> FALSE])
             /\ UNCHANGED frontendVars

(* The pairs of a link to the current child and a link to a node that is    *)
(* already analyzed, in the order of the loops; one that was erased makes a *)
(* pair too.                                                                *)
linksTo(n, child) == InOrder({e \in SuccessorEdges(ts, n) : e.tgt = child})

analyzedLinks(n, child) == IF wasErased(child) THEN <<[tgt |-> child]>> ELSE linksTo(n, child)

candidates(n, child) ==
  LET links == SelectSeq(linksTo(n, child), IsNotPointerEdge)
      analyzed == FlattenSeq([i \in DOMAIN work.AnalyzedNodesNotMerged |->
                                analyzedLinks(n, work.AnalyzedNodesNotMerged[i])])
  IN FlattenSeq([i \in DOMAIN links |-> [j \in DOMAIN analyzed |-> <<analyzed[j], links[i]>>]])

(* The pairs at which the loops stop: equivalent subtrees, or an erased node.*)
toMerge(n, child) ==
  SelectSeq(candidates(n, child),
            LAMBDA c : wasErased(c[1].tgt) \/ areEquivSubtrees(ts, c[1], c[2]))

(* Mutant: the nodes that were erased stay in the list.                     *)
Mutwithout(list, nodes) == list

without(list, nodes) == SelectSeq(list, LAMBDA n : n \notin nodes)

(* Preserved fields are compared again, after those that are still to do,   *)
(* in any order: they come out of a set of pointers.                        *)
reenqueued(rest, preserved) == {rest \o q : q \in Orders(preserved \ ToSet(rest))}

KeepField(child) ==
  /\ Goto("compare", [work EXCEPT !.FieldsToCompare = Front(@),
                                  !.AnalyzedNodesNotMerged = Append(@, child)])
  /\ UNCHANGED frontendVars

(* The nodes mergeNodes erases leave both lists.                            *)
MergeFields(keep, leader) ==
  LET erased == Erased(leader, keep)
      preserved == Preserved(leader, keep) \cap work.OriginalFields
      rest == without(Front(work.FieldsToCompare), erased)
  IN \E after \in {collapsedBelow(mergedSubtrees(ts, leader, keep), keep)} :
       IF after.erased # {} THEN UsesErased
       ELSE /\ ts' = after.sys
            /\ \E fields \in reenqueued(rest, preserved) :
               Goto("compare", [work EXCEPT
                 !.FieldsToCompare = fields,
                 !.AnalyzedNodesNotMerged = without(@, erased \cup preserved),
                 !.Collapsed = @ \cup (ts.Layouts \ (after.sys.Layouts \cup erased)),
                 !.Changed = TRUE])
            /\ KeepFrontend

CompareField ==
  /\ At({"DeduplicateFields"}, "compare")
  /\ work.FieldsToCompare # << >>
  /\ LET child == Last(work.FieldsToCompare) IN
     \E equal \in {toMerge(work.NodeWithFields, child)} :
       IF wasErased(child) THEN UsesErased
       ELSE IF equal = << >> THEN KeepField(child)
       ELSE LET pair == Head(equal) IN
            IF wasErased(pair[1].tgt) THEN UsesErased
            ELSE \E leader \in {mergeClasses(exploreAndCompare(ts, pair[1], pair[2]).pairs)} :
                   MergeFields(pair[1].tgt, leader)

FieldsDone ==
  /\ At({"DeduplicateFields"}, "compare")
  /\ work.FieldsToCompare = << >>
  /\ ts' = IF work.Changed THEN collapseSingle(ts, work.NodeWithFields) ELSE ts
  /\ Goto("fields", [Roots |-> work.Roots, VisitedNodes |-> work.VisitedNodes,
                     PostOrder |-> work.PostOrder])
  /\ KeepFrontend

RootDone ==
  /\ At({"DeduplicateFields"}, "fields")
  /\ work.PostOrder = << >>
  /\ Goto("roots", [Roots |-> work.Roots \cap ts.Layouts, VisitedNodes |-> work.VisitedNodes])
  /\ UNCHANGED frontendVars

DedupDone ==
  /\ At({"DeduplicateFields"}, "roots")
  /\ ~\E n \in work.Roots : IsRoot(ts, n)
  /\ EndStep
  /\ UNCHANGED frontendVars

FieldsNext ==
  \/ StartSingle \/ CollapseSingle \/ SingleDone
  \/ StartDedup \/ DedupRoot \/ DedupNode \/ CompareField \/ FieldsDone \/ RootDone \/ DedupDone
=============================================================================
