----------------------------- MODULE LayoutPointers -----------------------------
(****************************************************************************)
(* The optimization steps of the middle-end that are about pointers:        *)
(* MergePointeesOfPointerUnion, MergePointerNodes, PushDownPointers and     *)
(* ResolveLeafUnions, each in the file of its name in                       *)
(* lib/DataLayoutAnalysis/Middleend.                                        *)
(****************************************************************************)
EXTENDS LayoutSizes

firstSuccessor(sys, n) == InOrder(SuccessorEdges(sys, n))[1]
pointerEdges(sys, n) == {e \in SuccessorEdges(sys, n) : IsPointerEdge(e)}

isWellFormedPointer(sys, n) ==
  Cardinality(SuccessorEdges(sys, n)) = 1 /\ IsPointerNode(sys, n)

getPointee(sys, n) == firstSuccessor(sys, n).tgt

------------------------------------------------------------------------------
(* MergePointeesOfPointerUnion.  The children of a node that are pointers   *)
(* and have the same tag are pointers to the same thing.                    *)
pointerChildren(n) ==
  {e \in SuccessorEdges(ts, n) : IsInstanceEdge(e) /\ IsPointerNode(ts, e.tgt)}

unionOfPointers(n) ==
  {Edge(e.tgt, f.tgt, PointerTag) : <<e, f>> \in
     {p \in pointerChildren(n) \X pointerChildren(n) : p[1].tag = p[2].tag /\ p[1] # p[2]}}

ToMerge(n) ==
  {reachable(unionOfPointers(n), e.src) : e \in unionOfPointers(n)}

(* The pointees, the larger and older ones first.  Those whose type comes   *)
(* from the model are left alone: the list that is meant to hold them is    *)
(* taken from that of the aggregates, which was emptied just before.        *)
bySize(sys, nodes) ==
  SetToSortSeq(nodes, LAMBDA m, n :
    m # n /\ (sys.Size[m] > sys.Size[n] \/ (sys.Size[m] = sys.Size[n] /\ m < n)))

Pointees(sys, pointers) == {getPointee(sys, p) : p \in pointers}
isScalar(sys, n) ==
  ~sys.NonScalar[n] /\ (SuccessorEdges(sys, n) = {} \/ IsPointerNode(sys, n))
isAggregate(sys, n) == ~sys.NonScalar[n] /\ ~isScalar(sys, n)

(* A merged scalar with many pointer edges becomes a union of pointers.     *)
newPointer(sys, e) ==
  LET n == sys.NID
      created == [createArtificialLayoutType(sys) EXCEPT !.Size[n] = PointerSize]
  IN addInstanceLink(moveEdgeSource(created, e, n, 0), e.src, n, AtOffset(0))

unionOfPointees(sys, n) ==
  FoldLeft(newPointer, sys, InOrder(pointerEdges(sys, n)))

(* The pointers to scalars point to the aggregate, which has the scalar at  *)
(* offset 0 and is at least as large.                                       *)
pointToAggregate(sys, pointers, aggregate) ==
  FoldSet(LAMBDA p, s : moveEdgeTarget(s, firstSuccessor(s, p), aggregate, 0), sys, pointers)

scalarInAggregate(sys, scalar, aggregate) ==
  addInstanceLink([sys EXCEPT !.Size[aggregate] = Max({@, sys.Size[scalar]})],
                  aggregate, scalar, AtOffset(0))

classified(sys, pointers) ==
  [scalars |-> bySize(sys, {n \in Pointees(sys, pointers) : isScalar(sys, n)}),
   aggregates |-> bySize(sys, {n \in Pointees(sys, pointers) : isAggregate(sys, n)}),
   toScalars |-> {p \in pointers : isScalar(sys, getPointee(sys, p))}]

mergedScalars(sys, r) == IF r.scalars = << >> THEN sys ELSE mergeNodes(sys, r.scalars)

isUnion(sys, r) ==
  r.scalars # << >> /\ Cardinality(pointerEdges(sys, r.scalars[1])) > 1

mergedAggregates(sys, r) ==
  LET split == IF isUnion(sys, r) THEN unionOfPointees(sys, r.scalars[1]) ELSE sys
  IN IF r.aggregates = << >> THEN split ELSE mergeNodes(split, r.aggregates)

mergedPointees(sys, r) ==
  IF r.scalars = << >> \/ r.aggregates = << >> THEN sys
  ELSE scalarInAggregate(pointToAggregate(sys, r.toScalars, r.aggregates[1]),
                         r.scalars[1], r.aggregates[1])

(* The assertions along the way: a pointee that is a pointer is well formed, *)
(* and a merged scalar that points somewhere has the size of a pointer.  A  *)
(* pointer that was itself merged away as somebody's pointee, or that lost  *)
(* its edge, cannot be made to point to the aggregate.                      *)
pointeesAreWellFormed(sys, r) ==
  \A n \in ToSet(r.scalars) : IsPointerNode(sys, n) => isWellFormedPointer(sys, n)

mergedScalarIsAPointer(sys, r) ==
  r.scalars # << >> /\ pointerEdges(sys, r.scalars[1]) # {} =>
    sys.Size[r.scalars[1]] = PointerSize

pointersCanMove(sys, r) ==
  r.scalars # << >> /\ r.aggregates # << >> =>
    \A p \in r.toScalars : SuccessorEdges(sys, p) # {}

StartPointees ==
  /\ At({"MergePointeesOfPointerUnion"}, "start")
  /\ IF verifyLeafs(ts)
     THEN Goto("nodes", [Nodes |-> ts.Layouts, Again |-> << >>]) /\ UNCHANGED frontendVars
     ELSE Fail("verifyLeafs")

(* The next node is the one pushed last, if any.                            *)
PointeesNode ==
  /\ At({"MergePointeesOfPointerUnion"}, "nodes")
  /\ \E n \in IF work.Again # << >> THEN {Last(work.Again)} ELSE work.Nodes :
       LET again == IF work.Again # << >> THEN Front(work.Again) ELSE << >>
           left == IF work.Again # << >> THEN work.Nodes ELSE work.Nodes \ {n}
       IN IF \E e \in pointerChildren(n) : ~isWellFormedPointer(ts, e.tgt)
          THEN Fail("isWellFormedPointer")
          ELSE /\ Goto("classes", [Nodes |-> left, Again |-> again, ToMerge |-> ToMerge(n)])
               /\ UNCHANGED frontendVars

MergeClass ==
  /\ At({"MergePointeesOfPointerUnion"}, "classes")
  /\ \E class \in work.ToMerge :
       LET pointers == class \cap ts.Layouts IN
       IF \E p \in pointers : ~isWellFormedPointer(ts, p) THEN Fail("getPointee")
       ELSE \E r \in {classified(ts, pointers)} : \E oneScalar \in {mergedScalars(ts, r)} :
            IF ~pointeesAreWellFormed(ts, r) THEN Fail("isWellFormedPointer(Pointee)")
            ELSE IF ~mergedScalarIsAPointer(oneScalar, r)
            THEN Fail("MergedScalar->Size == PointerSize")
            ELSE \E oneEach \in {mergedAggregates(oneScalar, r)} :
                 IF ~pointersCanMove(oneEach, r) THEN Fail("moveEdgeTarget")
                 ELSE /\ ts' = mergedPointees(oneEach, r)
                      /\ Goto("classes", [
                           Nodes |-> work.Nodes \cap ts'.Layouts,
                           Again |-> SelectSeq(IF isUnion(oneScalar, r) THEN Append(work.Again, r.scalars[1])
                                               ELSE work.Again, LAMBDA n : n \in ts'.Layouts),
                           ToMerge |-> work.ToMerge \ {class}])
                      /\ KeepFrontend

ClassesDone ==
  /\ At({"MergePointeesOfPointerUnion"}, "classes")
  /\ work.ToMerge = {}
  /\ Goto("nodes", [Nodes |-> work.Nodes, Again |-> work.Again])
  /\ UNCHANGED frontendVars

PointeesDone ==
  /\ At({"MergePointeesOfPointerUnion"}, "nodes")
  /\ work.Nodes = {} /\ work.Again = << >>
  /\ EndStep
  /\ UNCHANGED frontendVars

------------------------------------------------------------------------------
(* MergePointerNodes: the pointers to a node are all merged, into the oldest,*)
(* and then those that point to them, until no node has two of them.        *)
pointersTo(sys, n) == {e.src : e \in {p \in PredecessorEdges(sys, n) : IsPointerEdge(p)}}

manyPointers == {n \in ts.Layouts : Cardinality(pointersTo(ts, n)) >= 2}

pointersCanMerge ==
  \A n \in ts.Layouts : \A p, q \in pointersTo(ts, n) :
    Cardinality(SuccessorEdges(ts, p)) = 1 /\ ts.Size[p] = ts.Size[q]

(* The visit that gets to n may have started from a pointer that is erased, *)
(* when there is a cycle of pointers.                                       *)
erasedWhileVisited(n) ==
  \E p \in pointersTo(ts, n) \ {Min(pointersTo(ts, n))} :
    p \in reachable({e \in ts.Succ : IsPointerEdge(e)}, n)

MergePointers ==
  /\ At({"MergePointerNodes"}, "start")
  /\ IF ~pointersCanMerge THEN Fail("ToMerge[0]->Size == PointerToMerge->Size")
     ELSE \E n \in manyPointers : \E dangling \in IF erasedWhileVisited(n) THEN BOOLEAN ELSE {FALSE} :
            IF dangling THEN Fail("erased while visited")
            ELSE /\ ts' = mergeNodes(ts, SetToSortSeq(pointersTo(ts, n), <))
                 /\ Goto("start", Nothing)
                 /\ KeepFrontend

PointersDone ==
  /\ At({"MergePointerNodes"}, "start")
  /\ pointersCanMerge /\ manyPointers = {}
  /\ EndStep
  /\ UNCHANGED frontendVars

------------------------------------------------------------------------------
(* PushDownPointers.  A pointer inside a node, to one of those that contain *)
(* it at offset 0, points deeper: to the first node with many children at   *)
(* offset 0 that a visit from the pointee finds, or else to the node itself.*)
(* Here an array that starts at offset 0 is at offset 0 too.                *)
startsAtOffset0(e) == IsInstanceEdge(e) /\ e.tag.OE.Offset = 0
childrenAtStart(sys, n) == {e.tgt : e \in {f \in SuccessorEdges(sys, n) : startsAtOffset0(f)}}
containersAtStart(sys, n) == {m \in sys.Layouts : n \in reachable({e \in sys.Succ : startsAtOffset0(e)}, m)}

pointersBelow(sys, parent) ==
  {p \in UNION {reachable(sys.Succ, e.tgt) : e \in SuccessorEdges(sys, parent)} :
     IsPointerNode(sys, p)}

pointersInto(sys, parent) ==
  {p \in pointersBelow(sys, parent) :
     \E e \in pointerEdges(sys, p) : e.tgt \in containersAtStart(sys, parent) \ {parent}}

newPointee(sys, parent, pointee) ==
  LET visited == preOrder(InstancesOf(sys), pointee, childrenAtStart(sys, parent))
      candidates == SelectSeq(visited, LAMBDA n : Cardinality(childrenAtStart(sys, n)) > 1)
  IN IF candidates = << >> THEN parent ELSE candidates[1]

pushedDown(sys, parent, p) ==
  LET e == firstSuccessor(sys, p)
  IN addPointerLink(eraseEdge(sys, e), p, newPointee(sys, parent, e.tgt))

StartPush ==
  /\ At({"PushDownPointers"}, "start")
  /\ Goto("nodes", [todo |-> {n \in ts.Layouts : ~IsInstanceLeaf(ts, n)}])
  /\ UNCHANGED frontendVars

PushDown ==
  /\ At({"PushDownPointers"}, "nodes")
  /\ \E n \in work.todo :
       IF IsPointerNode(ts, n) \/ ~\A p \in pointersBelow(ts, n) : isWellFormedPointer(ts, p)
       THEN Fail("not isPointerNode(Parent)")
       ELSE /\ ts' = FoldSet(LAMBDA p, s : pushedDown(s, n, p), ts, pointersInto(ts, n))
            /\ Goto("nodes", [todo |-> work.todo \ {n}])
            /\ KeepFrontend

PushDone ==
  /\ At({"PushDownPointers"}, "nodes")
  /\ work.todo = {}
  /\ EndStep
  /\ UNCHANGED frontendVars

------------------------------------------------------------------------------
(* ResolveLeafUnions.  Two leaves of the same size and tag are compared: a  *)
(* pointer is more general than a scalar, and than a pointer to what its    *)
(* pointee has at offset 0.  The two visits share the nodes they have seen, *)
(* so that the second one never finds what it looks for.                    *)
startsWith(sys, m, n) == n \in reachable({e \in sys.Succ : startsAtOffset0(e)}, m)

moreGeneral(sys, m, n) ==
  /\ IsPointerNode(sys, m)
  /\ IsPointerNode(sys, n) =>
       getPointee(sys, m) # getPointee(sys, n) /\ startsWith(sys, getPointee(sys, m), getPointee(sys, n))

lessGeneral(sys, m, n) == ~IsPointerNode(sys, m) /\ IsPointerNode(sys, n)

leafEdges(n) == {e \in SuccessorEdges(ts, n) : IsInstanceEdge(e) /\ IsLeaf(ts, e.tgt)}
leafUnions(n) == {{f \in leafEdges(n) : f.tag = e.tag /\ ts.Size[f.tgt] = ts.Size[e.tgt]} : e \in leafEdges(n)}

(* All the pairs of a list, in the order of the two loops.                  *)
resolveUnion(sys, list) ==
  LET later(i) == [k \in 1..(Len(list) - i) |-> <<i, i + k>>]
      pairs == FlattenSeq([i \in DOMAIN list |-> later(i)])
      resolve(s, p) ==
        LET e == list[p[1]]
            f == list[p[2]]
        IN IF ~({e, f} \subseteq s.Succ) THEN s
           ELSE IF moreGeneral(s, e.tgt, f.tgt) THEN eraseEdge(s, f)
           ELSE IF lessGeneral(s, e.tgt, f.tgt) THEN eraseEdge(s, e)
           ELSE s
  IN FoldLeft(resolve, sys, pairs)

StartResolve ==
  /\ At({"ResolveLeafUnions"}, "start")
  /\ Goto("nodes", [todo |-> {u \in UNION {leafUnions(n) : n \in ts.Layouts} : Cardinality(u) > 1}])
  /\ UNCHANGED frontendVars

(* The children of a union are compared in the order of their addresses.    *)
ResolveUnion ==
  /\ At({"ResolveLeafUnions"}, "nodes")
  /\ \E u \in work.todo : \E list \in Orders(u) :
       IF \E e \in u : IsPointerNode(ts, e.tgt) /\ ~isWellFormedPointer(ts, e.tgt)
       THEN Fail("N->Successors.size() == 1")
       ELSE /\ ts' = resolveUnion(ts, list)
            /\ Goto("nodes", [todo |-> work.todo \ {u}])
            /\ KeepFrontend

ResolveDone ==
  /\ At({"ResolveLeafUnions"}, "nodes")
  /\ work.todo = {}
  /\ EndStep
  /\ UNCHANGED frontendVars

PointersNext ==
  \/ StartPointees \/ PointeesNode \/ MergeClass \/ ClassesDone \/ PointeesDone
  \/ MergePointers \/ PointersDone
  \/ StartPush \/ PushDown \/ PushDone
  \/ StartResolve \/ ResolveUnion \/ ResolveDone
=============================================================================
