------------------------------ MODULE LayoutArrays ------------------------------
(****************************************************************************)
(* The step CompactCompatibleArrays of the middle-end (lib/                 *)
(* DataLayoutAnalysis/Middleend/CompactCompatibleArrays.cpp): the arrays of *)
(* a node that overlap, and the fields that overlap them, become one array  *)
(* of a new node.                                                           *)
(****************************************************************************)
EXTENDS LayoutSizes, Integers

(* The arithmetic of putting two arrays together.  An array starts at       *)
(* StartOffset and ends at EndOffset, in the node that has it;              *)
(* AccessedElementSize bytes of each element are known to be accessed;      *)
(* Slack is how far the array can be moved towards lower offsets.           *)
least(m, n) == IF m <= n THEN m ELSE n
greatest(m, n) == IF m <= n THEN n ELSE m

CompactedArrayInfo(start, end, stride, element, slack) ==
  [StartOffset |-> start, EndOffset |-> end, Stride |-> stride,
   AccessedElementSize |-> element, Slack |-> slack]

NoArray == [none |-> TRUE]   \* a CompactedArrayInfo that is missing

getTripCount(start, end, stride) == (end - start + stride - 1) \div stride

(* An array of count elements of some size.                                 *)
makeArray(offset, stride, count, size) ==
  CompactedArrayInfo(offset, offset + stride * (count - 1) + size, stride, size,
                     least(offset, stride - size))

(* A field that is not an array is like one element of the array it is      *)
(* compared with, if it is not larger.                                      *)
makeElement(offset, outerStride, size) ==
  makeArray(offset, greatest(outerStride, size), 1, size)

------------------------------------------------------------------------------
(* How far toShift has to move for its elements to start where those of     *)
(* alignTo do.                                                              *)
RequiredSlack(toShift, alignTo) ==
  (toShift.StartOffset - alignTo.StartOffset) % toShift.Stride

shiftedStart(toShift, alignTo) ==
  least(toShift.StartOffset - RequiredSlack(toShift, alignTo), alignTo.StartOffset)

shiftedElement(toShift, alignTo) ==
  greatest(toShift.AccessedElementSize + RequiredSlack(toShift, alignTo), alignTo.AccessedElementSize)

shiftedCount(toShift, alignTo) ==
  LET start == shiftedStart(toShift, alignTo)
  IN greatest(getTripCount(start, toShift.EndOffset, toShift.Stride),
              getTripCount(start, alignTo.EndOffset, toShift.Stride))

shiftedEnd(toShift, alignTo) ==
  shiftedStart(toShift, alignTo) + toShift.Stride * (shiftedCount(toShift, alignTo) - 1)
    + shiftedElement(toShift, alignTo)

tryShiftLowerAndCompact(toShift, alignTo) ==
  IF \/ toShift.Slack < RequiredSlack(toShift, alignTo)
     \/ shiftedEnd(toShift, alignTo) > greatest(toShift.EndOffset, alignTo.EndOffset)
  THEN NoArray
  ELSE CompactedArrayInfo(
         shiftedStart(toShift, alignTo), shiftedEnd(toShift, alignTo), toShift.Stride,
         shiftedElement(toShift, alignTo),
         least(toShift.Slack - RequiredSlack(toShift, alignTo), alignTo.Slack))

(* The one that starts later is the best.                                   *)
pickBest(a, b) ==
  IF a = NoArray THEN b
  ELSE IF b = NoArray THEN a
  ELSE IF a.StartOffset < b.StartOffset THEN b ELSE a

overlap(a, b) == a.StartOffset < b.EndOffset /\ b.StartOffset < a.EndOffset

------------------------------------------------------------------------------
(* What pickBest asserts of two candidates.                                 *)
CandidatesAgree(a, b) ==
  a # NoArray /\ b # NoArray =>
    /\ a.Stride = b.Stride
    /\ a.StartOffset % a.Stride = b.StartOffset % b.Stride
    /\ a.EndOffset = b.EndOffset
    /\ a.StartOffset = b.StartOffset => a = b

------------------------------------------------------------------------------
(* An array, or for a field that is not one the element it would be.        *)
makeCompactedArrayInfo(sys, e, outerStride) ==
  LET oe == e.tag.OE
      size == sys.Size[e.tgt]
  IN IF oe.Strides = << >> THEN makeElement(oe.Offset, outerStride, size)
     ELSE makeArray(oe.Offset, oe.Strides[1].Stride, elements(oe.Strides[1]), size)

(* An array in a graph has elements that fit in its stride.                 *)
wellFormedArray(sys, e) ==
  /\ sys.Size[e.tgt] > 0
  /\ e.tag.OE.Strides # << >> => e.tag.OE.Strides[1].Stride >= sys.Size[e.tgt]

------------------------------------------------------------------------------
(* getEdgeToCompactWithCurrent: a pass over the siblings, which starts over *)
(* when the array grows.                                                    *)
leftAfter(array, best, siblings, left) ==
  IF best.StartOffset < array.StartOffset \/ best.EndOffset > array.EndOffset
  THEN siblings ELSE left

(* The array becomes the best of a and b, what it could become with e.      *)
compactedWith(siblings, v, e, a, b) ==
  IF a = NoArray /\ b = NoArray THEN [v EXCEPT !.left = Tail(@)]
  ELSE [Current |-> pickBest(a, b), with |-> Append(v.with, e),
        left |-> leftAfter(v.Current, pickBest(a, b), siblings, Tail(v.left)),
        agree |-> v.agree /\ CandidatesAgree(a, b)]

compareSibling(siblings, v, e, array) ==
  IF e \in ToSet(v.with) \/ array.Stride # v.Current.Stride \/ ~overlap(v.Current, array)
  THEN [v EXCEPT !.left = Tail(@)]
  ELSE compactedWith(siblings, v, e, tryShiftLowerAndCompact(v.Current, array),
                     tryShiftLowerAndCompact(array, v.Current))

getEdgeToCompactWithCurrent(sys, siblings, group) ==
  LET pass[k \in Nat] ==
        IF k = 0 THEN [group EXCEPT !.left = siblings]
        ELSE LET v == pass[k - 1] IN
             IF v.left = << >> THEN v
             ELSE compareSibling(siblings, v, Head(v.left),
                                 makeCompactedArrayInfo(sys, Head(v.left), v.Current.Stride))
  IN pass[Len(siblings) * (Len(siblings) + 1)]

(* The fields compacted with the array e of n, arrays first.                *)
compactedGroup(sys, n, e) ==
  LET siblings == InOrder({f \in SuccessorEdges(sys, n) : IsInstanceEdge(f)})
      arrays == SelectSeq(siblings, IsStridedInstance)
      others == SelectSeq(siblings, LAMBDA f : ~IsStridedInstance(f))
      alone == [Current |-> makeCompactedArrayInfo(sys, e, 0), with |-> <<e>>,
                left |-> << >>, agree |-> TRUE]
  IN getEdgeToCompactWithCurrent(sys, others, getEdgeToCompactWithCurrent(sys, arrays, alone))

------------------------------------------------------------------------------
(* The array of the group, of a new node that has a link to each of them.   *)
arrayEdge(n, new, array) ==
  Edge(n, new, InstanceTag(OffsetExpression(array.StartOffset, <<
    [Stride |-> array.Stride,
     TripCount |-> getTripCount(array.StartOffset, array.EndOffset, array.Stride)]>>)))

(* Mutant: the fields of an element start where they did in the parent.     *)
MutinElement(sys, new, array, s, e) ==
  addInstanceLink(eraseEdge(s, e), new, e.tgt, AtOffset(e.tag.OE.Offset - array.StartOffset))

inElement(sys, new, array, s, e) ==
  addInstanceLink(eraseEdge(s, e), new, e.tgt,
                  AtOffset((e.tag.OE.Offset - array.StartOffset) % array.Stride))

compactGroup(sys, n, group) ==
  LET new == sys.NID
      array == group.Current
      created == [createArtificialLayoutType(sys) EXCEPT !.Size[new] = array.AccessedElementSize]
      filled == FoldLeft(LAMBDA s, e : inElement(sys, new, array, s, e), created, group.with)
      edge == arrayEdge(n, new, array)
  IN addInstanceLink(filled, n, new, edge.tag.OE)

(* The loop over the edges of a node.  The new edge is the last one; it is  *)
(* not reached when there was none after the edge that is compacted.        *)
compactEdge(n, v, e, group) ==
  LET left == SelectSeq(Tail(v.left), LAMBDA f : f \notin ToSet(group.with))
      new == arrayEdge(n, v.sys.NID, group.Current)
  IN IF ~IsStridedInstance(e) THEN [v EXCEPT !.left = Tail(@)]
     ELSE IF Len(group.with) = 1 THEN [v EXCEPT !.left = Tail(@), !.agree = @ /\ group.agree]
     ELSE [sys |-> compactGroup(v.sys, n, group),
           left |-> IF left = << >> THEN << >> ELSE Append(left, new),
           agree |-> v.agree /\ group.agree]

compactNode(sys, n) ==
  LET edges == InOrder(SuccessorEdges(sys, n))
      loop[k \in Nat] ==
        IF k = 0 THEN [sys |-> sys, left |-> edges, agree |-> TRUE]
        ELSE LET v == loop[k - 1]
                 e == Head(v.left)
             IN IF v.left = << >> THEN v ELSE compactEdge(n, v, e, compactedGroup(v.sys, n, e))
  IN loop[2 * Len(edges)]

StartCompact ==
  /\ At({"CompactCompatibleArrays"}, "start")
  /\ Goto("visit", [todo |-> FromRoots(ts)])
  /\ UNCHANGED frontendVars

CompactVisit ==
  /\ At({"CompactCompatibleArrays"}, "visit")
  /\ work.todo # {}
  /\ LET n == nextInPostOrder(work.todo, NonPointerEdges(ts))
         fields == {e \in SuccessorEdges(ts, n) : IsInstanceEdge(e)}
     IN IF \E e \in fields : ~wellFormedArray(ts, e) THEN Fail("Stride >= ChildSize")
        ELSE IF IsLeaf(ts, n) THEN Goto("visit", [todo |-> work.todo \ {n}]) /\ UNCHANGED frontendVars
        ELSE \E r \in {compactNode(ts, n)} :
               IF ~r.agree THEN Fail("pickBest")
               ELSE /\ ts' = r.sys
                    /\ Goto("visit", [todo |-> work.todo \ {n}])
                    /\ KeepFrontend

CompactDone ==
  /\ At({"CompactCompatibleArrays"}, "visit")
  /\ work.todo = {}
  /\ EndStep
  /\ UNCHANGED frontendVars

ArraysNext == StartCompact \/ CompactVisit \/ CompactDone
=============================================================================
