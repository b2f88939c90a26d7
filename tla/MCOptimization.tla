---------------------------- MODULE MCOptimization ----------------------------
(* The whole schedule of DLAPass.cpp.  The optimization steps need more of  *)
(* a program before they have something to do than the normalization ones:  *)
(* there are programs written for a step or for what two steps do to each   *)
(* other, two arrays in a type in every position, and the combinations of   *)
(* a list of fields, arrays, pointers and phis.                             *)
EXTENDS UpdateModelTypes, MCNormalization

MCWholeSchedule == <<
  "RemoveInvalidPointers", "CollapseEqualitySCC", "CollapseInstanceAtOffset0SCC",
  "SimplifyInstanceAtOffset0", "PruneLayoutNodesWithoutLayout",
  "ComputeUpperMemberAccesses", "RemoveInvalidStrideEdges",
  "PruneLayoutNodesWithoutLayout", "ComputeUpperMemberAccesses", "DecomposeStridedEdges",
  "CollapseSingleChild", "DeduplicateFields", "MergePointeesOfPointerUnion",
  "MergePointerNodes", "CollapseInstanceAtOffset0SCC", "SimplifyInstanceAtOffset0",
  "PruneLayoutNodesWithoutLayout", "ComputeUpperMemberAccesses", "RemoveInvalidStrideEdges",
  "PruneLayoutNodesWithoutLayout", "ComputeUpperMemberAccesses",
  "MergePointerNodes", "CollapseSingleChild", "DeduplicateFields",
  "ArrangeAccessesHierarchically", "CompactCompatibleArrays", "PushDownPointers",
  "MergePointerNodes", "ResolveLeafUnions", "CollapseSingleChild", "DeduplicateFields",
  "ComputeNonInterferingComponents">>

MCManyNodes == 0..25
MCManyValues == 1..9

(* A field: the type of v has that of w at some offset, and a scalar of     *)
(* some size is loaded through w into a value nothing is known of.          *)
Field(v, oe, w, size) == <<Base(v, w, oe), Access(w, size, 9)>>

------------------------------------------------------------------------------
(* Types that point to themselves, with more than a pointer in them; fields *)
(* that contain others, or lie across the elements of an array; a padding   *)
(* before a field of what is pointed to.                                    *)
MCList == <<Access(1, 8, 1)>> \o Field(1, AtOffset(8), 2, 4)
MCNested ==
  Field(1, AtOffset(0), 2, 4) \o <<Arg(3, 16, TRUE)>> \o Field(3, AtOffset(4), 4, 4)
    \o <<Phi(1, 3)>> \o Field(1, AtOffset(8), 5, 4)
MCRecordInArray ==
  <<Access(1, 4, 9)>> \o Field(1, AtOffset(4), 2, 4)
    \o <<Base(3, 1, Strided(0, 8, 4))>> \o Field(3, AtOffset(20), 4, 4)
MCCrossing ==
  <<Access(1, 4, 9)>> \o Field(1, AtOffset(4), 2, 4)
    \o <<Base(3, 1, Strided(0, 8, 4))>> \o Field(3, AtOffset(14), 4, 4)
MCPadding ==
  <<Access(1, 8, 2)>> \o Field(2, AtOffset(4), 3, 4) \o <<Base(5, 2, AtOffset(8)), Access(5, 4, 9)>>
MCThreeLevels ==
  <<Arg(2, 16, TRUE), Arg(3, 8, TRUE), Base(1, 2, AtOffset(8)), Base(1, 3, AtOffset(12)),
    Access(2, 4, 9), Access(3, 4, 9)>>
    \o Field(2, AtOffset(12), 4, 4) \o Field(3, AtOffset(6), 5, 2) \o Field(1, AtOffset(16), 6, 2)
MCRecordInSegment ==
  <<Arg(1, 24, TRUE), Access(4, 8, 2)>> \o Field(1, AtOffset(8), 2, 2) \o Field(2, AtOffset(2), 3, 2)
MCHeader == <<Arg(1, 16, FALSE), Access(1, 8, 2), Access(2, 8, 1)>>

(* Pointers in the same place: to two records, to two scalars, to a record  *)
(* and to a pointer.                                                        *)
MCTwoPointers == <<Access(1, 8, 2), Access(1, 8, 3)>>
MCTwoRecords ==
  MCTwoPointers \o <<Access(2, 4, 9)>> \o Field(2, AtOffset(4), 4, 4) \o Field(3, AtOffset(8), 5, 4)
MCTwoScalars ==
  MCTwoPointers \o <<Access(2, 8, 5), Access(3, 8, 4), Access(4, 4, 9), Access(5, 2, 9)>>
MCRecordAndPointer ==
  MCTwoPointers \o <<Access(2, 8, 4), Access(4, 4, 9), Access(3, 4, 9)>> \o Field(3, AtOffset(4), 5, 4)

(* Unions: of scalars that overlap in part, of two equal records, and of    *)
(* pointers to a record and to its first field.                             *)
MCOverlap ==
  <<Access(1, 8, 9)>> \o Field(1, AtOffset(4), 2, 8) \o Field(1, AtOffset(16), 3, 4)
MCEqualRecords ==
  <<Base(1, 2, AtOffset(8)), Base(1, 3, AtOffset(8)), Phi(4, 2), Phi(4, 3), Access(2, 4, 9)>>
    \o Field(2, AtOffset(4), 5, 4) \o <<Access(3, 4, 9)>> \o Field(3, AtOffset(4), 6, 4)
    \o <<Access(1, 4, 9)>>
MCPointersToFirstField ==
  <<Base(1, 2, AtOffset(8)), Access(2, 8, 3), Base(1, 4, AtOffset(8)), Access(4, 8, 5),
    Base(4, 6, AtOffset(8)), Access(6, 4, 9), Phi(3, 5), Access(5, 4, 9)>> \o Field(3, AtOffset(8), 7, 4)

(* A node that contains a pointer to what contains it.                      *)
MCBackPointer ==
  <<Arg(1, 16, FALSE), Base(1, 2, AtOffset(0)), Phi(3, 2), Access(2, 8, 1)>>
    \o Field(2, AtOffset(8), 4, 4)

(* Two fields that overlap, are equal and have one field once the field of  *)
(* that was collapsed, which is also a field next to them: when they are    *)
(* merged it is collapsed while it waits to be compared.                    *)
MCCollapsedField ==
  <<Arg(5, 4, TRUE), Call(2, 5), Call(3, 5), Call(4, 5), Phi(1, 2), Phi(1, 3), Phi(6, 2), Phi(6, 3),
    Phi(2, 4), Phi(3, 4), Base(1, 7, AtOffset(8)), Phi(7, 4)>>

(* Two fields that overlap and have equal fields of their own, which are    *)
(* also next to them: merging the two merges what waits to be compared.     *)
MCMergedFields ==
  <<Phi(1, 2), Phi(1, 3), Phi(6, 2), Phi(6, 3), Phi(2, 4), Phi(3, 5), Base(1, 7, AtOffset(8)), Phi(7, 4),
    Base(1, 8, AtOffset(12)), Phi(8, 5), Access(2, 2, 9), Access(3, 2, 9), Access(4, 4, 9), Access(5, 4, 9)>>

(* Loops of phis, some through the field of what they go round.             *)
MCPhiLoops ==
  {<<Phi(1, 3), Phi(3, 1)>> \o phis \o <<Base(1, 4, AtOffset(8)), Access(4, 8, 3), Access(5, 4, 9)>> :
     phis \in {<<Phi(3, 5)>>, <<Phi(4, 1)>>, <<Phi(4, 1), Phi(4, 5)>>, <<Phi(4, 3), Phi(4, 1), Phi(5, 4)>>,
               <<Same(3, 5), Phi(4, 5)>>}}

(* Two arrays, one at each offset and of each trip count, an unknown one    *)
(* too, and a field in or after them.                                       *)
MCArrays ==
  {Field(1, Strided(p, 8, m), 2, 4) \o Field(1, Strided(q, 8, n), 3, size)
     \o Field(1, AtOffset(at), 4, 4) :
       p \in {0, 4, 8}, m \in {0, 3}, q \in {0, 4, 12}, n \in {2, 3}, size \in {4, 8}, at \in {8, 20}}

(* Any two or three of these, none of which closes a circle of pointers.    *)
MCFragments == <<
  Field(1, AtOffset(0), 2, 4), Field(1, AtOffset(4), 3, 4), Field(1, AtOffset(8), 4, 8),
  Field(1, AtOffset(4), 5, 8), Field(1, Strided(4, 8, 3), 6, 4), Field(2, AtOffset(4), 7, 4),
  Field(3, AtOffset(8), 8, 4), Field(1, Strided(8, 16, 2), 6, 8),
  <<Access(1, 8, 2)>>, <<Access(2, 8, 3)>>, <<Access(3, 4, 9)>>, <<Access(1, 4, 9)>>,
  <<Base(1, 3, AtOffset(8))>>, <<Phi(2, 3)>>, <<Phi(1, 4)>>, <<Phi(4, 5)>>,
  <<Arg(1, 24, TRUE)>>, <<Arg(2, 8, TRUE)>>, <<Same(2, 4)>>, <<StackFrame(1)>>>>

MCWholePrograms ==
  {MCList, MCNested, MCRecordInArray, MCCrossing, MCThreeLevels, MCPadding, MCRecordInSegment, MCHeader,
   MCTwoRecords, MCTwoScalars, MCRecordAndPointer, MCOverlap, MCEqualRecords,
   MCPointersToFirstField, MCBackPointer, MCCollapsedField, MCMergedFields} \cup MCPhiLoops \cup MCArrays
    \cup {FlattenSeq(p) : p \in Chosen(MCFragments, 2) \cup Chosen(MCFragments, 3)}

------------------------------------------------------------------------------
(* The models: a function of the values 1 and 2 that returns 3 and has stack  *)
(* arguments, 4; if 2 and 4 are the same, two functions of one prototype      *)
(* instead.  What is not from the model is of the size of a pointer.          *)
Typed(p) == {p[i].val : i \in {i \in DOMAIN p : p[i].op = "Arg"}}
Known(p, v) == IF v \in Typed(p) THEN VoidPointer ELSE Primitive(IF v = 1 THEN "Generic" ELSE "PointerOrNumber", 8)
Signature(p, arguments, returns, stack) ==
  [arguments |-> [i \in DOMAIN arguments |-> Known(p, arguments[i])],
   returns |-> [i \in DOMAIN returns |-> Known(p, returns[i])], stackArguments |-> stack]
Function(arguments, returns, stack, frame, frameValue) ==
  [prototype |-> 1, arguments |-> arguments, returns |-> returns, stackArguments |-> stack,
   frame |-> frame, frameValue |-> frameValue]

(* Of the definitions the first is that of the stack arguments, the second    *)
(* that of the stack frame, the third that of the segment, the fourth that of  *)
(* a field of it and the last that of a field of that.                         *)
MCSegmentFields == {<< >>, 0 :> Primitive("Generic", 4), 4 :> Defined(4), 8 :> Primitive("Generic", 8)}
MCNestedFields ==
  {<< >>, 0 :> Primitive("Generic", 2), 2 :> Primitive("Generic", 2), 4 :> Defined(5)}

MCModels(p) ==
  LET frames == {i \in DOMAIN p : p[i].op = "StackFrame"}
      segments == {i \in DOMAIN p : p[i].op = "Arg" /\ p[i].NonScalar /\ p[i].Size > 8}
      sharing == \E i \in DOMAIN p : p[i] = Same(2, 4)
      frame == IF frames = {} THEN NoStruct ELSE 2
  IN  {[definitions |->
          <<StructOf(12, << >>), StructOf(size, << >>),
            StructOf(IF segments = {} THEN 16 ELSE p[Min(segments)].Size, fields), StructOf(8, nested),
            StructOf(4, << >>)>>,
        prototypes |->
          <<IF sharing THEN Signature(p, <<2>>, << >>, NoStruct) ELSE Signature(p, <<1, 2>>, <<3>>, 1)>>,
        functions |->
          IF sharing THEN <<Function(<<2>>, << >>, 4, frame, 1), Function(<<4>>, << >>, 4, NoStruct, 1)>>
          ELSE <<Function(<<1, 2>>, <<3>>, 4, frame, 1)>>,
        segments |-> IF segments = {} THEN << >> ELSE <<[value |-> p[Min(segments)].val, struct |-> 3]>>] :
       size \in IF frames = {} THEN {16} ELSE {8, 16},
       fields \in IF segments = {} THEN {<< >>} ELSE MCSegmentFields,
       nested \in IF segments = {} THEN {<< >>} ELSE MCNestedFields}

------------------------------------------------------------------------------
(* The program of the run that does not end.                                *)
MCArrayOfItself ==
  {<<Arg(2, 8, TRUE), Phi(1, 2), Phi(2, 3), Base(1, 3, Strided(0, 8, 2)), Access(3, 4, 9)>>
     \o Field(3, AtOffset(4), 4, 4) \o <<Access(2, 8, 5), Access(5, 4, 9)>>}
=============================================================================
