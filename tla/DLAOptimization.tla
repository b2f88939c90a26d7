---------------------------- MODULE DLAOptimization ----------------------------
(****************************************************************************)
(* The whole middle-end of the Data Layout Analysis: the steps DLAPass.cpp  *)
(* schedules, those of the normalization phase and those of the             *)
(* optimization phase.                                                      *)
(****************************************************************************)
EXTENDS DLANormalization, LayoutFields, LayoutPointers, LayoutAccesses, LayoutArrays

OptimizationNext ==
  \/ Next
  \/ FieldsNext
  \/ PointersNext
  \/ AccessesNext
  \/ ArraysNext

(* The steps run to completion on the thread that called the pass.  Every   *)
(* action but Finished changes a variable and one of them is always enabled,*)
(* so that KeepsRunning is the weak fairness of OptimizationNext, without   *)
(* ENABLED, which takes TLC long to evaluate on the actions of the steps.   *)
Over == step > Len(Schedule) \/ failed # ""
KeepsRunning == <>[]Over \/ []<><<TRUE>>_vars

------------------------------------------------------------------------------
(* Where the fields of a node are, those of the elements of its arrays and  *)
(* of its fields included: the nodes, with their offsets.                   *)
starts(oe) ==
  FoldLeft(LAMBDA offsets, s : {o + i * s.Stride : o \in offsets, i \in 0..(elements(s) - 1)},
           {oe.Offset}, oe.Strides)

fieldsFrom(sys, p) ==
  UNION {{<<e.tgt, p[2] + o>> : o \in starts(e.tag.OE)} : e \in Instances(sys, p[1])}

places(sys, n) ==
  LET below[k \in Nat] ==
        IF k = 0 THEN {<<n, 0>>}
        ELSE LET found == below[k - 1]
             IN found \cup UNION {fieldsFrom(sys, p) : p \in found}
  IN below[Cardinality(sys.Layouts)]

(* The scalars of a node, and where they are.                               *)
scalars(sys, n) == {p \in places(sys, n) : IsLeaf(sys, p[1]) /\ ~sys.NonScalar[p[1]]}

(* The types that can be named: those of whole values and pointees.         *)
NamedTypes(sys) == {n \in sys.Layouts : IsInstanceRoot(sys, n) \/ ~IsPointerRoot(sys, n)}

------------------------------------------------------------------------------
(* The assertions made when VerifyLog is enabled: the steps assert that the *)
(* edges that are not pointers form a DAG, and the back-end asserts of the  *)
(* graph it is given that, in addition, unions have more than one field and *)
(* pointers to pointers end: it follows them until it gets to something     *)
(* else (DLAMakeModelTypes.cpp:410).                                        *)
MiddleendPostconditions ==
  /\ JustDone \in {"CollapseSingleChild", "DeduplicateFields", "ArrangeAccessesHierarchically",
                   "CompactCompatibleArrays", "PushDownPointers",
                   "ComputeNonInterferingComponents"} => verifyDAG(ts)
  /\ step > Len(Schedule) => verifyDAG(ts) /\ verifyUnions(ts) /\ verifyPointerDAG(ts)

(* ArrangeAccessesHierarchically leaves no field that lies within another:  *)
(* the nodes a field was pushed into were all looked at again.              *)
NothingLeftToPush ==
  JustDone = "ArrangeAccessesHierarchically" =>
    \A n \in ts.Layouts : \A e, f \in Instances(ts, n) : ~canPushThrough(ts, e, f)

(* Whatever was moved, a node is as large as its fields require, with all   *)
(* the elements of its arrays.                                              *)
FieldsStillFit ==
  JustDone \in {"CollapseSingleChild", "DeduplicateFields", "ArrangeAccessesHierarchically",
                "CompactCompatibleArrays", "ComputeNonInterferingComponents"} =>
    \A e \in InstancesOf(ts) : getFieldUpperMember(ts, e) <= ts.Size[e.src]

(* The steps that rearrange fields, put arrays together, make unions or     *)
(* merge what is equal move no scalar: in every type that can be named, a   *)
(* scalar that was at some offset, in an element of an array or in a field  *)
(* of a field, is still at that offset after the step.                      *)
RearrangingSteps ==
  {"DecomposeStridedEdges", "CollapseSingleChild", "DeduplicateFields",
   "MergePointeesOfPointerUnion", "MergePointerNodes", "ArrangeAccessesHierarchically",
   "CompactCompatibleArrays", "PushDownPointers", "ComputeNonInterferingComponents"}

scalarsKept(old, new) ==
  \A n \in NamedTypes(old) :
    LET now == places(new, liveNode(new, n)) IN
    \A p \in scalars(old, n) : \E q \in now : q[2] = p[2] /\ p[1] \in new.Class[q[1]]

ScalarsStayInPlace ==
  [][At(RearrangingSteps, label) /\ ts' # ts => scalarsKept(ts, ts')]_vars
=============================================================================
