--------------------------- MODULE DLANormalization ---------------------------
(****************************************************************************)
(* The front-end of the Data Layout Analysis and the graph normalization    *)
(* phase of DLAPass.cpp: the steps of Schedule, run in order on each of a   *)
(* set of programs.                                                         *)
(****************************************************************************)
EXTENDS CollapseSCC, LayoutSizes

CONSTANT Programs   \* the programs the front-end is run on

ASSUME ProgramsAssumption ==
  /\ Programs \subseteq Seq(Instruction)
  /\ Schedule \in Seq(STRING)

Init == DLAInit(Programs)

Next ==
  \/ Frontend
  \/ FrontendDone
  \/ CollapseNext
  \/ SimplifyNext
  \/ SizesNext
  \/ Finished

Spec == Init /\ [][Next]_vars

------------------------------------------------------------------------------
(* The schedule of this phase.                                              *)
NormalizationSteps == <<
  "RemoveInvalidPointers", "CollapseEqualitySCC", "CollapseInstanceAtOffset0SCC",
  "SimplifyInstanceAtOffset0", "PruneLayoutNodesWithoutLayout",
  "ComputeUpperMemberAccesses", "RemoveInvalidStrideEdges",
  "PruneLayoutNodesWithoutLayout", "ComputeUpperMemberAccesses", "DecomposeStridedEdges">>

------------------------------------------------------------------------------
(* The assertions the steps make on the graph they leave, when VerifyLog is *)
(* enabled: it is consistent, pointers have no other edge included; after   *)
(* the loops are cut its instances are a DAG (CollapseSCC.cpp:217), which   *)
(* SimplifyInstanceAtOffset0 asserts again when it starts; after a pruning  *)
(* every leaf has a size.                                                   *)
LoopsAreGone == JustDone = "CollapseInstanceAtOffset0SCC" => verifyInstanceDAG(ts)

Postconditions ==
  /\ JustDone \in CollapseSteps => verifyConsistency(ts)
  /\ LoopsAreGone
  /\ JustDone \in {"SimplifyInstanceAtOffset0", "PruneLayoutNodesWithoutLayout",
                   "RemoveInvalidStrideEdges", "DecomposeStridedEdges"} => verifyDAG(ts)
  /\ JustDone = "PruneLayoutNodesWithoutLayout" => verifyLeafs(ts)

(* Once sizes are computed, and until an edge is removed for its strides, a *)
(* node is large enough for every one of its fields, all elements included. *)
FieldsFit ==
  JustDone \in {"ComputeUpperMemberAccesses", "DecomposeStridedEdges"} =>
    \A e \in ts.Succ : IsInstanceEdge(e) => getFieldUpperMember(ts, e) <= ts.Size[e.src]

(* Removing invalid strides once is enough: the pruning and the sizes       *)
(* computed again after it make no other stride invalid.                    *)
StridesStayValid ==
  step > Len(Schedule) => \A e \in ts.Succ : IsInstanceEdge(e) => hasValidStrides(ts, e)

(* No step loses what a load or a store said, in a program without types    *)
(* from the model, whose nodes may be pruned: at the end the node of the *)
(* pointer is alive and holds as many bytes as were accessed through it.    *)
AccessesFit ==
  step > Len(Schedule) /\ failed = "" /\ (\A i \in DOMAIN program : program[i].op # "Arg") =>
    \A i \in DOMAIN program : program[i].op = "Access" =>
      LET n == VisitedValues[program[i].val] IN
      /\ ~isRemoved(ts, n)
      /\ ts.Size[liveNode(ts, n)] >= program[i].Size

(* Decomposing an edge with several strides moves no byte of the parent:    *)
(* the new edge starts where the old one did and spans as much.             *)
SpanOf(sys, e) == <<e.src, e.tag.OE.Offset, getFieldSize(sys, e)>>
DecomposeKeepsSpans ==
  [][At({"DecomposeStridedEdges"}, "start") /\ label' = label /\ step' = step =>
       {SpanOf(ts, e) : e \in InstancesOf(ts)} \subseteq {SpanOf(ts', e) : e \in InstancesOf(ts')}]_vars

(* The steps terminate: the loops over nodes, edges and components end, and *)
(* so does the visit that cuts backedges.                                   *)
Terminates == <>(step > Len(Schedule) \/ failed # "")
=============================================================================
