---------------------------- MODULE MCStepManager ----------------------------
(* An instance of StepManager with six of the steps of DLAStep.h and the    *)
(* dependencies and invalidations they declare among themselves.            *)
EXTENDS StepManager

CONSTANTS CollapseEqualitySCC, CollapseInstanceAtOffset0SCC,
          PruneLayoutNodesWithoutLayout, ComputeUpperMemberAccesses,
          RemoveInvalidStrideEdges, MergePointeesOfPointerUnion

MCSteps == {CollapseEqualitySCC, CollapseInstanceAtOffset0SCC,
            PruneLayoutNodesWithoutLayout, ComputeUpperMemberAccesses,
            RemoveInvalidStrideEdges, MergePointeesOfPointerUnion}

MCDependencies == [s \in MCSteps |->
  CASE s = ComputeUpperMemberAccesses ->
         {CollapseEqualitySCC, CollapseInstanceAtOffset0SCC,
          PruneLayoutNodesWithoutLayout}
    [] s \in {RemoveInvalidStrideEdges, MergePointeesOfPointerUnion} ->
         {ComputeUpperMemberAccesses}
    [] OTHER -> {}]

MCInvalidated == [s \in MCSteps |->
  CASE s = RemoveInvalidStrideEdges ->
         {ComputeUpperMemberAccesses, PruneLayoutNodesWithoutLayout}
    [] s = MergePointeesOfPointerUnion ->
         {ComputeUpperMemberAccesses, CollapseInstanceAtOffset0SCC,
          RemoveInvalidStrideEdges}
    [] OTHER -> {}]

(* The IDs are the addresses of consecutive static members.                 *)
MCRank == [s \in MCSteps |->
  CASE s = CollapseEqualitySCC -> 1
    [] s = CollapseInstanceAtOffset0SCC -> 2
    [] s = ComputeUpperMemberAccesses -> 3
    [] s = MergePointeesOfPointerUnion -> 4
    [] s = PruneLayoutNodesWithoutLayout -> 5
    [] s = RemoveInvalidStrideEdges -> 6]
=============================================================================
