-------------------------- MODULE MCLayoutTypeSystem --------------------------
(* Four nodes, at most three edges; an offset that addInstanceLink drops,   *)
(* and moves that make offsets grow past the limit and below 0.             *)
EXTENDS LayoutTypeSystem

MCNode == 0..3
MCOffsetExpressions == {AtOffset(4), AtOffset(5)}
MCSizes == {8}
MCOffsetsToSum == {-4, 0, 4}
=============================================================================
