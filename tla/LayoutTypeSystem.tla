--------------------------- MODULE LayoutTypeSystem ---------------------------
(****************************************************************************)
(* dla::LayoutTypeSystem as an object: its public methods, called in any    *)
(* order by code that respects their preconditions                          *)
(* (include/revng-c/DataLayoutAnalysis/DLATypeSystem.h and                  *)
(* lib/DataLayoutAnalysis/DLATypeSystem.cpp).  mergeNodes is a loop over a  *)
(* list of nodes: one action per node, so that what holds between two of    *)
(* them is visible.                                                         *)
(****************************************************************************)
EXTENDS LayoutTypeGraph, Integers

CONSTANTS
  OffsetExpressions,   \* those the callers of addInstanceLink make
  Sizes,               \* those the callers give to nodes
  OffsetsToSum,        \* those the callers of moveEdge... pass
  MaxMerge,            \* bound on the length of the lists of nodes to merge
  MaxEdges,            \* bound on the edges in the graph
  MaxSized,            \* bound on the nodes with a size
  RemovedType          \* what stands for the removed types in LayoutGraph

Stride == [Stride : Nat, TripCount : Nat]
Tag == [Kind : LinkKinds, OE : [Offset : 0..MaxOffset, Strides : Seq(Stride)]]
Link == [src : Node, tgt : Node, tag : Tag]

ASSUME LayoutAssumption ==
  /\ Node \subseteq Nat
  /\ NoNode \notin Node
  /\ RemovedType \notin Node \cup {NoNode}
  /\ MaxOffset \in Nat
  /\ OffsetExpressions \subseteq [Offset : Int, Strides : Seq(Stride)]
  /\ Sizes \subseteq Nat
  /\ OffsetsToSum \subseteq Int
  /\ MaxMerge \in Nat
  /\ MaxEdges \in Nat
  /\ MaxSized \in Nat

VARIABLES
  ts,       \* the type system
  merging   \* the nodes mergeNodes has left, Into first, or the empty sequence

vars == <<ts, merging>>

Init == ts = EmptySystem /\ merging = << >>

HasRoom == Cardinality(ts.Succ) < MaxEdges
Idle == merging = << >> /\ merging' = merging

Create ==
  /\ Idle
  /\ ts.NID \in Node
  /\ ts' = createArtificialLayoutType(ts)

AddEqualityLink ==
  /\ Idle /\ HasRoom
  /\ \E s, t \in ts.Layouts : ts' = addEqualityLink(ts, s, t)

AddInstanceLink ==
  /\ Idle /\ HasRoom
  /\ \E s, t \in ts.Layouts, oe \in OffsetExpressions : ts' = addInstanceLink(ts, s, t, oe)

AddPointerLink ==
  /\ Idle /\ HasRoom
  /\ \E s, t \in ts.Layouts : ts' = addPointerLink(ts, s, t)

(* Size is public: the front-end and the steps assign it.                   *)
SetSize ==
  /\ Idle
  /\ Cardinality({n \in ts.Layouts : ts.Size[n] > 0}) < MaxSized
  /\ \E n \in ts.Layouts, s \in Sizes : ts' = [ts EXCEPT !.Size[n] = s]

(* A call of mergeNodes: a list of live nodes, all different.               *)
MergeNodes ==
  /\ merging = << >>
  /\ \E k \in 2..MaxMerge : \E list \in [1..k -> ts.Layouts] :
       /\ \A i, j \in 1..k : list[i] = list[j] => i = j
       /\ merging' = list
  /\ ts' = ts

(* Its assertions on sizes are for the callers to respect: see              *)
(* NoAssertionFails in the specifications of the steps. A call that fails   *)
(* one stops here, as the process does.                                     *)
MergeOne ==
  /\ merging # << >>
  /\ sizesAllowMerge(ts, merging[1], merging[2])
  /\ ts' = mergeNode(ts, merging[1], merging[2])
  /\ merging' = IF Len(merging) = 2 THEN << >>
                ELSE [i \in 1..(Len(merging) - 1) |->
                        IF i = 1 THEN merging[1] ELSE merging[i + 1]]

RemoveNode ==
  /\ Idle
  /\ \E n \in ts.Layouts : ts' = removeNode(ts, n)

DropOutgoingEdges ==
  /\ Idle
  /\ \E n \in ts.Layouts : ts' = dropOutgoingEdges(ts, n)

EraseEdge ==
  /\ Idle
  /\ \E e \in ts.Succ : ts' = eraseEdge(ts, e)

(* The callers move an edge to a node that is not its other end, and sum an *)
(* offset to instance edges only.                                           *)
MayMove(e, n, sum) == n \notin {e.src, e.tgt} /\ (IsInstanceEdge(e) \/ sum = 0)

MoveEdgeTarget ==
  /\ Idle
  /\ \E e \in ts.Pred, n \in ts.Layouts, sum \in OffsetsToSum :
       /\ MayMove(e, n, sum)
       /\ ts' = moveEdgeTarget(ts, e, n, sum)

MoveEdgeSource ==
  /\ Idle
  /\ \E e \in ts.Succ, n \in ts.Layouts, sum \in OffsetsToSum :
       /\ MayMove(e, n, sum)
       /\ ts' = moveEdgeSource(ts, e, n, sum)

Next ==
  \/ Create
  \/ AddEqualityLink \/ AddInstanceLink \/ AddPointerLink
  \/ SetSize
  \/ MergeNodes \/ MergeOne
  \/ RemoveNode \/ DropOutgoingEdges \/ EraseEdge
  \/ MoveEdgeTarget \/ MoveEdgeSource

Spec == Init /\ [][Next]_vars

------------------------------------------------------------------------------
TypeSystem ==
  [NID : Nat, Layouts : SUBSET Node, Succ : SUBSET Link, Pred : SUBSET Link,
   Size : [Node -> Nat], NonScalar : [Node -> BOOLEAN],
   Info : [Node -> InterferingChildrenInfo],
   Class : [Node -> SUBSET Node], RemovedID : Node \cup {NoNode}]

(* Every offset in the graph is one addInstanceLink accepts, whatever sums  *)
(* the edges went through: fields are at offsets in their parents.          *)
TypeOK == ts \in TypeSystem /\ merging \in Seq(Node)

(* The part of verifyConsistency that the methods keep on their own.        *)
Consistent ==
  /\ edgesAreMirrored(ts)
  /\ edgesJoinLiveNodes(ts)
  /\ noSelfEdges(ts)

(* A node not created yet is alone in its class and not alive.              *)
FreshIDs ==
  \A n \in Node : n >= ts.NID =>
    n \notin ts.Layouts /\ ts.Class[n] = {n} /\ n # ts.RemovedID

ClassesAreAPartition ==
  /\ \A n \in Node : n \in ts.Class[n]
  /\ \A m, n \in Node : m \in ts.Class[n] => ts.Class[m] = ts.Class[n]

(* Two live nodes are never in the same class, the class of the removed     *)
(* nodes has no live node, and every other class of created nodes has one.  *)
OneNodePerClass ==
  /\ \A m, n \in ts.Layouts : m \in ts.Class[n] => m = n
  /\ \A n \in ts.Layouts : ~isRemoved(ts, n)
  /\ \A n \in Node : n < ts.NID => isRemoved(ts, n) \/ \E m \in ts.Layouts : m \in ts.Class[n]

(* The nodes mergeNodes still has to merge are alive and all different.     *)
MergingLiveNodes ==
  /\ Len(merging) # 1
  /\ \A i \in 1..Len(merging) : merging[i] \in ts.Layouts
  /\ \A i, j \in 1..Len(merging) : merging[i] = merging[j] => i = j

(* The bookkeeping the three properties above rest on.                      *)
SoundBookkeeping == FreshIDs /\ ClassesAreAPartition /\ MergingLiveNodes

IndInv == TypeOK /\ Consistent /\ OneNodePerClass /\ SoundBookkeeping

------------------------------------------------------------------------------
(* The owner of an ID: the live node of its class.                          *)
ownerOf(n) ==
  IF n >= ts.NID THEN NoNode
  ELSE IF isRemoved(ts, n) THEN RemovedType
  ELSE CHOOSE m \in ts.Layouts : m \in ts.Class[n]

owners == [n \in Node |-> ownerOf(n)]

Graph == INSTANCE LayoutGraph WITH owner <- owners, links <- ts.Succ

(* The methods implement LayoutGraph.                                       *)
ImplementsLayoutGraph == Graph!Spec
=============================================================================
