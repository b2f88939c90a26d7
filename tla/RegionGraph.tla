---------------------------- MODULE RegionGraph ----------------------------
(***************************************************************************)
(* The graph the control flow restructuring works on, RegionCFG: nodes of   *)
(* one of the kinds of BasicBlockNode::Type, each with the ordered, labeled *)
(* edges towards its successors.  The list of the predecessors that the     *)
(* code keeps beside them is derived.                                       *)
(*                                                                          *)
(* A graph is a record [entry, node]; node maps an identifier to            *)
(*   kind    its type;                                                      *)
(*   val     the original block of a Code node, the value a Set node gives  *)
(*           to the state variable, the region of a Collapsed node;         *)
(*   weaved  the node is a piece of a switch that weaving has split;        *)
(*   succ    the sequence of its edges [to, labels, inlined].               *)
(* Identifiers are handed out in the order of the allocations, and stand    *)
(* for the addresses that order the sets of the code.                       *)
(***************************************************************************)
EXTENDS Naturals, Sequences, FiniteSets, TLC
LOCAL INSTANCE SequencesExt
LOCAL INSTANCE FiniteSetsExt

Kinds == {"Code", "Empty", "Break", "Continue", "EntrySet", "ExitSet",
          "Collapsed", "EntryDispatcher", "ExitDispatcher"}

PlainEdge(y) == [to |-> y, labels |-> {}, inlined |-> FALSE]
LabeledEdge(y, ls) == [to |-> y, labels |-> ls, inlined |-> FALSE]

Node(kind, val) ==
  [kind |-> kind, val |-> val, weaved |-> FALSE, succ |-> << >>]

Ids(g) == DOMAIN g.node
Targets(g, x) == {g.node[x].succ[i].to : i \in DOMAIN g.node[x].succ}
TargetSeq(g, x) == [i \in DOMAIN g.node[x].succ |-> g.node[x].succ[i].to]
Preds(g, y) == {x \in Ids(g) : y \in Targets(g, x)}
Edges(g) == UNION {{<<x, y>> : y \in Targets(g, x)} : x \in Ids(g)}
IsSet(g, x) == g.node[x].kind \in {"EntrySet", "ExitSet"}
IsDispatcher(g, x) == g.node[x].kind \in {"EntryDispatcher", "ExitDispatcher"}
IsEmptyNode(g, x) == g.node[x].kind = "Empty"
HasEdge(g, e) == e[1] \in Ids(g) /\ e[2] \in Targets(g, e[1])

(* The sets of pointers, in the order of the addresses. *)
Sorted(S, before(_, _)) ==
  LET Rank(x) == Cardinality({y \in S : before(y, x)}) + 1
  IN  [k \in 1..Cardinality(S) |-> CHOOSE x \in S : Rank(x) = k]
InOrder(S) == Sorted(S, LAMBDA a, b : a < b)
EdgesInOrder(S) ==
  Sorted(S, LAMBDA a, b : a[1] < b[1] \/ (a[1] = b[1] /\ a[2] < b[2]))

(* The edge from x to y. *)
EdgeTo(g, x, y) ==
  g.node[x].succ[CHOOSE i \in DOMAIN g.node[x].succ :
                   g.node[x].succ[i].to = y]

---------------------------------------------------------------------------
(* The primitives that change a graph. *)

AddNode(g, x, kind, val) == [g EXCEPT !.node = (x :> Node(kind, val)) @@ @]

(* A node cannot be twice a successor of the same node: it is an assertion  *)
(* of addLabeledSuccessor and addLabeledPredecessor.  A graph in which that *)
(* happened keeps the two edges, and NoParallelEdges tells.                  *)
AddEdge(g, x, e) == [g EXCEPT !.node[x].succ = Append(@, e)]
AddPlainEdge(g, x, y) == AddEdge(g, x, PlainEdge(y))

MoveEdgeTarget(g, x, y, z) ==
  [g EXCEPT !.node[x].succ =
     [i \in DOMAIN @ |-> IF @[i].to = y THEN [@[i] EXCEPT !.to = z] ELSE @[i]]]

RemoveEdge(g, x, y) ==
  [g EXCEPT !.node[x].succ = SelectSeq(@, LAMBDA e : e.to # y)]

RemoveNodes(g, S) ==
  [g EXCEPT !.node =
     [x \in Ids(g) \ S |->
        [g.node[x] EXCEPT !.succ = SelectSeq(@, LAMBDA e : e.to \notin S)]]]

CloneNode(g, x, c) ==
  [g EXCEPT !.node = (c :> [g.node[x] EXCEPT !.succ = << >>]) @@ @]

MarkEdgeInlined(g, x, y) ==
  [g EXCEPT !.node[x].succ =
     [i \in DOMAIN @ |-> IF @[i].to = y THEN [@[i] EXCEPT !.inlined = TRUE]
                                        ELSE @[i]]]

(* Several edges moved to the same new target. *)
MoveEdges(g, S, z) ==
  FoldLeft(LAMBDA acc, e : MoveEdgeTarget(acc, e[1], e[2], z), g,
           EdgesInOrder(S))

NoParallelEdges(g) ==
  \A x \in Ids(g) : Cardinality(Targets(g, x)) = Len(g.node[x].succ)

NoDanglingEdges(g) ==
  g.entry \in Ids(g) /\ \A x \in Ids(g) : Targets(g, x) \subseteq Ids(g)

(* Drops, one after the other, the nodes that nobody precedes. *)
RECURSIVE RemoveNotReachables(_)
RemoveNotReachables(g) ==
  LET orphans == {x \in Ids(g) \ {g.entry} : Preds(g, x) = {}}
  IN  IF orphans = {} THEN g ELSE RemoveNotReachables(RemoveNodes(g, orphans))

---------------------------------------------------------------------------
(* Visits. *)

RECURSIVE ReachVia(_, _, _)
ReachVia(g, S, avoid) ==
  LET more == (UNION {Targets(g, x) : x \in S}) \ (S \cup avoid)
  IN  IF more = {} THEN S ELSE ReachVia(g, S \cup more, avoid)

Reachable(g, x) == ReachVia(g, {x}, {})

(* A depth first visit in the order of the successors: post lists the nodes *)
(* as they are left, back holds the edges that reach a node still open.      *)
RECURSIVE Visit(_, _, _, _)
Visit(g, x, open, v) ==
  LET Step(acc, y) ==
        IF y \in open \cup {x} THEN [acc EXCEPT !.back = @ \cup {<<x, y>>}]
        ELSE IF y \in acc.seen \/ y \notin Ids(g) THEN acc
        ELSE Visit(g, y, open \cup {x}, acc)
      after == FoldLeft(Step, [v EXCEPT !.seen = @ \cup {x}], TargetSeq(g, x))
  IN  [after EXCEPT !.post = Append(@, x)]

NothingSeen == [seen |-> {}, post |-> << >>, back |-> {}]

PostOrder(g) == Visit(g, g.entry, {}, NothingSeen).post
ReversePostOrder(g) == Reverse(PostOrder(g))
ReversePostOrderFrom(g, x, stop) ==
  Reverse(Visit(g, x, {}, [NothingSeen EXCEPT !.seen = stop]).post)

(* The edges of a depth first visit from x that close a cycle, in all the    *)
(* graph and among the nodes of a set.                                        *)
BackedgesFrom(g, x) == Visit(g, x, {}, NothingSeen).back
BackedgesWhiteList(g, x, S) ==
  LET inside == [g EXCEPT !.node =
                   [n \in S |-> [g.node[n] EXCEPT !.succ =
                                   SelectSeq(@, LAMBDA e : e.to \in S)]]]
  IN  BackedgesFrom(inside, x)

(* The nodes on the walks from x to y that do not come back to x. *)
NodesBetween(g, x, y) ==
  LET forward == ReachVia(g, {x}, {x})
  IN  {n \in forward : n = y \/ y \in ReachVia(g, {n}, {x})} \cup {x, y}

IsDAG(g) == \A x \in Ids(g) : x \notin ReachVia(g, Targets(g, x), {})

(* The depth of each node in a breadth first visit. *)
RECURSIVE Levels(_, _, _)
Levels(g, frontier, found) ==
  LET next == (UNION {Targets(g, x) : x \in frontier}) \ DOMAIN found
      d == 1 + Max({found[x] : x \in frontier})
  IN  IF next = {} THEN found
      ELSE Levels(g, next, [x \in next |-> d] @@ found)
ShortestPaths(g) == Levels(g, {g.entry}, g.entry :> 0)

---------------------------------------------------------------------------
(* Dominance. *)

Dominates(g, x, y) ==
  x = y \/ g.entry = x \/ y \notin ReachVia(g, {g.entry}, {x})

WithoutInlined(g) ==
  [g EXCEPT !.node = [x \in Ids(g) |->
     [g.node[x] EXCEPT !.succ = SelectSeq(@, LAMBDA e : ~e.inlined)]]]

(* The node y lies on every way from x to an exit. *)
PostDominates(f, y, x) ==
  y = x \/ \A e \in ReachVia(f, {x}, {y}) : f.node[e].succ # << >>

NoNode == 0

(* The immediate post-dominator on the edges that are not inlined, NoNode    *)
(* when it is the virtual root.                                               *)
ImmediatePostDominator(g, x) ==
  LET f == WithoutInlined(g)
      strict == {y \in Reachable(f, x) \ {x} : PostDominates(f, y, x)}
  IN  IF strict = {} THEN NoNode
      ELSE CHOOSE y \in strict : \A z \in strict : PostDominates(f, z, y)
=============================================================================
