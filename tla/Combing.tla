------------------------------ MODULE Combing ------------------------------
(***************************************************************************)
(* What generateAst does to the graph of a region before it covers it with  *)
(* tiles, in RegionCFGTreeImpl.h: the edges to the blocks that end in        *)
(* unreachable are inlined, the switches are woven, and the graph is combed, *)
(* by untangle and inflate, until no branch shares a node with another one   *)
(* but for the node where the branches meet.                                 *)
(*                                                                          *)
(* The graphs are the ones RestructureCFG leaves.                            *)
(***************************************************************************)
EXTENDS RestructureCFG
LOCAL INSTANCE SequencesExt
LOCAL INSTANCE FiniteSetsExt

VARIABLES
  noreturn,           \* the blocks whose terminator is an unreachable
  weight              \* the number of instructions of each block

IsASwitch(g, x) ==
  /\ g.node[x].kind = "Code"
  /\ \E i \in DOMAIN function[g.node[x].val] :
       function[g.node[x].val][i].labels # {}

(* Each edge to a block that ends in unreachable gets a block of its own,    *)
(* and is inlined.                                                            *)
InlineUnreachable(acc, x) ==
  LET preds == InOrder(Preds(acc.g, x))
      marked == FoldLeft(LAMBDA g, p : MarkEdgeInlined(g, p, x), acc.g, preds)
      Clone(k) == acc.fresh + k - 2
      Split(g, k) == MoveEdgeTarget(CloneNode(g, x, Clone(k)), preds[k], x, Clone(k))
      others == IF preds = << >> THEN << >> ELSE Tail([k \in DOMAIN preds |-> k])
  IN  [g |-> FoldLeft(Split, marked, others), fresh |-> acc.fresh + Len(others)]

MarkUnreachableAsInlined(g, next) ==
  LET ends == {x \in Ids(g) : g.node[x].kind = "Code" /\ g.node[x].val \in noreturn}
      after == FoldLeft(InlineUnreachable, [g |-> g, fresh |-> next], InOrder(ends))
  IN  [failed |-> ""] @@ after

---------------------------------------------------------------------------
(* A node of the body of a switch where several of the cases, but not all,   *)
(* meet takes them to a switch of its own.                                    *)

PostDominatesAll(g, y, xs) ==
  LET f == WithoutInlined(g) IN {x \in xs : PostDominates(f, y, x)}

(* acc.cases holds the cases of the switch x that are left. *)
WeaveAt(acc, x, y) ==
  LET taken == InOrder(PostDominatesAll(acc.g, y, acc.cases))
      sub == acc.fresh
      added == [acc.g EXCEPT !.node =
                  (sub :> [@[x] EXCEPT !.succ = << >>, !.weaved = TRUE]) @@ @]
      Take(g, c) == RemoveEdge(AddEdge(g, sub, EdgeTo(acc.g, x, c)), x, c)
      labels == {EdgeTo(acc.g, x, taken[k]).labels : k \in DOMAIN taken}
      merged == IF {} \in labels THEN {} ELSE UNION labels
  IN  IF Len(taken) <= 1 THEN acc
      ELSE [g |-> AddEdge(FoldLeft(Take, added, taken), x, LabeledEdge(sub, merged)),
            fresh |-> sub + 1,
            cases |-> (acc.cases \ Range(taken)) \cup {sub},
            failed |-> IF Len(taken) = Cardinality(acc.cases)
                       THEN "all the cases meet before the end" ELSE acc.failed]

WeaveSwitch(acc, x) ==
  LET end == ImmediatePostDominator(acc.g, x)
      body == Tail(ReversePostOrderFrom(WithoutInlined(acc.g), x, {end}))
      start == [g |-> acc.g, fresh |-> acc.fresh, failed |-> acc.failed,
                cases |-> Targets(acc.g, x)]
      after == FoldLeft(LAMBDA a, y : WeaveAt(a, x, y), start, body)
  IN  IF /\ IsDispatcher(acc.g, x) \/ IsASwitch(acc.g, x)
         /\ Len(acc.g.node[x].succ) > 2
      THEN [g |-> after.g, fresh |-> after.fresh, failed |-> after.failed]
      ELSE acc

Weave(g, next) ==
  FoldLeft(WeaveSwitch, [g |-> g, fresh |-> next, failed |-> ""], PostOrder(g))

---------------------------------------------------------------------------
(* Untangling: a branch whose copy up to the exit costs less than combing     *)
(* the two branches is copied, and inlined in its conditional.               *)

(* A collapsed node weighs what its region weighs before it is combed. *)
RECURSIVE NodeWeight(_)
NodeWeight(n) ==
  CASE n.kind = "Code" -> weight[n.val]
    [] n.kind = "Empty" -> 0
    [] n.kind = "Collapsed" ->
         MapThenSumSet(LAMBDA x : NodeWeight(graphs[n.val].node[x]), Ids(graphs[n.val]))
    [] OTHER -> 1

CloneUntilExit(g, x, sink, next) ==
  LET copied == InOrder(ReachVia(g, {x}, {sink}))
      Copy(y) == next - 1 + CHOOSE k \in DOMAIN copied : copied[k] = y
      Redirected(y) ==
        LET kept == SelectSeq(g.node[y].succ, LAMBDA e : e.to # sink)
        IN  [i \in DOMAIN kept |-> [kept[i] EXCEPT !.to = Copy(@)]]
      new == [c \in {Copy(y) : y \in Range(copied)} |->
                LET y == copied[c - next + 1]
                IN  [g.node[y] EXCEPT !.succ = Redirected(y)]]
  IN  [g |-> [g EXCEPT !.node = new @@ @], clone |-> Copy(x),
       fresh |-> next + Len(copied)]

EdgeDominates(g, x, y) == \A p \in Preds(g, y) \ {x} : Dominates(g, y, p)

(* What a branch shares with the rest, before the branches meet. *)
SharedNodes(g, x, child, end) ==
  LET nodes == (IF end = NoNode THEN Reachable(g, child)
                ELSE NodesBetween(g, child, end)) \ {end}
  IN  IF EdgeDominates(g, x, child)
      THEN {n \in nodes : ~Dominates(g, child, n)} ELSE nodes

(* acc.weight is the map of the weights: it has no entry for a copy. *)
Weigh(acc, nodes) ==
  MapThenSumSet(LAMBDA x : acc.weight[x], nodes \cap DOMAIN acc.weight)

UntangleConditional(acc, x) ==
  LET g == acc.g
      end == ImmediatePostDominator(g, x)
      child == TargetSeq(g, x)
      cost == [i \in 1..2 |-> Weigh(acc, SharedNodes(g, x, child[i], end))]
      rest == IF end = NoNode THEN 0 ELSE Weigh(acc, NodesBetween(g, end, acc.sink))
      cheapest == Min({cost[1] + rest, cost[2] + rest})
      branch == IF cost[1] > cost[2] THEN child[2] ELSE child[1]
      copy == CloneUntilExit(g, branch, acc.sink, acc.fresh)
      moved == MarkEdgeInlined(MoveEdgeTarget(copy.g, x, branch, copy.clone),
                               x, copy.clone)
  IN  IF cost[1] + cost[2] > cheapest
      THEN [acc EXCEPT !.g = RemoveNotReachables(moved), !.fresh = copy.fresh]
      ELSE acc

(* The empty nodes on the way to the sink go with it. *)
PurgeVirtualSink(g, sink) ==
  LET Empties(S) == {x \in UNION {Preds(g, y) : y \in S} : IsEmptyNode(g, x)}
      Close[k \in 0..Cardinality(Ids(g))] ==
        IF k = 0 THEN {sink} ELSE LET S == Close[k - 1] IN S \cup Empties(S)
  IN  RemoveNodes(g, Close[Cardinality(Ids(g))])

(* All that ends goes to one sink. *)
AddVirtualSink(g, sink) ==
  FoldLeft(LAMBDA h, x : AddPlainEdge(h, x, sink), AddNode(g, sink, "Empty", 0),
           InOrder({x \in Ids(g) : g.node[x].succ = << >>}))

UntangleConditionals(sunk, sink) ==
  FoldLeft(UntangleConditional,
           [g |-> sunk, fresh |-> sink + 1, sink |-> sink,
            weight |-> [x \in Ids(sunk) |-> NodeWeight(sunk.node[x])]],
           SelectSeq(PostOrder(sunk), LAMBDA x : Len(sunk.node[x].succ) = 2))

Untangled(after) ==
  [g |-> PurgeVirtualSink(after.g, after.sink), fresh |-> after.fresh, failed |-> ""]
=============================================================================
