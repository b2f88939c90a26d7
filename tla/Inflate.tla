------------------------------ MODULE Inflate ------------------------------
(***************************************************************************)
(* The combing proper, RegionCFG::inflate: what two branches of a            *)
(* conditional share, before the node where they meet, is duplicated.        *)
(*                                                                          *)
(* The conditionals are processed innermost first; each walks the nodes in    *)
(* reverse post-order, on a list that grows with the duplicates.  A record    *)
(*   g, fresh   the graph and the next identifier,                            *)
(*   list       RevPostOrderList,                                             *)
(*   end        ConditionalToCombEnd,                                         *)
(*   class      NodesEquivalenceClass, original  CloneToOriginalMap           *)
(* is carried from a conditional to the next.                                 *)
(***************************************************************************)
EXTENDS Combing
LOCAL INSTANCE SequencesExt
LOCAL INSTANCE FiniteSetsExt

IsExit(g, x) == \A i \in DOMAIN g.node[x].succ : g.node[x].succ[i].inlined

ReachableExits(g, x) ==
  LET exits == {y \in Ids(g) : IsExit(g, y)}
      cut == [g EXCEPT !.node = [y \in Ids(g) |->
                IF y \in exits THEN [g.node[y] EXCEPT !.succ = << >>] ELSE g.node[y]]]
  IN  Reachable(cut, x) \cap exits

(* A branch whose exits are all its own can be inlined in its conditional. *)
InlineBranches(before, g, x) ==
  LET child == TargetSeq(before, x)
      exits == [i \in 1..2 |-> ReachableExits(before, child[i])]
      owned == {i \in 1..2 : \A e \in exits[i] : Dominates(before, x, e)}
  IN  IF exits[1] \cap exits[2] # {} THEN g
      ELSE FoldLeft(LAMBDA h, i : MarkEdgeInlined(h, x, child[i]), g, InOrder(owned))

(* Each case of a switch is a conditional of its own, which ends where the   *)
(* switch does.                                                               *)
AddDummyCases(acc, x) ==
  LET Add(a, y) ==
        LET dummy == a.fresh
            moved == MoveEdgeTarget(AddNode(a.g, dummy, "Empty", 0), x, y, dummy)
        IN  [g |-> AddPlainEdge(moved, dummy, y), fresh |-> dummy + 1,
             end |-> (dummy :> acc.before[x]) @@ a.end, before |-> a.before]
  IN  FoldLeft(Add, acc, TargetSeq(acc.g, x))

PrepareInflate(g, next) ==
  LET branches == InOrder({x \in Ids(g) : Len(g.node[x].succ) = 2})
      switches == InOrder({x \in Ids(g) : Len(g.node[x].succ) > 2})
      ends == [x \in Range(branches) \cup Range(switches) |->
                 ImmediatePostDominator(g, x)]
      inlined == FoldLeft(LAMBDA h, x : InlineBranches(g, h, x), g, branches)
  IN  FoldLeft(AddDummyCases, [g |-> inlined, fresh |-> next, before |-> ends,
                               end |-> [x \in Range(branches) |-> ends[x]]], switches)

(* The list and the classes, once the dummies are there. *)
BeginInflate(prepared) ==
  LET order == ReversePostOrder(prepared.g)
  IN  [g |-> prepared.g, fresh |-> prepared.fresh, end |-> prepared.end, list |-> order,
       class |-> [x \in Range(order) \cup {NoNode} |-> {x} \ {NoNode}],
       original |-> [x \in Range(order) |-> x], failed |-> ""]

---------------------------------------------------------------------------

IsTrivialDummy(g, x) ==
  IsEmptyNode(g, x) /\ Cardinality(Preds(g, x)) = 1 /\ Len(g.node[x].succ) = 1

Purge(g, x) ==
  RemoveNodes(MoveEdgeTarget(g, CHOOSE p \in Preds(g, x) : TRUE, x,
                             g.node[x].succ[1].to), {x})

RECURSIVE PurgeTrivialDummies(_)
PurgeTrivialDummies(g) ==
  LET trivial == {x \in Ids(g) : IsTrivialDummy(g, x)}
  IN  IF trivial = {} THEN g ELSE PurgeTrivialDummies(Purge(g, Min(trivial)))

(* The walk of the conditional c adds to the record                           *)
(*   at  the position in the list,  work  the nodes to analyze,               *)
(*   visited  the nodes analyzed.                                             *)

(* Some of the edges that end the branches come from elsewhere: the ones from *)
(* the conditional meet in a dummy, which is now the end.                      *)
InsertDummy(s, c, x) ==
  LET dummy == s.fresh
      moved == MoveEdges(AddNode(s.g, dummy, "Empty", 0),
                         {<<p, x>> : p \in Preds(s.g, x) \cap s.visited}, dummy)
  IN  [s EXCEPT !.g = AddPlainEdge(moved, dummy, x), !.fresh = dummy + 1,
                !.visited = @ \ {x}, !.original = (dummy :> dummy) @@ @,
                !.end[c] = dummy, !.class = (dummy :> {dummy}) @@ @,
                !.work = @ \cup {dummy}, !.list = InsertAt(@, s.at, dummy),
                !.at = @ - 1]

(* The edges that come from elsewhere go to a duplicate.  A dummy that is     *)
(* left with one edge on each side goes.                                       *)
Duplicate(s, x) ==
  LET twin == s.fresh
      cloned == [s.g EXCEPT !.node = (twin :> @[x]) @@ @]
      split == MoveEdges(cloned, {<<p, x>> : p \in Preds(s.g, x) \ s.visited}, twin)
      twinGoes == IsTrivialDummy(split, twin)
      first == IF twinGoes THEN Purge(split, twin) ELSE split
      goes == IsTrivialDummy(first, x)
      origin == s.original[x]
      kept == IF twinGoes THEN {} ELSE {twin}
      list == IF twinGoes THEN s.list ELSE InsertAt(s.list, s.at, twin)
      at == IF twinGoes THEN s.at ELSE s.at + 1
  IN  [s EXCEPT !.g = IF goes THEN Purge(first, x) ELSE first,
                !.fresh = twin + 1,
                !.original = IF twinGoes THEN @ ELSE (twin :> origin) @@ @,
                !.class[origin] = (@ \cup kept) \ (IF goes THEN {x} ELSE {}),
                !.visited = IF goes THEN @ \ {x} ELSE @,
                !.list = IF goes THEN RemoveAt(list, at) ELSE list,
                !.at = IF goes THEN at - 1 ELSE at,
                !.failed = IF IsEmptyNode(s.g, x)
                              /\ \/ Len(s.g.node[x].succ) # 1
                                 \/ s.g.node[x].succ[1].inlined
                           THEN "a dummy with an inlined edge" ELSE @]

Analyze(s, c, x) ==
  LET isEnd == x \in s.class[s.end[c]]
      seen == [s EXCEPT !.work = (@ \ {x}) \cup (IF isEnd THEN {} ELSE Targets(s.g, x)),
                        !.visited = @ \cup {x}]
  IN  IF Preds(s.g, x) \subseteq s.visited THEN seen
      ELSE IF ~isEnd THEN Duplicate(seen, x)
      ELSE IF Cardinality(Preds(s.g, x) \cap seen.visited) < 2 THEN seen
      ELSE InsertDummy(seen, c, x)

RECURSIVE Walk(_, _)
Walk(s, c) ==
  LET next == [s EXCEPT !.at = @ + 1]
  IN  IF s.at >= Len(s.list) \/ s.work = {} THEN s
      ELSE IF s.list[next.at] \notin s.work THEN Walk(next, c)
      ELSE Walk(Analyze(next, c, s.list[next.at]), c)

CombConditional(s, c) ==
  LET branches == SelectSeq(s.g.node[c].succ, LAMBDA e : ~e.inlined)
      start == [work |-> {branches[i].to : i \in DOMAIN branches}, visited |-> {c},
                at |-> CHOOSE k \in DOMAIN s.list : s.list[k] = c] @@ s
      after == Walk(start, c)
  IN  [g |-> after.g, fresh |-> after.fresh, end |-> after.end, list |-> after.list,
       class |-> after.class, original |-> after.original, failed |-> after.failed]

CombConditionals(start) ==
  FoldLeft(CombConditional, start,
           SelectSeq(Reverse(start.list), LAMBDA x : x \in DOMAIN start.end))

Comb(after) ==
  [g |-> PurgeTrivialDummies(after.g), fresh |-> after.fresh, failed |-> after.failed]
=============================================================================
