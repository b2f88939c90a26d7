------------------------ MODULE RestructuredExecution ------------------------
(***************************************************************************)
(* What the restructuring of RestructureCFG promises: executing the graphs  *)
(* it builds visits the same blocks as executing the function.              *)
(*                                                                          *)
(* A position of the restructured program is [path, node, value]: the        *)
(* collapsed nodes it is in, outermost first, a node of the graph of the     *)
(* last one, and the value of the state variable.                            *)
(***************************************************************************)
EXTENDS RestructureCFG
LOCAL INSTANCE SequencesExt
LOCAL INSTANCE FiniteSetsExt

Unset == 99

(* The graphs share no identifier: all the nodes in one function. *)
AllNodes ==
  FoldLeft(LAMBDA acc, m : IF graphs[m] = << >> THEN acc ELSE graphs[m].node @@ acc,
           root.node, InOrder(DOMAIN graphs))

(* The edge of a node that the k-th edge of its block has become: a switch    *)
(* that was woven has one edge for several of them.                           *)
EdgeFor(n, k) ==
  LET then == function[n.val]
      labels == then[k].labels
      named == {i \in DOMAIN n.succ : labels # {} /\ labels \subseteq n.succ[i].labels}
      default == {i \in DOMAIN n.succ : n.succ[i].labels = {}}
  IN  IF \A i \in DOMAIN then : then[i].labels = {} THEN {k} \cap DOMAIN n.succ
      ELSE IF named # {} THEN named ELSE default

(* The block a position leads to without executing any other, or why there   *)
(* is none.  The choice is the last block that was executed and the edge it   *)
(* took: the pieces of a woven switch take the same one.                       *)
Lost(why) == [path |-> << >>, node |-> 0, value |-> Unset, lost |-> why]

RECURSIVE Settle(_, _, _, _)
Settle(all, p, choice, fuel) ==
  LET n == all[p.node]
      Go(y) == Settle(all, [p EXCEPT !.node = y], choice, fuel - 1)
      Chosen == {i \in DOMAIN n.succ : p.value \in n.succ[i].labels}
      Again == IF choice[1] = n.val THEN EdgeFor(n, choice[2]) ELSE {}
      caller == Last(p.path)
  IN  CASE fuel = 0 -> Lost("an endless way without blocks")
        [] p.node \notin DOMAIN all -> Lost("a dangling edge")
        [] n.kind = "Code" /\ ~n.weaved -> p
        [] n.kind = "Code" /\ n.weaved ->
             IF Cardinality(Again) # 1 THEN Lost("a choice nobody made")
             ELSE Go(n.succ[Min(Again)].to)
        [] n.kind = "Collapsed" ->
             Settle(all, [p EXCEPT !.path = Append(@, p.node),
                                   !.node = graphs[n.val].entry], choice, fuel - 1)
        [] n.kind = "Continue" -> Go(graphs[all[caller].val].entry)
        [] n.kind = "Break" ->
             IF Len(all[caller].succ) # 1 THEN Lost("a break to nowhere")
             ELSE Settle(all, [p EXCEPT !.path = Front(@),
                                        !.node = all[caller].succ[1].to], choice, fuel - 1)
        [] n.kind \in {"EntryDispatcher", "ExitDispatcher"} ->
             IF Cardinality(Chosen) # 1 THEN Lost("a value nobody dispatches")
             ELSE Go(n.succ[Min(Chosen)].to)
        [] n.kind \in {"Empty", "EntrySet", "ExitSet"} ->
             IF Len(n.succ) # 1 THEN Lost("a node without its successor")
             ELSE Settle(all, [p EXCEPT !.node = n.succ[1].to,
                                        !.value = IF n.kind = "Empty" THEN @ ELSE n.val],
                         choice, fuel - 1)

Fuel == 60
NoChoice == <<0, 0>>
Start == Settle(AllNodes, [path |-> << >>, node |-> root.entry, value |-> Unset],
                NoChoice, Fuel)

(* The k-th edge of the block of p, taken by the restructured program. *)
Follow(all, p, k) ==
  LET n == all[p.node]
      edge == EdgeFor(n, k)
  IN  IF Cardinality(edge) # 1 THEN Lost("an edge is gone")
      ELSE Settle(all, [p EXCEPT !.node = n.succ[Min(edge)].to], <<n.val, k>>, Fuel)

AgreesWithFunction(all, p) ==
  LET block == all[p.node].val
  IN  \A k \in DOMAIN function[block] :
        LET q == Follow(all, p, k)
        IN  q.node \in DOMAIN all /\ all[q.node].val = function[block][k].to

(* The first position, from those that can be reached, that goes elsewhere   *)
(* than the function.                                                         *)
RECURSIVE Explore(_, _, _)
Explore(all, seen, frontier) ==
  IF \E p \in frontier : ~AgreesWithFunction(all, p) THEN FALSE
  ELSE LET next == UNION {{Follow(all, p, k) : k \in DOMAIN function[all[p.node].val]} :
                          p \in frontier} \ seen
       IN  next = {} \/ Explore(all, seen \cup next, next)

(* No region is half restructured. *)
BetweenRegions == phase \in {"regions", "elect", "done"} /\ failed = ""

(* Each block goes, whatever happened before, to the blocks the function     *)
(* says, through dispatchers, breaks and continues: the state variable holds *)
(* the right value at each dispatcher, though all the loops share it.        *)
ExecutionIsPreserved ==
  BetweenRegions => Start.node # NoNode /\ Explore(AllNodes, {Start}, {Start})
=============================================================================
