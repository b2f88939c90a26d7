--------------------------- MODULE RestructureCFG ---------------------------
(***************************************************************************)
(* restructureCFG, in RestructureCFG.cpp, up to the generation of the AST:   *)
(* the cyclic regions of the graph of a function are collapsed one by one,   *)
(* innermost first, each into a node that stands for a loop with one entry    *)
(* and one exit.  Where the region has more entries or exits than that, a    *)
(* dispatcher on a state variable, or a copy of the first iteration, makes    *)
(* up for it.                                                                 *)
(*                                                                          *)
(* A function is a sequence of blocks, the first being the entry; a block is *)
(* a sequence of edges [to, labels].  The labels of the edges of a switch     *)
(* are disjoint, and one of them, without labels, is the default; a block    *)
(* with at most two successors has no labels.                                 *)
(***************************************************************************)
EXTENDS MetaRegions
LOCAL INSTANCE SequencesExt
LOCAL INSTANCE FiniteSetsExt

CONSTANTS
  Functions           \* the functions the pass may be given

VARIABLES
  function,           \* the function under analysis
  root,               \* RootCFG, the graph of the function
  backedges,          \* Backedges, the ones not taken care of yet
  regions,            \* OrderedMetaRegions: the nodes of each region
  parent,             \* the region each region is nested in
  worklist,           \* the regions still to restructure, in order
  rpot,               \* RPOT, without the nodes that were removed
  depth,              \* ShortestPathFromEntry
  graphs,             \* the graphs of the regions that were collapsed
  fresh,              \* the next identifier of a node
  cur,                \* what is known of the region at hand
  phase,              \* where the analysis is
  failed              \* the assertion that failed, if any

vars == <<function, root, backedges, regions, parent, worklist, rpot, depth,
          graphs, fresh, cur, phase, failed>>

NoRegion == [meta |-> NoParent]

(* RegionCFG::initialize. *)
InitialGraph(f) ==
  [entry |-> 1,
   node |-> [b \in DOMAIN f |->
     [Node("Code", b) EXCEPT !.succ =
        [i \in DOMAIN f[b] |-> LabeledEdge(f[b][i].to, f[b][i].labels)]]]]

Init ==
  /\ function \in Functions
  /\ root = InitialGraph(function)
  /\ backedges = BackedgesFrom(root, 1)
  /\ regions = << >> /\ parent = << >> /\ worklist = << >>
  /\ rpot = << >> /\ depth = << >> /\ graphs = << >>
  /\ fresh = Len(function) + 1
  /\ cur = NoRegion
  /\ phase = "backedges"
  /\ failed = ""

Running == failed = ""

(* A node without successors of its own on every backedge. *)
AddDummy(acc, e) ==
  LET dummy == acc.fresh
      moved == MoveEdgeTarget(AddNode(acc.graph, dummy, "Empty", 0),
                              e[1], e[2], dummy)
  IN  [graph |-> AddPlainEdge(moved, dummy, e[2]), fresh |-> dummy + 1]

InsertDummies ==
  /\ phase = "backedges" /\ Running
  /\ LET after == FoldLeft(AddDummy, [graph |-> root, fresh |-> fresh],
                           EdgesInOrder(backedges))
     IN  /\ root' = after.graph
         /\ fresh' = after.fresh
         /\ backedges' = BackedgesFrom(after.graph, 1)
  /\ failed' = IF \E e \in backedges' : ~IsEmptyNode(root', e[1])
               THEN "the source of a backedge is not a dummy" ELSE ""
  /\ phase' = "regions"
  /\ UNCHANGED <<function, regions, parent, worklist, rpot, depth, graphs, cur>>

FormMetaRegions ==
  /\ phase = "regions" /\ Running
  /\ \E first \in {SimplifySCSAbnormalRetreating(
                      CreateMetaRegions(root, backedges), backedges)} :
     \E nested \in {SortMetaRegions(SimplifySCS(first))} :
         /\ regions' = nested
         /\ parent' = ComputeParents(nested)
         /\ worklist' = ApplyPartialOrder(ComputeParents(nested))
         /\ failed' = IF /\ CheckMetaregionConsistency(first, backedges)
                         /\ CheckMetaregionConsistency(nested, backedges)
                      THEN "" ELSE "checkMetaregionConsistency"
  /\ rpot' = ReversePostOrder(root)
  /\ depth' = ShortestPaths(root)
  /\ graphs' = [i \in DOMAIN regions' |-> << >>]
  /\ phase' = "elect"
  /\ UNCHANGED <<function, root, backedges, fresh, cur>>

---------------------------------------------------------------------------
(* The head of the region. *)

CandidateEntries(nodes) ==
  LET into == InEdges(root, nodes)
  IN  [y \in {e[2] : e \in into} |-> Cardinality({e \in into : e[2] = y})]

(* The election starts from the entry that comes first in the order of the   *)
(* addresses, then goes through the nodes of the initial graph in reverse    *)
(* post-order.  An entry with more incoming edges than the *first* one wins: *)
(* the number to beat does not change with the winner.                        *)
ElectedEntry(entries, first) ==
  LET Better(winner, n) ==
        IF n \notin DOMAIN entries THEN winner
        ELSE IF entries[n] > entries[first] THEN n
        ELSE IF entries[n] = entries[first] /\ depth[n] < depth[winner] THEN n
        ELSE winner
  IN  FoldLeft(Better, first, rpot)

(* A retreating edge is made to set the state variable and to go to the      *)
(* dispatcher.  The edges that share the target share the value; when the     *)
(* source already sets the variable, it is the edge that enters it that is    *)
(* redirected, and the dispatcher goes through the source.                    *)
RedirectRetreating(acc, e) ==
  LET isSet == IsSet(acc.graph, e[1])
      key == IF isSet THEN <<e[2], acc.graph.node[e[1]].val>> ELSE <<e[2]>>
      new == key \notin DOMAIN acc.index
      value == IF new THEN acc.next ELSE acc.index[key]
      moved == IF isSet THEN <<Max(Preds(acc.graph, e[1]) \cup {0}), e[1]>>
               ELSE e
      dispatched == IF new THEN AddEdge(acc.graph, acc.head,
                                        LabeledEdge(moved[2], {value}))
                    ELSE IF isSet THEN RemoveNodes(acc.graph, {e[1]})
                    ELSE acc.graph
      set == acc.fresh
      redirected == MoveEdgeTarget(AddNode(dispatched, set, "EntrySet", value),
                                   moved[1], moved[2], set)
  IN  [acc EXCEPT
         !.graph = AddPlainEdge(redirected, set, acc.head),
         !.fresh = set + 1,
         !.index = (key :> value) @@ @,
         !.next = @ + 1,
         !.sets = @ \cup {set},
         !.failed = IF @ # "" THEN @
                    ELSE IF isSet /\ Cardinality(Preds(acc.graph, e[1])) # 1
                      THEN "getUniquePredecessor"
                    ELSE IF ~HasEdge(dispatched, moved)
                      THEN "the edge of a retreating is gone" ELSE @]

ElectHead ==
  /\ phase = "elect" /\ Running /\ worklist # << >>
  /\ LET meta == Head(worklist)
         nodes == regions[meta]
         entries == CandidateEntries(nodes)
         own == {e \in backedges : e[1] \in nodes}
     IN  /\ backedges' = backedges \ own
         /\ \/ /\ DOMAIN entries = {}
               /\ failed' = "no candidate entry"
               /\ UNCHANGED <<root, regions, fresh, cur, phase>>
            \/ \E first \in DOMAIN entries :
                 LET entry == ElectedEntry(entries, first)
                     retreatings == BackedgesWhiteList(root, entry, nodes)
                     needed == Cardinality({e[2] : e \in retreatings}) > 1
                     head == fresh
                     start == [graph |-> AddNode(root, head, "EntryDispatcher", 0),
                               head |-> head, fresh |-> fresh + 1,
                               index |-> << >>, next |-> 0, sets |-> {},
                               failed |-> ""]
                     after == FoldLeft(RedirectRetreating, start,
                                       EdgesInOrder(retreatings))
                     outside == {p \in Preds(after.graph, entry) \ nodes :
                                   p \notin {head} \cup after.sets}
                     moved == MoveEdges(after.graph,
                                        {<<p, entry>> : p \in outside}, head)
                 IN  IF first \notin DOMAIN depth
                     THEN /\ failed' = "an entry has no shortest path"
                          /\ UNCHANGED <<root, regions, fresh, cur, phase>>
                     ELSE /\ root' = IF needed THEN moved ELSE root
                          /\ regions' = IF needed
                               THEN [regions EXCEPT ![meta] =
                                       @ \cup {head} \cup after.sets]
                               ELSE regions
                          /\ fresh' = IF needed THEN after.fresh ELSE fresh
                          /\ cur' = [meta |-> meta,
                                     entries |-> DOMAIN entries,
                                     head |-> IF needed THEN head ELSE entry,
                                     needed |-> needed,
                                     default |-> IF needed /\ <<entry>> \in DOMAIN after.index
                                                 THEN after.index[<<entry>>] ELSE 0,
                                     continues |-> IF needed
                                       THEN {<<s, head>> : s \in after.sets}
                                       ELSE retreatings,
                                     successors |-> {}, defaults |-> {}]
                          /\ failed' =
                               IF \E e \in own : e[2] \notin nodes
                                 THEN "a backedge leaves its region"
                               ELSE IF retreatings = {} THEN "no backedge"
                               ELSE IF ~needed
                                 THEN IF \A e \in retreatings : e[2] = entry
                                      THEN "" ELSE "a retreating misses the entry"
                               ELSE IF after.failed # "" THEN after.failed
                               ELSE IF \E p \in outside : IsSet(root, p)
                                 THEN "a set node outside the region"
                               ELSE IF <<entry>> \notin DOMAIN after.index
                                 THEN "no default index" ELSE ""
                          /\ phase' = "refine"
  /\ worklist' = Tail(worklist)
  /\ UNCHANGED <<function, parent, rpot, depth, graphs>>

---------------------------------------------------------------------------
(* While the region has several successors, it takes in those that only it   *)
(* precedes and that belong to no region.  One pass follows the order of the *)
(* addresses; the element after s is chosen before the successors of s are   *)
(* added, so that those that come between the two wait for another pass.     *)
RECURSIVE RefinePass(_, _, _)
RefinePass(nodes, s, succs) ==
  LET later == {x \in succs : x > s}
      absorbed == /\ s \notin UNION Range(regions)
                  /\ Preds(root, s) \subseteq nodes
      pass == IF absorbed
              THEN [nodes |-> nodes \cup {s},
                    succs |-> (succs \ {s}) \cup (Targets(root, s) \ (nodes \cup {s}))]
              ELSE [nodes |-> nodes, succs |-> succs]
  IN  IF later = {} THEN pass ELSE RefinePass(pass.nodes, Min(later), pass.succs)

RECURSIVE Refine(_, _)
Refine(nodes, succs) ==
  LET pass == RefinePass(nodes, Min(succs), succs)
  IN  IF Cardinality(succs) <= 1 THEN [nodes |-> nodes, succs |-> succs]
      ELSE IF pass.nodes = nodes THEN pass
      ELSE Refine(pass.nodes, pass.succs)

RefineSuccessors ==
  /\ phase = "refine" /\ Running
  /\ LET nodes == regions[cur.meta]
         refined == Refine(nodes, Successors(root, nodes))
     IN  /\ regions' = [regions EXCEPT ![cur.meta] = refined.nodes]
         /\ cur' = [cur EXCEPT !.successors = refined.succs]
  /\ phase' = "outline"
  /\ UNCHANGED <<function, root, backedges, parent, worklist, rpot, depth,
                 graphs, fresh, failed>>

---------------------------------------------------------------------------
(* The first iteration of a region with several entries is copied outside:   *)
(* what the late entries reach in the region before its head.                *)

OutlinedEdges(g, x, clones, nodes, head) ==
  [i \in DOMAIN g.node[x].succ |->
     LET e == g.node[x].succ[i]
     IN  IF e.to \in nodes \ {head} THEN [e EXCEPT !.to = clones[e.to]] ELSE e]

(* The regions a copy may go to: of each predecessor the innermost one. *)
PredecessorsParents(g, x, metas) ==
  {MostNestedRegion(parent, {m \in DOMAIN metas : p \in metas[m]}) :
     p \in Preds(g, x)}
ComputePredecessorsParent(g, x, metas) ==
  MostNestedRegion(parent, PredecessorsParents(g, x, metas))
NestingIsAmbiguous(g, x, metas) ==
  \/ MostNestedTwice(parent, PredecessorsParents(g, x, metas))
  \/ \E p \in Preds(g, x) :
       MostNestedTwice(parent, {m \in DOMAIN metas : p \in metas[m]})

(* The copies that reach the head or a successor of the region, each after   *)
(* its predecessors.                                                          *)
InverseGraph(g) ==
  [g EXCEPT !.node = [x \in Ids(g) |->
     [g.node[x] EXCEPT !.succ =
        LET ps == InOrder(Preds(g, x))
        IN  [i \in DOMAIN ps |-> PlainEdge(ps[i])]]]]

PredecessorsFirst(g, copies, boundary) ==
  LET origins == InOrder({c \in copies : Targets(g, c) \cap boundary # {}})
      inverse == InverseGraph(g)
      From(v, c) == IF c \in v.seen THEN v ELSE Visit(inverse, c, {}, v)
  IN  FoldLeft(From, [NothingSeen EXCEPT !.seen = Ids(g) \ copies], origins).post

OutlineFirstIteration ==
  /\ phase = "outline" /\ Running
  /\ LET meta == cur.meta
         nodes == regions[meta]
         late == cur.entries \ {cur.head}
         originals == InOrder(ReachVia(root, late, {cur.head} \cup (Ids(root) \ nodes)))
         clones == [x \in Range(originals) |->
                      fresh - 1 + CHOOSE k \in DOMAIN originals : originals[k] = x]
         Copy(g, x) == [g EXCEPT !.node =
                          (clones[x] :> [g.node[x] EXCEPT !.succ =
                             OutlinedEdges(g, x, clones, nodes, cur.head)]) @@ @]
         entering == {e \in InEdges(root, nodes) : e[2] \in Range(originals)}
         Enter(g, e) == MoveEdgeTarget(g, e[1], e[2], clones[e[2]])
         outlined == FoldLeft(Enter, FoldLeft(Copy, root, originals),
                              EdgesInOrder(entering))
         copies == Range(clones)
         order == PredecessorsFirst(outlined, copies, {cur.head} \cup cur.successors)
         Assign(acc, c) ==
           LET m == ComputePredecessorsParent(outlined, c, acc.metas)
           IN  [metas |-> IF m = NoParent THEN acc.metas
                          ELSE [acc.metas EXCEPT ![m] = @ \cup {c}],
                bad |-> acc.bad \/ NestingIsAmbiguous(outlined, c, acc.metas)]
         assigned == FoldLeft(Assign, [metas |-> regions, bad |-> FALSE], order)
     IN  IF Cardinality(cur.entries) <= 1
         THEN UNCHANGED <<root, regions, depth, fresh, failed>>
         ELSE /\ root' = outlined
              /\ regions' = assigned.metas
              /\ depth' = [c \in {clones[x] : x \in {y \in DOMAIN clones : root.node[y].kind \in {"Code", "Collapsed"}}} |->
                             depth[CHOOSE x \in DOMAIN clones : clones[x] = c]] @@ depth
              /\ fresh' = fresh + Len(originals)
              /\ failed' =
                   IF \E e \in backedges : e[1] \in Range(originals) \/ e \in entering
                     THEN "a backedge is outlined"
                   ELSE IF \E e \in entering : e[2] \notin late
                     THEN "not a late entry"
                   ELSE IF \E x \in Range(originals) :
                             ~(Targets(root, x) \ nodes \subseteq cur.successors)
                     THEN "not a successor of the region"
                   ELSE IF assigned.bad THEN "two parents at the same level" ELSE ""
  /\ phase' = "defaults"
  /\ UNCHANGED <<function, backedges, parent, worklist, rpot, graphs, cur>>

---------------------------------------------------------------------------
(* Mutant: the first value, whatever the entry. *)
MutDefaultIdx == 0
DefaultIdx == cur.default

(* The ways into an entry dispatcher that do not set the state variable get  *)
(* a node that gives it the value of the entry.                               *)
AddDefaultSet(acc, p) ==
  LET set == acc.fresh
      head == cur.head
      moved == MoveEdgeTarget(AddNode(acc.graph, set, "EntrySet", DefaultIdx),
                              p, head, set)
  IN  [graph |-> AddPlainEdge(moved, set, head), fresh |-> set + 1,
       sets |-> acc.sets \cup {set},
       backedges |-> IF <<p, head>> \in acc.backedges
                     THEN (acc.backedges \ {<<p, head>>}) \cup {<<set, head>>}
                     ELSE acc.backedges]

AddDefaultEntrySets ==
  /\ phase = "defaults" /\ Running
  /\ LET unset == IF cur.needed
                  THEN {p \in Preds(root, cur.head) : ~IsSet(root, p)} ELSE {}
         after == FoldLeft(AddDefaultSet,
                           [graph |-> root, fresh |-> fresh, sets |-> {},
                            backedges |-> backedges], InOrder(unset))
     IN  /\ root' = after.graph
         /\ fresh' = after.fresh
         /\ backedges' = after.backedges
         /\ cur' = [cur EXCEPT !.defaults = after.sets]
  /\ phase' = "exits"
  /\ UNCHANGED <<function, regions, parent, worklist, rpot, depth, graphs, failed>>

---------------------------------------------------------------------------
(* The ways out of the region.  Two dummies that carry a backedge to the     *)
(* same target count as one successor: the later is forgotten, with its      *)
(* backedge.                                                                  *)
SameExit(a, b) ==
  a = b \/ (IsEmptyNode(root, a) /\ IsEmptyNode(root, b)
            /\ Targets(root, a) = Targets(root, b))
Representative(s) == Min({t \in cur.successors : SameExit(s, t)})
DeduplicatedSuccessors == {Representative(s) : s \in cur.successors}
(* Mutant: the backedge of a dummy that is forgotten stays. *)
MutDeduplicatedDummies == {}

DeduplicatedDummies == cur.successors \ DeduplicatedSuccessors

(* Each edge out of the region sets the variable on its way. *)
AddExitSet(acc, e) ==
  LET set == acc.fresh
      moved == MoveEdgeTarget(AddNode(acc.graph, set, "ExitSet", acc.index[Representative(e[2])]),
                              e[1], e[2], set)
  IN  [acc EXCEPT !.graph = AddPlainEdge(moved, set, e[2]),
                  !.fresh = set + 1, !.sets = @ \cup {set}]

BuildExitDispatcher ==
  /\ phase = "exits" /\ Running
  /\ LET targets == InOrder(DeduplicatedSuccessors)
         needed == Len(targets) > 1
         dispatcher == fresh
         index == [t \in Range(targets) |-> (CHOOSE k \in DOMAIN targets : targets[k] = t) - 1]
         AddCase(g, t) == AddEdge(g, dispatcher, LabeledEdge(t, {index[t]}))
         cases == FoldLeft(AddCase, AddNode(root, dispatcher, "ExitDispatcher", 0), targets)
         out == OutEdges(root, regions[cur.meta])
         ghosts == {<<d, t>> : d \in DeduplicatedDummies, t \in Ids(root)}
         after == FoldLeft(AddExitSet, [graph |-> cases, fresh |-> fresh + 1,
                                        index |-> index, sets |-> {}],
                           EdgesInOrder(out))
     IN  /\ backedges' = backedges \ {e \in ghosts : e[2] \in Targets(root, e[1])}
         /\ root' = IF needed THEN after.graph ELSE root
         /\ fresh' = IF needed THEN after.fresh ELSE fresh
         /\ regions' = IF needed
              THEN [regions EXCEPT ![cur.meta] = @ \cup after.sets] ELSE regions
         /\ cur' = [meta |-> cur.meta, head |-> cur.head,
                    continues |-> cur.continues, defaults |-> cur.defaults,
                    dummies |-> DeduplicatedDummies,
                    exits |-> IF needed THEN {dispatcher} ELSE {},
                    next |-> IF needed THEN {dispatcher} ELSE DeduplicatedSuccessors]
         /\ failed' = IF \E s \in cur.successors :
                           IsEmptyNode(root, s) /\ Cardinality(Targets(root, s)) # 1
                         THEN "a dummy without its target"
                       ELSE IF needed /\ out \cap backedges' # {}
                         THEN "a backedge leaves the region" ELSE ""
  /\ phase' = "collapse"
  /\ UNCHANGED <<function, parent, worklist, rpot, depth, graphs>>

---------------------------------------------------------------------------
(* insertBulkNodes: the nodes of the region in a graph of their own, with a  *)
(* break for each target outside and a continue for each retreating edge.     *)
(* The entry of the new graph must be left without predecessors.              *)
InsertBulkNodes(nodes, head, continues) ==
  LET inside == InOrder(nodes)
      targets == InOrder(Successors(root, nodes))
      retreatings == EdgesInOrder(continues)
      copied == Len(inside)
      Copy(x) == fresh + CHOOSE k \in DOMAIN inside : inside[k] = x
      Break(t) == fresh + copied + CHOOSE k \in DOMAIN targets : targets[k] = t
      Continue(k) == fresh + copied + Len(targets) + k
      Redirect(e) == [e EXCEPT !.to = IF e.to \in nodes THEN Copy(e.to) ELSE Break(e.to)]
      node == [c \in {Copy(x) : x \in nodes} |->
                 LET x == inside[c - fresh]
                 IN  [root.node[x] EXCEPT !.weaved = FALSE,
                        !.succ = [i \in DOMAIN @ |-> Redirect(@[i])]]]
      breaks == [b \in {Break(t) : t \in Range(targets)} |-> Node("Break", 0)]
      graph == [entry |-> Copy(head), node |-> node @@ breaks]
      Connect(g, k) ==
        MoveEdgeTarget(AddNode(g, Continue(k), "Continue", 0),
                       Copy(retreatings[k][1]), Copy(head), Continue(k))
  IN  [graph |-> FoldLeft(Connect, graph, [k \in DOMAIN retreatings |-> k]),
       fresh |-> fresh + copied + Len(targets) + Len(retreatings) + 1]

(* A backedge to the head of the region is now one to its collapsed node. *)
Retarget(edges, head, collapsed) ==
  {IF e[2] = head THEN <<e[1], collapsed>> ELSE e : e \in edges}

RECURSIVE Ancestors(_)
Ancestors(m) ==
  IF parent[m] = NoParent THEN {} ELSE {parent[m]} \cup Ancestors(parent[m])

CollapseRegion ==
  /\ phase = "collapse" /\ Running
  /\ \E bulk \in {InsertBulkNodes(regions[cur.meta], cur.head, cur.continues)} :
     LET meta == cur.meta
         nodes == regions[meta]
         collapsed == bulk.fresh
         entering == InEdges(root, nodes)
         entered == MoveEdges(AddNode(root, collapsed, "Collapsed", meta),
                              entering, collapsed)
         left == FoldLeft(LAMBDA g, t : AddPlainEdge(g, collapsed, t), entered,
                          InOrder(cur.next))
         outer == RemoveNotReachables(RemoveNodes(left, nodes))
         inner == RemoveNotReachables(bulk.graph)
         Updated(m) == ((regions[m] \ nodes) \cup {collapsed} \cup cur.exits
                        \cup cur.defaults) \ cur.dummies
         updated == [m \in DOMAIN regions |->
                       IF m = meta THEN Ids(bulk.graph)
                       ELSE IF m \in Ancestors(meta) THEN Updated(m) ELSE regions[m]]
         gone == (Ids(left) \ (nodes \cup Ids(outer))) \cup (Ids(bulk.graph) \ Ids(inner))
     IN  /\ root' = outer
         /\ graphs' = [graphs EXCEPT ![meta] = inner]
         /\ backedges' = Retarget(backedges, cur.head, collapsed)
         /\ regions' = [m \in DOMAIN updated |-> updated[m] \ gone]
         /\ depth' = (collapsed :> IF cur.head \in DOMAIN depth
                                   THEN depth[cur.head] ELSE 0) @@ depth
         /\ rpot' = SelectSeq(rpot, LAMBDA x : x \notin nodes)
         /\ fresh' = collapsed + 1
         /\ failed' =
              IF \E e \in backedges : e[1] \in nodes
                THEN "a backedge of an outer region starts in this one"
              ELSE IF \E e \in backedges : e[2] \in nodes \ {cur.head}
                THEN "a backedge of an outer region enters this one"
              ELSE IF \E e \in cur.continues : ~HasEdge(root, e)
                THEN "the edge of a continue is gone"
              ELSE IF Preds(bulk.graph, bulk.graph.entry) # {}
                      \/ Successors(root, nodes) \cap Preds(root, cur.head) # {}
                THEN "the entry of the region has predecessors"
              ELSE IF \E e \in entering : e[2] # cur.head
                THEN "a second entry"
              ELSE IF ~IsDAG(inner) THEN "the region is not a DAG" ELSE ""
  /\ cur' = NoRegion
  /\ phase' = "elect"
  /\ UNCHANGED <<function, parent, worklist>>

Finish ==
  /\ phase = "elect" /\ Running /\ worklist = << >>
  /\ root' = RemoveNotReachables(root)
  /\ phase' = "done"
  /\ failed' = IF backedges # {} THEN "a backedge is left"
               ELSE IF ~IsDAG(root') THEN "the root is not a DAG" ELSE ""
  /\ UNCHANGED <<function, backedges, regions, parent, worklist, rpot, depth,
                 graphs, fresh, cur>>

Next ==
  \/ InsertDummies \/ FormMetaRegions \/ ElectHead \/ RefineSuccessors
  \/ OutlineFirstIteration \/ AddDefaultEntrySets \/ BuildExitDispatcher
  \/ CollapseRegion \/ Finish

Spec == Init /\ [][Next]_vars /\ WF_vars(Next)
=============================================================================
