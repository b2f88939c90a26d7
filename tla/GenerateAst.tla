---------------------------- MODULE GenerateAst ----------------------------
(***************************************************************************)
(* The generation of the AST, GenerateAst.h, on the graphs RestructureCFG     *)
(* leaves: each region is combed, then covered with tiles in post-order; a    *)
(* tile takes the place of a node and of what it dominates.                    *)
(*                                                                          *)
(* An AST is a sequence of nodes: the one a pointer of the code designates    *)
(* and, one after the other, its successors, or the nodes of its SequenceNode *)
(* once createSequence has run.  No node at all is the null pointer, and a    *)
(* sequence of one node is that node.                                         *)
(***************************************************************************)
EXTENDS Inflate
LOCAL INSTANCE SequencesExt
LOCAL INSTANCE FiniteSetsExt

CONSTANTS
  Weights(_)          \* the weights the blocks of a function may have

VARIABLES
  combed,             \* the regions whose graph is combed
  passes,             \* how many passes the graph at hand has gone through
  asts,               \* the AST of each region, CollapsedMap
  ast                 \* the AST of the function, once it is normalized

genVars == <<vars, noreturn, weight, combed, passes, asts, ast>>

NoAst == << >>
Code(b) == [kind |-> "Code", block |-> b, implicit |-> FALSE]
Atom(b) == [op |-> "atom", block |-> b]
If(b, cond, weaved, then, else) ==
  [kind |-> "If", block |-> b, cond |-> cond, weaved |-> weaved,
   then |-> then, else |-> else]

(* A switch without a condition is a dispatcher, of an entry or of an exit.   *)
(* state and dispatcher say how a loop is left from it.                        *)
Switch(b, dispatches, weaved, cases) ==
  [kind |-> "Switch", block |-> b, dispatches |-> dispatches, weaved |-> weaved,
   cases |-> cases, state |-> FALSE, dispatcher |-> FALSE]
Scs(body) == [kind |-> "Scs", loop |-> "while true", related |-> << >>, body |-> body]
Case(labels, body) == [labels |-> labels, body |-> body]
SwitchBreak == [kind |-> "SwitchBreak"]

Dummy == Code(NoNode)

(* The AST node of a node that is neither a conditional nor a loop. *)
Leaf(n) ==
  CASE n.kind = "Code" -> Code(n.val)
    [] n.kind = "Empty" -> Dummy
    [] n.kind \in {"EntrySet", "ExitSet"} ->
         [kind |-> "Set", val |-> n.val, exit |-> n.kind = "ExitSet"]
    [] n.kind = "Break" -> [kind |-> "Break", fromSwitch |-> FALSE]
    [] n.kind = "Continue" ->
         [kind |-> "Continue", computation |-> << >>, implicit |-> FALSE]

---------------------------------------------------------------------------
(* Tiles.  A record                                                           *)
(*   g, fresh   the graph, where the tiles are nodes, and the next identifier, *)
(*   head       TileToNodeMap,  tree  the AST of each node met,               *)
(*   failed     the assertion that failed, if any                              *)
(* is carried from a node to the next.                                         *)

Missing == <<[kind |-> "Missing"]>>
Ast(t, y) ==
  LET x == IF y \in DOMAIN t.head THEN t.head[y] ELSE y
  IN  IF x \in DOMAIN t.tree THEN t.tree[x] ELSE Missing

Fail(t, why) == [t EXCEPT !.failed = IF @ = "" THEN why ELSE @]
Assert_(t, ok, why) == IF ok THEN t ELSE Fail(t, why)

WithAst(t, x, nodes) == [t EXCEPT !.tree = (x :> nodes) @@ @]

(* The children of x in the dominator tree. *)
Children(g, x) ==
  LET live == Reachable(g, g.entry)
      Below(y) == live \ (ReachVia(g, {g.entry}, {y}) \cup {y})
      below == IF x = g.entry THEN live \ {x} ELSE Below(x)
  IN  below \ UNION {Below(y) : y \in below}

IsInlined(g, x, y) == EdgeTo(g, x, y).inlined
DirectSuccessor(g, x) ==
  IF Len(g.node[x].succ) = 1 THEN g.node[x].succ[1].to ELSE NoNode

(* The tile takes the edges into the node, and those out of the end if the    *)
(* end is part of it.                                                          *)
CreateTileImpl(t, x, end, endIsPart) ==
  LET tile == t.fresh
      entered == MoveEdges(AddNode(t.g, tile, "Tile", 0),
                           {<<p, x>> : p \in Preds(t.g, x)}, tile)
  IN  [t EXCEPT !.g = IF endIsPart
                      THEN [entered EXCEPT !.node[tile].succ = entered.node[end].succ,
                                           !.node[end].succ = << >>]
                      ELSE entered,
                !.fresh = tile + 1,
                !.head = (tile :> x) @@ @]

MoveEdgeSource(g, x, y, z) ==
  RemoveEdge(AddEdge(g, z, EdgeTo(g, x, y)), x, y)

CreateTile(t, x, end, endIsPart) ==
  LET made == CreateTileImpl(t, x, end, endIsPart)
  IN  IF endIsPart \/ end = NoNode THEN made
      ELSE [made EXCEPT !.g = MoveEdgeSource(@, x, end, t.fresh)]

(* The edges of the cases to the end, which is not part of the tile, become   *)
(* one edge of the tile.                                                       *)
CreateSwitchTile(t, x, end, endIsPart, cases) ==
  LET made == CreateTileImpl(t, x, end, endIsPart)
      joining == SelectSeq(cases, LAMBDA c : c # end)
      cut == FoldLeft(LAMBDA g, c : RemoveEdge(g, c, end), made.g, joining)
      joined == IF joining # << >> THEN AddEdge(cut, t.fresh, EdgeTo(t.g, joining[1], end))
                ELSE IF end \in Targets(cut, x) THEN MoveEdgeSource(cut, x, end, t.fresh)
                ELSE cut
  IN  IF endIsPart \/ end = NoNode THEN made
      ELSE Assert_([made EXCEPT !.g = joined],
                   \A k \in DOMAIN joining : DirectSuccessor(t.g, joining[k]) = end
                     /\ EdgeTo(t.g, joining[k], end) = EdgeTo(t.g, joining[1], end),
                   "a case does not go to the end")

---------------------------------------------------------------------------

TileCollapsed(t, x) ==
  LET n == t.g.node[x]
      loop == Scs(asts[n.val])
      y == DirectSuccessor(t.g, x)
  IN  Assert_(IF n.succ # << >> /\ Dominates(t.g, x, y)
              THEN WithAst(CreateTile(t, x, y, TRUE), x, <<loop>> \o Ast(t, y))
              ELSE WithAst(t, x, <<loop>>),
              Cardinality(Children(t.g, x)) <= 1 /\ Len(n.succ) <= 1,
              "a loop dominates several nodes")

(* Where the cases of a switch fall through to, if they all do. *)
Count(xs, y) == Cardinality({k \in DOMAIN xs : xs[k] = y})

FallthroughCandidates(g, notInlined, successors) ==
  LET n == Len(successors)
      others == {c \in Range(notInlined) :
                   /\ Count(successors, c) > 0
                   /\ Count(successors, c) =
                        IF DirectSuccessor(g, c) = NoNode THEN n ELSE n - 1}
      common == {y \in Range(successors) : Count(successors, y) = n}
  IN  IF Len(notInlined) = 1 THEN Range(notInlined) ELSE others \cup common

(* Mutant: a case that is the fallthrough executes it. *)
MutCaseBody(t, y, end) == Ast(t, y)

CaseBody(t, y, end) == IF y = end THEN <<SwitchBreak>> ELSE Ast(t, y)

TileSwitch(t, x) ==
  LET n == t.g.node[x]
      notInlined == SelectSeq(TargetSeq(t.g, x), LAMBDA y : ~IsInlined(t.g, x, y))
      notTerminal == SelectSeq(notInlined, LAMBDA y : DirectSuccessor(t.g, y) # NoNode)
      candidates == FallthroughCandidates(t.g, notInlined,
                      [k \in DOMAIN notTerminal |-> DirectSuccessor(t.g, notTerminal[k])])
      end == IF candidates = {} THEN NoNode ELSE Max(candidates)
      part == end # NoNode /\ Dominates(t.g, x, end)
      cases == [i \in DOMAIN n.succ |->
                  Case(n.succ[i].labels, CaseBody(t, n.succ[i].to, end))]
      defaults == {i \in DOMAIN cases : cases[i].labels = {}}
      tiled == WithAst(CreateSwitchTile(t, x, end, part, notTerminal), x,
                       <<Switch(IF n.kind = "Code" THEN n.val ELSE NoNode, n.kind, n.weaved, cases)>>
                       \o IF part THEN Ast(t, end) ELSE NoAst)
  IN  Assert_(Assert_(Assert_(Assert_(tiled,
        \A k \in DOMAIN notInlined : Len(t.g.node[notInlined[k]].succ) <= 1,
        "a case with several successors"),
        Cardinality(candidates) <= 1, "two fallthroughs"),
        end # NoNode \/ notTerminal = << >>, "no fallthrough"),
        Cardinality(defaults) <= 1
          /\ (defaults # {} \/ n.weaved \/ IsDispatcher(t.g, x)), "the default")

---------------------------------------------------------------------------
(* A conditional with two branches.  One of the two successors may be what    *)
(* follows the if, rather than a branch of it: it is in the tile only if the   *)
(* conditional dominates it and, in all, two nodes.                            *)

MakeIf(t, x, branch, end, endIsPart) ==
  LET y == TargetSeq(t.g, x)
      b == t.g.node[x].val
      Branch(i) == IF i \in branch THEN Ast(t, y[i]) ELSE NoAst
      follows == IF endIsPart THEN Ast(t, end) ELSE NoAst
  IN  Assert_(WithAst(CreateTile(t, x, end, endIsPart), x,
                      <<If(b, Atom(b), t.g.node[x].weaved, Branch(1), Branch(2))>> \o follows),
              \A i \in branch : Dominates(t.g, x, y[i]),
              "a branch is not dominated")

(* The successors that are branches of x. *)
BranchesOfOneChild(t, x, child) ==
  LET y == TargetSeq(t.g, x)
      inlined == {i \in 1..2 : IsInlined(t.g, x, y[i])}
  IN  IF inlined # {} THEN inlined ELSE {i \in 1..2 : y[i] = child}

BranchesOfTwoChildren(t, x) ==
  LET y == TargetSeq(t.g, x)
      after == [i \in 1..2 |-> DirectSuccessor(t.g, y[i])]
      inlined == {i \in 1..2 : IsInlined(t.g, x, y[i])}
  IN  IF after[1] = after[2] THEN {1, 2}
      ELSE IF inlined # {} THEN inlined
      ELSE IF after[1] = y[2] THEN {1}
      ELSE IF after[2] = y[1] THEN {2}
      ELSE {1, 2}

TileIf(t, x) ==
  LET y == TargetSeq(t.g, x)
      kids == Children(t.g, x)
      after == [i \in 1..2 |-> DirectSuccessor(t.g, y[i])]
      branches == IF Cardinality(kids) = 1
                  THEN BranchesOfOneChild(t, x, CHOOSE k \in kids : TRUE)
                  ELSE BranchesOfTwoChildren(t, x)
      Other(B) == IF B = {1, 2} THEN NoNode ELSE y[CHOOSE i \in 1..2 : i \notin B]
      code == Assert_(t, t.g.node[x].kind = "Code", "a conditional without code")
  IN  CASE Cardinality(kids) = 1 ->
             Assert_(MakeIf(code, x, branches, Other(branches), FALSE),
                     branches # {}, "the child is not a successor")
        [] Cardinality(kids) = 2 ->
             MakeIf(code, x, branches, Other(branches), Other(branches) # NoNode)
        [] Cardinality(kids) = 3 ->
             Assert_(MakeIf(code, x, {1, 2}, after[1], after[1] # NoNode),
                     /\ \A i \in 1..2 : y[i] \in kids /\ Len(t.g.node[y[i]].succ) < 2
                     /\ after[1] = after[2] /\ after[1] \in kids \cup {NoNode},
                     "the branches do not meet")
        [] OTHER -> Fail(WithAst(t, x, Missing), "the children of a conditional")

TileSequence(t, x) ==
  LET n == t.g.node[x]
      kids == Children(t.g, x)
      y == DirectSuccessor(t.g, x)
  IN  Assert_(IF kids = {} THEN WithAst(t, x, <<Leaf(n)>>)
              ELSE WithAst(CreateTile(t, x, y, TRUE), x, <<Leaf(n)>> \o Ast(t, y)),
              kids \subseteq {y}, "the child is not the successor")

TileNode(t, x) ==
  LET n == t.g.node[x]
  IN  IF n.kind = "Collapsed" THEN TileCollapsed(t, x)
      ELSE IF IsDispatcher(t.g, x) \/ IsASwitch(t.g, x) THEN TileSwitch(t, x)
      ELSE IF Len(n.succ) = 2 THEN TileIf(t, x)
      ELSE IF Len(n.succ) <= 1 THEN TileSequence(t, x)
      ELSE Fail(WithAst(t, x, Missing), "too many successors")

TileGraph(g, next) ==
  FoldLeft(TileNode, [g |-> g, fresh |-> next, head |-> << >>, tree |-> << >>, failed |-> ""],
           PostOrder(g))

---------------------------------------------------------------------------
(* normalize: the dummies go, and the cases left without a node with them;    *)
(* but in a switch with a default such a case must break out of the switch.    *)

WithoutEmptyCases(cases) ==
  IF \E i \in DOMAIN cases : cases[i].labels = {}
  THEN [i \in DOMAIN cases |->
          IF cases[i].body = NoAst THEN Case(cases[i].labels, <<SwitchBreak>>)
          ELSE cases[i]]
  ELSE SelectSeq(cases, LAMBDA c : c.body # NoAst)

RECURSIVE WithoutDummies(_)
WithoutDummies(nodes) ==
  LET InCase(c) == [c EXCEPT !.body = WithoutDummies(@)]
      Inside(n) ==
        CASE n.kind = "If" -> [n EXCEPT !.then = WithoutDummies(@), !.else = WithoutDummies(@)]
          [] n.kind = "Scs" -> [n EXCEPT !.body = WithoutDummies(@)]
          [] n.kind = "Switch" ->
               [n EXCEPT !.cases = WithoutEmptyCases([i \in DOMAIN @ |-> InCase(@[i])])]
          [] OTHER -> n
      kept == SelectSeq(nodes, LAMBDA n : n # Dummy)
  IN  [i \in DOMAIN kept |-> Inside(kept[i])]

---------------------------------------------------------------------------

Root == NoParent
Regions == {Root} \cup DOMAIN parent
GraphOf(m) == IF m = Root THEN root ELSE graphs[m]

(* The recursion of generateAst combs a region before the ones it contains,   *)
(* and has their ASTs before it makes its own.                                 *)
OutermostFirst == <<Root>> \o ParentsFirst(parent, << >>)
NextToComb == SelectSeq(OutermostFirst, LAMBDA m : m \notin combed)
NextToTile == SelectSeq(Reverse(OutermostFirst), LAMBDA m : m \notin DOMAIN asts)

GenInit ==
  /\ Init
  /\ noreturn \in SUBSET {b \in DOMAIN function : function[b] = << >>}
  /\ weight \in Weights(function)
  /\ combed = {} /\ passes = 0 /\ asts = << >> /\ ast = NoAst

Restructure == Next /\ UNCHANGED <<noreturn, weight, combed, passes, asts, ast>>

(* The passes over the graph of a region, before the ones inside it. *)
Becomes(pass, after) ==
  /\ passes' = (pass + 1) % 4
  /\ LET m == Head(NextToComb)
     IN  /\ root' = IF m = Root THEN after.g ELSE root
         /\ graphs' = IF m = Root THEN graphs ELSE [graphs EXCEPT ![m] = after.g]
         /\ combed' = IF passes' = 0 THEN combed \cup {m} ELSE combed
  /\ fresh' = after.fresh
  /\ failed' = IF after.failed # "" THEN after.failed
               ELSE IF ~NoParallelEdges(after.g) THEN "an edge is added twice"
               ELSE IF ~NoDanglingEdges(after.g) THEN "an edge to a removed node"
               ELSE ""
  /\ UNCHANGED <<function, backedges, regions, parent, worklist, rpot, depth, cur,
                 phase, noreturn, weight, asts, ast>>

Turn(pass) == phase = "done" /\ Running /\ NextToComb # << >> /\ passes = pass
Graph == GraphOf(Head(NextToComb))

MarkUnreachable ==
  Turn(0) /\ \E after \in {MarkUnreachableAsInlined(Graph, fresh)} : Becomes(0, after)
WeaveSwitches == Turn(1) /\ \E after \in {Weave(Graph, fresh)} : Becomes(1, after)
UntangleBranches ==
  /\ Turn(2)
  /\ \E sunk \in {AddVirtualSink(Graph, fresh)} :
       \E after \in {UntangleConditionals(sunk, fresh)} : Becomes(2, Untangled(after))
InflateBranches ==
  /\ Turn(3)
  /\ \E prepared \in {PrepareInflate(Graph, fresh)} :
       \E start \in {BeginInflate(prepared)} :
         \E after \in {CombConditionals(start)} : Becomes(3, Comb(after))

TileRegion ==
  /\ phase = "done" /\ Running /\ NextToComb = << >> /\ NextToTile # << >>
  /\ \E after \in {TileGraph(GraphOf(Head(NextToTile)), fresh)} :
         /\ asts' = (Head(NextToTile) :> after.tree[GraphOf(Head(NextToTile)).entry]) @@ asts
         /\ fresh' = after.fresh
         /\ failed' = after.failed
  /\ UNCHANGED <<function, root, backedges, regions, parent, worklist, rpot, depth,
                 graphs, cur, phase, noreturn, weight, combed, passes, ast>>

Normalize ==
  /\ phase = "done" /\ Running /\ NextToComb = << >> /\ NextToTile = << >>
  /\ ast' = WithoutDummies(asts[Root])
  /\ phase' = "ast"
  /\ UNCHANGED <<function, root, backedges, regions, parent, worklist, rpot, depth,
                 graphs, fresh, cur, failed, noreturn, weight, combed, passes, asts>>

GenNext ==
  \/ Restructure
  \/ MarkUnreachable \/ WeaveSwitches \/ UntangleBranches \/ InflateBranches
  \/ TileRegion \/ Normalize

GenSpec == GenInit /\ [][GenNext]_genVars /\ WF_genVars(GenNext)
=============================================================================
