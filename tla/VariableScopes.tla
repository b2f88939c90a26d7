--------------------------- MODULE VariableScopes ---------------------------
(***************************************************************************)
(* ALAPVariableDeclaration.cpp: the node of the AST before which each local   *)
(* variable is declared, as late as possible.  A variable is written in a     *)
(* block and read in another one, that it dominates: <<w, r>>.                *)
(*                                                                          *)
(* A node of the AST is named by its path: where it is among the children of  *)
(* each node around it.                                                       *)
(***************************************************************************)
EXTENDS Beautify
LOCAL INSTANCE SequencesExt
LOCAL INSTANCE FiniteSetsExt

(* A way from the first block to r goes through w. *)
RECURSIVE ReachedWithout(_, _)
ReachedWithout(w, blocks) ==
  LET next == blocks \cup ({e.to : e \in UNION {Range(function[b]) : b \in blocks}} \ {w})
  IN  IF next = blocks THEN blocks ELSE ReachedWithout(w, next)

LocalVariables ==
  {<<w, r>> \in (DOMAIN function) \X (DOMAIN function) :
     w # r /\ r \notin ReachedWithout(w, {1} \ {w})}

(* No loop is entered at two of its blocks: without the edges back to a block  *)
(* that dominates where they leave, no block is reached again.                 *)
RECURSIVE InLoops(_)
InLoops(blocks) ==
  LET above == [b \in blocks |-> {b} \cup {v[1] : v \in {v \in LocalVariables : v[2] = b}}]
      Ahead(b) == {e.to : e \in Range(function[b])} \ above[b]
      left == {b \in blocks : Ahead(b) \cap blocks # {}}
  IN  IF left = blocks THEN blocks ELSE InLoops(left)

LoopsHaveOneEntry == InLoops(DOMAIN function) = {}

(* The nodes of the AST at their paths. *)
RECURSIVE NodesAt(_, _)
NodesAt(n, path) ==
  LET there == {i \in DOMAIN Bodies(n) : Bodies(n)[i] # Null}
      below == {NodesAt(Bodies(n)[i], Append(path, i)) : i \in there}
  IN  FoldSet(LAMBDA nodes, acc : nodes @@ acc, path :> n, below)

(* The graph of the scopes: what is declared before a node is visible in what *)
(* is within it, and in what follows it in its sequence.                       *)
Before(nodes, path) ==
  LET around == Front(path)
  IN  IF Is(nodes[around], "Sequence") /\ Last(path) > 1
      THEN Append(around, Last(path) - 1) ELSE around

RECURSIVE DominatorsOf(_, _)
DominatorsOf(nodes, path) ==
  {path} \cup (IF path = << >> THEN {} ELSE DominatorsOf(nodes, Before(nodes, path)))

(* The nodes that the code of a block is in.  The condition of a loop is the  *)
(* loop's, and that of the continues which compute it again.                   *)
MentionedIn(e, b) == \E a \in Range(Atoms(e)) : a.block = b

(* Mutant: the condition of a loop is not one of the loop's uses. *)
MutIsUsedIn(n, b) ==
  CASE n.kind \in {"Code", "Switch"} -> n.block = b
    [] Is(n, "If") -> n.block = b \/ MentionedIn(n.cond, b)
    [] Is(n, "Continue") -> n.computation # << >> /\ MentionedIn(n.computation[1].cond, b)
    [] OTHER -> FALSE

IsUsedIn(n, b) ==
  CASE n.kind \in {"Code", "Switch"} -> n.block = b
    [] Is(n, "If") -> n.block = b \/ MentionedIn(n.cond, b)
    [] Is(n, "Scs") -> n.related # << >> /\ MentionedIn(n.related[1].cond, b)
    [] Is(n, "Continue") -> n.computation # << >> /\ MentionedIn(n.computation[1].cond, b)
    [] OTHER -> FALSE

(* The first node in post-order that dominates all the uses. *)
DeclaredBefore(nodes, variable) ==
  LET uses == {path \in DOMAIN nodes :
                 \E b \in {variable[1], variable[2]} : IsUsedIn(nodes[path], b)}
      common == {path \in DOMAIN nodes : \A use \in uses : path \in DominatorsOf(nodes, use)}
  IN  CHOOSE path \in common : common \subseteq DominatorsOf(nodes, path)

(* The AST with the variables each node declares. *)
RECURSIVE Declaring(_, _, _)
Declaring(n, path, declared) ==
  LET before == Bodies(n)
      after == [i \in DOMAIN before |->
                  IF before[i] = Null THEN Null
                  ELSE Declaring(before[i], Append(path, i), declared)]
      variables == {v \in DOMAIN declared : declared[v] = path}
      node == WithBodies(n, after)
  IN  IF variables = {} THEN node
      ELSE Sequence(<<[kind |-> "Variables", of |-> variables], node>>)

WithVariables(n) ==
  LET nodes == NodesAt(n, << >>)
  IN  Declaring(n, << >>, [v \in LocalVariables |-> DeclaredBefore(nodes, v)])
=============================================================================
