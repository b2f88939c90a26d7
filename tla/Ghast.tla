------------------------------- MODULE Ghast -------------------------------
(***************************************************************************)
(* The AST as the beautification sees it: sequences are nodes, and the null   *)
(* pointer is Null; what the passes ask of it, ASTNode.cpp, ASTNodeUtils.cpp  *)
(* and FallThroughScopeAnalysis.cpp.                                           *)
(***************************************************************************)
EXTENDS GenerateAst
LOCAL INSTANCE SequencesExt
LOCAL INSTANCE FiniteSetsExt

VARIABLES
  pure,               \* the conditional blocks whose code has no side effects
  comparison,         \* what the condition of a block is: a comparison, NE or EQ,
                      \* a boolean_not, or anything else
  isVoid              \* the function returns nothing

Null == [kind |-> "Null"]
Sequence(nodes) == [kind |-> "Sequence", nodes |-> nodes]
Is(n, kind) == n.kind = kind
HasBoth(n) == n.then # Null /\ n.else # Null

(* The AST that is generated, with its sequences. *)
RECURSIVE AsNode(_)
AsNode(nodes) ==
  LET Inside(n) ==
        CASE n.kind = "If" -> [n EXCEPT !.then = AsNode(@), !.else = AsNode(@)]
          [] n.kind = "Scs" -> [n EXCEPT !.body = AsNode(@)]
          [] n.kind = "Switch" ->
               [n EXCEPT !.cases = [i \in DOMAIN @ |-> [@[i] EXCEPT !.body = AsNode(@)]]]
          [] OTHER -> n
  IN  CASE nodes = << >> -> Null
        [] Len(nodes) = 1 -> Inside(nodes[1])
        [] OTHER -> Sequence([i \in DOMAIN nodes |-> Inside(nodes[i])])

(* The children of a node, and the node with each child replaced. *)
Bodies(n) ==
  CASE n.kind = "Sequence" -> n.nodes
    [] n.kind = "If" -> <<n.then, n.else>>
    [] n.kind = "Scs" -> <<n.body>>
    [] n.kind = "Switch" -> [i \in DOMAIN n.cases |-> n.cases[i].body]
    [] OTHER -> << >>

WithBodies(n, bodies) ==
  CASE n.kind = "Sequence" -> [n EXCEPT !.nodes = bodies]
    [] n.kind = "If" -> [n EXCEPT !.then = bodies[1], !.else = bodies[2]]
    [] n.kind = "Scs" -> [n EXCEPT !.body = bodies[1]]
    [] n.kind = "Switch" ->
         [n EXCEPT !.cases = [i \in DOMAIN @ |-> [@[i] EXCEPT !.body = bodies[i]]]]
    [] OTHER -> n

OnBodies(n, Pass(_)) ==
  LET before == Bodies(n)
  IN  WithBodies(n, [i \in DOMAIN before |-> Pass(before[i])])

NotNull(nodes) == SelectSeq(nodes, LAMBDA n : n # Null)
WithoutNulls(n) ==
  CASE n.kind = "Sequence" -> [n EXCEPT !.nodes = NotNull(@)]
    [] n.kind = "Switch" -> [n EXCEPT !.cases = SelectSeq(@, LAMBDA c : c.body # Null)]
    [] OTHER -> n

RECURSIVE NodesIn(_)
NodesIn(n) == {n} \cup UNION {NodesIn(x) : x \in Range(Bodies(n))}

Has(n, kinds) == \E x \in NodesIn(n) : x.kind \in kinds

RECURSIVE Sum(_)
Sum(xs) == IF xs = << >> THEN 0 ELSE Head(xs) + Sum(Tail(xs))

---------------------------------------------------------------------------
(* isEqual: the same code, for all that the node compares.  Two ifs are told  *)
(* apart by their last branch alone.                                           *)
RECURSIVE IsEqual(_, _)
IsEqual(n, m) ==
  LET SameBodies ==
        /\ Len(Bodies(n)) = Len(Bodies(m))
        /\ \A i \in DOMAIN Bodies(n) : IsEqual(Bodies(n)[i], Bodies(m)[i])
  IN  /\ n.kind = m.kind
      /\ CASE n.kind = "Code" -> n.block # NoNode /\ n.block = m.block
           [] n.kind = "If" ->
                /\ n.block # NoNode /\ n.block = m.block
                /\ IF n.else # Null THEN IsEqual(n.else, m.else)
                   ELSE n.then # Null => IsEqual(n.then, m.then)
           [] n.kind = "Switch" ->
                /\ n.block = m.block /\ SameBodies
                /\ \A i \in DOMAIN n.cases : n.cases[i].labels = m.cases[i].labels
           [] n.kind = "Set" -> n.val = m.val
           [] OTHER -> SameBodies

---------------------------------------------------------------------------
(* What becomes of the control once a node has been executed. *)

Combined(first, second) ==
  IF first = second THEN first
  ELSE IF "FallThrough" \in {first, second} THEN "FallThrough"
  ELSE "MixedNoFallThrough"

HasDefault(n) == \E i \in DOMAIN n.cases : n.cases[i].labels = {}

RECURSIVE ScopeType(_)
ScopeType(n) ==
  LET types == [i \in DOMAIN Bodies(n) |-> ScopeType(Bodies(n)[i])]
      All == FoldLeft(Combined, types[1], types)
  IN  CASE n.kind = "Sequence" -> types[Len(types)]
        [] n.kind = "If" -> All
        [] n.kind = "Switch" /\ HasDefault(n) -> All
        [] n.kind = "Code" /\ function[n.block] = << >> ->
             IF n.block \in noreturn THEN "CallNoReturn" ELSE "Return"
        [] n.kind = "Continue" -> "Continue"
        [] n.kind = "Break" -> "LoopBreak"
        [] OTHER -> "FallThrough"

FallsThrough(n) == ScopeType(n) = "FallThrough"

(* The lines a node is worth: computeCumulativeNodeWeight.  A continue that    *)
(* computes the condition of its loop counts the block of the condition.       *)
RECURSIVE Lines(_)
Lines(n) ==
  LET below == Sum([i \in DOMAIN Bodies(n) |-> Lines(Bodies(n)[i])])
  IN  CASE n.kind = "Sequence" -> below
        [] n.kind \in {"If", "Scs", "Switch"} -> below + 1
        [] n.kind = "Code" -> weight[n.block]
        [] n.kind = "Continue" ->
             IF n.computation = << >> THEN 0 ELSE weight[n.computation[1].block] + 1
        [] n.kind \in {"Set", "SwitchBreak", "Break"} -> 1
        [] OTHER -> 0

(* The block of each condition a continue computes is known. *)
ComputationsHaveBlocks(n) ==
  \A x \in NodesIn(n) :
    Is(x, "Continue") /\ x.computation # << >> => x.computation[1].block # NoNode

---------------------------------------------------------------------------
(* The conditions of the ifs. *)

Not(e) == [op |-> "not", of |-> e]
And(e, f) == [op |-> "and", left |-> e, right |-> f]
Negated(n) == [n EXCEPT !.cond = Not(@)]

(* The atoms of a condition, in the order their blocks are emitted. *)
RECURSIVE Atoms(_)
Atoms(e) ==
  CASE e.op = "not" -> Atoms(e.of)
    [] e.op = "and" -> Atoms(e.left) \o Atoms(e.right)
    [] OTHER -> <<e>>

(* Mutant: conditions are taken to have none. *)
MutHasSideEffects(n) == FALSE

HasSideEffects(n) ==
  \E a \in Range(Atoms(n.cond)) : a.op = "atom" /\ a.block \notin pure
=============================================================================
