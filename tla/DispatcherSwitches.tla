------------------------- MODULE DispatcherSwitches -------------------------
(***************************************************************************)
(* InlineDispatcherSwitch.cpp: the switches without a condition that follow a  *)
(* loop and dispatch its exits.  Both passes walk the AST, and change at a     *)
(* dispatcher the loop it is related to: the node before it, or the one of     *)
(* the dispatcher it was woven from, before it or around it.                   *)
(***************************************************************************)
EXTENDS AstLoops
LOCAL INSTANCE SequencesExt
LOCAL INSTANCE FiniteSetsExt

IsDispatcherSwitch(n) == Is(n, "Switch") /\ n.block = NoNode
IsExitDispatcher(n) == IsDispatcherSwitch(n) /\ n.dispatches = "ExitDispatcher"
IsWovenSwitch(n) == Is(n, "Switch") /\ n.weaved

(* Where the code aborts, or looks a key up that is not there. *)
Aborted == [kind |-> "Missing"]

IsExitSet(n, v) == Is(n, "Set") /\ n.exit /\ n.val = v

(* The SetNodes of a loop for a value: those of the loops inside are theirs. *)
RECURSIVE SetsOf(_, _)
SetsOf(n, v) ==
  IF IsExitSet(n, v) THEN 1
  ELSE IF Is(n, "Scs") THEN 0
  ELSE Sum([i \in DOMAIN Bodies(n) |-> SetsOf(Bodies(n)[i], v)])

RECURSIVE WithSets(_, _, _)
WithSets(n, v, with) ==
  LET Inside(x) == WithSets(x, v, with)
  IN  IF IsExitSet(n, v) THEN with
      ELSE IF Is(n, "Scs") THEN n
      ELSE WithoutNulls(OnBodies(n, Inside))

NeedsLoopVar(n) == \E x \in NodesIn(n) : Is(x, "Set") \/ IsDispatcherSwitch(x)

---------------------------------------------------------------------------
(* What is done at a switch, once it has been done at its cases: the switch,  *)
(* or Null when no case is left, and the related loop.                         *)

Result(node, loop) == [node |-> node, loop |-> loop]
NullIfEmpty(n) == IF n.cases = << >> THEN Null ELSE n

(* simplifySwitchBreak: the cases that only break, and the SetNodes that lead  *)
(* to them, are superfluous when there is no default.                          *)
DropSwitchBreaks(n, loop) ==
  LET cases == SelectSeq(n.cases, LAMBDA c : c # Case({}, SwitchBreak))
      kept == SelectSeq(cases, LAMBDA c : c.body # SwitchBreak)
      gone == UNION {c.labels : c \in {c \in Range(cases) :
                        c.body = SwitchBreak /\ Cardinality(c.labels) = 1}}
      Without(body) == FoldLeft(LAMBDA b, v : WithSets(b, v, Null), body, InOrder(gone))
  IN  IF \E c \in Range(cases) : c.labels = {}
      THEN Result([n EXCEPT !.cases = cases], loop)
      ELSE IF ~IsExitDispatcher(n) THEN Result(NullIfEmpty([n EXCEPT !.cases = kept]), loop)
      ELSE IF \E v \in gone : SetsOf(loop.body, v) = 0 THEN Result(Aborted, loop)
      ELSE Result(NullIfEmpty([n EXCEPT !.cases = kept]), [loop EXCEPT !.body = Without(@)])

(* processNestedWeavedSwitches: a case has the labels the switch woven from it *)
(* still has, and a switch of one case is replaced by it.                      *)
WithNestedWoven(case) ==
  LET labels == UNION {c.labels : c \in Range(case.body.cases)}
  IN  IF Cardinality(case.labels) <= 1 \/ ~Is(case.body, "Switch") THEN case
      ELSE IF Len(case.body.cases) # 1 THEN [case EXCEPT !.labels = @ \cap labels]
      ELSE IF labels \subseteq case.labels THEN Case(labels, case.body.cases[1].body)
      ELSE Case(labels, Aborted)

containsSet(n) == Has(n, {"Set"})
containsContinueOrBreak(n) == Has(n, {"Scs", "Continue", "Break"})

Moves(case, loop) ==
  /\ Cardinality(case.labels) = 1
  /\ SetsOf(loop.body, TheLabel(case)) = 1
  /\ ~NeedsLoopVar(loop) \/ ~containsSet(case.body)
  /\ ~containsContinueOrBreak(case.body)

(* inlineDispatcherSwitch: a case takes the place of the SetNode that leads to *)
(* it, or goes before it when more than the case is executed for the value.    *)
MoveCases(n, loop, removes) ==
  LET cases == [i \in DOMAIN n.cases |-> WithNestedWoven(n.cases[i])]
      moved == SelectSeq(cases, LAMBDA c : Moves(c, loop))
      Set(v) == [kind |-> "Set", val |-> v, exit |-> TRUE]
      Moved(body, c) ==
        WithSets(body, TheLabel(c),
                 IF removes THEN c.body ELSE Sequence(<<c.body, Set(TheLabel(c))>>))
      broken == \E c \in Range(cases) :
                  Cardinality(c.labels) = 1
                  /\ (c.body = SwitchBreak \/ SetsOf(loop.body, TheLabel(c)) = 0)
  IN  IF ~IsExitDispatcher(n) THEN Result(NullIfEmpty(n), loop)
      ELSE IF broken THEN Result(Aborted, loop)
      ELSE Result(NullIfEmpty([n EXCEPT !.cases = SelectSeq(cases, LAMBDA c : ~Moves(c, loop))]),
                  [loop EXCEPT !.body = FoldLeft(Moved, @, moved)])

AtSwitch(pass, n, loop, removes) ==
  IF pass = "breaks" THEN DropSwitchBreaks(n, loop) ELSE MoveCases(n, loop, removes)

---------------------------------------------------------------------------
(* The walk.  woven is the number of switches, from the first of the nodes,   *)
(* that are woven from the dispatcher around the nodes, whose loop is loop;    *)
(* they are the case of that dispatcher when nothing else is in the nodes.     *)

LeadingWoven(nodes) ==
  LET others == {i \in DOMAIN nodes : ~IsWovenSwitch(nodes[i])}
  IN  IF others = {} THEN Len(nodes) ELSE Min(others) - 1

RECURSIVE InSwitch(_, _, _, _)
RECURSIVE InNode(_, _)
InNodes(pass, nodes, loop, woven) ==
  LET removes == woven = Len(nodes)
      Step(acc, n) ==
        LET i == Len(acc.nodes) + 1
            related == IF n.weaved THEN acc.seen ELSE i - 1
            outer == InSwitch(pass, n, acc.loop, removes)
            own == InSwitch(pass, n, acc.nodes[related], TRUE)
            Then(node) == [acc EXCEPT !.nodes = Append(@, node)]
        IN  IF i <= woven THEN [Then(outer.node) EXCEPT !.loop = outer.loop]
            ELSE IF ~Is(n, "Switch") THEN [Then(InNode(pass, n)) EXCEPT !.seen = 0]
            ELSE IF ~IsExitDispatcher(n) THEN Then(InNode(pass, n))
            ELSE IF related = 0 \/ ~Is(acc.nodes[related], "Scs") THEN Then(Aborted)
            ELSE [Then(own.node) EXCEPT !.nodes[related] = own.loop, !.seen = related]
      after == FoldLeft(Step, [nodes |-> << >>, seen |-> 0, loop |-> loop], nodes)
  IN  Result(Sequence(NotNull(after.nodes)), after.loop)

InSwitch(pass, n, loop, removes) ==
  LET OfCase(acc, c) ==
        LET below == CASE ~IsExitDispatcher(n) \/ Cardinality(c.labels) < 2
                            -> Result(InNode(pass, c.body), acc.loop)
                       [] IsWovenSwitch(c.body) -> InSwitch(pass, c.body, acc.loop, TRUE)
                       [] Is(c.body, "Sequence") ->
                            InNodes(pass, c.body.nodes, acc.loop, LeadingWoven(c.body.nodes))
                       [] Is(c.body, "Switch") -> Result(Aborted, acc.loop)
                       [] OTHER -> Result(InNode(pass, c.body), acc.loop)
        IN  [cases |-> Append(acc.cases, Case(c.labels, below.node)), loop |-> below.loop]
      after == FoldLeft(OfCase, [cases |-> << >>, loop |-> loop], n.cases)
  IN  AtSwitch(pass, WithoutNulls([n EXCEPT !.cases = after.cases]), after.loop, removes)

(* A node that is not related to a loop. *)
InNode(pass, n) ==
  LET Inside(x) == InNode(pass, x)
  IN  CASE Is(n, "Sequence") -> InNodes(pass, n.nodes, Null, 0).node
        [] IsExitDispatcher(n) -> Aborted
        [] Is(n, "Switch") -> InSwitch(pass, n, Null, FALSE).node
        [] OTHER -> OnBodies(n, Inside)

SimplifySwitchBreak(n) == InNode("breaks", n)
InlineDispatcherSwitch(n) == InNode("cases", n)
=============================================================================
