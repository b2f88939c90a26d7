---------------------------- MODULE AstRewriting ----------------------------
(***************************************************************************)
(* The passes of the beautification that rewrite ifs, loops and sequences:    *)
(* BeautifyGHAST.cpp and the files beside it.  A pass takes a node and         *)
(* returns the one that takes its place.                                       *)
(***************************************************************************)
EXTENDS Ghast
LOCAL INSTANCE SequencesExt
LOCAL INSTANCE FiniteSetsExt

---------------------------------------------------------------------------
(* simplifyShortCircuit.  When a branch of an if is an if, and the other      *)
(* branch is the same code as a branch of that, one if is left.               *)

Opposite(side) == IF side = "then" THEN "else" ELSE "then"

Joined(n, nested, branch, side) ==
  LET condition == IF side = "then" THEN Not(nested.cond) ELSE nested.cond
  IN  IF branch = "then"
      THEN [n EXCEPT !.then = nested[Opposite(side)], !.else = nested[side],
                     !.cond = And(@, condition)]
      ELSE [n EXCEPT !.then = nested[side], !.else = nested[Opposite(side)],
                     !.cond = And(Not(@), condition)]

(* The nested if is still looked at after a first rule has replaced it. *)
RECURSIVE SimplifyShortCircuit(_)
Nested(n, branch) ==
  LET Fires(m, nested, side) ==
        /\ nested[side] # Null
        /\ IsEqual(m[Opposite(branch)], nested[side])
        /\ ~HasSideEffects(nested)
      Joining(m, nested, side) == SimplifyShortCircuit(Joined(m, nested, branch, side))
      first == IF Fires(n, n[branch], "then") THEN Joining(n, n[branch], "then") ELSE n
      stale == IF first = n THEN n[branch] ELSE OnBodies(n[branch], SimplifyShortCircuit)
  IN  IF ~HasBoth(n) \/ ~Is(n[branch], "If") THEN n
      ELSE IF Fires(first, stale, "else") THEN Joining(first, stale, "else")
      ELSE first

SimplifyShortCircuit(n) ==
  OnBodies(IF Is(n, "If") THEN Nested(Nested(n, "then"), "else") ELSE n,
           SimplifyShortCircuit)

(* The condition of an else that is an if. *)
RECURSIVE NegatesTheLeft(_)
NegatesTheLeft(e) ==
  CASE e.op = "and" -> e.left.op = "not" \/ NegatesTheLeft(e.left) \/ NegatesTheLeft(e.right)
    [] e.op = "not" -> NegatesTheLeft(e.of)
    [] OTHER -> FALSE

RECURSIVE SimplifyTrivialShortCircuit(_)
SimplifyTrivialShortCircuit(n) ==
  LET alone == Is(n, "If") /\ n.else = Null /\ Is(n.then, "If")
      joined == SimplifyTrivialShortCircuit(
                  [n EXCEPT !.then = n.then.then, !.cond = And(@, n.then.cond)])
  IN  OnBodies(IF alone /\ n.then.else = Null /\ ~HasSideEffects(n.then) THEN joined ELSE n,
               SimplifyTrivialShortCircuit)

RECURSIVE FlipEmptyThen(_)
FlipEmptyThen(n) ==
  OnBodies(IF Is(n, "If") /\ n.then = Null
           THEN [Negated(n) EXCEPT !.then = n.else, !.else = Null] ELSE n,
           FlipEmptyThen)

(* The flip looks into the branch it moved, which must be there. *)
NoEmptyIf(n) == \A x \in NodesIn(n) : Is(x, "If") => x.then # Null \/ x.else # Null

RECURSIVE CollapseSequences(_)
CollapseSequences(n) ==
  LET m == OnBodies(n, CollapseSequences)
  IN  IF Is(n, "Sequence")
      THEN Sequence(FlattenSeq([i \in DOMAIN m.nodes |-> IF Is(m.nodes[i], "Sequence")
                                 THEN m.nodes[i].nodes ELSE <<m.nodes[i]>>]))
      ELSE m

RECURSIVE SimplifyAtomicSequence(_)
SimplifyAtomicSequence(n) ==
  LET m == OnBodies(n, SimplifyAtomicSequence)
  IN  CASE Is(n, "Sequence") /\ Len(n.nodes) = 0 -> Null
        [] Is(n, "Sequence") /\ Len(n.nodes) = 1 -> m.nodes[1]
        [] Is(n, "Switch") /\ HasDefault(n) ->
             [m EXCEPT !.cases = [i \in DOMAIN @ |->
                IF @[i].body = Null THEN Case(@[i].labels, SwitchBreak) ELSE @[i]]]
        [] Is(n, "Switch") /\ ~HasDefault(n) -> WithoutNulls(m)
        [] OTHER -> m

Canonicalize(n) == SimplifyAtomicSequence(CollapseSequences(FlipEmptyThen(n)))

---------------------------------------------------------------------------

(* Nothing follows, in a sequence, a node that does not fall through. *)
RECURSIVE RemoveDeadCode(_)
RemoveDeadCode(n) ==
  LET stops == {i \in DOMAIN n.nodes : ~FallsThrough(n.nodes[i])}
      alive == IF stops = {} THEN n ELSE Sequence(SubSeq(n.nodes, 1, Min(stops)))
  IN  OnBodies(IF Is(n, "Sequence") THEN alive ELSE n, RemoveDeadCode)

---------------------------------------------------------------------------
(* simplifyDualSwitch.  A switch of one case or two becomes an if. *)

Compare(op, b, v) == [op |-> op, block |-> b, value |-> v, how |-> "equal"]
IsCompare(e) == e.op \in {"state", "value"}

TheLabel(case) == CHOOSE v \in case.labels : TRUE

(* The case that is the then: one of a single label, the lowest. *)
ElectedCases(cases) ==
  LET single == {i \in DOMAIN cases : Cardinality(cases[i].labels) = 1}
  IN  {i \in single : \A j \in single : TheLabel(cases[i]) <= TheLabel(cases[j])}

CannotBeAnIf(n) ==
  \/ Len(n.cases) > 2
  \/ n.block # NoNode /\ Len(n.cases) = 2 /\ ~HasDefault(n)
  \/ ElectedCases(n.cases) = {}

SwitchToIf(n) ==
  LET i == CHOOSE k \in ElectedCases(n.cases) : TRUE
      Body(k) == IF k \notin DOMAIN n.cases \/ n.cases[k].body = SwitchBreak THEN Null
                 ELSE n.cases[k].body
      op == IF n.block = NoNode THEN "state" ELSE "value"
  IN  If(n.block, Compare(op, n.block, TheLabel(n.cases[i])),
         n.weaved /\ n.block # NoNode, Body(i), Body(3 - i))

RECURSIVE SimplifyDualSwitch(_)
SimplifyDualSwitch(n) ==
  LET m == OnBodies(n, SimplifyDualSwitch)
      lone == Len(m.cases) = 1 /\ HasDefault(m)
      if == SwitchToIf(m)
  IN  CASE Is(n, "Sequence") -> WithoutNulls(m)
        [] Is(n, "Switch") /\ lone -> m.cases[1].body
        [] Is(n, "Switch") /\ ~lone ->
             IF CannotBeAnIf(m) THEN m
             ELSE IF if.then = Null /\ if.else = Null THEN Null ELSE if
        [] OTHER -> m
=============================================================================
