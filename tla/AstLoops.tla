------------------------------ MODULE AstLoops ------------------------------
(***************************************************************************)
(* The passes of the beautification that give loops their condition, choose   *)
(* what follows an if rather than be in it, and leave out the statements the   *)
(* layout of the code makes superfluous.                                       *)
(***************************************************************************)
EXTENDS AstRewriting
LOCAL INSTANCE SequencesExt
LOCAL INSTANCE FiniteSetsExt

(* The if a loop has its condition from is no longer in the body. *)
Related(n) == <<[n EXCEPT !.then = Null, !.else = Null]>>
StaysIf(n, side) == IF side = "then" THEN n ELSE Negated(n)

BodyNodes(body) == IF Is(body, "Sequence") THEN body.nodes ELSE <<body>>
BodyOf(body, nodes) == IF Is(body, "Sequence") THEN Sequence(nodes)
                       ELSE IF nodes = << >> THEN Null ELSE nodes[1]

RECURSIVE MatchDoWhile(_)
MatchDoWhile(n) ==
  LET m == OnBodies(n, MatchDoWhile)
      last == Last(BodyNodes(m.body))
      matches == Is(last, "If") /\ {last.then.kind, last.else.kind} = {"Break", "Continue"}
      stays == IF last.then.kind = "Continue" THEN "then" ELSE "else"
  IN  IF Is(n, "Scs") /\ m.body # Null /\ matches
      THEN [m EXCEPT !.loop = "do while", !.related = Related(StaysIf(last, stays)),
                     !.body = BodyOf(@, Front(BodyNodes(@)))]
      ELSE m

RECURSIVE AddComputationToContinue(_, _)
AddComputationToContinue(n, related) ==
  LET Inside(x) == AddComputationToContinue(x, related)
  IN  CASE Is(n, "Continue") -> [n EXCEPT !.computation = related]
        [] Is(n, "Scs") -> n
        [] OTHER -> OnBodies(n, Inside)

RECURSIVE MatchWhile(_)
MatchWhile(n) ==
  LET m == OnBodies(n, MatchWhile)
      first == Head(BodyNodes(m.body))
      matches == Is(first, "If") /\ "Break" \in {first.then.kind, first.else.kind}
      stays == IF first.else.kind = "Break" THEN "then" ELSE "else"
      related == Related(StaysIf(first, stays))
      inside == NotNull(<<first[stays]>>) \o Tail(BodyNodes(m.body))
  IN  IF Is(n, "Scs") /\ n.loop # "do while" /\ m.body # Null /\ matches
      THEN [m EXCEPT !.loop = "while", !.related = related,
                     !.body = AddComputationToContinue(BodyOf(@, inside), related)]
      ELSE m

(* A while has a body: the pass looks for the continues in it. *)
WhilesHaveABody(n) == \A x \in NodesIn(n) : Is(x, "Scs") /\ x.loop # "do while" => x.body # Null

---------------------------------------------------------------------------
(* promoteNoFallthroughIf.  When a branch does not fall through, the other    *)
(* can follow the if: the longest, when neither does.                          *)

Promoted(n) ==
  CASE ~HasBoth(n) -> "none"
    [] ~FallsThrough(n.then) /\ ~FallsThrough(n.else) ->
         IF Lines(n.then) >= Lines(n.else) THEN "then" ELSE "else"
    [] ~FallsThrough(n.then) -> "else"
    [] ~FallsThrough(n.else) -> "then"
    [] OTHER -> "none"

RECURSIVE PromoteNoFallthrough(_)
PromoteNoFallthrough(n) ==
  LET m == OnBodies(n, PromoteNoFallthrough)
      side == Promoted(n)
  IN  IF ~Is(n, "If") \/ side = "none" THEN m
      ELSE Sequence(<<[m EXCEPT ![side] = Null], m[side]>>)

PromoteNoFallthroughIf(n) == CollapseSequences(PromoteNoFallthrough(n))

(* promoteCallNoReturn.  A call that does not return becomes the branch of an *)
(* if, rather than the end of its sequence.                                    *)
IsPreferredAsFallThrough(type) == type \in {"Return", "Continue", "LoopBreak"}

RECURSIVE PromoteCallNoReturnImpl(_)
PromoteCallNoReturnImpl(n) ==
  LET m == OnBodies(n, PromoteCallNoReturnImpl)
      size == Len(n.nodes)
      ifs == {i \in 1..size - 1 :
                /\ Is(n.nodes[i], "If") /\ n.nodes[i].else = Null
                /\ IsPreferredAsFallThrough(ScopeType(n.nodes[i].then))}
      i == Max(ifs)
      guarded == [m.nodes[i] EXCEPT !.then = Null,
                                    !.else = Sequence(SubSeq(m.nodes, i + 1, size))]
  IN  IF /\ Is(n, "Sequence") /\ size > 1
         /\ ScopeType(n.nodes[size]) = "CallNoReturn" /\ ifs # {}
      THEN Sequence(SubSeq(m.nodes, 1, i - 1) \o <<guarded, m.nodes[i].then>>)
      ELSE m

PromoteCallNoReturn(n) == Canonicalize(PromoteCallNoReturnImpl(n))

---------------------------------------------------------------------------
(* simplifyHybridNot.  The comparison of a block is inverted, with all the    *)
(* conditions that use it, when that leaves fewer negations.                   *)

RECURSIVE Uses(_, _, _)
Uses(e, b, negated) ==
  CASE e.op = "atom" -> IF e.block = b /\ ~negated THEN 1 ELSE 0
    [] e.op = "not" ->
         IF e.of.op = "atom" THEN IF e.of.block = b /\ negated THEN 1 ELSE 0
         ELSE Uses(e.of, b, negated)
    [] e.op = "and" -> Uses(e.left, b, negated) + Uses(e.right, b, negated)
    [] OTHER -> 0

RECURSIVE UsesIn(_, _, _)
UsesIn(n, b, negated) ==
  LET own == CASE Is(n, "If") -> Uses(n.cond, b, negated)
               [] Is(n, "Scs") /\ n.related # << >> -> Uses(n.related[1].cond, b, negated)
               [] OTHER -> 0
  IN  own + Sum([i \in DOMAIN Bodies(n) |-> UsesIn(Bodies(n)[i], b, negated)])

ConsensusBlocks(n) ==
  {b \in DOMAIN function :
     LET direct == UsesIn(n, b, FALSE)
         negated == UsesIn(n, b, TRUE)
     IN  /\ direct + negated > 0
         /\ \/ comparison[b] \in {"NE", "boolean_not"} /\ negated >= direct
            \/ comparison[b] = "EQ" /\ negated > direct}

RECURSIVE FlipAssociated(_, _)
FlipAssociated(e, blocks) ==
  CASE e.op = "atom" -> IF e.block \in blocks THEN Not(e) ELSE e
    [] e.op = "not" /\ e.of.op = "atom" -> IF e.of.block \in blocks THEN e.of ELSE e
    [] e.op = "not" /\ e.of.op # "atom" -> Not(FlipAssociated(e.of, blocks))
    [] e.op = "and" -> And(FlipAssociated(e.left, blocks), FlipAssociated(e.right, blocks))
    [] OTHER -> e

(* A continue shares the condition of its loop. *)
RECURSIVE FlipConditions(_, _)
FlipConditions(n, blocks) ==
  LET Inside(x) == FlipConditions(x, blocks)
      Flipped(related) ==
        [i \in DOMAIN related |-> [related[i] EXCEPT !.cond = FlipAssociated(@, blocks)]]
      m == OnBodies(n, Inside)
  IN  CASE Is(n, "If") -> [m EXCEPT !.cond = FlipAssociated(@, blocks)]
        [] Is(n, "Scs") -> [m EXCEPT !.related = Flipped(@)]
        [] Is(n, "Continue") -> [m EXCEPT !.computation = Flipped(@)]
        [] OTHER -> m

(* simplifyCompareNode *)
Flip(e) ==
  CASE e.how = "equal" -> [e EXCEPT !.how = "different"]
    [] e.how = "different" -> [e EXCEPT !.how = "equal"]
    [] e.how = "not present" -> [e EXCEPT !.how = "equal", !.value = 0]

SimplifiedCompare(e) ==
  LET c == IF e.op = "not" /\ IsCompare(e.of) THEN Flip(e.of) ELSE e
  IN  IF ~IsCompare(c) \/ c.value # 0 THEN c
      ELSE CASE c.how = "equal" -> Not([c EXCEPT !.how = "not present"])
             [] c.how = "different" -> [c EXCEPT !.how = "not present"]
             [] OTHER -> c

RECURSIVE SimplifyCompareNode(_)
SimplifyCompareNode(n) ==
  LET m == OnBodies(n, SimplifyCompareNode)
  IN  IF Is(n, "If") THEN [m EXCEPT !.cond = SimplifiedCompare(@)] ELSE m

---------------------------------------------------------------------------
(* simplifyImplicitContinue and simplifyImplicitReturn.  What is before a     *)
(* node is looked at only if nothing is to be emitted for the node: empty.     *)

Visited(n, empty) == [node |-> n, empty |-> empty]
ReturnsVoid(n) == isVoid /\ function[n.block] = << >> /\ n.block \notin noreturn

RECURSIVE Implicit(_, _, _)
Implicit(n, empty, statement) ==
  LET Look(x, after) == IF x = Null THEN Visited(x, TRUE) ELSE Implicit(x, after, statement)
      (* The nodes from the last to the first, as long as they are empty. *)
      Back(acc, x) ==
        LET v == Look(x, acc.empty)
        IN  IF acc.empty THEN [nodes |-> <<v.node>> \o acc.nodes, empty |-> v.empty]
            ELSE [acc EXCEPT !.nodes = <<x>> \o @]
      (* The cases in order, as long as they are empty. *)
      Forth(acc, x) ==
        LET v == Look(x, empty)
        IN  IF acc.empty THEN [nodes |-> Append(acc.nodes, v.node), empty |-> v.empty]
            ELSE [acc EXCEPT !.nodes = Append(@, x)]
      last == FoldRight(LAMBDA x, acc : Back(acc, x), Bodies(n), [nodes |-> << >>, empty |-> empty])
      cases == FoldLeft(Forth, [nodes |-> << >>, empty |-> TRUE], Bodies(n))
      both == [i \in 1..2 |-> Look(Bodies(n)[i], empty)]
  IN  CASE Is(n, "Sequence") -> Visited(WithBodies(n, last.nodes), last.empty)
        [] Is(n, "Scs") ->
             IF n.body = Null THEN Visited(n, FALSE)
             ELSE Visited([n EXCEPT !.body = Look(@, empty).node], Look(n.body, empty).empty)
        [] Is(n, "If") -> Visited(WithBodies(n, <<both[1].node, both[2].node>>),
                                  both[1].empty /\ both[2].empty)
        [] Is(n, "Switch") -> Visited(WithBodies(n, cases.nodes), cases.empty)
        [] Is(n, "Continue") /\ statement = "continue" ->
             Visited([n EXCEPT !.implicit = @ \/ empty], empty)
        [] Is(n, "Code") /\ statement = "return" /\ ReturnsVoid(n) ->
             Visited([n EXCEPT !.implicit = @ \/ empty], empty)
        [] OTHER -> Visited(n, FALSE)

RECURSIVE SimplifyImplicitContinue(_)
SimplifyImplicitContinue(n) ==
  LET m == OnBodies(n, SimplifyImplicitContinue)
  IN  IF Is(n, "Scs") /\ n.body # Null
      THEN [m EXCEPT !.body = Implicit(@, TRUE, "continue").node] ELSE m

SimplifyImplicitReturn(n) == Implicit(n, TRUE, "return").node

---------------------------------------------------------------------------
(* SwitchBreaksFixer.  A break of a loop from within a switch sets a variable, *)
(* which the outermost switch declares and each switch tests once it is over.  *)

RECURSIVE BreaksOut(_)
BreaksOut(n) ==
  \/ Is(n, "Break")
  \/ ~Is(n, "Scs") /\ \E x \in Range(Bodies(n)) : BreaksOut(x)

RECURSIVE FixSwitchBreaks(_, _)
FixSwitchBreaks(n, within) ==
  LET inside == CASE Is(n, "Scs") -> "loop"
                  [] Is(n, "Switch") /\ within = "loop" -> "switch"
                  [] OTHER -> within
      Inside(x) == FixSwitchBreaks(x, inside)
      m == OnBodies(n, Inside)
      leaves == within # "nothing" /\ BreaksOut(n)
  IN  CASE Is(n, "Break") -> [n EXCEPT !.fromSwitch = (within = "switch")]
        [] Is(n, "Switch") -> [m EXCEPT !.dispatcher = leaves,
                                        !.state = leaves /\ within = "loop"]
        [] OTHER -> m

(* A break is in a loop, and a break of a switch is in a switch. *)
RECURSIVE BreaksAreInside(_, _)
BreaksAreInside(n, within) ==
  LET inside == CASE Is(n, "Scs") -> "loop"
                  [] Is(n, "Switch") /\ within = "loop" -> "switch"
                  [] OTHER -> within
  IN  CASE Is(n, "Break") -> within # "nothing"
        [] Is(n, "SwitchBreak") -> within # "loop"
        [] OTHER -> \A x \in Range(Bodies(n)) : BreaksAreInside(x, inside)
=============================================================================
