-------------------------- MODULE DecompileFunction --------------------------
(***************************************************************************)
(* What DecompileFunction.cpp writes for an AST, and what executing that C     *)
(* does.  The code of a block is one statement; what matters of an expression  *)
(* is the block whose code computes it and what is tested.                     *)
(***************************************************************************)
EXTENDS VariableScopes
LOCAL INSTANCE SequencesExt
LOCAL INSTANCE FiniteSetsExt

Block(b, return) == [c |-> "block", block |-> b, return |-> return]
Test(e, then, else) == [c |-> "if", cond |-> e, then |-> then, else |-> else]
Flag(op, level) == [c |-> op, level |-> level]
Break == [c |-> "break"]

(* The blocks whose code is written before a condition: that of the first, and *)
(* those that do something.  Of the others, what matters happens where their   *)
(* part of the condition is evaluated.                                         *)
FirstOf(e) == Head(Atoms(e)).block
Computed(if) ==
  LET others == SelectSeq(Tail(Atoms(if.cond)), LAMBDA a : a.block \notin pure)
  IN  IF if.weaved \/ Head(Atoms(if.cond)).op = "state" THEN << >>
      ELSE <<Block(FirstOf(if.cond), FALSE)>>
           \o [i \in DOMAIN others |-> Block(others[i].block, FALSE)]

(* emitGHASTNode.  level is how many switches around have a variable of their *)
(* own for the breaks of loops.                                                *)
RECURSIVE Emitted(_, _)

EmittedIf(n, level) ==
  Append(Computed(n), Test(n.cond, Emitted(n.then, level), Emitted(n.else, level)))

(* The condition of a while is computed before it, that of a do-while at the  *)
(* end of its body.                                                            *)
EmittedLoop(n, level) ==
  LET before == IF n.loop = "while" THEN Computed(n.related[1]) ELSE << >>
      last == IF n.loop = "do while" THEN Computed(n.related[1]) ELSE << >>
  IN  Append(before, [c |-> n.loop, body |-> Emitted(n.body, level) \o last,
                      cond |-> IF n.related = << >> THEN << >> ELSE <<n.related[1].cond>>])

EmittedContinue(n) ==
  (IF n.computation = << >> THEN << >> ELSE Computed(n.computation[1]))
  \o <<[c |-> IF n.implicit THEN "nothing" ELSE "continue"]>>

EmittedSwitch(n, level) ==
  LET inner == level + (IF n.state THEN 1 ELSE 0)
  IN  (IF n.state THEN <<Flag("declare", inner)>> ELSE << >>)
      \o (IF n.block # NoNode /\ ~n.weaved THEN <<Block(n.block, FALSE)>> ELSE << >>)
      \o <<[c |-> "switch", block |-> n.block, woven |-> n.weaved,
            cases |-> [i \in DOMAIN n.cases |->
                         Case(n.cases[i].labels, Emitted(n.cases[i].body, inner))]]>>
      \o (IF n.dispatcher THEN <<Flag("test", inner)>> ELSE << >>)

Emitted(n, level) ==
  CASE Is(n, "Null") -> << >>
    [] Is(n, "Variables") -> <<[c |-> "variables", of |-> n.of]>>
    [] Is(n, "Sequence") ->
         FlattenSeq([i \in DOMAIN n.nodes |-> Emitted(n.nodes[i], level)])
    [] Is(n, "Break") -> (IF n.fromSwitch THEN <<Flag("set", level)>> ELSE << >>) \o <<Break>>
    [] Is(n, "SwitchBreak") -> <<Break>>
    [] Is(n, "Continue") -> EmittedContinue(n)
    [] Is(n, "Code") -> <<Block(n.block, ~n.implicit)>>
    [] Is(n, "If") -> EmittedIf(n, level)
    [] Is(n, "Scs") -> EmittedLoop(n, level)
    [] Is(n, "Set") -> <<[c |-> "state", value |-> n.val]>>
    [] Is(n, "Switch") -> EmittedSwitch(n, level)

---------------------------------------------------------------------------
(* A position of the C function is a record of                               *)
(*   stack       the statements that are left, with marks where loops and      *)
(*               switches end,                                                 *)
(*   at, choice  the last block and what it decided,                           *)
(*   state       the value of loop_state_var, stale when a block has been      *)
(*               executed since it was set,                                     *)
(*   flags       the variables that are true,                                  *)
(*   declared, held  the local variables, and those that hold what was written, *)
(*   doubt       what makes the way from the last block to here doubtful.      *)

Uninitialized == 99

(* What is left once the innermost loop or switch, of the kinds, is over. *)
Leaving(stack, kinds) ==
  LET marks == {i \in DOMAIN stack : stack[i].c \in kinds}
  IN  SubSeq(stack, Min(marks), Len(stack))

LoopEnd(again) == [c |-> "end of loop", again |-> again]
SwitchEnd == [c |-> "end of switch"]
Gone(why) == [c |-> "gone", why |-> why]

(* A condition once the block of its first atom has decided: another one, or  *)
(* whether it holds.                                                           *)
Known(truth) == [op |-> "known", is |-> truth]
Holds(e, p) ==
  LET labels == function[p.at][p.choice].labels
      equal == IF e.op = "state" THEN e.value = p.state ELSE e.value \in labels
  IN  CASE e.op = "atom" -> (p.choice = 1) # (e.block \in flipped)
        [] e.how = "equal" -> equal
        [] OTHER -> ~equal

RECURSIVE Decided(_, _)
Decided(e, p) ==
  LET of == Decided(e.of, p)
      left == Decided(e.left, p)
  IN  CASE e.op = "not" -> IF of.op = "known" THEN Known(~of.is) ELSE Not(of)
        [] e.op = "and" -> IF left.op # "known" THEN And(left, e.right)
                           ELSE IF left.is THEN e.right ELSE left
        [] OTHER -> Known(Holds(e, p))

Chosen(cases, labels) ==
  LET named == {i \in DOMAIN cases : labels # {} /\ labels \subseteq cases[i].labels}
      default == {i \in DOMAIN cases : cases[i].labels = {}}
      taken == IF named # {} THEN named ELSE default
  IN  IF taken = {} THEN << >> ELSE cases[Min(taken)].body

(* What makes the way from the last block doubtful is remembered once. *)
Doubting(p, isSo, why) == IF isSo /\ p.doubt = "" THEN [p EXCEPT !.doubt = why] ELSE p

(* The innermost loop around is a do-while, whose condition is next. *)
InDoWhile(stack) ==
  LET marks == {i \in DOMAIN stack : stack[i].c = "end of loop"}
  IN  marks # {} /\ stack[Min(marks)].again[1].c = "if"

Again(s) ==
  CASE s.c = "while true" -> s.body \o <<LoopEnd(<<s>>)>>
    [] s.c = "while" -> <<Test(s.cond[1], s.body \o <<LoopEnd(<<s>>)>>, << >>)>>
    [] s.c = "do while" -> s.body \o <<LoopEnd(<<Test(s.cond[1], <<s>>, << >>)>>)>>

(* Without executing a block, the position where the next one is. *)
RECURSIVE Settled(_, _)
Settled(p, fuel) ==
  LET s == Head(p.stack)
      rest == Tail(p.stack)
      Onto(q, stack) == Settled([q EXCEPT !.stack = stack], fuel - 1)
      Go(stack) == Onto(p, stack)
      Stop(why) == [p EXCEPT !.stack = <<Gone(why)>>]
      onState == IF s.c = "if" THEN Head(Atoms(s.cond)).op = "state" ELSE s.block = NoNode
      block == IF s.c = "if" THEN FirstOf(s.cond) ELSE s.block
      reading == Doubting(p, onState /\ p.stale, "a stale state")
      otherwise == Doubting(reading, s.c = "if" /\ onState /\ s.then # << >> /\ s.else # << >>,
                            "a state that is neither")
      skipping == Doubting(p, InDoWhile(rest), "a condition that is skipped")
      decided == Decided(s.cond, p)
  IN  IF fuel = 0 THEN Stop("endless")
      ELSE IF p.stack = << >> THEN Stop("end")
      ELSE CASE s.c \in {"block", "gone"} -> p
        [] s.c \in {"if", "switch"} /\ onState /\ p.state = Uninitialized ->
             Stop("an uninitialized state")
        [] s.c \in {"if", "switch"} /\ ~onState /\ p.at # block ->
             IF s.c = "if" /\ block \in pure THEN Go(<<Block(block, FALSE)>> \o p.stack)
             ELSE Stop("a condition that is not computed")
        [] s.c = "if" -> Onto(otherwise,
             (CASE decided.op # "known" ->
                     <<Block(FirstOf(decided), FALSE), [s EXCEPT !.cond = decided]>>
                [] decided.op = "known" -> IF decided.is THEN s.then ELSE s.else) \o rest)
        [] s.c = "switch" -> Onto(reading,
             Chosen(s.cases, IF onState THEN {p.state} ELSE function[p.at][p.choice].labels)
             \o <<SwitchEnd>> \o rest)
        [] s.c \in {"while true", "while", "do while"} -> Go(Again(s) \o rest)
        [] s.c = "end of loop" -> Go(s.again \o rest)
        [] s.c = "end of switch" -> Go(rest)
        [] s.c = "continue" -> Onto(skipping, Leaving(rest, {"end of loop"}))
        [] s.c = "nothing" -> Onto(skipping, rest)
        [] s.c = "break" -> Go(Tail(Leaving(rest, {"end of loop", "end of switch"})))
        [] s.c = "state" -> Onto([p EXCEPT !.state = s.value, !.stale = FALSE], rest)
        [] s.c = "variables" ->
             Onto([p EXCEPT !.declared = @ \cup s.of, !.held = @ \ s.of], rest)
        [] s.c = "declare" -> Onto([p EXCEPT !.flags = @ \ {s.level}], rest)
        [] s.c = "set" -> Onto([p EXCEPT !.flags = @ \cup {s.level}], rest)
        [] s.c = "test" -> Go((IF s.level \in p.flags THEN <<Break>> ELSE << >>) \o rest)

MaxSteps == 40
AtStart(nodes) ==
  Settled([stack |-> Emitted(WithVariables(nodes), 0), at |-> NoNode, choice |-> 0,
           state |-> Uninitialized, stale |-> TRUE, flags |-> {},
           declared |-> {}, held |-> {}, doubt |-> ""], MaxSteps)

(* The block at hand writes its variables and decides to go its k-th way.     *)
Executed(p, k) ==
  LET b == Head(p.stack).block
      written == {v \in p.declared : v[1] = b}
  IN  Settled([p EXCEPT !.stack = Tail(@), !.at = b, !.choice = k, !.stale = TRUE,
                        !.held = @ \cup written, !.doubt = ""], MaxSteps)

(* The block at hand ends the function, unless its return is not written. *)
Returned(p) ==
  IF Head(p.stack).return \/ Head(p.stack).block \in noreturn
  THEN [p EXCEPT !.stack = <<Gone("end")>>]
  ELSE Executed(p, 0)
=============================================================================
