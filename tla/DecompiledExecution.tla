------------------------- MODULE DecompiledExecution -------------------------
(***************************************************************************)
(* What the stages after the restructuring promise: executing the AST that is  *)
(* generated, and the C that is written for it, executes the same blocks as    *)
(* the function.                                                              *)
(***************************************************************************)
EXTENDS DecompileFunction, RestructuredExecution
LOCAL INSTANCE SequencesExt
LOCAL INSTANCE FiniteSetsExt

---------------------------------------------------------------------------
(* Executing the AST that is generated.  A position is the stack of what is   *)
(* still to execute: the nodes of the AST, and a mark where the body of a      *)
(* loop or of a switch ends.                                                  *)

EndOfLoop(body) == [kind |-> "EndOfLoop", body |-> body]
EndOfSwitch == [kind |-> "EndOfSwitch"]

(* What is left once the innermost loop, or switch, is over. *)
From(stack, kind) ==
  LET marks == {i \in DOMAIN stack : stack[i].kind = kind}
  IN  IF marks = {} THEN << >> ELSE SubSeq(stack, Min(marks), Len(stack))

(* The case a switch of the AST executes: nothing when none is for the value. *)
CaseOf(cases, labels) ==
  LET named == {i \in DOMAIN cases : labels # {} /\ labels \subseteq cases[i].labels}
      default == {i \in DOMAIN cases : cases[i].labels = {}}
      taken == IF named # {} THEN named ELSE default
  IN  IF taken = {} THEN NoAst ELSE cases[Min(taken)].body

LostAt(why) == [stack |-> <<[kind |-> why, block |-> NoNode]>>, value |-> Unset]
IsBlock(n) == /\ n.kind \in {"Code", "If", "Switch"}
              /\ n.block # NoNode
              /\ n.kind = "Code" \/ ~n.weaved

RECURSIVE SettleAst(_, _, _, _)
SettleAst(stack, value, choice, fuel) ==
  LET n == Head(stack)
      rest == Tail(stack)
      Go(s) == SettleAst(s, value, choice, fuel - 1)
      Enter(labels) == Go(CaseOf(n.cases, labels) \o <<EndOfSwitch>> \o rest)
  IN  CASE fuel = 0 -> LostAt("endless")
        [] stack = << >> -> LostAt("end")
        [] IsBlock(n) -> [stack |-> stack, value |-> value]
        [] n = Dummy -> Go(rest)
        [] n.kind = "Switch" /\ n.block = NoNode -> Enter({value})
        [] n.kind = "Switch" /\ n.weaved ->
             IF choice[1] # n.block THEN LostAt("a choice nobody made")
             ELSE Enter(function[n.block][choice[2]].labels)
        [] n.kind = "If" /\ n.weaved -> LostAt("a woven if")
        [] n.kind = "Scs" -> Go(n.body \o <<EndOfLoop(n.body)>> \o rest)
        [] n.kind = "EndOfLoop" -> Go(n.body \o stack)
        [] n.kind = "EndOfSwitch" -> Go(rest)
        [] n.kind = "Continue" -> Go(From(rest, "EndOfLoop"))
        [] n.kind = "Break" -> Go(Tail(From(rest, "EndOfLoop")))
        [] n.kind = "SwitchBreak" -> Go(Tail(From(rest, "EndOfSwitch")))
        [] n.kind = "Set" -> SettleAst(rest, n.val, choice, fuel - 1)
        [] n.kind = "Missing" -> LostAt("missing")

FollowAst(p, k) ==
  LET n == Head(p.stack)
      rest == Tail(p.stack)
      after == CASE n.kind = "Code" -> IF Len(function[n.block]) = 1 THEN rest ELSE << >>
                 [] n.kind = "If" -> (IF k = 1 THEN n.then ELSE n.else) \o rest
                 [] n.kind = "Switch" ->
                      CaseOf(n.cases, function[n.block][k].labels) \o <<EndOfSwitch>> \o rest
  IN  SettleAst(after, p.value, <<n.block, k>>, Fuel)

BlockAt(p) == Head(p.stack).block

RECURSIVE ExploreAst(_, _)
ExploreAst(seen, frontier) ==
  LET Steps(p) == {<<k, FollowAst(p, k)>> : k \in DOMAIN function[BlockAt(p)]}
      next == UNION {{s[2] : s \in Steps(p)} : p \in frontier} \ seen
  IN  /\ \A p \in frontier : \A s \in Steps(p) :
           BlockAt(s[2]) = function[BlockAt(p)][s[1]].to
      /\ next = {} \/ ExploreAst(seen \cup next, next)

ExecutesTheFunction(nodes) ==
  LET first == SettleAst(nodes, Unset, NoChoice, Fuel)
  IN  BlockAt(first) = 1 /\ ExploreAst({first}, {first})

(* Executing the AST of the function visits the blocks the function does,     *)
(* in the same order, whatever the blocks decide: falling off a branch, a     *)
(* case or the body of a loop leads where the edge that was inlined, cut or   *)
(* moved to a tile led.                                                        *)
AstIsTheFunction == phase = "ast" => ExecutesTheFunction(ast)

---------------------------------------------------------------------------
(* Executing the C.                                                           *)

At(p) == Head(p.stack)
Left(p) == IF At(p).c = "gone" THEN At(p).why ELSE ""
IsAt(p, b) == At(p).c = "block" /\ At(p).block = b

(* Where a position leads, with where it should. *)
After(p) ==
  LET b == At(p).block
  IN  IF function[b] = << >> THEN {<<Returned(p), NoNode>>}
      ELSE {<<Executed(p, k), function[b][k].to>> : k \in DOMAIN function[b]}

Agrees(s) == IF s[2] = NoNode THEN Left(s[1]) = "end" ELSE IsAt(s[1], s[2])

(* The block at hand reads a variable that is not declared, or was declared    *)
(* again since it was written.                                                 *)
ReadsWhatIsLost(p) == \E v \in LocalVariables : v[2] = At(p).block /\ v \notin p.held

(* How it goes elsewhere. *)
Fault(p, s) ==
  CASE s[2] = NoNode -> "a return that is left out"
    [] s[1].doubt # "" -> s[1].doubt
    [] Left(s[1]) # "" -> Left(s[1])
    [] OTHER -> "another block"

RECURSIVE FaultsFrom(_, _)
FaultsFrom(seen, frontier) ==
  LET steps == [p \in frontier |-> After(p)]
      faults == UNION {{Fault(p, s) : s \in {s \in steps[p] : ~Agrees(s)}} : p \in frontier}
      lost == IF \E p \in frontier : ReadsWhatIsLost(p) THEN {"a value that is lost"} ELSE {}
      next == UNION {{s[1] : s \in {s \in steps[p] : Agrees(s) /\ s[2] # NoNode}} : p \in frontier}
              \ seen
  IN  faults \cup lost
      \cup IF next = {} THEN {} ELSE FaultsFrom(seen \cup next, next)

Faults ==
  LET first == AtStart(tree)
  IN  IF IsAt(first, 1) THEN FaultsFrom({first}, {first}) ELSE {"another beginning"}

(* The ways in which the code is known to go wrong, each in a pass of the     *)
(* beautification that looks at one switch, loop or if at a time.              *)
KnownFaults ==
  {"a return that is left out", "a condition that is skipped", "a state that is neither",
   "an uninitialized state", "a stale state", "a value that is lost"}

(* Executing the C code visits the blocks the function does, in the same      *)
(* order: whatever is promoted, moved into a loop or left out as implicit, no  *)
(* block is executed that should not be, no condition is used that was not     *)
(* computed, and no break or continue acts on another loop or switch.          *)
CodeIsTheFunction == Beautified /\ ~inverted => Faults \subseteq KnownFaults

(* A value is read where the variable that holds it is the one it was written  *)
(* to: no use is outside of the scope of the declaration, and no iteration      *)
(* declares again what a later block of it reads.  A loop that is entered at    *)
(* several blocks does: what the first iteration wrote is declared within it.   *)
ValuesAreKept ==
  Beautified /\ ~inverted /\ LoopsHaveOneEntry => "a value that is lost" \notin Faults

(* No assertion fails from the restructuring to the beautification, but for   *)
(* three that functions with several entries to a loop violate: the others    *)
(* hold on all that the passes before leave, whatever the order of the         *)
(* regions, of their entries and of their exits.                               *)
NoOtherAssertionFails ==
  failed \in {"", "an entry has no shortest path",
              "the entry of the region has predecessors", "no backedge"}

(* "Perform the simplification of the implicit `return`, i.e., a `return` of  *)
(* type `void`, which lies on a path followed by no other statements"          *)
(* (BeautifyGHAST.cpp:1092): a return that is left out is where the function   *)
(* ends without it.                                                            *)
ReturnsLeftOutAreLast == Beautified => "a return that is left out" \notin Faults

(* An if whose branches are joined is the nested ones: "`if not A and not B`"  *)
(* (BeautifyGHAST.cpp:243).                                                    *)
JoinedIfsAreTheNested == Beautified /\ inverted => "another block" \notin Faults
=============================================================================
