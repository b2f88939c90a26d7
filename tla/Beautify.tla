------------------------------ MODULE Beautify ------------------------------
(***************************************************************************)
(* beautifyAST, BeautifyGHAST.cpp: the passes over the AST of a function, one  *)
(* after the other.  What the passes read of the code of the blocks is chosen  *)
(* when they begin.                                                           *)
(***************************************************************************)
EXTENDS DispatcherSwitches
LOCAL INSTANCE SequencesExt
LOCAL INSTANCE FiniteSetsExt

CONSTANTS
  Codes(_)            \* what the blocks of a function may be: records of pure,
                      \* comparison and isVoid

VARIABLES
  tree,               \* the AST
  step,               \* the pass that is next
  flipped,            \* the blocks whose comparison is inverted
  inverted            \* a condition was negated that should not have been

codeVars == <<pure, comparison, isVoid>>
beautyVars == <<genVars, codeVars, tree, step, flipped, inverted>>

Order ==
  <<"simplifyShortCircuit", "flipEmptyThen", "simplifyTrivialShortCircuit",
    "flipEmptyThen", "simplifySwitchBreak", "inlineDispatcherSwitch",
    "removeDeadCode", "simplifyDualSwitch", "simplifyAtomicSequence",
    "matchDoWhile", "matchWhile", "promoteNoFallthroughIf", "flipEmptyThen",
    "promoteCallNoReturn", "simplifyHybridNot", "simplifyCompareNode",
    "simplifyImplicitContinue", "simplifyImplicitReturn", "fixSwitchBreaks">>

BeautyInit ==
  /\ GenInit
  /\ pure = {} /\ comparison = << >> /\ isVoid = FALSE
  /\ tree = Null /\ step = 0 /\ flipped = {} /\ inverted = FALSE

Generate == GenNext /\ UNCHANGED <<codeVars, tree, step, flipped, inverted>>

genVarsOfTheAst ==
  <<function, root, backedges, regions, parent, worklist, rpot, depth, graphs, fresh,
    cur, failed, noreturn, weight, combed, passes, asts, ast>>
genVarsButFailed ==
  <<function, root, backedges, regions, parent, worklist, rpot, depth, graphs, fresh,
    cur, phase, noreturn, weight, combed, passes, asts, ast>>

Begin ==
  /\ phase = "ast"
  /\ \E code \in Codes(function) :
       /\ pure' = code.pure /\ comparison' = code.comparison /\ isVoid' = code.isVoid
  /\ tree' = AsNode(ast)
  /\ step' = 1
  /\ phase' = "beautify"
  /\ UNCHANGED <<genVarsOfTheAst, flipped, inverted>>

Now(pass) == step \in DOMAIN Order /\ Order[step] = pass /\ failed = ""

(* The pass leaves the tree, unless an assertion fails in it. *)
Leaves(after, holds, why) ==
  /\ tree' = after
  /\ step' = step + 1
  /\ failed' = IF holds THEN "" ELSE why
  /\ UNCHANGED <<genVarsButFailed, codeVars>>

Only(after, holds, why) == Leaves(after, holds, why) /\ UNCHANGED <<flipped, inverted>>

NothingAborted(n) == ~Has(n, {"Missing"})

SimplifyShortCircuits ==
  /\ Now("simplifyShortCircuit")
  /\ \E after \in {SimplifyShortCircuit(tree)} :
       /\ Leaves(after, TRUE, "")
       /\ inverted' = \E n \in NodesIn(after) : Is(n, "If") /\ NegatesTheLeft(n.cond)
  /\ UNCHANGED flipped

FlipEmptyThens ==
  /\ Now("flipEmptyThen")
  /\ Only(FlipEmptyThen(tree), NoEmptyIf(tree), "an if without branches")

SimplifyTrivialShortCircuits ==
  /\ Now("simplifyTrivialShortCircuit")
  /\ Only(SimplifyTrivialShortCircuit(tree), TRUE, "")

SimplifySwitchBreaks ==
  /\ Now("simplifySwitchBreak")
  /\ \E after \in {SimplifySwitchBreak(tree)} :
       Only(after, NothingAborted(after), "a dispatcher without its loop")

InlineDispatcherSwitches ==
  /\ Now("inlineDispatcherSwitch")
  /\ \E after \in {InlineDispatcherSwitch(tree)} :
       Only(after, NothingAborted(after), "a dispatcher without its loop")

RemoveDeadCodes == Now("removeDeadCode") /\ Only(RemoveDeadCode(tree), TRUE, "")

SimplifyDualSwitches ==
  Now("simplifyDualSwitch") /\ Only(SimplifyDualSwitch(tree), TRUE, "")

SimplifyAtomicSequences ==
  Now("simplifyAtomicSequence") /\ Only(SimplifyAtomicSequence(tree), TRUE, "")

MatchDoWhiles == Now("matchDoWhile") /\ Only(MatchDoWhile(tree), TRUE, "")

MatchWhiles ==
  /\ Now("matchWhile")
  /\ \E after \in {MatchWhile(tree)} :
       Only(after, WhilesHaveABody(after), "a while without a body")

PromoteNoFallthroughIfs ==
  /\ Now("promoteNoFallthroughIf")
  /\ Only(PromoteNoFallthroughIf(tree), ComputationsHaveBlocks(tree),
          "a continue that computes no block")

PromoteCallNoReturns ==
  /\ Now("promoteCallNoReturn")
  /\ \E after \in {PromoteCallNoReturnImpl(tree)} :
       Only(Canonicalize(after), NoEmptyIf(after), "an if without branches")

SimplifyHybridNots ==
  /\ Now("simplifyHybridNot")
  /\ \E blocks \in {ConsensusBlocks(tree)} :
       /\ Leaves(FlipConditions(tree, blocks), TRUE, "")
       /\ flipped' = blocks
  /\ UNCHANGED inverted

SimplifyCompareNodes ==
  Now("simplifyCompareNode") /\ Only(SimplifyCompareNode(tree), TRUE, "")

SimplifyImplicitContinues ==
  Now("simplifyImplicitContinue") /\ Only(SimplifyImplicitContinue(tree), TRUE, "")

SimplifyImplicitReturns ==
  Now("simplifyImplicitReturn") /\ Only(SimplifyImplicitReturn(tree), TRUE, "")

FixBreaksOfSwitches ==
  /\ Now("fixSwitchBreaks")
  /\ Only(FixSwitchBreaks(tree, "nothing"), BreaksAreInside(tree, "nothing"),
          "a break that is not inside")

BeautyNext ==
  \/ Generate \/ Begin
  \/ SimplifyShortCircuits \/ FlipEmptyThens \/ SimplifyTrivialShortCircuits
  \/ SimplifySwitchBreaks \/ InlineDispatcherSwitches
  \/ RemoveDeadCodes \/ SimplifyDualSwitches \/ SimplifyAtomicSequences
  \/ MatchDoWhiles \/ MatchWhiles
  \/ PromoteNoFallthroughIfs \/ PromoteCallNoReturns
  \/ SimplifyHybridNots \/ SimplifyCompareNodes
  \/ SimplifyImplicitContinues \/ SimplifyImplicitReturns \/ FixBreaksOfSwitches

BeautySpec == BeautyInit /\ [][BeautyNext]_beautyVars /\ WF_beautyVars(BeautyNext)

Beautified == step = Len(Order) + 1 /\ failed = ""
=============================================================================
