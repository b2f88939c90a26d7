----------------------------- MODULE TypeHeader -----------------------------
(****************************************************************************)
(* The printing of the types of a model as C: CTypeBuilder's                *)
(* printTypeDefinitions for a whole header (lib/TypeNames/TypePrinters.cpp, *)
(* called by lib/HeadersGeneration/ModelToHeader.cpp), the body of a        *)
(* function with the type of its stack frame printed in it                  *)
(* (lib/Backend/DecompileFunction.cpp), a single type                       *)
(* (lib/HeadersGeneration/ModelTypeDefinitionPipe.cpp), and the header      *)
(* shown to who edits a type (lib/ImportFromC/ImportFromCAnalysis.cpp).     *)
(*                                                                          *)
(* The header is a post-order visit of the graph of dependencies from each  *)
(* of its nodes, here one step per iteration of llvm::post_order_ext. The   *)
(* definition of a struct is printed one field at a time, since a field may *)
(* hold the definition of another type.                                     *)
(****************************************************************************)
EXTENDS TypeDependencies

CONSTANTS
  Models,          \* the models to print
  Configurations,  \* the options of CTypeBuilder, and the type being edited
  MaxNesting       \* bound on the definitions printed one inside the other

NoType == 0

ASSUME HeaderAssumption ==
  /\ Models \subseteq Model
  /\ Configurations \subseteq
       [EnableTypeInlining : BOOLEAN, EnableStackFrameInlining : BOOLEAN,
        TypeToEdit : Type \cup {NoType}]
  /\ \A c \in Configurations :
       c.TypeToEdit # NoType => ~c.EnableTypeInlining /\ ~c.EnableStackFrameInlining
  /\ MaxNesting \in Nat

VARIABLES
  m,           \* the model
  conf,        \* the configuration
  pc,          \* "ready", "header", "functions", or "single type"
  inlined,     \* the types for which shouldInline holds
  TypesToOmit, \* the types that are not printed
  root,        \* the nodes of the graph that have been the root of a visit
  Defined,     \* the nodes that have been pushed on the stack of the visit
  VisitStack,  \* the stack of the visit: nodes, and how many successors are done
  bodies,      \* the definitions being printed: types, and how many fields are done
  functions,   \* the stack frames whose function is still to be printed
  out          \* what is printed: declarations, and definitions at their end

vars == <<m, conf, pc, inlined, TypesToOmit, root, Defined, VisitStack, bodies, functions, out>>

Frame == [node : TypeNode, done : Nat]
Body == [type : Type, done : Nat]

Init ==
  /\ m \in Models
  /\ conf \in Configurations
  /\ pc = "ready"
  /\ inlined = {} /\ TypesToOmit = {}
  /\ root = 0
  /\ Defined = {} /\ VisitStack = << >>
  /\ bodies = << >> /\ functions = {}
  /\ out = << >>

------------------------------------------------------------------------------
(* Mutant: the type being edited is printed as the others are.              *)
MuttypesNotToShow == {}

(* What ImportFromC sets TypesToOmit to.                                    *)
typesNotToShow ==
  IF conf.TypeToEdit = NoType THEN {} ELSE collectDependentTypes(m, conf.TypeToEdit)

shouldInline(t) ==
  /\ t \in TypesToInline(m)
  /\ IF t \in m.frames THEN conf.EnableStackFrameInlining ELSE conf.EnableTypeInlining

collectInlinableTypes == inlined' = {t \in Type : shouldInline(t)}

(* Mutant: a declaration of the type being edited, even if there is none.   *)
MutPostIncludeSnippet ==
  IF conf.TypeToEdit \in {t \in Type : isDeclarationTheSameAsDefinition(m, t)} THEN << >>
  ELSE <<Decl(conf.TypeToEdit)>>

(* What comes before the types: a declaration of the one being edited.      *)
PostIncludeSnippet ==
  IF conf.TypeToEdit = NoType THEN << >>
  ELSE IF isDeclarationTheSameAsDefinition(m, conf.TypeToEdit) THEN << >>
  ELSE <<Decl(conf.TypeToEdit)>>

printModelHeader ==
  /\ pc = "ready"
  /\ collectInlinableTypes
  /\ TypesToOmit' = typesNotToShow
  /\ out' = PostIncludeSnippet
  /\ pc' = "header"
  /\ UNCHANGED <<m, conf, root, Defined, VisitStack, bodies, functions>>

Push(stack, n) == Append(stack, [node |-> n, done |-> 0])
Open(stack, t) == Append(stack, [type |-> t, done |-> 0])
advanced(stack) == [stack EXCEPT ![Len(stack)].done = @ + 1]

moreRoots == root < NodesCount

(* The next node as root of a visit, unless a previous one has reached it.  *)
NextRoot ==
  /\ pc = "header" /\ bodies = << >> /\ VisitStack = << >> /\ moreRoots
  /\ root' = root + 1
  /\ Defined' = Defined \cup {nodes(root + 1)}
  /\ VisitStack' = IF nodes(root + 1) \in Defined THEN VisitStack
                   ELSE Push(VisitStack, nodes(root + 1))
  /\ UNCHANGED <<m, conf, pc, inlined, TypesToOmit, bodies, functions, out>>

Top == Last(VisitStack)
successorsOfTop == registerDependencies(m, Top.node)

(* Mutant: a node is printed before its successors.                         *)
MutallVisited == TRUE

allVisited == Top.done = Len(successorsOfTop)

(* traverseChild: the next successor of the node on top of the stack.       *)
VisitSuccessor ==
  /\ VisitStack # << >> /\ bodies = << >>
  /\ ~allVisited
  /\ LET n == successorsOfTop[Top.done + 1]
     IN  /\ Defined' = Defined \cup {n}
         /\ VisitStack' = IF n \in Defined THEN advanced(VisitStack)
                          ELSE Push(advanced(VisitStack), n)
  /\ UNCHANGED <<m, conf, pc, inlined, TypesToOmit, root, bodies, functions, out>>

(* Mutant: what is inlined is printed on its own as well.                   *)
MutdefinesOnItsOwn(t) == ~isDeclarationTheSameAsDefinition(m, t)

(* Mutant: the type of a stack frame is left to the body of its function,   *)
(* even when the options keep it from being inlined.                        *)
MutframesAreElsewhere(t) ==
  ~isDeclarationTheSameAsDefinition(m, t) /\ t \notin inlined /\ t \notin m.frames

definesOnItsOwn(t) == ~isDeclarationTheSameAsDefinition(m, t) /\ t \notin inlined

(* The node on top of the stack is printed, or its printing begins.         *)
PrintNode ==
  /\ VisitStack # << >> /\ bodies = << >>
  /\ allVisited
  /\ LET t == Top.node[1]
         declares == Top.node = Decl(t)
     IN  /\ out' = IF t \notin TypesToOmit /\ declares THEN Append(out, Decl(t)) ELSE out
         /\ bodies' = IF t \notin TypesToOmit /\ ~declares /\ definesOnItsOwn(t)
                      THEN Open(bodies, t) ELSE bodies
  /\ VisitStack' = Front(VisitStack)
  /\ UNCHANGED <<m, conf, pc, inlined, TypesToOmit, root, Defined, functions>>

EndHeader ==
  /\ pc = "header" /\ bodies = << >> /\ VisitStack = << >> /\ root = NodesCount
  /\ pc' = "functions"
  /\ functions' = m.frames
  /\ UNCHANGED <<m, conf, inlined, TypesToOmit, root, Defined, VisitStack, bodies, out>>

------------------------------------------------------------------------------
InnerBody == Last(bodies)
fields == m.types[InnerBody.type].edges

(* A field of a struct: the definition of its type, if that is inlined.     *)
PrintField ==
  /\ bodies # << >> /\ InnerBody.done < Len(fields)
  /\ LET t == fields[InnerBody.done + 1].to
     IN  /\ t \in inlined => Len(bodies) < MaxNesting
         /\ bodies' = IF t \in inlined THEN Open(advanced(bodies), t) ELSE advanced(bodies)
  /\ UNCHANGED <<m, conf, pc, inlined, TypesToOmit, root, Defined, VisitStack, functions, out>>

(* The closing brace.                                                       *)
EndBody ==
  /\ bodies # << >> /\ InnerBody.done = Len(fields)
  /\ out' = Append(out, Def(InnerBody.type))
  /\ bodies' = Front(bodies)
  /\ UNCHANGED <<m, conf, pc, inlined, TypesToOmit, root, Defined, VisitStack, functions>>

(* The body of a function, with the type of its stack frame in it. No two   *)
(* functions share one here.                                                *)
PrintFunctionBody ==
  /\ pc = "functions" /\ bodies = << >>
  /\ \E t \in functions :
       /\ functions' = functions \ {t}
       /\ bodies' = IF t \in inlined THEN Open(bodies, t) ELSE bodies
  /\ UNCHANGED <<m, conf, pc, inlined, TypesToOmit, root, Defined, VisitStack, out>>

(* GenerateModelTypeDefinition, on one type: with the default options,      *)
(* which inline.                                                            *)
PrintSingleType ==
  /\ pc = "ready"
  /\ conf.EnableTypeInlining /\ conf.EnableStackFrameInlining /\ conf.TypeToEdit = NoType
  /\ collectInlinableTypes
  /\ \E t \in Type :
       IF isDeclarationTheSameAsDefinition(m, t)
       THEN out' = <<Decl(t)>> /\ bodies' = bodies
       ELSE bodies' = Open(bodies, t) /\ out' = out
  /\ pc' = "single type"
  /\ UNCHANGED <<m, conf, TypesToOmit, root, Defined, VisitStack, functions>>

Next ==
  \/ printModelHeader \/ NextRoot \/ VisitSuccessor \/ PrintNode \/ EndHeader
  \/ PrintField \/ EndBody
  \/ PrintFunctionBody \/ PrintSingleType

Spec == Init /\ [][Next]_vars

------------------------------------------------------------------------------
TypeOK ==
  /\ m \in Model /\ conf \in Configurations
  /\ pc \in {"ready", "header", "functions", "single type"}
  /\ inlined \in SUBSET Type /\ TypesToOmit \in SUBSET Type
  /\ root \in 0..NodesCount
  /\ Defined \in SUBSET TypeNode
  /\ VisitStack \in Seq(Frame)
  /\ \A i \in DOMAIN VisitStack :
       VisitStack[i].done <= Len(registerDependencies(m, VisitStack[i].node))
  /\ bodies \in Seq(Body)
  /\ \A i \in DOMAIN bodies : bodies[i].done <= Len(m.types[bodies[i].type].edges)
  /\ functions \in SUBSET Type
  /\ out \in Seq(TypeNode)

onStack == {VisitStack[i].node : i \in DOMAIN VisitStack}
Finished == Defined \ onStack

(* The visit leaves a node only after all the nodes it depends on, from     *)
(* whatever roots it starts, if the dependencies have no cycles: what the   *)
(* doc of printTypeDefinitions relies on to promise a valid order.          *)
DependenciesFirst ==
  (\E n \in Finished : ~(Successors(m, n) \subseteq Finished)) => ~Acyclic(m)

(* The header leaves nothing out: every type has its declaration in it, and *)
(* every struct its definition unless it is printed elsewhere, whatever     *)
(* cycles the dependencies have.                                            *)
HeaderIsComplete ==
  pc = "functions" => \A t \in Type \ TypesToOmit :
    /\ Decl(t) \in ToSet(out)
    /\ isDeclarationTheSameAsDefinition(m, t) \/ t \in inlined \/ Def(t) \in ToSet(out)

------------------------------------------------------------------------------
(* No type is printed inside itself, so that its printing ends, and the     *)
(* types used once "are printed inside the parent type definition instead of *)
(* separately" (PTMLCTypeBuilder.h:27).                                     *)
InliningEnds ==
  \A i, j \in DOMAIN bodies : bodies[i].type = bodies[j].type => i = j

(* No declaration, and no definition of a struct, is printed twice: C has   *)
(* no use for a second definition. The declaration of the type being edited *)
(* comes from PostIncludeSnippet, and not from the visit. A single type may *)
(* be printed inside itself without end, and what is in it again and again. *)
NothingIsPrintedTwice ==
  pc # "single type" \/ InliningEnds => \A i, j \in DOMAIN out : out[i] = out[j] => i = j

(* t is only used by types that are only used by one another, or only by    *)
(* itself as the type of an array, whose definition is asked for even when  *)
(* it is an array of pointers.                                              *)
isInlinedInACircle(t) ==
  \E S \in SUBSET inlined :
    /\ t \in S /\ \A x \in S : users(m, x) # {} /\ users(m, x) \subseteq S
    /\ S # {t} \/ Def(t) \in Successors(m, Def(t))

allPrinted == pc = "functions" /\ bodies = << >> /\ functions = {}

(* In the end every type has been declared, and every struct defined, on    *)
(* its own, inside another or in a function, but for types inlined in a     *)
(* circle.                                                                  *)
EveryTypeIsDefined ==
  allPrinted => \A t \in Type \ TypesToOmit :
    /\ Decl(t) \in ToSet(out)
    /\ isDeclarationTheSameAsDefinition(m, t) \/ isInlinedInACircle(t) \/ Def(t) \in ToSet(out)
=============================================================================
