-------------------------- MODULE TypeHeaderProofs --------------------------
(****************************************************************************)
(* Proofs about TypeHeader, for every set of models of any number of types: *)
(* the visit leaves a type after those it depends on, if their dependencies *)
(* have no cycles, and the header is complete, defines each type and prints *)
(* nothing twice, whatever they are.                                        *)
(****************************************************************************)
EXTENDS TypeHeader, SequenceTheorems, FiniteSetTheorems, TLAPS

------------------------------------------------------------------------------
(* Front and Append on the two stacks.                                      *)
LEMMA FrontFacts ==
  ASSUME NEW S, NEW s \in Seq(S), s # << >>
  PROVE  /\ Front(s) \in Seq(S) /\ Len(Front(s)) = Len(s) - 1
         /\ \A i \in DOMAIN Front(s) : i \in DOMAIN s /\ Front(s)[i] = s[i]
         /\ \A i \in DOMAIN s : i # Len(s) => i \in DOMAIN Front(s)
         /\ Last(s) \in S /\ Len(s) \in DOMAIN s /\ Last(s) = s[Len(s)]
<1>1. Len(s) \in Nat /\ Len(s) >= 1 /\ DOMAIN s = 1..Len(s)
  BY EmptySeq, LenProperties
<1>2. \A i \in 1..(Len(s) - 1) : s[i] \in S
  BY <1>1, ElementOfSeq
<1>3. /\ Front(s) \in Seq(S) /\ Len(Front(s)) = Len(s) - 1
      /\ \A i \in 1..(Len(s) - 1) : Front(s)[i] = s[i]
  BY <1>1, <1>2, SubSeqProperties DEF Front
<1>4. DOMAIN Front(s) = 1..(Len(s) - 1)
  BY <1>3, LenProperties
<1> QED  BY <1>1, <1>3, <1>4, ElementOfSeq DEF Last

LEMMA NextIndex ==
  ASSUME NEW n \in Nat, NEW i \in 1..n, NEW j \in i..n, j # n
  PROVE  j \in 1..n /\ j \in 1..(n - 1) /\ j + 1 \in i..n /\ j + 1 \in 1..n
OBVIOUS

LEMMA AppendFacts ==
  ASSUME NEW S, NEW s \in Seq(S), NEW x \in S
  PROVE  /\ Append(s, x) \in Seq(S)
         /\ DOMAIN Append(s, x) = DOMAIN s \cup {Len(s) + 1}
         /\ Append(s, x)[Len(s) + 1] = x
         /\ \A i \in DOMAIN s : Append(s, x)[i] = s[i] /\ i # Len(s) + 1
         /\ ToSet(Append(s, x)) = ToSet(s) \cup {x}
<1>1. Len(s) \in Nat /\ DOMAIN s = 1..Len(s)
  BY LenProperties
<1>2. /\ Append(s, x) \in Seq(S) /\ Len(Append(s, x)) = Len(s) + 1
      /\ \A i \in 1..Len(s) : Append(s, x)[i] = s[i]
      /\ Append(s, x)[Len(s) + 1] = x
  BY AppendProperties
<1>3. DOMAIN Append(s, x) = 1..(Len(s) + 1)
  BY <1>2, LenProperties
<1> QED  BY <1>1, <1>2, <1>3 DEF ToSet

(* One more successor, or field, of what is on top of a stack is done.      *)
LEMMA AdvancedFacts ==
  ASSUME NEW F, NEW s \in Seq(F), s # << >>,
         \A x \in F : [x EXCEPT !.done = @ + 1] \in F
  PROVE  /\ advanced(s) \in Seq(F) /\ Len(advanced(s)) = Len(s) /\ DOMAIN advanced(s) = DOMAIN s
         /\ advanced(s) # << >>
         /\ \A i \in DOMAIN s : i # Len(s) => advanced(s)[i] = s[i]
         /\ advanced(s)[Len(s)] = [s[Len(s)] EXCEPT !.done = @ + 1]
<1>1. Len(s) \in Nat /\ Len(s) >= 1 /\ DOMAIN s = 1..Len(s)
  BY EmptySeq, LenProperties
<1>2. s[Len(s)] \in F
  BY <1>1, ElementOfSeq
<1>3. [s EXCEPT ![Len(s)] = [s[Len(s)] EXCEPT !.done = @ + 1]] \in Seq(F)
  BY <1>1, <1>2, ExceptSeq
<1>4. advanced(s) = [s EXCEPT ![Len(s)] = [s[Len(s)] EXCEPT !.done = @ + 1]]
  BY DEF advanced
<1>5. DOMAIN advanced(s) = 1..Len(s) /\ advanced(s) \in Seq(F)
  BY <1>1, <1>3, <1>4
<1>6. Len(advanced(s)) = Len(s)
  BY <1>1, <1>5, LenProperties
<1> QED  BY <1>1, <1>4, <1>5, <1>6, EmptySeq

------------------------------------------------------------------------------
(* The graph of dependencies.                                               *)
LEMMA DependenciesAreNodes ==
  ASSUME NEW mod \in Model, NEW n \in TypeNode
  PROVE  registerDependencies(mod, n) \in Seq(TypeNode)
<1>1. PICK t \in Type, k \in {"Declaration", "Definition"} : n = <<t, k>>
  BY DEF TypeNode
<1>2. mod.types[t].edges \in Seq(Use)
  BY DEF Model, Definition
<1>3. \A u \in Use : \A w \in {"Declaration", "Definition"} : getDependencyFor(w, u) \in TypeNode
  BY DEF getDependencyFor, Use, TypeNode, Decl, Def
<1>4. \A w \in {"Declaration", "Definition"} : dependenciesOfEdges(mod, t, w) \in Seq(TypeNode)
  BY <1>2, <1>3 DEF dependenciesOfEdges
<1>5. Decl(t) \in TypeNode
  BY DEF Decl, TypeNode
<1>6. <<Decl(t)>> \o dependenciesOfEdges(mod, t, "Definition") \in Seq(TypeNode)
  BY <1>4, <1>5
<1>7. << >> \in Seq(TypeNode)
  OBVIOUS
<1> QED  BY <1>1, <1>4, <1>6, <1>7 DEF registerDependencies

LEMMA RootsAreNodes ==
  /\ NodesCount \in Nat
  /\ \A i \in 1..NodesCount : nodes(i) \in TypeNode
  /\ \A n \in TypeNode : \E i \in 1..NodesCount : nodes(i) = n
<1>1. NodesCount \in Nat
  BY TypesCountAssumption DEF NodesCount
<1>2. ASSUME NEW i \in 1..NodesCount PROVE nodes(i) \in TypeNode
  <2>1. (i + 1) \div 2 \in Type
    BY TypesCountAssumption DEF NodesCount, Type
  <2> QED  BY <2>1 DEF nodes, TypeNode
<1>3. ASSUME NEW n \in TypeNode PROVE \E i \in 1..NodesCount : nodes(i) = n
  <2>1. PICK t \in Type, k \in {"Declaration", "Definition"} : n = <<t, k>>
    BY DEF TypeNode
  <2>2. CASE k = "Declaration"
    <3>1. 2 * t - 1 \in 1..NodesCount /\ ((2 * t - 1) + 1) \div 2 = t /\ (2 * t - 1) % 2 = 1
      BY TypesCountAssumption DEF NodesCount, Type
    <3> QED  BY <2>1, <2>2, <3>1 DEF nodes
  <2>3. CASE k = "Definition"
    <3>1. 2 * t \in 1..NodesCount /\ (2 * t + 1) \div 2 = t /\ (2 * t) % 2 = 0
      BY TypesCountAssumption DEF NodesCount, Type
    <3> QED  BY <2>1, <2>3, <3>1 DEF nodes
  <2> QED  BY <2>1, <2>2, <2>3
<1> QED  BY <1>1, <1>2, <1>3

LEMMA DependentsAreTypes ==
  ASSUME NEW mod, NEW t \in Type
  PROVE  collectDependentTypes(mod, t) \in SUBSET Type
BY DEF collectDependentTypes, getIncomingTypesFor

------------------------------------------------------------------------------
(* Type correctness, on its own.                                            *)
BoundedVisit(stack) ==
  /\ stack \in Seq(Frame)
  /\ \A i \in DOMAIN stack : stack[i].done <= Len(registerDependencies(m, stack[i].node))

BoundedBodies(stack) ==
  /\ stack \in Seq(Body)
  /\ \A i \in DOMAIN stack : stack[i].done <= Len(m.types[stack[i].type].edges)

LEMMA PushIsBounded ==
  ASSUME m \in Model, NEW stack, BoundedVisit(stack), NEW n \in TypeNode
  PROVE  BoundedVisit(Push(stack, n))
<1>1. [node |-> n, done |-> 0] \in Frame
  BY DEF Frame
<1>2. Len(registerDependencies(m, n)) >= 0
  BY DependenciesAreNodes, LenProperties
<1> DEFINE new == Push(stack, n)
<1>3. /\ new \in Seq(Frame) /\ DOMAIN new = DOMAIN stack \cup {Len(stack) + 1}
      /\ new[Len(stack) + 1] = [node |-> n, done |-> 0]
      /\ \A i \in DOMAIN stack : new[i] = stack[i]
  BY <1>1, AppendFacts DEF Push, BoundedVisit
<1> HIDE DEF new
<1> QED  BY <1>2, <1>3 DEF BoundedVisit, new

LEMMA OpenIsBounded ==
  ASSUME m \in Model, NEW stack, BoundedBodies(stack), NEW t \in Type
  PROVE  BoundedBodies(Open(stack, t))
<1>1. [type |-> t, done |-> 0] \in Body
  BY DEF Body
<1>2. Len(m.types[t].edges) >= 0
  BY LenProperties DEF Model, Definition
<1> DEFINE new == Open(stack, t)
<1>3. /\ new \in Seq(Body) /\ DOMAIN new = DOMAIN stack \cup {Len(stack) + 1}
      /\ new[Len(stack) + 1] = [type |-> t, done |-> 0]
      /\ \A i \in DOMAIN stack : new[i] = stack[i]
  BY <1>1, AppendFacts DEF Open, BoundedBodies
<1> HIDE DEF new
<1> QED  BY <1>2, <1>3 DEF BoundedBodies, new

LEMMA AdvancedVisitIsBounded ==
  ASSUME m \in Model, BoundedVisit(VisitStack), VisitStack # << >>, ~allVisited
  PROVE  /\ BoundedVisit(advanced(VisitStack))
         /\ Top \in Frame /\ Top.done + 1 \in DOMAIN successorsOfTop
         /\ successorsOfTop \in Seq(TypeNode)
<1>1. \A x \in Frame : [x EXCEPT !.done = @ + 1] \in Frame
  BY DEF Frame
<1>2. Len(VisitStack) \in DOMAIN VisitStack /\ Top = VisitStack[Len(VisitStack)] /\ Top \in Frame
  BY FrontFacts DEF BoundedVisit, Top
<1>3. successorsOfTop \in Seq(TypeNode)
  BY <1>2, DependenciesAreNodes DEF successorsOfTop, Frame
<1>4. Len(successorsOfTop) \in Nat /\ DOMAIN successorsOfTop = 1..Len(successorsOfTop)
  BY <1>3, LenProperties
<1>5. Top.done \in Nat /\ Top.done <= Len(successorsOfTop) /\ Top.done # Len(successorsOfTop)
  BY <1>2 DEF Frame, BoundedVisit, allVisited, successorsOfTop
<1>6. Top.done + 1 \in DOMAIN successorsOfTop /\ Top.done + 1 <= Len(successorsOfTop)
  BY <1>4, <1>5
<1> DEFINE new == advanced(VisitStack)
<1>7. /\ new \in Seq(Frame) /\ DOMAIN new = DOMAIN VisitStack
      /\ \A i \in DOMAIN VisitStack : i # Len(VisitStack) => new[i] = VisitStack[i]
      /\ new[Len(VisitStack)] = [VisitStack[Len(VisitStack)] EXCEPT !.done = @ + 1]
  BY <1>1, AdvancedFacts DEF BoundedVisit
<1>8. new[Len(VisitStack)].done = Top.done + 1 /\ new[Len(VisitStack)].node = Top.node
  BY <1>2, <1>7 DEF Frame
<1> HIDE DEF new
<1>9. \A i \in DOMAIN new : new[i].done <= Len(registerDependencies(m, new[i].node))
  BY <1>6, <1>7, <1>8 DEF BoundedVisit, successorsOfTop
<1> QED  BY <1>2, <1>3, <1>6, <1>7, <1>9 DEF BoundedVisit, new

LEMMA AdvancedBodiesAreBounded ==
  ASSUME m \in Model, BoundedBodies(bodies), bodies # << >>, InnerBody.done < Len(fields)
  PROVE  /\ BoundedBodies(advanced(bodies))
         /\ fields[InnerBody.done + 1].to \in Type
<1>1. \A x \in Body : [x EXCEPT !.done = @ + 1] \in Body
  BY DEF Body
<1>2. Len(bodies) \in DOMAIN bodies /\ InnerBody = bodies[Len(bodies)] /\ InnerBody \in Body
  BY FrontFacts DEF BoundedBodies, InnerBody
<1>3. fields \in Seq(Use)
  BY <1>2 DEF fields, Body, Model, Definition
<1>4. Len(fields) \in Nat /\ InnerBody.done \in Nat
  BY <1>2, <1>3, LenProperties DEF Body
<1>5. InnerBody.done + 1 \in 1..Len(fields)
  BY <1>4
<1>6. fields[InnerBody.done + 1].to \in Type
  <2>1. fields[InnerBody.done + 1] \in Use
    BY <1>3, <1>5, ElementOfSeq
  <2> QED  BY <2>1 DEF Use
<1> DEFINE new == advanced(bodies)
<1>7. /\ new \in Seq(Body) /\ DOMAIN new = DOMAIN bodies
      /\ \A i \in DOMAIN bodies : i # Len(bodies) => new[i] = bodies[i]
      /\ new[Len(bodies)] = [bodies[Len(bodies)] EXCEPT !.done = @ + 1]
  BY <1>1, AdvancedFacts DEF BoundedBodies
<1>8. new[Len(bodies)].done = InnerBody.done + 1 /\ new[Len(bodies)].type = InnerBody.type
  BY <1>2, <1>7 DEF Body
<1> HIDE DEF new
<1>9. ASSUME NEW i \in DOMAIN new PROVE new[i].done <= Len(m.types[new[i].type].edges)
  <2>1. CASE i = Len(bodies)
    <3>1. InnerBody.done + 1 <= Len(m.types[InnerBody.type].edges)
      BY <1>4, <1>5 DEF fields
    <3> QED  BY <1>8, <2>1, <3>1
  <2>2. CASE i # Len(bodies)
    BY <1>7, <2>2 DEF BoundedBodies
  <2> QED  BY <2>1, <2>2
<1> QED  BY <1>6, <1>7, <1>9 DEF BoundedBodies, new

(* The last of a stack is closed.                                           *)
LEMMA FrontIsBounded ==
  /\ (BoundedVisit(VisitStack) /\ VisitStack # << >>) => BoundedVisit(Front(VisitStack))
  /\ (BoundedBodies(bodies) /\ bodies # << >>) => BoundedBodies(Front(bodies))
<1>1. (BoundedVisit(VisitStack) /\ VisitStack # << >>) => BoundedVisit(Front(VisitStack))
  BY FrontFacts DEF BoundedVisit
<1>2. (BoundedBodies(bodies) /\ bodies # << >>) => BoundedBodies(Front(bodies))
  BY FrontFacts DEF BoundedBodies
<1> QED  BY <1>1, <1>2

(* TypeOK with the bounds by name, of a state and of the next one.          *)
Typed ==
  /\ m \in Model /\ conf \in Configurations
  /\ pc \in {"ready", "header", "functions", "single type"}
  /\ inlined \in SUBSET Type /\ TypesToOmit \in SUBSET Type
  /\ root \in 0..NodesCount
  /\ Defined \in SUBSET TypeNode
  /\ BoundedVisit(VisitStack) /\ BoundedBodies(bodies)
  /\ functions \in SUBSET Type
  /\ out \in Seq(TypeNode)

LEMMA TypedIsTypeOK == (TypeOK <=> Typed) /\ (TypeOK' <=> Typed')
BY DEF TypeOK, Typed, BoundedVisit, BoundedBodies

LEMMA NodesOfTypes ==
  \A t \in Type : Decl(t) \in TypeNode /\ Def(t) \in TypeNode
BY DEF Decl, Def, TypeNode

LEMMA InitTypeOK == Init => TypeOK
<1> SUFFICES ASSUME Init PROVE TypeOK
  OBVIOUS
<1>1. BoundedVisit(VisitStack) /\ BoundedBodies(bodies) /\ out \in Seq(TypeNode)
  BY DEF Init, BoundedVisit, BoundedBodies
<1>2. m \in Model /\ 0 \in 0..NodesCount
  BY HeaderAssumption, RootsAreNodes DEF Init
<1> QED  BY <1>1, <1>2, TypedIsTypeOK DEF Init, Typed

(* The model does not change, so that its bounds need no new proof.         *)
LEMMA BoundsAreKept ==
  ASSUME m' = m
  PROVE  /\ \A v : (VisitStack' = v /\ BoundedVisit(v)) => BoundedVisit(VisitStack)'
         /\ \A b : (bodies' = b /\ BoundedBodies(b)) => BoundedBodies(bodies)'
BY DEF BoundedVisit, BoundedBodies

LEMMA NextTypeOK == TypeOK /\ [Next]_vars => TypeOK'
<1> SUFFICES ASSUME Typed, [Next]_vars PROVE Typed'
  BY TypedIsTypeOK
<1>0. /\ m \in Model /\ BoundedVisit(VisitStack) /\ BoundedBodies(bodies)
      /\ root \in 0..NodesCount /\ NodesCount \in Nat
  BY RootsAreNodes DEF Typed
<1>1. CASE printModelHeader
  <2>1. typesNotToShow \in SUBSET Type
    BY DependentsAreTypes, HeaderAssumption DEF typesNotToShow, Typed
  <2>2. PostIncludeSnippet \in Seq(TypeNode)
    <3>1. conf.TypeToEdit \in Type \cup {NoType}
      BY HeaderAssumption DEF Typed
    <3>2. conf.TypeToEdit \in Type => <<Decl(conf.TypeToEdit)>> \in Seq(TypeNode)
      BY NodesOfTypes
    <3>3. << >> \in Seq(TypeNode)
      OBVIOUS
    <3> QED  BY <3>1, <3>2, <3>3 DEF PostIncludeSnippet
  <2> QED  BY <1>0, <1>1, <2>1, <2>2, BoundsAreKept DEF Typed, printModelHeader, collectInlinableTypes
<1>2. CASE NextRoot
  <2>1. root + 1 \in 1..NodesCount /\ root + 1 \in 0..NodesCount
    BY <1>0, <1>2 DEF NextRoot, moreRoots
  <2>2. nodes(root + 1) \in TypeNode
    BY <2>1, RootsAreNodes
  <2>3. BoundedVisit(VisitStack')
    BY <1>0, <1>2, <2>2, PushIsBounded DEF NextRoot
  <2> QED  BY <1>0, <1>2, <2>1, <2>2, <2>3, BoundsAreKept DEF Typed, NextRoot
<1>3. CASE VisitSuccessor
  <2> DEFINE n == successorsOfTop[Top.done + 1]
  <2>1. BoundedVisit(advanced(VisitStack)) /\ n \in TypeNode
    <3>1. /\ BoundedVisit(advanced(VisitStack))
          /\ Top.done + 1 \in DOMAIN successorsOfTop /\ successorsOfTop \in Seq(TypeNode)
      BY <1>0, <1>3, AdvancedVisitIsBounded DEF VisitSuccessor
    <3> QED  BY <3>1, ElementOfSeq, LenProperties
  <2>2. BoundedVisit(Push(advanced(VisitStack), n))
    BY <1>0, <2>1, PushIsBounded
  <2>3. /\ VisitStack' = advanced(VisitStack) \/ VisitStack' = Push(advanced(VisitStack), n)
        /\ Defined' = Defined \cup {n}
    BY <1>3 DEF VisitSuccessor
  <2> HIDE DEF n
  <2> QED  BY <1>0, <1>3, <2>1, <2>2, <2>3, BoundsAreKept DEF Typed, VisitSuccessor
<1>4. CASE PrintNode
  <2>1. BoundedVisit(Front(VisitStack)) /\ Top.node[1] \in Type
    <3>1. BoundedVisit(Front(VisitStack)) /\ Top \in Frame
      BY <1>0, <1>4, FrontIsBounded, FrontFacts DEF PrintNode, BoundedVisit, Top
    <3> QED  BY <3>1 DEF Frame, TypeNode
  <2>2. BoundedBodies(Open(bodies, Top.node[1]))
    BY <1>0, <2>1, OpenIsBounded
  <2>3. Append(out, Decl(Top.node[1])) \in Seq(TypeNode)
    BY <2>1, NodesOfTypes, AppendFacts DEF Typed
  <2>4. /\ out' = out \/ out' = Append(out, Decl(Top.node[1]))
        /\ bodies' = bodies \/ bodies' = Open(bodies, Top.node[1])
    BY <1>4 DEF PrintNode
  <2> QED  BY <1>0, <1>4, <2>1, <2>2, <2>3, <2>4, BoundsAreKept DEF Typed, PrintNode
<1>5. CASE EndHeader
  BY <1>0, <1>5, BoundsAreKept DEF Typed, EndHeader, Model
<1>6. CASE PrintField
  <2> DEFINE t == fields[InnerBody.done + 1].to
  <2>1. BoundedBodies(advanced(bodies)) /\ t \in Type
    BY <1>0, <1>6, AdvancedBodiesAreBounded DEF PrintField
  <2>2. BoundedBodies(Open(advanced(bodies), t))
    BY <1>0, <2>1, OpenIsBounded
  <2>3. bodies' = advanced(bodies) \/ bodies' = Open(advanced(bodies), t)
    BY <1>6 DEF PrintField
  <2> HIDE DEF t
  <2> QED  BY <1>0, <1>6, <2>1, <2>2, <2>3, BoundsAreKept DEF Typed, PrintField
<1>7. CASE EndBody
  <2>1. BoundedBodies(Front(bodies)) /\ InnerBody.type \in Type
    <3>1. BoundedBodies(Front(bodies)) /\ InnerBody \in Body
      BY <1>0, <1>7, FrontIsBounded, FrontFacts DEF EndBody, BoundedBodies, InnerBody
    <3> QED  BY <3>1 DEF Body
  <2>2. Append(out, Def(InnerBody.type)) \in Seq(TypeNode)
    BY <2>1, NodesOfTypes, AppendFacts DEF Typed
  <2> QED  BY <1>0, <1>7, <2>1, <2>2, BoundsAreKept DEF Typed, EndBody
<1>8. CASE PrintFunctionBody
  <2>1. PICK t \in functions : /\ functions' = functions \ {t}
                              /\ bodies' = IF t \in inlined THEN Open(bodies, t) ELSE bodies
    BY <1>8 DEF PrintFunctionBody
  <2>2. BoundedBodies(Open(bodies, t)) /\ t \in Type
    BY <1>0, OpenIsBounded DEF Typed
  <2> QED  BY <1>0, <1>8, <2>1, <2>2, BoundsAreKept DEF Typed, PrintFunctionBody
<1>9. CASE PrintSingleType
  <2>1. PICK t \in Type : (out' = <<Decl(t)>> /\ bodies' = bodies)
                            \/ (bodies' = Open(bodies, t) /\ out' = out)
    BY <1>9 DEF PrintSingleType
  <2>2. BoundedBodies(Open(bodies, t)) /\ <<Decl(t)>> \in Seq(TypeNode)
    BY <1>0, OpenIsBounded, NodesOfTypes
  <2> QED  BY <1>0, <1>9, <2>1, <2>2, BoundsAreKept
           DEF Typed, PrintSingleType, collectInlinableTypes
<1>10. CASE UNCHANGED vars
  BY <1>0, <1>10, BoundsAreKept DEF Typed, vars
<1> QED  BY <1>1, <1>2, <1>3, <1>4, <1>5, <1>6, <1>7, <1>8, <1>9, <1>10 DEF Next

(* The visit and the printing have the states that the model says they      *)
(* have: no frame of theirs is ever past its last successor, or field.      *)
THEOREM TypeCorrect == Spec => []TypeOK
<1> QED  BY InitTypeOK, NextTypeOK, PTL DEF Spec

------------------------------------------------------------------------------
(* What the visit keeps: the stack is a path of the graph, the successors   *)
(* it has gone through are defined, and so are the roots.                   *)
StackIsAPath ==
  \A i \in 1..(Len(VisitStack) - 1) :
    VisitStack[i + 1].node \in Successors(m, VisitStack[i].node)

StackIsDefined == \A i \in DOMAIN VisitStack : VisitStack[i].node \in Defined

DoneAreDefined ==
  \A i \in DOMAIN VisitStack : \A k \in 1..VisitStack[i].done :
    registerDependencies(m, VisitStack[i].node)[k] \in Defined

FinishedIsClosed ==
  Acyclic(m) => \A n \in Finished : Successors(m, n) \subseteq Finished

RootsAreDefined == \A i \in 1..root : nodes(i) \in Defined

Visit == StackIsAPath /\ StackIsDefined /\ DoneAreDefined /\ FinishedIsClosed /\ RootsAreDefined

(* Where the visit ends when there are no cycles: what the node on top      *)
(* depends on is not on the stack.                                          *)
LEMMA NoSuccessorIsOnStack ==
  ASSUME TypeOK, Visit, Acyclic(m), VisitStack # << >>
  PROVE  Successors(m, Top.node) \cap onStack = {}
<1> SUFFICES ASSUME NEW i \in DOMAIN VisitStack,
                    VisitStack[i].node \in Successors(m, Top.node)
             PROVE  FALSE
  BY DEF onStack
<1> DEFINE S == {VisitStack[j].node : j \in i..Len(VisitStack)}
           edges == UNION {{n} \X Successors(m, n) : n \in TypeNode}
<1>1. /\ VisitStack \in Seq(Frame) /\ Len(VisitStack) \in Nat
      /\ DOMAIN VisitStack = 1..Len(VisitStack)
  BY LenProperties DEF TypeOK
<1>2. i \in 1..Len(VisitStack) /\ i \in Nat
  BY <1>1
<1>3. S \subseteq TypeNode
  <2>1. \A j \in i..Len(VisitStack) : j \in 1..Len(VisitStack)
    BY <1>1, <1>2
  <2>2. \A j \in 1..Len(VisitStack) : VisitStack[j] \in Frame
    BY <1>1, ElementOfSeq
  <2> QED  BY <2>1, <2>2 DEF Frame
<1>4. VisitStack[i].node \in S
  BY <1>1, <1>2
<1>5. PICK n \in S : \A d \in S : <<n, d>> \notin edges
  BY <1>3, <1>4 DEF Acyclic
<1>6. PICK j \in i..Len(VisitStack) : n = VisitStack[j].node
  BY <1>5
<1>7. ASSUME NEW d \in S PROVE d \notin Successors(m, n)
  <2>1. n \in TypeNode /\ <<n, d>> \notin edges
    BY <1>3, <1>5
  <2>2. {n} \X Successors(m, n) \subseteq edges
    BY <2>1
  <2> QED  BY <2>1, <2>2
<1>8. CASE j = Len(VisitStack)
  <2>1. n = Top.node
    BY <1>6, <1>8 DEF Top, Last
  <2> QED  BY <1>4, <1>7, <2>1
<1>9. CASE j # Len(VisitStack)
  <2>1. j \in 1..(Len(VisitStack) - 1) /\ j + 1 \in i..Len(VisitStack)
    BY <1>1, <1>2, <1>6, <1>9, NextIndex
  <2>2. VisitStack[j + 1].node \in Successors(m, n)
    BY <1>6, <2>1 DEF Visit, StackIsAPath
  <2>3. VisitStack[j + 1].node \in S
    BY <2>1
  <2> QED  BY <1>7, <2>2, <2>3
<1> QED  BY <1>8, <1>9

LEMMA InitVisit == Init => Visit
<1> SUFFICES ASSUME Init PROVE Visit
  OBVIOUS
<1>1. VisitStack = << >> /\ Defined = {} /\ root = 0 /\ Len(VisitStack) = 0
  BY DEF Init
<1>2. DOMAIN VisitStack = {}
  BY <1>1
<1>3. StackIsAPath /\ RootsAreDefined
  BY <1>1 DEF StackIsAPath, RootsAreDefined
<1>4. StackIsDefined /\ DoneAreDefined
  BY <1>2 DEF StackIsDefined, DoneAreDefined
<1>5. FinishedIsClosed
  BY <1>1 DEF FinishedIsClosed, Finished
<1> QED  BY <1>3, <1>4, <1>5 DEF Visit

(* A node that was not defined goes on the stack, below what depends on it. *)
LEMMA PushKeepsVisit ==
  ASSUME TypeOK, Visit, m' = m, NEW n \in TypeNode, n \notin Defined,
         NEW stack \in Seq(Frame), VisitStack' = Push(stack, n),
         Defined' = Defined \cup {n},
         Len(stack) = Len(VisitStack),
         \A i \in DOMAIN stack : stack[i].node = VisitStack[i].node,
         \A i \in DOMAIN stack : \A k \in 1..stack[i].done :
           registerDependencies(m, stack[i].node)[k] \in Defined \cup {n},
         stack # << >> => n \in Successors(m, stack[Len(stack)].node)
  PROVE  (StackIsAPath /\ StackIsDefined /\ DoneAreDefined /\ FinishedIsClosed)'
<1> DEFINE new == Push(stack, n)
<1>1. /\ Len(stack) \in Nat /\ DOMAIN stack = 1..Len(stack) /\ DOMAIN VisitStack = DOMAIN stack
      /\ VisitStack \in Seq(Frame)
  BY LenProperties DEF TypeOK
<1>2. [node |-> n, done |-> 0] \in Frame
  BY DEF Frame
<1>3. /\ new \in Seq(Frame) /\ DOMAIN new = DOMAIN stack \cup {Len(stack) + 1}
      /\ new[Len(stack) + 1] = [node |-> n, done |-> 0]
      /\ \A i \in DOMAIN stack : new[i] = stack[i]
  BY <1>2, AppendFacts DEF Push
<1>4. Len(new) = Len(stack) + 1
  BY <1>2, AppendProperties DEF Push
<1> HIDE DEF new
<1>5. VisitStack' = new
  BY DEF new
<1>6. StackIsAPath'
  <2> SUFFICES ASSUME NEW i \in 1..Len(stack)
               PROVE  new[i + 1].node \in Successors(m, new[i].node)
    BY <1>1, <1>4, <1>5 DEF StackIsAPath
  <2>1. new[i].node = VisitStack[i].node /\ new[i] = stack[i]
    BY <1>1, <1>3
  <2>2. CASE i = Len(stack)
    <3>1. stack # << >>
      BY <1>1, EmptySeq
    <3> QED  BY <1>3, <2>1, <2>2, <3>1
  <2>3. CASE i # Len(stack)
    <3>1. i \in 1..(Len(VisitStack) - 1) /\ i + 1 \in DOMAIN stack
      <4>1. i \in i..Len(stack)
        BY <1>1
      <4> QED  BY <1>1, <2>3, <4>1, NextIndex
    <3>2. new[i + 1].node = VisitStack[i + 1].node
      BY <1>3, <3>1
    <3> QED  BY <2>1, <3>1, <3>2 DEF Visit, StackIsAPath
  <2> QED  BY <2>2, <2>3
<1>7. StackIsDefined'
  BY <1>1, <1>3, <1>5 DEF StackIsDefined, Visit
<1>8. DoneAreDefined'
  <2> SUFFICES ASSUME NEW i \in DOMAIN new, NEW k \in 1..new[i].done
               PROVE  registerDependencies(m, new[i].node)[k] \in Defined \cup {n}
    BY <1>5 DEF DoneAreDefined
  <2>1. i \in DOMAIN stack
    BY <1>3
  <2> QED  BY <1>3, <2>1
<1>9. onStack' = onStack \cup {n}
  BY <1>1, <1>3, <1>5 DEF onStack
<1>10. Finished' = Finished
  BY <1>9 DEF Finished
<1>11. FinishedIsClosed'
  BY <1>10 DEF FinishedIsClosed, Visit
<1> QED  BY <1>6, <1>7, <1>8, <1>11

(* The successor the node on top of the stack goes to.                      *)
LEMMA AdvancedIsDefined ==
  ASSUME TypeOK, Visit, VisitStack # << >>, ~allVisited,
         NEW n, n = successorsOfTop[Top.done + 1]
  PROVE  LET stack == advanced(VisitStack)
         IN  /\ n \in TypeNode /\ stack \in Seq(Frame) /\ stack # << >>
             /\ Len(stack) = Len(VisitStack) /\ DOMAIN stack = DOMAIN VisitStack
             /\ \A i \in DOMAIN stack : stack[i].node = VisitStack[i].node
             /\ \A i \in DOMAIN stack : \A k \in 1..stack[i].done :
                  registerDependencies(m, stack[i].node)[k] \in Defined \cup {n}
             /\ n \in Successors(m, stack[Len(stack)].node)
<1> DEFINE stack == advanced(VisitStack)
<1>1. m \in Model /\ BoundedVisit(VisitStack) /\ VisitStack \in Seq(Frame)
  BY DEF TypeOK, BoundedVisit
<1>2. /\ Top \in Frame /\ Top.done + 1 \in DOMAIN successorsOfTop
      /\ successorsOfTop \in Seq(TypeNode)
  BY <1>1, AdvancedVisitIsBounded
<1>3. n \in TypeNode
  BY <1>2, ElementOfSeq, LenProperties
<1>4. Len(VisitStack) \in DOMAIN VisitStack /\ Top = VisitStack[Len(VisitStack)]
  BY <1>1, FrontFacts DEF Top
<1>5. \A x \in Frame : [x EXCEPT !.done = @ + 1] \in Frame
  BY DEF Frame
<1>6. /\ stack \in Seq(Frame) /\ Len(stack) = Len(VisitStack) /\ DOMAIN stack = DOMAIN VisitStack
      /\ stack # << >>
      /\ \A i \in DOMAIN VisitStack : i # Len(VisitStack) => stack[i] = VisitStack[i]
      /\ stack[Len(VisitStack)] = [VisitStack[Len(VisitStack)] EXCEPT !.done = @ + 1]
  BY <1>1, <1>5, AdvancedFacts
<1> HIDE DEF stack
<1>7. stack[Len(VisitStack)].node = Top.node /\ stack[Len(VisitStack)].done = Top.done + 1
  BY <1>2, <1>4, <1>6 DEF Frame
<1>8. \A i \in DOMAIN stack : stack[i].node = VisitStack[i].node
  BY <1>4, <1>6, <1>7
<1>9. n \in Successors(m, stack[Len(stack)].node)
  BY <1>2, <1>6, <1>7 DEF Successors, ToSet, successorsOfTop
<1>10. ASSUME NEW i \in DOMAIN stack, NEW k \in 1..stack[i].done
       PROVE  registerDependencies(m, stack[i].node)[k] \in Defined \cup {n}
  <2>1. CASE i # Len(VisitStack)
    BY <1>6, <2>1 DEF Visit, DoneAreDefined
  <2>2. CASE i = Len(VisitStack)
    <3>1. k \in 1..(Top.done + 1) /\ Top.done \in Nat
      BY <1>2, <1>7, <2>2 DEF Frame
    <3>2. CASE k = Top.done + 1
      BY <1>7, <2>2, <3>2 DEF successorsOfTop
    <3>3. CASE k # Top.done + 1
      <4>1. k \in 1..Top.done
        BY <3>1, <3>3
      <4>2. registerDependencies(m, Top.node)[k] \in Defined
        BY <1>4, <4>1 DEF Visit, DoneAreDefined
      <4> QED  BY <1>7, <2>2, <4>2
    <3> QED  BY <3>2, <3>3
  <2> QED  BY <2>1, <2>2
<1> QED  BY <1>3, <1>6, <1>8, <1>9, <1>10 DEF stack

LEMMA NextVisit == TypeOK /\ Visit /\ [Next]_vars => Visit'
<1> SUFFICES ASSUME TypeOK, Visit, [Next]_vars PROVE Visit'
  OBVIOUS
<1>0. /\ m \in Model /\ VisitStack \in Seq(Frame) /\ root \in Nat /\ Defined \subseteq TypeNode
      /\ Len(VisitStack) \in Nat /\ DOMAIN VisitStack = 1..Len(VisitStack)
  <2>1. m \in Model /\ VisitStack \in Seq(Frame) /\ Defined \subseteq TypeNode
    BY DEF TypeOK
  <2>2. root \in 0..NodesCount /\ NodesCount \in Nat
    BY RootsAreNodes DEF TypeOK
  <2>3. root \in Nat
    BY <2>2
  <2> QED  BY <2>1, <2>3, LenProperties
<1>1. CASE NextRoot
  <2> DEFINE n == nodes(root + 1)
  <2>1. root + 1 \in 1..NodesCount
    BY <1>0, <1>1, RootsAreNodes DEF NextRoot, moreRoots
  <2>2. n \in TypeNode
    BY <2>1, RootsAreNodes
  <2>3. RootsAreDefined'
    <3> SUFFICES ASSUME NEW i \in 1..(root + 1) PROVE nodes(i) \in Defined \cup {n}
      BY <1>1 DEF NextRoot, RootsAreDefined
    <3>1. CASE i = root + 1
      BY <3>1
    <3>2. CASE i # root + 1
      <4>1. i \in 1..root
        BY <1>0, <3>2
      <4> QED  BY <4>1 DEF Visit, RootsAreDefined
    <3> QED  BY <3>1, <3>2
  <2> HIDE DEF n
  <2>4. m' = m /\ Defined' = Defined \cup {n} /\ VisitStack = << >>
    BY <1>1 DEF NextRoot, n
  <2>5. CASE n \in Defined
    <3>1. VisitStack' = VisitStack /\ Defined' = Defined
      BY <1>1, <2>4, <2>5 DEF NextRoot, n
    <3> QED  BY <2>3, <2>4, <3>1
             DEF Visit, StackIsAPath, StackIsDefined, DoneAreDefined, FinishedIsClosed, Finished, onStack
  <2>6. CASE n \notin Defined
    <3>1. VisitStack' = Push(VisitStack, n)
      BY <1>1, <2>6 DEF NextRoot, n
    <3>2. \A i \in DOMAIN VisitStack : \A k \in 1..VisitStack[i].done :
            registerDependencies(m, VisitStack[i].node)[k] \in Defined \cup {n}
      BY DEF Visit, DoneAreDefined
    <3>3. (StackIsAPath /\ StackIsDefined /\ DoneAreDefined /\ FinishedIsClosed)'
      BY <1>0, <2>2, <2>4, <2>6, <3>1, <3>2, PushKeepsVisit
    <3> QED  BY <2>3, <3>3 DEF Visit
  <2> QED  BY <2>5, <2>6
<1>2. CASE VisitSuccessor
  <2> DEFINE n == successorsOfTop[Top.done + 1]
             stack == advanced(VisitStack)
  <2>1. /\ m' = m /\ root' = root /\ Defined' = Defined \cup {n}
        /\ VisitStack' = IF n \in Defined THEN stack ELSE Push(stack, n)
    BY <1>2 DEF VisitSuccessor
  <2>2. /\ n \in TypeNode /\ stack \in Seq(Frame) /\ stack # << >>
        /\ Len(stack) = Len(VisitStack) /\ DOMAIN stack = DOMAIN VisitStack
        /\ \A i \in DOMAIN stack : stack[i].node = VisitStack[i].node
        /\ \A i \in DOMAIN stack : \A k \in 1..stack[i].done :
             registerDependencies(m, stack[i].node)[k] \in Defined \cup {n}
        /\ n \in Successors(m, stack[Len(stack)].node)
    BY <1>2, AdvancedIsDefined DEF VisitSuccessor
  <2> HIDE DEF n, stack
  <2>3. RootsAreDefined'
    BY <2>1 DEF Visit, RootsAreDefined
  <2>4. CASE n \in Defined
    <3>1. VisitStack' = stack /\ Defined' = Defined
      BY <2>1, <2>4
    <3>2. StackIsAPath'
      <4> SUFFICES ASSUME NEW i \in 1..(Len(stack) - 1)
                   PROVE  stack[i + 1].node \in Successors(m, stack[i].node)
        BY <2>1, <3>1 DEF StackIsAPath
      <4>1. i \in DOMAIN stack /\ i + 1 \in DOMAIN stack
        BY <1>0, <2>2
      <4> QED  BY <2>2, <4>1 DEF Visit, StackIsAPath
    <3>3. StackIsDefined' /\ DoneAreDefined'
      BY <2>1, <2>2, <2>4, <3>1 DEF StackIsDefined, DoneAreDefined, Visit
    <3>4. onStack' = onStack
      BY <2>2, <3>1 DEF onStack
    <3>5. FinishedIsClosed'
      BY <2>1, <3>1, <3>4 DEF FinishedIsClosed, Finished, Visit
    <3> QED  BY <2>3, <3>2, <3>3, <3>5 DEF Visit
  <2>5. CASE n \notin Defined
    <3>1. (StackIsAPath /\ StackIsDefined /\ DoneAreDefined /\ FinishedIsClosed)'
      BY <2>1, <2>2, <2>5, PushKeepsVisit
    <3> QED  BY <2>3, <3>1 DEF Visit
  <2> QED  BY <2>4, <2>5
<1>3. CASE PrintNode
  <2>1. /\ m' = m /\ root' = root /\ Defined' = Defined /\ VisitStack' = Front(VisitStack)
        /\ VisitStack # << >> /\ allVisited
    BY <1>3 DEF PrintNode
  <2> DEFINE stack == Front(VisitStack)
  <2>2. /\ stack \in Seq(Frame) /\ Len(stack) = Len(VisitStack) - 1
        /\ \A i \in DOMAIN stack : i \in DOMAIN VisitStack /\ stack[i] = VisitStack[i]
        /\ \A i \in DOMAIN VisitStack : i # Len(VisitStack) => i \in DOMAIN stack
        /\ Len(VisitStack) \in DOMAIN VisitStack /\ Top = VisitStack[Len(VisitStack)]
        /\ Top \in Frame
    BY <1>0, <2>1, FrontFacts DEF Top
  <2> HIDE DEF stack
  <2>3. VisitStack' = stack
    BY <2>1 DEF stack
  <2>4. StackIsAPath'
    <3> SUFFICES ASSUME NEW i \in 1..(Len(stack) - 1)
                 PROVE  stack[i + 1].node \in Successors(m, stack[i].node)
      BY <2>1, <2>3 DEF StackIsAPath
    <3>1. i \in 1..(Len(VisitStack) - 1) /\ i \in DOMAIN stack /\ i + 1 \in DOMAIN stack
      BY <1>0, <2>2, LenProperties
    <3> QED  BY <2>2, <3>1 DEF Visit, StackIsAPath
  <2>5. StackIsDefined' /\ DoneAreDefined' /\ RootsAreDefined'
    BY <2>1, <2>2, <2>3 DEF StackIsDefined, DoneAreDefined, RootsAreDefined, Visit
  <2>6. Finished \subseteq Finished' /\ Finished' \subseteq Finished \cup {Top.node}
    <3>1. onStack' \subseteq onStack /\ onStack \subseteq onStack' \cup {Top.node}
      BY <2>2, <2>3 DEF onStack
    <3> QED  BY <2>1, <3>1 DEF Finished
  <2>7. FinishedIsClosed'
    <3> SUFFICES ASSUME Acyclic(m), NEW n \in Finished', NEW d \in Successors(m, n)
                 PROVE  d \in Finished'
      BY <2>1 DEF FinishedIsClosed, Acyclic, Successors
    <3>1. CASE n \in Finished
      BY <2>6, <3>1 DEF Visit, FinishedIsClosed
    <3>2. CASE n = Top.node
      <4>1. d \notin onStack
        BY <2>1, <3>2, NoSuccessorIsOnStack
      <4>2. PICK k \in DOMAIN successorsOfTop : d = successorsOfTop[k]
        BY <3>2 DEF Successors, ToSet, successorsOfTop
      <4>3. k \in 1..Top.done
        <5>1. successorsOfTop \in Seq(TypeNode)
          BY <1>0, <2>2, DependenciesAreNodes DEF successorsOfTop, Frame
        <5> QED  BY <2>1, <5>1, <4>2, LenProperties DEF allVisited
      <4>4. d \in Defined
        BY <2>2, <4>2, <4>3 DEF Visit, DoneAreDefined, successorsOfTop
      <4>5. d \notin onStack'
        BY <2>2, <2>3, <4>1 DEF onStack
      <4> QED  BY <2>1, <4>4, <4>5 DEF Finished
    <3> QED  BY <2>6, <3>1, <3>2
  <2> QED  BY <2>4, <2>5, <2>7 DEF Visit
<1>4. ASSUME UNCHANGED <<m, root, Defined, VisitStack>> PROVE Visit'
  BY <1>4 DEF Visit, StackIsAPath, StackIsDefined, DoneAreDefined, RootsAreDefined,
              FinishedIsClosed, Finished, onStack
<1>5. CASE printModelHeader \/ EndHeader \/ PrintField \/ EndBody \/ PrintFunctionBody
           \/ PrintSingleType \/ UNCHANGED vars
  BY <1>4, <1>5 DEF printModelHeader, EndHeader, PrintField, EndBody, PrintFunctionBody,
                    PrintSingleType, vars
<1> QED  BY <1>1, <1>2, <1>3, <1>5 DEF Next

(* Whatever the options, and however many roots have been visited, the      *)
(* types a node depends on have left the visit before it does, unless there *)
(* is a cycle in the graph of dependencies.                                 *)
THEOREM VisitIsInOrder == Spec => []DependenciesFirst
<1>1. Visit => DependenciesFirst
  BY DEF Visit, FinishedIsClosed, DependenciesFirst
<1>2. Init => TypeOK /\ Visit
  BY InitTypeOK, InitVisit
<1>3. TypeOK /\ Visit /\ [Next]_vars => TypeOK' /\ Visit'
  BY NextTypeOK, NextVisit
<1> QED  BY <1>1, <1>2, <1>3, PTL DEF Spec

------------------------------------------------------------------------------
(* What is printed when: the outermost of the bodies is a definition of the *)
(* header, or the frame of a function.                                      *)
IsPrinted(n) ==
  /\ n[2] = "Declaration" => n \in ToSet(out)
  /\ (n[2] = "Definition" /\ definesOnItsOwn(n[1])) =>
       n \in ToSet(out) \/ (bodies # << >> /\ bodies[1].type = n[1])

FinishedIsPrinted == \A n \in Finished : n[1] \notin TypesToOmit => IsPrinted(n)

Phases ==
  /\ pc \in {"ready", "single type"} => Defined = {} /\ VisitStack = << >>
  /\ pc = "ready" => bodies = << >>
  /\ pc = "functions" => VisitStack = << >> /\ root = NodesCount
  /\ (pc = "functions" /\ bodies # << >>) => bodies[1].type \in inlined

IndInv == TypeOK /\ Visit /\ FinishedIsPrinted /\ Phases

(* Nothing that is printed goes away, nor does the outermost of the bodies  *)
(* before its definition is printed.                                        *)
LEMMA PrintedIsKept ==
  ASSUME m' = m, inlined' = inlined, ToSet(out) \subseteq ToSet(out)',
         NEW n, IsPrinted(n), n \in TypeNode,
         bodies # << >> =>
           \/ bodies' # << >> /\ (bodies[1].type)' = bodies[1].type
           \/ Def(bodies[1].type) \in ToSet(out)'
  PROVE  IsPrinted(n)'
<1>1. n = <<n[1], n[2]>>
  BY DEF TypeNode
<1>2. definesOnItsOwn(n[1])' <=> definesOnItsOwn(n[1])
  BY DEF definesOnItsOwn, isDeclarationTheSameAsDefinition
<1>3. (n[2] = "Definition" /\ bodies[1].type = n[1]) => n = Def(bodies[1].type)
  BY <1>1 DEF Def
<1> QED  BY <1>2, <1>3 DEF IsPrinted

LEMMA OpenKeepsOutermost ==
  ASSUME NEW stack \in Seq(Body), NEW t \in Type
  PROVE  /\ Open(stack, t) # << >>
         /\ stack # << >> => Open(stack, t)[1].type = stack[1].type
         /\ stack = << >> => Open(stack, t)[1].type = t
<1>1. [type |-> t, done |-> 0] \in Body
  BY DEF Body
<1>2. Len(stack) \in Nat /\ DOMAIN stack = 1..Len(stack)
  BY LenProperties
<1> DEFINE new == Open(stack, t)
<1>3. /\ new \in Seq(Body) /\ DOMAIN new = DOMAIN stack \cup {Len(stack) + 1}
      /\ new[Len(stack) + 1] = [type |-> t, done |-> 0]
      /\ \A i \in DOMAIN stack : new[i] = stack[i]
  BY <1>1, AppendFacts DEF Open
<1> HIDE DEF new
<1>4. new # << >>
  BY <1>2, <1>3, EmptySeq
<1>5. stack # << >> => 1 \in DOMAIN stack
  BY <1>2, EmptySeq
<1>6. stack = << >> => Len(stack) + 1 = 1
  BY EmptySeq
<1> QED  BY <1>3, <1>4, <1>5, <1>6 DEF new

LEMMA AdvancedKeepsOutermost ==
  ASSUME BoundedBodies(bodies), bodies # << >>
  PROVE  advanced(bodies) # << >> /\ advanced(bodies)[1].type = bodies[1].type
<1>1. bodies \in Seq(Body) /\ Len(bodies) \in DOMAIN bodies /\ bodies[Len(bodies)] \in Body
  BY FrontFacts DEF BoundedBodies
<1>2. 1 \in DOMAIN bodies
  BY <1>1, EmptySeq, LenProperties
<1>3. \A x \in Body : [x EXCEPT !.done = @ + 1] \in Body
  BY DEF Body
<1> DEFINE new == advanced(bodies)
<1>4. /\ new # << >>
      /\ \A i \in DOMAIN bodies : i # Len(bodies) => new[i] = bodies[i]
      /\ new[Len(bodies)] = [bodies[Len(bodies)] EXCEPT !.done = @ + 1]
  BY <1>1, <1>3, AdvancedFacts
<1> HIDE DEF new
<1>5. new[Len(bodies)].type = bodies[Len(bodies)].type
  BY <1>1, <1>4 DEF Body
<1> QED  BY <1>2, <1>4, <1>5 DEF new

(* The innermost of the bodies ends: if it was the outermost, it is printed.*)
LEMMA FrontKeepsOutermost ==
  ASSUME BoundedBodies(bodies), bodies # << >>
  PROVE  \/ Front(bodies) # << >> /\ Front(bodies)[1].type = bodies[1].type
         \/ Front(bodies) = << >> /\ InnerBody = bodies[1]
<1>1. /\ bodies \in Seq(Body) /\ Len(bodies) \in DOMAIN bodies /\ InnerBody = bodies[Len(bodies)]
      /\ Front(bodies) \in Seq(Body) /\ Len(Front(bodies)) = Len(bodies) - 1
      /\ \A i \in DOMAIN Front(bodies) : Front(bodies)[i] = bodies[i]
  BY FrontFacts DEF BoundedBodies, InnerBody
<1> DEFINE new == Front(bodies)
<1> HIDE DEF new
<1>2. new \in Seq(Body) /\ Len(new) = Len(bodies) - 1 /\ \A i \in DOMAIN new : new[i] = bodies[i]
  BY <1>1 DEF new
<1>3. Len(bodies) \in Nat /\ Len(bodies) >= 1 /\ DOMAIN new = 1..Len(new)
  BY <1>1, <1>2, LenProperties
<1>4. CASE Len(bodies) = 1
  BY <1>1, <1>2, <1>4, EmptySeq DEF new
<1>5. CASE Len(bodies) # 1
  <2>1. 1 \in DOMAIN new /\ Len(new) # 0
    BY <1>2, <1>3, <1>5
  <2> QED  BY <1>2, <2>1, EmptySeq DEF new
<1> QED  BY <1>4, <1>5

(* Only the end of the header and the printing of a single type change what *)
(* a visit is about, and nothing is defined before the one and in the other.*)
LEMMA NextPhases == IndInv /\ [Next]_vars => Phases'
<1> SUFFICES ASSUME IndInv, [Next]_vars PROVE Phases'
  OBVIOUS
<1> USE DEF IndInv
<1>0. BoundedBodies(bodies) /\ bodies \in Seq(Body) /\ inlined \subseteq Type
  BY DEF TypeOK, BoundedBodies
<1>1. CASE printModelHeader
  BY <1>1 DEF printModelHeader, Phases
<1>2. CASE NextRoot \/ VisitSuccessor \/ PrintNode
  BY <1>2 DEF NextRoot, VisitSuccessor, PrintNode, Phases
<1>3. CASE EndHeader
  BY <1>3 DEF EndHeader, Phases
<1>4. CASE PrintField
  <2> DEFINE t == fields[InnerBody.done + 1].to
  <2>1. advanced(bodies) # << >> /\ advanced(bodies)[1].type = bodies[1].type
    BY <1>0, <1>4, AdvancedKeepsOutermost DEF PrintField
  <2>2. advanced(bodies) \in Seq(Body) /\ t \in Type
    BY <1>0, <1>4, AdvancedBodiesAreBounded DEF PrintField, TypeOK, BoundedBodies
  <2>3. Open(advanced(bodies), t)[1].type = bodies[1].type
    BY <2>1, <2>2, OpenKeepsOutermost
  <2>4. bodies' = advanced(bodies) \/ bodies' = Open(advanced(bodies), t)
    BY <1>4 DEF PrintField
  <2> HIDE DEF t
  <2>5. (bodies[1].type)' = bodies[1].type
    BY <2>1, <2>3, <2>4
  <2> QED  BY <1>4, <2>5 DEF PrintField, Phases
<1>5. CASE EndBody
  <2>1. \/ bodies' # << >> /\ (bodies[1].type)' = bodies[1].type
        \/ bodies' = << >>
    BY <1>0, <1>5, FrontKeepsOutermost DEF EndBody
  <2> QED  BY <1>5, <2>1 DEF EndBody, Phases
<1>6. CASE PrintFunctionBody
  <2>1. PICK t \in functions : bodies' = IF t \in inlined THEN Open(bodies, t) ELSE bodies
    BY <1>6 DEF PrintFunctionBody
  <2>2. t \in inlined => (bodies[1].type)' = t
    BY <1>0, <1>6, <2>1, OpenKeepsOutermost DEF PrintFunctionBody
  <2>3. t \notin inlined => bodies' = << >>
    BY <1>6, <2>1 DEF PrintFunctionBody
  <2> QED  BY <1>6, <2>2, <2>3 DEF PrintFunctionBody, Phases
<1>7. CASE PrintSingleType
  BY <1>7 DEF PrintSingleType, Phases
<1>8. CASE UNCHANGED vars
  BY <1>8 DEF vars, Phases
<1> QED  BY <1>1, <1>2, <1>3, <1>4, <1>5, <1>6, <1>7, <1>8 DEF Next

(* To go on with the visit finishes no node.                                *)
LEMMA PushFinishesNothing ==
  ASSUME NEW stack \in Seq(Frame), NEW n \in TypeNode, DOMAIN stack = DOMAIN VisitStack,
         \A i \in DOMAIN stack : stack[i].node = VisitStack[i].node,
         Defined' = Defined \cup {n},
         VisitStack' = IF n \in Defined THEN stack ELSE Push(stack, n)
  PROVE  Finished' \subseteq Finished
<1>1. [node |-> n, done |-> 0] \in Frame
  BY DEF Frame
<1> DEFINE new == Push(stack, n)
<1>2. /\ DOMAIN new = DOMAIN stack \cup {Len(stack) + 1}
      /\ new[Len(stack) + 1] = [node |-> n, done |-> 0]
      /\ \A i \in DOMAIN stack : new[i] = stack[i]
  BY <1>1, AppendFacts DEF Push
<1> HIDE DEF new
<1>3. CASE n \in Defined
  <2>1. onStack' = onStack
    BY <1>3 DEF onStack
  <2> QED  BY <1>3, <2>1 DEF Finished
<1>4. CASE n \notin Defined
  <2>1. VisitStack' = new
    BY <1>4 DEF new
  <2>2. n \in onStack'
    BY <1>2, <2>1 DEF onStack
  <2>3. onStack \subseteq onStack'
    BY <1>2, <2>1 DEF onStack
  <2> QED  BY <2>2, <2>3 DEF Finished
<1> QED  BY <1>3, <1>4

LEMMA NextFinishedIsPrinted == IndInv /\ [Next]_vars => FinishedIsPrinted'
<1> SUFFICES ASSUME IndInv, [Next]_vars PROVE FinishedIsPrinted'
  OBVIOUS
<1> USE DEF IndInv
<1>0. /\ m \in Model /\ BoundedBodies(bodies) /\ bodies \in Seq(Body) /\ out \in Seq(TypeNode)
      /\ VisitStack \in Seq(Frame) /\ Defined \subseteq TypeNode /\ Finished \subseteq TypeNode
      /\ root \in 0..NodesCount
  BY DEF TypeOK, BoundedBodies, Finished
<1>1. CASE printModelHeader \/ PrintSingleType
  <2>1. Defined' = {}
    BY <1>1 DEF printModelHeader, PrintSingleType, Phases
  <2> QED  BY <2>1 DEF FinishedIsPrinted, Finished
<1>2. ASSUME NextRoot \/ VisitSuccessor PROVE FinishedIsPrinted'
  <2>1. Finished' \subseteq Finished
    <3>1. CASE NextRoot
      <4>1. nodes(root + 1) \in TypeNode
        <5>1. root + 1 \in 1..NodesCount
          BY <1>0, <3>1, RootsAreNodes DEF NextRoot, moreRoots
        <5> QED  BY <5>1, RootsAreNodes
      <4> QED  BY <1>0, <3>1, <4>1, PushFinishesNothing DEF NextRoot
    <3>2. CASE VisitSuccessor
      <4> DEFINE n == successorsOfTop[Top.done + 1]
                 stack == advanced(VisitStack)
      <4>1. /\ n \in TypeNode /\ stack \in Seq(Frame) /\ DOMAIN stack = DOMAIN VisitStack
            /\ \A i \in DOMAIN stack : stack[i].node = VisitStack[i].node
        BY <3>2, AdvancedIsDefined DEF VisitSuccessor
      <4>2. /\ Defined' = Defined \cup {n}
            /\ VisitStack' = IF n \in Defined THEN stack ELSE Push(stack, n)
        BY <3>2 DEF VisitSuccessor
      <4> HIDE DEF n, stack
      <4> QED  BY <4>1, <4>2, PushFinishesNothing
    <3> QED  BY <1>2, <3>1, <3>2
  <2>2. UNCHANGED <<m, inlined, TypesToOmit, bodies, out>>
    BY <1>2 DEF NextRoot, VisitSuccessor
  <2> QED  BY <2>1, <2>2 DEF FinishedIsPrinted, IsPrinted, definesOnItsOwn, isDeclarationTheSameAsDefinition
<1>3. CASE PrintNode
  <2>0. PICK n : n = Top.node
    OBVIOUS
  <2> DEFINE t == n[1]
  <2>1. /\ VisitStack # << >> /\ bodies = << >> /\ UNCHANGED <<m, inlined, TypesToOmit, Defined>>
        /\ VisitStack' = Front(VisitStack)
        /\ out' = IF t \notin TypesToOmit /\ n = Decl(t) THEN Append(out, Decl(t)) ELSE out
        /\ bodies' = IF t \notin TypesToOmit /\ n # Decl(t) /\ definesOnItsOwn(t)
                     THEN Open(bodies, t) ELSE bodies
    BY <1>3, <2>0 DEF PrintNode
  <2>2. Top \in Frame /\ n \in TypeNode /\ t \in Type /\ Decl(t) \in TypeNode
    <3>1. Top \in Frame
      BY <1>0, <2>1, FrontFacts DEF Top
    <3> QED  BY <2>0, <3>1, NodesOfTypes DEF Frame, TypeNode
  <2>3. Finished' \subseteq Finished \cup {n}
    <3>1. onStack \subseteq onStack' \cup {n}
      BY <1>0, <2>0, <2>1, FrontFacts DEF onStack, Top
    <3> QED  BY <2>1, <3>1 DEF Finished
  <2>4. ToSet(Append(out, Decl(t))) = ToSet(out) \cup {Decl(t)}
    BY <1>0, <2>2, AppendFacts
  <2>5. ToSet(out) \subseteq ToSet(out)'
    BY <2>1, <2>4
  <2>6. t \notin TypesToOmit => IsPrinted(n)'
    <3> SUFFICES ASSUME t \notin TypesToOmit PROVE IsPrinted(n)'
      OBVIOUS
    <3>1. (definesOnItsOwn(t))' <=> definesOnItsOwn(t)
      BY <2>1 DEF definesOnItsOwn, isDeclarationTheSameAsDefinition
    <3>2. n = <<t, n[2]>>
      BY <2>2 DEF TypeNode
    <3>3. CASE n[2] = "Declaration"
      <4>1. n = Decl(t) /\ n \in ToSet(out)'
        BY <2>1, <2>4, <3>2, <3>3 DEF Decl
      <4> QED  BY <3>3, <4>1 DEF IsPrinted
    <3>4. CASE n[2] = "Definition"
      <4>1. n # Decl(t)
        BY <3>4 DEF Decl
      <4>2. definesOnItsOwn(t) => bodies' # << >> /\ (bodies[1].type)' = t
        BY <1>0, <2>1, <2>2, <4>1, OpenKeepsOutermost
      <4> QED  BY <3>1, <3>4, <4>2 DEF IsPrinted
    <3> QED  BY <2>2, <3>3, <3>4 DEF TypeNode
  <2>7. ASSUME NEW x \in Finished, x[1] \notin TypesToOmit PROVE IsPrinted(x)'
    BY <1>0, <2>1, <2>5, <2>7, PrintedIsKept DEF FinishedIsPrinted
  <2> QED  BY <2>1, <2>3, <2>6, <2>7 DEF FinishedIsPrinted
<1>4. ASSUME m' = m, UNCHANGED <<inlined, TypesToOmit, Defined, VisitStack>>,
             ToSet(out) \subseteq ToSet(out)',
             bodies # << >> =>
               \/ bodies' # << >> /\ (bodies[1].type)' = bodies[1].type
               \/ Def(bodies[1].type) \in ToSet(out)'
      PROVE  FinishedIsPrinted'
  <2>1. Finished' = Finished
    BY <1>4 DEF Finished, onStack
  <2>2. ASSUME NEW n \in Finished, n[1] \notin TypesToOmit PROVE IsPrinted(n)'
    BY <1>0, <1>4, <2>2, PrintedIsKept DEF FinishedIsPrinted
  <2> QED  BY <1>4, <2>1, <2>2 DEF FinishedIsPrinted
<1>5. CASE EndHeader
  BY <1>4, <1>5 DEF EndHeader
<1>6. CASE PrintField
  <2> DEFINE t == fields[InnerBody.done + 1].to
  <2>1. advanced(bodies) # << >> /\ advanced(bodies)[1].type = bodies[1].type
    BY <1>0, <1>6, AdvancedKeepsOutermost DEF PrintField
  <2>2. advanced(bodies) \in Seq(Body) /\ t \in Type
    BY <1>0, <1>6, AdvancedBodiesAreBounded DEF PrintField, BoundedBodies
  <2>3. Open(advanced(bodies), t) # << >> /\ Open(advanced(bodies), t)[1].type = bodies[1].type
    BY <2>1, <2>2, OpenKeepsOutermost
  <2>4. bodies' = advanced(bodies) \/ bodies' = Open(advanced(bodies), t)
    BY <1>6 DEF PrintField
  <2> HIDE DEF t
  <2>5. bodies' # << >> /\ (bodies[1].type)' = bodies[1].type
    BY <2>1, <2>3, <2>4
  <2> QED  BY <1>4, <1>6, <2>5 DEF PrintField
<1>7. CASE EndBody
  <2>1. /\ bodies # << >> /\ out' = Append(out, Def(InnerBody.type)) /\ bodies' = Front(bodies)
    BY <1>7 DEF EndBody
  <2>2. Def(InnerBody.type) \in TypeNode
    <3>1. InnerBody \in Body
      BY <1>0, <2>1, FrontFacts DEF InnerBody
    <3> QED  BY <3>1, NodesOfTypes DEF Body
  <2>3. ToSet(out)' = ToSet(out) \cup {Def(InnerBody.type)}
    BY <1>0, <2>1, <2>2, AppendFacts
  <2>4. \/ bodies' # << >> /\ (bodies[1].type)' = bodies[1].type
        \/ Def(bodies[1].type) \in ToSet(out)'
    BY <1>0, <2>1, <2>3, FrontKeepsOutermost
  <2> QED  BY <1>4, <1>7, <2>3, <2>4 DEF EndBody
<1>8. CASE PrintFunctionBody
  BY <1>4, <1>8 DEF PrintFunctionBody
<1>9. CASE UNCHANGED vars
  BY <1>4, <1>9 DEF vars
<1> QED  BY <1>1, <1>2, <1>3, <1>5, <1>6, <1>7, <1>8, <1>9 DEF Next

LEMMA CompleteWhenFinished == IndInv => HeaderIsComplete
<1> SUFFICES ASSUME IndInv, pc = "functions", NEW t \in Type, t \notin TypesToOmit
             PROVE  /\ Decl(t) \in ToSet(out)
                    /\ isDeclarationTheSameAsDefinition(m, t) \/ t \in inlined
                       \/ Def(t) \in ToSet(out)
  BY DEF HeaderIsComplete
<1>1. VisitStack = << >> /\ root = NodesCount
  BY DEF IndInv, Phases
<1>2. \A n \in TypeNode : n \in Defined
  BY <1>1, RootsAreNodes DEF IndInv, Visit, RootsAreDefined
<1>3. onStack = {}
  BY <1>1 DEF onStack
<1>4. \A n \in TypeNode : n[1] \notin TypesToOmit => IsPrinted(n)
  BY <1>2, <1>3 DEF IndInv, FinishedIsPrinted, Finished
<1>5. IsPrinted(Decl(t)) /\ IsPrinted(Def(t))
  BY <1>4, NodesOfTypes DEF Decl, Def
<1> QED  BY <1>5 DEF IsPrinted, Decl, Def, IndInv, Phases, definesOnItsOwn

LEMMA InitIndInv == Init => IndInv
<1>1. Init => Phases /\ FinishedIsPrinted
  BY DEF Init, Phases, FinishedIsPrinted, Finished
<1> QED  BY <1>1, InitTypeOK, InitVisit DEF IndInv

LEMMA NextIndInv == IndInv /\ [Next]_vars => IndInv'
BY NextTypeOK, NextVisit, NextPhases, NextFinishedIsPrinted DEF IndInv

(* Every type that is not omitted is declared in a whole header, and every  *)
(* struct and enum that is not printed in its user is defined in it, whether*)
(* or not the dependencies have cycles, and whatever the options.           *)
THEOREM HeaderIsAlwaysComplete == Spec => []HeaderIsComplete
BY CompleteWhenFinished, InitIndInv, NextIndInv, PTL DEF Spec

------------------------------------------------------------------------------
(* What the count of its users says of a type that is inlined.              *)
edgesFrom(mod) == UNION {{p} \X DOMAIN registerDependencies(mod, p) : p \in TypeNode}
edgesTo(mod, t) == predecessors(mod, Decl(t)) \cup predecessors(mod, Def(t))

LEMMA EdgesAreFinite ==
  ASSUME NEW mod \in Model
  PROVE  IsFiniteSet(edgesFrom(mod))
<1> DEFINE edges == [p \in TypeNode |-> {p} \X DOMAIN registerDependencies(mod, p)]
           all == {edges[p] : p \in TypeNode}
<1>1. IsFiniteSet(TypeNode)
  <2>1. IsFiniteSet(Type)
    BY TypesCountAssumption, FS_Interval DEF Type
  <2>2. IsFiniteSet({"Declaration", "Definition"})
    <3>1. IsFiniteSet({"Declaration"} \cup {"Definition"})
      BY FS_Singleton, FS_AddElement
    <3>2. {"Declaration"} \cup {"Definition"} = {"Declaration", "Definition"}
      OBVIOUS
    <3> QED  BY <3>1, <3>2
  <2> QED  BY <2>1, <2>2, FS_Product DEF TypeNode
<1>2. ASSUME NEW p \in TypeNode PROVE IsFiniteSet(edges[p])
  <2>1. Len(registerDependencies(mod, p)) \in Nat
        /\ DOMAIN registerDependencies(mod, p) = 1..Len(registerDependencies(mod, p))
    BY DependenciesAreNodes, LenProperties
  <2>2. IsFiniteSet(DOMAIN registerDependencies(mod, p))
    BY <2>1, FS_Interval
  <2> QED  BY <2>2, FS_Singleton, FS_Product
<1>3. edges \in Surjection(TypeNode, all)
  BY DEF Surjection
<1>4. IsFiniteSet(all)
  BY <1>1, <1>3, FS_Surjection
<1>5. IsFiniteSet(UNION all)
  BY <1>2, <1>4, FS_UNION
<1>6. edgesFrom(mod) = UNION all
  BY DEF edgesFrom
<1> QED  BY <1>5, <1>6

LEMMA UsesAreCounted ==
  ASSUME NEW mod \in Model, NEW t \in Type
  PROVE  /\ IsFiniteSet(edgesTo(mod, t)) /\ Cardinality(edgesTo(mod, t)) \in Nat
         /\ predecessorCount(mod, Decl(t)) \in Nat /\ predecessorCount(mod, Def(t)) \in Nat
         /\ predecessorCount(mod, Decl(t)) + predecessorCount(mod, Def(t))
              = Cardinality(edgesTo(mod, t))
<1> DEFINE A == predecessors(mod, Decl(t))
           B == predecessors(mod, Def(t))
<1>1. A \subseteq edgesFrom(mod) /\ B \subseteq edgesFrom(mod)
  BY DEF predecessors, edgesFrom
<1>2. IsFiniteSet(A) /\ IsFiniteSet(B)
  BY <1>1, EdgesAreFinite, FS_Subset
<1>3. A \cap B = {}
  BY DEF predecessors, Decl, Def
<1>4. Cardinality(A) \in Nat /\ Cardinality(B) \in Nat
  BY <1>2, FS_CardinalityType
<1> HIDE DEF A, B
<1>5. Cardinality(A \cap B) = 0
  BY <1>3, FS_EmptySet
<1>6. IsFiniteSet(A \cup B) /\ Cardinality(A \cup B) = Cardinality(A) + Cardinality(B)
  <2>1. /\ IsFiniteSet(A \cup B)
        /\ Cardinality(A \cup B) = Cardinality(A) + Cardinality(B) - Cardinality(A \cap B)
    BY <1>2, FS_Union
  <2> QED  BY <1>4, <1>5, <2>1
<1> QED  BY <1>4, <1>6, FS_CardinalityType DEF edgesTo, predecessorCount, A, B

(* A finite set has at least as many elements as one can name.              *)
LEMMA CountOfTwo ==
  ASSUME NEW S, IsFiniteSet(S), NEW a \in S, NEW b \in S, a # b
  PROVE  Cardinality(S) >= 2
<1>1. IsFiniteSet({a}) /\ Cardinality({a}) = 1
  BY FS_Singleton
<1>2. IsFiniteSet({a} \cup {b}) /\ Cardinality({a} \cup {b}) = 2
  <2>1. b \notin {a}
    OBVIOUS
  <2> QED  BY <1>1, <2>1, FS_AddElement
<1>3. {a} \cup {b} \in SUBSET S
  OBVIOUS
<1>4. Cardinality({a} \cup {b}) <= Cardinality(S)
  BY <1>3, FS_Subset
<1> QED  BY <1>2, <1>4

LEMMA CountOfThree ==
  ASSUME NEW S, IsFiniteSet(S), NEW a \in S, NEW b \in S, NEW c \in S,
         a # b, a # c, b # c
  PROVE  Cardinality(S) >= 3
<1>1. IsFiniteSet({a}) /\ Cardinality({a}) = 1
  BY FS_Singleton
<1>2. IsFiniteSet({a} \cup {b}) /\ Cardinality({a} \cup {b}) = 2
  <2>1. b \notin {a}
    OBVIOUS
  <2> QED  BY <1>1, <2>1, FS_AddElement
<1>3. IsFiniteSet(({a} \cup {b}) \cup {c}) /\ Cardinality(({a} \cup {b}) \cup {c}) = 3
  <2>1. c \notin {a} \cup {b}
    OBVIOUS
  <2> QED  BY <1>2, <2>1, FS_AddElement
<1>4. ({a} \cup {b}) \cup {c} \in SUBSET S
  OBVIOUS
<1>5. Cardinality(({a} \cup {b}) \cup {c}) <= Cardinality(S)
  BY <1>4, FS_Subset
<1> QED  BY <1>3, <1>5

(* A use of t by x is an edge from the definition of x, and from its        *)
(* declaration as well if it has no definition of its own.                  *)
IsUse(mod, x, i, t) == i \in DOMAIN mod.types[x].edges /\ mod.types[x].edges[i].to = t

LEMMA UsesAreEdges ==
  ASSUME NEW mod \in Model, NEW t \in Type, NEW x \in Type, NEW i, IsUse(mod, x, i, t)
  PROVE  /\ i \in Nat \ {0}
         /\ <<Def(x), i + 1>> \in edgesTo(mod, t)
         /\ registerDependencies(mod, Def(x))[i + 1] \in {Decl(t), Def(t)}
         /\ i + 1 \in DOMAIN registerDependencies(mod, Def(x))
         /\ isDeclarationTheSameAsDefinition(mod, x) => <<Decl(x), i>> \in edgesTo(mod, t)
<1> DEFINE deps == dependenciesOfEdges(mod, x, "Definition")
           reg == registerDependencies(mod, Def(x))
<1>1. mod.types[x].edges \in Seq(Use)
  BY DEF Model, Definition
<1>2. /\ Len(mod.types[x].edges) \in Nat
      /\ DOMAIN mod.types[x].edges = 1..Len(mod.types[x].edges)
  BY <1>1, LenProperties
<1>3. i \in Nat \ {0}
  BY <1>2 DEF IsUse
<1>4. \A w \in {"Declaration", "Definition"} :
        getDependencyFor(w, mod.types[x].edges[i]) \in {Decl(t), Def(t)}
  BY DEF IsUse, getDependencyFor, Decl, Def
<1>5. \A w \in {"Declaration", "Definition"} :
        /\ dependenciesOfEdges(mod, x, w) \in Seq(TypeNode)
        /\ Len(dependenciesOfEdges(mod, x, w)) = Len(mod.types[x].edges)
        /\ dependenciesOfEdges(mod, x, w)[i] \in {Decl(t), Def(t)}
  <2>1. \A u \in Use : \A w \in {"Declaration", "Definition"} : getDependencyFor(w, u) \in TypeNode
    BY DEF getDependencyFor, Use, TypeNode, Decl, Def
  <2>2. ASSUME NEW w \in {"Declaration", "Definition"}
        PROVE /\ dependenciesOfEdges(mod, x, w) \in Seq(TypeNode)
              /\ Len(dependenciesOfEdges(mod, x, w)) = Len(mod.types[x].edges)
              /\ dependenciesOfEdges(mod, x, w)[i] \in {Decl(t), Def(t)}
    <3>1. \A k \in 1..Len(mod.types[x].edges) : mod.types[x].edges[k] \in Use
      BY <1>1, ElementOfSeq
    <3>2. dependenciesOfEdges(mod, x, w)
            = [k \in 1..Len(mod.types[x].edges) |-> getDependencyFor(w, mod.types[x].edges[k])]
      BY <1>2 DEF dependenciesOfEdges
    <3>3. dependenciesOfEdges(mod, x, w) \in [1..Len(mod.types[x].edges) -> TypeNode]
      BY <2>1, <3>1, <3>2
    <3>4. dependenciesOfEdges(mod, x, w) \in Seq(TypeNode)
      BY <1>2, <3>3, IsASeq
    <3> QED  BY <1>2, <1>4, <3>2, <3>3, <3>4, LenProperties DEF IsUse
  <2> QED  BY <2>2
<1>6. Def(x)[1] = x /\ Def(x)[2] = "Definition" /\ Decl(x)[1] = x /\ Decl(x)[2] = "Declaration"
  BY DEF Def, Decl
<1>7. reg = <<Decl(x)>> \o deps
  BY <1>6 DEF registerDependencies
<1>8. deps \in Seq(TypeNode) /\ Len(deps) = Len(mod.types[x].edges) /\ deps[i] \in {Decl(t), Def(t)}
  BY <1>5
<1> HIDE DEF deps
<1>9. reg[i + 1] \in {Decl(t), Def(t)} /\ i + 1 \in DOMAIN reg
  <2>1. <<Decl(x)>> \in Seq(TypeNode) /\ Len(<<Decl(x)>>) = 1
    BY NodesOfTypes
  <2>2. i + 1 \in 1..(1 + Len(deps)) /\ i + 1 > 1 /\ (i + 1) - 1 = i
    BY <1>2, <1>3, <1>8 DEF IsUse
  <2> QED  BY <1>7, <1>8, <2>1, <2>2, ConcatProperties, LenProperties
<1> HIDE DEF reg
<1>10. <<Def(x), i + 1>> \in edgesTo(mod, t)
  <2>1. Def(x) \in TypeNode
    BY NodesOfTypes
  <2>2. <<Def(x), i + 1>> \in UNION {{p} \X DOMAIN registerDependencies(mod, p) : p \in TypeNode}
    <3>1. <<Def(x), i + 1>> \in {Def(x)} \X DOMAIN registerDependencies(mod, Def(x))
      BY <1>9 DEF reg
    <3> QED  BY <2>1, <3>1
  <2> QED  BY <1>9, <2>2 DEF edgesTo, predecessors, reg
<1>11. ASSUME isDeclarationTheSameAsDefinition(mod, x) PROVE <<Decl(x), i>> \in edgesTo(mod, t)
  <2>1. registerDependencies(mod, Decl(x)) = dependenciesOfEdges(mod, x, "Declaration")
    BY <1>6, <1>11 DEF registerDependencies
  <2>2. /\ registerDependencies(mod, Decl(x))[i] \in {Decl(t), Def(t)}
        /\ i \in DOMAIN registerDependencies(mod, Decl(x))
    BY <1>2, <1>5, <2>1, LenProperties DEF IsUse
  <2>3. <<Decl(x), i>> \in UNION {{p} \X DOMAIN registerDependencies(mod, p) : p \in TypeNode}
    <3>1. <<Decl(x), i>> \in {Decl(x)} \X DOMAIN registerDependencies(mod, Decl(x))
      BY <2>2
    <3> QED  BY <3>1, NodesOfTypes
  <2> QED  BY <2>2, <2>3 DEF edgesTo, predecessors
<1> QED  BY <1>3, <1>9, <1>10, <1>11 DEF reg

(* The definition of a type has an edge to its declaration, and there is no *)
(* other edge to the type than that one and its uses.                       *)
LEMMA EdgesAreUses ==
  ASSUME NEW mod \in Model, NEW t \in Type
  PROVE  /\ <<Def(t), 1>> \in edgesTo(mod, t)
         /\ 1 \in DOMAIN registerDependencies(mod, Def(t))
         /\ registerDependencies(mod, Def(t))[1] = Decl(t)
         /\ (\A x \in Type : \A i : ~IsUse(mod, x, i, t)) => edgesTo(mod, t) = {<<Def(t), 1>>}
<1>1. \A x \in Type : \A w \in {"Declaration", "Definition"} :
        dependenciesOfEdges(mod, x, w) \in Seq(TypeNode)
  <2> SUFFICES ASSUME NEW x \in Type, NEW w \in {"Declaration", "Definition"}
               PROVE  dependenciesOfEdges(mod, x, w) \in Seq(TypeNode)
    OBVIOUS
  <2>1. \A u \in Use : getDependencyFor(w, u) \in TypeNode
    BY DEF getDependencyFor, Use, TypeNode, Decl, Def
  <2>2. mod.types[x].edges \in Seq(Use)
    BY DEF Model, Definition
  <2> QED  BY <2>1, <2>2 DEF dependenciesOfEdges
<1>2. \A x \in Type : Def(x)[1] = x /\ Def(x)[2] = "Definition"
                      /\ Decl(x)[1] = x /\ Decl(x)[2] = "Declaration"
  BY DEF Def, Decl
<1>3. \A x \in Type : <<Decl(x)>> \in Seq(TypeNode) /\ Len(<<Decl(x)>>) = 1 /\ <<Decl(x)>>[1] = Decl(x)
  BY NodesOfTypes
<1>4. \A x \in Type : registerDependencies(mod, Def(x))
                        = <<Decl(x)>> \o dependenciesOfEdges(mod, x, "Definition")
  BY <1>2 DEF registerDependencies
<1>5. 1 \in DOMAIN registerDependencies(mod, Def(t)) /\ registerDependencies(mod, Def(t))[1] = Decl(t)
  <2> DEFINE deps == dependenciesOfEdges(mod, t, "Definition")
  <2>1. deps \in Seq(TypeNode) /\ Len(deps) \in Nat
    BY <1>1, LenProperties
  <2> HIDE DEF deps
  <2>2. 1 \in 1..(1 + Len(deps)) /\ 1 <= 1
    BY <2>1
  <2>3. registerDependencies(mod, Def(t)) = <<Decl(t)>> \o deps
    BY <1>4 DEF deps
  <2> QED  BY <1>3, <2>1, <2>2, <2>3, ConcatProperties, LenProperties
<1>6. <<Def(t), 1>> \in edgesTo(mod, t)
  <2>1. <<Def(t), 1>> \in {Def(t)} \X DOMAIN registerDependencies(mod, Def(t))
    BY <1>5
  <2>2. <<Def(t), 1>> \in UNION {{p} \X DOMAIN registerDependencies(mod, p) : p \in TypeNode}
    BY <2>1, NodesOfTypes
  <2> QED  BY <1>5, <2>2 DEF edgesTo, predecessors
<1>7. ASSUME \A x \in Type : \A i : ~IsUse(mod, x, i, t), NEW e \in edgesTo(mod, t)
      PROVE  e = <<Def(t), 1>>
  <2>0. PICK p \in TypeNode : \E j \in DOMAIN registerDependencies(mod, p) :
          e = <<p, j>> /\ registerDependencies(mod, p)[j] \in {Decl(t), Def(t)}
    BY DEF edgesTo, predecessors
  <2>1. PICK j \in DOMAIN registerDependencies(mod, p) :
          e = <<p, j>> /\ registerDependencies(mod, p)[j] \in {Decl(t), Def(t)}
    BY <2>0
  <2>2. PICK x \in Type, k \in {"Declaration", "Definition"} : p = <<x, k>>
    BY DEF TypeNode
  <2>3. ASSUME NEW w \in {"Declaration", "Definition"}, NEW i \in DOMAIN mod.types[x].edges
        PROVE  dependenciesOfEdges(mod, x, w)[i] \notin {Decl(t), Def(t)}
    <3>1. mod.types[x].edges[i].to # t
      BY <1>7 DEF IsUse
    <3> QED  BY <3>1 DEF dependenciesOfEdges, getDependencyFor, Decl, Def
  <2>4. DOMAIN dependenciesOfEdges(mod, x, "Definition") = DOMAIN mod.types[x].edges
        /\ DOMAIN dependenciesOfEdges(mod, x, "Declaration") = DOMAIN mod.types[x].edges
    BY DEF dependenciesOfEdges
  <2>5. CASE k = "Declaration"
    <3>1. p[2] # "Definition" /\ p[1] = x
      BY <2>2, <2>5
    <3>2. CASE isDeclarationTheSameAsDefinition(mod, x)
      <4>1. registerDependencies(mod, p) = dependenciesOfEdges(mod, x, "Declaration")
        BY <3>1, <3>2 DEF registerDependencies
      <4> QED  BY <2>1, <2>3, <2>4, <4>1
    <3>3. CASE ~isDeclarationTheSameAsDefinition(mod, x)
      <4>1. registerDependencies(mod, p) = << >>
        BY <3>1, <3>3 DEF registerDependencies
      <4>2. DOMAIN registerDependencies(mod, p) = {}
        BY <4>1
      <4> QED  BY <2>1, <4>2
    <3> QED  BY <3>2, <3>3
  <2>6. CASE k = "Definition"
    <3> DEFINE deps == dependenciesOfEdges(mod, x, "Definition")
    <3>1. p = Def(x) /\ registerDependencies(mod, p) = <<Decl(x)>> \o deps
      BY <1>4, <2>2, <2>6 DEF Def
    <3>2. deps \in Seq(TypeNode) /\ Len(deps) \in Nat /\ DOMAIN deps = 1..Len(deps)
      BY <1>1, LenProperties
    <3>3. \A i \in DOMAIN deps : deps[i] \notin {Decl(t), Def(t)}
      BY <2>3, <2>4
    <3> HIDE DEF deps
    <3>4. /\ <<Decl(x)>> \o deps \in Seq(TypeNode) /\ Len(<<Decl(x)>> \o deps) = 1 + Len(deps)
          /\ \A i \in 1..(1 + Len(deps)) : (<<Decl(x)>> \o deps)[i] = IF i <= 1 THEN <<Decl(x)>>[i] ELSE deps[i - 1]
      BY <1>3, <3>2, ConcatProperties
    <3>5. j \in 1..(1 + Len(deps))
      BY <2>1, <3>1, <3>4, LenProperties
    <3>6. CASE j = 1
      <4>1. Decl(x) \in {Decl(t), Def(t)}
        BY <1>3, <2>1, <3>1, <3>4, <3>5, <3>6
      <4>2. x = t
        BY <4>1 DEF Decl, Def
      <4> QED  BY <2>1, <3>1, <3>6, <4>2
    <3>7. CASE j # 1
      <4>1. j - 1 \in DOMAIN deps /\ ~(j <= 1)
        BY <3>2, <3>5, <3>7
      <4>2. registerDependencies(mod, p)[j] = deps[j - 1]
        BY <3>1, <3>4, <3>5, <4>1
      <4> QED  BY <2>1, <3>3, <4>1, <4>2
    <3> QED  BY <3>6, <3>7
  <2> QED  BY <2>2, <2>5, <2>6
<1> QED  BY <1>5, <1>6, <1>7

(* A type that is inlined is the stack frame of a function and nothing uses *)
(* it, or it has one use and no more, in a type with a definition; if the   *)
(* user is the type itself, it wants the definition.                        *)
LEMMA InlinedIsUsedOnce ==
  ASSUME NEW mod \in Model, NEW t \in TypesToInline(mod)
  PROVE  /\ ~isDeclarationTheSameAsDefinition(mod, t)
         /\ \A x, y \in Type : \A i, j :
              IsUse(mod, x, i, t) /\ IsUse(mod, y, j, t) => x = y /\ i = j
         /\ t \in mod.frames <=> \A x \in Type : \A i : ~IsUse(mod, x, i, t)
         /\ \A x \in Type : \A i : IsUse(mod, x, i, t) =>
              /\ ~isDeclarationTheSameAsDefinition(mod, x)
              /\ x = t => Def(t) \in Successors(mod, Def(t))
<1> DEFINE edges == edgesTo(mod, t)
           total == Cardinality(edges)
           reg == registerDependencies(mod, Def(t))
           self == {i \in DOMAIN reg : reg[i] = Decl(t)}
<1>1. t \in Type /\ ~isDeclarationTheSameAsDefinition(mod, t) /\ DependentTypeCount(mod, t) = 1
  BY DEF TypesToInline
<1>2. IsFiniteSet(edges) /\ total \in Nat
  BY <1>1, UsesAreCounted
<1>3. total - (IF Cardinality(self) = 1 THEN 1 ELSE 0) + (IF t \in mod.frames THEN 1 ELSE 0) = 1
  <2>1. selfEdgeToIgnore(mod, t) = IF Cardinality(self) = 1 THEN 1 ELSE 0
    BY DEF selfEdgeToIgnore, edgesBetween
  <2>2. /\ predecessorCount(mod, Decl(t)) \in Nat /\ predecessorCount(mod, Def(t)) \in Nat
        /\ predecessorCount(mod, Decl(t)) + predecessorCount(mod, Def(t)) = total
    BY <1>1, UsesAreCounted
  <2> QED  BY <1>1, <1>2, <2>1, <2>2 DEF DependentTypeCount
<1>4. <<Def(t), 1>> \in edges /\ 1 \in self
  BY <1>1, EdgesAreUses
<1>5. IsFiniteSet(self)
  <2>1. Len(reg) \in Nat /\ DOMAIN reg = 1..Len(reg)
    BY <1>1, NodesOfTypes, DependenciesAreNodes, LenProperties
  <2>2. IsFiniteSet(DOMAIN reg)
    BY <2>1, FS_Interval
  <2> QED  BY <2>2, FS_Subset
<1>6. ASSUME NEW j \in self, j # 1 PROVE FALSE
  <2>1. Cardinality(self) >= 2 /\ Cardinality(self) \in Nat
    BY <1>4, <1>5, <1>6, CountOfTwo, FS_CardinalityType
  <2>2. Cardinality(self) # 1
    BY <2>1
  <2>3. total <= 1
    BY <1>2, <1>3, <2>2
  <2>4. <<Def(t), j>> \in edges /\ <<Def(t), j>> # <<Def(t), 1>>
    <3>1. <<Def(t), j>> \in {Def(t)} \X DOMAIN registerDependencies(mod, Def(t))
      BY <1>6
    <3>2. <<Def(t), j>> \in UNION {{p} \X DOMAIN registerDependencies(mod, p) : p \in TypeNode}
      BY <1>1, <3>1, NodesOfTypes
    <3> QED  BY <1>6, <3>2 DEF edgesTo, predecessors
  <2>5. total >= 2
    BY <1>2, <1>4, <2>4, CountOfTwo
  <2> QED  BY <1>2, <2>3, <2>5
<1>7. self = {1} /\ Cardinality(self) = 1
  <2>1. self = {1}
    BY <1>4, <1>6
  <2> QED  BY <2>1, FS_Singleton
<1>8. total = IF t \in mod.frames THEN 1 ELSE 2
  BY <1>2, <1>3, <1>7
<1>9. \A x \in Type : \A i : IsUse(mod, x, i, t) =>
        i \in Nat \ {0} /\ <<Def(x), i + 1>> \in edges /\ <<Def(x), i + 1>> # <<Def(t), 1>>
  <2> SUFFICES ASSUME NEW x \in Type, NEW i, IsUse(mod, x, i, t)
               PROVE  i \in Nat \ {0} /\ <<Def(x), i + 1>> \in edges /\ <<Def(x), i + 1>> # <<Def(t), 1>>
    OBVIOUS
  <2>1. i \in Nat \ {0} /\ <<Def(x), i + 1>> \in edges
    BY <1>1, UsesAreEdges
  <2>2. i + 1 # 1
    BY <2>1
  <2> QED  BY <2>1, <2>2
<1>10. ASSUME NEW x \in Type, NEW y \in Type, NEW i, NEW j, IsUse(mod, x, i, t), IsUse(mod, y, j, t)
       PROVE  x = y /\ i = j
  <2>1. i \in Nat /\ <<Def(x), i + 1>> \in edges /\ <<Def(x), i + 1>> # <<Def(t), 1>>
    BY <1>9, <1>10
  <2>2. j \in Nat /\ <<Def(y), j + 1>> \in edges /\ <<Def(y), j + 1>> # <<Def(t), 1>>
    BY <1>9, <1>10
  <2>3. <<Def(x), i + 1>> = <<Def(y), j + 1>>
    <3>1. SUFFICES ASSUME <<Def(x), i + 1>> # <<Def(y), j + 1>> PROVE FALSE
      OBVIOUS
    <3>2. total >= 3
      BY <1>2, <1>4, <2>1, <2>2, <3>1, CountOfThree
    <3> QED  BY <1>2, <1>8, <3>2
  <2>4. Def(x) = Def(y) /\ i + 1 = j + 1
    BY <2>3
  <2> QED  BY <2>1, <2>2, <2>4 DEF Def
<1>11. ASSUME t \in mod.frames, NEW x \in Type, NEW i, IsUse(mod, x, i, t) PROVE FALSE
  <2>1. total >= 2
    BY <1>2, <1>4, <1>9, <1>11, CountOfTwo
  <2> QED  BY <1>8, <1>11, <2>1
<1>12. ASSUME \A x \in Type : \A i : ~IsUse(mod, x, i, t) PROVE t \in mod.frames
  <2>1. edges = {<<Def(t), 1>>}
    BY <1>1, <1>12, EdgesAreUses
  <2>2. total = 1
    BY <2>1, FS_Singleton
  <2> QED  BY <1>8, <2>2
<1>13. ASSUME NEW x \in Type, NEW i, IsUse(mod, x, i, t) PROVE ~isDeclarationTheSameAsDefinition(mod, x)
  <2>1. SUFFICES ASSUME isDeclarationTheSameAsDefinition(mod, x) PROVE FALSE
    OBVIOUS
  <2>2. <<Decl(x), i>> \in edges
    BY <1>1, <1>13, <2>1, UsesAreEdges
  <2>3. Decl(x) # Def(x) /\ Decl(x) # Def(t)
    BY DEF Decl, Def
  <2>4. /\ <<Def(x), i + 1>> \in edges /\ <<Def(x), i + 1>> # <<Def(t), 1>>
        /\ <<Decl(x), i>> # <<Def(t), 1>> /\ <<Decl(x), i>> # <<Def(x), i + 1>>
    BY <1>9, <1>13, <2>3
  <2>5. total >= 3
    BY <1>2, <1>4, <2>2, <2>4, CountOfThree
  <2> QED  BY <1>8, <2>5
<1>14. ASSUME NEW i, IsUse(mod, t, i, t) PROVE Def(t) \in Successors(mod, Def(t))
  <2>1. i \in Nat \ {0} /\ i + 1 \in DOMAIN reg /\ reg[i + 1] \in {Decl(t), Def(t)}
    BY <1>1, <1>14, UsesAreEdges
  <2>2. i + 1 \notin self
    <3>1. i + 1 # 1
      BY <2>1
    <3> QED  BY <1>7, <3>1
  <2>3. reg[i + 1] = Def(t)
    BY <2>1, <2>2
  <2> QED  BY <2>1, <2>3 DEF Successors, ToSet
<1> QED  BY <1>1, <1>10, <1>11, <1>12, <1>13, <1>14

------------------------------------------------------------------------------
(* What the steps that print do to the definitions being printed.           *)
LEMMA PrintFieldStep ==
  ASSUME TypeOK, PrintField
  PROVE  \E n \in Nat \ {0}, k \in Nat \ {0}, t \in Type :
           /\ UNCHANGED <<m, conf, pc, inlined, TypesToOmit, root, Defined, VisitStack,
                          functions, out>>
           /\ Len(bodies) = n /\ DOMAIN bodies = 1..n
           /\ bodies[n].type \in Type /\ k = bodies[n].done + 1
           /\ IsUse(m, bodies[n].type, k, t)
           /\ \A i \in 1..n : /\ bodies'[i].type = bodies[i].type
                              /\ bodies'[i].done = IF i = n THEN k ELSE bodies[i].done
           /\ t \notin inlined => Len(bodies') = n /\ DOMAIN bodies' = 1..n
           /\ t \in inlined => /\ Len(bodies') = n + 1 /\ DOMAIN bodies' = 1..(n + 1)
                               /\ bodies'[n + 1].type = t /\ bodies'[n + 1].done = 0
<1> DEFINE n == Len(bodies)
           k == InnerBody.done + 1
           t == fields[k].to
           new == advanced(bodies)
           opened == Open(new, t)
<1>1. m \in Model /\ BoundedBodies(bodies) /\ bodies \in Seq(Body) /\ bodies # << >>
      /\ InnerBody.done < Len(fields)
  BY DEF TypeOK, BoundedBodies, PrintField
<1>2. n \in Nat \ {0} /\ DOMAIN bodies = 1..n /\ InnerBody = bodies[n] /\ InnerBody \in Body
  BY <1>1, FrontFacts, LenProperties DEF InnerBody
<1>3. fields \in Seq(Use) /\ fields = m.types[bodies[n].type].edges
  BY <1>1, <1>2 DEF fields, Body, Model, Definition
<1>4. k \in Nat \ {0} /\ k \in DOMAIN fields
  <2>1. Len(fields) \in Nat /\ DOMAIN fields = 1..Len(fields) /\ InnerBody.done \in Nat
    BY <1>2, <1>3, LenProperties DEF Body
  <2> QED  BY <1>1, <2>1
<1>5. t \in Type
  BY <1>1, AdvancedBodiesAreBounded
<1>6. IsUse(m, bodies[n].type, k, t)
  BY <1>3, <1>4 DEF IsUse
<1>7. \A x \in Body : [x EXCEPT !.done = @ + 1] \in Body
  BY DEF Body
<1>8. /\ new \in Seq(Body) /\ Len(new) = n /\ DOMAIN new = 1..n
      /\ \A i \in 1..n : i # n => new[i] = bodies[i]
      /\ new[n] = [bodies[n] EXCEPT !.done = @ + 1]
  BY <1>1, <1>2, <1>7, AdvancedFacts
<1>9. \A i \in 1..n : new[i].type = bodies[i].type
                      /\ new[i].done = IF i = n THEN k ELSE bodies[i].done
  BY <1>2, <1>8 DEF Body
<1>10. [type |-> t, done |-> 0] \in Body
  BY <1>5 DEF Body
<1> HIDE DEF new, t
<1>11. /\ opened \in Seq(Body) /\ DOMAIN opened = 1..n \cup {n + 1} /\ Len(opened) = n + 1
       /\ opened[n + 1] = [type |-> t, done |-> 0]
       /\ \A i \in 1..n : opened[i] = new[i]
  BY <1>8, <1>10, AppendFacts, AppendProperties DEF Open
<1>12. 1..n \cup {n + 1} = 1..(n + 1)
  BY <1>2
<1> HIDE DEF opened
<1>13. bodies' = IF t \in inlined THEN opened ELSE new
  BY DEF PrintField, opened, new, t
<1>14. bodies[n].type \in Type
  BY <1>2 DEF Body
<1>15. UNCHANGED <<m, conf, pc, inlined, TypesToOmit, root, Defined, VisitStack, functions, out>>
  BY DEF PrintField
<1>16. t \notin inlined => bodies' = new
  BY <1>13
<1>17. t \in inlined => bodies' = opened
  BY <1>13
<1>18. \A i \in 1..n : bodies'[i].type = bodies[i].type
                       /\ bodies'[i].done = IF i = n THEN k ELSE bodies[i].done
  BY <1>9, <1>11, <1>16, <1>17
<1>19. t \in inlined => Len(bodies') = n + 1 /\ DOMAIN bodies' = 1..(n + 1)
                        /\ bodies'[n + 1].type = t /\ bodies'[n + 1].done = 0
  BY <1>11, <1>12, <1>17
<1>20. k = bodies[n].done + 1
  BY <1>2
<1> HIDE DEF n, k
<1> QED  BY <1>2, <1>4, <1>5, <1>6, <1>8, <1>14, <1>15, <1>16, <1>18, <1>19, <1>20 DEF n

LEMMA EndBodyStep ==
  ASSUME TypeOK, EndBody
  PROVE  \E n \in Nat \ {0}, t \in Type :
           /\ UNCHANGED <<m, conf, pc, inlined, TypesToOmit, root, Defined, VisitStack, functions>>
           /\ Len(bodies) = n /\ DOMAIN bodies = 1..n /\ bodies[n].type = t
           /\ DOMAIN m.types[t].edges = 1..bodies[n].done
           /\ Len(bodies') = n - 1 /\ DOMAIN bodies' = 1..(n - 1)
           /\ \A i \in 1..(n - 1) : i \in 1..n /\ i # n /\ bodies'[i] = bodies[i]
           /\ \A i \in 1..n : i # n => i \in 1..(n - 1)
           /\ DOMAIN out' = DOMAIN out \cup {Len(out) + 1} /\ out'[Len(out) + 1] = Def(t)
           /\ \A i \in DOMAIN out : out'[i] = out[i]
           /\ ToSet(out') = ToSet(out) \cup {Def(t)}
<1> DEFINE n == Len(bodies)
           t == bodies[n].type
           new == Front(bodies)
<1>1. m \in Model /\ bodies \in Seq(Body) /\ out \in Seq(TypeNode) /\ bodies # << >>
      /\ InnerBody.done = Len(fields) /\ out' = Append(out, Def(InnerBody.type)) /\ bodies' = new
  BY DEF TypeOK, EndBody
<1>2. n \in Nat \ {0} /\ DOMAIN bodies = 1..n /\ InnerBody = bodies[n] /\ InnerBody \in Body
  BY <1>1, FrontFacts, LenProperties DEF InnerBody
<1>3. t \in Type /\ DOMAIN m.types[t].edges = 1..bodies[n].done
  <2>1. t \in Type /\ fields = m.types[t].edges
    BY <1>2 DEF Body, fields
  <2>2. fields \in Seq(Use)
    BY <1>1, <2>1 DEF Model, Definition
  <2> QED  BY <1>1, <1>2, <2>1, <2>2, LenProperties
<1>4. new \in Seq(Body) /\ Len(new) = n - 1 /\ \A i \in DOMAIN new : new[i] = bodies[i]
  BY <1>1, FrontFacts
<1>5. DOMAIN new = 1..(n - 1)
  BY <1>4, LenProperties
<1>6. Def(t) \in TypeNode /\ out' = Append(out, Def(t))
  BY <1>1, <1>2, <1>3, NodesOfTypes
<1>7. /\ DOMAIN out' = DOMAIN out \cup {Len(out) + 1} /\ out'[Len(out) + 1] = Def(t)
      /\ \A i \in DOMAIN out : out'[i] = out[i]
      /\ ToSet(out') = ToSet(out) \cup {Def(t)}
  <2> HIDE DEF t
  <2> QED  BY <1>1, <1>6, AppendFacts
<1>8. /\ \A i \in 1..(n - 1) : i \in 1..n /\ i # n
      /\ \A i \in 1..n : i # n => i \in 1..(n - 1)
  <2> HIDE DEF n
  <2> QED  BY <1>2
<1>9. UNCHANGED <<m, conf, pc, inlined, TypesToOmit, root, Defined, VisitStack, functions>>
  BY DEF EndBody
<1> HIDE DEF new
<1> QED  BY <1>1, <1>2, <1>3, <1>4, <1>5, <1>7, <1>8, <1>9

LEMMA OpenFirst ==
  ASSUME NEW t \in Type, bodies = << >>
  PROVE  LET new == Open(bodies, t)
         IN  /\ Len(new) = 1 /\ DOMAIN new = {1} /\ new # << >>
             /\ new[1].type = t /\ new[1].done = 0
<1>1. [type |-> t, done |-> 0] \in Body /\ bodies \in Seq(Body) /\ Len(bodies) = 0
      /\ DOMAIN bodies = {}
  BY DEF Body
<1> DEFINE new == Open(bodies, t)
<1>2. /\ new \in Seq(Body) /\ DOMAIN new = DOMAIN bodies \cup {Len(bodies) + 1}
      /\ new[Len(bodies) + 1] = [type |-> t, done |-> 0]
      /\ Len(new) = Len(bodies) + 1
  BY <1>1, AppendFacts, AppendProperties DEF Open
<1> HIDE DEF new
<1> QED  BY <1>1, <1>2, EmptySeq DEF new

(* Every other step leaves them alone, or opens the first of them.          *)
OpensFirst(t) ==
  /\ bodies = << >>
  /\ Len(bodies') = 1 /\ DOMAIN bodies' = {1} /\ bodies' # << >>
  /\ bodies'[1].type = t /\ bodies'[1].done = 0

LEMMA BodiesHaveTypes ==
  ASSUME bodies \in Seq(Body)
  PROVE  \A i \in DOMAIN bodies : bodies[i].type \in Type /\ bodies[i].done \in Nat
<1>1. \A i \in DOMAIN bodies : bodies[i] \in Body
  BY ElementOfSeq, LenProperties
<1> QED  BY <1>1 DEF Body

LEMMA OtherSteps ==
  ASSUME IndInv, [Next]_vars, ~PrintField, ~EndBody
  PROVE  /\ m' = m /\ (bodies' = bodies \/ \E t \in Type : OpensFirst(t))
         /\ (pc # "ready" \/ UNCHANGED vars => UNCHANGED <<inlined, TypesToOmit>>)
         /\ pc = "ready" => bodies = << >>
<1>0. /\ BoundedBodies(bodies) /\ VisitStack \in Seq(Frame) /\ functions \subseteq Type
      /\ (pc = "ready" => bodies = << >>)
  BY DEF IndInv, TypeOK, BoundedBodies, Phases
<1>1. CASE printModelHeader \/ NextRoot \/ VisitSuccessor \/ EndHeader \/ UNCHANGED vars
  BY <1>0, <1>1 DEF printModelHeader, NextRoot, VisitSuccessor, EndHeader, vars
<1>2. CASE PrintNode
  <2>1. VisitStack # << >> /\ bodies = << >> /\ UNCHANGED <<m, inlined, TypesToOmit>>
        /\ (bodies' = bodies \/ bodies' = Open(bodies, Top.node[1]))
    BY <1>2 DEF PrintNode
  <2>2. Top.node[1] \in Type
    <3>1. Top \in Frame
      BY <1>0, <2>1, FrontFacts DEF Top
    <3> QED  BY <3>1 DEF Frame, TypeNode
  <2>3. bodies' = Open(bodies, Top.node[1]) => OpensFirst(Top.node[1])
    BY <2>1, <2>2, OpenFirst DEF OpensFirst
  <2> QED  BY <1>0, <2>1, <2>2, <2>3
<1>3. CASE PrintFunctionBody
  <2>1. PICK t \in functions : bodies' = IF t \in inlined THEN Open(bodies, t) ELSE bodies
    BY <1>3 DEF PrintFunctionBody
  <2>2. bodies = << >> /\ UNCHANGED <<m, inlined, TypesToOmit>> /\ t \in Type
    BY <1>0, <1>3 DEF PrintFunctionBody
  <2>3. bodies' = Open(bodies, t) => OpensFirst(t)
    BY <2>2, OpenFirst DEF OpensFirst
  <2> QED  BY <1>0, <2>1, <2>2, <2>3
<1>4. CASE PrintSingleType
  <2>1. PICK t \in Type : bodies' = bodies \/ bodies' = Open(bodies, t)
    BY <1>4 DEF PrintSingleType
  <2>2. bodies = << >> /\ m' = m /\ pc = "ready"
    BY <1>0, <1>4 DEF PrintSingleType
  <2>3. bodies' = Open(bodies, t) => OpensFirst(t)
    BY <2>2, OpenFirst DEF OpensFirst
  <2>4. ~UNCHANGED vars
    BY <1>4 DEF PrintSingleType, vars
  <2> QED  BY <1>0, <2>1, <2>2, <2>3, <2>4
<1> QED  BY <1>1, <1>2, <1>3, <1>4 DEF Next

------------------------------------------------------------------------------
(* The definitions being printed are a path of uses, along inlined types.   *)
BodiesAreNested ==
  \A i \in 1..(Len(bodies) - 1) :
    /\ IsUse(m, bodies[i].type, bodies[i].done, bodies[i + 1].type)
    /\ bodies[i + 1].type \in inlined

(* A type that is printed inside itself gets no further in there than       *)
(* outside, where one of its fields is what leads to the inner one.         *)
CirclesDoNotEnd ==
  \A i, j \in DOMAIN bodies : i < j /\ bodies[i].type = bodies[j].type =>
    /\ bodies[j].done <= bodies[i].done
    /\ j = Len(bodies) => bodies[j].done < bodies[i].done

Nesting == BodiesAreNested /\ CirclesDoNotEnd

LEMMA NextNesting == IndInv /\ Nesting /\ [Next]_vars => Nesting'
<1> SUFFICES ASSUME IndInv, Nesting, [Next]_vars PROVE Nesting'
  OBVIOUS
<1>0. TypeOK /\ bodies \in Seq(Body)
  BY DEF IndInv, TypeOK
<1>1. CASE PrintField
  <2>1. PICK n \in Nat \ {0}, k \in Nat \ {0}, t \in Type :
           /\ UNCHANGED <<m, conf, pc, inlined, TypesToOmit, root, Defined, VisitStack,
                          functions, out>>
           /\ Len(bodies) = n /\ DOMAIN bodies = 1..n
           /\ bodies[n].type \in Type /\ k = bodies[n].done + 1
           /\ IsUse(m, bodies[n].type, k, t)
           /\ \A i \in 1..n : /\ bodies'[i].type = bodies[i].type
                              /\ bodies'[i].done = IF i = n THEN k ELSE bodies[i].done
           /\ t \notin inlined => Len(bodies') = n /\ DOMAIN bodies' = 1..n
           /\ t \in inlined => /\ Len(bodies') = n + 1 /\ DOMAIN bodies' = 1..(n + 1)
                               /\ bodies'[n + 1].type = t /\ bodies'[n + 1].done = 0
    BY <1>0, <1>1, PrintFieldStep
  <2>2. \A i \in 1..n : bodies[i].done \in Nat
    BY <1>0, <2>1, BodiesHaveTypes
  <2>3. \A i \in 1..(n - 1) : i \in 1..n /\ i + 1 \in 1..n /\ i # n
    BY <2>1
  <2>4. ASSUME NEW i \in 1..(n - 1)
        PROVE  IsUse(m, bodies'[i].type, bodies'[i].done, bodies'[i + 1].type)
               /\ bodies'[i + 1].type \in inlined /\ bodies[i].done >= 1
    <3>1. IsUse(m, bodies[i].type, bodies[i].done, bodies[i + 1].type)
          /\ bodies[i + 1].type \in inlined
      BY <2>1 DEF Nesting, BodiesAreNested
    <3>2. bodies[i].done # 0
      <4>1. bodies[i].type \in Type
        BY <1>0, <2>1, <2>3, BodiesHaveTypes
      <4>2. m.types[bodies[i].type].edges \in Seq(Use)
        BY <1>0, <4>1 DEF TypeOK, Model, Definition
      <4>3. 0 \notin DOMAIN m.types[bodies[i].type].edges
        BY <4>2, LenProperties
      <4> QED  BY <3>1, <4>3 DEF IsUse
    <3> QED  BY <2>1, <2>2, <2>3, <3>1, <3>2
  <2>5. BodiesAreNested'
    <3> SUFFICES ASSUME NEW i \in 1..(Len(bodies') - 1)
                 PROVE  IsUse(m, bodies'[i].type, bodies'[i].done, bodies'[i + 1].type)
                        /\ bodies'[i + 1].type \in inlined
      BY <2>1 DEF BodiesAreNested
    <3>1. CASE t \notin inlined
      BY <2>1, <2>4, <3>1
    <3>2. CASE t \in inlined /\ i # n
      <4>1. i \in 1..(n - 1)
        BY <2>1, <3>2
      <4> QED  BY <2>4, <4>1
    <3>3. CASE t \in inlined /\ i = n
      <4>1. n \in 1..n
        BY <2>1
      <4> QED  BY <2>1, <3>3, <4>1
    <3> QED  BY <3>1, <3>2, <3>3
  <2>6. ASSUME NEW i \in 1..n, NEW j \in 1..n, i < j, bodies[i].type = bodies[j].type
        PROVE  /\ bodies'[j].done <= bodies'[i].done
               /\ (j = n /\ t \notin inlined) => bodies'[j].done < bodies'[i].done
    <3>1. bodies[j].done <= bodies[i].done /\ (j = n => bodies[j].done < bodies[i].done)
      BY <2>1, <2>6 DEF Nesting, CirclesDoNotEnd
    <3>2. i # n /\ i \in 1..(n - 1)
      BY <2>1, <2>6
    <3>3. bodies'[i].done = bodies[i].done
      BY <2>1, <3>2
    <3>4. CASE j # n
      BY <2>1, <3>1, <3>3, <3>4
    <3>5. CASE j = n
      <4>1. bodies'[j].done = bodies[j].done + 1 /\ k <= bodies[i].done
        BY <2>1, <2>2, <3>1, <3>5
      <4>2. ASSUME t \notin inlined PROVE k # bodies[i].done
        <5>1. IsUse(m, bodies[i].type, bodies[i].done, bodies[i + 1].type)
              /\ bodies[i + 1].type \in inlined
          BY <2>1, <3>2 DEF Nesting, BodiesAreNested
        <5> QED  BY <2>1, <2>6, <3>5, <4>2, <5>1 DEF IsUse
      <4> QED  BY <2>1, <2>2, <3>3, <3>5, <4>1, <4>2
    <3> QED  BY <3>4, <3>5
  <2>7. CirclesDoNotEnd'
    <3> SUFFICES ASSUME NEW i \in DOMAIN bodies', NEW j \in DOMAIN bodies', i < j,
                        bodies'[i].type = bodies'[j].type
                 PROVE  /\ bodies'[j].done <= bodies'[i].done
                        /\ j = Len(bodies') => bodies'[j].done < bodies'[i].done
      BY DEF CirclesDoNotEnd
    <3>1. CASE t \notin inlined
      BY <2>1, <2>6, <3>1
    <3>2. CASE t \in inlined /\ j # n + 1
      <4>1. i \in 1..n /\ j \in 1..n /\ j # Len(bodies')
        BY <2>1, <3>2
      <4> QED  BY <2>1, <2>6, <4>1
    <3>3. CASE t \in inlined /\ j = n + 1
      <4>1. i \in 1..n /\ (i = n \/ i \in 1..(n - 1))
        BY <2>1, <3>3
      <4>2. bodies'[i].done >= 1 /\ bodies'[i].done \in Nat
        BY <2>1, <2>2, <2>4, <4>1
      <4> QED  BY <2>1, <3>3, <4>2
    <3> QED  BY <3>1, <3>2, <3>3
  <2> QED  BY <2>5, <2>7 DEF Nesting
<1>2. CASE EndBody
  <2>1. PICK n \in Nat \ {0}, t \in Type :
           /\ UNCHANGED <<m, inlined>>
           /\ Len(bodies) = n /\ DOMAIN bodies = 1..n /\ bodies[n].type = t
           /\ DOMAIN m.types[t].edges = 1..bodies[n].done
           /\ Len(bodies') = n - 1 /\ DOMAIN bodies' = 1..(n - 1)
           /\ \A i \in 1..(n - 1) : i \in 1..n /\ i # n /\ bodies'[i] = bodies[i]
    BY <1>0, <1>2, EndBodyStep
  <2>2. BodiesAreNested'
    <3> SUFFICES ASSUME NEW i \in 1..((n - 1) - 1)
                 PROVE  IsUse(m, bodies'[i].type, bodies'[i].done, bodies'[i + 1].type)
                        /\ bodies'[i + 1].type \in inlined
      BY <2>1 DEF BodiesAreNested
    <3>1. i \in 1..(n - 1) /\ i + 1 \in 1..(n - 1)
      BY <2>1
    <3> QED  BY <2>1, <3>1 DEF Nesting, BodiesAreNested
  <2>3. CirclesDoNotEnd'
    <3> SUFFICES ASSUME NEW i \in 1..(n - 1), NEW j \in 1..(n - 1), i < j,
                        bodies[i].type = bodies[j].type
                 PROVE  /\ bodies[j].done <= bodies[i].done
                        /\ j = n - 1 => bodies[j].done < bodies[i].done
      BY <2>1 DEF CirclesDoNotEnd
    <3>1. bodies[j].done <= bodies[i].done
      BY <2>1 DEF Nesting, CirclesDoNotEnd
    <3>2. ASSUME j = n - 1, bodies[j].done = bodies[i].done PROVE FALSE
      <4>1. bodies[i + 1].type = bodies[n].type
        <5>1. IsUse(m, bodies[i].type, bodies[i].done, bodies[i + 1].type)
          BY <2>1 DEF Nesting, BodiesAreNested
        <5>2. IsUse(m, bodies[j].type, bodies[j].done, bodies[j + 1].type) /\ j + 1 = n
          BY <2>1, <3>2 DEF Nesting, BodiesAreNested
        <5> QED  BY <3>2, <5>1, <5>2 DEF IsUse
      <4>2. i + 1 \in 1..n /\ n \in 1..n /\ i + 1 < n
        BY <2>1, <3>2
      <4>3. bodies[n].done < bodies[i + 1].done /\ bodies[i + 1].type = t
        BY <2>1, <4>1, <4>2 DEF Nesting, CirclesDoNotEnd
      <4>4. bodies[i + 1].done <= bodies[n].done
        <5>1. bodies[i + 1].done <= Len(m.types[t].edges)
          BY <1>0, <2>1, <4>2, <4>3 DEF TypeOK
        <5>2. m.types[t].edges \in Seq(Use)
          BY <1>0 DEF TypeOK, Model, Definition
        <5>3. Len(m.types[t].edges) = bodies[n].done
          <6>1. bodies[n].done \in Nat
            BY <1>0, <2>1, <4>2, BodiesHaveTypes
          <6>2. DOMAIN m.types[t].edges = 1..Len(m.types[t].edges) /\ Len(m.types[t].edges) \in Nat
            BY <5>2, LenProperties
          <6> QED  BY <2>1, <6>1, <6>2
        <5> QED  BY <5>1, <5>3
      <4>5. bodies[n].done \in Nat /\ bodies[i + 1].done \in Nat
        BY <1>0, <2>1, <4>2, BodiesHaveTypes
      <4> QED  BY <4>3, <4>4, <4>5
    <3>3. bodies[j].done \in Nat /\ bodies[i].done \in Nat
      BY <1>0, <2>1, BodiesHaveTypes
    <3> QED  BY <3>1, <3>2, <3>3
  <2> QED  BY <2>2, <2>3 DEF Nesting
<1>3. CASE ~PrintField /\ ~EndBody
  <2>1. /\ m' = m /\ (bodies' = bodies \/ \E t \in Type : OpensFirst(t))
        /\ (pc # "ready" \/ UNCHANGED vars => UNCHANGED <<inlined, TypesToOmit>>)
        /\ pc = "ready" => bodies = << >>
    BY <1>3, OtherSteps
  <2>2. CASE \E t \in Type : OpensFirst(t)
    BY <2>2 DEF OpensFirst, Nesting, BodiesAreNested, CirclesDoNotEnd
  <2>3. CASE bodies' = bodies /\ bodies = << >>
    <3>1. Len(bodies') = 0 /\ DOMAIN bodies' = {}
      BY <2>3
    <3> QED  BY <3>1 DEF Nesting, BodiesAreNested, CirclesDoNotEnd
  <2>4. CASE bodies' = bodies /\ bodies # << >>
    BY <2>1, <2>4 DEF Nesting, BodiesAreNested, CirclesDoNotEnd
  <2> QED  BY <2>1, <2>2, <2>3, <2>4
<1> QED  BY <1>1, <1>2, <1>3

------------------------------------------------------------------------------
(* What is chosen before anything is printed, and what comes from it.       *)
Chosen ==
  /\ inlined \subseteq TypesToInline(m) /\ functions \subseteq m.frames
  /\ inlined # {} => TypesToOmit = {}
  /\ pc = "ready" => out = << >> /\ TypesToOmit = {}

LEMMA NextChosen == IndInv /\ Chosen /\ [Next]_vars => Chosen'
<1> SUFFICES ASSUME IndInv, Chosen, [Next]_vars PROVE Chosen'
  OBVIOUS
<1>0. conf \in Configurations /\ m \in Model
  BY DEF IndInv, TypeOK
<1>1. CASE printModelHeader
  <2>1. inlined' \subseteq TypesToInline(m)
    BY <1>1 DEF printModelHeader, collectInlinableTypes, shouldInline
  <2>2. inlined' # {} => TypesToOmit' = {}
    <3> SUFFICES ASSUME NEW t \in inlined' PROVE TypesToOmit' = {}
      OBVIOUS
    <3>1. conf.EnableStackFrameInlining \/ conf.EnableTypeInlining
      BY <1>1 DEF printModelHeader, collectInlinableTypes, shouldInline
    <3>2. conf.TypeToEdit = NoType
      BY <1>0, <3>1, HeaderAssumption
    <3> QED  BY <1>1, <3>2 DEF printModelHeader, typesNotToShow
  <2> QED  BY <1>1, <2>1, <2>2 DEF printModelHeader, Chosen
<1>2. CASE PrintSingleType
  <2>1. inlined' \subseteq TypesToInline(m)
    BY <1>2 DEF PrintSingleType, collectInlinableTypes, shouldInline
  <2>2. conf.TypeToEdit = NoType /\ TypesToOmit' = TypesToOmit /\ pc' = "single type" /\ conf' = conf
        /\ m' = m /\ functions' = functions /\ pc = "ready"
    BY <1>2 DEF PrintSingleType
  <2>3. TypesToOmit = {}
    BY <2>2 DEF Chosen
  <2> QED  BY <2>1, <2>2, <2>3 DEF Chosen
<1>3. CASE PrintFunctionBody
  BY <1>3 DEF PrintFunctionBody, Chosen
<1>4. CASE EndHeader
  BY <1>4 DEF EndHeader, Chosen
<1>5. CASE NextRoot \/ VisitSuccessor \/ UNCHANGED vars
  BY <1>5 DEF NextRoot, VisitSuccessor, Chosen, vars
<1>6. CASE PrintNode
  BY <1>6 DEF PrintNode, Chosen, IndInv, Phases
<1>7. CASE PrintField \/ EndBody
  BY <1>7 DEF PrintField, EndBody, Chosen, IndInv, Phases
<1> QED  BY <1>1, <1>2, <1>3, <1>4, <1>5, <1>6, <1>7 DEF Next

------------------------------------------------------------------------------
LEMMA Indices ==
  ASSUME NEW n \in Nat \ {0}
  PROVE  /\ 1 \in 1..n /\ n \in 1..n
         /\ \A i \in 1..(n + 1) : i \in 1..n \/ i = n + 1
         /\ \A i \in 1..n : i \in 1..(n + 1) /\ i # n + 1
         /\ \A i \in 1..n : i # 1 => i - 1 \in 1..(n - 1) /\ (i - 1) + 1 = i
         /\ \A i \in 1..n : i # n => i \in 1..(n - 1) /\ i + 1 \in 1..n
         /\ \A i \in 1..(n - 1) : i \in 1..n /\ i + 1 \in 1..n /\ i # n
<1>1. n \in Nat /\ n >= 1
  OBVIOUS
<1>2. 1 \in 1..n /\ n \in 1..n
  BY <1>1
<1>3. \A i \in 1..(n + 1) : i \in 1..n \/ i = n + 1
  BY <1>1
<1>4. \A i \in 1..n : i \in 1..(n + 1) /\ i # n + 1
  BY <1>1
<1>5. \A i \in 1..n : i # 1 => i - 1 \in 1..(n - 1) /\ (i - 1) + 1 = i
  BY <1>1
<1>6. \A i \in 1..n : i # n => i \in 1..(n - 1) /\ i + 1 \in 1..n
  BY <1>1
<1>7. \A i \in 1..(n - 1) : i \in 1..n /\ i + 1 \in 1..n /\ i # n
  BY <1>1
<1> QED  BY <1>2, <1>3, <1>4, <1>5, <1>6, <1>7

(* In a header and in the functions, the outermost definition is one that   *)
(* nothing leads to: no type is ever printed inside itself.                 *)
OutermostIsNoField ==
  pc # "single type" /\ bodies # << >> =>
    bodies[1].type \notin inlined \/ bodies[1].type \in m.frames

HeadersEnd == pc # "single type" => InliningEnds

LEMMA NextOutermost ==
  IndInv /\ Chosen /\ OutermostIsNoField /\ [Next]_vars => OutermostIsNoField'
<1> SUFFICES ASSUME IndInv, Chosen, OutermostIsNoField, [Next]_vars PROVE OutermostIsNoField'
  OBVIOUS
<1>0. TypeOK /\ bodies \in Seq(Body)
  BY DEF IndInv, TypeOK
<1>1. CASE PrintField
  <2>1. PICK n \in Nat \ {0}, k \in Nat \ {0}, t \in Type :
          /\ UNCHANGED <<m, pc, inlined>>
          /\ Len(bodies) = n /\ \A i \in 1..n : bodies'[i].type = bodies[i].type
    BY <1>0, <1>1, PrintFieldStep
  <2>2. 1 \in 1..n /\ bodies # << >>
    BY <2>1
  <2> QED  BY <2>1, <2>2 DEF OutermostIsNoField
<1>2. CASE EndBody
  <2>1. PICK n \in Nat \ {0}, t \in Type :
          /\ UNCHANGED <<m, pc, inlined>>
          /\ Len(bodies) = n /\ Len(bodies') = n - 1
          /\ \A i \in 1..(n - 1) : bodies'[i] = bodies[i]
    BY <1>0, <1>2, EndBodyStep
  <2>2. bodies' # << >> => 1 \in 1..(n - 1) /\ bodies # << >>
    <3>1. bodies' \in Seq(Body)
      BY <1>0, <1>2, FrontFacts DEF EndBody
    <3> QED  BY <2>1, <3>1, EmptySeq
  <2> QED  BY <2>1, <2>2 DEF OutermostIsNoField
<1>3. CASE PrintNode
  <2>1. /\ bodies = << >> /\ UNCHANGED <<m, pc, inlined>>
        /\ bodies' = bodies \/ (bodies' = Open(bodies, Top.node[1]) /\ definesOnItsOwn(Top.node[1]))
    BY <1>3 DEF PrintNode
  <2>2. Top.node[1] \in Type
    <3>1. Top \in Frame
      BY <1>0, <1>3, FrontFacts DEF Top, PrintNode, TypeOK
    <3> QED  BY <3>1 DEF Frame, TypeNode
  <2>3. CASE bodies' = bodies
    BY <2>1, <2>3 DEF OutermostIsNoField
  <2>4. CASE bodies' = Open(bodies, Top.node[1])
    <3>1. CASE definesOnItsOwn(Top.node[1])
      <4>1. bodies'[1].type = Top.node[1]
        BY <2>1, <2>2, <2>4, OpenFirst
      <4> QED  BY <2>1, <3>1, <4>1 DEF OutermostIsNoField, definesOnItsOwn
    <3>2. CASE ~definesOnItsOwn(Top.node[1])
      BY <2>1, <3>2 DEF OutermostIsNoField
    <3> QED  BY <3>1, <3>2
  <2> QED  BY <2>1, <2>3, <2>4
<1>4. CASE PrintFunctionBody
  <2>1. PICK t \in functions : bodies' = IF t \in inlined THEN Open(bodies, t) ELSE bodies
    BY <1>4 DEF PrintFunctionBody
  <2>2. t \in m.frames /\ t \in Type /\ bodies = << >> /\ UNCHANGED <<m, pc, inlined>>
    BY <1>0, <1>4 DEF PrintFunctionBody, Chosen, TypeOK
  <2> QED  BY <2>1, <2>2, OpenFirst DEF OutermostIsNoField
<1>5. CASE PrintSingleType
  BY <1>5 DEF PrintSingleType, OutermostIsNoField
<1>6. CASE printModelHeader
  BY <1>6 DEF printModelHeader, OutermostIsNoField, IndInv, Phases
<1>7. CASE EndHeader
  BY <1>7 DEF EndHeader, OutermostIsNoField
<1>8. CASE NextRoot \/ VisitSuccessor \/ UNCHANGED vars
  <2>1. UNCHANGED <<m, pc, inlined, bodies>>
    BY <1>8 DEF NextRoot, VisitSuccessor, vars
  <2> QED  BY <2>1 DEF OutermostIsNoField
<1> QED  BY <1>1, <1>2, <1>3, <1>4, <1>5, <1>6, <1>7, <1>8 DEF Next

LEMMA NextHeadersEnd ==
  IndInv /\ Chosen /\ Nesting /\ OutermostIsNoField /\ HeadersEnd /\ [Next]_vars => HeadersEnd'
<1> SUFFICES ASSUME IndInv, Chosen, Nesting, OutermostIsNoField, HeadersEnd, [Next]_vars,
                    pc' # "single type"
             PROVE  InliningEnds'
  BY DEF HeadersEnd
<1>0. TypeOK /\ bodies \in Seq(Body)
  BY DEF IndInv, TypeOK
<1>1. CASE PrintField
  <2>1. PICK n \in Nat \ {0}, k \in Nat \ {0}, t \in Type :
           /\ UNCHANGED <<m, conf, pc, inlined, TypesToOmit, root, Defined, VisitStack,
                          functions, out>>
           /\ Len(bodies) = n /\ DOMAIN bodies = 1..n
           /\ bodies[n].type \in Type /\ k = bodies[n].done + 1
           /\ IsUse(m, bodies[n].type, k, t)
           /\ \A i \in 1..n : /\ bodies'[i].type = bodies[i].type
                              /\ bodies'[i].done = IF i = n THEN k ELSE bodies[i].done
           /\ t \notin inlined => Len(bodies') = n /\ DOMAIN bodies' = 1..n
           /\ t \in inlined => /\ Len(bodies') = n + 1 /\ DOMAIN bodies' = 1..(n + 1)
                               /\ bodies'[n + 1].type = t /\ bodies'[n + 1].done = 0
    BY <1>0, <1>1, PrintFieldStep
  <2>2. InliningEnds /\ bodies # << >>
    BY <1>1, <2>1 DEF HeadersEnd, PrintField
  <2>3. ASSUME t \in inlined, NEW i \in 1..n PROVE bodies[i].type # t
    <3>1. SUFFICES ASSUME bodies[i].type = t PROVE FALSE
      OBVIOUS
    <3>2. t \in TypesToInline(m) /\ m \in Model
      BY <1>0, <2>3 DEF Chosen, TypeOK
    <3>3. CASE i = 1
      <4>1. t \in m.frames
        BY <2>1, <2>2, <2>3, <3>1, <3>3 DEF OutermostIsNoField
      <4> QED  BY <2>1, <3>2, <4>1, InlinedIsUsedOnce
    <3>4. CASE i # 1
      <4>1. i - 1 \in 1..(n - 1) /\ (i - 1) + 1 = i /\ i - 1 \in 1..n /\ i - 1 # n /\ n \in 1..n
        BY <3>4, Indices
      <4>2. IsUse(m, bodies[i - 1].type, bodies[i - 1].done, t)
        BY <2>1, <3>1, <4>1 DEF Nesting, BodiesAreNested
      <4>3. bodies[i - 1].type \in Type
        BY <1>0, <2>1, <4>1, BodiesHaveTypes
      <4>4. bodies[i - 1].type = bodies[n].type
        BY <2>1, <3>2, <4>2, <4>3, InlinedIsUsedOnce
      <4> QED  BY <2>1, <2>2, <4>1, <4>4 DEF InliningEnds
    <3> QED  BY <3>3, <3>4
  <2>4. CASE t \notin inlined
    BY <2>1, <2>2, <2>4 DEF InliningEnds
  <2>5. CASE t \in inlined
    <3> SUFFICES ASSUME NEW i \in 1..(n + 1), NEW j \in 1..(n + 1), bodies'[i].type = bodies'[j].type
                 PROVE  i = j
      BY <2>1, <2>5 DEF InliningEnds
    <3>1. (i \in 1..n \/ i = n + 1) /\ (j \in 1..n \/ j = n + 1)
      BY Indices
    <3>2. CASE i \in 1..n /\ j \in 1..n
      BY <2>1, <2>2, <3>2 DEF InliningEnds
    <3>3. bodies'[n + 1].type = t /\ \A h \in 1..n : bodies'[h].type # t
      BY <2>1, <2>3, <2>5
    <3> QED  BY <3>1, <3>2, <3>3
  <2> QED  BY <2>4, <2>5
<1>2. CASE EndBody
  <2>1. PICK n \in Nat \ {0}, t \in Type :
          /\ pc' = pc /\ DOMAIN bodies = 1..n /\ DOMAIN bodies' = 1..(n - 1)
          /\ \A i \in 1..(n - 1) : i \in 1..n /\ i # n /\ bodies'[i] = bodies[i]
    BY <1>0, <1>2, EndBodyStep
  <2> QED  BY <2>1 DEF HeadersEnd, InliningEnds
<1>3. CASE ~PrintField /\ ~EndBody
  <2>1. bodies' = bodies \/ \E t \in Type : OpensFirst(t)
    BY <1>3, OtherSteps
  <2>2. pc # "single type"
    BY <1>3 DEF Next, printModelHeader, NextRoot, VisitSuccessor, PrintNode, EndHeader,
                PrintFunctionBody, PrintSingleType, vars
  <2> QED  BY <2>1, <2>2 DEF HeadersEnd, InliningEnds, OpensFirst
<1> QED  BY <1>1, <1>2, <1>3

------------------------------------------------------------------------------
(* No node is twice on the stack of the visit, so that it finishes once.    *)
OnceOnStack ==
  \A i, j \in DOMAIN VisitStack : VisitStack[i].node = VisitStack[j].node => i = j

(* The steps of the visit.                                                  *)
LEMMA VisitStep ==
  ASSUME IndInv, NextRoot \/ VisitSuccessor
  PROVE  \E n \in TypeNode, stack \in Seq(Frame) :
           /\ UNCHANGED <<m, conf, pc, inlined, TypesToOmit, bodies, functions, out>>
           /\ pc = "header" /\ bodies = << >>
           /\ DOMAIN stack = DOMAIN VisitStack
           /\ \A i \in DOMAIN stack : stack[i].node = VisitStack[i].node
           /\ Defined' = Defined \cup {n}
           /\ VisitStack' = IF n \in Defined THEN stack ELSE Push(stack, n)
<1>0. TypeOK /\ Visit /\ VisitStack \in Seq(Frame) /\ root \in 0..NodesCount
  BY DEF IndInv, TypeOK
<1>1. CASE NextRoot
  <2>1. nodes(root + 1) \in TypeNode
    <3>1. root + 1 \in 1..NodesCount
      BY <1>0, <1>1, RootsAreNodes DEF NextRoot, moreRoots
    <3> QED  BY <3>1, RootsAreNodes
  <2> QED  BY <1>0, <1>1, <2>1 DEF NextRoot
<1>2. CASE VisitSuccessor
  <2> DEFINE n == successorsOfTop[Top.done + 1]
             stack == advanced(VisitStack)
  <2>1. /\ n \in TypeNode /\ stack \in Seq(Frame) /\ DOMAIN stack = DOMAIN VisitStack
        /\ \A i \in DOMAIN stack : stack[i].node = VisitStack[i].node
    BY <1>0, <1>2, AdvancedIsDefined DEF VisitSuccessor
  <2>2. /\ Defined' = Defined \cup {n}
        /\ VisitStack' = IF n \in Defined THEN stack ELSE Push(stack, n)
        /\ UNCHANGED <<m, conf, pc, inlined, TypesToOmit, bodies, functions, out>>
        /\ bodies = << >> /\ VisitStack # << >>
    BY <1>2 DEF VisitSuccessor
  <2>3. pc = "header"
    BY <2>2 DEF IndInv, Phases, TypeOK
  <2> HIDE DEF n, stack
  <2> QED  BY <2>1, <2>2, <2>3
<1> QED  BY <1>1, <1>2

LEMMA NextOnceOnStack == IndInv /\ OnceOnStack /\ [Next]_vars => OnceOnStack'
<1> SUFFICES ASSUME IndInv, OnceOnStack, [Next]_vars PROVE OnceOnStack'
  OBVIOUS
<1>0. Visit /\ VisitStack \in Seq(Frame)
  BY DEF IndInv, TypeOK
<1>1. CASE NextRoot \/ VisitSuccessor
  <2>1. PICK n \in TypeNode, stack \in Seq(Frame) :
           /\ DOMAIN stack = DOMAIN VisitStack
           /\ \A i \in DOMAIN stack : stack[i].node = VisitStack[i].node
           /\ Defined' = Defined \cup {n}
           /\ VisitStack' = IF n \in Defined THEN stack ELSE Push(stack, n)
    BY <1>1, VisitStep
  <2>2. CASE n \in Defined
    BY <2>1, <2>2 DEF OnceOnStack
  <2>3. CASE n \notin Defined
    <3> DEFINE new == Push(stack, n)
    <3>1. [node |-> n, done |-> 0] \in Frame
      BY DEF Frame
    <3>2. /\ DOMAIN new = DOMAIN stack \cup {Len(stack) + 1}
          /\ new[Len(stack) + 1] = [node |-> n, done |-> 0]
          /\ \A i \in DOMAIN stack : new[i] = stack[i]
      BY <3>1, AppendFacts DEF Push
    <3> HIDE DEF new
    <3>3. VisitStack' = new
      BY <2>1, <2>3 DEF new
    <3>4. \A i \in DOMAIN stack : new[i].node \in Defined
      BY <1>0, <2>1, <3>2 DEF Visit, StackIsDefined
    <3>5. \A i, j \in DOMAIN stack : new[i].node = new[j].node => i = j
      BY <2>1, <3>2 DEF OnceOnStack
    <3> QED  BY <2>3, <3>2, <3>3, <3>4, <3>5 DEF OnceOnStack
  <2> QED  BY <2>2, <2>3
<1>2. CASE PrintNode
  <2>1. VisitStack # << >> /\ VisitStack' = Front(VisitStack)
    BY <1>2 DEF PrintNode
  <2> DEFINE new == Front(VisitStack)
  <2>2. \A i \in DOMAIN new : i \in DOMAIN VisitStack /\ new[i] = VisitStack[i]
    BY <1>0, <2>1, FrontFacts
  <2> HIDE DEF new
  <2> QED  BY <2>1, <2>2 DEF OnceOnStack, new
<1>3. ASSUME VisitStack' = VisitStack PROVE OnceOnStack'
  BY <1>3 DEF OnceOnStack
<1>4. CASE printModelHeader \/ EndHeader \/ PrintField \/ EndBody \/ PrintFunctionBody
           \/ PrintSingleType \/ UNCHANGED vars
  BY <1>3, <1>4 DEF printModelHeader, EndHeader, PrintField, EndBody, PrintFunctionBody,
                    PrintSingleType, vars
<1> QED  BY <1>1, <1>2, <1>4 DEF Next

(* What the visit has left it does not come back to, and what it leaves now *)
(* it had not left before.                                                  *)
LEMMA FinishedStays ==
  ASSUME IndInv, OnceOnStack, [Next]_vars
  PROVE  /\ Finished \subseteq Finished'
         /\ PrintNode => /\ Top.node \in Finished' /\ Top.node \notin Finished
                         /\ Top.node \in TypeNode /\ pc = "header"
<1>0. Visit /\ VisitStack \in Seq(Frame) /\ DOMAIN VisitStack = 1..Len(VisitStack)
  BY LenProperties DEF IndInv, TypeOK
<1>1. CASE NextRoot \/ VisitSuccessor
  <2>1. PICK n \in TypeNode, stack \in Seq(Frame) :
           /\ DOMAIN stack = DOMAIN VisitStack
           /\ \A i \in DOMAIN stack : stack[i].node = VisitStack[i].node
           /\ Defined' = Defined \cup {n}
           /\ VisitStack' = IF n \in Defined THEN stack ELSE Push(stack, n)
    BY <1>1, VisitStep
  <2>2. Finished \subseteq Finished'
    <3>1. CASE n \in Defined
      BY <2>1, <3>1 DEF Finished, onStack
    <3>2. CASE n \notin Defined
      <4> DEFINE new == Push(stack, n)
      <4>1. [node |-> n, done |-> 0] \in Frame
        BY DEF Frame
      <4>2. /\ DOMAIN new = DOMAIN stack \cup {Len(stack) + 1}
            /\ new[Len(stack) + 1] = [node |-> n, done |-> 0]
            /\ \A i \in DOMAIN stack : new[i] = stack[i]
        BY <4>1, AppendFacts DEF Push
      <4> HIDE DEF new
      <4>3. VisitStack' = new
        BY <2>1, <3>2 DEF new
      <4>4. onStack' \subseteq onStack \cup {n}
        BY <2>1, <4>2, <4>3 DEF onStack
      <4> QED  BY <2>1, <3>2, <4>4 DEF Finished
    <3> QED  BY <3>1, <3>2
  <2>3. ~PrintNode
    <3>1. VisitStack # << >> => ~NextRoot
      BY DEF NextRoot
    <3>2. VisitSuccessor => ~allVisited
      BY DEF VisitSuccessor
    <3> QED  BY <1>1, <3>1, <3>2 DEF PrintNode
  <2> QED  BY <2>2, <2>3
<1>2. CASE PrintNode
  <2>1. VisitStack # << >> /\ VisitStack' = Front(VisitStack) /\ Defined' = Defined
    BY <1>2 DEF PrintNode
  <2> DEFINE new == Front(VisitStack)
  <2>2. /\ \A i \in DOMAIN new : i \in DOMAIN VisitStack /\ new[i] = VisitStack[i]
        /\ new \in Seq(Frame) /\ Len(new) = Len(VisitStack) - 1
        /\ Len(VisitStack) \in DOMAIN VisitStack /\ Top = VisitStack[Len(VisitStack)]
        /\ Top \in Frame
    BY <1>0, <2>1, FrontFacts DEF Top
  <2> HIDE DEF new
  <2>3. VisitStack' = new
    BY <2>1 DEF new
  <2>4. Len(VisitStack) \notin DOMAIN new
    <3>1. DOMAIN new = 1..(Len(VisitStack) - 1) /\ Len(VisitStack) \in Nat
      BY <1>0, <2>2, LenProperties
    <3> QED  BY <3>1
  <2>5. Top.node \notin onStack' /\ Top.node \in onStack
    BY <2>2, <2>3, <2>4 DEF onStack, OnceOnStack
  <2>6. onStack' \subseteq onStack
    BY <2>2, <2>3 DEF onStack
  <2>7. Top.node \in Defined /\ Top.node \in TypeNode
    BY <1>0, <2>2 DEF Visit, StackIsDefined, Frame
  <2>8. pc = "header"
    BY <2>1 DEF IndInv, Phases, TypeOK
  <2> QED  BY <2>1, <2>5, <2>6, <2>7, <2>8 DEF Finished
<1>3. ASSUME VisitStack' = VisitStack, Defined' = Defined PROVE Finished' = Finished
  BY <1>3 DEF Finished, onStack
<1>4. CASE printModelHeader \/ EndHeader \/ PrintField \/ EndBody \/ PrintFunctionBody
           \/ PrintSingleType \/ UNCHANGED vars
  <2>1. VisitStack' = VisitStack /\ Defined' = Defined
    BY <1>4 DEF printModelHeader, EndHeader, PrintField, EndBody, PrintFunctionBody,
                PrintSingleType, vars
  <2> QED  BY <1>2, <1>3, <2>1
<1> QED  BY <1>1, <1>2, <1>4 DEF Next

------------------------------------------------------------------------------
(* What a step prints.                                                      *)
LEMMA PrintedStep ==
  ASSUME IndInv, Chosen, [Next]_vars
  PROVE  /\ ToSet(out) \subseteq ToSet(out')
         /\ \A n \in ToSet(out') \ ToSet(out) :
              \/ EndBody /\ n = Def(InnerBody.type)
              \/ PrintNode /\ n = Top.node /\ n[2] = "Declaration"
              \/ PrintSingleType /\ n[2] = "Declaration"
              \/ printModelHeader /\ n = Decl(conf.TypeToEdit) /\ conf.TypeToEdit # NoType
<1>0. /\ out \in Seq(TypeNode) /\ BoundedBodies(bodies) /\ bodies \in Seq(Body)
      /\ VisitStack \in Seq(Frame) /\ conf \in Configurations
  BY DEF IndInv, TypeOK, BoundedBodies
<1>1. CASE EndBody
  <2>1. InnerBody \in Body /\ out' = Append(out, Def(InnerBody.type))
    BY <1>0, <1>1, FrontFacts DEF EndBody, InnerBody
  <2>2. Def(InnerBody.type) \in TypeNode
    BY <2>1, NodesOfTypes DEF Body
  <2>3. ToSet(out') = ToSet(out) \cup {Def(InnerBody.type)}
    BY <1>0, <2>1, <2>2, AppendFacts
  <2> QED  BY <1>1, <2>3
<1>2. CASE PrintNode
  <2>1. /\ VisitStack # << >>
        /\ out' = out \/ (out' = Append(out, Top.node) /\ Top.node = Decl(Top.node[1]))
    BY <1>2 DEF PrintNode
  <2>2. Top.node \in TypeNode
    <3>1. Top \in Frame
      BY <1>0, <2>1, FrontFacts DEF Top
    <3> QED  BY <3>1 DEF Frame
  <2>3. out' = Append(out, Top.node) => ToSet(out') = ToSet(out) \cup {Top.node}
    BY <1>0, <2>2, AppendFacts
  <2>4. Top.node = Decl(Top.node[1]) => Top.node[2] = "Declaration"
    BY DEF Decl
  <2> QED  BY <1>2, <2>1, <2>3, <2>4
<1>3. CASE PrintSingleType
  <2>1. PICK t \in Type : out' = <<Decl(t)>> \/ out' = out
    BY <1>3 DEF PrintSingleType
  <2>2. out = << >> /\ ToSet(out) = {}
    <3>1. out = << >>
      BY <1>3 DEF PrintSingleType, Chosen
    <3> QED  BY <3>1 DEF ToSet
  <2>3. ToSet(<<Decl(t)>>) = {Decl(t)} /\ Decl(t)[2] = "Declaration"
    BY DEF ToSet, Decl
  <2> QED  BY <1>3, <2>1, <2>2, <2>3
<1>4. CASE printModelHeader
  <2>1. out = << >> /\ ToSet(out) = {} /\ out' = PostIncludeSnippet
    BY <1>4 DEF printModelHeader, Chosen, ToSet
  <2>2. PostIncludeSnippet = << >> \/
        (PostIncludeSnippet = <<Decl(conf.TypeToEdit)>> /\ conf.TypeToEdit # NoType)
    BY DEF PostIncludeSnippet
  <2>3. ToSet(<<Decl(conf.TypeToEdit)>>) = {Decl(conf.TypeToEdit)} /\ ToSet(<< >>) = {}
    BY DEF ToSet
  <2> QED  BY <1>4, <2>1, <2>2, <2>3
<1>5. CASE NextRoot \/ VisitSuccessor \/ EndHeader \/ PrintField \/ PrintFunctionBody \/ UNCHANGED vars
  <2>1. out' = out
    BY <1>5 DEF NextRoot, VisitSuccessor, EndHeader, PrintField, PrintFunctionBody, vars
  <2> QED  BY <2>1
<1> QED  BY <1>1, <1>2, <1>3, <1>4, <1>5 DEF Next

(* What a step begins to print.                                             *)
IsDefined(t) == Def(t) \in ToSet(out)
BeingDefined(t) == \E i \in DOMAIN bodies : bodies[i].type = t
IsBegun(t) == IsDefined(t) \/ BeingDefined(t)

LEMMA BegunStep ==
  ASSUME IndInv, Chosen, [Next]_vars, NEW t \in Type, IsBegun(t)'
  PROVE  \/ IsBegun(t)
         \/ PrintField /\ t \in inlined /\ \E x \in Type : \E i : IsUse(m, x, i, t)
         \/ PrintNode /\ Top.node = Def(t) /\ t \notin inlined
         \/ PrintFunctionBody /\ t \in inlined /\ t \in functions \ functions'
         \/ PrintSingleType
<1>0. TypeOK /\ bodies \in Seq(Body)
  BY DEF IndInv, TypeOK
<1>1. IsDefined(t)' => IsDefined(t) \/ (EndBody /\ Def(t) = Def(InnerBody.type)) \/ PrintSingleType
  <2>1. Def(t)[2] # "Declaration" /\ Def(t) # Decl(conf.TypeToEdit)
    BY DEF Def, Decl
  <2> QED  BY <2>1, PrintedStep DEF IsDefined
<1>2. EndBody => \E i \in DOMAIN bodies : bodies[i] = InnerBody
  <2>1. EndBody => bodies # << >>
    BY DEF EndBody
  <2> QED  BY <1>0, <2>1, FrontFacts DEF InnerBody
<1>3. EndBody /\ Def(t) = Def(InnerBody.type) => BeingDefined(t)
  BY <1>2 DEF BeingDefined, Def
<1>4. CASE IsDefined(t)'
  BY <1>1, <1>3, <1>4 DEF IsBegun
<1>5. CASE BeingDefined(t)'
  <2>1. PICK i \in DOMAIN bodies' : bodies'[i].type = t
    BY <1>5 DEF BeingDefined
  <2>2. CASE PrintField
    <3>1. PICK n \in Nat \ {0}, k \in Nat \ {0}, u \in Type :
           /\ Len(bodies) = n /\ DOMAIN bodies = 1..n
           /\ bodies[n].type \in Type
           /\ IsUse(m, bodies[n].type, k, u)
           /\ \A j \in 1..n : bodies'[j].type = bodies[j].type
           /\ u \notin inlined => Len(bodies') = n /\ DOMAIN bodies' = 1..n
           /\ u \in inlined => /\ Len(bodies') = n + 1 /\ DOMAIN bodies' = 1..(n + 1)
                               /\ bodies'[n + 1].type = u /\ bodies'[n + 1].done = 0
      BY <1>0, <2>2, PrintFieldStep
    <3>2. CASE i \in 1..n
      BY <2>1, <3>1, <3>2 DEF IsBegun, BeingDefined
    <3>3. CASE i \notin 1..n
      <4>1. u \in inlined /\ i = n + 1
        BY <2>1, <3>1, <3>3, Indices
      <4> QED  BY <2>1, <2>2, <3>1, <4>1
    <3> QED  BY <3>2, <3>3
  <2>3. CASE EndBody
    <3>1. PICK n \in Nat \ {0} : DOMAIN bodies = 1..n /\ DOMAIN bodies' = 1..(n - 1)
            /\ \A j \in 1..(n - 1) : j \in 1..n /\ bodies'[j] = bodies[j]
      BY <1>0, <2>3, EndBodyStep
    <3> QED  BY <2>1, <3>1 DEF IsBegun, BeingDefined
  <2>4. CASE PrintNode
    <3>1. /\ bodies = << >> /\ VisitStack # << >> /\ VisitStack \in Seq(Frame)
          /\ bodies' = bodies \/ (bodies' = Open(bodies, Top.node[1]) /\ definesOnItsOwn(Top.node[1])
                                  /\ Top.node # Decl(Top.node[1]))
      BY <1>0, <2>4 DEF PrintNode, TypeOK
    <3>2. Top.node \in TypeNode /\ Top.node[1] \in Type
      <4>1. Top \in Frame
        BY <3>1, FrontFacts DEF Top
      <4> QED  BY <4>1 DEF Frame, TypeNode
    <3>3. DOMAIN bodies = {}
      BY <3>1
    <3>4. bodies' # bodies
      BY <2>1, <3>3
    <3>5. t = Top.node[1] /\ t \notin inlined
      BY <2>1, <3>1, <3>2, <3>4, OpenFirst DEF definesOnItsOwn
    <3>6. Top.node = Def(t)
      BY <3>1, <3>2, <3>4, <3>5 DEF TypeNode, Def, Decl
    <3> QED  BY <2>4, <3>5, <3>6
  <2>5. CASE PrintFunctionBody
    <3>1. PICK u \in functions : functions' = functions \ {u}
                                /\ bodies' = IF u \in inlined THEN Open(bodies, u) ELSE bodies
      BY <2>5 DEF PrintFunctionBody
    <3>2. bodies = << >> /\ u \in Type
      BY <1>0, <2>5 DEF PrintFunctionBody, TypeOK
    <3>3. DOMAIN bodies = {}
      BY <3>2
    <3>4. u \in inlined /\ bodies' = Open(bodies, u)
      BY <2>1, <3>1, <3>3
    <3>5. t = u
      BY <2>1, <3>2, <3>4, OpenFirst
    <3> QED  BY <2>5, <3>1, <3>4, <3>5
  <2>6. CASE printModelHeader \/ NextRoot \/ VisitSuccessor \/ EndHeader \/ UNCHANGED vars
    <3>1. bodies' = bodies
      BY <2>6 DEF printModelHeader, NextRoot, VisitSuccessor, EndHeader, vars
    <3> QED  BY <2>1, <3>1 DEF IsBegun, BeingDefined
  <2> QED  BY <2>2, <2>3, <2>4, <2>5, <2>6 DEF Next
<1> QED  BY <1>4, <1>5 DEF IsBegun

------------------------------------------------------------------------------
(* What is printed has been left by the visit, unless it is printed         *)
(* elsewhere: before the header, in its user, or in a function.             *)
DeclaredAreFinished ==
  \A t \in Type : Decl(t) \in ToSet(out) =>
    Decl(t) \in Finished \/ t \in TypesToOmit \/ pc = "single type"

DefinedAreFinished ==
  \A t \in Type \ inlined : IsBegun(t) => Def(t) \in Finished \/ pc = "single type"

FramesAreForFunctions ==
  \A t \in inlined \cap m.frames : IsBegun(t) =>
    pc = "single type" \/ (pc = "functions" /\ t \notin functions)

Elsewhere == DeclaredAreFinished /\ DefinedAreFinished /\ FramesAreForFunctions

LEMMA Phase ==
  ASSUME IndInv, [Next]_vars
  PROVE  /\ m' = m
         /\ pc = "single type" => pc' = "single type"
         /\ pc = "functions" => pc' = "functions" /\ functions' \subseteq functions
         /\ pc # "ready" => inlined' = inlined /\ TypesToOmit' = TypesToOmit
         /\ pc = "ready" /\ pc' # "ready" => printModelHeader \/ PrintSingleType
         /\ PrintSingleType => pc' = "single type"
         /\ pc = "ready" /\ pc' = "ready" => UNCHANGED vars
<1>1. m' = m /\ (pc = "single type" => pc' = "single type")
  BY DEF Next, printModelHeader, NextRoot, VisitSuccessor, PrintNode, EndHeader, PrintField,
         EndBody, PrintFunctionBody, PrintSingleType, vars
<1>2. pc = "functions" => pc' = "functions" /\ functions' \subseteq functions
  BY DEF Next, printModelHeader, NextRoot, VisitSuccessor, PrintNode, EndHeader, PrintField,
         EndBody, PrintFunctionBody, PrintSingleType, vars
<1>3. pc # "ready" => inlined' = inlined /\ TypesToOmit' = TypesToOmit
  BY DEF Next, printModelHeader, NextRoot, VisitSuccessor, PrintNode, EndHeader, PrintField,
         EndBody, PrintFunctionBody, PrintSingleType, vars
<1>4. pc = "ready" /\ ~UNCHANGED vars => printModelHeader \/ PrintSingleType
  BY DEF IndInv, Phases, Next, printModelHeader, NextRoot, VisitSuccessor, PrintNode, EndHeader,
         PrintField, EndBody, PrintFunctionBody, PrintSingleType
<1>5. (PrintSingleType => pc' = "single type") /\ (printModelHeader => pc' = "header")
  BY DEF PrintSingleType, printModelHeader
<1>6. UNCHANGED vars => pc' = pc
  BY DEF vars
<1> QED  BY <1>1, <1>2, <1>3, <1>4, <1>5, <1>6

LEMMA NextElsewhere == IndInv /\ Chosen /\ OnceOnStack /\ Elsewhere /\ [Next]_vars => Elsewhere'
<1> SUFFICES ASSUME IndInv, Chosen, OnceOnStack, Elsewhere, [Next]_vars PROVE Elsewhere'
  OBVIOUS
<1>0. /\ m \in Model /\ Finished \subseteq Finished' /\ inlined \subseteq TypesToInline(m)
      /\ PrintNode => Top.node \in Finished'
  BY FinishedStays DEF IndInv, TypeOK, Chosen
<1>1. CASE pc = "ready"
  <2>1. CASE UNCHANGED vars
    BY <2>1 DEF vars, Elsewhere, DeclaredAreFinished, DefinedAreFinished, FramesAreForFunctions,
                IsBegun, IsDefined, BeingDefined, Finished, onStack
  <2>2. CASE PrintSingleType
    BY <2>2, Phase DEF Elsewhere, DeclaredAreFinished, DefinedAreFinished, FramesAreForFunctions
  <2>3. CASE printModelHeader
    <3>1. ToSet(out) = {} /\ bodies' = << >>
      BY <1>1, <2>3 DEF Chosen, ToSet, printModelHeader, IndInv, Phases
    <3>2. ~PrintSingleType /\ ~EndBody /\ ~PrintNode
      BY <1>1, <2>3 DEF printModelHeader, PrintSingleType, EndBody, PrintNode, IndInv, Phases
    <3>3. \A n \in ToSet(out') : n = Decl(conf.TypeToEdit) /\ conf.TypeToEdit # NoType
      BY <3>1, <3>2, PrintedStep
    <3>4. \A t \in Type : ~IsBegun(t)'
      <4>1. DOMAIN bodies' = {}
        BY <3>1
      <4> QED  BY <3>3, <4>1 DEF IsBegun, IsDefined, BeingDefined, Def, Decl
    <3>5. ASSUME NEW t \in Type, Decl(t) \in ToSet(out') PROVE t \in TypesToOmit'
      <4>1. t = conf.TypeToEdit /\ conf.TypeToEdit # NoType
        BY <3>3, <3>5 DEF Decl
      <4> QED  BY <2>3, <4>1 DEF printModelHeader, typesNotToShow, collectDependentTypes
    <3>6. inlined' \subseteq Type
      BY <2>3 DEF printModelHeader, collectInlinableTypes
    <3> QED  BY <3>4, <3>5, <3>6
             DEF Elsewhere, DeclaredAreFinished, DefinedAreFinished, FramesAreForFunctions
  <2> QED  BY <1>1, <2>1, <2>2, <2>3, Phase DEF Next, NextRoot, VisitSuccessor, PrintNode, EndHeader,
              PrintField, EndBody, PrintFunctionBody, IndInv, Phases
<1>2. CASE pc # "ready"
  <2>0. /\ m' = m /\ inlined' = inlined /\ TypesToOmit' = TypesToOmit
        /\ (pc = "single type" => pc' = "single type")
        /\ (PrintSingleType => pc' = "single type") /\ ~printModelHeader
    BY <1>2, Phase DEF printModelHeader
  <2>1. DeclaredAreFinished'
    <3> SUFFICES ASSUME NEW t \in Type, Decl(t) \in ToSet(out')
                 PROVE  Decl(t) \in Finished' \/ t \in TypesToOmit' \/ pc' = "single type"
      BY DEF DeclaredAreFinished
    <3>1. CASE Decl(t) \in ToSet(out)
      BY <1>0, <2>0, <3>1 DEF Elsewhere, DeclaredAreFinished
    <3>2. CASE Decl(t) \notin ToSet(out)
      <4>1. EndBody => Decl(t) # Def(InnerBody.type)
        BY DEF Decl, Def
      <4>2. (PrintNode /\ Decl(t) = Top.node) \/ PrintSingleType
        BY <2>0, <3>2, <4>1, PrintedStep
      <4> QED  BY <1>0, <2>0, <4>2
    <3> QED  BY <3>1, <3>2
  <2>2. DefinedAreFinished'
    <3> SUFFICES ASSUME NEW t \in Type \ inlined, IsBegun(t)'
                 PROVE  Def(t) \in Finished' \/ pc' = "single type"
      BY <2>0 DEF DefinedAreFinished
    <3>1. IsBegun(t) \/ (PrintNode /\ Top.node = Def(t)) \/ PrintSingleType
      BY BegunStep
    <3> QED  BY <1>0, <2>0, <3>1 DEF Elsewhere, DefinedAreFinished
  <2>3. FramesAreForFunctions'
    <3> SUFFICES ASSUME NEW t \in inlined \cap m.frames, IsBegun(t)'
                 PROVE  pc' = "single type" \/ (pc' = "functions" /\ t \notin functions')
      BY <2>0 DEF FramesAreForFunctions
    <3>0. t \in Type
      BY DEF IndInv, TypeOK
    <3>1. \A x \in Type : \A i : ~IsUse(m, x, i, t)
      BY <1>0, InlinedIsUsedOnce
    <3>2. IsBegun(t) \/ (PrintFunctionBody /\ t \in functions \ functions') \/ PrintSingleType
      BY <3>0, <3>1, BegunStep
    <3>3. CASE IsBegun(t)
      BY <2>0, <3>3, Phase DEF Elsewhere, FramesAreForFunctions
    <3>4. CASE PrintFunctionBody /\ t \in functions \ functions'
      BY <3>4, Phase DEF PrintFunctionBody
    <3> QED  BY <2>0, <3>2, <3>3, <3>4
  <2> QED  BY <2>1, <2>2, <2>3 DEF Elsewhere
<1> QED  BY <1>1, <1>2

------------------------------------------------------------------------------
(* A definition ends after those of the fields it inlines, the last one     *)
(* that has begun excepted as long as it is open, and the frames that are   *)
(* inlined are defined in the functions.                                    *)
FieldsAreDefined ==
  /\ \A t \in Type : IsDefined(t) =>
       \A u \in inlined : \A k : IsUse(m, t, k, u) => IsDefined(u)
  /\ \A i \in DOMAIN bodies : \A k \in 1..bodies[i].done : \A u \in inlined :
       IsUse(m, bodies[i].type, k, u) =>
         IsDefined(u) \/ (i # Len(bodies) /\ k = bodies[i].done)

FramesAreDefined ==
  pc = "functions" => \A t \in inlined \cap m.frames :
    t \in functions \/ IsDefined(t) \/ (bodies # << >> /\ bodies[1].type = t)

(* What is defined after a step.                                            *)
LEMMA DefinedStep ==
  ASSUME IndInv, Chosen, [Next]_vars, NEW t
  PROVE  /\ IsDefined(t) => IsDefined(t)'
         /\ IsDefined(t)' => IsDefined(t) \/ (EndBody /\ t = InnerBody.type)
         /\ (EndBody /\ t = InnerBody.type) => IsDefined(t)'
<1>1. Def(t)[2] # "Declaration" /\ Def(t) # Decl(conf.TypeToEdit)
  BY DEF Def, Decl
<1>2. Def(t) = Def(InnerBody.type) => t = InnerBody.type
  BY DEF Def
<1>3. ASSUME EndBody, t = InnerBody.type PROVE IsDefined(t)'
  <2>1. out \in Seq(TypeNode) /\ bodies \in Seq(Body) /\ bodies # << >>
        /\ out' = Append(out, Def(t))
    BY <1>3 DEF EndBody, IndInv, TypeOK
  <2>2. InnerBody \in Body
    BY <2>1, FrontFacts DEF InnerBody
  <2>3. Def(t) \in TypeNode
    BY <1>3, <2>2, NodesOfTypes DEF Body
  <2>4. Def(t) \in ToSet(out')
    BY <2>1, <2>3, AppendFacts
  <2> QED  BY <2>4 DEF IsDefined
<1> QED  BY <1>1, <1>2, <1>3, PrintedStep DEF IsDefined

LEMMA NextFieldsAreDefined ==
  IndInv /\ Chosen /\ Nesting /\ FieldsAreDefined /\ [Next]_vars => FieldsAreDefined'
<1> SUFFICES ASSUME IndInv, Chosen, Nesting, FieldsAreDefined, [Next]_vars PROVE FieldsAreDefined'
  OBVIOUS
<1>0. TypeOK /\ bodies \in Seq(Body)
  BY DEF IndInv, TypeOK
<1>1. CASE PrintField
  <2>1. PICK n \in Nat \ {0}, k \in Nat \ {0}, t \in Type :
           /\ UNCHANGED <<m, inlined, out>>
           /\ Len(bodies) = n /\ DOMAIN bodies = 1..n
           /\ k = bodies[n].done + 1
           /\ IsUse(m, bodies[n].type, k, t)
           /\ \A i \in 1..n : /\ bodies'[i].type = bodies[i].type
                              /\ bodies'[i].done = IF i = n THEN k ELSE bodies[i].done
           /\ t \notin inlined => Len(bodies') = n /\ DOMAIN bodies' = 1..n
           /\ t \in inlined => /\ Len(bodies') = n + 1 /\ DOMAIN bodies' = 1..(n + 1)
                               /\ bodies'[n + 1].type = t /\ bodies'[n + 1].done = 0
    BY <1>0, <1>1, PrintFieldStep
  <2>2. \A t1 : IsDefined(t1)' <=> IsDefined(t1)
    BY <2>1 DEF IsDefined
  <2>3. ASSUME NEW i \in DOMAIN bodies', NEW j \in 1..bodies'[i].done, NEW u \in inlined,
               IsUse(m, bodies'[i].type, j, u)
        PROVE  IsDefined(u) \/ (i # Len(bodies') /\ j = bodies'[i].done)
    <3>1. i \in 1..n \/ (i = n + 1 /\ t \in inlined)
      BY <2>1, Indices
    <3>2. CASE i = n + 1 /\ t \in inlined
      BY <2>1, <2>3, <3>2
    <3>3. CASE i \in 1..n /\ i # n
      <4>1. bodies'[i].type = bodies[i].type /\ bodies'[i].done = bodies[i].done
            /\ i # n + 1
        BY <2>1, <3>3
      <4>2. IsDefined(u) \/ j = bodies[i].done
        BY <2>1, <2>3, <3>3, <4>1 DEF FieldsAreDefined
      <4> QED  BY <2>1, <3>3, <4>1, <4>2
    <3>4. CASE i = n
      <4>1. i \in 1..n /\ i # n + 1 /\ bodies'[i].type = bodies[n].type /\ bodies'[i].done = k
        BY <2>1, <3>4, Indices
      <4>2. CASE j = k
        <5>1. u = t
          BY <2>1, <2>3, <4>1, <4>2 DEF IsUse
        <5> QED  BY <2>1, <4>1, <4>2, <5>1
      <4>3. CASE j # k
        <5>1. j \in 1..bodies[n].done
          <6>1. bodies[n].done \in Nat
            BY <1>0, <2>1, <3>4, <4>1, BodiesHaveTypes
          <6> QED  BY <2>1, <2>3, <4>1, <4>3, <6>1
        <5> QED  BY <2>1, <2>3, <3>4, <4>1, <5>1 DEF FieldsAreDefined
      <4> QED  BY <4>2, <4>3
    <3> QED  BY <3>1, <3>2, <3>3, <3>4
  <2> QED  BY <2>1, <2>2, <2>3 DEF FieldsAreDefined
<1>2. CASE EndBody
  <2>1. PICK n \in Nat \ {0}, t \in Type :
           /\ UNCHANGED <<m, inlined>>
           /\ Len(bodies) = n /\ DOMAIN bodies = 1..n /\ bodies[n].type = t
           /\ DOMAIN m.types[t].edges = 1..bodies[n].done
           /\ Len(bodies') = n - 1 /\ DOMAIN bodies' = 1..(n - 1)
           /\ \A i \in 1..(n - 1) : i \in 1..n /\ i # n /\ bodies'[i] = bodies[i]
           /\ ToSet(out') = ToSet(out) \cup {Def(t)}
    BY <1>0, <1>2, EndBodyStep
  <2>2. \A t1 : IsDefined(t1)' <=> IsDefined(t1) \/ t1 = t
    BY <2>1 DEF IsDefined, Def
  <2>3. n \in 1..n
    BY Indices
  <2>4. \A u \in inlined : \A k : IsUse(m, t, k, u) => IsDefined(u)
    BY <2>1, <2>3 DEF FieldsAreDefined, IsUse
  <2>5. ASSUME NEW i \in 1..(n - 1), NEW j \in 1..bodies[i].done, NEW u \in inlined,
               IsUse(m, bodies[i].type, j, u)
        PROVE  IsDefined(u) \/ u = t \/ (i # n - 1 /\ j = bodies[i].done)
    <3>1. IsDefined(u) \/ j = bodies[i].done
      BY <2>1, <2>5 DEF FieldsAreDefined
    <3>2. CASE i = n - 1 /\ j = bodies[i].done
      <4>1. IsUse(m, bodies[i].type, bodies[i].done, bodies[i + 1].type) /\ i + 1 = n
        BY <2>1, <3>2 DEF Nesting, BodiesAreNested
      <4> QED  BY <2>1, <2>5, <3>2, <4>1 DEF IsUse
    <3> QED  BY <3>1, <3>2
  <2> QED  BY <2>1, <2>2, <2>4, <2>5 DEF FieldsAreDefined
<1>3. CASE ~PrintField /\ ~EndBody
  <2>1. /\ m' = m /\ (bodies' = bodies \/ \E t \in Type : OpensFirst(t))
        /\ (pc # "ready" \/ UNCHANGED vars => UNCHANGED <<inlined, TypesToOmit>>)
        /\ pc = "ready" => bodies = << >>
    BY <1>3, OtherSteps
  <2>2. \A t1 : IsDefined(t1)' <=> IsDefined(t1)
    BY <1>3, DefinedStep
  <2>3. ASSUME NEW i \in DOMAIN bodies', NEW j \in 1..bodies'[i].done
        PROVE  bodies' = bodies /\ pc # "ready"
    <3>1. CASE \E t \in Type : OpensFirst(t)
      BY <2>3, <3>1 DEF OpensFirst
    <3>2. CASE bodies' = bodies
      BY <2>1, <2>3, <3>2
    <3> QED  BY <2>1, <3>1, <3>2
  <2>4. CASE pc = "ready"
    <3>1. \A t1 : ~IsDefined(t1)
      BY <2>4 DEF Chosen, IsDefined, ToSet
    <3> QED  BY <2>2, <2>3, <2>4, <3>1 DEF FieldsAreDefined
  <2>5. CASE pc # "ready"
    <3>1. inlined' = inlined
      BY <2>1, <2>5
    <3>2. \A i \in DOMAIN bodies' : \A k \in 1..bodies'[i].done : \A u \in inlined :
            IsUse(m, bodies'[i].type, k, u) =>
              IsDefined(u) \/ (i # Len(bodies') /\ k = bodies'[i].done)
      BY <2>3 DEF FieldsAreDefined
    <3> QED  BY <2>1, <2>2, <3>1, <3>2 DEF FieldsAreDefined
  <2> QED  BY <2>4, <2>5
<1> QED  BY <1>1, <1>2, <1>3

LEMMA NextFramesAreDefined ==
  IndInv /\ Chosen /\ FramesAreDefined /\ [Next]_vars => FramesAreDefined'
<1> SUFFICES ASSUME IndInv, Chosen, FramesAreDefined, [Next]_vars, pc' = "functions",
                    NEW t \in inlined' \cap m'.frames
             PROVE  t \in functions' \/ IsDefined(t)' \/ (bodies' # << >> /\ bodies'[1].type = t)
  BY DEF FramesAreDefined
<1>0. TypeOK /\ bodies \in Seq(Body) /\ BoundedBodies(bodies)
  BY DEF IndInv, TypeOK, BoundedBodies
<1>1. pc \in {"header", "functions"} /\ ~printModelHeader /\ ~PrintSingleType
  BY <1>0 DEF Next, printModelHeader, NextRoot, VisitSuccessor, PrintNode, EndHeader,
         PrintField, EndBody, PrintFunctionBody, PrintSingleType, vars, IndInv, Phases, TypeOK
<1>2. m' = m /\ inlined' = inlined
  BY <1>1, Phase
<1>3. CASE EndHeader
  BY <1>2, <1>3 DEF EndHeader
<1>4. CASE ~EndHeader
  <2>1. pc = "functions"
    BY <1>1, <1>4 DEF Next, printModelHeader, NextRoot, VisitSuccessor, PrintNode, EndHeader,
         PrintField, EndBody, PrintFunctionBody, PrintSingleType, vars
  <2>2. t \in functions \/ IsDefined(t) \/ (bodies # << >> /\ bodies[1].type = t)
    BY <1>2, <2>1 DEF FramesAreDefined
  <2>3. CASE IsDefined(t)
    BY <2>3, DefinedStep
  <2>4. CASE bodies # << >> /\ bodies[1].type = t
    <3>1. CASE PrintField
      <4>1. PICK n \in Nat \ {0}, k \in Nat \ {0}, u \in Type :
              /\ Len(bodies) = n /\ \A i \in 1..n : bodies'[i].type = bodies[i].type
              /\ DOMAIN bodies' = 1..n \/ DOMAIN bodies' = 1..(n + 1)
        BY <1>0, <3>1, PrintFieldStep
      <4>2. 1 \in 1..n /\ 1 \in 1..(n + 1)
        BY Indices
      <4> QED  BY <2>4, <4>1, <4>2
    <3>2. CASE EndBody
      <4>1. \/ bodies' # << >> /\ bodies'[1].type = bodies[1].type
            \/ bodies' = << >> /\ InnerBody = bodies[1]
        BY <1>0, <2>4, <3>2, FrontKeepsOutermost DEF EndBody
      <4>2. IsDefined(t)' \/ t # InnerBody.type
        BY <3>2, DefinedStep
      <4> QED  BY <2>4, <4>1, <4>2
    <3>3. CASE ~PrintField /\ ~EndBody
      BY <2>4, <3>3, OtherSteps DEF OpensFirst
    <3> QED  BY <3>1, <3>2, <3>3
  <2>5. CASE t \in functions
    <3>1. CASE PrintFunctionBody
      <4>1. PICK u \in functions : functions' = functions \ {u}
                                /\ bodies' = IF u \in inlined THEN Open(bodies, u) ELSE bodies
        BY <3>1 DEF PrintFunctionBody
      <4>2. bodies = << >> /\ u \in Type
        BY <1>0, <3>1 DEF PrintFunctionBody, TypeOK
      <4>3. t # u => t \in functions'
        BY <2>5, <4>1
      <4>4. t = u => bodies' # << >> /\ bodies'[1].type = t
        <5>1. t = u => bodies' = Open(bodies, t)
          BY <1>2, <4>1
        <5> QED  BY <4>2, <5>1, OpenFirst
      <4> QED  BY <4>3, <4>4
    <3>2. CASE ~PrintFunctionBody
      <4>1. functions' = functions
        BY <1>1, <1>4, <3>2 DEF Next, NextRoot, VisitSuccessor, PrintNode, PrintField, EndBody, vars
      <4> QED  BY <2>5, <4>1
    <3> QED  BY <3>1, <3>2
  <2> QED  BY <2>2, <2>3, <2>4, <2>5
<1> QED  BY <1>3, <1>4

------------------------------------------------------------------------------
(* As long as no type is printed inside itself: nothing has been printed    *)
(* twice, no definition that is being printed has been, and a type that was *)
(* inlined is in a user that is at least as far as to have reached it.      *)
PrintedOnce == \A i, j \in DOMAIN out : out[i] = out[j] => i = j
OpenAreNotDefined == \A i \in DOMAIN bodies : ~IsDefined(bodies[i].type)
InlinedAreInUser ==
  \A u \in inlined : IsDefined(u) => \A x \in Type : \A j : IsUse(m, x, j, u) =>
    \/ IsDefined(x)
    \/ \E i \in DOMAIN bodies : bodies[i].type = x /\ j <= bodies[i].done
    \/ pc = "single type" /\ bodies = << >>

DefinedOnce == InliningEnds => PrintedOnce /\ OpenAreNotDefined /\ InlinedAreInUser

(* A type that is printed inside itself is for good.                        *)
LEMMA CirclesStay ==
  ASSUME IndInv, Nesting, [Next]_vars, InliningEnds'
  PROVE  InliningEnds
<1>0. TypeOK /\ bodies \in Seq(Body)
  BY DEF IndInv, TypeOK
<1>1. CASE PrintField
  <2>1. PICK n \in Nat \ {0} :
           /\ DOMAIN bodies = 1..n /\ \A i \in 1..n : bodies'[i].type = bodies[i].type
           /\ DOMAIN bodies' = 1..n \/ DOMAIN bodies' = 1..(n + 1)
    BY <1>0, <1>1, PrintFieldStep
  <2>2. \A i \in 1..n : i \in DOMAIN bodies'
    BY <2>1, Indices
  <2> QED  BY <2>1, <2>2 DEF InliningEnds
<1>2. CASE EndBody
  <2>1. PICK n \in Nat \ {0}, t \in Type :
           /\ UNCHANGED <<m, inlined>>
           /\ Len(bodies) = n /\ DOMAIN bodies = 1..n /\ bodies[n].type = t
           /\ DOMAIN m.types[t].edges = 1..bodies[n].done
           /\ Len(bodies') = n - 1 /\ DOMAIN bodies' = 1..(n - 1)
           /\ \A i \in 1..(n - 1) : i \in 1..n /\ i # n /\ bodies'[i] = bodies[i]
           /\ \A i \in 1..n : i # n => i \in 1..(n - 1)
    BY <1>0, <1>2, EndBodyStep
  <2>2. ASSUME NEW i \in 1..n, i < n, bodies[i].type = t PROVE FALSE
    <3>1. bodies[n].done < bodies[i].done
      BY <2>1, <2>2, Indices DEF Nesting, CirclesDoNotEnd
    <3>2. bodies[i].done <= Len(m.types[t].edges)
      BY <1>0, <2>1, <2>2 DEF TypeOK
    <3>3. m.types[t].edges \in Seq(Use)
      BY <1>0 DEF TypeOK, Model, Definition
    <3>4. bodies[n].done \in Nat /\ bodies[i].done \in Nat
      BY <1>0, <2>1, Indices, BodiesHaveTypes
    <3>5. DOMAIN m.types[t].edges = 1..Len(m.types[t].edges) /\ Len(m.types[t].edges) \in Nat
      BY <3>3, LenProperties
    <3>6. Len(m.types[t].edges) = bodies[n].done
      BY <2>1, <3>4, <3>5
    <3> QED  BY <3>1, <3>2, <3>4, <3>6
  <2>3. \A i \in 1..n : i # n => i < n
    OBVIOUS
  <2>4. ASSUME NEW i \in 1..n, NEW j \in 1..n, bodies[i].type = bodies[j].type PROVE i = j
    <3>1. CASE i # n /\ j # n
      BY <2>1, <2>4, <3>1 DEF InliningEnds
    <3>2. CASE i = n \/ j = n
      BY <2>1, <2>2, <2>3, <2>4, <3>2
    <3> QED  BY <3>1, <3>2
  <2> QED  BY <2>1, <2>4 DEF InliningEnds
<1>3. CASE ~PrintField /\ ~EndBody
  <2>1. bodies' = bodies \/ \E t \in Type : OpensFirst(t)
    BY <1>3, OtherSteps
  <2>2. CASE \E t \in Type : OpensFirst(t)
    <3>1. DOMAIN bodies = {}
      BY <2>2 DEF OpensFirst
    <3> QED  BY <3>1 DEF InliningEnds
  <2>3. CASE bodies' = bodies
    BY <2>3 DEF InliningEnds
  <2> QED  BY <2>1, <2>2, <2>3
<1> QED  BY <1>1, <1>2, <1>3

(* What is printed next has not been printed.                               *)
LEMMA NewIsAppended ==
  ASSUME PrintedOnce, out \in Seq(TypeNode), NEW n \in TypeNode, n \notin ToSet(out),
         out' = Append(out, n)
  PROVE  PrintedOnce'
<1>1. /\ DOMAIN out' = DOMAIN out \cup {Len(out) + 1} /\ out'[Len(out) + 1] = n
      /\ \A i \in DOMAIN out : out'[i] = out[i] /\ i # Len(out) + 1
  BY AppendFacts
<1>2. \A i \in DOMAIN out : out[i] # n
  BY DEF ToSet
<1> QED  BY <1>1, <1>2 DEF PrintedOnce

LEMMA NextDefinedOnce ==
  IndInv /\ Chosen /\ Nesting /\ OutermostIsNoField /\ OnceOnStack /\ Elsewhere /\ DefinedOnce
    /\ [Next]_vars => DefinedOnce'
<1> SUFFICES ASSUME IndInv, Chosen, Nesting, OutermostIsNoField, OnceOnStack, Elsewhere,
                    DefinedOnce, [Next]_vars, InliningEnds'
             PROVE  (PrintedOnce /\ OpenAreNotDefined /\ InlinedAreInUser)'
  BY DEF DefinedOnce
<1>0. /\ TypeOK /\ bodies \in Seq(Body) /\ m \in Model /\ inlined \subseteq TypesToInline(m)
      /\ out \in Seq(TypeNode) /\ inlined \subseteq Type
  BY DEF IndInv, TypeOK, Chosen
<1>1. InliningEnds /\ PrintedOnce /\ OpenAreNotDefined /\ InlinedAreInUser
  BY CirclesStay DEF DefinedOnce
<1>2. CASE PrintField
  <2>1. PICK n \in Nat \ {0}, k \in Nat \ {0}, t \in Type :
           /\ UNCHANGED <<m, pc, inlined, out>>
           /\ Len(bodies) = n /\ DOMAIN bodies = 1..n
           /\ bodies[n].type \in Type /\ k = bodies[n].done + 1
           /\ IsUse(m, bodies[n].type, k, t)
           /\ \A i \in 1..n : /\ bodies'[i].type = bodies[i].type
                              /\ bodies'[i].done = IF i = n THEN k ELSE bodies[i].done
           /\ t \notin inlined => Len(bodies') = n /\ DOMAIN bodies' = 1..n
           /\ t \in inlined => /\ Len(bodies') = n + 1 /\ DOMAIN bodies' = 1..(n + 1)
                               /\ bodies'[n + 1].type = t /\ bodies'[n + 1].done = 0
    BY <1>0, <1>2, PrintFieldStep
  <2>2. n \in 1..n /\ bodies # << >> /\ \A i \in 1..n : bodies[i].done \in Nat
    BY <1>0, <1>2, <2>1, Indices, BodiesHaveTypes DEF PrintField
  <2>3. \A u : IsDefined(u)' <=> IsDefined(u)
    BY <2>1 DEF IsDefined
  <2>4. t \in inlined => ~IsDefined(t)
    <3> SUFFICES ASSUME t \in inlined, IsDefined(t) PROVE FALSE
      OBVIOUS
    <3>1. ~IsDefined(bodies[n].type)
      BY <1>1, <2>1, <2>2 DEF OpenAreNotDefined
    <3>2. PICK i \in 1..n : bodies[i].type = bodies[n].type /\ k <= bodies[i].done
      BY <1>1, <2>1, <2>2, <3>1 DEF InlinedAreInUser
    <3>3. i = n
      BY <1>1, <2>1, <2>2, <3>2 DEF InliningEnds
    <3> QED  BY <2>1, <2>2, <3>2, <3>3
  <2>5. OpenAreNotDefined'
    <3> SUFFICES ASSUME NEW i \in DOMAIN bodies' PROVE ~IsDefined(bodies'[i].type)
      BY <2>1 DEF OpenAreNotDefined, IsDefined
    <3>1. i \in 1..n \/ (i = n + 1 /\ t \in inlined)
      BY <2>1, Indices
    <3> QED  BY <1>1, <2>1, <2>4, <3>1 DEF OpenAreNotDefined
  <2>6. InlinedAreInUser'
    <3>0. SUFFICES ASSUME NEW u \in inlined', IsDefined(u)', NEW x \in Type, NEW j, IsUse(m', x, j, u),
                          ~IsDefined(x)'
                   PROVE  \/ \E i \in DOMAIN bodies' : bodies'[i].type = x /\ j <= bodies'[i].done
                          \/ pc' = "single type" /\ bodies' = << >>
      BY DEF InlinedAreInUser
    <3>5. m' = m /\ inlined' = inlined
      BY <2>1
    <3>6. u \in inlined /\ IsDefined(u) /\ IsUse(m, x, j, u) /\ ~IsDefined(x)
      BY <2>3, <3>0, <3>5
    <3>1. CASE \E i \in 1..n : bodies[i].type = x /\ j <= bodies[i].done
      <4>1. PICK i \in 1..n : bodies[i].type = x /\ j <= bodies[i].done
        BY <3>1
      <4>2. j \in Nat
        <5>1. m.types[x].edges \in Seq(Use)
          BY <1>0 DEF Model, Definition
        <5>2. Len(m.types[x].edges) \in Nat /\ DOMAIN m.types[x].edges = 1..Len(m.types[x].edges)
          BY <5>1, LenProperties
        <5> QED  BY <3>6, <5>2 DEF IsUse
      <4>3. j <= bodies'[i].done /\ bodies'[i].type = x
        <5>1. CASE i = n
          <6>1. bodies'[i].done = bodies[i].done + 1 /\ bodies'[i].type = bodies[i].type
            BY <2>1, <4>1, <5>1
          <6>2. bodies[i].done \in Nat
            BY <2>2, <4>1
          <6> QED  BY <4>1, <4>2, <6>1, <6>2
        <5>2. CASE i # n
          BY <2>1, <4>1, <5>2
        <5> QED  BY <5>1, <5>2
      <4>4. i \in DOMAIN bodies'
        BY <2>1, Indices
      <4> QED  BY <4>3, <4>4
    <3> QED  BY <1>1, <2>1, <2>2, <3>1, <3>6 DEF InlinedAreInUser
  <2> QED  BY <1>1, <2>1, <2>5, <2>6 DEF PrintedOnce
<1>3. CASE EndBody
  <2>1. PICK n \in Nat \ {0}, t \in Type :
           /\ UNCHANGED <<m, pc, inlined>>
           /\ Len(bodies) = n /\ DOMAIN bodies = 1..n /\ bodies[n].type = t
           /\ DOMAIN m.types[t].edges = 1..bodies[n].done
           /\ Len(bodies') = n - 1 /\ DOMAIN bodies' = 1..(n - 1)
           /\ \A i \in 1..(n - 1) : i \in 1..n /\ i # n /\ bodies'[i] = bodies[i]
           /\ \A i \in 1..n : i # n => i \in 1..(n - 1)
           /\ ToSet(out') = ToSet(out) \cup {Def(t)}
    BY <1>0, <1>3, EndBodyStep
  <2>2. n \in 1..n /\ bodies # << >> /\ InnerBody = bodies[n] /\ out' = Append(out, Def(t))
    BY <1>0, <1>3, <2>1, FrontFacts, Indices DEF EndBody, InnerBody
  <2>3. \A u : IsDefined(u)' <=> IsDefined(u) \/ u = t
    BY <2>1 DEF IsDefined, Def
  <2>4. ~IsDefined(t) /\ Def(t) \in TypeNode
    BY <1>1, <2>1, <2>2, NodesOfTypes DEF OpenAreNotDefined
  <2>5. PrintedOnce'
    BY <1>0, <1>1, <2>2, <2>4, NewIsAppended DEF IsDefined
  <2>6. OpenAreNotDefined'
    <3> SUFFICES ASSUME NEW i \in 1..(n - 1) PROVE ~IsDefined(bodies[i].type) /\ bodies[i].type # t
      BY <2>1, <2>3 DEF OpenAreNotDefined
    <3> QED  BY <1>1, <2>1, <2>2 DEF OpenAreNotDefined, InliningEnds
  <2>7. InlinedAreInUser'
    <3> SUFFICES ASSUME NEW u \in inlined, IsDefined(u) \/ u = t, NEW x \in Type, NEW j, IsUse(m, x, j, u),
                        x # t, ~IsDefined(x)
                 PROVE  \/ \E i \in 1..(n - 1) : bodies[i].type = x /\ j <= bodies[i].done
                        \/ pc = "single type" /\ bodies' = << >>
      BY <2>1, <2>3 DEF InlinedAreInUser
    <3>1. CASE IsDefined(u)
      <4>1. PICK i \in 1..n : bodies[i].type = x /\ j <= bodies[i].done
        BY <1>1, <2>1, <2>2, <3>1 DEF InlinedAreInUser
      <4> QED  BY <2>1, <4>1
    <3>2. CASE u = t /\ n = 1
      <4>1. bodies' = << >>
        <5>1. bodies' \in Seq(Body)
          BY <1>0, <1>3, FrontFacts DEF EndBody
        <5> QED  BY <2>1, <3>2, <5>1, EmptySeq
      <4>2. pc = "single type"
        <5>1. SUFFICES ASSUME pc # "single type" PROVE FALSE
          OBVIOUS
        <5>2. t \in m.frames
          BY <2>1, <2>2, <3>2, <5>1 DEF OutermostIsNoField
        <5> QED  BY <1>0, <3>2, <5>2, InlinedIsUsedOnce
      <4> QED  BY <4>1, <4>2
    <3>3. CASE u = t /\ n # 1
      <4>1. n - 1 \in 1..(n - 1) /\ (n - 1) + 1 = n /\ n - 1 \in 1..n
        BY <3>3, Indices
      <4>2. IsUse(m, bodies[n - 1].type, bodies[n - 1].done, t)
        BY <2>1, <4>1 DEF Nesting, BodiesAreNested
      <4>3. bodies[n - 1].type \in Type /\ bodies[n - 1].done \in Nat
        BY <1>0, <2>1, <4>1, BodiesHaveTypes
      <4>4. bodies[n - 1].type = x /\ bodies[n - 1].done = j
        <5>1. t \in TypesToInline(m) /\ IsUse(m, x, j, t)
          BY <1>0, <3>3
        <5>2. \A y \in Type : \A i : IsUse(m, y, i, t) => y = x /\ i = j
          BY <1>0, <5>1, InlinedIsUsedOnce
        <5> QED  BY <5>2, <4>2, <4>3
      <4>5. j <= bodies[n - 1].done
        BY <4>3, <4>4
      <4> QED  BY <4>1, <4>4, <4>5
    <3> QED  BY <3>1, <3>2, <3>3
  <2> QED  BY <2>5, <2>6, <2>7
<1>4. CASE ~PrintField /\ ~EndBody
  <2>1. /\ m' = m /\ (bodies' = bodies \/ \E t \in Type : OpensFirst(t))
        /\ (pc # "ready" \/ UNCHANGED vars => UNCHANGED <<inlined, TypesToOmit>>)
        /\ pc = "ready" => bodies = << >>
    BY <1>4, OtherSteps
  <2>2. \A u : IsDefined(u)' <=> IsDefined(u)
    BY <1>4, DefinedStep
  <2>3. PrintedOnce'
    <3>1. CASE out' = out
      BY <1>1, <3>1 DEF PrintedOnce
    <3>2. CASE printModelHeader
      BY <3>2 DEF printModelHeader, PostIncludeSnippet, PrintedOnce
    <3>3. CASE PrintSingleType /\ out' # out
      <4>1. PICK t \in Type : out' = <<Decl(t)>>
        BY <3>3 DEF PrintSingleType
      <4> QED  BY <4>1 DEF PrintedOnce
    <3>4. CASE PrintNode /\ out' # out
      <4>1. LET t == Top.node[1]
            IN  t \notin TypesToOmit /\ Top.node = Decl(t) /\ out' = Append(out, Top.node)
        BY <3>4 DEF PrintNode
      <4>2. Top.node \in TypeNode /\ Top.node \notin Finished /\ pc = "header"
        BY <3>4, FinishedStays
      <4>3. Top.node \notin ToSet(out)
        <5>1. Top.node[1] \in Type
          BY <4>2 DEF TypeNode
        <5> QED  BY <4>1, <4>2, <5>1 DEF Elsewhere, DeclaredAreFinished
      <4> QED  BY <1>0, <1>1, <4>1, <4>2, <4>3, NewIsAppended
    <3>5. CASE NextRoot \/ VisitSuccessor \/ EndHeader \/ PrintFunctionBody \/ UNCHANGED vars
      BY <3>1, <3>5 DEF NextRoot, VisitSuccessor, EndHeader, PrintFunctionBody, vars
    <3> QED  BY <1>4, <3>1, <3>2, <3>3, <3>4, <3>5 DEF Next
  <2>4. OpenAreNotDefined'
    <3>1. CASE bodies' = bodies
      BY <1>1, <2>2, <3>1 DEF OpenAreNotDefined, IsDefined
    <3>2. ASSUME NEW t \in Type, OpensFirst(t) PROVE OpenAreNotDefined'
      <4>1. ~IsDefined(t)
        <5>1. SUFFICES ASSUME IsDefined(t) PROVE FALSE
          OBVIOUS
        <5>2. pc # "ready"
          <6>1. pc = "ready" => ToSet(out) = {}
            BY DEF Chosen, ToSet
          <6> QED  BY <5>1, <6>1 DEF IsDefined
        <5>3. CASE PrintNode
          <6>1. /\ pc = "header" /\ Top.node \notin Finished /\ Top.node \in TypeNode
                /\ bodies' = bodies \/ (/\ bodies' = Open(bodies, Top.node[1])
                                        /\ definesOnItsOwn(Top.node[1])
                                        /\ Top.node # Decl(Top.node[1]))
            BY <5>3, FinishedStays DEF PrintNode
          <6>2. bodies' # bodies /\ Top.node[1] \in Type
            BY <3>2, <6>1 DEF OpensFirst, TypeNode
          <6>3. t = Top.node[1] /\ t \notin inlined
            BY <3>2, <6>1, <6>2, OpenFirst DEF OpensFirst, definesOnItsOwn
          <6>4. Top.node = Def(t)
            BY <6>1, <6>2, <6>3 DEF TypeNode, Def, Decl
          <6> QED  BY <5>1, <6>1, <6>3, <6>4 DEF Elsewhere, DefinedAreFinished, IsBegun
        <5>4. CASE PrintFunctionBody
          <6>1. PICK u \in functions : bodies' = IF u \in inlined THEN Open(bodies, u) ELSE bodies
            BY <5>4 DEF PrintFunctionBody
          <6>2. u \in Type /\ u \in m.frames /\ pc = "functions"
            BY <1>0, <5>4 DEF TypeOK, Chosen, PrintFunctionBody
          <6>3. u \in inlined /\ t = u
            BY <3>2, <6>1, <6>2, OpenFirst DEF OpensFirst
          <6> QED  BY <5>1, <6>2, <6>3 DEF Elsewhere, FramesAreForFunctions, IsBegun
        <5>5. CASE printModelHeader \/ PrintSingleType
          BY <5>2, <5>5 DEF printModelHeader, PrintSingleType
        <5>6. CASE NextRoot \/ VisitSuccessor \/ EndHeader \/ UNCHANGED vars
          <6>1. bodies' = bodies
            BY <5>6 DEF NextRoot, VisitSuccessor, EndHeader, vars
          <6> QED  BY <3>2, <6>1 DEF OpensFirst
        <5> QED  BY <1>4, <5>3, <5>4, <5>5, <5>6 DEF Next
      <4> QED  BY <2>2, <3>2, <4>1 DEF OpenAreNotDefined, OpensFirst, IsDefined
    <3> QED  BY <2>1, <3>1, <3>2
  <2>5. InlinedAreInUser'
    <3>1. CASE pc = "ready"
      <4>1. \A u : ~IsDefined(u)
        <5>1. ToSet(out) = {}
          BY <3>1 DEF Chosen, ToSet
        <5> QED  BY <5>1 DEF IsDefined
      <4> QED  BY <2>2, <4>1 DEF InlinedAreInUser
    <3>2. CASE pc # "ready"
      <4>1. inlined' = inlined /\ (pc = "single type" => pc' = "single type")
        BY <3>2, Phase
      <4>2. CASE bodies' = bodies
        BY <1>1, <2>1, <2>2, <4>1, <4>2 DEF InlinedAreInUser
      <4>3. CASE \E t \in Type : OpensFirst(t)
        <5>1. DOMAIN bodies = {} /\ bodies = << >> /\ bodies' # << >>
          BY <4>3 DEF OpensFirst
        <5>2. pc # "single type"
          BY <1>4, <5>1 DEF Next, printModelHeader, NextRoot, VisitSuccessor, PrintNode, EndHeader,
             PrintFunctionBody, PrintSingleType, vars, IndInv, Phases
        <5> QED  BY <1>1, <2>1, <2>2, <4>1, <5>1, <5>2 DEF InlinedAreInUser
      <4> QED  BY <2>1, <4>2, <4>3
    <3> QED  BY <3>1, <3>2
  <2> QED  BY <2>3, <2>4, <2>5
<1> QED  BY <1>2, <1>3, <1>4

------------------------------------------------------------------------------
PrintInv ==
  /\ IndInv /\ Chosen /\ Nesting /\ OutermostIsNoField /\ HeadersEnd /\ OnceOnStack
  /\ Elsewhere /\ DefinedOnce /\ FieldsAreDefined /\ FramesAreDefined

LEMMA InitPrintInv == Init => PrintInv
<1> SUFFICES ASSUME Init PROVE PrintInv
  OBVIOUS
<1>0. /\ bodies = << >> /\ out = << >> /\ VisitStack = << >> /\ pc = "ready" /\ Defined = {}
      /\ inlined = {} /\ functions = {} /\ TypesToOmit = {}
  BY DEF Init
<1>1. DOMAIN bodies = {} /\ Len(bodies) = 0 /\ DOMAIN out = {} /\ ToSet(out) = {} /\ DOMAIN VisitStack = {}
  BY <1>0 DEF ToSet
<1>2. IndInv
  BY InitIndInv
<1>3. Chosen /\ Nesting
  BY <1>0, <1>1 DEF Chosen, Nesting, BodiesAreNested, CirclesDoNotEnd
<1>4. OutermostIsNoField /\ HeadersEnd /\ OnceOnStack
  BY <1>0, <1>1 DEF OutermostIsNoField, HeadersEnd, OnceOnStack, InliningEnds
<1>5. Elsewhere
  BY <1>0, <1>1 DEF Elsewhere, DeclaredAreFinished, DefinedAreFinished, FramesAreForFunctions,
                    IsBegun, IsDefined, BeingDefined
<1>6. DefinedOnce /\ FieldsAreDefined /\ FramesAreDefined
  BY <1>0, <1>1 DEF DefinedOnce, PrintedOnce, OpenAreNotDefined, InlinedAreInUser, FieldsAreDefined,
                    FramesAreDefined, IsDefined
<1> QED  BY <1>2, <1>3, <1>4, <1>5, <1>6 DEF PrintInv

LEMMA NextPrintInv == PrintInv /\ [Next]_vars => PrintInv'
<1> SUFFICES ASSUME PrintInv, [Next]_vars PROVE PrintInv'
  OBVIOUS
<1> USE DEF PrintInv
<1>1. IndInv' /\ Chosen' /\ Nesting'
  BY NextIndInv, NextChosen, NextNesting
<1>2. OutermostIsNoField' /\ HeadersEnd' /\ OnceOnStack'
  BY NextOutermost, NextHeadersEnd, NextOnceOnStack
<1>3. Elsewhere' /\ DefinedOnce'
  BY NextElsewhere, NextDefinedOnce
<1>4. FieldsAreDefined' /\ FramesAreDefined'
  BY NextFieldsAreDefined, NextFramesAreDefined
<1> QED  BY <1>1, <1>2, <1>3, <1>4

(* In a header, and in the functions after it, no type is printed inside    *)
(* itself, whatever the model: only the printing of a single type does that.*)
THEOREM HeadersDoNotRecur == Spec => [](pc # "single type" => InliningEnds)
<1>1. PrintInv => (pc # "single type" => InliningEnds)
  BY DEF PrintInv, HeadersEnd
<1> QED  BY <1>1, InitPrintInv, NextPrintInv, PTL DEF Spec

(* No declaration and no definition is printed twice, in any header and in  *)
(* its functions, nor in a single type as long as none is inside itself.    *)
THEOREM PrintsNothingTwice == Spec => []NothingIsPrintedTwice
<1>1. PrintInv => NothingIsPrintedTwice
  BY DEF PrintInv, HeadersEnd, DefinedOnce, PrintedOnce, NothingIsPrintedTwice
<1> QED  BY <1>1, InitPrintInv, NextPrintInv, PTL DEF Spec

(* When all is printed, every type has its declaration, and every struct or *)
(* enum its definition, but for those inlined in a circle of users.         *)
THEOREM DefinesEveryType == Spec => []EveryTypeIsDefined
<1>1. PrintInv => EveryTypeIsDefined
  <2> SUFFICES ASSUME PrintInv, allPrinted, NEW t \in Type, t \notin TypesToOmit
               PROVE  /\ Decl(t) \in ToSet(out)
                      /\ isDeclarationTheSameAsDefinition(m, t) \/ isInlinedInACircle(t)
                         \/ Def(t) \in ToSet(out)
    BY DEF EveryTypeIsDefined
  <2> USE DEF PrintInv
  <2>0. /\ m \in Model /\ inlined \subseteq Type /\ inlined \subseteq TypesToInline(m)
        /\ (inlined # {} => TypesToOmit = {})
        /\ pc = "functions" /\ bodies = << >> /\ functions = {}
    BY DEF IndInv, TypeOK, Chosen, allPrinted
  <2>1. \A u \in Type \ TypesToOmit :
          /\ Decl(u) \in ToSet(out)
          /\ isDeclarationTheSameAsDefinition(m, u) \/ u \in inlined \/ IsDefined(u)
    BY <2>0, CompleteWhenFinished DEF HeaderIsComplete, IsDefined
  <2>2. ASSUME t \in inlined, ~IsDefined(t) PROVE isInlinedInACircle(t)
    <3> DEFINE lost == {u \in inlined : ~IsDefined(u)}
    <3>1. TypesToOmit = {}
      BY <2>0, <2>2
    <3>2. ASSUME NEW u \in lost
          PROVE  \E x \in lost : \E i : IsUse(m, x, i, u) /\ users(m, u) = {x}
      <4>1. u \in TypesToInline(m) /\ u \in Type
        BY <2>0
      <4>2. u \notin m.frames
        BY <2>0 DEF FramesAreDefined
      <4>3. PICK x \in Type : \E i : IsUse(m, x, i, u)
        BY <2>0, <4>1, <4>2, InlinedIsUsedOnce
      <4>4. PICK i : IsUse(m, x, i, u)
        BY <4>3
      <4>5. ~isDeclarationTheSameAsDefinition(m, x)
        BY <2>0, <4>1, <4>4, InlinedIsUsedOnce
      <4>6. ~IsDefined(x)
        BY <2>0, <4>4 DEF FieldsAreDefined
      <4>7. x \in lost
        BY <2>1, <3>1, <4>5, <4>6
      <4>8. users(m, u) = {x}
        <5>1. \A y \in Type : y \in users(m, u) <=> \E j : IsUse(m, y, j, u)
          BY DEF users, IsUse, ToSet
        <5>2. \A y \in Type : (\E j : IsUse(m, y, j, u)) => y = x
          BY <2>0, <4>1, <4>4, InlinedIsUsedOnce
        <5>3. users(m, u) \subseteq Type
          BY DEF users
        <5> QED  BY <4>4, <5>1, <5>2, <5>3
      <4> QED  BY <4>4, <4>7, <4>8
    <3>3. lost \in SUBSET inlined /\ t \in lost
      BY <2>2
    <3>4. \A u \in lost : users(m, u) # {} /\ users(m, u) \subseteq lost
      BY <3>2
    <3>5. lost = {t} => Def(t) \in Successors(m, Def(t))
      <4> SUFFICES ASSUME lost = {t} PROVE Def(t) \in Successors(m, Def(t))
        OBVIOUS
      <4>1. \E i : IsUse(m, t, i, t)
        BY <3>2, <3>3
      <4> QED  BY <2>0, <2>2, <4>1, InlinedIsUsedOnce
    <3> HIDE DEF lost
    <3> QED  BY <3>3, <3>4, <3>5 DEF isInlinedInACircle
  <2> QED  BY <2>1, <2>2 DEF IsDefined
<1> QED  BY <1>1, InitPrintInv, NextPrintInv, PTL DEF Spec
=============================================================================
