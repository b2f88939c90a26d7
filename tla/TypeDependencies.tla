-------------------------- MODULE TypeDependencies --------------------------
(****************************************************************************)
(* The dependencies among the types of a model, and what is computed from   *)
(* them before any type is printed as C: the graph of declarations and      *)
(* definitions (lib/TypeNames/DependencyGraph.cpp), the types to print      *)
(* inside their only user (CTypeBuilder::collectInlinableTypes), and the    *)
(* types that cannot be shown to who edits another one                      *)
(* (lib/ImportFromC/ImportFromCHelpers.h).                                  *)
(*                                                                          *)
(* A type of the model is seen as the definition it refers to and the       *)
(* pointers and arrays around it, the outermost first: <<"Array",           *)
(* "Pointer">> is an array of pointers. Uses of primitive types, which      *)
(* every header has, are left out. Unions are printed as structs are.       *)
(****************************************************************************)
EXTENDS Naturals, Sequences, SequencesExt

CONSTANT TypesCount   \* the types of a model are the numbers up to it

ASSUME TypesCountAssumption == TypesCount \in Nat

Type == 1..TypesCount

Layer == {"Pointer", "Array"}
Use == [layers : Seq(Layer), to : Type]
Kind == {"Struct", "Enum", "Typedef", "CABIFunction", "RawFunction"}

(* returns: how many of the edges of a RawFunction, the first, it returns.  *)
(* frames: the types that are the stack frame of some function.             *)
Definition == [kind : Kind, edges : Seq(Use), returns : Nat]
Model == [types : [Type -> Definition], frames : SUBSET Type]

Decl(t) == <<t, "Declaration">>
Def(t) == <<t, "Definition">>
TypeNode == Type \X {"Declaration", "Definition"}

isPrototype(m, t) == m.types[t].kind \in {"CABIFunction", "RawFunction"}

(* The types that are never printed but as a declaration.                   *)
isDeclarationTheSameAsDefinition(m, t) == m.types[t].kind \notin {"Struct", "Enum"}

------------------------------------------------------------------------------
(* analyzeDependencyEdges: is there a pointer on the way to the definition? *)
ThereIsAPointerBetweenTypes(u) == "Pointer" \in ToSet(u.layers)

(* Mutant: an array is as good as its element, for who only declares.       *)
MutgetDependencyFor(k, u) ==
  IF ThereIsAPointerBetweenTypes(u) THEN Decl(u.to) ELSE <<u.to, k>>

(* The outermost layer decides: the full definition of what an array is     *)
(* made of, the name of what a pointer points to, whatever is asked else.   *)
getDependencyFor(k, u) ==
  IF u.layers # << >> /\ u.layers[1] = "Array" THEN Def(u.to)
  ELSE IF ThereIsAPointerBetweenTypes(u) THEN Decl(u.to)
  ELSE <<u.to, k>>

(* The dependencies of the uses in t when t itself is wanted as k.          *)
dependenciesOfEdges(m, t, k) ==
  [i \in DOMAIN m.types[t].edges |-> getDependencyFor(k, m.types[t].edges[i])]

(* The successors of a node, in the order they are added in.                *)
registerDependencies(m, n) ==
  IF n[2] = "Definition" THEN <<Decl(n[1])>> \o dependenciesOfEdges(m, n[1], "Definition")
  ELSE IF isDeclarationTheSameAsDefinition(m, n[1])
    THEN dependenciesOfEdges(m, n[1], "Declaration")
  ELSE << >>

Successors(m, n) == ToSet(registerDependencies(m, n))

(* The nodes of the graph in the order addNode creates them in.             *)
NodesCount == 2 * TypesCount
nodes(i) == <<(i + 1) \div 2, IF i % 2 = 1 THEN "Declaration" ELSE "Definition">>

(* A graph without cycles: every set of nodes has one with no successor in  *)
(* the set.                                                                 *)
Acyclic(m) ==
  LET edges == UNION {{n} \X Successors(m, n) : n \in TypeNode}
  IN  \A S \in SUBSET TypeNode : S # {} => \E n \in S : \A d \in S : <<n, d>> \notin edges

------------------------------------------------------------------------------
(* Two uses of a type in another are two edges.                             *)
edgesBetween(m, from, to) ==
  Cardinality({i \in DOMAIN registerDependencies(m, from) :
                 registerDependencies(m, from)[i] = to})

(* The edges into a node: where from, and which of the edges from there.     *)
predecessors(m, n) ==
  {e \in UNION {{p} \X DOMAIN registerDependencies(m, p) : p \in TypeNode} :
     registerDependencies(m, e[1])[e[2]] = n}

predecessorCount(m, n) == Cardinality(predecessors(m, n))

(* Mutant: a pointer of a type to itself is ignored.                        *)
MutselfEdgeToIgnore(m, t) == 1

(* The edge from the definition of t to its declaration is no use of t,     *)
(* unless t points to itself and there is more than one.                    *)
selfEdgeToIgnore(m, t) == IF edgesBetween(m, Def(t), Decl(t)) = 1 THEN 1 ELSE 0

DependentTypeCount(m, t) ==
  predecessorCount(m, Decl(t)) + predecessorCount(m, Def(t)) - selfEdgeToIgnore(m, t)
    + (IF t \in m.frames THEN 1 ELSE 0)

TypesToInline(m) ==
  {t \in Type : ~isDeclarationTheSameAsDefinition(m, t) /\ DependentTypeCount(m, t) = 1}

------------------------------------------------------------------------------
(* The inverse of the graph of the uses, pointers included.                 *)
users(m, t) == {x \in Type : \E u \in ToSet(m.types[x].edges) : u.to = t}

(* getIncomingTypesFor: the types from which t is reached, and t; that is,  *)
(* what every set that holds t and the users of its members has.            *)
getIncomingTypesFor(m, t) ==
  LET closed == {S \in SUBSET Type : t \in S /\ \A x \in S : users(m, x) \subseteq S}
  IN  {x \in Type : \A S \in closed : x \in S}

(* A type with a forward declaration may be pointed to while it is edited.  *)
usesEdited(m, x, t) ==
  \E u \in ToSet(m.types[x].edges) :
    /\ u.to = t
    /\ \/ isDeclarationTheSameAsDefinition(m, t)
       \/ u.layers = << >> \/ u.layers[1] # "Pointer"

collectDependentTypes(m, t) ==
  {t} \cup UNION {getIncomingTypesFor(m, x) : x \in {y \in Type : usesEdited(m, y, t)}}
=============================================================================
