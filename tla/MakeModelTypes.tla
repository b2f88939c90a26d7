----------------------------- MODULE MakeModelTypes -----------------------------
(****************************************************************************)
(* DLAMakeModelTypes.cpp: a type of the model for each node of the graph    *)
(* the middle-end leaves.  Pointers are made as pointers to void first, and *)
(* patched when all the types are there: where they are is remembered by    *)
(* the struct, union or class of values that holds them.                    *)
(****************************************************************************)
EXTENDS DLAOptimization
LOCAL INSTANCE Functions
LOCAL INSTANCE FiniteSetsExt

(* The types of the model of the binary, as the back-end uses them.  A       *)
(* definition is a struct, with the fields at their offsets, or a union; it  *)
(* is named by its place among the definitions.                              *)
Void == [type |-> "void"]
Primitive(kind, size) == [type |-> "primitive", kind |-> kind, size |-> size]
PointerTo(pointee) == [type |-> "pointer", to |-> pointee]
ArrayOf(element, count) == [type |-> "array", of |-> element, count |-> count]
Defined(id) == [type |-> "defined", id |-> id]

StructOf(size, fields) == [kind |-> "struct", size |-> size, fields |-> fields]
UnionOf(fields) == [kind |-> "union", fields |-> fields]

IsPointerType(t) == t.type = "pointer"
IsStruct(defs, t) == t.type = "defined" /\ defs[t.id].kind = "struct"
IsUnion(defs, t) == t.type = "defined" /\ defs[t.id].kind = "union"

(* The sizes for which there is a primitive of kind Generic.                 *)
GenericSizes == {1, 2, 4, 8, 10, 12, 16}

RECURSIVE SizeOf(_, _)
SizeOf(defs, t) ==
  CASE t.type = "void" -> 0
    [] t.type = "primitive" -> t.size
    [] t.type = "pointer" -> PointerSize
    [] t.type = "array" -> t.count * SizeOf(defs, t.of)
    [] IsStruct(defs, t) -> defs[t.id].size
    [] IsUnion(defs, t) -> Max({SizeOf(defs, f) : f \in Range(defs[t.id].fields)})

(* What lies within a type, however deep, and where it is.                   *)
RECURSIVE Within(_, _, _)
Within(defs, t, at) ==
  LET fields == defs[t.id].fields
      inside ==
        CASE t.type = "array" ->
               {[at |-> at + i * SizeOf(defs, t.of), type |-> t.of] : i \in 0..(t.count - 1)}
          [] IsStruct(defs, t) -> {[at |-> at + o, type |-> fields[o]] : o \in DOMAIN fields}
          [] IsUnion(defs, t) -> {[at |-> at, type |-> f] : f \in Range(fields)}
          [] OTHER -> {}
  IN  {[at |-> at, type |-> t]} \cup UNION {Within(defs, p.type, p.at) : p \in inside}

(* The parts with nothing within them: scalars, and structs that are opaque. *)
IsScalarType(t) == t.type \in {"primitive", "pointer"}
IsOpaque(defs, t) == IsStruct(defs, t) /\ defs[t.id].fields = << >>
ScalarsOf(defs, t) ==
  {<<p.at, SizeOf(defs, p.type)>> :
     p \in {p \in Within(defs, t, 0) : IsScalarType(p.type) \/ IsOpaque(defs, p.type)}}

(* verify() of a definition: the fields of a struct are within it and do not *)
(* overlap, a union has fields, and none is empty.                           *)
FieldEnd(defs, def, o) == o + SizeOf(defs, def.fields[o])
Verifies(defs, def) ==
  /\ def.kind = "union" => def.fields # << >>
  /\ \A o \in DOMAIN def.fields : SizeOf(defs, def.fields[o]) > 0
  /\ def.kind = "struct" =>
       /\ def.size > 0
       /\ \A o \in DOMAIN def.fields :
            /\ FieldEnd(defs, def, o) <= def.size
            /\ \A p \in DOMAIN def.fields : o < p => FieldEnd(defs, def, o) <= p

------------------------------------------------------------------------------
VARIABLES
  stage,        \* "middle-end", "create", "pointers", and those of the update
  definitions,  \* the TypeDefinitions of the model
  types,        \* the type of each node, once it has one
  toUpdate      \* PointerFieldsToUpdate: nodes, and where their pointers are

typesVars == <<definitions, types, toUpdate>>

VoidPointer == PointerTo(Void)
InDefinition(n, id, at) == [node |-> n, id |-> id, at |-> at]
OfNode(n) == [node |-> n, id |-> 0, at |-> 0]

(* Of these operators b is what is built: the definitions, the pointers to   *)
(* update and the type at hand.                                              *)
Pointers(n, id, at, t) == IF IsPointerType(t) THEN {InDefinition(n, id, at)} ELSE {}
AddDefinition(b, def) ==
  [b EXCEPT !.defs = Append(@, def), !.type = Defined(Len(b.defs) + 1)]

(* createStructWrapper.                                                      *)
StructWrapper(b, n, t, at, size) ==
  LET wrapped == AddDefinition(b, StructOf(IF size = 0 THEN at + SizeOf(b.defs, t) ELSE size, at :> t))
  IN  [wrapped EXCEPT !.pointers = @ \cup Pointers(n, wrapped.type.id, at, t)]

(* makeInstanceType.  Elements with room after them are wrapped, except for  *)
(* the last: a struct holds the array of the others, and the last.           *)
(* Mutant: the last element is put right after the others' contents.         *)
MutLastElement(inner, s) == inner * (elements(s) - 1)

LastElement(inner, s) == s.Stride * (elements(s) - 1)

PaddedArray(b, n, s) ==
  LET inner == SizeOf(b.defs, b.type)
      last == LastElement(inner, s)
      element == StructWrapper(b, n, b.type, 0, s.Stride)
      whole == StructWrapper(element, n, ArrayOf(element.type, elements(s) - 1), 0, last + inner)
  IN  [whole EXCEPT !.defs[whole.type.id].fields = @ @@ (last :> b.type)]

InstanceLevel(s, b, n) ==
  LET inner == SizeOf(b.defs, b.type)
  IN  IF b.failed # "" THEN b
      ELSE IF inner = 0 \/ s.Stride < inner THEN [b EXCEPT !.failed = "a stride is smaller than the element"]
      ELSE IF elements(s) < 2 THEN b
      ELSE IF s.Stride > inner THEN PaddedArray(b, n, s)
      ELSE [b EXCEPT !.type = ArrayOf(b.type, elements(s))]

InstanceType(b, n, oe) == FoldRight(LAMBDA s, c : InstanceLevel(s, c, n), oe.Strides, b)

(* The type of the node at the end of an edge, and whether it has one.       *)
HasType(n) == n \in DOMAIN types

(* makeStructFromNode.  The struct itself is the last of the definitions.    *)
StructField(b, e) ==
  LET field == InstanceType([b EXCEPT !.type = types[e.tgt]], e.tgt, e.tag.OE)
      at == e.tag.OE.Offset
  IN  IF at \in DOMAIN field.fields THEN [field EXCEPT !.failed = "two fields at an offset"]
      ELSE [field EXCEPT !.fields = @ @@ (at :> field.type), !.nodes = @ @@ (at :> e.tgt)]

StructFromNode(b, n) ==
  LET made == FoldLeft(StructField, b, InOrder(SuccessorEdges(ts, n)))
      struct == AddDefinition(made, StructOf(ts.Size[n], made.fields))
  IN  [struct EXCEPT !.pointers =
         @ \cup UNION {Pointers(made.nodes[at], struct.type.id, at, made.fields[at]) : at \in DOMAIN made.fields}]

(* makeUnionFromNode.  A field that is not at the start is wrapped.          *)
(* Mutant: it is left where it is.                                           *)
MutAtItsOffset(b, n, at) == b
AtItsOffset(b, n, at) == IF at = 0 THEN b ELSE StructWrapper(b, n, b.type, at, 0)

UnionField(b, e) ==
  LET field == AtItsOffset(InstanceType([b EXCEPT !.type = types[e.tgt]], e.tgt, e.tag.OE),
                           e.tgt, e.tag.OE.Offset)
      index == Cardinality(DOMAIN field.fields) + 1
  IN  [field EXCEPT !.fields = @ @@ (index :> field.type), !.nodes = @ @@ (index :> e.tgt)]

UnionFromNode(b, n) ==
  LET made == FoldLeft(UnionField, b, InOrder(SuccessorEdges(ts, n)))
      union == AddDefinition(made, UnionOf(made.fields))
  IN  [union EXCEPT !.pointers =
         @ \cup UNION {Pointers(made.nodes[i], union.type.id, i, made.fields[i]) : i \in DOMAIN made.fields}]

(* createNodeType.                                                           *)
NodeType(n) ==
  LET b == [defs |-> definitions, pointers |-> toUpdate, type |-> Void,
            fields |-> << >>, nodes |-> << >>, failed |-> ""]
      Failing(what) == [b EXCEPT !.failed = what]
  IN  CASE \E e \in SuccessorEdges(ts, n) : IsNotPointerEdge(e) /\ ~HasType(e.tgt) ->
             Failing("a field without a type")
        [] IsPointerNode(ts, n) ->
             [b EXCEPT !.type = VoidPointer, !.pointers = @ \cup {OfNode(n)}]
        [] IsLeaf(ts, n) /\ ts.Size[n] = 0 -> Failing("a leaf without a size")
        [] IsLeaf(ts, n) /\ ~ts.NonScalar[n] /\ ts.Size[n] \in GenericSizes ->
             [b EXCEPT !.type = Primitive("Generic", ts.Size[n])]
        [] IsLeaf(ts, n) \/ IsStructNode(ts, n) -> StructFromNode(b, n)
        [] IsUnionNode(ts, n) -> UnionFromNode(b, n)
        [] OTHER -> Failing("an illegal node")

------------------------------------------------------------------------------
(* The visit of the nodes, in post-order from those that are in no other.    *)
ToCreate ==
  visitedFrom({n \in ts.Layouts : IsRoot(ts, n)}, NonPointerEdges(ts)) \ DOMAIN types

MiddleendIsOver == step > Len(Schedule) /\ failed = ""
KeepMiddleend == UNCHANGED <<frontendVars, step, label, work>>

CreateNodeType ==
  /\ stage = "create" /\ failed = "" /\ ToCreate # {}
  /\ LET n == nextInPostOrder(ToCreate, NonPointerEdges(ts)) IN
     \E made \in {NodeType(n)} :
       /\ failed' = made.failed
       /\ definitions' = made.defs
       /\ types' = types @@ (n :> made.type)
       /\ toUpdate' = made.pointers
  /\ UNCHANGED stage
  /\ KeepMiddleend

(* getNumPointersAndPointee: what is at the end of a chain of pointers.  How   *)
(* many there are on the way is computed and not used.                        *)
PointeesOf(n) ==
  {m \in reachable({e \in ts.Succ : IsPointerEdge(e)}, n) : IsPointerNode(ts, n) /\ IsPointerLeaf(ts, m)}

PointerOf(n) == PointerTo(types[CHOOSE m \in PointeesOf(n) : TRUE])

(* makeModelTypes, "Fix pointers".                                            *)
(* Mutant: a pointer is fixed in the classes of values only.                   *)
MutFixedField(id, at) == definitions[id].fields[at]

FixedField(id, at) ==
  LET here == {p \in toUpdate : p.id = id /\ p.at = at}
  IN  IF here = {} THEN definitions[id].fields[at] ELSE PointerOf((CHOOSE p \in here : TRUE).node)

FixPointers ==
  /\ stage = "create" /\ failed = "" /\ ToCreate = {}
  /\ IF \E p \in toUpdate : ~\E m \in PointeesOf(p.node) : HasType(m)
     THEN failed' = "a pointee without a type" /\ UNCHANGED <<typesVars, stage>>
     ELSE /\ types' = [n \in DOMAIN types |-> IF OfNode(n) \in toUpdate THEN PointerOf(n) ELSE types[n]]
          /\ definitions' = [id \in DOMAIN definitions |->
               [definitions[id] EXCEPT !.fields = [at \in DOMAIN @ |-> FixedField(id, at)]]]
          /\ toUpdate' = {}
          /\ stage' = "update"
          /\ UNCHANGED failed
  /\ KeepMiddleend

------------------------------------------------------------------------------
(* Every type holds the scalars of its node, at their offsets, and no other:  *)
(* none is lost, moved or made twice by the structs that wrap the elements of *)
(* arrays and the fields of unions.  (An update may shrink a union later.)    *)
leaves(n) == {<<p[2], ts.Size[p[1]]>> : p \in {p \in places(ts, n) : IsLeaf(ts, p[1])}}
TypesAreTheLayouts ==
  stage = "create" /\ failed = "" => \A n \in DOMAIN types : ScalarsOf(definitions, types[n]) = leaves(n)

(* "All pointer nodes are created as `void *` and they will be backpatched     *)
(* later, to point to the correct type instead of void"                        *)
(* (DLAMakeModelTypes.cpp:329): wherever the pointers of a type were copied    *)
(* to, they end up pointing to what is at the end of the chain of pointers.     *)
(* The elements of arrays are not: some stay pointers to void.                  *)
IsElement(n) ==
  \E e \in InstancesOf(ts) : e.tgt = n /\ \E s \in Range(e.tag.OE.Strides) : elements(s) > 1

IsPatched(n, p) ==
  \E q \in places(ts, n) :
    /\ q[2] = p.at /\ IsPointerNode(ts, q[1])
    /\ p.type = PointerOf(q[1]) \/ (p.type = VoidPointer /\ IsElement(q[1]))

PointersArePatched ==
  stage = "update" /\ failed = "" =>
    \A n \in DOMAIN types :
      \A p \in Within(definitions, types[n], 0) : IsPointerType(p.type) => IsPatched(n, p)
=============================================================================
