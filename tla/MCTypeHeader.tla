---------------------------- MODULE MCTypeHeader ----------------------------
(* Instances of CHeader: the connected models of TypesCount types and       *)
(* MaxEdges uses in all, at most two in a type, that a verified model may   *)
(* have and that C can express: those whose uses have one of the Layers,    *)
(* at most one type has uses that are arrays, and the raw functions return  *)
(* one of RawReturns.                                                       *)
EXTENDS CHeader

CONSTANTS
  MaxEdges,       \* bound on the uses of types in a model
  Layers,         \* the layers a use may have
  RawReturns      \* how many values a RawFunction may return

Plain == << >>
APointer == <<"Pointer">>
AnArray == <<"Array">>
PointerToArray == <<"Pointer", "Array">>

MCSimpleLayers == {Plain, APointer, AnArray}
MCWithPointersToArrays == {Plain, APointer, PointerToArray}

Uses == [layers : Layers, to : Type]

(* A field is no function, and a RawFunction takes and returns scalars.     *)
Edges(kind) ==
  CASE kind = "Struct" -> {<< >>} \cup {<<u>> : u \in Uses}
                          \cup {p \in Uses \X Uses : p[1].to <= p[2].to}
    [] kind = "Enum" -> {<< >>}
    [] kind = "Typedef" -> {<<u>> : u \in Uses}
    [] OTHER -> {<< >>} \cup {<<u>> : u \in Uses}

Definitions ==
  UNION {[kind : {k}, edges : Edges(k), returns : {0}] :
           k \in {"Struct", "Enum", "Typedef", "CABIFunction"}}
    \cup [kind : {"RawFunction"}, edges : {<<u, v>> : u \in Uses, v \in Uses}, returns : RawReturns]

isScalar(types, u) ==
  \/ u.layers # << >> /\ u.layers[1] = "Pointer"
  \/ u.layers = << >> /\ types[u.to].kind = "Enum"

wellFormed(types) ==
  \A t \in Type : \A u \in ToSet(types[t].edges) :
       /\ types[u.to].kind \in {"CABIFunction", "RawFunction"} =>
            u.layers # << >> /\ Last(u.layers) = "Pointer"
       /\ types[t].kind = "RawFunction" => isScalar(types, u)

(* No type contains itself, through typedefs or not, nor points to an array *)
(* of itself, whose declaration C refuses.                                  *)
contains(types, t) ==
  {u.to : u \in {v \in ToSet(types[t].edges) :
                   v.layers # << >> => Last(v.layers) = "Array"}}

noTypeContainsItself(types) ==
  \A S \in SUBSET Type : S # {} => \E t \in S : contains(types, t) \cap S = {}

hasArray(d) == \E u \in ToSet(d.edges) : u.layers = AnArray
arraysCount(types) ==
  Cardinality({t \in DOMAIN types : hasArray(types[t])})

(* A type apart from the others is printed as it would be in a model of its *)
(* own; two arrays are no more than one in the order of a header.           *)
connected(types) ==
  \A S \in SUBSET Type : S \notin {{}, Type} =>
    \E t \in Type : \E u \in ToSet(types[t].edges) : (t \in S) # (u.to \in S)

(* The first k types, with up to n uses left for the next one.              *)
DefinitionsWithin(n) == {d \in Definitions : Len(d.edges) <= n}
extended(S, n) == {Append(p[1], p[2]) : p \in S \X DefinitionsWithin(n)}
edgesCount(types) == FoldSeq(LAMBDA d, n : Len(d.edges) + n, 0, types)
firstTypes[k \in 0..TypesCount] ==
  IF k = 0 THEN {<< >>}
  ELSE {q \in extended(firstTypes[k - 1], MaxEdges) : edgesCount(q) <= MaxEdges}

verified(types) ==
  /\ arraysCount(types) <= 1 /\ wellFormed(types) /\ connected(types)
  /\ noTypeContainsItself(types)
  /\ HasAnOrderInC([types |-> types, frames |-> {}])

MCTypes ==
  LET others(n) == {q \in firstTypes[TypesCount - 1] : edgesCount(q) = n}
  IN UNION {{types \in extended(others(n), MaxEdges - n) : verified(types)} : n \in 0..MaxEdges}

structs(types) == {t \in Type : types[t].kind = "Struct"}

MCModels ==
  UNION {[types : {types}, frames : {{}} \cup {{t} : t \in structs(types)}] : types \in MCTypes}

Options(types, frames, edited) ==
  [EnableTypeInlining : types, EnableStackFrameInlining : frames, TypeToEdit : edited]

(* The options of the pipelines, and those of ImportFromC; where no type is *)
(* a stack frame, the default inlines nothing.                              *)
MCDefault == Options({FALSE}, {TRUE}, {NoType})
MCInlining == Options({TRUE}, BOOLEAN, {NoType})
MCEditing == Options({FALSE}, {FALSE}, Type)
MCConfigurations == MCDefault \cup MCInlining \cup MCEditing
=============================================================================
