----------------------------- MODULE DLAFrontend -----------------------------
(****************************************************************************)
(* The front-end of the Data Layout Analysis: how the walk over an LLVM     *)
(* module builds the initial type system                                    *)
(* (lib/DataLayoutAnalysis/Frontend/DLACreateInterProceduralTypes.cpp,      *)
(* DLACreateIntraProceduralTypes.cpp and DLATypeSystemBuilder.cpp).         *)
(*                                                                          *)
(* program is the module, reduced to what makes the front-end act: the      *)
(* arguments with a type in the model, stack frames, string literals, the   *)
(* pairs of values it finds to have the same layout, the calls, phis,       *)
(* addresses computed from other addresses, and loads and stores.  The      *)
(* node of a value is the layout of what the value points to.               *)
(****************************************************************************)
EXTENDS LayoutTypeGraph

CONSTANTS
  Values,       \* the LLVM values: 1..n, each defined after the ones it uses
  PointerSize   \* getPointerSize(Model.Architecture())

ASSUME FrontendAssumption ==
  /\ PointerSize \in Nat \ {0}
  /\ MaxOffset \in Nat
  /\ Node \subseteq Nat
  /\ NoNode \notin Nat \cup Values

VARIABLES
  ts,             \* the LayoutTypeSystem
  VisitedValues,  \* the node of each value, NoNode when it has none yet
  program,        \* the instructions of the module
  next            \* the position in program of the next one to process

frontendVars == <<ts, VisitedValues, program, next>>

(* The instructions, by the handler that processes them.                    *)
Arg(v, size, nonScalar) == [op |-> "Arg", val |-> v, Size |-> size, NonScalar |-> nonScalar]
StackFrame(v) == [op |-> "StackFrame", val |-> v]
Literal(segment, v, offset, length, call) ==
  [op |-> "Literal", val |-> segment, other |-> v, Offset |-> offset, Length |-> length, call |-> call]
Same(v, w) == [op |-> "Same", val |-> v, other |-> w]
Call(actual, formal) == [op |-> "Call", val |-> actual, other |-> formal]
Phi(incoming, phi) == [op |-> "Phi", val |-> incoming, other |-> phi]
Base(base, v, oe) == [op |-> "Base", val |-> base, other |-> v, OE |-> oe]
Access(pointer, size, v) == [op |-> "Access", val |-> pointer, other |-> v, Size |-> size]

Stride == [Stride : Nat, TripCount : Nat]
Instruction ==
  [op : {"Arg"}, val : Values, Size : Nat, NonScalar : BOOLEAN]
  \cup [op : {"StackFrame"}, val : Values]
  \cup [op : {"Literal"}, val : Values, other : Values, Offset : Nat, Length : Nat, call : Values]
  \cup [op : {"Same", "Call", "Phi"}, val : Values, other : Values]
  \cup [op : {"Base"}, val : Values, other : Values, OE : [Offset : Nat, Strides : Seq(Stride)]]
  \cup [op : {"Access"}, val : Values, other : Values, Size : Nat]

------------------------------------------------------------------------------
(* getOrCreateLayoutType for the values of s, in their order: the new type  *)
(* system and the new map.                                                  *)
getOrCreateLayoutType(b, v) ==
  IF v = NoNode \/ b.map[v] # NoNode THEN b
  ELSE [sys |-> createArtificialLayoutType(b.sys), map |-> [b.map EXCEPT ![v] = b.sys.NID]]

(* A placeholder is a node of the size of a pointer that points to n.       *)
addPlaceholder(sys, n) ==
  LET created == createArtificialLayoutType(sys)
  IN addPointerLink([created EXCEPT !.Size[sys.NID] = PointerSize], sys.NID, n)

(* createInterproceduralTypes, an argument whose model type is a pointer; a *)
(* segment, whose node is NonScalar and has the size of the segment, is     *)
(* like such an argument.                                                   *)
typedArgument(b, i) ==
  [b EXCEPT !.sys.NonScalar[b.map[i.val]] = @ \/ i.NonScalar,
            !.sys.Size[b.map[i.val]] = i.Size]

(* The stack frame of a function is pointed to.                             *)
stackFrame(b, i) == [b EXCEPT !.sys = addPlaceholder(@, b.map[i.val])]

(* A string literal in a segment is an array of bytes, the terminator       *)
(* included, and the calls that refer to it have a byte at offset 0.        *)
stringLiteral(b, i) ==
  LET byte == b.sys.NID
      bytes == OffsetExpression(0, <<[Stride |-> 1, TripCount |-> 1 + i.Length]>>)
      inSegment == addInstanceLink(b.sys, b.map[i.val], b.map[i.other], AtOffset(i.Offset))
      literal == addInstanceLink(
                   [createArtificialLayoutType(inSegment) EXCEPT !.Size[byte] = 1],
                   b.map[i.other], byte, bytes)
      withCall == getOrCreateLayoutType([b EXCEPT !.sys = literal], i.call)
  IN [withCall EXCEPT !.sys = addInstanceLink(@, withCall.map[i.call], byte, AtOffset(0))]

(* Two values with the same layout: the arguments of two functions, or of   *)
(* indirect calls, with the same prototype, and casts.                      *)
sameLayout(b, i) ==
  [b EXCEPT !.sys = addEqualityLink(@, b.map[i.val], b.map[i.other])]

(* A call, or the return of a value: the formal is at offset 0 in the       *)
(* actual, and somebody points to the actual.                               *)
passedValue(b, i) ==
  [b EXCEPT !.sys = addPlaceholder(
     addInstanceLink(@, b.map[i.val], b.map[i.other], AtOffset(0)), b.map[i.val])]

incomingValue(b, i) ==
  [b EXCEPT !.sys = addInstanceLink(@, b.map[i.val], b.map[i.other], AtOffset(0))]

(* InstanceLinkAdder::addInstanceLink, for an address that scalar evolution *)
(* decomposes in a base address, an offset and strides.  An address at a    *)
(* non-positive stride is not linked.  The check for a negative offset      *)
(* compares a uint64_t with 0 and never fires.                              *)
addressFromBase(b, i) ==
  IF \E k \in DOMAIN i.OE.Strides : i.OE.Strides[k].Stride = 0 THEN b
  ELSE [b EXCEPT !.sys = addInstanceLink(@, b.map[i.val], b.map[i.other], i.OE)]

(* A load or a store of v through a pointer: a new access node at offset 0  *)
(* of what the pointer points to, which, if its size is that of a pointer,  *)
(* points to the node of v and equals every other pointer to it.            *)
accessThrough(b, i) ==
  LET n == b.sys.NID
      pointee == b.map[i.other]
      created == [createArtificialLayoutType(b.sys) EXCEPT
                    !.Size[n] = i.Size, !.Info[n] = "AllChildrenAreNonInterfering"]
      linked == addInstanceLink(created, b.map[i.val], n, AtOffset(0))
      pointing == addPointerLink([linked EXCEPT !.Info[pointee] = "Unknown"], n, pointee)
      others == {e.src : e \in {p \in PredecessorEdges(pointing, pointee) : IsPointerEdge(p)}} \ {n}
      equal == {Edge(n, o, EqualityTag) : o \in others} \cup {Edge(o, n, EqualityTag) : o \in others}
  IN [b EXCEPT !.sys =
        IF i.Size # PointerSize THEN linked
        ELSE withEdges(pointing, equal)]

------------------------------------------------------------------------------
(* Processing one instruction.  Every operand gets its node first.          *)
processed(b, i) ==
  LET first == getOrCreateLayoutType(b, i.val)
      both == getOrCreateLayoutType(first, i.other)
  IN CASE i.op = "Arg" -> typedArgument(first, i)
       [] i.op = "StackFrame" -> stackFrame(first, i)
       [] i.op = "Literal" -> stringLiteral(both, i)
       [] i.op = "Same" -> sameLayout(both, i)
       [] i.op = "Call" -> passedValue(both, i)
       [] i.op = "Phi" -> incomingValue(both, i)
       [] i.op = "Base" -> addressFromBase(both, i)
       [] i.op = "Access" -> accessThrough(both, i)

frontendInit(Programs) ==
  /\ ts = EmptySystem
  /\ VisitedValues = [v \in Values |-> NoNode]
  /\ program \in Programs
  /\ next = 1

ProcessInstruction ==
  /\ next <= Len(program)
  /\ LET b == processed([sys |-> ts, map |-> VisitedValues], program[next])
     IN ts' = b.sys /\ VisitedValues' = b.map
  /\ next' = next + 1
  /\ UNCHANGED program
=============================================================================
