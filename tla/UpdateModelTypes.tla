---------------------------- MODULE UpdateModelTypes ----------------------------
(****************************************************************************)
(* DLAUpdateModelTypes.cpp, after the types are made: the prototypes, the   *)
(* stack frames and the segments of the model get the types recovered for   *)
(* the values they stand for.  With it the pass of DLAPass.cpp is complete. *)
(****************************************************************************)
EXTENDS MakeModelTypes
LOCAL INSTANCE Functions

CONSTANT Models(_)   \* the models a program may be of

VARIABLES
  prototypes,  \* the prototypes of the model
  left         \* the functions and the segments that are not updated yet

modelVars == <<stage, typesVars, prototypes, left>>
passVars == <<vars, modelVars>>

NoStruct == 0

(* mapLLVMValuesToModelTypes: the type of what a value points to.            *)
HasModelType(v) == VisitedValues[v] # NoNode /\ ~isRemoved(ts, VisitedValues[v])
ModelType(v) == types[liveNode(ts, VisitedValues[v])]

Start ==
  /\ stage = "middle-end" /\ MiddleendIsOver
  /\ \E m \in Models(program) :
       /\ definitions' = m.definitions
       /\ prototypes' = m.prototypes
       /\ left' = [functions |-> m.functions, segments |-> m.segments]
  /\ stage' = "create"
  /\ UNCHANGED <<vars, types, toUpdate>>

------------------------------------------------------------------------------
(* canBeUpgraded, updateArgumentTypes and updateReturnType, of either kind of *)
(* prototype: an argument, or a value that is returned, points to the type    *)
(* recovered for it, unless more than its size is known of it.                *)
(* Mutant: whatever is known of it.                                           *)
MutcanBeUpgraded(t) == TRUE
canBeUpgraded(t) == t.type = "primitive" /\ t.kind \in {"Generic", "PointerOrNumber"}

Upgraded(t, v) == IF canBeUpgraded(t) /\ HasModelType(v) THEN PointerTo(ModelType(v)) ELSE t

updateArgumentTypes(arguments, f) ==
  [i \in DOMAIN arguments |-> Upgraded(arguments[i], f.arguments[i])]
updateReturnType(returns, f) == [i \in DOMAIN returns |-> Upgraded(returns[i], f.returns[i])]

updatePrototype(prototype, f) ==
  [prototype EXCEPT !.arguments = updateArgumentTypes(@, f), !.returns = updateReturnType(@, f)]

sizesAgree(prototype, updated) ==
  \A ts1 \in {<<prototype.arguments, updated.arguments>>, <<prototype.returns, updated.returns>>} :
    \A i \in DOMAIN ts1[1] : SizeOf(definitions, ts1[1][i]) = SizeOf(definitions, ts1[2][i])

------------------------------------------------------------------------------
(* The stack arguments are a struct, the last argument of the function.  An   *)
(* empty one gets the fields that come before the first that does not fit, or *)
(* the recovered type at its start.                                           *)
FieldsThatFit(defs, def, size) ==
  LET tooFar == {o \in DOMAIN def.fields : FieldEnd(defs, def, o) > size}
  IN  {o \in DOMAIN def.fields : \A p \in tooFar : o < p}

StackArguments(d, id, t) ==
  LET new == d.defs[t.id]
      fit == FieldsThatFit(d.defs, new, d.defs[id].size)
  IN  IF d.defs[id].fields # << >> THEN d
      ELSE IF IsStruct(d.defs, t)
      THEN [d EXCEPT !.defs[id].fields = [o \in fit |-> new.fields[o]]]
      ELSE IF SizeOf(d.defs, t) <= d.defs[id].size
      THEN [d EXCEPT !.defs[id].fields = 0 :> t]
      ELSE d

(* fillStructWithRecoveredDLATypeAtOffset, for each kind of recovered type.    *)
RECURSIVE FillStruct(_, _, _, _)

(* Where what is at an offset is in the field it lies in.                     *)
(* Mutant: the start of the field is not taken away.                          *)
MutOffsetIn(field, offset) == offset
OffsetIn(field, offset) == offset - field

(* What has no fields goes between two fields, or into the struct it lies in.  *)
(* Mutant: the field that starts after it is not looked at.                    *)
MutFillField(d, id, t, offset) ==
  IF \E o \in DOMAIN d.defs[id].fields : o <= offset /\ offset < FieldEnd(d.defs, d.defs[id], o)
  THEN d ELSE [d EXCEPT !.defs[id].fields = (offset :> t) @@ @]

FillField(d, id, t, offset) ==
  LET def == d.defs[id]
      end == offset + SizeOf(d.defs, t)
      before == {o \in DOMAIN def.fields : o <= offset}
      o == Max(before)
  IN  IF end > def.size THEN [d EXCEPT !.failed = "a recovered type is too large"]
      ELSE IF \E p \in DOMAIN def.fields : offset < p /\ p < end THEN d
      ELSE IF before = {} \/ FieldEnd(d.defs, def, o) <= offset
      THEN [d EXCEPT !.defs[id].fields = (offset :> t) @@ @]
      ELSE IF end <= FieldEnd(d.defs, def, o) /\ IsStruct(d.defs, def.fields[o])
      THEN FillStruct(d, def.fields[o].id, t, OffsetIn(o, offset))
      ELSE d

(* The fields of a struct go where there is room for them, or into the struct *)
(* they lie in; those after the first that is past the end are left out.  The *)
(* offset that is given does not count.                                        *)
FillFromStruct(d, id, t) ==
  LET def == d.defs[id]
      new == d.defs[t.id]
      fit == FieldsThatFit(d.defs, new, def.size)
      Overlapped(o) ==
        {p \in DOMAIN def.fields : p < FieldEnd(d.defs, new, o) /\ o < FieldEnd(d.defs, def, p)}
      LiesIn(p, o) ==
        p <= o /\ FieldEnd(d.defs, new, o) <= FieldEnd(d.defs, def, p) /\ IsStruct(d.defs, def.fields[p])
      compatible == {o \in fit : Overlapped(o) = {}}
      nested == {<<p, o>> \in (DOMAIN def.fields) \X fit : p \in Overlapped(o) /\ LiesIn(p, o)}
      Fill(acc, p) == FillStruct(acc, def.fields[p[1]].id, new.fields[p[2]], OffsetIn(p[1], p[2]))
      filled == FoldLeft(Fill, d, SetToSortSeq(nested, LAMBDA p, q : p[2] < q[2]))
  IN  [filled EXCEPT !.defs[id].fields = @ @@ [o \in compatible |-> new.fields[o]]]

(* A union goes into an empty struct, without the fields that are too large.   *)
FillFromUnion(d, id, t, offset) ==
  LET small == SelectSeq(d.defs[t.id].fields, LAMBDA f : SizeOf(d.defs, f) <= d.defs[id].size)
  IN  IF d.defs[id].fields # << >> \/ small = << >> THEN d
      ELSE [d EXCEPT !.defs[t.id].fields = small, !.defs[id].fields = offset :> t]

FillStruct(d, id, t, offset) ==
  IF d.failed # "" THEN d
  ELSE IF IsStruct(d.defs, t) THEN FillFromStruct(d, id, t)
  ELSE IF IsUnion(d.defs, t) THEN FillFromUnion(d, id, t, offset)
  ELSE FillField(d, id, t, offset)

------------------------------------------------------------------------------
AtDefinitions == [defs |-> definitions, failed |-> ""]

(* updateFuncSignatures, a function.  The loop over its calls goes over its    *)
(* blocks instead: no prototype of an indirect call is updated.                *)
withStackArguments(d, f) ==
  LET id == prototypes[f.prototype].stackArguments
      v == f.stackArguments
  IN  IF id = NoStruct \/ ~HasModelType(v) THEN d ELSE StackArguments(d, id, ModelType(v))

(* updateStackFrameType: a frame whose fields are known is left alone.         *)
withStackFrame(d, f) ==
  IF f.frame = NoStruct \/ d.defs[f.frame].fields # << >> \/ ~HasModelType(f.frameValue) THEN d
  ELSE FillStruct(d, f.frame, ModelType(f.frameValue), 0)

UpdateFunction ==
  /\ stage = "update" /\ failed = "" /\ left.functions # << >>
  /\ LET f == Head(left.functions)
         before == prototypes[f.prototype]
         updated == updatePrototype(before, f) IN
     \E d \in {withStackFrame(withStackArguments(AtDefinitions, f), f)} :
       /\ failed' = IF sizesAgree(before, updated) THEN d.failed ELSE "an argument of another size"
       /\ definitions' = d.defs
       /\ prototypes' = [prototypes EXCEPT ![f.prototype] = updated]
  /\ left' = [left EXCEPT !.functions = Tail(@)]
  /\ UNCHANGED <<stage, types, toUpdate>>
  /\ KeepMiddleend

(* updateSegmentsTypes, a segment whose type is in the model.                  *)
UpdateSegment ==
  /\ stage = "update" /\ failed = "" /\ left.functions = << >> /\ left.segments # << >>
  /\ LET s == Head(left.segments) IN
     \E d \in {IF HasModelType(s.value) THEN FillStruct(AtDefinitions, s.struct, ModelType(s.value), 0)
               ELSE AtDefinitions} :
       failed' = d.failed /\ definitions' = d.defs
  /\ left' = [left EXCEPT !.segments = Tail(@)]
  /\ UNCHANGED <<stage, types, toUpdate, prototypes>>
  /\ KeepMiddleend

PassInit ==
  /\ Init
  /\ stage = "middle-end" /\ definitions = << >> /\ types = << >> /\ toUpdate = {}
  /\ prototypes = << >> /\ left = [functions |-> << >>, segments |-> << >>]

PassNext ==
  \/ OptimizationNext /\ UNCHANGED modelVars
  \/ Start
  \/ (CreateNodeType \/ FixPointers) /\ UNCHANGED <<prototypes, left>>
  \/ UpdateFunction
  \/ UpdateSegment

PassFairSpec ==
  PassInit /\ [][PassNext]_passVars /\ WF_vars(Frontend) /\ WF_vars(FrontendDone) /\ KeepsRunning

------------------------------------------------------------------------------
(* Model->verify(): no struct ever has fields that overlap or that go past    *)
(* its end, no union is without fields, and nothing is empty, whether made    *)
(* from the graph or filled with what does not quite fit.                      *)
DefinitionsVerify ==
  failed = "" => \A def \in Range(definitions) : Verifies(definitions, def)

(* What the model says already stays: an update adds fields to structs, and    *)
(* changes none; it gives types to arguments that had none, and to no other.    *)
structsOnlyGrow(old, new) ==
  \A id \in DOMAIN old : old[id].kind = "struct" =>
    /\ new[id].size = old[id].size
    /\ \A o \in DOMAIN old[id].fields : new[id].fields[o] = old[id].fields[o]

argumentsAreKept(old, new) ==
  \A i \in DOMAIN old : old[i].type # "primitive" => new[i] = old[i]

UpdatesOnlyAdd ==
  [][stage = "update" =>
       /\ structsOnlyGrow(definitions, definitions')
       /\ \A p \in DOMAIN prototypes :
            /\ argumentsAreKept(prototypes[p].arguments, prototypes'[p].arguments)
            /\ argumentsAreKept(prototypes[p].returns, prototypes'[p].returns)]_passVars

(* A segment gets its fields where they were recovered: what is in it after   *)
(* the update was there, or is in the recovered type, at the same offset.     *)
(* It is not so for a recovered struct that lies within a struct of the model *)
(* past its start: fillStructWithRecoveredDLATypeAtOffset takes no notice of   *)
(* its offset when what it is given is a struct (DLAUpdateModelTypes.cpp:497). *)
structWithin(old, new) ==
  \E p \in Within(definitions, old, 0), q \in Within(definitions, new, 0) :
    /\ IsStruct(definitions, p.type) /\ IsStruct(definitions, q.type)
    /\ p.at < q.at /\ q.at < p.at + SizeOf(definitions, p.type)

SegmentsKeepOffsets ==
  [][stage = "update" /\ left'.segments # left.segments =>
       LET s == Head(left.segments)
           new == ModelType(s.value) IN
       HasModelType(s.value) /\ ~structWithin(Defined(s.struct), new) =>
         ScalarsOf(definitions', Defined(s.struct)) \subseteq
           ScalarsOf(definitions, Defined(s.struct)) \cup ScalarsOf(definitions, new)]_passVars
=============================================================================
