------------------------------ MODULE CHeader ------------------------------
(****************************************************************************)
(* What C11 asks of the order of what TypeHeader prints: a name is declared *)
(* before it is used, and a struct, union or enum is defined before an      *)
(* object of it, or an array of it, even one that is only pointed to, is    *)
(* declared.                                                                *)
(****************************************************************************)
EXTENDS TypeHeader

(* What has to precede a use of type t inside layers, for the type that is  *)
(* used to be complete, or only to have a name.                             *)
RECURSIVE complete(_, _, _), named(_, _, _)

complete(mod, layers, t) ==
  CASE layers # << >> /\ layers[1] = "Array" -> complete(mod, Tail(layers), t)
    [] layers # << >> /\ layers[1] = "Pointer" -> named(mod, Tail(layers), t)
    [] layers = << >> /\ mod.types[t].kind = "Typedef" ->
         {Decl(t)} \cup complete(mod, mod.types[t].edges[1].layers, mod.types[t].edges[1].to)
    [] OTHER -> {Decl(t), Def(t)}

named(mod, layers, t) ==
  CASE layers = << >> -> {Decl(t)}
    [] layers # << >> /\ layers[1] = "Array" -> complete(mod, Tail(layers), t)
    [] OTHER -> named(mod, Tail(layers), t)

completeUse(mod, u) == complete(mod, u.layers, u.to)
namedUse(mod, u) == named(mod, u.layers, u.to)

(* A typedef needs names, and so does a prototype, but for the structs that *)
(* wrap an array (generateArrayWrapper) and several return values           *)
(* (generateReturnValueWrapper).                                            *)
neededToDeclare(mod, t) ==
  LET d == mod.types[t]
  IN  IF ~isDeclarationTheSameAsDefinition(mod, t) THEN {}
      ELSE UNION {IF d.returns > 1 /\ i <= d.returns THEN completeUse(mod, d.edges[i])
                  ELSE namedUse(mod, d.edges[i]) : i \in DOMAIN d.edges}

neededToDefine(mod, t) ==
  {Decl(t)} \cup UNION {completeUse(mod, u) : u \in ToSet(mod.types[t].edges)}

(* The models that C can express.                                           *)
HasAnOrderInC(mod) ==
  LET needed(n) == IF n[2] = "Declaration" THEN neededToDeclare(mod, n[1])
                   ELSE IF isDeclarationTheSameAsDefinition(mod, n[1]) THEN {}
                   ELSE neededToDefine(mod, n[1])
      (* what can be printed in k rounds, each after what the others printed *)
      printable[k \in 0..NodesCount] ==
        IF k = 0 THEN {}
        ELSE LET before == printable[k - 1] IN {n \in TypeNode : needed(n) \subseteq before}
  IN  printable[NodesCount] = TypeNode

------------------------------------------------------------------------------
(* What the next step prints needs.                                         *)
neededNow ==
  IF bodies # << >>
    THEN IF InnerBody.done = Len(fields) THEN {Decl(InnerBody.type)}
         ELSE IF fields[InnerBody.done + 1].to \in inlined THEN {}
         ELSE completeUse(m, fields[InnerBody.done + 1])
  ELSE IF VisitStack = << >> THEN {}
  ELSE IF Top.done < Len(successorsOfTop) \/ Top.node[1] \in TypesToOmit THEN {}
  ELSE IF Top.node[2] = "Declaration" THEN neededToDeclare(m, Top.node[1])
  ELSE {}

PointerFree(mod) ==
  \A t \in Type : \A u \in ToSet(mod.types[t].edges) : "Pointer" \notin ToSet(u.layers)

(* Whatever is printed finds all that C needs before it: "This method       *)
(* ensures they are printed in a valid order" (PTMLCTypeBuilder.h:481). In  *)
(* the header for who edits a type, nothing that is left refers to a type   *)
(* that is not there. When types are inlined, this is claimed of the models *)
(* without pointers only.                                                   *)
ValidOrder ==
  pc # "single type" /\ (conf.EnableTypeInlining => PointerFree(m)) =>
    neededNow \subseteq ToSet(out)
=============================================================================
