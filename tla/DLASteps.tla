------------------------------- MODULE DLASteps -------------------------------
(****************************************************************************)
(* What the steps of the middle-end of the Data Layout Analysis share: the  *)
(* graph the front-end built, the position in the schedule, and the state   *)
(* of the loop the current step is in.                                      *)
(*                                                                          *)
(* The nodes of the graph are a std::set of pointers, iterated in the order *)
(* of their addresses: a loop over them takes them in any order.  The edges *)
(* of a node are a std::set ordered by the ID of the neighbour and the tag. *)
(****************************************************************************)
EXTENDS DLAFrontend, SequencesExt, Folds

CONSTANT Schedule   \* the names of the steps, in the order they were added

VARIABLES
  step,    \* the position in Schedule of the current step, 0 in the front-end
  label,   \* where in the current step
  work,    \* the variables of the current loop
  failed   \* the assertion that failed, or ""

loopVars == <<step, label, work, failed>>
vars == <<frontendVars, loopVars>>

Nothing == [none |-> {}]

DLAInit(Programs) ==
  /\ frontendInit(Programs)
  /\ step = 0 /\ label = "start" /\ work = Nothing /\ failed = ""

Frontend ==
  /\ step = 0
  /\ ProcessInstruction
  /\ UNCHANGED loopVars

FrontendDone ==
  /\ step = 0 /\ next > Len(program)
  /\ step' = 1
  /\ UNCHANGED <<frontendVars, label, work, failed>>

------------------------------------------------------------------------------
(* Control: the current step is s, at label l.                              *)
At(s, l) ==
  /\ step \in DOMAIN Schedule
  /\ Schedule[step] \in s /\ label = l /\ failed = ""

Goto(l, w) == step' = step /\ label' = l /\ work' = w /\ failed' = failed
EndStep == step' = step + 1 /\ label' = "start" /\ work' = Nothing /\ failed' = failed

(* A revng_assert or revng_abort.                                           *)
Fail(what) ==
  /\ failed' = what
  /\ UNCHANGED <<frontendVars, step, label, work>>

KeepFrontend == UNCHANGED <<VisitedValues, program, next>>

(* The schedule is over, or the process has aborted.                        *)
Finished == (step > Len(Schedule) \/ failed # "") /\ UNCHANGED vars

------------------------------------------------------------------------------
(* The order of a NeighborsSet: the ID of the neighbour, then the tag.      *)
KindRank(k) == CASE k = "Equality" -> 0 [] k = "Instance" -> 1 [] k = "Pointer" -> 2
InLexOrder(s, t) ==
  \E k \in 0..Min({Len(s), Len(t)}) :
    /\ \A i \in 1..k : s[i] = t[i]
    /\ k = Len(s) \/ (k < Len(t) /\ s[k + 1] < t[k + 1])
InTagOrder(g, h, tripCounts(_)) ==
  LET strides(oe) == [i \in DOMAIN oe.Strides |-> oe.Strides[i].Stride] IN
  IF g.Kind # h.Kind THEN KindRank(g.Kind) < KindRank(h.Kind)
  ELSE IF g.OE.Offset # h.OE.Offset THEN g.OE.Offset < h.OE.Offset
  ELSE IF strides(g.OE) # strides(h.OE) THEN InLexOrder(strides(g.OE), strides(h.OE))
  ELSE InLexOrder(tripCounts(g.OE), tripCounts(h.OE))
TripCounts(oe) == [i \in DOMAIN oe.Strides |-> oe.Strides[i].TripCount]
TagBefore(g, h) == InTagOrder(g, h, TripCounts)
EdgeBefore(e, f) == IF e.tgt # f.tgt THEN e.tgt < f.tgt ELSE TagBefore(e.tag, f.tag)
InOrder(edges) ==
  LET sorted[s \in SUBSET edges] ==
        IF s = {} THEN << >>
        ELSE LET first == CHOOSE e \in s : \A f \in s : EdgeBefore(e, f)
             IN <<first>> \o sorted[s \ {first}]
  IN sorted[edges]

(* mergeNodes on a whole list, and its assertions along the way.            *)
mergeNodes(sys, list) ==
  FoldLeft(LAMBDA s, from : mergeNode(s, list[1], from), sys, Tail(list))
mergeAsserts(sys, list) ==
  \A i \in 2..Len(list) :
    sizesAllowMerge(mergeNodes(sys, SubSeq(list, 1, i - 1)), list[1], list[i])

(* The nodes reachable from n along the edges in a set, n included.         *)
reachable(edges, n) ==
  LET grow[k \in Nat] ==
        IF k = 0 THEN {n}
        ELSE LET found == grow[k - 1]
             IN found \cup {e.tgt : e \in {f \in edges : f.src \in found}}
  IN grow[Cardinality({e.tgt : e \in edges})]

(* The strongly connected components of more than one node.                 *)
components(sys, edges) ==
  LET reach == [n \in sys.Layouts |-> reachable(edges, n)]
      scc(n) == {m \in sys.Layouts : reach[m] = reach[n]}
  IN {C \in {scc(n) : n \in sys.Layouts} : Cardinality(C) > 1}

(* The orders in which a set may be enumerated.                             *)
Orders(S) ==
  LET orders[s \in SUBSET S] ==
        IF s = {} THEN {<< >>}
        ELSE UNION {{<<x>> \o q : q \in orders[s \ {x}]} : x \in s}
  IN orders[S]

(* A step of a depth-first visit along some edges: the next child of the    *)
(* node on top of the stack is pushed, or skipped if it was seen; the node  *)
(* is popped once it has none left.  The children of a node come in the     *)
(* order of their IDs.                                                      *)
visitEntry(edges, n) == [node |-> n, left |-> {e.tgt : e \in {f \in edges : f.src = n}}]
visitStep(edges, v) ==
  LET top == Last(v.stack)
      child == Min(top.left)
      passed == Append(Front(v.stack), [node |-> top.node, left |-> top.left \ {child}])
  IN IF v.stack = << >> THEN v
     ELSE IF top.left = {}
     THEN [stack |-> Front(v.stack), seen |-> v.seen, order |-> Append(v.order, top.node)]
     ELSE IF child \in v.seen THEN [stack |-> passed, seen |-> v.seen, order |-> v.order]
     ELSE [stack |-> Append(passed, visitEntry(edges, child)),
           seen |-> v.seen \cup {child}, order |-> v.order]

(* The post-order from n of the nodes that are not in seen: a visit takes   *)
(* a step for each edge and each node.                                      *)
postOrder(edges, n, seen) ==
  LET visit[k \in Nat] ==
        IF k = 0 THEN [stack |-> IF n \in seen THEN << >> ELSE <<visitEntry(edges, n)>>,
                       seen |-> seen \cup {n}, order |-> << >>]
        ELSE visitStep(edges, visit[k - 1])
  IN visit[2 * Cardinality(edges) + 1].order

preOrder(edges, n, seen) ==
  LET targets(m) ==
        LET out == InOrder({e \in edges : e.src = m}) IN [i \in DOMAIN out |-> out[i].tgt]
      visit[k \in Nat] ==
        IF k = 0 THEN [stack |-> <<n>>, order |-> << >>]
        ELSE LET v == visit[k - 1]
                 top == Head(v.stack) IN
             IF v.stack = << >> THEN v
             ELSE IF top \in seen \cup ToSet(v.order) THEN [v EXCEPT !.stack = Tail(@)]
             ELSE [stack |-> targets(top) \o Tail(v.stack), order |-> Append(v.order, top)]
  IN visit[Cardinality(edges) + 1].order

(* The next node of a post-order visit of the nodes of todo along some      *)
(* edges.  Where what a step does to a node depends on its descendants      *)
(* only, one post-order stands for all.                                     *)
nextInPostOrder(todo, edges) ==
  LET ready == {n \in todo : \A e \in edges : e.src = n => e.tgt \notin todo}
  IN Min(IF ready = {} THEN todo ELSE ready)

(* The nodes a visit from the roots reaches.                                *)
visitedFrom(roots, edges) == UNION {reachable(edges, r) : r \in roots}

NonPointerEdges(sys) == {e \in sys.Succ : IsNotPointerEdge(e)}
InstancesOf(sys) == {e \in sys.Succ : IsInstanceEdge(e)}

(* The live node that stands for node n: the one of its class.              *)
liveNode(sys, n) == CHOOSE m \in sys.Layouts : m \in sys.Class[n]

(* The step before the current one, when the current one is about to start. *)
JustDone == IF label = "start" /\ step > 1 THEN Schedule[step - 1] ELSE "none"

(* No assertion of the code ever fails.                                     *)
NoAssertionFails == failed = ""
=============================================================================
