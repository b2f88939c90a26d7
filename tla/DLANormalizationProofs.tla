------------------------ MODULE DLANormalizationProofs ------------------------
(****************************************************************************)
(* The theorems about DLANormalization, for every set of programs and every *)
(* schedule, and the invariants they need besides IInv: what the visits of  *)
(* removeBackedgesFromSCC have achieved (VisitInv), that what is left to    *)
(* collapse is all that makes loops at offset 0 (RankInv), and that the two *)
(* stacks of a visit agree (StackInv).                                      *)
(****************************************************************************)
EXTENDS CollapseSCCProofs

------------------------------------------------------------------------------
(* The visits that cut backedges.                                           *)
Backedges(sys) == {e \in sys.Succ : IsBackedge(e)}

StackEntries(sys) ==
  [Node : sys.Layouts, NextToVisit : SUBSET InstancesOf(sys), Taken : SUBSET sys.Succ]

(* The edge is still to be taken.                                           *)
Pending(e, stack) == \E i \in 1..Len(stack) : stack[i].Node = e.src /\ e \in stack[i].NextToVisit

IsRootOf(sys, r) ==
  /\ r \in sys.Layouts
  /\ \A e \in sys.Succ : IsInstanceOff0(e) => e.tgt # r
  /\ \E e \in sys.Succ : IsInstanceOff0(e) /\ e.src = r

(* r is in a set of nodes that no instance edge leaves, and none of those   *)
(* edges comes back to r.                                                   *)
CutBy(sys, r, V) ==
  /\ r \in V /\ V \subseteq sys.Layouts
  /\ \A e \in InstancesOf(sys) : e.src \in V => e.tgt \in V /\ e.tgt # r
Cut(sys, r) == \E V : CutBy(sys, r, V)

VisitWork(roots, root, visited, stack, backedges, toRemove) ==
  [Roots |-> roots, Root |-> root, Visited |-> visited, VisitStack |-> stack,
   BackedgesOnStack |-> backedges, ToRemove |-> toRemove]

(* The edges that leave the nodes visited go to others, unless they are     *)
(* still to be taken; those that go back to the root are to be removed.     *)
VisitState(sys, w) ==
  /\ w = VisitWork(w.Roots, w.Root, w.Visited, w.VisitStack, w.BackedgesOnStack, w.ToRemove)
  /\ w.VisitStack \in Seq(StackEntries(sys))
  /\ w.BackedgesOnStack \in Seq(Backedges(sys))
  /\ \A e \in w.ToRemove : e \in Backedges(sys)
  /\ w.Visited \subseteq sys.Layouts /\ w.Root \in w.Visited
  /\ \A i \in 1..Len(w.VisitStack) : w.VisitStack[i].Node \in w.Visited
  /\ Len(w.VisitStack) > 0 => w.VisitStack[1].Node = w.Root
  /\ \A e \in InstancesOf(sys) : e.src \in w.Visited =>
       \/ Pending(e, w.VisitStack)
       \/ e.tgt \in w.Visited /\ (e.tgt = w.Root => e \in w.ToRemove)

(* The roots the visits have not started from are those of the graph that   *)
(* are not cut yet.                                                         *)
RootsLeft(sys, l, w) ==
  /\ \A r \in w.Roots : IsRootOf(sys, r)
  /\ l = "backedges" => \A r : IsRootOf(sys, r) => r \in w.Roots \/ Cut(sys, r)
  /\ l = "visit" => /\ IsRootOf(sys, w.Root)
                    /\ \A r : IsRootOf(sys, r) => r \in w.Roots \/ r = w.Root \/ Cut(sys, r)

VisitInv ==
  /\ (step \in DOMAIN Schedule /\ Schedule[step] \in CollapseSteps) =>
       /\ label = "visit" => VisitState(ts, work)
       /\ label \in {"backedges", "visit"} =>
            /\ Schedule[step] = "CollapseInstanceAtOffset0SCC"
            /\ RootsLeft(ts, label, work)
  /\ JustDone = "CollapseInstanceAtOffset0SCC" => \A r : IsRootOf(ts, r) => Cut(ts, r)

(* Where the actions of the other steps lead.                               *)
LEMMA OtherSteps ==
  ASSUME SimplifyNext \/ SizesNext
  PROVE  /\ step \in DOMAIN Schedule /\ Schedule[step] \notin CollapseSteps
         /\ \/ step' = step /\ label' # "start"
            \/ EndStep
            \/ UNCHANGED <<frontendVars, step, label, work>>
            \/ Decompose
<1>1. ASSUME AddFakeRoot \/ NextNode \/ NextChild \/ ChildrenDone \/ RemoveFakeRoot
      PROVE  /\ step \in DOMAIN Schedule /\ Schedule[step] \notin CollapseSteps
             /\ \/ step' = step /\ label' # "start"
                \/ EndStep
                \/ UNCHANGED <<frontendVars, step, label, work>>
  BY <1>1 DEF AddFakeRoot, NextNode, NextChild, ChildrenDone, RemoveFakeRoot, At, Goto, Fail,
              Simplify, CollapseSteps
<1>2. ASSUME RemoveInvalidPointers \/ StartPrune \/ PruneVisit \/ Prune \/ PruneDone
      PROVE  /\ step \in DOMAIN Schedule /\ Schedule[step] \notin CollapseSteps
             /\ (step' = step /\ label' # "start") \/ EndStep
  BY <1>2 DEF RemoveInvalidPointers, StartPrune, PruneVisit, Prune, PruneDone, At, Goto, CollapseSteps
<1>3. ASSUME StartUpper \/ UpperVisit \/ UpperDone
      PROVE  /\ step \in DOMAIN Schedule /\ Schedule[step] \notin CollapseSteps
             /\ \/ step' = step /\ label' # "start"
                \/ EndStep
                \/ UNCHANGED <<frontendVars, step, label, work>>
  BY <1>3 DEF StartUpper, UpperVisit, UpperDone, At, Goto, Fail, CollapseSteps
<1>4. ASSUME StartStrides \/ StridesVisit \/ StridesDone
      PROVE  /\ step \in DOMAIN Schedule /\ Schedule[step] \notin CollapseSteps
             /\ (step' = step /\ label' # "start") \/ EndStep
  BY <1>4 DEF StartStrides, StridesVisit, StridesDone, At, Goto, CollapseSteps
<1>5. ASSUME Decompose \/ DecomposeDone
      PROVE  /\ step \in DOMAIN Schedule /\ Schedule[step] \notin CollapseSteps
             /\ EndStep \/ Decompose
  BY <1>5 DEF Decompose, DecomposeDone, At, CollapseSteps
<1> QED  BY <1>1, <1>2, <1>3, <1>4, <1>5 DEF SimplifyNext, SizesNext

(* Neither the front-end nor the other steps start a visit, nor change what *)
(* the visits have achieved, but for the decomposition of strides.          *)
LEMMA NoVisitKeepsVisitInv ==
  ASSUME IInv, VisitInv,
         \/ Frontend \/ FrontendDone
         \/ (SimplifyNext \/ SizesNext) /\ ~Decompose
         \/ UNCHANGED <<frontendVars, step, label, work>>
  PROVE  VisitInv'
<1>1. CASE UNCHANGED <<frontendVars, step, label, work>>
  BY <1>1 DEF VisitInv, JustDone, frontendVars
<1>2. CASE Frontend \/ FrontendDone
  <2>1. step' \in {0, 1} /\ label' = "start"
    BY <1>2 DEF Frontend, FrontendDone, loopVars, IInv, TypeInv
  <2>2. ~(step' > 1)
    BY <2>1
  <2> QED  BY <2>1, <2>2 DEF VisitInv, JustDone
<1>3. CASE (SimplifyNext \/ SizesNext) /\ ~Decompose
  <2>1. /\ step \in DOMAIN Schedule /\ Schedule[step] \notin CollapseSteps
        /\ \/ step' = step /\ label' # "start"
           \/ EndStep
           \/ UNCHANGED <<frontendVars, step, label, work>>
    BY <1>3, OtherSteps
  <2>2. CASE step' = step /\ label' # "start"
    BY <2>1, <2>2 DEF VisitInv, JustDone
  <2>3. CASE EndStep
    <3>1. label' = "start" /\ step' - 1 = step
      BY <2>1, <2>3, StepsAreIndices DEF EndStep
    <3>2. JustDone' # "CollapseInstanceAtOffset0SCC"
      BY <2>1, <3>1 DEF JustDone, CollapseSteps
    <3> QED  BY <3>1, <3>2 DEF VisitInv
  <2> QED  BY <1>1, <2>1, <2>2, <2>3
<1> QED  BY <1>1, <1>2, <1>3

LEMMA CollapseKeepsVisitInv ==
  ASSUME IInv, VisitInv,
         FindSCCs \/ CollapseOneSCC \/ MergeSameSize \/ MergeLastLeader \/ NothingToMerge
           \/ ChainLeader \/ CollapseDone
  PROVE  VisitInv'
<1>1. ASSUME FindSCCs \/ CollapseOneSCC
      PROVE  step' = step /\ label' \in CollapseLabels
  BY <1>1 DEF FindSCCs, CollapseOneSCC, Goto, CollapseLabels
<1>2. ASSUME LeadersLeft(work.Smaller) \/ \E n : LeadersLeft(work.Smaller \ {n})
      PROVE  step' = step /\ label' \in CollapseLabels
  BY <1>2, LeadersLeftState
<1>3. ASSUME MergeSameSize
      PROVE  \/ step' = step /\ label' \in CollapseLabels
             \/ UNCHANGED <<frontendVars, step, label, work>>
  BY <1>3 DEF MergeSameSize, Goto, Fail, CollapseLabels
<1>4. ASSUME MergeLastLeader \/ NothingToMerge
      PROVE  \/ step' = step /\ label' \in CollapseLabels
             \/ UNCHANGED <<frontendVars, step, label, work>>
  BY <1>2, <1>4 DEF MergeLastLeader, NothingToMerge, Fail
<1>5. ASSUME ChainLeader
      PROVE  step' = step /\ label' \in CollapseLabels
  BY <1>5, ChainLeaderEffect DEF CollapseLabels
<1>6. ASSUME step' = step /\ label' \in CollapseLabels
      PROVE  VisitInv'
  BY <1>6 DEF VisitInv, JustDone, CollapseLabels
<1>7. ASSUME UNCHANGED <<frontendVars, step, label, work>>
      PROVE  VisitInv'
  BY <1>7, NoVisitKeepsVisitInv
<1>8. ASSUME CollapseDone
      PROVE  VisitInv'
  <2>1. step \in DOMAIN Schedule /\ label = "collapse" /\ Schedule[step] \in CollapseSteps /\ ts' = ts
    BY <1>8 DEF CollapseDone, At, frontendVars
  <2>2. WellFormed(ts)
    BY DEF IInv, TypeInv
  <2>3. CASE Schedule[step] = "CollapseEqualitySCC"
    <3>1. EndStep
      BY <1>8, <2>3 DEF CollapseDone
    <3>2. label' = "start" /\ step' - 1 = step
      BY <2>1, <3>1, StepsAreIndices DEF EndStep
    <3>3. JustDone' # "CollapseInstanceAtOffset0SCC"
      BY <2>3, <3>2 DEF JustDone
    <3> QED  BY <3>2, <3>3 DEF VisitInv
  <2>4. CASE Schedule[step] # "CollapseEqualitySCC"
    <3>1. Goto("backedges", [Roots |-> {n \in ts.Layouts : isSCCRoot(n) /\ ~hasNoSCCEdge(n)}])
      BY <1>8, <2>4 DEF CollapseDone
    <3>2. \A r : IsRootOf(ts, r) <=> r \in ts.Layouts /\ isSCCRoot(r) /\ ~hasNoSCCEdge(r)
      BY <2>2 DEF IsRootOf, isSCCRoot, hasNoSCCEdge, WellFormed
    <3>3. step' = step /\ label' = "backedges" /\ \A r : r \in work'.Roots <=> IsRootOf(ts, r)
      BY <3>1, <3>2 DEF Goto
    <3>4. RootsLeft(ts', label', work')
      BY <2>1, <3>3 DEF RootsLeft
    <3>5. Schedule[step'] = "CollapseInstanceAtOffset0SCC" /\ JustDone' = "none"
      BY <2>1, <2>4, <3>3 DEF CollapseSteps, JustDone
    <3> QED  BY <3>3, <3>4, <3>5 DEF VisitInv
  <2> QED  BY <2>3, <2>4
<1> QED  BY <1>1, <1>3, <1>4, <1>5, <1>6, <1>7, <1>8

LEMMA StackEntryFields ==
  ASSUME NEW n \in ts.Layouts
  PROVE  /\ StackEntry(n) \in StackEntries(ts)
         /\ StackEntry(n).Node = n
         /\ \A e \in InstancesOf(ts) : e.src = n => e \in StackEntry(n).NextToVisit
BY DEF StackEntry, StackEntries, MixedEdgesOf, SuccessorEdges, InstancesOf, IsMixedEdge

Advanced(top, e) == [Node |-> top.Node, NextToVisit |-> top.NextToVisit \ {e}, Taken |-> {e}]

(* Once e has been taken from the top of the stack, the others are pending. *)
Takes(sys, stack, e, new) ==
  /\ new \in Seq(StackEntries(sys)) /\ Len(new) = Len(stack)
  /\ \A i \in 1..Len(stack) : new[i].Node = stack[i].Node
  /\ \A f : Pending(f, stack) => f = e \/ Pending(f, new)

LEMMA TakeEdge ==
  ASSUME NEW sys, NEW stack \in Seq(StackEntries(sys)), Len(stack) > 0,
         NEW e, e \in stack[Len(stack)].NextToVisit, e \in sys.Succ
  PROVE  Takes(sys, stack, e, [stack EXCEPT ![Len(stack)] = Advanced(stack[Len(stack)], e)])
<1> DEFINE top == stack[Len(stack)]
           taken == Advanced(top, e)
           new == [stack EXCEPT ![Len(stack)] = taken]
<1>1. Len(stack) \in 1..Len(stack) /\ top \in StackEntries(sys)
  OBVIOUS
<1>2. /\ top.Node \in sys.Layouts /\ top.NextToVisit \in SUBSET InstancesOf(sys)
      /\ top.NextToVisit \ {e} \in SUBSET InstancesOf(sys) /\ {e} \in SUBSET sys.Succ
  BY <1>1 DEF StackEntries
<1>3. taken.Node = top.Node /\ taken.NextToVisit = top.NextToVisit \ {e}
  BY DEF Advanced
<1>4. taken \in StackEntries(sys)
  BY <1>2 DEF StackEntries, Advanced
<1> HIDE DEF taken
<1>6. /\ new \in Seq(StackEntries(sys)) /\ Len(new) = Len(stack)
      /\ \A i \in 1..Len(stack) : new[i] = IF i = Len(stack) THEN taken ELSE stack[i]
  BY <1>1, <1>4
<1>7. \A i \in 1..Len(stack) :
        /\ new[i].Node = stack[i].Node
        /\ \A f : f \in stack[i].NextToVisit => f = e \/ f \in new[i].NextToVisit
  BY <1>3, <1>6
<1> HIDE DEF new
<1>8. Takes(sys, stack, e, new)
  BY <1>6, <1>7 DEF Pending, Takes
<1> QED  BY <1>8 DEF new, taken

(* The work of a visit once an edge has been taken, and the one it leads to *)
(* has been visited.                                                        *)
LEMMA VisitWorkFields ==
  ASSUME NEW roots, NEW root, NEW visited, NEW stack, NEW backedges, NEW toRemove
  PROVE  LET v == VisitWork(roots, root, visited, stack, backedges, toRemove) IN
         /\ v.Roots = roots /\ v.Root = root /\ v.Visited = visited /\ v.VisitStack = stack
         /\ v.BackedgesOnStack = backedges /\ v.ToRemove = toRemove
BY DEF VisitWork

LEMMA VisitWorkUpdates ==
  ASSUME NEW w, VisitState(ts, w), NEW x, NEW y, NEW z
  PROVE  /\ [w EXCEPT !.VisitStack = x, !.ToRemove = y]
              = VisitWork(w.Roots, w.Root, w.Visited, x, w.BackedgesOnStack, y)
         /\ [w EXCEPT !.VisitStack = x, !.BackedgesOnStack = y]
              = VisitWork(w.Roots, w.Root, w.Visited, x, y, w.ToRemove)
         /\ [w EXCEPT !.Visited = x, !.VisitStack = y, !.BackedgesOnStack = z]
              = VisitWork(w.Roots, w.Root, x, y, z, w.ToRemove)
<1>1. w = [Roots |-> w.Roots, Root |-> w.Root, Visited |-> w.Visited,
           VisitStack |-> w.VisitStack, BackedgesOnStack |-> w.BackedgesOnStack,
           ToRemove |-> w.ToRemove]
  BY DEF VisitState, VisitWork
<1>2. ASSUME NEW v, v = [w EXCEPT !.VisitStack = x, !.ToRemove = y]
      PROVE  v = VisitWork(w.Roots, w.Root, w.Visited, x, w.BackedgesOnStack, y)
  BY <1>1, <1>2 DEF VisitWork
<1>3. ASSUME NEW v, v = [w EXCEPT !.VisitStack = x, !.BackedgesOnStack = y]
      PROVE  v = VisitWork(w.Roots, w.Root, w.Visited, x, y, w.ToRemove)
  BY <1>1, <1>3 DEF VisitWork
<1>4. ASSUME NEW v, v = [w EXCEPT !.Visited = x, !.VisitStack = y, !.BackedgesOnStack = z]
      PROVE  v = VisitWork(w.Roots, w.Root, x, y, z, w.ToRemove)
  BY <1>1, <1>4 DEF VisitWork
<1> QED  BY <1>2, <1>3, <1>4, Zenon

LEMMA TakeKeepsVisitState ==
  ASSUME NEW sys, NEW w, VisitState(sys, w), Len(w.VisitStack) > 0,
         NEW e, NEW stack, Takes(sys, w.VisitStack, e, stack), e.tgt \in w.Visited,
         NEW more, more \subseteq Backedges(sys), w.ToRemove \subseteq more,
         e.tgt = w.Root => e \in more
  PROVE  VisitState(sys, VisitWork(w.Roots, w.Root, w.Visited, stack, w.BackedgesOnStack, more))
<1> DEFINE v == VisitWork(w.Roots, w.Root, w.Visited, stack, w.BackedgesOnStack, more)
<1>2. /\ v.Roots = w.Roots /\ v.Root = w.Root /\ v.Visited = w.Visited
      /\ v.VisitStack = stack /\ v.BackedgesOnStack = w.BackedgesOnStack /\ v.ToRemove = more
  BY VisitWorkFields
<1>3. v = VisitWork(v.Roots, v.Root, v.Visited, v.VisitStack, v.BackedgesOnStack, v.ToRemove)
  BY <1>2
<1> HIDE DEF v
<1>4. w.VisitStack \in Seq(StackEntries(sys))
  BY DEF VisitState
<1>5. /\ stack \in Seq(StackEntries(sys)) /\ Len(stack) = Len(w.VisitStack)
      /\ \A i \in 1..Len(w.VisitStack) : stack[i].Node = w.VisitStack[i].Node
      /\ \A f : Pending(f, w.VisitStack) => f = e \/ Pending(f, stack)
  BY DEF Takes
<1>6. \A f \in InstancesOf(sys) : f.src \in w.Visited =>
        Pending(f, stack) \/ (f.tgt \in w.Visited /\ (f.tgt = w.Root => f \in more))
  BY <1>5 DEF VisitState
<1>7. \A i \in 1..Len(stack) : stack[i].Node \in w.Visited
  BY <1>5 DEF VisitState
<1>8. stack[1].Node = w.Root
  <2>1. 1 \in 1..Len(w.VisitStack) /\ w.VisitStack[1].Node = w.Root
    BY <1>4 DEF VisitState
  <2> QED  BY <1>5, <2>1
<1>9. /\ w.Visited \subseteq sys.Layouts /\ w.Root \in w.Visited
      /\ w.BackedgesOnStack \in Seq(Backedges(sys))
  BY DEF VisitState
<1>10. VisitState(sys, v)
  BY <1>2, <1>3, <1>5, <1>6, <1>7, <1>8, <1>9 DEF VisitState
<1> QED  BY <1>10 DEF v

LEMMA PushKeepsVisitState ==
  ASSUME NEW sys, WellFormed(sys), NEW w, VisitState(sys, w), Len(w.VisitStack) > 0,
         NEW e \in InstancesOf(sys), NEW stack, Takes(sys, w.VisitStack, e, stack),
         e.tgt \notin w.Visited,
         NEW entry \in StackEntries(sys), entry.Node = e.tgt,
         \A f \in InstancesOf(sys) : f.src = e.tgt => f \in entry.NextToVisit,
         NEW backedges \in Seq(Backedges(sys))
  PROVE  VisitState(sys, VisitWork(w.Roots, w.Root, w.Visited \cup {e.tgt}, Append(stack, entry),
                                   backedges, w.ToRemove))
<1> DEFINE pushed == Append(stack, entry)
           visited == w.Visited \cup {e.tgt}
           v == VisitWork(w.Roots, w.Root, visited, pushed, backedges, w.ToRemove)
<1> HIDE DEF pushed, visited
<1>2. /\ v.Roots = w.Roots /\ v.Root = w.Root /\ v.Visited = visited
      /\ v.VisitStack = pushed /\ v.BackedgesOnStack = backedges /\ v.ToRemove = w.ToRemove
  BY VisitWorkFields
<1>1. v = VisitWork(v.Roots, v.Root, v.Visited, v.VisitStack, v.BackedgesOnStack, v.ToRemove)
  BY <1>2
<1> HIDE DEF v
<1>3. w.VisitStack \in Seq(StackEntries(sys))
  BY DEF VisitState
<1>4. e.tgt \in sys.Layouts
  BY DEF InstancesOf, WellFormed, Joins
<1>5. /\ stack \in Seq(StackEntries(sys)) /\ Len(stack) = Len(w.VisitStack)
      /\ \A i \in 1..Len(w.VisitStack) : stack[i].Node = w.VisitStack[i].Node
      /\ \A f : Pending(f, w.VisitStack) => f = e \/ Pending(f, stack)
  BY DEF Takes
<1>6. /\ pushed \in Seq(StackEntries(sys)) /\ Len(pushed) = Len(stack) + 1
      /\ pushed[Len(stack) + 1] = entry
      /\ \A i \in 1..Len(stack) : pushed[i] = stack[i]
  BY <1>5 DEF pushed
<1>7. \A f : Pending(f, stack) => Pending(f, pushed)
  BY <1>5, <1>6 DEF Pending
<1>8. \A f \in InstancesOf(sys) : f.src = e.tgt => Pending(f, pushed)
  BY <1>5, <1>6, SMTT(30) DEF Pending
<1>9. \A i \in 1..Len(pushed) : pushed[i].Node \in visited
  BY <1>5, <1>6 DEF VisitState, visited
<1>10. \A f \in InstancesOf(sys) : f.src \in visited =>
         Pending(f, pushed) \/ (f.tgt \in visited /\ (f.tgt = w.Root => f \in w.ToRemove))
  BY <1>5, <1>7, <1>8 DEF VisitState, visited
<1>11. visited \subseteq sys.Layouts /\ w.Root \in visited
  BY <1>4 DEF VisitState, visited
<1>12. pushed[1].Node = w.Root
  <2>1. 1 \in 1..Len(w.VisitStack) /\ w.VisitStack[1].Node = w.Root
    BY <1>3 DEF VisitState
  <2> QED  BY <1>5, <1>6, <2>1
<1>13. \A f \in w.ToRemove : f \in Backedges(sys)
  BY DEF VisitState
<1>14. VisitState(sys, v)
  BY <1>1, <1>2, <1>6, <1>9, <1>10, <1>11, <1>12, <1>13 DEF VisitState
<1> QED  BY <1>14 DEF v, visited, pushed

(* Popping a node whose edges have all been taken leaves the others pending.*)
LEMMA PopKeepsVisitState ==
  ASSUME NEW sys, NEW w, VisitState(sys, w), Len(w.VisitStack) > 0,
         w.VisitStack[Len(w.VisitStack)].NextToVisit = {},
         NEW backedges \in Seq(Backedges(sys))
  PROVE  VisitState(sys, VisitWork(w.Roots, w.Root, w.Visited, Front(w.VisitStack), backedges, w.ToRemove))
<1> DEFINE popped == Front(w.VisitStack)
           v == VisitWork(w.Roots, w.Root, w.Visited, popped, backedges, w.ToRemove)
<1>2. /\ v.Roots = w.Roots /\ v.Root = w.Root /\ v.Visited = w.Visited
      /\ v.VisitStack = popped /\ v.BackedgesOnStack = backedges /\ v.ToRemove = w.ToRemove
  BY VisitWorkFields
<1>1. v = VisitWork(v.Roots, v.Root, v.Visited, v.VisitStack, v.BackedgesOnStack, v.ToRemove)
  BY <1>2
<1> HIDE DEF v
<1>3. w.VisitStack \in Seq(StackEntries(sys))
  BY DEF VisitState
<1>4. /\ popped \in Seq(StackEntries(sys)) /\ Len(popped) = Len(w.VisitStack) - 1
      /\ \A i \in 1..(Len(w.VisitStack) - 1) : popped[i] = w.VisitStack[i]
  BY <1>3 DEF Front
<1> HIDE DEF popped
<1>5. \A f : Pending(f, w.VisitStack) => Pending(f, popped)
  BY <1>3, <1>4 DEF Pending
<1>6. \A i \in 1..Len(popped) : popped[i].Node \in w.Visited
  BY <1>3, <1>4 DEF VisitState
<1>7. Len(popped) > 0 => popped[1].Node = w.Root
  BY <1>3, <1>4 DEF VisitState
<1>8. \A f \in InstancesOf(sys) : f.src \in w.Visited =>
        Pending(f, popped) \/ (f.tgt \in w.Visited /\ (f.tgt = w.Root => f \in w.ToRemove))
  BY <1>5 DEF VisitState
<1>9. /\ w.Visited \subseteq sys.Layouts /\ w.Root \in w.Visited
      /\ \A f \in w.ToRemove : f \in Backedges(sys)
  BY DEF VisitState
<1>10. VisitState(sys, v)
  BY <1>1, <1>2, <1>4, <1>6, <1>7, <1>8, <1>9 DEF VisitState
<1> QED  BY <1>10 DEF v, popped

LEMMA NextRootKeepsInv == IInv /\ VisitInv /\ NextRoot => IInv' /\ VisitInv'
<1> SUFFICES ASSUME IInv, VisitInv, NextRoot PROVE IInv' /\ VisitInv'
  OBVIOUS
<1>1. PICK r \in work.Roots :
        Goto("visit", [Roots |-> work.Roots \ {r}, Root |-> r, Visited |-> {r},
                       VisitStack |-> <<StackEntry(r)>>,
                       BackedgesOnStack |-> << >>, ToRemove |-> {}])
  BY DEF NextRoot
<1>2. /\ step \in DOMAIN Schedule /\ Schedule[step] \in CollapseSteps /\ label = "backedges"
      /\ ts' = ts /\ UNCHANGED frontendVars /\ step' = step /\ label' = "visit"
  BY <1>1 DEF NextRoot, At, Goto, frontendVars
<1>3. RootsLeft(ts, "backedges", work) /\ Schedule[step] = "CollapseInstanceAtOffset0SCC"
  BY <1>2 DEF VisitInv
<1>4. IsRootOf(ts, r) /\ r \in ts.Layouts
  BY <1>3 DEF RootsLeft, IsRootOf
<1>5. /\ work'.Roots = work.Roots \ {r} /\ work'.Root = r /\ work'.Visited = {r}
      /\ work'.VisitStack = <<StackEntry(r)>> /\ work'.BackedgesOnStack = << >> /\ work'.ToRemove = {}
      /\ work' = VisitWork(work'.Roots, work'.Root, work'.Visited, work'.VisitStack,
                           work'.BackedgesOnStack, work'.ToRemove)
  BY <1>1 DEF Goto, VisitWork
<1>6. VisitState(ts, work')
  <2> DEFINE stack == <<StackEntry(r)>>
  <2>1. stack \in Seq(StackEntries(ts)) /\ Len(stack) = 1 /\ stack[1] = StackEntry(r)
    BY <1>4, StackEntryFields
  <2> HIDE DEF stack
  <2>2. \A e \in InstancesOf(ts) : e.src = r => Pending(e, stack)
    BY <1>4, <2>1, StackEntryFields DEF Pending
  <2>3. \A i \in 1..Len(stack) : stack[i].Node = r
    BY <1>4, <2>1, StackEntryFields
  <2>4. work'.VisitStack = stack
    BY <1>5 DEF stack
  <2> QED  BY <1>4, <1>5, <2>1, <2>2, <2>3, <2>4 DEF VisitState
<1>7. RootsLeft(ts, "visit", work')
  BY <1>3, <1>4, <1>5 DEF RootsLeft
<1>8. VisitInv'
  BY <1>2, <1>3, <1>6, <1>7 DEF VisitInv, JustDone
<1>9. WellFormed(ts) /\ LinksBothWays(ts.Succ)
  BY <1>2, SoundOutsideCollapse DEF CollapseLabels
<1>10. IInv'
  BY <1>1, <1>2, <1>9, GotoKeepsInv DEF frontendVars, KeepFrontend, CollapseLabels
<1> QED  BY <1>8, <1>10

(* A visit that goes on.                                                    *)
LEMMA VisitGoesOn ==
  ASSUME IInv, VisitInv, At(CollapseSteps, "visit"), UNCHANGED frontendVars,
         NEW w, Goto("visit", w), VisitState(ts, w), w.Root = work.Root, w.Roots = work.Roots
  PROVE  IInv' /\ VisitInv'
<1>1. /\ step \in DOMAIN Schedule /\ Schedule[step] \in CollapseSteps /\ label = "visit"
      /\ ts' = ts /\ step' = step /\ label' = "visit" /\ work' = w
  BY DEF At, Goto, frontendVars
<1>2. RootsLeft(ts, "visit", work) /\ Schedule[step] = "CollapseInstanceAtOffset0SCC"
  BY <1>1 DEF VisitInv
<1>3. RootsLeft(ts, "visit", w)
  BY <1>2 DEF RootsLeft
<1>4. VisitInv'
  BY <1>1, <1>2, <1>3 DEF VisitInv, JustDone
<1>5. WellFormed(ts) /\ LinksBothWays(ts.Succ)
  BY <1>1, SoundOutsideCollapse DEF CollapseLabels
<1>6. IInv'
  BY <1>1, <1>5, GotoKeepsInv DEF frontendVars, KeepFrontend, CollapseLabels
<1> QED  BY <1>4, <1>6

(* The edge taken is one of those of the node on top of the stack.          *)
LEMMA NextEdgeFields ==
  ASSUME WellFormed(ts), VisitState(ts, work), work.VisitStack # << >>, NEW e \in NextEdge
  PROVE  /\ Len(work.VisitStack) > 0
         /\ e \in InstancesOf(ts)
         /\ Takes(ts, work.VisitStack, e, advanced(e))
<1>1. work.VisitStack \in Seq(StackEntries(ts))
  BY DEF VisitState
<1>2. Len(work.VisitStack) > 0
  BY <1>1
<1>3. e \in Top.NextToVisit
  BY DEF NextEdge
<1>4. Top \in StackEntries(ts)
  BY <1>1, <1>2 DEF Top
<1>5. e \in InstancesOf(ts)
  BY <1>3, <1>4 DEF StackEntries
<1>6. advanced(e) = [work.VisitStack EXCEPT ![Len(work.VisitStack)] =
                       Advanced(work.VisitStack[Len(work.VisitStack)], e)]
  BY DEF advanced, Advanced, Top
<1>7. e \in ts.Succ
  BY <1>5 DEF InstancesOf
<1>8. Takes(ts, work.VisitStack, e, advanced(e))
  BY <1>1, <1>2, <1>3, <1>6, <1>7, TakeEdge DEF Top
<1> QED  BY <1>2, <1>5, <1>8

LEMMA PushKeepsInv == IInv /\ VisitInv /\ PushChild => IInv' /\ VisitInv'
<1> SUFFICES ASSUME IInv, VisitInv, PushChild PROVE IInv' /\ VisitInv'
  OBVIOUS
<1>1. PICK e \in NextEdge :
       /\ e.tgt \notin work.Visited
       /\ Goto("visit", [work EXCEPT
            !.Visited = @ \cup {e.tgt},
            !.VisitStack = Append(advanced(e), StackEntry(e.tgt)),
            !.BackedgesOnStack = IF IsBackedge(e) THEN Append(@, e) ELSE @])
  BY DEF PushChild
<1>2. At(CollapseSteps, "visit") /\ work.VisitStack # << >> /\ UNCHANGED frontendVars
  BY DEF PushChild
<1>3. WellFormed(ts) /\ VisitState(ts, work)
  BY <1>2 DEF IInv, TypeInv, VisitInv, At
<1>4. /\ Len(work.VisitStack) > 0
      /\ e \in InstancesOf(ts)
      /\ Takes(ts, work.VisitStack, e, advanced(e))
  BY <1>2, <1>3, NextEdgeFields
<1>5. e.tgt \in ts.Layouts
  BY <1>3, <1>4 DEF InstancesOf, WellFormed, Joins
<1> DEFINE backedges == IF IsBackedge(e) THEN Append(work.BackedgesOnStack, e)
                        ELSE work.BackedgesOnStack
           w == VisitWork(work.Roots, work.Root, work.Visited \cup {e.tgt},
                          Append(advanced(e), StackEntry(e.tgt)), backedges, work.ToRemove)
<1>6. backedges \in Seq(Backedges(ts))
  <2>1. IsBackedge(e) => e \in Backedges(ts)
    BY <1>4 DEF Backedges, InstancesOf
  <2> QED  BY <1>3, <2>1 DEF VisitState
<1>7. Goto("visit", w)
  <2>1. work = [Roots |-> work.Roots, Root |-> work.Root, Visited |-> work.Visited,
                VisitStack |-> work.VisitStack, BackedgesOnStack |-> work.BackedgesOnStack,
                ToRemove |-> work.ToRemove]
    BY <1>3 DEF VisitState, VisitWork
  <2>2. work' = w
    BY <1>1, <2>1 DEF Goto, VisitWork
  <2> QED  BY <1>1, <2>2 DEF Goto
<1> HIDE DEF backedges
<1>8. VisitState(ts, w)
  BY <1>1, <1>3, <1>4, <1>5, <1>6, PushKeepsVisitState, StackEntryFields
<1>9. w.Root = work.Root /\ w.Roots = work.Roots
  BY DEF VisitWork
<1> HIDE DEF w
<1> QED  BY <1>2, <1>7, <1>8, <1>9, VisitGoesOn

LEMMA CloseLoopKeepsInv == IInv /\ VisitInv /\ CloseLoop => IInv' /\ VisitInv'
<1> SUFFICES ASSUME IInv, VisitInv, CloseLoop PROVE IInv' /\ VisitInv'
  OBVIOUS
<1>1. PICK e \in NextEdge :
       /\ e.tgt \in InStack
       /\ Goto("visit", [work EXCEPT !.VisitStack = advanced(e),
                                     !.ToRemove = @ \cup LoopBackedges(e)])
  BY DEF CloseLoop
<1>2. At(CollapseSteps, "visit") /\ work.VisitStack # << >> /\ UNCHANGED frontendVars
  BY DEF CloseLoop
<1>3. WellFormed(ts) /\ VisitState(ts, work)
  BY <1>2 DEF IInv, TypeInv, VisitInv, At
<1>4. /\ Len(work.VisitStack) > 0
      /\ e \in InstancesOf(ts)
      /\ Takes(ts, work.VisitStack, e, advanced(e))
  BY <1>2, <1>3, NextEdgeFields
<1>5. e.tgt \in work.Visited
  BY <1>1, <1>3 DEF InStack, VisitState
<1> DEFINE more == work.ToRemove \cup LoopBackedges(e)
           w == VisitWork(work.Roots, work.Root, work.Visited, advanced(e), work.BackedgesOnStack, more)
<1>6. more \subseteq Backedges(ts)
  <2>1. ToSet(work.BackedgesOnStack) \subseteq Backedges(ts)
    BY <1>3 DEF VisitState, ToSet
  <2>2. IsBackedge(e) => e \in Backedges(ts)
    BY <1>4 DEF Backedges, InstancesOf
  <2> QED  BY <1>3, <2>1, <2>2 DEF VisitState, LoopBackedges
<1>7. e.tgt = work.Root => e \in more
  <2> SUFFICES ASSUME e.tgt = work.Root PROVE e \in more
    OBVIOUS
  <2>1. IsRootOf(ts, work.Root)
    BY <1>2 DEF VisitInv, RootsLeft, At
  <2>2. e \in ts.Succ /\ IsInstanceEdge(e)
    BY <1>4 DEF InstancesOf
  <2>3. IsBackedge(e)
    BY <2>1, <2>2 DEF IsRootOf, IsBackedge, IsInstanceOffNon0
  <2> QED  BY <2>3 DEF LoopBackedges
<1>8. work.ToRemove \subseteq more
  OBVIOUS
<1>9. Goto("visit", w)
  <2>1. work = [Roots |-> work.Roots, Root |-> work.Root, Visited |-> work.Visited,
                VisitStack |-> work.VisitStack, BackedgesOnStack |-> work.BackedgesOnStack,
                ToRemove |-> work.ToRemove]
    BY <1>3 DEF VisitState, VisitWork
  <2>2. work' = w
    BY <1>1, <2>1 DEF Goto, VisitWork
  <2> QED  BY <1>1, <2>2 DEF Goto
<1> HIDE DEF more
<1>10. VisitState(ts, w)
  BY <1>3, <1>4, <1>5, <1>6, <1>7, <1>8, TakeKeepsVisitState
<1>11. w.Root = work.Root /\ w.Roots = work.Roots
  BY DEF VisitWork
<1> HIDE DEF w
<1> QED  BY <1>2, <1>9, <1>10, <1>11, VisitGoesOn

LEMMA AlreadyVisitedKeepsInv == IInv /\ VisitInv /\ AlreadyVisited => IInv' /\ VisitInv'
<1> SUFFICES ASSUME IInv, VisitInv, AlreadyVisited PROVE IInv' /\ VisitInv'
  OBVIOUS
<1>1. PICK e \in NextEdge :
       /\ e.tgt \in work.Visited \ InStack
       /\ Goto("visit", [work EXCEPT !.VisitStack = advanced(e)])
  BY DEF AlreadyVisited
<1>2. At(CollapseSteps, "visit") /\ work.VisitStack # << >> /\ UNCHANGED frontendVars
  BY DEF AlreadyVisited
<1>3. WellFormed(ts) /\ VisitState(ts, work)
  BY <1>2 DEF IInv, TypeInv, VisitInv, At
<1>4. /\ Len(work.VisitStack) > 0
      /\ e \in InstancesOf(ts)
      /\ Takes(ts, work.VisitStack, e, advanced(e))
  BY <1>2, <1>3, NextEdgeFields
<1>5. work.Root \in InStack
  <2>1. 1 \in DOMAIN work.VisitStack /\ work.VisitStack[1].Node = work.Root
    BY <1>3, <1>4 DEF VisitState
  <2> QED  BY <2>1 DEF InStack
<1>6. e.tgt # work.Root /\ e.tgt \in work.Visited
  BY <1>1, <1>5
<1> DEFINE w == VisitWork(work.Roots, work.Root, work.Visited, advanced(e),
                          work.BackedgesOnStack, work.ToRemove)
<1>7. work.ToRemove \subseteq Backedges(ts)
  BY <1>3 DEF VisitState
<1>8. w.Root = work.Root /\ w.Roots = work.Roots
  BY DEF VisitWork
<1>9. VisitState(ts, w)
  BY <1>3, <1>4, <1>6, <1>7, TakeKeepsVisitState
<1>10. Goto("visit", w)
  BY <1>1, <1>3 DEF VisitState, VisitWork
<1> HIDE DEF w
<1> QED  BY <1>2, <1>8, <1>9, <1>10, VisitGoesOn

LEMMA PopKeepsInv == IInv /\ VisitInv /\ Pop => IInv' /\ VisitInv'
<1> SUFFICES ASSUME IInv, VisitInv, Pop PROVE IInv' /\ VisitInv'
  OBVIOUS
<1>1. /\ At(CollapseSteps, "visit") /\ work.VisitStack # << >> /\ Top.NextToVisit = {}
      /\ \/ UNCHANGED frontendVars /\ Goto("visit", [work EXCEPT !.VisitStack = Front(work.VisitStack)])
         \/ /\ UNCHANGED frontendVars /\ work.BackedgesOnStack # << >>
            /\ Goto("visit", [work EXCEPT !.VisitStack = Front(work.VisitStack),
                                          !.BackedgesOnStack = Front(@)])
         \/ UNCHANGED <<frontendVars, step, label, work>>
  BY DEF Pop, Fail
<1>2. WellFormed(ts) /\ VisitState(ts, work)
  BY <1>1 DEF IInv, TypeInv, VisitInv, At
<1>3. /\ work.VisitStack \in Seq(StackEntries(ts)) /\ work.BackedgesOnStack \in Seq(Backedges(ts))
      /\ Len(work.VisitStack) > 0 /\ work.VisitStack[Len(work.VisitStack)].NextToVisit = {}
  BY <1>1, <1>2 DEF VisitState, Top
<1>4. CASE UNCHANGED <<frontendVars, step, label, work>>
  BY <1>4, FailKeepsInv, NoVisitKeepsVisitInv
<1>5. ASSUME NEW backedges \in Seq(Backedges(ts)), UNCHANGED frontendVars,
             Goto("visit", VisitWork(work.Roots, work.Root, work.Visited, Front(work.VisitStack),
                                     backedges, work.ToRemove))
      PROVE  IInv' /\ VisitInv'
  <2> DEFINE w == VisitWork(work.Roots, work.Root, work.Visited, Front(work.VisitStack),
                            backedges, work.ToRemove)
  <2>1. VisitState(ts, w) /\ w.Root = work.Root /\ w.Roots = work.Roots
    BY <1>2, <1>3, PopKeepsVisitState, VisitWorkFields
  <2>2. Goto("visit", w)
    BY <1>5
  <2> HIDE DEF w
  <2> QED  BY <1>1, <1>5, <2>1, <2>2, VisitGoesOn
<1>6. CASE UNCHANGED frontendVars /\ Goto("visit", [work EXCEPT !.VisitStack = Front(work.VisitStack)])
  <2>1. [work EXCEPT !.VisitStack = Front(work.VisitStack)]
          = VisitWork(work.Roots, work.Root, work.Visited, Front(work.VisitStack),
                      work.BackedgesOnStack, work.ToRemove)
    BY <1>2 DEF VisitState, VisitWork
  <2> QED  BY <1>3, <1>5, <1>6, <2>1
<1>7. CASE /\ UNCHANGED frontendVars /\ work.BackedgesOnStack # << >>
           /\ Goto("visit", [work EXCEPT !.VisitStack = Front(work.VisitStack),
                                         !.BackedgesOnStack = Front(@)])
  <2>1. Front(work.BackedgesOnStack) \in Seq(Backedges(ts))
    BY <1>3, <1>7 DEF Front
  <2>2. [work EXCEPT !.VisitStack = Front(work.VisitStack), !.BackedgesOnStack = Front(@)]
          = VisitWork(work.Roots, work.Root, work.Visited, Front(work.VisitStack),
                      Front(work.BackedgesOnStack), work.ToRemove)
    BY <1>2, VisitWorkUpdates, Zenon
  <2> QED  BY <1>5, <1>7, <2>1, <2>2
<1> QED  BY <1>1, <1>4, <1>6, <1>7

(* Removing edges that are not at offset 0 changes no root, and a node that *)
(* is cut stays so; the edges of the visit cut its root.                    *)
LEMMA RemovedBackedges ==
  ASSUME NEW sys, NEW new, NEW removed,
         new.Layouts = sys.Layouts,
         \A e : e \in new.Succ <=> e \in sys.Succ /\ e \notin removed,
         \A e \in removed : e \in Backedges(sys)
  PROVE  /\ \A r : IsRootOf(new, r) <=> IsRootOf(sys, r)
         /\ \A r : Cut(sys, r) => Cut(new, r)
<1>1. \A e : IsInstanceOff0(e) => (e \in new.Succ <=> e \in sys.Succ)
  BY DEF Backedges, IsBackedge, IsInstanceOffNon0
<1>2. \A r : IsRootOf(new, r) <=> IsRootOf(sys, r)
  BY <1>1 DEF IsRootOf
<1>3. ASSUME NEW r, Cut(sys, r) PROVE Cut(new, r)
  <2>1. PICK V : CutBy(sys, r, V)
    BY <1>3 DEF Cut
  <2>2. CutBy(new, r, V)
    BY <2>1 DEF CutBy, InstancesOf
  <2> QED  BY <2>2 DEF Cut
<1> QED  BY <1>2, <1>3

LEMMA VisitCutsRoot ==
  ASSUME NEW sys, NEW w, VisitState(sys, w), w.VisitStack = << >>,
         NEW new, new.Layouts = sys.Layouts,
         \A e : e \in new.Succ <=> e \in sys.Succ /\ e \notin w.ToRemove
  PROVE  Cut(new, w.Root)
<1>1. \A e : ~Pending(e, w.VisitStack)
  BY DEF Pending
<1>2. CutBy(new, w.Root, w.Visited)
  BY <1>1 DEF CutBy, VisitState, InstancesOf
<1> QED  BY <1>2 DEF Cut

LEMMA RemoveBackedgesKeepsInv == IInv /\ VisitInv /\ RemoveBackedges => IInv' /\ VisitInv'
<1> SUFFICES ASSUME IInv, VisitInv, RemoveBackedges PROVE IInv' /\ VisitInv'
  OBVIOUS
<1>1. /\ step \in DOMAIN Schedule /\ Schedule[step] \in CollapseSteps /\ label = "visit"
      /\ work.VisitStack = << >>
  BY DEF RemoveBackedges, At
<1>2. WellFormed(ts) /\ LinksBothWays(ts.Succ) /\ VisitState(ts, work)
  BY <1>1, SoundOutsideCollapse DEF VisitInv, CollapseLabels
<1>3. CASE UNCHANGED <<frontendVars, step, label, work>>
  BY <1>3, FailKeepsInv, NoVisitKeepsVisitInv
<1>4. CASE ts' = withoutEdges(ts, work.ToRemove) /\ Goto("backedges", [Roots |-> work.Roots]) /\ KeepFrontend
  <2>1. \A e \in work.ToRemove : e \in Backedges(ts)
    BY <1>2 DEF VisitState
  <2>2. \A e \in work.ToRemove : ~IsEqualityEdge(e)
    BY <2>1 DEF Backedges, IsBackedge, IsInstanceOffNon0, IsInstanceEdge, IsEqualityEdge
  <2>3. WellFormed(ts') /\ LinksBothWays(ts'.Succ)
    BY <1>2, <1>4, <2>2, WithoutIsSound
  <2>4. /\ ts'.Layouts = ts.Layouts
        /\ \A e : e \in ts'.Succ <=> e \in ts.Succ /\ e \notin work.ToRemove
    BY <1>2, <1>4, WithoutEdgesFields
  <2>5. IInv'
    BY <1>1, <1>4, <2>3, GotoKeepsInv DEF CollapseLabels
  <2>6. RootsLeft(ts, "visit", work) /\ Schedule[step] = "CollapseInstanceAtOffset0SCC"
    BY <1>1 DEF VisitInv
  <2>7. /\ \A r : IsRootOf(ts', r) <=> IsRootOf(ts, r)
        /\ \A r : Cut(ts, r) => Cut(ts', r)
    BY <2>1, <2>4, RemovedBackedges
  <2>8. Cut(ts', work.Root)
    BY <1>1, <1>2, <2>4, VisitCutsRoot
  <2>9. work'.Roots = work.Roots /\ step' = step /\ label' = "backedges"
    BY <1>4 DEF Goto
  <2>10. RootsLeft(ts', "backedges", work')
    BY <2>6, <2>7, <2>8, <2>9 DEF RootsLeft
  <2>11. VisitInv'
    BY <1>1, <2>6, <2>9, <2>10 DEF VisitInv, JustDone
  <2> QED  BY <2>5, <2>11
<1> QED  BY <1>3, <1>4 DEF RemoveBackedges, Fail

LEMMA BackedgesDoneKeepsInv == IInv /\ VisitInv /\ BackedgesDone => IInv' /\ VisitInv'
<1> SUFFICES ASSUME IInv, VisitInv, BackedgesDone PROVE IInv' /\ VisitInv'
  OBVIOUS
<1>1. /\ step \in DOMAIN Schedule /\ Schedule[step] \in CollapseSteps /\ label = "backedges"
      /\ work.Roots = {} /\ EndStep /\ ts' = ts /\ UNCHANGED frontendVars
  BY DEF BackedgesDone, At, frontendVars
<1>2. WellFormed(ts) /\ LinksBothWays(ts.Succ)
  BY <1>1, SoundOutsideCollapse DEF CollapseLabels
<1>3. RootsLeft(ts, "backedges", work) /\ Schedule[step] = "CollapseInstanceAtOffset0SCC"
  BY <1>1 DEF VisitInv
<1>4. IInv'
  BY <1>1, <1>2, <1>3, EndKeepsInv DEF frontendVars, KeepFrontend
<1>5. \A r : IsRootOf(ts', r) => Cut(ts', r)
  BY <1>1, <1>3 DEF RootsLeft
<1>6. label' = "start"
  BY <1>1 DEF EndStep
<1>7. VisitInv'
  BY <1>5, <1>6 DEF VisitInv
<1> QED  BY <1>4, <1>7

(* The chain that replaces an edge leads nowhere the edge did not.          *)
LEMMA DecomposedIsCut ==
  ASSUME NEW sys, WellFormed(sys), LinksBothWays(sys.Succ), NEW e \in manyStrides(sys),
         NEW r, IsRootOf(sys, r) => Cut(sys, r), IsRootOf(decomposed(sys, e), r)
  PROVE  Cut(decomposed(sys, e), r)
<1> DEFINE new == decomposed(sys, e)
           layers == Len(e.tag.OE.Strides)
<1>1. /\ \A f \in new.Succ : (f \in sys.Succ /\ f # e) \/ InChain(sys, e, f)
      /\ \A f \in sys.Succ : f = e \/ f \in new.Succ
      /\ \A m \in sys.Layouts : m \in new.Layouts
      /\ \A i \in 0..layers : NodeChain(sys, e, i) \in new.Layouts
  BY DecomposedIsSound
<1>2. /\ e \in sys.Succ /\ IsInstanceEdge(e) /\ layers >= 2 /\ layers \in Nat
      /\ e.src \in sys.Layouts /\ e.tgt \in sys.Layouts /\ ~IsInstanceOff0(e)
  BY StridedIsNotAtOffset0 DEF manyStrides, WellFormed, Joins, IsTag
<1>3. IsRootOf(new, r)
  OBVIOUS
<1> HIDE DEF new
<1>4. IsRootOf(sys, r)
  <2>1. \A f \in sys.Succ : IsInstanceOff0(f) => f \in new.Succ
    BY <1>1, <1>2
  <2>2. PICK f \in new.Succ : IsInstanceOff0(f) /\ f.src = r
    BY <1>3 DEF IsRootOf
  <2>3. f \in sys.Succ
    BY <1>1, <2>2 DEF InChain
  <2>4. r \in sys.Layouts
    BY <2>2, <2>3 DEF WellFormed, Joins
  <2> QED  BY <1>3, <2>1, <2>2, <2>3, <2>4 DEF IsRootOf
<1>5. PICK V : CutBy(sys, r, V)
  BY <1>4 DEF Cut
<1>6. /\ \A i \in 0..layers : NodeChain(sys, e, i) =
           IF i = 0 THEN e.tgt ELSE IF i = layers THEN e.src ELSE sys.NID + i - 1
      /\ \A m \in sys.Layouts : m \in Nat /\ m < sys.NID
      /\ sys.NID \in Nat
  BY DEF NodeChain, WellFormed
<1> HIDE DEF layers
<1>7. \A i \in 1..(layers - 1) : NodeChain(sys, e, i) \notin sys.Layouts
  BY <1>2, <1>6
<1>8. CASE e.src \in V
  <2> DEFINE W == V \cup {NodeChain(sys, e, i) : i \in 0..layers}
  <2>1. e.tgt \in V /\ e.tgt # r
    BY <1>2, <1>5, <1>8 DEF CutBy, InstancesOf
  <2>2. \A i \in 0..(layers - 1) : NodeChain(sys, e, i) # r
    <3>1. r \in sys.Layouts
      BY <1>5 DEF CutBy
    <3> QED  BY <1>2, <1>6, <1>7, <2>1, <3>1
  <2>3. \A m \in W : m \in V \/ m \notin sys.Layouts
    <3>1. ASSUME NEW i \in 0..layers PROVE NodeChain(sys, e, i) \in V \/ NodeChain(sys, e, i) \notin sys.Layouts
      <4>1. CASE i = 0 \/ i = layers
        BY <1>2, <1>6, <1>8, <2>1, <4>1
      <4>2. CASE i \in 1..(layers - 1)
        BY <1>7, <4>2
      <4> QED  BY <1>2, <4>1, <4>2
    <3> QED  BY <3>1
  <2>4. ASSUME NEW f \in InstancesOf(new), f.src \in W PROVE f.tgt \in W /\ f.tgt # r
    <3>1. CASE f \in sys.Succ
      <4>1. f.src \in V
        BY <2>3, <2>4, <3>1 DEF WellFormed, Joins
      <4>2. f.tgt \in V /\ f.tgt # r
        BY <1>5, <3>1, <4>1 DEF CutBy, InstancesOf
      <4> QED  BY <4>2
    <3>2. CASE InChain(sys, e, f)
      <4>1. PICK i \in 1..layers : f.tgt = NodeChain(sys, e, i - 1)
        BY <3>2 DEF InChain, layers
      <4>2. i - 1 \in 0..(layers - 1) /\ i - 1 \in 0..layers
        BY <1>2
      <4> QED  BY <2>2, <4>1, <4>2
    <3> QED  BY <1>1, <3>1, <3>2 DEF InstancesOf
  <2>5. W \subseteq new.Layouts /\ r \in W
    BY <1>1, <1>5 DEF CutBy
  <2> HIDE DEF W
  <2>6. CutBy(new, r, W)
    BY <2>4, <2>5 DEF CutBy
  <2> QED  BY <2>6 DEF Cut, new
<1>9. CASE e.src \notin V
  <2>1. V \subseteq sys.Layouts /\ r \in V
    BY <1>5 DEF CutBy
  <2>2. ASSUME NEW f \in InstancesOf(new), f.src \in V PROVE f.tgt \in V /\ f.tgt # r
    <3>1. CASE f \in sys.Succ
      BY <1>5, <2>2, <3>1 DEF CutBy, InstancesOf
    <3>2. CASE InChain(sys, e, f)
      <4>1. PICK i \in 1..layers : f.src = NodeChain(sys, e, i)
        BY <3>2 DEF InChain, layers
      <4>2. i \in 0..layers /\ (i = layers \/ i \in 1..(layers - 1)) /\ layers # 0
        BY <1>2
      <4> QED  BY <1>6, <1>7, <1>9, <2>1, <2>2, <4>1, <4>2
    <3> QED  BY <1>1, <3>1, <3>2 DEF InstancesOf
  <2>3. CutBy(new, r, V)
    BY <1>1, <2>1, <2>2 DEF CutBy
  <2> QED  BY <2>3 DEF Cut, new
<1> QED  BY <1>8, <1>9

LEMMA DecomposeKeepsVisitInv == IInv /\ VisitInv /\ Decompose => VisitInv'
<1> SUFFICES ASSUME IInv, VisitInv, Decompose PROVE VisitInv'
  OBVIOUS
<1>1. /\ step \in DOMAIN Schedule /\ label = "start" /\ step' = step /\ label' = "start"
      /\ label \notin CollapseLabels
  BY DEF Decompose, At, Goto, CollapseLabels
<1>2. PICK e \in manyStrides(ts) : ts' = decomposed(ts, e)
  BY DEF Decompose
<1>3. WellFormed(ts) /\ LinksBothWays(ts.Succ)
  BY <1>1, SoundOutsideCollapse
<1>4. JustDone' = JustDone
  BY <1>1 DEF JustDone
<1>5. (\A r : IsRootOf(ts, r) => Cut(ts, r)) => \A r : IsRootOf(ts', r) => Cut(ts', r)
  BY <1>2, <1>3, DecomposedIsCut
<1> QED  BY <1>1, <1>4, <1>5 DEF VisitInv

------------------------------------------------------------------------------
(* All actions together.                                                    *)
LEMMA VisitInvInit == Init => VisitInv
<1> SUFFICES ASSUME Init PROVE VisitInv
  OBVIOUS
<1>1. step = 0 /\ label = "start"
  BY DEF Init, DLAInit
<1>2. step \notin DOMAIN Schedule /\ JustDone = "none"
  BY <1>1, StepsAreIndices DEF JustDone
<1> QED  BY <1>2 DEF VisitInv

LEMMA InvNext == IInv /\ VisitInv /\ [Next]_vars => IInv' /\ VisitInv'
<1> SUFFICES ASSUME IInv, VisitInv, [Next]_vars PROVE IInv' /\ VisitInv'
  OBVIOUS
<1>1. CASE Frontend \/ FrontendDone
  BY <1>1, FrontendKeepsInv, NoVisitKeepsVisitInv
<1>2. CASE \/ FindSCCs \/ CollapseOneSCC \/ MergeSameSize \/ MergeLastLeader
           \/ NothingToMerge \/ ChainLeader \/ CollapseDone
  BY <1>2, FindSCCsKeepsInv, CollapseOneSCCKeepsInv, MergeSameSizeKeepsInv,
     MergeLastLeaderKeepsInv, NothingToMergeKeepsInv, ChainLeaderKeepsInv, CollapseDoneKeepsInv,
     CollapseKeepsVisitInv
<1>3. CASE NextRoot \/ PushChild \/ CloseLoop \/ AlreadyVisited \/ Pop
  BY <1>3, NextRootKeepsInv, PushKeepsInv, CloseLoopKeepsInv, AlreadyVisitedKeepsInv, PopKeepsInv
<1>4. CASE RemoveBackedges \/ BackedgesDone
  BY <1>4, RemoveBackedgesKeepsInv, BackedgesDoneKeepsInv
<1>5. CASE SimplifyNext \/ SizesNext
  <2>1. IInv'
    BY <1>5, SimplifyKeepsInv, PruneKeepsInv, PointersKeepInv, UpperKeepsInv, StridesKeepInv,
       DecomposeKeepsInv DEF SizesNext
  <2> QED  BY <1>5, <2>1, NoVisitKeepsVisitInv, DecomposeKeepsVisitInv
<1>6. CASE Finished \/ UNCHANGED vars
  <2>1. UNCHANGED <<frontendVars, step, label, work>>
    BY <1>6 DEF Finished, vars, loopVars
  <2> QED  BY <2>1, FailKeepsInv, NoVisitKeepsVisitInv
<1> QED  BY <1>1, <1>2, <1>3, <1>4, <1>5, <1>6 DEF Next, CollapseNext

LEMMA Invariants == Spec => [](IInv /\ VisitInv)
<1>1. Init => IInv /\ VisitInv
  BY InvInit, VisitInvInit
<1>2. (IInv /\ VisitInv) /\ [Next]_vars => (IInv /\ VisitInv)'
  BY InvNext
<1> QED  BY <1>1, <1>2, PTL DEF Spec

------------------------------------------------------------------------------
(****************************************************************************)
(* No loop at offset 0 is left.  While the components are collapsed, a rank *)
(* of the nodes falls along each instance edge at offset 0, but for those   *)
(* that are left to collapse; the nodes of a component have one rank.       *)
(****************************************************************************)
Off0(sys) == {e \in sys.Succ : IsInstanceOff0(e)}
NotFalling(sys, r) == {e \in Off0(sys) : ~(r[e.tgt] < r[e.src])}
OneRank(r, nodes) == \A m, n \in nodes : r[m] = r[n]

Ranked(r, sys, l, w) ==
  IF l \notin CollapseLabels THEN NotFalling(sys, r) = {}
  ELSE /\ \A C \in w.ToCollapse : OneRank(r, C)
       /\ l = "merge" => OneRank(r, NodesToMerge(w))
       /\ l = "chain" => OneRank(r, {w.Leader} \cup w.Left)
       /\ LeftIn(NotFalling(sys, r), l, w)

RankInv ==
  /\ Running("CollapseInstanceAtOffset0SCC") /\ label # "start" =>
       \E r \in [Nat -> Nat] : Ranked(r, ts, label, work)
  /\ JustDone = "CollapseInstanceAtOffset0SCC" =>
       \E r \in [Nat -> Nat] : NotFalling(ts, r) = {}

LEMMA RanksOfNodes ==
  ASSUME NEW sys, WellFormed(sys), NEW r \in [Nat -> Nat], NEW e \in sys.Succ
  PROVE  /\ e.src \in Nat /\ e.tgt \in Nat
         /\ r[e.src] \in Nat /\ r[e.tgt] \in Nat
BY DEF WellFormed, Joins

(* The number of nodes a node reaches is a rank to start from.              *)
LEMMA ReachedAreFinite ==
  ASSUME NEW edges, IsFiniteSet({e.tgt : e \in edges}), NEW n
  PROVE  /\ IsFiniteSet(reachable(edges, n))
         /\ Cardinality(reachable(edges, n)) \in Nat
<1> DEFINE T == {e.tgt : e \in edges}
<1>1. IsFiniteSet({n} \cup T)
  BY FS_Singleton, FS_Union
<1>2. n \in {n} \cup T /\ Closed(edges, {n} \cup T)
  BY DEF Closed
<1>3. reachable(edges, n) \subseteq {n} \cup T
  BY <1>2, ReachableIsLeastClosed
<1> QED  BY <1>1, <1>3, FS_Subset, FS_CardinalityType

LEMMA ComponentsAreRanked ==
  ASSUME NEW sys, WellFormed(sys)
  PROVE  LET Found == components(sys, Off0(sys))
             w == [ToCollapse |-> Found]
         IN \E r \in [Nat -> Nat] : Ranked(r, sys, "collapse", w)
<1> DEFINE E == Off0(sys)
           Found == components(sys, E)
           w == [ToCollapse |-> Found]
           r == [n \in Nat |-> Cardinality(reachable(E, n))]
<1>1. E \subseteq sys.Succ /\ IsFiniteSet({e.tgt : e \in E})
  <2>1. E \subseteq sys.Succ
    BY DEF Off0
  <2> HIDE DEF E
  <2> QED  BY <2>1, LiveNodesAreFinite
<1>2. \A n : IsFiniteSet(reachable(E, n)) /\ Cardinality(reachable(E, n)) \in Nat
  <2> HIDE DEF E
  <2> QED  BY <1>1, ReachedAreFinite
<1>3. r \in [Nat -> Nat]
  BY <1>2
<1>4. \A C \in Found : \A n \in C : n \in Nat
  <2>1. \A C \in Found : \A n \in C : n \in sys.Layouts
    BY ComponentsAreApart DEF Apart
  <2> QED  BY <2>1 DEF WellFormed
<1>5. \A C \in Found : OneRank(r, C)
  <2>1. \A C \in Found : \A m, n \in C : reachable(E, m) = reachable(E, n)
    BY ComponentsAreApart
  <2> HIDE DEF E, Found
  <2> QED  BY <1>4, <2>1 DEF OneRank
<1>6. ASSUME NEW e \in NotFalling(sys, r) PROVE LeftToCollapse(e, w)
  <2>1. e \in E /\ ~(r[e.tgt] < r[e.src])
    BY <1>6 DEF NotFalling
  <2>2. /\ e.src \in sys.Layouts /\ e.tgt \in sys.Layouts /\ e.src # e.tgt
        /\ e.src \in Nat /\ e.tgt \in Nat
    BY <1>1, <2>1 DEF WellFormed, Joins
  <2>3. reachable(E, e.tgt) \subseteq reachable(E, e.src)
    <3> HIDE DEF E
    <3> QED  BY <1>1, <2>1, ReachAlongEdge
  <2>4. ~(Cardinality(reachable(E, e.tgt)) < Cardinality(reachable(E, e.src)))
    BY <2>1, <2>2
  <2>5. reachable(E, e.tgt) = reachable(E, e.src)
    <3> HIDE DEF E
    <3> QED  BY <1>2, <2>3, <2>4, FS_Subset
  <2>6. \E C \in Found : e.src \in C /\ e.tgt \in C
    <3> HIDE DEF E
    <3> QED  BY <2>2, <2>5, SameReachSameComponent
  <2> QED  BY <2>6 DEF LeftToCollapse, Within
<1>7. Ranked(r, sys, "collapse", w)
  <2> HIDE DEF E, Found, r
  <2> QED  BY <1>5, <1>6 DEF Ranked, LeftIn, CollapseLabels
<1> QED  BY <1>3, <1>7

LEMMA FindSCCsKeepsRanks == IInv /\ FindSCCs => RankInv'
<1> SUFFICES ASSUME IInv, FindSCCs PROVE RankInv'
  OBVIOUS
<1>1. /\ step \in DOMAIN Schedule /\ Schedule[step] \in CollapseSteps
      /\ label = "start" /\ step' = step /\ label' = "collapse"
      /\ work' = [ToCollapse |-> components(ts, CollapsedEdges(ts))] /\ ts' = ts
  BY DEF FindSCCs, At, Goto, ToCollapse, frontendVars
<1>2. ASSUME Running("CollapseInstanceAtOffset0SCC")
      PROVE  \E r \in [Nat -> Nat] : Ranked(r, ts', label', work')
  <2>1. CollapsedEdges(ts) = Off0(ts)
    BY <1>2 DEF CollapsedEdges, Off0, Running
  <2>2. WellFormed(ts)
    BY DEF IInv, TypeInv
  <2> QED  BY <1>1, <2>1, <2>2, ComponentsAreRanked
<1> QED  BY <1>1, <1>2 DEF RankInv, Running, JustDone

LEMMA CollapseOneSCCKeepsRanks == IInv /\ RankInv /\ CollapseOneSCC => RankInv'
<1> SUFFICES ASSUME IInv, RankInv, CollapseOneSCC PROVE RankInv'
  OBVIOUS
<1>0. PICK C \in work.ToCollapse : \E first \in largest(C) :
        Goto("merge", [ToCollapse |-> work.ToCollapse \ {C}, First |-> first,
                       ToMerge |-> largest(C) \ {first}, Smaller |-> C \ largest(C)])
  BY DEF CollapseOneSCC
<1>1. PICK first \in largest(C) :
        Goto("merge", [ToCollapse |-> work.ToCollapse \ {C}, First |-> first,
                       ToMerge |-> largest(C) \ {first}, Smaller |-> C \ largest(C)])
  BY <1>0
<1>2. step' = step /\ label = "collapse" /\ label' = "merge" /\ ts' = ts
  BY <1>1 DEF CollapseOneSCC, At, Goto, frontendVars
<1>3. largest(C) \subseteq C
  BY DEF largest
<1>4. CollapseState(ts, "collapse", work)
  BY <1>2 DEF IInv
<1>5. /\ NodesToMerge(work') = C
      /\ \A E : LeftIn(E, "collapse", work) => LeftIn(E, "merge", work')
  BY <1>1, <1>3, <1>4, OneSCCState DEF Goto
<1>6. \A D \in work'.ToCollapse : D \in work.ToCollapse
  BY <1>1 DEF Goto
<1>7. ASSUME NEW r \in [Nat -> Nat], Ranked(r, ts, "collapse", work)
      PROVE  Ranked(r, ts, "merge", work')
  BY <1>5, <1>6, <1>7 DEF Ranked, CollapseLabels
<1> QED  BY <1>2, <1>7 DEF RankInv, Running, JustDone

(* Nodes of one rank can be merged.                                         *)
LEMMA MergedRanks ==
  ASSUME IInv, label = "merge", NEW n \in NodesToMerge(work), n # work.First,
         ts' = mergeNode(ts, work.First, n),
         NEW r \in [Nat -> Nat], OneRank(r, NodesToMerge(work))
  PROVE  Renames(NotFalling(ts, r), NotFalling(ts', r), work.First, n)
<1>1. /\ WellFormed(ts) /\ CollapseState(ts, "merge", work)
      /\ work.First \in NodesToMerge(work)
  BY DEF IInv, TypeInv, NodesToMerge
<1>2. /\ n \in ts.Layouts /\ work.First \in ts.Layouts
      /\ r[work.First] = r[n]
  BY <1>1 DEF CollapseState, Apart, OneRank
<1>3. ts'.Succ = quotient(ts.Succ, work.First, n)
  BY MergedGraph
<1>4. \A m : r[renamed(m, work.First, n)] = r[m]
  BY <1>2 DEF renamed
<1>5. ASSUME NEW q \in NotFalling(ts', r)
      PROVE  /\ q.src # q.tgt
             /\ \E e \in NotFalling(ts, r) : /\ q.src = renamed(e.src, work.First, n)
                                             /\ q.tgt = renamed(e.tgt, work.First, n)
  <2>1. q \in quotient(ts.Succ, work.First, n) /\ IsInstanceOff0(q) /\ ~(r[q.tgt] < r[q.src])
    BY <1>3 DEF NotFalling, Off0
  <2>2. /\ q.src # q.tgt
        /\ \E e \in ts.Succ : /\ q.src = renamed(e.src, work.First, n)
                              /\ q.tgt = renamed(e.tgt, work.First, n)
                              /\ q.tag = e.tag
    BY <2>1, QuotientEdges
  <2>3. PICK e \in ts.Succ : /\ q.src = renamed(e.src, work.First, n)
                             /\ q.tgt = renamed(e.tgt, work.First, n)
                             /\ q.tag = e.tag
    BY <2>2
  <2>4. IsInstanceOff0(e)
    BY <2>1, <2>3 DEF IsInstanceOff0, IsInstanceEdge
  <2>5. ~(r[e.tgt] < r[e.src])
    BY <1>4, <2>1, <2>3
  <2> QED  BY <2>2, <2>3, <2>4, <2>5 DEF NotFalling, Off0
<1> QED  BY <1>5 DEF Renames

LEMMA MergeSameSizeKeepsRanks == IInv /\ RankInv /\ MergeSameSize => RankInv'
<1> SUFFICES ASSUME IInv, RankInv, MergeSameSize PROVE RankInv'
  OBVIOUS
<1>1. PICK n \in work.ToMerge :
        IF sizesAllowMerge(ts, work.First, n)
        THEN /\ ts' = mergeNode(ts, work.First, n)
             /\ Goto("merge", [work EXCEPT !.ToMerge = @ \ {n}])
             /\ KeepFrontend
        ELSE Fail("mergeNodes")
  BY DEF MergeSameSize
<1>2. step \in DOMAIN Schedule /\ label = "merge"
  BY DEF MergeSameSize, At
<1>3. CASE Fail("mergeNodes")
  BY <1>3 DEF Fail, RankInv, Running, JustDone, frontendVars
<1>4. CASE ts' = mergeNode(ts, work.First, n) /\ Goto("merge", [work EXCEPT !.ToMerge = @ \ {n}])
  <2>1. CollapseState(ts, "merge", work)
    BY <1>2 DEF IInv
  <2>2. n \in NodesToMerge(work) /\ n # work.First
    BY <2>1 DEF CollapseState, NodesToMerge
  <2>3. \A m : m \in ts'.Layouts <=> m \in ts.Layouts /\ m # n
    BY <1>2, <1>4, <2>2, MergedGraph
  <2>4. /\ work'.ToCollapse = work.ToCollapse /\ work'.First = work.First
        /\ work'.ToMerge = work.ToMerge \ {n} /\ work'.Smaller = work.Smaller
    BY <1>4, <2>1 DEF Goto, CollapseState
  <2>5. NodesToMerge(work') = NodesToMerge(work) \ {n}
    BY <2>1, <2>4 DEF NodesToMerge, CollapseState
  <2>6. \A E, F : Renames(E, F, work.First, n) /\ LeftIn(E, "merge", work) =>
           \A q \in F : LeftToCollapse(q, work) \/ Within(q, NodesToMerge(work) \ {n})
    BY <2>1, <2>2, <2>3, MergeState
  <2>7. ASSUME NEW r \in [Nat -> Nat], Ranked(r, ts, "merge", work)
        PROVE  Ranked(r, ts', "merge", work')
    <3>1. /\ OneRank(r, NodesToMerge(work)) /\ LeftIn(NotFalling(ts, r), "merge", work)
          /\ \A C \in work.ToCollapse : OneRank(r, C)
      BY <2>7 DEF Ranked, CollapseLabels
    <3>2. Renames(NotFalling(ts, r), NotFalling(ts', r), work.First, n)
      BY <1>2, <1>4, <2>2, <3>1, MergedRanks
    <3>3. LeftIn(NotFalling(ts', r), "merge", work')
      BY <2>4, <2>5, <2>6, <3>1, <3>2 DEF LeftIn, LeftToCollapse
    <3>4. OneRank(r, NodesToMerge(work'))
      BY <2>5, <3>1 DEF OneRank
    <3> QED  BY <2>4, <3>1, <3>3, <3>4 DEF Ranked, CollapseLabels
  <2>8. step' = step /\ label' = "merge"
    BY <1>4 DEF Goto
  <2> QED  BY <1>2, <2>7, <2>8 DEF RankInv, Running, JustDone
<1> QED  BY <1>1, <1>3, <1>4

(* The leaders of a component have one rank.                                *)
LEMMA LeadersHaveOneRank ==
  ASSUME NEW r, NEW sys, NEW w, NEW smaller, w.First \notin smaller,
         OneRank(r, {w.First} \cup smaller), \A C \in w.ToCollapse : OneRank(r, C),
         NEW l, NEW v,
         IF smaller = {} THEN l = "collapse" /\ v = [ToCollapse |-> w.ToCollapse]
         ELSE l = "chain" /\ v = [ToCollapse |-> w.ToCollapse, Leaders |-> {w.First} \cup smaller,
                                  Leader |-> w.First, Left |-> smaller],
         LeftIn(NotFalling(sys, r), l, v)
  PROVE  Ranked(r, sys, l, v)
<1>1. CASE smaller = {}
  <2>1. l = "collapse" /\ v.ToCollapse = w.ToCollapse
    BY <1>1
  <2> QED  BY <2>1 DEF Ranked, CollapseLabels
<1>2. CASE smaller # {}
  <2>1. l = "chain" /\ v.ToCollapse = w.ToCollapse /\ v.Leader = w.First /\ v.Left = smaller
    BY <1>2
  <2> QED  BY <2>1 DEF Ranked, CollapseLabels
<1> QED  BY <1>1, <1>2

LEMMA MergeLastLeaderKeepsRanks == IInv /\ RankInv /\ MergeLastLeader => RankInv'
<1> SUFFICES ASSUME IInv, RankInv, MergeLastLeader PROVE RankInv'
  OBVIOUS
<1>1. PICK n \in work.Smaller :
        IF sizesAllowMerge(ts, work.First, n)
        THEN ts' = mergeNode(ts, work.First, n) /\ LeadersLeft(work.Smaller \ {n}) /\ KeepFrontend
        ELSE Fail("mergeNodes")
  BY DEF MergeLastLeader
<1>2. step \in DOMAIN Schedule /\ label = "merge" /\ work.ToMerge = {}
  BY DEF MergeLastLeader, At
<1>3. CASE Fail("mergeNodes")
  BY <1>3 DEF Fail, RankInv, Running, JustDone, frontendVars
<1>4. CASE ts' = mergeNode(ts, work.First, n) /\ LeadersLeft(work.Smaller \ {n}) /\ KeepFrontend
  <2> DEFINE smaller == work.Smaller \ {n}
  <2>1. CollapseState(ts, "merge", work)
    BY <1>2 DEF IInv
  <2>2. n \in NodesToMerge(work) /\ n # work.First /\ work.First \notin smaller
    BY <2>1 DEF CollapseState, NodesToMerge
  <2>3. /\ WellFormed(ts') /\ LinksBothWays(ts'.Succ)
        /\ \A m : m \in ts'.Layouts <=> m \in ts.Layouts /\ m # n
    BY <1>2, <1>4, <2>2, MergedGraph
  <2>4. NodesToMerge(work) \ {n} = {work.First} \cup smaller
    BY <1>2, <2>2 DEF NodesToMerge
  <2> HIDE DEF smaller
  <2>10. /\ Apart(ts', work.ToCollapse, NodesToMerge(work) \ {n})
         /\ \A E, F : Renames(E, F, work.First, n) /\ LeftIn(E, "merge", work) =>
               \A q \in F : LeftToCollapse(q, work) \/ Within(q, NodesToMerge(work) \ {n})
    BY <2>1, <2>2, <2>3, MergeState
  <2>5. /\ Apart(ts', work.ToCollapse, {work.First} \cup smaller)
        /\ \A E, F : Renames(E, F, work.First, n) /\ LeftIn(E, "merge", work) =>
              \A q \in F : LeftToCollapse(q, work) \/ Within(q, {work.First} \cup smaller)
    BY <2>4, <2>10, Zenon
  <2>6. /\ step' = step /\ label' \in CollapseLabels
        /\ IF smaller = {}
           THEN label' = "collapse" /\ work' = [ToCollapse |-> work.ToCollapse]
           ELSE /\ label' = "chain"
                /\ work' = [ToCollapse |-> work.ToCollapse, Leaders |-> {work.First} \cup smaller,
                            Leader |-> work.First, Left |-> smaller]
    BY <1>4, LeadersLeftState DEF smaller
  <2>7. \A E : (\A q \in E : /\ q.src # q.tgt
                             /\ LeftToCollapse(q, work) \/ Within(q, {work.First} \cup smaller)) =>
          LeftIn(E, label', work')
    BY <2>2, <2>3, <2>5, <2>6, LeadersState
  <2>8. ASSUME NEW r \in [Nat -> Nat], Ranked(r, ts, "merge", work)
        PROVE  Ranked(r, ts', label', work')
    <3>1. /\ OneRank(r, NodesToMerge(work)) /\ LeftIn(NotFalling(ts, r), "merge", work)
          /\ \A C \in work.ToCollapse : OneRank(r, C)
      BY <2>8 DEF Ranked, CollapseLabels
    <3>2. Renames(NotFalling(ts, r), NotFalling(ts', r), work.First, n)
      BY <1>2, <1>4, <2>2, <3>1, MergedRanks
    <3>3. LeftIn(NotFalling(ts', r), label', work')
      BY <2>5, <2>7, <3>1, <3>2 DEF Renames
    <3>4. OneRank(r, {work.First} \cup smaller)
      BY <2>4, <3>1 DEF OneRank
    <3> QED  BY <2>2, <2>6, <3>1, <3>3, <3>4, LeadersHaveOneRank
  <2> QED  BY <1>2, <2>6, <2>8 DEF RankInv, Running, JustDone, CollapseLabels
<1> QED  BY <1>1, <1>3, <1>4

LEMMA NothingToMergeKeepsRanks == IInv /\ RankInv /\ NothingToMerge => RankInv'
<1> SUFFICES ASSUME IInv, RankInv, NothingToMerge PROVE RankInv'
  OBVIOUS
<1>1. /\ step \in DOMAIN Schedule /\ label = "merge" /\ work.ToMerge = {}
      /\ LeadersLeft(work.Smaller) /\ UNCHANGED frontendVars
  BY DEF NothingToMerge, At
<1>2. CollapseState(ts, "merge", work) /\ WellFormed(ts) /\ LinksBothWays(ts.Succ) /\ ts' = ts
  BY <1>1 DEF IInv, TypeInv, Symmetric, frontendVars
<1>3. NodesToMerge(work) = {work.First} \cup work.Smaller
  BY <1>1 DEF NodesToMerge
<1>4. /\ Apart(ts', work.ToCollapse, {work.First} \cup work.Smaller)
      /\ work.First \notin work.Smaller
  BY <1>2, <1>3 DEF CollapseState
<1>5. /\ step' = step /\ label' \in CollapseLabels
      /\ IF work.Smaller = {}
         THEN label' = "collapse" /\ work' = [ToCollapse |-> work.ToCollapse]
         ELSE /\ label' = "chain"
              /\ work' = [ToCollapse |-> work.ToCollapse, Leaders |-> {work.First} \cup work.Smaller,
                          Leader |-> work.First, Left |-> work.Smaller]
  BY <1>1, LeadersLeftState
<1>6. \A E : (\A q \in E : /\ q.src # q.tgt
                           /\ LeftToCollapse(q, work) \/ Within(q, {work.First} \cup work.Smaller)) =>
        LeftIn(E, label', work')
  BY <1>2, <1>4, <1>5, LeadersState
<1>7. ASSUME NEW r \in [Nat -> Nat], Ranked(r, ts, "merge", work)
      PROVE  Ranked(r, ts', label', work')
  <2>1. /\ OneRank(r, NodesToMerge(work)) /\ LeftIn(NotFalling(ts, r), "merge", work)
        /\ \A C \in work.ToCollapse : OneRank(r, C)
    BY <1>7 DEF Ranked, CollapseLabels
  <2>2. \A q \in NotFalling(ts, r) : LeftToCollapse(q, work) \/ Within(q, {work.First} \cup work.Smaller)
    BY <2>1, <1>3, Zenon DEF LeftIn
  <2>3. \A q \in NotFalling(ts, r) : q.src # q.tgt
    BY <1>2 DEF NotFalling, Off0, WellFormed, Joins
  <2>4. LeftIn(NotFalling(ts', r), label', work')
    BY <1>2, <1>6, <2>2, <2>3
  <2>5. OneRank(r, {work.First} \cup work.Smaller)
    BY <1>3, <2>1 DEF OneRank
  <2> QED  BY <1>4, <1>5, <2>1, <2>4, <2>5, LeadersHaveOneRank
<1> QED  BY <1>1, <1>5, <1>7 DEF RankInv, Running, JustDone, CollapseLabels

(* The rank of a leader becomes larger than that of the leaders after it.   *)
Raised(r, leader) == [n \in Nat |-> IF n = leader THEN 2 * r[n] + 1 ELSE 2 * r[n]]

LEMMA RaisedIsRank ==
  ASSUME NEW r \in [Nat -> Nat], NEW leader
  PROVE  /\ Raised(r, leader) \in [Nat -> Nat]
         /\ \A m, n \in Nat : r[m] < r[n] => Raised(r, leader)[m] < Raised(r, leader)[n]
         /\ \A n \in Nat : leader \in Nat /\ n # leader /\ r[leader] = r[n] =>
              Raised(r, leader)[n] < Raised(r, leader)[leader]
         /\ \A m, n \in Nat : m # leader /\ n # leader /\ r[m] = r[n] =>
              Raised(r, leader)[m] = Raised(r, leader)[n]
BY DEF Raised

LEMMA ChainLeaderKeepsRanks == IInv /\ RankInv /\ ChainLeader => RankInv'
<1> SUFFICES ASSUME IInv, RankInv, ChainLeader PROVE RankInv'
  OBVIOUS
<1>1. /\ step \in DOMAIN Schedule /\ label = "chain" /\ step' = step /\ KeepFrontend
      /\ IF work.Left = {} THEN label' = "collapse" /\ work' = [ToCollapse |-> work.ToCollapse]
         ELSE \E n \in work.Left :
                label' = "chain" /\ work' = [work EXCEPT !.Leader = n, !.Left = @ \ {n}]
      /\ ChainedGraph(ts')
  BY ChainLeaderEffect
<1>2. CollapseState(ts, "chain", work) /\ WellFormed(ts)
  BY <1>1 DEF IInv, TypeInv
<1>3. /\ work.Leader \in Nat /\ \A n \in work.Left : n \in Nat /\ n # work.Leader
      /\ \A C \in work.ToCollapse : \A n \in C : n \in Nat /\ n # work.Leader
  BY <1>2 DEF CollapseState, Apart, WellFormed
<1>4. \A E, F : (\A q \in F : q \in E /\ ~(q.src = work.Leader /\ q.tgt \in work.Leaders))
                  /\ LeftIn(E, "chain", work) => LeftIn(F, label', work')
  BY <1>1, <1>2, ChainState DEF ChainedGraph
<1>5. ASSUME NEW r \in [Nat -> Nat], Ranked(r, ts, "chain", work)
      PROVE  \E s \in [Nat -> Nat] : Ranked(s, ts', label', work')
  <2> DEFINE s == Raised(r, work.Leader)
  <2>1. /\ OneRank(r, {work.Leader} \cup work.Left) /\ LeftIn(NotFalling(ts, r), "chain", work)
        /\ \A C \in work.ToCollapse : OneRank(r, C)
    BY <1>5 DEF Ranked, CollapseLabels
  <2>2. /\ s \in [Nat -> Nat]
        /\ \A m, n \in Nat : r[m] < r[n] => s[m] < s[n]
        /\ \A n \in Nat : n # work.Leader /\ r[work.Leader] = r[n] => s[n] < s[work.Leader]
        /\ \A m, n \in Nat : m # work.Leader /\ n # work.Leader /\ r[m] = r[n] => s[m] = s[n]
    BY <1>3, RaisedIsRank
  <2> HIDE DEF s
  <2>3. ASSUME NEW q \in NotFalling(ts', s)
        PROVE  q \in NotFalling(ts, r) /\ ~(q.src = work.Leader /\ q.tgt \in work.Leaders)
    <3>1. q \in ts'.Succ /\ IsInstanceOff0(q) /\ ~(s[q.tgt] < s[q.src])
      BY <2>3 DEF NotFalling, Off0
    <3>2. ASSUME NEW n \in work.Left, q = Edge(work.Leader, n, InstanceTag(AtOffset(0)))
          PROVE  FALSE
      <4>1. q.src = work.Leader /\ q.tgt = n
        BY <3>2, EdgeFields
      <4>2. r[work.Leader] = r[n]
        BY <2>1 DEF OneRank
      <4> QED  BY <1>3, <2>2, <3>1, <4>1, <4>2
    <3>3. q \in ts.Succ /\ q \notin edgesToLeaders(work.Leader)
      BY <1>1, <3>1, <3>2 DEF ChainedGraph
    <3>4. ~(q.src = work.Leader /\ q.tgt \in work.Leaders)
      BY <3>1, <3>3 DEF edgesToLeaders, SuccessorEdges, IsNotPointerEdge, IsPointerEdge,
                        IsInstanceOff0, IsInstanceEdge
    <3>5. q.src \in Nat /\ q.tgt \in Nat
      BY <1>2, <3>3 DEF WellFormed, Joins
    <3>6. ~(r[q.tgt] < r[q.src])
      BY <2>2, <3>1, <3>5
    <3> QED  BY <3>1, <3>3, <3>4, <3>6 DEF NotFalling, Off0
  <2>4. LeftIn(NotFalling(ts', s), label', work')
    BY <1>4, <2>1, <2>3
  <2>5. \A C \in work.ToCollapse : OneRank(s, C)
    BY <1>3, <2>1, <2>2 DEF OneRank
  <2>6. OneRank(s, work.Left)
    BY <1>3, <2>1, <2>2 DEF OneRank
  <2>7. CASE work.Left = {}
    <3>1. label' = "collapse" /\ work'.ToCollapse = work.ToCollapse
      BY <1>1, <2>7
    <3> QED  BY <2>2, <2>4, <2>5, <3>1 DEF Ranked, CollapseLabels
  <2>8. CASE work.Left # {}
    <3>1. PICK n \in work.Left :
            label' = "chain" /\ work' = [work EXCEPT !.Leader = n, !.Left = @ \ {n}]
      BY <1>1, <2>8
    <3>2. /\ work'.ToCollapse = work.ToCollapse /\ work'.Leader = n
          /\ work'.Left = work.Left \ {n}
      BY <1>2, <3>1 DEF CollapseState
    <3>3. OneRank(s, {work'.Leader} \cup work'.Left)
      BY <2>6, <3>2 DEF OneRank
    <3>4. Ranked(s, ts', "chain", work')
      BY <2>4, <2>5, <3>1, <3>2, <3>3 DEF Ranked, CollapseLabels
    <3> QED  BY <2>2, <3>1, <3>4
  <2> QED  BY <2>7, <2>8
<1> QED  BY <1>1, <1>5 DEF RankInv, Running, JustDone

LEMMA CollapseDoneKeepsRanks == IInv /\ RankInv /\ CollapseDone => RankInv'
<1> SUFFICES ASSUME IInv, RankInv, CollapseDone PROVE RankInv'
  OBVIOUS
<1>1. /\ step \in DOMAIN Schedule /\ Schedule[step] \in CollapseSteps
      /\ label = "collapse" /\ work.ToCollapse = {} /\ ts' = ts
      /\ IF Schedule[step] = "CollapseEqualitySCC" THEN EndStep
         ELSE \E w : Goto("backedges", w)
  BY DEF CollapseDone, At, frontendVars
<1>2. CASE Schedule[step] = "CollapseEqualitySCC"
  <2>1. label' = "start" /\ step' - 1 = step
    BY <1>1, <1>2, StepsAreIndices DEF EndStep
  <2> QED  BY <1>2, <2>1 DEF RankInv, JustDone
<1>3. CASE Schedule[step] # "CollapseEqualitySCC"
  <2>1. label' = "backedges" /\ step' = step
    BY <1>1, <1>3 DEF Goto
  <2>2. PICK r \in [Nat -> Nat] : Ranked(r, ts, "collapse", work)
    BY <1>1, <1>3 DEF RankInv, Running, CollapseSteps
  <2>3. NotFalling(ts, r) = {}
    BY <1>1, <2>2 DEF Ranked, CollapseLabels, LeftIn, LeftToCollapse
  <2>4. Ranked(r, ts', "backedges", work')
    BY <1>1, <2>3 DEF Ranked, CollapseLabels
  <2> QED  BY <2>1, <2>4 DEF RankInv, JustDone
<1> QED  BY <1>2, <1>3

(* The visits only remove edges.                                            *)
LEMMA FewerEdgesKeepRank ==
  ASSUME NEW sys, NEW new, NEW r, \A e \in new.Succ : IsInstanceOff0(e) => e \in sys.Succ,
         NotFalling(sys, r) = {}
  PROVE  NotFalling(new, r) = {}
BY DEF NotFalling, Off0

LEMMA VisitKeepsRanks ==
  ASSUME IInv, VisitInv, RankInv,
         \/ NextRoot \/ PushChild \/ CloseLoop \/ AlreadyVisited \/ Pop
         \/ RemoveBackedges \/ BackedgesDone
  PROVE  RankInv'
<1>1. /\ step \in DOMAIN Schedule /\ Schedule[step] \in CollapseSteps
      /\ label \in {"backedges", "visit"}
  BY DEF NextRoot, PushChild, CloseLoop, AlreadyVisited, Pop, RemoveBackedges, BackedgesDone, At
<1>2. Running("CollapseInstanceAtOffset0SCC")
  BY <1>1 DEF VisitInv, Running
<1>3. PICK r \in [Nat -> Nat] : NotFalling(ts, r) = {}
  BY <1>1, <1>2 DEF RankInv, Ranked, CollapseLabels
<1>4. ASSUME step' = step, label' \in {"backedges", "visit"}, \A e \in ts'.Succ : e \in ts.Succ
      PROVE  RankInv'
  <2>1. NotFalling(ts', r) = {}
    BY <1>3, <1>4, FewerEdgesKeepRank
  <2> QED  BY <1>4, <2>1 DEF RankInv, Ranked, CollapseLabels, JustDone
<1>5. CASE NextRoot \/ PushChild \/ CloseLoop \/ AlreadyVisited
  BY <1>4, <1>5 DEF NextRoot, PushChild, CloseLoop, AlreadyVisited, Goto, frontendVars
<1>6. CASE UNCHANGED <<frontendVars, step, label, work>>
  BY <1>6 DEF RankInv, Running, JustDone, frontendVars
<1>7. CASE Pop
  BY <1>4, <1>6, <1>7 DEF Pop, Goto, Fail, frontendVars
<1>8. CASE RemoveBackedges
  <2>1. ASSUME ts' = withoutEdges(ts, work.ToRemove) PROVE \A e \in ts'.Succ : e \in ts.Succ
    BY <2>1, WithoutEdgesFields DEF IInv, TypeInv
  <2> QED  BY <1>4, <1>6, <1>8, <2>1 DEF RemoveBackedges, Goto, Fail
<1>9. CASE BackedgesDone
  <2>1. EndStep /\ ts' = ts
    BY <1>9 DEF BackedgesDone, frontendVars
  <2>2. label' = "start"
    BY <2>1 DEF EndStep
  <2> QED  BY <1>3, <2>1, <2>2 DEF RankInv
<1> QED  BY <1>5, <1>7, <1>8, <1>9

LEMMA OtherStepsKeepRanks ==
  ASSUME IInv, RankInv,
         \/ Frontend \/ FrontendDone
         \/ SimplifyNext \/ SizesNext
         \/ UNCHANGED <<frontendVars, step, label, work>>
  PROVE  RankInv'
<1>1. CASE UNCHANGED <<frontendVars, step, label, work>>
  BY <1>1 DEF RankInv, Running, JustDone, frontendVars
<1>2. CASE Frontend \/ FrontendDone
  <2>1. step' \in {0, 1} /\ label' = "start"
    BY <1>2 DEF Frontend, FrontendDone, loopVars, IInv, TypeInv
  <2>2. ~(step' > 1)
    BY <2>1
  <2> QED  BY <2>1, <2>2 DEF RankInv, JustDone
<1>3. CASE (SimplifyNext \/ SizesNext) /\ ~Decompose
  <2>1. /\ step \in DOMAIN Schedule /\ Schedule[step] \notin CollapseSteps
        /\ \/ step' = step /\ label' # "start"
           \/ EndStep
           \/ UNCHANGED <<frontendVars, step, label, work>>
    BY <1>3, OtherSteps
  <2>2. CASE step' = step /\ label' # "start"
    BY <2>1, <2>2 DEF RankInv, JustDone, Running, CollapseSteps
  <2>3. CASE EndStep
    <3>1. label' = "start" /\ step' - 1 = step
      BY <2>1, <2>3, StepsAreIndices DEF EndStep
    <3>2. JustDone' # "CollapseInstanceAtOffset0SCC"
      BY <2>1, <3>1 DEF JustDone, CollapseSteps
    <3> QED  BY <3>1, <3>2 DEF RankInv
  <2> QED  BY <1>1, <2>1, <2>2, <2>3
<1>4. CASE Decompose
  <2>1. /\ step \in DOMAIN Schedule /\ label = "start" /\ step' = step /\ label' = "start"
    BY <1>4 DEF Decompose, At, Goto
  <2>2. PICK e \in manyStrides(ts) : ts' = decomposed(ts, e)
    BY <1>4 DEF Decompose
  <2>3. WellFormed(ts) /\ LinksBothWays(ts.Succ)
    BY <2>1, SoundOutsideCollapse DEF CollapseLabels
  <2>4. \A f \in ts'.Succ : IsInstanceOff0(f) => f \in ts.Succ
    BY <2>2, <2>3, DecomposedIsSound DEF InChain
  <2>5. \A r : NotFalling(ts, r) = {} => NotFalling(ts', r) = {}
    BY <2>4, FewerEdgesKeepRank
  <2> QED  BY <2>1, <2>5 DEF RankInv, JustDone
<1> QED  BY <1>1, <1>2, <1>3, <1>4

LEMMA RankInvInit == Init => RankInv
<1> SUFFICES ASSUME Init PROVE RankInv
  OBVIOUS
<1>1. step = 0 /\ label = "start"
  BY DEF Init, DLAInit
<1> QED  BY <1>1 DEF RankInv, JustDone

LEMMA RanksNext == IInv /\ VisitInv /\ RankInv /\ [Next]_vars => RankInv'
<1> SUFFICES ASSUME IInv, VisitInv, RankInv, [Next]_vars PROVE RankInv'
  OBVIOUS
<1>1. CASE \/ FindSCCs \/ CollapseOneSCC \/ MergeSameSize \/ MergeLastLeader
           \/ NothingToMerge \/ ChainLeader \/ CollapseDone
  BY <1>1, FindSCCsKeepsRanks, CollapseOneSCCKeepsRanks, MergeSameSizeKeepsRanks,
     MergeLastLeaderKeepsRanks, NothingToMergeKeepsRanks, ChainLeaderKeepsRanks,
     CollapseDoneKeepsRanks
<1>2. CASE \/ NextRoot \/ PushChild \/ CloseLoop \/ AlreadyVisited \/ Pop
           \/ RemoveBackedges \/ BackedgesDone
  BY <1>2, VisitKeepsRanks
<1>3. CASE Finished \/ UNCHANGED vars
  <2>1. UNCHANGED <<frontendVars, step, label, work>>
    BY <1>3 DEF Finished, vars, loopVars
  <2> QED  BY <2>1, OtherStepsKeepRanks
<1>4. CASE Frontend \/ FrontendDone \/ SimplifyNext \/ SizesNext
  BY <1>4, OtherStepsKeepRanks
<1> QED  BY <1>1, <1>2, <1>3, <1>4 DEF Next, CollapseNext

(* The edges that lead to another of a set, and the paths of k edges more.  *)
LeadsOn(X) == {e \in X : \E f \in X : f.src = e.tgt}
IsPath(p, k) == \A i \in 0..(k - 1) : p[i + 1].src = p[i].tgt
StartsPath(e, edges, k) == \E p \in [0..k -> edges] : IsPath(p, k) /\ p[0] = e

(* What is left after taking off k times the edges that lead to no other is *)
(* where paths of k edges more start.                                       *)
LEMMA PeelingEdges ==
  ASSUME NEW edges
  PROVE  \E left :
           /\ left[0] = edges
           /\ \A k \in Nat : left[k + 1] = LeadsOn(left[k])
           /\ isAcyclic(edges) <=> left[Cardinality(edges)] = {}
           /\ \A k \in Nat : \A e \in left[k] : StartsPath(e, edges, k)
<1> DEFINE W == [k \in Nat |-> {e \in edges : StartsPath(e, edges, k)}]
<1>0. \A k \in Nat : \A e : e \in W[k] <=> e \in edges /\ StartsPath(e, edges, k)
  OBVIOUS
<1>1. W[0] = edges
  <2>1. ASSUME NEW e \in edges PROVE e \in W[0]
    <3> DEFINE p == [i \in 0..0 |-> e]
    <3>1. p \in [0..0 -> edges] /\ IsPath(p, 0) /\ p[0] = e
      BY DEF IsPath
    <3> QED  BY <3>1 DEF StartsPath
  <2> QED  BY <2>1
<1> HIDE DEF W
<1>2. ASSUME NEW k \in Nat PROVE W[k + 1] = LeadsOn(W[k])
  <2>0. k + 1 \in Nat
    OBVIOUS
  <2>1. ASSUME NEW e \in W[k + 1] PROVE e \in LeadsOn(W[k])
    <3>1. PICK p \in [0..(k + 1) -> edges] : IsPath(p, k + 1) /\ p[0] = e
      BY <1>0, <2>0 DEF StartsPath
    <3> DEFINE q == [i \in 0..k |-> p[i]]
               s == [i \in 0..k |-> p[i + 1]]
    <3>2. /\ q \in [0..k -> edges] /\ IsPath(q, k) /\ q[0] = e
          /\ s \in [0..k -> edges] /\ IsPath(s, k) /\ s[0] = p[1] /\ p[1].src = e.tgt
          /\ e \in edges /\ p[1] \in edges
      BY <3>1 DEF IsPath
    <3>3. e \in W[k] /\ p[1] \in W[k]
      <4> HIDE DEF q, s
      <4> QED  BY <3>2, <1>0 DEF StartsPath
    <3> QED  BY <3>2, <3>3 DEF LeadsOn
  <2>2. ASSUME NEW e \in LeadsOn(W[k]) PROVE e \in W[k + 1]
    <3>1. PICK f \in W[k] : f.src = e.tgt
      BY DEF LeadsOn
    <3>2. PICK p \in [0..k -> edges] : IsPath(p, k) /\ p[0] = f
      BY <1>0 DEF StartsPath
    <3> DEFINE q == [i \in 0..(k + 1) |-> IF i = 0 THEN e ELSE p[i - 1]]
    <3>3. e \in edges
      BY <1>0 DEF LeadsOn
    <3>4. q \in [0..(k + 1) -> edges]
      BY <3>3
    <3>5. q[0] = e /\ \A i \in 0..k : q[i + 1] = p[i]
      OBVIOUS
    <3> HIDE DEF q
    <3>6. IsPath(q, k + 1)
      <4>1. ASSUME NEW i \in 0..((k + 1) - 1) PROVE q[i + 1].src = q[i].tgt
        <5>1. CASE i = 0
          BY <5>1, <3>1, <3>2, <3>5
        <5>2. CASE i # 0
          <6>1. i - 1 \in 0..(k - 1) /\ (i - 1) + 1 = i
            BY <5>2
          <6>2. q[i] = p[i - 1] /\ q[i + 1] = p[i]
            BY <6>1, <3>5
          <6> QED  BY <3>2, <6>1, <6>2 DEF IsPath
        <5> QED  BY <5>1, <5>2
      <4> QED  BY <4>1 DEF IsPath
    <3> QED  BY <1>0, <2>0, <3>3, <3>4, <3>5, <3>6 DEF StartsPath
  <2> QED  BY <2>1, <2>2
<1> DEFINE Body(g) == [k \in Nat |-> IF k = 0 THEN edges ELSE LeadsOn(g[k - 1])]
           left == CHOOSE g : g = Body(g)
<1>3. W = Body(W)
  <2>1. \A k \in Nat : W[k] = IF k = 0 THEN edges ELSE LeadsOn(W[k - 1])
    <3>1. \A k \in Nat : k # 0 => k - 1 \in Nat /\ (k - 1) + 1 = k
      OBVIOUS
    <3> QED  BY <3>1, <1>1, <1>2
  <2>2. W = [k \in Nat |-> W[k]]
    BY DEF W
  <2> QED  BY <2>1, <2>2
<1>4. left = Body(left)
  <2> HIDE DEF W, Body
  <2> QED  BY <1>3
<1>5. left[0] = edges /\ \A k \in Nat : left[k + 1] = LeadsOn(left[k])
  <2> HIDE DEF left
  <2>1. \A k \in Nat : left[k] = IF k = 0 THEN edges ELSE LeadsOn(left[k - 1])
    BY <1>4
  <2>2. \A k \in Nat : k + 1 \in Nat /\ k + 1 # 0 /\ (k + 1) - 1 = k
    OBVIOUS
  <2> QED  BY <2>1, <2>2
<1>6. isAcyclic(edges) <=> left[Cardinality(edges)] = {}
  BY DEF isAcyclic, LeadsOn
<1> HIDE DEF left
<1>7. \A k \in Nat : left[k] \subseteq W[k]
  <2> DEFINE bad == {k \in Nat : ~(left[k] \subseteq W[k])}
  <2> SUFFICES ASSUME bad # {} PROVE FALSE
    OBVIOUS
  <2>1. PICK k \in bad : \A j \in bad : k <= j
    BY LeastOf
  <2>2. k # 0
    BY <1>1, <1>5
  <2>3. k - 1 \in Nat /\ k - 1 \notin bad /\ (k - 1) + 1 = k
    BY <2>1, <2>2
  <2>4. left[k] = LeadsOn(left[k - 1]) /\ W[k] = LeadsOn(W[k - 1])
    BY <1>2, <1>5, <2>3
  <2> QED  BY <2>1, <2>3, <2>4 DEF LeadsOn
<1> QED  BY <1>0, <1>5, <1>6, <1>7

LEMMA RankedIsAcyclic ==
  ASSUME NEW edges, IsFiniteSet(edges), NEW r,
         \A e \in edges : r[e.src] \in Nat /\ r[e.tgt] \in Nat /\ r[e.tgt] < r[e.src]
  PROVE  isAcyclic(edges)
<1> DEFINE K == Cardinality(edges)
<1>1. PICK left :
        /\ isAcyclic(edges) <=> left[K] = {}
        /\ \A k \in Nat : \A e \in left[k] : StartsPath(e, edges, k)
  BY PeelingEdges
<1>2. K \in Nat
  BY FS_CardinalityType
<1>3. ASSUME NEW e \in left[K] PROVE FALSE
  <2>1. PICK p \in [0..K -> edges] : IsPath(p, K)
    <3> HIDE DEF K
    <3> QED  BY <1>1, <1>2 DEF StartsPath
  <2> HIDE DEF K
  <2>2. \A i, j \in 0..K : i < j => r[p[j].src] < r[p[i].src]
    <3> SUFFICES ASSUME NEW i \in 0..K,
                        \E j \in 0..K : i < j /\ ~(r[p[j].src] < r[p[i].src])
                 PROVE  FALSE
      OBVIOUS
    <3> DEFINE bad == {j \in 0..K : i < j /\ ~(r[p[j].src] < r[p[i].src])}
    <3>1. bad \in SUBSET Nat /\ bad # {}
      BY <1>2
    <3>2. PICK j \in bad : \A k \in bad : j <= k
      <4> HIDE DEF bad
      <4> QED  BY <3>1, LeastOf
    <3>3. /\ j - 1 \in 0..(K - 1) /\ j - 1 \in 0..K /\ (j - 1) + 1 = j /\ i <= j - 1
          /\ j - 1 \notin bad
      BY <1>2, <3>2
    <3>4. p[j].src = p[j - 1].tgt /\ p[j - 1] \in edges /\ p[j] \in edges /\ p[i] \in edges
      BY <2>1, <3>2, <3>3 DEF IsPath
    <3>5. r[p[j].src] < r[p[j - 1].src]
      BY <3>4
    <3>6. CASE i = j - 1
      BY <3>2, <3>5, <3>6
    <3>7. CASE i # j - 1
      <4>1. r[p[j - 1].src] < r[p[i].src]
        BY <3>3, <3>7
      <4> QED  BY <3>2, <3>4, <3>5, <4>1
    <3> QED  BY <3>6, <3>7
  <2>3. IsFiniteSet(0..K) /\ Cardinality(0..K) = K + 1
    BY <1>2, FS_Interval
  <2>4. PICK i, j \in 0..K : i # j /\ p[i] = p[j]
    <3> DEFINE I == 0..K
    <3>1. IsFiniteSet(I) /\ Cardinality(edges) < Cardinality(I) /\ p \in [I -> edges]
      BY <1>2, <2>1, <2>3 DEF K
    <3> HIDE DEF I
    <3>2. \E i, j \in I : i # j /\ p[i] = p[j]
      BY <3>1, FS_PigeonHole
    <3> QED  BY <3>2 DEF I
  <2>5. r[p[i].src] \in Nat
    BY <2>1
  <2> QED  BY <1>2, <2>2, <2>4, <2>5
<1> QED  BY <1>1, <1>3

LEMMA EdgesAtOffset0AreFinite ==
  ASSUME NEW sys, WellFormed(sys)
  PROVE  IsFiniteSet(Off0(sys))
<1> DEFINE P == sys.Layouts \X sys.Layouts
           f == [x \in P |-> Edge(x[1], x[2], InstanceTag(AtOffset(0)))]
<1>1. IsFiniteSet(P)
  BY LiveNodesAreFinite, FS_Product
<1> DEFINE T == {f[x] : x \in P}
<1>2. IsFiniteSet(T)
  <2>1. f \in Surjection(P, T)
    BY DEF Surjection
  <2> HIDE DEF P, T, f
  <2> QED  BY <1>1, <2>1, FS_Surjection
<1>3. ASSUME NEW e \in Off0(sys) PROVE e \in T
  <2>1. /\ e = Edge(e.src, e.tgt, e.tag) /\ <<e.src, e.tgt>> \in P
        /\ e.tag = [Kind |-> e.tag.Kind, OE |-> e.tag.OE]
    BY DEF Off0, WellFormed, Joins, IsTag
  <2>2. e.tag.Kind = "Instance" /\ e.tag.OE = AtOffset(0)
    BY DEF Off0, IsInstanceOff0, IsInstanceEdge
  <2>3. e.tag = InstanceTag(AtOffset(0))
    BY <2>1, <2>2 DEF InstanceTag
  <2>4. e = f[<<e.src, e.tgt>>]
    BY <2>1, <2>3
  <2> QED  BY <2>1, <2>4
<1> QED  BY <1>2, <1>3, FS_Subset

------------------------------------------------------------------------------
(****************************************************************************)
(* The two stacks of a visit agree: each node but the last one has taken    *)
(* the edge that leads to the next, and the backedges among those edges are *)
(* BackedgesOnStack, in the same order.                                     *)
(****************************************************************************)
TakenAt(stack, i, e) == stack[i].Taken = {e}

Matches(stack, backedges, at) ==
  /\ at \in [1..Len(backedges) -> 1..(Len(stack) - 1)]
  /\ \A j, k \in 1..Len(backedges) : j < k => at[j] < at[k]
  /\ \A j \in 1..Len(backedges) : TakenAt(stack, at[j], backedges[j])
  /\ \A i \in 1..(Len(stack) - 1) : \E e :
       TakenAt(stack, i, e) /\ (IsBackedge(e) => \E j \in 1..Len(backedges) : at[j] = i)

StacksAgree(stack, backedges) == \E at : Matches(stack, backedges, at)

StackInv ==
  step \in DOMAIN Schedule /\ Schedule[step] \in CollapseSteps /\ label = "visit" =>
    StacksAgree(work.VisitStack, work.BackedgesOnStack)

(* The last edge taken is not yet one that leads to a node of the stack.    *)
LEMMA TakeKeepsStacks ==
  ASSUME NEW S, NEW stack \in Seq(S), NEW new \in Seq(S), Len(stack) > 0, Len(new) = Len(stack),
         \A i \in 1..(Len(stack) - 1) : new[i] = stack[i],
         NEW T, NEW backedges \in Seq(T), StacksAgree(stack, backedges)
  PROVE  StacksAgree(new, backedges)
<1>1. PICK at : Matches(stack, backedges, at)
  BY DEF StacksAgree
<1>2. Matches(new, backedges, at)
  BY <1>1 DEF Matches, TakenAt
<1> QED  BY <1>2 DEF StacksAgree

LEMMA PushKeepsStacks ==
  ASSUME NEW S, NEW stack \in Seq(S), NEW new \in Seq(S), Len(stack) > 0, Len(new) = Len(stack) + 1,
         \A i \in 1..(Len(stack) - 1) : new[i] = stack[i],
         NEW e, TakenAt(new, Len(stack), e),
         NEW T, NEW backedges \in Seq(T), NEW more \in Seq(T),
         more = IF IsBackedge(e) THEN Append(backedges, e) ELSE backedges,
         StacksAgree(stack, backedges)
  PROVE  StacksAgree(new, more)
<1>1. PICK at : Matches(stack, backedges, at)
  BY DEF StacksAgree
<1>2. CASE ~IsBackedge(e)
  <2>1. more = backedges
    BY <1>2
  <2>2. \A i \in 1..(Len(new) - 1) : i = Len(stack) \/ i \in 1..(Len(stack) - 1)
    OBVIOUS
  <2>3. ASSUME NEW j \in 1..Len(backedges)
        PROVE  at[j] \in 1..(Len(new) - 1) /\ TakenAt(new, at[j], backedges[j])
    <3>1. at[j] \in 1..(Len(stack) - 1) /\ TakenAt(stack, at[j], backedges[j])
      BY <1>1 DEF Matches
    <3>2. new[at[j]] = stack[at[j]]
      BY <3>1
    <3>3. at[j] \in 1..(Len(new) - 1)
      BY <3>1
    <3> QED  BY <3>1, <3>2, <3>3 DEF TakenAt
  <2>4. at \in [1..Len(backedges) -> 1..(Len(new) - 1)]
    BY <1>1, <2>3 DEF Matches
  <2>5. ASSUME NEW i \in 1..(Len(new) - 1)
        PROVE  \E f : TakenAt(new, i, f)
                       /\ (IsBackedge(f) => \E j \in 1..Len(backedges) : at[j] = i)
    BY <1>1, <1>2, <2>2 DEF Matches, TakenAt
  <2>6. Matches(new, backedges, at)
    BY <1>1, <2>3, <2>4, <2>5 DEF Matches
  <2> QED  BY <2>1, <2>6 DEF StacksAgree
<1>3. CASE IsBackedge(e)
  <2> DEFINE n == Len(backedges)
             with == [j \in 1..(n + 1) |-> IF j = n + 1 THEN Len(stack) ELSE at[j]]
  <2>1. /\ n \in Nat /\ Len(more) = n + 1 /\ more[n + 1] = e
        /\ \A j \in 1..n : more[j] = backedges[j]
    <3>1. more = Append(backedges, e)
      BY <1>3
    <3> QED  BY <3>1
  <2>2. /\ \A j \in 1..n : with[j] = at[j] /\ at[j] \in 1..(Len(stack) - 1)
        /\ with[n + 1] = Len(stack)
    BY <1>1, <2>1 DEF Matches
  <2>3. with \in [1..Len(more) -> 1..(Len(new) - 1)]
    <3>1. \A j \in 1..(n + 1) : with[j] \in 1..(Len(new) - 1)
      <4>1. \A j \in 1..(n + 1) : j = n + 1 \/ j \in 1..n
        BY <2>1
      <4> HIDE DEF with
      <4> QED  BY <2>2, <4>1
    <3> QED  BY <2>1, <3>1
  <2> HIDE DEF with
  <2>4. ASSUME NEW j \in 1..Len(more), NEW k \in 1..Len(more), j < k PROVE with[j] < with[k]
    <3>1. j \in 1..n
      BY <2>1, <2>4
    <3>2. CASE k = n + 1
      BY <2>2, <3>1, <3>2
    <3>3. CASE k # n + 1
      <4>1. k \in 1..n
        BY <2>1, <3>3
      <4> QED  BY <1>1, <2>2, <2>4, <3>1, <4>1 DEF Matches
    <3> QED  BY <3>2, <3>3
  <2>5. ASSUME NEW j \in 1..Len(more) PROVE TakenAt(new, with[j], more[j])
    <3>1. CASE j = n + 1
      BY <2>1, <2>2, <3>1
    <3>2. CASE j # n + 1
      <4>1. j \in 1..n
        BY <2>1, <3>2
      <4> QED  BY <1>1, <2>1, <2>2, <4>1 DEF Matches, TakenAt
    <3> QED  BY <3>1, <3>2
  <2>6. ASSUME NEW i \in 1..(Len(new) - 1)
        PROVE  \E f : TakenAt(new, i, f) /\ (IsBackedge(f) => \E j \in 1..Len(more) : with[j] = i)
    <3>1. CASE i = Len(stack)
      BY <2>1, <2>2, <3>1
    <3>2. CASE i # Len(stack)
      <4>1. i \in 1..(Len(stack) - 1)
        BY <3>2
      <4>2. PICK f : TakenAt(stack, i, f) /\ (IsBackedge(f) => \E j \in 1..n : at[j] = i)
        BY <1>1, <4>1 DEF Matches
      <4>3. TakenAt(new, i, f)
        BY <4>1, <4>2 DEF TakenAt
      <4>4. (\E j \in 1..n : at[j] = i) => \E j \in 1..Len(more) : with[j] = i
        BY <2>1, <2>2
      <4> QED  BY <4>2, <4>3, <4>4
    <3> QED  BY <3>1, <3>2
  <2>7. Matches(new, more, with)
    BY <2>3, <2>4, <2>5, <2>6 DEF Matches
  <2> QED  BY <2>7 DEF StacksAgree
<1> QED  BY <1>2, <1>3

(* The node popped was pushed by a backedge when, and only when, that edge  *)
(* is the last one of BackedgesOnStack.                                     *)
LEMMA PopKeepsStacks ==
  ASSUME NEW S, NEW stack \in Seq(S), Len(stack) > 0,
         NEW T, NEW backedges \in Seq(T), \A b \in T : IsBackedge(b),
         StacksAgree(stack, backedges),
         NEW popped \in Seq(S), Len(popped) = Len(stack) - 1,
         \A i \in 1..Len(popped) : popped[i] = stack[i]
  PROVE  IF Len(stack) = 1 THEN StacksAgree(popped, backedges)
         ELSE \E e : /\ TakenAt(stack, Len(stack) - 1, e)
                     /\ ~IsBackedge(e) => StacksAgree(popped, backedges)
                     /\ IsBackedge(e) =>
                          /\ Len(backedges) > 0 /\ backedges[Len(backedges)] = e
                          /\ \A less \in Seq(T) :
                               /\ Len(less) = Len(backedges) - 1
                               /\ \A j \in 1..Len(less) : less[j] = backedges[j]
                               => StacksAgree(popped, less)
<1> DEFINE n == Len(backedges)
           last == Len(stack) - 1
<1>1. PICK at : Matches(stack, backedges, at)
  BY DEF StacksAgree
<1>2. CASE Len(stack) = 1
  <2>1. n = 0
    <3>1. ASSUME n # 0 PROVE FALSE
      <4>1. 1 \in 1..n
        BY <3>1
      <4>2. at[1] \in 1..(Len(stack) - 1)
        BY <1>1, <4>1 DEF Matches
      <4> QED  BY <1>2, <4>2
    <3> QED  BY <3>1
  <2>2. Matches(popped, backedges, at)
    <3>1. Len(popped) - 1 = -1 /\ 1..(0 - 1) = {} /\ 1..n = {}
      BY <1>2, <2>1
    <3> QED  BY <1>1, <1>2, <2>1, <3>1 DEF Matches
  <2> QED  BY <1>2, <2>2 DEF StacksAgree
<1>3. CASE Len(stack) # 1
  <2>0. last \in 1..(Len(stack) - 1) /\ Len(popped) = last /\ n \in Nat
    BY <1>3
  <2>1. PICK e : TakenAt(stack, last, e) /\ (IsBackedge(e) => \E j \in 1..n : at[j] = last)
    BY <1>1, <2>0 DEF Matches
  <2>2. ASSUME ~IsBackedge(e) PROVE StacksAgree(popped, backedges)
    <3>1. ASSUME NEW j \in 1..n PROVE at[j] \in 1..(last - 1)
      <4>1. TakenAt(stack, at[j], backedges[j]) /\ at[j] \in 1..last /\ IsBackedge(backedges[j])
        <5>1. backedges[j] \in T
          OBVIOUS
        <5> QED  BY <1>1, <5>1 DEF Matches
      <4>2. at[j] # last
        BY <2>1, <2>2, <4>1 DEF TakenAt
      <4> QED  BY <2>0, <4>1, <4>2
    <3>2. at \in [1..n -> 1..(Len(popped) - 1)]
      BY <1>1, <2>0, <3>1 DEF Matches
    <3>3. /\ \A j \in 1..n : TakenAt(popped, at[j], backedges[j])
          /\ \A j, k \in 1..n : j < k => at[j] < at[k]
      BY <1>1, <2>0, <3>1 DEF Matches, TakenAt
    <3>4. ASSUME NEW i \in 1..(Len(popped) - 1)
          PROVE  \E f : TakenAt(popped, i, f) /\ (IsBackedge(f) => \E k \in 1..n : at[k] = i)
      <4>1. i \in 1..last /\ i \in 1..Len(popped)
        BY <2>0
      <4> QED  BY <1>1, <4>1 DEF Matches, TakenAt
    <3>5. Matches(popped, backedges, at)
      BY <3>2, <3>3, <3>4 DEF Matches
    <3> QED  BY <3>5 DEF StacksAgree
  <2>3. ASSUME IsBackedge(e)
        PROVE  /\ n > 0 /\ backedges[n] = e
               /\ \A less \in Seq(T) : Len(less) = n - 1 /\ (\A j \in 1..Len(less) : less[j] = backedges[j])
                    => StacksAgree(popped, less)
    <3>1. PICK j \in 1..n : at[j] = last
      BY <2>1, <2>3
    <3>2. j = n
      <4>1. ASSUME j < n PROVE FALSE
        <5>1. n \in 1..n /\ at[j] < at[n] /\ at[n] \in 1..last
          BY <1>1, <2>0, <4>1 DEF Matches
        <5> QED  BY <2>0, <3>1, <5>1
      <4> QED  BY <2>0, <4>1
    <3>3. backedges[n] = e
      BY <1>1, <2>1, <3>1, <3>2 DEF Matches, TakenAt
    <3>4. ASSUME NEW less \in Seq(T), Len(less) = n - 1, \A k \in 1..Len(less) : less[k] = backedges[k]
          PROVE  StacksAgree(popped, less)
      <4> DEFINE before == [k \in 1..(n - 1) |-> at[k]]
      <4>1. ASSUME NEW k \in 1..(n - 1) PROVE at[k] \in 1..(last - 1) /\ k \in 1..n /\ before[k] = at[k]
        <5>1. k \in 1..n /\ n \in 1..n /\ k < n
          BY <2>0
        <5>2. at[k] < at[n] /\ at[k] \in 1..last /\ at[n] = last
          BY <1>1, <3>1, <3>2, <5>1 DEF Matches
        <5> QED  BY <2>0, <5>1, <5>2
      <4>2. before \in [1..Len(less) -> 1..(Len(popped) - 1)]
        BY <2>0, <3>4, <4>1
      <4> HIDE DEF before
      <4>3. \A k, m \in 1..Len(less) : k < m => before[k] < before[m]
        BY <1>1, <3>4, <4>1 DEF Matches
      <4>4. ASSUME NEW k \in 1..Len(less) PROVE TakenAt(popped, before[k], less[k])
        <5>1. k \in 1..n /\ k \in 1..(n - 1) /\ TakenAt(stack, at[k], backedges[k])
          BY <1>1, <2>0, <3>4 DEF Matches
        <5>2. at[k] \in 1..Len(popped)
          BY <2>0, <4>1, <5>1
        <5> QED  BY <3>4, <4>1, <5>1, <5>2 DEF TakenAt
      <4>5. ASSUME NEW i \in 1..(Len(popped) - 1)
            PROVE  \E f : TakenAt(popped, i, f) /\ (IsBackedge(f) => \E k \in 1..Len(less) : before[k] = i)
        <5>1. i \in 1..last /\ i # last /\ i \in 1..Len(popped)
          BY <2>0
        <5>2. PICK f : TakenAt(stack, i, f) /\ (IsBackedge(f) => \E k \in 1..n : at[k] = i)
          BY <1>1, <5>1 DEF Matches
        <5>3. (\E k \in 1..n : at[k] = i) => \E k \in 1..Len(less) : before[k] = i
          <6> SUFFICES ASSUME NEW k \in 1..n, at[k] = i PROVE k \in 1..(n - 1)
            BY <3>4, <4>1
          <6>1. k # n
            BY <3>1, <3>2, <5>1
          <6> QED  BY <6>1, <2>0
        <5> QED  BY <5>1, <5>2, <5>3 DEF TakenAt
      <4>6. Matches(popped, less, before)
        BY <4>2, <4>3, <4>4, <4>5 DEF Matches
      <4> QED  BY <4>6 DEF StacksAgree
    <3> QED  BY <2>0, <3>1, <3>2, <3>3, <3>4
  <2> QED  BY <1>3, <2>1, <2>2, <2>3
<1> QED  BY <1>2, <1>3

LEMMA AdvancedFields ==
  ASSUME VisitState(ts, work), work.VisitStack # << >>, NEW e
  PROVE  /\ Len(work.VisitStack) > 0 /\ Len(advanced(e)) = Len(work.VisitStack)
         /\ TakenAt(advanced(e), Len(work.VisitStack), e)
         /\ \A i \in 1..(Len(work.VisitStack) - 1) : advanced(e)[i] = work.VisitStack[i]
<1>1. work.VisitStack \in Seq(StackEntries(ts)) /\ Len(work.VisitStack) > 0
  BY DEF VisitState
<1>2. Len(work.VisitStack) \in DOMAIN work.VisitStack
  BY <1>1
<1>3. [Node |-> Top.Node, NextToVisit |-> Top.NextToVisit \ {e}, Taken |-> {e}].Taken = {e}
  OBVIOUS
<1> DEFINE entry == [Node |-> Top.Node, NextToVisit |-> Top.NextToVisit \ {e}, Taken |-> {e}]
<1>4. advanced(e) = [work.VisitStack EXCEPT ![Len(work.VisitStack)] = entry]
  BY DEF advanced
<1> HIDE DEF entry
<1>5. /\ Len(advanced(e)) = Len(work.VisitStack)
      /\ advanced(e)[Len(work.VisitStack)] = entry
      /\ \A i \in 1..(Len(work.VisitStack) - 1) : advanced(e)[i] = work.VisitStack[i]
  BY <1>1, <1>2, <1>4
<1> QED  BY <1>1, <1>3, <1>5 DEF TakenAt, entry

LEMMA VisitKeepsStacks ==
  ASSUME IInv, VisitInv, StackInv,
         PushChild \/ CloseLoop \/ AlreadyVisited
  PROVE  StackInv'
<1>1. /\ step \in DOMAIN Schedule /\ Schedule[step] \in CollapseSteps /\ label = "visit"
      /\ work.VisitStack # << >>
  BY DEF PushChild, CloseLoop, AlreadyVisited, At
<1>2. /\ WellFormed(ts) /\ VisitState(ts, work)
      /\ StacksAgree(work.VisitStack, work.BackedgesOnStack)
  BY <1>1 DEF IInv, TypeInv, VisitInv, StackInv
<1>3. /\ work.VisitStack \in Seq(StackEntries(ts)) /\ work.BackedgesOnStack \in Seq(Backedges(ts))
      /\ work = [Roots |-> work.Roots, Root |-> work.Root, Visited |-> work.Visited,
                 VisitStack |-> work.VisitStack, BackedgesOnStack |-> work.BackedgesOnStack,
                 ToRemove |-> work.ToRemove]
  BY <1>2 DEF VisitState, VisitWork
<1>4. ASSUME NEW e \in NextEdge
      PROVE  /\ advanced(e) \in Seq(StackEntries(ts)) /\ e \in InstancesOf(ts)
             /\ Len(work.VisitStack) > 0 /\ Len(advanced(e)) = Len(work.VisitStack)
             /\ TakenAt(advanced(e), Len(work.VisitStack), e)
             /\ \A i \in 1..(Len(work.VisitStack) - 1) : advanced(e)[i] = work.VisitStack[i]
  BY <1>1, <1>2, NextEdgeFields, AdvancedFields DEF Takes
<1>5. ASSUME NEW e \in NextEdge, work'.VisitStack = advanced(e),
             work'.BackedgesOnStack = work.BackedgesOnStack
      PROVE  StackInv'
  <2>1. StacksAgree(advanced(e), work.BackedgesOnStack)
    BY <1>2, <1>3, <1>4, TakeKeepsStacks
  <2> QED  BY <1>5, <2>1 DEF StackInv
<1>6. CASE CloseLoop
  <2>1. PICK e \in NextEdge :
          work' = [work EXCEPT !.VisitStack = advanced(e), !.ToRemove = @ \cup LoopBackedges(e)]
    BY <1>6 DEF CloseLoop, Goto
  <2>2. work'.VisitStack = advanced(e) /\ work'.BackedgesOnStack = work.BackedgesOnStack
    BY <1>3, <2>1
  <2> QED  BY <1>5, <2>2
<1>7. CASE AlreadyVisited
  <2>1. PICK e \in NextEdge : work' = [work EXCEPT !.VisitStack = advanced(e)]
    BY <1>7 DEF AlreadyVisited, Goto
  <2>2. work'.VisitStack = advanced(e) /\ work'.BackedgesOnStack = work.BackedgesOnStack
    BY <1>3, <2>1
  <2> QED  BY <1>5, <2>2
<1>8. CASE PushChild
  <2>1. PICK e \in NextEdge : Goto("visit", [work EXCEPT
            !.Visited = @ \cup {e.tgt},
            !.VisitStack = Append(advanced(e), StackEntry(e.tgt)),
            !.BackedgesOnStack = IF IsBackedge(e) THEN Append(@, e) ELSE @])
    BY <1>8 DEF PushChild
  <2> DEFINE new == Append(advanced(e), StackEntry(e.tgt))
             more == IF IsBackedge(e) THEN Append(work.BackedgesOnStack, e) ELSE work.BackedgesOnStack
  <2>2. work'.VisitStack = new /\ work'.BackedgesOnStack = more
    BY <1>3, <2>1 DEF Goto
  <2>3. e.tgt \in ts.Layouts /\ (IsBackedge(e) => e \in Backedges(ts))
    BY <1>2, <1>4 DEF InstancesOf, Backedges, WellFormed, Joins
  <2>4. /\ new \in Seq(StackEntries(ts)) /\ Len(new) = Len(work.VisitStack) + 1
        /\ \A i \in 1..Len(work.VisitStack) : new[i] = advanced(e)[i]
    BY <1>3, <1>4, <2>3, StackEntryFields
  <2>5. more \in Seq(Backedges(ts))
    BY <1>3, <2>3
  <2> HIDE DEF new
  <2>6. \A i \in 1..(Len(work.VisitStack) - 1) : new[i] = work.VisitStack[i]
    <3>1. \A i \in 1..(Len(work.VisitStack) - 1) : i \in 1..Len(work.VisitStack)
      BY <1>3
    <3> QED  BY <1>4, <2>4, <3>1
  <2>7. TakenAt(new, Len(work.VisitStack), e)
    BY <1>3, <1>4, <2>4 DEF TakenAt
  <2>8. StacksAgree(new, more)
    <3>1. more = IF IsBackedge(e) THEN Append(work.BackedgesOnStack, e) ELSE work.BackedgesOnStack
      OBVIOUS
    <3> HIDE DEF more
    <3> DEFINE stack == work.VisitStack
               backedges == work.BackedgesOnStack
               S == StackEntries(ts)
               T == Backedges(ts)
    <3>2. /\ stack \in Seq(S) /\ Len(stack) > 0 /\ new \in Seq(S) /\ Len(new) = Len(stack) + 1
          /\ \A i \in 1..(Len(stack) - 1) : new[i] = stack[i]
          /\ TakenAt(new, Len(stack), e)
          /\ backedges \in Seq(T) /\ more \in Seq(T) /\ StacksAgree(stack, backedges)
          /\ more = IF IsBackedge(e) THEN Append(backedges, e) ELSE backedges
      BY <1>2, <1>3, <1>4, <2>4, <2>5, <2>6, <2>7, <3>1
    <3> HIDE DEF stack, backedges, S, T
    <3> QED  BY <3>2, PushKeepsStacks
  <2> QED  BY <2>2, <2>8 DEF StackInv
<1> QED  BY <1>6, <1>7, <1>8

LEMMA FrontFields ==
  ASSUME NEW S, NEW s \in Seq(S), Len(s) > 0
  PROVE  /\ Front(s) \in Seq(S) /\ Len(Front(s)) = Len(s) - 1
         /\ \A i \in 1..Len(Front(s)) : Front(s)[i] = s[i]
         /\ Front(s) = << >> <=> Len(s) = 1
<1>1. Front(s) = [i \in 1..(Len(s) - 1) |-> s[i]]
  BY DEF Front
<1>2. Len(s) - 1 \in Nat /\ \A i \in 1..(Len(s) - 1) : s[i] \in S
  OBVIOUS
<1>3. Front(s) \in Seq(S) /\ Len(Front(s)) = Len(s) - 1
  BY <1>1, <1>2
<1>4. Front(s) = << >> <=> Len(Front(s)) = 0
  <2> HIDE <1>1
  <2>1. ASSUME NEW t \in Seq(S) PROVE t = << >> <=> Len(t) = 0
    OBVIOUS
  <2> QED  BY <1>3, <2>1
<1> QED  BY <1>1, <1>2, <1>3, <1>4

LEMMA PopIsSafe ==
  ASSUME IInv, VisitInv, StackInv, Pop
  PROVE  StackInv' /\ failed' = failed
<1>1. /\ step \in DOMAIN Schedule /\ Schedule[step] \in CollapseSteps /\ label = "visit"
      /\ work.VisitStack # << >>
  BY DEF Pop, At
<1>2. VisitState(ts, work) /\ StacksAgree(work.VisitStack, work.BackedgesOnStack)
  BY <1>1 DEF VisitInv, StackInv
<1>3. /\ work.VisitStack \in Seq(StackEntries(ts)) /\ work.BackedgesOnStack \in Seq(Backedges(ts))
      /\ work = [Roots |-> work.Roots, Root |-> work.Root, Visited |-> work.Visited,
                 VisitStack |-> work.VisitStack, BackedgesOnStack |-> work.BackedgesOnStack,
                 ToRemove |-> work.ToRemove]
      /\ Len(work.VisitStack) > 0
  BY <1>1, <1>2 DEF VisitState, VisitWork
<1> DEFINE stack == work.VisitStack
           backedges == work.BackedgesOnStack
           popped == Front(stack)
<1>4. /\ popped \in Seq(StackEntries(ts)) /\ Len(popped) = Len(stack) - 1
      /\ \A i \in 1..Len(popped) : popped[i] = stack[i]
      /\ popped = << >> <=> Len(stack) = 1
  BY <1>3, FrontFields
<1>5. \A b \in Backedges(ts) : IsBackedge(b)
  BY DEF Backedges
<1>6. pushedBy = stack[Len(stack) - 1].Taken
  BY DEF pushedBy
<1>7. \/ /\ popped = << >> \/ (pushedBy # {} /\ \A e \in pushedBy : ~IsBackedge(e))
         /\ Goto("visit", [work EXCEPT !.VisitStack = popped])
      \/ /\ ~(popped = << >> \/ (pushedBy # {} /\ \A e \in pushedBy : ~IsBackedge(e)))
         /\ backedges # << >> /\ {Last(backedges)} = pushedBy
         /\ Goto("visit", [work EXCEPT !.VisitStack = popped, !.BackedgesOnStack = Front(@)])
      \/ /\ ~(popped = << >> \/ (pushedBy # {} /\ \A e \in pushedBy : ~IsBackedge(e)))
         /\ ~(backedges # << >> /\ {Last(backedges)} = pushedBy)
  BY DEF Pop
<1> HIDE DEF popped
<1>8. CASE Len(stack) = 1
  <2>1. StacksAgree(popped, backedges)
    BY <1>2, <1>3, <1>4, <1>5, <1>8, PopKeepsStacks
  <2>2. Goto("visit", [work EXCEPT !.VisitStack = popped])
    BY <1>4, <1>7, <1>8
  <2>3. work'.VisitStack = popped /\ work'.BackedgesOnStack = backedges /\ failed' = failed
    BY <1>3, <2>2 DEF Goto
  <2> QED  BY <2>1, <2>3 DEF StackInv
<1>9. CASE Len(stack) # 1
  <2>1. PICK e : /\ TakenAt(stack, Len(stack) - 1, e)
                 /\ ~IsBackedge(e) => StacksAgree(popped, backedges)
                 /\ IsBackedge(e) =>
                      /\ Len(backedges) > 0 /\ backedges[Len(backedges)] = e
                      /\ \A less \in Seq(Backedges(ts)) :
                           /\ Len(less) = Len(backedges) - 1
                           /\ \A j \in 1..Len(less) : less[j] = backedges[j]
                           => StacksAgree(popped, less)
    BY <1>2, <1>3, <1>4, <1>5, <1>9, PopKeepsStacks
  <2>2. pushedBy = {e} /\ popped # << >>
    BY <1>4, <1>6, <1>9, <2>1 DEF TakenAt
  <2>3. CASE ~IsBackedge(e)
    <3>1. Goto("visit", [work EXCEPT !.VisitStack = popped])
      BY <1>7, <2>2, <2>3
    <3>2. work'.VisitStack = popped /\ work'.BackedgesOnStack = backedges /\ failed' = failed
      BY <1>3, <3>1 DEF Goto
    <3> QED  BY <2>1, <2>3, <3>2 DEF StackInv
  <2>4. CASE IsBackedge(e)
    <3>1. backedges # << >> /\ Last(backedges) = e
      BY <1>3, <2>1, <2>4 DEF Last
    <3>2. Goto("visit", [work EXCEPT !.VisitStack = popped, !.BackedgesOnStack = Front(@)])
      BY <1>7, <2>2, <2>4, <3>1
    <3>3. /\ work'.VisitStack = popped /\ work'.BackedgesOnStack = Front(backedges)
          /\ failed' = failed
      BY <1>3, <3>2 DEF Goto
    <3>4. /\ Front(backedges) \in Seq(Backedges(ts)) /\ Len(Front(backedges)) = Len(backedges) - 1
          /\ \A j \in 1..Len(Front(backedges)) : Front(backedges)[j] = backedges[j]
      <4>1. Len(backedges) > 0
        BY <2>1, <2>4
      <4> QED  BY <1>3, <4>1, FrontFields
    <3>5. StacksAgree(popped, Front(backedges))
      BY <2>1, <2>4, <3>4
    <3> QED  BY <3>3, <3>5 DEF StackInv
  <2> QED  BY <2>3, <2>4
<1> QED  BY <1>8, <1>9

(* The edges to remove have their two halves.                               *)
LEMMA RemoveBackedgesIsSafe ==
  ASSUME IInv, VisitInv, RemoveBackedges
  PROVE  label' = "backedges" /\ failed' = failed
<1>1. WellFormed(ts) /\ VisitState(ts, work)
  BY DEF RemoveBackedges, At, IInv, TypeInv, VisitInv
<1>2. work.ToRemove \subseteq ts.Pred \cap ts.Succ
  BY <1>1 DEF VisitState, WellFormed, Backedges
<1> QED  BY <1>2 DEF RemoveBackedges, Goto

LEMMA NextRootKeepsStacks ==
  ASSUME NextRoot
  PROVE  StackInv' /\ failed' = failed
<1>1. PICK r \in work.Roots :
        Goto("visit", [Roots |-> work.Roots \ {r}, Root |-> r, Visited |-> {r},
                       VisitStack |-> <<StackEntry(r)>>,
                       BackedgesOnStack |-> << >>, ToRemove |-> {}])
  BY DEF NextRoot
<1>2. /\ work'.VisitStack = <<StackEntry(r)>> /\ work'.BackedgesOnStack = << >>
      /\ failed' = failed
  BY <1>1 DEF Goto
<1>3. ASSUME NEW entry PROVE StacksAgree(<<entry>>, << >>)
  <2> DEFINE at == [j \in 1..0 |-> 0]
  <2>1. at \in [1..0 -> 1..(1 - 1)] /\ Len(<<entry>>) = 1 /\ Len(<< >>) = 0
    OBVIOUS
  <2>2. 1..0 = {} /\ 1..(1 - 1) = {}
    OBVIOUS
  <2> HIDE DEF at
  <2>3. Matches(<<entry>>, << >>, at)
    BY <2>1, <2>2 DEF Matches
  <2> QED  BY <2>3 DEF StacksAgree
<1> QED  BY <1>2, <1>3 DEF StackInv

OtherFailures ==
  {"mergeNodes", "Node was erased", "not isLeaf(Root) or Root->Size", "FinalSize"}

LEMMA OtherActionsFailOtherwise ==
  ASSUME \/ Frontend \/ FrontendDone
         \/ FindSCCs \/ CollapseOneSCC \/ MergeSameSize \/ MergeLastLeader
         \/ NothingToMerge \/ ChainLeader \/ CollapseDone
         \/ PushChild \/ CloseLoop \/ AlreadyVisited \/ BackedgesDone
         \/ SimplifyNext \/ SizesNext \/ Finished \/ UNCHANGED vars
  PROVE  failed' = failed \/ failed' \in OtherFailures
<1>1. CASE Frontend \/ FrontendDone \/ Finished \/ UNCHANGED vars
  BY <1>1 DEF Frontend, FrontendDone, Finished, vars, loopVars
<1>2. CASE \/ FindSCCs \/ CollapseOneSCC \/ PushChild \/ CloseLoop \/ AlreadyVisited
           \/ BackedgesDone \/ CollapseDone
  BY <1>2 DEF FindSCCs, CollapseOneSCC, PushChild, CloseLoop, AlreadyVisited, BackedgesDone,
              CollapseDone, Goto, EndStep
<1>3. CASE MergeSameSize \/ MergeLastLeader \/ NothingToMerge \/ ChainLeader
  BY <1>3 DEF MergeSameSize, MergeLastLeader, NothingToMerge, LeadersLeft, ChainLeader, Goto,
              Fail, OtherFailures
<1>4. CASE SimplifyNext
  BY <1>4 DEF SimplifyNext, AddFakeRoot, NextNode, NextChild, ChildrenDone, RemoveFakeRoot, Goto,
              EndStep, Fail, OtherFailures
<1>5. CASE SizesNext
  <2>1. CASE RemoveInvalidPointers \/ StartPrune \/ PruneVisit \/ Prune \/ PruneDone
    BY <2>1 DEF RemoveInvalidPointers, StartPrune, PruneVisit, Prune, PruneDone, Goto, EndStep
  <2>2. CASE StartUpper \/ UpperVisit \/ UpperDone
    BY <2>2 DEF StartUpper, UpperVisit, UpperDone, Goto, EndStep, Fail, OtherFailures
  <2>3. CASE StartStrides \/ StridesVisit \/ StridesDone \/ Decompose \/ DecomposeDone
    BY <2>3 DEF StartStrides, StridesVisit, StridesDone, Decompose, DecomposeDone, Goto, EndStep
  <2> QED  BY <1>5, <2>1, <2>2, <2>3 DEF SizesNext
<1> QED  BY <1>1, <1>2, <1>3, <1>4, <1>5

LEMMA OtherActionsStartNoVisit ==
  ASSUME IInv, VisitInv, StackInv,
         \/ Frontend \/ FrontendDone
         \/ FindSCCs \/ CollapseOneSCC \/ MergeSameSize \/ MergeLastLeader
         \/ NothingToMerge \/ ChainLeader \/ CollapseDone
         \/ BackedgesDone
         \/ SimplifyNext \/ SizesNext \/ Finished \/ UNCHANGED vars
  PROVE  StackInv'
<1>1. ASSUME UNCHANGED <<step, label, work>> PROVE StackInv'
  BY <1>1 DEF StackInv
<1>2. ASSUME label' # "visit" PROVE StackInv'
  BY <1>2 DEF StackInv
<1>3. CASE Frontend \/ FrontendDone
  <2>1. label' = "start"
    BY <1>3 DEF Frontend, FrontendDone, loopVars, IInv, TypeInv
  <2> QED  BY <1>2, <2>1
<1>4. CASE Finished \/ UNCHANGED vars
  BY <1>1, <1>4 DEF Finished, vars, loopVars
<1>5. CASE FindSCCs \/ CollapseOneSCC \/ CollapseDone \/ BackedgesDone \/ ChainLeader
  <2>1. label' # "visit"
    BY <1>5 DEF FindSCCs, CollapseOneSCC, CollapseDone, BackedgesDone, ChainLeader, Goto, EndStep
  <2> QED  BY <1>2, <2>1
<1>6. CASE MergeSameSize \/ MergeLastLeader \/ NothingToMerge
  <2>1. label' # "visit" \/ UNCHANGED <<step, label, work>>
    BY <1>6 DEF MergeSameSize, MergeLastLeader, NothingToMerge, LeadersLeft, Goto, Fail
  <2> QED  BY <1>1, <1>2, <2>1
<1>7. CASE SimplifyNext \/ SizesNext
  <2>1. /\ step \in DOMAIN Schedule /\ Schedule[step] \notin CollapseSteps
        /\ \/ step' = step
           \/ EndStep
    BY <1>7, OtherSteps DEF Decompose, Goto
  <2>2. CASE step' = step
    BY <2>1, <2>2 DEF StackInv
  <2>3. CASE EndStep
    BY <1>2, <2>3 DEF EndStep
  <2> QED  BY <2>1, <2>2, <2>3
<1> QED  BY <1>3, <1>4, <1>5, <1>6, <1>7

------------------------------------------------------------------------------
(* The theorems.                                                            *)

(* Neither a step nor any action in the middle of one leaves the Successors *)
(* and the Predecessors in disagreement, an edge to a node that is gone, or *)
(* a self edge: DLATypeSystem.cpp's verifyConsistency.                      *)
THEOREM GraphStaysConsistent == Spec => []Consistent
<1>1. IInv => Consistent
  BY DEF IInv, TypeInv, WellFormed, Joins, Consistent, edgesAreMirrored, edgesJoinLiveNodes,
         noSelfEdges
<1> QED  BY <1>1, Invariants, PTL

(* collapseEqualitySCC leaves no equality edge, whatever the sizes of the   *)
(* nodes it merges or chains.                                               *)
THEOREM EqualityIsCollapsed == Spec => []NoEqualityIsLeft
<1>1. IInv => NoEqualityIsLeft
  BY DEF IInv
<1> QED  BY <1>1, Invariants, PTL

(* collapseInstanceAtOffset0SCC leaves no loop of instances at offset 0:    *)
(* neither one it was to collapse nor one it made when it chained nodes of  *)
(* different sizes.                                                         *)
THEOREM LoopsAreCollapsed == Spec => []NoLoopAtOffset0
<1>1. Init => IInv /\ VisitInv /\ RankInv
  BY InvInit, VisitInvInit, RankInvInit
<1>2. (IInv /\ VisitInv /\ RankInv) /\ [Next]_vars => (IInv /\ VisitInv /\ RankInv)'
  BY InvNext, RanksNext
<1>3. IInv /\ RankInv => NoLoopAtOffset0
  <2> SUFFICES ASSUME IInv, RankInv, JustDone = "CollapseInstanceAtOffset0SCC"
               PROVE  isAcyclic(Off0(ts))
    BY DEF NoLoopAtOffset0, Off0
  <2>1. WellFormed(ts)
    BY DEF IInv, TypeInv
  <2>2. PICK r \in [Nat -> Nat] : NotFalling(ts, r) = {}
    BY DEF RankInv
  <2>3. \A e \in Off0(ts) : r[e.src] \in Nat /\ r[e.tgt] \in Nat /\ r[e.tgt] < r[e.src]
    BY <2>1, <2>2, RanksOfNodes DEF NotFalling, Off0
  <2> QED  BY <2>1, <2>3, EdgesAtOffset0AreFinite, RankedIsAcyclic
<1> QED  BY <1>1, <1>2, <1>3, PTL DEF Spec

(* What the two collapsing steps assert at their end of the edges they      *)
(* collapse along holds whatever graph they start from.                     *)
THEOREM CollapseIsComplete == Spec => []CollapsePostconditions
BY EqualityIsCollapsed, LoopsAreCollapsed, PTL DEF CollapsePostconditions

LEMMA CutRootsAreInNoLoop ==
  ASSUME NEW sys, WellFormed(sys), NEW r, Cut(sys, r),
         NEW e \in InstancesOf(sys), e.src = r
  PROVE  r \notin reachable(InstancesOf(sys), e.tgt)
<1>1. PICK V : CutBy(sys, r, V)
  BY DEF Cut
<1>2. IsFiniteSet({f.tgt : f \in InstancesOf(sys)})
  <2>1. InstancesOf(sys) \subseteq sys.Succ
    BY DEF InstancesOf
  <2> QED  BY <2>1, LiveNodesAreFinite
<1>3. e.tgt \in V \ {r} /\ Closed(InstancesOf(sys), V \ {r})
  BY <1>1 DEF CutBy, Closed
<1>4. reachable(InstancesOf(sys), e.tgt) \subseteq V \ {r}
  BY <1>2, <1>3, ReachableIsLeastClosed
<1> QED  BY <1>4

(* The visits of removeBackedgesFromSCC leave no loop of instance edges     *)
(* through a node they started from.                                        *)
THEOREM VisitsCutRoots == Spec => []RootsAreCut
<1>1. IInv /\ VisitInv => RootsAreCut
  <2> SUFFICES ASSUME IInv, VisitInv, JustDone = "CollapseInstanceAtOffset0SCC",
                      NEW r \in ts.Layouts, isSCCRoot(r), ~hasNoSCCEdge(r),
                      NEW e \in {f \in ts.Succ : IsMixedEdge(f)}, e.src = r
               PROVE  r \notin reachable({f \in ts.Succ : IsMixedEdge(f)}, e.tgt)
    BY DEF RootsAreCut
  <2>1. WellFormed(ts) /\ ts.Pred = ts.Succ
    BY DEF IInv, TypeInv, WellFormed
  <2>2. IsRootOf(ts, r)
    BY <2>1 DEF IsRootOf, isSCCRoot, hasNoSCCEdge
  <2>3. Cut(ts, r)
    BY <2>2 DEF VisitInv
  <2>4. InstancesOf(ts) = {f \in ts.Succ : IsMixedEdge(f)}
    BY DEF InstancesOf, IsMixedEdge
  <2> QED  BY <2>1, <2>3, <2>4, CutRootsAreInNoLoop
<1> QED  BY <1>1, Invariants, PTL

(* The assertions of removeBackedgesFromSCC on its two stacks, and on the   *)
(* edges it erases, never fail.                                             *)
THEOREM VisitsNeverAbort == Spec => []VisitAssertionsHold
<1> DEFINE Inv == IInv /\ VisitInv /\ StackInv /\ VisitAssertionsHold
<1>1. Init => Inv
  <2> SUFFICES ASSUME Init PROVE Inv
    OBVIOUS
  <2>1. label = "start" /\ failed = ""
    BY DEF Init, DLAInit
  <2> QED  BY <2>1, InvInit, VisitInvInit DEF StackInv, VisitAssertionsHold, VisitFailures
<1>2. Inv /\ [Next]_vars => Inv'
  <2> SUFFICES ASSUME IInv, VisitInv, StackInv, VisitAssertionsHold, [Next]_vars
               PROVE  StackInv' /\ VisitAssertionsHold'
    BY InvNext
  <2>1. CASE Pop
    BY <2>1, PopIsSafe DEF VisitAssertionsHold
  <2>2. CASE RemoveBackedges
    BY <2>2, RemoveBackedgesIsSafe DEF VisitAssertionsHold, StackInv
  <2>3. CASE NextRoot
    BY <2>3, NextRootKeepsStacks DEF VisitAssertionsHold
  <2>4. CASE PushChild \/ CloseLoop \/ AlreadyVisited
    <3>1. failed' = failed \/ failed' \in OtherFailures
      BY <2>4, OtherActionsFailOtherwise
    <3> QED  BY <2>4, <3>1, VisitKeepsStacks DEF VisitAssertionsHold, VisitFailures, OtherFailures
  <2>5. CASE \/ Frontend \/ FrontendDone
             \/ FindSCCs \/ CollapseOneSCC \/ MergeSameSize \/ MergeLastLeader
             \/ NothingToMerge \/ ChainLeader \/ CollapseDone
             \/ BackedgesDone
             \/ SimplifyNext \/ SizesNext \/ Finished \/ UNCHANGED vars
    <3>1. failed' = failed \/ failed' \in OtherFailures
      BY <2>5, OtherActionsFailOtherwise
    <3>2. StackInv'
      BY <2>5, OtherActionsStartNoVisit
    <3> QED  BY <3>1, <3>2 DEF VisitAssertionsHold, VisitFailures, OtherFailures
  <2> QED  BY <2>1, <2>2, <2>3, <2>4, <2>5 DEF Next, CollapseNext
<1>3. Inv => VisitAssertionsHold
  OBVIOUS
<1> QED  BY <1>1, <1>2, <1>3, PTL DEF Spec
==============================================================================
