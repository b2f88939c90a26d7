# A TLA+ model of revng-c

revng-c is the decompiler of rev.ng: it takes the LLVM module that the lifter
made out of a binary and produces C.  It is a library of passes, run one after
the other on one thread by the pipelines of `share/revng/pipelines`; each pass
rewrites a graph (the IR, a graph of layouts, a control flow graph, an AST, the
types of the model) in many small steps.  What goes wrong in such a program is
not a race: it is a step that finds the graph in a shape an earlier step should
have excluded, two copies of one fact that drift apart, a loop over a graph
that changes while it is walked, a size that is stale when used.  This
directory models those steps, checks them with TLC on small graphs, and proves
the most important invariants with TLAPS for graphs of any size.

Paths are relative to the root of the repository.

## 1. The system

| component | where | state | operations |
|---|---|---|---|
| DLA step scheduler | `lib/DataLayoutAnalysis/Middleend/DLAStep.*` | the schedule, `InsertedSteps`, `InvalidatedSteps` | `addStep`, `reset`, `hasValidSchedule`, `run` |
| DLA type system | `include/revng-c/DataLayoutAnalysis/DLATypeSystem.h`, `lib/DataLayoutAnalysis/DLATypeSystem.cpp` | nodes with size and flags, two copies of every edge, the classes of IDs that were merged, the class of the removed IDs | create, link, merge, remove, move and erase edges, verify |
| DLA front-end | `lib/DataLayoutAnalysis/Frontend` | the node of each LLVM value | one handler per kind of instruction |
| DLA middle-end, normalization | `lib/DataLayoutAnalysis/Middleend` | local to each step: visits, stacks, lists | collapse equal layouts, cut loops, simplify, prune, compute sizes, check strides, split nested arrays |
| DLA middle-end, optimization | same | local to each step | merge of arrays, fields and pointees, choice of unions and structs |
| DLA back-end | `lib/DataLayoutAnalysis/Backend` | the model's types | make types out of nodes, attach them to functions and segments |
| Control flow restructuring | `lib/RestructureCFG` | the region graph, meta-regions, the AST of each region | regions, dispatchers, combing, AST generation |
| AST beautification | `lib/RestructureCFG/*.cpp` | the AST and its conditions | simplification of conditions, switches, loops, implicit statements |
| Type dependency graph, headers | `lib/TypeNames`, `lib/HeadersGeneration` | the graph of declarations and definitions, the types to inline, what a visit has defined | build the graph, count users, print a header, a frame, a type |
| Stack handling | `lib/PromoteStackPointer` | the stack accesses of each function, the sizes of frames in the model | promote the stack pointer, bound accesses, detect sizes, segregate accesses |
| Canonicalization | `lib/Canonicalize` | the IR | exit SSA, choose statements, casts, GEPs, precedence |
| C back-end | `lib/Backend` | declared variables, the text | print functions, declare variables as late as possible |
| Import from C | `lib/ImportFromC` | the model being edited | turn clang declarations into model types |
| Initial model types | `lib/InitModelTypes` | the type of each value | one visit of each function |
| Clift | `lib/mlir` | MLIR types and containers | import of model types, verification |

They interact through the IR and the model: the stack passes give the Data
Layout Analysis (DLA) a pointer for each stack frame, DLA writes the types it
recovers in the model, canonicalization and the back-end read them; control
flow restructuring builds the AST the back-end prints, and the header
generation emits the types in an order a C compiler accepts.

What makes each of them correct:

- *Scheduler*: a step never runs unless what it depends on was established
  and has not been invalidated since.
- *Type system*: the two copies of every edge agree and join live nodes, and
  the node a value was given can be found for ever through its class.
- *Front-end and steps*: the assertions between steps hold, steps terminate,
  sizes contain the fields, what the code of the binary accesses is not lost.
- *DLA back-end*: the types have the fields of the graph, verify, and leave
  what the user said of the model as it was.
- *Restructuring, beautification, C back-end, exit from SSA*: the result executes what the
  input executes.
- *Headers*: each definition comes after the definitions it needs, once, and
  no type is missing.
- *Stack*: an access is attributed to the frame, the return address or an
  argument according to where it is, and no byte has two owners.

The hard behaviours are listed one by one under `hazards` in `PROJECT.json`,
each at its line, with the properties that cover it.  Nothing here is
concurrent and nothing survives a crash: the kinds of hazard this code has are
long sequences of legal calls, stale state, ordering, boundaries of numbers,
and termination.

## 2. The modules

### The step scheduler

`StepManager` is `dla::StepManager`: `Schedule`, `InsertedSteps` and
`InvalidatedSteps` are variables, `addStep`, `reset` and the three phases of
`run` are actions.  The steps, what they depend on and what they invalidate
are constants.  `MCStepManager` gives them six of the real steps and the sets
that `DLAStep.h` declares for those.  `StepManagerProofs` proves for every set
of steps that a scheduled step finds its dependencies in effect.

### The type system

- `LayoutTypeGraph` has one operator per method of `LayoutTypeSystem`,
  as a function from the state before to the state after.  `Succ` and `Pred`
  are kept apart because the code keeps them apart: `fixPredSucc`, `removeNode`
  and `eraseEdge` update one, then walk it to update the other.
- `LayoutTypeSystem` is the object: one action per method, called in any
  order; `mergeNodes` takes one action per node of its list.
- `LayoutGraph` is what the users of the object rely on, without classes and
  with one set of links: every ID has an owner.
- `LayoutTypeSystemProofs` proves the invariants and the refinement.

### The Data Layout Analysis

- `DLAFrontend` maps a program, a sequence of the facts the front-end looks
  for, to a type system, one instruction at a time.
- `DLASteps` is the state all steps share: position in the schedule, place in
  the step, the variables of its current loop, and `failed`, the assertion that
  aborted the process, if one did.
- `CollapseSCC` (the three steps that collapse nodes, with
  `RemoveBackedges.cpp` and `SimplifyInstanceAtOffset0.cpp`) and `LayoutSizes`
  (five steps that are about sizes) are the steps, with one action per
  iteration of their outer loops.
- `DLANormalization` composes them: `Next` is the disjunction of the steps,
  and `Schedule`, a constant, says which step is enabled.  `NormalizationSteps`
  is the first half of the schedule of `DLAPass`.
- `CollapseSCCProofs` and `DLANormalizationProofs` prove that the graph stays
  consistent through all of them, and what the steps that collapse achieve;
  `LayoutSizesProofs` proves what the schedule makes of sizes, offsets and
  strides, and that it never aborts.
- `LayoutFields` (`CollapseSingleChild`, `DeduplicateFields`),
  `LayoutPointers` (`MergePointeesOfPointerUnion`, `MergePointerNodes`,
  `PushDownPointers`, `ResolveLeafUnions`), `LayoutAccesses`
  (`ArrangeAccessesHierarchically`, `ComputeNonInterferingComponents`) and
  `LayoutArrays` (`CompactCompatibleArrays`) are the steps of the optimization
  phase, again with one action per iteration of their outer loops.
  The first part of `LayoutArrays` is the arithmetic of putting two arrays
  together, without any state.
- `DLAOptimization` composes all steps of `DLAPass`, and states what the
  middle-end owes to the back-end.
- `MakeModelTypes` and `UpdateModelTypes` are the back-end: a type of the model
  for one node per action, then the pass over the pointers, then one function
  or one segment per action.  The first part of `MakeModelTypes` is what they
  use of the model of another repository, sizes and `verify()` included.  `PassFairSpec`, the
  specification of the whole pass, is there.
- `MCNormalization` and `MCOptimization` build sets of programs out of lists of
  facts and choose the schedule.

The steps meet in the graph only: one leaves it in a shape, the schedule says
which step relies on that shape later.  A node that a step merges away lives on
in its class, so that a property can ask where the scalars of a type are after
a step that has replaced most of its nodes (`scalarsKept`).

### Restructuring, from the graph to C

A function is, for each block, where its terminator may lead, with the labels
of a switch.  Everything from there to the statements of C is one behaviour of
`BeautySpec`, so that each property compares a stage with the function itself.

- `RegionGraph` is `RegionCFG<BasicBlockNode>` with its visits and dominators,
  `MetaRegions` the computation of the regions.
- `RestructureCFG` is the loop over the regions: the head is elected,
  retreating edges go to it, dispatchers and set nodes are added, the first
  iteration is outlined, the region collapses into a node.
- `Combing` (`markUnreachableAsInlined`, `weave`, `untangle`) and `Inflate`
  (`inflate`) prepare the graph of each region, `GenerateAst` covers it with
  tiles and normalizes the AST.
- `Ghast` is the AST the beautification sees and what it asks of it (side
  effects, equality, fall-through, weight).  `AstRewriting`, `AstLoops` and
  `DispatcherSwitches` are the passes; `Beautify` runs the nineteen of them in
  the order of `beautifyAST`, one action each.
- `VariableScopes` decides where local variables are declared,
  `DecompileFunction` is what `emitGHASTNode` writes, as an interpreter of the
  statements: a position is a stack of what is left to execute, with the state
  variable, the flag of each switch and the variables that hold their value.
- `RestructuredExecution` executes the graphs, `DecompiledExecution` the AST and
  the C, side by side with the function, and state that the same blocks are
  visited.  They know nothing of how a stage was reached.
- `MCRestructure` enumerates functions.

The passes read little of the code in the blocks: whether a condition has side
effects, whether it is a comparison, how many lines a block is worth, whether
the function returns a value.  These are constants of the model, any member of a
small set.  `Spec` stops where `restructureCFG` would collapse the last region,
`GenSpec` at the AST, `BeautySpec` at the C.

### Types as C

- `TypeDependencies` has what is computed from the model before anything is
  printed: the graph of declarations and definitions of `DependencyGraph.cpp`,
  the types that `collectInlinableTypes` finds used once, the types that
  `ImportFromCHelpers.h` leaves out of the header shown to who edits one.  A
  use of a type is the definition it refers to and the pointers and arrays
  around it; uses of primitive types are left out.
- `TypeHeader` prints: the post-order visits of `printTypeDefinitions`, one
  step of `llvm::post_order_ext` per action, and the definitions of structs,
  one field per action, because a field may hold the definition of its type.
  After the header come the bodies of functions with their stack frames in
  them; a pipe prints a single type instead.
- `CHeader` is what C11 asks of the text: what has to be complete and what has
  to be named before each use.  It knows nothing of the graph, so that it can
  disagree with it.  `MCTypeHeader` enumerates the models.
- `TypeHeaderProofs` proves type correctness, the order of the visit, and that
  what is printed is complete, without a definition inside itself, and has
  nothing twice.

Sets of nodes are `std::set`s of pointers, ordered by address: loops over them
take the nodes in any order.  Sets of edges are ordered by ID and tag: loops
over them take the edges in that order.

## 3. What the runs check

| run | checks | result |
|---|---|---|
| `step_manager` | the schedule respects dependencies; a run is never refused | holds |
| `layout_type_system` | consistency, one live node per class, bookkeeping of classes, refinement of `LayoutGraph` | holds |
| `normalization` | the graph is consistent in the middle of steps too; the assertions of every step; what collapses and cuts leaves no equality, no loop at offset 0, and no loop through a node a visit started from; sizes contain fields, strides stay valid, accessed bytes are kept, splitting arrays moves no byte | holds |
| `optimization` | the whole of `DLAPass`: the 32 steps of the middle-end and the back-end. Assertions of every step; instances are a DAG, unions have two fields, pointers to pointers end, all of which the back-end asserts; nodes contain their fields, fields of structs do not overlap, no field is left that lies within another; no step that rearranges moves a scalar; a type has the scalars of its node and no other, pointers end up patched, what is written in the model verifies, adds to what the user said, and is at the offset it was recovered at; the pass ends | holds |
| `restructure` | no assertion of `restructureCFG`, of the generation of the AST or of the beautification fails, but for three named ones; the graphs after each region, the AST, and the C execute the blocks the function does; a variable holds its value where it is read | holds, but for `KnownFaults` |
| `header_order` | whole headers with and without inlining, headers to edit a type, single types: each type after what C needs before it, once, none missing but those inlined in a circle | holds |
| `collapse` | no loop of instances through an edge at offset 0 is left, as `RemoveBackedges.cpp:382` says | violated |
| `array_of_itself` | the fixed point of `ArrangeAccessesHierarchically.cpp:412` is reached, for a field as large as the array element it contains | violated |
| `inlined_in_itself` | the printing of a type ends, and types used once are in their user, as `PTMLCTypeBuilder.h:27` says | violated |
| `left_out_return` | a return that is left out is last, as `BeautifyGHAST.cpp:1092` says | violated |
| `joined_ifs` | ifs that are joined are the nested ones, as `BeautifyGHAST.cpp:243` says | violated |
| `shared_state` | the state variable holds what the dispatcher that reads it is to read, `DecompileFunction.cpp:1832` | violated |

The violations are disagreements between the code and what its comments
and assertions say; `findings` in `PROJECT.json` quotes both sides.  Other
constants of the same instances show more of them, which `hazards` lists:

- `ValidOrder` is also violated with pointers to arrays or arrays of pointers
  among `Layers`, with `RawReturns = {2}`, and when types are inlined through
  pointers.
- Nodes of one SCC that have the same size, but not the largest, are not
  merged with each other (`CollapseSCC.cpp:90` says they are), and a loop made
  of instances at offsets other than 0 only survives the step that asserts
  there is none (`CollapseSCC.cpp:217`): no visit starts from its nodes.
- The back-end ignores the offset of a struct it puts within a struct of the
  model, cuts a union for all its users, and leaves elements of arrays of
  pointers `void *`; `SegmentsKeepOffsets`, `TypesAreTheLayouts` and
  `PointersArePatched` say where they stop.
- A node without a shortest path (`RestructureCFG.cpp:640`), a dummy whose copy
  keeps a backedge, an edge that is added twice when branches are inflated
  (1->{2,3}; 2,3,4->{4,5}; 5->3): assertions that fail on legal functions.
- `DeduplicateFields` looks at nodes after their destruction: what
  `collapseSingle` erases while two fields are merged stays in the lists of
  fields (`DeduplicateFields.cpp:490` explains why it may).  See the lists of
  nodes below.
- What `ResolveLeafUnions` removes depends on the addresses of nodes.
- `CompactCompatibleArrays` leaves overlapping arrays it could put together,
  if one grew after it passed the other.

Two steps walk lists of nodes that were made before the merges they do, and in
the model too those lists are made once and keep what is erased, so that to
look at an erased node is a failed assertion (`failed`).
`SimplifyInstanceAtOffset0` computes a post-order of all nodes and then merges
children into their parents: `NextNode` fails on a node that was merged away,
and no program, in the run or by `NormalizationNeverAborts`, leads to one.
`DeduplicateFields` takes out of its lists what `mergeNodes` erases, and fails
on a node it should have taken out; programs whose fields are merged, or
collapsed, while they wait to be compared are among those of `optimization`.
What `collapseSingle` erases the code leaves there: since the nodes come out of
an `llvm::BumpPtrAllocator` (`DLATypeSystem.h:393`) their memory is not used
again, and the model has it be what the code then finds, a node that no link
leads to.  With another allocator `wasErased` would have no exception, and
`NoAssertionFails` would be violated.

`KnownFaults` of `DecompiledExecution` are the ways in which the C is known to
go elsewhere than the function.  The run is a search for a seventh: each fault
is named after what happens in the execution, so that a new bug with another
effect is not hidden by it.

- *a return that is left out*: an implicit return makes its node empty for
  what precedes it, so that all the returns before the last one go.
- *a condition that is skipped*: a `continue` in a `do` loop jumps over the
  computation of the condition.
- *a state that is neither*: a dispatcher with two cases is promoted to an
  `if` on one of them, although the state may be a third value.
- *an uninitialized state*, *a stale state*: the set nodes of a case that only
  breaks go, and another dispatcher that reads them stays.
- *a value that is lost*: in a loop with several entries the declaration of a
  variable is inside the loop and the value does not survive the iteration.
  `ValuesAreKept` states the rest: nothing is lost in the functions whose
  loops have one entry.

`inverted` is set when ifs are joined with a condition of the wrong sign; after
that the C is another program, and `joined_ifs` shows it.

### Bounds

- `LayoutTypeSystem`: four IDs, two edges at a time, one node with a size,
  lists of up to three nodes to merge.  Merging or removing a node involves
  that node, the one it merges with, a common neighbour and a second class;
  four IDs have all of these.  The proofs lift the bound.
- `normalization`: 11 523 programs, 1 177 355 states.  The programs of three
  and four facts over five values and up to fourteen nodes with the facts of
  `MCFacts`, chosen so that no loop of instances at offsets other than 0 alone
  survives: on those the steps that follow `CollapseSCC.cpp:217` fail their
  assertions, as the code does.  And
  the programs of four facts (five from the list of loops) with loops of every
  kind; the smallest program with a loop through two bases, the case
  `RemoveBackedges.cpp` is written for, has four.  The theorems about the same
  properties lift the bound.
- `collapse`: the programs of nine facts out of eleven over eight values.  Two
  loops that share an edge, one of which is reached again after the visit has
  left it, need four nodes besides the root, hence nine facts: none of the
  programs of `normalization` is that large.
- `MCRestructure`: 3605 functions, 250 647 states: all those of three and four
  blocks with at most two successors each, up to renumbering; the acyclic ones
  of five; loops over three blocks that may all leave for a fifth, and two
  nested loops; functions that begin with a switch of three or four cases, and
  loops that begin with one.  Two regions that overlap, two entries, two exits,
  a nested dispatcher and an outlined first iteration all need at most five
  blocks; the function of `shared_state`, on which the shared state variable is
  overwritten, has seven, which is why `ExecutionIsPreserved`
  holds in `restructure` and is violated there.  The entries a region may be
  left with are taken in the order they were allocated, but for the first,
  which is any: it is the only one the election treats apart.  A block without
  successors is a return, or ends in a call that does not return; an
  `unreachable` always follows such a call.
- `MCOptimization`: 1496 programs, 459 705 states: 22 written for a step or for
  what two steps do to each other, 144 with two arrays, at several relative
  positions, with known and unknown trip counts and elements of two sizes, and
  a field in or after them, and the pairs and triples of twenty fragments,
  fields, arrays, pointers and phis, none of which closes a circle of pointers.
  Sets of all programs of a few facts, as in the runs above, reach the end of
  the schedule with nothing to do for these steps: two fields with a scalar
  each take six facts.  Each program goes on into the back-end with models that
  differ in what they know: the fields of the segment and of a struct in it,
  the size of the stack frame, a prototype that two functions share.
- `StepManager`: schedules of up to seven steps out of six; `DLAPass` never
  needs more than four steps to invalidate and restore a dependency.
- `MaxOffset` is the 0xFFFF of `addInstanceLink`, made small enough to be
  exceeded where the property is about it.
- `MCTypeHeader`: the models of three types and three uses, at most two in a
  type, with one function frame, that pass the model's own verification and
  that C can express in some order; two types where a violation needs no more.
  Only uses of these layers are in them (`MCSimpleLayers`): the type itself, a
  pointer to it, an array of it.  Pointers to arrays and arrays of pointers are
  not, nor raw functions that return several values (`RawReturns`), nor the
  inlining of types through pointers; on these `ValidOrder` is known to fail
  (section 3).  The models are connected, since types that have nothing to do
  with each other are printed as they would be apart, and at most one type has
  uses that are arrays, whose place in the order is that of a field.  The configurations are
  those of the pipelines: the default (`MCDefault`), type inlining with and
  without the inlining of stack frames (`MCInlining`), and the editing of each
  type (`MCEditing`).
  Two uses in one type are taken ordered by target.  A cycle through a pointer,
  a chain of three definitions, a type with two users and a type used once all
  fit; the proofs lift the bound for the properties that do not depend on C.
  `MaxNesting` bounds the definitions inside one another: three is as deep as
  three types go unless the printing does not end, which `inlined_in_itself`
  shows.  `header_order` allows four, so that a single type comes to be inside
  itself there too.

### Fairness

`optimization` and `array_of_itself` assume that the pass keeps running: a step
is a loop on the thread that called it and is never preempted for ever.
`KeepsRunning` says so in the form TLC evaluates fast on a relation with this
many actions: from some point on the schedule is over, or steps that change a
variable are taken again and again.  Every action but `Finished` changes a
variable, and deadlock is checked, so that it means the weak fairness of
`OptimizationNext`; the front-end has weak fairness of its own.  Nothing else
about the order of actions is assumed: which node a loop over a set of pointers
takes next may be any at every iteration.  The specifications of the
restructuring have the weak fairness of their next-state relation, since the
stages are called one after the other; their properties are invariants, which
do not depend on it.

`CHECK_DEADLOCK FALSE` is used for `LayoutTypeSystem`, whose callers may stop
when no ID or edge is left within the bounds, for the headers and for the
restructuring, which end; the steps of DLA have an explicit final stutter, so that a step that gets stuck is a
deadlock.

## 4. What is proved

`StepManagerProofs`, for any set of steps, dependencies and invalidations:
`TypeCorrect`, `ScheduleRespectsDependencies`, `BookkeepingMatchesSchedule` and
`NeverAborts`.
The invariant says that `InsertedSteps` and `InvalidatedSteps` are what one
gets by replaying the schedule; the guard of `addStep` then says what each step
found in effect.  The two sets have no step in common, and `intersect`, the
merge that `hasValidSchedule` runs on them as if they were sorted, finds
nothing in common in two such sequences whatever their order
(`DisjointDoNotIntersect`): by stopping at the first place where it would, a
least element of a set of naturals.

`LayoutTypeSystemProofs`, for any sets of IDs, offsets, sizes and any bounds:

- `Invariance`: `IndInv` is inductive.  Its parts need each other.  That a
  class has one live node needs the classes to be a partition and fresh IDs to
  be alone in theirs.  That `mergeNode` may be applied needs the nodes left to
  merge to be alive and different, hence `MergingLiveNodes`.  That the two
  copies of the edges stay equal needs them to be equal before, since
  `fixPredSucc` finds the edges of one copy by walking the other.
- `TypeCorrect`, `AlwaysConsistent`, `AlwaysOneNodePerClass`,
  `AlwaysSoundBookkeeping` follow from it.
- `Refinement`: under `IndInv`, each action maps to a step of `LayoutGraph` or
  to a stutter, with the owner of an ID the live node of its class and one of
  the two equal sets of edges as links.

`CollapseSCCProofs` and `DLANormalizationProofs`, for any set of programs, any
schedule of the steps, and any sizes, offsets and IDs:

- `GraphStaysConsistent`: the front-end and the steps, in the middle of a
  step too, keep the two copies of the edges equal, joining live nodes, and
  without self edges.  `WellFormed` is the invariant of a graph, with one lemma
  for each method; `IInv` adds what the loops of the collapsing steps hold: the
  components still to collapse and the nodes being merged or chained are alive
  and have no node in common (`Apart`), else a node could be merged that is
  gone.
- `CollapseIsComplete`: no equality edge is left by `CollapseEqualitySCC`, and
  no loop at offset 0 by `CollapseInstanceAtOffset0SCC`.  For the first, `IInv`
  says that equality stays symmetric and that its edges are within a component
  to collapse or go from a leader not chained yet to another (`LeftIn`); the
  symmetry is what puts both ends in one component, through
  `ReachableIsLeastClosed`.  For the second, `RankInv` says that a natural
  number can be given to each node that falls along every edge at offset 0,
  but for those `LeftIn` allows.  The number of nodes one reaches does it to
  begin with; a chain raises its leader above the next by doubling the ranks
  (`RaisedIsRank`); and a graph with a rank has no loop (`RankedIsAcyclic`).
- `VisitsCutRoots`: `VisitInv` says that the edges out of the nodes visited go
  to nodes visited, but for those still to be taken (`Pending`), and those that
  come back to the root are to be removed; when the stack is empty the nodes
  visited are a set that no edge leaves, and none of those left comes back to
  the root (`CutBy`).  The set keeps cutting the root when later visits remove
  more edges, and when strided edges become chains.  More is not true: see
  `collapse`.
- `VisitsNeverAbort`: `StackInv` says that each node on the stack but the last
  has taken the edge to the next, and that the backedges among those edges are
  `BackedgesOnStack`, in order, as a strictly increasing map from the places of
  one stack to those of the other.  So `Pop` finds the backedge it expects; and
  the edges to remove are in the graph, by `VisitInv`.

`LayoutSizesProofs`, for any set of programs, values, sizes, offsets, strides
and trip counts, with the natural numbers as IDs (`Node = Nat`: the code never
runs out of them):

- `DecompositionMovesNoByte`: whatever the schedule, each edge before
  `DecomposeStridedEdges` replaces one has an edge after it that starts where
  it did and spans as much.  `Measured` is the invariant: sizes are numbers,
  the edges are finitely many, and strides are positive.  The bytes spanned by
  the strides of an edge are a recursive function of the depth (`spans`); the
  edges of the chain have one stride each and nodes of the size of what they
  hold, so that the function of each is one step of the recursion
  (`SpansRecursion`, `DecomposedFields`).
- `FieldsAlwaysFit`, `StridesAreValidAtTheEnd` and `NormalizationNeverAborts`,
  for the schedule of `DLAPass` (`NormalizationSteps`), from one invariant,
  `SizesInv`, which follows the ten steps.  Up to the pruning a node that is
  `NonScalar` has a size, since arguments do and merging keeps the larger; so a
  node of size 0 is a scalar, and `mergeNodes` accepts every pair of nodes the
  steps collapse (`MergeIsAllowed`).  From the pruning on, the edges that are
  not pointers have no loop: there is always a next node whose children have
  been visited (`NextIsReady`), and the visits reach every node
  (`EveryNodeIsVisited`).  The pruning leaves each leaf a size (`PruneState`),
  so the sizes computed from the leaves up are positive and hold every field
  (`UpperState`).  Removing the edges whose strides are too small for what they
  repeat makes nodes smaller, never larger, so the fields of their parents
  still fit and the strides of the edges already checked stay valid
  (`StridesState`, `SpansGrow`); the second pruning takes nodes of size 0 and
  changes the size of no other; and computing the sizes again finds every node
  large enough already (`FinalSizes`), which is why one removal of strides is
  enough.  `SimplifyInstanceAtOffset0` never meets a node it has merged away:
  the post-order it computes once has children first (`FrontIsChildrenFirst`,
  from what a visit with a stack has done after each step,
  `PostOrderIsSound`), a merge with an only child or into an only parent keeps
  both the absence of loops (`MergeKeepsGrounded`) and that order
  (`MergeKeepsOrder`), and the child that is merged away is one the loop has
  already been through (`MergeChildKeepsOrder`).

These three have two hypotheses.  `ProgramsAreSized`: an `Arg` has a size, as
the pointee of an argument does where the code takes it from the model
(`DLACreateInterProceduralTypes.cpp:121` to 138), and as a segment does that is
not empty.  `[]LoopsAreGone`: when `SimplifyInstanceAtOffset0` starts, the
instances are a DAG, which is what the step before asserts as it ends
(`CollapseSCC.cpp:217`) and this one as it begins (`verifyInstanceDAG`, with
`VerifyLog` enabled).  It is a hypothesis because it is not always so: the step
before leaves a loop of instances at offsets other than 0 alone, and it may
leave one that it should have cut (run `collapse`).  `normalization` checks on all its programs the conjunct of
`Postconditions` that says it, so that there the hypotheses hold.

`TypeHeaderProofs`, for any number of types, set of models and options:

- `TypeCorrect`, where `TypeOK` is inductive on its own.
- `VisitIsInOrder`: what a node depends on has left the visit before it does,
  if the dependencies have no cycles.  The invariant `Visit` says that the
  stack is a path of the graph and that the successors a frame is done with
  are defined; a successor of the top that were still on the stack would close
  a cycle with the path (`NoSuccessorIsOnStack`).
- `HeaderIsAlwaysComplete`: whatever the cycles and the options, no type is
  missing when the visit ends.  Every root is defined, what is defined and not
  on the stack has been printed unless its definition is the outermost of those
  being printed (`FinishedIsPrinted`), and the stack is empty at the end.
- `HeadersDoNotRecur`: only the printing of a single type goes on without end.
  The definitions being printed are a path of uses along types that are inlined
  (`Nesting`), and an inlined type has one user and one place in it
  (`InlinedIsUsedOnce`).  If a type is in itself, so is then its user, and so on
  out to the first definition of the stack, which is not inlined, or is the
  type of a frame, whose only use is by the function and so in no field
  (`OutermostIsNoField`).
- `PrintsNothingTwice`: a declaration is printed when the visit leaves its
  node, which it does once (`OnceOnStack`).  A definition is printed when the
  visit leaves its node, when its user is, or in a function, and which of the
  three is settled by `inlined` and the frames (`Elsewhere`).  For those in
  their user, the invariant says in which state the user is: defined itself, or
  still open and past the field (`DefinedOnce`); one that could be printed again
  would be one of whose fields has not been reached.  Types that are in
  themselves are out of this argument, and `CirclesDoNotEnd` says why: the
  inner copy never ends.
- `DefinesEveryType`: a definition that has ended has all of its inlined fields
  defined (`FieldsAreDefined`), and at the end the frames are too
  (`FramesAreDefined`).  If a type is not, it is inlined and its only user is
  not defined either; the set of the types that are not is then closed under
  users, which is `isInlinedInACircle`.  A struct that nothing uses but an
  array of pointers to itself is such a circle: the definition depends on
  itself and counts as used once.

Two of these needed the model to say more.  `HeaderAssumption` says that types
are not inlined in the header shown to who edits a type, as
`ImportFromCAnalysis.cpp:150` has it: with types left out, one that is inlined
in them would be lost.  And `NothingIsPrintedTwice` excepts a single type that
is printed inside itself, as what it contains is printed each time.

The assumptions are those the modules declare: types are numbered, IDs are
natural numbers, a null node is none of them, sizes and bounds are natural
numbers.

Three recursive functions are reasoned about for every input, `reachable`,
`isAcyclic` and `spans`.  The theorems of induction of the library take an operator and
cannot be used; instead, the function is given by a formula without recursion
(the ends of the paths of k edges, as functions from 0..k), and a step at which
the two would differ is excluded through `LeastOf`, by which a nonempty set of
naturals has a least element.

Everything else is model-checked only.

- Liveness: the prover has no means.
- The modules of the restructuring, of the AST and of the back-end use
  recursive operators over graphs, trees and types, which it does not read.
- That the loops are gone when `SimplifyInstanceAtOffset0` is done: false for
  some programs, as said above.  Then `NoAssertionFails` is false too:
  `ComputeUpperMemberAccesses` asserts that each field it gets to in post-order
  already has a size, and a loop has a field without one.
- `Postconditions` has a part, that a pointer node has no other edge, which no
  step keeps by itself: whether it holds after two nodes are merged depends on
  which nodes the program makes equal.
- `AccessesFit` follows the size of an access through every merge of the node
  it was recorded on, by the classes of the graph.
- `DLAOptimization`: its steps take the graph apart and put it together again
  in ways that keep neither the sizes nor the offsets of one edge at a time,
  and the invariant of each step would be one of its own (see the plan).

## 5. What is not modelled

Whole components:

- *Stack handling, canonicalization, model GEP, initial model types, the edited
  types of the import from C, Clift*: they rewrite LLVM or MLIR instruction by
  instruction, with little state that outlives one; the algorithms among them
  that are worth a model are in the plan.
- *Printers of types and declarations, removal of lifting artifacts,
  pipelines*: formatting, independent rewritings of single instructions, and
  configuration.

Within the modelled ones:

- logging, metrics and dot printing; `GenericRegionInfo`, which feeds a drawing;
- the compression of the equivalence classes, which renumbers them; how scalar
  evolution decomposes an address (the facts of a program are its results);
  values that are structs in the front-end;
- in the back-end, the prototypes of indirect calls: the loop of
  `DLAUpdateModelTypes.cpp:719` goes over the blocks of a function and looks for
  calls among them, so that the code never updates one either;
- the prototypes and the segments that follow the types in a header, and the
  structs that wrap arrays given to and returned by functions;
- the text of expressions and of declarations in the C, the code of the blocks
  but for the variables it writes and reads, and the files it is written to.

Limits of what the properties say:

- `AccessesFit` is about programs without types from the model, whose nodes may
  be pruned.
- The programs of `MCOptimization` close no circle of pointers: for two values
  that point to each other and hold nothing else the last conjunct of
  `MiddleendPostconditions` is false, and the back-end does not end
  (`hazards`, `DLACollapseSingleChild.cpp:62`).
- The stack frames and the fields of segments are at least as large as a
  pointer: a recovered scalar that is larger than the frame fails the assertion
  at `DLAUpdateModelTypes.cpp:409`.
- `ExecutionIsPreserved` and `CodeIsTheFunction` hold on the functions of
  `MCRestructure` and not on all, as `shared_state` shows.

## 6. Plan

In this order, each with its runs, mutants and, where it says so, proofs:

1. Proofs about the steps: that two compatible arrays put together keep
   every element of both and that `CandidatesAgree`, for all offsets and
   strides; that the steps of the optimization, whose only access to the graph
   is by the methods of the type system, keep `Consistent`, with the lemmas of
   `CollapseSCCProofs`; `FieldsStillFit`, from the sizes the normalization is
   proved to leave; `AccessesFit`.
2. The prototypes and segments of the header.
3. Stack handling: the sizes of frames out of call sites, the attribution of
   accesses to frame, return address or argument.
4. Exit from SSA, operator precedence, the choice of model GEPs against an
   exhaustive search.
5. Import from C and the Clift types.
