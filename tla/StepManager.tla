----------------------------- MODULE StepManager -----------------------------
(****************************************************************************)
(* The scheduler of the Data Layout Analysis middle-end, dla::StepManager   *)
(* (lib/DataLayoutAnalysis/Middleend/DLAStep.{h,cpp}).                      *)
(*                                                                          *)
(* A step declares the steps it depends on and the steps it invalidates.    *)
(* addStep refuses a step one of whose dependencies is not in effect; run   *)
(* executes the accepted steps in the order of their acceptance.            *)
(*                                                                          *)
(* InsertedSteps and InvalidatedSteps are llvm::SmallPtrSets: they are sets *)
(* here, and the order in which an iteration enumerates them, which is the  *)
(* order of insertion up to 16 elements and a hash order beyond, is any     *)
(* order at all.                                                            *)
(****************************************************************************)
EXTENDS Naturals, Sequences, FiniteSets

CONSTANTS
  StepIDs,       \* the identities of the steps
  Dependencies,  \* Step::Dependencies, for each step
  Invalidated,   \* Step::Invalidated, for each step
  Rank,          \* the value of each step's address, what intersect compares
  MaxSchedule    \* bound on the length of the schedule

ASSUME StepsAssumption ==
  /\ IsFiniteSet(StepIDs)
  /\ Dependencies \in [StepIDs -> SUBSET StepIDs]
  /\ Invalidated \in [StepIDs -> SUBSET StepIDs]
  /\ MaxSchedule \in Nat

ASSUME RankAssumption ==
  /\ Rank \in [StepIDs -> Nat]
  /\ \A s, t \in StepIDs : Rank[s] = Rank[t] => s = t

VARIABLES
  Schedule,          \* the accepted steps, in order
  InsertedSteps,     \* the steps that are in effect
  InvalidatedSteps,  \* the steps that were in effect and were invalidated
  pc,                \* "building", "running", "done", or "aborted"
  executed           \* while running: how many steps of Schedule have run

vars == <<Schedule, InsertedSteps, InvalidatedSteps, pc, executed>>

Init ==
  /\ Schedule = << >>
  /\ InsertedSteps = {}
  /\ InvalidatedSteps = {}
  /\ pc = "building"
  /\ executed = 0

------------------------------------------------------------------------------
(* Mutant: a dependency that was never inserted is taken for a valid one.   *)
MutIsNotValid(d) == d \in InvalidatedSteps

(* IsNotValid, the lambda of addStep: a dependency nobody may rely on.      *)
IsNotValid(d) == d \in InvalidatedSteps \/ d \notin InsertedSteps

(* The two early returns of addStep, in the code's order, then acceptance.  *)
IsAccepted(s) ==
  /\ s \notin Dependencies[s]
  /\ \A d \in Dependencies[s] : ~IsNotValid(d)
  /\ s \notin Invalidated[s]

(* Mutant: the Invalidate lambda leaves the step in InsertedSteps.          *)
MutInsertedWith(s) == InsertedSteps \cup {s}

(* Mutant: InvalidatedSteps.erase(StepID) is forgotten.                     *)
MutInvalidatedWith(s) == InvalidatedSteps \cup (Invalidated[s] \cap InsertedSteps)

(* The two sets after s: a step is invalidated only if it is in effect, and *)
(* s is inserted, and un-invalidated, after that.                           *)
InsertedWith(s) == (InsertedSteps \ Invalidated[s]) \cup {s}

InvalidatedWith(s) ==
  (InvalidatedSteps \cup (Invalidated[s] \cap InsertedSteps)) \ {s}

(* addStep on a step it accepts.                                            *)
AddStep(s) ==
  /\ pc \in {"building", "done"}
  /\ Len(Schedule) < MaxSchedule
  /\ IsAccepted(s)
  /\ InsertedSteps' = InsertedWith(s)
  /\ InvalidatedSteps' = InvalidatedWith(s)
  /\ Schedule' = Append(Schedule, s)
  /\ pc' = "building"
  /\ UNCHANGED executed

(* reset drops the schedule and forgets what was inserted.                  *)
Reset ==
  /\ pc \in {"building", "done"}
  /\ Schedule' = << >>
  /\ InsertedSteps' = {}
  /\ InvalidatedSteps' = {}
  /\ pc' = "building"
  /\ executed' = 0

------------------------------------------------------------------------------
(* The orders in which a SmallPtrSet may enumerate the set S.               *)
Enumerations(S) ==
  {q \in [1..Cardinality(S) -> S] : \A i, j \in DOMAIN q : q[i] = q[j] => i = j}

(* The function template intersect: a merge-style walk of two ranges that   *)
(* is only right when both are sorted; the walk from position i of p and j  *)
(* of q, as a function of the two positions.                                *)
Intersect(p, q) ==
  LET n == Len(p)  m == Len(q)
      walk[ij \in (1..n+1) \X (1..m+1)] ==
        LET i == ij[1]  j == ij[2] IN
        IF i > n \/ j > m THEN FALSE
        ELSE IF Rank[p[i]] < Rank[q[j]] THEN walk[<<i + 1, j>>]
        ELSE IF Rank[q[j]] < Rank[p[i]] THEN walk[<<i, j + 1>>]
        ELSE TRUE
  IN walk[<<1, 1>>]

(* run aborts when hasValidSchedule is false, and starts the loop otherwise.*)
StartRun ==
  /\ pc \in {"building", "done"}
  /\ \E p \in Enumerations(InsertedSteps), q \in Enumerations(InvalidatedSteps) :
       pc' = IF Intersect(p, q) THEN "aborted" ELSE "running"
  /\ executed' = 0
  /\ UNCHANGED <<Schedule, InsertedSteps, InvalidatedSteps>>

(* Mutant: the loop runs past the end of the schedule.                      *)
MutRunStep ==
  /\ pc = "running"
  /\ executed <= Len(Schedule)
  /\ executed' = executed + 1
  /\ UNCHANGED <<Schedule, InsertedSteps, InvalidatedSteps, pc>>

(* One iteration of the loop of run, and the loop's exit.                   *)
RunStep ==
  /\ pc = "running"
  /\ executed < Len(Schedule)
  /\ executed' = executed + 1
  /\ UNCHANGED <<Schedule, InsertedSteps, InvalidatedSteps, pc>>

FinishRun ==
  /\ pc = "running"
  /\ executed = Len(Schedule)
  /\ pc' = "done"
  /\ UNCHANGED <<Schedule, InsertedSteps, InvalidatedSteps, executed>>

Next ==
  \/ \E s \in StepIDs : AddStep(s)
  \/ Reset
  \/ StartRun
  \/ RunStep
  \/ FinishRun

Spec == Init /\ [][Next]_vars

------------------------------------------------------------------------------
TypeOK ==
  /\ Schedule \in Seq(StepIDs)
  /\ InsertedSteps \in SUBSET StepIDs
  /\ InvalidatedSteps \in SUBSET StepIDs
  /\ pc \in {"building", "running", "done", "aborted"}
  /\ executed \in 0..Len(Schedule)

(* Step s, scheduled at j, is still in effect when the step at i is about   *)
(* to run: no step strictly between them invalidates it.                    *)
InEffectAt(s, i) ==
  \E j \in 1..(i - 1) :
    /\ Schedule[j] = s
    /\ \A k \in (j + 1)..(i - 1) : s \notin Invalidated[Schedule[k]]

(* What the scheduler is for: whichever steps were offered and in whatever  *)
(* order, each scheduled step finds every step it depends on executed       *)
(* before it and not invalidated since by any step in between.              *)
DependenciesInEffect ==
  \A i \in 1..Len(Schedule) :
    \A d \in Dependencies[Schedule[i]] : InEffectAt(d, i)

(* The bookkeeping agrees with the history: InsertedSteps is exactly the    *)
(* set of steps in effect at the end of the schedule, and InvalidatedSteps  *)
(* the scheduled ones that are not.                                         *)
InsertedIsInEffect ==
  /\ InsertedSteps = {s \in StepIDs : InEffectAt(s, Len(Schedule) + 1)}
  /\ InvalidatedSteps =
       {s \in StepIDs : /\ \E j \in 1..Len(Schedule) : Schedule[j] = s
                        /\ ~InEffectAt(s, Len(Schedule) + 1)}

(* revng_abort("Cannot run ...: invalid schedule") is never reached: a      *)
(* schedule addStep built is always runnable, although hasValidSchedule     *)
(* runs the sorted-range merge intersect on ranges that are not sorted.     *)
NeverAborted == pc # "aborted"
=============================================================================
