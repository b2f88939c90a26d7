--------------------------- MODULE MCRestructure ---------------------------
(* The decompilation of all the functions of four blocks without switches,   *)
(* of the acyclic ones of five, of loops of five blocks with several exits,   *)
(* and of functions that begin with a switch.                                 *)
EXTENDS DecompiledExecution
LOCAL INSTANCE SequencesExt
LOCAL INSTANCE FiniteSetsExt

(* Functions: for each block, where its terminator may go, and the labels of  *)
(* a switch for it.                                                           *)
Jump(y) == [to |-> y, labels |-> {}]
To(ys) == [i \in DOMAIN ys |-> Jump(ys[i])]
Jumps(f) == [b \in DOMAIN f |-> To(f[b])]

(* The blocks numbered as a breadth first visit finds them. *)
RECURSIVE Discovered(_, _)
Discovered(f, found) ==
  LET next == {k \in DOMAIN found : \E i \in DOMAIN f[found[k]] : f[found[k]][i] \notin Range(found)}
      b == found[Min(next)]
  IN  IF next = {} THEN found
      ELSE Discovered(f, Append(found, f[b][Min({i \in DOMAIN f[b] : f[b][i] \notin Range(found)})]))

(* The terminators of a block: no successor, one or two of T. *)
Ways(T) == {<< >>} \cup {<<x>> : x \in T}
           \cup {w \in T \X T : w[1] # w[2]}

Numbered(n, fs) == {f \in fs : Discovered(f, <<1>>) = [i \in 1..n |-> i]}
AllOf(n) == Numbered(n, [1..n -> Ways(2..n)])

(* The ways of the blocks from b on to go forward only. *)
Forward(b, n) ==
  LET from[k \in b..n+1] ==
        IF k = n + 1 THEN {<< >>}
        ELSE {<<w>> \o t : w \in Ways(k+1..n), t \in from[k + 1]}
  IN  from[b]
Acyclic(n) == Numbered(n, Forward(1, n))

(* The first block is a switch on all the others, the rest is any. *)
WithSwitch(labels, rest) ==
  LET n == Len(labels)
  IN  {[b \in 1..n+1 |-> IF b = 1 THEN [i \in 1..n |-> [to |-> i + 1, labels |-> labels[i]]]
                         ELSE To(t[b - 1])] : t \in rest}

AtMostOneBranch(n) ==
  {t \in [1..n -> Ways(2..n+1)] : Cardinality({b \in 1..n : Len(t[b]) = 2}) <= 1}

---------------------------------------------------------------------------
MCThreeCases == WithSwitch(<<{}, {1}, {2}>>, AtMostOneBranch(3))
MCFourCases == WithSwitch(<<{}, {1}, {2, 4}, {3}>>, Forward(2, 5))

(* The blocks 2, 3 and 4 may loop, and leave the loop for 5. *)
MCExits ==
  Numbered(5, {f \in [1..5 -> Ways(2..5)] :
                 /\ f[1] = <<2>> /\ f[5] = << >>
                 /\ Len(f[2]) = 2 /\ \A b \in 2..4 : f[b] # << >>})

(* A loop that begins with a switch. *)
MCSwitchInLoop ==
  {<<To(<<2>>), <<[to |-> 3, labels |-> {}], [to |-> 4, labels |-> {0}], [to |-> 5, labels |-> {1}]>>,
     To(t[1]), To(t[2]), << >> >> : t \in [1..2 -> Ways(2..5)]}

(* An inner loop whose exit is dispatched again in the next iteration. *)
MCTwoLoops == << <<2, 3>>, <<2, 4>>, <<2, 4>>, <<5, 3>>, <<2>> >>

MCFunctions ==
  {Jumps(f) : f \in AllOf(3) \cup AllOf(4) \cup Acyclic(5) \cup MCExits \cup {MCTwoLoops}}
  \cup MCThreeCases \cup MCFourCases \cup MCSwitchInLoop

(* Few functions, on which some property fails. *)
MCSmallFunctions == {Jumps(f) : f \in AllOf(3)}
MCNestedIfs == {Jumps(<< <<2, 3>>, <<4, 5>>, <<4, 5>>, << >>, << >> >>),
                Jumps(<< <<2, 3>>, << >>, <<2, 4>>, << >> >>)}
MCSharedState ==
  {Jumps(<< <<2>>, <<5, 3>>, <<6, 4>>, <<7, 2>>, <<5, 6>>, <<5>>, <<6, 7>> >>)}

MCWeights(f) == {[b \in DOMAIN f |-> 1]}

(* What the code of the blocks may be: for the small functions, any one        *)
(* comparison; for the others, a different one in each block.                   *)
MCComparisons == {"NE", "EQ", "boolean_not", "other"}
MCMixed(f) == [b \in DOMAIN f |-> CASE b % 4 = 0 -> "NE" [] b % 4 = 1 -> "EQ"
                                    [] b % 4 = 2 -> "boolean_not" [] b % 4 = 3 -> "other"]
MCCodes(f) ==
  IF Len(f) <= 3
  THEN [pure : {{}, DOMAIN f}, isVoid : BOOLEAN,
        comparison : {[b \in DOMAIN f |-> c] : c \in MCComparisons}]
  ELSE [pure : IF Len(f) = 4 THEN {{}, DOMAIN f} ELSE {DOMAIN f}, isVoid : {TRUE},
        comparison : {MCMixed(f)}]
=============================================================================
