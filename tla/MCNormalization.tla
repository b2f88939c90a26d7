---------------------------- MODULE MCNormalization ----------------------------
(* Small sets of programs for the front-end: the sub-sequences of a list of *)
(* instructions, in the order in which the front-end gets to them: the walk *)
(* over the functions first, then addresses and accesses.  Values 1, 3 and  *)
(* 5 are arguments, loads or phis; 2 and 4 are addresses computed from one  *)
(* of them, each from a single base.                                        *)
EXTENDS DLANormalization

MCNode == 0..13
MCValues == 1..5

Increasing(n, k) ==
  LET inc[j \in 0..k] ==
        IF j = 0 THEN {<< >>}
        ELSE {Append(p[1], p[2]) :
                p \in {q \in inc[j - 1] \X (1..n) : q[1] = << >> \/ Last(q[1]) < q[2]}}
  IN inc[k]

OneBaseEach(p) ==
  \A i, j \in DOMAIN p :
    p[i].op = "Base" /\ p[j].op = "Base" /\ p[i].other = p[j].other => i = j

Chosen(list, k) == {[i \in 1..k |-> list[s[i]]] : s \in Increasing(Len(list), k)}

Subprograms(facts, k) == {p \in Chosen(facts, k) : OneBaseEach(p)}

------------------------------------------------------------------------------
(* The normalization phase on programs of up to four instructions; MCFacts  *)
(* is chosen so that no loop of instances at offsets other than 0 arises.   *)
Strided(offset, stride, tripCount) ==
  OffsetExpression(offset, <<[Stride |-> stride, TripCount |-> tripCount]>>)
Matrix(outer, n, inner, m) ==
  OffsetExpression(4, <<[Stride |-> outer, TripCount |-> n], [Stride |-> inner, TripCount |-> m]>>)

MCFacts == <<
  Arg(1, 16, TRUE), Arg(1, 4, FALSE), Arg(3, 4, TRUE),
  Call(2, 5), Phi(2, 3), Phi(3, 1), Phi(5, 1), Literal(1, 2, 4, 2, 3), StackFrame(3),
  Same(1, 3), Same(2, 3), Same(3, 5),
  Base(1, 2, AtOffset(8)), Base(3, 4, Strided(0, 4, 3)), Base(3, 2, Matrix(16, 2, 8, 2)),
  Base(1, 4, Strided(0, 4, 0)),
  Access(1, 8, 3), Access(1, 4, 5), Access(2, 8, 3), Access(4, 8, 5), Access(4, 4, 5), Access(5, 8, 3)>>

(* Programs with loops of every kind: of equality, through offset 0 and     *)
(* through other offsets.                                                   *)
MCPhis == <<
  Arg(1, 16, TRUE), Arg(3, 8, TRUE), Arg(5, 8, FALSE),
  Call(2, 5), Phi(2, 3), Phi(4, 3), Phi(4, 1), Phi(1, 5), Phi(5, 1), Phi(1, 3),
  Same(1, 3), Same(1, 5), Same(3, 5), Same(2, 3),
  Base(1, 2, AtOffset(8)), Base(3, 4, AtOffset(8)), Base(3, 2, AtOffset(4)),
  Access(5, 8, 3)>>

MCLoops == <<
  Call(2, 5), Phi(2, 3), Phi(4, 3), Phi(4, 1), Phi(1, 5), Phi(5, 1), Phi(1, 3),
  Same(2, 3), Base(1, 2, AtOffset(8)), Base(3, 4, AtOffset(8))>>

MCPrograms ==
  UNION {Subprograms(MCFacts, 3), Subprograms(MCFacts, 4),
         Subprograms(MCPhis, 4), Subprograms(MCLoops, 5)}

------------------------------------------------------------------------------
(* Two loops with one edge at offset 0 in common: from value 2 to 3 and     *)
(* back, and from 2 to 6, to 3 and back.  The visit from 1 gets to 2 first, *)
(* closes the first loop, and leaves 3 before it gets there again from 6.   *)
MCCollapsing == <<"CollapseEqualitySCC", "CollapseInstanceAtOffset0SCC">>

MCTwoLoopsNode == 0..20
MCTwoLoopsValues == 1..8

MCTwoLoops == <<
  Base(1, 2, AtOffset(8)), Phi(3, 5), Base(2, 4, AtOffset(8)), Base(2, 6, AtOffset(16)),
  Base(6, 8, AtOffset(8)), Phi(1, 3), Same(3, 4), Same(3, 8), Same(5, 2), Phi(7, 1), Access(7, 8, 5)>>

MCMissedLoops == Subprograms(MCTwoLoops, 9)
=============================================================================
