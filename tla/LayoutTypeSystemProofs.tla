------------------------ MODULE LayoutTypeSystemProofs ------------------------
(****************************************************************************)
(* Proofs about LayoutTypeSystem, for any number of nodes: its invariants,  *)
(* and that it implements LayoutGraph.                                      *)
(****************************************************************************)
EXTENDS LayoutTypeSystem, TLAPS

USE LayoutAssumption

(* A type system whose edges are S, both ways.                              *)
WithEdges(sys, S) == [sys EXCEPT !.Succ = S, !.Pred = S]

(* The sets of edges a consistent type system may have.                     *)
ProperEdges(sys) ==
  {e \in Link : e.src \in sys.Layouts /\ e.tgt \in sys.Layouts /\ e.src # e.tgt}

LEMMA ConsistentEdges ==
  ASSUME TypeOK, Consistent
  PROVE  ts.Succ = ts.Pred /\ ts.Succ \subseteq ProperEdges(ts)
BY DEF TypeOK, TypeSystem, Consistent, edgesAreMirrored, edgesJoinLiveNodes,
       noSelfEdges, ProperEdges

(* An operation that only changes edges, into others between live nodes,    *)
(* keeps the invariant.                                                     *)
LEMMA EdgeChange ==
  ASSUME IndInv, NEW S \in SUBSET ProperEdges(ts),
         ts' = WithEdges(ts, S), merging' = merging
  PROVE  IndInv'
<1>1. ts' \in TypeSystem
  BY DEF IndInv, TypeOK, TypeSystem, WithEdges, ProperEdges
<1>2. /\ ts'.Succ = S /\ ts'.Pred = S
      /\ ts'.NID = ts.NID /\ ts'.Layouts = ts.Layouts
      /\ ts'.Class = ts.Class /\ ts'.RemovedID = ts.RemovedID
  BY DEF IndInv, TypeOK, TypeSystem, WithEdges
<1>3. Consistent'
  BY <1>2 DEF Consistent, edgesAreMirrored, edgesJoinLiveNodes, noSelfEdges, ProperEdges
<1>4. OneNodePerClass' /\ FreshIDs' /\ ClassesAreAPartition' /\ MergingLiveNodes'
  BY <1>2 DEF IndInv, OneNodePerClass, SoundBookkeeping, FreshIDs, ClassesAreAPartition,
              MergingLiveNodes, isRemoved
<1> QED  BY <1>1, <1>3, <1>4 DEF IndInv, TypeOK, SoundBookkeeping

LEMMA AddLinkEdges ==
  ASSUME NEW sys \in TypeSystem, NEW s \in sys.Layouts, NEW t \in sys.Layouts, NEW g \in Tag,
         sys.Succ = sys.Pred, sys.Succ \subseteq ProperEdges(sys)
  PROVE  \E S \in SUBSET ProperEdges(sys) :
           /\ addLink(sys, s, t, g) = WithEdges(sys, S)
           /\ s = t => S = sys.Succ
           /\ s # t => S = sys.Succ \cup {Edge(s, t, g)}
<1> s \in Node /\ t \in Node
  BY DEF TypeSystem
<1>1. CASE s = t
  <2>1. addLink(sys, s, t, g) = WithEdges(sys, sys.Succ)
    BY <1>1 DEF addLink, WithEdges, TypeSystem
  <2> QED  BY <1>1, <2>1
<1>2. CASE s # t
  <2> DEFINE S == sys.Succ \cup {Edge(s, t, g)}
  <2>1. Edge(s, t, g) \in ProperEdges(sys)
    BY <1>2 DEF Edge, Link, ProperEdges
  <2>2. addLink(sys, s, t, g) = WithEdges(sys, S)
    BY <1>2 DEF addLink, WithEdges, TypeSystem
  <2> QED  BY <1>2, <2>1, <2>2
<1> QED  BY <1>1, <1>2

------------------------------------------------------------------------------
(* fixPredSucc walks the neighbours of From and updates each of the two     *)
(* copies of their edges on its own: the two end up equal, and are the      *)
(* edges of the graph where From has been identified with Into.             *)
LEMMA FixPredSuccIsQuotient ==
  ASSUME NEW sys \in TypeSystem, NEW from \in sys.Layouts, NEW into \in sys.Layouts,
         from # into, sys.Succ = sys.Pred, sys.Succ \subseteq ProperEdges(sys)
  PROVE  /\ fixPredSucc(sys, from, into) = WithEdges(sys, Graph!quotient(sys.Succ, into, from))
         /\ Graph!quotient(sys.Succ, into, from) \subseteq ProperEdges(sys)
         /\ \A e \in Graph!quotient(sys.Succ, into, from) : from \notin {e.src, e.tgt}
<1> DEFINE E == sys.Succ
           Q == Graph!quotient(E, into, from)
           toInto(e) == [e EXCEPT !.tgt = into]
           fromInto(e) == [e EXCEPT !.src = into]
<1> from \in Node /\ into \in Node
  BY DEF TypeSystem
<1>1. \A e \in Link : /\ toInto(e) \in Link /\ toInto(e).src = e.src /\ toInto(e).tgt = into
                      /\ fromInto(e) \in Link /\ fromInto(e).tgt = e.tgt /\ fromInto(e).src = into
  BY DEF Link
<1>2. \A e \in Link : Graph!renamed(e, into, from) =
        IF e.src = from THEN IF e.tgt = from THEN toInto(fromInto(e)) ELSE fromInto(e)
        ELSE IF e.tgt = from THEN toInto(e) ELSE e
  BY DEF Link, Graph!renamed
<1>3. \A e \in E : e \in Link /\ e.src \in sys.Layouts /\ e.tgt \in sys.Layouts /\ e.src # e.tgt
  BY DEF ProperEdges
<1> DEFINE Renamed == {Graph!renamed(e, into, from) : e \in E}
<1>4. Q = {e \in Renamed : e.src # e.tgt}
  BY DEF Graph!quotient
<1>5. redirectedSuccs(sys, from, into) = {IF e.tgt = from THEN toInto(e) ELSE e : e \in E}
  BY DEF redirectedSuccs
<1>6. redirectedPreds(sys, from, into) = {IF e.src = from THEN fromInto(e) ELSE e : e \in E}
  BY DEF redirectedPreds
<1> DEFINE Untouched == {e \in E : e.src # from /\ e.tgt # from}
           Incoming == {toInto(e) : e \in {d \in E : d.tgt = from /\ d.src # into}}
           Outgoing == {fromInto(e) : e \in {d \in E : d.src = from /\ d.tgt # into}}
           NewEdges == Untouched \cup Incoming \cup Outgoing
<1>7. Q = NewEdges
  <2>1. ASSUME NEW q \in Q PROVE q \in NewEdges
    <3>1. PICK e \in E : q = Graph!renamed(e, into, from) /\ q.src # q.tgt
      BY <1>4
    <3>2. e \in Link /\ e.src # e.tgt
      BY <1>3
    <3>3. CASE e.src = from
      <4>1. q = fromInto(e) /\ e.tgt # into
        BY <3>1, <3>2, <3>3, <1>1, <1>2
      <4> QED  BY <4>1, <3>3
    <3>4. CASE e.tgt = from
      <4>1. q = toInto(e) /\ e.src # into
        BY <3>1, <3>2, <3>4, <1>1, <1>2
      <4> QED  BY <4>1, <3>4
    <3>5. CASE e.src # from /\ e.tgt # from
      <4>1. q = e
        BY <3>1, <3>2, <3>5, <1>2
      <4> QED  BY <4>1, <3>5
    <3> QED  BY <3>3, <3>4, <3>5
  <2>2. ASSUME NEW q \in NewEdges PROVE q \in Q
    <3>1. CASE q \in Untouched
      BY <3>1, <1>2, <1>3, <1>4
    <3>2. CASE q \in Incoming
      <4>1. PICK e \in E : e.tgt = from /\ e.src # into /\ q = toInto(e)
        BY <3>2
      <4>2. q = Graph!renamed(e, into, from) /\ q.src # q.tgt
        BY <4>1, <1>1, <1>2, <1>3
      <4> QED  BY <4>2, <1>4
    <3>3. CASE q \in Outgoing
      <4>1. PICK e \in E : e.src = from /\ e.tgt # into /\ q = fromInto(e)
        BY <3>3
      <4>2. q = Graph!renamed(e, into, from) /\ q.src # q.tgt
        BY <4>1, <1>1, <1>2, <1>3
      <4> QED  BY <4>2, <1>4
    <3> QED  BY <3>1, <3>2, <3>3
  <2> QED  BY <2>1, <2>2
<1>8. Q \subseteq ProperEdges(sys) /\ \A e \in Q : from \notin {e.src, e.tgt}
  <2> DEFINE Proper(e) == /\ e \in Link /\ e.src # e.tgt
                          /\ e.src \in sys.Layouts \ {from} /\ e.tgt \in sys.Layouts \ {from}
  <2>1. \A e \in Untouched : Proper(e)
    BY <1>3
  <2>2. \A e \in Incoming : Proper(e)
    <3> SUFFICES ASSUME NEW e \in E, e.tgt = from, e.src # into PROVE Proper(toInto(e))
      OBVIOUS
    <3> QED  BY <1>1, <1>3
  <2>3. \A e \in Outgoing : Proper(e)
    <3> SUFFICES ASSUME NEW e \in E, e.src = from, e.tgt # into PROVE Proper(fromInto(e))
      OBVIOUS
    <3> QED  BY <1>1, <1>3
  <2> QED  BY <2>1, <2>2, <2>3, <1>7 DEF ProperEdges
<1> DEFINE succs == redirectedSuccs(sys, from, into)
           allSuccs == succs \cup {fromInto(e) : e \in {d \in succs : d.src = from}}
           newSuccs == {e \in allSuccs : e.src # from /\ ~(e.src = into /\ e.tgt \in {from, into})}
<1>9. newSuccs = NewEdges
  <2>1. ASSUME NEW q \in newSuccs PROVE q \in NewEdges
    <3>1. CASE q \in succs
      <4>1. PICK e \in E : q = IF e.tgt = from THEN toInto(e) ELSE e
        BY <3>1, <1>5
      <4> QED  BY <4>1, <1>1, <1>3
    <3>2. CASE q \notin succs
      <4>1. PICK d \in succs : d.src = from /\ q = fromInto(d)
        BY <3>2
      <4>2. PICK e \in E : d = IF e.tgt = from THEN toInto(e) ELSE e
        BY <4>1, <1>5
      <4>3. e \in Link /\ e.src # e.tgt
        BY <1>3
      <4>4. e.tgt # from
        BY <4>1, <4>2, <4>3, <1>1
      <4>5. e.src = from /\ q = fromInto(e)
        BY <4>1, <4>2, <4>4
      <4>6. q.src = into /\ q.tgt = e.tgt
        BY <4>3, <4>5, <1>1
      <4>7. e.tgt # into
        BY <4>6
      <4> QED  BY <4>5, <4>7
    <3> QED  BY <3>1, <3>2
  <2>2. ASSUME NEW q \in NewEdges PROVE q \in newSuccs
    <3>1. CASE q \in Untouched
      BY <3>1, <1>3, <1>5
    <3>2. CASE q \in Incoming
      <4>1. PICK e \in E : e.tgt = from /\ e.src # into /\ q = toInto(e)
        BY <3>2
      <4> QED  BY <4>1, <1>1, <1>3, <1>5
    <3>3. CASE q \in Outgoing
      <4>1. PICK e \in E : e.src = from /\ e.tgt # into /\ q = fromInto(e)
        BY <3>3
      <4>2. e \in succs
        BY <4>1, <1>3, <1>5
      <4> QED  BY <4>1, <4>2, <1>1, <1>3
    <3> QED  BY <3>1, <3>2, <3>3
  <2> QED  BY <2>1, <2>2
<1> DEFINE preds == redirectedPreds(sys, from, into)
           allPreds == preds \cup {toInto(e) : e \in {d \in preds : d.tgt = from}}
           newPreds == {e \in allPreds : e.tgt # from /\ ~(e.tgt = into /\ e.src \in {from, into})}
<1>10. newPreds = NewEdges
  <2>1. ASSUME NEW q \in newPreds PROVE q \in NewEdges
    <3>1. CASE q \in preds
      <4>1. PICK e \in E : q = IF e.src = from THEN fromInto(e) ELSE e
        BY <3>1, <1>6
      <4> QED  BY <4>1, <1>1, <1>3
    <3>2. CASE q \notin preds
      <4>1. PICK d \in preds : d.tgt = from /\ q = toInto(d)
        BY <3>2
      <4>2. PICK e \in E : d = IF e.src = from THEN fromInto(e) ELSE e
        BY <4>1, <1>6
      <4>3. e \in Link /\ e.src # e.tgt
        BY <1>3
      <4>4. e.src # from
        BY <4>1, <4>2, <4>3, <1>1
      <4>5. e.tgt = from /\ q = toInto(e)
        BY <4>1, <4>2, <4>4
      <4>6. q.tgt = into /\ q.src = e.src
        BY <4>3, <4>5, <1>1
      <4>7. e.src # into
        BY <4>6
      <4> QED  BY <4>5, <4>7
    <3> QED  BY <3>1, <3>2
  <2>2. ASSUME NEW q \in NewEdges PROVE q \in newPreds
    <3>1. CASE q \in Untouched
      BY <3>1, <1>3, <1>6
    <3>2. CASE q \in Incoming
      <4>1. PICK e \in E : e.tgt = from /\ e.src # into /\ q = toInto(e)
        BY <3>2
      <4>2. e \in preds
        BY <4>1, <1>3, <1>6
      <4> QED  BY <4>1, <4>2, <1>1, <1>3
    <3>3. CASE q \in Outgoing
      <4>1. PICK e \in E : e.src = from /\ e.tgt # into /\ q = fromInto(e)
        BY <3>3
      <4> QED  BY <4>1, <1>1, <1>3, <1>6
    <3> QED  BY <3>1, <3>2, <3>3
  <2> QED  BY <2>1, <2>2
<1>11. fixPredSucc(sys, from, into) = [sys EXCEPT !.Pred = newPreds, !.Succ = newSuccs]
  BY DEF fixPredSucc
<1>12. fixPredSucc(sys, from, into) = WithEdges(sys, Q)
  <2>1. newPreds = Q /\ newSuccs = Q
    BY <1>7, <1>9, <1>10
  <2> HIDE DEF newPreds, newSuccs, Q
  <2> QED  BY <2>1, <1>11 DEF WithEdges, TypeSystem
<1> QED  BY <1>8, <1>12

(* removeNode walks the neighbours of n: no copy of an edge of n is left.   *)
LEMMA RemoveNodeFields ==
  ASSUME TypeOK, Consistent, NEW n \in ts.Layouts
  PROVE  LET new == removeNode(ts, n) IN
         /\ new \in TypeSystem
         /\ new.NID = ts.NID /\ new.Layouts = ts.Layouts \ {n}
         /\ new.Succ = {e \in ts.Succ : n \notin {e.src, e.tgt}} /\ new.Pred = new.Succ
         /\ new.Class = removeClass(ts, n).Class /\ new.RemovedID = removeClass(ts, n).RemovedID
<1> DEFINE r == removeClass(ts, n)
           d == destroyed(r, n)
<1> n \in Node
  BY DEF TypeOK, TypeSystem
<1>1. /\ r \in TypeSystem /\ r.NID = ts.NID /\ r.Layouts = ts.Layouts
      /\ r.Succ = ts.Succ /\ r.Pred = ts.Pred
  <2>1. joined(ts.Class, n, ts.RemovedID) \in [Node -> SUBSET Node] \/ ts.RemovedID = NoNode
    BY DEF joined, TypeOK, TypeSystem
  <2> QED  BY <2>1 DEF removeClass, TypeOK, TypeSystem
<1> HIDE DEF r
<1>2. /\ d \in TypeSystem /\ d.NID = r.NID /\ d.Layouts = r.Layouts \ {n}
      /\ d.Succ = r.Succ /\ d.Pred = r.Pred
      /\ d.Class = r.Class /\ d.RemovedID = r.RemovedID
  BY <1>1 DEF destroyed, TypeSystem, InterferingChildrenInfo
<1> HIDE DEF d
<1> DEFINE E == ts.Succ
           newPred == {e \in d.Pred : /\ ~(e.src = n /\ \E f \in E : f.src = n /\ f.tgt = e.tgt)
                                      /\ e.tgt # n}
           newSucc == {e \in d.Succ : /\ ~(e.tgt = n /\ \E p \in ts.Pred : p.tgt = n /\ p.src = e.src)
                                      /\ e.src # n}
           left == {e \in E : n \notin {e.src, e.tgt}}
<1>3. newPred = left /\ newSucc = left
  BY <1>1, <1>2, ConsistentEdges
<1>4. removeNode(ts, n) = [d EXCEPT !.Pred = newPred, !.Succ = newSucc]
  BY DEF removeNode, d, r
<1>5. left \in SUBSET Link
  BY <1>1, <1>2 DEF TypeSystem
<1> HIDE DEF newPred, newSucc, left
<1>6. /\ removeNode(ts, n) \in TypeSystem
      /\ removeNode(ts, n).NID = d.NID /\ removeNode(ts, n).Layouts = d.Layouts
      /\ removeNode(ts, n).Succ = left /\ removeNode(ts, n).Pred = left
      /\ removeNode(ts, n).Class = d.Class /\ removeNode(ts, n).RemovedID = d.RemovedID
  BY <1>2, <1>3, <1>4, <1>5 DEF TypeSystem
<1> QED  BY <1>1, <1>2, <1>6 DEF left, r

LEMMA MergeNodeFields ==
  ASSUME TypeOK, Consistent, NEW into \in ts.Layouts, NEW from \in ts.Layouts, into # from
  PROVE  LET new == mergeNode(ts, into, from) IN
         /\ new \in TypeSystem
         /\ new.NID = ts.NID /\ new.Layouts = ts.Layouts \ {from}
         /\ new.Succ = Graph!quotient(ts.Succ, into, from) /\ new.Pred = new.Succ
         /\ new.Class = joined(ts.Class, into, from) /\ new.RemovedID = ts.RemovedID
<1> DEFINE Q == Graph!quotient(ts.Succ, into, from)
           f == fixPredSucc(ts, from, into)
           d == destroyed(f, from)
<1> into \in Node /\ from \in Node
  BY DEF TypeOK, TypeSystem
<1>1. f = WithEdges(ts, Q) /\ Q \subseteq ProperEdges(ts)
  BY ConsistentEdges, FixPredSuccIsQuotient DEF TypeOK
<1>2. Q \in SUBSET Link
  BY <1>1 DEF ProperEdges
<1> HIDE DEF f, Q
<1>3. /\ f \in TypeSystem /\ f.NID = ts.NID /\ f.Layouts = ts.Layouts
      /\ f.Succ = Q /\ f.Pred = Q /\ f.Class = ts.Class /\ f.RemovedID = ts.RemovedID
  BY <1>1, <1>2 DEF WithEdges, TypeOK, TypeSystem
<1>4. /\ d \in TypeSystem /\ d.NID = f.NID /\ d.Layouts = f.Layouts \ {from}
      /\ d.Succ = f.Succ /\ d.Pred = f.Pred
      /\ d.Class = f.Class /\ d.RemovedID = f.RemovedID
  BY <1>3 DEF destroyed, TypeSystem, InterferingChildrenInfo
<1>5. mergeNode(ts, into, from) =
        [d EXCEPT !.Info[into] = "Unknown",
                  !.Size[into] = mergedSize(ts, into, from),
                  !.NonScalar[into] = @ \/ ts.NonScalar[from],
                  !.Class = joined(@, into, from)]
  BY DEF mergeNode, d, f
<1>6. joined(d.Class, into, from) \in [Node -> SUBSET Node] /\ mergedSize(ts, into, from) \in Nat
  BY <1>4 DEF joined, mergedSize, TypeOK, TypeSystem
<1> HIDE DEF d
<1> DEFINE infos == [d.Info EXCEPT ![into] = "Unknown"]
           sizes == [d.Size EXCEPT ![into] = mergedSize(ts, into, from)]
           nonScalars == [d.NonScalar EXCEPT ![into] = @ \/ ts.NonScalar[from]]
           class == joined(d.Class, into, from)
<1>7. infos \in [Node -> InterferingChildrenInfo] /\ sizes \in [Node -> Nat]
  BY <1>4, <1>6 DEF TypeSystem, InterferingChildrenInfo
<1>8. nonScalars \in [Node -> BOOLEAN]
  BY <1>4 DEF TypeSystem
<1>9. mergeNode(ts, into, from) =
        [d EXCEPT !.Info = infos, !.Size = sizes, !.NonScalar = nonScalars, !.Class = class]
  BY <1>4, <1>5 DEF TypeSystem
<1>10. class \in [Node -> SUBSET Node]
  BY <1>6
<1> HIDE DEF infos, sizes, nonScalars, class
<1>11. LET new == mergeNode(ts, into, from) IN
       /\ new \in TypeSystem
       /\ new.NID = d.NID /\ new.Layouts = d.Layouts
       /\ new.Succ = d.Succ /\ new.Pred = d.Pred
       /\ new.Class = class /\ new.RemovedID = d.RemovedID
  BY <1>4, <1>7, <1>8, <1>9, <1>10 DEF TypeSystem
<1> QED  BY <1>3, <1>4, <1>11 DEF class, Q

------------------------------------------------------------------------------
(* Joining two classes of a partition leaves a partition.                   *)
IsPartition(class) ==
  /\ \A n \in Node : n \in class[n]
  /\ \A m, n \in Node : m \in class[n] => class[m] = class[n]

LEMMA JoinedIsPartition ==
  ASSUME NEW class \in [Node -> SUBSET Node], IsPartition(class), NEW a \in Node, NEW b \in Node
  PROVE  LET both == class[a] \cup class[b] IN
         /\ joined(class, a, b) \in [Node -> SUBSET Node]
         /\ IsPartition(joined(class, a, b))
         /\ \A n \in both : joined(class, a, b)[n] = both
         /\ \A n \in Node \ both : joined(class, a, b)[n] = class[n] /\ class[n] \cap both = {}
<1> DEFINE both == class[a] \cup class[b]
           J == joined(class, a, b)
<1>1. both \subseteq Node
  OBVIOUS
<1>2. J = [n \in Node |-> IF n \in both THEN both ELSE class[n]]
  BY DEF joined
<1>3. \A n \in Node : n \notin both => class[n] \cap both = {}
  <2> SUFFICES ASSUME NEW n \in Node, NEW x \in class[n], x \in both PROVE n \in both
    OBVIOUS
  <2>1. x \in Node /\ class[x] = class[n] /\ n \in class[n]
    BY DEF IsPartition
  <2>2. class[x] = class[a] \/ class[x] = class[b]
    BY <2>1 DEF IsPartition
  <2> QED  BY <2>1, <2>2
<1> HIDE DEF both, J
<1>4. J \in [Node -> SUBSET Node]
  BY <1>1, <1>2
<1>5. IsPartition(J)
  BY <1>1, <1>2, <1>3 DEF IsPartition
<1> QED  BY <1>1, <1>2, <1>3, <1>4, <1>5 DEF both, J

(* What a merge does to the invariant, except for what is left to merge.    *)
LEMMA MergeKeepsInvariant ==
  ASSUME IndInv, NEW into \in ts.Layouts, NEW from \in ts.Layouts, into # from,
         ts' = mergeNode(ts, into, from)
  PROVE  /\ (ts \in TypeSystem)' /\ Consistent' /\ OneNodePerClass'
         /\ FreshIDs' /\ ClassesAreAPartition'
         /\ \A n \in Node : isRemoved(ts', n) <=> isRemoved(ts, n)
         /\ LET both == ts.Class[into] \cup ts.Class[from] IN
            \A n \in Node : ts'.Class[n] = IF n \in both THEN both ELSE ts.Class[n]
<1> USE DEF IndInv
<1> DEFINE both == ts.Class[into] \cup ts.Class[from]
           Q == Graph!quotient(ts.Succ, into, from)
<1>1. /\ ts' \in TypeSystem /\ ts'.NID = ts.NID /\ ts'.Layouts = ts.Layouts \ {from}
      /\ ts'.Succ = Q /\ ts'.Pred = Q
      /\ ts'.Class = joined(ts.Class, into, from) /\ ts'.RemovedID = ts.RemovedID
  BY MergeNodeFields
<1>2. /\ ts \in TypeSystem /\ ts.Layouts \subseteq Node /\ ts.Class \in [Node -> SUBSET Node]
      /\ ts.RemovedID \in Node \cup {NoNode}
  BY DEF TypeOK, TypeSystem
<1>3. IsPartition(ts.Class)
  BY DEF SoundBookkeeping, ClassesAreAPartition, IsPartition
<1>4. /\ IsPartition(ts'.Class)
      /\ \A n \in both : ts'.Class[n] = both
      /\ \A n \in Node \ both : ts'.Class[n] = ts.Class[n] /\ ts.Class[n] \cap both = {}
  <2> DEFINE C == ts.Class
  <2>1. C \in [Node -> SUBSET Node] /\ IsPartition(C) /\ into \in Node /\ from \in Node
    BY <1>2, <1>3
  <2> HIDE DEF C
  <2>2. /\ IsPartition(joined(C, into, from))
        /\ \A n \in C[into] \cup C[from] : joined(C, into, from)[n] = C[into] \cup C[from]
        /\ \A n \in Node \ (C[into] \cup C[from]) :
              joined(C, into, from)[n] = C[n] /\ C[n] \cap (C[into] \cup C[from]) = {}
    BY <2>1, JoinedIsPartition
  <2> QED  BY <2>2, <1>1 DEF C
<1>5. ClassesAreAPartition'
  BY <1>4 DEF IsPartition, ClassesAreAPartition
<1>6. Consistent'
  <2>1. Q \subseteq ProperEdges(ts) /\ \A e \in Q : from \notin {e.src, e.tgt}
    BY <1>2, ConsistentEdges, FixPredSuccIsQuotient
  <2> HIDE DEF Q
  <2> QED  BY <1>1, <2>1 DEF Consistent, edgesAreMirrored, edgesJoinLiveNodes, noSelfEdges,
                             ProperEdges
<1>7. into \in both /\ from \in both /\ into \in Node /\ from \in Node /\ both \subseteq Node
  BY <1>2, <1>3 DEF IsPartition
<1>8. \A n \in ts.Layouts : n \in both => n \in {into, from}
  BY DEF OneNodePerClass
<1>9. \A n \in both : ts.Class[n] = ts.Class[into] \/ ts.Class[n] = ts.Class[from]
  BY <1>2, <1>3 DEF IsPartition
<1>10. ts.RemovedID \notin both
  <2> SUFFICES ASSUME ts.RemovedID \in both PROVE FALSE
    OBVIOUS
  <2>1. ts.RemovedID # NoNode
    BY <1>7
  <2>2. into \in ts.Class[ts.RemovedID] \/ from \in ts.Class[ts.RemovedID]
    BY <1>7, <1>9, <1>3 DEF IsPartition
  <2> QED  BY <2>1, <2>2 DEF OneNodePerClass, isRemoved
<1> HIDE DEF both
<1>11. \A n \in Node : isRemoved(ts', n) <=> isRemoved(ts, n)
  BY <1>1, <1>2, <1>4, <1>10 DEF isRemoved
<1>12. OneNodePerClass'
  <2>1. ASSUME NEW m \in ts'.Layouts, NEW n \in ts'.Layouts, m \in ts'.Class[n] PROVE m = n
    <3>1. m \in ts.Layouts \ {from} /\ n \in ts.Layouts \ {from} /\ n \in Node
      BY <2>1, <1>1, <1>2
    <3>2. CASE n \in both
      BY <3>1, <3>2, <2>1, <1>4, <1>8
    <3>3. CASE n \notin both
      BY <3>1, <3>3, <2>1, <1>4 DEF OneNodePerClass
    <3> QED  BY <3>2, <3>3
  <2>2. \A n \in ts'.Layouts : ~isRemoved(ts', n)
    BY <1>1, <1>2, <1>11 DEF OneNodePerClass
  <2>3. ASSUME NEW n \in Node, n < ts.NID, ~isRemoved(ts, n)
        PROVE  \E m \in ts'.Layouts : m \in ts'.Class[n]
    <3>1. PICK m \in ts.Layouts : m \in ts.Class[n]
      BY <2>3 DEF OneNodePerClass
    <3>2. CASE n \in both
      BY <3>2, <1>1, <1>4, <1>7
    <3>3. CASE n \notin both
      BY <3>1, <3>3, <1>1, <1>4, <1>7
    <3> QED  BY <3>2, <3>3
  <2> QED  BY <2>1, <2>2, <2>3, <1>1, <1>11 DEF OneNodePerClass
<1>13. FreshIDs'
  <2> SUFFICES ASSUME NEW n \in Node, n >= ts'.NID
               PROVE  n \notin ts'.Layouts /\ ts'.Class[n] = {n} /\ n # ts'.RemovedID
    BY DEF FreshIDs
  <2>1. n \notin ts.Layouts /\ ts.Class[n] = {n} /\ n # ts.RemovedID
    BY <1>1 DEF SoundBookkeeping, FreshIDs
  <2>2. n \notin both
    BY <2>1, <1>7, <1>9, <1>3 DEF IsPartition, both
  <2> QED  BY <2>1, <2>2, <1>1, <1>4
<1>14. \A n \in Node : ts'.Class[n] = IF n \in both THEN both ELSE ts.Class[n]
  BY <1>4
<1> QED  BY <1>1, <1>5, <1>6, <1>11, <1>12, <1>13, <1>14 DEF both

(* A removal: the class of the node joins that of the nodes removed before. *)
LEMMA RemoveKeepsInvariant ==
  ASSUME IndInv, NEW n \in ts.Layouts, ts' = removeNode(ts, n)
  PROVE  /\ (ts \in TypeSystem)' /\ Consistent' /\ OneNodePerClass'
         /\ FreshIDs' /\ ClassesAreAPartition'
         /\ \A m \in Node : isRemoved(ts', m) <=> isRemoved(ts, m) \/ m \in ts.Class[n]
         /\ \A m \in Node : ~isRemoved(ts', m) => ts'.Class[m] = ts.Class[m]
<1> USE DEF IndInv
<1> DEFINE C == ts.Class
           R == ts.RemovedID
<1>1. /\ ts' \in TypeSystem /\ ts'.NID = ts.NID /\ ts'.Layouts = ts.Layouts \ {n}
      /\ ts'.Succ = {e \in ts.Succ : n \notin {e.src, e.tgt}} /\ ts'.Pred = ts'.Succ
      /\ ts'.Class = removeClass(ts, n).Class /\ ts'.RemovedID = removeClass(ts, n).RemovedID
  BY RemoveNodeFields
<1>2. /\ ts \in TypeSystem /\ ts.Layouts \subseteq Node /\ C \in [Node -> SUBSET Node]
      /\ R \in Node \cup {NoNode} /\ n \in Node
  BY DEF TypeOK, TypeSystem
<1>3. IsPartition(C)
  BY DEF SoundBookkeeping, ClassesAreAPartition, IsPartition
<1>4. Consistent'
  BY <1>1, ConsistentEdges DEF Consistent, edgesAreMirrored, edgesJoinLiveNodes, noSelfEdges,
                               ProperEdges
<1>5. /\ \A m \in Node : m \in C[n] <=> n \in C[m]
      /\ \A m \in Node : R # NoNode => (m \in C[R] <=> R \in C[m])
  BY <1>2, <1>3 DEF IsPartition
(* In both cases the classes of the nodes that are not removed stay, and    *)
(* those removed are the ones that were and the class of n.                 *)
<1> DEFINE gone == {m \in Node : m \in C[n] \/ (R # NoNode /\ m \in C[R])}
<1>6. /\ IsPartition(ts'.Class)
      /\ ts'.RemovedID \in Node /\ ts'.RemovedID \in gone
      /\ \A m \in Node \ gone : ts'.Class[m] = C[m] /\ C[m] \cap gone = {}
      /\ ts'.Class[ts'.RemovedID] = gone
  <2>1. CASE R = NoNode
    <3>1. ts'.Class = C /\ ts'.RemovedID = n
      BY <2>1, <1>1, <1>2 DEF removeClass, TypeSystem
    <3>2. gone = C[n]
      BY <2>1, <1>2
    <3>3. \A m \in Node \ gone : C[m] \cap gone = {}
      <4> SUFFICES ASSUME NEW m \in Node, NEW x \in C[m], x \in C[n] PROVE m \in C[n]
        BY <3>2
      <4> QED  BY <1>2, <1>3 DEF IsPartition
    <3> HIDE DEF C, gone
    <3> QED  BY <3>1, <3>2, <3>3, <1>2, <1>3 DEF IsPartition
  <2>2. CASE R # NoNode
    <3>1. ts'.Class = joined(C, n, R) /\ ts'.RemovedID = R
      BY <2>2, <1>1, <1>2 DEF removeClass, TypeSystem
    <3>2. gone = C[n] \cup C[R] /\ R \in Node /\ R \in C[R]
      BY <2>2, <1>2, <1>3 DEF IsPartition
    <3> HIDE DEF C, gone, R
    <3>3. /\ IsPartition(joined(C, n, R))
          /\ \A m \in C[n] \cup C[R] : joined(C, n, R)[m] = C[n] \cup C[R]
          /\ \A m \in Node \ (C[n] \cup C[R]) :
                joined(C, n, R)[m] = C[m] /\ C[m] \cap (C[n] \cup C[R]) = {}
      BY <1>2, <1>3, <3>2, JoinedIsPartition
    <3> QED  BY <3>1, <3>2, <3>3
  <2> QED  BY <2>1, <2>2
<1>7. ClassesAreAPartition'
  BY <1>6 DEF IsPartition, ClassesAreAPartition
<1>8. \A m \in Node : (isRemoved(ts, m) <=> R # NoNode /\ m \in C[R])
  BY DEF isRemoved
<1>9. \A m \in Node : (isRemoved(ts', m) <=> m \in gone)
  BY <1>6 DEF isRemoved
<1>10. \A m \in ts'.Layouts : m \in Node \ gone
  BY <1>1, <1>2, <1>8 DEF OneNodePerClass
<1> HIDE DEF gone
<1>11. OneNodePerClass'
  <2>1. ASSUME NEW k \in ts'.Layouts, NEW m \in ts'.Layouts, k \in ts'.Class[m] PROVE k = m
    BY <2>1, <1>1, <1>6, <1>10 DEF OneNodePerClass
  <2>2. \A m \in ts'.Layouts : ~isRemoved(ts', m)
    BY <1>9, <1>10
  <2>3. ASSUME NEW m \in Node, m < ts.NID, m \notin gone
        PROVE  \E k \in ts'.Layouts : k \in ts'.Class[m]
    <3>1. ~isRemoved(ts, m)
      BY <2>3, <1>8 DEF gone
    <3>2. PICK k \in ts.Layouts : k \in C[m]
      BY <2>3, <3>1 DEF OneNodePerClass
    <3>3. k # n
      BY <2>3, <3>2, <1>5 DEF gone
    <3> QED  BY <2>3, <3>2, <3>3, <1>1, <1>6
  <2> QED  BY <2>1, <2>2, <2>3, <1>1, <1>9 DEF OneNodePerClass
<1>12. FreshIDs'
  <2> SUFFICES ASSUME NEW m \in Node, m >= ts'.NID
               PROVE  m \notin ts'.Layouts /\ ts'.Class[m] = {m} /\ m # ts'.RemovedID
    BY DEF FreshIDs
  <2>1. m \notin ts.Layouts /\ C[m] = {m} /\ m # R
    BY <1>1 DEF SoundBookkeeping, FreshIDs
  <2>2. m \notin gone
    <3>1. m \notin C[n]
      BY <2>1, <1>5
    <3>2. ~(R # NoNode /\ m \in C[R])
      BY <2>1, <1>5
    <3> QED  BY <3>1, <3>2 DEF gone
  <2> QED  BY <2>1, <2>2, <1>1, <1>6
<1>13. \A m \in Node : m \in gone <=> isRemoved(ts, m) \/ m \in C[n]
  BY <1>8 DEF gone
<1> QED  BY <1>1, <1>4, <1>6, <1>7, <1>9, <1>11, <1>12, <1>13

------------------------------------------------------------------------------
(* Every operation on edges leaves a proper set of edges, both ways.        *)
OnlyEdgesChange ==
  \E S \in SUBSET ProperEdges(ts) : ts' = WithEdges(ts, S) /\ merging' = merging

LEMMA SameEdges ==
  ASSUME IndInv
  PROVE  /\ ts = WithEdges(ts, ts.Succ) /\ ts.Succ \in SUBSET ProperEdges(ts)
         /\ ts \in TypeSystem /\ ts.Succ = ts.Pred
BY ConsistentEdges DEF IndInv, WithEdges, TypeOK, TypeSystem

LEMMA TagTypes ==
  /\ EqualityTag \in Tag /\ PointerTag \in Tag
  /\ \A oe \in [Offset : 0..MaxOffset, Strides : Seq(Stride)] : InstanceTag(oe) \in Tag
BY DEF EqualityTag, PointerTag, InstanceTag, Tag, AtOffset, OffsetExpression, LinkKinds

(* An addition leaves the edges as they are, or adds one or a pair of them. *)
Adds(e, S) == S \in {ts.Succ \cup {e}, ts.Succ \cup {e, Graph!Reverse(e)}}
LinksAreAdded ==
  \E S \in SUBSET ProperEdges(ts) :
    /\ ts' = WithEdges(ts, S) /\ merging' = merging
    /\ S = ts.Succ \/ \E e \in S : Adds(e, S)

LEMMA AddEqualityLinkEdges ==
  ASSUME IndInv, AddEqualityLink
  PROVE  LinksAreAdded
<1>1. PICK s \in ts.Layouts, t \in ts.Layouts : ts' = addEqualityLink(ts, s, t)
  BY DEF AddEqualityLink
<1> DEFINE e == Edge(s, t, EqualityTag)
           back == Edge(t, s, EqualityTag)
<1>2. PICK S \in SUBSET ProperEdges(ts) :
        /\ addLink(ts, s, t, EqualityTag) = WithEdges(ts, S)
        /\ s = t => S = ts.Succ
        /\ s # t => S = ts.Succ \cup {e}
  BY SameEdges, TagTypes, AddLinkEdges
<1> DEFINE one == WithEdges(ts, S)
<1>3. one \in TypeSystem /\ one.Succ = S /\ one.Pred = S /\ one.Layouts = ts.Layouts
  BY SameEdges DEF WithEdges, TypeSystem, ProperEdges
<1>4. ProperEdges(one) = ProperEdges(ts)
  BY <1>3 DEF ProperEdges
<1>5. back = Graph!Reverse(e)
  <2>1. s \in Node /\ t \in Node /\ EqualityTag \in Tag
    BY SameEdges, TagTypes DEF TypeSystem
  <2>2. e \in Link /\ e.src = s /\ e.tgt = t /\ e.tag = EqualityTag /\ back \in Link
    BY <2>1 DEF Edge, Link
  <2>3. back.src = t /\ back.tgt = s /\ back.tag = EqualityTag
    BY DEF Edge
  <2> HIDE DEF e, back
  <2> QED  BY <2>2, <2>3 DEF Graph!Reverse, Link
<1> HIDE DEF one, e, back
<1>6. PICK T \in SUBSET ProperEdges(ts) :
        /\ addLink(one, t, s, EqualityTag) = WithEdges(one, T)
        /\ t = s => T = S
        /\ t # s => T = S \cup {back}
  BY <1>3, <1>4, TagTypes, AddLinkEdges DEF back
<1>7. WithEdges(one, T) = WithEdges(ts, T)
  BY SameEdges, <1>3 DEF one, WithEdges, TypeSystem
<1>8. ts' = WithEdges(ts, T)
  BY <1>1, <1>2, <1>6, <1>7 DEF addEqualityLink, one
<1>9. T = ts.Succ \/ (e \in T /\ Adds(e, T))
  BY <1>2, <1>5, <1>6 DEF Adds
<1> QED  BY <1>8, <1>9 DEF AddEqualityLink, LinksAreAdded, Idle

LEMMA AddOtherLinkEdges ==
  ASSUME IndInv, AddInstanceLink \/ AddPointerLink
  PROVE  LinksAreAdded
<1>1. PICK s \in ts.Layouts, t \in ts.Layouts, g \in Tag :
        ts' = addLink(ts, s, t, g) \/ ts' = ts
  <2>1. CASE AddPointerLink
    BY <2>1, TagTypes DEF AddPointerLink, addPointerLink
  <2>2. CASE AddInstanceLink
    <3>1. PICK s \in ts.Layouts, t \in ts.Layouts, oe \in OffsetExpressions :
            ts' = addInstanceLink(ts, s, t, oe)
      BY <2>2 DEF AddInstanceLink
    <3>2. CASE oe.Offset \in 0..MaxOffset
      <4>1. oe \in [Offset : 0..MaxOffset, Strides : Seq(Stride)]
        BY <3>2
      <4> QED  BY <3>1, <3>2, <4>1, TagTypes DEF addInstanceLink
    <3>3. CASE oe.Offset \notin 0..MaxOffset
      BY <3>1, <3>3, TagTypes DEF addInstanceLink
    <3> QED  BY <3>2, <3>3
  <2> QED  BY <2>1, <2>2
<1> DEFINE e == Edge(s, t, g)
<1>2. PICK S \in SUBSET ProperEdges(ts) :
        /\ addLink(ts, s, t, g) = WithEdges(ts, S)
        /\ s = t => S = ts.Succ
        /\ s # t => S = ts.Succ \cup {e}
  BY SameEdges, AddLinkEdges
<1> HIDE DEF e
<1>3. S = ts.Succ \/ (e \in S /\ Adds(e, S))
  BY <1>2 DEF Adds
<1>4. merging' = merging
  BY DEF AddInstanceLink, AddPointerLink, Idle
<1>5. CASE ts' = ts
  BY <1>4, <1>5, SameEdges DEF LinksAreAdded
<1>6. CASE ts' = addLink(ts, s, t, g)
  BY <1>2, <1>3, <1>4, <1>6 DEF LinksAreAdded
<1> QED  BY <1>1, <1>5, <1>6

(* Erasing edges.                                                           *)
LEMMA DroppedEdges ==
  ASSUME NEW sys \in TypeSystem, sys.Succ = sys.Pred, NEW D
  PROVE  [sys EXCEPT !.Pred = @ \ D, !.Succ = @ \ D] = WithEdges(sys, sys.Succ \ D)
BY DEF WithEdges, TypeSystem

LEMMA EraseEdges ==
  ASSUME IndInv, DropOutgoingEdges \/ EraseEdge
  PROVE  \E D : ts' = WithEdges(ts, ts.Succ \ D) /\ merging' = merging
<1>1. CASE DropOutgoingEdges
  <2>1. PICK n \in ts.Layouts : ts' = dropOutgoingEdges(ts, n)
    BY <1>1 DEF DropOutgoingEdges
  <2>2. ts' = WithEdges(ts, ts.Succ \ SuccessorEdges(ts, n))
    BY <2>1, SameEdges, DroppedEdges DEF dropOutgoingEdges, withoutEdges
  <2> QED  BY <1>1, <2>2 DEF DropOutgoingEdges, Idle
<1>2. CASE EraseEdge
  <2>1. PICK e \in ts.Succ : ts' = eraseEdge(ts, e)
    BY <1>2 DEF EraseEdge
  <2>2. ts' = WithEdges(ts, ts.Succ \ {e})
    BY <2>1, SameEdges, DroppedEdges DEF eraseEdge
  <2> QED  BY <1>2, <2>2 DEF EraseEdge, Idle
<1> QED  BY <1>1, <1>2

(* A moved edge goes, or is replaced with one edge of the same kind that    *)
(* shares an end with it.                                                   *)
Replaces(f, e) == f.tag.Kind = e.tag.Kind /\ (f.src = e.src \/ f.tgt = e.tgt)

LEMMA MoveEdges ==
  ASSUME IndInv, MoveEdgeTarget \/ MoveEdgeSource
  PROVE  /\ merging' = merging
         /\ \E e \in ts.Succ :
              \/ ts' = WithEdges(ts, ts.Succ \ {e})
              \/ \E f \in ProperEdges(ts) :
                   Replaces(f, e) /\ ts' = WithEdges(ts, (ts.Succ \ {e}) \cup {f})
<1> merging' = merging
  BY DEF MoveEdgeTarget, MoveEdgeSource, Idle
<1>1. ASSUME NEW e \in ts.Succ, NEW n \in ts.Layouts, n # e.tgt
      PROVE  LET f == [e EXCEPT !.src = n] IN f \in ProperEdges(ts) /\ Replaces(f, e)
  <2> DEFINE f == [e EXCEPT !.src = n]
  <2>1. e \in Link /\ e.tgt \in ts.Layouts /\ n \in Node
    BY SameEdges DEF ProperEdges, TypeSystem
  <2>2. f \in Link /\ f.src = n /\ f.tgt = e.tgt /\ f.tag = e.tag
    BY <2>1 DEF Link
  <2> QED  BY <1>1, <2>1, <2>2 DEF ProperEdges, Replaces
<1>2. ASSUME NEW e \in ts.Succ, NEW n \in ts.Layouts, n # e.src
      PROVE  LET f == [e EXCEPT !.tgt = n] IN f \in ProperEdges(ts) /\ Replaces(f, e)
  <2> DEFINE f == [e EXCEPT !.tgt = n]
  <2>1. e \in Link /\ e.src \in ts.Layouts /\ n \in Node
    BY SameEdges DEF ProperEdges, TypeSystem
  <2>2. f \in Link /\ f.tgt = n /\ f.src = e.src /\ f.tag = e.tag
    BY <2>1 DEF Link
  <2> QED  BY <1>2, <2>1, <2>2 DEF ProperEdges, Replaces
(* Without an offset to sum, the edge is renamed.                           *)
<1>3. ASSUME NEW e \in ts.Succ, NEW f
      PROVE  [eraseEdge(ts, e) EXCEPT !.Pred = @ \cup {f}, !.Succ = @ \cup {f}]
               = WithEdges(ts, (ts.Succ \ {e}) \cup {f})
  BY SameEdges DEF eraseEdge, WithEdges, TypeSystem
(* With one, it is erased and a link is added, unless the sum is too large. *)
<1>4. ASSUME NEW e \in ts.Succ, IsInstanceEdge(e), NEW s \in ts.Layouts, NEW t \in ts.Layouts,
             s # t, s = e.src \/ t = e.tgt, NEW sum \in Int,
             ts' = addInstanceLink(eraseEdge(ts, e), s, t, shiftedOffset(e.tag.OE, sum))
      PROVE  \/ ts' = WithEdges(ts, ts.Succ \ {e})
             \/ \E f \in ProperEdges(ts) :
                  Replaces(f, e) /\ ts' = WithEdges(ts, (ts.Succ \ {e}) \cup {f})
  <2> DEFINE dropped == WithEdges(ts, ts.Succ \ {e})
             oe == shiftedOffset(e.tag.OE, sum)
             f == Edge(s, t, InstanceTag(oe))
  <2>1. eraseEdge(ts, e) = dropped
    BY SameEdges, DroppedEdges DEF eraseEdge
  <2>2. oe \in [Offset : Int, Strides : Seq(Stride)]
    BY SameEdges DEF shiftedOffset, ProperEdges, Link, Tag
  <2>4. CASE oe.Offset \in 0..MaxOffset
    <3>0. InstanceTag(oe) \in Tag /\ InstanceTag(oe).Kind = "Instance"
      BY <2>2, <2>4, TagTypes DEF InstanceTag
    <3>1. s \in Node /\ t \in Node
      BY SameEdges DEF TypeSystem
    <3> HIDE DEF oe
    <3>2. f \in ProperEdges(ts) /\ Replaces(f, e)
      BY <1>4, <3>0, SameEdges DEF Edge, ProperEdges, Link, Replaces, TypeSystem, IsInstanceEdge
    <3>3. ts' = [dropped EXCEPT !.Succ = @ \cup {f}, !.Pred = @ \cup {f}]
      BY <1>4, <2>1, <2>4, <3>1 DEF addInstanceLink, addLink, oe
    <3>4. ts' = WithEdges(ts, (ts.Succ \ {e}) \cup {f})
      BY <3>3, SameEdges DEF WithEdges, TypeSystem
    <3> QED  BY <3>2, <3>4
  <2>5. CASE oe.Offset \notin 0..MaxOffset
    BY <1>4, <2>1, <2>5 DEF addInstanceLink
  <2> QED  BY <2>4, <2>5
<1>5. CASE MoveEdgeTarget
  <2>1. PICK e \in ts.Succ, n \in ts.Layouts, sum \in OffsetsToSum :
          MayMove(e, n, sum) /\ ts' = moveEdgeTarget(ts, e, n, sum)
    BY <1>5, SameEdges DEF MoveEdgeTarget
  <2>2. n # NoNode /\ e.src \in ts.Layouts /\ n # e.src
    BY <2>1, SameEdges DEF TypeSystem, ProperEdges, MayMove
  <2>3. CASE sum = 0
    <3> DEFINE f == [e EXCEPT !.tgt = n]
    <3>1. ts' = [eraseEdge(ts, e) EXCEPT !.Pred = @ \cup {f}, !.Succ = @ \cup {f}]
      BY <2>1, <2>2, <2>3 DEF moveEdgeTarget
    <3>2. f \in ProperEdges(ts) /\ Replaces(f, e)
      BY <2>2, <1>2
    <3> HIDE DEF f
    <3>3. ts' = WithEdges(ts, (ts.Succ \ {e}) \cup {f})
      BY <3>1, <1>3
    <3> QED  BY <3>2, <3>3
  <2>4. CASE sum # 0
    <3>1. ts' = addInstanceLink(eraseEdge(ts, e), e.src, n, shiftedOffset(e.tag.OE, sum))
      BY <2>1, <2>2, <2>4 DEF moveEdgeTarget
    <3> QED  BY <2>1, <2>2, <2>4, <3>1, <1>4 DEF MayMove
  <2> QED  BY <2>3, <2>4
<1>6. CASE MoveEdgeSource
  <2>1. PICK e \in ts.Succ, n \in ts.Layouts, sum \in OffsetsToSum :
          MayMove(e, n, sum) /\ ts' = moveEdgeSource(ts, e, n, sum)
    BY <1>6, SameEdges DEF MoveEdgeSource
  <2>2. n # NoNode /\ e.tgt \in ts.Layouts /\ n # e.tgt
    BY <2>1, SameEdges DEF TypeSystem, ProperEdges, MayMove
  <2>3. CASE sum = 0
    <3> DEFINE f == [e EXCEPT !.src = n]
    <3>1. ts' = [eraseEdge(ts, e) EXCEPT !.Pred = @ \cup {f}, !.Succ = @ \cup {f}]
      BY <2>1, <2>2, <2>3 DEF moveEdgeSource
    <3>2. f \in ProperEdges(ts) /\ Replaces(f, e)
      BY <2>2, <1>1
    <3> HIDE DEF f
    <3>3. ts' = WithEdges(ts, (ts.Succ \ {e}) \cup {f})
      BY <3>1, <1>3
    <3> QED  BY <3>2, <3>3
  <2>4. CASE sum # 0
    <3>1. ts' = addInstanceLink(eraseEdge(ts, e), n, e.tgt, shiftedOffset(e.tag.OE, sum))
      BY <2>1, <2>2, <2>4 DEF moveEdgeSource
    <3> QED  BY <2>1, <2>2, <2>4, <3>1, <1>4 DEF MayMove
  <2> QED  BY <2>3, <2>4
<1> QED  BY <1>5, <1>6

------------------------------------------------------------------------------
LEMMA InitEstablishesInvariant == Init => IndInv
<1> SUFFICES ASSUME Init PROVE IndInv
  OBVIOUS
<1>1. TypeOK
  BY DEF Init, EmptySystem, TypeOK, TypeSystem, InterferingChildrenInfo
<1>2. Consistent
  BY DEF Init, EmptySystem, Consistent, edgesAreMirrored, edgesJoinLiveNodes, noSelfEdges
<1>3. OneNodePerClass
  BY DEF Init, EmptySystem, OneNodePerClass
<1>4. SoundBookkeeping
  BY DEF Init, EmptySystem, SoundBookkeeping, FreshIDs, ClassesAreAPartition, MergingLiveNodes
<1> QED  BY <1>1, <1>2, <1>3, <1>4 DEF IndInv

(* Giving out a new ID.                                                     *)
LEMMA CreateKeepsInvariant ==
  ASSUME IndInv, Create
  PROVE  IndInv'
<1> USE DEF IndInv
<1>0. ts \in TypeSystem /\ ts.NID \in Node /\ ts.NID + 1 \in Nat /\ ts.Layouts \cup {ts.NID} \in SUBSET Node
  BY DEF Create, TypeOK, TypeSystem
<1>1. /\ ts' \in TypeSystem /\ ts'.NID = ts.NID + 1 /\ ts'.Layouts = ts.Layouts \cup {ts.NID}
      /\ ts'.Succ = ts.Succ /\ ts'.Pred = ts.Pred
      /\ ts'.Class = ts.Class /\ ts'.RemovedID = ts.RemovedID
      /\ merging' = merging /\ merging = << >>
  <2>1. ts' = [ts EXCEPT !.NID = ts.NID + 1, !.Layouts = ts.Layouts \cup {ts.NID}]
    BY <1>0 DEF Create, createArtificialLayoutType, TypeSystem
  <2>2. merging' = merging /\ merging = << >>
    BY DEF Create, Idle
  <2> QED  BY <1>0, <2>1, <2>2 DEF TypeSystem
<1>2. ts.NID \in Node /\ ts.NID \in Nat /\ ts.Layouts \subseteq Node
  BY DEF Create, TypeOK, TypeSystem
<1>3. ts.NID \notin ts.Layouts /\ ts.Class[ts.NID] = {ts.NID} /\ ts.NID # ts.RemovedID
  BY <1>2 DEF SoundBookkeeping, FreshIDs
<1>4. Consistent'
  BY <1>1 DEF Consistent, edgesAreMirrored, edgesJoinLiveNodes, noSelfEdges
<1>5. \A m \in Node : ts.NID \in ts.Class[m] => m = ts.NID
  BY <1>2, <1>3 DEF SoundBookkeeping, ClassesAreAPartition
<1>6. \A m \in Node : isRemoved(ts', m) <=> isRemoved(ts, m)
  BY <1>1 DEF isRemoved
<1>7. ~isRemoved(ts, ts.NID)
  BY <1>3, <1>5 DEF isRemoved, TypeOK, TypeSystem
<1>8. OneNodePerClass'
  <2>1. ASSUME NEW m \in ts'.Layouts, NEW n \in ts'.Layouts, m \in ts'.Class[n] PROVE m = n
    <3>1. m \in ts.Class[n] /\ m \in Node /\ n \in Node
      BY <2>1, <1>1, <1>2
    <3>2. CASE n = ts.NID
      BY <3>1, <3>2, <1>3
    <3>3. CASE m = ts.NID
      BY <3>1, <3>3, <1>5
    <3>4. CASE m \in ts.Layouts /\ n \in ts.Layouts
      BY <3>1, <3>4 DEF OneNodePerClass
    <3> QED  BY <3>2, <3>3, <3>4, <1>1
  <2>2. \A n \in ts'.Layouts : ~isRemoved(ts', n)
    BY <1>1, <1>2, <1>6, <1>7 DEF OneNodePerClass
  <2>3. \A n \in Node : n < ts'.NID =>
          isRemoved(ts', n) \/ \E m \in ts'.Layouts : m \in ts'.Class[n]
    BY <1>1, <1>2, <1>3, <1>6 DEF OneNodePerClass
  <2> QED  BY <2>1, <2>2, <2>3 DEF OneNodePerClass
<1>9. FreshIDs' /\ ClassesAreAPartition' /\ MergingLiveNodes'
  BY <1>1, <1>2 DEF SoundBookkeeping, FreshIDs, ClassesAreAPartition, MergingLiveNodes
<1> QED  BY <1>1, <1>4, <1>8, <1>9 DEF TypeOK, SoundBookkeeping

LEMMA SetSizeFields ==
  ASSUME IndInv, SetSize
  PROVE  /\ ts' \in TypeSystem
         /\ ts'.NID = ts.NID /\ ts'.Layouts = ts.Layouts
         /\ ts'.Succ = ts.Succ /\ ts'.Pred = ts.Pred
         /\ ts'.Class = ts.Class /\ ts'.RemovedID = ts.RemovedID
         /\ merging' = merging
<1>1. PICK n \in ts.Layouts, s \in Sizes : ts' = [ts EXCEPT !.Size[n] = s]
  BY DEF SetSize
<1> DEFINE sizes == [ts.Size EXCEPT ![n] = s]
<1>2. sizes \in [Node -> Nat]
  BY DEF IndInv, TypeOK, TypeSystem
<1>3. ts' = [ts EXCEPT !.Size = sizes] /\ ts \in TypeSystem
  BY <1>1 DEF IndInv, TypeOK, TypeSystem
<1> HIDE DEF sizes
<1> QED  BY <1>2, <1>3 DEF TypeSystem, SetSize, Idle

(* An operation that leaves the graph and the classes as they are.          *)
LEMMA SameGraphKeepsInvariant ==
  ASSUME IndInv, ts' \in TypeSystem,
         ts'.NID = ts.NID, ts'.Layouts = ts.Layouts,
         ts'.Succ = ts.Succ, ts'.Pred = ts.Pred,
         ts'.Class = ts.Class, ts'.RemovedID = ts.RemovedID
  PROVE  Consistent' /\ OneNodePerClass' /\ FreshIDs' /\ ClassesAreAPartition'
BY DEF IndInv, Consistent, edgesAreMirrored, edgesJoinLiveNodes, noSelfEdges, OneNodePerClass,
       SoundBookkeeping, FreshIDs, ClassesAreAPartition, isRemoved

(* The list a call of mergeNodes starts with.                               *)
LEMMA MergeNodesKeepsInvariant ==
  ASSUME IndInv, MergeNodes
  PROVE  IndInv'
<1> USE DEF IndInv
<1>1. PICK k \in 2..MaxMerge : \E list \in [1..k -> ts.Layouts] :
        /\ \A i, j \in 1..k : list[i] = list[j] => i = j
        /\ merging' = list
  BY DEF MergeNodes
<1>2. PICK list \in [1..k -> ts.Layouts] :
        /\ \A i, j \in 1..k : list[i] = list[j] => i = j
        /\ merging' = list
  BY <1>1
<1>3. ts.Layouts \subseteq Node /\ k \in Nat /\ k # 1
  BY DEF TypeOK, TypeSystem
<1>4. list \in Seq(Node) /\ Len(list) = k
  BY <1>3
<1>5. ts' = ts
  BY DEF MergeNodes
<1>6. MergingLiveNodes'
  BY <1>2, <1>3, <1>4, <1>5 DEF MergingLiveNodes
<1>7. ts' \in TypeSystem
  BY <1>5 DEF TypeOK
<1>8. Consistent' /\ OneNodePerClass' /\ FreshIDs' /\ ClassesAreAPartition'
  BY <1>5, <1>7, SameGraphKeepsInvariant
<1> QED  BY <1>2, <1>4, <1>6, <1>7, <1>8 DEF TypeOK, SoundBookkeeping

LEMMA MergingNodes ==
  ASSUME IndInv, merging # << >>
  PROVE  /\ Len(merging) \in Nat /\ Len(merging) >= 2
         /\ merging[1] \in ts.Layouts /\ merging[2] \in ts.Layouts /\ merging[1] # merging[2]
<1>1. merging \in Seq(Node) /\ Len(merging) # 1
  BY DEF IndInv, TypeOK, SoundBookkeeping, MergingLiveNodes
<1> DEFINE k == Len(merging)
<1>2. k \in Nat /\ k # 0 /\ k # 1
  BY <1>1
<1> HIDE DEF k
<1>3. k >= 2 /\ 1 \in 1..k /\ 2 \in 1..k
  BY <1>2
<1> QED  BY <1>2, <1>3 DEF k, IndInv, SoundBookkeeping, MergingLiveNodes

(* After one iteration of mergeNodes the rest of the list is still alive.   *)
LEMMA MergeOneKeepsInvariant ==
  ASSUME IndInv, MergeOne
  PROVE  IndInv'
<1> DEFINE into == merging[1]
           from == merging[2]
           k == Len(merging)
           rest == [i \in 1..(k - 1) |-> IF i = 1 THEN merging[1] ELSE merging[i + 1]]
<1>1. k \in Nat /\ k >= 2 /\ into \in ts.Layouts /\ from \in ts.Layouts /\ into # from
  BY MergingNodes DEF MergeOne
<1>2. ts' = mergeNode(ts, into, from) /\ merging' = IF k = 2 THEN << >> ELSE rest
  BY DEF MergeOne
<1>3. /\ (ts \in TypeSystem)' /\ Consistent' /\ OneNodePerClass'
      /\ FreshIDs' /\ ClassesAreAPartition'
  <2> HIDE DEF into, from
  <2> QED  BY <1>1, <1>2, MergeKeepsInvariant
<1>4. ts'.Layouts = ts.Layouts \ {from}
  <2> HIDE DEF into, from
  <2> QED  BY <1>1, <1>2, MergeNodeFields DEF IndInv
<1>5. /\ merging \in Seq(Node)
      /\ \A i \in 1..k : merging[i] \in ts.Layouts /\ merging[i] \in Node
      /\ \A i, j \in 1..k : merging[i] = merging[j] => i = j
  BY DEF IndInv, TypeOK, SoundBookkeeping, MergingLiveNodes
<1>6. merging' \in Seq(Node) /\ MergingLiveNodes'
  <2>1. CASE k = 2
    BY <2>1, <1>2 DEF MergingLiveNodes
  <2>2. CASE k # 2
    <3>1. rest \in Seq(Node) /\ Len(rest) = k - 1
      BY <1>1, <1>5, <2>2
    <3>2. \A i \in 1..(k - 1) : rest[i] = merging[IF i = 1 THEN 1 ELSE i + 1]
      OBVIOUS
    <3> HIDE DEF rest
    <3>3. \A i \in 1..(k - 1) : rest[i] \in ts.Layouts /\ rest[i] # from
      BY <1>1, <1>5, <3>2
    <3>4. \A i, j \in 1..(k - 1) : rest[i] = rest[j] => i = j
      BY <1>1, <1>5, <3>2
    <3> QED  BY <1>1, <1>2, <1>4, <2>2, <3>1, <3>3, <3>4 DEF MergingLiveNodes
  <2> QED  BY <2>1, <2>2
<1> QED  BY <1>3, <1>6 DEF IndInv, TypeOK, SoundBookkeeping

(* The invariant is inductive.                                              *)
LEMMA NextKeepsInvariant == IndInv /\ [Next]_vars => IndInv'
<1> SUFFICES ASSUME IndInv, [Next]_vars PROVE IndInv'
  OBVIOUS
<1>1. CASE OnlyEdgesChange
  BY <1>1, EdgeChange DEF OnlyEdgesChange
<1>2. CASE Create
  BY <1>2, CreateKeepsInvariant
<1>3. CASE AddEqualityLink
  BY <1>1, <1>3, AddEqualityLinkEdges DEF LinksAreAdded, OnlyEdgesChange
<1>4. CASE AddInstanceLink \/ AddPointerLink
  BY <1>1, <1>4, AddOtherLinkEdges DEF LinksAreAdded, OnlyEdgesChange
<1>5. CASE SetSize
  <2>1. Consistent' /\ OneNodePerClass' /\ FreshIDs' /\ ClassesAreAPartition'
    BY <1>5, SetSizeFields, SameGraphKeepsInvariant
  <2>2. MergingLiveNodes' /\ (merging \in Seq(Node))'
    BY <1>5, SetSizeFields DEF IndInv, TypeOK, SoundBookkeeping, MergingLiveNodes
  <2> QED  BY <1>5, <2>1, <2>2, SetSizeFields DEF IndInv, TypeOK, SoundBookkeeping
<1>6. CASE MergeNodes
  BY <1>6, MergeNodesKeepsInvariant
<1>7. CASE MergeOne
  BY <1>7, MergeOneKeepsInvariant
<1>8. CASE RemoveNode
  <2>1. PICK n \in ts.Layouts : ts' = removeNode(ts, n)
    BY <1>8 DEF RemoveNode
  <2>2. merging' = << >>
    BY <1>8 DEF RemoveNode, Idle
  <2>3. MergingLiveNodes' /\ (merging \in Seq(Node))'
    BY <2>2 DEF MergingLiveNodes
  <2> QED  BY <2>1, <2>3, RemoveKeepsInvariant DEF IndInv, TypeOK, SoundBookkeeping
<1>9. CASE DropOutgoingEdges \/ EraseEdge
  <2>1. PICK D : ts' = WithEdges(ts, ts.Succ \ D) /\ merging' = merging
    BY <1>9, EraseEdges
  <2>2. ts.Succ \ D \in SUBSET ProperEdges(ts)
    BY SameEdges
  <2> QED  BY <2>1, <2>2, EdgeChange
<1>10. CASE MoveEdgeTarget \/ MoveEdgeSource
  <2>1. PICK e \in ts.Succ :
          \/ ts' = WithEdges(ts, ts.Succ \ {e})
          \/ \E f \in ProperEdges(ts) : ts' = WithEdges(ts, (ts.Succ \ {e}) \cup {f})
    BY <1>10, MoveEdges
  <2>2. OnlyEdgesChange
    BY <1>10, <2>1, MoveEdges, SameEdges DEF OnlyEdgesChange
  <2> QED  BY <1>1, <2>2
<1>11. CASE UNCHANGED vars
  BY <1>11 DEF vars, IndInv, TypeOK, Consistent, edgesAreMirrored, edgesJoinLiveNodes, noSelfEdges,
               OneNodePerClass, SoundBookkeeping, FreshIDs, ClassesAreAPartition,
               MergingLiveNodes, isRemoved
<1> QED  BY <1>2, <1>3, <1>4, <1>5, <1>6, <1>7, <1>8, <1>9, <1>10, <1>11 DEF Next

(* Whatever the order the methods are called in, the graph, its equivalence *)
(* classes and the list mergeNodes works on fit together.                   *)
THEOREM Invariance == Spec => []IndInv
<1>1. Init => IndInv
  BY InitEstablishesInvariant
<1>2. IndInv /\ [Next]_vars => IndInv'
  BY NextKeepsInvariant
<1> QED  BY <1>1, <1>2, PTL DEF Spec

(* Every field of the type system has its type (TypeOK), after any calls.   *)
THEOREM TypeCorrect == Spec => []TypeOK
<1>1. IndInv => TypeOK
  BY DEF IndInv
<1> QED  BY <1>1, Invariance, PTL

(* The two copies of each edge agree, join live nodes, and no edge is a     *)
(* self edge: what verifyConsistency asserts before and after every step.   *)
THEOREM AlwaysConsistent == Spec => []Consistent
<1>1. IndInv => Consistent
  BY DEF IndInv
<1> QED  BY <1>1, Invariance, PTL

(* Every ID given out and not removed stands for exactly one live node: what *)
(* the back-end needs to find the type of a value from its ID.              *)
THEOREM AlwaysOneNodePerClass == Spec => []OneNodePerClass
<1>1. IndInv => OneNodePerClass
  BY DEF IndInv
<1> QED  BY <1>1, Invariance, PTL

THEOREM AlwaysSoundBookkeeping == Spec => []SoundBookkeeping
<1>1. IndInv => SoundBookkeeping
  BY DEF IndInv
<1> QED  BY <1>1, Invariance, PTL

------------------------------------------------------------------------------
(* What owners says of a state the invariant holds in.                      *)
OwnerFacts ==
  /\ \A n \in Node : n >= ts.NID => owners[n] = NoNode
  /\ \A n \in Node : n < ts.NID /\ isRemoved(ts, n) => owners[n] = RemovedType
  /\ \A n \in Node : n < ts.NID /\ ~isRemoved(ts, n) => owners[n] \in ts.Layouts
  /\ \A n \in Node : \A m \in ts.Layouts : owners[n] = m <=> m \in ts.Class[n]
  /\ Graph!Live = ts.Layouts

LEMMA OwnersAreWellDefined == IndInv => OwnerFacts
<1> SUFFICES ASSUME IndInv PROVE OwnerFacts
  OBVIOUS
<1> USE DEF IndInv
<1>1. /\ ts.Layouts \subseteq Node /\ ts.NID \in Nat
      /\ ts.Class \in [Node -> SUBSET Node] /\ Node \subseteq Nat
      /\ NoNode \notin Node /\ RemovedType \notin Node
  BY DEF TypeOK, TypeSystem
<1>2. \A n \in Node : owners[n] = ownerOf(n)
  BY DEF owners
<1>3. \A n \in Node : n >= ts.NID => owners[n] = NoNode
  BY <1>2 DEF ownerOf
<1>4. \A n \in Node : n < ts.NID /\ isRemoved(ts, n) => owners[n] = RemovedType
  BY <1>1, <1>2 DEF ownerOf
<1>5. ASSUME NEW n \in Node, n < ts.NID, ~isRemoved(ts, n)
      PROVE  owners[n] \in ts.Layouts /\ owners[n] \in ts.Class[n]
  <2>1. \E m \in ts.Layouts : m \in ts.Class[n]
    BY <1>5 DEF OneNodePerClass
  <2>2. owners[n] = CHOOSE m \in ts.Layouts : m \in ts.Class[n]
    BY <1>1, <1>2, <1>5 DEF ownerOf
  <2> QED  BY <2>1, <2>2
<1>6. ASSUME NEW n \in Node, NEW m \in ts.Layouts
      PROVE  owners[n] = m <=> m \in ts.Class[n]
  <2>1. CASE n >= ts.NID
    <3>1. n \notin ts.Layouts /\ ts.Class[n] = {n}
      BY <2>1 DEF SoundBookkeeping, FreshIDs
    <3>2. m # n /\ m # NoNode
      BY <3>1, <1>1
    <3> QED  BY <2>1, <3>1, <3>2, <1>3
  <2>2. CASE n < ts.NID /\ isRemoved(ts, n)
    <3>1. m \notin ts.Class[n]
      <4> SUFFICES ASSUME m \in ts.Class[n] PROVE FALSE
        OBVIOUS
      <4>1. ts.RemovedID # NoNode /\ ts.RemovedID \in Node /\ n \in ts.Class[ts.RemovedID]
        BY <2>2 DEF isRemoved, TypeOK, TypeSystem
      <4>2. m \in ts.Class[ts.RemovedID]
        BY <4>1 DEF SoundBookkeeping, ClassesAreAPartition
      <4> QED  BY <4>1, <4>2 DEF OneNodePerClass, isRemoved
    <3> QED  BY <2>2, <3>1, <1>1, <1>4
  <2>3. CASE n < ts.NID /\ ~isRemoved(ts, n)
    <3>1. owners[n] \in ts.Layouts /\ owners[n] \in ts.Class[n]
      BY <2>3, <1>5
    <3>2. m \in ts.Class[n] => owners[n] \in ts.Class[m]
      BY <3>1, <1>1 DEF SoundBookkeeping, ClassesAreAPartition
    <3> QED  BY <3>1, <3>2 DEF OneNodePerClass
  <2> QED  BY <2>1, <2>2, <2>3, <1>1
<1>7. Graph!Live = ts.Layouts
  <2>1. ASSUME NEW n \in ts.Layouts PROVE n \in Graph!Live
    <3>1. n \in Node /\ n \in ts.Class[n]
      BY <1>1 DEF SoundBookkeeping, ClassesAreAPartition
    <3> QED  BY <3>1, <1>6 DEF Graph!Live
  <2>2. ASSUME NEW n \in Graph!Live PROVE n \in ts.Layouts
    BY <1>1, <1>3, <1>4, <1>5 DEF Graph!Live
  <2> QED  BY <2>1, <2>2
<1> QED  BY <1>3, <1>4, <1>5, <1>6, <1>7 DEF OwnerFacts

LEMMA SameOwners ==
  ASSUME ts'.NID = ts.NID, ts'.Layouts = ts.Layouts,
         ts'.Class = ts.Class, ts'.RemovedID = ts.RemovedID
  PROVE  owners' = owners
BY DEF owners, ownerOf, isRemoved

LEMMA EdgesOnly ==
  ASSUME IndInv, NEW S \in SUBSET ProperEdges(ts), ts' = WithEdges(ts, S)
  PROVE  owners' = owners /\ ts'.Succ = S
<1>1. /\ ts'.NID = ts.NID /\ ts'.Layouts = ts.Layouts
      /\ ts'.Class = ts.Class /\ ts'.RemovedID = ts.RemovedID /\ ts'.Succ = S
  BY SameEdges DEF WithEdges, TypeSystem
<1> QED  BY <1>1, SameOwners

LEMMA ProperEdgesJoinLiveNodes ==
  ASSUME IndInv, NEW e \in ProperEdges(ts)
  PROVE  Graph!JoinsLiveNodes(e)
BY OwnersAreWellDefined DEF OwnerFacts, ProperEdges, Graph!JoinsLiveNodes

(* The steps of LayoutGraph that the operations are.                        *)
LEMMA CreateIsACreation ==
  ASSUME IndInv, OwnerFacts', Create
  PROVE  Graph!Create(ts.NID) /\ ts.NID \in Node
<1> DEFINE new == ts.NID
<1>1. /\ new \in Node /\ new \in Nat /\ ts'.NID = new + 1 /\ ts'.Layouts = ts.Layouts \cup {new}
      /\ ts'.Succ = ts.Succ /\ ts'.Class = ts.Class /\ ts'.RemovedID = ts.RemovedID
  <2>1. ts.NID \in Node /\ ts \in TypeSystem
    BY DEF Create, IndInv, TypeOK
  <2>2. ts' = [ts EXCEPT !.NID = ts.NID + 1, !.Layouts = ts.Layouts \cup {ts.NID}]
    BY <2>1 DEF Create, createArtificialLayoutType, TypeSystem
  <2> QED  BY <2>1, <2>2 DEF TypeSystem
<1>2. OwnerFacts
  BY OwnersAreWellDefined
<1>3. ts.Class[new] = {new}
  BY <1>1 DEF IndInv, SoundBookkeeping, FreshIDs
<1>4. owners[new] = NoNode
  BY <1>1, <1>2 DEF OwnerFacts
<1>5. \A n \in Node : isRemoved(ts', n) <=> isRemoved(ts, n)
  BY <1>1 DEF isRemoved
<1>6. \A n \in Node : owners'[n] = IF n = new THEN new ELSE owners[n]
  <2> SUFFICES ASSUME NEW n \in Node PROVE owners'[n] = IF n = new THEN new ELSE owners[n]
    OBVIOUS
  <2>0. new \in ts'.Layouts /\ Node \subseteq Nat
    BY <1>1
  <2>1. CASE n = new
    BY <2>0, <2>1, <1>1, <1>3 DEF OwnerFacts
  <2>2. CASE n > new
    BY <2>0, <2>2, <1>1, <1>2 DEF OwnerFacts
  <2>3. CASE n < new /\ isRemoved(ts, n)
    BY <2>0, <2>3, <1>1, <1>2, <1>5 DEF OwnerFacts
  <2>4. CASE n < new /\ ~isRemoved(ts, n)
    <3>1. owners[n] \in ts.Layouts /\ owners[n] \in ts.Class[n]
      BY <2>4, <1>2 DEF OwnerFacts
    <3>2. owners[n] \in ts'.Layouts /\ owners[n] \in ts'.Class[n]
      BY <3>1, <1>1
    <3> QED  BY <2>0, <2>4, <3>2 DEF OwnerFacts
  <2> QED  BY <2>0, <2>1, <2>2, <2>3, <2>4, <1>1
<1>7. owners' = [owners EXCEPT ![new] = new]
  <2>1. owners \in [Node -> {owners[n] : n \in Node}] /\ owners' = [n \in Node |-> owners'[n]]
    BY DEF owners
  <2>2. owners = [n \in Node |-> owners[n]]
    BY DEF owners
  <2> HIDE DEF new
  <2> QED  BY <1>6, <2>1, <2>2
<1> QED  BY <1>1, <1>4, <1>7 DEF Graph!Create

LEMMA MergeOneIsAMerge ==
  ASSUME IndInv, OwnerFacts', MergeOne
  PROVE  \E into, from \in Graph!Live : Graph!Merge(into, from)
<1> DEFINE into == merging[1]
           from == merging[2]
<1>1. /\ into \in ts.Layouts /\ from \in ts.Layouts /\ into # from
      /\ ts' = mergeNode(ts, into, from)
  BY MergingNodes DEF MergeOne
<1> HIDE DEF into, from
<1> DEFINE both == ts.Class[into] \cup ts.Class[from]
<1>2. /\ ts'.NID = ts.NID /\ ts'.Layouts = ts.Layouts \ {from}
      /\ ts'.Succ = Graph!quotient(ts.Succ, into, from)
  BY <1>1, MergeNodeFields DEF IndInv
<1>3. /\ \A n \in Node : isRemoved(ts', n) <=> isRemoved(ts, n)
      /\ \A n \in Node : ts'.Class[n] = IF n \in both THEN both ELSE ts.Class[n]
  BY <1>1, MergeKeepsInvariant
<1>4. OwnerFacts
  BY OwnersAreWellDefined
<1>5. /\ Node \subseteq Nat /\ ts.NID \in Nat /\ ts.Layouts \subseteq Node
      /\ into \in Node /\ from \in Node /\ NoNode # from /\ RemovedType # from
      /\ \A m, n \in Node : m \in ts.Class[n] => n \in ts.Class[m]
      /\ into \in both
  BY <1>1 DEF IndInv, TypeOK, TypeSystem, SoundBookkeeping, ClassesAreAPartition
<1>6. \A n \in Node : n \in both <=> owners[n] = into \/ owners[n] = from
  BY <1>1, <1>4, <1>5 DEF OwnerFacts
<1> HIDE DEF both
<1>7. \A n \in Node : owners'[n] = IF owners[n] = from THEN into ELSE owners[n]
  <2> SUFFICES ASSUME NEW n \in Node
               PROVE  owners'[n] = IF owners[n] = from THEN into ELSE owners[n]
    OBVIOUS
  <2>1. CASE n \in both
    <3>1. into \in ts'.Layouts /\ into \in ts'.Class[n]
      BY <2>1, <1>1, <1>2, <1>3, <1>5
    <3> QED  BY <2>1, <3>1, <1>6 DEF OwnerFacts
  <2>2. CASE n >= ts.NID
    BY <2>2, <1>2, <1>4, <1>5 DEF OwnerFacts
  <2>3. CASE n < ts.NID /\ isRemoved(ts, n)
    BY <2>3, <1>2, <1>3, <1>4, <1>5 DEF OwnerFacts
  <2>4. CASE n < ts.NID /\ ~isRemoved(ts, n) /\ n \notin both
    <3>1. owners[n] \in ts.Layouts /\ owners[n] \in ts.Class[n]
      BY <2>4, <1>4 DEF OwnerFacts
    <3>2. owners[n] \in ts'.Layouts /\ owners[n] \in ts'.Class[n]
      BY <2>4, <3>1, <1>2, <1>3, <1>6
    <3> QED  BY <2>4, <3>2, <1>6 DEF OwnerFacts
  <2>5. n >= ts.NID \/ n < ts.NID
    BY <1>5
  <2> QED  BY <2>1, <2>2, <2>3, <2>4, <2>5
<1>8. owners' = [n \in Node |-> IF owners[n] = from THEN into ELSE owners[n]]
  <2>1. owners' = [n \in Node |-> owners'[n]]
    BY DEF owners
  <2> QED  BY <2>1, <1>7
<1>9. Graph!Merge(into, from)
  BY <1>1, <1>2, <1>8 DEF Graph!Merge
<1> QED  BY <1>1, <1>4, <1>9 DEF OwnerFacts

LEMMA RemoveNodeIsARemoval ==
  ASSUME IndInv, OwnerFacts', RemoveNode
  PROVE  \E n \in Graph!Live : Graph!Remove(n)
<1>1. PICK n \in ts.Layouts : ts' = removeNode(ts, n)
  BY DEF RemoveNode
<1>2. /\ ts'.NID = ts.NID /\ ts'.Layouts = ts.Layouts \ {n}
      /\ ts'.Succ = {e \in ts.Succ : n \notin {e.src, e.tgt}}
  BY <1>1, RemoveNodeFields DEF IndInv
<1>3. /\ \A m \in Node : isRemoved(ts', m) <=> isRemoved(ts, m) \/ m \in ts.Class[n]
      /\ \A m \in Node : ~isRemoved(ts', m) => ts'.Class[m] = ts.Class[m]
  BY <1>1, RemoveKeepsInvariant
<1>4. OwnerFacts
  BY OwnersAreWellDefined
<1>5. /\ Node \subseteq Nat /\ ts.NID \in Nat /\ ts.Layouts \subseteq Node
      /\ n \in Node /\ NoNode # n /\ RemovedType # n
      /\ \A k, m \in Node : k \in ts.Class[m] <=> m \in ts.Class[k]
  BY DEF IndInv, TypeOK, TypeSystem, SoundBookkeeping, ClassesAreAPartition
<1>6. \A m \in Node : m \in ts.Class[n] <=> owners[m] = n
  BY <1>4, <1>5 DEF OwnerFacts
<1>7. \A m \in Node : owners'[m] = IF owners[m] = n THEN RemovedType ELSE owners[m]
  <2> SUFFICES ASSUME NEW m \in Node
               PROVE  owners'[m] = IF owners[m] = n THEN RemovedType ELSE owners[m]
    OBVIOUS
  <2>1. CASE m >= ts.NID
    BY <2>1, <1>2, <1>4, <1>5 DEF OwnerFacts
  <2>2. CASE m < ts.NID /\ isRemoved(ts', m)
    BY <2>2, <1>2, <1>3, <1>4, <1>5, <1>6 DEF OwnerFacts
  <2>3. CASE m < ts.NID /\ ~isRemoved(ts', m)
    <3>1. ~isRemoved(ts, m) /\ owners[m] # n /\ ts'.Class[m] = ts.Class[m]
      BY <2>3, <1>3, <1>6
    <3>2. owners[m] \in ts.Layouts /\ owners[m] \in ts.Class[m]
      BY <2>3, <3>1, <1>4 DEF OwnerFacts
    <3>3. owners[m] \in ts'.Layouts /\ owners[m] \in ts'.Class[m]
      BY <3>1, <3>2, <1>2
    <3> QED  BY <3>1, <3>3 DEF OwnerFacts
  <2> QED  BY <2>1, <2>2, <2>3, <1>5
<1>8. owners' = [m \in Node |-> IF owners[m] = n THEN RemovedType ELSE owners[m]]
  <2>1. owners' = [m \in Node |-> owners'[m]]
    BY DEF owners
  <2> QED  BY <2>1, <1>7
<1>9. Graph!Remove(n)
  BY <1>2, <1>8 DEF Graph!Remove
<1> QED  BY <1>4, <1>9 DEF OwnerFacts

LEMMA NextImplementsNext ==
  IndInv /\ OwnerFacts' /\ [Next]_vars => [Graph!Next]_(Graph!graphVars)
<1> SUFFICES ASSUME IndInv, OwnerFacts', [Next]_vars PROVE [Graph!Next]_(Graph!graphVars)
  OBVIOUS
<1> USE DEF Graph!Next, Graph!graphVars
<1>1. CASE Create
  BY <1>1, CreateIsACreation
<1>2. CASE AddEqualityLink \/ AddInstanceLink \/ AddPointerLink
  <2>1. LinksAreAdded
    BY <1>2, AddEqualityLinkEdges, AddOtherLinkEdges
  <2>2. PICK S \in SUBSET ProperEdges(ts) :
          ts' = WithEdges(ts, S) /\ (S = ts.Succ \/ \E e \in S : Adds(e, S))
    BY <2>1 DEF LinksAreAdded
  <2>3. owners' = owners /\ ts'.Succ = S
    BY <2>2, EdgesOnly
  <2>4. CASE \E e \in S : Adds(e, S)
    <3>1. PICK e \in S : Adds(e, S)
      BY <2>4
    <3>2. Graph!Link(e)
      BY <2>3, <3>1, ProperEdgesJoinLiveNodes DEF Graph!Link, Adds
    <3> QED  BY <2>3, <3>2
  <2> QED  BY <2>2, <2>3, <2>4
<1>3. CASE SetSize
  BY <1>3, SetSizeFields, SameOwners
<1>4. CASE MergeNodes \/ UNCHANGED vars
  <2>1. ts' = ts
    BY <1>4 DEF MergeNodes, vars
  <2> QED  BY <2>1, SameOwners
<1>5. CASE MergeOne
  BY <1>5, MergeOneIsAMerge
<1>6. CASE RemoveNode
  BY <1>6, RemoveNodeIsARemoval
<1>7. CASE DropOutgoingEdges \/ EraseEdge
  <2>1. PICK D : ts' = WithEdges(ts, ts.Succ \ D)
    BY <1>7, EraseEdges
  <2>2. ts.Succ \ D \in SUBSET ProperEdges(ts)
    BY SameEdges
  <2> QED  BY <2>1, <2>2, EdgesOnly DEF Graph!Unlink
<1>8. CASE MoveEdgeTarget \/ MoveEdgeSource
  <2>1. PICK e \in ts.Succ :
          \/ ts' = WithEdges(ts, ts.Succ \ {e})
          \/ \E f \in ProperEdges(ts) :
               Replaces(f, e) /\ ts' = WithEdges(ts, (ts.Succ \ {e}) \cup {f})
    BY <1>8, MoveEdges
  <2>2. CASE ts' = WithEdges(ts, ts.Succ \ {e})
    <3>1. ts.Succ \ {e} \in SUBSET ProperEdges(ts)
      BY SameEdges
    <3> QED  BY <2>2, <3>1, EdgesOnly DEF Graph!Unlink
  <2>3. CASE ts' # WithEdges(ts, ts.Succ \ {e})
    <3>1. PICK f \in ProperEdges(ts) :
            Replaces(f, e) /\ ts' = WithEdges(ts, (ts.Succ \ {e}) \cup {f})
      BY <2>1, <2>3
    <3>2. (ts.Succ \ {e}) \cup {f} \in SUBSET ProperEdges(ts)
      BY SameEdges
    <3>3. owners' = owners /\ ts'.Succ = (ts.Succ \ {e}) \cup {f}
      BY <3>1, <3>2, EdgesOnly
    <3>4. Graph!Move(e, f) /\ f \in ts'.Succ
      BY <3>1, <3>3, ProperEdgesJoinLiveNodes DEF Graph!Move, Replaces
    <3> QED  BY <3>4
  <2> QED  BY <2>2, <2>3
<1> QED  BY <1>1, <1>2, <1>3, <1>4, <1>5, <1>6, <1>7, <1>8 DEF Next

(* Seen through the owners of its IDs, a LayoutTypeSystem is a graph with   *)
(* one set of links whose nodes can be identified and removed: merging,     *)
(* removing and moving edges never leave half an edge or an ID without its  *)
(* node behind.                                                             *)
THEOREM Refinement == Spec => ImplementsLayoutGraph
<1>1. Init => Graph!Init
  <2> SUFFICES ASSUME Init PROVE Graph!Init
    OBVIOUS
  <2>1. ts.NID = 0 /\ ts.Succ = {}
    BY DEF Init, EmptySystem
  <2>2. \A n \in Node : ownerOf(n) = NoNode
    BY <2>1 DEF ownerOf
  <2> QED  BY <2>1, <2>2 DEF Graph!Init, owners
<1>2. IndInv => OwnerFacts
  BY OwnersAreWellDefined
<1>3. IndInv /\ OwnerFacts' /\ [Next]_vars => [Graph!Next]_(Graph!graphVars)
  BY NextImplementsNext
<1> QED  BY <1>1, <1>2, <1>3, Invariance, PTL DEF Spec, ImplementsLayoutGraph, Graph!Spec
=============================================================================
