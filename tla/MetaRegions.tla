---------------------------- MODULE MetaRegions ----------------------------
(***************************************************************************)
(* The cyclic regions of a graph, as RestructureCFG.cpp finds them before   *)
(* it restructures them one by one: a region per backedge, merged until     *)
(* they are well nested, with their parents, innermost first.               *)
(*                                                                          *)
(* The regions are a sequence of sets of nodes; a backedge is a pair of      *)
(* nodes.                                                                   *)
(***************************************************************************)
EXTENDS RegionGraph
LOCAL INSTANCE SequencesExt
LOCAL INSTANCE FiniteSetsExt

(* A region takes in the regions of the backedges that enter one of its      *)
(* nodes, until no more can be added.                                        *)
RECURSIVE WithInnerRegions(_, _, _, _)
WithInnerRegions(nodes, head, between, backedges) ==
  LET inner == {e \in backedges : e[2] \in nodes \ {head}}
      grown == nodes \cup UNION {between[e] : e \in inner}
  IN  IF grown = nodes THEN nodes
      ELSE WithInnerRegions(grown, head, between, backedges)

CreateMetaRegions(g, backedges) ==
  LET between == [e \in backedges |-> NodesBetween(g, e[2], e[1])]
      order == EdgesInOrder(backedges)
  IN  [i \in DOMAIN order |->
         WithInnerRegions(between[order[i]], order[i][2], between, backedges)]

---------------------------------------------------------------------------
(* One of the two ends of the backedge is in the region. *)
Abnormal(nodes, e) == (e[1] \in nodes) # (e[2] \in nodes)

CheckMetaregionConsistency(regions, backedges) ==
  \A i \in DOMAIN regions : \A e \in backedges : ~Abnormal(regions[i], e)

(* The first region that a backedge leaves or enters takes in the region of  *)
(* that backedge, which is dropped at the end.  The region that stands for    *)
(* the backedge changes; the other backedges of a dropped region keep        *)
(* pointing to it.                                                            *)
RECURSIVE MergeAbnormalRetreating(_, _, _, _)
MergeAbnormalRetreating(regions, order, regionOf, blacklisted) ==
  LET Wrong(i) == {k \in DOMAIN order : Abnormal(regions[i], order[k])}
      candidates == {i \in DOMAIN regions \ blacklisted : Wrong(i) # {}}
  IN  IF candidates = {}
      THEN [regions |-> regions, blacklisted |-> blacklisted]
      ELSE LET i == Min(candidates)
               e == order[Min(Wrong(i))]
               other == regionOf[e]
           IN  MergeAbnormalRetreating(
                 [regions EXCEPT ![i] = @ \cup regions[other]], order,
                 [regionOf EXCEPT ![e] = i], blacklisted \cup {other})

SimplifySCSAbnormalRetreating(regions, backedges) ==
  LET order == EdgesInOrder(backedges)
      regionOf == [e \in backedges |-> CHOOSE k \in DOMAIN order : order[k] = e]
      merged == MergeAbnormalRetreating(regions, order, regionOf, {})
      kept == InOrder(DOMAIN regions \ merged.blacklisted)
  IN  [k \in DOMAIN kept |-> merged.regions[kept[k]]]

(* Two regions that overlap without nesting, or are the same, become one. *)
Overlap(a, b) ==
  /\ a \cap b # {}
  /\ (~(a \subseteq b) /\ ~(b \subseteq a)) \/ a = b

RECURSIVE SimplifySCS(_)
SimplifySCS(regions) ==
  LET pairs == {p \in (DOMAIN regions) \X (DOMAIN regions) :
                  p[1] < p[2] /\ Overlap(regions[p[1]], regions[p[2]])}
  IN  IF pairs = {} THEN regions
      ELSE LET p == CHOOSE p \in pairs : \A q \in pairs :
                      p[1] < q[1] \/ (p[1] = q[1] /\ p[2] <= q[2])
           IN  SimplifySCS(RemoveAt([regions EXCEPT ![p[1]] = @ \cup regions[p[2]]],
                                    p[2]))

SortMetaRegions(regions) ==
  LET order == Sorted(DOMAIN regions, LAMBDA i, j :
                 \/ Cardinality(regions[i]) < Cardinality(regions[j])
                 \/ Cardinality(regions[i]) = Cardinality(regions[j]) /\ i < j)
  IN  [k \in DOMAIN order |-> regions[order[k]]]

NoParent == 0

(* The first, hence smallest, region that includes this one. *)
ComputeParents(regions) ==
  [i \in DOMAIN regions |->
     LET including == {j \in DOMAIN regions \ {i} : regions[i] \subseteq regions[j]}
     IN  IF including = {} THEN NoParent ELSE Min(including)]

(* Each time the first region whose parent is already out; the result is     *)
(* read from the end.                                                          *)
RECURSIVE ParentsFirst(_, _)
ParentsFirst(parent, done) ==
  LET ready == {i \in DOMAIN parent \ Range(done) :
                  parent[i] \in {NoParent} \cup Range(done)}
  IN  IF ready = {} THEN done
      ELSE ParentsFirst(parent, Append(done, Min(ready)))

ApplyPartialOrder(parent) == Reverse(ParentsFirst(parent, << >>))

(* How many regions surround a region, itself included. *)
RECURSIVE NestingLevel(_, _)
NestingLevel(parent, i) ==
  IF i = NoParent THEN 0 ELSE 1 + NestingLevel(parent, parent[i])

(* Two candidates of mostNestedRegion are the most nested: the code asserts  *)
(* that this does not happen, in whatever order it meets them.               *)
MostNestedTwice(parent, S) ==
  \E i, j \in S \ {NoParent} :
    /\ i # j
    /\ NestingLevel(parent, i) = NestingLevel(parent, j)
    /\ \A k \in S \ {NoParent} :
         NestingLevel(parent, k) <= NestingLevel(parent, i)

MostNestedRegion(parent, S) ==
  IF S \ {NoParent} = {} THEN NoParent
  ELSE CHOOSE i \in S \ {NoParent} : \A j \in S \ {NoParent} :
         NestingLevel(parent, j) <= NestingLevel(parent, i)

---------------------------------------------------------------------------
(* The edges around a set of nodes of a graph. *)

OutEdges(g, nodes) ==
  UNION {{<<x, y>> : y \in Targets(g, x) \ nodes} : x \in nodes}
InEdges(g, nodes) ==
  UNION {{<<x, y>> : y \in Targets(g, x) \cap nodes} : x \in Ids(g) \ nodes}
Successors(g, nodes) == {e[2] : e \in OutEdges(g, nodes)}
=============================================================================
