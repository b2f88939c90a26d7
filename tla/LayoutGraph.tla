----------------------------- MODULE LayoutGraph -----------------------------
(****************************************************************************)
(* What the steps of the Data Layout Analysis, and the back-end that makes  *)
(* model types out of their result, rely on when they use a                 *)
(* LayoutTypeSystem: a graph of live nodes, and for every ID ever given to  *)
(* a value the live node that stands for it now, its owner.                 *)
(*                                                                          *)
(* There is one set of links and no notion of equivalence class here: that  *)
(* the Successors and Predecessors of the nodes and VectEqClasses amount to *)
(* this is what LayoutTypeSystem is shown to implement.                     *)
(****************************************************************************)
CONSTANTS
  Node,         \* the IDs
  NoNode,       \* the owner of an ID that was not given yet
  RemovedType   \* the owner of an ID whose type was removed from the graph

VARIABLES
  owner,   \* the owner of each ID
  links    \* the links between live nodes

graphVars == <<owner, links>>

Live == {n \in Node : owner[n] = n}

JoinsLiveNodes(e) == e.src \in Live /\ e.tgt \in Live /\ e.src # e.tgt
Reverse(e) == [e EXCEPT !.src = e.tgt, !.tgt = e.src]

Init == owner = [n \in Node |-> NoNode] /\ links = {}

Create(n) ==
  /\ owner[n] = NoNode
  /\ owner' = [owner EXCEPT ![n] = n]
  /\ links' = links

(* A link, or a link and its reverse, is added.                             *)
Link(e) ==
  /\ JoinsLiveNodes(e)
  /\ links' \in {links \cup {e}, links \cup {e, Reverse(e)}}
  /\ owner' = owner

Unlink ==
  /\ links' \subseteq links
  /\ owner' = owner

(* A link gets another end and another offset.                              *)
Move(e, f) ==
  /\ JoinsLiveNodes(f)
  /\ f.tag.Kind = e.tag.Kind
  /\ f.src = e.src \/ f.tgt = e.tgt
  /\ links' = (links \ {e}) \cup {f}
  /\ owner' = owner

(* The owner of one set of IDs becomes the owner of another's, and takes    *)
(* all of its links; those between the two nodes disappear.                 *)
renamed(e, into, from) ==
  [e EXCEPT !.src = IF @ = from THEN into ELSE @, !.tgt = IF @ = from THEN into ELSE @]
quotient(edges, into, from) ==
  {e \in {renamed(d, into, from) : d \in edges} : e.src # e.tgt}

Merge(into, from) ==
  /\ into # from
  /\ owner' = [n \in Node |-> IF owner[n] = from THEN into ELSE owner[n]]
  /\ links' = quotient(links, into, from)

Remove(n) ==
  /\ owner' = [m \in Node |-> IF owner[m] = n THEN RemovedType ELSE owner[m]]
  /\ links' = {e \in links : n \notin {e.src, e.tgt}}

Next ==
  \/ \E n \in Node : Create(n)
  \/ \E e \in links' : Link(e)
  \/ Unlink
  \/ \E e \in links, f \in links' : Move(e, f)
  \/ \E into, from \in Live : Merge(into, from)
  \/ \E n \in Live : Remove(n)

Spec == Init /\ [][Next]_graphVars
=============================================================================
