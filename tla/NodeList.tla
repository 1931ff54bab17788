------------------------------ MODULE NodeList ------------------------------
(***************************************************************************)
(* What a group promises a layout manager: a list of nodes, in the order   *)
(* in which `get` indexes them whatever the group's orientation, with the  *)
(* set of those added since the changes were last applied.                 *)
(***************************************************************************)
EXTENDS Sequences, SequencesExt

CONSTANT Windows

VARIABLES
  nodes,    \* the windows, first to last
  new       \* those whose addition is still to be applied

vars == <<nodes, new>>

Unused == Windows \ ToSet(nodes)

\* The batches of windows that can still be added.
Batches == {b \in UNION {[1 .. n -> Unused] : n \in 1 .. 2} : IsInjective(b)}

Init == nodes = <<>> /\ new = {}

Add(list, batch) == nodes' = list /\ new' = new \cup ToSet(batch)

AddLast(batch)  == Add(nodes \o batch, batch)
AddFirst(batch) == Add(Reverse(batch) \o nodes, batch)
AddAt(i, batch) ==
  Add(SubSeq(nodes, 1, i) \o batch \o SubSeq(nodes, i + 1, Len(nodes)), batch)

Drop(k) == nodes' = RemoveAt(nodes, k) /\ new' = new \ {nodes[k]}

\* set_window: another window takes the place of the k-th.
Replace(k, w) ==
  /\ nodes' = ReplaceAt(nodes, k, w)
  /\ new' = IF nodes[k] \in new THEN (new \ {nodes[k]}) \cup {w} ELSE new

\* The group is turned round.
Flip == nodes' = Reverse(nodes) /\ new' = new

Settle == new' = {} /\ nodes' = nodes

Next ==
  \/ \E batch \in Batches :
       \/ AddLast(batch)
       \/ AddFirst(batch)
       \/ \E i \in 0 .. Len(nodes) : AddAt(i, batch)
  \/ \E k \in 1 .. Len(nodes) : Drop(k) \/ \E w \in Unused : Replace(k, w)
  \/ Flip
  \/ Settle

Spec == Init /\ [][Next]_vars

=============================================================================
