------------------------------- MODULE Group -------------------------------
(***************************************************************************)
(* A group of nodes of a tiling layout, as a value: the fields of          *)
(* `GroupNode` and `WindowNode` (src/src/layout.rs) and the operations on  *)
(* them of node_changes.rs, each an operator from the group before the     *)
(* call to the group after it.  GroupNode.tla makes a state machine of one *)
(* group; Stack.tla nests one group in another.                     *)
(*                                                                         *)
(* Indices are the code's, from 0: the node of index i is children[i + 1]. *)
(* Coordinates and dimensions are functions of the axis, so that `width`   *)
(* and `height` are size["Horizontal"] and size["Vertical"].               *)
(*                                                                         *)
(* A definition whose comment begins with "Slip:" is no part of the model: *)
(* it is the next one as a likely mistake in the code would make it, and a *)
(* property must be able to tell the two apart.                            *)
(***************************************************************************)
EXTENDS Integers, Sequences, SequencesExt

CONSTANT Gap            \* LayoutSettings::window_gap, the same for the whole run

ASSUME GapAssumption == Gap \in Nat

None == "None"          \* an Option that is None

Axes == {"Horizontal", "Vertical"}
Orientations == {"LeftToRight", "TopToBottom", "RightToLeft", "BottomToTop"}

Axis(o) == IF o \in {"LeftToRight", "RightToLeft"} THEN "Horizontal" ELSE "Vertical"
OtherAxis(axis) == IF axis = "Horizontal" THEN "Vertical" ELSE "Horizontal"
Reversed(o) == o \in {"RightToLeft", "BottomToTop"}

Clockwise == <<"LeftToRight", "TopToBottom", "RightToLeft", "BottomToTop">>
RotatedBy(o, rotations) ==
  LET current == CHOOSE k \in 0 .. 3 : Clockwise[k + 1] = o
  IN  Clockwise[((current + rotations) % 4) + 1]

Both(value) == [axis \in Axes |-> value]
Along(axis, primary, secondary) ==
  [a \in Axes |-> IF a = axis THEN primary ELSE secondary]

\* The changes that are still to be applied to the sides, or to the corner, of
\* a group: a function of the axes that have one.
Unchanged == [axis \in {} |-> 0]

\* f with the value at x, whether or not it had one there.
With(f, x, value) == [y \in DOMAIN f \cup {x} |-> IF y = x THEN value ELSE f[y]]
Taken(pending, old) ==
  [axis \in Axes |-> IF axis \in DOMAIN pending THEN pending[axis] ELSE old[axis]]

-----------------------------------------------------------------------------
(* Nodes.  `fresh` is a ghost field, read by no operation: the node was    *)
(* added since changes were last applied to its group.                     *)

WindowNode(w) ==
  [kind |-> "window", window |-> w, changed |-> FALSE,
   at |-> Both(0), size |-> Both(0), fresh |-> TRUE]

GroupOf(o, at, size) ==
  [kind |-> "group", orientation |-> o, newOrientation |-> None,
   children |-> <<>>, total |-> 0, additions |-> <<>>, removed |-> 0,
   newSize |-> Unchanged, newAt |-> Unchanged,
   at |-> at, size |-> size, fresh |-> TRUE]

\* GroupNode::orientation(): the orientation the next apply_changes will give.
OrientationOf(g) == IF g.newOrientation # None THEN g.newOrientation ELSE g.orientation

\* The list index of the node that is i-th in the given orientation.
Slot(o, len, i) == IF Reversed(o) THEN len - 1 - i ELSE i

\* GroupNode::get(i), for i in bounds.
NodeAt(g, i) == g.children[Slot(OrientationOf(g), Len(g.children), i) + 1]

-----------------------------------------------------------------------------
(* `additions`, the sorted list of the indices of the new nodes.           *)

Members(s) == {s[k] : k \in DOMAIN s}
Increasing(s) == \A j, k \in DOMAIN s : j < k => s[j] < s[k]

ShiftFrom(s, from, by) == [k \in DOMAIN s |-> IF k >= from THEN s[k] + by ELSE s[k]]

\* How many members of the sorted list s come before i.
PartitionPoint(s, i) ==
  CHOOSE p \in 0 .. Len(s) : /\ \A k \in 1 .. p : s[k] < i
                             /\ \A k \in (p + 1) .. Len(s) : s[k] >= i

\* The sequence t between the first i elements of s and the others.
Splice(s, i, t) == SubSeq(s, 1, i) \o t \o SubSeq(s, i + 1, Len(s))

\* n indices from `first` on.
Run(first, n) == [k \in 1 .. n |-> first + k - 1]

\* Slip: the nodes behind those inserted keep their old indices.
TrackInsertUnshifted(s, i, n) == Splice(s, PartitionPoint(s, i), Run(i, n))

\* n nodes are inserted at i, one by one.
TrackInsert(s, i, n) ==
  LET p == PartitionPoint(s, i) IN Splice(ShiftFrom(s, p + 1, n), p, Run(i, n))

\* len is the number of nodes once the node is pushed, or popped.
TrackPushBack(s, len) == Append(s, len - 1)

\* Slip: the other nodes keep their old indices.
TrackPushFrontUnshifted(s) == <<0>> \o s

TrackPushFront(s) == <<0>> \o ShiftFrom(s, 1, 1)

\* Slip: the nodes behind the one removed keep their old indices.
TrackRemoveUnshifted(s, i) ==
  LET p == PartitionPoint(s, i)
  IN  IF p < Len(s) /\ s[p + 1] = i THEN RemoveAt(s, p + 1) ELSE s

TrackRemove(s, i) ==
  LET p   == PartitionPoint(s, i)
      hit == p < Len(s) /\ s[p + 1] = i
  IN  ShiftFrom(IF hit THEN RemoveAt(s, p + 1) ELSE s, p + 1, -1)

TrackPopBack(s, len) == IF s # <<>> /\ s[Len(s)] = len THEN SubSeq(s, 1, Len(s) - 1) ELSE s

TrackPopFront(s) == ShiftFrom(IF s # <<>> /\ s[1] = 0 THEN Tail(s) ELSE s, 1, -1)

-----------------------------------------------------------------------------
(* Adding nodes: in the orientation the group is to have.                  *)

PushLast(g, node) ==
  [g EXCEPT !.children  = Append(@, node),
            !.additions = TrackPushBack(@, Len(g.children) + 1)]
PushFirst(g, node) ==
  [g EXCEPT !.children  = <<node>> \o @,
            !.additions = TrackPushFront(@)]

PushNodeBack(g, node) ==
  IF Reversed(OrientationOf(g)) THEN PushFirst(g, node) ELSE PushLast(g, node)
PushNodeFront(g, node) ==
  IF Reversed(OrientationOf(g)) THEN PushLast(g, node) ELSE PushFirst(g, node)

\* In a reversed group the batch calls move the nodes to one end of the list
\* and track them as if they had been pushed to the other.
PushNodesBack(g, nodes) ==
  [g EXCEPT !.children  = IF Reversed(OrientationOf(g)) THEN Reverse(nodes) \o @ ELSE @ \o nodes,
            !.additions = @ \o Run(Len(g.children), Len(nodes))]
PushNodesFront(g, nodes) ==
  [g EXCEPT !.children  = IF Reversed(OrientationOf(g)) THEN @ \o nodes ELSE Reverse(nodes) \o @,
            !.additions = Run(0, Len(nodes)) \o ShiftFrom(@, 1, Len(nodes))]

\* The unsigned subtractions of a reversed insert, or VecDeque::insert, panic.
InsertPanics(g, i) ==
  IF Reversed(OrientationOf(g)) THEN i > Len(g.children) - 1 ELSE i > Len(g.children)

\* Slip: the batch is inserted at one index, each node before the last.
InsertNodesBackwards(g, i, nodes) ==
  LET slot == Slot(OrientationOf(g), Len(g.children), i)
  IN  [g EXCEPT !.children  = Splice(@, slot, Reverse(nodes)),
                !.additions = TrackInsert(@, slot, Len(nodes))]

\* In a reversed group every node of a batch is inserted at the same slot.
InsertNodes(g, i, nodes) ==
  LET slot == Slot(OrientationOf(g), Len(g.children), i)
      new  == IF Reversed(OrientationOf(g)) THEN Reverse(nodes) ELSE nodes
  IN  [g EXCEPT !.children  = Splice(@, slot, new),
                !.additions = TrackInsert(@, slot, Len(nodes))]
InsertNode(g, i, node) == InsertNodes(g, i, <<node>>)

-----------------------------------------------------------------------------
(* Removing nodes: in the orientation the group has until changes are      *)
(* applied.  Only `remove` records the room that the node leaves.          *)

\* Slip: the room that the node leaves is not recorded.
RemoveNodeUnrecorded(g, i) ==
  LET slot == Slot(g.orientation, Len(g.children), i)
  IN  [g EXCEPT !.children  = RemoveAt(@, slot + 1),
                !.additions = TrackRemove(@, slot)]

\* Slip: the secondary dimension is recorded.
RemoveNodeAcross(g, i) ==
  LET slot == Slot(g.orientation, Len(g.children), i)
  IN  [RemoveNodeUnrecorded(g, i) EXCEPT
         !.removed = @ + g.children[slot + 1].size[OtherAxis(Axis(g.orientation))]]

RemoveNode(g, i) ==
  LET slot == Slot(g.orientation, Len(g.children), i)
  IN  [g EXCEPT !.children  = RemoveAt(@, slot + 1),
                !.additions = TrackRemove(@, slot),
                !.removed   = @ + g.children[slot + 1].size[Axis(g.orientation)]]

PopLast(g) ==
  [g EXCEPT !.children  = SubSeq(@, 1, Len(@) - 1),
            !.additions = TrackPopBack(@, Len(g.children) - 1)]
PopFirst(g) ==
  [g EXCEPT !.children  = Tail(@),
            !.additions = TrackPopFront(@)]

\* Slip: the end of the list is taken for the end of the group.
PopBackOfList(g) == PopLast(g)

PopBack(g)  == IF Reversed(g.orientation) THEN PopFirst(g) ELSE PopLast(g)
PopFront(g) == IF Reversed(g.orientation) THEN PopLast(g) ELSE PopFirst(g)

-----------------------------------------------------------------------------
(* Changing the group itself; nothing moves until changes are applied.     *)

SetOrientation(g, o) == [g EXCEPT !.newOrientation = o]
SetSize(g, axis, value) == [g EXCEPT !.newSize = With(@, axis, value)]
SetPlace(g, axis, value) == [g EXCEPT !.newAt = With(@, axis, value)]

-----------------------------------------------------------------------------
(* apply_changes.                                                          *)

ChangesMade(g) ==
  \/ g.additions # <<>>
  \/ g.removed # 0
  \/ g.newOrientation # None
  \/ DOMAIN g.newSize # {}
  \/ DOMAIN g.newAt # {}

\* Slip: the orientation is taken whether or not one is pending.
TakeChangesUnchecked(g) ==
  [g EXCEPT !.orientation = g.newOrientation, !.newOrientation = None,
            !.size = Taken(g.newSize, @), !.newSize = Unchanged,
            !.at = Taken(g.newAt, @), !.newAt = Unchanged,
            !.additions = <<>>, !.removed = 0]

\* Slip: the room that removed nodes left is not reset.
TakeChangesKeepingRemoved(g) ==
  [g EXCEPT !.orientation = OrientationOf(g), !.newOrientation = None,
            !.size = Taken(g.newSize, @), !.newSize = Unchanged,
            !.at = Taken(g.newAt, @), !.newAt = Unchanged,
            !.additions = <<>>]

\* The group with its pending orientation, size and place taken.
TakeChanges(g) ==
  [g EXCEPT !.orientation = OrientationOf(g), !.newOrientation = None,
            !.size = Taken(g.newSize, @), !.newSize = Unchanged,
            !.at = Taken(g.newAt, @), !.newAt = Unchanged,
            !.additions = <<>>, !.removed = 0]

TotalGap(n) == IF n = 0 THEN 0 ELSE (n - 1) * Gap
\* Slip: the gaps are left out.
ShareWithoutGaps(primary, n) == IF n = 0 THEN primary ELSE primary \div n

Share(primary, n) == IF n = 0 THEN primary ELSE (primary - TotalGap(n)) \div n

IsAddition(g, k) == \E j \in DOMAIN g.additions : g.additions[j] = k - 1

\* Slip: the proportions are those of the nodes before some were removed.
LengthsAsBefore(g) ==
  LET after     == TakeChanges(g)
      primary   == after.size[Axis(after.orientation)]
      n         == Len(g.children)
      share     == Share(primary, n)
      rescaling == primary - share * Len(g.additions) - TotalGap(n)
  IN  [k \in 1 .. n |->
         IF IsAddition(g, k) THEN share
         ELSE (g.children[k].size[Axis(g.orientation)] * rescaling) \div g.total]

\* Slip: the room of the removed nodes is added.
LengthsAdding(g) ==
  LET after     == TakeChanges(g)
      primary   == after.size[Axis(after.orientation)]
      n         == Len(g.children)
      share     == Share(primary, n)
      rescaling == primary - share * Len(g.additions) - TotalGap(n)
  IN  [k \in 1 .. n |->
         IF IsAddition(g, k) THEN share
         ELSE (g.children[k].size[Axis(g.orientation)] * rescaling) \div (g.total + g.removed)]

\* The primary dimension that each child of g is given: a new node its share,
\* any other what keeps its proportion of what the new nodes leave.
Lengths(g) ==
  LET after     == TakeChanges(g)
      primary   == after.size[Axis(after.orientation)]
      n         == Len(g.children)
      share     == Share(primary, n)
      rescaling == primary - share * Len(g.additions) - TotalGap(n)
      Old(k)    == g.children[k].size[Axis(g.orientation)]
  IN  [k \in 1 .. n |-> IF IsAddition(g, k) THEN share
                        ELSE (Old(k) * rescaling) \div (g.total - g.removed)]

\* Unsigned arithmetic that underflows, or a division by zero.
ApplyPanics(g) ==
  /\ ChangesMade(g)
  /\ LET after == TakeChanges(g)
         n     == Len(g.children)
     IN  \/ g.total < g.removed
         \/ after.size[Axis(after.orientation)] < TotalGap(n)
         \/ g.total = g.removed /\ \E k \in 1 .. n : ~IsAddition(g, k)

\* The sums of the first 0, 1, ... lengths: new_total_node_primary as it grows.
PartialSums(lengths) ==
  LET sum[n \in 0 .. Len(lengths)] == IF n = 0 THEN 0 ELSE sum[n - 1] + lengths[n]
  IN  sum

\* Slip: in a reversed group the far corner of the node is taken for its place.
ConfiguredFromFarEdge(g, lengths, k) ==
  LET after  == TakeChanges(g)
      axis   == Axis(after.orientation)
      offset == PartialSums(lengths)[k - 1] + Gap * (k - 1)
      coord  == IF Reversed(after.orientation)
                THEN after.size[axis] - offset ELSE offset
  IN  [g.children[k] EXCEPT
         !.at    = Along(axis, after.at[axis] + coord, after.at[OtherAxis(axis)]),
         !.size  = Along(axis, lengths[k], after.size[OtherAxis(axis)]),
         !.fresh = FALSE]

\* Slip: the nodes are laid out along the axis that the group had.
ConfiguredBeforeTurning(g, lengths, k) ==
  LET after  == TakeChanges(g)
      axis   == Axis(g.orientation)
      offset == PartialSums(lengths)[k - 1] + Gap * (k - 1)
      coord  == IF Reversed(after.orientation)
                THEN after.size[axis] - offset - lengths[k] ELSE offset
  IN  [g.children[k] EXCEPT
         !.at    = Along(axis, after.at[axis] + coord, after.at[OtherAxis(axis)]),
         !.size  = Along(axis, lengths[k], after.size[OtherAxis(axis)]),
         !.fresh = FALSE]

\* The child where configure_node puts it.
Configured(g, lengths, k) ==
  LET after  == TakeChanges(g)
      axis   == Axis(after.orientation)
      offset == PartialSums(lengths)[k - 1] + Gap * (k - 1)
      coord  == IF Reversed(after.orientation)
                THEN after.size[axis] - offset - lengths[k] ELSE offset
  IN  [g.children[k] EXCEPT
         !.at    = Along(axis, after.at[axis] + coord, after.at[OtherAxis(axis)]),
         !.size  = Along(axis, lengths[k], after.size[OtherAxis(axis)]),
         !.fresh = FALSE]

\* The group with its children placed, before theirs are.
Arranged(g) ==
  LET lengths == Lengths(g)
      n       == Len(g.children)
  IN  IF ChangesMade(g)
      THEN [TakeChanges(g) EXCEPT
              !.children = [k \in 1 .. n |-> Configured(g, lengths, k)],
              !.total    = PartialSums(lengths)[n]]
      ELSE g

\* A window has nothing of its own to apply but that it was replaced.
Leaf(node) == [node EXCEPT !.changed = FALSE]

\* apply_changes of a group of windows.
Apply(g) ==
  LET placed == Arranged(g)
  IN  [placed EXCEPT !.children = [k \in DOMAIN placed.children |-> Leaf(placed.children[k])]]

\* Slip: a window that was replaced is reconfigured only when others are.
ReconfiguredIfMoved(g) ==
  {k \in DOMAIN g.children : g.children[k].kind = "window" /\ ChangesMade(g)}

\* The windows among the children of g that its apply_changes reconfigures.
Reconfigured(g) ==
  {k \in DOMAIN g.children : /\ g.children[k].kind = "window"
                             /\ ChangesMade(g) \/ g.children[k].changed}

=============================================================================
