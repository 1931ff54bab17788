----------------------------- MODULE GroupNode -----------------------------
(***************************************************************************)
(* One group of windows and the calls that a layout manager and the window *)
(* manager make on it: the public methods of `GroupNode` (node_changes.rs) *)
(* and apply_changes, in any order.  Group.tla has their effects.          *)
(***************************************************************************)
EXTENDS Group, FiniteSets

CONSTANTS
  Windows,        \* the windows there can be
  Calls,          \* the calls that are made, by the names of their methods
  Start, Turns,   \* the first orientation, and those the group may be turned to
  Size,           \* the first size of the group, a function of the axis
  Resizes,        \* the <<axis, size>> it may be given later
  Moves           \* the <<axis, coordinate>> it may be given later

ASSUME CallsAssumption ==
  /\ {Start} \cup Turns \subseteq Orientations
  /\ Size \in [Axes -> Nat]
  /\ Resizes \subseteq Axes \X Nat
  /\ Moves \subseteq Axes \X Int

VARIABLES
  group,          \* the group
  told,           \* what each window was last reconfigured to, if it ever was
  panicked        \* a call panicked: the program has ended

vars == <<group, told, panicked>>

-----------------------------------------------------------------------------

Init ==
  /\ group = GroupOf(Start, Both(0), Size)
  /\ told = [w \in {} |-> 0]
  /\ panicked = FALSE

Held == {group.children[k].window : k \in DOMAIN group.children}
Indices == 0 .. Len(group.children) - 1

\* The windows of `told` that are still in the group.
Forget(windows) == [w \in DOMAIN told \ windows |-> told[w]]

Becomes(g) == group' = g /\ UNCHANGED <<told, panicked>>

\* Batches of windows not in the group, of at most two.
Batches ==
  {b \in UNION {[1 .. n -> Windows \ Held] : n \in 1 .. 2} : IsInjective(b)}
Nodes(batch) == [k \in DOMAIN batch |-> WindowNode(batch[k])]

PushBack(w) ==
  /\ "push_window_back" \in Calls
  /\ Becomes(PushNodeBack(group, WindowNode(w)))
PushFront(w) ==
  /\ "push_window_front" \in Calls
  /\ Becomes(PushNodeFront(group, WindowNode(w)))
PushManyBack(batch) ==
  /\ "push_windows_back" \in Calls
  /\ Becomes(PushNodesBack(group, Nodes(batch)))
PushManyFront(batch) ==
  /\ "push_windows_front" \in Calls
  /\ Becomes(PushNodesFront(group, Nodes(batch)))

Insert(i, w) ==
  /\ "insert_window" \in Calls
  /\ ~InsertPanics(group, i)
  /\ Becomes(InsertNode(group, i, WindowNode(w)))
InsertMany(i, batch) ==
  /\ "insert_windows" \in Calls
  /\ ~InsertPanics(group, i)
  /\ Becomes(InsertNodes(group, i, Nodes(batch)))

\* The subtractions of an insertion into a reversed group underflow.
InsertFails(i) ==
  /\ Calls \cap {"insert_window", "insert_windows"} # {}
  /\ InsertPanics(group, i)
  /\ panicked' = TRUE
  /\ UNCHANGED <<group, told>>

\* What is removed is no longer the window manager's to place.
Discard(g, node) ==
  /\ group' = g
  /\ told' = Forget({node.window})
  /\ UNCHANGED panicked

RemoveNth(i) ==
  /\ "remove" \in Calls
  /\ Discard(RemoveNode(group, i),
             group.children[Slot(group.orientation, Len(group.children), i) + 1])

Popped(last) == group.children[IF last THEN Len(group.children) ELSE 1]

PopAtBack ==
  /\ "pop_back" \in Calls
  /\ group.children # <<>>
  /\ Discard(PopBack(group), Popped(~Reversed(group.orientation)))
PopAtFront ==
  /\ "pop_front" \in Calls
  /\ group.children # <<>>
  /\ Discard(PopFront(group), Popped(Reversed(group.orientation)))

\* get_mut(i), and set_window on the window node there.
ReplaceWindow(i, w) ==
  /\ "set_window" \in Calls
  /\ LET slot == Slot(OrientationOf(group), Len(group.children), i)
     IN  /\ group' = [group EXCEPT !.children[slot + 1].window = w,
                                   !.children[slot + 1].changed = TRUE]
         /\ told' = Forget({group.children[slot + 1].window})
  /\ UNCHANGED panicked

Turn(o) == "set_orientation" \in Calls /\ Becomes(SetOrientation(group, o))

\* rotate_by
Rotate(rotations) ==
  LET o == RotatedBy(OrientationOf(group), rotations)
  IN  "rotate_by" \in Calls /\ o \in Turns /\ Becomes(SetOrientation(group, o))

Resize(axis, value) == Becomes(SetSize(group, axis, value))
Move(axis, value) == Becomes(SetPlace(group, axis, value))

ApplyChanges ==
  /\ ~ApplyPanics(group)
  /\ group' = Apply(group)
  /\ told' = LET reached == {group.children[k].window : k \in Reconfigured(group)}
                 Placed(w) == group'.children[CHOOSE k \in DOMAIN group.children :
                                                group.children[k].window = w]
             IN  [w \in DOMAIN told \cup reached |->
                    IF w \in reached THEN [at |-> Placed(w).at, size |-> Placed(w).size]
                    ELSE told[w]]
  /\ UNCHANGED panicked

\* Arithmetic that underflows, or divides by zero, while changes are applied.
ApplyFails ==
  /\ ApplyPanics(group)
  /\ panicked' = TRUE
  /\ UNCHANGED <<group, told>>

Next ==
  /\ ~panicked
  /\ \/ \E w \in Windows \ Held :
          \/ PushBack(w)
          \/ PushFront(w)
          \/ \E i \in Indices \cup {Len(group.children)} : Insert(i, w)
          \/ \E i \in Indices : ReplaceWindow(i, w)
     \/ \E batch \in Batches :
          \/ PushManyBack(batch)
          \/ PushManyFront(batch)
          \/ \E i \in Indices \cup {Len(group.children)} : InsertMany(i, batch)
     \/ \E i \in Indices \cup {Len(group.children)} : InsertFails(i)
     \/ \E i \in Indices : RemoveNth(i)
     \/ PopAtBack
     \/ PopAtFront
     \/ \E o \in Turns : Turn(o)
     \/ \E rotations \in {-1, 1, 2} : Rotate(rotations)
     \/ \E resize \in Resizes : Resize(resize[1], resize[2])
     \/ \E move \in Moves : Move(move[1], move[2])
     \/ ApplyChanges
     \/ ApplyFails

Spec == Init /\ [][Next]_vars

-----------------------------------------------------------------------------
(* Properties.                                                             *)

Node == [kind : {"window"}, window : Windows, changed : BOOLEAN, fresh : BOOLEAN,
         at : [Axes -> Int], size : [Axes -> Int]]

IsGroup(g) ==
  /\ DOMAIN g = {"kind", "orientation", "newOrientation", "children", "total", "additions",
                 "removed", "newSize", "newAt", "at", "size", "fresh"}
  /\ g.orientation \in Orientations
  /\ g.newOrientation \in Orientations \cup {None}
  /\ g.children \in Seq(Node)
  /\ g.additions \in Seq(Int)
  /\ g.total \in Int /\ g.removed \in Int
  /\ \E D \in SUBSET Axes : g.newSize \in [D -> Int]
  /\ \E D \in SUBSET Axes : g.newAt \in [D -> Int]
  /\ g.at \in [Axes -> Int] /\ g.size \in [Axes -> Int]

\* The values of the variables.
TypeOK ==
  /\ IsGroup(group)
  /\ \E D \in SUBSET Windows : told \in [D -> [at : [Axes -> Int], size : [Axes -> Int]]]
  /\ panicked \in BOOLEAN

\* `additions` stays the sorted list that track_remove searches and that
\* apply_changes walks beside the nodes, each entry the index of a node.
AdditionsSorted ==
  Increasing(group.additions) /\ Members(group.additions) \subseteq Indices

\* `additions` names exactly the nodes added since changes were last applied,
\* whatever was pushed, inserted, removed and popped in between.
AdditionsAreFresh ==
  /\ Increasing(group.additions)
  /\ Members(group.additions) = {i \in Indices : group.children[i + 1].fresh}

Primary == group.size[Axis(group.orientation)]
Lasts == Len(group.children)
PrimarySizes ==
  [k \in DOMAIN group.children |-> group.children[k].size[Axis(group.orientation)]]
PrimaryTotal == PartialSums(PrimarySizes)[Lasts]

\* total_node_primary is the size of the nodes that are there, and of those
\* that `remove` has taken away since changes were last applied.
TotalIsSum == group.total = PrimaryTotal + group.removed

\* It is never less: apply_changes divides each node's size by the total to
\* give it its part of the room, so the parts never exceed the room.
TotalCoversNodes == group.total >= PrimaryTotal + group.removed

\* The node that is k-th from the left, or from the top.
InPlace(k) == group.children[IF Reversed(group.orientation) THEN Lasts + 1 - k ELSE k]

\* Once changes are applied every node is inside the group, the gap at least
\* separates it from the next, and it spans the group's other axis.
Fits ==
  LET axis   == Axis(group.orientation)
      other  == OtherAxis(axis)
      End(k) == InPlace(k).at[axis] + InPlace(k).size[axis]
  IN  ~ChangesMade(group) =>
        \A k \in 1 .. Lasts :
          /\ InPlace(k).size[axis] >= 0
          /\ InPlace(k).at[axis] >= group.at[axis]
          /\ End(k) <= group.at[axis] + Primary
          /\ k < Lasts => End(k) + Gap <= InPlace(k + 1).at[axis]
          /\ InPlace(k).at[other] = group.at[other]
          /\ InPlace(k).size[other] = group.size[other]

\* Once changes are applied each window has been reconfigured to the place of
\* its node, the windows that replaced another included.
ToldTheTruth ==
  ~ChangesMade(group) =>
    \A k \in DOMAIN group.children :
      LET node == group.children[k]
      IN  ~node.changed => /\ node.window \in DOMAIN told
                           /\ told[node.window] = [at |-> node.at, size |-> node.size]

Resized == DOMAIN group.newSize # {} \/ group.newOrientation # None

\* When nodes were only removed, applying the changes shrinks none of the others.
RemovalGivesRoom ==
  [][ApplyChanges /\ ~Resized /\ group.additions = <<>> =>
       \A k \in DOMAIN PrimarySizes : PrimarySizes'[k] >= PrimarySizes[k]]_vars

\* Applying changes leaves unused less than a pixel for each node: what the
\* integer divisions round down, and no more.
WastesNothing ==
  [][ApplyChanges /\ ChangesMade(group) /\ Lasts > 0 =>
       (Primary - TotalGap(Lasts) - PrimaryTotal)' < Lasts]_vars

\* Applying changes underflows only where the gaps alone are wider than the
\* group, and divides by zero only where no node that stays has any size.
PanicsOnlyWithoutRoom ==
  [][ApplyFails =>
       LET after == TakeChanges(group)
       IN  \/ after.size[Axis(after.orientation)] < TotalGap(Lasts)
           \/ \A k \in DOMAIN PrimarySizes : PrimarySizes[k] = 0]_vars

\* The group as the list that `get` indexes.
Visible ==
  [k \in DOMAIN group.children |->
     group.children[Slot(OrientationOf(group), Lasts, k - 1) + 1].window]
List == INSTANCE NodeList WITH
          nodes <- Visible,
          new   <- {group.children[i + 1].window : i \in Members(group.additions)}

\* Whatever the calls, the list changes by the steps of NodeList only.
ImplementsNodeList == List!Spec

\* Each call does to the list what its name says, at the index it is given, in
\* a reversed group too; turning the group round flips the list, and applying
\* the changes leaves it alone.
CallsDoWhatTheySay ==
  [][/\ \A batch \in Batches :
          LET single == Len(batch) = 1
          IN  /\ PushManyBack(batch) \/ (single /\ PushBack(batch[1])) => List!AddLast(batch)
              /\ PushManyFront(batch) \/ (single /\ PushFront(batch[1])) => List!AddFirst(batch)
              /\ \A i \in 0 .. Lasts :
                   InsertMany(i, batch) \/ (single /\ Insert(i, batch[1])) => List!AddAt(i, batch)
     /\ \A i \in Indices :
          /\ RemoveNth(i) => List!Drop(i + 1)
          /\ \A w \in Windows \ Held : ReplaceWindow(i, w) => List!Replace(i + 1, w)
     /\ PopAtBack => List!Drop(Lasts)
     /\ PopAtFront => List!Drop(1)
     /\ \A o \in Turns : Turn(o) => IF Reversed(o) = Reversed(OrientationOf(group))
                                    THEN UNCHANGED List!vars ELSE List!Flip
     /\ ApplyChanges => List!Settle]_vars

=============================================================================
