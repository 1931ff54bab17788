------------------------------ MODULE AquariWm ------------------------------
(***************************************************************************)
(* The calls that a display server makes on AquariWm (src/src/state.rs),   *)
(* in any order: windows are created, mapped, unmapped and destroyed, and  *)
(* changes are applied after one of these or after several.                *)
(***************************************************************************)
EXTENDS State, FiniteSets

CONSTANTS
  Windows,        \* the windows there can be
  Recreates       \* a window may be added that is tracked already

ASSUME RecreatesAssumption == Recreates \in BOOLEAN

VARIABLES
  wm,             \* AquariWm
  told,           \* the place each tiled window was last given, if it was
  panicked        \* a call panicked: the program has ended

vars == <<wm, told, panicked>>

-----------------------------------------------------------------------------

Init ==
  /\ wm = NewWm
  /\ told = [w \in {} |-> 0]
  /\ panicked = FALSE

\* What is said of windows that leave the layout is forgotten.
Call(after) ==
  /\ wm' = after
  /\ told' = [w \in DOMAIN told \cap ToSet(Tiled(after)) |-> told[w]]
  /\ UNCHANGED panicked

\* add_window asks nothing of the window: one that is tracked is recorded anew, with
\* the state that is given. Whether a display server makes that call is `Recreates`.
Create(w, mapped) ==
  /\ Recreates \/ w \notin Tracked(wm)
  /\ Call(AddWindow(wm, w, mapped))
Destroy(w) == Call(RemoveWindow(wm, w))
Map(w) == w \in Tracked(wm) /\ Call(MapWindow(wm, w))
Unmap(w) == w \in Tracked(wm) /\ Call(UnmapWindow(wm, w))

\* map_window and unmap_window expect the window to be tracked.
CallFails(w) ==
  /\ w \notin Tracked(wm)
  /\ panicked' = TRUE
  /\ UNCHANGED <<wm, told>>

ApplyChanges ==
  /\ ~AppliedPanics(wm.layout)
  /\ wm' = [wm EXCEPT !.layout = Applied(@)]
  /\ told' = LET nodes == ToReconfigure(wm.layout)
                 reached == {node.window : node \in nodes}
                 Of(w) == CHOOSE node \in nodes : node.window = w
             IN  [w \in DOMAIN told \cup reached |->
                    IF w \in reached THEN Place(Of(w)) ELSE told[w]]
  /\ UNCHANGED panicked

ApplyFails ==
  /\ AppliedPanics(wm.layout)
  /\ panicked' = TRUE
  /\ UNCHANGED <<wm, told>>

Next ==
  /\ ~panicked
  /\ \/ \E w \in Windows :
          \/ \E mapped \in MapStates : Create(w, mapped)
          \/ Destroy(w)
          \/ Map(w)
          \/ Unmap(w)
          \/ CallFails(w)
     \/ ApplyChanges
     \/ ApplyFails

Spec == Init /\ [][Next]_vars

-----------------------------------------------------------------------------
(* Properties.                                                             *)

Settled ==
  /\ ~ChangesMade(wm.layout)
  /\ \A k \in DOMAIN wm.layout.children :
       LET node == wm.layout.children[k]
       IN  IF node.kind = "group" THEN ~ChangesMade(node) ELSE ~node.changed

\* The layout holds the mapped windows, each once, and no other.
TiledAreMapped ==
  /\ IsInjective(Tiled(wm))
  /\ ToSet(Tiled(wm)) = {w \in Tracked(wm) : wm.windows[w] = "Mapped"}

Contract == INSTANCE TilingContract WITH tiled <- Tiled(wm)

\* The layout manager does what its trait promises, and keeps the windows in
\* the order in which they were mapped.
ImplementsContract == Contract!Spec

\* Each window that is tiled has been told where its node is.
ToldTheTruth ==
  Settled => LET nodes == WindowNodes(wm.layout)
             IN  \A k \in DOMAIN nodes :
                   /\ nodes[k].window \in DOMAIN told
                   /\ told[nodes[k].window] = Place(nodes[k])

Before(a, b, axis) == a.at[axis] + a.size[axis] + Gap <= b.at[axis]

\* The windows are on the screen, inside its padding, and no two overlap: one
\* is beside or above the other, the gap between them.
NoneOverlap ==
  Settled =>
    LET nodes == WindowNodes(wm.layout)
    IN  \A j, k \in DOMAIN nodes :
          /\ \A axis \in Axes : /\ nodes[k].at[axis] >= Gap
                                /\ nodes[k].size[axis] >= 0
                                /\ nodes[k].at[axis] + nodes[k].size[axis]
                                     <= Screen[axis] - Gap
          /\ j < k => \E axis \in Axes : Before(nodes[j], nodes[k], axis)

Placed(layout) == HasMain(layout) /\ ~Main(layout).fresh

\* While there is a stack the place of the main window stays the same, whichever
\* windows come to the stack, leave it or become the main window.
MainKeepsItsPlace ==
  [][/\ Placed(wm.layout) /\ HasStack(wm.layout) /\ ~wm.layout.children[2].fresh
     /\ HasStack(wm'.layout)
     => HasMain(wm'.layout) /\ Place(Main(wm'.layout)) = Place(Main(wm.layout))]_vars

\* Applying changes panics only where the gaps alone are wider than a group, or
\* where no node that stays in a group has any size.
PanicsOnlyWithoutRoom ==
  [][ApplyFails =>
       \E group \in {wm.layout} \cup {Arranged(wm.layout).children[2] : k \in
                                        {k \in {2} : HasStack(wm.layout)}} :
         LET axis == Axis(group.orientation)
         IN  \/ group.size[axis] < TotalGap(Len(group.children))
             \/ \A k \in DOMAIN group.children : group.children[k].size[axis] = 0]_vars

\* When a window leaves a layout that is settled the others are to be placed
\* anew: changes_made says that something is to be applied.
LeavingIsAChange ==
  [][Settled /\ (\E node \in ToSet(WindowNodes(wm.layout)) : node.window \notin ToSet(Tiled(wm')))
       /\ wm'.layout.children # <<>>
     => ~Settled']_vars

=============================================================================
