------------------------------- MODULE State -------------------------------
(***************************************************************************)
(* `AquariWm` of src/src/state.rs: the layout and the windows that are     *)
(* tracked, each with whether it is mapped, as a value and its methods.    *)
(* Nothing in the program makes a window floating, so that every window    *)
(* is `Mode::Tiled` and its WindowState is its MapState.                   *)
(***************************************************************************)
EXTENDS Stack

MapStates == {"Mapped", "Unmapped"}

NewWm == [layout |-> NewLayout, windows |-> [w \in {} |-> "Unmapped"]]

Tracked(wm) == DOMAIN wm.windows

Track(wm, w, mapped) == [wm EXCEPT !.windows = With(@, w, mapped)]

AddWindow(wm, w, mapped) ==
  Track(IF mapped = "Mapped" THEN [wm EXCEPT !.layout = AddToLayout(@, w)] ELSE wm, w, mapped)

\* The window is no longer tracked; it leaves the layout if it was mapped.
RemoveWindow(wm, w) ==
  [layout  |-> IF w \in Tracked(wm) /\ wm.windows[w] = "Mapped"
               THEN RemoveFromLayout(wm.layout, w) ELSE wm.layout,
   windows |-> [v \in Tracked(wm) \ {w} |-> wm.windows[v]]]

\* Slip: a window that is mapped already is added to the layout again.
MapWindowAgain(wm, w) == Track([wm EXCEPT !.layout = AddToLayout(@, w)], w, "Mapped")

\* Slip: the state of the window is not updated.
MapWindowUnrecorded(wm, w) ==
  IF wm.windows[w] = "Unmapped" THEN [wm EXCEPT !.layout = AddToLayout(@, w)] ELSE wm

\* Slip: the window stays in the layout.
UnmapWindowInPlace(wm, w) == Track(wm, w, "Unmapped")

\* map_window and unmap_window of a tracked window.
MapWindow(wm, w) ==
  Track(IF wm.windows[w] = "Unmapped" THEN [wm EXCEPT !.layout = AddToLayout(@, w)] ELSE wm,
        w, "Mapped")
UnmapWindow(wm, w) ==
  Track(IF wm.windows[w] = "Mapped" THEN [wm EXCEPT !.layout = RemoveFromLayout(@, w)] ELSE wm,
        w, "Unmapped")

\* The windows of the layout, in its order.
Tiled(wm) ==
  LET nodes == WindowNodes(wm.layout) IN [k \in DOMAIN nodes |-> nodes[k].window]

=============================================================================
