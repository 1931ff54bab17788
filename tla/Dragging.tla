------------------------------ MODULE Dragging ------------------------------
(***************************************************************************)
(* What a desktop promises whoever holds the mouse: a window stays where   *)
(* it is unless it is being dragged; one window at most is dragged at a    *)
(* time, from while a button is down and no longer than until every button *)
(* is up.                                                                  *)
(***************************************************************************)
CONSTANTS Windows, None

VARIABLES
  held,         \* whether a button is down
  dragged,      \* the window that is being dragged, or None
  there,        \* the windows that there are
  place         \* where each window is; it matters only for those

Init ==
  /\ held = FALSE
  /\ dragged = None
  /\ there = {}
  /\ place = [w \in Windows |-> 0]

Appear(w) ==
  /\ w \notin there
  /\ there' = there \cup {w}
  /\ place' = [place EXCEPT ![w] = 0]
  /\ UNCHANGED <<held, dragged>>

Vanish(w) == there' = there \ {w} /\ UNCHANGED <<held, dragged, place>>

Take(w) == held /\ dragged' = w /\ UNCHANGED <<held, there, place>>

\* The window that is dragged is the only one whose place changes.
Drag ==
  /\ held /\ dragged # None
  /\ \A v \in Windows \ {dragged} : place'[v] = place[v]
  /\ UNCHANGED <<held, dragged, there>>

\* A button goes down or up, or what was dragged is dropped.
Hold ==
  /\ dragged' \in {dragged, None}
  /\ held' \/ dragged' = None
  /\ held' \in BOOLEAN
  /\ UNCHANGED <<there, place>>

Next == (\E w \in Windows : Appear(w) \/ Vanish(w) \/ Take(w)) \/ Drag \/ Hold

Spec == Init /\ [][Next]_<<held, dragged, there, place>>

=============================================================================
