---------------------------- MODULE MCGroupNode ----------------------------
(***************************************************************************)
(* Small instances of GroupNode.                                           *)
(***************************************************************************)
EXTENDS GroupNode

Pushes == {"push_window_back", "push_window_front"}
Batched == {"push_windows_back", "push_windows_front"}
Inserts == {"insert_window", "insert_windows"}
Pops == {"pop_back", "pop_front"}
Turning == {"set_orientation", "rotate_by"}

AllCalls ==
  Pushes \cup Batched \cup Inserts \cup Pops \cup Turning \cup {"remove", "set_window"}
CallsButPops == AllCalls \ Pops
StructuralCalls == AllCalls \ {"rotate_by", "set_window"}
SingleCalls == AllCalls \ (Batched \cup Inserts)

Upright == {"LeftToRight", "TopToBottom"}
TurnedRound == {"RightToLeft", "BottomToTop"}

\* A group a few pixels wide: roundings, windows of no size and windows that
\* do not fit are all within reach.
Tight == Along("Horizontal", 7, 5)
TightResizes == {<<"Horizontal", 2>>}

OneMove == {<<"Vertical", -3>>}
Never == {}

AnyWindow == Permutations(Windows)

=============================================================================
