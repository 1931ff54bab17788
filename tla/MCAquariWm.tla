---------------------------- MODULE MCAquariWm ----------------------------
(***************************************************************************)
(* Small instances of AquariWm.                                            *)
(***************************************************************************)
EXTENDS AquariWm

\* A screen on which halves and thirds are not exact, the main window can be
\* left no width, and gaps of three leave three windows of a stack no height.
SmallScreen == Along("Horizontal", 23, 13)

AnyWindow == Permutations(Windows)

=============================================================================
