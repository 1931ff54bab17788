--------------------------- MODULE TilingContract ---------------------------
(***************************************************************************)
(* What a layout manager promises (the trait TilingLayoutManager of        *)
(* src/src/layout.rs): a window is in the layout from the call that adds   *)
(* it to the call that removes it, and no other call adds or removes it.   *)
(* Stack promises more: the windows keep the order in which they came.     *)
(***************************************************************************)
EXTENDS Sequences, SequencesExt

CONSTANT Windows

VARIABLE tiled          \* the windows of the layout, the main window first

Init == tiled = <<>>

Add(w) == tiled' = Append(tiled, w)
Drop(w) == \E k \in DOMAIN tiled : tiled[k] = w /\ tiled' = RemoveAt(tiled, k)

Next == \E w \in Windows : (w \notin ToSet(tiled) /\ Add(w)) \/ Drop(w)

Spec == Init /\ [][Next]_tiled

=============================================================================
