----------------------------- MODULE MCWayland -----------------------------
(***************************************************************************)
(* Small instances of Wayland.                                             *)
(***************************************************************************)
EXTENDS Wayland

CONSTANTS w1, w2

\* One client has both windows, or each has its own.
OneOrTwoClients == {[w \in Windows |-> None], [w \in Windows |-> w]}
OneClient == {[w \in Windows |-> None]}

\* A motion by a pixel and a half.
Screen == {0, 3}

\* A client that states no limits, and one that states some once it shows something.
NoLimits == {<<0, 0>>}
SomeLimits == {<<2, 3>>}

=============================================================================
