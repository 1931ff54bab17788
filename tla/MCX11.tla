------------------------------- MODULE MCX11 -------------------------------
(***************************************************************************)
(* Small instances of X11.                                                 *)
(***************************************************************************)
EXTENDS X11

SmallScreen == Along("Horizontal", 33, 23)

SmallestScreen == Along("Horizontal", 9, 5)

AnyClient == ClientRequests
CalmClients == {"create", "map", "unmap", "destroy"}
RemappingClients == CalmClients \cup {"remap"}

=============================================================================
