---------------------------- MODULE MCDiscovery ----------------------------
(***************************************************************************)
(* Machines with up to three agents in every order, and up to three        *)
(* regions of the six kinds that differ for FindRegions; no more than four *)
(* of both together.                                                       *)
(***************************************************************************)
EXTENDS Discovery

R(global, flags, accessible) ==
  [global |-> global, flags |-> flags, accessible |-> accessible]

SixKinds ==
  { R(FALSE, {"coarse", "kernarg"}, TRUE),  \* group or private memory
    R(TRUE, {"fine", "kernarg"}, TRUE),     \* kernel arguments
    R(TRUE, {"fine"}, TRUE),                \* system memory
    R(TRUE, {"coarse"}, TRUE),              \* device memory behind a large BAR
    R(TRUE, {"coarse"}, FALSE),             \* device memory
    R(TRUE, {"coarse", "kernarg"}, TRUE) }  \* arguments in device memory

MCInit == InitWith(SixKinds) /\ Len(Agents) + Len(Regions) <= 4
MCSpec == MCInit /\ [][Next]_vars

=============================================================================
