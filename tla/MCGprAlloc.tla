----------------------------- MODULE MCGprAlloc -----------------------------
(***************************************************************************)
(* The real limits of the macros with a few sizes around them.             *)
(***************************************************************************)
EXTENDS GprAlloc

\* 24 is what 10 waves leave of the vector registers, 76 + 4 of the scalar
\* ones; 255 is the most that .VGPR_ALLOC hands out at once.
MCSizes  == [VGPR |-> {1, 232}, SGPR |-> {1, 8, 76}, LDS |-> {6}]
FewSizes == [VGPR |-> {23}, SGPR |-> {8}, LDS |-> {6}]

=============================================================================
