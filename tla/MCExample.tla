----------------------------- MODULE MCExample -----------------------------
(***************************************************************************)
(* All the programs of the repository, on every combination of regions.    *)
(* The registers of the waiting kernels have three values.  The prefix sum *)
(* is linear in its input: the vectors with a single 1, and the program's. *)
(***************************************************************************)
EXTENDS ExampleKernels

AllExamples == DOMAIN Program

Vectors ==
  {[l \in 0 .. 63 |-> l]} \cup {[l \in 0 .. 63 |-> IF l = n THEN 1 ELSE 0] : n \in 0 .. 63}

=============================================================================
