--------------------------- MODULE ExampleKernels ---------------------------
(***************************************************************************)
(* The example programs with what five of their kernels do in steps: the   *)
(* prefix sum, the two kernels that wait for a time, and the two programs  *)
(* on halves, whose Setup() and Verify() loop over the buffers.  A kernel  *)
(* starts when the program of Example has submitted it, goes on when the   *)
(* program has given up waiting, and has been executed when it has ended.  *)
(*                                                                         *)
(* The kernels are checked for every argument and input of the instance:   *)
(* 27000000 ticks and the vector 0, 1, ... of the programs are examples.   *)
(***************************************************************************)
EXTENDS Example, MemRealtime, DppReduceKernel, Half

allVars  == <<vars, rtVars, dppVars, halfVars>>

-----------------------------------------------------------------------------
Waits    == example \in {"s_memrealtime", "s_memrealtime_inline"}
Reduces  == example = "dpp_reduce"
OnHalves == example \in {"fp16_native", "fp16_storage"}

OnDevice == kernel[Call] = "submitted"

\* The step of the kernel that the program has launched.
RealtimeStep ==
  /\ Waits /\ OnDevice
  /\ Wave
  /\ variant' = IF example = "s_memrealtime" THEN "asm" ELSE "inline"
  /\ UNCHANGED <<vars, dppVars, halfVars>>

ClockStep ==
  /\ Waits /\ OnDevice
  /\ Tick
  /\ UNCHANGED <<vars, dppVars, halfVars>>

ReduceStep ==
  /\ Reduces /\ OnDevice
  /\ DppNext
  /\ UNCHANGED <<vars, rtVars, halfVars>>

HalfKernelStep ==
  /\ OnHalves /\ OnDevice
  /\ AddHalves
  /\ UNCHANGED <<vars, rtVars, dppVars>>

\* The device reports the end of the kernel.
ExecuteStep ==
  /\ Execute
  /\ Waits => rt_at = "end"
  /\ Reduces => Ended
  /\ OnHalves => half_phase = "verify"
  /\ UNCHANGED <<rtVars, dppVars, halfVars>>

-----------------------------------------------------------------------------
(* The host. *)

HostStep ==
  /\ Housekeeping
  /\ UNCHANGED <<rtVars, dppVars, halfVars>>

\* One turn of the loop of Setup() that fills in1 and in2.
FillHalves ==
  /\ OnHalves /\ Now("Fill")
  /\ buffer["in1"].placed # "null" /\ buffer["in2"].placed # "null"
  /\ FillTurn
  /\ UNCHANGED <<vars, rtVars, dppVars>>

\* A buffer has its input when the loop is over, or does not exist.
FillStep ==
  /\ Fill
  /\ OnHalves => \/ half_phase # "fill"
                 \/ buffer["in1"].placed = "null" \/ buffer["in2"].placed = "null"
  /\ UNCHANGED <<rtVars, dppVars, halfVars>>

\* One turn of the loop of Verify().
VerifyHalves ==
  /\ OnHalves /\ phase = "Verify"
  /\ VerifyTurn
  /\ UNCHANGED <<vars, rtVars, dppVars>>

CompareStep ==
  /\ OnHalves => half_phase = "done"
  /\ Compare(OnHalves => ok)
  /\ UNCHANGED <<rtVars, dppVars, halfVars>>

-----------------------------------------------------------------------------
KernelsInit == Init /\ RtInit /\ DppInit /\ HalfInit

KernelsNext ==
  \/ HostStep \/ FillStep \/ FillHalves
  \/ RealtimeStep \/ ClockStep \/ ReduceStep \/ HalfKernelStep \/ ExecuteStep
  \/ VerifyHalves \/ CompareStep

\* The device goes on with the wave of the kernel, and time passes.
KernelsSpec ==
  /\ KernelsInit /\ [][KernelsNext]_allVars
  /\ WF_allVars(RealtimeStep) /\ WF_allVars(ClockStep)

-----------------------------------------------------------------------------
(* Properties; the others are those of the parts. *)

(* The variables of the programs and of the kernels have their types.        *)
TypesOK == TypeOK /\ RtTypeOK /\ DppTypeOK /\ HalfTypeOK

=============================================================================
