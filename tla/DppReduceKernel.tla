-------------------------- MODULE DppReduceKernel --------------------------
(***************************************************************************)
(* dpp_reduce.s: the prefix sum of a wave in seven additions, each of a    *)
(* register and a shifted copy of a register.  A lane may be masked out,   *)
(* and a register that was just written may not yet be seen by a shifted   *)
(* read: until two wait states have passed, it yields the old value.       *)
(***************************************************************************)
EXTENDS Integers, Sequences

CONSTANT DppInputs          \* the vectors that `in' may hold

RowSize  == 16
BankSize == 4
Lanes    == 0 .. 63
Row(l)   == l \div RowSize
Bank(l)  == (l % RowSize) \div BankSize
AllRows  == 0 .. 3
AllBanks == 0 .. 3

ASSUME InputsAssumption == DppInputs \subseteq [Lanes -> Int]

WaitStates == 2          \* from a VALU write to a DPP read of the register

VARIABLES
  dpp_pc,                \* the next instruction; 0 before the launch
  v0, v1,                \* the vector registers of the sum
  v1_old, v1_age         \* v1 before its last write, and the wait states since

dppVars == <<dpp_pc, v0, v1, v1_old, v1_age>>

-----------------------------------------------------------------------------
(* v_add_f32 v1, <dpp>, <src> with a DPP control: the first operand is read  *)
(* through the control; rows and banks are the masks of the written lanes.   *)

Nop == [op |-> "s_nop"]
Add(dpp, src, from, zero, rows, banks) ==
  [op |-> "v_add_f32", dpp |-> dpp, src |-> src, from |-> from, zero |-> zero,
   rows |-> rows, banks |-> banks]

\* The lane a control reads, and -1 where there is none.
RowShr(n)  == [l \in Lanes |-> IF l % RowSize >= n THEN l - n ELSE -1]
RowBcast15 == [l \in Lanes |-> Row(l) * RowSize - 1]
RowBcast31 == [l \in Lanes |-> IF l >= 32 THEN 31 ELSE -1]

\* bound_ctrl:0 reads 0 where there is no lane; without it nothing is written.
Shifted(src, n) == Add("v0", src, RowShr(n), TRUE, AllRows, AllBanks)

\* Mutant: the s_nop after the third addition are left out.
DppKernel_Mut ==
  << Shifted("v0", 1), Shifted("v1", 2), Shifted("v1", 3),
     Add("v1", "v1", RowShr(4), FALSE, AllRows, {1, 2, 3}), Nop, Nop,
     Add("v1", "v1", RowShr(8), FALSE, AllRows, {2, 3}), Nop, Nop,
     Add("v1", "v1", RowBcast15, FALSE, {1, 3}, AllBanks), Nop, Nop,
     Add("v1", "v1", RowBcast31, FALSE, {2, 3}, AllBanks) >>

DppKernel ==
  << Shifted("v0", 1), Shifted("v1", 2), Shifted("v1", 3), Nop, Nop,
     Add("v1", "v1", RowShr(4), FALSE, AllRows, {1, 2, 3}), Nop, Nop,
     Add("v1", "v1", RowShr(8), FALSE, AllRows, {2, 3}), Nop, Nop,
     Add("v1", "v1", RowBcast15, FALSE, {1, 3}, AllBanks), Nop, Nop,
     Add("v1", "v1", RowBcast31, FALSE, {2, 3}, AllBanks) >>

-----------------------------------------------------------------------------
\* flat_load_dword v0 and its s_waitcnt; v1 holds half of an address.
Load ==
  /\ dpp_pc = 0
  /\ v0' \in DppInputs
  /\ dpp_pc' = 1
  /\ UNCHANGED <<v1, v1_old, v1_age>>

Wait ==
  /\ dpp_pc \in DOMAIN DppKernel
  /\ DppKernel[dpp_pc].op = "s_nop"
  /\ v1_age' = v1_age + 1
  /\ dpp_pc' = dpp_pc + 1
  /\ UNCHANGED <<v0, v1, v1_old>>

\* What a shifted read of a register may see.
Seen(register) ==
  IF register = "v0" THEN {v0}
  ELSE IF v1_age >= WaitStates THEN {v1} ELSE {v1, v1_old}

Sum(i, seen) ==
  LET other == IF i.src = "v0" THEN v0 ELSE v1
      Reads(l) == i.from[l] \in Lanes
      Written(l) == Row(l) \in i.rows /\ Bank(l) \in i.banks /\ (i.zero \/ Reads(l))
  IN [l \in Lanes |-> IF ~Written(l) THEN v1[l]
                      ELSE other[l] + IF Reads(l) THEN seen[i.from[l]] ELSE 0]

AddShifted ==
  /\ dpp_pc \in DOMAIN DppKernel
  /\ LET i == DppKernel[dpp_pc] IN
       /\ i.op = "v_add_f32"
       /\ \E seen \in Seen(i.dpp) : v1' = Sum(i, seen)
  /\ v1_old' = v1
  /\ v1_age' = 0
  /\ dpp_pc' = dpp_pc + 1
  /\ UNCHANGED v0

DppInit ==
  /\ dpp_pc = 0
  /\ v0 = [l \in Lanes |-> l]
  /\ v1 = [l \in Lanes |-> -1] /\ v1_old = v1
  /\ v1_age = WaitStates

DppNext == Load \/ Wait \/ AddShifted
DppSpec == DppInit /\ [][DppNext]_dppVars

Ended == dpp_pc = Len(DppKernel) + 1

-----------------------------------------------------------------------------
(* Properties. *)

DppTypeOK ==
  /\ dpp_pc \in 0 .. Len(DppKernel) + 1
  /\ {v0, v1, v1_old} \subseteq [Lanes -> Int]
  /\ v1_age \in Nat

\* `expected' in DppReduce::Verify, when the lanes before have been right.
Expected(l) == v0[l] + IF l = 0 THEN 0 ELSE v1[l - 1]

(* When the kernel stores its result, each lane holds the sum of the inputs  *)
(* up to its own, for every input vector: its own input on top of what the   *)
(* lane before it holds, as DppReduce::Verify adds them up.  So every input  *)
(* arrives once in every later lane, although lanes are masked out, rows are *)
(* joined by broadcasts and a register may be read too early                 *)
(* (dpp_reduce.s:83-96).                                                     *)
PrefixSum == Ended => \A l \in Lanes : v1[l] = Expected(l)

=============================================================================
