-------------------------------- MODULE Half --------------------------------
(***************************************************************************)
(* The conversions of half.cpp, and the two fp16 programs that use them:   *)
(* Setup() fills two buffers of halves, the kernel adds them, Verify()     *)
(* computes the sums anew from the buffers.                                *)
(*                                                                         *)
(* A float is its sign, its biased exponent and its fraction; so is a      *)
(* half.  The programs' numbers are multiples of 1/4, and what an addition *)
(* or a rounding outside half.cpp does to them is stated in quarters.      *)
(***************************************************************************)
EXTENDS Integers

Float == [sign : 0 .. 1, exp : 0 .. 255, frac : 0 .. 8388607]
HalfFloat == [sign : 0 .. 1, exp : 0 .. 31, frac : 0 .. 1023]

ZeroFloat == [sign |-> 0, exp |-> 0, frac |-> 0]
ZeroHalf  == [sign |-> 0, exp |-> 0, frac |-> 0]

\* Both comparisons with zero, f == 0.0f and !(h & 0x7fff), ignore the sign.
IsZero(x) == x.exp = 0 /\ x.frac = 0

\* Mutant: the bias of the exponent is one less.
f2h_Mut(f) ==
  IF IsZero(f) THEN ZeroHalf
  ELSE [sign |-> f.sign, exp |-> (f.exp - 111) % 32, frac |-> f.frac \div 8192]

\* 0x38000000 is 112 exponents; 0x7c00 keeps five bits, 0x03ff ten.
f2h(f) ==
  IF IsZero(f) THEN ZeroHalf
  ELSE [sign |-> f.sign, exp |-> (f.exp - 112) % 32, frac |-> f.frac \div 8192]

\* Mutant: the fraction is moved by one bit less.
h2f_Mut(h) ==
  IF IsZero(h) THEN ZeroFloat
  ELSE [sign |-> h.sign, exp |-> h.exp + 112, frac |-> h.frac * 4096]

\* 0x1c000 is 112 exponents of a half.
h2f(h) ==
  IF IsZero(h) THEN ZeroFloat
  ELSE [sign |-> h.sign, exp |-> h.exp + 112, frac |-> h.frac * 8192]

-----------------------------------------------------------------------------
(* IEEE numbers of at most 11 bits in quarters (external: the compiler, the *)
(* processor and the GPU): none of them needs rounding.                      *)

Log2(n) == CHOOSE k \in 0 .. 10 : 2 ^ k <= n /\ n < 2 ^ (k + 1)

FloatOf(quarters) ==
  IF quarters = 0 THEN ZeroFloat
  ELSE LET k == Log2(quarters) IN
       [sign |-> 0, exp |-> 125 + k, frac |-> (quarters - 2 ^ k) * 2 ^ (23 - k)]

HalfOf(quarters) ==
  IF quarters = 0 THEN ZeroHalf
  ELSE LET k == Log2(quarters) IN
       [sign |-> 0, exp |-> 13 + k, frac |-> ((quarters - 2 ^ k) * 1024) \div 2 ^ k]

\* The number of quarters of a float in this range, and -1 of any other.
Quarters(f) ==
  LET k == f.exp - 125 IN
  IF IsZero(f) THEN 0
  ELSE IF f.sign = 0 /\ k \in 0 .. 10 /\ f.frac % 2 ^ (23 - k) = 0
       THEN 2 ^ k + f.frac \div 2 ^ (23 - k)
       ELSE -1

\* -2 for a half, so that no sum of two unknown numbers is a known one.
HalfQuarters(h) ==
  LET k == h.exp - 13 IN
  IF IsZero(h) THEN 0
  ELSE IF h.sign = 0 /\ k \in 0 .. 10 /\ (h.frac * 2 ^ k) % 1024 = 0
       THEN 2 ^ k + (h.frac * 2 ^ k) \div 1024
       ELSE -2

-----------------------------------------------------------------------------
VARIABLES
  half_phase,        \* "fill", "kernel", "verify", "done"
  i,                 \* the loop counter
  in1, in2, out,     \* the buffers
  ok                 \* the result of Verify()

halfVars == <<half_phase, i, in1, in2, out, ok>>

length == 64

\* Where a loop over the buffers goes after index i.
NextIndex(loop, after) ==
  /\ half_phase = loop
  /\ i' = (i + 1) % length
  /\ half_phase' = IF i + 1 = length THEN after ELSE loop

\* in1->Data<uint16_t>(i) = f2h(i); in2->Data<uint16_t>(i) = f2h(i * 1.25f)
FillTurn ==
  /\ NextIndex("fill", "kernel")
  /\ in1' = [in1 EXCEPT ![i] = f2h(FloatOf(4 * i))]
  /\ in2' = [in2 EXCEPT ![i] = f2h(FloatOf(5 * i))]
  /\ UNCHANGED <<out, ok>>

\* v_add_f16, or v_cvt_f32_f16, v_add_f32 and v_cvt_f16_f32: an exact sum.
AddHalves ==
  /\ half_phase = "kernel"
  /\ out' = [n \in DOMAIN out |->
               LET sum == HalfQuarters(in1[n]) + HalfQuarters(in2[n])
               IN IF sum \in 0 .. 2047 THEN HalfOf(sum) ELSE ZeroHalf]
  /\ half_phase' = "verify"
  /\ UNCHANGED <<i, in1, in2, ok>>

\* h2f(f2h(f1 + f2)) is compared with the h2f of the result.  A number outside
\* the range of quarters would count as a difference.
VerifyTurn ==
  /\ NextIndex("verify", "done")
  /\ LET sum == Quarters(h2f(in1[i])) + Quarters(h2f(in2[i]))
     IN ok' = (ok /\ sum \in 0 .. 2047 /\ h2f(f2h(FloatOf(sum))) = h2f(out[i]))
  /\ UNCHANGED <<in1, in2, out>>

HalfInit ==
  /\ half_phase = "fill" /\ i = 0 /\ ok = TRUE
  /\ in1 = [n \in 0 .. length - 1 |-> ZeroHalf] /\ in2 = in1 /\ out = in1

HalfNext == FillTurn \/ AddHalves \/ VerifyTurn
HalfSpec == HalfInit /\ [][HalfNext]_halfVars

-----------------------------------------------------------------------------
(* Properties. *)

HalfTypeOK ==
  /\ half_phase \in {"fill", "kernel", "verify", "done"}
  /\ i \in 0 .. length - 1 /\ ok \in BOOLEAN
  /\ {in1, in2, out} \subseteq [0 .. length - 1 -> HalfFloat]

(* The programs never report a difference: although f2h cuts bits off where  *)
(* the GPU rounds, and h2f is not the inverse of f2h, the numbers they use   *)
(* and their sums are halves (fp16_native.cpp:67-70, 85-94).                 *)
SumsAgree == ok

(* f2h brings back every half that h2f has widened, whatever its exponent    *)
(* and sign; only the sign of a zero is lost (half.cpp:48-69).               *)
RoundTrip(h) == f2h(h2f(h)) = IF IsZero(h) THEN ZeroHalf ELSE h
EveryHalfReturns == \A h \in HalfFloat : RoundTrip(h)
HalfInverse == half_phase = "done" => EveryHalfReturns

=============================================================================
