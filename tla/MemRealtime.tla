---------------------------- MODULE MemRealtime ----------------------------
(***************************************************************************)
(* The waiting kernels: s_memrealtime.s, which adds and compares 64-bit    *)
(* times in 32-bit halves, and s_memrealtime_inline.cl, whose while loop   *)
(* compares them whole.  The clock runs on between any two steps.          *)
(***************************************************************************)
EXTENDS Integers

CONSTANT Word            \* the number of values of a 32-bit register

ASSUME WordAssumption == Word \in Nat \ {0}

Wide == Word * Word      \* those of a register pair

VARIABLES
  variant,        \* the kernel: "asm" or "inline"
  rt_at,          \* where the wave stands
  clock,          \* what s_memrealtime reads
  start, ticks,   \* history: the first reading and the kernel's argument
  finish,         \* s[0:1]
  now             \* s[4:5]: the last reading

waveVars == <<variant, rt_at, start, ticks, finish, now>>
rtVars == <<waveVars, clock>>

Pair == [lo : 0 .. Word - 1, hi : 0 .. Word - 1]
PairOf(n)  == [lo |-> n % Word, hi |-> n \div Word]
ValueOf(p) == p.hi * Word + p.lo

\* Mutant: s_add_u32 for the high halves as well: the carry is lost.
AddPairs_Mut(p, q) == [lo |-> (p.lo + q.lo) % Word, hi |-> (p.hi + q.hi) % Word]

\* s_add_u32 and s_addc_u32
AddPairs(p, q) ==
  LET carry == IF p.lo + q.lo >= Word THEN 1 ELSE 0
  IN [lo |-> (p.lo + q.lo) % Word, hi |-> (p.hi + q.hi + carry) % Word]

\* The first reading and the argument.  The inline kernel counts the first
\* reading as the current time; the other one reads the clock again.
Launch ==
  /\ rt_at = "launch"
  /\ variant' \in {"asm", "inline"}
  /\ ticks' \in 0 .. Wide - 1
  /\ start' = clock
  /\ now' = PairOf(clock)
  /\ finish' = AddPairs(PairOf(ticks'), now')
  /\ rt_at' = IF variant' = "asm" THEN "read" ELSE "compare"
  /\ UNCHANGED clock

\* s_memrealtime s[4:5] at loop_start, or in the body of the while loop.
ReadClock ==
  /\ rt_at = "read"
  /\ now' = PairOf(clock)
  /\ rt_at' = "compare"
  /\ UNCHANGED <<variant, clock, start, ticks, finish>>

\* Mutant: the second branch, s_cmp_gt_u32 s5, s1, is left out.
AsmLoops_Mut == now.hi < finish.hi \/ now.lo < finish.lo

\* Mutant: any other high half, also a greater one, is waited for.
AsmLoops_MutEq == now.hi # finish.hi \/ now.lo < finish.lo

\* The three comparisons of loop_start, in order: branch to loop_start, else
\* to loop_end, else to loop_start.
AsmLoops ==
  \/ now.hi < finish.hi
  \/ ~(now.hi > finish.hi) /\ now.lo < finish.lo

\* while (curr_time < finish_time)
InlineLoops == ValueOf(now) < ValueOf(finish)

CompareTimes ==
  /\ rt_at = "compare"
  /\ LET loops == IF variant = "asm" THEN AsmLoops ELSE InlineLoops
     IN rt_at' = IF loops THEN "read" ELSE "end"
  /\ UNCHANGED <<variant, clock, start, ticks, finish, now>>

\* Time passes (external).  The counter does not wrap; its last value is the
\* bound of the instance.
Tick ==
  /\ clock + 1 < Wide
  /\ clock' = clock + 1
  /\ UNCHANGED waveVars

RtInit ==
  /\ rt_at = "launch"
  /\ variant = "asm"
  /\ clock = 0 /\ start = 0 /\ ticks = 0
  /\ finish = PairOf(0) /\ now = PairOf(0)

Wave == Launch \/ ReadClock \/ CompareTimes
RtNext == Wave \/ Tick
RtSpec == RtInit /\ [][RtNext]_rtVars

-----------------------------------------------------------------------------
(* Properties. *)

RtTypeOK ==
  /\ variant \in {"asm", "inline"}
  /\ rt_at \in {"launch", "read", "compare", "end"}
  /\ clock \in 0 .. Wide - 1 /\ start \in 0 .. clock /\ ticks \in 0 .. Wide - 1
  /\ finish \in Pair /\ now \in Pair
  /\ ValueOf(now) <= clock

(* A kernel that has ended has waited for the ticks it was asked to wait,    *)
(* unless the time at which it should end does not fit in 64 bits            *)
(* (s_memrealtime.s:76-96, s_memrealtime_inline.cl:54-63).                   *)
WaitsLongEnough == rt_at = "end" /\ start + ticks < Wide => clock >= start + ticks

(* The wave leaves the loop exactly when the last reading has reached the    *)
(* finish time, compared as a whole: the order of the three branches decides *)
(* at equal and at greater high halves (s_memrealtime.s:88-93).  That also   *)
(* holds for a finish time that has wrapped.                                 *)
LeavesWhenReached ==
  [][rt_at = "compare" /\ rt_at' # "compare" =>
       (rt_at' = "end" <=> ValueOf(now) >= (start + ticks) % Wide)]_rtVars

(* Both kernels end, if the wave is scheduled and time passes.               *)
LoopEnds == rt_at = "read" ~> rt_at = "end"

=============================================================================
