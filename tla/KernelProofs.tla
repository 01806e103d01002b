---------------------------- MODULE KernelProofs ----------------------------
(***************************************************************************)
(* What the kernels compute: MemRealtime for registers of any width, where *)
(* the products of Word make the arithmetic nonlinear, so that what is     *)
(* needed of it is stated first; DppReduceKernel for any vectors; and the  *)
(* conversions of Half.                                                    *)
(***************************************************************************)
EXTENDS MemRealtime, DppReduceKernel, Half, TLAPS

-----------------------------------------------------------------------------
(* Division and products. *)

(* A number below the modulus is its own remainder.                          *)
LEMMA ModSmall ==
  ASSUME NEW m \in Nat \ {0}, NEW a \in 0 .. m - 1
  PROVE  a % m = a
BY SMT

(* A number below twice the modulus has one modulus to lose.                 *)
LEMMA ModOnce ==
  ASSUME NEW m \in Nat \ {0}, NEW a \in m .. 2 * m - 1
  PROVE  a % m = a - m
BY SMT

(* Quotient and remainder make up the number.                                *)
LEMMA DivMod ==
  ASSUME NEW m \in Nat \ {0}, NEW a \in Nat
  PROVE  /\ a % m \in 0 .. m - 1
         /\ a \div m \in Nat
         /\ a = (a \div m) * m + (a % m)
BY SMT

(* A greater factor makes the product greater by one modulus at least.       *)
LEMMA Less ==
  ASSUME NEW m \in Nat \ {0}, NEW x \in Nat, NEW y \in Nat, x < y
  PROVE  x * m + m <= y * m
BY SMT

(* A product stays below the modulus only for a factor below it.             *)
LEMMA Below ==
  ASSUME NEW m \in Nat \ {0}, NEW x \in Nat, NEW y \in Nat, x * m < y * m
  PROVE  x < y
<1>1. CASE x >= y
  <2>1. x = y \/ y < x
    BY <1>1
  <2>2. QED BY <2>1, Less, SMT
<1>2. QED BY <1>1

(* A product with a sum, where two of the factors are carries.               *)
LEMMA Distribute ==
  ASSUME NEW m \in Nat, NEW x \in Nat, NEW y \in Nat,
         NEW c \in {0, 1}, NEW o \in {0, 1}
  PROVE  (x + y + c - o * m) * m = x * m + y * m + c * m - o * (m * m)
<1>1. CASE c = 0 /\ o = 0  BY <1>1, SMT
<1>2. CASE c = 0 /\ o = 1  BY <1>2, SMT
<1>3. CASE c = 1 /\ o = 0  BY <1>3, SMT
<1>4. CASE c = 1 /\ o = 1  BY <1>4, SMT
<1>5. QED BY <1>1, <1>2, <1>3, <1>4

-----------------------------------------------------------------------------
(* Register pairs. *)

(* There are at least as many times as values of a register.                 *)
LEMMA WideType ==
  Wide \in Nat \ {0} /\ Word <= Wide
BY WordAssumption, SMT DEF Wide

(* The value of a pair is a time.                                            *)
LEMMA ValueType ==
  ASSUME NEW p \in Pair
  PROVE  /\ ValueOf(p) \in 0 .. Wide - 1
         /\ ValueOf(p) = p.hi * Word + p.lo
         /\ p.lo \in 0 .. Word - 1 /\ p.hi \in 0 .. Word - 1
<1>1. p.lo \in 0 .. Word - 1 /\ p.hi \in 0 .. Word - 1 /\ Word \in Nat \ {0}
  BY WordAssumption DEF Pair
<1>2. p.hi * Word + Word <= Word * Word
  BY <1>1, Less
<1>3. p.hi * Word \in Nat /\ Word * Word \in Nat
  BY <1>1
<1>4. QED BY <1>1, <1>2, <1>3 DEF ValueOf, Wide

(* Splitting a time into a pair keeps it.                                    *)
LEMMA PairValue ==
  ASSUME NEW n \in 0 .. Wide - 1
  PROVE  PairOf(n) \in Pair /\ ValueOf(PairOf(n)) = n
<1>1. Word \in Nat \ {0} /\ n \in Nat
  BY WideType, WordAssumption
<1>2. /\ n % Word \in 0 .. Word - 1
      /\ n \div Word \in Nat
      /\ n = (n \div Word) * Word + (n % Word)
  BY <1>1, DivMod
<1>3. (n \div Word) * Word < Word * Word
  BY <1>1, <1>2, WideType DEF Wide
<1>4. n \div Word < Word
  BY <1>1, <1>2, <1>3, Below
<1>5. QED BY <1>1, <1>2, <1>4 DEF PairOf, Pair, ValueOf

(* Pairs compare as their high halves do, and at equal high halves as their  *)
(* low ones.                                                                 *)
LEMMA PairLess ==
  ASSUME NEW p \in Pair, NEW q \in Pair
  PROVE  ValueOf(p) < ValueOf(q) <=> p.hi < q.hi \/ (p.hi = q.hi /\ p.lo < q.lo)
<1>. Word \in Nat \ {0}
  BY WordAssumption
<1>1. /\ p.lo \in 0 .. Word - 1 /\ p.hi \in Nat /\ ValueOf(p) = p.hi * Word + p.lo
      /\ q.lo \in 0 .. Word - 1 /\ q.hi \in Nat /\ ValueOf(q) = q.hi * Word + q.lo
  BY ValueType
<1>2. p.hi * Word \in Nat /\ q.hi * Word \in Nat
  BY <1>1
<1>3. CASE p.hi < q.hi
  BY <1>1, <1>2, <1>3, Less
<1>4. CASE p.hi = q.hi
  BY <1>1, <1>2, <1>4
<1>5. CASE p.hi > q.hi
  <2>1. q.hi * Word + Word <= p.hi * Word
    BY <1>1, <1>5, Less
  <2>2. QED BY <1>1, <1>2, <1>5, <2>1
<1>6. QED BY <1>1, <1>3, <1>4, <1>5

(* The sum of two pairs, with the carry, is the sum of their values, up to   *)
(* the carry out of the high half (s_memrealtime.s:76-77).                   *)
LEMMA PairSum ==
  ASSUME NEW p \in Pair, NEW q \in Pair
  PROVE  /\ AddPairs(p, q) \in Pair
         /\ ValueOf(AddPairs(p, q)) = (ValueOf(p) + ValueOf(q)) % Wide
<1>. Word \in Nat \ {0}
  BY WordAssumption
<1>. DEFINE carry == IF p.lo + q.lo >= Word THEN 1 ELSE 0
            high  == p.hi + q.hi + carry
            over  == IF high >= Word THEN 1 ELSE 0
            sum   == AddPairs(p, q)
<1>1. /\ p.lo \in 0 .. Word - 1 /\ p.hi \in 0 .. Word - 1
      /\ ValueOf(p) = p.hi * Word + p.lo /\ ValueOf(p) \in 0 .. Wide - 1
      /\ q.lo \in 0 .. Word - 1 /\ q.hi \in 0 .. Word - 1
      /\ ValueOf(q) = q.hi * Word + q.lo /\ ValueOf(q) \in 0 .. Wide - 1
  BY ValueType
<1>2. /\ \/ p.lo + q.lo >= Word /\ carry = 1
         \/ p.lo + q.lo < Word /\ carry = 0
      /\ high = p.hi + q.hi + carry
      /\ \/ high >= Word /\ over = 1
         \/ high < Word /\ over = 0
  BY <1>1
<1>3. sum = [lo |-> (p.lo + q.lo) % Word, hi |-> high % Word]
  BY DEF AddPairs
<1>. HIDE DEF carry, high, over, sum
<1>4. (p.lo + q.lo) % Word = p.lo + q.lo - carry * Word
  <2>1. CASE p.lo + q.lo >= Word /\ carry = 1
    BY <1>1, <2>1, ModOnce
  <2>2. CASE p.lo + q.lo < Word /\ carry = 0
    BY <1>1, <2>2, ModSmall
  <2>3. QED BY <1>2, <2>1, <2>2
<1>5. high \in 0 .. 2 * Word - 1
  BY <1>1, <1>2
<1>6. high % Word = high - over * Word
  <2>1. CASE high >= Word /\ over = 1
    BY <1>5, <2>1, ModOnce
  <2>2. CASE high < Word /\ over = 0
    BY <1>5, <2>2, ModSmall
  <2>3. QED BY <1>2, <2>1, <2>2
<1>7. sum = [lo |-> p.lo + q.lo - carry * Word, hi |-> high - over * Word]
  BY <1>3, <1>4, <1>6
<1>8. sum \in Pair
  <2>1. p.lo + q.lo - carry * Word \in 0 .. Word - 1
    BY <1>1, <1>2
  <2>2. high - over * Word \in 0 .. Word - 1
    BY <1>2, <1>5
  <2>3. QED BY <1>7, <2>1, <2>2 DEF Pair
<1>9. ValueOf(sum) = ValueOf(p) + ValueOf(q) - over * Wide
  <2>1. ValueOf(sum) = (high - over * Word) * Word + (p.lo + q.lo - carry * Word)
    BY <1>7 DEF ValueOf
  <2>2. (high - over * Word) * Word
          = p.hi * Word + q.hi * Word + carry * Word - over * (Word * Word)
    BY <1>1, <1>2, Distribute
  <2>3. /\ p.hi * Word \in Int /\ q.hi * Word \in Int
        /\ carry * Word \in Int /\ over * (Word * Word) \in Int
    BY <1>1, <1>2
  <2>4. QED BY <1>1, <2>1, <2>2, <2>3 DEF Wide
<1>10. ValueOf(sum) \in 0 .. Wide - 1
  BY <1>8, ValueType
<1>11. (ValueOf(p) + ValueOf(q)) % Wide = ValueOf(sum)
  <2>. DEFINE total == ValueOf(p) + ValueOf(q)
  <2>1. Wide \in Nat \ {0}
    BY WideType
  <2>2. CASE over = 0
    <3>1. ValueOf(p) + ValueOf(q) = ValueOf(sum)
      BY <1>1, <1>9, <1>10, <2>1, <2>2
    <3>2. QED BY <1>10, <2>1, <3>1, ModSmall
  <2>3. CASE over = 1
    <3>1. ValueOf(p) + ValueOf(q) = ValueOf(sum) + Wide
      BY <1>1, <1>9, <1>10, <2>1, <2>3
    <3>2. total \in Wide .. 2 * Wide - 1
      BY <1>10, <2>1, <3>1
    <3>3. total % Wide = total - Wide
      <4>. HIDE DEF total
      <4>1. QED BY <2>1, <3>2, ModOnce
    <3>4. QED BY <1>10, <2>1, <3>1, <3>3
  <2>4. QED BY <1>2, <2>2, <2>3
<1>12. QED BY <1>8, <1>11 DEF sum

-----------------------------------------------------------------------------
(* The inductive invariant. *)

(* The finish time is that of the launch, and a wave that has ended has seen *)
(* a time that is not before it.                                             *)
Reached ==
  /\ rt_at # "launch" => ValueOf(finish) = (start + ticks) % Wide
  /\ rt_at = "end" => ValueOf(now) >= ValueOf(finish)

RInv == RtTypeOK /\ Reached

(* The branches of loop_start compare the pairs as one number                *)
(* (s_memrealtime.s:88-93).                                                  *)
LEMMA AsmComparesWhole ==
  ASSUME RtTypeOK
  PROVE  /\ AsmLoops <=> ValueOf(now) < ValueOf(finish)
         /\ InlineLoops <=> ValueOf(now) < ValueOf(finish)
<1>1. now \in Pair /\ finish \in Pair
  BY DEF RtTypeOK
<1>2. ValueOf(now) < ValueOf(finish)
        <=> now.hi < finish.hi \/ (now.hi = finish.hi /\ now.lo < finish.lo)
  BY <1>1, PairLess
<1>3. now.hi \in Nat /\ finish.hi \in Nat
  BY <1>1, ValueType, WordAssumption
<1>4. QED BY <1>2, <1>3 DEF AsmLoops, InlineLoops

LEMMA RealtimeInit ==
  ASSUME RtInit
  PROVE  RInv
<1>1. Wide \in Nat \ {0} /\ 0 \in 0 .. Wide - 1
  BY WideType
<1>2. PairOf(0) \in Pair /\ ValueOf(PairOf(0)) = 0
  BY <1>1, PairValue
<1>3. QED BY <1>1, <1>2 DEF RtInit, RInv, RtTypeOK, Reached

LEMMA LaunchStep ==
  ASSUME RInv, Launch
  PROVE  RInv'
<1>. clock \in 0 .. Wide - 1 /\ ticks' \in 0 .. Wide - 1 /\ Wide \in Nat \ {0}
  BY WideType DEF RInv, RtTypeOK, Launch
<1>1. now' \in Pair /\ ValueOf(now') = clock
  BY PairValue DEF Launch
<1>2. PairOf(ticks') \in Pair /\ ValueOf(PairOf(ticks')) = ticks'
  BY PairValue
<1>3. /\ finish' \in Pair
      /\ ValueOf(finish') = (ticks' + clock) % Wide
  BY <1>1, <1>2, PairSum DEF Launch
<1>4. RtTypeOK'
  BY <1>1, <1>3 DEF RtTypeOK, Launch, ValueOf
<1>5. Reached'
  BY <1>3 DEF Reached, Launch, ValueOf
<1>6. QED BY <1>4, <1>5 DEF RInv

LEMMA ReadClockStep ==
  ASSUME RInv, ReadClock
  PROVE  RInv'
<1>. clock \in 0 .. Wide - 1 /\ Wide \in Nat \ {0}
  BY WideType DEF RInv, RtTypeOK
<1>1. now' \in Pair /\ ValueOf(now') = clock
  BY PairValue DEF ReadClock
<1>2. QED BY <1>1 DEF RInv, RtTypeOK, Reached, ReadClock, ValueOf

LEMMA CompareTimesKeeps ==
  ASSUME RInv, CompareTimes
  PROVE  /\ RInv'
         /\ rt_at' = "end" <=> ValueOf(now) >= ValueOf(finish)
<1>1. now \in Pair /\ finish \in Pair
  BY DEF RInv, RtTypeOK
<1>2. ValueOf(now) \in Int /\ ValueOf(finish) \in Int
  BY <1>1, ValueType, WideType
<1>3. \/ rt_at' = "read" /\ ValueOf(now) < ValueOf(finish)
      \/ rt_at' = "end" /\ ~(ValueOf(now) < ValueOf(finish))
  BY AsmComparesWhole DEF RInv, CompareTimes
<1>4. rt_at' = "end" <=> ValueOf(now) >= ValueOf(finish)
  BY <1>2, <1>3
<1>5. RInv'
  BY <1>4, <1>3 DEF RInv, RtTypeOK, Reached, CompareTimes, ValueOf
<1>6. QED BY <1>4, <1>5

LEMMA TickStep ==
  ASSUME RInv, Tick
  PROVE  RInv'
<1>1. Wide \in Nat /\ clock \in Nat /\ ValueOf(now) \in Int
  <2>1. now \in Pair
    BY DEF RInv, RtTypeOK
  <2>2. QED BY <2>1, WideType, ValueType DEF RInv, RtTypeOK
<1>2. QED BY <1>1 DEF RInv, RtTypeOK, Reached, Tick, waveVars, ValueOf

(* RInv is inductive.                                                        *)
LEMMA RealtimeStepKeeps ==
  ASSUME RInv, [RtNext]_rtVars
  PROVE  RInv'
<1>1. CASE Launch     BY <1>1, LaunchStep
<1>2. CASE ReadClock  BY <1>2, ReadClockStep
<1>3. CASE CompareTimes    BY <1>3, CompareTimesKeeps
<1>4. CASE Tick       BY <1>4, TickStep
<1>5. CASE UNCHANGED rtVars
  BY <1>5 DEF RInv, RtTypeOK, Reached, rtVars, waveVars, ValueOf
<1>6. QED BY <1>1, <1>2, <1>3, <1>4, <1>5 DEF RtNext, Wave

LEMMA RealtimeInvariant == RtSpec => []RInv
<1>1. RtInit => RInv
  BY RealtimeInit
<1>2. RInv /\ [RtNext]_rtVars => RInv'
  BY RealtimeStepKeeps
<1>3. QED BY <1>1, <1>2, PTL DEF RtSpec

-----------------------------------------------------------------------------
(* The theorems. *)

(* For registers of any width, every variable of the waiting kernels has its *)
(* type: sums and readings fit their pairs, and no reading is ahead of time. *)
THEOREM RealtimeTypeCorrect == RtSpec => []RtTypeOK
<1>1. RInv => RtTypeOK
  BY DEF RInv
<1>2. QED BY <1>1, RealtimeInvariant, PTL

(* For registers of any width, a kernel that has ended has waited for its    *)
(* ticks (s_memrealtime.s:76-96).                                            *)
THEOREM RealtimeWaits == RtSpec => []WaitsLongEnough
<1>1. RInv => WaitsLongEnough
  <2>. SUFFICES ASSUME RInv, rt_at = "end", start + ticks < Wide
                PROVE  clock >= start + ticks
    BY DEF WaitsLongEnough
  <2>1. /\ clock \in 0 .. Wide - 1 /\ start \in 0 .. clock
        /\ ticks \in 0 .. Wide - 1 /\ Wide \in Nat \ {0}
        /\ now \in Pair /\ finish \in Pair /\ ValueOf(now) <= clock
    BY WideType DEF RInv, RtTypeOK
  <2>2. ValueOf(now) \in Int /\ ValueOf(finish) \in Int
    BY <2>1, ValueType
  <2>3. start + ticks \in 0 .. Wide - 1
    BY <2>1
  <2>4. (start + ticks) % Wide = start + ticks
    BY <2>1, <2>3, ModSmall
  <2>5. ValueOf(finish) = start + ticks /\ ValueOf(now) >= ValueOf(finish)
    BY <2>4 DEF RInv, Reached
  <2>6. QED BY <2>1, <2>2, <2>3, <2>5
<1>2. QED BY <1>1, RealtimeInvariant, PTL

(* For registers of any width, the loop is left exactly when the last        *)
(* reading has reached the finish time (s_memrealtime.s:88-93).              *)
THEOREM RealtimeLeaves == RtSpec => LeavesWhenReached
<1>1. RInv /\ [RtNext]_rtVars =>
        [rt_at = "compare" /\ rt_at' # "compare" =>
           (rt_at' = "end" <=> ValueOf(now) >= (start + ticks) % Wide)]_rtVars
  <2>. SUFFICES ASSUME RInv, [RtNext]_rtVars, rt_at = "compare", rt_at' # "compare"
                PROVE  rt_at' = "end" <=> ValueOf(now) >= (start + ticks) % Wide
    OBVIOUS
  <2>1. CompareTimes
    BY DEF RtNext, Wave, Launch, ReadClock, Tick, rtVars, waveVars
  <2>2. ValueOf(finish) = (start + ticks) % Wide
    BY DEF RInv, Reached
  <2>3. QED BY <2>1, <2>2, CompareTimesKeeps
<1>2. QED BY <1>1, RealtimeInvariant, PTL DEF RtSpec, LeavesWhenReached

-----------------------------------------------------------------------------
(* The prefix sum. *)

LEMMA Instructions ==
  /\ Len(DppKernel) = 15 /\ DOMAIN DppKernel = 1 .. 15
  /\ DppKernel[1] = Shifted("v0", 1) /\ DppKernel[2] = Shifted("v1", 2)
  /\ DppKernel[3] = Shifted("v1", 3)
  /\ \A k \in {4, 5, 7, 8, 10, 11, 13, 14} : DppKernel[k] = Nop
  /\ DppKernel[6] = Add("v1", "v1", RowShr(4), FALSE, AllRows, {1, 2, 3})
  /\ DppKernel[9] = Add("v1", "v1", RowShr(8), FALSE, AllRows, {2, 3})
  /\ DppKernel[12] = Add("v1", "v1", RowBcast15, FALSE, {1, 3}, AllBanks)
  /\ DppKernel[15] = Add("v1", "v1", RowBcast31, FALSE, {2, 3}, AllBanks)
<1>. DEFINE a == Shifted("v0", 1)
            b == Shifted("v1", 2)
            c == Shifted("v1", 3)
            d == Add("v1", "v1", RowShr(4), FALSE, AllRows, {1, 2, 3})
            e == Add("v1", "v1", RowShr(8), FALSE, AllRows, {2, 3})
            f == Add("v1", "v1", RowBcast15, FALSE, {1, 3}, AllBanks)
            g == Add("v1", "v1", RowBcast31, FALSE, {2, 3}, AllBanks)
            n == Nop
<1>1. DppKernel = <<a, b, c, n, n, d, n, n, e, n, n, f, n, n, g>>
  BY DEF DppKernel
<1>. HIDE DEF a, b, c, d, e, f, g, n
<1>2. /\ Len(DppKernel) = 15 /\ DOMAIN DppKernel = 1 .. 15
      /\ DppKernel[1] = a /\ DppKernel[2] = b /\ DppKernel[3] = c
      /\ DppKernel[4] = n /\ DppKernel[5] = n /\ DppKernel[7] = n /\ DppKernel[8] = n
      /\ DppKernel[10] = n /\ DppKernel[11] = n /\ DppKernel[13] = n /\ DppKernel[14] = n
      /\ DppKernel[6] = d /\ DppKernel[9] = e /\ DppKernel[12] = f /\ DppKernel[15] = g
  BY <1>1
<1>3. QED BY <1>2 DEF a, b, c, d, e, f, g, n

(* Every lane has a row of its four and a bank of its four.                  *)
LEMMA LaneParts ==
  ASSUME NEW l \in Lanes
  PROVE  /\ Row(l) \in AllRows /\ Bank(l) \in AllBanks /\ l % RowSize \in 0 .. 15
         /\ l = Row(l) * RowSize + (l % RowSize)
         /\ Bank(l) \in {1, 2, 3} <=> l % RowSize >= 4
         /\ Bank(l) \in {2, 3} <=> l % RowSize >= 8
BY SMT DEF Lanes, Row, Bank, RowSize, BankSize, AllRows, AllBanks

\* The input k lanes before lane l, in the row of l.
In(l, k) == IF k <= l % RowSize THEN v0[l - k] ELSE 0

(* Seen from n lanes before, in the row, an input is n lanes nearer.         *)
LEMMA InShifts ==
  ASSUME v0 \in [Lanes -> Int], NEW l \in Lanes, NEW n \in 0 .. 15, n <= l % RowSize
  PROVE  /\ l - n \in Lanes /\ (l - n) % RowSize = (l % RowSize) - n
         /\ \A k \in 0 .. 16 : In(l - n, k) = In(l, k + n)
<1>1. l - n \in Lanes /\ (l - n) % RowSize = (l % RowSize) - n
  BY SMT DEF Lanes, RowSize
<1>2. l % RowSize \in 0 .. 15 /\ l \in Int
  BY LaneParts DEF Lanes
<1>3. ASSUME NEW k \in 0 .. 16
      PROVE  In(l - n, k) = In(l, k + n)
  <2>1. k <= (l - n) % RowSize <=> k + n <= l % RowSize
    BY <1>1, <1>2
  <2>2. l - n - k = l - (k + n)
    BY <1>2
  <2>3. QED BY <2>1, <2>2 DEF In
<1>4. QED BY <1>1, <1>3

(* An input that is read is a number, and one before the row is none.        *)
LEMMA InType ==
  ASSUME v0 \in [Lanes -> Int], NEW l \in Lanes, NEW k \in Nat
  PROVE  In(l, k) \in Int /\ (k > l % RowSize => In(l, k) = 0) /\ In(l, 0) = v0[l]
<1>1. l % RowSize \in 0 .. 15 /\ l \in Int /\ l - 0 = l
  BY LaneParts DEF Lanes
<1>2. k <= l % RowSize => l - k \in Lanes
  BY SMT DEF Lanes, RowSize
<1>3. QED BY <1>1, <1>2 DEF In

(* The additions, each for the sum that it finds: the windows of four, eight *)
(* and all inputs of a row, then two rows, then all.                         *)
Window4(l) == In(l, 0) + In(l, 1) + In(l, 2) + In(l, 3)
Window8(l) == Window4(l) + In(l, 4) + In(l, 5) + In(l, 6) + In(l, 7)
Window16(l) == Window8(l) + In(l, 8) + In(l, 9) + In(l, 10) + In(l, 11)
                 + In(l, 12) + In(l, 13) + In(l, 14) + In(l, 15)

\* A lane holds its input on top of the lane before it, but starts anew at the
\* multiples of size.
SumsOf(size) ==
  \A l \in Lanes : v1[l] = v0[l] + IF l % size = 0 THEN 0 ELSE v1[l - 1]

Vectors == v0 \in [Lanes -> Int] /\ v1 \in [Lanes -> Int]

(* Additions of the shifted input: the lane that is read is n lanes before.  *)
LEMMA AddInput ==
  ASSUME Vectors, NEW n \in 1 .. 3, NEW src \in {"v0", "v1"},
         v1' = Sum(Shifted(src, n), v0), NEW l \in Lanes
  PROVE  v1'[l] = (IF src = "v0" THEN v0[l] ELSE v1[l]) + In(l, n)
<1>. DEFINE from == RowShr(n)
<1>1. v1' = Sum(Add("v0", src, from, TRUE, AllRows, AllBanks), v0)
  BY DEF Shifted
<1>2. from[l] = IF l % RowSize >= n THEN l - n ELSE -1
  BY DEF RowShr
<1>3. Row(l) \in AllRows /\ Bank(l) \in AllBanks /\ l % RowSize \in 0 .. 15
  BY LaneParts
<1>4. l % RowSize >= n => l - n \in Lanes
  BY InShifts DEF Vectors
<1>5. -1 \notin Lanes
  BY DEF Lanes
<1>. HIDE DEF from
<1>6. v1'[l] = (IF src = "v0" THEN v0 ELSE v1)[l]
                 + IF from[l] \in Lanes THEN v0[from[l]] ELSE 0
  BY <1>1, <1>3 DEF Sum, Add
<1>7. In(l, n) = IF l % RowSize >= n THEN v0[l - n] ELSE 0
  BY <1>3 DEF In
<1>8. In(l, n) = IF from[l] \in Lanes THEN v0[from[l]] ELSE 0
  BY <1>2, <1>4, <1>5, <1>7
<1>9. QED BY <1>6, <1>8

(* An addition of v1 on top of itself, where the mask allows it.             *)
LEMMA AddSelf ==
  ASSUME Vectors, NEW from, NEW rows, NEW banks,
         v1' = Sum(Add("v1", "v1", from, FALSE, rows, banks), v1), NEW l \in Lanes
  PROVE  v1'[l] = IF Row(l) \in rows /\ Bank(l) \in banks /\ from[l] \in Lanes
                  THEN v1[l] + v1[from[l]] ELSE v1[l]
<1>1. v1'[l] = IF ~(Row(l) \in rows /\ Bank(l) \in banks /\ (FALSE \/ from[l] \in Lanes))
               THEN v1[l]
               ELSE (IF "v1" = "v0" THEN v0 ELSE v1)[l]
                      + IF from[l] \in Lanes THEN v1[from[l]] ELSE 0
  BY DEF Sum, Add
<1>2. QED BY <1>1

(* Half a window and the one that ends where it begins make up the window.   *)
LEMMA WindowSplit ==
  ASSUME v0 \in [Lanes -> Int], NEW l \in Lanes
  PROVE  /\ Window4(l) \in Int /\ Window8(l) \in Int /\ Window16(l) \in Int
         /\ l % RowSize >= 4 => Window8(l) = Window4(l) + Window4(l - 4)
         /\ ~(l % RowSize >= 4) => Window8(l) = Window4(l)
         /\ l % RowSize >= 8 => Window16(l) = Window8(l) + Window8(l - 8)
         /\ ~(l % RowSize >= 8) => Window16(l) = Window8(l)
<1>1. l % RowSize \in 0 .. 15
  BY LaneParts
<1>2. \A k \in 0 .. 16 : In(l, k) \in Int /\ (k > l % RowSize => In(l, k) = 0)
  BY InType
<1>3. /\ In(l, 0) \in Int /\ In(l, 1) \in Int /\ In(l, 2) \in Int /\ In(l, 3) \in Int
      /\ In(l, 4) \in Int /\ In(l, 5) \in Int /\ In(l, 6) \in Int /\ In(l, 7) \in Int
      /\ In(l, 8) \in Int /\ In(l, 9) \in Int /\ In(l, 10) \in Int /\ In(l, 11) \in Int
      /\ In(l, 12) \in Int /\ In(l, 13) \in Int /\ In(l, 14) \in Int /\ In(l, 15) \in Int
  BY <1>2
<1>. DEFINE high4 == In(l, 4) + In(l, 5) + In(l, 6) + In(l, 7)
            high8 == In(l, 8) + In(l, 9) + In(l, 10) + In(l, 11)
                       + In(l, 12) + In(l, 13) + In(l, 14) + In(l, 15)
<1>4. ASSUME l % RowSize >= 4
      PROVE  Window4(l - 4) = high4
  <2>1. \A k \in 0 .. 16 : In(l - 4, k) = In(l, k + 4)
    BY <1>4, InShifts
  <2>2. QED BY <2>1 DEF Window4
<1>5. ASSUME l % RowSize >= 8
      PROVE  Window8(l - 8) = high8
  <2>1. \A k \in 0 .. 16 : In(l - 8, k) = In(l, k + 8)
    BY <1>5, InShifts
  <2>2. QED BY <2>1 DEF Window4, Window8
<1>6. ASSUME ~(l % RowSize >= 4)
      PROVE  high4 = 0
  <2>1. In(l, 4) = 0 /\ In(l, 5) = 0 /\ In(l, 6) = 0 /\ In(l, 7) = 0
    BY <1>1, <1>2, <1>6
  <2>2. QED BY <2>1
<1>7. ASSUME ~(l % RowSize >= 8)
      PROVE  high8 = 0
  <2>1. /\ In(l, 8) = 0 /\ In(l, 9) = 0 /\ In(l, 10) = 0 /\ In(l, 11) = 0
        /\ In(l, 12) = 0 /\ In(l, 13) = 0 /\ In(l, 14) = 0 /\ In(l, 15) = 0
    BY <1>1, <1>2, <1>7
  <2>2. QED BY <2>1
<1>8. /\ high4 \in Int /\ high8 \in Int
      /\ Window4(l) \in Int /\ Window8(l) \in Int /\ Window16(l) \in Int
      /\ Window8(l) = Window4(l) + high4 /\ Window16(l) = Window8(l) + high8
  BY <1>3 DEF Window4, Window8, Window16
<1>. HIDE DEF high4, high8
<1>9. QED BY <1>4, <1>5, <1>6, <1>7, <1>8

(* The fourth and the fifth addition double the windows.                     *)
LEMMA AddFour ==
  ASSUME Vectors, \A k \in Lanes : v1[k] = Window4(k),
         v1' = Sum(Add("v1", "v1", RowShr(4), FALSE, AllRows, {1, 2, 3}), v1),
         NEW l \in Lanes
  PROVE  v1'[l] = Window8(l)
<1>1. /\ Row(l) \in AllRows /\ l % RowSize \in 0 .. 15
      /\ Bank(l) \in {1, 2, 3} <=> l % RowSize >= 4
  BY LaneParts
<1>2. RowShr(4)[l] = IF l % RowSize >= 4 THEN l - 4 ELSE -1
  BY DEF RowShr
<1>3. v1'[l] = IF Row(l) \in AllRows /\ Bank(l) \in {1, 2, 3} /\ RowShr(4)[l] \in Lanes
               THEN v1[l] + v1[RowShr(4)[l]] ELSE v1[l]
  BY AddSelf
<1>4. l % RowSize >= 4 => l - 4 \in Lanes
  BY InShifts DEF Vectors
<1>5. QED BY <1>1, <1>2, <1>3, <1>4, WindowSplit DEF Vectors

LEMMA AddEight ==
  ASSUME Vectors, \A k \in Lanes : v1[k] = Window8(k),
         v1' = Sum(Add("v1", "v1", RowShr(8), FALSE, AllRows, {2, 3}), v1),
         NEW l \in Lanes
  PROVE  v1'[l] = Window16(l)
<1>1. /\ Row(l) \in AllRows /\ l % RowSize \in 0 .. 15
      /\ Bank(l) \in {2, 3} <=> l % RowSize >= 8
  BY LaneParts
<1>2. RowShr(8)[l] = IF l % RowSize >= 8 THEN l - 8 ELSE -1
  BY DEF RowShr
<1>3. v1'[l] = IF Row(l) \in AllRows /\ Bank(l) \in {2, 3} /\ RowShr(8)[l] \in Lanes
               THEN v1[l] + v1[RowShr(8)[l]] ELSE v1[l]
  BY AddSelf
<1>4. l % RowSize >= 8 => l - 8 \in Lanes
  BY InShifts DEF Vectors
<1>5. QED BY <1>1, <1>2, <1>3, <1>4, WindowSplit DEF Vectors

(* The window of sixteen is the whole row: each lane adds its input to the   *)
(* window of the lane before it.                                             *)
LEMMA WindowSums ==
  ASSUME v0 \in [Lanes -> Int], NEW l \in Lanes
  PROVE  Window16(l) = v0[l] + IF l % RowSize = 0 THEN 0 ELSE Window16(l - 1)
<1>1. l % RowSize \in 0 .. 15
  BY LaneParts
<1>2. \A k \in 0 .. 16 : In(l, k) \in Int /\ (k > l % RowSize => In(l, k) = 0)
  BY InType
<1>3. /\ In(l, 0) \in Int /\ In(l, 1) \in Int /\ In(l, 2) \in Int /\ In(l, 3) \in Int
      /\ In(l, 4) \in Int /\ In(l, 5) \in Int /\ In(l, 6) \in Int /\ In(l, 7) \in Int
      /\ In(l, 8) \in Int /\ In(l, 9) \in Int /\ In(l, 10) \in Int /\ In(l, 11) \in Int
      /\ In(l, 12) \in Int /\ In(l, 13) \in Int /\ In(l, 14) \in Int /\ In(l, 15) \in Int
      /\ In(l, 16) = 0 /\ In(l, 0) = v0[l]
  BY <1>1, <1>2, InType
<1>. DEFINE rest == In(l, 1) + In(l, 2) + In(l, 3) + In(l, 4) + In(l, 5)
                      + In(l, 6) + In(l, 7) + In(l, 8) + In(l, 9) + In(l, 10)
                      + In(l, 11) + In(l, 12) + In(l, 13) + In(l, 14) + In(l, 15)
<1>4. Window16(l) = v0[l] + rest
  BY <1>3 DEF Window4, Window8, Window16
<1>5. ASSUME l % RowSize = 0
      PROVE  rest = 0
  <2>1. \A k \in 1 .. 15 : In(l, k) = 0
    BY <1>2, <1>5
  <2>2. QED BY <2>1
<1>6. ASSUME l % RowSize # 0
      PROVE  Window16(l - 1) = rest
  <2>1. \A k \in 0 .. 16 : In(l - 1, k) = In(l, k + 1)
    BY <1>1, <1>6, InShifts
  <2>2. QED BY <1>3, <2>1 DEF Window4, Window8, Window16
<1>. HIDE DEF rest
<1>7. v0[l] + 0 = v0[l] /\ v0[l] \in Int
  OBVIOUS
<1>8. QED BY <1>4, <1>5, <1>6, <1>7

LEMMA RowSums ==
  ASSUME Vectors, \A k \in Lanes : v1[k] = Window16(k)
  PROVE  SumsOf(RowSize)
<1>. SUFFICES ASSUME NEW l \in Lanes
              PROVE  v1[l] = v0[l] + IF l % RowSize = 0 THEN 0 ELSE v1[l - 1]
  BY DEF SumsOf
<1>1. l % RowSize # 0 => l - 1 \in Lanes
  BY LaneParts, InShifts DEF Vectors
<1>2. QED BY <1>1, WindowSums DEF Vectors

(* The broadcast of lane 15 to rows 1 and 3 joins two rows each, that of     *)
(* lane 31 to the upper half joins all.                                      *)
LEMMA LaneCases ==
  ASSUME NEW l \in 0 .. 63
  PROVE  /\ Row(l) = 1 <=> l \in 16 .. 31
         /\ Row(l) = 3 <=> l \in 48 .. 63
         /\ Row(l) \in {2, 3} <=> l >= 32
         /\ l % RowSize = 0 <=> l \in {0, 16, 32, 48}
         /\ l % 32 = 0 <=> l \in {0, 32}
BY SMT DEF Row, RowSize

LEMMA JoinRows ==
  ASSUME Vectors, SumsOf(RowSize),
         v1' = Sum(Add("v1", "v1", RowBcast15, FALSE, {1, 3}, AllBanks), v1)
  PROVE  \A l \in Lanes : v1'[l] = v0[l] + IF l % 32 = 0 THEN 0 ELSE v1'[l - 1]
<1>. DEFINE w == v1'
<1>1. ASSUME NEW l \in 0 .. 63
      PROVE  /\ l \in 16 .. 31 => w[l] = v1[l] + v1[15]
             /\ l \in 48 .. 63 => w[l] = v1[l] + v1[47]
             /\ l \notin 16 .. 31 /\ l \notin 48 .. 63 => w[l] = v1[l]
             /\ v1[l] \in Int /\ v0[l] \in Int
             /\ l \in {0, 16, 32, 48} => v1[l] = v0[l]
             /\ l \notin {0, 16, 32, 48} => v1[l] = v0[l] + v1[l - 1]
  <2>1. v1'[l] = IF Row(l) \in {1, 3} /\ Bank(l) \in AllBanks /\ RowBcast15[l] \in Lanes
                 THEN v1[l] + v1[RowBcast15[l]] ELSE v1[l]
    BY AddSelf DEF Lanes
  <2>2. Bank(l) \in AllBanks /\ RowBcast15[l] = Row(l) * RowSize - 1
    BY LaneParts DEF RowBcast15, Lanes
  <2>3. 1 * RowSize - 1 = 15 /\ 3 * RowSize - 1 = 47 /\ 15 \in Lanes /\ 47 \in Lanes
    BY DEF RowSize, Lanes
  <2>4. v1[l] \in Int /\ v0[l] \in Int
    BY DEF Vectors, Lanes
  <2>5. v1[l] = v0[l] + IF l % RowSize = 0 THEN 0 ELSE v1[l - 1]
    BY DEF SumsOf, Lanes
  <2>6. v0[l] + 0 = v0[l]
    BY <2>4
  <2>7. /\ l \in {0, 16, 32, 48} => v1[l] = v0[l]
        /\ l \notin {0, 16, 32, 48} => v1[l] = v0[l] + v1[l - 1]
    BY <2>5, <2>6, LaneCases
  <2>8. l \in 16 .. 31 => w[l] = v1[l] + v1[15]
    <3>1. l \in 16 .. 31 => Row(l) = 1
      BY LaneCases
    <3>2. Row(l) = 1 => RowBcast15[l] = 15
      BY <2>2, <2>3
    <3>3. QED BY <2>1, <2>2, <2>3, <3>1, <3>2
  <2>9. l \in 48 .. 63 => w[l] = v1[l] + v1[47]
    <3>1. l \in 48 .. 63 => Row(l) = 3
      BY LaneCases
    <3>2. Row(l) = 3 => RowBcast15[l] = 47
      BY <2>2, <2>3
    <3>3. QED BY <2>1, <2>2, <2>3, <3>1, <3>2
  <2>10. l \notin 16 .. 31 /\ l \notin 48 .. 63 => w[l] = v1[l]
    <3>1. l \notin 16 .. 31 /\ l \notin 48 .. 63 => Row(l) \notin {1, 3}
      BY LaneCases
    <3>2. QED BY <2>1, <3>1
  <2>11. QED BY <2>4, <2>7, <2>8, <2>9, <2>10
<1>2. v1[15] \in Int /\ v1[47] \in Int
  BY <1>1
<1>. HIDE DEF w
<1>3. ASSUME NEW l \in 0 .. 63, l \in {0, 32}
      PROVE  w[l] = v0[l]
  BY <1>1, <1>3
<1>4. ASSUME NEW l \in 0 .. 63, l \notin {0, 32}
      PROVE  w[l] = v0[l] + w[l - 1]
  <2>1. l - 1 \in 0 .. 63
    BY <1>4
  <2>. DEFINE a == v1[l]
              b == v1[l - 1]
              x == v0[l]
  <2>2. a \in Int /\ b \in Int /\ x \in Int
    BY <1>1, <2>1
  <2>3. CASE l = 16
    BY <1>1, <2>3
  <2>4. CASE l = 48
    BY <1>1, <2>4
  <2>5. CASE l \notin {0, 16, 32, 48}
    <3>1. a = x + b
      BY <1>1, <2>5
    <3>2. CASE l \in 16 .. 31
      <4>1. w[l] = a + v1[15] /\ w[l - 1] = b + v1[15]
        BY <1>1, <2>1, <2>5, <3>2
      <4>2. QED BY <1>2, <2>2, <3>1, <4>1
    <3>3. CASE l \in 48 .. 63
      <4>1. w[l] = a + v1[47] /\ w[l - 1] = b + v1[47]
        BY <1>1, <2>1, <2>5, <3>3
      <4>2. QED BY <1>2, <2>2, <3>1, <4>1
    <3>4. CASE l \notin 16 .. 31 /\ l \notin 48 .. 63
      <4>1. w[l] = a /\ w[l - 1] = b
        BY <1>1, <2>1, <2>5, <3>4
      <4>2. QED BY <3>1, <4>1
    <3>5. QED BY <3>2, <3>3, <3>4
  <2>6. QED BY <1>4, <2>3, <2>4, <2>5
<1>5. ASSUME NEW l \in 0 .. 63
      PROVE  w[l] = v0[l] + IF l % 32 = 0 THEN 0 ELSE w[l - 1]
  <2>1. v0[l] + 0 = v0[l]
    BY <1>1
  <2>2. QED BY <1>3, <1>4, <2>1, LaneCases
<1>6. QED BY <1>5 DEF w, Lanes

LEMMA JoinHalves ==
  ASSUME Vectors, SumsOf(32),
         v1' = Sum(Add("v1", "v1", RowBcast31, FALSE, {2, 3}, AllBanks), v1)
  PROVE  \A l \in Lanes : v1'[l] = v0[l] + IF l = 0 THEN 0 ELSE v1'[l - 1]
<1>. DEFINE w == v1'
<1>1. ASSUME NEW l \in 0 .. 63
      PROVE  /\ l >= 32 => w[l] = v1[l] + v1[31]
             /\ l < 32 => w[l] = v1[l]
             /\ v1[l] \in Int /\ v0[l] \in Int
             /\ l \in {0, 32} => v1[l] = v0[l]
             /\ l \notin {0, 32} => v1[l] = v0[l] + v1[l - 1]
  <2>1. v1'[l] = IF Row(l) \in {2, 3} /\ Bank(l) \in AllBanks /\ RowBcast31[l] \in Lanes
                 THEN v1[l] + v1[RowBcast31[l]] ELSE v1[l]
    BY AddSelf DEF Lanes
  <2>2. /\ Bank(l) \in AllBanks /\ RowBcast31[l] = IF l >= 32 THEN 31 ELSE -1
        /\ 31 \in Lanes
    BY LaneParts DEF RowBcast31, Lanes
  <2>3. v1[l] \in Int /\ v0[l] \in Int
    BY DEF Vectors, Lanes
  <2>4. v1[l] = v0[l] + IF l % 32 = 0 THEN 0 ELSE v1[l - 1]
    BY DEF SumsOf, Lanes
  <2>5. v0[l] + 0 = v0[l]
    BY <2>3
  <2>6. /\ l \in {0, 32} => v1[l] = v0[l]
        /\ l \notin {0, 32} => v1[l] = v0[l] + v1[l - 1]
    BY <2>4, <2>5, LaneCases
  <2>7. l >= 32 => w[l] = v1[l] + v1[31]
    <3>1. l >= 32 => Row(l) \in {2, 3}
      BY LaneCases
    <3>2. QED BY <2>1, <2>2, <3>1
  <2>8. l < 32 => w[l] = v1[l]
    <3>1. l < 32 => Row(l) \notin {2, 3}
      BY LaneCases
    <3>2. QED BY <2>1, <3>1
  <2>9. QED BY <2>3, <2>6, <2>7, <2>8
<1>2. v1[31] \in Int
  BY <1>1
<1>. HIDE DEF w
<1>3. w[0] = v0[0]
  BY <1>1
<1>4. ASSUME NEW l \in 0 .. 63, l # 0
      PROVE  w[l] = v0[l] + w[l - 1]
  <2>1. l - 1 \in 0 .. 63
    BY <1>4
  <2>. DEFINE a == v1[l]
              b == v1[l - 1]
              x == v0[l]
  <2>2. a \in Int /\ b \in Int /\ x \in Int
    BY <1>1, <2>1
  <2>3. CASE l = 32
    BY <1>1, <2>3
  <2>4. CASE l # 32
    <3>1. a = x + b
      BY <1>1, <1>4, <2>4
    <3>2. CASE l >= 32
      <4>1. w[l] = a + v1[31] /\ w[l - 1] = b + v1[31]
        BY <1>1, <2>1, <2>4, <3>2
      <4>2. QED BY <1>2, <2>2, <3>1, <4>1
    <3>3. CASE l < 32
      <4>1. w[l] = a /\ w[l - 1] = b
        BY <1>1, <2>1, <3>3
      <4>2. QED BY <3>1, <4>1
    <3>4. QED BY <3>2, <3>3
  <2>5. QED BY <2>3, <2>4
<1>5. ASSUME NEW l \in 0 .. 63
      PROVE  w[l] = v0[l] + IF l = 0 THEN 0 ELSE w[l - 1]
  <2>1. v0[l] + 0 = v0[l]
    BY <1>1
  <2>2. QED BY <1>3, <1>4, <2>1
<1>6. QED BY <1>5 DEF w, Lanes

(* What v1 holds before each instruction, and that it is old enough where an *)
(* instruction reads it shifted.                                             *)
Partial ==
  /\ dpp_pc = 2 => \A l \in Lanes : v1[l] = In(l, 0) + In(l, 1)
  /\ dpp_pc = 3 => \A l \in Lanes : v1[l] = In(l, 0) + In(l, 1) + In(l, 2)
  /\ dpp_pc \in 4 .. 6 => \A l \in Lanes : v1[l] = Window4(l)
  /\ dpp_pc \in 7 .. 9 => \A l \in Lanes : v1[l] = Window8(l)
  /\ dpp_pc \in 10 .. 12 => SumsOf(RowSize)
  /\ dpp_pc \in 13 .. 15 => SumsOf(32)
  /\ dpp_pc = 16 => \A l \in Lanes : v1[l] = Expected(l)

Settled ==
  /\ dpp_pc \in {5, 8, 11, 14} => v1_age >= 1
  /\ dpp_pc \in {6, 9, 12, 15} => v1_age >= 2

DInv == DppTypeOK /\ Partial /\ Settled

LEMMA PrefixInit ==
  ASSUME DppInit
  PROVE  DInv
<1>1. Len(DppKernel) + 1 = 16
  BY Instructions
<1>2. /\ v0 \in [Lanes -> Int] /\ v1 \in [Lanes -> Int] /\ v1_old = v1
      /\ v1_age = 2 /\ dpp_pc = 0
  BY DEF DppInit, Lanes, WaitStates
<1>3. QED BY <1>1, <1>2 DEF DInv, DppTypeOK, Partial, Settled

LEMMA LoadKeeps ==
  ASSUME DInv, Load
  PROVE  DInv'
<1>1. Len(DppKernel) + 1 = 16
  BY Instructions
<1>2. v0' \in [Lanes -> Int] /\ dpp_pc' = 1 /\ UNCHANGED <<v1, v1_old, v1_age>>
  BY InputsAssumption DEF Load
<1>3. QED BY <1>1, <1>2 DEF DInv, DppTypeOK, Partial, Settled

\* The instructions that wait and those that add.
LEMMA Kinds ==
  /\ \A k \in {4, 5, 7, 8, 10, 11, 13, 14} : DppKernel[k].op = "s_nop"
  /\ \A k \in {1, 2, 3, 6, 9, 12, 15} : DppKernel[k].op = "v_add_f32"
<1>1. Nop.op = "s_nop"
  BY DEF Nop
<1>2. \A k \in {1, 2, 3, 6, 9, 12, 15} : DppKernel[k].op = "v_add_f32"
  BY Instructions DEF Add, Shifted
<1>3. QED BY <1>1, <1>2, Instructions

LEMMA WaitKeeps ==
  ASSUME DInv, Wait
  PROVE  DInv'
<1>1. /\ Len(DppKernel) + 1 = 16
      /\ dpp_pc \in 1 .. 15 /\ DppKernel[dpp_pc].op = "s_nop"
      /\ v1_age' = v1_age + 1 /\ dpp_pc' = dpp_pc + 1
      /\ UNCHANGED <<v0, v1, v1_old>> /\ v1_age \in Nat
  BY Instructions DEF Wait, DInv, DppTypeOK
<1>2. dpp_pc \in {4, 5, 7, 8, 10, 11, 13, 14}
  <2>1. "s_nop" # "v_add_f32"
    OBVIOUS
  <2>2. QED BY <1>1, <2>1, Kinds
<1>3. DppTypeOK'
  BY <1>1 DEF DInv, DppTypeOK
<1>4. Partial'
  BY <1>1, <1>2 DEF DInv, Partial, SumsOf, In, Window4, Window8
<1>5. Settled'
  BY <1>1, <1>2 DEF DInv, Settled
<1>6. QED BY <1>3, <1>4, <1>5 DEF DInv

(* An addition makes numbers of numbers.                                     *)
LEMMA SumType ==
  ASSUME Vectors, NEW seen \in [Lanes -> Int], NEW add
  PROVE  Sum(add, seen) \in [Lanes -> Int]
<1>1. ASSUME NEW l \in Lanes
      PROVE  /\ v1[l] \in Int
             /\ (IF add.src = "v0" THEN v0 ELSE v1)[l]
                  + (IF add.from[l] \in Lanes THEN seen[add.from[l]] ELSE 0) \in Int
  BY DEF Vectors
<1>2. QED BY <1>1 DEF Sum

LEMMA AddKeeps ==
  ASSUME DInv, AddShifted
  PROVE  DInv'
<1>1. /\ Len(DppKernel) + 1 = 16
      /\ dpp_pc \in 1 .. 15 /\ DppKernel[dpp_pc].op = "v_add_f32"
      /\ v1_age' = 0 /\ dpp_pc' = dpp_pc + 1 /\ v1_old' = v1 /\ v0' = v0
      /\ Vectors /\ v1_old \in [Lanes -> Int]
  BY Instructions DEF AddShifted, DInv, DppTypeOK, Vectors
<1>. DEFINE add == DppKernel[dpp_pc]
<1>2. PICK seen \in Seen(add.dpp) : v1' = Sum(add, seen)
  BY DEF AddShifted
<1>3. dpp_pc \in {1, 2, 3, 6, 9, 12, 15}
  <2>1. "s_nop" # "v_add_f32"
    OBVIOUS
  <2>2. QED BY <1>1, <2>1, Kinds
<1>4. v1' \in [Lanes -> Int]
  <2>1. seen \in [Lanes -> Int]
    BY <1>1, <1>2 DEF Seen, Vectors
  <2>. HIDE DEF add
  <2>2. QED BY <1>1, <1>2, <2>1, SumType
<1>5. DppTypeOK'
  BY <1>1, <1>4 DEF DInv, DppTypeOK, Vectors
<1>6. Settled'
  BY <1>1, <1>3 DEF Settled
<1>7. dpp_pc \in {1, 2, 3} => seen = v0
  <2>1. dpp_pc \in {1, 2, 3} => add.dpp = "v0"
    BY Instructions DEF Shifted, Add
  <2>2. QED BY <1>2, <2>1 DEF Seen
<1>8. dpp_pc \in {6, 9, 12, 15} => seen = v1
  <2>1. dpp_pc \in {6, 9, 12, 15} => add.dpp = "v1"
    BY Instructions DEF Add
  <2>2. dpp_pc \in {6, 9, 12, 15} => v1_age >= WaitStates
    BY DEF DInv, Settled, WaitStates
  <2>3. "v1" # "v0"
    OBVIOUS
  <2>4. QED BY <1>2, <2>1, <2>2, <2>3 DEF Seen
<1>. HIDE DEF add
<1>9. ASSUME NEW l \in Lanes
      PROVE  In(l, 0) = v0[l]
  BY <1>1, InType DEF Vectors
<1>10. CASE dpp_pc = 1
  <2>1. v1' = Sum(Shifted("v0", 1), v0)
    BY <1>2, <1>7, <1>10, Instructions DEF add
  <2>2. \A l \in Lanes : v1'[l] = In(l, 0) + In(l, 1)
    BY <1>1, <1>9, <2>1, AddInput
  <2>3. QED BY <1>1, <1>5, <1>6, <1>10, <2>2 DEF DInv, Partial, In
<1>11. CASE dpp_pc = 2
  <2>1. v1' = Sum(Shifted("v1", 2), v0)
    BY <1>2, <1>7, <1>11, Instructions DEF add
  <2>2. \A l \in Lanes : v1'[l] = v1[l] + In(l, 2)
    BY <1>1, <2>1, AddInput
  <2>3. \A l \in Lanes : v1'[l] = In(l, 0) + In(l, 1) + In(l, 2)
    BY <1>11, <2>2 DEF DInv, Partial
  <2>4. QED BY <1>1, <1>5, <1>6, <1>11, <2>3 DEF DInv, Partial, In
<1>12. CASE dpp_pc = 3
  <2>1. v1' = Sum(Shifted("v1", 3), v0)
    BY <1>2, <1>7, <1>12, Instructions DEF add
  <2>2. \A l \in Lanes : v1'[l] = v1[l] + In(l, 3)
    BY <1>1, <2>1, AddInput
  <2>3. \A l \in Lanes : v1'[l] = Window4(l)
    BY <1>12, <2>2 DEF DInv, Partial, Window4
  <2>4. QED BY <1>1, <1>5, <1>6, <1>12, <2>3 DEF DInv, Partial, In, Window4
<1>13. CASE dpp_pc = 6
  <2>1. v1' = Sum(Add("v1", "v1", RowShr(4), FALSE, AllRows, {1, 2, 3}), v1)
    BY <1>2, <1>8, <1>13, Instructions DEF add
  <2>2. \A l \in Lanes : v1[l] = Window4(l)
    BY <1>13 DEF DInv, Partial
  <2>3. \A l \in Lanes : v1'[l] = Window8(l)
    BY <1>1, <2>1, <2>2, AddFour
  <2>4. QED BY <1>1, <1>5, <1>6, <1>13, <2>3 DEF DInv, Partial, In, Window4, Window8
<1>14. CASE dpp_pc = 9
  <2>1. v1' = Sum(Add("v1", "v1", RowShr(8), FALSE, AllRows, {2, 3}), v1)
    BY <1>2, <1>8, <1>14, Instructions DEF add
  <2>2. \A l \in Lanes : v1[l] = Window8(l)
    BY <1>14 DEF DInv, Partial
  <2>3. \A l \in Lanes : v1'[l] = Window16(l)
    BY <1>1, <2>1, <2>2, AddEight
  <2>4. \A l \in Lanes : v1'[l] = v0[l] + IF l % RowSize = 0 THEN 0 ELSE v1'[l - 1]
    <3>1. ASSUME NEW l \in Lanes
          PROVE  l % RowSize # 0 => l - 1 \in Lanes
      <4>1. v0 \in [Lanes -> Int] /\ l % RowSize \in 0 .. 15
        BY <1>1, LaneParts DEF Vectors
      <4>2. QED BY <4>1, InShifts
    <3>2. QED BY <1>1, <2>3, <3>1, WindowSums DEF Vectors
  <2>5. QED BY <1>1, <1>5, <1>6, <1>14, <2>4 DEF DInv, Partial, SumsOf
<1>15. CASE dpp_pc = 12
  <2>1. v1' = Sum(Add("v1", "v1", RowBcast15, FALSE, {1, 3}, AllBanks), v1)
    BY <1>2, <1>8, <1>15, Instructions DEF add
  <2>2. \A l \in Lanes : v1'[l] = v0[l] + IF l % 32 = 0 THEN 0 ELSE v1'[l - 1]
    <3>1. Vectors /\ SumsOf(RowSize)
      BY <1>1, <1>15 DEF DInv, Partial
    <3>2. QED BY <2>1, <3>1, JoinRows
  <2>3. QED BY <1>1, <1>5, <1>6, <1>15, <2>2 DEF DInv, Partial, SumsOf
<1>16. CASE dpp_pc = 15
  <2>1. v1' = Sum(Add("v1", "v1", RowBcast31, FALSE, {2, 3}, AllBanks), v1)
    BY <1>2, <1>8, <1>16, Instructions DEF add
  <2>2. \A l \in Lanes : v1'[l] = v0[l] + IF l = 0 THEN 0 ELSE v1'[l - 1]
    <3>1. Vectors /\ SumsOf(32)
      BY <1>1, <1>16 DEF DInv, Partial
    <3>2. QED BY <2>1, <3>1, JoinHalves
  <2>3. QED BY <1>1, <1>5, <1>6, <1>16, <2>2 DEF DInv, Partial, Expected
<1>17. QED BY <1>3, <1>10, <1>11, <1>12, <1>13, <1>14, <1>15, <1>16

LEMMA PrefixInvariant == DppSpec => []DInv
<1>1. DppInit => DInv
  BY PrefixInit
<1>2. DInv /\ [DppNext]_dppVars => DInv'
  <2>1. ASSUME DInv, UNCHANGED dppVars
        PROVE  DInv'
    BY <2>1 DEF DInv, DppTypeOK, Partial, Settled, SumsOf, Expected, In, Window4, Window8,
                dppVars
  <2>2. QED BY <2>1, LoadKeeps, WaitKeeps, AddKeeps DEF DppNext
<1>3. QED BY <1>1, <1>2, PTL DEF DppSpec

(* For any input vector, each lane holds the sum of the inputs up to its own *)
(* when the kernel stores its result, whatever an early read of a register   *)
(* could yield (dpp_reduce.s:83-96).                                         *)
THEOREM PrefixSums == DppSpec => []PrefixSum
<1>1. DInv => PrefixSum
  BY Instructions DEF DInv, Partial, PrefixSum, Ended
<1>2. QED BY <1>1, PrefixInvariant, PTL

-----------------------------------------------------------------------------
(* Halves. *)

(* Widening and narrowing bring back every half (half.cpp:48-69).            *)
LEMMA HalvesReturn == EveryHalfReturns
<1>. SUFFICES ASSUME NEW h \in HalfFloat
              PROVE  RoundTrip(h)
  BY DEF EveryHalfReturns
<1>1. h = [sign |-> h.sign, exp |-> h.exp, frac |-> h.frac]
      /\ h.exp \in 0 .. 31 /\ h.frac \in 0 .. 1023
  BY DEF HalfFloat
<1>2. CASE IsZero(h)
  <2>1. IsZero(ZeroFloat)
    BY DEF IsZero, ZeroFloat
  <2>2. QED BY <1>2, <2>1 DEF RoundTrip, h2f, f2h
<1>3. CASE ~IsZero(h)
  <2>. DEFINE f == h2f(h)
  <2>1. f = [sign |-> h.sign, exp |-> h.exp + 112, frac |-> h.frac * 8192]
    BY <1>3 DEF h2f
  <2>2. f.sign = h.sign /\ f.exp = h.exp + 112 /\ f.frac = h.frac * 8192
    BY <2>1
  <2>3. ~IsZero(f)
    BY <1>1, <2>2 DEF IsZero
  <2>4. (f.exp - 112) % 32 = h.exp /\ f.frac \div 8192 = h.frac
    BY <1>1, <2>2, SMT
  <2>. HIDE DEF f
  <2>5. f2h(f) = [sign |-> h.sign, exp |-> h.exp, frac |-> h.frac]
    BY <2>2, <2>3, <2>4 DEF f2h
  <2>6. QED BY <1>1, <1>3, <2>5 DEF RoundTrip, f
<1>4. QED BY <1>2, <1>3

(* f2h is the inverse of h2f on all halves (half.cpp:48-69).                 *)
THEOREM HalvesInverse == HalfSpec => []HalfInverse
<1>1. HalfInverse
  BY HalvesReturn DEF HalfInverse
<1>2. QED BY <1>1, PTL

(* A multiple divides evenly.                                                *)
LEMMA Multiple ==
  ASSUME NEW a \in Nat, NEW m \in Nat \ {0}
  PROVE  a * m \in Nat /\ (a * m) \div m = a /\ (a * m) % m = 0
BY SMT

Weight == [k \in 0 .. 23 |->
  <<1, 2, 4, 8, 16, 32, 64, 128, 256, 512, 1024, 2048, 4096, 8192, 16384, 32768, 65536,
    131072, 262144, 524288, 1048576, 2097152, 4194304, 8388608>>[k + 1]]

\* The provers know 2 ^ k for the numbers k only.
Pow(k) == 2 ^ k

(* The powers up to that of the fraction of a float.                         *)
LEMMA Powers ==
  ASSUME NEW k, k \in 0 .. 23
  PROVE  Pow(k) = Weight[k]
<1>1. k = 0 => Pow(k) = 1
  BY DEF Pow
<1>2. k = 1 => Pow(k) = 2
  BY DEF Pow
<1>3. k = 2 => Pow(k) = 4
  BY DEF Pow
<1>4. k = 3 => Pow(k) = 8
  BY DEF Pow
<1>5. k = 4 => Pow(k) = 16
  BY DEF Pow
<1>6. k = 5 => Pow(k) = 32
  BY DEF Pow
<1>7. k = 6 => Pow(k) = 64
  BY DEF Pow
<1>8. k = 7 => Pow(k) = 128
  BY DEF Pow
<1>9. k = 8 => Pow(k) = 256
  BY DEF Pow
<1>10. k = 9 => Pow(k) = 512
  BY DEF Pow
<1>11. k = 10 => Pow(k) = 1024
  BY DEF Pow
<1>12. k = 11 => Pow(k) = 2048
  BY DEF Pow
<1>13. k = 12 => Pow(k) = 4096
  BY DEF Pow
<1>14. k = 13 => Pow(k) = 8192
  BY DEF Pow
<1>15. k = 14 => Pow(k) = 16384
  BY DEF Pow
<1>16. k = 15 => Pow(k) = 32768
  BY DEF Pow
<1>17. k = 16 => Pow(k) = 65536
  BY DEF Pow
<1>18. k = 17 => Pow(k) = 131072
  BY DEF Pow
<1>19. k = 18 => Pow(k) = 262144
  BY DEF Pow
<1>20. k = 19 => Pow(k) = 524288
  BY DEF Pow
<1>21. k = 20 => Pow(k) = 1048576
  BY DEF Pow
<1>22. k = 21 => Pow(k) = 2097152
  BY DEF Pow
<1>23. k = 22 => Pow(k) = 4194304
  BY DEF Pow
<1>24. k = 23 => Pow(k) = 8388608
  BY DEF Pow
<1>25. \/ k = 0 \/ k = 1 \/ k = 2 \/ k = 3 \/ k = 4 \/ k = 5 \/ k = 6 \/ k = 7 \/ k = 8
       \/ k = 9 \/ k = 10 \/ k = 11 \/ k = 12 \/ k = 13 \/ k = 14 \/ k = 15 \/ k = 16
       \/ k = 17 \/ k = 18 \/ k = 19 \/ k = 20 \/ k = 21 \/ k = 22 \/ k = 23
  OBVIOUS
<1>26. QED
  BY <1>1, <1>2, <1>3, <1>4, <1>5, <1>6, <1>7, <1>8, <1>9, <1>10, <1>11, <1>12, <1>13, <1>14,
     <1>15, <1>16, <1>17, <1>18, <1>19, <1>20, <1>21, <1>22, <1>23, <1>24, <1>25 DEF Weight

(* The first and the last bit of eleven make up 1024.                        *)
LEMMA Fractions ==
  ASSUME NEW k, k \in 0 .. 10
  PROVE  /\ Pow(k) \in Nat \ {0} /\ Pow(10 - k) \in Nat \ {0}
         /\ Pow(k + 1) = 2 * Pow(k)
         /\ Pow(k) * Pow(10 - k) = 1024 /\ Pow(23 - k) = Pow(10 - k) * 8192
<1>1. /\ Pow(k) = Weight[k] /\ Pow(k + 1) = Weight[k + 1]
      /\ Pow(10 - k) = Weight[10 - k] /\ Pow(23 - k) = Weight[23 - k]
  BY Powers
<1>2. /\ Weight[k] * Weight[10 - k] = 1024 /\ Weight[23 - k] = Weight[10 - k] * 8192
      /\ Weight[k + 1] = 2 * Weight[k]
      /\ Weight[k] \in Nat \ {0} /\ Weight[10 - k] \in Nat \ {0}
  BY DEF Weight
<1>3. QED BY <1>1, <1>2

(* A number of quarters lies between two powers.                             *)
LEMMA Lengths ==
  ASSUME NEW n, n \in 1 .. 2047
  PROVE  Log2(n) \in 0 .. 10 /\ n \in Pow(Log2(n)) .. 2 * Pow(Log2(n)) - 1
<1>. DEFINE Has(k) == Pow(k) <= n /\ n < Pow(k + 1)
<1>1. \A k \in 0 .. 10 : Has(k) => n \in Pow(k) .. 2 * Pow(k) - 1
  BY Fractions
<1>2. \E k \in 0 .. 10 : Has(k)
  <2>1. \E k \in 0 .. 10 : n \in Weight[k] .. 2 * Weight[k] - 1
    BY DEF Weight
  <2>2. PICK k \in 0 .. 10 : n \in Weight[k] .. 2 * Weight[k] - 1
    BY <2>1
  <2>3. Pow(k) = Weight[k]
    BY Powers
  <2>4. Has(k)
    BY <2>2, <2>3, Fractions
  <2>5. QED BY <2>4
<1>3. Log2(n) = CHOOSE k \in 0 .. 10 : Has(k)
  BY DEF Log2, Pow
<1>. HIDE DEF Has
<1>4. Log2(n) \in 0 .. 10 /\ Has(Log2(n))
  BY <1>2, <1>3
<1>5. QED BY <1>1, <1>4

\* The weights of the first and of the last bit of a number of quarters.
Bits(n, k, p, q) ==
  /\ k = Log2(n) /\ k \in 0 .. 10 /\ p \in Nat \ {0} /\ q \in Nat \ {0} /\ p * q = 1024
  /\ Pow(k) = p /\ Pow(23 - k) = q * 8192 /\ n \in p .. 2 * p - 1

(* Every number of quarters has its bits.                                    *)
LEMMA EveryNumber ==
  ASSUME NEW n, n \in 1 .. 2047
  PROVE  \E k, p, q : Bits(n, k, p, q)
<1>. DEFINE k == Log2(n)
<1>1. Log2(n) \in 0 .. 10 /\ n \in Pow(Log2(n)) .. 2 * Pow(Log2(n)) - 1
  BY Lengths
<1>. HIDE DEF k
<1>2. k \in 0 .. 10 /\ n \in Pow(k) .. 2 * Pow(k) - 1 /\ k = Log2(n)
  BY <1>1 DEF k
<1>3. /\ Pow(k) \in Nat \ {0} /\ Pow(10 - k) \in Nat \ {0}
      /\ Pow(k) * Pow(10 - k) = 1024 /\ Pow(23 - k) = Pow(10 - k) * 8192
  BY <1>2, Fractions
<1>4. Bits(n, k, Pow(k), Pow(10 - k))
  BY <1>2, <1>3 DEF Bits
<1>5. QED BY <1>4

(* A fraction of less than one, widened to ten bits.                         *)
LEMMA Products ==
  ASSUME NEW p \in Nat \ {0}, NEW q \in Nat \ {0}, p * q = 1024, NEW a \in 0 .. p - 1
  PROVE  /\ a * q \in 0 .. 1023 /\ a * 1024 = (a * q) * p
         /\ a * (q * 8192) = (a * q) * 8192
<1>1. a * (p * q) = (a * q) * p /\ a * (q * 8192) = (a * q) * 8192
  BY SMT
<1>2. a * q \in Nat /\ a * q + q <= p * q
  <2>1. p * q = a * q + (p - a) * q /\ p - a >= 1
    BY SMT
  <2>2. (p - a) * q >= q
    BY <2>1, SMT
  <2>3. QED BY <2>1, <2>2, SMT
<1>3. QED BY <1>1, <1>2

(* What is read from the formats, without the cases that are not met.       *)
LEMMA Readings ==
  ASSUME NEW x, ~IsZero(x), x.sign = 0
  PROVE  /\ x.exp - 13 \in 0 .. 10 /\ (x.frac * Pow(x.exp - 13)) % 1024 = 0 =>
              HalfQuarters(x) =
                Pow(x.exp - 13) + (x.frac * Pow(x.exp - 13)) \div 1024
         /\ x.exp - 125 \in 0 .. 10 /\ x.frac % Pow(23 - (x.exp - 125)) = 0 =>
              Quarters(x) =
                Pow(x.exp - 125) + x.frac \div Pow(23 - (x.exp - 125))
BY DEF HalfQuarters, Quarters, Pow

(* What the conversions do to a number of quarters that is not zero.         *)
LEMMA QuartersKept ==
  ASSUME NEW n, n \in 1 .. 2047
  PROVE  /\ HalfOf(n) \in HalfFloat /\ f2h(FloatOf(n)) = HalfOf(n)
         /\ HalfQuarters(HalfOf(n)) = n /\ Quarters(h2f(HalfOf(n))) = n
<1>0. PICK k, p, q : Bits(n, k, p, q)
  BY EveryNumber
<1>. DEFINE a == n - p
<1>1. /\ k = Log2(n) /\ k \in 0 .. 10 /\ p \in Nat \ {0} /\ q \in Nat \ {0} /\ p * q = 1024
      /\ Pow(k) = p /\ Pow(23 - k) = q * 8192 /\ a \in 0 .. p - 1 /\ n # 0
  BY <1>0 DEF Bits
<1>2. /\ HalfOf(n) = [sign |-> 0, exp |-> 13 + k, frac |-> (a * 1024) \div p]
      /\ FloatOf(n) = [sign |-> 0, exp |-> 125 + k, frac |-> a * (q * 8192)]
  <2>. DEFINE r == q * 8192
  <2>1. r \in Nat /\ p \in Nat /\ Pow(23 - k) = r
    BY <1>1
  <2>. HIDE DEF r
  <2>2. /\ HalfOf(n) = [sign |-> 0, exp |-> 13 + k, frac |-> ((n - p) * 1024) \div p]
        /\ FloatOf(n) = [sign |-> 0, exp |-> 125 + k, frac |-> (n - p) * r]
    <3>1. /\ HalfOf(n) = [sign |-> 0, exp |-> 13 + Log2(n),
                            frac |-> ((n - Pow(Log2(n))) * 1024) \div Pow(Log2(n))]
          /\ FloatOf(n) = [sign |-> 0, exp |-> 125 + Log2(n),
                             frac |-> (n - Pow(Log2(n))) * Pow(23 - Log2(n))]
      BY <1>1 DEF HalfOf, FloatOf, Pow
    <3>2. Pow(Log2(n)) = p /\ Pow(23 - Log2(n)) = r
      BY <1>1, <2>1
    <3>3. QED BY <1>1, <3>1, <3>2
  <2>3. QED BY <2>2 DEF r
<1>. HIDE DEF a
<1>3. a * 1024 = (a * q) * p /\ a * (q * 8192) = (a * q) * 8192 /\ a * q \in 0 .. 1023
  BY <1>1, Products
<1>4. (a * 1024) \div p = a * q
  <2>. DEFINE b == a * q
  <2>1. b \in Nat /\ a * 1024 = b * p
    BY <1>3
  <2>. HIDE DEF b
  <2>2. (b * p) \div p = b
    BY <1>1, <2>1, Multiple
  <2>3. QED BY <2>1, <2>2 DEF b
<1>. DEFINE h == HalfOf(n)
            f == FloatOf(n)
            m == a * q
<1>6. h = [sign |-> 0, exp |-> 13 + k, frac |-> m] /\ h.sign = 0 /\ h.exp = 13 + k /\ h.frac = m
  BY <1>2, <1>4
<1>7. f.sign = 0 /\ f.exp = 125 + k /\ f.frac = m * 8192
  BY <1>2, <1>3
<1>8. m \in 0 .. 1023 /\ m * 8192 \in Nat /\ (m * 8192) \div 8192 = m
  <2>1. m \in 0 .. 1023
    BY <1>3
  <2>. HIDE DEF m
  <2>2. QED BY <2>1
<1>9. m * p = a * 1024 /\ m * 8192 = a * (q * 8192) /\ n = p + a
  BY <1>1, <1>3 DEF a
<1>. HIDE DEF m, h, f
<1>10. h \in HalfFloat /\ ~IsZero(h)
  BY <1>1, <1>6, <1>8 DEF HalfFloat, IsZero
<1>11. f2h(f) = h
  <2>1. ~IsZero(f) /\ (f.exp - 112) % 32 = 13 + k
    BY <1>1, <1>7 DEF IsZero
  <2>2. QED BY <1>6, <1>7, <1>8, <2>1 DEF f2h
<1>12. HalfQuarters(h) = n
  <2>1. a * 1024 \in Nat /\ (a * 1024) \div 1024 = a /\ (a * 1024) % 1024 = 0
    BY <1>1, Multiple
  <2>2. h.exp - 13 = k
    BY <1>1, <1>6
  <2>3. h.frac * Pow(h.exp - 13) = a * 1024 /\ Pow(h.exp - 13) = p
    BY <1>1, <1>6, <1>9, <2>2
  <2>4. HalfQuarters(h) = p + (a * 1024) \div 1024
    BY <1>1, <1>6, <1>10, <2>1, <2>2, <2>3, Readings
  <2>5. QED BY <1>9, <2>1, <2>4
<1>13. Quarters(h2f(h)) = n
  <2>. DEFINE g == h2f(h)
              r == q * 8192
  <2>1. g.sign = 0 /\ g.exp = 125 + k /\ g.frac = m * 8192
    BY <1>1, <1>6, <1>10 DEF h2f
  <2>2. r \in Nat \ {0} /\ a \in Nat
    BY <1>1
  <2>3. g.frac = a * r /\ Pow(23 - k) = r /\ Pow(k) = p
    BY <1>1, <1>9, <2>1
  <2>. HIDE DEF g, r
  <2>4. (a * r) \div r = a /\ (a * r) % r = 0
    BY <2>2, Multiple
  <2>5. g.exp - 125 = k /\ ~IsZero(g)
    BY <1>1, <2>1 DEF IsZero
  <2>6. Quarters(g) = p + (a * r) \div r
    BY <1>1, <2>1, <2>3, <2>4, <2>5, Readings
  <2>7. QED BY <1>9, <2>4, <2>6 DEF g
<1>14. QED BY <1>10, <1>11, <1>12, <1>13 DEF h, f

\* What the programs rely on of a number of quarters.
Kept(n) ==
  /\ HalfOf(n) \in HalfFloat /\ f2h(FloatOf(n)) = HalfOf(n)
  /\ HalfQuarters(HalfOf(n)) = n /\ Quarters(h2f(HalfOf(n))) = n

(* Zero is kept as well.                                                     *)
LEMMA AllKept ==
  ASSUME NEW n, n \in 0 .. 2047
  PROVE  Kept(n)
<1>1. CASE n = 0
  <2>1. IsZero(ZeroFloat) /\ IsZero(ZeroHalf) /\ ZeroHalf \in HalfFloat
    BY DEF IsZero, ZeroFloat, ZeroHalf, HalfFloat
  <2>2. HalfOf(n) = ZeroHalf /\ FloatOf(n) = ZeroFloat
    BY <1>1 DEF HalfOf, FloatOf
  <2>3. f2h(ZeroFloat) = ZeroHalf /\ h2f(ZeroHalf) = ZeroFloat
    BY <2>1 DEF f2h, h2f
  <2>4. HalfQuarters(ZeroHalf) = 0 /\ Quarters(ZeroFloat) = 0
    BY <2>1 DEF HalfQuarters, Quarters
  <2>5. QED BY <1>1, <2>1, <2>2, <2>3, <2>4 DEF Kept
<1>2. CASE n # 0
  <2>1. n \in 1 .. 2047
    BY <1>2
  <2>2. QED BY <2>1, QuartersKept DEF Kept
<1>3. QED BY <1>1, <1>2

\* The buffers that the loops of Setup() have filled, and the kernel's sums.
Filled(n) == in1[n] = HalfOf(4 * n) /\ in2[n] = HalfOf(5 * n)

HInv ==
  /\ half_phase \in {"fill", "kernel", "verify", "done"} /\ i \in 0 .. 63 /\ ok = TRUE
  /\ in1 \in [0 .. 63 -> HalfFloat] /\ in2 \in [0 .. 63 -> HalfFloat]
  /\ out \in [0 .. 63 -> HalfFloat]
  /\ \A n \in 0 .. 63 : half_phase = "fill" /\ n < i => Filled(n)
  /\ half_phase # "fill" => \A n \in 0 .. 63 : Filled(n)
  /\ half_phase \in {"verify", "done"} => \A n \in 0 .. 63 : out[n] = HalfOf(9 * n)

LEMMA HalvesInit ==
  ASSUME HalfInit
  PROVE  HInv
BY DEF HalfInit, HInv, length, ZeroHalf, HalfFloat

(* A turn of the loop of Setup().                                            *)
LEMMA FillKeeps ==
  ASSUME HInv, FillTurn
  PROVE  HInv'
<1>1. /\ half_phase = "fill" /\ i' = (i + 1) % 64 /\ out' = out /\ ok' = ok
      /\ half_phase' = IF i + 1 = 64 THEN "kernel" ELSE "fill"
  BY DEF FillTurn, NextIndex, length
<1>2. i \in 0 .. 63
  BY DEF HInv
<1>3. 4 * i \in 0 .. 2047 /\ 5 * i \in 0 .. 2047
  BY <1>2
<1>4. Kept(4 * i) /\ Kept(5 * i)
  BY <1>3, AllKept
<1>5. /\ in1' = [in1 EXCEPT ![i] = HalfOf(4 * i)] /\ HalfOf(4 * i) \in HalfFloat
      /\ in2' = [in2 EXCEPT ![i] = HalfOf(5 * i)] /\ HalfOf(5 * i) \in HalfFloat
  BY <1>4 DEF FillTurn, Kept
<1>6. /\ in1' \in [0 .. 63 -> HalfFloat] /\ in2' \in [0 .. 63 -> HalfFloat]
      /\ out' \in [0 .. 63 -> HalfFloat] /\ ok' = TRUE
  BY <1>1, <1>5 DEF HInv
<1>7. /\ in1'[i] = HalfOf(4 * i) /\ in2'[i] = HalfOf(5 * i)
      /\ \A n \in 0 .. 63 : n # i => in1'[n] = in1[n] /\ in2'[n] = in2[n]
  BY <1>2, <1>5 DEF HInv
<1>8. \A n \in 0 .. 63 : n < i + 1 => Filled(n)'
  <2>1. \A n \in 0 .. 63 : n < i => Filled(n)
    BY <1>1 DEF HInv
  <2>2. \A n \in 0 .. 63 : n < i + 1 => n = i \/ n < i
    BY <1>2
  <2>3. ASSUME NEW n \in 0 .. 63, n < i + 1
        PROVE  in1'[n] = HalfOf(4 * n) /\ in2'[n] = HalfOf(5 * n)
    <3>1. CASE n = i
      BY <1>7, <3>1
    <3>2. CASE n # i
      BY <1>7, <2>1, <2>2, <2>3, <3>2 DEF Filled
    <3>3. QED BY <3>1, <3>2
  <2>4. QED BY <2>3 DEF Filled
<1>9. CASE i + 1 = 64
  <2>1. i' = 0 /\ half_phase' = "kernel"
    BY <1>1, <1>9
  <2>2. \A n \in 0 .. 63 : Filled(n)'
    BY <1>8, <1>9
  <2>3. QED BY <1>6, <2>1, <2>2 DEF HInv
<1>10. CASE i + 1 # 64
  <2>1. i' = i + 1 /\ half_phase' = "fill" /\ i' \in 0 .. 63
    BY <1>1, <1>2, <1>10
  <2>2. \A n \in 0 .. 63 : n < i' => Filled(n)'
    BY <1>8, <2>1
  <2>3. QED BY <1>6, <2>1, <2>2 DEF HInv
<1>11. QED BY <1>9, <1>10

(* The kernel adds 4n and 5n quarters.                                       *)
LEMMA AddHalvesKeeps ==
  ASSUME HInv, AddHalves
  PROVE  HInv'
<1>1. /\ half_phase = "kernel" /\ half_phase' = "verify"
      /\ i' = i /\ in1' = in1 /\ in2' = in2 /\ ok' = ok
  BY DEF AddHalves
<1>. DEFINE sum(n) == HalfQuarters(in1[n]) + HalfQuarters(in2[n])
<1>2. ASSUME NEW n, n \in 0 .. 63
      PROVE  sum(n) = 9 * n /\ 9 * n \in 0 .. 2047 /\ HalfOf(9 * n) \in HalfFloat
  <2>1. in1[n] = HalfOf(4 * n) /\ in2[n] = HalfOf(5 * n)
    BY <1>1, <1>2 DEF HInv, Filled
  <2>2. 4 * n \in 0 .. 2047 /\ 5 * n \in 0 .. 2047 /\ 9 * n \in 0 .. 2047
    BY <1>2
  <2>3. Kept(4 * n) /\ Kept(5 * n) /\ Kept(9 * n)
    BY <2>2, AllKept
  <2>4. HalfQuarters(in1[n]) = 4 * n /\ HalfQuarters(in2[n]) = 5 * n
    BY <2>1, <2>3 DEF Kept
  <2>5. 4 * n + 5 * n = 9 * n
    BY <1>2
  <2>6. QED BY <2>2, <2>3, <2>4, <2>5 DEF Kept
<1>3. out' = [n \in DOMAIN out |-> IF sum(n) \in 0 .. 2047 THEN HalfOf(sum(n)) ELSE ZeroHalf]
  BY DEF AddHalves
<1>4. DOMAIN out = 0 .. 63
  BY DEF HInv
<1>. HIDE DEF sum
<1>5. out' \in [0 .. 63 -> HalfFloat] /\ \A n \in 0 .. 63 : out'[n] = HalfOf(9 * n)
  <2>. DEFINE added(n) == IF sum(n) \in 0 .. 2047 THEN HalfOf(sum(n)) ELSE ZeroHalf
  <2>1. \A n \in 0 .. 63 : added(n) = HalfOf(9 * n) /\ added(n) \in HalfFloat
    BY <1>2
  <2>2. out' = [n \in 0 .. 63 |-> added(n)]
    BY <1>3, <1>4
  <2>. HIDE DEF added
  <2>3. out' \in [0 .. 63 -> HalfFloat] /\ \A n \in 0 .. 63 : out'[n] = added(n)
    BY <2>1, <2>2
  <2>4. QED BY <2>1, <2>3
<1>6. QED BY <1>1, <1>5 DEF HInv, Filled

(* A turn of the loop of Verify().                                           *)
LEMMA VerifyKeeps ==
  ASSUME HInv, VerifyTurn
  PROVE  HInv'
<1>1. /\ half_phase = "verify" /\ i' = (i + 1) % 64
      /\ half_phase' = IF i + 1 = 64 THEN "done" ELSE "verify"
      /\ in1' = in1 /\ in2' = in2 /\ out' = out
  BY DEF VerifyTurn, NextIndex, length
<1>2. i \in 0 .. 63
  BY DEF HInv
<1>. DEFINE sum == Quarters(h2f(in1[i])) + Quarters(h2f(in2[i]))
<1>3. /\ sum = 9 * i /\ 9 * i \in 0 .. 2047
      /\ h2f(f2h(FloatOf(9 * i))) = h2f(out[i])
  <2>1. in1[i] = HalfOf(4 * i) /\ in2[i] = HalfOf(5 * i) /\ out[i] = HalfOf(9 * i)
    BY <1>1, <1>2 DEF HInv, Filled
  <2>2. 4 * i \in 0 .. 2047 /\ 5 * i \in 0 .. 2047 /\ 9 * i \in 0 .. 2047
    BY <1>2
  <2>3. Kept(4 * i) /\ Kept(5 * i) /\ Kept(9 * i)
    BY <2>2, AllKept
  <2>4. Quarters(h2f(in1[i])) = 4 * i /\ Quarters(h2f(in2[i])) = 5 * i
    BY <2>1, <2>3 DEF Kept
  <2>5. 4 * i + 5 * i = 9 * i
    BY <1>2
  <2>6. f2h(FloatOf(9 * i)) = out[i]
    BY <2>1, <2>3 DEF Kept
  <2>7. QED BY <2>2, <2>4, <2>5, <2>6
<1>4. ok' = (ok /\ sum \in 0 .. 2047 /\ h2f(f2h(FloatOf(sum))) = h2f(out[i]))
  BY DEF VerifyTurn
<1>. HIDE DEF sum
<1>5. ok' = TRUE
  <2>. DEFINE same == sum \in 0 .. 2047 /\ h2f(f2h(FloatOf(sum))) = h2f(out[i])
  <2>1. same /\ ok = TRUE
    BY <1>3 DEF HInv
  <2>2. ok' = (ok /\ same)
    BY <1>4
  <2>. HIDE DEF same
  <2>3. QED BY <2>1, <2>2, Zenon
<1>6. i' \in 0 .. 63
  BY <1>1, <1>2
<1>7. QED BY <1>1, <1>5, <1>6 DEF HInv, Filled

LEMMA HalvesInvariant == HalfSpec => []HInv
<1>1. HInv /\ UNCHANGED halfVars => HInv'
  BY DEF HInv, halfVars, Filled
<1>2. HInv /\ [HalfNext]_halfVars => HInv'
  BY <1>1, FillKeeps, AddHalvesKeeps, VerifyKeeps DEF HalfNext
<1>3. QED BY <1>2, HalvesInit, PTL DEF HalfSpec

(* The buffers hold halves.                                                  *)
THEOREM HalfTypeCorrect == HalfSpec => []HalfTypeOK
<1>1. HInv => HalfTypeOK
  BY DEF HInv, HalfTypeOK, length
<1>2. QED BY <1>1, HalvesInvariant, PTL

(* Verify() finds no difference in any element: every number of quarters up  *)
(* to 2047 is a half, and survives f2h, h2f and the kernel's addition.       *)
THEOREM SumsAreRight == HalfSpec => []SumsAgree
<1>1. HInv => SumsAgree
  BY DEF HInv, SumsAgree
<1>2. QED BY <1>1, HalvesInvariant, PTL

=============================================================================
