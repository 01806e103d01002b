------------------------------ MODULE GprAlloc ------------------------------
(***************************************************************************)
(* The register allocator of examples/gfx8/gpr_alloc.inc: assembler macros *)
(* that hand out vector registers, scalar registers and LDS bytes to the   *)
(* symbolic names of a kernel, and compute the counts that the kernel's    *)
(* header announces to the hardware.                                       *)
(*                                                                         *)
(* The state is the assembler's symbol table, which lives as long as the   *)
(* source file: it is shared by all kernels of the file.  The macros come  *)
(* in the order of a file's text: BEGIN, then any allocations and limits,  *)
(* then END, for one kernel after the other.  After an .error there is no  *)
(* output; `asm' keeps the message and nothing more happens.               *)
(***************************************************************************)
EXTENDS Integers

CONSTANTS
  MaxKernels,     \* bound: kernels in one file
  Symbols,        \* symbolic names
  OnceSymbols,    \* those that are allocated with .SGPR_ALLOC_ONCE
  Sizes,          \* [file -> the sizes that are asked for]
  Starts,         \* arguments of the .xGPR_ALLOC_FROM macros
  MinLimits,      \* arguments of .SET_MIN_WAVES_LIMIT
  MaxLimits,      \* arguments of .SET_MAX_WAVES_LIMIT
  Alignments      \* __alignment_size of .LDS_ALLOC

Files == {"VGPR", "SGPR", "LDS"}

ASSUME GprAssumption ==
  /\ MaxKernels \in Nat
  /\ OnceSymbols \subseteq Symbols
  /\ Sizes \in [Files -> SUBSET (Nat \ {0})]
  /\ Starts \subseteq Nat
  /\ MinLimits \subseteq Nat
  /\ MaxLimits \subseteq Nat
  /\ Alignments \subseteq Nat \ {0}

VARIABLES
  kernel,          \* kernels begun so far
  open,            \* __auto_gpr_count_guard = 0
  available,       \* .AVAILABLE_*
  next_free,       \* .*_NEXT_FREE
  reserved,        \* the __sgpr_reserve_* that are 1
  min_waves, max_waves,
  symbol,          \* the value of each symbolic name
  once,            \* the __guard_sgpr_* that are 1
  auto,            \* .AUTO_VGPR_COUNT, .AUTO_SGPR_COUNT, .AUTO_LDS_BYTE_SIZE
  granulated,      \* .AUTO_*_GRANULATED_COUNT
  asm,             \* "ok", or the message of the .error
  using            \* history: the names the current kernel has asked for

vars == <<kernel, open, available, next_free, reserved, min_waves, max_waves,
          symbol, once, auto, granulated, asm, using>>

limits == <<available, min_waves, max_waves, reserved>>
counts == <<auto, granulated>>

-----------------------------------------------------------------------------
(* Values of a symbolic name: registers first .. first + size - 1 of a     *)
(* file.  The size is not kept by the assembler, only by the text.         *)

Undefined == [file |-> "none", first |-> -1, size |-> 0]
Invalid   == [file |-> "invalid", first |-> 2147483647, size |-> 0]

Value == [file : Files \cup {"none", "invalid"}, first : Int, size : Nat]

Overlap(a, b) ==
  /\ a.file = b.file
  /\ a.first < b.first + b.size
  /\ b.first < a.first + a.size

\* .GPRS_FOR_WAVE_LIMIT: the registers of a wave when w waves share a SIMD.
VgprsFor(w) ==
  CASE w = 10 -> 24 [] w = 9 -> 28 [] w = 8 -> 32 [] w = 7 -> 36 [] w = 6 -> 40
    [] w = 5 -> 48 [] w = 4 -> 64 [] w = 3 -> 84 [] w = 2 -> 128 [] OTHER -> 256

SgprsFor(w) == CASE w = 10 -> 80 [] w \in {8, 9} -> 96 [] OTHER -> 102

-----------------------------------------------------------------------------
Begin ==
  /\ asm = "ok" /\ ~open
  /\ kernel < MaxKernels
  /\ kernel' = kernel + 1
  /\ open' = TRUE
  /\ available' = [VGPR |-> 256, SGPR |-> 102, LDS |-> 65536]
  /\ next_free' = [f \in Files |-> 0]
  /\ reserved' = {}
  /\ min_waves' = 1 /\ max_waves' = 10
  /\ auto' = [f \in Files |-> 0]
  /\ granulated' = [VGPR |-> 0, SGPR |-> 0]
  /\ using' = {}
  /\ UNCHANGED <<symbol, once, asm>>

\* .error: the assembler reports the message and produces no object.
Error(message) ==
  /\ asm' = message
  /\ UNCHANGED <<kernel, open, available, next_free, reserved, min_waves,
                 max_waves, symbol, once, auto, granulated, using>>

\* .CHECK_xGPR_ALLOCATION, .CHECK_LDS_ALLOCATION
Exhausted(f, at, size) == at + size >= available[f]

InKernel == asm = "ok" /\ open

\* .set of the name, and the advance of NEXT_FREE.
Allocate(f, s, at, size) ==
  /\ symbol' = [symbol EXCEPT ![s] = [file |-> f, first |-> at, size |-> size]]
  /\ next_free' = [next_free EXCEPT ![f] = at + size]
  /\ using' = using \cup {s}
  /\ UNCHANGED <<kernel, open, limits, counts, asm>>

VgprAlloc(s, size) ==
  /\ InKernel
  /\ \/ /\ Exhausted("VGPR", next_free["VGPR"], size)
        /\ Error("out of free vgprs")
     \/ /\ ~Exhausted("VGPR", next_free["VGPR"], size)
        /\ Allocate("VGPR", s, next_free["VGPR"], size)
        /\ UNCHANGED once

\* 0 stands for an __sgpr_alignment that is not given.
SgprAlignment(size, alignment) ==
  CASE alignment > 0 -> alignment
    [] alignment = 0 /\ size > 4 -> 4
    [] OTHER -> size

SgprAllocAs(s, size, alignment) ==
  \/ /\ Exhausted("SGPR", next_free["SGPR"], size)
     /\ Error("out of free sgprs")
  \/ /\ ~Exhausted("SGPR", next_free["SGPR"], size)
     /\ next_free["SGPR"] % SgprAlignment(size, alignment) # 0
     /\ Error("unaligned register")
  \/ /\ ~Exhausted("SGPR", next_free["SGPR"], size)
     /\ next_free["SGPR"] % SgprAlignment(size, alignment) = 0
     /\ Allocate("SGPR", s, next_free["SGPR"], size)

SgprAlloc(s, size, alignment) ==
  /\ InKernel
  /\ SgprAllocAs(s, size, alignment)
  /\ UNCHANGED once

\* The guard of the name is set before the allocation, and never reset.
SgprAllocOnce(s, size, alignment) ==
  /\ InKernel
  /\ \/ /\ s \in once
        /\ using' = using \cup {s}
        /\ UNCHANGED <<kernel, open, limits, next_free, symbol, once, counts, asm>>
     \/ /\ s \notin once
        /\ SgprAllocAs(s, size, alignment)
        /\ once' = IF asm' = "ok" THEN once \cup {s} ELSE once

\* Mutant: rounds down.
LdsAligned_Mut(at, alignment) == (at \div alignment) * alignment

LdsAligned(at, alignment) ==
  IF at % alignment # 0 THEN ((at \div alignment) + 1) * alignment ELSE at

LdsAlloc(s, size, alignment) ==
  LET at == LdsAligned(next_free["LDS"], alignment) IN
  /\ InKernel
  /\ \/ Exhausted("LDS", at, size) /\ Error("out of free lds")
     \/ ~Exhausted("LDS", at, size) /\ Allocate("LDS", s, at, size) /\ UNCHANGED once

(* .VGPR_ALLOC_FROM, .SGPR_ALLOC_FROM and .LDS_ALLOC_FROM set NEXT_FREE to  *)
(* any value, without a check.                                             *)
AllocFrom(f, start) ==
  /\ InKernel
  /\ next_free' = [next_free EXCEPT ![f] = start]
  /\ UNCHANGED <<kernel, open, limits, symbol, once, counts, asm, using>>

Reserve(what) ==
  /\ InKernel
  /\ reserved' = reserved \cup {what}
  /\ UNCHANGED <<kernel, open, available, next_free, min_waves, max_waves,
                 symbol, once, counts, asm, using>>

\* Mutant: the vector registers are forgotten.
LimitedTo_Mut(w) == [available EXCEPT !["SGPR"] = SgprsFor(w)]

LimitedTo(w) == [available EXCEPT !["SGPR"] = SgprsFor(w), !["VGPR"] = VgprsFor(w)]

\* When several tests fail, all their messages are printed: `asm' keeps one.
SetMinWavesLimit(w) ==
  /\ InKernel
  /\ \/ w > 10 /\ Error("max 10 waves per simd is available")
     \/ next_free["SGPR"] >= SgprsFor(w) /\ Error("out of free sgprs")
     \/ next_free["VGPR"] >= VgprsFor(w) /\ Error("out of free vgprs")
     \/ w > max_waves /\ Error("min_waves_limit > max_waves_limit")
     \/ /\ w <= 10 /\ w <= max_waves
        /\ next_free["SGPR"] < SgprsFor(w) /\ next_free["VGPR"] < VgprsFor(w)
        /\ available' = LimitedTo(w)
        /\ min_waves' = w
        /\ UNCHANGED <<kernel, open, next_free, reserved, max_waves, symbol,
                       once, counts, asm, using>>

SetMaxWavesLimit(w) ==
  /\ InKernel
  /\ \/ w < 1 /\ Error("waves per simd should be > 0")
     \/ min_waves > w /\ Error("min_waves_limit > max_waves_limit")
     \/ /\ w >= 1 /\ min_waves <= w
        /\ max_waves' = w
        /\ UNCHANGED <<kernel, open, available, next_free, reserved, min_waves,
                       symbol, once, counts, asm, using>>

GprInvalidate(s) ==
  /\ InKernel
  /\ symbol' = [symbol EXCEPT ![s] = Invalid]
  /\ using' = using \ {s}
  /\ UNCHANGED <<kernel, open, limits, next_free, once, counts, asm>>

\* .GPR_REUSE with the .GPR_INVALIDATE in it: the old name gives its registers
\* to the new one.
GprReuse(old, new) ==
  /\ InKernel
  /\ old # new
  /\ symbol[old] # Undefined
  /\ symbol' = [symbol EXCEPT ![new] = symbol[old], ![old] = Invalid]
  /\ using' = (using \ {old}) \cup (IF old \in using THEN {new} ELSE {})
  /\ UNCHANGED <<kernel, open, limits, next_free, once, counts, asm>>

-----------------------------------------------------------------------------
\* .SGPR_RESERVE_*: each of them takes two registers above the allocated.
Additional == 2 * (IF "vcc" \in reserved THEN 1 ELSE 0)
            + 2 * (IF "xnack" \in reserved THEN 1 ELSE 0)
            + 2 * (IF "flat_scratch" \in reserved THEN 1 ELSE 0)

AtLeast(count, least) == IF count < least THEN least ELSE count

\* Mutant: the divisor of the encoding is applied before the - 1.
Granules_Mut(count, granule) == count \div granule - 1

Granules(count, granule) == (count - 1) \div granule

\* Mutant: the highest register and not the number of them.
VgprCount_Mut == next_free["VGPR"] - 1

SgprCount == AtLeast(SgprsFor(max_waves), next_free["SGPR"] + Additional)
VgprCount == AtLeast(VgprsFor(max_waves), next_free["VGPR"])

End ==
  /\ asm = "ok"
  /\ \/ ~open /\ Error("unpaired .GPR_ALLOC_END")
     \/ open /\ Exhausted("SGPR", next_free["SGPR"], 0) /\ Error("out of free sgprs")
     \/ open /\ Exhausted("VGPR", next_free["VGPR"], 0) /\ Error("out of free vgprs")
     \/ open /\ Exhausted("LDS", next_free["LDS"], 0) /\ Error("out of free lds")
     \/ /\ open
        /\ \A f \in Files : ~Exhausted(f, next_free[f], 0)
        /\ auto' = [VGPR |-> VgprCount, SGPR |-> SgprCount, LDS |-> next_free["LDS"]]
        /\ granulated' = [VGPR |-> Granules(VgprCount, 4), SGPR |-> Granules(SgprCount, 8)]
        /\ open' = FALSE
        /\ UNCHANGED <<kernel, limits, next_free, symbol, once, asm, using>>

Init ==
  /\ kernel = 0
  /\ open = FALSE
  /\ available = [f \in Files |-> 0]
  /\ next_free = [f \in Files |-> 0]
  /\ reserved = {}
  /\ min_waves = 1 /\ max_waves = 10
  /\ symbol = [s \in Symbols |-> Undefined]
  /\ once = {}
  /\ auto = [f \in Files |-> 0]
  /\ granulated = [VGPR |-> 0, SGPR |-> 0]
  /\ asm = "ok"
  /\ using = {}

(* What the text of a file may ask for: a name gets registers once in a     *)
(* kernel, and .xGPR_ALLOC_FROM skips registers, it does not go back.  As a  *)
(* bound on the length of a text, a name is not used again once invalidated. *)
New(s) == s \notin using /\ s \notin OnceSymbols /\ symbol[s] # Invalid

Next ==
  \/ Begin \/ End
  \/ \E s \in Symbols : New(s) /\
       \/ \E n \in Sizes["VGPR"] : VgprAlloc(s, n)
       \/ \E n \in Sizes["SGPR"], a \in Alignments \cup {0} : SgprAlloc(s, n, a)
       \/ \E n \in Sizes["LDS"], a \in Alignments : LdsAlloc(s, n, a)
       \/ \E old \in Symbols : GprReuse(old, s)
  \/ \E s \in OnceSymbols, n \in Sizes["SGPR"] : SgprAllocOnce(s, n, 0)
  \/ \E s \in using : GprInvalidate(s)
  \/ \E f \in Files, start \in Starts : start >= next_free[f] /\ AllocFrom(f, start)
  \/ \E what \in {"vcc", "xnack", "flat_scratch"} : Reserve(what)
  \/ \E w \in MinLimits : SetMinWavesLimit(w)
  \/ \E w \in MaxLimits : SetMaxWavesLimit(w)

Spec == Init /\ [][Next]_vars

-----------------------------------------------------------------------------
(* Properties. *)

Messages ==
  {"out of free vgprs", "out of free sgprs", "out of free lds",
   "unaligned register", "max 10 waves per simd is available",
   "min_waves_limit > max_waves_limit", "waves per simd should be > 0",
   "unpaired .GPR_ALLOC_END"}

TypeOK ==
  /\ kernel \in 0 .. MaxKernels
  /\ open \in BOOLEAN
  /\ available \in [Files -> Nat]
  /\ next_free \in [Files -> Nat]
  /\ reserved \subseteq {"vcc", "xnack", "flat_scratch"}
  /\ min_waves \in Nat /\ max_waves \in Nat
  /\ symbol \in [Symbols -> Value]
  /\ once \subseteq OnceSymbols
  /\ auto \in [Files -> Nat]
  /\ granulated \in [{"VGPR", "SGPR"} -> Nat]
  /\ asm \in {"ok"} \cup Messages
  /\ using \subseteq Symbols

(* No register and no byte of LDS has two names in one kernel               *)
(* (gpr_alloc.inc:144-192): whatever is allocated, skipped, aligned, reused  *)
(* or limited in between.                                                    *)
NoOverlap ==
  \A s, t \in using : s # t => ~Overlap(symbol[s], symbol[t])

(* When .GPR_ALLOC_END has computed the counts, they and the granules that   *)
(* encode them cover every register the kernel has a name for, and the pairs *)
(* reserved above them (gpr_alloc.inc:99-118).                               *)
CountsCover ==
  kernel > 0 /\ ~open /\ asm = "ok" =>
    /\ \A s \in using : symbol[s].file \in Files =>
         symbol[s].first + symbol[s].size <= auto[symbol[s].file]
    /\ auto["SGPR"] >= next_free["SGPR"] + Additional
    /\ (granulated["VGPR"] + 1) * 4 >= auto["VGPR"]
    /\ (granulated["SGPR"] + 1) * 8 >= auto["SGPR"]

(* The vector registers a kernel announces let as many waves share a SIMD as *)
(* .SET_MIN_WAVES_LIMIT has asked for, in whatever order limits and          *)
(* allocations came (gpr_alloc.inc:75-96, 103-110).  It holds while no       *)
(* maximum above the 10 waves of the hardware is set: line 77 rejects such a *)
(* number as a minimum, nothing rejects it as a maximum, and it stands for   *)
(* 256 registers.                                                            *)
MinWavesForVgprs ==
  kernel > 0 /\ ~open /\ asm = "ok" => auto["VGPR"] <= VgprsFor(min_waves)

-----------------------------------------------------------------------------
(* What the macros' own messages say, and their code does not keep. *)

(* .GPR_ALLOC_END checks "out of free sgprs" (gpr_alloc.inc:25, 103) against *)
(* the limit of .SET_MIN_WAVES_LIMIT before it adds the reserved pairs.      *)
MinWavesForSgprs ==
  kernel > 0 /\ ~open /\ asm = "ok" => auto["SGPR"] <= SgprsFor(min_waves)

=============================================================================
