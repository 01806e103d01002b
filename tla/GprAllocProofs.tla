--------------------------- MODULE GprAllocProofs ---------------------------
(***************************************************************************)
(* Proofs about the register allocator, for every set of names, sizes,     *)
(* alignments and limits.                                                  *)
(***************************************************************************)
EXTENDS GprAlloc, TLAPS

(* The names whose values a kernel relies on: what it has asked for, and    *)
(* what .SGPR_ALLOC_ONCE will not allocate again.                           *)
Named == using \cup once

\* What is named lies below NEXT_FREE of its file.
Below ==
  \A s \in Named : symbol[s].file \in Files =>
    symbol[s].first + symbol[s].size <= next_free[symbol[s].file]

Apart == \A s, t \in Named : s # t => ~Overlap(symbol[s], symbol[t])

\* Only registers have a size.
Sized == \A s \in Symbols : symbol[s].file \notin Files => symbol[s].size = 0

\* Nothing is allocated before the first kernel.
Early == kernel = 0 => ~open /\ once = {}

(* No name of one kernel reaches the next: no .SGPR_ALLOC_ONCE, or a single *)
(* kernel in the file.  The run gpr_once shows what happens otherwise.      *)
NoCarry == OnceSymbols = {} \/ MaxKernels <= 1

NameInv == TypeOK /\ Below /\ Apart /\ Sized /\ Early

CountInv == NameInv /\ CountsCover

\* The registers that are left are those of the limit that is set.
WaveInv ==
  /\ TypeOK
  /\ max_waves \in 1 .. 10
  /\ min_waves <= max_waves
  /\ open => available["VGPR"] = VgprsFor(min_waves)
  /\ MinWavesForVgprs

USE GprAssumption

-----------------------------------------------------------------------------
(* Lemmas about the helpers. *)

\* More waves never leave more vector registers.
LEMMA VgprsForWaves ==
  /\ \A w \in Nat : VgprsFor(w) \in 24 .. 256
  /\ \A v, w \in Nat : v <= w /\ w \in 1 .. 10 => VgprsFor(w) <= VgprsFor(v)
BY DEF VgprsFor

\* The same for scalar registers.
LEMMA SgprsForWaves == \A w \in Nat : SgprsFor(w) \in 80 .. 102
BY DEF SgprsFor

\* The alignment only skips bytes.
LEMMA LdsAlignedUp ==
  ASSUME NEW at \in Nat, NEW a \in Nat \ {0}
  PROVE  LdsAligned(at, a) \in Nat /\ LdsAligned(at, a) >= at
<1>1. at \div a \in Nat /\ at % a \in 0 .. a - 1 /\ at = a * (at \div a) + (at % a)
  OBVIOUS
<1>2. (at \div a + 1) * a = a * (at \div a) + a
  BY <1>1
<1> QED BY <1>1, <1>2 DEF LdsAligned

\* The encoded number of granules covers the count.
LEMMA GranulesCover ==
  \A n \in Nat \ {0} :
    /\ Granules(n, 4) \in Nat /\ (Granules(n, 4) + 1) * 4 >= n
    /\ Granules(n, 8) \in Nat /\ (Granules(n, 8) + 1) * 8 >= n
BY DEF Granules

\* The reserved pairs are a number of registers.
LEMMA AdditionalType == Additional \in Nat
BY DEF Additional

\* The announced counts are at least what was allocated and reserved.
LEMMA CountsType ==
  ASSUME TypeOK
  PROVE  /\ VgprCount \in Nat \ {0} /\ VgprCount >= next_free["VGPR"]
         /\ SgprCount \in Nat \ {0} /\ SgprCount >= next_free["SGPR"] + Additional
<1>1. next_free["VGPR"] \in Nat /\ next_free["SGPR"] \in Nat /\ max_waves \in Nat
  BY DEF TypeOK, Files
<1>2. VgprsFor(max_waves) \in 24 .. 256 /\ SgprsFor(max_waves) \in 80 .. 102
  BY <1>1, VgprsForWaves, SgprsForWaves
<1>3. VgprCount \in Nat \ {0} /\ VgprCount >= next_free["VGPR"]
  BY <1>1, <1>2 DEF VgprCount, AtLeast
<1>4. SgprCount \in Nat \ {0} /\ SgprCount >= next_free["SGPR"] + Additional
  BY <1>1, <1>2, AdditionalType DEF SgprCount, AtLeast
<1> QED BY <1>3, <1>4

-----------------------------------------------------------------------------
(* Type correctness. *)

\* The two values of a name that has no registers.
LEMMA ValueTypes == Undefined \in Value /\ Invalid \in Value
BY SMT DEF Undefined, Invalid, Value

\* The symbol table is empty before the first kernel.
LEMMA InitType == Init => TypeOK
<1> SUFFICES ASSUME Init PROVE TypeOK
  OBVIOUS
<1>1. symbol \in [Symbols -> Value]
  BY ValueTypes DEF Init
<1>2. granulated \in [{"VGPR", "SGPR"} -> Nat]
  BY DEF Init
<1>3. available \in [Files -> Nat] /\ next_free \in [Files -> Nat] /\ auto \in [Files -> Nat]
  BY DEF Init
<1>4. kernel \in 0 .. MaxKernels /\ min_waves \in Nat /\ max_waves \in Nat
  BY DEF Init
<1>5. open \in BOOLEAN /\ asm \in {"ok"} \cup Messages
  BY DEF Init
<1>6. /\ reserved \subseteq {"vcc", "xnack", "flat_scratch"}
      /\ once \subseteq OnceSymbols
      /\ using \subseteq Symbols
  BY DEF Init
<1> QED BY <1>1, <1>2, <1>3, <1>4, <1>5, <1>6 DEF TypeOK

\* An .error keeps the symbol table.
LEMMA ErrorType ==
  ASSUME TypeOK, NEW m \in Messages, Error(m)
  PROVE  TypeOK'
BY DEF TypeOK, Error

\* A new value of a name, and of NEXT_FREE.
LEMMA AllocateType ==
  ASSUME TypeOK, NEW f \in Files, NEW s \in Symbols, NEW at \in Nat,
         NEW n \in Nat \ {0}, Allocate(f, s, at, n), once' \subseteq OnceSymbols
  PROVE  TypeOK'
<1>1. [file |-> f, first |-> at, size |-> n] \in Value
  BY DEF Value
<1> QED BY <1>1 DEF TypeOK, Allocate, limits, counts

\* Both scalar allocators allocate or report an error.
LEMMA SgprAllocAsType ==
  ASSUME TypeOK, NEW s \in Symbols, NEW n \in Nat \ {0}, NEW a \in Nat,
         SgprAllocAs(s, n, a), once' \subseteq OnceSymbols
  PROVE  TypeOK'
<1>1. next_free["SGPR"] \in Nat /\ "SGPR" \in Files
  BY DEF TypeOK, Files
<1> QED BY <1>1, AllocateType, ErrorType DEF SgprAllocAs, Messages

\* A limit sets the registers that its number of waves leaves.
LEMMA LimitedToType ==
  ASSUME TypeOK, NEW w \in Nat
  PROVE  /\ LimitedTo(w) \in [Files -> Nat]
         /\ LimitedTo(w)["VGPR"] = VgprsFor(w)
<1>1. VgprsFor(w) \in Nat /\ SgprsFor(w) \in Nat
  BY VgprsForWaves, SgprsForWaves
<1>2. available \in [Files -> Nat] /\ "VGPR" \in Files /\ "SGPR" \in Files
  BY DEF TypeOK, Files
<1>3. [available EXCEPT !["SGPR"] = SgprsFor(w)] \in [Files -> Nat]
  BY <1>1, <1>2
<1> QED BY <1>1, <1>2, <1>3 DEF LimitedTo

\* Every macro keeps the types.
LEMMA NextType == TypeOK /\ [Next]_vars => TypeOK'
<1> SUFFICES ASSUME TypeOK, [Next]_vars PROVE TypeOK'
  OBVIOUS
<1> USE DEF Messages
<1>f. "VGPR" \in Files /\ "SGPR" \in Files /\ "LDS" \in Files
  BY DEF Files
<1>n. \A f \in Files : next_free[f] \in Nat /\ Sizes[f] \subseteq Nat \ {0}
  BY DEF TypeOK
<1>1. CASE Begin
  BY <1>1, SMT DEF Begin, TypeOK, Files
<1>2. CASE End
  <2>1. CASE \E m \in Messages : Error(m)
    BY <2>1, ErrorType
  <2>2. CASE asm' = asm
    <3>1. CASE UNCHANGED <<auto, granulated, open>>
      BY <1>2, <2>2, <3>1 DEF End, Error, TypeOK, limits
    <3>2. CASE /\ auto' = [VGPR |-> VgprCount, SGPR |-> SgprCount,
                            LDS |-> next_free["LDS"]]
               /\ granulated' = [VGPR |-> Granules(VgprCount, 4),
                                 SGPR |-> Granules(SgprCount, 8)]
               /\ open' = FALSE
      <4>1. auto' \in [Files -> Nat]
        BY <1>f, <1>n, <3>2, CountsType DEF Files
      <4>2. granulated' \in [{"VGPR", "SGPR"} -> Nat]
        BY <3>2, CountsType, GranulesCover
      <4> QED BY <1>2, <2>2, <3>2, <4>1, <4>2 DEF End, Error, TypeOK, limits
    <3> QED BY <1>2, <3>1, <3>2 DEF End, Error
  <2> QED BY <1>2, <2>1, <2>2 DEF End
<1>3. ASSUME NEW s \in Symbols, NEW n \in Sizes["VGPR"], VgprAlloc(s, n)
      PROVE  TypeOK'
  BY <1>3, <1>f, <1>n, AllocateType, ErrorType DEF VgprAlloc, TypeOK
<1>4. ASSUME NEW s \in Symbols, NEW n \in Sizes["SGPR"],
             NEW a \in Alignments \cup {0}, SgprAlloc(s, n, a)
      PROVE  TypeOK'
  BY <1>4, <1>f, <1>n, SgprAllocAsType DEF SgprAlloc, TypeOK
<1>5. ASSUME NEW s \in Symbols, NEW n \in Sizes["LDS"], NEW a \in Alignments,
             LdsAlloc(s, n, a)
      PROVE  TypeOK'
  BY <1>5, <1>f, <1>n, LdsAlignedUp, AllocateType, ErrorType DEF LdsAlloc, TypeOK
<1>6. ASSUME NEW new \in Symbols, NEW old \in Symbols, GprReuse(old, new)
      PROVE  TypeOK'
  BY <1>6, ValueTypes DEF GprReuse, TypeOK, limits, counts
<1>7. ASSUME NEW s \in OnceSymbols, NEW n \in Sizes["SGPR"], SgprAllocOnce(s, n, 0)
      PROVE  TypeOK'
  <2>1. CASE s \in once
    BY <1>7, <2>1 DEF SgprAllocOnce, TypeOK, limits, counts
  <2>2. CASE s \notin once
    <3>1. once' \subseteq OnceSymbols /\ SgprAllocAs(s, n, 0)
      BY <1>7, <2>2 DEF SgprAllocOnce, TypeOK
    <3> QED BY <3>1, <1>f, <1>n, SgprAllocAsType
  <2> QED BY <2>1, <2>2
<1>8. ASSUME NEW s \in using, GprInvalidate(s) PROVE TypeOK'
  BY <1>8, ValueTypes DEF GprInvalidate, TypeOK, limits, counts
<1>9. ASSUME NEW f \in Files, NEW start \in Starts, AllocFrom(f, start)
      PROVE  TypeOK'
  BY <1>9 DEF AllocFrom, TypeOK, limits, counts
<1>10. ASSUME NEW what \in {"vcc", "xnack", "flat_scratch"}, Reserve(what)
       PROVE  TypeOK'
  BY <1>10 DEF Reserve, TypeOK, counts
<1>11. ASSUME NEW w \in MinLimits, SetMinWavesLimit(w) PROVE TypeOK'
  <2>1. w \in Nat
    BY <1>11
  <2>2. LimitedTo(w) \in [Files -> Nat]
    BY <2>1, LimitedToType
  <2>3. CASE \E m \in Messages : Error(m)
    BY <2>3, ErrorType
  <2>4. CASE ~\E m \in Messages : Error(m)
    BY <1>11, <2>1, <2>2, <2>4 DEF SetMinWavesLimit, TypeOK, counts
  <2> QED BY <2>3, <2>4
<1>12. ASSUME NEW w \in MaxLimits, SetMaxWavesLimit(w) PROVE TypeOK'
  BY <1>12, ErrorType DEF SetMaxWavesLimit, TypeOK, counts
<1>13. CASE UNCHANGED vars
  BY <1>13 DEF TypeOK, vars
<1> QED BY <1>1, <1>2, <1>3, <1>4, <1>5, <1>6, <1>7, <1>8, <1>9, <1>10, <1>11,
           <1>12, <1>13 DEF Next

(* Every message of the assembler is one of the macros' own, every count is *)
(* a number and every name has a value (gpr_alloc.inc), for any text.       *)
THEOREM GprTypeCorrect == Spec => []TypeOK
BY InitType, NextType, PTL DEF Spec

-----------------------------------------------------------------------------
(* No two names share a register.                                          *)

\* The conjuncts about names only look at these variables.
LEMMA NamesUnchanged ==
  ASSUME NameInv, UNCHANGED <<kernel, open, symbol, next_free, once, using>>
  PROVE  (Below /\ Apart /\ Sized /\ Early)'
BY DEF NameInv, Below, Apart, Sized, Early, Named

\* An .error changes no name.
LEMMA ErrorNames ==
  ASSUME NameInv, \E m : Error(m)
  PROVE  (Below /\ Apart /\ Sized /\ Early)'
BY NamesUnchanged DEF Error

\* Registers taken at NEXT_FREE or above it are nobody else's.
LEMMA AllocateNames ==
  ASSUME NameInv, open, NEW f \in Files, NEW s \in Symbols, NEW at \in Nat,
         NEW n \in Nat \ {0}, at >= next_free[f], Allocate(f, s, at, n),
         once' \subseteq once \cup {s}
  PROVE  (Below /\ Apart /\ Sized /\ Early)'
<1>1. /\ Named' \subseteq Named \cup {s}
      /\ Named \subseteq Symbols
      /\ symbol \in [Symbols -> Value]
      /\ next_free \in [Files -> Nat]
  BY DEF Allocate, Named, NameInv, TypeOK
<1>2. /\ symbol'[s].file = f /\ symbol'[s].first = at /\ symbol'[s].size = n
      /\ \A t \in Symbols : t # s => symbol'[t] = symbol[t]
      /\ next_free'[f] = at + n
      /\ \A g \in Files : g # f => next_free'[g] = next_free[g]
  BY <1>1 DEF Allocate
<1>3. \A t \in Symbols : symbol[t].first \in Int /\ symbol[t].size \in Nat
  BY <1>1 DEF Value
<1>4. \A t \in Named : symbol[t].file \in Files =>
        symbol[t].first + symbol[t].size <= next_free[symbol[t].file]
  BY DEF NameInv, Below
<1>5. Below'
  <2> SUFFICES ASSUME NEW t \in Named', symbol'[t].file \in Files
               PROVE  symbol'[t].first + symbol'[t].size
                        <= next_free'[symbol'[t].file]
    BY DEF Below
  <2>1. CASE t = s
    BY <1>2, <2>1
  <2>2. CASE t # s /\ symbol[t].file = f
    BY <1>1, <1>2, <1>3, <1>4, <2>2
  <2>3. CASE t # s /\ symbol[t].file # f
    BY <1>1, <1>2, <1>3, <1>4, <2>3
  <2> QED BY <2>1, <2>2, <2>3
<1>6. ASSUME NEW t \in Named, t # s
      PROVE  ~Overlap(symbol'[s], symbol'[t]) /\ ~Overlap(symbol'[t], symbol'[s])
  BY <1>1, <1>2, <1>3, <1>4, <1>6 DEF Overlap
<1>7. Apart'
  BY <1>1, <1>2, <1>6 DEF Apart, NameInv
<1>8. Sized' /\ Early'
  BY <1>2 DEF Sized, Early, NameInv, Allocate
<1> QED BY <1>5, <1>7, <1>8

\* The scalar allocators take registers at NEXT_FREE.
LEMMA SgprAllocAsNames ==
  ASSUME NameInv, open, NEW s \in Symbols, NEW n \in Nat \ {0}, NEW a \in Nat,
         SgprAllocAs(s, n, a), once' \subseteq once \cup {s}
  PROVE  (Below /\ Apart /\ Sized /\ Early)'
<1>1. next_free["SGPR"] \in Nat /\ "SGPR" \in Files
  BY DEF NameInv, TypeOK, Files
<1>2. CASE Allocate("SGPR", s, next_free["SGPR"], n)
  BY <1>1, <1>2, AllocateNames
<1>3. CASE \E m : Error(m)
  BY <1>3, ErrorNames
<1> QED BY <1>2, <1>3 DEF SgprAllocAs

\* A name that becomes invalid has no register.
LEMMA InvalidApart ==
  \A v \in Value : (v.file \notin Files => v.size = 0) =>
    ~Overlap(v, Invalid) /\ ~Overlap(Invalid, v)
BY SMT DEF Overlap, Invalid, Value, Files

\* The invalid value is no register.
LEMMA InvalidSize == Invalid.file \notin Files /\ Invalid.size = 0
BY SMT DEF Invalid, Files

\* Init, and a new kernel, have no names that matter.
LEMMA NoNames ==
  ASSUME Named' = {}
  PROVE  Below' /\ Apart'
BY DEF Below, Apart

\* Nothing has a name before the first kernel.
LEMMA InitNames == Init => Below /\ Apart /\ Sized /\ Early
<1> SUFFICES ASSUME Init PROVE Below /\ Apart /\ Sized /\ Early
  OBVIOUS
<1>1. Named = {}
  BY DEF Init, Named
<1>2. Undefined.size = 0
  BY DEF Undefined
<1>3. Sized
  BY <1>2 DEF Init, Sized
<1> QED BY <1>1, <1>3 DEF Init, Below, Apart, Early

\* A new kernel starts with no name: here the files are told apart by NoCarry.
LEMMA BeginNames ==
  ASSUME NameInv, NoCarry, Begin
  PROVE  (Below /\ Apart /\ Sized /\ Early)'
<1>1. kernel \in Nat /\ kernel < MaxKernels /\ MaxKernels \in Nat
  BY DEF NameInv, TypeOK, Begin
<1>2. once = {}
  <2>1. CASE kernel = 0
    BY <2>1 DEF NameInv, Early
  <2>2. CASE kernel # 0
    BY <1>1, <2>2 DEF NoCarry, NameInv, TypeOK
  <2> QED BY <2>1, <2>2
<1>3. Named' = {}
  BY <1>2 DEF Begin, Named
<1>4. symbol' = symbol /\ kernel' = kernel + 1
  BY DEF Begin
<1>5. Sized' /\ Early'
  BY <1>1, <1>4 DEF NameInv, Sized, Early
<1> QED BY <1>3, <1>5, NoNames

\* The registers change their name, and the old name has none.
LEMMA ReuseNames ==
  ASSUME NameInv, NEW new \in Symbols, NEW old \in Symbols, New(new),
         GprReuse(old, new)
  PROVE  (Below /\ Apart /\ Sized /\ Early)'
<1>1. /\ new \notin Named /\ Named \subseteq Symbols
      /\ Named' \subseteq Named \cup {new}
      /\ new \in Named' => old \in Named
  BY DEF GprReuse, New, Named, NameInv, TypeOK
<1>2. /\ symbol'[new] = symbol[old] /\ symbol'[old] = Invalid
      /\ \A t \in Symbols : t # old /\ t # new => symbol'[t] = symbol[t]
      /\ symbol \in [Symbols -> Value]
      /\ new # old /\ next_free' = next_free /\ kernel' = kernel /\ once' = once
      /\ open' = open
  BY DEF GprReuse, NameInv, TypeOK
<1>3. Below'
  BY <1>1, <1>2, InvalidSize DEF Below, NameInv
<1>4. Sized' /\ Early'
  BY <1>2, InvalidSize DEF Sized, Early, NameInv
<1>5. Apart'
  <2> SUFFICES ASSUME NEW t \in Named', NEW u \in Named', t # u
               PROVE  ~Overlap(symbol'[t], symbol'[u])
    BY DEF Apart
  <2>1. /\ \A v \in Symbols : symbol'[v] \in Value
        /\ \A v \in Symbols : symbol'[v].file \notin Files => symbol'[v].size = 0
    BY <1>2, <1>4, ValueTypes DEF Sized
  <2>2. CASE t = old \/ u = old
    BY <1>1, <1>2, <2>1, <2>2, InvalidApart
  <2>3. CASE t # old /\ u # old
    BY <1>1, <1>2, <2>3 DEF NameInv, Apart
  <2> QED BY <2>2, <2>3
<1> QED BY <1>3, <1>4, <1>5

\* A name gives its registers up; nobody else gets them.
LEMMA InvalidateNames ==
  ASSUME NameInv, NEW s \in using, GprInvalidate(s)
  PROVE  (Below /\ Apart /\ Sized /\ Early)'
<1>1. Named' \subseteq Named /\ Named \subseteq Symbols /\ s \in Symbols
  BY DEF GprInvalidate, Named, NameInv, TypeOK
<1>2. /\ symbol'[s] = Invalid
      /\ \A t \in Symbols : t # s => symbol'[t] = symbol[t]
      /\ symbol \in [Symbols -> Value]
      /\ next_free' = next_free /\ kernel' = kernel /\ once' = once
      /\ open' = open
  BY <1>1 DEF GprInvalidate, NameInv, TypeOK
<1>3. Below'
  BY <1>1, <1>2, InvalidSize DEF Below, NameInv
<1>4. Sized' /\ Early'
  BY <1>2, InvalidSize DEF Sized, Early, NameInv
<1>5. Apart'
  <2> SUFFICES ASSUME NEW t \in Named', NEW u \in Named', t # u
               PROVE  ~Overlap(symbol'[t], symbol'[u])
    BY DEF Apart
  <2>1. /\ \A v \in Symbols : symbol'[v] \in Value
        /\ \A v \in Symbols : symbol'[v].file \notin Files => symbol'[v].size = 0
    BY <1>2, <1>4, ValueTypes DEF Sized
  <2>2. CASE t = s \/ u = s
    BY <1>1, <1>2, <2>1, <2>2, InvalidApart
  <2>3. CASE t # s /\ u # s
    BY <1>1, <1>2, <2>3 DEF NameInv, Apart
  <2> QED BY <2>2, <2>3
<1> QED BY <1>3, <1>4, <1>5

\* Every macro keeps the names apart and below NEXT_FREE.
LEMMA NextNames == NameInv /\ NoCarry /\ [Next]_vars => NameInv'
<1> SUFFICES ASSUME NameInv, NoCarry, [Next]_vars
             PROVE  (Below /\ Apart /\ Sized /\ Early)'
  BY NextType DEF NameInv
<1>f. "VGPR" \in Files /\ "SGPR" \in Files /\ "LDS" \in Files
  BY DEF Files
<1>n. \A f \in Files : next_free[f] \in Nat /\ Sizes[f] \subseteq Nat \ {0}
  BY DEF NameInv, TypeOK
<1>1. CASE Begin
  BY <1>1, BeginNames
<1>2. CASE End
  <2>1. CASE \E m : Error(m)
    BY <2>1, ErrorNames
  <2>2. CASE /\ open /\ open' = FALSE
             /\ UNCHANGED <<kernel, symbol, next_free, once, using>>
    BY <2>2 DEF NameInv, Below, Apart, Sized, Early, Named
  <2> QED BY <1>2, <2>1, <2>2 DEF End
<1>3. ASSUME NEW s \in Symbols, NEW n \in Sizes["VGPR"], VgprAlloc(s, n)
      PROVE  (Below /\ Apart /\ Sized /\ Early)'
  <2>1. CASE \E m : Error(m)
    BY <2>1, ErrorNames
  <2>2. CASE Allocate("VGPR", s, next_free["VGPR"], n) /\ UNCHANGED once
    <3>1. open /\ once' \subseteq once \cup {s}
      BY <1>3, <2>2 DEF VgprAlloc, InKernel
    <3>2. next_free["VGPR"] \in Nat /\ n \in Nat \ {0}
      BY <1>f, <1>n
    <3> QED BY <2>2, <3>1, <3>2, <1>f, AllocateNames
  <2> QED BY <1>3, <2>1, <2>2 DEF VgprAlloc
<1>4. ASSUME NEW s \in Symbols, NEW n \in Sizes["SGPR"],
             NEW a \in Alignments \cup {0}, SgprAlloc(s, n, a)
      PROVE  (Below /\ Apart /\ Sized /\ Early)'
  BY <1>4, <1>f, <1>n, SgprAllocAsNames DEF SgprAlloc, InKernel
<1>5. ASSUME NEW s \in Symbols, NEW n \in Sizes["LDS"], NEW a \in Alignments,
             LdsAlloc(s, n, a)
      PROVE  (Below /\ Apart /\ Sized /\ Early)'
  BY <1>5, <1>f, <1>n, LdsAlignedUp, AllocateNames, ErrorNames
     DEF LdsAlloc, InKernel
<1>6. ASSUME NEW new \in Symbols, NEW old \in Symbols, New(new), GprReuse(old, new)
      PROVE  (Below /\ Apart /\ Sized /\ Early)'
  BY <1>6, ReuseNames
<1>7. ASSUME NEW s \in OnceSymbols, NEW n \in Sizes["SGPR"], SgprAllocOnce(s, n, 0)
      PROVE  (Below /\ Apart /\ Sized /\ Early)'
  <2>1. CASE s \in once
    <3>1. Named' = Named /\ UNCHANGED <<kernel, open, symbol, next_free, once>>
      BY <1>7, <2>1 DEF SgprAllocOnce, Named
    <3> QED BY <3>1 DEF NameInv, Below, Apart, Sized, Early
  <2>2. CASE s \notin once
    <3>1. once' \subseteq once \cup {s} /\ SgprAllocAs(s, n, 0) /\ open
      BY <1>7, <2>2 DEF SgprAllocOnce, InKernel
    <3> QED BY <3>1, <1>f, <1>n, SgprAllocAsNames
  <2> QED BY <2>1, <2>2
<1>8. ASSUME NEW s \in using, GprInvalidate(s)
      PROVE  (Below /\ Apart /\ Sized /\ Early)'
  BY <1>8, InvalidateNames
<1>9. ASSUME NEW f \in Files, NEW start \in Starts, start >= next_free[f],
             AllocFrom(f, start)
      PROVE  (Below /\ Apart /\ Sized /\ Early)'
  <2>1. /\ next_free'[f] >= next_free[f] /\ next_free'[f] \in Nat
        /\ \A g \in Files : g # f => next_free'[g] = next_free[g]
        /\ UNCHANGED <<kernel, open, symbol, once, using>>
    BY <1>9 DEF AllocFrom, NameInv, TypeOK
  <2>2. Named' = Named /\ Named \subseteq Symbols
    BY <2>1 DEF Named, NameInv, TypeOK
  <2>3. \A s \in Symbols : symbol[s].first \in Int /\ symbol[s].size \in Nat
    BY DEF NameInv, TypeOK, Value
  <2>4. Below'
    BY <1>n, <2>1, <2>2, <2>3 DEF Below, NameInv
  <2> QED BY <2>1, <2>2, <2>4 DEF NameInv, Apart, Sized, Early
<1>10. ASSUME NEW what \in {"vcc", "xnack", "flat_scratch"}, Reserve(what)
       PROVE  (Below /\ Apart /\ Sized /\ Early)'
  BY <1>10, NamesUnchanged DEF Reserve
<1>11. ASSUME NEW w \in MinLimits, SetMinWavesLimit(w)
       PROVE  (Below /\ Apart /\ Sized /\ Early)'
  <2>1. CASE \E m : Error(m)
    BY <2>1, ErrorNames
  <2>2. CASE UNCHANGED <<kernel, open, symbol, next_free, once, using>>
    BY <2>2, NamesUnchanged
  <2> QED BY <1>11, <2>1, <2>2 DEF SetMinWavesLimit
<1>12. ASSUME NEW w \in MaxLimits, SetMaxWavesLimit(w)
       PROVE  (Below /\ Apart /\ Sized /\ Early)'
  BY <1>12, NamesUnchanged, ErrorNames DEF SetMaxWavesLimit
<1>13. CASE UNCHANGED vars
  BY <1>13, NamesUnchanged DEF vars
<1> QED BY <1>1, <1>2, <1>3, <1>4, <1>5, <1>6, <1>7, <1>8, <1>9, <1>10, <1>11,
           <1>12, <1>13 DEF Next

(* No register and no byte of LDS has two names, however many kernels the   *)
(* file has, as long as no name of one kernel reaches the next              *)
(* (gpr_alloc.inc:144-192).                                                 *)
THEOREM GprNoOverlap == ASSUME NoCarry PROVE Spec => []NoOverlap
<1>1. Init => NameInv
  BY InitType, InitNames DEF NameInv
<1>2. NameInv /\ [Next]_vars => NameInv'
  BY NextNames
<1>3. NameInv => NoOverlap
  BY DEF NameInv, Apart, NoOverlap, Named
<1> QED BY <1>1, <1>2, <1>3, PTL DEF Spec

-----------------------------------------------------------------------------
(* The counts cover what has a name.                                       *)

\* .GPR_ALLOC_END computes counts that cover what is below NEXT_FREE.
LEMMA EndCounts ==
  ASSUME NameInv, End, asm' = "ok"
  PROVE  CountsCover'
<1>1. /\ auto' = [VGPR |-> VgprCount, SGPR |-> SgprCount, LDS |-> next_free["LDS"]]
      /\ granulated' = [VGPR |-> Granules(VgprCount, 4), SGPR |-> Granules(SgprCount, 8)]
      /\ UNCHANGED <<next_free, reserved, symbol, using>>
  BY DEF End, Error, limits
<1>2. TypeOK
  BY DEF NameInv
<1>3. next_free["LDS"] \in Nat /\ next_free["SGPR"] \in Nat /\ next_free["VGPR"] \in Nat
  BY <1>2 DEF TypeOK, Files
<1>4. /\ auto'["VGPR"] = VgprCount /\ auto'["SGPR"] = SgprCount
      /\ auto'["LDS"] = next_free["LDS"]
      /\ granulated'["VGPR"] = Granules(VgprCount, 4)
      /\ granulated'["SGPR"] = Granules(SgprCount, 8)
  BY <1>1
<1>5. \A f \in Files : next_free[f] \in Nat /\ auto'[f] \in Nat /\ next_free[f] <= auto'[f]
  BY <1>2, <1>3, <1>4, CountsType, AdditionalType DEF Files
<1>6. ASSUME NEW s \in using, symbol[s].file \in Files
      PROVE  symbol[s].first + symbol[s].size <= auto'[symbol[s].file]
  <2>1. symbol[s].first + symbol[s].size <= next_free[symbol[s].file]
    BY <1>6 DEF NameInv, Below, Named
  <2>2. symbol[s].first \in Int /\ symbol[s].size \in Nat
    BY <1>2, <1>6 DEF TypeOK, Value
  <2> QED BY <1>5, <1>6, <2>1, <2>2
<1>7. Additional' = Additional
  BY <1>1 DEF Additional
<1>8. /\ auto'["SGPR"] >= next_free'["SGPR"] + Additional'
      /\ (granulated'["VGPR"] + 1) * 4 >= auto'["VGPR"]
      /\ (granulated'["SGPR"] + 1) * 8 >= auto'["SGPR"]
  BY <1>1, <1>2, <1>4, <1>7, CountsType, GranulesCover
<1> QED BY <1>1, <1>6, <1>8 DEF CountsCover

\* Only .GPR_ALLOC_END closes a kernel, and an .error is the end of the file.
LEMMA StaysOpen == Next => End \/ asm' # "ok" \/ open'
<1> SUFFICES ASSUME Next PROVE End \/ asm' # "ok" \/ open'
  OBVIOUS
<1>1. \A m \in Messages : Error(m) => asm' # "ok"
  BY DEF Error, Messages
<1>m. /\ "out of free vgprs" \in Messages /\ "out of free sgprs" \in Messages
      /\ "out of free lds" \in Messages /\ "unaligned register" \in Messages
      /\ "max 10 waves per simd is available" \in Messages
      /\ "min_waves_limit > max_waves_limit" \in Messages
      /\ "waves per simd should be > 0" \in Messages
  BY DEF Messages
<1>2. ASSUME NEW f, NEW s, NEW at, NEW n, open, Allocate(f, s, at, n) PROVE open'
  BY <1>2 DEF Allocate
<1>3. CASE Begin
  BY <1>3 DEF Begin
<1>4. ASSUME NEW s, NEW n, VgprAlloc(s, n) PROVE asm' # "ok" \/ open'
  BY <1>1, <1>m, <1>2, <1>4 DEF VgprAlloc, InKernel
<1>5. ASSUME NEW s, NEW n, NEW a, SgprAllocAs(s, n, a), open
      PROVE  asm' # "ok" \/ open'
  BY <1>1, <1>m, <1>2, <1>5 DEF SgprAllocAs
<1>6. ASSUME NEW s, NEW n, NEW a, SgprAlloc(s, n, a) \/ SgprAllocOnce(s, n, a)
      PROVE  asm' # "ok" \/ open'
  BY <1>5, <1>6 DEF SgprAlloc, SgprAllocOnce, InKernel
<1>7. ASSUME NEW s, NEW n, NEW a, LdsAlloc(s, n, a) PROVE asm' # "ok" \/ open'
  BY <1>1, <1>m, <1>2, <1>7 DEF LdsAlloc, InKernel
<1>8. ASSUME NEW s, NEW t, GprReuse(s, t) \/ GprInvalidate(s) PROVE open'
  BY <1>8 DEF GprReuse, GprInvalidate, InKernel
<1>9. ASSUME NEW f, NEW n, AllocFrom(f, n) \/ Reserve(f) PROVE open'
  BY <1>9 DEF AllocFrom, Reserve, InKernel
<1>10. ASSUME NEW w, SetMinWavesLimit(w) PROVE asm' # "ok" \/ open'
  BY <1>1, <1>m, <1>10 DEF SetMinWavesLimit, InKernel
<1>11. ASSUME NEW w, SetMaxWavesLimit(w) PROVE asm' # "ok" \/ open'
  BY <1>1, <1>m, <1>11 DEF SetMaxWavesLimit, InKernel
<1> QED BY <1>3, <1>4, <1>6, <1>7, <1>8, <1>9, <1>10, <1>11 DEF Next

\* The counts of a closed kernel are only changed by the next one.
LEMMA NextCounts == CountInv /\ NoCarry /\ [Next]_vars => CountInv'
<1> SUFFICES ASSUME CountInv, NoCarry, [Next]_vars PROVE CountInv'
  OBVIOUS
<1>1. NameInv /\ NameInv'
  BY NextNames DEF CountInv
<1>2. CASE End
  BY <1>1, <1>2, EndCounts DEF CountInv, CountsCover
<1>3. CASE asm' # "ok" \/ open'
  BY <1>1, <1>3 DEF CountInv, CountsCover
<1>4. CASE UNCHANGED vars
  BY <1>1, <1>4 DEF CountInv, CountsCover, Additional, vars
<1> QED BY <1>2, <1>3, <1>4, StaysOpen

(* What .GPR_ALLOC_END announces covers every register and every byte with a *)
(* name, and the reserved pairs, for any text of a file in which no name of   *)
(* one kernel reaches the next (gpr_alloc.inc:99-118).                        *)
THEOREM GprCountsCover == ASSUME NoCarry PROVE Spec => []CountsCover
<1>1. Init => CountInv
  BY InitType, InitNames DEF CountInv, NameInv, CountsCover, Init
<1>2. CountInv /\ [Next]_vars => CountInv'
  BY NextCounts
<1>3. CountInv => CountsCover
  BY DEF CountInv
<1> QED BY <1>1, <1>2, <1>3, PTL DEF Spec

-----------------------------------------------------------------------------
(* The wave limit.                                                         *)

\* Allocations leave the limits and the counts alone.
LEMMA LimitsStay ==
  ASSUME NEW f, NEW s, NEW at, NEW n, \/ Allocate(f, s, at, n)
                                      \/ \E m : Error(m)
  PROVE  UNCHANGED <<open, available, min_waves, max_waves>>
BY DEF Allocate, Error, limits

\* Only a new kernel and the two limit macros change a limit.
LEMMA OthersLeaveLimits ==
  Next => \/ Begin \/ End
          \/ \E w \in MinLimits : SetMinWavesLimit(w)
          \/ \E w \in MaxLimits : SetMaxWavesLimit(w)
          \/ UNCHANGED <<open, available, min_waves, max_waves>>
<1>1. ASSUME NEW s, NEW n, VgprAlloc(s, n)
      PROVE  UNCHANGED <<open, available, min_waves, max_waves>>
  BY <1>1, LimitsStay DEF VgprAlloc
<1>2. ASSUME NEW s, NEW n, NEW a, SgprAllocAs(s, n, a)
      PROVE  UNCHANGED <<open, available, min_waves, max_waves>>
  BY <1>2, LimitsStay DEF SgprAllocAs
<1>3. ASSUME NEW s, NEW n, NEW a, SgprAlloc(s, n, a) \/ SgprAllocOnce(s, n, a)
      PROVE  UNCHANGED <<open, available, min_waves, max_waves>>
  BY <1>2, <1>3 DEF SgprAlloc, SgprAllocOnce, limits
<1>4. ASSUME NEW s, NEW n, NEW a, LdsAlloc(s, n, a)
      PROVE  UNCHANGED <<open, available, min_waves, max_waves>>
  BY <1>4, LimitsStay DEF LdsAlloc
<1>5. ASSUME NEW s, NEW t, GprReuse(s, t) \/ GprInvalidate(s)
      PROVE  UNCHANGED <<open, available, min_waves, max_waves>>
  BY <1>5 DEF GprReuse, GprInvalidate, limits
<1>6. ASSUME NEW f, NEW n, AllocFrom(f, n) \/ Reserve(f)
      PROVE  UNCHANGED <<open, available, min_waves, max_waves>>
  BY <1>6 DEF AllocFrom, Reserve, limits
<1> QED BY <1>1, <1>3, <1>4, <1>5, <1>6 DEF Next

\* The last check of .GPR_ALLOC_END is against the limit that holds.
LEMMA EndWaves ==
  ASSUME WaveInv, End, asm' = "ok"
  PROVE  auto'["VGPR"] <= VgprsFor(min_waves)
<1>1. /\ open
      /\ ~(next_free["VGPR"] + 0 >= available["VGPR"])
      /\ auto'["VGPR"] = VgprCount
  <2>1. open /\ ~Exhausted("VGPR", next_free["VGPR"], 0)
    BY DEF End, Error, Files
  <2>2. auto' = [VGPR |-> VgprCount, SGPR |-> SgprCount, LDS |-> next_free["LDS"]]
    BY DEF End, Error
  <2> QED BY <2>1, <2>2 DEF Exhausted
<1>2. next_free["VGPR"] \in Nat /\ available["VGPR"] = VgprsFor(min_waves)
  BY <1>1 DEF WaveInv, TypeOK, Files
<1>3. /\ min_waves \in Nat /\ max_waves \in 1 .. 10 /\ min_waves <= max_waves
      /\ VgprsFor(max_waves) <= VgprsFor(min_waves)
      /\ VgprsFor(max_waves) \in Nat /\ VgprsFor(min_waves) \in Nat
  <2>1. /\ min_waves \in Nat /\ max_waves \in Nat /\ max_waves \in 1 .. 10
        /\ min_waves <= max_waves
    BY DEF WaveInv, TypeOK
  <2>2. VgprsFor(max_waves) \in 24 .. 256 /\ VgprsFor(min_waves) \in 24 .. 256
    BY <2>1, VgprsForWaves
  <2> QED BY <2>1, <2>2, VgprsForWaves
<1> QED BY <1>1, <1>2, <1>3 DEF VgprCount, AtLeast

\* After an .error nothing is announced.
LEMMA ErrorWaves ==
  ASSUME WaveInv, NEW m \in Messages, Error(m)
  PROVE  WaveInv'
<1>1. TypeOK'
  BY ErrorType DEF WaveInv
<1>2. m # "ok"
  BY DEF Messages
<1>3. MinWavesForVgprs'
  BY <1>2 DEF Error, MinWavesForVgprs
<1>4. UNCHANGED <<open, available, min_waves, max_waves>>
  BY DEF Error
<1> QED BY <1>1, <1>3, <1>4 DEF WaveInv

\* Before the first kernel nothing is announced.
LEMMA InitWaves == Init => WaveInv
<1> SUFFICES ASSUME Init PROVE WaveInv
  OBVIOUS
<1>1. max_waves \in 1 .. 10 /\ min_waves <= max_waves /\ ~open /\ kernel = 0
  BY DEF Init
<1> QED BY <1>1, InitType DEF WaveInv, MinWavesForVgprs

\* Every macro keeps the limits ordered and the free registers theirs.
LEMMA NextWaves ==
  ASSUME MaxLimits \subseteq 0 .. 10
  PROVE  WaveInv /\ [Next]_vars => WaveInv'
<1> SUFFICES ASSUME WaveInv, [Next]_vars PROVE WaveInv'
  OBVIOUS
<1>1. TypeOK /\ TypeOK'
  BY NextType DEF WaveInv
<1>2. CASE Begin
  <2>1. /\ available'["VGPR"] = 256 /\ min_waves' = 1 /\ max_waves' = 10
        /\ open' = TRUE
    BY <1>2 DEF Begin
  <2>2. VgprsFor(1) = 256
    BY DEF VgprsFor
  <2> QED BY <1>1, <2>1, <2>2 DEF WaveInv, MinWavesForVgprs
<1>3. CASE End
  <2>1. UNCHANGED <<available, min_waves, max_waves>> /\ (open' => open)
    <3>1. CASE \E m : Error(m)
      BY <3>1 DEF Error
    <3>2. CASE UNCHANGED limits /\ open
      BY <3>2 DEF limits
    <3> QED BY <1>3, <3>1, <3>2 DEF End
  <2>2. MinWavesForVgprs'
    BY <1>3, <2>1, EndWaves DEF MinWavesForVgprs
  <2> QED BY <1>1, <2>1, <2>2 DEF WaveInv
<1>4. ASSUME NEW w \in MinLimits, SetMinWavesLimit(w) PROVE WaveInv'
  <2>1. CASE \E m \in Messages : Error(m)
    BY <2>1, ErrorWaves
  <2>2. CASE w <= max_waves /\ available' = LimitedTo(w) /\ min_waves' = w
             /\ max_waves' = max_waves /\ open' /\ open
    <3>1. available'["VGPR"] = VgprsFor(w)
      BY <1>1, <2>2, LimitedToType
    <3> QED BY <1>1, <2>2, <3>1 DEF WaveInv, MinWavesForVgprs
  <2> QED BY <1>4, <2>1, <2>2 DEF SetMinWavesLimit, InKernel, Messages
<1>5. ASSUME NEW w \in MaxLimits, SetMaxWavesLimit(w) PROVE WaveInv'
  <2>1. CASE \E m \in Messages : Error(m)
    BY <2>1, ErrorWaves
  <2>2. CASE w >= 1 /\ min_waves <= w /\ max_waves' = w
             /\ UNCHANGED <<available, min_waves>> /\ open' /\ open
    BY <1>1, <2>2 DEF WaveInv, MinWavesForVgprs
  <2> QED BY <1>5, <2>1, <2>2 DEF SetMaxWavesLimit, InKernel, Messages
<1>6. ASSUME Next, ~End, UNCHANGED <<open, available, min_waves, max_waves>>
      PROVE  WaveInv'
  <2>1. MinWavesForVgprs'
    BY <1>6, StaysOpen DEF MinWavesForVgprs
  <2> QED BY <1>1, <1>6, <2>1 DEF WaveInv
<1>7. CASE UNCHANGED vars
  BY <1>1, <1>7 DEF WaveInv, MinWavesForVgprs, vars
<1> QED BY <1>2, <1>3, <1>4, <1>5, <1>6, <1>7, OthersLeaveLimits

(* A kernel never announces more vector registers than the number of waves   *)
(* of .SET_MIN_WAVES_LIMIT allows, whatever is allocated and limited in what  *)
(* order, if no maximum above the ten waves of the hardware is asked for      *)
(* (gpr_alloc.inc:75-96, 103-110).                                            *)
THEOREM GprMinWaves ==
  ASSUME MaxLimits \subseteq 0 .. 10
  PROVE  Spec => []MinWavesForVgprs
<1>1. WaveInv /\ [Next]_vars => WaveInv'
  BY NextWaves
<1>2. WaveInv => MinWavesForVgprs
  BY DEF WaveInv
<1> QED BY <1>1, <1>2, InitWaves, PTL DEF Spec

=============================================================================
