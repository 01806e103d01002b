------------------------- MODULE DebugMacrosProofs -------------------------
(***************************************************************************)
(* DebugMacros for any waves, any width of a wave, any ring and any text.  *)
(***************************************************************************)
EXTENDS DebugMacros, FiniteSetTheorems, WellFoundedInduction, TLAPS

-----------------------------------------------------------------------------
(* Numbers. *)

(* A set of numbers has a least one, and one of bounded numbers a greatest.  *)
LEMMA Least ==
  ASSUME NEW T, T \subseteq Nat, T # {}
  PROVE  \E x \in T : \A y \in T : x <= y
<1>. DEFINE R == OpToRel(<, Nat)
<1>1. \A x, y \in Nat : <<y, x>> \in R <=> y < x
  BY DEF OpToRel
<1>2. IsWellFoundedOn(R, Nat)
  BY NatLessThanWellFounded
<1>. HIDE DEF R
<1>3. PICK x \in T : \A y \in T : ~(<<y, x>> \in R)
  BY <1>2, WFMin
<1>4. ASSUME NEW y \in T
      PROVE  x <= y
  <2>1. x \in Nat /\ y \in Nat /\ ~(<<y, x>> \in R)
    BY <1>3
  <2>2. ~(y < x)
    BY <1>1, <2>1
  <2>3. QED BY <2>1, <2>2
<1>5. QED BY <1>3, <1>4

LEMMA Greatest ==
  ASSUME NEW n \in Nat, NEW T, T \subseteq 0 .. n, T # {}
  PROVE  \E x \in T : \A y \in T : y <= x
<1>. DEFINE U == {u \in 0 .. n : n - u \in T}
<1>1. \E u \in U : \A v \in U : u <= v
  <2>1. PICK t \in T : TRUE
    OBVIOUS
  <2>2. n - t \in U
    <3>1. n - t \in 0 .. n /\ n - (n - t) = t
      BY <2>1
    <3>2. QED BY <2>1, <3>1
  <2>3. U \subseteq Nat
    OBVIOUS
  <2>. HIDE DEF U
  <2>4. QED BY <2>2, <2>3, Least
<1>2. PICK u \in U : \A v \in U : u <= v
  BY <1>1
<1>3. n - u \in T /\ u \in 0 .. n
  BY <1>2
<1>4. ASSUME NEW y \in T
      PROVE  y <= n - u
  <2>1. n - y \in 0 .. n /\ n - (n - y) = y /\ y \in 0 .. n
    BY <1>4
  <2>2. n - y \in U
    BY <2>1
  <2>. HIDE DEF U
  <2>3. u <= n - y
    BY <1>2, <2>2
  <2>4. QED BY <1>3, <2>1, <2>3
<1>5. QED BY <1>3, <1>4

(* A place in rows of m: the row and the column are determined.              *)
LEMMA NextRow ==
  ASSUME NEW m \in Nat \ {0}, NEW x \in Nat, NEW y \in Nat, x < y
  PROVE  m * x + m <= m * y
BY SMT

LEMMA SlotUnique ==
  ASSUME NEW m \in Nat \ {0}, NEW a \in 0 .. m - 1, NEW b \in 0 .. m - 1,
         NEW x \in Nat, NEW y \in Nat, a + m * x = b + m * y
  PROVE  a = b /\ x = y
<1>1. m * x \in Nat /\ m * y \in Nat
  BY SMT
<1>2. CASE x < y
  <2>1. m * x + m <= m * y
    BY <1>2, NextRow
  <2>2. QED BY <1>1, <2>1
<1>3. CASE y < x
  <2>1. m * y + m <= m * x
    BY <1>3, NextRow
  <2>2. QED BY <1>1, <2>1
<1>4. CASE x = y
  BY <1>1, <1>4
<1>5. QED BY <1>2, <1>3, <1>4

LEMMA RowQuotient ==
  ASSUME NEW m \in Nat \ {0}, NEW x \in Nat
  PROVE  (m * x) \div m = x
BY SMT

-----------------------------------------------------------------------------
(* Counting. *)

\* How many elements of a kind are before a place.
CountIn(t, X, at) == Cardinality({k \in 1 .. at - 1 : t[k] \in X})

(* The next element counts if it is of the kind.                             *)
LEMMA CountNext ==
  ASSUME NEW t, NEW X, NEW at \in Nat \ {0}
  PROVE  /\ CountIn(t, X, at) \in Nat
         /\ CountIn(t, X, at + 1) = CountIn(t, X, at) + IF t[at] \in X THEN 1 ELSE 0
<1>. DEFINE A == {k \in 1 .. at - 1 : t[k] \in X}
            B == {k \in 1 .. at + 1 - 1 : t[k] \in X}
<1>1. IsFiniteSet(A) /\ Cardinality(A) \in Nat
  <2>1. IsFiniteSet(1 .. at - 1)
    BY FS_Interval
  <2>2. A \in SUBSET (1 .. at - 1)
    OBVIOUS
  <2>. HIDE DEF A
  <2>3. QED BY <2>1, <2>2, FS_Subset, FS_CardinalityType
<1>2. at \notin A
  OBVIOUS
<1>3. CountIn(t, X, at) = Cardinality(A) /\ CountIn(t, X, at + 1) = Cardinality(B)
  BY DEF CountIn
<1>4. CASE t[at] \in X
  <2>1. B = A \cup {at}
    BY <1>4
  <2>. HIDE DEF A, B
  <2>2. Cardinality(B) = Cardinality(A) + 1
    BY <1>1, <1>2, <2>1, FS_AddElement
  <2>3. QED BY <1>1, <1>3, <1>4, <2>2
<1>5. CASE t[at] \notin X
  <2>1. B = A
    BY <1>5
  <2>. HIDE DEF A, B
  <2>2. Cardinality(B) = Cardinality(A) + 0
    BY <1>1, <2>1
  <2>3. QED BY <1>1, <1>3, <1>5, <2>2
<1>6. QED BY <1>4, <1>5

LEMMA CountGrows ==
  ASSUME NEW t, NEW X, NEW j \in Nat \ {0}, NEW at \in Nat \ {0}, j <= at
  PROVE  CountIn(t, X, j) <= CountIn(t, X, at)
<1>. DEFINE A == {k \in 1 .. j - 1 : t[k] \in X}
            B == {k \in 1 .. at - 1 : t[k] \in X}
<1>1. IsFiniteSet(B)
  <2>1. IsFiniteSet(1 .. at - 1)
    BY FS_Interval
  <2>2. B \in SUBSET (1 .. at - 1)
    OBVIOUS
  <2>. HIDE DEF B
  <2>3. QED BY <2>1, <2>2, FS_Subset
<1>2. A \in SUBSET B
  OBVIOUS
<1>3. CountIn(t, X, j) = Cardinality(A) /\ CountIn(t, X, at) = Cardinality(B)
  BY DEF CountIn
<1>. HIDE DEF A, B
<1>4. QED BY <1>1, <1>2, <1>3, FS_Subset

\* The dumps and the stores of a text before a place.
DumpsIn(t, at)  == CountIn(t, Dumps, at)
StoresIn(t, at) == CountIn(t, {"dbg_store"}, at)

LEMMA Passed ==
  ASSUME NEW t, NEW at \in Nat \ {0}
  PROVE  /\ DumpsIn(t, at) \in Nat /\ StoresIn(t, at) \in Nat
         /\ t[at] \in Dumps => /\ DumpsIn(t, at + 1) = DumpsIn(t, at) + 1
                              /\ StoresIn(t, at + 1) = StoresIn(t, at)
         /\ t[at] = "dbg_store" => /\ DumpsIn(t, at + 1) = DumpsIn(t, at)
                                   /\ StoresIn(t, at + 1) = StoresIn(t, at) + 1
         /\ t[at] = "step" => /\ DumpsIn(t, at + 1) = DumpsIn(t, at)
                              /\ StoresIn(t, at + 1) = StoresIn(t, at)
<1>1. /\ DumpsIn(t, at) \in Nat
      /\ DumpsIn(t, at + 1) = DumpsIn(t, at) + IF t[at] \in Dumps THEN 1 ELSE 0
  BY CountNext DEF DumpsIn
<1>2. /\ StoresIn(t, at) \in Nat
      /\ StoresIn(t, at + 1) = StoresIn(t, at) + IF t[at] \in {"dbg_store"} THEN 1 ELSE 0
  BY CountNext DEF StoresIn
<1>3. "dbg_store" \notin Dumps /\ "step" \notin Dumps /\ "step" # "dbg_store"
  BY DEF Dumps
<1>4. QED BY <1>1, <1>2, <1>3

LEMMA NonePassed ==
  ASSUME NEW t
  PROVE  DumpsIn(t, 1) = 0 /\ StoresIn(t, 1) = 0
<1>1. ASSUME NEW X
      PROVE  CountIn(t, X, 1) = 0
  <2>1. {k \in 1 .. 1 - 1 : t[k] \in X} = {}
    OBVIOUS
  <2>2. QED BY <2>1, FS_EmptySet DEF CountIn
<1>2. QED BY <1>1 DEF DumpsIn, StoresIn

(* A store before a place counts at the place.                               *)
LEMMA StoreCounts ==
  ASSUME NEW t, NEW j \in Nat \ {0}, NEW at \in Nat \ {0}, j < at
  PROVE  /\ DumpsIn(t, j) <= DumpsIn(t, at)
         /\ t[j] = "dbg_store" => StoresIn(t, j) < StoresIn(t, at)
<1>1. DumpsIn(t, j) <= DumpsIn(t, at)
  BY CountGrows DEF DumpsIn
<1>2. j + 1 \in Nat \ {0} /\ j + 1 <= at
  OBVIOUS
<1>3. StoresIn(t, j + 1) <= StoresIn(t, at)
  BY <1>2, CountGrows DEF StoresIn
<1>4. /\ StoresIn(t, j) \in Nat /\ StoresIn(t, at) \in Nat
      /\ t[j] = "dbg_store" => StoresIn(t, j + 1) = StoresIn(t, j) + 1
  BY Passed
<1>5. QED BY <1>1, <1>3, <1>4

-----------------------------------------------------------------------------
(* The ring. *)

(* The dump that a register holds is one of those made, and the next dump    *)
(* goes into one register and leaves the others.                             *)
LEMMA LastIntoNext ==
  ASSUME NEW row \in Rows, NEW m \in Nat
  PROVE  /\ LastInto(row, m) \in 0 .. m
         /\ LastInto(row, 0) = 0
         /\ m % Ring = row => LastInto(row, m + 1) = m + 1
         /\ m % Ring # row => LastInto(row, m + 1) = LastInto(row, m)
<1>. DEFINE Into(n) == {d \in 1 .. n : (d - 1) % Ring = row}
            Top(S)  == IF S = {} THEN 0 ELSE CHOOSE d \in S : \A e \in S : e <= d
<1>1. \A n \in Nat : LastInto(row, n) =
        IF Into(n) = {} THEN 0 ELSE CHOOSE d \in Into(n) : \A e \in Into(n) : e <= d
  BY DEF LastInto
<1>2. LastInto(row, m) \in 0 .. m
  <2>1. CASE Into(m) = {}
    BY <1>1, <2>1
  <2>2. CASE Into(m) # {}
    <3>1. \E d \in Into(m) : \A e \in Into(m) : e <= d
      <4>. DEFINE T == Into(m)
      <4>1. T \subseteq 0 .. m
        OBVIOUS
      <4>. HIDE DEF T
      <4>2. QED BY <2>2, <4>1, Greatest DEF T
    <3>2. LastInto(row, m) \in Into(m)
      BY <1>1, <2>2, <3>1
    <3>3. QED BY <3>2
  <2>3. QED BY <2>1, <2>2
<1>3. LastInto(row, 0) = 0
  <2>1. Into(0) = {}
    OBVIOUS
  <2>2. QED BY <1>1, <2>1
<1>4. ASSUME m % Ring = row
      PROVE  LastInto(row, m + 1) = m + 1
  <2>1. m + 1 \in Into(m + 1)
    BY <1>4
  <2>2. \A e \in Into(m + 1) : e <= m + 1
    OBVIOUS
  <2>3. \A d \in Into(m + 1) : m + 1 <= d => d = m + 1
    OBVIOUS
  <2>. DEFINE T == Into(m + 1)
  <2>4. LastInto(row, m + 1) = CHOOSE d \in T : \A e \in T : e <= d
    BY <1>1, <2>1
  <2>5. m + 1 \in T /\ (\A e \in T : e <= m + 1) /\ (\A d \in T : m + 1 <= d => d = m + 1)
    BY <2>1, <2>2, <2>3
  <2>. HIDE DEF T
  <2>6. QED BY <2>4, <2>5
<1>5. ASSUME m % Ring # row
      PROVE  LastInto(row, m + 1) = LastInto(row, m)
  <2>1. Into(m + 1) = Into(m)
    <3>1. \A d \in 1 .. m + 1 : (d - 1) % Ring = row => d \in 1 .. m
      BY <1>5
    <3>2. QED BY <3>1
  <2>2. LastInto(row, m + 1) = Top(Into(m + 1)) /\ LastInto(row, m) = Top(Into(m))
    BY DEF LastInto
  <2>. HIDE DEF Into, Top
  <2>3. QED BY <2>1, <2>2
<1>6. QED BY <1>2, <1>3, <1>4, <1>5

-----------------------------------------------------------------------------
(* The inductive invariant. *)

Cell == [value : Int, as : {"bits", "float", "junk"}]

Masks == [Waves -> SUBSET Lanes]

MaskTypes ==
  /\ entry \in Masks /\ exec \in Masks /\ vcc \in Masks
  /\ dbg_exec \in Masks /\ wanted \in Masks

DTypes ==
  /\ text \in Texts
  /\ pc \in [Waves -> Nat]
  /\ macro \in [Waves -> {"launch", "none", "opened", "picked", "closing"}]
  /\ MaskTypes
  /\ val \in [Waves -> [Lanes -> Int]]
  /\ dbg \in [Waves -> [Rows -> [Lanes -> Cell]]]
  /\ dbg_ptr \in [Waves -> [Lanes -> Int]] /\ dbg_wave_id \in [Waves -> [Lanes -> Int]]
  /\ seen \in [Waves -> Seq([Lanes -> Cell])]

me == debug_wid

\* The other waves are full.
Full == \A w \in Waves \ {me} : pc[w] > 0 => entry[w] = Lanes

\* The lanes that take part in a dbg_store.
Storing(w) == {l \in Lanes : dbg_wave_id[w][l] = debug_wid}

\* Where the kernel's exec and vcc are: inside a macro exec is in the scalar
\* registers, and vcc is given up by the comparison of dbg_store.
Masked(w) ==
  /\ macro[w] = "launch" => pc[w] = 0 /\ dbg_exec[w] = {}
  /\ macro[w] = "none" => exec[w] = wanted[w]
  /\ macro[w] \in {"opened", "picked", "closing"} => dbg_exec[w] = wanted[w]
  /\ macro[w] = "opened" => exec[w] = Lanes
  /\ macro[w] = "picked" => exec[w] = Storing(w)
  /\ macro[w] # "picked" /\ VccInUse(w) => vcc[w] = wanted[w]

AllMasked == \A w \in Waves : Masked(w)

\* Each work-item's lane has the number of its wave.
Numbered ==
  \A w \in Waves : macro[w] # "launch" => \A l \in entry[w] : dbg_wave_id[w][l] = w

\* The wanted wave has made the dumps before its place in the text, and stored
\* as many blocks as there are stores before it.
Counted ==
  /\ pc[me] = 0 => Len(seen[me]) = 0
  /\ pc[me] > 0 => Len(seen[me]) = DumpsIn(text, pc[me])
  /\ pc[me] > 0 => \A l \in Lanes : dbg_wave_id[me][l] = me =>
       dbg_ptr[me][l] = l + Width * (Ring * StoresIn(text, pc[me]))

\* What a register of the ring holds after this many dumps of those found.
Held(found, row, l, dumps) ==
  LET d == LastInto(row, dumps) IN IF d = 0 THEN Junk ELSE found[d][l]

RingHolds ==
  \A row \in Rows, l \in Lanes : dbg[me][row][l] = Held(seen[me], row, l, Len(seen[me]))

Slot(l, block, row) == l + Width * (Ring * block + row)

\* The block of a store that has been passed.
Block(k) ==
  \A row \in Rows, l \in entry[me] :
    LET a == Slot(l, StoresIn(text, k), row) IN
    a \in DOMAIN buffer /\ buffer[a] = Held(seen[me], row, l, DumpsIn(text, k))

Blocks ==
  Full => \A k \in 1 .. pc[me] - 1 : text[k] = "dbg_store" => Block(k)

DumpInv ==
  /\ DTypes /\ AllMasked
  /\ Numbered /\ Counted /\ RingHolds /\ Blocks

(* The invariant is what the reader relies on.                               *)
LEMMA DumpInvImplies ==
  ASSUME DumpInv
  PROVE  KernelUndisturbed /\ StoredIsDumped
<1>1. KernelUndisturbed
  BY DEF DumpInv, AllMasked, Masked, KernelUndisturbed
<1>2. ASSUME Full, NEW k \in 1 .. pc[me] - 1, text[k] = "dbg_store",
             NEW row \in Rows, NEW l \in entry[me]
      PROVE  LET n == Cardinality({j \in 1 .. k : text[j] = "dbg_store"})
                 d == LastInto(row, DumpsBefore(k))
             IN  buffer[l + Width * (Ring * (n - 1) + row)] =
                   IF d = 0 THEN Junk ELSE seen[me][d][l]
  <2>. DEFINE n == Cardinality({j \in 1 .. k : text[j] = "dbg_store"})
  <2>1. n = StoresIn(text, k) + 1 /\ StoresIn(text, k) \in Nat
    <3>1. {j \in 1 .. k : text[j] = "dbg_store"} =
            {j \in 1 .. k + 1 - 1 : text[j] \in {"dbg_store"}}
      OBVIOUS
    <3>2. k \in Nat \ {0}
      OBVIOUS
    <3>3. n = StoresIn(text, k + 1)
      BY <3>1 DEF StoresIn, CountIn
    <3>. HIDE DEF n
    <3>4. QED BY <1>2, <3>2, <3>3, Passed
  <2>2. n - 1 = StoresIn(text, k)
    <3>. HIDE DEF n
    <3>1. QED BY <2>1
  <2>3. buffer[Slot(l, StoresIn(text, k), row)] = Held(seen[me], row, l, DumpsIn(text, k))
    BY <1>2 DEF DumpInv, Blocks, Block
  <2>. HIDE DEF n
  <2>4. buffer[Slot(l, n - 1, row)] = Held(seen[me], row, l, DumpsIn(text, k))
    BY <2>2, <2>3
  <2>5. DumpsBefore(k) = DumpsIn(text, k)
    BY DEF DumpsBefore, DumpsIn, CountIn
  <2>6. QED BY <2>4, <2>5 DEF Slot, Held, n
<1>3. StoredIsDumped
  BY <1>2 DEF StoredIsDumped, Full, me
<1>4. QED BY <1>1, <1>3

LEMMA DumpInit ==
  ASSUME DebugInit
  PROVE  DumpInv
<1>1. /\ me \in Waves /\ me \in Nat /\ Waves \subseteq Nat
  BY DebugAssumption DEF me
<1>2. << >> \in Seq([Lanes -> Cell]) /\ Len(<< >>) = 0
  OBVIOUS
<1>3. Junk \in Cell
  BY DEF Junk, Cell
<1>4. DTypes
  BY <1>2, <1>3 DEF DebugInit, DTypes, MaskTypes, Masks
<1>5. /\ pc[me] = 0 /\ seen[me] = << >>
      /\ \A w \in Waves : pc[w] = 0 /\ macro[w] = "launch" /\ dbg_exec[w] = {}
  BY <1>1 DEF DebugInit
<1>9. AllMasked
  <2>1. \A w \in Waves : ~VccInUse(w)
    BY <1>5 DEF VccInUse
  <2>2. QED BY <1>5, <2>1 DEF AllMasked, Masked
<1>6. Numbered /\ Counted /\ Blocks
  BY <1>2, <1>5 DEF Numbered, Counted, Blocks
<1>7. RingHolds
  <2>1. \A row \in Rows, l \in Lanes : dbg[me][row][l] = Junk
    BY <1>1 DEF DebugInit
  <2>2. \A row \in Rows : LastInto(row, 0) = 0
    BY LastIntoNext
  <2>3. QED BY <1>2, <1>5, <2>1, <2>2 DEF RingHolds, Held
<1>8. QED BY <1>4, <1>6, <1>7, <1>9 DEF DumpInv

-----------------------------------------------------------------------------
(* Each action preserves the invariant. *)

LEMMA AtFacts ==
  ASSUME DTypes, NEW w \in Waves, NEW ops, At(w, ops)
  PROVE  pc[w] \in Nat \ {0} /\ text[pc[w]] \in ops
<1>1. text \in Seq(Dumps \cup {"dbg_store", "step"})
  BY DebugAssumption DEF DTypes
<1>2. DOMAIN text = 1 .. Len(text) /\ Len(text) \in Nat
  BY <1>1
<1>3. QED BY <1>2 DEF At

LEMMA SourceType ==
  ASSUME DTypes, NEW w \in Waves, pc[w] \in Nat \ {0}, NEW op
  PROVE  Source(w, op) \in [Lanes -> Cell]
<1>. DEFINE scalar == Cardinality({k \in 1 .. pc[w] - 1 : text[k] = "step"})
<1>1. scalar \in Nat
  <2>1. {k \in 1 .. pc[w] - 1 : text[k] = "step"} =
          {k \in 1 .. pc[w] - 1 : text[k] \in {"step"}}
    OBVIOUS
  <2>2. scalar = CountIn(text, {"step"}, pc[w])
    BY <2>1 DEF CountIn
  <2>. HIDE DEF scalar
  <2>3. QED BY <2>2, CountNext
<1>2. \A l \in Lanes : val[w][l] \in Int
  BY DEF DTypes
<1>. DEFINE as == IF op \in {"dump_vgpr", "dump_sgpr"} THEN "bits" ELSE "float"
            value(l) == IF op \in {"dump_vgpr", "dump_fvgpr"} THEN val[w][l] ELSE scalar
<1>3. Source(w, op) = [l \in Lanes |-> [value |-> value(l), as |-> as]]
  BY DEF Source
<1>4. as \in {"bits", "float", "junk"}
  OBVIOUS
<1>5. \A l \in Lanes : value(l) \in Int
  <2>. HIDE DEF scalar
  <2>1. QED BY <1>1, <1>2
<1>. HIDE DEF as, value
<1>6. \A l \in Lanes : [value |-> value(l), as |-> as] \in Cell
  BY <1>4, <1>5 DEF Cell
<1>7. QED BY <1>3, <1>6

(* The steps of the macros before and after their work.                      *)
LEMMA BracketSteps ==
  ASSUME DTypes, NEW w \in Waves, SaveExec(w) \/ Pick(w) \/ RestoreExec(w)
  PROVE  /\ \E m \in {"none", "opened", "picked"} : macro' = [macro EXCEPT ![w] = m]
         /\ MaskTypes'
         /\ UNCHANGED <<text, pc, entry, wanted, storeVars>>
<1>1. Matching(w) \in SUBSET Lanes /\ Saved(w) \in SUBSET Lanes /\ dbg_exec[w] \in SUBSET Lanes
  BY DEF DTypes, MaskTypes, Masks, Matching, Saved
<1>2. CASE SaveExec(w)
  <2>1. /\ dbg_exec' = [dbg_exec EXCEPT ![w] = Saved(w)] /\ exec' = [exec EXCEPT ![w] = Lanes]
        /\ UNCHANGED <<text, pc, entry, vcc, wanted, storeVars>>
        /\ macro' = [macro EXCEPT ![w] = "opened"]
    BY <1>2 DEF SaveExec, Reach
  <2>2. MaskTypes'
    BY <1>1, <2>1 DEF DTypes, MaskTypes, Masks
  <2>3. QED BY <2>1, <2>2
<1>3. CASE Pick(w)
  <2>1. /\ vcc' = [vcc EXCEPT ![w] = Matching(w)] /\ exec' = [exec EXCEPT ![w] = Matching(w)]
        /\ UNCHANGED <<text, pc, entry, dbg_exec, wanted, storeVars>>
        /\ macro' = [macro EXCEPT ![w] = "picked"]
    BY <1>3 DEF Pick, Reach
  <2>2. MaskTypes'
    BY <1>1, <2>1 DEF DTypes, MaskTypes, Masks
  <2>3. QED BY <2>1, <2>2
<1>4. CASE RestoreExec(w)
  <2>1. /\ exec' = [exec EXCEPT ![w] = dbg_exec[w]]
        /\ UNCHANGED <<text, pc, entry, vcc, dbg_exec, wanted, storeVars>>
        /\ macro' = [macro EXCEPT ![w] = "none"]
    BY <1>4 DEF RestoreExec, Reach
  <2>2. MaskTypes'
    BY <1>1, <2>1 DEF DTypes, MaskTypes, Masks
  <2>3. QED BY <2>1, <2>2
<1>5. QED BY <1>2, <1>3, <1>4

LEMMA EnterTypes ==
  ASSUME DTypes, NEW w \in Waves, Enter(w)
  PROVE  DTypes'
<1>1. Waves \subseteq Nat /\ me \in Waves
  BY DebugAssumption DEF me
<1>2. PICK lanes \in {Lanes, {0}}, junk \in {debug_wid, -1} :
        /\ entry' = [entry EXCEPT ![w] = lanes]
        /\ exec' = [exec EXCEPT ![w] = lanes]
        /\ wanted' = [wanted EXCEPT ![w] = lanes]
        /\ dbg_wave_id' = [dbg_wave_id EXCEPT ![w] =
             [l \in Lanes |-> IF l \in lanes THEN w ELSE junk]]
  BY DEF Enter
<1>3. lanes \in SUBSET Lanes
  BY DebugAssumption DEF Lanes
<1>4. /\ UNCHANGED <<text, pc, vcc, dbg_exec, val, dbg, dbg_ptr, seen>>
      /\ macro' = [macro EXCEPT ![w] = "none"]
  BY DEF Enter, Reach
<1>. DEFINE ids == [l \in Lanes |-> IF l \in lanes THEN w ELSE junk]
<1>5. ids \in [Lanes -> Int] /\ dbg_wave_id' = [dbg_wave_id EXCEPT ![w] = ids]
  BY <1>1, <1>2, DebugAssumption
<1>. HIDE DEF ids
<1>6. dbg_wave_id' \in [Waves -> [Lanes -> Int]]
  BY <1>5 DEF DTypes
<1>7. MaskTypes'
  BY <1>2, <1>3, <1>4 DEF DTypes, MaskTypes, Masks
<1>8. macro' \in [Waves -> {"launch", "none", "opened", "picked", "closing"}]
  BY <1>4 DEF DTypes
<1>9. QED BY <1>4, <1>6, <1>7, <1>8 DEF DTypes

(* What the actions that pass a place of the text have in common.            *)
LEMMA Passes ==
  ASSUME DTypes, NEW w \in Waves, Address(w) \/ KernelStep(w) \/ Dump(w) \/ Store(w)
  PROVE  /\ pc[w] \in Nat /\ pc' = [pc EXCEPT ![w] = pc[w] + 1]
         /\ Address(w) => pc[w] = 0
         /\ ~Address(w) => pc[w] \in Nat \ {0}
         /\ text' = text /\ entry' = entry /\ dbg_wave_id' = dbg_wave_id
         /\ macro[w] \in {"none", "opened", "picked"}
         /\ \E m \in {"none", "closing"} : macro' = [macro EXCEPT ![w] = m]
<1>1. pc[w] \in Nat
  BY DEF DTypes
<1>2. CASE Address(w)
  BY <1>1, <1>2 DEF Address, Advance, Reach
<1>3. CASE KernelStep(w)
  <2>1. At(w, {"step"}) /\ Advance(w) /\ UNCHANGED <<text, macro, entry, dbg_wave_id>>
        /\ macro[w] = "none"
    BY <1>3 DEF KernelStep
  <2>2. macro' = [macro EXCEPT ![w] = "none"]
    BY <2>1 DEF DTypes
  <2>3. pc[w] \in Nat \ {0} /\ pc' = [pc EXCEPT ![w] = pc[w] + 1]
    BY <2>1, AtFacts DEF Advance
  <2>4. ~Address(w)
    BY <2>1 DEF Address
  <2>5. QED BY <2>1, <2>2, <2>3, <2>4
<1>4. CASE Dump(w)
  <2>1. At(w, Dumps) /\ Advance(w) /\ Reach(w, "closing") /\ macro[w] = "opened"
        /\ UNCHANGED <<text, entry, dbg_wave_id>>
    BY <1>4 DEF Dump, maskVars
  <2>2. pc[w] \in Nat \ {0} /\ pc' = [pc EXCEPT ![w] = pc[w] + 1]
    BY <2>1, AtFacts DEF Advance
  <2>3. ~Address(w)
    BY <2>2 DEF Address
  <2>4. QED BY <2>1, <2>2, <2>3 DEF Reach
<1>5. CASE Store(w)
  <2>1. At(w, {"dbg_store"}) /\ Advance(w) /\ Reach(w, "closing") /\ macro[w] = "picked"
        /\ UNCHANGED <<text, entry, dbg_wave_id>>
    BY <1>5 DEF Store
  <2>2. pc[w] \in Nat \ {0} /\ pc' = [pc EXCEPT ![w] = pc[w] + 1]
    BY <2>1, AtFacts DEF Advance
  <2>3. ~Address(w)
    BY <2>2 DEF Address
  <2>4. QED BY <2>1, <2>2, <2>3 DEF Reach
<1>6. QED BY <1>2, <1>3, <1>4, <1>5

LEMMA TypesKept ==
  ASSUME DTypes, NEW w \in Waves, WaveStep(w)
  PROVE  DTypes'
<1>1. CASE Enter(w)
  BY <1>1, EnterTypes
<1>2. CASE SaveExec(w) \/ Pick(w) \/ RestoreExec(w)
  <2>1. PICK m \in {"none", "opened", "picked"} : macro' = [macro EXCEPT ![w] = m]
    BY <1>2, BracketSteps
  <2>2. macro' \in [Waves -> {"launch", "none", "opened", "picked", "closing"}]
    BY <2>1 DEF DTypes
  <2>3. MaskTypes' /\ UNCHANGED <<text, pc, val, dbg, dbg_ptr, dbg_wave_id, seen>>
    BY <1>2, BracketSteps DEF storeVars
  <2>4. QED BY <2>2, <2>3 DEF DTypes
<1>3. CASE Address(w) \/ KernelStep(w) \/ Dump(w) \/ Store(w)
  <2>0. /\ text' = text /\ dbg_wave_id' = dbg_wave_id
        /\ pc[w] \in Nat /\ pc' = [pc EXCEPT ![w] = pc[w] + 1]
        /\ \E m \in {"none", "closing"} : macro' = [macro EXCEPT ![w] = m]
    BY <1>3, Passes
  <2>1. /\ text' = text /\ dbg_wave_id' = dbg_wave_id
        /\ pc' \in [Waves -> Nat]
        /\ macro' \in [Waves -> {"launch", "none", "opened", "picked", "closing"}]
    BY <2>0 DEF DTypes
  <2>2. CASE Address(w)
    <3>. DEFINE new == [l \in Lanes |-> IF l \in exec[w] THEN l ELSE dbg_ptr[w][l]]
    <3>1. dbg_ptr' = [dbg_ptr EXCEPT ![w] = new]
      BY <2>2 DEF Address, DTypes
    <3>2. new \in [Lanes -> Int]
      <4>1. \A l \in Lanes : dbg_ptr[w][l] \in Int
        BY DEF DTypes
      <4>2. \A l \in Lanes : l \in Int
        BY DEF Lanes
      <4>3. QED BY <4>1, <4>2
    <3>. HIDE DEF new
    <3>3. dbg_ptr' \in [Waves -> [Lanes -> Int]]
      BY <3>1, <3>2 DEF DTypes
    <3>4. MaskTypes' /\ UNCHANGED <<val, dbg, seen>>
      BY <2>2 DEF Address, DTypes, MaskTypes, Masks
    <3>5. QED BY <2>1, <3>3, <3>4 DEF DTypes
  <2>3. CASE KernelStep(w)
    <3>1. PICK lanes \in (SUBSET entry[w]) \ {{}} :
            /\ exec' = [exec EXCEPT ![w] = lanes]
            /\ vcc' = [vcc EXCEPT ![w] = lanes]
            /\ wanted' = [wanted EXCEPT ![w] = lanes]
      BY <2>3 DEF KernelStep
    <3>2. lanes \in SUBSET Lanes /\ UNCHANGED <<entry, dbg_exec, dbg, dbg_ptr, seen>>
      BY <2>3 DEF KernelStep, DTypes, MaskTypes, Masks
    <3>3. MaskTypes'
      BY <3>1, <3>2 DEF DTypes, MaskTypes, Masks
    <3>. DEFINE new == [l \in Lanes |-> IF l \in exec[w] THEN pc[w] ELSE val[w][l]]
    <3>4. new \in [Lanes -> Int]
      BY DEF DTypes
    <3>5. val' = [val EXCEPT ![w] = new]
      BY <2>3 DEF KernelStep, DTypes
    <3>. HIDE DEF new
    <3>6. val' \in [Waves -> [Lanes -> Int]]
      BY <3>4, <3>5 DEF DTypes
    <3>7. QED BY <2>1, <3>2, <3>3, <3>6 DEF DTypes
  <2>4. CASE Dump(w)
    <3>. DEFINE r == dbg_i(pc[w])
                source == Source(w, text[pc[w]])
                new == [l \in Lanes |-> IF l \in exec[w] THEN source[l] ELSE dbg[w][r][l]]
    <3>1. pc[w] \in Nat \ {0}
      BY <2>4, AtFacts DEF Dump
    <3>2. source \in [Lanes -> Cell]
      BY <3>1, SourceType
    <3>3. r \in Rows
      <4>1. DumpsBefore(pc[w]) \in Nat
        BY <3>1, Passed DEF DumpsBefore, DumpsIn, CountIn
      <4>2. QED BY <4>1, DebugAssumption DEF Rows, dbg_i
    <3>4. dbg' = [dbg EXCEPT ![w][r] = new]
      BY <2>4, <3>3 DEF Dump, DTypes
    <3>5. seen' = [seen EXCEPT ![w] = Append(seen[w], source)]
      BY <2>4 DEF Dump, DTypes
    <3>6. new \in [Lanes -> Cell]
      <4>. HIDE DEF source, r
      <4>1. \A l \in Lanes : dbg[w][r][l] \in Cell /\ source[l] \in Cell
        BY <3>2, <3>3 DEF DTypes
      <4>2. QED BY <4>1
    <3>. HIDE DEF new, r, source
    <3>7. dbg' \in [Waves -> [Rows -> [Lanes -> Cell]]]
      BY <3>3, <3>4, <3>6 DEF DTypes
    <3>8. Append(seen[w], source) \in Seq([Lanes -> Cell])
      BY <3>2 DEF DTypes
    <3>9. seen' \in [Waves -> Seq([Lanes -> Cell])]
      BY <3>5, <3>8 DEF DTypes
    <3>10. MaskTypes' /\ UNCHANGED <<val, dbg_ptr>>
      BY <2>4 DEF Dump, DTypes, MaskTypes, maskVars
    <3>11. QED BY <2>1, <3>7, <3>9, <3>10 DEF DTypes
  <2>5. CASE Store(w)
    <3>. DEFINE new == [l \in Lanes |-> IF l \in exec[w] THEN dbg_ptr[w][l] + Width * Ring
                                                         ELSE dbg_ptr[w][l]]
    <3>1. dbg_ptr' = [dbg_ptr EXCEPT ![w] = new]
      BY <2>5 DEF Store, DTypes
    <3>2. new \in [Lanes -> Int]
      <4>1. Width * Ring \in Int
        BY DebugAssumption
      <4>2. \A l \in Lanes : dbg_ptr[w][l] \in Int
        BY DEF DTypes
      <4>3. QED BY <4>1, <4>2
    <3>. HIDE DEF new
    <3>3. dbg_ptr' \in [Waves -> [Lanes -> Int]]
      BY <3>1, <3>2 DEF DTypes
    <3>4. MaskTypes' /\ UNCHANGED <<val, dbg, seen>>
      BY <2>5 DEF Store, DTypes, MaskTypes, Masks
    <3>5. QED BY <2>1, <3>3, <3>4 DEF DTypes
  <2>6. QED BY <1>3, <2>2, <2>3, <2>4, <2>5
<1>4. QED BY <1>1, <1>2, <1>3 DEF WaveStep

(* vcc is in use behind a place if it was before it and the place is a dump; *)
(* it never is behind a dbg_store.                                           *)
LEMMA VccPasses ==
  ASSUME DTypes, NEW w \in Waves, Address(w) \/ Dump(w) \/ Store(w), VccInUse(w)'
  PROVE  Dump(w) /\ VccInUse(w)
<1>1. pc[w] \in Nat /\ pc'[w] = pc[w] + 1 /\ text' = text
  BY Passes DEF DTypes
<1>2. PICK k \in 1 .. pc[w] : text[k] = "step" /\ \A j \in k .. pc[w] : text[j] # "dbg_store"
  <2>1. pc'[w] - 1 = pc[w]
    BY <1>1
  <2>2. QED BY <1>1, <2>1 DEF VccInUse
<1>3. CASE Address(w)
  BY <1>2, <1>3 DEF Address
<1>4. CASE Store(w)
  <2>1. text[pc[w]] = "dbg_store" /\ pc[w] \in k .. pc[w]
    BY <1>1, <1>2, <1>4 DEF Store, At
  <2>2. QED BY <1>2, <2>1
<1>5. CASE Dump(w)
  <2>1. text[pc[w]] \in Dumps
    BY <1>5 DEF Dump, At
  <2>2. k # pc[w]
    BY <1>2, <2>1 DEF Dumps
  <2>3. k \in 1 .. pc[w] - 1 /\ \A j \in k .. pc[w] - 1 : j \in k .. pc[w]
    BY <1>1, <2>2
  <2>4. QED BY <1>2, <1>5, <2>3 DEF VccInUse
<1>6. QED BY <1>3, <1>4, <1>5

(* The invariant of the masks, for the wave that takes the step.             *)
LEMMA MaskedStep ==
  ASSUME DumpInv, NEW w \in Waves, WaveStep(w)
  PROVE  Masked(w)'
<1>0. DTypes /\ Masked(w)
  BY DEF DumpInv, AllMasked
<1>1. CASE Enter(w)
  <2>1. /\ macro'[w] = "none" /\ exec'[w] = wanted'[w] /\ pc'[w] = 0
    BY <1>0, <1>1 DEF Enter, Reach, Masked, DTypes, MaskTypes, Masks
  <2>2. ~VccInUse(w)'
    BY <2>1 DEF VccInUse
  <2>3. QED BY <2>1, <2>2 DEF Masked
<1>2. CASE KernelStep(w)
  <2>1. macro'[w] = "none" /\ exec'[w] = wanted'[w] /\ vcc'[w] = wanted'[w]
    BY <1>0, <1>2 DEF KernelStep, DTypes, MaskTypes, Masks
  <2>2. QED BY <2>1 DEF Masked
<1>3. CASE SaveExec(w)
  <2>1. /\ macro[w] = "none" /\ macro'[w] = "opened" /\ dbg_exec'[w] = exec[w]
        /\ exec'[w] = Lanes /\ vcc' = vcc /\ wanted' = wanted /\ text' = text /\ pc' = pc
    BY <1>0, <1>3 DEF SaveExec, Reach, Saved, DTypes, MaskTypes, Masks
  <2>2. VccInUse(w)' => VccInUse(w)
    BY <2>1 DEF VccInUse
  <2>3. QED BY <1>0, <2>1, <2>2 DEF Masked
<1>4. CASE Pick(w)
  <2>1. /\ macro[w] = "opened" /\ macro'[w] = "picked" /\ dbg_exec' = dbg_exec
        /\ exec'[w] = Matching(w) /\ wanted' = wanted /\ dbg_wave_id' = dbg_wave_id
    BY <1>0, <1>4 DEF Pick, Reach, DTypes, MaskTypes, Masks, storeVars
  <2>2. Matching(w) = Storing(w)
    BY <1>0, <2>1 DEF Masked, Matching, Storing
  <2>3. Storing(w)' = Storing(w)
    BY <2>1 DEF Storing
  <2>4. QED BY <1>0, <2>1, <2>2, <2>3 DEF Masked
<1>5. CASE RestoreExec(w)
  <2>1. /\ macro[w] = "closing" /\ macro'[w] = "none" /\ exec'[w] = dbg_exec[w]
        /\ vcc' = vcc /\ wanted' = wanted /\ text' = text /\ pc' = pc
    BY <1>0, <1>5 DEF RestoreExec, Reach, DTypes, MaskTypes, Masks
  <2>2. VccInUse(w)' => VccInUse(w)
    BY <2>1 DEF VccInUse
  <2>3. QED BY <1>0, <2>1, <2>2 DEF Masked
<1>6. CASE Address(w) \/ Dump(w) \/ Store(w)
  <2>1. /\ macro[w] \in {"opened", "picked"} /\ macro'[w] = "closing"
        /\ dbg_exec' = dbg_exec /\ wanted' = wanted
        /\ Dump(w) => macro[w] = "opened" /\ vcc' = vcc
    BY <1>0, <1>6 DEF Address, Dump, Store, Reach, DTypes, maskVars
  <2>2. VccInUse(w)' => Dump(w) /\ VccInUse(w)
    BY <1>0, <1>6, VccPasses
  <2>3. QED BY <1>0, <2>1, <2>2 DEF Masked
<1>7. QED BY <1>1, <1>2, <1>3, <1>4, <1>5, <1>6 DEF WaveStep

(* A step of one wave leaves the registers of the others.                    *)
LEMMA OthersKeep ==
  ASSUME DTypes, NEW w \in Waves, WaveStep(w), NEW v \in Waves, v # w
  PROVE  /\ text' = text
         /\ pc'[v] = pc[v] /\ macro'[v] = macro[v]
         /\ entry'[v] = entry[v] /\ exec'[v] = exec[v] /\ vcc'[v] = vcc[v]
         /\ dbg_exec'[v] = dbg_exec[v] /\ wanted'[v] = wanted[v]
         /\ dbg_wave_id'[v] = dbg_wave_id[v]
<1>1. CASE Enter(w)
  BY <1>1 DEF Enter, Reach, DTypes, MaskTypes, Masks
<1>2. CASE KernelStep(w)
  BY <1>2 DEF KernelStep, Advance, DTypes, MaskTypes, Masks
<1>3. CASE SaveExec(w) \/ RestoreExec(w) \/ Pick(w)
  BY <1>3 DEF SaveExec, RestoreExec, Pick, Reach, DTypes, MaskTypes, Masks, storeVars
<1>4. CASE Address(w)
  BY <1>4 DEF Address, Advance, Reach, DTypes, MaskTypes, Masks
<1>5. CASE Dump(w)
  BY <1>5 DEF Dump, Advance, Reach, DTypes, MaskTypes, Masks, maskVars
<1>6. CASE Store(w)
  BY <1>6 DEF Store, Advance, Reach, DTypes, MaskTypes, Masks
<1>7. QED BY <1>1, <1>2, <1>3, <1>4, <1>5, <1>6 DEF WaveStep

(* What the debugger changes of exec, it puts back; and a wave gets its      *)
(* number once.                                                              *)
LEMMA Simple ==
  ASSUME DumpInv, NEW w \in Waves, WaveStep(w)
  PROVE  AllMasked' /\ Numbered'
<1>0. DTypes
  BY DEF DumpInv
<1>1. ASSUME NEW v \in Waves
      PROVE  Masked(v)'
  <2>1. CASE v = w
    BY <2>1, MaskedStep
  <2>2. CASE v # w
    <3>1. Masked(v)
      BY DEF DumpInv, AllMasked
    <3>2. /\ text' = text /\ pc'[v] = pc[v] /\ macro'[v] = macro[v] /\ exec'[v] = exec[v]
          /\ vcc'[v] = vcc[v] /\ dbg_exec'[v] = dbg_exec[v] /\ wanted'[v] = wanted[v]
          /\ dbg_wave_id'[v] = dbg_wave_id[v]
      BY <1>0, <2>2, OthersKeep
    <3>3. VccInUse(v)' = VccInUse(v) /\ Storing(v)' = Storing(v)
      BY <3>2 DEF VccInUse, Storing
    <3>4. QED BY <3>1, <3>2, <3>3 DEF Masked
  <2>3. QED BY <2>1, <2>2
<1>2. ASSUME NEW v \in Waves, macro'[v] # "launch", NEW l \in entry'[v]
      PROVE  dbg_wave_id'[v][l] = v
  <2>1. CASE v # w
    BY <1>0, <1>2, <2>1, OthersKeep DEF DumpInv, Numbered
  <2>2. CASE v = w /\ Enter(w)
    <3>1. PICK lanes, junk :
            /\ entry' = [entry EXCEPT ![w] = lanes]
            /\ dbg_wave_id' = [dbg_wave_id EXCEPT ![w] =
                 [k \in Lanes |-> IF k \in lanes THEN w ELSE junk]]
            /\ lanes \in {Lanes, {0}}
      BY <2>2 DEF Enter
    <3>2. lanes \subseteq Lanes
      BY <3>1, DebugAssumption DEF Lanes
    <3>. DEFINE ids == [k \in Lanes |-> IF k \in lanes THEN w ELSE junk]
    <3>3. \A k \in lanes : ids[k] = w
      BY <3>2
    <3>4. dbg_wave_id' = [dbg_wave_id EXCEPT ![w] = ids]
      BY <3>1
    <3>. HIDE DEF ids
    <3>5. dbg_wave_id'[w] = ids /\ entry'[w] = lanes
      BY <1>0, <3>1, <3>4 DEF DTypes, MaskTypes, Masks
    <3>6. QED BY <1>2, <2>2, <3>3, <3>5
  <2>3. CASE v = w /\ ~Enter(w)
    <3>1. entry' = entry /\ dbg_wave_id' = dbg_wave_id
      BY <1>0, <2>3, BracketSteps, Passes DEF WaveStep, storeVars
    <3>2. macro[w] # "launch"
      BY <2>3 DEF WaveStep, KernelStep, SaveExec, Address, Dump, Pick, Store, RestoreExec
    <3>3. QED BY <1>2, <2>3, <3>1, <3>2 DEF DumpInv, Numbered
  <2>4. QED BY <2>1, <2>2, <2>3
<1>3. QED BY <1>1, <1>2 DEF AllMasked, Numbered

(* A wave that is in the text now was full before if it is now.              *)
LEMMA FullBefore ==
  ASSUME DTypes, AllMasked, NEW w \in Waves, WaveStep(w), Full'
  PROVE  Full
<1>1. SUFFICES ASSUME NEW v \in Waves \ {me}, pc[v] > 0
               PROVE  entry[v] = Lanes
  BY DEF Full
<1>2. CASE v # w
  <2>1. pc'[v] = pc[v] /\ entry'[v] = entry[v]
    BY <1>2, OthersKeep
  <2>2. QED BY <1>1, <2>1 DEF Full
<1>3. CASE v = w
  <2>1. CASE Enter(w)
    <3>1. pc[w] = 0
      BY <2>1 DEF Enter, AllMasked, Masked
    <3>2. QED BY <1>1, <1>3, <3>1
  <2>2. CASE SaveExec(w) \/ Pick(w) \/ RestoreExec(w)
    BY <1>1, <2>2, BracketSteps DEF Full
  <2>3. CASE Address(w) \/ KernelStep(w) \/ Dump(w) \/ Store(w)
    <3>1. pc'[w] = pc[w] + 1 /\ entry' = entry /\ pc[w] \in Nat
      BY <2>3, Passes DEF DTypes
    <3>2. pc'[w] > 0
      BY <3>1
    <3>3. QED BY <1>1, <1>3, <3>1, <3>2 DEF Full
  <2>4. QED BY <2>1, <2>2, <2>3 DEF WaveStep
<1>4. QED BY <1>2, <1>3

\* A step that leaves what the wanted wave has dumped and stored.
QuietStep ==
  /\ text' = text /\ seen'[me] = seen[me] /\ dbg'[me] = dbg[me]
  /\ dbg_ptr'[me] = dbg_ptr[me] /\ dbg_wave_id'[me] = dbg_wave_id[me]
  /\ entry'[me] = entry[me]
  /\ \/ pc'[me] = pc[me]
     \/ pc[me] > 0 /\ text[pc[me]] = "step" /\ pc'[me] = pc[me] + 1
  /\ Full' => /\ Full
              /\ DOMAIN buffer' = DOMAIN buffer
              /\ \A a \in DOMAIN buffer : buffer'[a] = buffer[a]

LEMMA QuietKeeps ==
  ASSUME DumpInv, QuietStep
  PROVE  Counted' /\ RingHolds' /\ Blocks'
<1>1. me \in Waves /\ pc[me] \in Nat
  BY DebugAssumption DEF me, DumpInv, DTypes
<1>2. CASE pc'[me] = pc[me]
  <2>1. Counted'
    BY <1>2 DEF QuietStep, DumpInv, Counted
  <2>2. QED BY <1>2, <2>1 DEF QuietStep, DumpInv, RingHolds, Blocks, Block
<1>3. CASE pc[me] > 0 /\ text[pc[me]] = "step" /\ pc'[me] = pc[me] + 1
  <2>1. pc[me] \in Nat \ {0}
    BY <1>1, <1>3
  <2>2. /\ DumpsIn(text, pc[me] + 1) = DumpsIn(text, pc[me])
        /\ StoresIn(text, pc[me] + 1) = StoresIn(text, pc[me])
    BY <1>3, <2>1, Passed
  <2>3. Counted'
    <3>1. /\ Len(seen[me]) = DumpsIn(text, pc'[me])
          /\ \A l \in Lanes : dbg_wave_id[me][l] = me =>
               dbg_ptr[me][l] = l + Width * (Ring * StoresIn(text, pc'[me]))
          /\ pc'[me] > 0
      BY <1>3, <2>1, <2>2 DEF DumpInv, Counted
    <3>2. QED BY <1>1, <3>1, <1>3 DEF QuietStep, Counted
  <2>4. RingHolds'
    BY DEF QuietStep, DumpInv, RingHolds
  <2>5. Blocks'
    <3>1. \A k \in 1 .. pc'[me] - 1 : text[k] = "dbg_store" => k \in 1 .. pc[me] - 1
      BY <1>3, <2>1
    <3>2. QED BY <3>1 DEF QuietStep, DumpInv, Blocks, Block
  <2>6. QED BY <2>3, <2>4, <2>5
<1>4. QED BY <1>2, <1>3 DEF QuietStep

(* What dbg_store does to the buffer.                                        *)
LEMMA Stores ==
  ASSUME AllMasked, NEW w \in Waves, Store(w)
  PROVE  /\ exec[w] = Storing(w)
         /\ \A l \in Storing(w), row \in Rows : RowAddress(w, l, row) \in Written(w)
         /\ Storing(w) = {} => Written(w) = {}
         /\ DOMAIN buffer' = DOMAIN buffer \cup Written(w)
         /\ \A a \in DOMAIN buffer \cup Written(w) :
              a \notin Written(w) => buffer'[a] = buffer[a]
         /\ \A a \in Written(w) :
              \E l \in Storing(w), row \in Rows :
                /\ RowAddress(w, l, row) = a
                /\ buffer'[a] = dbg[w][(a - dbg_ptr[w][l]) \div Width][l]
<1>0. exec[w] = Storing(w)
  BY DEF Store, AllMasked, Masked
<1>1. buffer' = [a \in DOMAIN buffer \cup Written(w) |->
                   IF a \in Written(w) THEN StoredAt(w, a) ELSE buffer[a]]
  BY DEF Store
<1>2. ASSUME NEW a \in Written(w)
      PROVE  \E l \in Storing(w), row \in Rows :
               /\ RowAddress(w, l, row) = a
               /\ StoredAt(w, a) = dbg[w][(a - dbg_ptr[w][l]) \div Width][l]
  <2>. DEFINE writer == CHOOSE l \in exec[w] : \E row \in Rows : RowAddress(w, l, row) = a
  <2>1. \E l \in exec[w] : \E row \in Rows : RowAddress(w, l, row) = a
    BY DEF Written
  <2>2. writer \in exec[w] /\ \E row \in Rows : RowAddress(w, writer, row) = a
    BY <2>1
  <2>3. StoredAt(w, a) = dbg[w][(a - dbg_ptr[w][writer]) \div Width][writer]
    BY DEF StoredAt
  <2>. HIDE DEF writer
  <2>4. QED BY <1>0, <2>2, <2>3
<1>3. /\ \A l \in Storing(w), row \in Rows : RowAddress(w, l, row) \in Written(w)
      /\ Storing(w) = {} => Written(w) = {}
  BY <1>0 DEF Written
<1>4. QED BY <1>0, <1>1, <1>2, <1>3

LEMMA QuietSteps ==
  ASSUME DumpInv, NEW w \in Waves,
         \/ KernelStep(w) \/ SaveExec(w) \/ Pick(w) \/ RestoreExec(w)
         \/ w # me /\ (Enter(w) \/ Address(w) \/ Dump(w) \/ Store(w))
  PROVE  QuietStep
<1>0. DTypes /\ AllMasked /\ me \in Waves /\ w \in Nat
  BY DebugAssumption DEF DumpInv, me
<1>1. WaveStep(w) /\ (Full' => Full)
  <2>1. WaveStep(w)
    BY DEF WaveStep
  <2>2. QED BY <1>0, <2>1, FullBefore
<1>2. CASE KernelStep(w)
  <2>1. pc[w] \in Nat \ {0} /\ text[pc[w]] = "step"
    BY <1>0, <1>2, AtFacts DEF KernelStep
  <2>2. /\ pc' = [pc EXCEPT ![w] = pc[w] + 1]
        /\ UNCHANGED <<text, entry, dbg, dbg_ptr, dbg_wave_id, buffer, seen>>
    BY <1>0, <1>2 DEF KernelStep, Advance, DTypes
  <2>3. QED BY <1>0, <1>1, <2>1, <2>2 DEF QuietStep, DTypes
<1>3. CASE SaveExec(w) \/ Pick(w) \/ RestoreExec(w)
  <2>1. UNCHANGED <<text, pc, entry, dbg, dbg_ptr, dbg_wave_id, buffer, seen>>
    BY <1>0, <1>3, BracketSteps DEF storeVars
  <2>2. QED BY <1>1, <2>1 DEF QuietStep
<1>4. CASE w # me /\ (Enter(w) \/ Address(w) \/ Dump(w) \/ Store(w))
  <2>0. /\ text' = text /\ pc'[me] = pc[me] /\ entry'[me] = entry[me]
        /\ dbg_wave_id'[me] = dbg_wave_id[me]
    BY <1>0, <1>1, <1>4, OthersKeep
  <2>1. CASE Enter(w)
    BY <1>1, <2>0, <2>1 DEF Enter, QuietStep
  <2>2. CASE Address(w)
    <3>1. \E y : dbg_ptr' = [dbg_ptr EXCEPT ![w] = y]
      BY <2>2 DEF Address
    <3>2. dbg_ptr'[me] = dbg_ptr[me] /\ UNCHANGED <<dbg, buffer, seen>>
      BY <1>0, <1>4, <2>2, <3>1 DEF Address, DTypes
    <3>3. QED BY <1>1, <2>0, <3>2 DEF QuietStep
  <2>3. CASE Dump(w)
    <3>1. \E r, x : dbg' = [dbg EXCEPT ![w][r] = x]
      BY <2>3 DEF Dump
    <3>2. \E y : seen' = [seen EXCEPT ![w] = y]
      BY <2>3 DEF Dump
    <3>3. dbg'[me] = dbg[me] /\ seen'[me] = seen[me] /\ UNCHANGED <<dbg_ptr, buffer>>
      BY <1>0, <1>4, <2>3, <3>1, <3>2 DEF Dump, DTypes
    <3>4. QED BY <1>1, <2>0, <3>3 DEF QuietStep
  <2>4. CASE Store(w)
    <3>1. ASSUME Full'
          PROVE  Storing(w) = {}
      <4>1. pc[w] \in Nat \ {0} /\ macro[w] = "picked"
        BY <1>0, <2>4, AtFacts DEF Store
      <4>2. entry[w] = Lanes
        BY <1>1, <1>4, <3>1, <4>1 DEF Full
      <4>3. \A l \in Lanes : dbg_wave_id[w][l] = w
        BY <4>1, <4>2 DEF DumpInv, Numbered
      <4>4. QED BY <1>4, <4>3 DEF me, Storing
    <3>2. /\ DOMAIN buffer' = DOMAIN buffer \cup Written(w)
          /\ \A a \in DOMAIN buffer \cup Written(w) :
               a \notin Written(w) => buffer'[a] = buffer[a]
          /\ Storing(w) = {} => Written(w) = {}
      BY <1>0, <2>4, Stores
    <3>3. Full' => /\ DOMAIN buffer' = DOMAIN buffer
                   /\ \A a \in DOMAIN buffer : buffer'[a] = buffer[a]
      BY <3>1, <3>2
    <3>4. \E y : dbg_ptr' = [dbg_ptr EXCEPT ![w] = y]
      BY <2>4 DEF Store
    <3>5. dbg_ptr'[me] = dbg_ptr[me] /\ UNCHANGED <<dbg, seen>>
      BY <1>0, <1>4, <2>4, <3>4 DEF Store, DTypes
    <3>6. QED BY <1>1, <2>0, <3>3, <3>5 DEF QuietStep
  <2>5. QED BY <1>4, <2>1, <2>2, <2>3, <2>4
<1>5. QED BY <1>2, <1>3, <1>4

(* The wanted wave starts, and enters the text: it has dumped and stored     *)
(* nothing.                                                                  *)
LEMMA EnterMe ==
  ASSUME DumpInv, Enter(me) \/ Address(me)
  PROVE  Counted' /\ RingHolds' /\ Blocks'
<1>0. DTypes /\ me \in Waves /\ me \in Nat /\ Masked(me)
  BY DebugAssumption DEF DumpInv, AllMasked, me
<1>1. pc[me] = 0 /\ pc'[me] \in {0, 1} /\ seen' = seen /\ dbg' = dbg /\ text' = text
  BY <1>0 DEF Enter, Address, Advance, Masked, DTypes
<1>2. Len(seen[me]) = 0
  BY <1>1 DEF DumpInv, Counted
<1>3. DumpsIn(text, 1) = 0 /\ StoresIn(text, 1) = 0
  BY NonePassed
<1>4. pc'[me] = 1 => \A l \in Lanes : dbg_ptr'[me][l] = l
  <2>1. CASE Enter(me)
    BY <1>0, <2>1 DEF Enter, Masked
  <2>2. CASE Address(me)
    <3>1. exec[me] = Lanes
      BY <1>0, <2>2 DEF Address, Masked
    <3>2. dbg_ptr' = [dbg_ptr EXCEPT ![me] =
                       [l \in Lanes |-> IF l \in exec[me] THEN l ELSE dbg_ptr[me][l]]]
      BY <1>0, <2>2 DEF Address, DTypes
    <3>3. QED BY <1>0, <3>1, <3>2 DEF DTypes
  <2>3. QED BY <2>1, <2>2
<1>5. \A l \in Lanes : l = l + Width * (Ring * 0)
  BY DebugAssumption DEF Lanes
<1>6. Counted'
  <2>1. CASE pc'[me] = 0
    BY <1>1, <1>2, <2>1 DEF Counted
  <2>2. CASE pc'[me] = 1
    BY <1>1, <1>2, <1>3, <1>4, <1>5, <2>2 DEF Counted
  <2>3. QED BY <1>1, <2>1, <2>2
<1>7. RingHolds'
  BY <1>1 DEF DumpInv, RingHolds
<1>8. Blocks'
  <2>1. 1 .. pc'[me] - 1 = {}
    BY <1>1
  <2>2. QED BY <2>1 DEF Blocks
<1>9. QED BY <1>6, <1>7, <1>8

(* A dump changes what no register of an earlier count holds.                *)
LEMMA HeldKept ==
  ASSUME NEW found \in Seq([Lanes -> Cell]), NEW more,
         NEW row \in Rows, NEW l \in Lanes, NEW m \in 0 .. Len(found)
  PROVE  Held(Append(found, more), row, l, m) = Held(found, row, l, m)
<1>1. LastInto(row, m) \in 0 .. m /\ Len(found) \in Nat
  BY LastIntoNext
<1>2. \A d \in 1 .. Len(found) : Append(found, more)[d] = found[d]
  OBVIOUS
<1>3. LastInto(row, m) # 0 => LastInto(row, m) \in 1 .. Len(found)
  BY <1>1
<1>4. QED BY <1>2, <1>3 DEF Held

(* The wanted wave dumps into the next register of the ring.                 *)
LEMMA DumpMe ==
  ASSUME DumpInv, Dump(me)
  PROVE  Counted' /\ RingHolds' /\ Blocks'
<1>0. DTypes /\ AllMasked /\ me \in Waves
  BY DebugAssumption DEF DumpInv, me
<1>. DEFINE p == pc[me]
            m == Len(seen[me])
            source == Source(me, text[p])
            r == m % Ring
<1>1. p \in Nat \ {0} /\ text[p] \in Dumps
  BY <1>0, AtFacts DEF Dump
<1>2. pc'[me] = p + 1 /\ text' = text /\ entry' = entry /\ dbg_wave_id' = dbg_wave_id
  BY <1>0, Passes DEF DTypes
<1>3. m = DumpsIn(text, p) /\ m \in Nat
  BY <1>0, <1>1 DEF DumpInv, Counted, DTypes
<1>4. dbg_i(p) = r
  BY <1>3 DEF dbg_i, DumpsBefore, DumpsIn, CountIn
<1>5. r \in Rows
  BY <1>3, DebugAssumption DEF Rows
<1>6. source \in [Lanes -> Cell]
  BY <1>0, <1>1, SourceType
<1>7. /\ seen'[me] = Append(seen[me], source)
      /\ \A row \in Rows, l \in Lanes :
           dbg'[me][row][l] = IF row = r THEN source[l] ELSE dbg[me][row][l]
  <2>. DEFINE s == Source(me, text[pc[me]])
              new == [l \in Lanes |-> IF l \in exec[me] THEN s[l]
                                      ELSE dbg[me][dbg_i(pc[me])][l]]
  <2>1. dbg' = [dbg EXCEPT ![me][dbg_i(pc[me])] = new]
    BY <1>0, <1>4, <1>5 DEF Dump, DTypes
  <2>2. seen' = [seen EXCEPT ![me] = Append(seen[me], s)]
    BY DEF Dump
  <2>3. \A l \in Lanes : new[l] = s[l]
    <3>1. exec[me] = Lanes
      BY <1>0 DEF Dump, AllMasked, Masked
    <3>2. QED BY <3>1
  <2>4. s = source
    OBVIOUS
  <2>. HIDE DEF s, source, new, r
  <2>5. dbg' = [dbg EXCEPT ![me][r] = new]
    BY <1>4, <2>1
  <2>6. QED BY <1>0, <1>5, <2>2, <2>3, <2>4, <2>5 DEF DTypes
<1>8. dbg_ptr' = dbg_ptr /\ buffer' = buffer
  BY DEF Dump
<1>. HIDE DEF source
<1>9. /\ DumpsIn(text, p + 1) = m + 1 /\ StoresIn(text, p + 1) = StoresIn(text, p)
      /\ Len(seen'[me]) = m + 1
  <2>1. seen[me] \in Seq([Lanes -> Cell])
    BY <1>0 DEF DTypes
  <2>2. QED BY <1>1, <1>3, <1>6, <1>7, <2>1, Passed
<1>10. Counted'
  <2>1. \A l \in Lanes : dbg_wave_id[me][l] = me =>
          dbg_ptr[me][l] = l + Width * (Ring * StoresIn(text, p))
    BY <1>1 DEF DumpInv, Counted
  <2>2. p + 1 > 0
    BY <1>1
  <2>. HIDE DEF p, m
  <2>3. QED BY <1>2, <1>8, <1>9, <2>1, <2>2 DEF Counted
<1>11. ASSUME NEW row \in Rows, NEW l \in Lanes
       PROVE  dbg'[me][row][l] = Held(seen'[me], row, l, m + 1)
  <2>1. seen[me] \in Seq([Lanes -> Cell])
    BY <1>0 DEF DTypes
  <2>2. CASE row = r
    <3>1. LastInto(row, m + 1) = m + 1 /\ m + 1 # 0
      BY <1>3, <2>2, LastIntoNext
    <3>2. seen'[me][m + 1] = source
      BY <1>6, <1>7, <2>1
    <3>3. dbg'[me][row][l] = source[l]
      BY <1>7, <2>2
    <3>. HIDE DEF m
    <3>4. QED BY <3>1, <3>2, <3>3 DEF Held
  <2>3. CASE row # r
    <3>1. LastInto(row, m + 1) = LastInto(row, m)
      BY <1>3, <2>3, LastIntoNext
    <3>2. Held(seen'[me], row, l, m) = Held(seen[me], row, l, m)
      BY <1>3, <1>7, <2>1, HeldKept
    <3>3. dbg[me][row][l] = Held(seen[me], row, l, m)
      BY DEF DumpInv, RingHolds
    <3>4. dbg'[me][row][l] = dbg[me][row][l]
      BY <1>7, <2>3
    <3>. HIDE DEF m
    <3>5. QED BY <3>1, <3>2, <3>3, <3>4 DEF Held
  <2>4. QED BY <2>2, <2>3
<1>12. RingHolds'
  <2>. HIDE DEF m, r, p
  <2>1. QED BY <1>9, <1>11 DEF RingHolds
<1>13. Blocks'
  <2>1. SUFFICES ASSUME Full', NEW k \in 1 .. pc'[me] - 1, text[k] = "dbg_store",
                        NEW row \in Rows, NEW l \in entry[me]
                 PROVE  LET a == Slot(l, StoresIn(text, k), row) IN
                        /\ a \in DOMAIN buffer
                        /\ buffer[a] = Held(seen'[me], row, l, DumpsIn(text, k))
    BY <1>2, <1>8 DEF Blocks, Block
  <2>2. Full
    BY <1>0, <2>1, FullBefore DEF WaveStep
  <2>3. k \in Nat \ {0} /\ k < p
    BY <1>1, <1>2, <2>1 DEF Dumps
  <2>4. Block(k)
    BY <1>1, <2>1, <2>2, <2>3 DEF DumpInv, Blocks
  <2>5. DumpsIn(text, k) \in 0 .. Len(seen[me])
    BY <1>1, <1>3, <2>3, StoreCounts, Passed
  <2>6. l \in Lanes /\ seen[me] \in Seq([Lanes -> Cell])
    BY <1>0, <2>1 DEF DTypes, MaskTypes, Masks
  <2>7. Held(seen'[me], row, l, DumpsIn(text, k)) = Held(seen[me], row, l, DumpsIn(text, k))
    BY <1>7, <2>5, <2>6, HeldKept
  <2>8. QED BY <2>1, <2>4, <2>7 DEF Block
<1>14. QED BY <1>10, <1>12, <1>13

(* Two places are the same only in the same lane and the same row of all.    *)
LEMMA SameSlot ==
  ASSUME NEW l \in Lanes, NEW l2 \in Lanes, NEW b, NEW b2, NEW row, NEW row2,
         Ring * b + row \in Nat, Ring * b2 + row2 \in Nat,
         Slot(l, b, row) = Slot(l2, b2, row2)
  PROVE  l = l2 /\ Ring * b + row = Ring * b2 + row2
<1>. DEFINE x == Ring * b + row
            y == Ring * b2 + row2
<1>1. x \in Nat /\ y \in Nat /\ l + Width * x = l2 + Width * y
  BY DEF Slot
<1>2. Width \in Nat \ {0} /\ l \in 0 .. Width - 1 /\ l2 \in 0 .. Width - 1
  BY DebugAssumption DEF Lanes
<1>. HIDE DEF x, y
<1>3. l = l2 /\ x = y
  BY <1>1, <1>2, SlotUnique
<1>4. QED BY <1>3 DEF x, y

(* The wanted wave stores the ring behind the blocks that it has stored.     *)
LEMMA StoreMe ==
  ASSUME DumpInv, Store(me)
  PROVE  Counted' /\ RingHolds' /\ Blocks'
<1>0. DTypes /\ AllMasked /\ me \in Waves
  BY DebugAssumption DEF DumpInv, me
<1>. DEFINE p == pc[me]
            b == StoresIn(text, p)
<1>1. p \in Nat \ {0} /\ text[p] = "dbg_store"
  BY <1>0, AtFacts DEF Store
<1>2. pc'[me] = p + 1 /\ text' = text /\ entry' = entry /\ dbg_wave_id' = dbg_wave_id
  BY <1>0, Passes DEF DTypes
<1>3. seen' = seen /\ dbg' = dbg
  BY DEF Store
<1>4. /\ b \in Nat /\ StoresIn(text, p + 1) = b + 1
      /\ DumpsIn(text, p + 1) = DumpsIn(text, p) /\ DumpsIn(text, p) = Len(seen[me])
  BY <1>1, Passed DEF DumpInv, Counted
<1>5. \A l \in Storing(me) : l \in Lanes /\ dbg_ptr[me][l] = l + Width * (Ring * b)
  BY <1>1 DEF DumpInv, Counted, Storing, me
<1>6. entry[me] \subseteq Storing(me)
  <2>1. \A l \in entry[me] : dbg_wave_id[me][l] = me
    BY <1>0 DEF DumpInv, Numbered, Store
  <2>2. entry[me] \subseteq Lanes
    BY <1>0 DEF DTypes, MaskTypes, Masks
  <2>3. QED BY <2>1, <2>2 DEF Storing, me
<1>7. Width \in Nat \ {0} /\ Ring \in Nat \ {0} /\ Lanes = 0 .. Width - 1 /\ Rows = 0 .. Ring - 1
  BY DebugAssumption DEF Lanes, Rows
<1>8. \A l \in Storing(me), row \in Rows :
        RowAddress(me, l, row) = Slot(l, b, row)
  <2>1. \A l, row \in Nat : (l + Width * (Ring * b)) + Width * row = l + Width * (Ring * b + row)
    BY <1>4, <1>7, SMT
  <2>2. \A l \in Storing(me), row \in Rows : l \in Nat /\ row \in Nat
    BY <1>5, <1>7
  <2>. HIDE DEF b
  <2>3. QED BY <1>5, <2>1, <2>2 DEF Slot, RowAddress
<1>9. \A row \in Rows, l \in Lanes : Ring * b + row \in Nat /\ l \in Nat /\ row \in Nat
  BY <1>4, <1>7
<1>10. /\ DOMAIN buffer' = DOMAIN buffer \cup Written(me)
       /\ \A a \in DOMAIN buffer \cup Written(me) : a \notin Written(me) => buffer'[a] = buffer[a]
       /\ \A a \in Written(me) :
            \E l \in Storing(me), row \in Rows :
              /\ RowAddress(me, l, row) = a
              /\ buffer'[a] = dbg[me][(a - dbg_ptr[me][l]) \div Width][l]
  BY <1>0, Stores
<1>11. \A l \in Storing(me), row \in Rows : Slot(l, b, row) \in Written(me)
  <2>1. \A l \in Storing(me), row \in Rows : RowAddress(me, l, row) \in Written(me)
    BY <1>0, Stores
  <2>2. QED BY <1>8, <2>1
<1>. HIDE DEF b, p
<1>12. ASSUME NEW l \in Storing(me), NEW row \in Rows
       PROVE  buffer'[Slot(l, b, row)] = dbg[me][row][l]
  <2>. DEFINE a == Slot(l, b, row)
  <2>1. PICK l2 \in Storing(me), row2 \in Rows :
          /\ RowAddress(me, l2, row2) = a
          /\ buffer'[a] = dbg[me][(a - dbg_ptr[me][l2]) \div Width][l2]
    BY <1>10, <1>11
  <2>2. Slot(l2, b, row2) = Slot(l, b, row)
    BY <1>8, <2>1
  <2>3. l \in Lanes /\ l2 \in Lanes
    BY <1>5
  <2>4. l = l2 /\ Ring * b + row = Ring * b + row2
    BY <1>7, <1>9, <2>2, <2>3, SameSlot
  <2>5. row = row2
    <3>1. Ring * b \in Nat /\ row \in Nat /\ row2 \in Nat
      BY <1>4, <1>7
    <3>2. QED BY <2>4, <3>1
  <2>6. (a - dbg_ptr[me][l2]) \div Width = row
    <3>1. dbg_ptr[me][l2] \in Int /\ row2 \in Nat
      BY <1>0, <1>9, <2>3 DEF DTypes
    <3>2. Width * row2 \in Int
      BY <1>7, <3>1
    <3>. HIDE DEF a
    <3>3. a - dbg_ptr[me][l2] = Width * row2
      BY <2>1, <3>1, <3>2 DEF RowAddress
    <3>4. QED BY <1>7, <2>5, <3>1, <3>3, RowQuotient
  <2>7. QED BY <2>1, <2>4, <2>6
<1>13. Counted'
  <2>1. \A l \in Lanes : dbg_wave_id[me][l] = me =>
          dbg_ptr'[me][l] = dbg_ptr[me][l] + Width * Ring
    <3>1. exec[me] = Storing(me)
      BY <1>0, Stores
    <3>2. \A l \in Lanes : dbg_wave_id[me][l] = me => l \in exec[me]
      BY <3>1 DEF Storing, me
    <3>3. QED BY <1>0, <3>2 DEF Store, DTypes
  <2>2. \A l \in Lanes : (l + Width * (Ring * b)) + Width * Ring = l + Width * (Ring * (b + 1))
    BY <1>4, <1>7, SMT
  <2>3. \A l \in Lanes : dbg_wave_id[me][l] = me =>
          dbg_ptr'[me][l] = l + Width * (Ring * (b + 1))
    BY <1>5, <2>1, <2>2 DEF Storing, me
  <2>4. p + 1 \in Nat \ {0}
    BY <1>1
  <2>5. QED BY <1>2, <1>3, <1>4, <2>3, <2>4 DEF Counted
<1>14. RingHolds'
  BY <1>3 DEF DumpInv, RingHolds
<1>15. Blocks'
  <2>1. SUFFICES ASSUME Full', NEW k \in 1 .. pc'[me] - 1, text[k] = "dbg_store",
                        NEW row \in Rows, NEW l \in entry[me]
                 PROVE  LET a == Slot(l, StoresIn(text, k), row) IN
                        /\ a \in DOMAIN buffer'
                        /\ buffer'[a] = Held(seen[me], row, l, DumpsIn(text, k))
    BY <1>2, <1>3 DEF Blocks, Block
  <2>2. l \in Storing(me) /\ l \in Lanes
    BY <1>5, <1>6, <2>1
  <2>3. CASE k = p
    <3>1. Slot(l, b, row) \in Written(me)
      BY <1>11, <2>2
    <3>2. buffer'[Slot(l, b, row)] = Held(seen[me], row, l, Len(seen[me]))
      BY <1>12, <2>2 DEF DumpInv, RingHolds
    <3>3. QED BY <1>4, <1>10, <2>3, <3>1, <3>2 DEF b
  <2>4. CASE k # p
    <3>. DEFINE c == StoresIn(text, k)
                a == Slot(l, c, row)
    <3>1. k \in Nat \ {0} /\ k < p /\ k \in 1 .. p - 1
      BY <1>1, <1>2, <2>1, <2>4
    <3>2. Full
      BY <1>0, <2>1, FullBefore DEF WaveStep
    <3>3. a \in DOMAIN buffer /\ buffer[a] = Held(seen[me], row, l, DumpsIn(text, k))
      BY <2>1, <3>1, <3>2 DEF DumpInv, Blocks, Block, p
    <3>4. c \in Nat /\ c < b
      BY <1>1, <2>1, <3>1, StoreCounts, Passed DEF b
    <3>5. a \notin Written(me)
      <4>1. SUFFICES ASSUME a \in Written(me)
                     PROVE  FALSE
        OBVIOUS
      <4>2. PICK l2 \in Storing(me), row2 \in Rows : Slot(l2, b, row2) = Slot(l, c, row)
        BY <1>8, <1>10, <4>1
      <4>3. l2 \in Lanes
        BY <1>5
      <4>4. Ring * c + row \in Nat
        BY <1>7, <3>4
      <4>. HIDE DEF c
      <4>5. Ring * b + row2 = Ring * c + row
        BY <1>9, <2>2, <3>4, <4>2, <4>3, <4>4, SameSlot
      <4>6. row2 + Ring * b = row + Ring * c
        <5>1. Ring * b \in Nat /\ Ring * c \in Nat
          BY <1>4, <1>7, <3>4
        <5>2. QED BY <1>9, <2>2, <4>5, <5>1
      <4>7. b = c
        BY <1>4, <1>7, <3>4, <4>6, SlotUnique
      <4>8. QED BY <1>4, <3>4, <4>7
    <3>. HIDE DEF a
    <3>6. a \in DOMAIN buffer' /\ buffer'[a] = buffer[a]
      BY <1>10, <3>3, <3>5
    <3>7. QED BY <3>3, <3>6 DEF a
  <2>5. QED BY <2>3, <2>4
<1>16. QED BY <1>13, <1>14, <1>15

LEMMA DumpInvStep ==
  ASSUME DumpInv, DebugNext
  PROVE  DumpInv'
<1>1. PICK w \in Waves : WaveStep(w)
  BY DEF DebugNext
<1>2. DTypes' /\ AllMasked' /\ Numbered'
  BY <1>1, TypesKept, Simple DEF DumpInv
<1>3. CASE \/ KernelStep(w) \/ SaveExec(w) \/ Pick(w) \/ RestoreExec(w)
           \/ w # me /\ (Enter(w) \/ Address(w) \/ Dump(w) \/ Store(w))
  BY <1>2, <1>3, QuietSteps, QuietKeeps DEF DumpInv
<1>4. CASE w = me /\ (Enter(w) \/ Address(w) \/ Dump(w) \/ Store(w))
  BY <1>2, <1>4, EnterMe, DumpMe, StoreMe DEF DumpInv
<1>5. QED BY <1>1, <1>3, <1>4 DEF WaveStep

LEMMA DumpInvHolds == DebugSpec => []DumpInv
<1>1. DumpInv /\ UNCHANGED debugVars => DumpInv'
  <2>1. SUFFICES ASSUME DumpInv, UNCHANGED debugVars
                 PROVE  DumpInv'
    OBVIOUS
  <2>2. /\ UNCHANGED <<text, pc, macro, entry, exec, vcc, dbg_exec, wanted>>
        /\ UNCHANGED <<val, dbg, dbg_ptr, dbg_wave_id, buffer, seen>>
    BY <2>1 DEF debugVars, maskVars, storeVars
  <2>3. DTypes' /\ Numbered'
    BY <2>1, <2>2 DEF DumpInv, DTypes, MaskTypes, Numbered
  <2>4. AllMasked'
    BY <2>1, <2>2 DEF DumpInv, AllMasked, Masked, VccInUse, Storing
  <2>5. Counted' /\ RingHolds'
    BY <2>1, <2>2 DEF DumpInv, Counted, RingHolds
  <2>6. Blocks'
    BY <2>1, <2>2 DEF DumpInv, Blocks, Block, Full
  <2>7. QED BY <2>3, <2>4, <2>5, <2>6 DEF DumpInv
<1>2. DumpInv /\ [DebugNext]_debugVars => DumpInv'
  BY <1>1, DumpInvStep
<1>3. QED BY <1>2, DumpInit, PTL DEF DebugSpec

-----------------------------------------------------------------------------
(* The theorems. *)

(* For any waves, any width and any text: between the macros each wave has   *)
(* the exec of its kernel, which goes through two scalar registers, and also *)
(* its vcc, unless a dbg_store came after it.                                *)
THEOREM KernelKeepsState == DebugSpec => []KernelUndisturbed
<1>1. DumpInv => KernelUndisturbed
  BY DumpInvImplies
<1>2. QED BY <1>1, DumpInvHolds, PTL

(* The n-th dbg_store shows the last dumps before it in the n-th block, and  *)
(* nothing that happens later changes that block, for any number of waves,   *)
(* any text and any size of the ring.                                        *)
THEOREM StoresShowDumps == DebugSpec => []StoredIsDumped
<1>1. DumpInv => StoredIsDumped
  BY DumpInvImplies
<1>2. QED BY <1>1, DumpInvHolds, PTL

-----------------------------------------------------------------------------
(* Types: how far a wave has come bounds its addresses. *)

\* What a store appends to the buffer.
Span == Width * Ring

Extents ==
  /\ \A w \in Waves : pc[w] <= Len(text) + 1
  /\ \A w \in Waves : wanted[w] \subseteq entry[w] /\ dbg_exec[w] \subseteq entry[w]
  /\ \A w \in Waves, l \in Lanes : pc[w] > 0 =>
       0 <= dbg_ptr[w][l] /\ dbg_ptr[w][l] <= Width - 1 + Span * (pc[w] - 1)
  /\ \A a \in DOMAIN buffer : a \in Int /\ 0 <= a /\ a < Span * Len(text)

(* Blocks follow each other, and the rows of a block fill it.                *)
LEMMA SpanFacts ==
  /\ Span \in Nat
  /\ \A n \in Nat : Span * n \in Nat /\ Span * (n + 1) = Span * n + Span
  /\ \A m, n \in Nat : m <= n => Span * m <= Span * n
  /\ \A row \in Rows : Width * row \in Nat /\ Width * row + Width <= Span
<1>1. Width \in Nat \ {0} /\ Ring \in Nat \ {0} /\ Rows = 0 .. Ring - 1
  BY DebugAssumption DEF Rows
<1>2. Span \in Nat
  BY <1>1 DEF Span
<1>3. ASSUME NEW row \in Rows
      PROVE  Width * row \in Nat /\ Width * row + Width <= Span
  <2>1. PICK d \in Nat : Ring = row + 1 + d
    <3>1. row \in Nat /\ Ring - (row + 1) \in Nat /\ Ring = row + 1 + (Ring - (row + 1))
      BY <1>1
    <3>2. QED BY <3>1
  <2>2. row \in Nat
    BY <1>1
  <2>3. Span = Width * row + Width + Width * d
    BY <1>1, <2>1, <2>2 DEF Span
  <2>4. Width * row \in Nat /\ Width * d \in Nat
    BY <1>1, <2>1, <2>2
  <2>5. QED BY <1>1, <1>2, <2>3, <2>4
<1>. HIDE DEF Span
<1>4. ASSUME NEW n \in Nat
      PROVE  Span * n \in Nat /\ Span * (n + 1) = Span * n + Span
  BY <1>2
<1>5. ASSUME NEW m \in Nat, NEW n \in Nat, m <= n
      PROVE  Span * m <= Span * n
  <2>1. n - m \in Nat /\ n = m + (n - m)
    BY <1>5
  <2>2. PICK d \in Nat : n = m + d
    BY <2>1
  <2>3. Span * n = Span * m + Span * d /\ Span * d \in Nat /\ Span * m \in Nat
    BY <1>2, <2>2
  <2>4. QED BY <2>3
<1>6. QED BY <1>2, <1>3, <1>4, <1>5

LEMMA ExtentsInit ==
  ASSUME DebugInit
  PROVE  Extents
<1>1. text \in Seq(Dumps \cup {"dbg_store", "step"})
  BY DebugAssumption DEF DebugInit
<1>2. Len(text) \in Nat
  BY <1>1
<1>3. \A w \in Waves : pc[w] = 0 /\ wanted[w] = {} /\ dbg_exec[w] = {}
  BY DEF DebugInit
<1>4. DOMAIN buffer = {}
  BY DEF DebugInit
<1>5. QED BY <1>2, <1>3, <1>4 DEF Extents

(* A step that changes no address and passes no place.                       *)
LEMMA StayExtents ==
  ASSUME DTypes, Extents, NEW w \in Waves, Masked(w),
         Enter(w) \/ SaveExec(w) \/ Pick(w) \/ RestoreExec(w)
  PROVE  Extents'
<1>1. UNCHANGED <<text, pc, dbg_ptr, buffer>>
  BY DEF Enter, SaveExec, Pick, RestoreExec, storeVars
<1>2. \A v \in Waves : wanted'[v] \subseteq entry'[v] /\ dbg_exec'[v] \subseteq entry'[v]
  <2>1. CASE Enter(w)
    <3>1. PICK lanes : /\ wanted' = [wanted EXCEPT ![w] = lanes]
                       /\ entry' = [entry EXCEPT ![w] = lanes]
      BY <2>1 DEF Enter
    <3>2. dbg_exec' = dbg_exec
      BY <2>1 DEF Enter
    <3>3. \A v \in Waves : v # w => wanted'[v] = wanted[v] /\ entry'[v] = entry[v]
      BY <3>1 DEF DTypes, MaskTypes, Masks
    <3>4. wanted'[w] = lanes /\ entry'[w] = lanes
      BY <3>1 DEF DTypes, MaskTypes, Masks
    <3>5. dbg_exec[w] \subseteq entry'[w]
      BY <2>1, <3>4 DEF Enter, Masked
    <3>6. QED BY <3>2, <3>3, <3>4, <3>5 DEF Extents
  <2>2. CASE SaveExec(w)
    <3>1. dbg_exec' = [dbg_exec EXCEPT ![w] = exec[w]] /\ UNCHANGED <<entry, wanted>>
      BY <2>2 DEF SaveExec, Saved
    <3>2. exec[w] \subseteq entry[w]
      BY <2>2 DEF SaveExec, Masked, Extents
    <3>3. QED BY <3>1, <3>2 DEF DTypes, MaskTypes, Masks, Extents
  <2>3. CASE Pick(w) \/ RestoreExec(w)
    BY <2>3 DEF Pick, RestoreExec, Extents
  <2>4. QED BY <2>1, <2>2, <2>3
<1>3. QED BY <1>1, <1>2 DEF Extents

(* A step of the text, or the one before it: an element was there, and only  *)
(* a store moves addresses, by a block.                                      *)
LEMMA PassExtents ==
  ASSUME DumpInv, DTypes', Extents, NEW w \in Waves,
         Address(w) \/ KernelStep(w) \/ Dump(w) \/ Store(w)
  PROVE  Extents'
<1>0. DTypes /\ AllMasked /\ Masked(w)
  BY DEF DumpInv, AllMasked
<1>1. text \in Seq(Dumps \cup {"dbg_store", "step"})
  BY <1>0, DebugAssumption DEF DTypes
<1>2. /\ pc[w] \in Nat /\ pc' = [pc EXCEPT ![w] = pc[w] + 1]
      /\ ~Address(w) => pc[w] > 0
      /\ text' = text /\ entry' = entry
  BY <1>0, Passes
<1>3. Len(text) \in Nat /\ pc[w] <= Len(text)
  <2>1. pc[w] \in DOMAIN text \/ pc[w] = 0
    BY DEF Address, KernelStep, Dump, Store, At
  <2>2. DOMAIN text = 1 .. Len(text) /\ Len(text) \in Nat
    BY <1>1
  <2>3. QED BY <2>1, <2>2
<1>4. \A v \in Waves : pc[v] \in Nat /\ pc'[v] = IF v = w THEN pc[v] + 1 ELSE pc[v]
  BY <1>0, <1>2 DEF DTypes
<1>5. \A v \in Waves : pc'[v] <= Len(text) + 1
  BY <1>3, <1>4 DEF Extents
<1>6. \A v \in Waves : wanted'[v] \subseteq entry'[v] /\ dbg_exec'[v] \subseteq entry'[v]
  <2>1. CASE KernelStep(w)
    <3>1. PICK lanes : wanted' = [wanted EXCEPT ![w] = lanes] /\ lanes \subseteq entry[w]
      BY <2>1 DEF KernelStep
    <3>2. dbg_exec' = dbg_exec
      BY <2>1 DEF KernelStep
    <3>3. QED BY <1>0, <1>2, <3>1, <3>2 DEF DTypes, MaskTypes, Masks, Extents
  <2>2. CASE Address(w) \/ Dump(w) \/ Store(w)
    BY <1>2, <2>2 DEF Address, Dump, Store, maskVars, Extents
  <2>3. QED BY <2>1, <2>2
<1>7. \A v \in Waves, l \in Lanes :
        /\ dbg_ptr[v][l] \in Int /\ dbg_ptr'[v][l] \in Int
        /\ \/ dbg_ptr'[v][l] = dbg_ptr[v][l] /\ (v = w => pc[w] > 0)
           \/ v = w /\ pc[w] > 0 /\ dbg_ptr'[v][l] = dbg_ptr[v][l] + Span
           \/ v = w /\ pc[w] = 0 /\ dbg_ptr'[v][l] = l
  <2>0. \A v \in Waves, l \in Lanes : dbg_ptr[v][l] \in Int /\ dbg_ptr'[v][l] \in Int
    BY <1>0 DEF DTypes
  <2>1. CASE KernelStep(w) \/ Dump(w)
    <3>1. dbg_ptr' = dbg_ptr
      BY <2>1 DEF KernelStep, Dump
    <3>2. pc[w] > 0
      BY <1>0, <2>1, AtFacts DEF KernelStep, Dump
    <3>3. QED BY <2>0, <3>1, <3>2
  <2>2. CASE Store(w)
    <3>. DEFINE new == [l \in Lanes |-> IF l \in exec[w] THEN dbg_ptr[w][l] + Width * Ring
                                                         ELSE dbg_ptr[w][l]]
    <3>1. dbg_ptr' = [dbg_ptr EXCEPT ![w] = new]
      BY <1>0, <2>2 DEF Store, DTypes
    <3>2. \A l \in Lanes : new[l] = dbg_ptr[w][l] \/ new[l] = dbg_ptr[w][l] + Span
      BY DEF Span
    <3>3. pc[w] > 0
      BY <1>0, <2>2, AtFacts DEF Store
    <3>. HIDE DEF new
    <3>4. \A v \in Waves : dbg_ptr'[v] = IF v = w THEN new ELSE dbg_ptr[v]
      BY <1>0, <3>1 DEF DTypes
    <3>5. QED BY <2>0, <3>2, <3>3, <3>4
  <2>3. CASE Address(w)
    <3>. DEFINE new == [l \in Lanes |-> IF l \in exec[w] THEN l ELSE dbg_ptr[w][l]]
    <3>1. dbg_ptr' = [dbg_ptr EXCEPT ![w] = new] /\ pc[w] = 0 /\ macro[w] = "opened"
      BY <1>0, <2>3 DEF Address, DTypes
    <3>2. \A l \in Lanes : new[l] = l
      BY <1>0, <3>1 DEF Masked
    <3>. HIDE DEF new
    <3>3. \A v \in Waves : dbg_ptr'[v] = IF v = w THEN new ELSE dbg_ptr[v]
      BY <1>0, <3>1 DEF DTypes
    <3>4. QED BY <2>0, <3>1, <3>2, <3>3
  <2>4. QED BY <2>1, <2>2, <2>3
<1>8. ASSUME NEW v \in Waves, NEW l \in Lanes, pc'[v] > 0
      PROVE  0 <= dbg_ptr'[v][l] /\ dbg_ptr'[v][l] <= Width - 1 + Span * (pc'[v] - 1)
  <2>1. CASE v # w
    <3>1. pc'[v] = pc[v] /\ dbg_ptr'[v][l] = dbg_ptr[v][l]
      BY <1>4, <1>7, <2>1
    <3>2. QED BY <1>8, <3>1 DEF Extents
  <2>2. CASE v = w /\ pc[w] > 0
    <3>1. PICK n \in Nat : pc[w] = n + 1 /\ pc'[w] - 1 = n + 1 /\ pc[w] - 1 = n
      <4>1. pc[w] - 1 \in Nat /\ pc[w] = (pc[w] - 1) + 1 /\ pc'[w] = pc[w] + 1
        BY <1>2, <1>4, <2>2
      <4>2. QED BY <4>1
    <3>2. 0 <= dbg_ptr[v][l] /\ dbg_ptr[v][l] <= Width - 1 + Span * n
      BY <1>2, <2>2, <3>1 DEF Extents
    <3>3. Span * n \in Nat /\ Span * (n + 1) = Span * n + Span /\ Span \in Nat
      BY SpanFacts
    <3>0. dbg_ptr'[v][l] = dbg_ptr[v][l] \/ dbg_ptr'[v][l] = dbg_ptr[v][l] + Span
      BY <1>7, <2>2
    <3>4. 0 <= dbg_ptr'[v][l] /\ dbg_ptr'[v][l] <= Width - 1 + (Span * n + Span)
      <4>. DEFINE s == Span * n
      <4>1. s \in Nat /\ Span \in Nat /\ dbg_ptr[v][l] <= Width - 1 + s
        BY <3>2, <3>3
      <4>2. dbg_ptr[v][l] \in Int /\ dbg_ptr'[v][l] \in Int /\ Width \in Nat
        BY <1>7, DebugAssumption
      <4>. HIDE DEF s, Span
      <4>3. 0 <= dbg_ptr'[v][l] /\ dbg_ptr'[v][l] <= Width - 1 + (s + Span)
        BY <3>0, <3>2, <4>1, <4>2
      <4>4. QED BY <4>3 DEF s
    <3>5. QED BY <2>2, <3>1, <3>3, <3>4
  <2>3. CASE v = w /\ pc[w] = 0
    <3>1. dbg_ptr'[v][l] = l /\ pc'[v] - 1 = 0
      BY <1>4, <1>7, <2>3
    <3>2. 0 <= l /\ l <= Width - 1
      BY DEF Lanes
    <3>3. Span * 0 = 0 /\ Width - 1 + 0 = Width - 1
      BY SpanFacts, DebugAssumption
    <3>4. QED BY <3>1, <3>2, <3>3
  <2>4. QED BY <1>2, <2>1, <2>2, <2>3
<1>9. ASSUME NEW a \in DOMAIN buffer'
      PROVE  a \in Int /\ 0 <= a /\ a < Span * Len(text)
  <2>1. CASE a \in DOMAIN buffer
    BY <2>1 DEF Extents
  <2>2. CASE a \notin DOMAIN buffer
    <3>1. Store(w) /\ a \in Written(w) /\ pc[w] > 0
      <4>1. Store(w)
        BY <2>2 DEF Address, KernelStep, Dump
      <4>2. a \in Written(w)
        BY <1>0, <2>2, <4>1, Stores
      <4>3. pc[w] > 0
        BY <1>0, <4>1, AtFacts DEF Store
      <4>4. QED BY <4>1, <4>2, <4>3
    <3>2. PICK l \in exec[w], row \in Rows : a = dbg_ptr[w][l] + Width * row
      BY <3>1 DEF Written, RowAddress
    <3>3. l \in Lanes
      BY <1>0 DEF DTypes, MaskTypes, Masks
    <3>4. PICK n \in Nat : pc[w] = n + 1 /\ pc[w] - 1 = n
      <4>1. pc[w] - 1 \in Nat /\ pc[w] = (pc[w] - 1) + 1
        BY <1>2, <3>1
      <4>2. QED BY <4>1
    <3>5. /\ dbg_ptr[w][l] \in Int
          /\ 0 <= dbg_ptr[w][l] /\ dbg_ptr[w][l] <= Width - 1 + Span * n
      BY <1>2, <1>7, <3>1, <3>3, <3>4 DEF Extents
    <3>6. /\ Width * row \in Nat /\ Width * row + Width <= Span /\ Span \in Nat
          /\ Span * n \in Nat /\ Span * (n + 1) = Span * n + Span
      BY SpanFacts
    <3>7. Span * (n + 1) <= Span * Len(text) /\ Span * Len(text) \in Nat
      <4>1. n + 1 \in Nat /\ n + 1 <= Len(text)
        BY <1>3, <3>4
      <4>2. QED BY <1>3, <4>1, SpanFacts
    <3>8. a \in Int /\ 0 <= a /\ a < Span * n + Span
      BY <3>2, <3>5, <3>6, DebugAssumption
    <3>9. QED BY <3>6, <3>7, <3>8
  <2>3. QED BY <2>1, <2>2
<1>10. QED BY <1>2, <1>5, <1>6, <1>8, <1>9 DEF Extents

(* The types are right for every kernel: no wave runs past the end of its    *)
(* text, a kernel's exec never leaves the lanes that have a work-item, and   *)
(* the buffer is written only inside as many blocks as the text is long.     *)
THEOREM DebugTypeCorrect == DebugSpec => []DebugTypeOK
<1>1. DebugInit => Extents
  BY ExtentsInit
<1>2. DumpInv /\ DumpInv' /\ Extents /\ [DebugNext]_debugVars => Extents'
  <2>1. SUFFICES ASSUME DumpInv, DumpInv', Extents, [DebugNext]_debugVars
                 PROVE  Extents'
    OBVIOUS
  <2>2. CASE DebugNext
    <3>1. PICK w \in Waves : WaveStep(w)
      BY <2>2 DEF DebugNext
    <3>2. DTypes /\ DTypes' /\ Masked(w)
      BY <2>1 DEF DumpInv, AllMasked
    <3>3. CASE Enter(w) \/ SaveExec(w) \/ Pick(w) \/ RestoreExec(w)
      BY <2>1, <3>2, <3>3, StayExtents
    <3>4. CASE Address(w) \/ KernelStep(w) \/ Dump(w) \/ Store(w)
      BY <2>1, <3>2, <3>4, PassExtents
    <3>5. QED BY <3>1, <3>3, <3>4 DEF WaveStep
  <2>3. CASE UNCHANGED debugVars
    BY <2>1, <2>3 DEF debugVars, maskVars, storeVars, Extents
  <2>4. QED BY <2>1, <2>2, <2>3
<1>3. DumpInv /\ Extents => DebugTypeOK
  <2>1. SUFFICES ASSUME DumpInv, Extents
                 PROVE  DebugTypeOK
    OBVIOUS
  <2>2. text \in Seq(Dumps \cup {"dbg_store", "step"}) /\ DTypes /\ AllMasked
    BY <2>1, DebugAssumption DEF DumpInv, DTypes
  <2>3. Len(text) \in Nat
    BY <2>2
  <2>4. \A w \in Waves : pc[w] \in 0 .. Len(text) + 1 /\ entry[w] \subseteq Lanes
    BY <2>1, <2>2, <2>3 DEF DTypes, MaskTypes, Masks, Extents
  <2>5. Width * Ring * Len(text) \in Nat
    BY <2>3, DebugAssumption
  <2>6. DOMAIN buffer \subseteq 0 .. Width * Ring * Len(text) - 1
    BY <2>1, <2>5 DEF Extents, Span
  <2>7. \A w \in Waves : /\ macro[w] = "none" => exec[w] \subseteq entry[w]
                         /\ exec[w] \subseteq Lanes /\ dbg_exec[w] \subseteq entry[w]
    BY <2>1, <2>2 DEF AllMasked, Masked, Extents, DTypes, MaskTypes, Masks
  <2>8. QED BY <2>4, <2>6, <2>7 DEF DebugTypeOK
<1>4. QED BY <1>1, <1>2, <1>3, DumpInvHolds, PTL DEF DebugSpec

=============================================================================
