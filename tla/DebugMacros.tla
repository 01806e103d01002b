---------------------------- MODULE DebugMacros ----------------------------
(***************************************************************************)
(* debug.inc, as gds_test.s uses it: the dump macros put values into a     *)
(* ring of registers whose index is an assembly-time symbol, and dbg_store *)
(* writes the whole ring to the debug buffer, from the wave with a given   *)
(* number only.  The waves of a work-group run the same text, each at its  *)
(* own pace, and share the buffer.                                         *)
(*                                                                         *)
(* A register's contents are named by the kernel step that wrote it; a     *)
(* dump with a count is that many dumps.                                   *)
(***************************************************************************)
EXTENDS Integers, Sequences, FiniteSets

CONSTANTS
  Waves,               \* 0 .. n: the waves of the group
  Width,               \* lanes of a wave: 64 in the source
  Ring,                \* registers of the ring: 16 in the source
  debug_wid,           \* the wave whose output is wanted
  Texts                \* the kernels: sequences of "step" and macro names

Dumps == {"dump_vgpr", "dump_fvgpr", "dump_sgpr", "dump_fsgpr"}

ASSUME DebugAssumption ==
  /\ Waves \subseteq Nat /\ debug_wid \in Waves
  /\ Width \in Nat \ {0} /\ Ring \in Nat \ {0}
  /\ Texts \subseteq Seq(Dumps \cup {"dbg_store", "step"})

VARIABLES
  text,                \* the kernel
  pc,                  \* per wave, the next element of the text; 0 before it
  macro,               \* how far a wave has come in the macro it is in
  entry,               \* the lanes of a wave that have a work-item
  exec, vcc, dbg_exec, \* dbg_exec: the scalar registers dbg_exec_lo and _hi
  wanted,              \* history: the kernel's own choice of exec and vcc
  val,                 \* per wave and lane, the vector register that is dumped
  dbg, dbg_ptr, dbg_wave_id,
  buffer,              \* the debug buffer: what was stored at an address
  seen                 \* history: what each dump found

maskVars  == <<entry, exec, vcc, dbg_exec, wanted>>
storeVars == <<val, dbg, dbg_ptr, dbg_wave_id, buffer, seen>>
debugVars == <<text, pc, macro, maskVars, storeVars>>

Junk  == [value |-> -1, as |-> "junk"]
Rows  == 0 .. Ring - 1
Lanes == 0 .. Width - 1

DumpsBefore(at) == Cardinality({k \in 1 .. at - 1 : text[k] \in Dumps})

\* Mutant: dbg_i returns to 0 one register late.
dbg_i_Mut(at) == DumpsBefore(at) % (Ring + 1)

\* The symbol when the macro at this place of the text is expanded.
dbg_i(at) == DumpsBefore(at) % Ring

At(w, ops) == pc[w] \in DOMAIN text /\ text[pc[w]] \in ops
Advance(w) == pc' = [pc EXCEPT ![w] = @ + 1]
Reach(w, m) == macro' = [macro EXCEPT ![w] = m]

\* A wave starts, the last ones of a grid without some of their work-items.
\* v_lshrrev_b32 runs under the exec of the entry.
Enter(w) ==
  /\ macro[w] = "launch"
  /\ \E lanes \in {Lanes, {0}}, junk \in {debug_wid, -1} :
       /\ entry' = [entry EXCEPT ![w] = lanes]
       /\ exec' = [exec EXCEPT ![w] = lanes]
       /\ wanted' = [wanted EXCEPT ![w] = lanes]
       /\ dbg_wave_id' = [dbg_wave_id EXCEPT ![w] =
            [l \in Lanes |-> IF l \in lanes THEN w ELSE junk]]
  /\ Reach(w, "none")
  /\ UNCHANGED <<text, pc, vcc, dbg_exec, val, dbg, dbg_ptr, buffer, seen>>

\* The kernel computes a new value in its active lanes and may then branch, as
\* by v_cmpx, which leaves the lanes it chooses in exec and in vcc.
KernelStep(w) ==
  /\ macro[w] = "none" /\ At(w, {"step"})
  /\ val' = [val EXCEPT ![w] = [l \in Lanes |-> IF l \in exec[w] THEN pc[w] ELSE @[l]]]
  /\ \E lanes \in (SUBSET entry[w]) \ {{}} :
       /\ exec' = [exec EXCEPT ![w] = lanes]
       /\ vcc' = [vcc EXCEPT ![w] = lanes]
       /\ wanted' = [wanted EXCEPT ![w] = lanes]
  /\ Advance(w)
  /\ UNCHANGED <<text, macro, entry, dbg_exec, dbg, dbg_ptr, dbg_wave_id, buffer, seen>>

\* Mutant: exec is saved after it has been overwritten.
Saved_Mut(w) == Lanes

Saved(w) == exec[w]

\* How each of the macros begins, and the computation of the addresses before
\* the text: exec is saved in scalar registers; s_mov_b64 exec, -1.
SaveExec(w) ==
  /\ macro[w] = "none" /\ (pc[w] = 0 \/ At(w, Dumps \cup {"dbg_store"}))
  /\ dbg_exec' = [dbg_exec EXCEPT ![w] = Saved(w)]
  /\ exec' = [exec EXCEPT ![w] = Lanes]
  /\ Reach(w, "opened")
  /\ UNCHANGED <<text, pc, entry, vcc, wanted, storeVars>>

\* How they end: exec comes back from the scalar registers.
RestoreExec(w) ==
  /\ macro[w] = "closing"
  /\ exec' = [exec EXCEPT ![w] = dbg_exec[w]]
  /\ Reach(w, "none")
  /\ UNCHANGED <<text, pc, entry, vcc, dbg_exec, wanted, storeVars>>

\* Before the text, each lane gets its own address; the carry of the high
\* halves, of which there is none, is left in vcc.
Address(w) ==
  /\ macro[w] = "opened" /\ pc[w] = 0
  /\ dbg_ptr' = [dbg_ptr EXCEPT ![w] = [l \in Lanes |-> IF l \in exec[w] THEN l ELSE @[l]]]
  /\ vcc' = [vcc EXCEPT ![w] = {}]
  /\ Advance(w) /\ Reach(w, "closing")
  /\ UNCHANGED <<text, entry, exec, dbg_exec, wanted, val, dbg, dbg_wave_id, buffer, seen>>

\* v_mov_b32 or v_cvt_f32_i32, of a vector register or of a scalar one, which
\* the kernel steps of the whole wave write.
Source(w, op) ==
  LET as == IF op \in {"dump_vgpr", "dump_sgpr"} THEN "bits" ELSE "float"
      scalar == Cardinality({k \in 1 .. pc[w] - 1 : text[k] = "step"})
  IN [l \in Lanes |->
        [value |-> IF op \in {"dump_vgpr", "dump_fvgpr"} THEN val[w][l] ELSE scalar,
         as |-> as]]

\* The middle of the dump macros.
Dump(w) ==
  /\ macro[w] = "opened" /\ At(w, Dumps)
  /\ LET source == Source(w, text[pc[w]]) IN
       /\ dbg' = [dbg EXCEPT ![w][dbg_i(pc[w])] =
            [l \in Lanes |-> IF l \in exec[w] THEN source[l] ELSE @[l]]]
       /\ seen' = [seen EXCEPT ![w] = Append(@, source)]
  /\ Advance(w) /\ Reach(w, "closing")
  /\ UNCHANGED <<text, maskVars, val, dbg_ptr, dbg_wave_id, buffer>>

\* v_cmpx_eq_i32 vcc, v[dbg_wave_id], debug_wid
Matching(w) == {l \in exec[w] : dbg_wave_id[w][l] = debug_wid}

Pick(w) ==
  /\ macro[w] = "opened" /\ At(w, {"dbg_store"})
  /\ exec' = [exec EXCEPT ![w] = Matching(w)]
  /\ vcc' = [vcc EXCEPT ![w] = Matching(w)]
  /\ Reach(w, "picked")
  /\ UNCHANGED <<text, pc, entry, dbg_exec, wanted, storeVars>>

\* A row is as long as a wave is wide; dbg_ptr is moved on after each of them.
RowAddress(w, l, row) == dbg_ptr[w][l] + Width * row
Written(w) == {RowAddress(w, l, row) : l \in exec[w], row \in Rows}

\* What the wave stores at one of these addresses.
StoredAt(w, a) ==
  LET l == CHOOSE l \in exec[w] : \E row \in Rows : RowAddress(w, l, row) = a
  IN dbg[w][(a - dbg_ptr[w][l]) \div Width][l]

\* The ring is stored; the additions overwrite vcc, as in Address.
Store(w) ==
  /\ macro[w] = "picked" /\ At(w, {"dbg_store"})
  /\ buffer' = [a \in DOMAIN buffer \cup Written(w) |->
                  IF a \in Written(w) THEN StoredAt(w, a) ELSE buffer[a]]
  /\ dbg_ptr' = [dbg_ptr EXCEPT ![w] = [l \in Lanes |->
                  IF l \in exec[w] THEN @[l] + Width * Ring ELSE @[l]]]
  /\ vcc' = [vcc EXCEPT ![w] = {}]
  /\ Advance(w) /\ Reach(w, "closing")
  /\ UNCHANGED <<text, entry, exec, dbg_exec, wanted, val, dbg, dbg_wave_id, seen>>

DebugInit ==
  /\ text \in Texts
  /\ pc = [w \in Waves |-> 0] /\ macro = [w \in Waves |-> "launch"]
  /\ entry = [w \in Waves |-> {}]
  /\ exec = entry /\ vcc = entry /\ dbg_exec = entry /\ wanted = entry
  /\ val = [w \in Waves |-> [l \in Lanes |-> 0]]
  /\ dbg = [w \in Waves |-> [r \in Rows |-> [l \in Lanes |-> Junk]]]
  /\ dbg_ptr = [w \in Waves |-> [l \in Lanes |-> -1]] /\ dbg_wave_id = dbg_ptr
  /\ buffer = << >>
  /\ seen = [w \in Waves |-> << >>]

WaveStep(w) ==
  \/ Enter(w) \/ KernelStep(w)
  \/ SaveExec(w) \/ Address(w) \/ Dump(w) \/ Pick(w) \/ Store(w) \/ RestoreExec(w)

DebugNext == \E w \in Waves : WaveStep(w)
DebugSpec == DebugInit /\ [][DebugNext]_debugVars

-----------------------------------------------------------------------------
(* Properties. *)

DebugTypeOK ==
  /\ \A w \in Waves : pc[w] \in 0 .. Len(text) + 1 /\ entry[w] \subseteq Lanes
  /\ \A w \in Waves : macro[w] = "none" => exec[w] \subseteq entry[w]
  /\ \A w \in Waves : exec[w] \subseteq Lanes /\ dbg_exec[w] \subseteq entry[w]
  /\ DOMAIN buffer \subseteq 0 .. Width * Ring * Len(text) - 1

\* A kernel step is behind the wave, and no store since then.
VccInUse(w) ==
  \E k \in 1 .. pc[w] - 1 :
    text[k] = "step" /\ \A j \in k .. pc[w] - 1 : text[j] # "dbg_store"

(* The macros may stand anywhere in a kernel: between them each wave, the    *)
(* wanted one and the others, runs on the lanes that its kernel chose,       *)
(* though the macros use all lanes or those of one wave (debug.inc:5-8,      *)
(* 17-18); and vcc is still the kernel's after dumps, though not after a     *)
(* dbg_store, whose comparison and additions overwrite it (debug.inc:8-13).  *)
KernelUndisturbed ==
  \A w \in Waves : macro[w] = "none" =>
    /\ exec[w] = wanted[w]
    /\ VccInUse(w) => vcc[w] = wanted[w]

\* The last of the first dumps that went into a register of the ring, or 0.
LastInto(row, dumps) ==
  LET into == {d \in 1 .. dumps : (d - 1) % Ring = row}
  IN IF into = {} THEN 0 ELSE CHOOSE d \in into : \A e \in into : e <= d

(* What the reader of the debug buffer relies on: the n-th dbg_store that    *)
(* the wanted wave has passed shows, in the n-th block, each of the last     *)
(* dumps of that wave, for all of its work-items, also those that a branch   *)
(* had turned off; later dumps and the other waves do not touch it.  A wave  *)
(* that is not full may do so, since the number of its empty lanes is never  *)
(* computed (gds_test.s:75): the others are assumed full.                    *)
StoredIsDumped ==
  (\A w \in Waves \ {debug_wid} : pc[w] > 0 => entry[w] = Lanes) =>
    \A k \in 1 .. pc[debug_wid] - 1 : text[k] = "dbg_store" =>
      LET n == Cardinality({j \in 1 .. k : text[j] = "dbg_store"}) IN
      \A row \in Rows, l \in entry[debug_wid] :
        LET d == LastInto(row, DumpsBefore(k)) IN
        buffer[l + Width * (Ring * (n - 1) + row)] =
          IF d = 0 THEN Junk ELSE seen[debug_wid][d][l]

=============================================================================
