------------------------------ MODULE MCTools ------------------------------
(***************************************************************************)
(* The stand-alone parts of the repository: amdphdrs, the translator from  *)
(* sp3, the two programs that use LLVM, and the debug macros.  They share  *)
(* no state, so a behaviour is one of them alone: tool says which.         *)
(*                                                                         *)
(* amdphdrs: inputs up to two blocks and a half, and every sequence of up  *)
(* to three sections.  sp3: two names, three open constructs.  LLVM: the   *)
(* three words of Instructions, in instructions of one or two words.       *)
(* Debug: two waves of two lanes; a text with two stores that fills the    *)
(* ring exactly and one that goes around it.                               *)
(***************************************************************************)
EXTENDS Amdphdrs, Sp3ToMc, LlvmApi, DebugMacros

Entry(name, size, align) ==
  [name |-> name, sh_size |-> size, sh_align |-> align, sh_offset |-> 0, sh_addr |-> 0]

Text  == Entry(".hsatext", 300, 256)
Data  == Entry(".hsadata_global_program", 6, 4)
Other == Entry("other", 10, 1)

Tables == UNION {[1 .. n -> {Text, Data, Other}] : n \in 0 .. 3}

VARIABLE tool

FullRing   == <<"step", "dump_sgpr", "dump_vgpr", "dbg_store", "step", "dump_fvgpr",
                "dbg_store">>
AroundRing == <<"dump_vgpr", "step", "dump_vgpr", "dump_fsgpr", "dbg_store", "step">>
DebugTexts == {FullRing, AroundRing}

toolVars == <<tool, vars, sp3Vars, apiVars, debugVars>>

-----------------------------------------------------------------------------
AmdphdrsStep ==
  /\ tool = "amdphdrs" /\ Next
  /\ UNCHANGED <<tool, sp3Vars, apiVars, debugVars>>

Sp3Step ==
  /\ tool = "sp3_to_mc" /\ Sp3Next
  /\ UNCHANGED <<tool, vars, apiVars, debugVars>>

ApiStep ==
  /\ tool = "api" /\ ApiNext
  /\ UNCHANGED <<tool, vars, sp3Vars, debugVars>>

DebugStep ==
  /\ tool = "debug" /\ DebugNext
  /\ UNCHANGED <<tool, vars, sp3Vars, apiVars>>

\* What does not run has one initial state.
ToolInit ==
  /\ tool \in {"amdphdrs", "sp3_to_mc", "api", "debug"}
  /\ Init /\ Sp3Init /\ ApiInit /\ DebugInit
  /\ tool # "amdphdrs" => in_length = 0 /\ out = << >>
  /\ tool # "api" => program = "assemble"
  /\ tool # "debug" => text = FullRing

ToolNext == AmdphdrsStep \/ Sp3Step \/ ApiStep \/ DebugStep

\* The process of an API program keeps running.
ToolSpec == ToolInit /\ [][ToolNext]_toolVars /\ WF_toolVars(ApiStep)

-----------------------------------------------------------------------------
(* Properties; the others are those of the parts. *)

(* Every part's variables have their types.                                  *)
TypesOK == TypeOK /\ Sp3TypeOK /\ ApiTypeOK /\ DebugTypeOK

(* LlvmApi's, of the behaviours in which its programs run.                   *)
ApiEnds == tool = "api" => ProgramEnds

=============================================================================
