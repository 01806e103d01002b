------------------------------ MODULE LlvmApi ------------------------------
(***************************************************************************)
(* The two programs of examples/api: assemble.cpp and disassemble.cpp      *)
(* create a row of LLVM objects, some of them checked, and then assemble a *)
(* text or decode a stream of instructions.  LLVM is external: a factory   *)
(* may return null, the parser or the decoder may fail, and a stream hands *)
(* on what it buffers when it likes.                                       *)
(***************************************************************************)
EXTENDS Integers, Sequences, FiniteSets

CONSTANTS
  StreamSize,          \* bytes of Instructions: 12 in the source
  Sizes,               \* what getInstruction may report on success
  MaxObject            \* bound on the size of the assembled object

ASSUME StreamAssumption ==
  StreamSize \in Nat /\ Sizes \subseteq Nat \ {0} /\ MaxObject \in Nat

VARIABLES
  program,             \* "assemble" or "disassemble"
  step,                \* the next element of the program's objects
  null,                \* the objects that came out null
  api_phase,           \* what the program does next
  exit,                \* the exit status
  Index, decoded,      \* the loop counter, and history: what was decoded where
  turn,                \* history: flips with each turn of the loop
  emitted,             \* what has been written to the streamer's output stream,
  passed,              \* what that has handed on to DataStream,
  arrived,             \* what DataStream has put into Data or Disassembly,
  printed              \* and what of this the program has printed

streams == <<emitted, passed, arrived, printed>>
apiVars == <<program, step, null, api_phase, exit, Index, decoded, turn, streams>>

-----------------------------------------------------------------------------
(* The objects that the target's hooks create, in order: what the call and   *)
(* the code before it dereference, besides the target, and the exit status   *)
(* if the result is null, where that is tested.  A target may lack a hook.   *)

Unchecked == 99
Object(name, needs, onNull) == [name |-> name, needs |-> needs, onNull |-> onNull]

AssemblerObjects ==
  << Object("TheTarget", {}, 2),
     Object("MCII", {}, Unchecked),
     Object("MRI", {}, -1),
     Object("MAI", {"MRI"}, -1),
     Object("STI", {}, Unchecked),
     Object("MAB", {"MRI"}, Unchecked),
     Object("CE", {"MCII", "MRI"}, Unchecked),
     Object("TAP", {"MAB", "CE", "STI", "MCII"}, 1) >>

\* Mutant: the test of MRI is left out.
DisassemblerObjects_Mut ==
  << Object("TheTarget", {}, 2),
     Object("STI", {}, Unchecked),
     Object("MRI", {}, Unchecked),
     Object("MAI", {"MRI"}, -1),
     Object("DisAsm", {"STI"}, -1),
     Object("MCII", {}, Unchecked),
     Object("IP", {"MAI", "MCII", "MRI"}, Unchecked) >>

DisassemblerObjects ==
  << Object("TheTarget", {}, 2),
     Object("STI", {}, Unchecked),
     Object("MRI", {}, -1),
     Object("MAI", {"MRI"}, -1),
     Object("DisAsm", {"STI"}, -1),
     Object("MCII", {}, Unchecked),
     Object("IP", {"MAI", "MCII", "MRI"}, Unchecked) >>

Objects == IF program = "assemble" THEN AssemblerObjects ELSE DisassemblerObjects

Exit(status) == api_phase' = "exit" /\ exit' = status
Undefined == api_phase' = "undefined" /\ UNCHANGED exit

\* What the last part of each program dereferences.
Used == IF program = "assemble" THEN {"TAP"} ELSE {"DisAsm", "IP", "STI"}

Create ==
  /\ api_phase = "create"
  /\ step <= Len(Objects)
  /\ LET o == Objects[step] IN
     IF (o.needs \cup {"TheTarget"}) \cap null # {}
     THEN Undefined /\ UNCHANGED <<step, null>>
     ELSE \/ /\ step' = step + 1
             /\ UNCHANGED <<null, api_phase, exit>>
          \/ /\ null' = null \cup {o.name}
             /\ IF o.onNull = Unchecked
                THEN step' = step + 1 /\ UNCHANGED <<api_phase, exit>>
                ELSE Exit(o.onNull) /\ UNCHANGED step
  /\ UNCHANGED <<program, Index, decoded, turn, streams>>

Created ==
  /\ api_phase = "create"
  /\ step > Len(Objects)
  /\ IF Used \cap null # {}
     THEN Undefined
     ELSE /\ api_phase' = IF program = "assemble" THEN "parse" ELSE "decode"
          /\ UNCHANGED exit
  /\ UNCHANGED <<program, step, null, Index, decoded, turn, streams>>

-----------------------------------------------------------------------------
(* assemble.cpp *)

\* Mutant: DataStream is flushed before BOS is destroyed.
After_Mut == [parse |-> "flush", flush |-> "reset", reset |-> "print"]

After == [parse |-> "reset", reset |-> "flush", flush |-> "print"]

Quiet == UNCHANGED <<program, step, null, Index, decoded, turn>>

\* Parser->Run(true) writes the object to BOS, which keeps it, or fails.
Parse ==
  /\ api_phase = "parse"
  /\ \/ /\ \E n \in 1 .. MaxObject : emitted' = n
        /\ api_phase' = After["parse"]
        /\ UNCHANGED exit
     \/ Exit(1) /\ UNCHANGED emitted
  /\ UNCHANGED <<passed, arrived, printed>> /\ Quiet

\* BOS.reset(): its destructor writes all it has to DataStream, which has a
\* buffer of its own and may keep any part of that.
ResetBOS ==
  /\ api_phase = "reset"
  /\ passed' = emitted
  /\ arrived' \in arrived .. passed'
  /\ api_phase' = After["reset"]
  /\ UNCHANGED <<exit, emitted, printed>> /\ Quiet

\* DataStream->flush()
FlushDataStream ==
  /\ api_phase = "flush"
  /\ arrived' = passed
  /\ api_phase' = After["flush"]
  /\ UNCHANGED <<exit, emitted, passed, printed>> /\ Quiet

\* Data.length() and the bytes of Data, as they are now, are printed.
PrintData ==
  /\ api_phase = "print"
  /\ printed' = arrived
  /\ Exit(0)
  /\ UNCHANGED <<emitted, passed, arrived>> /\ Quiet

-----------------------------------------------------------------------------
(* disassemble.cpp *)

\* Mutant: Index += 4, the size of most instructions.
Advanced_Mut(size) == Index + 4

\* Mutant: Index is not advanced.
AdvancedNot_Mut(size) == Index

\* Index += Size
Advanced(size) == Index + size

\* getInstruction on what is left of the stream, and EmitInstruction; Fail and
\* SoftFail return.  The emitted text stays in FOut, and then in DataStream,
\* until they hand it on.
Decode ==
  /\ api_phase = "decode"
  /\ Index < StreamSize
  /\ \/ \E size \in Sizes :
          /\ Index + size <= StreamSize
          /\ decoded' = decoded \cup {[at |-> Index, size |-> size]}
          /\ Index' = Advanced(size)
          /\ emitted' = Cardinality(decoded')
          /\ passed' \in passed .. emitted'
          /\ arrived' \in arrived .. passed'
          /\ UNCHANGED <<api_phase, exit>>
     \/ Exit(1) /\ UNCHANGED <<Index, decoded, emitted, passed, arrived>>
  /\ turn' = 1 - turn
  /\ UNCHANGED <<program, step, null, printed>>

\* outs() << Disassembly, without a flush of FOut.
PrintDisassembly ==
  /\ api_phase = "decode"
  /\ Index >= StreamSize
  /\ printed' = arrived
  /\ Exit(0)
  /\ UNCHANGED <<emitted, passed, arrived>> /\ Quiet

ApiInit ==
  /\ program \in {"assemble", "disassemble"}
  /\ step = 1 /\ null = {}
  /\ api_phase = "create" /\ exit = 0
  /\ Index = 0 /\ decoded = {} /\ turn = 0
  /\ emitted = 0 /\ passed = 0 /\ arrived = 0 /\ printed = 0

ApiNext == \/ Create \/ Created
           \/ Parse \/ ResetBOS \/ FlushDataStream \/ PrintData
           \/ Decode \/ PrintDisassembly
ApiSpec == ApiInit /\ [][ApiNext]_apiVars

-----------------------------------------------------------------------------
(* Properties. *)

ApiTypeOK ==
  /\ step \in 1 .. Len(Objects) + 1
  /\ null \subseteq {Objects[k].name : k \in DOMAIN Objects}
  /\ api_phase \in {"create", "parse", "reset", "flush", "print", "decode", "exit",
                    "undefined"}
  /\ exit \in {-1, 0, 1, 2}
  /\ Index \in Nat /\ turn \in {0, 1} /\ decoded \subseteq [at : Nat, size : Sizes]
  /\ passed \in 0 .. emitted /\ arrived \in 0 .. passed /\ printed \in 0 .. arrived

Succeeded == api_phase = "exit" /\ exit = 0

(* A null object is never worked with unnoticed: a program that exits with 0 *)
(* had all of them, and one that runs into a null runs into one of those     *)
(* that it does not test (assemble.cpp:103-161, disassemble.cpp:99-163).     *)
NullsAreNoticed ==
  /\ Succeeded => null = {}
  /\ api_phase = "undefined" => null \cap {"MCII", "STI", "MAB", "CE", "IP"} # {}

(* Nothing of the stream is skipped or decoded twice: every byte belongs to  *)
(* exactly one of the instructions that a successful run has emitted, and    *)
(* none lies behind the end, whatever sizes the decoder reports              *)
(* (disassemble.cpp:170-185).                                                *)
Covers(d, byte) == d.at <= byte /\ byte < d.at + d.size
DecodesWholeStream ==
  Succeeded /\ program = "disassemble" =>
    /\ \A byte \in 0 .. StreamSize - 1 :
         \E d \in decoded : Covers(d, byte) /\ \A e \in decoded \ {d} : ~Covers(e, byte)
    /\ \A d \in decoded : d.at + d.size <= StreamSize

(* The bytes of the object go through two buffers one behind the other, and  *)
(* the program reads what lies behind both: it prints all of the object,     *)
(* however much of it the buffers have kept to themselves in between         *)
(* (assemble.cpp:143-144, 168-176).                                          *)
PrintsWholeObject == Succeeded /\ program = "assemble" => printed = emitted

(* The decoding loop ends, for any sizes of at least one byte.               *)
ProgramEnds == <>(api_phase \in {"exit", "undefined"})

=============================================================================
