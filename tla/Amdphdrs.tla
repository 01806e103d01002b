------------------------------ MODULE Amdphdrs ------------------------------
(***************************************************************************)
(* amdphdrs/amdphdrs.c: the input is copied block by block to the output,  *)
(* which is then opened as an ELF file and given program headers and       *)
(* section addresses.  A byte of a file is told apart by where it comes    *)
(* from: the i-th byte of the input is i, and 0 is any other.              *)
(***************************************************************************)
EXTENDS Integers, Sequences

CONSTANTS
  READ_SIZE,
  InputLengths,      \* lengths of the input
  OldLengths,        \* lengths of an output that exists already
  SectionTables,     \* the sections an input may have, in file order
  EhdrSize, PhdrSize

ASSUME AmdphdrsAssumption ==
  /\ READ_SIZE \in Nat \ {0}
  /\ InputLengths \subseteq Nat /\ OldLengths \subseteq Nat
  /\ EhdrSize \in Nat /\ PhdrSize \in Nat

VARIABLES
  phase,
  in_length, in_pos,           \* the input and the place of the next read
  out, out_pos,                \* the output and the place of the next write
  read_buf,                    \* not cleared, neither at first nor between reads
  short,                       \* history: a read or write was short, not at the end
  sections,                    \* the section table of the output
  has_data,
  section,                     \* how many sections the second scan has seen
  virtual_addr,
  phdr,                        \* the program headers, from index 0
  written,                     \* the sections as elf_update lays them out at last
  update_failed,               \* history: an elf_update has returned -1
  shdr_failed                  \* history: a section has not got its address

copyVars == <<in_length, in_pos, out, out_pos, read_buf, short>>
elfVars  == <<sections, has_data, section, virtual_addr, phdr, written, update_failed,
              shdr_failed>>
vars == <<phase, copyVars, elfVars>>

Section == [name : {".hsatext", ".hsadata_global_program", "other"},
            sh_size : Nat, sh_align : Nat \ {0}, sh_offset : Nat, sh_addr : Nat]

ASSUME TablesAssumption == SectionTables \subseteq Seq(Section)

NoPhdr == [p_type |-> "NULL", p_filesz |-> 0, p_vaddr |-> 0, p_offset |-> 0]

Fail == phase' = "failed"

-----------------------------------------------------------------------------
(* The copy. *)

\* Mutant: the buffer is filled as if every read were full.
Refill_Mut(n) == [i \in 1 .. READ_SIZE |-> in_pos + i]

Refill(n) == [i \in 1 .. READ_SIZE |-> IF i <= n THEN in_pos + i ELSE read_buf[i]]

\* read() returns a positive count; it may be short although there is more.
Read ==
  /\ phase = "read"
  /\ in_pos < in_length
  /\ \E n \in 1 .. READ_SIZE :
       /\ n <= in_length - in_pos
       /\ in_pos' = in_pos + n
       /\ read_buf' = Refill(n)
       /\ short' = (short \/ (n < READ_SIZE /\ n < in_length - in_pos))
  /\ phase' = "write"
  /\ UNCHANGED <<in_length, out, out_pos, elfVars>>

\* Also: a file that cannot be opened.
ReadFails ==
  /\ phase = "read"
  /\ Fail
  /\ UNCHANGED <<copyVars, elfVars>>

\* Mutant: the output is opened with O_APPEND.
WritePosition_Mut == Len(out)

WritePosition == out_pos

Overwrite(file, pos, block) ==
  SubSeq(file, 1, pos) \o block \o SubSeq(file, pos + Len(block) + 1, Len(file))

\* How much a write has to write: what is left of the input, or the whole
\* buffer if more of the input follows.
Needed == IF in_pos = in_length THEN in_length - out_pos ELSE READ_SIZE

\* write() always gets the whole buffer; only a negative result is an error.
Write ==
  /\ phase = "write"
  /\ \E n \in 1 .. READ_SIZE :
       /\ out' = Overwrite(out, WritePosition, SubSeq(read_buf, 1, n))
       /\ out_pos' = WritePosition + n
       /\ short' = (short \/ n < Needed)
  /\ phase' = "read"
  /\ UNCHANGED <<in_length, in_pos, read_buf, elfVars>>

WriteFails ==
  /\ phase = "write"
  /\ Fail
  /\ UNCHANGED <<copyVars, elfVars>>

-----------------------------------------------------------------------------
(* libelf (external). *)

Intact == in_length <= Len(out) /\ \A i \in 1 .. in_length : out[i] = i

RoundUp(n, align) == ((n + align - 1) \div align) * align

\* Sections follow the headers, each at its alignment.
Offsets(sizes, aligns, headers) ==
  LET offset[i \in DOMAIN sizes] ==
        RoundUp(IF i = 1 THEN EhdrSize + headers * PhdrSize
                ELSE offset[i - 1] + sizes[i - 1], aligns[i])
  IN offset

SectionSizes(s)  == [i \in DOMAIN s |-> s[i].sh_size]
SectionAligns(s) == [i \in DOMAIN s |-> s[i].sh_align]

Layout(s, headers) ==
  LET offset == Offsets(SectionSizes(s), SectionAligns(s), headers)
  IN [i \in DOMAIN s |-> [s[i] EXCEPT !.sh_offset = offset[i]]]

-----------------------------------------------------------------------------
(* The headers. *)

\* End of file, lseek, elf_begin, elf64_getehdr.  What the sections of a
\* damaged copy look like is not modelled: it ends in "damaged".
OpenElf ==
  /\ phase = "read"
  /\ in_pos = in_length
  /\ \/ /\ Intact
        /\ \E s \in SectionTables : sections' = Layout(s, 0)
        /\ phase' = "first_scan"
     \/ ~Intact /\ phase' = "damaged" /\ UNCHANGED sections
     \/ Fail /\ UNCHANGED sections
  /\ UNCHANGED <<copyVars, has_data, section, virtual_addr, phdr, written,
                 update_failed, shdr_failed>>

\* elf_getshdrstrndx, gelf_getshdr and elf_strptr are not checked: if one
\* fails, an index or a header is used that was never set, or strcmp gets no
\* name.  What follows is not modelled.
UnsetHeader == sections # << >> /\ phase' = "undefined"

FirstScan ==
  /\ phase = "first_scan"
  /\ \/ /\ has_data' = \E i \in DOMAIN sections : sections[i].name = ".hsadata_global_program"
        /\ phase' = "headers"
     \/ UnsetHeader /\ UNCHANGED has_data
  /\ UNCHANGED <<copyVars, sections, section, virtual_addr, phdr, written,
                 update_failed, shdr_failed>>

\* Mutant: elf_update(elf, ELF_C_NULL) is left out.
Updated_Mut(s, headers) == s

\* elf_update(elf, ELF_C_NULL)
Updated(s, headers) == Layout(s, headers)

\* gelf_newphdr and elf_update(elf, ELF_C_NULL): room for the headers is made
\* before the second scan looks at the offsets.  elf_update reports an error
\* by -1, and the code takes any result but 0 for a success.
NewPhdr ==
  /\ phase = "headers"
  /\ \/ /\ phdr' = IF has_data THEN <<NoPhdr, NoPhdr>> ELSE <<NoPhdr>>
        /\ \/ sections' = Updated(sections, Len(phdr')) /\ UNCHANGED update_failed
           \/ update_failed' = TRUE /\ UNCHANGED sections
        /\ phase' = "second_scan"
     \/ Fail /\ UNCHANGED <<phdr, sections, update_failed>>
  /\ UNCHANGED <<copyVars, has_data, section, virtual_addr, written, shdr_failed>>

Segment(type, s) ==
  [p_type |-> type, p_filesz |-> s.sh_size, p_vaddr |-> s.sh_addr, p_offset |-> s.sh_offset]

\* Mutant: the next section starts where this one did.
NextAddr_Mut(s) == virtual_addr

NextAddr(s) == virtual_addr + s.sh_size

\* The body of the second scan for a section that becomes a segment: the
\* update of the section is not checked, that of a program header is, and
\* fails for a header that has not been made.
Place(type, index) ==
  LET s == [sections[section + 1] EXCEPT !.sh_addr = virtual_addr] IN
  /\ \/ sections' = [sections EXCEPT ![section + 1] = s] /\ UNCHANGED shdr_failed
     \/ shdr_failed' = TRUE /\ UNCHANGED sections
  /\ virtual_addr' = NextAddr(s)
  /\ \/ /\ index < Len(phdr)
        /\ phdr' = [phdr EXCEPT ![index + 1] = Segment(type, s)]
        /\ section' = section + 1
        /\ UNCHANGED phase
     \/ Fail /\ UNCHANGED <<phdr, section>>

SecondScan ==
  /\ phase = "second_scan"
  /\ section < Len(sections)
  /\ LET name == sections[section + 1].name IN
     \/ name = ".hsatext" /\ Place("CODE", 0)
     \/ name = ".hsadata_global_program" /\ Place("GLOBAL_PROGRAM", 1)
     \/ /\ name = "other"
        /\ section' = section + 1
        /\ UNCHANGED <<phase, sections, virtual_addr, phdr, shdr_failed>>
     \/ UnsetHeader /\ UNCHANGED <<sections, section, virtual_addr, phdr, shdr_failed>>
  /\ UNCHANGED <<copyVars, has_data, written, update_failed>>

\* elf_update(elf, ELF_C_WRITE) lays the file out once more; if it fails, it
\* returns -1, as above, and main ends as if it had not.
WriteElf ==
  /\ phase = "second_scan"
  /\ section = Len(sections)
  /\ phase' = "done"
  /\ \/ written' = Layout(sections, Len(phdr)) /\ UNCHANGED update_failed
     \/ update_failed' = TRUE /\ UNCHANGED written
  /\ UNCHANGED <<copyVars, sections, has_data, section, virtual_addr, phdr, shdr_failed>>

Init ==
  /\ phase = "read"
  /\ in_length \in InputLengths
  /\ in_pos = 0
  /\ \E n \in OldLengths : out = [i \in 1 .. n |-> 0]
  /\ out_pos = 0
  /\ read_buf = [i \in 1 .. READ_SIZE |-> 0]
  /\ short = FALSE
  /\ sections = << >> /\ has_data = FALSE /\ section = 0
  /\ virtual_addr = 65536
  /\ phdr = << >> /\ written = << >> /\ update_failed = FALSE /\ shdr_failed = FALSE

Next == \/ Read \/ ReadFails \/ Write \/ WriteFails \/ OpenElf
        \/ FirstScan \/ NewPhdr \/ SecondScan \/ WriteElf

Spec == Init /\ [][Next]_vars

-----------------------------------------------------------------------------
(* Properties. *)

TypeOK ==
  /\ phase \in {"read", "write", "first_scan", "headers", "second_scan",
                "done", "failed", "damaged", "undefined"}
  /\ in_pos \in 0 .. in_length
  /\ out \in Seq(0 .. in_length) /\ out_pos \in 0 .. Len(out)
  /\ read_buf \in [1 .. READ_SIZE -> 0 .. in_length]
  /\ sections \in Seq(Section) /\ written \in Seq(Section)
  /\ section \in 0 .. Len(sections)
  /\ Len(phdr) <= 2 /\ update_failed \in BOOLEAN /\ shdr_failed \in BOOLEAN

(* Nothing of the input is lost or shifted, whatever the output held before  *)
(* and though each write has the size of the buffer (amdphdrs.c:104-110), as *)
(* long as a read is only short at the end of the input, and a write only of *)
(* what lies behind it.                                                      *)
OnlyShortCallsDamage == phase = "damaged" => short

IsSegmentOf(p, s) ==
  /\ p.p_offset = s.sh_offset /\ p.p_filesz = s.sh_size /\ p.p_vaddr = s.sh_addr

\* The sections of this name with no other of the name behind them.
LastNamed(name) ==
  {i \in DOMAIN written : written[i].name = name
     /\ \A j \in i + 1 .. Len(written) : written[j].name # name}

(* If no update of the file or of a section fails unnoticed, each program    *)
(* header has the place, the size and the address of its section in the file *)
(* that is written at last, although the headers themselves have moved the   *)
(* sections (amdphdrs.c:142-232).  Of several sections of one name it is the *)
(* last one's.                                                               *)
SegmentsMatchFile ==
  phase = "done" /\ ~update_failed /\ ~shdr_failed =>
    /\ \A i \in LastNamed(".hsatext") : IsSegmentOf(phdr[1], written[i])
    /\ \A i \in LastNamed(".hsadata_global_program") :
         Len(phdr) = 2 /\ IsSegmentOf(phdr[2], written[i])

(* Two segments never share an address (amdphdrs.c:81, 181-182, 208-209).    *)
SegmentsDisjoint ==
  phase = "done" /\ Len(phdr) = 2 /\ phdr[1] # NoPhdr =>
    \/ phdr[1].p_vaddr + phdr[1].p_filesz <= phdr[2].p_vaddr
    \/ phdr[2].p_vaddr + phdr[2].p_filesz <= phdr[1].p_vaddr

-----------------------------------------------------------------------------
(* What the code is meant to do and does not. *)

(* A failing elf_update is an error: main prints "Error elf_update" and      *)
(* returns EXIT_FAILURE (amdphdrs.c:160-163, 229-232).                       *)
UpdatesAreChecked == phase = "done" => ~update_failed

=============================================================================
