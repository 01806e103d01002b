--------------------------- MODULE AmdphdrsProofs ---------------------------
(***************************************************************************)
(* Amdphdrs for blocks and files of any length, and for any sections.  The *)
(* place of a section in the file is a recursion over the sections before  *)
(* it: equal sizes and alignments give equal places, and every place is a  *)
(* number.                                                                 *)
(***************************************************************************)
EXTENDS Amdphdrs, SequenceTheorems, WellFoundedInduction, TLAPS

-----------------------------------------------------------------------------
(* Files. *)

(* A function on the first numbers is a sequence.                            *)
LEMMA FunctionIsSeq ==
  ASSUME NEW S, NEW n \in Nat, NEW f \in [1 .. n -> S]
  PROVE  f \in Seq(S) /\ Len(f) = n
<1>1. Seq(S) = UNION {[1 .. m -> S] : m \in Nat}
  OBVIOUS
<1>2. f \in Seq(S)
  BY <1>1
<1>3. Len(f) \in Nat /\ DOMAIN f = 1 .. Len(f) /\ DOMAIN f = 1 .. n
  BY <1>2, LenProperties
<1>4. Len(f) = n
  <2>. DEFINE l == Len(f)
  <2>1. l \in Nat /\ 1 .. l = 1 .. n
    BY <1>3
  <2>. HIDE DEF l
  <2>2. l = n
    BY <2>1
  <2>3. QED BY <2>2 DEF l
<1>5. QED BY <1>2, <1>4

(* A write at pos keeps what is before it, puts the block there, and makes   *)
(* the file long enough.                                                     *)
LEMMA OverwriteEffect ==
  ASSUME NEW S, NEW file \in Seq(S), NEW pos \in 0 .. Len(file), NEW block \in Seq(S)
  PROVE  /\ Overwrite(file, pos, block) \in Seq(S)
         /\ Len(Overwrite(file, pos, block)) \in Nat
         /\ Len(Overwrite(file, pos, block)) >= pos + Len(block)
         /\ \A i \in 1 .. pos : Overwrite(file, pos, block)[i] = file[i]
         /\ \A i \in 1 .. Len(block) : Overwrite(file, pos, block)[pos + i] = block[i]
<1>. DEFINE front == SubSeq(file, 1, pos)
            from  == pos + Len(block) + 1
            back  == SubSeq(file, from, Len(file))
            head  == front \o block
<1>1. /\ Len(file) \in Nat /\ Len(block) \in Nat /\ pos \in Nat
      /\ \A i \in 1 .. Len(file) : file[i] \in S
  BY LenProperties, ElementOfSeq
<1>2. front \in Seq(S) /\ Len(front) = pos /\ \A i \in 1 .. pos : front[i] = file[i]
  <2>1. \A i \in 1 .. pos : file[i] \in S
    BY <1>1
  <2>2. /\ front \in Seq(S)
        /\ Len(front) = IF 1 <= pos THEN pos - 1 + 1 ELSE 0
        /\ \A i \in 1 .. pos - 1 + 1 : front[i] = file[1 + i - 1]
    BY <1>1, <2>1, SubSeqProperties
  <2>. HIDE DEF front
  <2>3. Len(front) = pos
    BY <1>1, <2>2
  <2>4. \A i \in 1 .. pos : i \in 1 .. pos - 1 + 1 /\ 1 + i - 1 = i
    BY <1>1
  <2>5. \A i \in 1 .. pos : front[i] = file[i]
    BY <2>2, <2>4
  <2>6. QED BY <2>2, <2>3, <2>5
<1>3. back \in Seq(S) /\ Len(back) \in Nat
  <2>1. from \in Int /\ \A i \in from .. Len(file) : file[i] \in S
    BY <1>1
  <2>. HIDE DEF from
  <2>2. back \in Seq(S)
    BY <1>1, <2>1, SubSeqProperties
  <2>. HIDE DEF back
  <2>3. QED BY <2>2, LenProperties
<1>4. Overwrite(file, pos, block) = head \o back
  BY DEF Overwrite
<1>. HIDE DEF front, back, from
<1>5. /\ head \in Seq(S) /\ Len(head) = pos + Len(block)
      /\ \A i \in 1 .. pos + Len(block) :
           head[i] = IF i <= pos THEN front[i] ELSE block[i - pos]
  BY <1>1, <1>2, ConcatProperties
<1>. HIDE DEF head
<1>6. /\ head \o back \in Seq(S) /\ Len(head \o back) = Len(head) + Len(back)
      /\ \A i \in 1 .. Len(head) + Len(back) :
           (head \o back)[i] = IF i <= Len(head) THEN head[i] ELSE back[i - Len(head)]
  BY <1>3, <1>5, ConcatProperties
<1>7. \A i \in 1 .. pos + Len(block) : (head \o back)[i] = head[i]
  BY <1>1, <1>3, <1>5, <1>6
<1>8. \A i \in 1 .. pos : (head \o back)[i] = file[i]
  BY <1>1, <1>2, <1>5, <1>7
<1>9. \A i \in 1 .. Len(block) : (head \o back)[pos + i] = block[i]
  <2>1. \A i \in 1 .. Len(block) :
          pos + i \in 1 .. pos + Len(block) /\ ~(pos + i <= pos) /\ pos + i - pos = i
    BY <1>1
  <2>2. QED BY <1>5, <1>7, <2>1
<1>10. QED BY <1>1, <1>3, <1>4, <1>5, <1>6, <1>8, <1>9

(* The block that is written is the buffer's beginning.                      *)
LEMMA BlockEffect ==
  ASSUME NEW S, NEW size \in Nat, NEW buf \in [1 .. size -> S], NEW n \in 1 .. size
  PROVE  /\ SubSeq(buf, 1, n) \in Seq(S) /\ Len(SubSeq(buf, 1, n)) = n
         /\ \A i \in 1 .. n : SubSeq(buf, 1, n)[i] = buf[i]
<1>. DEFINE block == SubSeq(buf, 1, n)
<1>1. n \in Nat \ {0} /\ \A i \in 1 .. n : buf[i] \in S
  OBVIOUS
<1>2. /\ block \in Seq(S)
      /\ Len(block) = IF 1 <= n THEN n - 1 + 1 ELSE 0
      /\ \A i \in 1 .. n - 1 + 1 : block[i] = buf[1 + i - 1]
  BY <1>1, SubSeqProperties
<1>. HIDE DEF block
<1>3. \A i \in 1 .. n : i \in 1 .. n - 1 + 1 /\ 1 + i - 1 = i
  BY <1>1
<1>4. Len(block) = n /\ \A i \in 1 .. n : block[i] = buf[i]
  BY <1>1, <1>2, <1>3
<1>5. QED BY <1>2, <1>4 DEF block

-----------------------------------------------------------------------------
(* The copy. *)

CopyTypes ==
  /\ in_length \in Nat /\ in_pos \in 0 .. in_length
  /\ out \in Seq(0 .. in_length) /\ out_pos \in 0 .. Len(out)
  /\ read_buf \in [1 .. READ_SIZE -> 0 .. in_length]

\* The first n bytes of the output are the input's.
Copied(n) == n <= Len(out) /\ \A i \in 1 .. n : out[i] = i

\* Before a read everything read has been written; only the last block, which
\* is padded, leaves the output ahead of the input.
BeforeRead == Copied(in_pos) /\ (in_pos < in_length => out_pos = in_pos)

\* Before a write the buffer holds what comes next, and is full if more follows.
BeforeWrite ==
  /\ Copied(out_pos)
  /\ out_pos < in_pos /\ in_pos <= out_pos + READ_SIZE
  /\ in_pos < in_length => in_pos = out_pos + READ_SIZE
  /\ \A i \in 1 .. in_pos - out_pos : read_buf[i] = out_pos + i

CopyInv ==
  /\ CopyTypes
  /\ ~short /\ phase = "read" => BeforeRead
  /\ ~short /\ phase = "write" => BeforeWrite
  /\ phase = "damaged" => short

LEMMA CopyInit ==
  ASSUME Init
  PROVE  CopyInv
<1>1. READ_SIZE \in Nat \ {0} /\ in_length \in Nat /\ in_pos = 0 /\ out_pos = 0
  BY AmdphdrsAssumption DEF Init
<1>2. out \in Seq(0 .. in_length)
  <2>1. PICK n \in OldLengths : out = [i \in 1 .. n |-> 0]
    BY DEF Init
  <2>2. n \in Nat /\ out \in [1 .. n -> 0 .. in_length]
    BY <1>1, <2>1, AmdphdrsAssumption
  <2>3. QED BY <2>2, FunctionIsSeq
<1>3. Len(out) \in Nat
  BY <1>2, LenProperties
<1>4. CopyTypes
  <2>1. read_buf \in [1 .. READ_SIZE -> 0 .. in_length]
    BY <1>1 DEF Init
  <2>2. QED BY <1>1, <1>2, <1>3, <2>1 DEF CopyTypes
<1>5. BeforeRead
  BY <1>1, <1>3 DEF BeforeRead, Copied
<1>6. QED BY <1>4, <1>5 DEF CopyInv, Init

LEMMA ReadKeeps ==
  ASSUME CopyInv, Read
  PROVE  CopyInv'
<1>. READ_SIZE \in Nat \ {0}
  BY AmdphdrsAssumption
<1>1. PICK n \in 1 .. READ_SIZE :
        /\ n <= in_length - in_pos
        /\ in_pos' = in_pos + n
        /\ read_buf' = Refill(n)
        /\ short' = (short \/ (n < READ_SIZE /\ n < in_length - in_pos))
  BY DEF Read
<1>2. /\ phase = "read" /\ phase' = "write" /\ in_pos < in_length
      /\ UNCHANGED <<in_length, out, out_pos>>
  BY DEF Read
<1>3. in_length \in Nat /\ in_pos \in Nat /\ Len(out) \in Nat /\ out_pos \in Nat
  BY LenProperties DEF CopyInv, CopyTypes
<1>4. read_buf' \in [1 .. READ_SIZE -> 0 .. in_length]
  BY <1>1, <1>2, <1>3 DEF CopyInv, CopyTypes, Refill
<1>5. CopyTypes'
  BY <1>1, <1>2, <1>3, <1>4 DEF CopyInv, CopyTypes
<1>6. ASSUME ~short'
      PROVE  BeforeWrite'
  <2>1. ~short /\ (n = READ_SIZE \/ n = in_length - in_pos)
    <3>1. ~(short \/ (n < READ_SIZE /\ n < in_length - in_pos))
      BY <1>1, <1>6
    <3>2. ~short /\ ~(n < READ_SIZE /\ n < in_length - in_pos)
      BY <3>1
    <3>3. n = READ_SIZE \/ n = in_length - in_pos
      BY <1>1, <1>3, <3>2
    <3>4. QED BY <3>2, <3>3
  <2>2. out_pos = in_pos /\ Copied(in_pos)
    BY <1>2, <2>1 DEF CopyInv, BeforeRead
  <2>3. in_pos' - out_pos' = n /\ out_pos' = in_pos
    BY <1>1, <1>2, <1>3, <2>2
  <2>4. \A i \in 1 .. n : read_buf'[i] = out_pos' + i
    BY <1>1, <2>3 DEF Refill
  <2>5. Copied(out_pos)'
    BY <1>2, <2>2 DEF Copied
  <2>6. QED BY <1>1, <1>2, <1>3, <2>1, <2>2, <2>3, <2>4, <2>5 DEF BeforeWrite
<1>7. QED BY <1>2, <1>5, <1>6 DEF CopyInv

LEMMA WriteKeeps ==
  ASSUME CopyInv, Write
  PROVE  CopyInv'
<1>. READ_SIZE \in Nat \ {0}
  BY AmdphdrsAssumption
<1>1. PICK n \in 1 .. READ_SIZE :
        /\ out' = Overwrite(out, out_pos, SubSeq(read_buf, 1, n))
        /\ out_pos' = out_pos + n
        /\ short' = (short \/ n < Needed)
  BY DEF Write, WritePosition
<1>2. /\ phase = "write" /\ phase' = "read"
      /\ UNCHANGED <<in_length, in_pos, read_buf>>
  BY DEF Write
<1>3. /\ in_length \in Nat /\ in_pos \in 0 .. in_length
      /\ Len(out) \in Nat /\ out_pos \in 0 .. Len(out)
      /\ read_buf \in [1 .. READ_SIZE -> 0 .. in_length]
  BY LenProperties DEF CopyInv, CopyTypes
<1>4. /\ SubSeq(read_buf, 1, n) \in Seq(0 .. in_length)
      /\ Len(SubSeq(read_buf, 1, n)) = n
      /\ \A i \in 1 .. n : SubSeq(read_buf, 1, n)[i] = read_buf[i]
  BY <1>3, BlockEffect
<1>5. /\ out' \in Seq(0 .. in_length)
      /\ Len(out') \in Nat /\ Len(out') >= out_pos + n
      /\ \A i \in 1 .. out_pos : out'[i] = out[i]
      /\ \A i \in 1 .. n : out'[out_pos + i] = read_buf[i]
  <2>. DEFINE block == SubSeq(read_buf, 1, n)
              Bytes == 0 .. in_length
  <2>1. /\ block \in Seq(Bytes) /\ Len(block) = n
        /\ \A i \in 1 .. n : block[i] = read_buf[i]
        /\ out' = Overwrite(out, out_pos, block)
    BY <1>1, <1>4
  <2>2. out \in Seq(Bytes) /\ out_pos \in 0 .. Len(out)
    BY DEF CopyInv, CopyTypes
  <2>. HIDE DEF block, Bytes
  <2>3. block \in Seq(Bytes)
    BY <2>1
  <2>4. out' \in Seq(Bytes) /\ Len(out') \in Nat
    <3>1. out' \in Seq(Bytes)
      BY <2>1, <2>2, <2>3, OverwriteEffect
    <3>2. QED BY <3>1, LenProperties
  <2>5. Len(out') >= out_pos + Len(block)
    BY <2>1, <2>2, <2>3, OverwriteEffect
  <2>6. \A i \in 1 .. out_pos : out'[i] = out[i]
    BY <2>1, <2>2, <2>3, OverwriteEffect
  <2>7. \A i \in 1 .. Len(block) : out'[out_pos + i] = block[i]
    <3>1. \A i \in 1 .. Len(block) : Overwrite(out, out_pos, block)[out_pos + i] = block[i]
      BY <2>2, <2>3, OverwriteEffect
    <3>2. out' = Overwrite(out, out_pos, block)
      BY <2>1
    <3>3. QED BY <3>1, <3>2
  <2>8. QED BY <2>1, <2>4, <2>5, <2>6, <2>7 DEF Bytes
<1>6. CopyTypes'
  <2>1. out_pos' \in 0 .. Len(out')
    BY <1>1, <1>3, <1>5
  <2>2. QED BY <1>2, <1>3, <1>5, <2>1 DEF CopyTypes
<1>7. ASSUME ~short'
      PROVE  BeforeRead'
  <2>0. ~short /\ ~(n < Needed)
    <3>1. ~(short \/ n < Needed)
      BY <1>1, <1>7
    <3>2. QED BY <3>1
  <2>2. BeforeWrite
    BY <1>2, <2>0 DEF CopyInv
  <2>1. n >= in_pos - out_pos /\ (in_pos < in_length => n = READ_SIZE)
    <3>1. CASE in_pos = in_length
      BY <1>3, <2>0, <3>1 DEF Needed
    <3>2. CASE in_pos < in_length
      <4>1. Needed = READ_SIZE
        BY <1>3, <3>2 DEF Needed
      <4>2. n = READ_SIZE
        BY <2>0, <4>1
      <4>3. QED BY <1>3, <2>2, <3>2, <4>2 DEF BeforeWrite
    <3>3. QED BY <1>3, <3>1, <3>2
  <2>3. ASSUME NEW i \in 1 .. in_pos
        PROVE  out'[i] = i
    <3>1. CASE i <= out_pos
      <4>1. i \in 1 .. out_pos
        BY <1>3, <3>1
      <4>2. QED BY <1>5, <2>2, <4>1 DEF BeforeWrite, Copied
    <3>2. CASE i > out_pos
      <4>1. i - out_pos \in 1 .. n /\ i - out_pos \in 1 .. in_pos - out_pos
        BY <1>3, <2>1, <2>2, <3>2 DEF BeforeWrite
      <4>2. out'[out_pos + (i - out_pos)] = out_pos + (i - out_pos)
        BY <1>5, <2>2, <4>1 DEF BeforeWrite
      <4>3. out_pos + (i - out_pos) = i
        BY <1>3
      <4>4. QED BY <4>2, <4>3
    <3>3. QED BY <1>3, <3>1, <3>2
  <2>4. in_pos <= Len(out')
    BY <1>3, <1>5, <2>1, <2>2 DEF BeforeWrite
  <2>5. in_pos < in_length => out_pos' = in_pos
    BY <1>1, <2>1, <2>2 DEF BeforeWrite
  <2>6. QED BY <1>2, <2>3, <2>4, <2>5 DEF BeforeRead, Copied
<1>8. QED BY <1>2, <1>6, <1>7 DEF CopyInv

(* At the end of the file a copy without short calls is intact.              *)
LEMMA OpenElfKeeps ==
  ASSUME CopyInv, OpenElf
  PROVE  CopyInv'
<1>1. phase = "read" /\ in_pos = in_length /\ UNCHANGED copyVars
  BY DEF OpenElf
<1>2. ~short => Intact
  BY <1>1 DEF CopyInv, BeforeRead, Copied, Intact
<1>3. phase' \in {"first_scan", "damaged", "failed"} /\ (phase' = "damaged" => ~Intact)
  BY DEF OpenElf, Fail
<1>4. QED BY <1>1, <1>2, <1>3 DEF CopyInv, CopyTypes, copyVars

LEMMA CopyStepKeeps ==
  ASSUME CopyInv, [Next]_vars
  PROVE  CopyInv'
<1>1. CASE Read      BY <1>1, ReadKeeps
<1>2. CASE Write     BY <1>2, WriteKeeps
<1>3. CASE OpenElf   BY <1>3, OpenElfKeeps
<1>4. CASE ReadFails \/ WriteFails \/ FirstScan \/ NewPhdr \/ SecondScan \/ WriteElf
  <2>1. UNCHANGED copyVars
    BY <1>4 DEF ReadFails, WriteFails, FirstScan, NewPhdr, SecondScan, WriteElf
  <2>2. phase' \notin {"read", "write", "damaged"}
    BY <1>4 DEF ReadFails, WriteFails, FirstScan, NewPhdr, SecondScan, WriteElf, Place, Fail,
                UnsetHeader
  <2>3. QED BY <2>1, <2>2 DEF CopyInv, CopyTypes, copyVars
<1>5. CASE UNCHANGED vars
  BY <1>5 DEF CopyInv, CopyTypes, BeforeRead, BeforeWrite, Copied, vars, copyVars
<1>6. QED BY <1>1, <1>2, <1>3, <1>4, <1>5 DEF Next

(* For blocks, inputs and older outputs of any length, the copy is damaged   *)
(* only if a read or write was short before the end (amdphdrs.c:104-110).    *)
THEOREM CopyIntact == Spec => []OnlyShortCallsDamage
<1>1. Init => CopyInv
  BY CopyInit
<1>2. CopyInv /\ [Next]_vars => CopyInv'
  BY CopyStepKeeps
<1>3. CopyInv => OnlyShortCallsDamage
  BY DEF CopyInv, OnlyShortCallsDamage
<1>4. QED BY <1>1, <1>2, <1>3, PTL DEF Spec

-----------------------------------------------------------------------------
(* The segments. *)

IsSeq(s) == \E S : s \in Seq(S)

\* A section with a size; its place in the file may be anything.
Sized(s) ==
  /\ s = [name |-> s.name, sh_size |-> s.sh_size, sh_align |-> s.sh_align,
          sh_offset |-> s.sh_offset, sh_addr |-> s.sh_addr]
  /\ s.sh_size \in Nat

SizedTable(t) == IsSeq(t) /\ \A i \in 1 .. Len(t) : Sized(t[i])

Apart(p, q) ==
  p.p_vaddr + p.p_filesz <= q.p_vaddr \/ q.p_vaddr + q.p_filesz <= p.p_vaddr

\* Every address that has been given lies below the next one.
Below(p, addr) ==
  p.p_vaddr \in Nat /\ p.p_filesz \in Nat /\ p.p_vaddr + p.p_filesz <= addr

SegInv ==
  /\ virtual_addr \in Nat /\ section \in Nat
  /\ SizedTable(sections)
  /\ IsSeq(phdr) /\ Len(phdr) \in 0 .. 2
  /\ \A k \in 1 .. Len(phdr) : Below(phdr[k], virtual_addr)
  /\ Len(phdr) = 2 => Apart(phdr[1], phdr[2])

(* Replacing an element keeps a sequence and its length.                     *)
LEMMA ReplaceEffect ==
  ASSUME NEW s, IsSeq(s), NEW i \in 1 .. Len(s), NEW e
  PROVE  /\ IsSeq([s EXCEPT ![i] = e])
         /\ Len([s EXCEPT ![i] = e]) = Len(s)
         /\ \A j \in 1 .. Len(s) : [s EXCEPT ![i] = e][j] = IF j = i THEN e ELSE s[j]
<1>1. PICK S : s \in Seq(S)
  BY DEF IsSeq
<1>. DEFINE T == S \cup {e}
            r == [s EXCEPT ![i] = e]
<1>2. s \in Seq(T) /\ e \in T
  BY <1>1, SeqMonotonic
<1>3. /\ r \in Seq(T) /\ Len(r) = Len(s)
      /\ \A j \in 1 .. Len(s) : r[j] = IF j = i THEN e ELSE s[j]
  <2>. HIDE DEF T
  <2>1. QED BY <1>2, ExceptSeq
<1>4. QED BY <1>3 DEF IsSeq

(* libelf's layout changes the places of the sections and nothing else.      *)
LEMMA LayoutEffect ==
  ASSUME NEW s, SizedTable(s), NEW headers
  PROVE  /\ SizedTable(Layout(s, headers)) /\ Len(Layout(s, headers)) = Len(s)
         /\ \A i \in 1 .. Len(s) :
              Layout(s, headers)[i] =
                [name |-> s[i].name, sh_size |-> s[i].sh_size, sh_align |-> s[i].sh_align,
                 sh_offset |-> Offsets(SectionSizes(s), SectionAligns(s), headers)[i],
                 sh_addr |-> s[i].sh_addr]
<1>. DEFINE o == Offsets(SectionSizes(s), SectionAligns(s), headers)
            r == Layout(s, headers)
            T == {r[i] : i \in 1 .. Len(s)}
<1>2. Len(s) \in Nat /\ DOMAIN s = 1 .. Len(s)
  BY LenProperties DEF SizedTable, IsSeq
<1>1. r = [i \in 1 .. Len(s) |-> [s[i] EXCEPT !.sh_offset = o[i]]]
  BY <1>2 DEF Layout
<1>. HIDE DEF o
<1>3. r \in [1 .. Len(s) -> T]
  BY <1>1
<1>4. r \in Seq(T) /\ Len(r) = Len(s)
  <2>. HIDE DEF r, T
  <2>1. QED BY <1>2, <1>3, FunctionIsSeq
<1>5. ASSUME NEW i \in 1 .. Len(s)
      PROVE  /\ Sized(r[i])
             /\ r[i] = [name |-> s[i].name, sh_size |-> s[i].sh_size,
                        sh_align |-> s[i].sh_align, sh_offset |-> o[i],
                        sh_addr |-> s[i].sh_addr]
  <2>1. Sized(s[i]) /\ r[i] = [s[i] EXCEPT !.sh_offset = o[i]]
    BY <1>1 DEF SizedTable
  <2>2. r[i] = [name |-> s[i].name, sh_size |-> s[i].sh_size, sh_align |-> s[i].sh_align,
                sh_offset |-> o[i], sh_addr |-> s[i].sh_addr]
    BY <2>1 DEF Sized
  <2>. HIDE DEF r
  <2>3. QED BY <2>1, <2>2 DEF Sized
<1>6. QED BY <1>4, <1>5 DEF SizedTable, IsSeq, o

(* A section that becomes a segment gets the next address, and the one after *)
(* it is not below its end.                                                  *)
LEMMA PlaceKeeps ==
  ASSUME SegInv, section < Len(sections), NEW type, NEW index \in {0, 1},
         Place(type, index)
  PROVE  SegInv'
<1>. DEFINE old == sections[section + 1]
            s   == [old EXCEPT !.sh_addr = virtual_addr]
<1>1. section + 1 \in 1 .. Len(sections) /\ Len(sections) \in Nat
  BY LenProperties DEF SegInv, SizedTable, IsSeq
<1>2. Sized(old)
  BY <1>1 DEF SegInv, SizedTable
<1>3. s = [name |-> old.name, sh_size |-> old.sh_size, sh_align |-> old.sh_align,
           sh_offset |-> old.sh_offset, sh_addr |-> virtual_addr]
  BY <1>2 DEF Sized
<1>4. s.sh_size \in Nat /\ s.sh_addr = virtual_addr /\ Sized(s)
  BY <1>2, <1>3 DEF Sized
<1>5. /\ sections' = [sections EXCEPT ![section + 1] = s] \/ UNCHANGED sections
      /\ virtual_addr' = virtual_addr + s.sh_size
      /\ \/ /\ index < Len(phdr)
            /\ phdr' = [phdr EXCEPT ![index + 1] = Segment(type, s)]
            /\ section' = section + 1
         \/ UNCHANGED <<phdr, section>>
  BY DEF Place, NextAddr
<1>. HIDE DEF s, old
<1>6. SizedTable(sections')
  <2>1. CASE sections' = [sections EXCEPT ![section + 1] = s]
    <3>. DEFINE n == section + 1
                r == [sections EXCEPT ![n] = s]
    <3>1. IsSeq(sections) /\ n \in 1 .. Len(sections)
      BY <1>1 DEF SegInv, SizedTable
    <3>. HIDE DEF n, IsSeq
    <3>2. /\ IsSeq(r) /\ Len(r) = Len(sections)
          /\ \A j \in 1 .. Len(sections) : r[j] = IF j = n THEN s ELSE sections[j]
      BY <3>1, ReplaceEffect
    <3>3. sections' = r
      BY <2>1 DEF n
    <3>. HIDE DEF r
    <3>4. SizedTable(r)
      BY <1>4, <3>2 DEF SegInv, SizedTable
    <3>5. QED BY <3>3, <3>4
  <2>2. CASE UNCHANGED sections
    BY <2>2 DEF SegInv
  <2>3. QED BY <1>5, <2>1, <2>2
<1>7. virtual_addr' \in Nat /\ virtual_addr' >= virtual_addr /\ section' \in Nat
  BY <1>4, <1>5 DEF SegInv
<1>8. ASSUME NEW p, Below(p, virtual_addr)
      PROVE  Below(p, virtual_addr')
  BY <1>4, <1>5, <1>8 DEF Below, SegInv
<1>9. CASE UNCHANGED <<phdr, section>>
  BY <1>6, <1>7, <1>8, <1>9 DEF SegInv
<1>10. CASE index < Len(phdr) /\ phdr' = [phdr EXCEPT ![index + 1] = Segment(type, s)]
  <2>. DEFINE p == Segment(type, s)
  <2>1. p.p_vaddr = virtual_addr /\ p.p_filesz = s.sh_size
    BY <1>4 DEF Segment
  <2>2. Below(p, virtual_addr') /\ virtual_addr \in Nat
    BY <1>4, <1>5, <2>1 DEF Below, SegInv
  <2>3. index + 1 \in 1 .. Len(phdr) /\ Len(phdr) \in 0 .. 2 /\ IsSeq(phdr)
    BY <1>10 DEF SegInv
  <2>. HIDE DEF p
  <2>4. /\ IsSeq(phdr') /\ Len(phdr') = Len(phdr)
        /\ \A k \in 1 .. Len(phdr) : phdr'[k] = IF k = index + 1 THEN p ELSE phdr[k]
    <3>1. /\ IsSeq([phdr EXCEPT ![index + 1] = p])
          /\ Len([phdr EXCEPT ![index + 1] = p]) = Len(phdr)
          /\ \A k \in 1 .. Len(phdr) :
               [phdr EXCEPT ![index + 1] = p][k] = IF k = index + 1 THEN p ELSE phdr[k]
      BY <2>3, ReplaceEffect
    <3>2. phdr' = [phdr EXCEPT ![index + 1] = p]
      BY <1>10 DEF p
    <3>3. QED BY <3>1, <3>2
  <2>5. \A k \in 1 .. Len(phdr') : Below(phdr'[k], virtual_addr')
    BY <1>8, <2>2, <2>4 DEF SegInv
  <2>6. ASSUME Len(phdr') = 2
        PROVE  Apart(phdr'[1], phdr'[2])
    <3>1. \A q : Below(q, virtual_addr) => Apart(p, q) /\ Apart(q, p)
      BY <2>1 DEF Below, Apart
    <3>2. Below(phdr[1], virtual_addr) /\ Below(phdr[2], virtual_addr)
      BY <2>4, <2>6 DEF SegInv
    <3>3. CASE index = 0
      BY <2>4, <2>6, <3>1, <3>2, <3>3
    <3>4. CASE index = 1
      BY <2>4, <2>6, <3>1, <3>2, <3>4
    <3>5. QED BY <3>3, <3>4
  <2>7. QED BY <1>6, <1>7, <2>3, <2>4, <2>5, <2>6 DEF SegInv
<1>11. QED BY <1>5, <1>9, <1>10

LEMMA SegInit ==
  ASSUME Init
  PROVE  SegInv
<1>1. << >> \in Seq({}) /\ Len(<< >>) = 0
  BY EmptySeq
<1>2. sections = << >> /\ phdr = << >> /\ virtual_addr = 65536 /\ section = 0
  BY DEF Init
<1>3. QED BY <1>1, <1>2 DEF SegInv, SizedTable, IsSeq

(* The headers are made empty: they lie at address 0 and end there.          *)
LEMMA NewPhdrKeeps ==
  ASSUME SegInv, NewPhdr
  PROVE  SegInv'
<1>1. UNCHANGED <<section, virtual_addr>>
  BY DEF NewPhdr
<1>2. SizedTable(sections')
  <2>1. sections' = sections \/ \E headers : sections' = Layout(sections, headers)
    BY DEF NewPhdr, Updated
  <2>2. QED BY <2>1, LayoutEffect DEF SegInv
<1>3. phdr' \in {phdr, <<NoPhdr>>, <<NoPhdr, NoPhdr>>}
  BY DEF NewPhdr
<1>4. CASE phdr' = phdr
  BY <1>1, <1>2, <1>4 DEF SegInv
<1>5. CASE phdr' \in {<<NoPhdr>>, <<NoPhdr, NoPhdr>>}
  <2>1. phdr' \in Seq({NoPhdr}) /\ Len(phdr') \in {1, 2}
    <3>. DEFINE n == NoPhdr
    <3>1. phdr' \in {<<n>>, <<n, n>>}
      BY <1>5
    <3>. HIDE DEF n
    <3>2. <<n>> \in Seq({n}) /\ <<n, n>> \in Seq({n}) /\ Len(<<n>>) = 1 /\ Len(<<n, n>>) = 2
      OBVIOUS
    <3>3. phdr' \in Seq({n}) /\ Len(phdr') \in {1, 2}
      BY <3>1, <3>2
    <3>4. QED BY <3>3 DEF n
  <2>2. \A k \in 1 .. Len(phdr') : phdr'[k] = NoPhdr
    BY <1>5
  <2>3. Below(NoPhdr, virtual_addr) /\ Apart(NoPhdr, NoPhdr)
    BY DEF SegInv, NoPhdr, Below, Apart
  <2>4. \A k \in 1 .. Len(phdr') : Below(phdr'[k], virtual_addr')
    BY <1>1, <2>2, <2>3
  <2>5. Len(phdr') = 2 => Apart(phdr'[1], phdr'[2])
    BY <2>2, <2>3
  <2>6. QED BY <1>1, <1>2, <2>1, <2>4, <2>5 DEF SegInv, IsSeq
<1>6. QED BY <1>3, <1>4, <1>5

LEMMA SegStepKeeps ==
  ASSUME SegInv, [Next]_vars
  PROVE  SegInv'
<1>1. CASE OpenElf
  <2>1. UNCHANGED <<section, virtual_addr, phdr>>
    BY <1>1 DEF OpenElf
  <2>2. ASSUME NEW t \in SectionTables
        PROVE  SizedTable(t)
    <3>1. t \in Seq(Section)
      BY <2>2, TablesAssumption
    <3>2. \A i \in 1 .. Len(t) : t[i] \in Section
      BY <3>1, ElementOfSeq
    <3>3. \A r \in Section : Sized(r)
      BY DEF Section, Sized
    <3>4. QED BY <3>1, <3>2, <3>3 DEF SizedTable, IsSeq
  <2>3. sections' = sections \/ \E t \in SectionTables : sections' = Layout(t, 0)
    BY <1>1 DEF OpenElf
  <2>4. SizedTable(sections')
    BY <2>2, <2>3, LayoutEffect DEF SegInv
  <2>5. QED BY <2>1, <2>4 DEF SegInv
<1>2. CASE NewPhdr
  BY <1>2, NewPhdrKeeps
<1>3. CASE SecondScan
  <2>1. CASE \E type : \E index \in {0, 1} : Place(type, index)
    BY <1>3, <2>1, PlaceKeeps DEF SecondScan
  <2>2. CASE section' = section + 1 /\ UNCHANGED <<sections, virtual_addr, phdr>>
    BY <2>2 DEF SegInv
  <2>3. CASE UNCHANGED <<sections, section, virtual_addr, phdr>>
    BY <2>3 DEF SegInv
  <2>4. QED BY <1>3, <2>1, <2>2, <2>3 DEF SecondScan
<1>4. CASE \/ Read \/ ReadFails \/ Write \/ WriteFails \/ FirstScan \/ WriteElf
           \/ UNCHANGED vars
  <2>1. UNCHANGED <<sections, section, virtual_addr, phdr>>
    BY <1>4 DEF Read, ReadFails, Write, WriteFails, FirstScan, WriteElf, vars, elfVars
  <2>2. QED BY <2>1 DEF SegInv
<1>5. QED BY <1>1, <1>2, <1>3, <1>4 DEF Next

(* For any sections, two segments never share an address (amdphdrs.c:81,     *)
(* 181-182, 208-209).                                                        *)
THEOREM SegmentsApart == Spec => []SegmentsDisjoint
<1>1. Init => SegInv
  BY SegInit
<1>2. SegInv /\ [Next]_vars => SegInv'
  BY SegStepKeeps
<1>3. SegInv => SegmentsDisjoint
  BY DEF SegInv, SegmentsDisjoint, Apart
<1>4. QED BY <1>1, <1>2, <1>3, PTL DEF Spec

-----------------------------------------------------------------------------
(* The headers and the file. *)

\* Each section is where the layout for these headers puts it.
Settled(t, headers) ==
  LET offset == Offsets(SectionSizes(t), SectionAligns(t), headers)
  IN \A i \in 1 .. Len(t) : t[i].sh_offset = offset[i]

\* Of the first n sections, i is the last one of this name.
LastOf(t, name, n, i) ==
  t[i].name = name /\ \A j \in i + 1 .. n : t[j].name # name

\* What the first n sections have left in the headers.
Described(t, n) ==
  /\ \A i \in 1 .. n : LastOf(t, ".hsatext", n, i) =>
       Len(phdr) >= 1 /\ IsSegmentOf(phdr[1], t[i])
  /\ \A i \in 1 .. n : LastOf(t, ".hsadata_global_program", n, i) =>
       Len(phdr) = 2 /\ IsSegmentOf(phdr[2], t[i])

MatchInv ==
  /\ phase \notin {"second_scan", "done", "failed", "undefined"} => section = 0
  /\ phase \in {"second_scan", "done"} /\ ~update_failed /\ ~shdr_failed =>
       /\ section <= Len(sections)
       /\ Settled(sections, Len(phdr))
       /\ Described(sections, section)
  /\ phase = "done" /\ ~update_failed /\ ~shdr_failed =>
       section = Len(sections) /\ written = Layout(sections, Len(phdr))

(* A table of the same dimensions is settled at the same places.             *)
LEMMA SameDimensions ==
  ASSUME NEW s, NEW t, SizedTable(s), SizedTable(t), Len(s) = Len(t),
         \A i \in 1 .. Len(s) : s[i].sh_size = t[i].sh_size /\ s[i].sh_align = t[i].sh_align
  PROVE  SectionSizes(s) = SectionSizes(t) /\ SectionAligns(s) = SectionAligns(t)
<1>1. DOMAIN s = 1 .. Len(s) /\ DOMAIN t = 1 .. Len(s)
  BY LenProperties DEF SizedTable, IsSeq
<1>2. QED BY <1>1 DEF SectionSizes, SectionAligns

(* The layout leaves every section where it says.                            *)
LEMMA LayoutSettles ==
  ASSUME NEW s, SizedTable(s), NEW headers
  PROVE  Settled(Layout(s, headers), headers)
<1>. DEFINE r == Layout(s, headers)
            o == Offsets(SectionSizes(s), SectionAligns(s), headers)
<1>1. /\ SizedTable(r) /\ Len(r) = Len(s)
      /\ \A i \in 1 .. Len(s) :
           r[i] = [name |-> s[i].name, sh_size |-> s[i].sh_size, sh_align |-> s[i].sh_align,
                   sh_offset |-> o[i], sh_addr |-> s[i].sh_addr]
  BY LayoutEffect
<1>. HIDE DEF r, o
<1>2. ASSUME NEW i \in 1 .. Len(s)
      PROVE  /\ s[i].sh_size = r[i].sh_size /\ s[i].sh_align = r[i].sh_align
             /\ r[i].sh_offset = o[i]
  <2>. DEFINE e == s[i]
  <2>1. r[i] = [name |-> e.name, sh_size |-> e.sh_size, sh_align |-> e.sh_align,
                sh_offset |-> o[i], sh_addr |-> e.sh_addr]
    BY <1>1
  <2>. HIDE DEF e
  <2>2. r[i].sh_size = e.sh_size /\ r[i].sh_align = e.sh_align /\ r[i].sh_offset = o[i]
    BY <2>1
  <2>3. QED BY <2>2 DEF e
<1>3. SectionSizes(s) = SectionSizes(r) /\ SectionAligns(s) = SectionAligns(r)
  BY <1>1, <1>2, SameDimensions
<1>4. \A i \in 1 .. Len(r) : r[i].sh_offset = o[i]
  BY <1>1, <1>2
<1>5. \A i \in 1 .. Len(r) :
        r[i].sh_offset = Offsets(SectionSizes(r), SectionAligns(r), headers)[i]
  BY <1>3, <1>4 DEF o
<1>6. QED BY <1>5 DEF Settled, r

\* The section becomes a segment, its header exists, and it gets its address.
Placed(type, index) ==
  /\ Place(type, index)
  /\ sections' = [sections EXCEPT ![section + 1] =
                    [sections[section + 1] EXCEPT !.sh_addr = virtual_addr]]
  /\ sections[section + 1].name =
       IF index = 0 THEN ".hsatext" ELSE ".hsadata_global_program"
  /\ index < Len(phdr)
  /\ phdr' = [phdr EXCEPT ![index + 1] =
                Segment(type, [sections[section + 1] EXCEPT !.sh_addr = virtual_addr])]
  /\ section' = section + 1

(* A section that becomes a segment keeps its place, and its header is of    *)
(* this place; an older header of the name is overwritten.                   *)
LEMMA PlaceMatches ==
  ASSUME SegInv, Settled(sections, Len(phdr)), Described(sections, section),
         section < Len(sections), NEW type, NEW index \in {0, 1}, Placed(type, index)
  PROVE  /\ Len(sections') = Len(sections) /\ Settled(sections', Len(phdr'))
         /\ Described(sections, section)'
<1>. DEFINE n   == section + 1
            old == sections[n]
            s   == [old EXCEPT !.sh_addr = virtual_addr]
            p   == Segment(type, s)
<1>1. n \in 1 .. Len(sections) /\ Len(sections) \in Nat /\ IsSeq(sections) /\ section \in Nat
  BY LenProperties DEF SegInv, SizedTable, IsSeq
<1>2. Sized(old)
  BY <1>1 DEF SegInv, SizedTable
<1>3. s = [name |-> old.name, sh_size |-> old.sh_size, sh_align |-> old.sh_align,
           sh_offset |-> old.sh_offset, sh_addr |-> virtual_addr]
  BY <1>2 DEF Sized
<1>4. IsSegmentOf(p, s)
  BY <1>3 DEF IsSegmentOf, Segment
<1>5. sections' = [sections EXCEPT ![n] = s] /\ phdr' = [phdr EXCEPT ![index + 1] = p]
  BY DEF Placed
<1>6. SizedTable(sections')
  BY PlaceKeeps DEF SegInv, Placed
<1>7. /\ section' = n /\ section = n - 1 /\ old = sections[n]
      /\ old.name = IF index = 0 THEN ".hsatext" ELSE ".hsadata_global_program"
  BY <1>1 DEF Placed
<1>. HIDE DEF n, s, p, old
<1>8. /\ Len(sections') = Len(sections)
      /\ \A j \in 1 .. Len(sections) : sections'[j] = IF j = n THEN s ELSE sections[j]
  <2>1. /\ Len([sections EXCEPT ![n] = s]) = Len(sections)
        /\ \A j \in 1 .. Len(sections) :
             [sections EXCEPT ![n] = s][j] = IF j = n THEN s ELSE sections[j]
    BY <1>1, ReplaceEffect
  <2>2. QED BY <1>5, <2>1
<1>9. index + 1 \in 1 .. Len(phdr) /\ Len(phdr) \in 0 .. 2 /\ IsSeq(phdr)
  BY DEF SegInv, Placed
<1>10. /\ Len(phdr') = Len(phdr)
       /\ \A k \in 1 .. Len(phdr) : phdr'[k] = IF k = index + 1 THEN p ELSE phdr[k]
  <2>1. /\ Len([phdr EXCEPT ![index + 1] = p]) = Len(phdr)
        /\ \A k \in 1 .. Len(phdr) :
             [phdr EXCEPT ![index + 1] = p][k] = IF k = index + 1 THEN p ELSE phdr[k]
    BY <1>9, ReplaceEffect
  <2>2. QED BY <1>5, <2>1
<1>11. \A j \in 1 .. Len(sections) :
         /\ sections'[j].name = sections[j].name
         /\ sections'[j].sh_size = sections[j].sh_size
         /\ sections'[j].sh_align = sections[j].sh_align
         /\ sections'[j].sh_offset = sections[j].sh_offset
  <2>1. /\ s.name = old.name /\ s.sh_size = old.sh_size /\ s.sh_align = old.sh_align
        /\ s.sh_offset = old.sh_offset
    BY <1>3
  <2>2. QED BY <1>7, <1>8, <2>1
<1>12. Settled(sections', Len(phdr'))
  <2>1. SizedTable(sections)
    BY DEF SegInv
  <2>2. /\ SectionSizes(sections) = SectionSizes(sections')
        /\ SectionAligns(sections) = SectionAligns(sections')
    <3>. DEFINE t == sections'
    <3>1. /\ SizedTable(sections) /\ SizedTable(t) /\ Len(sections) = Len(t)
          /\ \A i \in 1 .. Len(sections) :
               sections[i].sh_size = t[i].sh_size /\ sections[i].sh_align = t[i].sh_align
      BY <1>6, <1>8, <1>11, <2>1
    <3>. HIDE DEF t
    <3>2. SectionSizes(sections) = SectionSizes(t) /\ SectionAligns(sections) = SectionAligns(t)
      BY <3>1, SameDimensions
    <3>3. QED BY <3>2 DEF t
  <2>3. QED BY <1>8, <1>10, <1>11, <2>2 DEF Settled
<1>13. ASSUME NEW name, NEW i \in 1 .. n, LastOf(sections', name, n, i)
       PROVE  /\ i = n => name = old.name /\ sections'[i] = s
              /\ i # n => /\ name # old.name /\ i \in 1 .. section
                         /\ LastOf(sections, name, section, i) /\ sections'[i] = sections[i]
  <2>1. i \in 1 .. Len(sections) /\ sections'[i].name = name
    BY <1>1, <1>13 DEF LastOf
  <2>2. CASE i = n
    BY <1>7, <1>8, <1>11, <2>1, <2>2
  <2>3. CASE i # n
    <3>1. n \in i + 1 .. n /\ i \in 1 .. section
      BY <1>1, <1>7, <1>13, <2>3
    <3>2. sections'[n].name # name
      BY <1>13, <3>1 DEF LastOf
    <3>3. name # old.name
      BY <1>1, <1>7, <1>11, <3>2
    <3>4. \A j \in i + 1 .. section : j \in i + 1 .. n /\ j \in 1 .. Len(sections)
      BY <1>1, <1>7, <3>1
    <3>5. \A j \in i + 1 .. section : sections[j].name # name
      BY <1>11, <1>13, <3>4 DEF LastOf
    <3>6. QED BY <1>8, <1>11, <2>1, <2>3, <3>1, <3>3, <3>5 DEF LastOf
  <2>4. QED BY <2>2, <2>3
<1>14. ASSUME NEW i \in 1 .. n, LastOf(sections', ".hsatext", n, i)
       PROVE  Len(phdr') >= 1 /\ IsSegmentOf(phdr'[1], sections'[i])
  <2>1. CASE i = n
    <3>1. old.name = ".hsatext" /\ sections'[i] = s
      BY <1>13, <1>14, <2>1
    <3>2. index = 0
      BY <1>7, <3>1
    <3>3. phdr'[1] = p /\ Len(phdr') >= 1
      BY <1>9, <1>10, <3>2
    <3>4. QED BY <1>4, <3>1, <3>3
  <2>2. CASE i # n
    <3>1. /\ index = 1 /\ sections'[i] = sections[i] /\ i \in 1 .. section
          /\ LastOf(sections, ".hsatext", section, i)
      BY <1>7, <1>13, <1>14, <2>2
    <3>2. Len(phdr) >= 1 /\ IsSegmentOf(phdr[1], sections[i])
      BY <3>1 DEF Described
    <3>3. QED BY <1>9, <1>10, <3>1, <3>2
  <2>3. QED BY <2>1, <2>2
<1>15. ASSUME NEW i \in 1 .. n, LastOf(sections', ".hsadata_global_program", n, i)
       PROVE  Len(phdr') = 2 /\ IsSegmentOf(phdr'[2], sections'[i])
  <2>1. CASE i = n
    <3>1. old.name = ".hsadata_global_program" /\ sections'[i] = s
      BY <1>13, <1>15, <2>1
    <3>2. index = 1
      BY <1>7, <3>1
    <3>3. phdr'[2] = p /\ Len(phdr') = 2
      BY <1>9, <1>10, <3>2
    <3>4. QED BY <1>4, <3>1, <3>3
  <2>2. CASE i # n
    <3>1. /\ index = 0 /\ sections'[i] = sections[i] /\ i \in 1 .. section
          /\ LastOf(sections, ".hsadata_global_program", section, i)
      BY <1>7, <1>13, <1>15, <2>2
    <3>2. Len(phdr) = 2 /\ IsSegmentOf(phdr[2], sections[i])
      BY <3>1 DEF Described
    <3>3. QED BY <1>9, <1>10, <3>1, <3>2
  <2>3. QED BY <2>1, <2>2
<1>16. QED BY <1>7, <1>8, <1>12, <1>14, <1>15 DEF Described

LEMMA SecondScanMatches ==
  ASSUME SegInv, MatchInv, SecondScan
  PROVE  MatchInv'
<1>1. /\ phase = "second_scan" /\ section < Len(sections) /\ section \in Nat
      /\ Len(sections) \in Nat /\ UNCHANGED update_failed
  BY LenProperties DEF SecondScan, SegInv, SizedTable, IsSeq
<1>2. CASE phase' \in {"failed", "undefined"}
  BY <1>2 DEF MatchInv
<1>3. CASE phase' \notin {"failed", "undefined"}
  <2>1. phase' = "second_scan"
    BY <1>1, <1>3 DEF SecondScan, Place, Fail, UnsetHeader
  <2>2. ASSUME ~update_failed, ~shdr_failed'
        PROVE  /\ section' <= Len(sections') /\ Settled(sections', Len(phdr'))
               /\ Described(sections, section)'
    <3>0. ~shdr_failed
      <4>1. shdr_failed' = shdr_failed \/ shdr_failed' = TRUE
        BY DEF SecondScan, Place
      <4>2. QED BY <2>2, <4>1
    <3>1. Settled(sections, Len(phdr)) /\ Described(sections, section)
      BY <1>1, <2>2, <3>0 DEF MatchInv
    <3>. DEFINE name == sections[section + 1].name
    <3>2. CASE name = ".hsatext" /\ Place("CODE", 0)
      <4>1. Placed("CODE", 0)
        BY <1>3, <2>2, <3>2 DEF Placed, Place, Fail
      <4>2. Len(sections') = Len(sections) /\ section' = section + 1
        BY <1>1, <3>1, <4>1, PlaceMatches DEF Placed
      <4>3. QED BY <1>1, <3>1, <4>1, <4>2, PlaceMatches
    <3>3. CASE name = ".hsadata_global_program" /\ Place("GLOBAL_PROGRAM", 1)
      <4>1. Placed("GLOBAL_PROGRAM", 1)
        BY <1>3, <2>2, <3>3 DEF Placed, Place, Fail
      <4>2. Len(sections') = Len(sections) /\ section' = section + 1
        BY <1>1, <3>1, <4>1, PlaceMatches DEF Placed
      <4>3. QED BY <1>1, <3>1, <4>1, <4>2, PlaceMatches
    <3>4. CASE /\ name = "other" /\ section' = section + 1
               /\ UNCHANGED <<phase, sections, virtual_addr, phdr>>
      <4>1. \A i \in 1 .. section + 1, x \in {".hsatext", ".hsadata_global_program"} :
              LastOf(sections, x, section + 1, i) =>
                i \in 1 .. section /\ LastOf(sections, x, section, i)
        BY <1>1, <3>4 DEF LastOf
      <4>2. Described(sections, section)'
        BY <1>1, <3>1, <3>4, <4>1 DEF Described
      <4>3. QED BY <1>1, <3>1, <3>4, <4>2
    <3>5. QED BY <1>1, <1>3, <3>2, <3>3, <3>4 DEF SecondScan, UnsetHeader
  <2>3. QED BY <1>1, <2>1, <2>2 DEF MatchInv
<1>4. QED BY <1>2, <1>3

(* The headers are made before any section is looked at.                     *)
LEMMA NewPhdrMatches ==
  ASSUME SegInv, MatchInv, NewPhdr
  PROVE  MatchInv'
<1>1. section' = 0 /\ phase' \in {"second_scan", "failed"}
  BY DEF NewPhdr, MatchInv, Fail
<1>2. CASE phase' = "failed" \/ update_failed'
  BY <1>1, <1>2 DEF MatchInv
<1>3. CASE phase' = "second_scan" /\ ~update_failed'
  <2>1. sections' = Layout(sections, Len(phdr'))
    BY <1>3 DEF NewPhdr, Updated, Fail
  <2>2. SizedTable(sections)
    BY DEF SegInv
  <2>3. Settled(sections', Len(phdr'))
    <3>. DEFINE h == Len(phdr')
    <3>1. sections' = Layout(sections, h)
      BY <2>1
    <3>. HIDE DEF h
    <3>2. Settled(Layout(sections, h), h)
      BY <2>2, LayoutSettles
    <3>3. Settled(sections', h)
      BY <3>1, <3>2
    <3>4. QED BY <3>3 DEF h
  <2>4. Len(sections') \in Nat
    BY NewPhdrKeeps, LenProperties DEF SegInv, SizedTable, IsSeq
  <2>5. Described(sections, section)'
    BY <1>1 DEF Described
  <2>6. QED BY <1>1, <1>3, <2>3, <2>4, <2>5 DEF MatchInv
<1>4. QED BY <1>1, <1>2, <1>3

LEMMA MatchStepKeeps ==
  ASSUME SegInv, MatchInv, [Next]_vars
  PROVE  MatchInv'
<1>1. CASE NewPhdr      BY <1>1, NewPhdrMatches
<1>2. CASE SecondScan   BY <1>2, SecondScanMatches
<1>3. CASE WriteElf
  <2>1. /\ phase = "second_scan" /\ phase' = "done" /\ section = Len(sections)
        /\ UNCHANGED <<sections, section, phdr, shdr_failed>>
        /\ ~update_failed' => ~update_failed /\ written' = Layout(sections, Len(phdr))
    BY <1>3 DEF WriteElf
  <2>2. CASE ~update_failed' /\ ~shdr_failed'
    <3>1. ~update_failed /\ ~shdr_failed /\ written' = Layout(sections, Len(phdr))
      BY <2>1, <2>2
    <3>2. /\ section <= Len(sections) /\ Settled(sections, Len(phdr))
          /\ Described(sections, section)
      BY <2>1, <3>1 DEF MatchInv
    <3>3. Described(sections, section)'
      BY <2>1, <3>2 DEF Described
    <3>4. QED BY <2>1, <3>1, <3>2, <3>3 DEF MatchInv
  <2>3. CASE update_failed' \/ shdr_failed'
    BY <2>1, <2>3 DEF MatchInv
  <2>4. QED BY <2>2, <2>3
<1>4. CASE Read \/ ReadFails \/ Write \/ WriteFails \/ OpenElf \/ FirstScan
  <2>1. /\ phase \in {"read", "write", "first_scan"} /\ section' = section
        /\ phase' \notin {"second_scan", "done"}
    BY <1>4 DEF Read, ReadFails, Write, WriteFails, OpenElf, FirstScan, Fail, UnsetHeader,
                elfVars
  <2>2. QED BY <2>1 DEF MatchInv
<1>5. CASE UNCHANGED vars
  BY <1>5 DEF MatchInv, Described, vars, elfVars
<1>6. QED BY <1>1, <1>2, <1>3, <1>4, <1>5 DEF Next

(* The last layout moves nothing, so what the headers say is so in the file. *)
LEMMA MatchImplies ==
  ASSUME SegInv, MatchInv
  PROVE  SegmentsMatchFile
<1>. SUFFICES ASSUME phase = "done", ~update_failed, ~shdr_failed
              PROVE  /\ \A i \in LastNamed(".hsatext") : IsSegmentOf(phdr[1], written[i])
                     /\ \A i \in LastNamed(".hsadata_global_program") :
                          Len(phdr) = 2 /\ IsSegmentOf(phdr[2], written[i])
  BY DEF SegmentsMatchFile
<1>1. /\ SizedTable(sections) /\ Settled(sections, Len(phdr))
      /\ Described(sections, Len(sections)) /\ written = Layout(sections, Len(phdr))
  BY DEF SegInv, MatchInv
<1>2. /\ SizedTable(written) /\ Len(written) = Len(sections)
      /\ \A i \in 1 .. Len(sections) :
           written[i] =
             [name |-> sections[i].name, sh_size |-> sections[i].sh_size,
              sh_align |-> sections[i].sh_align,
              sh_offset |->
                Offsets(SectionSizes(sections), SectionAligns(sections), Len(phdr))[i],
              sh_addr |-> sections[i].sh_addr]
  BY <1>1, LayoutEffect
<1>3. ASSUME NEW i \in 1 .. Len(sections)
      PROVE  /\ written[i].name = sections[i].name
             /\ \A p : IsSegmentOf(p, sections[i]) => IsSegmentOf(p, written[i])
  <2>. DEFINE e == sections[i]
              f == written[i]
  <2>1. f = [name |-> e.name, sh_size |-> e.sh_size, sh_align |-> e.sh_align,
             sh_offset |-> e.sh_offset, sh_addr |-> e.sh_addr]
    BY <1>1, <1>2 DEF Settled
  <2>. HIDE DEF e, f
  <2>2. /\ f.name = e.name /\ f.sh_size = e.sh_size /\ f.sh_offset = e.sh_offset
        /\ f.sh_addr = e.sh_addr
    BY <2>1
  <2>3. QED BY <2>2 DEF IsSegmentOf, e, f
<1>4. DOMAIN written = 1 .. Len(sections)
  BY <1>2, LenProperties DEF SizedTable, IsSeq
<1>5. ASSUME NEW name, NEW i \in LastNamed(name)
      PROVE  i \in 1 .. Len(sections) /\ LastOf(sections, name, Len(sections), i)
  <2>1. /\ i \in 1 .. Len(sections) /\ written[i].name = name
        /\ \A j \in i + 1 .. Len(sections) : written[j].name # name
    BY <1>2, <1>4 DEF LastNamed
  <2>2. \A j \in i + 1 .. Len(sections) : j \in 1 .. Len(sections)
    BY <2>1
  <2>3. QED BY <1>3, <2>1, <2>2 DEF LastOf
<1>6. QED BY <1>1, <1>3, <1>5 DEF Described

(* For any sections and headers of any size: if no update of the file or of  *)
(* a section fails unnoticed, each header has the place, the size and the    *)
(* address that its section has in the file (amdphdrs.c:142-232).            *)
THEOREM HeadersMatch == Spec => []SegmentsMatchFile
<1>1. Init => SegInv /\ MatchInv
  <2>1. Init => phase = "read" /\ section = 0
    BY DEF Init
  <2>2. QED BY <2>1, SegInit DEF MatchInv
<1>2. (SegInv /\ MatchInv) /\ [Next]_vars => (SegInv /\ MatchInv)'
  BY SegStepKeeps, MatchStepKeeps
<1>3. SegInv /\ MatchInv => SegmentsMatchFile
  BY MatchImplies
<1>4. QED BY <1>1, <1>2, <1>3, PTL DEF Spec

-----------------------------------------------------------------------------
(* Types: a layout of sections gives sections. *)

(* A set of numbers has a least one.                                         *)
LEMMA LeastNumber ==
  ASSUME NEW T, T \subseteq Nat, T # {}
  PROVE  \E x \in T : \A y \in T : x <= y
<1>. DEFINE R == OpToRel(<, Nat)
<1>1. \A x, y \in Nat : <<y, x>> \in R <=> y < x
  BY DEF OpToRel
<1>2. IsWellFoundedOn(R, Nat)
  BY NatLessThanWellFounded
<1>. HIDE DEF R
<1>3. PICK x \in T : \A y \in T : ~(<<y, x>> \in R)
  BY <1>2, WFMin
<1>4. ASSUME NEW y \in T
      PROVE  x <= y
  <2>1. x \in Nat /\ y \in Nat /\ ~(<<y, x>> \in R)
    BY <1>3
  <2>2. ~(y < x)
    BY <1>1, <2>1
  <2>3. QED BY <2>1, <2>2
<1>5. QED BY <1>3, <1>4

LEMMA RoundUpType ==
  ASSUME NEW n \in Nat, NEW align \in Nat \ {0}
  PROVE  RoundUp(n, align) \in Nat
<1>. DEFINE q == (n + align - 1) \div align
<1>1. n + align - 1 \in Nat
  OBVIOUS
<1>2. q \in Nat
  BY <1>1
<1>. HIDE DEF q
<1>3. q * align \in Nat
  BY <1>2
<1>4. QED BY <1>3 DEF RoundUp, q

\* One place of the layout, from the places before it.
OffsetAt(sizes, aligns, headers, offset, i) ==
  RoundUp(IF i = 1 THEN EhdrSize + headers * PhdrSize
          ELSE offset[i - 1] + sizes[i - 1], aligns[i])

\* The recursion's equation, for the first n sections.
IsOffsets(sizes, aligns, headers, n, offset) ==
  offset = [i \in 1 .. n |-> OffsetAt(sizes, aligns, headers, offset, i)]

(* The recursion has a solution: each place refers only to the one before.   *)
LEMMA OffsetsExist ==
  ASSUME NEW sizes, NEW aligns, NEW headers, NEW n \in Nat
  PROVE  \E offset : IsOffsets(sizes, aligns, headers, n, offset)
<1>. DEFINE Has(k) == \E offset : IsOffsets(sizes, aligns, headers, k, offset)
            T == {k \in Nat : ~Has(k)}
<1>1. Has(0)
  <2>1. IsOffsets(sizes, aligns, headers, 0, << >>)
    BY DEF IsOffsets
  <2>2. QED BY <2>1
<1>2. ASSUME NEW k \in Nat, Has(k)
      PROVE  Has(k + 1)
  <2>1. PICK f : IsOffsets(sizes, aligns, headers, k, f)
    BY <1>2
  <2>. DEFINE g == [i \in 1 .. k + 1 |-> OffsetAt(sizes, aligns, headers, f, i)]
  <2>2. \A i \in 1 .. k : f[i] = OffsetAt(sizes, aligns, headers, f, i)
    <3>. DEFINE e(i) == OffsetAt(sizes, aligns, headers, f, i)
    <3>1. f = [i \in 1 .. k |-> e(i)]
      BY <2>1 DEF IsOffsets
    <3>. HIDE DEF e
    <3>2. \A i \in 1 .. k : f[i] = e(i)
      BY <3>1
    <3>3. QED BY <3>2 DEF e
  <2>3. ASSUME NEW i \in 1 .. k + 1
        PROVE  OffsetAt(sizes, aligns, headers, f, i) = OffsetAt(sizes, aligns, headers, g, i)
    <3>1. CASE i = 1
      BY <3>1 DEF OffsetAt
    <3>2. CASE i # 1
      <4>1. i - 1 \in 1 .. k /\ i - 1 \in 1 .. k + 1
        BY <3>2
      <4>2. f[i - 1] = g[i - 1]
        BY <2>2, <4>1
      <4>. HIDE DEF g
      <4>3. QED BY <3>2, <4>2 DEF OffsetAt
    <3>3. QED BY <3>1, <3>2
  <2>4. g = [i \in 1 .. k + 1 |-> OffsetAt(sizes, aligns, headers, g, i)]
    BY <2>3
  <2>. HIDE DEF g
  <2>5. IsOffsets(sizes, aligns, headers, k + 1, g)
    BY <2>4 DEF IsOffsets
  <2>6. QED BY <2>5
<1>. HIDE DEF Has
<1>3. T = {}
  <2>1. SUFFICES ASSUME T # {}
                 PROVE  FALSE
    OBVIOUS
  <2>2. PICK x \in T : \A y \in T : x <= y
    <3>1. T \subseteq Nat
      OBVIOUS
    <3>. HIDE DEF T
    <3>2. QED BY <2>1, <3>1, LeastNumber
  <2>3. x \in Nat /\ ~Has(x) /\ x # 0
    BY <1>1
  <2>4. x - 1 \in Nat /\ (x - 1) + 1 = x /\ x - 1 \notin T
    BY <2>2, <2>3
  <2>5. QED BY <1>2, <2>3, <2>4
<1>4. Has(n)
  BY <1>3
<1>5. QED BY <1>4 DEF Has

(* Every place that libelf gives to a section is a number.                   *)
LEMMA OffsetsType ==
  ASSUME NEW n \in Nat, NEW sizes \in [1 .. n -> Nat], NEW aligns \in [1 .. n -> Nat \ {0}],
         NEW headers \in Nat
  PROVE  \A i \in 1 .. n : Offsets(sizes, aligns, headers)[i] \in Nat
<1>. DEFINE o == Offsets(sizes, aligns, headers)
            bad == {i \in 1 .. n : o[i] \notin Nat}
<1>1. \A i \in 1 .. n : o[i] = OffsetAt(sizes, aligns, headers, o, i)
  <2>. DEFINE Is(f) == IsOffsets(sizes, aligns, headers, n, f)
  <2>1. DOMAIN sizes = 1 .. n
    OBVIOUS
  <2>2. o = CHOOSE f : Is(f)
    BY <2>1 DEF Offsets, IsOffsets, OffsetAt
  <2>3. \E f : Is(f)
    BY OffsetsExist
  <2>. HIDE DEF Is, o
  <2>4. Is(o)
    BY <2>2, <2>3
  <2>. DEFINE e(i) == OffsetAt(sizes, aligns, headers, o, i)
  <2>5. o = [i \in 1 .. n |-> e(i)]
    BY <2>4 DEF Is, IsOffsets
  <2>. HIDE DEF e
  <2>6. \A i \in 1 .. n : o[i] = e(i)
    BY <2>5
  <2>7. QED BY <2>6 DEF e
<1>. HIDE DEF o
<1>2. \A i \in 1 .. n : aligns[i] \in Nat \ {0} /\ sizes[i] \in Nat
  OBVIOUS
<1>3. EhdrSize + headers * PhdrSize \in Nat
  BY AmdphdrsAssumption
<1>4. bad = {}
  <2>1. SUFFICES ASSUME bad # {}
                 PROVE  FALSE
    OBVIOUS
  <2>2. PICK x \in bad : \A y \in bad : x <= y
    <3>1. bad \subseteq Nat
      OBVIOUS
    <3>. HIDE DEF bad
    <3>2. QED BY <2>1, <3>1, LeastNumber
  <2>3. x \in 1 .. n /\ o[x] \notin Nat
    OBVIOUS
  <2>4. CASE x = 1
    <3>1. o[x] = RoundUp(EhdrSize + headers * PhdrSize, aligns[x])
      BY <1>1, <2>3, <2>4 DEF OffsetAt
    <3>2. QED BY <1>2, <1>3, <2>3, <3>1, RoundUpType
  <2>5. CASE x # 1
    <3>1. x - 1 \in 1 .. n /\ x - 1 \notin bad
      BY <2>2, <2>3, <2>5
    <3>2. o[x - 1] \in Nat /\ sizes[x - 1] \in Nat
      BY <1>2, <3>1
    <3>3. o[x - 1] + sizes[x - 1] \in Nat
      BY <3>2
    <3>4. o[x] = RoundUp(o[x - 1] + sizes[x - 1], aligns[x])
      BY <1>1, <2>3, <2>5 DEF OffsetAt
    <3>5. QED BY <1>2, <2>3, <3>3, <3>4, RoundUpType
  <2>6. QED BY <2>4, <2>5
<1>5. QED BY <1>4 DEF o

LEMMA LayoutType ==
  ASSUME NEW s \in Seq(Section), NEW headers \in Nat
  PROVE  Layout(s, headers) \in Seq(Section) /\ Len(Layout(s, headers)) = Len(s)
<1>. DEFINE o == Offsets(SectionSizes(s), SectionAligns(s), headers)
            r == Layout(s, headers)
            n == Len(s)
<1>1. n \in Nat /\ DOMAIN s = 1 .. n /\ \A i \in 1 .. n : s[i] \in Section
  BY LenProperties, ElementOfSeq
<1>. HIDE DEF n
<1>2. ASSUME NEW i \in 1 .. n
      PROVE  s[i].sh_size \in Nat /\ s[i].sh_align \in Nat \ {0}
  BY <1>1 DEF Section
<1>3. SectionSizes(s) \in [1 .. n -> Nat] /\ SectionAligns(s) \in [1 .. n -> Nat \ {0}]
  BY <1>1, <1>2 DEF SectionSizes, SectionAligns
<1>4. \A i \in 1 .. n : o[i] \in Nat
  BY <1>1, <1>3, OffsetsType
<1>5. r = [i \in 1 .. n |-> [s[i] EXCEPT !.sh_offset = o[i]]]
  BY <1>1 DEF Layout
<1>. HIDE DEF o, r
<1>6. \A e \in Section, x \in Nat : [e EXCEPT !.sh_offset = x] \in Section
  BY DEF Section
<1>. DEFINE t(i) == [s[i] EXCEPT !.sh_offset = o[i]]
<1>7. \A i \in 1 .. n : t(i) \in Section
  BY <1>1, <1>4, <1>6
<1>8. r = [i \in 1 .. n |-> t(i)]
  BY <1>5
<1>. HIDE DEF t
<1>9. r \in [1 .. n -> Section]
  BY <1>7, <1>8
<1>10. r \in Seq(Section) /\ Len(r) = n
  BY <1>1, <1>9, FunctionIsSeq
<1>11. QED BY <1>10 DEF r, n

\* The types of what libelf works on.
ElfTypes ==
  /\ phase \in {"read", "write", "first_scan", "headers", "second_scan",
                "done", "failed", "damaged", "undefined"}
  /\ sections \in Seq(Section) /\ written \in Seq(Section)
  /\ section \in 0 .. Len(sections)
  /\ update_failed \in BOOLEAN /\ shdr_failed \in BOOLEAN

(* A section keeps its type when it gets an address.                         *)
LEMMA PlaceTypes ==
  ASSUME ElfTypes, SegInv, section < Len(sections), NEW type, NEW index, Place(type, index)
  PROVE  /\ sections' \in Seq(Section) /\ section' \in 0 .. Len(sections')
<1>. DEFINE n == section + 1
            s == [sections[n] EXCEPT !.sh_addr = virtual_addr]
<1>1. Len(sections) \in Nat /\ section \in Nat /\ sections \in Seq(Section)
  BY LenProperties DEF ElfTypes
<1>2. n \in 1 .. Len(sections)
  BY <1>1
<1>3. s \in Section
  <2>1. sections[n] \in Section
    BY <1>1, <1>2, ElementOfSeq
  <2>2. \A e \in Section, x \in Nat : [e EXCEPT !.sh_addr = x] \in Section
    BY DEF Section
  <2>3. virtual_addr \in Nat
    BY DEF SegInv
  <2>4. QED BY <2>1, <2>2, <2>3
<1>4. /\ sections' = [sections EXCEPT ![n] = s] \/ sections' = sections
      /\ section' \in {section, section + 1}
  BY DEF Place
<1>. HIDE DEF s, n
<1>5. sections' \in Seq(Section) /\ Len(sections') = Len(sections)
  <2>1. CASE sections' = [sections EXCEPT ![n] = s]
    BY <1>1, <1>2, <1>3, <2>1, ExceptSeq
  <2>2. QED BY <1>1, <1>4, <2>1
<1>6. QED BY <1>1, <1>4, <1>5

LEMMA ElfTypesKept ==
  ASSUME ElfTypes, SegInv, MatchInv, [Next]_vars
  PROVE  ElfTypes'
<1>1. Len(sections) \in Nat /\ Len(phdr) \in Nat
  BY LenProperties DEF ElfTypes, SegInv
<1>2. CASE OpenElf
  <2>1. section = 0 /\ UNCHANGED <<section, written, update_failed, shdr_failed>>
    BY <1>2 DEF OpenElf, MatchInv
  <2>2. sections' = sections \/ \E s \in SectionTables : sections' = Layout(s, 0)
    BY <1>2 DEF OpenElf
  <2>3. sections' \in Seq(Section)
    BY <2>2, TablesAssumption, LayoutType DEF ElfTypes
  <2>4. Len(sections') \in Nat
    BY <2>3, LenProperties
  <2>5. phase' \in {"first_scan", "damaged", "failed"}
    BY <1>2 DEF OpenElf, Fail
  <2>6. QED BY <2>1, <2>3, <2>4, <2>5 DEF ElfTypes
<1>3. CASE NewPhdr
  <2>1. UNCHANGED <<section, written, shdr_failed>> /\ phase' \in {"second_scan", "failed"}
    BY <1>3 DEF NewPhdr, Fail
  <2>2. update_failed' \in BOOLEAN
    BY <1>3 DEF NewPhdr, ElfTypes
  <2>3. sections' = sections \/ sections' = Layout(sections, Len(phdr'))
    BY <1>3 DEF NewPhdr, Updated
  <2>4. Len(phdr') \in Nat
    BY <1>3, NewPhdrKeeps DEF SegInv
  <2>5. sections' \in Seq(Section) /\ Len(sections') = Len(sections)
    BY <2>3, <2>4, LayoutType DEF ElfTypes
  <2>6. QED BY <2>1, <2>2, <2>5 DEF ElfTypes
<1>4. CASE SecondScan
  <2>1. UNCHANGED <<written, update_failed>> /\ section < Len(sections)
    BY <1>4 DEF SecondScan
  <2>5. shdr_failed' \in BOOLEAN
    BY <1>4 DEF SecondScan, Place, ElfTypes
  <2>2. phase' \in {"second_scan", "failed", "undefined"}
    BY <1>4 DEF SecondScan, Place, Fail, UnsetHeader
  <2>3. sections' \in Seq(Section) /\ section' \in 0 .. Len(sections')
    <3>1. CASE \E type, index : Place(type, index)
      BY <2>1, <3>1, PlaceTypes
    <3>2. CASE section' = section + 1 /\ UNCHANGED sections
      BY <1>1, <2>1, <3>2 DEF ElfTypes
    <3>3. CASE UNCHANGED <<sections, section>>
      BY <3>3 DEF ElfTypes
    <3>4. QED BY <1>4, <3>1, <3>2, <3>3 DEF SecondScan
  <2>4. QED BY <2>1, <2>2, <2>3, <2>5 DEF ElfTypes
<1>5. CASE WriteElf
  <2>1. UNCHANGED <<sections, section, shdr_failed>> /\ phase' = "done"
    BY <1>5 DEF WriteElf
  <2>2. /\ update_failed' \in BOOLEAN
        /\ written' = written \/ written' = Layout(sections, Len(phdr))
    BY <1>5 DEF WriteElf, ElfTypes
  <2>3. written' \in Seq(Section)
    BY <1>1, <2>2, LayoutType DEF ElfTypes
  <2>4. QED BY <2>1, <2>2, <2>3 DEF ElfTypes
<1>6. CASE Read \/ ReadFails \/ Write \/ WriteFails \/ FirstScan
  <2>1. UNCHANGED <<sections, section, written, update_failed, shdr_failed>>
    BY <1>6 DEF Read, ReadFails, Write, WriteFails, FirstScan, elfVars
  <2>2. phase' \in {"read", "write", "headers", "failed", "undefined"}
    BY <1>6 DEF Read, ReadFails, Write, WriteFails, FirstScan, Fail, UnsetHeader
  <2>3. QED BY <2>1, <2>2 DEF ElfTypes
<1>7. CASE UNCHANGED vars
  BY <1>7 DEF vars, elfVars, ElfTypes
<1>8. QED BY <1>2, <1>3, <1>4, <1>5, <1>6, <1>7 DEF Next

(* The variables of the copy and of the headers have their types, for any    *)
(* files and sections: no place in a file lies behind its end, and no scan   *)
(* behind the last section.                                                  *)
THEOREM AmdphdrsTypeCorrect == Spec => []TypeOK
<1>. DEFINE Inv == CopyInv /\ SegInv /\ MatchInv /\ ElfTypes
<1>1. Init => Inv
  <2>. SUFFICES ASSUME Init
                PROVE  Inv
    OBVIOUS
  <2>1. phase = "read" /\ section = 0 /\ update_failed = FALSE /\ shdr_failed = FALSE
    BY DEF Init
  <2>2. sections \in Seq(Section) /\ written \in Seq(Section) /\ Len(sections) = 0
    <3>. DEFINE T == Section
    <3>. HIDE DEF T
    <3>1. << >> \in Seq(T) /\ Len(<< >>) = 0
      OBVIOUS
    <3>2. sections = << >> /\ written = << >>
      BY DEF Init
    <3>3. QED BY <3>1, <3>2 DEF T
  <2>3. section \in 0 .. Len(sections)
    BY <2>1, <2>2
  <2>4. ElfTypes
    <3>1. update_failed \in BOOLEAN /\ shdr_failed \in BOOLEAN
      BY <2>1
    <3>2. phase \in {"read", "write", "first_scan", "headers", "second_scan",
                    "done", "failed", "damaged", "undefined"}
      BY <2>1
    <3>3. QED BY <2>2, <2>3, <3>1, <3>2 DEF ElfTypes
  <2>5. MatchInv
    BY <2>1 DEF MatchInv
  <2>6. QED BY <2>4, <2>5, CopyInit, SegInit
<1>2. Inv /\ [Next]_vars => Inv'
  BY CopyStepKeeps, SegStepKeeps, MatchStepKeeps, ElfTypesKept
<1>3. Inv => TypeOK
  <2>. SUFFICES ASSUME Inv
                PROVE  TypeOK
    OBVIOUS
  <2>1. CopyTypes /\ ElfTypes
    BY DEF CopyInv
  <2>2. Len(phdr) <= 2
    BY DEF SegInv
  <2>. HIDE DEF Inv
  <2>3. QED BY <2>1, <2>2 DEF CopyTypes, ElfTypes, TypeOK
<1>. HIDE DEF Inv
<1>4. QED BY <1>1, <1>2, <1>3, PTL DEF Spec

=============================================================================
