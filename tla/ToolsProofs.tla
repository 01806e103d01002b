---------------------------- MODULE ToolsProofs ----------------------------
(***************************************************************************)
(* The tools that turn one notation of a program into another, Sp3ToMc for *)
(* any names and any depth, and LlvmApi for a stream of any length and a   *)
(* decoder that reports any sizes; and MCTools, where these two, amdphdrs  *)
(* and the debug macros stand beside each other.                           *)
(***************************************************************************)
EXTENDS MCTools, AmdphdrsProofs, DebugMacrosProofs

-----------------------------------------------------------------------------
(* The translator.  The three stacks have the same height and agree at every *)
(* level, and the parameters are those of the one function that may be open. *)

Constructs == [kind : Kinds, params : SUBSET Names]
Directives == {".irp", ".if", ".macro"}

DirectiveOf(k) ==
  IF k = "for" THEN ".irp" ELSE IF k = "if" THEN ".if" ELSE ".macro"

\* Every level of the source is that of the script and of the assembler.
Aligned ==
  /\ Len(scope) = Len(source) /\ Len(gas) = Len(source)
  /\ \A k \in 1 .. Len(source) :
       scope[k] = source[k].kind /\ gas[k] = DirectiveOf(source[k].kind)

IsFunction(k) == source[k].kind = "function"

\* At most one function is open; @args holds its parameters, and nothing else.
ArgsOfFunction ==
  /\ \A j, k \in 1 .. Len(source) : IsFunction(j) /\ IsFunction(k) => j = k
  /\ \A k \in 1 .. Len(source) : IsFunction(k) => args = source[k].params
  /\ (\A k \in 1 .. Len(source) : ~IsFunction(k)) => args = {}

SInv == Sp3TypeOK /\ ~misclosed /\ Aligned /\ ArgsOfFunction

-----------------------------------------------------------------------------
(* Stacks. *)

(* What a push does to a stack.                                              *)
LEMMA Push ==
  ASSUME NEW S, NEW s \in Seq(S), NEW e \in S
  PROVE  /\ Append(s, e) \in Seq(S)
         /\ Len(s) \in Nat /\ Len(Append(s, e)) = Len(s) + 1
         /\ \A k \in 1 .. Len(s) : Append(s, e)[k] = s[k]
         /\ Append(s, e)[Len(s) + 1] = e
BY SMT

(* What a pop does to a stack.                                               *)
LEMMA Pop ==
  ASSUME NEW S, NEW s \in Seq(S), s # << >>
  PROVE  /\ Front(s) \in Seq(S) /\ Last(s) \in S
         /\ Len(s) \in Nat \ {0} /\ Len(Front(s)) = Len(s) - 1
         /\ \A k \in 1 .. Len(s) - 1 : Front(s)[k] = s[k]
         /\ Last(s) = s[Len(s)]
<1>1. Len(s) \in Nat \ {0}
  BY EmptySeq
<1>2. \A k \in 1 .. Len(s) : s[k] \in S
  BY ElementOfSeq
<1>. DEFINE n == Len(s) - 1
<1>3. n \in Nat /\ \A k \in 1 .. n : s[k] \in S
  BY <1>1, <1>2
<1>4. /\ SubSeq(s, 1, n) \in Seq(S)
      /\ Len(SubSeq(s, 1, n)) = IF 1 <= n THEN n - 1 + 1 ELSE 0
      /\ \A k \in 1 .. n - 1 + 1 : SubSeq(s, 1, n)[k] = s[1 + k - 1]
  <2>1. 1 \in Int /\ n \in Int
    BY <1>3
  <2>. HIDE DEF n
  <2>2. QED BY <1>3, <2>1, SubSeqProperties
<1>5. /\ SubSeq(s, 1, n) \in Seq(S) /\ Len(SubSeq(s, 1, n)) = Len(s) - 1
      /\ \A k \in 1 .. Len(s) - 1 : SubSeq(s, 1, n)[k] = s[k]
  <2>1. \A k \in 1 .. n : k \in 1 .. n - 1 + 1 /\ 1 + k - 1 = k
    BY <1>3
  <2>2. Len(SubSeq(s, 1, n)) = n
    <3>. DEFINE front == SubSeq(s, 1, n)
    <3>1. Len(front) = IF 1 <= n THEN n - 1 + 1 ELSE 0
      BY <1>4
    <3>2. Len(front) = n
      <4>. HIDE DEF front, n
      <4>1. QED BY <1>3, <3>1
    <3>3. QED BY <3>2
  <2>3. \A k \in 1 .. n : SubSeq(s, 1, n)[k] = s[k]
    BY <1>4, <2>1
  <2>4. QED BY <1>4, <2>2, <2>3
<1>6. Front(s) = SubSeq(s, 1, n) /\ Last(s) = s[Len(s)] /\ Len(s) \in 1 .. Len(s)
  BY <1>1 DEF Front, Last
<1>7. QED BY <1>1, <1>2, <1>5, <1>6

(* The types of the three stacks, without the rest of Sp3TypeOK.             *)
LEMMA StackTypes ==
  ASSUME Sp3TypeOK
  PROVE  source \in Seq(Constructs) /\ scope \in Seq(Kinds) /\ gas \in Seq(Directives)
BY DEF Sp3TypeOK, Constructs, Directives

(* A push on all three stacks keeps them aligned.                            *)
LEMMA OpenKeeps ==
  ASSUME Sp3TypeOK, ~misclosed, Aligned, NEW kind \in Kinds, NEW params \in SUBSET Names,
         Open(kind, params, DirectiveOf(kind)), scope' = Append(scope, kind)
  PROVE  /\ source' \in Seq(Constructs) /\ scope' \in Seq(Kinds) /\ gas' \in Seq(Directives)
         /\ Aligned' /\ UNCHANGED misclosed
         /\ Len(source) \in Nat /\ Len(source') = Len(source) + 1
         /\ \A k \in 1 .. Len(source) : source'[k] = source[k]
         /\ source'[Len(source) + 1] = [kind |-> kind, params |-> params]
<1>. DEFINE e == [kind |-> kind, params |-> params]
            d == DirectiveOf(kind)
<1>1. e \in Constructs /\ d \in Directives
  BY DEF Constructs, Directives, DirectiveOf
<1>2. source' = Append(source, e) /\ gas' = Append(gas, d) /\ misclosed' = misclosed
  BY DEF Open
<1>3. e.kind = kind /\ d = DirectiveOf(e.kind)
  OBVIOUS
<1>. HIDE DEF e, d
<1>4. /\ source' \in Seq(Constructs)
      /\ Len(source) \in Nat /\ Len(source') = Len(source) + 1
      /\ \A k \in 1 .. Len(source) : source'[k] = source[k]
      /\ source'[Len(source) + 1] = e
  BY <1>1, <1>2, StackTypes, Push
<1>5. /\ scope' \in Seq(Kinds)
      /\ Len(scope') = Len(scope) + 1
      /\ \A k \in 1 .. Len(scope) : scope'[k] = scope[k]
      /\ scope'[Len(scope) + 1] = kind
  BY StackTypes, Push
<1>6. /\ gas' \in Seq(Directives)
      /\ Len(gas') = Len(gas) + 1
      /\ \A k \in 1 .. Len(gas) : gas'[k] = gas[k]
      /\ gas'[Len(gas) + 1] = d
  BY <1>1, <1>2, StackTypes, Push
<1>7. Aligned'
  <2>1. Len(scope') = Len(source') /\ Len(gas') = Len(source')
    BY <1>4, <1>5, <1>6 DEF Aligned
  <2>2. ASSUME NEW k \in 1 .. Len(source')
        PROVE  scope'[k] = source'[k].kind /\ gas'[k] = DirectiveOf(source'[k].kind)
    <3>1. CASE k \in 1 .. Len(source)
      BY <1>4, <1>5, <1>6, <3>1 DEF Aligned
    <3>2. CASE k = Len(source) + 1
      BY <1>3, <1>4, <1>5, <1>6, <3>2 DEF Aligned
    <3>3. k \in 1 .. Len(source) \/ k = Len(source) + 1
      BY <1>4
    <3>4. QED BY <3>1, <3>2, <3>3
  <2>3. QED BY <2>1, <2>2 DEF Aligned
<1>8. QED BY <1>2, <1>4, <1>5, <1>6, <1>7 DEF e

-----------------------------------------------------------------------------
(* The inductive invariant. *)

LEMMA Sp3InitKeeps ==
  ASSUME Sp3Init
  PROVE  SInv
<1>1. source = << >> /\ scope = << >> /\ gas = << >> /\ args = {} /\ Len(<< >>) = 0
  BY DEF Sp3Init
<1>2. Sp3TypeOK /\ ~misclosed
  <2>1. source \in Seq(Constructs) /\ scope \in Seq(Kinds) /\ gas \in Seq(Directives)
    BY <1>1, EmptySeq
  <2>2. misclosed = FALSE /\ line \in {NoLine}
    BY DEF Sp3Init
  <2>3. QED BY <1>1, <2>1, <2>2 DEF Sp3TypeOK, Constructs, Directives
<1>3. Aligned /\ ArgsOfFunction
  BY <1>1 DEF Aligned, ArgsOfFunction
<1>4. QED BY <1>2, <1>3 DEF SInv

(* A for or an if changes neither the parameters nor the functions.          *)
LEMMA InnerKeepsArgs ==
  ASSUME ArgsOfFunction, Len(source) \in Nat, Len(source') = Len(source) + 1,
         \A k \in 1 .. Len(source) : source'[k] = source[k],
         source'[Len(source) + 1].kind # "function",
         UNCHANGED args
  PROVE  ArgsOfFunction'
<1>1. \A k \in 1 .. Len(source') :
        \/ k \in 1 .. Len(source) /\ IsFunction(k)' = IsFunction(k)
        \/ ~IsFunction(k)'
  BY DEF IsFunction
<1>2. \A k \in 1 .. Len(source) : k \in 1 .. Len(source') /\ source'[k] = source[k]
  OBVIOUS
<1>3. QED BY <1>1, <1>2 DEF ArgsOfFunction, IsFunction

LEMMA ForKeeps ==
  ASSUME SInv, ForLine
  PROVE  SInv'
<1>. Sp3TypeOK /\ ~misclosed /\ Aligned /\ ArgsOfFunction
  BY DEF SInv
<1>1. /\ source' \in Seq(Constructs) /\ scope' \in Seq(Kinds) /\ gas' \in Seq(Directives)
      /\ Aligned' /\ UNCHANGED misclosed
      /\ Len(source) \in Nat /\ Len(source') = Len(source) + 1
      /\ \A k \in 1 .. Len(source) : source'[k] = source[k]
      /\ source'[Len(source) + 1] = [kind |-> "for", params |-> {}]
  BY OpenKeeps DEF ForLine, DirectiveOf, Kinds
<1>2. ArgsOfFunction'
  <2>1. source'[Len(source) + 1].kind # "function"
    BY <1>1
  <2>2. UNCHANGED args
    BY DEF ForLine
  <2>3. QED BY <1>1, <2>1, <2>2, InnerKeepsArgs
<1>3. Sp3TypeOK'
  BY <1>1 DEF Sp3TypeOK, ForLine, Constructs, Directives
<1>4. QED BY <1>1, <1>2, <1>3 DEF SInv

LEMMA IfKeeps ==
  ASSUME SInv, NEW name \in Names, NEW after \in Followers, IfLine(name, after)
  PROVE  SInv'
<1>. Sp3TypeOK /\ ~misclosed /\ Aligned /\ ArgsOfFunction
  BY DEF SInv
<1>1. /\ source' \in Seq(Constructs) /\ scope' \in Seq(Kinds) /\ gas' \in Seq(Directives)
      /\ Aligned' /\ UNCHANGED misclosed
      /\ Len(source) \in Nat /\ Len(source') = Len(source) + 1
      /\ \A k \in 1 .. Len(source) : source'[k] = source[k]
      /\ source'[Len(source) + 1] = [kind |-> "if", params |-> {}]
  BY OpenKeeps DEF IfLine, DirectiveOf, Kinds
<1>2. ArgsOfFunction'
  <2>1. source'[Len(source) + 1].kind # "function"
    BY <1>1
  <2>2. UNCHANGED args
    BY DEF IfLine
  <2>3. QED BY <1>1, <2>1, <2>2, InnerKeepsArgs
<1>3. Sp3TypeOK'
  BY <1>1 DEF Sp3TypeOK, IfLine, ReadLine, Constructs, Directives, Escaped
<1>4. QED BY <1>1, <1>2, <1>3 DEF SInv

LEMMA FunctionKeeps ==
  ASSUME SInv, NEW params \in SUBSET Names, FunctionLine(params)
  PROVE  SInv'
<1>. Sp3TypeOK /\ ~misclosed /\ Aligned /\ ArgsOfFunction
  BY DEF SInv
<1>1. /\ source' \in Seq(Constructs) /\ scope' \in Seq(Kinds) /\ gas' \in Seq(Directives)
      /\ Aligned' /\ UNCHANGED misclosed
      /\ Len(source) \in Nat /\ Len(source') = Len(source) + 1
      /\ \A k \in 1 .. Len(source) : source'[k] = source[k]
      /\ source'[Len(source) + 1] = [kind |-> "function", params |-> params]
  BY OpenKeeps DEF FunctionLine, DirectiveOf, Kinds
<1>2. \A k \in 1 .. Len(source) : ~IsFunction(k)
  <2>1. DOMAIN source = 1 .. Len(source)
    BY StackTypes, LenProperties
  <2>2. QED BY <2>1 DEF FunctionLine, IsFunction
<1>3. /\ \A k \in 1 .. Len(source') : source'[k].kind = "function" => k = Len(source) + 1
      /\ Len(source) + 1 \in 1 .. Len(source')
      /\ source'[Len(source) + 1].kind = "function"
      /\ source'[Len(source) + 1].params = params
  <2>1. \A k \in 1 .. Len(source') : k = Len(source) + 1 \/ k \in 1 .. Len(source)
    BY <1>1
  <2>2. \A k \in 1 .. Len(source) : source'[k].kind # "function"
    BY <1>1, <1>2 DEF IsFunction
  <2>3. Len(source) + 1 \in 1 .. Len(source')
    BY <1>1
  <2>4. QED BY <1>1, <2>1, <2>2, <2>3
<1>4. ArgsOfFunction'
  BY <1>3 DEF ArgsOfFunction, IsFunction, FunctionLine
<1>5. Sp3TypeOK'
  BY <1>1 DEF Sp3TypeOK, FunctionLine, Constructs, Directives
<1>6. QED BY <1>1, <1>4, <1>5 DEF SInv

LEMMA PlainKeeps ==
  ASSUME SInv, NEW name \in Names, NEW after \in Followers, PlainLine(name, after)
  PROVE  SInv'
BY DEF SInv, Sp3TypeOK, Aligned, ArgsOfFunction, IsFunction, PlainLine, ReadLine, Escaped

(* What is on top of the three stacks belongs together, so end closes it.    *)
LEMMA EndKeeps ==
  ASSUME SInv, EndLine
  PROVE  SInv'
<1>. Sp3TypeOK /\ ~misclosed /\ Aligned /\ ArgsOfFunction
  BY DEF SInv
<1>1. /\ source # << >> /\ scope # << >> /\ gas # << >>
      /\ Len(source) \in Nat \ {0}
  BY StackTypes, Pop DEF Aligned, EndLine
<1>2. /\ Front(source) \in Seq(Constructs) /\ Len(Front(source)) = Len(source) - 1
      /\ \A k \in 1 .. Len(source) - 1 : Front(source)[k] = source[k]
  BY <1>1, StackTypes, Pop
<1>3. /\ Front(scope) \in Seq(Kinds) /\ Len(Front(scope)) = Len(scope) - 1
      /\ \A k \in 1 .. Len(scope) - 1 : Front(scope)[k] = scope[k]
      /\ Last(scope) = scope[Len(scope)]
  BY <1>1, StackTypes, Pop
<1>4. /\ Front(gas) \in Seq(Directives) /\ Len(Front(gas)) = Len(gas) - 1
      /\ \A k \in 1 .. Len(gas) - 1 : Front(gas)[k] = gas[k]
      /\ Last(gas) = gas[Len(gas)]
  BY <1>1, StackTypes, Pop
<1>5. /\ Last(scope) \in Kinds
      /\ Last(scope) = source[Len(source)].kind
      /\ Last(gas) = DirectiveOf(Last(scope))
  BY <1>1, <1>3, <1>4, StackTypes, Pop DEF Aligned
<1>6. Closes(Last(scope), Last(gas))
  BY <1>5 DEF Closes, DirectiveOf, Kinds
<1>7. /\ source' = Front(source) /\ scope' = Front(scope) /\ gas' = Front(gas)
      /\ args' = ArgsAfter(Last(scope))
      /\ UNCHANGED <<misclosed, line>>
  BY <1>1, <1>6 DEF EndLine, Popped
<1>8. Aligned'
  BY <1>1, <1>2, <1>3, <1>4, <1>7 DEF Aligned
<1>9. ArgsOfFunction'
  <2>1. \A k \in 1 .. Len(source') :
          k \in 1 .. Len(source) /\ k # Len(source) /\ source'[k] = source[k]
    BY <1>1, <1>2, <1>7
  <2>2. \A k \in 1 .. Len(source) : k = Len(source) \/ k \in 1 .. Len(source')
    BY <1>1, <1>2, <1>7
  <2>3. Len(source) \in 1 .. Len(source)
    BY <1>1
  <2>4. CASE IsFunction(Len(source))
    <3>1. args' = {} /\ \A k \in 1 .. Len(source') : ~IsFunction(k)'
      BY <1>5, <1>7, <2>1, <2>3, <2>4 DEF ArgsAfter, ArgsOfFunction, IsFunction
    <3>2. QED BY <3>1 DEF ArgsOfFunction
  <2>5. CASE ~IsFunction(Len(source))
    <3>1. args' = args
      BY <1>5, <1>7, <2>5 DEF ArgsAfter, IsFunction
    <3>2. \A k \in 1 .. Len(source) : IsFunction(k) => k \in 1 .. Len(source')
      BY <2>2, <2>5
    <3>3. QED BY <2>1, <3>1, <3>2 DEF ArgsOfFunction, IsFunction
  <2>6. QED BY <2>4, <2>5
<1>10. Sp3TypeOK'
  <2>1. args' \subseteq Names
    BY <1>7 DEF ArgsAfter, Sp3TypeOK
  <2>2. QED BY <1>2, <1>3, <1>4, <1>7, <2>1 DEF Sp3TypeOK, Constructs, Directives
<1>11. QED BY <1>7, <1>8, <1>9, <1>10 DEF SInv

(* SInv is inductive.                                                        *)
LEMMA Sp3StepKeeps ==
  ASSUME SInv, [Sp3Next]_sp3Vars
  PROVE  SInv'
<1>1. CASE ForLine
  BY <1>1, ForKeeps
<1>2. CASE EndLine
  BY <1>2, EndKeeps
<1>3. ASSUME NEW name \in Names, NEW after \in Followers,
             IfLine(name, after) \/ PlainLine(name, after)
      PROVE  SInv'
  BY <1>3, IfKeeps, PlainKeeps
<1>4. ASSUME NEW params \in SUBSET Names, FunctionLine(params)
      PROVE  SInv'
  BY <1>4, FunctionKeeps
<1>5. CASE UNCHANGED sp3Vars
  BY <1>5 DEF SInv, Sp3TypeOK, Aligned, ArgsOfFunction, IsFunction, sp3Vars
<1>6. QED BY <1>1, <1>2, <1>3, <1>4, <1>5 DEF Sp3Next

LEMMA Sp3Invariant == Sp3Spec => []SInv
<1>1. Sp3Init => SInv
  BY Sp3InitKeeps
<1>2. SInv /\ [Sp3Next]_sp3Vars => SInv'
  BY Sp3StepKeeps
<1>3. QED BY <1>1, <1>2, PTL DEF Sp3Spec

-----------------------------------------------------------------------------
(* The theorems. *)

(* The stacks of the author, the script and the assembler, the parameters    *)
(* and the last line have their types, at any depth.                         *)
THEOREM Sp3TypeCorrect == Sp3Spec => []Sp3TypeOK
<1>1. SInv => Sp3TypeOK
  BY DEF SInv
<1>2. QED BY <1>1, Sp3Invariant, PTL

(* For any text, at any depth: the assembler sees the author's nesting       *)
(* (sp3_to_mc.pl:62, 66-68, 77-85).                                          *)
THEOREM Sp3Nesting == Sp3Spec => []NestingKept
<1>1. SInv => NestingKept
  <2>. SUFFICES ASSUME SInv PROVE NestingKept
    OBVIOUS
  <2>1. source \in Seq(Constructs) /\ Aligned
    BY StackTypes DEF SInv
  <2>2. ASSUME NEW k \in DOMAIN source
        PROVE  Closes(source[k].kind, gas[k])
    <3>1. k \in 1 .. Len(source)
      BY <2>1, LenProperties
    <3>2. source[k].kind \in Kinds
      <4>1. source[k] \in Constructs
        BY <2>1, <3>1, ElementOfSeq
      <4>2. QED BY <4>1 DEF Constructs
    <3>3. gas[k] = DirectiveOf(source[k].kind)
      BY <2>1, <3>1 DEF Aligned
    <3>4. QED BY <3>2, <3>3 DEF Closes, DirectiveOf, Kinds
  <2>3. QED BY <2>1, <2>2 DEF NestingKept, SInv, Aligned
<1>2. QED BY <1>1, Sp3Invariant, PTL

(* For any text, at any depth: an operand is escaped exactly on the lines of *)
(* the function whose parameter it is, and there only where white space or a *)
(* comma follows it (sp3_to_mc.pl:67-75, 80-83).                             *)
THEOREM Sp3Escaping == Sp3Spec => EscapedInItsFunction
<1>1. SInv /\ [Sp3Next]_sp3Vars =>
        [line' # line =>
           (line'.escaped <=>
              line'.after = "separator" /\ IsParameter(line'.operand))]_sp3Vars
  <2>. SUFFICES ASSUME SInv, [Sp3Next]_sp3Vars, line' # line
                PROVE  line'.escaped <=>
                         line'.after = "separator" /\ IsParameter(line'.operand)
    OBVIOUS
  <2>1. PICK name \in Names, after \in Followers :
          IfLine(name, after) \/ PlainLine(name, after)
    BY DEF Sp3Next, ForLine, FunctionLine, EndLine, sp3Vars
  <2>2. line' = [operand |-> name, after |-> after, escaped |-> Escaped(name, after)]
    BY <2>1 DEF IfLine, PlainLine, ReadLine
  <2>3. /\ line'.operand = name /\ line'.after = after
        /\ line'.escaped = (name \in args /\ after = "separator")
    BY <2>2 DEF Escaped
  <2>4. DOMAIN source = 1 .. Len(source)
    BY StackTypes, LenProperties DEF SInv
  <2>5. name \in args <=>
          \E k \in 1 .. Len(source) : IsFunction(k) /\ name \in source[k].params
    BY DEF SInv, ArgsOfFunction
  <2>6. QED BY <2>3, <2>4, <2>5 DEF IsFunction, IsParameter
<1>2. QED BY <1>1, Sp3Invariant, PTL DEF Sp3Spec, EscapedInItsFunction

-----------------------------------------------------------------------------
(* The decoding loop. *)

\* What has been decoded lies before Index, and leaves no gap and no overlap.
Tiled ==
  /\ decoded \subseteq [at : Nat, size : Sizes]
  /\ Index \in Nat /\ Index <= StreamSize
  /\ \A d \in decoded : d.at + d.size <= Index
  /\ \A byte \in 0 .. Index - 1 :
       \E d \in decoded : Covers(d, byte) /\ \A e \in decoded \ {d} : ~Covers(e, byte)

\* Only the loop that has reached the end of the stream exits with 0.
DecodedAll == Succeeded /\ program = "disassemble" => Index >= StreamSize

\* Only assemble parses, flushes and prints what it has flushed.
Assembling == {"parse", "reset", "flush", "print"}

\* Creation goes through the objects in order.
Stages ==
  /\ program \in {"assemble", "disassemble"} /\ step \in Nat \ {0}
  /\ api_phase \in Assembling => program = "assemble"

DInv == Tiled /\ DecodedAll /\ Stages

(* A null that is tested leads to an exit status other than 0.               *)
LEMMA StatusesFail ==
  ASSUME Stages, step <= Len(Objects)
  PROVE  Objects[step].onNull # 0
<1>1. CASE program = "assemble"
  <2>1. Objects = AssemblerObjects
    BY <1>1 DEF Objects
  <2>2. step \in 1 .. 8
    BY <2>1 DEF AssemblerObjects, Stages
  <2>3. \A k \in 1 .. 8 : AssemblerObjects[k].onNull # 0
    BY DEF AssemblerObjects, Object, Unchecked
  <2>4. QED BY <2>1, <2>2, <2>3
<1>2. CASE program = "disassemble"
  <2>1. Objects = DisassemblerObjects
    BY <1>2 DEF Objects
  <2>2. step \in 1 .. 7
    BY <2>1 DEF DisassemblerObjects, Stages
  <2>3. \A k \in 1 .. 7 : DisassemblerObjects[k].onNull # 0
    BY DEF DisassemblerObjects, Object, Unchecked
  <2>4. QED BY <2>1, <2>2, <2>3
<1>3. QED BY <1>1, <1>2 DEF Stages

(* No step leaves the order of the stages.                                   *)
LEMMA StagesKept ==
  ASSUME Stages, [ApiNext]_apiVars
  PROVE  Stages'
<1>1. program' = program /\ (step' = step \/ step' = step + 1)
  BY DEF ApiNext, Create, Created, Parse, ResetBOS, FlushDataStream, PrintData, Decode,
         PrintDisassembly, Quiet, apiVars
<1>2. api_phase' \in Assembling => program = "assemble"
  BY DEF Stages, Assembling, ApiNext, Create, Created, Parse, ResetBOS, FlushDataStream,
         PrintData, Decode, PrintDisassembly, apiVars, Exit, Undefined
<1>3. QED BY <1>1, <1>2 DEF Stages

(* One turn of the loop adds the bytes from Index on, and no others.         *)
LEMMA DecodeTiles ==
  ASSUME Tiled, NEW size \in Sizes, Index + size <= StreamSize,
         decoded' = decoded \cup {[at |-> Index, size |-> size]},
         Index' = Index + size
  PROVE  Tiled'
<1>. DEFINE new == [at |-> Index, size |-> size]
<1>1. size \in Nat \ {0} /\ Index \in Nat /\ StreamSize \in Nat
  BY StreamAssumption DEF Tiled
<1>2. new \in [at : Nat, size : Sizes] /\ new.at = Index /\ new.size = size
  BY <1>1
<1>3. \A d \in decoded : d.at \in Nat /\ d.size \in Nat /\ d.at + d.size <= Index
  BY StreamAssumption DEF Tiled
<1>. HIDE DEF new
<1>4. decoded' = decoded \cup {new}
  BY DEF new
<1>5. \A d \in decoded' : d.at + d.size <= Index'
  BY <1>1, <1>2, <1>3, <1>4
<1>6. ASSUME NEW byte \in 0 .. Index' - 1
      PROVE  \E d \in decoded' : Covers(d, byte) /\ \A e \in decoded' \ {d} : ~Covers(e, byte)
  <2>1. CASE byte < Index
    <3>1. PICK d \in decoded : Covers(d, byte) /\ \A e \in decoded \ {d} : ~Covers(e, byte)
      BY <1>1, <2>1 DEF Tiled
    <3>2. ~Covers(new, byte)
      BY <1>1, <1>2, <2>1 DEF Covers
    <3>3. QED BY <1>4, <3>1, <3>2
  <2>2. CASE byte >= Index
    <3>1. Covers(new, byte)
      BY <1>1, <1>2, <2>2 DEF Covers
    <3>2. \A e \in decoded : ~Covers(e, byte)
      BY <1>1, <1>3, <2>2 DEF Covers
    <3>3. QED BY <1>4, <3>1, <3>2
  <2>3. QED BY <1>1, <2>1, <2>2
<1>7. decoded' \subseteq [at : Nat, size : Sizes]
  BY <1>2, <1>4 DEF Tiled
<1>8. QED BY <1>1, <1>5, <1>6, <1>7 DEF Tiled

(* Before the first turn there is nothing to cover.                          *)
LEMMA DecodeInit ==
  ASSUME ApiInit
  PROVE  DInv
BY StreamAssumption DEF ApiInit, DInv, Tiled, DecodedAll, Stages, Assembling, Succeeded

LEMMA DecodeStepKeeps ==
  ASSUME DInv, [ApiNext]_apiVars
  PROVE  DInv'
<1>. Tiled /\ DecodedAll /\ Stages /\ Stages'
  BY StagesKept DEF DInv
<1>1. CASE Decode
  <2>1. ASSUME NEW size \in Sizes, Index + size <= StreamSize,
               decoded' = decoded \cup {[at |-> Index, size |-> size]},
               Index' = Index + size
        PROVE  Tiled'
    BY <2>1, DecodeTiles
  <2>2. ASSUME UNCHANGED <<Index, decoded>>
        PROVE  Tiled'
    BY <2>2 DEF Tiled, Covers
  <2>3. \/ \E size \in Sizes : /\ Index + size <= StreamSize
                               /\ decoded' = decoded \cup {[at |-> Index, size |-> size]}
                               /\ Index' = Index + size
        \/ UNCHANGED <<Index, decoded>>
    BY <1>1 DEF Decode, Advanced
  <2>4. ~Succeeded'
    BY <1>1 DEF Decode, Exit, Succeeded
  <2>5. QED BY <2>1, <2>2, <2>3, <2>4 DEF DInv, DecodedAll
<1>2. CASE PrintDisassembly
  <2>1. Index' = Index /\ decoded' = decoded /\ Index >= StreamSize
    BY <1>2 DEF PrintDisassembly, Quiet
  <2>2. Tiled'
    BY <2>1 DEF Tiled, Covers
  <2>3. QED BY <2>1, <2>2 DEF DInv, DecodedAll
<1>3. ASSUME \/ Create \/ Created \/ Parse \/ ResetBOS \/ FlushDataStream \/ PrintData
             \/ UNCHANGED apiVars
      PROVE  DInv'
  <2>1. UNCHANGED <<Index, decoded, program>>
    BY <1>3 DEF Create, Created, Parse, ResetBOS, FlushDataStream, PrintData, Quiet,
                apiVars
  <2>2. Succeeded' /\ program' = "disassemble" => Succeeded /\ program = "disassemble"
    <3>1. ASSUME Create PROVE ~Succeeded' \/ UNCHANGED <<api_phase, exit>>
      BY <3>1, StatusesFail DEF Create, Succeeded, Exit, Undefined
    <3>2. ASSUME Created PROVE ~Succeeded'
      BY <3>2 DEF Created, Succeeded, Undefined
    <3>3. ASSUME Parse \/ ResetBOS \/ FlushDataStream PROVE ~Succeeded'
      BY <3>3 DEF Parse, ResetBOS, FlushDataStream, After, Succeeded, Exit
    <3>4. ASSUME PrintData PROVE program # "disassemble"
      BY <3>4 DEF Stages, Assembling, PrintData
    <3>5. QED BY <1>3, <2>1, <3>1, <3>2, <3>3, <3>4 DEF apiVars, Succeeded
  <2>3. Tiled'
    BY <2>1 DEF Tiled, Covers
  <2>4. QED BY <2>1, <2>2, <2>3 DEF DInv, DecodedAll
<1>4. QED BY <1>1, <1>2, <1>3 DEF ApiNext

(* For a stream of any length and any sizes of at least one byte, a          *)
(* successful run has decoded every byte exactly once                        *)
(* (disassemble.cpp:170-185).                                                *)
THEOREM DecodesAll == ApiSpec => []DecodesWholeStream
<1>1. ApiInit => DInv
  BY DecodeInit
<1>2. DInv /\ [ApiNext]_apiVars => DInv'
  BY DecodeStepKeeps
<1>3. DInv => DecodesWholeStream
  <2>. SUFFICES ASSUME DInv, Succeeded, program = "disassemble"
                PROVE  /\ \A byte \in 0 .. StreamSize - 1 :
                            \E d \in decoded :
                              Covers(d, byte) /\ \A e \in decoded \ {d} : ~Covers(e, byte)
                       /\ \A d \in decoded : d.at + d.size <= StreamSize
    BY DEF DecodesWholeStream
  <2>1. Index = StreamSize
    BY StreamAssumption DEF DInv, DecodedAll, Tiled
  <2>2. QED BY <2>1 DEF DInv, Tiled
<1>4. QED BY <1>1, <1>2, <1>3, PTL DEF ApiSpec

-----------------------------------------------------------------------------
(* The objects. *)

Untested == {"MCII", "STI", "MAB", "CE", "IP"}

Programs == program \in {"assemble", "disassemble"}

\* A row of objects in which nothing is needed before it is made, and all that
\* is not tested is needed by a later object or by the program itself.
WellOrdered(row, used) ==
  /\ Len(row) \in Nat
  /\ \A k \in 1 .. Len(row) :
       /\ row[k].onNull # 0
       /\ row[k].onNull = Unchecked => row[k].name \in Untested
       /\ row[k].onNull = Unchecked =>
            row[k].name \in used \/ \E j \in 1 .. Len(row) : row[k].name \in row[j].needs
       /\ \A j \in 1 .. k : row[k].name \notin row[j].needs

(* Both programs make their objects in such an order.                        *)
LEMMA ObjectsWellOrdered ==
  ASSUME Programs
  PROVE  WellOrdered(Objects, Used)
<1>1. CASE program = "assemble"
  <2>. DEFINE row == AssemblerObjects
  <2>1. Objects = row /\ Used = {"TAP"}
    BY <1>1 DEF Objects, Used
  <2>2. Len(row) = 8
    BY DEF AssemblerObjects
  <2>3. /\ row[1] = Object("TheTarget", {}, 2)
        /\ row[2] = Object("MCII", {}, Unchecked)
        /\ row[3] = Object("MRI", {}, -1)
        /\ row[4] = Object("MAI", {"MRI"}, -1)
        /\ row[5] = Object("STI", {}, Unchecked)
        /\ row[6] = Object("MAB", {"MRI"}, Unchecked)
        /\ row[7] = Object("CE", {"MCII", "MRI"}, Unchecked)
        /\ row[8] = Object("TAP", {"MAB", "CE", "STI", "MCII"}, 1)
    BY DEF AssemblerObjects
  <2>. HIDE DEF row
  <2>4. \A k \in 1 .. 8 :
          /\ row[k].onNull # 0
          /\ row[k].onNull = Unchecked =>
               row[k].name \in Untested /\ row[k].name \in row[8].needs \cup row[6].needs
          /\ row[k].onNull = Unchecked => row[k].name \in row[8].needs
    BY <2>3 DEF Object, Unchecked, Untested
  <2>5. \A k \in 1 .. 8 : \A j \in 1 .. k : row[k].name \notin row[j].needs
    BY <2>3 DEF Object
  <2>6. QED BY <2>1, <2>2, <2>4, <2>5 DEF WellOrdered
<1>2. CASE program = "disassemble"
  <2>. DEFINE row == DisassemblerObjects
  <2>1. Objects = row /\ Used = {"DisAsm", "IP", "STI"}
    BY <1>2 DEF Objects, Used
  <2>2. Len(row) = 7
    BY DEF DisassemblerObjects
  <2>3. /\ row[1] = Object("TheTarget", {}, 2)
        /\ row[2] = Object("STI", {}, Unchecked)
        /\ row[3] = Object("MRI", {}, -1)
        /\ row[4] = Object("MAI", {"MRI"}, -1)
        /\ row[5] = Object("DisAsm", {"STI"}, -1)
        /\ row[6] = Object("MCII", {}, Unchecked)
        /\ row[7] = Object("IP", {"MAI", "MCII", "MRI"}, Unchecked)
    BY DEF DisassemblerObjects
  <2>. HIDE DEF row
  <2>4. \A k \in 1 .. 7 :
          /\ row[k].onNull # 0
          /\ row[k].onNull = Unchecked =>
               row[k].name \in Untested /\ row[k].name \in Used \cup row[7].needs
    BY <2>1, <2>3 DEF Object, Unchecked, Untested
  <2>5. \A k \in 1 .. 7 : \A j \in 1 .. k : row[k].name \notin row[j].needs
    BY <2>3 DEF Object
  <2>6. QED BY <2>1, <2>2, <2>4, <2>5 DEF WellOrdered
<1>3. QED BY <1>1, <1>2 DEF Programs

\* What has come out null was not tested, and nothing made so far has needed it.
NullsUnused ==
  /\ \A n \in null :
       \E k \in 1 .. Len(Objects) : Objects[k].name = n /\ Objects[k].onNull = Unchecked
  /\ \A j \in 1 .. Len(Objects) : j < step => Objects[j].needs \cap null = {}

\* The program works with its objects, or has ended well.
Working == api_phase \in Assembling \cup {"decode"} \/ Succeeded

\* Which buffers are empty, by phase of assemble.
Emptied ==
  /\ api_phase \in {"flush", "print"} => passed = emitted
  /\ api_phase = "print" => arrived = emitted
  /\ Succeeded /\ program = "assemble" => printed = emitted

NInv ==
  /\ Programs /\ step \in Nat \ {0}
  /\ api_phase = "create" => NullsUnused
  /\ Working => null = {}
  /\ api_phase = "undefined" => null \cap Untested # {}
  /\ api_phase \in Assembling => program = "assemble"
  /\ api_phase = "decode" => program = "disassemble"

LEMMA NullInit ==
  ASSUME ApiInit
  PROVE  NInv
BY DEF ApiInit, NInv, Programs, NullsUnused, Working, Assembling, Succeeded

(* An object is only made of what is there; if it comes out null and is not  *)
(* tested, no earlier object has needed it.                                  *)
LEMMA CreateKeepsNulls ==
  ASSUME NInv, Create
  PROVE  NInv'
<1>. DEFINE o == Objects[step]
<1>1. /\ api_phase = "create" /\ NullsUnused /\ Programs /\ step \in 1 .. Len(Objects)
      /\ WellOrdered(Objects, Used)
  BY ObjectsWellOrdered DEF NInv, Create, WellOrdered
<1>2. UNCHANGED program /\ Objects' = Objects
  BY DEF Create, Objects, AssemblerObjects, DisassemblerObjects
<1>3. Len(Objects) \in Nat /\ step \in Nat
  BY <1>1 DEF WellOrdered
<1>4. CASE (o.needs \cup {"TheTarget"}) \cap null # {}
  <2>1. api_phase' = "undefined" /\ UNCHANGED <<step, null>>
    BY <1>4 DEF Create, Undefined
  <2>2. null \cap Untested # {}
    BY <1>1, <1>4 DEF NullsUnused, WellOrdered
  <2>3. QED BY <1>1, <1>2, <2>1, <2>2 DEF NInv, Programs, Working, Assembling, Succeeded
<1>5. CASE ~((o.needs \cup {"TheTarget"}) \cap null # {})
  <2>1. \/ step' = step + 1 /\ UNCHANGED <<null, api_phase>>
        \/ /\ o.onNull = Unchecked /\ null' = null \cup {o.name}
           /\ step' = step + 1 /\ UNCHANGED api_phase
        \/ api_phase' = "exit" /\ exit' = o.onNull /\ step' = step
    BY <1>5 DEF Create, Exit
  <2>2. CASE api_phase' = "exit" /\ exit' = o.onNull /\ step' = step
    <3>1. o.onNull # 0
      BY <1>1 DEF WellOrdered
    <3>2. QED BY <1>1, <1>2, <1>3, <2>2, <3>1 DEF NInv, Programs, Working, Assembling, Succeeded
  <2>3. ASSUME step' = step + 1, api_phase' = api_phase,
               null' = null \/ (o.onNull = Unchecked /\ null' = null \cup {o.name})
        PROVE  NInv'
    <3>1. ASSUME NEW n \in null'
          PROVE  \E k \in 1 .. Len(Objects) :
                   Objects[k].name = n /\ Objects[k].onNull = Unchecked
      BY <1>1, <2>3, <3>1 DEF NullsUnused
    <3>2. ASSUME NEW j \in 1 .. Len(Objects), j < step + 1
          PROVE  Objects[j].needs \cap null' = {}
      <4>1. Objects[j].needs \cap null = {}
        BY <1>1, <1>3, <1>5, <3>2 DEF NullsUnused
      <4>2. o.name \notin Objects[j].needs
        BY <1>1, <1>3, <3>2 DEF WellOrdered
      <4>3. QED BY <2>3, <4>1, <4>2
    <3>3. NullsUnused'
      BY <1>2, <2>3, <3>1, <3>2 DEF NullsUnused
    <3>4. QED BY <1>1, <1>2, <1>3, <2>3, <3>3 DEF NInv, Programs, Working, Assembling, Succeeded
  <2>4. QED BY <2>1, <2>2, <2>3
<1>6. QED BY <1>4, <1>5

(* What is not tested is needed in the end: a program that comes to work has *)
(* all of its objects.                                                       *)
LEMMA CreatedKeepsNulls ==
  ASSUME NInv, Created
  PROVE  NInv'
<1>1. /\ api_phase = "create" /\ NullsUnused /\ Programs /\ step > Len(Objects)
      /\ WellOrdered(Objects, Used) /\ step \in Nat
  BY ObjectsWellOrdered DEF NInv, Created
<1>2. UNCHANGED <<program, null, step>>
  BY DEF Created
<1>3. CASE Used \cap null # {}
  <2>1. api_phase' = "undefined"
    BY <1>3 DEF Created, Undefined
  <2>2. null \cap Untested # {}
    BY <1>1, <1>3 DEF NullsUnused, WellOrdered
  <2>3. QED BY <1>1, <1>2, <2>1, <2>2 DEF NInv, Programs, Working, Assembling, Succeeded
<1>4. CASE Used \cap null = {}
  <2>1. \/ api_phase' = "parse" /\ program = "assemble"
        \/ api_phase' = "decode" /\ program = "disassemble"
    <3>1. api_phase' = IF program = "assemble" THEN "parse" ELSE "decode"
      BY <1>4 DEF Created
    <3>2. program \in {"assemble", "disassemble"}
      BY <1>1 DEF Programs
    <3>3. QED BY <3>1, <3>2
  <2>2. \A j \in 1 .. Len(Objects) : Objects[j].needs \cap null = {}
    BY <1>1 DEF NullsUnused, WellOrdered
  <2>3. null = {}
    BY <1>1, <1>4, <2>2 DEF NullsUnused, WellOrdered
  <2>4. QED BY <1>1, <1>2, <2>1, <2>3 DEF NInv, Programs, Working, Assembling, Succeeded
<1>5. QED BY <1>3, <1>4

LEMMA NullStepKeeps ==
  ASSUME NInv, [ApiNext]_apiVars
  PROVE  NInv'
<1>1. CASE Create   BY <1>1, CreateKeepsNulls
<1>2. CASE Created  BY <1>2, CreatedKeepsNulls
<1>3. CASE Parse \/ ResetBOS \/ FlushDataStream
  <2>1. UNCHANGED <<program, step, null>> /\ null = {} /\ program = "assemble"
    BY <1>3 DEF Parse, ResetBOS, FlushDataStream, Quiet, NInv, Working, Assembling
  <2>2. \/ api_phase' \in {"reset", "flush", "print"}
        \/ api_phase' = "exit" /\ exit' = 1
    BY <1>3 DEF Parse, ResetBOS, FlushDataStream, After, Exit
  <2>3. QED BY <2>1, <2>2 DEF NInv, Programs, Working, Assembling, Succeeded
<1>4. CASE PrintData
  <2>1. /\ UNCHANGED <<program, step, null>> /\ null = {} /\ program = "assemble"
        /\ api_phase' = "exit"
    BY <1>4 DEF PrintData, Quiet, NInv, Working, Assembling, Exit
  <2>2. QED BY <2>1 DEF NInv, Programs, Working, Assembling, Succeeded
<1>5. CASE Decode
  <2>1. UNCHANGED <<program, step, null>> /\ null = {} /\ program = "disassemble"
    BY <1>5 DEF Decode, NInv, Working, Assembling
  <2>2. api_phase' = "decode" \/ (api_phase' = "exit" /\ exit' = 1)
    BY <1>5 DEF Decode, Exit
  <2>3. QED BY <2>1, <2>2 DEF NInv, Programs, Working, Assembling, Succeeded
<1>6. CASE PrintDisassembly
  <2>1. /\ UNCHANGED <<program, step, null>> /\ null = {} /\ program = "disassemble"
        /\ api_phase' = "exit"
    BY <1>6 DEF PrintDisassembly, Quiet, NInv, Working, Assembling, Exit
  <2>2. QED BY <2>1 DEF NInv, Programs, Working, Assembling, Succeeded
<1>7. CASE UNCHANGED apiVars
  <2>1. Objects' = Objects
    BY <1>7 DEF apiVars, Objects, AssemblerObjects, DisassemblerObjects
  <2>2. QED BY <1>7, <2>1 DEF apiVars, NInv, Programs, NullsUnused, Working, Assembling, Succeeded
<1>8. QED BY <1>1, <1>2, <1>3, <1>4, <1>5, <1>6, <1>7 DEF ApiNext

LEMMA NullInvariant == ApiSpec => []NInv
<1>1. ApiInit => NInv
  BY NullInit
<1>2. NInv /\ [ApiNext]_apiVars => NInv'
  BY NullStepKeeps
<1>3. QED BY <1>1, <1>2, PTL DEF ApiSpec

(* For any target, whatever hooks it lacks: a program that exits with 0 had  *)
(* all its objects, and one that runs into a null runs into one that the     *)
(* source does not test (assemble.cpp:103-161, disassemble.cpp:99-163).      *)
THEOREM NullsNoticed == ApiSpec => []NullsAreNoticed
<1>1. NInv => NullsAreNoticed
  BY DEF NInv, Working, NullsAreNoticed, Untested
<1>2. QED BY <1>1, NullInvariant, PTL

(* One step empties one of the buffers, in the order of the way through them. *)
LEMMA EmptiedStepKeeps ==
  ASSUME NInv, Emptied, [ApiNext]_apiVars
  PROVE  Emptied'
<1>1. CASE Create \/ Created \/ Decode
  <2>1. api_phase' \notin {"flush", "print"}
    BY <1>1 DEF Create, Created, Decode, Exit, Undefined
  <2>2. ~(Succeeded /\ program = "assemble")'
    <3>1. CASE Create
      <4>1. ~Succeeded
        BY <3>1 DEF Create, Succeeded
      <4>2. step \in 1 .. Len(Objects) /\ WellOrdered(Objects, Used)
        BY <3>1, ObjectsWellOrdered DEF NInv, Create, WellOrdered
      <4>3. Objects[step].onNull # 0
        BY <4>2 DEF WellOrdered
      <4>4. QED BY <3>1, <4>1, <4>3 DEF Create, Succeeded, Exit, Undefined
    <3>2. CASE Created
      BY <3>2 DEF Created, Succeeded, Undefined
    <3>3. CASE Decode
      BY <3>3 DEF Decode, Exit, Succeeded
    <3>4. QED BY <1>1, <3>1, <3>2, <3>3
  <2>3. QED BY <2>1, <2>2 DEF Emptied
<1>2. CASE Parse
  <2>1. api_phase' = "reset" \/ (api_phase' = "exit" /\ exit' = 1)
    BY <1>2 DEF Parse, After, Exit
  <2>2. QED BY <2>1 DEF Emptied, Succeeded
<1>3. CASE ResetBOS
  <2>1. api_phase' = "flush" /\ passed' = emitted'
    BY <1>3 DEF ResetBOS, After
  <2>2. QED BY <2>1 DEF Emptied, Succeeded
<1>4. CASE FlushDataStream
  <2>1. /\ api_phase = "flush" /\ api_phase' = "print"
        /\ arrived' = passed /\ passed' = passed /\ emitted' = emitted
    BY <1>4 DEF FlushDataStream, After
  <2>2. QED BY <2>1 DEF Emptied, Succeeded
<1>5. CASE PrintData
  <2>1. /\ api_phase = "print" /\ api_phase' = "exit"
        /\ printed' = arrived /\ emitted' = emitted
    BY <1>5 DEF PrintData, Exit
  <2>2. QED BY <2>1 DEF Emptied
<1>6. CASE PrintDisassembly
  <2>1. api_phase' = "exit" /\ program' = "disassemble"
    BY <1>6 DEF PrintDisassembly, Quiet, Exit, NInv
  <2>2. QED BY <2>1 DEF Emptied
<1>7. CASE UNCHANGED apiVars
  BY <1>7 DEF apiVars, streams, Emptied, Succeeded
<1>8. QED BY <1>1, <1>2, <1>3, <1>4, <1>5, <1>6, <1>7 DEF ApiNext

(* For objects of any size, whatever the buffers keep to themselves: what is *)
(* printed is all of what was assembled (assemble.cpp:143-144, 168-176).     *)
THEOREM PrintsAll == ApiSpec => []PrintsWholeObject
<1>1. ApiInit => Emptied
  BY DEF ApiInit, Emptied, Succeeded
<1>2. NInv /\ Emptied /\ [ApiNext]_apiVars => Emptied'
  BY EmptiedStepKeeps
<1>3. Emptied => PrintsWholeObject
  BY DEF Emptied, PrintsWholeObject
<1>4. QED BY <1>1, <1>2, <1>3, NullInvariant, PTL DEF ApiSpec

-----------------------------------------------------------------------------
(* The types of the programs' variables.  What is printed and what has left *)
(* the streams is never more than what went in: the number of decoded       *)
(* instructions only grows.                                                 *)

Statuses == {-1, 0, 1, 2}

\* How full the streams are, by phase.
Streams ==
  /\ IsFiniteSet(decoded) /\ decoded \subseteq [at : Nat, size : Sizes]
  /\ emitted \in Nat /\ passed \in 0 .. emitted
  /\ arrived \in 0 .. passed /\ printed \in 0 .. arrived
  /\ api_phase \in {"create", "parse"} => decoded = {} /\ emitted = 0
  /\ api_phase \in Assembling \cup {"decode"} => printed = 0
  /\ api_phase = "decode" => emitted = Cardinality(decoded)
  /\ Index \in Nat /\ turn \in {0, 1}

Creation ==
  /\ Programs
  /\ step \in 1 .. Len(Objects) + 1
  /\ null \subseteq {Objects[k].name : k \in DOMAIN Objects}
  /\ api_phase \in {"create", "decode", "exit", "undefined"} \cup Assembling
  /\ exit \in Statuses

LEMMA ObjectRows ==
  ASSUME Programs
  PROVE  /\ Len(Objects) \in Nat /\ DOMAIN Objects = 1 .. Len(Objects)
         /\ \A k \in 1 .. Len(Objects) : Objects[k].onNull \in Statuses \cup {Unchecked}
<1>1. CASE program = "assemble"
  <2>1. Objects = AssemblerObjects
    BY <1>1 DEF Objects
  <2>2. Len(AssemblerObjects) = 8 /\ DOMAIN AssemblerObjects = 1 .. 8
    BY DEF AssemblerObjects
  <2>3. \A k \in 1 .. 8 : AssemblerObjects[k].onNull \in Statuses \cup {Unchecked}
    BY DEF AssemblerObjects, Object, Statuses
  <2>4. QED BY <2>1, <2>2, <2>3
<1>2. CASE program = "disassemble"
  <2>1. Objects = DisassemblerObjects
    BY <1>2 DEF Objects
  <2>2. Len(DisassemblerObjects) = 7 /\ DOMAIN DisassemblerObjects = 1 .. 7
    BY DEF DisassemblerObjects
  <2>3. \A k \in 1 .. 7 : DisassemblerObjects[k].onNull \in Statuses \cup {Unchecked}
    BY DEF DisassemblerObjects, Object, Statuses
  <2>4. QED BY <2>1, <2>2, <2>3
<1>3. QED BY <1>1, <1>2 DEF Programs

LEMMA CreationKeeps ==
  ASSUME Creation, [ApiNext]_apiVars
  PROVE  Creation'
<1>1. program' = program
  BY DEF ApiNext, Create, Created, Parse, ResetBOS, FlushDataStream, PrintData, Decode,
         PrintDisassembly, Quiet, apiVars
<1>2. Objects' = Objects
  BY <1>1 DEF Objects, AssemblerObjects, DisassemblerObjects
<1>3. CASE Create
  <2>. DEFINE o == Objects[step]
  <2>1. /\ Len(Objects) \in Nat /\ DOMAIN Objects = 1 .. Len(Objects)
        /\ step \in 1 .. Len(Objects) /\ api_phase = "create"
    BY <1>3, ObjectRows DEF Creation, Create
  <2>2. o.onNull \in Statuses \cup {Unchecked}
    BY <2>1, ObjectRows DEF Creation
  <2>3. \/ UNCHANGED <<step, null, exit>> /\ api_phase' = "undefined"
        \/ UNCHANGED <<null, api_phase, exit>> /\ step' = step + 1
        \/ UNCHANGED <<api_phase, exit>> /\ null' = null \cup {o.name} /\ step' = step + 1
        \/ /\ o.onNull # Unchecked /\ null' = null \cup {o.name}
           /\ api_phase' = "exit" /\ exit' = o.onNull /\ step' = step
    BY <1>3 DEF Create, Exit, Undefined
  <2>4. o.name \in {Objects[k].name : k \in DOMAIN Objects}
    BY <2>1
  <2>. HIDE DEF o
  <2>5. step' \in 1 .. Len(Objects) + 1
    BY <2>1, <2>3
  <2>6. null' \subseteq {Objects[k].name : k \in DOMAIN Objects}
    BY <2>3, <2>4 DEF Creation
  <2>7. exit' \in Statuses
    BY <2>2, <2>3 DEF Creation
  <2>8. api_phase' \in {"create", "exit", "undefined"}
    BY <2>1, <2>3
  <2>9. QED BY <1>1, <1>2, <2>5, <2>6, <2>7, <2>8 DEF Creation, Programs
<1>4. ASSUME UNCHANGED <<step, null>>, exit' \in Statuses,
             api_phase' \in {"create", "decode", "exit", "undefined"} \cup Assembling
      PROVE  Creation'
  BY <1>1, <1>2, <1>4 DEF Creation, Programs
<1>5. CASE \/ Created \/ Parse \/ ResetBOS \/ FlushDataStream \/ PrintData \/ Decode
           \/ PrintDisassembly \/ UNCHANGED apiVars
  <2>1. UNCHANGED <<step, null>>
    BY <1>5 DEF Created, Parse, ResetBOS, FlushDataStream, PrintData, Decode,
                PrintDisassembly, Quiet, apiVars
  <2>2. exit' \in Statuses
    BY <1>5 DEF Creation, Statuses, Created, Parse, ResetBOS, FlushDataStream, PrintData,
                Decode, PrintDisassembly, apiVars, Exit, Undefined
  <2>3. api_phase' \in {"create", "decode", "exit", "undefined"} \cup Assembling
    BY <1>5 DEF Creation, Created, Parse, ResetBOS, FlushDataStream, PrintData, Decode,
                PrintDisassembly, apiVars, Exit, Undefined, After, Assembling
  <2>4. QED BY <1>4, <2>1, <2>2, <2>3
<1>6. QED BY <1>3, <1>5 DEF ApiNext

LEMMA DecodeGrows ==
  ASSUME Streams, Decode
  PROVE  Streams'
<1>1. /\ api_phase = "decode" /\ printed = 0 /\ emitted = Cardinality(decoded)
      /\ turn' \in {0, 1} /\ printed' = printed
  BY DEF Decode, Streams
<1>2. CASE Exit(1) /\ UNCHANGED <<Index, decoded, emitted, passed, arrived>>
  BY <1>1, <1>2 DEF Streams, Assembling, Exit
<1>3. CASE \E size \in Sizes :
             /\ Index + size <= StreamSize
             /\ decoded' = decoded \cup {[at |-> Index, size |-> size]}
             /\ Index' = Advanced(size)
             /\ emitted' = Cardinality(decoded')
             /\ passed' \in passed .. emitted'
             /\ arrived' \in arrived .. passed'
             /\ UNCHANGED <<api_phase, exit>>
  <2>1. PICK size \in Sizes :
             /\ decoded' = decoded \cup {[at |-> Index, size |-> size]}
             /\ Index' = Index + size
             /\ emitted' = Cardinality(decoded')
             /\ passed' \in passed .. emitted'
             /\ arrived' \in arrived .. passed'
             /\ UNCHANGED <<api_phase, exit>>
    BY <1>3 DEF Advanced
  <2>. DEFINE new == [at |-> Index, size |-> size]
  <2>2. new \in [at : Nat, size : Sizes] /\ Index' \in Nat
    BY <2>1, StreamAssumption DEF Streams
  <2>. HIDE DEF new
  <2>3. decoded' = decoded \cup {new} /\ IsFiniteSet(decoded)
    BY <2>1 DEF new, Streams
  <2>4. IsFiniteSet(decoded') /\ Cardinality(decoded') \in Nat
    BY <2>3, FS_AddElement, FS_CardinalityType
  <2>5. decoded' \subseteq [at : Nat, size : Sizes]
    BY <2>2, <2>3 DEF Streams
  <2>6. /\ passed' \in 0 .. emitted' /\ arrived' \in 0 .. passed'
        /\ printed' \in 0 .. arrived'
    BY <1>1, <2>1, <2>4 DEF Streams
  <2>7. QED BY <1>1, <2>1, <2>2, <2>4, <2>5, <2>6 DEF Streams
<1>4. QED BY <1>2, <1>3 DEF Decode

LEMMA StreamsKeep ==
  ASSUME Streams, [ApiNext]_apiVars
  PROVE  Streams'
<1>1. CASE Create
  <2>1. UNCHANGED <<Index, decoded, turn, streams>>
    BY <1>1 DEF Create
  <2>2. api_phase = "create" /\ api_phase' \in {"create", "undefined", "exit"}
    BY <1>1 DEF Create, Undefined, Exit
  <2>3. QED BY <2>1, <2>2 DEF Streams, Assembling, streams
<1>2. CASE Created
  <2>1. UNCHANGED <<Index, decoded, turn, streams>>
    BY <1>2 DEF Created
  <2>2. api_phase = "create" /\ api_phase' \in {"parse", "decode", "undefined"}
    BY <1>2 DEF Created, Undefined
  <2>3. printed = 0
    BY <2>2 DEF Streams
  <2>4. QED BY <2>1, <2>2, <2>3, FS_EmptySet DEF Streams, Assembling, streams
<1>3. CASE Parse
  <2>1. UNCHANGED <<Index, decoded, turn, passed, arrived, printed>>
    BY <1>3 DEF Parse, Quiet
  <2>2. api_phase = "parse" /\ api_phase' \in {"reset", "exit"}
    BY <1>3 DEF Parse, After, Exit
  <2>3. emitted' = emitted \/ emitted' \in 1 .. MaxObject
    BY <1>3 DEF Parse
  <2>4. passed' = 0 /\ arrived' = 0 /\ printed' = 0 /\ emitted' \in Nat
    BY <2>1, <2>2, <2>3, StreamAssumption DEF Streams
  <2>5. QED BY <2>1, <2>2, <2>4 DEF Streams, Assembling
<1>4. CASE ResetBOS
  <2>1. /\ UNCHANGED <<Index, decoded, turn, emitted, printed>>
        /\ api_phase = "reset" /\ api_phase' = "flush"
        /\ passed' = emitted /\ arrived' \in arrived .. emitted
    BY <1>4 DEF ResetBOS, Quiet, After
  <2>2. printed = 0
    BY <2>1 DEF Streams, Assembling
  <2>3. QED BY <2>1, <2>2 DEF Streams, Assembling
<1>5. CASE FlushDataStream
  <2>1. /\ UNCHANGED <<Index, decoded, turn, emitted, passed, printed>>
        /\ api_phase = "flush" /\ api_phase' = "print"
        /\ arrived' = passed
    BY <1>5 DEF FlushDataStream, Quiet, After
  <2>2. printed = 0
    BY <2>1 DEF Streams, Assembling
  <2>3. QED BY <2>1, <2>2 DEF Streams, Assembling
<1>6. CASE PrintData \/ PrintDisassembly
  <2>1. /\ UNCHANGED <<Index, decoded, turn, emitted, passed, arrived>>
        /\ api_phase' = "exit" /\ printed' = arrived
    BY <1>6 DEF PrintData, PrintDisassembly, Quiet, Exit
  <2>2. QED BY <2>1 DEF Streams, Assembling
<1>7. CASE Decode
  BY <1>7, DecodeGrows
<1>8. CASE UNCHANGED apiVars
  BY <1>8 DEF apiVars, streams, Streams
<1>9. QED BY <1>1, <1>2, <1>3, <1>4, <1>5, <1>6, <1>7, <1>8 DEF ApiNext

(* The variables of both programs have their types, for a stream of any      *)
(* length: what has been printed went into the streams before.               *)
THEOREM ApiTypeCorrect == ApiSpec => []ApiTypeOK
<1>1. ApiInit => Creation /\ Streams
  <2>. SUFFICES ASSUME ApiInit
                PROVE  Creation /\ Streams
    OBVIOUS
  <2>1. Programs /\ Len(Objects) \in Nat
    BY ObjectRows DEF ApiInit, Programs
  <2>2. Creation
    BY <2>1 DEF ApiInit, Creation, Statuses
  <2>3. Streams
    BY FS_EmptySet DEF ApiInit, Streams, Assembling
  <2>4. QED BY <2>2, <2>3
<1>2. Creation /\ Streams /\ [ApiNext]_apiVars => Creation' /\ Streams'
  BY CreationKeeps, StreamsKeep
<1>3. Creation /\ Streams => ApiTypeOK
  BY DEF Creation, Streams, Statuses, Assembling, ApiTypeOK
<1>4. QED BY <1>1, <1>2, <1>3, PTL DEF ApiSpec

-----------------------------------------------------------------------------
(* The tools beside each other: what each of them does alone, it does there. *)

LEMMA PartsOfTools == ToolSpec => Spec /\ Sp3Spec /\ ApiSpec /\ DebugSpec
<1>1. ToolInit => Init /\ Sp3Init /\ ApiInit /\ DebugInit
  BY DEF ToolInit
<1>2. [ToolNext]_toolVars =>
        [Next]_vars /\ [Sp3Next]_sp3Vars /\ [ApiNext]_apiVars /\ [DebugNext]_debugVars
  <2>1. AmdphdrsStep => Next /\ UNCHANGED <<sp3Vars, apiVars, debugVars>>
    BY DEF AmdphdrsStep
  <2>2. Sp3Step => Sp3Next /\ UNCHANGED <<vars, apiVars, debugVars>>
    BY DEF Sp3Step
  <2>3. ApiStep => ApiNext /\ UNCHANGED <<vars, sp3Vars, debugVars>>
    BY DEF ApiStep
  <2>4. DebugStep => DebugNext /\ UNCHANGED <<vars, sp3Vars, apiVars>>
    BY DEF DebugStep
  <2>5. UNCHANGED toolVars => UNCHANGED <<vars, sp3Vars, apiVars, debugVars>>
    BY DEF toolVars
  <2>6. QED BY <2>1, <2>2, <2>3, <2>4, <2>5 DEF ToolNext
<1>3. QED BY <1>1, <1>2, PTL DEF ToolSpec, Spec, Sp3Spec, ApiSpec, DebugSpec

(* The variables of all the tools have their types.                          *)
THEOREM ToolsTypeCorrect == ToolSpec => []TypesOK
<1>1. TypeOK /\ Sp3TypeOK /\ ApiTypeOK /\ DebugTypeOK => TypesOK
  BY DEF TypesOK
<1>2. QED BY <1>1, PartsOfTools, AmdphdrsTypeCorrect, Sp3TypeCorrect, ApiTypeCorrect,
             DebugTypeCorrect, PTL

=============================================================================
