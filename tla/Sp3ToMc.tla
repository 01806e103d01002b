------------------------------ MODULE Sp3ToMc ------------------------------
(***************************************************************************)
(* bin/sp3_to_mc.pl: a translator that works line by line, with a stack of *)
(* the open constructs and the parameters of the function it is in.  The   *)
(* author of the text, the script and the assembler that reads the result  *)
(* each have their own idea of what is open.                               *)
(*                                                                         *)
(* A line is its kind and an operand in it: a name, and what stands after  *)
(* it, white space or a comma (every line ends with white space), or        *)
(* anything else, such as the bracket that ends a call, a condition or an   *)
(* index.  The regular expressions are taken to recognise the kind of the   *)
(* line, and no name ends with another one.                                 *)
(***************************************************************************)
EXTENDS Naturals, Sequences

CONSTANTS
  Names,             \* parameters of functions, and other operands
  MaxDepth           \* bound on the open constructs of the text

Kinds == {"for", "if", "function"}
Followers == {"separator", "bracket"}

VARIABLES
  source,            \* what the author has open: [kind, params], innermost last
  scope, args,       \* @scope and @args
  gas,               \* what the assembler has open: .irp, .if, .macro
  misclosed,         \* history: it was given the wrong directive to close it
  line               \* the last line with an operand, and what it became

sp3Vars == <<source, scope, args, gas, misclosed, line>>

NoLine == [operand |-> "none", after |-> "separator", escaped |-> FALSE]
Front(s) == SubSeq(s, 1, Len(s) - 1)
Last(s)  == s[Len(s)]

\* The author opens a construct, and the assembler reads its directive.
Open(kind, params, directive) ==
  /\ Len(source) < MaxDepth
  /\ source' = Append(source, [kind |-> kind, params |-> params])
  /\ gas' = Append(gas, directive)
  /\ UNCHANGED misclosed

\* for var ... : one .irp line; next leaves the other substitutions out.
ForLine ==
  /\ Open("for", {}, ".irp")
  /\ scope' = Append(scope, "for")
  /\ UNCHANGED <<args, line>>

\* s/($arg[\s,])/\\$1/g for each of @args
Escaped(name, after) == name \in args /\ after = "separator"

\* The script's last line is about the one with this operand.
ReadLine(name, after) ==
  line' = [operand |-> name, after |-> after, escaped |-> Escaped(name, after)]

\* if: the condition may use a parameter.
IfLine(name, after) ==
  /\ Open("if", {}, ".if")
  /\ scope' = Append(scope, "if")
  /\ ReadLine(name, after)
  /\ UNCHANGED args

\* function name(params): the parameters replace those of any other function.
\* Functions are not nested.
FunctionLine(params) ==
  /\ \A k \in DOMAIN source : source[k].kind # "function"
  /\ Open("function", params, ".macro")
  /\ scope' = Append(scope, "function")
  /\ args' = params
  /\ UNCHANGED line

\* A line without a construct: an instruction, a call, else.  The brackets of
\* a call are only removed when its operands have been looked at.
PlainLine(name, after) ==
  /\ ReadLine(name, after)
  /\ UNCHANGED <<source, scope, args, gas, misclosed>>

Closes(s, directive) ==
  \/ s = "if" /\ directive = ".if"           \* .endif
  \/ s = "function" /\ directive = ".macro"  \* .endm
  \/ s = "for" /\ directive = ".irp"         \* .endr

\* Mutant: the parameters are kept when the function ends.
ArgsAfter_Mut(s) == args

\* @args = [] leaves a list whose one element is no name of the text.
ArgsAfter(s) == IF s = "function" THEN {} ELSE args

\* Mutant: the outermost construct is taken from the stack (shift for pop).
Popped_Mut == [rest |-> Tail(scope), s |-> Head(scope)]

\* pop @scope
Popped == [rest |-> Front(scope), s |-> Last(scope)]

\* end: the author closes the innermost construct, the script the one it
\* popped, and the assembler accepts that for its own innermost one or not.
EndLine ==
  /\ source # << >>
  /\ source' = Front(source)
  /\ scope' = Popped.rest
  /\ args' = ArgsAfter(Popped.s)
  /\ IF gas # << >> /\ Closes(Popped.s, Last(gas))
     THEN gas' = Front(gas) /\ UNCHANGED misclosed
     ELSE misclosed' = TRUE /\ UNCHANGED gas
  /\ UNCHANGED line

Sp3Init ==
  /\ source = << >> /\ scope = << >> /\ gas = << >>
  /\ args = {}
  /\ misclosed = FALSE
  /\ line = NoLine

Sp3Next ==
  \/ ForLine \/ EndLine
  \/ \E name \in Names, after \in Followers : IfLine(name, after) \/ PlainLine(name, after)
  \/ \E params \in SUBSET Names : FunctionLine(params)

Sp3Spec == Sp3Init /\ [][Sp3Next]_sp3Vars

-----------------------------------------------------------------------------
(* Properties. *)

Sp3TypeOK ==
  /\ source \in Seq([kind : Kinds, params : SUBSET Names])
  /\ scope \in Seq(Kinds) /\ gas \in Seq({".irp", ".if", ".macro"})
  /\ args \subseteq Names /\ misclosed \in BOOLEAN
  /\ line \in {NoLine} \cup [operand : Names, after : Followers, escaped : BOOLEAN]

(* The assembler sees the author's nesting: every end closes what the author *)
(* closes, with the directive of its kind (sp3_to_mc.pl:62, 66-68, 77-85).   *)
NestingKept ==
  /\ ~misclosed
  /\ Len(gas) = Len(source)
  /\ \A k \in DOMAIN source : Closes(source[k].kind, gas[k])

\* The function that the author is in has this parameter.
IsParameter(name) ==
  \E k \in DOMAIN source : source[k].kind = "function" /\ name \in source[k].params

(* An operand that white space or a comma follows becomes a macro argument   *)
(* exactly on the lines of the function whose parameter it is, at any depth  *)
(* inside it, after other functions and not after its end.  One before a     *)
(* bracket never does: the last operand of a call, a condition in brackets   *)
(* and an index stay as they are, also where they are parameters             *)
(* (sp3_to_mc.pl:67-75, 80-83).                                              *)
EscapedInItsFunction ==
  [][line' # line =>
       (line'.escaped <=>
          line'.after = "separator" /\ IsParameter(line'.operand))]_sp3Vars

=============================================================================
