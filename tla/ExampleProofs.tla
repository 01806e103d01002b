--------------------------- MODULE ExampleProofs ---------------------------
(***************************************************************************)
(* The example programs, for any set of them.                              *)
(***************************************************************************)
EXTENDS ExampleKernels, KernelProofs

-----------------------------------------------------------------------------
(* The programs. *)

\* A call that takes a buffer.
Uses == {"Fill", "CopyTo", "Kernarg"}
Pushes == {"Kernarg", "KernargRaw"}
Ops == {"AllocateKernarg", "AllocateBuffer", "SetGridSize", "SetWorkgroupSize"}
         \cup Uses \cup Pushes

Called(S, k, op, arg) == S[k].op = op /\ S[k].arg = arg

\* The arguments are pushed one after the other, from the first call on, and
\* are what the kernel loads; the block is allocated first.
Argued(S, A, first, count, segment) ==
  /\ first \in 2 .. 9 /\ count \in 1 .. 3 /\ first + count - 1 <= Len(S)
  /\ DOMAIN A = {8 * j : j \in 0 .. count - 1}
  /\ S[1].op = "AllocateKernarg" /\ S[1].arg \in {8, 16, 24, 1024}
  /\ segment <= S[1].arg /\ 8 * count <= S[1].arg
  /\ \A k \in 2 .. Len(S) : S[k].op # "AllocateKernarg"
  /\ \A k \in 1 .. Len(S) : S[k].op \in Pushes <=> k \in first .. first + count - 1
  /\ \A j \in 0 .. count - 1 : S[first + j].arg = A[8 * j]
  /\ \A k \in 1 .. Len(S) : S[k].op = "KernargRaw" => S[k].arg = "ticks_to_wait"

\* A buffer is allocated before it is used and not again, and filled before it
\* is copied; every input of the kernel is copied.
Ordered(S, A) ==
  /\ \A k \in 1 .. Len(S) : S[k].op \in Ops
  /\ \A k \in 1 .. Len(S) : S[k].op \in Uses \cup {"AllocateBuffer"} => S[k].arg \in Names
  /\ \A k \in 1 .. Len(S) : S[k].op \in Uses =>
       \E j \in 1 .. k - 1 : Called(S, j, "AllocateBuffer", S[k].arg)
  /\ \A k \in 1 .. Len(S) : S[k].op = "AllocateBuffer" =>
       \A j \in 1 .. k - 1 : S[j].op \in Uses \cup {"AllocateBuffer"} => S[j].arg # S[k].arg
  /\ \A k \in 1 .. Len(S) : S[k].op = "CopyTo" =>
       \E j \in 1 .. k - 1 : Called(S, j, "Fill", S[k].arg)
  /\ \A k \in 1 .. Len(S) : S[k].op \in {"Fill", "CopyTo"} => S[k].arg # "out"
  /\ \A o \in DOMAIN A : A[o] \in Names \cup {"ticks_to_wait"}
  /\ \A o \in DOMAIN A : A[o] \notin {"out", "ticks_to_wait"} =>
       \E k \in 1 .. Len(S) : Called(S, k, "CopyTo", A[o])

\* All the items that the result takes are launched, in one group.
Sized(S, A, items) ==
  (\E o \in DOMAIN A : A[o] = "out") =>
    /\ \A k \in 1 .. Len(S) : S[k].op \in {"SetGridSize", "SetWorkgroupSize"} => S[k].arg = items
    /\ \E k \in 1 .. Len(S) : S[k].op = "SetGridSize"
    /\ \E k \in 1 .. Len(S) : S[k].op = "SetWorkgroupSize"

LEMMA DppSound ==
  /\ Len(DppReduce) = 9 /\ Argued(DppReduce, Loads2("in", "out"), 6, 2, 16)
  /\ Ordered(DppReduce, Loads2("in", "out")) /\ Sized(DppReduce, Loads2("in", "out"), 64)
<1>. DEFINE S == DppReduce
<1>1. /\ Len(S) = 9
      /\ Called(S, 1, "AllocateKernarg", 16) /\ Called(S, 2, "AllocateBuffer", "in")
      /\ Called(S, 3, "Fill", "in") /\ Called(S, 4, "CopyTo", "in")
      /\ Called(S, 5, "AllocateBuffer", "out")
      /\ Called(S, 6, "Kernarg", "in") /\ Called(S, 7, "Kernarg", "out")
      /\ Called(S, 8, "SetGridSize", 64) /\ Called(S, 9, "SetWorkgroupSize", 64)
  BY DEF DppReduce, Do, Called
<1>. DEFINE A == Loads2("in", "out")
<1>2. DOMAIN A = {0, 8} /\ A[0] = "in" /\ A[8] = "out"
  BY DEF Loads2
<1>. HIDE DEF S, A
<1>3. Argued(S, A, 6, 2, 16)
  BY <1>1, <1>2 DEF Argued, Called, Pushes
<1>4. Ordered(S, A)
  BY <1>1, <1>2 DEF Ordered, Called, Uses, Pushes, Ops, Names
<1>5. Sized(S, A, 64)
  BY <1>1, <1>2 DEF Sized, Called
<1>6. QED BY <1>1, <1>3, <1>4, <1>5 DEF S, A

LEMMA DsSound ==
  /\ Len(DsBPermuteDispatch) = 13 /\ Argued(DsBPermuteDispatch, Loads3("in", "index", "out"), 9, 3, 24)
  /\ Ordered(DsBPermuteDispatch, Loads3("in", "index", "out")) /\ Sized(DsBPermuteDispatch, Loads3("in", "index", "out"), 64)
<1>. DEFINE S == DsBPermuteDispatch
            A == Loads3("in", "index", "out")
<1>1. /\ Len(S) = 13
      /\ Called(S, 1, "AllocateKernarg", 24) /\ Called(S, 2, "AllocateBuffer", "in")
      /\ Called(S, 3, "AllocateBuffer", "index") /\ Called(S, 4, "AllocateBuffer", "out")
      /\ Called(S, 5, "Fill", "in") /\ Called(S, 6, "Fill", "index")
      /\ Called(S, 7, "CopyTo", "in") /\ Called(S, 8, "CopyTo", "index")
      /\ Called(S, 9, "Kernarg", "in") /\ Called(S, 10, "Kernarg", "index")
      /\ Called(S, 11, "Kernarg", "out") /\ Called(S, 12, "SetGridSize", 64)
      /\ Called(S, 13, "SetWorkgroupSize", 64)
  BY DEF DsBPermuteDispatch, Do, Called
<1>2. DOMAIN A = {0, 8, 16} /\ A[0] = "in" /\ A[8] = "index" /\ A[16] = "out"
  BY DEF Loads3
<1>. HIDE DEF S, A
<1>3. Argued(S, A, 9, 3, 24)
  BY <1>1, <1>2 DEF Argued, Called, Pushes
<1>4. Ordered(S, A)
  BY <1>1, <1>2 DEF Ordered, Called, Uses, Pushes, Ops, Names
<1>5. Sized(S, A, 64)
  BY <1>1, <1>2 DEF Sized, Called
<1>6. QED BY <1>1, <1>3, <1>4, <1>5 DEF S, A

LEMMA HalfVectorSound ==
  /\ Len(HalfVectorAdd) = 13 /\ Argued(HalfVectorAdd, Loads3("in1", "in2", "out"), 9, 3, 24)
  /\ Ordered(HalfVectorAdd, Loads3("in1", "in2", "out")) /\ Sized(HalfVectorAdd, Loads3("in1", "in2", "out"), 64)
<1>. DEFINE S == HalfVectorAdd
            A == Loads3("in1", "in2", "out")
<1>1. /\ Len(S) = 13
      /\ Called(S, 1, "AllocateKernarg", 24) /\ Called(S, 2, "AllocateBuffer", "in1")
      /\ Called(S, 3, "AllocateBuffer", "in2") /\ Called(S, 4, "Fill", "in1")
      /\ Called(S, 5, "Fill", "in2") /\ Called(S, 6, "CopyTo", "in1")
      /\ Called(S, 7, "CopyTo", "in2") /\ Called(S, 8, "AllocateBuffer", "out")
      /\ Called(S, 9, "Kernarg", "in1") /\ Called(S, 10, "Kernarg", "in2")
      /\ Called(S, 11, "Kernarg", "out") /\ Called(S, 12, "SetGridSize", 64)
      /\ Called(S, 13, "SetWorkgroupSize", 64)
  BY DEF HalfVectorAdd, Do, Called
<1>2. DOMAIN A = {0, 8, 16} /\ A[0] = "in1" /\ A[8] = "in2" /\ A[16] = "out"
  BY DEF Loads3
<1>. HIDE DEF S, A
<1>3. Argued(S, A, 9, 3, 24)
  BY <1>1, <1>2 DEF Argued, Called, Pushes
<1>4. Ordered(S, A)
  BY <1>1, <1>2 DEF Ordered, Called, Uses, Pushes, Ops, Names
<1>5. Sized(S, A, 64)
  BY <1>1, <1>2 DEF Sized, Called
<1>6. QED BY <1>1, <1>3, <1>4, <1>5 DEF S, A

LEMMA AsmSound ==
  /\ Len(AsmKernelDispatch) = 5 /\ Argued(AsmKernelDispatch, Loads1("out"), 3, 1, 8)
  /\ Ordered(AsmKernelDispatch, Loads1("out")) /\ Sized(AsmKernelDispatch, Loads1("out"), 1)
<1>. DEFINE S == AsmKernelDispatch
            A == Loads1("out")
<1>1. /\ Len(S) = 5
      /\ Called(S, 1, "AllocateKernarg", 1024) /\ Called(S, 2, "AllocateBuffer", "out")
      /\ Called(S, 3, "Kernarg", "out") /\ Called(S, 4, "SetGridSize", 1)
      /\ Called(S, 5, "SetWorkgroupSize", 1)
  BY DEF AsmKernelDispatch, Do, Called
<1>2. DOMAIN A = {0} /\ A[0] = "out"
  BY DEF Loads1
<1>. HIDE DEF S, A
<1>3. Argued(S, A, 3, 1, 8)
  BY <1>1, <1>2 DEF Argued, Called, Pushes
<1>4. Ordered(S, A)
  BY <1>1, <1>2 DEF Ordered, Called, Uses, Pushes, Ops, Names
<1>5. Sized(S, A, 1)
  BY <1>1, <1>2 DEF Sized, Called
<1>6. QED BY <1>1, <1>3, <1>4, <1>5 DEF S, A

LEMMA RealtimeSound ==
  /\ Len(SMemRealtimeDispatch) = 4 /\ Argued(SMemRealtimeDispatch, Loads1("ticks_to_wait"), 2, 1, 8)
  /\ Ordered(SMemRealtimeDispatch, Loads1("ticks_to_wait")) /\ Sized(SMemRealtimeDispatch, Loads1("ticks_to_wait"), 1)
<1>. DEFINE S == SMemRealtimeDispatch
            A == Loads1("ticks_to_wait")
<1>1. /\ Len(S) = 4
      /\ Called(S, 1, "AllocateKernarg", 8) /\ Called(S, 2, "KernargRaw", "ticks_to_wait")
      /\ Called(S, 3, "SetGridSize", 1) /\ Called(S, 4, "SetWorkgroupSize", 1)
  BY DEF SMemRealtimeDispatch, Do, Called
<1>2. DOMAIN A = {0} /\ A[0] = "ticks_to_wait"
  BY DEF Loads1
<1>. HIDE DEF S, A
<1>3. Argued(S, A, 2, 1, 8)
  BY <1>1, <1>2 DEF Argued, Called, Pushes
<1>4. Ordered(S, A)
  BY <1>1, <1>2 DEF Ordered, Called, Uses, Pushes, Ops, Names
<1>5. Sized(S, A, 1)
  BY <1>1, <1>2 DEF Sized, Called
<1>6. QED BY <1>1, <1>3, <1>4, <1>5 DEF S, A

\* The first call that pushes an argument, and how many do.
First ==
  [dpp_reduce |-> 6, ds_bpermute |-> 9, fp16_native |-> 9, fp16_storage |-> 9,
   asm_kernel |-> 3, s_memrealtime |-> 2, s_memrealtime_inline |-> 2]

Count ==
  [dpp_reduce |-> 2, ds_bpermute |-> 3, fp16_native |-> 3, fp16_storage |-> 3,
   asm_kernel |-> 1, s_memrealtime |-> 1, s_memrealtime_inline |-> 1]

Sound(p) ==
  /\ Len(Program[p]) \in Nat
  /\ Argued(Program[p], Kernel[p].args, First[p], Count[p], Kernel[p].segment)
  /\ Ordered(Program[p], Kernel[p].args)
  /\ Sized(Program[p], Kernel[p].args, Kernel[p].items)

LEMMA Sounds ==
  ASSUME NEW p \in DOMAIN Program
  PROVE  Sound(p)
<1>1. CASE p = "dpp_reduce"
  <2>1. /\ Program[p] = DppReduce /\ Kernel[p] = dpp_reduce_s
        /\ First[p] = 6 /\ Count[p] = 2
    BY <1>1 DEF Program, Kernel, First, Count
  <2>2. /\ dpp_reduce_s.args = Loads2("in", "out")
        /\ dpp_reduce_s.segment = 16 /\ dpp_reduce_s.items = 64
    BY DEF dpp_reduce_s
  <2>3. QED BY <2>1, <2>2, DppSound DEF Sound
<1>2. CASE p = "ds_bpermute"
  <2>1. /\ Program[p] = DsBPermuteDispatch /\ Kernel[p] = ds_bpermute_s
        /\ First[p] = 9 /\ Count[p] = 3
    BY <1>2 DEF Program, Kernel, First, Count
  <2>2. /\ ds_bpermute_s.args = Loads3("in", "index", "out")
        /\ ds_bpermute_s.segment = 24 /\ ds_bpermute_s.items = 64
    BY DEF ds_bpermute_s
  <2>3. QED BY <2>1, <2>2, DsSound DEF Sound
<1>3. CASE p \in {"fp16_native", "fp16_storage"}
  <2>1. /\ Program[p] = HalfVectorAdd /\ Kernel[p] \in {fp16_native_s, fp16_storage_s}
        /\ First[p] = 9 /\ Count[p] = 3
    BY <1>3 DEF Program, Kernel, First, Count, HalfVectorAddStorage
  <2>2. \A s \in {fp16_native_s, fp16_storage_s} :
          /\ s.args = Loads3("in1", "in2", "out")
          /\ s.segment = 24 /\ s.items = 64
    BY DEF fp16_native_s, fp16_storage_s
  <2>3. QED BY <2>1, <2>2, HalfVectorSound DEF Sound
<1>4. CASE p = "asm_kernel"
  <2>1. /\ Program[p] = AsmKernelDispatch /\ Kernel[p] = asm_kernel_s
        /\ First[p] = 3 /\ Count[p] = 1
    BY <1>4 DEF Program, Kernel, First, Count
  <2>2. /\ asm_kernel_s.args = Loads1("out")
        /\ asm_kernel_s.segment = 8 /\ asm_kernel_s.items = 1
    BY DEF asm_kernel_s
  <2>3. QED BY <2>1, <2>2, AsmSound DEF Sound
<1>5. CASE p \in {"s_memrealtime", "s_memrealtime_inline"}
  <2>1. /\ Program[p] = SMemRealtimeDispatch
        /\ Kernel[p] \in {s_memrealtime_s, s_memrealtime_inline_cl}
        /\ First[p] = 2 /\ Count[p] = 1
    BY <1>5 DEF Program, Kernel, First, Count, SMemRealtimeInlineDispatch
  <2>2. \A s \in {s_memrealtime_s, s_memrealtime_inline_cl} :
          s.args = Loads1("ticks_to_wait") /\ s.segment = 8
    BY DEF s_memrealtime_s, s_memrealtime_inline_cl
  <2>3. ~ \E o \in DOMAIN Loads1("ticks_to_wait") : Loads1("ticks_to_wait")[o] = "out"
    BY DEF Loads1
  <2>4. Sized(Program[p], Kernel[p].args, Kernel[p].items)
    BY <2>1, <2>2, <2>3 DEF Sized
  <2>5. QED BY <2>1, <2>2, <2>4, RealtimeSound DEF Sound
<1>6. QED BY <1>1, <1>2, <1>3, <1>4, <1>5 DEF Program

-----------------------------------------------------------------------------
(* The inductive invariant.  Where the program stands in Setup() decides    *)
(* what the calls before have left behind.                                  *)

Phase == {"SetupCodeObject", "Setup", "RunDispatch", "Wait", "CopyFrom",
          "Verify", "done", "crashed"}

\* After Setup() the program stands behind the last call; the kernel is
\* submitted only then, and the results are only looked at once it has run.
Control ==
  /\ example \in Examples
  /\ phase \in Phase /\ at \in 1 .. Len(Setup) + 1 /\ error \in BOOLEAN
  /\ KC!TypeOK
  /\ phase = "SetupCodeObject" => at = 1
  /\ phase = "Setup" => at <= Len(Setup)
  /\ phase \in {"RunDispatch", "Wait", "CopyFrom", "Verify"} => at = Len(Setup) + 1
  /\ kernel[Call] # "none" => at = Len(Setup) + 1
  /\ phase \in {"SetupCodeObject", "Setup", "RunDispatch"} => kernel[Call] = "none"
  /\ phase \in {"CopyFrom", "Verify"} => kernel[Call] = "executed"
  /\ phase = "CopyFrom" => HasOutput
  /\ phase = "crashed" \/ outcome[Call] = "Failed" => error

\* The number of arguments that the calls before the n-th have pushed.
Before(n) ==
  IF n <= First[example] THEN 0
  ELSE IF n < First[example] + Count[example] THEN n - First[example] ELSE Count[example]

PushedAt(count) == {8 * j : j \in 0 .. count - 1}

Arguments ==
  /\ capacity = IF at = 1 THEN 0 ELSE Setup[1].arg
  /\ kernarg_offset = 8 * Before(at)
  /\ DOMAIN kernarg = PushedAt(Before(at))
  /\ \A j \in 0 .. Before(at) - 1 : kernarg[8 * j] = Setup[First[example] + j].arg

\* What a call has left of its buffer, which the later calls do not take back.
LeftBy(op, b) ==
  /\ op \in Uses => b.placed # "null"
  /\ op = "AllocateBuffer" => b.placed # "null" \/ error
  /\ op = "Fill" => b.host = "input"
  /\ op = "CopyTo" => b.device = "input"

Placed ==
  /\ buffer \in [Names -> Buffers]
  /\ \A n \in Names : buffer[n].placed = "shared" => buffer[n].host = buffer[n].device
  /\ \A k \in 1 .. at - 1 : Setup[k].op \in Uses \cup {"AllocateBuffer"} =>
       LeftBy(Setup[k].op, buffer[Setup[k].arg])

Sizes ==
  HasOutput =>
    \A k \in 1 .. at - 1 :
      /\ Setup[k].op = "SetGridSize" => grid = Kernel[example].items
      /\ Setup[k].op = "SetWorkgroupSize" => workgroup = Kernel[example].items

Results ==
  HasOutput =>
    /\ kernel[Call] = "executed" => buffer["out"].device = "result"
    /\ phase = "Verify" => buffer["out"].host = buffer["out"].device

EInv == Control /\ Arguments /\ Placed /\ Sizes /\ Results

LEMMA ExampleSound ==
  ASSUME example \in Examples
  PROVE  Sound(example)
BY Sounds, ExamplesAssumption

-----------------------------------------------------------------------------
(* Control, at the end of a call of Setup(). *)

LEMMA SameExample ==
  ASSUME example' = example
  PROVE  /\ Setup' = Setup /\ Args' = Args /\ HasOutput' = HasOutput /\ Inputs' = Inputs
         /\ Kernel[example]' = Kernel[example]
BY DEF Setup, Args, HasOutput, Inputs

LEMMA ContinueKeeps ==
  ASSUME Control, phase = "Setup", Continue, example' = example,
         UNCHANGED <<kernel, outcome>>, error' \in BOOLEAN, error => error'
  PROVE  /\ Control'
         /\ at' = at + 1 /\ at \in 1 .. Len(Setup) /\ Len(Setup) \in Nat
         /\ kernel'[Call] = "none" /\ phase' # "Verify"
<1>1. Setup' = Setup /\ HasOutput' = HasOutput
  BY SameExample
<1>2. Len(Setup) \in Nat
  BY ExampleSound DEF Control, Sound, Setup
<1>3. QED BY <1>1, <1>2 DEF Control, Continue, Phase, KC!TypeOK

LEMMA GiveUpKeeps ==
  ASSUME Control, GiveUp, example' = example, error' = TRUE
  PROVE  Control' /\ at' = at /\ kernel' = kernel /\ phase' = "done"
<1>1. Setup' = Setup /\ HasOutput' = HasOutput
  BY SameExample
<1>2. QED BY <1>1 DEF Control, GiveUp, Phase, KC!TypeOK, KC!Fail

LEMMA CrashKeeps ==
  ASSUME Control, Crash, example' = example, error' = TRUE
  PROVE  Control' /\ at' = at /\ kernel' = kernel /\ phase' = "crashed"
<1>1. Setup' = Setup /\ HasOutput' = HasOutput
  BY SameExample
<1>2. QED BY <1>1 DEF Control, Crash, Phase, KC!TypeOK

-----------------------------------------------------------------------------
(* What a step leaves alone. *)

LEMMA ArgumentsStay ==
  ASSUME Control, Arguments, UNCHANGED <<example, at, kernarg, kernarg_offset, capacity>>
  PROVE  Arguments'
<1>1. Setup' = Setup
  BY SameExample
<1>2. QED BY <1>1 DEF Arguments, Before, PushedAt

LEMMA ArgumentsPassed ==
  ASSUME Control, Arguments, phase = "Setup", at' = at + 1,
         Setup[at].op \notin Pushes \cup {"AllocateKernarg"},
         UNCHANGED <<example, kernarg, kernarg_offset, capacity>>
  PROVE  Arguments'
<1>1. Setup' = Setup
  BY SameExample
<1>2. Argued(Setup, Args, First[example], Count[example], Kernel[example].segment)
  BY ExampleSound DEF Control, Sound, Setup, Args
<1>3. at \in 1 .. Len(Setup) /\ at # 1
  BY <1>2 DEF Control, Argued
<1>4. Len(Setup) \in Nat
  BY ExampleSound DEF Control, Sound, Setup
<1>5. ~ at \in First[example] .. First[example] + Count[example] - 1
  BY <1>2, <1>3 DEF Argued
<1>6. First[example] \in 2 .. 9 /\ Count[example] \in 1 .. 3
  BY <1>2 DEF Argued
<1>7. Before(at)' = Before(at)
  <2>1. at \in Nat /\ example' = example /\ at' = at + 1
    BY <1>3, <1>4
  <2>2. CASE at < First[example]
    BY <1>6, <2>1, <2>2 DEF Before
  <2>3. CASE at >= First[example] + Count[example]
    BY <1>6, <2>1, <2>3 DEF Before
  <2>4. QED BY <1>5, <1>6, <2>1, <2>2, <2>3
<1>8. QED BY <1>1, <1>3, <1>4, <1>7 DEF Arguments, PushedAt

LEMMA PlacedStay ==
  ASSUME Control, Placed, UNCHANGED <<example, at, buffer>>, error => error'
  PROVE  Placed'
<1>1. Setup' = Setup
  BY SameExample
<1>2. QED BY <1>1 DEF Placed, LeftBy

LEMMA PlacedPassed ==
  ASSUME Control, Placed, phase = "Setup", at' = at + 1,
         Setup[at].op \notin Uses \cup {"AllocateBuffer"},
         UNCHANGED <<example, buffer>>, error => error'
  PROVE  Placed'
<1>1. Setup' = Setup
  BY SameExample
<1>2. at \in Nat
  BY ExampleSound DEF Control, Sound, Setup
<1>3. \A k \in 1 .. at' - 1 : k \in 1 .. at - 1 \/ k = at
  BY <1>2
<1>4. QED BY <1>1, <1>3 DEF Placed, LeftBy

LEMMA SizesStay ==
  ASSUME Control, Sizes, UNCHANGED <<example, at, grid, workgroup>>
  PROVE  Sizes'
<1>1. Setup' = Setup /\ HasOutput' = HasOutput
  BY SameExample
<1>2. QED BY <1>1 DEF Sizes

LEMMA SizesPassed ==
  ASSUME Control, Sizes, phase = "Setup", at' = at + 1,
         Setup[at].op \notin {"SetGridSize", "SetWorkgroupSize"},
         UNCHANGED <<example, grid, workgroup>>
  PROVE  Sizes'
<1>1. Setup' = Setup /\ HasOutput' = HasOutput
  BY SameExample
<1>2. at \in Nat
  BY ExampleSound DEF Control, Sound, Setup
<1>3. \A k \in 1 .. at' - 1 : k \in 1 .. at - 1 \/ k = at
  BY <1>2
<1>4. QED BY <1>1, <1>3 DEF Sizes

LEMMA NoResultsYet ==
  ASSUME example' = example, kernel'[Call] # "executed", phase' # "Verify"
  PROVE  Results'
BY DEF Results

LEMMA ResultsStay ==
  ASSUME Results, UNCHANGED <<example, kernel, buffer>>, phase' # "Verify"
  PROVE  Results'
<1>1. HasOutput' = HasOutput
  BY SameExample
<1>2. QED BY <1>1 DEF Results

-----------------------------------------------------------------------------
(* The operations of Dispatch that Setup() calls. *)

LEMMA GivenUp ==
  ASSUME EInv, HsaError,
         UNCHANGED <<example, buffer, kernarg, kernarg_offset, capacity, grid, workgroup>>
  PROVE  EInv'
<1>1. Control' /\ at' = at /\ kernel' = kernel /\ phase' = "done" /\ error' = TRUE
  BY GiveUpKeeps DEF EInv, HsaError
<1>2. Arguments'
  BY <1>1, ArgumentsStay DEF EInv
<1>3. Placed'
  BY <1>1, PlacedStay DEF EInv
<1>4. Sizes'
  BY <1>1, SizesStay DEF EInv
<1>5. Results'
  BY <1>1, ResultsStay DEF EInv
<1>6. QED BY <1>1, <1>2, <1>3, <1>4, <1>5 DEF EInv

LEMMA Crashed ==
  ASSUME EInv, Crash, error' = TRUE,
         UNCHANGED <<example, buffer, kernarg, kernarg_offset, capacity, grid, workgroup>>
  PROVE  EInv'
<1>1. Control' /\ at' = at /\ kernel' = kernel /\ phase' = "crashed"
  BY CrashKeeps DEF EInv
<1>2. Arguments'
  BY <1>1, ArgumentsStay DEF EInv
<1>3. Placed'
  BY <1>1, PlacedStay DEF EInv
<1>4. Sizes'
  BY <1>1, SizesStay DEF EInv
<1>5. Results'
  BY <1>1, ResultsStay DEF EInv
<1>6. QED BY <1>1, <1>2, <1>3, <1>4, <1>5 DEF EInv

LEMMA LoadCodeObjectKeeps ==
  ASSUME EInv, LoadCodeObjectFromFile
  PROVE  EInv'
<1>1. CASE HsaError
  BY <1>1, GivenUp DEF LoadCodeObjectFromFile
<1>2. CASE phase' = "Setup" /\ UNCHANGED <<at, kernel, outcome, error>>
  <2>1. UNCHANGED <<example, at, buffer, kernarg, kernarg_offset, capacity, grid, workgroup>>
    BY <1>2 DEF LoadCodeObjectFromFile
  <2>2. Setup' = Setup /\ HasOutput' = HasOutput
    BY <2>1, SameExample
  <2>3. Len(Setup) \in Nat /\ Len(Setup) >= 1
    <3>1. Len(Setup) \in Nat
      BY ExampleSound DEF EInv, Control, Sound, Setup
    <3>2. Argued(Setup, Args, First[example], Count[example], Kernel[example].segment)
      BY ExampleSound DEF EInv, Control, Sound, Setup, Args
    <3>3. /\ First[example] \in 2 .. 9 /\ Count[example] \in 1 .. 3
          /\ First[example] + Count[example] - 1 <= Len(Setup)
      BY <3>2 DEF Argued
    <3>4. QED BY <3>1, <3>3
  <2>4. phase = "SetupCodeObject" /\ kernel[Call] = "none"
    BY DEF LoadCodeObjectFromFile, EInv, Control
  <2>5. Control'
    BY <1>2, <2>1, <2>2, <2>3, <2>4 DEF EInv, Control, Phase, KC!TypeOK
  <2>6. Arguments'
    BY <2>1, ArgumentsStay DEF EInv
  <2>7. Placed'
    BY <1>2, <2>1, PlacedStay DEF EInv
  <2>8. Sizes'
    BY <2>1, SizesStay DEF EInv
  <2>9. Results'
    BY <1>2, <2>1, ResultsStay DEF EInv
  <2>10. QED BY <2>5, <2>6, <2>7, <2>8, <2>9 DEF EInv
<1>3. QED BY <1>1, <1>2 DEF LoadCodeObjectFromFile

LEMMA AllocateKernargKeeps ==
  ASSUME EInv, AllocateKernarg
  PROVE  EInv'
<1>1. CASE HsaError /\ UNCHANGED <<capacity, kernarg_offset>>
  BY <1>1, GivenUp DEF AllocateKernarg
<1>2. CASE /\ capacity' = Arg /\ kernarg_offset' = 0 /\ Continue
           /\ UNCHANGED <<kernel, outcome, error>>
  <2>1. UNCHANGED <<example, buffer, kernarg, grid, workgroup>>
    BY DEF AllocateKernarg
  <2>2. phase = "Setup" /\ Setup[at].op = "AllocateKernarg"
    BY DEF AllocateKernarg, Now
  <2>3. /\ Control' /\ at' = at + 1 /\ at \in 1 .. Len(Setup) /\ Len(Setup) \in Nat
        /\ kernel'[Call] = "none" /\ phase' # "Verify"
    BY <1>2, <2>1, <2>2, ContinueKeeps DEF EInv, Control
  <2>4. Argued(Setup, Args, First[example], Count[example], Kernel[example].segment)
    BY ExampleSound DEF EInv, Control, Sound, Setup, Args
  <2>5. at = 1
    BY <2>2, <2>3, <2>4 DEF Argued
  <2>6. Before(at) = 0 /\ Before(at)' = 0
    <3>1. First[example] \in 2 .. 9
      BY <2>4 DEF Argued
    <3>2. QED BY <2>1, <2>3, <2>5, <3>1 DEF Before
  <2>7. Setup' = Setup
    BY <2>1, SameExample
  <2>8. Arguments'
    BY <1>2, <2>1, <2>3, <2>5, <2>6, <2>7 DEF EInv, Arguments, Arg, PushedAt
  <2>9. Placed'
    BY <1>2, <2>1, <2>2, <2>3, PlacedPassed DEF EInv, Uses
  <2>10. Sizes'
    BY <2>1, <2>2, <2>3, SizesPassed DEF EInv
  <2>11. Results'
    BY <2>1, <2>3, NoResultsYet
  <2>12. QED BY <2>3, <2>8, <2>9, <2>10, <2>11 DEF EInv
<1>3. QED BY <1>1, <1>2 DEF AllocateKernarg

\* A call that takes a buffer names one, which was allocated before.
LEMMA ArgIsName ==
  ASSUME EInv, phase = "Setup", Setup[at].op \in Uses \cup {"AllocateBuffer"}
  PROVE  /\ Arg \in Names /\ buffer \in [Names -> Buffers]
         /\ Setup[at].op \in Uses => buffer[Arg].placed # "null" \/ error
<1>1. at \in 1 .. Len(Setup) /\ Len(Setup) \in Nat
  BY ExampleSound DEF EInv, Control, Sound, Setup
<1>2. Ordered(Setup, Args)
  BY ExampleSound DEF EInv, Control, Sound, Setup, Args
<1>3. Arg \in Names
  BY <1>1, <1>2 DEF Ordered, Arg
<1>4. ASSUME Setup[at].op \in Uses
      PROVE  buffer[Arg].placed # "null" \/ error
  <2>1. PICK j \in 1 .. at - 1 : Called(Setup, j, "AllocateBuffer", Setup[at].arg)
    BY <1>1, <1>2, <1>4 DEF Ordered
  <2>2. LeftBy(Setup[j].op, buffer[Setup[j].arg])
    BY <2>1 DEF EInv, Placed, Called
  <2>3. QED BY <2>1, <2>2 DEF LeftBy, Called, Arg
<1>5. QED BY <1>3, <1>4 DEF EInv, Placed

\* The calls before AllocateBuffer are about other buffers.
LEMMA AllocateBufferKeeps ==
  ASSUME EInv, AllocateBuffer
  PROVE  EInv'
<1>1. phase = "Setup" /\ Setup[at].op = "AllocateBuffer"
  BY DEF AllocateBuffer, Now
<1>2. UNCHANGED <<example, kernarg, kernarg_offset, capacity, grid, workgroup>>
  BY DEF AllocateBuffer
<1>3. CASE Crash /\ error' = TRUE /\ UNCHANGED buffer
  BY <1>2, <1>3, Crashed
<1>4. ASSUME NEW b \in Buffers,
             b.placed = "shared" => b.host = b.device,
             b.placed # "null" \/ error',
             buffer' = [buffer EXCEPT ![Arg] = b],
             Continue, UNCHANGED <<kernel, outcome>>, error' \in BOOLEAN, error => error'
      PROVE  EInv'
  <2>1. /\ Control' /\ at' = at + 1 /\ at \in 1 .. Len(Setup) /\ Len(Setup) \in Nat
        /\ kernel'[Call] = "none" /\ phase' # "Verify"
    BY <1>1, <1>2, <1>4, ContinueKeeps DEF EInv
  <2>2. Arguments'
    BY <1>1, <1>2, <2>1, ArgumentsPassed DEF EInv, Pushes
  <2>3. Arg \in Names /\ buffer \in [Names -> Buffers]
    BY <1>1, ArgIsName
  <2>4. Setup' = Setup
    BY <1>2, SameExample
  <2>5. \A k \in 1 .. at - 1 : Setup[k].op \in Uses \cup {"AllocateBuffer"} =>
          Setup[k].arg # Arg /\ Setup[k].arg \in Names
    <3>1. Ordered(Setup, Args)
      BY ExampleSound DEF EInv, Control, Sound, Setup, Args
    <3>2. QED BY <1>1, <2>1, <3>1 DEF Ordered, Arg
  <2>6. \A k \in 1 .. at' - 1 : k \in 1 .. at - 1 \/ k = at
    BY <2>1
  <2>7. ASSUME NEW k \in 1 .. at' - 1, Setup[k].op \in Uses \cup {"AllocateBuffer"}
        PROVE  LeftBy(Setup[k].op, buffer[Setup[k].arg])'
    <3>1. CASE k = at
      BY <1>1, <1>4, <2>3, <2>4, <3>1 DEF LeftBy, Uses, Arg
    <3>2. CASE k \in 1 .. at - 1
      <4>1. buffer'[Setup[k].arg] = buffer[Setup[k].arg]
        BY <1>4, <2>3, <2>5, <2>7, <3>2
      <4>2. LeftBy(Setup[k].op, buffer[Setup[k].arg])
        BY <2>7, <3>2 DEF EInv, Placed
      <4>3. QED BY <1>4, <2>4, <4>1, <4>2 DEF LeftBy
    <3>3. QED BY <2>6, <3>1, <3>2
  <2>8. buffer' \in [Names -> Buffers]
    BY <1>4, <2>3
  <2>9. \A n \in Names : buffer'[n].placed = "shared" => buffer'[n].host = buffer'[n].device
    BY <1>4, <2>3 DEF EInv, Placed
  <2>10. Placed'
    BY <2>4, <2>7, <2>8, <2>9 DEF Placed
  <2>11. Sizes'
    BY <1>1, <1>2, <2>1, SizesPassed DEF EInv
  <2>12. Results'
    BY <1>2, <2>1, NoResultsYet
  <2>13. QED BY <2>1, <2>2, <2>10, <2>11, <2>12 DEF EInv
<1>5. /\ [NoBuffer EXCEPT !.placed = Placement] \in Buffers
      /\ [NoBuffer EXCEPT !.placed = Placement].placed # "null"
      /\ [NoBuffer EXCEPT !.placed = Placement].host = [NoBuffer EXCEPT !.placed = Placement].device
  BY DEF NoBuffer, Placement, Buffers, Contents
<1>6. NoBuffer \in Buffers /\ NoBuffer.host = NoBuffer.device
  BY DEF NoBuffer, Buffers, Contents
<1>7. error \in BOOLEAN
  BY DEF EInv, Control
<1>8. CASE /\ buffer' = [buffer EXCEPT ![Arg] = [NoBuffer EXCEPT !.placed = Placement]]
           /\ Continue /\ UNCHANGED <<kernel, outcome, error>>
  BY <1>4, <1>5, <1>7, <1>8
<1>9. CASE /\ buffer' = [buffer EXCEPT ![Arg] = NoBuffer]
           /\ error' = TRUE /\ Continue /\ UNCHANGED <<kernel, outcome>>
  BY <1>4, <1>6, <1>9
<1>10. QED BY <1>3, <1>8, <1>9 DEF AllocateBuffer

\* Fill and CopyTo change nothing that a call before has left of the buffer.
LEMMA UseKeeps ==
  ASSUME EInv, phase = "Setup", Setup[at].op \in {"Fill", "CopyTo"},
         NEW b \in Buffers, b.placed = buffer[Arg].placed, b.placed # "null",
         b.host \in {buffer[Arg].host, "input"}, b.device \in {buffer[Arg].device, "input"},
         b.placed = "shared" => b.host = b.device,
         LeftBy(Setup[at].op, b),
         buffer' = [buffer EXCEPT ![Arg] = b],
         Continue, UNCHANGED <<kernel, outcome, error>>,
         UNCHANGED <<example, kernarg, kernarg_offset, capacity, grid, workgroup>>
  PROVE  EInv'
<1>1. /\ Control' /\ at' = at + 1 /\ at \in 1 .. Len(Setup) /\ Len(Setup) \in Nat
      /\ kernel'[Call] = "none" /\ phase' # "Verify"
  BY ContinueKeeps DEF EInv, Control
<1>2. Arguments'
  BY <1>1, ArgumentsPassed DEF EInv, Pushes
<1>3. Arg \in Names /\ buffer \in [Names -> Buffers]
  BY ArgIsName DEF Uses
<1>4. Setup' = Setup
  BY SameExample
<1>5. \A k \in 1 .. at' - 1 : k \in 1 .. at - 1 \/ k = at
  BY <1>1
<1>6. ASSUME NEW k \in 1 .. at' - 1, Setup[k].op \in Uses \cup {"AllocateBuffer"}
      PROVE  LeftBy(Setup[k].op, buffer[Setup[k].arg])'
  <2>1. CASE k = at
    <3>1. buffer'[Setup[k].arg] = b
      BY <1>3, <2>1 DEF Arg
    <3>2. QED BY <1>4, <2>1, <3>1 DEF LeftBy
  <2>2. CASE k \in 1 .. at - 1
    <3>1. Setup[k].arg \in Names
      <4>1. Ordered(Setup, Args)
        BY ExampleSound DEF EInv, Control, Sound, Setup, Args
      <4>2. QED BY <1>1, <1>6, <2>2, <4>1 DEF Ordered
    <3>2. LeftBy(Setup[k].op, buffer[Setup[k].arg])
      BY <1>6, <2>2 DEF EInv, Placed
    <3>3. CASE Setup[k].arg = Arg
      <4>1. buffer'[Setup[k].arg] = b
        BY <1>3, <3>3
      <4>2. LeftBy(Setup[k].op, b)
        BY <3>2, <3>3 DEF LeftBy
      <4>3. QED BY <1>4, <4>1, <4>2 DEF LeftBy
    <3>4. CASE Setup[k].arg # Arg
      <4>1. buffer'[Setup[k].arg] = buffer[Setup[k].arg]
        BY <1>3, <3>1, <3>4
      <4>2. QED BY <1>4, <3>2, <4>1 DEF LeftBy
    <3>5. QED BY <3>3, <3>4
  <2>3. QED BY <1>5, <2>1, <2>2
<1>7. buffer' \in [Names -> Buffers]
  BY <1>3
<1>8. \A n \in Names : buffer'[n].placed = "shared" => buffer'[n].host = buffer'[n].device
  BY <1>3 DEF EInv, Placed
<1>9. Placed'
  BY <1>4, <1>6, <1>7, <1>8 DEF Placed
<1>10. Sizes'
  BY <1>1, SizesPassed DEF EInv
<1>11. Results'
  BY <1>1, NoResultsYet
<1>12. QED BY <1>1, <1>2, <1>9, <1>10, <1>11 DEF EInv

LEMMA FillBufferKeeps ==
  ASSUME EInv, Fill
  PROVE  EInv'
<1>1. phase = "Setup" /\ Setup[at].op = "Fill"
  BY DEF Fill, Now
<1>2. UNCHANGED <<example, kernarg, kernarg_offset, capacity, grid, workgroup, error>>
  BY DEF Fill
<1>3. /\ Arg \in Names /\ buffer \in [Names -> Buffers]
      /\ buffer[Arg].placed # "null" \/ error
  BY <1>1, ArgIsName DEF Uses
<1>4. CASE buffer[Arg].placed = "null"
  <2>1. Crash /\ UNCHANGED buffer
    BY <1>4 DEF Fill
  <2>2. error' = TRUE
    BY <1>2, <1>3, <1>4 DEF EInv, Control
  <2>3. QED BY <1>2, <2>1, <2>2, Crashed
<1>5. CASE buffer[Arg].placed # "null"
  <2>. DEFINE b == StoreHost(buffer[Arg], "input")
  <2>1. /\ buffer' = [buffer EXCEPT ![Arg] = b]
        /\ Continue /\ UNCHANGED <<kernel, outcome>>
    BY <1>5 DEF Fill
  <2>2. buffer[Arg] \in Buffers
    BY <1>3
  <2>3. /\ b \in Buffers /\ b.placed = buffer[Arg].placed
        /\ b.host = "input" /\ b.device \in {buffer[Arg].device, "input"}
        /\ b.placed = "shared" => b.host = b.device
    BY <2>2 DEF StoreHost, Buffers, Contents
  <2>. HIDE DEF b
  <2>4. LeftBy(Setup[at].op, b)
    BY <1>1, <1>5, <2>3 DEF LeftBy
  <2>5. QED BY <1>1, <1>2, <1>5, <2>1, <2>3, <2>4, UseKeeps
<1>6. QED BY <1>4, <1>5

LEMMA CopyToKeeps ==
  ASSUME EInv, CopyTo
  PROVE  EInv'
<1>1. phase = "Setup" /\ Setup[at].op = "CopyTo"
  BY DEF CopyTo, Now
<1>2. UNCHANGED <<example, kernarg, kernarg_offset, capacity, grid, workgroup>>
  BY DEF CopyTo
<1>3. /\ Arg \in Names /\ buffer \in [Names -> Buffers]
      /\ buffer[Arg].placed # "null" \/ error
  BY <1>1, ArgIsName DEF Uses
<1>4. CASE buffer[Arg].placed = "null"
  <2>1. Crash /\ UNCHANGED <<buffer, error>>
    BY <1>4 DEF CopyTo
  <2>2. error' = TRUE
    BY <1>3, <1>4, <2>1 DEF EInv, Control
  <2>3. QED BY <1>2, <2>1, <2>2, Crashed
<1>5. CASE HsaError /\ UNCHANGED buffer
  BY <1>2, <1>5, GivenUp
<1>6. CASE /\ buffer[Arg].placed # "null"
           /\ buffer' = [buffer EXCEPT ![Arg] = ToLocal(@)]
           /\ Continue /\ UNCHANGED <<kernel, outcome, error>>
  <2>. DEFINE b == ToLocal(buffer[Arg])
  <2>1. buffer' = [buffer EXCEPT ![Arg] = b]
    BY <1>6
  <2>2. buffer[Arg] \in Buffers /\ (buffer[Arg].placed = "shared" =>
          buffer[Arg].host = buffer[Arg].device)
    BY <1>3 DEF EInv, Placed
  <2>3. buffer[Arg].host = "input"
    <3>1. at \in 1 .. Len(Setup) /\ Len(Setup) \in Nat
      BY <1>1, ExampleSound DEF EInv, Control, Sound, Setup
    <3>2. Ordered(Setup, Args)
      BY ExampleSound DEF EInv, Control, Sound, Setup, Args
    <3>3. PICK k \in 1 .. at - 1 : Called(Setup, k, "Fill", Setup[at].arg)
      BY <1>1, <3>1, <3>2 DEF Ordered
    <3>4. LeftBy(Setup[k].op, buffer[Setup[k].arg])
      BY <3>3 DEF EInv, Placed, Called, Uses
    <3>5. QED BY <3>3, <3>4 DEF Called, LeftBy, Arg
  <2>4. /\ b \in Buffers /\ b.placed = buffer[Arg].placed
        /\ b.host = "input" /\ b.device = "input"
    BY <1>6, <2>2, <2>3 DEF ToLocal, IsLocal, Buffers, Contents
  <2>. HIDE DEF b
  <2>5. LeftBy(Setup[at].op, b)
    BY <1>1, <1>6, <2>4 DEF LeftBy
  <2>6. QED BY <1>1, <1>2, <1>6, <2>1, <2>4, <2>5, UseKeeps
<1>7. QED BY <1>4, <1>5, <1>6 DEF CopyTo

-----------------------------------------------------------------------------
(* The argument block. *)

LEMMA Aligned ==
  ASSUME NEW b \in 0 .. 3, NEW align \in {1, 8}
  PROVE  AlignUp(8 * b, align) = 8 * b
BY DEF AlignUp

LEMMA OneMore ==
  ASSUME NEW b \in 0 .. 3
  PROVE  /\ PushedAt(b) \cup {8 * b} = PushedAt(b + 1)
         /\ 8 * b \notin PushedAt(b)
<1>1. \A j \in 0 .. b : j \in 0 .. b - 1 \/ j = b
  OBVIOUS
<1>2. 0 .. (b + 1) - 1 = 0 .. b
  OBVIOUS
<1>3. QED BY <1>1, <1>2 DEF PushedAt

LEMMA PushKeeps ==
  ASSUME EInv, phase = "Setup", Setup[at].op \in Pushes, at' = at + 1,
         NEW align \in {1, 8}, Push(Arg, align),
         UNCHANGED <<example, capacity>>
  PROVE  Arguments'
<1>1. Setup' = Setup
  BY SameExample
<1>2. at \in 1 .. Len(Setup) /\ Len(Setup) \in Nat
  BY ExampleSound DEF EInv, Control, Sound, Setup
<1>3. Argued(Setup, Args, First[example], Count[example], Kernel[example].segment)
  BY ExampleSound DEF EInv, Control, Sound, Setup, Args
<1>4. First[example] \in 2 .. 9 /\ Count[example] \in 1 .. 3
  BY <1>3 DEF Argued
<1>5. at \in First[example] .. First[example] + Count[example] - 1
  BY <1>2, <1>3 DEF Argued
<1>. DEFINE b == Before(at)
<1>6. b = at - First[example] /\ b \in 0 .. 3 /\ Before(at)' = b + 1
  BY <1>4, <1>5 DEF Before
<1>. HIDE DEF b
<1>7. /\ kernarg_offset = 8 * b /\ DOMAIN kernarg = PushedAt(b)
      /\ \A j \in 0 .. b - 1 : kernarg[8 * j] = Setup[First[example] + j].arg
  BY DEF EInv, Arguments, b
<1>8. AlignUp(kernarg_offset, align) = 8 * b
  BY <1>6, <1>7, Aligned
<1>9. /\ kernarg' = [o \in DOMAIN kernarg \cup {8 * b} |->
                       IF o = 8 * b THEN Arg ELSE kernarg[o]]
      /\ kernarg_offset' = 8 * b + 8
  BY <1>8 DEF Push
<1>10. /\ DOMAIN kernarg \cup {8 * b} = PushedAt(b + 1)
       /\ 8 * b \notin PushedAt(b)
  BY <1>6, <1>7, OneMore
<1>11. DOMAIN kernarg' = PushedAt(b + 1)
  BY <1>9, <1>10
<1>12. kernarg_offset' = 8 * (b + 1)
  BY <1>6, <1>9
<1>13. ASSUME NEW j \in 0 .. b
       PROVE  kernarg'[8 * j] = Setup[First[example] + j].arg
  <2>1. 8 * j \in PushedAt(b + 1)
    BY <1>6 DEF PushedAt
  <2>2. CASE j = b
    <3>1. First[example] + j = at
      BY <1>4, <1>5, <1>6, <2>2
    <3>2. QED BY <1>9, <1>10, <2>1, <2>2, <3>1 DEF Arg
  <2>3. CASE j # b
    <3>1. 8 * j # 8 * b /\ j \in 0 .. b - 1
      BY <1>6, <2>3
    <3>2. QED BY <1>7, <1>9, <1>10, <2>1, <3>1
  <2>4. QED BY <2>2, <2>3
<1>14. capacity' = IF at' = 1 THEN 0 ELSE Setup'[1].arg
  BY <1>1, <1>2, <1>4, <1>5 DEF EInv, Arguments
<1>15. 0 .. (b + 1) - 1 = 0 .. b /\ First[example]' = First[example]
  BY <1>6
<1>16. \A j \in 0 .. Before(at)' - 1 : kernarg'[8 * j] = Setup'[First[example]' + j].arg
  BY <1>1, <1>6, <1>13, <1>15
<1>17. QED BY <1>6, <1>11, <1>12, <1>14, <1>16 DEF Arguments, PushedAt

LEMMA KernargRawKeeps ==
  ASSUME EInv, KernargRaw
  PROVE  EInv'
<1>1. phase = "Setup" /\ Setup[at].op = "KernargRaw"
  BY DEF KernargRaw, Now
<1>2. /\ Push(Arg, 1) /\ Continue
      /\ UNCHANGED <<example, regions, buffer, capacity, grid, workgroup, kernel, outcome, error>>
  BY DEF KernargRaw
<1>3. /\ Control' /\ at' = at + 1 /\ kernel'[Call] = "none" /\ phase' # "Verify"
  BY <1>1, <1>2, ContinueKeeps DEF EInv, Control
<1>4. Arguments'
  BY <1>1, <1>2, <1>3, PushKeeps DEF Pushes
<1>5. Placed'
  BY <1>1, <1>2, <1>3, PlacedPassed DEF EInv, Uses
<1>6. Sizes'
  BY <1>1, <1>2, <1>3, SizesPassed DEF EInv
<1>7. Results'
  BY <1>2, <1>3, NoResultsYet
<1>8. QED BY <1>3, <1>4, <1>5, <1>6, <1>7 DEF EInv

LEMMA KernargKeeps ==
  ASSUME EInv, Kernarg
  PROVE  EInv'
<1>1. phase = "Setup" /\ Setup[at].op = "Kernarg"
  BY DEF Kernarg, Now
<1>2. UNCHANGED <<example, regions, buffer, capacity, grid, workgroup, error>>
  BY DEF Kernarg
<1>3. /\ Arg \in Names /\ buffer \in [Names -> Buffers]
      /\ buffer[Arg].placed # "null" \/ error
  BY <1>1, ArgIsName DEF Uses
<1>4. CASE buffer[Arg].placed = "null"
  <2>1. Crash /\ UNCHANGED <<kernarg, kernarg_offset>>
    BY <1>4 DEF Kernarg
  <2>2. error' = TRUE
    BY <1>2, <1>3, <1>4 DEF EInv, Control
  <2>3. QED BY <1>2, <2>1, <2>2, Crashed
<1>5. CASE buffer[Arg].placed # "null"
  <2>1. Push(Arg, 8) /\ Continue /\ UNCHANGED <<kernel, outcome>>
    BY <1>5 DEF Kernarg
  <2>2. /\ Control' /\ at' = at + 1 /\ at \in 1 .. Len(Setup) /\ Len(Setup) \in Nat
        /\ kernel'[Call] = "none" /\ phase' # "Verify"
    BY <1>1, <1>2, <2>1, ContinueKeeps DEF EInv, Control
  <2>3. Arguments'
    BY <1>1, <1>2, <2>1, <2>2, PushKeeps DEF Pushes
  <2>4. Setup' = Setup
    BY <1>2, SameExample
  <2>5. \A k \in 1 .. at' - 1 : k \in 1 .. at - 1 \/ k = at
    BY <2>2
  <2>6. ASSUME NEW k \in 1 .. at' - 1, Setup[k].op \in Uses \cup {"AllocateBuffer"}
        PROVE  LeftBy(Setup[k].op, buffer[Setup[k].arg])'
    <3>1. CASE k = at
      BY <1>1, <1>2, <1>5, <2>4, <3>1 DEF LeftBy, Arg
    <3>2. CASE k \in 1 .. at - 1
      <4>1. LeftBy(Setup[k].op, buffer[Setup[k].arg])
        BY <2>6, <3>2 DEF EInv, Placed
      <4>2. QED BY <1>2, <2>4, <4>1 DEF LeftBy
    <3>3. QED BY <2>5, <3>1, <3>2
  <2>7. Placed'
    <3>1. \A n \in Names : buffer'[n].placed = "shared" => buffer'[n].host = buffer'[n].device
      BY <1>2 DEF EInv, Placed
    <3>2. QED BY <1>2, <1>3, <2>4, <2>6, <3>1 DEF Placed
  <2>8. Sizes'
    BY <1>1, <1>2, <2>2, SizesPassed DEF EInv
  <2>9. Results'
    BY <1>2, <2>2, NoResultsYet
  <2>10. QED BY <2>2, <2>3, <2>7, <2>8, <2>9 DEF EInv
<1>6. QED BY <1>4, <1>5

LEMMA SetGridKeeps ==
  ASSUME EInv, SetGridSize
  PROVE  EInv'
<1>1. phase = "Setup" /\ Setup[at].op = "SetGridSize"
  BY DEF SetGridSize, Now
<1>2. /\ grid' = Arg /\ Continue
      /\ UNCHANGED <<example, regions, buffer, kernarg, kernarg_offset, capacity,
                     workgroup, kernel, outcome, error>>
  BY DEF SetGridSize
<1>3. /\ Control' /\ at' = at + 1 /\ at \in 1 .. Len(Setup) /\ Len(Setup) \in Nat
      /\ kernel'[Call] = "none" /\ phase' # "Verify"
  BY <1>1, <1>2, ContinueKeeps DEF EInv, Control
<1>4. Arguments'
  BY <1>1, <1>2, <1>3, ArgumentsPassed DEF EInv, Pushes
<1>5. Placed'
  BY <1>1, <1>2, <1>3, PlacedPassed DEF EInv, Uses
<1>6. Sizes'
  <2>1. Setup' = Setup /\ HasOutput' = HasOutput /\ Kernel[example]' = Kernel[example]
    BY <1>2, SameExample
  <2>2. HasOutput => Arg = Kernel[example].items
    <3>1. Sized(Setup, Args, Kernel[example].items)
      BY ExampleSound DEF EInv, Control, Sound, Setup, Args
    <3>2. QED BY <1>1, <1>3, <3>1 DEF Sized, Arg, HasOutput
  <2>3. \A k \in 1 .. at' - 1 : k \in 1 .. at - 1 \/ k = at
    BY <1>3
  <2>4. QED BY <1>1, <1>2, <2>1, <2>2, <2>3 DEF EInv, Sizes
<1>7. Results'
  BY <1>2, <1>3, NoResultsYet
<1>8. QED BY <1>3, <1>4, <1>5, <1>6, <1>7 DEF EInv

LEMMA SetWorkgroupKeeps ==
  ASSUME EInv, SetWorkgroupSize
  PROVE  EInv'
<1>1. phase = "Setup" /\ Setup[at].op = "SetWorkgroupSize"
  BY DEF SetWorkgroupSize, Now
<1>2. /\ workgroup' = Arg /\ Continue
      /\ UNCHANGED <<example, regions, buffer, kernarg, kernarg_offset, capacity,
                     grid, kernel, outcome, error>>
  BY DEF SetWorkgroupSize
<1>3. /\ Control' /\ at' = at + 1 /\ at \in 1 .. Len(Setup) /\ Len(Setup) \in Nat
      /\ kernel'[Call] = "none" /\ phase' # "Verify"
  BY <1>1, <1>2, ContinueKeeps DEF EInv, Control
<1>4. Arguments'
  BY <1>1, <1>2, <1>3, ArgumentsPassed DEF EInv, Pushes
<1>5. Placed'
  BY <1>1, <1>2, <1>3, PlacedPassed DEF EInv, Uses
<1>6. Sizes'
  <2>1. Setup' = Setup /\ HasOutput' = HasOutput /\ Kernel[example]' = Kernel[example]
    BY <1>2, SameExample
  <2>2. HasOutput => Arg = Kernel[example].items
    <3>1. Sized(Setup, Args, Kernel[example].items)
      BY ExampleSound DEF EInv, Control, Sound, Setup, Args
    <3>2. QED BY <1>1, <1>3, <3>1 DEF Sized, Arg, HasOutput
  <2>3. \A k \in 1 .. at' - 1 : k \in 1 .. at - 1 \/ k = at
    BY <1>3
  <2>4. QED BY <1>1, <1>2, <2>1, <2>2, <2>3 DEF EInv, Sizes
<1>7. Results'
  BY <1>2, <1>3, NoResultsYet
<1>8. QED BY <1>3, <1>4, <1>5, <1>6, <1>7 DEF EInv

-----------------------------------------------------------------------------
(* What a program has done once Setup() has returned. *)

LEMMA BehindSetup ==
  ASSUME EInv, at = Len(Setup) + 1
  PROVE  /\ capacity = Setup[1].arg
         /\ DOMAIN kernarg = DOMAIN Args /\ \A o \in DOMAIN Args : kernarg[o] = Args[o]
         /\ \A n \in Inputs : buffer[n].device = "input"
         /\ HasOutput => /\ buffer["out"].placed # "null"
                         /\ grid = Kernel[example].items
                         /\ workgroup = Kernel[example].items
<1>1. Len(Setup) \in Nat
  BY ExampleSound DEF EInv, Control, Sound, Setup
<1>2. Argued(Setup, Args, First[example], Count[example], Kernel[example].segment)
  BY ExampleSound DEF EInv, Control, Sound, Setup, Args
<1>3. Ordered(Setup, Args) /\ Sized(Setup, Args, Kernel[example].items)
  BY ExampleSound DEF EInv, Control, Sound, Setup, Args
<1>4. /\ First[example] \in 2 .. 9 /\ Count[example] \in 1 .. 3
      /\ First[example] + Count[example] - 1 <= Len(Setup)
  BY <1>2 DEF Argued
<1>5. Before(at) = Count[example]
  <2>1. at \in Nat /\ at >= First[example] + Count[example]
    BY <1>1, <1>4
  <2>2. ~ at <= First[example] /\ ~ at < First[example] + Count[example]
    BY <1>4, <2>1
  <2>3. QED BY <2>2 DEF Before
<1>6. capacity = Setup[1].arg
  <2>1. at # 1
    BY <1>1, <1>4
  <2>2. QED BY <2>1 DEF EInv, Arguments
<1>7. DOMAIN kernarg = DOMAIN Args
  BY <1>2, <1>5 DEF EInv, Arguments, Argued, PushedAt
<1>8. \A j \in 0 .. Count[example] - 1 : kernarg[8 * j] = Args[8 * j]
  BY <1>2, <1>5 DEF EInv, Arguments, Argued
<1>9. \A o \in DOMAIN Args : \E j \in 0 .. Count[example] - 1 : o = 8 * j
  BY <1>2 DEF Argued
<1>10. \A o \in DOMAIN Args : kernarg[o] = Args[o]
  BY <1>8, <1>9
<1>11. 1 .. at - 1 = 1 .. Len(Setup)
  BY <1>1
<1>12. ASSUME NEW n \in Inputs
       PROVE  buffer[n].device = "input"
  <2>1. PICK k \in 1 .. Len(Setup) : Called(Setup, k, "CopyTo", n)
    BY <1>3 DEF Ordered, Inputs
  <2>2. LeftBy(Setup[k].op, buffer[Setup[k].arg])
    BY <1>11, <2>1 DEF EInv, Placed, Called, Uses
  <2>3. QED BY <2>1, <2>2 DEF LeftBy, Called
<1>13. ASSUME HasOutput
       PROVE  buffer["out"].placed # "null"
  <2>1. PICK j \in 0 .. Count[example] - 1 : Args[8 * j] = "out"
    BY <1>9, <1>13 DEF HasOutput
  <2>. DEFINE k == First[example] + j
  <2>2. k \in 1 .. Len(Setup) /\ k \in First[example] .. First[example] + Count[example] - 1
    <3>1. j \in Nat /\ j <= Count[example] - 1
      BY <1>4
    <3>2. First[example] \in Nat /\ First[example] >= 1 /\ Count[example] \in Nat
      BY <1>4
    <3>3. k \in First[example] .. First[example] + Count[example] - 1
      BY <3>1, <3>2
    <3>4. QED BY <1>1, <1>4, <3>2, <3>3
  <2>3. Setup[k].arg = "out" /\ Setup[k].op \in Pushes
    BY <1>2, <2>1, <2>2 DEF Argued
  <2>. HIDE DEF k
  <2>4. Setup[k].op = "Kernarg"
    BY <1>2, <2>2, <2>3 DEF Argued, Pushes
  <2>5. LeftBy(Setup[k].op, buffer[Setup[k].arg])
    BY <1>11, <2>2, <2>4 DEF EInv, Placed, Uses
  <2>6. QED BY <2>3, <2>4, <2>5 DEF LeftBy, Uses
<1>14. ASSUME HasOutput
       PROVE  grid = Kernel[example].items /\ workgroup = Kernel[example].items
  <2>1. PICK g \in 1 .. Len(Setup) : Setup[g].op = "SetGridSize"
    BY <1>3, <1>14 DEF Sized, HasOutput
  <2>2. PICK w \in 1 .. Len(Setup) : Setup[w].op = "SetWorkgroupSize"
    BY <1>3, <1>14 DEF Sized, HasOutput
  <2>3. QED BY <1>11, <1>14, <2>1, <2>2 DEF EInv, Sizes
<1>15. QED BY <1>6, <1>7, <1>10, <1>12, <1>13, <1>14

\* No call of Setup() has left anything in out that the kernel or the copy
\* back may not change.
LEMMA OutKeeps ==
  ASSUME EInv, at = Len(Setup) + 1,
         NEW b \in Buffers, b.placed # "null", b.placed = "shared" => b.host = b.device,
         buffer' = [buffer EXCEPT !["out"] = b],
         UNCHANGED <<example, at, error>>
  PROVE  Placed' /\ buffer'["out"] = b
<1>1. Setup' = Setup
  BY SameExample
<1>2. "out" \in Names /\ buffer \in [Names -> Buffers]
  BY DEF EInv, Placed, Names
<1>3. ASSUME NEW k \in 1 .. at - 1, Setup[k].op \in Uses \cup {"AllocateBuffer"}
      PROVE  LeftBy(Setup[k].op, buffer[Setup[k].arg])'
  <2>1. /\ Setup[k].arg \in Names
        /\ Setup[k].op \in {"Fill", "CopyTo"} => Setup[k].arg # "out"
    <3>1. Ordered(Setup, Args) /\ Len(Setup) \in Nat
      BY ExampleSound DEF EInv, Control, Sound, Setup, Args
    <3>2. QED BY <1>3, <3>1 DEF Ordered
  <2>2. LeftBy(Setup[k].op, buffer[Setup[k].arg])
    BY <1>3 DEF EInv, Placed
  <2>3. CASE Setup[k].arg = "out"
    <3>1. buffer'[Setup[k].arg] = b
      BY <1>2, <2>3
    <3>2. QED BY <1>1, <2>1, <2>3, <3>1 DEF LeftBy
  <2>4. CASE Setup[k].arg # "out"
    <3>1. buffer'[Setup[k].arg] = buffer[Setup[k].arg]
      BY <1>2, <2>1, <2>4
    <3>2. QED BY <1>1, <2>2, <3>1 DEF LeftBy
  <2>5. QED BY <2>3, <2>4
<1>4. buffer' \in [Names -> Buffers] /\ buffer'["out"] = b
  BY <1>2
<1>5. \A n \in Names : buffer'[n].placed = "shared" => buffer'[n].host = buffer'[n].device
  BY <1>2 DEF EInv, Placed
<1>6. QED BY <1>1, <1>3, <1>4, <1>5 DEF Placed

LEMMA RunDispatchKeeps ==
  ASSUME EInv, RunDispatch
  PROVE  EInv'
<1>1. UNCHANGED <<example, regions, at, buffer, kernarg, kernarg_offset, capacity,
                  grid, workgroup, error>>
  BY DEF RunDispatch
<1>2. Setup' = Setup /\ HasOutput' = HasOutput
  BY <1>1, SameExample
<1>3. phase = "RunDispatch" /\ phase' = "Wait" /\ kernel'[Call] = "submitted"
  BY DEF RunDispatch, KC!Submit, EInv, Control, KC!TypeOK
<1>4. Control'
  BY <1>1, <1>2, <1>3 DEF EInv, Control, RunDispatch, KC!Submit, KC!TypeOK, Phase
<1>5. Arguments'
  BY <1>1, ArgumentsStay DEF EInv
<1>6. Placed'
  BY <1>1, PlacedStay DEF EInv
<1>7. Sizes'
  BY <1>1, SizesStay DEF EInv
<1>8. Results'
  BY <1>1, <1>3, NoResultsYet
<1>9. QED BY <1>4, <1>5, <1>6, <1>7, <1>8 DEF EInv

\* The kernel may be executed during Wait(), or after the program has given up.
LEMMA ExecuteKeeps ==
  ASSUME EInv, Execute
  PROVE  EInv'
<1>1. UNCHANGED <<example, regions, phase, at, kernarg, kernarg_offset, capacity,
                  grid, workgroup, error>>
  BY DEF Execute
<1>2. Setup' = Setup /\ HasOutput' = HasOutput
  BY <1>1, SameExample
<1>3. kernel[Call] = "submitted" /\ kernel'[Call] = "executed" /\ outcome' = outcome
  BY DEF Execute, KC!Execute, EInv, Control, KC!TypeOK
<1>4. at = Len(Setup) + 1
  BY <1>3 DEF EInv, Control
<1>5. Control'
  BY <1>1, <1>2, <1>3, <1>4 DEF EInv, Control, Execute, KC!Execute, KC!TypeOK, Phase
<1>6. Arguments'
  BY <1>1, ArgumentsStay DEF EInv
<1>7. Sizes'
  BY <1>1, SizesStay DEF EInv
<1>8. phase' # "Verify"
  BY <1>1, <1>3 DEF EInv, Control
<1>9. CASE ~ HasOutput
  <2>1. buffer' = buffer
    BY <1>9 DEF Execute
  <2>2. Placed'
    BY <1>1, <2>1, PlacedStay DEF EInv
  <2>3. Results'
    BY <1>2, <1>9 DEF Results
  <2>4. QED BY <1>5, <1>6, <1>7, <2>2, <2>3 DEF EInv
<1>10. CASE HasOutput
  <2>1. buffer["out"].placed # "null"
    BY <1>4, <1>10, BehindSetup
  <2>2. Computes
    BY <1>4, <1>10, BehindSetup DEF Computes, Reaches
  <2>. DEFINE b == StoreDevice(buffer["out"], "result")
  <2>3. buffer' = [buffer EXCEPT !["out"] = b]
    BY <1>10, <2>1, <2>2 DEF Execute
  <2>4. "out" \in Names /\ buffer \in [Names -> Buffers]
    BY DEF EInv, Placed, Names
  <2>5. buffer["out"] \in Buffers /\ (buffer["out"].placed = "shared" =>
          buffer["out"].host = buffer["out"].device)
    BY <2>4 DEF EInv, Placed
  <2>6. /\ b \in Buffers /\ b.placed = buffer["out"].placed /\ b.device = "result"
        /\ b.placed = "shared" => b.host = b.device
    BY <2>5 DEF StoreDevice, Buffers, Contents
  <2>. HIDE DEF b
  <2>7. Placed' /\ buffer'["out"] = b
    BY <1>1, <1>4, <2>1, <2>3, <2>6, OutKeeps
  <2>8. Results'
    BY <1>8, <2>6, <2>7 DEF Results
  <2>9. QED BY <1>5, <1>6, <1>7, <2>7, <2>8 DEF EInv
<1>11. QED BY <1>9, <1>10

LEMMA WaitReturnsKeeps ==
  ASSUME EInv, WaitReturns
  PROVE  EInv'
<1>1. UNCHANGED <<example, regions, at, buffer, kernarg, kernarg_offset, capacity,
                  grid, workgroup, kernel, outcome, error>>
  BY DEF WaitReturns
<1>2. Setup' = Setup /\ HasOutput' = HasOutput
  BY <1>1, SameExample
<1>3. /\ phase = "Wait" /\ kernel[Call] = "executed"
      /\ phase' = IF HasOutput THEN "CopyFrom" ELSE "Verify"
  BY DEF WaitReturns
<1>4. Control'
  BY <1>1, <1>2, <1>3 DEF EInv, Control, KC!TypeOK, Phase
<1>5. Arguments'
  BY <1>1, ArgumentsStay DEF EInv
<1>6. Placed'
  BY <1>1, PlacedStay DEF EInv
<1>7. Sizes'
  BY <1>1, SizesStay DEF EInv
<1>8. Results'
  BY <1>1, <1>2, <1>3 DEF EInv, Results
<1>9. QED BY <1>4, <1>5, <1>6, <1>7, <1>8 DEF EInv

LEMMA WaitTimesOutKeeps ==
  ASSUME EInv, WaitTimesOut
  PROVE  EInv'
BY GivenUp DEF WaitTimesOut, HsaError

LEMMA CopyFromKeeps ==
  ASSUME EInv, CopyFrom
  PROVE  EInv'
<1>1. UNCHANGED <<example, regions, kernarg, kernarg_offset, capacity, grid, workgroup>>
  BY DEF CopyFrom
<1>2. CASE HsaError /\ UNCHANGED buffer
  BY <1>1, <1>2, GivenUp
<1>3. CASE /\ buffer' = [buffer EXCEPT !["out"] = FromLocal(@)]
           /\ phase' = "Verify" /\ UNCHANGED <<at, kernel, outcome, error>>
  <2>1. Setup' = Setup /\ HasOutput' = HasOutput
    BY <1>1, SameExample
  <2>2. phase = "CopyFrom" /\ HasOutput /\ at = Len(Setup) + 1 /\ kernel[Call] = "executed"
    BY DEF CopyFrom, EInv, Control
  <2>3. Control'
    BY <1>1, <1>3, <2>1, <2>2 DEF EInv, Control, KC!TypeOK, Phase
  <2>4. Arguments'
    BY <1>1, <1>3, ArgumentsStay DEF EInv
  <2>5. Sizes'
    BY <1>1, <1>3, SizesStay DEF EInv
  <2>6. buffer["out"].placed # "null" /\ buffer["out"].device = "result"
    BY <2>2, BehindSetup DEF EInv, Results
  <2>. DEFINE b == FromLocal(buffer["out"])
  <2>7. buffer' = [buffer EXCEPT !["out"] = b]
    BY <1>3
  <2>8. "out" \in Names /\ buffer \in [Names -> Buffers]
    BY DEF EInv, Placed, Names
  <2>9. buffer["out"] \in Buffers /\ (buffer["out"].placed = "shared" =>
          buffer["out"].host = buffer["out"].device)
    BY <2>8 DEF EInv, Placed
  <2>10. /\ b \in Buffers /\ b.placed = buffer["out"].placed
         /\ b.device = "result" /\ b.host = "result"
    BY <2>6, <2>9 DEF FromLocal, IsLocal, Buffers, Contents
  <2>. HIDE DEF b
  <2>11. Placed' /\ buffer'["out"] = b
    BY <1>1, <1>3, <2>2, <2>6, <2>7, <2>10, OutKeeps
  <2>12. Results'
    BY <2>10, <2>11 DEF Results
  <2>13. QED BY <2>3, <2>4, <2>5, <2>11, <2>12 DEF EInv
<1>4. QED BY <1>2, <1>3 DEF CopyFrom

LEMMA CompareKeeps ==
  ASSUME EInv, Compare(TRUE)
  PROVE  EInv'
<1>1. /\ phase = "Verify" /\ phase' = "done"
      /\ UNCHANGED <<example, regions, at, buffer, kernarg, kernarg_offset, capacity,
                     grid, workgroup, error>>
  BY DEF Compare
<1>2. Setup' = Setup /\ HasOutput' = HasOutput
  BY <1>1, SameExample
<1>3. HasOutput => buffer["out"].host = "result"
  BY <1>1 DEF EInv, Control, Results
<1>4. KC!Succeed(Call)
  BY <1>3 DEF Compare
<1>5. Control'
  BY <1>1, <1>2, <1>4 DEF EInv, Control, KC!TypeOK, KC!Succeed, Phase
<1>6. Arguments'
  BY <1>1, ArgumentsStay DEF EInv
<1>7. Placed'
  BY <1>1, PlacedStay DEF EInv
<1>8. Sizes'
  BY <1>1, SizesStay DEF EInv
<1>9. Results'
  BY <1>1, <1>4, ResultsStay DEF EInv, KC!Succeed
<1>10. QED BY <1>5, <1>6, <1>7, <1>8, <1>9 DEF EInv

-----------------------------------------------------------------------------
(* Every step keeps the invariant. *)

LEMMA ExampleInit ==
  ASSUME Init
  PROVE  EInv
<1>1. Sound(example)
  BY ExampleSound DEF Init
<1>2. Len(Setup) \in Nat /\ First[example] \in 2 .. 9
  BY <1>1 DEF Sound, Argued, Setup
<1>3. Control
  <2>1. KC!TypeOK /\ kernel[Call] = "none" /\ outcome[Call] = "pending"
    BY DEF Init, KC!TypeOK
  <2>2. /\ phase = "SetupCodeObject" /\ at = 1 /\ error = FALSE /\ example \in Examples
        /\ at \in 1 .. Len(Setup) + 1
    BY <1>2 DEF Init
  <2>3. QED BY <2>1, <2>2 DEF Control, Phase
<1>4. Before(at) = 0
  BY <1>2 DEF Init, Before
<1>5. DOMAIN kernarg = {}
  BY DEF Init
<1>6. PushedAt(0) = {} /\ 1 .. at - 1 = {} /\ 0 .. Before(at) - 1 = {}
  BY <1>4 DEF Init, PushedAt
<1>7. Arguments
  BY <1>4, <1>5, <1>6 DEF Init, Arguments
<1>8. buffer \in [Names -> Buffers] /\ \A n \in Names : buffer[n].host = buffer[n].device
  BY DEF Init, NoBuffer, Buffers, Contents
<1>9. Placed /\ Sizes
  BY <1>6, <1>8 DEF Placed, Sizes
<1>10. Results
  BY DEF Init, Results, Call
<1>11. QED BY <1>3, <1>7, <1>9, <1>10 DEF EInv

LEMMA HousekeepingKeeps ==
  ASSUME EInv, Housekeeping
  PROVE  EInv'
BY LoadCodeObjectKeeps, AllocateKernargKeeps, AllocateBufferKeeps, CopyToKeeps,
   KernargKeeps, KernargRawKeeps, SetGridKeeps, SetWorkgroupKeeps, RunDispatchKeeps,
   WaitReturnsKeeps, WaitTimesOutKeeps, CopyFromKeeps
   DEF Housekeeping

LEMMA ExampleNext ==
  ASSUME EInv, [Next]_vars
  PROVE  EInv'
<1>1. CASE Next
  BY <1>1, HousekeepingKeeps, FillBufferKeeps, ExecuteKeeps, CompareKeeps DEF Next
<1>2. CASE UNCHANGED vars
  <2>1. UNCHANGED <<example, phase, at, buffer, kernarg, kernarg_offset, capacity,
                    grid, workgroup, kernel, outcome, error>>
    BY <1>2 DEF vars
  <2>2. Control'
    <3>1. Setup' = Setup /\ HasOutput' = HasOutput
      BY <2>1, SameExample
    <3>2. QED BY <2>1, <3>1 DEF EInv, Control, KC!TypeOK
  <2>3. Results'
    <3>1. HasOutput' = HasOutput
      BY <2>1, SameExample
    <3>2. QED BY <2>1, <3>1 DEF EInv, Results
  <2>4. QED BY <2>1, <2>2, <2>3, ArgumentsStay, PlacedStay, SizesStay DEF EInv
<1>3. QED BY <1>1, <1>2

LEMMA ExampleInvariant == Spec => []EInv
<1>1. Init => EInv
  BY ExampleInit
<1>2. EInv /\ [Next]_vars => EInv'
  BY ExampleNext
<1>3. QED BY <1>1, <1>2, PTL DEF Spec

-----------------------------------------------------------------------------
(* The variables of the programs have their types, for any set of programs:  *)
(* no call pushes behind the block that AllocateKernarg has allocated.       *)
THEOREM ExampleTypeCorrect == Spec => []TypeOK
<1>1. ASSUME EInv
      PROVE  TypeOK
  <2>1. Len(Setup) \in Nat
    BY <1>1, ExampleSound DEF EInv, Control, Sound, Setup
  <2>2. Argued(Setup, Args, First[example], Count[example], Kernel[example].segment)
    BY <1>1, ExampleSound DEF EInv, Control, Sound, Setup, Args
  <2>3. Ordered(Setup, Args)
    BY <1>1, ExampleSound DEF EInv, Control, Sound, Setup, Args
  <2>4. First[example] \in 2 .. 9 /\ Count[example] \in 1 .. 3
    BY <2>2 DEF Argued
  <2>5. at \in 1 .. Len(Setup) + 1
    BY <1>1 DEF EInv, Control
  <2>6. /\ capacity \in {0, 8, 16, 24, 1024}
        /\ at > 1 => 8 * Count[example] <= capacity
    <3>1. capacity = IF at = 1 THEN 0 ELSE Setup[1].arg
      BY <1>1 DEF EInv, Arguments
    <3>2. Setup[1].arg \in {8, 16, 24, 1024} /\ 8 * Count[example] <= Setup[1].arg
      BY <2>2 DEF Argued
    <3>3. QED BY <2>5, <3>1, <3>2
  <2>7. Before(at) \in 0 .. Count[example] /\ (at = 1 => Before(at) = 0)
    <3>1. at \in Nat
      BY <2>1, <2>5
    <3>2. CASE at <= First[example]
      BY <2>4, <3>1, <3>2 DEF Before
    <3>3. CASE ~ at <= First[example]
      BY <2>4, <3>1, <3>3 DEF Before
    <3>4. QED BY <3>2, <3>3
  <2>8. kernarg_offset \in 0 .. capacity
    <3>1. kernarg_offset = 8 * Before(at)
      BY <1>1 DEF EInv, Arguments
    <3>2. CASE at = 1
      BY <2>6, <2>7, <3>1, <3>2
    <3>3. CASE at > 1
      <4>1. Before(at) \in Nat /\ Before(at) <= Count[example] /\ Count[example] \in Nat
        BY <2>4, <2>7
      <4>2. QED BY <2>6, <3>1, <3>3, <4>1
    <3>4. QED BY <2>5, <3>2, <3>3
  <2>9. ASSUME NEW o \in DOMAIN kernarg
        PROVE  o \in Nat /\ kernarg[o] \in Names \cup {"ticks_to_wait"}
    <3>1. PICK j \in 0 .. Before(at) - 1 : o = 8 * j
      BY <1>1 DEF EInv, Arguments, PushedAt
    <3>2. j \in 0 .. Count[example] - 1
      BY <2>4, <2>7
    <3>3. kernarg[o] = Args[o] /\ o \in DOMAIN Args
      <4>1. kernarg[8 * j] = Setup[First[example] + j].arg
        BY <1>1 DEF EInv, Arguments
      <4>2. Setup[First[example] + j].arg = Args[8 * j]
        BY <2>2, <3>2 DEF Argued
      <4>3. 8 * j \in DOMAIN Args
        BY <2>2, <3>2 DEF Argued
      <4>4. QED BY <3>1, <4>1, <4>2, <4>3
    <3>4. QED BY <2>3, <3>1, <3>2, <3>3 DEF Ordered
  <2>10. QED BY <1>1, <2>5, <2>6, <2>8, <2>9 DEF EInv, Control, Placed, TypeOK, Phase
<1>2. QED BY <1>1, ExampleInvariant, PTL

(* If no HSA call fails, the file is there and the kernel ends in time,      *)
(* Run() of no example reports "Failed": the fills, the copies, the argument *)
(* offsets of both sides and the copy back agree, wherever the buffers are.  *)
THEOREM OnlyErrorsMakeFail == Spec => []OnlyErrorsFail
<1>1. EInv => OnlyErrorsFail
  BY DEF EInv, Control, OnlyErrorsFail
<1>2. QED BY <1>1, ExampleInvariant, PTL

(* A program only ever crashes after one of its own HSA calls has failed.    *)
THEOREM CrashesNeedErrors == Spec => []CrashNeedsError
<1>1. EInv => CrashNeedsError
  BY DEF EInv, Control, CrashNeedsError
<1>2. QED BY <1>1, ExampleInvariant, PTL

(* Verify() looks at what the device stored.                                 *)
THEOREM VerifiesTheDevice == Spec => []VerifyReadsDevice
<1>1. EInv => VerifyReadsDevice
  BY DEF EInv, Results, VerifyReadsDevice
<1>2. QED BY <1>1, ExampleInvariant, PTL

(* While a kernel is submitted, every argument that it loads is inside the   *)
(* block, and leads to a buffer whose device side holds the input.           *)
THEOREM ArgumentsAreSeen == Spec => []KernelSeesItsArguments
<1>1. ASSUME EInv, kernel[Call] = "submitted"
      PROVE  /\ Kernel[example].segment <= capacity
             /\ \A o \in DOMAIN Args :
                  /\ Reaches(o)
                  /\ o + 8 <= capacity
                  /\ Args[o] \in Inputs => buffer[Args[o]].device = "input"
  <2>1. at = Len(Setup) + 1
    BY <1>1 DEF EInv, Control
  <2>2. Argued(Setup, Args, First[example], Count[example], Kernel[example].segment)
    BY <1>1, ExampleSound DEF EInv, Control, Sound, Setup, Args
  <2>3. capacity = Setup[1].arg
    BY <1>1, <2>1, BehindSetup
  <2>4. Kernel[example].segment <= capacity /\ 8 * Count[example] <= capacity
    BY <2>2, <2>3 DEF Argued
  <2>5. \A o \in DOMAIN Args : Reaches(o)
    BY <1>1, <2>1, BehindSetup DEF Reaches
  <2>6. \A n \in Inputs : buffer[n].device = "input"
    BY <1>1, <2>1, BehindSetup
  <2>7. ASSUME NEW o \in DOMAIN Args
        PROVE  o + 8 <= capacity
    <3>1. PICK j \in 0 .. Count[example] - 1 : o = 8 * j
      BY <2>2 DEF Argued
    <3>2. Count[example] \in 1 .. 3 /\ capacity \in Nat
      BY <2>2, <2>3 DEF Argued
    <3>3. j \in Nat /\ j <= Count[example] - 1
      BY <3>2
    <3>4. QED BY <2>4, <3>1, <3>2, <3>3
  <2>8. QED BY <2>4, <2>5, <2>6, <2>7
<1>2. EInv => KernelSeesItsArguments
  BY <1>1 DEF KernelSeesItsArguments
<1>3. QED BY <1>2, ExampleInvariant, PTL

-----------------------------------------------------------------------------
(* The programs together with their kernels: every step of the whole is a   *)
(* step of each part or leaves it alone, so what is proved of the parts     *)
(* holds of the whole.                                                      *)

LEMMA StepOfRealtime ==
  ASSUME [KernelsNext]_allVars
  PROVE  [RtNext]_rtVars
<1>1. CASE RealtimeStep \/ ClockStep
  BY <1>1 DEF RealtimeStep, ClockStep, RtNext
<1>2. CASE HostStep \/ FillStep \/ FillHalves \/ ReduceStep \/ HalfKernelStep
           \/ ExecuteStep \/ VerifyHalves \/ CompareStep
  BY <1>2 DEF HostStep, FillStep, FillHalves, ReduceStep, HalfKernelStep, ExecuteStep,
              VerifyHalves, CompareStep
<1>3. CASE UNCHANGED allVars
  BY <1>3 DEF allVars
<1>4. QED BY <1>1, <1>2, <1>3 DEF KernelsNext

LEMMA StepOfReduce ==
  ASSUME [KernelsNext]_allVars
  PROVE  [DppNext]_dppVars
<1>1. CASE ReduceStep
  BY <1>1 DEF ReduceStep
<1>2. CASE HostStep \/ FillStep \/ FillHalves \/ RealtimeStep \/ ClockStep
           \/ HalfKernelStep \/ ExecuteStep \/ VerifyHalves \/ CompareStep
  BY <1>2 DEF HostStep, FillStep, FillHalves, RealtimeStep, ClockStep, HalfKernelStep,
              ExecuteStep, VerifyHalves, CompareStep
<1>3. CASE UNCHANGED allVars
  BY <1>3 DEF allVars
<1>4. QED BY <1>1, <1>2, <1>3 DEF KernelsNext

LEMMA StepOfHalves ==
  ASSUME [KernelsNext]_allVars
  PROVE  [HalfNext]_halfVars
<1>1. CASE FillHalves \/ HalfKernelStep \/ VerifyHalves
  BY <1>1 DEF FillHalves, HalfKernelStep, VerifyHalves, HalfNext
<1>2. CASE HostStep \/ FillStep \/ RealtimeStep \/ ClockStep \/ ReduceStep
           \/ ExecuteStep \/ CompareStep
  BY <1>2 DEF HostStep, FillStep, RealtimeStep, ClockStep, ReduceStep, ExecuteStep,
              CompareStep
<1>3. CASE UNCHANGED allVars
  BY <1>3 DEF allVars
<1>4. QED BY <1>1, <1>2, <1>3 DEF KernelsNext

\* The programs on halves compare well because their sums agree.
LEMMA StepOfExample ==
  ASSUME [KernelsNext]_allVars, SumsAgree
  PROVE  [Next]_vars
<1>1. CASE HostStep \/ FillStep \/ ExecuteStep
  BY <1>1 DEF HostStep, FillStep, ExecuteStep, Next
<1>2. CASE CompareStep
  <2>1. Compare(OnHalves => ok)
    BY <1>2 DEF CompareStep
  <2>2. Compare(TRUE)
    BY <2>1 DEF Compare, SumsAgree
  <2>3. QED BY <2>2 DEF Next
<1>3. CASE FillHalves \/ RealtimeStep \/ ClockStep \/ ReduceStep \/ HalfKernelStep
           \/ VerifyHalves
  BY <1>3 DEF FillHalves, RealtimeStep, ClockStep, ReduceStep, HalfKernelStep, VerifyHalves
<1>4. CASE UNCHANGED allVars
  BY <1>4 DEF allVars
<1>5. QED BY <1>1, <1>2, <1>3, <1>4 DEF KernelsNext

LEMMA PartsOfKernels == KernelsSpec => RtSpec /\ DppSpec /\ HalfSpec
<1>1. KernelsInit => RtInit /\ DppInit /\ HalfInit
  BY DEF KernelsInit
<1>2. [KernelsNext]_allVars => [RtNext]_rtVars /\ [DppNext]_dppVars /\ [HalfNext]_halfVars
  BY StepOfRealtime, StepOfReduce, StepOfHalves
<1>3. QED BY <1>1, <1>2, PTL DEF KernelsSpec, RtSpec, DppSpec, HalfSpec

(* The programs with their kernels implement the programs alone, where the   *)
(* kernel is one step and the comparison of halves is known to come out      *)
(* well.                                                                     *)
THEOREM KernelsImplementExamples == KernelsSpec => Spec
<1>1. KernelsInit => Init
  BY DEF KernelsInit
<1>2. [KernelsNext]_allVars /\ SumsAgree => [Next]_vars
  BY StepOfExample
<1>3. QED BY <1>1, <1>2, PartsOfKernels, SumsAreRight, PTL DEF KernelsSpec, Spec

LEMMA ReduceTypeCorrect == DppSpec => []DppTypeOK
<1>1. DInv => DppTypeOK
  BY DEF DInv
<1>2. QED BY <1>1, PrefixInvariant, PTL

(* The variables of the programs and of the kernels have their types.        *)
THEOREM KernelsTypeCorrect == KernelsSpec => []TypesOK
<1>1. TypeOK /\ RtTypeOK /\ DppTypeOK /\ HalfTypeOK => TypesOK
  BY DEF TypesOK
<1>2. QED BY <1>1, KernelsImplementExamples, PartsOfKernels, ExampleTypeCorrect,
             RealtimeTypeCorrect, ReduceTypeCorrect, HalfTypeCorrect, PTL

(* What holds of the programs and of the kernels alone holds when they run   *)
(* together.                                                                 *)
THEOREM KernelsSafe ==
  KernelsSpec =>
    /\ [](OnlyErrorsFail /\ KernelSeesItsArguments /\ VerifyReadsDevice /\ CrashNeedsError)
    /\ [](WaitsLongEnough /\ PrefixSum /\ SumsAgree /\ HalfInverse)
    /\ LeavesWhenReached
BY KernelsImplementExamples, PartsOfKernels, OnlyErrorsMakeFail, ArgumentsAreSeen,
   VerifiesTheDevice, CrashesNeedErrors, RealtimeWaits, PrefixSums, SumsAreRight,
   HalvesInverse, RealtimeLeaves, PTL

=============================================================================
