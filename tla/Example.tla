------------------------------ MODULE Example ------------------------------
(***************************************************************************)
(* The example programs: classes derived from amd::dispatch::Dispatch that *)
(* allocate kernel arguments and buffers, launch one kernel and compare    *)
(* what it stored.  The module closes what Dispatch leaves open (Setup and *)
(* Verify, buffers, the argument block) and takes from it only what        *)
(* KernelCall promises: every launch and every end of a call below is also *)
(* a step of KernelCall.                                                   *)
(*                                                                         *)
(* The contents of a buffer are told apart as far as the programs do: what *)
(* it happened to hold, the input the client wrote into it, the result the *)
(* kernel computes from the inputs, or some other value.                   *)
(***************************************************************************)
EXTENDS Naturals, Sequences

CONSTANT Examples          \* the programs that are run, out of Program's domain

VARIABLES
  example,        \* the program that runs
  regions,        \* which of the regions FindRegions has found, and a CPU agent
  phase,          \* where Run() stands
  at,             \* the next call of Setup()
  buffer,         \* the client's Buffer pointers
  kernarg,        \* the argument block: which buffer's pointer is at an offset
  kernarg_offset,
  capacity,       \* the size the block was allocated with
  grid, workgroup,
  kernel, outcome,\* the call of Run(), as KernelCall sees it
  error           \* history: an HSA call or the file failed, or Wait() gave up

vars == <<example, regions, phase, at, buffer, kernarg, kernarg_offset, capacity,
          grid, workgroup, kernel, outcome, error>>

Call == 1
KC == INSTANCE KernelCall WITH Runs <- {Call}

-----------------------------------------------------------------------------
(* The client programs: the calls Setup() makes, in order. *)

Do(op, arg) == [op |-> op, arg |-> arg]

DppReduce ==
  << Do("AllocateKernarg", 16), Do("AllocateBuffer", "in"), Do("Fill", "in"),
     Do("CopyTo", "in"), Do("AllocateBuffer", "out"),
     Do("Kernarg", "in"), Do("Kernarg", "out"),
     Do("SetGridSize", 64), Do("SetWorkgroupSize", 64) >>

DsBPermuteDispatch ==
  << Do("AllocateKernarg", 24), Do("AllocateBuffer", "in"),
     Do("AllocateBuffer", "index"), Do("AllocateBuffer", "out"),
     Do("Fill", "in"), Do("Fill", "index"), Do("CopyTo", "in"), Do("CopyTo", "index"),
     Do("Kernarg", "in"), Do("Kernarg", "index"), Do("Kernarg", "out"),
     Do("SetGridSize", 64), Do("SetWorkgroupSize", 64) >>

\* Mutant: out is passed to the kernel before it is allocated.
HalfVectorAdd_Mut ==
  << Do("AllocateKernarg", 24), Do("AllocateBuffer", "in1"),
     Do("AllocateBuffer", "in2"), Do("Fill", "in1"), Do("Fill", "in2"),
     Do("CopyTo", "in1"), Do("CopyTo", "in2"),
     Do("Kernarg", "in1"), Do("Kernarg", "in2"), Do("Kernarg", "out"),
     Do("AllocateBuffer", "out"),
     Do("SetGridSize", 64), Do("SetWorkgroupSize", 64) >>

HalfVectorAdd ==
  << Do("AllocateKernarg", 24), Do("AllocateBuffer", "in1"),
     Do("AllocateBuffer", "in2"), Do("Fill", "in1"), Do("Fill", "in2"),
     Do("CopyTo", "in1"), Do("CopyTo", "in2"), Do("AllocateBuffer", "out"),
     Do("Kernarg", "in1"), Do("Kernarg", "in2"), Do("Kernarg", "out"),
     Do("SetGridSize", 64), Do("SetWorkgroupSize", 64) >>

\* fp16_storage.cpp makes the same calls for another kernel.
HalfVectorAddStorage == HalfVectorAdd

AsmKernelDispatch ==
  << Do("AllocateKernarg", 1024), Do("AllocateBuffer", "out"),
     Do("Kernarg", "out"), Do("SetGridSize", 1), Do("SetWorkgroupSize", 1) >>

SMemRealtimeDispatch ==
  << Do("AllocateKernarg", 8), Do("KernargRaw", "ticks_to_wait"),
     Do("SetGridSize", 1), Do("SetWorkgroupSize", 1) >>

SMemRealtimeInlineDispatch == SMemRealtimeDispatch

Program ==
  [dpp_reduce |-> DppReduce, ds_bpermute |-> DsBPermuteDispatch,
   fp16_native |-> HalfVectorAdd, fp16_storage |-> HalfVectorAddStorage,
   asm_kernel |-> AsmKernelDispatch, s_memrealtime |-> SMemRealtimeDispatch,
   s_memrealtime_inline |-> SMemRealtimeInlineDispatch]

ASSUME ExamplesAssumption == Examples \subseteq DOMAIN Program

-----------------------------------------------------------------------------
(* The kernels: the offsets their scalar loads use, the size of their      *)
(* argument segment, and the work-items that their result takes.           *)

\* What the scalar loads of a kernel find at an offset, in 8 bytes.
Loads1(a)       == [offset \in {0} |-> a]
Loads2(a, b)    == [offset \in {0, 8} |-> IF offset = 0 THEN a ELSE b]
Loads3(a, b, c) == [offset \in {0, 8, 16} |->
                      IF offset = 0 THEN a ELSE IF offset = 8 THEN b ELSE c]

dpp_reduce_s   == [args |-> Loads2("in", "out"), segment |-> 16, items |-> 64]
ds_bpermute_s  == [args |-> Loads3("in", "index", "out"), segment |-> 24, items |-> 64]
fp16_native_s  == [args |-> Loads3("in1", "in2", "out"), segment |-> 24, items |-> 64]
fp16_storage_s == [args |-> Loads3("in1", "in2", "out"), segment |-> 24, items |-> 64]
asm_kernel_s   == [args |-> Loads1("out"), segment |-> 8, items |-> 1]

s_memrealtime_s == [args |-> Loads1("ticks_to_wait"), segment |-> 8, items |-> 1]

\* reqd_work_group_size(64, 1, 1)
s_memrealtime_inline_cl ==
  [args |-> Loads1("ticks_to_wait"), segment |-> 8, items |-> 64]

Kernel ==
  [dpp_reduce |-> dpp_reduce_s, ds_bpermute |-> ds_bpermute_s,
   fp16_native |-> fp16_native_s, fp16_storage |-> fp16_storage_s,
   asm_kernel |-> asm_kernel_s, s_memrealtime |-> s_memrealtime_s,
   s_memrealtime_inline |-> s_memrealtime_inline_cl]

Args == Kernel[example].args
Names == {"in", "index", "in1", "in2", "out"}
Inputs == {Args[o] : o \in DOMAIN Args} \ {"out", "ticks_to_wait"}
HasOutput == \E o \in DOMAIN Args : Args[o] = "out"

-----------------------------------------------------------------------------
(* Buffer: system_ptr and local_ptr, which are the same block of memory    *)
(* when there is no device-local region.                                    *)

NoBuffer == [placed |-> "null", host |-> "junk", device |-> "junk"]
Contents == {"junk", "input", "result", "other"}
Buffers  == [placed : {"null", "shared", "local"}, host : Contents, device : Contents]

\* Mutant: the comparison the wrong way round.
IsLocal_Mut(b) == b.placed = "shared"

IsLocal(b) == b.placed = "local"

\* A store through Ptr() or Data(): it is a store to both when they are one.
StoreHost(b, c) ==
  [b EXCEPT !.host = c, !.device = IF b.placed = "shared" THEN c ELSE @]

\* A kernel's store through LocalPtr().
StoreDevice(b, c) ==
  [b EXCEPT !.device = c, !.host = IF b.placed = "shared" THEN c ELSE @]

\* Mutant: results are expected in the system block.
FromLocal_Mut(b) == b

\* memcpy between the two blocks, when they are two.
ToLocal(b)   == IF IsLocal(b) THEN [b EXCEPT !.device = b.host] ELSE b
FromLocal(b) == IF IsLocal(b) THEN [b EXCEPT !.host = b.device] ELSE b

-----------------------------------------------------------------------------
(* Dispatch's operations, as Setup() calls them. *)

Setup == Program[example]
Now(op) == phase = "Setup" /\ Setup[at].op = op
Arg == Setup[at].arg

\* After the last call, Setup() returns true and RunDispatch submits.
Continue ==
  /\ at' = at + 1
  /\ phase' = IF at < Len(Setup) THEN "Setup" ELSE "RunDispatch"

\* Setup() or Verify() returns false, or Wait() does.
GiveUp == phase' = "done" /\ KC!Fail(Call) /\ UNCHANGED at

HsaError == error' = TRUE /\ GiveUp

\* A null Buffer* is dereferenced, or free() gets memory of HSA's.
Crash == phase' = "crashed" /\ UNCHANGED <<at, kernel, outcome>>

\* The file is opened and copied into system memory, and deserialized; any of
\* the three may fail.  SetupCodeObject() of every program is this call.
LoadCodeObjectFromFile ==
  /\ phase = "SetupCodeObject"
  /\ \/ /\ regions.system
        /\ phase' = "Setup"
        /\ UNCHANGED <<at, kernel, outcome, error>>
     \/ HsaError
  /\ UNCHANGED <<example, regions, buffer, kernarg, kernarg_offset, capacity,
                 grid, workgroup>>

AllocateKernarg ==
  /\ Now("AllocateKernarg")
  /\ \/ /\ capacity' = Arg
        /\ kernarg_offset' = 0
        /\ Continue
        /\ UNCHANGED <<kernel, outcome, error>>
     \/ HsaError /\ UNCHANGED <<capacity, kernarg_offset>>
  /\ UNCHANGED <<example, regions, buffer, kernarg, grid, workgroup>>

\* Where AllocateBuffer puts the second block; prefer_gpu_local is true.
Placement == IF regions.gpu_local \/ regions.local THEN "local" ELSE "shared"

\* The client does not look at the pointer AllocateBuffer returns.  When only
\* the second allocation fails, the first block, which is HSA's, goes to
\* free(): what that does is undefined.
AllocateBuffer ==
  /\ Now("AllocateBuffer")
  /\ \/ /\ regions.system
        /\ buffer' = [buffer EXCEPT ![Arg] = [NoBuffer EXCEPT !.placed = Placement]]
        /\ Continue
        /\ UNCHANGED <<kernel, outcome, error>>
     \/ /\ buffer' = [buffer EXCEPT ![Arg] = NoBuffer]
        /\ error' = TRUE
        /\ Continue
        /\ UNCHANGED <<kernel, outcome>>
     \/ /\ regions.system /\ Placement = "local"
        /\ error' = TRUE
        /\ Crash
        /\ UNCHANGED buffer
  /\ UNCHANGED <<example, regions, kernarg, kernarg_offset, capacity, grid, workgroup>>

Fill ==
  /\ Now("Fill")
  /\ IF buffer[Arg].placed = "null"
     THEN Crash /\ UNCHANGED buffer
     ELSE /\ buffer' = [buffer EXCEPT ![Arg] = StoreHost(@, "input")]
          /\ Continue
          /\ UNCHANGED <<kernel, outcome>>
  /\ UNCHANGED <<example, regions, kernarg, kernarg_offset, capacity, grid,
                 workgroup, error>>

\* hsa_memory_copy only runs, and only fails, for a local buffer.
CopyTo ==
  /\ Now("CopyTo")
  /\ IF buffer[Arg].placed = "null"
     THEN Crash /\ UNCHANGED <<buffer, error>>
     ELSE \/ /\ buffer' = [buffer EXCEPT ![Arg] = ToLocal(@)]
             /\ Continue
             /\ UNCHANGED <<kernel, outcome, error>>
          \/ /\ IsLocal(buffer[Arg])
             /\ HsaError
             /\ UNCHANGED buffer
  /\ UNCHANGED <<example, regions, kernarg, kernarg_offset, capacity, grid, workgroup>>

\* Mutant: one too many in the rounding.
AlignUp_Mut(offset, align) == ((offset + align) \div align) * align

AlignUp(offset, align) == ((offset + align - 1) \div align) * align

\* KernargRaw: 8 bytes, a pointer or a uint64_t, at the next aligned offset.
Push(value, align) ==
  LET offset == AlignUp(kernarg_offset, align) IN
  /\ kernarg' = [o \in DOMAIN kernarg \cup {offset} |->
                   IF o = offset THEN value ELSE kernarg[o]]
  /\ kernarg_offset' = offset + 8

Kernarg ==
  /\ Now("Kernarg")
  /\ IF buffer[Arg].placed = "null"
     THEN Crash /\ UNCHANGED <<kernarg, kernarg_offset>>
     ELSE Push(Arg, 8) /\ Continue /\ UNCHANGED <<kernel, outcome>>
  /\ UNCHANGED <<example, regions, buffer, capacity, grid, workgroup, error>>

KernargRaw ==
  /\ Now("KernargRaw")
  /\ Push(Arg, 1)
  /\ Continue
  /\ UNCHANGED <<example, regions, buffer, capacity, grid, workgroup, kernel,
                 outcome, error>>

SetGridSize ==
  /\ Now("SetGridSize")
  /\ grid' = Arg
  /\ Continue
  /\ UNCHANGED <<example, regions, buffer, kernarg, kernarg_offset, capacity,
                 workgroup, kernel, outcome, error>>

SetWorkgroupSize ==
  /\ Now("SetWorkgroupSize")
  /\ workgroup' = Arg
  /\ Continue
  /\ UNCHANGED <<example, regions, buffer, kernarg, kernarg_offset, capacity,
                 grid, kernel, outcome, error>>

-----------------------------------------------------------------------------
(* The launch, the kernel, and the end of Run(). *)

RunDispatch ==
  /\ phase = "RunDispatch"
  /\ KC!Submit(Call)
  /\ phase' = "Wait"
  /\ UNCHANGED <<example, regions, at, buffer, kernarg, kernarg_offset, capacity,
                 grid, workgroup, error>>

\* The pointer a kernel loads from an offset of its argument segment leads
\* to the buffer that the kernel means.
Reaches(o) == o \in DOMAIN kernarg /\ kernarg[o] = Args[o]

\* The inputs are where the kernel looks for them, and all items work.
Computes ==
  /\ \A o \in DOMAIN Args : Reaches(o)
  /\ \A n \in Inputs : buffer[n].device = "input"
  /\ grid = Kernel[example].items /\ workgroup = Kernel[example].items

\* The kernel's stores (external to Run(): the device's own time).
Execute ==
  /\ KC!Execute(Call)
  /\ IF HasOutput /\ buffer["out"].placed # "null"
     THEN buffer' = [buffer EXCEPT !["out"] =
            StoreDevice(@, IF Computes THEN "result" ELSE "other")]
     ELSE UNCHANGED buffer
  /\ UNCHANGED <<example, regions, phase, at, kernarg, kernarg_offset, capacity,
                 grid, workgroup, error>>

\* Wait() returns true only when the kernel has been executed (Dispatch).
WaitReturns ==
  /\ phase = "Wait"
  /\ kernel[Call] = "executed"
  /\ phase' = IF HasOutput THEN "CopyFrom" ELSE "Verify"
  /\ UNCHANGED <<example, regions, at, buffer, kernarg, kernarg_offset, capacity,
                 grid, workgroup, kernel, outcome, error>>

WaitTimesOut ==
  /\ phase = "Wait"
  /\ error' = TRUE
  /\ GiveUp
  /\ UNCHANGED <<example, regions, buffer, kernarg, kernarg_offset, capacity,
                 grid, workgroup>>

\* Verify() starts with CopyFrom(out): assigning the local block to the CPU
\* agent fails without one.
CopyFrom ==
  /\ phase = "CopyFrom"
  /\ \/ /\ IsLocal(buffer["out"]) => regions.cpu
        /\ buffer' = [buffer EXCEPT !["out"] = FromLocal(@)]
        /\ phase' = "Verify"
        /\ UNCHANGED <<at, kernel, outcome, error>>
     \/ /\ IsLocal(buffer["out"])
        /\ HsaError
        /\ UNCHANGED buffer
  /\ UNCHANGED <<example, regions, kernarg, kernarg_offset, capacity, grid, workgroup>>

\* The comparison of out with the expected result, which comes out well for
\* the kernel's result; the two realtime examples inherit a Verify() that
\* returns true.
Compare(same) ==
  /\ phase = "Verify"
  /\ phase' = "done"
  /\ IF HasOutput => same /\ buffer["out"].host = "result"
     THEN KC!Succeed(Call)
     ELSE KC!Fail(Call)
  /\ UNCHANGED <<example, regions, at, buffer, kernarg, kernarg_offset, capacity,
                 grid, workgroup, error>>

-----------------------------------------------------------------------------
\* FindRegions found at least a kernarg region, or Init() would have failed.
Init ==
  /\ example \in Examples
  /\ regions \in [system : BOOLEAN, local : BOOLEAN, gpu_local : BOOLEAN, cpu : BOOLEAN]
  /\ phase = "SetupCodeObject"
  /\ at = 1
  /\ buffer = [n \in Names |-> NoBuffer]
  /\ kernarg = << >>
  /\ kernarg_offset = 0
  /\ capacity = 0
  /\ grid = 1
  /\ workgroup = 1
  /\ kernel = [r \in {Call} |-> "none"]
  /\ outcome = [r \in {Call} |-> "pending"]
  /\ error = FALSE

\* What the contents of a buffer are does not matter to.
Housekeeping ==
  \/ LoadCodeObjectFromFile
  \/ AllocateKernarg \/ AllocateBuffer \/ CopyTo \/ Kernarg \/ KernargRaw
  \/ SetGridSize \/ SetWorkgroupSize \/ RunDispatch
  \/ WaitReturns \/ WaitTimesOut \/ CopyFrom

Next == Housekeeping \/ Fill \/ Execute \/ Compare(TRUE)

Spec == Init /\ [][Next]_vars

-----------------------------------------------------------------------------
(* Properties. *)

TypeOK ==
  /\ example \in Examples
  /\ phase \in {"SetupCodeObject", "Setup", "RunDispatch", "Wait", "CopyFrom",
                "Verify", "done", "crashed"}
  /\ at \in 1 .. Len(Setup) + 1
  /\ buffer \in [Names -> Buffers]
  /\ \A o \in DOMAIN kernarg : o \in Nat /\ kernarg[o] \in Names \cup {"ticks_to_wait"}
  /\ kernarg_offset \in 0 .. capacity
  /\ capacity \in {0, 8, 16, 24, 1024}
  /\ KC!TypeOK
  /\ error \in BOOLEAN

(* The examples are the repository's tests (examples/CMakeLists.txt adds     *)
(* each as one), and they work on every kind of memory: if no HSA call      *)
(* fails, the file is there and the kernel ends in time, Run() does not      *)
(* report "Failed".  It takes the fills, the copies, the argument offsets of *)
(* both sides, the kernel and the copy back to agree.                        *)
OnlyErrorsFail == outcome[Call] = "Failed" => error

(* What the kernel is going to read is there when it is submitted, and until *)
(* it has run: every argument that the kernel loads has been written, inside *)
(* the allocated block, and leads to a buffer whose device side holds the    *)
(* client's input (dispatch.cpp:398-450 against the loads of the kernels).   *)
KernelSeesItsArguments ==
  kernel[Call] = "submitted" =>
    /\ Kernel[example].segment <= capacity
    /\ \A o \in DOMAIN Args :
         /\ Reaches(o)
         /\ o + 8 <= capacity
         /\ Args[o] \in Inputs => buffer[Args[o]].device = "input"

(* Verify() looks at what the device stored and not at a host copy from      *)
(* before the launch, wherever AllocateBuffer put the buffer.                *)
VerifyReadsDevice ==
  phase = "Verify" /\ HasOutput => buffer["out"].host = buffer["out"].device

(* A program only ever crashes after one of its own HSA calls has failed: by *)
(* the null pointer of an AllocateBuffer that nobody looks at, or in free(). *)
CrashNeedsError == phase = "crashed" => error

-----------------------------------------------------------------------------
(* What is said of the programs and does not hold. *)

(* s_memrealtime_inline.cl:49 declares reqd_work_group_size(64, 1, 1); the   *)
(* program that launches the kernel sets a workgroup size of 1.              *)
RequiredWorkgroup ==
  kernel[Call] = "submitted" /\ example = "s_memrealtime_inline" =>
    workgroup = Kernel[example].items

=============================================================================
