# Specifications of LLVM-AMDGPU-Assembler-Extra

The repository holds a small HSA host library (`examples/common`), example
programs that launch one GPU kernel each and check its result, macros for
writing kernels, and stand-alone tools around the assembler.  This directory
specifies the parts with behaviour in TLA+, checks them with TLC and proves the
most important facts with TLAPS.  Paths below are relative to the repository's
`src/`.

## Inventory

| Component | State | Operations | Hard behaviour | Correct when |
|---|---|---|---|---|
| Launch (`examples/common/dispatch.cpp`, `.hpp`) | `queue`, `signal`, `packet_index`, `aql`, the queue's ring, the group sizes | `Run` = `Init`, `InitDispatch`, `SetupExecutable`, `Setup`, `RunDispatch`, `Wait`, `Verify`; the setters | The command processor reads the packet concurrently; `Wait` may give up and leave the kernel on the device; the same object may run again | The device launches what the client asked for; `Verify` only sees finished kernels; a published packet is not written; a call returns when its kernel ends |
| Discovery (same files) | `agent`, `cpu_agent`, four regions | `Init`, callbacks `find_gpu_device` and `FindRegions` | Callbacks in the machine's order; every HSA call may fail, those of `FindRegions` unnoticed; `Init` may be repeated | The result depends on the machine only, but for regions about which a query has failed; no handle is set twice; what is reported usable is usable |
| Buffers and arguments (same files) | `Buffer` pairs, argument block and `kernarg_offset` | `AllocateBuffer`, `CopyTo`, `CopyFrom`, `AllocateKernarg`, `Kernarg`, `KernargRaw` | One or two memory blocks per buffer, by machine; allocation may fail | Both sides see the data they should; arguments lie where the kernel loads them |
| Programs and kernels (`examples/gfx8/*.cpp`, `*.s`, `*.cl`, `examples/asm-kernel`) | buffers of the program | `Setup`, `Verify` | Agreement of two files in two languages | A run without an HSA error succeeds |
| Register allocator (`examples/gfx8/gpr_alloc.inc`) | the assembler's symbols | 19 macros, in any order, for several kernels of a file | Limits, skips, alignment and reuse in any order; symbols outlive kernels | No register with two names; the announced counts cover what is used and respect the limits |
| Debug macros (`examples/gfx8/debug.inc`) | `dbg_i`, exec, the registers it is kept in, vcc, debug pointer and wave number per lane | `dump_*`, `dbg_store` | Ring of 16 at assembly time; exec changed and restored in the middle of a kernel; the waves of a group share one buffer | The kernel's exec comes back, and its vcc survives the dumps; the buffer shows what was dumped |
| `amdphdrs/amdphdrs.c` | two files, the ELF descriptor | copy, two scans over the sections | Short reads and writes; several or no matching sections; failing updates and unchecked calls | The output is the input with matching program headers |
| `bin/sp3_to_mc.pl` | scope stack, parameter list | one step per line | One `end` for three constructs; state from one function to the next | Every `end` closes its own scope; a name is escaped where it is a parameter and the script looks for one |
| `examples/common/half.cpp` | none | `f2h`, `h2f` | Masks and wrap-around at the edges of the range | `f2h` undoes `h2f`; the programs' sums agree |
| `examples/api/*` | a row of LLVM objects, output streams | assemble or decode one block | Objects a target does not have; progress of the decoding loop; two buffered streams in a row | Nulls do not pass unnoticed; the whole object is printed; the whole stream is decoded once; the loop ends |
| CMake files | none | - | - | - |

Interaction: a program derives from `Dispatch` and is called back by `Run`
(`SetupCodeObject`, `Setup`, `Verify`).  `Dispatch` is called back by HSA during
iterations.  `Dispatch` and the command processor share the ring and the
signals.  Program and kernel share the argument block and the buffers.  The
macros share one symbol table.

## Modules

| Module | Models | Kind |
|---|---|---|
| `KernelCall` | what one call of `Run` promises its caller | abstract specification |
| `Dispatch` | the launch path, with the command processor | detailed specification, implements `KernelCall` |
| `DispatchInv`, `DispatchProofs` | the inductive invariant of `Dispatch` and the theorems | proofs |
| `Discovery` | `Dispatch::Init` and its callbacks | component |
| `DiscoveryProofs` | the inductive invariant of `Discovery` and its theorems | proofs |
| `Example` | the seven programs, their kernels' interface, buffers and arguments | component, uses `KernelCall` |
| `DppReduceKernel` | `dpp_reduce.s`, instruction by instruction | component |
| `MemRealtime` | the two waiting kernels | component |
| `Half` | `half.cpp` and the loops of the two fp16 programs | component |
| `KernelProofs` | the invariants of these three and their theorems | proofs |
| `ExampleKernels` | the programs together with these kernels | composition of the four components above |
| `ExampleProofs` | the invariant of `Example`, and what the composition implements and keeps | proofs |
| `GprAlloc` | the macros of `gpr_alloc.inc` | component |
| `GprAllocProofs` | the inductive invariants of `GprAlloc` and its theorems | proofs |
| `Amdphdrs`, `AmdphdrsProofs` | `amdphdrs.c`, with the files and libelf as far as it uses them | component and proofs |
| `Sp3ToMc` | `sp3_to_mc.pl`, with the author and the assembler | component |
| `LlvmApi` | the assembling and the disassembling program | component |
| `DebugMacros`, `DebugMacrosProofs` | `debug.inc` and its preparation in `gds_test.s` | component and proofs |
| `ToolsProofs` | the invariants of `Sp3ToMc` and `LlvmApi` and their theorems; the stand-alone tools beside each other | proofs |
| `MC*` | constants for TLC | model checking |

### KernelCall and Dispatch

`KernelCall` has two variables, the state of each call's kernel and the outcome
of the call.  It says that a kernel is submitted at most once, executes only
after that, and that success is reported only for an executed kernel, whereas
failure may be reported at any time, even while the kernel goes on to execute.

`Dispatch` keeps the members of the class under their own names.  `phase` says
which step of `Run` comes next.  A queue is identified by the call that created
it, since every `Init` makes a new queue and a new signal.  Host actions follow
the stores of the code: the group segment size, the release store of the header
word, and the doorbell are three actions, because the command processor may act
between them.  `ClientCall` is any of the setters in any order and number.
`Wait` is split into the return of the HSA wait and the test of the clock.  The
command processor (`Fetch`, `EndKernel`, `Retire`) is external: it may take a
packet as soon as the header is valid, must do so when the doorbell is rung,
makes stores visible and decrements the packet's own signal when the kernel has
ended, and invalidates the slot.

Uninitialized members are arbitrary at `Init`: `group_static_size` and
`group_dynamic_size` start with any value of `Segments`.  32-bit addition wraps
at `Word`.

### Discovery

The machine (its agents and regions) is a constant choice of the initial state.
Each callback is one step, and each HSA call may fail.  `FindRegions` ignores
the status of its three queries: after a failed one `segment_id` and `flags`
have any value (`Readings`), whereas `host_accessible_region` keeps `false`.
The history variables `misread` and `denied` hold the regions about which a query has
failed, and what is promised of a region depends on them
(`FailuresMisleadLocally`, `ReadyIsUsable`): a failure in an early call of
`Init` may leave an unfit region that a later, successful call keeps.  The model
is of a build with assertions: `phase = "assert"` is the failing assertion of
`SetAgent` or `SetCpuAgent`, and `phase = "abort"` that of line 145.

### Example

A program is the list of calls its `Setup` makes, a kernel the offsets it loads
and the number of work-items it takes.  Of the contents of a buffer only the
origin is kept: junk, the client's input, the kernel's result, or something
else.  A buffer's two blocks are one when there is no device-local region.  A
launch is a step of `KernelCall`, so what is concluded here rests on what is
proved of `Dispatch`, not on a second model of it.  `LoadCodeObjectFromFile` is
the first step of every program.  `phase = "crashed"` stands for a null `Buffer`
that is used, and for HSA memory that `AllocateBuffer` gives to `free` when only
its second allocation has failed (`dispatch.cpp:405`).

### The kernels and ExampleKernels

`ExampleKernels` extends `Example`, `MemRealtime`, `DppReduceKernel` and `Half`.
A kernel takes its steps between `RunDispatch` and `Execute`, also after the
program has given up waiting, and `Execute` is only possible when it has ended.  The loops of the fp16 programs are steps of their
`Setup` and `Verify`: `Fill` of `Example` follows the last turn of the filling
loop, and the result of the comparing loop decides what `Compare` reports.

`MemRealtime` adds and compares a 64-bit time in two registers, each with `Word`
values; the clock may advance between any two instructions.  The kernel of
`s_memrealtime_inline.cl` has the loop of its source text.

`DppReduceKernel` has the instructions of `dpp_reduce.s` with their row and bank
masks.  A register read through a DPP control sooner than two wait states after
it was written yields the new value or the old one, lane vectors as a whole.

`Half` has floats and halves as sign, exponent and fraction, and the masks of
`half.cpp` as remainders.  The numbers of the programs are multiples of 1/4, on
which IEEE addition and rounding (external) are exact.

### GprAlloc

The state is the symbol table.  Symbols live as long as the file, so `symbol`
and `once` survive `.GPR_ALLOC_BEGIN`.  A name's value carries the size of the
allocation, which the assembler does not keep and only the properties look at.
`using` (history) is the set of names the current kernel has asked for.  An
`.error` ends the assembly.

### Amdphdrs

The copy is one action per system call, with the counts they may return; a byte
is told apart by its place in the input, so that a shift or a leftover of the
buffer shows.  A read is short if it ends before the block and the input do, a
write if it leaves out something of the input, or does not fill the block
although more follows (`Needed`).  The section table is chosen when the copy is
opened, since nothing before depends on it, and sections of one name may come
several times.  libelf's layout is external: sections behind the headers, each at its alignment,
recomputed by every `elf_update`, which may also report an error by -1.  The
second scan is one action per section.  Where a scan uses an index, a header or
a name that an unchecked call has not delivered, the model ends in
`phase = "undefined"`; where the address of a section is not taken over (lines
184 and 212, unchecked as well), `shdr_failed` remembers it.

### Sp3ToMc

A line is its kind and an operand: a name, and whether white space or a comma
follows it or anything else.  The script only escapes the former, so that the
last operand of a call `f(v1, reg)`, a condition `if (reg)` or an index `v[reg]`
stays as it is; the property says so too.  Three parties keep a stack each: the
author what he has opened (`source`), the script `@scope`, and the assembler the
directives it was given (`gas`).  `EndLine` pops all three, the last only if the
directive fits.  The regular expressions are taken to recognise their lines, and
functions are not nested, which the assembler's macros would not allow as meant.

### LlvmApi

The two programs create objects in a fixed order; `Objects` says what each call
dereferences and which results are tested.  Any object may come out null: if it
is tested the program ends with the status of the source, otherwise it goes on
until the object is used (`"undefined"`).  The decoder reports any size of
`Sizes` that fits what is left of the stream, as LLVM's decoders do.  Between
what is emitted and the string that is printed lie two buffers, which hand on
what they like when they like.  `Parse`, `ResetBOS`, `FlushDataStream` and
`PrintData` are the steps of `assemble.cpp`, in the order of `After`;
`disassemble.cpp` flushes neither.

### DebugMacros

The text of a kernel is a sequence of kernel steps and macros.  `dbg_i` is a
function of the place in the text, as the assembler computes it once for all
waves.  Each wave enters with all its lanes or without the last ones, and the
lanes that have no work-item hold an arbitrary wave number, because
`gds_test.s` computes it under the exec of the entry and uses it under all of it.

A macro is three or four steps of a wave, and `macro` says how far it has come:
`SaveExec` puts exec into two scalar registers (`dbg_exec`) and turns all lanes
on, `Dump` or `Pick` and `Store` work under that exec or under the one the
comparison leaves, and `RestoreExec` takes it back.  The address computation
before the text has the same form.  `vcc` is written by the comparison, by the
additions and by the kernel's own branches.  `wanted` (history) is what the
kernel chose, and `KernelUndisturbed` compares it with both.  Nothing saves vcc
over a `dbg_store`; the property says only what the code gives, that it survives
dumps.

### MCTools

The stand-alone parts share nothing, so `MCTools` checks them in one run, in
which a behaviour is one of the parts (`tool`).  Modules that are extended next
to others put a prefix before `Init`, `Next`, `Spec` and `TypeOK`.

## Runs

| Run | Bounds | Shows |
|---|---|---|
| `dispatch_run` | 2 calls, queue of 2, shapes of 1-3 dimensions, sizes modulo 4 | the launched packet is the requested one; calls do not mix, also after a timeout; refinement of `KernelCall` |
| `dispatch_live` | 2 calls, fairness | every call returns, every submitted kernel runs |
| `dispatch_hang` (violation) | kernels may hang | `Wait` has no limit |
| `dispatch_group` (violation) | 1 call | an unset dynamic size is launched |
| `example_run` | 7 programs, 16 region combinations, any HSA failure; registers of 3 values; 65 input vectors of 64 lanes; 64 halves | only errors fail; arguments and copies agree; crashes only after errors; the prefix sum is one; the waiting kernels wait long enough and end; the halves add up, and every half returns from a float |
| `example_workgroup` (violation) | same | the required work-group size is not the one set |
| `discovery` | 2 calls of `Init`, up to 3 agents and 3 regions of 6 kinds, 4 of both together, all orders, any call and any query failing | discovery is a function of the machine, but for regions about which a query has failed |
| `gpr_one` | 1 kernel, 3 names, real register limits | no overlap; counts cover; the waves limit holds for vector registers |
| `gpr_once` (violation) | 2 kernels, 2 names | in a second kernel `.SGPR_ALLOC_ONCE` returns the first one's registers |
| `gpr_reserve` (violation) | 1 kernel | the reserved pairs are counted after the last check |
| `tools` | amdphdrs: blocks of 2 bytes, inputs up to 5, older outputs up to 8, all sequences of up to 3 sections; sp3: 2 names, 3 open constructs; LLVM: a stream of 12 bytes, sizes 4 and 8, any missing hook; debug: 2 waves of 2 lanes, a ring of 2, two texts | the copy is only damaged by a short call, the headers match the written file; `end` closes what the author closes, names are escaped in their function; nulls are noticed or undefined, the object is printed wholly, the stream is decoded once and wholly; exec and vcc are the kernel's between the macros and the debug buffer shows the dumps |
| `amdphdrs_update` (violation) | same | a failing `elf_update` passes for a success |

Why the bounds are enough.  Two calls are the smallest number for which an
abandoned kernel meets a later call; queues are per call, so a third adds no
interaction, and the proofs cover any number.  The queue has two slots because
a call uses one.  The sizes are taken modulo 4 so that the sum of line 198
wraps.  The clock counts to one beyond `TIMEOUT`: only that comparison is ever
made.  Three agents are enough for two of a kind and one other, in every order;
three regions for two of a kind with another between.  Regions are only looked
at on a machine with a GPU, so four of both together leave out no order of three
regions.  In `GprAlloc` the
register limits are the real ones, and the sizes are chosen to land just below,
on and above them; three names are enough for two that overlap after a third
was reused.  In `Amdphdrs` two and a half blocks have a first, an inner and a
partial last block, and three sections put each segment before, between and
after others, and a name twice.

Registers of three values have sums with a carry, without one, and beyond the
pair, and high halves that are smaller, equal and greater.  The instructions of
`dpp_reduce.s` only add lanes, so its result is linear in the input: the vectors
with a single 1 decide it, and the program's own vector is added.  The indices
of the fp16 programs run over all 64 elements, and `HalfInverse` over all halves.
In `Sp3ToMc` three levels hold a construct inside another inside a function, and
the proofs cover any depth.  The stream of `disassemble.cpp` has 12 bytes, its
instructions 4 or 8.  In `DebugMacros` a ring of two is gone around and filled
exactly, and one wave is the wanted one and one is not; nothing depends on the
length of the ring but the remainder.

## Fairness

`FairSpec` assumes that the host thread keeps executing `Run` (weak fairness of
its steps; the wait is only sure to return when the signal is 0, because
`hsa_signal_wait_acquire` has no timeout), that the command processor takes a
packet whose doorbell was rung and retires a kernel that has ended, and that
kernels end.  No fairness is put on the client's setters, on time, or on a
spurious return of the wait.  `HangSpec` drops the assumption that kernels end,
and lets processor time pass.

`KernelsSpec` of `ExampleKernels` assumes that the device goes on with the wave
it executes (`RealtimeStep`) and that time passes (`ClockStep`), and nothing of
the host.  `ToolSpec` of `MCTools` assumes that the process of an LLVM program
keeps running (`ApiStep`).

## What is proved

`DispatchProofs` holds for any number of calls, any queue size, any word size
and any set of extents, under the named assumptions of `Dispatch` on its
constants:

| Theorem | Statement |
|---|---|
| `TypeCorrect` | `Spec => []TypeOK` |
| `VerifySafe` | `Spec => []VerifyAfterCompletion` |
| `LaunchSafe` | `Spec => []LaunchedAsAsked` |
| `PacketStable` | `Spec => PublishedPacketStable` |
| `Implementation` | `Spec => KC!Spec` |

`VerifyAfterCompletion` is not inductive: nothing in it says that a signal at 0
has been decremented by the kernel of this call.  `DispatchInv!IInv` adds the
missing links: which calls have queues (`CallInv`), that the queues of later
calls are untouched (`FreshInv`), the position of the command processor against
the read and write index (`QueueInv`), what a packet holds at each stage of its
construction (`PacketInv`, `BuildInv`), and that a signal is 0 exactly when the
kernel of the same number has retired (`WaitInv`).  `IInv` was checked by TLC
for two and three calls before it was proved.  The proof that a step preserves
it has one lemma per group of actions and one step per conjunct.

`Implementation` maps the ring, the header of the slot and the command
processor's position to the abstract state of the kernel (`Kernel`): published
from the header store on, executed from the retirement on.

`GprAllocProofs` holds for any sets of names, sizes, alignments, limits and
starts, and any number of macros in a file:

| Theorem | Condition | Statement |
|---|---|---|
| `GprTypeCorrect` | | `Spec => []TypeOK` |
| `GprNoOverlap` | `NoCarry` | `Spec => []NoOverlap` |
| `GprCountsCover` | `NoCarry` | `Spec => []CountsCover` |
| `GprMinWaves` | no maximum above 10 | `Spec => []MinWavesForVgprs` |

`NoCarry` says that the file does not use `.SGPR_ALLOC_ONCE` or has one kernel;
without it the run `gpr_once` violates `NoOverlap`.  The theorems keep the two
assumptions of `Next` about a file's text: a name gets registers once in a
kernel, and `.xGPR_ALLOC_FROM` does not go back.  `NoOverlap` becomes inductive
with `Below`: what is named, now or by an earlier `.SGPR_ALLOC_ONCE`, lies below
`NEXT_FREE` of its file; an allocation is at `NEXT_FREE` or above, and a name
that changes hands leaves the invalid value, which has no register.
`CountsCover` follows because `.GPR_ALLOC_END` never announces less than
`NEXT_FREE`.  `MinWavesForVgprs` needs that the registers that are left always
are those of the minimum that was set last, and that the two limits are ordered.

`DiscoveryProofs` holds for any machine (any number of agents and regions), any
number of calls of `Init`, and failures anywhere:

| Theorem | Statement |
|---|---|
| `DiscoveryTypeCorrect` | `Spec => []TypeOK` |
| `DiscoverySetOnce` | `Spec => []SetOnce` |
| `DiscoveryMisleadsLocally` | `Spec => []FailuresMisleadLocally` |
| `DiscoveryUsable` | `Spec => []ReadyIsUsable` |

`FailuresMisleadLocally` speaks of the end of a successful call only.  Its
strengthening says, in the middle of an iteration, what a handle can be: an
agent is the first of its kind, and is missing only while none has been passed
in this call (`IsEarliest`); a region is of its kind or was mistaken for it, and
it is the last one passed in this call as soon as one has been passed that was
not missed, but may be an earlier call's before (`IsLatest`).  What may have been
mistaken and what missed differs: a failed query for host access makes a region
that is missed as a local one and mistaken for one of the device's own.

The invariants of both were checked by TLC on the instances of `gpr_one` and
`discovery` before they were proved.

`KernelProofs` holds for registers with any number of values
(`WordAssumption`), and for any input vectors of integers (`InputsAssumption`):

| Theorem | Statement |
|---|---|
| `RealtimeTypeCorrect` | `RtSpec => []RtTypeOK` |
| `RealtimeWaits` | `RtSpec => []WaitsLongEnough` |
| `RealtimeLeaves` | `RtSpec => LeavesWhenReached` |
| `PrefixSums` | `DppSpec => []PrefixSum` |
| `HalvesInverse` | `HalfSpec => []HalfInverse` |
| `HalfTypeCorrect` | `HalfSpec => []HalfTypeOK` |
| `SumsAreRight` | `HalfSpec => []SumsAgree` |

The argument for the waiting kernels is arithmetic: adding with carry is addition
modulo the square of `Word`, and the three branches are the order of the pairs as
whole numbers (`AsmComparesWhole`).  `Reached` is the rest of the invariant: the
finish time is the launch's, and a wave that has ended has read a time that is
not before it.

`Partial` says what `v1` holds before each instruction of `dpp_reduce.s`: the sum
of a window of two, three, four and then eight lanes that ends at the lane,
within its row; then the prefix sums of each row, of each half, and of the whole
wave.  `Settled` says that a register that the next instruction reads shifted is
old enough; without it `Partial` would not be inductive, since a read that comes
too early yields either value.

For the halves the numbers of the programs are followed through the conversions:
the element `n` is the half of `4n` and `5n` quarters, and the sum that of `9n`.
A number of quarters below 2048 keeps all its bits in a half (`QuartersKept`), by
the power of two that it lies behind.

`ExampleProofs` holds for any set of the seven programs, on machines with and
without the two local regions, with any failures:

| Theorem | Statement |
|---|---|
| `ExampleTypeCorrect` | `Spec => []TypeOK` |
| `OnlyErrorsMakeFail` | `Spec => []OnlyErrorsFail` |
| `CrashesNeedErrors` | `Spec => []CrashNeedsError` |
| `VerifiesTheDevice` | `Spec => []VerifyReadsDevice` |
| `ArgumentsAreSeen` | `Spec => []KernelSeesItsArguments` |
| `KernelsImplementExamples` | `KernelsSpec => Spec` |
| `KernelsTypeCorrect` | `KernelsSpec => []TypesOK` |
| `KernelsSafe` | `KernelsSpec =>` the other safety properties of `example_run` |

None of the properties is inductive, because all depend on the calls that
`Setup` has made so far.  First it is proved of each program and its kernel that
they fit (`Sound`): a buffer is allocated before it is used and only once, filled
before it is copied, the arguments are pushed in one go and are those the kernel
loads, and the sizes are those of its work-items.  From there on the proof speaks
of any program with these qualities.  `EInv` says what the calls before `at` have
left: `Arguments` the block and what has been pushed, `Placed` each buffer,
`Sizes` the launch, `Results` the output; `Control` orders the phases and the
kernel.  The whole implements the programs alone because each step of it is a
step of every part, or leaves the part as it is; that the comparison of halves
comes out well is `SumsAreRight`.

`ToolsProofs` holds for any set of names and any bound on the depth in `Sp3ToMc`,
and in `LlvmApi` for a stream of any length, objects of any size and instructions
of any sizes of at least one byte (`StreamAssumption`):

| Theorem | Statement |
|---|---|
| `Sp3TypeCorrect` | `Sp3Spec => []Sp3TypeOK` |
| `Sp3Nesting` | `Sp3Spec => []NestingKept` |
| `Sp3Escaping` | `Sp3Spec => EscapedInItsFunction` |
| `DecodesAll` | `ApiSpec => []DecodesWholeStream` |
| `NullsNoticed` | `ApiSpec => []NullsAreNoticed` |
| `PrintsAll` | `ApiSpec => []PrintsWholeObject` |
| `ApiTypeCorrect` | `ApiSpec => []ApiTypeOK` |
| `ToolsTypeCorrect` | `ToolSpec => []TypesOK` |

`NestingKept` does not mention the script's stack.  `Aligned` does: the three
stacks have the same height and agree at every level.  `ArgsOfFunction` says that
at most one function is open and that the parameter list is its list, or empty.

`DecodesWholeStream` speaks of the end only.  `Tiled` is its invariant: what has
been decoded covers exactly the bytes before `Index`, each once.  For the nulls,
`NullsUnused` says that an object that is missing was one of those the source
does not test, and that no object made so far was made from it.  `Emptied` says
how far the bytes of the object have come: past the first buffer after
`ResetBOS`, past both after `FlushDataStream`.  `Streams` bounds what each stream
holds by the one before it.

`DebugMacrosProofs` holds for any waves, any width of a wave, any size of the ring
and any text (`DebugAssumption`):

| Theorem | Statement |
|---|---|
| `KernelKeepsState` | `DebugSpec => []KernelUndisturbed` |
| `StoresShowDumps` | `DebugSpec => []StoredIsDumped` |
| `DebugTypeCorrect` | `DebugSpec => []DebugTypeOK` |

`RingHolds` says that every register of the ring of the wanted wave holds the last
dump that went into it; `Counted` that this wave has as many dumps behind it as
there are before its place in the text, and that its lanes' addresses lie behind
as many blocks as there are stores; that the saved exec is the kernel's while a
macro is under way; `Numbered` that a work-item's lane has the
number of its wave, so that no other wave stores; `Blocks` that every block that
has been passed still shows what it showed.  A row of a block determines its lane
and its row (`SlotUnique`), so blocks never meet.  `Extents` bounds the addresses
by the place in the text.

`AmdphdrsProofs` holds for blocks, inputs and older outputs of any length, any
tables of sections and headers of any size, under `AmdphdrsAssumption` and
`TablesAssumption`:

| Theorem | Statement |
|---|---|
| `CopyIntact` | `Spec => []OnlyShortCallsDamage` |
| `SegmentsApart` | `Spec => []SegmentsDisjoint` |
| `HeadersMatch` | `Spec => []SegmentsMatchFile` |
| `AmdphdrsTypeCorrect` | `Spec => []TypeOK` |

`CopyInv` says what a copy without short calls looks like before a read (the
output begins with what has been read) and before a write (the buffer holds the
next block).  `SegInv` says that every address that has been given lies below
the next one; libelf's layout changes offsets only (`LayoutEffect`).  `MatchInv`
says that during the second scan every section already is where the last layout
will put it, and that each header describes the last section of its name so far.
The layout is a recursion over the sections.  That it depends on the sizes and
alignments only is enough for the headers; that it has a solution, and that this
consists of numbers, is proved with the least section at which it would not
(`OffsetsExist`, `OffsetsType`).

## What is only model-checked

Liveness (`RunTerminates`, `SubmittedKernelRuns`, `LoopEnds`, `ApiEnds`) needs
fairness and ENABLED, which the prover does not handle.  Every
invariant and every action property that a run expects to hold is proved.  The
properties that a run expects to be violated are false, and the run is the
counterexample.

In `Half` the powers of two are known to the provers for each exponent by
itself, so its loops are proved for the 64 elements that the programs have.

## What is not modelled

- Error texts and output.
- The contents of the code object's file, and a file that grows while it is
  read (`dispatch.cpp:265`).
- The addresses of buffers, and `prefer_gpu_local = false`, which no program
  uses.
- `GetTimestampFrequency`, which nothing calls; Windows' variant of the header
  store, which is a full barrier and so has fewer behaviours.
- What `ds_bpermute.s` and `asm-kernel.s` compute: it is "the result" of
  `Example`.  `gds_test.s` is modelled as far as it prepares the debug macros.
- What libelf makes of a damaged copy; `amdphdrs` with its input as its output;
  the constant fields of the headers.
- Memory that is not sequentially consistent: that a header stored without
  release order could be seen before the packet's fields.
- What follows when `amdphdrs` uses a header or a name it has not got, and a
  section that has not got its address, beyond noticing both.
- A partial wave beside the wanted one in `DebugMacros`, in what the debug
  buffer shows (`StoredIsDumped` assumes the others full).
- Halves and floats outside the range where `f2h` and `h2f` are inverse.
- The substitutions of `sp3_to_mc.pl` that need no state (operators, `var`,
  calls, the items of a loop).
- How much of the disassembled text `formatted_raw_ostream` has handed on when
  it is printed (`disassemble.cpp:188`): any part, in `LlvmApi`.
- The build files, which have no state of their own.

## Plan

Done, in this order: the launch with its refinement and proofs; discovery and
the register allocator with their proofs; the example programs; `amdphdrs`; the
kernels and conversions of the examples; the translator, the LLVM programs and
the debug macros; the proofs of the kernels, of the programs and of the two
together, and of all the tools.

Left, in order of value:

1. `amdphdrs` on one file for input and output, with the copy's own writes
   moving the end that is read towards.
2. The rest of `gds_test.s`: the counters in the global data share, which the
   waves of a group use at the same time.
3. Proofs: the register limits of `gpr_alloc.inc` up to the reserved pairs, where
   the code is right; that a later call of `Run` on one object does not depend on
   what an abandoned one left (`Dispatch`), as a refinement of its own.
