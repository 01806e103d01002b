------------------------------ MODULE Dispatch ------------------------------
(***************************************************************************)
(* amd::dispatch::Dispatch (examples/common/dispatch.cpp): the host object *)
(* that creates an HSA queue and a completion signal, writes one kernel    *)
(* dispatch packet, publishes it, waits and verifies; and the device's     *)
(* command processor, which consumes the packet and runs the kernel at the *)
(* same time as the host goes on.                                          *)
(*                                                                         *)
(* The host is the control flow of Run(): `phase' is the next member       *)
(* function (or, inside RunDispatch and Wait, the next shared access) to   *)
(* execute.  The client's Setup() and Verify() overrides are open here:    *)
(* Setup may make the Dispatch calls in any order and any number of times. *)
(* Module Example closes them with the programs of the repository.         *)
(*                                                                         *)
(* Run() is a public member function and may be called again on the same   *)
(* object, also while the kernel of an earlier, timed-out call is still on *)
(* the device.  Every HSA object a call creates is named by the call.      *)
(***************************************************************************)
EXTENDS Integers

CONSTANTS
  MaxRuns,       \* bound: calls of Run() on one object
  QueueSize,     \* queue->size
  TIMEOUT,       \* dispatch.cpp:330, in clock ticks
  MaxClock,      \* bound: clock() is not followed beyond this
  Extents,       \* grid and workgroup sizes <<x, y, z>> a client may ask for
  Segments,      \* group segment sizes, and what an unset uint32_t may hold
  Word           \* 2^32: group_segment_size is a uint32_t

Unit == <<1, 1, 1>>
NULL == 0
Runs == 1 .. MaxRuns

ASSUME RunsAssumption    == MaxRuns \in Nat
ASSUME QueueAssumption   == QueueSize \in Nat \ {0}
ASSUME ClockAssumption   == TIMEOUT \in Nat /\ MaxClock \in Nat
ASSUME ExtentsAssumption == Extents \subseteq Nat \X Nat \X Nat /\ Unit \in Extents
ASSUME SegmentAssumption == /\ Word \in Nat \ {0}
                            /\ Segments \subseteq 0 .. Word - 1
                            /\ 0 \in Segments

VARIABLES
  \* members of Dispatch, and locals of Run() and Wait()
  phase,               \* where Run() stands
  run,                 \* the number of calls of Run() so far
  queue, signal,       \* HSA handles; NULL before the first Init()
  packet_index,
  group_static_size,   \* not initialized by the constructor
  group_dynamic_size,  \* not initialized by the constructor
  result,              \* Wait(): the value the last wait returned
  clk,                 \* Wait(): clock() - beg
  outcome,             \* what each call of Run() returned
  \* HSA objects, shared with the device
  write_index, doorbell, ring,   \* per queue
  sigval,                        \* per signal
  \* the device's command processor, per queue
  read_index, cp, launch, visible,
  \* history: what the client asked of each call, for the properties
  asked

hostVars   == <<phase, run, queue, signal, packet_index, group_static_size,
                group_dynamic_size, result, clk, outcome>>
queueVars  == <<write_index, doorbell, ring>>
deviceVars == <<read_index, cp, launch, visible>>
vars       == <<hostVars, queueVars, sigval, deviceVars, asked>>

-----------------------------------------------------------------------------
(* The packet. *)

NoHeader == [type |-> "INVALID", barrier |-> 0,
             acquire |-> "NONE", release |-> "NONE"]

\* The 16 bits RunDispatch assembles.
DispatchHeader == [type |-> "KERNEL_DISPATCH", barrier |-> 1,
                   acquire |-> "SYSTEM", release |-> "SYSTEM"]

Headers == {NoHeader, DispatchHeader}

Packet ==
  [header : Headers, setup : 0 .. 3, workgroup : Extents, grid : Extents,
   group : 0 .. Word - 1, kernel_object : Runs \cup {NULL},
   kernarg_address : Runs \cup {NULL}, completion_signal : Runs \cup {NULL}]

\* A slot of a new queue: the header is invalid, the rest is whatever the
\* ring's memory holds.
FreshSlot ==
  [header |-> NoHeader, setup |-> 0, workgroup |-> Unit, grid |-> Unit,
   group |-> Word - 1, kernel_object |-> NULL,
   kernarg_address |-> NULL, completion_signal |-> NULL]

\* InitDispatch: memset of all but the first four bytes, then the defaults.
ClearedSlot(slot, sig) ==
  [header |-> slot.header, setup |-> slot.setup, workgroup |-> Unit,
   grid |-> Unit, group |-> 0, kernel_object |-> NULL,
   kernarg_address |-> NULL, completion_signal |-> sig]

\* packet_index & queue_mask; HSA queue sizes are powers of two.
Slot(index) == index % QueueSize

\* *aql, and an assignment to it.
Aql == ring[queue][Slot(packet_index)]
WriteAql(p) == ring' = [ring EXCEPT ![queue][Slot(packet_index)] = p]

\* Mutant: the z test is nested in the y test.
Dimensions_Mut(grid) ==
  IF grid[2] > 1 THEN IF grid[3] > 1 THEN 3 ELSE 2 ELSE 1

\* RunDispatch: the z test overrides the y test.
Dimensions(grid) ==
  IF grid[3] > 1 THEN 3 ELSE IF grid[2] > 1 THEN 2 ELSE 1

-----------------------------------------------------------------------------
(* What the client asked for, kept per call of Run().                      *)

NoWish == [workgroup |-> Unit, grid |-> Unit, kernarg |-> NULL,
           static |-> 0, dynamic |-> 0, explicit |-> FALSE]

Wish == [workgroup : Extents, grid : Extents, kernarg : Runs \cup {NULL},
         static : Segments, dynamic : Segments, explicit : BOOLEAN]

Ask(field, value) == asked' = [asked EXCEPT ![run][field] = value]

\* A dynamic size asked for in an earlier call stays in the object.
CarriedWish ==
  IF run = 0 THEN NoWish
  ELSE [NoWish EXCEPT !.dynamic = asked[run].dynamic,
                      !.explicit = asked[run].explicit]

-----------------------------------------------------------------------------
(* The host: Run() calls its member functions in this order. *)

Phases == {"idle", "Init", "InitDispatch", "SetupExecutable", "Setup",
           "GroupSize", "Header", "Doorbell", "Wait", "Check", "Verify"}

\* A member function returned false, or Verify() returned: Run() reports.
Return(report) ==
  /\ phase' = "idle"
  /\ outcome' = [outcome EXCEPT ![run] = report]

StartRun ==
  /\ phase = "idle"
  /\ run < MaxRuns
  /\ run' = run + 1
  /\ phase' = "Init"
  /\ outcome' = [outcome EXCEPT ![run + 1] = "pending"]
  /\ asked' = [asked EXCEPT ![run + 1] = CarriedWish]
  /\ UNCHANGED <<queue, signal, packet_index, group_static_size,
                 group_dynamic_size, result, clk, queueVars, sigval, deviceVars>>

\* Mutant: create the signal only once, the way SetAgent guards the agent.
NewSignal_Mut(old) == IF old = NULL THEN run ELSE old

\* hsa_signal_create: every call of Init() makes a signal of its own.
NewSignal(old) == run

(* Dispatch::Init.  `reached' counts the objects created before Init()     *)
(* returned: it may fail before the queue, between queue and signal, or    *)
(* after both (no region iteration, no kernarg region).  The discovery of  *)
(* agents and regions is module Discovery.                                 *)
InitHsa ==
  /\ phase = "Init"
  /\ \E reached \in 0 .. 2 :
       /\ queue'  = IF reached >= 1 THEN run ELSE queue
       /\ signal' = IF reached = 2 THEN NewSignal(signal) ELSE signal
       /\ \/ Return("Failed")
          \/ reached = 2 /\ phase' = "InitDispatch" /\ UNCHANGED outcome
  /\ UNCHANGED <<run, packet_index, group_static_size, group_dynamic_size,
                 result, clk, queueVars, sigval, deviceVars, asked>>

\* Mutant: the header is written with the other defaults.
InitialPacket_Mut(slot) ==
  [ClearedSlot(slot, signal) EXCEPT !.header = DispatchHeader]

InitialPacket(slot) == ClearedSlot(slot, signal)

InitDispatch ==
  /\ phase = "InitDispatch"
  /\ packet_index' = write_index[queue]
  /\ write_index' = [write_index EXCEPT ![queue] = @ + 1]
  /\ ring' = [ring EXCEPT ![queue][Slot(packet_index')] = InitialPacket(@)]
  /\ phase' = "SetupExecutable"
  /\ UNCHANGED <<run, queue, signal, group_static_size, group_dynamic_size,
                 result, clk, outcome, doorbell, sigval, deviceVars, asked>>

\* The code object, the executable and its symbol belong to this call; the
\* last two HSA calls read the kernel's handle and its static group size.
SetupExecutable ==
  /\ phase = "SetupExecutable"
  /\ \/ /\ Return("Failed")
        /\ UNCHANGED <<group_static_size, ring, asked>>
     \/ \E size \in Segments :
          /\ group_static_size' = size
          /\ WriteAql([Aql EXCEPT !.kernel_object = run])
          /\ Ask("static", size)
          /\ phase' = "Setup"
          /\ UNCHANGED outcome
  /\ UNCHANGED <<run, queue, signal, packet_index, group_dynamic_size, result,
                 clk, write_index, doorbell, sigval, deviceVars>>

-----------------------------------------------------------------------------
(* The calls a client's Setup() makes. *)

InSetup ==
  /\ phase = "Setup"
  /\ UNCHANGED <<run, queue, signal, packet_index, group_static_size, result,
                 clk, write_index, doorbell, sigval, deviceVars>>

SetWorkgroupSize(size) ==
  /\ InSetup
  /\ WriteAql([Aql EXCEPT !.workgroup = size])
  /\ Ask("workgroup", size)
  /\ UNCHANGED <<phase, outcome, group_dynamic_size>>

SetGridSize(size) ==
  /\ InSetup
  /\ WriteAql([Aql EXCEPT !.grid = size])
  /\ Ask("grid", size)
  /\ UNCHANGED <<phase, outcome, group_dynamic_size>>

\* The only way to ask for group memory beyond the kernel's own.
SetDynamicGroupSegmentSize(size) ==
  /\ InSetup
  /\ group_dynamic_size' = size
  /\ asked' = [asked EXCEPT ![run].dynamic = size, ![run].explicit = TRUE]
  /\ UNCHANGED <<phase, outcome, ring>>

\* hsa_memory_allocate gives a block of this call, or the client gives up.
AllocateKernarg ==
  /\ InSetup
  /\ WriteAql([Aql EXCEPT !.kernarg_address = run])
  /\ Ask("kernarg", run)
  /\ UNCHANGED <<phase, outcome, group_dynamic_size>>

SetupReturns ==
  /\ InSetup
  /\ \/ Return("Failed")
     \/ phase' = "GroupSize" /\ UNCHANGED outcome
  /\ UNCHANGED <<group_dynamic_size, ring, asked>>

ClientCall ==
  \/ \E size \in Extents : SetWorkgroupSize(size) \/ SetGridSize(size)
  \/ \E size \in Segments : SetDynamicGroupSegmentSize(size)
  \/ AllocateKernarg

-----------------------------------------------------------------------------
(* RunDispatch, one action per access the device can see.                  *)

\* Mutant: the sum is formed in a wider type.
GroupSegmentSize_Mut == group_static_size + group_dynamic_size

\* uint32_t addition.
GroupSegmentSize == (group_static_size + group_dynamic_size) % Word

StoreGroupSize ==
  /\ phase = "GroupSize"
  /\ WriteAql([Aql EXCEPT !.group = GroupSegmentSize])
  /\ phase' = "Header"
  /\ UNCHANGED <<run, queue, signal, packet_index, group_static_size,
                 group_dynamic_size, result, clk, outcome, write_index,
                 doorbell, sigval, deviceVars, asked>>

\* The release store of header and setup, which hands the packet over.
StoreHeader ==
  /\ phase = "Header"
  /\ WriteAql([Aql EXCEPT !.header = DispatchHeader,
                          !.setup = Dimensions(Aql.grid)])
  /\ phase' = "Doorbell"
  /\ UNCHANGED <<run, queue, signal, packet_index, group_static_size,
                 group_dynamic_size, result, clk, outcome, write_index,
                 doorbell, sigval, deviceVars, asked>>

\* Mutant: ring with the number of packets the device has already consumed.
DoorbellValue_Mut(index) == index - 1

DoorbellValue(index) == index

\* The doorbell store, and the clock() at the head of Wait().
RingDoorbell ==
  /\ phase = "Doorbell"
  /\ doorbell' = [doorbell EXCEPT ![queue] = DoorbellValue(packet_index)]
  /\ clk' = 0
  /\ phase' = "Wait"
  /\ UNCHANGED <<run, queue, signal, packet_index, group_static_size,
                 group_dynamic_size, result, outcome, write_index, ring,
                 sigval, deviceVars, asked>>

-----------------------------------------------------------------------------
(* Wait: the signal is read by the HSA wait, the clock after it.  The wait *)
(* has no time limit of its own (~0ULL); HSA lets it resume at any time    *)
(* with whatever value the signal has.                                     *)

WaitReturns ==
  /\ phase = "Wait"
  /\ result' = sigval[signal]
  /\ phase' = "Check"
  /\ UNCHANGED <<run, queue, signal, packet_index, group_static_size,
                 group_dynamic_size, clk, outcome, queueVars, sigval,
                 deviceVars, asked>>

\* Mutant: one wait, and no test of its value.
Completed_Mut(value) == TRUE

Completed(value) == value = 0

CheckClock ==
  /\ phase = "Check"
  /\ \/ clk > TIMEOUT /\ Return("Failed")
     \/ clk <= TIMEOUT /\ Completed(result) /\ phase' = "Verify" /\ UNCHANGED outcome
     \/ clk <= TIMEOUT /\ ~Completed(result) /\ phase' = "Wait" /\ UNCHANGED outcome
  /\ UNCHANGED <<run, queue, signal, packet_index, group_static_size,
                 group_dynamic_size, result, clk, queueVars, sigval,
                 deviceVars, asked>>

\* The processor time of the process goes on while Wait() runs.
Tick ==
  /\ phase \in {"Wait", "Check"}
  /\ clk < MaxClock
  /\ clk' = clk + 1
  /\ UNCHANGED <<phase, run, queue, signal, packet_index, group_static_size,
                 group_dynamic_size, result, outcome, queueVars, sigval,
                 deviceVars, asked>>

\* The client's Verify() reads the results and compares them.
Verify ==
  /\ phase = "Verify"
  /\ \E report \in {"Success", "Failed"} : Return(report)
  /\ UNCHANGED <<run, queue, signal, packet_index, group_static_size,
                 group_dynamic_size, result, clk, queueVars, sigval,
                 deviceVars, asked>>

Host ==
  \/ StartRun \/ InitHsa \/ InitDispatch \/ SetupExecutable
  \/ ClientCall \/ SetupReturns
  \/ StoreGroupSize \/ StoreHeader \/ RingDoorbell
  \/ WaitReturns \/ CheckClock \/ Tick \/ Verify

-----------------------------------------------------------------------------
(* The command processor of queue q (external: HSA's packet processor, as  *)
(* the stores of RunDispatch and the wait of Wait rely on it).             *)

Head(q) == ring[q][Slot(read_index[q])]

\* A packet may be taken as soon as its header is valid, and must be once
\* the doorbell has been rung for it (see Fairness).
Fetch(q) ==
  /\ cp[q] = "idle"
  /\ read_index[q] < write_index[q]
  /\ Head(q).header.type = "KERNEL_DISPATCH"
  /\ launch' = [launch EXCEPT ![q] = Head(q)]
  /\ cp' = [cp EXCEPT ![q] = "running"]
  /\ UNCHANGED <<hostVars, queueVars, sigval, read_index, visible, asked>>

\* The last wave ends; its stores may still be in the device's caches.
EndKernel(q) ==
  /\ cp[q] = "running"
  /\ cp' = [cp EXCEPT ![q] = "ended"]
  /\ UNCHANGED <<hostVars, queueVars, sigval, read_index, launch, visible, asked>>

\* The release fence of the header's scope, the decrement of the packet's
\* completion signal, and the return of the slot.
Retire(q) ==
  /\ cp[q] = "ended"
  /\ visible' = [visible EXCEPT ![q] = (launch[q].header.release = "SYSTEM")]
  /\ sigval' = [sigval EXCEPT ![launch[q].completion_signal] = @ - 1]
  /\ ring' = [ring EXCEPT ![q][Slot(read_index[q])].header = NoHeader]
  /\ read_index' = [read_index EXCEPT ![q] = @ + 1]
  /\ cp' = [cp EXCEPT ![q] = "retired"]
  /\ UNCHANGED <<hostVars, write_index, doorbell, launch, asked>>

Device == \E q \in Runs : Fetch(q) \/ EndKernel(q) \/ Retire(q)

-----------------------------------------------------------------------------
Init ==
  /\ phase = "idle"
  /\ run = 0
  /\ queue = NULL
  /\ signal = NULL
  /\ packet_index = 0
  /\ group_static_size \in Segments
  /\ group_dynamic_size \in Segments
  /\ result = 1
  /\ clk = 0
  /\ outcome     = [r \in Runs |-> "none"]
  /\ write_index = [q \in Runs |-> 0]
  /\ doorbell    = [q \in Runs |-> -1]
  /\ ring        = [q \in Runs |-> [s \in 0 .. QueueSize - 1 |-> FreshSlot]]
  /\ sigval      = [s \in Runs |-> 1]
  /\ read_index  = [q \in Runs |-> 0]
  /\ cp          = [q \in Runs |-> "idle"]
  /\ launch      = [q \in Runs |-> FreshSlot]
  /\ visible     = [q \in Runs |-> FALSE]
  /\ asked       = [r \in Runs |-> NoWish]

Next == Host \/ Device

(* The host thread keeps executing Run(); hsa_signal_wait is only sure to  *)
(* return once the signal is 0.                                            *)
HostProgress ==
  \/ InitHsa \/ InitDispatch \/ SetupExecutable \/ SetupReturns
  \/ StoreGroupSize \/ StoreHeader \/ RingDoorbell
  \/ WaitReturns /\ sigval[signal] = 0
  \/ CheckClock \/ Verify

\* The doorbell obliges the command processor to take the packet and, when
\* its kernel has ended, to retire it.
Launch(q) == Fetch(q) /\ doorbell[q] >= read_index[q]

HostAndQueueFairness ==
  /\ WF_vars(HostProgress)
  /\ \A q \in Runs : WF_vars(Launch(q)) /\ WF_vars(Retire(q))

Spec == Init /\ [][Next]_vars

\* Every kernel ends.
FairSpec ==
  Spec /\ HostAndQueueFairness /\ \A q \in Runs : WF_vars(EndKernel(q))

\* A kernel may run for ever, but processor time passes.
HangSpec == Spec /\ HostAndQueueFairness /\ WF_vars(Tick)

-----------------------------------------------------------------------------
(* Properties. *)

TypeOK ==
  /\ phase \in Phases
  /\ run \in 0 .. MaxRuns
  /\ queue \in Runs \cup {NULL}
  /\ signal \in Runs \cup {NULL}
  /\ packet_index \in Nat
  /\ group_static_size \in Segments
  /\ group_dynamic_size \in Segments
  /\ result \in {0, 1}
  /\ clk \in Nat
  /\ outcome \in [Runs -> {"none", "pending", "Success", "Failed"}]
  /\ write_index \in [Runs -> Nat]
  /\ doorbell \in [Runs -> Nat \cup {-1}]
  /\ ring \in [Runs -> [0 .. QueueSize - 1 -> Packet]]
  /\ sigval \in [Runs -> {0, 1}]
  /\ read_index \in [Runs -> Nat]
  /\ cp \in [Runs -> {"idle", "running", "ended", "retired"}]
  /\ launch \in [Runs -> Packet]
  /\ visible \in [Runs -> BOOLEAN]
  /\ asked \in [Runs -> Wish]

(* Verify() never reads results that are not there: when Wait() lets Run()  *)
(* go on (dispatch.cpp:332-346, 452-460), the kernel of this very call, and *)
(* not one that an earlier call gave up, has ended and its stores have been *)
(* released to the system.                                                  *)
VerifyAfterCompletion ==
  phase = "Verify" => cp[run] = "retired" /\ visible[run]

(* What the device launches is what the client asked for: packet defaults,  *)
(* setters, kernel object and completion signal (dispatch.cpp:168-230,      *)
(* 251-259, 325) come together in one packet of one call, whatever order    *)
(* Setup() used.  The group segment is the sum of dispatch.cpp:198 whenever *)
(* the client has set the dynamic part.                                     *)
LaunchedAsAsked ==
  \A q \in Runs : cp[q] # "idle" =>
    /\ launch[q].header = DispatchHeader
    /\ launch[q].setup = IF asked[q].grid[3] > 1 THEN 3
                         ELSE IF asked[q].grid[2] > 1 THEN 2 ELSE 1
    /\ launch[q].workgroup = asked[q].workgroup
    /\ launch[q].grid = asked[q].grid
    /\ launch[q].kernel_object = q
    /\ launch[q].kernarg_address = asked[q].kernarg
    /\ launch[q].completion_signal = q
    /\ asked[q].explicit =>
         launch[q].group = (asked[q].static + asked[q].dynamic) % Word

(* A packet belongs to the device from the release store of its header      *)
(* (dispatch.cpp:204) until the device invalidates it: no member function   *)
(* writes to it in between, not even those of a later call of Run().        *)
StablePackets ==
  \A q \in Runs : \A s \in 0 .. QueueSize - 1 :
    ring[q][s].header = DispatchHeader /\ ring'[q][s].header = DispatchHeader
      => ring'[q][s] = ring[q][s]

PublishedPacketStable == [][StablePackets]_vars

(* The doorbell value, the header and the completion signal do their work   *)
(* together: when kernels end, every call of Run() returns                  *)
(* (dispatch.cpp:204-209, 332-346).                                         *)
RunTerminates ==
  \A r \in Runs : outcome[r] = "pending" ~> outcome[r] \in {"Success", "Failed"}

Published(q) == cp[q] # "idle" \/ Head(q).header = DispatchHeader

(* A kernel whose packet has a valid header is executed, whether or not     *)
(* Run() is still waiting for it: the doorbell of dispatch.cpp:207 is rung  *)
(* for that very packet.                                                    *)
SubmittedKernelRuns == \A q \in Runs : Published(q) ~> cp[q] = "retired"

-----------------------------------------------------------------------------
(* What the code's messages and defaults say, and the code does not keep.  *)

(* dispatch.cpp:330 and 341 announce a time limit of 120 s for a kernel.    *)
(* The limit is only looked at after hsa_signal_wait_acquire has returned,  *)
(* and that call has none (~0ULL, line 337).                                *)
WaitIsBounded == phase \in {"Wait", "Check"} ~> phase \notin {"Wait", "Check"}

(* dispatch.cpp:181 starts a packet with no group memory, and the only way  *)
(* to ask for some beyond the kernel's own is SetDynamicGroupSegmentSize.   *)
(* Line 198 adds group_dynamic_size all the same, which nothing initializes *)
(* (dispatch.cpp:54-65).                                                    *)
GroupSegmentAsAsked ==
  \A q \in Runs : cp[q] # "idle" =>
    launch[q].group = (asked[q].static + asked[q].dynamic) % Word

-----------------------------------------------------------------------------
(* Run() implements the abstract call of KernelCall. *)

Kernel ==
  [q \in Runs |-> IF cp[q] = "retired" THEN "executed"
                  ELSE IF Published(q) THEN "submitted" ELSE "none"]

KC == INSTANCE KernelCall WITH kernel <- Kernel

(* Run() reports "Success" only for a kernel that was submitted once by it  *)
(* and has been executed (dispatch.cpp:452-468).                            *)
ImplementsKernelCall == KC!Spec

=============================================================================
