---------------------------- MODULE DispatchInv ----------------------------
(***************************************************************************)
(* The inductive invariant behind the theorems of DispatchProofs.  It is   *)
(* the argument of the code made explicit: every HSA object that a call of *)
(* Run() creates is still unused when the call gets hold of it, the packet *)
(* stays the host's until its header is written, and the completion signal *)
(* reaches 0 exactly when the kernel of the same call retires.             *)
(***************************************************************************)
EXTENDS Dispatch

Slots == 0 .. QueueSize - 1

\* Init() has returned true.
Ready == Phases \ {"idle", "Init"}

\* *aql exists and the host may still write to it.
Building == {"SetupExecutable", "Setup", "GroupSize", "Header"}

(* Where Run() stands, and what it returned. *)
CallInv ==
  /\ phase # "idle" => run \in Runs /\ outcome[run] = "pending"
  /\ \A r \in Runs : outcome[r] = "pending" => r = run /\ phase # "idle"
  /\ \A r \in Runs : r > run => outcome[r] = "none"
  /\ phase \in Ready => queue = run /\ signal = run
  /\ phase \in Ready \ {"InitDispatch"} => packet_index = 0

(* No host action and no device action has touched the objects of a queue  *)
(* before InitDispatch reserves its packet.                                 *)
Untouched(q) ==
  /\ write_index[q] = 0
  /\ read_index[q] = 0
  /\ cp[q] = "idle"
  /\ \A s \in Slots : ring[q][s].header = NoHeader

FreshInv ==
  \A q \in Runs :
    q > run \/ (q = run /\ phase \in {"Init", "InitDispatch"}) => Untouched(q)

(* Of a queue only slot 0 is ever used: it carries one packet, which the   *)
(* device takes once, and its signal tells whether it was retired.          *)
QueueInv ==
  \A q \in Runs :
    /\ write_index[q] \in {0, 1}
    /\ read_index[q] = (IF cp[q] = "retired" THEN 1 ELSE 0)
    /\ sigval[q] = (IF cp[q] = "retired" THEN 0 ELSE 1)
    /\ cp[q] = "retired" => visible[q] /\ ring[q][0].header = NoHeader
    /\ cp[q] \in {"running", "ended"} => ring[q][0].header = DispatchHeader
    /\ \A s \in Slots \ {0} : ring[q][s].header = NoHeader

(* p is a complete packet for call q. *)
Complete(p, q) ==
  /\ p.header = DispatchHeader
  /\ p.setup = Dimensions(asked[q].grid)
  /\ p.workgroup = asked[q].workgroup
  /\ p.grid = asked[q].grid
  /\ p.kernel_object = q
  /\ p.kernarg_address = asked[q].kernarg
  /\ p.completion_signal = q
  /\ asked[q].explicit => p.group = (asked[q].static + asked[q].dynamic) % Word

(* What was published, and what was launched, is complete. *)
PacketInv ==
  \A q \in Runs :
    /\ ring[q][0].header = DispatchHeader => Complete(ring[q][0], q)
    /\ cp[q] # "idle" => Complete(launch[q], q)

(* The packet under construction follows the client's calls. *)
BuildInv ==
  /\ run > 0 /\ asked[run].explicit => group_dynamic_size = asked[run].dynamic
  /\ phase \in {"Init", "InitDispatch"} =>
       /\ asked[run].workgroup = Unit
       /\ asked[run].grid = Unit
       /\ asked[run].kernarg = NULL
  /\ phase \in Building =>
       /\ cp[run] = "idle"
       /\ ring[run][0].header = NoHeader
       /\ ring[run][0].workgroup = asked[run].workgroup
       /\ ring[run][0].grid = asked[run].grid
       /\ ring[run][0].kernarg_address = asked[run].kernarg
       /\ ring[run][0].completion_signal = run
  /\ phase \in Building \ {"SetupExecutable"} =>
       /\ ring[run][0].kernel_object = run
       /\ group_static_size = asked[run].static
  /\ phase = "Header" /\ asked[run].explicit =>
       ring[run][0].group = (asked[run].static + asked[run].dynamic) % Word

(* Wait() lets Run() go on only with a signal that is 0. *)
WaitInv ==
  /\ phase = "Check" /\ result = 0 => sigval[run] = 0
  /\ phase = "Verify" => sigval[run] = 0

IInv ==
  TypeOK /\ CallInv /\ FreshInv /\ QueueInv /\ PacketInv /\ BuildInv /\ WaitInv

=============================================================================
