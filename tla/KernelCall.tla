----------------------------- MODULE KernelCall -----------------------------
(***************************************************************************)
(* What amd::dispatch::Dispatch::Run promises its caller, with the queue,  *)
(* the packet, the signal and the clock hidden: a call prepares a kernel,  *)
(* submits it, the device executes it at most once, and the call reports   *)
(* "Success" only for a kernel that has been executed.  The device is not  *)
(* bound to the call: a kernel may be executed after its call has failed.  *)
(***************************************************************************)
EXTENDS Naturals

CONSTANT Runs           \* the calls of Run() on one Dispatch object

VARIABLES kernel,       \* what has become of the kernel of each call
          outcome       \* what Run() has returned for each call

vars == <<kernel, outcome>>

TypeOK ==
  /\ kernel  \in [Runs -> {"none", "submitted", "executed"}]
  /\ outcome \in [Runs -> {"none", "pending", "Success", "Failed"}]

Init ==
  /\ kernel  = [r \in Runs |-> "none"]
  /\ outcome = [r \in Runs |-> "none"]

\* One call at a time: the host object is used by one thread.
Call(r) ==
  /\ outcome[r] = "none"
  /\ \A s \in Runs : outcome[s] # "pending"
  /\ outcome' = [outcome EXCEPT ![r] = "pending"]
  /\ UNCHANGED kernel

Submit(r) ==
  /\ outcome[r] = "pending"
  /\ kernel[r] = "none"
  /\ kernel' = [kernel EXCEPT ![r] = "submitted"]
  /\ UNCHANGED outcome

Execute(r) ==
  /\ kernel[r] = "submitted"
  /\ kernel' = [kernel EXCEPT ![r] = "executed"]
  /\ UNCHANGED outcome

Succeed(r) ==
  /\ outcome[r] = "pending"
  /\ kernel[r] = "executed"
  /\ outcome' = [outcome EXCEPT ![r] = "Success"]
  /\ UNCHANGED kernel

Fail(r) ==
  /\ outcome[r] = "pending"
  /\ outcome' = [outcome EXCEPT ![r] = "Failed"]
  /\ UNCHANGED kernel

Next ==
  \E r \in Runs : Call(r) \/ Submit(r) \/ Execute(r) \/ Succeed(r) \/ Fail(r)

Spec == Init /\ [][Next]_vars

=============================================================================
