----------------------------- MODULE Discovery -----------------------------
(***************************************************************************)
(* Dispatch::Init: the callbacks find_gpu_device and FindRegions, which    *)
(* HSA calls once for every agent of the machine and for every region of   *)
(* the chosen agent, and the members they set.  Init() may be called again *)
(* on the same object, after a call that failed anywhere, or succeeded.    *)
(***************************************************************************)
EXTENDS Naturals, Sequences

CONSTANTS MaxInits,      \* bound: calls of Init() on one object
          MaxAgents,     \* bound: agents of a machine
          MaxRegions     \* bound: regions of an agent

ASSUME DiscoveryAssumption ==
  MaxInits \in Nat /\ MaxAgents \in Nat /\ MaxRegions \in Nat

VARIABLES
  machine,      \* the hardware: fixed, the same order in every iteration
  phase, inits,
  next,         \* the agent or region the iteration visits next
  agent, cpu_agent,
  kernarg_region, system_region, local_region, gpu_local_region,
  misread,      \* history: regions whose segment or flags could not be read
  denied        \* history: regions whose host access could not be read

regionVars == <<kernarg_region, system_region, local_region, gpu_local_region,
                misread, denied>>
vars == <<machine, phase, inits, next, agent, cpu_agent, regionVars>>

NULL == 0                 \* handle 0; agents and regions are numbered from 1

\* The flags FindRegions asks for; a region is fine- or coarse-grained.
Flags == {"fine", "coarse", "kernarg"}
Region == [global : BOOLEAN, flags : {f \in SUBSET Flags : ~({"fine", "coarse"} \subseteq f)},
           accessible : BOOLEAN]

Sequences(S, n) == UNION {[1 .. k -> S] : k \in 0 .. n}

Machines(regions) ==
  [agents : Sequences({"GPU", "CPU", "DSP"}, MaxAgents),
   regions : Sequences(regions, MaxRegions)]

Agents  == machine.agents
Regions == machine.regions

-----------------------------------------------------------------------------
(* Init() up to the iteration of the agents. *)

\* hsa_init succeeds, and hsa_iterate_agents begins; or Init() returns false.
HsaInit ==
  /\ phase \in {"new", "failed", "ready"}
  /\ inits < MaxInits
  /\ inits' = inits + 1
  /\ next' = 1
  /\ phase' \in {"agents", "failed"}
  /\ UNCHANGED <<machine, agent, cpu_agent, regionVars>>

\* Mutant: the iteration's successor is kept.
SetAgent_Mut(a) == agent' = a + 1 /\ UNCHANGED <<phase, cpu_agent>>

\* SetAgent and SetCpuAgent assert that they set the handle for the first time.
SetAgent(a) ==
  IF agent # NULL
  THEN phase' = "assert" /\ UNCHANGED <<agent, cpu_agent>>
  ELSE agent' = a /\ UNCHANGED <<phase, cpu_agent>>

SetCpuAgent(a) ==
  IF cpu_agent # NULL
  THEN phase' = "assert" /\ UNCHANGED <<agent, cpu_agent>>
  ELSE cpu_agent' = a /\ UNCHANGED <<phase, agent>>

\* Mutant: the last GPU wins.
HasAgent_Mut == FALSE

HasAgent    == agent # NULL
HasCpuAgent == cpu_agent # NULL

(* find_gpu_device.  If the type cannot be read the callback returns the   *)
(* error, the iteration ends with it, and the assertion in Init() fails.    *)
FindGpuDevice ==
  /\ phase = "agents"
  /\ next <= Len(Agents)
  /\ next' = next + 1
  /\ \/ Agents[next] = "GPU" /\ ~HasAgent /\ SetAgent(next)
     \/ Agents[next] = "CPU" /\ ~HasCpuAgent /\ SetCpuAgent(next)
     \/ /\ ~(Agents[next] = "GPU" /\ ~HasAgent)
        /\ ~(Agents[next] = "CPU" /\ ~HasCpuAgent)
        /\ UNCHANGED <<phase, agent, cpu_agent>>
     \/ phase' = "abort" /\ UNCHANGED <<agent, cpu_agent>>
  /\ UNCHANGED <<machine, inits, regionVars>>

\* The name and the queue size of the agent (both fail for handle 0), the
\* queue and the signal; then hsa_agent_iterate_regions begins.
CreateQueue ==
  /\ phase = "agents"
  /\ next > Len(Agents)
  /\ next' = 1
  /\ \/ agent # NULL /\ phase' = "regions"
     \/ phase' = "failed"
  /\ UNCHANGED <<machine, inits, agent, cpu_agent, regionVars>>

-----------------------------------------------------------------------------
(* FindRegions.                                                            *)

\* Mutant: host_accessible_region is not initialized either.
Readings_Mut(r, failed) ==
  [global : IF "segment" \in failed THEN BOOLEAN ELSE {r.global},
   flags : IF "flags" \in failed THEN SUBSET Flags ELSE {r.flags},
   accessible : IF "access" \in failed THEN BOOLEAN ELSE {r.accessible}]

\* What the variables of FindRegions hold when these queries have failed, whose
\* status it ignores.  segment_id and flags are not initialized: they then have
\* any value.  host_accessible_region keeps its initial one.
Readings(r, failed) ==
  [global : IF "segment" \in failed THEN BOOLEAN ELSE {r.global},
   flags : IF "flags" \in failed THEN SUBSET Flags ELSE {r.flags},
   accessible : {r.accessible /\ "access" \notin failed}]

Fine(r)    == r.global /\ "fine" \in r.flags
Coarse(r)  == r.global /\ "coarse" \in r.flags
Kernarg(r) == r.global /\ "kernarg" \in r.flags

Local(r)    == Coarse(r) /\ r.accessible
GPULocal(r) == Coarse(r) /\ ~r.accessible

\* SetSystemRegion and the other three: each region replaces the one before.
Kept(handle, isOfKind) == IF isOfKind THEN next ELSE handle

\* Only a region that looks global is asked for more than its segment.
FindRegions ==
  /\ phase = "regions"
  /\ next <= Len(Regions)
  /\ next' = next + 1
  /\ \E failed \in SUBSET {"segment", "flags", "access"} :
     \E r \in Readings(Regions[next], failed) :
       /\ r.global \/ failed \subseteq {"segment"}
       /\ system_region'    = Kept(system_region, Fine(r))
       /\ local_region'     = Kept(local_region, Local(r))
       /\ gpu_local_region' = Kept(gpu_local_region, GPULocal(r))
       /\ kernarg_region'   = Kept(kernarg_region, Kernarg(r))
       /\ misread' = IF failed \subseteq {"access"} THEN misread ELSE misread \cup {next}
       /\ denied' = IF "access" \in failed THEN denied \cup {next} ELSE denied
  /\ UNCHANGED <<machine, phase, inits, agent, cpu_agent>>

\* Mutant: any memory of the system will do.
Found_Mut == kernarg_region # NULL \/ system_region # NULL

Found == kernarg_region # NULL

\* The iteration's status, and the test for the one region Init() insists on.
InitReturns ==
  /\ phase = "regions"
  /\ next > Len(Regions)
  /\ \/ Found /\ phase' = "ready"
     \/ phase' = "failed"
  /\ UNCHANGED <<machine, inits, next, agent, cpu_agent, regionVars>>

-----------------------------------------------------------------------------
InitWith(regions) ==
  /\ machine \in Machines(regions)
  /\ phase = "new"
  /\ inits = 0
  /\ next = 1
  /\ agent = NULL
  /\ cpu_agent = NULL
  /\ kernarg_region = NULL
  /\ system_region = NULL
  /\ local_region = NULL
  /\ gpu_local_region = NULL
  /\ misread = {} /\ denied = {}

Init == InitWith(Region)

Next == HsaInit \/ FindGpuDevice \/ CreateQueue \/ FindRegions \/ InitReturns

Spec == Init /\ [][Next]_vars

-----------------------------------------------------------------------------
(* Properties. *)

Indices(s) == 1 .. Len(s)

TypeOK ==
  /\ phase \in {"new", "agents", "regions", "ready", "failed", "assert", "abort"}
  /\ inits \in 0 .. MaxInits
  /\ next \in 1 .. MaxAgents + MaxRegions + 1
  /\ agent \in Indices(Agents) \cup {NULL}
  /\ cpu_agent \in Indices(Agents) \cup {NULL}
  /\ \A r \in {kernarg_region, system_region, local_region, gpu_local_region} :
       r \in Indices(Regions) \cup {NULL}
  /\ misread \subseteq Indices(Regions) /\ denied \subseteq Indices(Regions)

(* dispatch.hpp:109 and 111 assert that neither handle is ever set twice.   *)
(* HSA calls the callback for every agent, and Init() may be called again.  *)
SetOnce == phase # "assert"

IsFirst(i, kind) ==
  IF \E j \in Indices(Agents) : Agents[j] = kind
  THEN /\ i # NULL /\ Agents[i] = kind
       /\ \A j \in 1 .. i - 1 : Agents[j] # kind
  ELSE i = NULL

\* The last region of its kind, or NULL if there is none, but for those that may
\* have been taken for one, and those of the kind that may have been missed.
IsLastBut(i, P(_), mistaken, missed) ==
  /\ i # NULL => P(Regions[i]) \/ i \in mistaken
  /\ \A j \in Indices(Regions) \ missed : P(Regions[j]) => i # NULL /\ i >= j

(* What a successful Init() leaves behind is the first GPU, the first CPU    *)
(* and the last region of each kind, whatever the calls of Init() before it  *)
(* did and wherever they failed.  A query about a region may fail unnoticed, *)
(* in any of the calls; that costs no more than trust in this region: what   *)
(* is chosen instead is of its kind, and none behind it has been passed      *)
(* over.  Where only the query for host access fails, memory may pass for    *)
(* the device's own, and never device-only memory for the host's             *)
(* (dispatch.cpp:67-125).                                                    *)
FailuresMisleadLocally ==
  phase = "ready" =>
    /\ IsFirst(agent, "GPU") /\ IsFirst(cpu_agent, "CPU")
    /\ IsLastBut(kernarg_region, Kernarg, misread, misread)
    /\ IsLastBut(system_region, Fine, misread, misread)
    /\ IsLastBut(local_region, Local, misread, misread \cup denied)
    /\ IsLastBut(gpu_local_region, GPULocal, misread \cup denied, misread)
    /\ local_region # NULL => Regions[local_region].accessible

(* Init() only returns true on a machine with a GPU, and with a region for   *)
(* kernel arguments, or one of which a failed query has made it believe that *)
(* it is one, in this call or in an earlier one (dispatch.cpp:146, 163).     *)
ReadyIsUsable ==
  phase = "ready" =>
    /\ agent # NULL /\ Agents[agent] = "GPU"
    /\ kernarg_region # NULL
    /\ Kernarg(Regions[kernarg_region]) \/ kernarg_region \in misread

=============================================================================
