-------------------------- MODULE DiscoveryProofs --------------------------
(***************************************************************************)
(* Proofs about Dispatch::Init, for every machine, any number of calls and *)
(* failures anywhere.                                                      *)
(***************************************************************************)
EXTENDS Discovery, TLAPS

AgentsOf(kind) == {i \in Indices(Agents) : Agents[i] = kind}

KernargRegions  == {i \in Indices(Regions) : Kernarg(Regions[i])}
FineRegions     == {i \in Indices(Regions) : Fine(Regions[i])}
LocalRegions    == {i \in Indices(Regions) : Local(Regions[i])}
GPULocalRegions == {i \in Indices(Regions) : GPULocal(Regions[i])}

\* The regions whose host access is in doubt.
Unsure == misread \cup denied

\* What the iterations of this call of Init() have passed.
PassedAgents ==
  CASE phase = "agents" -> 1 .. next - 1
    [] phase \in {"regions", "ready"} -> Indices(Agents)
    [] OTHER -> {}

PassedRegions ==
  CASE phase = "regions" -> 1 .. next - 1
    [] phase = "ready" -> Indices(Regions)
    [] OTHER -> {}

(* A handle is the first of its kind; without one, none has been passed in  *)
(* this call.  What an earlier call has found stays.                        *)
IsEarliest(handle, kind, passed) ==
  IF handle = NULL
  THEN kind \cap passed = {}
  ELSE handle \in kind /\ \A i \in kind : handle <= i

(* A region is of its kind or has been mistaken for it, and once this call   *)
(* has passed one that was not missed, it is this one or one that was passed *)
(* after it.  Before, it may be an earlier call's.                           *)
IsLatest(region, kind, mistaken, missed, passed) ==
  /\ region # NULL => region \in kind \cup mistaken
  /\ \A i \in (kind \cap passed) \ missed : region \in passed /\ region >= i

ProgressInv ==
  /\ phase = "agents" => next <= Len(Agents) + 1
  /\ phase = "regions" => next <= Len(Regions) + 1
  /\ phase \in {"regions", "ready"} => agent # NULL
  /\ phase = "ready" => kernarg_region # NULL

AgentInv ==
  /\ IsEarliest(agent, AgentsOf("GPU"), PassedAgents)
  /\ IsEarliest(cpu_agent, AgentsOf("CPU"), PassedAgents)

RegionInv ==
  /\ IsLatest(kernarg_region, KernargRegions, misread, misread, PassedRegions)
  /\ IsLatest(system_region, FineRegions, misread, misread, PassedRegions)
  /\ IsLatest(local_region, LocalRegions, misread, Unsure, PassedRegions)
  /\ IsLatest(gpu_local_region, GPULocalRegions, Unsure, misread, PassedRegions)
  /\ local_region # NULL => Regions[local_region].accessible

IInv ==
  /\ machine \in Machines(Region)
  /\ TypeOK
  /\ SetOnce
  /\ ProgressInv
  /\ AgentInv
  /\ RegionInv

USE DiscoveryAssumption DEF NULL

-----------------------------------------------------------------------------
(* Lemmas about the two kinds of choice. *)

\* The bounds on the machine.
LEMMA MachineSizes ==
  ASSUME machine \in Machines(Region)
  PROVE  Len(Agents) \in 0 .. MaxAgents /\ Len(Regions) \in 0 .. MaxRegions
<1>1. \A S : \A s \in Sequences(S, MaxAgents) : Len(s) \in 0 .. MaxAgents
  BY DEF Sequences
<1>2. \A S : \A s \in Sequences(S, MaxRegions) : Len(s) \in 0 .. MaxRegions
  BY DEF Sequences
<1>3. /\ Agents \in Sequences({"GPU", "CPU", "DSP"}, MaxAgents)
      /\ Regions \in Sequences(Region, MaxRegions)
  BY DEF Machines, Agents, Regions
<1> QED BY <1>1, <1>2, <1>3

\* Passing one more agent: the first of a kind is taken, later ones are not.
LEMMA PassAgent ==
  ASSUME NEW kind \in SUBSET (Nat \ {0}), NEW n \in Nat \ {0}, NEW h \in Nat,
         NEW g \in Nat, IsEarliest(h, kind, 1 .. n - 1),
         g = IF n \in kind /\ h = NULL THEN n ELSE h
  PROVE  IsEarliest(g, kind, 1 .. (n + 1) - 1)
BY DEF IsEarliest

\* Having passed fewer agents asks less.
LEMMA EarliestOfFewer ==
  ASSUME NEW kind, NEW p, NEW q \in SUBSET p, NEW h, IsEarliest(h, kind, p)
  PROVE  IsEarliest(h, kind, q)
BY DEF IsEarliest

\* Passing one more region, which is taken for one of the kind or not.
LEMMA PassRegion ==
  ASSUME NEW kind \in SUBSET (Nat \ {0}), NEW n \in Nat \ {0}, NEW r \in Nat,
         NEW mistaken, NEW missed, NEW mistaken1, NEW missed1,
         mistaken \subseteq mistaken1, missed \subseteq missed1,
         IsLatest(r, kind, mistaken, missed, 1 .. n - 1),
         NEW taken, NEW s, s = IF taken THEN n ELSE r,
         taken => n \in kind \cup mistaken1,
         n \in kind /\ ~taken => n \in missed1
  PROVE  IsLatest(s, kind, mistaken1, missed1, 1 .. (n + 1) - 1)
BY DEF IsLatest

\* A call that has passed no region knows only what an earlier one left.
LEMMA LatestOfNone ==
  ASSUME NEW kind, NEW mistaken, NEW missed, NEW p, NEW r,
         IsLatest(r, kind, mistaken, missed, p)
  PROVE  IsLatest(r, kind, mistaken, missed, {})
BY DEF IsLatest

-----------------------------------------------------------------------------
(* The invariant holds initially, and every step preserves it.             *)

\* A new object has found nothing.
LEMMA InitInvariant == Init => IInv
<1> SUFFICES ASSUME Init PROVE IInv
  OBVIOUS
<1>1. machine \in Machines(Region) /\ phase = "new" /\ inits = 0 /\ next = 1
  BY DEF Init, InitWith
<1>2. /\ agent = NULL /\ cpu_agent = NULL /\ kernarg_region = NULL
      /\ system_region = NULL /\ local_region = NULL /\ gpu_local_region = NULL
      /\ misread = {} /\ denied = {}
  BY DEF Init, InitWith
<1>3. TypeOK
  BY <1>1, <1>2 DEF TypeOK
<1>4. PassedAgents = {} /\ PassedRegions = {}
  BY <1>1 DEF PassedAgents, PassedRegions
<1>5. AgentInv /\ RegionInv
  BY <1>2, <1>4 DEF AgentInv, RegionInv, IsEarliest, IsLatest
<1>6. SetOnce /\ ProgressInv
  BY <1>1 DEF SetOnce, ProgressInv
<1> QED BY <1>1, <1>3, <1>5, <1>6 DEF IInv

\* The kinds only depend on the machine.
LEMMA KindsStay ==
  ASSUME machine' = machine
  PROVE  /\ Agents' = Agents /\ Regions' = Regions
         /\ \A kind : AgentsOf(kind)' = AgentsOf(kind)
         /\ KernargRegions' = KernargRegions /\ FineRegions' = FineRegions
         /\ LocalRegions' = LocalRegions /\ GPULocalRegions' = GPULocalRegions
BY DEF Agents, Regions, AgentsOf, KernargRegions, FineRegions, LocalRegions,
       GPULocalRegions, Indices, Local, GPULocal

\* A step that only ends an iteration or begins one.
LEMMA AgentsStay ==
  ASSUME AgentInv, UNCHANGED <<machine, agent, cpu_agent>>,
         PassedAgents' \subseteq PassedAgents
  PROVE  AgentInv'
BY KindsStay, EarliestOfFewer DEF AgentInv

\* The same for regions.
LEMMA RegionsStay ==
  ASSUME RegionInv, UNCHANGED <<machine, regionVars>>,
         PassedRegions' \in {PassedRegions, {}}
  PROVE  RegionInv'
BY KindsStay, LatestOfNone DEF RegionInv, regionVars, Unsure

\* A new call passes the agents from the first again.
LEMMA HsaInitInvariant == IInv /\ HsaInit => IInv'
<1> SUFFICES ASSUME IInv, HsaInit PROVE IInv'
  OBVIOUS
<1>1. /\ phase' \in {"agents", "failed"} /\ next' = 1
      /\ UNCHANGED <<machine, agent, cpu_agent, regionVars>>
      /\ inits' \in 0 .. MaxInits
  BY DEF HsaInit, IInv, TypeOK
<1>2. PassedAgents' = {} /\ PassedRegions' = {}
  BY <1>1 DEF PassedAgents, PassedRegions
<1>3. AgentInv' /\ RegionInv'
  BY <1>1, <1>2, AgentsStay, RegionsStay DEF IInv
<1>4. TypeOK'
  BY <1>1, KindsStay DEF IInv, TypeOK, regionVars
<1>5. ProgressInv'
  BY <1>1, KindsStay, MachineSizes DEF IInv, ProgressInv
<1> QED BY <1>1, <1>3, <1>4, <1>5 DEF IInv, SetOnce

\* All agents have been passed; only with a GPU do the regions follow.
LEMMA CreateQueueInvariant == IInv /\ CreateQueue => IInv'
<1> SUFFICES ASSUME IInv, CreateQueue PROVE IInv'
  OBVIOUS
<1>1. /\ phase = "agents" /\ next > Len(Agents) /\ next <= Len(Agents) + 1
      /\ next' = 1 /\ phase' \in {"regions", "failed"}
      /\ phase' = "regions" => agent # NULL
      /\ UNCHANGED <<machine, inits, agent, cpu_agent, regionVars>>
  BY DEF CreateQueue, IInv, ProgressInv
<1>2. Len(Agents) \in Nat /\ Len(Regions) \in Nat /\ next \in Nat
  BY MachineSizes DEF IInv, TypeOK
<1>3. PassedAgents' \subseteq PassedAgents
  BY <1>1, <1>2, KindsStay DEF PassedAgents, Indices
<1>4. PassedRegions' = {}
  BY <1>1 DEF PassedRegions
<1>5. AgentInv' /\ RegionInv'
  BY <1>1, <1>3, <1>4, AgentsStay, RegionsStay DEF IInv
<1>6. TypeOK'
  BY <1>1, KindsStay DEF IInv, TypeOK, regionVars
<1>7. ProgressInv'
  BY <1>1, <1>2, KindsStay DEF IInv, ProgressInv
<1> QED BY <1>1, <1>5, <1>6, <1>7 DEF IInv, SetOnce

\* All regions have been passed; only with one for arguments is it a success.
LEMMA InitReturnsInvariant == IInv /\ InitReturns => IInv'
<1> SUFFICES ASSUME IInv, InitReturns PROVE IInv'
  OBVIOUS
<1>1. /\ phase = "regions" /\ next > Len(Regions) /\ next <= Len(Regions) + 1
      /\ phase' \in {"ready", "failed"}
      /\ phase' = "ready" => kernarg_region # NULL
      /\ agent # NULL
      /\ UNCHANGED <<machine, inits, next, agent, cpu_agent, regionVars>>
  BY DEF InitReturns, Found, IInv, ProgressInv
<1>2. Len(Agents) \in Nat /\ Len(Regions) \in Nat /\ next \in Nat
  BY MachineSizes DEF IInv, TypeOK
<1>3. PassedAgents' \subseteq PassedAgents
  BY <1>1, KindsStay DEF PassedAgents, Indices
<1>4. PassedRegions' \in {PassedRegions, {}}
  <2>1. CASE phase' = "ready"
    <3>1. PassedRegions' = 1 .. Len(Regions)
      BY <2>1, <1>1, KindsStay DEF PassedRegions, Indices
    <3>2. PassedRegions = 1 .. next - 1 /\ next - 1 = Len(Regions)
      BY <1>1, <1>2 DEF PassedRegions
    <3> QED BY <3>1, <3>2
  <2>2. CASE phase' = "failed"
    BY <2>2 DEF PassedRegions
  <2> QED BY <1>1, <2>1, <2>2
<1>5. AgentInv' /\ RegionInv'
  BY <1>1, <1>3, <1>4, AgentsStay, RegionsStay DEF IInv
<1>6. TypeOK'
  BY <1>1, KindsStay DEF IInv, TypeOK, regionVars
<1>7. ProgressInv'
  BY <1>1, KindsStay DEF IInv, ProgressInv, regionVars
<1> QED BY <1>1, <1>5, <1>6, <1>7 DEF IInv, SetOnce

\* find_gpu_device takes an agent exactly when it is the first of its kind.
LEMMA FindGpuDeviceInvariant == IInv /\ FindGpuDevice => IInv'
<1> SUFFICES ASSUME IInv, FindGpuDevice PROVE IInv'
  OBVIOUS
<1>1. /\ phase = "agents" /\ next <= Len(Agents) /\ next' = next + 1
      /\ UNCHANGED <<machine, inits, regionVars>>
  BY DEF FindGpuDevice
<1>2. /\ Len(Agents) \in 0 .. MaxAgents /\ Len(Regions) \in Nat
      /\ next \in Nat \ {0} /\ next \in Indices(Agents)
  BY <1>1, MachineSizes DEF IInv, TypeOK, Indices
<1>3. agent \in Nat /\ cpu_agent \in Nat
  BY <1>2 DEF IInv, TypeOK, Indices
<1>4. /\ phase' \in {"agents", "abort"}
      /\ phase' = "agents" =>
           /\ agent' = IF next \in AgentsOf("GPU") /\ agent = NULL THEN next ELSE agent
           /\ cpu_agent' = IF next \in AgentsOf("CPU") /\ cpu_agent = NULL
                           THEN next ELSE cpu_agent
      /\ phase' = "abort" => UNCHANGED <<agent, cpu_agent>>
  BY <1>1, <1>2 DEF FindGpuDevice, HasAgent, HasCpuAgent, SetAgent, SetCpuAgent, AgentsOf
<1>5. PassedRegions' = {}
  BY <1>4 DEF PassedRegions
<1>6. RegionInv'
  BY <1>1, <1>5, RegionsStay DEF IInv
<1>7. AgentInv'
  <2>1. CASE phase' = "abort"
    <3>1. PassedAgents' = {}
      BY <2>1 DEF PassedAgents
    <3> QED BY <1>1, <1>4, <2>1, <3>1, AgentsStay DEF IInv
  <2>2. CASE phase' = "agents"
    <3>1. PassedAgents = 1 .. next - 1 /\ PassedAgents' = 1 .. (next + 1) - 1
      BY <1>1, <2>2 DEF PassedAgents
    <3>2. AgentsOf("GPU") \in SUBSET (Nat \ {0}) /\ AgentsOf("CPU") \in SUBSET (Nat \ {0})
      BY <1>2 DEF AgentsOf, Indices
    <3>3. agent' \in Nat /\ cpu_agent' \in Nat
      BY <1>2, <1>3, <1>4, <2>2
    <3>4. IsEarliest(agent, AgentsOf("GPU"), 1 .. next - 1)
          /\ IsEarliest(cpu_agent, AgentsOf("CPU"), 1 .. next - 1)
      BY <3>1 DEF IInv, AgentInv
    <3>5. IsEarliest(agent', AgentsOf("GPU"), 1 .. (next + 1) - 1)
      BY <1>2, <1>3, <1>4, <2>2, <3>2, <3>3, <3>4, PassAgent
    <3>6. IsEarliest(cpu_agent', AgentsOf("CPU"), 1 .. (next + 1) - 1)
      BY <1>2, <1>3, <1>4, <2>2, <3>2, <3>3, <3>4, PassAgent
    <3> QED BY <1>1, <3>1, <3>5, <3>6, KindsStay DEF AgentInv
  <2> QED BY <1>4, <2>1, <2>2
<1>8. TypeOK'
  <2>1. agent' \in Indices(Agents) \cup {NULL} /\ cpu_agent' \in Indices(Agents) \cup {NULL}
    BY <1>2, <1>4 DEF IInv, TypeOK
  <2>2. next' \in 1 .. MaxAgents + MaxRegions + 1
    BY <1>1, <1>2
  <2> QED BY <1>1, <1>4, <2>1, <2>2, KindsStay DEF IInv, TypeOK, regionVars
<1>9. ProgressInv' /\ SetOnce'
  BY <1>1, <1>2, <1>4, KindsStay DEF ProgressInv, SetOnce
<1> QED BY <1>1, <1>6, <1>7, <1>8, <1>9 DEF IInv

\* FindRegions keeps, of each kind, the last region it has been called with.
LEMMA FindRegionsInvariant == IInv /\ FindRegions => IInv'
<1> SUFFICES ASSUME IInv, FindRegions PROVE IInv'
  OBVIOUS
<1>1. /\ phase = "regions" /\ next <= Len(Regions) /\ next' = next + 1
      /\ UNCHANGED <<machine, phase, inits, agent, cpu_agent>>
  BY DEF FindRegions
<1>2. /\ Len(Regions) \in 0 .. MaxRegions /\ Len(Agents) \in Nat
      /\ next \in Nat \ {0} /\ next \in Indices(Regions)
  BY <1>1, MachineSizes DEF IInv, TypeOK, Indices
<1>3. PICK failed \in SUBSET {"segment", "flags", "access"} :
        \E r \in Readings(Regions[next], failed) :
         /\ kernarg_region' = Kept(kernarg_region, Kernarg(r))
         /\ system_region' = Kept(system_region, Fine(r))
         /\ local_region' = Kept(local_region, Local(r))
         /\ gpu_local_region' = Kept(gpu_local_region, GPULocal(r))
         /\ misread' = IF failed \subseteq {"access"} THEN misread ELSE misread \cup {next}
         /\ denied' = IF "access" \in failed THEN denied \cup {next} ELSE denied
  BY DEF FindRegions
<1>4. PICK read \in Readings(Regions[next], failed) :
         /\ kernarg_region' = Kept(kernarg_region, Kernarg(read))
         /\ system_region' = Kept(system_region, Fine(read))
         /\ local_region' = Kept(local_region, Local(read))
         /\ gpu_local_region' = Kept(gpu_local_region, GPULocal(read))
  BY <1>3
<1>5. /\ kernarg_region \in Nat /\ system_region \in Nat
      /\ local_region \in Nat /\ gpu_local_region \in Nat
  BY <1>2 DEF IInv, TypeOK, Indices
<1>6. /\ kernarg_region' \in {next, kernarg_region}
      /\ system_region' \in {next, system_region}
      /\ local_region' \in {next, local_region}
      /\ gpu_local_region' \in {next, gpu_local_region}
  BY <1>4 DEF Kept
<1>7. PassedRegions = 1 .. next - 1 /\ PassedRegions' = 1 .. (next + 1) - 1
  BY <1>1 DEF PassedRegions
<1>8. /\ KernargRegions \in SUBSET (Nat \ {0}) /\ FineRegions \in SUBSET (Nat \ {0})
      /\ LocalRegions \in SUBSET (Nat \ {0}) /\ GPULocalRegions \in SUBSET (Nat \ {0})
  BY <1>2 DEF KernargRegions, FineRegions, LocalRegions, GPULocalRegions, Indices
<1>9. RegionInv'
  <2>1. /\ IsLatest(kernarg_region, KernargRegions, misread, misread, 1 .. next - 1)
        /\ IsLatest(system_region, FineRegions, misread, misread, 1 .. next - 1)
        /\ IsLatest(local_region, LocalRegions, misread, Unsure, 1 .. next - 1)
        /\ IsLatest(gpu_local_region, GPULocalRegions, Unsure, misread, 1 .. next - 1)
    BY <1>7 DEF IInv, RegionInv
  <2>2. /\ misread \subseteq misread' /\ Unsure \subseteq Unsure'
        /\ misread' \subseteq Unsure'
    BY <1>3 DEF Unsure
  \* What has not been misread is what it is.
  <2>3. ASSUME next \notin misread'
        PROVE  read.global = Regions[next].global /\ read.flags = Regions[next].flags
    <3>1. failed \subseteq {"access"}
      BY <1>3, <2>3
    <3> QED BY <3>1, <1>4 DEF Readings
  <2>4. /\ read.accessible => Regions[next].accessible
        /\ next \notin Unsure' => (Regions[next].accessible => read.accessible)
    <3>1. read.accessible = (Regions[next].accessible /\ "access" \notin failed)
      BY <1>4 DEF Readings
    <3>2. next \notin Unsure' => "access" \notin failed
      BY <1>3 DEF Unsure
    <3> QED BY <3>1, <3>2
  <2>5. IsLatest(kernarg_region', KernargRegions, misread', misread', 1 .. (next + 1) - 1)
    <3>1. next \notin misread' => (Kernarg(read) <=> next \in KernargRegions)
      BY <1>2, <2>3 DEF Kernarg, KernargRegions
    <3> QED BY <1>2, <1>4, <1>5, <1>8, <2>1, <2>2, <3>1, PassRegion DEF Kept
  <2>6. IsLatest(system_region', FineRegions, misread', misread', 1 .. (next + 1) - 1)
    <3>1. next \notin misread' => (Fine(read) <=> next \in FineRegions)
      BY <1>2, <2>3 DEF Fine, FineRegions
    <3> QED BY <1>2, <1>4, <1>5, <1>8, <2>1, <2>2, <3>1, PassRegion DEF Kept
  \* A denied access makes a region the device's own, and not local.
  <2>7. IsLatest(local_region', LocalRegions, misread', Unsure', 1 .. (next + 1) - 1)
    <3>1. next \notin misread' => (Coarse(read) <=> Coarse(Regions[next]))
      BY <2>3 DEF Coarse
    <3>2. /\ next \notin misread' => (Local(read) => next \in LocalRegions)
          /\ next \notin Unsure' => (next \in LocalRegions => Local(read))
      BY <1>2, <2>2, <2>4, <3>1 DEF Local, LocalRegions
    <3> QED BY <1>2, <1>4, <1>5, <1>8, <2>1, <2>2, <3>2, PassRegion DEF Kept
  <2>8. IsLatest(gpu_local_region', GPULocalRegions, Unsure', misread', 1 .. (next + 1) - 1)
    <3>1. next \notin misread' => (Coarse(read) <=> Coarse(Regions[next]))
      BY <2>3 DEF Coarse
    <3>2. /\ next \notin Unsure' => (GPULocal(read) => next \in GPULocalRegions)
          /\ next \notin misread' => (next \in GPULocalRegions => GPULocal(read))
      BY <1>2, <2>2, <2>4, <3>1 DEF GPULocal, GPULocalRegions
    <3> QED BY <1>2, <1>4, <1>5, <1>8, <2>1, <2>2, <3>2, PassRegion DEF Kept
  <2>9. local_region' # NULL => Regions[local_region'].accessible
    BY <1>4, <2>4 DEF Kept, Local, IInv, RegionInv
  <2> QED BY <1>1, <1>7, <2>5, <2>6, <2>7, <2>8, <2>9, KindsStay DEF RegionInv
<1>10. AgentInv'
  <2>1. PassedAgents' = PassedAgents
    BY <1>1, KindsStay DEF PassedAgents, Indices
  <2> QED BY <1>1, <2>1, AgentsStay DEF IInv
<1>11. TypeOK'
  <2>1. next' \in 1 .. MaxAgents + MaxRegions + 1
    BY <1>1, <1>2
  <2>2. \A r \in {kernarg_region', system_region', local_region', gpu_local_region'} :
          r \in Indices(Regions) \cup {NULL}
    BY <1>2, <1>6 DEF IInv, TypeOK
  <2>3. misread' \subseteq Indices(Regions) /\ denied' \subseteq Indices(Regions)
    BY <1>2, <1>3 DEF IInv, TypeOK
  <2> QED BY <1>1, <2>1, <2>2, <2>3, KindsStay DEF IInv, TypeOK
<1>12. ProgressInv' /\ SetOnce'
  BY <1>1, <1>2, KindsStay DEF IInv, ProgressInv, SetOnce
<1> QED BY <1>1, <1>9, <1>10, <1>11, <1>12 DEF IInv

\* Every step of Init() keeps the invariant.
LEMMA NextInvariant == IInv /\ [Next]_vars => IInv'
<1> SUFFICES ASSUME IInv, [Next]_vars PROVE IInv'
  OBVIOUS
<1>1. CASE UNCHANGED vars
  <2>1. /\ UNCHANGED <<machine, phase, inits, next, agent, cpu_agent>>
        /\ UNCHANGED regionVars
    BY <1>1 DEF vars
  <2>2. PassedAgents' = PassedAgents /\ PassedRegions' = PassedRegions
    BY <2>1, KindsStay DEF PassedAgents, PassedRegions, Indices
  <2>3. AgentInv' /\ RegionInv'
    BY <2>1, <2>2, AgentsStay, RegionsStay DEF IInv
  <2> QED BY <2>1, <2>3, KindsStay DEF IInv, TypeOK, SetOnce, ProgressInv, regionVars
<1> QED BY <1>1, HsaInitInvariant, FindGpuDeviceInvariant, CreateQueueInvariant,
           FindRegionsInvariant, InitReturnsInvariant DEF Next

\* The invariant holds in every behaviour.
LEMMA Invariant == Spec => []IInv
BY InitInvariant, NextInvariant, PTL DEF Spec

-----------------------------------------------------------------------------
(* What follows. *)

(* Handles are agents and regions of the machine, and every iteration stays  *)
(* within it (dispatch.cpp:67-125).                                          *)
THEOREM DiscoveryTypeCorrect == Spec => []TypeOK
<1>1. IInv => TypeOK
  BY DEF IInv
<1> QED BY <1>1, Invariant, PTL

(* Neither assertion that a handle is set for the first time ever fails, on  *)
(* any machine and after any earlier calls (dispatch.hpp:109, 111).          *)
THEOREM DiscoverySetOnce == Spec => []SetOnce
<1>1. IInv => SetOnce
  BY DEF IInv
<1> QED BY <1>1, Invariant, PTL

\* The earliest of all agents of a kind is the first in the order of the machine.
LEMMA FirstFound ==
  ASSUME machine \in Machines(Region), NEW h \in Indices(Agents) \cup {NULL}, NEW kind,
         IsEarliest(h, AgentsOf(kind), Indices(Agents))
  PROVE  IsFirst(h, kind)
<1>1. Len(Agents) \in Nat
  BY MachineSizes
<1>2. CASE h = NULL
  BY <1>1, <1>2 DEF IsEarliest, IsFirst, AgentsOf, Indices
<1>3. CASE h # NULL
  <2>1. h \in AgentsOf(kind) /\ \A i \in AgentsOf(kind) : h <= i
    BY <1>3 DEF IsEarliest
  <2>2. \A j \in 1 .. h - 1 : j \in Indices(Agents) /\ ~(h <= j)
    BY <1>1, <1>3 DEF Indices
  <2> QED BY <1>3, <2>1, <2>2 DEF IsFirst, AgentsOf
<1> QED BY <1>2, <1>3

(* A successful Init() leaves the first GPU, the first CPU and the last      *)
(* region of each kind, whatever the calls before it did; a query that fails *)
(* unnoticed only casts doubt on the region it asked about, and one for host *)
(* access never makes device-only memory local (dispatch.cpp:67-125).        *)
THEOREM DiscoveryMisleadsLocally == Spec => []FailuresMisleadLocally
<1>1. IInv => FailuresMisleadLocally
  <2> SUFFICES ASSUME IInv, phase = "ready" PROVE FailuresMisleadLocally
    BY DEF FailuresMisleadLocally
  <2>1. PassedAgents = Indices(Agents) /\ PassedRegions = Indices(Regions)
    BY DEF PassedAgents, PassedRegions
  <2>2. IsFirst(agent, "GPU") /\ IsFirst(cpu_agent, "CPU")
    BY <2>1, FirstFound DEF IInv, AgentInv, TypeOK
  <2>3. Indices(Regions) \subseteq Nat \ {0}
    BY MachineSizes DEF IInv, Indices
  <2>4. /\ IsLatest(kernarg_region, KernargRegions, misread, misread, Indices(Regions))
        /\ IsLatest(system_region, FineRegions, misread, misread, Indices(Regions))
        /\ IsLatest(local_region, LocalRegions, misread, Unsure, Indices(Regions))
        /\ IsLatest(gpu_local_region, GPULocalRegions, Unsure, misread, Indices(Regions))
    BY <2>1 DEF IInv, RegionInv
  <2>5. IsLastBut(kernarg_region, Kernarg, misread, misread)
    BY <2>3, <2>4 DEF IsLatest, IsLastBut, KernargRegions
  <2>6. IsLastBut(system_region, Fine, misread, misread)
    BY <2>3, <2>4 DEF IsLatest, IsLastBut, FineRegions
  <2>7. IsLastBut(local_region, Local, misread, misread \cup denied)
    BY <2>3, <2>4 DEF IsLatest, IsLastBut, LocalRegions, Unsure
  <2>8. IsLastBut(gpu_local_region, GPULocal, misread \cup denied, misread)
    BY <2>3, <2>4 DEF IsLatest, IsLastBut, GPULocalRegions, Unsure
  <2>9. local_region # NULL => Regions[local_region].accessible
    BY DEF IInv, RegionInv
  <2> QED BY <2>2, <2>5, <2>6, <2>7, <2>8, <2>9 DEF FailuresMisleadLocally
<1> QED BY <1>1, Invariant, PTL

(* Init() returns true only on a machine with a GPU, with a region for       *)
(* kernel arguments or one that a failed query has made it take for one      *)
(* (dispatch.cpp:146, 163).                                                  *)
THEOREM DiscoveryUsable == Spec => []ReadyIsUsable
<1>1. IInv => ReadyIsUsable
  BY DEF IInv, ProgressInv, AgentInv, RegionInv, IsEarliest, IsLatest, AgentsOf,
         KernargRegions, ReadyIsUsable
<1> QED BY <1>1, Invariant, PTL

=============================================================================
