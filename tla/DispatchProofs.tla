--------------------------- MODULE DispatchProofs ---------------------------
(***************************************************************************)
(* Theorems about module Dispatch, for every number of calls of Run(),     *)
(* every queue size, every time limit and every set of sizes.              *)
(***************************************************************************)
EXTENDS DispatchInv, TLAPS

USE RunsAssumption, QueueAssumption, ClockAssumption, ExtentsAssumption,
    SegmentAssumption DEF NULL, Runs, Unit

-----------------------------------------------------------------------------
(* Lemmas about the packet. *)

\* The two headers that ever occur are different, and recognised by the type.
LEMMA HeadersDiffer ==
  /\ NoHeader # DispatchHeader
  /\ \A h \in Headers : h.type = "KERNEL_DISPATCH" <=> h = DispatchHeader
BY DEF NoHeader, DispatchHeader, Headers

\* The packet with index 0 is in slot 0, which every queue has.
LEMMA FirstSlot == Slot(0) = 0 /\ 0 \in Slots
BY DEF Slot, Slots

\* The first slot of every ring holds a packet.
LEMMA FirstPacket ==
  ASSUME IInv, NEW q \in Runs
  PROVE  ring[q][0] \in Packet
<1>1. ring \in [Runs -> [Slots -> Packet]]
  BY DEF IInv, TypeOK, Slots
<1> QED BY <1>1, FirstSlot

\* The packet's dimension count fits its field.
LEMMA DimensionsType == \A grid : Dimensions(grid) \in 0 .. 3
BY DEF Dimensions

\* A sum of two uint32_t is a uint32_t.
LEMMA GroupSizeType ==
  ASSUME group_static_size \in Segments, group_dynamic_size \in Segments
  PROVE  GroupSegmentSize \in 0 .. Word - 1
BY DEF GroupSegmentSize

\* An unused slot, and a slot that InitDispatch has cleared, are packets.
LEMMA SlotTypes ==
  /\ FreshSlot \in Packet
  /\ \A p \in Packet, s \in Runs \cup {NULL} : ClearedSlot(p, s) \in Packet
<1>1. 0 \in 0 .. Word - 1 /\ Word - 1 \in 0 .. Word - 1
  OBVIOUS
<1> QED BY <1>1 DEF FreshSlot, ClearedSlot, Packet, Headers

\* A packet store changes slot 0 of the current queue and nothing else.
LEMMA WriteAqlEffect ==
  ASSUME TypeOK, queue \in Runs, packet_index = 0, NEW p \in Packet, WriteAql(p)
  PROVE  /\ ring' \in [Runs -> [0 .. QueueSize - 1 -> Packet]]
         /\ ring'[queue][0] = p
         /\ \A q \in Runs, s \in Slots :
              q # queue \/ s # 0 => ring'[q][s] = ring[q][s]
BY FirstSlot DEF TypeOK, WriteAql, Slots

\* *aql is the packet in slot 0 of the current queue.
LEMMA AqlIsFirst ==
  ASSUME TypeOK, queue \in Runs, packet_index = 0
  PROVE  Aql = ring[queue][0] /\ Aql \in Packet
BY FirstSlot DEF TypeOK, Aql, Slots

-----------------------------------------------------------------------------
(* The invariant holds initially. *)

LEMMA InitInvariant == Init => IInv
<1> SUFFICES ASSUME Init PROVE IInv
  OBVIOUS
<1>1. TypeOK
  BY SlotTypes DEF Init, TypeOK, Phases, Wish, NoWish
<1>2. CallInv /\ BuildInv /\ WaitInv
  BY DEF Init, CallInv, BuildInv, WaitInv, Ready, Building
<1>3. \A q \in Runs, s \in Slots : ring[q][s].header = NoHeader
  BY DEF Init, Slots, FreshSlot
<1>4. FreshInv
  BY <1>3 DEF Init, FreshInv, Untouched
<1>5. QueueInv /\ PacketInv
  BY <1>3, FirstSlot, HeadersDiffer DEF Init, QueueInv, PacketInv
<1> QED BY <1>1, <1>2, <1>4, <1>5 DEF IInv

-----------------------------------------------------------------------------
(* Every step preserves the invariant: the steps of Run() that leave the   *)
(* packet alone.                                                           *)

\* The conjuncts about a queue only look at its own objects and history.
LEMMA QueuesUnchanged ==
  ASSUME IInv, UNCHANGED <<write_index, ring, sigval, deviceVars>>,
         \A q \in Runs : q <= run => asked'[q] = asked[q],
         run' = run \/ (run' = run + 1 /\ run' \in Runs)
  PROVE  QueueInv' /\ PacketInv'
<1>1. QueueInv'
  BY DEF IInv, QueueInv, deviceVars, Slots
<1>2. ASSUME NEW q \in Runs, q > run
      PROVE  ring[q][0].header = NoHeader /\ cp[q] = "idle"
  BY <1>2, FirstSlot DEF IInv, FreshInv, Untouched, TypeOK
<1>3. PacketInv'
  <2> SUFFICES ASSUME NEW q \in Runs
               PROVE  /\ ring'[q][0].header = DispatchHeader => Complete(ring[q][0], q)'
                      /\ cp'[q] # "idle" => Complete(launch[q], q)'
    BY DEF PacketInv
  <2>1. CASE q > run
    BY <1>2, <2>1, HeadersDiffer DEF deviceVars
  <2>2. CASE q <= run
    BY <2>2 DEF IInv, PacketInv, Complete, deviceVars
  <2> QED BY <2>1, <2>2 DEF IInv, TypeOK
<1> QED BY <1>1, <1>3

\* A call of Run() begins: it gets a number, and nothing it has made yet.
LEMMA StartRunStep == IInv /\ StartRun => IInv'
<1> SUFFICES ASSUME IInv, StartRun PROVE IInv'
  OBVIOUS
<1> USE DEF IInv, StartRun, queueVars, deviceVars
<1>1. run + 1 \in Runs /\ CarriedWish \in Wish
  <2>1. run + 1 \in Runs /\ NoWish \in Wish
    BY DEF TypeOK, NoWish, Wish
  <2>2. run # 0 => asked[run] \in Wish
    BY DEF TypeOK
  <2>3. CASE run = 0
    BY <2>1, <2>3 DEF CarriedWish
  <2>4. CASE run # 0
    BY <2>1, <2>2, <2>4 DEF CarriedWish, NoWish, Wish
  <2> QED BY <2>1, <2>3, <2>4
<1>2. TypeOK'
  <2>1. outcome' \in [Runs -> {"none", "pending", "Success", "Failed"}]
    BY <1>1 DEF TypeOK
  <2>2. asked' \in [Runs -> Wish]
    BY <1>1 DEF TypeOK
  <2>3. phase' \in Phases /\ run' \in 0 .. MaxRuns
    BY <1>1 DEF Phases
  <2> QED BY <2>1, <2>2, <2>3 DEF TypeOK
<1>3. CallInv'
  BY <1>1 DEF TypeOK, CallInv, Ready
<1>4. FreshInv'
  BY <1>1 DEF TypeOK, FreshInv, Untouched
<1>5. QueueInv' /\ PacketInv'
  <2>1. \A q \in Runs : q <= run => asked'[q] = asked[q]
    BY <1>1 DEF TypeOK
  <2>2. run' = run + 1 /\ run' \in Runs
    BY <1>1
  <2>3. UNCHANGED <<write_index, ring, sigval, deviceVars>>
    OBVIOUS
  <2> QED BY <2>1, <2>2, <2>3, QueuesUnchanged
<1>6. BuildInv'
  BY <1>1 DEF TypeOK, BuildInv, Building, CarriedWish, NoWish, Wish
<1>7. WaitInv'
  BY DEF WaitInv
<1> QED BY <1>2, <1>3, <1>4, <1>5, <1>6, <1>7

\* Init() makes a queue and a signal that no earlier call has touched.
LEMMA InitHsaStep == IInv /\ InitHsa => IInv'
<1> SUFFICES ASSUME IInv, InitHsa PROVE IInv'
  OBVIOUS
<1> USE DEF IInv, InitHsa, Return, NewSignal, queueVars, deviceVars
<1>1. run \in Runs
  BY DEF CallInv
<1>2. TypeOK'
  BY <1>1 DEF TypeOK, Phases
<1>3. CallInv'
  <2>1. \/ phase' = "idle" /\ outcome' = [outcome EXCEPT ![run] = "Failed"]
        \/ /\ phase' = "InitDispatch" /\ outcome' = outcome
           /\ queue' = run /\ signal' = run
    BY DEF Ready
  <2>2. CASE phase' = "idle" /\ outcome' = [outcome EXCEPT ![run] = "Failed"]
    BY <1>1, <2>2 DEF TypeOK, CallInv, Ready
  <2>3. CASE /\ phase' = "InitDispatch" /\ outcome' = outcome
             /\ queue' = run /\ signal' = run
    BY <1>1, <2>3 DEF CallInv, Ready
  <2> QED BY <2>1, <2>2, <2>3
<1>4. FreshInv'
  BY DEF TypeOK, FreshInv, Untouched
<1>5. QueueInv' /\ PacketInv'
  BY QueuesUnchanged
<1>6. BuildInv'
  BY DEF BuildInv, Building
<1>7. WaitInv'
  BY DEF WaitInv
<1> QED BY <1>2, <1>3, <1>4, <1>5, <1>6, <1>7

\* The HSA wait returns the signal's value: 0 only if it was decremented.
LEMMA WaitReturnsStep == IInv /\ WaitReturns => IInv'
<1> SUFFICES ASSUME IInv, WaitReturns PROVE IInv'
  OBVIOUS
<1> USE DEF IInv, WaitReturns, queueVars, deviceVars
<1>1. signal \in Runs /\ signal = run
  BY DEF CallInv, Ready, Phases
<1>2. TypeOK'
  BY <1>1 DEF TypeOK, Phases
<1>3. CallInv'
  BY DEF CallInv, Ready, Phases
<1>4. FreshInv'
  BY DEF FreshInv, Untouched
<1>5. QueueInv' /\ PacketInv'
  BY QueuesUnchanged
<1>6. BuildInv'
  BY DEF BuildInv, Building
<1>7. WaitInv'
  BY <1>1 DEF WaitInv
<1> QED BY <1>2, <1>3, <1>4, <1>5, <1>6, <1>7

\* Wait() ends by the clock, ends by the value, or goes round.
LEMMA CheckClockStep == IInv /\ CheckClock => IInv'
<1> SUFFICES ASSUME IInv, CheckClock PROVE IInv'
  OBVIOUS
<1> USE DEF IInv, CheckClock, Return, queueVars, deviceVars
<1>1. run \in Runs
  BY DEF CallInv
<1>2. TypeOK'
  BY <1>1 DEF TypeOK, Phases
<1>3. CallInv'
  BY <1>1 DEF TypeOK, CallInv, Ready, Phases
<1>4. FreshInv'
  BY DEF FreshInv, Untouched
<1>5. QueueInv' /\ PacketInv'
  BY QueuesUnchanged
<1>6. BuildInv'
  BY DEF BuildInv, Building
<1>7. WaitInv'
  BY DEF WaitInv, Completed
<1> QED BY <1>2, <1>3, <1>4, <1>5, <1>6, <1>7

\* Processor time passes and nothing else changes.
LEMMA TickStep == IInv /\ Tick => IInv'
<1> SUFFICES ASSUME IInv, Tick PROVE IInv'
  OBVIOUS
<1> USE DEF IInv, Tick, queueVars, deviceVars
<1>1. TypeOK'
  BY DEF TypeOK
<1>2. CallInv' /\ FreshInv' /\ BuildInv' /\ WaitInv'
  BY DEF CallInv, FreshInv, Untouched, BuildInv, WaitInv
<1>3. QueueInv' /\ PacketInv'
  BY QueuesUnchanged
<1> QED BY <1>1, <1>2, <1>3

\* The call ends with the client's verdict.
LEMMA VerifyStep == IInv /\ Verify => IInv'
<1> SUFFICES ASSUME IInv, Verify PROVE IInv'
  OBVIOUS
<1> USE DEF IInv, Verify, Return, queueVars, deviceVars
<1>1. run \in Runs
  BY DEF CallInv
<1>2. TypeOK'
  BY <1>1 DEF TypeOK, Phases
<1>3. CallInv'
  BY <1>1 DEF TypeOK, CallInv, Ready
<1>4. FreshInv'
  BY DEF FreshInv, Untouched
<1>5. QueueInv' /\ PacketInv'
  BY QueuesUnchanged
<1>6. BuildInv' /\ WaitInv'
  BY DEF BuildInv, Building, WaitInv
<1> QED BY <1>2, <1>3, <1>4, <1>5, <1>6

-----------------------------------------------------------------------------
(* The steps that write the packet. *)

\* A step that writes to the rings and to nothing else the packets depend on.
LEMMA PacketsComplete ==
  ASSUME UNCHANGED <<cp, launch, asked>>,
         \A q \in Runs :
           /\ ring'[q][0].header = DispatchHeader => Complete(ring'[q][0], q)
           /\ cp[q] # "idle" => Complete(launch[q], q)
  PROVE  PacketInv'
BY DEF PacketInv, Complete

\* A fresh packet in a fresh queue: index 0, cleared, with the call's signal.
LEMMA InitDispatchStep == IInv /\ InitDispatch => IInv'
<1> SUFFICES ASSUME IInv, InitDispatch PROVE IInv'
  OBVIOUS
<1> DEFINE p == ClearedSlot(ring[run][0], run)
<1>1. run \in Runs /\ queue = run /\ signal = run
  BY DEF IInv, CallInv, Ready, InitDispatch, Phases
<1>2. Untouched(run) /\ asked[run].workgroup = Unit /\ asked[run].grid = Unit
        /\ asked[run].kernarg = NULL
  BY <1>1 DEF IInv, FreshInv, BuildInv, InitDispatch
<1>3. p \in Packet /\ p.header = NoHeader /\ p.workgroup = Unit /\ p.grid = Unit
        /\ p.kernarg_address = NULL /\ p.completion_signal = run
  BY <1>1, <1>2, SlotTypes, FirstSlot DEF IInv, TypeOK, ClearedSlot, Untouched, Slots
<1>4. /\ packet_index' = 0
      /\ write_index' = [write_index EXCEPT ![run] = 1]
  BY <1>1, <1>2 DEF IInv, TypeOK, InitDispatch, Untouched
<1>5. /\ ring' \in [Runs -> [0 .. QueueSize - 1 -> Packet]]
      /\ ring'[run][0] = p
      /\ \A q \in Runs, s \in Slots :
           q # run \/ s # 0 => ring'[q][s] = ring[q][s]
  BY <1>1, <1>3, <1>4, FirstSlot DEF IInv, TypeOK, InitDispatch, InitialPacket, Slots
<1> HIDE DEF p
<1>6. TypeOK'
  <2>1. TypeOK
    BY DEF IInv
  <2>2. write_index' \in [Runs -> Nat] /\ packet_index' \in Nat
    BY <1>1, <1>4, <2>1 DEF TypeOK
  <2>3. /\ phase' = "SetupExecutable"
        /\ UNCHANGED <<run, queue, signal, group_static_size, group_dynamic_size, result,
                       clk, outcome, doorbell, sigval, read_index, cp, launch, visible,
                       asked>>
    BY DEF InitDispatch, deviceVars
  <2> QED BY <1>5, <2>1, <2>2, <2>3 DEF TypeOK, Phases
<1> USE DEF IInv, InitDispatch, deviceVars
<1>7. CallInv'
  BY <1>1, <1>4 DEF CallInv, Ready, Phases
<1>8. FreshInv'
  BY <1>1, <1>4, <1>5 DEF TypeOK, FreshInv, Untouched
<1>9. QueueInv'
  BY <1>1, <1>2, <1>3, <1>4, <1>5, FirstSlot, HeadersDiffer
  DEF TypeOK, QueueInv, Untouched, Slots
<1>10. PacketInv'
  <2> SUFFICES ASSUME NEW q \in Runs
               PROVE  /\ ring'[q][0].header = DispatchHeader => Complete(ring'[q][0], q)
                      /\ cp[q] # "idle" => Complete(launch[q], q)
    BY PacketsComplete
  <2>1. CASE q = run
    BY <1>2, <1>3, <1>5, <2>1, HeadersDiffer DEF Untouched
  <2>2. CASE q # run
    <3>1. ring'[q][0] = ring[q][0]
      BY <1>5, <2>2, FirstSlot
    <3> QED BY <3>1 DEF PacketInv
  <2> QED BY <2>1, <2>2
<1>11. BuildInv'
  BY <1>1, <1>2, <1>3, <1>5 DEF BuildInv, Building, Untouched
<1>12. WaitInv'
  BY DEF WaitInv
<1> QED BY <1>6, <1>7, <1>8, <1>9, <1>10, <1>11, <1>12

(* A store to *aql by the host, while the packet is its own, and what it    *)
(* notes of the client's wishes, leave the other queues alone.              *)
LEMMA AqlStore ==
  ASSUME IInv, phase \in Building, NEW p \in Packet, WriteAql(p),
         p.header = NoHeader,
         UNCHANGED <<run, queue, signal, packet_index, write_index, doorbell,
                     sigval, deviceVars>>,
         phase' \in Building \cup {"idle"},
         phase' = "idle" \/ outcome' = outcome,
         asked' \in [Runs -> Wish],
         \A q \in Runs \ {run} : asked'[q] = asked[q]
  PROVE  /\ ring' \in [Runs -> [0 .. QueueSize - 1 -> Packet]]
         /\ ring'[run][0] = p
         /\ FreshInv' /\ QueueInv' /\ PacketInv' /\ WaitInv'
<1>1. run \in Runs /\ queue = run /\ packet_index = 0
  BY DEF IInv, CallInv, Ready, Building, Phases
<1>2. /\ ring' \in [Runs -> [0 .. QueueSize - 1 -> Packet]]
      /\ ring'[run][0] = p
      /\ \A q \in Runs, s \in Slots : q # run \/ s # 0 => ring'[q][s] = ring[q][s]
  BY <1>1, WriteAqlEffect DEF IInv
<1>3. cp[run] = "idle" /\ ring[run][0].header = NoHeader
  BY DEF IInv, BuildInv
<1>4. FreshInv'
  BY <1>1, <1>2 DEF IInv, TypeOK, FreshInv, Untouched, Building, deviceVars
<1>5. ASSUME NEW q \in Runs
      PROVE  ring'[q][0].header = ring[q][0].header
             /\ \A s \in Slots \ {0} : ring'[q][s] = ring[q][s]
  BY <1>1, <1>2, <1>3, FirstSlot
<1>6. QueueInv'
  <2> SUFFICES ASSUME NEW q \in Runs
               PROVE  /\ cp[q] = "retired" => ring'[q][0].header = NoHeader
                      /\ cp[q] \in {"running", "ended"} =>
                           ring'[q][0].header = DispatchHeader
                      /\ \A s \in Slots \ {0} : ring'[q][s].header = NoHeader
    BY DEF IInv, QueueInv, deviceVars
  <2> QED BY <1>5 DEF IInv, QueueInv
<1>7. PacketInv'
  <2> SUFFICES ASSUME NEW q \in Runs
               PROVE  /\ ring'[q][0].header = DispatchHeader => Complete(ring[q][0], q)'
                      /\ cp'[q] # "idle" => Complete(launch[q], q)'
    BY DEF PacketInv
  <2>1. CASE q = run
    BY <2>1, <1>2, <1>3, HeadersDiffer DEF deviceVars
  <2>2. CASE q # run
    <3>1. /\ asked'[q] = asked[q] /\ ring'[q][0] = ring[q][0]
          /\ cp'[q] = cp[q] /\ launch'[q] = launch[q]
      BY <2>2, <1>1, <1>2, FirstSlot DEF deviceVars
    <3>2. /\ ring[q][0].header = DispatchHeader => Complete(ring[q][0], q)
          /\ cp[q] # "idle" => Complete(launch[q], q)
      BY DEF IInv, PacketInv
    <3> QED BY <3>1, <3>2 DEF Complete
  <2> QED BY <2>1, <2>2
<1>8. WaitInv'
  BY DEF WaitInv, Building
<1> QED BY <1>2, <1>4, <1>6, <1>7, <1>8

(* The packet p under construction says what the client has asked for.     *)
PacketFollows(p) ==
  /\ p.workgroup = asked[run].workgroup
  /\ p.grid = asked[run].grid
  /\ p.kernarg_address = asked[run].kernarg
  /\ p.completion_signal = run
  /\ p.kernel_object = run
  /\ group_static_size = asked[run].static
  /\ asked[run].explicit => group_dynamic_size = asked[run].dynamic
  /\ phase = "Header" /\ asked[run].explicit =>
       p.group = (asked[run].static + asked[run].dynamic) % Word

(* So a step of Setup() or RunDispatch that keeps the two together, and    *)
(* leaves the header alone, preserves the invariant.                        *)
LEMMA BuildStep ==
  ASSUME IInv, phase \in Building, NEW p \in Packet, WriteAql(p),
         p.header = NoHeader, PacketFollows(p)',
         UNCHANGED <<run, queue, signal, packet_index, result, clk, outcome,
                     write_index, doorbell, sigval, deviceVars>>,
         phase' \in Building \ {"SetupExecutable"},
         group_static_size' \in Segments, group_dynamic_size' \in Segments,
         asked' \in [Runs -> Wish],
         \A q \in Runs \ {run} : asked'[q] = asked[q]
  PROVE  IInv'
<1>1. /\ ring' \in [Runs -> [0 .. QueueSize - 1 -> Packet]]
      /\ ring'[run][0] = p
      /\ FreshInv' /\ QueueInv' /\ PacketInv' /\ WaitInv'
  BY AqlStore
<1>2. TypeOK'
  BY <1>1 DEF IInv, TypeOK, Phases, Building, deviceVars
<1>3. CallInv'
  BY DEF IInv, CallInv, Ready, Building, Phases
<1>4. BuildInv'
  <2>1. cp'[run] = "idle"
    BY DEF IInv, BuildInv, deviceVars
  <2> QED BY <1>1, <2>1 DEF BuildInv, Building, PacketFollows
<1> QED BY <1>1, <1>2, <1>3, <1>4 DEF IInv

\* What a step in one of the packet-building phases starts from.
LEMMA BuildingFacts ==
  ASSUME IInv, phase \in Building
  PROVE  /\ run \in Runs /\ queue = run /\ signal = run /\ packet_index = 0
         /\ outcome[run] = "pending"
         /\ Aql = ring[run][0] /\ Aql \in Packet /\ Aql.header = NoHeader
         /\ asked[run] \in Wish
<1>1. /\ run \in Runs /\ queue = run /\ signal = run /\ packet_index = 0
      /\ outcome[run] = "pending"
  BY DEF IInv, CallInv, Ready, Building, Phases
<1>2. Aql = ring[run][0] /\ Aql \in Packet
  BY <1>1, AqlIsFirst DEF IInv
<1>3. Aql.header = NoHeader
  BY <1>2 DEF IInv, BuildInv
<1> QED BY <1>1, <1>2, <1>3 DEF IInv, TypeOK

\* The kernel object and its static group size enter packet and history.
LEMMA SetupExecutableStep == IInv /\ SetupExecutable => IInv'
<1> SUFFICES ASSUME IInv, SetupExecutable PROVE IInv'
  OBVIOUS
<1> USE DEF SetupExecutable, Return, Ask, queueVars, deviceVars
<1>1. phase \in Building /\ run \in Runs
  BY BuildingFacts DEF Building
<1>2. CASE phase' = "idle"
  <2> USE DEF IInv
  <2>1. outcome' = [outcome EXCEPT ![run] = "Failed"] /\ ring' = ring
        /\ asked' = asked /\ group_static_size' = group_static_size
    BY <1>2
  <2>2. TypeOK'
    BY <1>1, <1>2, <2>1 DEF TypeOK, Phases
  <2>3. CallInv'
    BY <1>1, <1>2, <2>1 DEF TypeOK, CallInv, Ready
  <2>4. FreshInv' /\ BuildInv' /\ WaitInv'
    BY <1>2, <2>1 DEF FreshInv, Untouched, BuildInv, Building, WaitInv
  <2>5. QueueInv' /\ PacketInv'
    BY <2>1, QueuesUnchanged
  <2> QED BY <2>2, <2>3, <2>4, <2>5
<1>3. CASE phase' # "idle"
  <2>1. PICK size \in Segments :
          /\ group_static_size' = size
          /\ WriteAql([Aql EXCEPT !.kernel_object = run])
          /\ asked' = [asked EXCEPT ![run].static = size]
          /\ phase' = "Setup"
          /\ UNCHANGED outcome
    BY <1>3
  <2>2. PICK p \in Packet :
          /\ p = [Aql EXCEPT !.kernel_object = run]
          /\ p.header = NoHeader /\ p.kernel_object = run
          /\ p.workgroup = Aql.workgroup /\ p.grid = Aql.grid
          /\ p.kernarg_address = Aql.kernarg_address
          /\ p.completion_signal = Aql.completion_signal
    BY <1>1, BuildingFacts DEF Packet
  <2>3. WriteAql(p)
    BY <2>1, <2>2
  <2>4. asked' \in [Runs -> Wish] /\ asked'[run] = [asked[run] EXCEPT !.static = size]
        /\ \A q \in Runs \ {run} : asked'[q] = asked[q]
    BY <1>1, <2>1, BuildingFacts DEF IInv, TypeOK, Wish
  <2>5. PacketFollows(p)'
    <3>1. /\ p.workgroup = asked[run].workgroup /\ p.grid = asked[run].grid
          /\ p.kernarg_address = asked[run].kernarg /\ p.completion_signal = run
          /\ asked[run].explicit => group_dynamic_size = asked[run].dynamic
      BY <1>1, <2>2, BuildingFacts DEF IInv, BuildInv
    <3>2. /\ asked'[run].workgroup = asked[run].workgroup
          /\ asked'[run].grid = asked[run].grid
          /\ asked'[run].kernarg = asked[run].kernarg
          /\ asked'[run].static = size
          /\ asked'[run].dynamic = asked[run].dynamic
          /\ asked'[run].explicit = asked[run].explicit
      BY <2>4, <1>1, BuildingFacts DEF Wish
    <3> QED BY <2>1, <2>2, <3>1, <3>2 DEF PacketFollows
  <2>6. UNCHANGED <<run, queue, signal, packet_index, result, clk, outcome,
                    write_index, doorbell, sigval, deviceVars>>
    BY <2>1
  <2>7. /\ phase' \in Building \ {"SetupExecutable"}
        /\ group_static_size' \in Segments /\ group_dynamic_size' \in Segments
    BY <2>1 DEF IInv, TypeOK, Building
  <2> QED BY <1>1, <2>2, <2>3, <2>4, <2>5, <2>6, <2>7, BuildStep
<1> QED BY <1>2, <1>3

\* In Setup(), the packet in the ring follows the client so far.
LEMMA SetupFacts ==
  ASSUME IInv, phase = "Setup" \/ phase = "GroupSize"
  PROVE  /\ phase \in Building
         /\ Aql.workgroup = asked[run].workgroup /\ Aql.grid = asked[run].grid
         /\ Aql.kernarg_address = asked[run].kernarg
         /\ Aql.completion_signal = run /\ Aql.kernel_object = run
         /\ group_static_size = asked[run].static
         /\ asked[run].explicit => group_dynamic_size = asked[run].dynamic
<1>1. phase \in Building \ {"SetupExecutable"}
  BY DEF Building
<1> QED BY <1>1, BuildingFacts DEF IInv, BuildInv

\* The work-group size enters packet and history together.
LEMMA SetWorkgroupSizeStep ==
  ASSUME IInv, NEW size \in Extents, SetWorkgroupSize(size)
  PROVE  IInv'
<1> USE DEF InSetup, SetWorkgroupSize, Ask, deviceVars
<1>1. phase = "Setup" /\ phase' = "Setup"
  OBVIOUS
<1>2. run \in Runs /\ asked[run] \in Wish /\ size \in Extents
  BY <1>1, SetupFacts, BuildingFacts
<1>3. PICK p \in Packet :
        /\ p = [Aql EXCEPT !.workgroup = size]
        /\ p.header = NoHeader
        /\ p.workgroup = size
        /\ p.grid = Aql.grid
        /\ p.kernarg_address = Aql.kernarg_address
        /\ p.completion_signal = Aql.completion_signal
        /\ p.kernel_object = Aql.kernel_object
  BY <1>1, <1>2, SetupFacts, BuildingFacts DEF Packet
<1>4. /\ asked' \in [Runs -> Wish]
      /\ asked'[run] = [asked[run] EXCEPT !.workgroup = size]
      /\ \A q \in Runs \ {run} : asked'[q] = asked[q]
  BY <1>2 DEF IInv, TypeOK, Wish
<1>5. PacketFollows(p)'
  <2>1. /\ asked'[run].workgroup = size
        /\ asked'[run].grid = asked[run].grid
        /\ asked'[run].kernarg = asked[run].kernarg
        /\ asked'[run].static = asked[run].static
        /\ asked'[run].dynamic = asked[run].dynamic
        /\ asked'[run].explicit = asked[run].explicit
    BY <1>2, <1>4 DEF Wish
  <2> QED BY <1>1, <1>3, <2>1, SetupFacts DEF PacketFollows
<1>6. /\ phase' \in Building \ {"SetupExecutable"}
      /\ group_static_size' \in Segments /\ group_dynamic_size' \in Segments
  BY <1>1 DEF IInv, TypeOK, Building
<1>7. WriteAql(p)
  BY <1>3
<1>8. UNCHANGED <<run, queue, signal, packet_index, result, clk, outcome,
                  write_index, doorbell, sigval, deviceVars>>
  OBVIOUS
<1> QED BY <1>1, <1>3, <1>4, <1>5, <1>6, <1>7, <1>8, SetupFacts, BuildStep

\* The grid size enters packet and history together.
LEMMA SetGridSizeStep ==
  ASSUME IInv, NEW size \in Extents, SetGridSize(size)
  PROVE  IInv'
<1> USE DEF InSetup, SetGridSize, Ask, deviceVars
<1>1. phase = "Setup" /\ phase' = "Setup"
  OBVIOUS
<1>2. run \in Runs /\ asked[run] \in Wish /\ size \in Extents
  BY <1>1, SetupFacts, BuildingFacts
<1>3. PICK p \in Packet :
        /\ p = [Aql EXCEPT !.grid = size]
        /\ p.header = NoHeader
        /\ p.workgroup = Aql.workgroup
        /\ p.grid = size
        /\ p.kernarg_address = Aql.kernarg_address
        /\ p.completion_signal = Aql.completion_signal
        /\ p.kernel_object = Aql.kernel_object
  BY <1>1, <1>2, SetupFacts, BuildingFacts DEF Packet
<1>4. /\ asked' \in [Runs -> Wish]
      /\ asked'[run] = [asked[run] EXCEPT !.grid = size]
      /\ \A q \in Runs \ {run} : asked'[q] = asked[q]
  BY <1>2 DEF IInv, TypeOK, Wish
<1>5. PacketFollows(p)'
  <2>1. /\ asked'[run].workgroup = asked[run].workgroup
        /\ asked'[run].grid = size
        /\ asked'[run].kernarg = asked[run].kernarg
        /\ asked'[run].static = asked[run].static
        /\ asked'[run].dynamic = asked[run].dynamic
        /\ asked'[run].explicit = asked[run].explicit
    BY <1>2, <1>4 DEF Wish
  <2> QED BY <1>1, <1>3, <2>1, SetupFacts DEF PacketFollows
<1>6. /\ phase' \in Building \ {"SetupExecutable"}
      /\ group_static_size' \in Segments /\ group_dynamic_size' \in Segments
  BY <1>1 DEF IInv, TypeOK, Building
<1>7. WriteAql(p)
  BY <1>3
<1>8. UNCHANGED <<run, queue, signal, packet_index, result, clk, outcome,
                  write_index, doorbell, sigval, deviceVars>>
  OBVIOUS
<1> QED BY <1>1, <1>3, <1>4, <1>5, <1>6, <1>7, <1>8, SetupFacts, BuildStep

\* The argument block enters packet and history together, or Setup() fails.
LEMMA AllocateKernargStep ==
  ASSUME IInv, AllocateKernarg
  PROVE  IInv'
<1> USE DEF InSetup, AllocateKernarg, Ask, deviceVars
<1>1. phase = "Setup" /\ phase' = "Setup"
  OBVIOUS
<1>2. run \in Runs /\ asked[run] \in Wish /\ run \in Runs \cup {NULL}
  BY <1>1, SetupFacts, BuildingFacts
<1>3. PICK p \in Packet :
        /\ p = [Aql EXCEPT !.kernarg_address = run]
        /\ p.header = NoHeader
        /\ p.workgroup = Aql.workgroup
        /\ p.grid = Aql.grid
        /\ p.kernarg_address = run
        /\ p.completion_signal = Aql.completion_signal
        /\ p.kernel_object = Aql.kernel_object
  BY <1>1, <1>2, SetupFacts, BuildingFacts DEF Packet
<1>4. /\ asked' \in [Runs -> Wish]
      /\ asked'[run] = [asked[run] EXCEPT !.kernarg = run]
      /\ \A q \in Runs \ {run} : asked'[q] = asked[q]
  BY <1>2 DEF IInv, TypeOK, Wish
<1>5. PacketFollows(p)'
  <2>1. /\ asked'[run].workgroup = asked[run].workgroup
        /\ asked'[run].grid = asked[run].grid
        /\ asked'[run].kernarg = run
        /\ asked'[run].static = asked[run].static
        /\ asked'[run].dynamic = asked[run].dynamic
        /\ asked'[run].explicit = asked[run].explicit
    BY <1>2, <1>4 DEF Wish
  <2> QED BY <1>1, <1>3, <2>1, SetupFacts DEF PacketFollows
<1>6. /\ phase' \in Building \ {"SetupExecutable"}
      /\ group_static_size' \in Segments /\ group_dynamic_size' \in Segments
  BY <1>1 DEF IInv, TypeOK, Building
<1>7. WriteAql(p)
  BY <1>3
<1>8. UNCHANGED <<run, queue, signal, packet_index, result, clk, outcome,
                  write_index, doorbell, sigval, deviceVars>>
  OBVIOUS
<1> QED BY <1>1, <1>3, <1>4, <1>5, <1>6, <1>7, <1>8, SetupFacts, BuildStep

\* The dynamic size enters the member and the history, not yet the packet.
LEMMA SetDynamicGroupSegmentSizeStep ==
  ASSUME IInv, NEW size \in Segments, SetDynamicGroupSegmentSize(size)
  PROVE  IInv'
<1> USE DEF InSetup, SetDynamicGroupSegmentSize, deviceVars
<1>1. phase = "Setup" /\ phase' = "Setup"
  OBVIOUS
<1>2. run \in Runs /\ asked[run] \in Wish /\ queue = run /\ packet_index = 0
  BY <1>1, SetupFacts, BuildingFacts
<1>3. PICK p \in Packet : p = Aql /\ p.header = NoHeader
  BY <1>1, SetupFacts, BuildingFacts
<1>4. WriteAql(p)
  BY <1>2, <1>3, FirstSlot DEF IInv, TypeOK, WriteAql, Aql, Slots
<1>5. /\ asked' \in [Runs -> Wish]
      /\ asked'[run] = [asked[run] EXCEPT !.dynamic = size, !.explicit = TRUE]
      /\ \A q \in Runs \ {run} : asked'[q] = asked[q]
  BY <1>2 DEF IInv, TypeOK, Wish
<1>6. PacketFollows(p)'
  <2>1. /\ asked'[run].workgroup = asked[run].workgroup
        /\ asked'[run].grid = asked[run].grid
        /\ asked'[run].kernarg = asked[run].kernarg
        /\ asked'[run].static = asked[run].static
        /\ asked'[run].dynamic = size
    BY <1>2, <1>5 DEF Wish
  <2> QED BY <1>1, <1>3, <2>1, SetupFacts DEF PacketFollows
<1>7. /\ phase' \in Building \ {"SetupExecutable"}
      /\ group_static_size' \in Segments /\ group_dynamic_size' \in Segments
  BY <1>1 DEF IInv, TypeOK, Building
<1>8. UNCHANGED <<run, queue, signal, packet_index, result, clk, outcome,
                  write_index, doorbell, sigval, deviceVars>>
  OBVIOUS
<1> QED BY <1>1, <1>3, <1>4, <1>5, <1>6, <1>7, <1>8, SetupFacts, BuildStep

\* Setup() returns, and its packet goes to RunDispatch or is abandoned.
LEMMA SetupReturnsStep == IInv /\ SetupReturns => IInv'
<1> SUFFICES ASSUME IInv, SetupReturns PROVE IInv'
  OBVIOUS
<1> USE DEF IInv, SetupReturns, InSetup, Return, deviceVars
<1>1. run \in Runs
  BY DEF CallInv
<1>2. TypeOK'
  BY <1>1 DEF TypeOK, Phases
<1>3. CallInv'
  BY <1>1 DEF TypeOK, CallInv, Ready, Phases
<1>4. FreshInv' /\ WaitInv'
  BY DEF FreshInv, Untouched, WaitInv
<1>5. QueueInv' /\ PacketInv'
  BY QueuesUnchanged
<1>6. BuildInv'
  BY DEF BuildInv, Building
<1> QED BY <1>2, <1>3, <1>4, <1>5, <1>6

-----------------------------------------------------------------------------
(* RunDispatch. *)

\* The sum of the group sizes enters the packet while it is still invalid.
LEMMA StoreGroupSizeStep == IInv /\ StoreGroupSize => IInv'
<1> SUFFICES ASSUME IInv, StoreGroupSize PROVE IInv'
  OBVIOUS
<1> USE DEF StoreGroupSize, deviceVars
<1>1. phase = "GroupSize" /\ phase' = "Header"
  OBVIOUS
<1>2. GroupSegmentSize \in 0 .. Word - 1
  BY GroupSizeType DEF IInv, TypeOK
<1>3. PICK p \in Packet :
        /\ p = [Aql EXCEPT !.group = GroupSegmentSize]
        /\ p.header = NoHeader
        /\ p.workgroup = Aql.workgroup /\ p.grid = Aql.grid
        /\ p.kernarg_address = Aql.kernarg_address
        /\ p.completion_signal = Aql.completion_signal
        /\ p.kernel_object = Aql.kernel_object
        /\ p.group = GroupSegmentSize
  BY <1>1, <1>2, SetupFacts, BuildingFacts DEF Packet
<1>4. PacketFollows(p)'
  BY <1>1, <1>3, SetupFacts DEF PacketFollows, GroupSegmentSize
<1>5. /\ phase' \in Building \ {"SetupExecutable"}
      /\ group_static_size' \in Segments /\ group_dynamic_size' \in Segments
      /\ asked' \in [Runs -> Wish] /\ \A q \in Runs \ {run} : asked'[q] = asked[q]
  BY <1>1 DEF IInv, TypeOK, Building
<1>6. WriteAql(p)
  BY <1>3
<1>7. UNCHANGED <<run, queue, signal, packet_index, result, clk, outcome,
                  write_index, doorbell, sigval, deviceVars>>
  OBVIOUS
<1> QED BY <1>1, <1>3, <1>4, <1>5, <1>6, <1>7, SetupFacts, BuildStep

\* The release store of the header hands the finished packet over.
LEMMA StoreHeaderStep == IInv /\ StoreHeader => IInv'
<1> SUFFICES ASSUME IInv, StoreHeader PROVE IInv'
  OBVIOUS
<1> DEFINE p == [Aql EXCEPT !.header = DispatchHeader, !.setup = Dimensions(Aql.grid)]
<1>1. phase = "Header" /\ phase' = "Doorbell" /\ phase \in Building
  BY DEF StoreHeader, Building
<1>2. /\ run \in Runs /\ queue = run /\ packet_index = 0
      /\ Aql = ring[run][0] /\ Aql \in Packet
  BY <1>1, BuildingFacts
<1>3. cp[run] = "idle" /\ write_index[run] \in {0, 1}
  BY <1>1, <1>2 DEF IInv, BuildInv, QueueInv
<1>4. p \in Packet /\ p.header = DispatchHeader
  BY <1>2, DimensionsType DEF Packet, Headers
<1>5. Complete(p, run)
  BY <1>1, <1>2 DEF IInv, BuildInv, Building, Complete, Packet
<1>6. /\ ring' \in [Runs -> [0 .. QueueSize - 1 -> Packet]]
      /\ ring'[run][0] = p
      /\ \A q \in Runs, s \in Slots : q # run \/ s # 0 => ring'[q][s] = ring[q][s]
  BY <1>2, <1>4, WriteAqlEffect DEF IInv, StoreHeader
<1>u. UNCHANGED <<run, queue, signal, packet_index, group_static_size,
                  group_dynamic_size, result, clk, outcome, write_index,
                  doorbell, sigval, read_index, cp, launch, visible, asked>>
  BY DEF StoreHeader, deviceVars
<1> HIDE DEF p
<1> USE DEF IInv
<1>7. TypeOK'
  BY <1>1, <1>6, <1>u DEF TypeOK, Phases
<1>8. CallInv'
  BY <1>1, <1>u DEF CallInv, Ready, Phases
<1>9. FreshInv'
  <2> SUFFICES ASSUME NEW q \in Runs, q > run PROVE Untouched(q)'
    BY <1>1, <1>u DEF FreshInv
  <2>1. Untouched(q) /\ q # run
    BY <1>2 DEF FreshInv
  <2> QED BY <2>1, <1>6, <1>u DEF Untouched
<1>10. QueueInv'
  <2> SUFFICES ASSUME NEW q \in Runs
               PROVE  /\ cp[q] = "retired" => ring'[q][0].header = NoHeader
                      /\ cp[q] \in {"running", "ended"} =>
                           ring'[q][0].header = DispatchHeader
                      /\ \A s \in Slots \ {0} : ring'[q][s].header = NoHeader
    BY <1>u DEF QueueInv
  <2>1. ASSUME NEW s \in Slots \ {0} PROVE ring'[q][s].header = NoHeader
    <3>1. ring'[q][s] = ring[q][s]
      BY <1>6
    <3> QED BY <3>1 DEF QueueInv
  <2>2. CASE q = run
    BY <2>1, <2>2, <1>3
  <2>3. CASE q # run
    <3>1. ring'[q][0] = ring[q][0]
      BY <2>3, <1>6, FirstSlot
    <3> QED BY <2>1, <3>1 DEF QueueInv
  <2> QED BY <2>2, <2>3
<1>11. PacketInv'
  <2> SUFFICES ASSUME NEW q \in Runs
               PROVE  /\ ring'[q][0].header = DispatchHeader => Complete(ring'[q][0], q)
                      /\ cp[q] # "idle" => Complete(launch[q], q)
    BY <1>u DEF PacketInv, Complete
  <2>1. CASE q = run
    BY <2>1, <1>3, <1>5, <1>6
  <2>2. CASE q # run
    BY <2>2, <1>6, FirstSlot DEF PacketInv
  <2> QED BY <2>1, <2>2
<1>12. BuildInv' /\ WaitInv'
  BY <1>1, <1>u DEF BuildInv, Building, WaitInv
<1> QED BY <1>7, <1>8, <1>9, <1>10, <1>11, <1>12

\* The doorbell is rung for a packet that is already valid or taken.
LEMMA RingDoorbellStep == IInv /\ RingDoorbell => IInv'
<1> SUFFICES ASSUME IInv, RingDoorbell PROVE IInv'
  OBVIOUS
<1> USE DEF IInv, RingDoorbell, DoorbellValue, deviceVars
<1>1. TypeOK'
  BY DEF TypeOK, Phases
<1>2. CallInv'
  BY DEF CallInv, Ready, Phases
<1>3. FreshInv' /\ BuildInv' /\ WaitInv'
  BY DEF FreshInv, Untouched, BuildInv, Building, WaitInv
<1>4. QueueInv' /\ PacketInv'
  BY QueuesUnchanged DEF TypeOK
<1> QED BY <1>1, <1>2, <1>3, <1>4

-----------------------------------------------------------------------------
(* The device. *)

\* The command processor takes a valid packet, which is a finished one.
LEMMA FetchStep == ASSUME IInv, NEW q \in Runs, Fetch(q) PROVE IInv'
<1>1. /\ read_index[q] = 0 /\ cp[q] = "idle" /\ Head(q) = ring[q][0]
      /\ ring[q][0].header.type = "KERNEL_DISPATCH"
  BY FirstSlot DEF IInv, QueueInv, Head, Fetch
<1>2. ring[q][0] \in Packet
  BY FirstPacket
<1>3. ring[q][0].header = DispatchHeader /\ ring[q][0].header # NoHeader
  BY <1>1, <1>2, HeadersDiffer DEF Packet
<1>4. ~Untouched(q) /\ ~(q = run /\ phase \in Building)
  BY <1>3, FirstSlot DEF IInv, Untouched, BuildInv
<1>5. q <= run /\ ~(q = run /\ phase \in {"Init", "InitDispatch"})
  BY <1>4 DEF IInv, TypeOK, FreshInv
<1>6. Complete(ring[q][0], q)
  BY <1>3 DEF IInv, PacketInv
<1>7. /\ cp' = [cp EXCEPT ![q] = "running"]
      /\ launch' = [launch EXCEPT ![q] = ring[q][0]]
  BY <1>1 DEF Fetch
<1>8. UNCHANGED <<phase, run, queue, signal, packet_index, group_static_size,
                  group_dynamic_size, result, clk, outcome, write_index,
                  doorbell, ring, sigval, read_index, visible, asked>>
  BY DEF Fetch, hostVars, queueVars
<1> USE DEF IInv
<1>9. TypeOK'
  BY <1>2, <1>7, <1>8 DEF TypeOK
<1>10. CallInv' /\ WaitInv'
  BY <1>8 DEF CallInv, WaitInv
<1>11. FreshInv'
  <2> SUFFICES ASSUME NEW t \in Runs,
                      t > run \/ (t = run /\ phase \in {"Init", "InitDispatch"})
               PROVE  Untouched(t)'
    BY <1>8 DEF FreshInv
  <2>1. t # q /\ Untouched(t)
    BY <1>5 DEF TypeOK, FreshInv
  <2> QED BY <2>1, <1>7, <1>8 DEF TypeOK, Untouched
<1>12. QueueInv'
  <2>1. cp'[q] = "running" /\ \A t \in Runs \ {q} : cp'[t] = cp[t]
    BY <1>7 DEF TypeOK
  <2>2. read_index[q] = 0 /\ sigval[q] = 1
    BY <1>1 DEF QueueInv
  <2> QED BY <1>1, <1>3, <1>8, <2>1, <2>2 DEF QueueInv
<1>13. PacketInv'
  <2> SUFFICES ASSUME NEW t \in Runs
               PROVE  /\ ring[t][0].header = DispatchHeader => Complete(ring[t][0], t)
                      /\ cp'[t] # "idle" => Complete(launch'[t], t)
    BY <1>8 DEF PacketInv, Complete
  <2>1. t # q => cp'[t] = cp[t] /\ launch'[t] = launch[t]
    BY <1>7 DEF TypeOK
  <2>2. t = q => launch'[t] = ring[q][0]
    BY <1>7 DEF TypeOK
  <2> QED BY <1>6, <2>1, <2>2 DEF PacketInv
<1>14. BuildInv'
  <2>1. phase \in Building => cp'[run] = cp[run]
    BY <1>4, <1>7 DEF TypeOK
  <2> QED BY <2>1, <1>8 DEF BuildInv, Building
<1> QED BY <1>9, <1>10, <1>11, <1>12, <1>13, <1>14

\* The kernel ends; its packet and signal stay as they are.
LEMMA EndKernelStep == ASSUME IInv, NEW q \in Runs, EndKernel(q) PROVE IInv'
<1>1. cp[q] = "running" /\ cp' = [cp EXCEPT ![q] = "ended"]
  BY DEF EndKernel
<1>2. UNCHANGED <<phase, run, queue, signal, packet_index, group_static_size,
                  group_dynamic_size, result, clk, outcome, write_index, launch,
                  doorbell, ring, sigval, read_index, visible, asked>>
  BY DEF EndKernel, hostVars, queueVars
<1> USE DEF IInv
<1>3. TypeOK'
  BY <1>1, <1>2 DEF TypeOK
<1>4. CallInv' /\ WaitInv'
  BY <1>2 DEF CallInv, WaitInv
<1>5. FreshInv'
  <2> SUFFICES ASSUME NEW t \in Runs,
                      t > run \/ (t = run /\ phase \in {"Init", "InitDispatch"})
               PROVE  Untouched(t)'
    BY <1>2 DEF FreshInv
  <2>1. Untouched(t)
    BY DEF FreshInv
  <2>2. cp'[t] = cp[t]
    BY <1>1, <2>1 DEF TypeOK, Untouched
  <2> QED BY <2>1, <2>2, <1>2 DEF Untouched
<1>6. QueueInv'
  BY <1>1, <1>2 DEF TypeOK, QueueInv
<1>7. PacketInv'
  <2> SUFFICES ASSUME NEW t \in Runs
               PROVE  /\ ring[t][0].header = DispatchHeader => Complete(ring[t][0], t)
                      /\ cp'[t] # "idle" => Complete(launch[t], t)
    BY <1>2 DEF PacketInv, Complete
  <2>1. cp'[t] # "idle" => cp[t] # "idle"
    BY <1>1 DEF TypeOK
  <2> QED BY <2>1 DEF PacketInv
<1>8. BuildInv'
  <2>1. phase \in Building => cp'[run] = cp[run]
    BY <1>1 DEF TypeOK, BuildInv
  <2> QED BY <2>1, <1>2 DEF BuildInv, Building
<1> QED BY <1>3, <1>4, <1>5, <1>6, <1>7, <1>8

\* Retirement decrements the signal of the packet's own call, once.
LEMMA RetireStep == ASSUME IInv, NEW q \in Runs, Retire(q) PROVE IInv'
<1>1. /\ cp[q] = "ended" /\ read_index[q] = 0 /\ sigval[q] = 1
      /\ ring[q][0].header = DispatchHeader /\ ring[q][0].header # NoHeader
  BY HeadersDiffer DEF IInv, QueueInv, Retire
<1>2. launch[q].completion_signal = q /\ launch[q].header.release = "SYSTEM"
  BY <1>1 DEF IInv, PacketInv, Complete, DispatchHeader
<1>3. /\ sigval' = [sigval EXCEPT ![q] = 0]
      /\ visible' = [visible EXCEPT ![q] = TRUE]
      /\ read_index' = [read_index EXCEPT ![q] = 1]
      /\ cp' = [cp EXCEPT ![q] = "retired"]
  <2>1. sigval[q] - 1 = 0 /\ read_index[q] + 1 = 1
    BY <1>1
  <2>2. visible' = [visible EXCEPT ![q] = TRUE]
    BY <1>2 DEF Retire
  <2> QED BY <2>1, <2>2, <1>2 DEF Retire
<1>4. PICK p \in Packet : p = [ring[q][0] EXCEPT !.header = NoHeader]
                          /\ p.header = NoHeader
  <2>1. ring[q][0] \in Packet
    BY FirstSlot DEF IInv, TypeOK, Slots
  <2>2. NoHeader \in Headers
    BY DEF Headers
  <2>3. [ring[q][0] EXCEPT !.header = NoHeader] \in Packet
    BY <2>1, <2>2 DEF Packet
  <2> QED BY <2>1, <2>3 DEF Packet
<1>5. /\ ring' \in [Runs -> [0 .. QueueSize - 1 -> Packet]]
      /\ ring'[q][0].header = NoHeader
      /\ \A t \in Runs, s \in Slots : t # q \/ s # 0 => ring'[t][s] = ring[t][s]
  <2>1. ring' = [ring EXCEPT ![q] = [ring[q] EXCEPT ![0] = p]]
    BY <1>1, <1>4, FirstSlot DEF Retire
  <2> QED BY <2>1, <1>4, FirstSlot DEF IInv, TypeOK, Slots
<1>6. UNCHANGED <<phase, run, queue, signal, packet_index, group_static_size,
                  group_dynamic_size, result, clk, outcome, write_index,
                  doorbell, launch, asked>>
  BY DEF Retire, hostVars
<1>7. ~Untouched(q) /\ ~(q = run /\ phase \in Building)
  BY <1>1, FirstSlot DEF IInv, Untouched, BuildInv
<1>8. q <= run /\ ~(q = run /\ phase \in {"Init", "InitDispatch"})
  BY <1>7 DEF IInv, TypeOK, FreshInv
<1>9. \A t \in Runs \ {q} :
        /\ cp'[t] = cp[t] /\ sigval'[t] = sigval[t] /\ visible'[t] = visible[t]
        /\ read_index'[t] = read_index[t] /\ ring'[t][0] = ring[t][0]
        /\ \A s \in Slots : ring'[t][s] = ring[t][s]
  BY <1>3, <1>5, FirstSlot DEF IInv, TypeOK
<1>10. /\ cp'[q] = "retired" /\ sigval'[q] = 0 /\ visible'[q] = TRUE
       /\ read_index'[q] = 1
  BY <1>3 DEF IInv, TypeOK
<1> USE DEF IInv
<1>11. TypeOK'
  BY <1>3, <1>5, <1>6 DEF TypeOK
<1>12. CallInv'
  BY <1>6 DEF CallInv
<1>13. WaitInv'
  BY <1>6, <1>9, <1>10 DEF TypeOK, CallInv, WaitInv
<1>14. FreshInv'
  <2> SUFFICES ASSUME NEW t \in Runs,
                      t > run \/ (t = run /\ phase \in {"Init", "InitDispatch"})
               PROVE  Untouched(t)'
    BY <1>6 DEF FreshInv
  <2>1. t # q /\ Untouched(t)
    BY <1>8 DEF TypeOK, FreshInv
  <2> QED BY <2>1, <1>6, <1>9 DEF Untouched
<1>15. QueueInv'
  <2> SUFFICES ASSUME NEW t \in Runs
               PROVE  /\ write_index[t] \in {0, 1}
                      /\ read_index'[t] = (IF cp'[t] = "retired" THEN 1 ELSE 0)
                      /\ sigval'[t] = (IF cp'[t] = "retired" THEN 0 ELSE 1)
                      /\ cp'[t] = "retired" =>
                           visible'[t] /\ ring'[t][0].header = NoHeader
                      /\ cp'[t] \in {"running", "ended"} =>
                           ring'[t][0].header = DispatchHeader
                      /\ \A s \in Slots \ {0} : ring'[t][s].header = NoHeader
    BY <1>6 DEF QueueInv
  <2>1. ASSUME NEW s \in Slots \ {0} PROVE ring'[t][s].header = NoHeader
    <3>1. ring'[t][s] = ring[t][s]
      BY <1>5
    <3> QED BY <3>1 DEF QueueInv
  <2>2. CASE t = q
    BY <2>1, <2>2, <1>5, <1>10 DEF QueueInv
  <2>3. CASE t # q
    BY <2>1, <2>3, <1>9 DEF QueueInv
  <2> QED BY <2>2, <2>3
<1>16. PacketInv'
  <2> SUFFICES ASSUME NEW t \in Runs
               PROVE  /\ ring'[t][0].header = DispatchHeader => Complete(ring'[t][0], t)
                      /\ cp'[t] # "idle" => Complete(launch[t], t)
    BY <1>6 DEF PacketInv, Complete
  <2>1. CASE t = q
    BY <2>1, <1>1, <1>5, HeadersDiffer DEF PacketInv
  <2>2. CASE t # q
    BY <2>2, <1>9 DEF PacketInv
  <2> QED BY <2>1, <2>2
<1>17. BuildInv'
  <2>1. phase \in Building => cp'[run] = cp[run] /\ ring'[run][0] = ring[run][0]
    BY <1>7, <1>9 DEF TypeOK, CallInv, Building
  <2> QED BY <2>1, <1>6 DEF BuildInv, Building
<1> QED BY <1>11, <1>12, <1>13, <1>14, <1>15, <1>16, <1>17

-----------------------------------------------------------------------------
(* The theorems. *)

\* Every step preserves the invariant: one case for each action.
LEMMA NextStep == IInv /\ [Next]_vars => IInv'
<1> SUFFICES ASSUME IInv, [Next]_vars PROVE IInv'
  OBVIOUS
<1>1. CASE StartRun
  BY <1>1, StartRunStep
<1>2. CASE InitHsa
  BY <1>2, InitHsaStep
<1>3. CASE InitDispatch
  BY <1>3, InitDispatchStep
<1>4. CASE SetupExecutable
  BY <1>4, SetupExecutableStep
<1>5. CASE ClientCall
  BY <1>5, SetWorkgroupSizeStep, SetGridSizeStep, AllocateKernargStep,
     SetDynamicGroupSegmentSizeStep DEF ClientCall
<1>6. CASE SetupReturns
  BY <1>6, SetupReturnsStep
<1>7. CASE StoreGroupSize
  BY <1>7, StoreGroupSizeStep
<1>8. CASE StoreHeader
  BY <1>8, StoreHeaderStep
<1>9. CASE RingDoorbell
  BY <1>9, RingDoorbellStep
<1>10. CASE WaitReturns
  BY <1>10, WaitReturnsStep
<1>11. CASE CheckClock
  BY <1>11, CheckClockStep
<1>12. CASE Tick
  BY <1>12, TickStep
<1>13. CASE Verify
  BY <1>13, VerifyStep
<1>14. CASE Device
  BY <1>14, FetchStep, EndKernelStep, RetireStep DEF Device
<1>15. CASE UNCHANGED vars
  <2> USE <1>15 DEF vars, hostVars, queueVars, deviceVars, IInv
  <2>1. TypeOK' /\ CallInv' /\ FreshInv'
    BY DEF TypeOK, CallInv, FreshInv, Untouched
  <2>2. QueueInv' /\ PacketInv'
    BY QueuesUnchanged
  <2>3. BuildInv' /\ WaitInv'
    BY DEF BuildInv, WaitInv
  <2> QED BY <2>1, <2>2, <2>3
<1> QED BY <1>1, <1>2, <1>3, <1>4, <1>5, <1>6, <1>7, <1>8, <1>9, <1>10, <1>11,
           <1>12, <1>13, <1>14, <1>15 DEF Next, Host

\* Everything below rests on the inductive invariant of DispatchInv.
THEOREM Invariance == Spec => []IInv
BY InitInvariant, NextStep, PTL DEF Spec

(* Every variable keeps its type; in particular the completion signal of a *)
(* call is decremented at most once, and the group size stays a uint32_t.   *)
THEOREM TypeCorrect == Spec => []TypeOK
<1>1. IInv => TypeOK
  BY DEF IInv
<1> QED BY <1>1, Invariance, PTL

(* However many calls of Run() were given up while their kernel was still  *)
(* on the device, Verify() runs only after the kernel of its own call has   *)
(* ended and its stores are visible.                                        *)
THEOREM VerifySafe == Spec => []VerifyAfterCompletion
<1>1. IInv => VerifyAfterCompletion
  <2> SUFFICES ASSUME IInv, phase = "Verify"
               PROVE  cp[run] = "retired" /\ visible[run]
    BY DEF VerifyAfterCompletion
  <2>1. run \in Runs /\ sigval[run] = 0
    BY DEF IInv, CallInv, WaitInv
  <2> QED BY <2>1 DEF IInv, QueueInv
<1> QED BY <1>1, Invariance, PTL

(* The device launches exactly the packet the client built. *)
THEOREM LaunchSafe == Spec => []LaunchedAsAsked
<1>1. IInv => LaunchedAsAsked
  BY DEF IInv, PacketInv, Complete, LaunchedAsAsked, Dimensions
<1> QED BY <1>1, Invariance, PTL

\* Only slot 0 of the current queue is written, and only while it is invalid.
LEMMA StoreIsStable ==
  ASSUME IInv, run \in Runs, ring[run][0].header = NoHeader,
         \A q \in Runs, s \in Slots : q # run \/ s # 0 => ring'[q][s] = ring[q][s]
  PROVE  StablePackets
BY HeadersDiffer DEF StablePackets, Slots

\* WriteAql, as Setup() and RunDispatch use it, is such a store.
LEMMA WriteAqlIsStable ==
  ASSUME IInv, phase \in Building, NEW p \in Packet, WriteAql(p)
  PROVE  StablePackets
<1>1. run \in Runs /\ queue = run /\ packet_index = 0 /\ ring[run][0].header = NoHeader
  BY BuildingFacts
<1>2. \A q \in Runs, s \in Slots : q # run \/ s # 0 => ring'[q][s] = ring[q][s]
  BY <1>1, WriteAqlEffect DEF IInv
<1> QED BY <1>1, <1>2, StoreIsStable

LEMMA StepIsStable == IInv /\ [Next]_vars => StablePackets
<1> SUFFICES ASSUME IInv, [Next]_vars PROVE StablePackets
  OBVIOUS
<1>1. CASE ring' = ring
  BY <1>1 DEF StablePackets
<1>2. CASE InitDispatch
  <2>1. run \in Runs /\ queue = run /\ Untouched(run)
    BY <1>2 DEF IInv, CallInv, Ready, Phases, FreshInv, InitDispatch
  <2>2. packet_index' = 0
    BY <1>2, <2>1 DEF InitDispatch, Untouched
  <2>3. \A q \in Runs, s \in Slots : q # run \/ s # 0 => ring'[q][s] = ring[q][s]
    BY <1>2, <2>1, <2>2, FirstSlot DEF IInv, TypeOK, InitDispatch, Slots
  <2> QED BY <2>1, <2>3, FirstSlot, StoreIsStable DEF Untouched
<1>3. CASE SetupExecutable /\ ring' # ring
  <2>1. WriteAql([Aql EXCEPT !.kernel_object = run]) /\ phase \in Building
    BY <1>3 DEF SetupExecutable, Building
  <2>2. [Aql EXCEPT !.kernel_object = run] \in Packet
    BY <2>1, BuildingFacts DEF Packet
  <2> QED BY <2>1, <2>2, WriteAqlIsStable
<1>4. CASE ClientCall /\ ring' # ring
  <2>1. phase \in Building
    BY <1>4 DEF ClientCall, SetWorkgroupSize, SetGridSize, AllocateKernarg,
                SetDynamicGroupSegmentSize, InSetup, Building
  <2>2. Aql \in Packet /\ run \in Runs
    BY <2>1, BuildingFacts
  <2>3. PICK p \in Packet : WriteAql(p)
    <3>1. CASE \E size \in Extents : SetWorkgroupSize(size)
      BY <3>1, <2>2 DEF SetWorkgroupSize, Packet
    <3>2. CASE \E size \in Extents : SetGridSize(size)
      BY <3>2, <2>2 DEF SetGridSize, Packet
    <3>3. CASE AllocateKernarg
      BY <3>3, <2>2 DEF AllocateKernarg, Packet
    <3> QED BY <1>4, <3>1, <3>2, <3>3 DEF ClientCall, SetDynamicGroupSegmentSize
  <2> QED BY <2>1, <2>3, WriteAqlIsStable
<1>5. CASE StoreGroupSize
  <2>1. phase \in Building /\ WriteAql([Aql EXCEPT !.group = GroupSegmentSize])
    BY <1>5 DEF StoreGroupSize, Building
  <2>2. [Aql EXCEPT !.group = GroupSegmentSize] \in Packet
    BY <2>1, BuildingFacts, GroupSizeType DEF IInv, TypeOK, Packet
  <2> QED BY <2>1, <2>2, WriteAqlIsStable
<1>6. CASE StoreHeader
  <2> DEFINE p == [Aql EXCEPT !.header = DispatchHeader, !.setup = Dimensions(Aql.grid)]
  <2>1. phase \in Building /\ WriteAql(p)
    BY <1>6 DEF StoreHeader, Building
  <2>2. p \in Packet
    BY <2>1, BuildingFacts, DimensionsType DEF Packet, Headers
  <2> QED BY <2>1, <2>2, WriteAqlIsStable
<1>7. ASSUME NEW q \in Runs, Retire(q) PROVE StablePackets
  <2>1. read_index[q] = 0 /\ ring[q][0] \in Packet
    <3>1. read_index[q] = 0
      BY <1>7 DEF IInv, QueueInv, Retire
    <3>2. ring[q][0] \in Packet
      BY FirstSlot DEF IInv, TypeOK, Slots
    <3> QED BY <3>1, <3>2
  <2>2. ring' = [ring EXCEPT ![q] = [ring[q] EXCEPT
                   ![0] = [ring[q][0] EXCEPT !.header = NoHeader]]]
    BY <1>7, <2>1, FirstSlot DEF Retire
  <2>3. ring'[q][0].header = NoHeader
    <3> DEFINE p == [ring[q][0] EXCEPT !.header = NoHeader]
    <3>1. ring'[q][0] = p
      BY <2>2, FirstSlot DEF IInv, TypeOK, Slots
    <3>2. p.header = NoHeader
      BY <2>1 DEF Packet
    <3> QED BY <3>1, <3>2
  <2>4. \A t \in Runs, s \in Slots : t # q \/ s # 0 => ring'[t][s] = ring[t][s]
    BY <2>2, FirstSlot DEF IInv, TypeOK, Slots
  <2> QED BY <2>3, <2>4, HeadersDiffer DEF StablePackets, Slots
<1> QED
  BY <1>1, <1>2, <1>3, <1>4, <1>5, <1>6, <1>7
  DEF Next, Host, Device, StartRun, InitHsa, SetupReturns, InSetup, RingDoorbell,
      WaitReturns, CheckClock, Tick, Verify, Fetch, EndKernel, queueVars, vars

(* From the release store of its header on, the packet is not written.     *)
THEOREM PacketStable == Spec => PublishedPacketStable
BY Invariance, StepIsStable, PTL DEF Spec, PublishedPacketStable

-----------------------------------------------------------------------------
(* Run() implements KernelCall. *)

\* The abstract kernel, read off slot 0.
Progress(q) ==
  IF cp[q] = "retired" THEN "executed"
  ELSE IF cp[q] # "idle" \/ ring[q][0].header = DispatchHeader THEN "submitted"
  ELSE "none"

KernelIsProgress == Kernel = [q \in Runs |-> Progress(q)]

LEMMA KernelFromSlot == IInv => KernelIsProgress
<1> SUFFICES ASSUME IInv, NEW q \in Runs, cp[q] = "idle"
             PROVE  Head(q) = ring[q][0]
  BY DEF KernelIsProgress, Kernel, Progress, Published
<1>1. read_index[q] = 0
  BY DEF IInv, QueueInv
<1> QED BY <1>1, FirstSlot DEF Head

\* A step that leaves the command processors and the headers in the slots
\* alone is invisible.
LEMMA SameKernel ==
  ASSUME KernelIsProgress, KernelIsProgress',
         \A q \in Runs : cp'[q] = cp[q] /\ ring'[q][0].header = ring[q][0].header
  PROVE  Kernel' = Kernel
BY DEF KernelIsProgress, Progress

LEMMA InitImplements == Init => KC!Init
<1> SUFFICES ASSUME Init PROVE KC!Init
  OBVIOUS
<1>1. KernelIsProgress
  BY InitInvariant, KernelFromSlot
<1>2. \A q \in Runs : cp[q] = "idle" /\ ring[q][0].header = NoHeader
  BY FirstSlot DEF Init, FreshSlot, Slots
<1> QED BY <1>1, <1>2, HeadersDiffer DEF Init, KC!Init, KernelIsProgress, Progress

LEMMA StepImplements ==
  ASSUME IInv, KernelIsProgress, IInv', KernelIsProgress', [Next]_vars
  PROVE  [KC!Next]_(KC!vars)
<1> USE DEF KC!vars
<1>1. CASE StartRun
  <2>1. run + 1 \in Runs /\ Kernel' = Kernel
    BY <1>1, SameKernel DEF IInv, TypeOK, StartRun, deviceVars, queueVars
  <2>2. KC!Call(run + 1)
    BY <1>1, <2>1 DEF IInv, CallInv, TypeOK, StartRun, KC!Call
  <2> QED BY <2>1, <2>2 DEF KC!Next
<1>2. ASSUME Return("Failed"), phase # "idle", Kernel' = Kernel
      PROVE  KC!Next
  <2>1. run \in Runs /\ KC!Fail(run)
    BY <1>2 DEF IInv, CallInv, Return, KC!Fail
  <2> QED BY <2>1 DEF KC!Next
<1>3. CASE InitHsa
  <2>1. Kernel' = Kernel
    BY <1>3, SameKernel DEF InitHsa, deviceVars, queueVars
  <2> QED BY <1>2, <1>3, <2>1 DEF InitHsa
<1>4. CASE SetupReturns
  <2>1. Kernel' = Kernel
    BY <1>4, SameKernel DEF SetupReturns, InSetup, deviceVars
  <2> QED BY <1>2, <1>4, <2>1 DEF SetupReturns, InSetup
<1>5. CASE CheckClock
  <2>1. Kernel' = Kernel
    BY <1>5, SameKernel DEF CheckClock, deviceVars, queueVars
  <2> QED BY <1>2, <1>5, <2>1 DEF CheckClock
<1>6. CASE RingDoorbell \/ WaitReturns \/ Tick
  <2>1. Kernel' = Kernel /\ outcome' = outcome
    BY <1>6, SameKernel DEF RingDoorbell, WaitReturns, Tick, deviceVars, queueVars
  <2> QED BY <2>1
<1>7. CASE InitDispatch
  <2>1. run \in Runs /\ queue = run /\ Untouched(run)
    BY <1>7 DEF IInv, CallInv, Ready, Phases, FreshInv, InitDispatch
  <2>2. packet_index' = 0
    BY <1>7, <2>1 DEF InitDispatch, Untouched
  <2>3. ring' = [ring EXCEPT ![run] = [ring[run] EXCEPT
                   ![0] = ClearedSlot(ring[run][0], signal)]]
    BY <1>7, <2>1, <2>2, FirstSlot DEF InitDispatch, InitialPacket
  <2>4. \A q \in Runs : ring'[q][0].header = ring[q][0].header
    BY <2>1, <2>3, FirstSlot DEF IInv, TypeOK, ClearedSlot, Slots
  <2>5. Kernel' = Kernel
    BY <1>7, <2>4, SameKernel DEF InitDispatch, deviceVars
  <2> QED BY <1>7, <2>5 DEF InitDispatch
<1>8. CASE SetupExecutable \/ ClientCall \/ StoreGroupSize
  <2>1. phase \in Building /\ cp' = cp /\ run' = run
    BY <1>8 DEF SetupExecutable, ClientCall, SetWorkgroupSize, SetGridSize,
                AllocateKernarg, SetDynamicGroupSegmentSize, InSetup,
                StoreGroupSize, Building, deviceVars
  <2>2. CASE ring' = ring
    <3>1. Kernel' = Kernel
      BY <2>1, <2>2, SameKernel
    <3> QED BY <1>2, <1>8, <2>1, <3>1
        DEF SetupExecutable, ClientCall, SetWorkgroupSize, SetGridSize, Building,
            AllocateKernarg, SetDynamicGroupSegmentSize, StoreGroupSize
  <2>3. CASE ring' # ring
    <3>1. outcome' = outcome /\ phase' \in Building
      BY <1>8, <2>3 DEF SetupExecutable, ClientCall, SetWorkgroupSize, SetGridSize,
            AllocateKernarg, SetDynamicGroupSegmentSize, InSetup, StoreGroupSize, Building
    <3>2. run \in Runs /\ ring[run][0].header = NoHeader /\ ring'[run][0].header = NoHeader
      BY <2>1, <3>1, BuildingFacts DEF IInv, BuildInv
    <3>3. queue = run /\ packet_index = 0 /\ Aql \in Packet
      BY <2>1, BuildingFacts
    <3>4. \E p \in Packet : WriteAql(p)
      <4>1. CASE SetupExecutable
        BY <4>1, <2>3, <3>2, <3>3 DEF SetupExecutable, Packet
      <4>2. CASE StoreGroupSize
        BY <4>2, <3>3, GroupSizeType DEF IInv, TypeOK, StoreGroupSize, Packet
      <4>3. CASE \E size \in Extents : SetWorkgroupSize(size)
        BY <4>3, <3>3 DEF SetWorkgroupSize, Packet
      <4>4. CASE \E size \in Extents : SetGridSize(size)
        BY <4>4, <3>3 DEF SetGridSize, Packet
      <4>5. CASE AllocateKernarg
        BY <4>5, <3>2, <3>3 DEF AllocateKernarg, Packet
      <4> QED BY <1>8, <2>3, <4>1, <4>2, <4>3, <4>4, <4>5
              DEF ClientCall, SetDynamicGroupSegmentSize
    <3>5. \A q \in Runs : q # run => ring'[q][0] = ring[q][0]
      BY <3>2, <3>3, <3>4, FirstSlot, WriteAqlEffect DEF IInv
    <3>6. Kernel' = Kernel
      BY <2>1, <3>2, <3>5, SameKernel
    <3> QED BY <3>1, <3>6
  <2> QED BY <2>2, <2>3
<1>9. CASE StoreHeader
  <2> DEFINE p == [Aql EXCEPT !.header = DispatchHeader, !.setup = Dimensions(Aql.grid)]
  <2>1. phase \in Building /\ phase = "Header" /\ WriteAql(p)
    BY <1>9 DEF StoreHeader, Building
  <2>2. /\ p \in Packet /\ p.header = DispatchHeader /\ queue = run /\ run \in Runs
        /\ packet_index = 0 /\ outcome[run] = "pending"
    BY <2>1, BuildingFacts, DimensionsType DEF Packet, Headers
  <2> HIDE DEF p
  <2>3. ring'[run][0] = p /\ \A q \in Runs : q # run => ring'[q][0] = ring[q][0]
    BY <2>1, <2>2, FirstSlot, WriteAqlEffect DEF IInv
  <2>4. cp[run] = "idle" /\ ring[run][0].header = NoHeader /\ cp' = cp /\ outcome' = outcome
    BY <1>9, <2>1 DEF IInv, BuildInv, StoreHeader, deviceVars
  <2>5. KC!Submit(run)
    BY <2>2, <2>3, <2>4, HeadersDiffer DEF KC!Submit, KernelIsProgress, Progress
  <2> QED BY <2>2, <2>5 DEF KC!Next
<1>10. CASE Verify
  <2>1. Kernel' = Kernel /\ run \in Runs /\ outcome[run] = "pending" /\ sigval[run] = 0
    BY <1>10, SameKernel DEF IInv, CallInv, WaitInv, Verify, deviceVars, queueVars
  <2>2. cp[run] = "retired"
    BY <2>1 DEF IInv, QueueInv
  <2>3. Kernel[run] = "executed"
    BY <2>1, <2>2 DEF KernelIsProgress, Progress
  <2>4. PICK report \in {"Success", "Failed"} : outcome' = [outcome EXCEPT ![run] = report]
    BY <1>10 DEF Verify, Return
  <2>5. KC!Succeed(run) \/ KC!Fail(run)
    BY <2>1, <2>3, <2>4 DEF KC!Succeed, KC!Fail
  <2> QED BY <2>1, <2>5 DEF KC!Next
<1>11. ASSUME NEW q \in Runs, Fetch(q) PROVE UNCHANGED KC!vars
  <2>1. read_index[q] = 0 /\ ring[q][0].header.type = "KERNEL_DISPATCH" /\ cp[q] = "idle"
    BY <1>11, FirstSlot DEF IInv, QueueInv, Fetch, Head
  <2>2. ring[q][0].header = DispatchHeader
    <3>1. ring[q][0] \in Packet
      BY FirstPacket
    <3> QED BY <2>1, <3>1, HeadersDiffer DEF Packet
  <2>3. cp' = [cp EXCEPT ![q] = "running"] /\ ring' = ring /\ outcome' = outcome
    BY <1>11 DEF Fetch, hostVars, queueVars
  <2> QED BY <2>1, <2>2, <2>3 DEF IInv, TypeOK, KernelIsProgress, Progress
<1>12. ASSUME NEW q \in Runs, EndKernel(q) PROVE UNCHANGED KC!vars
  BY <1>12 DEF EndKernel, hostVars, queueVars, IInv, TypeOK, KernelIsProgress, Progress
<1>13. ASSUME NEW q \in Runs, Retire(q) PROVE KC!Next
  <2>1. cp[q] = "ended" /\ read_index[q] = 0 /\ cp' = [cp EXCEPT ![q] = "retired"]
        /\ outcome' = outcome
    BY <1>13 DEF IInv, QueueInv, Retire, hostVars
  <2>2. ring' = [ring EXCEPT ![q] = [ring[q] EXCEPT
                   ![0] = [ring[q][0] EXCEPT !.header = NoHeader]]]
    BY <1>13, <2>1, FirstSlot DEF Retire
  <2>3. \A t \in Runs : t # q => ring'[t][0] = ring[t][0] /\ cp'[t] = cp[t]
    BY <2>1, <2>2 DEF IInv, TypeOK
  <2>4. Kernel[q] = "submitted"
    BY <2>1 DEF KernelIsProgress, Progress
  <2>5. Kernel' = [Kernel EXCEPT ![q] = "executed"]
    <3>1. cp'[q] = "retired"
      BY <2>1 DEF IInv, TypeOK
    <3> QED BY <3>1, <2>3 DEF KernelIsProgress, Progress
  <2>6. KC!Execute(q)
    BY <2>1, <2>4, <2>5 DEF KC!Execute
  <2> QED BY <2>6 DEF KC!Next
<1>14. CASE UNCHANGED vars
  <2>1. Kernel' = Kernel
    BY <1>14, SameKernel DEF vars, deviceVars, queueVars
  <2> QED BY <1>14, <2>1 DEF vars, hostVars
<1> QED
  BY <1>1, <1>3, <1>4, <1>5, <1>6, <1>7, <1>8, <1>9, <1>10, <1>11, <1>12, <1>13, <1>14
  DEF Next, Host, Device

(* Run() reports "Success" only for a kernel that it submitted and that the *)
(* device executed, once; whatever the number of calls and their timeouts.  *)
THEOREM Implementation == Spec => ImplementsKernelCall
<1>1. IInv' => KernelIsProgress'
  BY KernelFromSlot, PTL
<1>2. IInv /\ IInv' /\ [Next]_vars => [KC!Next]_(KC!vars)
  BY <1>1, KernelFromSlot, StepImplements
<1> QED BY <1>2, InitImplements, Invariance, PTL DEF Spec, ImplementsKernelCall, KC!Spec

=============================================================================
