---------------------------- MODULE DivertProofs ----------------------------
(***************************************************************************)
(* What becomes of a packet, for any filter, exact or not, any flags and   *)
(* any number of receivers and CPUs: the filter decides its fate, from the *)
(* rules in the kernel to the call that returns; the receive path is a     *)
(* DivertQueue; and no packet leaves unaccounted for.                      *)
(***************************************************************************)
EXTENDS HandLemmas, FiniteSetTheorems

\* The provers a leaf is tried with when it names none.
USE SMT, Zenon, Z3T(40)

\* The flags of a handle are those of its open.
LEMMA FlagsStay == [Next]_vars => flags' = flags
<1> SUFFICES ASSUME [Next]_vars PROVE flags' = flags
  OBVIOUS
<1> USE DEF paramVars
<1>1. ASSUME NEW c \in CPUs, BpfStep(c) PROVE flags' = flags
  BY <1>1 DEF BpfStep, BpfReserve, BpfSubmit
<1>2. ASSUME NEW t \in Receivers, LibStep(t) PROVE flags' = flags
  BY <1>2 DEF LibStep, ConsumeRecord, ConsumeAdvance, ConsumeUnlock,
              NextEntryPop, NextEntryPeek, EpollWake, BatchTake
<1>3. ASSUME NEW t \in Receivers, NEW c \in Calls, NEW tm \in Timeouts, Call(t, c, tm)
      PROVE  flags' = flags
  BY <1>3 DEF Call
<1> QED
  BY <1>1, <1>2, <1>3, Zenon DEF Next, BpfMatch, Tick, ConsumeLock, EpollInterrupted, Shutdown,
                          SetParam, vars

\* What queue_pop lets go of was in the queue.
LEMMA PopLetsGo ==
    ASSUME TypeOK, NEW k \in 1 .. (Len(queue) + 1), NEW o \in Outcomes \ {"lost"},
           queue_pop(k, o), NEW x \in out'
    PROVE  \E i \in DOMAIN queue : x[1] = queue[i].pkt /\ x[2] # "lost"
<1>1. queue \in Seq(Entry) /\ Len(queue) \in Nat
  BY DEF TypeOK
<1>2. x \in {<<queue[i].pkt, "expired">> : i \in 1 .. (k - 1)}
             \cup (IF k <= Len(queue) THEN {<<queue[k].pkt, o>>} ELSE {})
  BY DEF queue_pop
<1>3. DOMAIN queue = 1 .. Len(queue)
  BY <1>1
<1>4. ASSUME NEW i \in 1 .. (k - 1), x = <<queue[i].pkt, "expired">>
      PROVE  i \in DOMAIN queue /\ x[1] = queue[i].pkt /\ x[2] # "lost"
  BY <1>1, <1>3, <1>4
<1>5. ASSUME k <= Len(queue), x = <<queue[k].pkt, o>>
      PROVE  k \in DOMAIN queue /\ x[1] = queue[k].pkt /\ x[2] # "lost"
  BY <1>1, <1>3, <1>5
<1>6. \/ \E i \in 1 .. (k - 1) : x = <<queue[i].pkt, "expired">>
      \/ k <= Len(queue) /\ x = <<queue[k].pkt, o>>
  BY <1>2
<1> QED
  BY <1>4, <1>5, <1>6

-----------------------------------------------------------------------------
\* The three conjuncts of DivertInv, on their own: what the program holds, ...
LEMMA ProgramDiverts ==
    ASSUME ReceiveInv, DivertInv, [Next]_vars, NEW c \in CPUs, bpf'[c].st # "idle"
    PROVE  RulesDivert(bpf'[c].pkt)
<1>1. bpf \in [CPUs -> [st : {"idle", "matched", "reserved"}, pkt : Packets \cup {None}]]
  BY DEF ReceiveInv, TypeOK
<1>2. bpf'[c] = bpf[c] \/ (bpf'[c].pkt = bpf[c].pkt /\ bpf[c].st # "idle")
        \/ RulesDivert(bpf'[c].pkt)
  <2>1. CASE Quiet
    BY <2>1 DEF Quiet
  <2>2. ASSUME NEW d \in CPUs, NEW p \in Packets, BpfMatch(d, p)
        PROVE  bpf'[c] = bpf[c] \/ RulesDivert(bpf'[c].pkt)
    <3>1. bpf' = [bpf EXCEPT ![d] = [st |-> "matched", pkt |-> p]] /\ RulesDivert(p)
      BY <2>2 DEF BpfMatch
    <3> QED
      BY <1>1, <3>1
  <2>3. ASSUME NEW d \in CPUs, BpfReserve(d)
        PROVE  bpf'[c] = bpf[c] \/ (bpf'[c].pkt = bpf[c].pkt /\ bpf[c].st # "idle")
    <3>1. /\ bpf[d].st = "matched"
          /\ \/ bpf' = [bpf EXCEPT ![d].st = "reserved"]
             \/ bpf' = [bpf EXCEPT ![d] = Idle]
      BY <2>3 DEF BpfReserve
    <3> QED
      BY <1>1, <3>1 DEF Idle
  <2>4. ASSUME NEW d \in CPUs, NEW ok \in BOOLEAN, BpfSubmit(d, ok) PROVE bpf'[c] = bpf[c]
    BY <1>1, <2>4 DEF BpfSubmit, Idle
  <2>5. CASE Tick
    BY <2>5 DEF Tick
  <2>6. ASSUME NEW t \in Receivers, ConsumeRecord(t) \/ ConsumeAdvance(t) \/ Pop(t)
        PROVE  bpf' = bpf
    BY <2>6 DEF ConsumeRecord, ConsumeAdvance, Pop, kernelVars
  <2>7. TypeOK
    BY DEF ReceiveInv
  <2> QED
    BY StepCases, <2>1, <2>2, <2>3, <2>4, <2>5, <2>6, <2>7
<1> QED
  BY <1>2 DEF DivertInv

\* ... what the ring holds, ...
LEMMA RingDiverts ==
    ASSUME ReceiveInv, DivertInv, [Next]_vars, NEW i \in DOMAIN ring'
    PROVE  RulesDivert(ring'[i].pkt)
<1>1. TypeOK /\ PollInv /\ LengthInv /\ ProgramInv /\ ring \in Seq(Record)
  BY DEF ReceiveInv, TypeOK
<1>2. \A j \in 1 .. Len(ring) : RulesDivert(ring[j].pkt)
  BY <1>1 DEF DivertInv
<1> HIDE DEF RulesDivert
<1>3. CASE Quiet
  BY <1>1, <1>2, <1>3 DEF Quiet
<1>4. ASSUME NEW d \in CPUs, NEW p \in Packets, BpfMatch(d, p) PROVE RulesDivert(ring'[i].pkt)
  BY <1>1, <1>2, <1>4 DEF BpfMatch
<1>5. ASSUME NEW d \in CPUs, BpfReserve(d) PROVE RulesDivert(ring'[i].pkt)
  <2>1. CASE ring' = ring
    BY <1>1, <1>2, <2>1
  <2>2. CASE ring' # ring
    <3>1. bpf[d].st = "matched" /\ bpf[d].pkt \in Packets
      BY <1>1, <1>5 DEF BpfReserve, ProgramInv, TypeOK
    <3>2. RulesDivert(bpf[d].pkt)
      BY <3>1 DEF DivertInv
    <3>3. /\ ring' \in Seq(Record) /\ Len(ring') = Len(ring) + 1
          /\ \A j \in 1 .. Len(ring) : ring'[j] = ring[j]
          /\ ring'[Len(ring) + 1].pkt = bpf[d].pkt
      BY <1>1, <1>5, <2>2, <3>1, ReserveEffect
    <3> QED
      BY <1>1, <1>2, <3>2, <3>3
  <2> QED
    BY <2>1, <2>2
<1>6. ASSUME NEW d \in CPUs, NEW ok \in BOOLEAN, BpfSubmit(d, ok) PROVE RulesDivert(ring'[i].pkt)
  <2>1. /\ ring' \in Seq(Record) /\ Len(ring') = Len(ring)
        /\ \A j \in 1 .. Len(ring) : ring'[j].pkt = ring[j].pkt
    BY <1>1, <1>6, SubmitEffect
  <2> QED
    BY <1>1, <1>2, <2>1
<1>7. CASE Tick
  <2>1. /\ ring' \in Seq(Record) /\ Len(ring') = Len(ring)
        /\ \A j \in 1 .. Len(ring) : ring'[j].pkt = ring[j].pkt
    BY <1>1, <1>7, TickEffect
  <2> QED
    BY <1>1, <1>2, <2>1
<1>8. ASSUME NEW t \in Receivers, ConsumeRecord(t) \/ Pop(t) PROVE RulesDivert(ring'[i].pkt)
  BY <1>1, <1>2, <1>8 DEF ConsumeRecord, Pop, kernelVars
<1>9. ASSUME NEW t \in Receivers, ConsumeAdvance(t) PROVE RulesDivert(ring'[i].pkt)
  <2>1. /\ ring' \in Seq(Record)
        /\ \A j \in 1 .. Len(ring') : j + 1 \in 1 .. Len(ring) /\ ring'[j] = ring[j + 1]
    BY <1>1, <1>9, AdvanceEffect
  <2>2. i \in 1 .. Len(ring')
    BY <2>1
  <2> QED
    BY ONLY <1>2, <2>1, <2>2
<1> QED
  BY StepCases, <1>1, <1>3, <1>4, <1>5, <1>6, <1>7, <1>8, <1>9

\* ... and what the queue holds.
LEMMA QueueMatches ==
    ASSUME ReceiveInv, DivertInv, [Next]_vars, NEW i \in DOMAIN queue'
    PROVE  Match[queue'[i].pkt] /\ ~Drop
<1>1. TypeOK /\ PollInv /\ LengthInv /\ queue \in Seq(Entry) /\ ring \in Seq(Record)
  BY DEF ReceiveInv, TypeOK
<1> DEFINE Good(p) == Match[p] /\ ~Drop
<1>2. \A j \in 1 .. Len(queue) : Good(queue[j].pkt)
  BY <1>1 DEF DivertInv
<1> SUFFICES Good(queue'[i].pkt)
  OBVIOUS
<1> HIDE DEF Good
<1>3. CASE Quiet
  BY <1>1, <1>2, <1>3 DEF Quiet
<1>4. ASSUME NEW d \in CPUs, NEW p \in Packets, BpfMatch(d, p) PROVE Good(queue'[i].pkt)
  BY <1>1, <1>2, <1>4 DEF BpfMatch, queueVars
<1>5. ASSUME NEW d \in CPUs, BpfReserve(d) PROVE Good(queue'[i].pkt)
  BY <1>1, <1>2, <1>5 DEF BpfReserve, queueVars
<1>6. ASSUME NEW d \in CPUs, NEW ok \in BOOLEAN, BpfSubmit(d, ok) PROVE Good(queue'[i].pkt)
  BY <1>1, <1>2, <1>6 DEF BpfSubmit, queueVars
<1>7. CASE Tick
  <2>1. /\ queue' \in Seq(Entry) /\ Len(queue') = Len(queue)
        /\ \A j \in 1 .. Len(queue) : queue'[j].pkt = queue[j].pkt
    BY <1>1, <1>7, TickEffect
  <2> QED
    BY <1>1, <1>2, <2>1
<1>8. ASSUME NEW t \in Receivers, ConsumeRecord(t) PROVE Good(queue'[i].pkt)
  <2>1. HeadIs("ready") /\ ring_callback(Head(ring))
    BY <1>8 DEF ConsumeRecord
  <2>2. CASE queue' = queue
    BY <1>1, <1>2, <2>2
  <2>3. CASE queue' # queue
    <3>1. Head(ring) = ring[1] /\ 1 \in DOMAIN ring
      BY <1>1, <2>1 DEF HeadIs
    <3>2. ForUser(ring[1].pkt)
      BY <2>1, <2>3, <3>1 DEF ring_callback, queueVars
    <3>3. Good(ring[1].pkt)
      BY <3>1, <3>2, ForUserMatches DEF DivertInv, Good
    <3>4. /\ queue' \in Seq(Entry) /\ Len(queue') = Len(queue) + 1
          /\ \A j \in 1 .. Len(queue) : queue'[j] = queue[j]
          /\ queue'[Len(queue) + 1].pkt = ring[1].pkt
      BY <1>1, <2>1, <2>3, PushEffect
    <3> QED
      BY <1>1, <1>2, <3>3, <3>4
  <2> QED
    BY <2>2, <2>3
<1>9. ASSUME NEW t \in Receivers, ConsumeAdvance(t) PROVE Good(queue'[i].pkt)
  BY <1>1, <1>2, <1>9 DEF ConsumeAdvance, queueVars
<1>10. ASSUME NEW t \in Receivers, Pop(t) PROVE Good(queue'[i].pkt)
  <2>1. PICK k \in 1 .. (Len(queue) + 1), o \in Outcomes : queue_pop(k, o)
    BY <1>10 DEF Pop
  <2>2. /\ queue' \in Seq(Entry)
        /\ \A j \in 1 .. Len(queue') : j + k \in 1 .. Len(queue) /\ queue'[j] = queue[j + k]
    BY <1>1, <2>1, PopEffect
  <2>3. i \in 1 .. Len(queue')
    BY <2>2
  <2> QED
    BY ONLY <1>2, <2>2, <2>3
<1> QED
  BY StepCases, <1>1, <1>3, <1>4, <1>5, <1>6, <1>7, <1>8, <1>9, <1>10

-----------------------------------------------------------------------------
\* The rules and the filter agree on what the handle holds, whatever happens.
LEMMA DivertInvariant == Spec => []DivertInv
<1>1. Init => DivertInv
  BY DEF Init, DivertInv, Idle
<1>2. ReceiveInv /\ DivertInv /\ [Next]_vars => DivertInv'
  <2> SUFFICES ASSUME ReceiveInv, DivertInv, [Next]_vars PROVE DivertInv'
    OBVIOUS
  <2>1. (Drop' <=> Drop) /\ \A p : RulesDivert(p)' <=> RulesDivert(p)
    BY FlagsStay DEF Drop, RulesDivert
  <2> QED
    BY <2>1, ProgramDiverts, RingDiverts, QueueMatches DEF DivertInv
<1> QED
  BY ReceiveInvariant, <1>1, <1>2, PTL DEF Spec

-----------------------------------------------------------------------------
\* The fate of a packet that leaves in a step, by the filter and the flags.
Lawful(p, o) ==
    /\ o \in {"delivered", "refused", "overflow", "expired", "dropped"} => Match[p]
    /\ Drop => o # "delivered" /\ o # "refused"
    /\ o = "lost" => MayFail

\* Every packet the step lets go of has a lawful fate.
LEMMA FateStep ==
    ASSUME ReceiveInv, DivertInv, FilterRespected, [Next]_vars,
           NEW p \in Packets, NEW o \in Outcomes, <<p, o>> \in out'
    PROVE  Lawful(p, o)
<1>1. TypeOK /\ ring \in Seq(Record)
  BY DEF ReceiveInv, TypeOK
<1>2. CASE Quiet
  BY <1>2, Zenon DEF Quiet, FilterRespected, Lawful
<1>3. ASSUME NEW d \in CPUs, NEW q \in Packets, BpfMatch(d, q) PROVE Lawful(p, o)
  BY <1>3 DEF BpfMatch
<1>4. ASSUME NEW d \in CPUs, BpfReserve(d) PROVE Lawful(p, o)
  BY <1>4 DEF BpfReserve, Lawful
<1>5. ASSUME NEW d \in CPUs, NEW ok \in BOOLEAN, BpfSubmit(d, ok) PROVE Lawful(p, o)
  BY <1>5 DEF BpfSubmit, Lawful
<1>6. CASE Tick
  BY <1>6 DEF Tick
<1>7. ASSUME NEW t \in Receivers, ConsumeRecord(t) PROVE Lawful(p, o)
  <2>1. ring_callback(ring[1]) /\ RulesDivert(ring[1].pkt)
    BY <1>1, <1>7 DEF ConsumeRecord, HeadIs, DivertInv
  <2>2. \/ o = "net"
        \/ o = "lost" /\ MayFail
        \/ o = "dropped" /\ p = ring[1].pkt /\ Match[ring[1].pkt]
        \/ o = "overflow" /\ p = ring[1].pkt /\ ForUser(ring[1].pkt)
    BY <2>1 DEF ring_callback, queue_push
  <2>3. ForUser(ring[1].pkt) => Match[ring[1].pkt]
    BY <2>1, ForUserMatches
  <2> QED
    BY <2>2, <2>3 DEF Lawful
<1>8. ASSUME NEW t \in Receivers, ConsumeAdvance(t) PROVE Lawful(p, o)
  BY <1>8 DEF ConsumeAdvance
<1>9. ASSUME NEW t \in Receivers, Pop(t) PROVE Lawful(p, o)
  <2>1. PICK k \in 1 .. (Len(queue) + 1), r \in Outcomes \ {"lost"} : queue_pop(k, r)
    BY <1>9 DEF Pop
  <2>2. PICK i \in DOMAIN queue : p = queue[i].pkt /\ o # "lost"
    BY <1>1, <2>1, PopLetsGo
  <2> QED
    BY <2>2 DEF DivertInv, Lawful
<1> QED
  BY StepCases, <1>1, <1>2, <1>3, <1>4, <1>5, <1>6, <1>7, <1>8, <1>9

\* ring_callback keeps the promise of the filter whatever the rules, the flags
\* and the schedule: what the application gets or loses to the limits matches,
\* a DROP handle delivers nothing, and only a failure loses a packet.
THEOREM FilterKept == Spec => []FilterRespected
<1>1. Init => FilterRespected
  BY DEF Init, FilterRespected
<1>2. ReceiveInv /\ DivertInv /\ FilterRespected /\ [Next]_vars => FilterRespected'
  <2> SUFFICES ASSUME ReceiveInv, DivertInv, FilterRespected, [Next]_vars
               PROVE  FilterRespected'
    OBVIOUS
  <2>1. Drop' <=> Drop
    BY FlagsStay DEF Drop
  <2>2. \A p \in Packets, o \in Outcomes : <<p, o>> \in out' => Lawful(p, o)
    BY FateStep
  <2> QED
    BY <2>1, <2>2, Zenon DEF FilterRespected, Lawful, Outcomes
<1> QED
  BY ReceiveInvariant, DivertInvariant, <1>1, <1>2, PTL DEF Spec

-----------------------------------------------------------------------------
\* The receive path implements DivertQueue for any number of programs,
\* receivers and packets, any ring and any limits: packets are received in the
\* order of their capture, and each leaves once, with an outcome.
THEOREM Refinement == Spec => ImplementsDivertQueue
<1>1. Init => Abstract!Init
  <2> SUFFICES ASSUME Init PROVE Abstract!Init
    OBVIOUS
  <2>1. queue = <<>> /\ ring = <<>> /\ out = {}
    BY DEF Init
  <2>2. PacketsOf(<<>>) = <<>>
    BY DEF PacketsOf
  <2>3. Len(ring) = 0
    BY <2>1
  <2>4. Kept(PacketsOf(ring), Unread, 0) = <<>>
    BY KeptNone
  <2>5. InHand = <<>>
    <3>1. InHand = <<>> \o <<>>
      BY <2>1, <2>2, <2>3, <2>4 DEF InHand
    <3> QED
      BY <3>1
  <2> QED
    BY <2>1, <2>5 DEF Abstract!Init
<1>2. ReceiveInv /\ ReceiveInv' /\ DivertInv /\ [Next]_vars => [Abstract!Next]_(Abstract!vars)
  <2> SUFFICES ASSUME ReceiveInv, ReceiveInv', DivertInv, [Next]_vars
               PROVE  Abstract!Next \/ UNCHANGED Abstract!vars
    OBVIOUS
  <2>1. DOMAIN InHand = 1 .. Len(InHand)
    BY HandIs
  <2>2. UNCHANGED vars => UNCHANGED Abstract!vars
    BY DEF vars, Abstract!vars, InHand, Unread
  <2> QED
    BY <2>1, <2>2, HandStep DEF Abstract!Next
<1> QED
  BY ReceiveInvariant, DivertInvariant, <1>1, <1>2, PTL DEF Spec, ImplementsDivertQueue, Abstract!Spec

\* No interleaving loses a packet or hands it out twice: what the handle holds
\* leaves it when, and only when, the step that takes it out names its outcome.
THEOREM EveryPacketAccounted == Spec => LeavesAccounted
<1>1. ReceiveInv /\ ReceiveInv' /\ DivertInv /\ [Next]_vars =>
        [/\ \A p \in Held \ Held' : \E o \in Outcomes : <<p, o>> \in out'
         /\ \A p \in Held, o \in Outcomes : <<p, o>> \in out' => p \notin Held']_vars
  BY LeavesStep
<1> QED
  BY ReceiveInvariant, DivertInvariant, <1>1, PTL DEF Spec, LeavesAccounted

-----------------------------------------------------------------------------
(***************************************************************************)
(* The counters of the queue.                                              *)
(***************************************************************************)
\* What queue_push does to a queue that has room, counted.
LEMMA PushCounts ==
    ASSUME ReceiveInv, QueueAccounting, NEW t \in Receivers, ConsumeRecord(t)
    PROVE  \/ /\ queue' = queue /\ qlen' = qlen /\ qbytes' = qbytes
              /\ \/ queue_drops' = queue_drops /\ \E o \in Outcomes \ {"overflow", "expired"} :
                                                    out' = {<<ring[1].pkt, o>>}
                 \/ queue_drops' = (queue_drops + 1) % DropsMod /\ out' = {<<ring[1].pkt, "overflow">>}
           \/ /\ Len(queue') = Len(queue) + 1 /\ qlen' = qlen + 1 /\ qbytes' = Bytes(queue')
              /\ queue_drops' = queue_drops /\ out' = {}
              /\ Len(queue') <= queue_length /\ Bytes(queue') <= queue_size
<1>1. ring \in Seq(Record) /\ queue \in Seq(Entry) /\ Len(queue) \in Nat
  <2>1. ring \in Seq(Record) /\ queue \in Seq(Entry)
    BY DEF ReceiveInv, TypeOK
  <2> QED
    BY <2>1
<1>2. ring # <<>> /\ Head(ring) = ring[1] /\ ring[1] \in Record
  BY <1>1 DEF ConsumeRecord, HeadIs
<1>3. PICK e \in Entry : e = [pkt |-> ring[1].pkt, age |-> ring[1].age]
  BY <1>2, Zenon DEF Record, Entry
<1>4. e.pkt = ring[1].pkt /\ PktLen[e.pkt] \in Nat
  BY <1>3, ReceiveAssumption DEF Entry
<1>5. \/ /\ UNCHANGED <<queueVars, queue_drops>>
         /\ \E o \in Outcomes \ {"overflow", "expired"} : out' = {<<ring[1].pkt, o>>}
      \/ queue_push(e)
  BY <1>2, <1>3 DEF ConsumeRecord, ring_callback, Outcomes
<1>6. CASE /\ UNCHANGED <<queueVars, queue_drops>>
           /\ \E o \in Outcomes \ {"overflow", "expired"} : out' = {<<ring[1].pkt, o>>}
  BY <1>6 DEF queueVars
<1>7. CASE queue_push(e) /\ QueueFull(e)
  BY <1>4, <1>7 DEF queue_push, queueVars
<1>8. CASE queue_push(e) /\ ~QueueFull(e)
  <2>1. /\ queue' = Append(queue, e) /\ qlen' = qlen + 1 /\ qbytes' = qbytes + PktLen[e.pkt]
        /\ queue_drops' = queue_drops /\ out' = {}
    BY <1>8 DEF queue_push
  <2>2. qlen = Len(queue) /\ qbytes = Bytes(queue) /\ Bytes(queue) \in Nat
    BY <1>1, BytesIs DEF QueueAccounting
  <2>3. Bytes(queue') = Bytes(queue) + PktLen[e.pkt]
    BY <1>1, <2>1, BytesIs
  <2>4. Len(queue') = Len(queue) + 1
    BY <1>1, <2>1
  <2>5. ~(qlen >= queue_length) /\ ~(qbytes + PktLen[e.pkt] > queue_size)
    BY <1>8 DEF QueueFull
  <2>6. queue_length \in Nat /\ queue_size \in Nat
    BY ReceiveAssumption DEF ReceiveInv, TypeOK
  <2> QED
    BY <1>1, <1>4, <2>1, <2>2, <2>3, <2>4, <2>5, <2>6
<1> QED
  BY <1>5, <1>6, <1>7, <1>8

\* Every change of the list changes its counters with it.
LEMMA AccountingStep == ReceiveInv /\ QueueAccounting /\ [Next]_vars => QueueAccounting'
<1> SUFFICES ASSUME ReceiveInv, QueueAccounting, [Next]_vars PROVE QueueAccounting'
  OBVIOUS
<1>1. TypeOK /\ queue \in Seq(Entry) /\ LengthInv' /\ Bytes(queue) \in Nat
  <2>1. TypeOK /\ queue \in Seq(Entry)
    BY DEF ReceiveInv, TypeOK
  <2> QED
    BY <2>1, LengthStep, BytesIs
<1>2. CASE UNCHANGED <<queue, qbytes>>
  BY <1>1, <1>2 DEF LengthInv, QueueAccounting
<1>3. CASE Tick
  <2>1. queue' \in Seq(Entry) /\ Len(queue') = Len(queue)
           /\ \A i \in 1 .. Len(queue) : queue'[i].pkt = queue[i].pkt
    BY <1>1, <1>3, TickEffect
  <2>2. Bytes(queue') = Bytes(queue)
    BY <1>1, <2>1, BytesIs
  <2>3. qbytes' = qbytes
    BY <1>3 DEF Tick
  <2> QED
    BY <1>1, <2>2, <2>3 DEF LengthInv, QueueAccounting
<1>4. ASSUME NEW t \in Receivers, ConsumeRecord(t) PROVE QueueAccounting'
  BY <1>1, <1>4, PushCounts DEF LengthInv, QueueAccounting
<1>5. ASSUME NEW t \in Receivers, Pop(t) PROVE QueueAccounting'
  <2>1. PICK k \in 1 .. (Len(queue) + 1), o \in Outcomes : queue_pop(k, o)
    BY <1>5 DEF Pop
  <2>2. /\ queue' = SubSeq(queue, k + 1, Len(queue))
        /\ qbytes' = qbytes - (Bytes(queue) - Bytes(SubSeq(queue, k + 1, Len(queue))))
    BY <2>1 DEF queue_pop, PoppedBytes
  <2>3. queue' \in Seq(Entry)
    BY <1>1, <2>2, PopLeaves
  <2>4. Bytes(queue') \in Nat
    BY <2>3, BytesIs
  <2>5. qbytes' = Bytes(queue) - (Bytes(queue) - Bytes(queue'))
    BY <2>2 DEF QueueAccounting
  <2>6. qbytes' = Bytes(queue')
    BY ONLY <1>1, <2>4, <2>5
  <2> QED
    BY <1>1, <2>6 DEF LengthInv, QueueAccounting
<1>6. ASSUME NEW c \in CPUs, NEW p \in Packets, BpfMatch(c, p) PROVE UNCHANGED <<queue, qbytes>>
  BY <1>6 DEF BpfMatch, queueVars
<1>7. ASSUME NEW c \in CPUs, BpfReserve(c) PROVE UNCHANGED <<queue, qbytes>>
  BY <1>7 DEF BpfReserve, queueVars
<1>8. ASSUME NEW c \in CPUs, NEW ok \in BOOLEAN, BpfSubmit(c, ok) PROVE UNCHANGED <<queue, qbytes>>
  BY <1>8 DEF BpfSubmit, queueVars
<1>9. ASSUME NEW t \in Receivers, ConsumeAdvance(t) PROVE UNCHANGED <<queue, qbytes>>
  BY <1>9 DEF ConsumeAdvance, queueVars
<1>10. CASE Quiet
  BY <1>2, <1>10 DEF Quiet
<1> QED
  BY StepCases, <1>1, <1>2, <1>3, <1>4, <1>5, <1>6, <1>7, <1>8, <1>9, <1>10

\* qlen and qbytes are the length and the byte count of the list, for any
\* packet lengths, any limits and any order of pushes, pops and expiries.
THEOREM CountersMatchList == Spec => []QueueAccounting
<1>1. Init => QueueAccounting
  <2> SUFFICES ASSUME Init PROVE QueueAccounting
    OBVIOUS
  <2>1. queue = <<>> /\ qlen = 0 /\ qbytes = 0
    BY DEF Init
  <2>2. Len(<<>>) = 0
    OBVIOUS
  <2> QED
    BY <2>1, <2>2, BytesIs DEF QueueAccounting
<1> QED
  BY ReceiveInvariant, AccountingStep, <1>1, PTL DEF Spec

\* Only ring_callback makes the queue longer.
LEMMA OnlyPushGrows ==
    ASSUME ReceiveInv, [Next]_vars, ~(\E t \in Receivers : ConsumeRecord(t))
    PROVE  ~(Len(queue') > Len(queue))
<1>1. TypeOK /\ queue \in Seq(Entry)
  BY DEF ReceiveInv, TypeOK
<1>2. Len(queue) \in Nat
  BY <1>1
<1>3. CASE queue' = queue
  BY <1>2, <1>3
<1>4. CASE Tick
  <2>1. Len(queue') = Len(queue)
    BY <1>1, <1>4, TickEffect
  <2> QED
    BY <1>2, <2>1
<1>5. ASSUME NEW t \in Receivers, Pop(t) PROVE ~(Len(queue') > Len(queue))
  <2>1. PICK k \in 1 .. (Len(queue) + 1), o \in Outcomes : queue_pop(k, o)
    BY <1>5 DEF Pop
  <2>2. queue' = SubSeq(queue, k + 1, Len(queue))
    BY <2>1 DEF queue_pop
  <2>3. Len(queue') = IF k <= Len(queue) THEN Len(queue) - k ELSE 0
    BY <1>1, <2>2, PopLeaves
  <2> QED
    BY <1>2, <2>3
<1>6. ASSUME NEW c \in CPUs, NEW p \in Packets, BpfMatch(c, p) PROVE queue' = queue
  BY <1>6 DEF BpfMatch, queueVars
<1>7. ASSUME NEW c \in CPUs, BpfReserve(c) PROVE queue' = queue
  BY <1>7 DEF BpfReserve, queueVars
<1>8. ASSUME NEW c \in CPUs, NEW ok \in BOOLEAN, BpfSubmit(c, ok) PROVE queue' = queue
  BY <1>8 DEF BpfSubmit, queueVars
<1>9. ASSUME NEW t \in Receivers, ConsumeAdvance(t) PROVE queue' = queue
  BY <1>9 DEF ConsumeAdvance, queueVars
<1>10. CASE Quiet
  BY <1>3, <1>10 DEF Quiet
<1> QED
  BY StepCases, <1>1, <1>3, <1>4, <1>5, <1>6, <1>7, <1>8, <1>9, <1>10

\* queue_push lets the queue grow within the limits in force at that moment
\* only, however set_param moves them.
THEOREM PushesWithinLimits == Spec => PushWithinLimits
<1>1. ReceiveInv /\ QueueAccounting /\ [Next]_vars =>
        [Len(queue') > Len(queue) =>
            Len(queue') <= queue_length /\ Bytes(queue') <= queue_size]_vars
  <2> SUFFICES ASSUME ReceiveInv, QueueAccounting, [Next]_vars, Len(queue') > Len(queue)
               PROVE  Len(queue') <= queue_length /\ Bytes(queue') <= queue_size
    OBVIOUS
  <2>1. PICK t \in Receivers : ConsumeRecord(t)
    BY OnlyPushGrows
  <2>2. Len(queue) \in Nat
    <3>1. queue \in Seq(Entry)
      BY DEF ReceiveInv, TypeOK
    <3> QED
      BY <3>1
  <2>3. queue' # queue
    BY <2>2
  <2> QED
    BY <2>1, <2>3, PushCounts
<1> QED
  BY ReceiveInvariant, CountersMatchList, <1>1, PTL DEF Spec, PushWithinLimits

-----------------------------------------------------------------------------
(***************************************************************************)
(* The packets a step loses to the limits or to QUEUE_TIME, counted.       *)
(***************************************************************************)
Counted == out' \cap (Packets \X {"overflow", "expired"})

\* Entries of the queue are as many packets.
LEMMA AsManyPackets ==
    ASSUME TypeOK, HeldOnce, NEW n \in Nat, n <= Len(queue), NEW o
    PROVE  Cardinality({<<queue[i].pkt, o>> : i \in 1 .. n}) = n
<1> DEFINE S == {<<queue[i].pkt, o>> : i \in 1 .. n}
           f == [i \in 1 .. n |-> <<queue[i].pkt, o>>]
<1>1. queue \in Seq(Entry)
  BY DEF TypeOK
<1>2. \A i \in 1 .. n : i \in DOMAIN queue
  BY <1>1
<1>3. \A i, j \in 1 .. n : f[i] = f[j] => i = j
  BY <1>2 DEF HeldOnce
<1>4. f \in [1 .. n -> S] /\ \A x \in S : \E i \in 1 .. n : f[i] = x
  OBVIOUS
<1>5. f \in Bijection(1 .. n, S)
  BY <1>3, <1>4, Zenon DEF Bijection, Injection, Surjection, IsInjective
<1>6. ExistsBijection(1 .. n, S)
  BY <1>5 DEF ExistsBijection
<1> HIDE DEF S
<1>7. Cardinality(S) = n
  BY <1>6, FS_CountingElements
<1> QED
  BY <1>7 DEF S

\* A step that loses nothing counts nothing.
LEMMA NoneCounted ==
    ASSUME TypeOK, Counted = {}, queue_drops' = queue_drops
    PROVE  queue_drops' = (queue_drops + Cardinality(Counted)) % DropsMod
<1>1. Cardinality(Counted) = 0
  BY FS_EmptySet
<1>2. queue_drops \in 0 .. (DropsMod - 1) /\ DropsMod \in Nat \ {0}
  BY ReceiveAssumption DEF TypeOK
<1>3. queue_drops % DropsMod = queue_drops
  BY ONLY <1>2
<1> QED
  BY <1>1, <1>2, <1>3

\* queue_push counts the packet it drops.
LEMMA PushDropsCounted ==
    ASSUME ReceiveInv, QueueAccounting, NEW t \in Receivers, ConsumeRecord(t)
    PROVE  queue_drops' = (queue_drops + Cardinality(Counted)) % DropsMod
<1>1. TypeOK /\ ring \in Seq(Record)
  BY DEF ReceiveInv, TypeOK
<1>2. ring[1].pkt \in Packets
  <2>1. ring[1] \in Record
    BY <1>1 DEF ConsumeRecord, HeadIs
  <2> QED
    BY <2>1 DEF Record
<1>3. \/ queue_drops' = queue_drops /\ Counted = {}
      \/ queue_drops' = (queue_drops + 1) % DropsMod /\ Counted = {<<ring[1].pkt, "overflow">>}
  <2>1. CASE queue_drops' = queue_drops /\ out' = {}
    BY <2>1 DEF Counted
  <2>2. ASSUME queue_drops' = queue_drops, NEW o \in Outcomes \ {"overflow", "expired"},
               out' = {<<ring[1].pkt, o>>}
        PROVE  Counted = {}
    BY <2>2 DEF Counted
  <2>3. CASE queue_drops' = (queue_drops + 1) % DropsMod /\ out' = {<<ring[1].pkt, "overflow">>}
    BY <1>2, <2>3 DEF Counted
  <2> QED
    BY <2>1, <2>2, <2>3, PushCounts
<1> QED
  BY <1>1, <1>3, NoneCounted, FS_Singleton, Zenon

\* queue_pop counts the expired entries it passes, and not the one it takes.
LEMMA PopDropsCounted ==
    ASSUME ReceiveInv, NEW t \in Receivers, Pop(t)
    PROVE  queue_drops' = (queue_drops + Cardinality(Counted)) % DropsMod
<1>1. TypeOK /\ HeldOnce /\ queue \in Seq(Entry)
  BY DEF ReceiveInv, TypeOK
<1>2. PICK k \in 1 .. (Len(queue) + 1), o \in Outcomes \ {"lost"} :
        queue_pop(k, o) /\ (k <= Len(queue) => o \in {"delivered", "refused"})
  BY DEF Pop
<1>3. PICK n \in Nat : n = k - 1
  BY <1>1
<1>4. n <= Len(queue) /\ \A i \in 1 .. n : i \in DOMAIN queue
  BY <1>1, <1>3
<1>5. out' = {<<queue[i].pkt, "expired">> : i \in 1 .. n}
               \cup (IF k <= Len(queue) THEN {<<queue[k].pkt, o>>} ELSE {})
  BY <1>2, <1>3 DEF queue_pop
<1>6. Counted = {<<queue[i].pkt, "expired">> : i \in 1 .. n}
  <2>1. \A i \in 1 .. n : queue[i].pkt \in Packets
    BY <1>1, <1>4, HeldPackets
  <2>2. \A x \in (IF k <= Len(queue) THEN {<<queue[k].pkt, o>>} ELSE {}) :
           x \notin Packets \X {"overflow", "expired"}
    BY <1>2
  <2>3. \A i \in 1 .. n : <<queue[i].pkt, "expired">> \in Packets \X {"overflow", "expired"}
    BY <2>1
  <2> QED
    BY ONLY <1>5, <2>2, <2>3 DEF Counted
<1>7. Cardinality(Counted) = n
  BY <1>1, <1>4, <1>6, AsManyPackets, Zenon
<1>8. queue_drops' = (queue_drops + n) % DropsMod
  BY <1>2, <1>3 DEF queue_pop, PoppedDrops
<1> QED
  BY <1>7, <1>8

\* Every packet lost to the queue limits or to QUEUE_TIME adds one to
\* queue_drops, and nothing else does, whichever call passes it.
THEOREM EveryDropCounted == Spec => DropsCounted
<1>1. ReceiveInv /\ QueueAccounting /\ [Next]_vars =>
        [queue_drops' = (queue_drops +
            Cardinality(out' \cap (Packets \X {"overflow", "expired"}))) % DropsMod]_vars
  <2> SUFFICES ASSUME ReceiveInv, QueueAccounting, [Next]_vars, ~UNCHANGED vars
               PROVE  queue_drops' = (queue_drops + Cardinality(Counted)) % DropsMod
    BY DEF Counted
  <2>1. TypeOK
    BY DEF ReceiveInv
  <2>2. CASE queue_drops' = queue_drops /\ \A x \in out' : x[2] \notin {"overflow", "expired"}
    <3>1. Counted = {}
      BY <2>2 DEF Counted
    <3> QED
      BY <2>1, <2>2, <3>1, NoneCounted
  <2>3. ASSUME NEW c \in CPUs, NEW p \in Packets, BpfMatch(c, p) PROVE queue_drops' = queue_drops /\ out' = {}
    BY <2>3 DEF BpfMatch
  <2>4. ASSUME NEW c \in CPUs, BpfReserve(c)
        PROVE  queue_drops' = queue_drops /\ \A x \in out' : x[2] = "net"
    BY <2>4 DEF BpfReserve
  <2>5. ASSUME NEW c \in CPUs, NEW ok \in BOOLEAN, BpfSubmit(c, ok)
        PROVE  queue_drops' = queue_drops /\ \A x \in out' : x[2] = "net"
    BY <2>5 DEF BpfSubmit
  <2>6. CASE Tick
    BY <2>2, <2>6 DEF Tick
  <2>7. ASSUME NEW t \in Receivers, ConsumeAdvance(t) PROVE queue_drops' = queue_drops /\ out' = {}
    BY <2>7 DEF ConsumeAdvance
  <2>8. CASE Quiet
    BY <2>2, <2>8 DEF Quiet
  <2> QED
    BY StepCases, <2>1, <2>2, <2>3, <2>4, <2>5, <2>6, <2>7, <2>8, PushDropsCounted, PopDropsCounted
<1> QED
  BY ReceiveInvariant, CountersMatchList, <1>1, PTL DEF Spec, DropsCounted
=============================================================================
