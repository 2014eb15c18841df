--------------------------- MODULE ReceiveProofs ---------------------------
(***************************************************************************)
(* Proofs about Receive, for any numbers of receivers, CPUs and packets,   *)
(* any queue limits and any flags: the inductive invariant and what it     *)
(* says at once, then the buffer of recv_ex and the drain of a shut down   *)
(* handle.                                                                 *)
(***************************************************************************)
EXTENDS Receive, TLAPS

\* The provers a leaf is tried with when it names none.
USE SMT, Zenon, Z3T(40)

-----------------------------------------------------------------------------
(***************************************************************************)
(* What the steps do to the ring, to the queue and to the positions of the *)
(* receivers.                                                              *)
(***************************************************************************)
\* A function on an initial segment of the naturals is a sequence.
LEMMA FunctionIsSeq ==
    ASSUME NEW S, NEW n \in Nat, NEW f \in [1 .. n -> S]
    PROVE  f \in Seq(S)
  OBVIOUS

\* What queue_pop leaves is the queue behind entry k.
LEMMA PopLeaves ==
    ASSUME NEW S, NEW q \in Seq(S), NEW k \in 1 .. (Len(q) + 1)
    PROVE  /\ SubSeq(q, k + 1, Len(q)) \in Seq(S)
           /\ Len(SubSeq(q, k + 1, Len(q))) = IF k <= Len(q) THEN Len(q) - k ELSE 0
           /\ \A i \in 1 .. Len(SubSeq(q, k + 1, Len(q))) :
                SubSeq(q, k + 1, Len(q))[i] = q[i + k]
  OBVIOUS

-----------------------------------------------------------------------------
(***************************************************************************)
(* What the steps do to the ring and to the queue, entry by entry.         *)
(***************************************************************************)
\* Time changes ages only.
LEMMA TickEffect ==
    ASSUME TypeOK, Tick
    PROVE  /\ queue' \in Seq(Entry) /\ Len(queue') = Len(queue)
           /\ \A i \in 1 .. Len(queue) : queue'[i].pkt = queue[i].pkt
           /\ ring' \in Seq(Record) /\ Len(ring') = Len(ring)
           /\ \A i \in 1 .. Len(ring) : ring'[i].pkt = ring[i].pkt /\ ring'[i].st = ring[i].st
<1>1. queue \in Seq(Entry) /\ ring \in Seq(Record) /\ MaxAge \in Nat
  BY ReceiveAssumption DEF TypeOK
<1>2. \A e \in Entry : Older(e) \in Entry /\ Older(e).pkt = e.pkt
  BY <1>1 DEF Older, Entry
<1>3. \A r \in Record : Older(r) \in Record /\ Older(r).pkt = r.pkt /\ Older(r).st = r.st
  BY <1>1 DEF Older, Record
<1>4. /\ queue' = [i \in 1 .. Len(queue) |-> Older(queue[i])]
      /\ ring' = [i \in 1 .. Len(ring) |->
                    IF ring[i].st = "ready" THEN Older(ring[i]) ELSE ring[i]]
  BY <1>1 DEF Tick
<1>5. queue' \in [1 .. Len(queue) -> Entry]
  <2>1. \A i \in 1 .. Len(queue) : queue[i] \in Entry
    BY <1>1
  <2> QED
    BY <1>2, <1>4, <2>1
<1>6. ring' \in [1 .. Len(ring) -> Record]
  <2>1. \A i \in 1 .. Len(ring) : ring[i] \in Record
    BY <1>1
  <2> QED
    BY <1>3, <1>4, <2>1
<1>7. queue' \in Seq(Entry) /\ Len(queue') = Len(queue)
  <2>1. Len(queue) \in Nat
    BY <1>1
  <2>2. queue' \in Seq(Entry)
    BY ONLY <1>5, <2>1, FunctionIsSeq
  <2> QED
    BY ONLY <1>5, <2>1, <2>2
<1>8. ring' \in Seq(Record) /\ Len(ring') = Len(ring)
  <2>1. Len(ring) \in Nat
    BY <1>1
  <2>2. ring' \in Seq(Record)
    BY ONLY <1>6, <2>1, FunctionIsSeq
  <2> QED
    BY ONLY <1>6, <2>1, <2>2
<1> QED
  BY <1>1, <1>2, <1>3, <1>4, <1>7, <1>8

\* A program that submits changes the state of its own record only.
LEMMA SubmitEffect ==
    ASSUME TypeOK, NEW c \in CPUs, NEW ok \in BOOLEAN, BpfSubmit(c, ok)
    PROVE  /\ ring' \in Seq(Record) /\ Len(ring') = Len(ring)
           /\ \A i \in 1 .. Len(ring) :
                /\ ring'[i].pkt = ring[i].pkt
                /\ ring[i].pkt # bpf[c].pkt \/ ring[i].st # "busy" => ring'[i].st = ring[i].st
                /\ ring[i].pkt = bpf[c].pkt => ring'[i].st # "busy"
                /\ ring[i].pkt = bpf[c].pkt /\ ring[i].st = "busy" =>
                     ring'[i].st = IF ok THEN "ready" ELSE "discarded"
<1>1. ring \in Seq(Record)
  BY DEF TypeOK
<1> DEFINE st == IF ok THEN "ready" ELSE "discarded"
<1>2. \A r \in Record : /\ [r EXCEPT !.st = st] \in Record
                        /\ [r EXCEPT !.st = st].pkt = r.pkt
                        /\ [r EXCEPT !.st = st].st = st
                        /\ st # "busy"
  BY DEF Record, RecStates
<1>3. ring' = [i \in 1 .. Len(ring) |->
                 IF ring[i].pkt = bpf[c].pkt /\ ring[i].st = "busy"
                   THEN [ring[i] EXCEPT !.st = st] ELSE ring[i]]
  BY <1>1 DEF BpfSubmit
<1> HIDE DEF st
<1>4. ring' \in [1 .. Len(ring) -> Record]
  BY <1>1, <1>2, <1>3
<1>5. ring' \in Seq(Record)
  BY <1>1, <1>4, FunctionIsSeq
<1>6. Len(ring') = Len(ring)
  BY <1>1, <1>4, <1>5
<1>7. \A i \in 1 .. Len(ring) :
        /\ ring'[i].pkt = ring[i].pkt
        /\ ring[i].pkt # bpf[c].pkt \/ ring[i].st # "busy" => ring'[i].st = ring[i].st
        /\ ring[i].pkt = bpf[c].pkt => ring'[i].st # "busy"
        /\ ring[i].pkt = bpf[c].pkt /\ ring[i].st = "busy" => ring'[i].st = st
  BY <1>1, <1>2, <1>3
<1> QED
  BY <1>5, <1>6, <1>7 DEF st

\* A reserved record goes to the end of the ring.
LEMMA ReserveEffect ==
    ASSUME TypeOK, NEW c \in CPUs, BpfReserve(c), ring' # ring, bpf[c].pkt \in Packets
    PROVE  /\ ring' \in Seq(Record) /\ Len(ring') = Len(ring) + 1
           /\ \A i \in 1 .. Len(ring) : ring'[i] = ring[i]
           /\ ring'[Len(ring) + 1].pkt = bpf[c].pkt
           /\ ring'[Len(ring) + 1].st = "busy"
<1> DEFINE r == [pkt |-> bpf[c].pkt, age |-> 0, st |-> "busy"]
<1>1. ring \in Seq(Record) /\ r \in Record
  BY ReceiveAssumption DEF TypeOK, Record, RecStates
<1>2. ring' = Append(ring, r)
  BY DEF BpfReserve
<1>3. r.pkt = bpf[c].pkt /\ r.st = "busy"
  OBVIOUS
<1> HIDE DEF r
<1> QED
  BY <1>1, <1>2, <1>3

-----------------------------------------------------------------------------
\* queue_push appends the head of the ring, or leaves the queue alone.
LEMMA PushEffect ==
    ASSUME TypeOK, LengthInv, HeadIs("ready"), ring_callback(Head(ring))
    PROVE  /\ \/ queue' = queue /\ qlen' = qlen
              \/ /\ queue' \in Seq(Entry) /\ Len(queue') = Len(queue) + 1
                 /\ \A i \in 1 .. Len(queue) : queue'[i] = queue[i]
                 /\ queue'[Len(queue) + 1].pkt = ring[1].pkt
                 /\ qlen' = qlen + 1
           /\ queue' \in Seq(Entry) /\ qlen' \in Nat
           /\ queue_drops' \in 0 .. (DropsMod - 1)
           /\ out' \subseteq (Packets \X Outcomes)
<1>1. ring \in Seq(Record) /\ queue \in Seq(Entry) /\ qlen \in Nat
  BY DEF TypeOK
<1>2. ring # <<>> /\ Head(ring) = ring[1] /\ ring[1] \in Record
  BY <1>1 DEF HeadIs
<1>3. PICK e \in Entry : e = [pkt |-> ring[1].pkt, age |-> ring[1].age]
  BY <1>2 DEF Record, Entry
<1>4. (queue_drops + 1) % DropsMod \in 0 .. (DropsMod - 1) /\ queue_drops \in 0 .. (DropsMod - 1)
  BY ReceiveAssumption DEF TypeOK
<1>5. \A o \in Outcomes : {<<ring[1].pkt, o>>} \subseteq (Packets \X Outcomes)
  BY <1>2 DEF Record
<1>6. \/ \E o \in Outcomes : out' = {<<ring[1].pkt, o>>}
      \/ out' = {}
  BY <1>2, <1>3 DEF ring_callback, queue_push, Outcomes
<1>7. UNCHANGED <<queueVars, queue_drops>> \/ queue_push(e)
  BY <1>2, <1>3 DEF ring_callback
<1>8. CASE UNCHANGED <<queueVars, queue_drops>>
  BY <1>1, <1>4, <1>5, <1>6, <1>8 DEF queueVars
<1>9. CASE queue_push(e)
  <2>1. CASE QueueFull(e)
    BY <1>1, <1>4, <1>5, <1>6, <1>9, <2>1 DEF queue_push, queueVars
  <2>2. CASE ~QueueFull(e)
    <3>1. queue' = Append(queue, e) /\ qlen' = qlen + 1 /\ queue_drops' = queue_drops
      BY <1>9, <2>2 DEF queue_push
    <3>2. out' \subseteq (Packets \X Outcomes)
      BY <1>5, <1>6
    <3>3. /\ queue' \in Seq(Entry) /\ Len(queue') = Len(queue) + 1
          /\ \A i \in 1 .. Len(queue) : queue'[i] = queue[i]
          /\ queue'[Len(queue) + 1] = e
      BY ONLY <1>1, <3>1, e \in Entry
    <3> QED
      BY <1>1, <1>3, <1>4, <3>1, <3>2, <3>3
  <2> QED
    BY <2>1, <2>2
<1> QED
  BY <1>7, <1>8, <1>9

\* queue_pop removes a prefix.
LEMMA PopEffect ==
    ASSUME TypeOK, LengthInv, NEW k \in 1 .. (Len(queue) + 1), NEW o \in Outcomes,
           queue_pop(k, o)
    PROVE  /\ queue' \in Seq(Entry) /\ qlen' = Len(queue')
           /\ \A i \in 1 .. Len(queue') : i + k \in 1 .. Len(queue) /\ queue'[i] = queue[i + k]
           /\ queue_drops' \in 0 .. (DropsMod - 1)
           /\ out' \subseteq (Packets \X Outcomes)
<1>1. queue \in Seq(Entry) /\ qlen = Len(queue) /\ Len(queue) \in Nat
  BY DEF TypeOK, LengthInv
<1>2. queue' = SubSeq(queue, k + 1, Len(queue))
  BY DEF queue_pop
<1>3. /\ queue' \in Seq(Entry)
      /\ Len(queue') = IF k <= Len(queue) THEN Len(queue) - k ELSE 0
      /\ \A i \in 1 .. Len(queue') : queue'[i] = queue[i + k]
  BY <1>1, <1>2, PopLeaves
<1>4. qlen' = Len(queue')
  <2>1. qlen' = IF k <= Len(queue) THEN qlen - k ELSE qlen - (k - 1)
    BY DEF queue_pop, PoppedLen
  <2> QED
    BY ONLY <1>1, <1>3, <2>1, k \in 1 .. (Len(queue) + 1)
<1>5. queue_drops' \in 0 .. (DropsMod - 1)
  <2>1. queue_drops' = (queue_drops + (k - 1)) % DropsMod
    BY DEF queue_pop, PoppedDrops
  <2>2. queue_drops + (k - 1) \in Nat /\ DropsMod \in Nat \ {0}
    BY <1>1, ReceiveAssumption DEF TypeOK
  <2> QED
    BY ONLY <2>1, <2>2
<1>6. out' \subseteq (Packets \X Outcomes)
  <2>1. \A i \in 1 .. Len(queue) : queue[i].pkt \in Packets
    <3>1. \A i \in 1 .. Len(queue) : queue[i] \in Entry
      BY <1>1
    <3>2. \A e \in Entry : e.pkt \in Packets
      BY DEF Entry
    <3> QED
      BY <3>1, <3>2
  <2>2. \A i \in 1 .. (k - 1) : i \in 1 .. Len(queue)
    BY <1>1
  <2>3. k <= Len(queue) => k \in 1 .. Len(queue)
    BY <1>1
  <2>4. out' = {<<queue[i].pkt, "expired">> : i \in 1 .. (k - 1)}
                 \cup (IF k <= Len(queue) THEN {<<queue[k].pkt, o>>} ELSE {})
    BY DEF queue_pop
  <2>5. "expired" \in Outcomes
    BY DEF Outcomes
  <2> QED
    BY ONLY <2>1, <2>2, <2>3, <2>4, <2>5, o \in Outcomes
<1> QED
  BY <1>1, <1>3, <1>4, <1>5, <1>6

\* The consumer position moves past the head of the ring.
LEMMA AdvanceEffect ==
    ASSUME TypeOK, PollInv, NEW t \in Receivers, ConsumeAdvance(t)
    PROVE  /\ ring # <<>>
           /\ ring' \in Seq(Record) /\ Len(ring') = Len(ring) - 1
           /\ \A i \in 1 .. Len(ring') : i + 1 \in 1 .. Len(ring) /\ ring'[i] = ring[i + 1]
<1>1. ring \in Seq(Record) /\ ring # <<>> /\ ring' = Tail(ring)
  BY DEF ConsumeAdvance, TypeOK, PollInv, HeadIs
<1> QED
  BY ONLY <1>1

\* The result and the position of a call keep their types.
LEMMA ReturnTyped ==
    ASSUME NEW t \in Receivers, pc \in [Receivers -> Positions], res \in [Receivers -> Results],
           \/ \E r \in Results : Return(t, r)
           \/ \E w \in Positions : Continue(t, w)
    PROVE  pc' \in [Receivers -> Positions] /\ res' \in [Receivers -> Results]
<1>1. CASE \E r \in Results : Return(t, r)
  BY <1>1 DEF Return, Positions
<1>2. CASE \E w \in Positions : Continue(t, w)
  BY <1>2 DEF Continue
<1> QED
  BY <1>1, <1>2

\* The records and the entries hold packets.
LEMMA HeldPackets ==
    ASSUME TypeOK
    PROVE  /\ \A i \in DOMAIN queue : queue[i].pkt \in Packets
           /\ \A i \in DOMAIN ring : ring[i].pkt \in Packets
<1>1. queue \in Seq(Entry) /\ ring \in Seq(Record)
  BY DEF TypeOK
<1>2. (\A i \in DOMAIN queue : queue[i] \in Entry) /\ (\A i \in DOMAIN ring : ring[i] \in Record)
  BY <1>1
<1>3. (\A e \in Entry : e.pkt \in Packets) /\ (\A r \in Record : r.pkt \in Packets)
  BY DEF Entry, Record
<1> QED
  BY <1>2, <1>3

\* No record, entry or program changes, and nobody moves to or from the step
\* that passes a record; no packet leaves.
Quiet ==
    /\ UNCHANGED <<ring, bpf, queue, qlen, qbytes, queue_drops>>
    /\ out' = {} \/ (out' = out /\ UNCHANGED vars)
    /\ \A u \in Receivers : pc[u] = "advance" <=> pc'[u] = "advance"

\* An entry leaves the queue, whichever call takes it.
Pop(t) ==
    /\ UNCHANGED <<ring, bpf>>
    /\ \A u \in Receivers : pc[u] = "advance" <=> pc'[u] = "advance"
    /\ \E k \in 1 .. (Len(queue) + 1), o \in Outcomes \ {"lost"} :
         queue_pop(k, o) /\ (k <= Len(queue) => o \in {"delivered", "refused"})

\* next_entry and recv_ex touch the queue through queue_pop only.
LEMMA PopCase ==
    ASSUME TypeOK, NEW t \in Receivers
    PROVE  /\ NextEntryPop(t) => Pop(t)
           /\ BatchTake(t) => Pop(t) \/ Quiet
<1>1. pc \in [Receivers -> Positions]
  BY DEF TypeOK
<1>2. {"delivered", "refused", "expired"} \subseteq Outcomes \ {"lost"}
  BY DEF Outcomes
<1>3. ASSUME NextEntryPop(t) PROVE Pop(t)
  <2>1. UNCHANGED <<ring, bpf>>
    BY <1>3 DEF NextEntryPop, kernelVars
  <2>2. \A u \in Receivers : pc[u] = "advance" <=> pc'[u] = "advance"
    BY <1>1, <1>3 DEF NextEntryPop, FirstEntry, Continue, Return
  <2>3. \E k \in 1 .. (Len(queue) + 1), o \in Outcomes \ {"lost"} :
          queue_pop(k, o) /\ (k <= Len(queue) => o \in {"delivered", "refused"})
    BY <1>2, <1>3 DEF NextEntryPop
  <2> QED
    BY <2>1, <2>2, <2>3 DEF Pop
<1>4. ASSUME BatchTake(t) PROVE Pop(t) \/ Quiet
  <2>1. UNCHANGED <<ring, bpf>>
    BY <1>4 DEF BatchTake, kernelVars
  <2>2. \A u \in Receivers : pc[u] = "advance" <=> pc'[u] = "advance"
    BY <1>1, <1>4 DEF BatchTake, Continue, Return
  <2>3. \/ UNCHANGED <<queue, qlen, qbytes, queue_drops>> /\ out' = {}
        \/ \E k \in 1 .. (Len(queue) + 1) : queue_pop(k, "delivered")
    BY <1>4 DEF BatchTake, queueVars
  <2> QED
    BY <1>2, <2>1, <2>2, <2>3 DEF Pop, Quiet
<1> QED
  BY <1>3, <1>4

\* A step of the handle changes the ring and the queue in one of these ways.
LEMMA StepCases ==
    ASSUME TypeOK, [Next]_vars
    PROVE  \/ Quiet
           \/ \E c \in CPUs, p \in Packets : BpfMatch(c, p)
           \/ \E c \in CPUs : BpfReserve(c)
           \/ \E c \in CPUs, ok \in BOOLEAN : BpfSubmit(c, ok)
           \/ Tick
           \/ \E t \in Receivers : ConsumeRecord(t)
           \/ \E t \in Receivers : ConsumeAdvance(t)
           \/ \E t \in Receivers : Pop(t)
<1>1. pc \in [Receivers -> Positions]
  BY DEF TypeOK
<1>2. ASSUME NEW t \in Receivers, ConsumeLock(t) PROVE Quiet
  BY <1>1, <1>2 DEF ConsumeLock, Quiet, kernelVars, queueVars
<1>3. ASSUME NEW t \in Receivers, ConsumeUnlock(t) PROVE Quiet
  BY <1>1, <1>3 DEF ConsumeUnlock, Quiet, kernelVars, queueVars, Continue, Return
<1>4. ASSUME NEW t \in Receivers, NextEntryPeek(t) PROVE Quiet
  BY <1>1, <1>4 DEF NextEntryPeek, Quiet, kernelVars, queueVars, Continue, Return
<1>5. ASSUME NEW t \in Receivers, EpollWake(t) \/ EpollInterrupted(t) PROVE Quiet
  BY <1>1, <1>5 DEF EpollWake, EpollInterrupted, Quiet, kernelVars, queueVars, Continue
<1>6. ASSUME NEW t \in Receivers, NEW c \in Calls, NEW tm \in Timeouts, Call(t, c, tm)
      PROVE  Quiet
  BY <1>1, <1>6 DEF Call, Quiet, kernelVars, queueVars
<1>7. ASSUME Shutdown \/ SetParam PROVE Quiet
  BY <1>7 DEF Shutdown, SetParam, Quiet, kernelVars, queueVars
<1>8. ASSUME UNCHANGED vars PROVE Quiet
  BY <1>8 DEF vars, Quiet
<1>9. ASSUME NEW t \in Receivers, NextEntryPop(t) \/ BatchTake(t)
      PROVE  Pop(t) \/ Quiet
  BY <1>9, PopCase
<1> QED
  BY <1>2, <1>3, <1>4, <1>5, <1>6, <1>7, <1>8, <1>9 DEF Next, BpfStep, LibStep

\* A packet at the head of the ring that the callback takes for the user
\* matches the filter, and the handle is not a DROP handle.
LEMMA ForUserMatches ==
    ASSUME NEW p, RulesDivert(p), ForUser(p)
    PROVE  Match[p] /\ ~Drop
  BY DEF RulesDivert, ForUser, MustEvaluate

-----------------------------------------------------------------------------
(***************************************************************************)
(* The inductive invariant.                                                *)
(***************************************************************************)
\* Init establishes the inductive invariant: nothing captured, nobody inside.
LEMMA InitInv == Init => ReceiveInv
<1> SUFFICES ASSUME Init PROVE ReceiveInv
  OBVIOUS
<1>1. ring \in Seq(Record)
  BY DEF Init
<1>2. queue \in Seq(Entry) /\ queue_drops \in 0 .. (DropsMod - 1)
  BY ReceiveAssumption DEF Init
<1>3. bpf \in [CPUs -> [st : {"idle", "matched", "reserved"}, pkt : Packets \cup {None}]]
  BY DEF Init, Idle
<1>4. TypeOK
  BY <1>1, <1>2, <1>3, Zenon DEF Init, TypeOK, Positions, Results
<1>5. WakeFdTracksQueue /\ LengthInv /\ PollInv
  BY ReceiveAssumption, Zenon DEF Init, WakeFdTracksQueue, LengthInv, PollInv
<1>6. ProgramInv /\ HeldOnce
  BY DEF Init, ProgramInv, HeldOnce, Idle
<1> QED
  BY <1>4, <1>5, <1>6 DEF ReceiveInv

\* Every change of the queue or of shut_recv is followed by wake_update in the
\* same qlock section.
LEMMA WakeStep == ReceiveInv /\ [Next]_vars => WakeFdTracksQueue'
<1> SUFFICES ASSUME ReceiveInv, [Next]_vars PROVE WakeFdTracksQueue'
  OBVIOUS
<1> USE DEF kernelVars, queueVars, paramVars, shutVars, callVars, Return, Continue,
            ReceiveInv, WakeFdTracksQueue, wake_update
<1>1. ASSUME NEW c \in CPUs, NEW p \in Packets, BpfMatch(c, p) PROVE WakeFdTracksQueue'
  BY <1>1 DEF BpfMatch
<1>2. ASSUME NEW c \in CPUs, BpfReserve(c) PROVE WakeFdTracksQueue'
  BY <1>2 DEF BpfReserve
<1>3. ASSUME NEW c \in CPUs, NEW ok \in BOOLEAN, BpfSubmit(c, ok) PROVE WakeFdTracksQueue'
  BY <1>3 DEF BpfSubmit
<1>4. CASE Tick
  <2>1. queue' = <<>> <=> queue = <<>>
    BY <1>4 DEF Tick, TypeOK
  <2> QED
    BY <1>4, <2>1 DEF Tick
<1>5. ASSUME NEW t \in Receivers, ConsumeLock(t) PROVE WakeFdTracksQueue'
  BY <1>5 DEF ConsumeLock
<1>6. ASSUME NEW t \in Receivers, LibStep(t) PROVE WakeFdTracksQueue'
  <2>1. CASE ConsumeRecord(t)
    BY <2>1 DEF ConsumeRecord, ring_callback, queue_push
  <2>2. CASE ConsumeAdvance(t)
    BY <2>2 DEF ConsumeAdvance
  <2>3. CASE ConsumeUnlock(t)
    BY <2>3 DEF ConsumeUnlock
  <2>4. CASE NextEntryPop(t)
    BY <2>4 DEF NextEntryPop, queue_pop, FirstEntry
  <2>5. CASE NextEntryPeek(t)
    BY <2>5 DEF NextEntryPeek
  <2>6. CASE EpollWake(t)
    BY <2>6 DEF EpollWake
  <2>7. CASE BatchTake(t)
    BY <2>7 DEF BatchTake, queue_pop
  <2> QED
    BY <1>6, <2>1, <2>2, <2>3, <2>4, <2>5, <2>6, <2>7 DEF LibStep
<1>7. ASSUME NEW t \in Receivers, EpollInterrupted(t) PROVE WakeFdTracksQueue'
  BY <1>7 DEF EpollInterrupted
<1>8. ASSUME NEW t \in Receivers, NEW c \in Calls, NEW tm \in Timeouts,
             Call(t, c, tm) PROVE WakeFdTracksQueue'
  BY <1>8 DEF Call
<1>9. CASE Shutdown
  BY <1>9 DEF Shutdown
<1>10. CASE SetParam
  BY <1>10 DEF SetParam
<1>11. CASE UNCHANGED vars
  BY <1>11 DEF vars
<1> QED
  BY <1>1, <1>2, <1>3, <1>4, <1>5, <1>6, <1>7, <1>8, <1>9, <1>10, <1>11 DEF Next, BpfStep

\* poll_lock serialises ring_buffer__consume.
LEMMA PollStep == ReceiveInv /\ [Next]_vars => PollInv'
<1> SUFFICES ASSUME ReceiveInv, [Next]_vars PROVE PollInv'
  OBVIOUS
<1>a. PollInv /\ TypeOK
  BY DEF ReceiveInv
<1>b. pc \in [Receivers -> Positions] /\ poll_lock \in Receivers \cup {None}
  BY DEF ReceiveInv, TypeOK
<1>c. ring \in Seq(Record)
  BY DEF ReceiveInv, TypeOK
<1>d. mode \in [Receivers -> {"wait", "shut", "batch"}] /\ consumed \in [Receivers -> BOOLEAN]
  BY DEF ReceiveInv, TypeOK
<1> USE DEF kernelVars, queueVars, paramVars, shutVars, callVars, Return, Continue, PollInv, HeadIs, Positions
<1>1. ASSUME NEW c \in CPUs, NEW p \in Packets, BpfMatch(c, p) PROVE PollInv'
  BY <1>a, <1>b, <1>c, <1>d, <1>1 DEF BpfMatch
<1>2. ASSUME NEW c \in CPUs, BpfReserve(c) PROVE PollInv'
  <2>1. HeadIs("ready") => HeadIs("ready")'
    <3>1. bpf[c].pkt \in Packets
      BY <1>2 DEF BpfReserve, ReceiveInv, TypeOK, ProgramInv
    <3>2. CASE ring' = ring
      BY <3>2 DEF HeadIs
    <3>3. CASE ring' # ring
      <4>1. /\ ring' \in Seq(Record) /\ Len(ring') = Len(ring) + 1
            /\ \A i \in 1 .. Len(ring) : ring'[i] = ring[i]
        BY <1>a, <1>2, <3>1, <3>3, ReserveEffect
      <4> QED
        BY ONLY <1>c, <4>1 DEF HeadIs
    <3> QED
      BY <3>2, <3>3
  <2> QED
    BY <1>a, <1>b, <1>c, <1>d, <1>2, <2>1 DEF BpfReserve, PollInv
<1>3. ASSUME NEW c \in CPUs, NEW ok \in BOOLEAN, BpfSubmit(c, ok) PROVE PollInv'
  <2>1. HeadIs("ready") => HeadIs("ready")'
    BY <1>c, <1>3, SubmitEffect, <1>a DEF HeadIs
  <2> QED
    BY <1>a, <1>b, <1>c, <1>d, <1>3, <2>1 DEF BpfSubmit, PollInv
<1>4. CASE Tick
  <2>1. HeadIs("ready") => HeadIs("ready")'
    BY <1>c, <1>4, TickEffect, <1>a DEF HeadIs
  <2> QED
    BY <1>a, <1>b, <1>c, <1>d, <1>4, <2>1 DEF Tick, PollInv
<1>5. ASSUME NEW t \in Receivers, ConsumeLock(t) PROVE PollInv'
  BY ReceiveAssumption, <1>a, <1>b, <1>5 DEF ConsumeLock
<1>6. ASSUME NEW t \in Receivers, LibStep(t) PROVE PollInv'
  <2>1. CASE ConsumeRecord(t)
    BY <1>a, <1>b, <1>c, <1>d, <2>1 DEF ConsumeRecord
  <2>2. CASE ConsumeAdvance(t)
    BY <1>a, <1>b, <1>c, <1>d, <2>2 DEF ConsumeAdvance
  <2>3. CASE ConsumeUnlock(t)
    <3> PICK w \in {"batch", "pop", "peek", "idle"} : pc' = [pc EXCEPT ![t] = w]
      BY <2>3 DEF ConsumeUnlock
    <3>1. \A u \in Receivers : pc'[u] = IF u = t THEN w ELSE pc[u]
      BY <1>b
    <3> QED
      BY ReceiveAssumption, <1>a, <1>b, <2>3, <3>1 DEF ConsumeUnlock
  <2>4. CASE NextEntryPop(t)
    BY <1>a, <1>b, <1>c, <1>d, <2>4 DEF NextEntryPop, FirstEntry
  <2>5. CASE NextEntryPeek(t)
    BY <1>a, <1>b, <1>c, <1>d, <2>5 DEF NextEntryPeek
  <2>6. CASE EpollWake(t)
    BY <1>a, <1>b, <1>c, <1>d, <2>6 DEF EpollWake
  <2>7. CASE BatchTake(t)
    BY <1>a, <1>b, <1>c, <1>d, <2>7 DEF BatchTake
  <2> QED
    BY <1>6, <2>1, <2>2, <2>3, <2>4, <2>5, <2>6, <2>7 DEF LibStep
<1>7. ASSUME NEW t \in Receivers, EpollInterrupted(t) PROVE PollInv'
  BY <1>a, <1>b, <1>c, <1>d, <1>7 DEF EpollInterrupted
<1>8. ASSUME NEW t \in Receivers, NEW c \in Calls, NEW tm \in Timeouts,
             Call(t, c, tm) PROVE PollInv'
  BY <1>a, <1>b, <1>c, <1>d, <1>8 DEF Call
<1>9. CASE Shutdown
  BY <1>a, <1>b, <1>c, <1>d, <1>9 DEF Shutdown
<1>10. CASE SetParam
  BY <1>a, <1>b, <1>c, <1>d, <1>10 DEF SetParam
<1>11. CASE UNCHANGED vars
  BY <1>a, <1>b, <1>c, <1>d, <1>11 DEF vars
<1> QED
  BY <1>1, <1>2, <1>3, <1>4, <1>5, <1>6, <1>7, <1>8, <1>9, <1>10, <1>11 DEF Next, BpfStep

\* qlen moves with the list.
LEMMA LengthStep == ReceiveInv /\ [Next]_vars => LengthInv'
<1> SUFFICES ASSUME ReceiveInv, [Next]_vars PROVE LengthInv'
  OBVIOUS
<1>a. TypeOK /\ LengthInv
  BY DEF ReceiveInv
<1>b. qlen = Len(queue) /\ Len(queue) \in Nat
  BY DEF ReceiveInv, TypeOK, LengthInv
<1> USE DEF LengthInv
<1>1. CASE Quiet
  BY <1>b, <1>1 DEF Quiet, queueVars
<1>2. ASSUME NEW c \in CPUs, NEW p \in Packets, BpfMatch(c, p) PROVE LengthInv'
  BY <1>b, <1>2 DEF BpfMatch, queueVars
<1>3. ASSUME NEW c \in CPUs, BpfReserve(c) PROVE LengthInv'
  BY <1>b, <1>3 DEF BpfReserve, queueVars
<1>4. ASSUME NEW c \in CPUs, NEW ok \in BOOLEAN, BpfSubmit(c, ok) PROVE LengthInv'
  BY <1>b, <1>4 DEF BpfSubmit, queueVars
<1>5. CASE Tick
  BY <1>a, <1>b, <1>5, TickEffect DEF Tick
<1>6. ASSUME NEW t \in Receivers, ConsumeRecord(t) PROVE LengthInv'
  <2>1. HeadIs("ready") /\ ring_callback(Head(ring))
    BY <1>6 DEF ConsumeRecord
  <2>2. \/ queue' = queue /\ qlen' = qlen
        \/ Len(queue') = Len(queue) + 1 /\ qlen' = qlen + 1
    BY <1>a, <2>1, PushEffect
  <2> QED
    BY <1>b, <2>2
<1>7. ASSUME NEW t \in Receivers, ConsumeAdvance(t) PROVE LengthInv'
  BY <1>b, <1>7 DEF ConsumeAdvance, queueVars
<1>8. ASSUME NEW t \in Receivers, Pop(t) PROVE LengthInv'
  <2>1. PICK k \in 1 .. (Len(queue) + 1), o \in Outcomes : queue_pop(k, o)
    BY <1>8 DEF Pop
  <2>2. /\ queue' \in Seq(Entry) /\ qlen' = Len(queue')
        /\ \A i \in 1 .. Len(queue') : i + k \in 1 .. Len(queue) /\ queue'[i] = queue[i + k]
    BY <1>a, <2>1, PopEffect
  <2> QED
    BY <2>2
<1> QED
  BY <1>a, <1>1, <1>2, <1>3, <1>4, <1>5, <1>6, <1>7, <1>8, StepCases

\* A program owns its packet and its record until it submits; a receiver moves
\* only records that no program is at.
LEMMA ProgramStep == ReceiveInv /\ [Next]_vars => ProgramInv'
<1> SUFFICES ASSUME ReceiveInv, [Next]_vars PROVE ProgramInv'
  OBVIOUS
<1>a. TypeOK /\ LengthInv /\ PollInv
  BY DEF ReceiveInv
<1>b. ring \in Seq(Record) /\ queue \in Seq(Entry)
  BY <1>a DEF TypeOK
<1>c. bpf \in [CPUs -> [st : {"idle", "matched", "reserved"}, pkt : Packets \cup {None}]]
  BY <1>a DEF TypeOK
<1>d. ProgramInv
  BY DEF ReceiveInv
<1>e. DOMAIN ring = 1 .. Len(ring) /\ DOMAIN queue = 1 .. Len(queue)
  BY <1>b
<1> USE DEF kernelVars, queueVars
<1>1. CASE Quiet
  BY <1>d, <1>1 DEF Quiet, ProgramInv
<1>2. ASSUME NEW c \in CPUs, NEW p \in Packets, BpfMatch(c, p) PROVE ProgramInv'
  <2>1. /\ bpf[c] = Idle /\ bpf' = [bpf EXCEPT ![c] = [st |-> "matched", pkt |-> p]]
        /\ ~Holds(p) /\ queue' = queue /\ ring' = ring
    BY <1>2 DEF BpfMatch
  <2>2. \A d \in CPUs : bpf'[d] = IF d = c THEN [st |-> "matched", pkt |-> p] ELSE bpf[d]
    BY <1>c, <2>1
  <2>3. p # None
    BY ReceiveAssumption
  <2> QED
    BY <1>d, <2>1, <2>2, <2>3 DEF ProgramInv, Holds
<1>3. ASSUME NEW c \in CPUs, BpfReserve(c) PROVE ProgramInv'
  <2>1. bpf[c].st = "matched" /\ queue' = queue
    BY <1>3 DEF BpfReserve
  <2>2. bpf[c].pkt \in Packets
    BY <1>c, <1>d, <2>1 DEF ProgramInv
  <2>3. CASE ring' = ring
    <3>1. bpf' = [bpf EXCEPT ![c] = Idle]
      BY <1>b, <1>3, <2>3 DEF BpfReserve
    <3>2. \A d \in CPUs : bpf'[d] = IF d = c THEN Idle ELSE bpf[d]
      BY <1>c, <3>1
    <3>3. /\ \A i \in DOMAIN queue : queue[i].pkt # None
          /\ \A i \in DOMAIN ring : ring[i].pkt # None
      BY <1>a, HeldPackets, ReceiveAssumption
    <3> QED
      BY <1>d, <2>1, <2>3, <3>2, <3>3 DEF ProgramInv, Idle
  <2>4. CASE ring' # ring
    <3>1. bpf' = [bpf EXCEPT ![c].st = "reserved"]
      BY <1>3, <2>4 DEF BpfReserve
    <3>2. \A d \in CPUs : /\ bpf'[d].pkt = bpf[d].pkt
                         /\ bpf'[d].st = IF d = c THEN "reserved" ELSE bpf[d].st
      BY <1>c, <3>1
    <3>3. /\ ring' \in Seq(Record) /\ Len(ring') = Len(ring) + 1
          /\ \A i \in 1 .. Len(ring) : ring'[i] = ring[i]
          /\ ring'[Len(ring) + 1].pkt = bpf[c].pkt
          /\ ring'[Len(ring) + 1].st = "busy"
      BY <1>a, <1>3, <2>2, <2>4, ReserveEffect
    <3>4. DOMAIN ring' = 1 .. (Len(ring) + 1) /\ Len(ring) \in Nat
      BY <1>b, <3>3
    <3>5. /\ \A d \in CPUs : bpf'[d].st = "idle" <=> bpf'[d].pkt = None
          /\ \A d, e \in CPUs : bpf'[d].pkt = bpf'[e].pkt /\ bpf'[d].pkt # None => d = e
          /\ \A d \in CPUs, i \in DOMAIN queue' : bpf'[d].pkt # queue'[i].pkt
      BY <1>d, <2>1, <2>2, <3>2 DEF ProgramInv
    <3>6. ASSUME NEW d \in CPUs, NEW i \in DOMAIN ring', bpf'[d].pkt = ring'[i].pkt
          PROVE  bpf'[d].st = "reserved" /\ ring'[i].st = "busy"
      <4>1. CASE i = Len(ring) + 1
        BY ReceiveAssumption, <1>d, <2>2, <3>2, <3>3, <3>6, <4>1 DEF ProgramInv
      <4>2. CASE i \in 1 .. Len(ring)
        BY <1>d, <1>e, <3>2, <3>3, <3>6, <4>2 DEF ProgramInv
      <4> QED
        BY <3>4, <4>1, <4>2
    <3> QED
      BY <3>5, <3>6 DEF ProgramInv
  <2> QED
    BY <2>3, <2>4
<1>4. ASSUME NEW c \in CPUs, NEW ok \in BOOLEAN, BpfSubmit(c, ok) PROVE ProgramInv'
  <2>1. bpf[c].st = "reserved" /\ queue' = queue /\ bpf' = [bpf EXCEPT ![c] = Idle]
    BY <1>4 DEF BpfSubmit
  <2>2. \A d \in CPUs : bpf'[d] = IF d = c THEN Idle ELSE bpf[d]
    BY <1>c, <2>1
  <2>3. /\ ring' \in Seq(Record) /\ Len(ring') = Len(ring)
        /\ \A i \in 1 .. Len(ring) :
              /\ ring'[i].pkt = ring[i].pkt
              /\ ring[i].pkt # bpf[c].pkt \/ ring[i].st # "busy" => ring'[i].st = ring[i].st
    BY <1>a, <1>4, SubmitEffect
  <2>4. DOMAIN ring' = 1 .. Len(ring)
    BY <1>b, <2>3
  <2>5. /\ \A i \in DOMAIN queue : queue[i].pkt # None
        /\ \A i \in DOMAIN ring : ring[i].pkt # None
    BY <1>a, HeldPackets, ReceiveAssumption
  <2>6. \A d \in CPUs : bpf'[d].st = "idle" <=> bpf'[d].pkt = None
    BY <1>d, <1>e, <2>1, <2>2, <2>3, <2>4, <2>5 DEF ProgramInv, Idle
  <2>7. \A d, e \in CPUs : bpf'[d].pkt = bpf'[e].pkt /\ bpf'[d].pkt # None => d = e
    BY <1>d, <1>e, <2>1, <2>2, <2>3, <2>4, <2>5 DEF ProgramInv, Idle
  <2>8. \A d \in CPUs, i \in DOMAIN queue' : bpf'[d].pkt # queue'[i].pkt
    BY <1>d, <1>e, <2>1, <2>2, <2>3, <2>4, <2>5 DEF ProgramInv, Idle
  <2>9. \A d \in CPUs, i \in DOMAIN ring' : bpf'[d].pkt = ring'[i].pkt =>
           bpf'[d].st = "reserved" /\ ring'[i].st = "busy"
    BY <1>d, <1>e, <2>1, <2>2, <2>3, <2>4, <2>5 DEF ProgramInv, Idle
  <2> QED
    BY <2>6, <2>7, <2>8, <2>9 DEF ProgramInv
<1>5. CASE Tick
  <2>1. /\ queue' \in Seq(Entry) /\ Len(queue') = Len(queue)
        /\ \A i \in 1 .. Len(queue) : queue'[i].pkt = queue[i].pkt
        /\ ring' \in Seq(Record) /\ Len(ring') = Len(ring)
        /\ \A i \in 1 .. Len(ring) : ring'[i].pkt = ring[i].pkt /\ ring'[i].st = ring[i].st
    BY <1>a, <1>5, TickEffect
  <2>2. DOMAIN ring' = 1 .. Len(ring) /\ DOMAIN queue' = 1 .. Len(queue) /\ bpf' = bpf
    BY <1>b, <2>1, <1>5 DEF Tick
  <2>3. \A d \in CPUs : bpf'[d].st = "idle" <=> bpf'[d].pkt = None
    BY <1>d, <1>e, <2>1, <2>2 DEF ProgramInv
  <2>4. \A d, e \in CPUs : bpf'[d].pkt = bpf'[e].pkt /\ bpf'[d].pkt # None => d = e
    BY <1>d, <1>e, <2>1, <2>2 DEF ProgramInv
  <2>5. \A d \in CPUs, i \in DOMAIN queue' : bpf'[d].pkt # queue'[i].pkt
    BY <1>d, <1>e, <2>1, <2>2 DEF ProgramInv
  <2>6. \A d \in CPUs, i \in DOMAIN ring' : bpf'[d].pkt = ring'[i].pkt =>
           bpf'[d].st = "reserved" /\ ring'[i].st = "busy"
    BY <1>d, <1>e, <2>1, <2>2 DEF ProgramInv
  <2> QED
    BY <2>3, <2>4, <2>5, <2>6 DEF ProgramInv
<1>6. ASSUME NEW t \in Receivers, ConsumeRecord(t) PROVE ProgramInv'
  <2>1. HeadIs("ready") /\ ring_callback(Head(ring)) /\ UNCHANGED <<ring, bpf>>
    BY <1>6 DEF ConsumeRecord
  <2>2. CASE queue' = queue
    BY <1>d, <2>1, <2>2 DEF ProgramInv
  <2>3. CASE queue' # queue
    <3>1. /\ queue' \in Seq(Entry) /\ Len(queue') = Len(queue) + 1
          /\ \A i \in 1 .. Len(queue) : queue'[i] = queue[i]
          /\ queue'[Len(queue) + 1].pkt = ring[1].pkt
      BY <1>a, <2>1, <2>3, PushEffect
    <3>2. DOMAIN queue' = 1 .. (Len(queue) + 1) /\ Len(queue) \in Nat
      BY <1>b, <3>1
    <3>3. 1 \in DOMAIN ring /\ ring[1].st = "ready"
      BY <1>b, <2>1 DEF HeadIs
    <3>4. \A c \in CPUs : bpf[c].pkt # ring[1].pkt
      BY <1>d, <3>3 DEF ProgramInv
    <3> QED
      BY <1>d, <1>e, <2>1, <3>1, <3>2, <3>4 DEF ProgramInv
  <2> QED
    BY <2>2, <2>3
<1>7. ASSUME NEW t \in Receivers, ConsumeAdvance(t) PROVE ProgramInv'
  <2>1. /\ ring' \in Seq(Record)
        /\ \A i \in 1 .. Len(ring') : i + 1 \in 1 .. Len(ring) /\ ring'[i] = ring[i + 1]
        /\ UNCHANGED <<queue, bpf>>
    BY <1>a, <1>7, AdvanceEffect, Zenon DEF ConsumeAdvance
  <2>2. DOMAIN ring' = 1 .. Len(ring')
    BY <2>1
  <2> QED
    BY <1>d, <1>e, <2>1, <2>2 DEF ProgramInv
<1>8. ASSUME NEW t \in Receivers, Pop(t) PROVE ProgramInv'
  <2>1. PICK k \in 1 .. (Len(queue) + 1), o \in Outcomes : queue_pop(k, o)
    BY <1>8 DEF Pop
  <2>2. /\ queue' \in Seq(Entry) /\ qlen' = Len(queue')
        /\ \A i \in 1 .. Len(queue') : i + k \in 1 .. Len(queue) /\ queue'[i] = queue[i + k]
    BY <1>a, <2>1, PopEffect
  <2>3. DOMAIN queue' = 1 .. Len(queue') /\ UNCHANGED <<ring, bpf>>
    <3>1. DOMAIN queue' = 1 .. Len(queue')
      BY <2>2
    <3> QED
      BY <1>8, <3>1 DEF Pop
  <2>4. \A d \in CPUs : bpf'[d].st = "idle" <=> bpf'[d].pkt = None
    BY <1>d, <1>e, <2>2, <2>3 DEF ProgramInv
  <2>5. \A d, e \in CPUs : bpf'[d].pkt = bpf'[e].pkt /\ bpf'[d].pkt # None => d = e
    BY <1>d, <1>e, <2>2, <2>3 DEF ProgramInv
  <2>6. ASSUME NEW d \in CPUs, NEW i \in DOMAIN queue' PROVE bpf'[d].pkt # queue'[i].pkt
    <3>1. i + k \in DOMAIN queue /\ queue'[i] = queue[i + k]
      BY <1>d, <1>e, <2>2, <2>3
    <3> QED
      BY <1>d, <1>e, <2>2, <2>3, <3>1 DEF ProgramInv
  <2>7. \A d \in CPUs, i \in DOMAIN ring' : bpf'[d].pkt = ring'[i].pkt =>
           bpf'[d].st = "reserved" /\ ring'[i].st = "busy"
    BY <1>d, <1>e, <2>2, <2>3 DEF ProgramInv
  <2> QED
    BY <2>4, <2>5, <2>6, <2>7 DEF ProgramInv
<1> QED
  BY <1>a, <1>1, <1>2, <1>3, <1>4, <1>5, <1>6, <1>7, <1>8, StepCases

\* The callback runs under poll_lock on a record that is not in the queue yet,
\* and its owner moves past that record before anybody else looks at the ring.
LEMMA HeldStep == ReceiveInv /\ [Next]_vars => HeldOnce'
<1> SUFFICES ASSUME ReceiveInv, [Next]_vars PROVE HeldOnce'
  OBVIOUS
<1>a. TypeOK /\ LengthInv /\ PollInv
  BY DEF ReceiveInv
<1>b. ring \in Seq(Record) /\ queue \in Seq(Entry)
  BY <1>a DEF TypeOK
<1>c. pc \in [Receivers -> Positions]
  BY <1>a DEF TypeOK
<1>d. ProgramInv
  BY DEF ReceiveInv
<1>e. DOMAIN ring = 1 .. Len(ring) /\ DOMAIN queue = 1 .. Len(queue)
  BY <1>b
<1>f. HeldOnce
  BY DEF ReceiveInv
<1> USE DEF kernelVars, queueVars
<1>1. CASE Quiet
  BY <1>f, <1>1 DEF Quiet, HeldOnce
<1>2. ASSUME NEW c \in CPUs, NEW p \in Packets, BpfMatch(c, p) PROVE HeldOnce'
  <2>1. UNCHANGED <<ring, queue, pc>>
    BY <1>2 DEF BpfMatch
  <2> QED
    BY <1>f, <2>1 DEF HeldOnce
<1>3. ASSUME NEW c \in CPUs, BpfReserve(c) PROVE HeldOnce'
  <2>1. bpf[c].st = "matched" /\ queue' = queue /\ pc' = pc
    BY <1>3 DEF BpfReserve
  <2>2. bpf[c].pkt \in Packets
    BY <1>a, <1>d, <2>1 DEF ProgramInv, TypeOK
  <2>3. CASE ring' = ring
    BY <1>f, <2>1, <2>3 DEF HeldOnce
  <2>4. CASE ring' # ring
    <3>1. /\ ring' \in Seq(Record) /\ Len(ring') = Len(ring) + 1
          /\ \A i \in 1 .. Len(ring) : ring'[i] = ring[i]
          /\ ring'[Len(ring) + 1].pkt = bpf[c].pkt
      BY <1>a, <1>3, <2>2, <2>4, ReserveEffect
    <3>2. DOMAIN ring' = 1 .. (Len(ring) + 1) /\ Len(ring) \in Nat
      BY <1>b, <3>1
    <3>3. /\ \A i \in DOMAIN ring : ring[i].pkt # bpf[c].pkt
          /\ \A i \in DOMAIN queue : queue[i].pkt # bpf[c].pkt
      BY <1>d, <2>1 DEF ProgramInv
    <3>4. \A i, j \in DOMAIN queue' : queue'[i].pkt = queue'[j].pkt => i = j
      BY <1>e, <1>f, <2>1, <3>1, <3>2, <3>3 DEF HeldOnce
    <3>5. \A i, j \in DOMAIN ring' : ring'[i].pkt = ring'[j].pkt => i = j
      <4> TAKE i, j \in DOMAIN ring'
      <4>1. i \in DOMAIN ring \/ i = Len(ring) + 1
        BY <1>e, <3>2
      <4>2. j \in DOMAIN ring \/ j = Len(ring) + 1
        BY <1>e, <3>2
      <4>3. \A m \in DOMAIN ring : ring'[m].pkt = ring[m].pkt /\ ring'[m].pkt # bpf[c].pkt
        BY <1>e, <3>1, <3>3
      <4>4. \A m, n \in DOMAIN ring : ring[m].pkt = ring[n].pkt => m = n
        BY <1>f DEF HeldOnce
      <4> QED
        BY ONLY <3>1, <4>1, <4>2, <4>3, <4>4
    <3>6. \A i \in DOMAIN queue', j \in DOMAIN ring' : queue'[i].pkt = ring'[j].pkt =>
             j = 1 /\ \E u \in Receivers : pc'[u] = "advance"
      BY <1>e, <1>f, <2>1, <3>1, <3>2, <3>3 DEF HeldOnce
    <3> QED
      BY <3>4, <3>5, <3>6 DEF HeldOnce
  <2> QED
    BY <2>3, <2>4
<1>4. ASSUME NEW c \in CPUs, NEW ok \in BOOLEAN, BpfSubmit(c, ok) PROVE HeldOnce'
  <2>1. queue' = queue /\ pc' = pc
    BY <1>4 DEF BpfSubmit
  <2>2. /\ ring' \in Seq(Record) /\ Len(ring') = Len(ring)
        /\ \A i \in 1 .. Len(ring) : ring'[i].pkt = ring[i].pkt
    BY <1>a, <1>4, SubmitEffect
  <2>3. DOMAIN ring' = 1 .. Len(ring)
    BY <1>b, <2>2
  <2>4. \A i, j \in DOMAIN queue' : queue'[i].pkt = queue'[j].pkt => i = j
    BY <1>e, <1>f, <2>1, <2>2, <2>3 DEF HeldOnce
  <2>5. \A i, j \in DOMAIN ring' : ring'[i].pkt = ring'[j].pkt => i = j
    BY <1>e, <1>f, <2>1, <2>2, <2>3 DEF HeldOnce
  <2>6. \A i \in DOMAIN queue', j \in DOMAIN ring' : queue'[i].pkt = ring'[j].pkt =>
           j = 1 /\ \E u \in Receivers : pc'[u] = "advance"
    BY <1>e, <1>f, <2>1, <2>2, <2>3 DEF HeldOnce
  <2> QED
    BY <2>4, <2>5, <2>6 DEF HeldOnce
<1>5. CASE Tick
  <2>1. /\ queue' \in Seq(Entry) /\ Len(queue') = Len(queue)
        /\ \A i \in 1 .. Len(queue) : queue'[i].pkt = queue[i].pkt
        /\ ring' \in Seq(Record) /\ Len(ring') = Len(ring)
        /\ \A i \in 1 .. Len(ring) : ring'[i].pkt = ring[i].pkt
    BY <1>a, <1>5, TickEffect
  <2>2. DOMAIN ring' = 1 .. Len(ring) /\ DOMAIN queue' = 1 .. Len(queue) /\ pc' = pc
    BY <1>b, <2>1, <1>5 DEF Tick
  <2>3. \A i, j \in DOMAIN queue' : queue'[i].pkt = queue'[j].pkt => i = j
    BY <1>e, <1>f, <2>1, <2>2 DEF HeldOnce
  <2>4. \A i, j \in DOMAIN ring' : ring'[i].pkt = ring'[j].pkt => i = j
    BY <1>e, <1>f, <2>1, <2>2 DEF HeldOnce
  <2>5. \A i \in DOMAIN queue', j \in DOMAIN ring' : queue'[i].pkt = ring'[j].pkt =>
           j = 1 /\ \E u \in Receivers : pc'[u] = "advance"
    BY <1>e, <1>f, <2>1, <2>2 DEF HeldOnce
  <2> QED
    BY <2>3, <2>4, <2>5 DEF HeldOnce
<1>6. ASSUME NEW t \in Receivers, ConsumeRecord(t) PROVE HeldOnce'
  <2>1. /\ HeadIs("ready") /\ ring_callback(Head(ring)) /\ ring' = ring
        /\ pc[t] = "consume" /\ pc' = [pc EXCEPT ![t] = "advance"]
    BY <1>6 DEF ConsumeRecord
  <2>2. ~ \E u \in Receivers : pc[u] = "advance"
    BY <1>a, <2>1 DEF PollInv
  <2>3. pc'[t] = "advance"
    BY <1>c, <2>1
  <2>4. CASE queue' = queue
    BY <1>f, <2>1, <2>2, <2>4 DEF HeldOnce
  <2>5. CASE queue' # queue
    <3>1. /\ queue' \in Seq(Entry) /\ Len(queue') = Len(queue) + 1
          /\ \A i \in 1 .. Len(queue) : queue'[i] = queue[i]
          /\ queue'[Len(queue) + 1].pkt = ring[1].pkt
      BY <1>a, <2>1, <2>5, PushEffect
    <3>2. DOMAIN queue' = 1 .. (Len(queue) + 1) /\ Len(queue) \in Nat /\ 1 \in DOMAIN ring
      BY <1>b, <2>1, <3>1 DEF HeadIs
    <3>3. \A i \in DOMAIN queue, j \in DOMAIN ring : queue[i].pkt # ring[j].pkt
      BY <1>f, <2>2 DEF HeldOnce
      <3>4. \A i, j \in DOMAIN queue' : queue'[i].pkt = queue'[j].pkt => i = j
        BY <1>e, <1>f, <2>1, <2>3, <3>1, <3>2, <3>3 DEF HeldOnce
      <3>5. \A i, j \in DOMAIN ring' : ring'[i].pkt = ring'[j].pkt => i = j
        BY <1>e, <1>f, <2>1, <2>3, <3>1, <3>2, <3>3 DEF HeldOnce
      <3>6. \A i \in DOMAIN queue', j \in DOMAIN ring' : queue'[i].pkt = ring'[j].pkt =>
               j = 1 /\ \E u \in Receivers : pc'[u] = "advance"
        BY <1>e, <1>f, <2>1, <2>3, <3>1, <3>2, <3>3 DEF HeldOnce
      <3> QED
        BY <3>4, <3>5, <3>6 DEF HeldOnce
  <2> QED
    BY <2>4, <2>5
<1>7. ASSUME NEW t \in Receivers, ConsumeAdvance(t) PROVE HeldOnce'
  <2>1. /\ ring # <<>> /\ ring' \in Seq(Record)
        /\ \A i \in 1 .. Len(ring') : i + 1 \in 1 .. Len(ring) /\ ring'[i] = ring[i + 1]
        /\ queue' = queue
    BY <1>a, <1>7, AdvanceEffect, Zenon DEF ConsumeAdvance
  <2>2. DOMAIN ring' = 1 .. Len(ring')
    BY <2>1
  <2>3. \A i \in DOMAIN queue, j \in DOMAIN ring : queue[i].pkt = ring[j].pkt => j = 1
    BY <1>f DEF HeldOnce
  <2>4. \A i, j \in DOMAIN queue' : queue'[i].pkt = queue'[j].pkt => i = j
    BY <1>f, <2>1 DEF HeldOnce
  <2>5. \A i, j \in DOMAIN ring' : ring'[i].pkt = ring'[j].pkt => i = j
    <3> TAKE i, j \in DOMAIN ring'
    <3>1. i + 1 \in DOMAIN ring /\ j + 1 \in DOMAIN ring /\ i \in Int /\ j \in Int
      BY <1>e, <2>1, <2>2
    <3>2. ring'[i] = ring[i + 1] /\ ring'[j] = ring[j + 1]
      BY <2>1, <2>2
    <3>3. ring[i + 1].pkt = ring[j + 1].pkt => i + 1 = j + 1
      BY <1>f, <3>1 DEF HeldOnce
    <3> QED
      BY <3>1, <3>2, <3>3
  <2>6. \A i \in DOMAIN queue', j \in DOMAIN ring' : queue'[i].pkt = ring'[j].pkt =>
           j = 1 /\ \E u \in Receivers : pc'[u] = "advance"
    <3> TAKE i \in DOMAIN queue', j \in DOMAIN ring'
    <3>1. j + 1 \in DOMAIN ring /\ j + 1 # 1 /\ ring'[j] = ring[j + 1]
      BY <1>e, <2>1, <2>2
    <3> QED
      BY <2>1, <2>3, <3>1
  <2> QED
    BY <2>4, <2>5, <2>6 DEF HeldOnce
<1>8. ASSUME NEW t \in Receivers, Pop(t) PROVE HeldOnce'
  <2>1. PICK k \in 1 .. (Len(queue) + 1), o \in Outcomes : queue_pop(k, o)
    BY <1>8 DEF Pop
  <2>2. /\ queue' \in Seq(Entry) /\ qlen' = Len(queue')
        /\ \A i \in 1 .. Len(queue') : i + k \in 1 .. Len(queue) /\ queue'[i] = queue[i + k]
    BY <1>a, <2>1, PopEffect
  <2>3. /\ DOMAIN queue' = 1 .. Len(queue') /\ ring' = ring
        /\ \A u \in Receivers : pc[u] = "advance" => pc'[u] = "advance"
    <3>1. DOMAIN queue' = 1 .. Len(queue')
      BY <2>2
    <3> QED
      BY <1>8, <3>1 DEF Pop
  <2>4. \A i, j \in DOMAIN queue' : queue'[i].pkt = queue'[j].pkt => i = j
    <3> TAKE i, j \in DOMAIN queue'
    <3>1. \A m \in DOMAIN queue' : m + k \in DOMAIN queue /\ m \in Int /\ queue'[m] = queue[m + k]
      BY <1>e, <2>2, <2>3
    <3>2. queue[i + k].pkt = queue[j + k].pkt => i + k = j + k
      BY <1>f, <3>1 DEF HeldOnce
    <3> QED
      BY <3>1, <3>2, k \in Int
  <2>5. \A i, j \in DOMAIN ring' : ring'[i].pkt = ring'[j].pkt => i = j
    BY <1>f, <2>3 DEF HeldOnce
  <2>6. \A i \in DOMAIN queue', j \in DOMAIN ring' : queue'[i].pkt = ring'[j].pkt =>
           j = 1 /\ \E u \in Receivers : pc'[u] = "advance"
    <3> TAKE i \in DOMAIN queue', j \in DOMAIN ring'
    <3>1. i + k \in DOMAIN queue /\ queue'[i] = queue[i + k] /\ j \in DOMAIN ring
      BY <1>e, <2>2, <2>3
    <3> QED
      BY <1>f, <2>2, <2>3, <3>1 DEF HeldOnce
  <2> QED
    BY <2>4, <2>5, <2>6 DEF HeldOnce
<1> QED
  BY <1>a, <1>1, <1>2, <1>3, <1>4, <1>5, <1>6, <1>7, <1>8, StepCases

\* Every action keeps the types.
LEMMA TypeStep == ReceiveInv /\ [Next]_vars => TypeOK'
<1> SUFFICES ASSUME ReceiveInv, [Next]_vars PROVE TypeOK'
  OBVIOUS
<1>a. TypeOK /\ LengthInv /\ PollInv
  BY DEF ReceiveInv
<1>b. PktLen \in [Packets -> Nat]
  BY ReceiveAssumption
<1>c. pc \in [Receivers -> Positions] /\ res \in [Receivers -> Results]
  BY <1>a DEF TypeOK
<1>d. count \in [Receivers -> Nat] /\ used \in [Receivers -> Nat]
  BY <1>a DEF TypeOK
<1>e. mode \in [Receivers -> {"wait", "shut", "batch"}]
  BY <1>a DEF TypeOK
<1>f. bpf \in [CPUs -> [st : {"idle", "matched", "reserved"}, pkt : Packets \cup {None}]]
  BY <1>a DEF TypeOK
<1> USE DEF kernelVars, queueVars, paramVars, shutVars, callVars
<1>1. ASSUME NEW c \in CPUs, NEW p \in Packets, BpfMatch(c, p) PROVE TypeOK'
  BY <1>a, <1>1 DEF BpfMatch, TypeOK
<1>2. ASSUME NEW c \in CPUs, BpfReserve(c) PROVE TypeOK'
  <2>1. bpf' \in [CPUs -> [st : {"idle", "matched", "reserved"}, pkt : Packets \cup {None}]]
    <3>1. Idle \in [st : {"idle", "matched", "reserved"}, pkt : Packets \cup {None}]
      BY DEF Idle
    <3>2. \/ bpf' = [bpf EXCEPT ![c].st = "reserved"]
          \/ bpf' = [bpf EXCEPT ![c] = Idle]
      BY <1>2 DEF BpfReserve
    <3>3. CASE bpf' = [bpf EXCEPT ![c].st = "reserved"]
      BY <1>f, <3>3
    <3>4. CASE bpf' = [bpf EXCEPT ![c] = Idle]
      BY <1>f, <3>1, <3>4
    <3> QED
      BY <3>2, <3>3, <3>4
  <2>2. bpf[c].pkt \in Packets
    BY <1>f, <1>2 DEF BpfReserve, ReceiveInv, ProgramInv
  <2>3. ring' \in Seq(Record)
    <3>1. CASE ring' = ring
      BY <1>a, <3>1 DEF TypeOK
    <3>2. CASE ring' # ring
      BY <1>a, <1>2, <2>2, <3>2, ReserveEffect
    <3> QED
      BY <3>1, <3>2
  <2>4. out' \subseteq (Packets \X Outcomes)
    BY <1>2, <2>2 DEF BpfReserve, Outcomes
  <2> QED
    BY <1>a, <1>2, <2>1, <2>3, <2>4 DEF BpfReserve, TypeOK
<1>3. ASSUME NEW c \in CPUs, NEW ok \in BOOLEAN, BpfSubmit(c, ok) PROVE TypeOK'
  <2>1. bpf' \in [CPUs -> [st : {"idle", "matched", "reserved"}, pkt : Packets \cup {None}]]
    BY <1>f, <1>3 DEF BpfSubmit, Idle
  <2>2. bpf[c].pkt \in Packets
    BY <1>f, <1>3 DEF BpfSubmit, ReceiveInv, ProgramInv
  <2>3. ring' \in Seq(Record)
    BY <1>a, <1>3, SubmitEffect
  <2>4. out' \subseteq (Packets \X Outcomes)
    BY <1>3, <2>2 DEF BpfSubmit, Outcomes
  <2> QED
    BY <1>a, <1>3, <2>1, <2>3, <2>4 DEF BpfSubmit, TypeOK
<1>4. CASE Tick
  <2>1. queue' \in Seq(Entry) /\ ring' \in Seq(Record)
    BY <1>a, <1>4, TickEffect
  <2>2. out' \subseteq (Packets \X Outcomes)
    BY <1>4 DEF Tick
  <2> QED
    BY <1>a, <1>4, <2>1, <2>2, Zenon DEF Tick, TypeOK
<1>5. ASSUME NEW t \in Receivers, ConsumeLock(t) PROVE TypeOK'
  BY <1>a, <1>5 DEF ConsumeLock, TypeOK, Positions
<1>6. ASSUME NEW t \in Receivers, LibStep(t) PROVE TypeOK'
  <2>1. CASE ConsumeRecord(t)
    <3>1. HeadIs("ready") /\ ring_callback(Head(ring))
      BY <2>1 DEF ConsumeRecord
    <3>2. /\ queue' \in Seq(Entry) /\ qlen' \in Nat
          /\ queue_drops' \in 0 .. (DropsMod - 1)
          /\ out' \subseteq (Packets \X Outcomes)
      BY <1>a, <3>1, PushEffect
    <3>3. wake_set' \in BOOLEAN
      BY <1>a, <3>1, Zenon DEF ring_callback, queue_push, wake_update, TypeOK
    <3> QED
      BY <1>a, <2>1, <3>2, <3>3 DEF ConsumeRecord, TypeOK, Positions
  <2>2. CASE ConsumeAdvance(t)
    <3>1. ring' \in Seq(Record)
      BY <1>a, <2>2, AdvanceEffect
    <3>2. out' \subseteq (Packets \X Outcomes)
      BY <2>2 DEF ConsumeAdvance
    <3> QED
      BY <1>a, <2>2, <3>1, <3>2 DEF ConsumeAdvance, TypeOK, Positions
  <2>3. CASE ConsumeUnlock(t)
    <3>1. \/ \E r \in Results : Return(t, r)
          \/ \E w \in Positions : Continue(t, w)
      BY <2>3, Zenon DEF ConsumeUnlock, Results, Positions
    <3>2. pc' \in [Receivers -> Positions] /\ res' \in [Receivers -> Results]
      BY <1>c, <3>1, ReturnTyped
    <3> QED
      BY <1>a, <2>3, <3>2 DEF ConsumeUnlock, TypeOK
  <2>4. CASE NextEntryPop(t)
    <3>1. PICK k \in 1 .. (Len(queue) + 1), o \in Outcomes : queue_pop(k, o)
      BY <2>4 DEF NextEntryPop, Outcomes
    <3>2. /\ queue' \in Seq(Entry) /\ qlen' = Len(queue')
          /\ queue_drops' \in 0 .. (DropsMod - 1)
          /\ out' \subseteq (Packets \X Outcomes)
      BY <1>a, <3>1, PopEffect
    <3>3. qlen' \in Nat
      BY <3>2
    <3>4. wake_set' \in BOOLEAN
      BY <3>1 DEF queue_pop, wake_update
    <3>5. /\ count' \in [Receivers -> Nat] /\ used' \in [Receivers -> Nat]
          /\ mode' \in [Receivers -> {"wait", "shut", "batch"}]
          /\ pc' \in [Receivers -> Positions] /\ res' \in [Receivers -> Results]
      <4>1. PICK m \in 1 .. (Len(queue) + 1) :
              \/ m <= Len(queue) /\ FirstEntry(t, queue[m].pkt)
              \/ /\ mode' = [mode EXCEPT ![t] = IF shut_recv THEN "shut" ELSE "wait"]
                 /\ Continue(t, "lock")
                 /\ UNCHANGED <<count, used>>
        BY <2>4 DEF NextEntryPop
      <4>2. CASE m <= Len(queue) /\ FirstEntry(t, queue[m].pkt)
        <5>1. queue[m].pkt \in Packets
          <6>1. m \in DOMAIN queue
            BY <1>a, <4>2 DEF TypeOK
          <6> QED
            BY <1>a, <6>1, HeldPackets
        <5>2. PktLen[queue[m].pkt] \in Nat
          BY <1>b, <5>1
        <5>3. /\ count' \in [Receivers -> Nat] /\ used' \in [Receivers -> Nat]
              /\ mode' \in [Receivers -> {"wait", "shut", "batch"}]
          <6>1. \/ UNCHANGED <<mode, count, used>>
                \/ /\ count' = [count EXCEPT ![t] = 1]
                   /\ used' = [used EXCEPT ![t] = PktLen[queue[m].pkt]]
                   /\ mode' = [mode EXCEPT ![t] = "batch"]
            BY <4>2 DEF FirstEntry
          <6>2. PICK n \in Nat : n = PktLen[queue[m].pkt]
            BY <5>2
          <6> QED
            BY ONLY <1>d, <1>e, <6>1, <6>2, t \in Receivers
        <5>4. \/ \E r \in Results : Return(t, r)
              \/ \E w \in Positions : Continue(t, w)
          BY <4>2 DEF FirstEntry, Results, Positions
        <5> QED
          BY <1>c, <5>3, <5>4, ReturnTyped
      <4>3. CASE /\ mode' = [mode EXCEPT ![t] = IF shut_recv THEN "shut" ELSE "wait"]
                 /\ Continue(t, "lock")
                 /\ UNCHANGED <<count, used>>
        <5>1. "lock" \in Positions
          BY DEF Positions
        <5> QED
          BY <1>c, <1>d, <1>e, <4>3, <5>1, ReturnTyped, Zenon
      <4> QED
        BY <4>1, <4>2, <4>3
    <3> QED
      BY <1>a, <2>4, <3>2, <3>3, <3>4, <3>5, Zenon DEF NextEntryPop, TypeOK
  <2>5. CASE NextEntryPeek(t)
    <3>1. \/ \E r \in Results : Return(t, r)
          \/ \E w \in Positions : Continue(t, w)
      BY <2>5, Zenon DEF NextEntryPeek, Results, Positions
    <3>2. pc' \in [Receivers -> Positions] /\ res' \in [Receivers -> Results]
      BY <1>c, <3>1, ReturnTyped
    <3>3. /\ UNCHANGED <<flags, ring, bpf, queue, qlen, queue_length, queue_time, queue_size,
                         queue_drops, shut_recv, cfg_shutdown, wake_set, poll_lock>>
          /\ UNCHANGED <<call, timeout, mode, consumed, count, used>>
          /\ out' = {}
      BY <2>5 DEF NextEntryPeek
    <3> QED
      BY <1>a, <3>2, <3>3 DEF TypeOK
  <2>6. CASE EpollWake(t)
    <3>1. \/ \E r \in Results : Return(t, r)
          \/ \E w \in Positions : Continue(t, w)
      BY <2>6 DEF EpollWake, Results, Positions
    <3>2. pc' \in [Receivers -> Positions] /\ res' \in [Receivers -> Results]
      BY <1>c, <3>1, ReturnTyped
    <3>3. /\ UNCHANGED <<flags, ring, bpf, queue, qlen, queue_length, queue_time, queue_size,
                         queue_drops, shut_recv, cfg_shutdown, wake_set, poll_lock>>
          /\ UNCHANGED <<call, timeout, mode, consumed, count, used>>
          /\ out' = {}
      BY <2>6 DEF EpollWake
    <3> QED
      BY <1>a, <3>2, <3>3 DEF TypeOK
  <2>7. CASE BatchTake(t)
    <3>1. CASE UNCHANGED <<queueVars, queue_drops, count, used>> /\ out' = {} /\ Return(t, "ok")
      <4>1. "ok" \in Results
        BY DEF Results
      <4>2. pc' \in [Receivers -> Positions] /\ res' \in [Receivers -> Results]
        BY <1>c, <3>1, <4>1, ReturnTyped
      <4> QED
        BY <1>a, <2>7, <3>1, <4>2, Zenon DEF BatchTake, TypeOK
    <3>2. ASSUME NEW k \in 1 .. (Len(queue) + 1), queue_pop(k, "delivered"),
                 IF k <= Len(queue)
                   THEN /\ count' = [count EXCEPT ![t] = count[t] + 1]
                        /\ used' = [used EXCEPT ![t] = used[t] + PktLen[queue[k].pkt]]
                        /\ Continue(t, "lock") \/ Return(t, "ok")
                   ELSE Return(t, "ok") /\ UNCHANGED <<count, used>>
          PROVE  TypeOK'
      <4>1. "delivered" \in Outcomes
        BY DEF Outcomes
      <4>2. /\ queue' \in Seq(Entry) /\ qlen' = Len(queue')
            /\ queue_drops' \in 0 .. (DropsMod - 1)
            /\ out' \subseteq (Packets \X Outcomes)
        BY <1>a, <3>2, <4>1, PopEffect, Zenon
      <4>3. qlen' \in Nat
        BY <4>2
      <4>4. wake_set' \in BOOLEAN
        BY <3>2 DEF queue_pop, wake_update
      <4>5. k <= Len(queue) => PktLen[queue[k].pkt] \in Nat
        <5>1. k <= Len(queue) => k \in DOMAIN queue
          BY <1>a DEF TypeOK
        <5> QED
          BY <1>a, <1>b, <5>1, HeldPackets
      <4>6. count' \in [Receivers -> Nat] /\ used' \in [Receivers -> Nat]
        <5>1. CASE k <= Len(queue)
          <6>1. PICK n \in Nat : n = PktLen[queue[k].pkt]
            BY <4>5, <5>1, ZenonT(60)
          <6>2. count' = [count EXCEPT ![t] = count[t] + 1] /\ used' = [used EXCEPT ![t] = used[t] + n]
            BY <3>2, <5>1, <6>1
          <6> QED
            BY <1>d, <6>2
        <5>2. CASE ~(k <= Len(queue))
          BY <1>d, <3>2, <5>2
        <5> QED
          BY <5>1, <5>2
      <4>7. pc' \in [Receivers -> Positions] /\ res' \in [Receivers -> Results]
        <5>1. "lock" \in Positions /\ "ok" \in Results
          BY DEF Positions, Results
        <5> QED
          BY <1>c, <3>2, <5>1, ReturnTyped
      <4> QED
        BY <1>a, <2>7, <4>2, <4>3, <4>4, <4>6, <4>7, Zenon DEF BatchTake, TypeOK
    <3>3. CASE queue = <<>> \/ BatchFull(t)
      BY <2>7, <3>1, <3>3, ZenonT(60) DEF BatchTake
    <3>4. CASE ~(queue = <<>> \/ BatchFull(t))
      <4>1. PICK k \in 1 .. (Len(queue) + 1) :
              /\ queue_pop(k, "delivered")
              /\ IF k <= Len(queue)
                   THEN /\ count' = [count EXCEPT ![t] = count[t] + 1]
                        /\ used' = [used EXCEPT ![t] = used[t] + PktLen[queue[k].pkt]]
                        /\ Continue(t, "lock") \/ Return(t, "ok")
                   ELSE Return(t, "ok") /\ UNCHANGED <<count, used>>
        <5>1. \E k \in 1 .. (Len(queue) + 1) :
                /\ PopStopsAt(k)
                /\ queue_pop(k, "delivered")
                /\ IF k <= Len(queue)
                     THEN /\ count' = [count EXCEPT ![t] = @ + 1]
                          /\ used' = [used EXCEPT ![t] = @ + PktLen[queue[k].pkt]]
                          /\ IF count[t] + 1 < MaxAddrs THEN Continue(t, "lock")
                                                        ELSE Return(t, "ok")
                     ELSE Return(t, "ok") /\ UNCHANGED <<count, used>>
          BY <2>7, <3>4, ZenonT(60) DEF BatchTake
        <5>2. count[t] + 1 < MaxAddrs \/ ~(count[t] + 1 < MaxAddrs)
          OBVIOUS
        <5> QED
          BY ONLY <5>1, <5>2
      <4> QED
        BY <3>2, <4>1
    <3> QED
      BY <3>3, <3>4
  <2> QED
    BY <1>6, <2>1, <2>2, <2>3, <2>4, <2>5, <2>6, <2>7 DEF LibStep
<1>7. ASSUME NEW t \in Receivers, EpollInterrupted(t) PROVE TypeOK'
  <2>1. \/ \E r \in Results : Return(t, r)
          \/ \E w \in Positions : Continue(t, w)
    BY <1>7 DEF EpollInterrupted, Results, Positions
  <2>2. pc' \in [Receivers -> Positions] /\ res' \in [Receivers -> Results]
    BY <1>c, <2>1, ReturnTyped
  <2> QED
    BY <1>a, <1>7, <2>2 DEF EpollInterrupted, TypeOK
<1>8. ASSUME NEW t \in Receivers, NEW c \in Calls, NEW tm \in Timeouts,
             Call(t, c, tm) PROVE TypeOK'
  BY ReceiveAssumption, <1>a, <1>8, Zenon DEF Call, TypeOK, Positions, Results
<1>9. CASE Shutdown
  <2>1. out' \subseteq (Packets \X Outcomes)
    BY <1>9 DEF Shutdown
  <2> QED
    BY <1>a, <1>9, <2>1 DEF Shutdown, wake_update, TypeOK
<1>10. CASE SetParam
  BY <1>a, <1>10 DEF SetParam, TypeOK
<1>11. CASE UNCHANGED vars
  BY <1>a, <1>11 DEF vars, TypeOK
<1> QED
  BY <1>1, <1>2, <1>3, <1>4, <1>5, <1>6, <1>7, <1>8, <1>9, <1>10, <1>11 DEF Next, BpfStep

-----------------------------------------------------------------------------
(***************************************************************************)
(* Theorems.                                                               *)
(***************************************************************************)
\* The inductive invariant holds in every reachable state of the receive path.
THEOREM ReceiveInvariant == Spec => []ReceiveInv
<1>1. ReceiveInv /\ [Next]_vars => ReceiveInv'
  BY TypeStep, WakeStep, LengthStep, PollStep, ProgramStep, HeldStep DEF ReceiveInv
<1> QED
  BY InitInv, <1>1, PTL DEF Spec

\* The variables of the handle and of the calls in progress keep their types.
THEOREM TypeCorrect == Spec => []TypeOK
<1>1. ReceiveInv => TypeOK
  BY DEF ReceiveInv
<1> QED
  BY ReceiveInvariant, <1>1, PTL

\* wake_fd is readable exactly when the queue has an entry or the handle is
\* shut down, for any number of receivers and any interleaving of qlock
\* sections: a receiver never sleeps in epoll_wait beside a queued packet.
THEOREM WakeFdCorrect == Spec => []WakeFdTracksQueue
<1>1. ReceiveInv => WakeFdTracksQueue
  BY DEF ReceiveInv
<1> QED
  BY ReceiveInvariant, <1>1, PTL

\* No packet is queued twice, whatever the interleaving of receivers in
\* ring_buffer__consume with each other and with the programs that fill the
\* ring: poll_lock is enough, although ring_callback runs before the consumer
\* position moves.
THEOREM NoPacketTwice == Spec => []HeldOnce
<1>1. ReceiveInv => HeldOnce
  BY DEF ReceiveInv
<1> QED
  BY ReceiveInvariant, <1>1, PTL

-----------------------------------------------------------------------------
(***************************************************************************)
(* What recv_ex copies.                                                    *)
(***************************************************************************)
\* A call has copied more only after one of its own two qlock sections.
LEMMA OnlyPopsCopy ==
    ASSUME TypeOK, [Next]_vars, NEW t \in Receivers, used'[t] > used[t]
    PROVE  NextEntryPop(t) \/ BatchTake(t)
<1>1. used \in [Receivers -> Nat]
  BY DEF TypeOK
<1>2. used'[t] # used[t] /\ used'[t] # 0
  BY <1>1
<1>3. used' # used
  BY <1>2
<1>4. ASSUME NEW u \in Receivers, NextEntryPop(u) PROVE used' = used \/ \E n : used' = [used EXCEPT ![u] = n]
  BY <1>4 DEF NextEntryPop, FirstEntry
<1>5. ASSUME NEW u \in Receivers, BatchTake(u) PROVE used' = used \/ \E n : used' = [used EXCEPT ![u] = n]
  BY <1>5, Zenon DEF BatchTake
<1>6. ASSUME NEW u \in Receivers, NEW n, used' = [used EXCEPT ![u] = n] PROVE u = t /\ n = used'[t]
  BY <1>1, <1>2, <1>6
<1>7. ASSUME NEW u \in Receivers, NEW c \in Calls, NEW tm \in Timeouts, Call(u, c, tm) PROVE FALSE
  BY <1>2, <1>6, <1>7 DEF Call
<1>8. ASSUME NEW c \in CPUs, NEW p \in Packets, BpfMatch(c, p) PROVE FALSE
  BY <1>3, <1>8 DEF BpfMatch, callVars
<1>9. ASSUME NEW c \in CPUs, BpfStep(c) PROVE FALSE
  BY <1>3, <1>9 DEF BpfStep, BpfReserve, BpfSubmit, callVars
<1>10. ~Tick /\ ~Shutdown /\ ~SetParam /\ ~UNCHANGED vars
  BY <1>3, Zenon DEF Tick, Shutdown, SetParam, vars, callVars
<1>11. ASSUME NEW u \in Receivers, ConsumeLock(u) \/ EpollInterrupted(u) PROVE FALSE
  BY <1>3, <1>11 DEF ConsumeLock, EpollInterrupted, callVars
<1>12. ASSUME NEW u \in Receivers, LibStep(u) PROVE NextEntryPop(u) \/ BatchTake(u)
  BY <1>3, <1>12, Zenon DEF LibStep, ConsumeRecord, ConsumeAdvance, ConsumeUnlock, NextEntryPeek,
                     EpollWake, callVars
<1>13. PICK u \in Receivers : NextEntryPop(u) \/ BatchTake(u)
  BY <1>7, <1>8, <1>9, <1>10, <1>11, <1>12, Zenon DEF Next
<1>14. u = t
  BY <1>3, <1>4, <1>5, <1>6, <1>13
<1> QED
  BY <1>13, <1>14

\* What a call of recv or recv_ex has copied fits in the buffer it was given,
\* over all the entries it takes, as long as recv_ex does not meet an expired
\* head after looking at its length.
THEOREM CopiesFit == Spec => BatchGrowsWithinBuffer
<1>1. ReceiveInv /\ [Next]_vars =>
        [\A t \in Receivers :
            HasBuf /\ used'[t] > used[t] /\ ~Expired(Head(queue)) => used'[t] <= BufLen]_vars
  <2> SUFFICES ASSUME ReceiveInv, [Next]_vars, NEW t \in Receivers,
                      HasBuf, used'[t] > used[t], ~Expired(Head(queue))
               PROVE  used'[t] <= BufLen
    OBVIOUS
  <2>1. /\ TypeOK /\ queue \in Seq(Entry) /\ used \in [Receivers -> Nat] /\ Len(queue) \in Nat
        /\ BufLen \in Nat /\ PktLen \in [Packets -> Nat]
    <3>1. TypeOK /\ queue \in Seq(Entry) /\ used \in [Receivers -> Nat]
      BY DEF ReceiveInv, TypeOK
    <3>2. BufLen \in Nat /\ PktLen \in [Packets -> Nat]
      BY ReceiveAssumption
    <3> QED
      BY <3>1, <3>2
  <2>2. used' # used
    BY <2>1
  <2>3. \A k \in 1 .. (Len(queue) + 1) : k <= Len(queue) => PktLen[queue[k].pkt] \in Nat
    BY <2>1, HeldPackets
  <2>4. CASE NextEntryPop(t)
    <3>1. PICK k \in 1 .. (Len(queue) + 1) :
            /\ k <= Len(queue) => FirstEntry(t, queue[k].pkt)
            /\ ~(k <= Len(queue)) => UNCHANGED used
      BY <2>4 DEF NextEntryPop
    <3>2. k <= Len(queue) /\ FirstEntry(t, queue[k].pkt)
      BY <2>2, <3>1
    <3>3. PICK n \in Nat : n = PktLen[queue[k].pkt]
      BY <2>3, <3>2, Zenon
    <3>4. used' = [used EXCEPT ![t] = n] /\ ~(n > BufLen)
      BY <2>2, <3>2, <3>3 DEF FirstEntry, TooLong
    <3> QED
      BY <2>1, <3>3, <3>4
  <2>5. CASE BatchTake(t)
    <3>1. queue # <<>> /\ ~BatchFull(t)
      BY <2>2, <2>5 DEF BatchTake
    <3>2. PICK k \in 1 .. (Len(queue) + 1) :
            /\ PopStopsAt(k)
            /\ k <= Len(queue) => used' = [used EXCEPT ![t] = used[t] + PktLen[queue[k].pkt]]
            /\ ~(k <= Len(queue)) => UNCHANGED used
      BY <2>5, <3>1 DEF BatchTake
    <3>3. k = 1
      <4>1. Head(queue) = queue[1]
        BY <2>1, <3>1
      <4>2. k - 1 >= 1 => Expired(queue[1])
        BY <2>1, <3>2 DEF PopStopsAt
      <4> QED
        BY <2>1, <4>1, <4>2
    <3>4. k <= Len(queue) /\ Head(queue) = queue[1]
      BY <2>1, <3>1, <3>3
    <3>5. PICK n \in Nat : n = PktLen[queue[1].pkt]
      BY <2>3, <3>3, <3>4
    <3>6. used' = [used EXCEPT ![t] = used[t] + n] /\ ~(used[t] + n > BufLen)
      BY <3>1, <3>2, <3>3, <3>4, <3>5 DEF BatchFull
    <3> QED
      BY <2>1, <3>5, <3>6
  <2> QED
    BY <2>1, <2>4, <2>5, OnlyPopsCopy
<1> QED
  BY ReceiveInvariant, <1>1, PTL DEF Spec, BatchGrowsWithinBuffer

-----------------------------------------------------------------------------
(***************************************************************************)
(* The last look of a shut down handle, for a handle with one receiver.    *)
(***************************************************************************)
\* No receiver moves, and an empty queue stays empty.
Aside ==
    /\ UNCHANGED <<pc, mode, consumed, res>>
    /\ queue = <<>> => queue' = <<>>

\* The steps that no receiver takes stand aside.
LEMMA OthersStandAside ==
    ASSUME TypeOK, [Next]_vars
    PROVE  \/ Aside
           \/ \E t \in Receivers : \/ ConsumeLock(t) \/ LibStep(t) \/ EpollInterrupted(t)
                                   \/ \E c \in Calls, tm \in Timeouts : Call(t, c, tm)
<1>1. ASSUME NEW c \in CPUs, NEW p \in Packets, BpfMatch(c, p) PROVE Aside
  BY <1>1 DEF BpfMatch, Aside, callVars, queueVars
<1>2. ASSUME NEW c \in CPUs, BpfStep(c) PROVE Aside
  BY <1>2 DEF BpfStep, BpfReserve, BpfSubmit, Aside, callVars, queueVars
<1>3. CASE Tick
  <2>1. UNCHANGED <<pc, mode, consumed, res>> /\ queue' = [i \in DOMAIN queue |-> Older(queue[i])]
    BY <1>3, Zenon DEF Tick, callVars
  <2>2. queue = <<>> => queue' = <<>>
    <3>1. queue \in Seq(Entry)
      BY DEF TypeOK
    <3>2. queue' \in Seq(Entry) /\ Len(queue') = Len(queue)
      BY <1>3, TickEffect
    <3> QED
      BY <3>1, <3>2
  <2> QED
    BY <2>1, <2>2 DEF Aside
<1>4. CASE Shutdown \/ SetParam
  BY <1>4, Zenon DEF Shutdown, SetParam, Aside, callVars, queueVars
<1>5. CASE UNCHANGED vars
  BY <1>5 DEF vars, Aside
<1> QED
  BY <1>1, <1>2, <1>3, <1>4, <1>5 DEF Next

\* An emptied queue: what queue_pop leaves when every entry has expired.
LEMMA PopsAll ==
    ASSUME TypeOK, NEW k \in 1 .. (Len(queue) + 1), NEW o, queue_pop(k, o), ~(k <= Len(queue))
    PROVE  queue' = <<>>
<1>1. queue \in Seq(Entry) /\ queue' = SubSeq(queue, k + 1, Len(queue))
  BY DEF TypeOK, queue_pop
<1>2. queue' \in Seq(Entry) /\ Len(queue') = 0
  BY <1>1, PopLeaves
<1> QED
  BY <1>2

\* The receiver keeps the invariant of its drain.
LEMMA DrainStep ==
    ASSUME \A t, u \in Receivers : t = u, TypeOK, DrainInv, [Next]_vars
    PROVE  DrainInv'
<1> DEFINE D(t) == /\ pc[t] = "batch" => mode[t] = "batch"
                   /\ pc[t] = "advance" => consumed[t]
                   /\ mode[t] = "shut" /\ (pc[t] = "lock" \/ (pc[t] = "consume" /\ ~consumed[t])) =>
                        queue = <<>>
<1>1. /\ pc \in [Receivers -> Positions] /\ consumed \in [Receivers -> BOOLEAN]
      /\ mode \in [Receivers -> {"wait", "shut", "batch"}]
  BY DEF TypeOK
<1>2. \A t \in Receivers : D(t)
  BY DEF DrainInv
<1>3. CASE Aside
  BY <1>2, <1>3 DEF Aside, DrainInv
<1>4. ASSUME NEW t \in Receivers,
             \/ ConsumeLock(t) \/ LibStep(t) \/ EpollInterrupted(t)
             \/ \E c \in Calls, tm \in Timeouts : Call(t, c, tm)
      PROVE  D(t)'
  <2>1. CASE ConsumeLock(t)
    <3>1. pc[t] = "lock" /\ pc'[t] = "consume" /\ mode' = mode /\ queue' = queue
      BY <1>1, <2>1 DEF ConsumeLock, queueVars
    <3> QED
      BY <1>2, <3>1
  <2>2. CASE ConsumeRecord(t)
    <3>1. pc'[t] = "advance" /\ consumed'[t]
      BY <1>1, <2>2 DEF ConsumeRecord
    <3> QED
      BY <3>1
  <2>3. CASE ConsumeAdvance(t)
    <3>1. /\ pc[t] = "advance" \/ pc[t] = "consume"
          /\ pc'[t] = "consume" /\ mode' = mode /\ consumed' = consumed /\ queue' = queue
      BY <1>1, <2>3 DEF ConsumeAdvance, queueVars, callVars
    <3> QED
      BY <1>2, <3>1
  <2>4. CASE ConsumeUnlock(t)
    <3>1. /\ pc'[t] \in {"pop", "peek", "idle"} \/ (pc'[t] = "batch" /\ mode[t] = "batch")
          /\ mode' = mode
      BY <1>1, <2>4 DEF ConsumeUnlock, Continue, Return, callVars
    <3> QED
      BY <3>1
  <2>5. CASE NextEntryPop(t)
    <3>1. PICK k \in 1 .. (Len(queue) + 1) :
            \/ k <= Len(queue) /\ FirstEntry(t, queue[k].pkt)
            \/ ~(k <= Len(queue)) /\ queue_pop(k, "expired") /\ Continue(t, "lock")
      BY <2>5 DEF NextEntryPop
    <3>2. CASE FirstEntry(t, queue[k].pkt)
      <4>1. pc'[t] = "idle" \/ (pc'[t] = "lock" /\ mode'[t] = "batch")
        BY <1>1, <3>2 DEF FirstEntry, Continue, Return
      <4> QED
        BY <4>1
    <3>3. CASE ~(k <= Len(queue)) /\ queue_pop(k, "expired") /\ Continue(t, "lock")
      <4>1. pc'[t] = "lock"
        BY <1>1, <3>3 DEF Continue
      <4> QED
        BY <3>3, <4>1, PopsAll
    <3> QED
      BY <3>1, <3>2, <3>3
  <2>6. CASE NextEntryPeek(t) \/ EpollWake(t) \/ EpollInterrupted(t)
    <3>1. pc'[t] \in {"pop", "idle", "epoll"}
      BY <1>1, <2>6 DEF NextEntryPeek, EpollWake, EpollInterrupted, Continue, Return
    <3> QED
      BY <3>1
  <2>7. CASE BatchTake(t)
    <3>1. pc[t] = "batch" /\ pc'[t] \in {"idle", "lock"} /\ mode' = mode
      BY <1>1, <2>7 DEF BatchTake, Continue, Return
    <3> QED
      BY <1>2, <3>1, Zenon
  <2>8. ASSUME NEW c \in Calls, NEW tm \in Timeouts, Call(t, c, tm) PROVE D(t)'
    <3>1. pc'[t] = "pop"
      BY <1>1, <2>8 DEF Call
    <3> QED
      BY <3>1
  <2> QED
    BY <1>4, <2>1, <2>2, <2>3, <2>4, <2>5, <2>6, <2>7, <2>8, Zenon DEF LibStep
<1>5. ASSUME NEW t \in Receivers, D(t)' PROVE DrainInv'
  BY <1>5 DEF DrainInv
<1> HIDE DEF D
<1> QED
  BY <1>3, <1>4, <1>5, OthersStandAside

\* The invariant of the drain, for a handle with one receiver.
THEOREM DrainInvariant ==
    ASSUME \A t, u \in Receivers : t = u
    PROVE  Spec => []DrainInv
<1>1. Init => DrainInv
  BY DEF Init, DrainInv
<1>2. TypeOK /\ DrainInv /\ [Next]_vars => DrainInv'
  BY DrainStep
<1> QED
  BY TypeCorrect, <1>1, <1>2, PTL DEF Spec

\* "ebpfdivert_recv() returns -ESHUTDOWN only once the queue is empty": so it
\* does on a handle with one receiver, whatever the programs, the limits and
\* the shutdown do meanwhile.
THEOREM DrainedBeforeShutdown ==
    ASSUME \A t, u \in Receivers : t = u
    PROVE  Spec => ShutdownAfterDrain
<1>1. TypeOK /\ DrainInv /\ [Next]_vars =>
        [\A t \in Receivers :
            res'[t] = "ESHUTDOWN" /\ res[t] # "ESHUTDOWN" => queue' = <<>>]_vars
  <2> SUFFICES ASSUME TypeOK, DrainInv, [Next]_vars, NEW t \in Receivers,
                      res'[t] = "ESHUTDOWN", res[t] # "ESHUTDOWN"
               PROVE  queue' = <<>>
    OBVIOUS
  <2>1. res \in [Receivers -> Results]
    BY DEF TypeOK
  <2>2. res' # res
    OBVIOUS
  <2>3. ASSUME NEW u \in Receivers, NEW r, res' = [res EXCEPT ![u] = r] PROVE u = t /\ r = "ESHUTDOWN"
    BY <2>1, <2>3
  <2>4. ASSUME NEW u \in Receivers, ConsumeUnlock(u) PROVE queue' = <<>>
    <3>1. pc[u] = "consume" /\ mode[u] = "shut" /\ ~consumed[u] /\ queue' = queue
      BY <2>2, <2>3, <2>4 DEF ConsumeUnlock, Continue, Return, queueVars
    <3> QED
      BY <3>1 DEF DrainInv
  <2>5. ASSUME NEW u \in Receivers, NEW c \in Calls, NEW tm \in Timeouts, Call(u, c, tm) PROVE FALSE
    BY <2>3, <2>5 DEF Call
  <2>6. ASSUME NEW u \in Receivers, NextEntryPop(u) PROVE FALSE
    BY <2>2, <2>3, <2>6 DEF NextEntryPop, FirstEntry, Continue, Return
  <2>7. ASSUME NEW u \in Receivers, NextEntryPeek(u) \/ EpollWake(u) \/ EpollInterrupted(u)
        PROVE  FALSE
    BY <2>2, <2>3, <2>7, Zenon DEF NextEntryPeek, EpollWake, EpollInterrupted, Continue, Return
  <2>8. ASSUME NEW u \in Receivers, BatchTake(u) PROVE FALSE
    BY <2>2, <2>3, <2>8, Zenon DEF BatchTake, Continue, Return
  <2>9. ASSUME NEW u \in Receivers, ConsumeLock(u) \/ ConsumeRecord(u) \/ ConsumeAdvance(u)
        PROVE  FALSE
    BY <2>2, <2>9 DEF ConsumeLock, ConsumeRecord, ConsumeAdvance
  <2>10. ~Aside
    BY <2>2 DEF Aside
  <2> QED
    BY <2>4, <2>5, <2>6, <2>7, <2>8, <2>9, <2>10, OthersStandAside, Zenon DEF LibStep
<1> QED
  BY TypeCorrect, DrainInvariant, <1>1, PTL DEF Spec, ShutdownAfterDrain
=============================================================================
