------------------------------ MODULE Receive ------------------------------
(***************************************************************************)
(* The receive path of one NETWORK handle: the BPF program that copies a   *)
(* packet into the handle's ring buffer, and the application threads that  *)
(* drain the ring into the user-space queue and take entries from it       *)
(* (next_entry, recv, recv_ex), against shutdown and set_param.            *)
(*                                                                         *)
(* A packet is an identity with constant attributes; it may be captured    *)
(* again once the handle has let go of it, so behaviours are infinite and  *)
(* the state space is finite.  Every section under qlock is one step; the  *)
(* section under poll_lock is several.                                     *)
(***************************************************************************)
EXTENDS Integers, Sequences, FiniteSets

CONSTANTS
    Receivers,      \* application threads that call recv / recv_ex
    CPUs,           \* CPUs on which the BPF program may run
    Packets,        \* packets on the wire
    PktLen,         \* length of each packet
    Match,          \* does wd_filter_eval accept the packet
    Frag,           \* is the packet an IP fragment
    Exact,          \* h->exact: the kernel rules are the filter
    FlagSets,       \* values of h->flags: sets of "DROP" and "SNIFF"
    RingCap,        \* records that fit in the ring buffer
    QLengths,       \* values of QUEUE_LENGTH; QTimes, QSizes likewise
    QTimes,
    QSizes,
    MaxAge,         \* ages are not told apart beyond this one
    DropsMod,       \* queue_drops wraps here (2^64 in the code)
    Calls,          \* subset of {"recv", "recv_ex"} the application makes
    Timeouts,       \* subset of {"block", "poll", "timed"}
    HasBuf,         \* the application passes a packet buffer
    BufLen,         \* pkt_len
    MaxAddrs,       \* *addr_len of recv_ex
    MayFail,        \* malloc, load_bytes and inject may fail
    None

ASSUME ReceiveAssumption ==
    /\ PktLen \in [Packets -> Nat \ {0}]
    /\ Match \in [Packets -> BOOLEAN]
    /\ Frag \in [Packets -> BOOLEAN]
    /\ {Exact, HasBuf, MayFail} \subseteq BOOLEAN
    /\ FlagSets \subseteq {{}, {"DROP"}, {"SNIFF"}}    \* open refuses both
    /\ RingCap \in Nat
    /\ QLengths \subseteq Nat /\ QLengths # {}
    /\ QTimes \subseteq Nat /\ QTimes # {}
    /\ QSizes \subseteq Nat /\ QSizes # {}
    /\ MaxAge \in Nat
    /\ DropsMod \in Nat \ {0}
    /\ Calls \subseteq {"recv", "recv_ex"}
    /\ Timeouts \subseteq {"block", "poll", "timed"}
    /\ BufLen \in Nat
    /\ MaxAddrs \in Nat \ {0}
    /\ None \notin Receivers
    /\ None \notin Packets

VARIABLES
    flags,          \* h->flags, which never change
    ring,           \* the ring buffer: records [pkt, age, st]
    bpf,            \* per CPU, where its program is with which packet
    queue,          \* qhead .. qtail: entries [pkt, age]
    qlen, qbytes,
    queue_length, queue_time, queue_size,
    queue_drops,
    shut_recv,
    cfg_shutdown,   \* CFG_F_SHUTDOWN in the config map the program reads
    wake_set,       \* wake_fd is readable
    poll_lock,      \* its owner
    pc,             \* where each receiver is
    call, timeout,  \* the call it is in
    mode,           \* which consume_ring call of it
    consumed,       \* ring_buffer__consume() has counted a record
    count, used,    \* recv_ex: entries and bytes returned so far
    res,            \* result of its last call
    out             \* packets the last step let go of (no counterpart in the code)

kernelVars == <<ring, bpf>>
queueVars  == <<queue, qlen, qbytes, wake_set>>
paramVars  == <<flags, queue_length, queue_time, queue_size>>
shutVars   == <<shut_recv, cfg_shutdown>>
callVars   == <<call, timeout, mode, consumed, count, used>>
vars == <<flags, ring, bpf, queue, qlen, qbytes, queue_length, queue_time,
          queue_size, queue_drops, shut_recv, cfg_shutdown, wake_set,
          poll_lock, pc, call, timeout, mode, consumed, count, used, res, out>>

RecStates == {"busy", "ready", "discarded"}
Record    == [pkt : Packets, age : 0 .. MaxAge, st : RecStates]
Entry     == [pkt : Packets, age : 0 .. MaxAge]
Idle      == [st |-> "idle", pkt |-> None]

Drop  == "DROP" \in flags
Sniff == "SNIFF" \in flags

(***************************************************************************)
(* How the handle lets go of a packet: back to the network, to the         *)
(* application, refused for want of room in its buffer, lost to the queue  *)
(* limits or to QUEUE_TIME, dropped as the flag asks, or lost to a failure.*)
(***************************************************************************)
Outcomes == {"net", "delivered", "refused", "overflow", "expired", "dropped", "lost"}

Init ==
    /\ flags \in FlagSets
    /\ ring = <<>>
    /\ bpf = [c \in CPUs |-> Idle]
    /\ queue = <<>>
    /\ qlen = 0
    /\ qbytes = 0
    /\ queue_length \in QLengths
    /\ queue_time \in QTimes
    /\ queue_size \in QSizes
    /\ queue_drops = 0
    /\ shut_recv = FALSE
    /\ cfg_shutdown = FALSE
    /\ wake_set = FALSE
    /\ poll_lock = None
    /\ pc = [t \in Receivers |-> "idle"]
    /\ call = [t \in Receivers |-> "recv"]
    /\ timeout = [t \in Receivers |-> "block"]
    /\ mode = [t \in Receivers |-> "wait"]
    /\ consumed = [t \in Receivers |-> FALSE]
    /\ count = [t \in Receivers |-> 0]
    /\ used = [t \in Receivers |-> 0]
    /\ res = [t \in Receivers |-> "none"]
    /\ out = {}

-----------------------------------------------------------------------------
(***************************************************************************)
(* The BPF program, one run per packet and CPU: it reads the config and    *)
(* matches the rules, reserves a record, fills it in and submits it.       *)
(***************************************************************************)

\* Does the rule table hand p to user space?  Exact rules judge everything
\* but fragments, and carry MATCH_DROP when the handle is a DROP handle.
RulesDivert(p) ==
    IF Exact /\ ~Frag[p] THEN Match[p] /\ ~Drop ELSE TRUE

\* The handle has p: its program is on it, or a record or an entry holds it.
Holds(p) ==
    \/ \E c \in CPUs : bpf[c].pkt = p
    \/ \E i \in DOMAIN ring : ring[i].pkt = p
    \/ \E i \in DOMAIN queue : queue[i].pkt = p

\* process_packet up to the end of rule matching, for a packet that its other
\* early returns (marks, loopback, direction, forwarding, heartbeat, size) let
\* through.
BpfMatch(c, p) ==
    /\ bpf[c] = Idle
    /\ ~Holds(p)
    /\ ~cfg_shutdown
    /\ RulesDivert(p)
    /\ bpf' = [bpf EXCEPT ![c] = [st |-> "matched", pkt |-> p]]
    /\ UNCHANGED <<ring, queueVars, paramVars, queue_drops, shutVars,
                   poll_lock, pc, callVars, res>> /\ out' = {}

\* bpf_ringbuf_reserve: a full ring fails open, the packet goes on.
BpfReserve(c) ==
    /\ bpf[c].st = "matched"
    /\ LET p == bpf[c].pkt IN
       IF Len(ring) < RingCap
         THEN /\ ring' = Append(ring, [pkt |-> p, age |-> 0, st |-> "busy"])
              /\ bpf' = [bpf EXCEPT ![c].st = "reserved"]
              /\ out' = {}
         ELSE /\ bpf' = [bpf EXCEPT ![c] = Idle]
              /\ out' = {<<p, "net">>}
              /\ UNCHANGED ring
    /\ UNCHANGED <<queueVars, paramVars, queue_drops, shutVars,
                   poll_lock, pc, callVars, res>>

\* bpf_skb_load_bytes, the timestamp, then submit or discard.
BpfSubmit(c, ok) ==
    /\ bpf[c].st = "reserved"
    /\ ok \/ MayFail
    /\ LET p == bpf[c].pkt IN
       /\ ring' = [i \in DOMAIN ring |->
                     IF ring[i].pkt = p /\ ring[i].st = "busy"
                       THEN [ring[i] EXCEPT !.st = IF ok THEN "ready" ELSE "discarded"]
                       ELSE ring[i]]
       /\ out' = IF ok THEN {} ELSE {<<p, "net">>}
    /\ bpf' = [bpf EXCEPT ![c] = Idle]
    /\ UNCHANGED <<queueVars, paramVars, queue_drops, shutVars, poll_lock,
                   pc, callVars, res>>

\* Time passes for the packets that carry a timestamp.
Older(e) == IF e.age < MaxAge THEN [e EXCEPT !.age = @ + 1] ELSE e

Tick ==
    /\ queue' = [i \in DOMAIN queue |-> Older(queue[i])]
    /\ ring' = [i \in DOMAIN ring |->
                  IF ring[i].st = "ready" THEN Older(ring[i]) ELSE ring[i]]
    /\ UNCHANGED <<bpf, qlen, qbytes, wake_set, paramVars, queue_drops, shutVars,
                   poll_lock, pc, callVars, res>> /\ out' = {}

-----------------------------------------------------------------------------
(***************************************************************************)
(* The queue.                                                              *)
(***************************************************************************)

\* Mutant: the shutdown is forgotten.
wake_update_queue(q, shut) == wake_set' = (q # <<>>)

wake_update(q, shut) == wake_set' = (q # <<>> \/ shut)

Bytes(q) ==
    LET upto[n \in 0 .. Len(q)] == IF n = 0 THEN 0 ELSE upto[n - 1] + PktLen[q[n].pkt]
    IN  upto[Len(q)]

Expired(e) == e.age > queue_time

\* Mutant: off by one.
QueueFull_late(e) == qlen > queue_length \/ qbytes + PktLen[e.pkt] > queue_size

QueueFull(e) == qlen >= queue_length \/ qbytes + PktLen[e.pkt] > queue_size

\* Mutant: the entry goes to the head of the list.
queue_push_head(e) ==
    IF QueueFull(e)
      THEN /\ queue_drops' = (queue_drops + 1) % DropsMod
           /\ out' = {<<e.pkt, "overflow">>}
           /\ UNCHANGED queueVars
      ELSE /\ queue' = <<e>> \o queue
           /\ qlen' = qlen + 1
           /\ qbytes' = qbytes + PktLen[e.pkt]
           /\ wake_update(queue', shut_recv)
           /\ out' = {}
           /\ UNCHANGED queue_drops

\* queue_push with its drop on a full queue.
queue_push(e) ==
    IF QueueFull(e)
      THEN /\ queue_drops' = (queue_drops + 1) % DropsMod
           /\ out' = {<<e.pkt, "overflow">>}
           /\ UNCHANGED queueVars
      ELSE /\ queue' = Append(queue, e)
           /\ qlen' = qlen + 1
           /\ qbytes' = qbytes + PktLen[e.pkt]
           /\ wake_update(queue', shut_recv)
           /\ out' = {}
           /\ UNCHANGED queue_drops

\* queue_pop drops the expired heads and stops at entry k, the first that
\* has not expired, or past the end.
PopStopsAt(k) ==
    /\ \A i \in 1 .. (k - 1) : Expired(queue[i])
    /\ k <= Len(queue) => ~Expired(queue[k])

\* What queue_pop subtracts from qlen and qbytes, and adds to queue_drops.
\* Mutants: the end of the list taken for an entry, the bytes of expired
\* entries left in qbytes, expired entries not counted.
PoppedLen_end(k) == k
PoppedLen(k) == IF k <= Len(queue) THEN k ELSE k - 1

PoppedBytes_last(k) == IF k <= Len(queue) THEN PktLen[queue[k].pkt] ELSE 0
PoppedBytes(k) == Bytes(queue) - Bytes(SubSeq(queue, k + 1, Len(queue)))

PoppedDrops_none(k) == 0
PoppedDrops(k) == k - 1

\* Take the entries up to k off the queue; entry k, if there is one, meets
\* the outcome its caller gives it.
queue_pop(k, outcome) ==
    /\ queue' = SubSeq(queue, k + 1, Len(queue))
    /\ qlen' = qlen - PoppedLen(k)
    /\ qbytes' = qbytes - PoppedBytes(k)
    /\ queue_drops' = (queue_drops + PoppedDrops(k)) % DropsMod
    /\ wake_update(queue', shut_recv)
    /\ out' = {<<queue[i].pkt, "expired">> : i \in 1 .. (k - 1)}
                \cup (IF k <= Len(queue) THEN {<<queue[k].pkt, outcome>>} ELSE {})

-----------------------------------------------------------------------------
(***************************************************************************)
(* consume_ring: poll_lock around ring_buffer__consume, which calls        *)
(* ring_callback on each submitted record in order, moves the consumer     *)
(* position past it, and stops at the end or at a record still being       *)
(* written.                                                                *)
(***************************************************************************)

\* Mutant: poll_lock is not taken.
ConsumeLock_free(t) ==
    /\ pc[t] = "lock"
    /\ poll_lock' = t
    /\ pc' = [pc EXCEPT ![t] = "consume"]
    /\ consumed' = [consumed EXCEPT ![t] = FALSE]
    /\ UNCHANGED <<kernelVars, queueVars, paramVars, queue_drops,
                   shutVars, call, timeout, mode, count, used, res>> /\ out' = {}

ConsumeLock(t) ==
    /\ pc[t] = "lock"
    /\ poll_lock = None
    /\ poll_lock' = t
    /\ pc' = [pc EXCEPT ![t] = "consume"]
    /\ consumed' = [consumed EXCEPT ![t] = FALSE]
    /\ UNCHANGED <<kernelVars, queueVars, paramVars, queue_drops,
                   shutVars, call, timeout, mode, count, used, res>> /\ out' = {}

HeadIs(st) == ring # <<>> /\ Head(ring).st = st

\* Mutant: a fragment is trusted to match.
MustEvaluate_rules(p) == ~Exact
MustEvaluate(p) == ~Exact \/ Frag[p]

ForUser(p) == ~MustEvaluate(p) \/ (Match[p] /\ ~Drop)

ring_callback(r) ==
    LET p == r.pkt IN
    \/ /\ MayFail                                       \* malloc fails
       /\ out' = {<<p, IF Sniff THEN "net" ELSE "lost">>}
       /\ UNCHANGED <<queueVars, queue_drops>>
    \/ /\ MustEvaluate(p) /\ ~Match[p]                  \* not for the user
       /\ \/ out' = {<<p, "net">>}
          \/ MayFail /\ ~Sniff /\ out' = {<<p, "lost">>} \* inject fails
       /\ UNCHANGED <<queueVars, queue_drops>>
    \/ /\ MustEvaluate(p) /\ Match[p] /\ Drop
       /\ out' = {<<p, "dropped">>}
       /\ UNCHANGED <<queueVars, queue_drops>>
    \/ /\ ForUser(p)
       /\ queue_push([pkt |-> p, age |-> r.age])

ConsumeRecord(t) ==
    /\ pc[t] = "consume"
    /\ HeadIs("ready")
    /\ ring_callback(Head(ring))
    /\ pc' = [pc EXCEPT ![t] = "advance"]
    /\ consumed' = [consumed EXCEPT ![t] = TRUE]
    /\ UNCHANGED <<kernelVars, paramVars, shutVars, poll_lock, call,
                   timeout, mode, count, used, res>>

\* Mutant: a record still being written is passed over.
ConsumeAdvance_busy(t) ==
    /\ \/ pc[t] = "advance"
       \/ pc[t] = "consume" /\ (HeadIs("discarded") \/ HeadIs("busy"))
    /\ ring' = Tail(ring)
    /\ pc' = [pc EXCEPT ![t] = "consume"]
    /\ UNCHANGED <<bpf, queueVars, paramVars, queue_drops, shutVars,
                   poll_lock, callVars, res>> /\ out' = {}

\* The consumer position moves past the record just handled, or past a
\* discarded one, which has no callback and is not counted.
ConsumeAdvance(t) ==
    /\ \/ pc[t] = "advance"
       \/ pc[t] = "consume" /\ HeadIs("discarded")
    /\ ring' = Tail(ring)
    /\ pc' = [pc EXCEPT ![t] = "consume"]
    /\ UNCHANGED <<bpf, queueVars, paramVars, queue_drops, shutVars,
                   poll_lock, callVars, res>> /\ out' = {}

-----------------------------------------------------------------------------
(***************************************************************************)
(* Results.                                                                *)
(***************************************************************************)

Return(t, r) ==
    /\ pc' = [pc EXCEPT ![t] = "idle"]
    /\ res' = [res EXCEPT ![t] = r]

Continue(t, where) ==
    /\ pc' = [pc EXCEPT ![t] = where]
    /\ UNCHANGED res

\* Mutant: a shut down handle does not look at the queue again.
ConsumeUnlock_once(t) ==
    /\ pc[t] = "consume"
    /\ ring = <<>> \/ HeadIs("busy")
    /\ poll_lock' = None
    /\ \/ mode[t] = "batch" /\ Continue(t, "batch")
       \/ mode[t] = "wait" /\ consumed[t] /\ Continue(t, "pop")
       \/ mode[t] = "wait" /\ ~consumed[t] /\ Continue(t, "peek")
       \/ mode[t] = "shut" /\ Return(t, "ESHUTDOWN")
    /\ UNCHANGED <<kernelVars, queueVars, paramVars, queue_drops,
                   shutVars, callVars>> /\ out' = {}

\* What follows the unlock: the two tests of next_entry on the number of
\* records consumed, or recv_ex's look at the queue.
ConsumeUnlock(t) ==
    /\ pc[t] = "consume"
    /\ ring = <<>> \/ HeadIs("busy")
    /\ poll_lock' = None
    /\ \/ mode[t] = "batch" /\ Continue(t, "batch")
       \/ mode[t] # "batch" /\ consumed[t] /\ Continue(t, "pop")
       \/ mode[t] = "wait" /\ ~consumed[t] /\ Continue(t, "peek")
       \/ mode[t] = "shut" /\ ~consumed[t] /\ Return(t, "ESHUTDOWN")
    /\ UNCHANGED <<kernelVars, queueVars, paramVars, queue_drops,
                   shutVars, callVars>> /\ out' = {}

TooLong(p) == HasBuf /\ PktLen[p] > BufLen

\* recv or recv_ex has its first entry.
FirstEntry(t, p) ==
    IF TooLong(p)
      THEN Return(t, "ENOBUFS") /\ UNCHANGED <<mode, count, used>>
      ELSE IF call[t] = "recv_ex" /\ MaxAddrs > 1
        THEN /\ count' = [count EXCEPT ![t] = 1]
             /\ used' = [used EXCEPT ![t] = PktLen[p]]
             /\ mode' = [mode EXCEPT ![t] = "batch"]
             /\ Continue(t, "lock")
        ELSE Return(t, "ok") /\ UNCHANGED <<mode, count, used>>

\* Mutant: -ESHUTDOWN without a last look at the ring.
NextEntryPop_hasty(t) ==
    /\ pc[t] = "pop"
    /\ \E k \in 1 .. (Len(queue) + 1) :
         /\ PopStopsAt(k)
         /\ queue_pop(k, "delivered")
         /\ IF k <= Len(queue)
              THEN FirstEntry(t, queue[k].pkt)
              ELSE /\ IF shut_recv THEN Return(t, "ESHUTDOWN") ELSE Continue(t, "lock")
                   /\ UNCHANGED <<mode, count, used>>
    /\ UNCHANGED <<kernelVars, paramVars, shutVars, poll_lock, call,
                   timeout, consumed>>

\* The first qlock section of next_entry's loop.
NextEntryPop(t) ==
    /\ pc[t] = "pop"
    /\ \E k \in 1 .. (Len(queue) + 1) :
         /\ PopStopsAt(k)
         /\ IF k <= Len(queue)
              THEN /\ queue_pop(k, IF TooLong(queue[k].pkt) THEN "refused" ELSE "delivered")
                   /\ FirstEntry(t, queue[k].pkt)
              ELSE /\ queue_pop(k, "expired")
                   /\ mode' = [mode EXCEPT ![t] = IF shut_recv THEN "shut" ELSE "wait"]
                   /\ Continue(t, "lock")
                   /\ UNCHANGED <<count, used>>
    /\ UNCHANGED <<kernelVars, paramVars, shutVars, poll_lock, call,
                   timeout, consumed>>

\* The second qlock section, and the timeout tests; a timed call may find
\* its deadline past, or not.
NextEntryPeek(t) ==
    /\ pc[t] = "peek"
    /\ \/ queue # <<>> /\ Continue(t, "pop")
       \/ queue = <<>> /\ timeout[t] \in {"poll", "timed"} /\ Return(t, "EAGAIN")
       \/ queue = <<>> /\ timeout[t] \in {"block", "timed"} /\ Continue(t, "epoll")
    /\ UNCHANGED <<kernelVars, queueVars, paramVars, queue_drops,
                   shutVars, poll_lock, callVars>> /\ out' = {}

\* h->epfd, which get_event_fd hands out, polls the ring and wake_fd.
\* Mutant: wake_fd is not in the epoll set.
EventFdReadable_ring == ring # <<>>
EventFdReadable == ring # <<>> \/ wake_set

EpollWake(t) ==
    /\ pc[t] = "epoll"
    /\ EventFdReadable \/ timeout[t] = "timed"
    /\ Continue(t, "pop")
    /\ UNCHANGED <<kernelVars, queueVars, paramVars, queue_drops,
                   shutVars, poll_lock, callVars>> /\ out' = {}

\* A signal interrupts epoll_wait; the loop goes round.
EpollInterrupted(t) ==
    /\ pc[t] = "epoll"
    /\ Continue(t, "pop")
    /\ UNCHANGED <<kernelVars, queueVars, paramVars, queue_drops,
                   shutVars, poll_lock, callVars>> /\ out' = {}

\* Mutant: what is in the buffer already is forgotten.
BatchFull_head(t) == HasBuf /\ PktLen[Head(queue).pkt] > BufLen
BatchFull(t) == HasBuf /\ used[t] + PktLen[Head(queue).pkt] > BufLen

\* recv_ex's qlock section for the entries after the first: look at the
\* head's length, and pop if it fits.
BatchTake(t) ==
    /\ pc[t] = "batch"
    /\ IF queue = <<>> \/ BatchFull(t)
         THEN /\ Return(t, "ok")
              /\ UNCHANGED <<queueVars, queue_drops, count, used>>
              /\ out' = {}
         ELSE \E k \in 1 .. (Len(queue) + 1) :
                /\ PopStopsAt(k)
                /\ queue_pop(k, "delivered")
                /\ IF k <= Len(queue)
                     THEN /\ count' = [count EXCEPT ![t] = @ + 1]
                          /\ used' = [used EXCEPT ![t] = @ + PktLen[queue[k].pkt]]
                          /\ IF count[t] + 1 < MaxAddrs THEN Continue(t, "lock")
                                                        ELSE Return(t, "ok")
                     ELSE Return(t, "ok") /\ UNCHANGED <<count, used>>
    /\ UNCHANGED <<kernelVars, paramVars, shutVars, poll_lock, call,
                   timeout, mode, consumed>>

-----------------------------------------------------------------------------
(***************************************************************************)
(* Calls of the application.                                               *)
(***************************************************************************)

\* recv and recv_ex enter next_entry.
Call(t, c, tm) ==
    /\ pc[t] = "idle"
    /\ pc' = [pc EXCEPT ![t] = "pop"]
    /\ call' = [call EXCEPT ![t] = c]
    /\ timeout' = [timeout EXCEPT ![t] = tm]
    /\ count' = [count EXCEPT ![t] = 0]
    /\ used' = [used EXCEPT ![t] = 0]
    /\ res' = [res EXCEPT ![t] = "none"]
    /\ UNCHANGED <<kernelVars, queueVars, paramVars, queue_drops,
                   shutVars, poll_lock, mode, consumed>> /\ out' = {}

\* Mutant: the receivers are not woken.
Shutdown_quiet ==
    /\ shut_recv' = TRUE
    /\ cfg_shutdown' = TRUE
    /\ UNCHANGED <<kernelVars, queueVars, paramVars,
                   queue_drops, poll_lock, pc, callVars, res>> /\ out' = {}

\* ebpfdivert_shutdown(RECV), all of it under qlock.
Shutdown ==
    /\ shut_recv' = TRUE
    /\ cfg_shutdown' = TRUE
    /\ wake_update(queue, TRUE)
    /\ UNCHANGED <<kernelVars, queue, qlen, qbytes, paramVars,
                   queue_drops, poll_lock, pc, callVars, res>> /\ out' = {}

\* ebpfdivert_set_param of a queue parameter to a value in range.
SetParam ==
    /\ \/ queue_length' \in QLengths /\ UNCHANGED <<queue_time, queue_size>>
       \/ queue_time' \in QTimes /\ UNCHANGED <<queue_length, queue_size>>
       \/ queue_size' \in QSizes /\ UNCHANGED <<queue_length, queue_time>>
    /\ UNCHANGED <<flags, kernelVars, queueVars, queue_drops, shutVars,
                   poll_lock, pc, callVars, res>> /\ out' = {}

-----------------------------------------------------------------------------
BpfStep(c) ==
    \/ BpfReserve(c)
    \/ \E ok \in BOOLEAN : BpfSubmit(c, ok)

\* The steps of a call in progress that the library takes by itself.
LibStep(t) ==
    \/ ConsumeRecord(t)
    \/ ConsumeAdvance(t)
    \/ ConsumeUnlock(t)
    \/ NextEntryPop(t)
    \/ NextEntryPeek(t)
    \/ EpollWake(t)
    \/ BatchTake(t)

Next ==
    \/ \E c \in CPUs, p \in Packets : BpfMatch(c, p)
    \/ \E c \in CPUs : BpfStep(c)
    \/ Tick
    \/ \E t \in Receivers : ConsumeLock(t)
    \/ \E t \in Receivers : LibStep(t)
    \/ \E t \in Receivers : EpollInterrupted(t)
    \/ \E t \in Receivers, c \in Calls, tm \in Timeouts : Call(t, c, tm)
    \/ Shutdown
    \/ SetParam

Spec == Init /\ [][Next]_vars

\* A program that has started runs to its end; a thread inside the library
\* keeps running; a mutex wanted for ever is got.
LibFairness ==
    /\ \A c \in CPUs : WF_vars(BpfStep(c))
    /\ \A t \in Receivers : WF_vars(LibStep(t)) /\ SF_vars(ConsumeLock(t))

LibSpec == Spec /\ LibFairness

\* The application keeps calling recv.
AppFairness ==
    \A t \in Receivers :
        WF_vars(\E c \in Calls, tm \in Timeouts : Call(t, c, tm))
-----------------------------------------------------------------------------
(***************************************************************************)
(* Properties.                                                             *)
(***************************************************************************)

Positions == {"idle", "pop", "lock", "consume", "advance", "peek", "epoll", "batch"}
Results   == {"none", "ok", "EAGAIN", "ESHUTDOWN", "ENOBUFS"}

\* Every variable of struct ebpfdivert_handle, of the ring and of the calls
\* in progress keeps its type; qbytes is covered by QueueAccounting.
TypeOK ==
    /\ flags \in FlagSets
    /\ ring \in Seq(Record)
    /\ bpf \in [CPUs -> [st : {"idle", "matched", "reserved"},
                         pkt : Packets \cup {None}]]
    /\ queue \in Seq(Entry)
    /\ qlen \in Nat
    /\ queue_length \in QLengths
    /\ queue_time \in QTimes
    /\ queue_size \in QSizes
    /\ queue_drops \in 0 .. (DropsMod - 1)
    /\ shut_recv \in BOOLEAN
    /\ cfg_shutdown \in BOOLEAN
    /\ wake_set \in BOOLEAN
    /\ poll_lock \in Receivers \cup {None}
    /\ pc \in [Receivers -> Positions]
    /\ call \in [Receivers -> {"recv", "recv_ex"}]
    /\ timeout \in [Receivers -> {"block", "poll", "timed"}]
    /\ mode \in [Receivers -> {"wait", "shut", "batch"}]
    /\ consumed \in [Receivers -> BOOLEAN]
    /\ count \in [Receivers -> Nat]
    /\ used \in [Receivers -> Nat]
    /\ res \in [Receivers -> Results]
    /\ out \subseteq (Packets \X Outcomes)

\* wake_update: "wake_fd is readable iff there is something to return",
\* whatever order pushes, pops, expiries and the shutdown come in.
WakeFdTracksQueue == wake_set = (queue # <<>> \/ shut_recv)

\* qlen and qbytes are the length and the byte count of the list.
QueueAccounting == qlen = Len(queue) /\ qbytes = Bytes(queue)

\* queue_push never lets the queue grow past the limits in force, although
\* set_param may lower them below what is queued.
PushWithinLimits ==
    [][Len(queue') > Len(queue) =>
          Len(queue') <= queue_length /\ Bytes(queue') <= queue_size]_vars

PacketsOf(recs) == [i \in DOMAIN recs |-> recs[i].pkt]

\* Records the consumer position has yet to pass and that hold a packet no
\* callback has run on.
Unread ==
    {i \in DOMAIN ring : /\ ring[i].st # "discarded"
                         /\ i = 1 => \A t \in Receivers : pc[t] # "advance"}

\* The members of seq at the indices in keep, up to index n.
Kept(seq, keep, n) ==
    LET upto[i \in 0 .. n] ==
            IF i = 0 THEN <<>>
            ELSE IF i \in keep THEN Append(upto[i - 1], seq[i]) ELSE upto[i - 1]
    IN  upto[n]

\* Everything the handle holds, oldest first.
InHand == PacketsOf(queue) \o Kept(PacketsOf(ring), Unread, Len(ring))

Held == {InHand[i] : i \in DOMAIN InHand}

\* A packet the program stole is in the ring or in the queue exactly once:
\* no interleaving of receivers runs ring_callback twice on a record.  The
\* one exception is the record that poll_lock's owner has just pushed.
HeldOnce ==
    /\ \A i, j \in DOMAIN queue : queue[i].pkt = queue[j].pkt => i = j
    /\ \A i, j \in DOMAIN ring : ring[i].pkt = ring[j].pkt => i = j
    /\ \A i \in DOMAIN queue, j \in DOMAIN ring :
         queue[i].pkt = ring[j].pkt =>
             j = 1 /\ \E t \in Receivers : pc[t] = "advance"

\* A packet leaves the handle when, and only when, a call, a limit, the
\* filter or a failure accounts for it; no receiver skips a record.
LeavesAccounted ==
    [][/\ \A p \in Held \ Held' : \E o \in Outcomes : <<p, o>> \in out'
       /\ \A p \in Held, o \in Outcomes : <<p, o>> \in out' => p \notin Held']_vars

\* ring_callback keeps the promise of the filter: what the application gets,
\* or loses to the queue limits, matches the filter; a DROP handle delivers
\* nothing; only a failed malloc or inject loses a packet.
FilterRespected ==
    \A p \in Packets :
        /\ \A o \in {"delivered", "refused", "overflow", "expired", "dropped"} :
             <<p, o>> \in out => Match[p]
        /\ Drop => <<p, "delivered">> \notin out /\ <<p, "refused">> \notin out
        /\ <<p, "lost">> \in out => MayFail

\* queue_drops counts each packet lost to the limits or to QUEUE_TIME once.
DropsCounted ==
    [][queue_drops' = (queue_drops +
          Cardinality(out' \cap (Packets \X {"overflow", "expired"}))) % DropsMod]_vars

\* What recv_ex copies fits in the buffer it was given.
BatchFits == HasBuf => \A t \in Receivers : used[t] <= BufLen

\* recv_ex looks at the head's length, and queue_pop may skip an expired head
\* (then BatchFits fails): as long as it does not, what a call has copied in
\* all, the first entry included, fits in its buffer.
BatchGrowsWithinBuffer ==
    [][\A t \in Receivers :
          HasBuf /\ used'[t] > used[t] /\ ~Expired(Head(queue)) => used'[t] <= BufLen]_vars

\* "ebpfdivert_recv() returns -ESHUTDOWN only once the queue is empty."
ShutdownAfterDrain ==
    [][\A t \in Receivers :
          res'[t] = "ESHUTDOWN" /\ res[t] # "ESHUTDOWN" => queue' = <<>>]_vars

-----------------------------------------------------------------------------
(***************************************************************************)
(* The inductive invariant behind WakeFdTracksQueue and HeldOnce.          *)
(***************************************************************************)

\* poll_lock's owner, and nobody else, is inside ring_buffer__consume, and
\* has a record in front of it while its callback's record is not passed.
PollInv ==
    /\ \A t \in Receivers : pc[t] \in {"consume", "advance"} <=> poll_lock = t
    /\ \A t \in Receivers : pc[t] = "advance" => HeadIs("ready")

\* A record is being written exactly while a program is at it, and a packet
\* a program is at is nowhere else.
ProgramInv ==
    /\ \A c \in CPUs : bpf[c].st = "idle" <=> bpf[c].pkt = None
    /\ \A c, d \in CPUs : bpf[c].pkt = bpf[d].pkt /\ bpf[c].pkt # None => c = d
    /\ \A c \in CPUs, i \in DOMAIN queue : bpf[c].pkt # queue[i].pkt
    /\ \A c \in CPUs, i \in DOMAIN ring :
         bpf[c].pkt = ring[i].pkt => bpf[c].st = "reserved" /\ ring[i].st = "busy"

LengthInv == qlen = Len(queue)

ReceiveInv == TypeOK /\ WakeFdTracksQueue /\ LengthInv /\ PollInv /\ ProgramInv /\ HeldOnce

\* Why the filter is respected: the program and the ring hold what the rules
\* divert, the queue holds what the filter accepts on a handle without DROP.
DivertInv ==
    /\ \A c \in CPUs : bpf[c].st # "idle" => RulesDivert(bpf[c].pkt)
    /\ \A i \in DOMAIN ring : RulesDivert(ring[i].pkt)
    /\ \A i \in DOMAIN queue : Match[queue[i].pkt] /\ ~Drop

\* Why one receiver drains the handle: its last look at the ring, after the
\* shutdown, starts from an empty queue and notes any record it finds.
DrainInv ==
    \A t \in Receivers :
        /\ pc[t] = "batch" => mode[t] = "batch"
        /\ pc[t] = "advance" => consumed[t]
        /\ mode[t] = "shut" /\ (pc[t] = "lock" \/ (pc[t] = "consume" /\ ~consumed[t])) =>
             queue = <<>>

\* shutdown wakes the receivers: a call in progress returns.
ShutdownReleases ==
    \A t \in Receivers : shut_recv /\ pc[t] # "idle" ~> pc[t] = "idle"

\* No lost wakeup: a receiver does not sleep on a queue that has an entry,
\* nor on a shut down handle.
SleeperWoken ==
    \A t \in Receivers :
        pc[t] = "epoll" /\ wake_set ~> pc[t] # "epoll" \/ ~wake_set

\* What was captured before the shutdown is handed out, or counted as lost,
\* as long as the application keeps receiving.
DrainsAfterShutdown ==
    AppFairness => \A p \in Packets : shut_recv /\ p \in Held ~> p \notin Held

\* The receive path implements DivertQueue: whatever the interleaving of
\* programs and receivers, packets are received in the order of their
\* capture, and each is accounted for once.
Abstract == INSTANCE DivertQueue WITH held <- InHand, gone <- out

ImplementsDivertQueue == Abstract!Spec
=============================================================================
