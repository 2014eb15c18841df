---------------------------- MODULE EventLayers ----------------------------
(***************************************************************************)
(* A handle of an event layer.                                             *)
(*                                                                         *)
(* SOCKET and FLOW: the programs of ebpfdivert_events.bpf.c run on the     *)
(* socket operations of the system, remember endpoints per socket          *)
(* (sk_info_map), refuse what the rules say (EVCFG_F_BLOCK) and submit     *)
(* events to a ring, which event_callback() in handle.c turns into queue   *)
(* entries; the table of UDP flows gives every flow of a released socket   *)
(* its DELETED event.                                                      *)
(*                                                                         *)
(* REFLECT: receivers compare the registry with what they saw last         *)
(* (reflect_poll).                                                         *)
(*                                                                         *)
(* An endpoint, address and port, is a number; 0 is none.  The filter is   *)
(* the subject of Capture: here it accepts everything, and the rules       *)
(* refuse the endpoints in Refused.  The queue is the subject of Receive.  *)
(***************************************************************************)
EXTENDS Integers, Sequences, FiniteSets, FiniteSetsExt, Functions

CONSTANTS
    Worlds,             \* layers the handle may be opened on, each with the
                        \* sockets of the system
    Tcp,                \* those that are TCP; the others are UDP
    Children,           \* those that only come out of a listening socket
    Endpoints,          \* a finite set of positive numbers
    Talks,              \* the UDP flows: pairs of a socket and an endpoint
    Refused,            \* pairs of an operation and an endpoint
    CPUs,
    RingCap,            \* events that fit into event_ringbuf
    UDP_FLOWS_MAX,      \* max_entries of the LRU map udp_flows
    UDP_TRACK_MAX,      \* the size of the user-space table
    MaxEstablished,     \* bound: how many UDP flows are reported established
    Receivers,
    Ids,                \* registry entries of other handles
    Nobody

AllSocks == UNION {w[2] : w \in Worlds}

ASSUME EventAssumption ==
    /\ \A w \in Worlds : w[1] \in {"SOCKET", "FLOW", "REFLECT"}
    /\ Endpoints \subseteq Nat \ {0}
    /\ Children \subseteq Tcp
    /\ Talks \subseteq (AllSocks \ Tcp) \X Endpoints
    /\ UDP_TRACK_MAX \in Nat /\ UDP_TRACK_MAX % 2 = 0 /\ UDP_TRACK_MAX > 0
    /\ RingCap \in Nat
    /\ Nobody \notin Receivers

VARIABLES
    layer, block,       \* h->layer and EVCFG_F_BLOCK
    socks,              \* the sockets of the system
    live,               \* live_config(): heartbeat in time and not shut down
    sock,               \* the kernel's sockets
    info,               \* sk_info_map
    flows,              \* udp_flows
    cpu,                \* the flow a CPU has looked up and not found
    ring,               \* event_ringbuf
    lost,               \* history: TCP sockets whose ESTABLISHED found no room
    udp,                \* h->udp[0 .. nudp - 1]
    ended,              \* history: what became of each flow
    blind,              \* history: sockets that got an endpoint no program saw
    reg,                \* the registry
    seen,               \* h->seen[0 .. nseen - 1]
    due,                \* timer_fd is readable
    rc,                 \* each receiver in reflect_poll()
    lock,               \* h->poll_lock
    told                \* history: what was reported of each id

kvars == <<live, sock, info, flows, cpu, ring, lost, blind>>
uvars == <<udp, ended>>
rvars == <<reg, seen, due, rc, lock, told>>
vars == <<layer, block, socks, kvars, uvars, rvars>>

NoInfo == [pid |-> FALSE, local |-> 0, remote |-> 0]
Flows == AllSocks \X Endpoints
IdleReceiver ==
    [pc |-> "idle", zeroed |-> 0, size |-> 0, alive |-> {}, visited |-> {}, must |-> {}]

Init ==
    /\ \E w \in Worlds : layer = w[1] /\ socks = w[2]
    /\ block \in IF layer = "SOCKET" THEN BOOLEAN ELSE {FALSE}
    /\ live = TRUE
    /\ sock = [s \in AllSocks |->
                   [st |-> "none", tcp |-> "closed", local |-> 0, remote |-> 0, cb |-> "unset"]]
    /\ info = [s \in AllSocks |-> NoInfo]
    /\ flows = {}
    /\ cpu = [c \in CPUs |-> <<>>]
    /\ ring = <<>>
    /\ lost = {}
    /\ blind = {}
    /\ udp = <<>>
    /\ ended = [f \in Flows |-> [est |-> 0, del |-> 0, forgotten |-> 0]]
    /\ reg = {} /\ seen = <<>> /\ due = TRUE /\ lock = Nobody
    /\ rc = [r \in Receivers |-> IdleReceiver]
    /\ told = [i \in Ids |-> "none"]

-----------------------------------------------------------------------------
(* The programs.                                                           *)

Ev(event, s, local, remote, pid, blocked) ==
    [event |-> event, s |-> s, local |-> local, remote |-> remote, pid |-> pid,
     blocked |-> blocked]

\* A full ring loses the event.
submit(e) ==
    IF Len(ring) < RingCap THEN ring' = Append(ring, e) /\ UNCHANGED lost
    ELSE lost' = lost \cup ({e.s} \cap (IF e.event = "ESTABLISHED" THEN Tcp ELSE {})) /\ UNCHANGED ring

\* The endpoints of an event; a remote endpoint without port is not one.
remember(e) ==
    info' = [info EXCEPT ![e.s].local = e.local,
                         ![e.s].remote = IF e.remote # 0 THEN e.remote ELSE @]

should_block(event, a) == block /\ <<event, a>> \in Refused

\* Mutant: the endpoints are recorded before the rules are asked.
Operation_early(e, a, did) ==
    LET blocked == should_block(e.event, a)
    IN  /\ submit([e EXCEPT !.blocked = blocked])
        /\ remember(e)
        /\ sock' = [sock EXCEPT ![e.s] = IF blocked THEN @ ELSE did]
        /\ UNCHANGED blind

\* The common end of on_bind and on_connect.
Operation(e, a, did) ==
    LET blocked == should_block(e.event, a)
    IN  /\ submit([e EXCEPT !.blocked = blocked])
        /\ IF blocked THEN UNCHANGED <<sock, info>>
           ELSE remember(e) /\ sock' = [sock EXCEPT ![e.s] = did]
        /\ UNCHANGED blind

\* A socket operation no program looks at.  UDP sockets of a FLOW handle are
\* neither bound nor connected, as nothing depends on it.
Unseen(s, did) ==
    /\ sock' = [sock EXCEPT ![s] = did]
    /\ blind' = IF did.local = sock[s].local /\ did.remote = sock[s].remote THEN blind
                ELSE blind \cup {s}
    /\ UNCHANGED <<info, ring, lost>>

ev_sock_create(s) ==
    /\ s \in socks \ Children /\ sock[s].st = "none"
    /\ sock' = [sock EXCEPT ![s].st = "open"]
    /\ info' = [info EXCEPT ![s].pid = TRUE]
    /\ UNCHANGED <<live, flows, cpu, ring, lost, blind>>

on_bind(s, a) ==
    LET did == [sock[s] EXCEPT !.local = a]
    IN  /\ sock[s].st = "open" /\ sock[s].tcp = "closed" /\ sock[s].local = 0
        /\ layer = "SOCKET" \/ s \in Tcp
        /\ IF live /\ layer = "SOCKET"
           THEN Operation(Ev("BIND", s, a, 0, TRUE, FALSE), a, did)
           ELSE Unseen(s, did)
        /\ UNCHANGED <<live, flows, cpu>>

on_connect(s, a) ==
    LET did == [sock[s] EXCEPT !.remote = a,
                               !.tcp = IF s \in Tcp THEN "connecting" ELSE "closed"]
    IN  /\ sock[s].st = "open" /\ sock[s].tcp = "closed"
        /\ layer = "SOCKET" \/ s \in Tcp
        /\ IF live /\ layer = "SOCKET"
           THEN Operation(Ev("CONNECT", s, info[s].local, a, TRUE, FALSE), a, did)
           ELSE Unseen(s, did)
        /\ UNCHANGED <<live, flows, cpu>>

\* The release of a socket; the endpoints are those it remembered.
ev_sock_release(s) ==
    LET e == Ev(IF layer = "SOCKET" THEN "CLOSE" ELSE "RELEASE", s, info[s].local,
                info[s].remote, info[s].pid, FALSE)
    IN  /\ sock[s].st = "open"
        /\ sock' = [sock EXCEPT ![s].st = "closing"]
        /\ IF live /\ (layer = "SOCKET" \/ s \notin Tcp) THEN submit(e) ELSE UNCHANGED <<ring, lost>>
        /\ UNCHANGED <<live, info, flows, cpu, blind>>

\* fill_sockops and the event, if any.
fill_sockops(event, s, did, base) ==
    LET e == Ev(event, s, did.local, did.remote, base.pid, FALSE)
    IN  /\ info' = [info EXCEPT ![s] = [pid |-> base.pid, local |-> e.local,
                                        remote |-> IF e.remote # 0 THEN e.remote ELSE base.remote]]
        /\ sock' = [sock EXCEPT ![s] = did]
        /\ UNCHANGED blind
        /\ IF event = "none" THEN UNCHANGED <<ring, lost>> ELSE submit(e)

\* STATE_CB_FLAG of a connection that is established now.
Cb == IF live /\ layer = "FLOW" THEN "ours" ELSE "unset"

\* TCP_LISTEN_CB.
Listen(s) ==
    LET did == [sock[s] EXCEPT !.tcp = "listen"]
    IN  /\ s \in Tcp /\ sock[s].st = "open" /\ sock[s].tcp = "closed" /\ sock[s].local # 0
        /\ IF live /\ layer = "SOCKET" THEN fill_sockops("LISTEN", s, did, info[s])
           ELSE Unseen(s, did)
        /\ UNCHANGED <<live, flows, cpu>>

\* ACTIVE_ESTABLISHED_CB: the kernel has chosen the local endpoint by now.
Active(s, a) ==
    LET did == [sock[s] EXCEPT !.tcp = "established", !.local = IF @ = 0 THEN a ELSE @,
                               !.cb = Cb]
    IN  /\ sock[s].st = "open" /\ sock[s].tcp = "connecting"
        /\ IF live THEN fill_sockops(IF layer = "SOCKET" THEN "none" ELSE "ESTABLISHED", s, did,
                                     info[s])
           ELSE Unseen(s, did)
        /\ UNCHANGED <<live, flows, cpu>>

\* PASSIVE_ESTABLISHED_CB: a listening socket's child with a copy of its
\* storage (BPF_F_CLONE).
Passive(s, c, a) ==
    LET did == [st |-> "open", tcp |-> "established", local |-> sock[s].local, remote |-> a,
                cb |-> Cb]
    IN  /\ sock[s].st = "open" /\ sock[s].tcp = "listen"
        /\ c \in socks \cap Children /\ sock[c].st = "none"
        /\ IF live THEN fill_sockops(IF layer = "SOCKET" THEN "ACCEPT" ELSE "ESTABLISHED", c, did,
                                     info[s])
           ELSE /\ sock' = [sock EXCEPT ![c] = did]
                /\ info' = [info EXCEPT ![c] = info[s]]
                /\ blind' = blind \cup {c}
                /\ UNCHANGED <<ring, lost>>
        /\ UNCHANGED <<live, flows, cpu>>

\* STATE_CB, before or after the release of the socket.
TcpClose(s) ==
    LET did == [sock[s] EXCEPT !.tcp = "done"]
    IN  /\ sock[s].tcp = "established" /\ sock[s].st \in {"open", "closing"}
        /\ IF live /\ layer = "FLOW" /\ sock[s].cb # "unset" THEN fill_sockops("DELETED", s, did, info[s])
           ELSE Unseen(s, did)
        /\ UNCHANGED <<live, flows, cpu>>

\* Another FLOW handle asks for the state changes of the socket.
ForeignCb(s) ==
    /\ layer = "FLOW" /\ sock[s].tcp = "established" /\ sock[s].cb = "unset"
    /\ sock' = [sock EXCEPT ![s].cb = "theirs"]
    /\ UNCHANGED <<live, info, flows, cpu, ring, lost, blind>>

\* What MaxEstablished bounds: the flows reported and those on their way.
Reported ==
    MapThenSumSet(LAMBDA g : ended[g].est, Talks) + Len(ring)
        + Cardinality({d \in CPUs : cpu[d] # <<>>})

\* udp_flow: the lookup, then the update, on each CPU.  A packet may still come
\* in after the release of its socket.
UdpLookup(c, f) ==
    /\ layer = "FLOW" /\ live /\ cpu[c] = <<>>
    /\ f[1] \in socks /\ sock[f[1]].st \in {"open", "closing"} /\ f \notin flows
    /\ Reported < MaxEstablished
    /\ cpu' = [cpu EXCEPT ![c] = f]
    /\ UNCHANGED <<live, sock, info, flows, ring, lost, blind>>

UdpReport(c) ==
    LET f == cpu[c]
        e == Ev("ESTABLISHED", f[1], sock[f[1]].local, f[2], info[f[1]].pid, FALSE)
    IN  /\ f # <<>>
        /\ \E old \in IF Cardinality(flows) < UDP_FLOWS_MAX THEN {{}} ELSE {{g} : g \in flows} :
               flows' = (flows \ old) \cup {f}
        /\ cpu' = [cpu EXCEPT ![c] = <<>>]
        /\ submit(e)
        /\ remember(e)
        /\ UNCHANGED <<live, sock, blind>>

\* The socket is gone; nothing happens to it any more.
Destroy(s) ==
    /\ sock[s].st = "closing" /\ sock[s].tcp # "established"
    /\ \A c \in CPUs : cpu[c] # <<>> => cpu[c][1] # s
    /\ sock' = [sock EXCEPT ![s].st = "gone"]
    /\ UNCHANGED <<live, info, flows, cpu, ring, lost, blind>>

\* The heartbeat is late, or in time again.
Heartbeat ==
    /\ live' = ~live
    /\ UNCHANGED <<sock, info, flows, cpu, ring, lost, blind>>

-----------------------------------------------------------------------------
(* User space: event_callback.                                             *)

KeyOf(e) == <<e.s, e.remote>>

\* At the limit the oldest half is forgotten.
udp_track(e) ==
    LET full == Len(udp) = UDP_TRACK_MAX
        half == UDP_TRACK_MAX \div 2
        k == KeyOf(e)
        Out(f) == IF full THEN Cardinality({i \in 1 .. half : KeyOf(udp[i]) = f}) ELSE 0
    IN  /\ udp' = Append(IF full THEN SubSeq(udp, half + 1, Len(udp)) ELSE udp, e)
        /\ ended' = [f \in Flows |-> [ended[f] EXCEPT !.est = @ + (IF f = k THEN 1 ELSE 0),
                                                      !.forgotten = @ + Out(f)]]

\* Mutant: the entry that takes the place of a deleted one is not looked at.
SweepTurn_skip(t, i, gone) ==
    LET n == Len(t)
    IN  IF i > n THEN <<t, i>>
        ELSE IF t[i] \notin gone THEN <<t, i + 1>>
        ELSE <<SubSeq([t EXCEPT ![i] = t[n]], 1, n - 1), i + 1>>

\* One turn, at entry i, of the loops of udp_release and reflect_poll: the last
\* entry takes the place of a deleted one, and is looked at next.
SweepTurn(t, i, gone) ==
    LET n == Len(t)
    IN  IF i > n THEN <<t, i>>
        ELSE IF t[i] \notin gone THEN <<t, i + 1>>
        ELSE <<SubSeq([t EXCEPT ![i] = t[n]], 1, n - 1), i>>

\* The loop.  A turn passes an entry or deletes one, so there are Len(t).
Swept(t, gone) ==
    LET after[n \in 0 .. Len(t)] ==
            IF n = 0 THEN <<t, 1>> ELSE SweepTurn(after[n - 1][1], after[n - 1][2], gone)
    IN  after[Len(t)][1]

Count(table, f) == Cardinality({i \in DOMAIN table : KeyOf(table[i]) = f})

udp_release(s) ==
    /\ udp' = Swept(udp, {e \in Range(udp) : e.s = s})
    /\ ended' = [f \in Flows |-> [ended[f] EXCEPT !.del = @ + Count(udp, f) - Count(udp', f)]]

event_callback ==
    LET e == Head(ring)
        k == KeyOf(e)
    IN  /\ ring # <<>>
        /\ ring' = Tail(ring)
        /\ CASE e.event = "RELEASE" -> udp_release(e.s)
             [] e.event = "ESTABLISHED" /\ e.s \notin Tcp -> udp_track(e)
             [] e.event = "ESTABLISHED" /\ e.s \in Tcp -> ended' = [ended EXCEPT ![k].est = @ + 1] /\ UNCHANGED udp
             [] e.event = "DELETED" -> ended' = [ended EXCEPT ![k].del = @ + 1] /\ UNCHANGED udp
             [] OTHER -> UNCHANGED uvars
        /\ UNCHANGED <<live, sock, info, flows, cpu, lost, blind>>

-----------------------------------------------------------------------------
(* REFLECT.                                                                *)

Register(i) ==
    /\ i \notin reg /\ told[i] = "none" /\ reg' = reg \cup {i}
    /\ UNCHANGED <<seen, due, rc, lock, told>>

Unregister(i) ==
    /\ i \in reg /\ reg' = reg \ {i}
    /\ UNCHANGED <<seen, due, rc, lock, told>>

Timer == ~due /\ due' = TRUE /\ UNCHANGED <<reg, seen, rc, lock, told>>

\* The timer is read; alive[] gets its size, and its zeros, before the lock.
PollStart(r) ==
    /\ rc[r].pc = "idle" /\ (due \/ seen = <<>>)
    /\ due' = FALSE
    /\ rc' = [rc EXCEPT ![r].pc = "sized", ![r].zeroed = Len(seen) + 1, ![r].size = Len(seen) + 1]
    /\ UNCHANGED <<reg, seen, lock, told>>

\* No registry, or no memory.
PollFails(r) ==
    /\ rc[r].pc = "idle" /\ due
    /\ due' = FALSE
    /\ UNCHANGED <<reg, seen, rc, lock, told>>

PollLock(r) ==
    /\ rc[r].pc = "sized" /\ lock = Nobody
    /\ lock' = r
    /\ rc' = [rc EXCEPT ![r].pc = "walk", ![r].must = reg]
    /\ UNCHANGED <<reg, seen, due, told>>

\* deliver_reflect: OPEN, then CLOSE, of an id.
Told(i, event) ==
    [told EXCEPT ![i] = CASE @ = "none" /\ event = "OPEN" -> "open"
                          [] @ = "open" /\ event = "CLOSE" -> "closed"
                          [] OTHER -> "wrong"]

\* Mutant: a new entry is not marked alive.
PollVisit_unmarked(r, i) ==
    LET known == i \in Range(seen)
    IN  /\ rc[r].pc = "walk" /\ i \in reg \ rc[r].visited
        /\ rc' = [rc EXCEPT ![r].visited = @ \cup {i}, ![r].alive = IF known THEN @ \cup {i} ELSE @,
                            ![r].size = IF known THEN @ ELSE Len(seen) + 2]
        /\ seen' = IF known THEN seen ELSE Append(seen, i)
        /\ told' = IF known THEN told ELSE Told(i, "OPEN")
        /\ UNCHANGED <<reg, due, lock>>

\* One turn of the walk over the registry, which others change meanwhile.  The
\* flag of a known id is set; a write beyond the end of alive[] need not last.
\* A new id makes alive[] grow, and its flag is set.
PollVisit(r, i) ==
    LET known == i \in Range(seen)
        n == Len(seen)
        kept == ~known \/ \E k \in DOMAIN seen : seen[k] = i /\ k <= rc[r].size
    IN  /\ rc[r].pc = "walk" /\ i \in reg \ rc[r].visited
        /\ rc' = [rc EXCEPT ![r].visited = @ \cup {i},
                            ![r].alive = IF kept THEN @ \cup {i} ELSE @,
                            ![r].size = IF known THEN @ ELSE n + 2]
        /\ seen' = IF known THEN seen ELSE Append(seen, i)
        /\ told' = IF known THEN told ELSE Told(i, "OPEN")
        /\ UNCHANGED <<reg, due, lock>>

\* The end of the walk: whoever was not met is reported and forgotten.  A flag
\* that was neither cleared by calloc() nor set is what happens to be there.
PollEnd(r) ==
    /\ rc[r].pc = "walk" /\ rc[r].must \cap reg \subseteq rc[r].visited
    /\ \E junk \in SUBSET {seen[k] : k \in (rc[r].zeroed + 1) .. Len(seen)} :
           LET gone == {i \in Range(seen) : i \notin rc[r].alive /\ i \notin junk}
           IN  /\ seen' = Swept(seen, gone)
               /\ told' = [i \in Ids |-> IF i \in gone THEN Told(i, "CLOSE")[i] ELSE told[i]]
    /\ lock' = Nobody
    /\ rc' = [rc EXCEPT ![r] = IdleReceiver]
    /\ UNCHANGED <<reg, due>>

-----------------------------------------------------------------------------

KernelStep ==
    \/ \E s \in socks :
           \/ ev_sock_create(s)
           \/ \E a \in Endpoints : on_bind(s, a) \/ on_connect(s, a) \/ Active(s, a)
           \/ Listen(s)
           \/ \E c \in socks, a \in Endpoints : Passive(s, c, a)
           \/ TcpClose(s)
           \/ ForeignCb(s)
           \/ ev_sock_release(s)
           \/ Destroy(s)
    \/ \E c \in CPUs, f \in Talks : UdpLookup(c, f)
    \/ \E c \in CPUs : UdpReport(c)
    \/ Heartbeat

Poll(r) ==
    PollStart(r) \/ PollLock(r) \/ (\E i \in Ids : PollVisit(r, i)) \/ PollEnd(r)

ReflectStep ==
    \/ \E i \in Ids : Register(i) \/ Unregister(i)
    \/ Timer
    \/ \E r \in Receivers : Poll(r) \/ PollFails(r)

Next ==
    /\ \/ layer # "REFLECT" /\ KernelStep /\ UNCHANGED <<uvars, rvars>>
       \/ layer # "REFLECT" /\ event_callback /\ UNCHANGED rvars
       \/ layer = "REFLECT" /\ ReflectStep /\ UNCHANGED <<kvars, uvars>>
    /\ UNCHANGED <<layer, block, socks>>

Spec == Init /\ [][Next]_vars

\* The timer goes off every 100 ms, receivers keep calling recv, and a poll does
\* not fail for ever.
PollFairness(r) ==
    /\ SF_vars(layer = "REFLECT" /\ PollStart(r) /\ UNCHANGED <<layer, block, socks, kvars, uvars>>)
    /\ WF_vars(layer = "REFLECT" /\ Poll(r) /\ rc[r].pc # "idle"
                /\ UNCHANGED <<layer, block, socks, kvars, uvars>>)

FairSpec ==
    /\ Spec
    /\ WF_vars(layer = "REFLECT" /\ Timer /\ UNCHANGED <<layer, block, socks, kvars, uvars>>)
    /\ \A r \in Receivers : PollFairness(r)

-----------------------------------------------------------------------------
(* Properties.                                                             *)

\* Every UDP flow udp_track() took in is still in the table, was reported
\* DELETED once, or was forgotten when the table was full.  A TCP flow is
\* DELETED after it was ESTABLISHED, and once, unless that event found the ring
\* full or another handle had set STATE_CB on a connection this one missed.
FlowAccount(f) ==
    LET e == ended[f]
    IN  IF f[1] \in Tcp
        THEN e.del > e.est => e.del = 1 /\ (f[1] \in lost \/ sock[f[1]].cb = "theirs")
        ELSE e.est = e.del + e.forgotten + Count(udp, f)

\* udp_release() reports every flow of the socket and leaves the others alone,
\* although it fills the holes of the table from its end as it goes; no flow is
\* reported twice or lost without a trace.
FlowsPaired ==
    /\ [](\A f \in Flows : FlowAccount(f))
    /\ [][(ring # <<>> /\ Head(ring).event = "RELEASE" /\ ring' = Tail(ring))
              => \A f \in Flows : Count(udp', f) = IF f[1] = Head(ring).s THEN 0 ELSE Count(udp, f)]_vars

\* A CLOSE event names the endpoints the socket really has, and its owner, if
\* the programs saw how it got them: a refused bind or connect leaves no
\* trace, a listening socket's child does not report its parent's endpoints.
CloseNamesEndpoints ==
    \A k \in DOMAIN ring :
        LET e == ring[k]
        IN  (e.event = "CLOSE" /\ e.s \notin blind) =>
                /\ e.local = sock[e.s].local
                /\ e.remote = sock[e.s].remote
                /\ e.pid

\* REFLECT reports of every handle OPEN, then CLOSE, each once, and does not
\* miss a handle that stays or the end of one that it reported.
ReflectCatchesUp ==
    \A i \in Ids :
        /\ [](told[i] # "wrong")
        /\ []<>(layer # "REFLECT" \/ i \notin reg \/ told[i] = "open")
        /\ (told[i] = "open" /\ i \notin reg) ~> (told[i] = "closed")

\* alive[] has a flag for every entry of h->seen while reflect_poll() walks the
\* registry: receivers that poll at the same time do not disturb each other.
AliveCoversSeen == \A r \in Receivers : rc[r].pc = "walk" => Len(seen) <= rc[r].size
=============================================================================
