---------------------------- MODULE EventProofs ----------------------------
(***************************************************************************)
(* Theorems about EventLayers.                                             *)
(***************************************************************************)
EXTENDS EventLayers, FiniteSetTheorems, TLAPS

\* The provers a leaf is tried with when it names none.
USE Zenon, SMT, Z3T(40)

-----------------------------------------------------------------------------
(* The inductive invariants.                                               *)

Ends == Endpoints \cup {0}
Infos == [pid : BOOLEAN, local : Ends, remote : Ends]
Socks ==
    [st : {"none", "open", "closing", "gone"},
     tcp : {"closed", "listen", "connecting", "established", "done"},
     local : Ends, remote : Ends, cb : {"unset", "ours", "theirs"}]
Events ==
    [event : {"BIND", "CONNECT", "CLOSE", "RELEASE", "LISTEN", "ACCEPT", "ESTABLISHED", "DELETED"},
     s : AllSocks, local : Ends, remote : Ends, pid : BOOLEAN, blocked : BOOLEAN]

TypeOK ==
    /\ layer \in {"SOCKET", "FLOW", "REFLECT"} /\ block \in BOOLEAN
    /\ socks \subseteq AllSocks
    /\ live \in BOOLEAN
    /\ sock \in [AllSocks -> Socks]
    /\ info \in [AllSocks -> Infos]
    /\ cpu \in [CPUs -> Talks \cup {<<>>}]
    /\ ring \in Seq(Events)
    /\ lost \subseteq Tcp /\ blind \subseteq AllSocks
    /\ udp \in Seq(Events) /\ Len(udp) <= UDP_TRACK_MAX
    /\ ended \in [Flows -> [est : Nat, del : Int, forgotten : Nat]]

\* What the programs remember of a socket on which they missed nothing is what
\* the kernel knows; a socket that does not exist has left no trace, and one
\* that was created has an owner.
InfoInv ==
    \A s \in AllSocks :
        /\ sock[s].st = "none" =>
               /\ sock[s].tcp = "closed" /\ sock[s].local = 0 /\ sock[s].remote = 0
               /\ info[s] = NoInfo
        /\ sock[s].st # "none" => info[s].pid
        /\ (layer = "SOCKET" /\ s \notin blind) =>
               info[s].local = sock[s].local /\ info[s].remote = sock[s].remote

\* After its CLOSE event a socket keeps its endpoints.
CloseInv ==
    \A k \in DOMAIN ring :
        LET e == ring[k]
        IN  e.event = "CLOSE" =>
                /\ layer = "SOCKET"
                /\ sock[e.s].st \in {"closing", "gone"}
                /\ e.pid
                /\ e.s \notin blind => e.local = sock[e.s].local /\ e.remote = sock[e.s].remote

\* Programs for UDP packets run for a FLOW handle only, on sockets that exist.
CpuInv == \A c \in CPUs : cpu[c] # <<>> => layer = "FLOW" /\ sock[cpu[c][1]].st # "none"

\* The sockets that have a TCP state, and the flag for its changes, are TCP's;
\* the table of UDP flows holds none of them.
TcpInv ==
    /\ \A s \in AllSocks :
           /\ sock[s].tcp # "closed" => s \in Tcp
           /\ sock[s].cb # "unset" => sock[s].tcp \in {"established", "done"}
    /\ \A k \in DOMAIN udp : udp[k].s \notin Tcp
    /\ \A k \in DOMAIN ring : ring[k].event = "DELETED" => ring[k].s \in Tcp

\* The ESTABLISHED event of flow f was reported, or is at one of the first n
\* places of the ring, or was lost, or nobody promised it.
Announced(f, n) ==
    \/ f \in Flows => ended[f].est >= 1
    \/ \E j \in 1 .. n : ring[j].event = "ESTABLISHED" /\ KeyOf(ring[j]) = f
    \/ f[1] \in lost
    \/ sock[f[1]].cb = "theirs"

\* The life of a TCP flow: one DELETED event when its connection is done, after
\* the ESTABLISHED event.
DeletedInv ==
    /\ \A s \in Tcp \cap AllSocks :
           (sock[s].tcp = "established" /\ sock[s].cb = "ours") =>
               Announced(<<s, sock[s].remote>>, Len(ring))
    /\ \A k \in DOMAIN ring :
           ring[k].event = "DELETED" =>
               /\ sock[ring[k].s].tcp = "done"
               /\ \A j \in DOMAIN ring : (ring[j].event = "DELETED" /\ ring[j].s = ring[k].s) => j = k
               /\ \A f \in Flows : f[1] = ring[k].s => ended[f].del = 0
               /\ Announced(KeyOf(ring[k]), k - 1)
    /\ \A f \in Flows :
           f[1] \in Tcp =>
               /\ ended[f].del \in {0, 1}
               /\ ended[f].del = 1 => sock[f[1]].tcp = "done" /\ Announced(f, 0)

UdpInv ==
    \A f \in Flows :
        f[1] \notin Tcp =>
            ended[f].est = ended[f].del + ended[f].forgotten + Count(udp, f)

\* SockInv is what the steps of the programs rest on.
SockInv == TypeOK /\ InfoInv /\ CpuInv /\ TcpInv
EventInv == SockInv /\ CloseInv /\ DeletedInv /\ UdpInv

RcType ==
    [pc : {"idle", "sized", "walk"}, zeroed : Nat, size : Nat, alive : SUBSET Ids,
     visited : SUBSET Ids, must : SUBSET Ids]
ReflectType ==
    /\ reg \subseteq Ids
    /\ seen \in Seq(Ids)
    /\ lock \in Receivers \cup {Nobody}
    /\ rc \in [Receivers -> RcType]
    /\ told \in [Ids -> {"none", "open", "closed"}]

\* Only the owner of poll_lock walks; an id is in h->seen from its OPEN event to
\* its CLOSE event; and a registered id that was seen is still to be visited, or
\* was, so that it is alive at the end of the walk.  Every flag is known: calloc()
\* cleared it, or the walk has set it.
ReflectInv ==
    /\ ReflectType
    /\ \A r \in Receivers : rc[r].pc = "walk" <=> lock = r
    /\ \A i \in Ids : i \in Range(seen) <=> told[i] = "open"
    /\ \A i \in reg : told[i] # "closed"
    /\ \A r \in Receivers :
           /\ rc[r].visited \subseteq rc[r].alive
           /\ rc[r].pc = "sized" => rc[r].zeroed = rc[r].size
           /\ rc[r].pc = "walk" =>
                  /\ reg \cap Range(seen) \subseteq rc[r].must \cup rc[r].visited
                  /\ \A k \in DOMAIN seen : k <= rc[r].zeroed \/ seen[k] \in rc[r].alive

\* A receiver outside reflect_poll() holds no flags.
LEMMA IdleIs ==
    IdleReceiver \in RcType /\ IdleReceiver.pc = "idle" /\ IdleReceiver.visited = {}
  BY SMTT(30) DEF IdleReceiver, RcType

-----------------------------------------------------------------------------
(***************************************************************************)
(* What an operation does to one socket.  Every action of the programs is  *)
(* shown to be one of these steps; every invariant is shown to survive     *)
(* them.                                                                   *)
(***************************************************************************)
\* Socket s becomes did, and what is remembered of it becomes i.
Moves(s, did, i) ==
    /\ sock' = [sock EXCEPT ![s] = did]
    /\ info' = [info EXCEPT ![s] = i]
    /\ blind' \in {blind, blind \cup {s}}
    /\ did.st # "none" /\ i.pid
    /\ (layer = "SOCKET" /\ s \notin blind') => i.local = did.local /\ i.remote = did.remote
    /\ sock[s].st \in {"closing", "gone"} =>
           /\ did.st \in {"closing", "gone"}
           /\ s \notin blind' => did.local = sock[s].local /\ did.remote = sock[s].remote
    /\ did.tcp # "closed" => s \in Tcp
    /\ did.cb # "unset" => did.tcp \in {"established", "done"}
    /\ sock[s].tcp = "done" => did.tcp = "done"
    /\ sock[s].cb = "theirs" => did.cb = "theirs"

\* No connection is established without an event.
Silent(s, did) ==
    /\ UNCHANGED <<ring, lost>>
    /\ (did.tcp = "established" /\ did.cb = "ours") =>
           sock[s].tcp = "established" /\ sock[s].cb = "ours" /\ did.remote = sock[s].remote

\* An event e of the socket.
Says(s, did, e) ==
    /\ submit(e) /\ e.s = s
    /\ e.event = "CLOSE" =>
           /\ layer = "SOCKET" /\ did.st = "closing" /\ e.pid
           /\ s \notin blind' => e.local = did.local /\ e.remote = did.remote
    /\ (did.tcp = "established" /\ did.cb = "ours") =>
           \/ sock[s].tcp = "established" /\ sock[s].cb = "ours" /\ did.remote = sock[s].remote
           \/ e.event = "ESTABLISHED" /\ e.remote = did.remote
    /\ e.event = "DELETED" =>
           /\ s \in Tcp /\ sock[s].tcp = "established" /\ did.tcp = "done"
           /\ e.remote = sock[s].remote
           /\ sock[s].cb = "ours" \/ did.cb = "theirs"

SocketStep ==
    \E s \in AllSocks, did \in Socks, i \in Infos :
        /\ Moves(s, did, i)
        /\ Silent(s, did) \/ \E e \in Events : Says(s, did, e)

\* ev_sock_create: the socket has an owner.
LEMMA CreateStep ==
    ASSUME SockInv, NEW s \in socks, ev_sock_create(s)
    PROVE  SocketStep
<1>1. s \in AllSocks /\ sock[s] \in Socks /\ info[s] \in Infos
  BY DEF SockInv, TypeOK
<1>2. PICK did : did = [sock[s] EXCEPT !.st = "open"]
  BY Zenon
<1>3. PICK i : i = [info[s] EXCEPT !.pid = TRUE]
  BY Zenon
<1>4. did \in Socks /\ i \in Infos
  BY <1>1, <1>2, <1>3, Zenon DEF Socks, Infos
<1>5. Moves(s, did, i)
  BY <1>1, <1>2, <1>3 DEF Moves, SockInv, TypeOK, InfoInv, TcpInv, Socks, Infos, NoInfo, ev_sock_create
<1>6. Silent(s, did)
  BY <1>1, <1>2 DEF Silent, SockInv, InfoInv, Socks, ev_sock_create
<1> QED
  BY <1>1, <1>4, <1>5, <1>6, Zenon DEF SocketStep

\* An operation the rules refuse leaves no trace; one they let pass is remembered.
LEMMA OperationSays ==
    ASSUME block \in BOOLEAN, NEW e \in Events, NEW a, NEW did, Operation(e, a, did)
    PROVE  /\ \E x \in Events :
                  /\ submit(x)
                  /\ x.event = e.event /\ x.s = e.s /\ x.local = e.local /\ x.remote = e.remote
           /\ UNCHANGED <<sock, info>> \/ (remember(e) /\ sock' = [sock EXCEPT ![e.s] = did])
           /\ UNCHANGED blind
<1>1. PICK x : x = [e EXCEPT !.blocked = should_block(e.event, a)]
  BY Zenon
<1>2. should_block(e.event, a) \in BOOLEAN
  BY DEF should_block
<1>3. /\ x \in Events
      /\ x.event = e.event /\ x.s = e.s /\ x.local = e.local /\ x.remote = e.remote
  BY <1>1, <1>2 DEF Events
<1>4. submit(x)
  BY <1>1 DEF Operation, submit
<1> QED
  BY <1>3, <1>4, Zenon DEF Operation

\* on_bind and on_connect.
LEMMA BindStep ==
    ASSUME SockInv, NEW s \in socks, NEW a \in Endpoints, on_bind(s, a)
    PROVE  SocketStep
<1>1. s \in AllSocks /\ sock[s] \in Socks /\ info[s] \in Infos /\ a \in Ends /\ 0 \in Ends
  BY DEF SockInv, TypeOK, Ends
<1>2. PICK did : did = [sock[s] EXCEPT !.local = a]
  BY Zenon
<1>3. did \in Socks
  BY <1>1, <1>2 DEF Socks
<1>4. CASE ~(live /\ layer = "SOCKET")
  <2>1. Unseen(s, did)
    BY <1>2, <1>4, Zenon DEF on_bind
  <2>2. Moves(s, did, info[s])
    BY <1>1, <1>2, <2>1, ZenonT(40) DEF Moves, SockInv, TypeOK, InfoInv, TcpInv, Socks, Infos, Unseen, on_bind
  <2>3. Silent(s, did)
    BY <1>1, <1>2, <2>1 DEF Silent, Socks, Unseen
  <2> QED
    BY <1>1, <1>3, <2>2, <2>3, Zenon DEF SocketStep
<1>5. CASE live /\ layer = "SOCKET"
  <2>1. PICK e : e = Ev("BIND", s, a, 0, TRUE, FALSE)
    BY Zenon
  <2>2. e \in Events /\ e.event = "BIND" /\ e.s = s /\ e.local = a /\ e.remote = 0
    BY <1>1, <2>1 DEF Events, Ev
  <2>3. Operation(e, a, did)
    BY <1>2, <1>5, <2>1, Zenon DEF on_bind
  <2>4. block \in BOOLEAN
    BY DEF SockInv, TypeOK
  <2>5. PICK x \in Events : submit(x) /\ x.event = "BIND" /\ x.s = s
    BY <2>2, <2>3, <2>4, OperationSays, Zenon
  <2>6. CASE UNCHANGED <<sock, info, blind>>
    <3>1. Moves(s, sock[s], info[s])
      BY <1>1, <2>6, Zenon DEF Moves, SockInv, TypeOK, InfoInv, TcpInv, on_bind
    <3>2. Says(s, sock[s], x)
      BY <2>5 DEF Says
    <3> QED
      BY <1>1, <2>5, <3>1, <3>2, Zenon DEF SocketStep
  <2>7. CASE remember(e) /\ sock' = [sock EXCEPT ![e.s] = did] /\ UNCHANGED blind
    <3>1. PICK i : i = [info[s] EXCEPT !.local = a]
      BY Zenon
    <3>2. i \in Infos /\ info' = [info EXCEPT ![s] = i]
      BY <1>1, <2>2, <2>7, <3>1, Zenon DEF remember, SockInv, TypeOK, Infos
    <3>3. Moves(s, did, i)
      BY <1>1, <1>2, <2>2, <2>7, <3>1, <3>2
      DEF Moves, SockInv, TypeOK, InfoInv, TcpInv, on_bind, Socks, Infos
    <3>4. Says(s, did, x)
      BY <1>1, <1>2, <2>5 DEF Says, Socks
    <3> QED
      BY <1>1, <1>3, <2>5, <3>2, <3>3, <3>4, Zenon DEF SocketStep
  <2> QED
    BY <2>2, <2>3, <2>4, <2>6, <2>7, OperationSays, Zenon
<1> QED
  BY <1>4, <1>5

LEMMA ConnectStep ==
    ASSUME SockInv, NEW s \in socks, NEW a \in Endpoints, on_connect(s, a)
    PROVE  SocketStep
<1>1. s \in AllSocks /\ sock[s] \in Socks /\ info[s] \in Infos /\ a \in Ends /\ a # 0
  BY EventAssumption DEF SockInv, TypeOK, Ends
<1>2. PICK did : did = [sock[s] EXCEPT !.remote = a, !.tcp = IF s \in Tcp THEN "connecting" ELSE "closed"]
  OBVIOUS
<1>3. did \in Socks
  BY <1>1, <1>2, Zenon DEF Socks
<1>4. CASE ~(live /\ layer = "SOCKET")
  <2>1. Unseen(s, did)
    BY <1>2, <1>4, Zenon DEF on_connect
  <2>2. Moves(s, did, info[s])
    BY <1>1, <1>2, <2>1, ZenonT(40) DEF Moves, SockInv, TypeOK, InfoInv, TcpInv, Socks, Infos, Unseen, on_connect
  <2>3. Silent(s, did)
    BY <1>1, <1>2, <2>1 DEF Silent, Socks, Unseen
  <2> QED
    BY <1>1, <1>3, <2>2, <2>3, Zenon DEF SocketStep
<1>5. CASE live /\ layer = "SOCKET"
  <2>1. PICK e : e = Ev("CONNECT", s, info[s].local, a, TRUE, FALSE)
    BY Zenon
  <2>2. e \in Events /\ e.event = "CONNECT" /\ e.s = s /\ e.local = info[s].local /\ e.remote = a
    BY <1>1, <2>1 DEF Events, Ev, Infos
  <2>3. Operation(e, a, did)
    BY <1>2, <1>5, <2>1, Zenon DEF on_connect
  <2>4. block \in BOOLEAN
    BY DEF SockInv, TypeOK
  <2>5. PICK x \in Events : submit(x) /\ x.event = "CONNECT" /\ x.s = s
    BY <2>2, <2>3, <2>4, OperationSays, Zenon
  <2>6. CASE UNCHANGED <<sock, info, blind>>
    <3>1. Moves(s, sock[s], info[s])
      BY <1>1, <2>6 DEF Moves, SockInv, TypeOK, InfoInv, TcpInv, on_connect
    <3>2. Says(s, sock[s], x)
      BY <2>5 DEF Says
    <3> QED
      BY <1>1, <2>5, <3>1, <3>2, Zenon DEF SocketStep
  <2>7. CASE remember(e) /\ sock' = [sock EXCEPT ![e.s] = did] /\ UNCHANGED blind
    <3>1. PICK i : i = [info[s] EXCEPT !.local = e.local, !.remote = a]
      OBVIOUS
    <3>2. i \in Infos /\ info' = [info EXCEPT ![s] = i]
      BY <1>1, <2>2, <2>7, <3>1, Zenon DEF remember, SockInv, TypeOK, Infos
    <3>3. Moves(s, did, i)
      BY <1>1, <1>2, <2>2, <2>7, <3>1, <3>2, Zenon
      DEF Moves, SockInv, TypeOK, InfoInv, TcpInv, on_connect, Socks, Infos
    <3>4. Says(s, did, x)
      BY <1>1, <1>2, <2>5 DEF Says, Socks
    <3> QED
      BY <1>1, <1>3, <2>5, <3>2, <3>3, <3>4, Zenon DEF SocketStep
  <2> QED
    BY <2>2, <2>3, <2>4, <2>6, <2>7, OperationSays, Zenon
<1> QED
  BY <1>4, <1>5

\* ev_sock_release: CLOSE names the endpoints that were remembered.
LEMMA ReleaseStep ==
    ASSUME SockInv, NEW s \in socks, ev_sock_release(s)
    PROVE  SocketStep
<1>1. s \in AllSocks /\ sock[s] \in Socks /\ info[s] \in Infos
  BY DEF SockInv, TypeOK
<1>2. PICK did : did = [sock[s] EXCEPT !.st = "closing"]
  BY Zenon
<1>3. did \in Socks
  BY <1>1, <1>2 DEF Socks
<1>4. Moves(s, did, info[s])
  BY <1>1, <1>2, ZenonT(40) DEF Moves, SockInv, TypeOK, InfoInv, TcpInv, Socks, Infos, ev_sock_release
<1>5. CASE UNCHANGED <<ring, lost>>
  <2>1. Silent(s, did)
    BY <1>1, <1>2, <1>5 DEF Silent, Socks
  <2> QED
    BY <1>1, <1>3, <1>4, <2>1, Zenon DEF SocketStep
<1>6. PICK e : e = Ev(IF layer = "SOCKET" THEN "CLOSE" ELSE "RELEASE", s, info[s].local,
                      info[s].remote, info[s].pid, FALSE)
  BY Zenon
<1>7. CASE submit(e)
  <2>1. /\ e \in Events /\ e.s = s /\ e.local = info[s].local /\ e.remote = info[s].remote
        /\ e.event \in {"CLOSE", "RELEASE"} /\ (e.event = "CLOSE" => layer = "SOCKET")
    BY <1>1, <1>6 DEF Events, Ev, Infos
  <2>2. e.pid = info[s].pid
    BY <1>6 DEF Ev
  <2>3. info[s].pid /\ (layer = "SOCKET" /\ s \notin blind =>
                           info[s].local = sock[s].local /\ info[s].remote = sock[s].remote)
    BY <1>1 DEF SockInv, InfoInv, ev_sock_release
  <2>4. did.st = "closing" /\ did.tcp = sock[s].tcp /\ did.cb = sock[s].cb
        /\ did.local = sock[s].local /\ did.remote = sock[s].remote /\ blind' = blind
    BY <1>1, <1>2 DEF Socks, ev_sock_release
  <2>5. Says(s, did, e)
    BY <1>7, <2>1, <2>2, <2>3, <2>4 DEF Says
  <2> QED
    BY <1>1, <1>3, <1>4, <2>1, <2>5, Zenon DEF SocketStep
<1> QED
  BY <1>5, <1>6, <1>7, Zenon DEF ev_sock_release

\* fill_sockops.
LEMMA FillStep ==
    ASSUME SockInv, NEW s \in AllSocks, NEW did \in Socks, NEW base \in Infos, base.pid,
           NEW event \in {"none", "LISTEN", "ACCEPT", "ESTABLISHED", "DELETED"},
           fill_sockops(event, s, did, base),
           did.st # "none", did.cb # "unset" => did.tcp \in {"established", "done"},
           did.tcp # "closed" => s \in Tcp,
           sock[s].tcp = "done" => did.tcp = "done",
           sock[s].cb = "theirs" => did.cb = "theirs",
           sock[s].st \in {"closing", "gone"} =>
               /\ did.st \in {"closing", "gone"}
               /\ did.local = sock[s].local /\ did.remote = sock[s].remote,
           (layer = "SOCKET" /\ s \notin blind) => did.remote # 0 \/ base.remote = 0,
           (did.tcp = "established" /\ did.cb = "ours") => event = "ESTABLISHED",
           event = "DELETED" =>
               /\ s \in Tcp /\ sock[s].tcp = "established" /\ did.tcp = "done"
               /\ did.remote = sock[s].remote
               /\ sock[s].cb = "ours" \/ did.cb = "theirs"
    PROVE  SocketStep
<1>1. PICK e : e = Ev(event, s, did.local, did.remote, base.pid, FALSE)
  BY Zenon
<1>2. PICK i : i = [pid |-> base.pid, local |-> did.local,
                    remote |-> IF did.remote # 0 THEN did.remote ELSE base.remote]
  BY Zenon
<1>3. i \in Infos /\ i.local = did.local /\ (did.remote # 0 \/ base.remote = 0 => i.remote = did.remote)
  BY <1>2 DEF Infos, Socks
<1>4. i.pid
  BY <1>2
<1>5. /\ sock' = [sock EXCEPT ![s] = did] /\ info' = [info EXCEPT ![s] = i] /\ blind' = blind
      /\ IF event = "none" THEN UNCHANGED <<ring, lost>> ELSE submit(e)
  BY <1>1, <1>2, Zenon DEF fill_sockops, Ev
<1>6. Moves(s, did, i)
  BY <1>3, <1>4, <1>5 DEF Moves
<1>7. CASE event = "none"
  <2>1. Silent(s, did)
    BY <1>5, <1>7 DEF Silent
  <2> QED
    BY <1>3, <1>6, <2>1, Zenon DEF SocketStep
<1>8. CASE event # "none"
  <2>1. e \in Events /\ e.event = event /\ e.s = s /\ e.remote = did.remote
    BY <1>1, <1>8 DEF Ev, Events, Infos, Socks
  <2>2. Says(s, did, e)
    BY <1>5, <1>8, <2>1 DEF Says
  <2> QED
    BY <1>3, <1>6, <2>1, <2>2, Zenon DEF SocketStep
<1> QED
  BY <1>7, <1>8

\* An operation on a socket that keeps its endpoints, or that is open, and no
\* program sees.
LEMMA UnseenStep ==
    ASSUME SockInv, NEW s \in AllSocks, NEW did \in Socks, Unseen(s, did),
           did.st = sock[s].st, sock[s].st # "none",
           sock[s].st = "open" \/ (did.local = sock[s].local /\ did.remote = sock[s].remote),
           did.cb # "unset" => did.tcp \in {"established", "done"},
           did.tcp # "closed" => s \in Tcp,
           sock[s].tcp = "done" => did.tcp = "done",
           sock[s].cb = "theirs" => did.cb = "theirs",
           did.tcp # "established" \/ did.cb # "ours"
    PROVE  SocketStep
<1>1. info[s] \in Infos
  BY DEF SockInv, TypeOK
<1>2. Moves(s, did, info[s])
  BY DEF Moves, SockInv, TypeOK, InfoInv, Unseen
<1>3. Silent(s, did)
  BY DEF Silent, Unseen
<1> QED
  BY <1>1, <1>2, <1>3, Zenon DEF SocketStep

\* TCP_LISTEN_CB.
LEMMA ListenStep ==
    ASSUME SockInv, NEW s \in socks, Listen(s)
    PROVE  SocketStep
<1>1. s \in AllSocks /\ sock[s] \in Socks /\ info[s] \in Infos
  BY DEF SockInv, TypeOK
<1>2. PICK did : did = [sock[s] EXCEPT !.tcp = "listen"]
  BY Zenon
<1>3. /\ did \in Socks /\ did.st = "open" /\ did.tcp = "listen" /\ did.cb = "unset"
      /\ did.local = sock[s].local /\ did.remote = sock[s].remote
      /\ sock[s].st = "open" /\ sock[s].tcp = "closed" /\ sock[s].cb = "unset" /\ s \in Tcp
  BY <1>1, <1>2 DEF Socks, Listen, SockInv, TcpInv
<1>4. CASE fill_sockops("LISTEN", s, did, info[s])
  <2>1. info[s].pid
    BY <1>1, <1>3 DEF SockInv, InfoInv
  <2>2. (layer = "SOCKET" /\ s \notin blind) => did.remote # 0 \/ info[s].remote = 0
    BY <1>1, <1>3 DEF SockInv, InfoInv
  <2> QED
    BY <1>1, <1>3, <1>4, <2>1, <2>2, FillStep
<1>5. CASE Unseen(s, did)
  BY <1>1, <1>3, <1>5, UnseenStep
<1> QED
  BY <1>2, <1>4, <1>5 DEF Listen

\* ACTIVE_ESTABLISHED_CB.
LEMMA ActiveStep ==
    ASSUME SockInv, NEW s \in socks, NEW a \in Endpoints, Active(s, a)
    PROVE  SocketStep
<1>1. s \in AllSocks /\ sock[s] \in Socks /\ info[s] \in Infos /\ a \in Ends
  BY DEF SockInv, TypeOK, Ends
<1>2. PICK did : did = [sock[s] EXCEPT !.tcp = "established", !.local = IF @ = 0 THEN a ELSE @,
                                       !.cb = Cb]
  OBVIOUS
<1>3. /\ did \in Socks /\ did.st = "open" /\ did.tcp = "established" /\ did.cb = Cb
      /\ did.remote = sock[s].remote
      /\ sock[s].st = "open" /\ sock[s].tcp = "connecting" /\ sock[s].cb = "unset" /\ s \in Tcp
  BY <1>1, <1>2, Zenon DEF Socks, Active, SockInv, TcpInv, Cb
<1>4. CASE live
  <2>1. info[s].pid
    BY <1>1, <1>3 DEF SockInv, InfoInv
  <2>2. (layer = "SOCKET" /\ s \notin blind) => did.remote # 0 \/ info[s].remote = 0
    BY <1>1, <1>3 DEF SockInv, InfoInv
  <2>3. CASE layer = "SOCKET"
    <3>1. fill_sockops("none", s, did, info[s])
      BY <1>2, <1>4, <2>3 DEF Active
    <3>2. did.cb = "unset"
      BY <1>3, <2>3 DEF Cb
    <3> QED
      BY <1>1, <1>3, <2>1, <2>2, <3>1, <3>2, FillStep
  <2>4. CASE layer # "SOCKET"
    <3>1. fill_sockops("ESTABLISHED", s, did, info[s])
      BY <1>2, <1>4, <2>4 DEF Active
    <3> QED
      BY <1>1, <1>3, <2>1, <2>2, <3>1, FillStep
  <2> QED
    BY <2>3, <2>4
<1>5. CASE ~live
  <2>1. Unseen(s, did)
    BY <1>2, <1>5 DEF Active
  <2>2. did.cb = "unset"
    BY <1>3, <1>5 DEF Cb
  <2> QED
    BY <1>1, <1>3, <2>1, <2>2, UnseenStep
<1> QED
  BY <1>4, <1>5

\* PASSIVE_ESTABLISHED_CB: what matters is the child.
LEMMA PassiveStep ==
    ASSUME SockInv, NEW s \in socks, NEW c \in socks, NEW a \in Endpoints, Passive(s, c, a)
    PROVE  SocketStep
<1>1. /\ s \in AllSocks /\ sock[s] \in Socks /\ info[s] \in Infos /\ a \in Ends /\ a # 0
      /\ c \in AllSocks /\ sock[c] \in Socks
  BY EventAssumption DEF SockInv, TypeOK, Ends
<1>2. PICK did : did = [st |-> "open", tcp |-> "established", local |-> sock[s].local, remote |-> a,
                        cb |-> Cb]
  BY Zenon
<1>3. /\ did \in Socks /\ did.st = "open" /\ did.tcp = "established" /\ did.cb = Cb
      /\ did.remote = a /\ did.local = sock[s].local
      /\ sock[s].st = "open" /\ c \in Tcp
      /\ sock[c].st = "none" /\ sock[c].tcp = "closed" /\ sock[c].cb = "unset"
  BY <1>1, <1>2, EventAssumption DEF Socks, Passive, SockInv, InfoInv, TcpInv, Cb
<1>4. info[s].pid
  BY <1>1, <1>3 DEF SockInv, InfoInv
<1>5. CASE live
  <2>1. PICK event : event = IF layer = "SOCKET" THEN "ACCEPT" ELSE "ESTABLISHED"
    OBVIOUS
  <2>2. fill_sockops(event, c, did, info[s])
    BY <1>2, <1>5, <2>1, Zenon DEF Passive, fill_sockops, submit
  <2>3. did.cb = "ours" => event = "ESTABLISHED"
    BY <1>3, <2>1 DEF Cb
  <2>4. event \in {"ACCEPT", "ESTABLISHED"}
    BY <2>1
  <2> QED
    BY <1>1, <1>3, <1>4, <2>2, <2>3, <2>4, FillStep
<1>6. CASE ~live
  <2>1. /\ sock' = [sock EXCEPT ![c] = did] /\ info' = [info EXCEPT ![c] = info[s]]
        /\ blind' = blind \cup {c} /\ UNCHANGED <<ring, lost>>
    BY <1>2, <1>6 DEF Passive
  <2>2. did.cb = "unset"
    BY <1>3, <1>6 DEF Cb
  <2>3. Moves(c, did, info[s])
    BY <1>1, <1>3, <1>4, <2>1, <2>2 DEF Moves
  <2>4. Silent(c, did)
    BY <2>1, <2>2 DEF Silent
  <2> QED
    BY <1>1, <1>3, <2>3, <2>4, Zenon DEF SocketStep
<1> QED
  BY <1>5, <1>6

\* STATE_CB: DELETED of a connection this handle, or another, marked.
LEMMA TcpCloseStep ==
    ASSUME SockInv, NEW s \in socks, TcpClose(s)
    PROVE  SocketStep
<1>1. s \in AllSocks /\ sock[s] \in Socks /\ info[s] \in Infos
  BY DEF SockInv, TypeOK
<1>2. PICK did : did = [sock[s] EXCEPT !.tcp = "done"]
  BY Zenon
<1>3. /\ did \in Socks /\ did.st = sock[s].st /\ did.tcp = "done" /\ did.cb = sock[s].cb
      /\ did.local = sock[s].local /\ did.remote = sock[s].remote
      /\ sock[s].st \in {"open", "closing"} /\ sock[s].tcp = "established" /\ s \in Tcp
  BY <1>1, <1>2 DEF Socks, TcpClose, SockInv, TcpInv
<1>4. CASE live /\ layer = "FLOW" /\ sock[s].cb # "unset"
  <2>1. fill_sockops("DELETED", s, did, info[s])
    BY <1>2, <1>4 DEF TcpClose
  <2>2. info[s].pid
    BY <1>1, <1>3 DEF SockInv, InfoInv
  <2>3. sock[s].cb = "ours" \/ did.cb = "theirs"
    BY <1>1, <1>3, <1>4 DEF Socks
  <2> QED
    BY <1>1, <1>3, <1>4, <2>1, <2>2, <2>3, FillStep
<1>5. CASE ~(live /\ layer = "FLOW" /\ sock[s].cb # "unset")
  <2>1. Unseen(s, did)
    BY <1>2, <1>5 DEF TcpClose
  <2> QED
    BY <1>1, <1>3, <2>1, UnseenStep
<1> QED
  BY <1>4, <1>5

LEMMA ForeignStep ==
    ASSUME SockInv, NEW s \in socks, ForeignCb(s)
    PROVE  SocketStep
<1>1. s \in AllSocks /\ sock[s] \in Socks /\ info[s] \in Infos
  BY DEF SockInv, TypeOK
<1>2. PICK did : did = [sock[s] EXCEPT !.cb = "theirs"]
  BY Zenon
<1>3. /\ did \in Socks /\ did.st = sock[s].st /\ did.tcp = "established" /\ did.cb = "theirs"
      /\ did.local = sock[s].local /\ did.remote = sock[s].remote
      /\ sock[s].tcp = "established" /\ s \in Tcp
  BY <1>1, <1>2 DEF Socks, ForeignCb, SockInv, TcpInv
<1>4. Moves(s, did, info[s])
  BY <1>1, <1>2, <1>3 DEF Moves, SockInv, TypeOK, InfoInv, ForeignCb
<1>5. Silent(s, did)
  BY <1>3 DEF Silent, ForeignCb
<1> QED
  BY <1>1, <1>3, <1>4, <1>5, Zenon DEF SocketStep

\* The last step of a socket.
LEMMA DestroyStep ==
    ASSUME SockInv, NEW s \in socks, Destroy(s)
    PROVE  SocketStep
<1>1. s \in AllSocks /\ sock[s] \in Socks /\ info[s] \in Infos
  BY DEF SockInv, TypeOK
<1>2. PICK did : did = [sock[s] EXCEPT !.st = "gone"]
  BY Zenon
<1>3. /\ did \in Socks /\ did.st = "gone" /\ did.tcp = sock[s].tcp /\ did.cb = sock[s].cb
      /\ did.local = sock[s].local /\ did.remote = sock[s].remote /\ sock[s].st = "closing"
  BY <1>1, <1>2 DEF Socks, Destroy
<1>4. Moves(s, did, info[s])
  BY <1>1, <1>2, <1>3 DEF Moves, SockInv, TypeOK, InfoInv, TcpInv, Destroy
<1>5. Silent(s, did)
  BY <1>3 DEF Silent, Destroy
<1> QED
  BY <1>1, <1>3, <1>4, <1>5, Zenon DEF SocketStep

\* The end of udp_flow.
LEMMA ReportStep ==
    ASSUME SockInv, NEW c \in CPUs, UdpReport(c)
    PROVE  SocketStep
<1>1. PICK f : f = cpu[c]
  OBVIOUS
<1>2. /\ f \in Talks /\ f[1] \in AllSocks \ Tcp /\ f[2] \in Endpoints
      /\ layer = "FLOW" /\ sock[f[1]].st # "none"
  BY <1>1, EventAssumption DEF SockInv, TypeOK, CpuInv, UdpReport
<1>3. PICK s : s = f[1]
  OBVIOUS
<1>4. /\ s \in AllSocks /\ s \notin Tcp /\ sock[s] \in Socks /\ info[s] \in Infos
      /\ f[2] \in Ends /\ f[2] # 0 /\ sock[s].st # "none" /\ sock[s].tcp = "closed" /\ sock[s].cb = "unset"
  BY <1>2, <1>3, EventAssumption, Zenon DEF SockInv, TypeOK, TcpInv, Ends
<1>5. PICK e : e = Ev("ESTABLISHED", s, sock[s].local, f[2], info[s].pid, FALSE)
  BY ZenonT(40)
<1>6. e \in Events /\ e.event = "ESTABLISHED" /\ e.s = s /\ e.local = sock[s].local /\ e.remote = f[2]
  BY <1>4, <1>5 DEF Events, Ev, Infos, Socks
<1>7. submit(e) /\ remember(e) /\ UNCHANGED <<sock, blind>>
  BY <1>1, <1>3, <1>5, Zenon DEF UdpReport, submit, remember
<1>8. PICK i : i = [info[s] EXCEPT !.local = e.local, !.remote = f[2]]
  OBVIOUS
<1>9. i \in Infos /\ info' = [info EXCEPT ![s] = i]
  BY <1>4, <1>6, <1>7, <1>8, Zenon DEF remember, SockInv, TypeOK, Infos, Socks
<1>10. i.pid
  BY <1>4, <1>8 DEF SockInv, InfoInv, Infos
<1>11. Moves(s, sock[s], i)
  BY <1>2, <1>4, <1>7, <1>9, <1>10 DEF Moves, SockInv, TypeOK
<1>12. Says(s, sock[s], e)
  BY <1>4, <1>6, <1>7 DEF Says
<1> QED
  BY <1>4, <1>6, <1>9, <1>11, <1>12, Zenon DEF SocketStep

-----------------------------------------------------------------------------
(* The invariants survive the steps of a socket.                           *)

\* A full ring loses the event, and the sockets concerned are known.
LEMMA SubmitRing ==
    ASSUME TypeOK, NEW e \in Events, submit(e)
    PROVE  /\ ring' \in Seq(Events)
           /\ lost \subseteq lost' /\ lost' \subseteq Tcp
           /\ \A k \in DOMAIN ring : k \in DOMAIN ring' /\ ring'[k] = ring[k]
           /\ \A k \in DOMAIN ring' : k \in DOMAIN ring \/ (k = Len(ring) + 1 /\ ring'[k] = e)
           /\ (e.event = "ESTABLISHED" /\ e.s \in Tcp) =>
                  e.s \in lost' \/ (Len(ring) + 1 \in DOMAIN ring' /\ ring'[Len(ring) + 1] = e)
<1>1. ring \in Seq(Events) /\ lost \subseteq Tcp
  BY DEF TypeOK
<1>2. CASE Len(ring) < RingCap
  BY <1>1, <1>2, SMTT(30) DEF submit
<1>3. CASE ~(Len(ring) < RingCap)
  BY <1>1, <1>3 DEF submit
<1> QED
  BY <1>2, <1>3

\* Types.
LEMMA SocketType ==
    ASSUME TypeOK, SocketStep, UNCHANGED <<layer, block, socks, udp, ended>>,
           live' \in BOOLEAN, cpu' \in [CPUs -> Talks \cup {<<>>}]
    PROVE  TypeOK'
<1>1. PICK s \in AllSocks, did \in Socks, i \in Infos :
          Moves(s, did, i) /\ (Silent(s, did) \/ \E e \in Events : Says(s, did, e))
  BY Zenon DEF SocketStep
<1>2. sock' \in [AllSocks -> Socks] /\ info' \in [AllSocks -> Infos] /\ blind' \subseteq AllSocks
  BY <1>1 DEF Moves, TypeOK
<1>3. ring' \in Seq(Events) /\ lost' \subseteq Tcp
  <2>1. CASE Silent(s, did)
    BY <2>1 DEF Silent, TypeOK
  <2>2. CASE \E e \in Events : Says(s, did, e)
    BY <2>2, SubmitRing, Zenon DEF Says
  <2> QED
    BY <1>1, <2>1, <2>2
<1> QED
  BY <1>2, <1>3 DEF TypeOK

LEMMA SocketInfo ==
    ASSUME SockInv, CloseInv, SocketStep, UNCHANGED layer
    PROVE  InfoInv' /\ CloseInv'
<1>1. PICK s \in AllSocks, did \in Socks, i \in Infos :
          Moves(s, did, i) /\ (Silent(s, did) \/ \E e \in Events : Says(s, did, e))
  BY Zenon DEF SocketStep
<1>2. InfoInv'
  BY <1>1, Zenon DEF Moves, SockInv, TypeOK, InfoInv, NoInfo
<1>3. ASSUME NEW x \in Events, x.event = "CLOSE",
             sock[x.s].st \in {"closing", "gone"}, x.pid,
             x.s \notin blind => x.local = sock[x.s].local /\ x.remote = sock[x.s].remote
      PROVE  /\ sock'[x.s].st \in {"closing", "gone"}
             /\ x.s \notin blind' => x.local = sock'[x.s].local /\ x.remote = sock'[x.s].remote
  BY <1>1, <1>3, SMTT(30) DEF Moves, SockInv, TypeOK, Events
<1>4. CloseInv'
  <2> SUFFICES ASSUME NEW k \in DOMAIN ring', ring'[k].event = "CLOSE"
               PROVE  /\ layer' = "SOCKET"
                      /\ sock'[ring'[k].s].st \in {"closing", "gone"}
                      /\ ring'[k].pid
                      /\ ring'[k].s \notin blind' =>
                             /\ ring'[k].local = sock'[ring'[k].s].local
                             /\ ring'[k].remote = sock'[ring'[k].s].remote
    BY DEF CloseInv
  <2>1. CASE k \in DOMAIN ring /\ ring'[k] = ring[k]
    <3>1. ring[k] \in Events
      BY <2>1, SMTT(30) DEF SockInv, TypeOK
    <3>2. /\ layer = "SOCKET" /\ sock[ring[k].s].st \in {"closing", "gone"} /\ ring[k].pid
          /\ ring[k].s \notin blind =>
                 ring[k].local = sock[ring[k].s].local /\ ring[k].remote = sock[ring[k].s].remote
      BY <2>1, Zenon DEF CloseInv
    <3> QED
      BY <1>3, <2>1, <3>1, <3>2
  <2>2. ASSUME NEW e \in Events, Says(s, did, e), ring'[k] = e
        PROVE  /\ layer' = "SOCKET" /\ sock'[e.s].st \in {"closing", "gone"} /\ e.pid
               /\ e.s \notin blind' => e.local = sock'[e.s].local /\ e.remote = sock'[e.s].remote
    BY <1>1, <2>2 DEF Moves, Says, SockInv, TypeOK
  <2>3. CASE Silent(s, did)
    BY <2>1, <2>3 DEF Silent
  <2>4. CASE \E e \in Events : Says(s, did, e)
    <3>1. PICK e \in Events : Says(s, did, e)
      BY <2>4
    <3>2. (k \in DOMAIN ring /\ ring'[k] = ring[k]) \/ ring'[k] = e
      BY <3>1, SubmitRing DEF Says, SockInv
    <3> QED
      BY <2>1, <2>2, <3>1, <3>2
  <2> QED
    BY <1>1, <2>3, <2>4
<1> QED
  BY <1>2, <1>4

LEMMA SocketTcp ==
    ASSUME SockInv, SocketStep, UNCHANGED <<layer, udp>>,
           \A c \in CPUs : cpu'[c] \in {cpu[c], <<>>}
    PROVE  CpuInv' /\ TcpInv'
<1>1. PICK s \in AllSocks, did \in Socks, i \in Infos :
          Moves(s, did, i) /\ (Silent(s, did) \/ \E e \in Events : Says(s, did, e))
  BY Zenon DEF SocketStep
<1>2. \A x \in AllSocks : sock[x].st # "none" => sock'[x].st # "none"
  BY <1>1 DEF Moves, SockInv, TypeOK
<1>3. CpuInv'
  <2> SUFFICES ASSUME NEW c \in CPUs, cpu'[c] # <<>>
               PROVE  layer' = "FLOW" /\ sock'[cpu'[c][1]].st # "none"
    BY DEF CpuInv
  <2>1. cpu'[c] = cpu[c] /\ cpu[c] # <<>>
    OBVIOUS
  <2>2. cpu[c][1] \in AllSocks
    BY <2>1, EventAssumption, SMTT(30) DEF SockInv, TypeOK
  <2> QED
    BY <1>2, <2>1, <2>2 DEF SockInv, CpuInv
<1>4. \A x \in AllSocks :
        /\ sock'[x].tcp # "closed" => x \in Tcp
        /\ sock'[x].cb # "unset" => sock'[x].tcp \in {"established", "done"}
  BY <1>1 DEF Moves, SockInv, TypeOK, TcpInv
<1>5. ASSUME NEW k \in DOMAIN ring', ring'[k].event = "DELETED" PROVE ring'[k].s \in Tcp
  <2>1. CASE Silent(s, did)
    BY <1>5, <2>1 DEF Silent, SockInv, TcpInv
  <2>2. CASE \E e \in Events : Says(s, did, e)
    <3>1. PICK e \in Events : Says(s, did, e)
      BY <2>2
    <3>2. (k \in DOMAIN ring /\ ring'[k] = ring[k]) \/ ring'[k] = e
      BY <3>1, SubmitRing DEF Says, SockInv
    <3> QED
      BY <1>5, <3>1, <3>2, SMTT(30) DEF Says, SockInv, TcpInv
  <2> QED
    BY <1>1, <2>1, <2>2
<1> QED
  BY <1>3, <1>4, <1>5 DEF TcpInv, SockInv

\* What was announced stays announced.
LEMMA AnnouncedLonger ==
    ASSUME NEW f, NEW m \in Nat, NEW n \in Nat, m <= n, Announced(f, m)
    PROVE  Announced(f, n)
  BY SMTT(30) DEF Announced

LEMMA AnnouncedStays ==
    ASSUME NEW f, NEW n \in Nat, Announced(f, n),
           f \in Flows => ended'[f].est >= ended[f].est /\ ended[f].est \in Int /\ ended'[f].est \in Int,
           \A k \in 1 .. n : ring'[k] = ring[k],
           lost \subseteq lost',
           sock[f[1]].cb = "theirs" => sock'[f[1]].cb = "theirs"
    PROVE  Announced(f, n)'
  BY SMTT(30) DEF Announced, KeyOf

LEMMA SocketDeleted ==
    ASSUME SockInv, DeletedInv, SocketStep, UNCHANGED ended
    PROVE  DeletedInv'
<1>1. PICK s \in AllSocks, did \in Socks, i \in Infos :
          Moves(s, did, i) /\ (Silent(s, did) \/ \E e \in Events : Says(s, did, e))
  BY Zenon DEF SocketStep
<1>2. /\ ring \in Seq(Events) /\ ring' \in Seq(Events)
      /\ lost \subseteq lost'
      /\ \A k \in DOMAIN ring : k \in DOMAIN ring' /\ ring'[k] = ring[k]
  <2>1. CASE Silent(s, did)
    BY <2>1 DEF Silent, SockInv, TypeOK
  <2>2. CASE \E e \in Events : Says(s, did, e)
    BY <2>2, SubmitRing, Zenon DEF Says, SockInv, TypeOK
  <2> QED
    BY <1>1, <2>1, <2>2
<1>3. /\ Len(ring) \in Nat /\ Len(ring') \in Nat /\ Len(ring) <= Len(ring')
      /\ DOMAIN ring = 1 .. Len(ring) /\ DOMAIN ring' = 1 .. Len(ring')
  BY <1>2, SMTT(30)
<1>4. \A x \in AllSocks :
        /\ sock[x].cb = "theirs" => sock'[x].cb = "theirs"
        /\ sock[x].tcp = "done" => sock'[x].tcp = "done"
        /\ x # s => sock'[x] = sock[x]
  BY <1>1 DEF Moves, SockInv, TypeOK
<1>5. ASSUME NEW f, f[1] \in AllSocks, NEW n \in 0 .. Len(ring), Announced(f, n)
      PROVE  Announced(f, n)'
  <2>1. \A k \in 1 .. n : ring'[k] = ring[k]
    BY <1>2, <1>3, SMTT(30)
  <2>2. f \in Flows => ended'[f].est >= ended[f].est /\ ended[f].est \in Int /\ ended'[f].est \in Int
    BY SMTT(30) DEF SockInv, TypeOK
  <2> QED
    BY <1>2, <1>3, <1>4, <1>5, <2>1, <2>2, AnnouncedStays, SMTT(30)
<1>6. ASSUME NEW x \in Tcp \cap AllSocks, sock'[x].tcp = "established", sock'[x].cb = "ours"
      PROVE  Announced(<<x, sock[x].remote>>, Len(ring))'
  <2>1. PICK f : f = <<x, sock'[x].remote>>
    BY Zenon
  <2>2. CASE sock[x].tcp = "established" /\ sock[x].cb = "ours" /\ sock'[x].remote = sock[x].remote
    <3>1. Announced(f, Len(ring))
      BY <2>1, <2>2, Zenon DEF DeletedInv
    <3>2. PICK n : n = Len(ring)
      BY Zenon
    <3>3. Announced(f, n)'
      BY <1>3, <1>5, <2>1, <3>1, <3>2, SMTT(30) DEF Announced
    <3> QED
      BY <1>3, <2>1, <3>2, <3>3, SMTT(30) DEF Announced
  <2>3. CASE ~(sock[x].tcp = "established" /\ sock[x].cb = "ours" /\ sock'[x].remote = sock[x].remote)
    <3>1. x = s /\ sock'[x] = did
      BY <1>1, <1>4, <1>6, <2>3 DEF Moves, SockInv, TypeOK
    <3>2. PICK e \in Events : Says(s, did, e)
      BY <1>1, <1>6, <2>3, <3>1 DEF Silent
    <3>3. e.event = "ESTABLISHED" /\ KeyOf(e) = f /\ e.s = x
      BY <1>6, <2>1, <2>3, <3>1, <3>2 DEF Says, KeyOf
    <3>4. x \in lost' \/ (Len(ring) + 1 \in DOMAIN ring' /\ ring'[Len(ring) + 1] = e)
      BY <3>2, <3>3, SubmitRing DEF Says, SockInv
    <3>5. CASE x \in lost'
      BY <2>1, <3>5 DEF Announced
    <3>6. CASE Len(ring) + 1 \in DOMAIN ring' /\ ring'[Len(ring) + 1] = e
      BY <1>3, <2>1, <3>3, <3>6 DEF Announced, KeyOf
    <3> QED
      BY <3>4, <3>5, <3>6
  <2> QED
    BY <2>2, <2>3
<1>7. ASSUME NEW k \in DOMAIN ring', ring'[k].event = "DELETED"
      PROVE  /\ sock'[ring'[k].s].tcp = "done"
             /\ \A j \in DOMAIN ring' : (ring'[j].event = "DELETED" /\ ring'[j].s = ring'[k].s) => j = k
             /\ \A f \in Flows : f[1] = ring'[k].s => ended'[f].del = 0
             /\ Announced(KeyOf(ring[k]), k - 1)'
  <2>1. \A x \in DOMAIN ring :
          ring[x].event = "DELETED" =>
            /\ ring[x].s \in AllSocks /\ sock[ring[x].s].tcp = "done"
            /\ \A j \in DOMAIN ring : (ring[j].event = "DELETED" /\ ring[j].s = ring[x].s) => j = x
            /\ \A f \in Flows : f[1] = ring[x].s => ended[f].del = 0
            /\ Announced(KeyOf(ring[x]), x - 1)
    <3>1. \A x \in DOMAIN ring : ring[x].s \in AllSocks
      <4>1. \A x \in DOMAIN ring : ring[x] \in Events
        BY <1>2, <1>3, SMTT(30)
      <4> QED
        BY <4>1 DEF Events
    <3> QED
      BY <3>1, Zenon DEF DeletedInv
  <2>2. CASE Silent(s, did)
    <3>1. k \in DOMAIN ring /\ ring'[k] = ring[k] /\ ring' = ring
      BY <2>2 DEF Silent
    <3>2. PICK f, n : f = KeyOf(ring[k]) /\ n = k - 1
      OBVIOUS
    <3>3. f[1] \in AllSocks /\ n \in 0 .. Len(ring) /\ Announced(f, n)
      BY <1>3, <1>7, <2>1, <3>1, <3>2, SMTT(30) DEF KeyOf, Announced
    <3>4. Announced(f, n)'
      BY <1>5, <3>3
    <3>5. Announced(KeyOf(ring[k]), k - 1)'
      BY <3>1, <3>2, <3>4 DEF Announced, KeyOf
    <3> QED
      BY <1>4, <1>7, <2>1, <3>1, <3>5
  <2>3. CASE \E e \in Events : Says(s, did, e)
    <3>1. PICK e \in Events : Says(s, did, e)
      BY <2>3
    <3>2. \A x \in DOMAIN ring' : x \in DOMAIN ring \/ (x = Len(ring) + 1 /\ ring'[x] = e)
      BY <3>1, SubmitRing DEF Says, SockInv
    <3>3. e.s = s /\ (e.event = "DELETED" => s \in Tcp /\ sock[s].tcp = "established" /\ did.tcp = "done"
              /\ e.remote = sock[s].remote /\ (sock[s].cb = "ours" \/ did.cb = "theirs"))
      BY <3>1 DEF Says
    <3>4. CASE k \in DOMAIN ring
      <4>1. ring'[k] = ring[k]
        BY <1>2, <3>4
      <4>2. PICK f, n : f = KeyOf(ring[k]) /\ n = k - 1
        OBVIOUS
      <4>3. f[1] \in AllSocks /\ n \in 0 .. Len(ring) /\ Announced(f, n)
        BY <1>3, <1>7, <2>1, <3>4, <4>1, <4>2, SMTT(30) DEF KeyOf, Announced
      <4>4. Announced(f, n)'
        BY <1>5, <4>3
      <4>5. Announced(KeyOf(ring[k]), k - 1)'
        BY <4>1, <4>2, <4>4 DEF Announced, KeyOf
      <4>6. sock[ring[k].s].tcp = "done"
        BY <1>7, <2>1, <3>4, <4>1
      <4>7. ASSUME NEW j \in DOMAIN ring', ring'[j].event = "DELETED", ring'[j].s = ring'[k].s
            PROVE  j = k
        BY <1>2, <1>7, <2>1, <3>2, <3>3, <3>4, <4>1, <4>6, <4>7
      <4> QED
        BY <1>4, <1>7, <2>1, <3>4, <4>1, <4>5, <4>7, SMTT(30)
    <3>5. CASE k \notin DOMAIN ring
      <4>1. ring'[k] = e /\ k = Len(ring) + 1
        BY <3>2, <3>5
      <4>2. sock'[s] = did /\ s \in Tcp
        BY <1>1, <1>7, <3>3, <4>1 DEF Moves, SockInv, TypeOK
      <4>3. ASSUME NEW j \in DOMAIN ring', ring'[j].event = "DELETED", ring'[j].s = e.s
            PROVE  j = k
        BY <1>2, <1>7, <2>1, <3>2, <3>3, <4>1, <4>3, SMTT(30)
      <4>4. ASSUME NEW f \in Flows, f[1] = s PROVE ended'[f].del = 0
        BY <1>7, <3>3, <4>1, <4>2, <4>4 DEF DeletedInv
      <4>5. PICK f, n : f = <<s, sock[s].remote>> /\ n = Len(ring)
        BY Zenon
      <4>6. Announced(f, n)'
        <5>1. CASE sock[s].cb = "ours"
          <6>1. Announced(f, n)
            BY <1>7, <3>3, <4>1, <4>2, <4>5, <5>1, Zenon DEF DeletedInv
          <6> QED
            BY <1>3, <1>5, <4>5, <6>1, SMTT(30)
        <5>2. CASE did.cb = "theirs"
          BY <4>2, <4>5, <5>2 DEF Announced
        <5> QED
          BY <1>7, <3>3, <4>1, <5>1, <5>2
      <4>7. KeyOf(e) = f /\ n = k - 1
        BY <1>3, <1>7, <3>3, <4>1, <4>5, SMTT(30) DEF KeyOf
      <4>8. Announced(KeyOf(ring[k]), k - 1)'
        BY <4>1, <4>6, <4>7 DEF Announced, KeyOf
      <4> QED
        BY <1>7, <3>3, <4>1, <4>2, <4>3, <4>4, <4>8
    <3> QED
      BY <3>4, <3>5
  <2> QED
    BY <1>1, <2>2, <2>3
<1>8. ASSUME NEW f \in Flows, f[1] \in Tcp
      PROVE  /\ ended'[f].del \in {0, 1}
             /\ ended'[f].del = 1 => sock'[f[1]].tcp = "done" /\ Announced(f, 0)'
  <2>1. f[1] \in AllSocks
    BY DEF Flows
  <2>2. /\ ended[f].del \in {0, 1}
        /\ ended[f].del = 1 => sock[f[1]].tcp = "done" /\ Announced(f, 0)
    BY <1>8 DEF DeletedInv
  <2>3. 0 \in 0 .. Len(ring)
    BY <1>3, SMTT(30)
  <2> QED
    BY <1>4, <1>5, <2>1, <2>2, <2>3
<1> QED
  BY <1>6, <1>7, <1>8 DEF DeletedInv

-----------------------------------------------------------------------------
(***************************************************************************)
(* Swept, the loop that deletes entries of a table and fills the holes     *)
(* from its end.                                                           *)
(***************************************************************************)
\* Induction up to n, on a set: its least counterexample.
LEMMA InductionUpTo ==
    ASSUME NEW n \in Nat, NEW S, 0 \in S,
           \A k \in 0 .. (n - 1) : k \in S => k + 1 \in S
    PROVE  \A k \in 0 .. n : k \in S
<1> SUFFICES ASSUME NEW m \in 0 .. n, m \notin S PROVE FALSE
  OBVIOUS
<1> DEFINE T == {k \in Nat : k \in 0 .. n /\ k \notin S}
<1>1. T \subseteq Nat /\ T # {}
  BY m \in T
<1>2. PICK k \in T : \A j \in T : ~(<<j, k>> \in OpToRel(<, Nat))
  <2> HIDE DEF T
  <2> QED
    BY <1>1, NatLessThanWellFounded, WFMin, Zenon
<1>3. \A j \in T : ~(j < k)
  BY <1>1, <1>2, Zenon DEF OpToRel
<1>4. k # 0 /\ k \in Nat /\ k <= n
  BY SMTT(30)
<1>5. k - 1 \in S
  BY <1>3, <1>4, SMTT(30)
<1> QED
  BY <1>4, <1>5, SMTT(30)

IsSweep(f, t, gone, m) ==
    f = [n \in 0 .. m |->
           IF n = 0 THEN <<t, 1>> ELSE SweepTurn(f[n - 1][1], f[n - 1][2], gone)]
SweepOf(t, gone, m) == CHOOSE f : IsSweep(f, t, gone, m)

\* The recursion defines a function.
LEMMA SweepExists ==
    ASSUME NEW t, NEW gone, Len(t) \in Nat
    PROVE  /\ Swept(t, gone) = SweepOf(t, gone, Len(t))[Len(t)][1]
           /\ SweepOf(t, gone, Len(t))[0] = <<t, 1>>
           /\ \A n \in 0 .. (Len(t) - 1) :
                  SweepOf(t, gone, Len(t))[n + 1] =
                      SweepTurn(SweepOf(t, gone, Len(t))[n][1], SweepOf(t, gone, Len(t))[n][2], gone)
<1> DEFINE S == {m \in Nat : \E f : IsSweep(f, t, gone, m)}
<1>1. 0 \in S
  <2>1. PICK f : f = [n \in 0 .. 0 |-> <<t, 1>>]
    BY Zenon
  <2>2. IsSweep(f, t, gone, 0)
    BY <2>1, SMTT(30) DEF IsSweep
  <2> QED
    BY <2>2
<1>2. ASSUME NEW k \in 0 .. (Len(t) - 1), k \in S PROVE k + 1 \in S
  <2>1. PICK f : IsSweep(f, t, gone, k)
    BY <1>2
  <2>2. PICK g : g = [n \in 0 .. (k + 1) |->
                        IF n = k + 1 THEN SweepTurn(f[k][1], f[k][2], gone) ELSE f[n]]
    BY Zenon
  <2>3. k \in Nat
    BY SMTT(30)
  <2>4. \A n \in 0 .. k :
          f[n] = IF n = 0 THEN <<t, 1>> ELSE SweepTurn(f[n - 1][1], f[n - 1][2], gone)
    BY ONLY <2>1, <2>3, Zenon DEF IsSweep
  <2>5. \A n \in 0 .. (k + 1) :
          g[n] = IF n = 0 THEN <<t, 1>> ELSE SweepTurn(g[n - 1][1], g[n - 1][2], gone)
    BY <2>2, <2>3, <2>4, Z3T(60)
  <2>6. IsSweep(g, t, gone, k + 1)
    BY <2>2, <2>5, Zenon DEF IsSweep
  <2> QED
    BY <2>3, <2>6, SMTT(30)
<1>3. Len(t) \in S
  <2> HIDE DEF S
  <2>1. \A k \in 0 .. Len(t) : k \in S
    BY <1>1, <1>2, InductionUpTo
  <2> QED
    BY <2>1, SMTT(30)
<1>4. PICK f : f = SweepOf(t, gone, Len(t))
  OBVIOUS
<1>5. IsSweep(f, t, gone, Len(t))
  BY <1>3, <1>4, Zenon DEF SweepOf
<1>6. Swept(t, gone) = f[Len(t)][1]
  BY <1>4, Zenon DEF Swept, SweepOf, IsSweep
<1>7. \A n \in 0 .. Len(t) :
        f[n] = IF n = 0 THEN <<t, 1>> ELSE SweepTurn(f[n - 1][1], f[n - 1][2], gone)
  BY <1>5, Zenon DEF IsSweep
<1>8. f[0] = <<t, 1>> /\ \A n \in 0 .. (Len(t) - 1) : f[n + 1] = SweepTurn(f[n][1], f[n][2], gone)
  BY <1>7, SMTT(30)
<1> QED
  BY <1>4, <1>6, <1>8

\* The places of a table that hold one of V.
At(t, V) == {j \in 1 .. Len(t) : t[j] \in V}

\* The loop's invariant: after n turns tab is left and entry at is next.  What
\* was passed stays, nothing else came in, and no entry that stays was lost or
\* duplicated.
SweepInv(T, V, t, gone, n, tab, at) ==
    /\ tab \in Seq(T) /\ at \in Nat /\ at >= 1
    /\ Len(tab) - at + 1 = Len(t) - n
    /\ Len(tab) <= Len(t)
    /\ \A j \in 1 .. (at - 1) : tab[j] \notin gone
    /\ \A j \in 1 .. Len(tab) : \E k \in 1 .. Len(t) : tab[j] = t[k]
    /\ \A k \in 1 .. Len(t) : t[k] \notin gone => \E j \in 1 .. Len(tab) : tab[j] = t[k]
    /\ Cardinality(At(tab, V)) = Cardinality(At(t, V))

LEMMA AtFinite ==
    ASSUME NEW T, NEW t \in Seq(T), NEW V
    PROVE  IsFiniteSet(At(t, V)) /\ Cardinality(At(t, V)) \in Nat
<1>1. IsFiniteSet(1 .. Len(t))
  BY FS_Interval, SMTT(30)
<1>2. At(t, V) \subseteq 1 .. Len(t)
  BY DEF At
<1> QED
  BY <1>1, <1>2, FS_Subset, FS_CardinalityType, Zenon

\* Filling the hole at i from the end.
Filled(t, i) == SubSeq([t EXCEPT ![i] = t[Len(t)]], 1, Len(t) - 1)

LEMMA FillHole ==
    ASSUME NEW T, NEW t \in Seq(T), NEW V, NEW i \in 1 .. Len(t), t[i] \notin V,
           NEW u, u = Filled(t, i)
    PROVE  /\ u \in Seq(T) /\ Len(u) = Len(t) - 1
           /\ \A j \in 1 .. Len(u) : u[j] = IF j = i THEN t[Len(t)] ELSE t[j]
           /\ Cardinality(At(u, V)) = Cardinality(At(t, V))
<1>1. PICK w : w = [t EXCEPT ![i] = t[Len(t)]]
  BY Zenon
<1>2. w \in Seq(T) /\ Len(w) = Len(t) /\ \A j \in 1 .. Len(t) : w[j] = IF j = i THEN t[Len(t)] ELSE t[j]
  BY <1>1, SMTT(30)
<1>3. u = SubSeq(w, 1, Len(t) - 1)
  BY <1>1 DEF Filled
<1>4. /\ u \in Seq(T) /\ Len(u) = Len(t) - 1
      /\ \A j \in 1 .. Len(u) : u[j] = IF j = i THEN t[Len(t)] ELSE t[j]
  BY <1>2, <1>3, SMTT(30)
<1>5. PICK A, B, n : A = At(t, V) /\ B = At(u, V) /\ n = Len(t)
  OBVIOUS
<1>6. IsFiniteSet(A) /\ Cardinality(A) \in Nat
  BY <1>5, AtFinite
<1>7. CASE i = n \/ t[n] \notin V
  <2>1. A = B
    BY <1>4, <1>5, <1>7, SMTT(30) DEF At
  <2> QED
    BY <1>4, <1>5, <2>1
<1>8. CASE i # n /\ t[n] \in V
  <2>1. n \in A /\ i \notin A /\ B = (A \ {n}) \cup {i} /\ i \notin A \ {n}
    BY <1>4, <1>5, <1>8, SMTT(30) DEF At
  <2>2. IsFiniteSet(A \ {n}) /\ Cardinality(A \ {n}) = Cardinality(A) - 1
    BY <1>6, <2>1, FS_RemoveElement
  <2>3. Cardinality(B) = Cardinality(A \ {n}) + 1
    BY <2>1, <2>2, FS_AddElement, Zenon
  <2> QED
    BY <1>4, <1>5, <1>6, <2>2, <2>3, SMTT(30)
<1> QED
  BY <1>7, <1>8

LEMMA TurnKeeps ==
    ASSUME NEW T, NEW t \in Seq(T), NEW gone, NEW V, V \cap gone = {},
           NEW n \in 0 .. (Len(t) - 1), NEW tab, NEW at, SweepInv(T, V, t, gone, n, tab, at),
           NEW p, p = SweepTurn(tab, at, gone)
    PROVE  SweepInv(T, V, t, gone, n + 1, p[1], p[2])
<1>1. /\ tab \in Seq(T) /\ at \in 1 .. Len(tab) /\ Len(tab) \in Nat /\ Len(t) \in Nat
      /\ Len(tab) - at + 1 = Len(t) - n /\ Len(tab) <= Len(t)
  BY SMTT(30) DEF SweepInv
<1>2. CASE tab[at] \notin gone
  <2>1. p[1] = tab /\ p[2] = at + 1
    BY <1>1, <1>2, SMTT(30) DEF SweepTurn
  <2> QED
    BY <1>1, <1>2, <2>1, SMTT(30) DEF SweepInv
<1>3. CASE tab[at] \in gone
  <2>1. p[1] = SubSeq([tab EXCEPT ![at] = tab[Len(tab)]], 1, Len(tab) - 1) /\ p[2] = at
    BY <1>1, <1>3, SMTT(30) DEF SweepTurn
  <2>2. PICK u : u = p[1]
    OBVIOUS
  <2>3. /\ u \in Seq(T) /\ Len(u) = Len(tab) - 1
        /\ \A j \in 1 .. Len(u) : u[j] = IF j = at THEN tab[Len(tab)] ELSE tab[j]
        /\ Cardinality(At(u, V)) = Cardinality(At(tab, V))
    <3>1. tab[at] \notin V
      BY <1>3
    <3>2. u = Filled(tab, at)
      BY <2>1, <2>2 DEF Filled
    <3> QED
      BY ONLY <1>1, <3>1, <3>2, FillHole
  <2>4. \A j \in 1 .. (at - 1) : u[j] \notin gone
    BY <1>1, <2>3, SMTT(30) DEF SweepInv
  <2>5. \A j \in 1 .. Len(u) : \E k \in 1 .. Len(t) : u[j] = t[k]
    <3>1. \A j \in 1 .. Len(u) : \E m \in 1 .. Len(tab) : u[j] = tab[m]
      BY <1>1, <2>3, SMTT(30)
    <3> QED
      BY <3>1, SMTT(30) DEF SweepInv
  <2>6. ASSUME NEW k \in 1 .. Len(t), t[k] \notin gone PROVE \E j \in 1 .. Len(u) : u[j] = t[k]
    <3>1. PICK m \in 1 .. Len(tab) : tab[m] = t[k]
      BY <2>6 DEF SweepInv
    <3>2. m # at
      BY <1>3, <2>6, <3>1
    <3>3. CASE m = Len(tab)
      BY <1>1, <2>3, <3>1, <3>2, <3>3, at \in 1 .. Len(u)
    <3>4. CASE m # Len(tab)
      BY <1>1, <2>3, <3>1, <3>2, <3>4, m \in 1 .. Len(u)
    <3> QED
      BY <3>3, <3>4
  <2> QED
    BY <1>1, <2>1, <2>2, <2>3, <2>4, <2>5, <2>6, SMTT(30) DEF SweepInv
<1> QED
  BY <1>2, <1>3

\* Every entry of u is one of t; every entry of t that is not gone is one of u.
From(u, t) == \A j \in 1 .. Len(u) : \E k \in 1 .. Len(t) : u[j] = t[k]
Keeps(u, t, gone) ==
    \A k \in 1 .. Len(t) : t[k] \notin gone => \E j \in 1 .. Len(u) : u[j] = t[k]

\* The loop deletes what it should and nothing else.
LEMMA SweptIs ==
    ASSUME NEW T, NEW t \in Seq(T), NEW gone, NEW V, V \cap gone = {},
           NEW u, u = Swept(t, gone)
    PROVE  /\ u \in Seq(T) /\ Len(u) <= Len(t)
           /\ \A j \in 1 .. Len(u) : u[j] \notin gone
           /\ From(u, t) /\ Keeps(u, t, gone)
           /\ Cardinality(At(u, V)) = Cardinality(At(t, V))
<1>1. Len(t) \in Nat
  BY SMTT(30)
<1>2. PICK f : f = SweepOf(t, gone, Len(t))
  OBVIOUS
<1>3. /\ u = f[Len(t)][1] /\ f[0] = <<t, 1>>
      /\ \A n \in 0 .. (Len(t) - 1) : f[n + 1] = SweepTurn(f[n][1], f[n][2], gone)
  BY <1>1, <1>2, SweepExists
<1> DEFINE S == {n \in Nat : SweepInv(T, V, t, gone, n, f[n][1], f[n][2])}
<1>4. 0 \in S
  BY <1>1, <1>3, SMTT(30) DEF SweepInv
<1>5. ASSUME NEW k \in 0 .. (Len(t) - 1), k \in S PROVE k + 1 \in S
  <2>1. SweepInv(T, V, t, gone, k, f[k][1], f[k][2])
    BY <1>5
  <2>2. SweepInv(T, V, t, gone, k + 1, f[k + 1][1], f[k + 1][2])
    BY <1>3, <2>1, TurnKeeps
  <2> QED
    BY <1>1, <2>2, SMTT(30)
<1>6. Len(t) \in S
  <2> HIDE DEF S
  <2>1. \A k \in 0 .. Len(t) : k \in S
    BY <1>1, <1>4, <1>5, InductionUpTo
  <2> QED
    BY <1>1, <2>1, SMTT(30)
<1>7. SweepInv(T, V, t, gone, Len(t), u, f[Len(t)][2])
  BY <1>3, <1>6
<1> QED
  BY <1>1, <1>7, Z3T(60) DEF SweepInv, From, Keeps

-----------------------------------------------------------------------------
(***************************************************************************)
(* Count, the entries of a flow in the table.                              *)
(***************************************************************************)
OfFlow(f) == {e \in Events : KeyOf(e) = f}

LEMMA CountIs ==
    ASSUME NEW t \in Seq(Events), NEW f
    PROVE  Count(t, f) = Cardinality(At(t, OfFlow(f))) /\ Count(t, f) \in Nat
<1>1. {i \in DOMAIN t : KeyOf(t[i]) = f} = At(t, OfFlow(f))
  <2>1. DOMAIN t = 1 .. Len(t) /\ \A i \in 1 .. Len(t) : t[i] \in Events
    BY SMTT(30)
  <2> QED
    BY <2>1 DEF At, OfFlow
<1>2. Cardinality(At(t, OfFlow(f))) \in Nat
  BY AtFinite
<1> QED
  BY <1>1, <1>2 DEF Count

LEMMA CountNone ==
    ASSUME NEW t \in Seq(Events), NEW f, \A i \in 1 .. Len(t) : KeyOf(t[i]) # f
    PROVE  Count(t, f) = 0
<1>1. {i \in DOMAIN t : KeyOf(t[i]) = f} = {}
  <2>1. DOMAIN t = 1 .. Len(t)
    BY SMTT(30)
  <2> QED
    BY <2>1
<1> QED
  BY <1>1, FS_EmptySet, Zenon DEF Count

LEMMA CountAppend ==
    ASSUME NEW t \in Seq(Events), NEW e \in Events, NEW f
    PROVE  Count(Append(t, e), f) = Count(t, f) + (IF KeyOf(e) = f THEN 1 ELSE 0)
<1>1. PICK V, u, A, B : V = OfFlow(f) /\ u = Append(t, e) /\ A = At(t, V) /\ B = At(u, V)
  BY Zenon
<1>2. u \in Seq(Events) /\ Len(u) = Len(t) + 1 /\ Len(t) \in Nat /\ u[Len(t) + 1] = e
      /\ \A i \in 1 .. Len(t) : u[i] = t[i]
  BY <1>1, SMTT(30)
<1>3. IsFiniteSet(A) /\ Cardinality(A) \in Nat
  BY <1>1, AtFinite
<1>4. Count(t, f) = Cardinality(A) /\ Count(u, f) = Cardinality(B)
  BY <1>1, <1>2, CountIs, Zenon
<1>5. CASE KeyOf(e) = f
  <2>1. e \in V
    BY <1>1, <1>5 DEF OfFlow
  <2>2. B = A \cup {Len(t) + 1} /\ Len(t) + 1 \notin A
    BY <1>1, <1>2, <2>1, SMTT(30) DEF At
  <2>3. Cardinality(B) = Cardinality(A) + 1
    BY <1>3, <2>2, FS_AddElement, Zenon
  <2> QED
    BY <1>1, <1>4, <1>5, <2>3
<1>6. CASE KeyOf(e) # f
  <2>1. e \notin V
    BY <1>1, <1>6 DEF OfFlow
  <2>2. B = A
    BY <1>1, <1>2, <2>1, SMTT(30) DEF At
  <2> QED
    BY <1>1, <1>3, <1>4, <1>6, <2>2, SMTT(30)
<1> QED
  BY <1>5, <1>6

\* The oldest h entries go.
LEMMA CountSuffix ==
    ASSUME NEW t \in Seq(Events), NEW h \in 0 .. Len(t), NEW f
    PROVE  /\ SubSeq(t, h + 1, Len(t)) \in Seq(Events)
           /\ Len(SubSeq(t, h + 1, Len(t))) = Len(t) - h
           /\ Cardinality({i \in 1 .. h : KeyOf(t[i]) = f}) \in Nat
           /\ Count(t, f) = Count(SubSeq(t, h + 1, Len(t)), f)
                              + Cardinality({i \in 1 .. h : KeyOf(t[i]) = f})
<1>1. PICK V, u, A, B, L : /\ V = OfFlow(f) /\ u = SubSeq(t, h + 1, Len(t))
                           /\ A = At(t, V) /\ B = At(u, V) /\ L = {i \in 1 .. h : KeyOf(t[i]) = f}
  BY Zenon
<1>2. /\ Len(t) \in Nat /\ h \in Nat /\ h <= Len(t)
      /\ u \in Seq(Events) /\ Len(u) = Len(t) - h /\ \A i \in 1 .. Len(u) : u[i] = t[i + h]
  BY <1>1, SMTT(30)
<1>3. IsFiniteSet(A) /\ Cardinality(A) \in Nat /\ IsFiniteSet(B) /\ Cardinality(B) \in Nat
  BY <1>1, <1>2, AtFinite, Zenon
<1>4. Count(t, f) = Cardinality(A) /\ Count(u, f) = Cardinality(B)
  BY <1>1, <1>2, CountIs, Zenon
<1>5. PICK H : H = {i \in A : i > h}
  BY Zenon
<1>6. L = {i \in A : i <= h}
  <2>1. \A i \in 1 .. Len(t) : t[i] \in Events
    BY SMTT(30)
  <2> QED
    BY <1>1, <1>2, <2>1, SMTT(30) DEF At, OfFlow
<1>7. A = L \cup H /\ L \cap H = {} /\ L \subseteq A /\ H \subseteq A
  BY <1>1, <1>2, <1>5, <1>6, SMTT(30) DEF At
<1>8. IsFiniteSet(L) /\ IsFiniteSet(H) /\ Cardinality(L) \in Nat /\ Cardinality(H) \in Nat
  BY <1>3, <1>7, FS_Subset, FS_CardinalityType, Zenon
<1>9. Cardinality(A) = Cardinality(L) + Cardinality(H)
  <2>1. Cardinality(L \cup H) = Cardinality(L) + Cardinality(H) - Cardinality(L \cap H)
    BY <1>8, FS_Union, Zenon
  <2>2. Cardinality(L \cap H) = 0
    BY <1>7, FS_EmptySet, Zenon
  <2> QED
    BY <1>7, <1>8, <2>1, <2>2, SMTT(30)
<1>10. Cardinality(H) = Cardinality(B)
  <2>1. PICK g : g = [i \in B |-> i + h]
    BY Zenon
  <2>2. \A i \in B : i \in Nat /\ i + h \in H
    BY <1>1, <1>2, <1>5, SMTT(30) DEF At
  <2>3. \A j \in H : j \in Nat /\ j - h \in B
    BY <1>1, <1>2, <1>5, SMTT(30) DEF At
  <2>4. g \in [B -> H]
    BY <2>1, <2>2
  <2>5. \A a, b \in B : g[a] = g[b] => a = b
    BY <1>2, <2>1, <2>2, SMTT(30)
  <2>6. \A j \in H : \E i \in B : g[i] = j
    <3> SUFFICES ASSUME NEW j \in H PROVE \E i \in B : g[i] = j
      OBVIOUS
    <3>1. j - h \in B /\ g[j - h] = j
      BY <1>2, <2>1, <2>3, SMTT(30)
    <3> QED
      BY <3>1
  <2>7. g \in Bijection(B, H)
    BY <2>4, <2>5, <2>6, Zenon DEF Bijection, Injection, Surjection, IsInjective
  <2> QED
    BY <1>3, <2>7, FS_Bijection, Zenon DEF ExistsBijection
<1> QED
  BY <1>1, <1>2, <1>3, <1>4, <1>8, <1>9, <1>10, SMTT(30)

-----------------------------------------------------------------------------
(***************************************************************************)
(* event_callback.                                                         *)
(***************************************************************************)
LEMMA TailRing ==
    ASSUME TypeOK, event_callback
    PROVE  /\ Len(ring) \in Nat /\ Len(ring) >= 1 /\ DOMAIN ring = 1 .. Len(ring)
           /\ ring' \in Seq(Events) /\ Len(ring') = Len(ring) - 1 /\ DOMAIN ring' = 1 .. Len(ring')
           /\ Head(ring) = ring[1] /\ Head(ring) \in Events
           /\ \A k \in 1 .. Len(ring') : ring'[k] = ring[k + 1] /\ k + 1 \in 1 .. Len(ring)
<1>1. ring \in Seq(Events) /\ ring # <<>> /\ ring' = Tail(ring)
  BY DEF TypeOK, event_callback
<1> QED
  BY <1>1, SMTT(30)

\* udp_track takes the event in; what it forgets is on record.
LEMMA TrackStep ==
    ASSUME TypeOK, NEW e \in Events, udp_track(e)
    PROVE  /\ udp' \in Seq(Events) /\ Len(udp') <= UDP_TRACK_MAX
           /\ \A k \in 1 .. Len(udp') : udp'[k] = e \/ \E j \in 1 .. Len(udp) : udp'[k] = udp[j]
           /\ ended' \in [Flows -> [est : Nat, del : Int, forgotten : Nat]]
           /\ \A f \in Flows :
                  /\ ended'[f].est = ended[f].est + (IF f = KeyOf(e) THEN 1 ELSE 0)
                  /\ ended'[f].del = ended[f].del
                  /\ Count(udp', f) + ended'[f].forgotten =
                         Count(udp, f) + ended[f].forgotten + (IF f = KeyOf(e) THEN 1 ELSE 0)
<1>1. PICK half : half = UDP_TRACK_MAX \div 2
  OBVIOUS
<1>2. half \in Nat /\ half >= 1 /\ UDP_TRACK_MAX = half + half
  BY <1>1, EventAssumption, SMTT(30)
<1>3. PICK h : h = IF Len(udp) = UDP_TRACK_MAX THEN half ELSE 0
  OBVIOUS
<1>4. udp \in Seq(Events) /\ Len(udp) \in Nat /\ Len(udp) <= UDP_TRACK_MAX /\ h \in 0 .. Len(udp)
      /\ Len(udp) - h + 1 <= UDP_TRACK_MAX
  BY <1>2, <1>3, SMTT(30) DEF TypeOK
<1>5. PICK u : u = SubSeq(udp, h + 1, Len(udp))
  BY Zenon
<1>6. /\ u \in Seq(Events) /\ Len(u) = Len(udp) - h
      /\ \A f : /\ Cardinality({i \in 1 .. h : KeyOf(udp[i]) = f}) \in Nat
                /\ Count(udp, f) = Count(u, f) + Cardinality({i \in 1 .. h : KeyOf(udp[i]) = f})
  BY <1>4, <1>5, CountSuffix
<1>7. h = 0 => u = udp
  BY <1>4, <1>5, SMTT(30)
<1>8. udp' = Append(u, e)
  BY <1>1, <1>3, <1>5, <1>7, Zenon DEF udp_track
<1>9. udp' \in Seq(Events) /\ Len(udp') <= UDP_TRACK_MAX
  BY <1>4, <1>6, <1>8, SMTT(30)
<1>10. \A k \in 1 .. Len(udp') : udp'[k] = e \/ \E j \in 1 .. Len(udp) : udp'[k] = udp[j]
  <2>1. \A k \in 1 .. Len(u) : u[k] = udp[k + h] /\ k + h \in 1 .. Len(udp)
    BY <1>4, <1>5, <1>6, SMTT(30)
  <2>2. \A k \in 1 .. Len(udp') : udp'[k] = e \/ (k \in 1 .. Len(u) /\ udp'[k] = u[k])
    BY <1>6, <1>8, SMTT(30)
  <2> QED
    BY <2>1, <2>2
<1>11. PICK Out : Out = [f \in Flows |-> Cardinality({i \in 1 .. h : KeyOf(udp[i]) = f})]
  BY Zenon
<1>12. ended' = [f \in Flows |-> [ended[f] EXCEPT !.est = @ + (IF f = KeyOf(e) THEN 1 ELSE 0),
                                                  !.forgotten = @ + Out[f]]]
  <2>1. \A f \in Flows : Out[f] = IF Len(udp) = UDP_TRACK_MAX
                                   THEN Cardinality({i \in 1 .. half : KeyOf(udp[i]) = f}) ELSE 0
    <3>1. CASE Len(udp) = UDP_TRACK_MAX
      BY <1>3, <1>11, <3>1
    <3>2. CASE Len(udp) # UDP_TRACK_MAX
      <4>1. \A f : {i \in 1 .. h : KeyOf(udp[i]) = f} = {}
        BY <1>3, <3>2, SMTT(30)
      <4> QED
        BY <1>11, <3>2, <4>1, FS_EmptySet
    <3> QED
      BY <3>1, <3>2, ZenonT(40)
  <2>2. ended' = [f \in Flows |->
                    [ended[f] EXCEPT !.est = @ + (IF f = KeyOf(e) THEN 1 ELSE 0),
                                     !.forgotten = @ + (IF Len(udp) = UDP_TRACK_MAX
                                         THEN Cardinality({i \in 1 .. half : KeyOf(udp[i]) = f}) ELSE 0)]]
    BY <1>1, ZenonT(40) DEF udp_track
  <2> QED
    BY <2>1, <2>2, Zenon
<1>13. ASSUME NEW f \in Flows
       PROVE  /\ ended[f] \in [est : Nat, del : Int, forgotten : Nat]
              /\ Out[f] \in Nat /\ Count(udp, f) = Count(u, f) + Out[f] /\ Count(u, f) \in Nat
              /\ Count(udp', f) = Count(u, f) + (IF f = KeyOf(e) THEN 1 ELSE 0)
              /\ ended'[f] = [ended[f] EXCEPT !.est = @ + (IF f = KeyOf(e) THEN 1 ELSE 0),
                                              !.forgotten = @ + Out[f]]
  <2>1. ended[f] \in [est : Nat, del : Int, forgotten : Nat]
    BY DEF TypeOK
  <2>2. Out[f] \in Nat /\ Count(udp, f) = Count(u, f) + Out[f]
    BY <1>6, <1>11, Zenon
  <2>3. Count(u, f) \in Nat
    BY <1>6, CountIs
  <2>4. Count(udp', f) = Count(u, f) + (IF f = KeyOf(e) THEN 1 ELSE 0)
    BY <1>6, <1>8, CountAppend
  <2> QED
    BY <1>12, <2>1, <2>2, <2>3, <2>4, Zenon
<1>14. \A f \in Flows :
         /\ ended'[f] \in [est : Nat, del : Int, forgotten : Nat]
         /\ ended'[f].est = ended[f].est + (IF f = KeyOf(e) THEN 1 ELSE 0)
         /\ ended'[f].del = ended[f].del
         /\ ended'[f].forgotten = ended[f].forgotten + Out[f]
  <2> SUFFICES ASSUME NEW f \in Flows
               PROVE  /\ ended'[f] \in [est : Nat, del : Int, forgotten : Nat]
                      /\ ended'[f].est = ended[f].est + (IF f = KeyOf(e) THEN 1 ELSE 0)
                      /\ ended'[f].del = ended[f].del
                      /\ ended'[f].forgotten = ended[f].forgotten + Out[f]
    OBVIOUS
  <2>1. PICK x, y, c : x = ended[f] /\ y = ended'[f] /\ c = IF f = KeyOf(e) THEN 1 ELSE 0
    OBVIOUS
  <2>2. x \in [est : Nat, del : Int, forgotten : Nat] /\ c \in Nat /\ Out[f] \in Nat
    BY <1>13, <2>1, ZenonT(40)
  <2>3. y = [x EXCEPT !.est = @ + c, !.forgotten = @ + Out[f]]
    BY <1>13, <2>1, Zenon
  <2>4. /\ y \in [est : Nat, del : Int, forgotten : Nat]
        /\ y.est = x.est + c /\ y.del = x.del /\ y.forgotten = x.forgotten + Out[f]
    <3>1. x.est \in Nat /\ x.del \in Int /\ x.forgotten \in Nat
      BY ONLY <2>2
    <3>2. y = [est |-> x.est + c, del |-> x.del, forgotten |-> x.forgotten + Out[f]]
      BY ONLY <2>2, <2>3, Zenon
    <3> QED
      BY ONLY <2>2, <3>1, <3>2
  <2> QED
    BY <2>1, <2>4
<1>15. ended' \in [Flows -> [est : Nat, del : Int, forgotten : Nat]]
  BY <1>12, <1>14, ZenonT(40)
<1>16. \A f \in Flows :
         Count(udp', f) + ended'[f].forgotten =
             Count(udp, f) + ended[f].forgotten + (IF f = KeyOf(e) THEN 1 ELSE 0)
  <2> SUFFICES ASSUME NEW f \in Flows
               PROVE  Count(udp', f) + ended'[f].forgotten =
                          Count(udp, f) + ended[f].forgotten + (IF f = KeyOf(e) THEN 1 ELSE 0)
    OBVIOUS
  <2>1. PICK c : c = IF f = KeyOf(e) THEN 1 ELSE 0
    OBVIOUS
  <2>2. c \in Nat /\ Out[f] \in Nat /\ Count(u, f) \in Nat /\ ended[f].forgotten \in Nat
    <3>1. Out[f] \in Nat /\ Count(u, f) \in Nat /\ ended[f] \in [est : Nat, del : Int, forgotten : Nat]
      BY <1>13, Zenon
    <3> QED
      BY ONLY <2>1, <3>1
  <2>3. /\ Count(udp, f) = Count(u, f) + Out[f] /\ Count(udp', f) = Count(u, f) + c
        /\ ended'[f].forgotten = ended[f].forgotten + Out[f]
    BY <1>13, <1>14, <2>1, Zenon
  <2>4. Count(udp', f) + ended'[f].forgotten = Count(udp, f) + ended[f].forgotten + c
    BY ONLY <2>2, <2>3
  <2> QED
    BY <2>1, <2>4
<1> QED
  BY <1>9, <1>10, <1>14, <1>15, <1>16

\* udp_release reports every flow of the socket and leaves the others alone.
LEMMA ReleaseSweeps ==
    ASSUME TypeOK, NEW s, udp_release(s)
    PROVE  /\ udp' \in Seq(Events) /\ Len(udp') <= UDP_TRACK_MAX
           /\ \A k \in 1 .. Len(udp') : \E j \in 1 .. Len(udp) : udp'[k] = udp[j]
           /\ \A f \in Flows : Count(udp', f) = IF f[1] = s THEN 0 ELSE Count(udp, f)
           /\ ended' \in [Flows -> [est : Nat, del : Int, forgotten : Nat]]
           /\ \A f \in Flows :
                  /\ ended'[f].est = ended[f].est /\ ended'[f].forgotten = ended[f].forgotten
                  /\ ended'[f].del = ended[f].del + Count(udp, f) - Count(udp', f)
<1>1. udp \in Seq(Events) /\ Len(udp) \in Nat /\ Len(udp) <= UDP_TRACK_MAX
      /\ \A j \in 1 .. Len(udp) : udp[j] \in Events
  BY SMTT(30) DEF TypeOK
<1>2. PICK gone : gone = {e \in Range(udp) : e.s = s}
  BY Zenon
<1>3. \A j \in 1 .. Len(udp) : udp[j] \in gone <=> udp[j].s = s
  BY <1>1, <1>2, SMTT(30) DEF Range
<1>4. udp' = Swept(udp, gone)
  BY <1>2 DEF udp_release
<1>5. /\ udp' \in Seq(Events) /\ Len(udp') <= Len(udp)
      /\ \A k \in 1 .. Len(udp') : udp'[k] \notin gone /\ \E j \in 1 .. Len(udp) : udp'[k] = udp[j]
  <2>1. PICK V : V \cap gone = {}
    BY {} \cap gone = {}
  <2>2. udp \in Seq(Events)
    BY <1>1
  <2>3. udp' \in Seq(Events) /\ Len(udp') <= Len(udp)
    BY ONLY <1>4, <2>1, <2>2, SweptIs, Zenon
  <2>4. ASSUME NEW k \in 1 .. Len(udp') PROVE udp'[k] \notin gone
    BY ONLY <1>4, <2>1, <2>2, <2>3, <2>4, SweptIs, Zenon
  <2>5. From(udp', udp)
    BY ONLY <1>4, <2>1, <2>2, SweptIs, ZenonT(40)
  <2> QED
    BY <2>3, <2>4, <2>5, Zenon DEF From
<1>6. ASSUME NEW f \in Flows PROVE Count(udp', f) = IF f[1] = s THEN 0 ELSE Count(udp, f)
  <2>1. CASE f[1] = s
    <3>1. \A k \in 1 .. Len(udp') : KeyOf(udp'[k]) # f
      BY <1>3, <1>5, <2>1, SMTT(30) DEF KeyOf
    <3> QED
      BY <1>5, <2>1, <3>1, CountNone
  <2>2. CASE f[1] # s
    <3>1. OfFlow(f) \cap gone = {}
      BY <1>2, <2>2, SMTT(30) DEF OfFlow, KeyOf
    <3>2. Cardinality(At(udp', OfFlow(f))) = Cardinality(At(udp, OfFlow(f)))
      BY ONLY <1>1, <1>4, <3>1, SweptIs
    <3> QED
      BY <1>1, <1>5, <2>2, <3>2, CountIs
  <2> QED
    BY <2>1, <2>2
<1>7. ASSUME NEW f \in Flows
      PROVE  /\ ended[f] \in [est : Nat, del : Int, forgotten : Nat]
             /\ Count(udp, f) \in Nat /\ Count(udp', f) \in Nat
             /\ ended'[f] = [ended[f] EXCEPT !.del = @ + Count(udp, f) - Count(udp', f)]
  BY <1>1, <1>5, CountIs DEF TypeOK, udp_release
<1>8. \A f \in Flows :
        /\ ended'[f] \in [est : Nat, del : Int, forgotten : Nat]
        /\ ended'[f].est = ended[f].est /\ ended'[f].forgotten = ended[f].forgotten
        /\ ended'[f].del = ended[f].del + Count(udp, f) - Count(udp', f)
  <2> SUFFICES ASSUME NEW f \in Flows
               PROVE  /\ ended'[f] \in [est : Nat, del : Int, forgotten : Nat]
                      /\ ended'[f].est = ended[f].est /\ ended'[f].forgotten = ended[f].forgotten
                      /\ ended'[f].del = ended[f].del + Count(udp, f) - Count(udp', f)
    OBVIOUS
  <2>1. PICK x, y, c, d : x = ended[f] /\ y = ended'[f] /\ c = Count(udp, f) /\ d = Count(udp', f)
    OBVIOUS
  <2>2. /\ x \in [est : Nat, del : Int, forgotten : Nat] /\ c \in Nat /\ d \in Nat
        /\ y = [x EXCEPT !.del = @ + c - d]
    BY <1>7, <2>1
  <2>3. /\ y \in [est : Nat, del : Int, forgotten : Nat]
        /\ y.est = x.est /\ y.forgotten = x.forgotten /\ y.del = x.del + c - d
    BY ONLY <2>2
  <2> QED
    BY <2>1, <2>3
<1>9. ended' \in [Flows -> [est : Nat, del : Int, forgotten : Nat]]
  BY <1>8, Zenon DEF udp_release
<1>10. Len(udp') <= UDP_TRACK_MAX
  BY <1>1, <1>5, EventAssumption, SMTT(30)
<1> QED
  BY <1>5, <1>6, <1>8, <1>9, <1>10

\* The counters of one flow, one for each event of TCP.
LEMMA CountedEvent ==
    ASSUME TypeOK, NEW k, NEW g \in {"est", "del"},
           \/ g = "est" /\ ended' = [ended EXCEPT ![k].est = @ + 1]
           \/ g = "del" /\ ended' = [ended EXCEPT ![k].del = @ + 1]
    PROVE  /\ ended' \in [Flows -> [est : Nat, del : Int, forgotten : Nat]]
           /\ \A f \in Flows :
                  /\ ended'[f].est = ended[f].est + (IF g = "est" /\ f = k THEN 1 ELSE 0)
                  /\ ended'[f].del = ended[f].del + (IF g = "del" /\ f = k THEN 1 ELSE 0)
                  /\ ended'[f].forgotten = ended[f].forgotten
<1>1. ended \in [Flows -> [est : Nat, del : Int, forgotten : Nat]]
  BY DEF TypeOK
<1>2. PICK d : d = [f \in Flows |-> IF f = k THEN 1 ELSE 0]
  BY Zenon
<1>3. \A f \in Flows : d[f] \in Nat /\ d[f] = IF f = k THEN 1 ELSE 0
  BY <1>2
<1>4. ASSUME NEW f \in Flows
      PROVE  ended'[f] = IF g = "est"
                         THEN [est |-> ended[f].est + d[f], del |-> ended[f].del,
                               forgotten |-> ended[f].forgotten]
                         ELSE [est |-> ended[f].est, del |-> ended[f].del + d[f],
                               forgotten |-> ended[f].forgotten]
  <2>1. PICK x : x = ended[f]
    OBVIOUS
  <2>2. x \in [est : Nat, del : Int, forgotten : Nat]
    BY <1>1, <2>1
  <2>3. x = [est |-> x.est, del |-> x.del, forgotten |-> x.forgotten]
        /\ x.est + 0 = x.est /\ x.del + 0 = x.del
    BY ONLY <2>2
  <2>4. ended'[f] = IF f # k THEN x
                    ELSE IF g = "est" THEN [x EXCEPT !.est = @ + 1] ELSE [x EXCEPT !.del = @ + 1]
    BY <1>1, <2>1
  <2>5. /\ [x EXCEPT !.est = @ + 1] = [est |-> x.est + 1, del |-> x.del, forgotten |-> x.forgotten]
        /\ [x EXCEPT !.del = @ + 1] = [est |-> x.est, del |-> x.del + 1, forgotten |-> x.forgotten]
    BY ONLY <2>2
  <2>6. d[f] = IF f = k THEN 1 ELSE 0
    BY <1>3
  <2> QED
    BY ONLY <2>1, <2>3, <2>4, <2>5, <2>6
<1>5. \A f \in Flows : ended[f].est \in Nat /\ ended[f].del \in Int /\ ended[f].forgotten \in Nat
  BY <1>1
<1>6. DOMAIN ended' = Flows /\ ended' = [f \in Flows |-> ended'[f]]
  BY <1>1
<1>7. ASSUME NEW f \in Flows
      PROVE  /\ ended'[f] \in [est : Nat, del : Int, forgotten : Nat]
             /\ ended'[f].est = ended[f].est + (IF g = "est" THEN d[f] ELSE 0)
             /\ ended'[f].del = ended[f].del + (IF g = "del" THEN d[f] ELSE 0)
             /\ ended'[f].forgotten = ended[f].forgotten
  <2>1. PICK x, y, n : x = ended[f] /\ y = ended'[f] /\ n = d[f]
    OBVIOUS
  <2>2. n \in Nat /\ x.est \in Nat /\ x.del \in Int /\ x.forgotten \in Nat
    BY <1>3, <1>5, <2>1
  <2>3. CASE g = "est"
    <3>1. y = [est |-> x.est + n, del |-> x.del, forgotten |-> x.forgotten]
      BY <1>4, <2>1, <2>3
    <3>2. /\ y \in [est : Nat, del : Int, forgotten : Nat]
          /\ y.est = x.est + n /\ y.del = x.del + 0 /\ y.forgotten = x.forgotten
      BY ONLY <2>2, <3>1
    <3> QED
      BY <2>1, <2>3, <3>2
  <2>4. CASE g = "del"
    <3>1. y = [est |-> x.est, del |-> x.del + n, forgotten |-> x.forgotten]
      BY <1>4, <2>1, <2>4
    <3>2. /\ y \in [est : Nat, del : Int, forgotten : Nat]
          /\ y.est = x.est + 0 /\ y.del = x.del + n /\ y.forgotten = x.forgotten
      BY ONLY <2>2, <3>1
    <3> QED
      BY <2>1, <2>4, <3>2
  <2> QED
    BY <2>3, <2>4
<1> QED
  BY <1>3, <1>6, <1>7, SMTT(30)

\* What event_callback does to the table and to the counters.
LEMMA CallbackIs ==
    ASSUME TypeOK, TcpInv, event_callback, NEW e, e = Head(ring)
    PROVE  /\ udp' \in Seq(Events) /\ Len(udp') <= UDP_TRACK_MAX
           /\ ended' \in [Flows -> [est : Nat, del : Int, forgotten : Nat]]
           /\ \A j \in 1 .. Len(udp') : udp'[j].s \notin Tcp
           /\ \A f \in Flows :
                  f[1] \in Tcp =>
                      /\ ended'[f].est = ended[f].est
                             + (IF e.event = "ESTABLISHED" /\ f = KeyOf(e) THEN 1 ELSE 0)
                      /\ ended'[f].del = ended[f].del
                             + (IF e.event = "DELETED" /\ f = KeyOf(e) THEN 1 ELSE 0)
           /\ \A f \in Flows :
                  f[1] \notin Tcp =>
                      ended'[f].est - ended'[f].del - ended'[f].forgotten - Count(udp', f) =
                          ended[f].est - ended[f].del - ended[f].forgotten - Count(udp, f)
           /\ e.event = "RELEASE" =>
                  \A f \in Flows : Count(udp', f) = IF f[1] = e.s THEN 0 ELSE Count(udp, f)
<1>1. e \in Events /\ e = ring[1] /\ 1 \in DOMAIN ring
  BY TailRing, SMTT(30)
<1>2. udp \in Seq(Events) /\ Len(udp) \in Nat /\ Len(udp) <= UDP_TRACK_MAX
      /\ DOMAIN udp = 1 .. Len(udp)
      /\ \A j \in 1 .. Len(udp) : udp[j] \in Events /\ udp[j].s \notin Tcp
  <2>1. udp \in Seq(Events) /\ Len(udp) <= UDP_TRACK_MAX
    BY DEF TypeOK
  <2>2. DOMAIN udp = 1 .. Len(udp) /\ Len(udp) \in Nat /\ \A j \in 1 .. Len(udp) : udp[j] \in Events
    BY <2>1, SMTT(30)
  <2> QED
    BY <2>1, <2>2 DEF TcpInv
<1>3. ASSUME NEW f \in Flows
      PROVE  /\ ended[f].est \in Nat /\ ended[f].del \in Int /\ ended[f].forgotten \in Nat
             /\ Count(udp, f) \in Nat /\ (f[1] \in Tcp => Count(udp, f) = 0)
  <2>1. ended[f] \in [est : Nat, del : Int, forgotten : Nat]
    BY DEF TypeOK
  <2>2. f[1] \in Tcp => \A j \in 1 .. Len(udp) : KeyOf(udp[j]) # f
    BY <1>2, SMTT(30) DEF KeyOf
  <2>3. f[1] \in Tcp => Count(udp, f) = 0
    BY <1>2, <2>2, CountNone
  <2>4. Count(udp, f) \in Nat
    BY <1>2, CountIs
  <2> QED
    BY <2>1, <2>3, <2>4
<1>4. CASE e.event = "RELEASE"
  <2>1. udp_release(e.s)
    BY <1>4 DEF event_callback
  <2>2. /\ udp' \in Seq(Events) /\ Len(udp') <= UDP_TRACK_MAX
        /\ \A k \in 1 .. Len(udp') : \E j \in 1 .. Len(udp) : udp'[k] = udp[j]
        /\ \A f \in Flows : Count(udp', f) = IF f[1] = e.s THEN 0 ELSE Count(udp, f)
        /\ ended' \in [Flows -> [est : Nat, del : Int, forgotten : Nat]]
        /\ \A f \in Flows :
               /\ ended'[f].est = ended[f].est /\ ended'[f].forgotten = ended[f].forgotten
               /\ ended'[f].del = ended[f].del + Count(udp, f) - Count(udp', f)
    BY <2>1, ReleaseSweeps, Zenon
  <2>3. \A j \in 1 .. Len(udp') : udp'[j].s \notin Tcp
    BY <1>2, <2>2
  <2>4. ASSUME NEW f \in Flows
        PROVE  /\ f[1] \in Tcp => ended'[f].est = ended[f].est /\ ended'[f].del = ended[f].del
               /\ ended'[f].est - ended'[f].del - ended'[f].forgotten - Count(udp', f) =
                      ended[f].est - ended[f].del - ended[f].forgotten - Count(udp, f)
    <3>1. Count(udp', f) \in Nat /\ (f[1] \in Tcp => Count(udp', f) = 0)
      BY <1>3, <2>2, SMTT(30)
    <3>2. /\ ended'[f].est = ended[f].est /\ ended'[f].forgotten = ended[f].forgotten
          /\ ended'[f].del = ended[f].del + Count(udp, f) - Count(udp', f)
      BY <2>2
    <3> QED
      BY <1>3, <3>1, <3>2, SMTT(30)
  <2>5. \A f \in Flows : ended[f].est + 0 = ended[f].est /\ ended[f].del + 0 = ended[f].del
    BY <1>3, SMTT(30)
  <2> QED
    BY <1>4, <2>2, <2>3, <2>4, <2>5, Zenon
<1>5. CASE e.event = "ESTABLISHED" /\ e.s \notin Tcp
  <2>1. udp_track(e)
    BY <1>5 DEF event_callback
  <2>2. /\ udp' \in Seq(Events) /\ Len(udp') <= UDP_TRACK_MAX
        /\ \A k \in 1 .. Len(udp') : udp'[k] = e \/ \E j \in 1 .. Len(udp) : udp'[k] = udp[j]
        /\ ended' \in [Flows -> [est : Nat, del : Int, forgotten : Nat]]
        /\ \A f \in Flows :
               /\ ended'[f].est = ended[f].est + (IF f = KeyOf(e) THEN 1 ELSE 0)
               /\ ended'[f].del = ended[f].del
               /\ Count(udp', f) + ended'[f].forgotten =
                      Count(udp, f) + ended[f].forgotten + (IF f = KeyOf(e) THEN 1 ELSE 0)
    BY <1>1, <2>1, TrackStep, ZenonT(40)
  <2>3. \A j \in 1 .. Len(udp') : udp'[j].s \notin Tcp
    BY <1>2, <1>5, <2>2
  <2>4. ASSUME NEW f \in Flows
        PROVE  /\ f[1] \in Tcp => ended'[f].est = ended[f].est /\ ended'[f].del = ended[f].del
               /\ ended'[f].est - ended'[f].del - ended'[f].forgotten - Count(udp', f) =
                      ended[f].est - ended[f].del - ended[f].forgotten - Count(udp, f)
    <3>1. PICK c : c = IF f = KeyOf(e) THEN 1 ELSE 0
      OBVIOUS
    <3>2. c \in Nat /\ (f[1] \in Tcp => c = 0)
      BY <1>5, <3>1, SMTT(30) DEF KeyOf
    <3>3. Count(udp', f) \in Nat /\ ended'[f].forgotten \in Nat
      BY <2>2, CountIs
    <3>4. /\ ended'[f].est = ended[f].est + c /\ ended'[f].del = ended[f].del
          /\ Count(udp', f) + ended'[f].forgotten = Count(udp, f) + ended[f].forgotten + c
      BY <2>2, <3>1
    <3> QED
      BY ONLY <1>3, <3>2, <3>3, <3>4, f \in Flows
  <2>5. \A f \in Flows : f[1] \in Tcp => f # KeyOf(e)
    BY <1>5, SMTT(30) DEF KeyOf
  <2>6. \A f \in Flows : ended[f].est + 0 = ended[f].est /\ ended[f].del + 0 = ended[f].del
    BY <1>3, SMTT(30)
  <2> QED
    BY <1>5, <2>2, <2>3, <2>4, <2>5, <2>6, ZenonT(40)
<1>6. ASSUME NEW g \in {"est", "del"}, e.s \in Tcp, udp' = udp,
             e.event = IF g = "est" THEN "ESTABLISHED" ELSE "DELETED",
             \/ g = "est" /\ ended' = [ended EXCEPT ![KeyOf(e)].est = @ + 1]
             \/ g = "del" /\ ended' = [ended EXCEPT ![KeyOf(e)].del = @ + 1]
      PROVE  /\ ended' \in [Flows -> [est : Nat, del : Int, forgotten : Nat]]
             /\ \A f \in Flows :
                    /\ ended'[f].est = ended[f].est
                           + (IF e.event = "ESTABLISHED" /\ f = KeyOf(e) THEN 1 ELSE 0)
                    /\ ended'[f].del = ended[f].del
                           + (IF e.event = "DELETED" /\ f = KeyOf(e) THEN 1 ELSE 0)
             /\ \A f \in Flows :
                    f[1] \notin Tcp =>
                        ended'[f].est - ended'[f].del - ended'[f].forgotten - Count(udp', f) =
                            ended[f].est - ended[f].del - ended[f].forgotten - Count(udp, f)
  <2>1. /\ ended' \in [Flows -> [est : Nat, del : Int, forgotten : Nat]]
        /\ \A f \in Flows :
               /\ ended'[f].est = ended[f].est + (IF g = "est" /\ f = KeyOf(e) THEN 1 ELSE 0)
               /\ ended'[f].del = ended[f].del + (IF g = "del" /\ f = KeyOf(e) THEN 1 ELSE 0)
               /\ ended'[f].forgotten = ended[f].forgotten
    BY <1>6, CountedEvent, SMTT(30)
  <2>2. (g = "est" <=> e.event = "ESTABLISHED") /\ (g = "del" <=> e.event = "DELETED")
    BY <1>6
  <2>3. \A f \in Flows : f[1] \notin Tcp => f # KeyOf(e)
    BY <1>6, SMTT(30) DEF KeyOf
  <2>4. ASSUME NEW f \in Flows, f[1] \notin Tcp
        PROVE  ended'[f].est = ended[f].est /\ ended'[f].del = ended[f].del
               /\ ended'[f].forgotten = ended[f].forgotten
    BY <1>3, <2>1, <2>3, <2>4, SMTT(30)
  <2> QED
    BY <1>6, <2>1, <2>2, <2>4
<1>7. CASE e.event = "ESTABLISHED" /\ e.s \in Tcp
  <2>1. udp' = udp /\ ended' = [ended EXCEPT ![KeyOf(e)].est = @ + 1]
    BY <1>7 DEF event_callback
  <2> QED
    BY <1>2, <1>6, <1>7, <2>1
<1>8. CASE e.event = "DELETED"
  <2>1. udp' = udp /\ ended' = [ended EXCEPT ![KeyOf(e)].del = @ + 1]
    BY <1>8 DEF event_callback
  <2>2. e.s \in Tcp
    BY <1>1, <1>8 DEF TcpInv
  <2> QED
    BY <1>2, <1>6, <1>8, <2>1, <2>2
<1>9. CASE e.event \notin {"RELEASE", "ESTABLISHED", "DELETED"}
  <2>1. udp' = udp /\ ended' = ended
    BY <1>9 DEF event_callback, uvars
  <2>2. ended \in [Flows -> [est : Nat, del : Int, forgotten : Nat]]
    BY DEF TypeOK
  <2> QED
    BY <1>2, <1>3, <1>9, <2>1, <2>2, SMTT(30)
<1> QED
  BY <1>4, <1>5, <1>7, <1>8, <1>9, ZenonT(40)

\* The head of the ring counts when it leaves.
LEMMA AnnouncedShift ==
    ASSUME TypeOK, TcpInv, event_callback, NEW f, f[1] \in Tcp, NEW n \in 1 .. Len(ring), Announced(f, n)
    PROVE  Announced(f, n - 1)'
<1>1. PICK e : e = Head(ring)
  OBVIOUS
<1>2. /\ e = ring[1] /\ Len(ring) \in Nat
      /\ \A k \in 1 .. (Len(ring) - 1) : ring'[k] = ring[k + 1]
  BY <1>1, TailRing, Zenon
<1>3. UNCHANGED <<lost, sock>>
  BY DEF event_callback
<1>4. f \in Flows =>
        /\ ended[f].est \in Nat /\ ended'[f].est \in Nat
        /\ ended'[f].est = ended[f].est + (IF e.event = "ESTABLISHED" /\ f = KeyOf(e) THEN 1 ELSE 0)
  <2>1. f \in Flows => ended[f].est \in Nat
    BY DEF TypeOK
  <2>2. f \in Flows =>
          ended'[f].est = ended[f].est + (IF e.event = "ESTABLISHED" /\ f = KeyOf(e) THEN 1 ELSE 0)
    BY <1>1, CallbackIs, ZenonT(40)
  <2> QED
    BY <2>1, <2>2, SMTT(30)
<1>5. CASE f \in Flows => ended[f].est >= 1
  BY <1>4, <1>5, SMTT(30) DEF Announced
<1>6. ASSUME NEW j \in 1 .. n, ring[j].event = "ESTABLISHED", KeyOf(ring[j]) = f
      PROVE  Announced(f, n - 1)'
  <2>1. CASE j = 1
    BY <1>2, <1>4, <1>6, <2>1, SMTT(30) DEF Announced
  <2>2. CASE j # 1
    <3>1. j - 1 \in 1 .. (n - 1) /\ ring'[j - 1] = ring[j]
      BY <1>2, <2>2, SMTT(30)
    <3> QED
      BY <1>6, <3>1 DEF Announced, KeyOf
  <2> QED
    BY <2>1, <2>2
<1>7. CASE f[1] \in lost \/ sock[f[1]].cb = "theirs"
  BY <1>3, <1>7 DEF Announced
<1> QED
  BY <1>5, <1>6, <1>7, Zenon DEF Announced

LEMMA CallbackDeleted ==
    ASSUME TypeOK, TcpInv, DeletedInv, event_callback
    PROVE  DeletedInv'
<1>1. PICK e : e = Head(ring)
  OBVIOUS
<1>2. /\ e = ring[1] /\ Len(ring) \in Nat /\ Len(ring) >= 1 /\ Len(ring') = Len(ring) - 1
      /\ DOMAIN ring = 1 .. Len(ring) /\ DOMAIN ring' = 1 .. Len(ring')
      /\ \A k \in 1 .. Len(ring') : ring'[k] = ring[k + 1] /\ k + 1 \in 1 .. Len(ring)
  BY <1>1, TailRing, Zenon
<1>3. UNCHANGED <<lost, sock>>
  BY DEF event_callback
<1>4. \A f \in Flows :
        f[1] \in Tcp =>
            /\ ended[f].est \in Nat /\ ended'[f].est \in Nat /\ ended'[f].est >= ended[f].est
            /\ ended'[f].del = ended[f].del + (IF e.event = "DELETED" /\ f = KeyOf(e) THEN 1 ELSE 0)
  <2>1. \A f \in Flows : ended[f].est \in Nat
    BY DEF TypeOK
  <2>2. \A f \in Flows :
          f[1] \in Tcp =>
            /\ ended'[f].est = ended[f].est + (IF e.event = "ESTABLISHED" /\ f = KeyOf(e) THEN 1 ELSE 0)
            /\ ended'[f].del = ended[f].del + (IF e.event = "DELETED" /\ f = KeyOf(e) THEN 1 ELSE 0)
    BY <1>1, CallbackIs
  <2> QED
    BY <2>1, <2>2, SMTT(30)
<1>5. ASSUME NEW f, f[1] \in Tcp, Announced(f, 0) PROVE Announced(f, 0)'
  <2>1. f \in Flows => ended'[f].est >= ended[f].est /\ ended[f].est \in Int /\ ended'[f].est \in Int
    BY <1>4, <1>5, Z3T(60)
  <2> QED
    BY <1>3, <1>5, <2>1, AnnouncedStays, Z3T(60)
<1>6. ASSUME NEW x \in Tcp \cap AllSocks, sock'[x].tcp = "established", sock'[x].cb = "ours"
      PROVE  Announced(<<x, sock[x].remote>>, Len(ring))'
  <2>1. PICK f, n : f = <<x, sock[x].remote>> /\ n = Len(ring)
    BY Zenon
  <2>2. Announced(f, n)
    BY <1>3, <1>6, <2>1, Zenon DEF DeletedInv
  <2>3. f[1] \in Tcp /\ n \in 1 .. Len(ring)
    BY <1>2, <2>1, SMTT(30)
  <2>4. Announced(f, n - 1)'
    BY <2>2, <2>3, AnnouncedShift
  <2> QED
    BY <1>2, <1>3, <2>1, <2>4 DEF Announced
<1>7. \A x \in DOMAIN ring :
        ring[x].event = "DELETED" =>
            /\ ring[x].s \in Tcp /\ sock[ring[x].s].tcp = "done"
            /\ \A j \in DOMAIN ring : (ring[j].event = "DELETED" /\ ring[j].s = ring[x].s) => j = x
            /\ \A f \in Flows : f[1] = ring[x].s => ended[f].del = 0
            /\ Announced(KeyOf(ring[x]), x - 1)
  BY Zenon DEF DeletedInv, TcpInv
<1>8. ASSUME NEW k \in DOMAIN ring', ring'[k].event = "DELETED"
      PROVE  /\ sock'[ring'[k].s].tcp = "done"
             /\ \A j \in DOMAIN ring' : (ring'[j].event = "DELETED" /\ ring'[j].s = ring'[k].s) => j = k
             /\ \A f \in Flows : f[1] = ring'[k].s => ended'[f].del = 0
             /\ Announced(KeyOf(ring[k]), k - 1)'
  <2>1. PICK x : x = k + 1
    OBVIOUS
  <2>2. k \in 1 .. Len(ring') /\ x \in DOMAIN ring /\ ring'[k] = ring[x] /\ ring[x].event = "DELETED" /\ x # 1
    BY <1>2, <1>8, <2>1, SMTT(30)
  <2>3. /\ ring[x].s \in Tcp /\ sock[ring[x].s].tcp = "done"
        /\ \A j \in DOMAIN ring : (ring[j].event = "DELETED" /\ ring[j].s = ring[x].s) => j = x
        /\ \A f \in Flows : f[1] = ring[x].s => ended[f].del = 0
        /\ Announced(KeyOf(ring[x]), x - 1)
    BY <1>7, <2>2
  <2>4. ASSUME NEW j \in DOMAIN ring', ring'[j].event = "DELETED", ring'[j].s = ring'[k].s
        PROVE  j = k
    <3>1. j \in 1 .. Len(ring') /\ ring'[j] = ring[j + 1] /\ j + 1 \in DOMAIN ring
      BY <1>2, ZenonT(40)
    <3>2. j + 1 = x
      BY <2>2, <2>3, <2>4, <3>1
    <3> QED
      BY <1>2, <2>1, <2>2, <3>1, <3>2, SMTT(30)
  <2>5. ASSUME NEW f \in Flows, f[1] = ring[x].s PROVE ended'[f].del = 0
    <3>1. ~(e.event = "DELETED" /\ f = KeyOf(e))
      BY <1>2, <2>2, <2>3, <2>5, SMTT(30) DEF KeyOf
    <3>2. ended[f].del = 0 /\ f[1] \in Tcp
      BY <2>3, <2>5, Zenon
    <3> QED
      BY <1>4, <3>1, <3>2, SMTT(30)
  <2>6. PICK g, n : g = KeyOf(ring[x]) /\ n = k
    OBVIOUS
  <2>7. g[1] \in Tcp /\ n \in 1 .. Len(ring) /\ Announced(g, n)
    BY <1>2, <2>1, <2>2, <2>3, <2>6, SMTT(30) DEF KeyOf
  <2>8. Announced(g, n - 1)'
    BY <2>7, AnnouncedShift
  <2>9. Announced(KeyOf(ring[k]), k - 1)'
    BY <2>2, <2>6, <2>8 DEF Announced, KeyOf
  <2> QED
    BY <1>3, <2>2, <2>3, <2>4, <2>5, <2>9
<1>9. ASSUME NEW f \in Flows, f[1] \in Tcp
      PROVE  /\ ended'[f].del \in {0, 1}
             /\ ended'[f].del = 1 => sock'[f[1]].tcp = "done" /\ Announced(f, 0)'
  <2>1. /\ ended[f].del \in {0, 1}
        /\ ended[f].del = 1 => sock[f[1]].tcp = "done" /\ Announced(f, 0)
    BY <1>9 DEF DeletedInv
  <2>2. CASE e.event = "DELETED" /\ f = KeyOf(e)
    <3>1. 1 \in DOMAIN ring /\ ring[1].event = "DELETED" /\ KeyOf(ring[1]) = f /\ f[1] = ring[1].s /\ 1 - 1 = 0
      BY <1>2, <2>2, SMTT(30) DEF KeyOf
    <3>2. sock[f[1]].tcp = "done" /\ ended[f].del = 0 /\ Announced(f, 0)
      BY <1>7, <3>1
    <3> QED
      BY <1>3, <1>4, <1>5, <1>9, <2>2, <3>2, Z3T(60)
  <2>3. CASE ~(e.event = "DELETED" /\ f = KeyOf(e))
    BY <1>3, <1>4, <1>5, <1>9, <2>1, <2>3, SMTT(30)
  <2> QED
    BY <2>2, <2>3
<1> QED
  BY <1>6, <1>8, <1>9, Zenon DEF DeletedInv

\* event_callback preserves the invariants.
LEMMA CallbackStep ==
    ASSUME SockInv, CloseInv, event_callback, UNCHANGED <<layer, block, socks>>
    PROVE  TypeOK' /\ InfoInv' /\ CloseInv' /\ CpuInv' /\ TcpInv'
<1>1. PICK e : e = Head(ring)
  OBVIOUS
<1>2. /\ ring' \in Seq(Events)
      /\ DOMAIN ring = 1 .. Len(ring) /\ DOMAIN ring' = 1 .. Len(ring')
      /\ \A k \in 1 .. Len(ring') : ring'[k] = ring[k + 1] /\ k + 1 \in 1 .. Len(ring)
  BY TailRing, Zenon DEF SockInv
<1>3. UNCHANGED <<live, sock, info, flows, cpu, lost, blind>>
  BY DEF event_callback
<1>4. /\ udp' \in Seq(Events) /\ Len(udp') <= UDP_TRACK_MAX
      /\ ended' \in [Flows -> [est : Nat, del : Int, forgotten : Nat]]
      /\ \A j \in 1 .. Len(udp') : udp'[j].s \notin Tcp
  BY <1>1, CallbackIs, ZenonT(40) DEF SockInv
<1>5. TypeOK'
  BY <1>2, <1>3, <1>4 DEF SockInv, TypeOK
<1>6. InfoInv' /\ CpuInv'
  BY <1>3 DEF SockInv, InfoInv, CpuInv
<1>7. CloseInv'
  BY <1>2, <1>3, SMTT(30) DEF CloseInv
<1>8. TcpInv'
  <2>1. DOMAIN udp' = 1 .. Len(udp')
    BY <1>4, SMTT(30)
  <2>2. \A k \in DOMAIN udp' : udp'[k].s \notin Tcp
    BY <1>4, <2>1
  <2>3. \A k \in DOMAIN ring' : ring'[k].event = "DELETED" => ring'[k].s \in Tcp
    BY <1>2 DEF SockInv, TcpInv
  <2> QED
    BY <1>3, <2>2, <2>3 DEF SockInv, TcpInv
<1> QED
  BY <1>5, <1>6, <1>7, <1>8

-----------------------------------------------------------------------------
(* The theorems about SOCKET and FLOW.                                     *)

\* A step of the kernel is one of a socket, or changes neither sockets nor events.
LEMMA KernelIs ==
    ASSUME SockInv, KernelStep
    PROVE  /\ live' \in BOOLEAN /\ cpu' \in [CPUs -> Talks \cup {<<>>}]
           /\ \/ /\ SocketStep
                 /\ \A c \in CPUs : cpu'[c] \in {cpu[c], <<>>}
              \/ /\ UNCHANGED <<sock, info, ring, lost, blind>>
                 /\ \A c \in CPUs :
                        cpu'[c] # <<>> =>
                            cpu'[c] = cpu[c] \/ (layer = "FLOW" /\ sock[cpu'[c][1]].st # "none")
<1>1. live \in BOOLEAN /\ cpu \in [CPUs -> Talks \cup {<<>>}]
  BY DEF SockInv, TypeOK
<1>2. CASE \E t \in socks : ev_sock_create(t)
  BY <1>1, <1>2, CreateStep, Zenon DEF ev_sock_create
<1>3. CASE \E t \in socks, a \in Endpoints : on_bind(t, a)
  BY <1>1, <1>3, BindStep, Zenon DEF on_bind
<1>4. CASE \E t \in socks, a \in Endpoints : on_connect(t, a)
  BY <1>1, <1>4, ConnectStep, ZenonT(40) DEF on_connect
<1>5. CASE \E t \in socks, a \in Endpoints : Active(t, a)
  BY <1>1, <1>5, ActiveStep, Zenon DEF Active
<1>6. CASE \E t \in socks : Listen(t)
  BY <1>1, <1>6, ListenStep DEF Listen
<1>7. CASE \E t \in socks, c \in socks, a \in Endpoints : Passive(t, c, a)
  BY <1>1, <1>7, PassiveStep, Zenon DEF Passive
<1>8. CASE \E t \in socks : TcpClose(t)
  BY <1>1, <1>8, TcpCloseStep DEF TcpClose
<1>9. CASE \E t \in socks : ForeignCb(t)
  BY <1>1, <1>9, ForeignStep, Zenon DEF ForeignCb
<1>10. CASE \E t \in socks : ev_sock_release(t)
  BY <1>1, <1>10, ReleaseStep, Zenon DEF ev_sock_release
<1>11. CASE \E t \in socks : Destroy(t)
  BY <1>1, <1>11, DestroyStep, Zenon DEF Destroy
<1>12. CASE \E c \in CPUs, f \in Talks : UdpLookup(c, f)
  <2>1. PICK c \in CPUs, f \in Talks : UdpLookup(c, f)
    BY <1>12
  <2>2. /\ UNCHANGED <<live, sock, info, ring, lost, blind>> /\ cpu' = [cpu EXCEPT ![c] = f]
        /\ layer = "FLOW" /\ sock[f[1]].st # "none"
    BY <2>1 DEF UdpLookup
  <2> QED
    BY <1>1, <2>2, Zenon
<1>13. CASE \E c \in CPUs : UdpReport(c)
  <2>1. PICK c \in CPUs : UdpReport(c)
    BY <1>13
  <2>2. live' = live /\ cpu' = [cpu EXCEPT ![c] = <<>>]
    BY <2>1 DEF UdpReport
  <2>3. SocketStep
    BY <2>1, ReportStep
  <2> QED
    BY <1>1, <2>2, <2>3
<1>14. CASE Heartbeat
  BY <1>1, <1>14 DEF Heartbeat
<1> QED
  BY <1>2, <1>3, <1>4, <1>5, <1>6, <1>7, <1>8, <1>9, <1>10, <1>11, <1>12, <1>13, <1>14, Zenon
  DEF KernelStep

LEMMA DeletedSame ==
    ASSUME DeletedInv, UNCHANGED <<sock, ring, lost, ended>>
    PROVE  DeletedInv'
<1>1. \A f, n : Announced(f, n) => Announced(f, n)'
  BY Zenon DEF Announced, KeyOf
<1>2. \A s \in Tcp \cap AllSocks :
        (sock[s].tcp = "established" /\ sock[s].cb = "ours") =>
            Announced(<<s, sock[s].remote>>, Len(ring))'
  BY <1>1, Zenon DEF DeletedInv
<1>3. \A k \in DOMAIN ring : ring[k].event = "DELETED" => Announced(KeyOf(ring[k]), k - 1)'
  BY <1>1, Zenon DEF DeletedInv
<1>4. \A f \in Flows : f[1] \in Tcp /\ ended[f].del = 1 => Announced(f, 0)'
  BY <1>1, Zenon DEF DeletedInv
<1> QED
  BY <1>2, <1>3, <1>4, ZenonT(40) DEF DeletedInv

LEMMA KernelPreserves ==
    ASSUME EventInv, KernelStep, UNCHANGED <<layer, block, socks, uvars>>
    PROVE  EventInv'
<1>1. SockInv /\ CloseInv /\ DeletedInv /\ UdpInv
  BY DEF EventInv
<1>2. live' \in BOOLEAN /\ cpu' \in [CPUs -> Talks \cup {<<>>}]
  BY <1>1, KernelIs
<1>3. UdpInv'
  BY <1>1 DEF UdpInv, uvars
<1>4. CASE SocketStep /\ \A c \in CPUs : cpu'[c] \in {cpu[c], <<>>}
  <2>1. InfoInv' /\ CloseInv'
    BY <1>1, <1>4, SocketInfo
  <2>2. CpuInv' /\ TcpInv'
    BY <1>1, <1>4, SocketTcp DEF uvars
  <2>3. DeletedInv'
    BY <1>1, <1>4, SocketDeleted DEF uvars
  <2>4. TypeOK'
    BY <1>1, <1>2, <1>4, SocketType DEF SockInv, uvars
  <2> QED
    BY <1>3, <2>1, <2>2, <2>3, <2>4 DEF EventInv, SockInv
<1>5. CASE /\ UNCHANGED <<sock, info, ring, lost, blind>>
           /\ \A c \in CPUs :
                  cpu'[c] # <<>> =>
                      cpu'[c] = cpu[c] \/ (layer = "FLOW" /\ sock[cpu'[c][1]].st # "none")
  <2>1. TypeOK'
    BY <1>1, <1>2, <1>5 DEF SockInv, TypeOK, uvars
  <2>2. InfoInv' /\ CloseInv' /\ TcpInv'
    BY <1>1, <1>5, ZenonT(40) DEF SockInv, InfoInv, CloseInv, TcpInv, uvars
  <2>3. CpuInv'
    BY <1>1, <1>5, Zenon DEF SockInv, CpuInv
  <2>4. DeletedInv'
    BY <1>1, <1>5, DeletedSame DEF uvars
  <2> QED
    BY <1>3, <2>1, <2>2, <2>3, <2>4 DEF EventInv, SockInv
<1> QED
  BY <1>1, <1>4, <1>5, KernelIs

LEMMA CallbackPreserves ==
    ASSUME EventInv, event_callback, UNCHANGED <<layer, block, socks>>
    PROVE  EventInv'
<1>1. TypeOK /\ TcpInv /\ SockInv /\ CloseInv /\ DeletedInv /\ UdpInv
  BY DEF EventInv, SockInv
<1>2. TypeOK' /\ InfoInv' /\ CloseInv' /\ CpuInv' /\ TcpInv'
  BY <1>1, CallbackStep
<1>3. DeletedInv'
  BY <1>1, CallbackDeleted
<1>4. UdpInv'
  <2> SUFFICES ASSUME NEW f \in Flows, f[1] \notin Tcp
               PROVE  ended'[f].est = ended'[f].del + ended'[f].forgotten + Count(udp', f)
    BY DEF UdpInv
  <2>1. ended[f].est = ended[f].del + ended[f].forgotten + Count(udp, f)
    BY <1>1 DEF UdpInv
  <2>2. PICK e : e = Head(ring)
    OBVIOUS
  <2>3. ended'[f].est - ended'[f].del - ended'[f].forgotten - Count(udp', f) =
            ended[f].est - ended[f].del - ended[f].forgotten - Count(udp, f)
    BY <1>1, <2>2, CallbackIs, Zenon
  <2>4. /\ ended[f] \in [est : Nat, del : Int, forgotten : Nat] /\ udp \in Seq(Events)
        /\ ended'[f] \in [est : Nat, del : Int, forgotten : Nat] /\ udp' \in Seq(Events)
    BY <1>1, <1>2 DEF TypeOK
  <2>5. Count(udp, f) \in Nat /\ Count(udp', f) \in Nat
    BY <2>4, CountIs
  <2>6. /\ ended[f].est \in Nat /\ ended[f].del \in Int /\ ended[f].forgotten \in Nat
        /\ ended'[f].est \in Nat /\ ended'[f].del \in Int /\ ended'[f].forgotten \in Nat
    BY <2>4
  <2>7. PICK a, b, c, d : /\ a = ended'[f].est /\ b = ended'[f].del
                          /\ c = ended'[f].forgotten /\ d = Count(udp', f)
    OBVIOUS
  <2>8. a \in Nat /\ b \in Int /\ c \in Nat /\ d \in Nat /\ a - b - c - d = 0
    BY ONLY <2>1, <2>3, <2>5, <2>6, <2>7
  <2>9. a = b + c + d
    BY ONLY <2>8
  <2> QED
    BY ONLY <2>7, <2>9
<1> QED
  BY <1>2, <1>3, <1>4 DEF EventInv, SockInv

\* The invariant behind the two properties: what the programs remember agrees
\* with the kernel's sockets, and every event of a flow has its place.
THEOREM EventInvariant == Spec => []EventInv
<1>1. Init => EventInv
  <2> SUFFICES ASSUME Init PROVE EventInv
    OBVIOUS
  <2>1. layer \in {"SOCKET", "FLOW", "REFLECT"} /\ block \in BOOLEAN /\ socks \subseteq AllSocks
    <3>1. PICK w \in Worlds : layer = w[1] /\ socks = w[2]
      BY DEF Init
    <3>2. layer \in {"SOCKET", "FLOW", "REFLECT"}
      BY <3>1, EventAssumption
    <3>3. block \in BOOLEAN
      BY Zenon DEF Init
    <3> QED
      BY <3>1, <3>2, <3>3 DEF AllSocks
  <2>2. 0 \in Ends
    BY DEF Ends
  <2>3. TypeOK
    BY <2>1, <2>2, EventAssumption, SMTT(30) DEF Init, TypeOK, Socks, Infos, NoInfo
  <2>4. InfoInv /\ CpuInv /\ TcpInv /\ CloseInv
    <3>1. /\ sock = [s \in AllSocks |->
                       [st |-> "none", tcp |-> "closed", local |-> 0, remote |-> 0, cb |-> "unset"]]
          /\ info = [s \in AllSocks |-> NoInfo] /\ cpu = [c \in CPUs |-> <<>>]
          /\ ring = <<>> /\ udp = <<>>
      BY DEF Init
    <3> QED
      BY ONLY <3>1, SMTT(30) DEF InfoInv, CpuInv, TcpInv, CloseInv, NoInfo
  <2>5. DeletedInv
    BY SMTT(30) DEF Init, DeletedInv
  <2>6. UdpInv
    <3>1. udp = <<>> /\ udp \in Seq(Events) /\ \A i \in 1 .. Len(udp) : FALSE
      BY SMTT(30) DEF Init
    <3>2. \A f \in Flows : Count(udp, f) = 0
      BY ONLY <3>1, CountNone, Zenon
    <3> QED
      BY <3>2, SMTT(30) DEF Init, UdpInv
  <2> QED
    BY <2>3, <2>4, <2>5, <2>6 DEF EventInv, SockInv
<1>2. EventInv /\ UNCHANGED <<layer, block, socks, kvars, uvars>> => EventInv'
  <2> SUFFICES ASSUME EventInv, UNCHANGED <<layer, block, socks, kvars, uvars>> PROVE EventInv'
    OBVIOUS
  <2>1. UNCHANGED <<layer, block, socks, live, sock, info, cpu, ring, lost, blind, udp, ended>>
    BY DEF kvars, uvars
  <2>2. TypeOK' /\ InfoInv' /\ CpuInv' /\ CloseInv'
    BY <2>1, ZenonT(40) DEF EventInv, SockInv, TypeOK, InfoInv, CpuInv, CloseInv
  <2>3. TcpInv' /\ UdpInv'
    BY <2>1, Zenon DEF EventInv, SockInv, TcpInv, UdpInv
  <2>4. DeletedInv'
    BY <2>1, DeletedSame DEF EventInv
  <2> QED
    BY <2>2, <2>3, <2>4 DEF EventInv, SockInv
<1>3. EventInv /\ [Next]_vars => EventInv'
  <2> SUFFICES ASSUME EventInv, [Next]_vars PROVE EventInv'
    OBVIOUS
  <2>1. CASE KernelStep /\ UNCHANGED <<layer, block, socks, uvars>>
    BY <2>1, KernelPreserves
  <2>2. CASE event_callback /\ UNCHANGED <<layer, block, socks>>
    BY <2>2, CallbackPreserves
  <2>3. CASE UNCHANGED <<layer, block, socks, kvars, uvars>>
    BY <1>2, <2>3
  <2> QED
    BY <2>1, <2>2, <2>3 DEF Next, vars
<1> QED
  BY <1>1, <1>3, PTL DEF Spec

\* For any sockets, endpoints, rules and rings: a CLOSE event names the socket's
\* endpoints and its owner, unless a program missed how the socket got them.
THEOREM CloseIsTruthful == Spec => []CloseNamesEndpoints
<1>1. EventInv => CloseNamesEndpoints
  BY Zenon DEF EventInv, CloseInv, CloseNamesEndpoints
<1> QED
  BY <1>1, EventInvariant, PTL

\* For any flows, tables, rings and CPUs: udp_release() reports all flows of
\* its socket and no other, every flow taken in is in the table, was reported
\* DELETED or forgotten, and TCP flows are DELETED once.
THEOREM FlowsArePaired == Spec => FlowsPaired
<1>1. EventInv => \A f \in Flows : FlowAccount(f)
  <2> SUFFICES ASSUME EventInv, NEW f \in Flows PROVE FlowAccount(f)
    OBVIOUS
  <2>1. CASE f[1] \in Tcp
    <3>1. ended[f].del \in {0, 1} /\ (ended[f].del = 1 => Announced(f, 0))
      BY <2>1 DEF EventInv, DeletedInv
    <3>2. ended[f].est \in Nat
      BY DEF EventInv, SockInv, TypeOK
    <3>3. ended[f].del > ended[f].est => ended[f].del = 1 /\ (f[1] \in lost \/ sock[f[1]].cb = "theirs")
      BY <3>1, <3>2, SMTT(30) DEF Announced
    <3> QED
      BY <2>1, <3>3 DEF FlowAccount
  <2>2. CASE f[1] \notin Tcp
    BY <2>2 DEF EventInv, UdpInv, FlowAccount
  <2> QED
    BY <2>1, <2>2
<1> DEFINE Released ==
        (ring # <<>> /\ Head(ring).event = "RELEASE" /\ ring' = Tail(ring))
            => \A f \in Flows : Count(udp', f) = IF f[1] = Head(ring).s THEN 0 ELSE Count(udp, f)
<1>2. EventInv /\ [Next]_vars => [Released]_vars
  <2> SUFFICES ASSUME EventInv, Next, ring # <<>>, Head(ring).event = "RELEASE", ring' = Tail(ring),
                      NEW f \in Flows
               PROVE  Count(udp', f) = IF f[1] = Head(ring).s THEN 0 ELSE Count(udp, f)
    OBVIOUS
  <2>1. ring \in Seq(Events) /\ SockInv /\ TypeOK /\ TcpInv
    BY DEF EventInv, SockInv, TypeOK
  <2>2. Len(ring') = Len(ring) - 1 /\ Len(ring) \in Nat
    BY <2>1, SMTT(30)
  <2>3. CASE event_callback
    <3>1. PICK e : e = Head(ring)
      OBVIOUS
    <3>2. Count(udp', f) = IF f[1] = e.s THEN 0 ELSE Count(udp, f)
      BY <2>1, <2>3, <3>1, CallbackIs, ZenonT(40)
    <3> QED
      BY <3>1, <3>2
  <2>4. CASE KernelStep
    <3>1. ring' = ring \/ \E x \in Events : ring' = Append(ring, x)
      BY <2>1, <2>4, KernelIs, ZenonT(40) DEF SocketStep, Silent, Says, submit
    <3>2. CASE ring' = ring
      BY <2>2, <3>2, SMTT(30)
    <3>3. CASE \E x \in Events : ring' = Append(ring, x)
      BY <2>1, <2>2, <3>3, SMTT(30)
    <3> QED
      BY <3>1, <3>2, <3>3, ZenonT(40)
  <2>5. CASE UNCHANGED kvars
    BY <2>2, <2>5, SMTT(30) DEF kvars
  <2> QED
    BY <2>3, <2>4, <2>5 DEF Next
<1> QED
  BY <1>1, <1>2, EventInvariant, PTL DEF Spec, FlowsPaired

-----------------------------------------------------------------------------
(* REFLECT.                                                                *)

LEMMA SweptRange ==
    ASSUME NEW T, NEW t \in Seq(T), NEW gone, NEW u, u = Swept(t, gone)
    PROVE  u \in Seq(T) /\ Range(u) = Range(t) \ gone
<1>1. PICK V : V \cap gone = {}
  BY {} \cap gone = {}
<1>2. u \in Seq(T) /\ Len(u) <= Len(t)
  BY ONLY <1>1, SweptIs, t \in Seq(T), u = Swept(t, gone), ZenonT(40)
<1>3. From(u, t) /\ Keeps(u, t, gone)
  BY ONLY <1>1, SweptIs, t \in Seq(T), u = Swept(t, gone), Zenon
<1>4. ASSUME NEW j \in 1 .. Len(u) PROVE u[j] \notin gone
  BY ONLY <1>1, <1>2, <1>4, SweptIs, t \in Seq(T), u = Swept(t, gone), Zenon
<1>5. DOMAIN u = 1 .. Len(u) /\ DOMAIN t = 1 .. Len(t)
  BY <1>2, SMTT(30)
<1>6. ASSUME NEW x \in Range(u) PROVE x \in Range(t) \ gone
  BY <1>3, <1>4, <1>5, <1>6, Zenon DEF Range, From
<1>7. ASSUME NEW x \in Range(t), x \notin gone PROVE x \in Range(u)
  BY <1>3, <1>5, <1>7, Zenon DEF Range, Keeps
<1> QED
  BY <1>2, <1>6, <1>7

\* A turn of the walk: OPEN of an id that was not reported yet.
LEMMA VisitStep ==
    ASSUME ReflectInv, AliveCoversSeen, NEW r \in Receivers, NEW i \in Ids, PollVisit(r, i)
    PROVE  ReflectInv'
<1>1. /\ seen \in Seq(Ids) /\ Len(seen) \in Nat /\ rc[r].pc = "walk" /\ lock = r
      /\ i \in reg /\ UNCHANGED <<reg, due, lock>>
      /\ \A q \in Receivers : rc[q].pc = "walk" <=> q = r
  <2>1. rc[r].pc = "walk" /\ i \in reg /\ UNCHANGED <<reg, due, lock>>
    BY Zenon DEF PollVisit
  <2> QED
    BY <2>1, SMTT(30) DEF ReflectInv, ReflectType
<1>2. PICK x : x = rc[r]
  OBVIOUS
<1>3. PICK n : n = IF i \in Range(seen) THEN x.size ELSE Len(seen) + 2
  OBVIOUS
<1>4. PICK y : y = [pc |-> "walk", zeroed |-> x.zeroed, size |-> n, alive |-> x.alive \cup {i},
                    visited |-> x.visited \cup {i}, must |-> x.must]
  BY ZenonT(40)
<1>5. /\ x \in RcType
      /\ rc \in [Receivers -> RcType]
  BY <1>2, Zenon DEF ReflectInv, ReflectType
<1>6. rc' = [rc EXCEPT ![r] = y]
  <2>1. y = [x EXCEPT !.visited = @ \cup {i}, !.alive = @ \cup {i}, !.size = n]
    <3>1. x \in RcType /\ x.pc = "walk"
      BY <1>1, <1>2, <1>5
    <3>2. PICK v, a : v = x.visited \cup {i} /\ a = x.alive \cup {i}
      BY Zenon
    <3>3. y = [pc |-> "walk", zeroed |-> x.zeroed, size |-> n, alive |-> a, visited |-> v,
               must |-> x.must]
      BY ONLY <1>4, <3>2
    <3>4. y = [x EXCEPT !.visited = v, !.alive = a, !.size = n]
      <4>1. PICK p, o, z, b, c, m :
              x = [pc |-> p, zeroed |-> o, size |-> z, alive |-> b, visited |-> c, must |-> m]
        BY ONLY <3>1 DEF RcType
      <4>2. p = "walk" /\ m = x.must /\ o = x.zeroed
        BY ONLY <3>1, <4>1
      <4>3. y = [pc |-> p, zeroed |-> o, size |-> n, alive |-> a, visited |-> v, must |-> m]
        BY ONLY <3>3, <4>2
      <4>4. PICK x1 : x1 = [x EXCEPT !.visited = v]
        BY Zenon
      <4>5. PICK x2 : x2 = [x1 EXCEPT !.alive = a]
        BY Zenon
      <4>6. x1 = [pc |-> p, zeroed |-> o, size |-> z, alive |-> b, visited |-> v, must |-> m]
        BY ONLY <4>1, <4>4
      <4>7. x2 = [pc |-> p, zeroed |-> o, size |-> z, alive |-> a, visited |-> v, must |-> m]
        BY ONLY <4>5, <4>6
      <4>8. y = [x2 EXCEPT !.size = n]
        BY ONLY <4>3, <4>7
      <4> QED
        BY ONLY <4>4, <4>5, <4>8
    <3>5. [x EXCEPT !.visited = v, !.alive = a, !.size = n]
            = [x EXCEPT !.visited = @ \cup {i}, !.alive = @ \cup {i}, !.size = n]
      BY ONLY <3>1, <3>2 DEF RcType
    <3> QED
      BY ONLY <3>4, <3>5
  <2>2. i \notin Range(seen) \/ \E k \in DOMAIN seen : seen[k] = i /\ k <= rc[r].size
    <3>1. Len(seen) <= rc[r].size /\ rc[r].size \in Nat
      BY <1>1, <1>2, <1>5 DEF AliveCoversSeen, RcType
    <3> QED
      BY <1>1, <3>1, Z3T(60) DEF Range
  <2>3. rc' = [rc EXCEPT ![r].visited = @ \cup {i}, ![r].alive = @ \cup {i},
                         ![r].size = IF i \in Range(seen) THEN @ ELSE Len(seen) + 2]
    BY <2>2, Zenon DEF PollVisit
  <2> QED
    BY ONLY <1>2, <1>3, <1>5, <2>1, <2>3, ZenonT(40) DEF RcType
<1>7. y \in RcType
  BY <1>1, <1>3, <1>4, <1>5, SMTT(30) DEF RcType
<1>8. \A q \in Receivers : rc'[q] = IF q = r THEN y ELSE rc[q]
  BY <1>5, <1>6
<1>9. rc' \in [Receivers -> RcType]
  BY <1>5, <1>6, <1>7
<1>10. \A q \in Receivers : rc'[q].pc = "walk" <=> lock' = q
  BY <1>1, <1>4, <1>8, SMTT(30)
<1>11. \A q \in Receivers : rc'[q].visited \subseteq rc'[q].alive
  BY <1>2, <1>4, <1>8, SMTT(30) DEF ReflectInv
<1>12. /\ seen' \in Seq(Ids) /\ Range(seen') = Range(seen) \cup {i}
       /\ told' \in [Ids -> {"none", "open", "closed"}]
       /\ \A k \in Ids : told'[k] = IF k = i THEN "open" ELSE told[k]
  <2>1. told \in [Ids -> {"none", "open", "closed"}]
    BY ZenonT(40) DEF ReflectInv, ReflectType
  <2>2. CASE i \in Range(seen)
    <3>1. seen' = seen /\ told' = told /\ told[i] = "open"
      BY <1>1, <2>2, ZenonT(40) DEF PollVisit, ReflectInv
    <3> QED
      BY <1>1, <2>1, <2>2, <3>1
  <2>3. CASE i \notin Range(seen)
    <3>1. seen' = Append(seen, i) /\ told' = Told(i, "OPEN")
      BY <2>3 DEF PollVisit
    <3>2. told[i] = "none"
      BY <1>1, <2>1, <2>3, Zenon DEF ReflectInv
    <3>3. told' = [told EXCEPT ![i] = "open"]
      BY <2>1, <3>1, <3>2 DEF Told
    <3>4. Range(seen') = Range(seen) \cup {i}
      BY <1>1, <3>1, SMTT(30) DEF Range
    <3> QED
      BY <1>1, <2>1, <3>1, <3>3, <3>4, SMTT(30)
  <2> QED
    BY <2>2, <2>3
<1>13. \A k \in Ids : k \in Range(seen') <=> told'[k] = "open"
  BY <1>12, Zenon DEF ReflectInv
<1>14. \A k \in reg' : told'[k] # "closed"
  BY <1>1, <1>12, ZenonT(40) DEF ReflectInv, ReflectType
<1>15. ASSUME NEW q \in Receivers, rc'[q].pc = "walk"
       PROVE  reg' \cap Range(seen') \subseteq rc'[q].must \cup rc'[q].visited
  BY <1>1, <1>2, <1>4, <1>8, <1>10, <1>12, <1>15, SMTT(30) DEF ReflectInv
<1>16. ASSUME NEW q \in Receivers, rc'[q].pc = "walk"
       PROVE  \A k \in DOMAIN seen' : k <= rc'[q].zeroed \/ seen'[k] \in rc'[q].alive
  <2>1. q = r /\ rc'[q] = y /\ y.zeroed = x.zeroed /\ y.alive = x.alive \cup {i}
    BY <1>1, <1>4, <1>8, <1>10, <1>16, ZenonT(40)
  <2>2. \A k \in DOMAIN seen : k <= x.zeroed \/ seen[k] \in x.alive
    BY <1>1, <1>2, ZenonT(40) DEF ReflectInv
  <2>3. \A k \in DOMAIN seen' : (k \in DOMAIN seen /\ seen'[k] = seen[k]) \/ seen'[k] = i
    <3>1. seen' = seen \/ seen' = Append(seen, i)
      BY ZenonT(40) DEF PollVisit
    <3> QED
      BY <1>1, <3>1, SMTT(30)
  <2> QED
    BY ONLY <2>1, <2>2, <2>3
<1>17. \A q \in Receivers : rc'[q].pc = "sized" => rc'[q].zeroed = rc'[q].size
  BY <1>4, <1>8, SMTT(30) DEF ReflectInv
<1> QED
  BY <1>1, <1>9, <1>10, <1>11, <1>12, <1>13, <1>14, <1>15, <1>16, <1>17, ZenonT(40)
  DEF ReflectInv, ReflectType

\* The end of the walk: CLOSE of what was not met.
LEMMA EndStep ==
    ASSUME ReflectInv, NEW r \in Receivers, PollEnd(r)
    PROVE  ReflectInv'
<1>1. /\ seen \in Seq(Ids) /\ rc[r].pc = "walk" /\ lock = r /\ lock' = Nobody /\ reg' = reg
      /\ \A q \in Receivers : rc[q].pc = "walk" <=> q = r
      /\ rc[r].must \cap reg \subseteq rc[r].visited
      /\ rc' = [rc EXCEPT ![r] = IdleReceiver]
  BY EventAssumption, ZenonT(40) DEF ReflectInv, ReflectType, PollEnd
<1>2. PICK gone : /\ gone \subseteq Range(seen) \ rc[r].alive
                  /\ seen' = Swept(seen, gone)
                  /\ told' = [i \in Ids |-> IF i \in gone THEN Told(i, "CLOSE")[i] ELSE told[i]]
  <2>1. PICK junk \in SUBSET {seen[k] : k \in (rc[r].zeroed + 1) .. Len(seen)} :
          LET g == {i \in Range(seen) : i \notin rc[r].alive /\ i \notin junk}
          IN  /\ seen' = Swept(seen, g)
              /\ told' = [i \in Ids |-> IF i \in g THEN Told(i, "CLOSE")[i] ELSE told[i]]
    BY ZenonT(40) DEF PollEnd
  <2>2. PICK g : g = {i \in Range(seen) : i \notin rc[r].alive /\ i \notin junk}
    BY Zenon
  <2>3. g \subseteq Range(seen) \ rc[r].alive
    BY <2>2
  <2> QED
    BY <2>1, <2>2, <2>3, Zenon
<1>3. seen' \in Seq(Ids) /\ Range(seen') = Range(seen) \ gone
  BY ONLY <1>1, <1>2, SweptRange
<1>4. /\ told \in [Ids -> {"none", "open", "closed"}]
      /\ rc \in [Receivers -> RcType]
  BY Zenon DEF ReflectInv, ReflectType
<1>5. \A i \in Ids : told'[i] = IF i \in gone THEN "closed" ELSE told[i]
  <2> SUFFICES ASSUME NEW i \in Ids, i \in gone PROVE Told(i, "CLOSE")[i] = "closed"
    BY <1>2
  <2>1. told[i] = "open"
    BY <1>2 DEF ReflectInv
  <2> QED
    BY <1>4, <2>1 DEF Told
<1>6. told' \in [Ids -> {"none", "open", "closed"}]
  BY <1>2, <1>4, <1>5
<1>7. \A i \in Ids : i \in Range(seen') <=> told'[i] = "open"
  BY <1>3, <1>5, ZenonT(40) DEF ReflectInv
<1>8. \A i \in reg' : told'[i] # "closed"
  <2> SUFFICES ASSUME NEW i \in reg, i \in gone PROVE FALSE
    BY <1>1, <1>5 DEF ReflectInv, ReflectType
  <2>1. i \in rc[r].must \cup rc[r].visited
    BY <1>1, <1>2, ZenonT(40) DEF ReflectInv
  <2>2. i \in rc[r].alive
    BY <1>1, <2>1, ZenonT(40) DEF ReflectInv
  <2> QED
    BY <1>2, <2>2, ZenonT(40)
<1>9. IdleReceiver \in RcType
      /\ IdleReceiver.pc = "idle" /\ IdleReceiver.visited = {}
  BY IdleIs
<1>10. \A q \in Receivers : rc'[q] = IF q = r THEN IdleReceiver ELSE rc[q]
  BY <1>1, <1>4
<1>11. rc' \in [Receivers -> RcType]
  BY <1>1, <1>4, <1>9
<1>12. \A q \in Receivers :
           /\ rc'[q].pc # "walk" /\ rc'[q].visited \subseteq rc'[q].alive
           /\ rc'[q].pc = "sized" => rc'[q].zeroed = rc'[q].size
  BY <1>1, <1>9, <1>10, SMTT(30) DEF ReflectInv
<1>13. \A q \in Receivers : rc'[q].pc = "walk" <=> lock' = q
  BY <1>1, <1>12, EventAssumption
<1> QED
  BY <1>1, <1>3, <1>6, <1>7, <1>8, <1>11, <1>12, <1>13, Zenon DEF ReflectInv, ReflectType

\* No id is reported CLOSE before OPEN, or twice, and none that is registered
\* is reported CLOSE (deliver_reflect in reflect_poll).
ReportsInOrder == \A i \in Ids : told[i] # "wrong" /\ (i \in reg => told[i] # "closed")

\* For any number of receivers that poll at the same time and of handles that
\* come and go: as long as reflect_poll() stays inside alive[], OPEN comes before
\* CLOSE, each once, and CLOSE only of handles that have left the registry.
THEOREM ReflectReportsInOrder == Spec /\ []AliveCoversSeen => []ReportsInOrder
<1>1. Init => ReflectInv
  <2> SUFFICES ASSUME Init PROVE ReflectInv
    OBVIOUS
  <2>1. Range(<<>>) = {}
    BY SMTT(30) DEF Range
  <2>2. /\ reg = {} /\ seen = <<>> /\ lock = Nobody /\ told = [i \in Ids |-> "none"]
        /\ rc = [r \in Receivers |-> IdleReceiver]
    BY DEF Init
  <2>3. /\ IdleReceiver \in RcType /\ IdleReceiver.pc = "idle" /\ IdleReceiver.visited = {}
    BY IdleIs
  <2> QED
    BY ONLY <2>1, <2>2, <2>3, EventAssumption, SMTT(30) DEF ReflectInv, ReflectType
<1>2. ReflectInv /\ AliveCoversSeen /\ AliveCoversSeen' /\ [Next]_vars => ReflectInv'
  <2> SUFFICES ASSUME ReflectInv, AliveCoversSeen, AliveCoversSeen', [Next]_vars PROVE ReflectInv'
    OBVIOUS
  <2>1. CASE UNCHANGED rvars
    BY <2>1, ZenonT(40) DEF rvars, ReflectInv, ReflectType
  <2>2. CASE \E i \in Ids : Register(i)
    BY <2>2, ZenonT(40) DEF Register, ReflectInv, ReflectType
  <2>3. CASE \E i \in Ids : Unregister(i)
    BY <2>3, ZenonT(40) DEF Unregister, ReflectInv, ReflectType
  <2>4. CASE Timer
    BY <2>4, ZenonT(40) DEF Timer, ReflectInv, ReflectType
  <2>5. CASE \E r \in Receivers : PollFails(r)
    BY <2>5, ZenonT(40) DEF PollFails, ReflectInv, ReflectType
  <2>6. CASE \E r \in Receivers : PollStart(r)
    <3>1. PICK r \in Receivers : PollStart(r)
      BY <2>6
    <3>2. PICK x, n, y : /\ x = rc[r] /\ n = Len(seen) + 1
                         /\ y = [x EXCEPT !.pc = "sized", !.zeroed = n, !.size = n]
      BY Zenon
    <3>3. /\ rc[r] \in RcType /\ rc \in [Receivers -> RcType] /\ Len(seen) \in Nat
          /\ rc[r].pc = "idle" /\ UNCHANGED <<reg, seen, lock, told>>
      BY <3>1, SMTT(30) DEF PollStart, ReflectInv, ReflectType
    <3>4. rc' = [rc EXCEPT ![r] = y]
      BY <3>1, <3>2, <3>3, Zenon DEF PollStart, RcType
    <3>5. /\ y \in RcType /\ y.pc = "sized" /\ y.visited = rc[r].visited /\ y.alive = rc[r].alive
          /\ y.zeroed = y.size
      <4>1. x \in RcType /\ n \in Nat
        BY <3>2, <3>3, SMTT(30)
      <4>2. y = [pc |-> "sized", zeroed |-> n, size |-> n, alive |-> x.alive,
                 visited |-> x.visited, must |-> x.must]
        BY ONLY <3>2, <4>1, Zenon DEF RcType
      <4> QED
        BY ONLY <3>2, <4>1, <4>2, ZenonT(40) DEF RcType
    <3> QED
      BY <3>3, <3>4, <3>5, Zenon DEF ReflectInv, ReflectType
  <2>7. CASE \E r \in Receivers : PollLock(r)
    <3>1. PICK r \in Receivers : PollLock(r)
      BY <2>7
    <3>2. PICK y : y = [rc[r] EXCEPT !.pc = "walk", !.must = reg]
      OBVIOUS
    <3>3. /\ rc[r] \in RcType /\ rc \in [Receivers -> RcType] /\ reg \subseteq Ids
          /\ lock = Nobody /\ lock' = r /\ UNCHANGED <<reg, seen, told>>
      BY <3>1 DEF PollLock, ReflectInv, ReflectType
    <3>4. rc' = [rc EXCEPT ![r] = y]
      BY <3>1, <3>2, <3>3, Zenon DEF PollLock, RcType
    <3>5. /\ y \in RcType /\ y.pc = "walk" /\ y.visited = rc[r].visited /\ y.alive = rc[r].alive
          /\ y.must = reg /\ y.zeroed = rc[r].zeroed /\ y.size = rc[r].size
      BY <3>2, <3>3, ZenonT(40) DEF RcType
    <3>6. \A q \in Receivers : rc[q].pc # "walk"
      BY <3>3, EventAssumption, Zenon DEF ReflectInv
    <3>7. Len(seen) <= y.zeroed /\ y.zeroed \in Nat
      <4>1. rc'[r] = y /\ rc[r].pc = "sized"
        BY <3>1, <3>3, <3>4, Zenon DEF PollLock
      <4> QED
        BY <3>3, <3>5, <4>1, Zenon DEF AliveCoversSeen, ReflectInv, RcType
    <3>8. \A k \in DOMAIN seen : k <= y.zeroed
      BY <3>7, SMTT(30) DEF ReflectInv, ReflectType
    <3> QED
      BY <3>3, <3>4, <3>5, <3>6, <3>8, ZenonT(40) DEF ReflectInv, ReflectType
  <2>8. CASE \E r \in Receivers, i \in Ids : PollVisit(r, i)
    BY <2>8, VisitStep
  <2>9. CASE \E r \in Receivers : PollEnd(r)
    BY <2>9, EndStep
  <2> QED
    BY <2>1, <2>2, <2>3, <2>4, <2>5, <2>6, <2>7, <2>8, <2>9
    DEF Next, ReflectStep, Poll, vars
<1>3. ReflectInv => ReportsInOrder
  BY Zenon DEF ReflectInv, ReflectType, ReportsInOrder
<1> QED
  BY <1>1, <1>2, <1>3, PTL DEF Spec

\* With one receiver reflect_poll() stays inside alive[]: between the allocation
\* and the lock nobody else adds to h->seen.
SizedInv ==
    /\ reg \subseteq Ids /\ seen \in Seq(Ids) /\ rc \in [Receivers -> RcType]
    /\ \A r \in Receivers : rc[r].pc # "idle" => Len(seen) <= rc[r].size

\* A REFLECT handle with one receiver: every flag reflect_poll() uses is one of
\* alive[], and so the events come in order.  With two it is false (run
\* reflect).
THEOREM OneReceiverStaysInside ==
    ASSUME \A q, r \in Receivers : q = r
    PROVE  Spec => []AliveCoversSeen /\ []ReportsInOrder
<1>1. Init => SizedInv
  <2> SUFFICES ASSUME Init PROVE SizedInv
    OBVIOUS
  <2>1. reg = {} /\ seen = <<>> /\ rc = [r \in Receivers |-> IdleReceiver]
    BY DEF Init
  <2>2. IdleReceiver \in RcType /\ IdleReceiver.pc = "idle"
    BY IdleIs
  <2>3. seen \in Seq(Ids)
    BY ONLY <2>1, SMTT(30)
  <2> QED
    BY ONLY <2>1, <2>2, <2>3, Zenon DEF SizedInv
<1>2. SizedInv /\ [Next]_vars => SizedInv'
  <2> SUFFICES ASSUME SizedInv, [Next]_vars PROVE SizedInv'
    OBVIOUS
  <2>1. CASE UNCHANGED <<reg, seen, rc>>
    BY <2>1 DEF SizedInv
  <2>2. CASE \E i \in Ids : Register(i) \/ Unregister(i)
    BY <2>2 DEF SizedInv, Register, Unregister
  <2>3. ASSUME NEW r \in Receivers, Poll(r) PROVE SizedInv'
    <3>1. \A q \in Receivers : q = r
      OBVIOUS
    <3>2. rc[r] \in RcType /\ seen \in Seq(Ids) /\ Len(seen) \in Nat /\ reg \subseteq Ids
      BY SMTT(30) DEF SizedInv
    <3>3. CASE PollStart(r)
      <4>1. PICK x, n, y : /\ x = rc[r] /\ n = Len(seen) + 1
                           /\ y = [x EXCEPT !.pc = "sized", !.zeroed = n, !.size = n]
        BY Zenon
      <4>2. x \in RcType /\ n \in Nat /\ Len(seen) <= n
        BY <3>2, <4>1, SMTT(30)
      <4>3. rc' = [rc EXCEPT ![r] = y] /\ seen' = seen /\ reg' = reg
        BY <3>2, <3>3, <4>1, Zenon DEF PollStart, SizedInv, RcType
      <4>4. y = [pc |-> "sized", zeroed |-> n, size |-> n, alive |-> x.alive,
                 visited |-> x.visited, must |-> x.must]
        BY ONLY <4>1, <4>2, Zenon DEF RcType
      <4>5. y \in RcType /\ y.size = n
        BY ONLY <4>2, <4>4 DEF RcType
      <4>6. rc' \in [Receivers -> RcType] /\ rc'[r].size = n
        BY <4>3, <4>5 DEF SizedInv
      <4> QED
        BY <3>1, <3>2, <4>2, <4>3, <4>6 DEF SizedInv
    <3>4. CASE PollLock(r)
      BY <3>1, <3>2, <3>4, ZenonT(40) DEF SizedInv, PollLock, RcType
    <3>5. ASSUME NEW i \in Ids, PollVisit(r, i) PROVE SizedInv'
      <4>1. PICK x : x = rc[r]
        OBVIOUS
      <4>2. PICK v, a, n : /\ v = x.visited \cup {i}
                           /\ a \in {x.alive, x.alive \cup {i}}
                           /\ n = IF i \in Range(seen) THEN x.size ELSE Len(seen) + 2
                           /\ rc' = [rc EXCEPT ![r].visited = v, ![r].alive = a, ![r].size = n]
        BY <3>2, <3>5, <4>1, Zenon DEF PollVisit, SizedInv
      <4>3. v \in SUBSET Ids /\ a \in SUBSET Ids /\ n \in Nat /\ x \in RcType
        BY ONLY <3>2, <4>1, <4>2, i \in Ids DEF RcType
      <4>4. PICK y : y = [x EXCEPT !.visited = v, !.alive = a, !.size = n]
        OBVIOUS
      <4>5. rc' = [rc EXCEPT ![r] = y]
        BY ONLY <4>1, <4>2, <4>3, <4>4, SizedInv, r \in Receivers, Zenon DEF SizedInv, RcType
      <4>6. y \in RcType /\ y.size = n
        BY ONLY <4>3, <4>4, Zenon DEF RcType
      <4>7. rc' \in [Receivers -> RcType] /\ rc'[r].size = n
        BY <4>5, <4>6 DEF SizedInv
      <4>8. seen' \in Seq(Ids) /\ reg' = reg /\ Len(seen') <= n
        <5>1. rc[r].pc = "walk" /\ reg' = reg
          BY <3>5, ZenonT(40) DEF PollVisit
        <5>2. x.size \in Nat /\ Len(seen) <= x.size
          BY <4>1, <4>3, <5>1 DEF SizedInv, RcType
        <5>3. seen' = IF i \in Range(seen) THEN seen ELSE Append(seen, i)
          BY <3>5, Zenon DEF PollVisit
        <5> QED
          BY ONLY <3>2, <4>2, <5>1, <5>2, <5>3, i \in Ids
      <4> QED
        BY <3>1, <3>2, <4>7, <4>8 DEF SizedInv
    <3>6. CASE PollEnd(r)
      <4>1. PICK gone : seen' = Swept(seen, gone)
        BY <3>6 DEF PollEnd
      <4>2. seen' \in Seq(Ids)
        BY ONLY <3>2, <4>1, SweptRange
      <4>3. rc' = [rc EXCEPT ![r] = IdleReceiver] /\ reg' = reg
        BY <3>6 DEF PollEnd
      <4>4. IdleReceiver \in RcType /\ IdleReceiver.pc = "idle"
        BY IdleIs
      <4>5. rc' \in [Receivers -> RcType] /\ rc'[r].pc = "idle"
        BY <4>3, <4>4 DEF SizedInv
      <4> QED
        BY <3>1, <3>2, <4>2, <4>3, <4>5 DEF SizedInv
    <3> QED
      BY <2>3, <3>3, <3>4, <3>5, <3>6 DEF Poll
  <2> QED
    BY <2>1, <2>2, <2>3, Zenon DEF Next, ReflectStep, Timer, PollFails, vars, rvars
<1>3. SizedInv => AliveCoversSeen
  BY DEF SizedInv, AliveCoversSeen
<1>4. Spec => []AliveCoversSeen
  BY <1>1, <1>2, <1>3, PTL DEF Spec
<1> QED
  BY <1>4, ReflectReportsInOrder, PTL
=============================================================================
