----------------------------- MODULE MCCapture -----------------------------
(***************************************************************************)
(* Capture on small texts and packets: ports 0..3, addresses of 5 bits of  *)
(* which 8..15 are the IPv4 ones, and limits small enough to be met.  An   *)
(* event number is below 2^V4_BITS, as it is below 2^32 in the code.       *)
(***************************************************************************)
EXTENDS Capture

BIND == SocketEvents.BIND
CONNECT == SocketEvents.CONNECT
LISTEN == SocketEvents.LISTEN
ACCEPTED == SocketEvents.ACCEPT
CLOSE == SocketEvents.CLOSE

Cond(f, op, v) == <<Tok(f), Tok(op)>> \o Number(v)
Is(f) == <<Tok(f)>>
No(f) == <<Tok("not"), Tok(f)>>
NoCond(f, op, v) == <<Tok("not")>> \o Cond(f, op, v)
P(t) == <<Tok("(")>> \o t \o <<Tok(")")>>
Bin(a, op, b) == a \o <<Tok(op)>> \o b
If3(c, t, e) == P(c \o <<Tok("?")>> \o t \o <<Tok(":")>> \o e)

NetTests ==
    {Is("outbound"), Is("ip"), No("tcp"), Is("udp"), No("icmp"),
     Is("icmpv6"), Is("impostor"), No("loopback"), Cond("ip.Protocol", "!=", UDP),
     Cond("ip.TTL", "!=", 1), Cond("ipv6.HopLimit", ">", 1), Cond("tcp.DstPort", "!=", 1),
     NoCond("tcp.SrcPort", "<=", 1), Cond("tcp.Syn", "=", 1), Cond("ip.SrcAddr", "!=", 9),
     Cond("ip.DstAddr", "<", 10), Cond("ipv6.SrcAddr", ">=", 17), Cond("localPort", "=", 1),
     Cond("remotePort", "<", 2), Cond("localAddr", "=", 9), Cond("icmp.Type", ">", 0),
     Cond("protocol", "=", TCP), Cond("tcp.DstPort", ">=", 0), Cond("localPort", ">", PORT_MAX),
     Cond("outbound", "<=", -1), Cond("udp.DstPort", "<", PORT_MAX)}

NetCore ==
    {Is("inbound"), No("tcp"), Cond("tcp.DstPort", "!=", 1), Cond("tcp.SrcPort", "!=", 2),
     Cond("localPort", "<", 2), Cond("ip.SrcAddr", "!=", 9)}

SockCore ==
    {Cond("event", "=", CONNECT), Is("tcp"), Cond("remotePort", ">=", 2),
     Cond("remoteAddr", "!=", 9)}

SockTests ==
    {Cond("event", "=", CONNECT), Cond("event", "<", LISTEN), Cond("event", "!=", CLOSE),
     Is("tcp"), No("udp"), Is("ip"), Cond("localPort", "!=", 1), Cond("remotePort", ">=", 2),
     Cond("remoteAddr", "!=", 9), Cond("localAddr", ">", 17), Cond("remoteAddr", "<=", 15),
     NoCond("processId", "=", 1), Is("loopback")}

\* A blocking filter with one rule more than there is room for.
SockWide ==
    Bin(Cond("event", "=", CONNECT), "and",
        P(Bin(Cond("remotePort", ">=", 2), "or", Bin(Is("tcp"), "or", Cond("processId", "=", 1)))))

\* Texts that are refused, and some that reach the limits.
Odd ==
    {<<>>, <<Tok("not")>>, <<Tok("not")>> \o P(Is("tcp")), P(Is("tcp") \o <<Tok("?")>> \o Is("ip")),
     Bin(Is("tcp"), "and", <<>>), <<Tok("tcp.DstPort"), Tok("=")>>, Is("processId"),
     P(P(P(P(Is("tcp"))))), Is("tcp") \o Is("udp"), Is("false"), Is("true"), No("true"),
     Bin(Bin(Cond("tcp.DstPort", "!=", 1), "and", Cond("tcp.DstPort", "!=", 2)), "and",
         Cond("tcp.DstPort", "<=", 3)),
     Bin(Bin(Is("tcp"), "and", Is("ip")), "or",
         Bin(Bin(Is("udp"), "and", Is("ipv6")), "or", Bin(Is("icmp"), "and", Is("outbound"))))}

Shapes(a, b, c) ==
    {Bin(a, "and", Bin(b, "or", c)), Bin(Bin(a, "or", b), "and", c),
     Bin(P(Bin(a, "or", b)), "and", c), Bin(a, "or", P(Bin(b, "and", c))), If3(a, b, c)}

MCFilters ==
    {<<"NETWORK", t>> : t \in Odd \cup NetTests}
    \cup {<<"NETWORK", Bin(a, op, b)>> : a, b \in NetTests, op \in {"and", "or"}}
    \cup {<<"NETWORK", t>> : t \in UNION {Shapes(a, b, c) : a, b, c \in NetCore}}
    \cup {<<"SOCKET", t>> : t \in SockTests \cup {SockWide}}
    \cup {<<"SOCKET", Bin(a, op, b)>> : a, b \in SockTests, op \in {"and", "or"}}
    \cup {<<"SOCKET", t>> : t \in UNION {Shapes(a, b, c) : a, b, c \in SockCore}}

MCModes == {<<"divert", FALSE>>, <<"sniff", TRUE>>, <<"drop", TRUE>>}

Pkt(ver, proto, out, src, dst, sport, dport) ==
    [layer |-> "NETWORK", ver |-> ver, proto |-> proto, hdr |-> TRUE, frag |-> FALSE,
     out |-> out, lo |-> FALSE, impostor |-> FALSE, src |-> src, dst |-> dst, sport |-> sport,
     dport |-> dport, ttl |-> 1, other |-> 0, flags |-> {}, event |-> 0, pid |-> 0]

Sock(event, proto, src, dst, sport, dport, pid) ==
    [Pkt(6, proto, FALSE, src, dst, sport, dport) EXCEPT
        !.layer = "SOCKET", !.event = event, !.pid = pid]

MCPackets ==
    {Pkt(4, TCP, TRUE, 9, 10, 1, 2), [Pkt(4, TCP, FALSE, 10, 9, 2, 1) EXCEPT !.flags = {"tcp.Syn"}],
     [Pkt(4, TCP, TRUE, 8, 9, 0, 3) EXCEPT !.ttl = 2], Pkt(6, TCP, TRUE, 17, 20, 1, 1),
     [Pkt(6, TCP, FALSE, 3, 17, 3, 0) EXCEPT !.ttl = 3], Pkt(4, UDP, FALSE, 11, 9, 1, 3),
     Pkt(6, UDP, TRUE, 23, 0, 2, 1), Pkt(4, ICMP, TRUE, 9, 9, 1, 0), Pkt(4, ICMP, FALSE, 10, 8, 0, 2),
     Pkt(6, ICMPV6, FALSE, 16, 17, 1, 0), Pkt(6, ICMP, TRUE, 18, 17, 0, 0),
     Pkt(4, PROTO_MAX, TRUE, 9, 11, 0, 0),
     [Pkt(4, UDP, TRUE, 9, 9, 1, 1) EXCEPT !.lo = TRUE], [Pkt(4, TCP, FALSE, 9, 9, 1, 1) EXCEPT !.lo = TRUE],
     [Pkt(4, TCP, TRUE, 10, 9, 2, 2) EXCEPT !.impostor = TRUE],
     [Pkt(4, TCP, FALSE, 10, 9, 2, 1) EXCEPT !.frag = TRUE, !.hdr = FALSE],
     [Pkt(4, UDP, TRUE, 8, 10, 1, 2) EXCEPT !.frag = TRUE],
     [Pkt(6, TCP, FALSE, 19, 17, 2, 1) EXCEPT !.frag = TRUE, !.hdr = FALSE]}
    \cup {Sock(BIND, TCP, 9, 0, 1, 0, 1), Sock(CONNECT, TCP, 9, 10, 2, 3, 2),
          Sock(CONNECT, UDP, 18, 9, 1, 1, 1), Sock(CONNECT, TCP, 20, 22, 3, 2, 0),
          Sock(LISTEN, TCP, 0, 0, 2, 0, 3), Sock(ACCEPTED, TCP, 9, 11, 2, 3, 1),
          Sock(CLOSE, UDP, 18, 9, 1, 2, 2)}
=============================================================================
