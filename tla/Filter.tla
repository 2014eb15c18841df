------------------------------- MODULE Filter -------------------------------
(***************************************************************************)
(* The filter language: WinDivert's compiler, evaluator, analyser and      *)
(* formatter (src/src/wd/windivert_helper.c, windivert_shared.c), built    *)
(* into the library by wd_port.c.                                          *)
(*                                                                         *)
(* A filter text is the sequence of its tokens [kind, val].  Names and     *)
(* layout of the text are left to the tokenizer; the model starts at the   *)
(* checks the tokenizer makes on the fields.  Numbers keep their order and *)
(* their limits but are small: a port, a TTL or an ICMP type is in         *)
(* 0..PORT_MAX, a protocol in 0..PROTO_MAX, an address has ADDR_BITS bits  *)
(* and an IPv4 address is the address with the MAPPED prefix, as in        *)
(* ::ffff:a.b.c.d.                                                         *)
(***************************************************************************)
EXTENDS PfRange, Sequences, SequencesExt

CONSTANTS
    FILTER_MAXLEN,  \* WINDIVERT_FILTER_MAXLEN, the tests an object may have
    MAX_DEPTH,      \* the depth the parser starts with (1024)
    PORT_MAX,
    PROTO_MAX,
    EVENT_MAX,
    PID_MAX,
    ADDR_BITS,      \* bits of an address (128)
    V4_BITS         \* bits of an IPv4 address (32)

-----------------------------------------------------------------------------
(* Numbers.                                                                *)

\* Protocol numbers, in the order of IPPROTO_ICMP, _TCP, _UDP and _ICMPV6.
ICMP == 1
TCP == 2
UDP == 3
ICMPV6 == 4

ADDR_MAX == 2^ADDR_BITS - 1

\* The IPv4 addresses among all addresses: those of prefix 0..01.
V4_LO == 2^V4_BITS
V4_HI == 2 * 2^V4_BITS - 1

Is_mapped_ipv4(a) == a \in V4_LO .. V4_HI

-----------------------------------------------------------------------------
(* Fields.                                                                 *)

\* The header a field belongs to, "true" for a field every packet has.
Header(f) ==
    CASE f \in {"ip.TTL", "ip.Protocol", "ip.SrcAddr", "ip.DstAddr", "ip.TOS"} -> "ip"
      [] f \in {"ipv6.HopLimit", "ipv6.SrcAddr", "ipv6.DstAddr"} -> "ipv6"
      [] f \in {"tcp.SrcPort", "tcp.DstPort", "tcp.Syn", "tcp.Ack", "tcp.Window"} -> "tcp"
      [] f \in {"udp.SrcPort", "udp.DstPort"} -> "udp"
      [] f \in {"icmp.Type", "icmp.Code"} -> "icmp"
      [] f \in {"icmpv6.Type", "icmpv6.Code"} -> "icmpv6"
      [] OTHER -> "true"

PresenceFields == {"ip", "ipv6", "tcp", "udp", "icmp", "icmpv6"}
BoolFields == PresenceFields \cup {"inbound", "outbound", "tcp.Syn", "tcp.Ack"}
V4AddrFields == {"ip.SrcAddr", "ip.DstAddr"}
AddrFields == {"ipv6.SrcAddr", "ipv6.DstAddr", "localAddr", "remoteAddr"}

NetworkFields ==
    PresenceFields
    \cup {"zero", "event", "inbound", "outbound", "loopback", "impostor",
          "ip.TTL", "ip.Protocol", "ip.TOS", "ipv6.HopLimit", "tcp.SrcPort",
          "tcp.DstPort", "tcp.Syn", "tcp.Ack", "tcp.Window", "udp.SrcPort",
          "udp.DstPort", "icmp.Type", "icmp.Code", "icmpv6.Type",
          "icmpv6.Code", "localPort", "remotePort", "protocol"}
    \cup V4AddrFields \cup AddrFields
SocketFields ==
    PresenceFields
    \cup {"zero", "event", "inbound", "outbound", "loopback", "processId",
          "localAddr", "remoteAddr", "localPort", "remotePort", "protocol"}

\* The fields a layer has; "true" and "false" are constants of every layer.
ValidateField(layer, f) ==
    f \in IF layer = "SOCKET" THEN SocketFields ELSE NetworkFields

\* The values a field can have, as far as the compiler knows; a field with no
\* bounds here is one whose tests it leaves alone.
Bounds(f) ==
    CASE f \in BoolFields -> <<0, 1>>
      [] f \in {"zero", "false"} -> <<0, 0>>
      [] f = "true" -> <<1, 1>>
      [] f = "event" -> <<0, EVENT_MAX>>
      [] f = "processId" -> <<0, PID_MAX>>
      [] f \in {"ip.Protocol", "protocol"} -> <<0, PROTO_MAX>>
      [] f \in V4AddrFields -> <<V4_LO, V4_HI>>
      [] f \in AddrFields -> <<0, ADDR_MAX>>
      [] f \in {"loopback", "impostor"} -> <<>>
      [] OTHER -> <<0, PORT_MAX>>

-----------------------------------------------------------------------------
(* Packets and events, as the evaluator sees them.                         *)

Present(h, p) ==
    CASE h = "true" -> TRUE
      [] h = "ip" -> p.layer = "NETWORK" /\ p.ver = 4
      [] h = "ipv6" -> p.layer = "NETWORK" /\ p.ver = 6
      [] h = "tcp" -> p.hdr /\ p.proto = TCP
      [] h = "udp" -> p.hdr /\ p.proto = UDP
      [] h = "icmp" -> p.hdr /\ p.ver = 4 /\ p.proto = ICMP
      [] h = "icmpv6" -> p.hdr /\ p.ver = 6 /\ p.proto = ICMPV6

Bit(b) == IF b THEN 1 ELSE 0

\* localPort and remotePort: the port of TCP and UDP, the type of an ICMP
\* packet on its source side, and 0 otherwise.
Port(p, source) ==
    CASE Present("tcp", p) \/ Present("udp", p) -> IF source THEN p.sport ELSE p.dport
      [] Present("icmp", p) \/ Present("icmpv6", p) -> IF source THEN p.sport ELSE 0
      [] OTHER -> 0

\* A SOCKET event keeps its local endpoint in src and sport, its remote one
\* in dst and dport.
Source(f, p) ==
    \/ f \in {"ip.SrcAddr", "ipv6.SrcAddr", "tcp.SrcPort", "udp.SrcPort"}
    \/ f \in {"localAddr", "localPort"} /\ (p.layer = "SOCKET" \/ p.out)
    \/ f \in {"remoteAddr", "remotePort"} /\ p.layer = "NETWORK" /\ ~p.out

Value(f, p) ==
    CASE f = "zero" -> 0
      [] f = "event" -> p.event
      [] f = "processId" -> p.pid
      [] f = "inbound" -> Bit(~p.out)
      [] f = "outbound" -> Bit(p.out)
      [] f = "loopback" -> Bit(p.lo)
      [] f = "impostor" -> Bit(p.impostor)
      [] f \in PresenceFields -> Bit(Present(f, p))
      [] f \in {"ip.TTL", "ipv6.HopLimit"} -> p.ttl
      [] f \in {"ip.Protocol", "protocol"} -> p.proto
      [] f \in {"ip.TOS", "tcp.Window"} -> p.other
      [] f \in {"tcp.Syn", "tcp.Ack"} -> Bit(f \in p.flags)
      [] f \in {"icmp.Type", "icmpv6.Type"} -> p.sport
      [] f \in {"icmp.Code", "icmpv6.Code"} -> p.dport
      [] f \in V4AddrFields \cup AddrFields -> IF Source(f, p) THEN p.src ELSE p.dst
      [] f \in {"localPort", "remotePort"} ->
             IF p.layer = "SOCKET" THEN IF f = "localPort" THEN p.sport ELSE p.dport
             ELSE Port(p, Source(f, p))
      [] OTHER -> IF Source(f, p) THEN p.sport ELSE p.dport

-----------------------------------------------------------------------------
(* Parser.  Each operator returns the expression and the position after    *)
(* it; an error is the expression ERROR.                                   *)

ERROR == [kind |-> "error"]

Test(f, test, arg) == [kind |-> "test", field |-> f, test |-> test, arg |-> arg]
BinOp(k, a, b) ==
    IF ERROR \in {a, b} THEN ERROR ELSE [kind |-> k, a |-> a, b |-> b]
IfThenElse(c, t, e) ==
    IF ERROR \in {c, t, e} THEN ERROR ELSE [kind |-> "?", c |-> c, a |-> t, b |-> e]

Kind(toks, i) == IF i > Len(toks) THEN "end" ELSE toks[i].kind

Fields == NetworkFields \cup SocketFields \cup {"true", "false"}

RECURSIVE ParseTest(_, _, _)
ParseTest(toks, i, not) ==
    LET f == Kind(toks, i)
        test == Kind(toks, i + 1)
        j == IF Kind(toks, i + 2) = "-" THEN i + 3 ELSE i + 2
        sign == IF j = i + 3 THEN -1 ELSE 1
    IN  CASE f = "not" -> ParseTest(toks, i + 1, ~not)
          [] f \notin Fields \cup {"not"} -> <<ERROR, i>>
          [] f \in Fields /\ test \notin Tests ->
                 <<Test(f, IF not THEN "=" ELSE "!=", 0), i + 1>>
          [] f \in Fields /\ test \in Tests /\ Kind(toks, j) # "number" -> <<ERROR, j>>
          [] OTHER ->
                 <<Test(f, IF not THEN Negate_test(test) ELSE test, sign * toks[j].val), j + 1>>

RECURSIVE ParseFilter(_, _, _, _), ParseAndOrArg(_, _, _), ParseRest(_, _, _, _)

ParseAndOrArg(toks, i, depth) ==
    LET c == ParseFilter(toks, i + 1, depth - 1, FALSE)
        t == ParseFilter(toks, c[2] + 1, depth - 1, FALSE)
        e == ParseFilter(toks, t[2] + 1, depth - 1, FALSE)
    IN  CASE depth < 0 -> <<ERROR, i>>
          [] depth >= 0 /\ Kind(toks, i) # "(" -> ParseTest(toks, i, FALSE)
          [] OTHER ->
                 CASE Kind(toks, c[2]) = ")" -> <<c[1], c[2] + 1>>
                   [] Kind(toks, c[2]) = "?" ->
                          IF Kind(toks, t[2]) = ":" /\ Kind(toks, e[2]) = ")"
                          THEN <<IfThenElse(c[1], t[1], e[1]), e[2] + 1>>
                          ELSE <<ERROR, c[2]>>
                   [] OTHER -> <<ERROR, c[2]>>

ParseRest(toks, expr, i, depth) ==
    LET arg == IF Kind(toks, i) = "and" THEN ParseAndOrArg(toks, i + 1, depth)
               ELSE ParseFilter(toks, i + 1, depth, TRUE)
    IN  IF expr = ERROR \/ Kind(toks, i) \notin {"and", "or"} THEN <<expr, i>>
        ELSE ParseRest(toks, BinOp(Kind(toks, i), expr, arg[1]), arg[2], depth)

ParseFilter(toks, i, depth, and) ==
    LET first == IF and THEN ParseAndOrArg(toks, i, depth - 1)
                 ELSE ParseFilter(toks, i, depth - 1, TRUE)
    IN  IF depth < 0 THEN <<ERROR, i>>
        ELSE ParseRest(toks, first[1], first[2], depth - 1)

-----------------------------------------------------------------------------
(* Compiler.                                                               *)

\* Jump targets of an object: an index of it, or a verdict.
ACCEPT == 0
REJECT == -1
TOO_LONG == -2

\* Mutant: "<" counts as always true at the largest value already.
SimplifyTestAtEdge(t) ==
    LET b == Bounds(t.field)
    IN  IF b # <<>> /\ t.test = "<" /\ t.arg >= b[2] THEN Test(Header(t.field), "=", 1) ELSE t

\* A test the bounds of its field decide becomes a test of the field's header.
SimplifyTest(t) ==
    LET b == Bounds(t.field)
        above == t.arg > b[2]
        below == t.arg < b[1]
        decided ==
            CASE t.test = "=" -> <<b[1] = b[2] /\ t.arg = b[1], above \/ below>>
              [] t.test = "!=" -> <<above \/ below, b[1] = b[2] /\ t.arg = b[1]>>
              [] t.test = "<" -> <<above, t.arg <= b[1]>>
              [] t.test = "<=" -> <<t.arg >= b[2], below>>
              [] t.test = ">" -> <<below, t.arg >= b[2]>>
              [] t.test = ">=" -> <<t.arg <= b[1], above>>
        hdr == Header(t.field)
    IN  CASE b = <<>> -> t
          [] b # <<>> /\ decided[1] -> Test(hdr, "=", 1)
          [] b # <<>> /\ decided[2] /\ ~decided[1] -> Test(hdr, "=", 0)
          [] OTHER -> t

\* Returns the entry label and the stack of the tests pushed so far, each with
\* the labels it jumps to; a label is a position of the stack or a verdict.
RECURSIVE FlattenExpr(_, _, _, _)
FlattenExpr(e, stack, succ, fail) ==
    CASE TOO_LONG \in {succ, fail} -> <<TOO_LONG, stack>>
      [] TOO_LONG \notin {succ, fail} /\ e.kind = "and" ->
             LET r == FlattenExpr(e.b, stack, succ, fail)
             IN  FlattenExpr(e.a, r[2], r[1], fail)
      [] TOO_LONG \notin {succ, fail} /\ e.kind = "or" ->
             LET r == FlattenExpr(e.b, stack, succ, fail)
             IN  FlattenExpr(e.a, r[2], succ, r[1])
      [] TOO_LONG \notin {succ, fail} /\ e.kind = "?" ->
             LET f1 == FlattenExpr(e.b, stack, succ, fail)
                 s1 == FlattenExpr(e.a, f1[2], succ, fail)
             IN  FlattenExpr(e.c, s1[2], s1[1], f1[1])
      [] OTHER ->
             LET t == SimplifyTest(e)
             IN  CASE t.field = "true" /\ t.test = "=" ->
                          <<IF t.arg # 0 THEN succ ELSE fail, stack>>
                   [] t.field # "true" /\ Len(stack) >= FILTER_MAXLEN -> <<TOO_LONG, stack>>
                   [] OTHER -> <<Len(stack) + 1,
                                 Append(stack, [t EXCEPT !.kind = <<succ, fail>>])>>

\* An instruction of an object.
Insn(f, test, arg, success, failure) ==
    [field |-> f, test |-> test, arg |-> arg, success |-> success, failure |-> failure]

\* The object: the pushed tests from the entry down, so that jumps go forward.
EmitFilter(stack, label) ==
    LET Target(l) == IF l \in {ACCEPT, REJECT} THEN l ELSE label - l + 1
        EmitTest(t) == Insn(t.field, t.test, t.arg, Target(t.kind[1]), Target(t.kind[2]))
    IN  IF label \in {ACCEPT, REJECT} THEN <<Insn("zero", "=", 0, label, label)>>
        ELSE [i \in 1 .. label |-> EmitTest(stack[label - i + 1])]

\* The empty sequence stands for a compile error: an object has a test at least.
CompileFilter(toks, layer) ==
    LET known == \A i \in DOMAIN toks : toks[i].kind \in Fields \ {"true", "false"} =>
                                            ValidateField(layer, toks[i].kind)
        Emitted(flat) == IF flat[1] = TOO_LONG THEN <<>> ELSE EmitFilter(flat[2], flat[1])
        Compiled(r) == IF r[1] = ERROR \/ r[2] <= Len(toks) THEN <<>>
                       ELSE Emitted(FlattenExpr(r[1], <<>>, ACCEPT, REJECT))
    IN  IF known THEN Compiled(ParseFilter(toks, 1, MAX_DEPTH, FALSE)) ELSE <<>>

-----------------------------------------------------------------------------
(* Evaluator.                                                              *)

RunTest(insn, p) ==
    Present(Header(insn.field), p) /\ Holds(insn.test, Value(insn.field, p), insn.arg)

RECURSIVE ExecuteFrom(_, _, _)
ExecuteFrom(obj, ip, p) ==
    LET next == IF RunTest(obj[ip], p) THEN obj[ip].success ELSE obj[ip].failure
    IN  IF next \in {ACCEPT, REJECT} THEN next = ACCEPT ELSE ExecuteFrom(obj, next, p)

ExecuteFilter(obj, p) == ExecuteFrom(obj, 1, p)

-----------------------------------------------------------------------------
(* Analyser.                                                               *)

\* Backward pass under the assumption that field has the value arg; FALSE
\* means that no such packet is accepted.
CondExecFilter(obj, field, arg) ==
    LET step[ip \in 0 .. Len(obj)] ==      \* results for the last ip tests
            IF ip = 0 THEN <<>>
            ELSE LET rest == step[ip - 1]
                     here == Len(obj) - ip + 1
                     At(l) == IF l \in {ACCEPT, REJECT} THEN l = ACCEPT ELSE rest[l - here]
                     insn == obj[here]
                     s == At(insn.success)
                     f == At(insn.failure)
                     small == insn.arg \in 0 .. V4_LO - 1
                     r == CASE s = f -> s
                            [] s # f /\ insn.field = field /\ small ->
                                   IF Holds(insn.test, arg, insn.arg) THEN s ELSE f
                            [] OTHER -> TRUE
                 IN  <<r>> \o rest
    IN  step[Len(obj)][1]

\* The events of the SOCKET layer, each with a flag of its own.
SocketEvents == [BIND |-> 3, CONNECT |-> 4, LISTEN |-> 5, ACCEPT |-> 6, CLOSE |-> 7]

AnalyzeFilter(layer, obj) ==
    LET May(field, arg) == CondExecFilter(obj, field, arg)
        Either(yes, no) == May(yes, 1) /\ May(no, 0)
    IN  IF ~May("zero", 0) THEN {}
        ELSE {f \in {"INBOUND", "OUTBOUND"} :
                 /\ layer = "NETWORK"
                 /\ f = "INBOUND" => Either("inbound", "outbound")
                 /\ f = "OUTBOUND" => Either("outbound", "inbound")}
             \cup {f \in {"IP", "IPV6"} :
                 /\ f = "IP" => Either("ip", "ipv6")
                 /\ f = "IPV6" => Either("ipv6", "ip")}
             \cup {f \in DOMAIN SocketEvents :
                     layer = "SOCKET" /\ May("event", SocketEvents[f])}
=============================================================================
