----------------------------- MODULE Prefilter -----------------------------
(***************************************************************************)
(* Lowering of a compiled filter to the rules the kernel programs can      *)
(* match (src/src/prefilter.c), and the matchers of the kernel programs    *)
(* (src/src/ebpfdivert.bpf.c, ebpfdivert_events.bpf.c).                    *)
(*                                                                         *)
(* A cube is a conjunction of constraints.  A constraint on a small field  *)
(* is the set of the values it still allows, one on a number is a range.   *)
(***************************************************************************)
EXTENDS Filter

CONSTANTS
    PF_MAX_STATES,
    PF_MAX_CUBES,
    MAX_RULES,
    EVENT_RULES_MAX

Addr_full == Range_full(ADDR_MAX)

-----------------------------------------------------------------------------
(* Cubes.  An operator that narrows a cube returns the sequence of the     *)
(* cubes that are left: none when the cube became empty.                   *)

EVM_MAX == EVENT_MAX + 2            \* 15: the events a mask has a bit for
TcpFlags == {"tcp.Syn", "tcp.Ack"}

Cube_init ==
    [exact |-> TRUE, ver |-> {4, 6}, dir |-> {1, 2}, loopback |-> {0, 1},
     proto |-> Range_full(PROTO_MAX), sport |-> Range_full(PORT_MAX),
     dport |-> Range_full(PORT_MAX), ttl |-> Range_full(PORT_MAX),
     src |-> Addr_full, dst |-> Addr_full, flags |-> [f \in TcpFlags |-> {0, 1}],
     event |-> Range_full(EVM_MAX), pid |-> Range_full(PID_MAX)]

\* The cube with one of its ranges replaced by the result of an apply.
With(c, slot, res) ==
    IF res[1].lo > res[1].hi THEN <<>>
    ELSE <<[c EXCEPT ![slot] = res[1], !.exact = @ /\ res[2]]>>

Cube_set_ver(c, v) == IF v \in c.ver THEN <<[c EXCEPT !.ver = {v}]>> ELSE <<>>
Cube_proto(c, test, proto) == With(c, "proto", Range_apply(c.proto, test, proto, PROTO_MAX))
Cube_proto_is(c, proto) == c.proto.lo = proto /\ c.proto.hi = proto

\* Both narrowings in turn.
Then(cs, F(_)) == FlattenSeq([i \in DOMAIN cs |-> F(cs[i])])

ProtoOf(hdr) ==
    CASE hdr = "tcp" -> TCP
      [] hdr = "udp" -> UDP
      [] hdr = "icmp" -> ICMP
      [] hdr = "icmpv6" -> ICMPV6

\* The version a header comes with, and the version it never comes with.
VerOf(hdr) == IF hdr \in {"ip", "icmp"} THEN 4 ELSE 6
NotVerOf(hdr) == 10 - VerOf(hdr)

\* The fields whose header can be absent in a rule.
RuleFields ==
    {"ip.TTL", "ip.Protocol", "ip.SrcAddr", "ip.DstAddr", "ipv6.HopLimit",
     "ipv6.SrcAddr", "ipv6.DstAddr", "tcp.SrcPort", "tcp.DstPort", "udp.SrcPort",
     "udp.DstPort", "icmp.Type", "icmp.Code", "icmpv6.Type", "icmpv6.Code"} \cup TcpFlags

Cube_has_header(c, f) ==
    LET hdr == Header(f)
    IN  /\ f \in RuleFields
        /\ hdr \in {"ip", "ipv6", "icmp", "icmpv6"} => c.ver = {VerOf(hdr)}
        /\ hdr \in {"tcp", "udp", "icmp", "icmpv6"} => Cube_proto_is(c, ProtoOf(hdr))

Cube_require_header(c, f) ==
    LET hdr == Header(f)
    IN  CASE hdr = "true" -> <<c>>
          [] hdr \in {"ip", "ipv6"} -> Cube_set_ver(c, VerOf(hdr))
          [] hdr \in {"tcp", "udp"} -> Cube_proto(c, "=", ProtoOf(hdr))
          [] hdr \in {"icmp", "icmpv6"} ->
                 Then(Cube_set_ver(c, VerOf(hdr)),
                      LAMBDA d : Cube_proto(d, "=", ProtoOf(hdr)))

\* The cubes of the packets that do not have the header.
Without(c, hdr) ==
    CASE hdr \in {"ip", "ipv6"} -> Cube_set_ver(c, NotVerOf(hdr))
      [] hdr \in {"tcp", "udp"} -> Cube_proto(c, "!=", ProtoOf(hdr))
      [] hdr \in {"icmp", "icmpv6"} ->
             Cube_set_ver(c, NotVerOf(hdr))
             \o Then(Cube_set_ver(c, VerOf(hdr)),
                     LAMBDA d : Cube_proto(d, "!=", ProtoOf(hdr)))

\* Mutant: the failure branch forgets the packets without the header.
Pf_absentNever(c, f) == <<>>

Pf_absent(c, f) == Without(c, Header(f))

\* A constraint on a value that is 0 or 1, given by the values it may have.
Apply_bool(slot, test, arg) == {v \in slot : Holds(test, v, arg)}

Zero_test(test, arg) == Holds(test, 0, arg)

-----------------------------------------------------------------------------
(* The walk.  A branch returns the cubes it continues with.                *)

Widened(c) == <<[c EXCEPT !.exact = FALSE]>>

\* ok = !neg && range_apply(...).
Range_field(c, slot, test, arg, max) ==
    IF arg < 0 THEN <<>> ELSE With(c, slot, Range_apply(c[slot], test, arg, max))

Set_field(c, slot, values) == IF values = {} THEN <<>> ELSE <<[c EXCEPT ![slot] = values]>>

Presence_field(c, f, test, arg) ==
    LET can == Apply_bool({0, 1}, test, arg)
    IN  CASE can = {} -> <<>>
          [] can = {0, 1} -> <<c>>
          [] can = {0} -> Without(c, f)
          [] can = {1} -> LET d == Cube_proto(c, "=", ProtoOf(f))
                          IN  IF f \in {"tcp", "udp"} THEN d
                              ELSE Then(d, LAMBDA x : Cube_set_ver(x, VerOf(f)))

Addr_field(c, f, test, arg) ==
    LET slot == IF f \in {"ip.SrcAddr", "ipv6.SrcAddr"} THEN "src" ELSE "dst"
        a == IF f \in V4AddrFields
             THEN [c[slot] EXCEPT !.lo = Max({@, V4_LO}), !.hi = Min({@, V4_HI})]
             ELSE c[slot]
    IN  IF arg < 0 THEN <<>> ELSE With(c, slot, Addr_apply(a, test, arg, ADDR_MAX))

\* localAddr and remoteAddr split the cube by direction.
Local_addr(c, f, test, arg) ==
    LET In(d) ==
            LET alt == [c EXCEPT !.dir = {d}]
                slot == IF (f = "localAddr") = (d = 2) THEN "src" ELSE "dst"
                r == With(alt, slot, Addr_apply(alt[slot], test, arg, ADDR_MAX))
            IN  CASE d \notin c.dir \/ r = <<>> -> <<>>
                  [] d \in c.dir /\ r # <<>> /\ Cardinality(c.ver) = 1 -> r
                  [] OTHER ->
                         IF test = "="
                         THEN <<[r[1] EXCEPT !.ver = {IF Is_mapped_ipv4(arg) THEN 4 ELSE 6}]>>
                         ELSE <<[r[1] EXCEPT !.exact = FALSE, ![slot] = Addr_full]>>
    IN  IF arg < 0 THEN <<>> ELSE In(1) \o In(2)

\* localPort and remotePort, of a cube whose protocol has ports.
Split_port(c, f, test, arg) ==
    LET In(d) ==
            LET slot == IF (f = "localPort") = (d = 2) THEN "sport" ELSE "dport"
            IN  IF d \notin c.dir THEN <<>>
                ELSE Range_field([c EXCEPT !.dir = {d}], slot, test, arg, PORT_MAX)
    IN  In(1) \o In(2)

\* They split by protocol first; the protocols without ports are widened.
Local_port(c, f, test, arg) ==
    LET Port_of(proto) == Then(Cube_proto(c, "=", proto), LAMBDA d : Split_port(d, f, test, arg))
    IN  CASE arg < 0 -> <<>>
          [] arg >= 0 /\ (Cube_proto_is(c, TCP) \/ Cube_proto_is(c, UDP)) ->
                 Split_port(c, f, test, arg)
          [] OTHER ->
                 Port_of(TCP) \o Port_of(UDP)
                 \o Then(Then(Cube_proto(c, "!=", TCP), LAMBDA d : Cube_proto(d, "!=", UDP)),
                         Widened)

\* The value of the field, present, passes the test.
Pf_value(c, f, test, arg) ==
    CASE f = "event" -> IF Zero_test(test, arg) THEN <<c>> ELSE <<>>
      [] f \in {"inbound", "outbound"} ->
             Set_field(c, "dir", {d \in c.dir : Holds(test, Bit((f = "inbound") = (d = 1)), arg)})
      [] f = "loopback" -> Set_field(c, "loopback", Apply_bool(c.loopback, test, arg))
      [] f \in {"ip", "ipv6"} ->
             Set_field(c, "ver", {v \in c.ver : Holds(test, Bit(v = VerOf(f)), arg)})
      [] f \in {"tcp", "udp", "icmp", "icmpv6"} -> Presence_field(c, f, test, arg)
      [] f = "ip.Protocol" -> Range_field(c, "proto", test, arg, PROTO_MAX)
      [] f \in {"ip.TTL", "ipv6.HopLimit"} ->
             IF test \in {"=", "!="} THEN Range_field(c, "ttl", test, arg, PORT_MAX)
             ELSE Widened(c)
      [] f \in {"tcp.SrcPort", "udp.SrcPort", "icmp.Type", "icmpv6.Type"} ->
             Range_field(c, "sport", test, arg, PORT_MAX)
      [] f \in {"tcp.DstPort", "udp.DstPort", "icmp.Code", "icmpv6.Code"} ->
             Range_field(c, "dport", test, arg, PORT_MAX)
      [] f \in TcpFlags ->
             LET slot == Apply_bool(c.flags[f], test, arg)
             IN  IF slot = {} THEN <<>> ELSE <<[c EXCEPT !.flags[f] = slot]>>
      [] f \in V4AddrFields \cup {"ipv6.SrcAddr", "ipv6.DstAddr"} -> Addr_field(c, f, test, arg)
      [] f \in {"localAddr", "remoteAddr"} -> Local_addr(c, f, test, arg)
      [] f \in {"localPort", "remotePort"} -> Local_port(c, f, test, arg)
      [] OTHER -> Widened(c)

\* Events: no header is ever absent, a failed test is the negated one.
Pf_branch_event(c, f, test, arg) ==
    CASE f = "event" -> Range_field(c, "event", test, arg, EVM_MAX)
      [] f = "processId" -> Range_field(c, "pid", test, arg, PID_MAX)
      [] f = "protocol" -> Range_field(c, "proto", test, arg, PROTO_MAX)
      [] f = "localPort" -> Range_field(c, "sport", test, arg, PORT_MAX)
      [] f = "remotePort" -> Range_field(c, "dport", test, arg, PORT_MAX)
      [] f \in {"localAddr", "remoteAddr"} ->
             LET slot == IF f = "localAddr" THEN "src" ELSE "dst"
             IN  IF arg < 0 THEN <<>> ELSE With(c, slot, Addr_apply(c[slot], test, arg, ADDR_MAX))
      [] f \in {"ip", "ipv6"} -> IF Zero_test(test, arg) THEN <<c>> ELSE <<>>
      [] f \in {"tcp", "udp"} -> Presence_field(c, f, test, arg)
      [] OTHER -> Widened(c)

AlwaysEvaluated == PresenceFields \cup {"inbound", "outbound", "loopback", "event"}

Pf_branch(insn, positive, c, event_mode) ==
    LET f == insn.field
        test == IF positive THEN insn.test ELSE Negate_test(insn.test)
        Value_of(d) == Pf_value(d, f, test, insn.arg)
    IN  CASE f = "zero" -> IF Zero_test(test, insn.arg) THEN <<c>> ELSE <<>>
          [] f # "zero" /\ event_mode -> Pf_branch_event(c, f, test, insn.arg)
          [] f # "zero" /\ ~event_mode /\ positive -> Then(Cube_require_header(c, f), Value_of)
          [] OTHER ->
                 CASE f \in AlwaysEvaluated \/ Cube_has_header(c, f) -> Value_of(c)
                   [] f \in RuleFields /\ ~Cube_has_header(c, f) ->
                          Pf_absent(c, f) \o Then(Cube_require_header(c, f), Value_of)
                   [] OTHER -> Widened(c)

RECURSIVE Pf_walk(_, _, _, _), Pf_continue(_, _, _, _, _)

\* Each of the cubes in turn, as pf_continue.
Pf_continue(ctx, obj, next, cs, event_mode) ==
    LET rest == Pf_continue(
            CASE next = REJECT -> ctx
              [] next = ACCEPT -> IF Len(ctx.cubes) >= PF_MAX_CUBES
                                  THEN [ctx EXCEPT !.overflow = TRUE]
                                  ELSE [ctx EXCEPT !.cubes = Append(@, cs[1])]
              [] OTHER -> Pf_walk(ctx, obj, <<next, cs[1]>>, event_mode),
            obj, next, Tail(cs), event_mode)
    IN  IF cs = <<>> THEN ctx ELSE rest

\* at is the instruction and the cube that reaches it.
Pf_walk(ctx, obj, at, event_mode) ==
    LET insn == obj[at[1]]
        taken == Pf_continue([ctx EXCEPT !.states = @ + 1], obj, insn.success,
                             Pf_branch(insn, TRUE, at[2], event_mode), event_mode)
    IN  CASE ctx.overflow -> ctx
          [] ~ctx.overflow /\ ctx.states + 1 > PF_MAX_STATES -> [ctx EXCEPT !.overflow = TRUE]
          [] OTHER -> Pf_continue(taken, obj, insn.failure,
                                  Pf_branch(insn, FALSE, at[2], event_mode), event_mode)

Walk(obj, event_mode) ==
    Pf_walk([cubes |-> <<>>, states |-> 0, overflow |-> FALSE], obj, <<1, Cube_init>>, event_mode)

-----------------------------------------------------------------------------
(* Rules.                                                                  *)

\* An address is covered by the smallest block of 2^k addresses; lo is its
\* base and hi is k.
Encode_addr(a) ==
    LET k == Min({i \in 0 .. ADDR_BITS : a.lo \div 2^i = a.hi \div 2^i})
        base == (a.lo \div 2^k) * 2^k
    IN  CASE a = Addr_full -> <<Inactive, TRUE>>
          [] a.excl # {} /\ <<a.lo, a.hi>> \in {<<0, ADDR_MAX>>, <<V4_LO, V4_HI>>} ->
                 <<Match(TRUE, TRUE, CHOOSE v \in a.excl : TRUE, 0), TRUE>>
          [] OTHER -> <<Match(k < ADDR_BITS, FALSE, base, k),
                        a.lo = base /\ a.hi = base + 2^k - 1 /\ a.excl = {}>>

Rule(c) ==
    LET sp == Encode_range(c.sport, PORT_MAX)
        dp == Encode_range(c.dport, PORT_MAX)
        pr == Encode_single(c.proto, PROTO_MAX)
        ttl == Encode_single(c.ttl, PORT_MAX)
        src == Encode_addr(c.src)
        dst == Encode_addr(c.dst)
        pid == Encode_range(c.pid, PID_MAX)
    IN  [rule |-> [proto |-> pr[1], sport |-> sp[1], dport |-> dp[1], ttl |-> ttl[1],
                   src |-> src[1], dst |-> dst[1], pid |-> pid[1], dir |-> c.dir,
                   loopback |-> c.loopback, flags |-> c.flags, ver |-> c.ver,
                   event |-> {e \in 0 .. EVM_MAX : Range_contains(c.event, e)}],
         exact |-> c.exact /\ \A e \in {sp, dp, pr, ttl, src, dst, pid} : e[2]]

MATCH_ALL == Rule(Cube_init).rule

\* Each cube of the walk as a rule; the rules alone; are all of them exact?
Rules(ctx) == [i \in DOMAIN ctx.cubes |-> Rule(ctx.cubes[i])]
RuleSeq(all) == [i \in DOMAIN all |-> all[i].rule]
AllExact(all) == \A i \in DOMAIN all : all[i].exact

\* The rules of the two families and whether they are exactly the filter.
Pf_lower(obj) ==
    LET OfFamily(all, v) == RuleSeq(SelectSeq(all, LAMBDA r : v \in r.rule.ver))
        Tables(overflow, all, v4, v6) ==
            IF overflow \/ Max({Len(v4), Len(v6)}) > MAX_RULES
            THEN [v4 |-> <<MATCH_ALL>>, v6 |-> <<MATCH_ALL>>, exact |-> FALSE]
            ELSE [v4 |-> v4, v6 |-> v6, exact |-> AllExact(all)]
        Lowered(overflow, all) == Tables(overflow, all, OfFamily(all, 4), OfFamily(all, 6))
        Of(ctx) == Lowered(ctx.overflow, Rules(ctx))
    IN  Of(Walk(obj, FALSE))

\* Mutant: too many rules count as exact.
Pf_lower_eventsCut(obj) ==
    LET Some(all) == [rules |-> SubSeq(RuleSeq(all), 1, Min({Len(all), EVENT_RULES_MAX})),
                      exact |-> AllExact(all)]
    IN  Some(Rules(Walk(obj, TRUE)))

\* The rules of a SOCKET filter; none at all when there are too many.
Pf_lower_events(obj) ==
    LET Lowered(ctx, all) ==
            IF ctx.overflow \/ Len(all) > EVENT_RULES_MAX THEN [rules |-> <<>>, exact |-> FALSE]
            ELSE [rules |-> RuleSeq(all), exact |-> AllExact(all)]
        Of(ctx) == Lowered(ctx, Rules(ctx))
    IN  Of(Walk(obj, TRUE))

-----------------------------------------------------------------------------
(* The kernel's matchers.                                                  *)

\* hi is the size of the block: compare the bits above it.
Addr_matches(m, a) == m.active => ((a \div 2^m.hi) = (m.lo \div 2^m.hi)) # m.invert

\* An IPv4 rule only keeps the low words; a block larger than the IPv4
\* addresses has the mask 0.
Addr_matches_v4(m, a) ==
    Addr_matches([m EXCEPT !.lo = @ % 2^V4_BITS, !.hi = Min({@, V4_BITS})], a % 2^V4_BITS)

\* Ports as parse_packet() reads them; 0 for a protocol it does not know.
Ports(p) ==
    LET known == \E h \in {"tcp", "udp", "icmp", "icmpv6"} : Present(h, p)
    IN  IF known THEN <<p.sport, p.dport>> ELSE <<0, 0>>

Matches_rule(r, p) ==
    LET Addr(m, a) == IF p.ver = 4 THEN Addr_matches_v4(m, a) ELSE Addr_matches(m, a)
    IN  /\ Addr(r.src, p.src) /\ Addr(r.dst, p.dst)
        /\ Matches(r.sport, Ports(p)[1]) /\ Matches(r.dport, Ports(p)[2])
        /\ Matches(r.proto, p.proto) /\ Matches(r.ttl, p.ttl)
        /\ IF p.out THEN 2 \in r.dir ELSE 1 \in r.dir
        /\ \A f \in TcpFlags : Bit(f \in p.flags) \in r.flags[f]
        /\ Bit(p.lo) \in r.loopback

Rule_match(r, e) ==
    /\ e.event \in r.event
    /\ Matches(r.proto, e.proto)
    /\ Matches(r.sport, e.sport) /\ Matches(r.dport, e.dport)
    /\ Matches(r.pid, e.pid)
    /\ Addr_matches(r.src, e.src) /\ Addr_matches(r.dst, e.dst)

=============================================================================
