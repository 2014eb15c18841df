------------------------------ MODULE Capture ------------------------------
(***************************************************************************)
(* A handle's filter from its text to the fate of a packet or of a socket  *)
(* operation: ebpfdivert_open() compiles and analyses the text             *)
(* (wd_filter_compile), lowers it to rules and configures the kernel       *)
(* program (load_rules, open_network, open_events); the program judges a   *)
(* packet by the rules (process_packet) or blocks a socket operation       *)
(* (should_block); what it hands to user space is judged again by the      *)
(* filter where the rules were not exact (ring_callback, deliver_event).   *)
(*                                                                         *)
(* The queue, its limits and the path of a packet through several handles  *)
(* are the subject of Receive and PacketPath.                              *)
(***************************************************************************)
EXTENDS FilterText, Prefilter

CONSTANTS
    Filters,        \* pairs of a layer and a text
    Modes,          \* pairs of an action (divert, sniff, drop) and FLAG_FRAGMENTS
    Packets,        \* NETWORK packets and SOCKET events
    NoPacket

VARIABLES
    h,              \* the handle: open or not, layer, text, action, fragments
    obj,            \* h->filter: the compiled object
    cfg,            \* flags of config_map: NO_INBOUND, NO_OUTBOUND, FRAGMENTS, BLOCK
    rules,          \* filter_rules and filter_rules_ipv6, or event_rules
    exact,          \* h->exact
    pkt,            \* the packet or event it judged; one, as they are independent
    fate            \* what became of it

vars == <<h, obj, cfg, rules, exact, pkt, fate>>

Refusable == {SocketEvents.BIND, SocketEvents.CONNECT}

NoRules == [v4 |-> <<>>, v6 |-> <<>>, events |-> <<>>]
Closed == [open |-> FALSE, layer |-> "NETWORK", text |-> <<>>, action |-> "divert"]

Init ==
    /\ h = Closed
    /\ obj = <<>>
    /\ cfg = {}
    /\ rules = NoRules
    /\ exact = FALSE
    /\ pkt = NoPacket
    /\ fate = "none"

-----------------------------------------------------------------------------
(* Open.  A text that does not compile or a SOCKET filter that cannot      *)
(* block leaves no handle behind.                                          *)

Handle(f, m) == [open |-> TRUE, layer |-> f[1], text |-> f[2], action |-> m[1]]

\* open_network and load_rules.
Open_network(f, m) ==
    LET Flag(name, on) == IF on THEN {name} ELSE {}
    IN  /\ ~h.open /\ f[1] = "NETWORK"
        /\ h' = Handle(f, m)
        /\ \E o \in {CompileFilter(f[2], f[1])} :
             /\ o # <<>>
             /\ obj' = o
             /\ \E ff \in {AnalyzeFilter(f[1], o)} :
                  cfg' = Flag("FRAGMENTS", m[2]) \cup Flag("NO_INBOUND", "INBOUND" \notin ff)
                         \cup Flag("NO_OUTBOUND", "OUTBOUND" \notin ff)
             /\ \E res \in {Pf_lower(o)} :
                  /\ rules' = [NoRules EXCEPT !.v4 = res.v4, !.v6 = res.v6]
                  /\ exact' = res.exact
        /\ UNCHANGED <<pkt, fate>>

\* open_events on the SOCKET layer: without SNIFF the kernel refuses the
\* operations the filter matches, so it must have the exact filter.
Open_events(f, m) ==
    LET block == m[1] # "sniff"
    IN  /\ ~h.open /\ f[1] = "SOCKET"
        /\ h' = Handle(f, m)
        /\ \E o \in {CompileFilter(f[2], f[1])} :
             /\ o # <<>>
             /\ obj' = o
             /\ block => {"LISTEN", "ACCEPT"} \cap AnalyzeFilter(f[1], o) = {}
             /\ \E res \in {Pf_lower_events(o)} :
                  /\ block => res.exact
                  /\ rules' = [NoRules EXCEPT !.events = IF block THEN res.rules ELSE <<>>]
        /\ cfg' = IF block THEN {"BLOCK"} ELSE {}
        /\ exact' = FALSE
        /\ UNCHANGED <<pkt, fate>>

Close ==
    /\ h.open
    /\ h' = Closed /\ obj' = <<>> /\ cfg' = {} /\ rules' = NoRules /\ exact' = FALSE
    /\ pkt' = NoPacket /\ fate' = "none"

-----------------------------------------------------------------------------
(* A packet.                                                               *)

\* What process_packet() returns for the packet: left alone, taken, copied or
\* dropped.
Verdict(p) ==
    LET table == IF p.ver = 4 THEN rules.v4 ELSE rules.v6
        skipped == \/ ~p.out /\ (p.lo \/ "NO_INBOUND" \in cfg)
                   \/ p.out /\ "NO_OUTBOUND" \in cfg
                   \/ p.frag /\ ~p.out /\ "FRAGMENTS" \notin cfg
        matched == IF p.frag THEN table # <<>>
                   ELSE \E i \in DOMAIN table : Matches_rule(table[i], p)
        \* load_rules puts the same action into every rule; fragments lose it
        drop == h.action = "drop" /\ exact /\ ~p.frag
    IN  CASE skipped \/ ~matched -> "network"
          [] ~skipped /\ matched /\ drop -> "dropped"
          [] OTHER -> IF h.action = "sniff" THEN "copy" ELSE "taken"

\* ring_callback: the filter itself where the rules were not enough.
Ring_callback(p, v) ==
    LET judged == ~exact \/ p.frag
        match == ExecuteFilter(obj, p)
    IN  CASE judged /\ ~match -> "network"      \* re-injected, unless sniffed
          [] judged /\ match /\ h.action = "drop" -> "dropped"
          [] OTHER -> IF v = "copy" THEN "copied" ELSE "queued"

Packet(p) ==
    /\ h.open /\ h.layer = "NETWORK" /\ p.layer = "NETWORK" /\ pkt = NoPacket
    /\ pkt' = p
    /\ fate' = LET v == Verdict(p)
               IN  IF v \in {"copy", "taken"} THEN Ring_callback(p, v) ELSE v
    /\ UNCHANGED <<h, obj, cfg, rules, exact>>

-----------------------------------------------------------------------------
(* A socket operation.                                                     *)

Should_block(e) ==
    /\ "BLOCK" \in cfg
    /\ \E i \in DOMAIN rules.events : Rule_match(rules.events[i], e)

\* on_bind, on_connect and the hooks of the other events; deliver_event.
Event(e) ==
    LET blocked == e.event \in Refusable /\ Should_block(e)
        delivered == ExecuteFilter(obj, e)
    IN  /\ h.open /\ h.layer = "SOCKET" /\ e.layer = "SOCKET" /\ pkt = NoPacket
        /\ pkt' = e
        /\ fate' = CASE blocked /\ delivered -> "refused and reported"
                     [] blocked /\ ~delivered -> "refused"
                     [] ~blocked /\ delivered -> "reported"
                     [] OTHER -> "none"
        /\ UNCHANGED <<h, obj, cfg, rules, exact>>

Next ==
    \/ ~h.open /\ \E f \in Filters, m \in Modes : Open_network(f, m) \/ Open_events(f, m)
    \/ h.open /\ \E p \in Packets : Packet(p) \/ Event(p)
    \/ Close

Spec == Init /\ [][Next]_vars

-----------------------------------------------------------------------------
(* What a text means, read off the language: "or" binds weaker than "and", *)
(* and a test of a field is false where its header is missing.             *)

\* The depth of parentheses before position i.
Depth(toks, i) ==
    Cardinality({j \in 1 .. i - 1 : toks[j].kind = "("})
    - Cardinality({j \in 1 .. i - 1 : toks[j].kind = ")"})

RECURSIVE Means(_, _)
Means(toks, p) ==
    LET Top(k) == {i \in DOMAIN toks : toks[i].kind = k /\ Depth(toks, i) = 0}
        Part(i, j) == Means(SubSeq(toks, i, j), p)
        n == Len(toks)
        At(i) == Part(1, i - 1)
        After(i) == Part(i + 1, n)
        In(k) == {i \in DOMAIN toks : toks[i].kind = k /\ Depth(toks, i) = 1}
        f == toks[1].kind
        v == Value(f, p)
        arg == IF toks[n - 1].kind = "-" THEN -toks[n].val ELSE toks[n].val
    IN  CASE Top("or") # {} -> LET i == Max(Top("or")) IN At(i) \/ After(i)
          [] Top("or") = {} /\ Top("and") # {} -> LET i == Max(Top("and")) IN At(i) /\ After(i)
          [] Top("or") \cup Top("and") = {} /\ f = "(" ->
                 IF In("?") = {} THEN Part(2, n - 1)
                 ELSE LET q == Min(In("?"))
                          c == Min(In(":"))
                      IN  IF Part(2, q - 1) THEN Part(q + 1, c - 1) ELSE Part(c + 1, n - 1)
          [] Top("or") \cup Top("and") = {} /\ f = "not" ->
                 \* "not" is about the value: a missing header stays false
                 LET x == CHOOSE i \in DOMAIN toks : toks[i].kind \in Fields
                 IN  (toks[x].kind \in {"true", "false"} \/ Present(Header(toks[x].kind), p))
                     /\ ~Part(2, n)
          [] OTHER ->
                 CASE f = "true" -> TRUE
                   [] f = "false" -> FALSE
                   [] f \notin {"true", "false"} /\ n = 1 -> Present(Header(f), p) /\ v # 0
                   [] OTHER -> Present(Header(f), p) /\ Holds(toks[2].kind, v, arg)

-----------------------------------------------------------------------------
(* Properties.                                                             *)

\* Parsing, simplification, flattening to jumps and execution
\* (WinDivertCompileFilter, WinDivertExecuteFilter) together give the text its
\* meaning: "and" binds stronger than "or", (c ? t : e) chooses, and a test of
\* a field whose header is missing is false even under "not".
CompiledMeaning == pkt # NoPacket => (ExecuteFilter(obj, pkt) = Means(h.text, pkt))

\* The text WinDivertHelperFormatFilter makes of a filter exists and, where it
\* compiles, accepts the packets the filter accepts: the reference counts of
\* the merged tests are right and the parentheses are where they must be.
FormatKeepsMeaning ==
    h.open /\ pkt = NoPacket =>
        \E text \in {FormatFilter(obj)} :
            /\ text # <<>>
            /\ \A again \in {CompileFilter(text, h.layer)} \ {<<>>} : \A p \in Packets :
                 p.layer = h.layer => (ExecuteFilter(again, p) = ExecuteFilter(obj, p))

\* The rules and the second look in user space add up to the filter: a packet
\* is delivered, copied or dropped when the filter accepts it and stays on the
\* network when it does not, whatever was widened, split over several rules,
\* given up as too complex or excluded by NO_INBOUND and NO_OUTBOUND.
\* Out of sight are loopback packets on their way in, incoming fragments
\* without FLAG_FRAGMENTS and fragments of a family no rule is for.
FilterDecides ==
    (pkt # NoPacket /\ h.layer = "NETWORK") =>
        LET table == IF pkt.ver = 4 THEN rules.v4 ELSE rules.v6
            seen == /\ pkt.lo => pkt.out
                    /\ pkt.frag => (pkt.out \/ "FRAGMENTS" \in cfg) /\ table # <<>>
        IN  fate = IF ~seen \/ ~ExecuteFilter(obj, pkt) THEN "network"
                   ELSE CASE h.action = "drop" -> "dropped"
                          [] h.action = "sniff" -> "copied"
                          [] OTHER -> "queued"

\* A SOCKET handle without SNIFF refuses exactly the bind and connect calls its
\* filter accepts, and an operation is refused only if it is also reported: the
\* rules event_rules holds are exactly the filter or open_events() failed.  It
\* never accepts a LISTEN or ACCEPT event, which cannot be refused.
BlockDecides ==
    (pkt # NoPacket /\ h.layer = "SOCKET") =>
        LET yes == ExecuteFilter(obj, pkt)
        IN  /\ (fate # "none") = yes
            /\ (fate = "refused and reported")
                 = (yes /\ h.action # "sniff" /\ pkt.event \in Refusable)
            /\ yes /\ h.action # "sniff" => pkt.event \notin {SocketEvents.LISTEN, SocketEvents.ACCEPT}
            /\ fate # "refused"
=============================================================================
