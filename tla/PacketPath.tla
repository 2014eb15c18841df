----------------------------- MODULE PacketPath -----------------------------
(***************************************************************************)
(* The way of a packet through the programs of several handles             *)
(* (ebpfdivert.bpf.c) and back through ebpfdivert_send (handle.c).         *)
(*                                                                         *)
(* An skb stands at a hook, the ingress or egress side of an interface,    *)
(* and the programs attached there run in the order of their TC priority.  *)
(* What stops it for good, or hands it to user space, is the verdict of    *)
(* process_packet; what sends it on is the kernel's routing, which depends *)
(* on the packet's kind: "out" leaves through Eth, "in" comes in through   *)
(* Eth for this host, "fwd" comes in through Eth and leaves through Far,   *)
(* "loop" goes round Lo.                                                   *)
(*                                                                         *)
(* An application re-injects every packet that it diverts.                 *)
(***************************************************************************)
EXTENDS Integers, FiniteSets

CONSTANTS
    Handles,
    Prio,           \* [Handles -> Nat]: h->tc_prio
    Layer,          \* [Handles -> {"network", "forward"}]
    Mode,           \* [Handles -> {"divert", "sniff", "drop", "send"}]; "send" is SEND_ONLY
    Selected,       \* [Handles -> SUBSET Ifaces]: iface_selected
    Packets,
    KindOf,         \* [Packets -> {"out", "in", "fwd", "loop"}]
    Wanted,         \* [Handles -> SUBSET Packets]: what the rules match
    Built,          \* the packets that SEND_ONLY handles make up
    Bursts,         \* the sets of packets that may come
    Mortal,         \* the handles that are shut down, killed or closed meanwhile
    MayFail,        \* handles whose ring may be full
    Lo, Eth, Far

Ifaces == {Lo, Eth, Far}

ASSUME PathAssumption ==
    /\ Prio \in [Handles -> Nat]
    /\ Layer \in [Handles -> {"network", "forward"}]
    /\ Mode \in [Handles -> {"divert", "sniff", "drop", "send"}]
    /\ Selected \in [Handles -> SUBSET Ifaces]
    /\ KindOf \in [Packets -> {"out", "in", "fwd", "loop"}]
    /\ Wanted \in [Handles -> SUBSET Packets]
    /\ Built \subseteq {p \in Packets : KindOf[p] = "in"}
    /\ Bursts \subseteq SUBSET Packets
    /\ MayFail \subseteq Handles /\ Mortal \subseteq Handles
    /\ Lo # Eth /\ Lo # Far /\ Eth # Far

VARIABLES
    open,           \* the handles that are open
    halted,         \* [Handles -> SUBSET {"recv", "send", "dead", "stale"}]: shut
                    \* down, owner dead, heartbeat older than the timeout
    fresh,          \* the packets that have not come yet
    skbs,           \* the skbs in the kernel
    held,           \* [Handles -> skbs that user space has]
    left,           \* the skbs that left the hooks, and where to
    seen            \* history: every capture

vars == <<open, halted, fresh, skbs, held, left, seen>>

\* skb->mark: a tag and a number.
Marks == {"none", "loop", "redirect", "redirected"}

Skbs == [pkt : Packets, at : Ifaces, dir : {"ingress", "egress"}, ran : SUBSET Handles,
         mark : Marks, num : Nat, priority : Nat, iif : BOOLEAN, by : SUBSET Handles]

\* A new skb at a hook where no program has run yet.
Skb(p, at, dir) ==
    [pkt |-> p, at |-> at, dir |-> dir, ran |-> {}, mark |-> "none", num |-> 0,
     priority |-> 0, iif |-> FALSE, by |-> {}]

Init ==
    /\ open = Handles
    /\ halted = [h \in Handles |-> {}]
    /\ fresh \in Bursts
    /\ skbs = {}
    /\ held = [h \in Handles |-> {}]
    /\ left = {}
    /\ seen = {}

\* Mutant: lo is attached like any other interface.
Attached_selected(h, i) == h \in open /\ Mode[h] # "send" /\ i \in Selected[h]

\* attach_interfaces: "lo is always needed".
Attached(h, i) == h \in open /\ Mode[h] # "send" /\ (i \in Selected[h] \/ i = Lo)

\* The programs that are still to run at s's hook, and the next of them.
Ahead(s) == {h \in Handles : /\ Attached(h, s.at)
                             /\ h \notin s.ran
                             /\ \A g \in s.ran : Prio[g] <= Prio[h]}
IsNext(h, s) == h \in Ahead(s) /\ \A g \in Ahead(s) : Prio[h] <= Prio[g]

-----------------------------------------------------------------------------
(***************************************************************************)
(* The programs.                                                           *)
(***************************************************************************)

\* tc_divert_ingress, on arrival at the target of a redirect.
Arrived(s) == IF s.dir = "ingress" /\ s.mark = "redirected" THEN [s EXCEPT !.mark = "loop"] ELSE s

\* Mutant: a handle of the injector's priority does not skip.
Marked_equal(h, s) == s.mark = "loop" /\ Prio[h] < s.num

\* Mutant: everybody skips what was injected.
Marked_any(h, s) == s.mark = "loop"

Marked(h, s) == s.mark = "loop" /\ Prio[h] <= s.num

Forwarded(s) == s.at # Lo /\ s.iif

\* Every early TC_ACT_UNSPEC of process_packet.
Skips(h, s) ==
    \/ halted[h] \cap {"recv", "stale"} # {}
    \/ Marked(h, s)
    \/ s.mark = "redirect"
    \/ s.at = Lo /\ (s.dir = "ingress" \/ Lo \notin Selected[h])
    \/ s.dir = "egress" /\ Forwarded(s) # (Layer[h] = "forward")
    \/ s.dir = "ingress" /\ (Layer[h] = "forward" \/ KindOf[s.pkt] = "fwd")
    \/ s.pkt \notin Wanted[h]

Move(s, t) == skbs' = (skbs \ {s}) \cup {t}

\* What a capture is: who, what, whose injections it had gone through, and
\* PKT_F_IMPOSTOR.
Capture(h, s) == [who |-> h, pkt |-> s.pkt, by |-> s.by, impostor |-> s.mark = "loop"]

\* tc_divert_ingress on lo: bpf_redirect to the target's ingress.
Redirect(h, s) ==
    /\ IsNext(h, s) /\ s.dir = "ingress" /\ s.mark = "redirect"
    /\ Move(s, [s EXCEPT !.at = Eth, !.ran = {}, !.mark = "redirected", !.num = s.priority,
                         !.priority = 0, !.iif = TRUE])
    /\ UNCHANGED <<open, halted, fresh, held, left, seen>>

Pass(h, s) ==
    /\ IsNext(h, s) /\ ~(s.dir = "ingress" /\ s.mark = "redirect")
    /\ \/ Skips(h, Arrived(s))
       \/ h \in MayFail /\ Mode[h] # "drop"
    /\ Move(s, [Arrived(s) EXCEPT !.ran = @ \cup {h}])
    /\ UNCHANGED <<open, halted, fresh, held, left, seen>>

\* TC_ACT_SHOT, TC_ACT_STOLEN, or a copy and TC_ACT_UNSPEC.
Match(h, s) ==
    /\ IsNext(h, s) /\ ~(s.dir = "ingress" /\ s.mark = "redirect")
    /\ ~Skips(h, Arrived(s))
    /\ seen' = seen \cup {Capture(h, Arrived(s))}
    /\ \/ Mode[h] = "drop" /\ skbs' = skbs \ {s} /\ UNCHANGED held
       \/ /\ Mode[h] = "divert"
          /\ skbs' = skbs \ {s}
          /\ held' = [held EXCEPT ![h] = @ \cup {Arrived(s)}]
       \/ /\ Mode[h] = "sniff"
          /\ Move(s, [Arrived(s) EXCEPT !.ran = @ \cup {h}])
          /\ UNCHANGED held
    /\ UNCHANGED <<open, halted, fresh, left>>

-----------------------------------------------------------------------------
(***************************************************************************)
(* The kernel: packets come, and go on when the programs have let them.    *)
(***************************************************************************)

Enter(p) ==
    /\ p \in fresh \ Built
    /\ fresh' = fresh \ {p}
    /\ skbs' = skbs \cup {CASE KindOf[p] = "out" -> Skb(p, Eth, "egress")
                            [] KindOf[p] \in {"in", "fwd"} -> [Skb(p, Eth, "ingress") EXCEPT !.iif = TRUE]
                            [] KindOf[p] = "loop" -> Skb(p, Lo, "egress")}
    /\ UNCHANGED <<open, halted, held, left, seen>>

Travel(s) ==
    /\ Ahead(s) = {}
    /\ \/ /\ s.at = Lo /\ s.dir = "egress"
          /\ Move(s, [s EXCEPT !.dir = "ingress", !.ran = {}, !.iif = TRUE])
          /\ UNCHANGED left
       \/ /\ s.at = Eth /\ s.dir = "ingress" /\ KindOf[s.pkt] = "fwd"
          /\ Move(s, [s EXCEPT !.at = Far, !.dir = "egress", !.ran = {}])
          /\ UNCHANGED left
       \/ /\ \/ s.dir = "egress" /\ s.at # Lo
             \/ s.dir = "ingress" /\ (s.at = Lo \/ KindOf[s.pkt] # "fwd")
          /\ skbs' = skbs \ {s}
          /\ left' = left \cup {s}
    /\ UNCHANGED <<open, halted, fresh, held, seen>>

-----------------------------------------------------------------------------
(***************************************************************************)
(* inject: the address decides the path.                                   *)
(***************************************************************************)

\* Mutant: the socket of an inbound injection has no SO_PRIORITY.
Injected_plain(h, s) ==
    LET new == [Skb(s.pkt, s.at, "egress") EXCEPT !.by = s.by \cup {h}] IN
    IF s.dir = "egress" THEN [new EXCEPT !.mark = "loop", !.num = Prio[h]]
    ELSE [new EXCEPT !.at = Lo, !.mark = "redirect"]

\* A loopback packet goes through a raw socket and lo, an outbound one out of
\* its interface, both marked; an inbound one through lo with the target in
\* the mark and the priority in SO_PRIORITY.
Injected(h, s) ==
    LET new == [Skb(s.pkt, s.at, "egress") EXCEPT !.by = s.by \cup {h}] IN
    IF s.dir = "egress" THEN [new EXCEPT !.mark = "loop", !.num = Prio[h]]
    ELSE [new EXCEPT !.at = Lo, !.mark = "redirect", !.priority = Prio[h]]

CanSend(h) == h \in open /\ halted[h] \cap {"send", "dead"} = {}

\* Mutant: what was sent may be sent again.
Send_again(h, s) ==
    /\ CanSend(h) /\ s \in held[h]
    /\ skbs' = skbs \cup {Injected(h, s)}
    /\ UNCHANGED <<open, halted, fresh, held, left, seen>>

\* ebpfdivert_send of what was received.
Send(h, s) ==
    /\ CanSend(h) /\ s \in held[h]
    /\ held' = [held EXCEPT ![h] = @ \ {s}]
    /\ skbs' = skbs \cup {Injected(h, s)}
    /\ UNCHANGED <<open, halted, fresh, left, seen>>

\* A SEND_ONLY handle makes up an inbound packet for Eth.
SendBuilt(h, p) ==
    /\ CanSend(h) /\ Mode[h] = "send" /\ p \in fresh \cap Built
    /\ fresh' = fresh \ {p}
    /\ skbs' = skbs \cup {Injected(h, Skb(p, Eth, "ingress"))}
    /\ UNCHANGED <<open, halted, held, left, seen>>

-----------------------------------------------------------------------------
(***************************************************************************)
(* The handles: shutdown, a killed owner, and the end of the attachments   *)
(* (close, or the reaper).                                                 *)
(***************************************************************************)

Shutdown(h) ==
    /\ h \in open /\ "dead" \notin halted[h]
    /\ \E how \in {{"recv"}, {"send"}, {"recv", "send"}} :
          /\ ~(how \subseteq halted[h])
          /\ halted' = [halted EXCEPT ![h] = @ \cup how]
    /\ UNCHANGED <<open, fresh, skbs, held, left, seen>>

OwnerDies(h) ==
    /\ h \in open /\ "dead" \notin halted[h]
    /\ halted' = [halted EXCEPT ![h] = @ \cup {"dead"}]
    /\ UNCHANGED <<open, fresh, skbs, held, left, seen>>

\* HEARTBEAT_TIMEOUT_MS after the last refresh.
GoesStale(h) ==
    /\ "dead" \in halted[h] /\ "stale" \notin halted[h]
    /\ halted' = [halted EXCEPT ![h] = @ \cup {"stale"}]
    /\ UNCHANGED <<open, fresh, skbs, held, left, seen>>

Detach(h) ==
    /\ h \in open
    /\ open' = open \ {h}
    /\ held' = [held EXCEPT ![h] = {}]
    /\ UNCHANGED <<halted, fresh, skbs, left, seen>>

Kernel == \E s \in skbs : Travel(s) \/ \E h \in Handles : Redirect(h, s) \/ Pass(h, s) \/ Match(h, s)

Application(h) == (\E s \in held[h] : Send(h, s)) \/ \E p \in Packets : SendBuilt(h, p)

Ends(h) == Shutdown(h) \/ OwnerDies(h) \/ GoesStale(h) \/ Detach(h)

Idle == fresh \subseteq Built /\ skbs = {} /\ UNCHANGED vars

Next ==
    \/ \E p \in Packets : Enter(p)
    \/ Kernel
    \/ \E h \in Handles : Application(h)
    \/ \E h \in Mortal : Ends(h)
    \/ Idle

Spec == Init /\ [][Next]_vars

\* The kernel does not keep an skb waiting, and applications keep sending
\* what they received.
FairSpec == Spec /\ WF_vars(Kernel) /\ \A h \in Handles : WF_vars(Application(h))

-----------------------------------------------------------------------------
(***************************************************************************)
(* Properties.                                                             *)
(***************************************************************************)

\* skbs, captures and handles keep their types.
TypeOK ==
    /\ open \subseteq Handles
    /\ halted \in [Handles -> SUBSET {"recv", "send", "dead", "stale"}]
    /\ fresh \subseteq Packets
    /\ skbs \subseteq Skbs
    /\ held \in [Handles -> SUBSET Skbs]
    /\ left \subseteq Skbs
    /\ seen \subseteq [who : Handles, pkt : Packets, by : SUBSET Handles, impostor : BOOLEAN]

\* A handle captures an injected packet only if every handle that injected it
\* has a higher priority, and sees it as an impostor; a packet that nobody
\* injected is no impostor.  This is what the marks are for, also across the
\* redirect through lo.
OnlyLowerSee ==
    \A c \in seen :
        /\ \A g \in c.by : Prio[g] < Prio[c.who]
        /\ c.impostor <=> c.by # {}

\* The mark of an skb in the kernel covers everybody who injected it, and a
\* redirected skb stands where the mark will be read.
MarkInv ==
    \A s \in skbs :
        \/ s.mark = "none" /\ s.by = {}
        \/ s.mark = "loop" /\ s.by # {} /\ \A g \in s.by : Prio[g] <= s.num
        \/ /\ s.mark = "redirect" /\ s.at = Lo /\ KindOf[s.pkt] # "fwd"
           /\ s.by # {} /\ \A g \in s.by : Prio[g] <= s.priority
        \/ /\ s.mark = "redirected" /\ s.at = Eth /\ s.dir = "ingress" /\ KindOf[s.pkt] # "fwd"
           /\ s.by # {} /\ \A g \in s.by : Prio[g] <= s.num

\* What a handle holds was injected by handles before it only.
HeldInv ==
    \A h \in Handles : \A s \in held[h] :
        /\ \A g \in s.by : Prio[g] < Prio[h]
        /\ s.dir = "ingress" => KindOf[s.pkt] # "fwd"

\* The handles that a packet is meant for.
Applies(h, p) ==
    /\ p \in Wanted[h] /\ Mode[h] # "send"
    /\ \/ Layer[h] = "network" /\ KindOf[p] \in {"in", "out"} /\ Eth \in Selected[h]
       \/ Layer[h] = "network" /\ KindOf[p] = "loop" /\ Lo \in Selected[h]
       \/ Layer[h] = "forward" /\ KindOf[p] = "fwd" /\ Far \in Selected[h]

\* Those of them that are in a state to see it.
Watches(h, p) == h \in open /\ Applies(h, p) /\ halted[h] = {} /\ h \notin MayFail

\* A handle has captured the packet, or comes before one that injected it.
HadTurn(h, s) ==
    \/ \E c \in seen : c.who = h /\ c.pkt = s.pkt
    \/ \E g \in s.by : Prio[h] <= Prio[g]

\* A packet that has left was seen by every handle it was meant for, but for
\* those that come before a handle that injected it: after an injection the
\* handles of lower priority get their turn.
LowerHandlesSee == \A s \in left, h \in Handles : Watches(h, s.pkt) => HadTurn(h, s)

\* Everywhere that a packet can be.
Copies(p) ==
    {<<"kernel", s>> : s \in {t \in skbs : t.pkt = p}}
    \cup {<<"left", s>> : s \in {t \in left : t.pkt = p}}
    \cup UNION {{<<"held", h, s>> : s \in {t \in held[h] : t.pkt = p}} : h \in Handles}

\* Diverting, sniffing and injecting never duplicate a packet, nor is one in
\* user space and in the kernel at once.
OneCopy ==
    \A p \in Packets :
        /\ Cardinality(Copies(p)) <= 1
        /\ p \in fresh => Copies(p) = {}

\* An inbound injection ends up in lo, instead of at its target, only when its
\* sender is not attached: it has detached since, or it is SEND_ONLY.
StrayOnlyDetached ==
    \A s \in left : s.mark = "redirect" => \E g \in s.by : g \notin open \/ Mode[g] = "send"

\* A forward handle that diverts: what it injects has no incoming interface,
\* and no forward handle takes it for forwarded again.
ForwardDiverts == \E h \in Handles : Layer[h] = "forward" /\ Mode[h] = "divert"

\* Where an skb of each kind is in the kernel, and with a handle.
KernelPlace(s) ==
    /\ KindOf[s.pkt] = "out" => s.at = Eth /\ s.dir = "egress" /\ ~s.iif
    /\ KindOf[s.pkt] = "in" => \/ s.at = Eth /\ s.dir = "ingress" /\ s.mark # "redirect"
                               \/ s.at = Lo /\ s.mark = "redirect"
    /\ KindOf[s.pkt] = "fwd" => /\ \/ s.at = Eth /\ s.dir = "ingress"
                                   \/ s.at = Far /\ s.dir = "egress"
                                /\ s.iif \/ s.by # {}
                                /\ s.by # {} => ForwardDiverts
    /\ KindOf[s.pkt] = "loop" => s.at = Lo /\ s.mark # "redirect"

HeldPlace(s) ==
    /\ KindOf[s.pkt] = "out" => s.at = Eth /\ s.dir = "egress"
    /\ KindOf[s.pkt] = "in" => s.at = Eth /\ s.dir = "ingress"
    /\ KindOf[s.pkt] = "fwd" => s.at = Far /\ s.dir = "egress" /\ ForwardDiverts
    /\ KindOf[s.pkt] = "loop" => s.at = Lo /\ s.dir = "egress"

\* The number in a mark is the priority of somebody who injected the skb.
NumberOf(s) ==
    /\ s.mark \in {"loop", "redirected"} => \E g \in s.by : Prio[g] = s.num
    /\ s.mark = "redirect" => \E g \in s.by : Prio[g] = s.priority

PlaceInv ==
    /\ \A s \in skbs : KernelPlace(s) /\ NumberOf(s)
    /\ \A h \in Handles : \A s \in held[h] : HeldPlace(s)

\* The skb stands at, or has passed, the hook where its kind is captured.
AtHook(s) ==
    /\ KindOf[s.pkt] = "in" => s.at = Eth
    /\ KindOf[s.pkt] = "fwd" => s.at = Far
    /\ KindOf[s.pkt] = "loop" => s.dir = "egress"
PastHook(s) == KindOf[s.pkt] = "loop" /\ s.dir = "ingress"

\* The programs at a hook run in order, and none is left out.
RanInOrder(s) ==
    \A h \in Handles :
        Attached(h, s.at) /\ h \notin s.ran => \A g \in s.ran : Prio[g] <= Prio[h]

\* Whoever watches has had its turn when its program has run.
TurnsTaken(s) ==
    \A h \in Handles :
        Watches(h, s.pkt) /\ (PastHook(s) \/ (AtHook(s) /\ h \in s.ran)) => HadTurn(h, s)

\* A forwarded packet that was injected.
Exempt(s) == KindOf[s.pkt] = "fwd" /\ s.by # {}

\* The programs run in order, and none lets a redirect pass.
TurnInv ==
    \A s \in skbs :
        /\ RanInOrder(s)
        /\ s.mark = "redirect" /\ s.dir = "ingress" => s.ran = {}
        /\ Exempt(s) \/ TurnsTaken(s)

LeftInv ==
    \A s \in left : Exempt(s) \/ \A h \in Handles : Watches(h, s.pkt) => HadTurn(h, s)

\* The inductive invariants: MarkedInv is behind OnlyLowerSee, the others are
\* behind LowerHandlesSee and StrayOnlyDetached.
MarkedInv == TypeOK /\ MarkInv /\ HeldInv /\ OnlyLowerSee
PathInv == MarkedInv /\ PlaceInv /\ TurnInv /\ LeftInv /\ StrayOnlyDetached

\* No packet goes round for ever: each one leaves, is dropped, or stays with a
\* handle that can no longer send.
PacketsLeave == <>[](skbs = {} /\ \A h \in Handles : CanSend(h) => held[h] = {})
=============================================================================
