---------------------------- MODULE DivertQueue ----------------------------
(***************************************************************************)
(* What a capturing handle promises its application, without its ring,     *)
(* queue and locks: one sequence of captured packets, from which packets   *)
(* are received in the order of their capture.                             *)
(***************************************************************************)
EXTENDS Naturals, Sequences

CONSTANTS Packets, Match

VARIABLES
    held,   \* captured and not yet accounted for, oldest first
    gone    \* <<packet, outcome>> of the last step

vars == <<held, gone>>

Init == held = <<>> /\ gone = {}

Capture(p) ==
    /\ \A i \in DOMAIN held : held[i] # p
    /\ held' = Append(held, p)
    /\ gone' = {}

\* The handle fails open: the packet goes on without it.
Pass(p) ==
    /\ gone' = {<<p, "net">>}
    /\ UNCHANGED held

ExpiredBefore(k) == {<<held[i], "expired">> : i \in 1 .. (k - 1)}

\* A call takes the oldest packet that has not expired, if it matches.
Receive(k) ==
    /\ Match[held[k]]
    /\ \E o \in {"delivered", "refused"} :
         gone' = ExpiredBefore(k) \cup {<<held[k], o>>}
    /\ held' = SubSeq(held, k + 1, Len(held))

\* A call finds nothing but packets that have expired.
Expire(k) ==
    /\ gone' = ExpiredBefore(k)
    /\ held' = SubSeq(held, k, Len(held))

\* The handle lets go of one packet out of turn: the filter has rejected it,
\* or it was not the application's (DROP), or the queue is full.
Withdraw(k) ==
    /\ \E o \in {"net", "dropped", "overflow", "lost"} :
         /\ o \in {"dropped", "overflow"} => Match[held[k]]
         /\ gone' = {<<held[k], o>>}
    /\ held' = SubSeq(held, 1, k - 1) \o SubSeq(held, k + 1, Len(held))

Quiet == gone' = {} /\ UNCHANGED held

Next ==
    \/ \E p \in Packets : Capture(p) \/ Pass(p)
    \/ \E k \in DOMAIN held : Receive(k) \/ Expire(k + 1) \/ Withdraw(k)
    \/ Quiet

Spec == Init /\ [][Next]_vars
=============================================================================
