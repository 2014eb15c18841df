------------------------------- MODULE MCPath -------------------------------
(***************************************************************************)
(* PacketPath for TLC: a and b divert, c sniffs, d is SEND_ONLY, e drops   *)
(* the packet out, f sniffs on the forward layer.  Only a selects Lo; c    *)
(* may find its ring full.                                                 *)
(***************************************************************************)
EXTENDS PacketPath
CONSTANTS a, b, c, d, e, f, in, out, loop, built, fwd

MCPrio == [h \in Handles |-> CASE h \in {a, d} -> 1 [] h \in {b, c, f} -> 2 [] h = e -> 3]
MCLayer == [h \in Handles |-> IF h = f THEN "forward" ELSE "network"]
MCMode == [h \in Handles |-> CASE h \in {a, b} -> "divert" [] h \in {c, f} -> "sniff" [] h = d -> "send" [] h = e -> "drop"]
MCSelected == [h \in Handles |-> CASE h = a -> Ifaces [] h = f -> {Far} [] OTHER -> {Eth}]
MCKind == [p \in Packets |-> CASE p \in {in, built} -> "in" [] p = out -> "out" [] p = loop -> "loop" [] p = fwd -> "fwd"]
MCWanted == [h \in Handles |-> IF h = e THEN {out} ELSE Packets]

\* Two handles of the forward layer.
MCForward == [h \in Handles |-> "forward"]
MCFar == [h \in Handles |-> {Far}]
=============================================================================
