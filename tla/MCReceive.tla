----------------------------- MODULE MCReceive -----------------------------
(***************************************************************************)
(* Instances of Receive for TLC.                                           *)
(***************************************************************************)
EXTENDS Receive

CONSTANTS p1, p2, p3

\* p1 matches and is short, p2 matches and is long, p3 does not match.
MCLen   == [p \in Packets |-> IF p = p2 THEN 2 ELSE 1]
MCMatch == [p \in Packets |-> p # p3]
MCFrag  == [p \in Packets |-> FALSE]

\* For a buffer of 2 that p2 never fits in, and p1 fits in twice.
MCLong  == [p \in Packets |-> IF p = p2 THEN 3 ELSE 1]

\* For exact rules: p2 and p3 are fragments.
MCSomeFrag == [p \in Packets |-> p # p1]
=============================================================================
