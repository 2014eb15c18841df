----------------------------- MODULE MCRegistry -----------------------------
(***************************************************************************)
(* Registry for TLC.  p3 gets the pid of p1 once p1 is dead.  a and b ask  *)
(* for the automatic priority, c for one that the automatic ones reach;    *)
(* u is an ebpfdivert_unregister, e an event handle.                       *)
(***************************************************************************)
EXTENDS Registry, TLC
CONSTANTS p1, p2, p3, a, b, c, u, e

MCPid == p1 :> 1 @@ p2 :> 2 @@ p3 :> 1
MCOwner == a :> p1 @@ b :> p2 @@ c :> p3 @@ u :> p2 @@ e :> p3
MCKind == a :> "network" @@ b :> "network" @@ c :> "network" @@ u :> "unregister" @@ e :> "event"
MCPriority == a :> 0 @@ b :> 0 @@ c :> -1 @@ u :> 0 @@ e :> 0

\* Every handle with one and the same explicit priority.
MCSamePriority == [x \in {a, b, c, u, e} |-> -1]
=============================================================================
