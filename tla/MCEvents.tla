------------------------------ MODULE MCEvents ------------------------------
(***************************************************************************)
(* Instances of EventLayers for TLC.                                       *)
(***************************************************************************)
EXTENDS EventLayers

CONSTANTS t1, t2, u1, u2

MCWorlds ==
    {<<"SOCKET", {t1, t2}>>, <<"SOCKET", {u1}>>, <<"FLOW", {t1, t2}>>, <<"FLOW", {u1, u2}>>,
     <<"REFLECT", {}>>}
MCReflect == {<<"REFLECT", {}>>}

MCTalks == {<<u1, 1>>, <<u1, 2>>, <<u2, 1>>}
MCRefused == {<<"BIND", 2>>, <<"CONNECT", 1>>}
=============================================================================
