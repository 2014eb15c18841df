----------------------------- MODULE Lifecycle -----------------------------
(***************************************************************************)
(* The life of handles shared by the threads of one process: open, the     *)
(* guarded entry points (GUARDED: handle_enter, the call, handle_leave),   *)
(* shutdown, close, and the heartbeat thread that walks the list of open   *)
(* handles.                                                                *)
(*                                                                         *)
(* A handle identity is an address: it may be allocated again once freed.  *)
(* Sections under rlock are one step.  hb_lock, qlock and cfg_lock have    *)
(* owners where their sections call something.  What a guarded call does   *)
(* with the queue is module Receive.                                       *)
(***************************************************************************)
EXTENDS Integers, FiniteSets

CONSTANTS
    Threads,        \* application threads
    Handles,        \* addresses of handles
    Heartbeat,      \* the heartbeat thread
    None,
    Overlap         \* does the application let shutdown overlap close

ASSUME LifecycleAssumption ==
    /\ IsFiniteSet(Threads)
    /\ Heartbeat \notin Threads
    /\ None \notin Threads \cup {Heartbeat} \cup Handles
    /\ Overlap \in BOOLEAN

VARIABLES
    alloc,          \* "free", "building" (inside open) or "open"
    closing, inflight,
    shut_recv, shut_send,
    qlock,          \* owner, over the RECV part of shutdown
    cfg_lock,       \* owner, over write_config of the heartbeat thread
    cfg,            \* CFG_F_SHUTDOWN in h->cfg.flags
    map,            \* CFG_F_SHUTDOWN in the config map
    hb_list,        \* the handles on the list; its order carries no meaning
    hb_lock, hb_running,
    hb_todo,        \* the handles its pass over hb_list has yet to refresh
    hb_copy,        \* h->cfg as write_config passes it to the kernel
    pc,             \* where each thread is, the heartbeat thread included
    arg,            \* the handle it is working on
    kind            \* its call: "recv" blocks, "short" does not, ...

handleVars == <<alloc, closing, inflight, shut_recv, shut_send, cfg, map>>
lockVars   == <<qlock, cfg_lock>>
hbVars     == <<hb_list, hb_lock, hb_running, hb_todo, hb_copy>>
vars == <<alloc, closing, inflight, shut_recv, shut_send, qlock, cfg_lock, cfg,
          map, hb_list, hb_lock, hb_running, hb_todo, hb_copy, pc, arg, kind>>

AllThreads == Threads \cup {Heartbeat}

Init ==
    /\ alloc = [h \in Handles |-> "free"]
    /\ closing = [h \in Handles |-> FALSE]
    /\ inflight = [h \in Handles |-> 0]
    /\ shut_recv = [h \in Handles |-> FALSE]
    /\ shut_send = [h \in Handles |-> FALSE]
    /\ qlock = [h \in Handles |-> None]
    /\ cfg_lock = [h \in Handles |-> None]
    /\ cfg = [h \in Handles |-> FALSE]
    /\ map = [h \in Handles |-> FALSE]
    /\ hb_list = {}
    /\ hb_lock = None
    /\ hb_running = FALSE
    /\ hb_todo = {}
    /\ hb_copy = FALSE
    /\ pc = [t \in AllThreads |-> "idle"]
    /\ arg = [t \in AllThreads |-> None]
    /\ kind = [t \in AllThreads |-> "none"]

Goto(t, where) == pc' = [pc EXCEPT ![t] = where]

\* t is back in the application and has forgotten its argument.
Done(t) ==
    /\ pc' = [pc EXCEPT ![t] = "idle"]
    /\ arg' = [arg EXCEPT ![t] = None]
    /\ kind' = [kind EXCEPT ![t] = "none"]

Begin(t, h, k, where) ==
    /\ pc' = [pc EXCEPT ![t] = where]
    /\ arg' = [arg EXCEPT ![t] = h]
    /\ kind' = [kind EXCEPT ![t] = k]

-----------------------------------------------------------------------------
(***************************************************************************)
(* open: calloc and the initialisations, then heartbeat_add, which starts  *)
(* the heartbeat thread when there is none (pthread_create may fail).      *)
(***************************************************************************)

Open(t, h) ==
    /\ pc[t] = "idle"
    /\ alloc[h] = "free"
    /\ alloc' = [alloc EXCEPT ![h] = "building"]
    /\ closing' = [closing EXCEPT ![h] = FALSE]
    /\ inflight' = [inflight EXCEPT ![h] = 0]
    /\ shut_recv' = [shut_recv EXCEPT ![h] = FALSE]
    /\ shut_send' = [shut_send EXCEPT ![h] = FALSE]
    /\ cfg' = [cfg EXCEPT ![h] = FALSE]
    /\ map' = [map EXCEPT ![h] = FALSE]
    /\ qlock' = [qlock EXCEPT ![h] = None]
    /\ cfg_lock' = [cfg_lock EXCEPT ![h] = None]
    /\ Begin(t, h, "open", "hb_add")
    /\ UNCHANGED hbVars

\* goto fail: free_handle on a handle nobody else has seen.
OpenFails(t) ==
    /\ pc[t] = "hb_add"
    /\ alloc' = [alloc EXCEPT ![arg[t]] = "free"]
    /\ Done(t)
    /\ UNCHANGED <<closing, inflight, shut_recv, shut_send, cfg, map, lockVars, hbVars>>

heartbeat_add(t) ==
    /\ pc[t] = "hb_add"
    /\ hb_lock = None
    /\ hb_running' \in {hb_running, TRUE}
    /\ hb_list' = hb_list \cup {arg[t]}
    /\ alloc' = [alloc EXCEPT ![arg[t]] = "open"]
    /\ Done(t)
    /\ UNCHANGED <<closing, inflight, shut_recv, shut_send, cfg, map, lockVars,
                   hb_lock, hb_todo, hb_copy>>

-----------------------------------------------------------------------------
(***************************************************************************)
(* The heartbeat thread.  hb_lock is held over a whole pass and released   *)
(* by the waits on hb_cond.                                                *)
(***************************************************************************)

HbPass ==
    /\ hb_running
    /\ pc[Heartbeat] = "idle"
    /\ hb_lock = None
    /\ hb_list # {}
    /\ hb_lock' = Heartbeat
    /\ hb_todo' = hb_list
    /\ Goto(Heartbeat, "pass")
    /\ UNCHANGED <<handleVars, lockVars, hb_list, hb_running, hb_copy, arg, kind>>

\* Mutant: write_config without cfg_lock.
HbLockConfig_free ==
    /\ pc[Heartbeat] = "pass"
    /\ \E h \in hb_todo :
       /\ hb_copy' = cfg[h]
       /\ arg' = [arg EXCEPT ![Heartbeat] = h]
    /\ Goto(Heartbeat, "write")
    /\ UNCHANGED <<handleVars, lockVars, hb_list, hb_lock, hb_running, hb_todo, kind>>

\* write_config(h): cfg_lock, then the kernel copies h->cfg into the map.
HbLockConfig ==
    /\ pc[Heartbeat] = "pass"
    /\ \E h \in hb_todo :
       /\ cfg_lock[h] = None
       /\ cfg_lock' = [cfg_lock EXCEPT ![h] = Heartbeat]
       /\ hb_copy' = cfg[h]
       /\ arg' = [arg EXCEPT ![Heartbeat] = h]
    /\ Goto(Heartbeat, "write")
    /\ UNCHANGED <<handleVars, qlock, hb_list, hb_lock, hb_running, hb_todo, kind>>

HbWriteConfig ==
    /\ pc[Heartbeat] = "write"
    /\ map' = [map EXCEPT ![arg[Heartbeat]] = hb_copy]
    /\ cfg_lock' = [cfg_lock EXCEPT ![arg[Heartbeat]] = None]
    /\ arg' = [arg EXCEPT ![Heartbeat] = None]
    /\ hb_todo' = hb_todo \ {arg[Heartbeat]}
    /\ hb_copy' = FALSE
    /\ Goto(Heartbeat, "pass")
    /\ UNCHANGED <<alloc, closing, inflight, shut_recv, shut_send, cfg, qlock,
                   hb_list, hb_lock, hb_running, kind>>

\* The timed wait of HEARTBEAT_PERIOD_MS.
HbSleep ==
    /\ pc[Heartbeat] = "pass"
    /\ hb_todo = {}
    /\ hb_lock' = None
    /\ Goto(Heartbeat, "idle")
    /\ UNCHANGED <<handleVars, lockVars, hb_list, hb_running, hb_todo, hb_copy,
                   arg, kind>>

-----------------------------------------------------------------------------
(***************************************************************************)
(* GUARDED calls.                                                          *)
(***************************************************************************)

\* Mutant: the call is not counted.
handle_enter_uncounted(t, h, k) ==
    /\ pc[t] = "idle"
    /\ alloc[h] = "open"
    /\ ~closing[h]                      \* otherwise -EBADF, nothing changes
    /\ Begin(t, h, k, "body")
    /\ UNCHANGED <<alloc, closing, inflight, shut_recv, shut_send, cfg, map, lockVars, hbVars>>

handle_enter(t, h, k) ==
    /\ pc[t] = "idle"
    /\ alloc[h] = "open"
    /\ ~closing[h]                      \* otherwise -EBADF, nothing changes
    /\ inflight' = [inflight EXCEPT ![h] = @ + 1]
    /\ Begin(t, h, k, "body")
    /\ UNCHANGED <<alloc, closing, shut_recv, shut_send, cfg, map, lockVars, hbVars>>

\* The call's own work.  A receiver sleeps until the shutdown.
BodyReturns(t) ==
    /\ pc[t] = "body"
    /\ kind[t] = "recv" => shut_recv[arg[t]]
    /\ Goto(t, "leave")
    /\ UNCHANGED <<handleVars, lockVars, hbVars, arg, kind>>

\* A packet, or its timeout, may release a receiver as well.
ReceiverServed(t) ==
    /\ pc[t] = "body"
    /\ kind[t] = "recv"
    /\ Goto(t, "leave")
    /\ UNCHANGED <<handleVars, lockVars, hbVars, arg, kind>>

Closers(h) == {t \in Threads : arg[t] = h /\ pc[t] = "cond_wait"}

\* Mutant: nobody is woken.
handle_leave_quiet(t) ==
    /\ pc[t] = "leave"
    /\ LET h == arg[t] IN
       /\ inflight' = [inflight EXCEPT ![h] = @ - 1]
       /\ Goto(t, "idle")
    /\ arg' = [arg EXCEPT ![t] = None]
    /\ kind' = [kind EXCEPT ![t] = "none"]
    /\ UNCHANGED <<alloc, closing, shut_recv, shut_send, cfg, map, lockVars, hbVars>>

\* The last call out of a closing handle broadcasts rcond.
handle_leave(t) ==
    /\ pc[t] = "leave"
    /\ LET h == arg[t] IN
       /\ inflight' = [inflight EXCEPT ![h] = @ - 1]
       /\ pc' = [u \in AllThreads |->
                   IF u = t THEN "idle"
                   ELSE IF u \in Closers(h) /\ inflight'[h] = 0 /\ closing[h]
                     THEN "inflight"
                   ELSE pc[u]]
    /\ arg' = [arg EXCEPT ![t] = None]
    /\ kind' = [kind EXCEPT ![t] = "none"]
    /\ UNCHANGED <<alloc, closing, shut_recv, shut_send, cfg, map, lockVars, hbVars>>

-----------------------------------------------------------------------------
(***************************************************************************)
(* ebpfdivert_shutdown, which is not guarded: called by the application    *)
(* for RECV, SEND or BOTH, or by close for BOTH.  When RECV is shut down   *)
(* already its part changes nothing.                                       *)
(***************************************************************************)

InShutdown(t) == pc[t] \in {"shut", "shut_cfg", "shut_write", "shut_unlock", "shut_send"}

Shutdown(t, h) ==
    /\ pc[t] = "idle"
    /\ alloc[h] = "open"
    /\ Overlap \/ ~closing[h]
    /\ \/ Begin(t, h, "shut_recv", "shut")
       \/ Begin(t, h, "shut_send", "shut_send")
       \/ Begin(t, h, "shut_both", "shut")
    /\ UNCHANGED <<handleVars, lockVars, hbVars>>

ShutdownLock(t) ==
    /\ pc[t] = "shut"
    /\ LET h == arg[t] IN
       /\ qlock[h] = None
       /\ qlock' = [qlock EXCEPT ![h] = t]
       /\ shut_recv' = [shut_recv EXCEPT ![h] = TRUE]
       /\ Goto(t, IF shut_recv[h] THEN "shut_unlock" ELSE "shut_cfg")
    /\ UNCHANGED <<alloc, closing, inflight, shut_send, cfg, map, cfg_lock,
                   hbVars, arg, kind>>

ShutdownFlag(t) ==
    /\ pc[t] = "shut_cfg"
    /\ cfg_lock[arg[t]] = None
    /\ cfg' = [cfg EXCEPT ![arg[t]] = TRUE]
    /\ Goto(t, "shut_write")
    /\ UNCHANGED <<alloc, closing, inflight, shut_recv, shut_send, map, lockVars,
                   hbVars, arg, kind>>

ShutdownWrite(t) ==
    /\ pc[t] = "shut_write"
    /\ cfg_lock[arg[t]] = None
    /\ map' = [map EXCEPT ![arg[t]] = cfg[arg[t]]]
    /\ Goto(t, "shut_unlock")
    /\ UNCHANGED <<alloc, closing, inflight, shut_recv, shut_send, cfg, lockVars,
                   hbVars, arg, kind>>

ShutdownUnlock(t) ==
    /\ pc[t] = "shut_unlock"
    /\ qlock' = [qlock EXCEPT ![arg[t]] = None]
    /\ IF kind[t] = "shut_recv" THEN Done(t)
                                ELSE Goto(t, "shut_send") /\ UNCHANGED <<arg, kind>>
    /\ UNCHANGED <<handleVars, cfg_lock, hbVars>>

ShutdownSend(t) ==
    /\ pc[t] = "shut_send"
    /\ shut_send' = [shut_send EXCEPT ![arg[t]] = TRUE]
    /\ IF kind[t] = "close" THEN Goto(t, "hb_remove") /\ UNCHANGED <<arg, kind>>
                            ELSE Done(t)
    /\ UNCHANGED <<alloc, closing, inflight, shut_recv, cfg, map, lockVars, hbVars>>

-----------------------------------------------------------------------------
(***************************************************************************)
(* ebpfdivert_close.                                                       *)
(***************************************************************************)

\* Mutant: a second close is let in.
Close_twice(t, h) ==
    /\ pc[t] = "idle"
    /\ alloc[h] = "open"
    /\ Overlap \/ \A u \in Threads : InShutdown(u) => arg[u] # h
    /\ closing' = [closing EXCEPT ![h] = TRUE]
    /\ Begin(t, h, "close", "shut")
    /\ UNCHANGED <<alloc, inflight, shut_recv, shut_send, cfg, map, lockVars, hbVars>>

\* Mutant: close does not shut the handle down first.
Close_unshut(t, h) ==
    /\ pc[t] = "idle"
    /\ alloc[h] = "open"
    /\ ~closing[h]                      \* otherwise -EBADF
    /\ Overlap \/ \A u \in Threads : InShutdown(u) => arg[u] # h
    /\ closing' = [closing EXCEPT ![h] = TRUE]
    /\ Begin(t, h, "close", "hb_remove")
    /\ UNCHANGED <<alloc, inflight, shut_recv, shut_send, cfg, map, lockVars, hbVars>>

Close(t, h) ==
    /\ pc[t] = "idle"
    /\ alloc[h] = "open"
    /\ ~closing[h]                      \* otherwise -EBADF
    /\ Overlap \/ \A u \in Threads : InShutdown(u) => arg[u] # h
    /\ closing' = [closing EXCEPT ![h] = TRUE]
    /\ Begin(t, h, "close", "shut")
    /\ UNCHANGED <<alloc, inflight, shut_recv, shut_send, cfg, map, lockVars, hbVars>>

\* Mutant: hb_lock is not taken.
heartbeat_remove_free(t) ==
    /\ pc[t] = "hb_remove"
    /\ hb_list' = hb_list \ {arg[t]}
    /\ Goto(t, "inflight")
    /\ UNCHANGED <<handleVars, lockVars, hb_lock, hb_running, hb_todo, hb_copy,
                   arg, kind>>

heartbeat_remove(t) ==
    /\ pc[t] = "hb_remove"
    /\ hb_lock = None
    /\ hb_list' = hb_list \ {arg[t]}
    /\ Goto(t, "inflight")
    /\ UNCHANGED <<handleVars, lockVars, hb_lock, hb_running, hb_todo, hb_copy,
                   arg, kind>>

\* Mutant: calls in progress are not waited for.
CloseTest_hasty(t) ==
    /\ pc[t] = "inflight"
    /\ Goto(t, "free")
    /\ UNCHANGED <<handleVars, lockVars, hbVars, arg, kind>>

\* while (h->inflight > 0) pthread_cond_wait(...)
CloseTest(t) ==
    /\ pc[t] = "inflight"
    /\ Goto(t, IF inflight[arg[t]] > 0 THEN "cond_wait" ELSE "free")
    /\ UNCHANGED <<handleVars, lockVars, hbVars, arg, kind>>

\* pthread_cond_wait may wake up by itself.
SpuriousWakeup(t) ==
    /\ pc[t] = "cond_wait"
    /\ Goto(t, "inflight")
    /\ UNCHANGED <<handleVars, lockVars, hbVars, arg, kind>>

\* detach_all, the registry entry, free_handle.
CloseFree(t) ==
    /\ pc[t] = "free"
    /\ alloc' = [alloc EXCEPT ![arg[t]] = "free"]
    /\ Done(t)
    /\ UNCHANGED <<closing, inflight, shut_recv, shut_send, cfg, map, lockVars, hbVars>>

-----------------------------------------------------------------------------
Heartbeats == HbPass \/ HbLockConfig \/ HbWriteConfig \/ HbSleep

\* Steps a thread inside the library takes without waiting for another.
LibStep(t) ==
    \/ BodyReturns(t) \/ handle_leave(t)
    \/ ShutdownUnlock(t) \/ ShutdownSend(t)
    \/ CloseTest(t) \/ CloseFree(t)

\* Steps that wait for a mutex.
LockStep(t) ==
    \/ heartbeat_add(t) \/ heartbeat_remove(t)
    \/ ShutdownLock(t) \/ ShutdownFlag(t) \/ ShutdownWrite(t)

Next ==
    \/ Heartbeats
    \/ \E t \in Threads : LibStep(t) \/ LockStep(t)
    \/ \E t \in Threads : OpenFails(t) \/ ReceiverServed(t) \/ SpuriousWakeup(t)
    \/ \E t \in Threads, h \in Handles : Open(t, h) \/ Shutdown(t, h) \/ Close(t, h)
    \/ \E t \in Threads, h \in Handles, k \in {"recv", "short"} : handle_enter(t, h, k)

Spec == Init /\ [][Next]_vars

\* Threads inside the library keep running, and a mutex released again and
\* again is got.
FairSpec ==
    /\ Spec
    /\ WF_vars(Heartbeats)
    /\ \A t \in Threads : WF_vars(LibStep(t)) /\ SF_vars(LockStep(t))

-----------------------------------------------------------------------------
Positions == {"idle", "hb_add", "body", "leave", "shut", "shut_cfg", "shut_write",
              "shut_unlock", "shut_send", "hb_remove", "inflight", "cond_wait",
              "free", "pass", "write"}
Kinds == {"none", "open", "recv", "short", "shut_recv", "shut_send", "shut_both", "close"}

\* The fields of the handles, the locks and the threads keep their types.
TypeOK ==
    /\ alloc \in [Handles -> {"free", "building", "open"}]
    /\ closing \in [Handles -> BOOLEAN]
    /\ inflight \in [Handles -> Nat]
    /\ shut_recv \in [Handles -> BOOLEAN]
    /\ shut_send \in [Handles -> BOOLEAN]
    /\ qlock \in [Handles -> Threads \cup {None}]
    /\ cfg_lock \in [Handles -> {Heartbeat, None}]
    /\ cfg \in [Handles -> BOOLEAN]
    /\ map \in [Handles -> BOOLEAN]
    /\ hb_list \subseteq Handles
    /\ hb_lock \in {Heartbeat, None}
    /\ hb_running \in BOOLEAN
    /\ hb_todo \subseteq Handles
    /\ hb_copy \in BOOLEAN
    /\ pc \in [AllThreads -> Positions]
    /\ arg \in [AllThreads -> Handles \cup {None}]
    /\ kind \in [AllThreads -> Kinds]

Inside(h) == {t \in Threads : arg[t] = h /\ pc[t] \in {"body", "leave"}}

\* GUARDED: "close() never frees a handle in use" by a guarded call.
CallsHoldHandle == \A h \in Handles : Inside(h) # {} => alloc[h] = "open"

\* heartbeat_main never refreshes a handle that close has freed: what it is
\* about to touch is open.
HeartbeatHoldsHandle ==
    \A h \in hb_todo : alloc[h] = "open"

\* A handle is freed only by the one close that won, when no guarded call is
\* inside, and off the heartbeat list.
FreeIsSafe ==
    \A t \in Threads : pc[t] = "free" =>
        /\ Inside(arg[t]) = {}
        /\ arg[t] \notin hb_list
        /\ \A u \in Threads \ {t} : kind[u] = "close" => arg[u] # arg[t]

\* When ebpfdivert_shutdown lets go of qlock the kernel has the flag, and no
\* heartbeat has written an older configuration over it.
ShutdownReachesKernel ==
    \A h \in Handles :
        alloc[h] = "open" /\ shut_recv[h] /\ qlock[h] = None => map[h]

-----------------------------------------------------------------------------
(***************************************************************************)
(* The inductive invariant behind CallsHoldHandle, HeartbeatHoldsHandle    *)
(* and FreeIsSafe; with ConfigInv, behind ShutdownReachesKernel.           *)
(***************************************************************************)

ShutPositions == {"shut", "shut_cfg", "shut_write", "shut_unlock", "shut_send"}

\* Where a call of each kind may be.
ThreadInv ==
    \A t \in Threads :
        /\ pc[t] # "idle" => arg[t] \in Handles
        /\ kind[t] = "none" <=> pc[t] = "idle"
        /\ kind[t] = "open" <=> pc[t] = "hb_add"
        /\ kind[t] \in {"recv", "short"} <=> pc[t] \in {"body", "leave"}
        /\ kind[t] \in {"shut_recv", "shut_send", "shut_both"} => pc[t] \in ShutPositions
        /\ kind[t] = "close" =>
             pc[t] \in ShutPositions \cup {"hb_remove", "inflight", "cond_wait", "free"}

\* open and close have their handle to themselves.
OwnerInv ==
    \A t \in Threads :
        /\ kind[t] = "open" => alloc[arg[t]] = "building"
        /\ kind[t] = "close" => alloc[arg[t]] = "open" /\ closing[arg[t]]
        /\ kind[t] \in {"open", "close"} =>
             \A u \in Threads : u # t /\ kind[u] = kind[t] => arg[u] # arg[t]

\* inflight counts the guarded calls, which keep their handle allocated.
GuardInv ==
    /\ \A h \in Handles : inflight[h] = Cardinality(Inside(h))
    /\ \A t \in Threads : pc[t] \in {"body", "leave"} => alloc[arg[t]] = "open"
    /\ \A t \in Threads : pc[t] = "free" => inflight[arg[t]] = 0

\* hb_lock keeps what the heartbeat thread walks on the list, and the list
\* holds open handles that no close is past heartbeat_remove on.
HeartbeatInv ==
    /\ pc[Heartbeat] \in {"idle", "pass", "write"}
    /\ hb_lock = Heartbeat <=> pc[Heartbeat] # "idle"
    /\ hb_lock = None => hb_todo = {}
    /\ hb_todo \subseteq hb_list
    /\ \A h \in hb_list : alloc[h] = "open"
    /\ \A t \in Threads :
         pc[t] \in {"inflight", "cond_wait", "free"} => arg[t] \notin hb_list

\* What ShutdownReachesKernel needs besides, when the application does not let
\* shutdown overlap close.  A shutdown has its handle open.
ShutdownInv ==
    \A t \in Threads :
        /\ pc[t] \in ShutPositions => alloc[arg[t]] = "open"
        /\ kind[t] \in {"shut_recv", "shut_send", "shut_both"} => ~closing[arg[t]]

\* It has qlock to itself while it sets the flag; the map never has the flag
\* when h->cfg does not; and what the heartbeat thread is about to write under
\* cfg_lock is still h->cfg.
Setting == {"shut_cfg", "shut_write", "shut_unlock"}

ConfigAt(h) ==
    /\ map[h] => cfg[h]
    /\ alloc[h] = "building" => ~shut_recv[h]
    /\ alloc[h] = "open" /\ shut_recv[h] /\ qlock[h] = None => map[h]
    /\ \A t \in Threads : arg[t] = h =>
         /\ pc[t] \in Setting => qlock[h] = t
         /\ pc[t] = "shut_write" => cfg[h]
         /\ pc[t] = "shut_unlock" => map[h]
    /\ pc[Heartbeat] = "write" /\ arg[Heartbeat] = h =>
         h \in hb_todo /\ cfg_lock[h] = Heartbeat /\ (hb_copy <=> cfg[h])

ConfigInv == ShutdownInv /\ \A h \in Handles : ConfigAt(h)

LifecycleInv == TypeOK /\ ThreadInv /\ OwnerInv /\ GuardInv /\ HeartbeatInv

\* A blocked receiver never keeps close from returning.
CloseReturns ==
    \A t \in Threads : kind[t] = "close" ~> kind[t] # "close"

\* A call in progress on a handle being closed returns.
CallsReturn ==
    \A t \in Threads, h \in Handles :
        pc[t] = "body" /\ arg[t] = h /\ closing[h] ~> pc[t] # "body"
=============================================================================
