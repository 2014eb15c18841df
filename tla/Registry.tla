------------------------------ MODULE Registry ------------------------------
(***************************************************************************)
(* The registry of live handles shared by every process (handle.c).        *)
(*                                                                         *)
(* A call of the library is one of the Calls: opening and later closing a  *)
(* NETWORK handle, opening an event or REFLECT handle, or                  *)
(* ebpfdivert_unregister.  A process may die between any two of its steps: *)
(* the kernel then drops its flock, and nothing else.  Its cls_bpf filters *)
(* and its registry entry stay until some later call reaps them.           *)
(*                                                                         *)
(* A filter sits in a slot: a hook (an interface and a direction), a TC    *)
(* priority and the number the kernel gave it among the filters of that    *)
(* hook and priority.  bpf_tc_detach names the slot and nothing more.      *)
(***************************************************************************)
EXTENDS Integers, FiniteSets

CONSTANTS
    Procs,          \* processes; a later one may get the pid of a dead one
    PidOf,          \* [Procs -> pids]
    Late,           \* the processes that start later
    Calls,          \* open..close of one handle, or one unregister
    Owner,          \* [Calls -> Procs]
    Kind,           \* [Calls -> {"network", "event", "unregister"}]
    Priority,       \* [Calls -> Int]: the WinDivert priority, 0 is automatic
    NHooks,         \* hooks 2i-1 and 2i: ingress and egress of interface i
    Base,           \* AUTO_PRIORITY_BASE
    MaxPrio,        \* the 0xFFFF that choose_tc_prio saturates at
    RegistryMax,    \* REGISTRY_MAX
    AttachMax,      \* REG_MAX_ATTACH
    Named,          \* the calls with an explicit list of interfaces
    LockFails,      \* processes that cannot open REGISTRY_LOCK
    DiesClosing,    \* may a process die between detach_all and the removal
                    \* of its entry?
    None

Hooks == 1..NHooks
Slots == [hook : Hooks, prio : Nat, num : Nat]
Filters == [slot : Slots, owner : Calls]

ASSUME RegistryAssumption ==
    /\ Owner \in [Calls -> Procs]
    /\ Kind \in [Calls -> {"network", "event", "unregister"}]
    /\ Priority \in [Calls -> Int]
    /\ \A c \in Calls : Base > Priority[c]
    /\ NHooks \in Nat /\ Base \in Nat /\ MaxPrio \in Nat
    /\ RegistryMax \in Nat /\ AttachMax \in Nat
    /\ DiesClosing \in BOOLEAN
    /\ None \notin Calls

VARIABLES
    proc,           \* "unborn", "up" or "dead"
    pc,             \* where a call is
    lock,           \* who holds the flock
    filters,        \* the cls_bpf filters in the kernel
    att,            \* h->att: the slots a handle attached to
    registry,       \* the calls that have an entry
    entry,          \* the slots in that entry
    dead,           \* registry_reap's dead[]
    tc_prio,        \* h->tc_prio
    next,           \* the hook attach_interfaces is at
    local_max       \* local_max_tc_prio of a process

vars == <<proc, pc, lock, filters, att, registry, entry, dead, tc_prio, next, local_max>>

Init ==
    /\ proc = [p \in Procs |-> IF p \in Late THEN "unborn" ELSE "up"]
    /\ pc = [c \in Calls |-> "start"]
    /\ lock = None
    /\ filters = {}
    /\ att = [c \in Calls |-> {}]
    /\ registry = {}
    /\ entry = [c \in Calls |-> {}]
    /\ dead = [c \in Calls |-> {}]
    /\ tc_prio = [c \in Calls |-> 0]
    /\ next = [c \in Calls |-> 1]
    /\ local_max = [p \in Procs |-> 0]

Up(c) == proc[Owner[c]] = "up"
Goto(c, where) == pc' = [pc EXCEPT ![c] = where]

\* Inside the part that registry_lock protects.
Locked == {"reap", "delete", "prio", "attach", "add"}

\* flock(LOCK_UN): of the holder only, a call without the lock has no fd.
Unlock(c) == lock' = IF lock = c THEN None ELSE lock

-----------------------------------------------------------------------------
(***************************************************************************)
(* Processes.                                                              *)
(***************************************************************************)

Spawn(p) ==
    /\ proc[p] = "unborn"
    /\ \A q \in Procs : PidOf[q] = PidOf[p] => proc[q] # "up"
    /\ proc' = [proc EXCEPT ![p] = "up"]
    /\ UNCHANGED <<pc, lock, filters, att, registry, entry, dead, tc_prio, next, local_max>>

\* Mutant: the lock outlives its holder.
Die_holding(p) ==
    /\ proc[p] = "up"
    /\ DiesClosing \/ \A c \in Calls : Owner[c] = p => pc[c] \notin {"detach", "forget"}
    /\ proc' = [proc EXCEPT ![p] = "dead"]
    /\ UNCHANGED <<pc, lock, filters, att, registry, entry, dead, tc_prio, next, local_max>>

Die(p) ==
    /\ proc[p] = "up"
    /\ DiesClosing \/ \A c \in Calls : Owner[c] = p => pc[c] \notin {"detach", "forget"}
    /\ proc' = [proc EXCEPT ![p] = "dead"]
    /\ lock' = IF lock \in Calls /\ Owner[lock] = p THEN None ELSE lock
    /\ UNCHANGED <<pc, filters, att, registry, entry, dead, tc_prio, next, local_max>>

\* Mutant: the start time is not compared.
proc_alive_pid(p) == \E q \in Procs : PidOf[q] = PidOf[p] /\ proc[q] = "up"

\* proc_alive(pid, start) of an entry that p wrote: its pid is in use, and by
\* a process with p's start time, which is p.
proc_alive(p) == \E q \in Procs : PidOf[q] = PidOf[p] /\ proc[q] = "up" /\ q = p

-----------------------------------------------------------------------------
(***************************************************************************)
(* registry_lock, registry_reap, choose_tc_prio, attach_interfaces and     *)
(* registry_add, in open_network's order.                                  *)
(***************************************************************************)

\* Mutant: flock's failure to wait goes unnoticed.
registry_lock_nowait(c) ==
    /\ pc[c] = "start" /\ Up(c)
    /\ lock' = c
    /\ Goto(c, "reap")
    /\ UNCHANGED <<proc, filters, att, registry, entry, dead, tc_prio, next, local_max>>

registry_lock(c) ==
    /\ pc[c] = "start" /\ Up(c)
    /\ \/ Owner[c] \notin LockFails /\ lock = None /\ lock' = c
       \/ Owner[c] \in LockFails /\ UNCHANGED lock
    /\ Goto(c, "reap")
    /\ UNCHANGED <<proc, filters, att, registry, entry, dead, tc_prio, next, local_max>>

\* Mutant: the filter's number is left out of the detach options.
registry_reap_any(c) ==
    /\ pc[c] = "reap" /\ Up(c)
    /\ LET found == {d \in registry : ~proc_alive(Owner[d])} IN
       /\ dead' = [dead EXCEPT ![c] = found]
       /\ filters' = {f \in filters : \A d \in found : \A s \in entry[d] :
                        s.hook # f.slot.hook \/ s.prio # f.slot.prio}
    /\ Goto(c, "delete")
    /\ UNCHANGED <<proc, lock, att, registry, entry, tc_prio, next, local_max>>

\* The first loop of registry_reap: detach_legacy_entry on every dead entry.
registry_reap(c) ==
    /\ pc[c] = "reap" /\ Up(c)
    /\ LET found == {d \in registry : ~proc_alive(Owner[d])} IN
       /\ dead' = [dead EXCEPT ![c] = found]
       /\ filters' = {f \in filters : \A d \in found : f.slot \notin entry[d]}
    /\ Goto(c, "delete")
    /\ UNCHANGED <<proc, lock, att, registry, entry, tc_prio, next, local_max>>

\* Mutant: the second loop asks again who is dead.
ReapDelete_again(c) ==
    /\ pc[c] = "delete" /\ Up(c)
    /\ registry' = {d \in registry : proc_alive(Owner[d])}
    /\ dead' = [dead EXCEPT ![c] = {}]
    /\ \/ Kind[c] = "unregister" /\ Goto(c, "done") /\ Unlock(c)
       \/ Kind[c] = "event" /\ Goto(c, "add") /\ UNCHANGED lock
       \/ Kind[c] = "network" /\ Goto(c, "prio") /\ UNCHANGED lock
    /\ UNCHANGED <<proc, filters, att, entry, tc_prio, next, local_max>>

\* Its second loop: the entries go.  ebpfdivert_unregister ends here, an
\* event handle goes on to registry_add.
ReapDelete(c) ==
    /\ pc[c] = "delete" /\ Up(c)
    /\ registry' = registry \ dead[c]
    /\ dead' = [dead EXCEPT ![c] = {}]
    /\ \/ Kind[c] = "unregister" /\ Goto(c, "done") /\ Unlock(c)
       \/ Kind[c] = "event" /\ Goto(c, "add") /\ UNCHANGED lock
       \/ Kind[c] = "network" /\ Goto(c, "prio") /\ UNCHANGED lock
    /\ UNCHANGED <<proc, filters, att, entry, tc_prio, next, local_max>>

\* Mutant: the handles of other processes are not looked at.
InUse_local(c) == {local_max[Owner[c]]}

\* registry_max_tc_prio and local_max_tc_prio.
InUse(c) == {tc_prio[d] : d \in registry} \cup {local_max[Owner[c]]}

AutoPrio(max) == IF max < Base THEN Base ELSE IF max < MaxPrio THEN max + 1 ELSE MaxPrio

\* "Priority 0: after every existing handle."
choose_tc_prio(c) ==
    /\ pc[c] = "prio" /\ Up(c)
    /\ \/ /\ Priority[c] # 0
          /\ tc_prio' = [tc_prio EXCEPT ![c] = Base - Priority[c]]
          /\ UNCHANGED local_max
       \/ /\ Priority[c] = 0
          /\ \E max \in InUse(c) :
             /\ \A n \in InUse(c) : n <= max
             /\ tc_prio' = [tc_prio EXCEPT ![c] = AutoPrio(max)]
             /\ local_max' = [local_max EXCEPT ![Owner[c]] = IF AutoPrio(max) > @ THEN AutoPrio(max) ELSE @]
    /\ Goto(c, "attach")
    /\ UNCHANGED <<proc, lock, filters, att, registry, entry, dead, next>>

\* The slots of a hook that the kernel may give to a new filter of this
\* priority: a number that no filter there has.
FreeSlots(hook, prio) ==
    LET used == {f.slot.num : f \in {g \in filters : g.slot.hook = hook /\ g.slot.prio = prio}} IN
    {[hook |-> hook, prio |-> prio, num |-> n] :
        n \in {m \in 1..(Cardinality(used) + 1) : m \notin used /\ \A k \in 1..(m - 1) : k \in used}}

attach_one(c) ==
    /\ pc[c] = "attach" /\ Up(c) /\ next[c] \in Hooks
    /\ \E s \in FreeSlots(next[c], tc_prio[c]) :
       /\ filters' = filters \cup {[slot |-> s, owner |-> c]}
       /\ att' = [att EXCEPT ![c] = @ \cup {s}]
    /\ next' = [next EXCEPT ![c] = @ + 1]
    /\ UNCHANGED <<proc, pc, lock, registry, entry, dead, tc_prio, local_max>>

\* attach_one fails: the rest of the interface is skipped, or the open is
\* given up (open_network unlocks before free_handle detaches).
AttachFails(c) ==
    /\ pc[c] = "attach" /\ Up(c) /\ next[c] \in Hooks
    /\ \/ c \in Named /\ Goto(c, "undo") /\ Unlock(c) /\ UNCHANGED next
       \/ /\ c \notin Named
          /\ next' = [next EXCEPT ![c] = IF @ % 2 = 1 THEN @ + 2 ELSE @ + 1]
          /\ UNCHANGED <<pc, lock>>
    /\ UNCHANGED <<proc, filters, att, registry, entry, dead, tc_prio, local_max>>

Attached(c, i) == {2 * i - 1, 2 * i} \subseteq {s.hook : s \in att[c]}

\* attach_interfaces returns: attached ? 0 : err.
AttachEnd(c) ==
    /\ pc[c] = "attach" /\ Up(c) /\ next[c] \notin Hooks
    /\ \/ (\E i \in Hooks : Attached(c, i)) /\ Goto(c, "add") /\ UNCHANGED lock
       \/ ~(\E i \in Hooks : Attached(c, i)) /\ Goto(c, "undo") /\ Unlock(c)
    /\ UNCHANGED <<proc, filters, att, registry, entry, dead, tc_prio, next, local_max>>

\* The slots that fit in the entry's attach[]: the first AttachMax.
Recorded(c) == {s \in att[c] : Cardinality({r \in att[c] : r.hook < s.hook}) < AttachMax}

\* A full map leaves reg_id 0: the handle works without an entry.
registry_add(c) ==
    /\ pc[c] = "add" /\ Up(c)
    /\ \/ /\ Cardinality(registry) < RegistryMax
          /\ registry' = registry \cup {c}
          /\ entry' = [entry EXCEPT ![c] = Recorded(c)]
       \/ /\ Cardinality(registry) >= RegistryMax
          /\ UNCHANGED <<registry, entry>>
    /\ Goto(c, "open")
    /\ Unlock(c)
    /\ UNCHANGED <<proc, filters, att, dead, tc_prio, next, local_max>>

-----------------------------------------------------------------------------
(***************************************************************************)
(* close: detach_all without the lock, then the entry under it.            *)
(***************************************************************************)

Close(c) ==
    /\ pc[c] = "open" /\ Up(c)
    /\ Goto(c, "detach")
    /\ UNCHANGED <<proc, lock, filters, att, registry, entry, dead, tc_prio, next, local_max>>

\* One bpf_tc_detach of detach_all, of close or of a failed open.
detach_all(c) ==
    /\ pc[c] \in {"detach", "undo"} /\ Up(c)
    /\ \/ /\ \E s \in att[c] :
             /\ \A r \in att[c] : s.hook <= r.hook
             /\ filters' = {f \in filters : f.slot # s}
             /\ att' = [att EXCEPT ![c] = @ \ {s}]
          /\ UNCHANGED pc
       \/ /\ att[c] = {}
          /\ Goto(c, IF pc[c] = "detach" /\ c \in registry THEN "forget" ELSE "done")
          /\ UNCHANGED <<filters, att>>
    /\ UNCHANGED <<proc, lock, registry, entry, dead, tc_prio, next, local_max>>

\* registry_lock, bpf_map_delete_elem, registry_unlock.
CloseForget(c) ==
    /\ pc[c] = "forget" /\ Up(c)
    /\ Owner[c] \in LockFails \/ lock = None
    /\ registry' = registry \ {c}
    /\ Goto(c, "done")
    /\ UNCHANGED <<proc, lock, filters, att, entry, dead, tc_prio, next, local_max>>

\* Every call has returned and every process is gone.
Quiet ==
    /\ \A p \in Procs : proc[p] = "dead"
    /\ UNCHANGED vars

OpenStep(c) ==
    \/ registry_reap(c) \/ ReapDelete(c) \/ choose_tc_prio(c)
    \/ attach_one(c) \/ AttachFails(c) \/ AttachEnd(c) \/ registry_add(c)

Next ==
    \/ \E p \in Procs : Spawn(p) \/ Die(p)
    \/ \E c \in Calls : registry_lock(c) \/ OpenStep(c)
    \/ \E c \in Calls : Close(c) \/ detach_all(c) \/ CloseForget(c)
    \/ Quiet

Spec == Init /\ [][Next]_vars

-----------------------------------------------------------------------------
(***************************************************************************)
(* Properties.                                                             *)
(***************************************************************************)

Places == {"start", "open", "detach", "forget", "undo", "done"} \cup Locked

\* The registry, the kernel's filters and the calls keep their types.
TypeOK ==
    /\ proc \in [Procs -> {"unborn", "up", "dead"}]
    /\ pc \in [Calls -> Places]
    /\ lock \in Calls \cup {None}
    /\ filters \subseteq Filters
    /\ att \in [Calls -> SUBSET Slots]
    /\ registry \subseteq Calls
    /\ entry \in [Calls -> SUBSET Slots]
    /\ dead \in [Calls -> SUBSET Calls]
    /\ tc_prio \in [Calls -> Nat]
    /\ next \in [Calls -> Nat]
    /\ local_max \in [Procs -> Nat]

\* registry_reap removes filters of dead processes only: a filter goes
\* because its own handle is being closed (or its open undone), or because
\* its process is dead.  "Live handles are untouched."
LiveUntouched ==
    [][\A f \in filters \ filters' : Up(f.owner) => pc[f.owner] \in {"detach", "undo"}]_vars

\* What a registered process leaves behind stays listed until it is detached:
\* a filter that an entry recorded and whose process died is still in the
\* registry, so that the next open or unregister finds it.
OrphansListed ==
    \A f \in filters :
        ~Up(f.owner) /\ f.slot \in entry[f.owner] => f.owner \in registry

\* A pid used again hides no dead process from registry_reap: after its first
\* loop no filter that a dead process had recorded is left.
DeadDetached ==
    [][\A c \in Calls : pc[c] = "reap" /\ pc'[c] = "delete" =>
          \A f \in filters' : f.owner \in registry /\ ~Up(f.owner) =>
              f.slot \notin entry[f.owner]]_vars

Automatic(c) == Kind[c] = "network" /\ Priority[c] = 0 /\ pc[c] \in {"attach", "add", "open"}

\* Two live handles of priority 0 never share a TC priority, whatever
\* processes they are in, until the priorities are used up: choose_tc_prio
\* picks under the lock that registry_add publishes under.
AutomaticDistinct ==
    \A c, d \in Calls :
        /\ c # d /\ Up(c) /\ Up(d) /\ Automatic(c) /\ Automatic(d)
        /\ {c, d} \subseteq registry \cup {lock} \/ Owner[c] = Owner[d]
        /\ tc_prio[c] = tc_prio[d]
        => tc_prio[c] = MaxPrio

\* The flock is never left with a process that died, nor with a call that
\* has returned.
LockHolderLive == lock # None => Up(lock) /\ pc[lock] \in Locked

-----------------------------------------------------------------------------
(***************************************************************************)
(* The inductive invariant behind LiveUntouched and OrphansListed, for a   *)
(* lock that works and processes that do not die inside detach..forget.    *)
(***************************************************************************)

Own(c, s) == [slot |-> s, owner |-> c]

LockInv == \A c \in Calls : Up(c) /\ pc[c] \in Locked => lock = c

\* Before attach_interfaces a call has attached and recorded nothing.
StartInv ==
    \A c \in Calls :
        /\ proc[Owner[c]] = "unborn" => pc[c] = "start"
        /\ pc[c] \in {"start", "reap", "delete", "prio"} => att[c] = {} /\ entry[c] = {}

\* One filter per slot; a live handle's filters are where it put them.
SlotInv ==
    /\ \A f, g \in filters : f.slot = g.slot => f = g
    /\ \A f \in filters : f.slot \in att[f.owner]
    /\ \A c \in Calls : Up(c) => \A s \in att[c] : Own(c, s) \in filters

\* An entry lists what its handle attached.
EntryInv ==
    /\ \A c \in registry : pc[c] \in {"open", "detach", "forget"}
    /\ \A c \in registry : pc[c] = "open" => entry[c] \subseteq att[c]
    /\ \A c \in Calls : pc[c] \in {"forget", "done"} => att[c] = {}
    /\ \A c \in Calls : Up(c) /\ entry[c] # {} =>
          c \in registry \/ pc[c] = "done"
    /\ \A c \in Calls : ~Up(c) => pc[c] \notin {"detach", "forget"}

\* The entries of the dead name no filter of anybody else; and once the
\* holder of the lock has reaped, those left in the registry still hold their
\* slots, so that attach_one cannot be given one of them.
DeadInv ==
    /\ \A c \in registry, f \in filters : ~Up(c) /\ f.slot \in entry[c] => f.owner = c
    /\ lock # None /\ pc[lock] = "delete" =>
         \A d \in dead[lock] : d \in registry /\ ~Up(d) /\ \A s \in entry[d] : Own(d, s) \notin filters
    /\ lock # None /\ pc[lock] \in {"delete", "prio", "attach", "add"} =>
         \A d \in registry : ~Up(d) =>
            \/ pc[lock] = "delete" /\ d \in dead[lock]
            \/ \A s \in entry[d] : Own(d, s) \in filters

\* No process that has the lock file is unable to lock it, none dies in
\* close's window.
Assumed == LockFails = {} /\ ~DiesClosing

RegistryInv ==
    /\ TypeOK /\ LockHolderLive
    /\ Assumed => LockInv /\ StartInv /\ SlotInv /\ EntryInv /\ DeadInv /\ OrphansListed
=============================================================================
