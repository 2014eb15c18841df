--------------------------- MODULE RegistryProofs ---------------------------
(***************************************************************************)
(* Proofs about Registry, for any processes, calls, priorities and hooks.  *)
(***************************************************************************)
EXTENDS Registry, TLAPS

\* The provers a leaf is tried with when it names none.
USE SMT, Zenon, Z3T(40)

\* A slot that the kernel gives out is a slot, and no filter has it.
LEMMA FreeSlotFresh ==
    ASSUME NEW hook \in Hooks, NEW prio \in Nat, NEW s \in FreeSlots(hook, prio)
    PROVE  s \in Slots /\ \A f \in filters : f.slot # s
<1> DEFINE used == {f.slot.num : f \in {g \in filters : g.slot.hook = hook /\ g.slot.prio = prio}}
<1>1. PICK n \in 1..(Cardinality(used) + 1) :
         n \notin used /\ s = [hook |-> hook, prio |-> prio, num |-> n]
  BY Zenon DEF FreeSlots
<1>2. n \in Nat
  BY <1>1
<1>3. s \in Slots
  BY <1>1, <1>2 DEF Slots
<1>4. ASSUME NEW f \in filters, f.slot = s PROVE FALSE
  <2>1. f.slot.hook = hook /\ f.slot.prio = prio /\ f.slot.num = n
    BY <1>1, <1>4
  <2>2. f.slot.num \in used
    BY <2>1
  <2> QED
    BY <1>1, <2>1, <2>2
<1> QED
  BY <1>3, <1>4

\* The start time tells a process from a later one with its pid.
LEMMA AliveIsUp == \A p \in Procs : proc_alive(p) <=> proc[p] = "up"
BY DEF proc_alive

-----------------------------------------------------------------------------
\* Init establishes the invariant: no filter, no entry, no lock.
LEMMA RegistryInit == Init => RegistryInv
<1> SUFFICES ASSUME Init PROVE RegistryInv
  OBVIOUS
<1> USE RegistryAssumption
<1>1. TypeOK
  BY Zenon DEF Init, TypeOK, Places, Filters
<1>2. LockHolderLive
  BY DEF Init, LockHolderLive
<1>3. LockInv
  BY DEF Init, LockInv, Locked
<1>4. StartInv
  BY DEF Init, StartInv
<1>5. SlotInv /\ OrphansListed
  BY DEF Init, SlotInv, OrphansListed
<1>6. EntryInv
  BY DEF Init, EntryInv
<1>7. DeadInv
  BY DEF Init, DeadInv
<1> QED
  BY <1>1, <1>2, <1>3, <1>4, <1>5, <1>6, <1>7 DEF RegistryInv

\* Every step keeps the types.
LEMMA TypeStep ==
    TypeOK /\ [Next]_vars => TypeOK'
<1> SUFFICES ASSUME TypeOK, [Next]_vars PROVE TypeOK'
  OBVIOUS
<1> USE RegistryAssumption
<1>1. ASSUME NEW p \in Procs, Spawn(p) PROVE TypeOK'
  BY <1>1 DEF Spawn, TypeOK, Goto, Unlock, Locked, Places
<1>2. ASSUME NEW p \in Procs, Die(p) PROVE TypeOK'
  BY <1>2 DEF Die, TypeOK, Goto, Unlock, Locked, Places
<1>3. ASSUME NEW c \in Calls, registry_lock(c) PROVE TypeOK'
  BY <1>3 DEF registry_lock, TypeOK, Goto, Unlock, Locked, Places
<1>4. ASSUME NEW c \in Calls, registry_reap(c) PROVE TypeOK'
  BY <1>4 DEF registry_reap, TypeOK, Goto, Unlock, Locked, Places
<1>5. ASSUME NEW c \in Calls, ReapDelete(c) PROVE TypeOK'
  BY <1>5 DEF ReapDelete, TypeOK, Goto, Unlock, Locked, Places
<1>6. ASSUME NEW c \in Calls, choose_tc_prio(c) PROVE TypeOK'
  BY <1>6 DEF choose_tc_prio, TypeOK, Goto, Unlock, Locked, Places, InUse, AutoPrio
<1>7. ASSUME NEW c \in Calls, attach_one(c) PROVE TypeOK'
  <2> DEFINE n == next[c]
  <2>1. n \in Hooks /\ c \in Calls /\ tc_prio[c] \in Nat /\ n \in Nat
    BY <1>7 DEF attach_one, TypeOK
  <2>2. PICK s \in FreeSlots(n, tc_prio[c]) :
           /\ filters' = filters \cup {[slot |-> s, owner |-> c]}
           /\ att' = [att EXCEPT ![c] = @ \cup {s}]
    BY <1>7, Zenon DEF attach_one
  <2>3. s \in Slots
    BY <2>1, <2>2, FreeSlotFresh
  <2>4. filters' \subseteq Filters
    BY <2>2, <2>3 DEF TypeOK, Filters
  <2>5. att' \in [Calls -> SUBSET Slots]
    BY <2>2, <2>3 DEF TypeOK
  <2>6. next' \in [Calls -> Nat]
    BY <2>1, <1>7 DEF attach_one, TypeOK
  <2> QED
    BY <2>4, <2>5, <2>6, <1>7 DEF attach_one, TypeOK
<1>8. ASSUME NEW c \in Calls, AttachFails(c) PROVE TypeOK'
  BY <1>8 DEF AttachFails, TypeOK, Goto, Unlock, Locked, Places
<1>9. ASSUME NEW c \in Calls, AttachEnd(c) PROVE TypeOK'
  BY <1>9 DEF AttachEnd, TypeOK, Goto, Unlock, Locked, Places
<1>10. ASSUME NEW c \in Calls, registry_add(c) PROVE TypeOK'
  <2>1. Recorded(c) \in SUBSET Slots
    BY DEF TypeOK, Recorded
  <2>2. registry' \subseteq Calls /\ entry' \in [Calls -> SUBSET Slots]
    BY <2>1, <1>10 DEF registry_add, TypeOK
  <2>3. pc' \in [Calls -> Places] /\ lock' \in Calls \cup {None}
    BY <1>10 DEF registry_add, TypeOK, Goto, Unlock, Places
  <2> QED
    BY <2>2, <2>3, <1>10 DEF registry_add, TypeOK
<1>11. ASSUME NEW c \in Calls, Close(c) PROVE TypeOK'
  BY <1>11 DEF Close, TypeOK, Goto, Unlock, Locked, Places
<1>12. ASSUME NEW c \in Calls, detach_all(c) PROVE TypeOK'
  BY <1>12 DEF detach_all, TypeOK, Goto, Unlock, Locked, Places
<1>13. ASSUME NEW c \in Calls, CloseForget(c) PROVE TypeOK'
  BY <1>13 DEF CloseForget, TypeOK, Goto, Unlock, Locked, Places
<1>14. CASE UNCHANGED vars
  BY <1>14 DEF vars, TypeOK
<1> QED
  BY <1>1, <1>2, <1>3, <1>4, <1>5, <1>6, <1>7, <1>8, <1>9, <1>10, <1>11, <1>12, <1>13, <1>14 DEF Next, OpenStep, Quiet

\* The holder of the flock is alive and inside the section: flock goes with
\* its process, and every way out of the section unlocks.
LEMMA LockHolderStep ==
    TypeOK /\ LockHolderLive /\ [Next]_vars => LockHolderLive'
<1> SUFFICES ASSUME TypeOK, LockHolderLive, [Next]_vars PROVE LockHolderLive'
  OBVIOUS
<1> USE RegistryAssumption
<1>1. ASSUME NEW p \in Procs, Spawn(p) PROVE LockHolderLive'
  BY <1>1 DEF Spawn, TypeOK, LockHolderLive, Up, Goto, Unlock, Locked
<1>2. ASSUME NEW p \in Procs, Die(p) PROVE LockHolderLive'
  BY <1>2 DEF Die, TypeOK, LockHolderLive, Up, Goto, Unlock, Locked
<1>3. ASSUME NEW c \in Calls, registry_lock(c) PROVE LockHolderLive'
  BY <1>3 DEF registry_lock, TypeOK, LockHolderLive, Up, Goto, Unlock, Locked
<1>4. ASSUME NEW c \in Calls, registry_reap(c) PROVE LockHolderLive'
  BY <1>4 DEF registry_reap, TypeOK, LockHolderLive, Up, Goto, Unlock, Locked
<1>5. ASSUME NEW c \in Calls, ReapDelete(c) PROVE LockHolderLive'
  BY <1>5 DEF ReapDelete, TypeOK, LockHolderLive, Up, Goto, Unlock, Locked
<1>6. ASSUME NEW c \in Calls, choose_tc_prio(c) PROVE LockHolderLive'
  BY <1>6 DEF choose_tc_prio, TypeOK, LockHolderLive, Up, Goto, Unlock, Locked
<1>7. ASSUME NEW c \in Calls, attach_one(c) PROVE LockHolderLive'
  BY <1>7 DEF attach_one, TypeOK, LockHolderLive, Up, Goto, Unlock, Locked
<1>8. ASSUME NEW c \in Calls, AttachFails(c) PROVE LockHolderLive'
  BY <1>8 DEF AttachFails, TypeOK, LockHolderLive, Up, Goto, Unlock, Locked
<1>9. ASSUME NEW c \in Calls, AttachEnd(c) PROVE LockHolderLive'
  BY <1>9 DEF AttachEnd, TypeOK, LockHolderLive, Up, Goto, Unlock, Locked
<1>10. ASSUME NEW c \in Calls, registry_add(c) PROVE LockHolderLive'
  BY <1>10 DEF registry_add, TypeOK, LockHolderLive, Up, Goto, Unlock, Locked
<1>11. ASSUME NEW c \in Calls, Close(c) PROVE LockHolderLive'
  BY <1>11 DEF Close, TypeOK, LockHolderLive, Up, Goto, Unlock, Locked
<1>12. ASSUME NEW c \in Calls, detach_all(c) PROVE LockHolderLive'
  BY <1>12 DEF detach_all, TypeOK, LockHolderLive, Up, Goto, Unlock, Locked
<1>13. ASSUME NEW c \in Calls, CloseForget(c) PROVE LockHolderLive'
  BY <1>13 DEF CloseForget, TypeOK, LockHolderLive, Up, Goto, Unlock, Locked
<1>14. CASE UNCHANGED vars
  BY <1>14 DEF vars, LockHolderLive, Up
<1> QED
  BY <1>1, <1>2, <1>3, <1>4, <1>5, <1>6, <1>7, <1>8, <1>9, <1>10, <1>11, <1>12, <1>13, <1>14 DEF Next, OpenStep, Quiet

\* One call at a time is between registry_lock and registry_unlock.
LEMMA LockStep ==
    TypeOK /\ Assumed /\ LockHolderLive /\ LockInv /\ StartInv /\ [Next]_vars => LockInv'
<1> SUFFICES ASSUME TypeOK, Assumed, LockHolderLive, LockInv, StartInv, [Next]_vars PROVE LockInv'
  OBVIOUS
<1> USE RegistryAssumption
<1>1. ASSUME NEW p \in Procs, Spawn(p) PROVE LockInv'
  BY <1>1 DEF Spawn, TypeOK, LockInv, StartInv, LockHolderLive, Assumed, Up, Goto, Unlock, Locked
<1>2. ASSUME NEW p \in Procs, Die(p) PROVE LockInv'
  BY <1>2 DEF Die, TypeOK, LockInv, StartInv, LockHolderLive, Assumed, Up, Goto, Unlock, Locked
<1>3. ASSUME NEW c \in Calls, registry_lock(c) PROVE LockInv'
  BY <1>3 DEF registry_lock, TypeOK, LockInv, StartInv, LockHolderLive, Assumed, Up, Goto, Unlock, Locked
<1>4. ASSUME NEW c \in Calls, registry_reap(c) PROVE LockInv'
  BY <1>4 DEF registry_reap, TypeOK, LockInv, StartInv, LockHolderLive, Assumed, Up, Goto, Unlock, Locked
<1>5. ASSUME NEW c \in Calls, ReapDelete(c) PROVE LockInv'
  BY <1>5 DEF ReapDelete, TypeOK, LockInv, StartInv, LockHolderLive, Assumed, Up, Goto, Unlock, Locked
<1>6. ASSUME NEW c \in Calls, choose_tc_prio(c) PROVE LockInv'
  BY <1>6 DEF choose_tc_prio, TypeOK, LockInv, StartInv, LockHolderLive, Assumed, Up, Goto, Unlock, Locked
<1>7. ASSUME NEW c \in Calls, attach_one(c) PROVE LockInv'
  BY <1>7 DEF attach_one, TypeOK, LockInv, StartInv, LockHolderLive, Assumed, Up, Goto, Unlock, Locked
<1>8. ASSUME NEW c \in Calls, AttachFails(c) PROVE LockInv'
  BY <1>8 DEF AttachFails, TypeOK, LockInv, StartInv, LockHolderLive, Assumed, Up, Goto, Unlock, Locked
<1>9. ASSUME NEW c \in Calls, AttachEnd(c) PROVE LockInv'
  BY <1>9 DEF AttachEnd, TypeOK, LockInv, StartInv, LockHolderLive, Assumed, Up, Goto, Unlock, Locked
<1>10. ASSUME NEW c \in Calls, registry_add(c) PROVE LockInv'
  BY <1>10 DEF registry_add, TypeOK, LockInv, StartInv, LockHolderLive, Assumed, Up, Goto, Unlock, Locked
<1>11. ASSUME NEW c \in Calls, Close(c) PROVE LockInv'
  BY <1>11 DEF Close, TypeOK, LockInv, StartInv, LockHolderLive, Assumed, Up, Goto, Unlock, Locked
<1>12. ASSUME NEW c \in Calls, detach_all(c) PROVE LockInv'
  BY <1>12 DEF detach_all, TypeOK, LockInv, StartInv, LockHolderLive, Assumed, Up, Goto, Unlock, Locked
<1>13. ASSUME NEW c \in Calls, CloseForget(c) PROVE LockInv'
  BY <1>13 DEF CloseForget, TypeOK, LockInv, StartInv, LockHolderLive, Assumed, Up, Goto, Unlock, Locked
<1>14. CASE UNCHANGED vars
  BY <1>14 DEF vars, LockInv, Up
<1> QED
  BY <1>1, <1>2, <1>3, <1>4, <1>5, <1>6, <1>7, <1>8, <1>9, <1>10, <1>11, <1>12, <1>13, <1>14 DEF Next, OpenStep, Quiet

\* A call attaches and records nothing before it has reaped.
LEMMA StartStep ==
    TypeOK /\ StartInv /\ [Next]_vars => StartInv'
<1> SUFFICES ASSUME TypeOK, StartInv, [Next]_vars PROVE StartInv'
  OBVIOUS
<1> USE RegistryAssumption
<1>1. ASSUME NEW p \in Procs, Spawn(p) PROVE StartInv'
  BY <1>1 DEF Spawn, TypeOK, StartInv, Up
<1>2. ASSUME NEW p \in Procs, Die(p) PROVE StartInv'
  BY <1>2 DEF Die, TypeOK, StartInv, Up
<1>3. ASSUME NEW c \in Calls, registry_lock(c) PROVE StartInv'
  BY <1>3 DEF registry_lock, TypeOK, StartInv, Up, Goto
<1>4. ASSUME NEW c \in Calls, registry_reap(c) PROVE StartInv'
  BY <1>4 DEF registry_reap, TypeOK, StartInv, Up, Goto
<1>5. ASSUME NEW c \in Calls, ReapDelete(c) PROVE StartInv'
  BY <1>5 DEF ReapDelete, TypeOK, StartInv, Up, Goto
<1>6. ASSUME NEW c \in Calls, choose_tc_prio(c) PROVE StartInv'
  BY <1>6 DEF choose_tc_prio, TypeOK, StartInv, Up, Goto
<1>7. ASSUME NEW c \in Calls, attach_one(c) PROVE StartInv'
  BY <1>7 DEF attach_one, TypeOK, StartInv, Up, Goto
<1>8. ASSUME NEW c \in Calls, AttachFails(c) PROVE StartInv'
  BY <1>8 DEF AttachFails, TypeOK, StartInv, Up, Goto
<1>9. ASSUME NEW c \in Calls, AttachEnd(c) PROVE StartInv'
  BY <1>9 DEF AttachEnd, TypeOK, StartInv, Up, Goto
<1>10. ASSUME NEW c \in Calls, registry_add(c) PROVE StartInv'
  BY <1>10 DEF registry_add, TypeOK, StartInv, Up, Goto
<1>11. ASSUME NEW c \in Calls, Close(c) PROVE StartInv'
  BY <1>11 DEF Close, TypeOK, StartInv, Up, Goto
<1>12. ASSUME NEW c \in Calls, detach_all(c) PROVE StartInv'
  BY <1>12 DEF detach_all, TypeOK, StartInv, Up, Goto
<1>13. ASSUME NEW c \in Calls, CloseForget(c) PROVE StartInv'
  BY <1>13 DEF CloseForget, TypeOK, StartInv, Up, Goto
<1>14. CASE UNCHANGED vars
  BY <1>14 DEF vars, StartInv
<1> QED
  BY <1>1, <1>2, <1>3, <1>4, <1>5, <1>6, <1>7, <1>8, <1>9, <1>10, <1>11, <1>12, <1>13, <1>14 DEF Next, OpenStep, Quiet

\* One filter per slot: the kernel hands out free slots, a handle detaches its
\* own, the reaper those of the dead.
LEMMA SlotStep ==
    TypeOK /\ StartInv /\ SlotInv /\ DeadInv /\ [Next]_vars => SlotInv'
<1> SUFFICES ASSUME TypeOK, StartInv, SlotInv, DeadInv, [Next]_vars PROVE SlotInv'
  OBVIOUS
<1> USE RegistryAssumption
<1>1. ASSUME NEW p \in Procs, Spawn(p) PROVE SlotInv'
  <2>1. \A c \in Calls : Up(c)' => Up(c) \/ att[c] = {}
    BY <1>1 DEF Spawn, TypeOK, StartInv, Up
  <2> QED
    BY <1>1, <2>1 DEF Spawn, SlotInv, Own
<1>2. ASSUME NEW p \in Procs, Die(p) PROVE SlotInv'
  <2>1. \A c \in Calls : Up(c)' => Up(c)
    BY <1>2 DEF Die, TypeOK, Up
  <2> QED
    BY <1>2, <2>1 DEF Die, SlotInv, Own
<1>3. ASSUME NEW c \in Calls, registry_lock(c) PROVE SlotInv'
  BY <1>3 DEF registry_lock, SlotInv, Up, Own
<1>4. ASSUME NEW c \in Calls, registry_reap(c) PROVE SlotInv'
  <2> DEFINE found == {d \in registry : ~proc_alive(Owner[d])}
  <2>1. /\ filters' = {f \in filters : \A d \in found : f.slot \notin entry[d]}
        /\ att' = att /\ proc' = proc
    BY <1>4 DEF registry_reap
  <2>2. \A d \in found : d \in registry /\ ~Up(d)
    BY AliveIsUp DEF TypeOK, Up
  <2>3. \A f \in filters \ filters' : ~Up(f.owner)
    <3>1. TAKE f \in filters \ filters'
    <3>2. PICK d \in found : f.slot \in entry[d]
      BY <2>1
    <3>3. f.owner = d
      BY <2>2, <3>2 DEF DeadInv
    <3> QED
      BY <2>2, <3>2, <3>3
  <2>4. \A f, g \in filters' : f.slot = g.slot => f = g
    BY <2>1 DEF SlotInv
  <2>5. \A f \in filters' : f.slot \in att'[f.owner]
    BY <2>1 DEF SlotInv
  <2>6. \A d \in Calls : Up(d)' => \A s \in att'[d] : Own(d, s) \in filters'
    <3> SUFFICES ASSUME NEW d \in Calls, Up(d), NEW s \in att[d] PROVE Own(d, s) \in filters'
      BY <2>1 DEF Up
    <3>1. Own(d, s) \in filters
      BY DEF SlotInv
    <3>2. Own(d, s).owner = d
      BY DEF Own
    <3> QED
      BY <2>3, <3>1, <3>2
  <2> QED
    BY <2>4, <2>5, <2>6 DEF SlotInv, Own
<1>5. ASSUME NEW c \in Calls, ReapDelete(c) PROVE SlotInv'
  BY <1>5 DEF ReapDelete, SlotInv, Up, Own
<1>6. ASSUME NEW c \in Calls, choose_tc_prio(c) PROVE SlotInv'
  BY <1>6 DEF choose_tc_prio, SlotInv, Up, Own
<1>7. ASSUME NEW c \in Calls, attach_one(c) PROVE SlotInv'
  <2>1. PICK s \in FreeSlots(next[c], tc_prio[c]) :
           /\ filters' = filters \cup {Own(c, s)}
           /\ att' = [att EXCEPT ![c] = @ \cup {s}]
    BY <1>7, Zenon DEF attach_one, Own
  <2>2. proc' = proc
    BY <1>7 DEF attach_one
  <2>3. \A f \in filters : f.slot # s
    BY <1>7, FreeSlotFresh DEF attach_one, TypeOK
  <2>4. Own(c, s).slot = s /\ Own(c, s).owner = c
    BY DEF Own
  <2>5. \A f, g \in filters' : f.slot = g.slot => f = g
    BY <2>1, <2>3, <2>4 DEF SlotInv
  <2>6. \A f \in filters : f.owner \in Calls
    BY DEF TypeOK, Filters
  <2>7. \A d \in Calls : att[d] \subseteq att'[d] /\ (d # c => att'[d] = att[d])
    BY <2>1 DEF TypeOK
  <2>8. att'[c] = att[c] \cup {s}
    BY <2>1 DEF TypeOK
  <2>9. \A f \in filters' : f.slot \in att'[f.owner]
    BY <2>1, <2>4, <2>6, <2>7, <2>8 DEF SlotInv
  <2>10. \A d \in Calls : Up(d) => \A r \in att'[d] : Own(d, r) \in filters'
    BY <2>1, <2>7, <2>8 DEF SlotInv
  <2> QED
    BY <2>2, <2>5, <2>9, <2>10 DEF SlotInv, Up, Own
<1>8. ASSUME NEW c \in Calls, AttachFails(c) PROVE SlotInv'
  BY <1>8 DEF AttachFails, SlotInv, Up, Own
<1>9. ASSUME NEW c \in Calls, AttachEnd(c) PROVE SlotInv'
  BY <1>9 DEF AttachEnd, SlotInv, Up, Own
<1>10. ASSUME NEW c \in Calls, registry_add(c) PROVE SlotInv'
  BY <1>10 DEF registry_add, SlotInv, Up, Own
<1>11. ASSUME NEW c \in Calls, Close(c) PROVE SlotInv'
  BY <1>11 DEF Close, SlotInv, Up, Own
<1>12. ASSUME NEW c \in Calls, detach_all(c) PROVE SlotInv'
  <2>1. proc' = proc
    BY <1>12 DEF detach_all
  <2>2. CASE UNCHANGED <<filters, att>>
    BY <2>1, <2>2 DEF SlotInv, Up, Own
  <2>3. ASSUME NEW s \in att[c],
               filters' = {f \in filters : f.slot # s},
               att' = [att EXCEPT ![c] = @ \ {s}]
        PROVE  SlotInv'
    <3>1. Own(c, s) \in filters /\ Own(c, s).slot = s /\ Own(c, s).owner = c
      BY <1>12 DEF detach_all, SlotInv, Own
    <3>2. \A f \in filters : f.slot = s => f.owner = c
      BY <3>1 DEF SlotInv
    <3>3. \A d \in Calls : att'[d] \subseteq att[d] /\ (d # c => att'[d] = att[d])
      BY <2>3 DEF TypeOK
    <3>4. att'[c] = att[c] \ {s}
      BY <2>3 DEF TypeOK
    <3>5. \A f, g \in filters' : f.slot = g.slot => f = g
      BY <2>3 DEF SlotInv
    <3>6. \A f \in filters : f.owner \in Calls
      BY DEF TypeOK, Filters
    <3>7. \A f \in filters' : f.slot \in att'[f.owner]
      BY <2>3, <3>3, <3>4, <3>6 DEF SlotInv
    <3>8. ASSUME NEW d \in Calls, Up(d), NEW r \in att'[d] PROVE Own(d, r) \in filters'
      <4>1. Own(d, r) \in filters /\ Own(d, r).slot = r /\ Own(d, r).owner = d
        BY <3>3, <3>8 DEF SlotInv, Own
      <4>2. r # s
        BY <3>2, <3>4, <3>8, <4>1
      <4> QED
        BY <2>3, <4>1, <4>2
    <3> QED
      BY <2>1, <3>5, <3>7, <3>8 DEF SlotInv, Up, Own
  <2> QED
    BY <2>2, <2>3, <1>12 DEF detach_all
<1>13. ASSUME NEW c \in Calls, CloseForget(c) PROVE SlotInv'
  BY <1>13 DEF CloseForget, SlotInv, Up, Own
<1>14. CASE UNCHANGED vars
  BY <1>14 DEF vars, SlotInv, Up, Own
<1> QED
  BY <1>1, <1>2, <1>3, <1>4, <1>5, <1>6, <1>7, <1>8, <1>9, <1>10, <1>11, <1>12, <1>13, <1>14 DEF Next, OpenStep, Quiet

\* An entry lists what its handle attached, until its close.
LEMMA EntryStep ==
    TypeOK /\ Assumed /\ LockHolderLive /\ LockInv /\ StartInv /\ EntryInv /\ DeadInv /\ [Next]_vars => EntryInv'
<1> SUFFICES ASSUME TypeOK, Assumed, LockHolderLive, LockInv, StartInv, EntryInv, DeadInv, [Next]_vars PROVE EntryInv'
  OBVIOUS
<1> USE RegistryAssumption
<1>1. ASSUME NEW p \in Procs, Spawn(p) PROVE EntryInv'
  <2>1. \A c \in Calls : Up(c) => Up(c)'
    BY <1>1 DEF Spawn, TypeOK, Up
  <2>2. \A c \in Calls : Up(c)' => Up(c) \/ entry[c] = {}
    BY <1>1 DEF Spawn, TypeOK, StartInv, Up
  <2> QED
    BY <1>1, <2>1, <2>2 DEF Spawn, EntryInv
<1>2. ASSUME NEW p \in Procs, Die(p) PROVE EntryInv'
  <2>1. \A c \in Calls : Up(c)' => Up(c)
    BY <1>2 DEF Die, TypeOK, Up
  <2>2. \A c \in Calls : ~Up(c)' => ~Up(c) \/ Owner[c] = p
    BY <1>2 DEF Die, TypeOK, Up
  <2>3. \A c \in Calls : ~Up(c)' => pc[c] \notin {"detach", "forget"}
    BY <1>2, <2>2 DEF Die, EntryInv, Assumed
  <2> QED
    BY <1>2, <2>1, <2>3 DEF Die, EntryInv
<1>3. ASSUME NEW c \in Calls, registry_lock(c) PROVE EntryInv'
  BY <1>3 DEF registry_lock, TypeOK, StartInv, EntryInv, Up, Goto
<1>4. ASSUME NEW c \in Calls, registry_reap(c) PROVE EntryInv'
  BY <1>4 DEF registry_reap, TypeOK, StartInv, EntryInv, Up, Goto
<1>5. ASSUME NEW c \in Calls, ReapDelete(c) PROVE EntryInv'
  <2>1. lock = c
    BY <1>5 DEF ReapDelete, LockInv, Locked
  <2>2. \A d \in dead[c] : ~Up(d)
    BY <1>5, <2>1 DEF ReapDelete, LockHolderLive, DeadInv, TypeOK
  <2>3. c \notin registry
    BY <1>5 DEF ReapDelete, EntryInv
  <2>4. att[c] = {} /\ entry[c] = {}
    BY <1>5 DEF ReapDelete, StartInv
  <2>5. PICK where \in {"done", "add", "prio"} : pc' = [pc EXCEPT ![c] = where]
    BY <1>5 DEF ReapDelete, Goto
  <2>6. registry' = registry \ dead[c] /\ UNCHANGED <<proc, att, entry>>
    BY <1>5 DEF ReapDelete
  <2> QED
    BY <2>2, <2>3, <2>4, <2>5, <2>6 DEF TypeOK, EntryInv, Up
<1>6. ASSUME NEW c \in Calls, choose_tc_prio(c) PROVE EntryInv'
  BY <1>6 DEF choose_tc_prio, TypeOK, StartInv, EntryInv, Up, Goto
<1>7. ASSUME NEW c \in Calls, attach_one(c) PROVE EntryInv'
  BY <1>7 DEF attach_one, TypeOK, StartInv, EntryInv, Up, Goto
<1>8. ASSUME NEW c \in Calls, AttachFails(c) PROVE EntryInv'
  BY <1>8 DEF AttachFails, TypeOK, StartInv, EntryInv, Up, Goto
<1>9. ASSUME NEW c \in Calls, AttachEnd(c) PROVE EntryInv'
  BY <1>9 DEF AttachEnd, TypeOK, StartInv, EntryInv, Up, Goto
<1>10. ASSUME NEW c \in Calls, registry_add(c) PROVE EntryInv'
  <2>1. entry[c] = {} /\ c \notin registry
    BY <1>10, Zenon DEF registry_add, EntryInv
  <2>2. Recorded(c) \subseteq att[c]
    BY DEF Recorded
  <2>3. att' = att /\ pc' = [pc EXCEPT ![c] = "open"] /\ proc' = proc
    BY <1>10 DEF registry_add, Goto
  <2>4. CASE registry' = registry \cup {c} /\ entry' = [entry EXCEPT ![c] = Recorded(c)]
    BY <2>1, <2>2, <2>3, <2>4 DEF TypeOK, EntryInv, Up
  <2>5. CASE UNCHANGED <<registry, entry>>
    BY <2>1, <2>3, <2>5 DEF TypeOK, EntryInv, Up
  <2> QED
    BY <2>4, <2>5, <1>10, Zenon DEF registry_add
<1>11. ASSUME NEW c \in Calls, Close(c) PROVE EntryInv'
  BY <1>11 DEF Close, TypeOK, StartInv, EntryInv, Up, Goto
<1>12. ASSUME NEW c \in Calls, detach_all(c) PROVE EntryInv'
  BY <1>12 DEF detach_all, TypeOK, StartInv, EntryInv, Up, Goto
<1>13. ASSUME NEW c \in Calls, CloseForget(c) PROVE EntryInv'
  BY <1>13 DEF CloseForget, TypeOK, StartInv, EntryInv, Up, Goto
<1>14. CASE UNCHANGED vars
  BY <1>14 DEF vars, EntryInv, Up
<1> QED
  BY <1>1, <1>2, <1>3, <1>4, <1>5, <1>6, <1>7, <1>8, <1>9, <1>10, <1>11, <1>12, <1>13, <1>14 DEF Next, OpenStep, Quiet

\* The slots in the entries of the dead are theirs or empty, and empty ones
\* are gone from the registry before anybody attaches.
LEMMA DeadStep ==
    TypeOK /\ Assumed /\ LockHolderLive /\ LockInv /\ StartInv /\ SlotInv /\ EntryInv /\ DeadInv /\ [Next]_vars => DeadInv'
<1> SUFFICES ASSUME TypeOK, Assumed, LockHolderLive, LockInv, StartInv, SlotInv, EntryInv, DeadInv, [Next]_vars PROVE DeadInv'
  OBVIOUS
<1> USE RegistryAssumption
<1>1. ASSUME NEW p \in Procs, Spawn(p) PROVE DeadInv'
  <2>1. \A c \in Calls : Up(c) => Up(c)'
    BY <1>1 DEF Spawn, TypeOK, Up
  <2>2. \A c \in registry : ~Up(c) => ~Up(c)'
    BY <1>1 DEF Spawn, TypeOK, StartInv, EntryInv, Up
  <2> QED
    BY <1>1, <2>1, <2>2 DEF Spawn, TypeOK, DeadInv, Own
<1>2. ASSUME NEW p \in Procs, Die(p) PROVE DeadInv'
  <2>1. UNCHANGED <<pc, filters, att, registry, entry, dead>>
    BY <1>2 DEF Die
  <2>2. \A d \in registry : ~Up(d)' => ~Up(d) \/ (Up(d) /\ pc[d] = "open")
    BY <1>2 DEF Die, TypeOK, EntryInv, Assumed, Up
  <2>3. \A d \in registry : Up(d) /\ pc[d] = "open" => \A s \in entry[d] : Own(d, s) \in filters
    BY DEF TypeOK, EntryInv, SlotInv
  <2>4. \A d \in Calls : ~Up(d) => ~Up(d)'
    BY <1>2 DEF Die, TypeOK, Up
  <2>5. \A d \in registry, f \in filters : ~Up(d)' /\ f.slot \in entry[d] => f.owner = d
    <3>1. SUFFICES ASSUME NEW d \in registry, NEW f \in filters, Up(d), pc[d] = "open", f.slot \in entry[d]
                   PROVE  f.owner = d
      BY <2>2 DEF DeadInv
    <3>2. Own(d, f.slot) \in filters /\ Own(d, f.slot).slot = f.slot /\ Own(d, f.slot).owner = d
      BY <2>3, <3>1 DEF Own
    <3> QED
      BY <3>2 DEF SlotInv
  <2>6. lock' = None \/ lock' = lock
    BY <1>2 DEF Die
  <2>7. lock' # None /\ pc[lock'] = "delete" =>
          \A d \in dead[lock'] : d \in registry /\ ~Up(d)' /\ \A s \in entry[d] : Own(d, s) \notin filters
    BY <2>4, <2>6 DEF DeadInv, TypeOK
  <2>8. lock' # None /\ pc[lock'] \in {"delete", "prio", "attach", "add"} =>
          \A d \in registry : ~Up(d)' =>
             (pc[lock'] = "delete" /\ d \in dead[lock']) \/ \A s \in entry[d] : Own(d, s) \in filters
    BY <2>2, <2>3, <2>6 DEF DeadInv, TypeOK
  <2> QED
    BY <2>1, <2>5, <2>7, <2>8 DEF DeadInv, Own
<1>3. ASSUME NEW c \in Calls, registry_lock(c) PROVE DeadInv'
  <2>1. lock' = c /\ pc'[c] = "reap" /\ UNCHANGED <<proc, filters, registry, entry>>
    BY <1>3 DEF registry_lock, Assumed, Goto, TypeOK
  <2> QED
    BY <2>1 DEF DeadInv, Up
<1>4. ASSUME NEW c \in Calls, registry_reap(c) PROVE DeadInv'
  <2> DEFINE found == {d \in registry : ~proc_alive(Owner[d])}
  <2>1. /\ filters' = {f \in filters : \A d \in found : f.slot \notin entry[d]}
        /\ UNCHANGED <<proc, lock, registry, entry>>
        /\ dead' = [dead EXCEPT ![c] = found] /\ pc' = [pc EXCEPT ![c] = "delete"]
    BY <1>4, Zenon DEF registry_reap, Goto
  <2>2. lock = c
    BY <1>4, Zenon DEF registry_reap, LockInv, Locked
  <2>3. \A d \in registry : d \in found <=> ~Up(d)
    BY AliveIsUp, RegistryAssumption DEF TypeOK, Up
  <2>4. dead'[c] = found /\ pc'[c] = "delete"
    BY <2>1 DEF TypeOK
  <2>5. \A d \in found : \A s \in entry[d] : Own(d, s) \notin filters'
    BY <2>1 DEF Own
  <2>6. \A d \in registry, f \in filters' : ~Up(d) /\ f.slot \in entry[d] => f.owner = d
    BY <2>1 DEF DeadInv
  <2> QED
    BY <2>1, <2>2, <2>3, <2>4, <2>5, <2>6, Zenon DEF DeadInv, Up, Own
<1>5. ASSUME NEW c \in Calls, ReapDelete(c) PROVE DeadInv'
  <2>1. lock = c /\ pc[c] = "delete"
    BY <1>5 DEF ReapDelete, LockInv, Locked
  <2>2. registry' = registry \ dead[c] /\ UNCHANGED <<proc, filters, entry>>
    BY <1>5 DEF ReapDelete
  <2>3. lock' = None \/ (lock' = c /\ pc'[c] \in {"add", "prio"})
    <3>1. \A where : Goto(c, where) => pc'[c] = where
      BY DEF TypeOK, Goto
    <3>2. Unlock(c) => lock' = None
      BY <2>1 DEF Unlock
    <3> QED
      BY <1>5, <2>1, <3>1, <3>2 DEF ReapDelete
  <2>4. \A d \in registry' : ~Up(d) => \A s \in entry[d] : Own(d, s) \in filters
    BY <2>1, <2>2 DEF DeadInv
  <2>5. \A d \in registry', f \in filters : ~Up(d) /\ f.slot \in entry[d] => f.owner = d
    BY <2>2 DEF DeadInv
  <2> QED
    BY <2>2, <2>3, <2>4, <2>5 DEF DeadInv, Up, Own
<1>6. ASSUME NEW c \in Calls, choose_tc_prio(c) PROVE DeadInv'
  <2>1. lock = c /\ pc[c] = "prio" /\ pc'[c] = "attach"
    BY <1>6 DEF choose_tc_prio, LockInv, Locked, Goto, TypeOK
  <2>2. UNCHANGED <<proc, lock, filters, registry, entry, dead>>
    BY <1>6 DEF choose_tc_prio
  <2> QED
    BY <2>1, <2>2 DEF DeadInv, Up, Own
<1>7. ASSUME NEW c \in Calls, attach_one(c) PROVE DeadInv'
  <2>1. PICK s \in FreeSlots(next[c], tc_prio[c]) : filters' = filters \cup {Own(c, s)}
    BY <1>7 DEF attach_one, Own
  <2>2. lock = c /\ pc[c] = "attach" /\ UNCHANGED <<proc, pc, lock, registry, entry, dead>>
    BY <1>7 DEF attach_one, LockInv, Locked
  <2>3. \A f \in filters : f.slot # s
    BY <1>7, FreeSlotFresh DEF attach_one, TypeOK
  <2>4. Own(c, s).slot = s /\ \A d \in registry, r \in Slots : Own(d, r).slot = r
    BY DEF Own
  <2>5. \A d \in registry : ~Up(d) => \A r \in entry[d] : Own(d, r) \in filters
    BY <2>2 DEF DeadInv
  <2>6. \A d \in registry : entry[d] \subseteq Slots
    BY DEF TypeOK
  <2>7. \A d \in registry : ~Up(d) => s \notin entry[d]
    BY <2>3, <2>4, <2>5, <2>6
  <2>8. \A d \in registry, f \in filters' : ~Up(d) /\ f.slot \in entry[d] => f.owner = d
    BY <2>1, <2>4, <2>7 DEF DeadInv
  <2>9. \A d \in registry : ~Up(d) => \A r \in entry[d] : Own(d, r) \in filters'
    BY <2>1, <2>5
  <2> QED
    BY <2>2, <2>8, <2>9, ZenonT(60) DEF DeadInv, Up, Own
<1>8. ASSUME NEW c \in Calls, AttachFails(c) PROVE DeadInv'
  <2>1. lock = c /\ pc[c] = "attach" /\ UNCHANGED <<proc, filters, registry, entry, dead>>
    BY <1>8 DEF AttachFails, LockInv, Locked
  <2>2. lock' = None \/ (lock' = c /\ pc'[c] \in {"attach", "add"})
    <3>1. \A where : Goto(c, where) => pc'[c] = where
      BY DEF TypeOK, Goto
    <3>2. Unlock(c) => lock' = None
      BY <2>1 DEF Unlock
    <3> QED
      BY <1>8, <2>1, <3>1, <3>2 DEF AttachFails
  <2> QED
    BY <2>1, <2>2, Zenon DEF DeadInv, Up, Own
<1>9. ASSUME NEW c \in Calls, AttachEnd(c) PROVE DeadInv'
  <2>1. lock = c /\ pc[c] = "attach" /\ UNCHANGED <<proc, filters, registry, entry, dead>>
    BY <1>9, ZenonT(60) DEF AttachEnd, LockInv, Locked
  <2>2. lock' = None \/ (lock' = c /\ pc'[c] \in {"attach", "add"})
    <3>1. \A where : Goto(c, where) => pc'[c] = where
      BY DEF TypeOK, Goto
    <3>2. Unlock(c) => lock' = None
      BY <2>1 DEF Unlock
    <3> QED
      BY <1>9, <2>1, <3>1, <3>2, ZenonT(60) DEF AttachEnd
  <2> QED
    BY <2>1, <2>2, Zenon DEF DeadInv, Up, Own
<1>10. ASSUME NEW c \in Calls, registry_add(c) PROVE DeadInv'
  <2>1. lock = c /\ pc[c] = "add" /\ Up(c) /\ lock' = None /\ UNCHANGED <<proc, filters>>
    BY <1>10 DEF registry_add, LockInv, Locked, Unlock
  <2>2. \A d \in registry' : ~Up(d) => d \in registry /\ entry'[d] = entry[d]
    BY <1>10, <2>1 DEF registry_add, TypeOK
  <2> QED
    BY <2>1, <2>2, Zenon DEF DeadInv, Up, Own
<1>11. ASSUME NEW c \in Calls, Close(c) PROVE DeadInv'
  <2>1. lock # None => lock # c /\ pc'[lock] = pc[lock]
    BY <1>11 DEF Close, LockHolderLive, Locked, Goto, TypeOK
  <2>2. UNCHANGED <<proc, lock, filters, registry, entry, dead>>
    BY <1>11 DEF Close
  <2> QED
    BY <2>1, <2>2, Zenon DEF DeadInv, Up, Own
<1>12. ASSUME NEW c \in Calls, detach_all(c) PROVE DeadInv'
  <2>1. lock # None => lock # c /\ pc'[lock] = pc[lock]
    BY <1>12 DEF detach_all, LockHolderLive, Locked, Goto, TypeOK
  <2>2. Up(c) /\ UNCHANGED <<proc, lock, registry, entry, dead>>
    BY <1>12 DEF detach_all
  <2>3. CASE filters' = filters
    BY <2>1, <2>2, <2>3, Zenon DEF DeadInv, Up, Own
  <2>4. ASSUME NEW s \in att[c], filters' = {f \in filters : f.slot # s} PROVE DeadInv'
    <3>1. Own(c, s) \in filters /\ Own(c, s).slot = s /\ Own(c, s).owner = c
      BY <2>2, Zenon DEF SlotInv, Own
    <3>2. \A f \in filters : f.slot = s => f.owner = c
      BY <3>1 DEF SlotInv
    <3>3. filters' \subseteq filters /\ \A f \in filters \ filters' : f.owner = c
      BY <2>4, <3>2
    <3>4. \A d \in registry : ~Up(d) => \A r \in entry[d] : Own(d, r) \in filters => Own(d, r) \in filters'
      BY <2>2, <3>3 DEF Own
    <3> QED
      BY <2>1, <2>2, <3>3, <3>4, ZenonT(60) DEF DeadInv, Up, Own
  <2> QED
    BY <2>3, <2>4, <1>12 DEF detach_all
<1>13. ASSUME NEW c \in Calls, CloseForget(c) PROVE DeadInv'
  <2>1. lock = None /\ registry' \subseteq registry /\ UNCHANGED <<proc, lock, filters, entry>>
    BY <1>13 DEF CloseForget, Assumed
  <2> QED
    BY <2>1 DEF DeadInv, Up
<1>14. CASE UNCHANGED vars
  BY <1>14 DEF vars, DeadInv, Up, Own
<1> QED
  BY <1>1, <1>2, <1>3, <1>4, <1>5, <1>6, <1>7, <1>8, <1>9, <1>10, <1>11, <1>12, <1>13, <1>14 DEF Next, OpenStep, Quiet

\* What a dead process recorded stays listed until it is detached.
LEMMA OrphanStep ==
    TypeOK /\ LockInv /\ SlotInv /\ EntryInv /\ DeadInv /\ OrphansListed /\ [Next]_vars => OrphansListed'
<1> SUFFICES ASSUME TypeOK, LockInv, SlotInv, EntryInv, DeadInv, OrphansListed, [Next]_vars PROVE OrphansListed'
  OBVIOUS
<1> USE RegistryAssumption
<1>1. ASSUME NEW p \in Procs, Spawn(p) PROVE OrphansListed'
  <2>1. \A d \in Calls : ~Up(d)' => ~Up(d)
    BY <1>1 DEF Spawn, TypeOK, Up
  <2> QED
    BY <1>1, <2>1 DEF Spawn, OrphansListed, TypeOK, Filters
<1>2. ASSUME NEW p \in Procs, Die(p) PROVE OrphansListed'
  <2>1. \A f \in filters : f.owner \in Calls /\ att[f.owner] # {}
    BY DEF TypeOK, Filters, SlotInv
  <2>2. \A f \in filters : Up(f.owner) /\ f.slot \in entry[f.owner] => f.owner \in registry
    BY <2>1 DEF EntryInv
  <2> QED
    BY <1>2, <2>2, Zenon DEF Die, OrphansListed
<1>3. ASSUME NEW c \in Calls, registry_lock(c) PROVE OrphansListed'
  BY <1>3 DEF registry_lock, OrphansListed, Up
<1>4. ASSUME NEW c \in Calls, registry_reap(c) PROVE OrphansListed'
  BY <1>4 DEF registry_reap, OrphansListed, Up
<1>5. ASSUME NEW c \in Calls, ReapDelete(c) PROVE OrphansListed'
  <2>1. lock = c /\ pc[c] = "delete"
    BY <1>5 DEF ReapDelete, LockInv, Locked
  <2>2. registry' = registry \ dead[c] /\ UNCHANGED <<proc, filters, entry>>
    BY <1>5 DEF ReapDelete
  <2>3. \A d \in dead[c] : \A s \in entry[d] : Own(d, s) \notin filters
    BY <2>1 DEF DeadInv, TypeOK
  <2>4. \A f \in filters : f = Own(f.owner, f.slot)
    BY DEF TypeOK, Filters, Own
  <2>5. \A f \in filters : f.slot \in entry[f.owner] => f.owner \notin dead[c]
    BY <2>3, <2>4
  <2> QED
    BY <2>2, <2>5 DEF OrphansListed, Up
<1>6. ASSUME NEW c \in Calls, choose_tc_prio(c) PROVE OrphansListed'
  BY <1>6 DEF choose_tc_prio, OrphansListed, Up
<1>7. ASSUME NEW c \in Calls, attach_one(c) PROVE OrphansListed'
  <2>1. PICK s \in FreeSlots(next[c], tc_prio[c]) : filters' = filters \cup {Own(c, s)}
    BY <1>7, ZenonT(60) DEF attach_one, Own
  <2>2. Up(c) /\ Own(c, s).owner = c /\ UNCHANGED <<proc, registry, entry>>
    BY <1>7 DEF attach_one, Own
  <2> QED
    BY <2>1, <2>2 DEF OrphansListed, Up
<1>8. ASSUME NEW c \in Calls, AttachFails(c) PROVE OrphansListed'
  BY <1>8, ZenonT(60) DEF AttachFails, OrphansListed, Up
<1>9. ASSUME NEW c \in Calls, AttachEnd(c) PROVE OrphansListed'
  BY <1>9 DEF AttachEnd, OrphansListed, Up
<1>10. ASSUME NEW c \in Calls, registry_add(c) PROVE OrphansListed'
  <2>1. Up(c) /\ registry \subseteq registry' /\ UNCHANGED <<proc, filters>>
    BY <1>10 DEF registry_add
  <2>2. \A d \in Calls : d # c => entry'[d] = entry[d]
    BY <1>10 DEF registry_add, TypeOK
  <2>3. \A f \in filters : f.owner \in Calls
    BY DEF TypeOK, Filters
  <2> QED
    BY <2>1, <2>2, <2>3 DEF OrphansListed, Up
<1>11. ASSUME NEW c \in Calls, Close(c) PROVE OrphansListed'
  BY <1>11 DEF Close, OrphansListed, Up
<1>12. ASSUME NEW c \in Calls, detach_all(c) PROVE OrphansListed'
  <2>1. filters' \subseteq filters /\ UNCHANGED <<proc, registry, entry>>
    BY <1>12, Zenon DEF detach_all
  <2> QED
    BY <2>1 DEF OrphansListed, Up
<1>13. ASSUME NEW c \in Calls, CloseForget(c) PROVE OrphansListed'
  <2>1. Up(c) /\ registry' = registry \ {c} /\ UNCHANGED <<proc, filters, entry>>
    BY <1>13 DEF CloseForget
  <2> QED
    BY <2>1 DEF OrphansListed, Up
<1>14. CASE UNCHANGED vars
  BY <1>14 DEF vars, OrphansListed, Up
<1> QED
  BY <1>1, <1>2, <1>3, <1>4, <1>5, <1>6, <1>7, <1>8, <1>9, <1>10, <1>11, <1>12, <1>13, <1>14 DEF Next, OpenStep, Quiet

-----------------------------------------------------------------------------
\* The invariant holds of every behaviour of the registry, for any processes,
\* calls, priorities, hooks and limits; what rests on flock and on close not
\* being cut short is there under those two conditions.
THEOREM RegistryInvariant == Spec => []RegistryInv
<1>1. RegistryInv /\ [Next]_vars => RegistryInv'
  <2> SUFFICES ASSUME RegistryInv, [Next]_vars PROVE RegistryInv'
    OBVIOUS
  <2>1. TypeOK' /\ LockHolderLive'
    BY TypeStep, LockHolderStep DEF RegistryInv
  <2>2. ASSUME Assumed
        PROVE  LockInv' /\ StartInv' /\ SlotInv' /\ EntryInv' /\ DeadInv' /\ OrphansListed'
    <3>1. TypeOK /\ LockHolderLive /\ LockInv /\ StartInv /\ SlotInv /\ EntryInv /\ DeadInv /\ OrphansListed
      BY <2>2 DEF RegistryInv
    <3>2. LockInv' /\ StartInv'
      BY <2>2, <3>1, LockStep, StartStep
    <3>3. SlotInv' /\ EntryInv'
      BY <2>2, <3>1, SlotStep, EntryStep
    <3>4. DeadInv' /\ OrphansListed'
      BY <2>2, <3>1, DeadStep, OrphanStep
    <3> QED
      BY <3>2, <3>3, <3>4
  <2>3. Assumed' <=> Assumed
    BY DEF Assumed
  <2> QED
    BY <2>1, <2>2, <2>3 DEF RegistryInv
<1> QED
  BY <1>1, RegistryInit, PTL DEF Spec

\* The flock is never left with a dead process or a call that has returned,
\* even where locking fails for some processes and a close is cut short.
THEOREM LockNeverLeft == Spec => []LockHolderLive
<1>1. RegistryInv => LockHolderLive
  BY DEF RegistryInv
<1> QED
  BY <1>1, RegistryInvariant, PTL

\* Where flock works and no process dies inside close's window, what a dead
\* process recorded stays listed until it is detached.
THEOREM OrphansStayListed == Assumed => (Spec => []OrphansListed)
<1>1. Assumed /\ RegistryInv => OrphansListed
  BY DEF RegistryInv
<1>2. Assumed => []Assumed
  <2>1. Assumed => Assumed'
    BY DEF Assumed
  <2> QED
    BY <2>1, PTL
<1> QED
  BY <1>1, <1>2, RegistryInvariant, PTL

\* Under the same conditions no live handle loses a filter to the reaper or
\* to another handle's close.
THEOREM ReaperSparesTheLiving == Assumed => (Spec => LiveUntouched)
<1> DEFINE Spared == \A f \in filters \ filters' : Up(f.owner) => pc[f.owner] \in {"detach", "undo"}
<1>1. Assumed /\ RegistryInv /\ [Next]_vars => [Spared]_vars
  <2> SUFFICES ASSUME Assumed, RegistryInv, [Next]_vars, NEW f \in filters \ filters', Up(f.owner)
               PROVE  pc[f.owner] \in {"detach", "undo"}
    OBVIOUS
  <2> USE RegistryAssumption
  <2>1. TypeOK /\ SlotInv /\ DeadInv
    BY DEF RegistryInv
  <2>2. ASSUME NEW c \in Calls, registry_reap(c) PROVE FALSE
    <3>1. PICK d \in registry : ~proc_alive(Owner[d]) /\ f.slot \in entry[d]
      BY <2>2, Zenon DEF registry_reap
    <3>2. ~Up(d)
      BY <2>1, <3>1, AliveIsUp DEF TypeOK, Up
    <3>3. f.owner = d
      BY <2>1, <3>1, <3>2, ZenonT(60) DEF DeadInv
    <3> QED
      BY <3>2, <3>3
  <2>3. ASSUME NEW c \in Calls, detach_all(c) PROVE f.owner = c /\ pc[c] \in {"detach", "undo"}
    <3>1. PICK s \in att[c] : f.slot = s
      BY <2>3, ZenonT(60) DEF detach_all
    <3>2. Own(c, s) \in filters /\ Own(c, s).slot = s /\ Own(c, s).owner = c
      BY <2>1, <2>3 DEF detach_all, SlotInv, Own
    <3> QED
      BY <2>1, <2>3, <3>1, <3>2, ZenonT(60) DEF detach_all, SlotInv
  <2>4. ASSUME NEW c \in Calls, attach_one(c) PROVE FALSE
    BY <2>4 DEF attach_one
  <2>5. CASE filters' = filters
    BY <2>5
  <2> QED
    BY <2>2, <2>3, <2>4, <2>5, Zenon
       DEF Next, OpenStep, Spawn, Die, registry_lock, ReapDelete, choose_tc_prio, AttachFails,
           AttachEnd, registry_add, Close, CloseForget, Quiet, vars
<1>2. Assumed => []Assumed
  <2>1. Assumed => Assumed'
    BY DEF Assumed
  <2> QED
    BY <2>1, PTL
<1>3. Spec => [][Next]_vars
  BY PTL DEF Spec
<1> QED
  BY <1>1, <1>2, <1>3, RegistryInvariant, PTL DEF LiveUntouched

-----------------------------------------------------------------------------
\* Whatever pid it had, a dead process loses what it recorded to the first
\* loop of the next registry_reap, with or without the lock.
THEOREM ReaperFindsTheDead == Spec => DeadDetached
<1> DEFINE Found == \A c \in Calls : pc[c] = "reap" /\ pc'[c] = "delete" =>
                       \A f \in filters' : f.owner \in registry /\ ~Up(f.owner) =>
                           f.slot \notin entry[f.owner]
<1>1. TypeOK /\ [Next]_vars => [Found]_vars
  <2> SUFFICES ASSUME TypeOK, [Next]_vars, NEW c \in Calls, pc[c] = "reap", pc'[c] = "delete",
                      NEW f \in filters', f.owner \in registry, ~Up(f.owner)
               PROVE  f.slot \notin entry[f.owner]
    BY Zenon
  <2> USE RegistryAssumption
  <2>1. pc \in [Calls -> Places] /\ registry \subseteq Calls
    BY DEF TypeOK
  <2>2. registry_reap(c)
    <3>1. pc' # pc
      OBVIOUS
    <3>2. ASSUME NEW e \in Calls, NEW w, Goto(e, w) PROVE e = c /\ w = "delete"
      BY <2>1, <3>2 DEF Goto
    <3>3. ASSUME NEW p \in Procs, Spawn(p) \/ Die(p) PROVE FALSE
      BY <3>1, <3>3 DEF Spawn, Die
    <3>4. ASSUME NEW e \in Calls, registry_lock(e) \/ Close(e) \/ CloseForget(e) \/ registry_add(e)
          PROVE  FALSE
      BY <3>2, <3>4 DEF registry_lock, Close, CloseForget, registry_add
    <3>5. ASSUME NEW e \in Calls, ReapDelete(e) \/ choose_tc_prio(e) PROVE FALSE
      BY <3>2, <3>5, Zenon DEF ReapDelete, choose_tc_prio
    <3>6. ASSUME NEW e \in Calls, attach_one(e) \/ AttachFails(e) \/ AttachEnd(e) PROVE FALSE
      BY <3>1, <3>2, <3>6, Zenon DEF attach_one, AttachFails, AttachEnd
    <3>7. ASSUME NEW e \in Calls, detach_all(e) PROVE FALSE
      BY <3>1, <3>2, <3>7, Zenon DEF detach_all
    <3>8. ASSUME NEW e \in Calls, registry_reap(e) PROVE e = c
      BY <3>2, <3>8 DEF registry_reap
    <3>9. ~Quiet /\ ~UNCHANGED vars
      BY <3>1 DEF Quiet, vars
    <3> QED
      BY <3>3, <3>4, <3>5, <3>6, <3>7, <3>8, <3>9, Zenon DEF Next, OpenStep
  <2>3. ~proc_alive(Owner[f.owner])
    BY <2>1, AliveIsUp DEF Up
  <2> QED
    BY <2>2, <2>3, Zenon DEF registry_reap
<1>2. RegistryInv => TypeOK
  BY DEF RegistryInv
<1> QED
  BY <1>1, <1>2, RegistryInvariant, PTL DEF Spec, DeadDetached

-----------------------------------------------------------------------------
(***************************************************************************)
(* Automatic priorities.                                                   *)
(***************************************************************************)
\* A process knows the highest of the priorities chosen for its handles.
LocalInv == \A c \in Calls : Automatic(c) => tc_prio[c] <= local_max[Owner[c]]

\* A handle is of priority 0 once choose_tc_prio has chosen for it, and what
\* it shares with the others, the registry or the lock, it had before.
LEMMA StaysAutomatic ==
    ASSUME Assumed, RegistryInv, [Next]_vars, ~(\E e \in Calls : choose_tc_prio(e)), NEW c \in Calls
    PROVE  /\ UNCHANGED <<tc_prio, local_max>>
           /\ Automatic(c)' => Automatic(c)
           /\ Automatic(c)' /\ Up(c)' => Up(c)
           /\ Automatic(c)' /\ Up(c) /\ c \in registry' \cup {lock'} => c \in registry \cup {lock}
<1> USE RegistryAssumption
<1>1. /\ pc \in [Calls -> Places] /\ proc \in [Procs -> {"unborn", "up", "dead"}]
      /\ LockInv /\ StartInv /\ registry \subseteq Calls
  BY DEF RegistryInv, TypeOK
<1> DEFINE Stays == /\ UNCHANGED <<tc_prio, local_max>>
                    /\ Automatic(c)' => Automatic(c)
                    /\ Automatic(c)' /\ Up(c)' => Up(c)
                    /\ Automatic(c)' /\ Up(c) /\ c \in registry' \cup {lock'} => c \in registry \cup {lock}
<1>2. ASSUME NEW p \in Procs, Spawn(p) PROVE Stays
  BY <1>1, <1>2 DEF Spawn, Automatic, Up, StartInv
<1>3. ASSUME NEW p \in Procs, Die(p) PROVE Stays
  BY <1>1, <1>3 DEF Die, Automatic, Up
<1>4. ASSUME NEW e \in Calls, registry_lock(e) PROVE Stays
  BY <1>1, <1>4 DEF registry_lock, Automatic, Up, Goto
<1>5. ASSUME NEW e \in Calls, registry_reap(e) PROVE Stays
  <2>1. UNCHANGED <<proc, lock, registry, tc_prio, local_max>> /\ Goto(e, "delete")
    BY <1>5, Zenon DEF registry_reap
  <2> QED
    BY <1>1, <2>1 DEF Automatic, Up, Goto
<1>6. ASSUME NEW e \in Calls, ReapDelete(e) PROVE Stays
  <2>1. /\ UNCHANGED <<proc, tc_prio, local_max>> /\ registry' \subseteq registry
        /\ lock' = lock \/ lock' = None
        /\ Goto(e, "done") \/ (Kind[e] = "event" /\ Goto(e, "add")) \/ Goto(e, "prio")
    BY <1>6 DEF ReapDelete, Unlock
  <2> QED
    BY <1>1, <2>1 DEF Automatic, Up, Goto
<1>7. ASSUME NEW e \in Calls, attach_one(e) PROVE Stays
  BY <1>7, Zenon DEF attach_one, Automatic, Up
<1>8. ASSUME NEW e \in Calls, AttachFails(e) PROVE Stays
  BY <1>1, <1>8 DEF AttachFails, Automatic, Up, Goto, Unlock
<1>9. ASSUME NEW e \in Calls, AttachEnd(e) PROVE Stays
  BY <1>1, <1>9 DEF AttachEnd, Automatic, Up, Goto, Unlock
<1>10. ASSUME NEW e \in Calls, registry_add(e) PROVE Stays
  <2>1. /\ UNCHANGED <<proc, tc_prio, local_max>> /\ registry' \subseteq registry \cup {e}
        /\ lock' = lock \/ lock' = None
        /\ pc[e] = "add" /\ Up(e) /\ Goto(e, "open")
    BY <1>10 DEF registry_add, Unlock
  <2>2. lock = e
    BY <1>1, <2>1 DEF LockInv, Locked
  <2> QED
    BY <1>1, <2>1, <2>2 DEF Automatic, Up, Goto
<1>11. ASSUME NEW e \in Calls, Close(e) PROVE Stays
  BY <1>1, <1>11 DEF Close, Automatic, Up, Goto
<1>12. ASSUME NEW e \in Calls, detach_all(e) PROVE Stays
  <2>1. /\ UNCHANGED <<proc, lock, registry, tc_prio, local_max>>
        /\ pc' = pc \/ Goto(e, "forget") \/ Goto(e, "done")
    BY <1>12, Zenon DEF detach_all
  <2> QED
    BY <1>1, <2>1 DEF Automatic, Up, Goto
<1>13. ASSUME NEW e \in Calls, CloseForget(e) PROVE Stays
  BY <1>1, <1>13 DEF CloseForget, Automatic, Up, Goto
<1>14. ASSUME UNCHANGED vars PROVE Stays
  BY <1>14 DEF vars, Automatic, Up
<1> HIDE DEF Stays
<1>15. \A e \in Calls : OpenStep(e) => Stays
  BY <1>5, <1>6, <1>7, <1>8, <1>9, <1>10 DEF OpenStep
<1>16. Stays
  <2>1. CASE \E p \in Procs : Spawn(p) \/ Die(p)
    BY <1>2, <1>3, <2>1
  <2>2. CASE \E e \in Calls : registry_lock(e) \/ OpenStep(e)
    BY <1>4, <1>15, <2>2
  <2>3. CASE \E e \in Calls : Close(e) \/ detach_all(e) \/ CloseForget(e)
    BY <1>11, <1>12, <1>13, <2>3
  <2> QED
    BY <1>14, <2>1, <2>2, <2>3 DEF Next, Quiet
<1> QED
  BY <1>16 DEF Stays

\* choose_tc_prio goes past every priority it finds in use, or saturates.
LEMMA ChoosesPast ==
    ASSUME TypeOK, NEW e \in Calls, choose_tc_prio(e), Priority[e] = 0
    PROVE  \E n \in Nat :
             /\ tc_prio' = [tc_prio EXCEPT ![e] = n]
             /\ \A m \in InUse(e) : m < n \/ n = MaxPrio
             /\ local_max' = [local_max EXCEPT ![Owner[e]] = IF n > @ THEN n ELSE @]
<1> USE RegistryAssumption
<1>1. PICK max \in InUse(e) :
         /\ \A n \in InUse(e) : n <= max
         /\ tc_prio' = [tc_prio EXCEPT ![e] = AutoPrio(max)]
         /\ local_max' = [local_max EXCEPT ![Owner[e]] = IF AutoPrio(max) > @ THEN AutoPrio(max) ELSE @]
  BY DEF choose_tc_prio
<1>2. \A m \in InUse(e) : m \in Nat
  BY DEF InUse, TypeOK
<1>3. AutoPrio(max) \in Nat /\ (max < AutoPrio(max) \/ AutoPrio(max) = MaxPrio)
  BY <1>1, <1>2 DEF AutoPrio
<1>4. \A m \in InUse(e) : m < AutoPrio(max) \/ AutoPrio(max) = MaxPrio
  BY <1>1, <1>2, <1>3
<1> QED
  BY <1>1, <1>3, <1>4, Zenon

\* What choose_tc_prio does to the handles of priority 0.
LEMMA ChoiceEffect ==
    ASSUME TypeOK, LocalInv, NEW e \in Calls, choose_tc_prio(e), NEW c \in Calls, Automatic(c)'
    PROVE  \/ c # e /\ Automatic(c) /\ tc_prio'[c] = tc_prio[c]
           \/ /\ c = e /\ Priority[e] = 0
<1>1. pc \in [Calls -> Places] /\ tc_prio \in [Calls -> Nat]
  BY DEF TypeOK
<1>2. pc' = [pc EXCEPT ![e] = "attach"]
  BY DEF choose_tc_prio, Goto
<1>3. \E n : tc_prio' = [tc_prio EXCEPT ![e] = n]
  BY DEF choose_tc_prio
<1> QED
  BY <1>1, <1>2, <1>3 DEF Automatic

\* local_max_tc_prio goes up with every choice.
LEMMA LocalStep ==
    ASSUME Assumed, RegistryInv, LocalInv, [Next]_vars
    PROVE  LocalInv'
<1> USE RegistryAssumption
<1>1. TypeOK /\ tc_prio \in [Calls -> Nat] /\ local_max \in [Procs -> Nat]
  BY DEF RegistryInv, TypeOK
<1>2. CASE ~(\E e \in Calls : choose_tc_prio(e))
  BY <1>2, StaysAutomatic DEF LocalInv
<1>3. ASSUME NEW e \in Calls, choose_tc_prio(e) PROVE LocalInv'
  <2> SUFFICES ASSUME NEW c \in Calls, Automatic(c)' PROVE tc_prio'[c] <= local_max'[Owner[c]]
    BY DEF LocalInv
  <2>1. /\ local_max' \in [Procs -> Nat]
        /\ \A p \in Procs : local_max[p] <= local_max'[p]
    <3>1. CASE Priority[e] # 0
      BY <1>1, <1>3, <3>1 DEF choose_tc_prio
    <3>2. CASE Priority[e] = 0
      <4>1. PICK n \in Nat : local_max' = [local_max EXCEPT ![Owner[e]] = IF n > @ THEN n ELSE @]
        BY <1>1, <1>3, <3>2, ChoosesPast
      <4> QED
        BY <1>1, <4>1
    <3> QED
      BY <3>1, <3>2
  <2>2. CASE c # e /\ Automatic(c) /\ tc_prio'[c] = tc_prio[c]
    <3>1. tc_prio[c] <= local_max[Owner[c]]
      BY <2>2 DEF LocalInv
    <3> QED
      BY <1>1, <2>1, <2>2, <3>1
  <2>3. CASE c = e /\ Priority[e] = 0
    <3>1. PICK n \in Nat : /\ tc_prio' = [tc_prio EXCEPT ![e] = n]
                           /\ local_max' = [local_max EXCEPT ![Owner[e]] = IF n > @ THEN n ELSE @]
      BY <1>1, <1>3, <2>3, ChoosesPast
    <3>2. tc_prio'[e] = n /\ n <= local_max'[Owner[e]]
      BY <1>1, <3>1
    <3> QED
      BY <2>3, <3>2
  <2> QED
    BY <1>1, <1>3, <2>2, <2>3, ChoiceEffect
<1> QED
  BY <1>2, <1>3


\* The choice of one handle keeps away from every other it can meet.
LEMMA ChoiceApart ==
    ASSUME Assumed, RegistryInv, LocalInv, NEW e \in Calls, choose_tc_prio(e), Priority[e] = 0,
           NEW d \in Calls, d # e, Automatic(d)',
           d \in registry' \cup {lock'} \/ Owner[d] = Owner[e],
           tc_prio'[d] = tc_prio'[e]
    PROVE  tc_prio'[e] = MaxPrio
<1> USE RegistryAssumption
<1>1. TypeOK /\ tc_prio \in [Calls -> Nat] /\ local_max \in [Procs -> Nat] /\ LockInv
  BY Zenon DEF RegistryInv, TypeOK
<1>2. Automatic(d) /\ tc_prio'[d] = tc_prio[d]
  BY <1>1, ChoiceEffect
<1>3. PICK n \in Nat : /\ tc_prio' = [tc_prio EXCEPT ![e] = n]
                       /\ \A m \in InUse(e) : m < n \/ n = MaxPrio
  BY <1>1, ChoosesPast
<1>4. tc_prio'[e] = n
  BY <1>1, <1>3
<1>5. UNCHANGED <<lock, registry>> /\ lock = e
  BY <1>1 DEF choose_tc_prio, LockInv, Locked
<1>6. PICK m \in InUse(e) : tc_prio[d] <= m /\ m \in Nat
  <2>1. CASE d \in registry
    BY <1>1, <2>1 DEF InUse
  <2>2. CASE Owner[d] = Owner[e]
    BY <1>1, <1>2, <2>2 DEF InUse, LocalInv
  <2> QED
    BY <1>5, <2>1, <2>2
<1>7. tc_prio[d] = n /\ (m < n \/ n = MaxPrio)
  BY <1>2, <1>3, <1>4, <1>6, Zenon
<1> QED
  BY ONLY n \in Nat, <1>4, <1>6, <1>7

\* Every step keeps the handles of priority 0 apart.
LEMMA DistinctStep ==
    ASSUME Assumed, RegistryInv, LocalInv, AutomaticDistinct, [Next]_vars
    PROVE  AutomaticDistinct'
<1> SUFFICES ASSUME NEW c \in Calls, NEW d \in Calls, c # d, Up(c)', Up(d)', Automatic(c)', Automatic(d)',
                    {c, d} \subseteq registry' \cup {lock'} \/ Owner[c] = Owner[d],
                    tc_prio'[c] = tc_prio'[d]
             PROVE  tc_prio'[c] = MaxPrio
  BY DEF AutomaticDistinct
<1>1. TypeOK
  BY Zenon DEF RegistryInv
<1>2. CASE ~(\E e \in Calls : choose_tc_prio(e))
  <2>1. /\ tc_prio' = tc_prio /\ Automatic(c) /\ Automatic(d) /\ Up(c) /\ Up(d)
        /\ {c, d} \subseteq registry \cup {lock} \/ Owner[c] = Owner[d]
    BY <1>2, StaysAutomatic
  <2> QED
    BY <2>1, Zenon DEF AutomaticDistinct
<1>3. ASSUME NEW e \in Calls, choose_tc_prio(e) PROVE tc_prio'[c] = MaxPrio
  <2>1. CASE c = e
    BY <1>1, <1>3, <2>1, ChoiceEffect, ChoiceApart
  <2>2. CASE d = e
    BY <1>1, <1>3, <2>2, ChoiceEffect, ChoiceApart
  <2>3. CASE c # e /\ d # e
    <3>1. Automatic(c) /\ Automatic(d) /\ tc_prio'[c] = tc_prio[c] /\ tc_prio'[d] = tc_prio[d]
      BY <1>1, <1>3, <2>3, ChoiceEffect
    <3>2. UNCHANGED <<proc, lock, registry>>
      BY <1>3, Zenon DEF choose_tc_prio
    <3> QED
      BY <3>1, <3>2, Zenon DEF AutomaticDistinct, Up
  <2> QED
    BY <2>1, <2>2, <2>3
<1> QED
  BY <1>2, <1>3

\* Where flock works and no process dies inside close's window, two live
\* handles of priority 0 never share a TC priority before they are used up:
\* for any processes, calls, hooks and limits, explicit priorities included.
THEOREM AutomaticPrioritiesDiffer == Assumed => (Spec => []AutomaticDistinct)
<1>1. Init => LocalInv /\ AutomaticDistinct
  BY Zenon DEF Init, LocalInv, AutomaticDistinct, Automatic
<1>2. Assumed /\ RegistryInv /\ LocalInv /\ AutomaticDistinct /\ [Next]_vars =>
        LocalInv' /\ AutomaticDistinct'
  BY LocalStep, DistinctStep
<1>3. Assumed => []Assumed
  <2>1. Assumed => Assumed'
    BY DEF Assumed
  <2> QED
    BY <2>1, PTL
<1> QED
  BY <1>1, <1>2, <1>3, RegistryInvariant, PTL DEF Spec
=============================================================================
