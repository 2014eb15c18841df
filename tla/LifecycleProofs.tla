-------------------------- MODULE LifecycleProofs --------------------------
(***************************************************************************)
(* Proofs about Lifecycle, for any finite set of threads and any handles,  *)
(* whether or not the application lets shutdown overlap close.             *)
(***************************************************************************)
EXTENDS Lifecycle, FiniteSetTheorems, TLAPS

\* The provers a leaf is tried with when it names none.
USE SMT, Zenon, Z3T(40)

USE LifecycleAssumption

\* Inside(h) is finite: a handle has finitely many calls in progress.
LEMMA InsideFinite ==
    ASSUME NEW h
    PROVE  IsFiniteSet(Inside(h)) /\ Cardinality(Inside(h)) \in Nat
<1>1. Inside(h) \subseteq Threads
  BY DEF Inside
<1> QED
  BY <1>1, FS_Subset, FS_CardinalityType

\* Init establishes the inductive invariant: no handle, no call, no pass.
LEMMA InitInv == Init => LifecycleInv
<1> SUFFICES ASSUME Init PROVE LifecycleInv
  OBVIOUS
<1>1. TypeOK
  BY Zenon DEF Init, TypeOK, AllThreads, Positions, Kinds
<1>2. ThreadInv /\ OwnerInv /\ HeartbeatInv
  BY DEF Init, ThreadInv, OwnerInv, HeartbeatInv, AllThreads
<1>3. GuardInv
  <2>1. \A h : Inside(h) = {}
    BY DEF Init, Inside, AllThreads
  <2> QED
    BY <2>1, FS_EmptySet, Zenon DEF Init, GuardInv, AllThreads
<1> QED
  BY <1>1, <1>2, <1>3 DEF LifecycleInv

\* Where a thread is, what it works on and what it was called for keep their
\* types when it moves on, returns or begins a call.
ThreadTypes == /\ pc \in [AllThreads -> Positions]
               /\ arg \in [AllThreads -> Handles \cup {None}]
               /\ kind \in [AllThreads -> Kinds]

LEMMA MoveTypes ==
    ASSUME ThreadTypes, NEW t \in AllThreads
    PROVE  /\ \A q \in Positions : Goto(t, q) => pc' \in [AllThreads -> Positions]
           /\ Done(t) => ThreadTypes'
           /\ \A h \in Handles, k \in Kinds, q \in Positions : Begin(t, h, k, q) => ThreadTypes'
<1>1. "idle" \in Positions /\ "none" \in Kinds
  BY DEF Positions, Kinds
<1>2. ASSUME NEW q \in Positions PROVE [pc EXCEPT ![t] = q] \in [AllThreads -> Positions]
  BY DEF ThreadTypes
<1>3. ASSUME NEW a \in Handles \cup {None}
      PROVE  [arg EXCEPT ![t] = a] \in [AllThreads -> Handles \cup {None}]
  BY DEF ThreadTypes
<1>4. ASSUME NEW k \in Kinds PROVE [kind EXCEPT ![t] = k] \in [AllThreads -> Kinds]
  BY DEF ThreadTypes
<1>5. \A q \in Positions : Goto(t, q) => pc' \in [AllThreads -> Positions]
  BY <1>2, Zenon DEF Goto
<1>6. Done(t) => ThreadTypes'
  <2> SUFFICES ASSUME Done(t) PROVE ThreadTypes'
    OBVIOUS
  <2>1. pc' \in [AllThreads -> Positions]
    BY <1>1, <1>2 DEF Done
  <2>2. arg' \in [AllThreads -> Handles \cup {None}]
    BY <1>3 DEF Done
  <2>3. kind' \in [AllThreads -> Kinds]
    BY <1>1, <1>4 DEF Done
  <2> QED
    BY <2>1, <2>2, <2>3 DEF ThreadTypes
<1>7. \A h \in Handles, k \in Kinds, q \in Positions : Begin(t, h, k, q) => ThreadTypes'
  <2> SUFFICES ASSUME NEW h \in Handles, NEW k \in Kinds, NEW q \in Positions, Begin(t, h, k, q)
               PROVE  ThreadTypes'
    OBVIOUS
  <2>1. pc' \in [AllThreads -> Positions]
    BY <1>2 DEF Begin
  <2>2. arg' \in [AllThreads -> Handles \cup {None}]
    BY <1>3 DEF Begin
  <2>3. kind' \in [AllThreads -> Kinds]
    BY <1>4 DEF Begin
  <2> QED
    BY <2>1, <2>2, <2>3 DEF ThreadTypes
<1> QED
  BY <1>5, <1>6, <1>7, Zenon

\* Every step keeps the types; handle_leave because it counts down a call
\* that inflight has counted.
LEMMA TypeStep == LifecycleInv /\ [Next]_vars => TypeOK'
<1> SUFFICES ASSUME LifecycleInv, [Next]_vars PROVE TypeOK'
  OBVIOUS
<1> USE DEF handleVars, lockVars, hbVars, vars
<1>t. TypeOK
  BY DEF LifecycleInv
<1>p. ThreadTypes
  BY <1>t DEF TypeOK, ThreadTypes
<1>k. /\ "idle" \in Positions /\ "hb_add" \in Positions /\ "body" \in Positions
      /\ "leave" \in Positions /\ "shut" \in Positions /\ "shut_cfg" \in Positions
      /\ "shut_write" \in Positions /\ "shut_unlock" \in Positions
      /\ "shut_send" \in Positions /\ "hb_remove" \in Positions
      /\ "inflight" \in Positions /\ "cond_wait" \in Positions
      /\ "free" \in Positions /\ "pass" \in Positions /\ "write" \in Positions
  BY DEF Positions
<1>m. \A t \in AllThreads : pc[t] \in Positions /\ kind[t] \in Kinds
  BY <1>p DEF ThreadTypes
<1>h. Heartbeat \in AllThreads /\ Threads \subseteq AllThreads
  BY DEF AllThreads
<1>1. CASE Heartbeats
  <2>1. CASE HbPass
    <3>1. pc' \in [AllThreads -> Positions]
      BY <1>p, <2>1, <1>k, <1>h, MoveTypes, Zenon DEF HbPass
    <3> QED
      BY <1>t, <2>1, <3>1 DEF HbPass, TypeOK
  <2>4. CASE HbSleep
    <3>1. pc' \in [AllThreads -> Positions]
      BY <1>p, <2>4, <1>k, <1>h, MoveTypes, Zenon DEF HbSleep
    <3> QED
      BY <1>t, <2>4, <3>1 DEF HbSleep, TypeOK
  <2>2. CASE HbLockConfig
    <3>1. PICK h \in hb_todo :
             /\ cfg_lock' = [cfg_lock EXCEPT ![h] = Heartbeat]
             /\ hb_copy' = cfg[h]
             /\ arg' = [arg EXCEPT ![Heartbeat] = h]
      BY <2>2, Zenon DEF HbLockConfig
    <3>2. h \in Handles /\ hb_copy' \in BOOLEAN
      BY <1>t, <3>1 DEF TypeOK
    <3>3. cfg_lock' \in [Handles -> {Heartbeat, None}]
      BY <1>t, <3>1, <3>2 DEF TypeOK
    <3>4. arg' \in [AllThreads -> Handles \cup {None}]
      BY <1>t, <1>h, <3>1, <3>2 DEF TypeOK
    <3>5. pc' \in [AllThreads -> Positions]
      BY <1>p, <1>k, <1>h, <2>2, MoveTypes, Zenon DEF HbLockConfig
    <3> QED
      BY <1>t, <2>2, <3>2, <3>3, <3>4, <3>5 DEF HbLockConfig, TypeOK
  <2>3. CASE HbWriteConfig
    <3>1. /\ map' \in [Handles -> BOOLEAN]
          /\ cfg_lock' \in [Handles -> {Heartbeat, None}]
      BY <1>t, <2>3, Zenon DEF HbWriteConfig, TypeOK
    <3>2. arg' \in [AllThreads -> Handles \cup {None}]
      BY <1>t, <1>h, <2>3 DEF HbWriteConfig, TypeOK
    <3>3. pc' \in [AllThreads -> Positions]
      BY <1>p, <1>k, <1>h, <2>3, MoveTypes, Zenon DEF HbWriteConfig
    <3> QED
      BY <1>t, <2>3, <3>1, <3>2, <3>3, Zenon DEF HbWriteConfig, TypeOK
  <2> QED
    BY <1>1, <2>1, <2>2, <2>3, <2>4 DEF Heartbeats
<1>2. ASSUME NEW t \in Threads, LibStep(t) PROVE TypeOK'
  <2>1. CASE BodyReturns(t)
    <3>1. pc' \in [AllThreads -> Positions]
      BY <1>p, <1>k, <1>h, MoveTypes, <2>1, Zenon DEF BodyReturns
    <3> QED
      BY <1>t, <2>1, <3>1 DEF BodyReturns, TypeOK
  <2>5. CASE CloseTest(t)
    <3>1. pc' \in [AllThreads -> Positions]
      BY <1>p, <1>k, <1>h, MoveTypes, <2>5, Zenon DEF CloseTest
    <3> QED
      BY <1>t, <2>5, <3>1 DEF CloseTest, TypeOK
  <2>6. CASE CloseFree(t)
    <3>1. ThreadTypes'
      BY <1>p, <1>k, <1>h, MoveTypes, <2>6, Zenon DEF CloseFree
    <3>2. alloc' \in [Handles -> {"free", "building", "open"}]
      BY <1>t, <2>6, Zenon DEF CloseFree, TypeOK
    <3> QED
      BY <1>t, <2>6, <3>1, <3>2 DEF CloseFree, ThreadTypes, TypeOK
  <2>2. CASE ShutdownUnlock(t)
    <3>1. qlock' \in [Handles -> Threads \cup {None}]
      BY <1>t, <2>2, Zenon DEF ShutdownUnlock, TypeOK
    <3>2. CASE kind[t] = "shut_recv"
      <4>1. Done(t) /\ UNCHANGED <<handleVars, cfg_lock, hbVars>>
        BY <2>2, <3>2 DEF ShutdownUnlock
      <4>2. ThreadTypes'
        BY <1>p, <1>h, <4>1, MoveTypes, Zenon
      <4> QED
        BY <1>t, <3>1, <4>1, <4>2 DEF ThreadTypes, TypeOK
    <3>3. CASE kind[t] # "shut_recv"
      <4>1. Goto(t, "shut_send") /\ UNCHANGED <<handleVars, cfg_lock, hbVars, arg, kind>>
        BY <2>2, <3>3 DEF ShutdownUnlock
      <4>2. pc' \in [AllThreads -> Positions]
        BY <1>p, <1>k, <1>h, MoveTypes, <4>1, Zenon
      <4> QED
        BY <1>t, <3>1, <4>1, <4>2 DEF TypeOK
    <3> QED
      BY <3>2, <3>3
  <2>3. CASE handle_leave(t)
    <3>1. arg[t] \in Handles /\ t \in Inside(arg[t])
      BY <1>h, <2>3 DEF handle_leave, LifecycleInv, ThreadInv, Inside
    <3>2. inflight[arg[t]] > 0
      BY <3>1, InsideFinite, FS_EmptySet DEF LifecycleInv, GuardInv
    <3>3. inflight' \in [Handles -> Nat]
      BY <1>t, <2>3, <3>1, <3>2 DEF handle_leave, TypeOK
    <3>4. pc' \in [AllThreads -> Positions]
      <4>1. \A u \in AllThreads : pc'[u] \in Positions
        BY <1>k, <1>m, <2>3 DEF handle_leave
      <4> QED
        BY <4>1, <2>3 DEF handle_leave
    <3>5. arg' \in [AllThreads -> Handles \cup {None}]
      BY <1>t, <1>h, <2>3 DEF handle_leave, TypeOK
    <3>6. kind' \in [AllThreads -> Kinds]
      BY <1>t, <1>h, <2>3 DEF handle_leave, Kinds, TypeOK
    <3> QED
      BY <1>t, <2>3, <3>3, <3>4, <3>5, <3>6 DEF handle_leave, TypeOK
  <2>4. CASE ShutdownSend(t)
    <3>1. shut_send' \in [Handles -> BOOLEAN]
      BY <1>t, <2>4, Zenon DEF ShutdownSend, TypeOK
    <3>2. CASE kind[t] = "close"
      <4>1. Goto(t, "hb_remove") /\ UNCHANGED <<arg, kind>>
        BY <2>4, <3>2 DEF ShutdownSend
      <4>2. pc' \in [AllThreads -> Positions]
        BY <1>p, <1>k, <1>h, MoveTypes, <4>1, Zenon
      <4> QED
        BY <1>t, <2>4, <3>1, <4>1, <4>2 DEF ShutdownSend, TypeOK
    <3>3. CASE kind[t] # "close"
      <4>1. Done(t)
        BY <2>4, <3>3 DEF ShutdownSend
      <4>2. ThreadTypes'
        BY <1>p, <1>h, <4>1, MoveTypes, Zenon
      <4> QED
        BY <1>t, <2>4, <3>1, <4>2 DEF ShutdownSend, ThreadTypes, TypeOK
    <3> QED
      BY <3>2, <3>3
  <2> QED
    BY <1>2, <2>1, <2>2, <2>3, <2>4, <2>5, <2>6 DEF LibStep
<1>3. ASSUME NEW t \in Threads, LockStep(t) PROVE TypeOK'
  <2>1. CASE heartbeat_add(t)
    <3>1. arg[t] \in Handles
      BY <1>h, <2>1 DEF heartbeat_add, LifecycleInv, ThreadInv
    <3>2. alloc' \in [Handles -> {"free", "building", "open"}] /\ hb_running' \in BOOLEAN
      BY <1>t, <2>1, Zenon DEF heartbeat_add, TypeOK
    <3>3. ThreadTypes'
      BY <1>p, <1>k, <1>h, MoveTypes, <2>1, Zenon DEF heartbeat_add
    <3> QED
      BY <1>t, <2>1, <3>1, <3>2, <3>3 DEF heartbeat_add, ThreadTypes, TypeOK
  <2>2. CASE heartbeat_remove(t)
    <3>1. pc' \in [AllThreads -> Positions]
      BY <1>p, <1>k, <1>h, MoveTypes, <2>2, Zenon DEF heartbeat_remove
    <3> QED
      BY <1>t, <2>2, <3>1 DEF heartbeat_remove, TypeOK
  <2>3. CASE ShutdownLock(t)
    <3>1. /\ qlock' \in [Handles -> Threads \cup {None}]
          /\ shut_recv' \in [Handles -> BOOLEAN]
      BY <1>t, <2>3, Zenon DEF ShutdownLock, TypeOK
    <3>2. pc' \in [AllThreads -> Positions]
      BY <1>p, <1>k, <1>h, MoveTypes, <2>3, Zenon DEF ShutdownLock
    <3> QED
      BY <1>t, <2>3, <3>1, <3>2 DEF ShutdownLock, TypeOK
  <2>4. CASE ShutdownFlag(t)
    <3>1. cfg' \in [Handles -> BOOLEAN]
      BY <1>t, <2>4, Zenon DEF ShutdownFlag, TypeOK
    <3>2. pc' \in [AllThreads -> Positions]
      BY <1>p, <1>k, <1>h, MoveTypes, <2>4, Zenon DEF ShutdownFlag
    <3> QED
      BY <1>t, <2>4, <3>1, <3>2 DEF ShutdownFlag, TypeOK
  <2>5. CASE ShutdownWrite(t)
    <3>1. arg[t] \in Handles
      BY <1>h, <2>5 DEF ShutdownWrite, LifecycleInv, ThreadInv
    <3>2. map' \in [Handles -> BOOLEAN]
      BY <1>t, <2>5, <3>1 DEF ShutdownWrite, TypeOK
    <3>3. pc' \in [AllThreads -> Positions]
      BY <1>p, <1>k, <1>h, MoveTypes, <2>5, Zenon DEF ShutdownWrite
    <3> QED
      BY <1>t, <2>5, <3>2, <3>3 DEF ShutdownWrite, TypeOK
  <2> QED
    BY <1>3, <2>1, <2>2, <2>3, <2>4, <2>5 DEF LockStep
<1>4. ASSUME NEW t \in Threads, OpenFails(t) \/ ReceiverServed(t) \/ SpuriousWakeup(t)
      PROVE  TypeOK'
  <2>1. CASE OpenFails(t)
    <3>1. ThreadTypes'
      BY <1>p, <1>h, MoveTypes, <2>1, Zenon DEF OpenFails
    <3>2. alloc' \in [Handles -> {"free", "building", "open"}]
      BY <1>t, <2>1, Zenon DEF OpenFails, TypeOK
    <3> QED
      BY <1>t, <2>1, <3>1, <3>2 DEF OpenFails, ThreadTypes, TypeOK
  <2>2. CASE ReceiverServed(t)
    <3>1. pc' \in [AllThreads -> Positions]
      BY <1>p, <1>k, <1>h, MoveTypes, <2>2, Zenon DEF ReceiverServed
    <3> QED
      BY <1>t, <2>2, <3>1 DEF ReceiverServed, TypeOK
  <2>3. CASE SpuriousWakeup(t)
    <3>1. pc' \in [AllThreads -> Positions]
      BY <1>p, <1>k, <1>h, MoveTypes, <2>3, Zenon DEF SpuriousWakeup
    <3> QED
      BY <1>t, <2>3, <3>1 DEF SpuriousWakeup, TypeOK
  <2> QED
    BY <1>4, <2>1, <2>2, <2>3
<1>5. ASSUME NEW t \in Threads, NEW h \in Handles,
             Open(t, h) \/ Shutdown(t, h) \/ Close(t, h)
      PROVE  TypeOK'
  <2>0. /\ "open" \in Kinds /\ "shut_recv" \in Kinds /\ "shut_send" \in Kinds
        /\ "shut_both" \in Kinds /\ "close" \in Kinds
    BY DEF Kinds
  <2>1. CASE Open(t, h)
    <3>1. ThreadTypes'
      BY <1>p, <1>k, <1>h, MoveTypes, <2>0, <2>1, Zenon DEF Open
    <3> QED
      BY <1>t, <2>1, <3>1 DEF Open, ThreadTypes, TypeOK
  <2>2. CASE Shutdown(t, h)
    <3>1. ThreadTypes'
      BY <1>p, <1>k, <1>h, MoveTypes, <2>0, <2>2, Zenon DEF Shutdown
    <3> QED
      BY <1>t, <2>2, <3>1 DEF Shutdown, ThreadTypes, TypeOK
  <2>3. CASE Close(t, h)
    <3>1. ThreadTypes'
      BY <1>p, <1>k, <1>h, MoveTypes, <2>0, <2>3, Zenon DEF Close
    <3> QED
      BY <1>t, <2>3, <3>1 DEF Close, ThreadTypes, TypeOK
  <2> QED
    BY <1>5, <2>1, <2>2, <2>3
<1>6. ASSUME NEW t \in Threads, NEW h \in Handles, NEW k \in {"recv", "short"},
             handle_enter(t, h, k)
      PROVE  TypeOK'
  <2>0. k \in Kinds
    BY DEF Kinds
  <2>1. ThreadTypes'
    BY <1>p, <1>k, <1>h, MoveTypes, <2>0, <1>6, Zenon DEF handle_enter
  <2> QED
    BY <1>t, <1>6, <2>1 DEF handle_enter, ThreadTypes, TypeOK
<1>7. CASE UNCHANGED vars
  BY <1>t, <1>7 DEF ThreadTypes, TypeOK
<1> QED
  BY <1>1, <1>2, <1>3, <1>4, <1>5, <1>6, <1>7 DEF Next

\* A call of each kind stays on its own path through the library.
LEMMA ThreadStep == LifecycleInv /\ [Next]_vars => ThreadInv'
<1> SUFFICES ASSUME LifecycleInv, [Next]_vars PROVE ThreadInv'
  OBVIOUS
<1> USE DEF LifecycleInv, TypeOK, ThreadInv, AllThreads, Begin, Done, Goto,
            handleVars, lockVars, hbVars, vars, ShutPositions
<1>1. CASE Heartbeats
  <2>1. CASE HbPass
    BY <2>1 DEF HbPass
  <2>2. CASE HbLockConfig
    BY <2>2 DEF HbLockConfig
  <2>3. CASE HbWriteConfig
    BY <2>3 DEF HbWriteConfig
  <2>4. CASE HbSleep
    BY <2>4 DEF HbSleep
  <2> QED
    BY <1>1, <2>1, <2>2, <2>3, <2>4 DEF Heartbeats
<1>2. ASSUME NEW t \in Threads, LibStep(t) PROVE ThreadInv'
  <2>1. CASE BodyReturns(t)
    BY <2>1 DEF BodyReturns
  <2>2. CASE handle_leave(t)
    BY <2>2 DEF handle_leave, Closers, Kinds
  <2>3. CASE ShutdownUnlock(t)
    BY <2>3 DEF ShutdownUnlock
  <2>4. CASE ShutdownSend(t)
    BY <2>4 DEF ShutdownSend
  <2>5. CASE CloseTest(t)
    BY <2>5 DEF CloseTest
  <2>6. CASE CloseFree(t)
    BY <2>6 DEF CloseFree
  <2> QED
    BY <1>2, <2>1, <2>2, <2>3, <2>4, <2>5, <2>6 DEF LibStep
<1>3. ASSUME NEW t \in Threads, LockStep(t) PROVE ThreadInv'
  <2>1. CASE heartbeat_add(t)
    BY <2>1 DEF heartbeat_add
  <2>2. CASE heartbeat_remove(t)
    BY <2>2 DEF heartbeat_remove
  <2>3. CASE ShutdownLock(t)
    BY <2>3 DEF ShutdownLock
  <2>4. CASE ShutdownFlag(t)
    BY <2>4 DEF ShutdownFlag
  <2>5. CASE ShutdownWrite(t)
    BY <2>5 DEF ShutdownWrite
  <2> QED
    BY <1>3, <2>1, <2>2, <2>3, <2>4, <2>5 DEF LockStep
<1>4. ASSUME NEW t \in Threads, OpenFails(t) \/ ReceiverServed(t) \/ SpuriousWakeup(t)
      PROVE  ThreadInv'
  <2>1. CASE OpenFails(t)
    BY <2>1 DEF OpenFails
  <2>2. CASE ReceiverServed(t)
    BY <2>2 DEF ReceiverServed
  <2>3. CASE SpuriousWakeup(t)
    BY <2>3 DEF SpuriousWakeup
  <2> QED
    BY <1>4, <2>1, <2>2, <2>3
<1>5. ASSUME NEW t \in Threads, NEW h \in Handles,
             Open(t, h) \/ Shutdown(t, h) \/ Close(t, h)
      PROVE  ThreadInv'
  <2>1. CASE Open(t, h)
    BY <2>1 DEF Open
  <2>2. CASE Shutdown(t, h)
    BY <2>2 DEF Shutdown
  <2>3. CASE Close(t, h)
    BY <2>3 DEF Close
  <2> QED
    BY <1>5, <2>1, <2>2, <2>3
<1>6. ASSUME NEW t \in Threads, NEW h \in Handles, NEW k \in {"recv", "short"},
             handle_enter(t, h, k)
      PROVE  ThreadInv'
  BY <1>6 DEF handle_enter
<1>7. CASE UNCHANGED vars
  BY <1>7
<1> QED
  BY <1>1, <1>2, <1>3, <1>4, <1>5, <1>6, <1>7 DEF Next

\* open and close keep their handle to themselves: Open takes a free one,
\* Close one that is not closing.
LEMMA OwnerStep == LifecycleInv /\ [Next]_vars => OwnerInv'
<1> SUFFICES ASSUME LifecycleInv, [Next]_vars PROVE OwnerInv'
  OBVIOUS
<1> USE DEF LifecycleInv, TypeOK, ThreadInv, AllThreads, Begin, Done, Goto,
            handleVars, lockVars, hbVars, vars, OwnerInv
<1>1. CASE Heartbeats
  <2>1. CASE HbPass
    BY <2>1 DEF HbPass
  <2>2. CASE HbLockConfig
    BY <2>2 DEF HbLockConfig
  <2>3. CASE HbWriteConfig
    BY <2>3 DEF HbWriteConfig
  <2>4. CASE HbSleep
    BY <2>4 DEF HbSleep
  <2> QED
    BY <1>1, <2>1, <2>2, <2>3, <2>4 DEF Heartbeats
<1>2. ASSUME NEW t \in Threads, LibStep(t) PROVE OwnerInv'
  <2>1. CASE BodyReturns(t)
    BY <2>1 DEF BodyReturns
  <2>2. CASE handle_leave(t)
    BY <2>2 DEF handle_leave
  <2>3. CASE ShutdownUnlock(t)
    BY <2>3 DEF ShutdownUnlock
  <2>4. CASE ShutdownSend(t)
    BY <2>4 DEF ShutdownSend
  <2>5. CASE CloseTest(t)
    BY <2>5 DEF CloseTest
  <2>6. CASE CloseFree(t)
    BY <2>6 DEF CloseFree, Kinds, ShutPositions
  <2> QED
    BY <1>2, <2>1, <2>2, <2>3, <2>4, <2>5, <2>6 DEF LibStep
<1>3. ASSUME NEW t \in Threads, LockStep(t) PROVE OwnerInv'
  <2>1. CASE heartbeat_add(t)
    BY <2>1 DEF heartbeat_add
  <2>2. CASE heartbeat_remove(t)
    BY <2>2 DEF heartbeat_remove
  <2>3. CASE ShutdownLock(t)
    BY <2>3 DEF ShutdownLock
  <2>4. CASE ShutdownFlag(t)
    BY <2>4 DEF ShutdownFlag
  <2>5. CASE ShutdownWrite(t)
    BY <2>5 DEF ShutdownWrite
  <2> QED
    BY <1>3, <2>1, <2>2, <2>3, <2>4, <2>5 DEF LockStep
<1>4. ASSUME NEW t \in Threads, OpenFails(t) \/ ReceiverServed(t) \/ SpuriousWakeup(t)
      PROVE  OwnerInv'
  <2>1. CASE OpenFails(t)
    BY <2>1 DEF OpenFails
  <2>2. CASE ReceiverServed(t)
    BY <2>2 DEF ReceiverServed
  <2>3. CASE SpuriousWakeup(t)
    BY <2>3 DEF SpuriousWakeup
  <2> QED
    BY <1>4, <2>1, <2>2, <2>3
<1>5. ASSUME NEW t \in Threads, NEW h \in Handles,
             Open(t, h) \/ Shutdown(t, h) \/ Close(t, h)
      PROVE  OwnerInv'
  <2>1. CASE Open(t, h)
    BY <2>1 DEF Open
  <2>2. CASE Shutdown(t, h)
    BY <2>2 DEF Shutdown
  <2>3. CASE Close(t, h)
    BY <2>3 DEF Close
  <2> QED
    BY <1>5, <2>1, <2>2, <2>3
<1>6. ASSUME NEW t \in Threads, NEW h \in Handles, NEW k \in {"recv", "short"},
             handle_enter(t, h, k)
      PROVE  OwnerInv'
  BY <1>6 DEF handle_enter
<1>7. CASE UNCHANGED vars
  BY <1>7
<1> QED
  BY <1>1, <1>2, <1>3, <1>4, <1>5, <1>6, <1>7 DEF Next

\* hb_lock keeps close from freeing what the heartbeat thread walks.
LEMMA HeartbeatStep == LifecycleInv /\ [Next]_vars => HeartbeatInv'
<1> SUFFICES ASSUME LifecycleInv, [Next]_vars PROVE HeartbeatInv'
  OBVIOUS
<1> USE DEF LifecycleInv, TypeOK, ThreadInv, AllThreads, Begin, Done, Goto,
            handleVars, lockVars, hbVars, vars, OwnerInv, HeartbeatInv
<1>1. CASE Heartbeats
  <2>1. CASE HbPass
    BY <2>1 DEF HbPass
  <2>2. CASE HbLockConfig
    BY <2>2 DEF HbLockConfig
  <2>3. CASE HbWriteConfig
    BY <2>3 DEF HbWriteConfig
  <2>4. CASE HbSleep
    BY <2>4 DEF HbSleep
  <2> QED
    BY <1>1, <2>1, <2>2, <2>3, <2>4 DEF Heartbeats
<1>2. ASSUME NEW t \in Threads, LibStep(t) PROVE HeartbeatInv'
  <2>1. CASE BodyReturns(t)
    BY <2>1 DEF BodyReturns
  <2>2. CASE handle_leave(t)
    BY <2>2 DEF handle_leave, Closers
  <2>3. CASE ShutdownUnlock(t)
    BY <2>3 DEF ShutdownUnlock
  <2>4. CASE ShutdownSend(t)
    BY <2>4 DEF ShutdownSend
  <2>5. CASE CloseTest(t)
    BY <2>5 DEF CloseTest
  <2>6. CASE CloseFree(t)
    BY <2>6 DEF CloseFree
  <2> QED
    BY <1>2, <2>1, <2>2, <2>3, <2>4, <2>5, <2>6 DEF LibStep
<1>3. ASSUME NEW t \in Threads, LockStep(t) PROVE HeartbeatInv'
  <2>1. CASE heartbeat_add(t)
    BY <2>1 DEF heartbeat_add, Kinds, ShutPositions
  <2>2. CASE heartbeat_remove(t)
    BY <2>2 DEF heartbeat_remove
  <2>3. CASE ShutdownLock(t)
    BY <2>3 DEF ShutdownLock
  <2>4. CASE ShutdownFlag(t)
    BY <2>4 DEF ShutdownFlag
  <2>5. CASE ShutdownWrite(t)
    BY <2>5 DEF ShutdownWrite
  <2> QED
    BY <1>3, <2>1, <2>2, <2>3, <2>4, <2>5 DEF LockStep
<1>4. ASSUME NEW t \in Threads, OpenFails(t) \/ ReceiverServed(t) \/ SpuriousWakeup(t)
      PROVE  HeartbeatInv'
  <2>1. CASE OpenFails(t)
    BY <2>1 DEF OpenFails
  <2>2. CASE ReceiverServed(t)
    BY <2>2 DEF ReceiverServed
  <2>3. CASE SpuriousWakeup(t)
    BY <2>3 DEF SpuriousWakeup
  <2> QED
    BY <1>4, <2>1, <2>2, <2>3
<1>5. ASSUME NEW t \in Threads, NEW h \in Handles,
             Open(t, h) \/ Shutdown(t, h) \/ Close(t, h)
      PROVE  HeartbeatInv'
  <2>1. CASE Open(t, h)
    BY <2>1 DEF Open
  <2>2. CASE Shutdown(t, h)
    BY <2>2 DEF Shutdown
  <2>3. CASE Close(t, h)
    BY <2>3 DEF Close
  <2> QED
    BY <1>5, <2>1, <2>2, <2>3
<1>6. ASSUME NEW t \in Threads, NEW h \in Handles, NEW k \in {"recv", "short"},
             handle_enter(t, h, k)
      PROVE  HeartbeatInv'
  BY <1>6 DEF handle_enter
<1>7. CASE UNCHANGED vars
  BY <1>7
<1> QED
  BY <1>1, <1>2, <1>3, <1>4, <1>5, <1>6, <1>7 DEF Next

\* inflight stays the number of guarded calls, none of which enters a handle
\* that is closing; so none is inside when close frees it.
LEMMA GuardStep == LifecycleInv /\ [Next]_vars => GuardInv'
<1> SUFFICES ASSUME LifecycleInv, [Next]_vars PROVE GuardInv'
  OBVIOUS
<1> USE DEF LifecycleInv, TypeOK, ThreadInv, AllThreads, Begin, Done, Goto,
            handleVars, lockVars, hbVars, vars
<1>1. CASE Heartbeats
  <2>1. CASE HbPass
    <3>1. \A g : Inside(g)' = Inside(g)
      BY <2>1 DEF HbPass, Inside, Kinds, ShutPositions
    <3> QED
      BY <2>1, <3>1 DEF HbPass, GuardInv
  <2>2. CASE HbLockConfig
    <3>1. \A g : Inside(g)' = Inside(g)
      BY <2>2 DEF HbLockConfig, Inside, Kinds, ShutPositions
    <3> QED
      BY <2>2, <3>1 DEF HbLockConfig, GuardInv
  <2>3. CASE HbWriteConfig
    <3>1. \A g : Inside(g)' = Inside(g)
      BY <2>3 DEF HbWriteConfig, Inside, Kinds, ShutPositions
    <3> QED
      BY <2>3, <3>1 DEF HbWriteConfig, GuardInv
  <2>4. CASE HbSleep
    <3>1. \A g : Inside(g)' = Inside(g)
      BY <2>4 DEF HbSleep, Inside, Kinds, ShutPositions
    <3> QED
      BY <2>4, <3>1 DEF HbSleep, GuardInv
  <2> QED
    BY <1>1, <2>1, <2>2, <2>3, <2>4 DEF Heartbeats
<1>2. ASSUME NEW t \in Threads, LibStep(t) PROVE GuardInv'
  <2>1. CASE BodyReturns(t)
    <3>1. \A g : Inside(g)' = Inside(g)
      BY <2>1 DEF BodyReturns, Inside, Kinds, ShutPositions
    <3> QED
      BY <2>1, <3>1 DEF BodyReturns, GuardInv
  <2>2. CASE handle_leave(t)
    <3> PICK h \in Handles : h = arg[t]
      BY <2>2 DEF handle_leave
    <3>1. t \in Inside(h)
      BY <2>2 DEF handle_leave, Inside
    <3>2. Inside(h)' = Inside(h) \ {t}
      BY <2>2, <3>1 DEF handle_leave, Inside, Closers
    <3>3. \A g : g # h => Inside(g)' = Inside(g)
      BY <2>2 DEF handle_leave, Inside, Closers
    <3>4. Cardinality(Inside(h)') = inflight[h] - 1
      <4>1. Cardinality(Inside(h) \ {t}) = Cardinality(Inside(h)) - 1
        BY ONLY <3>1, InsideFinite, FS_RemoveElement
      <4>2. Cardinality(Inside(h)) = inflight[h]
        BY DEF GuardInv
      <4> QED
        BY ONLY <3>2, <4>1, <4>2
    <3>5. \A g \in Handles : inflight'[g] = Cardinality(Inside(g)')
      <4>1. inflight' = [inflight EXCEPT ![h] = inflight[h] - 1]
        BY <2>2 DEF handle_leave
      <4> QED
        BY <3>3, <3>4, <4>1 DEF GuardInv
    <3>6. \A u \in Threads : pc'[u] = "free" => u # t /\ pc[u] = "free" /\ arg'[u] = arg[u]
      BY <2>2 DEF handle_leave, Closers
    <3>7. inflight[h] # 0
      BY <3>1, InsideFinite, FS_EmptySet DEF GuardInv
    <3>8. \A u \in Threads : pc'[u] = "free" => inflight'[arg'[u]] = 0
      BY <2>2, <3>1, <3>6, <3>7 DEF handle_leave, GuardInv
    <3> QED
      BY <2>2, <3>5, <3>8 DEF handle_leave, GuardInv, Closers
  <2>3. CASE ShutdownUnlock(t)
    <3>1. \A g : Inside(g)' = Inside(g)
      BY <2>3 DEF ShutdownUnlock, Inside, Kinds, ShutPositions
    <3> QED
      BY <2>3, <3>1 DEF ShutdownUnlock, GuardInv
  <2>4. CASE ShutdownSend(t)
    <3>1. \A g : Inside(g)' = Inside(g)
      BY <2>4 DEF ShutdownSend, Inside, Kinds, ShutPositions
    <3> QED
      BY <2>4, <3>1 DEF ShutdownSend, GuardInv
  <2>5. CASE CloseTest(t)
    <3>1. \A g : Inside(g)' = Inside(g)
      BY <2>5 DEF CloseTest, Inside, Kinds, ShutPositions
    <3> QED
      BY <2>5, <3>1 DEF CloseTest, GuardInv
  <2>6. CASE CloseFree(t)
    <3>1. \A g : Inside(g)' = Inside(g)
      BY <2>6 DEF CloseFree, Inside
    <3>2. Inside(arg[t]) = {}
      BY <2>6, InsideFinite, FS_EmptySet DEF CloseFree, GuardInv
    <3>3. \A u \in Threads : pc[u] \in {"body", "leave"} => arg[u] # arg[t]
      BY <3>2 DEF Inside
    <3> QED
      BY <2>6, <3>1, <3>3 DEF CloseFree, GuardInv
  <2> QED
    BY <1>2, <2>1, <2>2, <2>3, <2>4, <2>5, <2>6 DEF LibStep
<1>3. ASSUME NEW t \in Threads, LockStep(t) PROVE GuardInv'
  <2>1. CASE heartbeat_add(t)
    <3>1. \A g : Inside(g)' = Inside(g)
      BY <2>1 DEF heartbeat_add, Inside, Kinds, ShutPositions
    <3> QED
      BY <2>1, <3>1 DEF heartbeat_add, GuardInv
  <2>2. CASE heartbeat_remove(t)
    <3>1. \A g : Inside(g)' = Inside(g)
      BY <2>2 DEF heartbeat_remove, Inside, Kinds, ShutPositions
    <3> QED
      BY <2>2, <3>1 DEF heartbeat_remove, GuardInv
  <2>3. CASE ShutdownLock(t)
    <3>1. \A g : Inside(g)' = Inside(g)
      BY <2>3 DEF ShutdownLock, Inside, Kinds, ShutPositions
    <3> QED
      BY <2>3, <3>1 DEF ShutdownLock, GuardInv
  <2>4. CASE ShutdownFlag(t)
    <3>1. \A g : Inside(g)' = Inside(g)
      BY <2>4 DEF ShutdownFlag, Inside, Kinds, ShutPositions
    <3> QED
      BY <2>4, <3>1 DEF ShutdownFlag, GuardInv
  <2>5. CASE ShutdownWrite(t)
    <3>1. \A g : Inside(g)' = Inside(g)
      BY <2>5 DEF ShutdownWrite, Inside, Kinds, ShutPositions
    <3> QED
      BY <2>5, <3>1 DEF ShutdownWrite, GuardInv
  <2> QED
    BY <1>3, <2>1, <2>2, <2>3, <2>4, <2>5 DEF LockStep
<1>4. ASSUME NEW t \in Threads, OpenFails(t) \/ ReceiverServed(t) \/ SpuriousWakeup(t)
      PROVE  GuardInv'
  <2>1. CASE OpenFails(t)
    <3>1. \A g : Inside(g)' = Inside(g)
      BY <2>1 DEF OpenFails, Inside
    <3>2. alloc[arg[t]] = "building"
      BY <2>1 DEF OpenFails, OwnerInv
    <3> QED
      BY <2>1, <3>1, <3>2 DEF OpenFails, GuardInv
  <2>2. CASE ReceiverServed(t)
    <3>1. \A g : Inside(g)' = Inside(g)
      BY <2>2 DEF ReceiverServed, Inside, Kinds, ShutPositions
    <3> QED
      BY <2>2, <3>1 DEF ReceiverServed, GuardInv
  <2>3. CASE SpuriousWakeup(t)
    <3>1. \A g : Inside(g)' = Inside(g)
      BY <2>3 DEF SpuriousWakeup, Inside, Kinds, ShutPositions
    <3> QED
      BY <2>3, <3>1 DEF SpuriousWakeup, GuardInv
  <2> QED
    BY <1>4, <2>1, <2>2, <2>3
<1>5. ASSUME NEW t \in Threads, NEW h \in Handles,
             Open(t, h) \/ Shutdown(t, h) \/ Close(t, h)
      PROVE  GuardInv'
  <2>0. GuardInv
    OBVIOUS
  <2>1. CASE Open(t, h)
    <3>1. \A g : Inside(g)' = Inside(g)
      BY <2>1 DEF Open, Inside
    <3>2. Inside(h) = {}
      BY <2>1 DEF Open, Inside, GuardInv
    <3>3. \A g \in Handles : inflight[g] = Cardinality(Inside(g))
      BY DEF GuardInv
    <3>4. \A g \in Handles : inflight'[g] = IF g = h THEN 0 ELSE inflight[g]
      BY <2>1 DEF Open
    <3>5. Cardinality(Inside(h)) = 0
      BY ONLY <3>2, FS_EmptySet
    <3>6. \A g \in Handles : inflight'[g] = Cardinality(Inside(g)')
      BY ONLY <3>1, <3>3, <3>4, <3>5
    <3>7. \A g \in Handles : inflight'[g] = inflight[g]
      BY ONLY <3>3, <3>4, <3>5
    <3>8. \A u \in Threads : pc'[u] \in {"body", "leave", "free"} =>
             u # t /\ pc'[u] = pc[u] /\ arg'[u] = arg[u] /\ arg[u] \in Handles
      BY <2>1 DEF Open
    <3>9. \A g \in Handles : alloc[g] = "open" => alloc'[g] = "open"
      BY <2>1 DEF Open
    <3> QED
      BY ONLY <3>6, <3>7, <3>8, <3>9, <2>0, ZenonT(60) DEF GuardInv
  <2>2. CASE Shutdown(t, h)
    <3>1. \A g : Inside(g)' = Inside(g)
      BY <2>2 DEF Shutdown, Inside, Kinds, ShutPositions
    <3> QED
      BY <2>2, <3>1 DEF Shutdown, GuardInv
  <2>3. CASE Close(t, h)
    <3>1. \A g : Inside(g)' = Inside(g)
      BY <2>3 DEF Close, Inside, Kinds, ShutPositions
    <3> QED
      BY <2>3, <3>1 DEF Close, GuardInv
  <2> QED
    BY <1>5, <2>1, <2>2, <2>3
<1>6. ASSUME NEW t \in Threads, NEW h \in Handles, NEW k \in {"recv", "short"},
             handle_enter(t, h, k)
      PROVE  GuardInv'
  <2>1. t \notin Inside(h) /\ Inside(h)' = Inside(h) \cup {t}
    BY <1>6 DEF handle_enter, Inside
  <2>2. \A g : g # h => Inside(g)' = Inside(g)
    BY <1>6 DEF handle_enter, Inside
  <2>3. Cardinality(Inside(h)') = inflight[h] + 1
    <3>1. Cardinality(Inside(h) \cup {t}) = Cardinality(Inside(h)) + 1
      BY ONLY <2>1, InsideFinite, FS_AddElement
    <3>2. Cardinality(Inside(h)) = inflight[h]
      BY DEF GuardInv
    <3> QED
      BY ONLY <2>1, <3>1, <3>2
  <2>4. \A g \in Handles : inflight'[g] = Cardinality(Inside(g)')
    <3>1. inflight' = [inflight EXCEPT ![h] = inflight[h] + 1]
      BY <1>6 DEF handle_enter
    <3> QED
      BY <2>2, <2>3, <3>1 DEF GuardInv
  <2>5. \A u \in Threads : pc'[u] = "free" => pc[u] = "free" /\ arg'[u] = arg[u] /\ arg[u] # h
    BY <1>6 DEF handle_enter, OwnerInv, Kinds, ShutPositions
  <2> QED
    BY <1>6, <2>4, <2>5 DEF handle_enter, GuardInv
<1>7. CASE UNCHANGED vars
  <2>1. \A g : Inside(g)' = Inside(g)
    BY <1>7 DEF Inside
  <2> QED
    BY <1>7, <2>1 DEF GuardInv
<1> QED
  BY <1>1, <1>2, <1>3, <1>4, <1>5, <1>6, <1>7 DEF Next

-----------------------------------------------------------------------------
\* The invariant holds in every reachable state.
THEOREM LifecycleInvariant == Spec => []LifecycleInv
<1>1. LifecycleInv /\ [Next]_vars => LifecycleInv'
  BY TypeStep, ThreadStep, OwnerStep, HeartbeatStep, GuardStep DEF LifecycleInv
<1> QED
  BY InitInv, <1>1, PTL DEF Spec

\* The fields of the handles, the locks and the threads keep their types; in
\* particular inflight never goes below zero.
THEOREM TypeCorrect == Spec => []TypeOK
<1>1. LifecycleInv => TypeOK
  BY DEF LifecycleInv
<1> QED
  BY LifecycleInvariant, <1>1, PTL

\* GUARDED: a handle stays allocated as long as a guarded call is inside.
THEOREM NoFreeInGuardedCall == Spec => []CallsHoldHandle
<1>1. LifecycleInv => CallsHoldHandle
  BY DEF LifecycleInv, GuardInv, CallsHoldHandle, Inside
<1> QED
  BY LifecycleInvariant, <1>1, PTL

\* heartbeat_main only touches open handles.
THEOREM NoFreeUnderHeartbeat == Spec => []HeartbeatHoldsHandle
<1>1. LifecycleInv => HeartbeatHoldsHandle
  BY DEF LifecycleInv, HeartbeatInv, HeartbeatHoldsHandle
<1> QED
  BY LifecycleInvariant, <1>1, PTL

\* close frees a handle that has no guarded call inside, is off the heartbeat
\* list and has no other close.
THEOREM CloseFreesSafely == Spec => []FreeIsSafe
<1>1. LifecycleInv => FreeIsSafe
  <2> SUFFICES ASSUME LifecycleInv, NEW t \in Threads, pc[t] = "free"
               PROVE  /\ Inside(arg[t]) = {}
                      /\ arg[t] \notin hb_list
                      /\ \A u \in Threads \ {t} : kind[u] = "close" => arg[u] # arg[t]
    BY DEF FreeIsSafe
  <2>1. arg[t] \in Handles /\ kind[t] = "close"
    BY DEF LifecycleInv, TypeOK, ThreadInv, AllThreads, Kinds, ShutPositions
  <2>2. Inside(arg[t]) = {}
    BY <2>1, InsideFinite, FS_EmptySet DEF LifecycleInv, GuardInv
  <2> QED
    BY <2>1, <2>2 DEF LifecycleInv, HeartbeatInv, OwnerInv
<1> QED
  BY LifecycleInvariant, <1>1, PTL

-----------------------------------------------------------------------------
(***************************************************************************)
(* Why the shutdown flag reaches the kernel map and stays there: qlock and *)
(* cfg_lock order the shutdowns of a handle and the heartbeat thread's     *)
(* writes.                                                                 *)
(***************************************************************************)
\* close waits for the application's shutdowns, and open takes a free handle:
\* the handle of a shutdown stays open.
LEMMA ShutdownStep ==
    ASSUME ~Overlap, LifecycleInv, ShutdownInv, [Next]_vars
    PROVE  ShutdownInv'
<1> USE DEF LifecycleInv, TypeOK, ThreadInv, AllThreads, Begin, Done, Goto,
            handleVars, lockVars, hbVars, vars, OwnerInv,
            ShutdownInv, ShutPositions
<1>1. CASE Heartbeats
  <2>1. CASE HbPass
    BY <2>1 DEF HbPass
  <2>2. CASE HbLockConfig
    BY <2>2 DEF HbLockConfig
  <2>3. CASE HbWriteConfig
    BY <2>3 DEF HbWriteConfig
  <2>4. CASE HbSleep
    BY <2>4 DEF HbSleep
  <2> QED
    BY <1>1, <2>1, <2>2, <2>3, <2>4 DEF Heartbeats
<1>2. ASSUME NEW t \in Threads, LibStep(t) PROVE ShutdownInv'
  <2>1. CASE BodyReturns(t)
    BY <2>1 DEF BodyReturns
  <2>2. CASE handle_leave(t)
    BY <2>2 DEF handle_leave, Closers
  <2>3. CASE ShutdownUnlock(t)
    BY <2>3 DEF ShutdownUnlock
  <2>4. CASE ShutdownSend(t)
    BY <2>4 DEF ShutdownSend
  <2>5. CASE CloseTest(t)
    BY <2>5 DEF CloseTest
  <2>6. CASE CloseFree(t)
    BY <2>6 DEF CloseFree, Kinds
  <2> QED
    BY <1>2, <2>1, <2>2, <2>3, <2>4, <2>5, <2>6 DEF LibStep
<1>3. ASSUME NEW t \in Threads, LockStep(t) PROVE ShutdownInv'
  <2>1. CASE heartbeat_add(t)
    BY <2>1 DEF heartbeat_add
  <2>2. CASE heartbeat_remove(t)
    BY <2>2 DEF heartbeat_remove
  <2>3. CASE ShutdownLock(t)
    BY <2>3 DEF ShutdownLock
  <2>4. CASE ShutdownFlag(t)
    BY <2>4 DEF ShutdownFlag
  <2>5. CASE ShutdownWrite(t)
    BY <2>5 DEF ShutdownWrite
  <2> QED
    BY <1>3, <2>1, <2>2, <2>3, <2>4, <2>5 DEF LockStep
<1>4. ASSUME NEW t \in Threads, OpenFails(t) \/ ReceiverServed(t) \/ SpuriousWakeup(t)
      PROVE  ShutdownInv'
  <2>1. CASE OpenFails(t)
    BY <2>1 DEF OpenFails
  <2>2. CASE ReceiverServed(t)
    BY <2>2 DEF ReceiverServed
  <2>3. CASE SpuriousWakeup(t)
    BY <2>3 DEF SpuriousWakeup
  <2> QED
    BY <1>4, <2>1, <2>2, <2>3
<1>5. ASSUME NEW t \in Threads, NEW h \in Handles,
             Open(t, h) \/ Shutdown(t, h) \/ Close(t, h)
      PROVE  ShutdownInv'
  <2>1. CASE Open(t, h)
    BY <2>1 DEF Open
  <2>2. CASE Shutdown(t, h)
    BY <2>2 DEF Shutdown
  <2>3. CASE Close(t, h)
    BY <2>3 DEF Close, InShutdown
  <2> QED
    BY <1>5, <2>1, <2>2, <2>3
<1>6. ASSUME NEW t \in Threads, NEW h \in Handles, NEW k \in {"recv", "short"},
             handle_enter(t, h, k)
      PROVE  ShutdownInv'
  BY <1>6 DEF handle_enter
<1>7. CASE UNCHANGED vars
  BY <1>7
<1> HIDE DEF LifecycleInv, TypeOK, ThreadInv, OwnerInv, ShutdownInv, vars
<1> QED
  BY <1>1, <1>2, <1>3, <1>4, <1>5, <1>6, <1>7, Zenon DEF Next

\* Nobody sets a flag, takes or leaves a lock over it, or starts to.
ConfigQuiet ==
    /\ UNCHANGED <<shut_recv, cfg, map, qlock, cfg_lock, hb_copy>>
    /\ \A u \in Threads : pc'[u] \in Setting => pc[u] = pc'[u] /\ arg[u] = arg'[u]
    /\ pc'[Heartbeat] = "write" =>
         pc[Heartbeat] = "write" /\ arg[Heartbeat] = arg'[Heartbeat] /\ hb_todo' = hb_todo
    /\ \A h \in Handles : /\ alloc'[h] = "open" => alloc[h] \in {"open", "building"}
                          /\ alloc'[h] = "building" => alloc[h] = "building"

\* Steps that do not change a flag keep what is known of it.
LEMMA QuietKeeps ==
    ASSUME ConfigQuiet, NEW h \in Handles, ConfigAt(h)
    PROVE  ConfigAt(h)'
<1>1. /\ shut_recv' = shut_recv /\ cfg' = cfg /\ map' = map /\ qlock' = qlock
      /\ cfg_lock' = cfg_lock /\ hb_copy' = hb_copy
  BY Zenon DEF ConfigQuiet
<1>2. /\ map[h] => cfg[h]
      /\ alloc'[h] = "building" => ~shut_recv[h]
      /\ alloc'[h] = "open" /\ shut_recv[h] /\ qlock[h] = None => map[h]
  BY Zenon DEF ConfigQuiet, ConfigAt
<1>3. ASSUME NEW u \in Threads, arg'[u] = h, pc'[u] \in Setting
      PROVE  qlock[h] = u /\ (pc'[u] = "shut_write" => cfg[h]) /\ (pc'[u] = "shut_unlock" => map[h])
  <2>1. pc[u] = pc'[u] /\ arg[u] = h
    BY <1>3 DEF ConfigQuiet
  <2> QED
    BY <1>3, <2>1, Zenon DEF ConfigAt
<1>4. pc'[Heartbeat] = "write" /\ arg'[Heartbeat] = h =>
         h \in hb_todo' /\ cfg_lock[h] = Heartbeat /\ (hb_copy <=> cfg[h])
  BY Zenon DEF ConfigQuiet, ConfigAt
<1>5. {"shut_write", "shut_unlock"} \subseteq Setting
  BY DEF Setting
<1> QED
  BY <1>1, <1>2, <1>3, <1>4, <1>5, Zenon DEF ConfigAt

\* All steps but these seven are quiet.
LEMMA ConfigCases ==
    ASSUME LifecycleInv, [Next]_vars
    PROVE  \/ ConfigQuiet
           \/ HbLockConfig \/ HbWriteConfig
           \/ \E t \in Threads : \/ ShutdownLock(t) \/ ShutdownFlag(t)
                                 \/ ShutdownWrite(t) \/ ShutdownUnlock(t)
           \/ \E t \in Threads, h \in Handles : Open(t, h)
<1> USE DEF ConfigQuiet, Setting, handleVars, lockVars, hbVars, Begin, Done, Goto, AllThreads
<1>1. /\ pc \in [AllThreads -> Positions] /\ arg \in [AllThreads -> Handles \cup {None}]
      /\ alloc \in [Handles -> {"free", "building", "open"}]
  BY DEF LifecycleInv, TypeOK
<1>2. \A t \in Threads : pc[t] # "idle" => arg[t] \in Handles
  BY DEF LifecycleInv, ThreadInv
<1>3. CASE HbPass
  BY <1>1, <1>3 DEF HbPass
<1>4. CASE HbSleep
  BY <1>1, <1>4 DEF HbSleep
<1>5. ASSUME NEW t \in Threads, BodyReturns(t) \/ ReceiverServed(t) PROVE ConfigQuiet
  BY <1>1, <1>5 DEF BodyReturns, ReceiverServed
<1>6. ASSUME NEW t \in Threads, handle_leave(t) PROVE ConfigQuiet
  BY <1>1, <1>6 DEF handle_leave
<1>7. ASSUME NEW t \in Threads, ShutdownSend(t) PROVE ConfigQuiet
  BY <1>1, <1>7 DEF ShutdownSend
<1>8. ASSUME NEW t \in Threads, CloseTest(t) \/ SpuriousWakeup(t) PROVE ConfigQuiet
  BY <1>1, <1>8 DEF CloseTest, SpuriousWakeup
<1>9. ASSUME NEW t \in Threads, CloseFree(t) PROVE ConfigQuiet
  BY <1>1, <1>2, <1>9 DEF CloseFree
<1>10. ASSUME NEW t \in Threads, heartbeat_add(t) PROVE ConfigQuiet
  <2>1. alloc[arg[t]] = "building" /\ arg[t] \in Handles
    BY <1>2, <1>10 DEF heartbeat_add, LifecycleInv, ThreadInv, OwnerInv
  <2>2. pc[Heartbeat] # "write"
    BY <1>10 DEF heartbeat_add, LifecycleInv, HeartbeatInv
  <2> QED
    BY <1>1, <1>10, <2>1, <2>2 DEF heartbeat_add
<1>11. ASSUME NEW t \in Threads, heartbeat_remove(t) PROVE ConfigQuiet
  BY <1>1, <1>11 DEF heartbeat_remove
<1>12. ASSUME NEW t \in Threads, OpenFails(t) PROVE ConfigQuiet
  BY <1>1, <1>2, <1>12 DEF OpenFails
<1>13. ASSUME NEW t \in Threads, NEW h \in Handles, Shutdown(t, h) \/ Close(t, h) PROVE ConfigQuiet
  BY <1>1, <1>13 DEF Shutdown, Close
<1>14. ASSUME NEW t \in Threads, NEW h \in Handles, NEW k \in {"recv", "short"},
              handle_enter(t, h, k)
       PROVE  ConfigQuiet
  BY <1>1, <1>14 DEF handle_enter
<1>15. CASE UNCHANGED vars
  BY <1>15, Zenon DEF vars
<1> QED
  BY <1>3, <1>4, <1>5, <1>6, <1>7, <1>8, <1>9, <1>10, <1>11, <1>12, <1>13, <1>14, <1>15, Zenon
     DEF Next, Heartbeats, LibStep, LockStep

\* cfg_lock keeps the heartbeat thread from writing a configuration older than
\* the shutdown's, and qlock keeps two shutdowns apart.
LEMMA ConfigStep ==
    ASSUME LifecycleInv, ConfigInv, [Next]_vars, NEW h \in Handles
    PROVE  ConfigAt(h)'
<1> USE DEF Setting, handleVars, hbVars, lockVars, Done, Goto, AllThreads
<1>1. /\ pc \in [AllThreads -> Positions] /\ arg \in [AllThreads -> Handles \cup {None}]
      /\ alloc \in [Handles -> {"free", "building", "open"}]
      /\ qlock \in [Handles -> Threads \cup {None}] /\ cfg_lock \in [Handles -> {Heartbeat, None}]
      /\ shut_recv \in [Handles -> BOOLEAN]
  BY DEF LifecycleInv, TypeOK
<1>2. cfg \in [Handles -> BOOLEAN] /\ map \in [Handles -> BOOLEAN] /\ hb_copy \in BOOLEAN
  BY DEF LifecycleInv, TypeOK
<1>3. \A t \in Threads : pc[t] # "idle" => arg[t] \in Handles
  BY DEF LifecycleInv, ThreadInv
<1>4. \A g \in hb_todo : g \in Handles /\ alloc[g] = "open"
  BY DEF LifecycleInv, TypeOK, HeartbeatInv
<1>5. \A t \in Threads : pc[t] \in Setting \cup {"shut"} => alloc[arg[t]] = "open"
  BY Zenon DEF ConfigInv, ShutdownInv, ShutPositions
<1>6. ConfigAt(h)
  BY DEF ConfigInv
<1>7. CASE HbLockConfig
  <2>1. PICK g \in hb_todo : /\ cfg_lock[g] = None
                             /\ cfg_lock' = [cfg_lock EXCEPT ![g] = Heartbeat]
                             /\ hb_copy' = cfg[g]
                             /\ arg' = [arg EXCEPT ![Heartbeat] = g]
    BY <1>7, Zenon DEF HbLockConfig
  <2>2. /\ UNCHANGED <<alloc, shut_recv, cfg, map, qlock, hb_todo>>
        /\ pc' = [pc EXCEPT ![Heartbeat] = "write"]
    BY <1>7 DEF HbLockConfig
  <2>3. \A t \in Threads : pc'[t] = pc[t] /\ arg'[t] = arg[t]
    BY <1>1, <2>1, <2>2, LifecycleAssumption
  <2>4. arg'[Heartbeat] = g
    BY <1>1, <2>1
  <2>5. h = g => cfg_lock'[h] = Heartbeat
    BY <1>1, <2>1
  <2> QED
    BY ONLY <1>6, <2>1, <2>2, <2>3, <2>4, <2>5, Zenon DEF ConfigAt
<1>8. CASE HbWriteConfig
  <2>1. /\ pc[Heartbeat] = "write" /\ pc' = [pc EXCEPT ![Heartbeat] = "pass"]
        /\ map' = [map EXCEPT ![arg[Heartbeat]] = hb_copy]
        /\ arg' = [arg EXCEPT ![Heartbeat] = None]
        /\ UNCHANGED <<alloc, shut_recv, cfg, qlock>>
    BY <1>8 DEF HbWriteConfig
  <2>2. \A t \in Threads : pc'[t] = pc[t] /\ arg'[t] = arg[t]
    BY <1>1, <2>1, LifecycleAssumption
  <2>3. pc'[Heartbeat] # "write"
    BY <1>1, <2>1
  <2>4. CASE arg[Heartbeat] = h
    <3>1. (hb_copy <=> cfg[h]) /\ (map'[h] <=> hb_copy)
      BY <1>2, <1>6, <2>1, <2>4, Zenon DEF ConfigAt
    <3>2. map'[h] <=> cfg[h]
      BY ONLY <3>1, Zenon
    <3> QED
      BY ONLY <1>6, <2>1, <2>2, <2>3, <3>2, Zenon DEF ConfigAt
  <2>5. CASE arg[Heartbeat] # h
    <3>1. map'[h] = map[h]
      BY <1>2, <2>1, <2>5, Zenon
    <3> QED
      BY ONLY <1>6, <2>1, <2>2, <2>3, <3>1, Zenon DEF ConfigAt
  <2> QED
    BY <2>4, <2>5
<1>9. ASSUME NEW t \in Threads, ShutdownLock(t) PROVE ConfigAt(h)'
  <2>1. /\ arg[t] \in Handles /\ pc[t] = "shut" /\ alloc[arg[t]] = "open" /\ qlock[arg[t]] = None
        /\ qlock' = [qlock EXCEPT ![arg[t]] = t]
        /\ shut_recv' = [shut_recv EXCEPT ![arg[t]] = TRUE]
        /\ pc' = [pc EXCEPT ![t] = IF shut_recv[arg[t]] THEN "shut_unlock" ELSE "shut_cfg"]
        /\ UNCHANGED <<alloc, cfg, map, cfg_lock, hb_todo, hb_copy, arg>>
    BY <1>3, <1>5, <1>9 DEF ShutdownLock
  <2>2. \A u \in Threads : u # t => pc'[u] = pc[u]
    BY <1>1, <2>1
  <2>3. pc'[t] = IF shut_recv[arg[t]] THEN "shut_unlock" ELSE "shut_cfg"
    BY <1>1, <2>1
  <2>4. pc'[Heartbeat] = pc[Heartbeat]
    BY <1>1, <2>1, LifecycleAssumption
  <2>5. CASE arg[t] = h
    <3>1. qlock'[h] = t /\ t # None
      BY <1>1, <2>1, <2>5, LifecycleAssumption
    <3>2. \A u \in Threads : u # t /\ arg[u] = h => pc[u] \notin Setting
      BY <1>6, <2>1, <2>5, LifecycleAssumption DEF ConfigAt
    <3>3. pc'[t] = "shut_unlock" => map[h]
      BY <1>6, <2>1, <2>3, <2>5 DEF ConfigAt
    <3>4. pc'[t] # "shut_write"
      BY <2>3
    <3>5. \A u \in Threads : arg[u] = h /\ pc'[u] \in Setting => u = t
      BY <2>2, <3>2
    <3>6. alloc[h] # "building"
      BY <2>1, <2>5
    <3>7. {"shut_write", "shut_unlock"} \subseteq Setting
      OBVIOUS
    <3> HIDE DEF Setting
    <3> QED
      BY ONLY <1>6, <2>1, <2>4, <3>1, <3>3, <3>4, <3>5, <3>6, <3>7, Zenon DEF ConfigAt
  <2>6. CASE arg[t] # h
    <3>1. qlock'[h] = qlock[h] /\ shut_recv'[h] = shut_recv[h]
      BY <1>1, <2>1, <2>6, Zenon
    <3> QED
      BY ONLY <1>6, <2>1, <2>2, <2>4, <2>6, <3>1, Zenon DEF ConfigAt
  <2> QED
    BY <2>5, <2>6
<1>10. ASSUME NEW t \in Threads, ShutdownFlag(t) PROVE ConfigAt(h)'
  <2>1. /\ arg[t] \in Handles /\ pc[t] = "shut_cfg" /\ cfg_lock[arg[t]] = None
        /\ cfg' = [cfg EXCEPT ![arg[t]] = TRUE]
        /\ pc' = [pc EXCEPT ![t] = "shut_write"]
        /\ UNCHANGED <<alloc, shut_recv, map, qlock, cfg_lock, hb_todo, hb_copy, arg>>
    BY <1>3, <1>10, Zenon DEF ShutdownFlag
  <2>2. \A u \in Threads : u # t => pc'[u] = pc[u]
    BY <1>1, <2>1
  <2>3. pc'[t] = "shut_write" /\ pc'[Heartbeat] = pc[Heartbeat]
    BY <1>1, <2>1, LifecycleAssumption
  <2>4. CASE arg[t] = h
    <3>1. cfg'[h]
      BY <1>2, <2>1, <2>4, Zenon
    <3>2. ~(pc[Heartbeat] = "write" /\ arg[Heartbeat] = h)
      BY <1>6, <2>1, <2>4, LifecycleAssumption DEF ConfigAt
    <3>3. qlock[h] = t
      BY <1>6, <2>1, <2>4 DEF ConfigAt
    <3>4. pc'[t] # "shut_unlock"
      BY <2>3
    <3> HIDE DEF Setting
    <3> QED
      BY ONLY <1>6, <2>1, <2>2, <2>3, <3>1, <3>2, <3>3, <3>4, Zenon DEF ConfigAt
  <2>5. CASE arg[t] # h
    <3>1. cfg'[h] = cfg[h]
      BY <1>2, <2>1, <2>5, Zenon
    <3> QED
      BY ONLY <1>6, <2>1, <2>2, <2>3, <2>5, <3>1, ZenonT(60) DEF ConfigAt
  <2> QED
    BY <2>4, <2>5
<1>11. ASSUME NEW t \in Threads, ShutdownWrite(t) PROVE ConfigAt(h)'
  <2>1. /\ arg[t] \in Handles /\ pc[t] = "shut_write"
        /\ map' = [map EXCEPT ![arg[t]] = cfg[arg[t]]]
        /\ pc' = [pc EXCEPT ![t] = "shut_unlock"]
        /\ UNCHANGED <<alloc, shut_recv, cfg, qlock, cfg_lock, hb_todo, hb_copy, arg>>
    BY <1>3, <1>11, Zenon DEF ShutdownWrite
  <2>2. \A u \in Threads : u # t => pc'[u] = pc[u]
    BY <1>1, <2>1
  <2>3. pc'[t] = "shut_unlock" /\ pc'[Heartbeat] = pc[Heartbeat]
    BY <1>1, <2>1, LifecycleAssumption
  <2>4. CASE arg[t] = h
    <3>1. cfg[h] /\ qlock[h] = t
      BY <1>6, <2>1, <2>4 DEF ConfigAt
    <3>2. map'[h]
      BY <1>2, <2>1, <2>4, <3>1, Zenon
    <3> HIDE DEF Setting
    <3> QED
      BY ONLY <1>6, <2>1, <2>2, <2>3, <3>1, <3>2, Zenon DEF ConfigAt
  <2>5. CASE arg[t] # h
    <3>1. map'[h] = map[h]
      BY <1>2, <2>1, <2>5, Zenon
    <3> QED
      BY ONLY <1>6, <2>1, <2>2, <2>3, <2>5, <3>1, Zenon DEF ConfigAt
  <2> QED
    BY <2>4, <2>5
<1>12. ASSUME NEW t \in Threads, ShutdownUnlock(t) PROVE ConfigAt(h)'
  <2>1. /\ arg[t] \in Handles /\ pc[t] = "shut_unlock"
        /\ qlock' = [qlock EXCEPT ![arg[t]] = None]
        /\ \E w \in {"idle", "shut_send"} : pc' = [pc EXCEPT ![t] = w]
        /\ \A u \in AllThreads \ {t} : arg'[u] = arg[u]
        /\ UNCHANGED <<alloc, shut_recv, cfg, map, cfg_lock, hb_todo, hb_copy>>
    BY <1>1, <1>3, <1>12 DEF ShutdownUnlock
  <2>2. \A u \in Threads : u # t => pc'[u] = pc[u] /\ arg'[u] = arg[u]
    BY <1>1, <2>1
  <2>3. pc'[t] \notin Setting /\ pc'[Heartbeat] = pc[Heartbeat] /\ arg'[Heartbeat] = arg[Heartbeat]
    BY <1>1, <2>1, LifecycleAssumption
  <2>4. {"shut_write", "shut_unlock"} \subseteq Setting
    OBVIOUS
  <2>5. CASE arg[t] = h
    <3>1. map[h] /\ qlock[h] = t
      BY <1>6, <2>1, <2>5 DEF ConfigAt
    <3>2. \A u \in Threads : u # t /\ arg'[u] = h => pc'[u] \notin Setting
      BY <1>6, <2>2, <3>1, Zenon DEF ConfigAt
    <3> HIDE DEF Setting
    <3> QED
      BY ONLY <1>6, <2>1, <2>3, <2>4, <3>1, <3>2, Zenon DEF ConfigAt
  <2>6. CASE arg[t] # h
    <3>1. qlock'[h] = qlock[h]
      BY <1>1, <2>1, <2>6, Zenon
    <3> HIDE DEF Setting
    <3>2. ASSUME NEW u \in Threads, arg'[u] = h, pc'[u] \in Setting
          PROVE  u # t /\ arg[u] = h /\ pc'[u] = pc[u]
      BY ONLY <2>2, <2>3, <3>2, t \in Threads, Zenon
    <3>3. \A u \in Threads : arg'[u] = h =>
             /\ pc'[u] \in Setting => qlock'[h] = u
             /\ pc'[u] = "shut_write" => cfg'[h]
             /\ pc'[u] = "shut_unlock" => map'[h]
      BY ONLY <1>6, <2>1, <2>4, <3>1, <3>2, ZenonT(60) DEF ConfigAt
    <3> QED
      BY ONLY <1>6, <2>1, <2>3, <3>1, <3>3, ZenonT(60) DEF ConfigAt
  <2> QED
    BY <2>5, <2>6
<1>13. ASSUME NEW t \in Threads, NEW g \in Handles, Open(t, g) PROVE ConfigAt(h)'
  <2>1. /\ alloc[g] = "free" /\ alloc' = [alloc EXCEPT ![g] = "building"]
        /\ shut_recv' = [shut_recv EXCEPT ![g] = FALSE]
        /\ cfg' = [cfg EXCEPT ![g] = FALSE] /\ map' = [map EXCEPT ![g] = FALSE]
        /\ qlock' = [qlock EXCEPT ![g] = None] /\ cfg_lock' = [cfg_lock EXCEPT ![g] = None]
        /\ pc' = [pc EXCEPT ![t] = "hb_add"] /\ arg' = [arg EXCEPT ![t] = g]
        /\ UNCHANGED <<hb_todo, hb_copy>>
    BY <1>13 DEF Open, Begin
  <2>2. \A u \in Threads : pc'[u] \in Setting => u # t /\ pc'[u] = pc[u] /\ arg'[u] = arg[u]
    BY <1>1, <2>1
  <2>3. pc'[Heartbeat] = pc[Heartbeat] /\ arg'[Heartbeat] = arg[Heartbeat]
    BY <1>1, <2>1, LifecycleAssumption
  <2>4. {"shut_write", "shut_unlock"} \subseteq Setting
    OBVIOUS
  <2>5. CASE g = h
    <3>1. alloc'[h] = "building" /\ ~shut_recv'[h]
      BY <1>1, <2>1, <2>5
    <3>2. ~map'[h]
      BY <1>2, <2>1, <2>5, Zenon
    <3>3. \A u \in Threads : arg'[u] = h => pc'[u] \notin Setting
      BY <1>5, <2>1, <2>2, <2>5
    <3>4. ~(pc'[Heartbeat] = "write" /\ arg'[Heartbeat] = h)
      BY <1>4, <1>6, <2>1, <2>3, <2>5 DEF ConfigAt
    <3> HIDE DEF Setting
    <3>5. alloc'[h] # "open"
      BY <3>1
    <3> QED
      BY ONLY <2>4, <3>1, <3>2, <3>3, <3>4, <3>5, Zenon DEF ConfigAt
  <2>6. CASE g # h
    <3>1. /\ alloc'[h] = alloc[h] /\ qlock'[h] = qlock[h] /\ cfg_lock'[h] = cfg_lock[h]
          /\ shut_recv'[h] = shut_recv[h]
      BY <1>1, <2>1, <2>6, Zenon
    <3>2. cfg'[h] = cfg[h] /\ map'[h] = map[h]
      BY <1>2, <2>1, <2>6, Zenon
    <3> HIDE DEF Setting
    <3> QED
      BY ONLY <1>6, <2>1, <2>2, <2>3, <2>4, <3>1, <3>2, Zenon DEF ConfigAt
  <2> QED
    BY <2>5, <2>6
<1> QED
  BY <1>6, <1>7, <1>8, <1>9, <1>10, <1>11, <1>12, <1>13, ConfigCases, QuietKeeps

\* Unless the application lets its own shutdown overlap close, the kernel has
\* the shutdown flag whenever ebpfdivert_shutdown has let go of qlock, whatever
\* the heartbeat thread was writing meanwhile.
THEOREM ShutdownFlagStays == ~Overlap => (Spec => []ShutdownReachesKernel)
<1> SUFFICES ASSUME ~Overlap PROVE Spec => []ShutdownReachesKernel
  OBVIOUS
<1>1. Init => ConfigInv
  BY DEF Init, ConfigInv, ShutdownInv, ConfigAt, ShutPositions, Setting, AllThreads
<1>2. LifecycleInv /\ ConfigInv /\ [Next]_vars => ConfigInv'
  BY ShutdownStep, ConfigStep DEF ConfigInv
<1>3. ConfigInv => ShutdownReachesKernel
  BY DEF ConfigInv, ConfigAt, ShutdownReachesKernel
<1> QED
  BY LifecycleInvariant, <1>1, <1>2, <1>3, PTL DEF Spec
=============================================================================
