------------------------ MODULE SessionSerializerProofs ------------------------
(* Theorems about SessionSerializer, for every number of tasks, sessions and  *)
(* lock objects and every capacity of the table.                              *)
EXTENDS SessionSerializer, FiniteSetTheorems, TLAPS

-----------------------------------------------------------------------------
(* Types                                                                     *)

LEMMA VictimsType == Victims \subseteq Sessions
BY DEF Victims

LEMMA NextUpType ==
    ASSUME NEW l, NEW t
    PROVE  NextUp(l, t) \subseteq Queue(l) /\ NextUp(l, t) \subseteq Tasks
BY DEF NextUp, Queue, Waiting

LEMMA InitType == Init => TypeOK
BY SerializerAssumption DEF Init, TypeOK, Phases

LEMMA MoveToEndType ==
    ASSUME NEW S, NEW order \in SUBSET (S \X S), NEW members \in SUBSET S, NEW x \in S
    PROVE  /\ MoveToEnd(order, members, x) \in SUBSET (S \X S)
           /\ Forget(order, x) \in SUBSET (S \X S)
BY DEF MoveToEnd, Forget

\* AskForLock keeps the types, whoever calls it.
LEMMA AskType ==
    ASSUME TypeOK, NEW t \in Tasks, NEW l \in Locks, AskForLock(t, l)
    PROVE  /\ locked' \in [Locks -> BOOLEAN]
           /\ woken' \in SUBSET Tasks
           /\ before' \in SUBSET (Tasks \X Tasks)
           /\ pc' \in [Tasks -> Phases]
           /\ granted' \in [Tasks -> BOOLEAN]
<1>1. CASE TakeFree(t, l)
  BY <1>1 DEF TypeOK, TakeFree, Phases
<1>2. CASE JoinQueue(t, l)
  <2>1. before' \in SUBSET (Tasks \X Tasks)
    BY <1>2, MoveToEndType DEF TypeOK, JoinQueue, Waiting
  <2> QED  BY <1>2, <2>1 DEF TypeOK, JoinQueue, Phases
<1> QED  BY <1>1, <1>2 DEF AskForLock

LEMMA LookupType ==
    ASSUME TypeOK, NEW s \in Sessions \ Bypassed, NEW l \in Locks, GetOrCreateLock(s, l)
    PROVE  /\ lockOf' \in [Sessions -> Locks \cup {NoLock}]
           /\ \A r \in Bypassed : lockOf'[r] = NoLock
           /\ older' \in SUBSET (Sessions \X Sessions)
<1>0. MoveToEnd(older, Table, s) \in SUBSET (Sessions \X Sessions)
  BY MoveToEndType DEF TypeOK, Table
<1>1. CASE LookupHit(s, l)
  BY <1>0, <1>1 DEF TypeOK, LookupHit
<1>2. CASE LookupMiss(s, l)
  BY <1>0, <1>2, SerializerAssumption DEF TypeOK, LookupMiss
<1> QED  BY <1>1, <1>2 DEF GetOrCreateLock

LEMMA LeaveType ==
    ASSUME TypeOK, NEW t \in Tasks, LeaveQueue(t)
    PROVE  /\ locked' = locked
           /\ woken' \in SUBSET Tasks
           /\ before' \in SUBSET (Tasks \X Tasks)
<1>1. Forget(before, t) \in SUBSET (Tasks \X Tasks)
  BY DEF TypeOK, Forget
<1> QED  BY <1>1, NextUpType DEF TypeOK, LeaveQueue

LEMMA UnlockType ==
    ASSUME TypeOK, NEW t \in Tasks, CallUnlock(t)
    PROVE  locked' \in [Locks -> BOOLEAN] /\ woken' \in SUBSET Tasks
BY NextUpType DEF TypeOK, CallUnlock

LEMMA TypeStep == TypeOK /\ [Next]_vars => TypeOK'
<1> SUFFICES ASSUME TypeOK, [Next]_vars  PROVE TypeOK'
  OBVIOUS
<1>u. CASE UNCHANGED vars
  BY <1>u DEF TypeOK, vars
<1>n. ASSUME NEW t \in Tasks, TaskStep(t)  PROVE TypeOK'
  <2>1. ASSUME NEW s \in Sessions, Bypass(t, s)  PROVE TypeOK'
    BY <2>1 DEF TypeOK, Bypass, Phases
  <2>2. ASSUME NEW s \in Sessions, Acquire(t, s)  PROVE TypeOK'
    <3>1. PICK l \in Locks :
            /\ GetOrCreateLock(s, l)
            /\ lock' = [lock EXCEPT ![t] = l]
            /\ IF EagerWait
               THEN AskForLock(t, l)
               ELSE /\ pc' = [pc EXCEPT ![t] = "fetched"]
                    /\ UNCHANGED <<locked, woken, before, granted>>
      BY <2>2 DEF Acquire
    <3>2. /\ lockOf' \in [Sessions -> Locks \cup {NoLock}]
          /\ \A r \in Bypassed : lockOf'[r] = NoLock
          /\ older' \in SUBSET (Sessions \X Sessions)
      BY <2>2, <3>1, LookupType DEF Acquire
    <3>3. sess' \in [Tasks -> Sessions \cup {NoSession}]
      BY <2>2 DEF Acquire, TypeOK
    <3>4. lock' \in [Tasks -> Locks \cup {NoLock}]
      BY <3>1 DEF TypeOK
    <3>5. CASE EagerWait
      BY <3>1, <3>2, <3>3, <3>4, <3>5, AskType DEF TypeOK
    <3>6. CASE ~EagerWait
      BY <3>1, <3>2, <3>3, <3>4, <3>6 DEF TypeOK, Phases
    <3> QED  BY <3>5, <3>6
  <2>3. CASE RunAcquire(t)
    <3>1. CASE lock[t] \in Locks
      BY <2>3, <3>1, AskType DEF TypeOK, RunAcquire
    <3>2. CASE lock[t] \notin Locks
      <4>1. CASE TakeFree(t, lock[t])
        BY <2>3, <4>1, <3>2 DEF TypeOK, RunAcquire, TakeFree, Phases
      <4>2. CASE JoinQueue(t, lock[t])
        <5>1. before' \in SUBSET (Tasks \X Tasks)
          BY <4>2, MoveToEndType DEF TypeOK, JoinQueue, Waiting
        <5> QED  BY <2>3, <4>2, <5>1 DEF TypeOK, RunAcquire, JoinQueue, Phases
      <4> QED  BY <2>3, <4>1, <4>2 DEF RunAcquire, AskForLock
    <3> QED  BY <3>1, <3>2
  <2>4. CASE Grant(t)
    BY <2>4 DEF TypeOK, Grant, Forget, Phases
  <2>5. CASE TimeOut(t)
    BY <2>5, LeaveType DEF TypeOK, TimeOut, Phases
  <2>6. CASE Cancel(t)
    BY <2>6, LeaveType DEF TypeOK, Cancel, Phases
  <2>7. CASE Unlock(t)
    BY <2>7, UnlockType DEF TypeOK, Unlock, Phases
  <2>8. CASE Exit(t)
    BY <2>8, UnlockType DEF TypeOK, Exit, Phases
  <2> QED  BY <1>n, <2>1, <2>2, <2>3, <2>4, <2>5, <2>6, <2>7, <2>8 DEF TaskStep
<1> QED  BY <1>u, <1>n DEF Next

\* Every reachable state is well typed.
THEOREM TypeCorrect == Spec => []TypeOK
BY InitType, TypeStep, PTL DEF Spec

-----------------------------------------------------------------------------
(* Mutual exclusion on a lock object                                         *)

\* What each phase of a task says about its callback, its lock and its future.
Placed ==
    \A t \in Tasks :
        /\ pc[t] \in {"idle", "fetched", "waiting"} => ~granted[t]
        /\ pc[t] \in {"fetched", "waiting"} => lock[t] \in Locks
        /\ granted[t] => lock[t] \in Locks
        /\ t \in woken => pc[t] = "waiting"

\* The owner's lock is locked.
HeldLocked == \A t \in Tasks : InTurn(t) => locked[lock[t]]

\* A wake-up is pending only while the lock is free: whoever finds the lock
\* locked knows that no waiter is about to take it.
WokenFree == \A w \in woken : ~locked[lock[w]]

\* The waiter that was woken is the first of its queue.
WokenFirst == \A w \in woken : \A v \in Queue(lock[w]) : v = w \/ <<w, v>> \in before

\* Arrival order has no cycles of two, so a queue has one first waiter.
BeforeAsym == \A u, v \in Waiting : ~(<<u, v>> \in before /\ <<v, u>> \in before)

\* LockMutex and NoAbandonedLock are not inductive: a waiter's right to lock
\* rests on the other conjuncts.
LockInv ==
    /\ Placed /\ HeldLocked /\ WokenFree /\ WokenFirst /\ BeforeAsym
    /\ LockMutex /\ NoAbandonedLock

LEMMA InitLock == Init => LockInv
BY SerializerAssumption
   DEF Init, LockInv, Placed, HeldLocked, WokenFree, WokenFirst, BeforeAsym,
       LockMutex, NoAbandonedLock, InTurn, Waiting

\* A task that asks for a lock either takes it when nobody can claim it or
\* queues behind everyone.
LEMMA AskLock ==
    ASSUME TypeOK, LockInv, NEW t \in Tasks, NEW l \in Locks,
           pc[t] \in {"idle", "fetched"},
           lock' = [lock EXCEPT ![t] = l],
           AskForLock(t, l)
    PROVE  LockInv'
<1>t. t \notin woken /\ ~granted[t] /\ t \notin Waiting
  BY DEF LockInv, Placed, Waiting
<1>l. lock'[t] = l /\ \A u \in Tasks \ {t} : lock'[u] = lock[u]
  BY DEF TypeOK
<1>1. CASE TakeFree(t, l)
  <2>1. /\ pc'[t] = "turn" /\ granted'[t] /\ locked'[l]
        /\ \A u \in Tasks \ {t} : pc'[u] = pc[u] /\ granted'[u] = granted[u]
        /\ \A k \in Locks \ {l} : locked'[k] = locked[k]
        /\ woken' = woken /\ before' = before
        /\ ~locked[l] /\ Queue(l) = {}
    BY <1>1 DEF TypeOK, TakeFree
  <2>2. Waiting' = Waiting
    BY <2>1, <1>t DEF Waiting
  <2>3. \A u \in Tasks \ {t} : InTurn(u)' <=> InTurn(u)
    BY <2>1 DEF InTurn
  <2>4. \A u \in Tasks : InTurn(u) => lock[u] # l
    BY <2>1 DEF LockInv, HeldLocked
  <2>5. Placed'
    BY <1>t, <1>l, <2>1 DEF LockInv, Placed
  <2>6. HeldLocked'
    BY <1>l, <2>1, <2>3, <2>4 DEF LockInv, HeldLocked, Placed, InTurn, TypeOK
  <2>7. WokenFree'
    <3> SUFFICES ASSUME NEW w \in woken  PROVE ~locked'[lock'[w]]
      BY <2>1 DEF WokenFree
    <3>1. w \in Queue(lock[w]) /\ lock[w] \in Locks /\ w # t
      BY <1>t DEF LockInv, Placed, Queue, Waiting, TypeOK
    <3>2. lock[w] # l
      BY <3>1, <2>1
    <3> QED  BY <3>1, <3>2, <1>l, <2>1 DEF LockInv, WokenFree, TypeOK
  <2>8. WokenFirst'
    BY <1>t, <1>l, <2>1, <2>2 DEF LockInv, WokenFirst, Queue, Waiting, TypeOK
  <2>9. BeforeAsym'
    BY <2>1, <2>2 DEF LockInv, BeforeAsym
  <2>10. LockMutex'
    BY <1>l, <2>1, <2>3, <2>4 DEF LockInv, LockMutex
  <2>11. NoAbandonedLock'
    <3> SUFFICES ASSUME NEW k \in Locks, locked'[k]
                 PROVE  \E u \in Tasks : InTurn(u)' /\ lock'[u] = k
      BY DEF NoAbandonedLock
    <3>1. CASE k = l
      BY <3>1, <2>1, <1>l DEF InTurn
    <3>2. CASE k # l
      <4>1. PICK u \in Tasks : InTurn(u) /\ lock[u] = k
        BY <3>2, <2>1 DEF LockInv, NoAbandonedLock
      <4>2. u # t
        BY <4>1, <1>t DEF InTurn
      <4> QED  BY <4>1, <4>2, <2>3, <1>l
    <3> QED  BY <3>1, <3>2
  <2> QED  BY <2>5, <2>6, <2>7, <2>8, <2>9, <2>10, <2>11 DEF LockInv
<1>2. CASE JoinQueue(t, l)
  <2>1. /\ pc'[t] = "waiting" /\ granted' = granted /\ locked' = locked
        /\ \A u \in Tasks \ {t} : pc'[u] = pc[u]
        /\ woken' = woken
        /\ before' = MoveToEnd(before, Waiting, t)
    BY <1>2 DEF TypeOK, JoinQueue
  <2>2. Waiting' = Waiting \cup {t}
    BY <2>1 DEF Waiting
  <2>3. \A u \in Tasks : (InTurn(u)' <=> InTurn(u)) /\ (InTurn(u) => lock'[u] = lock[u])
    BY <1>t, <1>l, <2>1 DEF InTurn
  <2>4. Placed'
    BY <1>t, <1>l, <2>1 DEF LockInv, Placed
  <2>5. HeldLocked'
    BY <2>1, <2>3 DEF LockInv, HeldLocked
  <2>6. WokenFree'
    BY <1>t, <1>l, <2>1 DEF LockInv, WokenFree, TypeOK
  <2>7. WokenFirst'
    <3> SUFFICES ASSUME NEW w \in woken, NEW v \in Queue(lock[w])'
                 PROVE  v = w \/ <<w, v>> \in before'
      BY <2>1 DEF WokenFirst
    <3>1. w \in Waiting /\ w # t /\ lock'[w] = lock[w]
      BY <1>t, <1>l DEF LockInv, Placed, Waiting, TypeOK
    <3>2. CASE v = t
      BY <3>1, <3>2, <2>1 DEF MoveToEnd
    <3>3. CASE v # t
      <4>1. v \in Queue(lock[w])
        BY <3>1, <3>3, <1>l, <2>2 DEF Queue, Waiting
      <4>2. v = w \/ <<w, v>> \in before
        BY <4>1 DEF LockInv, WokenFirst
      <4> QED  BY <4>2, <3>1, <3>3, <2>1 DEF MoveToEnd, Forget
    <3> QED  BY <3>2, <3>3
  <2>8. BeforeAsym'
    BY <1>t, <2>1, <2>2 DEF LockInv, BeforeAsym, MoveToEnd, Forget
  <2>9. LockMutex'
    BY <2>3 DEF LockInv, LockMutex
  <2>10. NoAbandonedLock'
    BY <2>1, <2>3 DEF LockInv, NoAbandonedLock
  <2> QED  BY <2>4, <2>5, <2>6, <2>7, <2>8, <2>9, <2>10 DEF LockInv
<1> QED  BY <1>1, <1>2 DEF AskForLock

\* The first of a queue is unique.
LEMMA NextUpUnique ==
    ASSUME BeforeAsym, NEW l, NEW t, NEW u \in NextUp(l, t), NEW v \in NextUp(l, t)
    PROVE  u = v
BY DEF BeforeAsym, NextUp, Queue

\* A task that leaves a queue hands on the wake-up only of a free lock.
LEMMA LeaveLock ==
    ASSUME TypeOK, LockInv, NEW t \in Tasks,
           pc[t] \in {"fetched", "waiting"},
           LeaveQueue(t),
           NEW ph \in {"turn", "idle"}, pc' = [pc EXCEPT ![t] = ph],
           granted' = granted,
           \A u \in Tasks \ {t} : lock'[u] = lock[u]
    PROVE  LockInv'
<1>1. /\ ~granted[t] /\ lock[t] \in Locks
      /\ pc'[t] \in {"turn", "idle"} /\ \A u \in Tasks \ {t} : pc'[u] = pc[u]
      /\ locked' = locked /\ before' = Forget(before, t)
  BY DEF TypeOK, LockInv, Placed, LeaveQueue
<1>2. Waiting' = Waiting \ {t}
  BY <1>1 DEF Waiting
<1>3. \A u \in Tasks : (InTurn(u)' <=> InTurn(u)) /\ (InTurn(u) => lock'[u] = lock[u])
  BY <1>1 DEF InTurn
<1>4. \A w \in woken' :
        /\ w \in Waiting /\ w # t /\ w \in Tasks
        /\ w \in woken \/ (pc[t] = "waiting" /\ ~locked[lock[t]] /\ w \in NextUp(lock[t], t))
  BY DEF LeaveQueue, NextUp, Queue, Waiting, LockInv, Placed, TypeOK
<1>5. Placed'
  BY <1>1, <1>4 DEF LockInv, Placed, Waiting
<1>6. HeldLocked'
  BY <1>1, <1>3 DEF LockInv, HeldLocked
<1>7. WokenFree'
  <2> SUFFICES ASSUME NEW w \in woken'  PROVE ~locked[lock[w]]
    BY <1>1, <1>4 DEF WokenFree
  <2> QED  BY <1>4 DEF LockInv, WokenFree, NextUp, Queue
<1>8. WokenFirst'
  <2> SUFFICES ASSUME NEW w \in woken', NEW v \in Queue(lock[w])'
               PROVE  v = w \/ <<w, v>> \in before'
    BY DEF WokenFirst
  <2>1. w # t /\ v # t /\ v \in Tasks /\ lock'[w] = lock[w] /\ v \in Queue(lock[w])
    BY <1>1, <1>2, <1>4 DEF Queue, Waiting
  <2>2. CASE w \in woken
    BY <2>1, <2>2, <1>1 DEF LockInv, WokenFirst, Forget
  <2>3. CASE w \in NextUp(lock[t], t)
    BY <2>1, <2>3, <1>1 DEF NextUp, Queue, Forget
  <2> QED  BY <1>4, <2>2, <2>3
<1>9. BeforeAsym'
  BY <1>1, <1>2 DEF LockInv, BeforeAsym, Forget
<1>10. LockMutex'
  BY <1>3 DEF LockInv, LockMutex
<1>11. NoAbandonedLock'
  BY <1>1, <1>3 DEF LockInv, NoAbandonedLock
<1> QED  BY <1>5, <1>6, <1>7, <1>8, <1>9, <1>10, <1>11 DEF LockInv

\* The woken waiter finds the lock as free as it was when it was woken.
LEMMA GrantLock ==
    ASSUME TypeOK, LockInv, NEW t \in Tasks, Grant(t)
    PROVE  LockInv'
<1> DEFINE l == lock[t]
<1>1. /\ pc[t] = "waiting" /\ t \in woken /\ l \in Locks /\ ~locked[l] /\ t \in Waiting
      /\ pc'[t] = "turn" /\ granted'[t] /\ locked'[l]
      /\ \A u \in Tasks \ {t} : pc'[u] = pc[u] /\ granted'[u] = granted[u]
      /\ \A k \in Locks \ {l} : locked'[k] = locked[k]
      /\ woken' = woken \ {t} /\ before' = Forget(before, t) /\ lock' = lock
  BY DEF Grant, TypeOK, LockInv, Placed, WokenFree, Waiting
<1>2. Waiting' = Waiting \ {t}
  BY <1>1 DEF Waiting
<1>3. \A u \in Tasks \ {t} : InTurn(u)' <=> InTurn(u)
  BY <1>1 DEF InTurn
<1>4. \A u \in Tasks : InTurn(u) => lock[u] # l /\ lock[u] \in Locks
  BY <1>1 DEF LockInv, HeldLocked, Placed, InTurn
<1>5. \A w \in woken : w # t => lock[w] # l
  <2> SUFFICES ASSUME NEW w \in woken, w # t, lock[w] = l  PROVE FALSE
    OBVIOUS
  <2>1. w \in Waiting /\ w \in Queue(l) /\ t \in Queue(lock[w])
    BY <1>1 DEF LockInv, Placed, Waiting, Queue, TypeOK
  <2> QED  BY <1>1, <2>1 DEF LockInv, WokenFirst, BeforeAsym
<1>6. Placed'
  BY <1>1 DEF LockInv, Placed
<1>7. HeldLocked'
  BY <1>1, <1>3, <1>4 DEF LockInv, HeldLocked
<1>8. WokenFree'
  <2> SUFFICES ASSUME NEW w \in woken, w # t  PROVE ~locked'[lock[w]]
    BY <1>1 DEF WokenFree
  <2> QED  BY <1>1, <1>5 DEF LockInv, WokenFree, Placed, TypeOK
<1>9. WokenFirst'
  <2> SUFFICES ASSUME NEW w \in woken, w # t, NEW v \in Queue(lock[w])'
               PROVE  v = w \/ <<w, v>> \in before'
    BY <1>1 DEF WokenFirst
  <2>1. v # t /\ v \in Queue(lock[w])
    BY <1>1, <1>2 DEF Queue, Waiting
  <2> QED  BY <2>1, <1>1 DEF LockInv, WokenFirst, Forget
<1>10. BeforeAsym'
  BY <1>1, <1>2 DEF LockInv, BeforeAsym, Forget
<1>11. LockMutex'
  BY <1>1, <1>3, <1>4 DEF LockInv, LockMutex
<1>12. NoAbandonedLock'
  <2> SUFFICES ASSUME NEW k \in Locks, locked'[k]
               PROVE  \E u \in Tasks : InTurn(u)' /\ lock'[u] = k
    BY DEF NoAbandonedLock
  <2>1. CASE k = l
    BY <2>1, <1>1 DEF InTurn
  <2>2. CASE k # l
    BY <2>2, <1>1, <1>3 DEF LockInv, NoAbandonedLock, InTurn
  <2> QED  BY <2>1, <2>2
<1> QED  BY <1>6, <1>7, <1>8, <1>9, <1>10, <1>11, <1>12 DEF LockInv

\* The owner gives the lock up and wakes one waiter; for anybody else, and for
\* a second call, unlock() leaves the locks alone.
LEMMA UnlockLock ==
    ASSUME TypeOK, LockInv, NEW t \in Tasks, Unlock(t)
    PROVE  LockInv'
<1>1. /\ pc[t] = "turn" /\ pc'[t] = "released" /\ lock' = lock /\ granted' = granted
      /\ before' = before
      /\ \A u \in Tasks \ {t} : pc'[u] = pc[u]
  BY DEF Unlock, TypeOK
<1>2. Waiting' = Waiting
  BY <1>1 DEF Waiting
<1>3. \A u \in Tasks : InTurn(u)' <=> InTurn(u) /\ u # t
  BY <1>1 DEF InTurn
<1>4. BeforeAsym'
  BY <1>1, <1>2 DEF LockInv, BeforeAsym
<1>5. LockMutex'
  BY <1>1, <1>3 DEF LockInv, LockMutex
<1>6. CASE granted[t] /\ locked[lock[t]]
  <2> DEFINE l == lock[t]
  <2>1. /\ l \in Locks /\ ~locked'[l]
        /\ \A k \in Locks \ {l} : locked'[k] = locked[k]
        /\ woken' = woken \cup NextUp(l, t)
    BY <1>1, <1>6 DEF Unlock, CallUnlock, TypeOK, LockInv, Placed
  <2>2. \A w \in NextUp(l, t) : w \in Waiting /\ w \in Tasks /\ lock[w] = l
    BY DEF NextUp, Queue, Waiting
  <2>3. Placed'
    BY <1>1, <2>1, <2>2 DEF LockInv, Placed, Waiting
  <2>4. HeldLocked'
    BY <1>1, <1>3, <1>6, <2>1 DEF LockInv, HeldLocked, LockMutex, InTurn, Placed
  <2>5. WokenFree'
    <3> SUFFICES ASSUME NEW w \in woken'  PROVE ~locked'[lock[w]]
      BY <1>1 DEF WokenFree
    <3>1. CASE w \in woken
      BY <3>1, <2>1 DEF LockInv, WokenFree, Placed, TypeOK
    <3>2. CASE w \in NextUp(l, t)
      BY <3>2, <2>1, <2>2
    <3> QED  BY <3>1, <3>2, <2>1
  <2>6. WokenFirst'
    <3> SUFFICES ASSUME NEW w \in woken', NEW v \in Queue(lock[w])
                 PROVE  v = w \/ <<w, v>> \in before
      BY <1>1, <1>2 DEF WokenFirst, Queue
    <3>1. CASE w \in woken
      BY <3>1 DEF LockInv, WokenFirst
    <3>2. CASE w \in NextUp(l, t)
      <4>1. v # t
        BY <1>1 DEF Queue, Waiting
      <4> QED  BY <3>2, <2>2, <4>1 DEF NextUp
    <3> QED  BY <3>1, <3>2, <2>1
  <2>7. NoAbandonedLock'
    BY <1>1, <1>3, <2>1 DEF LockInv, NoAbandonedLock
  <2> QED  BY <1>4, <1>5, <2>3, <2>4, <2>5, <2>6, <2>7 DEF LockInv
<1>7. CASE ~(granted[t] /\ locked[lock[t]])
  <2>1. locked' = locked /\ woken' = woken
    BY <1>1, <1>7 DEF Unlock, CallUnlock
  <2>2. ~InTurn(t)
    BY <1>7 DEF LockInv, HeldLocked, InTurn
  <2>3. Placed'
    BY <1>1, <2>1 DEF LockInv, Placed
  <2>4. HeldLocked' /\ WokenFree' /\ NoAbandonedLock'
    BY <1>1, <1>3, <2>1, <2>2
       DEF LockInv, HeldLocked, WokenFree, NoAbandonedLock
  <2>5. WokenFirst'
    BY <1>1, <1>2, <2>1 DEF LockInv, WokenFirst, Queue
  <2> QED  BY <1>4, <1>5, <2>3, <2>4, <2>5 DEF LockInv
<1> QED  BY <1>6, <1>7

\* A step that keeps the locks and the queues, and gives no task a turn with a
\* lock, keeps the invariant.
LEMMA FrameLock ==
    ASSUME TypeOK, LockInv, NEW t \in Tasks,
           pc[t] \in {"idle", "released"},
           UNCHANGED <<locked, woken, before>>,
           NEW ph \in {"turn", "fetched", "idle"},
           pc' = [pc EXCEPT ![t] = ph],
           ~granted'[t],
           \A u \in Tasks \ {t} : lock'[u] = lock[u] /\ granted'[u] = granted[u],
           ph = "fetched" => lock'[t] \in Locks
    PROVE  LockInv'
<1>1. /\ pc'[t] = ph /\ \A u \in Tasks \ {t} : pc'[u] = pc[u]
      /\ t \notin woken
  BY DEF TypeOK, LockInv, Placed
<1>2. Waiting' = Waiting /\ t \notin Waiting
  BY <1>1 DEF Waiting
<1>3. \A u \in Tasks : (InTurn(u)' <=> InTurn(u)) /\ (InTurn(u) => lock'[u] = lock[u])
  BY <1>1 DEF InTurn
<1>4. Placed'
  BY <1>1 DEF LockInv, Placed
<1>5. HeldLocked' /\ LockMutex' /\ NoAbandonedLock'
  BY <1>3 DEF LockInv, HeldLocked, LockMutex, NoAbandonedLock
<1>6. WokenFree'
  BY <1>1 DEF LockInv, WokenFree, TypeOK
<1>7. WokenFirst'
  BY <1>1, <1>2 DEF LockInv, WokenFirst, Queue, Waiting, TypeOK
<1>8. BeforeAsym'
  BY <1>2 DEF LockInv, BeforeAsym
<1> QED  BY <1>4, <1>5, <1>6, <1>7, <1>8 DEF LockInv

LEMMA LockStep == TypeOK /\ LockInv /\ [Next]_vars => LockInv'
<1> SUFFICES ASSUME TypeOK, LockInv, [Next]_vars  PROVE LockInv'
  OBVIOUS
<1>u. CASE UNCHANGED vars
  BY <1>u DEF vars, LockInv, Placed, HeldLocked, WokenFree, WokenFirst, BeforeAsym,
              LockMutex, NoAbandonedLock, InTurn, Waiting, Queue
<1>n. ASSUME NEW t \in Tasks, TaskStep(t)  PROVE LockInv'
  <2>1. ASSUME NEW s \in Sessions, Bypass(t, s)  PROVE LockInv'
    <3>1. pc[t] = "idle" /\ ~granted'[t]
      BY <2>1 DEF Bypass, LockInv, Placed
    <3> QED  BY <2>1, <3>1, FrameLock DEF Bypass
  <2>2. ASSUME NEW s \in Sessions, Acquire(t, s)  PROVE LockInv'
    <3>1. PICK l \in Locks :
            /\ lock' = [lock EXCEPT ![t] = l]
            /\ IF EagerWait
               THEN AskForLock(t, l)
               ELSE /\ pc' = [pc EXCEPT ![t] = "fetched"]
                    /\ UNCHANGED <<locked, woken, before, granted>>
      BY <2>2 DEF Acquire
    <3>2. pc[t] = "idle" /\ ~granted[t]
      BY <2>2 DEF Acquire, LockInv, Placed
    <3>3. lock'[t] = l /\ \A u \in Tasks \ {t} : lock'[u] = lock[u]
      BY <3>1 DEF TypeOK
    <3>4. CASE EagerWait
      BY <3>1, <3>2, <3>4, AskLock
    <3>5. CASE ~EagerWait
      BY <3>1, <3>2, <3>3, <3>5, FrameLock
    <3> QED  BY <3>4, <3>5
  <2>3. CASE RunAcquire(t)
    <3>1. pc[t] = "fetched" /\ lock[t] \in Locks /\ AskForLock(t, lock[t])
      BY <2>3 DEF RunAcquire, LockInv, Placed
    <3>2. lock' = [lock EXCEPT ![t] = lock[t]]
      BY <2>3 DEF RunAcquire, TypeOK
    <3> QED  BY <3>1, <3>2, AskLock
  <2>4. CASE Grant(t)
    BY <2>4, GrantLock
  <2>5. CASE TimeOut(t)
    BY <2>5, LeaveLock DEF TimeOut
  <2>6. CASE Cancel(t)
    <3>1. \A u \in Tasks \ {t} : lock'[u] = lock[u]
      BY <2>6 DEF Cancel, TypeOK
    <3> QED  BY <2>6, <3>1, LeaveLock DEF Cancel
  <2>7. CASE Unlock(t)
    BY <2>7, UnlockLock
  <2>8. CASE Exit(t)
    <3>1. /\ pc[t] = "released" /\ pc' = [pc EXCEPT ![t] = "idle"] /\ ~granted'[t]
          /\ UNCHANGED <<locked, woken, before>>
          /\ \A u \in Tasks \ {t} : lock'[u] = lock[u] /\ granted'[u] = granted[u]
      BY <2>8 DEF Exit, CallUnlock, TypeOK
    <3> QED  BY <3>1, FrameLock
  <2> QED  BY <1>n, <2>1, <2>2, <2>3, <2>4, <2>5, <2>6, <2>7, <2>8 DEF TaskStep
<1> QED  BY <1>u, <1>n DEF Next

\* One owner per lock object, however requests, evictions, timeouts and
\* cancellations interleave (acquire and unlock).
THEOREM LockMutexCorrect == Spec => []LockMutex
<1>1. LockInv => LockMutex
  BY DEF LockInv
<1> QED  BY <1>1, InitType, TypeStep, InitLock, LockStep, PTL DEF Spec

\* A locked lock always has an owner whose callback will release it.
THEOREM NoAbandonedLockCorrect == Spec => []NoAbandonedLock
<1>1. LockInv => NoAbandonedLock
  BY DEF LockInv
<1> QED  BY <1>1, InitType, TypeStep, InitLock, LockStep, PTL DEF Spec

-----------------------------------------------------------------------------
(* The table and the sessions                                                *)

IdleNoLock == \A t \in Tasks : pc[t] = "idle" => lock[t] = NoLock

\* No two sessions of the table share a lock.
TableInjective ==
    \A r, s \in Sessions : lockOf[r] # NoLock /\ lockOf[r] = lockOf[s] => r = s

\* Idle tasks close over no lock, so a step that starts a request renames no
\* lock that is in use.
CrossInv == IdleNoLock /\ TableInjective /\ NoCrossSessionLock

LEMMA InitCross == Init => CrossInv
BY DEF Init, CrossInv, IdleNoLock, TableInjective, NoCrossSessionLock

\* What a lookup does to the table: the caller's session has an entry, which
\* nothing referred to when it is new; every other entry stays or goes.
LEMMA LookupEffect ==
    ASSUME TypeOK, NEW s \in Sessions, NEW l \in Locks, GetOrCreateLock(s, l)
    PROVE  /\ lockOf'[s] = l
           /\ \A r \in Sessions \ {s} : lockOf'[r] \in {lockOf[r], NoLock}
           /\ lockOf[s] = l \/ Unreferenced(l)
<1>1. CASE LookupHit(s, l)
  BY <1>1 DEF LookupHit, Table, TypeOK
<1>2. CASE LookupMiss(s, l)
  BY <1>2 DEF LookupMiss, Table, TypeOK
<1> QED  BY <1>1, <1>2 DEF GetOrCreateLock

\* Every step of a task but acquire leaves the table alone, and the lock and
\* the session of every task that is not idle afterwards.
KeepsTable ==
    /\ lockOf' = lockOf
    /\ \A u \in Tasks : pc'[u] = "idle" => lock'[u] = NoLock
    /\ \A u \in Tasks :
          lock'[u] # NoLock => lock'[u] = lock[u] /\ sess'[u] = sess[u]

LEMMA StepKeepsTable ==
    ASSUME TypeOK, IdleNoLock, NEW t \in Tasks, TaskStep(t)
    PROVE  KeepsTable \/ \E s \in Sessions : Acquire(t, s)
<1>1. ASSUME NEW s \in Sessions, Bypass(t, s)  PROVE KeepsTable
  BY <1>1 DEF KeepsTable, IdleNoLock, TypeOK, Bypass
<1>2. CASE RunAcquire(t)
  <2>1. \A u \in Tasks : pc'[u] = "idle" => pc[u] = "idle"
    BY <1>2 DEF RunAcquire, AskForLock, TakeFree, JoinQueue, TypeOK
  <2> QED  BY <1>2, <2>1 DEF KeepsTable, IdleNoLock, RunAcquire
<1>3. CASE Grant(t)
  BY <1>3 DEF KeepsTable, IdleNoLock, TypeOK, Grant
<1>4. CASE TimeOut(t)
  BY <1>4 DEF KeepsTable, IdleNoLock, TypeOK, TimeOut
<1>5. CASE Cancel(t)
  BY <1>5 DEF KeepsTable, IdleNoLock, TypeOK, Cancel
<1>6. CASE Unlock(t)
  BY <1>6 DEF KeepsTable, IdleNoLock, TypeOK, Unlock
<1>7. CASE Exit(t)
  BY <1>7 DEF KeepsTable, IdleNoLock, TypeOK, Exit
<1> QED  BY <1>1, <1>2, <1>3, <1>4, <1>5, <1>6, <1>7 DEF TaskStep

\* What acquire does to the task that calls it.
LEMMA AcquireEffect ==
    ASSUME TypeOK, NEW t \in Tasks, NEW s \in Sessions, Acquire(t, s)
    PROVE  /\ s \notin Bypassed
           /\ \E l \in Locks : GetOrCreateLock(s, l) /\ lock' = [lock EXCEPT ![t] = l]
           /\ pc[t] = "idle" /\ sess' = [sess EXCEPT ![t] = s]
           /\ \A u \in Tasks : pc'[u] = "idle" => pc[u] = "idle" /\ u # t
<1>1. \A u \in Tasks : pc'[u] = "idle" => pc[u] = "idle" /\ u # t
  BY DEF Acquire, AskForLock, TakeFree, JoinQueue, TypeOK
<1> QED  BY <1>1 DEF Acquire

LEMMA CrossStep == TypeOK /\ CrossInv /\ [Next]_vars => CrossInv'
<1> SUFFICES ASSUME TypeOK, CrossInv, [Next]_vars  PROVE CrossInv'
  OBVIOUS
<1>u. CASE UNCHANGED vars
  BY <1>u DEF vars, CrossInv, IdleNoLock, TableInjective, NoCrossSessionLock
<1>n. ASSUME NEW t \in Tasks, TaskStep(t)  PROVE CrossInv'
  <2>1. CASE KeepsTable
    BY <2>1 DEF KeepsTable, CrossInv, IdleNoLock, TableInjective, NoCrossSessionLock
  <2>2. ASSUME NEW s \in Sessions, Acquire(t, s)  PROVE CrossInv'
    <3>1. PICK l \in Locks : GetOrCreateLock(s, l) /\ lock' = [lock EXCEPT ![t] = l]
      BY <2>2, AcquireEffect
    <3>2. /\ pc[t] = "idle" /\ sess' = [sess EXCEPT ![t] = s]
          /\ \A u \in Tasks : pc'[u] = "idle" => pc[u] = "idle" /\ u # t
      BY <2>2, AcquireEffect
    <3>3. /\ lockOf'[s] = l
          /\ \A r \in Sessions \ {s} : lockOf'[r] \in {lockOf[r], NoLock}
          /\ lockOf[s] = l \/ Unreferenced(l)
      BY <3>1, LookupEffect
    <3>4. l # NoLock
      BY SerializerAssumption
    <3>5. \A r \in Sessions \ {s} : lockOf'[r] # l
      BY <3>3, <3>4 DEF CrossInv, TableInjective, Unreferenced
    <3>6. IdleNoLock'
      BY <3>1, <3>2 DEF CrossInv, IdleNoLock, TypeOK
    <3>7. TableInjective'
      BY <3>3, <3>5 DEF CrossInv, TableInjective
    <3>8. NoCrossSessionLock'
      <4> SUFFICES ASSUME NEW u \in Tasks, NEW r \in Sessions,
                          lock'[u] # NoLock, lock'[u] = lockOf'[r]
                   PROVE  sess'[u] = r
        BY DEF NoCrossSessionLock
      <4>1. CASE u = t
        BY <4>1, <3>1, <3>2, <3>5 DEF TypeOK
      <4>2. CASE u # t
        <5>1. lock'[u] = lock[u] /\ sess'[u] = sess[u]
          BY <4>2, <3>1, <3>2 DEF TypeOK
        <5>2. CASE r = s
          BY <5>1, <5>2, <3>3 DEF CrossInv, NoCrossSessionLock, Unreferenced
        <5>3. CASE r # s
          BY <5>1, <5>3, <3>3 DEF CrossInv, NoCrossSessionLock
        <5> QED  BY <5>2, <5>3
      <4> QED  BY <4>1, <4>2
    <3> QED  BY <3>6, <3>7, <3>8 DEF CrossInv
  <2> QED  BY <1>n, <2>1, <2>2, StepKeepsTable DEF CrossInv
<1> QED  BY <1>u, <1>n DEF Next

\* A session's lock never delays or serves a request of another session,
\* whatever is evicted and created again (_get_or_create_lock).
THEOREM NoCrossSessionLockCorrect == Spec => []NoCrossSessionLock
<1>1. CrossInv => NoCrossSessionLock
  BY DEF CrossInv
<1> QED  BY <1>1, InitType, TypeStep, InitCross, CrossStep, PTL DEF Spec

-----------------------------------------------------------------------------
(* The bound on the table                                                    *)

\* R orders the members of E: a strict total order.
Orders(R, E) ==
    /\ \A a, b \in E : <<a, b>> \in R => <<b, a>> \notin R
    /\ \A a, b \in E : a = b \/ <<a, b>> \in R \/ <<b, a>> \in R
    /\ \A a, b, c \in E : <<a, b>> \in R /\ <<b, c>> \in R => <<a, c>> \in R

\* The members of E up to e in the order R.
UpTo(R, E, e) == {a \in E : a = e \/ <<a, e>> \in R}

\* The first k of a finite ordered set are k: the number of the members up to each is
\* another one, so that every number up to the size of the set is taken.
LEMMA FirstMembers ==
    ASSUME NEW E, IsFiniteSet(E), NEW R, Orders(R, E), NEW k \in Nat, k <= Cardinality(E)
    PROVE  Cardinality({e \in E : Cardinality(UpTo(R, E, e)) <= k}) >= k
<1> DEFINE n == Cardinality(E)
           rank == [e \in E |-> Cardinality(UpTo(R, E, e))]
           V == {e \in E : Cardinality(UpTo(R, E, e)) <= k}
           at == [j \in 1..k |-> CHOOSE e \in E : rank[e] = j]
<1>1. n \in Nat
  BY FS_CardinalityType
<1>2. \A e \in E : /\ e \in UpTo(R, E, e) /\ IsFiniteSet(UpTo(R, E, e))
                   /\ rank[e] \in Nat /\ rank[e] <= n /\ rank[e] # 0
  <2> SUFFICES ASSUME NEW e \in E
               PROVE  /\ e \in UpTo(R, E, e) /\ IsFiniteSet(UpTo(R, E, e))
                      /\ Cardinality(UpTo(R, E, e)) \in Nat
                      /\ Cardinality(UpTo(R, E, e)) <= n /\ Cardinality(UpTo(R, E, e)) # 0
    OBVIOUS
  <2>1. UpTo(R, E, e) \in SUBSET E /\ e \in UpTo(R, E, e)
    BY DEF UpTo
  <2>2. IsFiniteSet(UpTo(R, E, e)) /\ Cardinality(UpTo(R, E, e)) <= n
    BY <2>1, FS_Subset
  <2> QED  BY <2>1, <2>2, FS_CardinalityType, FS_EmptySet
<1>3. ASSUME NEW a \in E, NEW b \in E, <<a, b>> \in R
      PROVE  rank[a] # rank[b]
  <2>1. UpTo(R, E, a) \in SUBSET UpTo(R, E, b)
    BY <1>3 DEF UpTo, Orders
  <2>2. b \in UpTo(R, E, b) /\ b \notin UpTo(R, E, a)
    BY <1>3 DEF UpTo, Orders
  <2>3. rank[a] = Cardinality(UpTo(R, E, a)) /\ rank[b] = Cardinality(UpTo(R, E, b))
    OBVIOUS
  <2> HIDE DEF rank
  <2> QED  BY <1>2, <2>1, <2>2, <2>3, FS_Subset
<1>4. \A e \in E : rank[e] = Cardinality(UpTo(R, E, e))
  OBVIOUS
<1>5. rank \in [E -> 1..n]
  BY <1>1, <1>2
<1> HIDE DEF rank
<1>6. \A a, b \in E : rank[a] = rank[b] => a = b
  BY <1>3 DEF Orders
<1>7. rank \in Surjection(E, 1..n)
  <2>1. rank \in Injection(E, 1..n)
    BY <1>5, <1>6 DEF Injection, IsInjective
  <2>2. IsFiniteSet(1..n) /\ Cardinality(1..n) = n
    BY <1>1, FS_Interval
  <2> QED  BY <2>1, <2>2, FS_Injection
<1>8. \A j \in 1..k : \E e \in E : rank[e] = j
  BY <1>1, <1>7 DEF Surjection
<1>9. \A j \in 1..k : at[j] \in E /\ rank[at[j]] = j
  BY <1>8
<1> HIDE DEF at
<1>10. \A j \in 1..k : at[j] \in V
  BY <1>4, <1>9
<1>11. at \in Injection(1..k, V)
  <2>1. at \in [1..k -> V]
    <3> HIDE DEF V
    <3> QED  BY <1>10 DEF at
  <2> HIDE DEF V
  <2> QED  BY <1>9, <2>1 DEF Injection, IsInjective
<1>12. IsFiniteSet(V)
  BY FS_Subset
<1> HIDE DEF V
<1>13. Cardinality(1..k) <= Cardinality(V) /\ Cardinality(1..k) = k
  BY <1>11, <1>12, FS_Injection, FS_Interval
<1> QED  BY <1>13 DEF V

\* The order of the table is one.
Aged == /\ older \subseteq Table \X Table
        /\ Orders(older, Table)

LEMMA InitAged == Init => Aged
BY DEF Init, Aged, Orders, Table

LEMMA AgedStep == TypeOK /\ Aged /\ [Next]_vars => Aged'
<1> SUFFICES ASSUME TypeOK, Aged, [Next]_vars  PROVE Aged'
  OBVIOUS
<1>1. CASE UNCHANGED <<lockOf, older>>
  BY <1>1 DEF Aged, Orders, Table
<1>2. ASSUME NEW t \in Tasks, NEW s \in Sessions, Acquire(t, s)
      PROVE  Aged'
  <2>1. PICK l \in Locks : LookupHit(s, l) \/ LookupMiss(s, l)
    BY <1>2 DEF Acquire, GetOrCreateLock
  <2> DEFINE moved == MoveToEnd(older, Table, s)
             members == Table \cup {s}
  <2>2. \A a, b : <<a, b>> \in moved <=>
                    \/ <<a, b>> \in older /\ a # s /\ b # s
                    \/ a \in Table /\ a # s /\ b = s
    BY DEF MoveToEnd, Forget
  <2>3. \A p \in moved : p = <<p[1], p[2]>>
    BY DEF MoveToEnd, Forget, Aged
  <2> HIDE DEF moved
  <2>4. moved \subseteq members \X members
    BY <2>2, <2>3 DEF Aged
  <2>5. Orders(moved, members)
    <3>1. \A a, b \in members : <<a, b>> \in moved => <<b, a>> \notin moved
      BY <2>2 DEF Aged, Orders
    <3>2. \A a, b \in members : a = b \/ <<a, b>> \in moved \/ <<b, a>> \in moved
      BY <2>2 DEF Aged, Orders
    <3>3. \A a, b, c \in members : <<a, b>> \in moved /\ <<b, c>> \in moved => <<a, c>> \in moved
      BY <2>2 DEF Aged, Orders
    <3> QED  BY <3>1, <3>2, <3>3 DEF Orders
  <2>6. CASE LookupHit(s, l)
    <3>1. older' = moved /\ Table' = Table /\ members = Table
      BY <2>6 DEF LookupHit, Table, moved
    <3> QED  BY <2>4, <2>5, <3>1 DEF Aged
  <2>7. CASE LookupMiss(s, l)
    <3>1. older' = {p \in moved : p[1] \notin Victims /\ p[2] \notin Victims}
      BY <2>7 DEF LookupMiss, moved
    <3>2. Table' = (Table \ Victims) \cup {s} /\ s \notin Victims
      BY <2>7, SerializerAssumption DEF LookupMiss, Table, Victims, Evictable, TypeOK
    <3>3. older' \subseteq Table' \X Table'
      BY <2>4, <3>1, <3>2
    <3>4. \A a, b \in Table' : <<a, b>> \in older' <=> <<a, b>> \in moved
      BY <3>1, <3>2
    <3>5. Table' \subseteq members
      BY <3>2
    <3>6. Orders(older', Table')
      BY <2>5, <3>4, <3>5 DEF Orders
    <3> QED  BY <3>3, <3>6 DEF Aged
  <2> QED  BY <2>1, <2>6, <2>7
<1>3. ASSUME NEW t \in Tasks, NEW s \in Sessions, Bypass(t, s)
      PROVE  Aged'
  BY <1>1, <1>3 DEF Bypass
<1>4. ASSUME NEW t \in Tasks,
             RunAcquire(t) \/ Grant(t) \/ TimeOut(t) \/ Cancel(t) \/ Unlock(t) \/ Exit(t)
      PROVE  Aged'
  BY <1>1, <1>4 DEF RunAcquire, Grant, TimeOut, Cancel, Unlock, Exit
<1>5. CASE UNCHANGED vars
  BY <1>1, <1>5 DEF vars
<1> QED  BY <1>2, <1>3, <1>4, <1>5 DEF Next, TaskStep

\* A session that is added makes room for itself, or finds every other one busy with a
\* task of its own.
LEMMA MissBound ==
    ASSUME TypeOK, LockInv, CrossInv, Aged, NEW t \in Tasks, pc[t] = "idle",
           NEW s \in Sessions, NEW l \in Locks, LookupMiss(s, l)
    PROVE  TableBound'
<1> DEFINE N == Cardinality(Table)
           E == {r \in Table : Evictable(r)}
           K == N + 1 - MaxSessions
           Kept == Table \ Victims
<1>1. IsFiniteSet(Table) /\ N \in Nat /\ IsFiniteSet(Tasks) /\ Cardinality(Tasks) \in Nat
  BY SerializerAssumption, FS_Subset, FS_CardinalityType DEF Table
<1>2. Table' = Kept \cup {s} /\ s \notin Table
  BY SerializerAssumption DEF LookupMiss, Table, Victims, Evictable, TypeOK
<1>3. /\ IsFiniteSet(Kept) /\ Cardinality(Kept) \in Nat /\ Cardinality(Kept) <= N
      /\ Cardinality(Table') = Cardinality(Kept) + 1
  <2>1. Kept \in SUBSET Table /\ s \notin Kept
    BY <1>2
  <2> HIDE DEF Kept
  <2> QED  BY <1>1, <1>2, <2>1, FS_Subset, FS_CardinalityType, FS_AddElement
<1>4. CASE N < MaxSessions
  BY <1>1, <1>3, <1>4, SerializerAssumption DEF TableBound
<1>5. CASE ~(N < MaxSessions)
  <2>1. K \in Nat /\ IsFiniteSet(E) /\ Cardinality(E) \in Nat
    BY <1>1, <1>5, SerializerAssumption, FS_Subset, FS_CardinalityType
  <2>2. \A r \in E : EvictedUpTo(r) = UpTo(older, E, r)
    BY DEF EvictedUpTo, UpTo, Evictable, Table
  <2>3. \A r \in E : /\ Cardinality(UpTo(older, E, r)) \in Nat
                     /\ Cardinality(UpTo(older, E, r)) <= Cardinality(E)
    <3> SUFFICES ASSUME NEW r \in E
                 PROVE  /\ Cardinality(UpTo(older, E, r)) \in Nat
                        /\ Cardinality(UpTo(older, E, r)) <= Cardinality(E)
      OBVIOUS
    <3>1. UpTo(older, E, r) \in SUBSET E
      BY DEF UpTo
    <3> HIDE DEF E
    <3> QED  BY <2>1, <3>1, FS_Subset, FS_CardinalityType
  <2>4. Victims = {r \in E : Cardinality(UpTo(older, E, r)) <= K}
    <3>1. Victims \subseteq E
      BY DEF Victims, Evictable
    <3>2. \A r \in E : r \in Victims <=> Cardinality(EvictedUpTo(r)) + MaxSessions <= N + 1
      BY <1>1, <1>5, SerializerAssumption DEF Victims, Table
    <3>3. \A r \in E : r \in Victims <=> Cardinality(UpTo(older, E, r)) <= K
      BY <1>1, <2>2, <2>3, <3>2, SerializerAssumption
    <3> HIDE DEF E, K
    <3> QED  BY <3>1, <3>3
  <2>5. CASE K <= Cardinality(E)
    <3>1. Orders(older, E)
      BY DEF Aged, Orders
    <3> HIDE DEF E, K
    <3>2. Cardinality(Victims) >= K
      BY <2>1, <2>4, <2>5, <3>1, FirstMembers
    <3>3. Victims \subseteq Table
      BY DEF Victims, Evictable
    <3>4. /\ Cardinality(Kept) = N - Cardinality(Victims)
          /\ Cardinality(Victims) \in Nat
      <4>1. Table \cap Victims = Victims /\ IsFiniteSet(Victims)
        BY <1>1, <3>3, FS_Subset
      <4> QED  BY <1>1, <4>1, FS_Difference, FS_CardinalityType
    <3>5. Cardinality(Table') <= MaxSessions
      BY <1>1, <1>3, <2>1, <3>2, <3>4, SerializerAssumption DEF K
    <3> QED  BY <3>5 DEF TableBound
  <2>6. CASE ~(K <= Cardinality(E))
    <3>1. Victims = E
      <4>1. K > Cardinality(E)
        BY <2>1, <2>6
      <4> HIDE DEF E, K
      <4>2. \A r \in E : Cardinality(UpTo(older, E, r)) <= K
        BY <2>1, <2>3, <4>1
      <4> QED  BY <2>4, <4>2
    <3>2. \A r \in Kept : r \in Sessions /\ lockOf[r] \in Locks /\ locked[lockOf[r]]
      BY <3>1 DEF Evictable, Table, TypeOK
    <3> DEFINE f == [r \in Kept |-> CHOOSE u \in Tasks : InTurn(u) /\ lock[u] = lockOf[r]]
    <3>3. \A r \in Kept : \E u \in Tasks : InTurn(u) /\ lock[u] = lockOf[r]
      BY <3>2 DEF LockInv, NoAbandonedLock
    <3>4. \A r \in Kept : f[r] \in Tasks /\ InTurn(f[r]) /\ lock[f[r]] = lockOf[r]
      BY <3>3
    <3>5. \A r \in Kept : f[r] \in Tasks \ {t}
      BY <3>4 DEF InTurn
    <3>6. \A q, r \in Kept : f[q] = f[r] => q = r
      BY <3>2, <3>4, SerializerAssumption DEF CrossInv, TableInjective
    <3>7. f \in [Kept -> Tasks \ {t}]
      BY <3>5
    <3> HIDE DEF f, Kept
    <3>8. f \in Injection(Kept, Tasks \ {t})
      BY <3>6, <3>7 DEF Injection, IsInjective
    <3>9. IsFiniteSet(Tasks \ {t}) /\ Cardinality(Tasks \ {t}) = Cardinality(Tasks) - 1
      BY <1>1, FS_RemoveElement
    <3>10. Cardinality(Kept) <= Cardinality(Tasks) - 1
      BY <3>8, <3>9, FS_Injection
    <3>11. Cardinality(Table') <= Cardinality(Tasks)
      BY <1>1, <1>3, <3>10
    <3> QED  BY <3>11 DEF TableBound
  <2> QED  BY <2>5, <2>6
<1> QED  BY <1>4, <1>5

LEMMA BoundStep ==
    TypeOK /\ LockInv /\ CrossInv /\ Aged /\ TableBound /\ [Next]_vars => TableBound'
<1> SUFFICES ASSUME TypeOK, LockInv, CrossInv, Aged, TableBound, [Next]_vars
             PROVE  TableBound'
  OBVIOUS
<1>1. CASE lockOf' = lockOf
  BY <1>1 DEF TableBound, Table
<1>2. ASSUME NEW t \in Tasks, NEW s \in Sessions, Acquire(t, s)
      PROVE  TableBound'
  <2>1. PICK l \in Locks : LookupHit(s, l) \/ LookupMiss(s, l)
    BY <1>2 DEF Acquire, GetOrCreateLock
  <2>2. CASE LookupHit(s, l)
    BY <1>1, <2>2 DEF LookupHit
  <2>3. CASE LookupMiss(s, l)
    <3>1. pc[t] = "idle"
      BY <1>2 DEF Acquire
    <3> QED  BY <2>3, <3>1, MissBound
  <2> QED  BY <2>1, <2>2, <2>3
<1>3. ASSUME NEW t \in Tasks, TaskStep(t)
      PROVE  TableBound'
  BY <1>1, <1>2, <1>3, StepKeepsTable DEF KeepsTable, CrossInv
<1>4. CASE UNCHANGED vars
  BY <1>1, <1>4 DEF vars
<1> QED  BY <1>3, <1>4 DEF Next

\* The table outgrows its capacity only to hold sessions that are busy with as many
\* tasks (_get_or_create_lock), whatever its order and its capacity.
THEOREM TableBoundCorrect == Spec => []TableBound
<1>1. Init => TableBound
  <2> SUFFICES ASSUME Init  PROVE TableBound
    OBVIOUS
  <2>1. Table = {}
    BY DEF Init, Table
  <2> QED  BY <2>1, FS_EmptySet, SerializerAssumption DEF TableBound
<1> QED  BY <1>1, InitType, TypeStep, InitLock, LockStep, InitCross, CrossStep,
            InitAged, AgedStep, BoundStep, PTL DEF Spec

-----------------------------------------------------------------------------
(* Serial turns, as long as the table has room for every session             *)

Roomy == Cardinality(Sessions \ Bypassed) <= MaxSessions

\* Every task that closes over a lock closes over the lock its session has in
\* the table: what eviction breaks.
Tabled ==
    /\ Table \subseteq Sessions \ Bypassed
    /\ \A t \in Tasks : /\ lock[t] # NoLock => sess[t] \in Table
                        /\ lock[t] # NoLock => lockOf[sess[t]] = lock[t]

LEMMA InitTabled == Init => Tabled
BY DEF Init, Tabled, Table

\* With room for every session nothing is evicted.
LEMMA RoomyNoVictims ==
    ASSUME Roomy, TypeOK, Tabled, NEW s \in Sessions \ Bypassed, s \notin Table
    PROVE  Victims = {}
<1>1. /\ IsFiniteSet(Sessions \ Bypassed) /\ Table \subseteq Sessions \ Bypassed
  BY SerializerAssumption, FS_Subset DEF Tabled
<1>2. /\ Cardinality(Table) \in Nat /\ Cardinality(Sessions \ Bypassed) \in Nat
      /\ Cardinality(Table) <= Cardinality(Sessions \ Bypassed)
      /\ Cardinality(Table) = Cardinality(Sessions \ Bypassed) => Table = Sessions \ Bypassed
  BY <1>1, FS_Subset, FS_CardinalityType
<1>3. Cardinality(Table) < Cardinality(Sessions \ Bypassed)
  BY <1>2
<1>4. ~(Cardinality(Table) >= MaxSessions)
  BY <1>2, <1>3, SerializerAssumption DEF Roomy
<1> QED  BY <1>4 DEF Victims

LEMMA TabledStep == Roomy /\ TypeOK /\ Tabled /\ IdleNoLock /\ [Next]_vars => Tabled'
<1> SUFFICES ASSUME Roomy, TypeOK, Tabled, IdleNoLock, [Next]_vars  PROVE Tabled'
  OBVIOUS
<1>u. CASE UNCHANGED vars
  BY <1>u DEF vars, Tabled, Table
<1>n. ASSUME NEW t \in Tasks, TaskStep(t)  PROVE Tabled'
  <2>1. CASE KeepsTable
    BY <2>1 DEF KeepsTable, Tabled, Table
  <2>2. ASSUME NEW s \in Sessions, Acquire(t, s)  PROVE Tabled'
    <3>1. PICK l \in Locks : GetOrCreateLock(s, l) /\ lock' = [lock EXCEPT ![t] = l]
      BY <2>2, AcquireEffect
    <3>2. s \notin Bypassed /\ sess' = [sess EXCEPT ![t] = s]
      BY <2>2, AcquireEffect
    <3>3. l # NoLock
      BY SerializerAssumption
    <3>4. /\ lockOf'[s] = l /\ (s \in Table => lockOf[s] = l)
          /\ \A r \in Sessions \ {s} : lockOf'[r] = lockOf[r]
      <4>1. CASE LookupHit(s, l)
        BY <4>1 DEF LookupHit
      <4>2. CASE LookupMiss(s, l)
        <5>1. Victims = {}
          BY <3>2, <4>2, RoomyNoVictims DEF LookupMiss
        <5> QED  BY <4>2, <5>1 DEF LookupMiss
      <4> QED  BY <3>1, <4>1, <4>2 DEF GetOrCreateLock
    <3>5. Table' = Table \cup {s}
      BY <3>3, <3>4 DEF Table
    <3>6. ASSUME NEW u \in Tasks, lock'[u] # NoLock
          PROVE  sess'[u] \in Table' /\ lockOf'[sess'[u]] = lock'[u]
      <4>1. CASE u = t
        BY <4>1, <3>1, <3>2, <3>4, <3>5 DEF TypeOK
      <4>2. CASE u # t
        <5>1. lock'[u] = lock[u] /\ sess'[u] = sess[u]
          BY <4>2, <3>1, <3>2 DEF TypeOK
        <5>2. sess[u] \in Table /\ lockOf[sess[u]] = lock[u] /\ sess[u] \in Sessions
          BY <3>6, <5>1 DEF Tabled, Table
        <5> QED  BY <5>1, <5>2, <3>4, <3>5
      <4> QED  BY <4>1, <4>2
    <3> QED  BY <3>2, <3>5, <3>6 DEF Tabled
  <2> QED  BY <1>n, <2>1, <2>2, StepKeepsTable
<1> QED  BY <1>u, <1>n DEF Next

LEMMA SerialInv == TypeOK /\ LockInv /\ Tabled => SerialTurns
BY SerializerAssumption DEF LockInv, LockMutex, Placed, Tabled, SerialTurns, InTurn

\* The contract "requests within the same session are executed strictly
\* serially" holds for every task that got its lock, timeouts included, in a
\* worker that sees no more sessions than the table has room for.
THEOREM SerialWhenRoomy == Roomy => (Spec => []SerialTurns)
<1> SUFFICES ASSUME Roomy  PROVE Spec => []SerialTurns
  OBVIOUS
<1>1. TypeOK /\ Tabled /\ CrossInv /\ [Next]_vars => Tabled'
  BY TabledStep DEF CrossInv
<1> QED  BY <1>1, SerialInv, InitType, TypeStep, InitLock, LockStep, InitCross, CrossStep,
            InitTabled, PTL DEF Spec

-----------------------------------------------------------------------------
(* The serializer implements TurnQueue                                       *)

\* A step in which no other task's turn changes maps to a step of TurnQueue.
LEMMA MapStep ==
    ASSUME NEW t \in Tasks,
           \A u \in Tasks \ {t} : /\ InTurn(u)' <=> InTurn(u)
                                  /\ InTurn(u) => sess'[u] = sess[u],
           ~(InTurn(t) /\ InTurn(t)'),
           InTurn(t) => sess[t] \in Sessions,
           InTurn(t)' => sess'[t] \in Sessions \ Bypassed,
           SerialTurns'
    PROVE  [Turns!Next]_Holds
<1>0. NoSession \notin Sessions
  BY SerializerAssumption
<1>1. \A u \in Tasks \ {t} : Holds'[u] = Holds[u]
  BY DEF Holds
<1>2. CASE ~InTurn(t) /\ ~InTurn(t)'
  BY <1>1, <1>2 DEF Holds
<1>3. CASE InTurn(t)'
  <2>0. PICK s \in Sessions \ Bypassed : s = sess'[t]
    BY <1>3
  <2>1. Holds[t] = NoSession /\ Holds'[t] = s
    BY <1>3, <2>0 DEF Holds
  <2>2. \A u \in Tasks : Holds[u] # s
    <3> SUFFICES ASSUME NEW u \in Tasks \ {t}, InTurn(u), sess[u] = s  PROVE FALSE
      BY <1>0, <1>3, <2>1 DEF Holds
    <3> QED  BY <1>3, <2>0 DEF SerialTurns
  <2>3. Holds' = [Holds EXCEPT ![t] = s]
    BY <1>1, <2>1 DEF Holds
  <2>4. Turns!Begin(t, s)
    BY <2>1, <2>2, <2>3 DEF Turns!Begin, Turns!Free, Holds
  <2> QED  BY <2>4 DEF Turns!Next
<1>4. CASE InTurn(t)
  <2>1. Holds[t] # NoSession /\ Holds'[t] = NoSession
    BY <1>0, <1>4 DEF Holds
  <2>2. Holds' = [Holds EXCEPT ![t] = NoSession]
    BY <1>1, <2>1 DEF Holds
  <2>3. Turns!End(t)
    BY <2>1, <2>2 DEF Turns!End, Holds
  <2> QED  BY <2>3 DEF Turns!Next
<1> QED  BY <1>2, <1>3, <1>4

LEMMA InitMaps == Init => Turns!Init
BY DEF Init, Turns!Init, Holds, InTurn

\* A task that owns a lock has a session that is serialized.
LEMMA TurnSession ==
    ASSUME TypeOK, LockInv, Tabled, NEW t \in Tasks, InTurn(t)
    PROVE  sess[t] \in Sessions \ Bypassed
BY SerializerAssumption DEF LockInv, Placed, Tabled, InTurn

\* A task's step leaves the turns of the other tasks alone, and ends or starts
\* its own but not both.
OwnTurnOnly(t) ==
    /\ \A u \in Tasks \ {t} : /\ InTurn(u)' <=> InTurn(u)
                              /\ InTurn(u) => sess'[u] = sess[u]
    /\ ~(InTurn(t) /\ InTurn(t)')

LEMMA StepTurns ==
    ASSUME TypeOK, LockInv, NEW t \in Tasks, TaskStep(t)
    PROVE  OwnTurnOnly(t)
<1>0. ASSUME NEW l, AskForLock(t, l)
      PROVE  \A u \in Tasks \ {t} : pc'[u] = pc[u] /\ granted'[u] = granted[u]
  BY <1>0 DEF AskForLock, TakeFree, JoinQueue, TypeOK
<1>1. ASSUME NEW s \in Sessions, Bypass(t, s)  PROVE OwnTurnOnly(t)
  BY <1>1 DEF OwnTurnOnly, InTurn, TypeOK, Bypass
<1>2. ASSUME NEW s \in Sessions, Acquire(t, s)  PROVE OwnTurnOnly(t)
  <2>1. pc[t] = "idle" /\ sess' = [sess EXCEPT ![t] = s]
    BY <1>2 DEF Acquire
  <2>2. \A u \in Tasks \ {t} : pc'[u] = pc[u] /\ granted'[u] = granted[u]
    BY <1>2, <1>0 DEF Acquire, TypeOK
  <2> QED  BY <2>1, <2>2 DEF OwnTurnOnly, InTurn, TypeOK
<1>3. CASE RunAcquire(t)
  BY <1>3, <1>0 DEF OwnTurnOnly, InTurn, TypeOK, RunAcquire
<1>4. CASE Grant(t)
  BY <1>4 DEF OwnTurnOnly, InTurn, TypeOK, Grant
<1>5. CASE TimeOut(t)
  BY <1>5 DEF OwnTurnOnly, InTurn, TypeOK, TimeOut
<1>6. CASE Cancel(t)
  BY <1>6 DEF OwnTurnOnly, InTurn, TypeOK, Cancel
<1>7. CASE Unlock(t)
  BY <1>7 DEF OwnTurnOnly, InTurn, TypeOK, Unlock
<1>8. CASE Exit(t)
  BY <1>8 DEF OwnTurnOnly, InTurn, TypeOK, Exit
<1> QED  BY <1>1, <1>2, <1>3, <1>4, <1>5, <1>6, <1>7, <1>8 DEF TaskStep

LEMMA NextMaps ==
    TypeOK /\ LockInv /\ Tabled /\ (TypeOK /\ LockInv /\ Tabled)' /\ [Next]_vars
        => [Turns!Next]_Holds
<1> SUFFICES ASSUME TypeOK, LockInv, Tabled, (TypeOK /\ LockInv /\ Tabled)', [Next]_vars
             PROVE  [Turns!Next]_Holds
  OBVIOUS
<1>u. CASE UNCHANGED vars
  BY <1>u DEF vars, Holds, InTurn
<1>n. ASSUME NEW t \in Tasks, TaskStep(t)  PROVE [Turns!Next]_Holds
  <2>1. OwnTurnOnly(t)
    BY <1>n, StepTurns
  <2>2. InTurn(t) => sess[t] \in Sessions
    BY TurnSession
  <2>3. InTurn(t)' => sess'[t] \in Sessions \ Bypassed
    BY SerializerAssumption DEF LockInv, Placed, Tabled, InTurn
  <2>4. SerialTurns'
    BY SerializerAssumption DEF LockInv, LockMutex, Placed, Tabled, SerialTurns, InTurn
  <2> QED  BY <2>1, <2>2, <2>3, <2>4, MapStep DEF OwnTurnOnly
<1> QED  BY <1>u, <1>n DEF Next

\* In a worker whose table has room for every session, the serializer gives
\* its callers exactly what TurnQueue promises: acquire starts at most one turn
\* per session, and only its own unlock ends it.
THEOREM TurnQueueCorrect == Roomy => (Spec => ImplementsTurnQueue)
<1> SUFFICES ASSUME Roomy  PROVE Spec => Turns!Spec
  BY DEF ImplementsTurnQueue
<1>1. TypeOK /\ Tabled /\ CrossInv /\ [Next]_vars => Tabled'
  BY TabledStep DEF CrossInv
<1> QED  BY <1>1, InitType, TypeStep, InitLock, LockStep, InitCross, CrossStep,
            InitTabled, InitMaps, NextMaps, PTL DEF Spec, Turns!Spec
=============================================================================
