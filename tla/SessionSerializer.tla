--------------------------- MODULE SessionSerializer ---------------------------
(***************************************************************************)
(* The per-session queue of turns: class SessionSerializer of              *)
(* ctxguard/core/guards/session_serializer.py.                             *)
(*                                                                         *)
(* One event loop runs many request tasks.  A task looks its session up in *)
(* a bounded LRU table of asyncio locks, waits for the lock under a        *)
(* timeout, runs its turn (with the lock, or without it when the wait      *)
(* timed out) and calls an idempotent unlock callback.                     *)
(*                                                                         *)
(* A step is the code a task runs between two points where it may yield to *)
(* the event loop.  _get_or_create_lock has no await inside its critical   *)
(* section, so _global_lock is never contended and the lookup is a step.   *)
(* _in_flight is never incremented by the code: the eviction guard on it   *)
(* always holds and it has no variable here.                               *)
(***************************************************************************)
EXTENDS Naturals, FiniteSets

CONSTANTS
    Tasks,        \* request tasks of one worker process
    Sessions,     \* session ids the requests may carry
    Bypassed,     \* the ids "" and "default", which are not serialized
    Locks,        \* asyncio.Lock objects
    NoLock,       \* no object: a session without a lock, an idle task
    NoSession,    \* an idle task works for no session
    MaxSessions,  \* _max_sessions, the capacity of the lock table
    EagerWait     \* asyncio.wait_for runs lock.acquire() inline (3.12 and
                  \* later); before, in a task the loop schedules later

ASSUME SerializerAssumption ==
    /\ IsFiniteSet(Tasks) /\ IsFiniteSet(Sessions)
    /\ Bypassed \subseteq Sessions
    /\ NoLock \notin Locks
    /\ NoSession \notin Sessions
    /\ MaxSessions \in Nat \ {0}
    /\ EagerWait \in BOOLEAN

VARIABLES
    lockOf,   \* _locks: the lock of each session of the table, else NoLock
    older,    \* the order of _locks: <<r, s>> when r stands before s
    locked,   \* asyncio.Lock._locked of each lock
    woken,    \* waiters whose future release() has completed
    before,   \* arrival order of the waiters of asyncio.Lock
    pc,       \* where each task is in acquire / its turn / unlock
    sess,     \* session_id of the call to acquire
    lock,     \* the lock the task's acquire and its callback close over
    granted   \* the callback's "locked": this task took the lock

vars == <<lockOf, older, locked, woken, before, pc, sess, lock, granted>>

-----------------------------------------------------------------------------
(* Types                                                                     *)

\* "idle": no request.   "fetched": has the lock object, not yet asked for it.
\* "waiting": in the lock's queue.   "turn": acquire has returned.
\* "released": the callback ran once; serialize() still calls it again.
Phases == {"idle", "fetched", "waiting", "turn", "released"}

\* The variables have their types, and the ids that are not serialized are not
\* in the table.
TypeOK ==
    /\ lockOf \in [Sessions -> Locks \cup {NoLock}]
    /\ \A s \in Bypassed : lockOf[s] = NoLock
    /\ older \in SUBSET (Sessions \X Sessions)
    /\ locked \in [Locks -> BOOLEAN]
    /\ woken \in SUBSET Tasks
    /\ before \in SUBSET (Tasks \X Tasks)
    /\ pc \in [Tasks -> Phases]
    /\ sess \in [Tasks -> Sessions \cup {NoSession}]
    /\ lock \in [Tasks -> Locks \cup {NoLock}]
    /\ granted \in [Tasks -> BOOLEAN]

-----------------------------------------------------------------------------
(* Ordered tables and queues: a set of members and the relation "stands      *)
(* before" on them.                                                          *)

Forget(order, x) == {p \in order : p[1] # x /\ p[2] # x}

MoveToEnd(order, members, x) == Forget(order, x) \cup ((members \ {x}) \X {x})

-----------------------------------------------------------------------------
(* The lock table                                                            *)

Table == {s \in Sessions : lockOf[s] # NoLock}

Evictable(s) == s \in Table /\ ~locked[lockOf[s]]

\* The while loop removes the oldest evictable session until there is room
\* for one more or none is evictable: of the evictable ones, in order, the
\* first Cardinality(Table) + 1 - MaxSessions.
EvictedUpTo(s) ==
    {r \in Sessions : Evictable(r) /\ (r = s \/ <<r, s>> \in older)}

\* Mutations of Victims: a capacity test that is off by one, and a scan that
\* gives up when the oldest session is busy.
VictimsEarly ==
    {s \in Sessions :
        /\ Cardinality(Table) + 1 >= MaxSessions
        /\ Evictable(s)
        /\ Cardinality(EvictedUpTo(s)) + MaxSessions <= Cardinality(Table) + 2}

VictimsOldestOnly ==
    {s \in Sessions :
        /\ Cardinality(Table) >= MaxSessions
        /\ Evictable(s)
        /\ \A r \in Table : r = s \/ <<s, r>> \in older}

Victims ==
    {s \in Sessions :
        /\ Cardinality(Table) >= MaxSessions
        /\ Evictable(s)
        /\ Cardinality(EvictedUpTo(s)) + MaxSessions <= Cardinality(Table) + 1}

\* An object nothing refers to stands for the lock asyncio.Lock() creates.
Unreferenced(l) == /\ \A s \in Sessions : lockOf[s] # l
                   /\ \A t \in Tasks : lock[t] # l

NewLock == CHOOSE l \in Locks : Unreferenced(l)

LookupHit(s, l) ==
    /\ s \in Table
    /\ l = lockOf[s]
    /\ older' = MoveToEnd(older, Table, s)
    /\ UNCHANGED lockOf

\* A mutation of LookupMiss: the slot of the evicted session is recycled.
LookupMissRecycle(s, l) ==
    /\ s \notin Table
    /\ Unreferenced(l)
    /\ lockOf' = [r \in Sessions |-> IF r = s \/ r \in Victims THEN l
                                     ELSE lockOf[r]]
    /\ older' = MoveToEnd(older, Table, s)

LookupMiss(s, l) ==
    /\ s \notin Table
    /\ Unreferenced(l)
    /\ l = NewLock
    /\ lockOf' = [r \in Sessions |-> IF r = s THEN l
                                     ELSE IF r \in Victims THEN NoLock
                                     ELSE lockOf[r]]
    /\ older' = {p \in MoveToEnd(older, Table, s) :
                    p[1] \notin Victims /\ p[2] \notin Victims}

GetOrCreateLock(s, l) == LookupHit(s, l) \/ LookupMiss(s, l)

-----------------------------------------------------------------------------
(* asyncio.Lock                                                              *)

Waiting == {t \in Tasks : pc[t] = "waiting"}

Queue(l) == {t \in Waiting : lock[t] = l}

\* The first waiter of l once "gone" has left the queue: a set of at most one.
NextUp(l, gone) ==
    {u \in Queue(l) \ {gone} :
        \A v \in Queue(l) \ {gone} : v = u \/ <<u, v>> \in before}

\* lock.acquire(): the lock is free and nobody queues for it.
TakeFree(t, l) ==
    /\ ~locked[l]
    /\ Queue(l) = {}
    /\ locked' = [locked EXCEPT ![l] = TRUE]
    /\ granted' = [granted EXCEPT ![t] = TRUE]
    /\ pc' = [pc EXCEPT ![t] = "turn"]
    /\ UNCHANGED <<before, woken>>

\* lock.acquire(): otherwise the task joins the end of the queue.
JoinQueue(t, l) ==
    /\ locked[l] \/ Queue(l) # {}
    /\ before' = MoveToEnd(before, Waiting, t)
    /\ pc' = [pc EXCEPT ![t] = "waiting"]
    /\ UNCHANGED <<locked, granted, woken>>

AskForLock(t, l) == TakeFree(t, l) \/ JoinQueue(t, l)

\* A waiter that is cancelled hands a wake-up it may have received on.
LeaveQueue(t) ==
    /\ before' = Forget(before, t)
    /\ woken' = (woken \ {t}) \cup
                (IF pc[t] = "waiting" /\ ~locked[lock[t]]
                 THEN NextUp(lock[t], t) ELSE {})
    /\ UNCHANGED locked

-----------------------------------------------------------------------------
(* Steps of a task                                                           *)

\* acquire("") and acquire("default") return a callback that does nothing.
Bypass(t, s) ==
    /\ pc[t] = "idle"
    /\ s \in Bypassed
    /\ sess' = [sess EXCEPT ![t] = s]
    /\ pc' = [pc EXCEPT ![t] = "turn"]
    /\ UNCHANGED <<lockOf, older, locked, woken, before, lock, granted>>

\* A mutation of Acquire: requests without a session's id are serialized too.
AcquireAny(t, s) ==
    /\ pc[t] = "idle"
    /\ sess' = [sess EXCEPT ![t] = s]
    /\ \E l \in Locks :
        /\ GetOrCreateLock(s, l)
        /\ lock' = [lock EXCEPT ![t] = l]
        /\ IF EagerWait
           THEN AskForLock(t, l)
           ELSE /\ pc' = [pc EXCEPT ![t] = "fetched"]
                /\ UNCHANGED <<locked, woken, before, granted>>

\* acquire(s), up to its first point of suspension.
Acquire(t, s) ==
    /\ pc[t] = "idle"
    /\ s \in Sessions \ Bypassed
    /\ sess' = [sess EXCEPT ![t] = s]
    /\ \E l \in Locks :
        /\ GetOrCreateLock(s, l)
        /\ lock' = [lock EXCEPT ![t] = l]
        /\ IF EagerWait
           THEN AskForLock(t, l)
           ELSE /\ pc' = [pc EXCEPT ![t] = "fetched"]
                /\ UNCHANGED <<locked, woken, before, granted>>

\* The task wait_for scheduled for lock.acquire() runs (before 3.12).
RunAcquire(t) ==
    /\ pc[t] = "fetched"
    /\ AskForLock(t, lock[t])
    /\ UNCHANGED <<lockOf, older, sess, lock>>

\* A woken waiter resumes and owns the lock.
Grant(t) ==
    /\ pc[t] = "waiting"
    /\ t \in woken
    /\ locked' = [locked EXCEPT ![lock[t]] = TRUE]
    /\ granted' = [granted EXCEPT ![t] = TRUE]
    /\ pc' = [pc EXCEPT ![t] = "turn"]
    /\ woken' = woken \ {t}
    /\ before' = Forget(before, t)
    /\ UNCHANGED <<lockOf, older, sess, lock>>

\* The wait times out: the turn runs without the lock.
TimeOut(t) ==
    /\ pc[t] \in {"fetched", "waiting"}
    /\ LeaveQueue(t)
    /\ pc' = [pc EXCEPT ![t] = "turn"]
    /\ UNCHANGED <<lockOf, older, sess, lock, granted>>

\* The request task itself is cancelled while it waits.
Cancel(t) ==
    /\ pc[t] \in {"fetched", "waiting"}
    /\ LeaveQueue(t)
    /\ pc' = [pc EXCEPT ![t] = "idle"]
    /\ sess' = [sess EXCEPT ![t] = NoSession]
    /\ lock' = [lock EXCEPT ![t] = NoLock]
    /\ UNCHANGED <<lockOf, older, granted>>

\* Mutations of unlock(): without the "released" flag, and with the test of
\* lock.locked() inverted.
UnlockTwice(t) ==
    IF granted[t] /\ locked[lock[t]]
    THEN /\ locked' = [locked EXCEPT ![lock[t]] = FALSE]
         /\ woken' = woken \cup NextUp(lock[t], t)
    ELSE UNCHANGED <<locked, woken>>

UnlockInverted(t) ==
    IF pc[t] = "turn" /\ granted[t] /\ ~locked[lock[t]]
    THEN /\ locked' = [locked EXCEPT ![lock[t]] = FALSE]
         /\ woken' = woken \cup NextUp(lock[t], t)
    ELSE UNCHANGED <<locked, woken>>

\* The body of unlock(): a no-op from its second call on, and for a task that
\* never took the lock.
CallUnlock(t) ==
    IF pc[t] = "turn" /\ granted[t] /\ locked[lock[t]]
    THEN /\ locked' = [locked EXCEPT ![lock[t]] = FALSE]
         /\ woken' = woken \cup NextUp(lock[t], t)
    ELSE UNCHANGED <<locked, woken>>

\* The turn ends and its owner calls the callback.
Unlock(t) ==
    /\ pc[t] = "turn"
    /\ CallUnlock(t)
    /\ pc' = [pc EXCEPT ![t] = "released"]
    /\ UNCHANGED <<lockOf, older, before, sess, lock, granted>>

\* serialize() calls the callback again on exit; then the task is gone.
Exit(t) ==
    /\ pc[t] = "released"
    /\ CallUnlock(t)
    /\ pc' = [pc EXCEPT ![t] = "idle"]
    /\ sess' = [sess EXCEPT ![t] = NoSession]
    /\ lock' = [lock EXCEPT ![t] = NoLock]
    /\ granted' = [granted EXCEPT ![t] = FALSE]
    /\ UNCHANGED <<lockOf, older, before>>

-----------------------------------------------------------------------------
Init ==
    /\ lockOf = [s \in Sessions |-> NoLock]
    /\ older = {}
    /\ locked = [l \in Locks |-> FALSE]
    /\ woken = {}
    /\ before = {}
    /\ pc = [t \in Tasks |-> "idle"]
    /\ sess = [t \in Tasks |-> NoSession]
    /\ lock = [t \in Tasks |-> NoLock]
    /\ granted = [t \in Tasks |-> FALSE]

TaskStep(t) ==
    \/ \E s \in Sessions : Bypass(t, s) \/ Acquire(t, s)
    \/ RunAcquire(t)
    \/ Grant(t)
    \/ TimeOut(t)
    \/ Cancel(t)
    \/ Unlock(t)
    \/ Exit(t)

Next == \E t \in Tasks : TaskStep(t)

Spec == Init /\ [][Next]_vars

\* The event loop runs every ready task, and every turn ends: upstream calls
\* have read timeouts.  Requests, timeouts and cancellations are never owed.
Fairness ==
    \A t \in Tasks : /\ WF_vars(RunAcquire(t))
                     /\ WF_vars(Grant(t))
                     /\ WF_vars(Unlock(t))
                     /\ WF_vars(Exit(t))

FairSpec == Spec /\ Fairness

-----------------------------------------------------------------------------
(* Properties                                                                *)

\* The task is in its turn and owns the lock it fetched.
InTurn(t) == pc[t] = "turn" /\ granted[t]

\* Two tasks never own one lock object, whatever was evicted, timed out,
\* cancelled or unlocked twice (acquire and unlock, lines 61-105).
LockMutex ==
    \A t, u \in Tasks : InTurn(t) /\ InTurn(u) /\ lock[t] = lock[u] => t = u

\* A lock is held only while a task is in its turn with it: neither a timeout
\* nor a cancellation leaves behind a lock nobody will release.
NoAbandonedLock ==
    \A l \in Locks : locked[l] => \E t \in Tasks : InTurn(t) /\ lock[t] = l

\* Sessions do not block one another: a lock a task waits for or owns is never
\* the table's lock of another session.
NoCrossSessionLock ==
    \A t \in Tasks, s \in Sessions :
        lock[t] # NoLock /\ lock[t] = lockOf[s] => sess[t] = s

\* The class's contract (lines 23-25): the turns of a session that were given
\* its lock are strictly serial.
SerialTurns ==
    \A t, u \in Tasks : InTurn(t) /\ InTurn(u) /\ sess[t] = sess[u] => t = u

\* The session whose turn each task holds.
Holds == [t \in Tasks |-> IF InTurn(t) THEN sess[t] ELSE NoSession]

Turns == INSTANCE TurnQueue WITH Sessions <- Sessions \ Bypassed, holds <- Holds

\* The same contract as a specification: at every step the serializer hands
\* out, or takes back, the turn of one session, and never one that is taken.
ImplementsTurnQueue == Turns!Spec

\* The table outgrows its capacity only to hold sessions that are busy, so it
\* never holds more than the capacity or one entry per concurrent task.
TableBound ==
    \/ Cardinality(Table) <= MaxSessions
    \/ Cardinality(Table) <= Cardinality(Tasks)

\* A task that asked for a lock is served or gives up, with no help from the
\* timeout: no wake-up is lost.
EventuallyServed ==
    \A t \in Tasks :
        pc[t] \in {"fetched", "waiting"} ~> pc[t] \in {"turn", "idle"}
=============================================================================
