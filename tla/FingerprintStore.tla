---------------------------- MODULE FingerprintStore ----------------------------
(***************************************************************************)
(* The contents that references stand for: class FingerprintRepository     *)
(* (ctxguard/storage/repository_fingerprint.py) and the ContextTracker     *)
(* (ctxguard/core/context_tracker.py) it tells about every content.        *)
(*                                                                         *)
(* A worker keeps the contents it used last in memory and shares the table *)
(* fingerprints with the other workers.  Both hold the most recent ones    *)
(* only.  Compressors run in the worker's threads, several at a time, and  *)
(* nothing locks the memory: a thread may be interrupted between two       *)
(* operations on the tables in memory.                                     *)
(*                                                                         *)
(* An id is the hash of a content and stands for it.  Lookups name no      *)
(* session, which is how the gateway makes them.                           *)
(***************************************************************************)
EXTENDS Naturals, Sequences, FiniteSets

CONSTANTS
    Ids,          \* the first twelve digits of the hashes of the contents
    Summaries,    \* those that looks_like_compact_or_continuation_summary
    Workers, Threads,
    WorkerOf,     \* the worker of each thread
    NoId,         \* a thread that does nothing
    Configured,   \* max_records of the dedup configuration
    Default,      \* max_records of the compressors that do not pass one
    Threshold,    \* 100: a limit below it is enforced at every write
    Batch,        \* 50: else at every 50th
    MaxContexts,  \* max_contexts of the tracker
    MaxCalls,     \* bound: saves and lookups
    MaxNow,       \* bound on the clock, in milliseconds
    MaxRestarts   \* bound: restarts of workers

ASSUME FingerprintStoreAssumption ==
    /\ IsFiniteSet(Ids) /\ Summaries \subseteq Ids /\ NoId \notin Ids
    /\ WorkerOf \in [Threads -> Workers]
    /\ Configured \in Nat \ {0} /\ Default \in Nat \ {0}
    /\ Threshold \in Nat /\ Batch \in Nat \ {0} /\ MaxContexts \in Nat \ {0}
    /\ MaxCalls \in Nat /\ MaxNow \in Nat /\ MaxRestarts \in Nat

VARIABLES
    memory,      \* _memory_cache of each worker, oldest first
    limit,       \* max_records of each worker's repository
    writes,      \* _write_counter, modulo Batch
    contexts,    \* _contexts of each worker's tracker
    order,       \* _turn_order
    rows,        \* the table fingerprints, in the order of its row ids
    pc,          \* where each thread is
    id,          \* what it saves or looks up
    max,         \* the limit it saves with
    since,       \* per id: the others used since it was last stored, or with it
    now, calls, restarts

private == <<memory, limit, writes, contexts, order>>
thread == <<pc, id, max>>
bounds == <<now, calls, restarts>>
vars == <<private, rows, thread, since, bounds>>

Places == {"idle", "track", "place", "queue", "trim", "write", "read"}

Row == [id : Ids, last : Nat, hits : Nat]

\* What was used since an id was stored that never was.
Unknown == Ids \cup {NoId}

\* The variables have their types.
TypeOK ==
    /\ memory \in [Workers -> Seq(Ids)]
    /\ limit \in [Workers -> Nat \ {0}]
    /\ writes \in [Workers -> 0..(Batch - 1)]
    /\ contexts \in [Workers -> SUBSET (Ids \ Summaries)]
    /\ order \in [Workers -> Seq(Ids \ Summaries)]
    /\ rows \in Seq(Row)
    /\ pc \in [Threads -> Places]
    /\ id \in [Threads -> Ids \cup {NoId}]
    /\ max \in [Threads -> {Configured, Default}]
    /\ since \in [Ids -> SUBSET (Ids \cup {NoId})]
    /\ now \in 0..MaxNow /\ calls \in 0..MaxCalls /\ restarts \in 0..MaxRestarts

-----------------------------------------------------------------------------
(* Lists without repetitions, most recent last                               *)

Elements(s) == {s[i] : i \in DOMAIN s}

\* Its most recent k entries.
Recent(s, k) == IF Len(s) <= k THEN s ELSE SubSeq(s, Len(s) - k + 1, Len(s))

\* list.remove: the first occurrence.
Removed(s, i) ==
    LET k == CHOOSE j \in DOMAIN s : s[j] = i /\ \A l \in 1..(j - 1) : s[l] # i
    IN [j \in 1..(Len(s) - 1) |-> IF j < k THEN s[j] ELSE s[j + 1]]

\* The dictionary s when i is stored and moved to its end.
Touched(s, i) == Append(IF i \in Elements(s) THEN Removed(s, i) ELSE s, i)

-----------------------------------------------------------------------------
(* The table                                                                 *)

Stored == {rows[k].id : k \in DOMAIN rows}

\* The rows after id i is inserted, or its row updated.
Upserted(i) ==
    IF i \in Stored
    THEN [k \in DOMAIN rows |->
            IF rows[k].id = i THEN [id |-> i, last |-> now, hits |-> rows[k].hits + 1]
            ELSE rows[k]]
    ELSE Append(rows, [id |-> i, last |-> now, hits |-> 0])

\* Row a of rs goes before row b: the order of the eviction.
Before(rs, a, b) ==
    \/ rs[a].last < rs[b].last
    \/ rs[a].last = rs[b].last
       /\ (rs[a].hits < rs[b].hits \/ (rs[a].hits = rs[b].hits /\ a < b))

\* The k-th of the places ps.
Nth(ps, k) == CHOOSE a \in ps : Cardinality({b \in ps : b <= a}) = k

\* The rows of rs at the places ps, in their order.
Selected(rs, ps) == [k \in 1..Cardinality(ps) |-> rs[Nth(ps, k)]]

\* A mutation of Evicted: the most recent rows go first.
EvictedBackwards(rs, k) ==
    Selected(rs, {a \in DOMAIN rs : Cardinality({b \in DOMAIN rs : Before(rs, b, a)}) < k})

\* rs without the oldest rows beyond k.
Evicted(rs, k) ==
    Selected(rs, {a \in DOMAIN rs : Cardinality({b \in DOMAIN rs : Before(rs, a, b)}) < k})

\* Others that were used in this very millisecond.
Concurrent(i) == {rows[k].id : k \in {j \in DOMAIN rows : rows[j].last = now}} \ {i}

\* i is used by someone: it is younger now than what was stored before.
Uses(i) == [j \in Ids |-> IF j = i THEN since[j] ELSE since[j] \cup {i}]

-----------------------------------------------------------------------------
(* save_fingerprint                                                          *)

Goto(t, place) == pc' = [pc EXCEPT ![t] = place]

\* A mutation of Continue: an id is queued before it is in the table.
ContinueSwapped(t) ==
    Goto(t, CASE pc[t] = "track" -> "queue" [] pc[t] = "queue" -> "place"
              [] pc[t] = "place" -> "trim" [] OTHER -> "write")

\* The order of the operations of track.
Continue(t) ==
    Goto(t, CASE pc[t] = "track" -> "place" [] pc[t] = "place" -> "queue"
              [] pc[t] = "queue" -> "trim" [] OTHER -> "write")

Lesser(a, b) == IF a <= b THEN a ELSE b

Finish(t) == /\ Goto(t, "idle")
             /\ id' = [id EXCEPT ![t] = NoId]
             /\ UNCHANGED max

\* A mutation of Save: summaries are tracked like any other content.
SaveAny(t, i, m) ==
    LET w == WorkerOf[t]
    IN /\ pc[t] = "idle"
       /\ calls < MaxCalls
       /\ calls' = calls + 1
       /\ limit' = [limit EXCEPT ![w] = Lesser(@, m)]
       /\ memory' = [memory EXCEPT ![w] = Recent(Touched(@, i), limit'[w])]
       /\ id' = [id EXCEPT ![t] = i]
       /\ max' = [max EXCEPT ![t] = m]
       /\ Goto(t, "track")
       /\ UNCHANGED <<writes, contexts, order, rows, since, now, restarts>>

\* A compressor saves what it folds: the worker's memory first.
Save(t, i, m) ==
    LET w == WorkerOf[t]
    IN /\ pc[t] = "idle"
       /\ calls < MaxCalls
       /\ calls' = calls + 1
       /\ limit' = [limit EXCEPT ![w] = Lesser(@, m)]
       /\ memory' = [memory EXCEPT ![w] = Recent(Touched(@, i), limit'[w])]
       /\ id' = [id EXCEPT ![t] = i]
       /\ max' = [max EXCEPT ![t] = m]
       /\ Goto(t, IF i \in Summaries THEN "write" ELSE "track")
       /\ UNCHANGED <<writes, contexts, order, rows, since, now, restarts>>

\* ContextTracker.track: an id that is tracked leaves the queue.
Forget(t) ==
    LET w == WorkerOf[t]
    IN /\ pc[t] = "track"
       /\ Continue(t)
       /\ order' = [order EXCEPT ![w] =
                        IF id[t] \in contexts[w] /\ id[t] \in Elements(@)
                        THEN Removed(@, id[t]) ELSE @]
       /\ UNCHANGED <<memory, limit, writes, contexts, rows, id, max, since, bounds>>

Place(t) ==
    LET w == WorkerOf[t]
    IN /\ pc[t] = "place"
       /\ Continue(t)
       /\ contexts' = [contexts EXCEPT ![w] = @ \cup {id[t]}]
       /\ UNCHANGED <<memory, limit, writes, order, rows, id, max, since, bounds>>

Enqueue(t) ==
    LET w == WorkerOf[t]
    IN /\ pc[t] = "queue"
       /\ Continue(t)
       /\ order' = [order EXCEPT ![w] = Append(@, id[t])]
       /\ UNCHANGED <<memory, limit, writes, contexts, rows, id, max, since, bounds>>

\* The oldest goes while there are too many.
Trim(t) ==
    LET w == WorkerOf[t]
    IN /\ pc[t] = "trim"
       /\ IF Cardinality(contexts[w]) > MaxContexts /\ order[w] # <<>>
          THEN /\ order' = [order EXCEPT ![w] = Tail(@)]
               /\ contexts' = [contexts EXCEPT ![w] = @ \ {Head(order[w])}]
               /\ UNCHANGED pc
          ELSE Continue(t) /\ UNCHANGED <<order, contexts>>
       /\ UNCHANGED <<memory, limit, writes, rows, id, max, since, bounds>>

\* The row is written, and now and then the table is cut to its limit.
Write(t) ==
    LET w == WorkerOf[t]
        count == (writes[w] + 1) % Batch
        full == max[t] < Threshold \/ count = 0
        written == Upserted(id[t])
    IN /\ pc[t] = "write"
       /\ writes' = [writes EXCEPT ![w] = count]
       /\ rows' = IF full THEN Evicted(written, max[t]) ELSE written
       /\ since' = [Uses(id[t]) EXCEPT ![id[t]] = Concurrent(id[t])]
       /\ Finish(t)
       /\ UNCHANGED <<memory, limit, contexts, order, bounds>>

\* The table cannot be written: the request fails, what is in memory stays.
WriteFails(t) ==
    /\ pc[t] = "write"
    /\ Finish(t)
    /\ UNCHANGED <<private, rows, since, bounds>>

-----------------------------------------------------------------------------
(* get_content                                                               *)

\* The row of a content that was found in memory is refreshed, if the limit is
\* small.
Refreshed(w, i) ==
    IF limit[w] < Threshold /\ i \in Stored THEN Upserted(i) ELSE rows

\* Memory answers.
Find(t, i) ==
    LET w == WorkerOf[t]
    IN /\ pc[t] = "idle"
       /\ calls < MaxCalls
       /\ calls' = calls + 1
       /\ i \in Elements(memory[w])
       /\ memory' = [memory EXCEPT ![w] = Touched(@, i)]
       /\ rows' = Refreshed(w, i)
       /\ since' = IF rows' # rows THEN Uses(i) ELSE since
       /\ UNCHANGED <<limit, writes, contexts, order, thread, now, restarts>>

\* Memory does not know i; it is searched again for an id that begins like it.
Scan(t, i) ==
    /\ pc[t] = "idle"
    /\ calls < MaxCalls
    /\ calls' = calls + 1
    /\ i \notin Elements(memory[WorkerOf[t]])
    /\ Goto(t, "read")
    /\ id' = [id EXCEPT ![t] = i]
    /\ UNCHANGED <<private, rows, max, since, now, restarts>>

\* The table answers, and memory keeps the content.
Read(t) ==
    LET w == WorkerOf[t]
        known == id[t] \in Elements(memory[w])
        kept == IF known THEN memory[w] ELSE Append(memory[w], id[t])
    IN /\ pc[t] = "read"
       /\ memory' = [memory EXCEPT ![w] =
                        IF id[t] \notin Stored THEN @
                        ELSE IF Len(kept) > limit[w] THEN Tail(kept) ELSE kept]
       /\ Finish(t)
       /\ UNCHANGED <<limit, writes, contexts, order, rows, since, bounds>>

-----------------------------------------------------------------------------
Tick ==
    /\ now < MaxNow
    /\ now' = now + 1
    /\ UNCHANGED <<private, rows, thread, since, calls, restarts>>

\* A worker restarts: its threads and what it had in memory are gone.
Restart(w) ==
    /\ restarts < MaxRestarts
    /\ restarts' = restarts + 1
    /\ memory' = [memory EXCEPT ![w] = <<>>]
    /\ limit' = [limit EXCEPT ![w] = Configured]
    /\ writes' = [writes EXCEPT ![w] = 0]
    /\ contexts' = [contexts EXCEPT ![w] = {}]
    /\ order' = [order EXCEPT ![w] = <<>>]
    /\ pc' = [t \in Threads |-> IF WorkerOf[t] = w THEN "idle" ELSE pc[t]]
    /\ id' = [t \in Threads |-> IF WorkerOf[t] = w THEN NoId ELSE id[t]]
    /\ UNCHANGED <<max, rows, since, now, calls>>

Init ==
    /\ memory = [w \in Workers |-> <<>>]
    /\ limit = [w \in Workers |-> Configured]
    /\ writes = [w \in Workers |-> 0]
    /\ contexts = [w \in Workers |-> {}]
    /\ order = [w \in Workers |-> <<>>]
    /\ rows = <<>>
    /\ pc = [t \in Threads |-> "idle"]
    /\ id = [t \in Threads |-> NoId]
    /\ max = [t \in Threads |-> Default]
    /\ since = [i \in Ids |-> Unknown]
    /\ now = 0 /\ calls = 0 /\ restarts = 0

Next ==
    \/ \E t \in Threads :
        \/ \E i \in Ids : \/ \E m \in {Configured, Default} : Save(t, i, m)
                          \/ Find(t, i)
                          \/ Scan(t, i)
        \/ Forget(t) \/ Place(t) \/ Enqueue(t) \/ Trim(t)
        \/ Write(t) \/ WriteFails(t) \/ Read(t)
    \/ \E w \in Workers : Restart(w)
    \/ Tick

Spec == Init /\ [][Next]_vars

-----------------------------------------------------------------------------
(* Properties                                                                *)

\* A content that was stored is in the table, for every worker to expand, as long
\* as the others that were used since, or in the same millisecond, do not fill it:
\* whatever is interrupted, fails or restarts.
SharedRecall ==
    \A i \in Ids :
        NoId \notin since[i] /\ Cardinality(since[i]) < Lesser(Configured, Default)
        => i \in Stored

Quiet(w) == \A t \in Threads : WorkerOf[t] = w => pc[t] \in {"idle", "write", "read"}

\* Whatever the threads of a worker did to the tracker between two of each other's
\* operations: when none is in it, it holds no more than max_contexts contexts,
\* each of them queued to go.
TrackerBounded ==
    \A w \in Workers : Quiet(w) =>
        /\ contexts[w] \subseteq Elements(order[w])
        /\ Cardinality(contexts[w]) <= MaxContexts
=============================================================================
