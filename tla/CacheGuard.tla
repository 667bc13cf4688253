------------------------------ MODULE CacheGuard ------------------------------
(***************************************************************************)
(* The prefix state of one session: class CacheGuard                       *)
(* (ctxguard/core/guards/cache_guard.py) with the lineage trackers and the *)
(* replay of ctxguard/core/guards/prefix_tracker.py, as                    *)
(* CompressionPipeline.process_sync and the router's handlers use them.    *)
(*                                                                         *)
(* Conversations that share a session id are served by several worker      *)
(* processes.  A worker keeps in memory what the session last forwarded,   *)
(* and shares it with the others through the session's row in the table    *)
(* session_cache.  A turn synchronises the worker's memory with the row,   *)
(* finds the conversation's lineage, freezes the leading messages that     *)
(* were forwarded before and replays the bytes they were forwarded in, and *)
(* compresses the rest.  When upstream has answered, the turn is recorded. *)
(*                                                                         *)
(* A message is atomic here: it is forwarded in one of a few forms, and a  *)
(* conversation is the list of the messages its client sends, in which     *)
(* each request is a prefix at least as long as the last one.  A client    *)
(* that edits its history is another conversation with the same beginning. *)
(***************************************************************************)
EXTENDS Naturals, Sequences, FiniteSets

CONSTANTS
    Script,          \* the messages of each conversation of the session
    SystemMsgs,      \* those with the role system or developer
    Forms, Raw,      \* forms the compressors give a message; Raw: untouched
    NoMessage,       \* no system message is frozen
    Workers,         \* worker processes
    NoWorker,        \* serves no request
    FreezeMessages,  \* freeze_prefix_rounds * 2
    MaxLineages,     \* max_lineages_per_session
    TTL,             \* get_cache_ttl(): idle for longer, upstream has forgotten
    Expiry,          \* session_ttl_seconds of a lineage tracker
    MaxNow,          \* bound on the clock
    MaxTurns,        \* bound: requests that arrive
    MaxTimeouts,     \* bound: turns that run without the session's lock
    MaxRestarts      \* bound: restarts of workers

Conversations == DOMAIN Script
Messages == UNION {{Script[c][i] : i \in DOMAIN Script[c]} : c \in Conversations}

ASSUME CacheGuardAssumption ==
    /\ \A c \in Conversations : Script[c] \in Seq(Messages) /\ Script[c] # <<>>
    /\ \A c \in Conversations : \A i \in 2..Len(Script[c]) :
            Script[c][i] \notin SystemMsgs
    /\ NoMessage \notin Messages
    /\ Raw \in Forms
    /\ NoWorker \notin Workers
    /\ FreezeMessages \in Nat /\ MaxLineages \in Nat \ {0}
    /\ TTL \in Nat /\ Expiry \in Nat /\ MaxNow \in Nat
    /\ MaxTurns \in Nat /\ MaxTimeouts \in Nat /\ MaxRestarts \in Nat

VARIABLES
    fwd,       \* _last_forwarded_messages of the session, in each worker
    orig,      \* _last_original_messages
    frozen,    \* _frozen_system_messages
    trackers,  \* SessionTrackerStore: lineage key -> tracker, in each worker
    pending,   \* _pending_trackers
    last,      \* session_last_activity: no time, or one
    row,       \* the session's row in session_cache
    phase,     \* "idle", "queued" for the session's turn, or "sent" upstream
    at,        \* the worker that serves the conversation's request
    n,         \* how many messages its latest request has
    overdue,   \* idle_seconds > ttl, as read when the request arrived
    lineage,   \* the lineage its turn was resolved to
    out,       \* what its turn forwarded
    wire,      \* what its last turn forwarded and the next is to repeat
    now, turns, timeouts, restarts

memory == <<fwd, orig, frozen, trackers, pending, last>>
request == <<phase, at, n, overdue, lineage, out>>
bounds == <<now, turns, timeouts, restarts>>
vars == <<memory, row, request, wire, bounds>>

\* Lineage keys: the bare session id, "<session id>\0<n>", "...\0overflow".
Bare == 0
Overflow == MaxLineages + 1
Keys == 0..Overflow
NoKey == Overflow + 1    \* no tracker
Swept == Overflow + 2    \* one that the store no longer holds

History == Seq(Messages)
Forwarded == Seq(Messages \X Forms)
Tracker == [chain : History, used : BOOLEAN, fwd : Forwarded, seen : Nat]
Row == [fwd : Forwarded, orig : Forwarded, frozen : Messages \cup {NoMessage}]
EmptyRow == [fwd |-> <<>>, orig |-> <<>>, frozen |-> NoMessage]

\* The variables have their types.
TypeOK ==
    /\ fwd \in [Workers -> Forwarded]
    /\ orig \in [Workers -> Forwarded]
    /\ frozen \in [Workers -> Messages \cup {NoMessage}]
    /\ DOMAIN trackers = Workers
    /\ \A w \in Workers : /\ DOMAIN trackers[w] \subseteq Keys
                          /\ \A k \in DOMAIN trackers[w] : trackers[w][k] \in Tracker
    /\ pending \in [Workers -> Keys \cup {NoKey, Swept}]
    /\ last \in [Workers -> SUBSET Nat]
    /\ row \in Row
    /\ phase \in [Conversations -> {"idle", "queued", "sent"}]
    /\ at \in [Conversations -> Workers \cup {NoWorker}]
    /\ n \in [Conversations -> Nat]
    /\ overdue \in [Conversations -> BOOLEAN]
    /\ lineage \in [Conversations -> Keys \cup {NoKey}]
    /\ out \in [Conversations -> Forwarded]
    /\ wire \in [Conversations -> Forwarded]
    /\ now \in 0..MaxNow /\ turns \in 0..MaxTurns
    /\ timeouts \in 0..MaxTimeouts /\ restarts \in 0..MaxRestarts

-----------------------------------------------------------------------------
(* Memory and row: _sync_session_from_db and _sync_session_to_db             *)

\* A mutation of SyncedFwd: what is in memory is never replaced.
SyncedFwdL1(w) == IF fwd[w] # <<>> THEN fwd[w] ELSE row.fwd

SyncedFwd(w) ==
    IF row.fwd # <<>> /\ Len(row.fwd) >= Len(fwd[w]) THEN row.fwd ELSE fwd[w]

SyncedOrig(w) == IF row.orig # <<>> THEN row.orig ELSE orig[w]

SyncedFrozen(w) == IF row.frozen # NoMessage THEN row.frozen ELSE frozen[w]

SyncFromDb(w) ==
    /\ fwd' = [fwd EXCEPT ![w] = SyncedFwd(w)]
    /\ orig' = [orig EXCEPT ![w] = SyncedOrig(w)]

\* The upsert keeps a column for which the worker has nothing.
SyncToDb(f, o, s) ==
    row' = [fwd |-> IF f # <<>> THEN f ELSE row.fwd,
            orig |-> IF o # <<>> THEN o ELSE row.orig,
            frozen |-> IF s # NoMessage THEN s ELSE row.frozen]

-----------------------------------------------------------------------------
(* Lineages: SessionTrackerStore.resolve_tracker                             *)

Family(w) == DOMAIN trackers[w] \ {Overflow}

StartsWith(h, chain) ==
    /\ Len(chain) <= Len(h)
    /\ \A i \in 1..Len(chain) : h[i] = chain[i]

Matches(w, h) == {k \in Family(w) : StartsWith(h, trackers[w][k].chain)}

\* k is the longest lineage that h continues; without one, the bare id of an
\* empty family, a new key, or the tracker that conversations over the cap share.
ResolvesTo(w, h, k) ==
    IF Matches(w, h) # {}
    THEN /\ k \in Matches(w, h)
         /\ \A j \in Matches(w, h) :
                Len(trackers[w][j].chain) <= Len(trackers[w][k].chain)
    ELSE IF Cardinality(Family(w)) >= MaxLineages THEN k = Overflow
    ELSE IF Family(w) = {} THEN k = Bare
    ELSE /\ k \in 1..MaxLineages \ Family(w)
         /\ \A j \in 1..MaxLineages \ Family(w) : k <= j

NewTracker == [chain |-> <<>>, used |-> FALSE, fwd |-> <<>>, seen |-> now]

Known(w, k) == IF k \in DOMAIN trackers[w] THEN trackers[w][k] ELSE NewTracker

SetTracker(w, k, t) ==
    trackers' = [trackers EXCEPT ![w] =
                    [j \in DOMAIN @ \cup {k} |-> IF j = k THEN t ELSE @[j]]]

ResolveTracker(w, h, k) ==
    /\ ResolvesTo(w, h, k)
    /\ SetTracker(w, k, [Known(w, k) EXCEPT
                            !.seen = now,
                            !.chain = IF k = Overflow THEN <<>> ELSE h])

IsPrimaryLineage(k) == k = Bare

-----------------------------------------------------------------------------
(* Replay: overlay_cached_prefix                                             *)

AsRaw(h) == [i \in DOMAIN h |-> <<h[i], Raw>>]

\* A mutation of Overlay: the client's messages are not compared.
OverlayBlind(prefix, originals, prevOrig, prevFwd) ==
    [i \in DOMAIN prefix |-> IF i \in DOMAIN prevFwd THEN prevFwd[i] ELSE prefix[i]]

\* The leading run of messages the client has not changed keeps the bytes it
\* was forwarded in.  The whole prefix counts as confirmed, so that a replay
\* that is larger than the fresh form is never declined.
Overlay(prefix, originals, prevOrig, prevFwd) ==
    IF prevFwd = <<>> \/ Len(prevFwd) # Len(prevOrig) THEN prefix
    ELSE [i \in DOMAIN prefix |->
            IF i <= Len(prevOrig) /\ \A j \in 1..i : originals[j] = prevOrig[j]
            THEN prevFwd[i] ELSE prefix[i]]
-----------------------------------------------------------------------------
(* Steps of a turn                                                           *)

InFlight(w) == {c \in Conversations : at[c] = w /\ phase[c] = "sent"}

Sent(c) == SubSeq(Script[c], 1, n[c])

\* A request arrives: the client appends to its conversation, or sends it again.
\* It does not end in a system message.  How long the session has been idle is
\* read before the wait for its turn.
Arrive(c, w, m) ==
    /\ phase[c] = "idle"
    /\ turns < MaxTurns
    /\ turns' = turns + 1
    /\ m \in 1..Len(Script[c]) /\ m >= n[c] /\ Script[c][m] \notin SystemMsgs
    /\ phase' = [phase EXCEPT ![c] = "queued"]
    /\ at' = [at EXCEPT ![c] = w]
    /\ n' = [n EXCEPT ![c] = m]
    /\ overdue' = [overdue EXCEPT ![c] = \E t \in last[w] : now - t > TTL]
    /\ UNCHANGED <<memory, row, lineage, out, wire, now, timeouts, restarts>>

\* The worker's serializer gives one turn of the session at a time, unless the
\* wait for it times out.
Enter(w) ==
    \/ InFlight(w) = {} /\ UNCHANGED timeouts
    \/ InFlight(w) # {} /\ timeouts < MaxTimeouts /\ timeouts' = timeouts + 1

\* The compressors leave system messages alone.
Compressed(h, f) ==
    [i \in DOMAIN h |-> <<h[i], IF h[i] \in SystemMsgs THEN Raw ELSE f>>]

\* A cold recompact forgets what was frozen and the row, not what was forwarded,
\* and compresses the whole history.
ColdRecompact(c, w, f) ==
    /\ overdue[c]
    /\ frozen' = [frozen EXCEPT ![w] = NoMessage]
    /\ row' = EmptyRow
    /\ out' = [out EXCEPT ![c] = Compressed(Sent(c), f)]
    /\ wire' = [wire EXCEPT ![c] = <<>>]

\* A single message is compressed and freezes nothing.
OpenConversation(c, w, f) ==
    /\ ~overdue[c] /\ n[c] = 1
    /\ frozen' = [frozen EXCEPT ![w] = SyncedFrozen(w)]
    /\ out' = [out EXCEPT ![c] = Compressed(Sent(c), f)]
    /\ UNCHANGED <<row, wire>>

\* The system message of the first longer turn is frozen, and stands for the one
\* of every later turn.
FreezeSystem(w, m) ==
    IF SyncedFrozen(w) = NoMessage /\ m \in SystemMsgs
    THEN /\ frozen' = [frozen EXCEPT ![w] = m]
         /\ SyncToDb(SyncedFwd(w), SyncedOrig(w), m)
    ELSE /\ frozen' = [frozen EXCEPT ![w] = SyncedFrozen(w)]
         /\ UNCHANGED row

WithFrozenSystem(w, h) ==
    IF h[1] \in SystemMsgs /\ SyncedFrozen(w) # NoMessage
    THEN [h EXCEPT ![1] = SyncedFrozen(w)] ELSE h

\* A lineage other than the primary one that has recorded a turn replays its own
\* state; every other replays the session's.
PrevForwarded(w, k) ==
    IF Known(w, k).used /\ ~IsPrimaryLineage(k) THEN Known(w, k).fwd
    ELSE SyncedFwd(w)

\* The originals are the session's, whatever the lineage.
PrevOriginal(w, k) ==
    IF SyncedOrig(w) # <<>> THEN SyncedOrig(w) ELSE PrevForwarded(w, k)

Least(a, b) == IF a <= b THEN a ELSE b

\* What was forwarded before is frozen, or the first rounds of a history nobody
\* has seen; the system message is, the latest message is not.
FrozenCount(h, prev) ==
    Least(Len(h) - 1,
          IF prev # <<>> THEN Len(prev)
          ELSE IF FreezeMessages = 0 /\ h[1] \in SystemMsgs THEN 1
          ELSE FreezeMessages)

\* The frozen prefix is replayed, the suffix is compressed.
ContinueConversation(c, w, k, f) ==
    LET h == WithFrozenSystem(w, Sent(c))
        p == FrozenCount(h, PrevForwarded(w, k))
        prefix == Overlay(AsRaw(SubSeq(h, 1, p)), AsRaw(Sent(c)),
                          PrevOriginal(w, k), PrevForwarded(w, k))
    IN  /\ ~overdue[c] /\ n[c] > 1
        /\ FreezeSystem(w, Sent(c)[1])
        /\ out' = [out EXCEPT ![c] =
                       [i \in 1..n[c] |-> IF i <= p THEN prefix[i]
                                          ELSE Compressed(h, f)[i]]]
        /\ UNCHANGED wire

\* process_sync, and the call upstream.
Forward(c, k, f) ==
    LET w == at[c] IN
    /\ phase[c] = "queued"
    /\ Enter(w)
    /\ SyncFromDb(w)
    /\ ResolveTracker(w, Sent(c), k)
    /\ pending' = [pending EXCEPT ![w] = k]
    /\ \/ ColdRecompact(c, w, f)
       \/ OpenConversation(c, w, f)
       \/ ContinueConversation(c, w, k, f)
    /\ phase' = [phase EXCEPT ![c] = "sent"]
    /\ lineage' = [lineage EXCEPT ![c] = k]
    /\ UNCHANGED <<last, at, n, overdue, now, turns, restarts>>

Finish(cs) ==
    /\ phase' = [c \in Conversations |-> IF c \in cs THEN "idle" ELSE phase[c]]
    /\ at' = [c \in Conversations |-> IF c \in cs THEN NoWorker ELSE at[c]]
    /\ overdue' = [c \in Conversations |-> overdue[c] /\ c \notin cs]
    /\ lineage' = [c \in Conversations |-> IF c \in cs THEN NoKey ELSE lineage[c]]
    /\ out' = [c \in Conversations |-> IF c \in cs THEN <<>> ELSE out[c]]
    /\ UNCHANGED n

\* A mutation of RecordShared: whichever lineage the turn was resolved to.
RecordSharedAlways(c, w) ==
    /\ fwd' = [fwd EXCEPT ![w] = out[c]]
    /\ orig' = [orig EXCEPT ![w] = AsRaw(Sent(c))]
    /\ SyncToDb(out[c], AsRaw(Sent(c)), frozen[w])

\* The session's state carries the primary lineage only: the tracker that waits
\* for a response tells which one that is.
RecordShared(c, w) ==
    IF pending[w] = NoKey \/ IsPrimaryLineage(pending[w])
    THEN /\ fwd' = [fwd EXCEPT ![w] = out[c]]
         /\ orig' = [orig EXCEPT ![w] = AsRaw(Sent(c))]
         /\ SyncToDb(out[c], AsRaw(Sent(c)), frozen[w])
    ELSE UNCHANGED <<fwd, orig, row>>

\* A mutation of UpdateFromResponse: a tracker that was swept comes back.
UpdateSwept(c, w, k) ==
    SetTracker(w, k, [Known(w, k) EXCEPT
                         !.used = TRUE, !.fwd = out[c], !.seen = now])

UpdateFromResponse(c, w, k) ==
    IF k \in DOMAIN trackers[w]
    THEN SetTracker(w, k, [trackers[w][k] EXCEPT
                              !.used = TRUE, !.fwd = out[c], !.seen = now])
    ELSE UNCHANGED trackers

\* Upstream has answered: record_forwarded_turn.  A turn that outlived its tracker
\* (session_ttl_seconds) is promised no replay.
RecordForwardedTurn(c) ==
    LET w == at[c] IN
    /\ phase[c] = "sent"
    /\ RecordShared(c, w)
    /\ UpdateFromResponse(c, w, pending[w])
    /\ pending' = [pending EXCEPT ![w] = NoKey]
    /\ last' = [last EXCEPT ![w] = {now}]
    /\ wire' = [wire EXCEPT ![c] = IF pending[w] = Swept THEN <<>> ELSE out[c]]
    /\ Finish({c})
    /\ UNCHANGED <<frozen, bounds>>

\* Upstream has refused: nothing is recorded.
Fail(c) ==
    /\ phase[c] = "sent"
    /\ Finish({c})
    /\ UNCHANGED <<memory, row, wire, bounds>>

-----------------------------------------------------------------------------
(* Time and processes                                                        *)

Expired(w) == {k \in DOMAIN trackers[w] : now - trackers[w][k].seen > Expiry}

\* A request of any session sweeps the trackers that were idle for too long, with
\* their lineages.  One whose turn is in flight is not spared.
Sweep(w) ==
    /\ Expired(w) # {}
    /\ trackers' = [trackers EXCEPT ![w] = [k \in DOMAIN @ \ Expired(w) |-> @[k]]]
    /\ pending' = [pending EXCEPT ![w] = IF @ \in Expired(w) THEN Swept ELSE @]
    /\ UNCHANGED <<fwd, orig, frozen, last, row, request, wire, bounds>>

Tick ==
    /\ now < MaxNow
    /\ now' = now + 1
    /\ UNCHANGED <<memory, row, request, wire, turns, timeouts, restarts>>

\* A worker process is replaced: its memory and its requests are gone.
Restart(w) ==
    /\ restarts < MaxRestarts
    /\ restarts' = restarts + 1
    /\ fwd' = [fwd EXCEPT ![w] = <<>>]
    /\ orig' = [orig EXCEPT ![w] = <<>>]
    /\ frozen' = [frozen EXCEPT ![w] = NoMessage]
    /\ trackers' = [trackers EXCEPT ![w] = <<>>]
    /\ pending' = [pending EXCEPT ![w] = NoKey]
    /\ last' = [last EXCEPT ![w] = {}]
    /\ Finish({c \in Conversations : at[c] = w})
    /\ UNCHANGED <<row, wire, now, turns, timeouts>>

-----------------------------------------------------------------------------
Init ==
    /\ fwd = [w \in Workers |-> <<>>]
    /\ orig = [w \in Workers |-> <<>>]
    /\ frozen = [w \in Workers |-> NoMessage]
    /\ trackers = [w \in Workers |-> <<>>]
    /\ pending = [w \in Workers |-> NoKey]
    /\ last = [w \in Workers |-> {}]
    /\ row = EmptyRow
    /\ phase = [c \in Conversations |-> "idle"]
    /\ at = [c \in Conversations |-> NoWorker]
    /\ n = [c \in Conversations |-> 0]
    /\ overdue = [c \in Conversations |-> FALSE]
    /\ lineage = [c \in Conversations |-> NoKey]
    /\ out = [c \in Conversations |-> <<>>]
    /\ wire = [c \in Conversations |-> <<>>]
    /\ now = 0 /\ turns = 0 /\ timeouts = 0 /\ restarts = 0

Next ==
    \/ \E c \in Conversations :
        \/ \E w \in Workers, m \in 1..Len(Script[c]) : Arrive(c, w, m)
        \/ \E k \in Keys, f \in Forms : Forward(c, k, f)
        \/ RecordForwardedTurn(c)
        \/ Fail(c)
    \/ \E w \in Workers : Sweep(w) \/ Restart(w)
    \/ Tick

Spec == Init /\ [][Next]_vars

-----------------------------------------------------------------------------
(* Properties                                                                *)

\* Every message is forwarded as itself: replay never puts the bytes of another
\* message, or of another conversation, in its place ("no wrong bytes are ever
\* forwarded", prefix_tracker.py, lines 584-586).  Exempt are system messages, for
\* which the frozen one stands, and conversations over the cap of lineages, which
\* share one tracker.
RightContent ==
    \A c \in Conversations : phase[c] = "sent" =>
        /\ Len(out[c]) = n[c]
        /\ \A i \in 1..n[c] :
            \/ out[c][i][1] = Script[c][i]
            \/ Script[c][i] \in SystemMsgs
            \/ lineage[c] = Overflow

\* The conversation has the session for itself.
Alone(c) == \A d \in Conversations \ {c} : n[d] = 0

Forwards(c) == phase[c] = "queued" /\ phase'[c] = "sent"

\* Turn n + 1 begins with the bytes turn n was forwarded in, whichever workers
\* serve the two, after restarts and refused turns: what upstream has cached is
\* never rewritten, short of a cold recompact (the class's promise, line 33).
KeepsPrefix(c) ==
    \A i \in 1..Least(Len(wire[c]), n[c] - 1) : out'[c][i] = wire[c][i]

PrefixKept ==
    [][\A c \in Conversations :
        Forwards(c) /\ ~overdue[c] /\ Alone(c) => KeepsPrefix(c)]_vars

\* "A derived lineage's bytes must never become the shared replay state" (lines
\* 456-457).
DerivedNeverShared ==
    [][\A c \in Conversations :
        phase[c] = "sent" /\ phase'[c] = "idle" /\ ~IsPrimaryLineage(lineage[c])
            => UNCHANGED row /\ \A w \in Workers : fwd'[w] \in {fwd[w], <<>>}]_vars
=============================================================================
