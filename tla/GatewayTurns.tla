----------------------------- MODULE GatewayTurns -----------------------------
(***************************************************************************)
(* The life of a request in the gateway: the handlers of /v1/chat/         *)
(* completions, /v1/messages and /v1/responses (ctxguard/proxy/router.py)  *)
(* with the request rows of StatsRepository (storage/repository_stats.py), *)
(* which all worker processes share, and the sweep at a worker's start     *)
(* (proxy/server.py).                                                      *)
(*                                                                         *)
(* A handler asks its worker's serializer for the session's turn           *)
(* (TurnQueue), runs the pipeline, calls upstream and answers.  A streamed *)
(* answer is relayed by three nested generators after the handler has      *)
(* returned: the body generator, passthrough_stream, whose finally block   *)
(* reports the end of the turn, and the outermost one, whose finally block *)
(* gives the turn back.  When the client goes away while the outermost     *)
(* generator is suspended at its yield, closing it runs only its own       *)
(* finally block; the inner ones are closed later, by the event loop.      *)
(*                                                                         *)
(* A stream that ends in calls of the gateway's own tool is continued by   *)
(* further calls upstream (VirtualTools), which the relay makes through    *)
(* forward_stream (proxy/upstream.py).  That function turns every failure  *)
(* into bytes, so nothing marks the row.                                   *)
(***************************************************************************)
EXTENDS Naturals, FiniteSets

CONSTANTS
    Requests,     \* requests, each sent once
    Sessions,     \* session ids
    Bypassed,     \* the ids that are not serialized
    Workers,      \* worker processes over one database
    NoTurn,       \* holds no turn
    MaxCrashes    \* bound: how often workers die

ASSUME GatewayAssumption ==
    /\ Bypassed \subseteq Sessions
    /\ NoTurn \notin Workers \X Sessions
    /\ MaxCrashes \in Nat

VARIABLES
    kind,      \* "stream", "chat" (not streamed), "responses" (not streamed)
    home,      \* the worker that serves each request
    session,   \* its session
    phase,     \* where it is
    holds,     \* the turn it holds: <<worker, session>>, or NoTurn
    row,       \* status of its row in the requests table, or "none"
    failed,    \* which call upstream refused, or broke off, if any
    records,   \* calls of record_forwarded_turn for it
    up,        \* workers that run
    crashes    \* how often a worker died

sent == <<kind, home, session>>
vars == <<sent, phase, holds, row, failed, records, up, crashes>>

Turns == INSTANCE TurnQueue WITH
            Tasks <- Requests, Sessions <- Workers \X (Sessions \ Bypassed),
            NoSession <- NoTurn

Kinds == {"stream", "chat", "responses"}
Statuses == {"none", "streaming", "completed", "error"}

\* "queued": waits for the turn.   "turn": before the pipeline has run.
\* "asking": upstream was called.  "handed": the StreamingResponse is returned,
\* its generators have not started.  "relaying": upstream's bytes are relayed.
\* "tail": the stream broke, its synthetic end is sent.  "continuing": it ended in
\* virtual calls, the stream of a continuation is relayed.  "abandoned": the outer
\* generator is closed, the inner ones are not.  "dropped": never started.
\* "local": answered without upstream.  "unread": reading upstream's error body
\* failed.  "done".  "killed": its worker died.
Phases == {"new", "queued", "turn", "asking", "handed", "relaying", "tail",
           "continuing", "abandoned", "dropped", "local", "unread", "done", "killed"}

Relayed == {"relaying", "tail", "continuing"}

\* The request's own call, or one that continues it.
Failures == {"none", "first", "continuation"}

\* The variables have their types.
TypeOK ==
    /\ phase \in [Requests -> Phases]
    /\ kind \in [Requests -> Kinds]
    /\ home \in [Requests -> Workers]
    /\ session \in [Requests -> Sessions]
    /\ holds \in [Requests -> (Workers \X Sessions) \cup {NoTurn}]
    /\ row \in [Requests -> Statuses]
    /\ failed \in [Requests -> Failures]
    /\ records \in [Requests -> Nat]
    /\ up \in SUBSET Workers
    /\ crashes \in 0..MaxCrashes

-----------------------------------------------------------------------------
(* The requests table                                                        *)

\* Mutations: completing overwrites an error, an error is marked with a status
\* the dashboard does not know.
CompletedBlind(status) == "completed"
ErroredUnknown(status) == IF status = "streaming" THEN "failed" ELSE status

\* update_cache_stats and mark_request_completed: ... AND status != 'error'.
Completed(status) == IF status = "error" THEN "error" ELSE "completed"

\* mark_request_error: ... AND status = 'streaming'.
Errored(status) == IF status = "streaming" THEN "error" ELSE status

SetRow(r, status) == row' = [row EXCEPT ![r] = status]

-----------------------------------------------------------------------------
(* Steps of a request                                                        *)

Goto(r, p) == phase' = [phase EXCEPT ![r] = p]

Fail(r) == failed' = [failed EXCEPT ![r] = "first"]

\* unlock_session(): gives back the turn, if the request holds it.
Unlock(r) == IF holds[r] = NoTurn THEN UNCHANGED holds ELSE Turns!End(r)

\* record_forwarded_turn and the session's last activity.
Record(r) == records' = [records EXCEPT ![r] = @ + 1]

\* A request reaches its worker and asks for its session's turn.
Arrive(r) ==
    /\ phase[r] = "new"
    /\ home[r] \in up
    /\ Goto(r, IF session[r] \in Bypassed THEN "turn" ELSE "queued")
    /\ UNCHANGED <<sent, holds, row, failed, records, up, crashes>>

\* acquire() returns with the lock.
Enter(r) ==
    /\ phase[r] = "queued"
    /\ Turns!Begin(r, <<home[r], session[r]>>)
    /\ Goto(r, "turn")
    /\ UNCHANGED <<sent, row, failed, records, up, crashes>>

\* acquire() returns without it: the wait timed out while the turn was taken.
TimeOut(r) ==
    /\ phase[r] = "queued"
    /\ ~Turns!Free(<<home[r], session[r]>>)
    /\ Goto(r, "turn")
    /\ UNCHANGED <<sent, holds, row, failed, records, up, crashes>>

\* A virtual tool call or a semantic cache hit is answered on the spot.
AnswerLocally(r) ==
    /\ phase[r] = "turn"
    /\ kind[r] # "responses"
    /\ SetRow(r, "completed")
    /\ Unlock(r)
    /\ Goto(r, "local")
    /\ UNCHANGED <<sent, failed, records, up, crashes>>

\* The handler raises before it has called upstream.
Raise(r) ==
    /\ phase[r] = "turn"
    /\ Unlock(r)
    /\ Goto(r, "done")
    /\ UNCHANGED <<sent, row, failed, records, up, crashes>>

\* The pipeline runs, the row is inserted and the request goes upstream: a call
\* of /v1/responses is entered as completed before its outcome is known.
CallUpstream(r) ==
    /\ phase[r] = "turn"
    /\ row' = [row EXCEPT ![r] = CASE kind[r] = "stream" -> "streaming"
                                   [] kind[r] = "chat" -> "none"
                                   [] kind[r] = "responses" -> "completed"]
    /\ Goto(r, "asking")
    /\ UNCHANGED <<sent, holds, failed, records, up, crashes>>

\* Upstream cannot be reached or, unless it is a chat call, answers an error.
Refused(r) ==
    /\ phase[r] = "asking"
    /\ row' = [row EXCEPT ![r] = IF kind[r] = "stream" THEN Errored(@) ELSE @]
    /\ Fail(r)
    /\ Unlock(r)
    /\ Goto(r, "done")
    /\ UNCHANGED <<sent, records, up, crashes>>

\* Upstream's error body cannot be read: the exception leaves the handler before
\* it marks the row.
FailToRead(r) ==
    /\ phase[r] = "asking"
    /\ kind[r] = "stream"
    /\ Fail(r)
    /\ Unlock(r)
    /\ Goto(r, "unread")
    /\ UNCHANGED <<sent, row, records, up, crashes>>

\* Upstream answers a request that is not streamed.
Answer(r) ==
    /\ phase[r] = "asking"
    /\ kind[r] # "stream"
    /\ SetRow(r, Completed(row[r]))
    /\ Record(r)
    /\ Unlock(r)
    /\ Goto(r, "done")
    /\ UNCHANGED <<sent, failed, up, crashes>>

\* Upstream accepts a streamed request: the turn passes to the generators.
HandOver(r) ==
    /\ phase[r] = "asking"
    /\ kind[r] = "stream"
    /\ Goto(r, "handed")
    /\ UNCHANGED <<sent, holds, row, failed, records, up, crashes>>

\* The server starts to iterate, or finds the client gone before it does: the
\* finally blocks of a generator that never started never run.
Start(r) ==
    /\ phase[r] = "handed"
    /\ Goto(r, "relaying")
    /\ UNCHANGED <<sent, holds, row, failed, records, up, crashes>>

Drop(r) ==
    /\ phase[r] = "handed"
    /\ Goto(r, "dropped")
    /\ UNCHANGED <<sent, holds, row, failed, records, up, crashes>>

\* A transport error in the middle of the first stream.
Break(r) ==
    /\ phase[r] = "relaying"
    /\ SetRow(r, Errored(row[r]))
    /\ Fail(r)
    /\ Goto(r, "tail")
    /\ UNCHANGED <<sent, holds, records, up, crashes>>

\* wrap_stream has read the first stream to its end, broken or not, and finds
\* virtual calls in it: it relays a continuation instead.
Continue(r) ==
    /\ phase[r] \in {"relaying", "tail"}
    /\ Goto(r, "continuing")
    /\ UNCHANGED <<sent, holds, row, failed, records, up, crashes>>

\* A continuation is refused or breaks: forward_stream yields the error body or a
\* synthetic end, and the row is not marked.  Another continuation may follow.
BreakContinuation(r) ==
    /\ phase[r] = "continuing"
    /\ failed[r] = "none"
    /\ failed' = [failed EXCEPT ![r] = "continuation"]
    /\ UNCHANGED <<sent, phase, holds, row, records, up, crashes>>

\* A mutation of Finish: the turn is not recorded in the cache guard.
FinishUnrecorded(r) ==
    /\ phase[r] \in Relayed
    /\ SetRow(r, Completed(row[r]))
    /\ UNCHANGED records
    /\ Unlock(r)
    /\ Goto(r, "done")
    /\ UNCHANGED <<sent, failed, up, crashes>>

\* A mutation of Finish: the turn is not given back.
FinishLocked(r) ==
    /\ phase[r] \in Relayed
    /\ SetRow(r, Completed(row[r]))
    /\ Record(r)
    /\ Goto(r, "done")
    /\ UNCHANGED <<sent, holds, failed, up, crashes>>

\* The stream ends, or its reading is cancelled: the finally blocks run from
\* the inside to the outside, with no await after the turn is recorded.
Finish(r) ==
    /\ phase[r] \in Relayed
    /\ SetRow(r, Completed(row[r]))
    /\ Record(r)
    /\ Unlock(r)
    /\ Goto(r, "done")
    /\ UNCHANGED <<sent, failed, up, crashes>>

\* The client goes away while the outer generator is suspended at its yield:
\* only its finally block runs.
Abandon(r) ==
    /\ phase[r] \in Relayed
    /\ SetRow(r, Completed(row[r]))
    /\ Unlock(r)
    /\ Goto(r, "abandoned")
    /\ UNCHANGED <<sent, failed, records, up, crashes>>

\* The event loop closes the inner generators.
Finalize(r) ==
    /\ phase[r] = "abandoned"
    /\ SetRow(r, Completed(row[r]))
    /\ Record(r)
    /\ Goto(r, "done")
    /\ UNCHANGED <<sent, holds, failed, up, crashes>>

-----------------------------------------------------------------------------
(* Worker processes                                                          *)

Alive(r) == phase[r] \notin {"new", "local", "unread", "done", "killed"}

\* A worker dies with its tasks, its locks and its memory; the rows stay.
Crash(w) ==
    /\ w \in up
    /\ crashes < MaxCrashes
    /\ crashes' = crashes + 1
    /\ up' = up \ {w}
    /\ phase' = [r \in Requests |->
                    IF home[r] = w /\ Alive(r) THEN "killed" ELSE phase[r]]
    /\ holds' = [r \in Requests |-> IF home[r] = w THEN NoTurn ELSE holds[r]]
    /\ UNCHANGED <<sent, row, failed, records>>

\* A mutation of Restart: no sweep.
RestartUnswept(w) ==
    /\ w \notin up
    /\ up' = up \cup {w}
    /\ UNCHANGED <<sent, phase, holds, row, failed, records, crashes>>

\* The lifespan hook of a starting worker: fail_stale_streaming_requests.
Restart(w) ==
    /\ w \notin up
    /\ up' = up \cup {w}
    /\ row' = [r \in Requests |-> Errored(row[r])]
    /\ UNCHANGED <<sent, phase, holds, failed, records, crashes>>

-----------------------------------------------------------------------------
Init ==
    /\ kind \in [Requests -> Kinds]
    /\ home \in [Requests -> Workers]
    /\ session \in [Requests -> Sessions]
    /\ phase = [r \in Requests |-> "new"]
    /\ holds = [r \in Requests |-> NoTurn]
    /\ row = [r \in Requests |-> "none"]
    /\ failed = [r \in Requests |-> "none"]
    /\ records = [r \in Requests |-> 0]
    /\ up = Workers
    /\ crashes = 0

\* What the event loop and upstream owe a request, whichever way it goes.
Proceed(r) ==
    \/ AnswerLocally(r) \/ Raise(r) \/ CallUpstream(r)
    \/ Refused(r) \/ FailToRead(r) \/ Answer(r) \/ HandOver(r)
    \/ Start(r) \/ Drop(r)
    \/ Break(r) \/ Continue(r) \/ BreakContinuation(r)
    \/ Finish(r) \/ Abandon(r) \/ Finalize(r)

Next ==
    \/ \E r \in Requests : Arrive(r) \/ Enter(r) \/ TimeOut(r) \/ Proceed(r)
    \/ \E w \in Workers : Crash(w) \/ Restart(w)

Spec == Init /\ [][Next]_vars

\* Ready tasks run, upstream calls and streams end (their timeouts see to it),
\* the timer of the wait for the turn fires, abandoned generators are closed,
\* and a dead worker is started again.
Fairness ==
    /\ \A r \in Requests : WF_vars(Proceed(r)) /\ WF_vars(Enter(r) \/ TimeOut(r))
    /\ \A w \in Workers : WF_vars(Restart(w))

FairSpec == Spec /\ Fairness

-----------------------------------------------------------------------------
(* Properties                                                                *)

\* A row never leaves "error" (mark_request_completed's doc, lines 144-146),
\* though finally blocks and late callbacks try to complete it.
ErrorSticks ==
    [][\A r \in Requests : row[r] = "error" => row'[r] = "error"]_vars

\* A streamed request whose own call upstream refused or broke off is shown as an
\* error, whatever runs after the failure, continuations and their failures
\* included, unless the refusal could not be read.  A request of which only a
\* continuation failed is not: its row says "completed" in the end.
FailureShown ==
    \A r \in Requests :
        kind[r] = "stream" /\ failed[r] = "first"
            => row[r] = "error" \/ phase[r] = "unread"

\* Every relayed turn whose generators have all ended was recorded in the cache
\* guard, once; a turn that never reached upstream was not.
RecordedOnce ==
    \A r \in Requests :
        /\ records[r] <= 1
        /\ phase[r] \in {"queued", "turn", "asking", "handed", "dropped", "local",
                       "unread"} => records[r] = 0
        /\ phase[r] = "done" /\ kind[r] = "stream" /\ row[r] = "completed"
              => records[r] = 1

\* A turn is given back, unless the server never started the generators that
\* would do so.
TurnGivenBack ==
    \A r \in Requests :
        holds[r] # NoTurn ~> holds[r] = NoTurn \/ phase[r] = "dropped"

\* No row says "streaming" for ever (server.py, lines 42-43), while no worker is
\* started anew unless the generators were never started or the refusal could
\* not be read.
RowSettled ==
    \A r \in Requests :
        row[r] = "streaming"
            ~> row[r] # "streaming" \/ phase[r] \in {"dropped", "unread"}
=============================================================================
