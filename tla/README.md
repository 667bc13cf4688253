# Verification of CtxGuard

CtxGuard is a reverse proxy between coding agents and LLM providers. It
rewrites each request so that it is smaller, and takes care that the part of the
conversation the provider has cached is forwarded in the same bytes again. This
directory holds TLA+ models of the parts of it whose correctness depends on the
order in which things happen, the TLC configurations that check them on small
instances, and TLAPS proofs of what holds for every instance.

Paths below are relative to `src/ctxguard/`.

## Inventory of the system

| Component | State | Operations | Hard because |
| --- | --- | --- | --- |
| Session serializer, `core/guards/session_serializer.py` | LRU table of asyncio locks per worker | `acquire`, `unlock`, `serialize` | eviction, timeouts, cancellation and wake-ups interleave |
| Request handlers, `proxy/router.py` | per request: turn, row id, generators; per worker: `session_last_activity` | `/v1/chat/completions`, `/v1/messages`, `/v1/responses` | a stream outlives its handler; clients go away; upstream fails half way |
| Request statistics, `storage/repository_stats.py` | table `requests`, shared by all workers | `record_request`, `update_cache_stats`, `mark_request_completed`, `mark_request_error`, `fail_stale_streaming_requests` | late callbacks race with failures; sweep at start |
| SSE relay, `proxy/sse.py` | decoder and metrics of one stream | `passthrough_stream` and its `finally` | nested generators are closed in different orders |
| Cache guard and lineages, `core/guards/cache_guard.py`, `prefix_tracker.py` | forwarded and original messages per session in memory and in `session_cache`; trackers per lineage | `partition_messages`, `overlay_cached_prefix`, `record_forwarded_turn`, `resolve_tracker` | two copies of the state, several processes, conversations that share a session id |
| Pipeline and compressors, `core/pipeline.py`, `core/compressors/` | snapshots of listings and the tally of the prefix, per session | `process_sync`, `index_prefix`, `process` | what one compressor refers to, a later one or another turn may have changed |
| Fingerprint store and context tracker, `storage/repository_fingerprint.py`, `core/context_tracker.py` | in-memory LRU per worker over a shared table; a bounded table without a lock | `save_fingerprint`, `get_content`, `track` | threads interleave in memory; references outlive what they name |
| Semantic cache, `core/semantic_cache.py` | bounded table with expiry | `get`, `put` | expiry, recency and capacity in one order; requests wait for upstream between the two |
| Virtual tools, `proxy/virtual_tool_handler.py`, `core/virtual_tools/` | what is held back of a stream, rounds of the loop | `handle_non_streaming`, `wrap_stream`, `build_continuation_payload` | decides on the first bytes of a stream whose rest is not known; upstream fails half way |
| Savings ledger, `storage/savings_ledger.py` | one append-only file | `record_savings_event`, compaction, `aggregate_savings` | several processes; the locks cover a read or a write, not the compaction |
| Memory graph, `storage/repository_graph.py`, `core/memory/` | entities, relations, supersession chains, a search index | `add_entity`, `supersede`, `detach_supersession`, `delete_entity`, `query_subgraph` | history must stay one chain; calls read and write in two transactions |
| Upstream client, `proxy/upstream.py` | clients | `forward_request`, `forward_stream` | retries of a POST |
| Learning engine, `learn/` | the rules file | scan, analyse, merge, prune, write | resumed transcripts; read, merge and replace by several writers |
| Cache-zero recorder, other guards, adapters, CLI, dashboard page, configuration | files, none | | text transformation or plain I/O |

How they interact: a handler reads the session's idle time, asks the serializer
for the session's turn, runs the pipeline in a thread, which asks the cache guard
what to freeze and replays it, inserts a row, calls upstream and returns a
`StreamingResponse` of three nested generators. The innermost one relays bytes and
marks failures, the middle one reports the end of the stream (which records the
turn in the cache guard and completes the row), the outermost one gives the turn
back. Workers share only the SQLite database: the request rows and the row per
session in `session_cache`.

What makes each component correct: the serializer gives a session's turn to one
request at a time and loses no waiter; a request gives its turn back, records it
once and leaves a row that tells the truth; the cache guard never forwards wrong
content and never rewrites what upstream has cached; a message that was folded can be
understood from its own request, and what was folded can be read again; a fact has one
current version, and only that is shown to a model; an answer from the cache answers the
request it is given to; the ledger counts an event once; learning counts a call once and
keeps what is in the rules file.

## The modules

| Module | Models | Checked by | Proved in |
| --- | --- | --- | --- |
| `TurnQueue` | what a handler relies on: at most one request holds a session's turn | refined by the next two | |
| `SessionSerializer` | class `SessionSerializer` with `asyncio.Lock` and `wait_for` | `serializer_*` | `SessionSerializerProofs` |
| `GatewayTurns` | a request's life in the handlers, with its row, over `TurnQueue` | `gateway_turns` | `GatewayTurnsProofs` |
| `CacheGuard` | one session's prefix state in all workers and in the database | `cacheguard` | `CacheGuardProofs` |
| `VirtualTools` | the answer to one request and the continuation loop around it | `virtual_tools` | `ToolCallProofs` |
| `Folding` | what the compressors make of a session's messages, and the tables they keep | `folding` | `SavingsProofs` |
| `FingerprintStore` | the contents that references stand for, in memory and in the table, and the tracker | `fingerprint_store` | `FingerprintStoreProofs` |
| `SemanticCache` | requests that may be answered from the cache, and the attempts upstream | `semantic_cache*` | `SemanticCacheProofs` |
| `MemoryGraph` | facts, their corrections, the index and what is recalled | `memory_graph` | `MemoryGraphProofs` |
| `SavingsLedger` | the ledger's file, the processes that append to it and compact it | `savings_ledger` | `SavingsProofs` |
| `Learning` | transcripts, loops, rules and the rules file | `learning` | `ToolCallProofs` |

`MC*` modules only define what the configurations need (symmetry, scripts, answers).
`SavingsProofs` and `ToolCallProofs` each hold the theorems of two components, which is why
`SavingsLedger` and `Learning` have `SLInit`, `LInit` and so on where the others have `Init`.

### SessionSerializer

A step is the code a task runs between two points where it may yield to the event
loop. `Acquire` is `acquire` up to its first suspension: the lookup with its LRU
update and eviction, then `lock.acquire()`. `_get_or_create_lock` has no `await`
inside `_global_lock`, so that lock is never contended. `EagerWait` says whether
`asyncio.wait_for` runs `lock.acquire()` inline (Python 3.12 and later) or in a task
that runs later (`RunAcquire`). The lock itself is modelled from CPython's
`asyncio.Lock`: a queue in arrival order, one woken waiter at a time, a woken
waiter that is cancelled or times out wakes the next one. `TimeOut` continues
without the lock as lines 86-91 do. `CallUnlock` is the idempotent callback.
`_in_flight` is never incremented in the code, so the eviction guard on it has no
counterpart here: "Known limits" says what follows.

The table's order is a relation, not a sequence: "stands before" on its members.

### GatewayTurns

`phase` says where a request is. Kinds of requests differ where the code does: a
streamed one has a row from the start, a non-streamed chat or messages call gets
its row when the answer is there, a non-streamed `/v1/responses` call is entered as
completed before upstream is called (router.py:1523). `Finish` is the normal end of
the generators: inner to outer, with no `await` between recording the turn and
giving it back. `Abandon` and `Finalize` are the same end when the client goes away
while the outermost generator is suspended at its `yield`: closing a generator runs
its own `finally` only, the inner ones are closed later by the event loop. `Drop` is
a response whose generators were never started, whose `finally` blocks never run.
`FailToRead` is an exception while upstream's error body is read. `Crash` and
`Restart` are a worker's death and its start with the sweep.

A streamed answer that ends in virtual calls is followed by the stream of a continuation
(`Continue`), which `UpstreamClient.forward_stream` reads: it relays the body of a refusal, or
puts a synthetic end in the place of what is missing (`BreakContinuation`), and tells nobody.
So `failed` says which call failed, the request's own or one that continues it.

The turn is taken and given back with `TurnQueue`'s actions. Requests of sessions in
`Bypassed` are not serialized (serialization is switched off).

### CacheGuard

The session is one session id; `Conversations` share it, as an agent and its
subagents do. A conversation is its client's list of messages, and a request is a
prefix of it that is at least as long as the last one. A client that edits its
history is another conversation with the same beginning. Messages are atomic and
are forwarded in one of a few `Forms` (untouched, compressed).

`Forward` is `process_sync` and the call upstream, in the order of the code: enter
the session's turn, synchronise memory with the row, resolve the lineage, then cold
recompact, the opening of a one-message conversation, or freeze, replay and compress.
`RecordForwardedTurn` is what happens when upstream has answered. Each worker has its
own memory and its own serializer; the wait for a turn may time out (`MaxTimeouts`).
`Sweep` is the tracker store's expiry, `Restart` a worker's replacement. The database
is written in the same step as memory, since each write is one transaction.

Abstracted: token counts (the branch of `partition_messages` that counts cached
tokens is reached only without forwarded messages, and then there are no cached
tokens either); block-level appends and rewrites inside a message; model and tool
affinity of lineages; the separate `request.system` string, which is frozen as system
messages are; the size bound of the replay, which never declines here because the
whole prefix is passed as confirmed. The originals that a tracker stores are left
out, because the code never uses them ("Known limits").

### VirtualTools

The gateway adds the tool `ctx_expand` to requests and answers its calls itself. The
module follows one request of `/v1/chat/completions` or `/v1/messages` (the only
handlers that intercept) from the first answer to the last byte. An answer is a
sequence of events, one for each thing the handlers tell apart: calls of `ctx_expand`,
of the client's tools and of the memory tools, text that is long enough to release the
stream, text that is not, text that mentions the name, bulk, the end. A chunk carries
any number of events, so that every way the network may cut the stream is a behaviour.

`Probe`, `Relay` and `Collect` are the phases of `wrap_stream`, one step per chunk;
`EndStream` is each of its three returns and `ContinueStream` its recursion, whose
generator takes the place of the one that has ended. `NextMode` says whether the new
stream is wrapped. `Break` is upstream going away: `build_aborted_tail` puts an error and
a regular end in the place of the rest, for the first stream (`body_generator`) as for a
continuation (`forward_stream`). `ContinueWhole`, `FailWhole` and `Deliver` are the loop
of `handle_non_streaming` and its caller, which keeps the first response when the loop
raises. `Continuation` records, for each continuation payload, which calls its
assistant message has and which of them have a result.

Abstracted: what a reference resolves to (a miss is a result too), the two wire
formats, and the thresholds in bytes, of which only the side an answer falls on
matters. `memory_save` and `memory_search` are also injected by the gateway, but
`parse_tool_calls` takes them for tools of the client, so they are one more kind of
call here. A client that goes away is the business of `GatewayTurns`.

### Folding

A turn of `process_sync` in four steps. `Arrive` freezes the leading messages in the form
they were forwarded in; `IndexPrefix` is `DedupCompressor.index_prefix`, which replaces the
session's tally; `Compress` runs the compressors on the rest, in the order of
`CompressionPipeline.__init__`; `Answer` and `Fail` record the turn or not. A turn whose
wait for the session timed out runs in another thread, so the steps of two turns interleave
(between `IndexPrefix` and `Compress` only: a compressor runs without a yield, and the
others keep no table). `Restart` loses the tables and keeps the forwarded prefix.

A text is a model value; constants say for each compressor which texts it shortens. A
`Form` says what was made of a text, which earlier text it is relative to, and whether a
reference stands in its place. Deduplication comes before the skeletonizers, the log
truncator, the cleaners and the pruner, so the copy a reference points to may have been
shortened after it was counted (`AfterDedup`), although dedup.py:18 says that it is verbatim:
`CopyInSight` is what the code keeps of that ("Known limits"). Texts
are those after secret redaction; thinking blocks and the bound on a delta's ratio are left
out. `set_text_content` writes the joined text of a message into its first block, so a
message has one text here.

### FingerprintStore

Threads of a worker share its memory without a lock. `Save` and `Find` update memory in one
step; the operations of `ContextTracker.track` are steps of their own, because it makes
several on two tables (`Forget`, `Place`, `Enqueue`, `Trim`); the row is written last, and may
fail (`WriteFails`), with the request. `Configured` and `Default` are the limits that callers
pass: the smaller one sticks in the worker, and each write cuts the shared table to its own.
Rows carry the time of their last use in milliseconds and a hit count, which is the order of
the eviction (`Selected` keeps the rows that few enough come after). `since` is the history
the property needs: which others were used since. A content that was never stored has `NoId`
in it, and is not claimed to be in the table.

Left out: lookups scoped to a session and the purge, which the gateway does not call, and the
`RuntimeError` of a scan of a dictionary that another thread changes.

### SemanticCache

`Get` is the lookup of the chat handler: expired entries go from the front, then the exact
hash, then a query that is alike. `Send` and `Break` are the attempts of `forward_request`,
`Put` and `PassOn` the end of a buffered call. Between them any other request may come. A
context is messages, model and system prompt; its query is the text of its last message of
the role "user". `pristine_messages` share their blocks with the request that the pipeline
rewrites, so `put` may hash the rewritten ones (`Rewritten`). Similarity is equality of
queries: what matters is that it looks at nothing but the query.

### MemoryGraph

A request of a thread is a list of calls of the store; a worker's lock admits one call at a
time, and a call that reads and then writes has two steps, between which another worker's
call may come (`FindEntity` and `UpdateEntity` or `InsertEntity`, `FindCurrent` and
`Supersede`, `FindChain` and `Detach`). `Remember` is memory_save, the patterns of
`extract_and_learn_from_text` and the "add" of `apply_extracted_memories`; `Correct`,
`TakeBack`, `Create`, `Relate` and `Delete` are the routes (and the model's "supersede"); `Pairs`
bounds which names `Relate` is asked to join. In
`Detach` the index is updated from what a second connection reads, as the code does. `Recalled`
is what `find_relevant_subgraph` finds for a text that names an entity: names, the index, the
user, and two hops of relationships.

Left out: scopes and users, limits of lists, scores, budgets and the words of the context. A
recall is one step.

### SavingsLedger

Files are inodes: a process that opened the ledger goes on writing to the inode it has when
another is renamed over it. The advisory locks are held for one write or one read, which
makes these atomic and no more. `Check` to `Replace` are `_maybe_compact`: `OpenTemp` truncates
".tmp" before it locks it, `WriteTemp` writes from the beginning, `Replace` renames whatever is
at the path. `Crash` leaves any part of what was being written. A write that fails, or a crash in
it, may leave a part of a line (`torn`); the next line is appended to it, is no event then, and
its caller is told True. `risk` collects the events that a race or a fault may cost. Lines have
one length, and the part of one counts for none. `Fitting` goes through the file as
`_read_events` does, and keeps the events that are recent enough.

### Learning

`Act`, `Resume` and `Age` change the transcripts that the scanners find: a resumed session
starts with the calls of the old one, under the same identities. `Discover` detects loops
(`Evidence`, `WithoutReplays`
and `Merged` are its loops as recursive functions: the calls of a session that are evidence,
those that are no replay, and what each session contributes to those before it), `ModelAnswers` or
`FallBack` yields rules, `ReadFile` and `WriteRules` are the round trip of
`RoundTripContextWriter`. `Mine` and `WriteBlock` are the route `/api/learn/run`, which has neither
identities nor a cap, and replaces the block. The user may edit the file at any time.

A first block is appended. Over an earlier one the new block is put by `re.sub`, to which it is a
template: `Slashed` are the rules with a sequence that `re.sub` does not know, for which it
raises (`CanPlace`); `Respelled` says what it makes of the triggers that have one it does know
(`Placed`). Two rules may become alike in this way; of these the last in the file counts when
the block is read again, and since a block is a set here, `Prior` takes any.

Left out: the words of rules (whose rationale gets one more sentence about the waste each
round, and whose directives `re.sub` may change as well), digests, pivots (uncalled), and the passage of time beyond `Age`.

## What the runs check

| Run | Bounds | Shows |
| --- | --- | --- |
| `serializer_evict` | 3 tasks, 5 sessions (1 bypassed), table of 2, 7 locks | type invariant; locks are exclusive, never left behind, never shared between sessions; the table exceeds its capacity only for busy sessions |
| `serializer_roomy` | 3 tasks, 3 sessions (1 bypassed), table of 2 | the serializer implements `TurnQueue`; no wake-up is lost |
| `gateway_turns` | 2 requests of every kind, 2 sessions, 2 workers, 1 crash | errors stick, the failure of a request's own call is shown, turns are recorded once and given back, rows settle |
| `cacheguard` | 2 conversations (3 and 2 messages), 2 workers, 4 requests, 1 tick, 1 restart | right content; a lone conversation keeps its prefix; derived lineages stay private |
| `virtual_tools` | 2 continuations; every answer of 1 or 2 events, and of 3 of the kinds whose order matters | one whole answer is shown; continuations answer every call; rounds are bounded; `ctx_expand` is hidden but for named reasons; the request ends |
| `folding` | 2 conversations of 5 messages, 4 requests, 1 overlap, 1 restart | only listings become snapshots; a reference has its copy in the request, whole or shortened, a difference its listing |
| `fingerprint_store` | 4 contents (1 summary), 3 threads on 2 workers, limits of 2 and 3, 4 calls, 2 milliseconds, 1 restart | what is recent can be read by every worker; the tracker stays bounded |
| `semantic_cache` | 4 contexts, 2 requests, 2 entries, 4 times, lifetime 1 | capacity; nothing expired is served but for a disturbed order; blank queries match nothing |
| `semantic_cache_tools` | the same | finding: a turn after a tool's result gets the answer from before it |
| `memory_graph` | 2 names, 1 pair to relate, 4 rows, 3 threads on 2 workers, 4 requests | one current version; the index follows; only current facts are recalled |
| `savings_ledger` | 2 processes, 4 inodes, 4 events, 4 days, compaction from 2 events, 1 fault | an event is reported once, for as long as it is asked for |
| `learning` | 2 transcripts, 3 calls of one command and what `re.sub` makes of it, a learner and a dashboard with 3 runs, 1 paragraph, cap of 1 | calls are counted once; a learner's write keeps what it has read, but for what `re.sub` respells |

Why the bounds are enough: the serializer's hazards need an owner, a waiter and one
task that evicts, and two sessions more than the table holds; three tasks with up to
five sessions give all of them, and the proofs below remove the bounds. In the gateway
requests interact only through a session's turn, a worker's death and its sweep, so
two requests suffice. In the cache guard stale memory needs three turns (one on a
worker, one on another, one back on the first), and a fourth leaves room for a
refusal, a sibling or a restart in between. `TTL` and `Expiry` are 0 and the clock
ticks once: one tick makes everything old, which is all that the comparisons tell
apart. In the virtual tools nothing survives a continuation but the payload, the count of rounds
and the first response, so two continuations show the first, the last and one after the
last; an answer of three events has one that decides, one before and one after it.

In `folding` three listings have every relation that `Best` and `Compared` tell apart (the same,
close, not worth a delta), and the second conversation shares a file with the first; four
requests give a turn, a sibling's turn, an overlap and a cold recompact after it.
In `fingerprint_store` three contents compete for two rows, one thread of the other worker
writes with another limit, and the batch and threshold are small enough to be crossed both
ways. In `semantic_cache` two entries and two clock ticks past the lifetime are what it takes for
an expired entry to stand behind a live one. In `memory_graph` a chain of three versions, a
detachment and a second worker need four rows and four requests. In `savings_ledger` two
compactions use at most four inodes: two ledgers, ".tmp", and one still open; one fault leaves a
torn line, and an event is then written to it. In `learning` the command is a query with a
backslash that `re.sub` replaces, which makes one that it does not know, so all three cases are
there: a rule that is respelled, one that it refuses, and (the failing call) one that it leaves alone;
a cap of one makes every merge of two rules drop one, and three calls are one more than makes
a loop; transcripts change only between runs, which read them in their first step.
`MaxTurns`, `MaxNow`, `MaxRestarts`, `MaxTimeouts` and `MaxCrashes` bound the
counters.

Deadlock is not checked but in the serializer's runs: once every request is done, or the bounds
are used up, nothing happens any more.

Fairness. `SessionSerializer`: a ready task runs and a turn ends, because upstream
calls have read timeouts; timeouts of the wait, cancellations and new requests are
never owed, so `EventuallyServed` holds without their help. `GatewayTurns`: weak
fairness of what the event loop and upstream owe a request, of the wait for a turn
(its timer fires if the turn stays taken) and of the restart of a dead worker.
`VirtualTools`: something happens next, because upstream sends or its read timeout
breaks the stream; nothing says that it is ever anything but a call of `ctx_expand`.

## What is proved

All proofs are for every value of the constants that satisfies the named assumptions.

`SessionSerializerProofs`
- `TypeCorrect`.
- `LockMutexCorrect`, `NoAbandonedLockCorrect`: a lock object has at most one owner,
  and a held lock has one. The invariant adds that an owner's lock is locked, that a
  woken waiter's lock is free, and that at most one waiter of a lock is woken.
- `NoCrossSessionLockCorrect`: the invariant adds that two sessions never have the
  same lock in the table and that a lock that is referenced is never handed out anew.
- `TableBoundCorrect`: the table outgrows its capacity only to hold sessions that are busy.
  `Aged` says that `older` orders the table; that the first k of a finite ordered set are k
  (`FirstMembers`) is then what an eviction needs to have looked at enough sessions.
- `SerialWhenRoomy`, `TurnQueueCorrect`: when the table has room for every serialized
  session, nothing is evicted, so a session has one lock; hence turns are serial and
  each step is a step of `TurnQueue` or leaves it unchanged. Without the assumption
  it does not hold ("Known limits").

`GatewayTurnsProofs`
- `TypeCorrect`, `FailureShownCorrect`, `RecordedOnceCorrect`, `ErrorSticksCorrect`.
  The invariant relates a request's phase to its row, to which of its calls failed, and to its
  record count: a streamed request that is under way has row "streaming" or "error", one whose
  own call failed has "error" through every continuation, and only a finished one has been
  recorded.
- `HoldersAtWork`, `TurnsImplemented`, `TurnsSerial`: every way a request can end gives its
  turn back, but for a stream that was never started, and the handlers use turns as
  `TurnQueue` offers them, except that a crash gives up all of a worker's at once. The
  invariant `TurnInv` adds that what is under way runs on a worker that does, and that only
  requests of serialized sessions wait. `TurnGivenBack` itself is liveness; `HoldersAtWork` is
  its safety side. `gateway_turns`' instance satisfies the invariant.

`CacheGuardProofs`
- `TypeCorrect`, with what it needs: a request that is queued or sent has a worker and
  at least one message, and is no longer than its script.
- `DerivedNeverSharedCorrect`, from `MaxTimeouts = 0` and the invariant `OneTurn`: a
  worker has one turn of the session in flight, and the tracker that waits for a
  response is the one that turn was resolved to, or was swept. With overlapping turns
  the slot holds another turn's tracker ("Known limits").
- `PrefixKeptCorrect`, from no assumption: neither restarts nor turns that overlap a
  queue timeout matter to a conversation that is alone. The invariant `OnItsOwn` says
  that all its trackers are the session's primary one, that the row holds exactly the
  turn that the next is to repeat, with its originals, and that no worker's memory is
  longer than the row (a longer one would win over the row in `SyncedFwd`).
- `RightContentCorrect`, from `MaxTimeouts = 0`. The invariant `Contents` has three parts
  beside the property. `Pairs`: in every memory and in the row the originals are no
  longer than the forwarded list, and where the lengths agree the two lists agree
  message by message - so the comparison of lengths in `overlay_cached_prefix` is what
  protects a replay when memory and row are mixed. `Chains`: what a derived tracker
  forwarded agrees with its chain, so that a request that continues the chain may
  replay it. `ChainSent`: the tracker of a turn in flight has the turn's messages as
  its chain. TLC checked these invariants on the instance of `CacheGuard.cfg` before
  they were proved.

`ToolCallProofs`, of `VirtualTools` (from the assumption that answers are sequences of events
and that there is at least one round)
- `TypeCorrect`, `RoundsBoundedCorrect` (the invariant `RoundLeft` is the loop's
  condition), `CallsAnsweredCorrect`.
- `OneAnswerCorrect`: the invariant `Held` says that what has arrived is either held
  back or shown, all of it; that a chunk continues what has arrived is a fact about
  subsequences (`ChunkFacts`, `BreakFacts`).
- `ExpandHiddenCorrect`: the invariant `Hidden` gives the reason a stream is relayed for:
  no round is left; something released it before the first call (`Covered`, which more
  chunks cannot undo); or it is over without a call, which is where the tail of a
  broken stream must be known to be the last event.

`ToolCallProofs`, of `Learning` (from the assumption that a transcript is discovered once, that
rules are about finitely many commands, and that the thresholds and the cap are not zero)
- `LoopsCounted`. What a recursive function computes is shown step by step: `Iterated` says
  that there is such a function, `StepByStep` that what each step keeps holds at the end.
  `SelectedCalls` and `EvidenceFacts` say that the evidence has the identities, and as many
  calls without one, as the places in the transcript; `ReplaysFacts` that without replays one
  call is left for each identity not seen before; `ContributionFacts` and `MergedFacts`
  that after each session the merged calls are those of the sessions so far that repeat
  themselves, each identity once.
- `LearningTypes`. A loop has no more calls than the transcripts together hold
  (`MergedFacts` again), and a merge takes the higher of two measures, so no rule's measure
  outgrows them.
- `NothingLostByWrites`, of the file as the learner has read it: its text, and those of its rules
  that are one of a kind and that `re.sub` leaves alone (`Lasting`). The invariant `DistinctRules`
  says that a learner has no two rules about the same; the file may, once `re.sub` has made two
  alike, but a merge takes one of each (`Prior`), so what is written has as many rules as
  there are things they are about. `PrunedKeeps` is the argument: a rule that is dropped was one too many, and those that stay
  are fresh or claim as much; a fresh one is dropped only if all that stay are fresh.
  `OnlyWrites` says that nothing but a learner's own write ends its run. TLC checked
  `DistinctRules` on the instance of `Learning.cfg`.

`SavingsProofs`, of `Folding`
- `CopiesInSight`. The invariant has three parts beside sequences being sequences:
  every reference in a forwarded prefix (`wire`) and in a turn's messages (`out`) has its
  copy before it, so that a turn may start from what was forwarded; a turn between its two
  steps finds the contents of its own prefix in the tally, or another conversation's
  (`Indexed`), which the property exempts. `CompressedFacts` is the step: of equal contents
  the first is replaced by no reference, since what precedes it is different; so it is
  still there after the compressors that follow, in the shape they give it, which
  need not be the verbatim one ("Known limits").
- `TypeCorrect`, `MessageForMessage`, `DeltasGrounded`. What is sent stands for the client's
  messages, one for one (`Lengths`, `SameTexts`). In a session with one conversation the
  snapshots that a listing may be compared with are earlier messages of it (`OwnSnapshots`),
  and unless a message has been through the compressors twice (`again`) those messages are
  in the request, before the listing (`GroundedInv`). The compressors go through the messages
  with recursive functions. Induction being out of reach, `Iterated` takes the least index at
  which such a function would leave its type, and `DiffFacts` and `ToolDeltaFacts` say what
  one step adds to the snapshots. TLC checked the invariant on the instance of `Folding.cfg`.

`SavingsProofs`, of `SavingsLedger`
- `LedgerTypes`, with what it needs: a process has a file open just when it is going to write
  to it, and the paths of the ledger and of ".tmp" do not name one file.
- `ReportsCorrect`. What is owed (`Owed`) are the events that no race or fault has put at risk, for
  as long as they are retained. `OwedKept` says where each of them is, once: in the ledger, in
  what every compaction has kept of it, and in the file that a compaction is going to rename
  over it; a second compaction on ".tmp" means that nothing is owed (`OnlyCopy`). `Opened` is
  why the append that is under way disturbs none of this: who is going to write an event
  has it to itself, and never writes to ".tmp". `Written` says that no file holds an event
  that is still to be written. `AddedLine` is what a line does to the file it is appended to, torn
  or not; `WriteKeeps` is the step in which an event becomes owed.
  TLC checked these invariants on the instance of `SavingsLedger.cfg`.

`FingerprintStoreProofs`
- `TypeCorrect`, `SharedRecallKept`. The invariant: a content has one row (`Distinct`), none is
  younger than the clock (`Past`), a row that is as young as another belongs to a content that
  was used since the other (`Younger`), and a content without a row has seen as many others
  used as the smaller limit allows rows (`Lost`). `EvictedFacts` is the eviction: each row
  it drops has at least as many younger ones as it keeps.
- `TrackerKept`. The tracker has no lock, so the invariant says what threads in the middle
  of `track` still owe: a context that is not queued belongs to a thread that is about to
  queue it (`Covered`), and where there are too many a thread has yet to trim (`Bounded`).

`SemanticCacheProofs`
- `TypeCorrect`, `ServesRight`. The invariant `Aged` says that the keys that were never
  moved stand in the order of their entries' age, so an expired one behind the live one
  at which the clean-up stops has been moved, or has one in front of it that has; `Held`,
  that an entry is under the key of its context or of what the pipeline made of it.

`MemoryGraphProofs`
- `TypeCorrect`, `IndexFollows`, `RecallsCurrent`. The invariant adds that a call that writes
  has read (`Working`) and that an entity with a successor is retired (`Stamped`), which
  is what keeps old versions out of a recall although relationships lead to them.

- `FactsHaveOneVersion`. The invariant `Versions`: a version supersedes an older row (`Below`),
  what superseded a version supersedes it (`Mutual`), a fact that is not known to be split has
  one active version (`OneActive`), and each version of it that is current, or was superseded,
  is what its predecessor names as its successor (`Chained`). `Pending` says what a call
  between its reading and its writing may rely on. The first version and the history of a
  version are recursive functions; `Followed` shows, again by a least counterexample, that such
  a function has the values its definition says, and `HistoryShown` that the current version is
  in every history of its fact.

Only model-checked: the liveness properties `EventuallyServed`, `TurnGivenBack`, `RowSettled` and
`Ends`, since liveness under fairness is beyond the prover. Every invariant and action property
of the runs, and the serializer's refinement of `TurnQueue`, is proved, under the assumptions
named with it.

## Finding

One disagreement between what the repository says and what the code does has a run that TLC
refutes, `semantic_cache_tools`: a request that continues after a tool's result has the role
"tool" at its end, so the query of the lookup is the question before it, and the cache answers
it with the answer to that question again. The module's header says that such turns are never
matched by similarity.

Two more are described under "Known limits", since what the runs check is what the code does keep: a
reference whose copy is not verbatim (Folding), and rules whose identity does not survive the
file (Learning).

## Known limits

What the code does, beside the finding, that the properties therefore exempt or do not claim.

Turns of a session
- The eviction of the lock table (session_serializer.py:48) takes a lock that was released to a
  waiter who has not resumed yet, because `_in_flight` is never incremented: a later request of
  the session gets a new lock and runs beside the waiter. `ImplementsTurnQueue` is checked and
  proved for a table with room.
- When the client goes away, the outermost generator gives the turn back (router.py:1184, 1597,
  1913) before the inner one has recorded it. The next turn may start in between, with the
  prefix state of the turn before.
- The sweep of a worker that starts (repository_stats.py:172) marks the rows of streams that
  other workers are relaying as failed, and the error sticks.
- A continuation that upstream refuses or breaks off is relayed as if nothing had happened
  (`UpstreamClient.forward_stream`, proxy/upstream.py:253-269), and the row says "completed" in the end:
  `FailureShown` speaks of the request's own call. A stream that the client abandons is completed
  too, though `mark_request_error` names a client's abort.
- `FailureShown` and `RowSettled` exempt a request whose error body could not be read,
  `TurnGivenBack` one whose generators never started.

Prefix state
- The tracker of a turn is handed over in one slot per session (cache_guard.py:291). When two
  turns overlap after a queue timeout, one conversation's bytes land in the other's tracker, and
  a later turn replays them: `RightContent` is checked and proved without overlaps.
- A derived lineage compares its history with the originals of the session
  (cache_guard.py:419), and loses the replay of its own compressed prefix: `PrefixKept` speaks of
  a conversation that is alone.
- The idle time that makes a turn cold is the worker's own (router.py:936): a session that
  another worker keeps busy is recompacted although upstream has it cached.
- Conversations over the cap of lineages share one tracker; `RightContent` exempts them.

Answers
- A stream that has shown text before its call of `ctx_expand` is relayed, call and all
  (virtual_tool_handler.py:345); a buffered answer whose continuation could not be sent reaches
  the client as it was. `ExpandHidden` names both.
- A semantic hit looks at nothing but the query: neither at the model, nor at the messages
  before it, nor at whether the answer is to be streamed. Expired entries are served when a hit or an
  update has put a live one in front of them (semantic_cache.py:158 says the order is that of
  insertion): `ServedRight` names the case.
- `forward_request` sends a POST up to three times; the model may run more than once.

Folding
- `DedupCompressor` states as its safety invariant that the request with a reference "still holds
  another verbatim copy of that content", and that "the FIRST occurrence in the compressible suffix is
  kept verbatim" (dedup.py:17-26). It is not: the skeletonizers, the log truncator, the cleaners and
  the pruner come later (pipeline.py:96), and the first occurrence of a file that is twice in the
  compressible suffix goes out as a skeleton, the second as a reference to it. In `folding`'s instance
  this happens in the first request. `CopyInSight` says what is left: the copy is in the request, as
  the compressors that follow have made it, and verbatim for a content that none of them touches.
- `CopyInSight` exempts a turn that used the tally of another one, which ran beside it.
- A difference may be to a listing that is not in the request: one of a retry of this very
  message, of a later state before a cold recompact, or of another conversation of the session.
  `DeltaGrounded` exempts these.

Facts
- Two workers that correct one version, or a detachment in the middle of a chain, leave two
  current versions (`split`). Two workers may each insert the user's entity. An entity that a
  detachment made active again is not in the index until it is added to again (`revived`); an entity that another
  worker retired while it was being added to is (`raced`). Relationships stay with the version
  they were made for.

Ledger
- Events that are appended between a compaction's read and its rename are lost, though
  savings_ledger.py:6 calls the file safe across processes; two compactions share ".tmp"; a line
  that is no JSON object makes the next compaction write an empty ledger; an event that is appended to
  the part of a line that a failed write has left is lost with it, and its caller told True. `risk` collects
  these.

Learning
- The block of rules is the template of a `re.sub` (learn/plugins/writer.py:139). It replaces the
  sequences that it knows, such as an escaped backslash: an earlier rule whose trigger has one is
  written under another trigger, and is lost as what it was. That "the identity survives the write ->
  parse round trip" (writer.py:56-57) does not hold for it, and `NothingLost` claims nothing of it.
  In `learning`'s instance the dashboard or a first write appends such a rule, and a learner that
  finds it again respells it.
- For a backslash sequence that `re.sub` does not know it raises: the file keeps its old block for as
  long as the rule is found. Sequences that it knows change a directive as they do a trigger, and one
  of them, `\g<0>`, puts the whole old block into the rule: the module has only what happens to the
  triggers. Rules that become alike are one rule at the next run.
- No lock is held between reading the file and replacing it (learn/atomic_writer.py:32 and
  writer.py:95-156): what the user or another learner writes in between is lost. `NothingLost` speaks
  of the file as the learner has read it, and that it was UTF-8; one that is not is replaced.
- The dashboard's button drops what earlier runs have found.

## Plan

Done: the serializer, the gateway's turns, the cache guard, the virtual tools, and since then
folding, the fingerprint store, the semantic cache, the memory graph, the ledger and the learning.
Next, in this order:

1. Failing database calls in `CacheGuard`: a turn that could not write its row leaves memory
   ahead of the database, on one worker only.
2. An instance of `CacheGuard` at the cap of lineages.
3. `SemanticCache` composed with `GatewayTurns`: a hit gives the turn back without a row that
   was ever streaming.
4. The byte ranges of skeletons as an algorithm of their own (overlapping ranges that are
   replaced from the end).

## Not modelled, and why

Adapters, formatting, scoring, secret redaction and the dashboard page: transformation of one
request or answer, with no state that outlives it; of the compressors only what they refer to
and when they run matters, and is modelled. The byte offsets of skeletons (ast_code.py:235):
texts are atomic here. Command line but for learning and the reset of the ledger, configuration,
cache-zero recorder: plain I/O. Failing writes of the session row in `CacheGuard`. The codex
pass-through endpoint and the simulation endpoints: they do not take a turn and, but for the
simulation's direct call of `record_forwarded_turn`, keep no state. Deliberately coarse: token
counts, prices, similarity scores, and all wording.
