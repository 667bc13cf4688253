----------------------------- MODULE SemanticCache -----------------------------
(***************************************************************************)
(* Requests that may be answered from the cache of answers                 *)
(* (core/semantic_cache.py), and what the upstream client does for those   *)
(* that are not (proxy/upstream.py, forward_request).                      *)
(*                                                                         *)
(* The cache is one ordered table: a hit moves an entry to its end, an     *)
(* insert into a full one takes from its front, and expired entries are    *)
(* taken from its front too, up to the first that is not expired.  A       *)
(* request looks into it, waits for upstream when it finds nothing, and    *)
(* puts the answer in; others come in between.                             *)
(***************************************************************************)
EXTENDS Naturals, Sequences, FiniteSets, SequencesExt

CONSTANTS
    Requests,
    Contexts,   \* messages, model and system prompt, as they are hashed
    Query,      \* the text of a context's last message of role user
    NoQuery,    \* a text without a word
    Continues,  \* contexts that end with a tool's result, without a message of the user
    Rewritten,  \* a context as the pipeline leaves it
    MaxEntries, \* max_entries
    TTL,        \* ttl_seconds
    Attempts,   \* how often forward_request sends, at most
    MaxNow      \* bound: time

ASSUME CacheAssumption ==
    /\ Continues \subseteq Contexts
    /\ Rewritten \in [Contexts -> Contexts]
    /\ MaxEntries \in Nat \ {0} /\ TTL \in Nat \ {0}
    /\ Attempts \in Nat \ {0} /\ MaxNow \in Nat

VARIABLES
    order,   \* keys of the table, those that go first in front
    entry,   \* what is under each
    moved,   \* keys that were moved or refreshed since they were put in
    now,
    phase,   \* what each request is doing
    context, \* what it asks
    tries,   \* how often it was sent upstream
    answer   \* the answer it got: what it answers, and the time it was put in

vars == <<order, entry, moved, now, phase, context, tries, answer>>

NoContext == "no context"
Texts == {Query[c] : c \in Contexts}

Answer == [of : Contexts \cup {NoContext}, at : 0..MaxNow]
Entry == [query : Texts \cup {NoQuery}, of : Contexts \cup {NoContext}, at : 0..MaxNow]

NoAnswer == [of |-> NoContext, at |-> 0]
NoEntry == [query |-> NoQuery, of |-> NoContext, at |-> 0]

\* The variables have their types; no key is in the table twice, and the table
\* keeps its capacity.
TypeOK ==
    /\ order \in Seq(Contexts) /\ IsInjective(order) /\ Len(order) <= MaxEntries
    /\ entry \in [Contexts -> Entry]
    /\ moved \subseteq Range(order)
    /\ now \in 0..MaxNow
    /\ phase \in [Requests -> {"idle", "sending", "answered", "done"}]
    /\ context \in [Requests -> Contexts \cup {NoContext}]
    /\ tries \in [Requests -> 0..Attempts]
    /\ answer \in [Requests -> Answer]

-----------------------------------------------------------------------------
(* The table                                                                 *)

Expired(k) == now - entry[k].at > TTL

\* A mutation of Cleaned: nothing is cleaned up.
Uncleaned == order

\* _cleanup_expired: expired entries go, from the front to the first that is not.
Cleaned ==
    LET live == {i \in DOMAIN order : ~Expired(order[i])}
    IN IF live = {} THEN <<>> ELSE SubSeq(order, Min(live), Len(order))

\* The table when key k is moved to its end.
Touched(keys, k) ==
    LET i == CHOOSE j \in DOMAIN keys : keys[j] = k IN Append(RemoveAt(keys, i), k)

\* A mutation of Evicted: a full table takes one more.
EvictedLate(keys, k) ==
    IF k \in Range(keys) \/ Len(keys) <= MaxEntries THEN keys ELSE Tail(keys)

\* put's eviction: a new key needs room.
Evicted(keys, k) ==
    IF k \in Range(keys) \/ Len(keys) < MaxEntries THEN keys ELSE Tail(keys)

\* Entries whose query is as good as the same; a text without a word is like none.
Similar(keys, text) ==
    {k \in Range(keys) : text # NoQuery /\ entry[k].query = text}

Entries(keys) == [c \in Contexts |-> IF c \in Range(keys) THEN entry[c] ELSE NoEntry]

-----------------------------------------------------------------------------
(* Requests                                                                  *)

\* A hit is answered with what is in the cache, and its entry moves to the end.
Hit(r, keys, k) ==
    /\ order' = Touched(keys, k) /\ entry' = Entries(keys)
    /\ moved' = (moved \cap Range(keys)) \cup {k}
    /\ phase' = [phase EXCEPT ![r] = "done"]
    /\ answer' = [answer EXCEPT ![r] = [of |-> entry[k].of, at |-> entry[k].at]]

Miss(r, keys) ==
    /\ order' = keys /\ entry' = Entries(keys)
    /\ moved' = moved \cap Range(keys)
    /\ phase' = [phase EXCEPT ![r] = "sending"]
    /\ UNCHANGED answer

\* A request comes in: get looks for its very context, then for a query like its own.
Get(r, c) ==
    /\ phase[r] = "idle"
    /\ context' = [context EXCEPT ![r] = c]
    /\ LET keys == Cleaned
           alike == Similar(keys, Query[c])
       IN IF c \in Range(keys) THEN Hit(r, keys, c)
          ELSE \/ \E k \in alike : Hit(r, keys, k)
               \/ alike = {} /\ Miss(r, keys)
    /\ UNCHANGED <<now, tries>>

\* It is sent, and the model answers; the answer is not in the cache yet.
Send(r) ==
    /\ phase[r] = "sending" /\ tries[r] < Attempts
    /\ tries' = [tries EXCEPT ![r] = @ + 1]
    /\ phase' = [phase EXCEPT ![r] = "answered"]
    /\ UNCHANGED <<order, entry, moved, now, context, answer>>

\* The connection breaks, before or after the model has run: it is sent again, or
\* the last attempt's exception is raised.
Break(r) ==
    /\ phase[r] = "sending" /\ tries[r] < Attempts
    /\ tries' = [tries EXCEPT ![r] = @ + 1]
    /\ phase' = [phase EXCEPT ![r] = IF tries'[r] < Attempts THEN @ ELSE "done"]
    /\ UNCHANGED <<order, entry, moved, now, context, answer>>

Replies(r) ==
    /\ phase' = [phase EXCEPT ![r] = "done"]
    /\ answer' = [answer EXCEPT ![r] = [of |-> context[r], at |-> now]]

\* Another status than 200 is not put in.
PassOn(r) ==
    /\ phase[r] = "answered"
    /\ Replies(r)
    /\ UNCHANGED <<order, entry, moved, now, context, tries>>

\* put, under the hash of the messages as they are now: those with blocks share
\* them with the request that the pipeline has rewritten.  A key that is there
\* stays where it is.
Put(r, k) ==
    /\ phase[r] = "answered" /\ k \in {context[r], Rewritten[context[r]]}
    /\ Replies(r)
    /\ LET keys == Evicted(Cleaned, k)
       IN /\ order' = IF k \in Range(keys) THEN keys ELSE Append(keys, k)
          /\ moved' = (moved \cap Range(keys)) \cup (Range(keys) \cap {k})
          /\ entry' = [Entries(keys) EXCEPT ![k] = [query |-> Query[context[r]], of |-> context[r],
                                                     at |-> now]]
    /\ UNCHANGED <<now, context, tries>>

\* Its place is free for another request.
Leave(r) ==
    /\ phase[r] = "done"
    /\ phase' = [phase EXCEPT ![r] = "idle"]
    /\ context' = [context EXCEPT ![r] = NoContext]
    /\ tries' = [tries EXCEPT ![r] = 0]
    /\ answer' = [answer EXCEPT ![r] = NoAnswer]
    /\ UNCHANGED <<order, entry, moved, now>>

Tick ==
    /\ now < MaxNow
    /\ now' = now + 1
    /\ UNCHANGED <<order, entry, moved, phase, context, tries, answer>>

Init ==
    /\ order = <<>> /\ moved = {}
    /\ entry = [c \in Contexts |-> NoEntry]
    /\ now = 0
    /\ phase = [r \in Requests |-> "idle"]
    /\ context = [r \in Requests |-> NoContext]
    /\ tries = [r \in Requests |-> 0]
    /\ answer = [r \in Requests |-> NoAnswer]

Next ==
    \/ \E r \in Requests : \/ \E c \in Contexts : Get(r, c)
                           \/ \E k \in Contexts : Put(r, k)
                           \/ Send(r) \/ Break(r) \/ PassOn(r) \/ Leave(r)
    \/ Tick

Spec == Init /\ [][Next]_vars
-----------------------------------------------------------------------------
(* Properties                                                                *)

\* The answer is one to this context, or to one that the pipeline made this of.
Exact(r) ==
    answer[r].of # NoContext =>
        answer[r].of = context[r] \/ Rewritten[answer[r].of] = context[r]

\* What get may give a request: an entry whose time is over only if it was hit
\* before, or one in front of it was hit or refreshed, and so the order is not that
\* of age; and one for another context only when the request has a query.
ServedRight ==
    [][\A r \in Requests : phase[r] = "idle" /\ phase'[r] = "done" =>
          /\ \/ now - answer'[r].at <= TTL
             \/ Last(order') \in moved \/ Head(order') \in moved
          /\ Query[context'[r]] = NoQuery => Exact(r)']_vars

\* "Never semantically match empty query turns (e.g. tool results)": a request that
\* continues after a tool's result only gets an answer to its own context.
ToolTurnsExact == \A r \in Requests : context[r] \in Continues => Exact(r)
=============================================================================
