----------------------------- MODULE VirtualTools -----------------------------
(***************************************************************************)
(* The answer to a request whose model may call the gateway's own tool     *)
(* ctx_expand: VirtualToolResponseHandler and StreamingVirtualToolHandler  *)
(* (ctxguard/proxy/virtual_tool_handler.py) as the handlers of             *)
(* proxy/router.py use them.                                               *)
(*                                                                         *)
(* An answer that only calls ctx_expand is not for the client.  The        *)
(* gateway looks the references up, appends the answer and the results to  *)
(* the request and asks upstream again, a bounded number of times.  A      *)
(* streamed answer is held back until its first bytes tell what it is.     *)
(*                                                                         *)
(* An answer is a sequence of events, one for each thing in it that the    *)
(* handlers tell apart.  One chunk from the network carries any number of  *)
(* them.                                                                   *)
(***************************************************************************)
EXTENDS Naturals, Sequences, SequencesExt

CONSTANTS
    Answers,     \* the answers upstream may give
    MaxRounds    \* max_retrieval_rounds

\* "brief": text or framing that is too short to decide.  "lead": content, without
\* a mark of a tool call, that is long enough.  "mention": text with the quoted
\* name of ctx_expand.  "expand", "client", "memory": a call of ctx_expand, of a
\* tool of the client, of memory_save or memory_search.  "bulk": more than 6144
\* bytes.  "stop": the regular end.
Events == {"brief", "lead", "mention", "expand", "client", "memory", "bulk", "stop"}

\* The error events that end a broken stream, and the body of an error status.
Failures == {"tail", "error"}

ASSUME VirtualToolsAssumption ==
    /\ Answers \subseteq Seq(Events)
    /\ MaxRounds \in Nat \ {0}

VARIABLES
    streamed,  \* the client asked for a stream
    mode,      \* what is done with the answer
    round,     \* how many requests went upstream
    answer,    \* what upstream answers to the latest
    pos,       \* how much of it has arrived
    buffer,    \* what is held back
    first,     \* resp of a handler that does not stream: the first answer
    asked,     \* the calls and the results in the continuation payloads
    shown      \* what the client received

vars == <<streamed, mode, round, answer, pos, buffer, first, asked, shown>>

\* "probe", "relay", "collect": the phases of wrap_stream, with "relay" also for a
\* stream that is not wrapped.  "whole": an answer that is not streamed.
Modes == {"probe", "relay", "collect", "whole", "done"}

Answer == Seq(Events \cup Failures)

\* The variables have their types.
TypeOK ==
    /\ streamed \in BOOLEAN
    /\ mode \in Modes
    /\ round \in Nat \ {0}
    /\ answer \in Answer
    /\ pos \in 0..Len(answer)
    /\ buffer \in Answer
    /\ first \in Answer
    /\ asked \in SUBSET [calls : SUBSET Nat, results : SUBSET Nat]
    /\ shown \in Answer

-----------------------------------------------------------------------------
(* What the handlers read in an answer                                       *)

\* The places of what is of some kind, as it is put together from the pieces of a
\* stream (_parse_stream_to_response) or read from a body.  A call counts from its
\* name on: one that broke off is a call whose arguments are empty.
Occurs(kinds, a) == {i \in DOMAIN a : a[i] \in kinds}

\* parse_tool_calls.  The memory tools are the gateway's own too, but count as
\* tools of the client.
VirtualCalls(a) == Occurs({"expand"}, a)
OtherCalls(a) == Occurs({"client", "memory"}, a)

\* A mutation of OnlyVirtual: calls of the client's tools do not matter.
OnlyVirtualBlind(a) == VirtualCalls(a) # {}

OnlyVirtual(a) == VirtualCalls(a) # {} /\ OtherCalls(a) = {}

\* The quoted name, in a call or in text.
Names(a) == Occurs({"expand", "mention"}, a) # {}

\* What releases a stream to the client for good: its size, its end, or content that
\* comes without a call.
Flushes(a) ==
    \/ Occurs({"bulk", "stop", "tail"}, a) # {}
    \/ /\ Occurs({"lead"}, a) # {}
       /\ Occurs({"expand", "client", "memory"}, a) = {}

\* A mutation of Detected: the tests in the other order.
DetectedLate(a) == Names(a) /\ ~Flushes(a)

Detected(a) == Names(a)

\* build_continuation_payload: the answer with all its calls, and a result for
\* every call of ctx_expand, whether or not its reference is known.
Continuation(a) ==
    asked \cup {[calls |-> VirtualCalls(a) \cup OtherCalls(a),
                 results |-> VirtualCalls(a)]}

\* A continuation may be refused: the error's body takes the place of an answer.
Reply == Answers \cup {<<"error">>}

-----------------------------------------------------------------------------
(* An answer that is streamed: wrap_stream                                   *)

Chunk(j) == SubSeq(answer, pos + 1, pos + j)

Arrives(j) == pos + j <= Len(answer) /\ pos' = pos + j

Probe(j) ==
    LET seen == buffer \o Chunk(j) IN
    /\ mode = "probe"
    /\ Arrives(j)
    /\ \/ /\ Detected(seen)
          /\ mode' = "collect" /\ buffer' = seen
          /\ UNCHANGED shown
       \/ /\ ~Detected(seen) /\ Flushes(seen)
          /\ mode' = "relay" /\ buffer' = <<>>
          /\ shown' = shown \o seen
       \/ /\ ~Detected(seen) /\ ~Flushes(seen)
          /\ buffer' = seen
          /\ UNCHANGED <<mode, shown>>
    /\ UNCHANGED <<streamed, round, answer, first, asked>>

Relay(j) ==
    /\ mode = "relay"
    /\ Arrives(j)
    /\ shown' = shown \o Chunk(j)
    /\ UNCHANGED <<streamed, mode, round, answer, buffer, first, asked>>

Collect(j) ==
    /\ mode = "collect"
    /\ Arrives(j)
    /\ buffer' = buffer \o Chunk(j)
    /\ UNCHANGED <<streamed, mode, round, answer, first, asked, shown>>

\* Upstream's stream breaks.  An error and a regular end are put in the place of
\* the rest (build_aborted_tail).
Break ==
    /\ mode \in {"probe", "relay", "collect"}
    /\ pos < Len(answer)
    /\ answer[pos + 1] # "tail"
    /\ answer' = Append(SubSeq(answer, 1, pos), "tail")
    /\ UNCHANGED <<streamed, mode, round, pos, buffer, first, asked, shown>>

Ended == pos = Len(answer)

\* The end of an answer that was relayed, or was too short to decide, or was held
\* back and is for the client.
EndStream ==
    /\ Ended
    /\ \/ mode \in {"probe", "relay"}
       \/ mode = "collect" /\ ~OnlyVirtual(buffer)
    /\ mode' = "done"
    /\ shown' = shown \o buffer
    /\ buffer' = <<>>
    /\ UNCHANGED <<streamed, round, answer, pos, first, asked>>

\* A mutation of NextMode: one round too many is wrapped.
NextModeLate == IF round <= MaxRounds THEN "probe" ELSE "relay"

\* The continuation after the last round is not wrapped.
NextMode == IF round < MaxRounds THEN "probe" ELSE "relay"

\* Mutations of ContinueStream: what was held back is shown; the count of rounds
\* is not passed on; the new stream is not read from its start.
ContinueStreamShowing(a) ==
    /\ mode = "collect" /\ Ended /\ OnlyVirtual(buffer)
    /\ round' = round + 1 /\ mode' = NextMode
    /\ answer' = a /\ pos' = 0 /\ buffer' = <<>>
    /\ asked' = Continuation(buffer)
    /\ shown' = shown \o buffer
    /\ UNCHANGED <<streamed, first>>

ContinueStreamUncounted(a) ==
    /\ mode = "collect" /\ Ended /\ OnlyVirtual(buffer)
    /\ mode' = NextMode
    /\ answer' = a /\ pos' = 0 /\ buffer' = <<>>
    /\ asked' = Continuation(buffer)
    /\ UNCHANGED <<streamed, round, first, shown>>

ContinueStreamUnread(a) ==
    /\ mode = "collect" /\ Ended /\ OnlyVirtual(buffer)
    /\ round' = round + 1 /\ mode' = NextMode
    /\ answer' = a /\ buffer' = <<>>
    /\ asked' = Continuation(buffer)
    /\ UNCHANGED <<streamed, pos, first, shown>>

\* Nothing of an answer that only calls ctx_expand is shown; the next one is asked
\* for.
ContinueStream(a) ==
    /\ mode = "collect"
    /\ Ended
    /\ OnlyVirtual(buffer)
    /\ round' = round + 1
    /\ mode' = NextMode
    /\ answer' = a
    /\ pos' = 0
    /\ buffer' = <<>>
    /\ asked' = Continuation(buffer)
    /\ UNCHANGED <<streamed, first, shown>>

-----------------------------------------------------------------------------
(* An answer that is not streamed: handle_non_streaming and its caller       *)

Continues == mode = "whole" /\ round <= MaxRounds /\ OnlyVirtual(answer)

ContinueWhole(a) ==
    /\ Continues
    /\ round' = round + 1
    /\ answer' = a
    /\ asked' = Continuation(answer)
    /\ UNCHANGED <<streamed, mode, pos, buffer, first, shown>>

\* The continuation cannot be sent: the caller logs the exception and returns the
\* response it has, which is the first.
FailWhole ==
    /\ Continues
    /\ round' = round + 1
    /\ asked' = Continuation(answer)
    /\ mode' = "done"
    /\ shown' = first
    /\ UNCHANGED <<streamed, answer, pos, buffer, first>>

Deliver ==
    /\ mode = "whole"
    /\ ~Continues
    /\ mode' = "done"
    /\ shown' = answer
    /\ UNCHANGED <<streamed, round, answer, pos, buffer, first, asked>>

-----------------------------------------------------------------------------
Init ==
    /\ streamed \in BOOLEAN
    /\ answer \in Answers
    /\ mode = IF streamed THEN "probe" ELSE "whole"
    /\ first = IF streamed THEN <<>> ELSE answer
    /\ round = 1 /\ pos = 0
    /\ buffer = <<>> /\ asked = {} /\ shown = <<>>

Next ==
    \/ \E j \in 1..Len(answer) : Probe(j) \/ Relay(j) \/ Collect(j)
    \/ Break
    \/ EndStream
    \/ \E a \in Reply : ContinueStream(a) \/ ContinueWhole(a)
    \/ FailWhole
    \/ Deliver

Spec == Init /\ [][Next]_vars

\* Upstream answers, or a read timeout breaks its stream.
FairSpec == Spec /\ WF_vars(Next)

-----------------------------------------------------------------------------
(* Properties                                                                *)

\* The client sees one answer from its start and, in the end, all of it: never
\* the beginning of one that was held back, or two of them spliced.  After a
\* continuation that failed it is the first one.
OneAnswer ==
    /\ streamed => IsPrefix(shown, answer)
    /\ (~streamed /\ mode # "done") => shown = <<>>
    /\ mode = "done" => (shown = answer \/ (~streamed /\ shown = first))

\* A continuation answers every call of the assistant message it carries: providers
\* refuse one that leaves a call open, and one of the client's cannot be answered
\* here (lines 251-259 and 372-377).
CallsAnswered == \A e \in asked : e.calls = e.results

\* No more than MaxRounds continuations are asked for.
RoundsBounded == round <= MaxRounds + 1

\* The client is sent a call of ctx_expand only beside a call of another tool,
\* after the last round, after a continuation that failed, or behind text (or the
\* end of an answer) that was relayed before the call arrived.
ExpandHidden ==
    \A k \in VirtualCalls(shown) :
        \/ OtherCalls(answer) # {}
        \/ round > MaxRounds
        \/ ~streamed /\ asked # {} /\ shown = first
        \/ streamed /\ Occurs({"lead", "bulk", "stop"}, SubSeq(shown, 1, k - 1)) # {}

\* The client's request ends, however often the model calls ctx_expand.
Ends == <>(mode = "done")
=============================================================================
