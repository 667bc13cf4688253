-------------------------------- MODULE Folding --------------------------------
(***************************************************************************)
(* How CompressionPipeline.process_sync (ctxguard/core/pipeline.py) makes   *)
(* the messages of a request shorter: the leading messages that were       *)
(* forwarded before are repeated, and the rest goes through the            *)
(* compressors, one after the other.  ToolDeltaCompressor replaces a       *)
(* listing by what changed since an earlier one, DedupCompressor a content *)
(* by a reference to another copy in the same request, and the others      *)
(* shorten what they know how to shorten.                                  *)
(*                                                                         *)
(* The compressors keep tables per session.  Conversations that share the  *)
(* session share the tables, and a turn whose wait for the session timed   *)
(* out runs beside another turn, in another thread.                        *)
(*                                                                         *)
(* A text is a model value; what matters is its lines, when it is a        *)
(* listing, and which compressor shortens it.                              *)
(***************************************************************************)
EXTENDS Naturals, Sequences, FiniteSets

CONSTANTS
    Script,          \* the texts of each conversation of the session
    Nobody,          \* no conversation
    System,          \* texts of messages with the role system
    Assistant,       \* ... and assistant
    Lines,           \* text -> its set of lines; {} when it is no listing
    Diffs,           \* texts that GitDiffCompressor shortens
    Parsed,          \* ... for whose language there is a tree-sitter parser
    Python,          \* ... that Python's own parser accepts
    Braced,          \* ... in which functions can be told by their braces
    Long,            \* ... that LogTruncator does
    Untidy,          \* ... with escape sequences, or superfluous white space
    Progress,        \* ... with the frames of a progress bar
    Repeated,        \* ... with a line that is repeated
    Tables,          \* ... with an array of objects that are alike
    Prose,           \* ... that SemanticPruner, when it is switched on, prunes
    Short,           \* texts under min_chars of the dedup configuration
    Excluded,        \* texts that match its exclude_patterns
    MaxDelta,        \* max_delta_items
    FreezeMessages,  \* freeze_prefix_rounds * 2
    MaxTurns,        \* bound: requests that arrive
    MaxTimeouts,     \* bound: turns that run without the session's lock
    MaxRestarts      \* bound: restarts of the worker

Conversations == DOMAIN Script
Texts == UNION {{Script[c][i] : i \in DOMAIN Script[c]} : c \in Conversations}

ASSUME FoldingAssumption ==
    /\ \A c \in Conversations : Script[c] \in Seq(Texts) /\ Script[c] # <<>>
    /\ Nobody \notin Conversations
    /\ DOMAIN Lines = Texts /\ \A t \in Texts : IsFiniteSet(Lines[t])
    /\ MaxDelta \in Nat /\ FreezeMessages \in Nat
    /\ MaxTurns \in Nat /\ MaxTimeouts \in Nat /\ MaxRestarts \in Nat

VARIABLES
    snapshots,  \* ToolDeltaCompressor.session_snapshots of the session
    tally,      \* DedupCompressor._prefix_shas of the session, and whose they are
    phase,      \* "idle", "frozen", "indexed" or "sent"
    n,          \* how many messages the conversation's request has
    out,        \* the frozen prefix, then what its turn forwards
    wire,       \* what its last recorded turn forwarded
    done,       \* how many of its messages have been through the compressors
    again,      \* conversations one of whose messages has been twice
    mixed,      \* ... one of whose turns used the tally of another's
    turns, timeouts, restarts

tables == <<snapshots, tally>>
request == <<phase, n, out, wire>>
history == <<done, again, mixed>>
bounds == <<turns, timeouts, restarts>>
vars == <<tables, request, history, bounds>>

Kinds == {"plain", "same", "delta", "patch", "skeleton", "excerpt", "tidy", "merged",
          "folded", "rows", "pruned"}

\* A message as it is forwarded: a text, what a compressor made of it, the text
\* this is relative to, and whether dedup has put a reference in its place.
Form == [kind : Kinds, text : Texts, base : Texts, ref : BOOLEAN]
Plain(t) == [kind |-> "plain", text |-> t, base |-> t, ref |-> FALSE]
Forms == Seq(Form)

\* Texts that ToolDeltaCompressor knows to be listings.
Listed == {t \in Texts \ Assistant : Lines[t] # {}}

\* The variables have their types: only listings become snapshots, though every
\* message goes through the compressor.
TypeOK ==
    /\ snapshots \in Seq(Listed)
    /\ tally.owner \in Conversations \cup {Nobody} /\ tally.seen \subseteq Form
    /\ phase \in [Conversations -> {"idle", "frozen", "indexed", "sent"}]
    /\ n \in [Conversations -> Nat]
    /\ out \in [Conversations -> Forms]
    /\ wire \in [Conversations -> Forms]
    /\ done \in [Conversations -> Nat]
    /\ again \subseteq Conversations /\ mixed \subseteq Conversations
    /\ turns \in 0..MaxTurns /\ timeouts \in 0..MaxTimeouts
    /\ restarts \in 0..MaxRestarts

-----------------------------------------------------------------------------
(* ToolDeltaCompressor                                                       *)

Common(s, t) == Cardinality(Lines[s] \cap Lines[t])
Together(s, t) == Cardinality(Lines[s] \cup Lines[t])
Changes(s, t) == Together(s, t) - Common(s, t)

\* The listing s is at least as like t as r is: Jaccard similarity.
NoCloser(r, s, t) == Common(r, t) * Together(s, t) <= Common(s, t) * Together(r, t)

\* k is the snapshot that t is compared with: the first of those most like it,
\* provided half of their lines are the same.
Best(snaps, t, k) ==
    /\ 2 * Common(snaps[k], t) >= Together(snaps[k], t)
    /\ \A j \in DOMAIN snaps :
        /\ NoCloser(snaps[j], snaps[k], t)
        /\ j < k => ~NoCloser(snaps[k], snaps[j], t)

\* What is forwarded for t when the snapshot is s.  A delta of more than
\* MaxDelta lines is not worth it (the bound on the ratio is like it).
Compared(s, t) ==
    LET against(kind) == [kind |-> kind, text |-> t, base |-> s, ref |-> FALSE]
    IN IF Lines[s] = Lines[t] THEN against("same")
       ELSE IF Changes(s, t) <= MaxDelta THEN against("delta")
       ELSE Plain(t)

\* Mutations of DiffAndCompress: every text that is not the assistant's is taken
\* for a listing; the listing is recorded before it is compared.
DiffAndCompressAny(snaps, t) ==
    IF t \in Assistant THEN [snaps |-> snaps, form |-> Plain(t)]
    ELSE IF \E k \in DOMAIN snaps : Best(snaps, t, k)
    THEN LET k == CHOOSE j \in DOMAIN snaps : Best(snaps, t, j)
         IN [snaps |-> [snaps EXCEPT ![k] = t], form |-> Compared(snaps[k], t)]
    ELSE [snaps |-> Append(snaps, t), form |-> Plain(t)]

DiffAndCompressLate(snaps, t) ==
    IF t \notin Listed THEN [snaps |-> snaps, form |-> Plain(t)]
    ELSE [snaps |-> Append(snaps, t), form |-> Compared(t, t)]

\* One message: the listing becomes the snapshot whatever is forwarded for it.
DiffAndCompress(snaps, t) ==
    IF t \notin Listed THEN [snaps |-> snaps, form |-> Plain(t)]
    ELSE IF \E k \in DOMAIN snaps : Best(snaps, t, k)
    THEN LET k == CHOOSE j \in DOMAIN snaps : Best(snaps, t, j)
         IN [snaps |-> [snaps EXCEPT ![k] = t], form |-> Compared(snaps[k], t)]
    ELSE [snaps |-> Append(snaps, t), form |-> Plain(t)]

\* The messages ts in turn: the snapshots after each of them.
ToolDelta(ts) ==
    LET after[i \in 0..Len(ts)] ==
            IF i = 0 THEN snapshots ELSE DiffAndCompress(after[i - 1], ts[i]).snaps
    IN after

-----------------------------------------------------------------------------
(* The other compressors, in their order                                     *)

Untouched(f) == f.kind = "plain" /\ ~f.ref

Shorten(f, kind, texts) ==
    IF Untouched(f) /\ f.text \in texts THEN [f EXCEPT !.kind = kind] ELSE f

GitDiff(f) == Shorten(f, "patch", Diffs \ Assistant)

\* Contents of a message that dedup knows: long enough to be worth a reference.
Counted(f) == ~(Untouched(f) /\ f.text \in Short)

\* Messages in which it looks for repetitions, and those it leaves as they are.
Dedupable(f) == f.text \notin System \cup Assistant /\ Counted(f)
IsExcluded(f) == Untouched(f) /\ f.text \in Excluded

\* Position i of the suffix repeats what the prefix or an earlier message shows.
Repeats(fs, i, seen) ==
    /\ Dedupable(fs[i]) /\ ~IsExcluded(fs[i])
    /\ \/ fs[i] \in seen
       \/ \E j \in 1..(i - 1) : Dedupable(fs[j]) /\ fs[j] = fs[i]

\* The first copy stays, the others become references to it.
Dedup(fs, seen) ==
    [i \in DOMAIN fs |->
        IF Repeats(fs, i, seen) THEN [fs[i] EXCEPT !.ref = TRUE] ELSE fs[i]]

\* ASTCodeCompressor: the first skeletonizer that finds a function to fold.
TreeSitter(f) == Shorten(f, "skeleton", Parsed)
PythonAST(f) == Shorten(f, "skeleton", Python)
GenericBrace(f) == Shorten(f, "skeleton", Braced)
Skeletonize(f) ==
    IF f.text \in Assistant THEN f ELSE GenericBrace(PythonAST(TreeSitter(f)))

TruncateLog(f) == Shorten(f, "excerpt", Long \ (System \cup Assistant))

\* BaseCompressor.process spares nothing but system messages.
Clean(f) == Shorten(f, "tidy", Untidy \ System)
MergeProgress(f) == Shorten(f, "merged", Progress \ System)
FoldStacktrace(f) == Shorten(f, "folded", Repeated \ System)
CompressJSON(f) == Shorten(f, "rows", Tables \ System)

Prune(f) == Shorten(f, "pruned", Prose \ (System \cup Assistant))

\* What the compressors after dedup do to a message.
AfterDedup(f) ==
    Prune(CompressJSON(FoldStacktrace(MergeProgress(Clean(TruncateLog(Skeletonize(f)))))))

Compressed(ts, seen) ==
    LET snaps == ToolDelta(ts)
        fs == [i \in DOMAIN ts |-> GitDiff(DiffAndCompress(snaps[i - 1], ts[i]).form)]
        folded == Dedup(fs, seen)
    IN [i \in DOMAIN ts |-> AfterDedup(folded[i])]

-----------------------------------------------------------------------------
(* Steps of a turn                                                           *)

Active == {c \in Conversations : phase[c] # "idle"}

Lesser(a, b) == IF a <= b THEN a ELSE b

\* How many leading messages are not compressed: none when the cache is cold,
\* else those that were forwarded before, and never the last message.
FrozenCount(c, m, cold) ==
    IF cold THEN 0
    ELSE Lesser(m - 1, IF wire[c] # <<>> THEN Len(wire[c]) ELSE FreezeMessages)

Prefix(c, k) ==
    [i \in 1..k |-> IF wire[c] # <<>> THEN wire[c][i] ELSE Plain(Script[c][i])]

\* A request arrives and is partitioned: the client appended to the conversation
\* or sends the last request again.
Arrive(c, m, cold) ==
    /\ phase[c] = "idle"
    /\ turns < MaxTurns
    /\ m \in 1..Len(Script[c]) /\ m >= n[c]
    /\ Active # {} => timeouts < MaxTimeouts
    /\ timeouts' = IF Active # {} THEN timeouts + 1 ELSE timeouts
    /\ phase' = [phase EXCEPT ![c] = "frozen"]
    /\ n' = [n EXCEPT ![c] = m]
    /\ out' = [out EXCEPT ![c] = Prefix(c, FrozenCount(c, m, cold))]
    /\ turns' = turns + 1
    /\ UNCHANGED <<tables, wire, history, restarts>>

\* The contents that the frozen prefix shows.
Seen(fs) == {fs[i] : i \in {j \in DOMAIN fs : Counted(fs[j])}}

\* A mutation of IndexPrefix: the contents of earlier requests still count.
IndexPrefixKept(c) ==
    /\ phase[c] = "frozen"
    /\ phase' = [phase EXCEPT ![c] = "indexed"]
    /\ tally' = [owner |-> c, seen |-> tally.seen \cup Seen(out[c])]
    /\ UNCHANGED <<snapshots, n, out, wire, history, bounds>>

\* DedupCompressor.index_prefix.
IndexPrefix(c) ==
    /\ phase[c] = "frozen"
    /\ phase' = [phase EXCEPT ![c] = "indexed"]
    /\ tally' = [owner |-> c, seen |-> Seen(out[c])]
    /\ UNCHANGED <<snapshots, n, out, wire, history, bounds>>

\* The compressors run on what follows the prefix, and the request is sent.
Compress(c) ==
    LET ts == SubSeq(Script[c], Len(out[c]) + 1, n[c])
    IN /\ phase[c] = "indexed"
       /\ phase' = [phase EXCEPT ![c] = "sent"]
       /\ out' = [out EXCEPT ![c] = @ \o Compressed(ts, tally.seen)]
       /\ snapshots' = ToolDelta(ts)[Len(ts)]
       /\ done' = [done EXCEPT ![c] = n[c]]
       /\ again' = IF Len(out[c]) < done[c] THEN again \cup {c} ELSE again
       /\ mixed' = IF tally.owner # c THEN mixed \cup {c} ELSE mixed
       /\ UNCHANGED <<tally, n, wire, bounds>>

\* Upstream answers, and the turn is recorded.
Answer(c) ==
    /\ phase[c] = "sent"
    /\ phase' = [phase EXCEPT ![c] = "idle"]
    /\ wire' = [wire EXCEPT ![c] = out[c]]
    /\ out' = [out EXCEPT ![c] = <<>>]
    /\ UNCHANGED <<tables, n, history, bounds>>

\* Upstream fails, or the client is gone: nothing is recorded.
Fail(c) ==
    /\ phase[c] = "sent"
    /\ phase' = [phase EXCEPT ![c] = "idle"]
    /\ out' = [out EXCEPT ![c] = <<>>]
    /\ UNCHANGED <<tables, n, wire, history, bounds>>

\* The worker restarts; what was forwarded is read back from the session's row.
Restart ==
    /\ restarts < MaxRestarts
    /\ restarts' = restarts + 1
    /\ snapshots' = <<>>
    /\ tally' = [owner |-> Nobody, seen |-> {}]
    /\ phase' = [c \in Conversations |-> "idle"]
    /\ out' = [c \in Conversations |-> <<>>]
    /\ UNCHANGED <<n, wire, history, turns, timeouts>>

Init ==
    /\ snapshots = <<>>
    /\ tally = [owner |-> Nobody, seen |-> {}]
    /\ phase = [c \in Conversations |-> "idle"]
    /\ n = [c \in Conversations |-> 0]
    /\ out = [c \in Conversations |-> <<>>]
    /\ wire = [c \in Conversations |-> <<>>]
    /\ done = [c \in Conversations |-> 0]
    /\ again = {} /\ mixed = {}
    /\ turns = 0 /\ timeouts = 0 /\ restarts = 0

Next ==
    \/ \E c \in Conversations :
        \/ \E m \in 1..Len(Script[c]), cold \in BOOLEAN : Arrive(c, m, cold)
        \/ IndexPrefix(c)
        \/ Compress(c)
        \/ Answer(c)
        \/ Fail(c)
    \/ Restart

Spec == Init /\ [][Next]_vars

-----------------------------------------------------------------------------
(* Properties                                                                *)

Requests == {c \in Conversations : phase[c] = "sent"}

\* The content that a reference stands for.
Copied(f) == [f EXCEPT !.ref = FALSE]

\* What the code keeps of DedupCompressor's safety invariant: before a reference
\* the same request shows the message that it is a copy of, whole or as the
\* compressors after dedup have shortened it.  Its docstring (dedup.py, lines 17-26)
\* demands a verbatim copy: that is kept only for contents that none of them touches.
\* The exception is a turn that used the prefix of another turn of its session.
CopyInSight ==
    \A c \in Requests \ mixed : \A i \in DOMAIN out[c] :
        out[c][i].ref =>
            \E j \in 1..(i - 1) :
                out[c][j] \in {Copied(out[c][i]), AfterDedup(Copied(out[c][i]))}

\* A listing that is forwarded as a difference, or as unchanged, is so relative to
\* a listing before it in the same request: in a session with one conversation,
\* none of whose messages went through the compressors twice.
DeltaGrounded ==
    \A c \in Requests \ again :
        {d \in Conversations : done[d] > 0} = {c} =>
        \A i \in DOMAIN out[c] :
            out[c][i].kind \in {"same", "delta"} =>
                \E j \in 1..(i - 1) : out[c][j].text = out[c][i].base
=============================================================================
