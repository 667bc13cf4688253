------------------------------ MODULE MCLearning ------------------------------
(* Instances of Learning for TLC.                                            *)
EXTENDS Learning

CONSTANTS s1, s2

\* Two transcripts: the later one may resume the other.
Transcripts == <<s1, s2>>

\* A call fails, or repeats a query in another form.
Calls == {<<TRUE, FALSE>>, <<FALSE, TRUE>>}

\* A query for a digit, \\d in the shell's double quotes, which re.sub turns into \d;
\* the name of a tool has no backslash.
Query(c) == [family |-> "refetch", cmd |-> c]
Unescaped == [k \in {Query("rg")} |-> Query("rg, unescaped")]

\* \d is none of the sequences that it knows.
Queries == {Query("rg, unescaped")}
=============================================================================
