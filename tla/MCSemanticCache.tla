---------------------------- MODULE MCSemanticCache ----------------------------
(* Instances of SemanticCache for TLC.                                       *)
EXTENDS SemanticCache, TLC

\* A question; its continuation after a tool's result; two with nothing but a
\* result, the second of which is what the pipeline makes of the first.
MCContexts == {"ask", "tool", "result", "folded"}

MCQuery == [c \in MCContexts |-> IF c \in {"ask", "tool"} THEN "question" ELSE ""]
MCRewritten == [c \in MCContexts |-> IF c = "result" THEN "folded" ELSE c]

Symmetry == Permutations(Requests)
=============================================================================
