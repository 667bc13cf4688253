---------------------------- MODULE MCVirtualTools ----------------------------
(* Instances of VirtualTools for TLC.                                        *)
EXTENDS VirtualTools

\* Every answer of one or two events with the end at the end, and every answer of
\* three events of the kinds whose order matters.
ShortAnswers ==
    {a \in UNION {[1..k -> Events] : k \in 1..2} : a[1] = "stop" => Len(a) = 1}
    \cup [1..3 -> {"brief", "lead", "expand", "client"}]
=============================================================================
