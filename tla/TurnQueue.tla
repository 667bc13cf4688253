------------------------------- MODULE TurnQueue -------------------------------
(***************************************************************************)
(* What the gateway's handlers rely on when they ask the session           *)
(* serializer for a turn (class docstring and acquire of                   *)
(* ctxguard/core/guards/session_serializer.py): at any time at most one    *)
(* request holds the turn of a session.  Requests that were not serialized *)
(* - sessions without an id, waits that timed out - hold no turn.          *)
(***************************************************************************)
CONSTANTS
    Tasks,      \* request tasks
    Sessions,   \* sessions that are serialized
    NoSession   \* holds no turn: none of Sessions

VARIABLE holds   \* the session whose turn each task holds

TypeOK == holds \in [Tasks -> Sessions \cup {NoSession}]

Init == holds = [t \in Tasks |-> NoSession]

Free(s) == \A t \in Tasks : holds[t] # s

Begin(t, s) ==
    /\ holds[t] = NoSession
    /\ Free(s)
    /\ holds' = [holds EXCEPT ![t] = s]

End(t) ==
    /\ holds[t] # NoSession
    /\ holds' = [holds EXCEPT ![t] = NoSession]

Next == \E t \in Tasks : End(t) \/ \E s \in Sessions : Begin(t, s)

Spec == Init /\ [][Next]_holds
=============================================================================
