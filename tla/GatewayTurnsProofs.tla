-------------------------- MODULE GatewayTurnsProofs --------------------------
(* Theorems about GatewayTurns, for every number of requests, sessions and    *)
(* workers and any number of crashes.                                         *)
EXTENDS GatewayTurns, TLAPS

LEMMA InitType == Init => TypeOK
BY GatewayAssumption DEF Init, TypeOK, Phases, Statuses, Failures

LEMMA StepType == TypeOK /\ [Next]_vars => TypeOK'
<1> SUFFICES ASSUME TypeOK, [Next]_vars  PROVE TypeOK'
  OBVIOUS
<1> USE DEF TypeOK, Phases, Statuses, Failures, Relayed, Goto
<1>u. CASE UNCHANGED vars
  BY <1>u DEF vars, sent
<1>1. ASSUME NEW r \in Requests, Arrive(r)  PROVE TypeOK'
  BY <1>1 DEF Arrive, sent
<1>2. ASSUME NEW r \in Requests, Enter(r)  PROVE TypeOK'
  BY <1>2 DEF Enter, sent, Turns!Begin
<1>3. ASSUME NEW r \in Requests, TimeOut(r)  PROVE TypeOK'
  BY <1>3 DEF TimeOut, sent
<1>4. ASSUME NEW r \in Requests, Unlock(r)
      PROVE  holds' \in [Requests -> (Workers \X Sessions) \cup {NoTurn}]
  BY <1>4 DEF Unlock, Turns!End
<1>5. ASSUME NEW r \in Requests, Proceed(r)  PROVE TypeOK'
  <2> USE DEF sent, SetRow, Fail, Record, Completed, Errored
  <2>1. CASE AnswerLocally(r)
    BY <2>1, <1>4 DEF AnswerLocally
  <2>2. CASE Raise(r)
    BY <2>2, <1>4 DEF Raise
  <2>3. CASE CallUpstream(r)
    BY <2>3 DEF CallUpstream, Kinds
  <2>4. CASE Refused(r)
    BY <2>4, <1>4 DEF Refused
  <2>4a. CASE FailToRead(r)
    BY <2>4a, <1>4 DEF FailToRead
  <2>5. CASE Answer(r)
    BY <2>5, <1>4 DEF Answer
  <2>6. CASE HandOver(r) \/ Start(r) \/ Drop(r)
    BY <2>6 DEF HandOver, Start, Drop
  <2>7. CASE Break(r)
    BY <2>7 DEF Break
  <2>7a. CASE Continue(r) \/ BreakContinuation(r)
    BY <2>7a DEF Continue, BreakContinuation
  <2>8. CASE Finish(r)
    BY <2>8, <1>4 DEF Finish
  <2>9. CASE Abandon(r)
    BY <2>9, <1>4 DEF Abandon
  <2>10. CASE Finalize(r)
    BY <2>10 DEF Finalize
  <2> QED  BY <1>5, <2>1, <2>2, <2>3, <2>4, <2>4a, <2>5, <2>6, <2>7, <2>7a, <2>8,
              <2>9, <2>10
              DEF Proceed
<1>6. ASSUME NEW w \in Workers, Crash(w)  PROVE TypeOK'
  BY <1>6, GatewayAssumption DEF Crash, sent
<1>7. ASSUME NEW w \in Workers, Restart(w)  PROVE TypeOK'
  BY <1>7 DEF Restart, sent, Errored
<1> QED  BY <1>u, <1>1, <1>2, <1>3, <1>5, <1>6, <1>7 DEF Next

\* The variables keep their types.
THEOREM TypeCorrect == Spec => []TypeOK
BY InitType, StepType, PTL DEF Spec

-----------------------------------------------------------------------------
(* Rows, failures and records                                                *)

\* Requests that have not called upstream, and those whose stream goes on.
Early == {"new", "queued", "turn"}
Open == {"asking", "handed", "relaying", "dropped"}

\* What is known of a request's row, outcome and records in each phase: it
\* fails with an open row, before anything completes the row, and is recorded
\* in the last step of its turn.
Account(r) ==
    /\ phase[r] \in Early => row[r] = "none" /\ failed[r] = "none"
    /\ phase[r] = "local" => row[r] = "completed" /\ failed[r] = "none"
    /\ phase[r] \in Open /\ kind[r] = "stream" => row[r] \in {"streaming", "error"}
    /\ phase[r] \in Early \cup Open \cup {"tail", "continuing", "abandoned", "local",
                                           "unread"}
          => records[r] = 0
    /\ records[r] <= 1
    /\ phase[r] = "done" /\ kind[r] = "stream" /\ row[r] = "completed" => records[r] = 1
    /\ kind[r] = "stream" /\ failed[r] = "first" => row[r] = "error" \/ phase[r] = "unread"

Accounts == \A r \in Requests : Account(r)

LEMMA AccountsSuffice == Accounts => FailureShown /\ RecordedOnce
BY DEF Accounts, Account, FailureShown, RecordedOnce, Early, Open

LEMMA InitAccounts == Init => Accounts
BY DEF Init, Accounts, Account, Early, Open

\* A step of one request leaves the accounts of the others alone.
Only(r) ==
    /\ UNCHANGED sent
    /\ \A q \in Requests \ {r} : /\ phase'[q] = phase[q] /\ row'[q] = row[q]
                                 /\ failed'[q] = failed[q] /\ records'[q] = records[q]

LEMMA OneRequest ==
    ASSUME TypeOK, NEW r \in Requests,
           Arrive(r) \/ Enter(r) \/ TimeOut(r) \/ Proceed(r)
    PROVE  Only(r)
<1> USE DEF TypeOK, Only, sent, Goto
<1>1. CASE Arrive(r) \/ Enter(r) \/ TimeOut(r)
  BY <1>1 DEF Arrive, Enter, TimeOut
<1>2. CASE AnswerLocally(r) \/ Raise(r) \/ CallUpstream(r)
  BY <1>2 DEF AnswerLocally, Raise, CallUpstream, SetRow
<1>3. CASE Refused(r) \/ FailToRead(r) \/ Answer(r) \/ HandOver(r) \/ Start(r) \/ Drop(r)
  BY <1>3 DEF Refused, FailToRead, Answer, HandOver, Start, Drop, SetRow, Fail, Record
<1>4. CASE Break(r) \/ Continue(r) \/ BreakContinuation(r)
           \/ Finish(r) \/ Abandon(r) \/ Finalize(r)
  BY <1>4 DEF Break, Continue, BreakContinuation, Relayed, Finish, Abandon, Finalize, SetRow, Fail, Record
<1> QED  BY <1>1, <1>2, <1>3, <1>4 DEF Proceed

\* Each step keeps the account of the request that takes it.
LEMMA OwnAccount ==
    ASSUME TypeOK, NEW r \in Requests, Account(r),
           Arrive(r) \/ Enter(r) \/ TimeOut(r) \/ Proceed(r)
    PROVE  Account(r)'
<1> USE DEF TypeOK, Account, Early, Open, Relayed, sent, Goto, SetRow, Fail, Record,
            Completed, Errored
<1>1. CASE Arrive(r)
  BY <1>1 DEF Arrive
<1>2. CASE Enter(r) \/ TimeOut(r)
  BY <1>2 DEF Enter, TimeOut
<1>3. CASE AnswerLocally(r)
  BY <1>3 DEF AnswerLocally
<1>4. CASE Raise(r)
  BY <1>4 DEF Raise
<1>5. CASE CallUpstream(r)
  BY <1>5 DEF CallUpstream, Kinds
<1>6. CASE Refused(r) \/ FailToRead(r)
  BY <1>6 DEF Refused, FailToRead
<1>7. CASE Answer(r)
  BY <1>7 DEF Answer
<1>8. CASE HandOver(r) \/ Start(r) \/ Drop(r)
  BY <1>8 DEF HandOver, Start, Drop
<1>9. CASE Break(r)
  BY <1>9 DEF Break
<1>9a. CASE Continue(r) \/ BreakContinuation(r)
  BY <1>9a DEF Continue, BreakContinuation
<1>10. CASE Finish(r)
  BY <1>10 DEF Finish
<1>11. CASE Abandon(r)
  BY <1>11 DEF Abandon
<1>12. CASE Finalize(r)
  BY <1>12 DEF Finalize
<1> QED  BY <1>1, <1>2, <1>3, <1>4, <1>5, <1>6, <1>7, <1>8, <1>9, <1>9a, <1>10,
            <1>11, <1>12
            DEF Proceed

LEMMA StepAccounts == TypeOK /\ Accounts /\ [Next]_vars => Accounts'
<1> SUFFICES ASSUME TypeOK, Accounts, [Next]_vars  PROVE Accounts'
  OBVIOUS
<1>u. CASE UNCHANGED vars
  BY <1>u DEF vars, sent, Accounts, Account
<1>1. ASSUME NEW r \in Requests, Arrive(r) \/ Enter(r) \/ TimeOut(r) \/ Proceed(r)
      PROVE  Accounts'
  <2>1. Account(r)'
    BY <1>1, OwnAccount DEF Accounts
  <2>2. Only(r)
    BY <1>1, OneRequest
  <2> QED  BY <2>1, <2>2 DEF Accounts, Account, Only, sent
<1>2. ASSUME NEW w \in Workers, Crash(w)  PROVE Accounts'
  BY <1>2 DEF TypeOK, Crash, Alive, sent, Accounts, Account, Early, Open
<1>3. ASSUME NEW w \in Workers, Restart(w)  PROVE Accounts'
  BY <1>3 DEF TypeOK, Restart, sent, Accounts, Account, Early, Open, Errored
<1> QED  BY <1>u, <1>1, <1>2, <1>3 DEF Next

\* A request whose own stream was refused or broke off is shown as an error for
\* good, whatever its continuations, its generators' finally blocks, abandoned
\* callbacks and other workers do to the row.  Of a failing continuation nothing
\* is said: forward_stream hides it from the row.
THEOREM FailureShownCorrect == Spec => []FailureShown
BY InitType, StepType, InitAccounts, StepAccounts, AccountsSuffice, PTL DEF Spec

\* A relayed turn reaches the cache guard exactly once.
THEOREM RecordedOnceCorrect == Spec => []RecordedOnce
BY InitType, StepType, InitAccounts, StepAccounts, AccountsSuffice, PTL DEF Spec

\* Only a request without a row enters one, so no step takes "error" back.
LEMMA StepErrorSticks ==
    TypeOK /\ Accounts /\ [Next]_vars
        => [\A r \in Requests : row[r] = "error" => row'[r] = "error"]_vars
<1> SUFFICES ASSUME TypeOK, Accounts, Next, NEW q \in Requests, row[q] = "error"
             PROVE  row'[q] = "error"
  OBVIOUS
<1>1. ASSUME NEW r \in Requests, Arrive(r) \/ Enter(r) \/ TimeOut(r) \/ Proceed(r)
      PROVE  row'[q] = "error"
  <2>1. CASE q # r
    BY <1>1, <2>1, OneRequest DEF Only
  <2>2. CASE q = r
    <3> USE <2>2 DEF TypeOK, Accounts, Account, Early, SetRow, Completed, Errored
    <3>1. CASE Arrive(r) \/ Enter(r) \/ TimeOut(r) \/ Raise(r) \/ HandOver(r) \/ Start(r) \/ Drop(r)
      BY <3>1 DEF Arrive, Enter, TimeOut, Raise, HandOver, Start, Drop
    <3>2. CASE AnswerLocally(r) \/ CallUpstream(r)
      BY <3>2 DEF AnswerLocally, CallUpstream
    <3>3. CASE Refused(r) \/ FailToRead(r) \/ Answer(r) \/ Break(r) \/ Continue(r)
               \/ BreakContinuation(r)
      BY <3>3 DEF Refused, FailToRead, Answer, Break, Continue, BreakContinuation
    <3>4. CASE Finish(r) \/ Abandon(r) \/ Finalize(r)
      BY <3>4 DEF Finish, Abandon, Finalize
    <3> QED  BY <1>1, <3>1, <3>2, <3>3, <3>4 DEF Proceed
  <2> QED  BY <2>1, <2>2
<1>2. ASSUME NEW w \in Workers, Crash(w) \/ Restart(w)  PROVE row'[q] = "error"
  BY <1>2 DEF TypeOK, Crash, Restart, Errored
<1> QED  BY <1>1, <1>2 DEF Next

\* "Sticky error": no callback, and no other worker's sweep, takes an error
\* back.
THEOREM ErrorSticksCorrect == Spec => ErrorSticks
BY InitType, StepType, InitAccounts, StepAccounts, StepErrorSticks, PTL
   DEF Spec, ErrorSticks
-----------------------------------------------------------------------------
(* Turns                                                                     *)

\* A turn is held by a request that is under way, or whose generators were
\* never started, on a worker that runs; and it is the request's own turn.
Holders ==
    \A r \in Requests :
        holds[r] # NoTurn =>
            /\ holds[r] = <<home[r], session[r]>>
            /\ session[r] \notin Bypassed
            /\ home[r] \in up
            /\ phase[r] \in {"turn", "asking", "handed", "relaying", "tail", "continuing",
                          "dropped"}

\* Only a request of a serialized session waits, and what is under way runs on
\* a worker that does.
Waiters ==
    \A r \in Requests :
        /\ phase[r] = "queued" => session[r] \notin Bypassed /\ holds[r] = NoTurn
        /\ Alive(r) => home[r] \in up

\* No two requests hold the same turn.
OneHolder ==
    \A r, q \in Requests : holds[r] # NoTurn /\ holds[r] = holds[q] => r = q

\* A worker dies and takes the turns of its sessions with it.
Lost(w) ==
    holds' = [r \in Requests |-> IF holds[r] \in {w} \X Sessions THEN NoTurn ELSE holds[r]]

\* Who holds which turn changes as TurnQueue says, one request at a time, or a
\* worker dies.
Implements == Turns!Init /\ [][Turns!Next \/ \E w \in Workers : Lost(w)]_holds

TurnInv == Holders /\ Waiters /\ OneHolder

LEMMA InitTurns == Init => TurnInv /\ Turns!Init
BY DEF Init, TurnInv, Holders, Waiters, OneHolder, Alive, Turns!Init

\* A step of a request leaves its turn to it, gives it back or begins it; it
\* moves nobody else.
Kept(r) == /\ holds'[r] = holds[r]
           /\ holds[r] # NoTurn => phase'[r] \in {"turn", "asking", "handed", "relaying",
                                                  "tail", "continuing", "dropped"}
GivenBack(r) == holds'[r] = NoTurn
Begun(r) == /\ phase[r] = "queued" /\ phase'[r] = "turn"
            /\ holds'[r] = <<home[r], session[r]>>
            /\ \A q \in Requests : holds[q] # <<home[r], session[r]>>

Moves(r) ==
    /\ UNCHANGED <<sent, up>>
    /\ holds' = [holds EXCEPT ![r] = holds'[r]]
    /\ phase' = [phase EXCEPT ![r] = phase'[r]]
    /\ Kept(r) \/ GivenBack(r) \/ Begun(r)
    /\ phase'[r] = "queued" => phase[r] = "new" /\ session[r] \notin Bypassed /\ holds'[r] = holds[r]
    /\ Alive(r)' => Alive(r) \/ home[r] \in up

LEMMA UnlockFacts ==
    ASSUME TypeOK, NEW r \in Requests, Unlock(r)
    PROVE  holds'[r] = NoTurn /\ holds' = [holds EXCEPT ![r] = holds'[r]]
BY DEF TypeOK, Unlock, Turns!End

LEMMA RequestMoves ==
    ASSUME TypeOK, NEW r \in Requests, Holders,
           Arrive(r) \/ Enter(r) \/ TimeOut(r) \/ Proceed(r)
    PROVE  Moves(r)
<1> USE DEF TypeOK, Moves, Goto, Alive, Relayed, sent
<1>1. CASE Arrive(r)
  BY <1>1 DEF Arrive, Kept, Holders
<1>2. CASE Enter(r)
  BY <1>2 DEF Enter, Begun, Turns!Begin, Turns!Free
<1>3. CASE TimeOut(r)
  BY <1>3 DEF TimeOut, Kept
<1>4. CASE AnswerLocally(r) \/ Raise(r) \/ Refused(r) \/ FailToRead(r) \/ Answer(r)
           \/ Finish(r) \/ Abandon(r)
  <2>1. Unlock(r) /\ UNCHANGED <<sent, up>> /\ \E p \in {"local", "done", "unread", "abandoned"} : Goto(r, p)
    BY <1>4 DEF AnswerLocally, Raise, Refused, FailToRead, Answer, Finish, Abandon
  <2>2. holds'[r] = NoTurn /\ holds' = [holds EXCEPT ![r] = holds'[r]]
    BY <2>1, UnlockFacts
  <2>3. Alive(r)
    BY <1>4 DEF AnswerLocally, Raise, Refused, FailToRead, Answer, Finish, Abandon
  <2> QED  BY <2>1, <2>2, <2>3 DEF GivenBack
<1>5. CASE CallUpstream(r) \/ HandOver(r) \/ Start(r) \/ Drop(r) \/ Break(r)
           \/ Continue(r)
  BY <1>5 DEF CallUpstream, HandOver, Start, Drop, Break, Continue, Kept
<1>5a. CASE BreakContinuation(r)
  BY <1>5a DEF BreakContinuation, Kept
<1>6. CASE Finalize(r)
  BY <1>6 DEF Finalize, Kept, Holders
<1> QED  BY <1>1, <1>2, <1>3, <1>4, <1>5, <1>5a, <1>6 DEF Proceed

LEMMA MovesKeepTurns ==
    ASSUME TypeOK, TurnInv, NEW r \in Requests, Moves(r)
    PROVE  TurnInv'
<1> USE DEF TypeOK, Moves, sent
<1>1. \A q \in Requests : q # r => holds'[q] = holds[q] /\ phase'[q] = phase[q]
  OBVIOUS
<1>2. Waiters'
  <2>1. phase'[r] = "queued" => session[r] \notin Bypassed /\ holds'[r] = NoTurn
    BY DEF TurnInv, Holders
  <2>2. Alive(r)' => home[r] \in up
    BY DEF TurnInv, Waiters
  <2> QED  BY <1>1, <2>1, <2>2 DEF TurnInv, Waiters, Alive
<1>3. Holders'
  <2>1. CASE Kept(r) \/ GivenBack(r)
    BY <1>1, <2>1 DEF TurnInv, Holders, Kept, GivenBack
  <2>2. CASE Begun(r)
    <3>1. session[r] \notin Bypassed /\ home[r] \in up
      BY <2>2 DEF TurnInv, Waiters, Begun, Alive
    <3> QED  BY <1>1, <2>2, <3>1 DEF TurnInv, Holders, Begun
  <2> QED  BY <2>1, <2>2
<1>4. OneHolder'
  BY <1>1 DEF TurnInv, OneHolder, Kept, GivenBack, Begun
<1> QED  BY <1>2, <1>3, <1>4 DEF TurnInv

LEMMA CrashKeepsTurns ==
    ASSUME TypeOK, TurnInv, NEW w \in Workers, Crash(w)
    PROVE  TurnInv' /\ Lost(w)
<1> USE DEF TypeOK, Crash, sent
<1>1. \A r \in Requests : holds'[r] # NoTurn => holds'[r] = holds[r] /\ home[r] # w /\ phase'[r] = phase[r]
  OBVIOUS
<1>2. Holders' /\ OneHolder'
  BY <1>1 DEF TurnInv, Holders, OneHolder
<1>3. Waiters'
  <2>1. \A r \in Requests : phase'[r] = phase[r] \/ phase'[r] = "killed"
    OBVIOUS
  <2>2. \A r \in Requests : Alive(r)' => Alive(r) /\ home[r] # w
    BY DEF Alive
  <2> QED  BY <1>1, <2>1, <2>2 DEF TurnInv, Waiters
<1>4. Lost(w)
  <2>1. \A r \in Requests : holds[r] \in {w} \X Sessions <=> home[r] = w /\ holds[r] # NoTurn
    BY GatewayAssumption DEF TurnInv, Holders
  <2> QED  BY <2>1 DEF Lost
<1> QED  BY <1>2, <1>3, <1>4 DEF TurnInv

LEMMA StepTurns == TypeOK /\ TurnInv /\ [Next]_vars => TurnInv'
<1> SUFFICES ASSUME TypeOK, TurnInv, [Next]_vars  PROVE TurnInv'
  OBVIOUS
<1>u. CASE UNCHANGED vars
  BY <1>u DEF vars, sent, TurnInv, Holders, Waiters, OneHolder, Alive
<1>1. ASSUME NEW r \in Requests, Arrive(r) \/ Enter(r) \/ TimeOut(r) \/ Proceed(r)
      PROVE  TurnInv'
  BY <1>1, RequestMoves, MovesKeepTurns DEF TurnInv
<1>2. ASSUME NEW w \in Workers, Crash(w)  PROVE TurnInv'
  BY <1>2, CrashKeepsTurns
<1>3. ASSUME NEW w \in Workers, Restart(w)  PROVE TurnInv'
  BY <1>3 DEF TypeOK, Restart, sent, TurnInv, Holders, Waiters, OneHolder, Alive
<1> QED  BY <1>u, <1>1, <1>2, <1>3 DEF Next

LEMMA StepImplements ==
    TypeOK /\ TurnInv /\ [Next]_vars
        => [Turns!Next \/ \E w \in Workers : Lost(w)]_holds
<1> SUFFICES ASSUME TypeOK, TurnInv, Next, holds' # holds
             PROVE  Turns!Next \/ \E w \in Workers : Lost(w)
  BY DEF vars
<1>1. ASSUME NEW r \in Requests, Arrive(r) \/ Enter(r) \/ TimeOut(r) \/ Proceed(r)
      PROVE  Turns!Next
  <2>1. Moves(r)
    BY <1>1, RequestMoves DEF TurnInv
  <2>2. holds'[r] # holds[r] /\ holds' = [holds EXCEPT ![r] = holds'[r]]
    BY <2>1 DEF TypeOK, Moves
  <2>3. CASE GivenBack(r)
    BY <2>2, <2>3 DEF GivenBack, Turns!Next, Turns!End
  <2>4. CASE Begun(r)
    <3>1. <<home[r], session[r]>> \in Workers \X (Sessions \ Bypassed) /\ holds[r] = NoTurn
      BY <2>4 DEF TypeOK, TurnInv, Waiters, Begun
    <3>2. Turns!Begin(r, <<home[r], session[r]>>)
      BY <2>2, <2>4, <3>1 DEF Begun, Turns!Begin, Turns!Free
    <3> QED  BY <3>1, <3>2 DEF Turns!Next
  <2> QED  BY <2>1, <2>2, <2>3, <2>4 DEF Moves, Kept
<1>2. ASSUME NEW w \in Workers, Crash(w)  PROVE Lost(w)
  BY <1>2, CrashKeepsTurns
<1>3. ASSUME NEW w \in Workers, Restart(w)  PROVE FALSE
  BY <1>3 DEF Restart
<1> QED  BY <1>1, <1>2, <1>3 DEF Next

\* Whatever way a request ends - answered on the spot, refused, relayed, broken
\* off, abandoned by its client, killed - it gives its turn back (router.py's
\* unlock_session and the outer generators' finally blocks): the only holders
\* that are not at work are those whose generators the server never started.
\* The safety side of TurnGivenBack.
THEOREM HoldersAtWork == Spec => []Holders
BY InitType, StepType, InitTurns, StepTurns, PTL DEF Spec, TurnInv

\* What the handlers do with their turns is what the serializer offers: they
\* begin one that is free and give back one they hold, and a worker that dies
\* gives up its own.  No turn is held twice, and none passes on unnoticed.
THEOREM TurnsImplemented == Spec => Implements
BY InitType, StepType, InitTurns, StepTurns, StepImplements, PTL DEF Spec, Implements

\* On each worker a session's turns are serial, however its requests end.
THEOREM TurnsSerial == Spec => []OneHolder
BY InitType, StepType, InitTurns, StepTurns, PTL DEF Spec, TurnInv
=============================================================================
