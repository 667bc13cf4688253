---------------------------- MODULE ToolCallProofs ----------------------------
(* Theorems about the calls of tools: how those of ctx_expand are intercepted *)
(* (VirtualTools), and what is learned from those in transcripts (Learning),  *)
(* for all values of the constants.                                           *)
EXTENDS VirtualTools, Learning, SequenceTheorems, FiniteSetTheorems,
        WellFoundedInduction, TLAPS

-----------------------------------------------------------------------------
(* Answers and their parts                                                   *)

AnswerKinds == Events \cup Failures

LEMMA AnswerFacts ==
    ASSUME NEW a \in Answer
    PROVE  /\ a \in Seq(AnswerKinds) /\ Len(a) \in Nat /\ DOMAIN a = 1..Len(a)
           /\ \A i \in 1..Len(a) : a[i] \in AnswerKinds
BY LenProperties, ElementOfSeq DEF Answer, AnswerKinds

\* What upstream answers is an answer, of the kinds it can send itself.
LEMMA ReplyFacts ==
    ASSUME NEW a \in Reply
    PROVE  a \in Answer /\ \A i \in 1..Len(a) : a[i] # "tail"
<1>1. CASE a \in Answers
  <2>1. a \in Seq(Events) /\ a \in Seq(AnswerKinds)
    BY <1>1, VirtualToolsAssumption, SeqMonotonic DEF AnswerKinds
  <2>2. \A i \in 1..Len(a) : a[i] \in Events
    BY <2>1, ElementOfSeq
  <2> QED  BY <2>1, <2>2 DEF Answer, AnswerKinds, Events
<1>2. CASE a = <<"error">>
  <2>1. a \in Seq(AnswerKinds) /\ Len(a) = 1 /\ a[1] = "error"
    BY <1>2 DEF AnswerKinds, Failures
  <2> QED  BY <2>1 DEF Answer, AnswerKinds
<1> QED  BY <1>1, <1>2 DEF Reply

LEMMA BeginningFacts ==
    ASSUME NEW a \in Answer, NEW p \in 0..Len(a)
    PROVE  /\ SubSeq(a, 1, p) \in Answer /\ Len(SubSeq(a, 1, p)) = p
           /\ \A i \in 1..p : SubSeq(a, 1, p)[i] = a[i]
<1>1. /\ a \in Seq(AnswerKinds) /\ Len(a) \in Nat /\ p \in Nat
      /\ \A i \in 1..Len(a) : a[i] \in AnswerKinds
  BY AnswerFacts
<1>2. /\ 1 \in Int /\ p \in Int /\ p - 1 + 1 = p
      /\ \A i \in 1..p : 1 + i - 1 = i /\ i \in 1..Len(a)
  BY <1>1
<1>3. SubSeq(a, 1, p) \in Seq(AnswerKinds)
  BY <1>1, <1>2, SubSeqProperties
<1>4. Len(SubSeq(a, 1, p)) = IF 1 <= p THEN p - 1 + 1 ELSE 0
  BY <1>1, <1>2, SubSeqProperties
<1>5. \A i \in 1..p : SubSeq(a, 1, p)[i] = a[1 + i - 1]
  BY <1>1, <1>2, SubSeqProperties
<1> QED  BY <1>1, <1>2, <1>3, <1>4, <1>5 DEF Answer, AnswerKinds

\* A chunk continues what has arrived.
LEMMA ChunkFacts ==
    ASSUME NEW a \in Answer, NEW p \in 0..Len(a), NEW j \in 1..Len(a), p + j <= Len(a)
    PROVE  /\ SubSeq(a, p + 1, p + j) \in Answer
           /\ SubSeq(a, 1, p + j) = SubSeq(a, 1, p) \o SubSeq(a, p + 1, p + j)
<1>1. /\ a \in Seq(AnswerKinds) /\ Len(a) \in Nat /\ p \in Nat /\ j \in Nat /\ j >= 1
      /\ \A i \in 1..Len(a) : a[i] \in AnswerKinds
  BY AnswerFacts
<1>2. SubSeq(a, p + 1, p + j) \in Seq(AnswerKinds)
  <2>1. p + 1 \in Int /\ p + j \in Int /\ \A i \in p + 1..p + j : i \in 1..Len(a)
    BY <1>1
  <2> QED  BY <1>1, <2>1, SubSeqProperties
<1>3. SubSeq(a, 1, p) \o SubSeq(a, p + 1, p + j) = SubSeq(a, 1, p + j)
  <2>1. 1 \in 1..Len(a) + 1 /\ p \in 1 - 1..Len(a) /\ p + j \in p..Len(a)
    BY <1>1
  <2> QED  BY <1>1, <2>1, ConcatAdjacentSubSeq
<1> QED  BY <1>2, <1>3 DEF Answer, AnswerKinds

\* An answer that broke off is the part that has arrived and the tail.
LEMMA BreakFacts ==
    ASSUME NEW a \in Answer, NEW p \in 0..Len(a),
           NEW b, b = Append(SubSeq(a, 1, p), "tail")
    PROVE  /\ b \in Answer /\ Len(b) = p + 1 /\ p \in 0..Len(b)
           /\ SubSeq(b, 1, p) = SubSeq(a, 1, p)
           /\ \A i \in 1..p : b[i] = a[i]
<1>1. Len(a) \in Nat /\ p \in Nat /\ p <= Len(a)
  BY AnswerFacts
<1>2. /\ SubSeq(a, 1, p) \in Seq(AnswerKinds) /\ Len(SubSeq(a, 1, p)) = p
      /\ \A i \in 1..p : SubSeq(a, 1, p)[i] = a[i]
  BY BeginningFacts DEF Answer, AnswerKinds
<1>3. "tail" \in AnswerKinds
  BY DEF AnswerKinds, Failures
<1>4. b \in Seq(AnswerKinds) /\ Len(b) = p + 1 /\ \A i \in 1..p : b[i] = SubSeq(a, 1, p)[i]
  BY <1>2, <1>3, AppendProperties
<1>5. b \in Answer /\ p \in 0..Len(b)
  BY <1>1, <1>4 DEF Answer, AnswerKinds
<1>6. /\ SubSeq(b, 1, p) \in Seq(AnswerKinds) /\ Len(SubSeq(b, 1, p)) = p
      /\ \A i \in 1..p : SubSeq(b, 1, p)[i] = b[i]
  BY <1>5, BeginningFacts DEF Answer, AnswerKinds
<1>7. SubSeq(b, 1, p) = SubSeq(a, 1, p)
  BY <1>2, <1>4, <1>6, SeqEqual
<1> QED  BY <1>2, <1>4, <1>5, <1>7

LEMMA JoinFacts ==
    ASSUME NEW a \in Answer, NEW b \in Answer
    PROVE  /\ a \o b \in Answer
           /\ a \o <<>> = a /\ <<>> \o a = a
BY ConcatProperties, ConcatEmptySeq DEF Answer

-----------------------------------------------------------------------------
(* Types                                                                     *)

LEMMA EmptyAnswer == <<>> \in Answer /\ Len(<<>>) = 0
BY EmptySeq DEF Answer

LEMMA ContinuationType ==
    ASSUME TypeOK, NEW a \in Answer
    PROVE  Continuation(a) \in SUBSET [calls : SUBSET Nat, results : SUBSET Nat]
<1>1. DOMAIN a \subseteq Nat
  BY AnswerFacts
<1> QED  BY <1>1 DEF TypeOK, Continuation, VirtualCalls, OtherCalls, Occurs

LEMMA ReplyType == \A a \in Reply : a \in Answer
BY ReplyFacts

\* TypeOK; nothing arrives of an answer that is not streamed.
Typed == TypeOK /\ (mode = "whole" => pos = 0)

LEMMA TypedInit == Init => Typed
<1> SUFFICES ASSUME Init PROVE Typed
  OBVIOUS
<1>1. answer \in Answer
  BY ReplyType DEF Init, Reply
<1>2. 0 \in 0..Len(answer)
  BY <1>1, AnswerFacts
<1> QED  BY <1>1, <1>2, EmptyAnswer DEF Init, Typed, TypeOK, Modes

LEMMA TypedStep == Typed /\ [Next]_vars => Typed'
<1> SUFFICES ASSUME Typed, [Next]_vars PROVE Typed'
  OBVIOUS
<1>1. answer \in Answer /\ buffer \in Answer /\ shown \in Answer /\ round \in Nat \ {0}
  BY DEF Typed, TypeOK
<1>2. ASSUME NEW j \in 1..Len(answer), Arrives(j)
      PROVE  Chunk(j) \in Answer /\ pos' \in 0..Len(answer)
  <2>1. pos + j <= Len(answer) /\ pos \in 0..Len(answer) /\ Len(answer) \in Nat
    BY <1>1, <1>2, AnswerFacts DEF Arrives, Typed, TypeOK
  <2> QED  BY <1>1, <1>2, <2>1, ChunkFacts DEF Arrives, Chunk
<1>3. ASSUME NEW j \in 1..Len(answer), Probe(j) PROVE Typed'
  <2>1. Chunk(j) \in Answer /\ pos' \in 0..Len(answer)
    BY <1>2, <1>3 DEF Probe
  <2>2. buffer \o Chunk(j) \in Answer
    BY <1>1, <2>1, JoinFacts
  <2>3. shown \o (buffer \o Chunk(j)) \in Answer
    BY <1>1, <2>2, JoinFacts
  <2>4. buffer' \in Answer /\ shown' \in Answer /\ mode' \in Modes
    BY <1>1, <1>3, <2>2, <2>3, EmptyAnswer DEF Probe, Typed, TypeOK, Modes
  <2> QED  BY <1>3, <2>1, <2>4 DEF Probe, Typed, TypeOK
<1>4. ASSUME NEW j \in 1..Len(answer), Relay(j) PROVE Typed'
  <2>1. Chunk(j) \in Answer /\ pos' \in 0..Len(answer)
    BY <1>2, <1>4 DEF Relay
  <2>2. shown' \in Answer
    BY <1>1, <1>4, <2>1, JoinFacts DEF Relay
  <2> QED  BY <1>4, <2>1, <2>2 DEF Relay, Typed, TypeOK
<1>5. ASSUME NEW j \in 1..Len(answer), Collect(j) PROVE Typed'
  <2>1. Chunk(j) \in Answer /\ pos' \in 0..Len(answer)
    BY <1>2, <1>5 DEF Collect
  <2>2. buffer' \in Answer
    BY <1>1, <1>5, <2>1, JoinFacts DEF Collect
  <2> QED  BY <1>5, <2>1, <2>2 DEF Collect, Typed, TypeOK
<1>6. ASSUME Break PROVE Typed'
  <2>1. answer' \in Answer /\ pos \in 0..Len(answer')
    <3>1. pos \in 0..Len(answer) /\ answer' = Append(SubSeq(answer, 1, pos), "tail")
      BY <1>6 DEF Break, Typed, TypeOK
    <3> QED  BY <1>1, <3>1, BreakFacts
  <2> QED  BY <1>6, <2>1 DEF Break, Typed, TypeOK
<1>7. ASSUME EndStream PROVE Typed'
  <2>1. shown' \in Answer
    BY <1>1, <1>7, JoinFacts DEF EndStream
  <2> QED  BY <1>7, <2>1, EmptyAnswer DEF EndStream, Typed, TypeOK, Modes
<1>8. ASSUME NEW a \in Reply, ContinueStream(a) PROVE Typed'
  <2>1. a \in Answer /\ 0 \in 0..Len(a)
    BY ReplyType, AnswerFacts
  <2>2. asked' \in SUBSET [calls : SUBSET Nat, results : SUBSET Nat]
    BY <1>1, <1>8, ContinuationType DEF ContinueStream, Typed
  <2>3. round' \in Nat \ {0} /\ mode' \in Modes
    BY <1>1, <1>8 DEF ContinueStream, NextMode, Modes
  <2> QED  BY <1>8, <2>1, <2>2, <2>3, EmptyAnswer DEF ContinueStream, Typed, TypeOK
<1>9. ASSUME NEW a \in Reply, ContinueWhole(a) PROVE Typed'
  <2>1. a \in Answer /\ 0 \in 0..Len(a)
    BY ReplyType, AnswerFacts
  <2>2. asked' \in SUBSET [calls : SUBSET Nat, results : SUBSET Nat]
    BY <1>1, <1>9, ContinuationType DEF ContinueWhole, Typed
  <2>3. round' \in Nat \ {0}
    BY <1>1, <1>9 DEF ContinueWhole
  <2>4. pos' = 0
    BY <1>9 DEF ContinueWhole, Continues, Typed
  <2> QED  BY <1>9, <2>1, <2>2, <2>3, <2>4 DEF ContinueWhole, Typed, TypeOK
<1>10. ASSUME FailWhole PROVE Typed'
  <2>1. asked' \in SUBSET [calls : SUBSET Nat, results : SUBSET Nat]
    BY <1>1, <1>10, ContinuationType DEF FailWhole, Typed
  <2> QED  BY <1>1, <1>10, <2>1 DEF FailWhole, Typed, TypeOK, Modes
<1>11. ASSUME Deliver PROVE Typed'
  BY <1>1, <1>11 DEF Deliver, Typed, TypeOK, Modes
<1>12. CASE UNCHANGED vars
  BY <1>12 DEF vars, Typed, TypeOK
<1> QED
  BY <1>3, <1>4, <1>5, <1>6, <1>7, <1>8, <1>9, <1>10, <1>11, <1>12 DEF Next

\* The variables keep their types.
THEOREM TypeCorrect == Spec => []TypeOK
<1>1. Typed => TypeOK
  BY DEF Typed
<1> QED  BY <1>1, TypedInit, TypedStep, PTL DEF Spec

-----------------------------------------------------------------------------
(* Rounds and calls                                                          *)

\* The loop's condition: an answer is looked into only while a round is left.
RoundLeft ==
    /\ round <= MaxRounds + 1
    /\ mode \in {"probe", "collect"} => round <= MaxRounds

LEMMA RoundLeftStep == Typed /\ RoundLeft /\ [Next]_vars => RoundLeft'
<1> SUFFICES ASSUME Typed, RoundLeft, [Next]_vars PROVE RoundLeft'
  OBVIOUS
<1>1. round \in Nat /\ MaxRounds \in Nat
  BY VirtualToolsAssumption DEF Typed, TypeOK
<1>2. ASSUME NEW j \in 1..Len(answer), Probe(j) PROVE RoundLeft'
  BY <1>2 DEF Probe, RoundLeft
<1>3. ASSUME NEW j \in 1..Len(answer), Relay(j) \/ Collect(j) PROVE RoundLeft'
  BY <1>3 DEF Relay, Collect, RoundLeft
<1>4. CASE Break \/ EndStream \/ Deliver
  BY <1>4 DEF Break, EndStream, Deliver, RoundLeft
<1>5. ASSUME NEW a \in Reply, ContinueStream(a) PROVE RoundLeft'
  BY <1>1, <1>5 DEF ContinueStream, NextMode, RoundLeft
<1>6. ASSUME NEW a \in Reply, ContinueWhole(a) PROVE RoundLeft'
  BY <1>1, <1>6 DEF ContinueWhole, Continues, RoundLeft
<1>7. CASE FailWhole
  BY <1>1, <1>7 DEF FailWhole, Continues, RoundLeft
<1>8. CASE UNCHANGED vars
  BY <1>8 DEF vars, RoundLeft
<1> QED  BY <1>2, <1>3, <1>4, <1>5, <1>6, <1>7, <1>8 DEF Next

\* No more than MaxRounds continuations are asked for, however often the model
\* calls ctx_expand.
THEOREM RoundsBoundedCorrect == Spec => []RoundsBounded
<1>1. Init => RoundLeft
  BY VirtualToolsAssumption DEF Init, RoundLeft
<1>2. RoundLeft => RoundsBounded
  BY DEF RoundLeft, RoundsBounded
<1> QED  BY <1>1, <1>2, TypedInit, TypedStep, RoundLeftStep, PTL DEF Spec

LEMMA ContinuationAnswers ==
    ASSUME CallsAnswered, NEW a, OnlyVirtual(a)
    PROVE  \A e \in Continuation(a) : e.calls = e.results
<1>1. VirtualCalls(a) \cup OtherCalls(a) = VirtualCalls(a)
  BY DEF OnlyVirtual
<1> QED  BY <1>1 DEF Continuation, CallsAnswered

\* A continuation answers every call of the assistant message it carries.
THEOREM CallsAnsweredCorrect == Spec => []CallsAnswered
<1>1. Init => CallsAnswered
  BY DEF Init, CallsAnswered
<1>2. CallsAnswered /\ [Next]_vars => CallsAnswered'
  <2> SUFFICES ASSUME CallsAnswered, [Next]_vars PROVE CallsAnswered'
    OBVIOUS
  <2>1. ASSUME NEW a \in Reply, ContinueStream(a) PROVE CallsAnswered'
    BY <2>1, ContinuationAnswers DEF ContinueStream, CallsAnswered
  <2>2. ASSUME NEW a \in Reply, ContinueWhole(a) PROVE CallsAnswered'
    BY <2>2, ContinuationAnswers DEF ContinueWhole, Continues, CallsAnswered
  <2>3. CASE FailWhole
    BY <2>3, ContinuationAnswers DEF FailWhole, Continues, CallsAnswered
  <2>4. CASE UNCHANGED asked
    BY <2>4 DEF CallsAnswered
  <2> QED
    BY <2>1, <2>2, <2>3, <2>4
    DEF Next, Probe, Relay, Collect, Break, EndStream, Deliver, vars
<1> QED  BY <1>1, <1>2, PTL DEF Spec

-----------------------------------------------------------------------------
(* What is shown and what is held back                                       *)

Arrived == SubSeq(answer, 1, pos)

\* What has arrived is either held back or shown, all of it.
Held ==
    /\ mode \in {"probe", "collect"} => streamed /\ shown = <<>> /\ buffer = Arrived
    /\ mode = "relay" => streamed /\ buffer = <<>> /\ shown = Arrived
    /\ mode = "whole" => ~streamed /\ shown = <<>>
    /\ mode = "done" => (shown = answer \/ (~streamed /\ shown = first))

LEMMA NothingArrived == \A a : SubSeq(a, 1, 0) = <<>>
BY SubSeqEmpty

LEMMA AllArrived == ASSUME Typed, Ended PROVE Arrived = answer
BY SubSeqFull DEF Typed, TypeOK, Ended, Arrived, Answer

\* The part that has arrived grows by the chunk.
LEMMA ArrivedGrows ==
    ASSUME Typed, NEW j \in 1..Len(answer), Arrives(j), answer' = answer
    PROVE  /\ Arrived' = Arrived \o Chunk(j)
           /\ Chunk(j) \in Answer /\ Arrived \in Answer
<1>1. answer \in Answer /\ pos \in 0..Len(answer) /\ pos + j <= Len(answer) /\ pos' = pos + j
  BY DEF Typed, TypeOK, Arrives
<1>2. SubSeq(answer, 1, pos + j) = SubSeq(answer, 1, pos) \o SubSeq(answer, pos + 1, pos + j)
  BY <1>1, ChunkFacts
<1>3. SubSeq(answer, pos + 1, pos + j) \in Answer
  BY <1>1, ChunkFacts
<1>4. SubSeq(answer, 1, pos) \in Answer
  BY <1>1, BeginningFacts
<1> QED  BY <1>1, <1>2, <1>3, <1>4 DEF Arrived, Chunk

LEMMA HeldInit == Init => Held
BY NothingArrived DEF Init, Held, Arrived

LEMMA HeldStep == Typed /\ Held /\ [Next]_vars => Held'
<1> SUFFICES ASSUME Typed, Held, [Next]_vars PROVE Held'
  OBVIOUS
<1>1. ASSUME NEW j \in 1..Len(answer), Probe(j) PROVE Held'
  <2>1. Arrived' = Arrived \o Chunk(j) /\ Chunk(j) \in Answer /\ Arrived \in Answer
    BY <1>1, ArrivedGrows DEF Probe
  <2>2. streamed' /\ shown = <<>> /\ buffer \o Chunk(j) = Arrived'
    BY <1>1, <2>1 DEF Probe, Held
  <2>3. shown \o (buffer \o Chunk(j)) = Arrived'
    BY <2>1, <2>2, JoinFacts
  <2>4. \/ mode' = "collect" /\ buffer' = Arrived' /\ shown' = <<>>
        \/ mode' = "relay" /\ buffer' = <<>> /\ shown' = Arrived'
        \/ mode' = "probe" /\ buffer' = Arrived' /\ shown' = <<>>
    BY <1>1, <2>2, <2>3 DEF Probe
  <2> QED  BY <2>2, <2>4 DEF Held
<1>2. ASSUME NEW j \in 1..Len(answer), Relay(j) PROVE Held'
  <2>1. Arrived' = Arrived \o Chunk(j)
    BY <1>2, ArrivedGrows DEF Relay
  <2> QED  BY <1>2, <2>1 DEF Relay, Held
<1>3. ASSUME NEW j \in 1..Len(answer), Collect(j) PROVE Held'
  <2>1. Arrived' = Arrived \o Chunk(j)
    BY <1>3, ArrivedGrows DEF Collect
  <2> QED  BY <1>3, <2>1 DEF Collect, Held
<1>4. CASE Break
  <2>1. answer \in Answer /\ pos \in 0..Len(answer)
    BY DEF Typed, TypeOK
  <2>2. answer' = Append(SubSeq(answer, 1, pos), "tail") /\ pos' = pos
    BY <1>4 DEF Break
  <2>3. Arrived' = Arrived
    BY <2>1, <2>2, BreakFacts DEF Arrived
  <2> QED  BY <1>4, <2>3 DEF Break, Held
<1>5. CASE EndStream
  <2>1. Arrived = answer /\ answer \in Answer
    BY <1>5, AllArrived DEF EndStream, Typed, TypeOK
  <2>2. shown \o buffer = answer
    BY <1>5, <2>1, JoinFacts DEF EndStream, Held
  <2> QED  BY <1>5, <2>2 DEF EndStream, Held
<1>6. ASSUME NEW a \in Reply, ContinueStream(a) PROVE Held'
  <2>1. Arrived' = <<>>
    BY <1>6, NothingArrived DEF ContinueStream, Arrived
  <2> QED  BY <1>6, <2>1 DEF ContinueStream, NextMode, Held
<1>7. ASSUME NEW a \in Reply, ContinueWhole(a) PROVE Held'
  BY <1>7 DEF ContinueWhole, Continues, Held
<1>8. CASE FailWhole
  BY <1>8 DEF FailWhole, Continues, Held
<1>9. CASE Deliver
  BY <1>9 DEF Deliver, Held
<1>10. CASE UNCHANGED vars
  BY <1>10 DEF vars, Held, Arrived
<1> QED
  BY <1>1, <1>2, <1>3, <1>4, <1>5, <1>6, <1>7, <1>8, <1>9, <1>10 DEF Next

\* The client sees one answer from its start and, in the end, all of it, whatever
\* was held back, broke off or was continued.
THEOREM OneAnswerCorrect == Spec => []OneAnswer
<1>1. Typed /\ Held => OneAnswer
  <2> SUFFICES ASSUME Typed, Held PROVE OneAnswer
    OBVIOUS
  <2>1. answer \in Answer /\ pos \in 0..Len(answer) /\ mode \in Modes
    BY DEF Typed, TypeOK
  <2>2. streamed => (shown = <<>> \/ shown = Arrived \/ shown = answer)
    BY <2>1 DEF Held, Modes
  <2>3. IsPrefix(<<>>, answer)
    <3>1. Len(<<>>) = 0 /\ SubSeq(<<>>, 1, 0) = <<>> /\ SubSeq(answer, 1, 0) = <<>>
      BY NothingArrived, EmptyAnswer
    <3>2. 0 <= Len(answer)
      BY <2>1, AnswerFacts
    <3> QED  BY <3>1, <3>2 DEF IsPrefix
  <2>4. IsPrefix(Arrived, answer)
    <3>1. Arrived \in Answer /\ Len(Arrived) = pos
      BY <2>1, BeginningFacts DEF Arrived
    <3>2. SubSeq(Arrived, 1, pos) = Arrived
      BY <3>1, SubSeqFull DEF Answer
    <3>3. pos <= Len(answer)
      BY <2>1, AnswerFacts
    <3> QED  BY <3>1, <3>2, <3>3 DEF IsPrefix, Arrived
  <2>5. IsPrefix(answer, answer)
    BY <2>1, AnswerFacts DEF IsPrefix
  <2>6. (~streamed /\ mode # "done") => shown = <<>>
    BY <2>1 DEF Held, Modes
  <2> QED  BY <2>2, <2>3, <2>4, <2>5, <2>6 DEF OneAnswer, Held
<1> QED  BY <1>1, TypedInit, TypedStep, HeldInit, HeldStep, PTL DEF Spec

-----------------------------------------------------------------------------
(* What is shown of the calls of ctx_expand                                  *)

Shelter == {"lead", "bulk", "stop"}

\* Something that was relayed on its own merits comes before every call.
Covered(s) ==
    /\ Occurs(Shelter, s) # {}
    /\ \A k \in VirtualCalls(s) : \E i \in Occurs(Shelter, s) : i < k

LEMMA CoveredGrows ==
    ASSUME NEW s \in Answer, NEW t \in Answer, Covered(s)
    PROVE  Covered(s \o t)
<1>1. /\ s \in Seq(AnswerKinds) /\ t \in Seq(AnswerKinds) /\ Len(s) \in Nat /\ Len(t) \in Nat
      /\ DOMAIN s = 1..Len(s)
  BY AnswerFacts
<1>2. /\ DOMAIN (s \o t) = 1..Len(s) + Len(t)
      /\ \A i \in 1..Len(s) : (s \o t)[i] = s[i]
  <2>1. s \o t \in Seq(AnswerKinds) /\ Len(s \o t) = Len(s) + Len(t)
    BY <1>1, ConcatProperties
  <2>2. \A i \in 1..Len(s) : i \in 1..Len(s) + Len(t) /\ i <= Len(s)
    BY <1>1
  <2>3. \A i \in 1..Len(s) : (s \o t)[i] = s[i]
    BY <1>1, <2>2, ConcatProperties
  <2> QED  BY <2>1, <2>3, LenProperties
<1>3. \A i \in Occurs(Shelter, s) : i \in Occurs(Shelter, s \o t)
  BY <1>1, <1>2 DEF Occurs
<1>4. ASSUME NEW k \in VirtualCalls(s \o t)
      PROVE  \E i \in Occurs(Shelter, s \o t) : i < k
  <2>1. k \in 1..Len(s) + Len(t) /\ (s \o t)[k] = "expand"
    BY <1>2 DEF VirtualCalls, Occurs
  <2>2. CASE k <= Len(s)
    <3>1. k \in VirtualCalls(s)
      BY <1>1, <1>2, <2>1, <2>2 DEF VirtualCalls, Occurs
    <3> QED  BY <1>3, <3>1 DEF Covered
  <2>3. CASE k > Len(s)
    <3>1. PICK i \in Occurs(Shelter, s) : TRUE
      BY DEF Covered
    <3>2. i \in Nat /\ i <= Len(s)
      BY <1>1 DEF Occurs
    <3>3. i < k
      BY <1>1, <2>1, <2>3, <3>2
    <3> QED  BY <1>3, <3>3
  <2> QED  BY <1>1, <2>1, <2>2, <2>3
<1> QED  BY <1>3, <1>4 DEF Covered

\* The form in which ExpandHidden says it.
LEMMA CoveredBefore ==
    ASSUME NEW s \in Answer, Covered(s), NEW k \in VirtualCalls(s)
    PROVE  Occurs(Shelter, SubSeq(s, 1, k - 1)) # {}
<1>1. PICK i \in Occurs(Shelter, s) : i < k
  BY DEF Covered
<1>2. k \in 1..Len(s) /\ i \in 1..Len(s) /\ Len(s) \in Nat /\ s[i] \in Shelter
  BY AnswerFacts DEF VirtualCalls, Occurs
<1>3. k - 1 \in 0..Len(s) /\ i \in 1..k - 1
  BY <1>1, <1>2
<1>4. /\ SubSeq(s, 1, k - 1) \in Answer /\ Len(SubSeq(s, 1, k - 1)) = k - 1
      /\ SubSeq(s, 1, k - 1)[i] = s[i]
  BY <1>3, BeginningFacts
<1>5. i \in DOMAIN SubSeq(s, 1, k - 1)
  BY <1>3, <1>4, AnswerFacts
<1> QED  BY <1>2, <1>4, <1>5 DEF Occurs

\* Why a stream is relayed: no round is left, the call comes too late, or it is
\* over without a call.
Relayed ==
    \/ round > MaxRounds
    \/ Covered(shown)
    \/ VirtualCalls(shown) = {} /\ Len(answer) <= pos

\* The invariant that carries ExpandHidden.
Hidden ==
    /\ \A i \in DOMAIN answer : answer[i] = "tail" => i = Len(answer)
    /\ mode = "probe" => VirtualCalls(buffer) = {}
    /\ mode = "relay" => Relayed
    /\ mode = "done" => ExpandHidden

LEMMA NoTail ==
    ASSUME NEW a \in Reply
    PROVE  \A i \in DOMAIN a : a[i] # "tail"
BY ReplyFacts, AnswerFacts

LEMMA HiddenInit == Init => Hidden
<1> SUFFICES ASSUME Init PROVE Hidden
  OBVIOUS
<1>1. VirtualCalls(<<>>) = {}
  BY EmptyAnswer, AnswerFacts DEF VirtualCalls, Occurs
<1> QED  BY <1>1, NoTail DEF Init, Hidden, Reply

\* What the probe lets go has no call of ctx_expand.  If only the tail released it,
\* the answer is over.
LEMMA FlushRelays ==
    ASSUME Typed, Hidden, NEW s \in Answer, NEW p \in 0..Len(answer),
           s = SubSeq(answer, 1, p), ~Detected(s), Flushes(s)
    PROVE  Covered(s) \/ (VirtualCalls(s) = {} /\ Len(answer) <= p)
<1>1. VirtualCalls(s) = {}
  BY DEF Detected, Names, VirtualCalls, Occurs
<1>2. CASE Occurs(Shelter, s) # {}
  BY <1>1, <1>2 DEF Covered
<1>3. CASE Occurs({"tail"}, s) # {}
  <2>1. PICK i \in DOMAIN s : s[i] = "tail"
    BY <1>3 DEF Occurs
  <2>2. answer \in Answer /\ Len(answer) \in Nat /\ DOMAIN answer = 1..Len(answer)
    BY AnswerFacts DEF Typed, TypeOK
  <2>3. Len(s) = p /\ DOMAIN s = 1..p /\ \A k \in 1..p : s[k] = answer[k]
    BY <2>2, BeginningFacts, AnswerFacts
  <2>4. i \in 1..p /\ i = Len(answer)
    BY <2>1, <2>2, <2>3 DEF Hidden
  <2>5. p \in Nat /\ p <= Len(answer)
    BY <2>2
  <2>6. Len(answer) <= p
    BY <2>4, <2>5
  <2> QED  BY <1>1, <2>6
<1> QED  BY <1>2, <1>3 DEF Flushes, Occurs, Shelter

LEMMA HiddenStep == Typed /\ RoundLeft /\ Held /\ Hidden /\ [Next]_vars => Hidden'
<1> SUFFICES ASSUME Typed, RoundLeft, Held, Hidden, [Next]_vars PROVE Hidden'
  OBVIOUS
<1>1. answer \in Answer /\ pos \in 0..Len(answer) /\ round \in Nat /\ MaxRounds \in Nat
  BY VirtualToolsAssumption DEF Typed, TypeOK
<1>2. ASSUME NEW j \in 1..Len(answer), Probe(j) PROVE Hidden'
  <2>1. /\ Arrived' = Arrived \o Chunk(j) /\ Chunk(j) \in Answer /\ Arrived \in Answer
        /\ answer' = answer
    BY <1>2, ArrivedGrows DEF Probe
  <2>2. shown = <<>> /\ buffer \o Chunk(j) = Arrived'
    BY <1>2, <2>1 DEF Probe, Held
  <2>3. CASE mode' = "relay"
    <3>1. shown' = Arrived' /\ ~Detected(Arrived') /\ Flushes(Arrived')
      BY <1>2, <2>1, <2>2, <2>3, JoinFacts DEF Probe
    <3>2. /\ pos' \in 0..Len(answer) /\ Arrived' = SubSeq(answer, 1, pos')
          /\ Arrived' \in Answer
      BY <1>1, <1>2, <2>1, TypedStep, JoinFacts DEF Probe, Typed, TypeOK, Arrived
    <3>3. Covered(Arrived') \/ (VirtualCalls(Arrived') = {} /\ Len(answer) <= pos')
      BY <3>1, <3>2, FlushRelays
    <3>4. Relayed'
      BY <2>1, <3>1, <3>3 DEF Relayed
    <3> QED  BY <2>1, <2>3, <3>4 DEF Hidden
  <2>4. CASE mode' = "collect"
    BY <2>1, <2>4 DEF Hidden
  <2>5. CASE mode' = "probe"
    <3>1. buffer' = Arrived' /\ VirtualCalls(Arrived') = {}
      BY <1>2, <2>2, <2>5 DEF Probe, Detected, Names, VirtualCalls, Occurs
    <3> QED  BY <2>1, <2>5, <3>1 DEF Hidden
  <2> QED  BY <1>2, <2>3, <2>4, <2>5 DEF Probe
<1>3. ASSUME NEW j \in 1..Len(answer), Relay(j) PROVE Hidden'
  <2>1. pos < Len(answer) /\ Chunk(j) \in Answer /\ shown \in Answer
    BY <1>1, <1>3, ArrivedGrows, AnswerFacts DEF Relay, Arrives, Typed, TypeOK
  <2>2. CASE Covered(shown)
    <3>1. Covered(shown')
      BY <1>3, <2>1, <2>2, CoveredGrows DEF Relay
    <3> QED  BY <1>3, <3>1 DEF Relay, Hidden, Relayed
  <2>3. CASE round > MaxRounds
    BY <1>3, <2>3 DEF Relay, Hidden, Relayed
  <2> QED  BY <1>1, <1>3, <2>1, <2>2, <2>3, AnswerFacts DEF Relay, Hidden, Relayed
<1>4. ASSUME NEW j \in 1..Len(answer), Collect(j) PROVE Hidden'
  BY <1>4 DEF Collect, Hidden
<1>5. CASE Break
  <2>1. answer' = Append(SubSeq(answer, 1, pos), "tail")
    BY <1>5 DEF Break
  <2>2. answer' \in Answer /\ Len(answer') = pos + 1
    BY <1>1, <2>1, BreakFacts
  <2>3. \A i \in 1..pos : answer'[i] = answer[i]
    BY <1>1, <2>1, BreakFacts
  <2>4. \A i \in DOMAIN answer' : answer'[i] = "tail" => i = Len(answer')
    <3> SUFFICES ASSUME NEW i \in DOMAIN answer', answer'[i] = "tail", i # pos + 1
                 PROVE  FALSE
      BY <2>2
    <3>1. i \in 1..pos /\ pos < Len(answer) /\ DOMAIN answer = 1..Len(answer)
      BY <1>1, <1>5, <2>2, AnswerFacts DEF Break
    <3>2. answer[i] = "tail" /\ i \in DOMAIN answer /\ i # Len(answer)
      BY <1>1, <2>3, <3>1, AnswerFacts
    <3> QED  BY <3>2 DEF Hidden
  <2>5. mode = "relay" => (round > MaxRounds \/ Covered(shown))
    BY <1>1, <1>5, AnswerFacts DEF Break, Hidden, Relayed
  <2> QED  BY <1>5, <2>4, <2>5 DEF Break, Hidden, Relayed
<1>6. CASE EndStream
  <2>1. answer \in Answer /\ Arrived = answer /\ streamed
    BY <1>1, <1>6, AllArrived DEF EndStream, Held
  <2>2. shown \o buffer = answer
    BY <1>6, <2>1, JoinFacts DEF EndStream, Held
  <2>3. shown' = answer /\ mode' = "done"
    BY <1>6, <2>2 DEF EndStream
  <2>4. \/ round > MaxRounds
        \/ VirtualCalls(answer) = {}
        \/ OtherCalls(answer) # {}
        \/ Covered(answer)
    <3>1. CASE mode = "relay"
      BY <2>1, <3>1 DEF Hidden, Relayed, Held
    <3>2. CASE mode = "collect" /\ ~OnlyVirtual(buffer)
      BY <2>1, <3>2 DEF Held, OnlyVirtual
    <3>3. CASE mode = "probe"
      BY <2>1, <3>3 DEF Held, Hidden
    <3> QED  BY <1>6, <3>1, <3>2, <3>3 DEF EndStream
  <2>5. ExpandHidden'
    BY <1>6, <2>1, <2>3, <2>4, CoveredBefore DEF EndStream, ExpandHidden, Shelter
  <2> QED  BY <1>6, <2>5 DEF EndStream, Hidden
<1>7. ASSUME NEW a \in Reply, ContinueStream(a) PROVE Hidden'
  <2>1. NextMode = "relay" => round' > MaxRounds
    BY <1>1, <1>7 DEF ContinueStream, NextMode
  <2>2. VirtualCalls(<<>>) = {}
    BY EmptyAnswer, AnswerFacts DEF VirtualCalls, Occurs
  <2> QED  BY <1>7, <2>1, <2>2, NoTail DEF ContinueStream, NextMode, Hidden, Relayed
<1>8. ASSUME NEW a \in Reply, ContinueWhole(a) PROVE Hidden'
  BY <1>8, NoTail DEF ContinueWhole, Continues, Hidden
<1>9. CASE FailWhole
  <2>1. ~streamed /\ asked' # {}
    BY <1>9 DEF FailWhole, Continues, Held, Continuation
  <2> QED  BY <1>9, <2>1 DEF FailWhole, Hidden, ExpandHidden
<1>10. CASE Deliver
  <2>1. VirtualCalls(answer) = {} \/ OtherCalls(answer) # {} \/ round > MaxRounds
    BY <1>1, <1>10 DEF Deliver, Continues, OnlyVirtual
  <2> QED  BY <1>10, <2>1 DEF Deliver, Hidden, ExpandHidden
<1>11. CASE UNCHANGED vars
  BY <1>11 DEF vars, Hidden, Relayed, ExpandHidden
<1> QED
  BY <1>2, <1>3, <1>4, <1>5, <1>6, <1>7, <1>8, <1>9, <1>10, <1>11 DEF Next

\* A call of ctx_expand reaches the client only for one of the reasons named in
\* ExpandHidden, however the answer is cut into chunks and wherever it breaks off.
THEOREM ExpandHiddenCorrect == Spec => []ExpandHidden
<1>1. Init => RoundLeft
  BY VirtualToolsAssumption DEF Init, RoundLeft
<1>2. Typed /\ Held /\ Hidden => ExpandHidden
  <2> SUFFICES ASSUME Typed, Held, Hidden, mode # "done" PROVE ExpandHidden
    BY DEF Hidden
  <2>1. shown \in Answer /\ mode \in Modes
    BY DEF Typed, TypeOK
  <2>2. CASE shown = <<>>
    <3>1. VirtualCalls(shown) = {}
      BY <2>2, EmptyAnswer, AnswerFacts DEF VirtualCalls, Occurs
    <3> QED  BY <3>1 DEF ExpandHidden
  <2>3. CASE mode = "relay"
    <3>1. streamed /\ Relayed
      BY <2>3 DEF Held, Hidden
    <3> QED  BY <2>1, <3>1, CoveredBefore DEF Relayed, ExpandHidden, Shelter
  <2> QED  BY <2>1, <2>2, <2>3 DEF Held, Modes
<1> QED
  BY <1>1, <1>2, TypedInit, TypedStep, RoundLeftStep, HeldInit, HeldStep,
     HiddenInit, HiddenStep, PTL DEF Spec

-----------------------------------------------------------------------------
(* Learning: numbers, and functions that are defined step by step            *)

\* A set of numbers has a first.
LEMMA FirstPosition ==
    ASSUME NEW J \in SUBSET Nat, J # {}
    PROVE  \E j \in J : \A l \in J : ~(l < j)
<1> DEFINE Less == {ss \in Nat \X Nat : ss[1] < ss[2]}
<1>1. IsWellFoundedOn(Less, Nat)
  BY NatLessThanWellFounded, Zenon DEF OpToRel
<1>2. PICK j \in J : \A l \in J : <<l, j>> \notin Less
  <2> HIDE DEF Less
  <2> QED  BY <1>1, WFMin
<1>3. ASSUME NEW l \in J, l < j  PROVE <<l, j>> \in Less
  BY <1>3
<1> HIDE DEF Less
<1> QED  BY <1>2, <1>3

\* What holds at 0, and at each number when at the one before, holds up to m.
LEMMA StepByStep ==
    ASSUME NEW m \in Nat, NEW G, 0 \in G, \A i \in 1..m : i - 1 \in G => i \in G
    PROVE  \A i \in 0..m : i \in G
<1> DEFINE J == {i \in 0..m : i \notin G}
<1> SUFFICES ASSUME J # {}  PROVE FALSE
  OBVIOUS
<1>1. J \in SUBSET Nat
  OBVIOUS
<1>2. PICK j \in J : \A l \in J : ~(l < j)
  <2> HIDE DEF J
  <2> QED  BY <1>1, FirstPosition
<1>3. j \in 1..m /\ j - 1 \in 0..m /\ j - 1 < j
  BY <1>2
<1>4. j - 1 \in G
  BY <1>2, <1>3
<1> QED  BY <1>2, <1>3, <1>4

\* f starts with a, and every step leads from one value to the next, up to k.
Runs(f, k, S, a, step) ==
    /\ f \in [0..k -> S]
    /\ \A i \in 0..k : f[i] = IF i = 0 THEN a ELSE step[i][f[i - 1]]

\* There is such a function, for any steps.
LEMMA Iterated ==
    ASSUME NEW S, NEW a \in S, NEW m \in Nat, NEW step \in [1..m -> [S -> S]]
    PROVE  \E f : Runs(f, m, S, a, step)
<1> DEFINE G == {k \in 0..m : \E f : Runs(f, k, S, a, step)}
<1>1. 0 \in G
  <2> DEFINE f == [i \in 0..0 |-> a]
  <2>1. Runs(f, 0, S, a, step)
    BY DEF Runs
  <2> QED  BY <2>1
<1>2. ASSUME NEW k \in 1..m, k - 1 \in G
      PROVE  k \in G
  <2>1. PICK f : Runs(f, k - 1, S, a, step)
    BY <1>2
  <2> DEFINE g == [i \in 0..k |-> IF i = k THEN step[k][f[k - 1]] ELSE f[i]]
  <2>2. k \in Nat \ {0} /\ k - 1 \in 0..(k - 1)
    OBVIOUS
  <2>3. f[k - 1] \in S /\ step[k] \in [S -> S]
    BY <2>1, <2>2 DEF Runs
  <2>4. \A i \in 0..k : i # k => i \in 0..(k - 1)
    OBVIOUS
  <2>5. g \in [0..k -> S]
    BY <2>1, <2>3, <2>4 DEF Runs
  <2>6. ASSUME NEW i \in 0..k
        PROVE  g[i] = IF i = 0 THEN a ELSE step[i][g[i - 1]]
    <3>1. CASE i = k
      <4>1. g[i - 1] = f[k - 1] /\ i # 0
        BY <2>2, <3>1
      <4> QED  BY <3>1, <4>1
    <3>2. CASE i # k
      <4>1. g[i] = f[i] /\ i \in 0..(k - 1)
        BY <2>4, <3>2
      <4>2. i # 0 => i - 1 \in 0..k /\ i - 1 # k
        BY <4>1
      <4>3. i # 0 => g[i - 1] = f[i - 1]
        BY <4>2
      <4> HIDE DEF g
      <4> QED  BY <2>1, <4>1, <4>3 DEF Runs
    <3> QED  BY <3>1, <3>2
  <2> HIDE DEF g
  <2>7. Runs(g, k, S, a, step)
    BY <2>5, <2>6 DEF Runs
  <2> QED  BY <2>7
<1> HIDE DEF G
<1>3. \A i \in 0..m : i \in G
  <2>1. \A i \in 1..m : i - 1 \in G => i \in G
    BY <1>2
  <2> QED  BY <1>1, <2>1, StepByStep
<1>4. m \in G
  BY <1>3
<1> QED  BY <1>4 DEF G

-----------------------------------------------------------------------------
(* Learning: calls, and those without an identity                            *)

Calls == Seq(Call)
Anons(seq) == {i \in DOMAIN seq : seq[i].id = Anonymous}

LEMMA CallsFacts ==
    ASSUME NEW seq \in Calls
    PROVE  /\ Len(seq) \in Nat /\ DOMAIN seq = 1..Len(seq)
           /\ \A i \in DOMAIN seq : seq[i] \in Call /\ seq[i].id \in 0..MaxCalls
           /\ IsFiniteSet(Ids(seq)) /\ Ids(seq) \subseteq 1..MaxCalls
           /\ IsFiniteSet(Anons(seq)) /\ Cardinality(Anons(seq)) \in Nat
           /\ Cardinality(Anons(seq)) <= Len(seq)
<1>1. /\ Len(seq) \in Nat /\ DOMAIN seq = 1..Len(seq)
      /\ \A i \in DOMAIN seq : seq[i] \in Call
  BY LenProperties DEF Calls
<1>2. \A i \in DOMAIN seq : seq[i].id \in 0..MaxCalls
  BY <1>1 DEF Call
<1>3. Ids(seq) \subseteq 1..MaxCalls
  BY <1>2, LearningAssumption DEF Ids, Anonymous
<1>4. IsFiniteSet(Ids(seq))
  BY <1>3, FS_Interval, FS_Subset, LearningAssumption
<1>5. Anons(seq) \in SUBSET (1..Len(seq))
  BY <1>1 DEF Anons
<1>6. IsFiniteSet(1..Len(seq)) /\ Cardinality(1..Len(seq)) = Len(seq)
  BY <1>1, FS_Interval
<1>7. IsFiniteSet(Anons(seq)) /\ Cardinality(Anons(seq)) <= Len(seq)
  BY <1>5, <1>6, FS_Subset
<1> QED  BY <1>1, <1>2, <1>3, <1>4, <1>7, FS_CardinalityType

LEMMA NoCalls ==
    /\ <<>> \in Calls /\ Len(<<>>) = 0 /\ Ids(<<>>) = {} /\ Anons(<<>>) = {}
    /\ Cardinality({}) = 0
<1>1. <<>> \in Calls /\ Len(<<>>) = 0 /\ DOMAIN <<>> = {}
  <2>1. <<>> \in Calls /\ Len(<<>>) = 0
    BY EmptySeq DEF Calls
  <2> QED  BY <2>1, CallsFacts
<1> QED  BY <1>1, FS_EmptySet DEF Ids, Anons

\* What one more call adds to the identities, and to the calls that have none.
LEMMA AppendedCall ==
    ASSUME NEW seq \in Calls, NEW c \in Call
    PROVE  /\ Append(seq, c) \in Calls /\ Len(Append(seq, c)) = Len(seq) + 1
           /\ Ids(Append(seq, c)) = Ids(seq) \cup ({c.id} \ {Anonymous})
           /\ Cardinality(Anons(Append(seq, c)))
                 = Cardinality(Anons(seq)) + (IF c.id = Anonymous THEN 1 ELSE 0)
<1> DEFINE new == Append(seq, c)
           m == Len(seq)
<1>1. m \in Nat /\ DOMAIN seq = 1..m
  BY CallsFacts
<1>2. /\ new \in Calls /\ Len(new) = m + 1
      /\ \A i \in 1..m : new[i] = seq[i]
      /\ new[m + 1] = c
  BY AppendProperties DEF Calls
<1>3. DOMAIN new = 1..(m + 1)
  BY <1>2, CallsFacts
<1> HIDE DEF new
<1>4. /\ \A i \in DOMAIN new : (i \in DOMAIN seq /\ new[i] = seq[i]) \/ (i = m + 1 /\ new[i] = c)
      /\ \A i \in DOMAIN seq : i \in DOMAIN new /\ new[i] = seq[i]
      /\ m + 1 \in DOMAIN new /\ new[m + 1] = c /\ m + 1 \notin DOMAIN seq
  BY <1>1, <1>2, <1>3
<1> HIDE DEF m
<1>5. Ids(new) = Ids(seq) \cup ({c.id} \ {Anonymous})
  BY <1>4 DEF Ids
<1>6. Anons(new) = IF c.id = Anonymous THEN Anons(seq) \cup {m + 1} ELSE Anons(seq)
  BY <1>4 DEF Anons
<1>7. m + 1 \notin Anons(seq) /\ IsFiniteSet(Anons(seq)) /\ Cardinality(Anons(seq)) \in Nat
  BY <1>4, CallsFacts DEF Anons
<1>8. Cardinality(Anons(new)) = Cardinality(Anons(seq)) + (IF c.id = Anonymous THEN 1 ELSE 0)
  <2>1. CASE c.id = Anonymous
    BY <1>6, <1>7, <2>1, FS_AddElement
  <2>2. CASE c.id # Anonymous
    BY <1>6, <1>7, <2>2
  <2> QED  BY <2>1, <2>2
<1> QED  BY <1>2, <1>5, <1>8 DEF new, m

LEMMA JoinedCalls ==
    ASSUME NEW a \in Calls, NEW b \in Calls
    PROVE  /\ a \o b \in Calls /\ Len(a \o b) = Len(a) + Len(b)
           /\ Ids(a \o b) = Ids(a) \cup Ids(b)
<1> DEFINE w == a \o b
<1>1. /\ Len(a) \in Nat /\ DOMAIN a = 1..Len(a) /\ Len(b) \in Nat /\ DOMAIN b = 1..Len(b)
  BY CallsFacts
<1>2. /\ w \in Calls /\ Len(w) = Len(a) + Len(b)
      /\ \A i \in 1..(Len(a) + Len(b)) : w[i] = IF i <= Len(a) THEN a[i] ELSE b[i - Len(a)]
  BY ConcatProperties DEF Calls
<1>3. DOMAIN w = 1..(Len(a) + Len(b))
  BY <1>2, CallsFacts
<1> HIDE DEF w
<1>4. \A i \in DOMAIN w : \/ i \in DOMAIN a /\ w[i] = a[i]
                          \/ i - Len(a) \in DOMAIN b /\ w[i] = b[i - Len(a)]
  BY <1>1, <1>2, <1>3
<1>5. \A i \in DOMAIN a : i \in DOMAIN w /\ w[i] = a[i]
  BY <1>1, <1>2, <1>3
<1>6. \A i \in DOMAIN b : i + Len(a) \in DOMAIN w /\ w[i + Len(a)] = b[i]
  <2> SUFFICES ASSUME NEW i \in DOMAIN b
               PROVE  i + Len(a) \in DOMAIN w /\ w[i + Len(a)] = b[i]
    OBVIOUS
  <2>1. /\ i \in Nat /\ i + Len(a) \in 1..(Len(a) + Len(b)) /\ ~(i + Len(a) <= Len(a))
        /\ i + Len(a) - Len(a) = i
    BY <1>1
  <2> QED  BY <1>2, <1>3, <2>1
<1>7. Ids(w) = Ids(a) \cup Ids(b)
  BY <1>4, <1>5, <1>6 DEF Ids
<1> QED  BY <1>2, <1>7 DEF w

\* u goes through calls, and collects those that are in sel.
Selects(u, calls, sel) ==
    /\ u[0] = <<>>
    /\ \A i \in 1..Len(calls) :
          u[i] = IF i \in sel THEN Append(u[i - 1], calls[i]) ELSE u[i - 1]

LEMMA SelectedCalls ==
    ASSUME NEW calls \in Calls, NEW sel, NEW u, Selects(u, calls, sel)
    PROVE  \A i \in 0..Len(calls) :
              /\ u[i] \in Calls /\ Len(u[i]) <= i
              /\ Ids(u[i]) = {calls[j].id : j \in sel \cap 1..i} \ {Anonymous}
              /\ Cardinality(Anons(u[i]))
                    = Cardinality({j \in sel \cap 1..i : calls[j].id = Anonymous})
<1> DEFINE m == Len(calls)
           Anon(i) == {j \in sel \cap 1..i : calls[j].id = Anonymous}
           Good(i) == /\ u[i] \in Calls /\ Len(u[i]) <= i
                      /\ Ids(u[i]) = {calls[j].id : j \in sel \cap 1..i} \ {Anonymous}
                      /\ Cardinality(Anons(u[i])) = Cardinality(Anon(i))
           G == {i \in 0..m : Good(i)}
<1>1. m \in Nat /\ \A i \in 1..m : calls[i] \in Call /\ calls[i].id \in 0..MaxCalls
  BY CallsFacts
<1>2. /\ u[0] = <<>>
      /\ \A i \in 1..m : u[i] = IF i \in sel THEN Append(u[i - 1], calls[i]) ELSE u[i - 1]
  BY DEF Selects
<1> HIDE DEF m
<1>3. 0 \in G
  <2>1. 1..0 = {} /\ Anon(0) = {}
    OBVIOUS
  <2>2. {calls[j].id : j \in sel \cap 1..0} = {}
    BY <2>1
  <2> HIDE DEF Anon
  <2>3. /\ u[0] \in Calls /\ Len(u[0]) <= 0
        /\ Ids(u[0]) = {calls[j].id : j \in sel \cap 1..0} \ {Anonymous}
        /\ Cardinality(Anons(u[0])) = Cardinality(Anon(0))
    BY <1>2, <2>1, <2>2, NoCalls
  <2> QED  BY <1>1, <2>3
<1>4. ASSUME NEW i \in 1..m, i - 1 \in G
      PROVE  i \in G
  <2>1. Good(i - 1)
    BY <1>4
  <2>2. /\ i \in Nat /\ i \in 0..m /\ 1..i = 1..(i - 1) \cup {i} /\ i \notin 1..(i - 1)
        /\ i - 1 \in Nat
    BY <1>1
  <2>3. /\ u[i - 1] \in Calls /\ Len(u[i - 1]) \in Nat /\ Len(u[i - 1]) <= i - 1
        /\ Cardinality(Anons(u[i - 1])) \in Nat
    BY <2>1, CallsFacts
  <2>4. CASE i \notin sel
    <3>1. sel \cap 1..i = sel \cap 1..(i - 1) /\ u[i] = u[i - 1]
      BY <1>2, <2>2, <2>4
    <3>2. /\ Anon(i) = Anon(i - 1)
          /\ {calls[j].id : j \in sel \cap 1..i} = {calls[j].id : j \in sel \cap 1..(i - 1)}
      BY <3>1
    <3>3. Len(u[i]) <= i
      BY <2>2, <2>3, <3>1
    <3>4. Ids(u[i]) = {calls[j].id : j \in sel \cap 1..i} \ {Anonymous}
      BY <2>1, <3>1, <3>2
    <3>5. Cardinality(Anons(u[i])) = Cardinality(Anon(i))
      BY <2>1, <3>1, <3>2
    <3> QED  BY <2>2, <2>3, <3>1, <3>3, <3>4, <3>5
  <2>5. CASE i \in sel
    <3> DEFINE c == calls[i]
    <3>1. sel \cap 1..i = (sel \cap 1..(i - 1)) \cup {i} /\ u[i] = Append(u[i - 1], c) /\ c \in Call
      BY <1>1, <1>2, <2>2, <2>5
    <3>2. /\ u[i] \in Calls /\ Len(u[i]) = Len(u[i - 1]) + 1
          /\ Ids(u[i]) = Ids(u[i - 1]) \cup ({c.id} \ {Anonymous})
          /\ Cardinality(Anons(u[i]))
                = Cardinality(Anons(u[i - 1])) + (IF c.id = Anonymous THEN 1 ELSE 0)
      <4> HIDE DEF c
      <4> QED  BY <2>3, <3>1, AppendedCall
    <3>3. {calls[j].id : j \in sel \cap 1..i}
             = {calls[j].id : j \in sel \cap 1..(i - 1)} \cup {c.id}
      BY <3>1
    <3>4. Ids(u[i]) = {calls[j].id : j \in sel \cap 1..i} \ {Anonymous}
      <4> HIDE DEF c
      <4> QED  BY <2>1, <3>2, <3>3
    <3>5. Anon(i) = IF c.id = Anonymous THEN Anon(i - 1) \cup {i} ELSE Anon(i - 1)
      BY <3>1
    <3>6. i \notin Anon(i - 1) /\ IsFiniteSet(Anon(i - 1))
      <4>1. Anon(i - 1) \in SUBSET (1..(i - 1))
        OBVIOUS
      <4>2. IsFiniteSet(1..(i - 1))
        BY <2>2, FS_Interval
      <4> QED  BY <2>2, <4>1, <4>2, FS_Subset
    <3>7. Cardinality(Anon(i - 1)) = Cardinality(Anons(u[i - 1]))
      BY <2>1
    <3> HIDE DEF c, Anon
    <3>8. Cardinality(Anons(u[i])) = Cardinality(Anon(i))
      <4>1. CASE c.id = Anonymous
        <5>1. Cardinality(Anon(i - 1) \cup {i}) = Cardinality(Anon(i - 1)) + 1
          BY <3>6, FS_AddElement
        <5> QED  BY <2>3, <3>2, <3>5, <3>7, <4>1, <5>1
      <4>2. CASE c.id # Anonymous
        BY <2>3, <3>2, <3>5, <3>7, <4>2
      <4> QED  BY <4>1, <4>2
    <3>9. Len(u[i]) <= i
      BY <2>2, <2>3, <3>2
    <3> QED  BY <2>2, <3>2, <3>4, <3>8, <3>9
  <2> QED  BY <2>4, <2>5
<1>5. \A i \in 0..m : i \in G
  <2> HIDE DEF G
  <2> QED  BY <1>1, <1>3, <1>4, StepByStep
<1> QED  BY <1>5 DEF m

\* The evidence is selected.
LEMMA EvidenceSelected ==
    ASSUME NEW calls \in Calls, NEW k
    PROVE  \E u : /\ Selects(u, calls, {i \in DOMAIN calls : Belongs(calls[i], k)})
                  /\ Evidence(calls, k) = u[Len(calls)]
<1> DEFINE m == Len(calls)
           sel == {i \in DOMAIN calls : Belongs(calls[i], k)}
           step == [i \in 1..m |-> [t \in Calls |-> IF i \in sel THEN Append(t, calls[i]) ELSE t]]
           Next0(g, i) == IF i = 0 THEN <<>>
                          ELSE IF Belongs(calls[i], k) THEN Append(g[i - 1], calls[i]) ELSE g[i - 1]
<1>2. m \in Nat /\ DOMAIN calls = 1..m /\ \A i \in 1..m : calls[i] \in Call
  BY CallsFacts
<1>3. \A i \in 1..m : i \in sel <=> Belongs(calls[i], k)
  BY <1>2
<1> HIDE DEF sel
<1>4. step \in [1..m -> [Calls -> Calls]]
  BY <1>2, AppendedCall
<1>5. \A i \in 1..m : \A t \in Calls :
         step[i][t] = IF Belongs(calls[i], k) THEN Append(t, calls[i]) ELSE t
  BY <1>3
<1>6. PICK f : Runs(f, m, Calls, <<>>, step)
  <2> HIDE DEF step, m
  <2> QED  BY <1>2, <1>4, NoCalls, Iterated
<1> HIDE DEF step
<1>7. \A i \in 1..m : i \in 0..m /\ i # 0 /\ i - 1 \in 0..m
  BY <1>2
<1>8. f \in [0..m -> Calls] /\ \A i \in 0..m : f[i] = Next0(f, i)
  <2>1. \A i \in 0..m : i # 0 => i \in 1..m
    BY <1>2
  <2> QED  BY <1>5, <1>6, <1>7, <2>1 DEF Runs
<1>9. f = [i \in 0..m |-> Next0(f, i)]
  BY <1>8
<1> DEFINE u == CHOOSE g : g = [i \in 0..m |-> Next0(g, i)]
<1>10. Evidence(calls, k) = u[m]
  BY DEF Evidence
<1>11. u = [i \in 0..m |-> Next0(u, i)]
  BY <1>9
<1> HIDE DEF u
<1>12. \A i \in 0..m : u[i] = Next0(u, i)
  BY <1>11
<1>13. Selects(u, calls, sel)
  <2>1. 0 \in 0..m
    BY <1>2
  <2> QED  BY <1>3, <1>7, <1>12, <2>1 DEF Selects
<1> HIDE DEF m
<1> QED  BY <1>10, <1>13 DEF sel, m

\* The evidence in a transcript is what the property says: the calls at its places.
LEMMA EvidenceFacts ==
    ASSUME NEW calls \in Calls, NEW k
    PROVE  LET e == Evidence(calls, k)
               sel == {i \in DOMAIN calls : Belongs(calls[i], k)}
           IN /\ e \in Calls /\ Len(e) <= Len(calls)
              /\ Ids(e) = {calls[j].id : j \in sel} \ {Anonymous}
              /\ Cardinality(Anons(e)) = Cardinality({j \in sel : calls[j].id = Anonymous})
<1> DEFINE m == Len(calls)
           sel == {i \in DOMAIN calls : Belongs(calls[i], k)}
           A == {j \in sel : calls[j].id = Anonymous}
           B == {j \in sel \cap 1..m : calls[j].id = Anonymous}
<1>1. PICK u : Selects(u, calls, sel) /\ Evidence(calls, k) = u[m]
  BY EvidenceSelected
<1>2. m \in Nat /\ sel \cap 1..m = sel /\ m \in 0..m
  BY CallsFacts
<1> HIDE DEF sel
<1>3. /\ u[m] \in Calls /\ Len(u[m]) <= m
      /\ Ids(u[m]) = {calls[j].id : j \in sel \cap 1..m} \ {Anonymous}
      /\ Cardinality(Anons(u[m])) = Cardinality(B)
  <2> DEFINE C(i) == {j \in sel \cap 1..i : calls[j].id = Anonymous}
  <2>1. \A i \in 0..m : /\ u[i] \in Calls /\ Len(u[i]) <= i
                        /\ Ids(u[i]) = {calls[j].id : j \in sel \cap 1..i} \ {Anonymous}
                        /\ Cardinality(Anons(u[i])) = Cardinality(C(i))
    BY <1>1, SelectedCalls, Zenon
  <2> HIDE DEF C, m
  <2>2. /\ u[m] \in Calls /\ Len(u[m]) <= m
        /\ Ids(u[m]) = {calls[j].id : j \in sel \cap 1..m} \ {Anonymous}
        /\ Cardinality(Anons(u[m])) = Cardinality(C(m))
    BY <1>2, <2>1
  <2> QED  BY <2>2, Zenon DEF C
<1>4. A = B /\ {calls[j].id : j \in sel \cap 1..m} = {calls[j].id : j \in sel}
  BY <1>2
<1> HIDE DEF A, B
<1>5. Cardinality(Anons(u[m])) = Cardinality(A)
  BY <1>3, <1>4
<1> DEFINE e == Evidence(calls, k)
<1>6. /\ e \in Calls /\ Len(e) <= m
      /\ Ids(e) = {calls[j].id : j \in sel} \ {Anonymous}
      /\ Cardinality(Anons(e)) = Cardinality(A)
  BY <1>1, <1>3, <1>4, <1>5
<1> HIDE DEF m, e
<1> QED  BY <1>6, Zenon DEF A, sel, m, e

\* Without replays there is one call for each identity that was not seen before, and
\* each that has none.
LEMMA ReplaysFacts ==
    ASSUME NEW calls \in Calls, NEW before, Anonymous \notin before
    PROVE  LET w == WithoutReplays(calls, before)
           IN /\ w \in Calls /\ Len(w) <= Len(calls)
              /\ Ids(w) = Ids(calls) \ before
              /\ Len(w) = Cardinality(Ids(w)) + Cardinality(Anons(w))
              /\ Cardinality(Anons(w)) = Cardinality(Anons(calls))
<1> DEFINE m == Len(calls)
           step == [i \in 1..m |-> [t \in Calls |->
                       IF calls[i].id \in before \cup Ids(t) THEN t ELSE Append(t, calls[i])]]
           Next0(g, i) == IF i = 0 THEN <<>>
                          ELSE IF calls[i].id \in before \cup Ids(g[i - 1]) THEN g[i - 1]
                          ELSE Append(g[i - 1], calls[i])
<1>1. /\ m \in Nat /\ DOMAIN calls = 1..m
      /\ \A i \in 1..m : calls[i] \in Call /\ calls[i].id \in 0..MaxCalls
  BY CallsFacts
<1>2. step \in [1..m -> [Calls -> Calls]]
  BY <1>1, AppendedCall
<1>3. \A i \in 1..m : \A t \in Calls :
         step[i][t] = IF calls[i].id \in before \cup Ids(t) THEN t ELSE Append(t, calls[i])
  OBVIOUS
<1>4. PICK f : Runs(f, m, Calls, <<>>, step)
  <2> HIDE DEF step, m
  <2> QED  BY <1>1, <1>2, NoCalls, Iterated
<1> HIDE DEF step
<1>5. \A i \in 1..m : i \in 0..m /\ i # 0 /\ i - 1 \in 0..m
  BY <1>1
<1>6. f \in [0..m -> Calls] /\ \A i \in 0..m : f[i] = Next0(f, i)
  <2>1. \A i \in 0..m : i # 0 => i \in 1..m
    BY <1>1
  <2> QED  BY <1>3, <1>4, <1>5, <2>1 DEF Runs
<1>7. f = [i \in 0..m |-> Next0(f, i)]
  BY <1>6
<1> DEFINE u == CHOOSE g : g = [i \in 0..m |-> Next0(g, i)]
<1>8. WithoutReplays(calls, before) = u[m]
  BY DEF WithoutReplays
<1>9. u = [i \in 0..m |-> Next0(u, i)]
  BY <1>7
<1> HIDE DEF u
<1>10. \A i \in 0..m : u[i] = Next0(u, i)
  BY <1>9
<1>11. /\ u[0] = <<>>
       /\ \A i \in 1..m : u[i] = IF calls[i].id \in before \cup Ids(u[i - 1]) THEN u[i - 1]
                                 ELSE Append(u[i - 1], calls[i])
  <2>1. 0 \in 0..m
    BY <1>1
  <2> QED  BY <1>5, <1>10, <2>1
<1> HIDE DEF Next0
<1> DEFINE From(i) == {calls[j].id : j \in 1..i} \ {Anonymous}
           Anon(i) == {j \in 1..i : calls[j].id = Anonymous}
           Good(i) == /\ u[i] \in Calls /\ Len(u[i]) <= i
                      /\ Ids(u[i]) = From(i) \ before
                      /\ Len(u[i]) = Cardinality(Ids(u[i])) + Cardinality(Anons(u[i]))
                      /\ Cardinality(Anons(u[i])) = Cardinality(Anon(i))
           G == {i \in 0..m : Good(i)}
<1>12. From(m) = Ids(calls) /\ Anon(m) = Anons(calls)
  BY <1>1 DEF Ids, Anons
<1> HIDE DEF m
<1>13. 0 \in G
  <2>1. 1..0 = {} /\ From(0) = {} /\ Anon(0) = {}
    OBVIOUS
  <2> HIDE DEF Anon, From
  <2>2. /\ u[0] \in Calls /\ Len(u[0]) = 0 /\ Ids(u[0]) = {} /\ Anons(u[0]) = {}
        /\ From(0) \ before = {} /\ Cardinality({}) = 0
    BY <1>11, <2>1, NoCalls
  <2>3. Cardinality(Ids(u[0])) = 0 /\ Cardinality(Anons(u[0])) = 0 /\ Cardinality(Anon(0)) = 0
    BY <2>1, <2>2
  <2>4. Good(0)
    BY <2>2, <2>3
  <2> HIDE DEF Good
  <2> QED  BY <1>1, <2>4
<1>14. ASSUME NEW i \in 1..m, i - 1 \in G
       PROVE  i \in G
  <2> DEFINE c == calls[i]
             v == u[i - 1]
             a == Anon(i - 1)
  <2>1. Good(i - 1)
    BY <1>14
  <2>2. /\ i \in Nat /\ i \in 0..m /\ 1..i = 1..(i - 1) \cup {i} /\ i \notin 1..(i - 1)
        /\ i - 1 \in Nat /\ c \in Call
    BY <1>1
  <2>3. /\ v \in Calls /\ Len(v) \in Nat /\ Len(v) <= i - 1
        /\ Cardinality(Anons(v)) \in Nat
        /\ IsFiniteSet(Ids(v)) /\ Cardinality(Ids(v)) \in Nat /\ Anonymous \notin Ids(v)
    BY <2>1, CallsFacts, FS_CardinalityType DEF Ids
  <2>4. From(i) = From(i - 1) \cup ({c.id} \ {Anonymous})
    BY <2>2
  <2>5. Anon(i) = IF c.id = Anonymous THEN a \cup {i} ELSE a
    BY <2>2
  <2>6. IsFiniteSet(a) /\ i \notin a /\ Cardinality(a \cup {i}) = Cardinality(a) + 1
    <3>1. a \in SUBSET (1..(i - 1)) /\ i \notin a
      BY <2>2
    <3>2. IsFiniteSet(1..(i - 1))
      BY <2>2, FS_Interval
    <3> HIDE DEF a
    <3>3. IsFiniteSet(a)
      BY <3>1, <3>2, FS_Subset
    <3> QED  BY <3>1, <3>3, FS_AddElement
  <2> HIDE DEF From, Anon, c
  <2>7. /\ Ids(v) = From(i - 1) \ before
        /\ Len(v) = Cardinality(Ids(v)) + Cardinality(Anons(v))
        /\ Cardinality(Anons(v)) = Cardinality(a)
    BY <2>1
  <2> HIDE DEF a
  <2>8. u[i] = IF c.id \in before \cup Ids(v) THEN v ELSE Append(v, c)
    BY <1>11 DEF c
  <2> HIDE DEF v
  <2>9. CASE c.id \in before \cup Ids(v)
    <3>1. c.id # Anonymous /\ u[i] = v
      BY <2>3, <2>8, <2>9
    <3>2. From(i) \ before = From(i - 1) \ before /\ Anon(i) = a
      BY <2>4, <2>5, <2>7, <2>9, <3>1
    <3>3. Len(v) <= i
      BY <2>2, <2>3
    <3> QED  BY <2>2, <2>3, <2>7, <3>1, <3>2, <3>3
  <2>10. CASE c.id \notin before \cup Ids(v)
    <3>1. /\ u[i] \in Calls /\ Len(u[i]) = Len(v) + 1
          /\ Ids(u[i]) = Ids(v) \cup ({c.id} \ {Anonymous})
          /\ Cardinality(Anons(u[i])) = Cardinality(Anons(v)) + (IF c.id = Anonymous THEN 1 ELSE 0)
      BY <2>2, <2>3, <2>8, <2>10, AppendedCall
    <3>2. Ids(u[i]) = From(i) \ before
      BY <2>4, <2>7, <2>10, <3>1
    <3>3. Len(u[i]) <= i
      BY <2>2, <2>3, <3>1
    <3>4. CASE c.id = Anonymous
      <4>1. Ids(u[i]) = Ids(v)
        BY <3>1, <3>4
      <4>2. Cardinality(Anons(u[i])) = Cardinality(Anon(i))
        BY <2>5, <2>6, <2>7, <3>1, <3>4
      <4>3. Len(u[i]) = Cardinality(Ids(u[i])) + Cardinality(Anons(u[i]))
        <5>1. Cardinality(Anons(u[i])) = Cardinality(Anons(v)) + 1
          BY <3>1, <3>4
        <5>2. Cardinality(Ids(u[i])) = Cardinality(Ids(v))
          BY <4>1
        <5> QED  BY <2>3, <2>7, <3>1, <5>1, <5>2
      <4> QED  BY <2>2, <3>1, <3>2, <3>3, <4>2, <4>3
    <3>5. CASE c.id # Anonymous
      <4>1. Cardinality(Ids(v) \cup {c.id}) = Cardinality(Ids(v)) + 1
        BY <2>3, <2>10, FS_AddElement
      <4>2. Ids(u[i]) = Ids(v) \cup {c.id}
        BY <3>1, <3>5
      <4>3. Cardinality(Anons(u[i])) = Cardinality(Anon(i))
        BY <2>3, <2>5, <2>7, <3>1, <3>5
      <4>4. Len(u[i]) = Cardinality(Ids(u[i])) + Cardinality(Anons(u[i]))
        <5>1. Cardinality(Anons(u[i])) = Cardinality(Anons(v))
          BY <2>3, <3>1, <3>5
        <5>2. Cardinality(Ids(u[i])) = Cardinality(Ids(v)) + 1
          BY <4>1, <4>2
        <5> QED  BY <2>3, <2>7, <3>1, <5>1, <5>2
      <4> QED  BY <2>2, <3>1, <3>2, <3>3, <4>3, <4>4
    <3> QED  BY <3>4, <3>5
  <2> QED  BY <2>9, <2>10
<1>15. m \in G
  <2>1. m \in 0..m
    BY <1>1
  <2> HIDE DEF G
  <2> QED  BY <1>1, <1>13, <1>14, <2>1, StepByStep
<1>16. Good(m)
  BY <1>15
<1> HIDE DEF From, Anon
<1> QED  BY <1>8, <1>12, <1>16 DEF m

\* The evidence in a transcript, by identities and by places.
LEMMA SessionFacts ==
    ASSUME LTypeOK, NEW s \in Sessions, NEW k
    PROVE  /\ Evidence(log[s], k) \in Calls /\ Len(Evidence(log[s], k)) <= MaxCalls
           /\ Ids(Evidence(log[s], k)) = Named(s, k)
           /\ Cardinality(Anons(Evidence(log[s], k))) = Cardinality(Nameless(s, k))
           /\ IsFiniteSet(Named(s, k)) /\ Cardinality(Named(s, k)) \in Nat
           /\ IsFiniteSet(Nameless(s, k)) /\ Cardinality(Nameless(s, k)) \in Nat
           /\ Anonymous \notin Named(s, k)
<1> DEFINE calls == log[s]
           e == Evidence(calls, k)
           sel == {i \in DOMAIN calls : Belongs(calls[i], k)}
           A == {j \in sel : calls[j].id = Anonymous}
<1>1. /\ calls \in Calls /\ Len(calls) \in Nat /\ Len(calls) <= MaxCalls
      /\ DOMAIN calls = 1..Len(calls)
  BY CallsFacts DEF LTypeOK, Calls
<1>2. sel = Places(s, k) /\ {s} \X A = Nameless(s, k)
      /\ Named(s, k) = {calls[j].id : j \in sel} \ {Anonymous}
  BY DEF Places, Nameless, Named
<1>3. A \in SUBSET (1..Len(calls))
  BY <1>1
<1> HIDE DEF calls
<1>4. /\ e \in Calls /\ Len(e) <= Len(calls)
      /\ Ids(e) = {calls[j].id : j \in sel} \ {Anonymous}
      /\ Cardinality(Anons(e)) = Cardinality(A)
  BY <1>1, EvidenceFacts, Zenon
<1> HIDE DEF sel, A
<1>5. IsFiniteSet(A) /\ Cardinality(A) \in Nat
  <2>1. IsFiniteSet(1..Len(calls))
    BY <1>1, FS_Interval
  <2> QED  BY <1>3, <2>1, FS_Subset, FS_CardinalityType
<1>6. IsFiniteSet(Nameless(s, k)) /\ Cardinality(Nameless(s, k)) = Cardinality(A)
  <2>1. IsFiniteSet({s}) /\ Cardinality({s}) = 1
    BY FS_Singleton
  <2>2. IsFiniteSet({s} \X A) /\ Cardinality({s} \X A) = 1 * Cardinality(A)
    BY <1>5, <2>1, FS_Product
  <2> QED  BY <1>2, <1>5, <2>2
<1>7. Ids(e) = Named(s, k)
  BY <1>2, <1>4
<1> HIDE DEF e
<1>8. IsFiniteSet(Named(s, k)) /\ Cardinality(Named(s, k)) \in Nat
  BY <1>4, <1>7, CallsFacts, FS_CardinalityType
<1>9. Len(e) <= MaxCalls
  <2>1. Len(e) \in Nat /\ MaxCalls \in Nat
    BY <1>4, CallsFacts, LearningAssumption
  <2> QED  BY <1>1, <1>4, <2>1
<1>10. Anonymous \notin Named(s, k)
  BY DEF Named
<1> QED  BY <1>4, <1>5, <1>6, <1>7, <1>8, <1>9, <1>10 DEF e, calls

\* The sessions that repeat themselves often enough.
Loopers(k, threshold) ==
    {s \in Sessions : Cardinality(Named(s, k)) + Cardinality(Nameless(s, k)) >= threshold}

LEMMA ContributionFacts ==
    ASSUME LTypeOK, NEW s \in Sessions, NEW k, NEW threshold \in Nat, NEW before \in Calls
    PROVE  LET c == Contribution(s, k, threshold, before)
           IN /\ c \in Calls /\ Len(c) <= MaxCalls
              /\ s \notin Loopers(k, threshold) => c = <<>>
              /\ s \in Loopers(k, threshold) =>
                    /\ Ids(c) = Named(s, k) \ Ids(before)
                    /\ Len(c) = Cardinality(Named(s, k) \ Ids(before)) + Cardinality(Nameless(s, k))
<1> DEFINE e == Evidence(log[s], k)
           d == WithoutReplays(e, {})
           w == WithoutReplays(d, Ids(before))
<1>1. /\ e \in Calls /\ Len(e) <= MaxCalls /\ Ids(e) = Named(s, k)
      /\ Cardinality(Anons(e)) = Cardinality(Nameless(s, k))
  BY SessionFacts
<1> HIDE DEF e
<1>2. /\ d \in Calls /\ Len(d) <= Len(e) /\ Ids(d) = Ids(e) \ {}
      /\ Len(d) = Cardinality(Ids(d)) + Cardinality(Anons(d))
      /\ Cardinality(Anons(d)) = Cardinality(Anons(e))
  <2>1. Anonymous \notin {}
    OBVIOUS
  <2> QED  BY <1>1, <2>1, ReplaysFacts, Zenon
<1> HIDE DEF d
<1>3. /\ w \in Calls /\ Len(w) <= Len(d) /\ Ids(w) = Ids(d) \ Ids(before)
      /\ Len(w) = Cardinality(Ids(w)) + Cardinality(Anons(w))
      /\ Cardinality(Anons(w)) = Cardinality(Anons(d))
  <2>1. Anonymous \notin Ids(before)
    BY DEF Ids
  <2> QED  BY <1>2, <2>1, ReplaysFacts, Zenon
<1> HIDE DEF w
<1>4. /\ Len(d) = Cardinality(Named(s, k)) + Cardinality(Nameless(s, k))
      /\ Ids(w) = Named(s, k) \ Ids(before)
      /\ Len(w) = Cardinality(Named(s, k) \ Ids(before)) + Cardinality(Nameless(s, k))
  <2>1. Ids(d) = Named(s, k) /\ Cardinality(Anons(w)) = Cardinality(Nameless(s, k))
        /\ Cardinality(Anons(d)) = Cardinality(Nameless(s, k))
    BY <1>1, <1>2, <1>3
  <2> QED  BY <1>2, <1>3, <2>1
<1>5. /\ Len(w) \in Nat /\ Len(d) \in Nat /\ Len(e) \in Nat /\ MaxCalls \in Nat
      /\ Len(w) <= MaxCalls
  BY <1>1, <1>2, <1>3, CallsFacts, LearningAssumption
<1>6. Contribution(s, k, threshold, before) = IF Len(d) < threshold THEN <<>> ELSE w
  BY DEF Contribution, w, d, e
<1>7. s \in Loopers(k, threshold) <=> ~(Len(d) < threshold)
  BY <1>4, <1>5 DEF Loopers
<1>8. <<>> \in Calls /\ Len(<<>>) = 0
  BY NoCalls
<1> QED  BY <1>3, <1>4, <1>5, <1>6, <1>7, <1>8

LEMMA AddedSet ==
    ASSUME NEW S, NEW T, IsFiniteSet(S), IsFiniteSet(T)
    PROVE  /\ IsFiniteSet(S \cup T) /\ Cardinality(S \cup T) = Cardinality(S) + Cardinality(T \ S)
           /\ S \cap T = {} => T \ S = T
           /\ Cardinality(S) \in Nat /\ Cardinality(T) \in Nat /\ Cardinality(T \ S) \in Nat
<1>1. /\ IsFiniteSet(S \cup T)
      /\ Cardinality(S \cup T) = Cardinality(S) + Cardinality(T) - Cardinality(S \cap T)
  BY FS_Union
<1>2. IsFiniteSet(T \ S) /\ Cardinality(T \ S) = Cardinality(T) - Cardinality(T \cap S)
  BY FS_Difference
<1>3. IsFiniteSet(S \cap T)
  BY FS_Intersection
<1>4. /\ Cardinality(S) \in Nat /\ Cardinality(T) \in Nat /\ Cardinality(T \ S) \in Nat
      /\ Cardinality(S \cap T) \in Nat
  BY <1>2, <1>3, FS_CardinalityType
<1>5. T \cap S = S \cap T
  OBVIOUS
<1> QED  BY <1>1, <1>2, <1>4, <1>5

LEMMA OrderFacts ==
    /\ Len(Order) \in Nat /\ DOMAIN Order = 1..Len(Order)
    /\ \A i \in 1..Len(Order) : Order[i] \in Sessions
    /\ \A s \in Sessions : \E i \in 1..Len(Order) : Order[i] = s
    /\ \A i, j \in 1..Len(Order) : Order[i] = Order[j] => i = j
<1>1. Len(Order) \in Nat /\ DOMAIN Order = 1..Len(Order)
  BY LenProperties, LearningAssumption
<1> QED  BY <1>1, LearningAssumption DEF Sessions, Range

\* The fold over the sessions, step by step.
LEMMA MergedRuns ==
    ASSUME LTypeOK, NEW k, NEW threshold \in Nat
    PROVE  \E u : /\ u[0] = <<>>
                  /\ \A i \in 1..Len(Order) :
                        u[i] = u[i - 1] \o Contribution(Order[i], k, threshold, u[i - 1])
                  /\ Merged(k, threshold) = u[Len(Order)]
<1> DEFINE m == Len(Order)
           Of(i, t) == Contribution(Order[i], k, threshold, t)
           step == [i \in 1..m |-> [t \in Calls |-> t \o Of(i, t)]]
           Next0(g, i) == IF i = 0 THEN <<>> ELSE g[i - 1] \o Of(i, g[i - 1])
<1>1. m \in Nat /\ \A i \in 1..m : Order[i] \in Sessions
  BY OrderFacts
<1>2. \A i \in 1..m : \A t \in Calls : Of(i, t) \in Calls
  BY <1>1, ContributionFacts
<1>8. Merged(k, threshold) = (CHOOSE g : g = [i \in 0..m |-> Next0(g, i)])[m]
  BY DEF Merged
<1> HIDE DEF Of, m
<1>3. step \in [1..m -> [Calls -> Calls]]
  BY <1>2, JoinedCalls
<1>4. \A i \in 1..m : \A t \in Calls : step[i][t] = t \o Of(i, t)
  OBVIOUS
<1>5. PICK f : Runs(f, m, Calls, <<>>, step)
  <2> HIDE DEF step
  <2> QED  BY <1>1, <1>3, NoCalls, Iterated
<1> HIDE DEF step
<1>6. \A i \in 1..m : i \in 0..m /\ i # 0 /\ i - 1 \in 0..m
  BY <1>1
<1>7. f = [i \in 0..m |-> Next0(f, i)]
  <2>1. \A i \in 0..m : i # 0 => i \in 1..m
    BY <1>1
  <2>2. f \in [0..m -> Calls] /\ \A i \in 0..m : f[i] = IF i = 0 THEN <<>> ELSE step[i][f[i - 1]]
    BY <1>5 DEF Runs
  <2> QED  BY <1>4, <1>6, <2>1, <2>2
<1> DEFINE u == CHOOSE g : g = [i \in 0..m |-> Next0(g, i)]
<1>9. u = [i \in 0..m |-> Next0(u, i)] /\ Merged(k, threshold) = u[m]
  BY <1>7, <1>8
<1> HIDE DEF u
<1>10. \A i \in 0..m : u[i] = Next0(u, i)
  BY <1>9
<1>11. u[0] = <<>> /\ \A i \in 1..m : u[i] = u[i - 1] \o Of(i, u[i - 1])
  <2>1. 0 \in 0..m
    BY <1>1
  <2> QED  BY <1>6, <1>10, <2>1
<1> QED  BY <1>9, <1>11 DEF Of, m

LEMMA MergedFacts ==
    ASSUME LTypeOK, NEW k, NEW threshold \in Nat
    PROVE  LET w == Merged(k, threshold)
               L == Loopers(k, threshold)
           IN /\ w \in Calls /\ Len(w) <= Len(Order) * MaxCalls
              /\ Len(w) = Cardinality(UNION {Named(s, k) : s \in L})
                          + Cardinality(UNION {Nameless(s, k) : s \in L})
              /\ IsFiniteSet(UNION {Named(s, k) : s \in L})
              /\ IsFiniteSet(UNION {Nameless(s, k) : s \in L})
<1>1. PICK u : /\ u[0] = <<>>
               /\ \A i \in 1..Len(Order) :
                     u[i] = u[i - 1] \o Contribution(Order[i], k, threshold, u[i - 1])
               /\ Merged(k, threshold) = u[Len(Order)]
  BY MergedRuns
<1> DEFINE m == Len(Order)
           L == Loopers(k, threshold)
           To(i) == {Order[j] : j \in 1..i} \cap L
           U(i) == UNION {Named(s, k) : s \in To(i)}
           V(i) == UNION {Nameless(s, k) : s \in To(i)}
           Good(i) == /\ u[i] \in Calls /\ Len(u[i]) <= i * MaxCalls
                      /\ Ids(u[i]) = U(i) /\ IsFiniteSet(U(i)) /\ IsFiniteSet(V(i))
                      /\ Len(u[i]) = Cardinality(U(i)) + Cardinality(V(i))
           G == {i \in 0..m : Good(i)}
<1>2. /\ m \in Nat /\ \A i \in 1..m : Order[i] \in Sessions
      /\ \A s \in Sessions : \E i \in 1..m : Order[i] = s
      /\ \A i, j \in 1..m : Order[i] = Order[j] => i = j
  BY OrderFacts
<1>3. To(m) = L
  BY <1>2 DEF Loopers
<1> HIDE DEF m, L
<1>4. 0 \in G
  <2>1. U(0) = {} /\ V(0) = {}
    <3>1. 1..0 = {}
      OBVIOUS
    <3>2. To(0) = {}
      BY <3>1
    <3> QED  BY <3>2
  <2> HIDE DEF U, V
  <2>2. /\ u[0] \in Calls /\ Len(u[0]) = 0 /\ Ids(u[0]) = {}
        /\ IsFiniteSet({}) /\ Cardinality({}) = 0
        /\ 0 * MaxCalls = 0
    BY <1>1, NoCalls, FS_EmptySet, LearningAssumption
  <2>3. Cardinality(U(0)) = 0 /\ Cardinality(V(0)) = 0
    BY <2>1, <2>2
  <2>4. /\ u[0] \in Calls /\ Len(u[0]) <= 0 * MaxCalls
        /\ Ids(u[0]) = U(0) /\ IsFiniteSet(U(0)) /\ IsFiniteSet(V(0))
        /\ Len(u[0]) = Cardinality(U(0)) + Cardinality(V(0))
    <3>1. Ids(u[0]) = U(0) /\ IsFiniteSet(U(0)) /\ IsFiniteSet(V(0))
      BY <2>1, <2>2
    <3>2. Len(u[0]) = Cardinality(U(0)) + Cardinality(V(0)) /\ Len(u[0]) <= 0 * MaxCalls
      BY <2>2, <2>3
    <3> QED  BY <2>2, <3>1, <3>2
  <2>5. Good(0) /\ 0 \in 0..m
    BY <1>2, <2>4
  <2> HIDE DEF Good
  <2> QED  BY <2>5
<1>5. ASSUME NEW i \in 1..m, i - 1 \in G
      PROVE  i \in G
  <2> DEFINE s == Order[i]
             v == u[i - 1]
             c == Contribution(s, k, threshold, v)
  <2>1. Good(i - 1)
    BY <1>5
  <2>2. /\ i \in Nat /\ i \in 0..m /\ 1..i = 1..(i - 1) \cup {i} /\ s \in Sessions
        /\ i - 1 \in Nat /\ \A j \in 1..(i - 1) : j \in 1..m /\ j # i
    BY <1>2
  <2>3. /\ v \in Calls /\ Len(v) \in Nat /\ Len(v) <= (i - 1) * MaxCalls
        /\ Ids(v) = U(i - 1) /\ Len(v) = Cardinality(U(i - 1)) + Cardinality(V(i - 1))
        /\ IsFiniteSet(U(i - 1)) /\ IsFiniteSet(V(i - 1))
    BY <2>1, CallsFacts
  <2>4. /\ c \in Calls /\ Len(c) <= MaxCalls
        /\ s \notin L => c = <<>>
        /\ s \in L => /\ Ids(c) = Named(s, k) \ Ids(v)
                      /\ Len(c) = Cardinality(Named(s, k) \ Ids(v)) + Cardinality(Nameless(s, k))
    <3>1. v \in Calls
      BY <2>3
    <3> HIDE DEF s, v, c
    <3>2. /\ c \in Calls /\ Len(c) <= MaxCalls
          /\ s \notin Loopers(k, threshold) => c = <<>>
          /\ s \in Loopers(k, threshold) =>
                /\ Ids(c) = Named(s, k) \ Ids(v)
                /\ Len(c) = Cardinality(Named(s, k) \ Ids(v)) + Cardinality(Nameless(s, k))
      BY <2>2, <3>1, ContributionFacts, Zenon DEF c
    <3> QED  BY <3>2 DEF L
  <2>5. u[i] = v \o c
    BY <1>1 DEF m
  <2>6. s \notin To(i - 1) /\ To(i) = To(i - 1) \cup ({s} \cap L)
    BY <1>2, <2>2
  <2> HIDE DEF s, v, c
  <2>7. /\ u[i] \in Calls /\ Len(u[i]) = Len(v) + Len(c) /\ Ids(u[i]) = Ids(v) \cup Ids(c)
        /\ Len(c) \in Nat
    <3>1. v \o c \in Calls /\ Len(v \o c) = Len(v) + Len(c) /\ Ids(v \o c) = Ids(v) \cup Ids(c)
      BY <2>3, <2>4, JoinedCalls
    <3>2. Len(c) \in Nat
      BY <2>4, CallsFacts
    <3> QED  BY <2>5, <3>1, <3>2
  <2>8. Len(u[i]) <= i * MaxCalls
    <3>1. MaxCalls \in Nat /\ (i - 1) * MaxCalls + MaxCalls = i * MaxCalls
          /\ (i - 1) * MaxCalls \in Nat /\ i * MaxCalls \in Nat
      BY <2>2, LearningAssumption
    <3> QED  BY <2>3, <2>4, <2>7, <3>1
  <2>9. CASE s \notin L
    <3>1. To(i) = To(i - 1)
      BY <2>6, <2>9
    <3> HIDE DEF To
    <3>2. U(i) = U(i - 1) /\ V(i) = V(i - 1)
      BY <3>1
    <3>3. Len(c) = 0 /\ Ids(c) = {}
      BY <2>4, <2>9, NoCalls
    <3>4. Ids(u[i]) = U(i) /\ Len(u[i]) = Len(v)
      BY <2>3, <2>7, <3>2, <3>3
    <3> HIDE DEF U, V
    <3> QED  BY <2>2, <2>3, <2>7, <2>8, <3>2, <3>4
  <2>10. CASE s \in L
    <3> DEFINE A == Named(s, k)
               B == Nameless(s, k)
               P == U(i - 1)
               Q == V(i - 1)
    <3>1. To(i) = To(i - 1) \cup {s}
      BY <2>6, <2>10
    <3>2. \A t \in To(i - 1) : Nameless(t, k) \cap B = {}
      BY <2>6 DEF Nameless
    <3>3. IsFiniteSet(A) /\ IsFiniteSet(B)
      BY <2>2, SessionFacts
    <3> HIDE DEF To, A, B
    <3>4. U(i) = U(i - 1) \cup A /\ V(i) = V(i - 1) \cup B
      BY <3>1 DEF A, B
    <3>5. V(i - 1) \cap B = {}
      BY <3>2
    <3> HIDE DEF U, V
    <3>0. /\ IsFiniteSet(P) /\ IsFiniteSet(Q) /\ Ids(v) = P
          /\ Len(v) = Cardinality(P) + Cardinality(Q)
          /\ U(i) = P \cup A /\ V(i) = Q \cup B /\ Q \cap B = {}
      BY <2>3, <3>4, <3>5
    <3> HIDE DEF P, Q
    <3>6. /\ IsFiniteSet(P \cup A) /\ Cardinality(P \cup A) = Cardinality(P) + Cardinality(A \ P)
          /\ Cardinality(P) \in Nat /\ Cardinality(A \ P) \in Nat
      BY <3>0, <3>3, AddedSet
    <3>7. /\ IsFiniteSet(Q \cup B) /\ Cardinality(Q \cup B) = Cardinality(Q) + Cardinality(B)
          /\ Cardinality(Q) \in Nat /\ Cardinality(B) \in Nat
      <4>1. /\ IsFiniteSet(Q \cup B) /\ Cardinality(Q \cup B) = Cardinality(Q) + Cardinality(B \ Q)
            /\ Cardinality(Q) \in Nat /\ Cardinality(B) \in Nat
        BY <3>0, <3>3, AddedSet
      <4>2. B \ Q = B
        BY <3>0
      <4> QED  BY <4>1, <4>2
    <3>8. Ids(c) = A \ P /\ Len(c) = Cardinality(A \ P) + Cardinality(B)
      BY <2>4, <2>10, <3>0 DEF A, B
    <3>9. Ids(u[i]) = U(i)
      BY <2>7, <3>0, <3>8
    <3>10. Len(u[i]) = Cardinality(U(i)) + Cardinality(V(i))
      BY <2>7, <3>0, <3>6, <3>7, <3>8
    <3>11. IsFiniteSet(U(i)) /\ IsFiniteSet(V(i))
      BY <3>0, <3>6, <3>7
    <3> QED  BY <2>2, <2>7, <2>8, <3>9, <3>10, <3>11
  <2> QED  BY <2>9, <2>10
<1>6. m \in G
  <2>1. m \in 0..m
    BY <1>2
  <2> HIDE DEF G
  <2> QED  BY <1>2, <1>4, <1>5, <2>1, StepByStep
<1>7. Good(m)
  BY <1>6
<1>8. U(m) = UNION {Named(s, k) : s \in L} /\ V(m) = UNION {Nameless(s, k) : s \in L}
  <2> HIDE DEF To
  <2> QED  BY <1>3
<1> HIDE DEF U, V
<1>9. /\ u[m] \in Calls /\ Len(u[m]) <= m * MaxCalls
      /\ Len(u[m]) = Cardinality(U(m)) + Cardinality(V(m))
      /\ IsFiniteSet(U(m)) /\ IsFiniteSet(V(m))
  BY <1>7
<1> DEFINE UL == UNION {Named(s, k) : s \in L}
           VL == UNION {Nameless(s, k) : s \in L}
<1>10. /\ u[m] \in Calls /\ Len(u[m]) <= m * MaxCalls
       /\ Len(u[m]) = Cardinality(UL) + Cardinality(VL)
       /\ IsFiniteSet(UL) /\ IsFiniteSet(VL)
  <2> HIDE DEF UL, VL
  <2> QED  BY <1>8, <1>9 DEF UL, VL
<1> HIDE DEF UL, VL
<1> DEFINE w == Merged(k, threshold)
<1>11. /\ w \in Calls /\ Len(w) <= Len(Order) * MaxCalls
       /\ Len(w) = Cardinality(UL) + Cardinality(VL)
  BY <1>1, <1>10 DEF m
<1> HIDE DEF w
<1> QED  BY <1>10, <1>11, Zenon DEF UL, VL, L, w

\* A loop is found exactly when some session made enough calls, and holds each once.
LEMMA MeasuredLoops == LTypeOK => LoopsMeasured
<1> SUFFICES ASSUME LTypeOK, NEW k \in Key
             PROVE  LET records == Merged(k, Threshold)
                        loopers == {s \in Sessions :
                           Cardinality(Named(s, k)) + Cardinality(Nameless(s, k)) >= Threshold}
                    IN /\ records # <<>> <=> loopers # {}
                       /\ Len(records) = Cardinality(UNION {Named(s, k) : s \in loopers})
                                         + Cardinality(UNION {Nameless(s, k) : s \in loopers})
  BY DEF LoopsMeasured
<1> DEFINE w == Merged(k, Threshold)
           L == Loopers(k, Threshold)
           A == UNION {Named(s, k) : s \in L}
           B == UNION {Nameless(s, k) : s \in L}
<1>1. Threshold \in Nat /\ Threshold >= 1
  BY LearningAssumption
<1>2. /\ w \in Calls /\ Len(w) = Cardinality(A) + Cardinality(B)
      /\ IsFiniteSet(A) /\ IsFiniteSet(B)
  BY <1>1, MergedFacts, Zenon
<1>3. \A s \in L : /\ s \in Sessions /\ Named(s, k) \in SUBSET A /\ Nameless(s, k) \in SUBSET B
                   /\ Cardinality(Named(s, k)) + Cardinality(Nameless(s, k)) >= Threshold
  BY DEF Loopers
<1>4. L = {} => A = {} /\ B = {}
  OBVIOUS
<1>5. L = {s \in Sessions : Cardinality(Named(s, k)) + Cardinality(Nameless(s, k)) >= Threshold}
  BY DEF Loopers
<1> HIDE DEF w, L, A, B
<1>6. Cardinality(A) \in Nat /\ Cardinality(B) \in Nat
  BY <1>2, FS_CardinalityType
<1>7. L = {} => Len(w) = 0
  BY <1>2, <1>4, FS_EmptySet
<1>8. L # {} => Len(w) >= 1
  <2> SUFFICES ASSUME NEW s \in L  PROVE Len(w) >= 1
    OBVIOUS
  <2>1. Cardinality(Named(s, k)) <= Cardinality(A) /\ Cardinality(Nameless(s, k)) <= Cardinality(B)
    BY <1>2, <1>3, FS_Subset
  <2>2. Cardinality(Named(s, k)) \in Nat /\ Cardinality(Nameless(s, k)) \in Nat
    BY <1>3, SessionFacts
  <2> QED  BY <1>1, <1>2, <1>3, <1>6, <2>1, <2>2
<1>9. w = <<>> <=> Len(w) = 0
  BY <1>2, EmptySeq DEF Calls
<1>10. w # <<>> <=> L # {}
  BY <1>7, <1>8, <1>9
<1> QED  BY <1>2, <1>5, <1>10, Zenon DEF w, A, B

-----------------------------------------------------------------------------
(* Learning: the types                                                       *)

LEMMA HighestFacts ==
    ASSUME NEW m \in Nat, NEW S \in SUBSET (0..m), S # {}
    PROVE  Highest(S) \in S /\ \A j \in S : j <= Highest(S)
<1> DEFINE J == {m - j : j \in S}
<1>1. J \in SUBSET Nat /\ J # {}
  <2>1. \A j \in S : j \in 0..m /\ m - j \in Nat
    OBVIOUS
  <2>2. J # {}
    OBVIOUS
  <2>3. J \in SUBSET Nat
    BY <2>1
  <2> QED  BY <2>2, <2>3
<1>2. PICK l \in J : \A j \in J : ~(j < l)
  <2> HIDE DEF J
  <2> QED  BY <1>1, FirstPosition
<1>3. \E h \in S : \A j \in S : j <= h
  <2>1. PICK h \in S : l = m - h
    BY <1>2
  <2>2. \A j \in S : ~(m - j < m - h)
    BY <1>2, <2>1
  <2>3. \A j \in S : j <= h
    BY <2>2
  <2> QED  BY <2>3
<1> QED  BY <1>3 DEF Highest

LEMMA HighestWaste ==
    ASSUME NEW w \in Waste, NEW W \in SUBSET Waste
    PROVE  /\ Highest({w} \cup W) \in Waste
           /\ w <= Highest({w} \cup W) /\ \A j \in W : j <= Highest({w} \cup W)
<1> DEFINE m == Len(Order) * MaxCalls
           S == {w} \cup W
<1>1. m \in Nat
  BY OrderFacts, LearningAssumption
<1>2. S \in SUBSET (0..m) /\ S # {}
  BY DEF Waste
<1> HIDE DEF m
<1>3. Highest(S) \in S /\ \A j \in S : j <= Highest(S)
  <2> HIDE DEF S
  <2> QED  BY <1>1, <1>2, HighestFacts
<1> QED  BY <1>3

LEMMA LastIdFacts ==
    ASSUME LTypeOK
    PROVE  LastId \in Nat
<1> DEFINE S == {Anonymous} \cup UNION {Ids(log[s]) : s \in Sessions}
<1>1. \A s \in Sessions : log[s] \in Calls
  BY DEF LTypeOK, Calls
<1>2. \A s \in Sessions : Ids(log[s]) \subseteq 1..MaxCalls
  BY <1>1, CallsFacts
<1>3. MaxCalls \in Nat
  BY LearningAssumption
<1>4. S \in SUBSET (0..MaxCalls) /\ S # {}
  BY <1>2, <1>3 DEF Anonymous
<1>5. Highest(S) \in S
  <2> HIDE DEF S
  <2> QED  BY <1>3, <1>4, HighestFacts
<1>6. LastId = Highest(S)
  BY DEF LastId
<1> QED  BY <1>4, <1>5, <1>6

LEMMA TotalFacts ==
    ASSUME LTypeOK, NEW s \in Sessions, Total < MaxCalls
    PROVE  Len(log[s]) < MaxCalls
<1> DEFINE D(t) == DOMAIN log[t]
           T == UNION {{t} \X D(t) : t \in Sessions}
<1>1. MaxCalls \in Nat /\ \A t \in Sessions : Len(log[t]) \in Nat /\ Len(log[t]) <= MaxCalls
                                              /\ D(t) = 1..Len(log[t])
  <2>1. \A t \in Sessions : log[t] \in Calls /\ Len(log[t]) <= MaxCalls
    BY DEF LTypeOK, Calls
  <2> QED  BY <2>1, CallsFacts, LearningAssumption
<1>2. IsFiniteSet(Sessions)
  <2>1. Len(Order) \in Nat /\ DOMAIN Order = 1..Len(Order)
        /\ (\A i \in 1..Len(Order) : Order[i] \in Sessions)
        /\ \A t \in Sessions : \E i \in 1..Len(Order) : Order[i] = t
    BY OrderFacts
  <2>2. Order \in Surjection(1..Len(Order), Sessions)
    <3> DEFINE I == 1..Len(Order)
    <3>1. Order \in [I -> Sessions]
      BY LenProperties, LearningAssumption
    <3>2. \A t \in Sessions : \E i \in I : Order[i] = t
      BY <2>1
    <3> HIDE DEF I
    <3>3. Order \in Surjection(I, Sessions)
      BY <3>1, <3>2, Zenon DEF Surjection
    <3> QED  BY <3>3 DEF I
  <2>3. IsFiniteSet(1..Len(Order))
    BY <2>1, FS_Interval
  <2> QED  BY <2>2, <2>3, FS_Surjection
<1>3. \A t \in Sessions : D(t) \subseteq 1..MaxCalls
  BY <1>1
<1>4. IsFiniteSet(Sessions \X (1..MaxCalls))
  <2>1. IsFiniteSet(1..MaxCalls)
    BY <1>1, FS_Interval
  <2> QED  BY <1>2, <2>1, FS_Product
<1>5. Total = Cardinality(T)
  BY DEF Total
<1> HIDE DEF D
<1>6. T \in SUBSET (Sessions \X (1..MaxCalls))
  BY <1>3
<1>7. {s} \X D(s) \in SUBSET T
  OBVIOUS
<1> HIDE DEF T
<1>8. IsFiniteSet(T) /\ Cardinality({s} \X D(s)) <= Cardinality(T)
  BY <1>4, <1>6, <1>7, FS_Subset
<1>9. Cardinality({s} \X D(s)) = Len(log[s])
  <2>1. IsFiniteSet(D(s)) /\ Cardinality(D(s)) = Len(log[s])
    <3>1. D(s) = 1..Len(log[s]) /\ Len(log[s]) \in Nat
      BY <1>1
    <3>2. IsFiniteSet(1..Len(log[s])) /\ Cardinality(1..Len(log[s])) = Len(log[s])
      <4> DEFINE t == Len(log[s])
      <4>1. t \in Nat
        BY <3>1
      <4> HIDE DEF t
      <4>2. IsFiniteSet(1..t) /\ Cardinality(1..t) = t
        BY <4>1, FS_Interval
      <4> QED  BY <4>2 DEF t
    <3> QED  BY <3>1, <3>2
  <2>2. IsFiniteSet({s}) /\ Cardinality({s}) = 1
    BY FS_Singleton
  <2>3. Cardinality({s} \X D(s)) = 1 * Cardinality(D(s))
    BY <2>1, <2>2, FS_Product
  <2> QED  BY <1>1, <2>1, <2>3
<1>10. Cardinality(T) \in Nat
  BY <1>8, FS_CardinalityType
<1> QED  BY <1>1, <1>5, <1>8, <1>9, <1>10

LEMMA DetectedLoops ==
    ASSUME LTypeOK, NEW threshold \in Nat
    PROVE  DetectLoops(threshold) \in Loops /\ DOMAIN DetectLoops(threshold) \in SUBSET Key
<1> DEFINE w(k) == Merged(k, threshold)
           found == {k \in Key : IsLoop(k, w(k))}
<1>1. \A k \in Key : w(k) \in Calls /\ Len(w(k)) <= Len(Order) * MaxCalls
  BY MergedFacts, Zenon
<1>2. DetectLoops(threshold) = [k \in found |-> Wasted(k, w(k))]
  BY DEF DetectLoops
<1> HIDE DEF w
<1>3. ASSUME NEW k \in found  PROVE Wasted(k, w(k)) \in Waste
  <2>1. w(k) \in Calls /\ Len(w(k)) <= Len(Order) * MaxCalls /\ w(k) # <<>>
    BY <1>1 DEF IsLoop
  <2>2. Len(w(k)) \in Nat /\ Len(w(k)) # 0 /\ Len(Order) * MaxCalls \in Nat
    BY <2>1, EmptySeq, CallsFacts, OrderFacts, LearningAssumption DEF Calls
  <2>3. Len(w(k)) \in Waste /\ Len(w(k)) - 1 \in Waste
    BY <2>1, <2>2 DEF Waste
  <2> QED  BY <2>3 DEF Wasted
<1>4. found \in SUBSET Key
  OBVIOUS
<1> HIDE DEF found
<1>5. DetectLoops(threshold) \in [found -> Waste]
  BY <1>2, <1>3
<1> QED  BY <1>2, <1>4, <1>5 DEF Loops

LEMMA FileFacts ==
    /\ Empty \in File /\ Empty.text = {} /\ Empty.foreign = {} /\ Empty.marked = FALSE
    /\ Empty.block = {}
    /\ \A f \in File : /\ f.text \in SUBSET Paragraphs /\ f.foreign \in SUBSET Paragraphs
                       /\ f.block \in SUBSET Rule
BY DEF File, Empty

\* A rule as re.sub spells it.
Retold(r) == [r EXCEPT !.key = Spelled(@)]

LEMMA RetoldFacts ==
    ASSUME NEW r \in Rule
    PROVE  /\ Retold(r) \in Rule /\ Retold(r).key = Spelled(r.key) /\ Retold(r).waste = r.waste
           /\ r.key \notin DOMAIN Respelled => Spelled(r.key) = r.key /\ Retold(r) = r
<1>1. r.key \in Key /\ r.waste \in Waste /\ r = [key |-> r.key, waste |-> r.waste]
  BY DEF Rule
<1>2. Spelled(r.key) \in Key
  BY <1>1, LearningAssumption DEF Spelled
<1>3. Retold(r) = [key |-> Spelled(r.key), waste |-> r.waste]
  BY <1>1 DEF Retold
<1>4. Retold(r) \in Rule /\ Retold(r).key = Spelled(r.key) /\ Retold(r).waste = r.waste
  <2> DEFINE k == Spelled(r.key)
             t == Retold(r)
  <2>1. k \in Key /\ t = [key |-> k, waste |-> r.waste]
    BY <1>2, <1>3
  <2> HIDE DEF k, t
  <2>2. t \in Rule /\ t.key = k /\ t.waste = r.waste
    BY <1>1, <2>1 DEF Rule
  <2> QED  BY <2>2 DEF k, t
<1>5. ASSUME r.key \notin DOMAIN Respelled
      PROVE  Spelled(r.key) = r.key /\ Retold(r) = r
  <2>1. Spelled(r.key) = r.key
    BY <1>5 DEF Spelled
  <2> QED  BY <1>1, <1>3, <2>1
<1> QED  BY <1>4, <1>5

\* A block is put into a file: re.sub respells what takes the place of an earlier one.
NewBlock(f, R) == IF f.marked THEN {Retold(r) : r \in R} ELSE R

LEMMA PlacedFacts ==
    ASSUME NEW f \in File, NEW R \in SUBSET Rule
    PROVE  /\ Placed(f, R) \in File /\ Placed(f, R).text = f.text
           /\ Placed(f, R).block = NewBlock(f, R)
<1> DEFINE B == NewBlock(f, R)
           g == [f EXCEPT !.marked = TRUE, !.block = B]
<1>1. B \in SUBSET Rule
  BY RetoldFacts DEF NewBlock
<1>2. Placed(f, R) = g
  BY DEF Placed, NewBlock, Retold
<1> HIDE DEF B
<1>3. g \in File /\ g.text = f.text /\ g.block = B
  BY <1>1 DEF File
<1> HIDE DEF g
<1> QED  BY <1>2, <1>3 DEF B

\* The user's text changes.
Rewritten(f, t, u) == [f EXCEPT !.text = t, !.foreign = u]

LEMMA RewrittenFacts ==
    ASSUME NEW f \in File, NEW t \in SUBSET Paragraphs, NEW u \in SUBSET Paragraphs
    PROVE  /\ Rewritten(f, t, u) \in File
           /\ Rewritten(f, t, u).text = t /\ Rewritten(f, t, u).foreign = u
           /\ Rewritten(f, t, u).block = f.block
BY DEF File, Rewritten

\* No two rules are about the same.
Distinct(R) == \A q, r \in R : q.key = r.key => q = r

LEMMA RuleFacts ==
    ASSUME NEW r \in Rule
    PROVE  r.key \in Key /\ r.waste \in Waste /\ r = [key |-> r.key, waste |-> r.waste]
BY DEF Rule

\* What a new measure makes of a rule.
Measured(r, prior) ==
    [key |-> r.key,
     waste |-> Highest({r.waste} \cup {q.waste : q \in {p \in prior : p.key = r.key}})]

LEMMA MeasuredFacts ==
    ASSUME NEW r \in Rule, NEW prior \in SUBSET Rule
    PROVE  /\ Measured(r, prior) \in Rule /\ Measured(r, prior).key = r.key
           /\ r.waste <= Measured(r, prior).waste
           /\ \A q \in prior : q.key = r.key => q.waste <= Measured(r, prior).waste
<1> DEFINE W == {q.waste : q \in {p \in prior : p.key = r.key}}
           h == Highest({r.waste} \cup W)
<1>1. r.key \in Key /\ r.waste \in Waste /\ W \in SUBSET Waste
  BY RuleFacts
<1>2. \A q \in prior : q.key = r.key => q.waste \in W
  OBVIOUS
<1>3. Measured(r, prior) = [key |-> r.key, waste |-> h]
  BY DEF Measured
<1> HIDE DEF W
<1>4. h \in Waste /\ r.waste <= h /\ \A j \in W : j <= h
  BY <1>1, HighestWaste
<1> HIDE DEF h
<1>5. [key |-> r.key, waste |-> h] \in Rule
  BY <1>1, <1>4 DEF Rule
<1> QED  BY <1>2, <1>3, <1>4, <1>5

LEMMA MergeFacts ==
    ASSUME NEW new \in SUBSET Rule, NEW prior \in SUBSET Rule
    PROVE  /\ Merge(new, prior)
                 = {Measured(r, prior) : r \in new} \cup {r \in prior : r.key \notin Keys(new)}
           /\ Merge(new, prior) \in SUBSET Rule
           /\ Distinct(new) /\ Distinct(prior) => Distinct(Merge(new, prior))
<1>1. Merge(new, prior)
         = {Measured(r, prior) : r \in new} \cup {r \in prior : r.key \notin Keys(new)}
  BY DEF Merge, Measured
<1>2. \A r \in new : Measured(r, prior) \in Rule /\ Measured(r, prior).key = r.key
  BY MeasuredFacts
<1>3. Merge(new, prior) \in SUBSET Rule
  BY <1>1, <1>2
<1>4. ASSUME Distinct(new), Distinct(prior),
             NEW q \in Merge(new, prior), NEW r \in Merge(new, prior),
             q.key = r.key
      PROVE  q = r
  <2>1. CASE q.key \in Keys(new)
    <3>1. PICK a \in new : q = Measured(a, prior)
      BY <1>1, <1>4, <2>1
    <3>2. PICK b \in new : r = Measured(b, prior)
      BY <1>1, <1>4, <2>1
    <3>3. a = b
      BY <1>2, <1>4, <3>1, <3>2 DEF Distinct
    <3> QED  BY <3>1, <3>2, <3>3
  <2>2. CASE q.key \notin Keys(new)
    <3>1. q \in prior /\ r \in prior
      BY <1>1, <1>2, <1>4, <2>2 DEF Keys
    <3> QED  BY <1>4, <3>1 DEF Distinct
  <2> QED  BY <2>1, <2>2
<1> QED  BY <1>1, <1>3, <1>4 DEF Distinct

\* Of the rules that are alike one counts.
LEMMA PriorFacts ==
    ASSUME NEW block \in SUBSET Rule, NEW P \in Prior(block)
    PROVE  /\ P \in SUBSET block /\ Distinct(P) /\ Keys(P) = Keys(block)
           /\ \A q \in block : (\A r \in block : r.key = q.key => r = q) => q \in P
<1>1. P \in SUBSET block /\ Distinct(P) /\ Keys(P) = Keys(block)
  BY DEF Prior, Distinct
<1>2. ASSUME NEW q \in block, \A r \in block : r.key = q.key => r = q
      PROVE  q \in P
  <2>1. PICK r \in P : r.key = q.key
    BY <1>1 DEF Keys
  <2> QED  BY <1>1, <1>2, <2>1
<1> QED  BY <1>1, <1>2

\* What has no room goes; the types and the keys of the others stay.
LEMMA PrunedFacts ==
    ASSUME NEW all, NEW new, NEW R \in Pruned(all, new)
    PROVE  /\ R \in SUBSET all
           /\ Distinct(all) => Distinct(R)
BY DEF Pruned, Distinct

\* Nobody has found two rules about the same.
DistinctRules == \A a \in agents : Distinct(rules[a])

LEMMA LearningStarts == LInit => LTypeOK /\ DistinctRules
<1> SUFFICES ASSUME LInit  PROVE LTypeOK /\ DistinctRules
  OBVIOUS
<1>1. NoLoops \in Loops
  <2>1. {} \in SUBSET Key /\ NoLoops \in [{} -> Waste]
    BY DEF NoLoops
  <2> QED  BY <2>1 DEF Loops
<1>2. /\ log \in [Sessions -> Seq(Call)]
      /\ \A s \in Sessions : Len(log[s]) <= MaxCalls
  <2>1. log = [s \in Sessions |-> <<>>]
    BY DEF LInit
  <2>2. <<>> \in Seq(Call) /\ Len(<<>>) <= MaxCalls
    BY EmptySeq, LearningAssumption
  <2> QED  BY <2>1, <2>2
<1>3. /\ Empty \in File /\ Empty.block = {}
  BY FileFacts
<1>4. /\ phase \in [agents -> {"idle", "asking", "reading", "replacing"}]
      /\ loops \in [agents -> Loops] /\ plain \in [agents -> SUBSET Key]
      /\ rules \in [agents -> SUBSET Rule]
      /\ runs \in 0..MaxRuns
  BY <1>1, LearningAssumption DEF LInit
<1>5. file \in File /\ seen \in [agents -> File]
  BY <1>3, Zenon DEF LInit
<1>6. DistinctRules
  BY <1>3 DEF LInit, DistinctRules, Distinct
<1> QED  BY <1>2, <1>4, <1>5, <1>6 DEF LTypeOK

\* What a learner or dashboard is in the middle of.
Running ==
    /\ phase \in [agents -> {"idle", "asking", "reading", "replacing"}]
    /\ loops \in [agents -> Loops] /\ plain \in [agents -> SUBSET Key]
    /\ rules \in [agents -> SUBSET Rule]
    /\ seen \in [agents -> File]
    /\ runs \in 0..MaxRuns

Logged ==
    /\ log \in [Sessions -> Seq(Call)]
    /\ \A s \in Sessions : Len(log[s]) <= MaxCalls

LEMMA LoggedStep ==
    ASSUME LTypeOK, NEW s \in Sessions, NEW calls \in Seq(Call), Len(calls) <= MaxCalls,
           log' = [log EXCEPT ![s] = calls]
    PROVE  Logged'
BY DEF LTypeOK, Logged

\* The transcripts change; nothing else does.
LEMMA TranscriptStep ==
    ASSUME LTypeOK, DistinctRules, NEW s \in Sessions,
           \/ \E id \in {Anonymous, LastId + 1}, c \in Tried, k \in Kinds :
                 Act(s, id, c, k[1], k[2])
           \/ \E old \in Sessions : Resume(s, old)
           \/ Age(s)
    PROVE  LTypeOK' /\ DistinctRules'
<1>1. Logged'
  <2>1. ASSUME NEW id \in {Anonymous, LastId + 1}, NEW c \in Tried, NEW k \in Kinds,
               Act(s, id, c, k[1], k[2])
        PROVE  Logged'
    <3> DEFINE call == [id |-> id, cmd |-> c, failed |-> k[1], varied |-> k[2]]
    <3>1. MaxCalls \in Nat /\ id \in 0..MaxCalls
      <4>1. LastId \in Nat /\ MaxCalls \in Nat /\ id <= MaxCalls
        BY <2>1, LastIdFacts, LearningAssumption DEF Act
      <4> QED  BY <4>1 DEF Anonymous
    <3>2. k \in BOOLEAN \X BOOLEAN
      BY LearningAssumption
    <3>7. c \in Commands
      BY LearningAssumption
    <3>3. call \in Call
      BY <3>1, <3>2, <3>7 DEF Call
    <3>4. log[s] \in Seq(Call) /\ Len(log[s]) \in Nat /\ Len(log[s]) < MaxCalls
      <4>1. Total < MaxCalls
        BY <2>1 DEF Act
      <4> QED  BY <4>1, TotalFacts, LenProperties DEF LTypeOK
    <3>5. log' = [log EXCEPT ![s] = Append(log[s], call)]
      BY <2>1, Zenon DEF Act
    <3> HIDE DEF call
    <3>6. Append(log[s], call) \in Seq(Call) /\ Len(Append(log[s], call)) <= MaxCalls
      BY <3>1, <3>3, <3>4, AppendProperties
    <3> QED  BY <3>5, <3>6, LoggedStep
  <2>2. ASSUME NEW old \in Sessions, Resume(s, old)
        PROVE  Logged'
    BY <2>2, LoggedStep DEF Resume, LTypeOK
  <2>3. ASSUME Age(s)
        PROVE  Logged'
    <3>1. <<>> \in Seq(Call) /\ Len(<<>>) <= MaxCalls
      BY EmptySeq, LearningAssumption
    <3> QED  BY <2>3, <3>1, LoggedStep DEF Age
  <2> QED  BY <2>1, <2>2, <2>3
<1>2. UNCHANGED <<file, phase, loops, plain, rules, seen, runs>>
  BY DEF Act, Resume, Age
<1>3. LTypeOK'
  BY <1>1, <1>2 DEF Logged, LTypeOK
<1>4. DistinctRules'
  BY <1>2 DEF DistinctRules
<1> QED  BY <1>3, <1>4

LEMMA EditStep ==
    ASSUME LTypeOK, DistinctRules, NEW x \in Paragraphs, NEW b \in BOOLEAN, Edit(x, b)
    PROVE  LTypeOK' /\ DistinctRules'
<1> DEFINE t == file.text \cup {x}
           u == IF b THEN file.foreign \cup {x} ELSE file.foreign
<1>1. file \in File /\ file.text \in SUBSET Paragraphs /\ file.foreign \in SUBSET Paragraphs
  BY FileFacts DEF LTypeOK
<1>2. file' = [file EXCEPT !.text = t, !.foreign = u]
  BY DEF Edit
<1>3. UNCHANGED <<log, phase, loops, plain, rules, seen, runs>>
  BY DEF Edit
<1>4. t \in SUBSET Paragraphs /\ u \in SUBSET Paragraphs
  BY <1>1
<1> HIDE DEF t, u
<1>5. file' \in File /\ file'.block = file.block
  <2>1. file' = Rewritten(file, t, u)
    BY <1>2 DEF Rewritten
  <2> QED  BY <1>1, <1>4, <2>1, RewrittenFacts
<1>6. LTypeOK'
  BY <1>3, <1>5 DEF LTypeOK
<1>7. DistinctRules'
  BY <1>3, <1>5 DEF DistinctRules
<1> QED  BY <1>6, <1>7

LEMMA RunningStep ==
    ASSUME LTypeOK, NEW a \in agents,
           NEW p \in {"idle", "asking", "reading", "replacing"}, NEW l \in Loops,
           NEW K \in SUBSET Key, NEW R \in SUBSET Rule, Distinct(R), DistinctRules,
           runs' \in 0..MaxRuns,
           phase' = [phase EXCEPT ![a] = p],
           loops' = loops \/ loops' = [loops EXCEPT ![a] = l],
           plain' = plain \/ plain' = [plain EXCEPT ![a] = K],
           rules' = rules \/ rules' = [rules EXCEPT ![a] = R],
           UNCHANGED <<log, file, seen>>
    PROVE  LTypeOK' /\ DistinctRules'
<1>1. phase' \in [agents -> {"idle", "asking", "reading", "replacing"}]
  BY DEF LTypeOK
<1>2. loops' \in [agents -> Loops]
  BY DEF LTypeOK
<1>3. plain' \in [agents -> SUBSET Key]
  BY DEF LTypeOK
<1>4. rules' \in [agents -> SUBSET Rule] /\ \A x \in agents : Distinct(rules'[x])
  <2> HIDE DEF Distinct
  <2> QED  BY DEF LTypeOK, DistinctRules
<1>5. LTypeOK'
  BY <1>1, <1>2, <1>3, <1>4 DEF LTypeOK
<1>6. DistinctRules'
  BY <1>4 DEF DistinctRules
<1> QED  BY <1>5, <1>6

LEMMA AnalysisStep ==
    ASSUME LTypeOK, DistinctRules, NEW p \in agents,
           \/ Discover(p) \/ FallBack(p) \/ Mine(p)
           \/ \E K \in SUBSET Key : ModelAnswers(p, K)
    PROVE  LTypeOK' /\ DistinctRules'
<1>0. runs \in 0..MaxRuns /\ MaxRuns \in Nat /\ {} \in SUBSET Rule /\ Distinct({})
  BY LearningAssumption DEF LTypeOK, Distinct
<1>1. ASSUME Discover(p)  PROVE LTypeOK' /\ DistinctRules'
  <2> DEFINE l == DetectLoops(Threshold)
             K == DOMAIN DetectLoops(Default)
             next == IF Total = 0 THEN "reading" ELSE "asking"
  <2>1. l \in Loops /\ K \in SUBSET Key
    BY DetectedLoops, LearningAssumption
  <2>2. /\ runs' \in 0..MaxRuns
        /\ loops' = [loops EXCEPT ![p] = l] /\ plain' = [plain EXCEPT ![p] = K]
        /\ phase' = [phase EXCEPT ![p] = next]
        /\ UNCHANGED <<log, file, rules, seen>>
    BY <1>0, <1>1 DEF Discover
  <2>3. next \in {"idle", "asking", "reading", "replacing"}
    OBVIOUS
  <2> HIDE DEF l, K, next
  <2> QED  BY <1>0, <2>1, <2>2, <2>3, RunningStep
<1>2. ASSUME NEW K \in SUBSET Key, Concludes(p, K)  PROVE LTypeOK' /\ DistinctRules'
  <2> DEFINE w(k) == IF k \in DOMAIN loops[p] THEN loops[p][k] ELSE 0
             R == {[key |-> k, waste |-> w(k)] : k \in K}
  <2>1. loops[p] \in Loops /\ 0 \in Waste
    BY OrderFacts, LearningAssumption DEF LTypeOK, Waste
  <2>2. \A k \in K : w(k) \in Waste
    BY <2>1 DEF Loops
  <2>3. Enriched(p, K) = R
    BY DEF Enriched
  <2> HIDE DEF w
  <2>4. R \in SUBSET Rule /\ Distinct(R)
    BY <2>2 DEF Rule, Distinct
  <2> HIDE DEF R
  <2>5. NoLoops \in Loops
    <3>1. {} \in SUBSET Key /\ NoLoops \in [{} -> Waste]
      BY DEF NoLoops
    <3> QED  BY <3>1 DEF Loops
  <2>6. /\ phase' = [phase EXCEPT ![p] = "reading"] /\ rules' = [rules EXCEPT ![p] = R]
        /\ UNCHANGED <<log, file, loops, plain, seen, runs>>
    BY <1>2, <2>3 DEF Concludes
  <2> QED  BY <1>0, <2>4, <2>5, <2>6, RunningStep
<1>3. ASSUME Mine(p)  PROVE LTypeOK' /\ DistinctRules'
  <2> DEFINE R == {[key |-> k, waste |-> 0] : k \in RawLoops(Threshold)}
  <2>1. RawLoops(Threshold) \in SUBSET Key /\ 0 \in Waste
    BY OrderFacts, LearningAssumption DEF RawLoops, Waste
  <2>2. R \in SUBSET Rule /\ Distinct(R)
    BY <2>1 DEF Rule, Distinct
  <2>3. /\ runs' \in 0..MaxRuns
        /\ phase' = [phase EXCEPT ![p] = "reading"] /\ rules' = [rules EXCEPT ![p] = R]
        /\ UNCHANGED <<log, file, loops, plain, seen>>
    BY <1>0, <1>3 DEF Mine
  <2> HIDE DEF R
  <2>4. NoLoops \in Loops
    <3>1. {} \in SUBSET Key /\ NoLoops \in [{} -> Waste]
      BY DEF NoLoops
    <3> QED  BY <3>1 DEF Loops
  <2> QED  BY <2>2, <2>3, <2>4, RunningStep
<1>4. ASSUME FallBack(p)  PROVE LTypeOK' /\ DistinctRules'
  <2>1. plain[p] \in SUBSET Key
    BY DEF LTypeOK
  <2> QED  BY <1>2, <1>4, <2>1 DEF FallBack
<1> QED  BY <1>1, <1>2, <1>3, <1>4 DEF ModelAnswers

LEMMA ReadStep ==
    ASSUME LTypeOK, DistinctRules, NEW a \in agents, ReadFile(a)
    PROVE  LTypeOK' /\ DistinctRules'
<1>1. /\ phase' = [phase EXCEPT ![a] = "replacing"] /\ seen' = [seen EXCEPT ![a] = file]
      /\ UNCHANGED <<log, file, loops, plain, rules, runs>>
  BY DEF ReadFile
<1>2. LTypeOK'
  BY <1>1 DEF LTypeOK
<1>3. DistinctRules'
  BY <1>1 DEF DistinctRules
<1> QED  BY <1>2, <1>3

LEMMA ReplacesStep ==
    ASSUME LTypeOK, DistinctRules, NEW a \in agents, NEW content \in File,
           Replaces(a, content)
    PROVE  LTypeOK' /\ DistinctRules'
<1>1. /\ phase' = [phase EXCEPT ![a] = "idle"] /\ file' = content
      /\ rules' = [rules EXCEPT ![a] = {}]
      /\ loops' = [loops EXCEPT ![a] = NoLoops] /\ plain' = [plain EXCEPT ![a] = {}]
      /\ seen' = [seen EXCEPT ![a] = Empty]
      /\ UNCHANGED <<log, runs>>
  BY DEF Replaces
<1>2. NoLoops \in Loops
  <2>1. {} \in SUBSET Key /\ NoLoops \in [{} -> Waste]
    BY DEF NoLoops
  <2> QED  BY <2>1 DEF Loops
<1>3. Empty \in File /\ Empty.block = {}
  BY FileFacts
<1>4. phase' \in [agents -> {"idle", "asking", "reading", "replacing"}]
  BY <1>1 DEF LTypeOK
<1>5. loops' \in [agents -> Loops] /\ plain' \in [agents -> SUBSET Key]
  BY <1>1, <1>2 DEF LTypeOK
<1>6. rules' \in [agents -> SUBSET Rule] /\ \A x \in agents : Distinct(rules'[x])
  <2>1. \A x \in agents : rules'[x] = IF x = a THEN {} ELSE rules[x]
    BY <1>1 DEF LTypeOK
  <2>2. rules' \in [agents -> SUBSET Rule]
    BY <1>1 DEF LTypeOK
  <2> QED  BY <2>1, <2>2 DEF DistinctRules, Distinct
<1>7. seen' \in [agents -> File]
  BY <1>1, <1>3 DEF LTypeOK
<1>8. LTypeOK'
  BY <1>1, <1>4, <1>5, <1>6, <1>7 DEF LTypeOK
<1>9. DistinctRules'
  BY <1>6 DEF DistinctRules
<1> QED  BY <1>8, <1>9

\* What a learner takes for the file: nothing, when it cannot be decoded.
OldFile(p) == IF seen[p].foreign = {} THEN seen[p] ELSE Empty

LEMMA WriteRulesStep ==
    ASSUME LTypeOK, DistinctRules, NEW p \in agents, WriteRules(p)
    PROVE  LTypeOK' /\ DistinctRules'
<1> DEFINE old == OldFile(p)
<1>1. old \in File
  <2>1. seen[p] \in File /\ Empty \in File
    BY FileFacts DEF LTypeOK
  <2> QED  BY <2>1 DEF OldFile
<1>0. PICK prior \in Prior(old.block) : \E R \in Pruned(Merge(rules[p], prior), rules[p]) :
         Replaces(p, IF CanPlace(old, R) THEN Placed(old, R) ELSE file)
  BY DEF WriteRules, OldFile
<1>2. PICK R \in Pruned(Merge(rules[p], prior), rules[p]) :
         Replaces(p, IF CanPlace(old, R) THEN Placed(old, R) ELSE file)
  BY <1>0
<1> HIDE DEF old
<1>3. rules[p] \in SUBSET Rule /\ prior \in SUBSET Rule
  <2>1. old.block \in SUBSET Rule
    BY <1>1, FileFacts
  <2> QED  BY <2>1, PriorFacts DEF LTypeOK
<1>4. R \in SUBSET Rule
  <2>1. Merge(rules[p], prior) \in SUBSET Rule
    BY <1>3, MergeFacts
  <2> QED  BY <2>1, PrunedFacts
<1> DEFINE content == IF CanPlace(old, R) THEN Placed(old, R) ELSE file
<1>5. content \in File
  BY <1>1, <1>4, PlacedFacts DEF LTypeOK
<1>6. Replaces(p, content)
  BY <1>2
<1> HIDE DEF content
<1> QED  BY <1>5, <1>6, ReplacesStep

LEMMA WriteBlockStep ==
    ASSUME LTypeOK, DistinctRules, NEW d \in agents, WriteBlock(d)
    PROVE  LTypeOK' /\ DistinctRules'
<1> DEFINE f == seen[d]
           t == f.text \ f.foreign
           old == Rewritten(f, t, {})
           content == IF CanPlace(old, rules[d]) THEN Placed(old, rules[d]) ELSE file
<1>1. Replaces(d, content)
  BY DEF WriteBlock, Rewritten
<1>2. f \in File /\ rules[d] \in SUBSET Rule
  BY DEF LTypeOK
<1> HIDE DEF f
<1>3. t \in SUBSET Paragraphs /\ {} \in SUBSET Paragraphs
  BY <1>2, FileFacts
<1> HIDE DEF t
<1>4. old \in File
  BY <1>2, <1>3, RewrittenFacts
<1> HIDE DEF old
<1>5. content \in File
  BY <1>2, <1>4, PlacedFacts DEF LTypeOK
<1> HIDE DEF content
<1> QED  BY <1>1, <1>5, ReplacesStep

LEMMA LearningStep == LTypeOK /\ DistinctRules /\ [LNext]_Lvars => LTypeOK' /\ DistinctRules'
<1> SUFFICES ASSUME LTypeOK, DistinctRules, [LNext]_Lvars
             PROVE  LTypeOK' /\ DistinctRules'
  OBVIOUS
<1>1. CASE UNCHANGED Lvars
  BY <1>1 DEF Lvars, LTypeOK, DistinctRules
<1>2. ASSUME NEW s \in Sessions,
             \/ \E id \in {Anonymous, LastId + 1}, c \in Tried, k \in Kinds :
                   Act(s, id, c, k[1], k[2])
             \/ \E old \in Sessions : Resume(s, old)
             \/ Age(s)
      PROVE  LTypeOK' /\ DistinctRules'
  BY <1>2, TranscriptStep
<1>3. ASSUME NEW x \in Paragraphs, NEW u \in BOOLEAN, Edit(x, u)
      PROVE  LTypeOK' /\ DistinctRules'
  BY <1>3, EditStep
<1>4. ASSUME NEW p \in Learners, Discover(p) \/ Learn(p)
      PROVE  LTypeOK' /\ DistinctRules'
  <2>1. p \in agents
    BY DEF agents
  <2> QED  BY <1>4, <2>1, AnalysisStep, ReadStep, WriteRulesStep DEF Learn
<1>5. ASSUME NEW d \in Dashboards, Mine(d) \/ ReadFile(d) \/ WriteBlock(d)
      PROVE  LTypeOK' /\ DistinctRules'
  <2>1. d \in agents
    BY DEF agents
  <2> QED  BY <1>5, <2>1, AnalysisStep, ReadStep, WriteBlockStep
<1> QED  BY <1>1, <1>2, <1>3, <1>4, <1>5 DEF LNext

LEMMA LearningKeeps == LSpec => [](LTypeOK /\ DistinctRules)
<1> QED  BY LearningStarts, LearningStep, PTL DEF LSpec

\* The variables have their types: a rule never claims more waste than the
\* transcripts hold calls, whatever was resumed and merged.
THEOREM LearningTypes == LSpec => []LTypeOK
<1> QED  BY LearningKeeps, PTL

\* LoopDetector.detect_loops_from_events: a loop is found exactly when some session
\* made that many different calls; every call is counted once, however transcripts
\* were resumed, unless it has no identity.
THEOREM LoopsCounted == LSpec => []LoopsMeasured
<1> QED  BY LearningTypes, MeasuredLoops, PTL

-----------------------------------------------------------------------------
(* Learning: what a learner's write keeps                                    *)

LEMMA RulesFinite == IsFiniteSet(Key) /\ IsFiniteSet(Rule)
<1>1. IsFiniteSet(Key)
  <2> DEFINE S == {"failure", "refetch"} \X Commands
             f == [x \in S |-> [family |-> x[1], cmd |-> x[2]]]
  <2>1. IsFiniteSet(S)
    <3>1. IsFiniteSet({"failure", "refetch"})
      <4>1. {"failure", "refetch"} = {"failure"} \cup {"refetch"}
        OBVIOUS
      <4>2. IsFiniteSet({"failure"}) /\ IsFiniteSet({"refetch"})
        BY FS_Singleton
      <4> QED  BY <4>1, <4>2, FS_Union
    <3> QED  BY <3>1, FS_Product, LearningAssumption
  <2>2. f \in [S -> Key]
    BY DEF Key
  <2>3. \A k \in Key : \E x \in S : f[x] = k
    <3> SUFFICES ASSUME NEW k \in Key  PROVE \E x \in S : f[x] = k
      OBVIOUS
    <3>1. <<k.family, k.cmd>> \in S /\ k = [family |-> k.family, cmd |-> k.cmd]
      BY DEF Key
    <3>2. f[<<k.family, k.cmd>>] = [family |-> k.family, cmd |-> k.cmd]
      BY <3>1
    <3> QED  BY <3>1, <3>2
  <2> HIDE DEF f, S
  <2>4. f \in Surjection(S, Key)
    BY <2>2, <2>3, Zenon DEF Surjection
  <2> QED  BY <2>1, <2>4, FS_Surjection
<1>2. IsFiniteSet(Waste)
  <2>1. Len(Order) * MaxCalls \in Nat
    BY OrderFacts, LearningAssumption
  <2> DEFINE t == Len(Order) * MaxCalls
  <2> HIDE DEF t
  <2>2. IsFiniteSet(0..t)
    BY <2>1, FS_Interval DEF t
  <2> QED  BY <2>2 DEF Waste, t
<1>3. IsFiniteSet(Rule)
  <2> DEFINE S == Key \X Waste
             f == [x \in S |-> [key |-> x[1], waste |-> x[2]]]
  <2>1. IsFiniteSet(S)
    BY <1>1, <1>2, FS_Product
  <2>2. f \in [S -> Rule]
    BY DEF Rule
  <2>3. \A r \in Rule : \E x \in S : f[x] = r
    <3> SUFFICES ASSUME NEW r \in Rule  PROVE \E x \in S : f[x] = r
      OBVIOUS
    <3>1. <<r.key, r.waste>> \in S /\ r = [key |-> r.key, waste |-> r.waste]
      BY DEF Rule
    <3>2. f[<<r.key, r.waste>>] = [key |-> r.key, waste |-> r.waste]
      BY <3>1
    <3> QED  BY <3>1, <3>2
  <2> HIDE DEF f, S
  <2>4. f \in Surjection(S, Rule)
    BY <2>2, <2>3, Zenon DEF Surjection
  <2> QED  BY <2>1, <2>4, FS_Surjection
<1> QED  BY <1>1, <1>3

\* There are as many rules as keys.
LEMMA KeysFacts ==
    ASSUME NEW R \in SUBSET Rule, Distinct(R)
    PROVE  /\ IsFiniteSet(R) /\ Cardinality(R) \in Nat
           /\ Keys(R) \in SUBSET Key /\ IsFiniteSet(Keys(R))
           /\ Cardinality(Keys(R)) = Cardinality(R)
<1> DEFINE f == [r \in R |-> r.key]
<1>1. f \in [R -> Keys(R)] /\ \A k \in Keys(R) : \E r \in R : f[r] = k
  BY DEF Keys
<1>2. \A q, r \in R : f[q] = f[r] => q = r
  BY DEF Distinct
<1> HIDE DEF f
<1>3. f \in Surjection(R, Keys(R)) /\ f \in Injection(R, Keys(R))
  BY <1>1, <1>2 DEF Surjection, Injection, IsInjective
<1>4. IsFiniteSet(R) /\ Cardinality(R) \in Nat
  BY RulesFinite, FS_Subset, FS_CardinalityType
<1>5. Keys(R) \in SUBSET Key
  BY RuleFacts DEF Keys
<1> QED  BY <1>3, <1>4, <1>5, FS_Surjection

\* What prune leaves of merged rules.
LEMMA PrunedKeeps ==
    ASSUME NEW new \in SUBSET Rule, NEW prior \in SUBSET Rule, Distinct(new), Distinct(prior),
           NEW R \in Pruned(Merge(new, prior), new)
    PROVE  /\ Keys(R) \subseteq Keys(new) \cup Keys(prior)
           /\ Cardinality(R) = Capped(Cardinality(Keys(new) \cup Keys(prior)))
           /\ \A q \in prior :
                 \/ \E r \in R : r.key = q.key /\ r.waste >= q.waste
                 \/ /\ Cardinality(Keys(new) \cup Keys(prior)) > MaxRules
                    /\ \A r \in R : r.key \in Keys(new) \/ r.waste >= q.waste
           /\ Cardinality(Keys(new) \cap Keys(R)) = Capped(Cardinality(Keys(new)))
<1> DEFINE all == Merge(new, prior)
           fresh == Keys(new)
           found == Cardinality(fresh)
<1>1. /\ all = {Measured(r, prior) : r \in new} \cup {r \in prior : r.key \notin fresh}
      /\ all \in SUBSET Rule /\ Distinct(all)
  BY MergeFacts
<1>2. \A r \in new : /\ Measured(r, prior) \in Rule /\ Measured(r, prior).key = r.key
                     /\ \A q \in prior : q.key = r.key => q.waste <= Measured(r, prior).waste
  BY MeasuredFacts
<1>3. /\ R \in SUBSET all
      /\ Cardinality(R) = IF Cardinality(all) <= MaxRules THEN Cardinality(all) ELSE MaxRules
      /\ \A q \in all \ R : \A r \in R : ~Before(q, r, new)
  BY DEF Pruned
<1>4. \A r \in Rule : r.waste \in Nat
  BY RuleFacts, OrderFacts, LearningAssumption DEF Waste
<1>5. Keys(all) \subseteq fresh \cup Keys(prior)
  BY <1>1, <1>2 DEF Keys
<1>6. \A k \in fresh : \E r \in all : r.key = k
  BY <1>1, <1>2 DEF Keys
<1>7. \A q \in prior : \E r \in all : r.key = q.key /\ r.waste >= q.waste
  <2> SUFFICES ASSUME NEW q \in prior
               PROVE  \E r \in all : r.key = q.key /\ r.waste >= q.waste
    OBVIOUS
  <2>1. CASE q.key \in fresh
    <3>1. PICK r \in new : r.key = q.key
      BY <2>1 DEF Keys
    <3>2. /\ Measured(r, prior) \in all /\ Measured(r, prior).key = q.key
          /\ q.waste <= Measured(r, prior).waste /\ Measured(r, prior) \in Rule /\ q \in Rule
      BY <1>1, <1>2, <3>1
    <3> QED  BY <1>4, <3>2
  <2>2. CASE q.key \notin fresh
    <3>1. q \in all /\ q \in Rule
      BY <1>1, <2>2
    <3> QED  BY <1>4, <3>1
  <2> QED  BY <2>1, <2>2
<1>15. Keys(all) = fresh \cup Keys(prior)
  BY <1>5, <1>6, <1>7 DEF Keys
<1> HIDE DEF all
<1>8. MaxRules \in Nat /\ R \in SUBSET Rule /\ Distinct(R)
  BY <1>1, <1>3, LearningAssumption DEF Distinct
<1>9. /\ IsFiniteSet(R) /\ Cardinality(R) \in Nat
      /\ Keys(R) \in SUBSET Key /\ IsFiniteSet(Keys(R)) /\ Cardinality(Keys(R)) = Cardinality(R)
      /\ IsFiniteSet(all) /\ Cardinality(all) \in Nat
      /\ Cardinality(Keys(all)) = Cardinality(all)
      /\ IsFiniteSet(fresh) /\ found \in Nat
  <2>1. fresh \in SUBSET Key
    BY KeysFacts
  <2>2. IsFiniteSet(fresh)
    BY <2>1, RulesFinite, FS_Subset
  <2> QED  BY <1>1, <1>8, <2>2, KeysFacts, FS_CardinalityType
<1>10. Cardinality(R) <= MaxRules
  BY <1>3, <1>8, <1>9
<1>11. ASSUME NEW q \in all, q \notin R
       PROVE  /\ Cardinality(all) > MaxRules /\ Cardinality(R) = MaxRules
              /\ \A r \in R : /\ q.key \in fresh => r.key \in fresh
                              /\ r.key \in fresh \/ ~(q.waste > r.waste)
  <2>2. Cardinality(R) # Cardinality(all)
    BY <1>3, <1>9, <1>11, FS_Subset
  <2>3. Cardinality(all) > MaxRules /\ Cardinality(R) = MaxRules
    BY <1>3, <1>8, <1>9, <2>2
  <2>4. \A r \in R : /\ q.key \in fresh => r.key \in fresh
                     /\ r.key \in fresh \/ ~(q.waste > r.waste)
    BY <1>3, <1>11 DEF Before
  <2> QED  BY <2>3, <2>4
<1>12. ASSUME NEW q \in prior
       PROVE  \/ \E r \in R : r.key = q.key /\ r.waste >= q.waste
              \/ /\ Cardinality(all) > MaxRules
                 /\ \A r \in R : r.key \in fresh \/ r.waste >= q.waste
  <2>1. PICK t \in all : t.key = q.key /\ t.waste >= q.waste
    BY <1>7
  <2>2. CASE t \in R
    BY <2>1, <2>2
  <2>3. CASE t \notin R
    <3>1. /\ Cardinality(all) > MaxRules
          /\ \A r \in R : r.key \in fresh \/ ~(t.waste > r.waste)
      BY <1>11, <2>1, <2>3
    <3>2. \A r \in R : r.waste \in Nat
      BY <1>4, <1>8
    <3>3. t.waste \in Nat /\ q.waste \in Nat
      BY <1>1, <1>4
    <3>4. \A r \in R : r.key \in fresh \/ r.waste >= q.waste
      BY <2>1, <3>1, <3>2, <3>3
    <3> QED  BY <3>1, <3>4
  <2> QED  BY <2>2, <2>3
<1>13. Cardinality(fresh \cap Keys(R)) = IF found <= MaxRules THEN found ELSE MaxRules
  <2>1. CASE fresh \subseteq Keys(R)
    <3>1. fresh \cap Keys(R) = fresh
      BY <2>1
    <3>2. found <= Cardinality(Keys(R))
      BY <1>9, <2>1, FS_Subset
    <3> QED  BY <1>8, <1>9, <1>10, <3>1, <3>2
  <2>2. CASE ~(fresh \subseteq Keys(R))
    <3>1. PICK k \in fresh : k \notin Keys(R)
      BY <2>2
    <3>2. PICK q \in all : q.key = k
      BY <1>6
    <3>3. q \notin R
      BY <3>1, <3>2 DEF Keys
    <3>4. Cardinality(R) = MaxRules /\ \A r \in R : r.key \in fresh
      BY <1>11, <3>2, <3>3
    <3>5. Keys(R) \in SUBSET fresh /\ Keys(R) # fresh
      BY <3>1, <3>4 DEF Keys
    <3> HIDE DEF fresh
    <3>6. fresh \cap Keys(R) = Keys(R)
      BY <3>5
    <3>7. Cardinality(Keys(R)) <= found /\ Cardinality(Keys(R)) # found
      BY <1>9, <3>5, FS_Subset
    <3>8. ~(found <= MaxRules)
      BY <1>8, <1>9, <3>4, <3>7
    <3> QED  BY <1>9, <3>4, <3>6, <3>8
  <2> QED  BY <2>1, <2>2
<1>14. Keys(R) \subseteq Keys(all)
  BY <1>3 DEF Keys
<1>16. /\ Cardinality(fresh \cup Keys(prior)) = Cardinality(all)
       /\ Cardinality(R) = Capped(Cardinality(all))
       /\ Cardinality(fresh \cap Keys(R)) = Capped(found)
  BY <1>3, <1>9, <1>13, <1>15 DEF Capped
<1> HIDE DEF fresh, found
<1>17. /\ Keys(R) \subseteq fresh \cup Keys(prior)
       /\ Cardinality(R) = Capped(Cardinality(fresh \cup Keys(prior)))
       /\ \A q \in prior :
             \/ \E r \in R : r.key = q.key /\ r.waste >= q.waste
             \/ /\ Cardinality(fresh \cup Keys(prior)) > MaxRules
                /\ \A r \in R : r.key \in fresh \/ r.waste >= q.waste
  BY <1>5, <1>12, <1>14, <1>16
<1> QED  BY <1>16, <1>17, Zenon DEF fresh, found

\* The rules of a block, whether re.sub has respelled them or not.
LEMMA NewBlockFacts ==
    ASSUME NEW f \in File, NEW R \in SUBSET Rule
    PROVE  /\ \A r \in R : r.key \notin DOMAIN Respelled => r \in NewBlock(f, R)
           /\ \A t \in NewBlock(f, R) : \E r \in R : /\ t.key \in {r.key, Spelled(r.key)}
                                                  /\ t.waste = r.waste
           /\ (f.marked => Keys(R) \cap DOMAIN Respelled = {}) => NewBlock(f, R) = R
<1>1. \A r \in R : /\ Retold(r).key = Spelled(r.key) /\ Retold(r).waste = r.waste
                   /\ r.key \notin DOMAIN Respelled => Retold(r) = r
  BY RetoldFacts
<1>2. CASE f.marked
  <2>1. NewBlock(f, R) = {Retold(r) : r \in R}
    BY <1>2 DEF NewBlock
  <2>2. ASSUME Keys(R) \cap DOMAIN Respelled = {}  PROVE NewBlock(f, R) = R
    <3>1. \A r \in R : Retold(r) = r
      BY <1>1, <2>2 DEF Keys
    <3> QED  BY <2>1, <3>1
  <2> QED  BY <1>1, <1>2, <2>1, <2>2
<1>3. CASE ~f.marked
  BY <1>3 DEF NewBlock
<1> QED  BY <1>2, <1>3

\* What a learner's write may be.
KeptOrRefused(p) ==
    \/ Kept(p)
    \/ /\ file' = file /\ seen[p].marked
       /\ (Keys(rules[p]) \cup Keys(seen[p].block)) \cap Slashed # {}

LEMMA WriteKept ==
    ASSUME LTypeOK, DistinctRules, NEW p \in agents, WriteRules(p), seen[p].foreign = {}
    PROVE  KeptOrRefused(p)
<1> DEFINE new == rules[p]
           old == seen[p]
<1>1. new \in SUBSET Rule /\ old \in File /\ old.block \in SUBSET Rule /\ Distinct(new)
  BY FileFacts DEF LTypeOK, DistinctRules
<1>0. PICK prior \in Prior(old.block) : \E R \in Pruned(Merge(new, prior), new) :
         Replaces(p, IF CanPlace(old, R) THEN Placed(old, R) ELSE file)
  BY DEF WriteRules
<1>2. PICK R \in Pruned(Merge(new, prior), new) :
         Replaces(p, IF CanPlace(old, R) THEN Placed(old, R) ELSE file)
  BY <1>0
<1>3. file' = IF CanPlace(old, R) THEN Placed(old, R) ELSE file
  BY <1>2 DEF Replaces
<1> DEFINE fresh == Keys(new)
           known == Keys(old.block)
           B == NewBlock(old, R)
<1>4. /\ prior \in SUBSET Rule /\ Distinct(prior) /\ Keys(prior) = known
      /\ \A q \in old.block : (\A r \in old.block : r.key = q.key => r = q) => q \in prior
  BY <1>1, PriorFacts
<1> HIDE DEF new, old
<1>5. /\ Keys(R) \subseteq fresh \cup known
      /\ Cardinality(R) = Capped(Cardinality(fresh \cup known))
      /\ \A q \in prior :
            \/ \E r \in R : r.key = q.key /\ r.waste >= q.waste
            \/ /\ Cardinality(fresh \cup known) > MaxRules
               /\ \A r \in R : r.key \in fresh \/ r.waste >= q.waste
      /\ Cardinality(fresh \cap Keys(R)) = Capped(Cardinality(fresh))
  <2>1. /\ Keys(R) \subseteq Keys(new) \cup Keys(prior)
        /\ Cardinality(R) = Capped(Cardinality(Keys(new) \cup Keys(prior)))
        /\ \A q \in prior :
              \/ \E r \in R : r.key = q.key /\ r.waste >= q.waste
              \/ /\ Cardinality(Keys(new) \cup Keys(prior)) > MaxRules
                 /\ \A r \in R : r.key \in Keys(new) \/ r.waste >= q.waste
        /\ Cardinality(Keys(new) \cap Keys(R)) = Capped(Cardinality(Keys(new)))
    BY <1>1, <1>4, PrunedKeeps
  <2> HIDE DEF known
  <2> QED  BY <1>4, <2>1
<1>6. R \in SUBSET Rule
  <2>1. Merge(new, prior) \in SUBSET Rule
    BY <1>1, <1>4, MergeFacts
  <2> QED  BY <2>1, PrunedFacts
<1>7. CASE CanPlace(old, R)
  <2>1. file'.text = old.text /\ file'.block = B
    BY <1>1, <1>3, <1>6, <1>7, PlacedFacts
  <2>2. /\ \A r \in R : r.key \notin DOMAIN Respelled => r \in B
        /\ \A t \in B : \E r \in R : t.key \in {r.key, Spelled(r.key)} /\ t.waste = r.waste
        /\ (old.marked => Keys(R) \cap DOMAIN Respelled = {}) => B = R
    BY <1>1, <1>6, NewBlockFacts
  <2> HIDE DEF B, fresh, known
  <2>3. ASSUME NEW q \in Lasting(p)
        PROVE  \/ \E r \in B : r.key = q.key /\ r.waste >= q.waste
               \/ /\ Cardinality(fresh \cup known) > MaxRules
                  /\ \A r \in B : (\E k \in fresh : r.key \in {k, Spelled(k)}) \/ r.waste >= q.waste
    <3>1. q \in prior /\ q.key \notin DOMAIN Respelled
      BY <1>4 DEF Lasting, old
    <3>2. CASE \E r \in R : r.key = q.key /\ r.waste >= q.waste
      BY <2>2, <3>1, <3>2
    <3>3. CASE /\ Cardinality(fresh \cup known) > MaxRules
               /\ \A r \in R : r.key \in fresh \/ r.waste >= q.waste
      <4>1. ASSUME NEW t \in B
            PROVE  (\E k \in fresh : t.key \in {k, Spelled(k)}) \/ t.waste >= q.waste
        <5>1. PICK r \in R : t.key \in {r.key, Spelled(r.key)} /\ t.waste = r.waste
          BY <2>2
        <5> QED  BY <3>3, <5>1
      <4> QED  BY <3>3, <4>1
    <3> QED  BY <1>5, <3>1, <3>2, <3>3
  <2>4. \/ old.marked /\ (fresh \cup known) \cap (Slashed \cup DOMAIN Respelled) # {}
        \/ /\ Cardinality(B) = Capped(Cardinality(fresh \cup known))
           /\ Cardinality(fresh \cap Keys(B)) = Capped(Cardinality(fresh))
    <3> SUFFICES ASSUME ~(old.marked /\ (fresh \cup known) \cap (Slashed \cup DOMAIN Respelled) # {})
                 PROVE  /\ Cardinality(B) = Capped(Cardinality(fresh \cup known))
                        /\ Cardinality(fresh \cap Keys(B)) = Capped(Cardinality(fresh))
      OBVIOUS
    <3>1. B = R
      BY <1>5, <2>2
    <3> QED  BY <1>5, <3>1
  <2>5. Kept(p)
    <3> USE DEF fresh, known, old, new
    <3> QED  BY <2>1, <2>3, <2>4 DEF Kept
  <2> QED  BY <2>5 DEF KeptOrRefused
<1>8. CASE ~CanPlace(old, R)
  <2>1. file' = file /\ old.marked /\ \E r \in R : r.key \in Slashed
    BY <1>3, <1>8 DEF CanPlace
  <2>2. (fresh \cup known) \cap Slashed # {}
    BY <1>5, <2>1 DEF Keys
  <2> QED  BY <2>1, <2>2, Zenon DEF KeptOrRefused, fresh, known, old, new
<1> QED  BY <1>7, <1>8

\* Only its own write takes a learner from replacing to idle.
LEMMA OnlyWrites ==
    ASSUME LTypeOK, [LNext]_Lvars, NEW p \in Learners, phase[p] = "replacing", phase'[p] = "idle"
    PROVE  WriteRules(p)
<1>1. p \in agents /\ phase \in [agents -> {"idle", "asking", "reading", "replacing"}]
  BY DEF agents, LTypeOK
<1>2. CASE UNCHANGED Lvars
  BY <1>2 DEF Lvars
<1>3. ASSUME NEW s \in Sessions,
             \/ \E id \in {Anonymous, LastId + 1}, c \in Tried, k \in Kinds :
                   Act(s, id, c, k[1], k[2])
             \/ \E old \in Sessions : Resume(s, old)
             \/ Age(s)
      PROVE  FALSE
  BY <1>3 DEF Act, Resume, Age
<1>4. ASSUME NEW x \in Paragraphs, NEW u \in BOOLEAN, Edit(x, u)
      PROVE  FALSE
  BY <1>4 DEF Edit
<1>5. ASSUME NEW q \in agents, Discover(q) \/ Mine(q)  PROVE FALSE
  <2>1. phase[q] = "idle" /\ \E v : phase' = [phase EXCEPT ![q] = v]
    BY <1>5 DEF Discover, Mine
  <2> QED  BY <1>1, <2>1
<1>6. ASSUME NEW q \in agents, ReadFile(q)  PROVE FALSE
  BY <1>1, <1>6 DEF ReadFile
<1>7. ASSUME NEW q \in agents, FallBack(q) \/ \E K \in SUBSET Key : ModelAnswers(q, K)  PROVE FALSE
  <2>1. phase[q] = "asking" /\ phase' = [phase EXCEPT ![q] = "reading"]
    BY <1>7 DEF FallBack, ModelAnswers, Concludes
  <2> QED  BY <1>1, <2>1
<1>8. ASSUME NEW q \in agents, q # p, WriteRules(q) \/ WriteBlock(q)  PROVE FALSE
  <2>1. phase' = [phase EXCEPT ![q] = "idle"]
    BY <1>8 DEF WriteRules, WriteBlock, Replaces
  <2> QED  BY <1>1, <1>8, <2>1
<1>9. \A q \in Learners : q \in agents
  BY DEF agents
<1>10. \A q \in Dashboards : q \in agents /\ q # p
  BY LearningAssumption DEF agents
<1>11. SUBSET {k \in Key : k.cmd \in Tried} \subseteq SUBSET Key
  OBVIOUS
<1> QED  BY <1>2, <1>3, <1>4, <1>5, <1>6, <1>7, <1>8, <1>9, <1>10, <1>11 DEF LNext, Learn

\* RoundTripContextWriter.write_rules, merge_rules and prune: of the file as it was
\* read, if it is UTF-8, a learner's write keeps what the user wrote, and every rule
\* found earlier that has room and no backslash sequence that re.sub replaces, with
\* the higher of its measures; and puts in what was found now.  A file is left as it
\* is only for a sequence that re.sub does not know.
THEOREM NothingLostByWrites == LSpec => NothingLost
<1>1. LTypeOK /\ DistinctRules /\ [LNext]_Lvars
         => [\A p \in Learners :
                phase[p] = "replacing" /\ phase'[p] = "idle" /\ seen[p].foreign = {}
                => KeptOrRefused(p)]_Lvars
  <2> SUFFICES ASSUME LTypeOK, DistinctRules, [LNext]_Lvars, NEW p \in Learners,
                      phase[p] = "replacing", phase'[p] = "idle", seen[p].foreign = {}
               PROVE  KeptOrRefused(p)
    OBVIOUS
  <2>1. WriteRules(p)
    BY OnlyWrites
  <2>2. p \in agents
    BY DEF agents
  <2> QED  BY <2>1, <2>2, WriteKept
<1> QED  BY <1>1, LearningKeeps, PTL DEF LSpec, NothingLost, KeptOrRefused
=============================================================================
