--------------------------- MODULE CacheGuardProofs ---------------------------
(* Theorems about CacheGuard, for every set of conversations and workers and  *)
(* every value of the caps.                                                   *)
EXTENDS CacheGuard, SequenceTheorems, FiniteSetTheorems, TLAPS

-----------------------------------------------------------------------------
(* The operators on messages                                                 *)

Content == Messages \X Forms

LEMMA ScriptSeq ==
    ASSUME NEW c \in Conversations
    PROVE  /\ Script[c] \in Seq(Messages)
           /\ Len(Script[c]) \in Nat \ {0}
           /\ \A i \in 1..Len(Script[c]) : Script[c][i] \in Messages
<1>1. Script[c] \in Seq(Messages) /\ Script[c] # <<>>
  BY CacheGuardAssumption
<1>2. Len(Script[c]) \in Nat \ {0}
  BY <1>1, EmptySeq
<1> QED  BY <1>1, <1>2, ElementOfSeq

\* A request is the beginning of its client's script.
LEMMA SentFacts ==
    ASSUME NEW c \in Conversations, n[c] \in Nat, n[c] <= Len(Script[c])
    PROVE  /\ Sent(c) \in History /\ Len(Sent(c)) = n[c]
           /\ \A i \in 1..n[c] : Sent(c)[i] = Script[c][i]
<1>1. \A i \in 1..n[c] : Script[c][i] \in Messages
  BY ScriptSeq
<1>2. n[c] - 1 + 1 = n[c] /\ \A i \in 1..n[c] : 1 + i - 1 = i
  OBVIOUS
<1> QED  BY <1>1, <1>2, SubSeqProperties DEF Sent, History

LEMMA FunctionSeq ==
    ASSUME NEW S, NEW m \in Nat, NEW s \in [1..m -> S]
    PROVE  s \in Seq(S) /\ Len(s) = m
<1>1. s \in Seq(S)
  BY SeqDef
<1>2. DOMAIN s = 1..m /\ DOMAIN s = 1..Len(s) /\ Len(s) \in Nat
  BY <1>1, LenProperties
<1> QED  BY <1>1, <1>2

LEMMA AsRawFacts ==
    ASSUME NEW h \in History
    PROVE  /\ AsRaw(h) \in Forwarded /\ Len(AsRaw(h)) = Len(h)
           /\ \A i \in 1..Len(h) : AsRaw(h)[i] = <<h[i], Raw>>
<1>1. Len(h) \in Nat /\ DOMAIN h = 1..Len(h) /\ \A i \in 1..Len(h) : h[i] \in Messages
  BY LenProperties, ElementOfSeq DEF History
<1>2. AsRaw(h) \in [1..Len(h) -> Messages \X Forms]
  BY <1>1, CacheGuardAssumption DEF AsRaw
<1> QED  BY <1>1, <1>2, FunctionSeq DEF AsRaw, Forwarded

LEMMA CompressedFacts ==
    ASSUME NEW h \in History, NEW f \in Forms
    PROVE  /\ Compressed(h, f) \in Forwarded /\ Len(Compressed(h, f)) = Len(h)
           /\ \A i \in 1..Len(h) : Compressed(h, f)[i] \in Messages \X Forms
           /\ \A i \in 1..Len(h) : Compressed(h, f)[i][1] = h[i]
<1>1. Len(h) \in Nat /\ DOMAIN h = 1..Len(h) /\ \A i \in 1..Len(h) : h[i] \in Messages
  BY LenProperties, ElementOfSeq DEF History
<1>2. Compressed(h, f) \in [1..Len(h) -> Messages \X Forms]
  BY <1>1, CacheGuardAssumption DEF Compressed
<1>3. Compressed(h, f) \in Forwarded /\ Len(Compressed(h, f)) = Len(h)
  BY <1>1, <1>2, FunctionSeq DEF Forwarded
<1>4. \A i \in 1..Len(h) : Compressed(h, f)[i][1] = h[i]
  BY <1>1 DEF Compressed
<1> QED  BY <1>2, <1>3, <1>4

-----------------------------------------------------------------------------
(* Types                                                                     *)

\* TypeOK; requests are no longer than their scripts; a worker serves a request
\* that is not empty.
Typed ==
    /\ TypeOK
    /\ \A c \in Conversations : n[c] <= Len(Script[c])
    /\ \A c \in Conversations : phase[c] # "idle" => at[c] \in Workers /\ n[c] >= 1

LEMMA InitTyped == Init => Typed
<1> SUFFICES ASSUME Init  PROVE Typed
  OBVIOUS
<1> USE CacheGuardAssumption
<1>1. <<>> \in Forwarded
  BY EmptySeq DEF Forwarded
<1>2. EmptyRow \in Row
  BY <1>1 DEF EmptyRow, Row
<1>3. \A c \in Conversations : 0 <= Len(Script[c])
  BY ScriptSeq
<1>4. DOMAIN <<>> = {}
  OBVIOUS
<1> QED  BY <1>1, <1>2, <1>3, <1>4 DEF Init, Typed, TypeOK, Keys, NoKey, Swept, Overflow

LEMMA TrackerType ==
    ASSUME Typed, NEW w \in Workers, NEW k \in Keys, NEW t \in Tracker,
           SetTracker(w, k, t)
    PROVE  /\ DOMAIN trackers' = Workers
           /\ \A v \in Workers : /\ DOMAIN trackers'[v] \subseteq Keys
                                 /\ \A j \in DOMAIN trackers'[v] :
                                        trackers'[v][j] \in Tracker
BY DEF Typed, TypeOK, SetTracker

LEMMA KnownType ==
    ASSUME Typed, NEW w \in Workers, NEW k \in Keys
    PROVE  Known(w, k) \in Tracker
<1>1. <<>> \in History /\ <<>> \in Forwarded
  BY EmptySeq DEF History, Forwarded
<1> QED  BY <1>1 DEF Typed, TypeOK, Known, NewTracker, Tracker

LEMMA SyncedType ==
    ASSUME Typed, NEW w \in Workers
    PROVE  /\ SyncedFwd(w) \in Forwarded
           /\ SyncedOrig(w) \in Forwarded
           /\ SyncedFrozen(w) \in Messages \cup {NoMessage}
BY DEF Typed, TypeOK, SyncedFwd, SyncedOrig, SyncedFrozen, Row

LEMMA SyncToDbType ==
    ASSUME Typed, NEW f \in Forwarded, NEW o \in Forwarded,
           NEW s \in Messages \cup {NoMessage}, SyncToDb(f, o, s)
    PROVE  row' \in Row
BY DEF Typed, TypeOK, SyncToDb, Row

LEMMA SystemFacts ==
    ASSUME Typed, NEW w \in Workers, NEW h \in History, h # <<>>
    PROVE  /\ WithFrozenSystem(w, h) \in History
           /\ Len(WithFrozenSystem(w, h)) = Len(h)
           /\ \A i \in 2..Len(h) : WithFrozenSystem(w, h)[i] = h[i]
           /\ h[1] \notin SystemMsgs => WithFrozenSystem(w, h) = h
<1>1. Len(h) \in Nat \ {0} /\ 1 \in 1..Len(h)
  BY EmptySeq DEF History
<1>2. CASE h[1] \in SystemMsgs /\ SyncedFrozen(w) # NoMessage
  <2>1. SyncedFrozen(w) \in Messages
    BY <1>2, SyncedType
  <2> QED  BY <1>1, <1>2, <2>1, ExceptSeq DEF WithFrozenSystem, History
<1> QED  BY <1>2 DEF WithFrozenSystem

LEMMA FrozenCountType ==
    ASSUME NEW h \in History, NEW prev \in Forwarded, Len(h) > 1
    PROVE  FrozenCount(h, prev) \in 0..Len(h) - 1
<1>1. Len(h) \in Nat /\ Len(prev) \in Nat
  BY LenProperties DEF History, Forwarded
<1> QED  BY <1>1, CacheGuardAssumption DEF FrozenCount, Least

\* Message i is one whose forwarded bytes the overlay puts in its place.
Repeats(originals, prevOrig, prevFwd, i) ==
    /\ prevFwd # <<>> /\ Len(prevFwd) = Len(prevOrig)
    /\ i <= Len(prevOrig) /\ \A j \in 1..i : originals[j] = prevOrig[j]

\* A replay is as long as what it stands for and made of what was forwarded.
LEMMA OverlayFacts ==
    ASSUME NEW prefix \in Forwarded, NEW originals \in Forwarded,
           NEW prevOrig \in Forwarded, NEW prevFwd \in Forwarded
    PROVE  /\ Overlay(prefix, originals, prevOrig, prevFwd) \in Forwarded
           /\ Len(Overlay(prefix, originals, prevOrig, prevFwd)) = Len(prefix)
           /\ \A i \in 1..Len(prefix) :
                Overlay(prefix, originals, prevOrig, prevFwd)[i] =
                    IF Repeats(originals, prevOrig, prevFwd, i)
                    THEN prevFwd[i] ELSE prefix[i]
<1> DEFINE o == Overlay(prefix, originals, prevOrig, prevFwd)
<1>1. /\ Len(prefix) \in Nat /\ DOMAIN prefix = 1..Len(prefix)
      /\ \A i \in 1..Len(prefix) : prefix[i] \in Messages \X Forms
      /\ Len(prevOrig) \in Nat /\ Len(prevFwd) \in Nat
      /\ \A i \in 1..Len(prevFwd) : prevFwd[i] \in Messages \X Forms
  BY LenProperties, ElementOfSeq DEF Forwarded
<1>2. CASE prevFwd = <<>> \/ Len(prevFwd) # Len(prevOrig)
  BY <1>2 DEF Overlay, Repeats
<1>3. CASE ~(prevFwd = <<>> \/ Len(prevFwd) # Len(prevOrig))
  <2>1. o \in [1..Len(prefix) -> Messages \X Forms]
    BY <1>1, <1>3 DEF Overlay
  <2>2. \A i \in 1..Len(prefix) :
            o[i] = IF Repeats(originals, prevOrig, prevFwd, i)
                   THEN prevFwd[i] ELSE prefix[i]
    BY <1>1, <1>3 DEF Overlay, Repeats
  <2> QED  BY <1>1, <2>1, <2>2, FunctionSeq DEF Forwarded
<1> QED  BY <1>2, <1>3

LEMMA PrevType ==
    ASSUME Typed, NEW w \in Workers, NEW k \in Keys
    PROVE  PrevForwarded(w, k) \in Forwarded /\ PrevOriginal(w, k) \in Forwarded
BY KnownType, SyncedType DEF PrevForwarded, PrevOriginal, Tracker

\* How much of a turn is frozen, and which of it is replayed.
FrozenPart(c, w, k) ==
    FrozenCount(WithFrozenSystem(w, Sent(c)), PrevForwarded(w, k))

Replayed(c, w, k, i) ==
    Repeats(AsRaw(Sent(c)), PrevOriginal(w, k), PrevForwarded(w, k), i)

\* What a turn forwards that goes on with its conversation.
LEMMA ContinueFacts ==
    ASSUME Typed, NEW c \in Conversations, NEW w \in Workers, NEW k \in Keys,
           NEW f \in Forms, n[c] > 1, ContinueConversation(c, w, k, f)
    PROVE  /\ out' \in [Conversations -> Forwarded]
           /\ Len(out'[c]) = n[c]
           /\ FrozenPart(c, w, k) \in 0..n[c] - 1
           /\ \A i \in 1..n[c] :
                IF i <= FrozenPart(c, w, k) /\ Replayed(c, w, k, i)
                THEN out'[c][i] = PrevForwarded(w, k)[i]
                ELSE \/ out'[c][i][1] = Script[c][i]
                     \/ Script[c][i] \in SystemMsgs
           /\ frozen' \in [Workers -> Messages \cup {NoMessage}]
           /\ row' \in Row
<1> DEFINE h == WithFrozenSystem(w, Sent(c))
           p == FrozenCount(h, PrevForwarded(w, k))
           prefix == Overlay(AsRaw(SubSeq(h, 1, p)), AsRaw(Sent(c)),
                             PrevOriginal(w, k), PrevForwarded(w, k))
           o == [i \in 1..n[c] |-> IF i <= p THEN prefix[i] ELSE Compressed(h, f)[i]]
<1>1. n[c] \in Nat /\ n[c] <= Len(Script[c])
  BY DEF Typed, TypeOK
<1>2. Sent(c) \in History /\ Len(Sent(c)) = n[c] /\ Sent(c) # <<>>
  BY <1>1, SentFacts, EmptySeq DEF History
<1>3. h \in History /\ Len(h) = n[c]
  BY <1>2, SystemFacts
<1>4. PrevForwarded(w, k) \in Forwarded /\ PrevOriginal(w, k) \in Forwarded
  BY PrevType
<1>5. p \in 0..n[c] - 1
  BY <1>3, <1>4, FrozenCountType
<1>6. /\ SubSeq(h, 1, p) \in History /\ Len(SubSeq(h, 1, p)) = p
      /\ \A i \in 1..p : SubSeq(h, 1, p)[i] = h[i]
  <2>1. \A i \in 1..p : h[i] \in Messages
    BY <1>1, <1>3, <1>5, ElementOfSeq DEF History
  <2>2. p \in Int /\ 1 \in Int
    BY <1>1, <1>5
  <2>3. SubSeq(h, 1, p) \in Seq(Messages)
        /\ Len(SubSeq(h, 1, p)) = (IF 1 <= p THEN p - 1 + 1 ELSE 0)
        /\ \A i \in 1..p - 1 + 1 : SubSeq(h, 1, p)[i] = h[1 + i - 1]
    BY <2>1, <2>2, SubSeqProperties
  <2> QED  BY <1>1, <1>5, <2>3 DEF History
<1>7. /\ prefix \in Forwarded /\ Len(prefix) = p
      /\ \A i \in 1..p : prefix[i] = IF Replayed(c, w, k, i) THEN PrevForwarded(w, k)[i]
                                      ELSE <<h[i], Raw>>
  <2>1. AsRaw(Sent(c)) \in Forwarded
    BY <1>2, AsRawFacts
  <2>2. AsRaw(SubSeq(h, 1, p)) \in Forwarded /\ Len(AsRaw(SubSeq(h, 1, p))) = p
    BY <1>6, AsRawFacts
  <2>3. \A i \in 1..p : AsRaw(SubSeq(h, 1, p))[i] = <<h[i], Raw>>
    BY <1>6, AsRawFacts
  <2> HIDE DEF p, h
  <2> QED  BY <1>4, <2>1, <2>2, <2>3, OverlayFacts DEF Replayed
<1>8. \A i \in 1..p : prefix[i] \in Messages \X Forms
  BY <1>7, ElementOfSeq DEF Forwarded
<1>9. \A i \in 1..n[c] : Compressed(h, f)[i] \in Messages \X Forms
                           /\ Compressed(h, f)[i][1] = h[i]
  BY <1>3, CompressedFacts
<1>10. o \in [1..n[c] -> Messages \X Forms]
  BY <1>1, <1>5, <1>8, <1>9
<1>11. o \in Forwarded /\ Len(o) = n[c]
  BY <1>1, <1>10, FunctionSeq DEF Forwarded
<1>12. out' = [out EXCEPT ![c] = o]
  BY DEF ContinueConversation
<1>13. out' \in [Conversations -> Forwarded] /\ Len(out'[c]) = n[c]
  BY <1>11, <1>12 DEF Typed, TypeOK
<1>13a. \A i \in 1..n[c] : h[i] = Script[c][i] \/ Script[c][i] \in SystemMsgs
  <2>1. \A i \in 1..n[c] : Sent(c)[i] = Script[c][i]
    BY <1>1, SentFacts
  <2> QED  BY <1>1, <1>2, <2>1, SystemFacts
<1>13b. \A i \in 1..n[c] :
            IF i <= p /\ Replayed(c, w, k, i)
            THEN out'[c][i] = PrevForwarded(w, k)[i]
            ELSE out'[c][i][1] = h[i]
  <2>1. out'[c] = o
    BY <1>12 DEF Typed, TypeOK
  <2> HIDE DEF prefix, h, p
  <2> QED  BY <1>1, <1>5, <1>7, <1>9, <2>1
<1>14. FreezeSystem(w, Sent(c)[1]) /\ Sent(c)[1] \in Messages
  BY <1>2, <1>1, ElementOfSeq DEF ContinueConversation, History
<1>15. frozen' \in [Workers -> Messages \cup {NoMessage}] /\ row' \in Row
  BY <1>14, SyncedType, SyncToDbType DEF FreezeSystem, Typed, TypeOK
<1> QED  BY <1>5, <1>13, <1>13a, <1>13b, <1>15 DEF FrozenPart

\* What a turn forwards, whichever way it is built.
LEMMA ForwardFacts ==
    ASSUME Typed, NEW c \in Conversations, NEW k \in Keys, NEW f \in Forms,
           Forward(c, k, f)
    PROVE  /\ out' \in [Conversations -> Forwarded]
           /\ Len(out'[c]) = n[c]
           /\ wire' \in [Conversations -> Forwarded]
           /\ frozen' \in [Workers -> Messages \cup {NoMessage}]
           /\ row' \in Row
<1> DEFINE w == at[c]
<1>1. w \in Workers /\ n[c] \in Nat /\ n[c] >= 1 /\ n[c] <= Len(Script[c])
  BY DEF Forward, Typed, TypeOK
<1>2. Compressed(Sent(c), f) \in Forwarded /\ Len(Compressed(Sent(c), f)) = n[c]
  BY <1>1, SentFacts, CompressedFacts
<1>3. <<>> \in Forwarded
  BY EmptySeq DEF Forwarded
<1>4. CASE ColdRecompact(c, w, f)
  BY <1>2, <1>3, <1>4 DEF ColdRecompact, Typed, TypeOK, EmptyRow, Row
<1>5. CASE OpenConversation(c, w, f)
  BY <1>1, <1>2, <1>5, SyncedType DEF OpenConversation, Typed, TypeOK
<1>6. CASE ContinueConversation(c, w, k, f)
  <2>1. n[c] > 1 /\ UNCHANGED wire
    BY <1>1, <1>6 DEF ContinueConversation
  <2> QED  BY <1>1, <1>6, <2>1, ContinueFacts DEF Typed, TypeOK
<1> QED  BY <1>4, <1>5, <1>6 DEF Forward

LEMMA RecordFacts ==
    ASSUME Typed, NEW c \in Conversations, phase[c] = "sent", RecordForwardedTurn(c)
    PROVE  /\ fwd' \in [Workers -> Forwarded] /\ orig' \in [Workers -> Forwarded]
           /\ row' \in Row
           /\ DOMAIN trackers' = Workers
           /\ \A w \in Workers : /\ DOMAIN trackers'[w] \subseteq Keys
                                 /\ \A k \in DOMAIN trackers'[w] :
                                        trackers'[w][k] \in Tracker
<1> DEFINE w == at[c]
           k == pending[w]
<1>1. w \in Workers /\ n[c] \in Nat /\ n[c] <= Len(Script[c])
  BY DEF Typed, TypeOK
<1>2. AsRaw(Sent(c)) \in Forwarded /\ out[c] \in Forwarded
      /\ frozen[w] \in Messages \cup {NoMessage}
  BY <1>1, SentFacts, AsRawFacts DEF Typed, TypeOK
<1>3. RecordShared(c, w) /\ UpdateFromResponse(c, w, k)
  BY DEF RecordForwardedTurn
<1>4. fwd' \in [Workers -> Forwarded] /\ orig' \in [Workers -> Forwarded] /\ row' \in Row
  <2>1. CASE k = NoKey \/ IsPrimaryLineage(k)
    BY <1>1, <1>2, <1>3, <2>1, SyncToDbType DEF RecordShared, Typed, TypeOK
  <2>2. CASE ~(k = NoKey \/ IsPrimaryLineage(k))
    BY <1>3, <2>2 DEF RecordShared, Typed, TypeOK
  <2> QED  BY <2>1, <2>2
<1>5. CASE k \in DOMAIN trackers[w]
  <2> DEFINE t == [trackers[w][k] EXCEPT !.used = TRUE, !.fwd = out[c], !.seen = now]
  <2>1. k \in Keys /\ trackers[w][k] \in Tracker /\ now \in Nat
    BY <1>1, <1>5 DEF Typed, TypeOK
  <2>2. t \in Tracker
    BY <1>2, <2>1 DEF Tracker
  <2>3. SetTracker(w, k, t)
    BY <1>3, <1>5 DEF UpdateFromResponse
  <2> HIDE DEF t, k, w
  <2> QED  BY <1>1, <1>4, <2>1, <2>2, <2>3, TrackerType
<1>6. CASE k \notin DOMAIN trackers[w]
  BY <1>3, <1>4, <1>6 DEF UpdateFromResponse, Typed, TypeOK
<1> QED  BY <1>5, <1>6

LEMMA ResolveFacts ==
    ASSUME Typed, NEW c \in Conversations, NEW w \in Workers, NEW k \in Keys,
           ResolveTracker(w, Sent(c), k)
    PROVE  /\ DOMAIN trackers' = Workers
           /\ \A v \in Workers : /\ DOMAIN trackers'[v] \subseteq Keys
                                 /\ \A j \in DOMAIN trackers'[v] :
                                        trackers'[v][j] \in Tracker
<1> DEFINE t == [Known(w, k) EXCEPT
                    !.seen = now,
                    !.chain = IF k = Overflow THEN <<>> ELSE Sent(c)]
<1>1. Sent(c) \in History /\ <<>> \in History /\ now \in Nat
  BY SentFacts, EmptySeq DEF Typed, TypeOK, History
<1>2. t \in Tracker
  BY <1>1, KnownType DEF Tracker
<1>3. SetTracker(w, k, t)
  BY DEF ResolveTracker
<1> HIDE DEF t
<1> QED  BY <1>2, <1>3, TrackerType

LEMMA FinishTyped ==
    ASSUME Typed, NEW cs, Finish(cs)
    PROVE  /\ phase' \in [Conversations -> {"idle", "queued", "sent"}]
           /\ at' \in [Conversations -> Workers \cup {NoWorker}]
           /\ n' \in [Conversations -> Nat]
           /\ overdue' \in [Conversations -> BOOLEAN]
           /\ lineage' \in [Conversations -> Keys \cup {NoKey}]
           /\ out' \in [Conversations -> Forwarded]
           /\ \A c \in Conversations : n'[c] <= Len(Script[c])
           /\ \A c \in Conversations :
                phase'[c] # "idle" => at'[c] \in Workers /\ n'[c] >= 1
<1>1. <<>> \in Forwarded
  BY EmptySeq DEF Forwarded
<1>2. overdue' \in [Conversations -> BOOLEAN]
  BY DEF Finish
<1> QED  BY <1>1, <1>2 DEF Finish, Typed, TypeOK

LEMMA StepTyped == Typed /\ [Next]_vars => Typed'
<1> SUFFICES ASSUME Typed, [Next]_vars  PROVE Typed'
  OBVIOUS
<1>e. <<>> \in Forwarded
  BY EmptySeq DEF Forwarded
<1>1. ASSUME NEW c \in Conversations, NEW w \in Workers, NEW m \in 1..Len(Script[c]),
             Arrive(c, w, m)
      PROVE  Typed'
  <2>1. Len(Script[c]) \in Nat /\ m \in Nat \ {0} /\ m <= Len(Script[c])
    BY ScriptSeq
  <2>2. overdue' \in [Conversations -> BOOLEAN]
    BY <1>1 DEF Arrive, Typed, TypeOK
  <2>3. n' \in [Conversations -> Nat] /\ at' \in [Conversations -> Workers \cup {NoWorker}]
        /\ phase' \in [Conversations -> {"idle", "queued", "sent"}]
        /\ turns' \in 0..MaxTurns
    BY <1>1, <2>1, CacheGuardAssumption DEF Arrive, Typed, TypeOK
  <2>4. /\ \A d \in Conversations : n'[d] <= Len(Script[d])
        /\ \A d \in Conversations : phase'[d] # "idle" => at'[d] \in Workers /\ n'[d] >= 1
    BY <1>1, <2>1 DEF Arrive, Typed, TypeOK
  <2> QED  BY <1>1, <2>2, <2>3, <2>4 DEF Arrive, Typed, TypeOK, memory
<1>2. ASSUME NEW c \in Conversations, NEW k \in Keys, NEW f \in Forms, Forward(c, k, f)
      PROVE  Typed'
  <2>1. at[c] \in Workers
    BY <1>2 DEF Forward, Typed
  <2>2. fwd' \in [Workers -> Forwarded] /\ orig' \in [Workers -> Forwarded]
    BY <1>2, <2>1, SyncedType DEF Forward, SyncFromDb, Typed, TypeOK
  <2>3. /\ DOMAIN trackers' = Workers
        /\ \A v \in Workers : /\ DOMAIN trackers'[v] \subseteq Keys
                              /\ \A j \in DOMAIN trackers'[v] :
                                     trackers'[v][j] \in Tracker
    BY <1>2, <2>1, ResolveFacts DEF Forward
  <2>4. timeouts' \in 0..MaxTimeouts
    BY <1>2, CacheGuardAssumption DEF Forward, Enter, Typed, TypeOK
  <2> QED  BY <1>2, <2>2, <2>3, <2>4, ForwardFacts DEF Forward, Typed, TypeOK
<1>3. ASSUME NEW c \in Conversations, RecordForwardedTurn(c)  PROVE Typed'
  <2>1. phase[c] = "sent" /\ at[c] \in Workers /\ out[c] \in Forwarded
    BY <1>3 DEF RecordForwardedTurn, Typed, TypeOK
  <2>2. wire' \in [Conversations -> Forwarded] /\ last' \in [Workers -> SUBSET Nat]
        /\ pending' \in [Workers -> Keys \cup {NoKey, Swept}]
    BY <1>3, <1>e, <2>1 DEF RecordForwardedTurn, Typed, TypeOK
  <2>3. Finish({c}) /\ UNCHANGED <<frozen, bounds>>
    BY <1>3 DEF RecordForwardedTurn
  <2> QED  BY <1>3, <2>1, <2>2, <2>3, RecordFacts, FinishTyped
           DEF Typed, TypeOK, bounds
<1>4. ASSUME NEW c \in Conversations, Fail(c)  PROVE Typed'
  BY <1>4, FinishTyped DEF Fail, Typed, TypeOK, memory, bounds
<1>5. ASSUME NEW w \in Workers, Sweep(w)  PROVE Typed'
  BY <1>5 DEF Sweep, Typed, TypeOK, request, bounds
<1>6. ASSUME NEW w \in Workers, Restart(w)  PROVE Typed'
  <2>1. restarts' \in 0..MaxRestarts
    BY <1>6, CacheGuardAssumption DEF Restart, Typed, TypeOK
  <2>2. DOMAIN <<>> = {}
    OBVIOUS
  <2>3. /\ fwd' \in [Workers -> Forwarded] /\ orig' \in [Workers -> Forwarded]
        /\ frozen' \in [Workers -> Messages \cup {NoMessage}]
        /\ pending' \in [Workers -> Keys \cup {NoKey, Swept}]
        /\ last' \in [Workers -> SUBSET Nat]
    BY <1>6, <1>e DEF Restart, Typed, TypeOK
  <2>4. /\ DOMAIN trackers' = Workers
        /\ \A v \in Workers : /\ DOMAIN trackers'[v] \subseteq Keys
                              /\ \A j \in DOMAIN trackers'[v] :
                                     trackers'[v][j] \in Tracker
    BY <1>6, <2>2 DEF Restart, Typed, TypeOK
  <2> QED  BY <1>6, <2>1, <2>3, <2>4, FinishTyped DEF Restart, Typed, TypeOK
<1>7. CASE Tick
  BY <1>7, CacheGuardAssumption DEF Tick, Typed, TypeOK, memory, request
<1>8. CASE UNCHANGED vars
  BY <1>8 DEF vars, Typed, TypeOK, memory, request, bounds
<1> QED  BY <1>1, <1>2, <1>3, <1>4, <1>5, <1>6, <1>7, <1>8 DEF Next

\* The variables keep their types, whatever the caps.
THEOREM TypeCorrect == Spec => []TypeOK
<1>1. Typed => TypeOK
  BY DEF Typed
<1> QED  BY <1>1, InitTyped, StepTyped, PTL DEF Spec

-----------------------------------------------------------------------------
(* One turn at a time: no wait for the session's lock times out              *)

\* A worker has one turn of the session in flight, and the tracker that waits for
\* its response is the turn's, unless it was swept.
OneTurn ==
    \A c \in Conversations : phase[c] = "sent" =>
        /\ \A d \in Conversations : phase[d] = "sent" /\ at[d] = at[c] => d = c
        /\ lineage[c] \in Keys
        /\ pending[at[c]] \in {lineage[c], Swept}

LEMMA OneTurnStep ==
    ASSUME MaxTimeouts = 0, Typed, OneTurn, [Next]_vars
    PROVE  OneTurn'
<1> USE DEF OneTurn
<1>1. ASSUME NEW c \in Conversations, NEW w \in Workers, NEW m \in 1..Len(Script[c]),
             Arrive(c, w, m)
      PROVE  OneTurn'
  BY <1>1 DEF Arrive, Typed, TypeOK, memory
<1>2. ASSUME NEW c \in Conversations, NEW k \in Keys, NEW f \in Forms, Forward(c, k, f)
      PROVE  OneTurn'
  <2>1. InFlight(at[c]) = {}
    BY <1>2 DEF Forward, Enter, Typed, TypeOK
  <2>2. \A d \in Conversations \ {c} : phase[d] = "sent" => at[d] # at[c]
    BY <2>1 DEF InFlight
  <2> QED  BY <1>2, <2>2 DEF Forward, Typed, TypeOK
<1>3. ASSUME NEW c \in Conversations, RecordForwardedTurn(c)  PROVE OneTurn'
  BY <1>3 DEF RecordForwardedTurn, Finish, Typed, TypeOK
<1>4. ASSUME NEW c \in Conversations, Fail(c)  PROVE OneTurn'
  BY <1>4 DEF Fail, Finish, Typed, TypeOK, memory
<1>5. ASSUME NEW w \in Workers, Sweep(w)  PROVE OneTurn'
  BY <1>5 DEF Sweep, Typed, TypeOK, request
<1>6. ASSUME NEW w \in Workers, Restart(w)  PROVE OneTurn'
  BY <1>6 DEF Restart, Finish, Typed, TypeOK
<1>7. CASE Tick
  BY <1>7 DEF Tick, memory, request
<1>8. CASE UNCHANGED vars
  BY <1>8 DEF vars, memory, request
<1> QED  BY <1>1, <1>2, <1>3, <1>4, <1>5, <1>6, <1>7, <1>8 DEF Next

\* Where a worker runs one turn of the session at a time, the bytes of a derived
\* lineage never become the session's.
THEOREM DerivedNeverSharedCorrect ==
    ASSUME MaxTimeouts = 0
    PROVE  Spec => DerivedNeverShared
<1> DEFINE Kept ==
        \A c \in Conversations :
            phase[c] = "sent" /\ phase'[c] = "idle" /\ ~IsPrimaryLineage(lineage[c])
                => UNCHANGED row /\ \A w \in Workers : fwd'[w] \in {fwd[w], <<>>}
<1>1. Init => Typed /\ OneTurn
  BY InitTyped DEF Init, OneTurn
<1>2. Typed /\ OneTurn /\ [Next]_vars => (Typed /\ OneTurn)'
  BY StepTyped, OneTurnStep
<1>3. Typed /\ OneTurn /\ [Next]_vars => [Kept]_vars
  <2> SUFFICES ASSUME Typed, OneTurn, Next, NEW c \in Conversations,
                      phase[c] = "sent", phase'[c] = "idle",
                      ~IsPrimaryLineage(lineage[c])
               PROVE  UNCHANGED row /\ \A w \in Workers : fwd'[w] \in {fwd[w], <<>>}
    OBVIOUS
  <2>1. ASSUME NEW d \in Conversations, NEW w \in Workers,
               NEW m \in 1..Len(Script[d]), Arrive(d, w, m)
        PROVE  UNCHANGED <<fwd, row>>
    BY <2>1 DEF Arrive, memory
  <2>2. ASSUME NEW d \in Conversations, NEW k \in Keys, NEW f \in Forms,
               Forward(d, k, f)
        PROVE  FALSE
    BY <2>2 DEF Forward, Typed, TypeOK
  <2>3. ASSUME NEW d \in Conversations, RecordForwardedTurn(d)
        PROVE  UNCHANGED <<fwd, row>>
    <3>1. d = c
      BY <2>3 DEF RecordForwardedTurn, Finish, Typed, TypeOK
    <3>2. pending[at[c]] # NoKey /\ ~IsPrimaryLineage(pending[at[c]])
      BY CacheGuardAssumption
         DEF OneTurn, IsPrimaryLineage, Keys, NoKey, Swept, Overflow, Bare
    <3> QED  BY <2>3, <3>1, <3>2 DEF RecordForwardedTurn, RecordShared
  <2>4. ASSUME NEW d \in Conversations, Fail(d)  PROVE UNCHANGED <<fwd, row>>
    BY <2>4 DEF Fail, memory
  <2>5. ASSUME NEW w \in Workers, Sweep(w)  PROVE UNCHANGED <<fwd, row>>
    BY <2>5 DEF Sweep
  <2>6. ASSUME NEW w \in Workers, Restart(w)
        PROVE  UNCHANGED row /\ \A v \in Workers : fwd'[v] \in {fwd[v], <<>>}
    BY <2>6 DEF Restart, Typed, TypeOK
  <2>7. CASE Tick
    BY <2>7 DEF Tick, memory
  <2> QED  BY <2>1, <2>2, <2>3, <2>4, <2>5, <2>6, <2>7 DEF Next
<1> QED  BY <1>1, <1>2, <1>3, PTL DEF Spec, DerivedNeverShared

-----------------------------------------------------------------------------
(* A conversation that is alone                                              *)

\* What a worker knows of a conversation that has the session for itself.
Own(c, w) ==
    /\ \A k \in DOMAIN trackers[w] :
        /\ k = Bare
        /\ Len(trackers[w][k].chain) <= n[c]
        /\ \A i \in 1..Len(trackers[w][k].chain) :
                trackers[w][k].chain[i] = Script[c][i]
    /\ pending[w] \in {Bare, NoKey, Swept}
    /\ Len(fwd[w]) <= n[c]

\* The row holds the turn that the next one is to repeat, and no worker holds
\* a longer one.
Repeatable(c) ==
    wire[c] # <<>> =>
        /\ row.fwd = wire[c]
        /\ Len(row.orig) = Len(wire[c])
        /\ \A i \in 1..Len(wire[c]) : row.orig[i] = <<Script[c][i], Raw>>
        /\ \A w \in Workers : Len(fwd[w]) <= Len(wire[c])

OnItsOwn(c) ==
    Alone(c) =>
        /\ \A w \in Workers : Own(c, w)
        /\ Len(row.fwd) <= n[c]
        /\ phase[c] = "sent" => Len(out[c]) = n[c]
        /\ Repeatable(c)

\* The other conversations have no requests.
LEMMA AloneFacts ==
    ASSUME Typed, NEW c \in Conversations, Alone(c)
    PROVE  \A d \in Conversations \ {c} : phase[d] = "idle"
BY DEF Typed, TypeOK, Alone

\* Nobody is alone again who has not always been.
LEMMA AloneBefore ==
    ASSUME Typed, NEW c \in Conversations, [Next]_vars, Alone(c)'
    PROVE  Alone(c)
<1> SUFFICES ASSUME NEW d \in Conversations \ {c}, n[d] # 0  PROVE n'[d] # 0
  BY DEF Alone
<1>1. ASSUME NEW e \in Conversations, NEW w \in Workers, NEW m \in 1..Len(Script[e]),
             Arrive(e, w, m)
      PROVE  n'[d] # 0
  <2>1. m \in Nat \ {0}
    BY ScriptSeq
  <2> QED  BY <1>1, <2>1 DEF Arrive, Typed, TypeOK
<1>2. CASE UNCHANGED n
  BY <1>2
<1>3. ASSUME [Next]_vars,
             \A e \in Conversations : \A w \in Workers, m \in 1..Len(Script[e]) :
                 ~Arrive(e, w, m)
      PROVE  UNCHANGED n
  BY <1>3 DEF Next, Forward, RecordForwardedTurn, Fail, Finish, Sweep, Restart, Tick,
              vars, request
<1> QED  BY <1>1, <1>2, <1>3

\* The lineage of a conversation that is alone is the session's.
LEMMA AloneIsPrimary ==
    ASSUME Typed, NEW c \in Conversations, NEW w \in Workers, NEW k \in Keys,
           Own(c, w), ResolvesTo(w, Sent(c), k)
    PROVE  k = Bare
<1>1. Sent(c) \in History /\ Len(Sent(c)) = n[c] /\ n[c] \in Nat
      /\ \A i \in 1..n[c] : Sent(c)[i] = Script[c][i]
  BY SentFacts DEF Typed, TypeOK
<1>2. Bare # Overflow /\ Family(w) = DOMAIN trackers[w]
  BY CacheGuardAssumption DEF Own, Family, Bare, Overflow
<1>3. CASE Family(w) = {}
  <2>1. Matches(w, Sent(c)) = {} /\ Cardinality(Family(w)) = 0
    BY <1>3, FS_EmptySet DEF Matches
  <2> QED  BY <1>3, <2>1, CacheGuardAssumption DEF ResolvesTo
<1>4. CASE Family(w) # {}
  <2>1. ASSUME NEW j \in Family(w)
        PROVE  j = Bare /\ StartsWith(Sent(c), trackers[w][j].chain)
    <3>1. trackers[w][j] \in Tracker
      BY <1>2 DEF Typed, TypeOK
    <3>2. trackers[w][j].chain \in History
      BY <3>1 DEF Tracker
    <3>3. Len(trackers[w][j].chain) \in Nat
      BY <3>2, LenProperties DEF History
    <3> QED  BY <1>1, <1>2, <2>1, <3>3 DEF StartsWith, Own
  <2>2. Matches(w, Sent(c)) = {Bare}
    BY <1>4, <2>1 DEF Matches
  <2> QED  BY <2>2 DEF ResolvesTo
<1> QED  BY <1>3, <1>4

LEMMA AloneForward ==
    ASSUME Typed, NEW c \in Conversations, OnItsOwn(c), Alone(c),
           NEW k \in Keys, NEW f \in Forms, Forward(c, k, f)
    PROVE  OnItsOwn(c)'
<1> DEFINE w == at[c]
<1>1. w \in Workers /\ n[c] \in Nat /\ n[c] >= 1 /\ n[c] <= Len(Script[c])
  BY DEF Forward, Typed, TypeOK
<1>2. UNCHANGED n
  BY DEF Forward
<1>3. Sent(c) \in History /\ Len(Sent(c)) = n[c]
      /\ \A i \in 1..n[c] : Sent(c)[i] = Script[c][i]
  BY <1>1, SentFacts
<1>4. k = Bare
  BY <1>1, AloneIsPrimary DEF Forward, ResolveTracker, OnItsOwn
<1>5. /\ Len(row.fwd) \in Nat /\ Len(row.orig) \in Nat
      /\ row.fwd \in Forwarded /\ row.orig \in Forwarded
      /\ \A v \in Workers : Len(fwd[v]) \in Nat /\ fwd[v] \in Forwarded
      /\ Len(wire[c]) \in Nat /\ wire[c] \in Forwarded
  BY LenProperties DEF Typed, TypeOK, Row, Forwarded
<1>6. \A v \in Workers : Own(c, v)'
  <2>1. ASSUME NEW v \in Workers, NEW j \in DOMAIN trackers'[v]
        PROVE  /\ j = Bare
               /\ Len(trackers'[v][j].chain) <= n'[c]
               /\ \A i \in 1..Len(trackers'[v][j].chain) :
                       trackers'[v][j].chain[i] = Script[c][i]
    <3>1. CASE v = w /\ j = k
      <4>1. trackers'[v][j].chain = Sent(c)
        <5>1. k # Overflow
          BY <1>4, CacheGuardAssumption DEF Bare, Overflow
        <5>2. Known(w, k) \in Tracker
          BY <1>1, KnownType
        <5>3. SetTracker(w, k, [Known(w, k) EXCEPT !.seen = now, !.chain = Sent(c)])
          BY <5>1 DEF Forward, ResolveTracker
        <5> QED  BY <1>1, <3>1, <5>2, <5>3 DEF SetTracker, Typed, TypeOK, Tracker
      <4> QED  BY <1>1, <1>2, <1>3, <1>4, <3>1, <4>1
    <3>2. CASE ~(v = w /\ j = k)
      <4>1. j \in DOMAIN trackers[v] /\ trackers'[v][j] = trackers[v][j]
        BY <1>1, <3>2, <2>1 DEF Forward, ResolveTracker, SetTracker, Typed, TypeOK
      <4> QED  BY <1>2, <4>1 DEF OnItsOwn, Own
    <3> QED  BY <3>1, <3>2
  <2>2. \A v \in Workers : pending'[v] \in {Bare, NoKey, Swept}
    BY <1>1, <1>4 DEF Forward, OnItsOwn, Own, Typed, TypeOK
  <2>3. \A v \in Workers : Len(fwd'[v]) <= n'[c]
    BY <1>1, <1>2, <1>5 DEF Forward, SyncFromDb, SyncedFwd, OnItsOwn, Own, Typed, TypeOK
  <2> QED  BY <2>1, <2>2, <2>3 DEF Own
<1>7. \/ row' = EmptyRow /\ wire'[c] = <<>>
      \/ /\ wire'[c] = wire[c]
         /\ \/ UNCHANGED row
            \/ /\ row'.fwd = IF SyncedFwd(w) # <<>> THEN SyncedFwd(w) ELSE row.fwd
               /\ row'.orig = IF SyncedOrig(w) # <<>> THEN SyncedOrig(w) ELSE row.orig
  <2>1. CASE ColdRecompact(c, w, f)
    BY <2>1 DEF ColdRecompact, Typed, TypeOK
  <2>2. CASE OpenConversation(c, w, f)
    BY <2>2 DEF OpenConversation
  <2>3. CASE ContinueConversation(c, w, k, f)
    BY <2>3 DEF ContinueConversation, FreezeSystem, SyncToDb
  <2> QED  BY <2>1, <2>2, <2>3 DEF Forward
<1>8. Len(row'.fwd) <= n'[c]
  <2>1. Len(EmptyRow.fwd) = 0
    BY DEF EmptyRow
  <2> QED  BY <1>1, <1>2, <1>5, <1>7, <2>1 DEF SyncedFwd, OnItsOwn, Own
<1>9. Len(out'[c]) = n'[c]
  BY <1>2, ForwardFacts
<1>10. Repeatable(c)'
  <2> SUFFICES ASSUME wire'[c] # <<>>
               PROVE  /\ row'.fwd = wire'[c]
                      /\ Len(row'.orig) = Len(wire'[c])
                      /\ \A i \in 1..Len(wire'[c]) : row'.orig[i] = <<Script[c][i], Raw>>
                      /\ \A v \in Workers : Len(fwd'[v]) <= Len(wire'[c])
    BY DEF Repeatable
  <2>1. wire'[c] = wire[c] /\ Repeatable(c) /\ wire[c] # <<>>
    BY <1>7 DEF OnItsOwn
  <2>2. SyncedFwd(w) = wire[c]
    BY <1>1, <1>5, <2>1 DEF Repeatable, SyncedFwd
  <2>3. row.orig # <<>>
    BY <1>5, <2>1, EmptySeq DEF Repeatable, Forwarded
  <2>4. row'.fwd = row.fwd /\ row'.orig = row.orig
    BY <1>7, <2>1, <2>2, <2>3 DEF SyncedOrig, Repeatable
  <2>5. \A v \in Workers : Len(fwd'[v]) <= Len(wire[c])
    BY <1>1, <1>5, <2>1, <2>2 DEF Forward, SyncFromDb, Repeatable, Typed, TypeOK
  <2> QED  BY <2>1, <2>4, <2>5 DEF Repeatable
<1> QED  BY <1>6, <1>8, <1>9, <1>10 DEF OnItsOwn

LEMMA AloneRecord ==
    ASSUME Typed, NEW c \in Conversations, OnItsOwn(c), Alone(c),
           RecordForwardedTurn(c)
    PROVE  OnItsOwn(c)'
<1> DEFINE w == at[c]
<1>1. /\ phase[c] = "sent" /\ w \in Workers
      /\ n[c] \in Nat /\ n[c] >= 1 /\ n[c] <= Len(Script[c])
      /\ UNCHANGED n /\ phase'[c] = "idle"
  BY DEF RecordForwardedTurn, Finish, Typed, TypeOK
<1>2. Sent(c) \in History /\ Len(Sent(c)) = n[c]
      /\ \A i \in 1..n[c] : Sent(c)[i] = Script[c][i]
  BY <1>1, SentFacts
<1>3. /\ AsRaw(Sent(c)) \in Forwarded /\ Len(AsRaw(Sent(c))) = n[c]
      /\ \A i \in 1..n[c] : AsRaw(Sent(c))[i] = <<Script[c][i], Raw>>
  BY <1>2, AsRawFacts
<1>4. Len(out[c]) = n[c] /\ out[c] # <<>> /\ AsRaw(Sent(c)) # <<>>
  BY <1>1, <1>3, EmptySeq DEF OnItsOwn
<1>5. \A v \in Workers : \A j \in DOMAIN trackers'[v] :
        j \in DOMAIN trackers[v] /\ trackers'[v][j].chain = trackers[v][j].chain
  <2>1. CASE pending[w] \in DOMAIN trackers[w]
    <3>1. trackers[w][pending[w]] \in Tracker
      BY <1>1, <2>1 DEF Typed, TypeOK
    <3>2. SetTracker(w, pending[w], [trackers[w][pending[w]] EXCEPT
                                       !.used = TRUE, !.fwd = out[c], !.seen = now])
      BY <2>1 DEF RecordForwardedTurn, UpdateFromResponse
    <3> DEFINE t == [trackers[w][pending[w]] EXCEPT
                        !.used = TRUE, !.fwd = out[c], !.seen = now]
    <3>3. t.chain = trackers[w][pending[w]].chain
      BY <3>1 DEF Tracker
    <3>4. SetTracker(w, pending[w], t)
      BY <3>2
    <3> HIDE DEF t
    <3> QED  BY <1>1, <2>1, <3>3, <3>4 DEF SetTracker, Typed, TypeOK
  <2>2. CASE pending[w] \notin DOMAIN trackers[w]
    BY <2>2 DEF RecordForwardedTurn, UpdateFromResponse
  <2> QED  BY <2>1, <2>2
<1>6. \/ /\ pending[w] # Swept
         /\ fwd' = [fwd EXCEPT ![w] = out[c]]
         /\ row'.fwd = out[c] /\ row'.orig = AsRaw(Sent(c))
         /\ wire'[c] = out[c]
      \/ pending[w] = Swept /\ UNCHANGED <<fwd, row>> /\ wire'[c] = <<>>
  <2>1. NoKey # Swept /\ Bare # Swept
    BY CacheGuardAssumption DEF NoKey, Swept, Bare, Overflow
  <2>2. pending[w] \in {Bare, NoKey, Swept}
    BY <1>1 DEF OnItsOwn, Own
  <2>3. CASE pending[w] = Swept
    <3>1. ~(pending[w] = NoKey \/ IsPrimaryLineage(pending[w]))
      BY <2>1, <2>3 DEF IsPrimaryLineage
    <3> QED  BY <2>3, <3>1 DEF RecordForwardedTurn, RecordShared, Typed, TypeOK
  <2>4. CASE pending[w] \in {Bare, NoKey}
    BY <1>4, <2>1, <2>4
       DEF RecordForwardedTurn, RecordShared, IsPrimaryLineage, SyncToDb, Typed, TypeOK
  <2> QED  BY <2>2, <2>3, <2>4
<1>7. \A v \in Workers : Len(fwd'[v]) <= n[c]
  <2>1. \A v \in Workers : fwd'[v] \in {fwd[v], out[c]}
    BY <1>6 DEF Typed, TypeOK
  <2> QED  BY <1>1, <1>4, <2>1 DEF OnItsOwn, Own
<1>8. \A v \in Workers : Own(c, v)'
  <2>1. \A v \in Workers : pending'[v] \in {Bare, NoKey, Swept}
    BY <1>1 DEF RecordForwardedTurn, OnItsOwn, Own, Typed, TypeOK
  <2> QED  BY <1>1, <1>5, <1>7, <2>1 DEF OnItsOwn, Own
<1>9. Len(row'.fwd) <= n'[c]
  BY <1>1, <1>4, <1>6 DEF OnItsOwn
<1>10. Repeatable(c)'
  BY <1>1, <1>3, <1>4, <1>6, <1>7 DEF Repeatable
<1> QED  BY <1>1, <1>8, <1>9, <1>10 DEF OnItsOwn

LEMMA OnItsOwnStep ==
    ASSUME Typed, NEW c \in Conversations, OnItsOwn(c), [Next]_vars
    PROVE  OnItsOwn(c)'
<1> SUFFICES ASSUME Alone(c)'  PROVE OnItsOwn(c)'
  BY DEF OnItsOwn
<1>0. Alone(c) /\ \A d \in Conversations \ {c} : phase[d] = "idle"
  BY AloneBefore, AloneFacts
<1>1. ASSUME NEW d \in Conversations, NEW w \in Workers, NEW m \in 1..Len(Script[d]),
             Arrive(d, w, m)
      PROVE  OnItsOwn(c)'
  <2>1. d = c /\ m \in Nat \ {0} /\ n[c] \in Nat
    BY <1>1, ScriptSeq DEF Arrive, Alone, Typed, TypeOK
  <2>2. n'[c] \in Nat /\ n'[c] >= n[c] /\ phase'[c] = "queued"
    BY <1>1, <2>1 DEF Arrive, Typed, TypeOK
  <2>3. Len(row.fwd) \in Nat /\ \A v \in Workers : Len(fwd[v]) \in Nat
    BY LenProperties DEF Typed, TypeOK, Row, Forwarded
  <2>4. \A v \in Workers : \A k \in DOMAIN trackers[v] :
            Len(trackers[v][k].chain) \in Nat
    BY LenProperties DEF Typed, TypeOK, Tracker, History
  <2>5. UNCHANGED <<trackers, pending, fwd, row, wire>>
    BY <1>1 DEF Arrive, memory
  <2> QED  BY <1>0, <2>1, <2>2, <2>3, <2>4, <2>5 DEF OnItsOwn, Own, Repeatable
<1>2. ASSUME NEW d \in Conversations, NEW k \in Keys, NEW f \in Forms, Forward(d, k, f)
      PROVE  OnItsOwn(c)'
  <2>1. d = c
    BY <1>0, <1>2 DEF Forward
  <2> QED  BY <1>0, <1>2, <2>1, AloneForward
<1>3. ASSUME NEW d \in Conversations, RecordForwardedTurn(d)  PROVE OnItsOwn(c)'
  <2>1. d = c
    BY <1>0, <1>3 DEF RecordForwardedTurn
  <2> QED  BY <1>0, <1>3, <2>1, AloneRecord
<1>4. ASSUME NEW d \in Conversations, Fail(d)  PROVE OnItsOwn(c)'
  BY <1>0, <1>4 DEF Fail, Finish, memory, OnItsOwn, Own, Repeatable
<1>5. ASSUME NEW w \in Workers, Sweep(w)  PROVE OnItsOwn(c)'
  <2>1. \A v \in Workers : \A k \in DOMAIN trackers'[v] :
            k \in DOMAIN trackers[v] /\ trackers'[v][k] = trackers[v][k]
    BY <1>5 DEF Sweep, Typed, TypeOK
  <2>2. \A v \in Workers : pending'[v] \in {pending[v], Swept}
    BY <1>5 DEF Sweep, Typed, TypeOK
  <2>3. UNCHANGED <<fwd, row, wire, phase, out, n>>
    BY <1>5 DEF Sweep, request
  <2> QED  BY <1>0, <2>1, <2>2, <2>3 DEF OnItsOwn, Own, Repeatable
<1>6. ASSUME NEW w \in Workers, Restart(w)  PROVE OnItsOwn(c)'
  <2>1. /\ \A v \in Workers : /\ \/ trackers'[v] = trackers[v] \/ trackers'[v] = <<>>
                              /\ pending'[v] \in {pending[v], NoKey}
                              /\ fwd'[v] \in {fwd[v], <<>>}
        /\ UNCHANGED <<row, wire, n>>
        /\ phase'[c] = "sent" => phase[c] = "sent" /\ out'[c] = out[c]
    BY <1>6 DEF Restart, Finish, Typed, TypeOK
  <2>2. Len(<<>>) = 0 /\ DOMAIN <<>> = {} /\ n[c] \in Nat /\ Len(wire[c]) \in Nat
    BY LenProperties DEF Typed, TypeOK, Forwarded
  <2> QED  BY <1>0, <2>1, <2>2 DEF OnItsOwn, Own, Repeatable
<1>7. CASE Tick
  BY <1>0, <1>7 DEF Tick, memory, request, OnItsOwn, Own, Repeatable
<1>8. CASE UNCHANGED vars
  BY <1>0, <1>8 DEF vars, memory, request, OnItsOwn, Own, Repeatable
<1> QED  BY <1>1, <1>2, <1>3, <1>4, <1>5, <1>6, <1>7, <1>8 DEF Next

LEMMA OnItsOwnInit == ASSUME Init, NEW c \in Conversations  PROVE OnItsOwn(c)
<1>1. Len(<<>>) = 0 /\ DOMAIN <<>> = {}
  OBVIOUS
<1> QED  BY <1>1 DEF Init, OnItsOwn, Own, Repeatable, EmptyRow

\* A forwarded turn repeats the last one.
LEMMA RepeatStep ==
    ASSUME Typed, NEW c \in Conversations, OnItsOwn(c), Alone(c), ~overdue[c],
           NEW k \in Keys, NEW f \in Forms, Forward(c, k, f)
    PROVE  KeepsPrefix(c)
<1> DEFINE w == at[c]
<1>1. w \in Workers /\ n[c] \in Nat /\ n[c] >= 1 /\ n[c] <= Len(Script[c])
  BY DEF Forward, Typed, TypeOK
<1>2. Len(wire[c]) \in Nat /\ wire[c] \in Forwarded
      /\ row.orig \in Forwarded /\ \A v \in Workers : Len(fwd[v]) \in Nat
  BY LenProperties DEF Typed, TypeOK, Forwarded, Row
<1>3. CASE wire[c] = <<>> \/ n[c] = 1
  <2>1. 1..Least(Len(wire[c]), n[c] - 1) = {}
    BY <1>1, <1>2, <1>3 DEF Least
  <2> QED  BY <2>1 DEF KeepsPrefix
<1>4. CASE wire[c] # <<>> /\ n[c] # 1
  <2>1. ContinueConversation(c, w, k, f) /\ n[c] > 1
    BY <1>1, <1>4 DEF Forward, ColdRecompact, OpenConversation
  <2>2. k = Bare
    BY <1>1, AloneIsPrimary DEF Forward, ResolveTracker, OnItsOwn
  <2>3. Repeatable(c)
    BY DEF OnItsOwn
  <2>4. row.orig # <<>>
    BY <1>2, <1>4, <2>3, EmptySeq DEF Repeatable, Forwarded
  <2>5. PrevForwarded(w, k) = wire[c] /\ PrevOriginal(w, k) = row.orig
    BY <1>1, <1>2, <1>4, <2>2, <2>3, <2>4
       DEF Repeatable, PrevForwarded, PrevOriginal, SyncedFwd, SyncedOrig, IsPrimaryLineage
  <2>6. Sent(c) \in History /\ Len(Sent(c)) = n[c] /\ Sent(c) # <<>>
        /\ \A i \in 1..n[c] : Sent(c)[i] = Script[c][i]
    BY <1>1, SentFacts, EmptySeq DEF History
  <2>7. \A i \in 1..n[c] : AsRaw(Sent(c))[i] = <<Script[c][i], Raw>>
    BY <2>6, AsRawFacts
  <2>8. FrozenPart(c, w, k) = Least(n[c] - 1, Len(wire[c]))
    <3>1. Len(WithFrozenSystem(w, Sent(c))) = n[c]
      BY <1>1, <2>6, SystemFacts
    <3> QED  BY <1>4, <2>5, <3>1 DEF FrozenPart, FrozenCount
  <2>9. ASSUME NEW i \in 1..Least(Len(wire[c]), n[c] - 1)
        PROVE  out'[c][i] = wire[c][i]
    <3>1. i \in 1..n[c] /\ i <= Len(wire[c]) /\ i <= FrozenPart(c, w, k)
      BY <1>1, <1>2, <2>8 DEF Least
    <3>2. Replayed(c, w, k, i)
      <4>1. Len(row.orig) = Len(wire[c])
            /\ \A j \in 1..i : row.orig[j] = <<Script[c][j], Raw>>
        BY <1>2, <1>4, <2>3, <3>1 DEF Repeatable
      <4>2. \A j \in 1..i : AsRaw(Sent(c))[j] = <<Script[c][j], Raw>>
        BY <1>1, <2>7, <3>1
      <4>3. Repeats(AsRaw(Sent(c)), row.orig, wire[c], i)
        BY <1>4, <3>1, <4>1, <4>2 DEF Repeats
      <4> QED  BY <2>5, <4>3 DEF Replayed
    <3>3. out'[c][i] = PrevForwarded(w, k)[i]
      <4>1. \A j \in 1..n[c] :
                j <= FrozenPart(c, w, k) /\ Replayed(c, w, k, j)
                    => out'[c][j] = PrevForwarded(w, k)[j]
        <5> HIDE DEF w
        <5> QED  BY <1>1, <2>1, ContinueFacts
      <4> QED  BY <3>1, <3>2, <4>1
    <3> QED  BY <2>5, <3>3
  <2> QED  BY <2>9 DEF KeepsPrefix
<1> QED  BY <1>3, <1>4

\* Only Forward sends a turn upstream.
LEMMA ForwardsBy ==
    ASSUME Typed, Next, NEW c \in Conversations, Forwards(c)
    PROVE  \E k \in Keys, f \in Forms : Forward(c, k, f)
<1> USE DEF Forwards
<1>1. ASSUME NEW d \in Conversations, NEW w \in Workers, NEW m \in 1..Len(Script[d]),
             Arrive(d, w, m)
      PROVE  FALSE
  BY <1>1 DEF Arrive, Typed, TypeOK
<1>2. ASSUME NEW d \in Conversations, NEW k \in Keys, NEW f \in Forms, Forward(d, k, f)
      PROVE  d = c
  BY <1>2 DEF Forward, Typed, TypeOK
<1>3. ASSUME NEW d \in Conversations, RecordForwardedTurn(d)  PROVE FALSE
  BY <1>3 DEF RecordForwardedTurn, Finish, Typed, TypeOK
<1>4. ASSUME NEW d \in Conversations, Fail(d)  PROVE FALSE
  BY <1>4 DEF Fail, Finish, Typed, TypeOK
<1>5. ASSUME NEW w \in Workers, Sweep(w) \/ Restart(w)  PROVE FALSE
  BY <1>5 DEF Sweep, Restart, Finish, request
<1>6. CASE Tick
  BY <1>6 DEF Tick, request
<1> QED  BY <1>1, <1>2, <1>3, <1>4, <1>5, <1>6 DEF Next

\* A conversation that has the session for itself is forwarded, turn after turn, as
\* an extension of the same bytes - on any workers, across restarts, refused turns
\* and turns that did not wait for one another.
THEOREM PrefixKeptCorrect == Spec => PrefixKept
<1> DEFINE I == Typed /\ \A c \in Conversations : OnItsOwn(c)
           Kept == \A c \in Conversations :
                Forwards(c) /\ ~overdue[c] /\ Alone(c) => KeepsPrefix(c)
<1>1. Init => I
  BY InitTyped, OnItsOwnInit
<1>2. I /\ [Next]_vars => I'
  <2> SUFFICES ASSUME I, [Next]_vars  PROVE I'
    OBVIOUS
  <2>1. \A c \in Conversations : OnItsOwn(c)'
    BY OnItsOwnStep
  <2> QED  BY <2>1, StepTyped
<1>3. I /\ [Next]_vars => [Kept]_vars
  <2> SUFFICES ASSUME I, Next, NEW c \in Conversations, Forwards(c), ~overdue[c], Alone(c)
               PROVE  KeepsPrefix(c)
    OBVIOUS
  <2>1. \E k \in Keys, f \in Forms : Forward(c, k, f)
    BY ForwardsBy
  <2> QED  BY <2>1, RepeatStep
<1> QED  BY <1>1, <1>2, <1>3, PTL DEF Spec, PrefixKept

-----------------------------------------------------------------------------
(* Content                                                                   *)

\* A forwarded message that stands for m.
Genuine(x, m) == x[1] = m \/ m \in SystemMsgs

\* The pair of lists a worker or the row keeps.  The forwarded one may be newer,
\* and is then longer: a replay tells it by its length.
Paired(f, o) ==
    /\ Len(o) <= Len(f)
    /\ f = <<>> <=> o = <<>>
    /\ Len(o) = Len(f) => \A i \in 1..Len(o) : Genuine(f[i], o[i][1])

TrueToChain(t) ==
    t.used => /\ Len(t.fwd) <= Len(t.chain)
              /\ \A i \in 1..Len(t.fwd) : Genuine(t.fwd[i], t.chain[i])

Pairs == Paired(row.fwd, row.orig) /\ \A w \in Workers : Paired(fwd[w], orig[w])

Chains ==
    \A w \in Workers : \A k \in DOMAIN trackers[w] \ {Overflow} :
        TrueToChain(trackers[w][k])

\* The tracker of a turn in flight has the turn's messages for its chain.
ChainSent ==
    \A c \in Conversations :
        phase[c] = "sent" /\ pending[at[c]] \in DOMAIN trackers[at[c]] \ {Overflow}
            => trackers[at[c]][pending[at[c]]].chain = Sent(c)

Contents == RightContent /\ Pairs /\ Chains /\ ChainSent

LEMMA ContentsInit == Init => Contents
<1> SUFFICES ASSUME Init  PROVE Contents
  OBVIOUS
<1>1. Len(<<>>) = 0 /\ DOMAIN <<>> = {}
  OBVIOUS
<1>2. Paired(<<>>, <<>>)
  BY <1>1 DEF Paired
<1> QED  BY <1>1, <1>2 DEF Init, Contents, RightContent, Pairs, Chains, ChainSent, EmptyRow

\* Whatever a worker takes from memory and from the row is a pair again: a list
\* from memory is taken beside the row's only if it is longer.
LEMMA SyncedPaired ==
    ASSUME Typed, Pairs, NEW w \in Workers
    PROVE  Paired(SyncedFwd(w), SyncedOrig(w))
<1>1. /\ row.fwd \in Forwarded /\ row.orig \in Forwarded
      /\ fwd[w] \in Forwarded /\ orig[w] \in Forwarded
  BY DEF Typed, TypeOK, Row
<1>2. /\ Len(row.fwd) \in Nat /\ Len(row.orig) \in Nat
      /\ Len(fwd[w]) \in Nat /\ Len(orig[w]) \in Nat
  BY <1>1, LenProperties DEF Forwarded
<1>3. CASE row.fwd = <<>>
  BY <1>3 DEF Pairs, Paired, SyncedFwd, SyncedOrig
<1>4. CASE row.fwd # <<>> /\ Len(row.fwd) >= Len(fwd[w])
  BY <1>4 DEF Pairs, Paired, SyncedFwd, SyncedOrig
<1>5. CASE row.fwd # <<>> /\ ~(Len(row.fwd) >= Len(fwd[w]))
  <2>1. SyncedFwd(w) = fwd[w] /\ SyncedOrig(w) = row.orig /\ row.orig # <<>>
    BY <1>5 DEF Pairs, Paired, SyncedFwd, SyncedOrig
  <2>2. Len(row.orig) < Len(fwd[w])
    BY <1>2, <1>5 DEF Pairs, Paired
  <2>3. fwd[w] # <<>>
    BY <1>2, <2>2
  <2> QED  BY <1>2, <2>1, <2>2, <2>3 DEF Paired
<1> QED  BY <1>3, <1>4, <1>5

\* A lineage that is found again is continued.
LEMMA ResolveKnown ==
    ASSUME Typed, NEW w \in Workers, NEW h, NEW k \in DOMAIN trackers[w] \ {Overflow},
           ResolvesTo(w, h, k)
    PROVE  StartsWith(h, trackers[w][k].chain)
BY CacheGuardAssumption DEF ResolvesTo, Matches, Family, Bare, Overflow

\* Overlay's comparison, the lengths of the lists and the lineage's chain make a
\* replayed message genuine.
LEMMA ReplayGenuine ==
    ASSUME Typed, Pairs, Chains, NEW c \in Conversations, NEW w \in Workers,
           NEW k \in Keys, k # Overflow, ResolvesTo(w, Sent(c), k),
           NEW i \in 1..n[c], Replayed(c, w, k, i)
    PROVE  Genuine(PrevForwarded(w, k)[i], Script[c][i])
<1>1. /\ Sent(c) \in History /\ Len(Sent(c)) = n[c] /\ n[c] \in Nat
      /\ \A j \in 1..n[c] : Sent(c)[j] = Script[c][j]
  BY SentFacts DEF Typed, TypeOK
<1>2. AsRaw(Sent(c))[i] = <<Script[c][i], Raw>>
  BY <1>1, AsRawFacts
<1>3. CASE Known(w, k).used /\ ~IsPrimaryLineage(k)
  <2>1. k \in DOMAIN trackers[w] /\ Known(w, k) = trackers[w][k]
    BY <1>3 DEF Known, NewTracker
  <2>2. StartsWith(Sent(c), trackers[w][k].chain) /\ TrueToChain(trackers[w][k])
    BY <2>1, ResolveKnown DEF Chains
  <2>3. trackers[w][k] \in Tracker
    BY <2>1 DEF Typed, TypeOK
  <2>4. Len(trackers[w][k].fwd) \in Nat /\ Len(trackers[w][k].chain) \in Nat
    BY <2>3, LenProperties DEF Tracker, History, Forwarded
  <2>5. PrevForwarded(w, k) = trackers[w][k].fwd /\ i <= Len(trackers[w][k].fwd)
    BY <1>3, <2>1 DEF PrevForwarded, Replayed, Repeats
  <2>6. Genuine(trackers[w][k].fwd[i], trackers[w][k].chain[i])
    BY <1>1, <1>3, <2>1, <2>2, <2>4, <2>5 DEF TrueToChain
  <2>7. trackers[w][k].chain[i] = Script[c][i]
    BY <1>1, <1>3, <2>1, <2>2, <2>4, <2>5 DEF TrueToChain, StartsWith
  <2> QED  BY <2>5, <2>6, <2>7
<1>4. CASE ~(Known(w, k).used /\ ~IsPrimaryLineage(k))
  <2>1. PrevForwarded(w, k) = SyncedFwd(w) /\ Paired(SyncedFwd(w), SyncedOrig(w))
    BY <1>4, SyncedPaired DEF PrevForwarded
  <2>2. SyncedOrig(w) # <<>> /\ PrevOriginal(w, k) = SyncedOrig(w)
    BY <2>1 DEF Replayed, Repeats, Paired, PrevOriginal
  <2>3. /\ Len(SyncedFwd(w)) = Len(SyncedOrig(w)) /\ i <= Len(SyncedOrig(w))
        /\ \A j \in 1..i : AsRaw(Sent(c))[j] = SyncedOrig(w)[j]
    BY <2>1, <2>2 DEF Replayed, Repeats
  <2>4. Len(SyncedOrig(w)) \in Nat
    BY SyncedType, LenProperties DEF Forwarded
  <2>5. i \in 1..Len(SyncedOrig(w)) /\ i \in 1..i
    BY <1>1, <2>3, <2>4
  <2>6. Genuine(SyncedFwd(w)[i], SyncedOrig(w)[i][1])
    BY <2>1, <2>3, <2>5 DEF Paired
  <2>7. SyncedOrig(w)[i][1] = Script[c][i]
    BY <1>2, <2>3, <2>5
  <2> QED  BY <2>1, <2>6, <2>7
<1> QED  BY <1>3, <1>4

\* A turn is sent with the content its client gave it.
LEMMA ForwardGenuine ==
    ASSUME Typed, Pairs, Chains, NEW c \in Conversations, NEW k \in Keys, NEW f \in Forms,
           Forward(c, k, f), k # Overflow, NEW i \in 1..n[c]
    PROVE  Genuine(out'[c][i], Script[c][i])
<1> DEFINE w == at[c]
<1>1. w \in Workers /\ n[c] \in Nat /\ n[c] >= 1 /\ n[c] <= Len(Script[c])
      /\ ResolvesTo(w, Sent(c), k)
  BY DEF Forward, ResolveTracker, Typed, TypeOK
<1>2. /\ Sent(c) \in History /\ Len(Sent(c)) = n[c]
      /\ \A j \in 1..n[c] : Sent(c)[j] = Script[c][j]
  BY <1>1, SentFacts
<1>3. CASE out' = [out EXCEPT ![c] = Compressed(Sent(c), f)]
  <2>1. Compressed(Sent(c), f)[i][1] = Script[c][i]
    BY <1>2, CompressedFacts
  <2> QED  BY <1>3, <2>1 DEF Genuine, Typed, TypeOK
<1>4. CASE ContinueConversation(c, w, k, f)
  <2>1. n[c] > 1
    BY <1>4 DEF ContinueConversation
  <2>2. IF i <= FrozenPart(c, w, k) /\ Replayed(c, w, k, i)
        THEN out'[c][i] = PrevForwarded(w, k)[i]
        ELSE out'[c][i][1] = Script[c][i] \/ Script[c][i] \in SystemMsgs
    <3> HIDE DEF w
    <3> QED  BY <1>1, <1>4, <2>1, ContinueFacts
  <2>3. Replayed(c, w, k, i) => Genuine(PrevForwarded(w, k)[i], Script[c][i])
    BY <1>1, ReplayGenuine
  <2> QED  BY <2>2, <2>3 DEF Genuine
<1> QED  BY <1>3, <1>4 DEF Forward, ColdRecompact, OpenConversation

LEMMA ForwardContents ==
    ASSUME MaxTimeouts = 0, Typed, OneTurn, Contents,
           NEW c \in Conversations, NEW k \in Keys, NEW f \in Forms, Forward(c, k, f)
    PROVE  Contents'
<1> DEFINE w == at[c]
<1>1. w \in Workers /\ n[c] \in Nat /\ n[c] >= 1 /\ n[c] <= Len(Script[c])
      /\ UNCHANGED <<n, at>> /\ ResolvesTo(w, Sent(c), k)
  BY DEF Forward, ResolveTracker, Typed, TypeOK
<1>2. \A d \in Conversations \ {c} :
        phase'[d] = phase[d] /\ out'[d] = out[d] /\ lineage'[d] = lineage[d]
  BY DEF Forward, ColdRecompact, OpenConversation, ContinueConversation, Typed, TypeOK
<1>3. \A d \in Conversations \ {c} : phase[d] = "sent" => at[d] # w
  BY DEF Forward, Enter, InFlight, Typed, TypeOK
<1>4. lineage'[c] = k
  BY DEF Forward, Typed, TypeOK
<1>5. RightContent'
  <2>1. Len(out'[c]) = n[c]
    BY ForwardFacts
  <2>2. k # Overflow => \A i \in 1..n[c] : Genuine(out'[c][i], Script[c][i])
    BY ForwardGenuine DEF Contents
  <2> QED  BY <1>1, <1>2, <1>4, <2>1, <2>2 DEF RightContent, Contents, Genuine
<1>6. Pairs'
  <2>1. Paired(SyncedFwd(w), SyncedOrig(w))
    BY <1>1, SyncedPaired DEF Contents
  <2>2. \A v \in Workers : Paired(fwd'[v], orig'[v])
    BY <1>1, <2>1 DEF Forward, SyncFromDb, Contents, Pairs, Typed, TypeOK
  <2>3. Paired(row'.fwd, row'.orig)
    <3>1. CASE ColdRecompact(c, w, f)
      <4>1. Paired(<<>>, <<>>)
        BY DEF Paired
      <4> QED  BY <3>1, <4>1 DEF ColdRecompact, EmptyRow
    <3>2. CASE UNCHANGED row
      BY <3>2 DEF Contents, Pairs
    <3>3. ASSUME NEW m, SyncToDb(SyncedFwd(w), SyncedOrig(w), m)
          PROVE  Paired(row'.fwd, row'.orig)
      BY <2>1, <3>3 DEF SyncToDb, Paired, Contents, Pairs
    <3> QED  BY <3>1, <3>2, <3>3
             DEF Forward, OpenConversation, ContinueConversation, FreezeSystem
  <2> QED  BY <2>2, <2>3 DEF Pairs
<1> DEFINE t == [Known(w, k) EXCEPT !.seen = now,
                                    !.chain = IF k = Overflow THEN <<>> ELSE Sent(c)]
<1>7. /\ \A v \in Workers : \A j \in DOMAIN trackers'[v] :
            \/ v = w /\ j = k /\ trackers'[v][j] = t
            \/ j \in DOMAIN trackers[v] /\ trackers'[v][j] = trackers[v][j]
      /\ \A v \in Workers \ {w} : trackers'[v] = trackers[v] /\ pending'[v] = pending[v]
      /\ k \in DOMAIN trackers'[w] /\ trackers'[w][k] = t /\ pending'[w] = k
  <2>1. SetTracker(w, k, t)
    BY DEF Forward, ResolveTracker
  <2> HIDE DEF t
  <2> QED  BY <1>1, <2>1 DEF Forward, SetTracker, Typed, TypeOK
<1>8. /\ t.used = Known(w, k).used /\ t.fwd = Known(w, k).fwd
      /\ k # Overflow => t.chain = Sent(c)
  BY <1>1, KnownType DEF Tracker
<1>9. Sent(c) = Sent(c)' /\ \A d \in Conversations \ {c} : Sent(d)' = Sent(d)
  BY <1>1 DEF Sent
<1>10. k # Overflow => TrueToChain(t)
  <2> SUFFICES ASSUME k # Overflow, Known(w, k).used  PROVE TrueToChain(t)
    BY <1>8 DEF TrueToChain
  <2>1. k \in DOMAIN trackers[w] /\ Known(w, k) = trackers[w][k]
    BY DEF Known, NewTracker
  <2>2. StartsWith(Sent(c), trackers[w][k].chain) /\ TrueToChain(trackers[w][k])
    BY <1>1, <2>1, ResolveKnown DEF Contents, Chains
  <2>3. trackers[w][k] \in Tracker
    BY <1>1, <2>1 DEF Typed, TypeOK
  <2>4. Len(trackers[w][k].fwd) \in Nat /\ Len(trackers[w][k].chain) \in Nat
        /\ Len(Sent(c)) \in Nat
    BY <1>1, <2>3, SentFacts, LenProperties DEF Tracker, History, Forwarded
  <2> HIDE DEF t, w
  <2> QED  BY <1>8, <2>1, <2>2, <2>4 DEF TrueToChain, StartsWith
<1>11. Chains'
  <2> HIDE DEF t, w
  <2> QED  BY <1>7, <1>10 DEF Chains, Contents
<1>12. ChainSent'
  <2> HIDE DEF t
  <2>1. ASSUME NEW d \in Conversations, phase'[d] = "sent",
               pending'[at'[d]] \in DOMAIN trackers'[at'[d]] \ {Overflow}
        PROVE  trackers'[at'[d]][pending'[at'[d]]].chain = Sent(d)'
    <3>1. CASE d = c
      BY <1>1, <1>7, <1>8, <1>9, <2>1, <3>1
    <3>2. CASE d # c
      <4>1. phase[d] = "sent" /\ at[d] \in Workers \ {w}
        BY <1>2, <1>3, <2>1, <3>2 DEF Typed
      <4> QED  BY <1>1, <1>7, <1>9, <2>1, <3>2, <4>1 DEF Contents, ChainSent
    <3> QED  BY <3>1, <3>2
  <2> QED  BY <2>1 DEF ChainSent
<1> QED  BY <1>5, <1>6, <1>11, <1>12 DEF Contents

LEMMA RecordContents ==
    ASSUME Typed, OneTurn, Contents, NEW c \in Conversations, RecordForwardedTurn(c)
    PROVE  Contents'
<1> DEFINE w == at[c]
           k == pending[w]
           t == [trackers[w][k] EXCEPT !.used = TRUE, !.fwd = out[c], !.seen = now]
<1>1. /\ phase[c] = "sent" /\ w \in Workers /\ UNCHANGED n
      /\ n[c] \in Nat /\ n[c] >= 1 /\ n[c] <= Len(Script[c])
  BY DEF RecordForwardedTurn, Finish, Typed, TypeOK
<1>2. /\ phase'[c] = "idle"
      /\ \A d \in Conversations \ {c} :
            /\ phase'[d] = phase[d] /\ out'[d] = out[d]
            /\ at'[d] = at[d] /\ lineage'[d] = lineage[d]
  BY DEF RecordForwardedTurn, Finish
<1>3. \A d \in Conversations \ {c} : phase[d] = "sent" => at[d] # w
  BY <1>1 DEF OneTurn
<1>4. k \in {lineage[c], Swept} /\ lineage[c] \in Keys
  BY <1>1 DEF OneTurn
<1>5. /\ Sent(c) \in History /\ Len(Sent(c)) = n[c]
      /\ \A i \in 1..n[c] : Sent(c)[i] = Script[c][i]
  BY <1>1, SentFacts
<1>6. /\ Len(AsRaw(Sent(c))) = n[c]
      /\ \A i \in 1..n[c] : AsRaw(Sent(c))[i] = <<Script[c][i], Raw>>
  BY <1>5, AsRawFacts
<1>7. /\ Len(out[c]) = n[c]
      /\ lineage[c] # Overflow => \A i \in 1..n[c] : Genuine(out[c][i], Script[c][i])
  BY <1>1 DEF Contents, RightContent, Genuine
<1>8. RightContent'
  BY <1>1, <1>2 DEF Contents, RightContent
<1>9. Pairs'
  <2>1. CASE k = NoKey \/ IsPrimaryLineage(k)
    <3>1. lineage[c] # Overflow
      BY <1>4, <2>1, CacheGuardAssumption
         DEF IsPrimaryLineage, Bare, Overflow, NoKey, Swept, Keys
    <3>2. out[c] # <<>> /\ AsRaw(Sent(c)) # <<>>
      BY <1>1, <1>6, <1>7
    <3>3. Paired(out[c], AsRaw(Sent(c)))
      <4>1. \A i \in 1..n[c] : Genuine(out[c][i], AsRaw(Sent(c))[i][1])
        BY <1>6, <1>7, <3>1
      <4> QED  BY <1>1, <1>6, <1>7, <3>2, <4>1 DEF Paired
    <3>4. /\ fwd' = [fwd EXCEPT ![w] = out[c]]
          /\ orig' = [orig EXCEPT ![w] = AsRaw(Sent(c))]
          /\ row'.fwd = out[c] /\ row'.orig = AsRaw(Sent(c))
      BY <2>1, <3>2 DEF RecordForwardedTurn, RecordShared, SyncToDb
    <3> HIDE DEF w
    <3> QED  BY <3>3, <3>4 DEF Contents, Pairs, Typed, TypeOK
  <2>2. CASE ~(k = NoKey \/ IsPrimaryLineage(k))
    BY <2>2 DEF RecordForwardedTurn, RecordShared, Contents, Pairs
  <2> QED  BY <2>1, <2>2
<1>10. \A v \in Workers : \A j \in DOMAIN trackers'[v] :
        /\ j \in DOMAIN trackers[v]
        /\ \/ v = w /\ j = k /\ trackers'[v][j] = t
           \/ (v # w \/ j # k) /\ trackers'[v][j] = trackers[v][j]
  <2>1. CASE k \in DOMAIN trackers[w]
    <3>1. SetTracker(w, k, t)
      BY <2>1 DEF RecordForwardedTurn, UpdateFromResponse
    <3> HIDE DEF t, k, w
    <3> QED  BY <1>1, <2>1, <3>1 DEF SetTracker, Typed, TypeOK
  <2>2. CASE k \notin DOMAIN trackers[w]
    BY <2>2 DEF RecordForwardedTurn, UpdateFromResponse
  <2> QED  BY <2>1, <2>2
<1>11. \A v \in Workers \ {w} : trackers'[v] = trackers[v] /\ pending'[v] = pending[v]
  BY DEF RecordForwardedTurn, UpdateFromResponse, SetTracker, Typed, TypeOK
<1>12. k \in DOMAIN trackers[w] \ {Overflow} => TrueToChain(t)
  <2> SUFFICES ASSUME k \in DOMAIN trackers[w], k # Overflow  PROVE TrueToChain(t)
    OBVIOUS
  <2>1. trackers[w][k] \in Tracker /\ k \in Keys
    BY <1>1 DEF Typed, TypeOK
  <2>2. t.fwd = out[c] /\ t.chain = trackers[w][k].chain
    BY <2>1 DEF Tracker
  <2>3. trackers[w][k].chain = Sent(c)
    BY <1>1 DEF Contents, ChainSent
  <2>4. lineage[c] # Overflow
    BY <1>4, <2>1, CacheGuardAssumption DEF Keys, Overflow, NoKey, Swept
  <2> HIDE DEF t, k, w
  <2> QED  BY <1>1, <1>5, <1>7, <2>2, <2>3, <2>4 DEF TrueToChain
<1>13. Chains'
  <2> HIDE DEF t, k, w
  <2> QED  BY <1>10, <1>12 DEF Contents, Chains
<1>14. ChainSent'
  <2>1. ASSUME NEW d \in Conversations, phase'[d] = "sent",
               pending'[at'[d]] \in DOMAIN trackers'[at'[d]] \ {Overflow}
        PROVE  trackers'[at'[d]][pending'[at'[d]]].chain = Sent(d)'
    <3>1. d # c /\ phase[d] = "sent" /\ at'[d] = at[d] /\ at[d] \in Workers \ {w}
      BY <1>2, <1>3, <2>1 DEF Typed
    <3>2. Sent(d)' = Sent(d)
      BY <1>1 DEF Sent
    <3> QED  BY <1>11, <2>1, <3>1, <3>2 DEF Contents, ChainSent
  <2> QED  BY <2>1 DEF ChainSent
<1> QED  BY <1>8, <1>9, <1>13, <1>14 DEF Contents

LEMMA ContentsStep ==
    ASSUME MaxTimeouts = 0, Typed, OneTurn, Contents, [Next]_vars
    PROVE  Contents'
<1> USE DEF Contents
<1>1. ASSUME NEW c \in Conversations, NEW w \in Workers, NEW m \in 1..Len(Script[c]),
             Arrive(c, w, m)
      PROVE  Contents'
  <2>1. /\ UNCHANGED <<fwd, orig, row, trackers, pending, out, lineage>>
        /\ phase'[c] = "queued"
        /\ \A d \in Conversations \ {c} :
                phase'[d] = phase[d] /\ at'[d] = at[d] /\ n'[d] = n[d]
    BY <1>1 DEF Arrive, memory, Typed, TypeOK
  <2>2. \A d \in Conversations \ {c} : Sent(d)' = Sent(d)
    BY <2>1 DEF Sent
  <2>3. RightContent'
    BY <2>1 DEF RightContent
  <2>4. ChainSent'
    BY <2>1, <2>2 DEF ChainSent
  <2> QED  BY <2>1, <2>3, <2>4 DEF Pairs, Chains
<1>2. ASSUME NEW c \in Conversations, NEW k \in Keys, NEW f \in Forms, Forward(c, k, f)
      PROVE  Contents'
  BY <1>2, ForwardContents
<1>3. ASSUME NEW c \in Conversations, RecordForwardedTurn(c)  PROVE Contents'
  BY <1>3, RecordContents
<1>f. ASSUME NEW cs, Finish(cs)
      PROVE  /\ RightContent'
             /\ \A d \in Conversations : phase'[d] = "sent" =>
                    phase[d] = "sent" /\ d \notin cs /\ at'[d] = at[d] /\ Sent(d)' = Sent(d)
  BY <1>f DEF Finish, RightContent, Sent
<1>4. ASSUME NEW c \in Conversations, Fail(c)  PROVE Contents'
  BY <1>4, <1>f DEF Fail, memory, Pairs, Chains, ChainSent
<1>5. ASSUME NEW w \in Workers, Sweep(w)  PROVE Contents'
  <2>1. /\ \A v \in Workers : \A k \in DOMAIN trackers'[v] :
                k \in DOMAIN trackers[v] /\ trackers'[v][k] = trackers[v][k]
        /\ \A v \in Workers : pending'[v] \in {pending[v], Swept}
        /\ UNCHANGED <<fwd, orig, row, phase, at, n, out, lineage>>
    BY <1>5 DEF Sweep, request, Typed, TypeOK
  <2>2. \A v \in Workers : Swept \notin DOMAIN trackers[v]
    BY CacheGuardAssumption DEF Typed, TypeOK, Keys, Overflow, NoKey, Swept
  <2>3. \A d \in Conversations : Sent(d)' = Sent(d)
    BY <2>1 DEF Sent
  <2>4. RightContent' /\ Pairs' /\ Chains'
    BY <2>1 DEF RightContent, Pairs, Chains
  <2>5. ChainSent'
    <3>1. \A d \in Conversations : phase[d] = "sent" => at[d] \in Workers
      BY DEF Typed
    <3> QED  BY <2>1, <2>2, <2>3, <3>1 DEF ChainSent
  <2> QED  BY <2>4, <2>5
<1>6. ASSUME NEW w \in Workers, Restart(w)  PROVE Contents'
  <2> DEFINE gone == {c \in Conversations : at[c] = w}
  <2>1. /\ \A v \in Workers \ {w} : /\ fwd'[v] = fwd[v] /\ orig'[v] = orig[v]
                                    /\ trackers'[v] = trackers[v]
                                    /\ pending'[v] = pending[v]
        /\ fwd'[w] = <<>> /\ orig'[w] = <<>> /\ trackers'[w] = <<>>
        /\ UNCHANGED row
    BY <1>6 DEF Restart, Typed, TypeOK
  <2>2. Finish(gone)
    BY <1>6 DEF Restart
  <2>3. RightContent'
    BY <1>f, <2>2
  <2>4. Pairs' /\ Chains'
    <3>1. Paired(<<>>, <<>>) /\ DOMAIN <<>> = {}
      BY DEF Paired
    <3> QED  BY <2>1, <3>1 DEF Pairs, Chains
  <2>5. ChainSent'
    <3>1. ASSUME NEW d \in Conversations, phase'[d] = "sent"
          PROVE  /\ phase[d] = "sent" /\ at'[d] = at[d] /\ Sent(d)' = Sent(d)
                 /\ at[d] \in Workers \ {w}
      BY <1>f, <2>2, <3>1 DEF Typed
    <3> QED  BY <2>1, <3>1 DEF ChainSent
  <2> QED  BY <2>3, <2>4, <2>5
<1>7. CASE Tick \/ UNCHANGED vars
  <2>1. UNCHANGED <<memory, row, request>>
    BY <1>7 DEF Tick, vars
  <2> QED  BY <2>1 DEF memory, request, RightContent, Pairs, Chains, ChainSent, Sent
<1> QED  BY <1>1, <1>2, <1>3, <1>4, <1>5, <1>6, <1>7 DEF Next

\* Where a worker runs one turn of the session at a time, a message is never
\* forwarded as another one, whatever the conversations share, the workers
\* remember and the sweeps forget.
THEOREM RightContentCorrect ==
    ASSUME MaxTimeouts = 0
    PROVE  Spec => []RightContent
<1>1. Init => Typed /\ OneTurn /\ Contents
  BY InitTyped, ContentsInit DEF Init, OneTurn
<1>2. Typed /\ OneTurn /\ Contents /\ [Next]_vars => (Typed /\ OneTurn /\ Contents)'
  BY StepTyped, OneTurnStep, ContentsStep
<1>3. Contents => RightContent
  BY DEF Contents
<1> QED  BY <1>1, <1>2, <1>3, PTL DEF Spec
=============================================================================
