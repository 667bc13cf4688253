----------------------- MODULE FingerprintStoreProofs -----------------------
(* Theorems about FingerprintStore, for every number of workers and threads,  *)
(* every set of contents and every limit.                                     *)
EXTENDS FingerprintStore, SequenceTheorems, FiniteSetTheorems, WellFoundedInduction, TLAPS

-----------------------------------------------------------------------------
(* Queues                                                                    *)

LEMMA QueueFacts ==
    ASSUME NEW S, NEW s \in Seq(S)
    PROVE  /\ Len(s) \in Nat /\ DOMAIN s = 1..Len(s)
           /\ \A j \in 1..Len(s) : s[j] \in S
           /\ Elements(s) = {s[j] : j \in 1..Len(s)} /\ Elements(s) \subseteq S
BY LenProperties, ElementOfSeq DEF Elements

\* What list.remove takes out is there.
LEMMA FirstOccurrence ==
    ASSUME NEW S, NEW s \in Seq(S), NEW i \in Elements(s)
    PROVE  \E j \in DOMAIN s : s[j] = i /\ \A l \in 1..(j - 1) : s[l] # i
<1> DEFINE Less == {ss \in Nat \X Nat : ss[1] < ss[2]}
           Here == {j \in 1..Len(s) : s[j] = i}
<1>1. IsWellFoundedOn(Less, Nat)
  BY NatLessThanWellFounded, Zenon DEF OpToRel
<1>2. Len(s) \in Nat /\ DOMAIN s = 1..Len(s)
  BY QueueFacts
<1>3. Here \subseteq Nat /\ Here # {}
  BY QueueFacts
<1>4. PICK j \in Here : \A l \in Here : <<l, j>> \notin Less
  <2> HIDE DEF Less, Here
  <2> QED  BY <1>1, <1>3, WFMin
<1>5. \A l \in 1..(j - 1) : l \in 1..Len(s) /\ l < j /\ l \in Nat /\ j \in Nat
  BY <1>2
<1>6. \A l \in 1..(j - 1) : <<l, j>> \in Less
  BY <1>5
<1>7. \A l \in 1..(j - 1) : l \notin Here
  <2> HIDE DEF Less, Here
  <2> QED  BY <1>4, <1>6
<1> QED  BY <1>2, <1>5, <1>7

LEMMA RemovedFacts ==
    ASSUME NEW S, NEW s \in Seq(S), NEW i \in Elements(s)
    PROVE  Removed(s, i) \in Seq(S) /\ Elements(s) \ {i} \subseteq Elements(Removed(s, i))
<1> DEFINE k == CHOOSE j \in DOMAIN s : s[j] = i /\ \A l \in 1..(j - 1) : s[l] # i
           n == Len(s)
           less == [j \in 1..(n - 1) |-> IF j < k THEN s[j] ELSE s[j + 1]]
<1>1. k \in DOMAIN s /\ s[k] = i
  <2>1. \E j \in DOMAIN s : s[j] = i /\ \A l \in 1..(j - 1) : s[l] # i
    BY FirstOccurrence
  <2> QED  BY <2>1
<1>2. n \in Nat /\ DOMAIN s = 1..n /\ \A j \in 1..n : s[j] \in S
  BY QueueFacts
<1>3. Removed(s, i) = less
  BY DEF Removed
<1> HIDE DEF k, n
<1>4. less \in [1..(n - 1) -> S] /\ n - 1 \in Nat
  BY <1>1, <1>2
<1>5. less \in Seq(S)
  BY <1>4
<1>6. ASSUME NEW e \in Elements(s), e # i
      PROVE  \E j \in 1..(n - 1) : less[j] = e
  <2>1. PICK j \in 1..n : s[j] = e
    BY <1>2, <1>6 DEF Elements
  <2>2. CASE j < k
    <3>1. j \in 1..(n - 1) /\ less[j] = s[j]
      BY <1>1, <1>2, <2>2
    <3> QED  BY <2>1, <3>1
  <2>3. CASE j > k
    <3>1. j - 1 \in 1..(n - 1) /\ ~(j - 1 < k) /\ j - 1 + 1 = j
      BY <1>1, <1>2, <2>3
    <3>2. less[j - 1] = s[j]
      BY <3>1
    <3> QED  BY <2>1, <3>1, <3>2
  <2>4. j # k
    BY <1>1, <1>6, <2>1
  <2> QED  BY <1>1, <1>2, <2>2, <2>3, <2>4
<1>7. DOMAIN less = 1..(n - 1)
  OBVIOUS
<1> HIDE DEF less
<1> QED  BY <1>3, <1>5, <1>6, <1>7 DEF Elements

LEMMA AppendElements ==
    ASSUME NEW S, NEW s \in Seq(S), NEW i \in S
    PROVE  Append(s, i) \in Seq(S) /\ Elements(s) \cup {i} \subseteq Elements(Append(s, i))
<1> DEFINE more == Append(s, i)
<1>1. /\ more \in Seq(S) /\ Len(more) = Len(s) + 1
      /\ \A j \in 1..Len(s) : more[j] = s[j]
      /\ more[Len(s) + 1] = i
  BY AppendProperties
<1>2. Len(s) \in Nat /\ Elements(s) = {s[j] : j \in 1..Len(s)}
  BY QueueFacts
<1>3. Elements(more) = {more[j] : j \in 1..Len(more)}
  BY <1>1, QueueFacts
<1> HIDE DEF more
<1>4. \A j \in 1..Len(s) : j \in 1..Len(more)
  BY <1>1, <1>2
<1>5. Len(s) + 1 \in 1..Len(more)
  BY <1>1, <1>2
<1> QED  BY <1>1, <1>2, <1>3, <1>4, <1>5 DEF more

LEMMA TailElements ==
    ASSUME NEW S, NEW s \in Seq(S), s # <<>>
    PROVE  /\ Tail(s) \in Seq(S) /\ Head(s) \in S
           /\ Elements(s) \ {Head(s)} \subseteq Elements(Tail(s))
<1>1. /\ Len(s) \in Nat \ {0} /\ Tail(s) \in Seq(S) /\ Len(Tail(s)) = Len(s) - 1
      /\ \A j \in 1..Len(Tail(s)) : Tail(s)[j] = s[j + 1]
      /\ Head(s) = s[1] /\ Head(s) \in S
  BY EmptySeq, HeadTailProperties
<1>2. /\ Elements(s) = {s[j] : j \in 1..Len(s)}
      /\ Elements(Tail(s)) = {Tail(s)[j] : j \in 1..Len(Tail(s))}
  <2>1. Elements(s) = {s[j] : j \in 1..Len(s)}
    BY QueueFacts
  <2>2. Tail(s) \in Seq(S)
    BY <1>1
  <2> HIDE DEF Elements
  <2>3. Elements(Tail(s)) = {Tail(s)[j] : j \in 1..Len(Tail(s))}
    BY <2>2, QueueFacts
  <2> QED  BY <2>1, <2>3
<1>3. ASSUME NEW j \in 1..Len(s), s[j] # Head(s)
      PROVE  s[j] \in Elements(Tail(s))
  <2>1. j - 1 \in 1..Len(Tail(s)) /\ j - 1 + 1 = j
    BY <1>1, <1>3
  <2>2. Tail(s)[j - 1] = s[j]
    BY <1>1, <2>1
  <2> QED  BY <1>2, <2>1, <2>2
<1> QED  BY <1>1, <1>2, <1>3, Zenon

LEMMA TouchedFacts ==
    ASSUME NEW S, NEW s \in Seq(S), NEW i \in S
    PROVE  Touched(s, i) \in Seq(S)
BY RemovedFacts, AppendElements DEF Touched

LEMMA RecentFacts ==
    ASSUME NEW S, NEW s \in Seq(S), NEW k \in Nat
    PROVE  Recent(s, k) \in Seq(S)
<1>1. CASE Len(s) <= k
  BY <1>1 DEF Recent
<1>2. CASE ~(Len(s) <= k)
  <2>1. Len(s) \in Nat /\ Len(s) - k + 1 \in 1..(Len(s) + 1) /\ Len(s) \in (Len(s) - k + 1 - 1)..Len(s)
    BY <1>2, LenProperties
  <2>2. SubSeq(s, Len(s) - k + 1, Len(s)) \in Seq(S)
    BY <2>1, SubSeqProperties
  <2> QED  BY <1>2, <2>2 DEF Recent
<1> QED  BY <1>1, <1>2

\* s holds the elements of rs at the places ps, each of them once.
Selects(s, rs, ps) ==
    \E n \in Nat : \E at \in [1..n -> ps] :
        /\ Len(s) = n
        /\ \A k \in 1..n : s[k] = rs[at[k]]
        /\ \A k, l \in 1..n : at[k] = at[l] => k = l
        /\ \A a \in ps : \E k \in 1..n : at[k] = a

\* A selection takes each of its places once: rank is one to one, so that every number
\* up to the number of places is the rank of one of them.
LEMMA SelectedFacts ==
    ASSUME NEW S, NEW rs \in Seq(S), NEW ps, ps \subseteq 1..Len(rs)
    PROVE  /\ Selected(rs, ps) \in Seq(S)
           /\ Selects(Selected(rs, ps), rs, ps)
<1> DEFINE n == Cardinality(ps)
           upTo(a) == {b \in ps : b <= a}
           rank == [a \in ps |-> Cardinality(upTo(a))]
           at == [k \in 1..n |-> Nth(ps, k)]
<1>1. Len(rs) \in Nat /\ \A j \in 1..Len(rs) : rs[j] \in S
  BY QueueFacts
<1>2. IsFiniteSet(ps) /\ n \in Nat /\ \A a \in ps : a \in Nat
  <2>1. IsFiniteSet(1..Len(rs))
    BY <1>1, FS_Interval
  <2>2. IsFiniteSet(ps)
    BY <2>1, FS_Subset
  <2>3. n \in Nat
    BY <2>2, FS_CardinalityType
  <2> QED  BY <1>1, <2>2, <2>3
<1>3. \A a \in ps : /\ IsFiniteSet(upTo(a)) /\ rank[a] \in Nat
                    /\ rank[a] <= n /\ rank[a] # 0
  <2> SUFFICES ASSUME NEW a \in ps
               PROVE  /\ IsFiniteSet(upTo(a)) /\ Cardinality(upTo(a)) \in Nat
                      /\ Cardinality(upTo(a)) <= n /\ Cardinality(upTo(a)) # 0
    OBVIOUS
  <2>1. upTo(a) \in SUBSET ps /\ a \in upTo(a)
    BY <1>2
  <2> HIDE DEF upTo
  <2>2. IsFiniteSet(upTo(a)) /\ Cardinality(upTo(a)) <= n
    BY <1>2, <2>1, FS_Subset
  <2> QED  BY <2>1, <2>2, FS_CardinalityType, FS_EmptySet
<1>4. ASSUME NEW a \in ps, NEW b \in ps, a < b
      PROVE  rank[a] # rank[b]
  <2>1. upTo(a) \in SUBSET upTo(b) /\ b \in upTo(b) /\ b \notin upTo(a)
    <3>1. a \in Nat /\ b \in Nat
      BY <1>2
    <3>2. \A c \in upTo(a) : c \in ps /\ c \in Nat /\ c <= a
      BY <1>2
    <3>3. \A c \in upTo(a) : c <= b
      BY <1>4, <3>1, <3>2
    <3>4. \A c \in upTo(a) : c \in upTo(b)
      BY <3>2, <3>3
    <3>5. b \in upTo(b) /\ b \notin upTo(a)
      BY <1>4, <3>1
    <3> HIDE DEF upTo
    <3> QED  BY <3>4, <3>5
  <2>2. IsFiniteSet(upTo(b)) /\ rank[a] = Cardinality(upTo(a)) /\ rank[b] = Cardinality(upTo(b))
    BY <1>3
  <2> HIDE DEF upTo, rank
  <2> QED  BY <2>1, <2>2, FS_Subset
<1>5. rank \in [ps -> 1..n]
  BY <1>2, <1>3
<1>6. \A a, b \in ps : rank[a] = rank[b] => a = b
  <2> HIDE DEF rank
  <2> QED  BY <1>2, <1>4
<1>7. \A a \in ps : rank[a] = Cardinality({b \in ps : b <= a})
  OBVIOUS
<1> HIDE DEF rank
<1>8. rank \in Surjection(ps, 1..n)
  <2>1. rank \in Injection(ps, 1..n)
    BY <1>5, <1>6 DEF Injection, IsInjective
  <2>2. IsFiniteSet(1..n) /\ Cardinality(1..n) = n
    BY <1>2, FS_Interval
  <2> QED  BY <2>1, <2>2, FS_Injection
<1>9. \A k \in 1..n : \E a \in ps : rank[a] = k
  BY <1>8 DEF Surjection
<1>10. \A k \in 1..n : at[k] \in ps /\ rank[at[k]] = k
  BY <1>9, <1>7 DEF Nth
<1>11. at \in [1..n -> ps]
  BY <1>10
<1>12. Selected(rs, ps) = [k \in 1..n |-> rs[at[k]]]
  BY DEF Selected
<1> HIDE DEF at, n
<1>13. \A a \in ps : rank[a] \in 1..n /\ at[rank[a]] = a
  BY <1>5, <1>6, <1>10
<1>14. [k \in 1..n |-> rs[at[k]]] \in [1..n -> S]
  BY <1>1, <1>11
<1>15. Selected(rs, ps) \in Seq(S) /\ Len(Selected(rs, ps)) = n
  BY <1>2, <1>12, <1>14, LenProperties
<1> QED  BY <1>2, <1>10, <1>11, <1>12, <1>13, <1>15 DEF Selects

-----------------------------------------------------------------------------
(* Types                                                                     *)

\* A thread that is at work has an id, and one that is in the tracker none of a
\* summary.
AtWork ==
    \A t \in Threads :
        /\ pc[t] # "idle" => id[t] \in Ids
        /\ pc[t] \in {"track", "place", "queue"} => id[t] \notin Summaries

TInv == TypeOK /\ AtWork

LEMMA LesserFacts ==
    \A a, b \in Nat \ {0} : Lesser(a, b) \in Nat \ {0} /\ Lesser(a, b) <= a /\ Lesser(a, b) <= b
BY DEF Lesser

LEMMA UpsertedSeq ==
    ASSUME rows \in Seq(Row), now \in Nat, NEW i \in Ids
    PROVE  Upserted(i) \in Seq(Row)
<1> DEFINE up(r) == IF r.id = i THEN [id |-> i, last |-> now, hits |-> r.hits + 1] ELSE r
           some == [k \in DOMAIN rows |-> up(rows[k])]
<1>1. Len(rows) \in Nat /\ DOMAIN rows = 1..Len(rows) /\ \A j \in 1..Len(rows) : rows[j] \in Row
  BY QueueFacts, Zenon
<1>2. \A r \in Row : up(r) \in Row
  BY DEF Row
<1>3. some \in Seq(Row)
  <2> HIDE DEF up
  <2>1. some \in [1..Len(rows) -> Row]
    BY <1>1, <1>2
  <2> QED  BY <1>1, <2>1
<1>4. [id |-> i, last |-> now, hits |-> 0] \in Row
  BY DEF Row
<1>5. Append(rows, [id |-> i, last |-> now, hits |-> 0]) \in Seq(Row)
  BY <1>4, AppendProperties
<1>6. Upserted(i) = IF i \in Stored THEN some ELSE Append(rows, [id |-> i, last |-> now, hits |-> 0])
  BY DEF Upserted
<1> QED  BY <1>3, <1>5, <1>6

LEMMA EvictedSeq ==
    ASSUME NEW rs \in Seq(Row), NEW k
    PROVE  Evicted(rs, k) \in Seq(Row)
<1> DEFINE ps == {a \in DOMAIN rs : Cardinality({b \in DOMAIN rs : Before(rs, a, b)}) < k}
<1>1. ps \subseteq 1..Len(rs)
  <2>1. DOMAIN rs = 1..Len(rs)
    BY QueueFacts, Zenon
  <2> QED  BY <2>1
<1>2. Evicted(rs, k) = Selected(rs, ps)
  BY DEF Evicted
<1> HIDE DEF ps
<1>3. Selected(rs, ps) \in Seq(Row)
  BY <1>1, SelectedFacts, Zenon
<1> QED  BY <1>2, <1>3

LEMMA WorkerFacts == \A t \in Threads : WorkerOf[t] \in Workers
BY FingerprintStoreAssumption

LEMMA InitTInv == Init => TInv
<1> SUFFICES ASSUME Init PROVE TInv
  OBVIOUS
<1>1. \A S : <<>> \in Seq(S)
  BY EmptySeq
<1> QED  BY <1>1, FingerprintStoreAssumption DEF Init, TInv, TypeOK, AtWork, Places, Unknown

LEMMA SaveTypes ==
    ASSUME TInv, NEW t \in Threads, NEW i \in Ids, NEW m \in {Configured, Default}, Save(t, i, m)
    PROVE  TInv'
<1> DEFINE w == WorkerOf[t]
           least == Lesser(limit[w], m)
           kept == Recent(Touched(memory[w], i), least)
           p == IF i \in Summaries THEN "write" ELSE "track"
<1>1. w \in Workers /\ m \in Nat \ {0} /\ limit[w] \in Nat \ {0} /\ memory[w] \in Seq(Ids)
  BY WorkerFacts, FingerprintStoreAssumption DEF TInv, TypeOK
<1>2. least \in Nat \ {0}
  BY <1>1, LesserFacts
<1>3. kept \in Seq(Ids)
  <2>1. Touched(memory[w], i) \in Seq(Ids)
    BY <1>1, TouchedFacts
  <2> HIDE DEF least
  <2>2. least \in Nat
    BY <1>2
  <2> QED  BY <2>1, <2>2, RecentFacts
<1>4. /\ limit' = [limit EXCEPT ![w] = least] /\ pc' = [pc EXCEPT ![t] = p]
      /\ id' = [id EXCEPT ![t] = i] /\ max' = [max EXCEPT ![t] = m]
      /\ calls < MaxCalls /\ calls' = calls + 1
      /\ UNCHANGED <<writes, contexts, order, rows, since, now, restarts>>
  BY DEF Save, Goto
<1>5. memory' = [memory EXCEPT ![w] = kept]
  <2>1. limit'[w] = least
    BY <1>1, <1>4 DEF TInv, TypeOK
  <2>2. memory' = [memory EXCEPT ![w] = Recent(Touched(memory[w], i), limit'[w])]
    BY DEF Save
  <2> QED  BY <2>1, <2>2
<1>6. p \in Places /\ p # "idle" /\ (p = "track" => i \notin Summaries) /\ p \notin {"place", "queue"}
  BY DEF Places
<1> HIDE DEF w, least, kept, p
<1>7. TypeOK'
  BY <1>1, <1>2, <1>3, <1>4, <1>5, <1>6, FingerprintStoreAssumption DEF TInv, TypeOK
<1>8. AtWork'
  BY <1>4, <1>6 DEF TInv, TypeOK, AtWork
<1> QED  BY <1>7, <1>8 DEF TInv

\* The operations of track.
LEMMA TrackTypes ==
    ASSUME TInv, NEW t \in Threads, Forget(t) \/ Place(t) \/ Enqueue(t) \/ Trim(t)
    PROVE  TInv'
<1> DEFINE w == WorkerOf[t]
           Tracked == Ids \ Summaries
<1>1. w \in Workers /\ order[w] \in Seq(Tracked) /\ contexts[w] \subseteq Tracked
  BY WorkerFacts DEF TInv, TypeOK
<1>2. ASSUME NEW q \in Seq(Tracked), NEW cs \in SUBSET Tracked, NEW p \in {"place", "queue", "trim", "write"},
             pc[t] \in {"track", "place", "queue", "trim"},
             p \in {"place", "queue"} => pc[t] # "trim",
             order' = [order EXCEPT ![w] = q], contexts' = [contexts EXCEPT ![w] = cs],
             pc' = [pc EXCEPT ![t] = p],
             UNCHANGED <<memory, limit, writes, rows, id, max, since, bounds>>
      PROVE  TInv'
  <2>1. TypeOK'
    BY <1>1, <1>2 DEF TInv, TypeOK, Places, bounds
  <2>2. AtWork'
    BY <1>1, <1>2 DEF TInv, TypeOK, AtWork, bounds
  <2> QED  BY <2>1, <2>2 DEF TInv
<1>3. CASE Forget(t)
  <2> DEFINE q == IF id[t] \in contexts[w] /\ id[t] \in Elements(order[w])
                  THEN Removed(order[w], id[t]) ELSE order[w]
  <2>1. q \in Seq(Tracked)
    BY <1>1, RemovedFacts
  <2>2. /\ pc[t] = "track" /\ pc' = [pc EXCEPT ![t] = "place"]
        /\ order' = [order EXCEPT ![w] = q] /\ contexts' = [contexts EXCEPT ![w] = contexts[w]]
        /\ UNCHANGED <<memory, limit, writes, rows, id, max, since, bounds>>
    BY <1>1, <1>3 DEF Forget, Continue, Goto, TInv, TypeOK
  <2> HIDE DEF q, w
  <2> QED  BY <1>1, <1>2, <2>1, <2>2 DEF Places
<1>4. CASE Place(t)
  <2>1. /\ pc[t] = "place" /\ pc' = [pc EXCEPT ![t] = "queue"]
        /\ order' = [order EXCEPT ![w] = order[w]]
        /\ contexts' = [contexts EXCEPT ![w] = contexts[w] \cup {id[t]}]
        /\ UNCHANGED <<memory, limit, writes, rows, id, max, since, bounds>>
    BY <1>1, <1>4 DEF Place, Continue, Goto, TInv, TypeOK
  <2>2. id[t] \in Tracked
    BY <2>1 DEF TInv, AtWork
  <2>3. contexts[w] \cup {id[t]} \in SUBSET Tracked
    BY <1>1, <2>2
  <2> HIDE DEF w, Tracked
  <2> QED  BY <1>1, <1>2, <2>1, <2>3 DEF Places
<1>5. CASE Enqueue(t)
  <2>1. /\ pc[t] = "queue" /\ pc' = [pc EXCEPT ![t] = "trim"]
        /\ order' = [order EXCEPT ![w] = Append(order[w], id[t])]
        /\ contexts' = [contexts EXCEPT ![w] = contexts[w]]
        /\ UNCHANGED <<memory, limit, writes, rows, id, max, since, bounds>>
    BY <1>1, <1>5 DEF Enqueue, Continue, Goto, TInv, TypeOK
  <2>2. id[t] \in Tracked
    BY <2>1 DEF TInv, AtWork
  <2>3. Append(order[w], id[t]) \in Seq(Tracked)
    BY <1>1, <2>2, AppendElements
  <2> HIDE DEF w, Tracked
  <2> QED  BY <1>1, <1>2, <2>1, <2>3 DEF Places
<1>6. CASE Trim(t) /\ Cardinality(contexts[w]) > MaxContexts /\ order[w] # <<>>
  <2>1. /\ pc[t] = "trim" /\ pc' = [pc EXCEPT ![t] = "trim"]
        /\ order' = [order EXCEPT ![w] = Tail(order[w])]
        /\ contexts' = [contexts EXCEPT ![w] = contexts[w] \ {Head(order[w])}]
        /\ UNCHANGED <<memory, limit, writes, rows, id, max, since, bounds>>
    BY <1>6 DEF Trim, TInv, TypeOK
  <2>2. Tail(order[w]) \in Seq(Tracked)
    BY <1>1, <1>6, TailElements
  <2>3. contexts[w] \ {Head(order[w])} \in SUBSET Tracked
    BY <1>1
  <2> HIDE DEF w, Tracked
  <2> QED  BY <1>1, <1>2, <2>1, <2>2, <2>3 DEF Places
<1>7. CASE Trim(t) /\ ~(Cardinality(contexts[w]) > MaxContexts /\ order[w] # <<>>)
  <2>1. /\ pc[t] = "trim" /\ pc' = [pc EXCEPT ![t] = "write"]
        /\ order' = [order EXCEPT ![w] = order[w]]
        /\ contexts' = [contexts EXCEPT ![w] = contexts[w]]
        /\ UNCHANGED <<memory, limit, writes, rows, id, max, since, bounds>>
    BY <1>1, <1>7 DEF Trim, Continue, Goto, TInv, TypeOK
  <2> HIDE DEF w, Tracked
  <2> QED  BY <1>1, <1>2, <2>1 DEF Places
<1> QED  BY <1>3, <1>4, <1>5, <1>6, <1>7

LEMMA WriteTypes ==
    ASSUME TInv, NEW t \in Threads, Write(t)
    PROVE  TInv'
<1> DEFINE w == WorkerOf[t]
           count == (writes[w] + 1) % Batch
<1>1. w \in Workers /\ id[t] \in Ids /\ writes[w] \in Nat /\ rows \in Seq(Row) /\ now \in Nat
  BY WorkerFacts DEF Write, TInv, TypeOK, AtWork
<1>2. count \in 0..(Batch - 1)
  BY <1>1, FingerprintStoreAssumption
<1>3. Upserted(id[t]) \in Seq(Row)
  BY <1>1, UpsertedSeq
<1>4. rows' \in Seq(Row)
  BY <1>3, EvictedSeq DEF Write
<1>5. Concurrent(id[t]) \subseteq Ids
  <2>1. \A k \in DOMAIN rows : rows[k].id \in Ids
    <3>1. \A k \in DOMAIN rows : rows[k] \in Row
      BY <1>1, QueueFacts, Zenon
    <3> QED  BY <3>1 DEF Row
  <2> QED  BY <2>1 DEF Concurrent
<1>6. since' \in [Ids -> SUBSET (Ids \cup {NoId})]
  <2>1. Uses(id[t]) \in [Ids -> SUBSET (Ids \cup {NoId})]
    BY <1>1 DEF Uses, TInv, TypeOK
  <2>2. since' = [Uses(id[t]) EXCEPT ![id[t]] = Concurrent(id[t])]
    BY DEF Write
  <2> QED  BY <1>5, <2>1, <2>2
<1>7. /\ writes' = [writes EXCEPT ![w] = count] /\ pc' = [pc EXCEPT ![t] = "idle"]
      /\ id' = [id EXCEPT ![t] = NoId]
      /\ UNCHANGED <<memory, limit, contexts, order, max, bounds>>
  BY DEF Write, Finish, Goto
<1> HIDE DEF w, count
<1>8. TypeOK'
  BY <1>1, <1>2, <1>4, <1>6, <1>7 DEF TInv, TypeOK, Places, bounds
<1>9. AtWork'
  BY <1>7 DEF TInv, TypeOK, AtWork
<1> QED  BY <1>8, <1>9 DEF TInv

LEMMA FindTypes ==
    ASSUME TInv, NEW t \in Threads, NEW i \in Ids, Find(t, i)
    PROVE  TInv'
<1> DEFINE w == WorkerOf[t]
           kept == Touched(memory[w], i)
<1>1. w \in Workers /\ memory[w] \in Seq(Ids) /\ rows \in Seq(Row) /\ now \in Nat
  BY WorkerFacts DEF TInv, TypeOK
<1>2. kept \in Seq(Ids)
  BY <1>1, TouchedFacts
<1>3. rows' \in Seq(Row)
  BY <1>1, UpsertedSeq DEF Find, Refreshed
<1>4. since' \in [Ids -> SUBSET (Ids \cup {NoId})]
  BY DEF Find, Uses, TInv, TypeOK
<1>5. /\ memory' = [memory EXCEPT ![w] = kept] /\ calls < MaxCalls /\ calls' = calls + 1
      /\ UNCHANGED <<limit, writes, contexts, order, thread, now, restarts>>
  BY DEF Find
<1> HIDE DEF w, kept
<1>6. TypeOK'
  BY <1>1, <1>2, <1>3, <1>4, <1>5, FingerprintStoreAssumption DEF TInv, TypeOK, thread
<1>7. AtWork'
  BY <1>5 DEF TInv, AtWork, thread
<1> QED  BY <1>6, <1>7 DEF TInv

LEMMA ReadTypes ==
    ASSUME TInv, NEW t \in Threads, Read(t)
    PROVE  TInv'
<1> DEFINE w == WorkerOf[t]
           known == id[t] \in Elements(memory[w])
           kept == IF known THEN memory[w] ELSE Append(memory[w], id[t])
           result == IF id[t] \notin Stored THEN memory[w]
                     ELSE IF Len(kept) > limit[w] THEN Tail(kept) ELSE kept
<1>1. w \in Workers /\ memory[w] \in Seq(Ids) /\ id[t] \in Ids /\ limit[w] \in Nat
  BY WorkerFacts DEF Read, TInv, TypeOK, AtWork
<1>2. kept \in Seq(Ids)
  BY <1>1, AppendProperties
<1>3. result \in Seq(Ids)
  <2> HIDE DEF kept
  <2>1. CASE Len(kept) > limit[w]
    <3>1. kept # <<>>
      <4>1. Len(kept) # 0
        BY <1>1, <1>2, <2>1, LenProperties
      <4> QED  BY <1>2, <4>1, EmptySeq
    <3>2. Tail(kept) \in Seq(Ids)
      BY <1>2, <3>1, HeadTailProperties
    <3> QED  BY <1>1, <1>2, <3>2
  <2> QED  BY <1>1, <1>2, <2>1
<1>4. /\ memory' = [memory EXCEPT ![w] = result] /\ pc' = [pc EXCEPT ![t] = "idle"]
      /\ id' = [id EXCEPT ![t] = NoId]
      /\ UNCHANGED <<limit, writes, contexts, order, max, rows, since, bounds>>
  BY DEF Read, Finish, Goto
<1> HIDE DEF w, result
<1>5. TypeOK'
  BY <1>1, <1>3, <1>4 DEF TInv, TypeOK, Places, bounds
<1>6. AtWork'
  BY <1>4 DEF TInv, TypeOK, AtWork
<1> QED  BY <1>5, <1>6 DEF TInv

LEMMA RestartTypes ==
    ASSUME TInv, NEW w \in Workers, Restart(w)
    PROVE  TInv'
<1>1. \A S : <<>> \in Seq(S)
  BY EmptySeq
<1>2. TypeOK'
  BY <1>1, FingerprintStoreAssumption DEF Restart, TInv, TypeOK, Places
<1>3. AtWork'
  BY DEF Restart, TInv, AtWork
<1> QED  BY <1>2, <1>3 DEF TInv

LEMMA NextTInv == TInv /\ [Next]_vars => TInv'
<1> SUFFICES ASSUME TInv, [Next]_vars PROVE TInv'
  OBVIOUS
<1>1. ASSUME NEW t \in Threads, WriteFails(t)
      PROVE  TInv'
  <2>1. TypeOK'
    BY <1>1 DEF WriteFails, Finish, Goto, private, bounds, TInv, TypeOK, Places
  <2>2. AtWork'
    BY <1>1 DEF WriteFails, Finish, Goto, TInv, TypeOK, AtWork
  <2> QED  BY <2>1, <2>2 DEF TInv
<1>2. ASSUME NEW t \in Threads, NEW i \in Ids, Scan(t, i)
      PROVE  TInv'
  <2>1. TypeOK'
    BY <1>2, FingerprintStoreAssumption DEF Scan, Goto, private, TInv, TypeOK, Places
  <2>2. AtWork'
    BY <1>2 DEF Scan, Goto, TInv, TypeOK, AtWork
  <2> QED  BY <2>1, <2>2 DEF TInv
<1>3. CASE Tick
  BY <1>3, FingerprintStoreAssumption DEF Tick, private, thread, TInv, TypeOK, AtWork
<1>4. CASE UNCHANGED vars
  BY <1>4 DEF vars, private, thread, bounds, TInv, TypeOK, AtWork
<1> QED  BY <1>1, <1>2, <1>3, <1>4, SaveTypes, TrackTypes, WriteTypes, FindTypes, ReadTypes,
            RestartTypes DEF Next

\* The variables have their types: no summary is ever tracked, the table and every
\* memory hold contents only, and the limits stay positive.
THEOREM TypeCorrect == Spec => []TypeOK
<1>1. TInv => TypeOK
  BY DEF TInv
<1>2. Spec => []TInv
  BY InitTInv, NextTInv, PTL DEF Spec
<1> QED  BY <1>1, <1>2, PTL

-----------------------------------------------------------------------------
(* The table                                                                 *)

\* A content has one row.
Distinct(rs) == \A a, b \in DOMAIN rs : rs[a].id = rs[b].id => a = b

\* No row is younger than the clock.
Past(rs) == \A a \in DOMAIN rs : rs[a].last <= now

\* The table in the order of its clock: what has a row as young as another's was used
\* since, sn says.
Younger(rs, sn) ==
    \A a, b \in DOMAIN rs :
        a # b /\ rs[a].last <= rs[b].last => rs[b].id \in sn[rs[a].id]

\* A content whose row is gone was driven out by that many others.
Lost(sn, stored) ==
    \A i \in Ids \ stored :
        NoId \in sn[i] \/ Cardinality(sn[i]) >= Lesser(Configured, Default)

RInv == Distinct(rows) /\ Past(rows) /\ Younger(rows, since) /\ Lost(since, Stored)

LEMMA RowFacts ==
    ASSUME NEW rs \in Seq(Row)
    PROVE  /\ Len(rs) \in Nat /\ DOMAIN rs = 1..Len(rs)
           /\ \A a \in DOMAIN rs : rs[a] \in Row
           /\ \A a \in DOMAIN rs : rs[a].id \in Ids /\ rs[a].last \in Nat
<1>1. /\ Len(rs) \in Nat /\ DOMAIN rs = 1..Len(rs)
      /\ \A a \in DOMAIN rs : rs[a] \in Row
  BY QueueFacts, Zenon
<1> QED  BY <1>1 DEF Row

\* A write touches the row of its content, or adds it, and no other.
LEMMA UpsertedFacts ==
    ASSUME TInv, NEW i \in Ids
    PROVE  /\ DOMAIN rows \subseteq DOMAIN Upserted(i)
           /\ \A a \in DOMAIN rows : Upserted(i)[a].id = rows[a].id
           /\ \A a \in DOMAIN Upserted(i) :
                IF Upserted(i)[a].id = i
                THEN /\ Upserted(i)[a].last = now
                     /\ a \in DOMAIN rows <=> i \in Stored
                ELSE a \in DOMAIN rows /\ Upserted(i)[a] = rows[a]
           /\ \E a \in DOMAIN Upserted(i) : Upserted(i)[a].id = i
           /\ i \notin Stored => \A a, b \in DOMAIN Upserted(i) \ DOMAIN rows : a = b
<1>1. rows \in Seq(Row) /\ now \in Nat
  BY DEF TInv, TypeOK
<1>2. Len(rows) \in Nat /\ DOMAIN rows = 1..Len(rows)
  BY <1>1, RowFacts
<1>3. CASE i \in Stored
  <2> DEFINE up(r) == IF r.id = i THEN [id |-> i, last |-> now, hits |-> r.hits + 1] ELSE r
             u == [k \in DOMAIN rows |-> up(rows[k])]
  <2>1. Upserted(i) = u
    BY <1>3 DEF Upserted
  <2>2. \A r : IF up(r).id = i THEN r.id = i /\ up(r).last = now ELSE r.id # i /\ up(r) = r
    OBVIOUS
  <2>3. \A a \in DOMAIN rows : u[a] = up(rows[a])
    OBVIOUS
  <2>4. DOMAIN u = DOMAIN rows
    OBVIOUS
  <2>5. PICK c \in DOMAIN rows : rows[c].id = i
    BY <1>3 DEF Stored
  <2> HIDE DEF up, u
  <2>6. u[c].id = i
    BY <2>2, <2>3, <2>5
  <2>7. \A a \in DOMAIN rows : u[a].id = rows[a].id
    BY <2>2, <2>3
  <2>8. \A a \in DOMAIN u : IF u[a].id = i THEN u[a].last = now ELSE u[a] = rows[a]
    BY <2>2, <2>3, <2>4
  <2> QED  BY <1>3, <2>1, <2>4, <2>5, <2>6, <2>7, <2>8
<1>4. CASE i \notin Stored
  <2> DEFINE r == [id |-> i, last |-> now, hits |-> 0]
             u == Append(rows, r)
             n == Len(rows)
  <2>1. Upserted(i) = u
    BY <1>4 DEF Upserted
  <2>2. r \in Row /\ r.id = i /\ r.last = now
    BY <1>1 DEF Row
  <2> HIDE DEF r
  <2>3. /\ u \in Seq(Row) /\ Len(u) = n + 1 /\ u[n + 1] = r
        /\ \A a \in 1..n : u[a] = rows[a]
    BY <1>1, <2>2, AppendProperties
  <2> HIDE DEF u
  <2>4. DOMAIN u = 1..(n + 1)
    BY <2>3, RowFacts
  <2>5. \A a \in DOMAIN rows : rows[a].id # i
    BY <1>4 DEF Stored
  <2>6. \A a \in DOMAIN u : a \in DOMAIN rows \/ a = n + 1
    BY <1>2, <2>4
  <2>7. n + 1 \in DOMAIN u /\ n + 1 \notin DOMAIN rows /\ DOMAIN rows \subseteq DOMAIN u
    BY <1>2, <2>4
  <2>8. \A a \in DOMAIN rows : u[a] = rows[a]
    BY <1>2, <2>3
  <2> HIDE DEF n
  <2>9. u[n + 1].id = i /\ u[n + 1].last = now
    BY <2>2, <2>3 DEF n
  <2>10. \A a \in DOMAIN u :
            IF u[a].id = i THEN u[a].last = now /\ a \notin DOMAIN rows
            ELSE a \in DOMAIN rows /\ u[a] = rows[a]
    BY <2>5, <2>6, <2>7, <2>8, <2>9
  <2> QED  BY <1>4, <2>1, <2>6, <2>7, <2>8, <2>9, <2>10
<1> QED  BY <1>3, <1>4

\* The table is in the order of its clock again when what was used counts.
LEMMA UpsertedOrder ==
    ASSUME TInv, RInv, NEW i \in Ids, NEW sn,
           \A j \in Ids \ {i} : since[j] \cup {i} \subseteq sn[j],
           \/ Concurrent(i) \subseteq sn[i]
           \/ i \in Stored /\ since[i] \subseteq sn[i]
    PROVE  Distinct(Upserted(i)) /\ Past(Upserted(i)) /\ Younger(Upserted(i), sn)
<1> DEFINE u == Upserted(i)
<1>1. /\ DOMAIN rows \subseteq DOMAIN u
      /\ \A a \in DOMAIN rows : u[a].id = rows[a].id
      /\ \A a \in DOMAIN u :
            IF u[a].id = i THEN u[a].last = now /\ (a \in DOMAIN rows <=> i \in Stored)
            ELSE a \in DOMAIN rows /\ u[a] = rows[a]
      /\ i \notin Stored => \A a, b \in DOMAIN u \ DOMAIN rows : a = b
  BY UpsertedFacts
<1> HIDE DEF u
<1>2. rows \in Seq(Row) /\ now \in Nat
  BY DEF TInv, TypeOK
<1>3. \A a \in DOMAIN rows : rows[a].id \in Ids /\ rows[a].last \in Nat
  BY <1>2, RowFacts
<1>4. Distinct(u)
  BY <1>1 DEF RInv, Distinct
<1>5. Past(u)
  BY <1>1, <1>2 DEF RInv, Past
<1>6. ASSUME NEW a \in DOMAIN u, NEW b \in DOMAIN u, a # b, u[a].last <= u[b].last
      PROVE  u[b].id \in sn[u[a].id]
  <2>1. CASE u[a].id # i /\ u[b].id = i
    BY <1>1, <1>3, <2>1
  <2>2. CASE u[a].id # i /\ u[b].id # i
    <3>1. rows[b].id \in since[rows[a].id]
      BY <1>1, <1>6, <2>2 DEF RInv, Younger
    <3> QED  BY <1>1, <1>3, <2>2, <3>1
  <2>3. CASE u[a].id = i
    <3>1. u[b].id # i
      BY <1>4, <1>6, <2>3 DEF Distinct
    <3>2. b \in DOMAIN rows /\ u[b] = rows[b] /\ u[b].last <= now /\ now <= u[b].last
      BY <1>1, <1>5, <1>6, <2>3, <3>1 DEF Past
    <3>3. rows[b].last = now
      BY <1>2, <1>3, <3>2
    <3>4. rows[b].id \in Concurrent(i)
      BY <3>1, <3>2, <3>3 DEF Concurrent
    <3>5. CASE i \in Stored /\ since[i] \subseteq sn[i]
      <4>1. a \in DOMAIN rows /\ rows[a].id = i
        BY <1>1, <2>3, <3>5
      <4>2. rows[a].last <= rows[b].last
        BY <3>3, <4>1 DEF RInv, Past
      <4> QED  BY <1>6, <2>3, <3>2, <3>5, <4>1, <4>2 DEF RInv, Younger
    <3> QED  BY <2>3, <3>2, <3>4, <3>5
  <2> QED  BY <2>1, <2>2, <2>3
<1>7. Younger(u, sn)
  BY <1>6 DEF Younger
<1> QED  BY <1>4, <1>5, <1>7 DEF u

\* What is cut from the table has as many rows that are younger as the table may keep.
LEMMA EvictedFacts ==
    ASSUME NEW rs \in Seq(Row), Distinct(rs), NEW sn \in [Ids -> SUBSET (Ids \cup {NoId})],
           Younger(rs, sn), NEW k \in Nat
    PROVE  /\ Distinct(Evicted(rs, k))
           /\ \A j \in DOMAIN Evicted(rs, k) : \E a \in DOMAIN rs : Evicted(rs, k)[j] = rs[a]
           /\ Younger(Evicted(rs, k), sn)
           /\ \A a \in DOMAIN rs : \/ \E j \in DOMAIN Evicted(rs, k) : Evicted(rs, k)[j] = rs[a]
                                   \/ Cardinality(sn[rs[a].id]) >= k
<1> DEFINE after(a) == {b \in DOMAIN rs : Before(rs, a, b)}
           ps == {a \in DOMAIN rs : Cardinality(after(a)) < k}
           e == Evicted(rs, k)
<1>1. /\ Len(rs) \in Nat /\ DOMAIN rs = 1..Len(rs)
      /\ \A a \in DOMAIN rs : rs[a] \in Row /\ rs[a].id \in Ids /\ rs[a].last \in Nat
  BY RowFacts
<1>2. ps \subseteq 1..Len(rs)
  BY <1>1
<1>3. e = Selected(rs, ps)
  BY DEF Evicted
<1> HIDE DEF ps, e
<1>4. Selects(e, rs, ps)
  <2>1. Selects(Selected(rs, ps), rs, ps)
    BY <1>2, SelectedFacts, Zenon
  <2> QED  BY <1>3, <2>1, Zenon
<1>5. PICK n \in Nat : \E at \in [1..n -> ps] :
        /\ Len(e) = n
        /\ \A l \in 1..n : e[l] = rs[at[l]]
        /\ \A l, m \in 1..n : at[l] = at[m] => l = m
        /\ \A a \in ps : \E l \in 1..n : at[l] = a
  BY <1>4 DEF Selects
<1>6. PICK at \in [1..n -> ps] :
        /\ Len(e) = n
        /\ \A l \in 1..n : e[l] = rs[at[l]]
        /\ \A l, m \in 1..n : at[l] = at[m] => l = m
        /\ \A a \in ps : \E l \in 1..n : at[l] = a
  BY <1>5
<1>7. e \in Seq(Row) /\ DOMAIN e = 1..n
  <2>1. e \in Seq(Row)
    BY EvictedSeq DEF e
  <2>2. DOMAIN e = 1..Len(e)
    BY <2>1, RowFacts
  <2> QED  BY <1>6, <2>1, <2>2
<1>8. \A l \in DOMAIN e : at[l] \in DOMAIN rs /\ e[l] = rs[at[l]]
  BY <1>1, <1>2, <1>6, <1>7
<1>9. \A l, m \in DOMAIN e : at[l] = at[m] => l = m
  BY <1>6, <1>7
<1>10. Distinct(e)
  BY <1>8, <1>9 DEF Distinct
<1>11. Younger(e, sn)
  BY <1>8, <1>9 DEF Younger
<1>12. ASSUME NEW a \in DOMAIN rs, a \notin ps
       PROVE  Cardinality(sn[rs[a].id]) >= k
  <2> DEFINE i == rs[a].id
             f == [b \in after(a) |-> rs[b].id]
  <2>1. \A b \in after(a) : b \in DOMAIN rs /\ b # a /\ rs[a].last <= rs[b].last
    <3>1. \A b \in DOMAIN rs : rs[b].hits \in Nat /\ b \in Nat
      BY <1>1 DEF Row
    <3> QED  BY <1>1, <3>1 DEF Before
  <2>2. f \in [after(a) -> sn[i]]
    <3>1. \A b \in after(a) : rs[b].id \in sn[i]
      BY <2>1 DEF Younger
    <3> HIDE DEF after, i
    <3> QED  BY <3>1
  <2>3. \A b, c \in after(a) : f[b] = f[c] => b = c
    <3>1. \A b \in after(a) : b \in DOMAIN rs /\ f[b] = rs[b].id
      BY <2>1
    <3> HIDE DEF after, f
    <3> QED  BY <3>1 DEF Distinct
  <2>4. IsFiniteSet(sn[i])
    <3>1. sn[i] \in SUBSET (Ids \cup {NoId})
      BY <1>1
    <3>2. IsFiniteSet(Ids \cup {NoId})
      BY FingerprintStoreAssumption, FS_AddElement
    <3> QED  BY <3>1, <3>2, FS_Subset
  <2>5. ~(Cardinality(after(a)) < k)
    BY <1>12 DEF ps
  <2> HIDE DEF after, f
  <2>6. f \in Injection(after(a), sn[i])
    BY <2>2, <2>3 DEF Injection, IsInjective
  <2>7. /\ IsFiniteSet(after(a)) /\ Cardinality(after(a)) <= Cardinality(sn[i])
    BY <2>4, <2>6, FS_Injection
  <2>8. Cardinality(after(a)) \in Nat /\ Cardinality(sn[i]) \in Nat
    BY <2>4, <2>7, FS_CardinalityType
  <2> QED  BY <2>5, <2>7, <2>8
<1>13. \A a \in ps : \E l \in DOMAIN e : e[l] = rs[a]
  BY <1>6, <1>7
<1> QED  BY <1>8, <1>10, <1>11, <1>12, <1>13 DEF e

-----------------------------------------------------------------------------
(* The table: the inductive invariant                                        *)

LEMMA InitRInv == Init => RInv
<1> SUFFICES ASSUME Init PROVE RInv
  OBVIOUS
<1>1. rows = <<>> /\ DOMAIN <<>> = {} /\ \A i \in Ids : NoId \in since[i]
  BY DEF Init, Unknown
<1> QED  BY <1>1 DEF RInv, Distinct, Past, Younger, Lost

LEMMA WriteRInv ==
    ASSUME TInv, RInv, NEW t \in Threads, Write(t)
    PROVE  RInv'
<1> DEFINE i == id[t]
           u == Upserted(i)
           e == Evicted(u, max[t])
<1>1. /\ i \in Ids /\ max[t] \in Nat /\ Lesser(Configured, Default) <= max[t]
      /\ Lesser(Configured, Default) \in Nat
  <2>1. max[t] \in {Configured, Default} /\ i \in Ids
    BY DEF Write, TInv, TypeOK, AtWork
  <2> QED  BY <2>1, LesserFacts, FingerprintStoreAssumption
<1>2. /\ rows' \in {u, e} /\ now' = now
      /\ since' = [Uses(i) EXCEPT ![i] = Concurrent(i)]
  BY DEF Write, bounds
<1>3. /\ since \in [Ids -> SUBSET (Ids \cup {NoId})]
      /\ since' \in [Ids -> SUBSET (Ids \cup {NoId})]
      /\ rows \in Seq(Row) /\ now \in Nat
  BY WriteTypes DEF TInv, TypeOK
<1>4. /\ \A j \in Ids \ {i} : since'[j] = since[j] \cup {i}
      /\ since'[i] = Concurrent(i)
  BY <1>1, <1>2, <1>3 DEF Uses
<1>5. Distinct(u) /\ Past(u) /\ Younger(u, since')
  BY <1>1, <1>4, UpsertedOrder
<1>6. u \in Seq(Row)
  BY <1>1, <1>3, UpsertedSeq
<1>7. \A j \in Stored \cup {i} : \E a \in DOMAIN u : u[a].id = j
  BY <1>1, UpsertedFacts DEF Stored
<1> HIDE DEF i, u
<1>8. /\ Distinct(e) /\ Younger(e, since')
      /\ \A j \in DOMAIN e : \E a \in DOMAIN u : e[j] = u[a]
      /\ \A a \in DOMAIN u : \/ \E j \in DOMAIN e : e[j] = u[a]
                             \/ Cardinality(since'[u[a].id]) >= max[t]
  <2> HIDE DEF e
  <2> QED  BY <1>1, <1>3, <1>5, <1>6, EvictedFacts DEF e
<1> HIDE DEF e
<1>9. Distinct(rows') /\ Younger(rows', since')
  BY <1>2, <1>5, <1>8
<1>10. Past(rows)'
  BY <1>2, <1>5, <1>8 DEF Past
<1>11. ASSUME NEW j \in Ids \ Stored', NoId \notin since'[j]
       PROVE  Cardinality(since'[j]) >= Lesser(Configured, Default)
  <2>1. IsFiniteSet(since'[j]) /\ Cardinality(since'[j]) \in Nat
    <3>1. IsFiniteSet(Ids \cup {NoId})
      BY FingerprintStoreAssumption, FS_AddElement
    <3>2. since'[j] \in SUBSET (Ids \cup {NoId})
      BY <1>3
    <3> HIDE DEF Stored
    <3> QED  BY <3>1, <3>2, FS_Subset, FS_CardinalityType
  <2>2. CASE j \in Stored \cup {i}
    <3>1. PICK a \in DOMAIN u : u[a].id = j
      BY <1>7, <2>2
    <3>2. ~ \E b \in DOMAIN rows' : rows'[b] = u[a]
      BY <3>1, <1>11 DEF Stored
    <3>3. Cardinality(since'[j]) >= max[t]
      BY <1>2, <1>8, <3>1, <3>2
    <3> QED  BY <1>1, <2>1, <3>3
  <2>3. CASE j \notin Stored \cup {i}
    <3>1. since[j] \in SUBSET since'[j]
      BY <1>4, <2>3
    <3>2. NoId \notin since[j]
      BY <1>11, <3>1
    <3>3. Cardinality(since[j]) >= Lesser(Configured, Default)
      BY <2>3, <3>2 DEF RInv, Lost
    <3>4. IsFiniteSet(since[j]) /\ Cardinality(since[j]) <= Cardinality(since'[j])
      BY <2>1, <3>1, FS_Subset
    <3>5. Cardinality(since[j]) \in Nat
      BY <3>4, FS_CardinalityType
    <3> QED  BY <1>1, <2>1, <3>3, <3>4, <3>5
  <2> QED  BY <2>2, <2>3
<1>12. Lost(since', Stored')
  BY <1>11 DEF Lost
<1> QED  BY <1>9, <1>10, <1>12 DEF RInv, Distinct, Younger, Lost

\* A lookup that refreshes a row.
LEMMA FindRInv ==
    ASSUME TInv, RInv, NEW t \in Threads, NEW i \in Ids, Find(t, i)
    PROVE  RInv'
<1> DEFINE u == Upserted(i)
<1>1. /\ now' = now /\ rows' = Refreshed(WorkerOf[t], i)
      /\ since' = IF rows' # rows THEN Uses(i) ELSE since
  BY DEF Find
<1>2. CASE rows' = rows
  BY <1>1, <1>2 DEF RInv, Distinct, Past, Younger, Lost, Stored
<1>3. CASE rows' # rows
  <2>1. i \in Stored /\ rows' = u /\ since' = Uses(i)
    BY <1>1, <1>3 DEF Refreshed
  <2>2. /\ since \in [Ids -> SUBSET (Ids \cup {NoId})] /\ rows \in Seq(Row)
        /\ since' \in [Ids -> SUBSET (Ids \cup {NoId})]
    BY FindTypes DEF TInv, TypeOK
  <2>3. /\ \A j \in Ids \ {i} : since'[j] = since[j] \cup {i}
        /\ since'[i] = since[i]
    BY <2>1 DEF Uses
  <2>4. Distinct(u) /\ Past(u) /\ Younger(u, since')
    BY <2>1, <2>3, UpsertedOrder
  <2>5. \A j \in Stored \cup {i} : \E a \in DOMAIN u : u[a].id = j
    BY UpsertedFacts DEF Stored
  <2> HIDE DEF u
  <2>6. Stored \cup {i} \subseteq Stored'
    BY <2>1, <2>5 DEF Stored
  <2>7. ASSUME NEW j \in Ids \ Stored', NoId \notin since'[j]
        PROVE  Cardinality(since'[j]) >= Lesser(Configured, Default)
    <3>1. j \notin Stored /\ since[j] \in SUBSET since'[j]
      BY <2>3, <2>6, <2>7
    <3>2. NoId \notin since[j]
      BY <2>7, <3>1
    <3>3. Cardinality(since[j]) >= Lesser(Configured, Default)
      BY <3>1, <3>2 DEF RInv, Lost
    <3>4. IsFiniteSet(since'[j])
      <4>1. IsFiniteSet(Ids \cup {NoId}) /\ since'[j] \in SUBSET (Ids \cup {NoId})
        BY <2>2, FingerprintStoreAssumption, FS_AddElement
      <4> QED  BY <4>1, FS_Subset
    <3>5. IsFiniteSet(since[j]) /\ Cardinality(since[j]) <= Cardinality(since'[j])
      BY <3>1, <3>4, FS_Subset
    <3>6. Cardinality(since[j]) \in Nat /\ Cardinality(since'[j]) \in Nat
      BY <3>4, <3>5, FS_CardinalityType
    <3>7. Lesser(Configured, Default) \in Nat
      BY LesserFacts, FingerprintStoreAssumption
    <3> QED  BY <3>3, <3>5, <3>6, <3>7
  <2>8. Lost(since', Stored')
    BY <2>7 DEF Lost
  <2> QED  BY <1>1, <2>1, <2>4, <2>8 DEF RInv, Distinct, Past, Younger, Lost
<1> QED  BY <1>2, <1>3

LEMMA NextRInv == TInv /\ RInv /\ [Next]_vars => RInv'
<1> SUFFICES ASSUME TInv, RInv, [Next]_vars PROVE RInv'
  OBVIOUS
<1>1. ASSUME UNCHANGED <<rows, since, now>>
      PROVE  RInv'
  BY <1>1 DEF RInv, Distinct, Past, Younger, Lost, Stored
<1>2. ASSUME NEW t \in Threads, NEW i \in Ids,
             Scan(t, i) \/ \E m \in {Configured, Default} : Save(t, i, m)
      PROVE  RInv'
  BY <1>1, <1>2 DEF Scan, Save
<1>3. ASSUME NEW t \in Threads,
             Forget(t) \/ Place(t) \/ Enqueue(t) \/ Trim(t) \/ WriteFails(t) \/ Read(t)
      PROVE  RInv'
  BY <1>1, <1>3 DEF Forget, Place, Enqueue, Trim, WriteFails, Read, bounds
<1>4. ASSUME NEW w \in Workers, Restart(w)
      PROVE  RInv'
  BY <1>1, <1>4 DEF Restart
<1>5. CASE UNCHANGED vars
  BY <1>1, <1>5 DEF vars, bounds
<1>6. CASE Tick
  <2>1. rows' = rows /\ since' = since /\ now' = now + 1 /\ now \in Nat
    BY <1>6 DEF Tick, TInv, TypeOK
  <2>2. \A a \in DOMAIN rows : rows[a].last \in Nat
    BY RowFacts DEF TInv, TypeOK
  <2>3. Past(rows)'
    BY <2>1, <2>2 DEF RInv, Past
  <2> QED  BY <2>1, <2>3 DEF RInv, Distinct, Younger, Lost, Stored
<1> QED  BY <1>2, <1>3, <1>4, <1>5, <1>6, WriteRInv, FindRInv DEF Next

\* A content that was stored is in the table as long as the others that were used since,
\* or in the same millisecond, do not fill it (FingerprintRepository.save_fingerprint):
\* for any number of workers, any limits, and whatever fails or restarts.
THEOREM SharedRecallKept == Spec => []SharedRecall
<1>1. TInv /\ RInv => SharedRecall
  <2> SUFFICES ASSUME TInv, RInv, NEW i \in Ids, NoId \notin since[i],
                      Cardinality(since[i]) < Lesser(Configured, Default), i \notin Stored
               PROVE  FALSE
    BY DEF SharedRecall
  <2>1. Cardinality(since[i]) >= Lesser(Configured, Default)
    BY DEF RInv, Lost
  <2>2. IsFiniteSet(Ids \cup {NoId}) /\ since[i] \in SUBSET (Ids \cup {NoId})
    BY FingerprintStoreAssumption, FS_AddElement DEF TInv, TypeOK
  <2>3. Cardinality(since[i]) \in Nat
    BY <2>2, FS_Subset, FS_CardinalityType
  <2>4. Lesser(Configured, Default) \in Nat
    BY LesserFacts, FingerprintStoreAssumption
  <2> QED  BY <2>1, <2>3, <2>4
<1>2. Spec => [](TInv /\ RInv)
  BY InitTInv, NextTInv, InitRInv, NextRInv, PTL DEF Spec
<1> QED  BY <1>1, <1>2, PTL

-----------------------------------------------------------------------------
(* The tracker: the inductive invariant                                                *)

\* What the tracker's variables are.
TrackerType ==
    /\ contexts \in [Workers -> SUBSET Ids]
    /\ order \in [Workers -> Seq(Ids)]
    /\ pc \in [Threads -> Places]
    /\ id \in [Threads -> Ids \cup {NoId}]
    /\ \A t \in Threads : pc[t] \in {"track", "place", "queue"} => id[t] \in Ids

\* A tracked content is in the queue, or a thread is going to put it there: even when
\* another thread has taken it out meanwhile.
Covered ==
    \A w \in Workers : \A i \in contexts[w] :
        \/ i \in Elements(order[w])
        \/ \E t \in Threads : WorkerOf[t] = w /\ id[t] = i /\ pc[t] \in {"place", "queue"}

\* When there are too many, a thread is still to trim them.
Bounded ==
    \A w \in Workers :
        \/ Cardinality(contexts[w]) <= MaxContexts
        \/ \E t \in Threads : WorkerOf[t] = w /\ pc[t] \in {"place", "queue", "trim"}

IInv == TrackerType /\ Covered /\ Bounded

tracker == <<contexts, order>>

-----------------------------------------------------------------------------
(* The actions                                                               *)

\* Threads that are not in the tracker come and go.
LEMMA OutsideStep ==
    ASSUME IInv, NEW t \in Threads, UNCHANGED tracker,
           pc[t] \in {"idle", "write", "read"}, NEW p \in {"idle", "track", "write", "read"},
           NEW i \in Ids \cup {NoId}, p = "track" => i \in Ids,
           pc' = [pc EXCEPT ![t] = p], id' = [id EXCEPT ![t] = i]
    PROVE  IInv'
<1>1. \A u \in Threads \ {t} : pc'[u] = pc[u] /\ id'[u] = id[u]
  BY DEF IInv, TrackerType
<1>2. pc'[t] = p /\ id'[t] = i
  BY DEF IInv, TrackerType
<1>3. TrackerType'
  BY <1>1, <1>2 DEF IInv, TrackerType, Places, tracker
<1>4. Covered'
  BY <1>1 DEF IInv, Covered, tracker
<1>5. Bounded'
  BY <1>1 DEF IInv, Bounded, tracker
<1> QED  BY <1>3, <1>4, <1>5 DEF IInv

LEMMA ForgetStep ==
    ASSUME IInv, NEW t \in Threads, Forget(t)
    PROVE  IInv'
<1> DEFINE w == WorkerOf[t]
           q == IF id[t] \in contexts[w] /\ id[t] \in Elements(order[w])
                THEN Removed(order[w], id[t]) ELSE order[w]
<1>1. /\ pc[t] = "track" /\ pc' = [pc EXCEPT ![t] = "place"] /\ id' = id
      /\ contexts' = contexts /\ order' = [order EXCEPT ![w] = q]
  BY DEF Forget, Continue, Goto
<1>2. w \in Workers /\ id[t] \in Ids /\ order[w] \in Seq(Ids)
  BY <1>1, WorkerFacts DEF IInv, TrackerType
<1>3. q \in Seq(Ids) /\ Elements(order[w]) \ {id[t]} \subseteq Elements(q)
  BY <1>2, RemovedFacts
<1> HIDE DEF q, w
<1>4. /\ pc'[t] = "place" /\ order'[w] = q
      /\ \A u \in Threads \ {t} : pc'[u] = pc[u]
      /\ \A v \in Workers \ {w} : order'[v] = order[v]
  BY <1>1, <1>2 DEF IInv, TrackerType
<1>5. TrackerType'
  BY <1>1, <1>2, <1>3, <1>4 DEF IInv, TrackerType, Places
<1>6. Covered'
  <2> SUFFICES ASSUME NEW v \in Workers, NEW i \in contexts[v]
               PROVE  \/ i \in Elements(order'[v])
                      \/ \E u \in Threads : /\ WorkerOf[u] = v /\ id[u] = i
                                            /\ pc'[u] \in {"place", "queue"}
    BY <1>1 DEF Covered
  <2>1. CASE \E u \in Threads : WorkerOf[u] = v /\ id[u] = i /\ pc[u] \in {"place", "queue"}
    BY <1>1, <1>4, <2>1
  <2>2. CASE i \in Elements(order[v]) /\ (v # w \/ i # id[t])
    BY <1>3, <1>4, <2>2
  <2>3. CASE v = w /\ i = id[t]
    BY <1>4, <2>3 DEF w
  <2> QED  BY <2>1, <2>2, <2>3 DEF IInv, Covered
<1>7. Bounded'
  BY <1>1, <1>4 DEF IInv, Bounded
<1> QED  BY <1>5, <1>6, <1>7 DEF IInv

LEMMA PlaceStep ==
    ASSUME IInv, NEW t \in Threads, Place(t)
    PROVE  IInv'
<1> DEFINE w == WorkerOf[t]
<1>1. /\ pc[t] = "place" /\ pc' = [pc EXCEPT ![t] = "queue"] /\ id' = id
      /\ contexts' = [contexts EXCEPT ![w] = @ \cup {id[t]}] /\ order' = order
  BY DEF Place, Continue, Goto
<1>2. w \in Workers /\ id[t] \in Ids
  BY <1>1, WorkerFacts DEF IInv, TrackerType
<1>3. /\ pc'[t] = "queue" /\ contexts'[w] = contexts[w] \cup {id[t]}
      /\ \A u \in Threads \ {t} : pc'[u] = pc[u]
      /\ \A v \in Workers \ {w} : contexts'[v] = contexts[v]
  BY <1>1, <1>2 DEF IInv, TrackerType
<1>4. TrackerType'
  BY <1>1, <1>2, <1>3 DEF IInv, TrackerType, Places
<1>5. Covered'
  BY <1>1, <1>3 DEF IInv, Covered
<1>6. Bounded'
  BY <1>1, <1>3 DEF IInv, Bounded
<1> QED  BY <1>4, <1>5, <1>6 DEF IInv

LEMMA EnqueueStep ==
    ASSUME IInv, NEW t \in Threads, Enqueue(t)
    PROVE  IInv'
<1> DEFINE w == WorkerOf[t]
           q == Append(order[w], id[t])
<1>1. /\ pc[t] = "queue" /\ pc' = [pc EXCEPT ![t] = "trim"] /\ id' = id
      /\ contexts' = contexts /\ order' = [order EXCEPT ![w] = q]
  BY DEF Enqueue, Continue, Goto
<1>2. w \in Workers /\ id[t] \in Ids /\ order[w] \in Seq(Ids)
  BY <1>1, WorkerFacts DEF IInv, TrackerType
<1>3. q \in Seq(Ids) /\ Elements(order[w]) \cup {id[t]} \subseteq Elements(q)
  BY <1>2, AppendElements
<1> HIDE DEF q, w
<1>4. /\ pc'[t] = "trim" /\ order'[w] = q
      /\ \A u \in Threads \ {t} : pc'[u] = pc[u]
      /\ \A v \in Workers \ {w} : order'[v] = order[v]
  BY <1>1, <1>2 DEF IInv, TrackerType
<1>5. TrackerType'
  BY <1>1, <1>2, <1>3, <1>4 DEF IInv, TrackerType, Places
<1>6. Covered'
  <2> SUFFICES ASSUME NEW v \in Workers, NEW i \in contexts[v]
               PROVE  \/ i \in Elements(order'[v])
                      \/ \E u \in Threads : /\ WorkerOf[u] = v /\ id[u] = i
                                            /\ pc'[u] \in {"place", "queue"}
    BY <1>1 DEF Covered
  <2>1. CASE i \in Elements(order[v])
    BY <1>3, <1>4, <2>1
  <2>2. ASSUME NEW u \in Threads, WorkerOf[u] = v, id[u] = i, pc[u] \in {"place", "queue"}
        PROVE  \/ i \in Elements(order'[v])
               \/ pc'[u] \in {"place", "queue"}
    BY <1>3, <1>4, <2>2 DEF w
  <2> QED  BY <2>1, <2>2 DEF IInv, Covered
<1>7. Bounded'
  BY <1>1, <1>4 DEF IInv, Bounded
<1> QED  BY <1>5, <1>6, <1>7 DEF IInv

\* The last thread that trims leaves no more than there may be: an empty queue means
\* that another thread is still to queue what is there.
LEMMA TrimStep ==
    ASSUME IInv, NEW t \in Threads, Trim(t)
    PROVE  IInv'
<1> DEFINE w == WorkerOf[t]
<1>1. /\ pc[t] = "trim" /\ id' = id /\ w \in Workers
      /\ order[w] \in Seq(Ids) /\ contexts[w] \subseteq Ids
  BY WorkerFacts DEF Trim, IInv, TrackerType
<1>2. CASE Cardinality(contexts[w]) > MaxContexts /\ order[w] # <<>>
  <2>1. /\ order' = [order EXCEPT ![w] = Tail(order[w])] /\ pc' = pc
        /\ contexts' = [contexts EXCEPT ![w] = contexts[w] \ {Head(order[w])}]
    BY <1>2 DEF Trim
  <2>2. /\ Tail(order[w]) \in Seq(Ids)
        /\ Elements(order[w]) \ {Head(order[w])} \subseteq Elements(Tail(order[w]))
    BY <1>1, <1>2, TailElements
  <2> HIDE DEF w
  <2>3. /\ order'[w] = Tail(order[w]) /\ contexts'[w] = contexts[w] \ {Head(order[w])}
        /\ \A v \in Workers \ {w} : order'[v] = order[v] /\ contexts'[v] = contexts[v]
    BY <1>1, <2>1 DEF IInv, TrackerType
  <2>4. TrackerType'
    BY <1>1, <2>1, <2>2, <2>3 DEF IInv, TrackerType
  <2>5. Covered'
    <3> SUFFICES ASSUME NEW v \in Workers, NEW i \in contexts'[v]
                 PROVE  \/ i \in Elements(order'[v])
                        \/ \E u \in Threads : /\ WorkerOf[u] = v /\ id[u] = i
                                              /\ pc[u] \in {"place", "queue"}
      BY <1>1, <2>1 DEF Covered
    <3>1. i \in contexts[v] /\ (v = w => i # Head(order[w]))
      BY <2>3
    <3> QED  BY <2>2, <2>3, <3>1 DEF IInv, Covered
  <2>6. Bounded'
    BY <1>1, <2>1, <2>3 DEF IInv, Bounded, w
  <2> QED  BY <2>4, <2>5, <2>6 DEF IInv
<1>3. CASE ~(Cardinality(contexts[w]) > MaxContexts /\ order[w] # <<>>)
  <2>1. /\ UNCHANGED <<order, contexts>> /\ pc' = [pc EXCEPT ![t] = "write"]
    BY <1>1, <1>3 DEF Trim, Continue, Goto
  <2>2. pc'[t] = "write" /\ \A u \in Threads \ {t} : pc'[u] = pc[u]
    BY <2>1 DEF IInv, TrackerType
  <2>3. \/ Cardinality(contexts[w]) <= MaxContexts
        \/ \E u \in Threads \ {t} : WorkerOf[u] = w /\ pc[u] \in {"place", "queue"}
    <3>1. Cardinality(contexts[w]) \in Nat /\ MaxContexts \in Nat
      BY <1>1, FS_Subset, FS_CardinalityType, FingerprintStoreAssumption
    <3>2. CASE Cardinality(contexts[w]) > MaxContexts
      <4>1. PICK i \in contexts[w] : TRUE
        <5>1. contexts[w] # {}
          BY <3>2, FS_EmptySet, FingerprintStoreAssumption
        <5> QED  BY <5>1
      <4>2. Elements(order[w]) = {}
        <5>1. order[w] = <<>> /\ DOMAIN <<>> = {}
          BY <1>3, <3>2
        <5> QED  BY <5>1 DEF Elements
      <4> QED  BY <1>1, <4>1, <4>2 DEF IInv, Covered
    <3> QED  BY <3>1, <3>2
  <2> HIDE DEF w
  <2>4. TrackerType'
    BY <1>1, <2>1, <2>2 DEF IInv, TrackerType, Places
  <2>5. Covered'
    BY <1>1, <2>1, <2>2 DEF IInv, Covered
  <2>6. Bounded'
    <3> SUFFICES ASSUME NEW v \in Workers
                 PROVE  \/ Cardinality(contexts[v]) <= MaxContexts
                        \/ \E u \in Threads : /\ WorkerOf[u] = v
                                              /\ pc'[u] \in {"place", "queue", "trim"}
      BY <2>1 DEF Bounded
    <3>1. CASE v = w
      BY <2>2, <2>3, <3>1
    <3>2. CASE v # w
      BY <2>2, <3>2 DEF IInv, Bounded, w
    <3> QED  BY <3>1, <3>2
  <2> QED  BY <2>4, <2>5, <2>6 DEF IInv
<1> QED  BY <1>2, <1>3

\* The threads of a worker that restarts are gone, with what they were to queue.
LEMMA RestartStep ==
    ASSUME IInv, NEW w \in Workers, Restart(w)
    PROVE  IInv'
<1>1. /\ contexts'[w] = {} /\ order'[w] = <<>>
      /\ \A v \in Workers \ {w} : contexts'[v] = contexts[v] /\ order'[v] = order[v]
      /\ \A t \in Threads : WorkerOf[t] # w => pc'[t] = pc[t] /\ id'[t] = id[t]
      /\ \A t \in Threads : WorkerOf[t] = w => pc'[t] = "idle"
  BY DEF Restart, IInv, TrackerType
<1>2. TrackerType'
  <2>1. <<>> \in Seq(Ids)
    BY EmptySeq
  <2> QED  BY <1>1, <2>1 DEF IInv, TrackerType, Restart, Places
<1>3. Covered'
  BY <1>1 DEF IInv, Covered
<1>4. Bounded'
  <2>1. Cardinality({}) <= MaxContexts
    BY FS_EmptySet, FingerprintStoreAssumption
  <2> SUFFICES ASSUME NEW v \in Workers
               PROVE  \/ Cardinality(contexts'[v]) <= MaxContexts
                      \/ \E t \in Threads : /\ WorkerOf[t] = v
                                            /\ pc'[t] \in {"place", "queue", "trim"}
    BY DEF Bounded
  <2>2. CASE v = w
    <3>1. contexts'[v] = {}
      BY <1>1, <2>2
    <3> QED  BY <2>1, <3>1
  <2>3. CASE v # w
    <3>1. /\ contexts'[v] = contexts[v]
          /\ \A t \in Threads : WorkerOf[t] = v => pc'[t] = pc[t]
      BY <1>1, <2>3
    <3> QED  BY <3>1 DEF IInv, Bounded
  <2> QED  BY <2>2, <2>3
<1> QED  BY <1>2, <1>3, <1>4 DEF IInv

-----------------------------------------------------------------------------
(* The theorem                                                               *)

LEMMA InitIInv == Init => IInv
<1> SUFFICES ASSUME Init PROVE IInv
  OBVIOUS
<1>1. <<>> \in Seq(Ids) /\ Cardinality({}) <= MaxContexts
  BY EmptySeq, FS_EmptySet, FingerprintStoreAssumption
<1> QED  BY <1>1 DEF Init, IInv, TrackerType, Covered, Bounded, Places

LEMMA NextIInv == IInv /\ [Next]_vars => IInv'
<1> SUFFICES ASSUME IInv, [Next]_vars PROVE IInv'
  OBVIOUS
<1>1. ASSUME NEW t \in Threads, NEW i \in Ids, NEW m, Save(t, i, m)
      PROVE  IInv'
  <2>1. /\ pc[t] = "idle" /\ UNCHANGED tracker /\ id' = [id EXCEPT ![t] = i]
        /\ pc' = [pc EXCEPT ![t] = IF i \in Summaries THEN "write" ELSE "track"]
    BY <1>1 DEF Save, Goto, tracker
  <2>2. CASE i \in Summaries
    <3>1. pc' = [pc EXCEPT ![t] = "write"]
      BY <2>1, <2>2
    <3> QED  BY <2>1, <3>1, OutsideStep
  <2>3. CASE i \notin Summaries
    <3>1. pc' = [pc EXCEPT ![t] = "track"]
      BY <2>1, <2>3
    <3> QED  BY <2>1, <3>1, OutsideStep
  <2> QED  BY <2>2, <2>3
<1>2. ASSUME NEW t \in Threads, NEW i \in Ids, Scan(t, i)
      PROVE  IInv'
  BY <1>2, OutsideStep DEF Scan, Goto, tracker, private
<1>3. ASSUME NEW t \in Threads, Write(t) \/ WriteFails(t) \/ Read(t)
      PROVE  IInv'
  <2>1. /\ pc[t] \in {"write", "read"} /\ UNCHANGED tracker
        /\ pc' = [pc EXCEPT ![t] = "idle"] /\ id' = [id EXCEPT ![t] = NoId]
    BY <1>3 DEF Write, WriteFails, Read, Finish, Goto, tracker, private
  <2> QED  BY <2>1, OutsideStep
<1>4. ASSUME UNCHANGED <<contexts, order, pc, id>>
      PROVE  IInv'
  BY <1>4 DEF IInv, TrackerType, Covered, Bounded
<1>5. ASSUME NEW t \in Threads, NEW i \in Ids, Find(t, i)
      PROVE  IInv'
  BY <1>4, <1>5 DEF Find, thread
<1>6. CASE Tick \/ UNCHANGED vars
  BY <1>4, <1>6 DEF Tick, vars, private, thread
<1> QED  BY <1>1, <1>2, <1>3, <1>5, <1>6, ForgetStep, PlaceStep, EnqueueStep, TrimStep,
            RestartStep DEF Next

\* Whatever the threads of a worker do to the tracker between two operations of one
\* another's, what is tracked is queued when none of them is in it, and no more is
\* tracked than may be (ContextTracker.track, which no lock protects).
THEOREM TrackerKept == Spec => []TrackerBounded
<1>1. IInv => TrackerBounded
  BY DEF IInv, TrackerBounded, Quiet, Covered, Bounded
<1>2. Spec => []IInv
  BY InitIInv, NextIInv, PTL DEF Spec
<1> QED  BY <1>1, <1>2, PTL

=============================================================================
