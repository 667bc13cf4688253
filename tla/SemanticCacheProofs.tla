------------------------- MODULE SemanticCacheProofs -------------------------
(* Theorems about SemanticCache, for every set of requests and of contexts,   *)
(* every capacity and every time to live.                                     *)
EXTENDS SemanticCache, SequenceTheorems, WellFoundedInduction, TLAPS

-----------------------------------------------------------------------------
(* Tables                                                                    *)

\* Keys in order, each of them once.
Table == {keys \in Seq(Contexts) : IsInjective(keys)}

LEMMA TableFacts ==
    ASSUME NEW keys \in Table
    PROVE  /\ keys \in Seq(Contexts) /\ Len(keys) \in Nat /\ DOMAIN keys = 1..Len(keys)
           /\ \A i \in 1..Len(keys) : keys[i] \in Contexts
           /\ Range(keys) = {keys[i] : i \in 1..Len(keys)} /\ Range(keys) \subseteq Contexts
           /\ \A i, j \in 1..Len(keys) : keys[i] = keys[j] => i = j
BY LenProperties, ElementOfSeq DEF Table, IsInjective, Range

LEMMA MinFacts ==
    ASSUME NEW S \in SUBSET Nat, S # {}
    PROVE  /\ Min(S) \in S
           /\ \A y \in S : Min(S) <= y
<1> DEFINE Less == {ss \in Nat \X Nat : ss[1] < ss[2]}
<1>1. IsWellFoundedOn(Less, Nat)
  BY NatLessThanWellFounded, Zenon DEF OpToRel
<1>2. PICK x \in S : \A y \in S : <<y, x>> \notin Less
  <2> HIDE DEF Less
  <2> QED  BY <1>1, WFMin
<1>3. \A y \in S : x <= y
  <2>1. ASSUME NEW y \in S, y < x  PROVE <<y, x>> \in Less
    BY <2>1
  <2> HIDE DEF Less
  <2>2. \A y \in S : ~(y < x)
    BY <1>2, <2>1
  <2>3. x \in Nat /\ S \subseteq Nat
    OBVIOUS
  <2> QED  BY <2>2, <2>3
<1> HIDE DEF Less
<1>4. \E z \in S : \A y \in S : z <= y
  BY <1>3
<1> QED  BY <1>4, Zenon DEF Min

\* What is left when the keys before p are gone.
LEMMA RestFacts ==
    ASSUME NEW keys \in Table, NEW p \in 1..Len(keys) + 1
    PROVE  LET rest == SubSeq(keys, p, Len(keys)) IN
           /\ rest \in Table /\ Len(rest) = Len(keys) - p + 1
           /\ \A i \in 1..Len(rest) : rest[i] = keys[p + i - 1]
           /\ Range(rest) \subseteq Range(keys)
<1> DEFINE rest == SubSeq(keys, p, Len(keys))
           n == Len(keys)
<1>1. n \in Nat /\ p \in Nat /\ \A i \in p..n : keys[i] \in Contexts
  BY TableFacts
<1>2. /\ rest \in Seq(Contexts)
      /\ Len(rest) = IF p <= n THEN n - p + 1 ELSE 0
      /\ \A i \in 1..n - p + 1 : rest[i] = keys[p + i - 1]
  BY <1>1, SubSeqProperties
<1>3. Len(rest) = n - p + 1 /\ DOMAIN rest = 1..Len(rest)
  BY <1>1, <1>2, LenProperties
<1> HIDE DEF rest
<1>4. IsInjective(rest)
  <2>1. \A i \in 1..Len(rest) : p + i - 1 \in 1..n /\ rest[i] = keys[p + i - 1]
    BY <1>1, <1>2, <1>3
  <2>2. \A i, j \in 1..n : keys[i] = keys[j] => i = j
    BY TableFacts
  <2>3. ASSUME NEW i \in 1..Len(rest), NEW j \in 1..Len(rest), rest[i] = rest[j]
        PROVE  i = j
    <3>1. p + i - 1 = p + j - 1
      BY <2>1, <2>2, <2>3
    <3> QED  BY <1>1, <1>3, <3>1
  <2> QED  BY <1>3, <2>3 DEF IsInjective
<1>5. Range(rest) \subseteq Range(keys)
  <2>1. \A i \in 1..Len(rest) : p + i - 1 \in 1..n
    BY <1>1, <1>3
  <2> QED  BY <1>2, <1>3, <2>1, TableFacts DEF Range
<1> QED  BY <1>2, <1>3, <1>4, <1>5 DEF Table, rest

LEMMA TailFacts ==
    ASSUME NEW keys \in Table, keys # <<>>
    PROVE  /\ Tail(keys) \in Table /\ Len(Tail(keys)) + 1 = Len(keys)
           /\ \A i \in 1..Len(Tail(keys)) : Tail(keys)[i] = keys[1 + i]
           /\ Range(Tail(keys)) \subseteq Range(keys)
<1>1. Len(keys) \in Nat \ {0} /\ keys \in Seq(Contexts)
  BY TableFacts, EmptySeq
<1>2. Tail(keys) = SubSeq(keys, 2, Len(keys)) /\ 2 \in 1..Len(keys) + 1
  BY <1>1, TailIsSubSeq
<1> DEFINE rest == SubSeq(keys, 2, Len(keys))
<1>3. /\ rest \in Table /\ Len(rest) = Len(keys) - 2 + 1
      /\ \A i \in 1..Len(rest) : rest[i] = keys[2 + i - 1]
      /\ Range(rest) \subseteq Range(keys)
  BY <1>2, RestFacts
<1>4. Tail(keys) = rest
  BY <1>2
<1> HIDE DEF rest
<1>5. Len(rest) + 1 = Len(keys) /\ \A i \in 1..Len(rest) : rest[i] = keys[1 + i]
  BY <1>1, <1>3
<1> QED  BY <1>3, <1>4, <1>5

\* A new key at the end.
LEMMA AppendFacts ==
    ASSUME NEW keys \in Table, NEW k \in Contexts, k \notin Range(keys)
    PROVE  /\ Append(keys, k) \in Table /\ Len(Append(keys, k)) = Len(keys) + 1
           /\ \A i \in 1..Len(keys) : Append(keys, k)[i] = keys[i]
           /\ Append(keys, k)[Len(keys) + 1] = k
           /\ Range(Append(keys, k)) = Range(keys) \cup {k}
<1> DEFINE more == Append(keys, k)
<1>1. /\ keys \in Seq(Contexts) /\ Len(keys) \in Nat
      /\ more \in Seq(Contexts) /\ Len(more) = Len(keys) + 1
      /\ \A i \in 1..Len(keys) : more[i] = keys[i]
      /\ more[Len(keys) + 1] = k
  BY TableFacts, AppendProperties
<1>2. DOMAIN more = 1..Len(keys) + 1
  BY <1>1, LenProperties
<1> HIDE DEF more
<1>3. IsInjective(more)
  BY <1>1, <1>2, TableFacts DEF IsInjective
<1>4. Range(more) = Range(keys) \cup {k}
  <2>1. Range(more) = {more[i] : i \in 1..Len(keys) + 1}
    BY <1>2 DEF Range
  <2> QED  BY <1>1, <2>1, TableFacts
<1> QED  BY <1>1, <1>3, <1>4 DEF Table, more

\* A key that is moved to the end; the others stay in their order.
LEMMA TouchedFacts ==
    ASSUME NEW keys \in Table, NEW k \in Range(keys)
    PROVE  LET more == Touched(keys, k) IN
           /\ more \in Table /\ Len(more) = Len(keys) /\ Range(more) = Range(keys)
           /\ Len(more) > 0 /\ more[Len(more)] = k
           /\ \E p \in 1..Len(keys) :
                 /\ keys[p] = k
                 /\ \A i \in 1..Len(keys) - 1 :
                       more[i] = IF i < p THEN keys[i] ELSE keys[i + 1]
<1> DEFINE p == CHOOSE j \in DOMAIN keys : keys[j] = k
           n == Len(keys)
           front == SubSeq(keys, 1, p - 1)
           back == SubSeq(keys, p + 1, n)
           less == RemoveAt(keys, p)
           more == Append(less, k)
<1>1. /\ n \in Nat /\ p \in 1..n /\ keys[p] = k /\ k \in Contexts
      /\ \A i \in 1..n : keys[i] \in Contexts
  BY TableFacts
<1>2. Touched(keys, k) = more
  BY DEF Touched
<1> HIDE DEF p
<1>3. /\ front \in Seq(Contexts) /\ Len(front) = p - 1
      /\ \A i \in 1..p - 1 : front[i] = keys[i]
  <2>1. /\ front \in Seq(Contexts) /\ Len(front) = IF 1 <= p - 1 THEN p - 1 - 1 + 1 ELSE 0
        /\ \A i \in 1..p - 1 - 1 + 1 : front[i] = keys[1 + i - 1]
    BY <1>1, SubSeqProperties
  <2> QED  BY <1>1, <2>1
<1>4. /\ back \in Seq(Contexts) /\ Len(back) = n - p
      /\ \A i \in 1..n - p : back[i] = keys[p + i]
  <2>1. /\ back \in Seq(Contexts)
        /\ Len(back) = IF p + 1 <= n THEN n - (p + 1) + 1 ELSE 0
        /\ \A i \in 1..n - (p + 1) + 1 : back[i] = keys[p + 1 + i - 1]
    BY <1>1, SubSeqProperties
  <2> QED  BY <1>1, <2>1
<1> HIDE DEF front, back, n
<1>5. /\ less \in Seq(Contexts) /\ Len(less) = n - 1
      /\ \A i \in 1..n - 1 : less[i] = IF i < p THEN keys[i] ELSE keys[i + 1]
  <2>1. less = front \o back
    BY DEF RemoveAt, front, back, n
  <2>2. /\ front \o back \in Seq(Contexts)
        /\ Len(front \o back) = Len(front) + Len(back)
        /\ \A i \in 1..Len(front) + Len(back) :
              (front \o back)[i] = IF i <= Len(front) THEN front[i] ELSE back[i - Len(front)]
    BY <1>3, <1>4, ConcatProperties
  <2> QED  BY <1>1, <1>3, <1>4, <2>1, <2>2
<1> HIDE DEF less
<1>6. /\ more \in Seq(Contexts) /\ Len(more) = n
      /\ \A i \in 1..n - 1 : more[i] = less[i]
      /\ more[n] = k
  BY <1>1, <1>5, AppendProperties
<1>7. DOMAIN more = 1..n
  BY <1>6, LenProperties
<1> HIDE DEF more
<1>8. \A i \in 1..n - 1 : more[i] = keys[IF i < p THEN i ELSE i + 1]
  BY <1>5, <1>6
<1>9. \A i, j \in 1..n : keys[i] = keys[j] => i = j
  BY TableFacts DEF n
<1>10. IsInjective(more)
  BY <1>1, <1>6, <1>7, <1>8, <1>9 DEF IsInjective
<1>11. Range(more) = Range(keys)
  <2>1. Range(more) = {more[i] : i \in 1..n} /\ Range(keys) = {keys[i] : i \in 1..n}
    BY <1>7, TableFacts DEF Range, n
  <2>2. ASSUME NEW i \in 1..n  PROVE more[i] \in Range(keys)
    BY <1>1, <1>6, <1>8, <2>1
  <2>3. ASSUME NEW i \in 1..n  PROVE keys[i] \in Range(more)
    <3>1. CASE i < p
      BY <1>1, <1>8, <2>1, <3>1
    <3>2. CASE i = p
      BY <1>1, <1>6, <2>1, <3>2
    <3>3. CASE i > p
      <4>1. i - 1 \in 1..n - 1 /\ ~(i - 1 < p) /\ i - 1 + 1 = i
        BY <1>1, <3>3
      <4>2. more[i - 1] = keys[i]
        BY <1>8, <4>1
      <4> QED  BY <1>1, <2>1, <4>1, <4>2
    <3> QED  BY <1>1, <3>1, <3>2, <3>3
  <2> QED  BY <2>1, <2>2, <2>3
<1>12. \A i \in 1..n - 1 : more[i] = IF i < p THEN keys[i] ELSE keys[i + 1]
  BY <1>5, <1>6
<1>13. more \in Table
  BY <1>6, <1>10 DEF Table
<1> QED  BY <1>1, <1>2, <1>6, <1>11, <1>12, <1>13 DEF n

-----------------------------------------------------------------------------
(* The order of age                                                          *)

\* Of two keys that are not in ms, the one in front was put in first.
Aged(keys, es, ms) ==
    \A i, j \in 1..Len(keys) :
        i < j /\ keys[i] \notin ms /\ keys[j] \notin ms => es[keys[i]].at <= es[keys[j]].at

\* The keys of more that are not in ms come in the order in which they come in keys.
InOrder(more, keys, ms) ==
    \A i, j \in 1..Len(more) :
        i < j /\ more[i] \notin ms /\ more[j] \notin ms =>
            \E a, b \in 1..Len(keys) : a < b /\ keys[a] = more[i] /\ keys[b] = more[j]

LEMMA AgedKept ==
    ASSUME NEW keys \in Table, NEW more \in Table, NEW es, NEW fs, NEW ms, NEW ns,
           Aged(keys, es, ms), InOrder(more, keys, ns),
           \A k \in Range(more) \ ns : k \notin ms /\ fs[k].at = es[k].at
    PROVE  Aged(more, fs, ns)
<1> SUFFICES ASSUME NEW i \in 1..Len(more), NEW j \in 1..Len(more), i < j,
                    more[i] \notin ns, more[j] \notin ns
             PROVE  fs[more[i]].at <= fs[more[j]].at
  BY DEF Aged
<1>1. PICK a \in 1..Len(keys), b \in 1..Len(keys) :
          a < b /\ keys[a] = more[i] /\ keys[b] = more[j]
  BY DEF InOrder
<1>2. more[i] \in Range(more) \ ns /\ more[j] \in Range(more) \ ns
  BY TableFacts
<1>3. es[keys[a]].at <= es[keys[b]].at
  BY <1>1, <1>2 DEF Aged
<1> QED  BY <1>1, <1>2, <1>3

LEMMA RestInOrder ==
    ASSUME NEW keys \in Table, NEW rest \in Table, NEW p \in Nat, NEW ms,
           Len(rest) + p <= Len(keys), \A i \in 1..Len(rest) : rest[i] = keys[p + i]
    PROVE  InOrder(rest, keys, ms)
<1>1. Len(keys) \in Nat /\ Len(rest) \in Nat
  BY TableFacts
<1> SUFFICES ASSUME NEW i \in 1..Len(rest), NEW j \in 1..Len(rest), i < j
             PROVE  \E a, b \in 1..Len(keys) : a < b /\ keys[a] = rest[i] /\ keys[b] = rest[j]
  BY DEF InOrder
<1>2. p + i \in 1..Len(keys) /\ p + j \in 1..Len(keys) /\ p + i < p + j
  BY <1>1
<1> QED  BY <1>2

LEMMA TouchedInOrder ==
    ASSUME NEW keys \in Table, NEW k \in Range(keys), NEW ms, k \in ms
    PROVE  InOrder(Touched(keys, k), keys, ms)
<1> DEFINE more == Touched(keys, k)
<1>1. /\ more \in Table /\ Len(more) = Len(keys) /\ more[Len(more)] = k
      /\ Len(keys) \in Nat
  BY TouchedFacts, TableFacts
<1>2. PICK p \in 1..Len(keys) : \A i \in 1..Len(keys) - 1 :
          more[i] = IF i < p THEN keys[i] ELSE keys[i + 1]
  BY TouchedFacts
<1> HIDE DEF more
<1> SUFFICES ASSUME NEW i \in 1..Len(more), NEW j \in 1..Len(more), i < j,
                    more[i] \notin ms, more[j] \notin ms
             PROVE  \E a, b \in 1..Len(keys) : a < b /\ keys[a] = more[i] /\ keys[b] = more[j]
  BY DEF InOrder, more
<1>3. i \in 1..Len(keys) - 1 /\ j \in 1..Len(keys) - 1
  BY <1>1
<1> DEFINE a == IF i < p THEN i ELSE i + 1
           b == IF j < p THEN j ELSE j + 1
<1>4. a \in 1..Len(keys) /\ b \in 1..Len(keys) /\ a < b
  BY <1>1, <1>3
<1>5. keys[a] = more[i] /\ keys[b] = more[j]
  BY <1>2, <1>3
<1> QED  BY <1>4, <1>5

-----------------------------------------------------------------------------
(* The inductive invariant                                                   *)

\* What is under a key answers it, or what the pipeline makes it of.
Held ==
    \A k \in Range(order) : /\ entry[k].of \in Contexts
                            /\ entry[k].of = k \/ Rewritten[entry[k].of] = k
                            /\ entry[k].at <= now

\* A request that goes upstream asks something.
Asking == \A r \in Requests : phase[r] \in {"sending", "answered"} => context[r] \in Contexts

IInv == TypeOK /\ Held /\ Asking /\ Aged(order, entry, moved)

LEMMA OrderFacts ==
    ASSUME IInv
    PROVE  order \in Table /\ Len(order) \in Nat /\ Range(order) \subseteq Contexts
BY TableFacts DEF IInv, TypeOK, Table

\* The first key that is left has not expired.
LEMMA CleanedFacts ==
    ASSUME IInv
    PROVE  /\ Cleaned \in Table /\ Range(Cleaned) \subseteq Range(order)
           /\ Len(Cleaned) \in 0..MaxEntries
           /\ Len(Cleaned) > 0 => ~Expired(Cleaned[1])
           /\ \E p \in Nat : /\ Len(Cleaned) + p <= Len(order)
                             /\ \A i \in 1..Len(Cleaned) : Cleaned[i] = order[p + i]
<1> DEFINE live == {i \in DOMAIN order : ~Expired(order[i])}
<1>1. order \in Table /\ Len(order) \in Nat /\ DOMAIN order = 1..Len(order)
  BY OrderFacts, TableFacts
<1>2. Len(order) <= MaxEntries /\ MaxEntries \in Nat
  BY CacheAssumption DEF IInv, TypeOK
<1>3. Cleaned = IF live = {} THEN <<>> ELSE SubSeq(order, Min(live), Len(order))
  BY DEF Cleaned
<1>4. live \subseteq 1..Len(order) /\ \A i \in live : ~Expired(order[i])
  BY <1>1
<1> HIDE DEF live
<1>5. CASE live = {}
  <2>1. Cleaned = <<>> /\ DOMAIN Cleaned = {} /\ Len(Cleaned) = 0 /\ Cleaned \in Seq(Contexts)
    BY <1>3, <1>5, EmptySeq
  <2>2. Cleaned \in Table /\ Range(Cleaned) = {}
    BY <2>1 DEF Table, Range, IsInjective
  <2>3. 0 \in Nat /\ Len(Cleaned) + 0 <= Len(order)
    BY <1>1, <2>1
  <2> QED  BY <1>2, <2>1, <2>2, <2>3
<1>6. CASE live # {}
  <2> DEFINE m == Min(live)
             p == m - 1
  <2>1. m \in live
    BY <1>4, <1>6, MinFacts
  <2>2. Cleaned = SubSeq(order, m, Len(order))
    BY <1>3, <1>6
  <2> HIDE DEF m
  <2>3. m \in 1..Len(order) /\ m \in 1..Len(order) + 1
    BY <1>1, <1>4, <2>1
  <2>4. /\ Cleaned \in Table /\ Len(Cleaned) = Len(order) - m + 1
        /\ \A i \in 1..Len(Cleaned) : Cleaned[i] = order[m + i - 1]
        /\ Range(Cleaned) \subseteq Range(order)
    BY <1>1, <2>2, <2>3, RestFacts
  <2>5. p \in Nat /\ Len(Cleaned) + p <= Len(order) /\ Len(Cleaned) \in 0..MaxEntries
    BY <1>1, <1>2, <2>3, <2>4
  <2>6. \A i \in 1..Len(Cleaned) : Cleaned[i] = order[p + i]
    BY <1>1, <2>3, <2>4
  <2>7. ~Expired(Cleaned[1])
    <3>1. 1 \in 1..Len(Cleaned) /\ m + 1 - 1 = m
      BY <1>1, <2>3, <2>4
    <3> QED  BY <1>4, <2>1, <2>4, <3>1
  <2> QED  BY <2>4, <2>5, <2>6, <2>7
<1> QED  BY <1>5, <1>6

LEMMA CleanedInOrder ==
    ASSUME IInv, NEW ms
    PROVE  InOrder(Cleaned, order, ms)
BY CleanedFacts, OrderFacts, RestInOrder

\* Entries of the keys that are left.
LEMMA EntriesFacts ==
    ASSUME IInv, NEW keys \in Table
    PROVE  /\ Entries(keys) \in [Contexts -> Entry]
           /\ \A k \in Range(keys) : Entries(keys)[k] = entry[k]
<1>1. NoEntry \in Entry
  BY CacheAssumption DEF NoEntry, Entry
<1>2. Range(keys) \subseteq Contexts
  BY TableFacts
<1> QED  BY <1>1, <1>2 DEF Entries, IInv, TypeOK

-----------------------------------------------------------------------------
(* The actions                                                               *)

\* The table's part of the invariant, when some of its entries are left.
LEMMA KeptTable ==
    ASSUME IInv, now' = now, NEW keys \in Table, NEW ms,
           Range(keys) \subseteq Range(Cleaned), InOrder(keys, Cleaned, ms),
           moved \cap Range(keys) \subseteq ms, ms \subseteq Range(keys),
           Len(keys) <= MaxEntries,
           order' = keys, entry' = Entries(keys), moved' = ms
    PROVE  /\ order' \in Seq(Contexts) /\ IsInjective(order') /\ Len(order') <= MaxEntries
           /\ entry' \in [Contexts -> Entry] /\ moved' \subseteq Range(order')
           /\ Held' /\ Aged(order, entry, moved)'
<1>1. \A k \in Range(keys) : entry'[k] = entry[k]
  BY EntriesFacts
<1>2. Held'
  <2>1. Range(order') \subseteq Range(order)
    BY CleanedFacts
  <2> QED  BY <1>1, <2>1 DEF Held, IInv
<1>3. Aged(Cleaned, entry, moved)
  BY CleanedFacts, CleanedInOrder, OrderFacts, AgedKept DEF IInv
<1>4. Aged(order, entry, moved)'
  <2>1. Aged(keys, entry', ms)
    BY <1>1, <1>3, CleanedFacts, AgedKept
  <2> QED  BY <2>1 DEF Aged
<1>5. entry' \in [Contexts -> Entry]
  BY EntriesFacts
<1> QED  BY <1>2, <1>4, <1>5 DEF Table

LEMMA HitStep ==
    ASSUME IInv, now' = now, NEW r \in Requests, NEW k \in Range(Cleaned), Hit(r, Cleaned, k)
    PROVE  /\ order' \in Seq(Contexts) /\ IsInjective(order') /\ Len(order') <= MaxEntries
           /\ entry' \in [Contexts -> Entry] /\ moved' \subseteq Range(order')
           /\ answer' \in [Requests -> Answer]
           /\ Held' /\ Aged(order, entry, moved)'
<1> DEFINE keys == Touched(Cleaned, k)
           ms == (moved \cap Range(Cleaned)) \cup {k}
<1>1. /\ keys \in Table /\ Range(keys) = Range(Cleaned) /\ Len(keys) <= MaxEntries
      /\ InOrder(keys, Cleaned, ms)
  BY CleanedFacts, TouchedFacts, TouchedInOrder
<1>2. order' = keys /\ entry' = Entries(keys) /\ moved' = ms
  <2>1. Entries(keys) = Entries(Cleaned)
    BY <1>1 DEF Entries
  <2> QED  BY <2>1 DEF Hit
<1>3. answer' \in [Requests -> Answer]
  <2>1. k \in Contexts
    BY CleanedFacts, TableFacts
  <2>2. [of |-> entry[k].of, at |-> entry[k].at] \in Answer
    BY <2>1 DEF IInv, TypeOK, Entry, Answer
  <2> QED  BY <2>2 DEF Hit, IInv, TypeOK
<1>4. moved \cap Range(keys) \subseteq ms /\ ms \subseteq Range(keys)
  BY <1>1
<1> HIDE DEF keys, ms
<1> QED  BY <1>1, <1>2, <1>3, <1>4, KeptTable

LEMMA MissStep ==
    ASSUME IInv, now' = now, NEW r \in Requests, Miss(r, Cleaned)
    PROVE  /\ order' \in Seq(Contexts) /\ IsInjective(order') /\ Len(order') <= MaxEntries
           /\ entry' \in [Contexts -> Entry] /\ moved' \subseteq Range(order')
           /\ answer' \in [Requests -> Answer]
           /\ Held' /\ Aged(order, entry, moved)'
<1>1. InOrder(Cleaned, Cleaned, moved \cap Range(Cleaned))
  BY DEF InOrder
<1> DEFINE keys == Cleaned
<1>2. /\ order' = keys /\ entry' = Entries(keys) /\ moved' = moved \cap Range(keys)
      /\ answer' = answer
  BY DEF Miss
<1>3. keys \in Table /\ Len(keys) <= MaxEntries
  BY CleanedFacts
<1> QED  BY <1>1, <1>2, <1>3, KeptTable DEF IInv, TypeOK

LEMMA GetStep ==
    ASSUME IInv, NEW r \in Requests, NEW c \in Contexts, Get(r, c)
    PROVE  IInv'
<1>1. now' = now /\ tries' = tries /\ context' = [context EXCEPT ![r] = c]
  BY DEF Get
<1>2. /\ (\E k \in Range(Cleaned) : Hit(r, Cleaned, k)) \/ Miss(r, Cleaned)
  BY DEF Get, Similar
<1>3. phase' \in [Requests -> {"idle", "sending", "answered", "done"}]
  BY <1>2 DEF Hit, Miss, IInv, TypeOK
<1>4. /\ order' \in Seq(Contexts) /\ IsInjective(order') /\ Len(order') <= MaxEntries
      /\ entry' \in [Contexts -> Entry] /\ moved' \subseteq Range(order')
      /\ answer' \in [Requests -> Answer]
      /\ Held' /\ Aged(order, entry, moved)'
  BY <1>1, <1>2, HitStep, MissStep
<1>5. context' \in [Requests -> Contexts \cup {NoContext}]
  BY <1>1 DEF IInv, TypeOK
<1>6. Asking'
  <2>1. \A s \in Requests \ {r} : phase'[s] = phase[s] /\ context'[s] = context[s]
    BY <1>1, <1>2 DEF Hit, Miss, IInv, TypeOK
  <2>2. context'[r] = c
    BY <1>1 DEF IInv, TypeOK
  <2> QED  BY <2>1, <2>2 DEF IInv, Asking
<1> QED  BY <1>1, <1>3, <1>4, <1>5, <1>6 DEF IInv, TypeOK

LEMMA EvictedFacts ==
    ASSUME IInv, NEW k \in Contexts
    PROVE  LET keys == Evicted(Cleaned, k) IN
           /\ keys \in Table /\ Range(keys) \subseteq Range(Cleaned)
           /\ k \in Range(keys) => Len(keys) <= MaxEntries
           /\ k \notin Range(keys) => Len(keys) < MaxEntries
           /\ \A ms : InOrder(keys, Cleaned, ms)
<1>1. /\ Cleaned \in Table /\ Len(Cleaned) \in 0..MaxEntries
      /\ MaxEntries \in Nat \ {0}
  BY CleanedFacts, CacheAssumption
<1>2. CASE k \in Range(Cleaned) \/ Len(Cleaned) < MaxEntries
  <2>1. Evicted(Cleaned, k) = Cleaned
    BY <1>2 DEF Evicted
  <2>2. \A ms : InOrder(Cleaned, Cleaned, ms)
    BY DEF InOrder
  <2> QED  BY <1>1, <1>2, <2>1, <2>2
<1>3. CASE k \notin Range(Cleaned) /\ ~(Len(Cleaned) < MaxEntries)
  <2>1. Evicted(Cleaned, k) = Tail(Cleaned) /\ Cleaned # <<>>
    BY <1>1, <1>3 DEF Evicted
  <2>2. /\ Tail(Cleaned) \in Table /\ Len(Tail(Cleaned)) + 1 = Len(Cleaned)
        /\ \A i \in 1..Len(Tail(Cleaned)) : Tail(Cleaned)[i] = Cleaned[1 + i]
        /\ Range(Tail(Cleaned)) \subseteq Range(Cleaned)
    BY <1>1, <2>1, TailFacts
  <2>3. Len(Tail(Cleaned)) + 1 <= Len(Cleaned)
    <3>1. \A m, n : n \in Nat /\ m = n => m <= n
      OBVIOUS
    <3>2. Len(Cleaned) \in Nat
      BY <1>1, TableFacts
    <3> QED  BY <2>2, <3>1, <3>2, Zenon
  <2>4. \A ms : InOrder(Tail(Cleaned), Cleaned, ms)
    BY <1>1, <2>2, <2>3, RestInOrder
  <2> QED  BY <1>1, <1>3, <2>1, <2>2, <2>4
<1> QED  BY <1>2, <1>3

\* Under key k is what is put in now.
LEMMA PutStep ==
    ASSUME IInv, NEW r \in Requests, NEW k \in Contexts, Put(r, k)
    PROVE  IInv'
<1> DEFINE keys == Evicted(Cleaned, k)
           new == [query |-> Query[context[r]], of |-> context[r], at |-> now]
<1>1. /\ context[r] \in Contexts /\ (new.of = k \/ Rewritten[new.of] = k)
      /\ now \in 0..MaxNow /\ now \in Nat
      /\ new.of \in Contexts /\ new.at = now
  BY CacheAssumption DEF IInv, TypeOK, Asking, Put
<1>2. new \in Entry
  BY <1>1 DEF Entry, Texts
<1>3. /\ order' = IF k \in Range(keys) THEN keys ELSE Append(keys, k)
      /\ moved' = (moved \cap Range(keys)) \cup (Range(keys) \cap {k})
      /\ entry' = [Entries(keys) EXCEPT ![k] = new]
      /\ now' = now /\ context' = context /\ tries' = tries /\ Replies(r)
  BY DEF Put
<1>4. /\ keys \in Table /\ Range(keys) \subseteq Range(Cleaned)
      /\ k \in Range(keys) => Len(keys) <= MaxEntries
      /\ k \notin Range(keys) => Len(keys) < MaxEntries
      /\ \A ms : InOrder(keys, Cleaned, ms)
  BY EvictedFacts
<1> HIDE DEF keys, new
<1>5. /\ Len(keys) \in Nat /\ MaxEntries \in Nat /\ DOMAIN keys = 1..Len(keys)
      /\ Range(keys) \subseteq Contexts
      /\ Range(keys) = {keys[i] : i \in 1..Len(keys)}
  BY <1>4, TableFacts, CacheAssumption
<1>6. /\ entry' \in [Contexts -> Entry] /\ entry'[k] = new
      /\ \A j \in Range(keys) \ {k} : entry'[j] = entry[j]
  <2>1. /\ Entries(keys) \in [Contexts -> Entry]
        /\ \A j \in Range(keys) : Entries(keys)[j] = entry[j]
    BY <1>4, EntriesFacts
  <2> QED  BY <1>2, <1>3, <1>5, <2>1
<1>7. /\ order' \in Table /\ Len(order') <= MaxEntries
      /\ Range(order') = Range(keys) \cup {k}
  <2>1. CASE k \in Range(keys)
    BY <1>3, <1>4, <2>1
  <2>2. CASE k \notin Range(keys)
    BY <1>3, <1>4, <1>5, <2>2, AppendFacts
  <2> QED  BY <2>1, <2>2
<1>8. Held'
  <2>1. \A j \in Range(keys) : /\ entry[j].of \in Contexts
                               /\ entry[j].of = j \/ Rewritten[entry[j].of] = j
                               /\ entry[j].at <= now
    BY <1>4, CleanedFacts DEF IInv, Held
  <2>2. now <= now
    BY <1>1
  <2> QED  BY <1>1, <1>3, <1>6, <1>7, <2>1, <2>2 DEF Held
<1>9. Aged(keys, entry, moved)
  <2>1. Aged(Cleaned, entry, moved)
    BY CleanedFacts, CleanedInOrder, OrderFacts, AgedKept DEF IInv
  <2> QED  BY <1>4, <2>1, CleanedFacts, AgedKept
<1>10. Aged(order, entry, moved)'
  <2>1. CASE k \in Range(keys)
    <3>1. order' = keys /\ moved' = (moved \cap Range(keys)) \cup {k}
      BY <1>3, <2>1
    <3>2. Aged(keys, entry', moved')
      <4>1. InOrder(keys, keys, moved')
        BY DEF InOrder
      <4>2. \A j \in Range(keys) \ moved' : j \notin moved /\ entry'[j].at = entry[j].at
        BY <1>6, <3>1
      <4> QED  BY <1>4, <1>9, <4>1, <4>2, AgedKept
    <3> QED  BY <3>1, <3>2 DEF Aged
  <2>2. CASE k \notin Range(keys)
    <3>1. /\ order' = Append(keys, k) /\ moved' = moved \cap Range(keys)
          /\ Len(order') = Len(keys) + 1
          /\ \A i \in 1..Len(keys) : order'[i] = keys[i]
          /\ order'[Len(keys) + 1] = k
      BY <1>3, <1>4, <2>2, AppendFacts
    <3>2. \A j \in Range(keys) : entry'[j] = entry[j] /\ entry[j].at <= now
      BY <1>4, <1>6, <2>2, CleanedFacts DEF IInv, Held
    <3> SUFFICES ASSUME NEW i \in 1..Len(keys) + 1, NEW j \in 1..Len(keys) + 1, i < j,
                        order'[i] \notin moved', order'[j] \notin moved'
                 PROVE  entry'[order'[i]].at <= entry'[order'[j]].at
      BY <3>1 DEF Aged
    <3>3. i \in 1..Len(keys) /\ order'[i] = keys[i] /\ keys[i] \in Range(keys)
      BY <1>5, <3>1
    <3>4. CASE j = Len(keys) + 1
      BY <1>1, <1>6, <3>1, <3>2, <3>3, <3>4
    <3>5. CASE j # Len(keys) + 1
      <4>1. j \in 1..Len(keys) /\ order'[j] = keys[j] /\ keys[j] \in Range(keys)
        BY <1>5, <3>1, <3>5
      <4>2. keys[i] \notin moved /\ keys[j] \notin moved
        BY <3>1, <3>3, <4>1
      <4>3. entry[keys[i]].at <= entry[keys[j]].at
        BY <1>9, <3>3, <4>1, <4>2 DEF Aged
      <4> QED  BY <3>2, <3>3, <4>1, <4>3
    <3> QED  BY <3>4, <3>5
  <2> QED  BY <2>1, <2>2
<1>11. /\ answer' \in [Requests -> Answer] /\ Asking'
       /\ phase' \in [Requests -> {"idle", "sending", "answered", "done"}]
  <2>1. [of |-> context[r], at |-> now] \in Answer
    BY DEF IInv, TypeOK, Answer
  <2>2. /\ answer' = [answer EXCEPT ![r] = [of |-> context[r], at |-> now]]
        /\ phase' = [phase EXCEPT ![r] = "done"]
    BY <1>3 DEF Replies
  <2>3. answer' \in [Requests -> Answer]
    BY <2>1, <2>2 DEF IInv, TypeOK
  <2> QED  BY <1>3, <2>2, <2>3 DEF IInv, TypeOK, Asking
<1>12. TypeOK'
  <2>1. moved' \subseteq Range(order')
    BY <1>3, <1>7
  <2>2. order' \in Seq(Contexts) /\ IsInjective(order')
    BY <1>7 DEF Table
  <2> QED  BY <1>3, <1>6, <1>7, <1>11, <2>1, <2>2 DEF IInv, TypeOK
<1> QED  BY <1>8, <1>10, <1>11, <1>12 DEF IInv

\* Steps that leave the table as it is.
LEMMA OtherStep ==
    ASSUME IInv,
           \/ Tick \/ UNCHANGED vars
           \/ \E r \in Requests : Send(r) \/ Break(r) \/ PassOn(r) \/ Leave(r)
    PROVE  IInv'
<1>1. UNCHANGED <<order, entry, moved>>
  BY DEF Tick, vars, Send, Break, PassOn, Leave
<1>2. now \in Nat /\ now' \in 0..MaxNow /\ now <= now'
  BY CacheAssumption DEF IInv, TypeOK, Tick, vars, Send, Break, PassOn, Leave
<1>3. Aged(order, entry, moved)'
  BY <1>1 DEF IInv, Aged
<1>4. Held'
  <2>1. \A k \in Range(order) : entry[k].at \in Nat /\ entry[k].at <= now
    BY OrderFacts DEF IInv, TypeOK, Entry, Held
  <2>2. \A k \in Range(order) : entry[k].at <= now'
    BY <1>2, <2>1
  <2> QED  BY <1>1, <2>2 DEF IInv, Held
<1>5. TypeOK' /\ Asking'
  <2>1. CASE Tick \/ UNCHANGED vars
    BY <1>1, <1>2, <2>1 DEF IInv, TypeOK, Asking, Tick, vars
  <2>2. ASSUME NEW r \in Requests, Send(r) \/ Break(r)  PROVE TypeOK' /\ Asking'
    <3>1. tries' \in [Requests -> 0..Attempts]
      BY <2>2, CacheAssumption DEF IInv, TypeOK, Send, Break
    <3>2. phase' \in [Requests -> {"idle", "sending", "answered", "done"}]
      BY <2>2 DEF IInv, TypeOK, Send, Break
    <3>3. /\ context' = context /\ answer' = answer /\ phase[r] = "sending"
          /\ \A s \in Requests \ {r} : phase'[s] = phase[s]
      BY <2>2 DEF IInv, TypeOK, Send, Break
    <3> QED  BY <1>1, <1>2, <3>1, <3>2, <3>3 DEF IInv, TypeOK, Asking
  <2>3. ASSUME NEW r \in Requests, PassOn(r)  PROVE TypeOK' /\ Asking'
    <3>1. [of |-> context[r], at |-> now] \in Answer
      BY DEF IInv, TypeOK, Answer
    <3> QED  BY <1>1, <1>2, <2>3, <3>1 DEF IInv, TypeOK, Asking, PassOn, Replies
  <2>4. ASSUME NEW r \in Requests, Leave(r)  PROVE TypeOK' /\ Asking'
    <3>1. NoAnswer \in Answer /\ 0 \in 0..Attempts
      BY CacheAssumption DEF NoAnswer, Answer
    <3> QED  BY <1>1, <1>2, <2>4, <3>1 DEF IInv, TypeOK, Asking, Leave
  <2> QED  BY <2>1, <2>2, <2>3, <2>4
<1> QED  BY <1>3, <1>4, <1>5 DEF IInv

-----------------------------------------------------------------------------
(* The theorems                                                              *)

LEMMA InitIInv == Init => IInv
<1> SUFFICES ASSUME Init PROVE IInv
  OBVIOUS
<1>1. <<>> \in Seq(Contexts) /\ Len(<<>>) = 0 /\ DOMAIN <<>> = {}
  BY EmptySeq
<1>2. NoEntry \in Entry /\ NoAnswer \in Answer
  BY CacheAssumption DEF NoEntry, Entry, NoAnswer, Answer
<1>3. TypeOK
  BY <1>1, <1>2, CacheAssumption DEF Init, TypeOK, IsInjective
<1>4. Held /\ Asking /\ Aged(order, entry, moved)
  BY <1>1 DEF Init, Held, Asking, Aged, Range
<1> QED  BY <1>3, <1>4 DEF IInv

LEMMA NextIInv == IInv /\ [Next]_vars => IInv'
BY GetStep, PutStep, OtherStep DEF Next

LEMMA Invariance == Spec => []IInv
BY InitIInv, NextIInv, PTL DEF Spec

\* The table never holds a key twice nor more entries than it may, whatever requests
\* come between the look-up of one and its answer (class SemanticCache), and
\* forward_request sends no more often than it may.
THEOREM TypeCorrect == Spec => []TypeOK
BY Invariance, PTL DEF IInv

\* A request that is served from the cache.
LEMMA HitServes ==
    ASSUME IInv, NEW r \in Requests, NEW c \in Contexts, NEW k \in Range(Cleaned),
           Hit(r, Cleaned, k), context' = [context EXCEPT ![r] = c],
           k = c \/ Query[c] # NoQuery
    PROVE  /\ \/ now - answer'[r].at <= TTL
              \/ Last(order') \in moved \/ Head(order') \in moved
           /\ Query[context'[r]] = NoQuery => Exact(r)'
<1>1. answer'[r] = [of |-> entry[k].of, at |-> entry[k].at] /\ context'[r] = c
  BY DEF Hit, IInv, TypeOK
<1>2. Query[context'[r]] = NoQuery => Exact(r)'
  <2>1. k \in Range(order)
    BY CleanedFacts
  <2> QED  BY <1>1, <2>1 DEF IInv, Held, Exact
<1>3. /\ order' \in Table /\ Len(order') = Len(Cleaned) /\ Len(order') > 0
      /\ order'[Len(order')] = k
      /\ Len(Cleaned) \in Nat /\ Cleaned \in Table
  BY CleanedFacts, TableFacts, TouchedFacts DEF Hit
<1>4. PICK p \in 1..Len(Cleaned) :
          /\ Cleaned[p] = k
          /\ \A i \in 1..Len(Cleaned) - 1 :
                order'[i] = IF i < p THEN Cleaned[i] ELSE Cleaned[i + 1]
  <2> DEFINE more == Touched(Cleaned, k)
  <2>1. order' = more
    BY DEF Hit
  <2>2. \E p \in 1..Len(Cleaned) :
            /\ Cleaned[p] = k
            /\ \A i \in 1..Len(Cleaned) - 1 :
                  more[i] = IF i < p THEN Cleaned[i] ELSE Cleaned[i + 1]
    BY <1>3, TouchedFacts
  <2> HIDE DEF more
  <2> QED  BY <2>1, <2>2
<1>5. Last(order') = k
  BY <1>3 DEF Last
<1>6. Head(order') = order'[1]
  BY <1>3 DEF Table
<1>7. ~Expired(Cleaned[1])
  BY <1>3, CleanedFacts
<1>8. /\ now \in Nat /\ TTL \in Nat
      /\ \A j \in Range(Cleaned) : entry[j].at \in Nat
  BY CacheAssumption, CleanedFacts, TableFacts DEF IInv, TypeOK, Entry
<1>9. now - entry[k].at <= TTL \/ k \in moved \/ Head(order') \in moved
  <2>1. CASE p = 1
    BY <1>4, <1>7, <1>8, <2>1 DEF Expired
  <2>2. CASE p # 1 /\ k \notin moved /\ Head(order') \notin moved
    <3>1. 1 \in 1..Len(Cleaned) /\ 1 \in 1..Len(Cleaned) - 1 /\ 1 < p
      BY <1>3, <1>4, <2>2
    <3>2. Head(order') = Cleaned[1] /\ Cleaned[1] \in Range(Cleaned)
      BY <1>3, <1>4, <1>6, <3>1, TableFacts
    <3>3. Aged(Cleaned, entry, moved)
      BY CleanedFacts, CleanedInOrder, OrderFacts, AgedKept DEF IInv
    <3>4. entry[Cleaned[1]].at <= entry[k].at
      BY <1>4, <2>2, <3>1, <3>2, <3>3 DEF Aged
    <3> QED  BY <1>7, <1>8, <3>2, <3>4 DEF Expired
  <2> QED  BY <2>1, <2>2
<1> QED  BY <1>1, <1>2, <1>5, <1>9

\* A served answer is young enough, unless hits have taken the table out of the order
\* of age, and a request without a text of the user is only served what answers its
\* own context, or one that the pipeline makes it of: in every order of look-ups,
\* answers and evictions (SemanticCache.get, put and _cleanup_expired).
THEOREM ServesRight == Spec => ServedRight
<1>1. ASSUME IInv, [Next]_vars, NEW r \in Requests, phase[r] = "idle", phase'[r] = "done"
      PROVE  /\ \/ now - answer'[r].at <= TTL
                \/ Last(order') \in moved \/ Head(order') \in moved
             /\ Query[context'[r]] = NoQuery => Exact(r)'
  <2>1. PICK c \in Contexts : Get(r, c)
    <3>1. ASSUME NEW s \in Requests, NEW c \in Contexts, Get(s, c)
          PROVE  s = r
      BY <1>1, <3>1 DEF Get, Hit, Miss, IInv, TypeOK
    <3>2. ASSUME NEW s \in Requests, NEW k \in Contexts, Put(s, k)
          PROVE  FALSE
      BY <1>1, <3>2 DEF Put, Replies, IInv, TypeOK
    <3>3. ASSUME NEW s \in Requests, Send(s) \/ Break(s) \/ PassOn(s) \/ Leave(s)
          PROVE  FALSE
      BY <1>1, <3>3 DEF Send, Break, PassOn, Replies, Leave, IInv, TypeOK
    <3>4. ~Tick /\ ~UNCHANGED vars
      BY <1>1 DEF Tick, vars
    <3> QED  BY <1>1, <3>1, <3>2, <3>3, <3>4 DEF Next
  <2>2. PICK k \in Range(Cleaned) : Hit(r, Cleaned, k) /\ (k = c \/ Query[c] # NoQuery)
    <3>1. ~Miss(r, Cleaned)
      BY <1>1 DEF Miss, IInv, TypeOK
    <3> QED  BY <2>1, <3>1 DEF Get, Similar
  <2>3. context' = [context EXCEPT ![r] = c]
    BY <2>1 DEF Get
  <2> QED  BY <1>1, <2>2, <2>3, HitServes
<1>2. IInv /\ [Next]_vars =>
        [\A r \in Requests : phase[r] = "idle" /\ phase'[r] = "done" =>
            /\ \/ now - answer'[r].at <= TTL
               \/ Last(order') \in moved \/ Head(order') \in moved
            /\ Query[context'[r]] = NoQuery => Exact(r)']_vars
  BY <1>1
<1> QED  BY <1>2, Invariance, PTL DEF Spec, ServedRight

=============================================================================
