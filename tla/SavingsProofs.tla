---------------------------- MODULE SavingsProofs ----------------------------
(***************************************************************************)
(* Theorems about what is saved, and about what is said of it: Folding, for *)
(* every script of conversations and every choice of the texts that the     *)
(* compressors know how to shorten; and SavingsLedger, for any number of    *)
(* processes, files, events and faults.                                     *)
(***************************************************************************)
EXTENDS Folding, SavingsLedger, SequenceTheorems, FiniteSetTheorems,
        WellFoundedInduction, TLAPS

-----------------------------------------------------------------------------
(* Forms                                                                     *)

\* A record with the fields of a form.
Shaped(f) == f = [kind |-> f.kind, text |-> f.text, base |-> f.base, ref |-> f.ref]

LEMMA RefSet ==
    ASSUME NEW f, Shaped(f), NEW b
    PROVE  [f EXCEPT !.ref = b] = [kind |-> f.kind, text |-> f.text, base |-> f.base, ref |-> b]
BY DEF Shaped

\* What becomes a reference is what it was before, when it is none again.
LEMMA RefFacts ==
    ASSUME NEW f, Shaped(f), NEW b
    PROVE  LET g == [f EXCEPT !.ref = b] IN
           Shaped(g) /\ g.ref = b /\ [g EXCEPT !.ref = f.ref] = f
<1> DEFINE g == [f EXCEPT !.ref = b]
<1>1. g = [kind |-> f.kind, text |-> f.text, base |-> f.base, ref |-> b]
  BY RefSet
<1> HIDE DEF g
<1>2. /\ g.kind = f.kind /\ g.text = f.text /\ g.base = f.base /\ g.ref = b
      /\ Shaped(g)
  BY <1>1 DEF Shaped
<1> DEFINE h == [g EXCEPT !.ref = f.ref]
<1>3. h = [kind |-> g.kind, text |-> g.text, base |-> g.base, ref |-> f.ref]
  BY <1>2, RefSet
<1> HIDE DEF h
<1>4. h = f
  BY <1>2, <1>3 DEF Shaped
<1> QED  BY <1>2, <1>4 DEF g, h

IsReference(f) == f.ref
Reference(f) == [f EXCEPT !.ref = TRUE]
Original(f) == [f EXCEPT !.ref = FALSE]

LEMMA ReferenceFacts ==
    ASSUME NEW f, Shaped(f), f.ref = FALSE
    PROVE  /\ Shaped(Reference(f)) /\ IsReference(Reference(f)) /\ ~IsReference(f)
           /\ Original(Reference(f)) = f
<1> DEFINE b == TRUE
           g == [f EXCEPT !.ref = b]
<1> HIDE DEF b
<1>1. Shaped(g) /\ g.ref = b /\ [g EXCEPT !.ref = f.ref] = f
  BY RefFacts
<1>2. Reference(f) = g
  BY DEF Reference, b
<1> HIDE DEF g
<1>3. Original(g) = f
  BY <1>1 DEF Original
<1>4. IsReference(g)
  BY <1>1 DEF IsReference, b
<1>5. ~IsReference(f)
  BY DEF IsReference
<1> QED  BY <1>1, <1>2, <1>3, <1>4, <1>5

LEMMA ShortenFacts ==
    ASSUME NEW f, Shaped(f), NEW kind, NEW texts
    PROVE  LET g == Shorten(f, kind, texts) IN
           /\ Shaped(g) /\ g.ref = f.ref /\ (IsReference(g) <=> IsReference(f))
           /\ IsReference(f) => g = f
<1> DEFINE g == Shorten(f, kind, texts)
<1>1. CASE Untouched(f) /\ f.text \in texts
  <2>1. g = [f EXCEPT !.kind = kind] /\ ~IsReference(f)
    BY <1>1 DEF Shorten, Untouched, IsReference
  <2>2. g = [kind |-> kind, text |-> f.text, base |-> f.base, ref |-> f.ref]
    BY <2>1 DEF Shaped
  <2> HIDE DEF g
  <2>3. Shaped(g) /\ g.ref = f.ref
    BY <2>2 DEF Shaped
  <2>4. IsReference(g) <=> IsReference(f)
    BY <2>3, Zenon DEF IsReference
  <2> QED  BY <2>1, <2>3, <2>4 DEF g
<1>2. CASE ~(Untouched(f) /\ f.text \in texts)
  <2>1. g = f
    BY <1>2 DEF Shorten
  <2> QED  BY <2>1
<1> QED  BY <1>1, <1>2

\* The compressors after dedup keep a reference, and make none.
LEMMA AfterDedupFacts ==
    ASSUME NEW f, Shaped(f)
    PROVE  /\ IsReference(AfterDedup(f)) <=> IsReference(f)
           /\ IsReference(f) => AfterDedup(f) = f
<1> DEFINE Kept(g) == /\ Shaped(g) /\ (IsReference(g) <=> IsReference(f))
                      /\ IsReference(f) => g = f
<1>1. ASSUME NEW g, Kept(g), NEW kind, NEW texts  PROVE Kept(Shorten(g, kind, texts))
  <2> DEFINE h == Shorten(g, kind, texts)
  <2>1. Shaped(h) /\ (IsReference(h) <=> IsReference(g)) /\ (IsReference(g) => h = g)
    BY <1>1, ShortenFacts
  <2> HIDE DEF h
  <2>2. Kept(h)
    BY <1>1, <2>1
  <2> QED  BY <2>2 DEF h
<1>2. Kept(f)
  OBVIOUS
<1> DEFINE skeleton == Skeletonize(f)
           excerpt == TruncateLog(skeleton)
           tidy == Clean(excerpt)
           merged == MergeProgress(tidy)
           folded == FoldStacktrace(merged)
           rows == CompressJSON(folded)
<1> HIDE DEF Kept
<1>3. Kept(skeleton)
  <2>1. Kept(TreeSitter(f))
    BY <1>1, <1>2 DEF TreeSitter
  <2>2. Kept(PythonAST(TreeSitter(f)))
    BY <1>1, <2>1 DEF PythonAST
  <2>3. Kept(GenericBrace(PythonAST(TreeSitter(f))))
    BY <1>1, <2>2 DEF GenericBrace
  <2> QED  BY <1>2, <2>3 DEF Skeletonize
<1> HIDE DEF skeleton
<1>4. Kept(excerpt)
  BY <1>1, <1>3 DEF TruncateLog
<1> HIDE DEF excerpt
<1>5. Kept(tidy)
  BY <1>1, <1>4 DEF Clean
<1> HIDE DEF tidy
<1>6. Kept(merged)
  BY <1>1, <1>5 DEF MergeProgress
<1> HIDE DEF merged
<1>7. Kept(folded)
  BY <1>1, <1>6 DEF FoldStacktrace
<1> HIDE DEF folded
<1>8. Kept(rows)
  BY <1>1, <1>7 DEF CompressJSON
<1> HIDE DEF rows
<1>9. Kept(Prune(rows))
  BY <1>1, <1>8 DEF Prune
<1>10. AfterDedup(f) = Prune(rows)
  BY DEF AfterDedup, rows, folded, merged, tidy, excerpt, skeleton
<1> QED  BY <1>9, <1>10 DEF Kept

\* What reaches dedup is no reference yet.
LEMMA BeforeDedup ==
    ASSUME NEW snaps, NEW t
    PROVE  LET f == GitDiff(DiffAndCompress(snaps, t).form)
           IN Shaped(f) /\ f.ref = FALSE
<1> DEFINE g == DiffAndCompress(snaps, t).form
<1>1. Shaped(Plain(t)) /\ Plain(t).ref = FALSE
  BY DEF Plain, Shaped
<1>2. ASSUME NEW s  PROVE Shaped(Compared(s, t)) /\ Compared(s, t).ref = FALSE
  BY <1>1 DEF Compared, Plain, Shaped
<1>3. Shaped(g) /\ g.ref = FALSE
  <2>1. CASE t \notin Listed
    BY <1>1, <2>1 DEF DiffAndCompress
  <2>2. CASE t \in Listed /\ \E k \in DOMAIN snaps : Best(snaps, t, k)
    <3>1. g = Compared(snaps[CHOOSE j \in DOMAIN snaps : Best(snaps, t, j)], t)
      BY <2>2 DEF DiffAndCompress
    <3> QED  BY <1>2, <3>1
  <2>3. CASE t \in Listed /\ ~\E k \in DOMAIN snaps : Best(snaps, t, k)
    BY <1>1, <2>3 DEF DiffAndCompress
  <2> QED  BY <2>1, <2>2, <2>3
<1> HIDE DEF g
<1>4. Shaped(GitDiff(g)) /\ GitDiff(g).ref = FALSE
  <2> DEFINE d == Shorten(g, "patch", Diffs \ Assistant)
  <2>1. Shaped(d) /\ d.ref = g.ref
    BY <1>3, ShortenFacts
  <2> HIDE DEF d
  <2>2. d.ref = FALSE
    BY <1>3, <2>1
  <2> QED  BY <2>1, <2>2 DEF d, GitDiff
<1> QED  BY <1>4 DEF g

-----------------------------------------------------------------------------
(* Messages                                                                  *)

\* Sequences of whatever they hold.
IsSequence(s) == s \in Seq({s[i] : i \in DOMAIN s})

LEMMA SequenceFacts ==
    ASSUME NEW s, IsSequence(s)
    PROVE  Len(s) \in Nat /\ DOMAIN s = 1..Len(s)
BY LenProperties DEF IsSequence

LEMMA FunctionIsSequence ==
    ASSUME NEW k \in Nat, NEW s, s = [i \in 1..k |-> s[i]]
    PROVE  IsSequence(s) /\ Len(s) = k /\ DOMAIN s = 1..k
<1> DEFINE S == {s[i] : i \in 1..k}
<1>1. DOMAIN s = 1..k
  OBVIOUS
<1>2. s \in [1..k -> S]
  OBVIOUS
<1> HIDE DEF S
<1>3. s \in Seq(S) /\ Len(s) = k
  BY <1>1, <1>2, LenProperties
<1> QED  BY <1>1, <1>3 DEF IsSequence, S

LEMMA JoinFacts ==
    ASSUME NEW s, IsSequence(s), NEW u, IsSequence(u)
    PROVE  /\ IsSequence(s \o u) /\ DOMAIN (s \o u) = 1..(Len(s) + Len(u))
           /\ \A i \in 1..Len(s) : (s \o u)[i] = s[i]
           /\ \A i \in 1..Len(u) : (s \o u)[Len(s) + i] = u[i]
<1> DEFINE S == {s[i] : i \in DOMAIN s} \cup {u[i] : i \in DOMAIN u}
           j == s \o u
<1>1. s \in Seq(S) /\ u \in Seq(S)
  BY SeqMonotonic DEF IsSequence
<1>2. Len(s) \in Nat /\ Len(u) \in Nat
  BY SequenceFacts
<1> HIDE DEF S
<1>3. /\ j \in Seq(S) /\ Len(j) = Len(s) + Len(u)
      /\ \A i \in 1..Len(s) + Len(u) : j[i] = IF i <= Len(s) THEN s[i] ELSE u[i - Len(s)]
  BY <1>1, ConcatProperties
<1>4. DOMAIN j = 1..(Len(s) + Len(u))
  BY <1>3, LenProperties
<1> HIDE DEF j
<1>5. j = [i \in 1..(Len(s) + Len(u)) |-> j[i]]
  <2>1. j \in [1..Len(j) -> S]
    BY <1>3, LenProperties
  <2> QED  BY <1>3, <2>1
<1>6. IsSequence(j)
  BY <1>2, <1>5, FunctionIsSequence
<1>7. \A i \in 1..Len(u) : j[Len(s) + i] = u[i]
  <2>1. ASSUME NEW i \in 1..Len(u)
        PROVE  /\ Len(s) + i \in 1..Len(s) + Len(u) /\ ~(Len(s) + i <= Len(s))
               /\ Len(s) + i - Len(s) = i
    BY <1>2
  <2> QED  BY <1>3, <2>1
<1>8. \A i \in 1..Len(s) : j[i] = s[i]
  BY <1>2, <1>3
<1> QED  BY <1>4, <1>6, <1>7, <1>8 DEF j

\* The first of the positions at which something is so.
LEMMA FirstPosition ==
    ASSUME NEW J \in SUBSET Nat, J # {}
    PROVE  \E j \in J : \A l \in J : ~(l < j)
<1> DEFINE Less == {ss \in Nat \X Nat : ss[1] < ss[2]}
<1>1. IsWellFoundedOn(Less, Nat)
  BY NatLessThanWellFounded, Zenon DEF OpToRel
<1>2. PICK j \in J : \A l \in J : <<l, j>> \notin Less
  <2> HIDE DEF Less
  <2> QED  BY <1>1, WFMin
<1>3. ASSUME NEW l \in J, l < j  PROVE <<l, j>> \in Less
  BY <1>3
<1> HIDE DEF Less
<1> QED  BY <1>2, <1>3

-----------------------------------------------------------------------------
(* Dedup                                                                     *)

\* Position i of fs shows, if it is a reference, what stands before it.
InSight(fs, i) ==
    IsReference(fs[i]) =>
        \E j \in 1..(i - 1) : fs[j] \in {Original(fs[i]), AfterDedup(Original(fs[i]))}

\* A reference that the compressors make stands for what was seen in the prefix, or
\* for the first copy among their messages, which no reference replaces.
LEMMA CompressedFacts ==
    ASSUME NEW ts, IsSequence(ts), NEW seen
    PROVE  LET cs == Compressed(ts, seen) IN
           /\ IsSequence(cs) /\ Len(cs) = Len(ts)
           /\ \A i \in 1..Len(ts) :
                 IsReference(cs[i]) => Original(cs[i]) \in seen \/ InSight(cs, i)
<1> DEFINE m == Len(ts)
           snaps == ToolDelta(ts)
           fs == [i \in DOMAIN ts |-> GitDiff(DiffAndCompress(snaps[i - 1], ts[i]).form)]
           ds == Dedup(fs, seen)
           cs == [i \in DOMAIN ts |-> AfterDedup(ds[i])]
<1>1. Compressed(ts, seen) = cs
  BY DEF Compressed
<1>2. m \in Nat /\ DOMAIN ts = 1..m
  BY SequenceFacts
<1> HIDE DEF snaps, m
<1>3. \A i \in 1..m : Shaped(fs[i]) /\ fs[i].ref = FALSE
  BY <1>2, BeforeDedup
<1>4. DOMAIN fs = 1..m
  BY <1>2
<1> HIDE DEF fs
<1>5. \A i \in 1..m : ds[i] = IF Repeats(fs, i, seen) THEN Reference(fs[i]) ELSE fs[i]
  BY <1>4 DEF Dedup, Reference
<1>6. IsSequence(cs) /\ Len(cs) = m
  <2>1. cs = [i \in 1..m |-> cs[i]]
    BY <1>2
  <2> HIDE DEF cs
  <2> QED  BY <1>2, <2>1, FunctionIsSequence
<1>7. \A i \in 1..m : cs[i] = AfterDedup(ds[i])
  BY <1>2
<1> HIDE DEF ds, cs
<1>8. ASSUME NEW i \in 1..m, ~Repeats(fs, i, seen)
      PROVE  cs[i] = AfterDedup(fs[i]) /\ ~IsReference(cs[i])
  <2>1. ds[i] = fs[i]
    BY <1>5, <1>8
  <2>2. cs[i] = AfterDedup(fs[i])
    BY <1>7, <2>1
  <2>3. Shaped(fs[i]) /\ ~IsReference(fs[i])
    <3>1. fs[i].ref = FALSE
      BY <1>3
    <3>2. ~IsReference(fs[i])
      BY <3>1, Zenon DEF IsReference
    <3> QED  BY <1>3, <3>2
  <2> QED  BY <2>2, <2>3, AfterDedupFacts
<1>9. ASSUME NEW i \in 1..m, Repeats(fs, i, seen)
      PROVE  Original(cs[i]) = fs[i]
  <2>1. cs[i] = AfterDedup(Reference(fs[i]))
    BY <1>5, <1>7, <1>9
  <2>2. cs[i] = Reference(fs[i]) /\ Original(Reference(fs[i])) = fs[i]
    BY <1>3, <2>1, AfterDedupFacts, ReferenceFacts
  <2> QED  BY <2>2
<1>10. ASSUME NEW i \in 1..m, IsReference(cs[i]), Original(cs[i]) \notin seen
       PROVE  InSight(cs, i)
  <2>1. Repeats(fs, i, seen)
    BY <1>8, <1>10
  <2>2. Original(cs[i]) = fs[i] /\ fs[i] \notin seen
    BY <1>9, <1>10, <2>1
  <2> DEFINE J == {j \in 1..(i - 1) : fs[j] = fs[i]}
  <2>3. J \in SUBSET Nat /\ J # {}
    BY <2>1, <2>2 DEF Repeats
  <2>4. PICK j \in J : \A l \in J : ~(l < j)
    <3> HIDE DEF J
    <3> QED  BY <2>3, FirstPosition
  <2>5. j \in 1..m /\ j \in 1..(i - 1) /\ fs[j] = fs[i]
    BY <1>2, <2>4
  <2>6. ~Repeats(fs, j, seen)
    <3>1. ASSUME NEW l \in 1..(j - 1), fs[l] = fs[j]  PROVE FALSE
      <4>1. l \in J /\ l < j
        BY <2>5, <3>1
      <4> QED  BY <2>4, <4>1
    <3> QED  BY <2>2, <2>5, <3>1 DEF Repeats
  <2>7. cs[j] = AfterDedup(Original(cs[i]))
    BY <1>8, <2>2, <2>5, <2>6
  <2> QED  BY <2>5, <2>7 DEF InSight
<1> QED  BY <1>1, <1>6, <1>10 DEF m

-----------------------------------------------------------------------------
(* Conversations                                                             *)

AllInSight(fs) == \A i \in 1..Len(fs) : InSight(fs, i)

LEMMA SeqIsSequence ==
    ASSUME NEW S, NEW s \in Seq(S)
    PROVE  IsSequence(s)
<1>1. s \in [1..Len(s) -> S] /\ Len(s) \in Nat
  BY LenProperties
<1>2. s = [i \in 1..Len(s) |-> s[i]]
  BY <1>1
<1> QED  BY <1>1, <1>2, FunctionIsSequence

\* What stands before a position is all that counts for it.
LEMMA StaysInSight ==
    ASSUME NEW fs, NEW gs, NEW k \in Nat, \A j \in 1..k : fs[j] = gs[j],
           NEW i \in 1..k, InSight(gs, i)
    PROVE  InSight(fs, i)
<1>1. fs[i] = gs[i]
  OBVIOUS
<1>2. \A j \in 1..(i - 1) : fs[j] = gs[j]
  OBVIOUS
<1> QED  BY <1>1, <1>2 DEF InSight

LEMMA EmptyFacts == IsSequence(<<>>) /\ AllInSight(<<>>)
<1> DEFINE none == <<>>
<1>1. none \in Seq({}) /\ Len(none) = 0
  OBVIOUS
<1> HIDE DEF none
<1>2. IsSequence(none)
  BY <1>1, SeqIsSequence
<1>3. AllInSight(none)
  BY <1>1 DEF AllInSight
<1> QED  BY <1>2, <1>3 DEF none

\* The frozen prefix is a part of what was forwarded, or has no references.
LEMMA PrefixFacts ==
    ASSUME NEW c, IsSequence(wire[c]), NEW m \in Nat \ {0}, NEW cold \in BOOLEAN
    PROVE  LET fs == Prefix(c, FrozenCount(c, m, cold)) IN
           /\ IsSequence(fs)
           /\ AllInSight(wire[c]) => AllInSight(fs)
<1> DEFINE k == FrozenCount(c, m, cold)
           fs == Prefix(c, k)
<1>1. Len(wire[c]) \in Nat
  BY SequenceFacts
<1>2. k \in Nat /\ (wire[c] # <<>> => k <= Len(wire[c]))
  BY <1>1, FoldingAssumption DEF FrozenCount, Lesser, FoldingAssumption
<1> HIDE DEF k
<1>3. fs = [i \in 1..k |-> IF wire[c] # <<>> THEN wire[c][i] ELSE Plain(Script[c][i])]
  BY DEF Prefix
<1> HIDE DEF fs
<1>4. /\ fs = [i \in 1..k |-> fs[i]]
      /\ \A i \in 1..k :
            fs[i] = IF wire[c] # <<>> THEN wire[c][i] ELSE Plain(Script[c][i])
  BY <1>3
<1>5. IsSequence(fs) /\ Len(fs) = k
  BY <1>2, <1>4, FunctionIsSequence
<1>6. ASSUME AllInSight(wire[c]), NEW i \in 1..k  PROVE InSight(fs, i)
  <2>1. CASE wire[c] # <<>>
    <3>1. \A j \in 1..k : fs[j] = wire[c][j]
      BY <1>4, <2>1
    <3>2. InSight(wire[c], i)
      BY <1>1, <1>2, <1>6, <2>1 DEF AllInSight
    <3> QED  BY <1>2, <3>1, <3>2, StaysInSight
  <2>2. CASE wire[c] = <<>>
    <3>1. fs[i] = Plain(Script[c][i])
      BY <1>4, <2>2
    <3>2. ~IsReference(fs[i])
      BY <3>1 DEF IsReference, Plain
    <3> QED  BY <3>2 DEF InSight
  <2> QED  BY <2>1, <2>2
<1> QED  BY <1>5, <1>6 DEF AllInSight, fs, k

LEMMA ShownBefore ==
    ASSUME NEW fs, NEW i, NEW f, fs[i] = f, NEW j \in 1..(i - 1),
           fs[j] \in {Original(f), AfterDedup(Original(f))}
    PROVE  InSight(fs, i)
BY Zenon DEF InSight

\* The compressed messages after a prefix whose contents they were compared with.
LEMMA JoinedInSight ==
    ASSUME NEW fs, IsSequence(fs), AllInSight(fs), NEW ts, IsSequence(ts)
    PROVE  AllInSight(fs \o Compressed(ts, Seen(fs)))
<1> DEFINE cs == Compressed(ts, Seen(fs))
           js == fs \o cs
           a == Len(fs)
           b == Len(cs)
<1>1. /\ IsSequence(cs) /\ b = Len(ts)
      /\ \A i \in 1..b : IsReference(cs[i]) => Original(cs[i]) \in Seen(fs) \/ InSight(cs, i)
  BY CompressedFacts
<1> HIDE DEF cs
<1>2. /\ IsSequence(js) /\ DOMAIN js = 1..(a + b)
      /\ \A i \in 1..a : js[i] = fs[i]
      /\ \A i \in 1..b : js[a + i] = cs[i]
  <2>1. IsSequence(cs)
    BY <1>1
  <2>2. /\ IsSequence(fs \o cs) /\ DOMAIN (fs \o cs) = 1..(Len(fs) + Len(cs))
        /\ \A i \in 1..Len(fs) : (fs \o cs)[i] = fs[i]
        /\ \A i \in 1..Len(cs) : (fs \o cs)[Len(fs) + i] = cs[i]
    BY <2>1, JoinFacts
  <2> QED  BY <2>2, Zenon DEF js, a, b
<1>3. a \in Nat /\ DOMAIN fs = 1..a
  BY SequenceFacts
<1>4. b \in Nat
  BY <1>1, SequenceFacts
<1>5. Len(js) \in Nat /\ 1..Len(js) = 1..(a + b)
  BY <1>2, SequenceFacts
<1> HIDE DEF js, a, b
<1>6. ASSUME NEW i \in 1..a  PROVE InSight(js, i)
  <2>1. InSight(fs, i)
    BY <1>6 DEF AllInSight, a
  <2>2. a \in Nat /\ \A j \in 1..a : js[j] = fs[j]
    BY <1>2, <1>3
  <2> QED  BY <2>1, <2>2, StaysInSight, Zenon
<1>7. ASSUME NEW i \in 1..b  PROVE InSight(js, a + i)
  <2> DEFINE p == a + i
  <2>1. js[p] = cs[i]
    BY <1>2
  <2>2. \A j \in 1..a : j \in 1..(p - 1)
    BY <1>3, <1>4
  <2>3. \A j \in 1..(i - 1) : j \in 1..b /\ a + j \in 1..(p - 1)
    BY <1>3, <1>4
  <2> HIDE DEF p
  <2>4. ASSUME ~IsReference(cs[i])
        PROVE  InSight(js, p)
    <3>1. ~IsReference(js[p])
      BY <2>1, <2>4, Zenon
    <3> QED  BY <3>1 DEF InSight
  <2>5. ASSUME IsReference(cs[i]), Original(cs[i]) \in Seen(fs)
        PROVE  InSight(js, p)
    <3>1. PICK j \in DOMAIN fs : fs[j] = Original(cs[i])
      BY <2>5 DEF Seen
    <3>2. j \in 1..(p - 1) /\ js[j] = fs[j]
      BY <1>2, <1>3, <2>2, <3>1
    <3>3. js[j] \in {Original(cs[i]), AfterDedup(Original(cs[i]))}
      BY <3>1, <3>2
    <3> QED  BY <2>1, <3>2, <3>3, ShownBefore, Zenon
  <2>6. ASSUME IsReference(cs[i]), InSight(cs, i)
        PROVE  InSight(js, p)
    <3>1. PICK j \in 1..(i - 1) : cs[j] \in {Original(cs[i]), AfterDedup(Original(cs[i]))}
      BY <2>6 DEF InSight
    <3>2. j \in 1..b /\ a + j \in 1..(p - 1)
      BY <2>3, <3>1
    <3>3. js[a + j] = cs[j]
      BY <1>2, <3>2
    <3>4. js[a + j] \in {Original(cs[i]), AfterDedup(Original(cs[i]))}
      BY <3>1, <3>3
    <3> QED  BY <2>1, <3>2, <3>4, ShownBefore, Zenon
  <2>7. InSight(js, p)
    BY <1>1, <2>4, <2>5, <2>6
  <2> QED  BY <2>7 DEF p
<1>8. ASSUME NEW i \in 1..(a + b)  PROVE InSight(js, i)
  <2>1. CASE i <= a
    BY <1>3, <1>4, <1>6, <2>1
  <2>2. CASE ~(i <= a)
    <3>1. i - a \in 1..b /\ a + (i - a) = i
      BY <1>3, <1>4, <2>2
    <3> QED  BY <1>7, <3>1
  <2> QED  BY <2>1, <2>2
<1> QED  BY <1>5, <1>8 DEF AllInSight, js, cs

-----------------------------------------------------------------------------
(* The invariant                                                             *)

Shapes ==
    /\ n \in [Conversations -> Nat]
    /\ DOMAIN phase = Conversations /\ DOMAIN out = Conversations
    /\ DOMAIN wire = Conversations
    /\ \A c \in Conversations : IsSequence(out[c]) /\ IsSequence(wire[c])

\* Between its two steps a turn finds the contents of its own prefix, or the tally
\* is another turn's.
Indexed ==
    \A c \in Conversations :
        phase[c] = "indexed" /\ tally.owner = c => tally.seen = Seen(out[c])

InSightInv ==
    \A c \in Conversations : c \notin mixed => AllInSight(out[c]) /\ AllInSight(wire[c])

IInv == Shapes /\ Indexed /\ InSightInv

LEMMA InitIInv == Init => IInv
<1> SUFFICES ASSUME Init PROVE IInv
  OBVIOUS
<1>1. Shapes
  BY EmptyFacts DEF Init, Shapes
<1>2. Indexed
  BY DEF Init, Indexed
<1>3. InSightInv
  BY EmptyFacts DEF Init, InSightInv
<1> QED  BY <1>1, <1>2, <1>3 DEF IInv

LEMMA ArriveIInv ==
    ASSUME IInv, NEW c \in Conversations, NEW m \in 1..Len(Script[c]),
           NEW cold \in BOOLEAN, Arrive(c, m, cold)
    PROVE  IInv'
<1> DEFINE fs == Prefix(c, FrozenCount(c, m, cold))
<1>1. m \in Nat \ {0}
  BY LenProperties, FoldingAssumption DEF FoldingAssumption
<1>2. IsSequence(fs) /\ (AllInSight(wire[c]) => AllInSight(fs))
  BY <1>1, PrefixFacts DEF IInv, Shapes
<1>3. /\ phase' = [phase EXCEPT ![c] = "frozen"] /\ n' = [n EXCEPT ![c] = m]
      /\ out' = [out EXCEPT ![c] = fs]
      /\ wire' = wire /\ tally' = tally /\ mixed' = mixed
  BY DEF Arrive, tables, history
<1> HIDE DEF fs
<1>4. Shapes'
  BY <1>1, <1>2, <1>3 DEF IInv, Shapes
<1>5. Indexed'
  BY <1>3 DEF IInv, Shapes, Indexed
<1>6. InSightInv'
  BY <1>2, <1>3 DEF IInv, Shapes, InSightInv
<1> QED  BY <1>4, <1>5, <1>6 DEF IInv

LEMMA IndexPrefixIInv ==
    ASSUME IInv, NEW c \in Conversations, IndexPrefix(c)
    PROVE  IInv'
<1>1. /\ phase' = [phase EXCEPT ![c] = "indexed"]
      /\ tally' = [owner |-> c, seen |-> Seen(out[c])]
      /\ n' = n /\ out' = out /\ wire' = wire /\ mixed' = mixed
  BY DEF IndexPrefix, history
<1>2. Shapes'
  BY <1>1 DEF IInv, Shapes
<1>3. Indexed'
  <2>1. tally'.owner = c /\ tally'.seen = Seen(out[c])
    BY <1>1
  <2> SUFFICES ASSUME NEW d \in Conversations, tally'.owner = d
               PROVE  tally'.seen = Seen(out'[d])
    BY DEF Indexed, Seen, Counted, Untouched
  <2> QED  BY <1>1, <2>1
<1>4. InSightInv'
  BY <1>1 DEF IInv, InSightInv
<1> QED  BY <1>2, <1>3, <1>4 DEF IInv

LEMMA CompressIInv ==
    ASSUME IInv, NEW c \in Conversations, Compress(c)
    PROVE  IInv'
<1> DEFINE ts == SubSeq(Script[c], Len(out[c]) + 1, n[c])
           cs == Compressed(ts, tally.seen)
<1>1. IsSequence(ts)
  <2> DEFINE S == {Script[c][i] : i \in (Len(out[c]) + 1)..n[c]}
  <2>1. Len(out[c]) + 1 \in Int /\ n[c] \in Int
    BY SequenceFacts DEF IInv, Shapes
  <2>2. \A i \in (Len(out[c]) + 1)..n[c] : Script[c][i] \in S
    OBVIOUS
  <2> HIDE DEF S
  <2>3. ts \in Seq(S)
    BY <2>1, <2>2, SubSeqProperties
  <2> QED  BY <2>3, SeqIsSequence
<1>2. /\ phase[c] = "indexed" /\ phase' = [phase EXCEPT ![c] = "sent"]
      /\ out' = [out EXCEPT ![c] = out[c] \o cs]
      /\ mixed' = IF tally.owner # c THEN mixed \cup {c} ELSE mixed
      /\ n' = n /\ wire' = wire /\ tally' = tally
  BY DEF Compress
<1> HIDE DEF ts
<1>3. IsSequence(cs)
  BY <1>1, CompressedFacts
<1>4. IsSequence(out[c] \o cs)
  BY <1>3, JoinFacts DEF IInv, Shapes
<1>5. c \notin mixed' => AllInSight(out[c] \o cs)
  <2> SUFFICES ASSUME c \notin mixed'  PROVE AllInSight(out[c] \o cs)
    OBVIOUS
  <2>1. tally.owner = c /\ c \notin mixed
    BY <1>2
  <2>2. tally.seen = Seen(out[c])
    BY <1>2, <2>1 DEF IInv, Indexed
  <2>3. IsSequence(out[c]) /\ AllInSight(out[c])
    BY <2>1 DEF IInv, Shapes, InSightInv
  <2> QED  BY <1>1, <2>2, <2>3, JoinedInSight
<1> HIDE DEF cs
<1>6. Shapes'
  BY <1>2, <1>4 DEF IInv, Shapes
<1>7. Indexed'
  BY <1>2 DEF IInv, Shapes, Indexed
<1>8. InSightInv'
  BY <1>2, <1>5 DEF IInv, Shapes, InSightInv
<1> QED  BY <1>6, <1>7, <1>8 DEF IInv

LEMMA AnswerIInv ==
    ASSUME IInv, NEW c \in Conversations, Answer(c)
    PROVE  IInv'
<1>1. /\ phase' = [phase EXCEPT ![c] = "idle"]
      /\ wire' = [wire EXCEPT ![c] = out[c]] /\ out' = [out EXCEPT ![c] = <<>>]
      /\ n' = n /\ tally' = tally /\ mixed' = mixed
  BY DEF Answer, tables, history
<1>2. Shapes'
  BY <1>1, EmptyFacts DEF IInv, Shapes
<1>3. Indexed'
  BY <1>1 DEF IInv, Shapes, Indexed
<1>4. InSightInv'
  BY <1>1, EmptyFacts DEF IInv, Shapes, InSightInv
<1> QED  BY <1>2, <1>3, <1>4 DEF IInv

LEMMA FailIInv ==
    ASSUME IInv, NEW c \in Conversations, Fail(c)
    PROVE  IInv'
<1>1. /\ phase' = [phase EXCEPT ![c] = "idle"] /\ out' = [out EXCEPT ![c] = <<>>]
      /\ n' = n /\ wire' = wire /\ tally' = tally /\ mixed' = mixed
  BY DEF Fail, tables, history
<1>2. Shapes'
  BY <1>1, EmptyFacts DEF IInv, Shapes
<1>3. Indexed'
  BY <1>1 DEF IInv, Shapes, Indexed
<1>4. InSightInv'
  BY <1>1, EmptyFacts DEF IInv, Shapes, InSightInv
<1> QED  BY <1>2, <1>3, <1>4 DEF IInv

LEMMA RestartIInv ==
    ASSUME IInv, Restart
    PROVE  IInv'
<1>1. /\ phase' = [c \in Conversations |-> "idle"]
      /\ out' = [c \in Conversations |-> <<>>]
      /\ n' = n /\ wire' = wire /\ mixed' = mixed
  BY DEF Restart, history
<1>2. Shapes'
  BY <1>1, EmptyFacts DEF IInv, Shapes
<1>3. Indexed'
  BY <1>1 DEF Indexed
<1>4. InSightInv'
  BY <1>1, EmptyFacts DEF IInv, InSightInv
<1> QED  BY <1>2, <1>3, <1>4 DEF IInv

LEMMA NextIInv == IInv /\ [Next]_vars => IInv'
<1> SUFFICES ASSUME IInv, [Next]_vars PROVE IInv'
  OBVIOUS
<1>1. ASSUME NEW c \in Conversations, NEW m \in 1..Len(Script[c]),
             NEW cold \in BOOLEAN, Arrive(c, m, cold)
      PROVE  IInv'
  BY <1>1, ArriveIInv
<1>2. ASSUME NEW c \in Conversations, IndexPrefix(c)  PROVE IInv'
  BY <1>2, IndexPrefixIInv
<1>3. ASSUME NEW c \in Conversations, Compress(c)  PROVE IInv'
  BY <1>3, CompressIInv
<1>4. ASSUME NEW c \in Conversations, Answer(c)  PROVE IInv'
  BY <1>4, AnswerIInv
<1>5. ASSUME NEW c \in Conversations, Fail(c)  PROVE IInv'
  BY <1>5, FailIInv
<1>6. CASE Restart
  BY <1>6, RestartIInv
<1>7. CASE UNCHANGED vars
  <2>1. /\ n' = n /\ phase' = phase /\ out' = out /\ wire' = wire
        /\ tally' = tally /\ mixed' = mixed
    BY <1>7 DEF vars, tables, request, history
  <2>2. Shapes' /\ InSightInv'
    BY <2>1 DEF IInv, Shapes, InSightInv
  <2>3. Indexed'
    BY <2>1 DEF IInv, Indexed
  <2> QED  BY <2>2, <2>3 DEF IInv
<1> QED  BY <1>1, <1>2, <1>3, <1>4, <1>5, <1>6, <1>7 DEF Next

LEMMA IInvInSight == IInv => CopyInSight
<1> SUFFICES ASSUME IInv, NEW c \in Requests \ mixed, NEW i \in DOMAIN out[c],
                    out[c][i].ref
             PROVE  \E j \in 1..(i - 1) :
                        out[c][j] \in {Copied(out[c][i]), AfterDedup(Copied(out[c][i]))}
  BY DEF CopyInSight
<1>1. c \in Conversations /\ c \notin mixed
  BY DEF Requests
<1>2. AllInSight(out[c]) /\ IsSequence(out[c])
  BY <1>1 DEF IInv, Shapes, InSightInv
<1>3. InSight(out[c], i)
  BY <1>2, SequenceFacts DEF AllInSight
<1> QED  BY <1>3, Zenon DEF InSight, IsReference, Original, Copied

\* Before every reference, the request that is sent shows the message it is a copy
\* of, or what the compressors that run after dedup have made of it: the copy need
\* not be verbatim, as DedupCompressor's docstring demands. In a conversation whose
\* turns never found the tally of another turn, whatever they share beside it.
THEOREM CopiesInSight == Spec => []CopyInSight
<1>1. Spec => []IInv
  BY InitIInv, NextIInv, PTL DEF Spec
<1> QED  BY <1>1, IInvInSight, PTL

-----------------------------------------------------------------------------
(* Recursion over the messages                                               *)

\* What holds at 0, and at each number when at the one before, holds up to m.
LEMMA StepByStep ==
    ASSUME NEW m \in Nat, NEW G, 0 \in G, \A i \in 1..m : i - 1 \in G => i \in G
    PROVE  \A i \in 0..m : i \in G
<1> DEFINE J == {i \in 0..m : i \notin G}
<1> SUFFICES ASSUME J # {}  PROVE FALSE
  OBVIOUS
<1>1. J \in SUBSET Nat
  OBVIOUS
<1>2. PICK j \in J : \A l \in J : ~(l < j)
  <2> HIDE DEF J
  <2> QED  BY <1>1, FirstPosition
<1>3. j \in 1..m /\ j - 1 \in 0..m /\ j - 1 < j
  BY <1>2
<1>4. j - 1 \in G
  BY <1>2, <1>3
<1> QED  BY <1>2, <1>3, <1>4

\* f starts with a, and every step leads from one value to the next, up to k.
Runs(f, k, S, a, step) ==
    /\ f \in [0..k -> S]
    /\ \A i \in 0..k : f[i] = IF i = 0 THEN a ELSE step[i][f[i - 1]]

LEMMA Iterated ==
    ASSUME NEW S, NEW a \in S, NEW m \in Nat, NEW step \in [1..m -> [S -> S]]
    PROVE  \E f : Runs(f, m, S, a, step)
<1> DEFINE G == {k \in 0..m : \E f : Runs(f, k, S, a, step)}
<1>1. 0 \in G
  <2> DEFINE f == [i \in 0..0 |-> a]
  <2>1. Runs(f, 0, S, a, step)
    BY DEF Runs
  <2> QED  BY <2>1
<1>2. ASSUME NEW k \in 1..m, k - 1 \in G
      PROVE  k \in G
  <2>1. PICK f : Runs(f, k - 1, S, a, step)
    BY <1>2
  <2> DEFINE g == [i \in 0..k |-> IF i = k THEN step[k][f[k - 1]] ELSE f[i]]
  <2>2. k \in Nat \ {0} /\ k - 1 \in 0..(k - 1)
    OBVIOUS
  <2>3. f[k - 1] \in S /\ step[k] \in [S -> S]
    BY <2>1, <2>2 DEF Runs
  <2>4. \A i \in 0..k : i # k => i \in 0..(k - 1)
    OBVIOUS
  <2>5. g \in [0..k -> S]
    BY <2>1, <2>3, <2>4 DEF Runs
  <2>6. ASSUME NEW i \in 0..k
        PROVE  g[i] = IF i = 0 THEN a ELSE step[i][g[i - 1]]
    <3>1. CASE i = k
      <4>1. g[i - 1] = f[k - 1] /\ i # 0
        BY <2>2, <3>1
      <4> QED  BY <3>1, <4>1
    <3>2. CASE i # k
      <4>1. g[i] = f[i] /\ i \in 0..(k - 1)
        BY <2>4, <3>2
      <4>2. i # 0 => i - 1 \in 0..k /\ i - 1 # k
        BY <4>1
      <4>3. i # 0 => g[i - 1] = f[i - 1]
        BY <4>2
      <4> HIDE DEF g
      <4> QED  BY <2>1, <4>1, <4>3 DEF Runs
    <3> QED  BY <3>1, <3>2
  <2> HIDE DEF g
  <2>7. Runs(g, k, S, a, step)
    BY <2>5, <2>6 DEF Runs
  <2> QED  BY <2>7
<1> HIDE DEF G
<1>3. \A i \in 0..m : i \in G
  <2>1. \A i \in 1..m : i - 1 \in G => i \in G
    BY <1>2
  <2> QED  BY <1>1, <2>1, StepByStep
<1>4. m \in G
  BY <1>3
<1> QED  BY <1>4 DEF G

Listings == Seq(Listed)

\* A listing becomes a snapshot, in the place of one or after the others, and what is
\* forwarded for it is relative to one of them.
LEMMA DiffFacts ==
    ASSUME NEW snaps \in Listings, NEW t \in Texts
    PROVE  LET d == DiffAndCompress(snaps, t) IN
           /\ d.snaps \in Listings
           /\ \A k \in DOMAIN d.snaps :
                 d.snaps[k] = t \/ \E j \in DOMAIN snaps : d.snaps[k] = snaps[j]
           /\ d.form = Plain(t) \/ \E j \in DOMAIN snaps : d.form = Compared(snaps[j], t)
<1> DEFINE d == DiffAndCompress(snaps, t)
<1>1. Len(snaps) \in Nat /\ DOMAIN snaps = 1..Len(snaps) /\ \A j \in DOMAIN snaps : snaps[j] \in Texts
  BY LenProperties DEF Listings, Listed
<1>2. CASE t \notin Listed
  <2>1. d = [snaps |-> snaps, form |-> Plain(t)]
    BY <1>2 DEF DiffAndCompress
  <2> HIDE DEF d
  <2> QED  BY <2>1 DEF d
<1>3. CASE t \in Listed /\ \E k \in DOMAIN snaps : Best(snaps, t, k)
  <2> DEFINE k == CHOOSE j \in DOMAIN snaps : Best(snaps, t, j)
             next == [snaps EXCEPT ![k] = t]
  <2>1. k \in DOMAIN snaps
    BY <1>3
  <2>2. d = [snaps |-> next, form |-> Compared(snaps[k], t)]
    BY <1>3 DEF DiffAndCompress
  <2> HIDE DEF d, k
  <2>3. next \in Listings
    BY <1>3, <2>1 DEF Listings
  <2>4. DOMAIN next = DOMAIN snaps /\ \A j \in DOMAIN snaps : next[j] = t \/ next[j] = snaps[j]
    BY <1>1, <2>1
  <2> HIDE DEF next
  <2> QED  BY <2>1, <2>2, <2>3, <2>4 DEF d
<1>4. CASE t \in Listed /\ ~\E k \in DOMAIN snaps : Best(snaps, t, k)
  <2> DEFINE next == Append(snaps, t)
  <2>1. d = [snaps |-> next, form |-> Plain(t)]
    BY <1>4 DEF DiffAndCompress
  <2>2. /\ next \in Listings /\ Len(next) = Len(snaps) + 1
        /\ \A j \in 1..Len(snaps) : next[j] = snaps[j]
        /\ next[Len(snaps) + 1] = t
    BY <1>4, AppendProperties DEF Listings
  <2> HIDE DEF d, next
  <2>3. DOMAIN next = 1..(Len(snaps) + 1)
    BY <2>2, LenProperties DEF Listings
  <2>4. \A j \in DOMAIN next : j \in DOMAIN snaps \/ j = Len(snaps) + 1
    BY <1>1, <2>3
  <2>5. \A j \in DOMAIN next : next[j] = t \/ \E l \in DOMAIN snaps : next[j] = snaps[l]
    BY <1>1, <2>2, <2>4
  <2> QED  BY <2>1, <2>2, <2>5 DEF d
<1> QED  BY <1>2, <1>3, <1>4

\* The snapshots after each message exist, and follow from one another.
LEMMA ToolDeltaFacts ==
    ASSUME snapshots \in Listings, NEW ts \in Seq(Texts)
    PROVE  /\ ToolDelta(ts) \in [0..Len(ts) -> Listings]
           /\ ToolDelta(ts)[0] = snapshots
           /\ \A i \in 1..Len(ts) :
                 ToolDelta(ts)[i] = DiffAndCompress(ToolDelta(ts)[i - 1], ts[i]).snaps
<1> DEFINE m == Len(ts)
           step == [i \in 1..m |-> [s \in Listings |-> DiffAndCompress(s, ts[i]).snaps]]
           Next0(f, i) == IF i = 0 THEN snapshots ELSE DiffAndCompress(f[i - 1], ts[i]).snaps
<1>1. m \in Nat /\ \A i \in 1..m : ts[i] \in Texts
  BY LenProperties
<1>2. \A i \in 1..m : \A s \in Listings : DiffAndCompress(s, ts[i]).snaps \in Listings
  BY <1>1, DiffFacts
<1>3. step \in [1..m -> [Listings -> Listings]]
  BY <1>2
<1>4. \A i \in 1..m : \A s \in Listings : step[i][s] = DiffAndCompress(s, ts[i]).snaps
  OBVIOUS
<1>5. PICK f : Runs(f, m, Listings, snapshots, step)
  <2> HIDE DEF step, m
  <2> QED  BY <1>1, <1>3, Iterated
<1> HIDE DEF step
<1>6. \A i \in 1..m : i \in 0..m /\ i # 0 /\ i - 1 \in 0..m
  BY <1>1
<1>7. f \in [0..m -> Listings] /\ \A i \in 0..m : f[i] = Next0(f, i)
  <2>1. \A i \in 0..m : i # 0 => i \in 1..m
    BY <1>1
  <2> QED  BY <1>4, <1>5, <1>6, <2>1 DEF Runs
<1>8. f = [i \in 0..m |-> Next0(f, i)]
  BY <1>7
<1>9. ToolDelta(ts) = CHOOSE g : g = [i \in 0..m |-> Next0(g, i)]
  BY DEF ToolDelta
<1> HIDE DEF m
<1>10. ToolDelta(ts) = [i \in 0..m |-> Next0(ToolDelta(ts), i)]
  BY <1>8, <1>9
<1> DEFINE td == ToolDelta(ts)
           G == {i \in 0..m : td[i] \in Listings}
<1>11. td = [i \in 0..m |-> td[i]] /\ \A i \in 0..m : td[i] = Next0(td, i)
  BY <1>10
<1> HIDE DEF td
<1>12. td[0] = snapshots /\ \A i \in 1..m : td[i] = DiffAndCompress(td[i - 1], ts[i]).snaps
  <2>1. 0 \in 0..m
    BY <1>1 DEF m
  <2>2. \A i \in 1..m : i \in 0..m /\ i # 0
    BY <1>6 DEF m
  <2> QED  BY <1>11, <2>1, <2>2
<1>13. \A i \in 0..m : i \in G
  <2>1. 0 \in G
    BY <1>1, <1>12 DEF m
  <2>2. \A i \in 1..m : i - 1 \in G => i \in G
    BY <1>2, <1>6, <1>12 DEF m
  <2>3. m \in Nat
    BY <1>1 DEF m
  <2> HIDE DEF G
  <2> QED  BY <2>1, <2>2, <2>3, StepByStep
<1>14. td \in [0..m -> Listings]
  BY <1>11, <1>13
<1> QED  BY <1>12, <1>14 DEF td, m

-----------------------------------------------------------------------------
(* What the compressors keep of a message                                    *)

\* A record with the four fields is a form.
LEMMA MakeForm ==
    ASSUME NEW k \in Kinds, NEW t \in Texts, NEW u \in Texts, NEW b \in BOOLEAN
    PROVE  [kind |-> k, text |-> t, base |-> u, ref |-> b] \in Form
BY DEF Form

LEMMA FormFacts ==
    ASSUME NEW f \in Form
    PROVE  Shaped(f) /\ f.kind \in Kinds /\ f.text \in Texts /\ f.base \in Texts
BY DEF Form, Shaped

LEMMA FormRef ==
    ASSUME NEW f \in Form
    PROVE  f.ref \in BOOLEAN
BY DEF Form

Relative == {"same", "delta"}

\* g is made of f: the same text, relative to the same listing, or to none.
Made(f, g) ==
    /\ g \in Form /\ g.text = f.text /\ g.base = f.base
    /\ g.kind \in Relative => f.kind = g.kind

LEMMA ShortenMade ==
    ASSUME NEW f \in Form, NEW kind \in Kinds \ Relative, NEW texts
    PROVE  Made(f, Shorten(f, kind, texts))
<1> DEFINE g == Shorten(f, kind, texts)
           r == f.ref
<1>1. Shaped(f) /\ f.kind \in Kinds /\ f.text \in Texts /\ f.base \in Texts /\ r \in BOOLEAN
  BY FormFacts, FormRef
<1>2. CASE Untouched(f) /\ f.text \in texts
  <2>1. g = [kind |-> kind, text |-> f.text, base |-> f.base, ref |-> r]
    BY <1>1, <1>2 DEF Shorten, Shaped
  <2> HIDE DEF r
  <2>2. [kind |-> kind, text |-> f.text, base |-> f.base, ref |-> r] \in Form
    BY <1>1, MakeForm
  <2>3. g.text = f.text /\ g.base = f.base /\ g.kind = kind
    BY <2>1
  <2> HIDE DEF g
  <2> QED  BY <2>1, <2>2, <2>3 DEF Made, g
<1>3. CASE ~(Untouched(f) /\ f.text \in texts)
  <2>1. g = f
    BY <1>3 DEF Shorten
  <2> HIDE DEF g
  <2> QED  BY <2>1 DEF Made, g
<1> QED  BY <1>2, <1>3

LEMMA ReferenceMade ==
    ASSUME NEW f \in Form
    PROVE  Made(f, Reference(f))
<1> DEFINE b == TRUE
           g == [f EXCEPT !.ref = b]
<1>1. Shaped(f) /\ f.kind \in Kinds /\ f.text \in Texts /\ f.base \in Texts
  BY FormFacts
<1>2. b \in BOOLEAN
  OBVIOUS
<1>3. Reference(f) = g
  BY DEF Reference
<1> HIDE DEF b
<1>4. g = [kind |-> f.kind, text |-> f.text, base |-> f.base, ref |-> b]
  BY <1>1, RefSet
<1>5. g \in Form
  BY <1>1, <1>2, <1>4, MakeForm
<1>6. g.kind = f.kind /\ g.text = f.text /\ g.base = f.base
  BY <1>4
<1> HIDE DEF g
<1> QED  BY <1>3, <1>5, <1>6 DEF Made

LEMMA MadeTwice ==
    ASSUME NEW f, NEW g, NEW h, Made(f, g), Made(g, h)
    PROVE  Made(f, h)
BY DEF Made

LEMMA AfterDedupMade ==
    ASSUME NEW f \in Form
    PROVE  Made(f, AfterDedup(f))
<1>1. ASSUME NEW g, Made(f, g), NEW kind \in Kinds \ Relative, NEW texts
      PROVE  Made(f, Shorten(g, kind, texts))
  <2>1. g \in Form
    BY <1>1 DEF Made
  <2> QED  BY <1>1, <2>1, ShortenMade, MadeTwice, Zenon
<1>2. Made(f, f)
  BY DEF Made
<1>3. {"skeleton", "excerpt", "tidy", "merged", "folded", "rows", "pruned"} \subseteq Kinds \ Relative
  BY DEF Kinds, Relative
<1> DEFINE skeleton == Skeletonize(f)
           excerpt == TruncateLog(skeleton)
           tidy == Clean(excerpt)
           merged == MergeProgress(tidy)
           folded == FoldStacktrace(merged)
           rows == CompressJSON(folded)
<1>4. Made(f, skeleton)
  <2>1. Made(f, TreeSitter(f))
    BY <1>1, <1>2, <1>3 DEF TreeSitter
  <2>2. Made(f, PythonAST(TreeSitter(f)))
    BY <1>1, <1>3, <2>1 DEF PythonAST
  <2>3. Made(f, GenericBrace(PythonAST(TreeSitter(f))))
    BY <1>1, <1>3, <2>2 DEF GenericBrace
  <2> QED  BY <1>2, <2>3 DEF Skeletonize
<1> HIDE DEF skeleton
<1>5. Made(f, excerpt)
  BY <1>1, <1>3, <1>4 DEF TruncateLog
<1> HIDE DEF excerpt
<1>6. Made(f, tidy)
  BY <1>1, <1>3, <1>5 DEF Clean
<1> HIDE DEF tidy
<1>7. Made(f, merged)
  BY <1>1, <1>3, <1>6 DEF MergeProgress
<1> HIDE DEF merged
<1>8. Made(f, folded)
  BY <1>1, <1>3, <1>7 DEF FoldStacktrace
<1> HIDE DEF folded
<1>9. Made(f, rows)
  BY <1>1, <1>3, <1>8 DEF CompressJSON
<1> HIDE DEF rows
<1>10. Made(f, Prune(rows))
  BY <1>1, <1>3, <1>9 DEF Prune
<1>11. AfterDedup(f) = Prune(rows)
  BY DEF AfterDedup, rows, folded, merged, tidy, excerpt, skeleton
<1> QED  BY <1>10, <1>11

LEMMA PlainFacts ==
    ASSUME NEW t \in Texts
    PROVE  Plain(t) \in Form /\ Plain(t).text = t /\ Plain(t).kind \notin Relative
<1> DEFINE b == FALSE
<1>1. "plain" \in Kinds /\ b \in BOOLEAN
  BY DEF Kinds
<1>2. Plain(t) = [kind |-> "plain", text |-> t, base |-> t, ref |-> b]
  BY DEF Plain
<1> HIDE DEF b
<1>3. Plain(t) \in Form
  BY <1>1, <1>2, MakeForm
<1> QED  BY <1>2, <1>3 DEF Relative

\* A difference says what it is relative to.
LEMMA ComparedFacts ==
    ASSUME NEW s \in Texts, NEW t \in Texts
    PROVE  LET f == Compared(s, t) IN
           f \in Form /\ f.text = t /\ (f.kind \in Relative => f.base = s)
<1> DEFINE b == FALSE
           made(k) == [kind |-> k, text |-> t, base |-> s, ref |-> b]
           f == Compared(s, t)
<1>1. {"same", "delta"} \subseteq Kinds /\ b \in BOOLEAN
  BY DEF Kinds
<1>2. f \in {made("same"), made("delta"), Plain(t)}
  BY DEF Compared
<1> HIDE DEF b, f
<1>3. made("same") \in Form /\ made("delta") \in Form
  BY <1>1, MakeForm
<1>4. \A k : made(k).text = t /\ made(k).base = s
  OBVIOUS
<1> HIDE DEF made
<1>5. f \in Form /\ f.text = t /\ (f.kind \in Relative => f.base = s)
  BY <1>2, <1>3, <1>4, PlainFacts
<1> QED  BY <1>5 DEF f

\* What is forwarded for a message is relative to one of the snapshots there were
\* when its turn came, or to none.
LEMMA CompressedForms ==
    ASSUME snapshots \in Listings, NEW ts \in Seq(Texts), NEW seen
    PROVE  LET cs == Compressed(ts, seen)
               td == ToolDelta(ts)
           IN /\ cs \in Forms /\ Len(cs) = Len(ts)
              /\ \A i \in 1..Len(ts) :
                    /\ cs[i].text = ts[i]
                    /\ cs[i].kind \in Relative =>
                          \E k \in DOMAIN td[i - 1] : cs[i].base = td[i - 1][k]
<1> DEFINE m == Len(ts)
           td == ToolDelta(ts)
           form(i) == DiffAndCompress(td[i - 1], ts[i]).form
           fs == [i \in DOMAIN ts |-> GitDiff(form(i))]
           ds == Dedup(fs, seen)
           cs == [i \in DOMAIN ts |-> AfterDedup(ds[i])]
           AgainstOne(f, i) ==
               f.kind \in Relative => \E k \in DOMAIN td[i - 1] : f.base = td[i - 1][k]
<1>1. Compressed(ts, seen) = cs
  BY DEF Compressed
<1>2. m \in Nat /\ DOMAIN ts = 1..m /\ \A i \in 1..m : ts[i] \in Texts
  BY LenProperties
<1>3. \A i \in 1..m : td[i - 1] \in Listings
  <2>1. \A i \in 1..m : i - 1 \in 0..m
    BY <1>2
  <2> QED  BY <2>1, ToolDeltaFacts
<1> HIDE DEF td, m
<1>4. ASSUME NEW i \in 1..m
      PROVE  form(i) \in Form /\ form(i).text = ts[i] /\ AgainstOne(form(i), i)
  <2> DEFINE snaps == td[i - 1]
             f == form(i)
  <2>1. snaps \in Listings /\ ts[i] \in Texts
    BY <1>2, <1>3
  <2>2. f = Plain(ts[i]) \/ \E j \in DOMAIN snaps : f = Compared(snaps[j], ts[i])
    BY <2>1, DiffFacts
  <2>3. CASE f = Plain(ts[i])
    <3> HIDE DEF f
    <3> QED  BY <2>1, <2>3, PlainFacts DEF f
  <2>4. ASSUME NEW j \in DOMAIN snaps, f = Compared(snaps[j], ts[i])
        PROVE  f \in Form /\ f.text = ts[i] /\ AgainstOne(f, i)
    <3>1. snaps[j] \in Texts
      BY <2>1, LenProperties DEF Listings, Listed
    <3> HIDE DEF f
    <3>2. f \in Form /\ f.text = ts[i] /\ (f.kind \in Relative => f.base = snaps[j])
      BY <2>1, <2>4, <3>1, ComparedFacts
    <3> QED  BY <3>2
  <2> QED  BY <2>2, <2>3, <2>4
<1> HIDE DEF form
<1>5. ASSUME NEW i \in 1..m
      PROVE  Made(form(i), cs[i])
  <2>1. fs[i] = GitDiff(form(i)) /\ cs[i] = AfterDedup(ds[i])
    BY <1>2
  <2>2. ds[i] = fs[i] \/ ds[i] = Reference(fs[i])
    <3>1. DOMAIN fs = 1..m
      BY <1>2
    <3> HIDE DEF fs
    <3> QED  BY <3>1 DEF Dedup, Reference
  <2>3. "patch" \in Kinds \ Relative
    BY DEF Kinds, Relative
  <2> HIDE DEF fs, ds, cs
  <2>4. Made(form(i), fs[i])
    BY <1>4, <2>1, <2>3, ShortenMade DEF GitDiff
  <2>5. Made(form(i), ds[i])
    <3>1. fs[i] \in Form
      BY <2>4 DEF Made
    <3>2. Made(fs[i], Reference(fs[i]))
      BY <3>1, ReferenceMade
    <3>3. Made(form(i), Reference(fs[i]))
      BY <2>4, <3>2, MadeTwice
    <3> QED  BY <2>2, <2>4, <3>3
  <2>6. Made(ds[i], AfterDedup(ds[i]))
    <3>1. ds[i] \in Form
      BY <2>5 DEF Made
    <3> QED  BY <3>1, AfterDedupMade
  <2> QED  BY <2>1, <2>5, <2>6, MadeTwice
<1>6. cs = [i \in 1..m |-> cs[i]]
  BY <1>2
<1> HIDE DEF cs
<1>7. \A i \in 1..m : cs[i] \in Form /\ cs[i].text = ts[i] /\ AgainstOne(cs[i], i)
  BY <1>4, <1>5 DEF Made
<1>8. cs \in Forms /\ Len(cs) = m
  <2>1. cs \in [1..m -> Form]
    BY <1>6, <1>7
  <2> QED  BY <1>2, <2>1, LenProperties DEF Forms
<1> QED  BY <1>1, <1>7, <1>8 DEF m, td

\* After each message a snapshot is one there was before, or one of the messages.
LEMMA SnapshotsShown ==
    ASSUME snapshots \in Listings, NEW ts \in Seq(Texts)
    PROVE  LET td == ToolDelta(ts) IN
           \A i \in 0..Len(ts) : \A k \in DOMAIN td[i] :
               \/ \E j \in DOMAIN snapshots : td[i][k] = snapshots[j]
               \/ \E j \in 1..i : td[i][k] = ts[j]
<1> DEFINE m == Len(ts)
           td == ToolDelta(ts)
           Known(s, i) == \/ \E j \in DOMAIN snapshots : s = snapshots[j]
                          \/ \E j \in 1..i : s = ts[j]
           G == {i \in 0..m : \A k \in DOMAIN td[i] : Known(td[i][k], i)}
<1>1. m \in Nat /\ \A i \in 1..m : ts[i] \in Texts
  BY LenProperties
<1>2. /\ td[0] = snapshots
      /\ \A i \in 0..m : td[i] \in Listings
      /\ \A i \in 1..m : td[i] = DiffAndCompress(td[i - 1], ts[i]).snaps
  BY ToolDeltaFacts
<1> HIDE DEF td, m
<1>3. 0 \in G
  BY <1>1, <1>2
<1>4. ASSUME NEW i \in 1..m, i - 1 \in G
      PROVE  i \in G
  <2>1. i - 1 \in 0..m /\ i \in 0..m /\ i \in 1..i
    BY <1>1
  <2>2. \A k \in DOMAIN td[i] :
           td[i][k] = ts[i] \/ \E j \in DOMAIN td[i - 1] : td[i][k] = td[i - 1][j]
    BY <1>1, <1>2, <2>1, DiffFacts
  <2>3. \A j \in DOMAIN td[i - 1] : Known(td[i - 1][j], i - 1)
    BY <1>4
  <2>4. \A s : Known(s, i - 1) => Known(s, i)
    <3>1. 1..(i - 1) \subseteq 1..i
      BY <2>1
    <3> QED  BY <3>1
  <2>5. Known(ts[i], i)
    BY <2>1
  <2> HIDE DEF Known
  <2>6. \A k \in DOMAIN td[i] : Known(td[i][k], i)
    BY <2>2, <2>3, <2>4, <2>5
  <2> QED  BY <2>1, <2>6
<1>5. \A i \in 0..m : i \in G
  <2> HIDE DEF G
  <2> QED  BY <1>1, <1>3, <1>4, StepByStep
<1> QED  BY <1>5 DEF m, td

-----------------------------------------------------------------------------
(* Listings that are relative to others                                      *)

\* How long what is forwarded is, compared with the request.
Lengths ==
    \A c \in Conversations :
        /\ n[c] <= Len(Script[c])
        /\ Len(wire[c]) <= n[c]
        /\ done[c] <= n[c]
        /\ phase[c] \in {"frozen", "indexed"} => Len(out[c]) < n[c]
        /\ phase[c] = "sent" => Len(out[c]) = n[c] /\ n[c] > 0
        /\ phase[c] = "idle" => out[c] = <<>>

\* fs stands for the leading messages of conversation c.
StandsFor(fs, c) == \A i \in 1..Len(fs) : fs[i].text = Script[c][i]

SameTexts ==
    \A c \in Conversations : StandsFor(out[c], c) /\ StandsFor(wire[c], c)

\* No message of another conversation has been through the compressors.
Alone(c) == \A d \in Conversations \ {c} : done[d] = 0

\* The snapshots of a conversation without others are messages of it.
OwnSnapshots ==
    \A c \in Conversations : Alone(c) =>
        \A k \in DOMAIN snapshots : \E j \in 1..done[c] : snapshots[k] = Script[c][j]

\* What is relative to a listing comes after it.
Grounded(fs) ==
    \A i \in 1..Len(fs) : fs[i].kind \in Relative =>
        \E j \in 1..(i - 1) : fs[j].text = fs[i].base

GroundedInv ==
    \A c \in Conversations : Alone(c) /\ c \notin again =>
        Grounded(out[c]) /\ Grounded(wire[c])

GInv == TypeOK /\ Lengths /\ SameTexts /\ OwnSnapshots /\ GroundedInv

LEMMA ScriptFacts ==
    ASSUME NEW c \in Conversations
    PROVE  /\ Script[c] \in Seq(Texts) /\ Len(Script[c]) \in Nat
           /\ \A i \in 1..Len(Script[c]) : Script[c][i] \in Texts
BY LenProperties, FoldingAssumption DEF FoldingAssumption

LEMMA NoForms == <<>> \in Forms /\ Len(<<>>) = 0 /\ Grounded(<<>>) /\ \A c : StandsFor(<<>>, c)
BY DEF Forms, Grounded, StandsFor

LEMMA FormsFacts ==
    ASSUME NEW fs \in Forms
    PROVE  /\ Len(fs) \in Nat /\ DOMAIN fs = 1..Len(fs)
           /\ \A i \in 1..Len(fs) : fs[i] \in Form
BY LenProperties DEF Forms

LEMMA InitGInv == Init => GInv
<1> SUFFICES ASSUME Init PROVE GInv
  OBVIOUS
<1>1. snapshots = <<>> /\ snapshots \in Seq(Listed) /\ DOMAIN snapshots = {}
  BY DEF Init
<1>2. TypeOK
  BY <1>1, NoForms, FoldingAssumption DEF Init, TypeOK, FoldingAssumption
<1>3. Lengths
  BY NoForms, ScriptFacts DEF Init, Lengths
<1>4. SameTexts
  BY NoForms DEF Init, SameTexts
<1>5. OwnSnapshots
  BY <1>1 DEF OwnSnapshots
<1>6. GroundedInv
  BY NoForms DEF Init, GroundedInv
<1> QED  BY <1>2, <1>3, <1>4, <1>5, <1>6 DEF GInv

\* The frozen prefix is a part of what was forwarded, or nothing in it is relative.
LEMMA PrefixForms ==
    ASSUME NEW c \in Conversations, wire[c] \in Forms, NEW m \in 1..Len(Script[c]),
           NEW cold \in BOOLEAN
    PROVE  LET fs == Prefix(c, FrozenCount(c, m, cold)) IN
           /\ fs \in Forms /\ Len(fs) < m
           /\ StandsFor(wire[c], c) => StandsFor(fs, c)
           /\ Grounded(wire[c]) => Grounded(fs)
<1> DEFINE k == FrozenCount(c, m, cold)
           fs == Prefix(c, k)
<1>1. m \in Nat \ {0} /\ m <= Len(Script[c])
  BY ScriptFacts
<1>2. Len(wire[c]) \in Nat /\ \A i \in 1..Len(wire[c]) : wire[c][i] \in Form
  BY FormsFacts
<1>3. k \in Nat /\ k < m /\ (wire[c] # <<>> => k <= Len(wire[c]))
  BY <1>1, <1>2, FoldingAssumption DEF FrozenCount, Lesser, FoldingAssumption
<1> HIDE DEF k
<1>4. fs = [i \in 1..k |-> IF wire[c] # <<>> THEN wire[c][i] ELSE Plain(Script[c][i])]
  BY DEF Prefix
<1> HIDE DEF fs
<1>5. \A i \in 1..k : i \in 1..m /\ Script[c][i] \in Texts
  BY <1>1, <1>3, ScriptFacts
<1>6. CASE wire[c] # <<>>
  <2>1. fs = [i \in 1..k |-> wire[c][i]] /\ 1..k \subseteq 1..Len(wire[c])
    BY <1>2, <1>3, <1>4, <1>6
  <2>2. fs \in [1..k -> Form] /\ \A i \in 1..k : fs[i] = wire[c][i]
    BY <1>2, <2>1
  <2>3. fs \in Forms /\ Len(fs) = k
    BY <1>3, <2>2, LenProperties DEF Forms
  <2>4. StandsFor(wire[c], c) => StandsFor(fs, c)
    BY <2>1, <2>2, <2>3 DEF StandsFor
  <2>5. ASSUME Grounded(wire[c]), NEW i \in 1..k, fs[i].kind \in Relative
        PROVE  \E j \in 1..(i - 1) : fs[j].text = fs[i].base
    <3>1. PICK j \in 1..(i - 1) : wire[c][j].text = wire[c][i].base
      BY <2>1, <2>2, <2>5 DEF Grounded
    <3>2. j \in 1..k
      BY <1>3
    <3> QED  BY <2>2, <3>1, <3>2
  <2> QED  BY <1>3, <2>3, <2>4, <2>5 DEF Grounded, fs, k
<1>7. CASE wire[c] = <<>>
  <2>1. fs = [i \in 1..k |-> Plain(Script[c][i])]
    BY <1>4, <1>7
  <2>2. \A i \in 1..k : fs[i] = Plain(Script[c][i])
    BY <2>1
  <2>3. \A i \in 1..k : /\ fs[i] \in Form /\ fs[i].text = Script[c][i]
                        /\ fs[i].kind \notin Relative
    BY <1>5, <2>2, PlainFacts
  <2>4. fs \in Forms /\ Len(fs) = k
    <3>1. fs \in [1..k -> Form]
      BY <2>1, <2>2, <2>3
    <3> QED  BY <1>3, <3>1, LenProperties DEF Forms
  <2> QED  BY <1>3, <2>3, <2>4 DEF Grounded, StandsFor, fs, k
<1> QED  BY <1>6, <1>7

LEMMA ArriveGInv ==
    ASSUME GInv, NEW c \in Conversations, NEW m \in 1..Len(Script[c]),
           NEW cold \in BOOLEAN, Arrive(c, m, cold)
    PROVE  GInv'
<1> DEFINE fs == Prefix(c, FrozenCount(c, m, cold))
<1>1. TypeOK /\ Lengths /\ SameTexts /\ OwnSnapshots /\ GroundedInv
  BY DEF GInv
<1>2. /\ fs \in Forms /\ Len(fs) < m
      /\ StandsFor(wire[c], c) => StandsFor(fs, c)
      /\ Grounded(wire[c]) => Grounded(fs)
  BY <1>1, PrefixForms DEF TypeOK
<1>3. /\ phase' = [phase EXCEPT ![c] = "frozen"] /\ n' = [n EXCEPT ![c] = m]
      /\ out' = [out EXCEPT ![c] = fs] /\ m >= n[c]
      /\ turns < MaxTurns /\ turns' = turns + 1
      /\ timeouts' = IF Active # {} THEN timeouts + 1 ELSE timeouts
      /\ Active # {} => timeouts < MaxTimeouts
      /\ snapshots' = snapshots /\ tally' = tally /\ wire' = wire /\ done' = done
      /\ again' = again /\ mixed' = mixed /\ restarts' = restarts
  BY DEF Arrive, tables, history
<1> HIDE DEF fs
<1>4. m \in Nat /\ m <= Len(Script[c]) /\ \A d \in Conversations : n[d] \in Nat
  BY <1>1, ScriptFacts DEF TypeOK
<1>5. TypeOK'
  <2>1. turns' \in 0..MaxTurns /\ timeouts' \in 0..MaxTimeouts
    BY <1>1, <1>3, FoldingAssumption DEF TypeOK, FoldingAssumption
  <2> QED  BY <1>1, <1>2, <1>3, <1>4, <2>1 DEF TypeOK
<1>6. Lengths'
  <2>1. ASSUME NEW d \in Conversations, d # c
        PROVE  n'[d] = n[d] /\ phase'[d] = phase[d] /\ out'[d] = out[d]
    BY <1>1, <1>3, <2>1 DEF TypeOK
  <2>2. n'[c] = m /\ phase'[c] = "frozen" /\ out'[c] = fs
    BY <1>1, <1>3 DEF TypeOK
  <2>3. Len(wire[c]) \in Nat /\ done[c] \in Nat
    BY <1>1, FormsFacts DEF TypeOK
  <2>4. Len(wire[c]) <= m /\ done[c] <= m
    BY <1>1, <1>3, <1>4, <2>3 DEF Lengths
  <2> QED  BY <1>1, <1>2, <1>3, <1>4, <2>1, <2>2, <2>4 DEF Lengths
<1>7. SameTexts'
  BY <1>1, <1>2, <1>3 DEF SameTexts, TypeOK, StandsFor
<1>8. OwnSnapshots'
  BY <1>1, <1>3 DEF OwnSnapshots, Alone
<1>9. GroundedInv'
  BY <1>1, <1>2, <1>3 DEF GroundedInv, TypeOK, Alone
<1> QED  BY <1>5, <1>6, <1>7, <1>8, <1>9 DEF GInv

LEMMA IndexPrefixGInv ==
    ASSUME GInv, NEW c \in Conversations, IndexPrefix(c)
    PROVE  GInv'
<1>1. TypeOK /\ Lengths /\ SameTexts /\ OwnSnapshots /\ GroundedInv
  BY DEF GInv
<1>2. /\ phase[c] = "frozen" /\ phase' = [phase EXCEPT ![c] = "indexed"]
      /\ tally' = [owner |-> c, seen |-> Seen(out[c])]
      /\ snapshots' = snapshots /\ n' = n /\ out' = out /\ wire' = wire /\ done' = done
      /\ again' = again /\ mixed' = mixed
      /\ turns' = turns /\ timeouts' = timeouts /\ restarts' = restarts
  BY DEF IndexPrefix, history, bounds
<1>3. Seen(out[c]) \subseteq Form
  <2>1. out[c] \in Forms
    BY <1>1 DEF TypeOK
  <2>2. \A j \in DOMAIN out[c] : out[c][j] \in Form
    BY <2>1, FormsFacts
  <2> QED  BY <2>2 DEF Seen
<1>4. TypeOK'
  BY <1>1, <1>2, <1>3 DEF TypeOK
<1>5. Lengths'
  <2>1. phase'[c] = "indexed" /\ \A d \in Conversations : d # c => phase'[d] = phase[d]
    BY <1>1, <1>2 DEF TypeOK
  <2> QED  BY <1>1, <1>2, <2>1 DEF Lengths
<1>6. SameTexts' /\ OwnSnapshots' /\ GroundedInv'
  BY <1>1, <1>2 DEF SameTexts, StandsFor, OwnSnapshots, GroundedInv, Grounded, Alone
<1> QED  BY <1>4, <1>5, <1>6 DEF GInv

LEMMA AnswerGInv ==
    ASSUME GInv, NEW c \in Conversations, Answer(c)
    PROVE  GInv'
<1>1. TypeOK /\ Lengths /\ SameTexts /\ OwnSnapshots /\ GroundedInv
  BY DEF GInv
<1>2. /\ phase[c] = "sent" /\ phase' = [phase EXCEPT ![c] = "idle"]
      /\ wire' = [wire EXCEPT ![c] = out[c]] /\ out' = [out EXCEPT ![c] = <<>>]
      /\ snapshots' = snapshots /\ tally' = tally /\ n' = n /\ done' = done
      /\ again' = again /\ mixed' = mixed
      /\ turns' = turns /\ timeouts' = timeouts /\ restarts' = restarts
  BY DEF Answer, tables, history, bounds
<1>3. TypeOK'
  BY <1>1, <1>2, NoForms DEF TypeOK
<1>4. Lengths'
  <2>1. /\ phase'[c] = "idle" /\ out'[c] = <<>> /\ wire'[c] = out[c]
        /\ \A d \in Conversations : d # c =>
              phase'[d] = phase[d] /\ out'[d] = out[d] /\ wire'[d] = wire[d]
    BY <1>1, <1>2 DEF TypeOK
  <2>2. Len(out[c]) = n[c] /\ n[c] \in Nat
    BY <1>1, <1>2 DEF TypeOK, Lengths
  <2> QED  BY <1>1, <1>2, <2>1, <2>2 DEF Lengths
<1>5. SameTexts'
  BY <1>1, <1>2, NoForms DEF SameTexts, TypeOK
<1>6. OwnSnapshots'
  BY <1>1, <1>2 DEF OwnSnapshots, Alone
<1>7. GroundedInv'
  BY <1>1, <1>2, NoForms DEF GroundedInv, TypeOK, Alone
<1> QED  BY <1>3, <1>4, <1>5, <1>6, <1>7 DEF GInv

LEMMA FailGInv ==
    ASSUME GInv, NEW c \in Conversations, Fail(c)
    PROVE  GInv'
<1>1. TypeOK /\ Lengths /\ SameTexts /\ OwnSnapshots /\ GroundedInv
  BY DEF GInv
<1>2. /\ phase' = [phase EXCEPT ![c] = "idle"] /\ out' = [out EXCEPT ![c] = <<>>]
      /\ snapshots' = snapshots /\ tally' = tally /\ n' = n /\ wire' = wire /\ done' = done
      /\ again' = again /\ mixed' = mixed
      /\ turns' = turns /\ timeouts' = timeouts /\ restarts' = restarts
  BY DEF Fail, tables, history, bounds
<1>3. TypeOK'
  BY <1>1, <1>2, NoForms DEF TypeOK
<1>4. Lengths'
  <2>1. /\ phase'[c] = "idle" /\ out'[c] = <<>>
        /\ \A d \in Conversations : d # c => phase'[d] = phase[d] /\ out'[d] = out[d]
    BY <1>1, <1>2 DEF TypeOK
  <2> QED  BY <1>1, <1>2, <2>1 DEF Lengths
<1>5. SameTexts'
  BY <1>1, <1>2, NoForms DEF SameTexts, TypeOK
<1>6. OwnSnapshots'
  BY <1>1, <1>2 DEF OwnSnapshots, Alone
<1>7. GroundedInv'
  BY <1>1, <1>2, NoForms DEF GroundedInv, TypeOK, Alone
<1> QED  BY <1>3, <1>4, <1>5, <1>6, <1>7 DEF GInv

LEMMA RestartGInv ==
    ASSUME GInv, Restart
    PROVE  GInv'
<1>1. TypeOK /\ Lengths /\ SameTexts /\ OwnSnapshots /\ GroundedInv
  BY DEF GInv
<1>2. /\ restarts < MaxRestarts /\ restarts' = restarts + 1
      /\ snapshots' = <<>> /\ tally' = [owner |-> Nobody, seen |-> {}]
      /\ phase' = [c \in Conversations |-> "idle"]
      /\ out' = [c \in Conversations |-> <<>>]
      /\ n' = n /\ wire' = wire /\ done' = done /\ again' = again /\ mixed' = mixed
      /\ turns' = turns /\ timeouts' = timeouts
  BY DEF Restart, history
<1>3. snapshots' \in Seq(Listed) /\ DOMAIN snapshots' = {}
  BY <1>2
<1>4. TypeOK'
  BY <1>1, <1>2, <1>3, NoForms, FoldingAssumption DEF TypeOK, FoldingAssumption
<1>5. Lengths'
  BY <1>1, <1>2 DEF Lengths
<1>6. SameTexts'
  BY <1>1, <1>2, NoForms DEF SameTexts, TypeOK
<1>7. OwnSnapshots'
  BY <1>3 DEF OwnSnapshots
<1>8. GroundedInv'
  BY <1>1, <1>2, NoForms DEF GroundedInv, TypeOK, Alone
<1> QED  BY <1>4, <1>5, <1>6, <1>7, <1>8 DEF GInv

\* The compressed messages after the prefix, and the snapshots after them.
LEMMA JoinedForms ==
    ASSUME GInv, NEW c \in Conversations, phase[c] = "indexed", NEW seen
    PROVE  LET ts == SubSeq(Script[c], Len(out[c]) + 1, n[c])
               js == out[c] \o Compressed(ts, seen)
               next == ToolDelta(ts)[Len(ts)]
           IN /\ js \in Forms /\ Len(js) = n[c] /\ StandsFor(js, c)
              /\ next \in Listings
              /\ Alone(c) => \A k \in DOMAIN next : \E j \in 1..n[c] : next[k] = Script[c][j]
              /\ Alone(c) /\ Grounded(out[c]) /\ ~(Len(out[c]) < done[c]) => Grounded(js)
<1> DEFINE a == Len(out[c])
           ts == SubSeq(Script[c], a + 1, n[c])
           cs == Compressed(ts, seen)
           js == out[c] \o cs
           b == Len(ts)
           td == ToolDelta(ts)
<1>1. TypeOK /\ Lengths /\ SameTexts /\ OwnSnapshots
  BY DEF GInv
<1>2. /\ a \in Nat /\ out[c] \in Forms /\ n[c] \in Nat /\ a < n[c] /\ n[c] <= Len(Script[c])
      /\ done[c] \in Nat /\ done[c] <= n[c] /\ StandsFor(out[c], c)
  BY <1>1, FormsFacts DEF TypeOK, Lengths, SameTexts
<1>3. snapshots \in Listings
  BY <1>1 DEF TypeOK, Listings
<1>4. ts \in Seq(Texts) /\ b = n[c] - a /\ \A i \in 1..b : ts[i] = Script[c][a + i]
  <2>1. \A i \in (a + 1)..n[c] : Script[c][i] \in Texts
    BY <1>2, ScriptFacts
  <2> HIDE DEF a
  <2>2. /\ ts \in Seq(Texts)
        /\ Len(ts) = IF a + 1 <= n[c] THEN n[c] - (a + 1) + 1 ELSE 0
        /\ \A i \in 1..n[c] - (a + 1) + 1 : ts[i] = Script[c][a + 1 + i - 1]
    BY <1>2, <2>1, SubSeqProperties
  <2> HIDE DEF ts
  <2>3. b = n[c] - a
    BY <1>2, <2>2
  <2>4. \A i \in 1..b : i \in 1..n[c] - (a + 1) + 1 /\ a + 1 + i - 1 = a + i
    BY <1>2, <2>3
  <2> QED  BY <2>2, <2>3, <2>4
<1> HIDE DEF ts
<1>5. b \in Nat /\ a + b = n[c]
  BY <1>2, <1>4
<1>6. /\ cs \in Forms /\ Len(cs) = b
      /\ \A i \in 1..b : cs[i].text = ts[i]
      /\ \A i \in 1..b : cs[i].kind \in Relative =>
                \E k \in DOMAIN td[i - 1] : cs[i].base = td[i - 1][k]
  BY <1>3, <1>4, CompressedForms
<1>7. \A i \in 0..b : \A k \in DOMAIN td[i] :
          \/ \E j \in DOMAIN snapshots : td[i][k] = snapshots[j]
          \/ \E j \in 1..i : td[i][k] = ts[j]
  BY <1>3, <1>4, SnapshotsShown
<1>8. td \in [0..b -> Listings]
  BY <1>3, <1>4, ToolDeltaFacts
<1> HIDE DEF td, cs
<1>9. /\ js \in Forms /\ Len(js) = n[c]
      /\ \A i \in 1..a : js[i] = out[c][i]
      /\ \A i \in 1..b : js[a + i] = cs[i]
  <2>1. ASSUME NEW fs \in Forms, NEW gs \in Forms
        PROVE  /\ fs \o gs \in Forms /\ Len(fs \o gs) = Len(fs) + Len(gs)
               /\ \A i \in 1..Len(fs) + Len(gs) :
                     (fs \o gs)[i] = IF i <= Len(fs) THEN fs[i] ELSE gs[i - Len(fs)]
    BY <2>1, ConcatProperties DEF Forms
  <2>2. /\ js \in Forms /\ Len(js) = Len(out[c]) + Len(cs)
        /\ \A i \in 1..Len(out[c]) + Len(cs) :
              js[i] = IF i <= Len(out[c]) THEN out[c][i] ELSE cs[i - Len(out[c])]
    BY <1>2, <1>6, <2>1
  <2> HIDE DEF js, a, b
  <2>3. /\ Len(js) = a + b
        /\ \A i \in 1..a + b : js[i] = IF i <= a THEN out[c][i] ELSE cs[i - a]
    BY <1>6, <2>2 DEF a
  <2>4. ASSUME NEW i \in 1..a  PROVE js[i] = out[c][i]
    <3>1. i \in 1..a + b /\ i <= a
      BY <1>2, <1>5
    <3> QED  BY <2>3, <3>1
  <2>5. ASSUME NEW i \in 1..b  PROVE js[a + i] = cs[i]
    <3> DEFINE p == a + i
    <3>1. p \in 1..a + b /\ ~(p <= a) /\ p - a = i
      BY <1>2, <1>5
    <3> HIDE DEF p
    <3>2. js[p] = cs[p - a]
      BY <2>3, <3>1
    <3> QED  BY <3>1, <3>2, Zenon DEF p
  <2> QED  BY <1>5, <2>2, <2>3, <2>4, <2>5
<1> HIDE DEF js
<1>10. StandsFor(js, c)
  <2>1. \A i \in 1..a : js[i].text = Script[c][i]
    BY <1>2, <1>9 DEF StandsFor
  <2>2. \A i \in 1..b : js[a + i].text = Script[c][a + i]
    BY <1>4, <1>6, <1>9
  <2>3. \A i \in 1..n[c] : i \in 1..a \/ (i - a \in 1..b /\ a + (i - a) = i)
    BY <1>2, <1>5
  <2> QED  BY <1>9, <2>1, <2>2, <2>3 DEF StandsFor
<1> HIDE DEF a, b
<1>11. ASSUME Alone(c), NEW i \in 0..b, NEW k \in DOMAIN td[i]
       PROVE  \/ \E j \in 1..done[c] : td[i][k] = Script[c][j]
              \/ \E j \in 1..i : td[i][k] = Script[c][a + j]
  <2>1. CASE \E j \in DOMAIN snapshots : td[i][k] = snapshots[j]
    BY <1>1, <1>11, <2>1 DEF OwnSnapshots
  <2>2. CASE \E j \in 1..i : td[i][k] = ts[j]
    <3>1. 1..i \subseteq 1..b
      BY <1>5
    <3> QED  BY <1>4, <2>2, <3>1
  <2> QED  BY <1>7, <1>11, <2>1, <2>2
<1>12. ASSUME Alone(c), NEW k \in DOMAIN td[b]
       PROVE  \E j \in 1..n[c] : td[b][k] = Script[c][j]
  <2>1. b \in 0..b /\ 1..done[c] \subseteq 1..n[c] /\ \A j \in 1..b : a + j \in 1..n[c]
    BY <1>2, <1>5
  <2> QED  BY <1>11, <1>12, <2>1
<1>13. ASSUME Alone(c), Grounded(out[c]), done[c] <= a
       PROVE  Grounded(js)
  <2>1. ASSUME NEW i \in 1..a, js[i].kind \in Relative
        PROVE  \E j \in 1..(i - 1) : js[j].text = js[i].base
    <3>1. PICK j \in 1..(i - 1) : out[c][j].text = out[c][i].base
      BY <1>9, <1>13, <2>1 DEF Grounded, a
    <3>2. j \in 1..a
      BY <1>2
    <3> QED  BY <1>9, <3>1, <3>2
  <2>2. ASSUME NEW p \in 1..n[c], p \notin 1..a, js[p].kind \in Relative
        PROVE  \E j \in 1..(p - 1) : js[j].text = js[p].base
    <3> DEFINE i == p - a
    <3>1. i \in 1..b /\ a + i = p /\ i - 1 \in 0..b
      BY <1>2, <1>5, <2>2
    <3> HIDE DEF i
    <3>2. js[p] = cs[i]
      BY <1>9, <3>1, Zenon
    <3>3. PICK k \in DOMAIN td[i - 1] : cs[i].base = td[i - 1][k]
      BY <1>6, <2>2, <3>1, <3>2
    <3>4. \/ \E j \in 1..done[c] : td[i - 1][k] = Script[c][j]
          \/ \E j \in 1..(i - 1) : td[i - 1][k] = Script[c][a + j]
      BY <1>11, <1>13, <3>1
    <3>5. /\ \A j \in 1..done[c] : j \in 1..(p - 1)
          /\ \A j \in 1..(i - 1) : a + j \in 1..(p - 1)
          /\ 1..(p - 1) \subseteq 1..n[c]
      BY <1>2, <1>5, <1>13, <3>1
    <3>6. PICK j \in 1..(p - 1) : td[i - 1][k] = Script[c][j]
      BY <3>4, <3>5
    <3>7. js[j].text = Script[c][j]
      BY <1>9, <1>10, <3>5, <3>6 DEF StandsFor
    <3> QED  BY <3>2, <3>3, <3>6, <3>7
  <2> QED  BY <1>9, <2>1, <2>2 DEF Grounded
<1>14. td[b] \in Listings
  BY <1>5, <1>8
<1>15. ~(a < done[c]) => done[c] <= a
  BY <1>2
<1> QED  BY <1>9, <1>10, <1>12, <1>13, <1>14, <1>15 DEF js, td, a, b, cs, ts

LEMMA CompressGInv ==
    ASSUME GInv, NEW c \in Conversations, Compress(c)
    PROVE  GInv'
<1> DEFINE ts == SubSeq(Script[c], Len(out[c]) + 1, n[c])
           js == out[c] \o Compressed(ts, tally.seen)
           next == ToolDelta(ts)[Len(ts)]
<1>1. TypeOK /\ Lengths /\ SameTexts /\ OwnSnapshots /\ GroundedInv
  BY DEF GInv
<1>2. /\ phase[c] = "indexed" /\ phase' = [phase EXCEPT ![c] = "sent"]
      /\ out' = [out EXCEPT ![c] = js] /\ snapshots' = next
      /\ done' = [done EXCEPT ![c] = n[c]]
      /\ again' = IF Len(out[c]) < done[c] THEN again \cup {c} ELSE again
      /\ mixed' = IF tally.owner # c THEN mixed \cup {c} ELSE mixed
      /\ tally' = tally /\ n' = n /\ wire' = wire
      /\ turns' = turns /\ timeouts' = timeouts /\ restarts' = restarts
  BY DEF Compress, bounds
<1>3. /\ js \in Forms /\ Len(js) = n[c] /\ StandsFor(js, c)
      /\ next \in Listings
      /\ Alone(c) => \A k \in DOMAIN next : \E j \in 1..n[c] : next[k] = Script[c][j]
      /\ Alone(c) /\ Grounded(out[c]) /\ ~(Len(out[c]) < done[c]) => Grounded(js)
  BY <1>2, JoinedForms
<1> HIDE DEF ts, js, next
<1>4. n[c] \in Nat /\ n[c] > 0
  <2>1. Len(out[c]) \in Nat /\ n[c] \in Nat /\ Len(out[c]) < n[c]
    BY <1>1, <1>2, FormsFacts DEF TypeOK, Lengths
  <2> QED  BY <2>1
<1>5. done'[c] = n[c] /\ \A d \in Conversations : d # c => done'[d] = done[d]
  BY <1>1, <1>2 DEF TypeOK
<1>6. ASSUME NEW d \in Conversations, Alone(d)'
      PROVE  d = c /\ Alone(c)
  BY <1>4, <1>5, <1>6 DEF Alone
<1>7. TypeOK'
  BY <1>1, <1>2, <1>3 DEF TypeOK, Listings
<1>8. Lengths'
  <2>1. /\ phase'[c] = "sent" /\ out'[c] = js
        /\ \A d \in Conversations : d # c => phase'[d] = phase[d] /\ out'[d] = out[d]
    BY <1>1, <1>2 DEF TypeOK
  <2> QED  BY <1>1, <1>2, <1>3, <1>4, <1>5, <2>1 DEF Lengths
<1>9. SameTexts'
  BY <1>1, <1>2, <1>3 DEF SameTexts, TypeOK
<1>10. OwnSnapshots'
  BY <1>2, <1>3, <1>5, <1>6 DEF OwnSnapshots
<1>11. GroundedInv'
  <2>1. c \notin again' => c \notin again /\ ~(Len(out[c]) < done[c])
    BY <1>2
  <2>2. out'[c] = js
    BY <1>1, <1>2 DEF TypeOK
  <2>3. Alone(c) /\ c \notin again' => Grounded(out'[c]) /\ Grounded(wire'[c])
    BY <1>1, <1>2, <1>3, <2>1, <2>2 DEF GroundedInv
  <2> QED  BY <1>6, <2>3 DEF GroundedInv
<1> QED  BY <1>7, <1>8, <1>9, <1>10, <1>11 DEF GInv

LEMMA NextGInv == GInv /\ [Next]_vars => GInv'
<1> SUFFICES ASSUME GInv, [Next]_vars PROVE GInv'
  OBVIOUS
<1>1. ASSUME NEW c \in Conversations, NEW m \in 1..Len(Script[c]),
             NEW cold \in BOOLEAN, Arrive(c, m, cold)
      PROVE  GInv'
  BY <1>1, ArriveGInv
<1>2. ASSUME NEW c \in Conversations, IndexPrefix(c)  PROVE GInv'
  BY <1>2, IndexPrefixGInv
<1>3. ASSUME NEW c \in Conversations, Compress(c)  PROVE GInv'
  BY <1>3, CompressGInv
<1>4. ASSUME NEW c \in Conversations, Answer(c)  PROVE GInv'
  BY <1>4, AnswerGInv
<1>5. ASSUME NEW c \in Conversations, Fail(c)  PROVE GInv'
  BY <1>5, FailGInv
<1>6. CASE Restart
  BY <1>6, RestartGInv
<1>7. CASE UNCHANGED vars
  <2>1. /\ snapshots' = snapshots /\ tally' = tally /\ phase' = phase /\ n' = n
        /\ out' = out /\ wire' = wire /\ done' = done /\ again' = again /\ mixed' = mixed
        /\ turns' = turns /\ timeouts' = timeouts /\ restarts' = restarts
    BY <1>7 DEF vars, tables, request, history, bounds
  <2>2. TypeOK' /\ Lengths'
    BY <2>1 DEF GInv, TypeOK, Lengths
  <2>3. SameTexts' /\ OwnSnapshots' /\ GroundedInv'
    BY <2>1 DEF GInv, SameTexts, OwnSnapshots, GroundedInv, Alone
  <2> QED  BY <2>2, <2>3 DEF GInv
<1> QED  BY <1>1, <1>2, <1>3, <1>4, <1>5, <1>6, <1>7 DEF Next

\* The variables keep their types, for scripts of every length.
THEOREM TypeCorrect == Spec => []TypeOK
<1>1. GInv => TypeOK
  BY DEF GInv
<1> QED  BY <1>1, InitGInv, NextGInv, PTL DEF Spec

LEMMA GInvDelta == GInv => DeltaGrounded
<1> SUFFICES ASSUME GInv, NEW c \in Requests \ again,
                    {d \in Conversations : done[d] > 0} = {c},
                    NEW i \in DOMAIN out[c], out[c][i].kind \in {"same", "delta"}
             PROVE  \E j \in 1..(i - 1) : out[c][j].text = out[c][i].base
  BY DEF DeltaGrounded
<1>1. c \in Conversations /\ c \notin again
  BY DEF Requests
<1>2. Alone(c)
  BY DEF GInv, TypeOK, Alone
<1>3. i \in 1..Len(out[c])
  BY <1>1, FormsFacts DEF GInv, TypeOK
<1>4. Grounded(out[c])
  BY <1>1, <1>2 DEF GInv, GroundedInv
<1> QED  BY <1>3, <1>4 DEF Grounded, Relative

\* A listing that is forwarded as a difference, or as unchanged, is so relative to a
\* listing before it in the same request (ToolDeltaCompressor): in a session with one
\* conversation, none of whose messages went through the compressors twice.
THEOREM DeltasGrounded == Spec => []DeltaGrounded
BY InitGInv, NextGInv, GInvDelta, PTL DEF Spec

SentWhole ==
    \A c \in Requests :
        /\ Len(out[c]) = n[c]
        /\ \A i \in 1..n[c] : out[c][i].text = Script[c][i]

\* A request that is sent has a message for each message of the client, which stands
\* for the same text, whatever was frozen before, compressed or lost in a restart.
THEOREM MessageForMessage == Spec => []SentWhole
<1>1. GInv => SentWhole
  BY DEF GInv, Lengths, SameTexts, StandsFor, Requests, SentWhole
<1> QED  BY <1>1, InitGInv, NextGInv, PTL DEF Spec

-----------------------------------------------------------------------------
(* The ledger: what is in its files                                          *)

Events == Seq(Event)

LEMMA EventsFacts ==
    ASSUME NEW seq \in Events
    PROVE  /\ Len(seq) \in Nat /\ DOMAIN seq = 1..Len(seq)
           /\ \A i \in DOMAIN seq : seq[i] \in Event
BY LenProperties DEF Events

LEMMA NoEvents == <<>> \in Events /\ Len(<<>>) = 0 /\ DOMAIN <<>> = {}
<1>1. <<>> \in Events /\ Len(<<>>) = 0
  BY EmptySeq DEF Events
<1> QED  BY <1>1, EventsFacts

\* e is in seq, at one place.
Once(e, seq) == \E i \in DOMAIN seq : \A j \in DOMAIN seq : seq[j] = e <=> j = i

\* An event that is appended is at one place if it was at none, and another one
\* stays where it is.
LEMMA AppendedEvents ==
    ASSUME NEW seq \in Events, NEW x \in Event
    PROVE  /\ Append(seq, x) \in Events
           /\ \A i \in DOMAIN Append(seq, x) :
                 Append(seq, x)[i] = x \/ \E j \in DOMAIN seq : Append(seq, x)[i] = seq[j]
           /\ \A e : e # x /\ Once(e, seq) => Once(e, Append(seq, x))
           /\ (\A i \in DOMAIN seq : seq[i] # x) => Once(x, Append(seq, x))
<1> DEFINE new == Append(seq, x)
<1>1. Len(seq) \in Nat /\ DOMAIN seq = 1..Len(seq)
  BY EventsFacts
<1>2. /\ new \in Events /\ Len(new) = Len(seq) + 1
      /\ \A i \in 1..Len(seq) : new[i] = seq[i]
      /\ new[Len(seq) + 1] = x
  BY AppendProperties DEF Events
<1> HIDE DEF new
<1>3. DOMAIN new = 1..(Len(seq) + 1)
  BY <1>2, EventsFacts
<1>4. /\ \A i \in DOMAIN new : i \in DOMAIN seq \/ i = Len(seq) + 1
      /\ \A i \in DOMAIN seq : i \in DOMAIN new /\ i # Len(seq) + 1 /\ new[i] = seq[i]
      /\ Len(seq) + 1 \in DOMAIN new
  BY <1>1, <1>2, <1>3
<1>5. \A i \in DOMAIN new : new[i] = x \/ \E j \in DOMAIN seq : new[i] = seq[j]
  BY <1>2, <1>4
<1>6. ASSUME NEW e, e # x, Once(e, seq)  PROVE Once(e, new)
  BY <1>2, <1>4, <1>6 DEF Once
<1>7. ASSUME \A i \in DOMAIN seq : seq[i] # x  PROVE Once(x, new)
  BY <1>2, <1>4, <1>7 DEF Once
<1> QED  BY <1>2, <1>5, <1>6, <1>7 DEF new

\* What is written at the beginning of a file is in it, and what was there before may be.
LEMMA OverFacts ==
    ASSUME NEW new \in Events, NEW old \in Events
    PROVE  /\ Over(new, old) \in Events
           /\ \A i \in DOMAIN Over(new, old) : \/ \E j \in DOMAIN new : Over(new, old)[i] = new[j]
                                               \/ \E j \in DOMAIN old : Over(new, old)[i] = old[j]
           /\ old = <<>> => Over(new, old) = new
<1> DEFINE m == Len(new) + 1
           t == Len(old)
           rest == SubSeq(old, m, t)
<1>1. /\ Len(new) \in Nat /\ DOMAIN new = 1..Len(new)
      /\ t \in Nat /\ DOMAIN old = 1..t /\ \A i \in 1..t : old[i] \in Event
  BY EventsFacts
<1>2. m \in Int /\ t \in Int /\ \A i \in m..t : i \in 1..t /\ old[i] \in Event
  BY <1>1
<1>3. /\ rest \in Events /\ Len(rest) = IF m <= t THEN t - m + 1 ELSE 0
      /\ \A i \in 1..(t - m + 1) : rest[i] = old[m + i - 1]
  <2> HIDE DEF m, t
  <2> QED  BY <1>2, SubSeqProperties DEF Events
<1>4. Over(new, old) = new \o rest
  BY DEF Over
<1> HIDE DEF rest
<1>5. /\ new \o rest \in Events /\ Len(new \o rest) = Len(new) + Len(rest)
      /\ \A i \in 1..(Len(new) + Len(rest)) :
            (new \o rest)[i] = IF i <= Len(new) THEN new[i] ELSE rest[i - Len(new)]
  BY <1>3, ConcatProperties DEF Events
<1> DEFINE w == new \o rest
<1> HIDE DEF w
<1>6. w \in Events /\ DOMAIN w = 1..(Len(new) + Len(rest))
  BY <1>5, EventsFacts DEF w
<1>7. ASSUME NEW i \in DOMAIN w
      PROVE  \/ \E j \in DOMAIN new : w[i] = new[j]
             \/ \E j \in DOMAIN old : w[i] = old[j]
  <2>1. Len(rest) \in Nat /\ i \in 1..(Len(new) + Len(rest))
    BY <1>3, <1>6, EventsFacts
  <2>2. w[i] = IF i <= Len(new) THEN new[i] ELSE rest[i - Len(new)]
    BY <1>5, <2>1 DEF w
  <2>3. CASE i <= Len(new)
    <3>1. i \in DOMAIN new
      BY <1>1, <2>1, <2>3
    <3> QED  BY <2>2, <2>3, <3>1
  <2>4. CASE ~(i <= Len(new))
    <3>0. i - Len(new) \in 1..Len(rest)
      BY <1>1, <2>1, <2>4
    <3>a. Len(rest) # 0
      BY <3>0
    <3>b. Len(rest) = t - m + 1
      BY <1>3, <3>a
    <3>1. i - Len(new) \in 1..(t - m + 1) /\ m + (i - Len(new)) - 1 \in 1..t
      <4>1. i - Len(new) \in 1..(t - m + 1)
        BY <3>0, <3>b
      <4> QED  BY <1>1, <2>1, <4>1
    <3>2. rest[i - Len(new)] = old[m + (i - Len(new)) - 1]
      BY <1>3, <3>1
    <3>3. w[i] = old[m + (i - Len(new)) - 1] /\ m + (i - Len(new)) - 1 \in DOMAIN old
      BY <1>1, <2>2, <2>4, <3>1, <3>2
    <3> QED  BY <3>3
  <2> QED  BY <2>3, <2>4
<1>8. ASSUME old = <<>>  PROVE w = new
  <2>1. t = 0 /\ ~(m <= t)
    BY <1>1, <1>8, NoEvents
  <2>2. Len(rest) = 0
    BY <1>3, <2>1
  <2>3. rest = <<>>
    BY <1>3, <2>2, EmptySeq DEF Events
  <2> QED  BY <2>3, ConcatEmptySeq DEF Events, w
<1> QED  BY <1>4, <1>6, <1>7, <1>8 DEF w

\* The part of what is to be written that a crash leaves.
LEMMA PartFacts ==
    ASSUME NEW seq \in Events, NEW t \in 0..Len(seq)
    PROVE  /\ SubSeq(seq, 1, t) \in Events
           /\ \A i \in DOMAIN SubSeq(seq, 1, t) : \E j \in DOMAIN seq : SubSeq(seq, 1, t)[i] = seq[j]
<1> DEFINE p == SubSeq(seq, 1, t)
<1>1. Len(seq) \in Nat /\ DOMAIN seq = 1..Len(seq) /\ \A i \in 1..Len(seq) : seq[i] \in Event
  BY EventsFacts
<1>2. t \in Nat /\ 1 \in Int /\ t \in Int /\ t <= Len(seq) /\ \A i \in 1..t : i \in DOMAIN seq /\ seq[i] \in Event
  BY <1>1
<1>3. /\ p \in Events /\ Len(p) = IF 1 <= t THEN t - 1 + 1 ELSE 0
      /\ \A i \in 1..(t - 1 + 1) : p[i] = seq[1 + i - 1]
  BY <1>2, SubSeqProperties DEF Events
<1> HIDE DEF p
<1>4. DOMAIN p = 1..t
  <2>1. Len(p) = t
    BY <1>2, <1>3
  <2> QED  BY <1>3, <2>1, EventsFacts
<1>5. \A i \in DOMAIN p : p[i] = seq[i] /\ i \in DOMAIN seq
  BY <1>1, <1>2, <1>3, <1>4
<1> QED  BY <1>3, <1>5 DEF p

\* A compaction keeps the events that fit, each as often as it was there, and a report
\* adds up no others.
LEMMA FittingFacts ==
    ASSUME NEW seq \in Events, NEW days
    PROVE  /\ Fitting(seq, days) \in Events
           /\ \A i \in DOMAIN Fitting(seq, days) :
                 /\ Fits(Fitting(seq, days)[i], days)
                 /\ \E j \in DOMAIN seq : Fitting(seq, days)[i] = seq[j]
           /\ \A e : Fits(e, days) /\ Once(e, seq) => Once(e, Fitting(seq, days))
<1> DEFINE m == Len(seq)
           fit == {e \in Event : Fits(e, days)}
           step == [i \in 1..m |-> [s \in Events |-> IF seq[i] \in fit THEN Append(s, seq[i]) ELSE s]]
           Next0(g, i) == IF i = 0 THEN <<>>
                          ELSE IF Fits(seq[i], days) THEN Append(g[i - 1], seq[i]) ELSE g[i - 1]
<1>1. m \in Nat /\ DOMAIN seq = 1..m /\ \A i \in 1..m : seq[i] \in Event
  BY EventsFacts
<1>2. step \in [1..m -> [Events -> Events]]
  BY <1>1, AppendedEvents
<1>3. \A i \in 1..m : \A s \in Events : step[i][s] = IF Fits(seq[i], days) THEN Append(s, seq[i]) ELSE s
  BY <1>1
<1>4. PICK f : Runs(f, m, Events, <<>>, step)
  <2> HIDE DEF step, m
  <2> QED  BY <1>1, <1>2, NoEvents, Iterated
<1> HIDE DEF step, fit
<1>5. \A i \in 1..m : i \in 0..m /\ i # 0 /\ i - 1 \in 0..m
  BY <1>1
<1>6. f \in [0..m -> Events] /\ \A i \in 0..m : f[i] = Next0(f, i)
  <2>1. \A i \in 0..m : i # 0 => i \in 1..m
    BY <1>1
  <2> QED  BY <1>3, <1>4, <1>5, <2>1 DEF Runs
<1>7. f = [i \in 0..m |-> Next0(f, i)]
  BY <1>6
<1> DEFINE u == CHOOSE g : g = [i \in 0..m |-> Next0(g, i)]
<1>8. Fitting(seq, days) = u[m]
  BY DEF Fitting
<1>9. u = [i \in 0..m |-> Next0(u, i)]
  BY <1>7
<1> HIDE DEF u
<1>10. \A i \in 0..m : u[i] = Next0(u, i)
  BY <1>9
<1>11. u[0] = <<>> /\ \A i \in 1..m : u[i] = IF Fits(seq[i], days) THEN Append(u[i - 1], seq[i]) ELSE u[i - 1]
  <2>1. 0 \in 0..m
    BY <1>1
  <2> QED  BY <1>5, <1>10, <2>1
<1> HIDE DEF m, Next0
<1> DEFINE From(t) == \A i \in DOMAIN u[t] : /\ Fits(u[t][i], days)
                                             /\ \E j \in 1..t : u[t][i] = seq[j]
           Has(t) == \A e : \A j \in 1..t :
                        Fits(e, days) /\ (\A k \in 1..t : seq[k] = e <=> k = j) => Once(e, u[t])
           G == {t \in 0..m : u[t] \in Events /\ From(t) /\ Has(t)}
<1>12. 0 \in G
  <2>1. u[0] \in Events /\ DOMAIN u[0] = {} /\ 0 \in 0..m
    BY <1>1, <1>11, NoEvents
  <2> QED  BY <2>1
<1>13. ASSUME NEW t \in 1..m, t - 1 \in G
       PROVE  t \in G
  <2>1. u[t - 1] \in Events /\ From(t - 1) /\ Has(t - 1) /\ seq[t] \in Event
    BY <1>1, <1>13
  <2>2. /\ t \in Nat /\ t \in 1..t /\ t - 1 \in 0..m /\ \A j \in 1..(t - 1) : j \in 1..t /\ j # t
        /\ \A j \in 1..t : j # t => j \in 1..(t - 1)
    BY <1>1
  <2>3. CASE Fits(seq[t], days)
    <3>1. u[t] = Append(u[t - 1], seq[t])
      BY <1>11, <2>3
    <3>2. u[t] \in Events
      BY <2>1, <3>1, AppendedEvents
    <3>3. From(t)
      <4>1. \A i \in DOMAIN u[t] : u[t][i] = seq[t] \/ \E j \in DOMAIN u[t - 1] : u[t][i] = u[t - 1][j]
        BY <2>1, <3>1, AppendedEvents
      <4> QED  BY <2>1, <2>2, <2>3, <4>1
    <3>4. ASSUME NEW e, NEW j \in 1..t, Fits(e, days), \A k \in 1..t : seq[k] = e <=> k = j
          PROVE  Once(e, u[t])
      <4>1. CASE j = t
        <5>1. \A i \in DOMAIN u[t - 1] : u[t - 1][i] # seq[t]
          BY <2>1, <2>2, <3>4, <4>1
        <5>2. e = seq[t]
          BY <2>2, <3>4, <4>1
        <5> QED  BY <2>1, <3>1, <5>1, <5>2, AppendedEvents
      <4>2. CASE j # t
        <5>1. e # seq[t] /\ j \in 1..(t - 1) /\ \A k \in 1..(t - 1) : seq[k] = e <=> k = j
          BY <2>2, <3>4, <4>2
        <5>2. Once(e, u[t - 1])
          BY <2>1, <3>4, <5>1
        <5> QED  BY <2>1, <3>1, <5>1, <5>2, AppendedEvents
      <4> QED  BY <4>1, <4>2
    <3> QED  BY <2>2, <3>2, <3>3, <3>4
  <2>4. CASE ~Fits(seq[t], days)
    <3>1. u[t] = u[t - 1]
      BY <1>11, <2>4
    <3>2. From(t)
      BY <2>1, <2>2, <3>1
    <3>3. ASSUME NEW e, NEW j \in 1..t, Fits(e, days), \A k \in 1..t : seq[k] = e <=> k = j
          PROVE  Once(e, u[t])
      <4>1. j # t
        BY <2>2, <2>4, <3>3
      <4>2. j \in 1..(t - 1) /\ \A k \in 1..(t - 1) : seq[k] = e <=> k = j
        BY <2>2, <3>3, <4>1
      <4> QED  BY <2>1, <3>1, <3>3, <4>2
    <3> QED  BY <2>1, <2>2, <3>1, <3>2, <3>3
  <2> QED  BY <2>3, <2>4
<1>14. m \in G
  <2>1. m \in Nat /\ m \in 0..m
    BY <1>1
  <2> HIDE DEF G
  <2> QED  BY <1>12, <1>13, <2>1, StepByStep
<1>15. u[m] \in Events /\ From(m) /\ Has(m)
  BY <1>14
<1>16. \A e : Fits(e, days) /\ Once(e, seq) => Once(e, u[m])
  <2> SUFFICES ASSUME NEW e, Fits(e, days), Once(e, seq)  PROVE Once(e, u[m])
    OBVIOUS
  <2>1. PICK j \in DOMAIN seq : \A k \in DOMAIN seq : seq[k] = e <=> k = j
    BY DEF Once
  <2>2. j \in 1..m /\ \A k \in 1..m : seq[k] = e <=> k = j
    BY <1>1, <2>1, Zenon
  <2> QED  BY <1>15, <2>2
<1> QED  BY <1>1, <1>8, <1>15, <1>16

\* The days of the events, and of one more.
LEMMA DayFacts ==
    ASSUME SLTypeOK
    PROVE  /\ Len(day) \in Nat /\ DOMAIN day = 1..Len(day) /\ DOMAIN day \subseteq Event
           /\ \A e \in DOMAIN day : day[e] \in Nat
           /\ Len(day) < MaxEvents =>
                 /\ Append(day, now) \in Seq(0..MaxNow)
                 /\ Len(Append(day, now)) = Len(day) + 1
                 /\ DOMAIN Append(day, now) = DOMAIN day \cup {Len(day) + 1}
                 /\ Len(day) + 1 \notin DOMAIN day /\ Len(day) + 1 \in Event
                 /\ \A e \in DOMAIN day : Append(day, now)[e] = day[e]
<1>1. /\ day \in Seq(0..MaxNow) /\ Len(day) <= MaxEvents /\ now \in 0..MaxNow
      /\ MaxNow \in Nat /\ MaxEvents \in Nat
  BY LedgerAssumption DEF SLTypeOK
<1>2. Len(day) \in Nat /\ DOMAIN day = 1..Len(day) /\ \A e \in DOMAIN day : day[e] \in 0..MaxNow
  BY <1>1, LenProperties
<1>3. /\ Append(day, now) \in Seq(0..MaxNow) /\ Len(Append(day, now)) = Len(day) + 1
      /\ \A i \in 1..Len(day) : Append(day, now)[i] = day[i]
  BY <1>1, AppendProperties
<1>4. DOMAIN Append(day, now) = 1..(Len(day) + 1)
  BY <1>3, LenProperties
<1> QED  BY <1>1, <1>2, <1>3, <1>4 DEF Event

\* Events that are about to be written, and what else may be in a file.
Pending == {event[p] : p \in {q \in Processes : pc[q] = "append"}}
Known(seq) == \A i \in DOMAIN seq : seq[i] \in DOMAIN day /\ seq[i] \notin Pending

\* Who is going to write an event has it to itself, and never writes into ".tmp".
Opened ==
    \A p \in Processes : pc[p] = "append" =>
        /\ event[p] \in DOMAIN day /\ handle[p] # temp
        /\ \A q \in Processes \ {p} : pc[q] = "append" => event[q] # event[p]

Written == (\A f \in Files : Known(disk[f])) /\ \A p \in Processes : Known(kept[p])

LEMMA ContentFacts ==
    ASSUME SLTypeOK
    PROVE  /\ Content(ledger) \in Events
           /\ Written => Known(Content(ledger))
BY NoEvents DEF SLTypeOK, Content, Events, Written, Known

LEMMA GoesFacts ==
    ASSUME SLTypeOK, NEW p \in Processes, NEW file \in Files \cup {NoFile},
           NEW to \in {"idle", "append", "check", "read", "open", "write", "replace"},
           file # NoFile <=> to \in {"append", "write"},
           Goes(p, to, file)
    PROVE  /\ pc' \in [Processes -> {"idle", "append", "check", "read", "open", "write", "replace"}]
           /\ handle' \in [Processes -> Files \cup {NoFile}]
           /\ \A q \in Processes : handle'[q] # NoFile <=> pc'[q] \in {"append", "write"}
           /\ pc'[p] = to /\ handle'[p] = file
           /\ \A q \in Processes \ {p} : pc'[q] = pc[q] /\ handle'[q] = handle[q]
BY DEF SLTypeOK, Goes

LEMMA DoneFacts ==
    ASSUME SLTypeOK, NEW p \in Processes, Done(p)
    PROVE  /\ pc' \in [Processes -> {"idle", "append", "check", "read", "open", "write", "replace"}]
           /\ handle' \in [Processes -> Files \cup {NoFile}]
           /\ \A q \in Processes : handle'[q] # NoFile <=> pc'[q] \in {"append", "write"}
           /\ pc'[p] = "idle" /\ handle'[p] = NoFile /\ kept'[p] = <<>> /\ event'[p] = 0
           /\ \A q \in Processes \ {p} : /\ pc'[q] = pc[q] /\ handle'[q] = handle[q]
                                         /\ kept'[q] = kept[q] /\ event'[q] = event[q]
           /\ kept' \in [Processes -> Seq(Event)] /\ event' \in [Processes -> Event \cup {0}]
<1>1. Goes(p, "idle", NoFile)
  BY DEF Done
<1> QED  BY <1>1, GoesFacts, NoEvents DEF Done, SLTypeOK, Events

LEMMA AddsFacts ==
    ASSUME SLTypeOK, NEW f \in Files, NEW e \in Event, Adds(f, e)
    PROVE  /\ disk' \in [Files -> Seq(Event)] /\ torn' \subseteq Files
           /\ disk' = disk \/ disk' = [disk EXCEPT ![f] = Append(@, e)]
<1>1. Append(disk[f], e) \in Seq(Event)
  BY AppendedEvents DEF SLTypeOK, Events
<1> QED  BY <1>1 DEF Adds, SLTypeOK

LEMMA SLInitType == SLInit => SLTypeOK
<1>1. <<>> \in Seq(Event) /\ <<>> \in Seq(0..MaxNow) /\ Len(<<>>) = 0 /\ DOMAIN <<>> = {}
  BY NoEvents, EmptySeq DEF Events
<1> QED  BY <1>1, LedgerAssumption DEF SLInit, SLTypeOK

LEMMA SLStepType == SLTypeOK /\ Opened /\ [SLNext]_SLvars => SLTypeOK'
<1> SUFFICES ASSUME SLTypeOK, Opened, [SLNext]_SLvars  PROVE SLTypeOK'
  OBVIOUS
<1>u. CASE UNCHANGED SLvars
  BY <1>u DEF SLvars, SLTypeOK
<1>1. ASSUME NEW p \in Processes, Record(p)  PROVE SLTypeOK'
  <2>1. PICK file \in IF ledger = NoFile THEN Fresh ELSE {ledger} :
            /\ ledger' = file
            /\ disk' = IF ledger = NoFile THEN [disk EXCEPT ![file] = <<>>] ELSE disk
            /\ torn' = IF ledger = NoFile THEN torn \ {file} ELSE torn
            /\ Goes(p, "append", file)
    BY <1>1 DEF Record
  <2>2. file \in Files /\ file # NoFile /\ file # temp
    BY <2>1, LedgerAssumption DEF SLTypeOK, Fresh, Used
  <2>3. disk' \in [Files -> Seq(Event)] /\ torn' \subseteq Files
    BY <1>1, <2>1, <2>2, NoEvents DEF Record, SLTypeOK, Events
  <2>4. /\ pc' \in [Processes -> {"idle", "append", "check", "read", "open", "write", "replace"}]
        /\ handle' \in [Processes -> Files \cup {NoFile}]
        /\ \A q \in Processes : handle'[q] # NoFile <=> pc'[q] \in {"append", "write"}
    BY <2>1, <2>2, GoesFacts
  <2>5. /\ day' \in Seq(0..MaxNow) /\ Len(day') <= MaxEvents /\ Len(day) + 1 \in Event
        /\ DOMAIN day \subseteq DOMAIN day'
    BY <1>1, DayFacts, LedgerAssumption DEF Record
  <2>6. event' \in [Processes -> Event \cup {0}]
    BY <1>1, <2>5 DEF Record, SLTypeOK
  <2>7. recorded' \subseteq DOMAIN day' /\ risk' \subseteq DOMAIN day'
    BY <1>1, <2>5 DEF Record, SLTypeOK
  <2>8. ledger' \in Files \cup {NoFile} /\ ledger' # temp'
    BY <1>1, <2>1, <2>2 DEF Record
  <2> QED  BY <1>1, <2>3, <2>4, <2>5, <2>6, <2>7, <2>8 DEF Record, SLTypeOK
<1>2. ASSUME NEW p \in Processes, Write(p)  PROVE SLTypeOK'
  <2>1. handle[p] \in Files /\ event[p] \in DOMAIN day /\ event[p] \in Event
    BY <1>2, DayFacts DEF Write, SLTypeOK, Opened
  <2>2. disk' \in [Files -> Seq(Event)] /\ torn' \subseteq Files
    BY <1>2, <2>1, AddsFacts DEF Write
  <2>3. /\ pc' \in [Processes -> {"idle", "append", "check", "read", "open", "write", "replace"}]
        /\ handle' \in [Processes -> Files \cup {NoFile}]
        /\ \A q \in Processes : handle'[q] # NoFile <=> pc'[q] \in {"append", "write"}
    BY <1>2, GoesFacts DEF Write
  <2>4. recorded' \subseteq DOMAIN day /\ risk' \subseteq DOMAIN day
    BY <1>2, <2>1 DEF Write, SLTypeOK
  <2> QED  BY <1>2, <2>2, <2>3, <2>4 DEF Write, SLTypeOK
<1>3. ASSUME NEW p \in Processes, WriteFails(p)  PROVE SLTypeOK'
  <2>1. handle[p] \in Files /\ event[p] \in Event
    BY <1>3, DayFacts DEF WriteFails, SLTypeOK, Opened
  <2>2. disk' \in [Files -> Seq(Event)] /\ torn' \subseteq Files
    BY <1>3, <2>1, AddsFacts DEF WriteFails, Cuts, SLTypeOK
  <2> QED  BY <1>3, <2>2, DoneFacts, LedgerAssumption DEF WriteFails, SLTypeOK
<1>4. ASSUME NEW p \in Processes, Check(p)  PROVE SLTypeOK'
  <2>1. CASE Done(p)
    BY <1>4, <2>1, DoneFacts DEF Check, SLTypeOK
  <2>2. CASE Goes(p, "read", NoFile) /\ UNCHANGED <<event, kept>>
    BY <1>4, <2>2, GoesFacts DEF Check, SLTypeOK
  <2> QED  BY <1>4, <2>1, <2>2 DEF Check
<1>5. ASSUME NEW p \in Processes, Read(p)  PROVE SLTypeOK'
  <2>1. Fitting(Content(ledger), Retention) \in Seq(Event)
    BY ContentFacts, FittingFacts DEF Events
  <2> QED  BY <1>5, <2>1, GoesFacts DEF Read, SLTypeOK
<1>6. ASSUME NEW p \in Processes, ReadFails(p)  PROVE SLTypeOK'
  <2>1. kept' \in [Processes -> Seq(Event)]
    BY <1>6, NoEvents DEF ReadFails, SLTypeOK, Events
  <2> QED  BY <1>6, <2>1, GoesFacts, LedgerAssumption DEF ReadFails, SLTypeOK
<1>7. ASSUME NEW p \in Processes, OpenTemp(p)  PROVE SLTypeOK'
  <2>1. PICK file \in IF temp = NoFile THEN Fresh ELSE {temp} :
            /\ temp' = file /\ disk' = [disk EXCEPT ![file] = <<>>]
            /\ torn' = torn \ {file} /\ Goes(p, "write", file)
    BY <1>7 DEF OpenTemp
  <2>2. file \in Files /\ file # NoFile /\ file # ledger
    BY <2>1, LedgerAssumption DEF SLTypeOK, Fresh, Used
  <2>3. disk' \in [Files -> Seq(Event)] /\ torn' \subseteq Files
    BY <2>1, <2>2, NoEvents DEF SLTypeOK, Events
  <2>4. risk' \subseteq DOMAIN day
    BY <1>7 DEF OpenTemp, SLTypeOK
  <2>5. /\ pc' \in [Processes -> {"idle", "append", "check", "read", "open", "write", "replace"}]
        /\ handle' \in [Processes -> Files \cup {NoFile}]
        /\ \A q \in Processes : handle'[q] # NoFile <=> pc'[q] \in {"append", "write"}
    BY <2>1, <2>2, GoesFacts
  <2> QED  BY <1>7, <2>1, <2>2, <2>3, <2>4, <2>5 DEF OpenTemp, SLTypeOK
<1>8. ASSUME NEW p \in Processes, WriteTemp(p)  PROVE SLTypeOK'
  <2>1. handle[p] \in Files
    BY <1>8 DEF WriteTemp, SLTypeOK
  <2>2. disk' \in [Files -> Seq(Event)] /\ torn' \subseteq Files
    BY <1>8, <2>1, OverFacts DEF WriteTemp, SLTypeOK, Events
  <2> QED  BY <1>8, <2>2, GoesFacts DEF WriteTemp, SLTypeOK
<1>9. ASSUME NEW p \in Processes, Replace(p)  PROVE SLTypeOK'
  BY <1>9, DoneFacts DEF Replace, SLTypeOK
<1>10. ASSUME NEW p \in Processes, Crash(p)  PROVE SLTypeOK'
  <2>1. disk' \in [Files -> Seq(Event)]
    <3>1. CASE pc[p] = "write"
      <4>1. handle[p] \in Files /\ kept[p] \in Events /\ disk[handle[p]] \in Events
        BY <3>1 DEF SLTypeOK, Events
      <4>2. PICK t \in 0..Len(kept[p]) :
                disk' = [disk EXCEPT ![handle[p]] = Over(SubSeq(kept[p], 1, t), @)]
        BY <1>10, <3>1 DEF Crash
      <4>3. Over(SubSeq(kept[p], 1, t), disk[handle[p]]) \in Events
        BY <4>1, PartFacts, OverFacts
      <4> QED  BY <4>1, <4>2, <4>3 DEF SLTypeOK, Events
    <3>2. CASE pc[p] # "write"
      BY <1>10, <3>2 DEF Crash, SLTypeOK
    <3> QED  BY <3>1, <3>2
  <2>2. torn' \subseteq Files
    BY <1>10 DEF Crash, Cuts, SLTypeOK
  <2> QED  BY <1>10, <2>1, <2>2, DoneFacts, LedgerAssumption DEF Crash, SLTypeOK
<1>11. CASE Reset \/ Tick
  BY <1>11, LedgerAssumption DEF Reset, Tick, SLTypeOK
<1> QED  BY <1>u, <1>1, <1>2, <1>3, <1>4, <1>5, <1>6, <1>7, <1>8, <1>9, <1>10, <1>11
            DEF SLNext

\* What most steps do to the events that are about to be written: nobody starts to.
Quieter ==
    /\ day' = day
    /\ \A p \in Processes : pc'[p] = "append" =>
           pc[p] = "append" /\ event'[p] = event[p] /\ handle'[p] = handle[p]

\* Known after the step.
StillKnown(seq) == \A i \in DOMAIN seq : seq[i] \in DOMAIN day' /\ seq[i] \notin Pending'

LEMMA QuieterFacts ==
    ASSUME Quieter
    PROVE  /\ Pending' \subseteq Pending
           /\ \A seq : Known(seq) => StillKnown(seq)
           /\ Opened /\ (\A p \in Processes : pc'[p] = "append" => handle[p] # temp')
                 => Opened'
<1>1. Pending' \subseteq Pending
  BY DEF Quieter, Pending
<1>2. \A seq : Known(seq) => StillKnown(seq)
  BY <1>1 DEF Quieter, Known, StillKnown
<1>3. ASSUME Opened, \A p \in Processes : pc'[p] = "append" => handle[p] # temp'
      PROVE  Opened'
  BY <1>3 DEF Quieter, Opened
<1> QED  BY <1>1, <1>2, <1>3

\* The steps that nobody starts to write in.
LEMMA Quiet ==
    ASSUME SLTypeOK, NEW p \in Processes,
           \/ Write(p) \/ WriteFails(p) \/ Check(p) \/ Read(p) \/ ReadFails(p)
           \/ OpenTemp(p) \/ WriteTemp(p) \/ Replace(p) \/ Crash(p)
    PROVE  Quieter
<1> DEFINE Same(q) == pc'[q] = pc[q] /\ handle'[q] = handle[q] /\ event'[q] = event[q]
<1>1. CASE Done(p)
  <2>1. pc'[p] = "idle" /\ \A q \in Processes \ {p} : Same(q)
    BY <1>1, DoneFacts
  <2>2. day' = day
    BY <1>1, <2>1 DEF Write, WriteFails, Check, Read, ReadFails, OpenTemp, WriteTemp, Replace, Crash
  <2> QED  BY <2>1, <2>2 DEF Quieter
<1>2. ASSUME NEW to \in {"check", "read", "open", "write", "replace"},
             NEW file \in Files \cup {NoFile}, Goes(p, to, file), event' = event, day' = day
      PROVE  Quieter
  <2>1. pc'[p] = to /\ \A q \in Processes \ {p} : Same(q)
    BY <1>2 DEF Goes, SLTypeOK
  <2> QED  BY <1>2, <2>1 DEF Quieter
<1>3. CASE Write(p) \/ Read(p) \/ ReadFails(p) \/ WriteTemp(p)
  BY <1>2, <1>3 DEF Write, Read, ReadFails, WriteTemp
<1>4. CASE WriteFails(p) \/ Replace(p) \/ Crash(p)
  BY <1>1, <1>4 DEF WriteFails, Replace, Crash
<1>5. CASE Check(p)
  BY <1>1, <1>2, <1>5 DEF Check
<1>6. CASE OpenTemp(p)
  <2>1. PICK file \in IF temp = NoFile THEN Fresh ELSE {temp} : Goes(p, "write", file)
    BY <1>6 DEF OpenTemp
  <2>2. file \in Files \cup {NoFile}
    BY <2>1 DEF Fresh, SLTypeOK
  <2> QED  BY <1>2, <1>6, <2>1, <2>2 DEF OpenTemp
<1> QED  BY <1>3, <1>4, <1>5, <1>6

LEMMA OpenedStep == SLTypeOK /\ Opened /\ [SLNext]_SLvars => Opened'
<1> SUFFICES ASSUME SLTypeOK, Opened, [SLNext]_SLvars  PROVE Opened'
  OBVIOUS
<1>1. CASE UNCHANGED SLvars \/ Reset \/ Tick
  BY <1>1 DEF SLvars, Reset, Tick, Opened
<1>2. ASSUME NEW p \in Processes, Record(p)  PROVE Opened'
  <2>1. PICK file \in IF ledger = NoFile THEN Fresh ELSE {ledger} : Goes(p, "append", file)
    BY <1>2 DEF Record
  <2>2. file \in Files /\ file # NoFile /\ file # temp /\ temp' = temp
    BY <1>2, <2>1, LedgerAssumption DEF Record, SLTypeOK, Fresh, Used
  <2>3. /\ handle'[p] = file
        /\ \A q \in Processes \ {p} : pc'[q] = pc[q] /\ handle'[q] = handle[q]
    BY <2>1, <2>2, GoesFacts
  <2>4. /\ Len(day) + 1 \in DOMAIN day' /\ DOMAIN day \subseteq DOMAIN day'
        /\ Len(day) + 1 \notin DOMAIN day
    BY <1>2, DayFacts DEF Record
  <2>5. event'[p] = Len(day) + 1 /\ \A q \in Processes \ {p} : event'[q] = event[q]
    BY <1>2 DEF Record, SLTypeOK
  <2> QED  BY <2>2, <2>3, <2>4, <2>5 DEF Opened
<1>3. ASSUME NEW p \in Processes, OpenTemp(p)  PROVE Opened'
  <2>1. Quieter
    BY <1>3, Quiet
  <2>2. PICK file \in IF temp = NoFile THEN Fresh ELSE {temp} : temp' = file
    BY <1>3 DEF OpenTemp
  <2>3. \A q \in Processes : pc[q] = "append" => handle[q] # temp'
    BY <2>2 DEF Fresh, Used, Range, Opened, SLTypeOK
  <2> QED  BY <2>1, <2>3, QuieterFacts DEF Quieter
<1>4. ASSUME NEW p \in Processes,
             \/ Write(p) \/ WriteFails(p) \/ Check(p) \/ Read(p) \/ ReadFails(p)
             \/ WriteTemp(p) \/ Replace(p) \/ Crash(p)
      PROVE  Opened'
  <2>1. Quieter
    BY <1>4, Quiet
  <2>2. temp' \in {temp, NoFile}
    BY <1>4 DEF Write, WriteFails, Check, Read, ReadFails, WriteTemp, Replace, Crash
  <2>3. \A q \in Processes : pc[q] = "append" => handle[q] # temp'
    BY <2>2 DEF Opened, SLTypeOK
  <2> QED  BY <2>1, <2>3, QuieterFacts DEF Quieter
<1> QED  BY <1>1, <1>2, <1>3, <1>4 DEF SLNext

\* What is in the files a step leaves alone is still known.
LEMMA Rewritten ==
    ASSUME SLTypeOK, Written, \A seq : Known(seq) => StillKnown(seq),
           \A f \in Files : disk'[f] = disk[f] \/ StillKnown(disk'[f]),
           \A p \in Processes : kept'[p] = kept[p] \/ StillKnown(kept'[p])
    PROVE  Written'
<1>1. ASSUME NEW f \in Files  PROVE Known(disk[f])'
  <2>1. StillKnown(disk'[f])
    BY DEF Written
  <2> QED  BY <2>1 DEF StillKnown, Known
<1>2. ASSUME NEW p \in Processes  PROVE Known(kept[p])'
  <2>1. StillKnown(kept'[p])
    BY DEF Written
  <2> QED  BY <2>1 DEF StillKnown, Known
<1> QED  BY <1>1, <1>2 DEF Written

LEMMA WrittenStep == SLTypeOK /\ Opened /\ Written /\ [SLNext]_SLvars => Written'
<1> SUFFICES ASSUME SLTypeOK, Opened, Written, [SLNext]_SLvars  PROVE Written'
  OBVIOUS
<1>1. CASE UNCHANGED SLvars \/ Reset \/ Tick
  BY <1>1 DEF SLvars, Reset, Tick, Written, Known, Pending
<1>2. StillKnown(<<>>)
  BY NoEvents DEF StillKnown
<1>3. ASSUME NEW p \in Processes, Record(p)  PROVE Written'
  <2>1. PICK file \in IF ledger = NoFile THEN Fresh ELSE {ledger} :
            /\ disk' = IF ledger = NoFile THEN [disk EXCEPT ![file] = <<>>] ELSE disk
            /\ Goes(p, "append", file)
    BY <1>3 DEF Record
  <2>2. \A f \in Files : disk'[f] = disk[f] \/ StillKnown(disk'[f])
    BY <1>2, <2>1 DEF SLTypeOK
  <2>3. DOMAIN day \subseteq DOMAIN day' /\ Len(day) + 1 \notin DOMAIN day
    BY <1>3, DayFacts DEF Record
  <2>4. Pending' \subseteq Pending \cup {Len(day) + 1}
    <3>1. event'[p] = Len(day) + 1 /\ \A q \in Processes \ {p} : event'[q] = event[q] /\ pc'[q] = pc[q]
      BY <1>3, <2>1 DEF Record, Goes, SLTypeOK
    <3> QED  BY <3>1 DEF Pending
  <2>5. \A seq : Known(seq) => StillKnown(seq)
    BY <2>3, <2>4 DEF Known, StillKnown
  <2> QED  BY <1>3, <2>2, <2>5, Rewritten DEF Record
<1>4. ASSUME NEW p \in Processes,
             \/ Write(p) \/ WriteFails(p) \/ Check(p) \/ Read(p) \/ ReadFails(p)
             \/ OpenTemp(p) \/ WriteTemp(p) \/ Replace(p) \/ Crash(p)
      PROVE  Written'
  <2>1. Quieter
    BY <1>4, Quiet
  <2>2. \A seq : Known(seq) => StillKnown(seq)
    BY <2>1, QuieterFacts
  <2>3. \A q \in Processes : kept'[q] = kept[q] \/ StillKnown(kept'[q])
    <3>1. CASE Done(p)
      BY <1>2, <3>1 DEF Done, SLTypeOK
    <3>2. CASE Read(p)
      <4>1. StillKnown(Content(ledger)) /\ Content(ledger) \in Events
        BY <2>2, ContentFacts
      <4>2. StillKnown(Fitting(Content(ledger), Retention))
        BY <4>1, FittingFacts DEF StillKnown
      <4> QED  BY <3>2, <4>2 DEF Read, SLTypeOK
    <3>3. CASE ReadFails(p)
      BY <1>2, <3>3 DEF ReadFails, SLTypeOK
    <3> QED  BY <1>4, <3>1, <3>2, <3>3
                DEF Write, WriteFails, Check, OpenTemp, WriteTemp, Replace, Crash
  <2>4. \A f \in Files : disk'[f] = disk[f] \/ StillKnown(disk'[f])
    <3>1. CASE Write(p) \/ WriteFails(p)
      <4>1. /\ handle[p] \in Files /\ disk[handle[p]] \in Events
            /\ event[p] \in Event /\ event[p] \in DOMAIN day
        BY <3>1, DayFacts DEF Write, WriteFails, SLTypeOK, Opened, Events
      <4>2. event[p] \notin Pending'
        <5>1. pc'[p] # "append" /\ pc[p] = "append"
          BY <3>1, DoneFacts DEF Write, WriteFails, Goes, SLTypeOK
        <5> QED  BY <2>1, <5>1 DEF Quieter, Pending, Opened
      <4>3. StillKnown(disk[handle[p]])
        BY <2>2, <4>1 DEF Written
      <4>4. StillKnown(Append(disk[handle[p]], event[p]))
        BY <2>1, <4>1, <4>2, <4>3, AppendedEvents DEF StillKnown, Quieter
      <4>5. disk' = disk \/ disk' = [disk EXCEPT ![handle[p]] = Append(@, event[p])]
        BY <3>1, <4>1, AddsFacts DEF Write, WriteFails
      <4> QED  BY <4>4, <4>5 DEF SLTypeOK
    <3>2. CASE OpenTemp(p)
      BY <1>2, <3>2 DEF OpenTemp, SLTypeOK
    <3>3. ASSUME NEW new \in Events, StillKnown(new), pc[p] = "write",
                 disk' = [disk EXCEPT ![handle[p]] = Over(new, @)]
          PROVE  \A f \in Files : disk'[f] = disk[f] \/ StillKnown(disk'[f])
      <4>1. handle[p] \in Files /\ disk[handle[p]] \in Events
        BY <3>3 DEF SLTypeOK, Events
      <4>2. StillKnown(disk[handle[p]])
        BY <2>2, <4>1 DEF Written
      <4>3. StillKnown(Over(new, disk[handle[p]]))
        BY <3>3, <4>1, <4>2, OverFacts DEF StillKnown
      <4> QED  BY <3>3, <4>3 DEF SLTypeOK
    <3>4. kept[p] \in Events /\ StillKnown(kept[p])
      BY <2>2 DEF Written, SLTypeOK, Events
    <3>5. CASE WriteTemp(p)
      BY <3>3, <3>4, <3>5 DEF WriteTemp
    <3>6. CASE Crash(p)
      <4>1. CASE pc[p] = "write"
        <5>1. PICK t \in 0..Len(kept[p]) :
                  disk' = [disk EXCEPT ![handle[p]] = Over(SubSeq(kept[p], 1, t), @)]
          BY <3>6, <4>1 DEF Crash
        <5>2. SubSeq(kept[p], 1, t) \in Events /\ StillKnown(SubSeq(kept[p], 1, t))
          BY <3>4, PartFacts DEF StillKnown
        <5> QED  BY <3>3, <4>1, <5>1, <5>2
      <4> QED  BY <3>6, <4>1 DEF Crash
    <3> QED  BY <1>4, <3>1, <3>2, <3>5, <3>6 DEF Check, Read, ReadFails, Replace
  <2> QED  BY <2>2, <2>3, <2>4, Rewritten
<1> QED  BY <1>1, <1>3, <1>4 DEF SLNext

\* What reports owe: the events that count, for as long as they are retained.
Owed == {e \in recorded \ risk : Fits(e, Retention)}
Owes(seq) == \A e \in Owed : Once(e, seq)

\* The compactions that have opened ".tmp".
Copying == {p \in Processes : pc[p] \in {"write", "replace"}}

\* One has ".tmp" to itself: it is empty until it is written.
OnlyCopy(p) ==
    /\ Copying = {p} /\ temp # NoFile
    /\ pc[p] = "write" => handle[p] = temp /\ disk[temp] = <<>>
    /\ pc[p] = "replace" => Owes(disk[temp])

\* What is owed is in the ledger, in what any compaction keeps, and in the file that
\* is going to be the ledger; two compactions share ".tmp" only when nothing is owed.
OwedKept ==
    /\ Owes(Content(ledger))
    /\ \A p \in Processes : pc[p] \in {"open", "write"} => Owes(kept[p])
    /\ \A p \in Copying : Owed = {} \/ OnlyCopy(p)

\* Owed after the step.
StillOwes(seq) == \A e \in Owed' : Once(e, seq)

\* When nothing is owed there is nothing to keep.
LEMMA NothingOwed == Owed' = {} => OwedKept'
BY DEF OwedKept, Owes

\* Time, faults and races only take from what is owed.
LEMMA OwedShrinks ==
    ASSUME SLTypeOK, recorded' = recorded, risk \subseteq risk',
           now' \in Nat, now <= now',
           \A e \in DOMAIN day : day'[e] = day[e]
    PROVE  /\ Owed' \subseteq Owed
           /\ \A seq : Owes(seq) => StillOwes(seq)
<1>1. ASSUME NEW e \in Owed'  PROVE e \in Owed
  <2>1. e \in recorded \ risk /\ e \in DOMAIN day /\ now' <= day'[e] + Retention
    BY <1>1 DEF Owed, Fits, SLTypeOK
  <2>2. now <= day[e] + Retention
    <3>1. day[e] \in Nat /\ Retention \in Nat /\ now \in Nat
      BY <2>1, DayFacts, LedgerAssumption DEF SLTypeOK
    <3> QED  BY <2>1, <3>1
  <2> QED  BY <2>1, <2>2 DEF Owed, Fits
<1> QED  BY <1>1 DEF Owes, StillOwes

\* A step that leaves the ledger, ".tmp" and what compactions keep, or ends one.
LEMMA LeftAlone ==
    ASSUME SLTypeOK, OwedKept, Owed' \subseteq Owed,
           Owes(Content(ledger))',
           temp' = temp, temp # NoFile => disk'[temp] = disk[temp],
           \A q \in Processes : pc'[q] \in {"open", "write"} => StillOwes(kept'[q]),
           \A q \in Processes : pc'[q] \in {"write", "replace"} =>
                                    pc'[q] = pc[q] /\ handle'[q] = handle[q]
    PROVE  OwedKept'
<1>1. Copying' \subseteq Copying
  BY DEF Copying
<1>2. ASSUME NEW q \in Copying', Owed' # {}  PROVE OnlyCopy(q)'
  <2>1. OnlyCopy(q) /\ q \in Processes /\ q \in Copying /\ Copying = {q}
    BY <1>1, <1>2 DEF OwedKept, Copying, OnlyCopy
  <2>2. Copying' = {q} /\ pc'[q] = pc[q] /\ handle'[q] = handle[q]
    BY <1>1, <1>2, <2>1 DEF Copying
  <2> QED  BY <2>1, <2>2 DEF OnlyCopy, Owes
<1>3. \A q \in Processes : pc'[q] \in {"open", "write"} => Owes(kept[q])'
  BY DEF StillOwes, Owes
<1> QED  BY <1>2, <1>3 DEF OwedKept

\* What adding a line does to the ledger: the event was not in it, and what is owed
\* is still there.
LEMMA AddedLine ==
    ASSUME SLTypeOK, Opened, Written, OwedKept, NEW p \in Processes, pc[p] = "append",
           ledger' = ledger, Adds(handle[p], event[p])
    PROVE  /\ temp # NoFile => disk'[temp] = disk[temp]
           /\ \A e \in Owed : Once(e, Content(ledger)')
           /\ handle[p] = ledger /\ handle[p] \notin torn => Once(event[p], Content(ledger)')
<1> DEFINE x == event[p]
           old == Content(ledger)
<1>1. /\ handle[p] \in Files /\ handle[p] # NoFile /\ handle[p] # temp
      /\ x \in DOMAIN day /\ x \in Event /\ x \in Pending
  BY DayFacts, LedgerAssumption DEF SLTypeOK, Opened, Pending
<1>2. old \in Events /\ Known(old) /\ Owes(old)
  BY ContentFacts DEF OwedKept
<1>3. \A i \in DOMAIN old : old[i] # x
  BY <1>1, <1>2 DEF Known
<1>4. Content(ledger)' = IF handle[p] = ledger /\ handle[p] \notin torn
                         THEN Append(old, x) ELSE old
  BY <1>1, LedgerAssumption DEF Adds, Content, SLTypeOK
<1>5. temp # NoFile => disk'[temp] = disk[temp]
  BY <1>1 DEF Adds, SLTypeOK
<1> HIDE DEF old, x
<1>6. /\ Once(x, Append(old, x))
      /\ \A e \in Owed : Once(e, Append(old, x))
  <2>1. \A e \in Owed : e # x
    BY <1>2, <1>3 DEF Owes, Once
  <2> QED  BY <1>1, <1>2, <1>3, <2>1, AppendedEvents DEF Owes
<1> QED  BY <1>2, <1>4, <1>5, <1>6 DEF Owes, x

\* The write of an event: the ledger owes it, or it is at risk.
LEMMA WriteKeeps ==
    ASSUME SLTypeOK, Opened, Written, OwedKept, NEW p \in Processes, Write(p)
    PROVE  OwedKept'
<1> DEFINE x == event[p]
<1>1. /\ temp # NoFile => disk'[temp] = disk[temp]
      /\ \A e \in Owed : Once(e, Content(ledger)')
      /\ handle[p] = ledger /\ handle[p] \notin torn => Once(x, Content(ledger)')
  BY AddedLine DEF Write
<1>2. /\ pc'[p] = "check" /\ handle'[p] = NoFile
      /\ \A q \in Processes \ {p} : pc'[q] = pc[q] /\ handle'[q] = handle[q]
  BY GoesFacts DEF Write
<1> HIDE DEF x
<1>7. CASE Compacting # {} \/ handle[p] # ledger \/ handle[p] \in torn
  <2>1. Owed' \subseteq Owed
    BY <1>7 DEF Owed, Fits, Write, x
  <2>2. Owes(Content(ledger))'
    BY <1>1, <2>1 DEF Owes
  <2>3. \A q \in Processes : pc'[q] \in {"open", "write"} => StillOwes(kept'[q])
    BY <1>2, <2>1 DEF OwedKept, Owes, StillOwes, Write
  <2>4. temp' = temp
    BY DEF Write
  <2> QED  BY <1>1, <1>2, <2>1, <2>2, <2>3, <2>4, LeftAlone
<1>8. CASE Compacting = {} /\ handle[p] = ledger /\ handle[p] \notin torn
  <2>1. Owed' \subseteq Owed \cup {x}
    BY DEF Owed, Fits, Write, x
  <2>2. Owes(Content(ledger))'
    BY <1>1, <1>8, <2>1 DEF Owes
  <2>3. \A q \in Processes : pc'[q] \notin {"open", "write", "replace"}
    BY <1>2, <1>8 DEF Compacting
  <2>4. Copying' = {}
    BY <2>3 DEF Copying
  <2> QED  BY <2>2, <2>3, <2>4 DEF OwedKept
<1> QED  BY <1>7, <1>8

LEMMA OwedKeptStep ==
    SLTypeOK /\ Opened /\ Written /\ OwedKept /\ [SLNext]_SLvars => OwedKept'
<1> SUFFICES ASSUME SLTypeOK, Opened, Written, OwedKept, [SLNext]_SLvars, Owed' # {}
             PROVE  OwedKept'
  BY NothingOwed
<1>1. /\ now \in Nat /\ recorded \subseteq DOMAIN day
      /\ \A f \in Files : disk[f] \in Events /\ \A p \in Processes : kept[p] \in Events
  BY LedgerAssumption DEF SLTypeOK, Events
<1>2. CASE UNCHANGED SLvars
  BY <1>2 DEF SLvars, OwedKept, Owes, Owed, Fits, Copying, OnlyCopy, Content
<1>3. CASE Tick
  <2>1. \A seq : Owes(seq) => StillOwes(seq)
    BY <1>1, <1>3, OwedShrinks DEF Tick
  <2>2. Owed' \subseteq Owed
    BY <1>1, <1>3, OwedShrinks DEF Tick
  <2>3. Content(ledger)' = Content(ledger)
    BY <1>3 DEF Tick, Content
  <2>4. Owes(Content(ledger))'
    BY <2>1, <2>3 DEF OwedKept, Owes, StillOwes
  <2> QED  BY <1>3, <2>1, <2>2, <2>4, LeftAlone DEF Tick, OwedKept
<1>4. CASE Reset
  BY <1>1, <1>4 DEF Reset, Owed
<1>5. ASSUME NEW p \in Processes, Record(p)  PROVE OwedKept'
  <2>1. Owed' \subseteq Owed /\ \A seq : Owes(seq) => StillOwes(seq)
    BY <1>1, <1>5, DayFacts, OwedShrinks DEF Record
  <2>2. ledger # NoFile
    BY <2>1, NoEvents DEF OwedKept, Owes, Once, Content
  <2>3. /\ ledger' = ledger /\ disk' = disk /\ temp' = temp /\ kept' = kept
        /\ pc'[p] = "append"
        /\ \A q \in Processes \ {p} : pc'[q] = pc[q] /\ handle'[q] = handle[q]
    BY <1>5, <2>2 DEF Record, Goes, SLTypeOK
  <2>4. Content(ledger)' = Content(ledger)
    BY <2>3 DEF Content
  <2>5. Owes(Content(ledger))'
    BY <2>1, <2>4 DEF OwedKept, Owes, StillOwes
  <2> QED  BY <2>1, <2>3, <2>5, LeftAlone DEF OwedKept
<1>6. ASSUME NEW p \in Processes,
             \/ WriteFails(p) \/ Check(p) \/ Read(p) \/ ReadFails(p)
             \/ OpenTemp(p) \/ WriteTemp(p) \/ Replace(p) \/ Crash(p)
      PROVE  OwedKept'
  <2>1. Owed' \subseteq Owed /\ \A seq : Owes(seq) => StillOwes(seq)
    <3>1. recorded' = recorded /\ day' = day /\ now' = now
      BY <1>6 DEF WriteFails, Check, Read, ReadFails, OpenTemp, WriteTemp, Replace, Crash
    <3>2. risk \subseteq risk'
      BY <1>6 DEF WriteFails, Check, Read, ReadFails, OpenTemp, WriteTemp, Replace, Crash, SLTypeOK
    <3> QED  BY <1>1, <3>1, <3>2, OwedShrinks
  <2>2. \A q \in Copying : OnlyCopy(q)
    BY <2>1 DEF OwedKept
  <2>3. StillOwes(Content(ledger)) /\ \A q \in Processes : pc[q] \in {"open", "write"} => StillOwes(kept[q])
    BY <2>1 DEF OwedKept
  <2>s. Content(ledger)' = Content(ledger) => Owes(Content(ledger))'
    BY <2>3 DEF Owes, StillOwes
  <2>4. Done(p) => /\ pc'[p] = "idle"
                   /\ \A q \in Processes \ {p} : /\ pc'[q] = pc[q] /\ handle'[q] = handle[q]
                                                 /\ kept'[q] = kept[q]
    BY DoneFacts
  <2>12. CASE WriteFails(p)
    <3>1. /\ pc'[p] = "idle" /\ ledger' = ledger /\ temp' = temp /\ pc[p] = "append"
          /\ \A q \in Processes \ {p} : /\ pc'[q] = pc[q] /\ handle'[q] = handle[q]
                                        /\ kept'[q] = kept[q]
      BY <2>4, <2>12 DEF WriteFails
    <3>2. CASE disk' = disk
      <4>1. Content(ledger)' = Content(ledger)
        BY <3>1, <3>2 DEF Content
      <4> QED  BY <2>1, <2>3, <2>s, <3>1, <3>2, <4>1, LeftAlone
    <3>3. CASE Adds(handle[p], event[p])
      <4>1. /\ temp # NoFile => disk'[temp] = disk[temp]
            /\ \A e \in Owed : Once(e, Content(ledger)')
        BY <3>1, <3>3, AddedLine
      <4>2. Owes(Content(ledger))'
        BY <2>1, <4>1 DEF Owes
      <4> QED  BY <2>1, <2>3, <3>1, <4>1, <4>2, LeftAlone
    <3> QED  BY <2>12, <3>2, <3>3 DEF WriteFails
  <2>5. CASE Check(p)
    <3>1. /\ disk' = disk /\ ledger' = ledger /\ temp' = temp
          /\ pc'[p] \in {"idle", "read"}
          /\ \A q \in Processes \ {p} : /\ pc'[q] = pc[q] /\ handle'[q] = handle[q]
                                        /\ kept'[q] = kept[q]
      <4>1. CASE Done(p)
        BY <2>4, <2>5, <4>1 DEF Check
      <4>2. CASE Goes(p, "read", NoFile) /\ UNCHANGED <<event, kept>>
        BY <2>5, <4>2, GoesFacts DEF Check
      <4> QED  BY <2>5, <4>1, <4>2 DEF Check
    <3>2. Content(ledger)' = Content(ledger)
      BY <3>1 DEF Content
    <3> QED  BY <2>1, <2>3, <2>s, <3>1, <3>2, LeftAlone
  <2>6. CASE Read(p)
    <3>1. /\ pc'[p] = "open"
          /\ \A q \in Processes \ {p} : pc'[q] = pc[q] /\ handle'[q] = handle[q]
      BY <2>6, GoesFacts DEF Read
    <3>2. /\ disk' = disk /\ ledger' = ledger /\ temp' = temp
          /\ kept'[p] = Fitting(Content(ledger), Retention)
          /\ \A q \in Processes \ {p} : kept'[q] = kept[q]
      BY <2>6 DEF Read, SLTypeOK
    <3>3. Content(ledger)' = Content(ledger)
      BY <3>2 DEF Content
    <3>4. StillOwes(Fitting(Content(ledger), Retention))
      BY <2>1, <2>3, ContentFacts, FittingFacts DEF StillOwes, Owed
    <3>5. \A q \in Processes : pc'[q] \in {"open", "write"} => StillOwes(kept'[q])
      BY <2>3, <3>1, <3>2, <3>4
    <3>6. \A q \in Processes : pc'[q] \in {"write", "replace"} => pc'[q] = pc[q] /\ handle'[q] = handle[q]
      BY <3>1
    <3> QED  BY <2>1, <2>s, <3>2, <3>3, <3>5, <3>6, LeftAlone
  <2>7. CASE ReadFails(p)
    BY <1>1, <2>7 DEF ReadFails, Owed
  <2>8. CASE OpenTemp(p)
    <3>1. Copying = {}
      <4>1. risk' # DOMAIN day
        BY <1>1, <2>8 DEF OpenTemp, Owed
      <4> QED  BY <2>8, <4>1 DEF OpenTemp, Copying
    <3>2. PICK file \in IF temp = NoFile THEN Fresh ELSE {temp} :
              temp' = file /\ disk' = [disk EXCEPT ![file] = <<>>] /\ Goes(p, "write", file)
      BY <2>8 DEF OpenTemp
    <3>3. file \in Files /\ file # NoFile /\ file # ledger
      BY <3>2, LedgerAssumption DEF SLTypeOK, Fresh, Used
    <3>4. /\ pc'[p] = "write" /\ handle'[p] = file
          /\ \A q \in Processes \ {p} : pc'[q] = pc[q] /\ handle'[q] = handle[q]
      BY <3>2, <3>3, GoesFacts
    <3>5. Content(ledger)' = Content(ledger)
      BY <2>8, <3>2, <3>3 DEF OpenTemp, Content, SLTypeOK
    <3>6. \A q \in Processes : pc'[q] \in {"open", "write"} => pc[q] \in {"open", "write"}
      BY <2>8, <3>4 DEF OpenTemp
    <3>7. Copying' = {p}
      BY <3>1, <3>4 DEF Copying
    <3>8. OnlyCopy(p)'
      BY <3>2, <3>3, <3>4, <3>7 DEF OnlyCopy, SLTypeOK
    <3>9. kept' = kept
      BY <2>8 DEF OpenTemp
    <3> QED  BY <2>3, <3>5, <3>6, <3>7, <3>8, <3>9 DEF OwedKept, Owes, StillOwes
  <2>9. CASE WriteTemp(p)
    <3>1. OnlyCopy(p) /\ Copying = {p}
      BY <2>2, <2>9 DEF WriteTemp, Copying, OnlyCopy
    <3>2. /\ handle[p] = temp /\ disk[temp] = <<>> /\ temp # NoFile /\ temp # ledger /\ temp \in Files
      BY <2>9, <3>1 DEF WriteTemp, OnlyCopy, SLTypeOK
    <3>3. disk'[temp] = kept[p]
      <4>1. Over(kept[p], disk[temp]) = kept[p]
        BY <3>2, OverFacts, NoEvents DEF SLTypeOK, Events
      <4> QED  BY <2>9, <3>2, <4>1 DEF WriteTemp, SLTypeOK
    <3>4. Content(ledger)' = Content(ledger)
      BY <2>9, <3>2 DEF WriteTemp, Content, SLTypeOK
    <3>5. /\ pc'[p] = "replace"
          /\ \A q \in Processes \ {p} : pc'[q] = pc[q] /\ handle'[q] = handle[q]
      BY <2>9, GoesFacts DEF WriteTemp
    <3>6. Copying' = {p}
      BY <3>1, <3>5 DEF Copying
    <3>7. kept' = kept /\ temp' = temp
      BY <2>9 DEF WriteTemp
    <3>8. StillOwes(kept[p])
      BY <2>3, <2>9 DEF WriteTemp
    <3>9. OnlyCopy(p)'
      BY <3>2, <3>3, <3>5, <3>6, <3>7, <3>8 DEF OnlyCopy, Owes, StillOwes
    <3>10. \A q \in Processes : pc'[q] \in {"open", "write"} => pc[q] \in {"open", "write"}
      BY <3>5
    <3> QED  BY <2>3, <3>4, <3>6, <3>7, <3>9, <3>10 DEF OwedKept, Owes, StillOwes
  <2>10. CASE Replace(p)
    <3>1. OnlyCopy(p) /\ Copying = {p} /\ Owes(disk[temp]) /\ temp # NoFile
      BY <2>2, <2>10 DEF Replace, Copying, OnlyCopy
    <3>2. Content(ledger)' = disk[temp]
      BY <2>10, <3>1 DEF Replace, Content
    <3>3. Copying' = {}
      BY <2>4, <2>10, <3>1 DEF Replace, Copying
    <3>4. \A q \in Processes : pc'[q] \in {"open", "write"} =>
                                   pc[q] \in {"open", "write"} /\ kept'[q] = kept[q]
      BY <2>4, <2>10 DEF Replace
    <3> QED  BY <2>1, <2>3, <3>1, <3>2, <3>3, <3>4 DEF OwedKept, Owes, StillOwes
  <2>11. CASE Crash(p)
    <3>1. /\ Done(p) /\ ledger' = ledger /\ temp' = temp
      BY <2>11 DEF Crash
    <3>2. \A q \in Processes : pc'[q] \in {"open", "write"} =>
                                   pc[q] \in {"open", "write"} /\ kept'[q] = kept[q]
      BY <2>4, <3>1
    <3>3. CASE pc[p] = "write"
      <4>1. Copying = {p} /\ handle[p] = temp /\ temp # NoFile /\ temp # ledger
        BY <2>2, <3>3 DEF Copying, OnlyCopy, SLTypeOK
      <4>2. Content(ledger)' = Content(ledger)
        BY <2>11, <3>1, <3>3, <4>1 DEF Crash, Content, SLTypeOK
      <4>3. Copying' = {}
        BY <2>4, <3>1, <4>1 DEF Copying
      <4> QED  BY <2>3, <3>2, <4>2, <4>3 DEF OwedKept, Owes, StillOwes
    <3>4. CASE pc[p] # "write"
      <4>1. disk' = disk
        BY <2>11, <3>4 DEF Crash
      <4>2. Content(ledger)' = Content(ledger)
        BY <3>1, <4>1 DEF Content
      <4>3. \A q \in Processes : pc'[q] \in {"write", "replace"} =>
                                     pc'[q] = pc[q] /\ handle'[q] = handle[q]
        BY <2>4, <3>1
      <4> QED  BY <2>1, <2>3, <2>s, <3>1, <3>2, <4>1, <4>2, <4>3, LeftAlone
    <3> QED  BY <3>3, <3>4
  <2> QED  BY <1>6, <2>5, <2>6, <2>7, <2>8, <2>9, <2>10, <2>11, <2>12
<1>7. ASSUME NEW p \in Processes, Write(p)  PROVE OwedKept'
  BY <1>7, WriteKeeps
<1> QED  BY <1>2, <1>3, <1>4, <1>5, <1>6, <1>7 DEF SLNext

LIInv == SLTypeOK /\ Opened /\ Written /\ OwedKept

\* What SLSpec reaches.
LEMMA LedgerInvariant == SLSpec => []LIInv
<1>1. SLInit => LIInv
  <2> SUFFICES ASSUME SLInit  PROVE LIInv
    OBVIOUS
  <2>1. Owed = {} /\ Copying = {} /\ Content(ledger) = <<>>
    BY DEF SLInit, Owed, Copying, Content
  <2>2. Opened /\ Written
    BY NoEvents DEF SLInit, Opened, Written, Known
  <2>3. OwedKept
    BY <2>1 DEF OwedKept, Owes
  <2> QED  BY <2>2, <2>3, SLInitType DEF LIInv
<1>2. LIInv /\ [SLNext]_SLvars => LIInv'
  BY SLStepType, OpenedStep, WrittenStep, OwedKeptStep DEF LIInv
<1> QED  BY <1>1, <1>2, PTL DEF SLSpec

\* A report counts an event once when it is in its file once and fits, and not at
\* all when it does not fit.
LEMMA CountFacts ==
    ASSUME NEW seq \in Events, NEW days, NEW e, Fits(e, days) => Once(e, seq)
    PROVE  Times(e, Fitting(seq, days)) = IF Fits(e, days) THEN 1 ELSE 0
<1> DEFINE new == Fitting(seq, days)
           places == {i \in DOMAIN new : new[i] = e}
<1>1. CASE Fits(e, days)
  <2>1. Once(e, new)
    BY <1>1, FittingFacts
  <2>2. PICK i \in DOMAIN new : \A j \in DOMAIN new : new[j] = e <=> j = i
    BY <2>1 DEF Once
  <2>3. places = {i}
    BY <2>2
  <2> QED  BY <1>1, <2>3, FS_Singleton DEF Times
<1>2. CASE ~Fits(e, days)
  <2>1. \A i \in DOMAIN new : Fits(new[i], days)
    BY FittingFacts
  <2>2. places = {}
    BY <1>2, <2>1
  <2> QED  BY <1>2, <2>2, FS_EmptySet DEF Times
<1> QED  BY <1>1, <1>2

-----------------------------------------------------------------------------
(* The ledger: the theorems                                                  *)

\* The ledger's files hold events, a process has one open just when it is going to
\* write, and the paths of the ledger and of ".tmp" never name one file
\* (_locked_file, _compact_unlocked of storage/savings_ledger.py).
THEOREM LedgerTypes == SLSpec => []SLTypeOK
<1>1. LIInv => SLTypeOK
  BY DEF LIInv
<1> QED  BY <1>1, LedgerInvariant, PTL

\* Whatever number of processes record and compact, wherever they are killed: an
\* event that was recorded while no compaction was under way, in a file that did not
\* end in a part of a line, is counted once by every report that asks for its day,
\* and by no other (record_savings_event, _maybe_compact and aggregate_savings of
\* storage/savings_ledger.py).
THEOREM ReportsCorrect == SLSpec => []ReportsTrue
<1>1. ASSUME LIInv  PROVE ReportsTrue
  <2>1. Content(ledger) \in Events /\ Owes(Content(ledger)) /\ SLTypeOK
    BY <1>1, ContentFacts DEF LIInv, OwedKept
  <2> SUFFICES ASSUME NEW e \in recorded \ risk, NEW asked \in 1..Retention
               PROVE  CountedOnce(e, asked)
    BY DEF ReportsTrue
  <2>2. Retention \in Nat /\ asked \in Nat /\ Days(asked) = asked /\ asked <= Retention
    BY LedgerAssumption DEF Days
  <2>3. now \in Nat /\ e \in DOMAIN day /\ day[e] \in Nat
    BY <2>1, DayFacts, LedgerAssumption DEF SLTypeOK
  <2>4. ASSUME Fits(e, asked)  PROVE Once(e, Content(ledger))
    <3>1. now <= day[e] + Retention
      BY <2>2, <2>3, <2>4 DEF Fits
    <3> QED  BY <2>1, <3>1 DEF Owes, Owed, Fits
  <2>5. Times(e, Fitting(Content(ledger), asked)) = IF Fits(e, asked) THEN 1 ELSE 0
    BY <2>1, <2>4, CountFacts
  <2> QED  BY <2>2, <2>5 DEF CountedOnce, Reported, Fits
<1> QED  BY <1>1, LedgerInvariant, PTL
=============================================================================
