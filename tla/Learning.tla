------------------------------- MODULE Learning -------------------------------
(***************************************************************************)
(* How rules are learned from the transcripts of agents, and written into  *)
(* the file the agents read (ctxguard/learn).                              *)
(*                                                                         *)
(* A call that fails again and again, and a query that is repeated with    *)
(* other limits, is a loop.  Loops, or a model that is shown them, yield   *)
(* rules.  "ctxguard learn" merges them with those in the marked block of  *)
(* the file, and the dashboard's button puts its own in their place.  Both *)
(* read the file and replace it later: the user, and other learners, may   *)
(* have changed it in between.                                             *)
(***************************************************************************)
EXTENDS Naturals, Sequences, FiniteSets, SequencesExt

CONSTANTS
    Commands,   \* what rules are about
    Kinds,      \* bound: the calls they hold, <<failed, another form of the query>>
    Tried,      \* bound: those that agents try, and models name
    Slashed,    \* rules with a backslash sequence that re.sub does not know
    Respelled,  \* what it makes of the rules that have one that it knows
    Order,      \* the transcripts, in the order they are discovered
    Learners,   \* runs of "ctxguard learn"
    Dashboards, \* requests of the dashboard
    Threshold,  \* configured number of calls that make a loop
    Default,    \* LoopDetector's own
    MaxRules,   \* learn.max_rules
    Paragraphs, \* what the user writes into the file
    MaxCalls,   \* bound: calls made while transcripts hold less
    MaxRuns     \* bound: runs of learners and dashboards

Sessions == Range(Order)

\* A rule's section and trigger, which tell rules apart.
Key == [family : {"failure", "refetch"}, cmd : Commands]

ASSUME LearningAssumption ==
    /\ Order \in Seq(Sessions)
    /\ \A i, j \in DOMAIN Order : Order[i] = Order[j] => i = j
    /\ IsFiniteSet(Commands) /\ Tried \subseteq Commands
    /\ \A k \in Key : k \in DOMAIN Respelled => Respelled[k] \in Key
    /\ Kinds \subseteq BOOLEAN \X BOOLEAN
    /\ Threshold \in Nat \ {0} /\ Default \in Nat \ {0}
    /\ MaxRules \in Nat \ {0}
    /\ MaxCalls \in Nat /\ MaxRuns \in Nat
    /\ Learners \cap Dashboards = {}

VARIABLES
    log,     \* the transcripts
    file,    \* the rules file
    phase,   \* what a learner or dashboard is doing
    loops,   \* the loops it has found: the waste of each
    plain,   \* the loops its heuristics have found
    rules,   \* the rules it is going to write
    seen,    \* the file as it has read it
    runs

Lvars == <<log, file, phase, loops, plain, rules, seen, runs>>
agents == Learners \cup Dashboards

Anonymous == 0

Call == [id : 0..MaxCalls, cmd : Commands, failed : BOOLEAN, varied : BOOLEAN]

Waste == 0..(Len(Order) * MaxCalls)
Rule == [key : Key, waste : Waste]
Keys(R) == {r.key : r \in R}

\* The rules file: what the user wrote, some of it in another encoding, and the
\* marked block with the rules.
File == [text : SUBSET Paragraphs, foreign : SUBSET Paragraphs,
         marked : BOOLEAN, block : SUBSET Rule]
Empty == [text |-> {}, foreign |-> {}, marked |-> FALSE, block |-> {}]

Loops == UNION {[K -> Waste] : K \in SUBSET Key}
NoLoops == [k \in {} |-> 0]

\* The variables have their types: no rule claims more waste than transcripts hold calls.
LTypeOK ==
    /\ log \in [Sessions -> Seq(Call)]
    /\ \A s \in Sessions : Len(log[s]) <= MaxCalls
    /\ file \in File
    /\ phase \in [agents -> {"idle", "asking", "reading", "replacing"}]
    /\ loops \in [agents -> Loops] /\ plain \in [agents -> SUBSET Key]
    /\ rules \in [agents -> SUBSET Rule]
    /\ seen \in [agents -> File]
    /\ runs \in 0..MaxRuns

-----------------------------------------------------------------------------
(* Loop detection                                                            *)

\* A call is evidence for a family of loops.
Belongs(c, k) == c.cmd = k.cmd /\ (k.family = "failure" => c.failed)

\* The calls of a session that are.
Evidence(calls, k) ==
    LET upTo[i \in 0..Len(calls)] ==
            IF i = 0 THEN <<>>
            ELSE IF Belongs(calls[i], k) THEN Append(upTo[i - 1], calls[i]) ELSE upTo[i - 1]
    IN upTo[Len(calls)]

Ids(calls) == {calls[i].id : i \in DOMAIN calls} \ {Anonymous}

\* A mutation of WithoutReplays: a call is only compared with those of its session.
WithReplays(calls, before) ==
    LET kept[i \in 0..Len(calls)] ==
            IF i = 0 THEN <<>>
            ELSE IF calls[i].id \in Ids(kept[i - 1]) THEN kept[i - 1]
                 ELSE Append(kept[i - 1], calls[i])
    IN kept[Len(calls)]

\* _without_replays: a call that was seen before is left out; one without an
\* identity never is.
WithoutReplays(calls, before) ==
    LET kept[i \in 0..Len(calls)] ==
            IF i = 0 THEN <<>>
            ELSE IF calls[i].id \in before \cup Ids(kept[i - 1]) THEN kept[i - 1]
                 ELSE Append(kept[i - 1], calls[i])
    IN kept[Len(calls)]

\* What a session contributes that repeats itself: what no earlier one has.
Contribution(s, k, threshold, merged) ==
    LET distinct == WithoutReplays(Evidence(log[s], k), {})
    IN IF Len(distinct) < threshold THEN <<>> ELSE WithoutReplays(distinct, Ids(merged))

Merged(k, threshold) ==
    LET merged[i \in 0..Len(Order)] ==
            IF i = 0 THEN <<>>
            ELSE merged[i - 1] \o Contribution(Order[i], k, threshold, merged[i - 1])
    IN merged[Len(Order)]

\* A query is only a loop if it was repeated in another form.
IsLoop(k, records) ==
    /\ records # <<>>
    /\ k.family = "refetch" => \E i \in DOMAIN records : records[i].varied

\* The first query was legitimate, a failure never is.
Wasted(k, records) == IF k.family = "refetch" THEN Len(records) - 1 ELSE Len(records)

DetectLoops(threshold) ==
    LET found == {k \in Key : IsLoop(k, Merged(k, threshold))}
    IN [k \in found |-> Wasted(k, Merged(k, threshold))]

\* The dashboard's scanner reads no identities: a resumed transcript counts again.
RawLoops(threshold) ==
    {k \in Key : LET records(s) == Evidence(log[s], k)
                     loopers == {s \in Sessions : Len(records(s)) >= threshold}
                 IN /\ loopers # {}
                    /\ k.family = "refetch" =>
                           \E s \in loopers : \E i \in DOMAIN records(s) : records(s)[i].varied}

-----------------------------------------------------------------------------
(* Transcripts                                                               *)

Total == Cardinality(UNION {{s} \X DOMAIN log[s] : s \in Sessions})

Highest(numbers) == CHOOSE n \in numbers : \A m \in numbers : m <= n
LastId == Highest({Anonymous} \cup UNION {Ids(log[s]) : s \in Sessions})

\* Bound: transcripts change between runs; a run reads them in its first step only.
Quiet == \A a \in agents : phase[a] = "idle"

\* An agent makes a call; the gateway's own log gives it no identity.
Act(s, id, c, failed, varied) ==
    /\ Quiet /\ Total < MaxCalls /\ id <= MaxCalls
    /\ log' = [log EXCEPT ![s] = Append(@, [id |-> id, cmd |-> c, failed |-> failed,
                                            varied |-> varied])]
    /\ UNCHANGED <<file, phase, loops, plain, rules, seen, runs>>

\* A session is resumed: the new transcript starts with the turns of the old one.
Resume(s, old) ==
    /\ Quiet /\ log[s] = <<>> /\ log[old] # <<>>
    /\ log' = [log EXCEPT ![s] = log[old]]
    /\ UNCHANGED <<file, phase, loops, plain, rules, seen, runs>>

\* A transcript is older than the hours that are looked back.
Age(s) ==
    /\ Quiet /\ log[s] # <<>>
    /\ log' = [log EXCEPT ![s] = <<>>]
    /\ UNCHANGED <<file, phase, loops, plain, rules, seen, runs>>

\* The user writes into the file, and may save it in another encoding.
Edit(x, foreign) ==
    /\ x \notin file.text
    /\ file' = [file EXCEPT !.text = @ \cup {x},
                            !.foreign = IF foreign THEN @ \cup {x} ELSE @]
    /\ UNCHANGED <<log, phase, loops, plain, rules, seen, runs>>

-----------------------------------------------------------------------------
(* Analysis                                                                  *)

\* ctxguard learn: sessions are discovered, loops detected, a digest is built.
Discover(p) ==
    /\ phase[p] = "idle" /\ runs < MaxRuns
    /\ runs' = runs + 1
    /\ loops' = [loops EXCEPT ![p] = DetectLoops(Threshold)]
    /\ plain' = [plain EXCEPT ![p] = DOMAIN DetectLoops(Default)]
    /\ phase' = [phase EXCEPT ![p] = IF Total = 0 THEN "reading" ELSE "asking"]
    /\ UNCHANGED <<log, file, rules, seen>>

\* _enrich_rules_with_loops: the measured waste goes to the rules about the loop.
Enriched(p, K) ==
    {[key |-> k, waste |-> IF k \in DOMAIN loops[p] THEN loops[p][k] ELSE 0] : k \in K}

Concludes(p, K) ==
    /\ phase[p] = "asking"
    /\ phase' = [phase EXCEPT ![p] = "reading"]
    /\ rules' = [rules EXCEPT ![p] = Enriched(p, K)]
    /\ UNCHANGED <<log, file, loops, plain, seen, runs>>

\* The model, or an agent's command line, returns rules.
ModelAnswers(p, K) == K # {} /\ Concludes(p, K)

\* None of them does, though the digest was halved as long as it was too long:
\* _heuristic_fallback, with a detector that has its own threshold.
FallBack(p) == Concludes(p, plain[p])

-----------------------------------------------------------------------------
(* Writing                                                                   *)

ReadFile(a) ==
    /\ phase[a] = "reading"
    /\ phase' = [phase EXCEPT ![a] = "replacing"]
    /\ seen' = [seen EXCEPT ![a] = file]
    /\ UNCHANGED <<log, file, loops, plain, rules, runs>>

\* A mutation of Merge: the measure of an earlier run is forgotten.
MergeFresh(new, prior) == new \cup {r \in prior : r.key \notin Keys(new)}

\* A mutation of Merge: the measures of both runs are added.
MergeAdded(new, prior) ==
    {[r EXCEPT !.waste = FoldSet(LAMBDA q, n : n + q.waste, @,
                                 {q \in prior : q.key = r.key})] : r \in new}
    \cup {r \in prior : r.key \notin Keys(new)}

\* merge_rules: a rule that was found again is replaced, and keeps the higher
\* measure; one that was not is carried forward.
Merge(new, prior) ==
    {[key |-> r.key,
      waste |-> Highest({r.waste} \cup {q.waste : q \in {p \in prior : p.key = r.key}})] :
         r \in new}
    \cup {r \in prior : r.key \notin Keys(new)}

\* prune's order: fresh rules first, then those with the higher waste.
Before(q, r, new) ==
    \/ q.key \in Keys(new) /\ r.key \notin Keys(new)
    \/ (q.key \in Keys(new) <=> r.key \in Keys(new)) /\ q.waste > r.waste

\* The first MaxRules in that order; rules that are alike are in either.
Pruned(all, new) ==
    {R \in SUBSET all :
        /\ Cardinality(R) = IF Cardinality(all) <= MaxRules THEN Cardinality(all) ELSE MaxRules
        /\ \A q \in all \ R : \A r \in R : ~Before(q, r, new)}

Replaces(a, content) ==
    /\ phase[a] = "replacing"
    /\ phase' = [phase EXCEPT ![a] = "idle"]
    /\ file' = content
    /\ rules' = [rules EXCEPT ![a] = {}]
    /\ loops' = [loops EXCEPT ![a] = NoLoops] /\ plain' = [plain EXCEPT ![a] = {}]
    /\ seen' = [seen EXCEPT ![a] = Empty]
    /\ UNCHANGED <<log, runs>>

\* A first block is appended.  In the place of an earlier one the new block is put
\* by re.sub, which takes it for a template: it raises an exception for a backslash
\* sequence that it does not know, and replaces those that it knows.
CanPlace(old, R) == old.marked => \A r \in R : r.key \notin Slashed

Spelled(k) == IF k \in DOMAIN Respelled THEN Respelled[k] ELSE k

Placed(old, R) ==
    [old EXCEPT !.marked = TRUE,
                !.block = IF old.marked THEN {[r EXCEPT !.key = Spelled(@)] : r \in R} ELSE R]

\* parse_prior_rules, as merge_rules takes them: of those that are alike, the last
\* in the file counts.
Prior(block) ==
    {R \in SUBSET block :
        /\ Keys(R) = Keys(block)
        /\ \A q, r \in R : q.key = r.key => q = r}

\* RoundTripContextWriter.write_rules: a file that cannot be decoded counts as
\* empty.
WriteRules(p) ==
    LET old == IF seen[p].foreign = {} THEN seen[p] ELSE Empty
    IN \E prior \in Prior(old.block) :
           \E R \in Pruned(Merge(rules[p], prior), rules[p]) :
               Replaces(p, IF CanPlace(old, R) THEN Placed(old, R) ELSE file)

\* The dashboard mines the same transcripts, its rules take the place of all in
\* the block.
Mine(d) ==
    /\ phase[d] = "idle" /\ runs < MaxRuns
    /\ runs' = runs + 1
    /\ rules' = [rules EXCEPT ![d] = {[key |-> k, waste |-> 0] : k \in RawLoops(Threshold)}]
    /\ phase' = [phase EXCEPT ![d] = "reading"]
    /\ UNCHANGED <<log, file, loops, plain, seen>>

\* AtomicRuleWriter.write_rules_to_file: what cannot be decoded is replaced.
WriteBlock(d) ==
    LET old == [seen[d] EXCEPT !.text = @ \ seen[d].foreign, !.foreign = {}]
    IN Replaces(d, IF CanPlace(old, rules[d]) THEN Placed(old, rules[d]) ELSE file)

LInit ==
    /\ log = [s \in Sessions |-> <<>>]
    /\ file = Empty
    /\ phase = [a \in agents |-> "idle"]
    /\ loops = [a \in agents |-> NoLoops]
    /\ plain = [a \in agents |-> {}]
    /\ rules = [a \in agents |-> {}]
    /\ seen = [a \in agents |-> Empty]
    /\ runs = 0

Learn(p) ==
    \/ \E K \in SUBSET {k \in Key : k.cmd \in Tried} : ModelAnswers(p, K)
    \/ FallBack(p) \/ ReadFile(p) \/ WriteRules(p)

LNext ==
    \/ \E s \in Sessions : \/ \E id \in {Anonymous, LastId + 1}, c \in Tried, k \in Kinds :
                                  Act(s, id, c, k[1], k[2])
                           \/ \E old \in Sessions : Resume(s, old)
                           \/ Age(s)
    \/ \E x \in Paragraphs, u \in BOOLEAN : Edit(x, u)
    \/ \E p \in Learners : Discover(p) \/ Learn(p)
    \/ \E d \in Dashboards : Mine(d) \/ ReadFile(d) \/ WriteBlock(d)

LSpec == LInit /\ [][LNext]_Lvars
-----------------------------------------------------------------------------
(* Properties                                                                *)

\* The calls of a transcript that are evidence, by where they are; the identities
\* they have; and those that have none.
Places(s, k) == {i \in DOMAIN log[s] : Belongs(log[s][i], k)}
Named(s, k) == {log[s][i].id : i \in Places(s, k)} \ {Anonymous}
Nameless(s, k) == {s} \X {i \in Places(s, k) : log[s][i].id = Anonymous}

\* A loop is one: some session made that many different calls, and no call is
\* counted twice, however transcripts were resumed; unless it has no identity.
LoopsMeasured ==
    \A k \in Key :
        LET records == Merged(k, Threshold)
            loopers == {s \in Sessions : Cardinality(Named(s, k)) + Cardinality(Nameless(s, k))
                                            >= Threshold}
        IN /\ records # <<>> <=> loopers # {}
           /\ Len(records) = Cardinality(UNION {Named(s, k) : s \in loopers})
                             + Cardinality(UNION {Nameless(s, k) : s \in loopers})

\* Of the rules that a learner has read, those that are one of a kind, and that
\* re.sub leaves as they are.
Lasting(p) ==
    {q \in seen[p].block : /\ q.key \notin DOMAIN Respelled
                           /\ \A r \in seen[p].block : r.key = q.key => r = q}

Capped(found) == IF found <= MaxRules THEN found ELSE MaxRules

\* What a learner puts into the place of a file that it could decode: what the user
\* had written stays; the lasting rules stay with their measure, but for those that
\* have no room; and what was found now is put into a block of at most MaxRules,
\* unless a backslash is in the way.
Kept(p) ==
    LET fresh == Keys(rules[p])
        prior == Keys(seen[p].block)
        slashed == /\ seen[p].marked
                   /\ (fresh \cup prior) \cap (Slashed \cup DOMAIN Respelled) # {}
    IN /\ seen[p].text \subseteq file'.text
       /\ \A q \in Lasting(p) :
             \/ \E r \in file'.block : r.key = q.key /\ r.waste >= q.waste
             \/ /\ Cardinality(fresh \cup prior) > MaxRules
                /\ \A r \in file'.block :
                      (\E k \in fresh : r.key \in {k, Spelled(k)}) \/ r.waste >= q.waste
       /\ slashed \/ /\ Cardinality(file'.block) = Capped(Cardinality(fresh \cup prior))
                     /\ Cardinality(fresh \cap Keys(file'.block)) = Capped(Cardinality(fresh))

\* A learner's write loses nothing of the file as it has read it; but for one that
\* is not UTF-8, and for rules that re.sub respells.  Only for a backslash is it
\* refused, and leaves the file as it is.  (What was written since the learner has
\* read the file is lost: no lock is held.)
NothingLost ==
    [][\A p \in Learners :
          phase[p] = "replacing" /\ phase'[p] = "idle" /\ seen[p].foreign = {}
          => \/ Kept(p)
             \/ /\ file' = file /\ seen[p].marked
                /\ (Keys(rules[p]) \cup Keys(seen[p].block)) \cap Slashed # {}]_Lvars
=============================================================================
