------------------------------ MODULE MemoryGraph ------------------------------
(***************************************************************************)
(* What the gateway remembers about its user: class SQLiteGraphStore       *)
(* (ctxguard/storage/repository_graph.py), as it is called by the tool     *)
(* memory_save (core/virtual_tools/executor.py), by the learning from      *)
(* requests and answers (core/memory/graph_engine.py) and by the routes    *)
(* under /api/graph (proxy/router.py).                                     *)
(*                                                                         *)
(* A fact is an entity.  A corrected fact is a new entity that supersedes  *)
(* the old one, and a wrong correction can be detached again.  An index of *)
(* the active entities serves the searches.                                *)
(*                                                                         *)
(* A worker's lock admits one call at a time, but the workers share the    *)
(* tables.  A call reads with one connection and writes later, in a        *)
(* transaction of its own: another worker's call may come between.         *)
(***************************************************************************)
EXTENDS Naturals, Sequences, FiniteSets

CONSTANTS
    Names,     \* names of entities
    User,      \* the entity that facts are linked to
    Threads, Workers,
    WorkerOf,  \* the worker of each thread
    Pairs,     \* bound: the names that the route is asked to relate
    MaxRows,   \* bound: rows of kg_entities
    MaxCalls   \* bound: requests that change the graph

ASSUME MemoryGraphAssumption ==
    /\ User \in Names /\ Pairs \subseteq Names \X Names
    /\ WorkerOf \in [Threads -> Workers]
    /\ MaxRows \in Nat /\ MaxCalls \in Nat

VARIABLES
    entities,  \* kg_entities: row i is the i-th that was ever inserted
    index,     \* kg_entities_fts
    links,     \* kg_relationships
    todo,      \* the calls a thread has still to make
    found,     \* what the current call has read; 0 before and when nothing
    within,    \* the thread is between the reading and the writing of a call
    linked,    \* the entities its request has found or added
    split,     \* a version of each fact of which two may be current
    revived,   \* entities that became active again, and were not added since
    raced,     \* entities that were added to when they were not active any more
    calls

thread == <<todo, found, within, linked>>
history == <<split, revived, raced>>
vars == <<entities, index, links, thread, history, calls>>

None == 0
Ids == 1..MaxRows

Entity == [name : Names, gone : BOOLEAN, retired : BOOLEAN,
           supersedes : Ids \cup {None}, superseded_by : Ids \cup {None}]

Call == [op : {"look", "add"}, name : Names] \cup [op : {"link"}]
        \cup [op : {"supersede"}, id : Ids, name : Names]
        \cup [op : {"detach"}, old : Ids, new : Ids]

\* The variables have their types.
TypeOK ==
    /\ entities \in Seq(Entity) /\ Len(entities) <= MaxRows
    /\ index \subseteq Ids
    /\ links \subseteq Ids \X Ids
    /\ todo \in [Threads -> Seq(Call)]
    /\ found \in [Threads -> Ids \cup {None}]
    /\ within \in [Threads -> BOOLEAN]
    /\ linked \in [Threads -> Seq(Ids)]
    /\ split \subseteq Ids /\ revived \subseteq Ids /\ raced \subseteq Ids
    /\ calls \in 0..MaxCalls

-----------------------------------------------------------------------------
(* The tables                                                                *)

Rows == DOMAIN entities
Exists(i) == i \in Rows /\ ~entities[i].gone

\* Entity.is_active.
Active(i) == Exists(i) /\ ~entities[i].retired /\ entities[i].superseded_by = None

\* get_entity_by_name.
Named(n) == {i \in Rows : Exists(i) /\ ~entities[i].retired /\ entities[i].name = n}

NewEntity(n, old) == [name |-> n, gone |-> FALSE, retired |-> FALSE,
                      supersedes |-> old, superseded_by |-> None]

\* A mutation of NewId: the id of the last row is used again.
LastId == Len(entities)

NewId == Len(entities) + 1

\* The first version of the fact that entity i is a version of.
First(i) ==
    LET first[j \in Rows] ==
            IF entities[j].supersedes = None THEN j ELSE first[entities[j].supersedes]
    IN first[i]

-----------------------------------------------------------------------------
(* Requests                                                                  *)

Request(t, todos) ==
    /\ todo[t] = <<>>
    /\ calls < MaxCalls
    /\ calls' = calls + 1
    /\ todo' = [todo EXCEPT ![t] = todos]
    /\ UNCHANGED <<entities, index, links, found, within, linked, history>>

\* The calls that store a fact about the user.
Fact(n) == <<[op |-> "look", name |-> User], [op |-> "add", name |-> n], [op |-> "link"]>>

\* A fact is remembered: memory_save, a pattern in the user's message, or an "add"
\* in the model's answer.
Remember(t, n) == Request(t, Fact(n))

\* POST /api/graph/entity.
Create(t, n) == Request(t, <<[op |-> "add", name |-> n]>>)

\* POST /api/graph/relationship: entities are added when there are none.
Relate(t, m, n) ==
    Request(t, <<[op |-> "look", name |-> m], [op |-> "look", name |-> n],
                 [op |-> "link"]>>)

\* A fact is corrected: a "supersede" in the model's answer, or the route.
Correct(t, i, n) == Request(t, <<[op |-> "supersede", id |-> i, name |-> n]>>)

\* A correction is taken back.
TakeBack(t, o, i) == Request(t, <<[op |-> "detach", old |-> o, new |-> i]>>)

\* The worker's lock is free for a call of thread t.
Free(t) == \A u \in Threads : WorkerOf[u] = WorkerOf[t] => ~within[u]

Calling(t, op) == todo[t] # <<>> /\ Head(todo[t]).op = op

\* The call of t has read i and goes on to write.
Reads(t, op, i) ==
    /\ Calling(t, op)
    /\ Free(t)
    /\ within' = [within EXCEPT ![t] = TRUE]
    /\ found' = [found EXCEPT ![t] = i]
    /\ UNCHANGED <<entities, index, links, todo, linked, history, calls>>

\* The call of t has written, and returns entity i.
Returns(t, op, i) ==
    /\ Calling(t, op)
    /\ within[t]
    /\ within' = [within EXCEPT ![t] = FALSE]
    /\ found' = [found EXCEPT ![t] = None]
    /\ todo' = [todo EXCEPT ![t] = Tail(@)]
    /\ linked' = [linked EXCEPT ![t] = IF Len(todo[t]) = 1 THEN <<>> ELSE Append(@, i)]
    /\ UNCHANGED calls

\* A call raises an exception: the request is over.
Raises(t, op) ==
    /\ Calling(t, op)
    /\ Free(t)
    /\ todo' = [todo EXCEPT ![t] = <<>>]
    /\ linked' = [linked EXCEPT ![t] = <<>>]
    /\ UNCHANGED <<entities, index, links, found, within, history, calls>>

-----------------------------------------------------------------------------
(* add_entity                                                                *)

\* get_entity_by_name: an entity that is not found is going to be added.
LookUp(t) ==
    LET n == Head(todo[t]).name
    IN /\ Calling(t, "look")
       /\ Free(t)
       /\ IF Named(n) = {}
          THEN todo' = [todo EXCEPT ![t][1].op = "add"] /\ UNCHANGED linked
          ELSE /\ todo' = [todo EXCEPT ![t] = Tail(@)]
               /\ \E i \in Named(n) : linked' = [linked EXCEPT ![t] = Append(@, i)]
       /\ UNCHANGED <<entities, index, links, found, within, history, calls>>

FindEntity(t) ==
    LET n == Head(todo[t]).name
    IN /\ Calling(t, "add")
       /\ \E i \in IF Named(n) = {} THEN {None} ELSE Named(n) : Reads(t, "add", i)

\* The entity that was found is updated, and put into the index as it was then.
UpdateEntity(t) ==
    /\ found[t] # None
    /\ Returns(t, "add", found[t])
    /\ index' = index \cup {found[t]}
    /\ revived' = revived \ {found[t]}
    /\ raced' = IF Active(found[t]) THEN raced ELSE raced \cup {found[t]}
    /\ UNCHANGED <<entities, links, split>>

InsertEntity(t) ==
    /\ found[t] = None
    /\ NewId <= MaxRows
    /\ Returns(t, "add", NewId)
    /\ entities' = Append(entities, NewEntity(Head(todo[t]).name, None))
    /\ index' = index \cup {NewId}
    /\ UNCHANGED <<links, history>>

\* add_relationship: the table's foreign keys refuse an entity that is not there.
Link(t) ==
    /\ Calling(t, "link")
    /\ Free(t)
    /\ todo' = [todo EXCEPT ![t] = <<>>]
    /\ links' = IF Exists(linked[t][1]) /\ Exists(linked[t][2])
                THEN links \cup {<<linked[t][1], linked[t][2]>>} ELSE links
    /\ linked' = [linked EXCEPT ![t] = <<>>]
    /\ UNCHANGED <<entities, index, found, within, history, calls>>

-----------------------------------------------------------------------------
(* Supersession                                                              *)

\* supersede refuses an entity that is superseded already.
FindCurrent(t) ==
    LET i == Head(todo[t]).id
    IN /\ Calling(t, "supersede")
       /\ IF Active(i) THEN Reads(t, "supersede", i) ELSE Raises(t, "supersede")

Retire(es, i, by) ==
    IF i \in DOMAIN es /\ ~es[i].gone
    THEN [es EXCEPT ![i].retired = TRUE, ![i].superseded_by = by] ELSE es

\* A mutation of Supersede: the index keeps the old entity.
SupersedeIndexed(t) ==
    LET old == found[t]
    IN /\ NewId <= MaxRows
       /\ Returns(t, "supersede", NewId)
       /\ entities' = Append(Retire(entities, old, NewId),
                             NewEntity(Head(todo[t]).name, old))
       /\ index' = index \cup {NewId}
       /\ split' = IF Active(old) THEN split ELSE split \cup {old}
       /\ UNCHANGED <<links, revived, raced>>

\* The old entity is stamped and leaves the index, the new one is inserted.
Supersede(t) ==
    LET old == found[t]
    IN /\ NewId <= MaxRows
       /\ Returns(t, "supersede", NewId)
       /\ entities' = Append(Retire(entities, old, NewId),
                             NewEntity(Head(todo[t]).name, old))
       /\ index' = (index \ {old}) \cup {NewId}
       /\ split' = IF Active(old) THEN split ELSE split \cup {old}
       /\ UNCHANGED <<links, revived, raced>>

\* detach_supersession: old must be superseded by new.
FindChain(t) ==
    LET o == Head(todo[t]).old
        i == Head(todo[t]).new
    IN /\ Calling(t, "detach")
       /\ IF Exists(o) /\ entities[o].superseded_by = i
          THEN Reads(t, "detach", o) ELSE Raises(t, "detach")

\* A mutation of Detach: the new entity stays.
DetachOld(t) ==
    LET o == Head(todo[t]).old
        i == Head(todo[t]).new
    IN /\ Returns(t, "detach", o)
       /\ entities' = [entities EXCEPT ![o].retired = FALSE, ![o].superseded_by = None]
       /\ index' = IF Active(o) THEN index \cup {o} ELSE index \ {o}
       /\ revived' = revived \cup {o}
       /\ split' = IF Active(i) THEN split ELSE split \cup {o}
       /\ UNCHANGED <<links, raced>>

\* The old entity is active again, and the new one is retired.  For the index the
\* old entity is read with a second connection, which does not see what the
\* first has not committed: the entity of before, which is not active, is not put
\* into the index.
Detach(t) ==
    LET o == Head(todo[t]).old
        i == Head(todo[t]).new
    IN /\ Returns(t, "detach", o)
       /\ entities' = [j \in Rows |->
                        IF j = o
                        THEN [entities[j] EXCEPT !.retired = FALSE, !.superseded_by = None]
                        ELSE [entities[j] EXCEPT !.retired = @ \/ j = i]]
       /\ index' = (IF Active(o) THEN index \cup {o} ELSE index \ {o}) \ {i}
       /\ revived' = revived \cup {o}
       /\ split' = IF Active(i) THEN split ELSE split \cup {o}
       /\ UNCHANGED <<links, raced>>

\* delete_entity, with the relationships of the entity.
Delete(t, i) ==
    /\ calls < MaxCalls /\ todo[t] = <<>> /\ Free(t) /\ Exists(i)
    /\ calls' = calls + 1
    /\ entities' = [entities EXCEPT ![i].gone = TRUE]
    /\ index' = index \ {i}
    /\ links' = {l \in links : i \notin {l[1], l[2]}}
    /\ UNCHANGED <<thread, history>>

Init ==
    /\ entities = <<>> /\ index = {} /\ links = {}
    /\ todo = [t \in Threads |-> <<>>]
    /\ found = [t \in Threads |-> None]
    /\ within = [t \in Threads |-> FALSE]
    /\ linked = [t \in Threads |-> <<>>]
    /\ split = {} /\ revived = {} /\ raced = {}
    /\ calls = 0

Next ==
    \E t \in Threads :
        \/ \E pair \in Pairs : Relate(t, pair[1], pair[2])
        \/ \E n \in Names : \/ Remember(t, n) \/ Create(t, n)
                            \/ \E i \in Rows : Correct(t, i, n)
        \/ \E i \in Rows : \/ Delete(t, i)
                           \/ \E j \in Rows : TakeBack(t, i, j)
        \/ LookUp(t) \/ FindEntity(t) \/ UpdateEntity(t) \/ InsertEntity(t) \/ Link(t)
        \/ FindCurrent(t) \/ Supersede(t)
        \/ FindChain(t) \/ Detach(t)

Spec == Init /\ [][Next]_vars

-----------------------------------------------------------------------------
(* What is read                                                              *)

\* get_history: from version i back to the first, and on to the last, as far as
\* the rows exist.
History(i) ==
    LET older[j \in Rows \cup {None}] ==
            IF j = None \/ ~Exists(j) THEN {} ELSE {j} \cup older[entities[j].supersedes]
        newer[j \in Rows \cup {None}] ==
            IF j = None \/ ~Exists(j) THEN {} ELSE {j} \cup newer[entities[j].superseded_by]
    IN older[i] \cup newer[i]

\* search_entities: by the index, and by the names when that yields nothing.
Search(n) ==
    LET hits == {i \in index : i \in Named(n)}
    IN IF hits # {} THEN hits ELSE Named(n)

\* A mutation of Neighbours: a superseded neighbour is followed too.
NeighboursAll(is) == {j \in Rows : Exists(j) /\ \E i \in is : <<i, j>> \in links \/ <<j, i>> \in links}

Neighbours(is) == {j \in Rows : Active(j) /\ \E i \in is : <<i, j>> \in links \/ <<j, i>> \in links}

\* query_subgraph, two hops from the entities in is.
Subgraph(is) ==
    LET near == is \cup Neighbours(is)
    IN near \cup Neighbours(near)

\* find_relevant_subgraph for a text that names n: entities with that name,
\* entities the search finds, and the user for a general question.
Recalled(n) == Subgraph({i \in Named(n) \cup Search(n) \cup Named(User) : Active(i)})

-----------------------------------------------------------------------------
(* Properties                                                                *)

\* However corrections follow one another, and are taken back, a fact has at most
\* one current version, and the history of each of its versions shows it, but for
\* what was deleted: unless a correction was taken back that was corrected itself,
\* or two workers corrected the same version.
OneCurrent ==
    \A i, j \in Rows :
        /\ Exists(i) /\ Active(j)
        /\ First(i) = First(j) /\ \A s \in split : First(i) # First(s)
        => /\ Active(i) => i = j
           /\ i \in History(j) => j \in History(i)

\* The index holds the active entities, for the searches: but for one that became
\* active again by a detachment, and one that another worker retired while it was
\* being added to.
IndexCurrent ==
    \A i \in Ids : /\ Active(i) => i \in index \/ i \in revived
                   /\ i \in index => Active(i) \/ i \in raced

\* The Iron Rule of the store: a fact that was superseded is not shown to the model
\* again, though the relationships of the old version still point to it, and the
\* current one is shown when it is named.
RecallCurrent ==
    \A n \in Names : /\ Named(n) \subseteq Recalled(n)
                     /\ \A i \in Recalled(n) : Active(i)
=============================================================================
