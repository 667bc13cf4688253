-------------------------- MODULE MemoryGraphProofs --------------------------
(* Theorems about MemoryGraph, for every number of threads, of workers and of *)
(* rows.                                                                      *)
EXTENDS MemoryGraph, SequenceTheorems, WellFoundedInduction, TLAPS

-----------------------------------------------------------------------------
(* The inductive invariant                                                   *)

\* A thread is between the reading and the writing of a call only when there is
\* such a call; a supersession has read the entity that it is going to retire.
Working ==
    \A t \in Threads : within[t] =>
        /\ todo[t] # <<>>
        /\ Head(todo[t]).op = "supersede" => found[t] \in Ids

\* An entity that another one supersedes is retired.
Stamped == \A i \in Rows : ~entities[i].retired => entities[i].superseded_by = None

IInv == TypeOK /\ Working /\ Stamped /\ IndexCurrent

-----------------------------------------------------------------------------
(* Sequences                                                                 *)

LEMMA HeadFacts ==
    ASSUME NEW S, NEW s \in Seq(S), s # <<>>
    PROVE  /\ Head(s) \in S /\ Head(s) = s[1] /\ Tail(s) \in Seq(S)
           /\ Len(s) \in Nat \ {0} /\ 1 \in DOMAIN s
BY HeadTailProperties, LenProperties, EmptySeq, ElementOfSeq

LEMMA RowFacts ==
    ASSUME TypeOK
    PROVE  /\ Len(entities) \in Nat /\ Rows = 1..Len(entities) /\ Rows \subseteq Ids
           /\ \A i \in Rows : entities[i] \in Entity
           /\ MaxRows \in Nat /\ NewId \in Nat \ {0} /\ NewId \notin Rows
<1>1. /\ Len(entities) \in Nat /\ DOMAIN entities = 1..Len(entities)
      /\ \A i \in 1..Len(entities) : entities[i] \in Entity
  BY LenProperties, ElementOfSeq DEF TypeOK
<1> QED  BY <1>1, MemoryGraphAssumption DEF Rows, Ids, TypeOK, NewId

\* The call a thread is in, by what it does.
LEMMA CallFacts ==
    ASSUME TypeOK, NEW t \in Threads, todo[t] # <<>>
    PROVE  /\ todo[t] \in Seq(Call) /\ Head(todo[t]) \in Call
           /\ Head(todo[t]) = todo[t][1] /\ 1 \in DOMAIN todo[t]
           /\ Tail(todo[t]) \in Seq(Call)
           /\ Head(todo[t]).op \in {"look", "add"} =>
                Head(todo[t]) \in [op : {"look", "add"}, name : Names]
           /\ Head(todo[t]).op = "supersede" =>
                Head(todo[t]).id \in Ids /\ Head(todo[t]).name \in Names
           /\ Head(todo[t]).op = "detach" =>
                Head(todo[t]).old \in Ids /\ Head(todo[t]).new \in Ids
<1>1. todo[t] \in Seq(Call)
  BY DEF TypeOK
<1>2. /\ Head(todo[t]) \in Call /\ Head(todo[t]) = todo[t][1] /\ 1 \in DOMAIN todo[t]
      /\ Tail(todo[t]) \in Seq(Call)
  BY <1>1, HeadFacts
<1>3. /\ Head(todo[t]).op \in {"look", "add"} =>
           Head(todo[t]) \in [op : {"look", "add"}, name : Names]
      /\ Head(todo[t]).op = "supersede" =>
           Head(todo[t]).id \in Ids /\ Head(todo[t]).name \in Names
      /\ Head(todo[t]).op = "detach" =>
           Head(todo[t]).old \in Ids /\ Head(todo[t]).new \in Ids
  BY <1>2 DEF Call
<1> QED  BY <1>1, <1>2, <1>3

\* A fresh row is appended to a table that has the rows of before.
LEMMA AppendFacts ==
    ASSUME TypeOK, NEW es \in Seq(Entity), Len(es) = Len(entities), NEW e \in Entity,
           NewId <= MaxRows
    PROVE  /\ Append(es, e) \in Seq(Entity)
           /\ DOMAIN Append(es, e) = Rows \cup {NewId} /\ NewId \in Ids
           /\ Len(Append(es, e)) = NewId
           /\ \A i \in Rows : Append(es, e)[i] = es[i]
           /\ Append(es, e)[NewId] = e
<1>1. /\ Append(es, e) \in Seq(Entity)
      /\ Len(Append(es, e)) = Len(entities) + 1
      /\ \A i \in 1..Len(entities) : Append(es, e)[i] = es[i]
      /\ Append(es, e)[Len(entities) + 1] = e
  BY AppendProperties
<1>2. DOMAIN Append(es, e) = 1..Len(Append(es, e))
  BY <1>1, LenProperties
<1> QED  BY <1>1, <1>2, RowFacts DEF NewId, Ids

-----------------------------------------------------------------------------
(* Parts of the actions                                                      *)

Tables == <<entities, index, links, history>>

LEMMA FreeFacts ==
    ASSUME TypeOK, NEW t \in Threads, Free(t)
    PROVE  ~within[t]
BY DEF Free

\* While only the calls of a thread change, the graph stays right.
LEMMA TablesKept ==
    ASSUME IInv, UNCHANGED Tables
    PROVE  /\ Stamped' /\ IndexCurrent'
           /\ entities' \in Seq(Entity) /\ Len(entities') <= MaxRows
           /\ index' \subseteq Ids /\ links' \subseteq Ids \X Ids
           /\ split' \subseteq Ids /\ revived' \subseteq Ids /\ raced' \subseteq Ids
BY DEF IInv, TypeOK, Tables, history, Stamped, IndexCurrent, Rows, Active, Exists

LEMMA RequestStep ==
    ASSUME IInv, NEW t \in Threads, NEW todos \in Seq(Call), Request(t, todos)
    PROVE  IInv'
<1>1. ~within[t]
  BY DEF IInv, Working, Request
<1>2. Stamped' /\ IndexCurrent'
  BY TablesKept DEF Request, Tables
<1>3. TypeOK'
  <2>1. todo' \in [Threads -> Seq(Call)]
    BY DEF IInv, TypeOK, Request
  <2>2. calls' \in 0..MaxCalls
    BY MemoryGraphAssumption DEF IInv, TypeOK, Request
  <2> QED  BY <2>1, <2>2 DEF IInv, TypeOK, Request, history
<1>4. Working'
  <2>1. \A u \in Threads \ {t} : todo'[u] = todo[u]
    BY DEF Request, IInv, TypeOK
  <2> QED  BY <1>1, <2>1 DEF IInv, Working, Request
<1> QED  BY <1>2, <1>3, <1>4 DEF IInv

LEMMA ReadsStep ==
    ASSUME IInv, NEW t \in Threads, NEW op, NEW i \in Ids \cup {None}, Reads(t, op, i),
           op = "supersede" => i \in Ids
    PROVE  IInv'
<1>1. Stamped' /\ IndexCurrent'
  BY TablesKept DEF Reads, Tables
<1>2. TypeOK'
  BY DEF IInv, TypeOK, Reads, history
<1>3. Working'
  BY DEF IInv, TypeOK, Working, Reads, Calling
<1> QED  BY <1>1, <1>2, <1>3 DEF IInv

LEMMA RaisesStep ==
    ASSUME IInv, NEW t \in Threads, NEW op, Raises(t, op)
    PROVE  IInv'
<1>1. ~within[t]
  BY FreeFacts DEF IInv, Raises
<1>2. Stamped' /\ IndexCurrent'
  BY TablesKept DEF Raises, Tables
<1>3. TypeOK'
  <2>1. <<>> \in Seq(Call) /\ <<>> \in Seq(Ids)
    BY EmptySeq
  <2> QED  BY <2>1 DEF IInv, TypeOK, Raises, history
<1>4. Working'
  BY <1>1 DEF IInv, TypeOK, Working, Raises
<1> QED  BY <1>2, <1>3, <1>4 DEF IInv

\* A call that returns leaves its thread's variables right.
LEMMA ReturnsFacts ==
    ASSUME IInv, NEW t \in Threads, NEW op, NEW i \in Ids, Returns(t, op, i)
    PROVE  /\ todo' \in [Threads -> Seq(Call)] /\ found' \in [Threads -> Ids \cup {None}]
           /\ within' \in [Threads -> BOOLEAN] /\ linked' \in [Threads -> Seq(Ids)]
           /\ calls' \in 0..MaxCalls
           /\ Working'
<1>1. todo[t] # <<>> /\ Tail(todo[t]) \in Seq(Call)
  BY CallFacts DEF Returns, Calling, IInv
<1>2. <<>> \in Seq(Ids) /\ Append(linked[t], i) \in Seq(Ids)
  BY AppendProperties, EmptySeq DEF IInv, TypeOK
<1>3. \A u \in Threads \ {t} : /\ todo'[u] = todo[u] /\ found'[u] = found[u]
                               /\ within'[u] = within[u]
  BY DEF Returns, IInv, TypeOK
<1>4. ~within'[t]
  BY DEF Returns, IInv, TypeOK
<1>5. Working'
  BY <1>3, <1>4 DEF IInv, Working
<1> QED  BY <1>1, <1>2, <1>5 DEF IInv, TypeOK, Returns

-----------------------------------------------------------------------------
(* The actions                                                               *)

LEMMA RequestsStep ==
    ASSUME IInv, NEW t \in Threads, NEW n \in Names,
           \/ Remember(t, n) \/ Create(t, n) \/ \E m \in Names : Relate(t, m, n)
           \/ \E i \in Rows : Correct(t, i, n)
    PROVE  IInv'
<1>1. /\ \A m \in Names : [op |-> "look", name |-> m] \in Call
      /\ [op |-> "look", name |-> User] \in Call
      /\ [op |-> "add", name |-> n] \in Call /\ [op |-> "link"] \in Call
  BY MemoryGraphAssumption DEF Call
<1>2. Fact(n) \in Seq(Call)
  BY <1>1 DEF Fact
<1>3. CASE Remember(t, n)
  BY <1>2, <1>3, RequestStep DEF Remember
<1>4. CASE Create(t, n)
  <2>1. <<[op |-> "add", name |-> n]>> \in Seq(Call)
    BY <1>1
  <2> QED  BY <2>1, <1>4, RequestStep DEF Create
<1>5. ASSUME NEW m \in Names, Relate(t, m, n)  PROVE IInv'
  <2>1. <<[op |-> "look", name |-> m], [op |-> "look", name |-> n], [op |-> "link"]>>
          \in Seq(Call)
    BY <1>1
  <2> QED  BY <2>1, <1>5, RequestStep DEF Relate
<1>6. ASSUME NEW i \in Rows, Correct(t, i, n)  PROVE IInv'
  <2>1. i \in Ids
    BY <1>6, RowFacts DEF IInv
  <2>2. <<[op |-> "supersede", id |-> i, name |-> n]>> \in Seq(Call)
    BY <2>1 DEF Call
  <2> QED  BY <2>2, <1>6, RequestStep DEF Correct
<1> QED  BY <1>3, <1>4, <1>5, <1>6

LEMMA TakeBackStep ==
    ASSUME IInv, NEW t \in Threads, NEW i \in Rows, NEW j \in Rows, TakeBack(t, i, j)
    PROVE  IInv'
<1>1. i \in Ids /\ j \in Ids
  BY RowFacts DEF IInv
<1>2. <<[op |-> "detach", old |-> i, new |-> j]>> \in Seq(Call)
  BY <1>1 DEF Call
<1> QED  BY <1>2, RequestStep DEF TakeBack

LEMMA LookUpStep ==
    ASSUME IInv, NEW t \in Threads, LookUp(t)
    PROVE  IInv'
<1>1. ~within[t] /\ todo[t] # <<>> /\ Head(todo[t]).op = "look"
  BY FreeFacts DEF IInv, LookUp, Calling
<1>2. Stamped' /\ IndexCurrent'
  BY TablesKept DEF LookUp, Tables
<1>3. /\ todo[t] \in Seq(Call) /\ Tail(todo[t]) \in Seq(Call) /\ 1 \in 1..Len(todo[t])
      /\ todo[t][1] \in [op : {"look", "add"}, name : Names]
  BY <1>1, CallFacts, LenProperties DEF IInv
<1>4. /\ todo' \in [Threads -> Seq(Call)] /\ linked' \in [Threads -> Seq(Ids)]
      /\ \A u \in Threads \ {t} : todo'[u] = todo[u]
  <2>1. CASE Named(Head(todo[t]).name) = {}
    <3> DEFINE call == [todo[t][1] EXCEPT !.op = "add"]
    <3>1. call \in Call
      BY <1>3 DEF Call
    <3>2. [todo[t] EXCEPT ![1] = call] \in Seq(Call)
      BY <1>3, <3>1, ExceptSeq
    <3>3. todo' = [todo EXCEPT ![t] = [todo[t] EXCEPT ![1] = call]] /\ linked' = linked
      BY <2>1 DEF LookUp, IInv, TypeOK
    <3> QED  BY <3>2, <3>3 DEF IInv, TypeOK
  <2>2. CASE Named(Head(todo[t]).name) # {}
    <3>1. PICK i \in Named(Head(todo[t]).name) : linked' = [linked EXCEPT ![t] = Append(@, i)]
      BY <2>2 DEF LookUp
    <3>2. i \in Ids
      BY <3>1, RowFacts DEF Named, IInv
    <3>3. Append(linked[t], i) \in Seq(Ids)
      BY <3>2, AppendProperties DEF IInv, TypeOK
    <3>4. todo' = [todo EXCEPT ![t] = Tail(@)]
      BY <2>2 DEF LookUp
    <3> QED  BY <1>3, <3>1, <3>3, <3>4 DEF IInv, TypeOK
  <2> QED  BY <2>1, <2>2
<1>5. TypeOK'
  BY <1>4 DEF IInv, TypeOK, LookUp, history
<1>6. Working'
  BY <1>1, <1>4 DEF IInv, Working, LookUp
<1> QED  BY <1>2, <1>5, <1>6 DEF IInv

LEMMA LinkStep ==
    ASSUME IInv, NEW t \in Threads, Link(t)
    PROVE  IInv'
<1>1. ~within[t]
  BY FreeFacts DEF IInv, Link
<1>2. Stamped' /\ IndexCurrent'
  BY DEF IInv, Link, history, Stamped, IndexCurrent, Rows, Active, Exists
<1>3. links' \subseteq Ids \X Ids
  <2>1. \A a \in Rows, b \in Rows : <<a, b>> \in Ids \X Ids
    BY RowFacts DEF IInv
  <2> QED  BY <2>1 DEF Link, Exists, IInv, TypeOK
<1>4. TypeOK'
  <2>1. <<>> \in Seq(Call) /\ <<>> \in Seq(Ids)
    BY EmptySeq
  <2> QED  BY <1>3, <2>1 DEF IInv, TypeOK, Link, history
<1>5. Working'
  BY <1>1 DEF IInv, TypeOK, Working, Link
<1> QED  BY <1>2, <1>4, <1>5 DEF IInv

LEMMA FindStep ==
    ASSUME IInv, NEW t \in Threads, FindEntity(t) \/ FindCurrent(t) \/ FindChain(t)
    PROVE  IInv'
<1>1. CASE FindEntity(t)
  <2>1. PICK i \in IF Named(Head(todo[t]).name) = {} THEN {None}
                   ELSE Named(Head(todo[t]).name) : Reads(t, "add", i)
    BY <1>1 DEF FindEntity
  <2>2. i \in Ids \cup {None}
    BY <2>1, RowFacts DEF Named, IInv
  <2> QED  BY <2>1, <2>2, ReadsStep
<1>2. CASE FindCurrent(t)
  <2> DEFINE i == Head(todo[t]).id
  <2>1. CASE Active(i)
    <3>1. i \in Ids
      BY <2>1, RowFacts DEF Active, Exists, IInv
    <3>2. Reads(t, "supersede", i)
      BY <1>2, <2>1 DEF FindCurrent
    <3> HIDE DEF i
    <3> QED  BY <3>1, <3>2, ReadsStep
  <2>2. CASE ~Active(i)
    BY <1>2, <2>2, RaisesStep DEF FindCurrent
  <2> QED  BY <2>1, <2>2
<1>3. CASE FindChain(t)
  <2> DEFINE o == Head(todo[t]).old
  <2>1. CASE Exists(o) /\ entities[o].superseded_by = Head(todo[t]).new
    <3>1. o \in Ids
      BY <2>1, RowFacts DEF Exists, IInv
    <3>2. Reads(t, "detach", o)
      BY <1>3, <2>1 DEF FindChain
    <3> HIDE DEF o
    <3> QED  BY <3>1, <3>2, ReadsStep
  <2>2. CASE ~(Exists(o) /\ entities[o].superseded_by = Head(todo[t]).new)
    BY <1>3, <2>2, RaisesStep DEF FindChain
  <2> QED  BY <2>1, <2>2
<1> QED  BY <1>1, <1>2, <1>3

LEMMA UpdateStep ==
    ASSUME IInv, NEW t \in Threads, UpdateEntity(t)
    PROVE  IInv'
<1>1. found[t] \in Ids /\ Returns(t, "add", found[t])
  BY DEF UpdateEntity, IInv, TypeOK
<1>2. /\ todo' \in [Threads -> Seq(Call)] /\ found' \in [Threads -> Ids \cup {None}]
      /\ within' \in [Threads -> BOOLEAN] /\ linked' \in [Threads -> Seq(Ids)]
      /\ calls' \in 0..MaxCalls
      /\ Working'
  BY <1>1, ReturnsFacts
<1>3. TypeOK'
  BY <1>1, <1>2 DEF IInv, TypeOK, UpdateEntity
<1>4. Stamped' /\ IndexCurrent'
  BY DEF IInv, UpdateEntity, Stamped, IndexCurrent, Rows, Active, Exists
<1> QED  BY <1>2, <1>3, <1>4 DEF IInv

LEMMA InsertStep ==
    ASSUME IInv, NEW t \in Threads, InsertEntity(t)
    PROVE  IInv'
<1> DEFINE e == NewEntity(Head(todo[t]).name, None)
<1>1. e \in Entity /\ ~e.gone /\ ~e.retired /\ e.superseded_by = None
  <2>1. Head(todo[t]).name \in Names
    BY CallFacts DEF InsertEntity, Returns, Calling, IInv
  <2> QED  BY <2>1 DEF NewEntity, Entity
<1> HIDE DEF e
<1>2. /\ entities' \in Seq(Entity) /\ Rows' = Rows \cup {NewId}
      /\ NewId \in Ids /\ NewId \notin Rows /\ Len(entities') <= MaxRows
      /\ \A i \in Rows : entities'[i] = entities[i]
      /\ entities'[NewId] = e
  <2>1. entities' = Append(entities, e) /\ NewId <= MaxRows
    BY DEF InsertEntity, e
  <2>2. entities \in Seq(Entity)
    BY DEF IInv, TypeOK
  <2> QED  BY <1>1, <2>1, <2>2, AppendFacts, RowFacts DEF IInv, Rows
<1>3. /\ todo' \in [Threads -> Seq(Call)] /\ found' \in [Threads -> Ids \cup {None}]
      /\ within' \in [Threads -> BOOLEAN] /\ linked' \in [Threads -> Seq(Ids)]
      /\ calls' \in 0..MaxCalls
      /\ Working'
  BY <1>2, ReturnsFacts DEF InsertEntity
<1>4. index' = index \cup {NewId} /\ UNCHANGED <<links, split, revived, raced>>
  BY DEF InsertEntity, history
<1>5. TypeOK'
  BY <1>2, <1>3, <1>4 DEF IInv, TypeOK
<1>6. \A i : Active(i)' <=> Active(i) \/ i = NewId
  BY <1>1, <1>2 DEF Active, Exists
<1>7. Stamped' /\ IndexCurrent'
  BY <1>1, <1>2, <1>4, <1>6 DEF IInv, Stamped, IndexCurrent
<1> QED  BY <1>3, <1>5, <1>7 DEF IInv

\* The row of an entity that is superseded is stamped, when it is still there.
LEMMA RetireFacts ==
    ASSUME TypeOK, NEW old \in Ids, NEW by \in Ids
    PROVE  LET es == Retire(entities, old, by) IN
           /\ es \in Seq(Entity) /\ Len(es) = Len(entities)
           /\ \A i \in Rows : /\ i # old \/ ~Exists(old) => es[i] = entities[i]
                              /\ es[i].gone = entities[i].gone
                              /\ es[i].supersedes = entities[i].supersedes
           /\ Exists(old) => es[old].retired /\ es[old].superseded_by = by
<1> DEFINE es == Retire(entities, old, by)
<1>1. CASE Exists(old)
  <2> DEFINE f == [entities[old] EXCEPT !.retired = TRUE, !.superseded_by = by]
  <2>1. /\ old \in Rows /\ entities \in Seq(Entity) /\ Rows = 1..Len(entities)
        /\ entities[old] \in Entity
    BY <1>1, RowFacts DEF TypeOK, Exists
  <2>2. /\ f \in Entity /\ f.retired /\ f.superseded_by = by
        /\ f.gone = entities[old].gone /\ f.supersedes = entities[old].supersedes
    BY <2>1 DEF Entity
  <2>3. es = [entities EXCEPT ![old] = f]
    BY <1>1, <2>1 DEF Retire, Exists, Rows
  <2> HIDE DEF es, f
  <2>4. /\ es \in Seq(Entity) /\ Len(es) = Len(entities)
        /\ \A i \in Rows : es[i] = IF i = old THEN f ELSE entities[i]
    BY <2>1, <2>2, <2>3, ExceptSeq
  <2> QED  BY <1>1, <2>1, <2>2, <2>4 DEF es
<1>2. CASE ~Exists(old)
  <2>1. es = entities
    BY <1>2 DEF Retire, Exists, Rows
  <2> QED  BY <1>2, <2>1 DEF TypeOK
<1> QED  BY <1>1, <1>2

LEMMA SupersedeStep ==
    ASSUME IInv, NEW t \in Threads, Supersede(t)
    PROVE  IInv'
<1> DEFINE old == found[t]
           e == NewEntity(Head(todo[t]).name, old)
           es == Retire(entities, old, NewId)
<1>1. old \in Ids
  BY DEF Supersede, Returns, Calling, IInv, Working
<1>2. e \in Entity /\ ~e.gone /\ ~e.retired /\ e.superseded_by = None
  <2>1. Head(todo[t]).name \in Names
    BY CallFacts DEF Supersede, Returns, Calling, IInv
  <2> QED  BY <1>1, <2>1 DEF NewEntity, Entity
<1>3. NewId \in Ids /\ NewId \notin Rows /\ NewId # None
  BY RowFacts DEF IInv, Supersede, Ids, None
<1>4. /\ es \in Seq(Entity) /\ Len(es) = Len(entities)
      /\ \A i \in Rows : /\ i # old \/ ~Exists(old) => es[i] = entities[i]
                         /\ es[i].gone = entities[i].gone
      /\ Exists(old) => es[old].retired /\ es[old].superseded_by = NewId
  BY <1>1, <1>3, RetireFacts DEF IInv
<1> HIDE DEF e, es
<1>5. /\ entities' \in Seq(Entity) /\ Rows' = Rows \cup {NewId}
      /\ Len(entities') <= MaxRows
      /\ \A i \in Rows : entities'[i] = es[i]
      /\ entities'[NewId] = e
  <2>1. entities' = Append(es, e) /\ NewId <= MaxRows
    BY DEF Supersede, e, es
  <2> QED  BY <1>2, <1>4, <2>1, AppendFacts DEF IInv, Rows
<1>6. /\ todo' \in [Threads -> Seq(Call)] /\ found' \in [Threads -> Ids \cup {None}]
      /\ within' \in [Threads -> BOOLEAN] /\ linked' \in [Threads -> Seq(Ids)]
      /\ calls' \in 0..MaxCalls
      /\ Working'
  BY <1>3, ReturnsFacts DEF Supersede
<1>7. /\ index' = (index \ {old}) \cup {NewId} /\ split' \subseteq Ids
      /\ UNCHANGED <<links, revived, raced>>
  BY <1>1 DEF Supersede, IInv, TypeOK
<1> HIDE DEF old
<1>8. TypeOK'
  BY <1>3, <1>5, <1>6, <1>7 DEF IInv, TypeOK
<1>9. /\ \A i : Active(i)' <=> i = NewId \/ (Active(i) /\ i # old)
      /\ Stamped'
  <2>1. \A i \in Rows : Exists(i)' <=> Exists(i)
    BY <1>4, <1>5 DEF Exists
  <2>2. \A i \in Rows : Active(i)' <=> Active(i) /\ i # old
    BY <1>3, <1>4, <1>5, <2>1 DEF Active, Exists
  <2>3. \A i : i = NewId => Active(i)'
    BY <1>2, <1>5 DEF Active, Exists
  <2>4. Stamped'
    BY <1>2, <1>4, <1>5 DEF IInv, Stamped, Exists
  <2> QED  BY <1>3, <1>5, <2>2, <2>3, <2>4 DEF Active, Exists
<1>10. IndexCurrent'
  BY <1>3, <1>7, <1>9 DEF IInv, IndexCurrent
<1> QED  BY <1>6, <1>8, <1>9, <1>10 DEF IInv

\* The rows of the two entities change, and no others.
LEMMA DetachFacts ==
    ASSUME TypeOK, NEW t \in Threads, Detach(t)
    PROVE  LET o == Head(todo[t]).old
               n == Head(todo[t]).new
           IN /\ Rows' = Rows
              /\ \A j \in Rows :
                    /\ entities'[j] \in Entity /\ entities'[j].gone = entities[j].gone
                    /\ entities'[j].supersedes = entities[j].supersedes
                    /\ j \notin {o, n} => entities'[j] = entities[j]
                    /\ j = o => ~entities'[j].retired /\ entities'[j].superseded_by = None
                    /\ j = n /\ n # o => entities'[j].retired
                    /\ j # o => entities'[j].superseded_by = entities[j].superseded_by
                    /\ ~entities[j].retired => j = n \/ ~entities'[j].retired
                    /\ entities[j].retired => j = o \/ entities'[j].retired
<1> DEFINE o == Head(todo[t]).old
           n == Head(todo[t]).new
<1>1. entities' = [j \in Rows |->
                      IF j = o
                      THEN [entities[j] EXCEPT !.retired = FALSE, !.superseded_by = None]
                      ELSE [entities[j] EXCEPT !.retired = @ \/ j = n]]
  BY DEF Detach
<1>2. \A j \in Rows : entities[j] \in Entity
  BY RowFacts
<1> HIDE DEF o, n
<1>3. Rows' = Rows
  BY <1>1 DEF Rows
<1> QED  BY <1>1, <1>2, <1>3 DEF Entity, o, n

LEMMA DetachStep ==
    ASSUME IInv, NEW t \in Threads, Detach(t)
    PROVE  IInv'
<1> DEFINE o == Head(todo[t]).old
           n == Head(todo[t]).new
<1>1. o \in Ids /\ n \in Ids
  BY CallFacts DEF Detach, Returns, Calling, IInv
<1>2. /\ todo' \in [Threads -> Seq(Call)] /\ found' \in [Threads -> Ids \cup {None}]
      /\ within' \in [Threads -> BOOLEAN] /\ linked' \in [Threads -> Seq(Ids)]
      /\ calls' \in 0..MaxCalls
      /\ Working'
  BY <1>1, ReturnsFacts DEF Detach
<1>3. /\ index' = (IF Active(o) THEN index \cup {o} ELSE index \ {o}) \ {n}
      /\ revived' = revived \cup {o} /\ split' \in {split, split \cup {o}}
      /\ UNCHANGED <<links, raced>>
      /\ entities' = [j \in Rows |-> entities'[j]]
  BY DEF Detach
<1>4. /\ Rows' = Rows
      /\ \A j \in Rows :
            /\ entities'[j] \in Entity /\ entities'[j].gone = entities[j].gone
            /\ j \notin {o, n} => entities'[j] = entities[j]
            /\ j = o => ~entities'[j].retired /\ entities'[j].superseded_by = None
            /\ j = n /\ n # o => entities'[j].retired
            /\ j # o => entities'[j].superseded_by = entities[j].superseded_by
            /\ ~entities[j].retired => j = n \/ ~entities'[j].retired
            /\ entities[j].retired => j = o \/ entities'[j].retired
  BY DetachFacts DEF IInv
<1>5. \A j \in Rows : entities'[j] \in Entity
  BY <1>4
<1> HIDE DEF o, n
<1>6. entities' \in Seq(Entity) /\ Len(entities') = Len(entities)
  <2>1. Len(entities) \in Nat /\ Rows = 1..Len(entities) /\ DOMAIN entities' = Rows
    BY <1>4, RowFacts DEF IInv, Rows
  <2>2. entities' \in [1..Len(entities) -> Entity]
    BY <1>3, <1>5, <2>1
  <2> QED  BY <2>1, <2>2
<1>7. TypeOK'
  BY <1>1, <1>2, <1>3, <1>6 DEF IInv, TypeOK
<1>8. Stamped'
  BY <1>4, <1>5 DEF IInv, Stamped
<1>9. IndexCurrent'
  <2>1. \A j : /\ Exists(j)' <=> Exists(j)
               /\ j \notin {o, n} => (Active(j)' <=> Active(j))
               /\ j = o => (Active(j)' <=> Exists(j))
               /\ j = n /\ n # o => ~Active(j)'
    BY <1>4, <1>5 DEF Active, Exists
  <2>2. Active(o) => Exists(o)
    BY DEF Active
  <2> QED  BY <1>3, <2>1, <2>2 DEF IInv, IndexCurrent
<1> QED  BY <1>2, <1>7, <1>8, <1>9 DEF IInv

LEMMA DeleteStep ==
    ASSUME IInv, NEW t \in Threads, NEW i \in Rows, Delete(t, i)
    PROVE  IInv'
<1> DEFINE e == [entities[i] EXCEPT !.gone = TRUE]
<1>1. /\ i \in 1..Len(entities) /\ Rows = 1..Len(entities) /\ entities \in Seq(Entity)
      /\ entities[i] \in Entity
  BY RowFacts DEF IInv, TypeOK
<1>2. e \in Entity /\ e.gone /\ e.retired = entities[i].retired
      /\ e.superseded_by = entities[i].superseded_by
  BY <1>1 DEF Entity
<1>3. entities' = [entities EXCEPT ![i] = e]
  BY DEF Delete
<1> HIDE DEF e
<1>4. /\ entities' \in Seq(Entity) /\ Len(entities') = Len(entities)
      /\ \A j \in Rows : entities'[j] = IF j = i THEN e ELSE entities[j]
      /\ Rows' = Rows
  BY <1>1, <1>2, <1>3, ExceptSeq DEF Rows
<1>5. TypeOK'
  <2>1. calls' \in 0..MaxCalls
    BY MemoryGraphAssumption DEF IInv, TypeOK, Delete
  <2> QED  BY <1>4, <2>1 DEF IInv, TypeOK, Delete, thread, history
<1>6. \A j : Active(j)' <=> Active(j) /\ j # i
  BY <1>2, <1>4 DEF Active, Exists
<1>7. Stamped' /\ IndexCurrent'
  BY <1>2, <1>4, <1>6 DEF IInv, Stamped, IndexCurrent, Delete, history
<1>8. Working'
  BY DEF IInv, Working, Delete, thread
<1> QED  BY <1>5, <1>7, <1>8 DEF IInv

-----------------------------------------------------------------------------
(* The theorems                                                              *)

LEMMA InitIInv == Init => IInv
<1> SUFFICES ASSUME Init PROVE IInv
  OBVIOUS
<1>1. /\ <<>> \in Seq(Entity) /\ Len(<<>>) = 0 /\ DOMAIN <<>> = {}
      /\ <<>> \in Seq(Call) /\ <<>> \in Seq(Ids)
  BY EmptySeq
<1>2. TypeOK
  BY <1>1, MemoryGraphAssumption DEF Init, TypeOK, Ids
<1>3. Working /\ Stamped
  BY <1>1 DEF Init, Working, Stamped, Rows
<1>4. IndexCurrent
  BY <1>1 DEF Init, IndexCurrent, Active, Exists, Rows
<1> QED  BY <1>2, <1>3, <1>4 DEF IInv

LEMMA NextIInv == IInv /\ [Next]_vars => IInv'
<1> SUFFICES ASSUME IInv, [Next]_vars PROVE IInv'
  OBVIOUS
<1>1. ASSUME NEW t \in Threads, NEW n \in Names,
             \/ Remember(t, n) \/ Create(t, n) \/ \E m \in Names : Relate(t, m, n)
             \/ \E i \in Rows : Correct(t, i, n)
      PROVE  IInv'
  BY <1>1, RequestsStep
<1>2. ASSUME NEW t \in Threads, NEW i \in Rows,
             Delete(t, i) \/ \E j \in Rows : TakeBack(t, i, j)
      PROVE  IInv'
  BY <1>2, DeleteStep, TakeBackStep
<1>3. ASSUME NEW t \in Threads,
             \/ LookUp(t) \/ FindEntity(t) \/ UpdateEntity(t) \/ InsertEntity(t) \/ Link(t)
             \/ FindCurrent(t) \/ Supersede(t) \/ FindChain(t) \/ Detach(t)
      PROVE  IInv'
  BY <1>3, LookUpStep, FindStep, UpdateStep, InsertStep, LinkStep, SupersedeStep, DetachStep
<1>4. CASE UNCHANGED vars
  <2>1. Stamped' /\ IndexCurrent'
    BY <1>4, TablesKept DEF vars, Tables
  <2> QED  BY <1>4, <2>1 DEF IInv, TypeOK, Working, vars, thread, history
<1>5. \A pair \in Pairs : pair[1] \in Names /\ pair[2] \in Names
  BY MemoryGraphAssumption
<1> QED  BY <1>1, <1>2, <1>3, <1>4, <1>5 DEF Next

LEMMA Invariance == Spec => []IInv
BY InitIInv, NextIInv, PTL DEF Spec

\* The variables have their types: whatever two workers write between each other's
\* reading and writing, a row is numbered by its place, and the relationships and
\* the index name numbers of rows (class SQLiteGraphStore).
THEOREM TypeCorrect == Spec => []TypeOK
BY Invariance, PTL DEF IInv

\* The index holds the active entities, but for those that a detachment made active
\* again, and holds no other entity, but for one that another worker retired between
\* the reading and the writing of the call that added to it.
THEOREM IndexFollows == Spec => []IndexCurrent
BY Invariance, PTL DEF IInv

\* What the model is shown is current: no entity that was superseded or retired is
\* recalled, though relationships lead to it, and every current one that is named is.
THEOREM RecallsCurrent == Spec => []RecallCurrent
<1>1. IInv => RecallCurrent
  <2> SUFFICES ASSUME IInv, NEW n \in Names
               PROVE  /\ Named(n) \subseteq Recalled(n)
                      /\ \A i \in Recalled(n) : Active(i)
    BY DEF RecallCurrent
  <2>1. \A i \in Named(n) : Active(i)
    BY DEF IInv, Stamped, Named, Active
  <2> DEFINE is == {i \in Named(n) \cup Search(n) \cup Named(User) : Active(i)}
             near == is \cup Neighbours(is)
  <2>2. Recalled(n) = near \cup Neighbours(near)
    BY DEF Recalled, Subgraph
  <2>3. Named(n) \subseteq is /\ \A i \in is : Active(i)
    BY <2>1
  <2> HIDE DEF is
  <2>4. \A i \in Neighbours(is) : Active(i)
    BY DEF Neighbours
  <2>5. \A i \in Neighbours(near) : Active(i)
    BY DEF Neighbours
  <2> QED  BY <2>2, <2>3, <2>4, <2>5
<1> QED  BY <1>1, Invariance, PTL

-----------------------------------------------------------------------------
(* Following the versions of a fact                                          *)

\* The first of the positions at which something is so.
LEMMA FirstPosition ==
    ASSUME NEW J \in SUBSET Nat, J # {}
    PROVE  \E j \in J : \A l \in J : ~(l < j)
<1> DEFINE Less == {ss \in Nat \X Nat : ss[1] < ss[2]}
<1>1. IsWellFoundedOn(Less, Nat)
  BY NatLessThanWellFounded, Zenon DEF OpToRel
<1>2. PICK j \in J : \A l \in J : <<l, j>> \notin Less
  <2> HIDE DEF Less
  <2> QED  BY <1>1, WFMin
<1>3. ASSUME NEW l \in J, l < j  PROVE <<l, j>> \in Less
  BY <1>3
<1> HIDE DEF Less
<1> QED  BY <1>2, <1>3

\* What is reached from x when every step leads from z to next[z], until it stops.
Closed(C, stop, next) == \A z \in C \ stop : next[z] \in C
Reached(D, stop, next, x) ==
    {y \in D \ stop : \A C \in SUBSET D : x \in C /\ Closed(C, stop, next) => y \in C}

LEMMA ReachedFacts ==
    ASSUME NEW D, NEW stop, NEW next \in [D -> D], NEW x \in D
    PROVE  Reached(D, stop, next, x) =
               IF x \in stop THEN {} ELSE {x} \cup Reached(D, stop, next, next[x])
<1>1. CASE x \in stop
  <2>1. {x} \in SUBSET D /\ Closed({x}, stop, next)
    BY <1>1 DEF Closed
  <2> QED  BY <1>1, <2>1 DEF Reached
<1>2. CASE x \notin stop
  <2>1. x \in Reached(D, stop, next, x)
    BY <1>2 DEF Reached
  <2>2. Reached(D, stop, next, next[x]) \subseteq Reached(D, stop, next, x)
    BY <1>2 DEF Reached, Closed
  <2>3. ASSUME NEW y \in Reached(D, stop, next, x), y # x,
               NEW C \in SUBSET D, next[x] \in C, Closed(C, stop, next)
        PROVE  y \in C
    <3> DEFINE B == C \cup {x}
    <3>1. B \in SUBSET D /\ x \in B /\ Closed(B, stop, next)
      BY <2>3 DEF Closed
    <3>2. y \in B
      BY <3>1 DEF Reached
    <3> QED  BY <2>3, <3>2
  <2>4. \A y \in Reached(D, stop, next, x) : y = x \/ y \in Reached(D, stop, next, next[x])
    BY <2>3 DEF Reached
  <2> QED  BY <1>2, <2>1, <2>2, <2>4
<1> QED  BY <1>1, <1>2

\* f holds, for every x, what is reached when the steps are followed from there.
Follows(f, D, stop, next) ==
    f = [x \in D |-> IF x \in stop THEN {} ELSE {x} \cup f[next[x]]]

\* A recursive definition that follows the steps has a solution.
LEMMA Followed ==
    ASSUME NEW D, NEW stop, NEW next \in [D -> D]
    PROVE  \E f : Follows(f, D, stop, next)
<1> DEFINE f == [x \in D |-> Reached(D, stop, next, x)]
           g == [x \in D |-> IF x \in stop THEN {} ELSE {x} \cup f[next[x]]]
<1>1. \A x \in D : f[x] = Reached(D, stop, next, x)
  OBVIOUS
<1>2. ASSUME NEW x \in D
      PROVE  f[x] = IF x \in stop THEN {} ELSE {x} \cup f[next[x]]
  <2>1. f[x] = Reached(D, stop, next, x) /\ f[next[x]] = Reached(D, stop, next, next[x])
    BY <1>1
  <2>2. Reached(D, stop, next, x) =
            IF x \in stop THEN {} ELSE {x} \cup Reached(D, stop, next, next[x])
    BY ReachedFacts
  <2> HIDE DEF f
  <2> QED  BY <2>1, <2>2
<1>3. f = [x \in D |-> f[x]]
  OBVIOUS
<1> HIDE DEF f
<1>4. f = g
  BY <1>2, <1>3
<1> QED  BY <1>4 DEF Follows

\* The definitions of the module, for any table of rows.
ExistsIn(es, i) == i \in DOMAIN es /\ ~es[i].gone
ActiveIn(es, i) == ExistsIn(es, i) /\ ~es[i].retired /\ es[i].superseded_by = None

FirstIn(es, i) ==
    LET first[j \in DOMAIN es] ==
            IF es[j].supersedes = None THEN j ELSE first[es[j].supersedes]
    IN first[i]

OlderIn(es, i) ==
    LET older[j \in DOMAIN es \cup {None}] ==
            IF j = None \/ ~ExistsIn(es, j) THEN {} ELSE {j} \cup older[es[j].supersedes]
    IN older[i]

NewerIn(es, i) ==
    LET newer[j \in DOMAIN es \cup {None}] ==
            IF j = None \/ ~ExistsIn(es, j) THEN {} ELSE {j} \cup newer[es[j].superseded_by]
    IN newer[i]

LEMMA TableFacts ==
    /\ \A i : Active(i) = ActiveIn(entities, i)
    /\ \A i : Exists(i) = ExistsIn(entities, i)
    /\ \A i : First(i) = FirstIn(entities, i)
    /\ \A i : History(i) = OlderIn(entities, i) \cup NewerIn(entities, i)
BY DEF Active, Exists, First, History, Rows, ActiveIn, ExistsIn, FirstIn, OlderIn, NewerIn

\* A version supersedes one with a lower number, or none.
Numbered(es) == \E m \in Nat : DOMAIN es = 1..m
Below(es) == \A i \in DOMAIN es : es[i].supersedes \in 0..(i - 1)

\* What superseded a version supersedes it.
Mutual(es) ==
    \A i \in DOMAIN es : es[i].superseded_by # None =>
        /\ es[i].superseded_by \in DOMAIN es
        /\ es[es[i].superseded_by].supersedes = i

LEMMA BelowFacts ==
    ASSUME NEW es, Numbered(es), Below(es)
    PROVE  /\ DOMAIN es \in SUBSET Nat /\ None \notin DOMAIN es
           /\ \A i \in DOMAIN es : es[i].supersedes # None =>
                 es[i].supersedes \in DOMAIN es /\ es[i].supersedes < i
BY DEF Numbered, Below, None

LEMMA OlderFacts ==
    ASSUME NEW es, Numbered(es), Below(es)
    PROVE  /\ OlderIn(es, None) = {}
           /\ \A i \in DOMAIN es : OlderIn(es, i) =
                 IF ~ExistsIn(es, i) THEN {} ELSE {i} \cup OlderIn(es, es[i].supersedes)
<1> DEFINE D == DOMAIN es \cup {None}
           stop == {j \in D : j = None \/ ~ExistsIn(es, j)}
           next == [j \in D |-> IF j = None THEN None ELSE es[j].supersedes]
           Recursion(f) == [j \in D |-> IF j = None \/ ~ExistsIn(es, j) THEN {}
                                        ELSE {j} \cup f[es[j].supersedes]]
           older == CHOOSE f : f = Recursion(f)
<1>1. next \in [D -> D]
  BY BelowFacts
<1>2. PICK f : Follows(f, D, stop, next)
  <2> HIDE DEF D, stop, next
  <2> QED  BY <1>1, Followed
<1>3. f = Recursion(f)
  BY <1>2 DEF Follows
<1>4. older = Recursion(older)
  <2> HIDE DEF Recursion
  <2> QED  BY <1>3
<1>5. \A i : OlderIn(es, i) = older[i]
  BY DEF OlderIn
<1> HIDE DEF older
<1>6. \A j \in D : older[j] = IF j = None \/ ~ExistsIn(es, j) THEN {}
                              ELSE {j} \cup older[es[j].supersedes]
  BY <1>4
<1> QED  BY <1>5, <1>6, BelowFacts

LEMMA NewerFacts ==
    ASSUME NEW es, Numbered(es), Mutual(es)
    PROVE  /\ NewerIn(es, None) = {}
           /\ \A i \in DOMAIN es : NewerIn(es, i) =
                 IF ~ExistsIn(es, i) THEN {} ELSE {i} \cup NewerIn(es, es[i].superseded_by)
<1> DEFINE D == DOMAIN es \cup {None}
           stop == {j \in D : j = None \/ ~ExistsIn(es, j)}
           next == [j \in D |-> IF j = None THEN None ELSE es[j].superseded_by]
           Recursion(f) == [j \in D |-> IF j = None \/ ~ExistsIn(es, j) THEN {}
                                        ELSE {j} \cup f[es[j].superseded_by]]
           newer == CHOOSE f : f = Recursion(f)
<1>1. None \notin DOMAIN es
  BY DEF Numbered, None
<1>2. next \in [D -> D]
  BY DEF Mutual
<1>3. PICK f : Follows(f, D, stop, next)
  <2> HIDE DEF D, stop, next
  <2> QED  BY <1>2, Followed
<1>4. f = Recursion(f)
  BY <1>3 DEF Follows
<1>5. newer = Recursion(newer)
  <2> HIDE DEF Recursion
  <2> QED  BY <1>4
<1>6. \A i : NewerIn(es, i) = newer[i]
  BY DEF NewerIn
<1> HIDE DEF newer
<1>7. \A j \in D : newer[j] = IF j = None \/ ~ExistsIn(es, j) THEN {}
                              ELSE {j} \cup newer[es[j].superseded_by]
  BY <1>5
<1> QED  BY <1>1, <1>6, <1>7

\* Every version has the first version of what it supersedes.
LEMMA FirstFacts ==
    ASSUME NEW es, Numbered(es), Below(es)
    PROVE  \A i \in DOMAIN es :
               FirstIn(es, i) = IF es[i].supersedes = None THEN i
                                ELSE FirstIn(es, es[i].supersedes)
<1> DEFINE D == DOMAIN es \cup {None}
           stop == {None}
           next == [j \in D |-> IF j = None THEN None ELSE es[j].supersedes]
           roots(j) == {r \in Reached(D, stop, next, j) : es[r].supersedes = None}
           f == [j \in DOMAIN es |-> CHOOSE r : r \in roots(j)]
           Recursion(g) == [j \in DOMAIN es |-> IF es[j].supersedes = None THEN j
                                                ELSE g[es[j].supersedes]]
           first == CHOOSE g : g = Recursion(g)
<1>1. next \in [D -> D]
  BY BelowFacts
<1>2. \A j \in DOMAIN es : j \in D /\ j \notin stop /\ next[j] = es[j].supersedes
  BY BelowFacts
<1> HIDE DEF next, D
<1>3. Reached(D, stop, next, None) = {}
  BY DEF Reached, Closed, D
<1> HIDE DEF stop
<1>4. \A j \in DOMAIN es :
          Reached(D, stop, next, j) = {j} \cup Reached(D, stop, next, es[j].supersedes)
  BY <1>1, <1>2, ReachedFacts
<1>5. ASSUME NEW j \in DOMAIN es
      PROVE  f[j] = IF es[j].supersedes = None THEN j ELSE f[es[j].supersedes]
  <2>1. CASE es[j].supersedes = None
    <3>1. roots(j) = {j}
      BY <1>3, <1>4, <2>1
    <3> QED  BY <2>1, <3>1
  <2>2. CASE es[j].supersedes # None
    <3>1. roots(j) = roots(es[j].supersedes)
      BY <1>4, <2>2
    <3>2. es[j].supersedes \in DOMAIN es
      BY <2>2, BelowFacts
    <3> HIDE DEF roots
    <3> QED  BY <2>2, <3>1, <3>2
  <2> QED  BY <2>1, <2>2
<1>6. f = [j \in DOMAIN es |-> f[j]]
  OBVIOUS
<1> HIDE DEF f
<1>7. f = Recursion(f)
  BY <1>5, <1>6
<1>8. first = Recursion(first)
  <2> HIDE DEF Recursion
  <2> QED  BY <1>7
<1>9. \A i : FirstIn(es, i) = first[i]
  BY DEF FirstIn
<1> HIDE DEF first
<1> QED  BY <1>8, <1>9, BelowFacts

-----------------------------------------------------------------------------
(* The versions of a fact                                                    *)

LEMMA FirstIsRow ==
    ASSUME NEW es, Numbered(es), Below(es)
    PROVE  \A i \in DOMAIN es : FirstIn(es, i) \in DOMAIN es
<1> DEFINE J == {i \in DOMAIN es : FirstIn(es, i) \notin DOMAIN es}
<1> SUFFICES ASSUME J # {}  PROVE FALSE
  OBVIOUS
<1>1. J \in SUBSET Nat
  BY BelowFacts
<1>2. PICK j \in J : \A l \in J : ~(l < j)
  <2> HIDE DEF J
  <2> QED  BY <1>1, FirstPosition
<1>3. es[j].supersedes # None => es[j].supersedes \in DOMAIN es /\ es[j].supersedes \notin J
  BY <1>2, BelowFacts
<1> QED  BY <1>2, <1>3, FirstFacts

\* A table that keeps what the versions supersede keeps the first versions.
LEMMA FirstKept ==
    ASSUME NEW es, Numbered(es), Below(es), NEW fs, Numbered(fs), Below(fs),
           DOMAIN es \subseteq DOMAIN fs,
           \A i \in DOMAIN es : fs[i].supersedes = es[i].supersedes
    PROVE  \A i \in DOMAIN es : FirstIn(fs, i) = FirstIn(es, i)
<1> DEFINE J == {i \in DOMAIN es : FirstIn(fs, i) # FirstIn(es, i)}
<1> SUFFICES ASSUME J # {}  PROVE FALSE
  OBVIOUS
<1>1. J \in SUBSET Nat
  BY BelowFacts
<1>2. PICK j \in J : \A l \in J : ~(l < j)
  <2> HIDE DEF J
  <2> QED  BY <1>1, FirstPosition
<1>3. es[j].supersedes # None => es[j].supersedes \in DOMAIN es /\ es[j].supersedes \notin J
  BY <1>2, BelowFacts
<1>4. FirstIn(es, j) = IF es[j].supersedes = None THEN j ELSE FirstIn(es, es[j].supersedes)
  BY <1>2, FirstFacts
<1>5. FirstIn(fs, j) = IF fs[j].supersedes = None THEN j ELSE FirstIn(fs, fs[j].supersedes)
  BY <1>2, FirstFacts
<1> QED  BY <1>2, <1>3, <1>4, <1>5

\* No version of the fact of version i has been split.
Whole(es, sp, i) == \A s \in sp : FirstIn(es, s) # FirstIn(es, i)

OneActive(es, sp) ==
    \A i, j \in DOMAIN es :
        /\ FirstIn(es, i) = FirstIn(es, j) /\ Whole(es, sp, i)
        /\ ActiveIn(es, i) /\ ActiveIn(es, j)
        => i = j

\* A version that is current, or that was superseded, is what its predecessor says it
\* was superseded by: only those whose correction was taken back are left aside.
Live(es, i) == ActiveIn(es, i) \/ es[i].superseded_by # None

Chained(es, sp) ==
    \A i \in DOMAIN es :
        Whole(es, sp, i) /\ Live(es, i) /\ es[i].supersedes # None =>
            es[es[i].supersedes].superseded_by = i

Versions(es, sp) ==
    /\ Numbered(es) /\ Below(es) /\ Mutual(es) /\ sp \subseteq DOMAIN es
    /\ OneActive(es, sp) /\ Chained(es, sp)

\* A step that keeps the first versions, and splits no fewer.
LEMMA WholeBefore ==
    ASSUME NEW es, NEW fs, NEW sp, NEW sq, sp \subseteq DOMAIN es, sp \subseteq sq,
           \A i \in DOMAIN es : FirstIn(fs, i) = FirstIn(es, i)
    PROVE  \A i \in DOMAIN es : Whole(fs, sq, i) => Whole(es, sp, i)
BY DEF Whole

LEMMA DeletedVersions ==
    ASSUME NEW es, NEW sp, Versions(es, sp), NEW fs, DOMAIN fs = DOMAIN es,
           \A i \in DOMAIN es : /\ fs[i].supersedes = es[i].supersedes
                                /\ fs[i].superseded_by = es[i].superseded_by
                                /\ ActiveIn(fs, i) => ActiveIn(es, i)
    PROVE  Versions(fs, sp)
<1>1. Numbered(fs) /\ Below(fs) /\ Mutual(fs) /\ sp \subseteq DOMAIN fs
  BY DEF Versions, Numbered, Below, Mutual
<1>2. \A i \in DOMAIN es : FirstIn(fs, i) = FirstIn(es, i)
  BY <1>1, FirstKept DEF Versions
<1>3. \A i \in DOMAIN es : Whole(fs, sp, i) => Whole(es, sp, i)
  BY <1>2, WholeBefore DEF Versions
<1>4. OneActive(fs, sp)
  BY <1>2, <1>3 DEF Versions, OneActive
<1>5. Chained(fs, sp)
  <2>1. \A i \in DOMAIN es : Live(fs, i) => Live(es, i)
    BY DEF Live
  <2>2. \A i \in DOMAIN es : es[i].supersedes # None => es[i].supersedes \in DOMAIN es
    BY BelowFacts DEF Versions
  <2> QED  BY <1>3, <2>1, <2>2 DEF Versions, Chained
<1> QED  BY <1>1, <1>4, <1>5 DEF Versions

LEMMA InsertedVersions ==
    ASSUME NEW es, NEW sp, Versions(es, sp), NEW k \in Nat, DOMAIN es = 1..k,
           NEW fs, DOMAIN fs = 1..(k + 1), \A i \in 1..k : fs[i] = es[i],
           fs[k + 1].supersedes = None, fs[k + 1].superseded_by = None
    PROVE  Versions(fs, sp)
<1> DEFINE new == k + 1
<1>1. DOMAIN fs = DOMAIN es \cup {new} /\ new \notin DOMAIN es /\ new \in Nat \ {0}
  OBVIOUS
<1>2. fs[new].supersedes = None /\ fs[new].superseded_by = None
  OBVIOUS
<1> HIDE DEF new
<1>3. Numbered(fs) /\ Below(fs) /\ Mutual(fs) /\ sp \subseteq DOMAIN fs
  <2>1. Numbered(fs)
    BY DEF Numbered
  <2>2. Below(fs)
    BY <1>1, <1>2 DEF Versions, Below, None
  <2>3. Mutual(fs)
    BY <1>1, <1>2 DEF Versions, Mutual
  <2> QED  BY <1>1, <2>1, <2>2, <2>3 DEF Versions
<1>4. \A i \in DOMAIN es : FirstIn(fs, i) = FirstIn(es, i)
  BY <1>1, <1>3, FirstKept DEF Versions
<1>5. \A i \in DOMAIN es : Whole(fs, sp, i) => Whole(es, sp, i)
  BY <1>4, WholeBefore DEF Versions
<1>6. \A i \in DOMAIN es : /\ ActiveIn(fs, i) <=> ActiveIn(es, i)
                           /\ Live(fs, i) <=> Live(es, i)
  BY <1>1 DEF ActiveIn, ExistsIn, Live
<1>7. FirstIn(fs, new) = new /\ \A i \in DOMAIN es : FirstIn(fs, i) # new
  BY <1>1, <1>2, <1>3, <1>4, FirstFacts, FirstIsRow DEF Versions
<1>8. OneActive(fs, sp)
  BY <1>1, <1>4, <1>5, <1>6, <1>7 DEF Versions, OneActive
<1>9. Chained(fs, sp)
  <2>1. \A i \in DOMAIN es : es[i].supersedes # None => es[i].supersedes \in DOMAIN es
    BY BelowFacts DEF Versions
  <2> QED  BY <1>1, <1>2, <1>5, <1>6, <2>1 DEF Versions, Chained
<1> QED  BY <1>3, <1>8, <1>9 DEF Versions

LEMMA SupersededVersions ==
    ASSUME NEW es, NEW sp, Versions(es, sp), NEW k \in Nat, DOMAIN es = 1..k,
           NEW old \in 1..k, NEW fs, DOMAIN fs = 1..(k + 1),
           \A i \in 1..k : i # old \/ ~ExistsIn(es, old) => fs[i] = es[i],
           fs[old].supersedes = es[old].supersedes,
           ExistsIn(es, old) => fs[old].retired /\ fs[old].superseded_by = k + 1,
           fs[k + 1].supersedes = old, fs[k + 1].superseded_by = None,
           NEW sq, sq = IF ActiveIn(es, old) THEN sp ELSE sp \cup {old}
    PROVE  Versions(fs, sq)
<1> DEFINE new == k + 1
<1>1. /\ DOMAIN fs = DOMAIN es \cup {new} /\ new \notin DOMAIN es /\ new \in Nat \ {0}
      /\ old \in DOMAIN es /\ old \in 0..(new - 1) /\ old # None
  BY DEF None
<1>2. /\ fs[new].supersedes = old /\ fs[new].superseded_by = None
      /\ ExistsIn(es, old) => fs[old].retired /\ fs[old].superseded_by = new
      /\ \A i \in DOMAIN es : fs[i].supersedes = es[i].supersedes
      /\ \A i \in DOMAIN es : i # old \/ ~ExistsIn(es, old) => fs[i] = es[i]
  OBVIOUS
<1>3. Numbered(fs)
  BY DEF Numbered
<1> HIDE DEF new
<1>4. Below(fs)
  BY <1>1, <1>2 DEF Versions, Below
<1>5. Mutual(fs)
  <2>1. ASSUME NEW i \in DOMAIN fs, fs[i].superseded_by # None
        PROVE  fs[i].superseded_by \in DOMAIN fs /\ fs[fs[i].superseded_by].supersedes = i
    <3>1. i \in DOMAIN es
      BY <1>1, <1>2, <2>1
    <3>2. CASE i = old /\ ExistsIn(es, old)
      BY <1>1, <1>2, <3>2
    <3>3. CASE ~(i = old /\ ExistsIn(es, old))
      <4>1. fs[i] = es[i]
        BY <1>2, <3>1, <3>3
      <4>2. es[i].superseded_by \in DOMAIN es /\ es[es[i].superseded_by].supersedes = i
        BY <2>1, <3>1, <4>1 DEF Versions, Mutual
      <4> QED  BY <1>1, <1>2, <4>1, <4>2
    <3> QED  BY <3>2, <3>3
  <2> QED  BY <2>1 DEF Mutual
<1>6. \A i \in DOMAIN es : FirstIn(fs, i) = FirstIn(es, i)
  BY <1>1, <1>2, <1>3, <1>4, FirstKept DEF Versions
<1>7. sp \subseteq sq /\ sq \subseteq DOMAIN fs
  BY <1>1 DEF Versions
<1>8. \A i \in DOMAIN es : Whole(fs, sq, i) => Whole(es, sp, i)
  BY <1>6, <1>7, WholeBefore DEF Versions
<1>9. FirstIn(fs, new) = FirstIn(es, old)
  BY <1>1, <1>2, <1>3, <1>4, <1>6, FirstFacts
<1>10. \A i \in DOMAIN es : /\ ActiveIn(fs, i) => ActiveIn(es, i)
                            /\ ActiveIn(fs, old) => FALSE
  BY <1>1, <1>2 DEF ActiveIn, ExistsIn, None
<1>11. \A i \in DOMAIN fs : FirstIn(fs, i) = FirstIn(es, old) /\ Whole(fs, sq, i) => ActiveIn(es, old)
  BY <1>1, <1>6 DEF Whole
<1>12. OneActive(fs, sq)
  <2>1. ASSUME NEW i \in DOMAIN es, FirstIn(fs, i) = FirstIn(es, old), Whole(fs, sq, i),
               ActiveIn(fs, i)
        PROVE  FALSE
    <3>1. ActiveIn(es, old) /\ ActiveIn(es, i) /\ Whole(es, sp, i)
      BY <1>1, <1>8, <1>10, <1>11, <2>1
    <3>2. i = old
      BY <1>1, <1>6, <2>1, <3>1 DEF Versions, OneActive
    <3> QED  BY <1>1, <1>10, <2>1, <3>2
  <2>2. ASSUME NEW i \in DOMAIN fs, NEW j \in DOMAIN fs, FirstIn(fs, i) = FirstIn(fs, j),
               Whole(fs, sq, i), ActiveIn(fs, i), ActiveIn(fs, j)
        PROVE  i = j
    <3>1. Whole(fs, sq, j)
      BY <2>2 DEF Whole
    <3>2. CASE i = new \/ j = new
      BY <1>1, <1>9, <2>1, <2>2, <3>1, <3>2
    <3>3. CASE i # new /\ j # new
      <4>1. i \in DOMAIN es /\ j \in DOMAIN es
        BY <1>1, <3>3
      <4>2. FirstIn(es, i) = FirstIn(es, j) /\ Whole(es, sp, i)
        BY <1>6, <1>8, <2>2, <4>1
      <4>3. ActiveIn(es, i) /\ ActiveIn(es, j)
        BY <1>10, <2>2, <4>1
      <4> QED  BY <4>1, <4>2, <4>3 DEF Versions, OneActive
    <3> QED  BY <3>2, <3>3
  <2> QED  BY <2>2 DEF OneActive
<1>13. Chained(fs, sq)
  <2>1. ASSUME NEW i \in DOMAIN fs, Whole(fs, sq, i), Live(fs, i), fs[i].supersedes # None
        PROVE  fs[fs[i].supersedes].superseded_by = i
    <3>1. CASE i = new
      <4>1. ActiveIn(es, old)
        BY <1>9, <1>11, <2>1, <3>1
      <4> QED  BY <1>2, <3>1, <4>1 DEF ActiveIn
    <3>2. CASE i # new
      <4> DEFINE p == es[i].supersedes
      <4>1. i \in DOMAIN es /\ fs[i].supersedes = p /\ p # None
        BY <1>1, <1>2, <2>1, <3>2
      <4>2. p \in DOMAIN es /\ FirstIn(es, i) = FirstIn(es, p)
        BY <4>1, BelowFacts, FirstFacts DEF Versions
      <4>3. Whole(es, sp, i)
        BY <1>8, <2>1, <4>1
      <4>4. i = old => ActiveIn(es, old)
        BY <1>6, <1>11, <2>1, <4>1
      <4>5. Live(es, i)
        <5>1. CASE i = old
          BY <4>4, <5>1 DEF Live
        <5>2. CASE i # old
          <6>1. fs[i] = es[i]
            BY <1>2, <4>1, <5>2
          <6> QED  BY <1>10, <2>1, <4>1, <6>1 DEF Live
        <5> QED  BY <5>1, <5>2
      <4>6. es[p].superseded_by = i
        BY <4>1, <4>3, <4>5 DEF Versions, Chained
      <4>7. p # old
        <5>1. p = old => ActiveIn(es, old)
          BY <1>6, <1>11, <2>1, <4>1, <4>2
        <5>2. i # None
          BY <4>1, BelowFacts DEF Versions
        <5> QED  BY <4>6, <5>1, <5>2 DEF ActiveIn
      <4> HIDE DEF p
      <4> QED  BY <1>2, <4>1, <4>2, <4>6, <4>7
    <3> QED  BY <3>1, <3>2
  <2> QED  BY <2>1 DEF Chained
<1> QED  BY <1>3, <1>4, <1>5, <1>7, <1>12, <1>13 DEF Versions

LEMMA DetachedVersions ==
    ASSUME NEW es, NEW sp, Versions(es, sp), NEW o \in DOMAIN es, NEW n \in DOMAIN es,
           es[n].supersedes = o, NEW fs, DOMAIN fs = DOMAIN es,
           \A i \in DOMAIN es : /\ fs[i].supersedes = es[i].supersedes
                                /\ i # o => fs[i].superseded_by = es[i].superseded_by
                                /\ i \notin {o, n} => fs[i] = es[i],
           fs[o].superseded_by = None, fs[n].retired,
           NEW sq, sq = IF ActiveIn(es, n) THEN sp ELSE sp \cup {o}
    PROVE  Versions(fs, sq)
<1>1. sp \subseteq sq /\ sq \subseteq DOMAIN fs
  BY DEF Versions
<1>2. \A i \in DOMAIN es : Whole(fs, sq, i) => o \notin sq \/ FirstIn(fs, i) # FirstIn(fs, o)
  BY DEF Whole
<1>3. o \notin sq => ActiveIn(es, n)
  OBVIOUS
<1>4. o # n /\ o # None /\ n # None /\ \A i \in DOMAIN es : es[i].supersedes # i
  BY BelowFacts DEF Versions
<1>5. Numbered(fs) /\ Below(fs)
  BY DEF Versions, Numbered, Below
<1>6. Mutual(fs)
  BY <1>4 DEF Versions, Mutual
<1>7. \A i \in DOMAIN es : FirstIn(fs, i) = FirstIn(es, i)
  BY <1>5, FirstKept DEF Versions
<1>8. \A i \in DOMAIN es : Whole(fs, sq, i) => Whole(es, sp, i)
  BY <1>1, <1>7, WholeBefore DEF Versions
<1>9. FirstIn(es, n) = FirstIn(es, o)
  BY <1>4, FirstFacts DEF Versions
<1>10. ASSUME NEW i \in DOMAIN es, FirstIn(es, i) = FirstIn(es, o), Whole(fs, sq, i)
       PROVE  ActiveIn(es, n) /\ es[o].superseded_by = n
  <2>1. ActiveIn(es, n)
    BY <1>2, <1>3, <1>7, <1>10
  <2>2. Whole(es, sp, n)
    BY <1>8, <1>9, <1>10 DEF Whole
  <2> QED  BY <1>4, <2>1, <2>2 DEF Versions, Chained, Live
<1>11. ~ActiveIn(fs, n)
  BY DEF ActiveIn
<1>12. \A i \in DOMAIN es \ {o, n} : /\ ActiveIn(fs, i) <=> ActiveIn(es, i)
                                     /\ Live(fs, i) <=> Live(es, i)
  BY DEF ActiveIn, ExistsIn, Live
<1>13. OneActive(fs, sq)
  <2>1. ASSUME NEW i \in DOMAIN es, FirstIn(es, i) = FirstIn(es, o), Whole(fs, sq, i),
               ActiveIn(fs, i)
        PROVE  i = o
    <3>1. ActiveIn(es, n) /\ Whole(es, sp, i)
      BY <1>8, <1>10, <2>1
    <3>2. ASSUME i # o  PROVE FALSE
      <4>1. i # n /\ ActiveIn(es, i)
        BY <1>11, <1>12, <2>1, <3>2
      <4> QED  BY <1>9, <2>1, <3>1, <4>1 DEF Versions, OneActive
    <3> QED  BY <3>2
  <2>2. ASSUME NEW i \in DOMAIN es, NEW j \in DOMAIN es, FirstIn(fs, i) = FirstIn(fs, j),
               Whole(fs, sq, i), ActiveIn(fs, i), ActiveIn(fs, j)
        PROVE  i = j
    <3>1. Whole(fs, sq, j) /\ FirstIn(es, i) = FirstIn(es, j)
      BY <1>7, <2>2 DEF Whole
    <3>2. CASE FirstIn(es, i) = FirstIn(es, o)
      BY <2>1, <2>2, <3>1, <3>2
    <3>3. CASE FirstIn(es, i) # FirstIn(es, o)
      <4>1. i \notin {o, n} /\ j \notin {o, n}
        BY <1>9, <3>1, <3>3
      <4>2. ActiveIn(es, i) /\ ActiveIn(es, j) /\ Whole(es, sp, i)
        BY <1>8, <1>12, <2>2, <4>1
      <4> QED  BY <3>1, <4>2 DEF Versions, OneActive
    <3> QED  BY <3>2, <3>3
  <2> QED  BY <2>2 DEF OneActive
<1>14. Chained(fs, sq)
  <2>1. ASSUME NEW i \in DOMAIN es, Whole(fs, sq, i), Live(fs, i), es[i].supersedes # None
        PROVE  fs[es[i].supersedes].superseded_by = i
    <3> DEFINE p == es[i].supersedes
    <3>1. p \in DOMAIN es /\ FirstIn(es, p) = FirstIn(es, i)
      BY <2>1, BelowFacts, FirstFacts DEF Versions
    <3>2. Whole(es, sp, i)
      BY <1>8, <2>1
    <3>3. i # n
      <4>1. i = n => ActiveIn(es, n)
        BY <1>9, <1>10, <2>1
      <4> QED  BY <1>4, <1>11, <2>1, <4>1 DEF Live, ActiveIn
    <3>4. Live(es, i)
      <4>1. CASE i = o
        BY <1>4, <1>10, <2>1, <4>1 DEF Live
      <4>2. CASE i # o
        BY <1>12, <2>1, <3>3, <4>2
      <4> QED  BY <4>1, <4>2
    <3>5. es[p].superseded_by = i
      BY <2>1, <3>2, <3>4 DEF Versions, Chained
    <3>6. p # o
      <4>1. p = o => es[o].superseded_by = n
        BY <1>10, <2>1, <3>1
      <4> QED  BY <3>3, <3>5, <4>1
    <3> HIDE DEF p
    <3>7. fs[p].superseded_by = i
      BY <3>1, <3>5, <3>6
    <3> QED  BY <3>7 DEF p
  <2> QED  BY <2>1 DEF Chained
<1> QED  BY <1>1, <1>5, <1>6, <1>13, <1>14 DEF Versions

\* From a version that the current one goes back to, the history goes on to it.
LEMMA HistoryShown ==
    ASSUME NEW es, NEW sp, Versions(es, sp), NEW j \in DOMAIN es, ActiveIn(es, j),
           Whole(es, sp, j)
    PROVE  \A i \in OlderIn(es, j) : j \in NewerIn(es, i)
<1> DEFINE OnChain(x) == /\ Live(es, x) /\ FirstIn(es, x) = FirstIn(es, j)
                         /\ j \in NewerIn(es, x)
           J == {x \in DOMAIN es :
                    OnChain(x) /\ \E i \in OlderIn(es, x) : j \notin NewerIn(es, i)}
<1>1. OnChain(j)
  BY NewerFacts DEF Versions, Live, ActiveIn
<1> SUFFICES ASSUME J # {}  PROVE FALSE
  BY <1>1
<1>2. J \in SUBSET Nat
  BY BelowFacts DEF Versions
<1>3. PICK x \in J : \A l \in J : ~(l < x)
  <2> HIDE DEF J
  <2> QED  BY <1>2, FirstPosition
<1>4. PICK i \in OlderIn(es, x) : j \notin NewerIn(es, i)
  BY <1>3
<1> DEFINE p == es[x].supersedes
<1>5. x \in DOMAIN es /\ OnChain(x)
  BY <1>3
<1>6. OlderIn(es, x) = IF ~ExistsIn(es, x) THEN {} ELSE {x} \cup OlderIn(es, p)
  BY <1>5, OlderFacts DEF Versions
<1>7. i \in OlderIn(es, p)
  BY <1>4, <1>5, <1>6
<1>8. p # None /\ p \in DOMAIN es /\ p < x /\ FirstIn(es, p) = FirstIn(es, x)
  <2>1. OlderIn(es, None) = {}
    BY OlderFacts DEF Versions
  <2>2. p # None
    BY <1>7, <2>1
  <2> QED  BY <1>5, <2>2, BelowFacts, FirstFacts DEF Versions
<1>9. ExistsIn(es, p)
  BY <1>7, <1>8, OlderFacts DEF Versions
<1>10. es[p].superseded_by = x
  <2>1. Whole(es, sp, x)
    BY <1>5 DEF Whole
  <2> QED  BY <1>5, <1>8, <2>1 DEF Versions, Chained
<1> HIDE DEF p
<1>11. NewerIn(es, p) = {p} \cup NewerIn(es, x)
  BY <1>8, <1>9, <1>10, NewerFacts DEF Versions
<1>12. OnChain(p)
  <2>1. x # None
    BY <1>5, BelowFacts DEF Versions
  <2> QED  BY <1>5, <1>8, <1>10, <1>11, <2>1 DEF Live
<1> HIDE DEF OnChain
<1>13. p \in J
  BY <1>4, <1>7, <1>8, <1>12
<1> QED  BY <1>3, <1>8, <1>13

LEMMA VersionsOneCurrent == Versions(entities, split) => OneCurrent
<1> SUFFICES ASSUME Versions(entities, split), NEW i \in Rows, NEW j \in Rows,
                    Exists(i), Active(j), First(i) = First(j),
                    \A s \in split : First(i) # First(s)
             PROVE  /\ Active(i) => i = j
                    /\ i \in History(j) => j \in History(i)
  BY DEF OneCurrent
<1>1. /\ i \in DOMAIN entities /\ j \in DOMAIN entities /\ ActiveIn(entities, j)
      /\ FirstIn(entities, i) = FirstIn(entities, j)
      /\ Whole(entities, split, i) /\ Whole(entities, split, j)
  BY TableFacts DEF Rows, Whole
<1>2. Active(i) => i = j
  BY <1>1, TableFacts DEF Versions, OneActive
<1>3. NewerIn(entities, j) = {j}
  BY <1>1, NewerFacts DEF Versions, ActiveIn
<1>4. i \in OlderIn(entities, j) => j \in NewerIn(entities, i)
  BY <1>1, HistoryShown
<1> QED  BY <1>2, <1>3, <1>4, TableFacts

-----------------------------------------------------------------------------
(* The calls that write versions                                             *)

\* What a call has read stays a row, and a detachment's two versions stay versions of
\* one fact, whatever other workers write before it does.
Pending ==
    \A t \in Threads : within[t] =>
        /\ Head(todo[t]).op = "supersede" => found[t] \in Rows
        /\ Head(todo[t]).op = "detach" =>
              /\ Head(todo[t]).old \in Rows /\ Head(todo[t]).new \in Rows
              /\ entities[Head(todo[t]).new].supersedes = Head(todo[t]).old

VInv == Pending /\ Versions(entities, split)

LEMMA PendingKept ==
    ASSUME Pending, NEW t \in Threads, ~within'[t],
           \A u \in Threads \ {t} : /\ todo'[u] = todo[u] /\ found'[u] = found[u]
                                    /\ within'[u] = within[u],
           Rows \subseteq Rows',
           \A i \in Rows : entities'[i].supersedes = entities[i].supersedes
    PROVE  Pending'
BY DEF Pending

LEMMA ReturnsThread ==
    ASSUME TypeOK, NEW t \in Threads, NEW op, NEW i, Returns(t, op, i)
    PROVE  /\ ~within'[t]
           /\ \A u \in Threads \ {t} : /\ todo'[u] = todo[u] /\ found'[u] = found[u]
                                       /\ within'[u] = within[u]
BY DEF TypeOK, Returns

\* A call that neither is between reading and writing nor gets there.
LEMMA QuietVInv ==
    ASSUME IInv, VInv, NEW t \in Threads, ~within'[t],
           \A u \in Threads \ {t} : /\ todo'[u] = todo[u] /\ found'[u] = found[u]
                                    /\ within'[u] = within[u],
           entities' = entities, split' = split
    PROVE  VInv'
<1>1. Rows' = Rows
  BY DEF Rows
<1>2. Pending'
  BY <1>1, PendingKept DEF VInv
<1> QED  BY <1>2 DEF VInv

LEMMA RequestVInv ==
    ASSUME IInv, VInv, NEW t \in Threads, NEW todos, Request(t, todos)
    PROVE  VInv'
<1>1. ~within[t]
  BY DEF IInv, Working, Request
<1>2. /\ within' = within /\ found' = found /\ entities' = entities /\ split' = split
      /\ \A u \in Threads \ {t} : todo'[u] = todo[u]
  BY DEF Request, history, IInv, TypeOK
<1> QED  BY <1>1, <1>2, QuietVInv

LEMMA ReadsVInv ==
    ASSUME IInv, VInv, NEW t \in Threads, NEW op, NEW i, Reads(t, op, i),
           op = "supersede" => i \in Rows,
           op = "detach" => /\ Head(todo[t]).old \in Rows /\ Head(todo[t]).new \in Rows
                            /\ entities[Head(todo[t]).new].supersedes = Head(todo[t]).old
    PROVE  VInv'
<1>1. /\ entities' = entities /\ split' = split /\ todo' = todo /\ Rows' = Rows
      /\ within' = [within EXCEPT ![t] = TRUE] /\ found' = [found EXCEPT ![t] = i]
      /\ Head(todo[t]).op = op
  BY DEF Reads, Calling, history, Rows
<1>2. /\ found'[t] = i
      /\ \A u \in Threads \ {t} : found'[u] = found[u] /\ within'[u] = within[u]
  BY <1>1 DEF IInv, TypeOK
<1>3. Pending'
  BY <1>1, <1>2 DEF VInv, Pending
<1> QED  BY <1>1, <1>3 DEF VInv

LEMMA RaisesVInv ==
    ASSUME IInv, VInv, NEW t \in Threads, NEW op, Raises(t, op)
    PROVE  VInv'
<1>1. ~within[t]
  BY FreeFacts DEF IInv, Raises
<1>2. /\ within' = within /\ found' = found /\ entities' = entities /\ split' = split
      /\ \A u \in Threads \ {t} : todo'[u] = todo[u]
  BY DEF Raises, history, IInv, TypeOK
<1> QED  BY <1>1, <1>2, QuietVInv

LEMMA LookUpLinkVInv ==
    ASSUME IInv, VInv, NEW t \in Threads, LookUp(t) \/ Link(t)
    PROVE  VInv'
<1>1. ~within[t]
  BY FreeFacts DEF IInv, LookUp, Link
<1>2. /\ within' = within /\ found' = found /\ entities' = entities /\ split' = split
  BY DEF LookUp, Link, history
<1>3. \A u \in Threads \ {t} : todo'[u] = todo[u]
  BY DEF LookUp, Link, IInv, TypeOK
<1> QED  BY <1>1, <1>2, <1>3, QuietVInv

LEMMA FindVInv ==
    ASSUME IInv, VInv, NEW t \in Threads, FindEntity(t) \/ FindCurrent(t) \/ FindChain(t)
    PROVE  VInv'
<1>1. CASE FindEntity(t)
  <2>1. PICK i : Reads(t, "add", i)
    BY <1>1 DEF FindEntity
  <2> QED  BY <2>1, ReadsVInv
<1>2. CASE FindCurrent(t)
  <2> DEFINE i == Head(todo[t]).id
  <2>1. CASE Active(i)
    <3>1. i \in Rows
      BY <2>1 DEF Active, Exists
    <3>2. Reads(t, "supersede", i)
      BY <1>2, <2>1 DEF FindCurrent
    <3> HIDE DEF i
    <3> QED  BY <3>1, <3>2, ReadsVInv
  <2>2. CASE ~Active(i)
    BY <1>2, <2>2, RaisesVInv DEF FindCurrent
  <2> QED  BY <2>1, <2>2
<1>3. CASE FindChain(t)
  <2> DEFINE o == Head(todo[t]).old
             i == Head(todo[t]).new
  <2>1. CASE Exists(o) /\ entities[o].superseded_by = i
    <3>1. Reads(t, "detach", o) /\ Calling(t, "detach")
      BY <1>3, <2>1 DEF FindChain
    <3>2. i \in Ids
      BY <3>1, CallFacts DEF Calling, IInv
    <3>3. o \in Rows /\ entities[o].superseded_by # None
      BY <2>1, <3>2 DEF Exists, Ids, None
    <3>4. i \in Rows /\ entities[i].supersedes = o
      BY <2>1, <3>3 DEF VInv, Versions, Mutual, Rows
    <3> QED  BY <3>1, <3>3, <3>4, ReadsVInv
  <2>2. CASE ~(Exists(o) /\ entities[o].superseded_by = i)
    BY <1>3, <2>2, RaisesVInv DEF FindChain
  <2> QED  BY <2>1, <2>2
<1> QED  BY <1>1, <1>2, <1>3

LEMMA UpdateVInv ==
    ASSUME IInv, VInv, NEW t \in Threads, UpdateEntity(t)
    PROVE  VInv'
<1>1. Returns(t, "add", found[t]) /\ entities' = entities /\ split' = split
  BY DEF UpdateEntity
<1> QED  BY <1>1, ReturnsThread, QuietVInv DEF IInv

LEMMA InsertVInv ==
    ASSUME IInv, VInv, NEW t \in Threads, InsertEntity(t)
    PROVE  VInv'
<1> DEFINE e == NewEntity(Head(todo[t]).name, None)
           k == Len(entities)
<1>1. e \in Entity /\ e.supersedes = None /\ e.superseded_by = None
  <2>1. Head(todo[t]).name \in Names
    BY CallFacts DEF InsertEntity, Returns, Calling, IInv
  <2> QED  BY <2>1 DEF NewEntity, Entity
<1>2. entities' = Append(entities, e) /\ NewId <= MaxRows /\ split' = split
      /\ Returns(t, "add", NewId)
  BY DEF InsertEntity, history
<1> HIDE DEF e
<1>3. /\ k \in Nat /\ DOMAIN entities = 1..k /\ NewId = k + 1
  BY RowFacts DEF IInv, Rows, NewId
<1>4. /\ DOMAIN entities' = DOMAIN entities \cup {k + 1}
      /\ \A i \in DOMAIN entities : entities'[i] = entities[i]
      /\ entities'[k + 1] = e
  <2>1. entities \in Seq(Entity)
    BY DEF IInv, TypeOK
  <2> QED  BY <1>1, <1>2, <1>3, <2>1, AppendFacts DEF IInv, Rows
<1> HIDE DEF k
<1>5. DOMAIN entities' = 1..(k + 1)
  BY <1>3, <1>4
<1>6. Versions(entities', split')
  BY <1>1, <1>2, <1>3, <1>4, <1>5, InsertedVersions DEF VInv
<1>7. Pending'
  BY <1>2, <1>4, ReturnsThread, PendingKept DEF IInv, VInv, Rows
<1> QED  BY <1>6, <1>7 DEF VInv

LEMMA SupersedeVInv ==
    ASSUME IInv, VInv, NEW t \in Threads, Supersede(t)
    PROVE  VInv'
<1> DEFINE old == found[t]
           e == NewEntity(Head(todo[t]).name, old)
           es == Retire(entities, old, NewId)
           k == Len(entities)
<1>1. old \in Rows
  BY DEF Supersede, Returns, Calling, VInv, Pending
<1>2. old \in Ids /\ NewId \in Ids
  BY <1>1, RowFacts DEF IInv, Supersede, Ids
<1>3. e \in Entity /\ e.supersedes = old /\ e.superseded_by = None
  <2>1. Head(todo[t]).name \in Names
    BY CallFacts DEF Supersede, Returns, Calling, IInv
  <2> QED  BY <1>2, <2>1 DEF NewEntity, Entity
<1>4. /\ es \in Seq(Entity) /\ Len(es) = Len(entities)
      /\ \A i \in Rows : /\ i # old \/ ~Exists(old) => es[i] = entities[i]
                         /\ es[i].gone = entities[i].gone
                         /\ es[i].supersedes = entities[i].supersedes
      /\ Exists(old) => es[old].retired /\ es[old].superseded_by = NewId
  BY <1>2, RetireFacts DEF IInv
<1>5. /\ entities' = Append(es, e) /\ NewId <= MaxRows /\ Returns(t, "supersede", NewId)
      /\ split' = IF Active(old) THEN split ELSE split \cup {old}
  BY DEF Supersede
<1> HIDE DEF e, es, old
<1>6. /\ k \in Nat /\ Rows = 1..k /\ NewId = k + 1
  BY RowFacts DEF IInv, NewId
<1>7. /\ DOMAIN entities' = Rows \cup {k + 1}
      /\ \A i \in Rows : entities'[i] = es[i]
      /\ entities'[k + 1] = e
  BY <1>3, <1>4, <1>5, <1>6, AppendFacts DEF IInv
<1> HIDE DEF k
<1>8. DOMAIN entities' = 1..(k + 1)
  BY <1>6, <1>7
<1>9. Versions(entities', split')
  <2>1. Versions(entities, split) /\ DOMAIN entities = 1..k /\ old \in 1..k
    BY <1>1, <1>6 DEF VInv, Rows
  <2>2. /\ \A i \in 1..k : i # old \/ ~ExistsIn(entities, old) => entities'[i] = entities[i]
        /\ entities'[old].supersedes = entities[old].supersedes
        /\ ExistsIn(entities, old) =>
              entities'[old].retired /\ entities'[old].superseded_by = k + 1
        /\ entities'[k + 1].supersedes = old /\ entities'[k + 1].superseded_by = None
    BY <1>1, <1>3, <1>4, <1>6, <1>7, TableFacts
  <2>3. split' = IF ActiveIn(entities, old) THEN split ELSE split \cup {old}
    BY <1>5, TableFacts
  <2> DEFINE fs == entities'
             sq == split'
  <2>4. /\ DOMAIN fs = 1..(k + 1)
        /\ \A i \in 1..k : i # old \/ ~ExistsIn(entities, old) => fs[i] = entities[i]
        /\ fs[old].supersedes = entities[old].supersedes
        /\ ExistsIn(entities, old) => fs[old].retired /\ fs[old].superseded_by = k + 1
        /\ fs[k + 1].supersedes = old /\ fs[k + 1].superseded_by = None
        /\ sq = IF ActiveIn(entities, old) THEN split ELSE split \cup {old}
    BY <1>8, <2>2, <2>3
  <2> HIDE DEF fs, sq
  <2>5. Versions(fs, sq)
    BY <1>6, <2>1, <2>4, SupersededVersions
  <2> QED  BY <2>5 DEF fs, sq
<1>10. Pending'
  <2>1. Rows \subseteq Rows' /\ \A i \in Rows : entities'[i].supersedes = entities[i].supersedes
    BY <1>4, <1>7 DEF Rows
  <2> QED  BY <1>5, <2>1, ReturnsThread, PendingKept DEF IInv, VInv
<1> QED  BY <1>9, <1>10 DEF VInv

LEMMA DetachVInv ==
    ASSUME IInv, VInv, NEW t \in Threads, Detach(t)
    PROVE  VInv'
<1> DEFINE o == Head(todo[t]).old
           n == Head(todo[t]).new
<1>1. o \in Rows /\ n \in Rows /\ entities[n].supersedes = o
  BY DEF Detach, Returns, Calling, VInv, Pending
<1>2. /\ Rows' = Rows
      /\ \A j \in Rows :
            /\ entities'[j].supersedes = entities[j].supersedes
            /\ j \notin {o, n} => entities'[j] = entities[j]
            /\ j = o => entities'[j].superseded_by = None
            /\ j = n /\ n # o => entities'[j].retired
            /\ j # o => entities'[j].superseded_by = entities[j].superseded_by
  BY DetachFacts DEF IInv
<1>3. Returns(t, "detach", o) /\ split' = IF Active(n) THEN split ELSE split \cup {o}
  BY DEF Detach
<1> HIDE DEF o, n
<1>4. n # o
  BY <1>1, BelowFacts DEF VInv, Versions, Rows
<1>5. Versions(entities', split')
  <2>1. Versions(entities, split) /\ DOMAIN entities' = DOMAIN entities
    BY <1>2 DEF VInv, Rows
  <2>2. split' = IF ActiveIn(entities, n) THEN split ELSE split \cup {o}
    BY <1>3, TableFacts
  <2> QED  BY <1>1, <1>2, <1>4, <2>1, <2>2, DetachedVersions DEF Rows
<1>6. Pending'
  BY <1>2, <1>3, ReturnsThread, PendingKept DEF IInv, VInv
<1> QED  BY <1>5, <1>6 DEF VInv

LEMMA DeleteVInv ==
    ASSUME IInv, VInv, NEW t \in Threads, NEW i \in Rows, Delete(t, i)
    PROVE  VInv'
<1>1. /\ entities' = [entities EXCEPT ![i].gone = TRUE]
      /\ split' = split /\ todo' = todo /\ found' = found /\ within' = within
  BY DEF Delete, thread, history
<1>2. /\ Rows' = Rows
      /\ \A j \in Rows : /\ entities'[j].supersedes = entities[j].supersedes
                         /\ entities'[j].superseded_by = entities[j].superseded_by
                         /\ Active(j)' => Active(j)
  <2>1. \A j \in Rows : entities[j] \in Entity
    BY RowFacts DEF IInv
  <2> QED  BY <1>1, <2>1 DEF Rows, Active, Exists, Entity
<1>3. \A j \in Rows : ActiveIn(entities', j) => ActiveIn(entities, j)
  BY <1>2 DEF Active, Exists, ActiveIn, ExistsIn, Rows
<1>4. Versions(entities', split')
  BY <1>1, <1>2, <1>3, DeletedVersions DEF VInv, Rows
<1>5. Pending'
  BY <1>1, <1>2 DEF VInv, Pending
<1> QED  BY <1>4, <1>5 DEF VInv

LEMMA InitVInv == Init => VInv
<1> SUFFICES ASSUME Init PROVE VInv
  OBVIOUS
<1>1. DOMAIN entities = 1..0 /\ DOMAIN entities = {} /\ split = {}
  BY DEF Init
<1>2. Pending
  BY DEF Init, Pending
<1>3. Versions(entities, split)
  BY <1>1 DEF Versions, Numbered, Below, Mutual, OneActive, Chained
<1> QED  BY <1>2, <1>3 DEF VInv

LEMMA NextVInv == IInv /\ VInv /\ [Next]_vars => VInv'
<1> SUFFICES ASSUME IInv, VInv, [Next]_vars PROVE VInv'
  OBVIOUS
<1>1. ASSUME NEW t \in Threads, NEW m \in Names,
             \/ Remember(t, m) \/ Create(t, m) \/ \E n \in Names : Relate(t, n, m)
             \/ \E i \in Rows : Correct(t, i, m)
      PROVE  VInv'
  BY <1>1, RequestVInv DEF Remember, Create, Relate, Correct
<1>2. ASSUME NEW t \in Threads, NEW i \in Rows, \E j \in Rows : TakeBack(t, i, j)
      PROVE  VInv'
  BY <1>2, RequestVInv DEF TakeBack
<1>3. ASSUME NEW t \in Threads, NEW i \in Rows, Delete(t, i)
      PROVE  VInv'
  BY <1>3, DeleteVInv
<1>4. ASSUME NEW t \in Threads,
             \/ LookUp(t) \/ FindEntity(t) \/ UpdateEntity(t) \/ InsertEntity(t) \/ Link(t)
             \/ FindCurrent(t) \/ Supersede(t) \/ FindChain(t) \/ Detach(t)
      PROVE  VInv'
  BY <1>4, LookUpLinkVInv, FindVInv, UpdateVInv, InsertVInv, SupersedeVInv, DetachVInv
<1>5. CASE UNCHANGED vars
  <2>1. /\ entities' = entities /\ split' = split
        /\ todo' = todo /\ found' = found /\ within' = within
    BY <1>5 DEF vars, thread, history
  <2> QED  BY <2>1 DEF VInv, Pending, Rows
<1>6. \A pair \in Pairs : pair[1] \in Names /\ pair[2] \in Names
  BY MemoryGraphAssumption
<1> QED  BY <1>1, <1>2, <1>3, <1>4, <1>5, <1>6 DEF Next

\* A fact has at most one current version, and the history of each of its versions
\* shows it, in whatever order corrections are made, taken back and deleted by the
\* threads of any number of workers (supersede and detach_supersession): but for a
\* fact whose correction was taken back after it had been corrected itself, or two
\* of whose corrections were of one version.
THEOREM FactsHaveOneVersion == Spec => []OneCurrent
<1>1. Spec => []VInv
  BY Invariance, InitVInv, NextVInv, PTL DEF Spec
<1>2. VInv => OneCurrent
  BY VersionsOneCurrent DEF VInv
<1> QED  BY <1>1, <1>2, PTL
=============================================================================
