----------------------------- MODULE CacheProofs -----------------------------
(***************************************************************************)
(* Proofs about Cache, for any nodes and keys and any number of mutations, *)
(* fetches and lost messages.  That an invalidated entry is gone from the  *)
(* node that invalidates rests on what a node has read itself being no     *)
(* older than its own invalidations; that it is gone everywhere, on every  *)
(* invalidation being done, received or under way at every node.           *)
(***************************************************************************)
EXTENDS Cache, SequenceTheorems, TLAPS

\* An invalidation that has cleared the node's own L1 and is to be published.
Telling(o) == task[o] # NoTask /\ task[o].at \in {"scan", "del"}

\* Node n has invalidated k up to version v, or is going to be told to.
Reach(n, k, v) ==
    \/ v <= cleared[n][k]
    \/ \E i \in 1 .. Len(inbox[n]) : k \in inbox[n][i].keys /\ v <= inbox[n][i].seen
    \/ \E o \in Nodes : Telling(o) /\ k \in task[o].keys /\ v <= task[o].seen

\* Nobody invalidates what has not happened yet.
Known ==
    /\ \A n \in Nodes : \A k \in Keys : cleared[n][k] <= db
    /\ \A n \in Nodes : \A i \in 1 .. Len(inbox[n]) : inbox[n][i].seen <= db
    /\ \A n \in Nodes : task[n] # NoTask => task[n].seen <= db

\* What a node has indexed is there, and what it has read or is reading itself is
\* no older than its invalidations.
OwnIsCurrent ==
    /\ \A n \in Nodes : \A k \in index[n] :
          /\ l1[n][k] # NoEntry
          /\ l1[n][k].own => l1[n][k].ver >= cleared[n][k]
    /\ \A n \in Nodes : \A f \in fetches[n] : f.own => f.ver >= cleared[n][f.key]

\* Who tells others has done it itself.
TellerDone ==
    \A o \in Nodes : Telling(o) => \A k \in task[o].keys : task[o].seen <= cleared[o][k]

\* What one node has invalidated, or is told to, reaches every node.
Spread ==
    redis /\ losses = 0 => \A n, m \in Nodes : \A k \in Keys :
        /\ Reach(n, k, cleared[m][k])
        /\ \A i \in 1 .. Len(inbox[m]) :
              k \in inbox[m][i].keys => Reach(n, k, inbox[m][i].seen)

CacheInv == TypeOK /\ Known /\ OwnIsCurrent /\ TellerDone /\ Spread

USE BoundsAssumption, NothingAssumption
USE DEF Versions, Scopes, Fills, Purposes

-----------------------------------------------------------------------------
(* Types.                                                                  *)

\* At first nothing is cached and nothing under way.
LEMMA InitType == Init => TypeOK
<1> SUFFICES ASSUME Init PROVE TypeOK
  OBVIOUS
<1>1. 0 \in Versions /\ 0 \in 0 .. MaxFetches /\ 0 \in 0 .. MaxLosses
  OBVIOUS
<1>2. /\ l1 \in [Nodes -> [Keys -> Entries \cup {NoEntry}]]
      /\ buffer \in [Nodes -> [Keys -> Versions \cup {NoEntry}]]
      /\ l2 \in [Keys -> Versions \cup {NoEntry}]
      /\ cleared \in [Nodes -> [Keys -> Versions]]
  BY <1>1 DEF Init
<1>3. /\ index \in [Nodes -> SUBSET Keys] /\ fetches \in [Nodes -> SUBSET Fetches]
      /\ task \in [Nodes -> Tasks \cup {NoTask}]
      /\ inbox \in [Nodes -> Seq(Reports)]
  BY DEF Init
<1> QED
  BY <1>1, <1>2, <1>3 DEF Init, TypeOK

\* A fetch that starts has a key, a purpose and the version it reads.
LEMMA StartType ==
  ASSUME TypeOK, NEW n \in Nodes, NEW k \in Keys,
         StartPromotion(n, k) \/ \E p \in Fills : StartFetch(n, k, p)
  PROVE  TypeOK'
<1>1. PICK f \in Fetches : fetches' = [fetches EXCEPT ![n] = @ \cup {f}]
  <2>1. CASE StartPromotion(n, k)
    <3>1. l2[k] \in Versions
      BY <2>1 DEF StartPromotion, MayFetch, TypeOK
    <3>2. [key |-> k, purpose |-> "promote", ver |-> l2[k], own |-> FALSE] \in Fetches
      BY <3>1 DEF Fetches
    <3> QED
      BY <2>1, <3>2 DEF StartPromotion
  <2>2. ASSUME NEW p \in Fills, StartFetch(n, k, p)
        PROVE  \E f \in Fetches : fetches' = [fetches EXCEPT ![n] = @ \cup {f}]
    <3>1. [key |-> k, purpose |-> p, ver |-> db, own |-> TRUE] \in Fetches
      BY DEF Fetches, TypeOK
    <3> QED
      BY <2>2, <3>1 DEF StartFetch
  <2> QED
    BY <2>1, <2>2
<1>2. fetches' \in [Nodes -> SUBSET Fetches]
  BY <1>1 DEF TypeOK
<1>3. fetched' \in 0 .. MaxFetches
  BY DEF StartPromotion, StartFetch, TypeOK
<1> QED
  BY <1>2, <1>3 DEF StartPromotion, StartFetch, TypeOK

\* What a fetch has read fits into both levels.
LEMMA EndType ==
  ASSUME TypeOK, NEW n \in Nodes, NEW f \in fetches[n], EndFetch(n, f) \/ FetchFails(n, f)
  PROVE  TypeOK'
<1>1. f \in Fetches /\ f.key \in Keys /\ f.ver \in Versions /\ f.own \in BOOLEAN
  BY DEF TypeOK, Fetches
<1>2. fetches' \in [Nodes -> SUBSET Fetches]
  <2>1. fetches' = [fetches EXCEPT ![n] = fetches[n] \ {f}]
    BY DEF EndFetch, FetchFails
  <2> QED
    BY <2>1 DEF TypeOK
<1>3. CASE EndFetch(n, f)
  <2>1. [ver |-> f.ver, own |-> f.own] \in Entries
    BY <1>1 DEF Entries
  <2>2. l1' \in [Nodes -> [Keys -> Entries \cup {NoEntry}]]
    BY <1>1, <1>3, <2>1 DEF EndFetch, TypeOK
  <2>3. index' \in [Nodes -> SUBSET Keys]
    BY <1>1, <1>3 DEF EndFetch, Indexed, TypeOK
  <2>4. buffer' \in [Nodes -> [Keys -> Versions \cup {NoEntry}]]
    <3>1. CASE redis /\ f.purpose = "set"
      BY <1>1, <1>3, <3>1 DEF EndFetch, TypeOK
    <3>2. CASE ~(redis /\ f.purpose = "set")
      BY <1>3, <3>2 DEF EndFetch, TypeOK
    <3> QED
      BY <3>1, <3>2
  <2>5. l2' \in [Keys -> Versions \cup {NoEntry}]
    BY <1>1, <1>3 DEF EndFetch, TypeOK
  <2> QED
    BY <1>2, <1>3, <2>2, <2>3, <2>4, <2>5 DEF EndFetch, TypeOK
<1>4. CASE FetchFails(n, f)
  BY <1>2, <1>4 DEF FetchFails, TypeOK
<1> QED
  BY <1>3, <1>4

LEMMA EvictType ==
  ASSUME TypeOK, NEW n \in Nodes, NEW k \in Keys, Evict(n, k)
  PROVE  TypeOK'
<1>1. l1' \in [Nodes -> [Keys -> Entries \cup {NoEntry}]]
  BY DEF Evict, TypeOK
<1>2. index' \in [Nodes -> SUBSET Keys]
  BY DEF Evict, Disposed, TypeOK
<1> QED
  BY <1>1, <1>2 DEF Evict, TypeOK

\* The fields of a task.
LEMMA TaskFields ==
  ASSUME NEW t \in Tasks
  PROVE  /\ t.scope \in Scopes /\ t.keys \in SUBSET Keys /\ t.seen \in Versions
         /\ t.at \in {"l1", "scan", "del"}
BY DEF Tasks

LEMMA MutateType ==
  ASSUME TypeOK, NEW n \in Nodes, NEW s \in Scopes, Mutate(n, s)
  PROVE  TypeOK'
<1>1. db' \in Versions
  BY DEF Mutate, TypeOK
<1>2. PICK keys \in Covers(s) : task' = [task EXCEPT ![n] =
          [scope |-> s, keys |-> keys, seen |-> db', at |-> "l1"]]
  BY DEF Mutate
<1>3. keys \in SUBSET Keys
  BY DEF Covers
<1>4. [scope |-> s, keys |-> keys, seen |-> db', at |-> "l1"] \in Tasks
  BY <1>1, <1>3 DEF Tasks
<1>5. task' \in [Nodes -> Tasks \cup {NoTask}]
  BY <1>2, <1>4 DEF TypeOK
<1> QED
  BY <1>1, <1>5 DEF Mutate, TypeOK

\* A fetch that an invalidation overtakes is no longer the node's own reading.
LEMMA Overtaken ==
  ASSUME NEW f \in Fetches, NEW K
  PROVE  LET g == [f EXCEPT !.own = @ /\ f.key \notin K]
         IN  /\ g \in Fetches /\ g.key = f.key /\ g.ver = f.ver
             /\ g.own = (f.own /\ f.key \notin K)
BY DEF Fetches

\* Clearing L1 of what an invalidation finds.
LEMMA ClearType ==
  ASSUME TypeOK, NEW n \in Nodes, NEW found \in SUBSET Keys, NEW r, r.seen \in Versions,
         ClearL1(n, found, r)
  PROVE  /\ l1' \in [Nodes -> [Keys -> Entries \cup {NoEntry}]]
         /\ index' \in [Nodes -> SUBSET Keys]
         /\ fetches' \in [Nodes -> SUBSET Fetches]
         /\ cleared' \in [Nodes -> [Keys -> Versions]]
<1>1. l1' \in [Nodes -> [Keys -> Entries \cup {NoEntry}]] /\ index' \in [Nodes -> SUBSET Keys]
  BY DEF ClearL1, TypeOK
<1>2. fetches' \in [Nodes -> SUBSET Fetches]
  <2> DEFINE F == {[f EXCEPT !.own = @ /\ f.key \notin r.keys] : f \in fetches[n]}
  <2>1. ASSUME NEW f \in fetches[n]
        PROVE  [f EXCEPT !.own = @ /\ f.key \notin r.keys] \in Fetches
    <3>1. f \in Fetches
      BY DEF TypeOK
    <3> QED
      BY <3>1, Overtaken
  <2>2. fetches' = [fetches EXCEPT ![n] = F]
    BY DEF ClearL1
  <2>3. F \in SUBSET Fetches
    BY <2>1
  <2> HIDE DEF F
  <2> QED
    BY <2>2, <2>3 DEF TypeOK
<1>3. cleared' \in [Nodes -> [Keys -> Versions]]
  <2> DEFINE C == [k \in Keys |-> IF k \in r.keys THEN Later(cleared[n][k], r.seen)
                                                  ELSE cleared[n][k]]
  <2>1. C \in [Keys -> Versions]
    BY DEF Later, TypeOK
  <2>2. cleared' = [cleared EXCEPT ![n] = C]
    BY DEF ClearL1
  <2> HIDE DEF C
  <2> QED
    BY <2>1, <2>2 DEF TypeOK
<1> QED
  BY <1>1, <1>2, <1>3

\* What is found are keys of the collection, and all of the indexed ones.
LEMMA FoundKeys ==
  ASSUME NEW n \in Nodes, NEW s \in Scopes, NEW K \in SUBSET Keys
  PROVE  /\ Found(n, s, K) \in SUBSET Keys /\ K \cap index[n] \subseteq Found(n, s, K)
BY DEF Found

\* The invalidation of a node, step by step.
LEMMA InvalidateL1Type ==
  ASSUME TypeOK, NEW n \in Nodes, InvalidateL1(n)
  PROVE  TypeOK'
<1> DEFINE t == task[n]
<1>1. t \in Tasks /\ t.at = "l1"
  BY DEF InvalidateL1, TypeOK
<1>2. FoundHere(n, t) \in SUBSET Keys
  BY <1>1, TaskFields, FoundKeys DEF FoundHere
<1>3. t.seen \in Versions
  BY <1>1, TaskFields
<1>4. ClearL1(n, FoundHere(n, t), t)
  BY DEF InvalidateL1
<1>5. /\ l1' \in [Nodes -> [Keys -> Entries \cup {NoEntry}]]
      /\ index' \in [Nodes -> SUBSET Keys]
      /\ fetches' \in [Nodes -> SUBSET Fetches]
      /\ cleared' \in [Nodes -> [Keys -> Versions]]
  BY <1>2, <1>3, <1>4, ClearType
<1>6. [t EXCEPT !.at = "scan"] \in Tasks
  BY <1>1 DEF Tasks
<1>7. task' \in [Nodes -> Tasks \cup {NoTask}]
  BY <1>6 DEF InvalidateL1, TypeOK
<1> QED
  BY <1>5, <1>7 DEF InvalidateL1, TypeOK

LEMMA ScanType ==
  ASSUME TypeOK, NEW n \in Nodes, ScanL2(n)
  PROVE  TypeOK'
<1>1. task[n] \in Tasks
  BY DEF ScanL2, TypeOK
<1>2. PICK M \in SUBSET Keys : task' = [task EXCEPT ![n] =
         [scope |-> task[n].scope, keys |-> task[n].keys, seen |-> task[n].seen,
          at |-> "del", members |-> M]]
  BY <1>1, TaskFields DEF ScanL2
<1>3. [scope |-> task[n].scope, keys |-> task[n].keys, seen |-> task[n].seen,
       at |-> "del", members |-> M] \in Tasks
  BY <1>1, TaskFields DEF Tasks
<1>4. task' \in [Nodes -> Tasks \cup {NoTask}]
  BY <1>2, <1>3 DEF TypeOK
<1> QED
  BY <1>4 DEF ScanL2, TypeOK

\* What is published is a report of the task, and only that is added.
LEMMA Publishing ==
  ASSUME TypeOK, NEW n \in Nodes, InvalidateL2(n)
  PROVE  LET t == task[n] IN
         /\ t \in Tasks /\ t.at = "del" /\ Report(t) \in Reports
         /\ Report(t).keys = t.keys /\ Report(t).seen = t.seen
         /\ \A m \in Nodes \ {n} : inbox'[m] = Append(inbox[m], Report(t))
         /\ inbox'[n] = inbox[n]
         /\ inbox' \in [Nodes -> Seq(Reports)]
<1>1. task[n] \in Tasks /\ task[n].at = "del"
  BY DEF InvalidateL2, TypeOK
<1>2. Report(task[n]) \in Reports
  BY <1>1, TaskFields DEF Report, Reports
<1>3. \A m \in Nodes : inbox'[m] = IF m = n THEN inbox[m] ELSE Append(inbox[m], Report(task[n]))
  BY DEF InvalidateL2, Published
<1>4. \A m \in Nodes : Append(inbox[m], Report(task[n])) \in Seq(Reports)
  BY <1>2, AppendProperties DEF TypeOK
<1>5. inbox' \in [Nodes -> Seq(Reports)]
  <2>1. inbox' = [m \in Nodes |-> IF m = n THEN inbox[m] ELSE Append(inbox[m], Report(task[n]))]
    BY DEF InvalidateL2, Published
  <2>2. \A m \in Nodes : inbox[m] \in Seq(Reports)
    BY DEF TypeOK
  <2> QED
    BY <1>4, <2>1, <2>2
<1>6. Report(task[n]).keys = task[n].keys /\ Report(task[n]).seen = task[n].seen
  BY DEF Report
<1> QED
  BY <1>1, <1>2, <1>3, <1>5, <1>6

LEMMA InvalidateL2Type ==
  ASSUME TypeOK, NEW n \in Nodes, InvalidateL2(n)
  PROVE  TypeOK'
<1>1. inbox' \in [Nodes -> Seq(Reports)]
  BY Publishing
<1>2. l2' \in [Keys -> Versions \cup {NoEntry}] /\ l2tagged' \subseteq Keys
  BY DEF InvalidateL2, TypeOK
<1>3. task' \in [Nodes -> Tasks \cup {NoTask}]
  BY DEF InvalidateL2, TypeOK
<1> QED
  BY <1>1, <1>2, <1>3 DEF InvalidateL2, TypeOK

\* A message taken from the line is its first; the others move up.
LEMMA TakingFirst ==
  ASSUME TypeOK, NEW n \in Nodes, inbox[n] # <<>>,
         inbox' = [inbox EXCEPT ![n] = Tail(@)]
  PROVE  /\ inbox' \in [Nodes -> Seq(Reports)]
         /\ \A m \in Nodes \ {n} : inbox'[m] = inbox[m]
         /\ Head(inbox[n]) \in Reports /\ Head(inbox[n]) = inbox[n][1]
         /\ Len(inbox'[n]) = Len(inbox[n]) - 1 /\ Len(inbox[n]) \in Nat \ {0}
         /\ \A i \in 1 .. Len(inbox'[n]) : inbox'[n][i] = inbox[n][i + 1]
<1>1. inbox[n] \in Seq(Reports)
  BY DEF TypeOK
<1>2. inbox'[n] = Tail(inbox[n]) /\ \A m \in Nodes \ {n} : inbox'[m] = inbox[m]
  BY DEF TypeOK
<1>3. /\ Tail(inbox[n]) \in Seq(Reports) /\ Len(Tail(inbox[n])) = Len(inbox[n]) - 1
      /\ \A i \in 1 .. Len(Tail(inbox[n])) : Tail(inbox[n])[i] = inbox[n][i + 1]
      /\ Head(inbox[n]) \in Reports
  BY <1>1, HeadTailProperties
<1>4. Head(inbox[n]) = inbox[n][1]
  OBVIOUS
<1>5. Len(inbox[n]) \in Nat \ {0}
  BY <1>1, EmptySeq, LenProperties
<1>6. inbox' \in [Nodes -> Seq(Reports)]
  BY <1>3 DEF TypeOK
<1> QED
  BY <1>2, <1>3, <1>4, <1>5, <1>6

LEMMA ReceiveType ==
  ASSUME TypeOK, NEW n \in Nodes, Receive(n) \/ Lose(n)
  PROVE  TypeOK'
<1>1. inbox[n] # <<>> /\ inbox' = [inbox EXCEPT ![n] = Tail(@)]
  BY DEF Receive, Lose
<1>2. inbox' \in [Nodes -> Seq(Reports)] /\ Head(inbox[n]) \in Reports
  BY <1>1, TakingFirst
<1>3. CASE Receive(n)
  <2> DEFINE r == Head(inbox[n])
  <2>1. r.scope \in Scopes /\ r.keys \in SUBSET Keys /\ r.seen \in Versions
    BY <1>2 DEF Reports
  <2>2. ClearL1(n, Found(n, r.scope, r.keys), r)
    BY <1>3 DEF Receive
  <2>3. Found(n, r.scope, r.keys) \in SUBSET Keys
    BY <2>1, FoundKeys
  <2>4. /\ l1' \in [Nodes -> [Keys -> Entries \cup {NoEntry}]]
        /\ index' \in [Nodes -> SUBSET Keys]
        /\ fetches' \in [Nodes -> SUBSET Fetches]
        /\ cleared' \in [Nodes -> [Keys -> Versions]]
    BY <2>1, <2>2, <2>3, ClearType
  <2> QED
    BY <1>2, <1>3, <2>4 DEF Receive, TypeOK
<1>4. CASE Lose(n)
  BY <1>2, <1>4 DEF Lose, TypeOK
<1> QED
  BY <1>3, <1>4

LEMMA NextType == TypeOK /\ [Next]_vars => TypeOK'
<1> SUFFICES ASSUME TypeOK, [Next]_vars PROVE TypeOK'
  OBVIOUS
<1>1. CASE UNCHANGED vars
  BY <1>1 DEF vars, TypeOK
<1>2. ASSUME NEW n \in Nodes, Flush(n) PROVE TypeOK'
  <2>1. l2' \in [Keys -> Versions \cup {NoEntry}] /\ l2tagged' \subseteq Keys
    BY <1>2 DEF Flush, TypeOK
  <2>2. buffer' \in [Nodes -> [Keys -> Versions \cup {NoEntry}]]
    BY <1>2 DEF Flush, TypeOK
  <2> QED
    BY <1>2, <2>1, <2>2 DEF Flush, TypeOK
<1>3. ASSUME NEW k \in Keys, Expire(k) PROVE TypeOK'
  BY <1>3 DEF Expire, TypeOK
<1> QED
  BY <1>1, <1>2, <1>3, StartType, EndType, EvictType, MutateType, InvalidateL1Type, ScanType,
     InvalidateL2Type, ReceiveType, WritersAssumption DEF Next, Invalidate

\* The two levels, the fetches and the messages keep their types.
THEOREM TypeCorrect == Spec => []TypeOK
<1> QED
  BY InitType, NextType, PTL DEF Spec

-----------------------------------------------------------------------------
(* What a node has read itself is no older than its own invalidations.     *)

OwnInv == Known /\ OwnIsCurrent

\* Clearing leaves what it does not find alone, and disowns what is being fetched.
LEMMA ClearOwn ==
  ASSUME TypeOK, OwnInv, NEW n \in Nodes, NEW found \in SUBSET Keys, NEW r,
         r.keys \in SUBSET Keys, r.seen \in Versions, r.seen <= db,
         r.keys \cap index[n] \subseteq found, ClearL1(n, found, r), UNCHANGED db
  PROVE  OwnIsCurrent' /\ \A m \in Nodes : \A k \in Keys : cleared'[m][k] <= db'
<1>1. /\ \A k \in Keys : cleared'[n][k] = IF k \in r.keys THEN Later(cleared[n][k], r.seen)
                                                          ELSE cleared[n][k]
      /\ \A m \in Nodes \ {n} : cleared'[m] = cleared[m]
  BY DEF ClearL1, TypeOK
<1>2. /\ index'[n] = index[n] \ found
      /\ \A k \in Keys \ found : l1'[n][k] = l1[n][k]
      /\ \A m \in Nodes \ {n} : index'[m] = index[m] /\ l1'[m] = l1[m]
  BY DEF ClearL1, TypeOK
<1>3. /\ fetches'[n] = {[f EXCEPT !.own = @ /\ f.key \notin r.keys] : f \in fetches[n]}
      /\ \A m \in Nodes \ {n} : fetches'[m] = fetches[m]
  BY DEF ClearL1, TypeOK
<1>4. \A m \in Nodes : \A k \in Keys : cleared'[m][k] <= db'
  BY <1>1 DEF OwnInv, Known, Later
<1>5. ASSUME NEW m \in Nodes, NEW k \in index'[m]
      PROVE  /\ l1'[m][k] # NoEntry
             /\ l1'[m][k].own => l1'[m][k].ver >= cleared'[m][k]
  <2>1. k \in Keys /\ k \in index[m]
    BY <1>2, <1>5 DEF TypeOK
  <2>2. l1'[m][k] = l1[m][k] /\ cleared'[m][k] = cleared[m][k]
    <3>1. CASE m = n
      BY <1>1, <1>2, <2>1, <3>1
    <3>2. CASE m # n
      BY <1>1, <1>2, <3>2
    <3> QED
      BY <3>1, <3>2
  <2> QED
    BY <2>1, <2>2 DEF OwnInv, OwnIsCurrent
<1>6. ASSUME NEW m \in Nodes, NEW g \in fetches'[m], g.own
      PROVE  g.ver >= cleared'[m][g.key]
  <2>1. CASE m = n
    <3>1. PICK f \in fetches[n] : g = [f EXCEPT !.own = @ /\ f.key \notin r.keys]
      BY <1>3, <2>1
    <3>2. f \in Fetches /\ f.key \in Keys
      BY DEF TypeOK, Fetches
    <3>3. g.key = f.key /\ g.ver = f.ver /\ f.own /\ f.key \notin r.keys
      BY <1>6, <3>1, <3>2, Overtaken
    <3> QED
      BY <1>1, <2>1, <3>2, <3>3 DEF OwnInv, OwnIsCurrent
  <2>2. CASE m # n
    BY <1>1, <1>3, <1>6, <2>2 DEF OwnInv, OwnIsCurrent
  <2> QED
    BY <2>1, <2>2
<1> QED
  BY <1>4, <1>5, <1>6 DEF OwnIsCurrent

\* Steps that neither clear nor tell.
LEMMA KnownKept ==
  ASSUME TypeOK, OwnInv, UNCHANGED <<db, task, inbox, cleared>>
  PROVE  Known'
BY DEF OwnInv, Known

\* A fetch reads the present version; what is promoted is not the node's own.
LEMMA StartOwn ==
  ASSUME TypeOK, OwnInv, NEW n \in Nodes, NEW k \in Keys,
         StartPromotion(n, k) \/ \E p \in Fills : StartFetch(n, k, p)
  PROVE  OwnInv'
<1>1. PICK f \in Fetches : /\ fetches' = [fetches EXCEPT ![n] = @ \cup {f}]
                          /\ f.key = k /\ (f.own => f.ver = db)
  <2>1. CASE StartPromotion(n, k)
    <3>1. l2[k] \in Versions
      BY <2>1 DEF StartPromotion, MayFetch, TypeOK
    <3>2. [key |-> k, purpose |-> "promote", ver |-> l2[k], own |-> FALSE] \in Fetches
      BY <3>1 DEF Fetches
    <3> QED
      BY <2>1, <3>2 DEF StartPromotion
  <2>2. ASSUME NEW p \in Fills, StartFetch(n, k, p)
        PROVE  \E f \in Fetches : /\ fetches' = [fetches EXCEPT ![n] = @ \cup {f}]
                                  /\ f.key = k /\ (f.own => f.ver = db)
    <3>1. [key |-> k, purpose |-> p, ver |-> db, own |-> TRUE] \in Fetches
      BY DEF Fetches, TypeOK
    <3> QED
      BY <2>2, <3>1 DEF StartFetch
  <2> QED
    BY <2>1, <2>2
<1>2. UNCHANGED <<db, l1, index, task, inbox, cleared>>
  BY DEF StartPromotion, StartFetch
<1>3. cleared[n][k] <= db
  BY DEF OwnInv, Known
<1>4. db >= cleared[n][k]
  BY <1>3 DEF TypeOK
<1>5. ASSUME NEW m \in Nodes, NEW g \in fetches'[m], g.own
      PROVE  g.ver >= cleared[m][g.key]
  <2>1. g \in fetches[m] \/ (m = n /\ g = f)
    BY <1>1 DEF TypeOK
  <2> QED
    BY <1>1, <1>4, <1>5, <2>1 DEF OwnInv, OwnIsCurrent
<1>6. OwnIsCurrent'
  BY <1>2, <1>5 DEF OwnInv, OwnIsCurrent
<1> QED
  BY <1>2, <1>6, KnownKept DEF OwnInv

\* What is put into L1 replaces an entry, and is indexed only by a fill.
LEMMA EndOwn ==
  ASSUME TypeOK, OwnInv, NEW n \in Nodes, NEW f \in fetches[n],
         EndFetch(n, f) \/ FetchFails(n, f)
  PROVE  OwnInv'
<1>1. f \in Fetches /\ f.key \in Keys /\ (f.own => f.ver >= cleared[n][f.key])
  BY DEF TypeOK, Fetches, OwnInv, OwnIsCurrent
<1>2. UNCHANGED <<db, task, inbox, cleared>> /\ fetches' = [fetches EXCEPT ![n] = @ \ {f}]
  BY DEF EndFetch, FetchFails
<1>3. \A m \in Nodes : fetches'[m] \subseteq fetches[m]
  BY <1>2 DEF TypeOK
<1>4. ASSUME NEW m \in Nodes, NEW k \in index'[m]
      PROVE  /\ l1'[m][k] # NoEntry
             /\ l1'[m][k].own => l1'[m][k].ver >= cleared[m][k]
  <2>1. CASE FetchFails(n, f)
    BY <1>4, <2>1 DEF FetchFails, OwnInv, OwnIsCurrent
  <2>2. CASE EndFetch(n, f) /\ m = n /\ k = f.key
    <3>1. l1'[n][f.key] = [ver |-> f.ver, own |-> f.own]
      BY <1>1, <2>2 DEF EndFetch, TypeOK
    <3>2. [ver |-> f.ver, own |-> f.own] \in Entries
      BY <1>1 DEF Fetches, Entries
    <3> QED
      BY <1>1, <2>2, <3>1, <3>2
  <2>3. CASE EndFetch(n, f) /\ ~(m = n /\ k = f.key)
    <3>1. k \in index[m] /\ k \in Keys
      BY <1>1, <1>4, <2>3 DEF EndFetch, Indexed, TypeOK
    <3>2. l1'[m][k] = l1[m][k]
      BY <1>1, <2>3, <3>1 DEF EndFetch, TypeOK
    <3> QED
      BY <3>1, <3>2 DEF OwnInv, OwnIsCurrent
  <2> QED
    BY <2>1, <2>2, <2>3
<1>5. OwnIsCurrent'
  BY <1>2, <1>3, <1>4 DEF OwnInv, OwnIsCurrent
<1> QED
  BY <1>2, <1>5, KnownKept DEF OwnInv

LEMMA EvictOwn ==
  ASSUME TypeOK, OwnInv, NEW n \in Nodes, NEW k \in Keys, Evict(n, k)
  PROVE  OwnInv'
<1>1. UNCHANGED <<db, task, inbox, cleared, fetches>>
  BY DEF Evict
<1>2. \A m \in Nodes : \A j \in index'[m] : j \in index[m] /\ l1'[m][j] = l1[m][j]
  BY DEF Evict, Disposed, TypeOK
<1>3. OwnIsCurrent'
  BY <1>1, <1>2 DEF OwnInv, OwnIsCurrent
<1> QED
  BY <1>1, <1>3, KnownKept DEF OwnInv

\* A mutation is known to the node it happens at.
LEMMA MutateOwn ==
  ASSUME TypeOK, OwnInv, NEW n \in Nodes, NEW s \in Scopes, Mutate(n, s)
  PROVE  OwnInv'
<1>1. db' = db + 1 /\ db \in Int /\ UNCHANGED <<l1, index, fetches, inbox, cleared>>
  BY DEF Mutate, TypeOK
<1>2. \A m \in Nodes : task'[m] = task[m] \/ task'[m].seen = db'
  BY DEF Mutate, TypeOK
<1>3. \A m \in Nodes : /\ \A k \in Keys : cleared[m][k] \in Int
                       /\ \A i \in 1 .. Len(inbox[m]) : inbox[m][i].seen \in Int
                       /\ task[m] # NoTask => task[m].seen \in Int
  <2>1. ASSUME NEW m \in Nodes, NEW i \in 1 .. Len(inbox[m]) PROVE inbox[m][i].seen \in Int
    <3>1. inbox[m][i] \in Reports
      BY ElementOfSeq DEF TypeOK
    <3> QED
      BY <3>1 DEF Reports
  <2>2. ASSUME NEW m \in Nodes, task[m] # NoTask PROVE task[m].seen \in Int
    BY <2>2, TaskFields DEF TypeOK
  <2> QED
    BY <2>1, <2>2 DEF TypeOK
<1>4. ASSUME NEW m \in Nodes, task'[m] # NoTask PROVE task'[m].seen <= db'
  <2>1. CASE task'[m] = task[m]
    BY <1>1, <1>3, <1>4, <2>1 DEF OwnInv, Known
  <2>2. CASE task'[m].seen = db'
    BY <1>1, <2>2
  <2> QED
    BY <1>2, <2>1, <2>2
<1>5. Known'
  BY <1>1, <1>3, <1>4 DEF OwnInv, Known
<1>6. OwnIsCurrent'
  BY <1>1 DEF OwnInv, OwnIsCurrent
<1> QED
  BY <1>5, <1>6 DEF OwnInv

LEMMA InvalidateL1Own ==
  ASSUME TypeOK, OwnInv, NEW n \in Nodes, InvalidateL1(n)
  PROVE  OwnInv'
<1>1. task[n] \in Tasks /\ task[n] # NoTask
  BY DEF InvalidateL1, TypeOK
<1>2. /\ task[n].scope \in Scopes /\ task[n].keys \in SUBSET Keys
      /\ task[n].seen \in Versions /\ task[n].seen <= db
  BY <1>1, TaskFields DEF OwnInv, Known
<1>3. /\ FoundHere(n, task[n]) \in SUBSET Keys
      /\ task[n].keys \cap index[n] \subseteq FoundHere(n, task[n])
  BY <1>2, FoundKeys DEF FoundHere
<1>4. ClearL1(n, FoundHere(n, task[n]), task[n]) /\ UNCHANGED <<db, inbox>>
  BY DEF InvalidateL1
<1>5. OwnIsCurrent' /\ \A m \in Nodes : \A k \in Keys : cleared'[m][k] <= db'
  BY <1>2, <1>3, <1>4, ClearOwn
<1>6. \A m \in Nodes : task'[m] # NoTask => task[m] # NoTask /\ task'[m].seen = task[m].seen
  <2>1. [task[n] EXCEPT !.at = "scan"].seen = task[n].seen
    BY <1>1 DEF Tasks
  <2> QED
    BY <1>1, <2>1 DEF InvalidateL1, TypeOK
<1>7. Known'
  BY <1>4, <1>5, <1>6 DEF OwnInv, Known
<1> QED
  BY <1>5, <1>7 DEF OwnInv

LEMMA ScanOwn ==
  ASSUME TypeOK, OwnInv, NEW n \in Nodes, ScanL2(n)
  PROVE  OwnInv'
<1>1. UNCHANGED <<db, l1, index, fetches, inbox, cleared>> /\ task[n] # NoTask
  BY DEF ScanL2
<1>2. \A m \in Nodes : task'[m] = task[m] \/ (m = n /\ task'[m].seen = task[m].seen)
  BY DEF ScanL2, TypeOK
<1>3. Known'
  BY <1>1, <1>2 DEF OwnInv, Known
<1>4. OwnIsCurrent'
  BY <1>1 DEF OwnInv, OwnIsCurrent
<1> QED
  BY <1>3, <1>4 DEF OwnInv

\* A message that is sent was in the line or is new at its end.
LEMMA Appended ==
  ASSUME TypeOK, NEW n \in Nodes, InvalidateL2(n), NEW m \in Nodes \ {n}
  PROVE  /\ Len(inbox'[m]) = Len(inbox[m]) + 1 /\ Len(inbox[m]) \in Nat
         /\ \A i \in 1 .. Len(inbox[m]) : inbox'[m][i] = inbox[m][i]
         /\ inbox'[m][Len(inbox[m]) + 1].keys = task[n].keys
         /\ inbox'[m][Len(inbox[m]) + 1].seen = task[n].seen
<1>1. inbox[m] \in Seq(Reports) /\ Len(inbox[m]) \in Nat
  BY LenProperties DEF TypeOK
<1>2. inbox'[m] = Append(inbox[m], Report(task[n])) /\ Report(task[n]) \in Reports
  BY Publishing
<1>3. /\ Len(inbox'[m]) = Len(inbox[m]) + 1
      /\ \A i \in 1 .. Len(inbox[m]) : inbox'[m][i] = inbox[m][i]
      /\ inbox'[m][Len(inbox[m]) + 1] = Report(task[n])
  BY <1>1, <1>2, AppendProperties
<1>4. Report(task[n]).keys = task[n].keys /\ Report(task[n]).seen = task[n].seen
  BY DEF Report
<1> QED
  BY <1>1, <1>3, <1>4

LEMMA InvalidateL2Own ==
  ASSUME TypeOK, OwnInv, NEW n \in Nodes, InvalidateL2(n)
  PROVE  OwnInv'
<1>1. UNCHANGED <<db, l1, index, fetches, cleared>> /\ task[n] # NoTask
  BY DEF InvalidateL2
<1>2. \A m \in Nodes : task'[m] = task[m] \/ task'[m] = NoTask
  BY DEF InvalidateL2, TypeOK
<1>3. ASSUME NEW m \in Nodes, NEW i \in 1 .. Len(inbox'[m]) PROVE inbox'[m][i].seen <= db
  <2>1. CASE m = n
    <3>1. inbox'[n] = inbox[n]
      BY Publishing
    <3> QED
      BY <1>3, <2>1, <3>1 DEF OwnInv, Known
  <2>2. CASE m # n
    <3>1. /\ Len(inbox'[m]) = Len(inbox[m]) + 1 /\ Len(inbox[m]) \in Nat
          /\ \A j \in 1 .. Len(inbox[m]) : inbox'[m][j] = inbox[m][j]
          /\ inbox'[m][Len(inbox[m]) + 1].seen = task[n].seen
      BY <2>2, Appended
    <3>2. CASE i \in 1 .. Len(inbox[m])
      BY <3>1, <3>2 DEF OwnInv, Known
    <3>3. CASE i = Len(inbox[m]) + 1
      BY <1>1, <3>1, <3>3 DEF OwnInv, Known
    <3> QED
      BY <1>3, <3>1, <3>2, <3>3
  <2> QED
    BY <2>1, <2>2
<1>4. Known'
  BY <1>1, <1>2, <1>3 DEF OwnInv, Known
<1>5. OwnIsCurrent'
  BY <1>1 DEF OwnInv, OwnIsCurrent
<1> QED
  BY <1>4, <1>5 DEF OwnInv

LEMMA ReceiveOwn ==
  ASSUME TypeOK, OwnInv, NEW n \in Nodes, Receive(n) \/ Lose(n)
  PROVE  OwnInv'
<1>1. inbox[n] # <<>> /\ inbox' = [inbox EXCEPT ![n] = Tail(@)] /\ UNCHANGED <<db, task>>
  BY DEF Receive, Lose
<1>2. /\ \A m \in Nodes \ {n} : inbox'[m] = inbox[m]
      /\ Head(inbox[n]) \in Reports /\ Head(inbox[n]) = inbox[n][1]
      /\ Len(inbox'[n]) = Len(inbox[n]) - 1 /\ Len(inbox[n]) \in Nat \ {0}
      /\ \A i \in 1 .. Len(inbox'[n]) : inbox'[n][i] = inbox[n][i + 1]
  BY <1>1, TakingFirst
<1>3. \A m \in Nodes : \A i \in 1 .. Len(inbox'[m]) : inbox'[m][i].seen <= db
  <2>1. ASSUME NEW i \in 1 .. Len(inbox'[n]) PROVE inbox'[n][i].seen <= db
    <3>1. i + 1 \in 1 .. Len(inbox[n]) /\ inbox'[n][i] = inbox[n][i + 1]
      BY <1>2
    <3> QED
      BY <3>1 DEF OwnInv, Known
  <2>2. \A m \in Nodes \ {n} : \A i \in 1 .. Len(inbox'[m]) : inbox'[m][i].seen <= db
    BY <1>2 DEF OwnInv, Known
  <2> QED
    BY <2>1, <2>2
<1>4. CASE Receive(n)
  <2> DEFINE r == Head(inbox[n])
  <2>1. r.scope \in Scopes /\ r.keys \in SUBSET Keys /\ r.seen \in Versions
    BY <1>2 DEF Reports
  <2>2. r.seen <= db
    BY <1>2 DEF OwnInv, Known
  <2>3. ClearL1(n, Found(n, r.scope, r.keys), r)
    BY <1>4 DEF Receive
  <2>4. /\ Found(n, r.scope, r.keys) \in SUBSET Keys
        /\ r.keys \cap index[n] \subseteq Found(n, r.scope, r.keys)
    BY <2>1, FoundKeys
  <2> HIDE DEF r
  <2>5. OwnIsCurrent' /\ \A m \in Nodes : \A k \in Keys : cleared'[m][k] <= db'
    BY <1>1, <2>1, <2>2, <2>3, <2>4, ClearOwn
  <2> QED
    BY <1>1, <1>3, <2>5 DEF OwnInv, Known
<1>5. CASE Lose(n)
  <2>1. UNCHANGED <<l1, index, fetches, cleared>>
    BY <1>5 DEF Lose
  <2> QED
    BY <1>1, <1>3, <2>1 DEF OwnInv, Known, OwnIsCurrent
<1> QED
  BY <1>4, <1>5

LEMMA NextOwn == TypeOK /\ OwnInv /\ [Next]_vars => OwnInv'
<1> SUFFICES ASSUME TypeOK, OwnInv, [Next]_vars PROVE OwnInv'
  OBVIOUS
<1>1. ASSUME UNCHANGED <<db, l1, index, fetches, task, inbox, cleared>> PROVE OwnInv'
  BY <1>1 DEF OwnInv, Known, OwnIsCurrent
<1>2. ASSUME NEW n \in Nodes, Flush(n) PROVE OwnInv'
  BY <1>1, <1>2 DEF Flush
<1>3. ASSUME NEW k \in Keys, Expire(k) PROVE OwnInv'
  BY <1>1, <1>3 DEF Expire
<1>4. CASE UNCHANGED vars
  BY <1>1, <1>4 DEF vars
<1> QED
  BY <1>2, <1>3, <1>4, StartOwn, EndOwn, EvictOwn, MutateOwn, InvalidateL1Own, ScanOwn,
     InvalidateL2Own, ReceiveOwn, WritersAssumption DEF Next, Invalidate

-----------------------------------------------------------------------------
(* What one node has invalidated reaches the others.                       *)

\* A step drops no invalidation: what was done stays done, what was in the
\* line stays there or is done, and who was to tell does so.
NothingForgotten ==
    /\ \A n \in Nodes : \A k \in Keys : cleared[n][k] <= cleared'[n][k]
    /\ \A n \in Nodes : \A i \in 1 .. Len(inbox[n]) :
          \/ \E j \in 1 .. Len(inbox'[n]) : inbox'[n][j] = inbox[n][i]
          \/ \A k \in inbox[n][i].keys : inbox[n][i].seen <= cleared'[n][k]
    /\ \A o \in Nodes : Telling(o) =>
          \/ Telling(o)' /\ task'[o].keys = task[o].keys /\ task'[o].seen = task[o].seen
          \/ \A n \in Nodes \ {o} : \E j \in 1 .. Len(inbox'[n]) :
                inbox'[n][j].keys = task[o].keys /\ inbox'[n][j].seen = task[o].seen

\* Nor does it make one up: a node does what it is told, or what it then tells
\* the others, and a message is from a node that was to tell.
NothingInvented ==
    /\ \A m \in Nodes : \A k \in Keys :
          \/ cleared'[m][k] = cleared[m][k]
          \/ \E i \in 1 .. Len(inbox[m]) :
                k \in inbox[m][i].keys /\ cleared'[m][k] = inbox[m][i].seen
          \/ Telling(m)' /\ k \in task'[m].keys /\ cleared'[m][k] = task'[m].seen
    /\ \A m \in Nodes : \A j \in 1 .. Len(inbox'[m]) :
          \/ \E i \in 1 .. Len(inbox[m]) : inbox'[m][j] = inbox[m][i]
          \/ \E o \in Nodes : /\ Telling(o) /\ inbox'[m][j].keys = task[o].keys
                              /\ inbox'[m][j].seen = task[o].seen

Handed == NothingForgotten /\ NothingInvented /\ TellerDone'

\* The numbers that are compared.
LEMMA Numbers ==
  ASSUME TypeOK
  PROVE  /\ db \in Int /\ \A n \in Nodes : \A k \in Keys : cleared[n][k] \in Int
         /\ \A n \in Nodes : \A i \in 1 .. Len(inbox[n]) :
               inbox[n][i].keys \in SUBSET Keys /\ inbox[n][i].seen \in Int
         /\ \A n \in Nodes : Telling(n) => task[n].keys \in SUBSET Keys /\ task[n].seen \in Int
<1>1. ASSUME NEW n \in Nodes, NEW i \in 1 .. Len(inbox[n])
      PROVE  inbox[n][i].keys \in SUBSET Keys /\ inbox[n][i].seen \in Int
  <2>1. inbox[n][i] \in Reports
    BY ElementOfSeq DEF TypeOK
  <2> QED
    BY <2>1 DEF Reports
<1>2. ASSUME NEW n \in Nodes, Telling(n)
      PROVE  task[n].keys \in SUBSET Keys /\ task[n].seen \in Int
  BY <1>2, TaskFields DEF Telling, TypeOK
<1>3. db \in Int /\ \A n \in Nodes : \A k \in Keys : cleared[n][k] \in Int
  BY DEF TypeOK
<1> QED
  BY <1>1, <1>2, <1>3

\* A step that hands on all there is hands on what is to reach a node.
LEMMA ReachKept ==
  ASSUME TypeOK, TypeOK', TellerDone, NothingForgotten,
         NEW n \in Nodes, NEW k \in Keys, NEW v \in Int, Reach(n, k, v)
  PROVE  Reach(n, k, v)'
<1>1. cleared[n][k] \in Int /\ cleared'[n][k] \in Int /\ cleared[n][k] <= cleared'[n][k]
  BY DEF TypeOK, NothingForgotten
<1>2. CASE v <= cleared[n][k]
  BY <1>1, <1>2 DEF Reach
<1>3. ASSUME NEW i \in 1 .. Len(inbox[n]), k \in inbox[n][i].keys, v <= inbox[n][i].seen
      PROVE  Reach(n, k, v)'
  <2>1. inbox[n][i].seen \in Int
    BY Numbers
  <2>2. CASE \E j \in 1 .. Len(inbox'[n]) : inbox'[n][j] = inbox[n][i]
    BY <1>3, <2>2 DEF Reach
  <2>3. CASE \A l \in inbox[n][i].keys : inbox[n][i].seen <= cleared'[n][l]
    BY <1>1, <1>3, <2>1, <2>3 DEF Reach
  <2> QED
    BY <2>2, <2>3 DEF NothingForgotten
<1>4. ASSUME NEW o \in Nodes, Telling(o), k \in task[o].keys, v <= task[o].seen
      PROVE  Reach(n, k, v)'
  <2>1. task[o].seen \in Int
    BY <1>4, Numbers
  <2>2. CASE Telling(o)' /\ task'[o].keys = task[o].keys /\ task'[o].seen = task[o].seen
    BY <1>4, <2>2 DEF Reach
  <2>3. CASE \A m \in Nodes \ {o} : \E j \in 1 .. Len(inbox'[m]) :
                inbox'[m][j].keys = task[o].keys /\ inbox'[m][j].seen = task[o].seen
    <3>1. CASE n # o
      BY <1>4, <2>3, <3>1 DEF Reach
    <3>2. CASE n = o
      <4>1. task[o].seen <= cleared[n][k]
        BY <1>4, <3>2 DEF TellerDone
      <4> QED
        BY <1>1, <1>4, <2>1, <4>1 DEF Reach
    <3> QED
      BY <3>1, <3>2
  <2> QED
    BY <1>4, <2>2, <2>3 DEF NothingForgotten
<1> QED
  BY <1>2, <1>3, <1>4 DEF Reach

\* So what spreads goes on spreading.
LEMMA SpreadKept ==
  ASSUME TypeOK, TypeOK', TellerDone, Spread, Handed, UNCHANGED <<redis, losses>>
  PROVE  Spread'
<1> SUFFICES ASSUME redis, losses = 0, NEW n \in Nodes, NEW m \in Nodes, NEW k \in Keys
             PROVE  /\ Reach(n, k, cleared[m][k])'
                    /\ \A i \in 1 .. Len(inbox'[m]) :
                          k \in inbox'[m][i].keys => Reach(n, k, inbox[m][i].seen)'
  BY DEF Spread
<1>1. ASSUME NEW v \in Int, Reach(n, k, v) PROVE Reach(n, k, v)'
  BY <1>1, ReachKept DEF Handed
<1>2. PICK v \in Int : v = cleared'[m][k]
  BY DEF TypeOK
<1>3. Reach(n, k, v)'
  <2>1. CASE v = cleared[m][k]
    BY <1>1, <2>1 DEF Spread
  <2>2. ASSUME NEW i \in 1 .. Len(inbox[m]), k \in inbox[m][i].keys, v = inbox[m][i].seen
        PROVE  Reach(n, k, v)'
    BY <1>1, <2>2 DEF Spread
  <2>3. CASE Telling(m)' /\ k \in task'[m].keys /\ v = task'[m].seen
    BY <2>3 DEF Reach
  <2> QED
    BY <1>2, <2>1, <2>2, <2>3 DEF Handed, NothingInvented
<1>4. Reach(n, k, cleared[m][k])'
  BY <1>2, <1>3 DEF Reach
<1>5. ASSUME NEW j \in 1 .. Len(inbox'[m]), k \in inbox'[m][j].keys
      PROVE  Reach(n, k, inbox[m][j].seen)'
  <2>1. inbox'[m][j] \in Reports
    BY ElementOfSeq DEF TypeOK
  <2>2. PICK w \in Int : w = inbox'[m][j].seen
    BY <2>1 DEF Reports
  <2>3. ASSUME NEW i \in 1 .. Len(inbox[m]), inbox'[m][j] = inbox[m][i]
        PROVE  Reach(n, k, w)'
    <3>1. Reach(n, k, inbox[m][i].seen)
      BY <1>5, <2>3 DEF Spread
    <3> QED
      BY <1>1, <2>2, <2>3, <3>1
  <2>4. ASSUME NEW o \in Nodes, Telling(o), inbox'[m][j].keys = task[o].keys,
               inbox'[m][j].seen = task[o].seen
        PROVE  Reach(n, k, w)'
    <3>1. Reach(n, k, w)
      BY <1>5, <2>2, <2>4 DEF Reach
    <3> QED
      BY <1>1, <3>1
  <2>5. Reach(n, k, w)'
    BY <2>3, <2>4 DEF Handed, NothingInvented
  <2> QED
    BY <2>2, <2>5 DEF Reach
<1> QED
  BY <1>4, <1>5

-----------------------------------------------------------------------------
(* The steps that clear, tell or are told.                                 *)

\* A mutation begins an invalidation that has not yet cleared anything.
LEMMA MutateHands ==
  ASSUME TypeOK, TellerDone, NEW n \in Nodes, NEW s \in Scopes, Mutate(n, s)
  PROVE  Handed
<1>1. UNCHANGED <<inbox, cleared>> /\ task[n] = NoTask
  BY DEF Mutate
<1>2. \A o \in Nodes \ {n} : task'[o] = task[o]
  BY DEF Mutate, TypeOK
<1>3. ~Telling(n) /\ ~Telling(n)'
  <2>1. task'[n].at = "l1"
    BY DEF Mutate, TypeOK
  <2> QED
    BY <1>1, <2>1 DEF Telling
<1>4. \A o \in Nodes : (Telling(o) <=> Telling(o)')
  BY <1>2, <1>3 DEF Telling
<1>5. \A n1 \in Nodes : \A k \in Keys : cleared[n1][k] <= cleared'[n1][k]
  BY <1>1, Numbers
<1>6. NothingForgotten
  BY <1>1, <1>2, <1>3, <1>4, <1>5 DEF NothingForgotten
<1>7. NothingInvented
  BY <1>1 DEF NothingInvented
<1>8. TellerDone'
  BY <1>1, <1>2, <1>3, <1>4 DEF TellerDone
<1> QED
  BY <1>6, <1>7, <1>8 DEF Handed

\* What a node clears is as old as it was told, or older.
LEMMA ClearGrows ==
  ASSUME TypeOK, NEW n \in Nodes, NEW found, NEW r, r.seen \in Int, ClearL1(n, found, r)
  PROVE  /\ \A m \in Nodes : \A k \in Keys : cleared[m][k] <= cleared'[m][k]
         /\ \A k \in Keys : /\ k \in r.keys => r.seen <= cleared'[n][k]
                            /\ \/ cleared'[n][k] = cleared[n][k]
                               \/ k \in r.keys /\ cleared'[n][k] = r.seen
         /\ \A m \in Nodes \ {n} : cleared'[m] = cleared[m]
<1>1. /\ \A k \in Keys : cleared'[n][k] = IF k \in r.keys THEN Later(cleared[n][k], r.seen)
                                                          ELSE cleared[n][k]
      /\ \A m \in Nodes \ {n} : cleared'[m] = cleared[m]
  BY DEF ClearL1, TypeOK
<1>2. \A m \in Nodes : \A k \in Keys : cleared[m][k] \in Int
  BY Numbers
<1>3. ASSUME NEW k \in Keys
      PROVE  /\ cleared[n][k] <= cleared'[n][k]
             /\ k \in r.keys => r.seen <= cleared'[n][k]
             /\ \/ cleared'[n][k] = cleared[n][k]
                \/ k \in r.keys /\ cleared'[n][k] = r.seen
  BY <1>1, <1>2 DEF Later
<1>4. ASSUME NEW m \in Nodes, NEW k \in Keys PROVE cleared[m][k] <= cleared'[m][k]
  BY <1>1, <1>2, <1>3
<1> QED
  BY <1>1, <1>3, <1>4

\* A node that has cleared its own L1 tells the others, if there is a Redis.
LEMMA InvalidateL1Hands ==
  ASSUME TypeOK, TellerDone, NEW n \in Nodes, InvalidateL1(n)
  PROVE  /\ NothingForgotten /\ TellerDone' /\ (redis => NothingInvented)
<1>1. task[n] \in Tasks /\ task[n].at = "l1" /\ ~Telling(n)
  BY DEF InvalidateL1, Telling, TypeOK
<1>2. task[n].keys \in SUBSET Keys /\ task[n].seen \in Int
  BY <1>1, TaskFields
<1>3. UNCHANGED inbox /\ ClearL1(n, FoundHere(n, task[n]), task[n])
  BY DEF InvalidateL1
<1>4. /\ \A m \in Nodes : \A k \in Keys : cleared[m][k] <= cleared'[m][k]
      /\ \A k \in Keys : /\ k \in task[n].keys => task[n].seen <= cleared'[n][k]
                         /\ \/ cleared'[n][k] = cleared[n][k]
                            \/ k \in task[n].keys /\ cleared'[n][k] = task[n].seen
      /\ \A m \in Nodes \ {n} : cleared'[m] = cleared[m]
  BY <1>2, <1>3, ClearGrows
<1>5. \A o \in Nodes \ {n} : task'[o] = task[o] /\ (Telling(o) <=> Telling(o)')
  BY DEF InvalidateL1, Telling, TypeOK
<1>6. \/ ~redis /\ ~Telling(n)'
      \/ redis /\ Telling(n)' /\ task'[n].keys = task[n].keys /\ task'[n].seen = task[n].seen
  <2>1. CASE redis
    <3>1. task'[n] = [task[n] EXCEPT !.at = "scan"]
      BY <2>1 DEF InvalidateL1, TypeOK
    <3>2. /\ [task[n] EXCEPT !.at = "scan"] \in Tasks
          /\ [task[n] EXCEPT !.at = "scan"].at = "scan"
          /\ [task[n] EXCEPT !.at = "scan"].keys = task[n].keys
          /\ [task[n] EXCEPT !.at = "scan"].seen = task[n].seen
      BY <1>1 DEF Tasks
    <3> QED
      BY <2>1, <3>1, <3>2 DEF Telling
  <2>2. CASE ~redis
    <3>1. task'[n] = NoTask
      BY <2>2 DEF InvalidateL1, TypeOK
    <3> QED
      BY <2>2, <3>1 DEF Telling
  <2> QED
    BY <2>1, <2>2
<1>7. NothingForgotten
  BY <1>1, <1>3, <1>4, <1>5 DEF NothingForgotten
<1>8. redis => NothingInvented
  BY <1>3, <1>4, <1>6 DEF NothingInvented
<1>9. TellerDone'
  BY <1>1, <1>2, <1>4, <1>5, <1>6, Numbers DEF TellerDone
<1> QED
  BY <1>7, <1>8, <1>9

\* The scan of Redis leaves an invalidation what it is.
LEMMA ScanHands ==
  ASSUME TypeOK, TellerDone, NEW n \in Nodes, ScanL2(n)
  PROVE  Handed
<1>1. UNCHANGED <<inbox, cleared>> /\ task[n] \in Tasks /\ task[n] # NoTask
  BY DEF ScanL2, TypeOK
<1>2. PICK t \in Tasks : /\ task' = [task EXCEPT ![n] = t]
                         /\ t.at = "del" /\ t.keys = task[n].keys /\ t.seen = task[n].seen
  <2>1. PICK M \in SUBSET Keys : task' = [task EXCEPT ![n] =
           [scope |-> task[n].scope, keys |-> task[n].keys, seen |-> task[n].seen,
            at |-> "del", members |-> M]]
    BY <1>1, TaskFields DEF ScanL2
  <2>2. [scope |-> task[n].scope, keys |-> task[n].keys, seen |-> task[n].seen,
         at |-> "del", members |-> M] \in Tasks
    BY <1>1, TaskFields DEF Tasks
  <2> QED
    BY <2>1, <2>2
<1>3. task'[n] = t
  BY <1>2 DEF TypeOK
<1>4. /\ Telling(n) /\ Telling(n)'
      /\ task'[n].keys = task[n].keys /\ task'[n].seen = task[n].seen
  BY <1>2, <1>3 DEF ScanL2, Telling
<1>5. \A o \in Nodes \ {n} : task'[o] = task[o] /\ (Telling(o) <=> Telling(o)')
  BY <1>2 DEF Telling, TypeOK
<1>6. \A m \in Nodes : \A k \in Keys : cleared[m][k] <= cleared'[m][k]
  BY <1>1, Numbers
<1>7. NothingForgotten
  BY <1>1, <1>4, <1>5, <1>6 DEF NothingForgotten
<1>8. NothingInvented
  BY <1>1 DEF NothingInvented
<1>9. TellerDone'
  BY <1>1, <1>4, <1>5 DEF TellerDone
<1> QED
  BY <1>7, <1>8, <1>9 DEF Handed

\* The message goes to every other node; the node itself is done.
LEMMA InvalidateL2Hands ==
  ASSUME TypeOK, TellerDone, NEW n \in Nodes, InvalidateL2(n)
  PROVE  Handed
<1>1. UNCHANGED cleared /\ Telling(n) /\ inbox'[n] = inbox[n]
  BY Publishing DEF InvalidateL2, Telling
<1>2. \A o \in Nodes \ {n} : task'[o] = task[o] /\ (Telling(o) <=> Telling(o)')
  BY DEF InvalidateL2, Telling, TypeOK
<1>3. ~Telling(n)'
  BY DEF InvalidateL2, Telling, TypeOK
<1>4. ASSUME NEW m \in Nodes \ {n}
      PROVE  /\ Len(inbox'[m]) = Len(inbox[m]) + 1 /\ Len(inbox[m]) \in Nat
             /\ \A i \in 1 .. Len(inbox[m]) : inbox'[m][i] = inbox[m][i]
             /\ inbox'[m][Len(inbox[m]) + 1].keys = task[n].keys
             /\ inbox'[m][Len(inbox[m]) + 1].seen = task[n].seen
  BY Appended
<1>5. \A m \in Nodes : \A k \in Keys : cleared[m][k] <= cleared'[m][k]
  BY <1>1, Numbers
<1>6. ASSUME NEW m \in Nodes, NEW i \in 1 .. Len(inbox[m])
      PROVE  \E j \in 1 .. Len(inbox'[m]) : inbox'[m][j] = inbox[m][i]
  <2>1. CASE m = n
    BY <1>1, <2>1
  <2>2. CASE m # n
    <3>1. i \in 1 .. Len(inbox'[m]) /\ inbox'[m][i] = inbox[m][i]
      BY <1>4, <2>2
    <3> QED
      BY <3>1
  <2> QED
    BY <2>1, <2>2
<1>7. ASSUME NEW m \in Nodes \ {n}
      PROVE  \E j \in 1 .. Len(inbox'[m]) :
                inbox'[m][j].keys = task[n].keys /\ inbox'[m][j].seen = task[n].seen
  <2>1. Len(inbox[m]) + 1 \in 1 .. Len(inbox'[m])
    BY <1>4
  <2> QED
    BY <1>4, <2>1
<1>8. NothingForgotten
  BY <1>2, <1>5, <1>6, <1>7 DEF NothingForgotten
<1>9. ASSUME NEW m \in Nodes, NEW j \in 1 .. Len(inbox'[m])
      PROVE  \/ \E i \in 1 .. Len(inbox[m]) : inbox'[m][j] = inbox[m][i]
             \/ inbox'[m][j].keys = task[n].keys /\ inbox'[m][j].seen = task[n].seen
  <2>1. CASE m = n
    BY <1>1, <2>1
  <2>2. CASE m # n
    <3>1. j \in 1 .. Len(inbox[m]) \/ j = Len(inbox[m]) + 1
      BY <1>4, <2>2
    <3> QED
      BY <1>4, <2>2, <3>1
  <2> QED
    BY <2>1, <2>2
<1>10. NothingInvented
  BY <1>1, <1>9 DEF NothingInvented
<1>11. TellerDone'
  BY <1>1, <1>2, <1>3 DEF TellerDone
<1> QED
  BY <1>8, <1>10, <1>11 DEF Handed

\* What is taken from the line is done.
LEMMA ReceiveHands ==
  ASSUME TypeOK, TellerDone, NEW n \in Nodes, Receive(n)
  PROVE  Handed
<1>1. inbox[n] # <<>> /\ inbox' = [inbox EXCEPT ![n] = Tail(@)] /\ UNCHANGED task
  BY DEF Receive
<1>2. /\ \A m \in Nodes \ {n} : inbox'[m] = inbox[m]
      /\ Head(inbox[n]) \in Reports /\ Head(inbox[n]) = inbox[n][1]
      /\ Len(inbox'[n]) = Len(inbox[n]) - 1 /\ Len(inbox[n]) \in Nat \ {0}
      /\ \A i \in 1 .. Len(inbox'[n]) : inbox'[n][i] = inbox[n][i + 1]
  BY <1>1, TakingFirst
<1>3. PICK r \in Reports : r = inbox[n][1]
  BY <1>2
<1>4. r.keys \in SUBSET Keys /\ r.seen \in Int
  BY DEF Reports
<1>5. ClearL1(n, Found(n, r.scope, r.keys), r)
  BY <1>2, <1>3 DEF Receive
<1>6. /\ \A m \in Nodes : \A k \in Keys : cleared[m][k] <= cleared'[m][k]
      /\ \A k \in Keys : /\ k \in r.keys => r.seen <= cleared'[n][k]
                         /\ \/ cleared'[n][k] = cleared[n][k]
                            \/ k \in r.keys /\ cleared'[n][k] = r.seen
      /\ \A m \in Nodes \ {n} : cleared'[m] = cleared[m]
  BY <1>4, <1>5, ClearGrows
<1>7. ASSUME NEW i \in 1 .. Len(inbox[n])
      PROVE  \/ \E j \in 1 .. Len(inbox'[n]) : inbox'[n][j] = inbox[n][i]
             \/ \A k \in inbox[n][i].keys : inbox[n][i].seen <= cleared'[n][k]
  <2>1. CASE i = 1
    BY <1>3, <1>4, <1>6, <2>1
  <2>2. CASE i # 1
    <3>1. i - 1 \in 1 .. Len(inbox'[n]) /\ inbox'[n][i - 1] = inbox[n][i]
      BY <1>2, <2>2
    <3> QED
      BY <3>1
  <2> QED
    BY <2>1, <2>2
<1>8. \A o \in Nodes : Telling(o) <=> Telling(o)'
  BY <1>1 DEF Telling
<1>9. NothingForgotten
  <2>1. ASSUME NEW m \in Nodes, NEW i \in 1 .. Len(inbox[m])
        PROVE  \/ \E j \in 1 .. Len(inbox'[m]) : inbox'[m][j] = inbox[m][i]
               \/ \A k \in inbox[m][i].keys : inbox[m][i].seen <= cleared'[m][k]
    <3>1. CASE m = n
      BY <1>7, <3>1
    <3>2. CASE m # n
      BY <1>2, <3>2
    <3> QED
      BY <3>1, <3>2
  <2> QED
    BY <1>1, <1>6, <1>8, <2>1 DEF NothingForgotten
<1>10. ASSUME NEW j \in 1 .. Len(inbox'[n])
       PROVE  \E i \in 1 .. Len(inbox[n]) : inbox'[n][j] = inbox[n][i]
  <2>1. j + 1 \in 1 .. Len(inbox[n]) /\ inbox'[n][j] = inbox[n][j + 1]
    BY <1>2
  <2> QED
    BY <2>1
<1>11. 1 \in 1 .. Len(inbox[n])
  BY <1>2
<1>12. NothingInvented
  <2>1. ASSUME NEW m \in Nodes, NEW k \in Keys
        PROVE  \/ cleared'[m][k] = cleared[m][k]
               \/ \E i \in 1 .. Len(inbox[m]) :
                     k \in inbox[m][i].keys /\ cleared'[m][k] = inbox[m][i].seen
    <3>1. CASE m = n
      BY <1>3, <1>6, <1>11, <3>1
    <3>2. CASE m # n
      BY <1>6, <3>2
    <3> QED
      BY <3>1, <3>2
  <2>2. ASSUME NEW m \in Nodes, NEW j \in 1 .. Len(inbox'[m])
        PROVE  \E i \in 1 .. Len(inbox[m]) : inbox'[m][j] = inbox[m][i]
    <3>1. CASE m = n
      BY <1>10, <3>1
    <3>2. CASE m # n
      BY <1>2, <3>2
    <3> QED
      BY <3>1, <3>2
  <2> QED
    BY <2>1, <2>2 DEF NothingInvented
<1>13. TellerDone'
  <2> SUFFICES ASSUME NEW o \in Nodes, Telling(o), NEW k \in task[o].keys
               PROVE  task[o].seen <= cleared'[o][k]
    BY <1>1, <1>8 DEF TellerDone
  <2>1. /\ k \in Keys /\ task[o].seen \in Int /\ cleared[o][k] \in Int
    BY Numbers
  <2>2. cleared'[o][k] \in Int
    <3>1. CASE o = n
      BY <1>4, <1>6, <2>1, <3>1
    <3>2. CASE o # n
      BY <1>6, <2>1, <3>2
    <3> QED
      BY <3>1, <3>2
  <2>3. task[o].seen <= cleared[o][k] /\ cleared[o][k] <= cleared'[o][k]
    BY <1>6, <2>1 DEF TellerDone
  <2> QED
    BY <2>1, <2>2, <2>3
<1> QED
  BY <1>9, <1>12, <1>13 DEF Handed

\* Invalidations spread at every step, until a message is lost.
LEMMA NextSpread ==
  ASSUME TypeOK, TypeOK', TellerDone, Spread, [Next]_vars
  PROVE  TellerDone' /\ Spread'
<1>1. ASSUME UNCHANGED <<redis, losses, task, inbox, cleared>> PROVE TellerDone' /\ Spread'
  BY <1>1 DEF TellerDone, Spread, Telling, Reach
<1>2. ASSUME Handed, UNCHANGED <<redis, losses>> PROVE TellerDone' /\ Spread'
  BY <1>2, SpreadKept DEF Handed
<1>3. ASSUME NEW n \in Nodes, InvalidateL1(n) PROVE TellerDone' /\ Spread'
  <2>1. NothingForgotten /\ TellerDone' /\ (redis => NothingInvented)
    BY <1>3, InvalidateL1Hands
  <2>2. UNCHANGED <<redis, losses>>
    BY <1>3 DEF InvalidateL1
  <2>3. CASE redis
    BY <1>2, <2>1, <2>2, <2>3 DEF Handed
  <2>4. CASE ~redis
    BY <2>1, <2>2, <2>4 DEF Spread
  <2> QED
    BY <2>3, <2>4
<1>4. ASSUME NEW n \in Nodes, Lose(n) PROVE TellerDone' /\ Spread'
  <2>1. losses' # 0
    BY <1>4 DEF Lose, TypeOK
  <2>2. UNCHANGED <<task, cleared>>
    BY <1>4 DEF Lose
  <2> QED
    BY <2>1, <2>2 DEF TellerDone, Spread, Telling
<1>5. ASSUME NEW n \in Nodes, ScanL2(n) \/ InvalidateL2(n) \/ Receive(n)
      PROVE  TellerDone' /\ Spread'
  <2>1. UNCHANGED <<redis, losses>>
    BY <1>5 DEF ScanL2, InvalidateL2, Receive
  <2> QED
    BY <1>2, <1>5, <2>1, ScanHands, InvalidateL2Hands, ReceiveHands
<1>6. ASSUME NEW n \in Nodes, NEW s \in Scopes, Mutate(n, s) PROVE TellerDone' /\ Spread'
  <2>1. UNCHANGED <<redis, losses>>
    BY <1>6 DEF Mutate
  <2> QED
    BY <1>2, <1>6, <2>1, MutateHands
<1>7. ASSUME NEW n \in Nodes, NEW k \in Keys,
             StartPromotion(n, k) \/ Evict(n, k) \/ \E p \in Fills : StartFetch(n, k, p)
      PROVE  TellerDone' /\ Spread'
  <2>1. UNCHANGED <<redis, losses, task, inbox, cleared>>
    BY <1>7 DEF StartPromotion, Evict, StartFetch
  <2> QED
    BY <1>1, <2>1
<1>8. ASSUME NEW n \in Nodes, NEW f \in fetches[n], EndFetch(n, f) \/ FetchFails(n, f)
      PROVE  TellerDone' /\ Spread'
  <2>1. UNCHANGED <<redis, losses, task, inbox, cleared>>
    BY <1>8 DEF EndFetch, FetchFails
  <2> QED
    BY <1>1, <2>1
<1>9. ASSUME NEW n \in Nodes, Flush(n) PROVE TellerDone' /\ Spread'
  BY <1>1, <1>9 DEF Flush
<1>10. ASSUME NEW k \in Keys, Expire(k) PROVE TellerDone' /\ Spread'
  BY <1>1, <1>10 DEF Expire
<1>11. CASE UNCHANGED vars
  BY <1>1, <1>11 DEF vars
<1> QED
  BY <1>3, <1>4, <1>5, <1>6, <1>7, <1>8, <1>9, <1>10, <1>11, WritersAssumption
     DEF Next, Invalidate

-----------------------------------------------------------------------------
\* At first nothing has been invalidated, and nothing is indexed.
LEMMA InitInv == Init => CacheInv
<1> SUFFICES ASSUME Init PROVE CacheInv
  OBVIOUS
<1>1. \A n \in Nodes : inbox[n] = <<>> /\ task[n] = NoTask /\ index[n] = {} /\ fetches[n] = {}
  BY DEF Init
<1>2. \A n \in Nodes : \A k \in Keys : cleared[n][k] = 0
  BY DEF Init
<1>3. \A n \in Nodes : ~Telling(n) /\ 1 .. Len(inbox[n]) = {}
  BY <1>1 DEF Telling
<1>4. Known
  BY <1>1, <1>2, <1>3 DEF Known, Init
<1>5. OwnIsCurrent
  BY <1>1 DEF OwnIsCurrent
<1>6. TellerDone
  BY <1>3 DEF TellerDone
<1>7. Spread
  BY <1>2, <1>3 DEF Spread, Reach
<1> QED
  BY <1>4, <1>5, <1>6, <1>7, InitType DEF CacheInv

LEMMA NextInv == CacheInv /\ [Next]_vars => CacheInv'
BY NextType, NextOwn, NextSpread DEF CacheInv, OwnInv

\* When nothing is under way, what one node has invalidated every node has; an
\* entry the node has read itself and indexed is no older.
LEMMA SpreadIsGone == CacheInv => ClearedIsGone
<1> SUFFICES ASSUME CacheInv, NEW n \in Nodes, NEW m \in Nodes, NEW k \in index[n],
                    l1[n][k].own, m = n \/ (redis /\ Quiet /\ losses = 0)
             PROVE  l1[n][k].ver >= cleared[m][k]
  BY DEF ClearedIsGone
<1>1. k \in Keys /\ l1[n][k] # NoEntry /\ l1[n][k].ver >= cleared[n][k]
  BY DEF CacheInv, TypeOK, OwnIsCurrent
<1>2. l1[n][k] \in Entries
  BY <1>1 DEF CacheInv, TypeOK
<1>3. l1[n][k].ver \in Int /\ cleared[n][k] \in Int /\ cleared[m][k] \in Int
  BY <1>1, <1>2, Numbers DEF CacheInv, Entries
<1>4. CASE m = n
  BY <1>1, <1>4
<1>5. CASE redis /\ Quiet /\ losses = 0
  <2>1. Reach(n, k, cleared[m][k])
    BY <1>1, <1>5 DEF CacheInv, Spread
  <2>2. /\ 1 .. Len(inbox[n]) = {} /\ \A o \in Nodes : ~Telling(o)
    BY <1>5 DEF Quiet, Telling
  <2>3. cleared[m][k] <= cleared[n][k]
    BY <2>1, <2>2 DEF Reach
  <2> QED
    BY <1>1, <1>3, <2>3
<1> QED
  BY <1>4, <1>5

\* clearLocalL1ByTags, clearLocalL1ByPattern and edge-sync: what a node has read
\* itself and indexed is never older than an invalidation it has carried out or
\* been told of, nor, when none is under way and no message was lost, than one
\* of any node.
THEOREM ClearedStaysGone == Spec => []ClearedIsGone
<1> QED
  BY InitInv, NextInv, SpreadIsGone, PTL DEF Spec
=============================================================================
