-------------------------------- MODULE Cache --------------------------------
(***************************************************************************)
(* The two-level cache of a set of nodes: a local LRU with its tag and     *)
(* prefix indexes (L1), a shared Redis (L2) written in batches, fills with *)
(* one fetch at a time per key, stale-while-revalidate, and invalidation   *)
(* by tag, by pattern and by key, published to the other nodes.            *)
(*                                                                         *)
(* The keys of the model are views of one collection: they have its tag,   *)
(* its prefix and its prefix bucket in common, and any mutation of the     *)
(* collection makes them all out of date.                                  *)
(***************************************************************************)
EXTENDS Integers, Sequences, FiniteSets

CONSTANTS
    Nodes,          \* processes with a cache of their own
    Writers,        \* those where the collection is changed
    SwrKeys,        \* keys read with getOrSetSWR
    PlainKeys,      \* keys read with get and written with set
    NoEntry,        \* nothing is cached
    NoTask,         \* no invalidation is under way
    MaxVersion,     \* bound: mutations of the collection
    MaxFetches,     \* bound: fetches and promotions
    MaxLosses       \* bound: messages that are not delivered

ASSUME WritersAssumption == Writers \subseteq Nodes
ASSUME KeysAssumption == SwrKeys \cap PlainKeys = {}
ASSUME BoundsAssumption ==
    MaxVersion \in Nat \ {0} /\ MaxFetches \in Nat /\ MaxLosses \in Nat

Keys == SwrKeys \cup PlainKeys

VARIABLES
    redis,      \* whether there is a second level
    db,         \* version of the collection in the database
    l1,         \* cacheService.l1 of a node
    index,      \* keys in its keyToTags, tagMap and prefixMap
    fetches,    \* fetches under way at a node, one per key and purpose
    fetched,    \* fetches so far
    buffer,     \* RedisWriteBatcher.writeBuffer of a node
    l2,         \* the values in Redis
    l2tagged,   \* the tag set in Redis
    task,       \* the invalidation a node is carrying out
    inbox,      \* invalidation messages on their way to a node
    cleared,    \* version up to which a node has invalidated a key
    losses

vars == <<redis, db, l1, index, fetches, fetched, buffer, l2, l2tagged, task, inbox,
          cleared, losses>>

Versions == 0 .. MaxVersion

\* own: read from the database by this node, with no invalidation of the key
\* at this node since.  A value taken from Redis is not.
Entries == [ver : Versions, own : BOOLEAN]

Fills == {"set", "miss", "refresh"}
Purposes == Fills \cup {"promote"}
Fetches == [key : Keys, purpose : Purposes, ver : Versions, own : BOOLEAN]

\* By tag; by pattern of one tenant; by pattern of all tenants; by key.
Scopes == {"tag", "pattern", "wildcard", "key"}
Reports == [scope : Scopes, keys : SUBSET Keys, seen : Versions]
Tasks == [scope : Scopes, keys : SUBSET Keys, seen : Versions,
          at : {"l1", "scan"}]
    \cup [scope : Scopes, keys : SUBSET Keys, seen : Versions,
          at : {"del"}, members : SUBSET Keys]

ASSUME NothingAssumption == NoEntry \notin Entries /\ NoTask \notin Tasks

Init ==
    /\ redis \in BOOLEAN
    /\ db = 0
    /\ l1 = [n \in Nodes |-> [k \in Keys |-> NoEntry]]
    /\ index = [n \in Nodes |-> {}]
    /\ fetches = [n \in Nodes |-> {}]
    /\ fetched = 0
    /\ buffer = [n \in Nodes |-> [k \in Keys |-> NoEntry]]
    /\ l2 = [k \in Keys |-> NoEntry]
    /\ l2tagged = {}
    /\ task = [n \in Nodes |-> NoTask]
    /\ inbox = [n \in Nodes |-> <<>>]
    /\ cleared = [n \in Nodes |-> [k \in Keys |-> 0]]
    /\ losses = 0

Cached(n) == {k \in Keys : l1[n][k] # NoEntry}
InRedis == {k \in Keys : l2[k] # NoEntry}

-----------------------------------------------------------------------------
(* Reads and fills.                                                        *)

\* An aged entry is served and refreshed behind the reader's back; without an
\* entry the reader waits.  Readers of a key share one fetch per purpose.
MayFetch(n, k, purpose) ==
    /\ \A f \in fetches[n] : ~(f.key = k /\ f.purpose = purpose)
    /\ purpose = "set" => k \in PlainKeys /\ l1[n][k] = NoEntry
    /\ purpose = "miss" => k \in SwrKeys
    /\ purpose = "refresh" => k \in SwrKeys /\ l1[n][k] # NoEntry
    /\ purpose = "promote" => redis /\ l2[k] # NoEntry /\ l1[n][k] = NoEntry

StartFetch(n, k, purpose) ==
    /\ MayFetch(n, k, purpose)
    /\ fetched < MaxFetches
    /\ fetched' = fetched + 1
    /\ fetches' = [fetches EXCEPT ![n] = @ \cup
            {[key |-> k, purpose |-> purpose, ver |-> db, own |-> TRUE]}]
    /\ UNCHANGED <<redis, db, l1, index, buffer, l2, l2tagged, task, inbox,
                   cleared, losses>>

\* get(), getMany(), getOrSetSWR() and waitForCache() copy what Redis has to
\* L1, after awaiting it.
StartPromotion(n, k) ==
    /\ MayFetch(n, k, "promote")
    /\ fetched < MaxFetches
    /\ fetched' = fetched + 1
    /\ fetches' = [fetches EXCEPT ![n] = @ \cup
            {[key |-> k, purpose |-> "promote", ver |-> l2[k], own |-> FALSE]}]
    /\ UNCHANGED <<redis, db, l1, index, buffer, l2, l2tagged, task, inbox,
                   cleared, losses>>

\* l1.set disposes of the entry it replaces, its place in the indexes
\* included; set() and the miss path then index the new one, a refresh and a
\* promotion do not.
Indexed(n, f) ==
    IF f.purpose \in {"set", "miss"} THEN index[n] \cup {f.key}
                                    ELSE index[n] \ {f.key}

\* A fill puts what it read, whatever happened since.  set() leaves its Redis
\* write to the next batch, the miss path and the refresh write it at once.
EndFetch(n, f) ==
    /\ f \in fetches[n]
    /\ fetches' = [fetches EXCEPT ![n] = @ \ {f}]
    /\ l1' = [l1 EXCEPT ![n][f.key] = [ver |-> f.ver, own |-> f.own]]
    /\ index' = [index EXCEPT ![n] = Indexed(n, f)]
    /\ buffer' = IF redis /\ f.purpose = "set"
                   THEN [buffer EXCEPT ![n][f.key] = f.ver] ELSE buffer
    /\ l2' = IF redis /\ f.purpose \in {"miss", "refresh"} THEN [l2 EXCEPT ![f.key] = f.ver]
                                           ELSE l2
    /\ UNCHANGED <<redis, fetched, db, l2tagged, task, inbox, cleared, losses>>

\* The query throws, or there is nothing to cache.
FetchFails(n, f) ==
    /\ f \in fetches[n]
    /\ fetches' = [fetches EXCEPT ![n] = @ \ {f}]
    /\ UNCHANGED <<redis, fetched, db, l1, index, buffer, l2, l2tagged, task, inbox,
                   cleared, losses>>

Disposed(n, k) == index[n] \ {k}

\* The LRU drops an entry: its time is up, or room is needed.
Evict(n, k) ==
    /\ l1[n][k] # NoEntry
    /\ l1' = [l1 EXCEPT ![n][k] = NoEntry]
    /\ index' = [index EXCEPT ![n] = Disposed(n, k)]
    /\ UNCHANGED <<redis, fetched, db, fetches, buffer, l2, l2tagged, task, inbox, cleared,
                   losses>>

\* The batch: every buffered value and its place in the tag set.
Flush(n) ==
    LET Buffered == {k \in Keys : buffer[n][k] # NoEntry}
    IN  /\ Buffered # {}
        /\ l2' = [k \in Keys |-> IF k \in Buffered THEN buffer[n][k] ELSE l2[k]]
        /\ l2tagged' = l2tagged \cup Buffered
        /\ buffer' = [buffer EXCEPT ![n] = [k \in Keys |-> NoEntry]]
        /\ UNCHANGED <<redis, fetched, db, l1, index, fetches, task, inbox, cleared, losses>>

Expire(k) ==
    /\ l2[k] # NoEntry
    /\ l2' = [l2 EXCEPT ![k] = NoEntry]
    /\ UNCHANGED <<redis, fetched, db, l1, index, fetches, buffer, l2tagged, task, inbox,
                   cleared, losses>>

-----------------------------------------------------------------------------
(* Invalidation.                                                           *)

Covers(scope) == IF scope = "key" THEN {{k} : k \in Keys} ELSE {Keys}

\* The collection changes at node n, which then invalidates.
Mutate(n, scope) ==
    /\ task[n] = NoTask
    /\ db < MaxVersion
    /\ db' = db + 1
    /\ \E keys \in Covers(scope) : task' = [task EXCEPT ![n] =
            [scope |-> scope, keys |-> keys, seen |-> db', at |-> "l1"]]
    /\ UNCHANGED <<redis, fetched, l1, index, fetches, buffer, l2, l2tagged, inbox, cleared,
                   losses>>

\* Defect: the lookup takes the tag as it is, without the tenant it was
\* stored under.
FoundUnscoped(n, scope, keys) == IF scope = "tag" THEN {} ELSE keys

\* What an invalidation finds in L1: by tag, what the tag index knows; by
\* pattern, what the bucket knows, or without a bucket or a tenant every
\* entry that matches.
Found(n, scope, keys) ==
    CASE scope = "tag" -> keys \cap index[n]
      [] scope \in {"pattern", "key"} ->
            IF index[n] # {} THEN keys \cap index[n] ELSE keys
      [] scope = "wildcard" -> keys

Later(v, w) == IF v > w THEN v ELSE w

\* The entries found go.  What is being fetched, or was not found, is from
\* before the invalidation and stays.
ClearL1(n, found, r) ==
    /\ l1' = [l1 EXCEPT ![n] =
            [k \in Keys |-> IF k \in found THEN NoEntry ELSE l1[n][k]]]
    /\ index' = [index EXCEPT ![n] = @ \ found]
    /\ fetches' = [fetches EXCEPT ![n] =
            {[f EXCEPT !.own = @ /\ f.key \notin r.keys] : f \in @}]
    /\ cleared' = [cleared EXCEPT ![n] =
            [k \in Keys |-> IF k \in r.keys THEN Later(@[k], r.seen) ELSE @[k]]]

\* delete() takes its own key, the others what they find.
FoundHere(n, r) ==
    IF r.scope = "key" THEN r.keys ELSE Found(n, r.scope, r.keys)

InvalidateL1(n) ==
    /\ task[n] # NoTask /\ task[n].at = "l1"
    /\ ClearL1(n, FoundHere(n, task[n]), task[n])
    /\ task' = [task EXCEPT ![n] = IF redis THEN [@ EXCEPT !.at = "scan"] ELSE NoTask]
    /\ UNCHANGED <<redis, fetched, db, buffer, l2, l2tagged, inbox, losses>>

Report(t) == [scope |-> t.scope, keys |-> t.keys, seen |-> t.seen]

\* Defects: the other nodes are not told; they are told in another form.
PublishedNot(n) == inbox

PublishedRaw(n) ==
    [m \in Nodes |-> IF m = n THEN inbox[m] ELSE Append(inbox[m], task[n])]

Published(n) ==
    [m \in Nodes |-> IF m = n THEN inbox[m] ELSE Append(inbox[m], Report(task[n]))]

\* sMembers of the tag, or a scan of the keys.  The answer is awaited.
ScanL2(n) ==
    /\ task[n] # NoTask /\ task[n].at = "scan"
    /\ LET members == IF task[n].scope = "tag" THEN l2tagged ELSE InRedis
       IN  task' = [task EXCEPT ![n] =
                [scope |-> @.scope, keys |-> @.keys, seen |-> @.seen, at |-> "del",
                 members |-> @.keys \cap members]]
    /\ UNCHANGED <<redis, fetched, db, l1, index, fetches, buffer, l2, l2tagged, inbox,
                   cleared, losses>>

\* The keys that were found then are deleted, the tag set with them, and the
\* other nodes are told.
InvalidateL2(n) ==
    /\ task[n] # NoTask /\ task[n].at = "del"
    /\ l2' = [k \in Keys |-> IF k \in task[n].members THEN NoEntry ELSE l2[k]]
    /\ l2tagged' = IF task[n].scope = "tag" THEN {} ELSE l2tagged
    /\ inbox' = Published(n)
    /\ task' = [task EXCEPT ![n] = NoTask]
    /\ UNCHANGED <<redis, fetched, db, l1, index, fetches, buffer, cleared, losses>>

\* The subscriber of another node.  A deleted key comes as a pattern.
Receive(n) ==
    /\ inbox[n] # <<>>
    /\ LET r == Head(inbox[n]) IN ClearL1(n, Found(n, r.scope, r.keys), r)
    /\ inbox' = [inbox EXCEPT ![n] = Tail(@)]
    /\ UNCHANGED <<redis, fetched, db, buffer, l2, l2tagged, task, losses>>

\* A message reaches no subscriber that is disconnected.
Lose(n) ==
    /\ inbox[n] # <<>> /\ losses < MaxLosses
    /\ inbox' = [inbox EXCEPT ![n] = Tail(@)]
    /\ losses' = losses + 1
    /\ UNCHANGED <<redis, fetched, db, l1, index, fetches, buffer, l2, l2tagged, task,
                   cleared>>

-----------------------------------------------------------------------------
Invalidate(n) == InvalidateL1(n) \/ ScanL2(n) \/ InvalidateL2(n)

Next ==
    \/ \E n \in Nodes :
        \/ \E k \in Keys :
            \/ \E p \in Fills : StartFetch(n, k, p)
            \/ StartPromotion(n, k)
            \/ Evict(n, k)
        \/ \E f \in fetches[n] : EndFetch(n, f) \/ FetchFails(n, f)
        \/ Flush(n)
        \/ Invalidate(n)
        \/ Receive(n)
        \/ Lose(n)
    \/ \E n \in Writers, s \in Scopes : Mutate(n, s)
    \/ \E k \in Keys : Expire(k)

\* An invalidation that has begun goes on, and its message is received.
Fairness == \A n \in Nodes : WF_vars(Invalidate(n)) /\ WF_vars(Receive(n))

Spec == Init /\ [][Next]_vars /\ Fairness

-----------------------------------------------------------------------------
\* Types of the two levels, the fetches under way and the messages.
TypeOK ==
    /\ redis \in BOOLEAN
    /\ db \in Versions
    /\ l1 \in [Nodes -> [Keys -> Entries \cup {NoEntry}]]
    /\ index \in [Nodes -> SUBSET Keys]
    /\ fetches \in [Nodes -> SUBSET Fetches]
    /\ fetched \in 0 .. MaxFetches
    /\ buffer \in [Nodes -> [Keys -> Versions \cup {NoEntry}]]
    /\ l2 \in [Keys -> Versions \cup {NoEntry}]
    /\ l2tagged \subseteq Keys
    /\ task \in [Nodes -> Tasks \cup {NoTask}]
    /\ inbox \in [Nodes -> Seq(Reports)]
    /\ cleared \in [Nodes -> [Keys -> Versions]]
    /\ losses \in 0 .. MaxLosses

Current(n, k) == l1[n][k].ver >= cleared[n][k]

Quiet == \A n \in Nodes : task[n] = NoTask /\ inbox[n] = <<>>

\* clearLocalL1ByTags, clearLocalL1ByPattern and edge-sync: an entry a node has
\* read itself and has indexed does not survive an invalidation of its key that
\* the node carried out or was told of; nor, once no invalidation is under way
\* and unless a message was lost, one of any other node.
ClearedIsGone ==
    \A n, m \in Nodes : \A k \in index[n] :
        l1[n][k].own /\ (m = n \/ (redis /\ Quiet /\ losses = 0))
            => l1[n][k].ver >= cleared[m][k]

\* Cache system documentation: after a mutation and its invalidation "every
\* filtered page, sort, and search variant is cleared", refreshed or not.
InvalidatedIsGone ==
    \A n \in Nodes : \A k \in Cached(n) : l1[n][k].own => Current(n, k)

Agree == \A n, m \in Nodes : cleared[n] = cleared[m]

\* publishInvalidation: time and again no invalidation is under way, and
\* unless a message was lost or there is no Redis to carry it, what one node
\* has invalidated every node has.
InvalidationArrives == []<>(Quiet /\ (redis /\ losses = 0 => Agree))

=============================================================================
