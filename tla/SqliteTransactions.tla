------------------------- MODULE SqliteTransactions -------------------------
(***************************************************************************)
(* Writes and transactions of the SQLite adapter.  All requests of the     *)
(* process share one connection; a re-entrant mutex puts transactions and  *)
(* the writes that are declared as such one after the other.  Writes that  *)
(* are not declared (wrap() without isWrite) go straight to the connection *)
(* under bun:sqlite and through the mutex, statement by statement, under   *)
(* node:sqlite.                                                            *)
(***************************************************************************)
EXTENDS Naturals, Sequences

CONSTANTS
    Requests,       \* requests that write
    NoRequest,      \* nobody holds the mutex
    MaxWrites,      \* bound: writes in one transaction
    MaxTxCrashes    \* bound: crashes of the process

ASSUME NoRequestAssumption == NoRequest \notin Requests
ASSUME TxBoundsAssumption == MaxWrites \in Nat \ {0} /\ MaxTxCrashes \in Nat

VARIABLES
    driver,     \* "bun" or "node": which SQLite driver was found
    kind,       \* what a request is: a transaction, a declared or a bare write
    pc,         \* where it stands
    writes,     \* statements it has executed
    nested,     \* writes executed when its nested transaction() call failed
    queue,      \* Mutex.queue: requests in line
    holder,     \* the request whose section runs
    open,       \* a transaction is open on the connection
    pending,    \* writes in the open transaction
    durable,    \* committed writes
    txCrashes

txVars == <<driver, kind, pc, writes, nested, queue, holder, open, pending,
            durable, txCrashes>>

Kinds == {"none", "tx", "write", "bare"}
Answered == {"ok", "failed", "lost"}
NotNested == MaxWrites + 1

\* Writes are numbered within their request.
Writes == Requests \X (1 .. MaxWrites)

TxInit ==
    /\ driver \in {"bun", "node"}
    /\ kind = [r \in Requests |-> "none"]
    /\ pc = [r \in Requests |-> "idle"]
    /\ writes = [r \in Requests |-> 0]
    /\ nested = [r \in Requests |-> NotNested]
    /\ queue = <<>>
    /\ holder = NoRequest
    /\ open = FALSE
    /\ pending = {}
    /\ durable = {}
    /\ txCrashes = 0

-----------------------------------------------------------------------------
\* Defect: wrap() ignores isWrite.
BypassesAlways(k) == k # "tx"

\* A request goes in line, or round the mutex.
Bypasses(k) == k = "bare" /\ driver = "bun"

Arrive(r, k) ==
    /\ pc[r] = "idle"
    /\ kind' = [kind EXCEPT ![r] = k]
    /\ pc' = [pc EXCEPT ![r] = IF Bypasses(k) THEN "body" ELSE "queued"]
    /\ queue' = IF Bypasses(k) THEN queue ELSE Append(queue, r)
    /\ UNCHANGED <<driver, writes, nested, holder, open, pending, durable,
                   txCrashes>>

\* The next section starts when the one before it has settled its promise.
MayEnter(r) == holder = NoRequest

\* Defect: a section leaves a mark in place of nobody.
ReleasedMark(r) == "free"

Released(r) == IF holder = r THEN NoRequest ELSE holder

\* ROLLBACK; without an open transaction it throws and nobody notices.
RolledBack == open' = FALSE /\ pending' = {}

EnterWrite(r) ==
    /\ queue # <<>> /\ r = Head(queue) /\ MayEnter(r)
    /\ kind[r] # "tx"
    /\ queue' = Tail(queue)
    /\ holder' = r
    /\ pc' = [pc EXCEPT ![r] = "body"]
    /\ UNCHANGED <<driver, kind, writes, nested, open, pending, durable,
                   txCrashes>>

\* execute(): BEGIN IMMEDIATE.  Within a transaction it throws, and the catch
\* rolls back whatever is open.
Begin(r) ==
    /\ queue # <<>> /\ r = Head(queue) /\ MayEnter(r)
    /\ kind[r] = "tx"
    /\ queue' = Tail(queue)
    /\ open' = ~open
    /\ pending' = {}
    /\ holder' = IF open THEN holder ELSE r
    /\ pc' = [pc EXCEPT ![r] = IF open THEN "failed" ELSE "body"]
    /\ UNCHANGED <<driver, kind, writes, nested, durable, txCrashes>>

\* A statement lands in the transaction that is open, whoever opened it.
Lands(w) ==
    /\ pending' = IF open THEN pending \cup {w} ELSE pending
    /\ durable' = IF open THEN durable ELSE durable \cup {w}

\* One declared or bare write: its statement, its answer, the mutex freed.
Write(r) ==
    /\ pc[r] = "body" /\ kind[r] # "tx"
    /\ Lands(<<r, 1>>)
    /\ writes' = [writes EXCEPT ![r] = 1]
    /\ pc' = [pc EXCEPT ![r] = "ok"]
    /\ holder' = Released(r)
    /\ UNCHANGED <<driver, kind, nested, queue, open, txCrashes>>

\* A write of the transaction's function.  Through the transaction object or
\* a domain module, it is re-entrant: it never waits for the mutex.
TxWrite(r) ==
    /\ pc[r] = "body" /\ kind[r] = "tx"
    /\ writes[r] < MaxWrites
    /\ writes' = [writes EXCEPT ![r] = @ + 1]
    /\ Lands(<<r, writes[r] + 1>>)
    /\ UNCHANGED <<driver, kind, pc, nested, queue, holder, open, txCrashes>>

\* The function calls transaction() again: the inner BEGIN throws, the inner
\* catch rolls the outer transaction back, and the function goes on.
Nest(r) ==
    /\ pc[r] = "body" /\ kind[r] = "tx"
    /\ nested[r] = NotNested
    /\ open
    /\ RolledBack
    /\ nested' = [nested EXCEPT ![r] = writes[r]]
    /\ UNCHANGED <<driver, kind, pc, writes, queue, holder, durable, txCrashes>>

\* The function succeeds: COMMIT, which throws when nothing is open any more.
Commit(r) ==
    /\ pc[r] = "body" /\ kind[r] = "tx"
    /\ pc' = [pc EXCEPT ![r] = IF open THEN "ok" ELSE "failed"]
    /\ durable' = durable \cup pending
    /\ RolledBack
    /\ holder' = Released(r)
    /\ UNCHANGED <<driver, kind, writes, nested, queue, txCrashes>>

\* Defect: success: false is committed like any other answer.
RollbackOnThrow(r) ==
    /\ pc[r] = "body" /\ kind[r] = "tx"
    /\ pc' = [pc EXCEPT ![r] = "failed"]
    /\ durable' = durable \cup pending
    /\ RolledBack
    /\ holder' = Released(r)
    /\ UNCHANGED <<driver, kind, writes, nested, queue, txCrashes>>

\* The function throws, or answers success: false.
Rollback(r) ==
    /\ pc[r] = "body" /\ kind[r] = "tx"
    /\ pc' = [pc EXCEPT ![r] = "failed"]
    /\ RolledBack
    /\ holder' = Released(r)
    /\ UNCHANGED <<driver, kind, writes, nested, queue, durable, txCrashes>>

\* The process dies: an open transaction and the line are gone.
TxCrash ==
    /\ txCrashes < MaxTxCrashes
    /\ txCrashes' = txCrashes + 1
    /\ pc' = [r \in Requests |-> IF pc[r] \in {"queued", "body"} THEN "lost"
                                                              ELSE pc[r]]
    /\ queue' = <<>>
    /\ holder' = NoRequest
    /\ RolledBack
    /\ UNCHANGED <<driver, kind, writes, nested, durable>>

Enter(r) == EnterWrite(r) \/ Begin(r)

Section(r) == Write(r) \/ TxWrite(r) \/ Nest(r) \/ Commit(r) \/ Rollback(r)

TxNext ==
    \/ \E r \in Requests :
        \/ \E k \in Kinds \ {"none"} : Arrive(r, k)
        \/ Enter(r)
        \/ Section(r)
    \/ TxCrash

\* A section that was entered comes to its end.
TxFairness ==
    \A r \in Requests : /\ WF_txVars(Enter(r))
                        /\ WF_txVars(Write(r) \/ Commit(r) \/ Rollback(r))

TxSpec == TxInit /\ [][TxNext]_txVars /\ TxFairness

-----------------------------------------------------------------------------
\* Types of the variables of the mutex, the requests and the connection.
TxTypeOK ==
    /\ driver \in {"bun", "node"}
    /\ kind \in [Requests -> Kinds]
    /\ pc \in [Requests -> {"idle", "queued", "body"} \cup Answered]
    /\ writes \in [Requests -> 0 .. MaxWrites]
    /\ nested \in [Requests -> 0 .. MaxWrites + 1]
    /\ queue \in Seq(Requests)
    /\ holder \in Requests \cup {NoRequest}
    /\ open \in BOOLEAN
    /\ pending \subseteq Writes
    /\ durable \subseteq Writes
    /\ txCrashes \in 0 .. MaxTxCrashes

Written(r) == {r} \X (1 .. writes[r])

\* Writes its transaction covers: those before a nested call undid it.
Covered(r) == {w \in Written(r) : w[2] <= nested[r]}

\* transaction(): when it answers success every write of the function is
\* committed; before that, and when it answers failure or the process dies,
\* none of the writes it covers is.  What a function writes after a nested
\* call failed is on its own.
AllOrNothing ==
    \A r \in Requests : kind[r] = "tx" =>
        IF pc[r] = "ok" THEN Written(r) \subseteq durable
                        ELSE Covered(r) \cap durable = {}

\* wrap() with isWrite: a write that was answered is committed, so nobody
\* else's rollback takes it back.  A bare write has that only where the
\* driver itself goes through the mutex.
AcknowledgedStays ==
    \A r \in Requests :
        /\ pc[r] = "ok"
        /\ kind[r] = "write" \/ (kind[r] = "bare" /\ driver = "node")
        => <<r, 1>> \in durable

\* The open transaction belongs to the section that runs, and never outlives
\* it: a transaction left open would make every later BEGIN fail.
OpenIsOwned ==
    open => \E r \in Requests : holder = r /\ kind[r] = "tx" /\ pc[r] = "body"

=============================================================================
