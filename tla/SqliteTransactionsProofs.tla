---------------------- MODULE SqliteTransactionsProofs ----------------------
(***************************************************************************)
(* Proofs about SqliteTransactions, for any requests, either driver and    *)
(* any number of writes and crashes.  What makes the promises inductive is *)
(* whose section runs: a transaction is open only for the holder of the    *)
(* mutex, and what is pending in it is the holder's own, or a bare write   *)
(* that went round the mutex.                                              *)
(***************************************************************************)
EXTENDS SqliteTransactions, SequenceTheorems, TLAPS

\* Whoever waits in line waits there once and has done nothing yet.
InLine ==
    /\ \A i \in 1 .. Len(queue) : pc[queue[i]] = "queued"
    /\ \A i, j \in 1 .. Len(queue) : queue[i] = queue[j] => i = j

\* A section is the holder's, but for bare writes that go round the mutex.
OneSection ==
    \A r \in Requests : pc[r] = "body" => holder = r \/ Bypasses(kind[r])

\* Before its section a request has written nothing, and one that is no
\* transaction writes once, at the end.
NotYet ==
    \A r \in Requests :
        /\ pc[r] \in {"idle", "queued"} => writes[r] = 0 /\ nested[r] = NotNested
        /\ pc[r] = "body" /\ kind[r] # "tx" => writes[r] = 0

\* No write is stored that was not made.
OnlyMade == \A w \in pending \cup durable : w[2] <= writes[w[1]]

\* Pending writes are the holder's, or bare ones that joined it.
PendingOwned ==
    \A w \in pending :
        /\ open
        /\ w[1] = holder \/ (kind[w[1]] = "bare" /\ driver = "bun")

\* A transaction that is open covers all its writes; one that a nested call
\* has undone is open no more.
CoveredPending ==
    \A r \in Requests : kind[r] = "tx" /\ pc[r] = "body" =>
        IF open THEN nested[r] = NotNested /\ Written(r) \subseteq pending
                ELSE nested[r] <= writes[r]

TxInv ==
    /\ TxTypeOK
    /\ InLine /\ OneSection /\ NotYet
    /\ OnlyMade /\ PendingOwned /\ CoveredPending
    /\ OpenIsOwned /\ AllOrNothing /\ AcknowledgedStays

USE NoRequestAssumption, TxBoundsAssumption
USE DEF NotNested, Kinds, Answered

-----------------------------------------------------------------------------

\* The line is in order while nobody leaves it and those in it stay queued.
LEMMA LineKept ==
  ASSUME TxTypeOK, InLine, queue' = queue,
         \A q \in Requests : pc[q] = "queued" => pc'[q] = "queued"
  PROVE  InLine'
<1>1. \A i \in 1 .. Len(queue) : queue[i] \in Requests
  <2>1. queue \in Seq(Requests)
    BY DEF TxTypeOK
  <2> QED
    BY <2>1, ElementOfSeq
<1> QED
  BY <1>1 DEF InLine

\* The first in line leaves it; the others stay, once each.
LEMMA FirstLeaves ==
  ASSUME TxTypeOK, InLine, NEW r \in Requests, queue # <<>>, r = Head(queue),
         queue' = Tail(queue), \A q \in Requests \ {r} : pc'[q] = pc[q]
  PROVE  InLine'
<1>1. queue \in Seq(Requests) /\ Len(queue) \in Nat
  BY DEF TxTypeOK
<1>2. /\ Len(queue') = Len(queue) - 1
      /\ \A i \in 1 .. Len(queue') : queue'[i] = queue[i + 1]
  BY <1>1, HeadTailProperties
<1>3. r = queue[1]
  OBVIOUS
<1>4. \A i \in 1 .. Len(queue') : i + 1 \in 1 .. Len(queue) /\ i + 1 # 1
  BY <1>1, <1>2
<1>5. \A i \in 1 .. Len(queue) : queue[i] \in Requests
  BY <1>1, ElementOfSeq
<1>6. ASSUME NEW i \in 1 .. Len(queue')
      PROVE  queue'[i] \in Requests \ {r} /\ pc'[queue'[i]] = "queued"
  <2>1. i + 1 \in 1 .. Len(queue) /\ 1 \in 1 .. Len(queue) /\ i + 1 # 1
    BY <1>1, <1>2, <1>4
  <2>2. queue[i + 1] # queue[1] /\ pc[queue[i + 1]] = "queued"
    BY <2>1 DEF InLine
  <2> QED
    BY <1>2, <1>3, <1>5, <2>1, <2>2
<1>7. ASSUME NEW i \in 1 .. Len(queue'), NEW j \in 1 .. Len(queue'), queue'[i] = queue'[j]
      PROVE  i = j
  <2>1. i + 1 = j + 1
    BY <1>2, <1>4, <1>7 DEF InLine
  <2> QED
    BY <2>1
<1> QED
  BY <1>6, <1>7 DEF InLine

\* Arriving writes nothing.
LEMMA ArriveInv ==
  ASSUME TxInv, NEW r \in Requests, NEW k \in Kinds \ {"none"}, Arrive(r, k)
  PROVE  TxInv'
<1> USE DEF TxInv
<1>1. TxTypeOK'
  BY DEF Arrive, TxTypeOK, Writes
<1>2. InLine'
  <2>1. CASE Bypasses(k)
    <3>1. queue' = queue /\ \A q \in Requests \ {r} : pc'[q] = pc[q]
      BY <2>1 DEF Arrive, TxTypeOK
    <3>2. pc[r] = "idle"
      BY DEF Arrive
    <3> QED
      BY <3>1, <3>2, LineKept
  <2>2. CASE ~Bypasses(k)
    <3>1. Len(queue') = Len(queue) + 1 /\ queue'[Len(queue) + 1] = r
      BY <2>2 DEF Arrive, TxTypeOK
    <3>2. \A i \in 1 .. Len(queue) : queue'[i] = queue[i] /\ queue[i] # r
      BY <2>2 DEF Arrive, InLine, TxTypeOK
    <3>3. \A i \in 1 .. Len(queue) : pc'[queue[i]] = "queued"
      BY <3>2 DEF Arrive, InLine, TxTypeOK
    <3>4. pc'[r] = "queued"
      BY <2>2 DEF Arrive, TxTypeOK
    <3>5. 1 .. Len(queue') = 1 .. Len(queue) \cup {Len(queue) + 1}
      BY <3>1 DEF TxTypeOK
    <3> QED
      BY <3>1, <3>2, <3>3, <3>4, <3>5 DEF InLine
  <2> QED
    BY <2>1, <2>2
<1>3. OneSection'
  BY DEF Arrive, OneSection, Bypasses, OpenIsOwned, TxTypeOK
<1>4. NotYet'
  BY DEF Arrive, NotYet, InLine, TxTypeOK
<1>5. OnlyMade'
  BY DEF Arrive, OnlyMade, NotYet, PendingOwned, TxTypeOK
<1>6. PendingOwned'
  <2>1. \A w \in pending : w[1] # r
    BY DEF Arrive, OnlyMade, NotYet, Writes, TxTypeOK
  <2> QED
    BY <2>1 DEF Arrive, PendingOwned, Writes, TxTypeOK
<1>7. CoveredPending'
  <2>1. \A q \in Requests : Written(q)' = Written(q)
    BY DEF Arrive, Written
  <2> QED
    BY <2>1 DEF Arrive, CoveredPending, OneSection, OpenIsOwned, PendingOwned, Bypasses, TxTypeOK
<1>8. OpenIsOwned'
  BY DEF Arrive, OpenIsOwned, OneSection, Bypasses, PendingOwned, TxTypeOK
<1>9. AllOrNothing'
  BY DEF Arrive, AllOrNothing, Written, Covered, OneSection, NotYet, OnlyMade, PendingOwned, CoveredPending, OpenIsOwned, Bypasses, TxTypeOK
<1>10. AcknowledgedStays'
  BY DEF Arrive, AcknowledgedStays, OneSection, OpenIsOwned, Bypasses, NotYet, TxTypeOK
<1> QED
  BY <1>1, <1>2, <1>3, <1>4, <1>5, <1>6, <1>7, <1>8, <1>9, <1>10

\* A declared or bare write gets the mutex.
LEMMA EnterWriteInv ==
  ASSUME TxInv, NEW r \in Requests, EnterWrite(r)
  PROVE  TxInv'
<1> USE DEF TxInv
<1>1. TxTypeOK'
  BY DEF EnterWrite, MayEnter, TxTypeOK, Writes
<1>2. InLine'
  <2>1. \A q \in Requests \ {r} : pc'[q] = pc[q]
    BY DEF EnterWrite, TxTypeOK
  <2> QED
    BY <2>1, FirstLeaves DEF EnterWrite
<1>3. OneSection'
  BY DEF EnterWrite, MayEnter, OneSection, Bypasses, OpenIsOwned, TxTypeOK
<1>4. NotYet'
  BY DEF EnterWrite, MayEnter, NotYet, InLine, TxTypeOK
<1>5. OnlyMade'
  BY DEF EnterWrite, MayEnter, OnlyMade, NotYet, PendingOwned, TxTypeOK
<1>6. PendingOwned'
  BY DEF EnterWrite, MayEnter, PendingOwned, OneSection, OpenIsOwned, Bypasses, NotYet, TxTypeOK
<1>7. CoveredPending'
  BY DEF EnterWrite, MayEnter, CoveredPending, Written, OneSection, OpenIsOwned, PendingOwned, TxTypeOK
<1>8. OpenIsOwned'
  BY DEF EnterWrite, MayEnter, OpenIsOwned, OneSection, Bypasses, PendingOwned, TxTypeOK
<1>9. AllOrNothing'
  BY DEF EnterWrite, MayEnter, AllOrNothing, Written, Covered, OneSection, NotYet, OnlyMade, PendingOwned, CoveredPending, OpenIsOwned, Bypasses, TxTypeOK
<1>10. AcknowledgedStays'
  BY DEF EnterWrite, MayEnter, AcknowledgedStays, OneSection, OpenIsOwned, Bypasses, NotYet, TxTypeOK
<1> QED
  BY <1>1, <1>2, <1>3, <1>4, <1>5, <1>6, <1>7, <1>8, <1>9, <1>10

\* A transaction begins on a connection that has none open.
LEMMA BeginInv ==
  ASSUME TxInv, NEW r \in Requests, Begin(r)
  PROVE  TxInv'
<1> USE DEF TxInv
<1>1. TxTypeOK'
  BY DEF Begin, MayEnter, TxTypeOK, Writes
<1>2. InLine'
  <2>1. \A q \in Requests \ {r} : pc'[q] = pc[q]
    BY DEF Begin, TxTypeOK
  <2> QED
    BY <2>1, FirstLeaves DEF Begin
<1>3. OneSection'
  BY DEF Begin, MayEnter, OneSection, Bypasses, OpenIsOwned, TxTypeOK
<1>4. NotYet'
  BY DEF Begin, MayEnter, NotYet, InLine, TxTypeOK
<1>5. OnlyMade'
  BY DEF Begin, MayEnter, OnlyMade, NotYet, PendingOwned, TxTypeOK
<1>6. PendingOwned'
  BY DEF Begin, MayEnter, PendingOwned, OneSection, OpenIsOwned, Bypasses, NotYet, TxTypeOK
<1>7. CoveredPending'
  <2>1. ~open /\ r = queue[1] /\ pc[r] = "queued"
    BY DEF Begin, MayEnter, OpenIsOwned, InLine, TxTypeOK
  <2>2. \A q \in Requests : Written(q)' = Written(q)
    BY DEF Begin, Written
  <2>3. Written(r) = {} /\ nested[r] = NotNested
    BY <2>1 DEF Begin, Written, NotYet
  <2>4. open' /\ pending' = {}
    BY <2>1 DEF Begin
  <2>5. ASSUME NEW q \in Requests, (kind[q] = "tx" /\ pc[q] = "body")'
        PROVE  q = r
    BY <2>1, <2>5 DEF Begin, MayEnter, OneSection, Bypasses, TxTypeOK
  <2> QED
    BY <2>2, <2>3, <2>4, <2>5 DEF Begin, CoveredPending
<1>8. OpenIsOwned'
  BY DEF Begin, MayEnter, OpenIsOwned, OneSection, Bypasses, PendingOwned, TxTypeOK
<1>9. AllOrNothing'
  <2>1. ~open /\ r = queue[1] /\ pc[r] = "queued"
    BY DEF Begin, MayEnter, OpenIsOwned, InLine, TxTypeOK
  <2>2. \A q \in Requests : Written(q)' = Written(q) /\ Covered(q)' = Covered(q)
    BY DEF Begin, Written, Covered
  <2>3. \A q \in Requests : pc'[q] = "ok" <=> pc[q] = "ok"
    BY <2>1 DEF Begin, TxTypeOK
  <2> QED
    BY <2>2, <2>3 DEF Begin, AllOrNothing
<1>10. AcknowledgedStays'
  BY DEF Begin, MayEnter, AcknowledgedStays, OneSection, OpenIsOwned, Bypasses, NotYet, TxTypeOK
<1> QED
  BY <1>1, <1>2, <1>3, <1>4, <1>5, <1>6, <1>7, <1>8, <1>9, <1>10

\* A write of its own is committed at once, or joins the open transaction
\* and then nobody was promised it.
LEMMA WriteInv ==
  ASSUME TxInv, NEW r \in Requests, Write(r)
  PROVE  TxInv'
<1> USE DEF TxInv
<1>1. TxTypeOK'
  BY DEF Write, Lands, Released, TxTypeOK, Writes
<1>2. InLine'
  <2>1. /\ queue' = queue /\ pc[r] = "body"
        /\ \A q \in Requests \ {r} : pc'[q] = pc[q]
    BY DEF Write, TxTypeOK
  <2> QED
    BY <2>1, LineKept
<1>3. OneSection'
  BY DEF Write, Lands, Released, OneSection, Bypasses, OpenIsOwned, TxTypeOK
<1>4. NotYet'
  BY DEF Write, Lands, Released, NotYet, InLine, TxTypeOK
<1>5. OnlyMade'
  <2>1. writes[r] = 0 /\ writes'[r] = 1
    BY DEF Write, NotYet, TxTypeOK
  <2>2. \A w \in pending' \cup durable' : w \in pending \cup durable \/ w = <<r, 1>>
    BY DEF Write, Lands
  <2>3. \A w \in Writes : writes[w[1]] <= writes'[w[1]]
    BY <2>1 DEF Write, TxTypeOK, Writes
  <2>4. \A w \in pending \cup durable : w[2] <= writes'[w[1]]
    BY <2>3 DEF OnlyMade, TxTypeOK, Writes, Write
  <2> QED
    BY <2>1, <2>2, <2>4 DEF OnlyMade
<1>6. PendingOwned'
  BY DEF Write, Lands, Released, PendingOwned, OneSection, OpenIsOwned, Bypasses, NotYet, TxTypeOK
<1>7. CoveredPending'
  BY DEF Write, Lands, Released, CoveredPending, Written, OneSection, OpenIsOwned, PendingOwned, TxTypeOK
<1>8. OpenIsOwned'
  BY DEF Write, Lands, Released, OpenIsOwned, OneSection, Bypasses, PendingOwned, TxTypeOK
<1>9. AllOrNothing'
  BY DEF Write, Lands, Released, AllOrNothing, Written, Covered, OneSection, NotYet, OnlyMade, PendingOwned, CoveredPending, OpenIsOwned, Bypasses, TxTypeOK
<1>10. AcknowledgedStays'
  BY DEF Write, Lands, Released, AcknowledgedStays, OneSection, OpenIsOwned, Bypasses, NotYet, TxTypeOK
<1> QED
  BY <1>1, <1>2, <1>3, <1>4, <1>5, <1>6, <1>7, <1>8, <1>9, <1>10

\* A write of a transaction is pending, or past what the transaction covers.
LEMMA TxWriteInv ==
  ASSUME TxInv, NEW r \in Requests, TxWrite(r)
  PROVE  TxInv'
<1> USE DEF TxInv
<1>1. TxTypeOK'
  BY DEF TxWrite, Lands, TxTypeOK, Writes
<1>2. InLine'
  BY LineKept DEF TxWrite
<1>3. OneSection'
  BY DEF TxWrite, Lands, OneSection, Bypasses, OpenIsOwned, TxTypeOK
<1>4. NotYet'
  BY DEF TxWrite, Lands, NotYet, InLine, TxTypeOK
<1>5. OnlyMade'
  <2>1. writes'[r] = writes[r] + 1
    BY DEF TxWrite, TxTypeOK
  <2>2. \A w \in pending' \cup durable' :
            w \in pending \cup durable \/ w = <<r, writes[r] + 1>>
    BY DEF TxWrite, Lands
  <2>3. \A w \in Writes : writes[w[1]] <= writes'[w[1]]
    BY <2>1 DEF TxWrite, TxTypeOK, Writes
  <2>4. \A w \in pending \cup durable : w[2] <= writes'[w[1]]
    BY <2>3 DEF OnlyMade, TxTypeOK, Writes, TxWrite
  <2>5. writes[r] + 1 <= writes'[r]
    BY <2>1 DEF TxTypeOK
  <2> QED
    BY <2>2, <2>4, <2>5 DEF OnlyMade
<1>6. PendingOwned'
  BY DEF TxWrite, Lands, PendingOwned, OneSection, OpenIsOwned, Bypasses, NotYet, TxTypeOK
<1>7. CoveredPending'
  BY DEF TxWrite, Lands, CoveredPending, Written, OneSection, OpenIsOwned, PendingOwned, TxTypeOK
<1>8. OpenIsOwned'
  BY DEF TxWrite, Lands, OpenIsOwned, OneSection, Bypasses, PendingOwned, TxTypeOK
<1>9. AllOrNothing'
  BY DEF TxWrite, Lands, AllOrNothing, Written, Covered, OneSection, NotYet, OnlyMade, PendingOwned, CoveredPending, OpenIsOwned, Bypasses, TxTypeOK
<1>10. AcknowledgedStays'
  BY DEF TxWrite, Lands, AcknowledgedStays, OneSection, OpenIsOwned, Bypasses, NotYet, TxTypeOK
<1> QED
  BY <1>1, <1>2, <1>3, <1>4, <1>5, <1>6, <1>7, <1>8, <1>9, <1>10

\* A nested call undoes what the transaction covers.
LEMMA NestInv ==
  ASSUME TxInv, NEW r \in Requests, Nest(r)
  PROVE  TxInv'
<1> USE DEF TxInv
<1>1. TxTypeOK'
  <2>1. writes[r] \in 0 .. MaxWrites + 1
    BY DEF TxTypeOK
  <2>2. nested' \in [Requests -> 0 .. MaxWrites + 1]
    BY <2>1 DEF Nest, TxTypeOK
  <2> QED
    BY <2>2 DEF Nest, RolledBack, TxTypeOK
<1>2. InLine'
  BY LineKept DEF Nest
<1>3. OneSection'
  BY DEF Nest, RolledBack, OneSection, Bypasses, OpenIsOwned, TxTypeOK
<1>4. NotYet'
  BY DEF Nest, RolledBack, NotYet, InLine, TxTypeOK
<1>5. OnlyMade'
  BY DEF Nest, RolledBack, OnlyMade, NotYet, PendingOwned, TxTypeOK
<1>6. PendingOwned'
  BY DEF Nest, RolledBack, PendingOwned, OneSection, OpenIsOwned, Bypasses, NotYet, TxTypeOK
<1>7. CoveredPending'
  <2>1. ASSUME NEW q \in Requests, kind[q] = "tx", pc[q] = "body"
        PROVE  q = r
    BY <2>1 DEF Nest, OneSection, Bypasses
  <2>2. open' = FALSE /\ nested'[r] = writes[r]
    BY DEF Nest, RolledBack, TxTypeOK
  <2>3. writes[r] <= writes[r]
    BY DEF TxTypeOK
  <2> QED
    BY <2>1, <2>2, <2>3 DEF Nest, CoveredPending
<1>8. OpenIsOwned'
  BY DEF Nest, RolledBack, OpenIsOwned, OneSection, Bypasses, PendingOwned, TxTypeOK
<1>9. AllOrNothing'
  BY DEF Nest, RolledBack, AllOrNothing, Written, Covered, OneSection, NotYet, OnlyMade, PendingOwned, CoveredPending, OpenIsOwned, Bypasses, TxTypeOK
<1>10. AcknowledgedStays'
  BY DEF Nest, RolledBack, AcknowledgedStays, OneSection, OpenIsOwned, Bypasses, NotYet, TxTypeOK
<1> QED
  BY <1>1, <1>2, <1>3, <1>4, <1>5, <1>6, <1>7, <1>8, <1>9, <1>10

\* What an open transaction covers is committed as one.
LEMMA CommitInv ==
  ASSUME TxInv, NEW r \in Requests, Commit(r)
  PROVE  TxInv'
<1> USE DEF TxInv
<1>1. TxTypeOK'
  BY DEF Commit, RolledBack, Released, TxTypeOK, Writes
<1>2. InLine'
  <2>1. /\ queue' = queue /\ pc[r] = "body"
        /\ \A q \in Requests \ {r} : pc'[q] = pc[q]
    BY DEF Commit, TxTypeOK
  <2> QED
    BY <2>1, LineKept
<1>3. OneSection'
  BY DEF Commit, RolledBack, Released, OneSection, Bypasses, OpenIsOwned, TxTypeOK
<1>4. NotYet'
  BY DEF Commit, RolledBack, Released, NotYet, InLine, TxTypeOK
<1>5. OnlyMade'
  BY DEF Commit, RolledBack, Released, OnlyMade, NotYet, PendingOwned, TxTypeOK
<1>6. PendingOwned'
  BY DEF Commit, RolledBack, Released, PendingOwned, OneSection, OpenIsOwned, Bypasses, NotYet, TxTypeOK
<1>7. CoveredPending'
  <2>1. ASSUME NEW q \in Requests, kind[q] = "tx", pc'[q] = "body"
        PROVE  FALSE
    <3>1. pc'[r] # "body"
      BY DEF Commit, TxTypeOK
    <3>2. q # r /\ pc[q] = "body"
      BY <2>1, <3>1 DEF Commit, TxTypeOK
    <3>3. holder = q /\ holder = r
      BY <2>1, <3>2 DEF Commit, OneSection, Bypasses
    <3> QED
      BY <3>2, <3>3
  <2> QED
    BY <2>1 DEF Commit, CoveredPending
<1>8. OpenIsOwned'
  BY DEF Commit, RolledBack, Released, OpenIsOwned, OneSection, Bypasses, PendingOwned, TxTypeOK
<1>9. AllOrNothing'
  BY DEF Commit, RolledBack, Released, AllOrNothing, Written, Covered, OneSection, NotYet, OnlyMade, PendingOwned, CoveredPending, OpenIsOwned, Bypasses, TxTypeOK
<1>10. AcknowledgedStays'
  BY DEF Commit, RolledBack, Released, AcknowledgedStays, OneSection, OpenIsOwned, Bypasses, NotYet, TxTypeOK
<1> QED
  BY <1>1, <1>2, <1>3, <1>4, <1>5, <1>6, <1>7, <1>8, <1>9, <1>10

\* Nothing that a rolled back transaction covers is committed.
LEMMA RollbackInv ==
  ASSUME TxInv, NEW r \in Requests, Rollback(r)
  PROVE  TxInv'
<1> USE DEF TxInv
<1>1. TxTypeOK'
  BY DEF Rollback, RolledBack, Released, TxTypeOK, Writes
<1>2. InLine'
  <2>1. /\ queue' = queue /\ pc[r] = "body"
        /\ \A q \in Requests \ {r} : pc'[q] = pc[q]
    BY DEF Rollback, TxTypeOK
  <2> QED
    BY <2>1, LineKept
<1>3. OneSection'
  BY DEF Rollback, RolledBack, Released, OneSection, Bypasses, OpenIsOwned, TxTypeOK
<1>4. NotYet'
  BY DEF Rollback, RolledBack, Released, NotYet, InLine, TxTypeOK
<1>5. OnlyMade'
  BY DEF Rollback, RolledBack, Released, OnlyMade, NotYet, PendingOwned, TxTypeOK
<1>6. PendingOwned'
  BY DEF Rollback, RolledBack, Released, PendingOwned, OneSection, OpenIsOwned, Bypasses, NotYet, TxTypeOK
<1>7. CoveredPending'
  <2>1. ASSUME NEW q \in Requests, kind[q] = "tx", pc'[q] = "body"
        PROVE  FALSE
    <3>1. pc'[r] # "body"
      BY DEF Rollback, TxTypeOK
    <3>2. q # r /\ pc[q] = "body"
      BY <2>1, <3>1 DEF Rollback, TxTypeOK
    <3>3. holder = q /\ holder = r
      BY <2>1, <3>2 DEF Rollback, OneSection, Bypasses
    <3> QED
      BY <3>2, <3>3
  <2> QED
    BY <2>1 DEF Rollback, CoveredPending
<1>8. OpenIsOwned'
  BY DEF Rollback, RolledBack, Released, OpenIsOwned, OneSection, Bypasses, PendingOwned, TxTypeOK
<1>9. AllOrNothing'
  BY DEF Rollback, RolledBack, Released, AllOrNothing, Written, Covered, OneSection, NotYet, OnlyMade, PendingOwned, CoveredPending, OpenIsOwned, Bypasses, TxTypeOK
<1>10. AcknowledgedStays'
  BY DEF Rollback, RolledBack, Released, AcknowledgedStays, OneSection, OpenIsOwned, Bypasses, NotYet, TxTypeOK
<1> QED
  BY <1>1, <1>2, <1>3, <1>4, <1>5, <1>6, <1>7, <1>8, <1>9, <1>10

\* A crash drops the open transaction and everybody in line.
LEMMA TxCrashInv ==
  ASSUME TxInv, TxCrash
  PROVE  TxInv'
<1> USE DEF TxInv
<1>1. TxTypeOK'
  <2>1. pc' \in [Requests -> {"idle", "queued", "body"} \cup Answered]
    BY DEF TxCrash, TxTypeOK
  <2>2. txCrashes' \in 0 .. MaxTxCrashes
    BY DEF TxCrash, TxTypeOK
  <2>3. queue' \in Seq(Requests)
    BY DEF TxCrash
  <2> QED
    BY <2>1, <2>2, <2>3 DEF TxCrash, RolledBack, TxTypeOK
<1>2. InLine'
  BY DEF TxCrash, RolledBack, InLine, TxTypeOK
<1>3. OneSection'
  BY DEF TxCrash, RolledBack, OneSection, Bypasses, OpenIsOwned, TxTypeOK
<1>4. NotYet'
  BY DEF TxCrash, RolledBack, NotYet, InLine, TxTypeOK
<1>5. OnlyMade'
  BY DEF TxCrash, RolledBack, OnlyMade, NotYet, PendingOwned, TxTypeOK
<1>6. PendingOwned'
  BY DEF TxCrash, RolledBack, PendingOwned, OneSection, OpenIsOwned, Bypasses, NotYet, TxTypeOK
<1>7. CoveredPending'
  BY DEF TxCrash, RolledBack, CoveredPending, Written, OneSection, OpenIsOwned, PendingOwned, TxTypeOK
<1>8. OpenIsOwned'
  BY DEF TxCrash, RolledBack, OpenIsOwned, OneSection, Bypasses, PendingOwned, TxTypeOK
<1>9. AllOrNothing'
  BY DEF TxCrash, RolledBack, AllOrNothing, Written, Covered, OneSection, NotYet, OnlyMade, PendingOwned, CoveredPending, OpenIsOwned, Bypasses, TxTypeOK
<1>10. AcknowledgedStays'
  BY DEF TxCrash, RolledBack, AcknowledgedStays, OneSection, OpenIsOwned, Bypasses, NotYet, TxTypeOK
<1> QED
  BY <1>1, <1>2, <1>3, <1>4, <1>5, <1>6, <1>7, <1>8, <1>9, <1>10

-----------------------------------------------------------------------------
\* At first nobody has written, and no transaction is open.
LEMMA TxInitInv == TxInit => TxInv
<1> SUFFICES ASSUME TxInit PROVE TxInv
  OBVIOUS
<1>1. TxTypeOK
  <2>1. 0 \in 0 .. MaxWrites /\ MaxWrites + 1 \in 0 .. MaxWrites + 1 /\ 0 \in 0 .. MaxTxCrashes
    OBVIOUS
  <2>2. <<>> \in Seq(Requests)
    OBVIOUS
  <2> QED
    BY <2>1, <2>2 DEF TxInit, TxTypeOK
<1>2. InLine /\ OneSection /\ NotYet /\ OnlyMade /\ PendingOwned /\ CoveredPending
  BY DEF TxInit, InLine, OneSection, NotYet, OnlyMade, PendingOwned, CoveredPending
<1>3. OpenIsOwned /\ AllOrNothing /\ AcknowledgedStays
  BY DEF TxInit, OpenIsOwned, AllOrNothing, AcknowledgedStays
<1> QED
  BY <1>1, <1>2, <1>3 DEF TxInv

\* Every step preserves the invariant.
LEMMA TxNextInv == TxInv /\ [TxNext]_txVars => TxInv'
<1> SUFFICES ASSUME TxInv, [TxNext]_txVars PROVE TxInv'
  OBVIOUS
<1>1. ASSUME NEW r \in Requests, NEW k \in Kinds \ {"none"}, Arrive(r, k) PROVE TxInv'
  BY <1>1, ArriveInv
<1>2. ASSUME NEW r \in Requests, Enter(r) PROVE TxInv'
  BY <1>2, EnterWriteInv, BeginInv DEF Enter
<1>3. ASSUME NEW r \in Requests, Section(r) PROVE TxInv'
  BY <1>3, WriteInv, TxWriteInv, NestInv, CommitInv, RollbackInv DEF Section
<1>4. CASE TxCrash
  BY <1>4, TxCrashInv
<1>5. CASE UNCHANGED txVars
  BY <1>5 DEF txVars, TxInv, TxTypeOK, InLine, OneSection, NotYet, OnlyMade, PendingOwned,
     CoveredPending, OpenIsOwned, AllOrNothing, AcknowledgedStays, Written, Covered, Bypasses
<1> QED
  BY <1>1, <1>2, <1>3, <1>4, <1>5 DEF TxNext

\* The mutex and the connection keep the invariant in every reachable state.
LEMMA TxSafe == TxSpec => []TxInv
<1> QED
  BY TxInitInv, TxNextInv, PTL DEF TxSpec

\* transaction(): when it answers success every write of the function is committed,
\* and until then, or when it fails or the process dies, none that it covers is.
THEOREM TransactionsAreAtomic == TxSpec => []AllOrNothing
<1>1. TxInv => AllOrNothing
  BY DEF TxInv
<1> QED
  BY <1>1, TxSafe, PTL

\* wrap(): a declared write that was answered is committed, whatever transactions
\* are rolled back around it.
THEOREM AnswersAreDurable == TxSpec => []AcknowledgedStays
<1>1. TxInv => AcknowledgedStays
  BY DEF TxInv
<1> QED
  BY <1>1, TxSafe, PTL

\* The open transaction is that of the section that runs: none is ever left open.
THEOREM NoTransactionLeftOpen == TxSpec => []OpenIsOwned
<1>1. TxInv => OpenIsOwned
  BY DEF TxInv
<1> QED
  BY <1>1, TxSafe, PTL
=============================================================================
