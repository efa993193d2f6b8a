--------------------------- MODULE CommerceProofs ---------------------------
(***************************************************************************)
(* Proofs about Commerce, for any requests, orders, lines, stock and       *)
(* intents, however requests overlap, wherever they break off and          *)
(* whichever of their writes are lost.  A                                  *)
(* status is written over whatever is there, long after it was checked;    *)
(* that an order is paid first rests on the check finding a paid intent,   *)
(* and on no intent ever being unpaid again.  The second part counts the   *)
(* units of stock where requests do not overlap, the third the coupon.     *)
(***************************************************************************)
EXTENDS Commerce, SequenceTheorems, FiniteSetTheorems, TLAPS

Records == [op : Operations \cup {"none"}, order : Orders \cup {"none"},
            at : Places, line : Nat, seen : Nat]
Tables == Seq([order : Orders, paid : BOOLEAN])

Paid(o, is) == \E i \in DOMAIN is : is[i] = [order |-> o, paid |-> TRUE]

\* What a request x knows of the statuses st and the intents is: its order
\* exists, unless it is being placed; the intent it will store was created for
\* the order; it moves an order on only with a payment; and what it takes from
\* was found to be at least one.
Sound(x, st, is) ==
    /\ x \in Records
    /\ x.at # "idle" => x.order \in Orders /\ x.op \in Operations /\ x.line >= 1
    /\ x.at # "idle" /\ x.op # "checkout" => st[x.order] # "none"
    /\ x.at \in {"guard", "status"} => x.op \in DOMAIN Target
    /\ x.at = "intent" /\ x.seen > 0 =>
           x.seen \in DOMAIN is /\ is[x.seen].order = x.order
    /\ x.at = "guard" /\ x.op = "confirm" => Paid(x.order, is)
    /\ x.at = "status" /\ x.op # "cancel" => Paid(x.order, is)
    /\ x.at = "write" /\ x.op = "checkout" => x.seen >= 1
    /\ x.at = "couponWrite" /\ x.op # "checkout" => x.seen >= 1

RequestsSound == \A r \in Requests : Sound(req[r], status, intents)

\* Intents stay within their bound, and that of an order was created for it.
IntentsOwn ==
    /\ Len(intents) <= MaxIntents
    /\ \A o \in Orders : intentOf[o] # NoIntent =>
           intentOf[o] \in DOMAIN intents /\ intents[intentOf[o]].order = o

PayInv == TypeOK /\ RequestsSound /\ IntentsOwn /\ PaidFirst

USE OrdersAssumption, NumbersAssumption, NoIntentAssumption
USE DEF At, Op, Order, Goto, GotoSeen, Done, Raise, shop

\* The histories keep their shape.
Histories == lost \subseteq Operations \X Places /\ ranOut \subseteq Orders \X Nat

-----------------------------------------------------------------------------
\* A request that does nothing knows nothing.
LEMMA IdleSound ==
  ASSUME NEW st, NEW is
  PROVE  Sound(Idle, st, is)
BY DEF Sound, Idle, Records, Operations, Places

\* From one table of intents to a later one: intents are added and paid.
Later(is, js) ==
    \A i \in DOMAIN is : /\ i \in DOMAIN js
                         /\ js[i].order = is[i].order
                         /\ is[i].paid => js[i].paid

\* What was paid stays paid.
LEMMA PaidLater ==
  ASSUME NEW o, NEW is \in Tables, NEW js \in Tables, Later(is, js), Paid(o, is)
  PROVE  Paid(o, js)
<1>1. PICK i \in DOMAIN is : is[i] = [order |-> o, paid |-> TRUE]
  BY DEF Paid
<1>2. i \in DOMAIN js /\ js[i].order = o /\ js[i].paid
  BY <1>1 DEF Later
<1>3. js[i] \in [order : Orders, paid : BOOLEAN]
  <2>1. js \in Seq([order : Orders, paid : BOOLEAN])
    BY DEF Tables
  <2>2. i \in 1 .. Len(js)
    BY <1>2, <2>1
  <2> QED
    BY <2>1, <2>2, ElementOfSeq
<1>4. js[i] = [order |-> o, paid |-> TRUE]
  BY <1>2, <1>3
<1> QED
  BY <1>2, <1>4 DEF Paid

\* What a request knows stays true while orders and intents move on.
LEMMA SoundLater ==
  ASSUME NEW x, NEW st, NEW tt, NEW is \in Tables, NEW js \in Tables,
         Sound(x, st, is), Later(is, js),
         \A o \in Orders : tt[o] = "none" => st[o] = "none"
  PROVE  Sound(x, tt, js)
<1>1. ASSUME Paid(x.order, is) PROVE Paid(x.order, js)
  BY <1>1, PaidLater
<1>2. x.at = "intent" /\ x.seen > 0 => x.seen \in DOMAIN js /\ js[x.seen].order = x.order
  BY DEF Sound, Later
<1> QED
  BY <1>1, <1>2 DEF Sound

\* An intent table is later than itself.
LEMMA SameTable == ASSUME NEW is PROVE Later(is, is)
BY DEF Later

\* Every step of a request that leaves orders and intents alone only has to
\* show what the request knows afterwards.
LEMMA MoveInv ==
  ASSUME PayInv, NEW r \in Requests, NEW x,
         req' = [req EXCEPT ![r] = x], Sound(x, status, intents),
         UNCHANGED <<overlap, status, intents, intentOf>>,
         committed' \in [Orders -> BOOLEAN], stock' \in [Products -> Nat],
         used' \in Nat, failures' \in 0 .. MaxFailures, Histories'
  PROVE  PayInv'
<1> USE DEF PayInv
<1>1. req' \in [Requests -> Records]
  BY DEF TypeOK, Sound, Records
<1>2. TypeOK'
  BY <1>1 DEF TypeOK, Records, Histories
<1>3. ASSUME NEW q \in Requests PROVE Sound(req'[q], status', intents')
  <2>1. CASE q = r
    BY <2>1 DEF TypeOK
  <2>2. CASE q # r
    BY <2>2 DEF TypeOK, RequestsSound
  <2> QED
    BY <2>1, <2>2
<1>4. RequestsSound'
  BY <1>3 DEF RequestsSound
<1>5. IntentsOwn'
  BY DEF IntentsOwn
<1>6. PaidFirst'
  BY DEF PaidFirst
<1> QED
  BY <1>2, <1>4, <1>5, <1>6

\* A request that ends leaves nothing to show.
LEMMA DoneInv ==
  ASSUME PayInv, NEW r \in Requests, Done(r),
         UNCHANGED <<overlap, status, intents, intentOf>>,
         committed' \in [Orders -> BOOLEAN], stock' \in [Products -> Nat],
         used' \in Nat, failures' \in 0 .. MaxFailures, Histories'
  PROVE  PayInv'
BY IdleSound, MoveInv

Still == UNCHANGED <<overlap, failures>> /\ Histories'

\* Nor does one that is answered with an error.
LEMMA RaiseInv ==
  ASSUME PayInv, NEW r \in Requests, Raise(r), overlap' = overlap,
         failures' \in 0 .. MaxFailures, Histories'
  PROVE  PayInv'
<1>1. /\ committed' \in [Orders -> BOOLEAN] /\ stock' \in [Products -> Nat]
      /\ used' \in Nat
  BY DEF PayInv, TypeOK
<1> QED
  BY <1>1, DoneInv

-----------------------------------------------------------------------------
\* A request starts where its operation starts, on an order that it may see.
LEMMA StartInv ==
  ASSUME PayInv, NEW r \in Requests, NEW op \in Operations, NEW o \in Orders, Start(r, op, o)
  PROVE  PayInv'
<1> DEFINE x == [op |-> op, order |-> o, at |-> EntryOf[op], line |-> 1, seen |-> 0]
<1>1. EntryOf[op] \in {"quote", "intent", "check", "guard"}
  BY DEF EntryOf, Operations
<1>2. EntryOf[op] = "guard" => op \in {"refund", "ship"}
  BY DEF EntryOf, Operations
<1>3. Sound(x, status, intents)
  BY <1>1, <1>2 DEF Sound, Records, Start, Places, Target
<1>4. /\ committed' \in [Orders -> BOOLEAN] /\ stock' \in [Products -> Nat]
      /\ used' \in Nat /\ failures' \in 0 .. MaxFailures /\ Histories'
  BY DEF Start, PayInv, TypeOK, Histories
<1> QED
  BY <1>3, <1>4, MoveInv DEF Start

\* A request that breaks off changes nothing but itself.
LEMMA AbortInv ==
  ASSUME PayInv, NEW r \in Requests, Abort(r)
  PROVE  PayInv'
<1>1. failures' \in 0 .. MaxFailures /\ Histories'
  BY DEF Abort, PayInv, TypeOK, Histories
<1> QED
  BY <1>1, RaiseInv DEF Abort

\* One whose call fails in silence goes on with what it knows.
LEMMA LoseInv ==
  ASSUME PayInv, NEW r \in Requests, Lose(r)
  PROVE  PayInv'
<1> DEFINE x(at) == [req[r] EXCEPT !.at = at]
           y == [req[r] EXCEPT !.at = "read", !.line = req[r].line + 1]
<1>1. Sound(req[r], status, intents) /\ req[r] \in Records /\ ~At(r, "idle")
  BY DEF PayInv, RequestsSound, Sound, Lose
<1>2. failures' \in 0 .. MaxFailures
  BY DEF Lose, PayInv, TypeOK
<1>3. Histories'
  <2>1. Op(r) \in Operations /\ req[r].at \in Places
    BY <1>1 DEF Sound, Records
  <2> QED
    BY <2>1 DEF Lose, PayInv, TypeOK, Histories
<1>4. /\ committed' \in [Orders -> BOOLEAN] /\ stock' \in [Products -> Nat]
      /\ used' \in Nat /\ UNCHANGED <<overlap, status, intents, intentOf>>
  BY DEF Lose, PayInv, TypeOK
<1>5. CASE Done(r)
  BY <1>2, <1>3, <1>4, <1>5, DoneInv
<1>6. CASE At(r, "create") /\ Goto(r, "read")
  <2>1. Sound(x("read"), status, intents)
    BY <1>1, <1>6 DEF Sound, Records, Places
  <2> QED
    BY <1>2, <1>3, <1>4, <1>6, <2>1, MoveInv
<1>7. CASE (At(r, "read") \/ At(r, "restore")) /\ Goto(r, "coupon")
  <2>1. Sound(x("coupon"), status, intents)
    BY <1>1, <1>7 DEF Sound, Records, Places
  <2> QED
    BY <1>2, <1>3, <1>4, <1>7, <2>1, MoveInv
<1>8. CASE At(r, "status") /\ Goto(r, "restore")
  <2>1. Sound(x("restore"), status, intents)
    BY <1>1, <1>8 DEF Sound, Records, Places
  <2> QED
    BY <1>2, <1>3, <1>4, <1>8, <2>1, MoveInv
<1>9. CASE At(r, "write") /\ NextLine(r)
  <2>1. req[r].line + 1 \in Nat /\ req[r].line + 1 >= 1
    BY <1>1 DEF Records
  <2>2. /\ y \in Records /\ y.at = "read" /\ y.line >= 1
        /\ y.op = req[r].op /\ y.order = req[r].order
    BY <1>1, <2>1 DEF Records, Places
  <2>3. Sound(y, status, intents)
    BY <1>1, <1>9, <2>2 DEF Sound
  <2>4. req' = [req EXCEPT ![r] = y]
    BY <1>1, <1>9 DEF NextLine, PayInv, TypeOK, Records
  <2> QED
    BY <1>2, <1>3, <1>4, <2>3, <2>4, MoveInv
<1> QED
  BY <1>5, <1>6, <1>7, <1>8, <1>9 DEF Lose, AfterStock, AfterStatus

\* What the request knows before it moves.
LEMMA KnowsNow ==
  ASSUME PayInv, NEW r \in Requests
  PROVE  Sound(req[r], status, intents) /\ req[r] \in Records /\ failures \in 0 .. MaxFailures
BY DEF PayInv, RequestsSound, Sound, TypeOK

\* The quote is given, or the coupon is used up.
LEMMA QuoteInv ==
  ASSUME PayInv, NEW r \in Requests, Quote(r), Still
  PROVE  PayInv'
<1> DEFINE x == [req[r] EXCEPT !.at = "create"]
<1>1. Sound(x, status, intents)
  BY KnowsNow DEF Quote, Sound, Records, Places
<1>2. CASE WithinLimit(r)
  BY <1>1, <1>2, KnowsNow, MoveInv DEF Quote, Still, PayInv, TypeOK
<1>3. CASE ~WithinLimit(r)
  BY <1>3, KnowsNow, RaiseInv DEF Quote, Still
<1> QED
  BY <1>2, <1>3

\* The new order is pending.
LEMMA CreateInv ==
  ASSUME PayInv, NEW r \in Requests, Create(r), Still
  PROVE  PayInv'
<1> USE DEF PayInv
<1> DEFINE x == [req[r] EXCEPT !.at = "read"]
<1>1. status' \in [Orders -> Statuses \cup {"none"}]
  BY KnowsNow DEF Create, TypeOK, Statuses, Sound
<1>2. \A o \in Orders : status'[o] = "none" => status[o] = "none"
  BY KnowsNow DEF Create, TypeOK, Sound
<1>3. Sound(x, status', intents')
  <2>1. req[r] \in Records /\ req[r].at = "create" /\ intents' = intents
    BY KnowsNow DEF Create, Sound
  <2>2. /\ x \in Records /\ x.at = "read" /\ x.op = req[r].op /\ x.order = req[r].order
        /\ x.line = req[r].line
    BY <2>1 DEF Records, Places
  <2>3. /\ x.order \in Orders /\ x.op \in Operations /\ x.line >= 1
        /\ x.op # "checkout" => status[x.order] # "none"
    BY <2>1, <2>2, KnowsNow DEF Sound
  <2>4. x.op # "checkout" => status'[x.order] # "none"
    BY <1>2, <2>3
  <2> QED
    BY <2>2, <2>3, <2>4 DEF Sound
<1>4. req' \in [Requests -> Records]
  BY <1>3 DEF Create, TypeOK, Sound, Records
<1>5. TypeOK'
  BY <1>1, <1>4 DEF Create, Still, TypeOK, Records, Histories
<1>6. ASSUME NEW q \in Requests PROVE Sound(req'[q], status', intents')
  <2>1. CASE q = r
    BY <1>3, <2>1 DEF Create, TypeOK
  <2>2. CASE q # r
    <3>1. req'[q] = req[q] /\ intents \in Tables
      BY <2>2 DEF Create, TypeOK, Tables
    <3>2. Sound(req[q], status, intents) /\ Later(intents, intents)
      BY KnowsNow, SameTable
    <3>3. Sound(req[q], status', intents)
      BY <1>2, <3>1, <3>2, SoundLater
    <3> QED
      BY <3>1, <3>3 DEF Create
  <2> QED
    BY <2>1, <2>2
<1>7. RequestsSound'
  BY <1>6 DEF RequestsSound
<1>8. IntentsOwn'
  BY DEF Create, IntentsOwn
<1>9. PaidFirst'
  BY <1>1 DEF Create, PaidFirst, TypeOK
<1> QED
  BY <1>5, <1>7, <1>8, <1>9

\* A line of stock is read, or there is not enough of it.
LEMMA ReadStockInv ==
  ASSUME PayInv, NEW r \in Requests, ReadStock(r), Still
  PROVE  PayInv'
<1> DEFINE v == stock[Product(r)]
           x == [req[r] EXCEPT !.at = "write", !.seen = v]
<1>1. CASE Op(r) = "checkout" => InStock(r)
  <2>1. req[r].order \in Orders /\ req[r].line \in Nat /\ req[r].line >= 1
    BY KnowsNow DEF ReadStock, Sound, Records
  <2>2. Lines[req[r].order] \in Seq(Products) /\ Len(Lines[req[r].order]) \in Nat
    BY <2>1
  <2>3. req[r].line \in 1 .. Len(Lines[req[r].order])
    BY <2>1, <2>2 DEF ReadStock, LinesLeft
  <2>4. Product(r) \in Products
    BY <2>2, <2>3, ElementOfSeq DEF Product
  <2>5. v \in Nat /\ (Op(r) = "checkout" => v >= 1)
    BY <1>1, <2>4 DEF InStock, PayInv, TypeOK
  <2>6. Sound(x, status, intents)
    BY <2>5, KnowsNow DEF ReadStock, Sound, Records, Places
  <2>7. req' = [req EXCEPT ![r] = x]
    BY <1>1, KnowsNow DEF ReadStock, PayInv, TypeOK, Records
  <2> QED
    BY <1>1, <2>6, <2>7, KnowsNow, MoveInv DEF ReadStock, Still, PayInv, TypeOK
<1>2. CASE ~(Op(r) = "checkout" => InStock(r))
  BY <1>2, KnowsNow, RaiseInv DEF ReadStock, Still
<1> QED
  BY <1>1, <1>2

\* What was read is written back, one less or one more, and never below nothing.
LEMMA WriteStockInv ==
  ASSUME PayInv, NEW r \in Requests, WriteStock(r), Still
  PROVE  PayInv'
<1> DEFINE x == [req[r] EXCEPT !.at = "read", !.line = req[r].line + 1]
           v == IF Op(r) = "checkout" THEN req[r].seen - 1 ELSE req[r].seen + 1
<1>1. v \in Nat
  BY KnowsNow DEF WriteStock, Sound, Records
<1>2. stock' \in [Products -> Nat]
  BY <1>1 DEF WriteStock, PayInv, TypeOK
<1>3. req[r].line + 1 \in Nat /\ req[r].line + 1 >= 1
  BY KnowsNow DEF Records
<1>4. x \in Records /\ x.at = "read" /\ x.line >= 1
  BY <1>3, KnowsNow DEF Records, Places
<1>5. x.op = req[r].op /\ x.order = req[r].order
  BY KnowsNow DEF Records
<1>6. Sound(x, status, intents)
  BY <1>4, <1>5, KnowsNow DEF WriteStock, Sound
<1>7. req' = [req EXCEPT ![r] = x]
  BY KnowsNow DEF WriteStock, NextLine, PayInv, TypeOK, Records
<1> QED
  BY <1>2, <1>6, <1>7, KnowsNow, MoveInv DEF WriteStock, Still, PayInv, TypeOK

\* The flag, after the last line.
LEMMA WriteFlagInv ==
  ASSUME PayInv, NEW r \in Requests, WriteFlag(r), Still
  PROVE  PayInv'
<1> DEFINE x == [req[r] EXCEPT !.at = "coupon"]
<1>1. committed' \in [Orders -> BOOLEAN]
  BY DEF WriteFlag, PayInv, TypeOK
<1>2. stock' \in [Products -> Nat] /\ used' \in Nat
  BY DEF WriteFlag, PayInv, TypeOK
<1>3. Sound(x, status, intents)
  BY KnowsNow DEF WriteFlag, Sound, Records, Places
<1>4. CASE Done(r)
  BY <1>1, <1>2, <1>4, KnowsNow, DoneInv DEF WriteFlag, Still
<1>5. CASE Goto(r, "coupon")
  BY <1>1, <1>2, <1>3, <1>5, KnowsNow, MoveInv DEF WriteFlag, Still
<1> QED
  BY <1>4, <1>5 DEF WriteFlag, AfterStock

\* The coupon is counted, or taken back when it was counted.
LEMMA CouponInv ==
  ASSUME PayInv, NEW r \in Requests, ReadCoupon(r) \/ WriteCoupon(r), Still
  PROVE  PayInv'
<1> USE DEF PayInv, TypeOK
<1>1. CASE ReadCoupon(r)
  <2> DEFINE x == [req[r] EXCEPT !.at = "couponWrite", !.seen = used]
  <2>1. CASE Op(r) = "checkout" \/ used > 0
    <3>1. used \in Nat /\ (Op(r) # "checkout" => used >= 1)
      BY <2>1
    <3>2. /\ x \in Records /\ x.at = "couponWrite" /\ x.seen = used
          /\ x.op = req[r].op /\ x.order = req[r].order /\ x.line = req[r].line
      BY <3>1, KnowsNow DEF Records, Places
    <3>3. Sound(x, status, intents)
      BY <1>1, <3>1, <3>2, KnowsNow DEF ReadCoupon, Sound
    <3>4. req' = [req EXCEPT ![r] = x]
      BY <1>1, <2>1 DEF ReadCoupon, Records
    <3> QED
      BY <1>1, <2>1, <3>3, <3>4, KnowsNow, MoveInv DEF ReadCoupon, Still
  <2>2. CASE ~(Op(r) = "checkout" \/ used > 0)
    BY <1>1, <2>2, KnowsNow, DoneInv DEF ReadCoupon, Still
  <2> QED
    BY <2>1, <2>2
<1>2. CASE WriteCoupon(r)
  <2>1. used' \in Nat
    BY <1>2, KnowsNow DEF WriteCoupon, Sound, Records
  <2> QED
    BY <1>2, <2>1, KnowsNow, DoneInv DEF WriteCoupon, Still
<1> QED
  BY <1>1, <1>2

\* Every step that only adds intents or lets them be paid has to show what the
\* request that takes it knows.
LEMMA TableInv ==
  ASSUME PayInv, intents' \in Tables, Len(intents') <= MaxIntents, Later(intents, intents'),
         UNCHANGED <<overlap, status, committed, intentOf, stock, used, failures>>,
         Histories',
         req' \in [Requests -> Records],
         \A q \in Requests : req'[q] = req[q] \/ Sound(req'[q], status, intents')
  PROVE  PayInv'
<1> USE DEF PayInv
<1>1. intents \in Tables
  BY DEF TypeOK, Tables
<1>2. TypeOK'
  BY DEF TypeOK, Records, Tables, Histories
<1>3. ASSUME NEW q \in Requests PROVE Sound(req'[q], status', intents')
  <2>1. CASE req'[q] = req[q]
    <3>1. Sound(req[q], status, intents)
      BY KnowsNow
    <3>2. Sound(req[q], status, intents')
      BY <1>1, <3>1, SoundLater
    <3> QED
      BY <2>1, <3>2
  <2>2. CASE Sound(req'[q], status, intents')
    BY <2>2
  <2> QED
    BY <2>1, <2>2
<1>4. RequestsSound'
  BY <1>3 DEF RequestsSound
<1>5. IntentsOwn'
  BY DEF IntentsOwn, Later
<1>6. PaidFirst'
  <2>1. ASSUME NEW o \in Orders, Paid(o, intents) PROVE Paid(o, intents')
    BY <1>1, <2>1, PaidLater
  <2> QED
    BY <2>1 DEF PaidFirst, Paid
<1> QED
  BY <1>2, <1>4, <1>5, <1>6

\* The rows of the gateway's table.
LEMMA Rows ==
  ASSUME PayInv
  PROVE  /\ intents \in Tables /\ Len(intents) \in Nat /\ DOMAIN intents = 1 .. Len(intents)
         /\ \A j \in DOMAIN intents : intents[j] \in [order : Orders, paid : BOOLEAN]
<1>1. intents \in Seq([order : Orders, paid : BOOLEAN])
  BY DEF PayInv, TypeOK
<1>2. Len(intents) \in Nat /\ DOMAIN intents = 1 .. Len(intents)
  BY <1>1
<1>3. ASSUME NEW j \in 1 .. Len(intents) PROVE intents[j] \in [order : Orders, paid : BOOLEAN]
  BY <1>1, ElementOfSeq
<1> QED
  BY <1>1, <1>2, <1>3 DEF Tables

\* An intent is created for the order that is paid.
LEMMA CreateIntentInv ==
  ASSUME PayInv, NEW r \in Requests, CreateIntent(r), Still
  PROVE  PayInv'
<1> DEFINE new == [order |-> Order(r), paid |-> FALSE]
           n == Len(intents) + 1
           x == [req[r] EXCEPT !.at = "intent", !.seen = n]
<1>1. CASE Len(intents) < MaxIntents
  <2>1. intents \in Tables /\ Len(intents) \in Nat /\ DOMAIN intents = 1 .. Len(intents)
    BY Rows
  <2>2. new \in [order : Orders, paid : BOOLEAN]
    BY KnowsNow DEF CreateIntent, Sound
  <2>3. intents' = Append(intents, new)
    BY <1>1 DEF CreateIntent
  <2>4. /\ intents' \in Tables /\ Len(intents') = n
        /\ \A i \in 1 .. Len(intents) : intents'[i] = intents[i]
        /\ intents'[n] = new
    BY <2>1, <2>2, <2>3, AppendProperties DEF Tables
  <2>5. DOMAIN intents' = 1 .. n /\ n \in Nat /\ n \in 1 .. n
    BY <2>1, <2>4 DEF Tables
  <2>6. Later(intents, intents')
    BY <2>1, <2>4, <2>5 DEF Later
  <2>7. /\ x \in Records /\ x.at = "intent" /\ x.seen = n
        /\ x.op = req[r].op /\ x.order = req[r].order /\ x.line = req[r].line
    BY <2>5, KnowsNow DEF Records, Places
  <2>8. Sound(x, status, intents')
    BY <2>4, <2>5, <2>7, KnowsNow DEF CreateIntent, Sound
  <2>9. req' = [req EXCEPT ![r] = x]
    BY <1>1, KnowsNow DEF CreateIntent, PayInv, TypeOK, Records
  <2>10. req' \in [Requests -> Records]
    BY <2>7, <2>9 DEF PayInv, TypeOK, Records
  <2>11. \A q \in Requests : req'[q] = req[q] \/ Sound(req'[q], status, intents')
    BY <2>8, <2>9 DEF PayInv, TypeOK
  <2>12. Len(intents') <= MaxIntents
    BY <1>1, <2>1, <2>4
  <2> QED
    BY <1>1, <2>4, <2>6, <2>10, <2>11, <2>12, TableInv DEF CreateIntent, Still
<1>2. CASE ~(Len(intents) < MaxIntents)
  BY <1>2, KnowsNow, RaiseInv DEF CreateIntent, Still
<1> QED
  BY <1>1, <1>2

\* Money that has come in stays.
LEMMA SettleInv ==
  ASSUME PayInv, NEW i \in DOMAIN intents, Settle(i)
  PROVE  PayInv'
<1>1. /\ intents \in Tables /\ DOMAIN intents = 1 .. Len(intents) /\ Len(intents) \in Nat
      /\ \A j \in DOMAIN intents : intents[j] \in [order : Orders, paid : BOOLEAN]
  BY Rows
<1> DEFINE paid == [intents[i] EXCEPT !.paid = TRUE]
<1>2. intents' = [intents EXCEPT ![i] = paid] /\ paid \in [order : Orders, paid : BOOLEAN]
  BY <1>1 DEF Settle
<1>3. intents' \in Tables /\ Len(intents') <= MaxIntents
  BY <1>1, <1>2, ExceptSeq DEF Tables, PayInv, IntentsOwn
<1>4. Later(intents, intents')
  BY <1>1, <1>2 DEF Later
<1>5. req' = req /\ req \in [Requests -> Records] /\ Histories'
  BY DEF Settle, PayInv, TypeOK, Records, Histories
<1> QED
  BY <1>3, <1>4, <1>5, TableInv DEF Settle

\* The intent that an order refers to is one of its own.
LEMMA StoreIntentInv ==
  ASSUME PayInv, NEW r \in Requests, StoreIntent(r), Still
  PROVE  PayInv'
<1> USE DEF PayInv
<1>1. /\ Order(r) \in Orders /\ req[r].seen \in DOMAIN intents
      /\ intents[req[r].seen].order = Order(r)
  BY KnowsNow DEF StoreIntent, Sound
<1>2. req' \in [Requests -> Records] /\ req'[r] = Idle
      /\ \A q \in Requests \ {r} : req'[q] = req[q]
  BY IdleSound DEF StoreIntent, TypeOK, Records, Sound
<1>3. TypeOK'
  <2>1. req[r].seen \in 1 .. MaxIntents
    BY <1>1, Rows DEF IntentsOwn
  <2>2. intentOf' \in [Orders -> (1 .. MaxIntents) \cup {NoIntent}]
    BY <2>1 DEF StoreIntent, TypeOK
  <2> QED
    BY <1>2, <2>2 DEF StoreIntent, Still, TypeOK, Records, Histories
<1>4. RequestsSound'
  BY <1>2, IdleSound DEF StoreIntent, RequestsSound
<1>5. IntentsOwn'
  BY <1>1 DEF StoreIntent, IntentsOwn, TypeOK
<1>6. PaidFirst'
  BY DEF StoreIntent, PaidFirst
<1> QED
  BY <1>3, <1>4, <1>5, <1>6

\* A confirmation goes on with a paid intent of its order.
LEMMA ConfirmInv ==
  ASSUME PayInv, NEW r \in Requests, NEW i \in 1 .. MaxIntents, Confirm(r, i), Still
  PROVE  PayInv'
<1> DEFINE x == [req[r] EXCEPT !.at = "guard"]
<1>1. CASE i \in DOMAIN intents /\ Accepted(r, i)
  <2>1. Order(r) \in Orders /\ i # NoIntent
    BY KnowsNow DEF Confirm, Sound
  <2>2. intents[i].order = Order(r) /\ intents[i].paid
    BY <1>1, <2>1 DEF Accepted, PayInv, IntentsOwn
  <2>3. intents[i] \in [order : Orders, paid : BOOLEAN]
    BY <1>1, Rows
  <2>4. Paid(Order(r), intents)
    BY <1>1, <2>2, <2>3 DEF Paid
  <2>5. Sound(x, status, intents)
    BY <2>4, KnowsNow DEF Confirm, Sound, Records, Places, Target
  <2> QED
    BY <1>1, <2>5, KnowsNow, MoveInv DEF Confirm, Still, PayInv, TypeOK
<1>2. CASE ~(i \in DOMAIN intents /\ Accepted(r, i))
  BY <1>2, KnowsNow, RaiseInv DEF Confirm, Still
<1> QED
  BY <1>1, <1>2

\* The checks before a cancellation and before a restore.
LEMMA CheckInv ==
  ASSUME PayInv, NEW r \in Requests, CheckCancel(r) \/ Restore(r), Still
  PROVE  PayInv'
<1> DEFINE x(at) == [req[r] EXCEPT !.at = at]
<1>1. /\ committed \in [Orders -> BOOLEAN] /\ stock \in [Products -> Nat]
      /\ used \in Nat /\ failures \in 0 .. MaxFailures
  BY DEF PayInv, TypeOK
<1>2. CASE CheckCancel(r)
  <2>1. Sound(x("guard"), status, intents)
    BY <1>2, KnowsNow DEF CheckCancel, Sound, Records, Places, Target
  <2>2. CASE Raise(r)
    BY <2>2, <1>1, RaiseInv DEF Still
  <2>3. CASE Goto(r, "guard")
    BY <1>1, <1>2, <2>1, <2>2, <2>3, MoveInv DEF CheckCancel, Still
  <2> QED
    BY <1>2, <2>2, <2>3 DEF CheckCancel
<1>3. CASE Restore(r)
  <2>1. Sound(x("read"), status, intents) /\ Sound(x("coupon"), status, intents)
    BY <1>3, KnowsNow DEF Restore, Sound, Records, Places
  <2>2. CASE Done(r)
    BY <1>1, <1>3, <2>2, DoneInv DEF Restore, Still
  <2>3. CASE Goto(r, "read")
    BY <1>1, <1>3, <2>1, <2>3, MoveInv DEF Restore, Still
  <2>4. CASE Goto(r, "coupon")
    BY <1>1, <1>3, <2>1, <2>4, MoveInv DEF Restore, Still
  <2> QED
    BY <1>3, <2>2, <2>3, <2>4 DEF Restore, AfterStock
<1> QED
  BY <1>2, <1>3

\* From the guard on, a refund or a shipment has the payment of the status that
\* it found, and a confirmation the one that it checked.
LEMMA GuardInv ==
  ASSUME PayInv, NEW r \in Requests, Guard(r), Still
  PROVE  PayInv'
<1> DEFINE x == [req[r] EXCEPT !.at = "status"]
<1>1. CASE MayMove(r)
  <2>1. /\ Order(r) \in Orders /\ Op(r) \in {"confirm", "cancel", "refund", "ship"}
        /\ status[Order(r)] \in Statuses
    BY KnowsNow DEF Guard, Sound, Target, Operations, PayInv, TypeOK
  <2>2. Op(r) \in {"refund", "ship"} => status[Order(r)] \in {"processing", "shipped", "delivered"}
    <3>1. Target["refund"] = "refunded" /\ Target["ship"] = "shipped"
      BY DEF Target
    <3>2. /\ ALLOWED["pending"] = {"processing", "cancelled"}
          /\ ALLOWED["cancelled"] = {} /\ ALLOWED["refunded"] = {}
      BY DEF ALLOWED
    <3>3. Target[Op(r)] \in ALLOWED[status[Order(r)]]
      BY <1>1 DEF MayMove
    <3>4. Op(r) \in {"refund", "ship"} =>
              status[Order(r)] \notin {"pending", "cancelled", "refunded"}
      BY <3>1, <3>2, <3>3
    <3> QED
      BY <2>1, <3>4 DEF Statuses
  <2>3. Op(r) # "cancel" => Paid(Order(r), intents)
    BY <2>1, <2>2, KnowsNow DEF Guard, Sound, PayInv, PaidFirst, Paid
  <2>4. Sound(x, status, intents)
    BY <2>3, KnowsNow DEF Guard, Sound, Records, Places
  <2> QED
    BY <1>1, <2>4, KnowsNow, MoveInv DEF Guard, Still, PayInv, TypeOK
<1>2. CASE ~MayMove(r)
  BY <1>2, KnowsNow, RaiseInv DEF Guard, Still
<1> QED
  BY <1>1, <1>2

\* The status that is written was paid for.
LEMMA WriteStatusInv ==
  ASSUME PayInv, NEW r \in Requests, WriteStatus(r), Still
  PROVE  PayInv'
<1> USE DEF PayInv
<1>1. Order(r) \in Orders /\ Op(r) \in {"confirm", "cancel", "refund", "ship"}
  BY KnowsNow DEF WriteStatus, Sound, Target
<1>2. /\ Target[Op(r)] \in Statuses \ {"none"}
      /\ Op(r) = "cancel" => Target[Op(r)] = "cancelled"
  BY <1>1 DEF Target, Statuses
<1>3. status' \in [Orders -> Statuses \cup {"none"}]
  BY <1>1, <1>2 DEF WriteStatus, TypeOK
<1>4. \A o \in Orders : status'[o] = "none" => status[o] = "none"
  BY <1>2 DEF WriteStatus, TypeOK
<1>5. /\ req'[r] = Idle \/ req'[r] = [req[r] EXCEPT !.at = "restore"]
      /\ \A q \in Requests \ {r} : req'[q] = req[q]
  BY DEF WriteStatus, AfterStatus, TypeOK
<1>6. Sound(req[r], status', intents)
  BY <1>4, KnowsNow, Rows, SoundLater, SameTable
<1>7. Sound(req'[r], status', intents)
  <2>1. CASE req'[r] = Idle
    BY <2>1, IdleSound
  <2>2. CASE req'[r] = [req[r] EXCEPT !.at = "restore"]
    <3>1. req[r] \in Records
      BY <1>6 DEF Sound
    <3>2. /\ req'[r].at = "restore" /\ req'[r].op = req[r].op
          /\ req'[r].order = req[r].order /\ req'[r].line = req[r].line
          /\ req'[r] \in Records
      BY <2>2, <3>1 DEF Records, Places
    <3>3. req[r].at = "status"
      BY DEF WriteStatus
    <3> QED
      BY <1>6, <3>2, <3>3 DEF Sound
  <2> QED
    BY <1>5, <2>1, <2>2
<1>8. ASSUME NEW q \in Requests \ {r} PROVE Sound(req'[q], status', intents)
  <2>1. Sound(req[q], status, intents)
    BY KnowsNow
  <2> QED
    BY <1>4, <1>5, <2>1, Rows, SoundLater, SameTable
<1>9. RequestsSound'
  BY <1>7, <1>8 DEF WriteStatus, RequestsSound
<1>10. req' \in [Requests -> Records]
  BY <1>5, <1>7, <1>8 DEF WriteStatus, AfterStatus, Sound, TypeOK, Records
<1>11. TypeOK'
  BY <1>3, <1>10 DEF WriteStatus, Still, TypeOK, Records, Histories
<1>12. IntentsOwn'
  BY DEF WriteStatus, IntentsOwn
<1>13. Op(r) # "cancel" => Paid(Order(r), intents)
  BY KnowsNow DEF WriteStatus, Sound
<1>14. PaidFirst'
  BY <1>1, <1>2, <1>13 DEF WriteStatus, PaidFirst, Paid, TypeOK
<1> QED
  BY <1>9, <1>11, <1>12, <1>14

-----------------------------------------------------------------------------
\* At first there is nothing to pay for.
LEMMA InitInv == Init => PayInv
<1> SUFFICES ASSUME Init PROVE PayInv
  OBVIOUS
<1>1. Idle \in Records
  BY IdleSound DEF Sound
<1>2. <<>> \in Seq([order : Orders, paid : BOOLEAN]) /\ Len(<<>>) = 0
  OBVIOUS
<1>3. TypeOK
  BY <1>1, <1>2 DEF Init, TypeOK, Records, Statuses
<1>4. RequestsSound /\ IntentsOwn
  BY <1>2, IdleSound DEF Init, RequestsSound, IntentsOwn
<1>5. PaidFirst
  BY DEF Init, PaidFirst
<1> QED
  BY <1>3, <1>4, <1>5 DEF PayInv

\* Every step preserves the invariant.
LEMMA NextInv == PayInv /\ [Next]_vars => PayInv'
<1> SUFFICES ASSUME PayInv, [Next]_vars PROVE PayInv'
  OBVIOUS
<1>1. ASSUME NEW r \in Requests, NEW op \in Operations, NEW o \in Orders, Start(r, op, o)
      PROVE  PayInv'
  BY <1>1, StartInv
<1>2. ASSUME NEW r \in Requests, Step(r) PROVE PayInv'
  <2>1. Still
    <3>1. RunsShort(r) => <<Order(r), req[r].line>> \in Orders \X Nat
      BY KnowsNow DEF RunsShort, Sound, Records
    <3> QED
      BY <1>2, <3>1 DEF Step, Still, PayInv, TypeOK, Histories
  <2>2. ASSUME Quote(r) \/ Create(r) PROVE PayInv'
    BY <2>1, <2>2, QuoteInv, CreateInv
  <2>3. ASSUME ReadStock(r) \/ WriteStock(r) \/ WriteFlag(r) PROVE PayInv'
    BY <2>1, <2>3, ReadStockInv, WriteStockInv, WriteFlagInv
  <2>4. ASSUME ReadCoupon(r) \/ WriteCoupon(r) PROVE PayInv'
    BY <2>1, <2>4, CouponInv
  <2>5. ASSUME CreateIntent(r) \/ StoreIntent(r) PROVE PayInv'
    BY <2>1, <2>5, CreateIntentInv, StoreIntentInv
  <2>6. ASSUME NEW i \in 1 .. MaxIntents, Confirm(r, i) PROVE PayInv'
    BY <2>1, <2>6, ConfirmInv
  <2>7. ASSUME CheckCancel(r) \/ Guard(r) \/ WriteStatus(r) \/ Restore(r) PROVE PayInv'
    BY <2>1, <2>7, CheckInv, GuardInv, WriteStatusInv
  <2> QED
    BY <1>2, <2>2, <2>3, <2>4, <2>5, <2>6, <2>7 DEF Step
<1>3. ASSUME NEW r \in Requests, Abort(r) \/ Lose(r) PROVE PayInv'
  BY <1>3, AbortInv, LoseInv
<1>4. ASSUME NEW i \in DOMAIN intents, Settle(i) PROVE PayInv'
  BY <1>4, SettleInv
<1>5. CASE UNCHANGED vars
  BY <1>5 DEF vars, PayInv, TypeOK, RequestsSound, IntentsOwn, PaidFirst
<1> QED
  BY <1>1, <1>2, <1>3, <1>4, <1>5 DEF Next

\* Orders and payments keep the invariant in every reachable state.
LEMMA PaySafe == Spec => []PayInv
<1> QED
  BY InitInv, NextInv, PTL DEF Spec

\* Every variable keeps its shape, and no count goes below nothing.
THEOREM CommerceTypeCorrect == Spec => []TypeOK
<1>1. PayInv => TypeOK
  BY DEF PayInv
<1> QED
  BY <1>1, PaySafe, PTL

\* pay and confirm: however requests overlap and wherever they break off, an order
\* that went on to processing, shipping or a refund was paid with an intent of its own.
THEOREM OrdersArePaidFirst == Spec => []PaidFirst
<1>1. PayInv => PaidFirst
  BY DEF PayInv
<1> QED
  BY <1>1, PaySafe, PTL

-----------------------------------------------------------------------------
(* What the shelves and the open orders have between them, as long as      *)
(* requests do not overlap and no write is lost that puts a unit in both.  *)

Serial == ~overlap /\ lost \cap Doubling = {}

\* Every order got all its stock, or none.
Whole == failures = 0 /\ \A x \in ranOut : x[2] = 1

\* The lines of orders, a unit each.
Units == UNION {{o} \X DOMAIN Lines[o] : o \in Orders}

\* A request x that places order o has taken line i; one that cancels or
\* refunds it has not given it back yet.
Taking(x, o, i) ==
    x.op = "checkout" /\ x.order = o /\ x.at \in {"read", "write"} /\ i < x.line
Giving(x, o, i) ==
    /\ x.op \in {"cancel", "refund"} /\ x.order = o /\ committed[o]
    /\ x.at = "restore" \/ (x.at \in {"read", "write"} /\ i >= x.line)

\* A unit is off the shelf, and somebody knows.
Away(x, o, i) == o \in Holding \/ Taking(x, o, i) \/ Giving(x, o, i)
Off(o, i) == o \in Holding \/ \E r \in Requests : Away(req[r], o, i)
Out(p) == {u \in Units : Lines[u[1]][u[2]] = p /\ Off(u[1], u[2])}

\* No unit is in two places, and none is nowhere unless a request left its work half
\* done.
Counted(p) ==
    /\ IsFiniteSet(Out(p))
    /\ stock[p] + Cardinality(Out(p)) <= InitialStock
    /\ Whole => stock[p] + Cardinality(Out(p)) = InitialStock

\* What a request finds that is the only one under way.
Early == {"quote", "create", "check", "guard", "status", "restore"}

\* The order that a checkout places, unless its creation was lost.
Placed(o) == status[o] = "pending" \/ (status[o] = "none" /\ failures # 0)
USE DEF Placed

InTurn(x) ==
    /\ x.at \in Early => x.line = 1
    /\ x.at \in {"quote", "create"} => x.op = "checkout" /\ status[x.order] = "none"
    /\ x.at \in {"read", "write", "restore"} =>
         \/ /\ x.op = "checkout" /\ x.at # "restore"
            /\ ~committed[x.order] /\ Placed(x.order)
         \/ /\ x.op \in {"cancel", "refund"} /\ status[x.order] = Target[x.op]
            /\ x.at # "restore" => committed[x.order]
    /\ x.at = "status" => Target[x.op] \in ALLOWED[status[x.order]]
    /\ x.at = "write" =>
         x.line <= Len(Lines[x.order]) /\ x.seen = stock[Lines[x.order][x.line]]
    /\ x.at \in {"create", "read", "write", "coupon", "couponWrite"}
          /\ x.op = "checkout" /\ x.order \in WithCoupon => used < UsageLimit
    /\ x.at \in {"coupon", "couponWrite"} =>
         /\ x.order \in WithCoupon
         /\ \/ x.op = "checkout" /\ Placed(x.order)
            \/ x.op = "cancel" /\ status[x.order] = "cancelled"
    /\ x.at = "couponWrite" => x.seen = used

Alone == \A q, r \in Requests : q = r \/ At(q, "idle") \/ At(r, "idle")
InTurns == \A r \in Requests : ~At(r, "idle") => InTurn(req[r])
OnlyPlaced == \A o \in Orders : committed[o] => status[o] # "none"
AllCounted == \A p \in Products : Counted(p)

CountInv == Serial => Alone /\ InTurns /\ OnlyPlaced /\ used <= UsageLimit /\ AllCounted

\* Where nobody else is under way, r alone knows what is off the shelf.
LEMMA OffAlone ==
  ASSUME PayInv, NEW r \in Requests, \A q \in Requests \ {r} : At(q, "idle"),
         NEW o \in Orders, NEW i
  PROVE  Off(o, i) <=> Away(req[r], o, i)
BY DEF Off, Away, Taking, Giving

\* Nothing has moved.
LEMMA SameCounted ==
  ASSUME AllCounted, UNCHANGED stock, Whole' => Whole,
         \A o \in Orders : \A i \in DOMAIN Lines[o] : Off(o, i)' <=> Off(o, i)
  PROVE  AllCounted'
<1> SUFFICES ASSUME NEW p \in Products PROVE Counted(p)'
  BY DEF AllCounted
<1>1. \A u \in Units : u[1] \in Orders /\ u[2] \in DOMAIN Lines[u[1]]
  BY DEF Units
<1>2. Out(p)' = Out(p)
  BY <1>1 DEF Out
<1> QED
  BY <1>2 DEF AllCounted, Counted

\* A request that breaks off forgets what it has taken or has to give back.
LEMMA LessCounted ==
  ASSUME PayInv, AllCounted, UNCHANGED stock, ~Whole',
         \A o \in Orders : \A i \in DOMAIN Lines[o] : Off(o, i)' => Off(o, i)
  PROVE  AllCounted'
<1> SUFFICES ASSUME NEW p \in Products PROVE Counted(p)'
  BY DEF AllCounted
<1>1. \A u \in Units : u[1] \in Orders /\ u[2] \in DOMAIN Lines[u[1]]
  BY DEF Units
<1>2. Out(p)' \subseteq Out(p)
  BY <1>1 DEF Out
<1>3. IsFiniteSet(Out(p)) /\ stock[p] + Cardinality(Out(p)) <= InitialStock
  BY DEF AllCounted, Counted
<1>4. PICK O : O = Out(p)'
  OBVIOUS
<1>5. IsFiniteSet(O) /\ Cardinality(O) <= Cardinality(Out(p))
  BY <1>2, <1>3, <1>4, FS_Subset
<1>6. Cardinality(O) \in Nat /\ Cardinality(Out(p)) \in Nat /\ stock[p] \in Nat
  BY <1>3, <1>5, FS_CardinalityType DEF PayInv, TypeOK
<1>7. stock'[p] + Cardinality(O) <= InitialStock
  BY <1>3, <1>5, <1>6
<1> QED
  BY <1>4, <1>5, <1>7 DEF Counted

\* A unit is taken from the shelf.
LEMMA TakenCounted ==
  ASSUME PayInv, AllCounted, NEW o \in Orders, NEW i \in DOMAIN Lines[o],
         stock' = [stock EXCEPT ![Lines[o][i]] = stock[Lines[o][i]] - 1],
         Whole' => Whole, ~Off(o, i),
         \A b \in Orders : \A j \in DOMAIN Lines[b] :
            Off(b, j)' <=> Off(b, j) \/ (b = o /\ j = i)
  PROVE  AllCounted'
<1> SUFFICES ASSUME NEW p \in Products PROVE Counted(p)'
  BY DEF AllCounted
<1>1. \A u \in Units : u = <<u[1], u[2]>> /\ u[1] \in Orders /\ u[2] \in DOMAIN Lines[u[1]]
  BY DEF Units
<1>2. <<o, i>> \in Units
  BY DEF Units
<1>3. /\ IsFiniteSet(Out(p)) /\ stock[p] + Cardinality(Out(p)) <= InitialStock
      /\ Whole => stock[p] + Cardinality(Out(p)) = InitialStock
  BY DEF AllCounted, Counted
<1>4. Cardinality(Out(p)) \in Nat /\ stock[p] \in Nat
  BY <1>3, FS_CardinalityType DEF PayInv, TypeOK
<1>5. CASE p # Lines[o][i]
  <2>1. Out(p)' = Out(p)
    BY <1>1, <1>5 DEF Out
  <2>2. stock'[p] = stock[p]
    BY <1>5 DEF PayInv, TypeOK
  <2> QED
    BY <1>3, <2>1, <2>2 DEF Counted
<1>6. CASE p = Lines[o][i]
  <2>1. <<o, i>> \notin Out(p)
    BY DEF Out
  <2>2. Out(p)' = Out(p) \cup {<<o, i>>}
    BY <1>1, <1>2, <1>6 DEF Out
  <2>3. PICK O : O = Out(p)'
    OBVIOUS
  <2>4. IsFiniteSet(O) /\ Cardinality(O) = Cardinality(Out(p)) + 1
    <3>1. PICK A : A = Out(p)
      OBVIOUS
    <3>2. IsFiniteSet(A) /\ <<o, i>> \notin A
      BY <1>3, <2>1, <3>1
    <3>3. O = A \cup {<<o, i>>}
      BY <2>2, <2>3, <3>1
    <3>4. IsFiniteSet(O) /\ Cardinality(O) = Cardinality(A) + 1
      BY <3>2, <3>3, FS_AddElement
    <3> QED
      BY <3>1, <3>4
  <2>5. stock'[p] = stock[p] - 1
    BY <1>6 DEF PayInv, TypeOK
  <2>6. stock'[p] + Cardinality(O) = stock[p] + Cardinality(Out(p))
    BY <1>4, <2>4, <2>5
  <2> QED
    BY <1>3, <2>3, <2>4, <2>6 DEF Counted
<1> QED
  BY <1>5, <1>6

\* A unit is put back on the shelf.
LEMMA GivenCounted ==
  ASSUME PayInv, AllCounted, NEW o \in Orders, NEW i \in DOMAIN Lines[o],
         stock' = [stock EXCEPT ![Lines[o][i]] = stock[Lines[o][i]] + 1],
         Whole' => Whole, Off(o, i),
         \A b \in Orders : \A j \in DOMAIN Lines[b] :
            Off(b, j)' <=> Off(b, j) /\ ~(b = o /\ j = i)
  PROVE  AllCounted'
<1> SUFFICES ASSUME NEW p \in Products PROVE Counted(p)'
  BY DEF AllCounted
<1>1. \A u \in Units : u = <<u[1], u[2]>> /\ u[1] \in Orders /\ u[2] \in DOMAIN Lines[u[1]]
  BY DEF Units
<1>2. <<o, i>> \in Units
  BY DEF Units
<1>3. /\ IsFiniteSet(Out(p)) /\ stock[p] + Cardinality(Out(p)) <= InitialStock
      /\ Whole => stock[p] + Cardinality(Out(p)) = InitialStock
  BY DEF AllCounted, Counted
<1>4. Cardinality(Out(p)) \in Nat /\ stock[p] \in Nat
  BY <1>3, FS_CardinalityType DEF PayInv, TypeOK
<1>5. CASE p # Lines[o][i]
  <2>1. Out(p)' = Out(p)
    BY <1>1, <1>5 DEF Out
  <2>2. stock'[p] = stock[p]
    BY <1>5 DEF PayInv, TypeOK
  <2> QED
    BY <1>3, <2>1, <2>2 DEF Counted
<1>6. CASE p = Lines[o][i]
  <2>1. <<o, i>> \in Out(p)
    BY <1>2, <1>6 DEF Out
  <2>2. Out(p)' = Out(p) \ {<<o, i>>}
    BY <1>1, <1>2, <1>6 DEF Out
  <2>3. PICK O : O = Out(p)'
    OBVIOUS
  <2>4. IsFiniteSet(O) /\ Cardinality(O) = Cardinality(Out(p)) - 1
    <3>1. PICK A : A = Out(p)
      OBVIOUS
    <3>2. IsFiniteSet(A) /\ <<o, i>> \in A
      BY <1>3, <2>1, <3>1
    <3>3. O = A \ {<<o, i>>}
      BY <2>2, <2>3, <3>1
    <3>4. IsFiniteSet(O) /\ Cardinality(O) = Cardinality(A) - 1
      BY <3>2, <3>3, FS_RemoveElement
    <3> QED
      BY <3>1, <3>4
  <2>5. stock'[p] = stock[p] + 1
    BY <1>6 DEF PayInv, TypeOK
  <2>6. stock'[p] + Cardinality(O) = stock[p] + Cardinality(Out(p))
    BY <1>4, <2>4, <2>5
  <2> QED
    BY <1>3, <2>3, <2>4, <2>6 DEF Counted
<1> QED
  BY <1>5, <1>6

\* The step of the only request under way.
LEMMA TurnKept ==
  ASSUME CountInv,
         NEW r \in Requests, \A q \in Requests \ {r} : At(q, "idle"),
         \A q \in Requests \ {r} : req'[q] = req[q],
         req'[r].at = "idle" \/ InTurn(req[r])',
         OnlyPlaced', used' <= UsageLimit, AllCounted'
  PROVE  CountInv'
<1>1. Alone'
  BY DEF Alone
<1>2. InTurns'
  BY DEF InTurns
<1> QED
  BY <1>1, <1>2 DEF CountInv

\* The request becomes x.
Turns(r, x) == x \in Records /\ req' = [req EXCEPT ![r] = x]

LEMMA Turned ==
  ASSUME PayInv, NEW r \in Requests, NEW x, Turns(r, x)
  PROVE  req'[r] = x /\ (\A q \in Requests \ {r} : req'[q] = req[q]) /\ req' \in [Requests -> Records]
BY DEF Turns, PayInv, TypeOK, Records

LEMMA WentTo ==
  ASSUME PayInv, NEW r \in Requests, NEW p \in Places, Goto(r, p)
  PROVE  \E x : /\ Turns(r, x) /\ x.at = p /\ x.op = Op(r) /\ x.order = Order(r)
                /\ x.line = req[r].line /\ x.seen = req[r].seen
<1>1. PICK d \in Records : d = req[r]
  BY KnowsNow
<1> DEFINE x == [d EXCEPT !.at = p]
<1>2. /\ x \in Records /\ x.at = p /\ x.op = d.op /\ x.order = d.order
      /\ x.line = d.line /\ x.seen = d.seen
  BY DEF Records
<1>3. req' = [req EXCEPT ![r] = x]
  BY <1>1
<1> HIDE DEF x
<1> QED
  BY <1>1, <1>2, <1>3 DEF Turns

LEMMA WentSeeing ==
  ASSUME PayInv, NEW r \in Requests, NEW p \in Places, NEW v \in Nat, GotoSeen(r, p, v)
  PROVE  \E x : /\ Turns(r, x) /\ x.at = p /\ x.op = Op(r) /\ x.order = Order(r)
                /\ x.line = req[r].line /\ x.seen = v
<1>1. PICK d \in Records : d = req[r]
  BY KnowsNow
<1> DEFINE x == [d EXCEPT !.at = p, !.seen = v]
<1>2. /\ x \in Records /\ x.at = p /\ x.op = d.op /\ x.order = d.order
      /\ x.line = d.line /\ x.seen = v
  BY DEF Records
<1>3. req' = [req EXCEPT ![r] = x]
  BY <1>1
<1> HIDE DEF x
<1> QED
  BY <1>1, <1>2, <1>3 DEF Turns

LEMMA WentIdle ==
  ASSUME PayInv, NEW r \in Requests, Done(r)
  PROVE  Turns(r, Idle) /\ Idle.at = "idle"
BY IdleSound DEF Turns, Sound, Idle

LEMMA WentOn ==
  ASSUME PayInv, NEW r \in Requests, NextLine(r)
  PROVE  \E x : /\ Turns(r, x) /\ x.at = "read" /\ x.op = Op(r) /\ x.order = Order(r)
                /\ x.line = req[r].line + 1
<1>1. PICK d \in Records : d = req[r]
  BY KnowsNow
<1>2. PICK n \in Nat : n = d.line + 1
  BY <1>1 DEF Records
<1> DEFINE x == [d EXCEPT !.at = "read", !.line = n]
<1>3. /\ x \in Records /\ x.at = "read" /\ x.op = d.op /\ x.order = d.order
      /\ x.line = n
  BY DEF Records, Places
<1>4. req' = [req EXCEPT ![r] = x]
  BY <1>1, <1>2 DEF NextLine, Records
<1> HIDE DEF x
<1> QED
  BY <1>1, <1>2, <1>3, <1>4 DEF Turns

\* What is known of the only request under way.
LEMMA TurnNow ==
  ASSUME PayInv, CountInv, Serial, NEW r \in Requests, ~At(r, "idle")
  PROVE  /\ \A q \in Requests \ {r} : At(q, "idle")
         /\ InTurn(req[r]) /\ OnlyPlaced /\ used <= UsageLimit /\ AllCounted
         /\ Order(r) \in Orders /\ Op(r) \in Operations /\ req[r].line \in Nat \ {0}
         /\ req[r].seen \in Nat
         /\ Lines[Order(r)] \in Seq(Products) /\ Len(Lines[Order(r)]) \in Nat
         /\ DOMAIN Lines[Order(r)] = 1 .. Len(Lines[Order(r)])
<1>1. \A q \in Requests \ {r} : At(q, "idle")
  BY DEF CountInv, Alone
<1>2. InTurn(req[r]) /\ OnlyPlaced /\ used <= UsageLimit /\ AllCounted
  BY DEF CountInv, InTurns
<1>3. /\ Order(r) \in Orders /\ Op(r) \in Operations /\ req[r].line \in Nat \ {0}
      /\ req[r].seen \in Nat
  BY KnowsNow DEF Sound, Records
<1> QED
  BY <1>1, <1>2, <1>3

\* Where the others are idle after the step as well, only what r knows then counts.
LEMMA OffThen ==
  ASSUME NEW r \in Requests, \A q \in Requests \ {r} : req'[q].at = "idle",
         NEW x, req'[r] = x, NEW o \in Orders, NEW i
  PROVE  Off(o, i)' <=> Away(x, o, i)'
BY DEF Off, Away, Taking, Giving

\* The only request under way moves to x; stock stays where it is, and so does
\* what is off the shelf.
LEMMA MoveKept ==
  ASSUME PayInv, CountInv, Serial, stock' = stock, Whole' => Whole,
         NEW r \in Requests, ~At(r, "idle"), NEW x, Turns(r, x),
         x.at = "idle" \/ InTurn(x)', OnlyPlaced', used' <= UsageLimit,
         \A o \in Orders : \A i \in DOMAIN Lines[o] :
            Away(x, o, i)' <=> Away(req[r], o, i)
  PROVE  CountInv'
<1>1. \A q \in Requests \ {r} : At(q, "idle")
  BY TurnNow
<1>2. AllCounted
  BY TurnNow
<1>3. req'[r] = x /\ \A q \in Requests \ {r} : req'[q] = req[q]
  BY Turned
<1>4. ASSUME NEW o \in Orders, NEW i \in DOMAIN Lines[o] PROVE Off(o, i)' <=> Off(o, i)
  <2>1. Off(o, i) <=> Away(req[r], o, i)
    BY <1>1, OffAlone
  <2>2. Off(o, i)' <=> Away(x, o, i)'
    BY <1>1, <1>3, OffThen
  <2> QED
    BY <2>1, <2>2
<1>5. AllCounted'
  BY <1>2, <1>4, SameCounted
<1>6. req'[r].at = "idle" \/ InTurn(req[r])'
  BY <1>3
<1> QED
  BY <1>1, <1>3, <1>5, <1>6, TurnKept

\* It is answered with an error before it has taken anything or has to give back.
LEMMA RaiseKept ==
  ASSUME PayInv, CountInv, Serial, Whole' => Whole, NEW r \in Requests, ~At(r, "idle"), Raise(r),
         \A o \in Orders : \A i \in DOMAIN Lines[o] :
            ~Taking(req[r], o, i) /\ ~Giving(req[r], o, i)
  PROVE  CountInv'
<1>1. Turns(r, Idle) /\ Idle.at = "idle"
  BY WentIdle
<1>2. OnlyPlaced' /\ used' <= UsageLimit
  BY TurnNow DEF OnlyPlaced
<1>3. ASSUME NEW o \in Orders, NEW i \in DOMAIN Lines[o]
      PROVE  Away(Idle, o, i)' <=> Away(req[r], o, i)
  BY DEF Away, Holding, Taking, Giving, Idle
<1> QED
  BY <1>1, <1>2, <1>3, MoveKept

-----------------------------------------------------------------------------
\* The only request under way, before a step that is no start and no break.
InStep == Serial /\ UNCHANGED failures

\* A request starts: nobody else is under way, and it has taken nothing yet.
LEMMA StartTurn ==
  ASSUME PayInv, CountInv, Serial, NEW r \in Requests, NEW op \in Operations,
         NEW o \in Orders, Start(r, op, o)
  PROVE  CountInv'
<1> DEFINE x == [op |-> op, order |-> o, at |-> EntryOf[op], line |-> 1, seen |-> 0]
<1>1. \A q \in Requests : At(q, "idle")
  BY DEF Start, Serial
<1>2. /\ EntryOf[op] \in {"quote", "intent", "check", "guard"}
      /\ EntryOf[op] = "quote" <=> op = "checkout"
  BY DEF EntryOf, Operations
<1>3. req'[r] = x /\ \A q \in Requests \ {r} : req'[q] = req[q]
  BY DEF Start, PayInv, TypeOK
<1>4. /\ x.op = op /\ x.order = o /\ x.at = EntryOf[op] /\ x.line = 1
  OBVIOUS
<1>5. op = "checkout" => status'[o] = "none"
  BY DEF Start
<1> HIDE DEF x
<1>6. InTurn(x)'
  BY <1>2, <1>4, <1>5 DEF InTurn, Early
<1>7. ASSUME NEW b \in Orders, NEW i \in DOMAIN Lines[b] PROVE Off(b, i)' <=> Off(b, i)
  <2>1. Off(b, i) <=> b \in Holding
    BY <1>1 DEF Off, Away, Taking, Giving
  <2>2. Off(b, i)' <=> Away(x, b, i)'
    BY <1>1, <1>3, OffThen
  <2>3. Away(x, b, i)' <=> b \in Holding
    BY <1>2, <1>4 DEF Away, Taking, Giving, Start, Holding
  <2> QED
    BY <2>1, <2>2, <2>3
<1>8. AllCounted'
  BY <1>7, SameCounted DEF Start, CountInv, Whole
<1>9. OnlyPlaced' /\ used' <= UsageLimit
  BY DEF Start, CountInv, OnlyPlaced
<1> QED
  BY <1>1, <1>3, <1>6, <1>8, <1>9, TurnKept DEF Start

\* A request that fails forgets at most what it has taken or has to give back.
LEMMA LessKept ==
  ASSUME PayInv, CountInv, Serial, stock' = stock, ~Whole',
         NEW r \in Requests, ~At(r, "idle"), NEW x, Turns(r, x),
         x.at = "idle" \/ InTurn(x)', OnlyPlaced', used' <= UsageLimit,
         \A o \in Orders : \A i \in DOMAIN Lines[o] :
            Away(x, o, i)' => Away(req[r], o, i)
  PROVE  CountInv'
<1>1. (\A q \in Requests \ {r} : At(q, "idle")) /\ AllCounted
  BY TurnNow
<1>2. req'[r] = x /\ \A q \in Requests \ {r} : req'[q] = req[q]
  BY Turned
<1>3. ASSUME NEW o \in Orders, NEW i \in DOMAIN Lines[o] PROVE Off(o, i)' => Off(o, i)
  <2>1. Off(o, i) <=> Away(req[r], o, i)
    BY <1>1, OffAlone
  <2>2. Off(o, i)' <=> Away(x, o, i)'
    BY <1>1, <1>2, OffThen
  <2> QED
    BY <2>1, <2>2
<1>4. AllCounted'
  BY <1>1, <1>3, LessCounted
<1>5. req'[r].at = "idle" \/ InTurn(req[r])'
  BY <1>2
<1> QED
  BY <1>1, <1>2, <1>4, <1>5, TurnKept

\* A request breaks off.
LEMMA AbortTurn ==
  ASSUME PayInv, CountInv, Serial, NEW r \in Requests, Abort(r)
  PROVE  CountInv'
<1>1. Turns(r, Idle) /\ Idle.at = "idle" /\ ~At(r, "idle") /\ stock' = stock
  BY WentIdle DEF Abort
<1>2. ASSUME NEW b \in Orders, NEW i \in DOMAIN Lines[b]
      PROVE  Away(Idle, b, i)' => Away(req[r], b, i)
  BY DEF Away, Taking, Giving, Idle, Abort, Holding
<1>3. ~Whole'
  BY DEF Abort, PayInv, TypeOK, Whole
<1>4. OnlyPlaced' /\ used' <= UsageLimit
  BY DEF Abort, CountInv, OnlyPlaced
<1> QED
  BY <1>1, <1>2, <1>3, <1>4, LessKept

\* A write is lost, or a lookup that finds nothing skips it.  The worst of these are
\* no longer serial; the others leave a unit or a use of the coupon nowhere.
LEMMA LoseTurn ==
  ASSUME PayInv, CountInv, Serial, NEW r \in Requests, Lose(r)
  PROVE  CountInv'
<1>1. /\ InTurn(req[r]) /\ ~At(r, "idle") /\ OnlyPlaced /\ used <= UsageLimit
      /\ Order(r) \in Orders /\ Op(r) \in Operations /\ req[r].line \in Nat \ {0}
      /\ DOMAIN Lines[Order(r)] = 1 .. Len(Lines[Order(r)])
      /\ Len(Lines[Order(r)]) \in Nat
  BY TurnNow DEF Lose
<1>2. UNCHANGED <<status, committed, stock, used>> /\ failures' # 0 /\ ~Whole'
  BY DEF Lose, PayInv, TypeOK, Whole
<1>3. OnlyPlaced' /\ used' <= UsageLimit
  BY <1>1, <1>2 DEF OnlyPlaced
<1>4. lost' = lost \cup {<<Op(r), req[r].at>>}
  BY DEF Lose, Serial
<1>5. CASE Done(r)
  <2>1. Turns(r, Idle) /\ Idle.at = "idle"
    BY <1>5, WentIdle
  <2>2. ASSUME NEW b \in Orders, NEW i \in DOMAIN Lines[b]
        PROVE  Away(Idle, b, i)' => Away(req[r], b, i)
    BY <1>2 DEF Away, Taking, Giving, Idle, Holding
  <2> QED
    BY <1>1, <1>2, <1>3, <2>1, <2>2, LessKept
<1>6. CASE At(r, "create") /\ Goto(r, "read")
  <2>1. PICK x : /\ Turns(r, x) /\ x.at = "read" /\ x.op = Op(r)
                 /\ x.order = Order(r) /\ x.line = req[r].line
    <3>1. "read" \in Places
      BY DEF Places
    <3> HIDE DEF Goto, Op, Order
    <3> QED
      BY <1>6, <3>1, WentTo
  <2>2. /\ Op(r) = "checkout" /\ status[Order(r)] = "none" /\ ~committed[Order(r)]
        /\ req[r].line = 1 /\ (Order(r) \in WithCoupon => used < UsageLimit)
    BY <1>1, <1>6 DEF InTurn, Early, OnlyPlaced
  <2>3. InTurn(x)'
    BY <1>2, <2>1, <2>2 DEF InTurn, Early
  <2>4. ASSUME NEW o \in Orders, NEW i \in DOMAIN Lines[o]
        PROVE  Away(x, o, i)' => Away(req[r], o, i)
    <3>1. i \in Nat /\ i >= 1
      OBVIOUS
    <3> QED
      BY <1>2, <2>1, <2>2, <3>1 DEF Away, Taking, Giving, Holding
  <2> QED
    BY <1>1, <1>2, <1>3, <2>1, <2>3, <2>4, LessKept
<1>7. CASE (At(r, "read") \/ At(r, "restore")) /\ AfterStock(r) /\ Goto(r, "coupon")
  <2>1. PICK x : /\ Turns(r, x) /\ x.at = "coupon" /\ x.op = Op(r) /\ x.order = Order(r)
    <3>1. "coupon" \in Places
      BY DEF Places
    <3> HIDE DEF Goto, Op, Order
    <3> QED
      BY <1>7, <3>1, WentTo
  <2>2. Op(r) # "refund" /\ Order(r) \in WithCoupon
    <3>1. ~Done(r)
      <4>1. Turns(r, Idle) => x.at = "idle"
        BY <2>1 DEF Turns, PayInv, TypeOK, Idle
      <4> QED
        BY <2>1, <4>1, WentIdle
    <3> QED
      BY <1>7, <3>1 DEF AfterStock
  <2>3. InTurn(x)'
    BY <1>1, <1>2, <1>7, <2>1, <2>2 DEF InTurn, Early, Target
  <2>4. ASSUME NEW o \in Orders, NEW i \in DOMAIN Lines[o]
        PROVE  Away(x, o, i)' => Away(req[r], o, i)
    BY <1>2, <2>1 DEF Away, Taking, Giving, Holding
  <2> QED
    BY <1>1, <1>2, <1>3, <2>1, <2>3, <2>4, LessKept
<1>8. CASE At(r, "status") /\ Op(r) \in {"cancel", "refund"}
  BY <1>4, <1>8 DEF CountInv, Serial, Doubling
<1>9. CASE At(r, "write") /\ NextLine(r) /\ Op(r) = "checkout"
  BY <1>4, <1>9 DEF CountInv, Serial, Doubling
<1>10. CASE At(r, "write") /\ NextLine(r) /\ Op(r) # "checkout"
  <2>1. PICK x : /\ Turns(r, x) /\ x.at = "read" /\ x.op = Op(r)
                 /\ x.order = Order(r) /\ x.line = req[r].line + 1
    BY <1>10, WentOn
  <2>2. Op(r) \in {"cancel", "refund"} /\ status[Order(r)] = Target[Op(r)] /\ committed[Order(r)]
    BY <1>1, <1>10 DEF InTurn
  <2>3. InTurn(x)'
    BY <1>2, <2>1, <2>2 DEF InTurn, Early
  <2>4. ASSUME NEW o \in Orders, NEW i \in DOMAIN Lines[o]
        PROVE  Away(x, o, i)' => Away(req[r], o, i)
    <3>1. i \in Nat
      OBVIOUS
    <3> QED
      BY <1>1, <1>2, <1>10, <2>1, <2>2, <3>1 DEF Away, Taking, Giving, Holding
  <2> QED
    BY <1>1, <1>2, <1>3, <2>1, <2>3, <2>4, LessKept
<1> QED
  BY <1>5, <1>6, <1>7, <1>8, <1>9, <1>10 DEF Lose, AfterStock, AfterStatus

\* The quote leaves the coupon room for this use.
LEMMA QuoteTurn ==
  ASSUME PayInv, CountInv, NEW r \in Requests, Quote(r), InStep, Whole' => Whole
  PROVE  CountInv'
<1> USE DEF InStep
<1>1. /\ InTurn(req[r]) /\ At(r, "quote") /\ ~At(r, "idle") /\ OnlyPlaced
      /\ used <= UsageLimit
  BY TurnNow DEF Quote
<1>2. CASE WithinLimit(r)
  <2>1. PICK x : /\ Turns(r, x) /\ x.at = "create" /\ x.op = Op(r)
                 /\ x.order = Order(r) /\ x.line = req[r].line
    BY <1>2, WentTo DEF Quote, Places
  <2>2. UNCHANGED <<status, committed, stock, used>>
    BY <1>2 DEF Quote
  <2>3. InTurn(x)'
    BY <1>1, <1>2, <2>1, <2>2 DEF InTurn, Early, WithinLimit
  <2>4. OnlyPlaced' /\ used' <= UsageLimit
    BY <1>1, <2>2 DEF OnlyPlaced
  <2>5. ASSUME NEW o \in Orders, NEW i \in DOMAIN Lines[o]
        PROVE  Away(x, o, i)' <=> Away(req[r], o, i)
    BY <1>1, <2>1, <2>2 DEF Away, Taking, Giving, Holding
  <2> QED
    BY <1>1, <2>1, <2>2, <2>3, <2>4, <2>5, MoveKept
<1>3. CASE ~WithinLimit(r)
  BY <1>1, <1>3, RaiseKept DEF Quote, Taking, Giving
<1> QED
  BY <1>2, <1>3

\* The new order has no stock yet.
LEMMA CreateTurn ==
  ASSUME PayInv, CountInv, NEW r \in Requests, Create(r), InStep, Whole' => Whole
  PROVE  CountInv'
<1> USE DEF InStep
<1>1. /\ InTurn(req[r]) /\ At(r, "create") /\ ~At(r, "idle") /\ OnlyPlaced
      /\ used <= UsageLimit /\ Order(r) \in Orders
  BY TurnNow DEF Create
<1>2. PICK x : /\ Turns(r, x) /\ x.at = "read" /\ x.op = Op(r)
               /\ x.order = Order(r) /\ x.line = req[r].line
  <2>1. Goto(r, "read") /\ "read" \in Places
    BY DEF Create, Places
  <2> HIDE DEF Goto, Op, Order
  <2> QED
    BY <2>1, WentTo
<1>3. UNCHANGED <<committed, stock, used>>
  BY DEF Create
<1>4. /\ Op(r) = "checkout" /\ status[Order(r)] = "none" /\ ~committed[Order(r)]
      /\ req[r].line = 1 /\ (Order(r) \in WithCoupon => used < UsageLimit)
  BY <1>1 DEF InTurn, Early, OnlyPlaced
<1>5. /\ status'[Order(r)] = "pending"
      /\ \A b \in Orders \ {Order(r)} : status'[b] = status[b]
  BY <1>1 DEF Create, PayInv, TypeOK
<1>6. InTurn(x)'
  BY <1>2, <1>3, <1>4, <1>5 DEF InTurn, Early
<1>7. OnlyPlaced' /\ used' <= UsageLimit
  BY <1>1, <1>3, <1>5 DEF OnlyPlaced
<1>8. ASSUME NEW o \in Orders, NEW i \in DOMAIN Lines[o]
      PROVE  Away(x, o, i)' <=> Away(req[r], o, i)
  <2>1. Lines[o] \in Seq(Products) /\ i >= 1 /\ i \in Nat
    OBVIOUS
  <2>2. o \in Holding' <=> o \in Holding
    BY <1>3, <1>4, <1>5 DEF Holding
  <2> QED
    BY <1>1, <1>2, <1>4, <2>1, <2>2 DEF Away, Taking, Giving
<1> QED
  BY <1>1, <1>2, <1>3, <1>6, <1>7, <1>8, MoveKept

\* A line of stock is read; or there is none, and an order that has taken earlier
\* lines keeps them.
LEMMA ReadStockTurn ==
  ASSUME PayInv, CountInv, NEW r \in Requests, ReadStock(r), InStep,
         ranOut' = IF RunsShort(r) THEN ranOut \cup {<<Order(r), req[r].line>>} ELSE ranOut
  PROVE  CountInv'
<1> USE DEF InStep
<1>1. /\ InTurn(req[r]) /\ At(r, "read") /\ ~At(r, "idle") /\ OnlyPlaced
      /\ used <= UsageLimit /\ AllCounted /\ Order(r) \in Orders
      /\ req[r].line \in 1 .. Len(Lines[Order(r)]) /\ LinesLeft(r)
      /\ Lines[Order(r)] \in Seq(Products)
      /\ \A q \in Requests \ {r} : At(q, "idle")
  BY TurnNow DEF ReadStock, LinesLeft
<1>2. UNCHANGED <<status, committed, stock, used>>
  BY DEF ReadStock
<1>3. OnlyPlaced' /\ used' <= UsageLimit
  BY <1>1, <1>2 DEF OnlyPlaced
<1>4. CASE Op(r) = "checkout" => InStock(r)
  <2>1. stock[Product(r)] \in Nat
    BY <1>1, ElementOfSeq DEF Product, PayInv, TypeOK
  <2>2. GotoSeen(r, "write", stock[Product(r)]) /\ "write" \in Places
    BY <1>4 DEF ReadStock, Places
  <2>3. PICK x : /\ Turns(r, x) /\ x.at = "write" /\ x.op = Op(r)
                 /\ x.order = Order(r) /\ x.line = req[r].line
                 /\ x.seen = stock[Product(r)]
    <3> HIDE DEF GotoSeen, Op, Order
    <3> QED
      BY <2>1, <2>2, WentSeeing
  <2>4. InTurn(x)'
    BY <1>1, <1>2, <2>3 DEF InTurn, Early, LinesLeft, Product
  <2>5. ASSUME NEW o \in Orders, NEW i \in DOMAIN Lines[o]
        PROVE  Away(x, o, i)' <=> Away(req[r], o, i)
    BY <1>1, <1>2, <2>3 DEF Away, Taking, Giving, Holding
  <2>6. Whole' => Whole
    BY <1>4 DEF RunsShort, Whole
  <2> QED
    BY <1>1, <1>2, <1>3, <2>3, <2>4, <2>5, <2>6, MoveKept
<1>5. CASE Op(r) = "checkout" /\ ~InStock(r) /\ req[r].line = 1
  <2>1. Raise(r)
    BY <1>5 DEF ReadStock
  <2>2. Whole' => Whole
    BY DEF Whole
  <2>3. ASSUME NEW o \in Orders, NEW i \in DOMAIN Lines[o]
        PROVE  ~Taking(req[r], o, i) /\ ~Giving(req[r], o, i)
    <3>1. i \in Nat /\ i >= 1
      OBVIOUS
    <3> QED
      BY <1>5, <3>1 DEF Taking, Giving
  <2> QED
    BY <1>1, <2>1, <2>2, <2>3, RaiseKept
<1>6. CASE Op(r) = "checkout" /\ ~InStock(r) /\ req[r].line # 1
  <2>1. Done(r)
    BY <1>6 DEF ReadStock
  <2>2. ~Whole'
    <3>1. <<Order(r), req[r].line>> \in ranOut'
      BY <1>1, <1>6 DEF RunsShort
    <3>2. <<Order(r), req[r].line>>[2] # 1
      BY <1>6
    <3> QED
      BY <3>1, <3>2 DEF Whole
  <2>3. Turns(r, Idle) /\ Idle.at = "idle"
    BY <2>1, WentIdle
  <2>4. ASSUME NEW b \in Orders, NEW i \in DOMAIN Lines[b]
        PROVE  Away(Idle, b, i)' => Away(req[r], b, i)
    BY <1>2 DEF Away, Taking, Giving, Idle, Holding
  <2> QED
    BY <1>1, <1>2, <1>3, <2>2, <2>3, <2>4, LessKept
<1> QED
  BY <1>4, <1>5, <1>6

\* What was read is still there: a unit is taken or given back, and it is the one
\* of the line.
LEMMA WriteStockTurn ==
  ASSUME PayInv, CountInv, NEW r \in Requests, WriteStock(r), InStep, Whole' => Whole
  PROVE  CountInv'
<1> USE DEF InStep
<1>1. /\ InTurn(req[r]) /\ At(r, "write") /\ ~At(r, "idle") /\ OnlyPlaced
      /\ used <= UsageLimit /\ AllCounted /\ Order(r) \in Orders
      /\ req[r].line \in Nat \ {0} /\ DOMAIN Lines[Order(r)] = 1 .. Len(Lines[Order(r)])
      /\ Len(Lines[Order(r)]) \in Nat
      /\ \A q \in Requests \ {r} : At(q, "idle")
  BY TurnNow DEF WriteStock
<1>2. UNCHANGED <<status, committed, used>>
  BY DEF WriteStock
<1>3. OnlyPlaced' /\ used' <= UsageLimit
  BY <1>1, <1>2 DEF OnlyPlaced
<1>4. PICK o \in Orders : o = Order(r)
  BY <1>1
<1>5. PICK k \in Nat : k = req[r].line
  BY <1>1
<1>6. k \in DOMAIN Lines[o] /\ req[r].seen = stock[Lines[o][k]]
  BY <1>1, <1>4, <1>5 DEF InTurn
<1>7. PICK x : /\ Turns(r, x) /\ x.at = "read" /\ x.op = Op(r)
               /\ x.order = o /\ x.line = k + 1
  BY <1>4, <1>5, WentOn DEF WriteStock
<1>8. req'[r] = x /\ \A q \in Requests \ {r} : req'[q] = req[q]
  BY <1>7, Turned
<1>9. InTurn(x)'
  BY <1>1, <1>2, <1>4, <1>7 DEF InTurn, Early
<1>10. ASSUME NEW b \in Orders, NEW i
       PROVE  /\ Off(b, i) <=> Away(req[r], b, i)
              /\ Off(b, i)' <=> Away(x, b, i)'
  BY <1>1, <1>8, OffAlone, OffThen
<1>11. CASE Op(r) = "checkout"
  <2>1. ~committed[o]
    BY <1>1, <1>4, <1>11 DEF InTurn
  <2>2. ~Off(o, k)
    BY <1>5, <1>10, <1>11, <2>1 DEF Away, Taking, Giving, Holding
  <2>3. ASSUME NEW b \in Orders, NEW j \in DOMAIN Lines[b]
        PROVE  Off(b, j)' <=> Off(b, j) \/ (b = o /\ j = k)
    <3>1. j \in Nat
      OBVIOUS
    <3>2. Away(x, b, j)' <=> Away(req[r], b, j) \/ (b = o /\ j = k)
      BY <1>1, <1>2, <1>4, <1>5, <1>7, <1>11, <3>1 DEF Away, Taking, Giving, Holding
    <3> QED
      BY <1>10, <3>2
  <2>4. stock' = [stock EXCEPT ![Lines[o][k]] = stock[Lines[o][k]] - 1]
    BY <1>4, <1>5, <1>6, <1>11 DEF WriteStock, Product
  <2>5. AllCounted'
    BY <1>1, <1>6, <2>2, <2>3, <2>4, TakenCounted
  <2> QED
    BY <1>1, <1>3, <1>8, <1>9, <2>5, TurnKept
<1>12. CASE Op(r) # "checkout"
  <2>1. Op(r) \in {"cancel", "refund"} /\ status[o] \in Over /\ committed[o]
    BY <1>1, <1>4, <1>12 DEF InTurn, Target, Over
  <2>2. Off(o, k)
    BY <1>1, <1>4, <1>5, <1>10, <2>1 DEF Away, Giving
  <2>3. ASSUME NEW b \in Orders, NEW j \in DOMAIN Lines[b]
        PROVE  Off(b, j)' <=> Off(b, j) /\ ~(b = o /\ j = k)
    <3>1. j \in Nat
      OBVIOUS
    <3>2. Away(x, b, j)' <=> Away(req[r], b, j) /\ ~(b = o /\ j = k)
      BY <1>1, <1>2, <1>4, <1>5, <1>7, <1>12, <2>1, <3>1 DEF Away, Taking, Giving, Holding
    <3> QED
      BY <1>10, <3>2
  <2>4. stock' = [stock EXCEPT ![Lines[o][k]] = stock[Lines[o][k]] + 1]
    BY <1>4, <1>5, <1>6, <1>12 DEF WriteStock, Product
  <2>5. AllCounted'
    BY <1>1, <1>6, <2>2, <2>3, <2>4, GivenCounted
  <2> QED
    BY <1>1, <1>3, <1>8, <1>9, <2>5, TurnKept
<1> QED
  BY <1>11, <1>12

\* After the last line the flag says for the whole order what the lines said.
LEMMA WriteFlagTurn ==
  ASSUME PayInv, CountInv, NEW r \in Requests, WriteFlag(r), InStep, Whole' => Whole
  PROVE  CountInv'
<1> USE DEF InStep
<1>1. /\ InTurn(req[r]) /\ At(r, "read") /\ ~At(r, "idle") /\ OnlyPlaced
      /\ used <= UsageLimit /\ Order(r) \in Orders
      /\ req[r].line \in Nat /\ Len(Lines[Order(r)]) < req[r].line
      /\ DOMAIN Lines[Order(r)] = 1 .. Len(Lines[Order(r)])
      /\ Len(Lines[Order(r)]) \in Nat
  BY TurnNow DEF WriteFlag, LinesLeft
<1>2. UNCHANGED <<status, stock, used>>
  BY DEF WriteFlag
<1>3. /\ committed'[Order(r)] = (Op(r) = "checkout" /\ status[Order(r)] # "none")
      /\ \A b \in Orders \ {Order(r)} : committed'[b] = committed[b]
  BY <1>1 DEF WriteFlag, PayInv, TypeOK
<1>4. \/ Op(r) = "checkout" /\ ~committed[Order(r)] /\ Placed(Order(r))
      \/ Op(r) \in {"cancel", "refund"} /\ status[Order(r)] = Target[Op(r)]
  BY <1>1 DEF InTurn
<1>5. OnlyPlaced' /\ used' <= UsageLimit
  BY <1>1, <1>2, <1>3, <1>4 DEF OnlyPlaced
<1>6. PICK x : /\ Turns(r, x)
               /\ \/ x.at = "idle"
                  \/ /\ x.at = "coupon" /\ x.op = Op(r) /\ x.order = Order(r)
                     /\ Op(r) # "refund" /\ Order(r) \in WithCoupon
  <2>1. "coupon" \in Places
    BY DEF Places
  <2>2. CASE Op(r) # "refund" /\ Order(r) \in WithCoupon
    <3>1. Goto(r, "coupon")
      BY <2>2 DEF WriteFlag, AfterStock
    <3> HIDE DEF Goto, Op, Order
    <3> QED
      BY <2>1, <2>2, <3>1, WentTo
  <2>3. CASE ~(Op(r) # "refund" /\ Order(r) \in WithCoupon)
    BY <2>3, WentIdle DEF WriteFlag, AfterStock
  <2> QED
    BY <2>2, <2>3
<1>7. x.at = "idle" \/ InTurn(x)'
  BY <1>1, <1>2, <1>4, <1>6 DEF InStep, InTurn, Early, Target
<1>8. ASSUME Op(r) = "checkout" => status[Order(r)] # "none", NEW o \in Orders, NEW i \in DOMAIN Lines[o]
      PROVE  Away(x, o, i)' <=> Away(req[r], o, i)
  <2>1. Away(x, o, i)' <=> o \in Holding'
    BY <1>6 DEF Away, Taking, Giving
  <2>2. CASE o # Order(r)
    BY <1>2, <1>3, <2>1, <2>2 DEF Away, Taking, Giving, Holding
  <2>3. CASE o = Order(r)
    <3>1. i \in Nat /\ i < req[r].line
      BY <1>1, <2>3
    <3>2. CASE Op(r) = "checkout"
      <4>1. o \in Holding'
        BY <1>2, <1>3, <1>4, <1>8, <2>3, <3>2 DEF Holding, Over
      <4>2. Taking(req[r], o, i)
        BY <1>1, <2>3, <3>1, <3>2 DEF Taking
      <4> QED
        BY <2>1, <4>1, <4>2 DEF Away
    <3>3. CASE Op(r) # "checkout"
      <4>1. o \notin Holding' /\ o \notin Holding
        BY <1>2, <1>3, <1>4, <2>3, <3>3 DEF Holding, Over, Target
      <4>2. ~Taking(req[r], o, i) /\ ~Giving(req[r], o, i)
        BY <1>1, <3>1, <3>3 DEF Taking, Giving
      <4> QED
        BY <2>1, <4>1, <4>2 DEF Away
    <3> QED
      BY <3>2, <3>3
  <2> QED
    BY <2>2, <2>3
<1>9. CASE Op(r) = "checkout" => status[Order(r)] # "none"
  BY <1>1, <1>2, <1>5, <1>6, <1>7, <1>8, <1>9, MoveKept
<1>10. CASE Op(r) = "checkout" /\ status[Order(r)] = "none"
  <2>1. ~Whole'
    BY <1>4, <1>10 DEF Whole
  <2>2. ASSUME NEW o \in Orders, NEW i \in DOMAIN Lines[o]
        PROVE  Away(x, o, i)' => Away(req[r], o, i)
    <3>1. Away(x, o, i)' => o \in Holding'
      BY <1>6 DEF Away, Taking, Giving
    <3>2. o \in Holding' => o \in Holding
      BY <1>2, <1>3, <1>10 DEF Holding
    <3> QED
      BY <3>1, <3>2 DEF Away
  <2> QED
    BY <1>1, <1>2, <1>5, <1>6, <1>7, <2>1, <2>2, LessKept
<1> QED
  BY <1>9, <1>10

\* A request that moves no stock: wherever it is, it neither takes nor gives back.
Aside == {"idle", "quote", "create", "coupon", "couponWrite", "check", "guard", "status",
          "intent"}

LEMMA AsideKept ==
  ASSUME PayInv, CountInv, InStep, Whole' => Whole,
         UNCHANGED <<status, committed, stock>>,
         NEW r \in Requests, ~At(r, "idle"), req[r].at \in Aside,
         NEW x, Turns(r, x), x.at \in Aside, x.at = "idle" \/ InTurn(x)',
         used' <= UsageLimit
  PROVE  CountInv'
<1> USE DEF InStep
<1>1. OnlyPlaced'
  BY TurnNow DEF OnlyPlaced
<1>2. ASSUME NEW o \in Orders, NEW i \in DOMAIN Lines[o]
      PROVE  Away(x, o, i)' <=> Away(req[r], o, i)
  BY DEF Away, Taking, Giving, Holding, Aside
<1> QED
  BY <1>1, <1>2, MoveKept

\* The coupon is counted once for the order, and taken back once.
LEMMA CouponTurn ==
  ASSUME PayInv, CountInv, NEW r \in Requests, ReadCoupon(r) \/ WriteCoupon(r), InStep,
         Whole' => Whole
  PROVE  CountInv'
<1>1. /\ InTurn(req[r]) /\ req[r].at \in {"coupon", "couponWrite"} /\ ~At(r, "idle")
      /\ used <= UsageLimit /\ used \in Nat
  BY TurnNow DEF InStep, ReadCoupon, WriteCoupon, PayInv, TypeOK
<1>2. UNCHANGED <<status, committed, stock>>
  BY DEF ReadCoupon, WriteCoupon
<1>3. CASE Done(r)
  <2>1. Turns(r, Idle) /\ Idle.at = "idle"
    BY <1>3, WentIdle
  <2>2. used' <= UsageLimit
    <3>1. CASE ReadCoupon(r)
      BY <1>1, <3>1 DEF ReadCoupon
    <3>2. CASE WriteCoupon(r)
      BY <1>1, <3>2 DEF WriteCoupon, InTurn
    <3> QED
      BY <3>1, <3>2
  <2> QED
    BY <1>1, <1>2, <2>1, <2>2, AsideKept DEF Aside
<1>4. CASE ReadCoupon(r) /\ GotoSeen(r, "couponWrite", used)
  <2>1. PICK x : /\ Turns(r, x) /\ x.at = "couponWrite" /\ x.op = Op(r)
                 /\ x.order = Order(r) /\ x.seen = used
    <3>1. "couponWrite" \in Places
      BY DEF Places
    <3> HIDE DEF GotoSeen, Op, Order
    <3> QED
      BY <1>1, <1>4, <3>1, WentSeeing
  <2>2. used' = used /\ req[r].at = "coupon"
    BY <1>4 DEF ReadCoupon
  <2>3. InTurn(x)'
    <3>1. failures' = failures
      BY DEF InStep
    <3> QED
      BY <1>1, <1>2, <2>1, <2>2, <3>1 DEF InTurn, Early
  <2> QED
    BY <1>1, <1>2, <2>1, <2>2, <2>3, AsideKept DEF Aside
<1> QED
  BY <1>3, <1>4 DEF ReadCoupon, WriteCoupon

\* Payment moves no stock and no coupon.
LEMMA PaymentTurn ==
  ASSUME PayInv, CountInv, NEW r \in Requests, InStep, Whole' => Whole,
         \/ CreateIntent(r) \/ StoreIntent(r)
         \/ \E i \in 1 .. MaxIntents : Confirm(r, i)
  PROVE  CountInv'
<1>1. /\ InTurn(req[r]) /\ req[r].at \in {"intent", "check"} /\ ~At(r, "idle")
      /\ used <= UsageLimit
  BY TurnNow DEF InStep, CreateIntent, StoreIntent, Confirm
<1>2. UNCHANGED <<status, committed, stock, used>>
  BY DEF CreateIntent, StoreIntent, Confirm
<1>3. PICK x : /\ Turns(r, x)
               /\ \/ x.at = "idle" \/ x.at = "intent"
                  \/ x.at = "guard" /\ x.line = req[r].line /\ At(r, "check")
  <2>1. CASE Done(r)
    BY <2>1, WentIdle
  <2>2. CASE GotoSeen(r, "intent", Len(intents) + 1)
    <3>1. "intent" \in Places /\ Len(intents) + 1 \in Nat
      BY Rows DEF Places
    <3> HIDE DEF GotoSeen
    <3> QED
      BY <2>2, <3>1, WentSeeing
  <2>3. CASE Goto(r, "guard") /\ At(r, "check")
    <3>1. "guard" \in Places
      BY DEF Places
    <3> HIDE DEF Goto
    <3> QED
      BY <2>3, <3>1, WentTo
  <2> QED
    BY <2>1, <2>2, <2>3 DEF CreateIntent, StoreIntent, Confirm
<1>4. x.at = "idle" \/ InTurn(x)'
  BY <1>1, <1>3 DEF InTurn, Early
<1> QED
  BY <1>1, <1>2, <1>3, <1>4, AsideKept DEF Aside

\* A status is looked up, and still the one that was looked up when it is left.
LEMMA GuardTurn ==
  ASSUME PayInv, CountInv, NEW r \in Requests, InStep, Whole' => Whole,
         CheckCancel(r) \/ Guard(r)
  PROVE  CountInv'
<1>1. /\ InTurn(req[r]) /\ req[r].at \in {"check", "guard"} /\ ~At(r, "idle")
      /\ used <= UsageLimit
  BY TurnNow DEF InStep, CheckCancel, Guard
<1>2. UNCHANGED <<status, committed, stock, used>>
  BY DEF CheckCancel, Guard
<1>3. CASE Done(r)
  <2>1. Turns(r, Idle) /\ Idle.at = "idle"
    BY <1>3, WentIdle
  <2> QED
    BY <1>1, <1>2, <2>1, AsideKept DEF Aside
<1>4. CASE Goto(r, "guard")
  <2>1. PICK x : Turns(r, x) /\ x.at = "guard" /\ x.line = req[r].line
    <3>1. "guard" \in Places
      BY DEF Places
    <3> HIDE DEF Goto
    <3> QED
      BY <1>4, <3>1, WentTo
  <2>2. InTurn(x)'
    BY <1>1, <2>1 DEF InTurn, Early
  <2> QED
    BY <1>1, <1>2, <2>1, <2>2, AsideKept DEF Aside
<1>5. CASE Goto(r, "status") /\ MayMove(r)
  <2>1. PICK x : /\ Turns(r, x) /\ x.at = "status" /\ x.line = req[r].line
                 /\ x.op = Op(r) /\ x.order = Order(r)
    <3>1. "status" \in Places
      BY DEF Places
    <3> HIDE DEF Goto, Op, Order
    <3> QED
      BY <1>5, <3>1, WentTo
  <2>2. Target[x.op] \in ALLOWED[status'[x.order]]
    BY <1>2, <1>5, <2>1 DEF MayMove
  <2>3. InTurn(x)'
    BY <1>1, <2>1, <2>2 DEF InTurn, Early
  <2> QED
    BY <1>1, <1>2, <2>1, <2>3, AsideKept DEF Aside
<1> QED
  BY <1>3, <1>4, <1>5 DEF CheckCancel, Guard

\* An order that is open stays open or has all its units given back next.
LEMMA WriteStatusTurn ==
  ASSUME PayInv, CountInv, NEW r \in Requests, WriteStatus(r), InStep, Whole' => Whole
  PROVE  CountInv'
<1> USE DEF InStep
<1>1. /\ InTurn(req[r]) /\ At(r, "status") /\ ~At(r, "idle") /\ OnlyPlaced
      /\ used <= UsageLimit /\ Order(r) \in Orders
  BY TurnNow DEF WriteStatus
<1>2. UNCHANGED <<committed, stock, used>>
  BY DEF WriteStatus
<1>3. PICK o \in Orders : o = Order(r)
  BY <1>1
<1>4. /\ status'[o] = Target[Op(r)]
      /\ \A b \in Orders \ {o} : status'[b] = status[b]
  BY <1>3 DEF WriteStatus, PayInv, TypeOK
<1>5. /\ Op(r) \in {"confirm", "cancel", "refund", "ship"}
      /\ status[o] # "none" /\ req[r].line = 1
  BY <1>1, <1>3, KnowsNow DEF Sound, Target, InTurn, Early
<1>6. status[o] \in {"pending", "processing", "shipped", "delivered"}
  <2>1. Target[Op(r)] \in ALLOWED[status[o]]
    BY <1>1, <1>3 DEF InTurn
  <2>2. status[o] \in Statuses
    BY <1>5 DEF PayInv, TypeOK
  <2> QED
    BY <2>1, <2>2 DEF ALLOWED, Statuses
<1>7. /\ Op(r) = "cancel" => status'[o] = "cancelled"
      /\ Op(r) = "refund" => status'[o] = "refunded"
      /\ Op(r) \in {"confirm", "ship"} => status'[o] \in {"processing", "shipped"}
  BY <1>4 DEF Target
<1>8. OnlyPlaced' /\ used' <= UsageLimit
  BY <1>1, <1>2, <1>4, <1>5, <1>7 DEF OnlyPlaced
<1>9. PICK x : /\ Turns(r, x)
               /\ \/ x.at = "idle" /\ Op(r) \in {"confirm", "ship"}
                  \/ /\ x.at = "restore" /\ x.op = Op(r) /\ x.order = o /\ x.line = 1
                     /\ Op(r) \in {"cancel", "refund"}
  <2>1. CASE Op(r) \in {"cancel", "refund"}
    <3>1. Goto(r, "restore") /\ "restore" \in Places
      BY <2>1 DEF WriteStatus, AfterStatus, Places
    <3> HIDE DEF Goto, Op, Order
    <3> QED
      BY <1>3, <1>5, <2>1, <3>1, WentTo
  <2>2. CASE Op(r) \notin {"cancel", "refund"}
    BY <1>5, <2>2, WentIdle DEF WriteStatus, AfterStatus
  <2> QED
    BY <2>1, <2>2
<1>10. x.at = "idle" \/ InTurn(x)'
  BY <1>4, <1>9 DEF InTurn, Early
<1>11. ASSUME NEW b \in Orders, NEW i \in DOMAIN Lines[b]
       PROVE  Away(x, b, i)' <=> Away(req[r], b, i)
  <2>1. ~Taking(x, b, i) /\ ~Taking(req[r], b, i) /\ ~Giving(req[r], b, i)
    BY <1>1, <1>9 DEF Taking, Giving
  <2>2. CASE b # o
    BY <1>2, <1>4, <1>9, <2>1, <2>2 DEF Away, Giving, Taking, Holding
  <2>3. CASE b = o
    <3>1. o \in Holding <=> committed[o]
      BY <1>6 DEF Holding, Over
    <3>2. CASE Op(r) \in {"cancel", "refund"}
      <4>1. o \notin Holding'
        BY <1>7, <3>2 DEF Holding, Over
      <4>2. Giving(x, o, i)' <=> committed[o]
        BY <1>2, <1>9, <3>2 DEF Giving
      <4> QED
        BY <1>9, <2>1, <2>3, <3>1, <4>1, <4>2 DEF Away, Taking
    <3>3. CASE Op(r) \in {"confirm", "ship"}
      <4>1. o \in Holding' <=> committed[o]
        BY <1>2, <1>7, <3>3 DEF Holding, Over
      <4> QED
        BY <1>9, <2>1, <2>3, <3>1, <3>3, <4>1 DEF Away, Taking, Giving
    <3> QED
      BY <1>5, <3>2, <3>3
  <2> QED
    BY <2>2, <2>3
<1> QED
  BY <1>1, <1>2, <1>8, <1>9, <1>10, <1>11, MoveKept

\* What was committed is given back, line by line.
LEMMA RestoreTurn ==
  ASSUME PayInv, CountInv, NEW r \in Requests, Restore(r), InStep, Whole' => Whole
  PROVE  CountInv'
<1> USE DEF InStep
<1>1. /\ InTurn(req[r]) /\ At(r, "restore") /\ ~At(r, "idle") /\ OnlyPlaced
      /\ used <= UsageLimit /\ Order(r) \in Orders
  BY TurnNow DEF Restore
<1>2. UNCHANGED <<status, committed, stock, used>>
  BY DEF Restore
<1>3. OnlyPlaced' /\ used' <= UsageLimit
  BY <1>1, <1>2 DEF OnlyPlaced
<1>4. /\ Op(r) \in {"cancel", "refund"} /\ req[r].line = 1
      /\ status[Order(r)] = Target[Op(r)] /\ status[Order(r)] \in Over
  BY <1>1 DEF InTurn, Early, Target, Over
<1>5. PICK x : /\ Turns(r, x)
               /\ \/ /\ x.at = "read" /\ x.op = Op(r) /\ x.order = Order(r) /\ x.line = 1
                     /\ committed[Order(r)]
                  \/ /\ x.at = "coupon" /\ x.op = "cancel" /\ Op(r) = "cancel"
                     /\ x.order = Order(r) /\ Order(r) \in WithCoupon /\ ~committed[Order(r)]
                  \/ x.at = "idle" /\ ~committed[Order(r)]
  <2>1. {"read", "coupon"} \subseteq Places
    BY DEF Places
  <2>2. CASE committed[Order(r)]
    <3>1. Goto(r, "read")
      BY <2>2 DEF Restore, NeedsRestore
    <3> HIDE DEF Goto, Op, Order
    <3> QED
      BY <1>4, <2>1, <2>2, <3>1, WentTo
  <2>3. CASE ~committed[Order(r)] /\ Op(r) = "cancel" /\ Order(r) \in WithCoupon
    <3>1. Goto(r, "coupon")
      BY <2>3 DEF Restore, NeedsRestore, AfterStock
    <3> HIDE DEF Goto, Op, Order
    <3> QED
      BY <2>1, <2>3, <3>1, WentTo
  <2>4. CASE ~committed[Order(r)] /\ ~(Op(r) = "cancel" /\ Order(r) \in WithCoupon)
    BY <1>4, <2>4, WentIdle DEF Restore, NeedsRestore, AfterStock
  <2> QED
    BY <2>2, <2>3, <2>4
<1>6. x.at = "idle" \/ InTurn(x)'
  <2>1. ASSUME x.at = "read" PROVE InTurn(x)'
    BY <1>2, <1>4, <1>5, <2>1 DEF InTurn, Early
  <2>2. ASSUME x.at = "coupon" PROVE InTurn(x)'
    <3>1. x.op = "cancel" /\ Op(r) = "cancel" /\ x.order = Order(r) /\ Order(r) \in WithCoupon
      BY <1>5, <2>2
    <3> QED
      BY <1>2, <1>4, <2>2, <3>1 DEF InTurn, Early, Target
  <2> QED
    BY <1>5, <2>1, <2>2
<1>7. ASSUME NEW o \in Orders, NEW i \in DOMAIN Lines[o]
      PROVE  Away(x, o, i)' <=> Away(req[r], o, i)
  <2>1. i \in Nat /\ i >= 1
    OBVIOUS
  <2>2. o \in Holding' <=> o \in Holding
    BY <1>2 DEF Holding
  <2> QED
    BY <1>1, <1>2, <1>4, <1>5, <2>1, <2>2 DEF Away, Taking, Giving
<1> QED
  BY <1>1, <1>2, <1>3, <1>5, <1>6, <1>7, MoveKept

\* A step that none of the counts is about.
LEMMA SameTurn ==
  ASSUME CountInv, UNCHANGED <<overlap, req, status, committed, stock, used, failures,
                               lost, ranOut>>
  PROVE  CountInv'
<1> SUFFICES ASSUME Serial
             PROVE  Alone' /\ InTurns' /\ OnlyPlaced' /\ used' <= UsageLimit /\ AllCounted'
  BY DEF CountInv, Serial
<1>1. Alone' /\ OnlyPlaced' /\ used' <= UsageLimit
  BY DEF CountInv, Alone, OnlyPlaced
<1>2. InTurns'
  BY DEF CountInv, InTurns, InTurn
<1>3. \A o \in Orders : \A i \in DOMAIN Lines[o] : Off(o, i)' <=> Off(o, i)
  BY DEF Off, Away, Holding, Taking, Giving
<1>4. AllCounted'
  BY <1>3, SameCounted DEF CountInv, Whole
<1> QED
  BY <1>1, <1>2, <1>4

\* At first every unit is on the shelf.
LEMMA CountInit == Init => CountInv
<1> SUFFICES ASSUME Init PROVE CountInv
  OBVIOUS
<1>1. Alone /\ InTurns
  BY DEF Init, Alone, InTurns, Idle
<1>2. OnlyPlaced /\ used <= UsageLimit
  BY DEF Init, OnlyPlaced
<1>3. ASSUME NEW p \in Products PROVE Counted(p)
  <2>1. ASSUME NEW o \in Orders, NEW i PROVE ~Off(o, i)
    BY DEF Init, Off, Away, Holding, Taking, Giving, Idle
  <2>2. Out(p) = {}
    BY <2>1 DEF Out, Units
  <2>3. IsFiniteSet(Out(p)) /\ Cardinality(Out(p)) = 0
    BY <2>2, FS_EmptySet
  <2> QED
    BY <2>3 DEF Init, Counted
<1> QED
  BY <1>1, <1>2, <1>3 DEF CountInv, AllCounted

\* What was not serial does not become so.
LEMMA SerialBefore == [Next]_vars /\ Serial' => Serial
BY DEF Next, Start, Step, Abort, Lose, Settle, vars, Serial

\* Every step keeps the count.
LEMMA CountNext == PayInv /\ CountInv /\ [Next]_vars => CountInv'
<1> SUFFICES ASSUME PayInv, CountInv, [Next]_vars PROVE CountInv'
  OBVIOUS
<1>1. CASE ~Serial
  BY <1>1, SerialBefore DEF CountInv
<1>2. CASE Serial
  <2>1. ASSUME NEW r \in Requests, NEW op \in Operations, NEW o \in Orders, Start(r, op, o)
        PROVE  CountInv'
    BY <1>2, <2>1, StartTurn
  <2>2. ASSUME NEW r \in Requests, Abort(r) \/ Lose(r) PROVE CountInv'
    BY <1>2, <2>2, AbortTurn, LoseTurn
  <2>3. ASSUME NEW r \in Requests, Step(r) PROVE CountInv'
    <3>1. InStep
      BY <1>2, <2>3 DEF InStep, Step
    <3>2. ranOut' = IF RunsShort(r) THEN ranOut \cup {<<Order(r), req[r].line>>} ELSE ranOut
      BY <1>2, <2>3 DEF Step, Serial
    <3>3. CASE ReadStock(r)
      BY <3>1, <3>2, <3>3, ReadStockTurn
    <3>4. CASE ~ReadStock(r)
      <4>1. \/ Quote(r) \/ Create(r) \/ WriteStock(r) \/ WriteFlag(r)
            \/ ReadCoupon(r) \/ WriteCoupon(r) \/ CreateIntent(r) \/ StoreIntent(r)
            \/ \E i \in 1 .. MaxIntents : Confirm(r, i)
            \/ CheckCancel(r) \/ Guard(r) \/ WriteStatus(r) \/ Restore(r)
        BY <2>3, <3>4 DEF Step
      <4>2. Whole' => Whole
        BY <3>1, <3>2 DEF Whole, InStep
      <4> QED
        BY <3>1, <4>1, <4>2, QuoteTurn, CreateTurn, WriteStockTurn, WriteFlagTurn,
           CouponTurn, PaymentTurn, GuardTurn, WriteStatusTurn, RestoreTurn
    <3> QED
      BY <3>3, <3>4
  <2>4. ASSUME NEW i \in DOMAIN intents, Settle(i) PROVE CountInv'
    BY <2>4, SameTurn DEF Settle
  <2>5. CASE UNCHANGED vars
    BY <2>5, SameTurn DEF vars
  <2> QED
    BY <2>1, <2>2, <2>3, <2>4, <2>5 DEF Next
<1> QED
  BY <1>1, <1>2

\* What open orders hold is off the shelf, and nothing else is once all is quiet.
LEMMA HeldCounted ==
  ASSUME PayInv, NEW p \in Products, Counted(p)
  PROVE  /\ stock[p] + Held(p) <= InitialStock
         /\ Whole /\ AllIdle => stock[p] + Held(p) = InitialStock
<1> DEFINE H == UNION {{o} \X {i \in DOMAIN Lines[o] : Lines[o][i] = p} : o \in Holding}
<1>1. H \subseteq Out(p)
  BY DEF Out, Units, Off, Holding
<1>2. ASSUME AllIdle PROVE H = Out(p)
  <2>1. ASSUME NEW u \in Out(p) PROVE u \in H
    <3>1. PICK o \in Orders : u \in {o} \X DOMAIN Lines[o]
      BY DEF Out, Units
    <3>2. PICK i \in DOMAIN Lines[o] : u = <<o, i>>
      BY <3>1
    <3>3. Off(o, i) /\ Lines[o][i] = p
      BY <3>2 DEF Out
    <3>4. o \in Holding
      BY <1>2, <3>3 DEF AllIdle, Off, Away, Taking, Giving
    <3> QED
      BY <3>2, <3>3, <3>4
  <2> QED
    BY <1>1, <2>1
<1>3. Held(p) = Cardinality(H)
  BY DEF Held
<1> HIDE DEF H
<1>4. IsFiniteSet(Out(p)) /\ stock[p] + Cardinality(Out(p)) <= InitialStock
  BY DEF Counted
<1>5. IsFiniteSet(H) /\ Cardinality(H) <= Cardinality(Out(p))
  BY <1>1, <1>4, FS_Subset
<1>6. Cardinality(H) \in Nat /\ Cardinality(Out(p)) \in Nat /\ stock[p] \in Nat
  BY <1>4, <1>5, FS_CardinalityType DEF PayInv, TypeOK
<1>7. stock[p] + Held(p) <= InitialStock
  BY <1>3, <1>4, <1>5, <1>6
<1>8. Whole /\ AllIdle => stock[p] + Held(p) = InitialStock
  BY <1>2, <1>3 DEF Counted
<1> QED
  BY <1>7, <1>8

-----------------------------------------------------------------------------
(* The coupon's count, as long as requests do not overlap.                 *)

\* No order with the coupon was cut short.
CouponsWhole == failures = 0 /\ \A x \in ranOut : x[1] \notin WithCoupon

\* A request x has still to count the coupon for order o, or to take it back.
Counting(x, o) ==
    x.op = "checkout" /\ x.order = o /\ x.at \in {"read", "write", "coupon", "couponWrite"}
Returning(x, o) ==
    /\ x.op = "cancel" /\ x.order = o
    /\ x.at \in {"restore", "read", "write", "coupon", "couponWrite"}

\* The orders that the coupon was counted for.
Kept(o) == status[o] \notin {"none", "cancelled"}
Uses == {o \in WithCoupon :
            \/ Kept(o) /\ \A r \in Requests : ~Counting(req[r], o)
            \/ \E r \in Requests : Returning(req[r], o)}

UseInv == Serial /\ CouponsWhole => IsFiniteSet(Uses) /\ used = Cardinality(Uses)

\* Where nobody else is under way, r alone knows what is still to be counted.
LEMMA UsesAlone ==
  ASSUME NEW r \in Requests, \A q \in Requests \ {r} : At(q, "idle"), NEW o \in WithCoupon
  PROVE  o \in Uses <=> (Kept(o) /\ ~Counting(req[r], o)) \/ Returning(req[r], o)
BY DEF Uses, Counting, Returning

LEMMA UsesThen ==
  ASSUME NEW r \in Requests, \A q \in Requests \ {r} : req'[q].at = "idle", NEW o \in WithCoupon
  PROVE  o \in Uses' <=> (Kept(o)' /\ ~Counting(req'[r], o)) \/ Returning(req'[r], o)
BY DEF Uses, Counting, Returning

\* Nothing is counted.
LEMMA SameUses ==
  ASSUME UseInv, Serial, CouponsWhole' => CouponsWhole, used' = used, Uses' = Uses
  PROVE  UseInv'
BY DEF UseInv

\* The only request under way moves on, and the coupon is counted for whom it was.
LEMMA MoveUses ==
  ASSUME PayInv, CountInv, UseInv, Serial, CouponsWhole' => CouponsWhole, used' = used,
         NEW r \in Requests, ~At(r, "idle"), NEW x, Turns(r, x),
         \A o \in WithCoupon :
            (Kept(o)' /\ ~Counting(x, o)) \/ Returning(x, o)
              <=> (Kept(o) /\ ~Counting(req[r], o)) \/ Returning(req[r], o)
  PROVE  UseInv'
<1>1. \A q \in Requests \ {r} : At(q, "idle")
  BY TurnNow
<1>2. req'[r] = x /\ \A q \in Requests \ {r} : req'[q] = req[q]
  BY Turned
<1>3. ASSUME NEW o \in WithCoupon PROVE o \in Uses' <=> o \in Uses
  BY <1>1, <1>2, <1>3, UsesAlone, UsesThen
<1>4. Uses' \subseteq WithCoupon /\ Uses \subseteq WithCoupon
  BY DEF Uses
<1>5. Uses' = Uses
  BY <1>3, <1>4
<1> QED
  BY <1>5, SameUses

\* So does one that leaves the statuses, and what it has to count, alone.
LEMMA AsideUses ==
  ASSUME PayInv, CountInv, UseInv, Serial, CouponsWhole' => CouponsWhole,
         UNCHANGED <<status, used>>,
         NEW r \in Requests, ~At(r, "idle"), NEW x, Turns(r, x),
         \A o \in WithCoupon : /\ Counting(x, o) <=> Counting(req[r], o)
                               /\ Returning(x, o) <=> Returning(req[r], o)
  PROVE  UseInv'
<1>1. \A o \in WithCoupon : Kept(o)' <=> Kept(o)
  BY DEF Kept
<1> QED
  BY <1>1, MoveUses

\* Where a request has nothing to count.
Uncounted == {"idle", "quote", "create", "intent", "check", "guard", "status"}

\* Requests that end before they have counted.
LEMMA EndUses ==
  ASSUME PayInv, CountInv, UseInv, Serial, CouponsWhole' => CouponsWhole,
         UNCHANGED <<status, used>>, NEW r \in Requests, ~At(r, "idle"), Done(r),
         \/ req[r].at \in Uncounted \/ Order(r) \notin WithCoupon
         \/ Op(r) \notin {"checkout", "cancel"}
  PROVE  UseInv'
<1>1. Turns(r, Idle)
  BY WentIdle
<1>2. ASSUME NEW o \in WithCoupon
      PROVE  /\ Counting(Idle, o) <=> Counting(req[r], o)
             /\ Returning(Idle, o) <=> Returning(req[r], o)
  BY DEF Counting, Returning, Idle, Uncounted
<1> QED
  BY <1>1, <1>2, AsideUses

\* Requests that go on with what they have to count.
LEMMA OnUses ==
  ASSUME PayInv, CountInv, UseInv, Serial, CouponsWhole' => CouponsWhole,
         UNCHANGED <<status, used>>, NEW r \in Requests, ~At(r, "idle"),
         NEW x, Turns(r, x), x.op = Op(r), x.order = Order(r),
         \/ req[r].at \in Uncounted /\ x.at \in Uncounted
         \/ /\ req[r].at \in {"restore", "read", "write", "coupon", "couponWrite"}
            /\ x.at \in {"read", "write", "coupon", "couponWrite"}
            /\ req[r].at = "restore" => Op(r) # "checkout"
  PROVE  UseInv'
<1>1. ASSUME NEW o \in WithCoupon
      PROVE  /\ Counting(x, o) <=> Counting(req[r], o)
             /\ Returning(x, o) <=> Returning(req[r], o)
  BY DEF Counting, Returning, Uncounted
<1> QED
  BY <1>1, AsideUses

-----------------------------------------------------------------------------
\* Before a step that is no start and no failure.
InUse == InStep /\ (CouponsWhole' => CouponsWhole)

\* A request starts with nothing to count.
LEMMA StartUses ==
  ASSUME PayInv, CountInv, UseInv, Serial, NEW r \in Requests, NEW op \in Operations,
         NEW o \in Orders, Start(r, op, o)
  PROVE  UseInv'
<1>1. \A q \in Requests : At(q, "idle")
  BY DEF Start, Serial
<1>2. /\ req'[r].at \in {"quote", "intent", "check", "guard"}
      /\ \A q \in Requests \ {r} : req'[q] = req[q]
  BY DEF Start, PayInv, TypeOK, EntryOf, Operations
<1>3. UNCHANGED <<status, used, failures, ranOut>>
  BY DEF Start
<1>4. ASSUME NEW b \in WithCoupon PROVE b \in Uses' <=> b \in Uses
  <2>1. b \in Uses <=> Kept(b)
    BY <1>1, UsesAlone DEF Counting, Returning
  <2>2. b \in Uses' <=> Kept(b)'
    BY <1>1, <1>2, UsesThen DEF Counting, Returning
  <2> QED
    BY <1>3, <2>1, <2>2 DEF Kept
<1>5. Uses' = Uses
  <2>1. Uses' \subseteq WithCoupon /\ Uses \subseteq WithCoupon
    BY DEF Uses
  <2> QED
    BY <1>4, <2>1
<1> QED
  BY <1>3, <1>5, SameUses DEF CouponsWhole

\* The new order has the discount and is still to be counted.
LEMMA CreateUses ==
  ASSUME PayInv, CountInv, UseInv, NEW r \in Requests, Create(r), InUse
  PROVE  UseInv'
<1> USE DEF InUse, InStep
<1>1. InTurn(req[r]) /\ At(r, "create") /\ ~At(r, "idle") /\ Order(r) \in Orders
  BY TurnNow DEF Create
<1>2. PICK x : /\ Turns(r, x) /\ x.at = "read" /\ x.op = Op(r) /\ x.order = Order(r)
  <2>1. Goto(r, "read") /\ "read" \in Places
    BY DEF Create, Places
  <2> HIDE DEF Goto, Op, Order
  <2> QED
    BY <2>1, WentTo
<1>3. Op(r) = "checkout" /\ status[Order(r)] = "none"
  BY <1>1 DEF InTurn
<1>4. used' = used /\ \A o \in Orders \ {Order(r)} : status'[o] = status[o]
  BY <1>1 DEF Create, PayInv, TypeOK
<1>5. ASSUME NEW o \in WithCoupon
      PROVE  (Kept(o)' /\ ~Counting(x, o)) \/ Returning(x, o)
               <=> (Kept(o) /\ ~Counting(req[r], o)) \/ Returning(req[r], o)
  <2>1. ~Returning(x, o) /\ ~Returning(req[r], o) /\ ~Counting(req[r], o)
    BY <1>1, <1>2, <1>3 DEF Returning, Counting
  <2>2. CASE o = Order(r)
    BY <1>2, <1>3, <2>1, <2>2 DEF Kept, Counting
  <2>3. CASE o # Order(r)
    BY <1>2, <1>4, <2>1, <2>3 DEF Kept, Counting
  <2> QED
    BY <2>2, <2>3
<1> QED
  BY <1>1, <1>2, <1>4, <1>5, MoveUses

\* A request that goes to another place.
LEMMA GoUses ==
  ASSUME PayInv, CountInv, UseInv, InUse, UNCHANGED <<status, used>>,
         NEW r \in Requests, ~At(r, "idle"), NEW p \in Places,
         Goto(r, p) \/ \E v \in Nat : GotoSeen(r, p, v),
         \/ req[r].at \in Uncounted /\ p \in Uncounted
         \/ /\ req[r].at \in {"restore", "read", "write", "coupon", "couponWrite"}
            /\ p \in {"read", "write", "coupon", "couponWrite"}
            /\ req[r].at = "restore" => Op(r) # "checkout"
  PROVE  UseInv'
<1>1. PICK x : Turns(r, x) /\ x.at = p /\ x.op = Op(r) /\ x.order = Order(r)
  <2> HIDE DEF Goto, GotoSeen, Op, Order
  <2> QED
    BY WentTo, WentSeeing
<1> QED
  BY <1>1, OnUses DEF InUse, InStep

\* What follows the stock, for whom the coupon is still to be counted or returned.
LEMMA AfterUses ==
  ASSUME PayInv, CountInv, UseInv, InUse, UNCHANGED <<status, used>>,
         NEW r \in Requests, At(r, "read") \/ At(r, "restore"), AfterStock(r)
  PROVE  UseInv'
<1>1. InTurn(req[r]) /\ ~At(r, "idle")
  BY TurnNow DEF InUse, InStep
<1>2. /\ Op(r) \in {"checkout", "cancel", "refund"}
      /\ req[r].at = "restore" => Op(r) # "checkout"
  BY <1>1 DEF InTurn
<1>3. CASE Op(r) # "refund" /\ Order(r) \in WithCoupon
  <2>1. Goto(r, "coupon") /\ "coupon" \in Places
    BY <1>3 DEF AfterStock, Places
  <2> HIDE DEF Goto
  <2> QED
    BY <1>1, <1>2, <2>1, GoUses
<1>4. CASE ~(Op(r) # "refund" /\ Order(r) \in WithCoupon)
  <2>1. Done(r)
    BY <1>4 DEF AfterStock
  <2>2. Order(r) \notin WithCoupon \/ Op(r) \notin {"checkout", "cancel"}
    BY <1>2, <1>4
  <2> QED
    BY <1>1, <2>1, <2>2, EndUses DEF InUse, InStep
<1> QED
  BY <1>3, <1>4

\* Before the order there is nothing to count.
LEMMA QuoteUses ==
  ASSUME PayInv, CountInv, UseInv, NEW r \in Requests, InUse,
         Quote(r) \/ CheckCancel(r) \/ Guard(r) \/ CreateIntent(r) \/ StoreIntent(r)
           \/ \E i \in 1 .. MaxIntents : Confirm(r, i)
  PROVE  UseInv'
<1>1. /\ UNCHANGED <<status, used>> /\ ~At(r, "idle") /\ req[r].at \in Uncounted
  BY DEF Quote, CheckCancel, Guard, CreateIntent, StoreIntent, Confirm, Uncounted
<1>2. CASE Done(r)
  BY <1>1, <1>2, EndUses DEF InUse, InStep
<1>3. CASE \E p \in {"create", "guard", "status"} : Goto(r, p)
  <2>1. PICK p \in {"create", "guard", "status"} : Goto(r, p)
    BY <1>3
  <2>2. p \in Places /\ p \in Uncounted
    BY DEF Places, Uncounted
  <2> HIDE DEF Goto
  <2> QED
    BY <1>1, <2>1, <2>2, GoUses
<1>4. CASE GotoSeen(r, "intent", Len(intents) + 1)
  <2>1. "intent" \in Places /\ "intent" \in Uncounted /\ Len(intents) + 1 \in Nat
    BY Rows DEF Places, Uncounted
  <2> HIDE DEF GotoSeen
  <2> QED
    BY <1>1, <1>4, <2>1, GoUses
<1> QED
  BY <1>2, <1>3, <1>4 DEF Quote, CheckCancel, Guard, CreateIntent, StoreIntent, Confirm

\* Walking the lines does not count the coupon; an order cut short with it is known.
LEMMA StockUses ==
  ASSUME PayInv, CountInv, UseInv, NEW r \in Requests, InUse,
         ReadStock(r) \/ WriteStock(r) \/ WriteFlag(r) \/ Restore(r),
         RunsShort(r) /\ Order(r) \in WithCoupon => ~CouponsWhole'
  PROVE  UseInv'
<1>1. /\ UNCHANGED <<status, used>> /\ ~At(r, "idle")
      /\ req[r].at \in {"read", "write", "restore"}
  BY DEF ReadStock, WriteStock, WriteFlag, Restore
<1>2. InTurn(req[r])
  BY <1>1, TurnNow DEF InUse, InStep
<1>3. CASE ReadStock(r) /\ ~(Op(r) = "checkout" => InStock(r))
  <2>1. Done(r) /\ RunsShort(r)
    BY <1>3 DEF ReadStock, RunsShort
  <2>2. CASE Order(r) \in WithCoupon
    BY <2>1, <2>2 DEF UseInv
  <2>3. CASE Order(r) \notin WithCoupon
    BY <1>1, <2>1, <2>3, EndUses DEF InUse, InStep
  <2> QED
    BY <2>2, <2>3
<1>4. CASE ReadStock(r) /\ (Op(r) = "checkout" => InStock(r))
  <2>1. GotoSeen(r, "write", stock[Product(r)]) /\ "write" \in Places /\ At(r, "read")
    BY <1>4 DEF ReadStock, Places
  <2>2. stock[Product(r)] \in Nat
    <3>1. Order(r) \in Orders /\ req[r].line \in Nat \ {0}
      BY <1>1, TurnNow DEF InUse, InStep
    <3>2. req[r].line \in 1 .. Len(Lines[Order(r)]) /\ Lines[Order(r)] \in Seq(Products)
      BY <1>4, <3>1 DEF ReadStock, LinesLeft
    <3>3. Product(r) \in Products
      BY <3>2, ElementOfSeq DEF Product
    <3> QED
      BY <3>3 DEF PayInv, TypeOK
  <2> HIDE DEF GotoSeen
  <2> QED
    BY <1>1, <2>1, <2>2, GoUses
<1>5. CASE WriteStock(r)
  <2>1. PICK x : /\ Turns(r, x) /\ x.at = "read" /\ x.op = Op(r) /\ x.order = Order(r)
    BY <1>5, WentOn DEF WriteStock
  <2>2. At(r, "write")
    BY <1>5 DEF WriteStock
  <2> QED
    BY <1>1, <2>1, <2>2, OnUses DEF InUse, InStep
<1>6. CASE WriteFlag(r)
  BY <1>1, <1>6, AfterUses DEF WriteFlag
<1>7. CASE Restore(r)
  <2>1. At(r, "restore") /\ Op(r) # "checkout"
    BY <1>2, <1>7 DEF Restore, InTurn
  <2>2. CASE Goto(r, "read")
    <3>1. "read" \in Places
      BY DEF Places
    <3> HIDE DEF Goto
    <3> QED
      BY <1>1, <2>1, <2>2, <3>1, GoUses
  <2>3. CASE AfterStock(r)
    BY <1>1, <2>1, <2>3, AfterUses
  <2> QED
    BY <1>7, <2>2, <2>3 DEF Restore
<1> QED
  BY <1>3, <1>4, <1>5, <1>6, <1>7

\* What is looked up is never zero where there is a use to take back.
LEMMA ReadCouponUses ==
  ASSUME PayInv, CountInv, UseInv, NEW r \in Requests, InUse, ReadCoupon(r)
  PROVE  UseInv'
<1>1. UNCHANGED <<status, used>> /\ ~At(r, "idle") /\ At(r, "coupon")
  BY DEF ReadCoupon
<1>2. InTurn(req[r]) /\ \A q \in Requests \ {r} : At(q, "idle")
  BY <1>1, TurnNow DEF InUse, InStep
<1>3. CASE Op(r) = "checkout" \/ used > 0
  <2>1. GotoSeen(r, "couponWrite", used) /\ "couponWrite" \in Places /\ used \in Nat
    BY <1>3 DEF ReadCoupon, Places, PayInv, TypeOK
  <2> HIDE DEF GotoSeen
  <2> QED
    BY <1>1, <2>1, GoUses
<1>4. CASE ~(Op(r) = "checkout" \/ used > 0)
  <2>1. used = 0 /\ Op(r) = "cancel" /\ Order(r) \in WithCoupon
    BY <1>1, <1>2, <1>4 DEF InTurn, PayInv, TypeOK
  <2>2. Order(r) \in Uses
    BY <1>1, <1>2, <2>1, UsesAlone DEF Returning
  <2>3. ASSUME CouponsWhole PROVE FALSE
    <3>1. IsFiniteSet(Uses) /\ Cardinality(Uses) = 0
      BY <2>1, <2>3 DEF UseInv, InUse, InStep
    <3> QED
      BY <2>2, <3>1, FS_EmptySet
  <2> QED
    BY <2>3 DEF UseInv, InUse
<1> QED
  BY <1>3, <1>4

\* The coupon is counted for the order, or no longer.
LEMMA WriteCouponUses ==
  ASSUME PayInv, CountInv, UseInv, NEW r \in Requests, InUse, WriteCoupon(r)
  PROVE  UseInv'
<1> SUFFICES ASSUME CouponsWhole'
             PROVE  (IsFiniteSet(Uses) /\ used = Cardinality(Uses))'
  BY DEF UseInv
<1>1. At(r, "couponWrite") /\ ~At(r, "idle") /\ UNCHANGED status /\ Done(r)
  BY DEF WriteCoupon
<1>2. /\ InTurn(req[r]) /\ \A q \in Requests \ {r} : At(q, "idle")
      /\ Order(r) \in WithCoupon
  BY <1>1, TurnNow DEF InUse, InStep, InTurn
<1>3. /\ IsFiniteSet(Uses) /\ used = Cardinality(Uses) /\ used \in Nat /\ failures = 0
  BY DEF UseInv, InUse, InStep, CouponsWhole, PayInv, TypeOK
<1>4. /\ req'[r] = Idle /\ \A q \in Requests \ {r} : req'[q] = req[q]
  BY <1>1, WentIdle, Turned
<1>5. PICK o \in WithCoupon : o = Order(r)
  BY <1>2
<1>6. ASSUME NEW b \in WithCoupon
      PROVE  /\ b \in Uses <=> (Kept(b) /\ ~Counting(req[r], b)) \/ Returning(req[r], b)
             /\ b \in Uses' <=> Kept(b)
  <2>1. b \in Uses' <=> (Kept(b)' /\ ~Counting(req'[r], b)) \/ Returning(req'[r], b)
    BY <1>2, <1>4, UsesThen
  <2>2. ~Counting(req'[r], b) /\ ~Returning(req'[r], b)
    BY <1>4 DEF Counting, Returning, Idle
  <2>3. Kept(b)' <=> Kept(b)
    BY <1>1 DEF Kept
  <2> QED
    BY <1>2, <2>1, <2>2, <2>3, UsesAlone
<1>7. PICK U : U = Uses'
  OBVIOUS
<1>8. U \subseteq WithCoupon /\ Uses \subseteq WithCoupon
  BY <1>7 DEF Uses
<1>9. PICK V : V = Uses
  OBVIOUS
<1>10. CASE Op(r) = "checkout"
  <2>1. status[o] = "pending"
    BY <1>1, <1>2, <1>3, <1>5, <1>10 DEF InTurn
  <2>2. o \notin V
    BY <1>1, <1>5, <1>6, <1>9, <1>10 DEF Counting, Returning
  <2>3. U = V \cup {o}
    <3>1. o \in U
      BY <1>6, <1>7, <2>1 DEF Kept
    <3>2. ASSUME NEW b \in WithCoupon, b # o PROVE b \in U <=> b \in V
      BY <1>5, <1>6, <1>7, <1>9, <3>2 DEF Counting, Returning
    <3> QED
      BY <1>8, <1>9, <3>1, <3>2
  <2>4. IsFiniteSet(U) /\ Cardinality(U) = Cardinality(V) + 1
    BY <1>3, <1>9, <2>2, <2>3, FS_AddElement
  <2>5. used' = used + 1
    BY <1>2, <1>1, <1>10 DEF WriteCoupon, InTurn
  <2> QED
    BY <1>3, <1>7, <1>9, <2>4, <2>5
<1>11. CASE Op(r) # "checkout"
  <2>1. Op(r) = "cancel" /\ status[o] = "cancelled"
    BY <1>1, <1>2, <1>5, <1>11 DEF InTurn
  <2>2. o \in V
    BY <1>1, <1>5, <1>6, <1>9, <2>1 DEF Returning
  <2>3. U = V \ {o}
    <3>1. o \notin U
      BY <1>6, <1>7, <2>1 DEF Kept
    <3>2. ASSUME NEW b \in WithCoupon, b # o PROVE b \in U <=> b \in V
      BY <1>5, <1>6, <1>7, <1>9, <3>2 DEF Counting, Returning
    <3> QED
      BY <1>8, <1>9, <3>1, <3>2
  <2>4. IsFiniteSet(U) /\ Cardinality(U) = Cardinality(V) - 1
    BY <1>3, <1>9, <2>2, <2>3, FS_RemoveElement
  <2>5. used' = used - 1
    BY <1>1, <1>2, <1>11 DEF WriteCoupon, InTurn
  <2> QED
    BY <1>3, <1>7, <1>9, <2>4, <2>5
<1> QED
  BY <1>10, <1>11

\* An order that is cancelled keeps its use until it is taken back.
LEMMA WriteStatusUses ==
  ASSUME PayInv, CountInv, UseInv, NEW r \in Requests, InUse, WriteStatus(r)
  PROVE  UseInv'
<1> USE DEF InUse, InStep
<1>1. /\ InTurn(req[r]) /\ At(r, "status") /\ ~At(r, "idle") /\ Order(r) \in Orders
  BY TurnNow DEF WriteStatus
<1>2. PICK o \in Orders : o = Order(r)
  BY <1>1
<1>3. /\ used' = used /\ status'[o] = Target[Op(r)]
      /\ \A b \in Orders \ {o} : status'[b] = status[b]
  BY <1>2 DEF WriteStatus, PayInv, TypeOK
<1>4. /\ Op(r) \in {"confirm", "cancel", "refund", "ship"} /\ status[o] # "none"
  BY <1>1, <1>2, KnowsNow DEF Sound, Target
<1>5. Kept(o)
  <2>1. Target[Op(r)] \in ALLOWED[status[o]]
    BY <1>1, <1>2 DEF InTurn
  <2>2. status[o] \in Statuses
    BY <1>4 DEF PayInv, TypeOK
  <2> QED
    BY <2>1, <2>2 DEF ALLOWED, Statuses, Kept
<1>6. PICK x : /\ Turns(r, x)
               /\ \/ x.at = "idle" /\ Op(r) \in {"confirm", "ship"}
                  \/ /\ x.at = "restore" /\ x.op = Op(r) /\ x.order = o
                     /\ Op(r) \in {"cancel", "refund"}
  <2>1. CASE Op(r) \in {"cancel", "refund"}
    <3>1. Goto(r, "restore") /\ "restore" \in Places
      BY <2>1 DEF WriteStatus, AfterStatus, Places
    <3> HIDE DEF Goto, Op, Order
    <3> QED
      BY <1>2, <2>1, <3>1, WentTo
  <2>2. CASE Op(r) \notin {"cancel", "refund"}
    BY <1>4, <2>2, WentIdle DEF WriteStatus, AfterStatus
  <2> QED
    BY <2>1, <2>2
<1>7. ASSUME NEW b \in WithCoupon
      PROVE  (Kept(b)' /\ ~Counting(x, b)) \/ Returning(x, b)
               <=> (Kept(b) /\ ~Counting(req[r], b)) \/ Returning(req[r], b)
  <2>1. ~Counting(x, b) /\ ~Counting(req[r], b) /\ ~Returning(req[r], b)
    BY <1>1, <1>6 DEF Counting, Returning
  <2>2. CASE b # o
    BY <1>3, <1>6, <2>1, <2>2 DEF Kept, Returning
  <2>3. CASE b = o
    <3>1. CASE Op(r) = "cancel"
      BY <1>5, <1>6, <2>1, <2>3, <3>1 DEF Returning
    <3>2. CASE Op(r) # "cancel"
      <4>1. status'[o] \in {"processing", "refunded", "shipped"}
        BY <1>3, <1>4, <3>2 DEF Target
      <4> QED
        BY <1>5, <2>1, <2>3, <4>1 DEF Kept
    <3> QED
      BY <3>1, <3>2
  <2> QED
    BY <2>2, <2>3
<1> QED
  BY <1>1, <1>3, <1>6, <1>7, MoveUses

\* At first nobody has used the coupon.
LEMMA UseInit == Init => UseInv
<1> SUFFICES ASSUME Init PROVE UseInv
  OBVIOUS
<1>1. Uses = {}
  BY DEF Init, Uses, Kept, Returning, Idle
<1> QED
  BY <1>1, FS_EmptySet DEF Init, UseInv

\* Every step keeps the coupon's count.
LEMMA UseNext == PayInv /\ CountInv /\ UseInv /\ [Next]_vars => UseInv'
<1> SUFFICES ASSUME PayInv, CountInv, UseInv, [Next]_vars PROVE UseInv'
  OBVIOUS
<1>1. CASE ~Serial
  BY <1>1, SerialBefore DEF UseInv
<1>2. CASE Serial
  <2>1. ASSUME NEW r \in Requests, NEW op \in Operations, NEW o \in Orders, Start(r, op, o)
        PROVE  UseInv'
    BY <1>2, <2>1, StartUses
  <2>2. ASSUME NEW r \in Requests, Abort(r) \/ Lose(r) PROVE UseInv'
    <3>1. failures' # 0
      BY <2>2 DEF Abort, Lose, PayInv, TypeOK
    <3> QED
      BY <3>1 DEF UseInv, CouponsWhole
  <2>3. ASSUME NEW r \in Requests, Step(r) PROVE UseInv'
    <3>1. ranOut' = IF RunsShort(r) THEN ranOut \cup {<<Order(r), req[r].line>>} ELSE ranOut
      BY <1>2, <2>3 DEF Step, Serial
    <3>2. InUse
      BY <1>2, <2>3, <3>1 DEF InUse, InStep, Step, CouponsWhole
    <3>3. RunsShort(r) /\ Order(r) \in WithCoupon => ~CouponsWhole'
      <4>1. RunsShort(r) => <<Order(r), req[r].line>> \in ranOut'
        BY <3>1
      <4>2. <<Order(r), req[r].line>>[1] = Order(r)
        OBVIOUS
      <4> QED
        BY <4>1, <4>2 DEF CouponsWhole
    <3> QED
      BY <2>3, <3>2, <3>3, QuoteUses, CreateUses, StockUses, ReadCouponUses,
         WriteCouponUses, WriteStatusUses DEF Step
  <2>4. ASSUME NEW i \in DOMAIN intents, Settle(i) PROVE UseInv'
    BY <2>4 DEF Settle, UseInv, Serial, CouponsWhole, Uses, Kept
  <2>5. CASE UNCHANGED vars
    BY <2>5 DEF vars, UseInv, Serial, CouponsWhole, Uses, Kept
  <2> QED
    BY <2>1, <2>2, <2>3, <2>4, <2>5 DEF Next
<1> QED
  BY <1>1, <1>2

\* Once all is quiet the uses are those of the orders that keep the discount.
LEMMA UsesQuiet == AllIdle => Uses = Discounted
BY DEF AllIdle, Uses, Discounted, Kept, Counting, Returning

\* decrementStock, restoreStock, couponAdjustment: while requests do not overlap,
\* wherever one breaks off or runs out of stock and whatever write but the three of
\* Doubling is lost, no unit is both on the shelf and in an open order and the coupon's
\* count stays within its limit; where nothing failed or was cut short, no unit is
\* nowhere and the count is that of the orders that keep the discount.
THEOREM CountsStayConserved == Spec => []CountsConserved
<1>1. ASSUME PayInv, CountInv, UseInv PROVE CountsConserved
  <2> SUFFICES ASSUME Serial
               PROVE  /\ used <= UsageLimit
                      /\ \A p \in Products : stock[p] + Held(p) <= InitialStock
                      /\ failures = 0 /\ AllIdle =>
                         /\ (\A x \in ranOut : x[2] = 1) =>
                                \A p \in Products : stock[p] + Held(p) = InitialStock
                         /\ (\A x \in ranOut : x[1] \notin WithCoupon) =>
                                used = Cardinality(Discounted)
    BY DEF CountsConserved, Serial
  <2>1. used <= UsageLimit /\ AllCounted
    BY <1>1 DEF CountInv
  <2>2. ASSUME NEW p \in Products
        PROVE  /\ stock[p] + Held(p) <= InitialStock
               /\ Whole /\ AllIdle => stock[p] + Held(p) = InitialStock
    BY <1>1, <2>1, HeldCounted DEF AllCounted
  <2>3. CouponsWhole /\ AllIdle => used = Cardinality(Discounted)
    BY <1>1, UsesQuiet DEF UseInv
  <2> QED
    BY <2>1, <2>2, <2>3 DEF Whole, CouponsWhole
<1>2. Init => CountInv /\ UseInv
  BY CountInit, UseInit
<1>3. PayInv /\ CountInv /\ UseInv /\ [Next]_vars => CountInv' /\ UseInv'
  BY CountNext, UseNext
<1> QED
  BY <1>1, <1>2, <1>3, PaySafe, PTL DEF Spec
===============================================================================
