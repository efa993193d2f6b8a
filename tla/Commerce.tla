------------------------------ MODULE Commerce ------------------------------
(***************************************************************************)
(* Checkout, payment, cancellation, refund and shipping of orders.  Every  *)
(* call of the store is awaited, so requests interleave between any two of *)
(* them: stock and coupons are read, changed and written back, a request   *)
(* that throws leaves what it has written, and one whose write fails in    *)
(* silence goes on.                                                        *)
(*                                                                         *)
(* A line asks for one unit.  A product stands for what one update writes: *)
(* its quantity, or the quantities of all its variants.                    *)
(***************************************************************************)
EXTENDS Integers, Sequences, FiniteSets

CONSTANTS
    Requests,       \* requests that the server can have under way
    Orders,         \* orders that are placed
    Products,
    Lines,          \* Lines[o]: the products of the lines of order o
    WithCoupon,     \* orders whose cart has the coupon
    UsageLimit,     \* its usageLimit
    InitialStock,   \* units of each product
    MaxIntents,     \* bound: payment intents
    MaxFailures,    \* bound: calls of the store that fail
    NoIntent        \* no intent was created for the order

ASSUME OrdersAssumption ==
    Lines \in [Orders -> Seq(Products)] /\ WithCoupon \subseteq Orders
ASSUME NumbersAssumption ==
    UsageLimit \in Nat \ {0} /\ InitialStock \in Nat /\ MaxIntents \in Nat
    /\ MaxFailures \in Nat
ASSUME NoIntentAssumption == NoIntent \notin 1 .. MaxIntents

VARIABLES
    overlap,    \* whether requests overlap in this behaviour
    req,        \* what a request is doing
    status,     \* status of an order, "none" before it exists
    committed,  \* its inventoryCommitted
    intentOf,   \* its stripePaymentIntentId
    intents,    \* the intents of the gateway, in order of creation
    stock,      \* inventory of a product
    used,       \* usedCount of the coupon
    failures,   \* calls of the store that have failed
    lost,       \* history: where one failed and the request went on
    ranOut      \* history: orders that ran out of stock, and at which line

shop == <<status, committed, intentOf, intents, stock, used>>
vars == <<overlap, req, shop, failures, lost, ranOut>>

Statuses == {"pending", "processing", "shipped", "delivered", "cancelled", "refunded"}
Operations == {"checkout", "pay", "confirm", "cancel", "refund", "ship"}
Places == {"idle", "quote", "create", "read", "write", "flag", "coupon",
           "couponWrite", "check", "guard", "status", "restore", "intent"}

Idle == [op |-> "none", order |-> "none", at |-> "idle", line |-> 0, seen |-> 0]

Init ==
    /\ overlap \in BOOLEAN
    /\ req = [r \in Requests |-> Idle]
    /\ status = [o \in Orders |-> "none"]
    /\ committed = [o \in Orders |-> FALSE]
    /\ intentOf = [o \in Orders |-> NoIntent]
    /\ intents = <<>>
    /\ stock = [p \in Products |-> InitialStock]
    /\ used = 0
    /\ failures = 0 /\ lost = {} /\ ranOut = {}

-----------------------------------------------------------------------------
At(r, place) == req[r].at = place
Op(r) == req[r].op
Order(r) == req[r].order

Goto(r, place) == req' = [req EXCEPT ![r].at = place]
GotoSeen(r, place, v) == req' = [req EXCEPT ![r].at = place, ![r].seen = v]
Done(r) == req' = [req EXCEPT ![r] = Idle]

\* The request is answered with an error.
Raise(r) ==
    /\ Done(r)
    /\ UNCHANGED shop

EntryOf ==
    [checkout |-> "quote", pay |-> "intent", confirm |-> "check",
     cancel |-> "check", refund |-> "guard", ship |-> "guard"]

Start(r, op, o) ==
    /\ At(r, "idle")
    /\ overlap \/ \A q \in Requests : At(q, "idle")
    /\ IF op = "checkout" THEN status[o] = "none" ELSE status[o] # "none"
    /\ \A q \in Requests : Order(q) = o => Op(q) # "checkout" \/ op # "checkout"
    /\ req' = [req EXCEPT ![r] = [op |-> op, order |-> o, at |-> EntryOf[op],
                                  line |-> 1, seen |-> 0]]
    /\ UNCHANGED <<overlap, shop, failures, lost, ranOut>>

-----------------------------------------------------------------------------
(* placeOrder.                                                             *)

\* couponAdjustment of the quote.
WithinLimit(r) == Order(r) \in WithCoupon => used < UsageLimit

Quote(r) ==
    /\ At(r, "quote")
    /\ IF WithinLimit(r)
         THEN /\ Goto(r, "create")
              /\ UNCHANGED shop
         ELSE Raise(r)

Create(r) ==
    /\ At(r, "create")
    /\ status' = [status EXCEPT ![Order(r)] = "pending"]
    /\ Goto(r, "read")
    /\ UNCHANGED <<committed, intentOf, intents, stock, used>>

LinesLeft(r) == req[r].line <= Len(Lines[Order(r)])
Product(r) == Lines[Order(r)][req[r].line]

\* Defect: the quantity is not compared.
InStockAlways(r) == TRUE

InStock(r) == stock[Product(r)] >= 1

\* The line is out of stock: the lines before it are not given back, and the
\* coupon of the order is not counted.
RunsShort(r) ==
    At(r, "read") /\ Op(r) = "checkout" /\ LinesLeft(r) /\ ~InStock(r)

\* decrementStock and restoreStock walk the lines: read the product, ...
ReadStock(r) ==
    /\ At(r, "read") /\ LinesLeft(r)
    /\ IF Op(r) = "checkout" => InStock(r)
         THEN /\ GotoSeen(r, "write", stock[Product(r)])
              /\ UNCHANGED shop
         ELSE Raise(r)

NextLine(r) == req' = [req EXCEPT ![r].at = "read", ![r].line = @ + 1]

\* ... and write back what was read, one less or one more.
WriteStock(r) ==
    /\ At(r, "write")
    /\ stock' = [stock EXCEPT ![Product(r)] =
            IF Op(r) = "checkout" THEN req[r].seen - 1 ELSE req[r].seen + 1]
    /\ NextLine(r)
    /\ UNCHANGED <<status, committed, intentOf, intents, used>>

\* A refund ends with the stock, and so does an order without a coupon.
AfterStock(r) ==
    IF Op(r) # "refund" /\ Order(r) \in WithCoupon THEN Goto(r, "coupon") ELSE Done(r)

\* The flag follows the last line, if the order is there.
WriteFlag(r) ==
    /\ At(r, "read") /\ ~LinesLeft(r)
    /\ committed' = [committed EXCEPT ![Order(r)] =
            Op(r) = "checkout" /\ status[Order(r)] # "none"]
    /\ AfterStock(r)
    /\ UNCHANGED <<status, intentOf, intents, stock, used>>

ReadCoupon(r) ==
    /\ At(r, "coupon")
    /\ IF Op(r) = "checkout" \/ used > 0 THEN GotoSeen(r, "couponWrite", used)
                                         ELSE Done(r)
    /\ UNCHANGED shop

WriteCoupon(r) ==
    /\ At(r, "couponWrite")
    /\ used' = IF Op(r) = "checkout" THEN req[r].seen + 1 ELSE req[r].seen - 1
    /\ Done(r)
    /\ UNCHANGED <<status, committed, intentOf, intents, stock>>

-----------------------------------------------------------------------------
(* Payment.                                                                *)

\* A new intent for the order, whatever its status and its earlier intents.
\* Beyond the bound the gateway refuses.
CreateIntent(r) ==
    /\ At(r, "intent") /\ req[r].seen = 0
    /\ IF Len(intents) < MaxIntents
         THEN /\ intents' = Append(intents, [order |-> Order(r), paid |-> FALSE])
              /\ GotoSeen(r, "intent", Len(intents) + 1)
              /\ UNCHANGED <<status, committed, intentOf, stock, used>>
         ELSE Raise(r)

StoreIntent(r) ==
    /\ At(r, "intent") /\ req[r].seen > 0
    /\ intentOf' = [intentOf EXCEPT ![Order(r)] = req[r].seen]
    /\ Done(r)
    /\ UNCHANGED <<status, committed, intents, stock, used>>

\* The customer pays.
Settle(i) ==
    /\ ~intents[i].paid
    /\ intents' = [intents EXCEPT ![i].paid = TRUE]
    /\ UNCHANGED <<overlap, req, status, committed, intentOf, stock, used, failures,
                   lost, ranOut>>

\* Defect: the state of the intent is not read.
AcceptedUnpaid(r, i) == intentOf[Order(r)] = i

\* confirm: the intent is the order's, and the gateway has its money.
Accepted(r, i) == intentOf[Order(r)] = i /\ intents[i].paid

Confirm(r, i) ==
    /\ At(r, "check") /\ Op(r) = "confirm"
    /\ IF i \in DOMAIN intents /\ Accepted(r, i)
         THEN /\ Goto(r, "guard")
              /\ UNCHANGED shop
         ELSE Raise(r)

-----------------------------------------------------------------------------
(* Status changes.                                                         *)

\* canCancelOrder; after an hour the answer is no as well.
CheckCancel(r) ==
    /\ At(r, "check") /\ Op(r) = "cancel"
    /\ \/ /\ status[Order(r)] = "pending"
          /\ Goto(r, "guard")
          /\ UNCHANGED shop
       \/ Raise(r)

ALLOWED ==
    [pending    |-> {"processing", "cancelled"},
     processing |-> {"shipped", "cancelled", "refunded"},
     shipped    |-> {"delivered", "refunded"},
     delivered  |-> {"refunded"},
     cancelled  |-> {},
     refunded   |-> {}]

Target ==
    [confirm |-> "processing", cancel |-> "cancelled", refund |-> "refunded",
     ship |-> "shipped"]

MayMove(r) == Target[Op(r)] \in ALLOWED[status[Order(r)]]

\* transitionOrder: read the status and look it up, ...
Guard(r) ==
    /\ At(r, "guard")
    /\ IF MayMove(r)
         THEN /\ Goto(r, "status")
              /\ UNCHANGED shop
         ELSE Raise(r)

AfterStatus(r) ==
    IF Op(r) \in {"cancel", "refund"} THEN Goto(r, "restore") ELSE Done(r)

\* ... then write the next one over whatever is there now.
WriteStatus(r) ==
    /\ At(r, "status")
    /\ status' = [status EXCEPT ![Order(r)] = Target[Op(r)]]
    /\ AfterStatus(r)
    /\ UNCHANGED <<committed, intentOf, intents, stock, used>>

\* Defect: the flag is not asked, as if every order had its stock.
NeedsRestoreAlways(r) == TRUE

NeedsRestore(r) == committed[Order(r)]

\* restoreStock: nothing to give back for an order that never got its stock;
\* a cancelled order still gives the coupon back.
Restore(r) ==
    /\ At(r, "restore")
    /\ IF NeedsRestore(r) THEN Goto(r, "read") ELSE AfterStock(r)
    /\ UNCHANGED shop

-----------------------------------------------------------------------------
(* Calls of the store that fail.                                           *)

\* A call throws, or a lookup that the request cannot do without finds nothing.
Abort(r) ==
    /\ ~At(r, "idle")
    /\ failures < MaxFailures
    /\ failures' = failures + 1
    /\ Raise(r)
    /\ UNCHANGED <<overlap, lost, ranOut>>

\* The adapter answers success: false, which store.update does not look at and
\* store.findOne takes for nothing found: the request goes on as if it had
\* written, without an id where the order was to be created.
Lose(r) ==
    /\ failures < MaxFailures
    /\ failures' = failures + 1
    /\ \/ At(r, "create") /\ Goto(r, "read")
       \/ At(r, "write") /\ NextLine(r)
       \/ At(r, "read") /\ ~LinesLeft(r) /\ AfterStock(r)
       \/ At(r, "status") /\ AfterStatus(r)
       \/ At(r, "restore") /\ AfterStock(r)
       \/ (At(r, "coupon") \/ At(r, "couponWrite")) /\ Done(r)
       \/ At(r, "intent") /\ req[r].seen > 0 /\ Done(r)
    /\ lost' = IF overlap THEN lost ELSE lost \cup {<<Op(r), req[r].at>>}
    /\ UNCHANGED <<overlap, shop, ranOut>>

-----------------------------------------------------------------------------
Step(r) ==
    /\ \/ Quote(r) \/ Create(r)
       \/ ReadStock(r) \/ WriteStock(r) \/ WriteFlag(r)
       \/ ReadCoupon(r) \/ WriteCoupon(r)
       \/ CreateIntent(r) \/ StoreIntent(r)
       \/ \E i \in 1 .. MaxIntents : Confirm(r, i)
       \/ CheckCancel(r) \/ Guard(r) \/ WriteStatus(r) \/ Restore(r)
    /\ ranOut' = IF RunsShort(r) /\ ~overlap THEN ranOut \cup {<<Order(r), req[r].line>>} ELSE ranOut
    /\ UNCHANGED <<overlap, failures, lost>>

Next ==
    \/ \E r \in Requests :
        \/ \E op \in Operations, o \in Orders : Start(r, op, o)
        \/ Step(r)
        \/ Abort(r) \/ Lose(r)
    \/ \E i \in DOMAIN intents : Settle(i)

Spec == Init /\ [][Next]_vars

-----------------------------------------------------------------------------
\* Types of the orders, the requests, the gateway and the shared counters.
\* Stock does not go below nothing, however requests overlap.
TypeOK ==
    /\ overlap \in BOOLEAN /\ failures \in 0 .. MaxFailures
    /\ lost \subseteq Operations \X Places /\ ranOut \subseteq Orders \X Nat
    /\ req \in [Requests -> [op : Operations \cup {"none"}, order : Orders \cup {"none"},
                             at : Places, line : Nat, seen : Nat]]
    /\ status \in [Orders -> Statuses \cup {"none"}]
    /\ committed \in [Orders -> BOOLEAN]
    /\ intentOf \in [Orders -> (1 .. MaxIntents) \cup {NoIntent}]
    /\ intents \in Seq([order : Orders, paid : BOOLEAN])
    /\ stock \in [Products -> Nat]
    /\ used \in Nat

Over == {"none", "cancelled", "refunded"}

\* Orders that are open and hold stock, and what they hold of a product.
Holding == {o \in Orders : committed[o] /\ status[o] \notin Over}
Held(p) ==
    Cardinality(UNION {{o} \X {i \in DOMAIN Lines[o] : Lines[o][i] = p} : o \in Holding})

AllIdle == \A r \in Requests : At(r, "idle")

\* Orders that were given the discount of the coupon and keep it.
Discounted == {o \in WithCoupon : status[o] \notin {"none", "cancelled"}}

\* The writes whose silent failure puts a unit on the shelf and in an order: the
\* flag follows a stock write that was lost, or the stock comes back from an
\* order that stays open.
Doubling == {<<"checkout", "write">>, <<"cancel", "status">>, <<"refund", "status">>}

\* decrementStock, restoreStock, couponAdjustment: as long as requests do not
\* overlap, wherever one of them breaks off and whatever other write is lost, no
\* unit is both on the shelf and in an open order, and the coupon's count stays
\* within its limit.  When no call has failed every unit is in one of the two
\* places, unless an order ran out of stock half way, and the count is that of
\* the orders with the discount, unless one of those ran out of stock.
CountsConserved ==
    ~overlap /\ lost \cap Doubling = {} =>
        /\ used <= UsageLimit
        /\ \A p \in Products : stock[p] + Held(p) <= InitialStock
        /\ failures = 0 /\ AllIdle =>
            /\ (\A x \in ranOut : x[2] = 1) =>
                   \A p \in Products : stock[p] + Held(p) = InitialStock
            /\ (\A x \in ranOut : x[1] \notin WithCoupon) =>
                   used = Cardinality(Discounted)

\* pay and confirm: however requests overlap, an order that went on to
\* processing, shipping or a refund was paid with an intent of its own.
PaidFirst ==
    \A o \in Orders : status[o] \in {"processing", "shipped", "delivered", "refunded"} =>
        \E i \in DOMAIN intents : intents[i] = [order |-> o, paid |-> TRUE]

=============================================================================
