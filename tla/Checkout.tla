------------------------------ MODULE Checkout ------------------------------
(***************************************************************************)
(* orders.Service.CreateExpecting and the wallet: a cart is priced, the    *)
(* wallet pays for it, the order is written; a cancelled order gives the   *)
(* money back, a finished one a cashback.  The wallet is a ledger whose    *)
(* sum is the balance; one lock per customer puts its entries in a row.    *)
(* One customer; card orders are in CardPayments.                          *)
(***************************************************************************)
EXTENDS PromotionPanel, WorkingHours

CONSTANTS Handler,       \* goroutines that serve requests
          Order,         \* bound: order ids
          Key,           \* idempotency keys the application makes up
          Cart,          \* carts
          Earned,        \* what was earned before
          SpendMin, CashbackMin, CashbackPercent

ASSUME ThresholdsAreNat == {SpendMin, CashbackMin, CashbackPercent} \cup Earned \subseteq Nat
ASSUME NoneIsNoId == None \notin Handler \cup Order \cup Key
ASSUME CartsAreOrdered ==
  \A c \in Cart : c # <<>> /\ c \in Seq([product : Product, qty : 1..100])

VARIABLES ledger,    \* wallet_transactions of the customer
          lock,      \* who holds the advisory lock of the wallet
          orders,    \* the orders table
          job        \* of each handler: the request being served

checkoutVars == <<ledger, lock, orders, job>>
vars == <<promos, panel, day, switch, hours, clock, shown, ledger, lock, orders, job>>

Method == {"cash", "wallet"}
Entry(o, type, amount) == [order |-> o, type |-> type, amount |-> amount]
Signed(e) == IF e.type = "spend" THEN -e.amount ELSE e.amount
Balance == SumFunction([e \in ledger |-> Signed(e)])

(* gave: history, the promotions that went into the price.                 *)
OrderRow == [status : {"open", "cancelled", "done"}, method : Method,
             pay : {"none", "paid", "refunded"}, key : Key \cup {None}, total : Nat,
             gave : SUBSET PromoId]
NoOrder == [status |-> "absent"]
SavedOrders == {o \in Order : orders[o] # NoOrder}
Idle == [pc |-> "idle"]

TypeOK ==
  /\ PanelTypeOK /\ HoursTypeOK
  /\ \A e \in ledger : /\ e.order \in Order \cup {None} /\ e.amount \in Nat
                       /\ e.type \in {"cashback", "spend", "refund"}
  /\ lock \in Handler \cup {None}
  /\ lock # None => job[lock].pc = "insert"
  /\ orders \in [Order -> OrderRow \cup {NoOrder}]
  /\ \A h \in Handler : job[h].pc \in {"idle", "price", "balance", "lock", "insert",
                                       "save", "count", "refunded"}

Init ==
  /\ PanelInit /\ HoursInit
  /\ \E amount \in Earned : ledger = {Entry(None, "cashback", amount)}
  /\ lock = None
  /\ orders = [o \in Order |-> NoOrder]
  /\ job = [h \in Handler |-> Idle]

-----------------------------------------------------------------------------
(* The wallet *)

(* Mutant: nobody waits for the lock.                                     *)
NobodyWaits == TRUE

WalletIsFree == lock = None

(* applyLocked: the lock, the sum and the check of a debit ...             *)
TakeLock(h) ==
  /\ job[h].pc = "lock" /\ WalletIsFree
  /\ IF job[h].entry.type = "spend" /\ Balance < job[h].entry.amount
     THEN job' = [job EXCEPT ![h] = Idle] /\ UNCHANGED lock
     ELSE job' = [job EXCEPT ![h].pc = "insert"] /\ lock' = h
  /\ UNCHANGED <<ledger, orders, promos>>

(* ... then the row, once for an order and a type, and the commit.         *)
AfterInsert(request) ==
  CASE request.entry.type = "spend"    -> [request EXCEPT !.pc = "save"]
    [] request.entry.type = "refund"   -> [request EXCEPT !.pc = "refunded"]
    [] request.entry.type = "cashback" -> Idle

InsertEntry(h) ==
  /\ job[h].pc = "insert"
  /\ LET entry == job[h].entry
     IN  ledger' = IF \E e \in ledger : e.order = entry.order /\ e.type = entry.type
                   THEN ledger ELSE ledger \cup {entry}
  /\ lock' = None
  /\ job' = [job EXCEPT ![h] = AfterInsert(@)]
  /\ UNCHANGED <<orders, promos>>

-----------------------------------------------------------------------------
(* Creating an order *)

Previous == Cardinality({o \in SavedOrders : orders[o].status # "cancelled"})
WithKey(key) == {o \in SavedOrders : key # None /\ orders[o].key = key}

(* A new id: which one does not matter.                                    *)
Unused == {o \in Order : /\ orders[o] = NoOrder
                         /\ \A e \in ledger : e.order # o
                         /\ \A h \in Handler : job[h].pc # "idle" => job[h].order # o}
Fresh == IF Unused = {} THEN {} ELSE {CHOOSE o \in Unused : TRUE}

(* PriceOrder and FindByIdempotencyKey; a key seen before is answered with *)
(* its order.  expected: the total on the screen, 0 from old applications. *)
BeginOrder(h) ==
  /\ job[h].pc = "idle" /\ OrderableAt(clock)
  /\ \E c \in Cart, o \in Fresh :
       \E expected \in {0, PriceCart(promos, c, Previous, day).total},
          method \in Method, key \in {k \in Key \cup {None} : WithKey(k) = {}} :
         job' = [job EXCEPT ![h] = [pc |-> "price", cart |-> c, method |-> method,
                                    key |-> key, order |-> o, expected |-> expected]]
  /\ UNCHANGED <<ledger, lock, orders, promos>>

(* An order for nothing or at another total than was shown is refused.     *)
Priced(request, quote) ==
  IF quote.total \notin Nat \ {0} \/ request.expected \notin {0, quote.total} THEN Idle
  ELSE [pc |-> IF request.method = "wallet" THEN "balance" ELSE "save",
        order |-> request.order,
        row |-> [status |-> "open", method |-> request.method, key |-> request.key,
                 total |-> quote.total, gave |-> {g.id : g \in ToSet(quote.gave)},
                 pay |-> IF request.method = "wallet" THEN "paid" ELSE "none"],
        gave |-> [i \in DOMAIN quote.gave |-> quote.gave[i].id]]

CreateExpecting(h) ==
  /\ job[h].pc = "price"
  /\ job' = [job EXCEPT ![h] = Priced(@, PriceCart(promos, @.cart, Previous, day))]
  /\ UNCHANGED <<ledger, lock, orders, promos>>

(* DebitForOrder looks at the threshold before it takes the lock.          *)
CheckBalance(h) ==
  /\ job[h].pc = "balance"
  /\ job' = [job EXCEPT ![h] =
       IF Balance < SpendMin THEN Idle
       ELSE [pc |-> "lock", entry |-> Entry(@.order, "spend", @.row.total),
             order |-> @.order, row |-> @.row, gave |-> @.gave]]
  /\ UNCHANGED <<ledger, lock, orders, promos>>

(* Two orders with one key cannot both be saved; the loser is answered with*)
(* the winner and its debit stays.                                         *)
SaveOrder(h) ==
  /\ job[h].pc = "save"
  /\ IF WithKey(job[h].row.key) # {}
     THEN job' = [job EXCEPT ![h] = Idle] /\ UNCHANGED orders
     ELSE /\ orders' = [orders EXCEPT ![job[h].order] = job[h].row]
          /\ job' = [job EXCEPT ![h] =
               IF @.gave = <<>> THEN Idle
               ELSE [pc |-> "count", order |-> @.order, gave |-> @.gave]]
  /\ UNCHANGED <<ledger, lock, promos>>

(* Mutant: the counter is written again after it was written.              *)
CountAgain(h) ==
  /\ job[h].pc = "count"
  /\ IncrementUsage(Head(job[h].gave))
  /\ UNCHANGED <<job, ledger, lock, orders>>

CountUse(h) ==
  /\ job[h].pc = "count"
  /\ IncrementUsage(Head(job[h].gave))
  /\ LET left == Tail(job[h].gave)
     IN  job' = IF left = <<>> THEN [job EXCEPT ![h] = Idle] ELSE [job EXCEPT ![h].gave = left]
  /\ UNCHANGED <<ledger, lock, orders>>

-----------------------------------------------------------------------------
(* The end of an order *)

(* Transition to cancelled or rejected, then settleWalletPayment.          *)
CancelOrder(h, o) ==
  /\ job[h].pc = "idle" /\ orders[o].status = "open"
  /\ orders' = [orders EXCEPT ![o].status = "cancelled"]
  /\ job' = IF orders[o].pay # "paid" THEN job
            ELSE [job EXCEPT ![h] = [pc |-> "lock", order |-> o,
                                     entry |-> Entry(o, "refund", orders[o].total)]]
  /\ UNCHANGED <<ledger, lock, promos>>

PersistRefunded(h) ==
  /\ job[h].pc = "refunded"
  /\ orders' = [orders EXCEPT ![job[h].order].pay = "refunded"]
  /\ job' = [job EXCEPT ![h] = Idle]
  /\ UNCHANGED <<ledger, lock, promos>>

Cashback(total) == IF total < CashbackMin THEN 0 ELSE (total * CashbackPercent) \div 100

(* Transition to delivered or served, then creditCashback.                 *)
FinishOrder(h, o) ==
  /\ job[h].pc = "idle" /\ orders[o].status = "open"
  /\ orders' = [orders EXCEPT ![o].status = "done"]
  /\ LET amount == Cashback(orders[o].total)
     IN  job' = IF amount = 0 THEN job
                ELSE [job EXCEPT ![h] = [pc |-> "lock", order |-> o,
                                         entry |-> Entry(o, "cashback", amount)]]
  /\ UNCHANGED <<ledger, lock, promos>>

(* The process stops or a write fails: the rest of the request is not done *)
(* and nobody does it later.  The transaction's lock is released.          *)
Abandon(h) ==
  /\ job[h].pc # "idle"
  /\ job' = [job EXCEPT ![h] = Idle]
  /\ lock' = IF lock = h THEN None ELSE lock
  /\ UNCHANGED <<ledger, orders, promos>>

CheckoutNext ==
  \E h \in Handler :
    \/ BeginOrder(h) \/ CreateExpecting(h) \/ CheckBalance(h) \/ TakeLock(h) \/ InsertEntry(h)
    \/ SaveOrder(h) \/ CountUse(h) \/ PersistRefunded(h) \/ Abandon(h)
    \/ \E o \in Order : CancelOrder(h, o) \/ FinishOrder(h, o)

Next ==
  \/ CheckoutNext /\ UNCHANGED <<panel, day, switch, hours, clock, shown>>
  \/ PanelNext /\ UNCHANGED <<switch, hours, clock, shown, ledger, lock, orders, job>>
  \/ HoursNext /\ UNCHANGED <<promos, panel, day, ledger, lock, orders, job>>

Spec == Init /\ [][Next]_vars

-----------------------------------------------------------------------------
(* Properties *)

(* Whatever promotions the panel leaves behind, the price a customer is    *)
(* asked for follows the rules of pricing (priceCart, promotions.Apply).   *)
QuoteIsFair ==
  \A h \in Handler : job[h].pc = "price" => IsFair(promos, job[h].cart, Previous, day)

(* The wallet never goes below zero; every order paid from it has exactly  *)
(* its total taken; money comes back only for a cancelled order, all of it,*)
(* and cashback only for a finished one; one order for one key.  Over two  *)
(* handlers that create, cancel and crash (CreateExpecting, applyLocked,   *)
(* settleWalletPayment, creditCashback).                                   *)
MoneyMatchesOrders ==
  /\ Balance >= 0
  /\ \A o \in SavedOrders :
       /\ orders[o].method = "wallet" => Entry(o, "spend", orders[o].total) \in ledger
       /\ orders[o].pay = "refunded" => Entry(o, "refund", orders[o].total) \in ledger
       /\ WithKey(orders[o].key) \subseteq {o}
  /\ \A e \in ledger : e.order # None =>
       /\ e.type = "refund" => orders[e.order].status = "cancelled"
                               /\ Entry(e.order, "spend", e.amount) \in ledger
       /\ e.type = "cashback" => orders[e.order].status = "done"

(* A promotion never counts more uses than there are orders with it,       *)
(* although the panel writes the counter back with the whole row           *)
(* (IncrementUsage, savePromotion).                                        *)
UsageIsReal ==
  \A p \in ToSet(promos) :
    p.used <= Cardinality({o \in SavedOrders : p.id \in orders[o].gave})

(* A debit without an order or a refund belongs to a request under way:    *)
(* what migrations/0057_wallet.sql says of every entry.  Not so: see README*)
EveryDebitHasItsOrder ==
  \A e \in ledger : e.type = "spend" =>
    \/ e.order \in SavedOrders
    \/ \E h \in Handler : job[h].pc = "save" /\ job[h].order = e.order

(* A purchase starts from a balance above the threshold.  Not so.          *)
SpendsAboveThreshold ==
  [][\A h \in Handler : job[h].pc = "insert" /\ job'[h].pc = "save" => Balance >= SpendMin]_vars
=============================================================================
