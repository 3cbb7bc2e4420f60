---------------------------- MODULE CardPayments ----------------------------
(***************************************************************************)
(* payments.Service: the attempts to pay one order by card.                *)
(*                                                                         *)
(* The bank blocks the money when the customer pays, takes it when the     *)
(* restaurant accepts the order, and lets it go when the order is closed.  *)
(* The table of attempts follows the bank by its notifications, which come *)
(* late, repeatedly, out of order or never, and by the service's own calls.*)
(* An Update of an attempt writes the whole record that was read some time *)
(* before, without a version: the last writer wins.                        *)
(*                                                                         *)
(* The order obeys OrderRules, and its operations are atomic, as           *)
(* OrderLifecycle promises and Orders implements.  "accepted" stands for   *)
(* every later status of an open order.                                    *)
(***************************************************************************)
EXTENDS OrderRules, FiniteSetsExt

CONSTANTS Handler,      \* request and callback goroutines
          Sweeper,      \* the goroutine that closes expired attempts
          MaxPayments,  \* bound: attempts to pay
          Settings      \* what the runs explore, see below

(* A behaviour keeps one setting: how many attempts to pay there may be    *)
(* (a bound), whether notifications carry a signature, whether customers   *)
(* use "try again" (retry=1), whether somebody calls ExpireStale, whether  *)
(* notifications overtake each other, whether calls fail and goroutines    *)
(* die, whether the goroutines work one after another (a bound).           *)
ASSUME SweeperIsNoHandler == Sweeper \notin Handler
ASSUME FewHandlers == IsFiniteSet(Handler) /\ MaxPayments \in Nat
ASSUME Options == \A s \in Settings :
  /\ s.attempts \in 1..MaxPayments
  /\ {s.signed, s.retries, s.sweeps, s.late, s.faults, s.alone} \subseteq BOOLEAN

VARIABLE setting

Signed == setting.signed
Retries == setting.retries
Sweeps == setting.sweeps
Late == setting.late
Faults == setting.faults
Alone == setting.alone

VARIABLES order,    \* the row of the order
          payments, \* the payments table
          expired,  \* attempts whose expires_at has passed
          bank,     \* the bank's own record of each attempt
          job       \* what each goroutine is doing

vars == <<order, payments, expired, bank, job>>

Process == Handler \cup {Sweeper}
Payment == 1..MaxPayments   \* in the order of created_at

(* link: the bank's id and the link to its page are stored. *)
PaymentStatus == {"pending", "held", "paid", "canceled", "failed", "refunded"}
Attempt == [status : PaymentStatus \cup {"absent"}, link : BOOLEAN, review : BOOLEAN]
Absent  == [status |-> "absent", link |-> FALSE, review |-> FALSE]
Fresh   == [status |-> "pending", link |-> FALSE, review |-> FALSE]

BankState == {"none", "open", "held", "captured", "released", "dead", "refunded"}

(* payment: the attempt at hand; list: records as they were read; queue:   *)
(* the attempts still to handle; next: a status to write, or how the call  *)
(* goes on.                                                                *)
Idle == [pc |-> "idle"]
Busy == [pc : {"close", "prepare", "link", "refused", "query", "review", "apply", "held",
               "lost", "capture", "take", "captured", "extra", "extra_saved", "release",
               "undo", "released", "sweep"},
         payment : Payment \cup {0}, list : [Payment -> Attempt], queue : SUBSET Payment,
         next : PaymentStatus \cup {"create", "end", None}]

TypeOK ==
  /\ order \in Row
  /\ payments \in [Payment -> Attempt]
  /\ expired \subseteq Payment
  /\ bank \in [Payment -> BankState]
  /\ job \in [Process -> {Idle} \cup Busy]

Init ==
  /\ setting \in Settings
  /\ order = NewRow("delivery", "card")
  /\ payments = [p \in Payment |-> Absent]
  /\ expired = {}
  /\ bank = [p \in Payment |-> "none"]
  /\ job = [h \in Process |-> Idle]

Become(h, j) == job' = [job EXCEPT ![h] = j]
MayStart(h) == /\ job[h] = Idle
               /\ Alone => \A g \in Process : job[g] = Idle
At(pc) == [pc |-> pc, payment |-> 0, list |-> [p \in Payment |-> Absent], queue |-> {},
           next |-> None]
With(pc, p) == [At(pc) EXCEPT !.payment = p, !.list[p] = payments[p]]
Each(pc, S) == [At(pc) EXCEPT !.queue = S,
  !.list = [p \in Payment |-> IF p \in S THEN payments[p] ELSE Absent]]

(* Update: the record that was read, with a few fields changed. *)
Update(p, record) == payments' = [payments EXCEPT ![p] = record]
Copy(h, p) == job[h].list[p]

-----------------------------------------------------------------------------
(* StartForOrder *)


Moved == {p \in Payment : payments[p].status \in {"held", "paid"}}
Active == {p \in Payment : /\ payments[p].status = "pending" /\ payments[p].link
                           /\ p \notin expired}

(* Newest first: an attempt with money ends the call, and so does an open  *)
(* one unless the customer tries again: then it is closed.                 *)
StartForOrder(h, retry) ==
  LET closing == {p \in Active : \A q \in Moved : q < p}
      goOn == Moved = {} /\ (retry \/ Active = {})
      unused == {p \in 1..setting.attempts : payments[p] = Absent}
      starting == {g \in Process : job[g] # Idle /\ job[g].pc = "close" /\ job[g].next = "create"}
  IN /\ MayStart(h)
     /\ order.status \notin Terminal
     /\ retry => Retries
     /\ goOn \/ (retry /\ closing # {})
     /\ goOn => Cardinality(unused) > Cardinality(starting)
     /\ Become(h, [Each("close", IF retry THEN closing ELSE {})
                     EXCEPT !.next = IF goOn THEN "create" ELSE "end"])
     /\ UNCHANGED <<order, payments, expired, bank>>

CloseOld(h) ==
  /\ job[h].pc = "close" /\ job[h].queue # {}
  /\ LET p == Max(job[h].queue)
     IN /\ Update(p, [Copy(h, p) EXCEPT !.status = "failed"])
        /\ Become(h, [job[h] EXCEPT !.queue = @ \ {p}])
  /\ UNCHANGED <<order, expired, bank>>

(* Our record exists before the bank hears of the attempt. *)
CreatePayment(h) ==
  /\ job[h].pc = "close" /\ job[h].queue = {}
  /\ IF job[h].next = "end" THEN Become(h, Idle) /\ UNCHANGED payments
     ELSE LET p == Min({q \in Payment : payments[q] = Absent})
          IN Update(p, Fresh) /\ Become(h, [At("prepare") EXCEPT !.payment = p])
  /\ UNCHANGED <<order, expired, bank>>

(* Mutant: the money is taken at once (Hold: false). *)
WithoutHold == "captured"

(* What the bank does with the money when the customer pays: a hold.       *)
FirstMove == "held"

(* prepare_payment; its answer may be an error although it had its effect. *)
ProviderCreate(h) ==
  /\ job[h].pc = "prepare"
  /\ \/ /\ bank' = [bank EXCEPT ![job[h].payment] = "open"]
        /\ Become(h, [job[h] EXCEPT !.pc = "link"])
     \/ /\ Faults
        /\ bank' \in {bank, [bank EXCEPT ![job[h].payment] = "open"]}
        /\ Become(h, [job[h] EXCEPT !.pc = "refused"])
  /\ UNCHANGED <<order, payments, expired>>

SaveLink(h) ==
  /\ job[h].pc \in {"link", "refused"}
  /\ Update(job[h].payment, IF job[h].pc = "link" THEN [Fresh EXCEPT !.link = TRUE]
                            ELSE [Fresh EXCEPT !.status = "failed"])
  /\ Become(h, Idle)
  /\ UNCHANGED <<order, expired, bank>>

-----------------------------------------------------------------------------
(* HandleCallback *)

(* What the bank calls each of its states.  A refund leaves "succeeded"    *)
(* standing (only refunded_sum tells).                                     *)
MapStatus(state) ==
  CASE state \in {"none", "open"}          -> "pending"
    [] state = "held"                      -> "held"
    [] state \in {"captured", "refunded"}  -> "paid"
    [] state \in {"released", "dead"}      -> "canceled"

(* Every state an attempt has been in was announced; the announcement may  *)
(* come any number of times, or never, and if Late at any later time.      *)
Past(state) ==
  CASE state = "none"     -> {}
    [] state = "open"     -> {"open"}
    [] state = "dead"     -> {"open", "dead"}
    [] state = "held"     -> {"open", "held"}
    [] state = "released" -> {"open", "held", "released"}
    [] state = "captured" -> {"open", "held", "captured"}
    [] state = "refunded" -> {"open", "held", "captured", "refunded"}
Announced(p) == {MapStatus(state) :
                   state \in Past(bank[p]) \cap (IF Late THEN BankState ELSE {bank[p]})}

(* Mutant: a closed attempt stays closed. *)
ClosedIsClosed(old, status) ==
  old # status /\ old # "failed" /\ (old \in {"paid", "refunded"} => status = "refunded")

(* Repeated news is no news, and moved money only goes back by a refund. *)
IsNews(old, status) ==
  old # status /\ (old \in {"paid", "refunded"} => status = "refunded")

(* A signature proves the status if the attempt is bound to the bank's id; *)
(* otherwise the bank is asked.                                            *)
HandleCallback(h, p, status) ==
  LET proven == Signed /\ payments[p].link
  IN /\ MayStart(h)
     /\ payments[p] # Absent /\ status \in Announced(p)
     /\ proven => IsNews(payments[p].status, status)
     /\ Become(h, [With(IF proven THEN "apply" ELSE "query", p) EXCEPT !.next = status])
     /\ UNCHANGED <<order, payments, expired, bank>>

ProviderStatus(h) ==
  /\ job[h].pc = "query"
  /\ \/ Become(h, [job[h] EXCEPT !.pc = "apply", !.next = MapStatus(bank[job[h].payment])])
     \/ Faults /\ Become(h, [job[h] EXCEPT !.pc = "review"])
  /\ UNCHANGED <<order, payments, expired, bank>>

MarkForReview(h) ==
  /\ job[h].pc = "review"
  /\ Update(job[h].payment, [Copy(h, job[h].payment) EXCEPT !.review = TRUE])
  /\ Become(h, Idle)
  /\ UNCHANGED <<order, expired, bank>>

ApplyStatus(h) ==
  /\ job[h].pc = "apply"
  /\ LET j == job[h]
         old == Copy(h, j.payment)
     IN IF ~ IsNews(old.status, j.next)
        THEN Become(h, Idle) /\ UNCHANGED payments
        ELSE /\ Update(j.payment, [old EXCEPT !.status = j.next, !.review = FALSE])
             /\ Become(h, CASE j.next \in {"held", "paid"}       -> At("held")
                            [] j.next \in {"canceled", "failed"} -> At("lost")
                            [] OTHER                             -> Idle)
  /\ UNCHANGED <<order, expired, bank>>

(* OnPaymentHeld and OnPaymentFailed of orders.Service; their error - also *)
(* that of a race for the row, which they do not run again - has no        *)
(* consequence.                                                            *)
TellOrder(h) ==
  LET held == job[h].pc = "held"
      told == order.pay \in Settled \/ (~ held /\ order.status \in Terminal)
  IN /\ job[h].pc \in {"held", "lost"}
     /\ \/ order' = IF told THEN order ELSE IF held THEN Held(order) ELSE PaymentLost(order)
        \/ (Faults \/ ~Alone) /\ UNCHANGED order
     /\ Become(h, IF job[h].queue = {} THEN Idle ELSE [job[h] EXCEPT !.pc = "sweep"])
     /\ UNCHANGED <<payments, expired, bank>>

-----------------------------------------------------------------------------
(* ChangeStatus of orders.Service and the movement of money after it *)

(* The row is saved, then CaptureForOrder or ReleaseForOrder is called. *)
ChangeStatus(h, to, by) ==
  /\ MayStart(h)
  /\ MayChangeStatus(order, to, by)
  /\ order' = ChangedStatus(order, to, by)
  /\ Become(h, CASE to = "accepted" /\ order.pay = "held" -> At("capture")
                 [] to # "accepted" /\ order.pay \in Settled
                      -> [At("release") EXCEPT
                            !.next = IF order.pay = "paid" THEN "refunded" ELSE "failed"]
                 [] OTHER -> Idle)
  /\ UNCHANGED <<payments, expired, bank>>

Decision == {<<"accepted", "restaurant">>, <<"rejected", "restaurant">>,
             <<"cancelled", "customer">>, <<"cancelled", "admin">>}

(* Mutant: an attempt whose time is over does not count. *)
HoldingInTime == {p \in Payment \ expired : payments[p].status = "held" /\ payments[p].link}

(* heldPayment: the newest attempt that holds money. *)
Holding == {p \in Payment : payments[p].status = "held" /\ payments[p].link}

(* Without one there is nothing to take, and nobody complains. *)
CaptureForOrder(h) ==
  /\ job[h].pc = "capture"
  /\ Become(h, IF Holding = {} THEN Each("extra", {})
               ELSE With("take", Max(Holding)))
  /\ UNCHANGED <<order, payments, expired, bank>>

(* Mutant: the table says "paid" before the bank has been asked. *)
SaveBeforeCapture(h) ==
  /\ job[h].pc = "take"
  /\ Update(job[h].payment, [Copy(h, job[h].payment) EXCEPT !.status = "paid"])
  /\ Become(h, Each("extra", Holding \ {job[h].payment}))
  /\ UNCHANGED <<order, expired, bank>>

ProviderCapture(h) ==
  /\ job[h].pc = "take"
  /\ IF bank[job[h].payment] = "held"
     THEN /\ bank' = [bank EXCEPT ![job[h].payment] = "captured"]
          /\ Become(h, [job[h] EXCEPT !.pc = "captured"])
     ELSE Become(h, Idle) /\ UNCHANGED bank
  /\ UNCHANGED <<order, payments, expired>>

(* ... and the other holds of the order are listed, to be let go.          *)
SaveCaptured(h) ==
  /\ job[h].pc = "captured"
  /\ Update(job[h].payment, [Copy(h, job[h].payment) EXCEPT !.status = "paid"])
  /\ Become(h, Each("extra", Holding \ {job[h].payment}))
  /\ UNCHANGED <<order, expired, bank>>

(* Mutant: every hold of the order is captured. *)
CaptureExtra(h) ==
  /\ job[h].pc = "extra" /\ job[h].queue # {}
  /\ LET p == Max(job[h].queue)
     IN /\ bank' = [bank EXCEPT ![p] = "captured"]
        /\ Become(h, [job[h] EXCEPT !.queue = @ \ {p}])
  /\ UNCHANGED <<order, payments, expired>>

(* An error skips the attempt. *)
CancelExtra(h) ==
  /\ job[h].pc = "extra" /\ job[h].queue # {}
  /\ LET p == Max(job[h].queue)
     IN \/ /\ bank[p] = "held"
           /\ bank' = [bank EXCEPT ![p] = "released"]
           /\ Become(h, [job[h] EXCEPT !.pc = "extra_saved"])
        \/ /\ bank[p] # "held" \/ Faults
           /\ Become(h, [job[h] EXCEPT !.queue = @ \ {p}])
           /\ UNCHANGED bank
  /\ UNCHANGED <<order, payments, expired>>

SaveExtra(h) ==
  /\ job[h].pc = "extra_saved"
  /\ LET p == Max(job[h].queue)
     IN /\ Update(p, [Copy(h, p) EXCEPT !.status = "canceled"])
        /\ Become(h, [job[h] EXCEPT !.pc = "extra", !.queue = @ \ {p}])
  /\ UNCHANGED <<order, expired, bank>>

(* ReleaseForOrder: holds are cancelled, captured money is refunded; the   *)
(* first error ends it.                                                    *)
ReleaseForOrder(h) ==
  /\ job[h].pc = "release"
  /\ Become(h, [Each("undo", Moved) EXCEPT !.next = job[h].next])
  /\ UNCHANGED <<order, payments, expired, bank>>

ProviderRelease(h) ==
  /\ job[h].pc = "undo" /\ job[h].queue # {}
  /\ LET p == Max(job[h].queue)
         from == IF Copy(h, p).status = "held" THEN "held" ELSE "captured"
     IN IF bank[p] = from
        THEN /\ bank' = [bank EXCEPT ![p] = IF from = "held" THEN "released" ELSE "refunded"]
             /\ Become(h, [job[h] EXCEPT !.pc = "released"])
        ELSE Become(h, Idle) /\ UNCHANGED bank
  /\ UNCHANGED <<order, payments, expired>>

SaveReleased(h) ==
  /\ job[h].pc = "released"
  /\ LET p == Max(job[h].queue)
     IN /\ Update(p, [Copy(h, p) EXCEPT
                        !.status = IF @ = "held" THEN "canceled" ELSE "refunded"])
        /\ Become(h, [job[h] EXCEPT !.pc = "undo", !.queue = @ \ {p}])
  /\ UNCHANGED <<order, expired, bank>>

(* persistPaymentState, with its retries, once the money was moved. *)
PersistPaymentState(h) ==
  /\ job[h].pc \in {"extra", "undo"} /\ job[h].queue = {}
  /\ order' = Recorded(order, IF job[h].pc = "extra" THEN "paid" ELSE job[h].next)
  /\ Become(h, Idle)
  /\ UNCHANGED <<payments, expired, bank>>

-----------------------------------------------------------------------------
(* ExpireStale: attempts that are still pending when their time is over    *)
(* are closed one by one, and the order is told.                           *)

(* Mutant: only the attempts of open orders are closed. *)
StaleOfOpenOrder ==
  {p \in expired : payments[p].status = "pending" /\ order.status \notin Terminal}

Stale == {p \in expired : payments[p].status = "pending"}

ExpireStale ==
  /\ Sweeps /\ MayStart(Sweeper) /\ Stale # {}
  /\ Become(Sweeper, Each("sweep", Stale))
  /\ UNCHANGED <<order, payments, expired, bank>>

SweepNext(h) ==
  /\ job[h].pc = "sweep"
  /\ LET p == Min(job[h].queue)
     IN /\ Update(p, [Copy(h, p) EXCEPT !.status = "failed"])
        /\ Become(h, [job[h] EXCEPT !.pc = "lost", !.queue = @ \ {p}])
  /\ UNCHANGED <<order, expired, bank>>

-----------------------------------------------------------------------------
(* The bank, its customer, the clock; errors and crashes. *)

CustomerPays(p) ==
  /\ bank[p] = "open" /\ payments[p].link
  /\ bank' = [bank EXCEPT ![p] = FirstMove]
  /\ UNCHANGED <<order, payments, expired, job>>

(* Too many wrong codes, or the bank's own time is over. *)
AttemptDies(p) ==
  /\ bank[p] = "open"
  /\ bank' = [bank EXCEPT ![p] = "dead"]
  /\ UNCHANGED <<order, payments, expired, job>>

(* A call to the bank has a timeout far shorter than an attempt's life. *)
TimePasses(p) ==
  /\ payments[p].status = "pending" /\ p \notin expired
  /\ \A h \in Handler : job[h].pc \in {"prepare", "link", "refused"} => job[h].payment # p
  /\ expired' = expired \cup {p}
  /\ UNCHANGED <<order, payments, bank, job>>

Abandon(h) ==
  /\ Faults /\ job[h] # Idle
  /\ Become(h, Idle)
  /\ UNCHANGED <<order, payments, expired, bank>>

Step(h) ==
  \/ CloseOld(h) \/ CreatePayment(h) \/ ProviderCreate(h) \/ SaveLink(h)
  \/ ProviderStatus(h) \/ MarkForReview(h) \/ ApplyStatus(h) \/ TellOrder(h)
  \/ CaptureForOrder(h) \/ ProviderCapture(h) \/ SaveCaptured(h)
  \/ CancelExtra(h) \/ SaveExtra(h)
  \/ ReleaseForOrder(h) \/ ProviderRelease(h) \/ SaveReleased(h)
  \/ PersistPaymentState(h) \/ SweepNext(h)

Next == UNCHANGED setting /\ (
  \/ \E h \in Handler :
       \/ \E retry \in BOOLEAN : StartForOrder(h, retry)
       \/ \E p \in Payment, status \in PaymentStatus : HandleCallback(h, p, status)
       \/ \E d \in Decision : ChangeStatus(h, d[1], d[2])
  \/ ExpireStale
  \/ \E h \in Process : Step(h) \/ Abandon(h)
  \/ \E p \in Payment : CustomerPays(p) \/ AttemptDies(p) \/ TimePasses(p))

Spec == Init /\ [][Next]_<<vars, setting>>

(* Goroutines go on; the sweeper is called periodically; the bank repeats  *)
(* what it announced until it has an answer.                               *)
Fairness ==
  /\ \A h \in Process : WF_vars(Step(h))
  /\ WF_vars(ExpireStale)
  /\ \A p \in Payment, status \in {"held", "canceled"} :
       SF_vars(\E h \in Handler : HandleCallback(h, p, status))

FairSpec == Spec /\ Fairness

-----------------------------------------------------------------------------
(* Properties *)

Funded == {"held", "captured", "released", "refunded"}

(* Neither the table nor the order runs ahead of the bank: money is        *)
(* recorded as blocked, taken, let go or returned only after it was, in    *)
(* spite of notifications in any order and of stale records                *)
(* (payments/service.go:381-394).                                          *)
NeverAheadOfBank ==
  /\ \A p \in Payment :
       /\ payments[p].status = "held"     => bank[p] \in Funded
       /\ payments[p].status = "paid"     => bank[p] \in {"captured", "refunded"}
       /\ payments[p].status = "canceled" => bank[p] \in {"released", "dead"}
       /\ payments[p].status = "refunded" => bank[p] = "refunded"
  /\ order.pay = "held" => \E p \in Payment : bank[p] \in Funded

(* Money is taken only for an order the restaurant has accepted            *)
(* (payments/service.go:340-342, routes_payments.go:180-183).              *)
OnlyAcceptedIsCharged ==
  order.status \in {"created", "rejected"} => \A p \in Payment : bank[p] \in BankState \ {"captured"}

(* One order is charged once, however many attempts the customer has paid  *)
(* (payments/service.go:590-595).                                          *)
ChargedOnce ==
  Cardinality({p \in Payment : bank[p] \in {"captured", "refunded"}}) <= 1

(* An order is "paid" when its money was taken (orders/service.go:679-680).*)
PaidMeansCaptured ==
  order.pay = "paid" => \E p \in Payment : bank[p] \in {"captured", "refunded"}

(* "paid" and "refunded" are final but for the refund: no stale record is  *)
(* written over the outcome of a capture (payments/service.go:521-524).    *)
MovedMoneyIsFinal ==
  [][\A p \in Payment :
       /\ payments[p].status = "paid" => payments'[p].status \in {"paid", "refunded"}
       /\ payments[p].status = "refunded" => payments'[p].status = "refunded"]_vars

(* An accepted order is charged, unless it is cancelled first, when one    *)
(* goroutine works after another (orders/service.go:656-658).              *)
AcceptedIsCharged ==
  Alone /\ order.status = "accepted" ~>
    order.status = "cancelled" \/ \E p \in Payment : bank[p] = "captured"

(* The table of moved money says what the bank says; h is about to release *)
(* the money of the order it has closed, and nobody else has read an       *)
(* attempt he may write back, or is about to take the money.               *)
InStep == \A p \in Payment :
  payments[p].status \in {"held", "paid"} => payments[p].status = MapStatus(bank[p])
ReleasesAlone(h) ==
  /\ job[h].pc = "release"
  /\ \A g \in Process \ {h} : \/ job[g] = Idle
                              \/ job[g].pc # "capture" /\ job[g].list = At("close").list


(* The same without these conditions, as the comment has it.  Not so: an   *)
(* old link may be paid, or the news of a hold come, after the order was   *)
(* closed, and nobody looks again; a capture may pass a release that has   *)
(* read the attempt as held (orders/service.go:686).                       *)
ClosedHoldsNothing ==
  \A p \in Payment :
    order.status \in Terminal ~> bank[p] \notin {"held", "captured"}

(* Money the bank has blocked, through whatever attempt, reaches the order *)
(* when no call fails and one goroutine works after another                *)
(* (payments/service.go:526-531).                                          *)
HeldReachesOrder ==
  \A p \in Payment :
    Alone /\ bank[p] = "held" ~> order.pay \in Settled \/ order.status \in Terminal

(* If the order cannot be told of a hold, a person looks at the payment    *)
(* ("to'lov needs_review bo'lib qoladi", routes_payments.go:174-176).  Not *)
(* so: the attempt is recorded as held without a mark, the repetition of   *)
(* the news is none, and the order waits.                                  *)
HeldIsToldOrReviewed ==
  (\A h \in Process : job[h] = Idle) =>
    \A p \in Payment : payments[p].status = "held" =>
      order.pay \in Settled \/ order.status \in Terminal \/ payments[p].review

(* An attempt whose time is over does not stay pending                     *)
(* (payments/service.go:670-671).                                          *)
ExpiredIsClosed ==
  \A p \in Payment :
    p \in expired /\ payments[p].status = "pending" ~> payments[p].status # "pending"
=============================================================================
