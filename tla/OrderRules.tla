----------------------------- MODULE OrderRules -----------------------------
(***************************************************************************)
(* The rules of internal/orders on one order record: the status machine    *)
(* (statemachine.go), the payment gate and the courier-search fields       *)
(* (order.go, dispatch_state.go).  No variables: the operators are used by *)
(* the abstract life cycle (OrderLifecycle) and by the service that applies*)
(* them to possibly stale copies of a database row (Orders).               *)
(***************************************************************************)
EXTENDS Integers

CONSTANTS Courier,   \* courier ids
          None       \* the empty courier_id

ASSUME NoneIsNoCourier == None \notin Courier

Type    == {"delivery", "dine_in"}
Method  == {"cash", "card", "wallet"}
Status  == {"created", "accepted", "preparing", "ready", "picked_up",
            "delivered", "served", "rejected", "cancelled"}
Actor   == {"customer", "restaurant", "courier", "waiter", "admin", "system"}
Pay     == {"none", "awaiting", "held", "paid", "failed", "refunded"}
Dispatch == {"none", "searching", "not_found"}

(* An orders row.  by is the actor of the last History entry; deadline     *)
(* says whether dispatch_deadline is set (whether it has passed is not in  *)
(* the row: the clock decides).                                            *)
Row == [type : Type, method : Method, status : Status, by : Actor \cup {None},
        pay : Pay, courier : Courier \cup {None}, dispatch : Dispatch,
        deadline : BOOLEAN, version : Nat]

-----------------------------------------------------------------------------
(* Status machine *)

CommonEdges ==
  {<<"created", "accepted", "restaurant">>, <<"created", "rejected", "restaurant">>,
   <<"created", "cancelled", "customer">>,  <<"created", "cancelled", "admin">>,
   <<"accepted", "preparing", "restaurant">>,
   <<"accepted", "cancelled", "customer">>, <<"accepted", "cancelled", "admin">>,
   <<"preparing", "ready", "restaurant">>,  <<"preparing", "cancelled", "admin">>}

DeliveryEdges == CommonEdges \cup
  {<<"ready", "picked_up", "courier">>,     <<"ready", "cancelled", "admin">>,
   <<"ready", "cancelled", "restaurant">>,  <<"ready", "cancelled", "system">>,
   <<"picked_up", "delivered", "courier">>, <<"picked_up", "cancelled", "admin">>}

DineInEdges == CommonEdges \cup
  {<<"ready", "served", "waiter">>, <<"ready", "served", "restaurant">>,
   <<"ready", "cancelled", "admin">>}

Edges(type) == IF type = "dine_in" THEN DineInEdges ELSE DeliveryEdges

Terminal == {"delivered", "served", "rejected", "cancelled"}

(* A ready delivery order is cancelled by the restaurant or the system only*)
(* when no courier was found.                                              *)
CancelNeedsNotFound(o, to, by) ==
  /\ to = "cancelled" /\ o.status = "ready" /\ o.type = "delivery"
  /\ by \in {"restaurant", "system"}

ValidOrderTransition(o, to, by) ==
  /\ <<o.status, to, by>> \in Edges(o.type)
  /\ CancelNeedsNotFound(o, to, by) => o.courier = None /\ o.dispatch = "not_found"

-----------------------------------------------------------------------------
(* Payment gate *)

Settled == {"held", "paid"}
RequiresPrepayment(method) == method \in {"card", "wallet"}
AwaitingPayment(o) == RequiresPrepayment(o.method) /\ o.pay \notin Settled

(* Mutant: no payment gate. *)
WithoutPaymentGate(o, to, by) ==
  ValidOrderTransition(o, to, by) /\ (to = "picked_up" => o.courier # None)

(* All checks of ChangeStatus on the row it read. *)
MayChangeStatus(o, to, by) ==
  /\ ValidOrderTransition(o, to, by)
  /\ AwaitingPayment(o) => to = "cancelled"
  /\ to = "picked_up" => o.courier # None

-----------------------------------------------------------------------------
(* Courier search *)

AwaitsCourier(o) ==
  /\ o.type = "delivery" /\ o.courier = None
  /\ o.status \in {"accepted", "preparing", "ready"}

NeedsDispatchRecovery(o) == AwaitsCourier(o) /\ o.dispatch # "not_found"

CourierSearchExpired(o, due) ==
  /\ o.status = "ready" /\ AwaitsCourier(o)
  /\ o.dispatch # "not_found" /\ o.deadline /\ due

CourierNotFoundExpired(o, due) ==
  /\ o.status = "ready" /\ AwaitsCourier(o)
  /\ o.dispatch = "not_found" /\ o.deadline /\ due

MayRestartSearch(o) ==
  o.status = "ready" /\ AwaitsCourier(o) /\ o.dispatch = "not_found"

MissesDeadline(o) ==
  o.status = "ready" /\ AwaitsCourier(o) /\ o.dispatch # "not_found" /\ ~o.deadline

MayAssign(o) == o.status \notin Terminal /\ o.courier = None

(* A capture belongs to an accepted order, the return of the money to a    *)
(* closed one; both are recorded some time after the status.               *)
MayRecord(o, state) ==
  /\ RequiresPrepayment(o.method)
  /\ \/ state = "paid" /\ o.status \notin {"created", "rejected"}
     \/ state \in {"failed", "refunded"} /\ o.status \in {"rejected", "cancelled"}

(* Mutant: a closed order keeps its deadline. *)
PolicyForOpenOrders(o) ==
  IF o.type = "delivery" /\ o.courier = None /\ o.status \in {"accepted", "ready"}
  THEN [o EXCEPT !.dispatch = "searching", !.deadline = (o.status = "ready")] ELSE o

(* applyDispatchPolicy, on the row that already has its new status. *)
DispatchPolicy(o) ==
  IF o.type = "dine_in" THEN o
  ELSE IF o.status \in Terminal THEN [o EXCEPT !.deadline = FALSE]
  ELSE IF o.courier # None THEN o
  ELSE IF o.status = "accepted"
       THEN [o EXCEPT !.dispatch = "searching", !.deadline = FALSE]
  ELSE IF o.status = "ready"
       THEN [o EXCEPT !.dispatch = "searching", !.deadline = TRUE]
  ELSE o

-----------------------------------------------------------------------------
(* What each operation writes *)

ChangedStatus(o, to, by) == DispatchPolicy([o EXCEPT !.status = to, !.by = by])
Held(o)           == [o EXCEPT !.pay = "held"]
PaymentLost(o)    == [o EXCEPT !.pay = "failed", !.status = "cancelled", !.by = "system"]
Assigned(o, c)    == [o EXCEPT !.courier = c, !.dispatch = "none", !.deadline = FALSE]
MarkedNotFound(o) == [o EXCEPT !.dispatch = "not_found", !.deadline = TRUE]
Searching(o)      == [o EXCEPT !.dispatch = "searching", !.deadline = TRUE]
Recorded(o, state) == [o EXCEPT !.pay = state]

(* Every save counts in the version. *)
Written(new) == [new EXCEPT !.version = @ + 1]

(* Rows as CreateExpecting inserts them (a wallet order is debited before  *)
(* it is saved), and ready delivery rows that are older than the dispatch  *)
(* columns (migration 0048 filled in '' and NULL).                         *)
FirstPay(method) == CASE method = "cash"   -> "none"
                      [] method = "card"   -> "awaiting"
                      [] method = "wallet" -> "paid"

NewRow(type, method) ==
  [type |-> type, method |-> method, status |-> "created", by |-> None,
   pay |-> FirstPay(method), courier |-> None, dispatch |-> "none",
   deadline |-> FALSE, version |-> 1]

LegacyRow ==
  [type |-> "delivery", method |-> "cash", status |-> "ready", by |-> "restaurant",
   pay |-> "none", courier |-> None, dispatch |-> "none",
   deadline |-> FALSE, version |-> 1]

InitialRow == {NewRow(t, m) : t \in Type, m \in Method} \cup {LegacyRow}

-----------------------------------------------------------------------------
(* What the search fields and the status of one row say of each other *)

Kitchen == {"accepted", "preparing", "ready", "picked_up", "delivered", "served"}

SearchConsistent(r) ==
  /\ r.deadline <=> AwaitsCourier(r) /\ r.status = "ready" /\ r.dispatch # "none"
  /\ r.dispatch = "not_found" => r.courier = None /\ r.status \in {"ready", "cancelled"}
  /\ r.courier # None => r.dispatch = "none" /\ r.type = "delivery"
  /\ r.type = "dine_in" => r.dispatch = "none"
  /\ AwaitsCourier(r) /\ r.status # "ready" => r.dispatch = "searching"
=============================================================================
