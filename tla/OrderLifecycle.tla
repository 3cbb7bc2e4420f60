--------------------------- MODULE OrderLifecycle ---------------------------
(***************************************************************************)
(* What orders.Service promises: each operation takes effect at one point  *)
(* in time, on the row as it is then and under the rules of OrderRules.    *)
(* No copies, no retries, no goroutines.  Orders implements this module.   *)
(***************************************************************************)
EXTENDS OrderRules

CONSTANT Order

VARIABLES order,  \* the orders table
          due     \* due[o]: the clock is past o's dispatch_deadline

vars == <<order, due>>

Init ==
  /\ order \in [Order -> InitialRow]
  /\ due = [o \in Order |-> FALSE]

Write(o, new, late) ==
  /\ order' = [order EXCEPT ![o] = Written(new)]
  /\ due' = [due EXCEPT ![o] = late]

(* The system only cancels an order whose restaurant let the deadline of   *)
(* its decision pass.                                                      *)
ChangeStatus(o, to, by) ==
  /\ MayChangeStatus(order[o], to, by)
  /\ by = "system" => due[o]
  /\ Write(o, ChangedStatus(order[o], to, by), FALSE)

PaymentHeld(o) ==
  /\ AwaitingPayment(order[o])
  /\ Write(o, Held(order[o]), due[o])

PaymentLoses(o) ==
  /\ AwaitingPayment(order[o]) /\ order[o].status \notin Terminal
  /\ Write(o, PaymentLost(order[o]), due[o])

(* The record of a slow capture may come after the order was closed. *)
PaymentRecorded(o, state) ==
  /\ MayRecord(order[o], state)
  /\ Write(o, Recorded(order[o], state), due[o])

AssignCourier(o, c) ==
  /\ MayAssign(order[o])
  /\ order[o].type = "delivery" /\ order[o].status # "created"
  /\ Write(o, Assigned(order[o], c), FALSE)

SetPreparationTime(o) ==
  /\ order[o].status \notin {"created", "rejected"}
  /\ Write(o, order[o], due[o])

RestartSearch(o) ==
  /\ MayRestartSearch(order[o])
  /\ Write(o, Searching(order[o]), FALSE)

EnsureDeadline(o, late) ==
  /\ MissesDeadline(order[o])
  /\ Write(o, Searching(order[o]), late)

MarkNotFound(o) ==
  /\ CourierSearchExpired(order[o], due[o])
  /\ Write(o, MarkedNotFound(order[o]), FALSE)

DeadlinePasses(o) ==
  /\ order[o].deadline /\ ~due[o]
  /\ due' = [due EXCEPT ![o] = TRUE]
  /\ UNCHANGED order

Operation(o) ==
  \/ \E to \in Status, by \in Actor : ChangeStatus(o, to, by)
  \/ PaymentHeld(o)
  \/ PaymentLoses(o)
  \/ \E state \in Pay : PaymentRecorded(o, state)
  \/ \E c \in Courier : AssignCourier(o, c)
  \/ SetPreparationTime(o)
  \/ RestartSearch(o)
  \/ \E late \in BOOLEAN : EnsureDeadline(o, late)
  \/ MarkNotFound(o)
  \/ DeadlinePasses(o)

Next == \E o \in Order : Operation(o)

Spec == Init /\ [][Next]_vars

-----------------------------------------------------------------------------
TypeOK == order \in [Order -> Row] /\ due \in [Order -> BOOLEAN]

(* No card or wallet order is beyond "created" unless its money is held or *)
(* taken (the gate in ChangeStatus, service.go:601-612).                   *)
PaidBeforeKitchen ==
  \A o \in Order :
    RequiresPrepayment(order[o].method) /\ order[o].status \in Kitchen
      => order[o].pay \in Settled

(* The search fields tell the truth about the order: a deadline is set     *)
(* exactly while a ready order waits for a courier or for the restaurant's *)
(* decision, "not found" never stays on an order that has a courier, and   *)
(* an order waiting for a courier never shows that nobody looks for one    *)
(* (dispatch_state.go:100-104; rows older than the columns excepted).      *)
SearchIsConsistent ==
  \A o \in Order : SearchConsistent(order[o]) /\ (due[o] => order[o].deadline)

(* Food leaves the restaurant only with a courier on the order.            *)
CourierBeforePickup ==
  \A o \in Order : order[o].status \in {"picked_up", "delivered"}
                     => order[o].courier # None

(* A closed order is never reopened and gets no courier any more; a        *)
(* courier is never replaced or taken off an order.                        *)
ClosedIsFinal ==
  [][\A o \in Order :
       /\ order[o].status \in Terminal =>
            order'[o].status = order[o].status /\ order'[o].courier = order[o].courier
       /\ order[o].courier # None => order'[o].courier = order[o].courier]_vars

(* A ready order that waits for a courier is closed by the system only     *)
(* after "not found" stood for its whole window, and by the restaurant only*)
(* while it stands (statemachine.go:143-164, dispatch_state.go:190-196).   *)
NoHastyCancel ==
  [][\A o \in Order :
       /\ order[o].status = "ready" /\ order'[o].status = "cancelled"
       /\ order[o].type = "delivery" /\ order'[o].by # "admin"
       => /\ order[o].courier = None /\ order[o].dispatch = "not_found"
          /\ order'[o].by = "system" => due[o]]_vars

(* The History entry of a lost payment says it was "created" that was      *)
(* cancelled (service.go:559-561): every step on the status machine, and   *)
(* the lost payment, starts where its entry says.                          *)
HistoryIsTrue ==
  [][\A o \in Order :
       order'[o].status # order[o].status =>
         \/ <<order[o].status, order'[o].status, order'[o].by>> \in Edges(order[o].type)
         \/ <<order[o].status, order'[o].status, order'[o].by>>
              = <<"created", "cancelled", "system">>]_vars
=============================================================================
