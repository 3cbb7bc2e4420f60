------------------------------- MODULE Orders -------------------------------
(***************************************************************************)
(* orders.Service over the orders table.  Every operation reads the row,   *)
(* checks its rules on that copy, changes the copy and saves it; the save  *)
(* is a compare-and-swap on version (storage.PgOrderRepo.Save), so a copy  *)
(* that went stale is read again (at most MaxAttempts saves) or the call   *)
(* ends.  ChangeStatus then moves the money and records the outcome with   *)
(* further saves of its own.                                               *)
(*                                                                         *)
(* Handlers are the goroutines that serve HTTP requests, payment callbacks *)
(* and finished courier searches; Watchdog is the goroutine that watches   *)
(* the search deadlines.  They interleave at every database access, may    *)
(* fail at any of them, and all die when the process does.                 *)
(***************************************************************************)
EXTENDS OrderRules

CONSTANTS Order,        \* orders in the table
          Handler,      \* goroutines working on behalf of callers
          Watchdog,     \* the dispatch watchdog goroutine
          MaxAttempts,  \* maxOptimisticRetries
          MaxVersion    \* bound: no call starts on a row this old

ASSUME WatchdogIsNoHandler == Watchdog \notin Handler
ASSUME MaxAttemptsPositive == MaxAttempts \in Nat \ {0}

VARIABLES row,   \* the orders table
          due,   \* due[o]: the clock is past o's dispatch_deadline
          job    \* what each goroutine is doing

vars == <<row, due, job>>

Process == Handler \cup {Watchdog}

-----------------------------------------------------------------------------
(* Calls *)

Op == {"change", "held", "failed", "assign", "prepare", "restart",
       "ensure", "not_found", "auto_cancel"}

Call == [op : Op, order : Order, to : Status \cup {None},
         by : Actor \cup {None}, courier : Courier \cup {None}]

Plain(op, o) == [op |-> op, order |-> o, to |-> None, by |-> None, courier |-> None]
Change(o, to, by) == [Plain("change", o) EXCEPT !.to = to, !.by = by]
Assign(o, c) == [Plain("assign", o) EXCEPT !.courier = c]

HandlerCall ==
  {Change(o, to, by) : o \in Order, to \in Status, by \in Actor \ {"system"}}
    \cup {Assign(o, c) : o \in Order, c \in Courier}
    \cup {Plain(op, o) : op \in {"held", "failed", "prepare", "restart"}, o \in Order}

WatchdogCall ==
  {Plain(op, o) : op \in {"ensure", "not_found", "auto_cancel"}, o \in Order}

(* The operation's own checks, on the row it read. *)
Accepts(c, o, late) ==
  \/ c.op = "change" /\ MayChangeStatus(o, c.to, c.by)
  \/ c.op = "held" /\ o.pay \notin Settled
  \/ c.op = "failed" /\ o.pay \notin Settled /\ o.status \notin Terminal
  \/ c.op = "assign" /\ MayAssign(o)
  \/ c.op = "prepare"
  \/ c.op = "restart" /\ MayRestartSearch(o)
  \/ c.op = "ensure" /\ MissesDeadline(o)
  \/ c.op = "not_found" /\ CourierSearchExpired(o, late)
  \/ c.op = "auto_cancel" /\ CourierNotFoundExpired(o, late)

(* When the rest of the backend makes the call: payment news only for a    *)
(* prepaid order, a courier only after a search, the preparation time only *)
(* after an accept.                                                        *)
Issued(c, o) ==
  /\ c.op \in {"held", "failed"} => RequiresPrepayment(o.method)
  /\ c.op = "assign" => o.type = "delivery" /\ o.status # "created"
  /\ c.op = "prepare" => o.status \notin {"created", "rejected"}

(* These loop on ErrConflict; OnPaymentHeld and OnPaymentFailed return it. *)
Retries(op) == op \notin {"held", "failed"}

-----------------------------------------------------------------------------
(* Goroutines.  "save": holds a checked copy; "cancel": the auto-cancel    *)
(* between its own read and ChangeStatus; "gateway": a status is saved,    *)
(* the money is not moved yet; "persist": it has moved and the new payment *)
(* state must be saved; "cashback": delivered or served, cashback not      *)
(* given yet.                                                              *)

Idle == [pc |-> "idle"]
Busy == [pc : {"save", "cancel", "gateway", "persist", "cashback"},
         call : Call, snap : Row, tries : 0..MaxAttempts]
At(pc, c, snap, tries) == [pc |-> pc, call |-> c, snap |-> snap, tries |-> tries]

TypeOK ==
  /\ row \in [Order -> Row]
  /\ due \in [Order -> BOOLEAN]
  /\ job \in [Process -> {Idle} \cup Busy]

Init ==
  /\ row \in [Order -> InitialRow]
  /\ due = [o \in Order |-> FALSE]
  /\ job = [p \in Process |-> Idle]

Become(p, j) == job' = [job EXCEPT ![p] = j]

(* Mutant: a save without the version condition. *)
AlwaysFresh(p) == TRUE

(* Save's WHERE orders.version = EXCLUDED.version *)
Fresh(p) == job[p].snap.version = row[job[p].call.order].version
Saving(p, op) == job[p].pc = "save" /\ job[p].call.op = op /\ Fresh(p)

Save(p, new) == row' = [row EXCEPT ![job[p].call.order] = Written(new)]
Clock(p, late) == due' = [due EXCEPT ![job[p].call.order] = late]

-----------------------------------------------------------------------------
(* A call reads the row; one that fails its checks has no effect. *)
Read(p, c) ==
  /\ job[p] = Idle
  /\ Issued(c, row[c.order])
  /\ Accepts(c, row[c.order], due[c.order])
  /\ Become(p, At(IF c.op = "auto_cancel" THEN "cancel" ELSE "save",
                  c, row[c.order], 1))
  /\ UNCHANGED <<row, due>>

HandlerRead(p) ==
  \E c \in HandlerCall : row[c.order].version < MaxVersion /\ Read(p, c)

WatchdogRead == \E c \in WatchdogCall : Read(Watchdog, c)

(* AutoCancelCourierNotFound calls ChangeStatus, which reads again. *)
AutoCancel(p) ==
  /\ job[p].pc = "cancel"
  /\ LET c == Change(job[p].call.order, "cancelled", "system")
         o == row[c.order]
     IN Become(p, IF MayChangeStatus(o, c.to, c.by) THEN At("save", c, o, 1) ELSE Idle)
  /\ UNCHANGED <<row, due>>

(* Mutant: one attempt too many. *)
ConflictOnceMore(p) ==
  /\ job[p].pc = "save" /\ ~Fresh(p)
  /\ LET c == job[p].call
         o == row[c.order]
     IN Become(p, IF /\ Retries(c.op) /\ job[p].tries <= MaxAttempts
                     /\ Accepts(c, o, due[c.order])
                  THEN At("save", c, o, job[p].tries + 1) ELSE Idle)
  /\ UNCHANGED <<row, due>>

(* ErrConflict: read and check again, or give up. *)
Conflict(p) ==
  /\ job[p].pc = "save" /\ ~Fresh(p)
  /\ LET c == job[p].call
         o == row[c.order]
     IN Become(p, IF /\ Retries(c.op) /\ job[p].tries < MaxAttempts
                     /\ Accepts(c, o, due[c.order])
                  THEN At("save", c, o, job[p].tries + 1) ELSE Idle)
  /\ UNCHANGED <<row, due>>

-----------------------------------------------------------------------------
(* ChangeStatus saves, then settles the payment or gives the cashback. *)

MustMoveMoney(o) ==
  \/ o.method = "card" /\ o.status = "accepted" /\ o.pay = "held"
  \/ o.method = "card" /\ o.status \in {"rejected", "cancelled"} /\ o.pay \in Settled
  \/ o.method = "wallet" /\ o.status \in {"rejected", "cancelled"} /\ o.pay = "paid"

PayAfter(o) == IF o.status = "accepted" THEN "paid"
               ELSE IF o.pay = "paid" THEN "refunded" ELSE "failed"

AfterStatus(c, o) ==
  IF MustMoveMoney(o) THEN At("gateway", c, o, 0)
  ELSE IF o.status \in {"delivered", "served"} THEN At("cashback", c, o, 0)
  ELSE Idle

ChangeStatus(p) ==
  /\ Saving(p, "change")
  /\ LET c == job[p].call
         new == ChangedStatus(job[p].snap, c.to, c.by)
     IN Save(p, new) /\ Become(p, AfterStatus(c, Written(new)))
  /\ Clock(p, FALSE)

MoneyMoved(p) ==
  /\ job[p].pc = "gateway"
  /\ Become(p, At("persist", job[p].call, Recorded(job[p].snap, PayAfter(job[p].snap)), 1))
  /\ UNCHANGED <<row, due>>

PersistPaymentState(p) ==
  /\ job[p].pc = "persist" /\ Fresh(p)
  /\ Save(p, job[p].snap)
  /\ Become(p, Idle)
  /\ UNCHANGED due

(* Mutant: the old copy is saved again, with the new version. *)
PersistOldCopy(p) ==
  /\ job[p].pc = "persist" /\ ~Fresh(p)
  /\ Become(p, [job[p] EXCEPT !.snap.version = row[job[p].call.order].version])
  /\ UNCHANGED <<row, due>>

(* persistPaymentState puts its state on the row it reads again. *)
PersistConflict(p) ==
  /\ job[p].pc = "persist" /\ ~Fresh(p)
  /\ LET j == job[p]
     IN Become(p, IF j.tries < MaxAttempts
                  THEN At("persist", j.call, Recorded(row[j.call.order], j.snap.pay), j.tries + 1)
                  ELSE Idle)
  /\ UNCHANGED <<row, due>>

CreditCashback(p) ==
  /\ job[p].pc = "cashback"
  /\ Become(p, Idle)
  /\ UNCHANGED <<row, due>>

-----------------------------------------------------------------------------
(* The other operations save once and return. *)

OnPaymentHeld(p) ==
  /\ Saving(p, "held")
  /\ Save(p, Held(job[p].snap)) /\ Become(p, Idle) /\ UNCHANGED due

OnPaymentFailed(p) ==
  /\ Saving(p, "failed")
  /\ Save(p, PaymentLost(job[p].snap)) /\ Become(p, Idle) /\ UNCHANGED due

AssignCourier(p) ==
  /\ Saving(p, "assign")
  /\ Save(p, Assigned(job[p].snap, job[p].call.courier))
  /\ Become(p, Idle) /\ Clock(p, FALSE)

(* Writes only fields no rule reads, but the version moves on. *)
SetPreparationTime(p) ==
  /\ Saving(p, "prepare")
  /\ Save(p, job[p].snap) /\ Become(p, Idle) /\ UNCHANGED due

RestartCourierSearch(p) ==
  /\ Saving(p, "restart")
  /\ Save(p, Searching(job[p].snap)) /\ Become(p, Idle) /\ Clock(p, FALSE)

(* Counts from the moment the order became ready: may be long ago. *)
EnsureCourierSearchDeadline(p) ==
  /\ Saving(p, "ensure")
  /\ Save(p, Searching(job[p].snap)) /\ Become(p, Idle)
  /\ \E late \in BOOLEAN : Clock(p, late)

MarkCourierNotFound(p) ==
  /\ Saving(p, "not_found")
  /\ Save(p, MarkedNotFound(job[p].snap)) /\ Become(p, Idle) /\ Clock(p, FALSE)

-----------------------------------------------------------------------------
(* A database or provider error ends the call where it stands. *)
Abandon(p) ==
  /\ job[p] # Idle
  /\ Become(p, Idle)
  /\ UNCHANGED <<row, due>>

Crash ==
  /\ \E p \in Process : job[p] # Idle
  /\ job' = [p \in Process |-> Idle]
  /\ UNCHANGED <<row, due>>

DeadlinePasses(o) ==
  /\ row[o].deadline /\ ~due[o]
  /\ due' = [due EXCEPT ![o] = TRUE]
  /\ UNCHANGED <<row, job>>

Step(p) ==
  \/ AutoCancel(p) \/ Conflict(p) \/ ChangeStatus(p)
  \/ MoneyMoved(p) \/ PersistPaymentState(p) \/ PersistConflict(p) \/ CreditCashback(p)
  \/ OnPaymentHeld(p) \/ OnPaymentFailed(p) \/ AssignCourier(p) \/ SetPreparationTime(p)
  \/ RestartCourierSearch(p) \/ EnsureCourierSearchDeadline(p) \/ MarkCourierNotFound(p)

Next ==
  \/ \E p \in Handler : HandlerRead(p)
  \/ WatchdogRead
  \/ \E p \in Process : Step(p) \/ Abandon(p)
  \/ Crash
  \/ \E o \in Order : DeadlinePasses(o)

Spec == Init /\ [][Next]_vars

-----------------------------------------------------------------------------
(* Properties.  The promises are those of OrderLifecycle, on the table. *)
Lifecycle == INSTANCE OrderLifecycle WITH order <- row

(* Every operation on a possibly stale copy takes effect as one step on    *)
(* the current row, or not at all (service.go:582-591, postgres.go:68-77). *)
ImplementsLifecycle == Lifecycle!Spec

(* A prepaid order is cooked only when its money is held or taken.         *)
PaidBeforeKitchen == Lifecycle!PaidBeforeKitchen

(* The search fields of a row agree with its status and its courier.       *)
SearchIsConsistent == Lifecycle!SearchIsConsistent

(* Food leaves the restaurant only with a courier on the order.            *)
CourierBeforePickup == Lifecycle!CourierBeforePickup

(* No stale copy reopens a closed order or replaces a courier.             *)
ClosedIsFinal == Lifecycle!ClosedIsFinal

(* Neither the watchdog nor the restaurant cancels a ready order before its*)
(* search has failed and, the system, before the last window has passed.   *)
NoHastyCancel == Lifecycle!NoHastyCancel

(* Each History entry is written by a step from the status it names.       *)
HistoryIsTrue == Lifecycle!HistoryIsTrue
=============================================================================
