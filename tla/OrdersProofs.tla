---------------------------- MODULE OrdersProofs ----------------------------
(***************************************************************************)
(* Proofs about orders.Service: what its runs check holds for any number   *)
(* of orders, goroutines and couriers and any number of retries.           *)
(*                                                                         *)
(* First what the rules do to one row: Good is what every row of the table *)
(* satisfies; each operation, applied under its own checks, maps a good row*)
(* to a good one, and keeps of it what Evolves says.  The lemmas serve the *)
(* abstract life cycle, where the operation is applied to the row itself,  *)
(* and the service, where it is applied to a copy.                         *)
(*                                                                         *)
(* Then the argument: every row is good, and every goroutine that is not   *)
(* idle is sound: its copy is no newer than the row, and as long as the    *)
(* version still matches the copy is the row and the checks made on the    *)
(* copy hold of the row.  A write makes every other copy of that row stale,*)
(* so it cannot break the soundness of another goroutine but for what is   *)
(* known without the copy; those facts survive whatever Evolves allows.    *)
(***************************************************************************)
EXTENDS Orders, TLAPS

-----------------------------------------------------------------------------
(* What the rules do to one row *)

Good(r, late) ==
  /\ r \in Row /\ late \in BOOLEAN
  /\ RequiresPrepayment(r.method) /\ r.status \in Kitchen => r.pay \in Settled
  /\ SearchConsistent(r)
  /\ late => r.deadline
  /\ r.status \in {"picked_up", "delivered"} => r.courier # None

(* What any operation keeps of a row: used by clients that hold an old copy*)
Evolves(r, s) ==
  /\ s \in Row
  /\ s.version = r.version + 1
  /\ s.type = r.type /\ s.method = r.method
  /\ r.status # "created" => s.status # "created"
  /\ r.status \notin {"created", "rejected"} => s.status \notin {"created", "rejected"}
  /\ r.status \in Terminal => s.status = r.status /\ s.courier = r.courier
  /\ r.courier # None => s.courier = r.courier

-----------------------------------------------------------------------------
(* Every row CreateExpecting inserts, and every row older than the search   *)
(* fields, is good (service.go:360-471).                                    *)
LEMMA InitialRowsGood == ASSUME NEW r \in InitialRow PROVE Good(r, FALSE)
<1> USE DEF Good, Row, Method, Status, Actor, Pay, Dispatch, Type, RequiresPrepayment,
            Kitchen, SearchConsistent, AwaitsCourier, Settled
<1>1. CASE r = LegacyRow
  BY <1>1, NoneIsNoCourier DEF LegacyRow
<1>2. ASSUME NEW t \in Type, NEW m \in Method, r = NewRow(t, m) PROVE Good(r, FALSE)
  <2>1. FirstPay(m) \in Pay /\ (m # "cash" => FirstPay(m) \in Pay)
    BY DEF FirstPay
  <2>2. QED
    BY <1>2, <2>1, NoneIsNoCourier DEF NewRow
<1>3. QED
  BY <1>1, <1>2 DEF InitialRow

(* applyDispatchPolicy yields a row (dispatch_state.go:105-122).            *)
LEMMA PolicyKeepsRow == ASSUME NEW m \in Row PROVE DispatchPolicy(m) \in Row
<1>1. [m EXCEPT !.deadline = FALSE] \in Row
  BY DEF Row
<1>2. [m EXCEPT !.dispatch = "searching", !.deadline = FALSE] \in Row
  BY DEF Row, Dispatch
<1>3. [m EXCEPT !.dispatch = "searching", !.deadline = TRUE] \in Row
  BY DEF Row, Dispatch
<1>4. QED
  BY <1>1, <1>2, <1>3 DEF DispatchPolicy

(* What applyDispatchPolicy leaves alone, and what it makes of the search   *)
(* fields in each of its cases (dispatch_state.go:105-122).                 *)
LEMMA PolicyFields ==
  ASSUME NEW m \in Row
  PROVE  LET n == DispatchPolicy(m) IN
         /\ n.type = m.type /\ n.method = m.method /\ n.status = m.status /\ n.by = m.by
         /\ n.pay = m.pay /\ n.courier = m.courier /\ n.version = m.version
         /\ m.type = "dine_in" => n.dispatch = m.dispatch /\ n.deadline = m.deadline
         /\ m.type # "dine_in" /\ m.status \in Terminal
              => n.dispatch = m.dispatch /\ n.deadline = FALSE
         /\ m.type # "dine_in" /\ m.status \notin Terminal /\ m.courier # None
              => n.dispatch = m.dispatch /\ n.deadline = m.deadline
         /\ m.type # "dine_in" /\ m.courier = None /\ m.status = "accepted"
              => n.dispatch = "searching" /\ n.deadline = FALSE
         /\ m.type # "dine_in" /\ m.courier = None /\ m.status = "ready"
              => n.dispatch = "searching" /\ n.deadline = TRUE
         /\ m.type # "dine_in" /\ m.status \notin Terminal \cup {"accepted", "ready"}
              => n.dispatch = m.dispatch /\ n.deadline = m.deadline
BY DEF DispatchPolicy, Row, Terminal

(* The edges a delivery and a dine-in order can take, by their source.     *)
LEMMA EdgeShape ==
  ASSUME NEW r \in Row, NEW to \in Status, NEW by \in Actor, ValidOrderTransition(r, to, by)
  PROVE  /\ r.status \notin Terminal
         /\ to = "accepted" => r.status = "created"
         /\ to = "rejected" => r.status = "created"
         /\ to = "preparing" => r.status = "accepted"
         /\ to = "ready" => r.status = "preparing"
         /\ to = "picked_up" => r.status = "ready" /\ r.type = "delivery"
         /\ to = "delivered" => r.status = "picked_up" /\ r.type = "delivery"
         /\ to = "served" => r.status = "ready" /\ r.type = "dine_in"
         /\ to # "created"
BY DEF ValidOrderTransition, Edges, CommonEdges, DeliveryEdges, DineInEdges, Row, Type, Terminal

(* ChangeStatus, when its checks pass on a good row, yields a good row with *)
(* no passed deadline (service.go:592-636).                                 *)
LEMMA ChangeGood ==
  ASSUME NEW r, NEW late, Good(r, late), NEW to \in Status, NEW by \in Actor,
         MayChangeStatus(r, to, by)
  PROVE  /\ Good(Written(ChangedStatus(r, to, by)), FALSE)
         /\ Evolves(r, Written(ChangedStatus(r, to, by)))
<1> DEFINE m == [r EXCEPT !.status = to, !.by = by]
           n == DispatchPolicy(m)
           s == Written(n)
<1>1. r \in Row
  BY DEF Good
<1>2. /\ m \in Row /\ m.type = r.type /\ m.method = r.method /\ m.status = to
      /\ m.pay = r.pay /\ m.courier = r.courier /\ m.dispatch = r.dispatch
      /\ m.deadline = r.deadline /\ m.version = r.version
  BY <1>1 DEF Row
<1>3. n \in Row
  BY <1>2, PolicyKeepsRow
<1>4. /\ s \in Row /\ s.version = n.version + 1 /\ s.type = n.type /\ s.method = n.method
      /\ s.status = n.status /\ s.pay = n.pay /\ s.courier = n.courier
      /\ s.dispatch = n.dispatch /\ s.deadline = n.deadline
  BY <1>3 DEF Written, Row
<1>5. Evolves(r, s)
  <2> HIDE DEF m, n, s
  <2>1. s.type = r.type /\ s.method = r.method /\ s.status = to
        /\ s.courier = r.courier /\ s.version = r.version + 1
    BY <1>2, <1>4, PolicyFields DEF n
  <2>2. to # "created" /\ (to = "rejected" => r.status = "created") /\ r.status \notin Terminal
    BY <1>1, EdgeShape DEF MayChangeStatus
  <2>3. QED
    BY <2>1, <2>2, <1>4 DEF Evolves, Terminal
<1>6. Good(s, FALSE)
  <2> HIDE DEF m, n, s
  <2>1. /\ s.type = r.type /\ s.method = r.method /\ s.status = to
        /\ s.courier = r.courier /\ s.pay = r.pay
    BY <1>2, <1>4, PolicyFields DEF n
  <2>2. RequiresPrepayment(s.method) /\ s.status \in Kitchen => s.pay \in Settled
    BY <2>1 DEF MayChangeStatus, AwaitingPayment, Kitchen
  <2>3. s.status \in {"picked_up", "delivered"} => s.courier # None
    BY <2>1, <1>1, EdgeShape DEF MayChangeStatus, Good
  <2>4. SearchConsistent(s)
    <3>1. SearchConsistent(r)
      BY DEF Good
    <3>2. r.type \in Type /\ r.status \in Status /\ r.courier \in Courier \cup {None}
          /\ r.dispatch \in Dispatch /\ r.deadline \in BOOLEAN
      BY <1>1 DEF Row
    <3>a. /\ r.type = "dine_in" => s.dispatch = r.dispatch /\ s.deadline = r.deadline
          /\ r.type # "dine_in" /\ to \in Terminal
               => s.dispatch = r.dispatch /\ s.deadline = FALSE
          /\ r.type # "dine_in" /\ to \notin Terminal /\ r.courier # None
               => s.dispatch = r.dispatch /\ s.deadline = r.deadline
          /\ r.type # "dine_in" /\ r.courier = None /\ to = "accepted"
               => s.dispatch = "searching" /\ s.deadline = FALSE
          /\ r.type # "dine_in" /\ r.courier = None /\ to = "ready"
               => s.dispatch = "searching" /\ s.deadline = TRUE
          /\ r.type # "dine_in" /\ to \notin Terminal \cup {"accepted", "ready"}
               => s.dispatch = r.dispatch /\ s.deadline = r.deadline
      BY <1>2, <1>4, PolicyFields DEF n
    <3>b. /\ r.status \notin Terminal
          /\ to = "accepted" => r.status = "created"
          /\ to = "preparing" => r.status = "accepted"
          /\ to = "ready" => r.status = "preparing"
          /\ to = "picked_up" => r.status = "ready" /\ r.courier # None
          /\ to = "rejected" => r.status = "created"
          /\ to = "delivered" => r.status = "picked_up"
          /\ to = "served" => r.type = "dine_in"
      BY <1>1, EdgeShape DEF MayChangeStatus
    <3>3. CASE to \in Terminal
      BY <3>1, <3>2, <3>a, <3>b, <3>3, <2>1
         DEF SearchConsistent, AwaitsCourier, Terminal, Type
    <3>4. CASE to = "accepted"
      BY <3>1, <3>2, <3>a, <3>b, <3>4, <2>1
         DEF SearchConsistent, AwaitsCourier, Terminal, Type
    <3>5. CASE to = "preparing"
      BY <3>1, <3>2, <3>a, <3>b, <3>5, <2>1
         DEF SearchConsistent, AwaitsCourier, Terminal, Type
    <3>6. CASE to = "ready"
      BY <3>1, <3>2, <3>a, <3>b, <3>6, <2>1
         DEF SearchConsistent, AwaitsCourier, Terminal, Type
    <3>7. CASE to = "picked_up"
      BY <3>1, <3>2, <3>a, <3>b, <3>7, <2>1
         DEF SearchConsistent, AwaitsCourier, Terminal, Type
    <3>8. to # "created"
      BY <1>1, EdgeShape DEF MayChangeStatus
    <3>9. QED
      BY <3>3, <3>4, <3>5, <3>6, <3>7, <3>8 DEF Status, Terminal
  <2>5. QED
    BY <1>4, <2>2, <2>3, <2>4 DEF Good
<1>7. QED
  BY <1>5, <1>6 DEF ChangedStatus

-----------------------------------------------------------------------------
(* The other operations change few fields: their lemmas name the new       *)
(* row's fields first and then judge them.                                 *)

(* A save changes the version and nothing else (postgres.go:154).           *)
LEMMA WrittenFields ==
  ASSUME NEW m \in Row
  PROVE  /\ Written(m) \in Row /\ Written(m).version = m.version + 1
         /\ Written(m).type = m.type /\ Written(m).method = m.method
         /\ Written(m).status = m.status /\ Written(m).by = m.by
         /\ Written(m).pay = m.pay /\ Written(m).courier = m.courier
         /\ Written(m).dispatch = m.dispatch /\ Written(m).deadline = m.deadline
BY DEF Written, Row

(* SetPreparationTime changes nothing a rule reads (service.go:795-827).    *)
LEMMA TouchGood ==
  ASSUME NEW r, NEW late, Good(r, late)
  PROVE  Good(Written(r), late) /\ Evolves(r, Written(r))
<1>1. /\ Written(r) \in Row /\ Written(r).version = r.version + 1
      /\ Written(r).type = r.type /\ Written(r).method = r.method
      /\ Written(r).status = r.status /\ Written(r).pay = r.pay /\ Written(r).courier = r.courier
      /\ Written(r).dispatch = r.dispatch /\ Written(r).deadline = r.deadline
  BY DEF Good, Written, Row
<1>2. QED
  BY <1>1 DEF Good, Evolves, SearchConsistent, AwaitsCourier

(* OnPaymentHeld keeps a row good (service.go:525-543).                     *)
LEMMA HeldGood ==
  ASSUME NEW r, NEW late, Good(r, late)
  PROVE  Good(Written(Held(r)), late) /\ Evolves(r, Written(Held(r)))
<1> DEFINE m == Held(r)
           s == Written(m)
<1>1. r \in Row
  BY DEF Good
<1>2. /\ m \in Row /\ m.version = r.version
      /\ m.type = r.type /\ m.method = r.method
      /\ m.status = r.status /\ m.pay = "held" /\ m.courier = r.courier
      /\ m.dispatch = r.dispatch /\ m.deadline = r.deadline
  BY <1>1 DEF Held, Row, Pay
<1>3. /\ s \in Row /\ s.version = r.version + 1
      /\ s.type = r.type /\ s.method = r.method
      /\ s.status = r.status /\ s.pay = "held" /\ s.courier = r.courier
      /\ s.dispatch = r.dispatch /\ s.deadline = r.deadline
  <2> HIDE DEF m
  <2> QED
    BY <1>1, <1>2, WrittenFields DEF Row
<1>4. Good(s, late) /\ Evolves(r, s)
  <2> HIDE DEF m, s
  <2> QED
    BY <1>3 DEF Good, Evolves, SearchConsistent, AwaitsCourier, Settled
<1>5. QED
  BY <1>4

(* Only an order whose money is not there yet loses it: it is still        *)
(* "created", so no search fields are set.                                 *)
LEMMA LostGood ==
  ASSUME NEW r, NEW late, Good(r, late), AwaitingPayment(r), r.status \notin Terminal
  PROVE  /\ Good(Written(PaymentLost(r)), late) /\ Evolves(r, Written(PaymentLost(r)))
         /\ r.status = "created"
<1> DEFINE m == PaymentLost(r)
           s == Written(m)
<1>1. r \in Row
  BY DEF Good
<1>2. /\ m \in Row /\ m.version = r.version
      /\ m.type = r.type /\ m.method = r.method
      /\ m.status = "cancelled" /\ m.pay = "failed" /\ m.courier = r.courier
      /\ m.dispatch = r.dispatch /\ m.deadline = r.deadline
  BY <1>1 DEF PaymentLost, Row, Pay, Status, Actor
<1>3. /\ s \in Row /\ s.version = r.version + 1
      /\ s.type = r.type /\ s.method = r.method
      /\ s.status = "cancelled" /\ s.pay = "failed" /\ s.courier = r.courier
      /\ s.dispatch = r.dispatch /\ s.deadline = r.deadline
  <2> HIDE DEF m
  <2> QED
    BY <1>1, <1>2, WrittenFields DEF Row
<1>4. r.status = "created"
  BY DEF Good, AwaitingPayment, Kitchen, Terminal, Row, Status
<1>5. Good(s, late) /\ Evolves(r, s)
  <2> HIDE DEF m, s
  <2> QED
    BY <1>3, <1>4 DEF Good, Evolves, SearchConsistent, AwaitsCourier, Terminal, Kitchen
<1>6. QED
  BY <1>4, <1>5

(* A state other than "paid" is recorded only on a closed order.           *)
LEMMA RecordedGood ==
  ASSUME NEW r, NEW late, Good(r, late), NEW state \in Pay,
         state = "paid" \/ r.status \in {"rejected", "cancelled"}
  PROVE  Good(Written(Recorded(r, state)), late) /\ Evolves(r, Written(Recorded(r, state)))
<1> DEFINE m == Recorded(r, state)
           s == Written(m)
<1>1. r \in Row
  BY DEF Good
<1>2. /\ m \in Row /\ m.version = r.version
      /\ m.type = r.type /\ m.method = r.method
      /\ m.status = r.status /\ m.pay = state /\ m.courier = r.courier
      /\ m.dispatch = r.dispatch /\ m.deadline = r.deadline
  BY <1>1 DEF Recorded, Row
<1>3. /\ s \in Row /\ s.version = r.version + 1
      /\ s.type = r.type /\ s.method = r.method
      /\ s.status = r.status /\ s.pay = state /\ s.courier = r.courier
      /\ s.dispatch = r.dispatch /\ s.deadline = r.deadline
  <2> HIDE DEF m
  <2> QED
    BY <1>1, <1>2, WrittenFields DEF Row
<1>4. Good(s, late) /\ Evolves(r, s)
  <2> HIDE DEF m, s
  <2> QED
    BY <1>3 DEF Good, Evolves, SearchConsistent, AwaitsCourier, Settled, Kitchen
<1>5. QED
  BY <1>4

(* AssignCourier keeps a row good (service.go:830-859).                     *)
LEMMA AssignedGood ==
  ASSUME NEW r, NEW late, Good(r, late), NEW c \in Courier,
         MayAssign(r), r.type = "delivery", r.status # "created"
  PROVE  Good(Written(Assigned(r, c)), FALSE) /\ Evolves(r, Written(Assigned(r, c)))
<1> DEFINE m == Assigned(r, c)
           s == Written(m)
<1>1. r \in Row
  BY DEF Good
<1>2. /\ m \in Row /\ m.version = r.version
      /\ m.type = r.type /\ m.method = r.method
      /\ m.status = r.status /\ m.pay = r.pay /\ m.courier = c
      /\ m.dispatch = "none" /\ m.deadline = FALSE
  BY <1>1 DEF Assigned, Row, Dispatch
<1>3. /\ s \in Row /\ s.version = r.version + 1
      /\ s.type = r.type /\ s.method = r.method
      /\ s.status = r.status /\ s.pay = r.pay /\ s.courier = c
      /\ s.dispatch = "none" /\ s.deadline = FALSE
  <2> HIDE DEF m
  <2> QED
    BY <1>1, <1>2, WrittenFields DEF Row
<1>4. Good(s, FALSE) /\ Evolves(r, s)
  <2> HIDE DEF m, s
  <2> QED
    BY <1>3, NoneIsNoCourier
       DEF Good, Evolves, SearchConsistent, AwaitsCourier, MayAssign
<1>5. QED
  BY <1>4

(* RestartCourierSearch and EnsureCourierSearchDeadline keep a row good     *)
(* (dispatch_state.go:156-188).                                             *)
LEMMA SearchingGood ==
  ASSUME NEW r, NEW late, Good(r, late), NEW later \in BOOLEAN,
         r.status = "ready", AwaitsCourier(r)
  PROVE  Good(Written(Searching(r)), later) /\ Evolves(r, Written(Searching(r)))
<1> DEFINE m == Searching(r)
           s == Written(m)
<1>1. r \in Row
  BY DEF Good
<1>2. /\ m \in Row /\ m.version = r.version
      /\ m.type = r.type /\ m.method = r.method
      /\ m.status = r.status /\ m.pay = r.pay /\ m.courier = r.courier
      /\ m.dispatch = "searching" /\ m.deadline = TRUE
  BY <1>1 DEF Searching, Row, Dispatch
<1>3. /\ s \in Row /\ s.version = r.version + 1
      /\ s.type = r.type /\ s.method = r.method
      /\ s.status = r.status /\ s.pay = r.pay /\ s.courier = r.courier
      /\ s.dispatch = "searching" /\ s.deadline = TRUE
  <2> HIDE DEF m
  <2> QED
    BY <1>1, <1>2, WrittenFields DEF Row
<1>4. Good(s, later) /\ Evolves(r, s)
  <2> HIDE DEF m, s
  <2> QED
    BY <1>3 DEF Good, Evolves, SearchConsistent, AwaitsCourier
<1>5. QED
  BY <1>4

(* MarkCourierNotFound keeps a row good (dispatch_state.go:141-151).        *)
LEMMA MarkedGood ==
  ASSUME NEW r, NEW late, Good(r, late), r.status = "ready", AwaitsCourier(r)
  PROVE  Good(Written(MarkedNotFound(r)), FALSE) /\ Evolves(r, Written(MarkedNotFound(r)))
<1> DEFINE m == MarkedNotFound(r)
           s == Written(m)
<1>1. r \in Row
  BY DEF Good
<1>2. /\ m \in Row /\ m.version = r.version
      /\ m.type = r.type /\ m.method = r.method
      /\ m.status = r.status /\ m.pay = r.pay /\ m.courier = r.courier
      /\ m.dispatch = "not_found" /\ m.deadline = TRUE
  BY <1>1 DEF MarkedNotFound, Row, Dispatch
<1>3. /\ s \in Row /\ s.version = r.version + 1
      /\ s.type = r.type /\ s.method = r.method
      /\ s.status = r.status /\ s.pay = r.pay /\ s.courier = r.courier
      /\ s.dispatch = "not_found" /\ s.deadline = TRUE
  <2> HIDE DEF m
  <2> QED
    BY <1>1, <1>2, WrittenFields DEF Row
<1>4. Good(s, FALSE) /\ Evolves(r, s)
  <2> HIDE DEF m, s
  <2> QED
    BY <1>3 DEF Good, Evolves, SearchConsistent, AwaitsCourier
<1>5. QED
  BY <1>4

-----------------------------------------------------------------------------
(* What is true of the service *)


ToIssue(p, c) ==
  /\ c.op = "change" => c.to \in Status /\ c.by \in Actor
  /\ c.op = "assign" => c.courier \in Courier
  /\ c.op = "change" /\ c.by = "system" => p = Watchdog
  /\ c.op \in {"ensure", "not_found", "auto_cancel"} => p = Watchdog

Sound(p, j, r, late) ==
  LET current == j.snap.version = r.version
  IN /\ j.snap.version <= r.version
     /\ ToIssue(p, j.call) /\ Issued(j.call, r)
     /\ p = Watchdog /\ j.call.op \in {"change", "auto_cancel"} /\ MayRestartSearch(r) => late
     /\ j.pc = "cancel" => j.call.op = "auto_cancel"
     /\ j.pc = "save" /\ current => j.snap = r /\ Accepts(j.call, r, late)
     /\ j.pc = "gateway" => /\ MayRecord(r, PayAfter(j.snap))
                            /\ current => j.snap = r
     /\ j.pc = "persist" => /\ MayRecord(r, j.snap.pay)
                            /\ current => j.snap = Recorded(r, j.snap.pay)

RowsGood == \A o \in Order : Good(row[o], due[o])

JobsSound ==
  \A p \in Process : job[p] # Idle =>
    Sound(p, job[p], row[job[p].call.order], due[job[p].call.order])

IInv == TypeOK /\ RowsGood /\ JobsSound

-----------------------------------------------------------------------------
(* Facts about one goroutine and one row *)

(* The system's cancellation needs "not found" to stand on the row.        *)
LEMMA SystemCancels ==
  ASSUME NEW r \in Row, NEW to, MayChangeStatus(r, to, "system")
  PROVE  MayRestartSearch(r) /\ to = "cancelled"
BY DEF MayChangeStatus, ValidOrderTransition, Edges, CommonEdges, DeliveryEdges,
       DineInEdges, CancelNeedsNotFound, MayRestartSearch, AwaitsCourier, Row, Type

(* What a call waits for, and what a record of money is based on, is not   *)
(* undone by any operation.                                                *)
LEMMA IssuedStays ==
  ASSUME NEW r \in Row, NEW s, NEW c, Issued(c, r), Evolves(r, s)
  PROVE  Issued(c, s)
BY DEF Issued, Evolves

(* A record of money that fits a row fits what the row becomes              *)
(* (service.go:757-789).                                                    *)
LEMMA RecordStays ==
  ASSUME NEW r \in Row, NEW s, NEW state, MayRecord(r, state), Evolves(r, s)
  PROVE  MayRecord(s, state)
BY DEF MayRecord, Evolves, Terminal

(* A write of the row by another goroutine leaves this one sound: its copy *)
(* is now stale.                                                           *)
LEMMA SoundAfterWrite ==
  ASSUME NEW p, NEW j \in Busy, NEW r \in Row, NEW s, NEW late, NEW later,
         Sound(p, j, r, late), Evolves(r, s),
         p = Watchdog /\ MayRestartSearch(s) => MayRestartSearch(r) /\ (late => later)
  PROVE  Sound(p, j, s, later)
<1>1. j.snap \in Row /\ j.snap.version \in Nat /\ r.version \in Nat
  BY DEF Busy, Row
<1>2. j.snap.version <= s.version /\ j.snap.version # s.version
  BY <1>1 DEF Sound, Evolves
<1>3. Issued(j.call, s)
  BY IssuedStays DEF Sound
<1>4. /\ j.pc = "gateway" => MayRecord(s, PayAfter(j.snap))
      /\ j.pc = "persist" => MayRecord(s, j.snap.pay)
  BY RecordStays DEF Sound
<1>5. p = Watchdog /\ j.call.op \in {"change", "auto_cancel"} /\ MayRestartSearch(s) => later
  BY DEF Sound
<1>6. QED
  BY <1>2, <1>3, <1>4, <1>5 DEF Sound

(* Time only makes more true of what the goroutine checked.                *)
LEMMA SoundAfterDeadline ==
  ASSUME NEW p, NEW j \in Busy, NEW r \in Row, NEW late \in BOOLEAN, Sound(p, j, r, late)
  PROVE  Sound(p, j, r, TRUE)
<1>1. Accepts(j.call, r, late) => Accepts(j.call, r, TRUE)
  BY DEF Accepts, CourierSearchExpired, CourierNotFoundExpired
<1>2. QED
  BY <1>1 DEF Sound

-----------------------------------------------------------------------------
(* Steps of one goroutine: a write of one row, or a change of its own job. *)

(* The goroutine that writes ends, or stays sound on the row it wrote.     *)
LEMMA WriteStep ==
  ASSUME IInv, NEW p \in Process, NEW o \in Order, NEW s, NEW later, NEW n,
         row' = [row EXCEPT ![o] = s], due' = [due EXCEPT ![o] = later],
         job' = [job EXCEPT ![p] = n],
         Good(s, later), Evolves(row[o], s),
         n = Idle \/ (n \in Busy /\ n.call.order = o /\ Sound(p, n, s, later)),
         p # Watchdog => \/ ~ MayRestartSearch(s)
                         \/ MayRestartSearch(row[o]) /\ later = due[o]
  PROVE  IInv'
<1>1. s \in Row /\ later \in BOOLEAN
  BY DEF Good
<1>2. TypeOK'
  BY <1>1 DEF TypeOK, IInv
<1>3. RowsGood'
  BY DEF RowsGood, IInv, TypeOK
<1>4. JobsSound'
  <2> SUFFICES ASSUME NEW q \in Process, job'[q] # Idle
               PROVE  Sound(q, job'[q], row'[job'[q].call.order], due'[job'[q].call.order])
    BY DEF JobsSound
  <2>1. CASE q = p
    <3>1. job'[q] = n
      BY <2>1 DEF IInv, TypeOK
    <3>2. row'[o] = s /\ due'[o] = later
      BY DEF IInv, TypeOK
    <3>3. QED
      BY <2>1, <3>1, <3>2
  <2>2. CASE q # p
    <3> DEFINE j == job[q]
               x == j.call.order
    <3>1. job'[q] = j /\ j \in Busy
      BY <2>2 DEF IInv, TypeOK
    <3>2. x \in Order /\ row[x] \in Row
      BY <3>1 DEF Busy, Call, IInv, TypeOK
    <3>3. Sound(q, j, row[x], due[x])
      BY <3>1 DEF IInv, JobsSound
    <3> HIDE DEF j, x
    <3>4. CASE x = o
      <4>1. row'[x] = s /\ due'[x] = later
        BY <3>2, <3>4 DEF IInv, TypeOK
      <4>2. q = Watchdog /\ MayRestartSearch(s) => MayRestartSearch(row[x]) /\ (due[x] => later)
        BY <2>2, <3>4
      <4>3. Sound(q, j, s, later)
        BY <3>1, <3>2, <3>3, <3>4, <4>2, SoundAfterWrite
      <4>4. QED
        BY <3>1, <4>1, <4>3 DEF j, x
    <3>5. CASE x # o
      <4>1. row'[x] = row[x] /\ due'[x] = due[x]
        BY <3>2, <3>5 DEF IInv, TypeOK
      <4>2. QED
        BY <3>1, <3>3, <4>1 DEF j, x
    <3>6. QED
      BY <3>4, <3>5
  <2>3. QED
    BY <2>1, <2>2
<1>5. QED
  BY <1>2, <1>3, <1>4 DEF IInv

(* Steps that leave the table alone. *)
LEMMA JobStep ==
  ASSUME IInv, NEW p \in Process, NEW n, UNCHANGED <<row, due>>,
         job' = [job EXCEPT ![p] = n],
         n = Idle \/ (n \in Busy /\ Sound(p, n, row[n.call.order], due[n.call.order]))
  PROVE  IInv'
<1>1. TypeOK'
  BY DEF TypeOK, IInv
<1>2. RowsGood'
  BY DEF RowsGood, IInv
<1>3. JobsSound'
  BY DEF JobsSound, IInv, TypeOK
<1>4. QED
  BY <1>1, <1>2, <1>3 DEF IInv

(* The goroutine that saves holds the current row, and its checks hold.    *)
LEMMA Holding ==
  ASSUME IInv, NEW p \in Process, NEW op, Saving(p, op)
  PROVE  LET c == job[p].call
             o == c.order
         IN /\ job[p] \in Busy /\ o \in Order /\ c.op = op
            /\ job[p].snap = row[o] /\ row[o] \in Row /\ Good(row[o], due[o])
            /\ Accepts(c, row[o], due[o]) /\ Issued(c, row[o]) /\ ToIssue(p, c)
            /\ row[o].version \in Nat
            /\ Sound(p, job[p], row[o], due[o])
<1> DEFINE c == job[p].call
           o == c.order
<1>1. job[p] # Idle
  BY DEF Saving, Idle
<1>2. job[p] \in Busy /\ o \in Order
  BY <1>1 DEF IInv, TypeOK, Busy, Call
<1>3. Sound(p, job[p], row[o], due[o])
  BY <1>1 DEF IInv, JobsSound
<1>4. row[o] \in Row /\ Good(row[o], due[o])
  BY <1>2 DEF IInv, TypeOK, RowsGood
<1>5. row[o].version \in Nat
  BY <1>4 DEF Row
<1>6. QED
  BY <1>2, <1>3, <1>4, <1>5 DEF Saving, Fresh, Sound

-----------------------------------------------------------------------------
(* The rules of the instance are the rules of this module. *)
LEMMA SameRules ==
  /\ \A r : Lifecycle!AwaitingPayment(r) <=> AwaitingPayment(r)
  /\ \A r, to, by : Lifecycle!MayChangeStatus(r, to, by) <=> MayChangeStatus(r, to, by)
  /\ \A r, state : Lifecycle!MayRecord(r, state) <=> MayRecord(r, state)
  /\ \A r : Lifecycle!MayAssign(r) <=> MayAssign(r)
  /\ \A r : Lifecycle!MayRestartSearch(r) <=> MayRestartSearch(r)
  /\ \A r : Lifecycle!MissesDeadline(r) <=> MissesDeadline(r)
  /\ \A r, late : Lifecycle!CourierSearchExpired(r, late) <=> CourierSearchExpired(r, late)
  /\ Lifecycle!Status = Status /\ Lifecycle!Actor = Actor /\ Lifecycle!Pay = Pay
  /\ Lifecycle!Terminal = Terminal
<1>1. \A r : Lifecycle!AwaitingPayment(r) <=> AwaitingPayment(r)
  BY DEF AwaitingPayment, Lifecycle!AwaitingPayment, RequiresPrepayment,
         Lifecycle!RequiresPrepayment, Settled, Lifecycle!Settled
<1>2. ASSUME NEW r, NEW to, NEW by
      PROVE  Lifecycle!ValidOrderTransition(r, to, by) <=> ValidOrderTransition(r, to, by)
  BY DEF ValidOrderTransition, Lifecycle!ValidOrderTransition, Edges, Lifecycle!Edges,
         CommonEdges, Lifecycle!CommonEdges, DeliveryEdges, Lifecycle!DeliveryEdges,
         DineInEdges, Lifecycle!DineInEdges, CancelNeedsNotFound, Lifecycle!CancelNeedsNotFound
<1>3. \A r, to, by : Lifecycle!MayChangeStatus(r, to, by) <=> MayChangeStatus(r, to, by)
  BY <1>1, <1>2 DEF MayChangeStatus, Lifecycle!MayChangeStatus
<1>4. /\ \A r, state : Lifecycle!MayRecord(r, state) <=> MayRecord(r, state)
      /\ \A r : Lifecycle!MayAssign(r) <=> MayAssign(r)
      /\ Lifecycle!Terminal = Terminal
  BY DEF MayRecord, Lifecycle!MayRecord, RequiresPrepayment, Lifecycle!RequiresPrepayment,
         MayAssign, Lifecycle!MayAssign, Terminal, Lifecycle!Terminal
<1>5. /\ \A r : Lifecycle!MayRestartSearch(r) <=> MayRestartSearch(r)
      /\ \A r : Lifecycle!MissesDeadline(r) <=> MissesDeadline(r)
      /\ \A r, late : Lifecycle!CourierSearchExpired(r, late) <=> CourierSearchExpired(r, late)
  BY DEF AwaitsCourier, Lifecycle!AwaitsCourier, MayRestartSearch, Lifecycle!MayRestartSearch,
         MissesDeadline, Lifecycle!MissesDeadline,
         CourierSearchExpired, Lifecycle!CourierSearchExpired
<1>6. Lifecycle!Status = Status /\ Lifecycle!Actor = Actor /\ Lifecycle!Pay = Pay
  BY DEF Status, Lifecycle!Status, Actor, Lifecycle!Actor, Pay, Lifecycle!Pay
<1>7. QED
  BY <1>1, <1>3, <1>4, <1>5, <1>6

(* So are the rows it writes. *)
LEMMA SameRows ==
  /\ \A r : Lifecycle!Written(r) = Written(r)
  /\ \A r, to, by : Lifecycle!ChangedStatus(r, to, by) = ChangedStatus(r, to, by)
  /\ \A r : Lifecycle!Held(r) = Held(r)
  /\ \A r : Lifecycle!PaymentLost(r) = PaymentLost(r)
  /\ \A r, state : Lifecycle!Recorded(r, state) = Recorded(r, state)
  /\ \A r, c : Lifecycle!Assigned(r, c) = Assigned(r, c)
  /\ \A r : Lifecycle!Searching(r) = Searching(r)
  /\ \A r : Lifecycle!MarkedNotFound(r) = MarkedNotFound(r)
  /\ Lifecycle!InitialRow = InitialRow
<1>1. \A r : Lifecycle!DispatchPolicy(r) = DispatchPolicy(r)
  BY DEF DispatchPolicy, Lifecycle!DispatchPolicy, Terminal, Lifecycle!Terminal
<1>2. \A r, to, by : Lifecycle!ChangedStatus(r, to, by) = ChangedStatus(r, to, by)
  BY <1>1 DEF ChangedStatus, Lifecycle!ChangedStatus
<1>3. /\ \A r : Lifecycle!Written(r) = Written(r)
      /\ \A r : Lifecycle!Held(r) = Held(r)
      /\ \A r : Lifecycle!PaymentLost(r) = PaymentLost(r)
      /\ \A r, state : Lifecycle!Recorded(r, state) = Recorded(r, state)
  BY DEF Written, Lifecycle!Written, Held, Lifecycle!Held, PaymentLost, Lifecycle!PaymentLost,
         Recorded, Lifecycle!Recorded
<1>4. /\ \A r, c : Lifecycle!Assigned(r, c) = Assigned(r, c)
      /\ \A r : Lifecycle!Searching(r) = Searching(r)
      /\ \A r : Lifecycle!MarkedNotFound(r) = MarkedNotFound(r)
  BY DEF Assigned, Lifecycle!Assigned, Searching, Lifecycle!Searching,
         MarkedNotFound, Lifecycle!MarkedNotFound
<1>5. Lifecycle!InitialRow = InitialRow
  BY DEF InitialRow, Lifecycle!InitialRow, NewRow, Lifecycle!NewRow, LegacyRow,
         Lifecycle!LegacyRow, FirstPay, Lifecycle!FirstPay, Type, Lifecycle!Type,
         Method, Lifecycle!Method
<1>6. QED
  BY <1>2, <1>3, <1>4, <1>5

-----------------------------------------------------------------------------
(* One lemma per step: it keeps the invariant, and it is one step of the   *)
(* abstract life cycle or none.                                            *)

(* A save of OnPaymentHeld keeps the invariant and is one operation of the  *)
(* life cycle (service.go:525-543).                                         *)
LEMMA OnPaymentHeldStep ==
  ASSUME IInv, NEW p \in Process, OnPaymentHeld(p)
  PROVE  IInv' /\ Lifecycle!Operation(job[p].call.order)
<1> DEFINE c == job[p].call
           o == c.order
           s == Written(Held(row[o]))
<1>1. /\ o \in Order /\ job[p].snap = row[o] /\ Good(row[o], due[o]) /\ c.op = "held"
      /\ row[o] \in Row /\ Accepts(c, row[o], due[o]) /\ Issued(c, row[o]) /\ ToIssue(p, c)
  BY Holding DEF OnPaymentHeld
<1>2. /\ row' = [row EXCEPT ![o] = s] /\ due' = [due EXCEPT ![o] = due[o]]
      /\ job' = [job EXCEPT ![p] = Idle]
  BY <1>1 DEF OnPaymentHeld, Save, Become, IInv, TypeOK
<1>3. AwaitingPayment(row[o])
  BY <1>1 DEF Accepts, Issued, AwaitingPayment
<1>4. Good(s, due[o]) /\ Evolves(row[o], s)
  BY <1>1, <1>3, HeldGood
<1>5. p # Watchdog => \/ ~ MayRestartSearch(s)
                      \/ MayRestartSearch(row[o]) /\ due[o] = due[o]
  BY <1>1, WrittenFields DEF Held, Written, Row, MayRestartSearch, AwaitsCourier
<1>6. IInv'
  <2> HIDE DEF s, o, c
  <2> QED
    BY <1>1, <1>2, <1>4, <1>5, WriteStep
<1>7. Lifecycle!PaymentHeld(o)
  BY <1>1, <1>2, <1>3, SameRules, SameRows DEF Lifecycle!PaymentHeld, Lifecycle!Write
<1>8. QED
  BY <1>1, <1>6, <1>7 DEF Lifecycle!Operation

(* A save of OnPaymentFailed keeps the invariant and is one operation of the*)
(* life cycle (service.go:548-567).                                         *)
LEMMA OnPaymentFailedStep ==
  ASSUME IInv, NEW p \in Process, OnPaymentFailed(p)
  PROVE  IInv' /\ Lifecycle!Operation(job[p].call.order)
<1> DEFINE c == job[p].call
           o == c.order
           s == Written(PaymentLost(row[o]))
<1>1. /\ o \in Order /\ job[p].snap = row[o] /\ Good(row[o], due[o]) /\ c.op = "failed"
      /\ row[o] \in Row /\ Accepts(c, row[o], due[o]) /\ Issued(c, row[o]) /\ ToIssue(p, c)
  BY Holding DEF OnPaymentFailed
<1>2. /\ row' = [row EXCEPT ![o] = s] /\ due' = [due EXCEPT ![o] = due[o]]
      /\ job' = [job EXCEPT ![p] = Idle]
  BY <1>1 DEF OnPaymentFailed, Save, Become, IInv, TypeOK
<1>3. AwaitingPayment(row[o]) /\ row[o].status \notin Terminal
  BY <1>1 DEF Accepts, Issued, AwaitingPayment
<1>4. Good(s, due[o]) /\ Evolves(row[o], s)
  BY <1>1, <1>3, LostGood
<1>5. p # Watchdog => \/ ~ MayRestartSearch(s)
                      \/ MayRestartSearch(row[o]) /\ due[o] = due[o]
  BY <1>1, WrittenFields DEF PaymentLost, Written, Row, MayRestartSearch, AwaitsCourier
<1>6. IInv'
  <2> HIDE DEF s, o, c
  <2> QED
    BY <1>1, <1>2, <1>4, <1>5, WriteStep
<1>7. Lifecycle!PaymentLoses(o)
  BY <1>1, <1>2, <1>3, SameRules, SameRows DEF Lifecycle!PaymentLoses, Lifecycle!Write
<1>8. QED
  BY <1>1, <1>6, <1>7 DEF Lifecycle!Operation

(* A save of AssignCourier keeps the invariant and is one operation of the  *)
(* life cycle (service.go:830-859).                                         *)
LEMMA AssignCourierStep ==
  ASSUME IInv, NEW p \in Process, AssignCourier(p)
  PROVE  IInv' /\ Lifecycle!Operation(job[p].call.order)
<1> DEFINE c == job[p].call
           o == c.order
           s == Written(Assigned(row[o], c.courier))
<1>1. /\ o \in Order /\ job[p].snap = row[o] /\ Good(row[o], due[o]) /\ c.op = "assign"
      /\ row[o] \in Row /\ Accepts(c, row[o], due[o]) /\ Issued(c, row[o]) /\ ToIssue(p, c)
  BY Holding DEF AssignCourier
<1>2. /\ row' = [row EXCEPT ![o] = s] /\ due' = [due EXCEPT ![o] = FALSE]
      /\ job' = [job EXCEPT ![p] = Idle]
  BY <1>1 DEF AssignCourier, Save, Become, Clock, IInv, TypeOK
<1>3. c.courier \in Courier /\ MayAssign(row[o]) /\ row[o].type = "delivery" /\ row[o].status # "created"
  BY <1>1 DEF Accepts, Issued, ToIssue
<1>4. Good(s, FALSE) /\ Evolves(row[o], s)
  BY <1>1, <1>3, AssignedGood
<1>5. p # Watchdog => \/ ~ MayRestartSearch(s)
                      \/ MayRestartSearch(row[o]) /\ FALSE = due[o]
  BY <1>1, <1>3, NoneIsNoCourier DEF Assigned, Written, Row, MayRestartSearch, AwaitsCourier
<1>6. IInv'
  <2> HIDE DEF s, o, c
  <2> QED
    BY <1>1, <1>2, <1>4, <1>5, WriteStep
<1>7. Lifecycle!AssignCourier(o, c.courier)
  BY <1>1, <1>2, <1>3, SameRules, SameRows DEF Lifecycle!AssignCourier, Lifecycle!Write
<1>8. QED
  BY <1>1, <1>6, <1>7, <1>3 DEF Lifecycle!Operation

(* A save of SetPreparationTime keeps the invariant and is one operation of *)
(* the life cycle (service.go:795-827).                                     *)
LEMMA SetPreparationTimeStep ==
  ASSUME IInv, NEW p \in Process, SetPreparationTime(p)
  PROVE  IInv' /\ Lifecycle!Operation(job[p].call.order)
<1> DEFINE c == job[p].call
           o == c.order
           s == Written(row[o])
<1>1. /\ o \in Order /\ job[p].snap = row[o] /\ Good(row[o], due[o]) /\ c.op = "prepare"
      /\ row[o] \in Row /\ Accepts(c, row[o], due[o]) /\ Issued(c, row[o]) /\ ToIssue(p, c)
  BY Holding DEF SetPreparationTime
<1>2. /\ row' = [row EXCEPT ![o] = s] /\ due' = [due EXCEPT ![o] = due[o]]
      /\ job' = [job EXCEPT ![p] = Idle]
  BY <1>1 DEF SetPreparationTime, Save, Become, IInv, TypeOK
<1>3. row[o].status \notin {"created", "rejected"}
  BY <1>1 DEF Issued
<1>4. Good(s, due[o]) /\ Evolves(row[o], s)
  BY <1>1, <1>3, TouchGood
<1>5. p # Watchdog => \/ ~ MayRestartSearch(s)
                      \/ MayRestartSearch(row[o]) /\ due[o] = due[o]
  BY <1>1, WrittenFields DEF MayRestartSearch, AwaitsCourier
<1>6. IInv'
  <2> HIDE DEF s, o, c
  <2> QED
    BY <1>1, <1>2, <1>4, <1>5, WriteStep
<1>7. Lifecycle!SetPreparationTime(o)
  BY <1>1, <1>2, <1>3, SameRules, SameRows DEF Lifecycle!SetPreparationTime, Lifecycle!Write
<1>8. QED
  BY <1>1, <1>6, <1>7 DEF Lifecycle!Operation

(* A save of RestartCourierSearch keeps the invariant and is one operation  *)
(* of the life cycle (dispatch_state.go:156-167).                           *)
LEMMA RestartCourierSearchStep ==
  ASSUME IInv, NEW p \in Process, RestartCourierSearch(p)
  PROVE  IInv' /\ Lifecycle!Operation(job[p].call.order)
<1> DEFINE c == job[p].call
           o == c.order
           s == Written(Searching(row[o]))
<1>1. /\ o \in Order /\ job[p].snap = row[o] /\ Good(row[o], due[o]) /\ c.op = "restart"
      /\ row[o] \in Row /\ Accepts(c, row[o], due[o]) /\ Issued(c, row[o]) /\ ToIssue(p, c)
  BY Holding DEF RestartCourierSearch
<1>2. /\ row' = [row EXCEPT ![o] = s] /\ due' = [due EXCEPT ![o] = FALSE]
      /\ job' = [job EXCEPT ![p] = Idle]
  BY <1>1 DEF RestartCourierSearch, Save, Become, Clock, IInv, TypeOK
<1>3. MayRestartSearch(row[o]) /\ row[o].status = "ready" /\ AwaitsCourier(row[o])
  BY <1>1 DEF Accepts, MayRestartSearch
<1>4. Good(s, FALSE) /\ Evolves(row[o], s)
  BY <1>1, <1>3, SearchingGood
<1>5. p # Watchdog => \/ ~ MayRestartSearch(s)
                      \/ MayRestartSearch(row[o]) /\ FALSE = due[o]
  BY <1>1 DEF Searching, Written, Row, MayRestartSearch
<1>6. IInv'
  <2> HIDE DEF s, o, c
  <2> QED
    BY <1>1, <1>2, <1>4, <1>5, WriteStep
<1>7. Lifecycle!RestartSearch(o)
  BY <1>1, <1>2, <1>3, SameRules, SameRows DEF Lifecycle!RestartSearch, Lifecycle!Write
<1>8. QED
  BY <1>1, <1>6, <1>7 DEF Lifecycle!Operation

(* A save of MarkCourierNotFound keeps the invariant and is one operation of*)
(* the life cycle (dispatch_state.go:141-151).                              *)
LEMMA MarkCourierNotFoundStep ==
  ASSUME IInv, NEW p \in Process, MarkCourierNotFound(p)
  PROVE  IInv' /\ Lifecycle!Operation(job[p].call.order)
<1> DEFINE c == job[p].call
           o == c.order
           s == Written(MarkedNotFound(row[o]))
<1>1. /\ o \in Order /\ job[p].snap = row[o] /\ Good(row[o], due[o]) /\ c.op = "not_found"
      /\ row[o] \in Row /\ Accepts(c, row[o], due[o]) /\ Issued(c, row[o]) /\ ToIssue(p, c)
  BY Holding DEF MarkCourierNotFound
<1>2. /\ row' = [row EXCEPT ![o] = s] /\ due' = [due EXCEPT ![o] = FALSE]
      /\ job' = [job EXCEPT ![p] = Idle]
  BY <1>1 DEF MarkCourierNotFound, Save, Become, Clock, IInv, TypeOK
<1>3. CourierSearchExpired(row[o], due[o]) /\ row[o].status = "ready" /\ AwaitsCourier(row[o])
  BY <1>1 DEF Accepts, CourierSearchExpired
<1>4. Good(s, FALSE) /\ Evolves(row[o], s)
  BY <1>1, <1>3, MarkedGood
<1>5. p = Watchdog
  BY <1>1 DEF ToIssue
<1>6. IInv'
  <2> HIDE DEF s, o, c
  <2> QED
    BY <1>1, <1>2, <1>4, <1>5, WriteStep
<1>7. Lifecycle!MarkNotFound(o)
  BY <1>1, <1>2, <1>3, SameRules, SameRows DEF Lifecycle!MarkNotFound, Lifecycle!Write
<1>8. QED
  BY <1>1, <1>6, <1>7 DEF Lifecycle!Operation

(* The start of the search window decides whether it is over at once. *)
LEMMA EnsureCourierSearchDeadlineStep ==
  ASSUME IInv, NEW p \in Process, EnsureCourierSearchDeadline(p)
  PROVE  IInv' /\ Lifecycle!Operation(job[p].call.order)
<1> DEFINE c == job[p].call
           o == c.order
           s == Written(Searching(row[o]))
<1>1. /\ o \in Order /\ job[p].snap = row[o] /\ Good(row[o], due[o]) /\ c.op = "ensure"
      /\ row[o] \in Row /\ Accepts(c, row[o], due[o]) /\ ToIssue(p, c)
  BY Holding DEF EnsureCourierSearchDeadline
<1>2. PICK late \in BOOLEAN : due' = [due EXCEPT ![o] = late]
  BY DEF EnsureCourierSearchDeadline, Clock
<1>3. row' = [row EXCEPT ![o] = s] /\ job' = [job EXCEPT ![p] = Idle]
  BY <1>1 DEF EnsureCourierSearchDeadline, Save, Become
<1>4. MissesDeadline(row[o]) /\ row[o].status = "ready" /\ AwaitsCourier(row[o])
  BY <1>1 DEF Accepts, MissesDeadline
<1>5. Good(s, late) /\ Evolves(row[o], s)
  BY <1>1, <1>4, SearchingGood
<1>6. p = Watchdog
  BY <1>1 DEF ToIssue
<1>7. IInv'
  <2> HIDE DEF s, o, c
  <2> QED
    BY <1>1, <1>2, <1>3, <1>5, <1>6, WriteStep
<1>8. Lifecycle!EnsureDeadline(o, late)
  BY <1>1, <1>2, <1>3, <1>4, SameRules, SameRows DEF Lifecycle!EnsureDeadline, Lifecycle!Write
<1>9. QED
  BY <1>1, <1>7, <1>8 DEF Lifecycle!Operation

(* A new status never leaves "not found" on a ready order.                 *)
LEMMA ChangedNotFound ==
  ASSUME NEW r \in Row, NEW to \in Status, NEW by \in Actor
  PROVE  ~ MayRestartSearch(Written(ChangedStatus(r, to, by)))
<1> DEFINE m == [r EXCEPT !.status = to, !.by = by]
           n == DispatchPolicy(m)
<1>1. m \in Row /\ m.type \in Type
  BY DEF Row
<1>2. n \in Row /\ (n.status = "ready" /\ n.courier = None /\ n.type = "delivery"
                      => n.dispatch = "searching")
  <2> HIDE DEF m
  <2>1. n \in Row
    BY <1>1, PolicyKeepsRow
  <2>2. n.status = m.status /\ n.courier = m.courier /\ n.type = m.type
    BY <1>1, PolicyFields
  <2>3. m.type # "dine_in" /\ m.courier = None /\ m.status = "ready" => n.dispatch = "searching"
    BY <1>1, PolicyFields
  <2>4. QED
    BY <2>1, <2>2, <2>3
<1>3. ~ MayRestartSearch(Written(n))
  <2> HIDE DEF n
  <2> QED
    BY <1>1, <1>2, WrittenFields DEF MayRestartSearch, AwaitsCourier
<1>4. QED
  BY <1>3 DEF ChangedStatus

(* What the service does next follows from the row it has just written: it *)
(* is still the row when the money moves, if nobody else writes.           *)
LEMMA AfterStatusSound ==
  ASSUME NEW p \in Process, NEW c \in Call, NEW s \in Row, NEW late, ToIssue(p, c), Issued(c, s),
         ~ MayRestartSearch(s), s.status # "created"
  PROVE  \/ AfterStatus(c, s) = Idle
         \/ (/\ AfterStatus(c, s) \in Busy
             /\ AfterStatus(c, s).call.order = c.order
             /\ Sound(p, AfterStatus(c, s), s, late))
<1>1. s.version \in Nat
  BY DEF Row
<1>2. CASE MustMoveMoney(s)
  <2> DEFINE n == At("gateway", c, s, 0)
  <2>1. AfterStatus(c, s) = n
    BY <1>2 DEF AfterStatus
  <2>2. n.pc = "gateway" /\ n.call = c /\ n.snap = s /\ n.tries = 0 /\ n \in Busy
    BY MaxAttemptsPositive DEF At, Busy
  <2>3. MayRecord(s, PayAfter(s))
    BY <1>2 DEF MustMoveMoney, MayRecord, PayAfter, RequiresPrepayment, Settled
  <2> HIDE DEF n
  <2>4. Sound(p, n, s, late)
    BY <1>1, <2>2, <2>3 DEF Sound
  <2>5. QED
    BY <2>1, <2>2, <2>4
<1>3. CASE ~ MustMoveMoney(s) /\ s.status \in {"delivered", "served"}
  <2> DEFINE n == At("cashback", c, s, 0)
  <2>1. AfterStatus(c, s) = n
    BY <1>3 DEF AfterStatus
  <2>2. n.pc = "cashback" /\ n.call = c /\ n.snap = s /\ n.tries = 0 /\ n \in Busy
    BY MaxAttemptsPositive DEF At, Busy
  <2> HIDE DEF n
  <2>3. Sound(p, n, s, late)
    BY <1>1, <2>2 DEF Sound
  <2>4. QED
    BY <2>1, <2>2, <2>3
<1>4. CASE ~ MustMoveMoney(s) /\ s.status \notin {"delivered", "served"}
  BY <1>4 DEF AfterStatus
<1>5. QED
  BY <1>2, <1>3, <1>4

(* A save of ChangeStatus keeps the invariant and is one operation of the   *)
(* life cycle (service.go:592-636).                                         *)
LEMMA ChangeStatusStep ==
  ASSUME IInv, NEW p \in Process, ChangeStatus(p)
  PROVE  IInv' /\ Lifecycle!Operation(job[p].call.order)
<1> DEFINE c == job[p].call
           o == c.order
           s == Written(ChangedStatus(row[o], c.to, c.by))
           n == AfterStatus(c, s)
<1>1. /\ o \in Order /\ job[p].snap = row[o] /\ Good(row[o], due[o]) /\ c.op = "change"
      /\ row[o] \in Row /\ Accepts(c, row[o], due[o]) /\ ToIssue(p, c) /\ Issued(c, row[o])
      /\ Sound(p, job[p], row[o], due[o]) /\ job[p] \in Busy
  BY Holding DEF ChangeStatus
<1>2. /\ row' = [row EXCEPT ![o] = s] /\ due' = [due EXCEPT ![o] = FALSE]
      /\ job' = [job EXCEPT ![p] = n]
  BY <1>1 DEF ChangeStatus, Save, Become, Clock
<1>3. MayChangeStatus(row[o], c.to, c.by) /\ c.to \in Status /\ c.by \in Actor
  BY <1>1 DEF Accepts, ToIssue
<1>4. c.by = "system" => due[o]
  BY <1>1, <1>3, SystemCancels DEF Sound, ToIssue
<1>5. Good(s, FALSE) /\ Evolves(row[o], s)
  BY <1>1, <1>3, ChangeGood
<1>6. ~ MayRestartSearch(s)
  BY <1>1, <1>3, ChangedNotFound
<1>7. s \in Row /\ s.status # "created"
  <2>1. s \in Row
    BY <1>5 DEF Good
  <2>2. ChangedStatus(row[o], c.to, c.by) \in Row /\ ChangedStatus(row[o], c.to, c.by).status = c.to
    <3> DEFINE m == [row[o] EXCEPT !.status = c.to, !.by = c.by]
    <3>1. m \in Row /\ m.status = c.to
      BY <1>1, <1>3 DEF Row
    <3> HIDE DEF m
    <3>2. DispatchPolicy(m) \in Row /\ DispatchPolicy(m).status = c.to
      BY <3>1, PolicyKeepsRow, PolicyFields
    <3>3. QED
      BY <3>2 DEF m, ChangedStatus
  <2>3. s.status = c.to
    BY <2>2, WrittenFields
  <2>4. c.to # "created"
    BY <1>1, <1>3, EdgeShape DEF MayChangeStatus
  <2>5. QED
    BY <2>1, <2>3, <2>4
<1>8. n = Idle \/ (n \in Busy /\ n.call.order = o /\ Sound(p, n, s, FALSE))
  <2>1. c \in Call
    BY <1>1 DEF Busy
  <2>2. Issued(c, s)
    BY <1>1, <1>5, IssuedStays
  <2> HIDE DEF s, o, c
  <2>3. QED
    BY <1>1, <1>6, <1>7, <2>1, <2>2, AfterStatusSound DEF o
<1>9. IInv'
  <2> HIDE DEF s, o, c, n
  <2> QED
    BY <1>1, <1>2, <1>5, <1>6, <1>8, WriteStep
<1>10. Lifecycle!ChangeStatus(o, c.to, c.by)
  BY <1>2, <1>3, <1>4, SameRules, SameRows DEF Lifecycle!ChangeStatus, Lifecycle!Write
<1>11. QED
  BY <1>1, <1>3, <1>9, <1>10, SameRules DEF Lifecycle!Operation

(* What is known of any goroutine at work. *)
LEMMA Working ==
  ASSUME IInv, NEW p \in Process, job[p] # Idle
  PROVE  /\ job[p] \in Busy /\ job[p].call \in Call /\ job[p].call.order \in Order
         /\ job[p].snap \in Row /\ job[p].tries \in 0..MaxAttempts
         /\ row[job[p].call.order] \in Row
         /\ row[job[p].call.order].version \in Nat
         /\ Good(row[job[p].call.order], due[job[p].call.order])
         /\ Sound(p, job[p], row[job[p].call.order], due[job[p].call.order])
<1>1. job[p] \in Busy
  BY DEF IInv, TypeOK
<1>2. /\ job[p].call \in Call /\ job[p].call.order \in Order
      /\ job[p].snap \in Row /\ job[p].tries \in 0..MaxAttempts
  BY <1>1 DEF Busy, Call
<1>3. /\ row[job[p].call.order] \in Row
      /\ Good(row[job[p].call.order], due[job[p].call.order])
      /\ Sound(p, job[p], row[job[p].call.order], due[job[p].call.order])
  BY <1>2 DEF IInv, TypeOK, RowsGood, JobsSound
<1>4. row[job[p].call.order].version \in Nat
  BY <1>3 DEF Row
<1>5. QED
  BY <1>1, <1>2, <1>3, <1>4

(* A save of persistPaymentState keeps the invariant and is one operation of*)
(* the life cycle (service.go:757-789).                                     *)
LEMMA PersistPaymentStateStep ==
  ASSUME IInv, NEW p \in Process, PersistPaymentState(p)
  PROVE  IInv' /\ Lifecycle!Operation(job[p].call.order)
<1> DEFINE o == job[p].call.order
           state == job[p].snap.pay
           s == Written(Recorded(row[o], state))
<1>1. job[p] # Idle
  BY DEF PersistPaymentState, Idle
<1>2. /\ o \in Order /\ row[o] \in Row /\ Good(row[o], due[o]) /\ job[p].snap \in Row
      /\ Sound(p, job[p], row[o], due[o])
  BY <1>1, Working
<1>3. state \in Pay
  BY <1>2 DEF Row
<1>4. MayRecord(row[o], state) /\ job[p].snap = Recorded(row[o], state)
  BY <1>2 DEF PersistPaymentState, Fresh, Sound
<1>5. /\ row' = [row EXCEPT ![o] = s] /\ due' = [due EXCEPT ![o] = due[o]]
      /\ job' = [job EXCEPT ![p] = Idle]
  BY <1>4 DEF PersistPaymentState, Save, Become, IInv, TypeOK
<1>6. Good(s, due[o]) /\ Evolves(row[o], s)
  BY <1>2, <1>3, <1>4, RecordedGood DEF MayRecord
<1>7. ~ MayRestartSearch(s) \/ MayRestartSearch(row[o])
  BY <1>2, <1>3 DEF Recorded, Written, Row, MayRestartSearch, AwaitsCourier
<1>8. IInv'
  <2> HIDE DEF s, o, state
  <2> QED
    BY <1>2, <1>5, <1>6, <1>7, WriteStep
<1>9. Lifecycle!PaymentRecorded(o, state)
  BY <1>4, <1>5, SameRules, SameRows DEF Lifecycle!PaymentRecorded, Lifecycle!Write
<1>10. QED
  BY <1>2, <1>3, <1>8, <1>9, SameRules DEF Lifecycle!Operation

(* The record is made on the row that was written, or on one read later.   *)
LEMMA MoneyMovedStep ==
  ASSUME IInv, NEW p \in Process, MoneyMoved(p)
  PROVE  IInv' /\ UNCHANGED <<row, due>>
<1> DEFINE j == job[p]
           o == j.call.order
           snap == Recorded(j.snap, PayAfter(j.snap))
           n == At("persist", j.call, snap, 1)
<1>1. job[p] # Idle /\ j.pc = "gateway"
  BY DEF MoneyMoved, Idle
<1>2. /\ j.call \in Call /\ o \in Order /\ j.snap \in Row /\ Sound(p, j, row[o], due[o])
  BY <1>1, Working
<1>3. PayAfter(j.snap) \in Pay
  BY DEF PayAfter, Pay
<1>4. /\ snap \in Row /\ snap.pay = PayAfter(j.snap) /\ snap.version = j.snap.version
  BY <1>2, <1>3 DEF Recorded, Row
<1>5. MayRecord(row[o], PayAfter(j.snap)) /\ (j.snap.version = row[o].version => j.snap = row[o])
  BY <1>1, <1>2 DEF Sound
<1>6. j.snap.version = row[o].version => snap = Recorded(row[o], snap.pay)
  BY <1>4, <1>5
<1>7. /\ n.pc = "persist" /\ n.call = j.call /\ n.snap = snap /\ n \in Busy
  BY <1>2, <1>4, MaxAttemptsPositive DEF At, Busy
<1>8. Sound(p, n, row[o], due[o])
  <2> HIDE DEF j, o, snap, n
  <2> QED
    BY <1>2, <1>4, <1>5, <1>6, <1>7 DEF Sound
<1>9. job' = [job EXCEPT ![p] = n] /\ UNCHANGED <<row, due>>
  BY DEF MoneyMoved, Become
<1>10. IInv'
  <2> HIDE DEF j, o, snap, n
  <2> QED
    BY <1>7, <1>8, <1>9, JobStep DEF o
<1>11. QED
  BY <1>9, <1>10

(* A conflict in persistPaymentState keeps the invariant and leaves the     *)
(* table alone (service.go:776-785).                                        *)
LEMMA PersistConflictStep ==
  ASSUME IInv, NEW p \in Process, PersistConflict(p)
  PROVE  IInv' /\ UNCHANGED <<row, due>>
<1> DEFINE j == job[p]
           o == j.call.order
           snap == Recorded(row[o], j.snap.pay)
           n == At("persist", j.call, snap, j.tries + 1)
<1>1. job[p] # Idle /\ j.pc = "persist"
  BY DEF PersistConflict, Idle
<1>2. /\ j.call \in Call /\ o \in Order /\ j.snap \in Row /\ row[o] \in Row
      /\ row[o].version \in Nat /\ Sound(p, j, row[o], due[o]) /\ j.tries \in 0..MaxAttempts
  BY <1>1, Working
<1>3. /\ snap \in Row /\ snap.pay = j.snap.pay /\ snap.version = row[o].version
  BY <1>2 DEF Recorded, Row
<1>4. UNCHANGED <<row, due>>
  BY DEF PersistConflict
<1>5. CASE job' = [job EXCEPT ![p] = Idle]
  BY <1>4, <1>5, JobStep
<1>6. CASE j.tries < MaxAttempts /\ job' = [job EXCEPT ![p] = n]
  <2>1. MayRecord(row[o], snap.pay)
    BY <1>1, <1>2, <1>3 DEF Sound
  <2>2. /\ n.pc = "persist" /\ n.call = j.call /\ n.snap = snap /\ n \in Busy
    BY <1>2, <1>3, <1>6, MaxAttemptsPositive DEF At, Busy
  <2>3. Sound(p, n, row[o], due[o])
    <3>1. snap = Recorded(row[o], snap.pay)
      BY <1>3
    <3> HIDE DEF j, o, snap, n
    <3>2. QED
      BY <1>2, <1>3, <2>1, <2>2, <3>1 DEF Sound
  <2> HIDE DEF j, o, snap, n
  <2>4. QED
    BY <1>4, <1>6, <2>2, <2>3, JobStep DEF o
<1>7. QED
  BY <1>4, <1>5, <1>6 DEF PersistConflict, Become

(* Reading the row gives a sound copy of it. *)
LEMMA ReadSound ==
  ASSUME NEW p, NEW c \in Call, NEW r \in Row, NEW late, NEW pc \in {"save", "cancel"},
         NEW tries \in 1..MaxAttempts, ToIssue(p, c), Issued(c, r),
         Accepts(c, r, late), pc = "cancel" => c.op = "auto_cancel",
         p = Watchdog /\ c.op = "change" /\ MayRestartSearch(r) => late
  PROVE  At(pc, c, r, tries) \in Busy /\ Sound(p, At(pc, c, r, tries), r, late)
<1> DEFINE n == At(pc, c, r, tries)
<1>1. n.pc = pc /\ n.call = c /\ n.snap = r /\ n \in Busy
  BY MaxAttemptsPositive DEF At, Busy
<1>2. r.version \in Nat
  BY DEF Row
<1>3. c.op = "auto_cancel" => late
  BY DEF Accepts, CourierNotFoundExpired
<1>4. Sound(p, n, r, late)
  <2> HIDE DEF n
  <2> QED
    BY <1>1, <1>2, <1>3 DEF Sound
<1>5. QED
  BY <1>1, <1>4

(* The first read of a request keeps the invariant and leaves the table     *)
(* alone.                                                                   *)
LEMMA HandlerReadStep ==
  ASSUME IInv, NEW p \in Handler, HandlerRead(p)
  PROVE  IInv' /\ UNCHANGED <<row, due>>
<1>1. PICK c \in HandlerCall : Read(p, c)
  BY DEF HandlerRead
<1> DEFINE r == row[c.order]
           late == due[c.order]
           pc == IF c.op = "auto_cancel" THEN "cancel" ELSE "save"
           n == At(pc, c, r, 1)
<1>2. p \in Process /\ p # Watchdog
  BY WatchdogIsNoHandler DEF Process
<1>3. c \in Call /\ c.order \in Order /\ ToIssue(p, c) /\ c.op # "auto_cancel"
  <2>1. ASSUME NEW x \in Order, NEW to \in Status, NEW by \in Actor \ {"system"},
               c = Change(x, to, by)
        PROVE  c \in Call /\ c.order \in Order /\ ToIssue(p, c) /\ c.op # "auto_cancel"
    BY <2>1 DEF Change, Plain, Call, Op, ToIssue
  <2>2. ASSUME NEW x \in Order, NEW k \in Courier, c = Assign(x, k)
        PROVE  c \in Call /\ c.order \in Order /\ ToIssue(p, c) /\ c.op # "auto_cancel"
    <3>1. /\ c.op = "assign" /\ c.order = x /\ c.to = None /\ c.by = None /\ c.courier = k
          /\ c \in Call
      BY <2>2 DEF Assign, Plain, Call, Op
    <3>2. QED
      BY <3>1 DEF ToIssue
  <2>3. ASSUME NEW op \in {"held", "failed", "prepare", "restart"}, NEW x \in Order,
               c = Plain(op, x)
        PROVE  c \in Call /\ c.order \in Order /\ ToIssue(p, c) /\ c.op # "auto_cancel"
    BY <2>3 DEF Plain, Call, Op, ToIssue
  <2>4. QED
    BY <2>1, <2>2, <2>3 DEF HandlerCall
<1>4. r \in Row
  BY <1>3 DEF IInv, TypeOK
<1>5. Issued(c, r) /\ Accepts(c, r, late) /\ job' = [job EXCEPT ![p] = n]
      /\ UNCHANGED <<row, due>>
  BY <1>1 DEF Read, Become
<1>6. n \in Busy /\ Sound(p, n, r, late)
  <2> HIDE DEF r, late
  <2> QED
    BY <1>2, <1>3, <1>4, <1>5, ReadSound, MaxAttemptsPositive
<1>7. n.call = c
  BY DEF At
<1>8. IInv'
  <2> HIDE DEF n
  <2> QED
    BY <1>2, <1>5, <1>6, <1>7, JobStep
<1>9. QED
  BY <1>5, <1>8

(* A read of the watchdog keeps the invariant and leaves the table alone    *)
(* (dispatch_watchdog.go:130-176).                                          *)
LEMMA WatchdogReadStep ==
  ASSUME IInv, WatchdogRead
  PROVE  IInv' /\ UNCHANGED <<row, due>>
<1>1. PICK c \in WatchdogCall : Read(Watchdog, c)
  BY DEF WatchdogRead
<1> DEFINE r == row[c.order]
           late == due[c.order]
           pc == IF c.op = "auto_cancel" THEN "cancel" ELSE "save"
           n == At(pc, c, r, 1)
<1>2. Watchdog \in Process
  BY DEF Process
<1>3. /\ c \in Call /\ c.order \in Order /\ ToIssue(Watchdog, c) /\ c.op # "change"
      /\ pc \in {"save", "cancel"} /\ (pc = "cancel" => c.op = "auto_cancel")
  BY <1>1 DEF WatchdogCall, Call, Op, Plain, ToIssue
<1>4. r \in Row
  BY <1>3 DEF IInv, TypeOK
<1>5. Issued(c, r) /\ Accepts(c, r, late) /\ job' = [job EXCEPT ![Watchdog] = n]
      /\ UNCHANGED <<row, due>>
  BY <1>1 DEF Read, Become
<1>6. n \in Busy /\ Sound(Watchdog, n, r, late)
  <2> HIDE DEF r, late, pc
  <2> QED
    BY <1>3, <1>4, <1>5, ReadSound, MaxAttemptsPositive
<1>7. n.call = c
  BY DEF At
<1>8. IInv'
  <2> HIDE DEF n
  <2> QED
    BY <1>2, <1>5, <1>6, <1>7, JobStep
<1>9. QED
  BY <1>5, <1>8

(* The watchdog's second read may find the order in the restaurant's hands *)
(* again; if "not found" still stands, its deadline is still past.         *)
LEMMA AutoCancelStep ==
  ASSUME IInv, NEW p \in Process, AutoCancel(p)
  PROVE  IInv' /\ UNCHANGED <<row, due>>
<1> DEFINE c == Change(job[p].call.order, "cancelled", "system")
           r == row[c.order]
           late == due[c.order]
           n == At("save", c, r, 1)
<1>1. job[p] # Idle /\ job[p].pc = "cancel"
  BY DEF AutoCancel, Idle
<1>2. /\ job[p].call.order \in Order /\ row[job[p].call.order] \in Row
      /\ Sound(p, job[p], row[job[p].call.order], due[job[p].call.order])
  BY <1>1, Working
<1>3. /\ c.op = "change" /\ c.order = job[p].call.order /\ c.to = "cancelled"
      /\ c.by = "system" /\ c \in Call
  BY <1>2 DEF Change, Plain, Call, Op, Status, Actor
<1>4. UNCHANGED <<row, due>>
  BY DEF AutoCancel
<1>5. CASE job' = [job EXCEPT ![p] = Idle]
  BY <1>4, <1>5, JobStep
<1>6. CASE MayChangeStatus(r, c.to, c.by) /\ job' = [job EXCEPT ![p] = n]
  <2>1. p = Watchdog /\ (MayRestartSearch(r) => late)
    BY <1>1, <1>2, <1>3 DEF Sound, ToIssue
  <2>2. ToIssue(p, c) /\ Issued(c, r) /\ Accepts(c, r, late)
    BY <1>3, <1>6, <2>1 DEF ToIssue, Issued, Accepts, Status, Actor
  <2>3. r \in Row
    BY <1>2, <1>3
  <2>4. n.call = c
    BY DEF At
  <2>5. n \in Busy /\ Sound(p, n, r, late)
    <3> HIDE DEF r, late, c
    <3> QED
      BY <1>3, <2>1, <2>2, <2>3, ReadSound, MaxAttemptsPositive
  <2> HIDE DEF n
  <2>6. QED
    BY <1>4, <1>6, <2>4, <2>5, JobStep
<1>7. QED
  BY <1>4, <1>5, <1>6 DEF AutoCancel, Become

(* A read after ErrConflict keeps the invariant and leaves the table alone  *)
(* (service.go:626-628).                                                    *)
LEMMA ConflictStep ==
  ASSUME IInv, NEW p \in Process, Conflict(p)
  PROVE  IInv' /\ UNCHANGED <<row, due>>
<1> DEFINE c == job[p].call
           r == row[c.order]
           late == due[c.order]
           n == At("save", c, r, job[p].tries + 1)
<1>1. job[p] # Idle /\ job[p].pc = "save"
  BY DEF Conflict, Idle
<1>2. c \in Call /\ r \in Row /\ Sound(p, job[p], r, late) /\ job[p].tries \in 0..MaxAttempts
  BY <1>1, Working
<1>3. UNCHANGED <<row, due>>
  BY DEF Conflict
<1>4. CASE job' = [job EXCEPT ![p] = Idle]
  BY <1>3, <1>4, JobStep
<1>5. CASE job[p].tries < MaxAttempts /\ Accepts(c, r, late) /\ job' = [job EXCEPT ![p] = n]
  <2>1. ToIssue(p, c) /\ Issued(c, r) /\ (p = Watchdog /\ c.op = "change" /\ MayRestartSearch(r) => late)
    BY <1>2 DEF Sound
  <2>2. job[p].tries + 1 \in 1..MaxAttempts
    BY <1>2, <1>5, MaxAttemptsPositive
  <2>3. n.call = c
    BY DEF At
  <2>4. n \in Busy /\ Sound(p, n, r, late)
    <3> HIDE DEF r, late, c
    <3> QED
      BY <1>2, <1>5, <2>1, <2>2, ReadSound
  <2> HIDE DEF n
  <2>5. QED
    BY <1>3, <1>5, <2>3, <2>4, JobStep
<1>6. QED
  BY <1>3, <1>4, <1>5 DEF Conflict, Become

(* The clock keeps the invariant and is one operation of the life cycle.    *)
LEMMA DeadlinePassesStep ==
  ASSUME IInv, NEW o \in Order, DeadlinePasses(o)
  PROVE  IInv' /\ Lifecycle!Operation(o)
<1>1. TypeOK'
  BY DEF DeadlinePasses, IInv, TypeOK
<1>2. RowsGood'
  BY DEF DeadlinePasses, IInv, TypeOK, RowsGood, Good
<1>3. JobsSound'
  <2> SUFFICES ASSUME NEW q \in Process, job'[q] # Idle
               PROVE  Sound(q, job'[q], row'[job'[q].call.order], due'[job'[q].call.order])
    BY DEF JobsSound
  <2> DEFINE j == job[q]
             x == j.call.order
  <2>1. job' = job /\ row' = row /\ due' = [due EXCEPT ![o] = TRUE]
    BY DEF DeadlinePasses
  <2>2. j \in Busy /\ x \in Order /\ row[x] \in Row /\ Sound(q, j, row[x], due[x])
    BY <2>1, Working
  <2>3. due[x] \in BOOLEAN
    BY <2>2 DEF IInv, TypeOK
  <2>4. due'[x] = due[x] \/ due'[x] = TRUE
    BY <2>1, <2>2 DEF IInv, TypeOK
  <2>5. Sound(q, j, row[x], due'[x])
    BY <2>2, <2>3, <2>4, SoundAfterDeadline
  <2>6. QED
    BY <2>1, <2>5
<1>4. Lifecycle!DeadlinePasses(o)
  BY DEF DeadlinePasses, Lifecycle!DeadlinePasses
<1>5. QED
  BY <1>1, <1>2, <1>3, <1>4 DEF IInv, Lifecycle!Operation

-----------------------------------------------------------------------------
(* Theorems *)

(* The invariant holds of any table of new and old rows and idle goroutines.*)
LEMMA InitHolds == Init => IInv
<1> SUFFICES ASSUME Init PROVE IInv
  OBVIOUS
<1>1. RowsGood
  BY InitialRowsGood DEF Init, RowsGood
<1>2. TypeOK
  BY <1>1 DEF Init, TypeOK, RowsGood, Good
<1>3. JobsSound
  BY DEF Init, JobsSound
<1>4. QED
  BY <1>1, <1>2, <1>3 DEF IInv

(* Every step keeps the invariant, and is a step of the abstract life      *)
(* cycle on one order or leaves the table alone.                           *)
LEMMA StepHolds ==
  ASSUME IInv, [Next]_vars
  PROVE  IInv' /\ (UNCHANGED <<row, due>> \/ Lifecycle!Next)
<1> DEFINE Goal == IInv' /\ (UNCHANGED <<row, due>> \/ Lifecycle!Next)
<1>a. ASSUME NEW o \in Order, IInv', Lifecycle!Operation(o) PROVE Goal
  BY <1>a DEF Lifecycle!Next
<1>b. ASSUME NEW p \in Process, job[p] # Idle, IInv', Lifecycle!Operation(job[p].call.order)
      PROVE  Goal
  BY <1>a, <1>b, Working
<1>1. ASSUME NEW p \in Handler, HandlerRead(p) PROVE Goal
  BY <1>1, HandlerReadStep
<1>2. ASSUME WatchdogRead PROVE Goal
  BY <1>2, WatchdogReadStep
<1>3. ASSUME NEW p \in Process, Step(p) PROVE Goal
  <2>1. CASE AutoCancel(p)
    BY <2>1, AutoCancelStep
  <2>2. CASE Conflict(p)
    BY <2>2, ConflictStep
  <2>3. CASE ChangeStatus(p)
    <3>1. job[p] # Idle
      BY <2>3 DEF ChangeStatus, Saving, Idle
    <3>2. QED
      BY <2>3, <3>1, <1>b, ChangeStatusStep
  <2>4. CASE MoneyMoved(p)
    BY <2>4, MoneyMovedStep
  <2>5. CASE PersistPaymentState(p)
    <3>1. job[p] # Idle
      BY <2>5 DEF PersistPaymentState, Idle
    <3>2. QED
      BY <2>5, <3>1, <1>b, PersistPaymentStateStep
  <2>6. CASE PersistConflict(p)
    BY <2>6, PersistConflictStep
  <2>7. CASE CreditCashback(p)
    BY <2>7, JobStep DEF CreditCashback, Become
  <2>8. CASE OnPaymentHeld(p)
    <3>1. job[p] # Idle
      BY <2>8 DEF OnPaymentHeld, Saving, Idle
    <3>2. QED
      BY <2>8, <3>1, <1>b, OnPaymentHeldStep
  <2>9. CASE OnPaymentFailed(p)
    <3>1. job[p] # Idle
      BY <2>9 DEF OnPaymentFailed, Saving, Idle
    <3>2. QED
      BY <2>9, <3>1, <1>b, OnPaymentFailedStep
  <2>10. CASE AssignCourier(p)
    <3>1. job[p] # Idle
      BY <2>10 DEF AssignCourier, Saving, Idle
    <3>2. QED
      BY <2>10, <3>1, <1>b, AssignCourierStep
  <2>11. CASE SetPreparationTime(p)
    <3>1. job[p] # Idle
      BY <2>11 DEF SetPreparationTime, Saving, Idle
    <3>2. QED
      BY <2>11, <3>1, <1>b, SetPreparationTimeStep
  <2>12. CASE RestartCourierSearch(p)
    <3>1. job[p] # Idle
      BY <2>12 DEF RestartCourierSearch, Saving, Idle
    <3>2. QED
      BY <2>12, <3>1, <1>b, RestartCourierSearchStep
  <2>13. CASE EnsureCourierSearchDeadline(p)
    <3>1. job[p] # Idle
      BY <2>13 DEF EnsureCourierSearchDeadline, Saving, Idle
    <3>2. QED
      BY <2>13, <3>1, <1>b, EnsureCourierSearchDeadlineStep
  <2>14. CASE MarkCourierNotFound(p)
    <3>1. job[p] # Idle
      BY <2>14 DEF MarkCourierNotFound, Saving, Idle
    <3>2. QED
      BY <2>14, <3>1, <1>b, MarkCourierNotFoundStep
  <2>15. QED
    BY <1>3, <2>1, <2>2, <2>3, <2>4, <2>5, <2>6, <2>7, <2>8, <2>9, <2>10, <2>11,
       <2>12, <2>13, <2>14 DEF Step
<1>4. ASSUME NEW p \in Process, Abandon(p) PROVE Goal
  BY <1>4, JobStep DEF Abandon, Become
<1>5. ASSUME Crash PROVE Goal
  <2>1. UNCHANGED <<row, due>> /\ job' = [p \in Process |-> Idle]
    BY <1>5 DEF Crash
  <2>2. TypeOK' /\ RowsGood'
    BY <2>1 DEF IInv, TypeOK, RowsGood
  <2>3. JobsSound'
    BY <2>1 DEF JobsSound
  <2>4. QED
    BY <2>1, <2>2, <2>3 DEF IInv
<1>6. ASSUME NEW o \in Order, DeadlinePasses(o) PROVE Goal
  BY <1>6, <1>a, DeadlinePassesStep
<1>7. ASSUME UNCHANGED vars PROVE Goal
  BY <1>7 DEF vars, IInv, TypeOK, RowsGood, JobsSound
<1>8. QED
  BY <1>1, <1>2, <1>3, <1>4, <1>5, <1>6, <1>7 DEF Next

(* Rows stay good and goroutines sound, whatever the requests, the watchdog,*)
(* errors and crashes do.                                                   *)
THEOREM Invariance == Spec => []IInv
<1>1. Init => IInv
  BY InitHolds
<1>2. IInv /\ [Next]_vars => IInv'
  BY StepHolds
<1>3. QED
  BY <1>1, <1>2, PTL DEF Spec

(* The rows, flags and goroutines have their types. *)
THEOREM TypeCorrect == Spec => []TypeOK
<1>1. IInv => TypeOK
  BY DEF IInv
<1>2. QED
  BY <1>1, Invariance, PTL

(* No unpaid card or wallet order gets beyond "created". *)
THEOREM PaidBeforeKitchenHolds == Spec => []PaidBeforeKitchen
<1>1. IInv => PaidBeforeKitchen
  BY DEF IInv, RowsGood, Good, PaidBeforeKitchen, Lifecycle!PaidBeforeKitchen,
         RequiresPrepayment, Lifecycle!RequiresPrepayment, Settled, Lifecycle!Settled,
         Kitchen, Lifecycle!Kitchen
<1>2. QED
  BY <1>1, Invariance, PTL

(* The courier-search fields of every row agree with its status. *)
THEOREM SearchIsConsistentHolds == Spec => []SearchIsConsistent
<1>1. IInv => SearchIsConsistent
  BY DEF IInv, RowsGood, Good, SearchIsConsistent, Lifecycle!SearchIsConsistent,
         SearchConsistent, Lifecycle!SearchConsistent, AwaitsCourier, Lifecycle!AwaitsCourier
<1>2. QED
  BY <1>1, Invariance, PTL

(* Food leaves the restaurant only with a courier on the order. *)
THEOREM CourierBeforePickupHolds == Spec => []CourierBeforePickup
<1>1. IInv => CourierBeforePickup
  BY DEF IInv, RowsGood, Good, CourierBeforePickup, Lifecycle!CourierBeforePickup
<1>2. QED
  BY <1>1, Invariance, PTL

(* The service on stale copies implements the life cycle in which every    *)
(* operation is atomic.                                                    *)
THEOREM Refinement == Spec => ImplementsLifecycle
<1>1. Init => Lifecycle!Init
  BY SameRows DEF Init, Lifecycle!Init
<1>2. IInv /\ [Next]_vars => [Lifecycle!Next]_(Lifecycle!vars)
  BY StepHolds DEF Lifecycle!vars
<1>3. QED
  BY <1>1, <1>2, Invariance, PTL DEF Spec, ImplementsLifecycle, Lifecycle!Spec

-----------------------------------------------------------------------------
(* Action properties.  They follow from the refinement: it is enough to    *)
(* look at the operations of the life cycle on a good row.                 *)

(* An operation of the life cycle on one order touches no other order, and *)
(* keeps of its row what Evolves says.                                     *)
LEMMA OperationEvolves ==
  ASSUME IInv, NEW o \in Order, Lifecycle!Operation(o)
  PROVE  /\ \A x \in Order \ {o} : row'[x] = row[x]
         /\ row'[o] = row[o] \/ Evolves(row[o], row'[o])
<1> DEFINE r == row[o]
           Goal == /\ \A x \in Order \ {o} : row'[x] = row[x]
                   /\ row'[o] = row[o] \/ Evolves(row[o], row'[o])
<1>1. /\ row \in [Order -> Row] /\ r \in Row /\ Good(r, due[o])
  BY DEF IInv, TypeOK, RowsGood
<1>2. ASSUME NEW new, NEW late, Lifecycle!Write(o, new, late), Evolves(r, Written(new))
      PROVE  Goal
  <2>1. row' = [row EXCEPT ![o] = Written(new)]
    BY <1>2, SameRows DEF Lifecycle!Write
  <2>2. QED
    BY <2>1, <1>1, <1>2
<1>3. ASSUME NEW to \in Status, NEW by \in Actor, Lifecycle!ChangeStatus(o, to, by) PROVE Goal
  <2>1. MayChangeStatus(r, to, by)
    BY <1>3, SameRules DEF Lifecycle!ChangeStatus
  <2>2. Evolves(r, Written(ChangedStatus(r, to, by)))
    BY <2>1, <1>1, ChangeGood
  <2>3. Lifecycle!Write(o, ChangedStatus(r, to, by), FALSE)
    BY <1>3, SameRows DEF Lifecycle!ChangeStatus
  <2>4. QED
    BY <2>2, <2>3, <1>2
<1>4. CASE Lifecycle!PaymentHeld(o)
  <2>1. Evolves(r, Written(Held(r)))
    BY <1>1, HeldGood
  <2>2. Lifecycle!Write(o, Held(r), due[o])
    BY <1>4, SameRows DEF Lifecycle!PaymentHeld
  <2>3. QED
    BY <2>1, <2>2, <1>2
<1>5. CASE Lifecycle!PaymentLoses(o)
  <2>1. AwaitingPayment(r) /\ r.status \notin Terminal
    BY <1>5, SameRules DEF Lifecycle!PaymentLoses, Lifecycle!Terminal, Terminal
  <2>2. Evolves(r, Written(PaymentLost(r)))
    BY <2>1, <1>1, LostGood
  <2>3. Lifecycle!Write(o, PaymentLost(r), due[o])
    BY <1>5, SameRows DEF Lifecycle!PaymentLoses
  <2>4. QED
    BY <2>2, <2>3, <1>2
<1>6. ASSUME NEW state \in Pay, Lifecycle!PaymentRecorded(o, state) PROVE Goal
  <2>1. MayRecord(r, state)
    BY <1>6, SameRules DEF Lifecycle!PaymentRecorded
  <2>2. Evolves(r, Written(Recorded(r, state)))
    BY <2>1, <1>1, RecordedGood DEF MayRecord
  <2>3. Lifecycle!Write(o, Recorded(r, state), due[o])
    BY <1>6, SameRows DEF Lifecycle!PaymentRecorded
  <2>4. QED
    BY <2>2, <2>3, <1>2
<1>7. ASSUME NEW c \in Courier, Lifecycle!AssignCourier(o, c) PROVE Goal
  <2>1. MayAssign(r) /\ r.type = "delivery" /\ r.status # "created"
    BY <1>7, SameRules DEF Lifecycle!AssignCourier
  <2>2. Evolves(r, Written(Assigned(r, c)))
    BY <2>1, <1>1, AssignedGood
  <2>3. Lifecycle!Write(o, Assigned(r, c), FALSE)
    BY <1>7, SameRows DEF Lifecycle!AssignCourier
  <2>4. QED
    BY <2>2, <2>3, <1>2
<1>8. CASE Lifecycle!SetPreparationTime(o)
  <2>1. Evolves(r, Written(r))
    BY <1>1, TouchGood
  <2>2. Lifecycle!Write(o, r, due[o])
    BY <1>8 DEF Lifecycle!SetPreparationTime
  <2>3. QED
    BY <2>1, <2>2, <1>2
<1>9. CASE Lifecycle!RestartSearch(o)
  <2>1. r.status = "ready" /\ AwaitsCourier(r)
    BY <1>9, SameRules DEF Lifecycle!RestartSearch, MayRestartSearch
  <2>2. Evolves(r, Written(Searching(r)))
    BY <2>1, <1>1, SearchingGood
  <2>3. Lifecycle!Write(o, Searching(r), FALSE)
    BY <1>9, SameRows DEF Lifecycle!RestartSearch
  <2>4. QED
    BY <2>2, <2>3, <1>2
<1>10. ASSUME NEW late \in BOOLEAN, Lifecycle!EnsureDeadline(o, late) PROVE Goal
  <2>1. r.status = "ready" /\ AwaitsCourier(r)
    BY <1>10, SameRules DEF Lifecycle!EnsureDeadline, MissesDeadline
  <2>2. Evolves(r, Written(Searching(r)))
    BY <2>1, <1>1, SearchingGood
  <2>3. Lifecycle!Write(o, Searching(r), late)
    BY <1>10, SameRows DEF Lifecycle!EnsureDeadline
  <2>4. QED
    BY <2>2, <2>3, <1>2
<1>11. CASE Lifecycle!MarkNotFound(o)
  <2>1. r.status = "ready" /\ AwaitsCourier(r)
    BY <1>11, SameRules DEF Lifecycle!MarkNotFound, CourierSearchExpired
  <2>2. Evolves(r, Written(MarkedNotFound(r)))
    BY <2>1, <1>1, MarkedGood
  <2>3. Lifecycle!Write(o, MarkedNotFound(r), FALSE)
    BY <1>11, SameRows DEF Lifecycle!MarkNotFound
  <2>4. QED
    BY <2>2, <2>3, <1>2
<1>12. CASE Lifecycle!DeadlinePasses(o)
  BY <1>12 DEF Lifecycle!DeadlinePasses
<1>13. QED
  BY <1>3, <1>4, <1>5, <1>6, <1>7, <1>8, <1>9, <1>10, <1>11, <1>12
     DEF Lifecycle!Operation, Status, Lifecycle!Status, Actor, Lifecycle!Actor, Pay, Lifecycle!Pay

(* A closed order is never reopened and a courier never replaced, by no    *)
(* interleaving of any number of requests (service.go:582-591, 830-842).   *)
THEOREM ClosedIsFinalHolds == Spec => ClosedIsFinal
<1> DEFINE Kept(o) == /\ row[o].status \in Terminal =>
                           /\ row'[o].status = row[o].status
                           /\ row'[o].courier = row[o].courier
                      /\ row[o].courier # None => row'[o].courier = row[o].courier
<1>1. ASSUME IInv, [Next]_vars PROVE \A o \in Order : Kept(o)
  <2>1. CASE UNCHANGED <<row, due>>
    BY <2>1
  <2>2. ASSUME NEW x \in Order, Lifecycle!Operation(x) PROVE \A o \in Order : Kept(o)
    BY <1>1, <2>2, OperationEvolves DEF Evolves
  <2>3. QED
    BY <1>1, <2>1, <2>2, StepHolds DEF Lifecycle!Next
<1>2. IInv /\ [Next]_vars =>
        [\A o \in Order :
           /\ row[o].status \in Lifecycle!Terminal =>
                row'[o].status = row[o].status /\ row'[o].courier = row[o].courier
           /\ row[o].courier # None => row'[o].courier = row[o].courier]_(Lifecycle!vars)
  BY <1>1 DEF Terminal, Lifecycle!Terminal
<1>3. QED
  BY <1>2, Invariance, PTL DEF Spec, ClosedIsFinal, Lifecycle!ClosedIsFinal

(* Only ChangeStatus and the loss of a payment touch a status.              *)
LEMMA StatusWrites ==
  ASSUME IInv, NEW o \in Order, Lifecycle!Operation(o), row'[o].status # row[o].status
  PROVE  \/ \E to \in Status, by \in Actor :
              /\ MayChangeStatus(row[o], to, by)
              /\ by = "system" => due[o]
              /\ row'[o] = Written(ChangedStatus(row[o], to, by))
         \/ /\ AwaitingPayment(row[o]) /\ row[o].status \notin Terminal
            /\ row'[o] = Written(PaymentLost(row[o]))
<1> DEFINE r == row[o]
           Keeps(new) == new \in Row /\ new.status = r.status
<1>1. row \in [Order -> Row] /\ r \in Row
  BY DEF IInv, TypeOK
<1>2. ASSUME NEW new, NEW late, Lifecycle!Write(o, new, late)
      PROVE  row'[o] = Written(new)
  BY <1>1, <1>2, SameRows DEF Lifecycle!Write
<1>3. ASSUME NEW new, NEW late, Lifecycle!Write(o, new, late), Keeps(new) PROVE FALSE
  BY <1>2, <1>3, WrittenFields
<1>4. /\ Keeps(r) /\ Keeps(Held(r)) /\ Keeps(Searching(r)) /\ Keeps(MarkedNotFound(r))
      /\ \A state \in Pay : Keeps(Recorded(r, state))
      /\ \A c \in Courier : Keeps(Assigned(r, c))
  BY <1>1 DEF Held, Searching, MarkedNotFound, Recorded, Assigned, Row, Pay, Dispatch
<1> HIDE DEF Keeps
<1>5. ASSUME NEW to \in Status, NEW by \in Actor, Lifecycle!ChangeStatus(o, to, by)
      PROVE  /\ MayChangeStatus(r, to, by)
             /\ by = "system" => due[o]
             /\ row'[o] = Written(ChangedStatus(r, to, by))
  BY <1>5, <1>2, SameRules, SameRows DEF Lifecycle!ChangeStatus
<1>6. ASSUME Lifecycle!PaymentLoses(o)
      PROVE  /\ AwaitingPayment(r) /\ r.status \notin Terminal
             /\ row'[o] = Written(PaymentLost(r))
  BY <1>6, <1>2, SameRules, SameRows
     DEF Lifecycle!PaymentLoses, Lifecycle!Terminal, Terminal
<1>7. ~ Lifecycle!PaymentHeld(o)
  BY <1>3, <1>4, SameRows DEF Lifecycle!PaymentHeld
<1>8. ASSUME NEW state \in Pay PROVE ~ Lifecycle!PaymentRecorded(o, state)
  BY <1>3, <1>4, SameRows DEF Lifecycle!PaymentRecorded
<1>9. ASSUME NEW c \in Courier PROVE ~ Lifecycle!AssignCourier(o, c)
  BY <1>3, <1>4, SameRows DEF Lifecycle!AssignCourier
<1>10. ~ Lifecycle!SetPreparationTime(o)
  BY <1>3, <1>4 DEF Lifecycle!SetPreparationTime
<1>11. ~ Lifecycle!RestartSearch(o)
  BY <1>3, <1>4, SameRows DEF Lifecycle!RestartSearch
<1>12. ASSUME NEW late \in BOOLEAN PROVE ~ Lifecycle!EnsureDeadline(o, late)
  BY <1>3, <1>4, SameRows DEF Lifecycle!EnsureDeadline
<1>13. ~ Lifecycle!MarkNotFound(o)
  BY <1>3, <1>4, SameRows DEF Lifecycle!MarkNotFound
<1>14. ~ Lifecycle!DeadlinePasses(o)
  BY DEF Lifecycle!DeadlinePasses
<1>15. QED
  BY <1>5, <1>6, <1>7, <1>8, <1>9, <1>10, <1>11, <1>12, <1>13, <1>14
     DEF Lifecycle!Operation, Status, Lifecycle!Status, Actor, Lifecycle!Actor, Pay, Lifecycle!Pay

(* What the status and the actor of a row are after each of the two.        *)
LEMMA StatusFields ==
  ASSUME NEW r \in Row
  PROVE  /\ \A to \in Status, by \in Actor :
              /\ Written(ChangedStatus(r, to, by)).status = to
              /\ Written(ChangedStatus(r, to, by)).by = by
         /\ Written(PaymentLost(r)).status = "cancelled"
         /\ Written(PaymentLost(r)).by = "system"
<1>1. ASSUME NEW to \in Status, NEW by \in Actor
      PROVE  /\ Written(ChangedStatus(r, to, by)).status = to
             /\ Written(ChangedStatus(r, to, by)).by = by
  <2> DEFINE m == [r EXCEPT !.status = to, !.by = by]
  <2>1. m \in Row /\ m.status = to /\ m.by = by
    BY DEF Row
  <2> HIDE DEF m
  <2>2. LET n == DispatchPolicy(m) IN n \in Row /\ n.status = to /\ n.by = by
    BY <2>1, PolicyKeepsRow, PolicyFields
  <2>3. Written(DispatchPolicy(m)).status = to /\ Written(DispatchPolicy(m)).by = by
    BY <2>2, WrittenFields
  <2>4. QED
    BY <2>3 DEF ChangedStatus, m
<1>2. /\ PaymentLost(r) \in Row /\ PaymentLost(r).status = "cancelled"
      /\ PaymentLost(r).by = "system"
  BY DEF PaymentLost, Row, Pay, Status, Actor
<1>3. QED
  BY <1>1, <1>2, WrittenFields

(* The system and the restaurant never cancel a ready order that waits for *)
(* a courier before the search has failed (statemachine.go:143-164), nor   *)
(* the system before the restaurant's time is over.                        *)
THEOREM NoHastyCancelHolds == Spec => NoHastyCancel
<1> DEFINE Patient(o) ==
      /\ row[o].status = "ready" /\ row'[o].status = "cancelled"
      /\ row[o].type = "delivery" /\ row'[o].by # "admin"
      => /\ row[o].courier = None /\ row[o].dispatch = "not_found"
         /\ row'[o].by = "system" => due[o]
<1>1. ASSUME IInv, [Next]_vars, NEW o \in Order PROVE Patient(o)
  <2> SUFFICES ASSUME row[o].status = "ready", row'[o].status = "cancelled",
                      row[o].type = "delivery", row'[o].by # "admin"
               PROVE  /\ row[o].courier = None /\ row[o].dispatch = "not_found"
                      /\ row'[o].by = "system" => due[o]
    OBVIOUS
  <2>1. row[o] \in Row /\ Good(row[o], due[o])
    BY <1>1 DEF IInv, TypeOK, RowsGood
  <2>2. Lifecycle!Operation(o)
    <3>1. PICK x \in Order : Lifecycle!Operation(x)
      BY <1>1, StepHolds DEF Lifecycle!Next
    <3>2. QED
      BY <1>1, <3>1, OperationEvolves
  <2>3. ~ AwaitingPayment(row[o])
    BY <2>1 DEF Good, AwaitingPayment, Kitchen
  <2>4. PICK to \in Status, by \in Actor :
          /\ MayChangeStatus(row[o], to, by)
          /\ by = "system" => due[o]
          /\ row'[o] = Written(ChangedStatus(row[o], to, by))
    BY <1>1, <2>2, <2>3, StatusWrites
  <2>5. to = "cancelled" /\ row'[o].by = by
    BY <2>1, <2>4, StatusFields
  <2>6. by \in {"restaurant", "system"}
    BY <2>1, <2>4, <2>5 DEF MayChangeStatus, ValidOrderTransition, Edges, CommonEdges,
                             DeliveryEdges
  <2>7. QED
    BY <2>4, <2>5, <2>6 DEF MayChangeStatus, ValidOrderTransition, CancelNeedsNotFound
<1>2. IInv /\ [Next]_vars =>
        [\A o \in Order :
           /\ row[o].status = "ready" /\ row'[o].status = "cancelled"
           /\ row[o].type = "delivery" /\ row'[o].by # "admin"
           => /\ row[o].courier = None /\ row[o].dispatch = "not_found"
              /\ row'[o].by = "system" => due[o]]_(Lifecycle!vars)
  BY <1>1
<1>3. QED
  BY <1>2, Invariance, PTL DEF Spec, NoHastyCancel, Lifecycle!NoHastyCancel

(* Each History entry names the status its step started from: a row of the *)
(* transition table, or "created" for a lost payment (service.go:559-561). *)
THEOREM HistoryIsTrueHolds == Spec => HistoryIsTrue
<1> DEFINE True(o) ==
      row'[o].status # row[o].status =>
        \/ <<row[o].status, row'[o].status, row'[o].by>> \in Edges(row[o].type)
        \/ <<row[o].status, row'[o].status, row'[o].by>> = <<"created", "cancelled", "system">>
<1>1. ASSUME IInv, [Next]_vars, NEW o \in Order PROVE True(o)
  <2> SUFFICES ASSUME row'[o].status # row[o].status
               PROVE  \/ <<row[o].status, row'[o].status, row'[o].by>> \in Edges(row[o].type)
                      \/ <<row[o].status, row'[o].status, row'[o].by>>
                           = <<"created", "cancelled", "system">>
    OBVIOUS
  <2>1. row[o] \in Row /\ Good(row[o], due[o])
    BY <1>1 DEF IInv, TypeOK, RowsGood
  <2>2. Lifecycle!Operation(o)
    <3>1. PICK x \in Order : Lifecycle!Operation(x)
      BY <1>1, StepHolds DEF Lifecycle!Next
    <3>2. QED
      BY <1>1, <3>1, OperationEvolves
  <2>3. CASE \E to \in Status, by \in Actor :
               /\ MayChangeStatus(row[o], to, by)
               /\ by = "system" => due[o]
               /\ row'[o] = Written(ChangedStatus(row[o], to, by))
    BY <2>1, <2>3, StatusFields DEF MayChangeStatus, ValidOrderTransition
  <2>4. CASE /\ AwaitingPayment(row[o]) /\ row[o].status \notin Terminal
             /\ row'[o] = Written(PaymentLost(row[o]))
    <3>1. row[o].status = "created"
      BY <2>1, <2>4 DEF Good, AwaitingPayment, Kitchen, Terminal, Row, Status
    <3>2. QED
      BY <2>1, <2>4, <3>1, StatusFields
  <2>5. QED
    BY <1>1, <2>2, <2>3, <2>4, StatusWrites
<1>2. IInv /\ [Next]_vars =>
        [\A o \in Order :
           row'[o].status # row[o].status =>
             \/ <<row[o].status, row'[o].status, row'[o].by>>
                   \in Lifecycle!Edges(row[o].type)
             \/ <<row[o].status, row'[o].status, row'[o].by>>
                   = <<"created", "cancelled", "system">>]_(Lifecycle!vars)
  BY <1>1 DEF Edges, CommonEdges, DeliveryEdges, DineInEdges,
              Lifecycle!Edges, Lifecycle!CommonEdges, Lifecycle!DeliveryEdges, Lifecycle!DineInEdges
<1>3. QED
  BY <1>2, Invariance, PTL DEF Spec, HistoryIsTrue, Lifecycle!HistoryIsTrue
=============================================================================
