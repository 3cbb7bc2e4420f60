------------------------- MODULE CardPaymentsProofs -------------------------
(***************************************************************************)
(* Proofs about the card payments: what their runs check holds for any     *)
(* number of attempts, goroutines and in every setting.                    *)
(*                                                                         *)
(* No safety property is inductive by itself.  The table stays behind the  *)
(* bank only because every record a goroutine has read, and every status it*)
(* is about to write, is behind the bank too, and the bank only moves on: a*)
(* stale copy may undo news, but it never invents any.  An order is charged*)
(* once because it is accepted once, and who takes the money is the one    *)
(* goroutine that accepted it.  And an attempt has a free row because every*)
(* goroutine that is about to insert one counted before it began.          *)
(***************************************************************************)
EXTENDS CardPayments, FiniteSetTheorems, WellFoundedInduction, TLAPS

Charging(j) == j.pc \in {"capture", "take"}
Charged == {p \in Payment : bank[p] \in {"captured", "refunded"}}
SomeFunded == \E p \in Payment : bank[p] \in Funded

(* What the status of a record says has happened at the bank.              *)
Behind(status, p) ==
  /\ status = "held"     => bank[p] \in Funded
  /\ status = "paid"     => bank[p] \in {"captured", "refunded"}
  /\ status = "canceled" => bank[p] \in {"released", "dead"}
  /\ status = "refunded" => bank[p] = "refunded"

TableBehind == \A p \in Payment : Behind(payments[p].status, p)

(* What a goroutine has read, and what it is about to write.               *)
NewsBehind(j) ==
  /\ j.pc # "idle" => \A p \in Payment : Behind(j.list[p].status, p)
  /\ j.pc = "apply" => Behind(j.next, j.payment)
  /\ j.pc = "captured" => bank[j.payment] \in {"captured", "refunded"}
  /\ j.pc = "extra_saved" => bank[Max(j.queue)] = "released"
  /\ j.pc = "released" =>
       bank[Max(j.queue)] =
         IF j.list[Max(j.queue)].status = "held" THEN "released" ELSE "refunded"
  /\ j.pc = "held" => SomeFunded

(* Where a goroutine may be, and with what in its hands.                   *)
OnOne == {"prepare", "link", "refused", "query", "review", "apply", "take", "captured"}
OnQueue == {"extra_saved", "released", "sweep"}
Hands(j) ==
  /\ j.pc \in OnOne => j.payment \in Payment /\ payments[j.payment] # Absent
  /\ j.pc \in OnQueue => j.queue # {}
  /\ j.pc # "idle" => \A p \in j.queue : payments[p] # Absent
  /\ j.pc = "close" => j.next \in {"create", "end"}
  /\ j.pc \in {"release", "undo", "released"} => j.next \in {"refunded", "failed"}
  /\ j.pc = "apply" => j.next \in PaymentStatus

GoodJob(j) == j \in {Idle} \cup Busy /\ NewsBehind(j) /\ Hands(j)

(* A new row is told to the bank by its own goroutine, once.               *)
Preparing ==
  /\ \A p \in Payment : payments[p] = Absent => bank[p] = "none"
  /\ \A h \in Process : job[h].pc = "prepare" => bank[job[h].payment] = "none"
  /\ \A g, h \in Process : job[g].pc = "prepare" /\ job[h].pc = "prepare" /\ g # h
                             => job[g].payment # job[h].payment

Unused == {p \in 1..setting.attempts : payments[p] = Absent}
Starting == {g \in Process : job[g].pc = "close" /\ job[g].next = "create"}
Room == Cardinality(Starting) <= Cardinality(Unused)

(* Only the goroutine that accepted the order takes the money.             *)
OneCharge ==
  /\ \A h \in Process : Charging(job[h]) => /\ order.status \notin {"created", "rejected"}
                                            /\ Charged = {}
  /\ \A g, h \in Process : Charging(job[g]) /\ Charging(job[h]) => g = h
  /\ order.status \in {"created", "rejected"} => Charged = {}
  /\ \A p, q \in Charged : p = q

IInv ==
  /\ setting \in Settings /\ TypeOK
  /\ TableBehind /\ \A h \in Process : GoodJob(job[h])
  /\ order.pay = "held" => SomeFunded
  /\ Preparing /\ Room /\ OneCharge

-----------------------------------------------------------------------------
(* Finite sets of attempts *)

(* Among sets there is always one that no other is part of.                *)
LEMMA Smallest ==
  ASSUME NEW f, NEW S, S # {}, NEW U, \A x \in S : f[x] \in SUBSET U /\ IsFiniteSet(f[x])
  PROVE  \E x \in S : \A y \in S : f[y] \subseteq f[x] => f[y] = f[x]
<1> DEFINE T == {f[x] : x \in S}
<1> DEFINE R == StrictSubsetOrdering(U)
<1> DEFINE F == FiniteSubsetsOf(U)
<1>1. IsWellFoundedOn(R, F)
  BY FS_StrictSubsetOrderingWellFounded
<1>2. T \subseteq F /\ T # {}
  BY DEF FiniteSubsetsOf
<1>3. \E t \in T : \A u \in T : ~ (<<u, t>> \in R)
  <2> HIDE DEF T, R, F
  <2>1. QED
    BY <1>1, <1>2, WFMin
<1>4. PICK x \in S : \A y \in S : ~ (<<f[y], f[x]>> \in R)
  <2> HIDE DEF R
  <2>1. QED
    BY <1>3
<1>5. \A y \in S : f[y] \in SUBSET U
  OBVIOUS
<1>6. \A y \in S : f[y] \subseteq f[x] => f[y] = f[x]
  BY <1>4, <1>5 DEF StrictSubsetOrdering
<1>7. QED
  BY <1>6

(* The oldest attempt of a set (slices are sorted by created_at).          *)
LEMMA MinOf ==
  ASSUME NEW S \in SUBSET Nat, S # {}
  PROVE  Min(S) \in S /\ \A y \in S : Min(S) <= y
<1> DEFINE f == [x \in S |-> 0..x]
<1>1. \A x \in S : f[x] \in SUBSET Nat /\ IsFiniteSet(f[x])
  BY FS_Interval
<1>2. \E x \in S : \A y \in S : f[y] \subseteq f[x] => f[y] = f[x]
  <2> HIDE DEF f
  <2>1. QED
    BY <1>1, Smallest
<1>3. \E x \in S : \A y \in S : x <= y
  BY <1>2
<1>4. QED
  BY <1>3 DEF Min

(* The newest attempt of a set.                                            *)
LEMMA MaxOf ==
  ASSUME NEW N \in Nat, NEW S \in SUBSET (0..N), S # {}
  PROVE  Max(S) \in S /\ \A y \in S : Max(S) >= y
<1> DEFINE f == [x \in S |-> x..N]
<1>1. \A x \in S : f[x] \in SUBSET Nat /\ IsFiniteSet(f[x])
  BY FS_Interval
<1>2. \E x \in S : \A y \in S : f[y] \subseteq f[x] => f[y] = f[x]
  <2> HIDE DEF f
  <2>1. QED
    BY <1>1, Smallest
<1>3. \E x \in S : \A y \in S : x >= y
  BY <1>2
<1>4. QED
  BY <1>3 DEF Max

(* Both, for the attempts of the order.                                    *)
LEMMA Ends ==
  ASSUME NEW S \in SUBSET Payment, S # {}
  PROVE  Max(S) \in S /\ Min(S) \in S
<1>1. MaxPayments \in Nat /\ S \in SUBSET (0..MaxPayments) /\ S \in SUBSET Nat
  BY FewHandlers DEF Payment
<1>2. QED
  BY <1>1, MinOf, MaxOf

(* The goroutines and the rows are finitely many.                          *)
LEMMA Finite == IsFiniteSet(Process) /\ IsFiniteSet(Payment)
<1>1. IsFiniteSet(Process)
  BY FewHandlers, FS_AddElement DEF Process
<1>2. 1 \in Int /\ MaxPayments \in Int
  BY FewHandlers
<1>3. IsFiniteSet(Payment)
  BY <1>2, FS_Interval DEF Payment
<1>4. QED
  BY <1>1, <1>3

-----------------------------------------------------------------------------
(* The bank only moves on *)

BankEdge == {<<"none", "open">>, <<"open", "held">>, <<"open", "dead">>,
             <<"held", "captured">>, <<"held", "released">>, <<"captured", "refunded">>}
Forward == \A p \in Payment : bank'[p] = bank[p] \/ <<bank[p], bank'[p]>> \in BankEdge

(* What a status says of the bank stays true.                              *)
LEMMA BehindStays ==
  ASSUME Forward, NEW p \in Payment, NEW status, Behind(status, p)
  PROVE  Behind(status, p)'
BY DEF Forward, BankEdge, Behind, Funded

(* A payment the bank funded stays one it funded.                          *)
LEMMA FundedStays ==
  ASSUME Forward, SomeFunded
  PROVE  SomeFunded'
BY DEF Forward, BankEdge, SomeFunded, Funded

(* Rows are inserted and rewritten, never taken back.                      *)
Kept == \A p \in Payment : payments[p] # Absent => payments'[p] # Absent

(* What a goroutine knows stays true while the bank moves on and rows are  *)
(* kept: nothing it read can get ahead of the bank.                        *)
LEMMA GoodJobStays ==
  ASSUME Forward, Kept, NEW j, GoodJob(j)
  PROVE  GoodJob(j)'
<1>1. j = Idle \/ (j \in Busy /\ j.queue \in SUBSET Payment)
  BY DEF GoodJob, Busy
<1>2. CASE j = Idle
  BY <1>2 DEF GoodJob, Idle, NewsBehind, Hands, OnOne, OnQueue
<1>3. CASE j \in Busy /\ j.queue \in SUBSET Payment
  <2>1. Hands(j)'
    BY <1>3 DEF GoodJob, Hands, Kept
  <2>2. /\ j.pc \in OnOne => j.payment \in Payment
        /\ j.pc \in OnQueue => Max(j.queue) \in Payment
    BY <1>3, Ends DEF GoodJob, Hands
  <2>3. j.pc # "idle" => \A p \in Payment : Behind(j.list[p].status, p)'
    BY BehindStays DEF GoodJob, NewsBehind
  <2>4. j.pc = "apply" => Behind(j.next, j.payment)'
    BY <2>2, BehindStays DEF GoodJob, NewsBehind, OnOne
  <2>5. j.pc = "captured" => bank'[j.payment] \in {"captured", "refunded"}
    BY <2>2 DEF GoodJob, NewsBehind, OnOne, Forward, BankEdge
  <2>6. j.pc = "extra_saved" => bank'[Max(j.queue)] = "released"
    BY <2>2 DEF GoodJob, NewsBehind, OnQueue, Forward, BankEdge
  <2>7. j.pc = "released" =>
          bank'[Max(j.queue)] =
            IF j.list[Max(j.queue)].status = "held" THEN "released" ELSE "refunded"
    BY <2>2 DEF GoodJob, NewsBehind, OnQueue, Forward, BankEdge
  <2>8. j.pc = "held" => SomeFunded'
    BY FundedStays DEF GoodJob, NewsBehind
  <2>9. QED
    BY <1>3, <2>1, <2>3, <2>4, <2>5, <2>6, <2>7, <2>8 DEF GoodJob, NewsBehind
<1>4. QED
  BY <1>1, <1>2, <1>3

-----------------------------------------------------------------------------
(* Goroutines as they are made *)

BusyPc == {"close", "prepare", "link", "refused", "query", "review", "apply", "held",
           "lost", "capture", "take", "captured", "extra", "extra_saved", "release",
           "undo", "released", "sweep"}

(* A goroutine that does nothing holds nothing that could be wrong.        *)
LEMMA IdleGood == GoodJob(Idle)
BY DEF GoodJob, Idle, NewsBehind, Hands, OnOne, OnQueue

(* A goroutine that has read nothing yet.                                  *)
LEMMA AtFields ==
  ASSUME NEW pc \in BusyPc
  PROVE  /\ At(pc) \in Busy /\ At(pc).pc = pc /\ At(pc).queue = {} /\ At(pc).payment = 0
         /\ At(pc).next = None /\ At(pc).list = [p \in Payment |-> Absent]
         /\ \A p \in Payment : Behind(At(pc).list[p].status, p)
<1>1. Absent \in Attempt /\ Absent.status = "absent"
  BY DEF Absent, Attempt
<1>2. [p \in Payment |-> Absent] \in [Payment -> Attempt]
  BY <1>1
<1>3. At(pc) \in Busy
  BY <1>2 DEF At, Busy, BusyPc
<1>4. QED
  BY <1>1, <1>3 DEF At, Behind

(* One that has read the record of an attempt.                             *)
LEMMA WithFields ==
  ASSUME TypeOK, TableBehind, NEW pc \in BusyPc, NEW p \in Payment
  PROVE  /\ With(pc, p) \in Busy /\ With(pc, p).pc = pc /\ With(pc, p).queue = {}
         /\ With(pc, p).payment = p /\ With(pc, p).next = None
         /\ \A q \in Payment : Behind(With(pc, p).list[q].status, q)
<1> DEFINE list == [[q \in Payment |-> Absent] EXCEPT ![p] = payments[p]]
<1>1. Absent \in Attempt /\ Absent.status = "absent" /\ payments[p] \in Attempt
  BY DEF Absent, Attempt, TypeOK
<1>2. list \in [Payment -> Attempt] /\ \A q \in Payment : Behind(list[q].status, q)
  BY <1>1 DEF TableBehind, Behind
<1> HIDE DEF list
<1>3. /\ At(pc) \in Busy /\ At(pc).pc = pc /\ At(pc).queue = {} /\ At(pc).next = None
      /\ At(pc).list = [q \in Payment |-> Absent]
  BY AtFields
<1>4. With(pc, p) = [At(pc) EXCEPT !.payment = p, !.list = list]
  <2>1. With(pc, p) = [At(pc) EXCEPT !.payment = p,
                         !.list = [At(pc).list EXCEPT ![p] = payments[p]]]
    BY <1>3 DEF With, Busy
  <2>2. QED
    BY <1>3, <2>1 DEF list
<1>5. QED
  BY <1>2, <1>3, <1>4 DEF Busy

(* One that has listed some attempts.                                      *)
LEMMA EachFields ==
  ASSUME TypeOK, TableBehind, NEW pc \in BusyPc, NEW S \in SUBSET Payment
  PROVE  /\ Each(pc, S) \in Busy /\ Each(pc, S).pc = pc /\ Each(pc, S).queue = S
         /\ Each(pc, S).payment = 0 /\ Each(pc, S).next = None
         /\ \A q \in Payment : Behind(Each(pc, S).list[q].status, q)
<1> DEFINE list == [p \in Payment |-> IF p \in S THEN payments[p] ELSE Absent]
<1>1. Absent \in Attempt /\ Absent.status = "absent" /\ \A p \in Payment : payments[p] \in Attempt
  BY DEF Absent, Attempt, TypeOK
<1>2. list \in [Payment -> Attempt] /\ \A q \in Payment : Behind(list[q].status, q)
  BY <1>1 DEF TableBehind, Behind
<1> HIDE DEF list
<1>3. /\ At(pc) \in Busy /\ At(pc).pc = pc /\ At(pc).payment = 0 /\ At(pc).next = None
  BY AtFields
<1>4. Each(pc, S) = [At(pc) EXCEPT !.queue = S, !.list = list]
  BY DEF Each, list
<1>5. QED
  BY <1>2, <1>3, <1>4 DEF Busy

-----------------------------------------------------------------------------
(* What one step changes *)

(* The table stays, or a record that is behind the bank is written.        *)
Writes == \/ payments' = payments
          \/ \E p \in Payment, r \in Attempt :
               Update(p, r) /\ r # Absent /\ payments[p] # Absent /\ Behind(r.status, p)

(* Writing a record that is behind the bank keeps the whole table behind   *)
(* it, and creates no row.                                                 *)
LEMMA WritesKeep ==
  ASSUME TypeOK, TableBehind, Forward, Writes
  PROVE  /\ payments' \in [Payment -> Attempt] /\ TableBehind'
         /\ \A p \in Payment : payments'[p] = Absent <=> payments[p] = Absent
<1>1. ASSUME NEW q \in Payment PROVE Behind(payments[q].status, q)'  /\ payments'[q] \in Attempt
                                     /\ (payments'[q] = Absent <=> payments[q] = Absent)
  <2>1. payments[q] \in Attempt /\ Behind(payments[q].status, q)
    BY DEF TypeOK, TableBehind
  <2>2. CASE payments' = payments
    BY <2>1, <2>2, BehindStays DEF Behind
  <2>3. ASSUME NEW p \in Payment, NEW r \in Attempt, Update(p, r), r # Absent,
               payments[p] # Absent, Behind(r.status, p)
        PROVE  Behind(payments[q].status, q)' /\ payments'[q] \in Attempt
               /\ (payments'[q] = Absent <=> payments[q] = Absent)
    <3>1. payments'[q] = IF q = p THEN r ELSE payments[q]
      BY <2>3 DEF Update, TypeOK
    <3>2. Behind(payments'[q].status, q)
      BY <2>1, <2>3, <3>1
    <3>3. ASSUME NEW status, Behind(status, q) PROVE Behind(status, q)'
      BY <3>3, BehindStays
    <3>4. QED
      BY <2>1, <2>3, <3>1, <3>2, <3>3, BehindStays DEF Behind
  <2>4. QED
    BY <2>2, <2>3 DEF Writes
<1>2. payments' \in [Payment -> Attempt]
  BY <1>1 DEF Writes, Update, TypeOK
<1>3. QED
  BY <1>1, <1>2 DEF TableBehind

(* One goroutine goes on, the others keep what they have.                  *)
LEMMA JobsGood ==
  ASSUME IInv, Forward, Kept, NEW h \in Process, NEW j, Become(h, j), GoodJob(j)'
  PROVE  /\ job' \in [Process -> {Idle} \cup Busy]
         /\ \A g \in Process : GoodJob(job[g])'
         /\ \A g \in Process : job'[g] = IF g = h THEN j ELSE job[g]
<1>1. job \in [Process -> {Idle} \cup Busy] /\ j \in {Idle} \cup Busy
  BY DEF IInv, TypeOK, GoodJob
<1>2. \A g \in Process : job'[g] = IF g = h THEN j ELSE job[g]
  BY <1>1 DEF Become
<1>3. ASSUME NEW g \in Process PROVE GoodJob(job[g])'
  <2>1. CASE g = h
    BY <1>2, <2>1 DEF GoodJob, NewsBehind, Hands, Behind, SomeFunded
  <2>2. CASE g # h
    <3>1. PICK k : k = job[g]
      OBVIOUS
    <3>2. GoodJob(k)'
      BY <3>1, GoodJobStays DEF IInv
    <3>3. job'[g] = k
      BY <1>2, <2>2, <3>1
    <3>4. QED
      BY <3>2, <3>3 DEF GoodJob, NewsBehind, Hands, Behind, SomeFunded
  <2>3. QED
    BY <2>1, <2>2
<1>4. QED
  BY <1>1, <1>2, <1>3 DEF Become

(* Nobody begins to prepare, and no attempt is opened at the bank.         *)
LEMMA PreparingKept ==
  ASSUME IInv, NEW h \in Process, NEW j, \A g \in Process : job'[g] = IF g = h THEN j ELSE job[g],
         j.pc = "prepare" => job[h].pc = "prepare" /\ j.payment = job[h].payment,
         \A p \in Payment : payments'[p] = Absent => payments[p] = Absent,
         \A p \in Payment : bank[p] = "none" => bank'[p] = "none"
  PROVE  Preparing'
<1>1. \A g \in Process : job'[g].pc = "prepare" => /\ job[g].pc = "prepare"
                                                   /\ job'[g].payment = job[g].payment
  OBVIOUS
<1>2. \A g \in Process : job[g].pc = "prepare" => job[g].payment \in Payment
  BY DEF IInv, GoodJob, Hands, OnOne
<1>3. QED
  BY <1>1, <1>2 DEF IInv, Preparing

(* Nobody begins an attempt, and no row is inserted.                       *)
LEMMA RoomKept ==
  ASSUME IInv, UNCHANGED setting,
         NEW h \in Process, NEW j, \A g \in Process : job'[g] = IF g = h THEN j ELSE job[g],
         j.pc = "close" => job[h].pc = "close" /\ j.next = job[h].next,
         \A p \in Payment : payments'[p] = Absent <=> payments[p] = Absent
  PROVE  Room'
<1>1. setting.attempts \in Nat /\ 1..setting.attempts \subseteq Payment
  BY Options, FewHandlers DEF IInv, Payment
<1>2. Unused' = Unused
  BY <1>1 DEF Unused
<1>3. Starting' \subseteq Starting
  BY DEF Starting
<1>4. /\ IsFiniteSet(Starting) /\ IsFiniteSet(Starting') /\ IsFiniteSet(Unused)
      /\ Cardinality(Starting') <= Cardinality(Starting)
  BY <1>1, <1>3, Finite, FS_Subset DEF Starting, Unused
<1>5. QED
  BY <1>2, <1>4, FS_CardinalityType DEF IInv, Room

(* Nobody begins to charge, no money is taken, the order is no further than*)
(* it was, but perhaps cancelled.                                          *)
LEMMA ChargeKept ==
  ASSUME IInv, NEW h \in Process, NEW j, \A g \in Process : job'[g] = IF g = h THEN j ELSE job[g],
         Charging(j) => Charging(job[h]),
         \A p \in Payment : bank'[p] \in {"captured", "refunded"} => bank[p] \in {"captured", "refunded"},
         order'.status \in {order.status, "cancelled"}
  PROVE  OneCharge'
<1>1. Charged' \subseteq Charged
  BY DEF Charged
<1>2. \A g \in Process : Charging(job[g])' => Charging(job[g])
  BY DEF Charging
<1>3. OneCharge
  BY DEF IInv
<1>4. \A g \in Process : Charging(job[g])' => /\ order'.status \notin {"created", "rejected"}
                                              /\ Charged' = {}
  BY <1>1, <1>2, <1>3 DEF OneCharge
<1>5. \A f, g \in Process : Charging(job[f])' /\ Charging(job[g])' => f = g
  BY <1>2, <1>3 DEF OneCharge
<1>6. order'.status \in {"created", "rejected"} => Charged' = {}
  BY <1>1, <1>3 DEF OneCharge
<1>7. \A p, q \in Charged' : p = q
  BY <1>1, <1>3 DEF OneCharge
<1>8. QED
  BY <1>4, <1>5, <1>6, <1>7 DEF OneCharge

(* What every other step is.                                               *)
SafeEdge == BankEdge \ {<<"none", "open">>, <<"held", "captured">>}
GoesOn(h, j) ==
  /\ Become(h, j) /\ GoodJob(j)'
  /\ j.pc = "prepare" => job[h].pc = "prepare" /\ j.payment = job[h].payment
  /\ j.pc = "close" => job[h].pc = "close" /\ j.next = job[h].next
  /\ Charging(j) => Charging(job[h])
BankGoesOn ==
  /\ bank' \in [Payment -> BankState]
  /\ \A p \in Payment : bank'[p] = bank[p] \/ <<bank[p], bank'[p]>> \in SafeEdge
OrderGoesOn ==
  \/ order' = order
  \/ /\ order' \in Row /\ order'.status \in {order.status, "cancelled"}
     /\ order'.pay = "held" => SomeFunded

(* The steps that neither insert a row nor claim the order's charge: one   *)
(* goroutine goes on, the bank goes forward, the table is written behind it. *)
LEMMA Ordinary ==
  ASSUME IInv, UNCHANGED setting, expired' \subseteq Payment, NEW h \in Process, NEW j,
         GoesOn(h, j), BankGoesOn, OrderGoesOn, Writes
  PROVE  IInv'
<1>1. Forward
  BY DEF BankGoesOn, SafeEdge, Forward
<1>2. /\ payments' \in [Payment -> Attempt] /\ TableBehind'
      /\ \A p \in Payment : payments'[p] = Absent <=> payments[p] = Absent
  BY <1>1, WritesKeep DEF IInv
<1>3. Kept
  BY <1>2 DEF Kept
<1>4. /\ job' \in [Process -> {Idle} \cup Busy]
      /\ \A g \in Process : GoodJob(job[g])'
      /\ \A g \in Process : job'[g] = IF g = h THEN j ELSE job[g]
  BY <1>1, <1>3, JobsGood DEF GoesOn
<1>5. TypeOK'
  BY <1>2, <1>4 DEF IInv, TypeOK, BankGoesOn, OrderGoesOn
<1>6. order'.pay = "held" => SomeFunded'
  BY <1>1, FundedStays DEF IInv, OrderGoesOn
<1>7. Preparing'
  <2>1. \A p \in Payment : bank[p] = "none" => bank'[p] = "none"
    BY DEF BankGoesOn, SafeEdge, BankEdge
  <2>2. QED
    BY <1>2, <1>4, <2>1, PreparingKept DEF GoesOn
<1>8. Room'
  BY <1>2, <1>4, RoomKept DEF GoesOn
<1>9. OneCharge'
  <2>1. \A p \in Payment : bank'[p] \in {"captured", "refunded"} => bank[p] \in {"captured", "refunded"}
    BY DEF BankGoesOn, SafeEdge, BankEdge
  <2>2. order'.status \in {order.status, "cancelled"}
    BY DEF OrderGoesOn
  <2>3. QED
    BY <1>4, <2>1, <2>2, ChargeKept DEF GoesOn
<1>10. QED
  BY <1>2, <1>4, <1>5, <1>6, <1>7, <1>8, <1>9 DEF IInv

(* A step that leaves the bank alone.                                      *)
LEMMA Quiet ==
  ASSUME IInv, UNCHANGED <<setting, bank, expired>>, NEW h \in Process, NEW j,
         Become(h, j), GoodJob(j),
         j.pc = "prepare" => job[h].pc = "prepare" /\ j.payment = job[h].payment,
         j.pc = "close" => job[h].pc = "close" /\ j.next = job[h].next,
         Charging(j) => Charging(job[h]),
         OrderGoesOn, Writes
  PROVE  IInv'
<1>1. Forward /\ BankGoesOn
  BY DEF Forward, BankGoesOn, IInv, TypeOK
<1>2. Kept
  BY <1>1, WritesKeep DEF IInv, Kept
<1>3. GoodJob(j)'
  BY <1>1, <1>2, GoodJobStays
<1>4. expired' \subseteq Payment
  BY DEF IInv, TypeOK
<1>5. QED
  BY <1>1, <1>3, <1>4, Ordinary DEF GoesOn

(* A goroutine that is busy, and what it has.                              *)
LEMMA BusyJob ==
  ASSUME IInv, NEW h \in Process, job[h].pc # "idle"
  PROVE  /\ job[h] \in Busy /\ GoodJob(job[h]) /\ job[h].queue \in SUBSET Payment
         /\ job[h].list \in [Payment -> Attempt] /\ job[h].next \in PaymentStatus \cup {"create", "end", None}
         /\ job[h].payment \in Payment \cup {0}
         /\ job[h].queue # {} => /\ Max(job[h].queue) \in job[h].queue
                                 /\ Min(job[h].queue) \in job[h].queue
<1>1. job[h] \in Busy /\ GoodJob(job[h])
  BY DEF IInv, TypeOK, Idle
<1>2. QED
  BY <1>1, Ends DEF Busy

(* The statuses a service writes that claim nothing, or that it has seen.  *)
LEMMA NewStatus ==
  ASSUME NEW r \in Attempt, NEW status \in PaymentStatus
  PROVE  LET n == [r EXCEPT !.status = status]
         IN n \in Attempt /\ n # Absent /\ n.status = status
BY DEF Attempt, Absent, PaymentStatus

(* A record marked for review is one that exists.                          *)
LEMMA Marked ==
  ASSUME NEW r \in Attempt
  PROVE  LET n == [r EXCEPT !.review = TRUE]
         IN n \in Attempt /\ n # Absent /\ n.status = r.status
BY DEF Attempt, Absent

-----------------------------------------------------------------------------
(* The steps, one by one *)

(* StartForOrder closes the attempts the customer gives up.                *)
LEMMA CloseOldKeeps ==
  ASSUME IInv, UNCHANGED setting, NEW h \in Process, CloseOld(h)
  PROVE  IInv'
<1> DEFINE p == Max(job[h].queue)
<1> DEFINE j == [job[h] EXCEPT !.queue = @ \ {p}]
<1>1. /\ job[h].pc = "close" /\ job[h].queue # {} /\ Become(h, j)
      /\ Update(p, [Copy(h, p) EXCEPT !.status = "failed"])
      /\ UNCHANGED <<order, expired, bank>>
  BY DEF CloseOld
<1>2. /\ job[h] \in Busy /\ GoodJob(job[h]) /\ p \in job[h].queue /\ p \in Payment
      /\ Copy(h, p) \in Attempt /\ payments[p] # Absent
  BY <1>1, BusyJob DEF Copy, GoodJob, Hands
<1> HIDE DEF p
<1>3. GoodJob(j) /\ j.pc = "close" /\ j.next = job[h].next
  BY <1>1, <1>2 DEF GoodJob, Busy, NewsBehind, Hands, OnOne, OnQueue
<1> HIDE DEF j
<1>4. Writes
  BY <1>1, <1>2, NewStatus DEF Writes, Behind, PaymentStatus
<1>5. QED
  BY <1>1, <1>3, <1>4, Quiet DEF Charging, OrderGoesOn

(* The answer of the bank is stored.                                       *)
LEMMA SaveLinkKeeps ==
  ASSUME IInv, UNCHANGED setting, NEW h \in Process, SaveLink(h)
  PROVE  IInv'
<1> DEFINE r == IF job[h].pc = "link" THEN [Fresh EXCEPT !.link = TRUE]
                                      ELSE [Fresh EXCEPT !.status = "failed"]
<1>1. /\ job[h].pc \in {"link", "refused"} /\ Become(h, Idle) /\ Update(job[h].payment, r)
      /\ UNCHANGED <<order, expired, bank>>
  BY DEF SaveLink
<1>2. job[h].payment \in Payment /\ payments[job[h].payment] # Absent
  BY <1>1, BusyJob DEF GoodJob, Hands, OnOne
<1>3. r \in Attempt /\ r # Absent /\ r.status \in {"pending", "failed"}
  BY DEF Fresh, Attempt, Absent, PaymentStatus
<1> HIDE DEF r
<1>4. Writes
  BY <1>1, <1>2, <1>3 DEF Writes, Behind
<1>5. Idle.pc = "idle"
  BY DEF Idle
<1>6. QED
  BY <1>1, <1>4, <1>5, IdleGood, Quiet DEF Charging, OrderGoesOn

(* The bank is asked: what it says is behind it.                           *)
LEMMA ProviderStatusKeeps ==
  ASSUME IInv, UNCHANGED setting, NEW h \in Process, ProviderStatus(h)
  PROVE  IInv'
<1> DEFINE p == job[h].payment
<1>1. job[h].pc = "query" /\ UNCHANGED <<order, payments, expired, bank>>
  BY DEF ProviderStatus
<1>2. job[h] \in Busy /\ GoodJob(job[h]) /\ p \in Payment /\ payments[p] # Absent
  BY <1>1, BusyJob DEF GoodJob, Hands, OnOne
<1>3. bank[p] \in BankState
  BY <1>2 DEF IInv, TypeOK
<1>4. MapStatus(bank[p]) \in PaymentStatus /\ Behind(MapStatus(bank[p]), p)
  BY <1>3 DEF MapStatus, BankState, PaymentStatus, Behind, Funded
<1>5. ASSUME NEW j, Become(h, j), j = [job[h] EXCEPT !.pc = "apply", !.next = MapStatus(bank[p])]
      PROVE  IInv'
  <2>1. GoodJob(j) /\ j.pc = "apply"
    BY <1>1, <1>2, <1>4, <1>5 DEF GoodJob, Busy, NewsBehind, Hands, OnOne, OnQueue
  <2>2. QED
    BY <1>1, <1>5, <2>1, Quiet DEF Charging, OrderGoesOn, Writes
<1>6. ASSUME NEW j, Become(h, j), j = [job[h] EXCEPT !.pc = "review"] PROVE IInv'
  <2>1. GoodJob(j) /\ j.pc = "review"
    BY <1>1, <1>2, <1>6 DEF GoodJob, Busy, NewsBehind, Hands, OnOne, OnQueue
  <2>2. QED
    BY <1>1, <1>6, <2>1, Quiet DEF Charging, OrderGoesOn, Writes
<1>7. QED
  BY <1>5, <1>6 DEF ProviderStatus

(* Nobody can tell what happened: a person has to look.                    *)
LEMMA MarkForReviewKeeps ==
  ASSUME IInv, UNCHANGED setting, NEW h \in Process, MarkForReview(h)
  PROVE  IInv'
<1> DEFINE p == job[h].payment
<1>1. /\ job[h].pc = "review" /\ Become(h, Idle) /\ UNCHANGED <<order, expired, bank>>
      /\ Update(p, [Copy(h, p) EXCEPT !.review = TRUE])
  BY DEF MarkForReview
<1>2. /\ p \in Payment /\ payments[p] # Absent /\ Copy(h, p) \in Attempt
      /\ Behind(Copy(h, p).status, p)
  BY <1>1, BusyJob DEF GoodJob, Hands, NewsBehind, OnOne, Copy
<1> HIDE DEF p
<1>3. Writes
  BY <1>1, <1>2, Marked DEF Writes
<1>4. Idle.pc = "idle"
  BY DEF Idle
<1>5. QED
  BY <1>1, <1>3, <1>4, IdleGood, Quiet DEF Charging, OrderGoesOn

(* The news is written, over a record that may be old by now.              *)
LEMMA ApplyStatusKeeps ==
  ASSUME IInv, UNCHANGED setting, NEW h \in Process, ApplyStatus(h)
  PROVE  IInv'
<1> DEFINE p == job[h].payment
<1> DEFINE status == job[h].next
<1>1. job[h].pc = "apply" /\ UNCHANGED <<order, expired, bank>>
  BY DEF ApplyStatus
<1>2. /\ job[h] \in Busy /\ GoodJob(job[h]) /\ p \in Payment /\ payments[p] # Absent
      /\ Copy(h, p) \in Attempt /\ status \in PaymentStatus /\ Behind(status, p)
  BY <1>1, BusyJob DEF GoodJob, Hands, NewsBehind, OnOne, Copy
<1>3. Idle.pc = "idle"
  BY DEF Idle
<1>4. CASE Become(h, Idle) /\ UNCHANGED payments
  BY <1>1, <1>3, <1>4, IdleGood, Quiet DEF Charging, OrderGoesOn, Writes
<1> DEFINE r == [Copy(h, p) EXCEPT !.status = status, !.review = FALSE]
<1>5. CASE /\ Update(p, r)
           /\ Become(h, CASE status \in {"held", "paid"}       -> At("held")
                          [] status \in {"canceled", "failed"} -> At("lost")
                          [] OTHER                             -> Idle)
  <2>1. r \in Attempt /\ r # Absent /\ r.status = status
    BY <1>2 DEF Attempt, Absent, PaymentStatus
  <2> HIDE DEF r
  <2>2. Writes
    BY <1>2, <1>5, <2>1 DEF Writes
  <2>3. CASE status \in {"held", "paid"}
    <3>1. Become(h, At("held"))
      BY <1>5, <2>3
    <3>2. SomeFunded
      BY <1>2, <2>3 DEF Behind, SomeFunded, Funded
    <3>3. At("held").pc = "held" /\ GoodJob(At("held"))
      BY <3>2, AtFields DEF BusyPc, GoodJob, NewsBehind, Hands, OnOne, OnQueue
    <3>4. QED
      BY <1>1, <2>2, <3>1, <3>3, Quiet DEF Charging, OrderGoesOn
  <2>4. CASE status \in {"canceled", "failed"}
    <3>1. Become(h, At("lost"))
      BY <1>5, <2>4
    <3>2. At("lost").pc = "lost" /\ GoodJob(At("lost"))
      BY AtFields DEF BusyPc, GoodJob, NewsBehind, Hands, OnOne, OnQueue
    <3>3. QED
      BY <1>1, <2>2, <3>1, <3>2, Quiet DEF Charging, OrderGoesOn
  <2>5. CASE status \notin {"held", "paid"} /\ status \notin {"canceled", "failed"}
    <3>1. Become(h, Idle)
      BY <1>5, <2>5
    <3>2. QED
      BY <1>1, <1>3, <2>2, <3>1, IdleGood, Quiet DEF Charging, OrderGoesOn
  <2>6. QED
    BY <2>3, <2>4, <2>5
<1>6. QED
  BY <1>4, <1>5 DEF ApplyStatus

(* OnPaymentHeld and OnPaymentFailed change the order only as they may.    *)
LEMMA TellOrderKeeps ==
  ASSUME IInv, UNCHANGED setting, NEW h \in Process, TellOrder(h)
  PROVE  IInv'
<1>1. job[h].pc \in {"held", "lost"} /\ UNCHANGED <<payments, expired, bank>>
  BY DEF TellOrder
<1>2. job[h] \in Busy /\ GoodJob(job[h]) /\ order \in Row
  BY <1>1, BusyJob DEF IInv, TypeOK
<1>3. OrderGoesOn
  <2>1. CASE order' = order
    BY <2>1 DEF OrderGoesOn
  <2>2. CASE job[h].pc = "held" /\ order' = Held(order)
    <3>1. SomeFunded
      BY <1>2, <2>2 DEF GoodJob, NewsBehind
    <3>2. QED
      BY <1>2, <2>2, <3>1 DEF OrderGoesOn, Held, Row, Pay
  <2>3. CASE order' = PaymentLost(order)
    BY <1>2, <2>3 DEF OrderGoesOn, PaymentLost, Row, Pay, Status, Actor
  <2>4. QED
    BY <1>1, <2>1, <2>2, <2>3 DEF TellOrder
<1>4. CASE Become(h, Idle)
  <2>1. Idle.pc = "idle"
    BY DEF Idle
  <2>2. QED
    BY <1>1, <1>3, <1>4, <2>1, IdleGood, Quiet DEF Charging, Writes
<1>5. ASSUME job[h].queue # {}, NEW j, j = [job[h] EXCEPT !.pc = "sweep"], Become(h, j) PROVE IInv'
  <2>1. GoodJob(j) /\ j.pc = "sweep"
    BY <1>1, <1>2, <1>5 DEF GoodJob, Busy, NewsBehind, Hands, OnOne, OnQueue
  <2>2. QED
    BY <1>1, <1>3, <1>5, <2>1, Quiet DEF Charging, Writes
<1>6. QED
  BY <1>4, <1>5 DEF TellOrder

(* The hold that will be taken is read.                                    *)
LEMMA CaptureForOrderKeeps ==
  ASSUME IInv, UNCHANGED setting, NEW h \in Process, CaptureForOrder(h)
  PROVE  IInv'
<1>1. job[h].pc = "capture" /\ UNCHANGED <<order, payments, expired, bank>>
  BY DEF CaptureForOrder
<1>2. TypeOK /\ TableBehind
  BY DEF IInv
<1>3. CASE Become(h, Each("extra", {}))
  <2>1. GoodJob(Each("extra", {})) /\ Each("extra", {}).pc = "extra"
    BY <1>2, EachFields DEF BusyPc, GoodJob, NewsBehind, Hands, OnOne, OnQueue
  <2>2. QED
    BY <1>1, <1>3, <2>1, Quiet DEF Charging, OrderGoesOn, Writes
<1>4. CASE Holding # {} /\ Become(h, With("take", Max(Holding)))
  <2> DEFINE p == Max(Holding)
  <2>1. p \in Payment /\ payments[p].status = "held"
    BY <1>4, Ends DEF Holding
  <2> HIDE DEF p
  <2>2. payments[p] # Absent
    BY <2>1 DEF Absent
  <2>3. GoodJob(With("take", p)) /\ With("take", p).pc = "take"
    BY <1>2, <2>1, <2>2, WithFields DEF BusyPc, GoodJob, NewsBehind, Hands, OnOne, OnQueue
  <2>4. QED
    BY <1>1, <1>4, <2>3, Quiet DEF p, Charging, OrderGoesOn, Writes
<1>5. QED
  BY <1>3, <1>4 DEF CaptureForOrder

(* The money is taken: for an accepted order, by the one goroutine that    *)
(* accepted it, when none was taken before.                                *)
LEMMA ProviderCaptureKeeps ==
  ASSUME IInv, UNCHANGED setting, NEW h \in Process, ProviderCapture(h)
  PROVE  IInv'
<1> DEFINE p == job[h].payment
<1>1. job[h].pc = "take" /\ UNCHANGED <<order, payments, expired>>
  BY DEF ProviderCapture
<1>2. job[h] \in Busy /\ GoodJob(job[h]) /\ p \in Payment
  BY <1>1, BusyJob DEF GoodJob, Hands, OnOne
<1>3. CASE Become(h, Idle) /\ UNCHANGED bank
  <2>1. Idle.pc = "idle"
    BY DEF Idle
  <2>2. QED
    BY <1>1, <1>3, <2>1, IdleGood, Quiet DEF Charging, OrderGoesOn, Writes
<1>4. CASE bank[p] = "held" /\ bank' = [bank EXCEPT ![p] = "captured"] /\ Become(h, [job[h] EXCEPT !.pc = "captured"])
  <2>1. PICK j : j = [job[h] EXCEPT !.pc = "captured"] /\ Become(h, j)
    BY <1>4
  <2>2. bank \in [Payment -> BankState] /\ \A q \in Payment : bank'[q] = IF q = p THEN "captured" ELSE bank[q]
    BY <1>4 DEF IInv, TypeOK
  <2>3. Forward
    BY <1>4, <2>2 DEF Forward, BankEdge
  <2>4. Kept /\ Writes
    BY <1>1 DEF Kept, Writes
  <2>5. payments' \in [Payment -> Attempt] /\ TableBehind'
    BY <2>3, <2>4, WritesKeep DEF IInv
  <2>6. j \in Busy /\ j.pc = "captured" /\ j.payment = p /\ j.list = job[h].list /\ j.queue = job[h].queue
    BY <1>2, <2>1 DEF Busy
  <2>7. GoodJob(j)'
    <3>1. \A q \in Payment : Behind(j.list[q].status, q)'
      BY <1>1, <1>2, <2>3, <2>6, BehindStays DEF GoodJob, NewsBehind
    <3>2. bank'[j.payment] = "captured"
      BY <1>2, <2>2, <2>6
    <3>3. \A q \in j.queue : payments'[q] # Absent
      BY <1>1, <1>2, <2>6 DEF GoodJob, Hands
    <3>4. payments'[j.payment] # Absent
      BY <1>1, <1>2, <2>6 DEF GoodJob, Hands, OnOne
    <3>5. QED
      BY <1>2, <2>6, <3>1, <3>2, <3>3, <3>4 DEF GoodJob, NewsBehind, Hands, OnOne, OnQueue
  <2>8. /\ job' \in [Process -> {Idle} \cup Busy] /\ \A g \in Process : GoodJob(job[g])'
        /\ \A g \in Process : job'[g] = IF g = h THEN j ELSE job[g]
    BY <2>1, <2>3, <2>4, <2>7, JobsGood
  <2>9. TypeOK'
    BY <1>1, <1>4, <2>5, <2>8 DEF IInv, TypeOK, BankState
  <2>10. order'.pay = "held" => SomeFunded'
    BY <1>1, <2>3, FundedStays DEF IInv
  <2>11. Preparing' /\ Room'
    BY <1>1, <1>4, <2>2, <2>6, <2>8, PreparingKept, RoomKept
  <2>12. OneCharge'
    <3>1. /\ Charging(job[h]) /\ Charged = {} /\ order.status \notin {"created", "rejected"}
          /\ \A g \in Process : Charging(job[g]) => g = h
      BY <1>1 DEF IInv, OneCharge, Charging
    <3>2. Charged' = {p}
      BY <1>2, <2>2, <3>1 DEF Charged
    <3>3. \A g \in Process : ~ Charging(job[g])'
      BY <2>6, <2>8, <3>1 DEF Charging
    <3>4. QED
      BY <1>1, <3>1, <3>2, <3>3 DEF OneCharge
  <2>13. QED
    BY <2>5, <2>8, <2>9, <2>10, <2>11, <2>12 DEF IInv
<1>5. QED
  BY <1>3, <1>4 DEF ProviderCapture

(* The capture is recorded, and the other holds are listed.                *)
LEMMA SaveCapturedKeeps ==
  ASSUME IInv, UNCHANGED setting, NEW h \in Process, SaveCaptured(h)
  PROVE  IInv'
<1> DEFINE p == job[h].payment
<1> DEFINE S == Holding \ {p}
<1>1. /\ job[h].pc = "captured" /\ Become(h, Each("extra", S))
      /\ Update(p, [Copy(h, p) EXCEPT !.status = "paid"])
      /\ UNCHANGED <<order, expired, bank>>
  BY DEF SaveCaptured
<1>2. /\ p \in Payment /\ payments[p] # Absent /\ Copy(h, p) \in Attempt
      /\ bank[p] \in {"captured", "refunded"}
  BY <1>1, BusyJob DEF GoodJob, Hands, NewsBehind, OnOne, Copy
<1>3. S \in SUBSET Payment /\ \A q \in S : payments[q] # Absent
  BY DEF Holding, Absent
<1> HIDE DEF p, S
<1>4. Writes
  BY <1>1, <1>2, NewStatus DEF Writes, Behind, PaymentStatus
<1>5. GoodJob(Each("extra", S)) /\ Each("extra", S).pc = "extra"
  BY <1>3, EachFields DEF IInv, BusyPc, GoodJob, NewsBehind, Hands, OnOne, OnQueue
<1>6. QED
  BY <1>1, <1>4, <1>5, Quiet DEF Charging, OrderGoesOn

(* A step with one edge of the bank that is safe.                          *)
LEMMA OneEdge ==
  ASSUME IInv, NEW p \in Payment, NEW to, bank' = [bank EXCEPT ![p] = to],
         <<bank[p], to>> \in SafeEdge
  PROVE  /\ BankGoesOn /\ Forward /\ bank'[p] = to
<1>1. bank \in [Payment -> BankState] /\ to \in BankState
  BY DEF IInv, TypeOK, SafeEdge, BankEdge, BankState
<1>2. \A q \in Payment : bank'[q] = IF q = p THEN to ELSE bank[q]
  BY <1>1
<1>3. QED
  BY <1>1, <1>2 DEF BankGoesOn, Forward, SafeEdge

(* Another hold of the order is let go, or skipped.                        *)
LEMMA CancelExtraKeeps ==
  ASSUME IInv, UNCHANGED setting, NEW h \in Process, CancelExtra(h)
  PROVE  IInv'
<1> DEFINE p == Max(job[h].queue)
<1> DEFINE k == [job[h] EXCEPT !.queue = @ \ {p}]
<1>1. job[h].pc = "extra" /\ job[h].queue # {} /\ UNCHANGED <<order, payments, expired>>
  BY DEF CancelExtra
<1>2. job[h] \in Busy /\ GoodJob(job[h]) /\ p \in Payment /\ p \in job[h].queue
  BY <1>1, BusyJob
<1>3. CASE Become(h, k) /\ UNCHANGED bank
  <2>1. GoodJob(k) /\ k.pc = "extra"
    BY <1>1, <1>2 DEF GoodJob, Busy, NewsBehind, Hands, OnOne, OnQueue
  <2> HIDE DEF k
  <2>2. QED
    BY <1>1, <1>3, <2>1, Quiet DEF Charging, OrderGoesOn, Writes
<1>4. CASE bank[p] = "held" /\ bank' = [bank EXCEPT ![p] = "released"] /\ Become(h, [job[h] EXCEPT !.pc = "extra_saved"])
  <2>1. PICK j : j = [job[h] EXCEPT !.pc = "extra_saved"] /\ Become(h, j)
    BY <1>4
  <2>2. BankGoesOn /\ Forward /\ bank'[p] = "released"
    BY <1>2, <1>4, OneEdge DEF SafeEdge, BankEdge
  <2>3. Writes
    BY <1>1 DEF Writes
  <2>4. j \in Busy /\ j.pc = "extra_saved" /\ j.list = job[h].list /\ j.queue = job[h].queue
    BY <1>2, <2>1 DEF Busy
  <2>5. GoodJob(j)'
    <3>1. \A q \in Payment : Behind(j.list[q].status, q)'
      BY <1>1, <1>2, <2>2, <2>4, BehindStays DEF GoodJob, NewsBehind
    <3>2. bank'[Max(j.queue)] = "released"
      BY <2>2, <2>4
    <3>3. \A q \in j.queue : payments'[q] # Absent
      BY <1>1, <1>2, <2>4 DEF GoodJob, Hands
    <3>4. QED
      BY <1>1, <2>4, <3>1, <3>2, <3>3 DEF GoodJob, NewsBehind, Hands, OnOne, OnQueue
  <2>6. expired' \subseteq Payment
    BY <1>1 DEF IInv, TypeOK
  <2>7. QED
    BY <1>1, <2>1, <2>2, <2>3, <2>4, <2>5, <2>6, Ordinary DEF GoesOn, Charging, OrderGoesOn
<1>5. QED
  BY <1>3, <1>4 DEF CancelExtra

(* CaptureForOrder saves that a second hold was let go.                    *)
LEMMA SaveExtraKeeps ==
  ASSUME IInv, UNCHANGED setting, NEW h \in Process, SaveExtra(h)
  PROVE  IInv'
<1> DEFINE p == Max(job[h].queue)
<1> DEFINE j == [job[h] EXCEPT !.pc = "extra", !.queue = @ \ {p}]
<1>1. /\ job[h].pc = "extra_saved" /\ Become(h, j)
      /\ Update(p, [Copy(h, p) EXCEPT !.status = "canceled"])
      /\ UNCHANGED <<order, expired, bank>>
  BY DEF SaveExtra
<1>2. /\ job[h] \in Busy /\ GoodJob(job[h]) /\ job[h].queue # {} /\ p \in job[h].queue
      /\ p \in Payment /\ Copy(h, p) \in Attempt /\ payments[p] # Absent /\ bank[p] = "released"
  BY <1>1, BusyJob DEF Copy, GoodJob, Hands, OnQueue, NewsBehind
<1> HIDE DEF p
<1>3. GoodJob(j) /\ j.pc = "extra"
  BY <1>1, <1>2 DEF GoodJob, Busy, NewsBehind, Hands, OnOne, OnQueue
<1> HIDE DEF j
<1>4. Writes
  BY <1>1, <1>2, NewStatus DEF Writes, Behind, PaymentStatus
<1>5. QED
  BY <1>1, <1>3, <1>4, Quiet DEF Charging, OrderGoesOn

(* All attempts with money are listed.                                     *)
LEMMA ReleaseForOrderKeeps ==
  ASSUME IInv, UNCHANGED setting, NEW h \in Process, ReleaseForOrder(h)
  PROVE  IInv'
<1>1. job[h].pc = "release" /\ UNCHANGED <<order, payments, expired, bank>>
  BY DEF ReleaseForOrder
<1>2. job[h].next \in {"refunded", "failed"}
  BY <1>1, BusyJob DEF GoodJob, Hands
<1>3. Moved \in SUBSET Payment /\ \A q \in Moved : payments[q] # Absent
  BY DEF Moved, Absent
<1>4. PICK j : j = [Each("undo", Moved) EXCEPT !.next = job[h].next] /\ Become(h, j)
  BY DEF ReleaseForOrder
<1>5. /\ Each("undo", Moved) \in Busy /\ Each("undo", Moved).pc = "undo"
      /\ Each("undo", Moved).queue = Moved
      /\ \A q \in Payment : Behind(Each("undo", Moved).list[q].status, q)
  BY <1>3, EachFields DEF IInv, BusyPc
<1>6. GoodJob(j) /\ j.pc = "undo"
  BY <1>2, <1>3, <1>4, <1>5 DEF GoodJob, Busy, PaymentStatus, NewsBehind, Hands, OnOne, OnQueue
<1>7. QED
  BY <1>1, <1>4, <1>6, Quiet DEF Charging, OrderGoesOn, Writes

(* A hold is let go, or money that was taken is returned.                  *)
LEMMA ProviderReleaseKeeps ==
  ASSUME IInv, UNCHANGED setting, NEW h \in Process, ProviderRelease(h)
  PROVE  IInv'
<1> DEFINE p == Max(job[h].queue)
<1> DEFINE from == IF Copy(h, p).status = "held" THEN "held" ELSE "captured"
<1> DEFINE to == IF from = "held" THEN "released" ELSE "refunded"
<1>1. job[h].pc = "undo" /\ job[h].queue # {} /\ UNCHANGED <<order, payments, expired>>
  BY DEF ProviderRelease
<1>2. job[h] \in Busy /\ GoodJob(job[h]) /\ p \in Payment /\ p \in job[h].queue
  BY <1>1, BusyJob
<1>3. CASE Become(h, Idle) /\ UNCHANGED bank
  <2>1. Idle.pc = "idle"
    BY DEF Idle
  <2>2. QED
    BY <1>1, <1>3, <2>1, IdleGood, Quiet DEF Charging, OrderGoesOn, Writes
<1>4. CASE bank[p] = from /\ bank' = [bank EXCEPT ![p] = to] /\ Become(h, [job[h] EXCEPT !.pc = "released"])
  <2>1. PICK j : j = [job[h] EXCEPT !.pc = "released"] /\ Become(h, j)
    BY <1>4
  <2>2. BankGoesOn /\ Forward /\ bank'[p] = to
    BY <1>2, <1>4, OneEdge DEF SafeEdge, BankEdge
  <2>3. Writes
    BY <1>1 DEF Writes
  <2>4. /\ j \in Busy /\ j.pc = "released" /\ j.list = job[h].list /\ j.queue = job[h].queue
        /\ j.next = job[h].next
    BY <1>2, <2>1 DEF Busy
  <2>5. GoodJob(j)'
    <3>1. \A q \in Payment : Behind(j.list[q].status, q)'
      BY <1>1, <1>2, <2>2, <2>4, BehindStays DEF GoodJob, NewsBehind
    <3>2. bank'[Max(j.queue)] =
            IF j.list[Max(j.queue)].status = "held" THEN "released" ELSE "refunded"
      BY <2>2, <2>4 DEF Copy
    <3>3. \A q \in j.queue : payments'[q] # Absent
      BY <1>1, <1>2, <2>4 DEF GoodJob, Hands
    <3>4. j.next \in {"refunded", "failed"} /\ j.queue # {}
      BY <1>1, <1>2, <2>4 DEF GoodJob, Hands
    <3>5. QED
      BY <2>4, <3>1, <3>2, <3>3, <3>4 DEF GoodJob, NewsBehind, Hands, OnOne, OnQueue
  <2>6. expired' \subseteq Payment
    BY <1>1 DEF IInv, TypeOK
  <2>7. QED
    BY <1>1, <2>1, <2>2, <2>3, <2>4, <2>5, <2>6, Ordinary DEF GoesOn, Charging, OrderGoesOn
<1>5. QED
  BY <1>3, <1>4 DEF ProviderRelease

(* ReleaseForOrder saves that the hold was cancelled or the charge refunded. *)
LEMMA SaveReleasedKeeps ==
  ASSUME IInv, UNCHANGED setting, NEW h \in Process, SaveReleased(h)
  PROVE  IInv'
<1> DEFINE p == Max(job[h].queue)
<1> DEFINE status == IF Copy(h, p).status = "held" THEN "canceled" ELSE "refunded"
<1> DEFINE j == [job[h] EXCEPT !.pc = "undo", !.queue = @ \ {p}]
<1>1. /\ job[h].pc = "released" /\ Become(h, j)
      /\ Update(p, [Copy(h, p) EXCEPT !.status = IF @ = "held" THEN "canceled" ELSE "refunded"])
      /\ UNCHANGED <<order, expired, bank>>
  BY DEF SaveReleased
<1>2. /\ job[h] \in Busy /\ GoodJob(job[h]) /\ job[h].queue # {} /\ p \in job[h].queue
      /\ p \in Payment /\ Copy(h, p) \in Attempt /\ payments[p] # Absent
      /\ bank[p] = IF Copy(h, p).status = "held" THEN "released" ELSE "refunded"
  BY <1>1, BusyJob DEF Copy, GoodJob, Hands, OnQueue, NewsBehind
<1>3. Update(p, [Copy(h, p) EXCEPT !.status = status])
  BY <1>1
<1>4. status \in PaymentStatus /\ Behind(status, p)
  BY <1>2 DEF PaymentStatus, Behind
<1> HIDE DEF p, status
<1>5. GoodJob(j) /\ j.pc = "undo"
  BY <1>1, <1>2 DEF GoodJob, Busy, NewsBehind, Hands, OnOne, OnQueue
<1> HIDE DEF j
<1>6. PICK r : r = [Copy(h, p) EXCEPT !.status = status]
  OBVIOUS
<1>7. r \in Attempt /\ r # Absent /\ r.status = status
  BY <1>2, <1>4, <1>6, NewStatus
<1>8. Writes
  <2>1. Update(p, r) /\ p \in Payment /\ payments[p] # Absent /\ Behind(r.status, p)
    BY <1>2, <1>3, <1>4, <1>6, <1>7
  <2>2. QED
    BY <1>7, <2>1 DEF Writes
<1>9. QED
  BY <1>1, <1>5, <1>8, Quiet DEF Charging, OrderGoesOn

(* persistPaymentState: the order is told that its money was moved.        *)
LEMMA PersistPaymentStateKeeps ==
  ASSUME IInv, UNCHANGED setting, NEW h \in Process, PersistPaymentState(h)
  PROVE  IInv'
<1> DEFINE state == IF job[h].pc = "extra" THEN "paid" ELSE job[h].next
<1>1. /\ job[h].pc \in {"extra", "undo"} /\ order' = Recorded(order, state) /\ Become(h, Idle)
      /\ UNCHANGED <<payments, expired, bank>>
  BY DEF PersistPaymentState
<1>2. state \in {"paid", "refunded", "failed"}
  BY <1>1, BusyJob DEF GoodJob, Hands
<1> HIDE DEF state
<1>3. OrderGoesOn
  BY <1>1, <1>2 DEF IInv, TypeOK, OrderGoesOn, Recorded, Row, Pay
<1>4. Idle.pc = "idle"
  BY DEF Idle
<1>5. QED
  BY <1>1, <1>3, <1>4, IdleGood, Quiet DEF Charging, Writes

(* ExpireStale closes the next attempt.                                    *)
LEMMA SweepNextKeeps ==
  ASSUME IInv, UNCHANGED setting, NEW h \in Process, SweepNext(h)
  PROVE  IInv'
<1> DEFINE p == Min(job[h].queue)
<1> DEFINE j == [job[h] EXCEPT !.pc = "lost", !.queue = @ \ {p}]
<1>1. /\ job[h].pc = "sweep" /\ Become(h, j)
      /\ Update(p, [Copy(h, p) EXCEPT !.status = "failed"])
      /\ UNCHANGED <<order, expired, bank>>
  BY DEF SweepNext
<1>2. /\ job[h] \in Busy /\ GoodJob(job[h]) /\ p \in job[h].queue /\ p \in Payment
      /\ Copy(h, p) \in Attempt /\ payments[p] # Absent
  BY <1>1, BusyJob DEF Copy, GoodJob, Hands, OnQueue
<1> HIDE DEF p
<1>3. GoodJob(j) /\ j.pc = "lost"
  BY <1>1, <1>2 DEF GoodJob, Busy, NewsBehind, Hands, OnOne, OnQueue
<1> HIDE DEF j
<1>4. Writes
  BY <1>1, <1>2, NewStatus DEF Writes, Behind, PaymentStatus
<1>5. QED
  BY <1>1, <1>3, <1>4, Quiet DEF Charging, OrderGoesOn

(* The row is inserted before the bank hears of the attempt: a free one,   *)
(* that no goroutine prepares.                                             *)
LEMMA CreatePaymentKeeps ==
  ASSUME IInv, UNCHANGED setting, NEW h \in Process, CreatePayment(h)
  PROVE  IInv'
<1>1. job[h].pc = "close" /\ UNCHANGED <<order, expired, bank>>
  BY DEF CreatePayment
<1>2. job[h].next \in {"create", "end"}
  BY <1>1, BusyJob DEF GoodJob, Hands
<1>3. CASE Become(h, Idle) /\ UNCHANGED payments
  <2>1. Idle.pc = "idle"
    BY DEF Idle
  <2>2. QED
    BY <1>1, <1>3, <2>1, IdleGood, Quiet DEF Charging, OrderGoesOn, Writes
<1>4. CASE job[h].next # "end"
  <2>1. PICK p, j : /\ p = Min({q \in Payment : payments[q] = Absent})
                    /\ j = [At("prepare") EXCEPT !.payment = p]
                    /\ Update(p, Fresh) /\ Become(h, j)
    BY <1>1, <1>4 DEF CreatePayment
  <2>2. setting.attempts \in Nat /\ 1..setting.attempts \subseteq Payment
    BY Options, FewHandlers DEF IInv, Payment
  <2>3. IsFiniteSet(Starting) /\ IsFiniteSet(Unused)
    BY <2>2, Finite, FS_Subset DEF Starting, Unused
  <2>4. h \in Starting
    BY <1>1, <1>2, <1>4 DEF Starting
  <2>5. /\ Cardinality(Starting) \in Nat /\ Cardinality(Unused) \in Nat
        /\ Cardinality(Starting \ {h}) = Cardinality(Starting) - 1
    BY <2>3, <2>4, FS_CardinalityType, FS_RemoveElement
  <2>6. Unused # {}
    BY <2>3, <2>4, <2>5, FS_CardinalityType, FS_EmptySet DEF IInv, Room
  <2>7. p \in Payment /\ payments[p] = Absent
    <3> DEFINE S == {q \in Payment : payments[q] = Absent}
    <3>1. S # {} /\ S \in SUBSET Payment
      BY <2>2, <2>6 DEF Unused
    <3>2. p \in S
      BY <2>1, <3>1, Ends
    <3>3. QED
      BY <3>2
  <2>8. Fresh \in Attempt /\ Fresh # Absent /\ Fresh.status = "pending"
    BY DEF Fresh, Attempt, Absent, PaymentStatus
  <2>9. payments \in [Payment -> Attempt]
    BY DEF IInv, TypeOK
  <2>10. /\ payments' \in [Payment -> Attempt]
         /\ \A q \in Payment : payments'[q] = IF q = p THEN Fresh ELSE payments[q]
    BY <2>1, <2>8, <2>9 DEF Update
  <2>11. Kept /\ TableBehind' /\ Forward
    BY <1>1, <2>8, <2>10 DEF Kept, TableBehind, Behind, IInv, Forward
  <2>12. /\ j \in Busy /\ j.pc = "prepare" /\ j.payment = p /\ j.queue = {}
         /\ \A q \in Payment : Behind(j.list[q].status, q)
    BY <2>1, <2>7, AtFields DEF BusyPc, Busy
  <2>13. GoodJob(j)'
    <3>1. \A q \in Payment : Behind(j.list[q].status, q)'
      BY <2>11, <2>12, BehindStays
    <3>2. payments'[j.payment] # Absent
      BY <2>7, <2>8, <2>10, <2>12
    <3>3. QED
      BY <2>7, <2>12, <3>1, <3>2 DEF GoodJob, NewsBehind, Hands, OnOne, OnQueue
  <2>14. /\ job' \in [Process -> {Idle} \cup Busy] /\ \A g \in Process : GoodJob(job[g])'
         /\ \A g \in Process : job'[g] = IF g = h THEN j ELSE job[g]
    BY <2>1, <2>11, <2>13, JobsGood
  <2>15. TypeOK'
    BY <1>1, <2>10, <2>14 DEF IInv, TypeOK
  <2>16. order'.pay = "held" => SomeFunded'
    BY <1>1, <2>11, FundedStays DEF IInv
  <2>17. Preparing'
    <3>1. \A g \in Process : job[g].pc = "prepare" => /\ job[g].payment # p
                                                      /\ job[g].payment \in Payment
      BY <2>7 DEF IInv, GoodJob, Hands, OnOne
    <3>2. bank[p] = "none"
      BY <2>7 DEF IInv, Preparing
    <3>3. QED
      BY <1>1, <2>8, <2>10, <2>12, <2>14, <3>1, <3>2 DEF IInv, Preparing
  <2>18. Room'
    <3>1. Starting' = Starting \ {h}
      BY <2>12, <2>14 DEF Starting
    <3>2. Unused' = Unused \ {p}
      BY <2>2, <2>8, <2>10 DEF Unused
    <3>3. Cardinality(Unused \ {p}) \in {Cardinality(Unused), Cardinality(Unused) - 1}
      BY <2>3, FS_RemoveElement
    <3>4. QED
      BY <2>5, <3>1, <3>2, <3>3 DEF IInv, Room
  <2>19. OneCharge'
    BY <1>1, <2>12, <2>14, ChargeKept DEF Charging
  <2>20. QED
    BY <2>11, <2>14, <2>15, <2>16, <2>17, <2>18, <2>19 DEF IInv
<1>5. QED
  BY <1>1, <1>3, <1>4 DEF CreatePayment

(* prepare_payment opens the attempt at the bank, whatever it answers.     *)
LEMMA ProviderCreateKeeps ==
  ASSUME IInv, UNCHANGED setting, NEW h \in Process, ProviderCreate(h)
  PROVE  IInv'
<1> DEFINE p == job[h].payment
<1>1. /\ job[h].pc = "prepare" /\ UNCHANGED <<order, payments, expired>>
      /\ bank' = bank \/ bank' = [bank EXCEPT ![p] = "open"]
  BY DEF ProviderCreate
<1>2a. PICK pc \in {"link", "refused"} : Become(h, [job[h] EXCEPT !.pc = pc])
  BY DEF ProviderCreate
<1>2. PICK j : j = [job[h] EXCEPT !.pc = pc] /\ Become(h, j)
  BY <1>2a
<1>3. job[h] \in Busy /\ GoodJob(job[h]) /\ p \in Payment /\ payments[p] # Absent /\ bank[p] = "none"
  BY <1>1, BusyJob DEF GoodJob, Hands, OnOne, IInv, Preparing
<1>4. bank \in [Payment -> BankState] /\ payments \in [Payment -> Attempt]
  BY DEF IInv, TypeOK
<1>5. /\ bank' \in [Payment -> BankState]
      /\ \A q \in Payment : bank'[q] = bank[q] \/ (q = p /\ bank'[q] = "open")
  BY <1>1, <1>4 DEF BankState
<1>6. Forward
  BY <1>3, <1>5 DEF Forward, BankEdge
<1>7. Kept /\ Writes
  BY <1>1 DEF Kept, Writes
<1>8. TableBehind'
  BY <1>6, <1>7, WritesKeep DEF IInv
<1>9. GoodJob(j) /\ j.pc \notin {"prepare", "close", "capture", "take"}
  BY <1>1, <1>2, <1>3 DEF GoodJob, Busy, NewsBehind, Hands, OnOne, OnQueue
<1>10. GoodJob(j)'
  BY <1>6, <1>7, <1>9, GoodJobStays
<1>11. /\ job' \in [Process -> {Idle} \cup Busy] /\ \A g \in Process : GoodJob(job[g])'
       /\ \A g \in Process : job'[g] = IF g = h THEN j ELSE job[g]
  BY <1>2, <1>6, <1>7, <1>10, JobsGood
<1>12. TypeOK'
  BY <1>1, <1>4, <1>5, <1>11 DEF IInv, TypeOK
<1>13. order'.pay = "held" => SomeFunded'
  BY <1>1, <1>6, FundedStays DEF IInv
<1>14. Preparing'
  <2>1. ASSUME NEW g \in Process, job'[g].pc = "prepare"
        PROVE  /\ g # h /\ job[g].pc = "prepare" /\ job'[g] = job[g]
               /\ job[g].payment \in Payment /\ job[g].payment # p
    <3>1. g # h /\ job'[g] = job[g]
      BY <1>9, <1>11, <2>1
    <3>2. job[g].payment # p
      BY <1>1, <2>1, <3>1 DEF IInv, Preparing
    <3>3. job[g].payment \in Payment
      BY <2>1, <3>1 DEF IInv, GoodJob, Hands, OnOne
    <3>4. QED
      BY <2>1, <3>1, <3>2, <3>3
  <2>2. \A g \in Process : job'[g].pc = "prepare" => bank'[job'[g].payment] = "none"
    BY <1>5, <2>1 DEF IInv, Preparing
  <2>3. \A q \in Payment : payments'[q] = Absent => bank'[q] = "none"
    BY <1>1, <1>3, <1>5 DEF IInv, Preparing
  <2>4. QED
    BY <2>1, <2>2, <2>3 DEF IInv, Preparing
<1>15. Room'
  BY <1>1, <1>9, <1>11, RoomKept
<1>16. OneCharge'
  <2>1. \A q \in Payment : bank'[q] \in {"captured", "refunded"} => bank[q] \in {"captured", "refunded"}
    BY <1>5
  <2>2. ~ Charging(j)
    BY <1>9 DEF Charging
  <2>3. QED
    BY <1>1, <1>11, <2>1, <2>2, ChargeKept
<1>17. QED
  BY <1>8, <1>11, <1>12, <1>13, <1>14, <1>15, <1>16 DEF IInv

(* A customer begins, if there is a row left for everybody who has begun.  *)
LEMMA StartForOrderKeeps ==
  ASSUME IInv, UNCHANGED setting, NEW h \in Handler, NEW retry \in BOOLEAN, StartForOrder(h, retry)
  PROVE  IInv'
<1> DEFINE closing == {p \in Active : \A q \in Moved : q < p}
<1> DEFINE goOn == Moved = {} /\ (retry \/ Active = {})
<1> DEFINE S == IF retry THEN closing ELSE {}
<1>1. /\ h \in Process /\ job[h] = Idle /\ UNCHANGED <<order, payments, expired, bank>>
      /\ S \in SUBSET Payment /\ \A p \in S : payments[p] # Absent
  BY DEF StartForOrder, MayStart, Process, Active, Absent
<1>2. PICK j : /\ j = [Each("close", S) EXCEPT !.next = IF goOn THEN "create" ELSE "end"]
               /\ Become(h, j)
  BY DEF StartForOrder
<1>3. /\ Each("close", S) \in Busy /\ Each("close", S).pc = "close" /\ Each("close", S).queue = S
      /\ \A q \in Payment : Behind(Each("close", S).list[q].status, q)
  BY <1>1, EachFields DEF IInv, BusyPc
<1>4. goOn => Cardinality(Starting) < Cardinality(Unused)
  <2>1. {g \in Process : job[g] # Idle /\ job[g].pc = "close" /\ job[g].next = "create"} = Starting
    BY DEF Starting, Idle
  <2>2. /\ IsFiniteSet(Starting) /\ IsFiniteSet(Unused)
        /\ Cardinality(Starting) \in Nat /\ Cardinality(Unused) \in Nat
    <3>1. setting.attempts \in Nat /\ 1..setting.attempts \subseteq Payment
      BY Options, FewHandlers DEF IInv, Payment
    <3>2. QED
      BY <3>1, Finite, FS_Subset, FS_CardinalityType DEF Starting, Unused
  <2>3. goOn => Cardinality(Unused) > Cardinality(Starting)
    BY <2>1 DEF StartForOrder, Unused
  <2>4. QED
    BY <2>2, <2>3
<1> HIDE DEF S, closing
<1>5. GoodJob(j) /\ j.pc = "close" /\ j.next = IF goOn THEN "create" ELSE "end"
  BY <1>1, <1>2, <1>3 DEF GoodJob, Busy, NewsBehind, Hands, OnOne, OnQueue
<1>6. Forward /\ Kept /\ Writes
  BY <1>1 DEF Forward, Kept, Writes
<1>7. GoodJob(j)'
  BY <1>5, <1>6, GoodJobStays
<1>8. /\ job' \in [Process -> {Idle} \cup Busy] /\ \A g \in Process : GoodJob(job[g])'
      /\ \A g \in Process : job'[g] = IF g = h THEN j ELSE job[g]
  BY <1>1, <1>2, <1>6, <1>7, JobsGood
<1>9. TypeOK' /\ TableBehind'
  BY <1>1, <1>6, <1>8, WritesKeep DEF IInv, TypeOK
<1>10. order'.pay = "held" => SomeFunded'
  BY <1>1, <1>6, FundedStays DEF IInv
<1>11. Preparing' /\ OneCharge'
  BY <1>1, <1>5, <1>8, PreparingKept, ChargeKept DEF Charging
<1>12. Room'
  <2>1. Unused' = Unused
    BY <1>1 DEF Unused
  <2>2. Starting' \subseteq (IF goOn THEN Starting \cup {h} ELSE Starting)
    BY <1>5, <1>8 DEF Starting
  <2>3. IsFiniteSet(Starting) /\ IsFiniteSet(Unused)
    <3>1. setting.attempts \in Nat /\ 1..setting.attempts \subseteq Payment
      BY Options, FewHandlers DEF IInv, Payment
    <3>2. QED
      BY <3>1, Finite, FS_Subset DEF Starting, Unused
  <2>4. /\ IsFiniteSet(Starting \cup {h}) /\ Cardinality(Starting \cup {h}) <= Cardinality(Starting) + 1
        /\ Cardinality(Starting) \in Nat /\ Cardinality(Unused) \in Nat
    <3>1. Cardinality(Starting) \in Nat /\ Cardinality(Unused) \in Nat
      BY <2>3, FS_CardinalityType
    <3>2. /\ IsFiniteSet(Starting \cup {h})
          /\ Cardinality(Starting \cup {h}) \in {Cardinality(Starting), Cardinality(Starting) + 1}
      BY <2>3, FS_AddElement
    <3>3. QED
      BY <3>1, <3>2
  <2>5. CASE goOn
    <3>1. IsFiniteSet(Starting') /\ Cardinality(Starting') <= Cardinality(Starting \cup {h})
      BY <2>2, <2>4, <2>5, FS_Subset
    <3>2. Cardinality(Starting') \in Nat /\ Cardinality(Starting \cup {h}) \in Nat
      BY <2>4, <3>1, FS_CardinalityType
    <3>3. QED
      BY <1>4, <2>1, <2>4, <2>5, <3>1, <3>2 DEF Room
  <2>6. CASE ~ goOn
    <3>1. IsFiniteSet(Starting') /\ Cardinality(Starting') <= Cardinality(Starting)
      BY <2>2, <2>3, <2>6, FS_Subset
    <3>2. Cardinality(Starting') \in Nat
      BY <3>1, FS_CardinalityType
    <3>3. QED
      BY <2>1, <2>4, <3>1, <3>2 DEF IInv, Room
  <2>7. QED
    BY <2>5, <2>6
<1>13. QED
  BY <1>8, <1>9, <1>10, <1>11, <1>12 DEF IInv

(* What the bank announces has happened, however late the news comes.      *)
LEMMA HandleCallbackKeeps ==
  ASSUME IInv, UNCHANGED setting, NEW h \in Handler, NEW p \in Payment, NEW status \in PaymentStatus,
         HandleCallback(h, p, status)
  PROVE  IInv'
<1>1. /\ h \in Process /\ UNCHANGED <<order, payments, expired, bank>>
      /\ payments[p] # Absent /\ status \in Announced(p)
  BY DEF HandleCallback, Process
<1>2a. PICK pc \in {"apply", "query"} : Become(h, [With(pc, p) EXCEPT !.next = status])
  BY DEF HandleCallback
<1>2. PICK j : j = [With(pc, p) EXCEPT !.next = status] /\ Become(h, j)
  BY <1>2a
<1>3. Behind(status, p)
  <2>1. PICK state \in Past(bank[p]) : status = MapStatus(state)
    BY <1>1 DEF Announced
  <2>2. bank[p] \in BankState
    BY DEF IInv, TypeOK
  <2>3. /\ state \in {"held"} => bank[p] \in Funded
        /\ state \in {"captured", "refunded"} => bank[p] \in {"captured", "refunded"}
        /\ state \in {"released", "dead"} => bank[p] \in {"released", "dead"}
        /\ state \in BankState
    BY <2>1, <2>2 DEF Past, BankState, Funded
  <2>4. QED
    BY <2>1, <2>3 DEF MapStatus, Behind, BankState
<1>4. /\ With(pc, p) \in Busy /\ With(pc, p).pc = pc /\ With(pc, p).queue = {}
      /\ With(pc, p).payment = p /\ \A q \in Payment : Behind(With(pc, p).list[q].status, q)
  BY WithFields DEF IInv, BusyPc
<1>5. GoodJob(j) /\ j.pc = pc
  BY <1>1, <1>2, <1>3, <1>4 DEF GoodJob, Busy, NewsBehind, Hands, OnOne, OnQueue
<1>6. QED
  BY <1>1, <1>2, <1>5, Quiet DEF Charging, OrderGoesOn, Writes

(* The search fields follow the status, which stays with the payment        *)
(* (applyDispatchPolicy).                                                  *)
LEMMA PolicyKeepsStatus ==
  ASSUME NEW m \in Row
  PROVE  /\ DispatchPolicy(m) \in Row /\ DispatchPolicy(m).status = m.status
         /\ DispatchPolicy(m).pay = m.pay
<1>1. \A d \in BOOLEAN : /\ [m EXCEPT !.deadline = d] \in Row
                         /\ [m EXCEPT !.dispatch = "searching", !.deadline = d] \in Row
  BY DEF Row, Dispatch
<1>2. QED
  BY <1>1 DEF DispatchPolicy, Row

(* What ChangeStatus makes of the row, for the decisions about an order.   *)
LEMMA Decided ==
  ASSUME IInv, NEW d \in Decision, MayChangeStatus(order, d[1], d[2])
  PROVE  LET new == ChangedStatus(order, d[1], d[2]) IN
         /\ new \in Row /\ new.status = d[1] /\ new.pay = order.pay
         /\ d[1] \in {"accepted", "rejected"} => order.status = "created"
         /\ d[1] \in {"accepted", "rejected", "cancelled"}
<1>1. d[1] \in {"accepted", "rejected", "cancelled"} /\ d[1] \in Status /\ d[2] \in Actor
  BY DEF Decision, Status, Actor
<1>2. order \in Row /\ ValidOrderTransition(order, d[1], d[2])
  BY DEF IInv, TypeOK, MayChangeStatus
<1>3. d[1] \in {"accepted", "rejected"} => order.status = "created"
  BY <1>1, <1>2 DEF ValidOrderTransition, Edges, CommonEdges, DeliveryEdges, DineInEdges, Row, Type
<1> DEFINE m == [order EXCEPT !.status = d[1], !.by = d[2]]
<1>4. m \in Row /\ m.status = d[1] /\ m.pay = order.pay
  BY <1>1, <1>2 DEF Row
<1> HIDE DEF m
<1>5. /\ DispatchPolicy(m) \in Row /\ DispatchPolicy(m).status = d[1]
      /\ DispatchPolicy(m).pay = order.pay
  BY <1>4, PolicyKeepsStatus
<1>6. QED
  BY <1>1, <1>3, <1>5 DEF ChangedStatus, m

(* The order is accepted once, by one goroutine, before any money is taken.*)
LEMMA ChangeStatusKeeps ==
  ASSUME IInv, UNCHANGED setting, NEW h \in Handler, NEW d \in Decision, ChangeStatus(h, d[1], d[2])
  PROVE  IInv'
<1> DEFINE new == ChangedStatus(order, d[1], d[2])
<1>1. /\ h \in Process /\ job[h] = Idle /\ UNCHANGED <<payments, expired, bank>>
      /\ order' = new /\ MayChangeStatus(order, d[1], d[2])
  BY DEF ChangeStatus, MayStart, Process
<1>2. /\ new \in Row /\ new.status = d[1] /\ new.pay = order.pay
      /\ d[1] \in {"accepted", "rejected"} => order.status = "created"
      /\ d[1] \in {"accepted", "rejected", "cancelled"}
  BY <1>1, Decided
<1> HIDE DEF new
<1>3. \E j : /\ Become(h, j) /\ GoodJob(j) /\ j.pc \notin {"prepare", "close"}
             /\ Charging(j) => d[1] = "accepted"
  <2>1. GoodJob(Idle) /\ Idle.pc = "idle"
    BY IdleGood DEF Idle
  <2>2. GoodJob(At("capture")) /\ At("capture").pc = "capture"
    BY AtFields DEF BusyPc, GoodJob, NewsBehind, Hands, OnOne, OnQueue
  <2>3. ASSUME NEW next \in {"refunded", "failed"}
        PROVE  /\ GoodJob([At("release") EXCEPT !.next = next])
               /\ [At("release") EXCEPT !.next = next].pc = "release"
    <3>1. PICK j : j = [At("release") EXCEPT !.next = next]
      OBVIOUS
    <3>2. /\ At("release") \in Busy /\ At("release").pc = "release" /\ At("release").queue = {}
          /\ \A p \in Payment : Behind(At("release").list[p].status, p)
      BY AtFields DEF BusyPc
    <3>3. /\ j \in Busy /\ j.pc = "release" /\ j.next = next /\ j.queue = {}
          /\ j.list = At("release").list
      BY <2>3, <3>1, <3>2 DEF Busy, PaymentStatus
    <3>4. NewsBehind(j)
      BY <3>2, <3>3 DEF NewsBehind
    <3>5. Hands(j)
      BY <2>3, <3>3 DEF Hands, OnOne, OnQueue
    <3>6. QED
      BY <3>1, <3>3, <3>4, <3>5 DEF GoodJob
  <2>4. CASE d[1] = "accepted" /\ order.pay = "held"
    <3>1. Become(h, At("capture"))
      BY <2>4 DEF ChangeStatus
    <3>2. QED
      BY <2>2, <2>4, <3>1
  <2>5. CASE d[1] # "accepted" /\ order.pay \in Settled
    <3>1. PICK next \in {"refunded", "failed"} : Become(h, [At("release") EXCEPT !.next = next])
      BY <2>5 DEF ChangeStatus
    <3>2. QED
      BY <2>3, <3>1 DEF Charging
  <2>6. CASE ~ (d[1] = "accepted" /\ order.pay = "held") /\ ~ (d[1] # "accepted" /\ order.pay \in Settled)
    <3>1. Become(h, Idle)
      BY <2>6 DEF ChangeStatus
    <3>2. QED
      BY <2>1, <3>1 DEF Charging
  <2>7. QED
    BY <2>4, <2>5, <2>6
<1>4. PICK j : /\ Become(h, j) /\ GoodJob(j) /\ j.pc \notin {"prepare", "close"}
               /\ Charging(j) => d[1] = "accepted"
  BY <1>3
<1>5. Forward /\ Kept /\ Writes
  BY <1>1 DEF Forward, Kept, Writes
<1>6. GoodJob(j)'
  BY <1>4, <1>5, GoodJobStays
<1>7. /\ job' \in [Process -> {Idle} \cup Busy] /\ \A g \in Process : GoodJob(job[g])'
      /\ \A g \in Process : job'[g] = IF g = h THEN j ELSE job[g]
  BY <1>1, <1>4, <1>5, <1>6, JobsGood
<1>8. payments' \in [Payment -> Attempt] /\ TableBehind'
  BY <1>5, WritesKeep DEF IInv
<1>9. TypeOK'
  BY <1>1, <1>2, <1>7, <1>8 DEF IInv, TypeOK
<1>10. order'.pay = "held" => SomeFunded'
  BY <1>1, <1>2, <1>5, FundedStays DEF IInv
<1>11. Preparing' /\ Room'
  BY <1>1, <1>4, <1>7, PreparingKept, RoomKept
<1>12. OneCharge'
  <2>1. Charged' = Charged
    BY <1>1 DEF Charged
  <2>2. OneCharge
    BY DEF IInv
  <2>3. \A g \in Process : g # h => (Charging(job[g])' <=> Charging(job[g]))
    BY <1>7 DEF Charging
  <2>4. Charging(job[h])' => d[1] = "accepted"
    BY <1>1, <1>4, <1>7 DEF Charging
  <2>5. CASE d[1] = "cancelled"
    <3>1. ~ Charging(job[h])'
      BY <2>4, <2>5
    <3>2. QED
      BY <1>1, <1>2, <2>1, <2>2, <2>3, <2>5, <3>1 DEF OneCharge
  <2>6. CASE d[1] \in {"accepted", "rejected"}
    <3>1. order.status = "created" /\ Charged = {} /\ \A g \in Process : ~ Charging(job[g])
      BY <1>2, <2>2, <2>6 DEF OneCharge
    <3>2. \A g \in Process : g # h => ~ Charging(job[g])'
      BY <2>3, <3>1
    <3>3. QED
      BY <1>1, <1>2, <2>1, <2>4, <3>1, <3>2 DEF OneCharge
  <2>7. QED
    BY <1>2, <2>5, <2>6
<1>13. QED
  BY <1>7, <1>8, <1>9, <1>10, <1>11, <1>12 DEF IInv

(* ExpireStale starts on the payments that were left waiting.              *)
LEMMA ExpireStaleKeeps ==
  ASSUME IInv, UNCHANGED setting, ExpireStale
  PROVE  IInv'
<1>1. /\ Sweeper \in Process /\ Stale # {} /\ Become(Sweeper, Each("sweep", Stale))
      /\ UNCHANGED <<order, payments, expired, bank>>
  BY DEF ExpireStale, Process
<1>2. Stale \in SUBSET Payment /\ \A p \in Stale : payments[p] # Absent
  BY DEF Stale, IInv, TypeOK, Absent
<1>3. GoodJob(Each("sweep", Stale)) /\ Each("sweep", Stale).pc = "sweep"
  BY <1>1, <1>2, EachFields DEF IInv, BusyPc, GoodJob, NewsBehind, Hands, OnOne, OnQueue
<1>4. QED
  BY <1>1, <1>3, Quiet DEF Charging, OrderGoesOn, Writes

(* The process may forget what it was doing.                               *)
LEMMA AbandonKeeps ==
  ASSUME IInv, UNCHANGED setting, NEW h \in Process, Abandon(h)
  PROVE  IInv'
<1>1. Become(h, Idle) /\ UNCHANGED <<order, payments, expired, bank>> /\ Idle.pc = "idle"
  BY DEF Abandon, Idle
<1>2. QED
  BY <1>1, IdleGood, Quiet DEF Charging, OrderGoesOn, Writes

(* The customer, the bank and the clock.                                   *)
LEMMA OutsideKeeps ==
  ASSUME IInv, UNCHANGED setting, NEW p \in Payment,
         CustomerPays(p) \/ AttemptDies(p) \/ TimePasses(p)
  PROVE  IInv'
<1>1. UNCHANGED <<order, payments, job>> /\ expired' \subseteq Payment
  BY DEF CustomerPays, AttemptDies, TimePasses, IInv, TypeOK
<1>2. BankGoesOn /\ Forward
  <2>1. CASE UNCHANGED bank
    BY <2>1 DEF BankGoesOn, Forward, IInv, TypeOK
  <2>2. ASSUME NEW to \in {"held", "dead"}, bank[p] = "open", bank' = [bank EXCEPT ![p] = to]
        PROVE  BankGoesOn /\ Forward
    BY <2>2, OneEdge DEF SafeEdge, BankEdge
  <2>3. QED
    BY <2>1, <2>2 DEF CustomerPays, AttemptDies, TimePasses, FirstMove
<1>3. PICK j : j = job[Sweeper]
  OBVIOUS
<1>4. Sweeper \in Process /\ Become(Sweeper, j)
  BY <1>1, <1>3 DEF Process, Become, IInv, TypeOK
<1>5. Kept /\ Writes
  BY <1>1 DEF Kept, Writes
<1>6. GoodJob(j)'
  BY <1>2, <1>3, <1>4, <1>5, GoodJobStays DEF IInv
<1>7. QED
  BY <1>1, <1>2, <1>3, <1>4, <1>5, <1>6, Ordinary DEF GoesOn, OrderGoesOn

-----------------------------------------------------------------------------
(* The theorems *)

(* A delivery order to be paid by card, and nothing paid yet.              *)
LEMMA InitHolds == Init => IInv
<1> SUFFICES ASSUME Init PROVE IInv
  OBVIOUS
<1>1. /\ setting \in Settings /\ order = NewRow("delivery", "card")
      /\ payments = [p \in Payment |-> Absent] /\ expired = {}
      /\ bank = [p \in Payment |-> "none"] /\ job = [h \in Process |-> Idle]
  BY DEF Init
<1>2. order \in Row /\ order.status = "created" /\ order.pay = "awaiting"
  BY <1>1 DEF NewRow, FirstPay, Row, Type, Method, Status, Actor, Pay, Dispatch
<1>3. Absent \in Attempt /\ Absent.status = "absent" /\ Idle.pc = "idle"
  BY DEF Absent, Attempt, Idle
<1>4. TypeOK
  BY <1>1, <1>2, <1>3 DEF TypeOK, BankState
<1>5. TableBehind
  BY <1>1, <1>3 DEF TableBehind, Behind
<1>6. \A h \in Process : GoodJob(job[h]) /\ job[h].pc = "idle"
  BY <1>1, <1>3, IdleGood
<1>7. Preparing
  BY <1>1, <1>6 DEF Preparing
<1>8. Room
  <2>1. Starting = {}
    BY <1>6 DEF Starting
  <2>2. setting.attempts \in Nat /\ 1..setting.attempts \subseteq Payment
    BY <1>1, Options, FewHandlers DEF Payment
  <2>3. IsFiniteSet(Unused)
    BY <2>2, Finite, FS_Subset DEF Unused
  <2>4. QED
    BY <2>1, <2>3, FS_EmptySet, FS_CardinalityType DEF Room
<1>9. Charged = {}
  BY <1>1 DEF Charged
<1>10. OneCharge
  BY <1>2, <1>6, <1>9 DEF OneCharge, Charging
<1>11. QED
  BY <1>1, <1>2, <1>4, <1>5, <1>6, <1>7, <1>8, <1>10 DEF IInv

(* Every step of the handlers, the sweeper, the order and the bank.        *)
LEMMA NextKeeps ==
  ASSUME IInv, [Next]_<<vars, setting>>
  PROVE  IInv'
<1>1. CASE UNCHANGED <<vars, setting>>
  <2>1. PICK j : j = job[Sweeper]
    OBVIOUS
  <2>2. Sweeper \in Process /\ Become(Sweeper, j) /\ GoodJob(j)
    BY <1>1, <2>1 DEF vars, Process, Become, IInv, TypeOK
  <2>3. QED
    BY <1>1, <2>1, <2>2, Quiet DEF vars, OrderGoesOn, Writes
<1>2. ASSUME NEW h \in Process, UNCHANGED setting, Step(h) PROVE IInv'
  BY <1>2, CloseOldKeeps, CreatePaymentKeeps, ProviderCreateKeeps, SaveLinkKeeps,
     ProviderStatusKeeps, MarkForReviewKeeps, ApplyStatusKeeps, TellOrderKeeps,
     CaptureForOrderKeeps, ProviderCaptureKeeps, SaveCapturedKeeps, CancelExtraKeeps,
     SaveExtraKeeps, ReleaseForOrderKeeps, ProviderReleaseKeeps, SaveReleasedKeeps,
     PersistPaymentStateKeeps, SweepNextKeeps DEF Step
<1>3. CASE Next
  BY <1>2, <1>3, StartForOrderKeeps, HandleCallbackKeeps, ChangeStatusKeeps, ExpireStaleKeeps,
     AbandonKeeps, OutsideKeeps DEF Next
<1>4. QED
  BY <1>1, <1>3

(* The inductive invariant holds in every state of every behaviour.        *)
THEOREM Invariance == Spec => []IInv
<1>1. IInv /\ [Next]_<<vars, setting>> => IInv'
  BY NextKeeps
<1>2. QED
  BY InitHolds, <1>1, PTL DEF Spec

(* The types of the payments' state; an insert always finds a free row.    *)
THEOREM TypeCorrect == Spec => []TypeOK
<1>1. IInv => TypeOK
  BY DEF IInv
<1>2. QED
  BY Invariance, <1>1, PTL

(* Money is recorded only after the bank moved it, whatever notifications  *)
(* come late, repeatedly, out of order or never and whatever stale record  *)
(* is written (HandleCallback, applyStatus, CaptureForOrder,               *)
(* ReleaseForOrder, ExpireStale).                                          *)
THEOREM NeverAheadOfBankHolds == Spec => []NeverAheadOfBank
<1>1. IInv => NeverAheadOfBank
  BY DEF IInv, TableBehind, Behind, SomeFunded, NeverAheadOfBank
<1>2. QED
  BY Invariance, <1>1, PTL

(* No money is taken for an order that nobody has accepted                 *)
(* (CaptureForOrder runs after the accepting save only).                   *)
THEOREM OnlyAcceptedIsChargedHolds == Spec => []OnlyAcceptedIsCharged
<1>1. IInv => OnlyAcceptedIsCharged
  BY DEF IInv, TypeOK, OneCharge, Charged, OnlyAcceptedIsCharged
<1>2. QED
  BY Invariance, <1>1, PTL

(* One order is charged through one attempt, however many were paid.       *)
THEOREM ChargedOnceHolds == Spec => []ChargedOnce
<1>1. ASSUME IInv PROVE ChargedOnce
  <2>1. \A p, q \in Charged : p = q
    BY <1>1 DEF IInv, OneCharge
  <2>2. CASE Charged = {}
    BY <2>2, FS_EmptySet DEF ChargedOnce, Charged
  <2>3. ASSUME NEW p \in Charged PROVE ChargedOnce
    <3>1. Charged = {p}
      BY <2>1, <2>3
    <3>2. QED
      BY <3>1, FS_Singleton DEF ChargedOnce, Charged
  <2>4. QED
    BY <2>2, <2>3
<1>2. QED
  BY Invariance, <1>1, PTL
=============================================================================
