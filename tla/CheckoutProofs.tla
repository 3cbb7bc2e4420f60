--------------------------- MODULE CheckoutProofs ---------------------------
(***************************************************************************)
(* Money and orders agree: the wallet is never overdrawn, an order paid    *)
(* from it has exactly its total taken, and what comes back belongs to an  *)
(* order that was cancelled or finished.  Nothing is assumed of the prices *)
(* but that an order that is paid for costs a whole number above zero.     *)
(*                                                                         *)
(* Opening hours: what a screen is told stays true until the moment it was *)
(* told.                                                                   *)
(*                                                                         *)
(* Promotions: their counters are real and every quote is fair, for any    *)
(* menu, any promotions the panel can leave behind and any cart.           *)
(***************************************************************************)
EXTENDS Checkout, FiniteSetTheorems, SequenceTheorems, WellFoundedInduction, TLAPS

-----------------------------------------------------------------------------
(* Sums over finite sets *)

(* SumFunctionOnSet is defined by a function that takes one element at a   *)
(* time out of a set; what one more element does to a sum needs an         *)
(* induction over finite sets, done here by looking at a least             *)
(* counterexample.  The same lemmas are in AgentOrdersProofs.              *)

(* Among subsets of a finite set there is one that holds no other.         *)
LEMMA MinimalSubset ==
  ASSUME NEW S, IsFiniteSet(S), NEW C, C \subseteq SUBSET S, C # {}
  PROVE  \E T \in C : \A U \in C : U \subseteq T => U = T
<1> DEFINE R == StrictSubsetOrdering(S)
<1> DEFINE F == FiniteSubsetsOf(S)
<1>1. IsWellFoundedOn(R, F)
  BY FS_StrictSubsetOrderingWellFounded
<1>2. \A T \in C : T \in F
  BY FS_Subset DEF FiniteSubsetsOf
<1>3. \E T \in C : \A U \in C : ~ (<<U, T>> \in R)
  <2> HIDE DEF R, F
  <2>1. C \subseteq F /\ \E x : x \in C
    BY <1>2
  <2>2. QED
    BY <1>1, <2>1, WFMin
<1>4. QED
  BY <1>3 DEF StrictSubsetOrdering

Pick(S) == CHOOSE x \in S : TRUE
Sum(f, S) == SumFunctionOnSet(f, S)
Unfolded(f, S, sum) ==
  sum = [s \in SUBSET S |-> IF s = {} THEN 0 ELSE f[Pick(s)] + sum[s \ {Pick(s)}]]
OneLess(f, S) == IF S = {} THEN 0 ELSE f[Pick(S)] + Sum(f, S \ {Pick(S)})

(* The definition, without the operators it passes on.                     *)
LEMMA SumIs ==
  ASSUME NEW f, NEW S
  PROVE  Sum(f, S) = (CHOOSE sum : Unfolded(f, S, sum))[S]
BY DEF Sum, SumFunctionOnSet, FoldFunctionOnSet, MapThenFoldSet, Unfolded, Pick

(* An element picked from a set is in it.                                  *)
LEMMA PickIsIn ==
  ASSUME NEW S, S # {}
  PROVE  Pick(S) \in S
BY DEF Pick

(* If the smaller sets are summed one element at a time, so is this one.   *)
LEMMA UnfoldStep ==
  ASSUME NEW f, NEW S, IsFiniteSet(S),
         \A s \in SUBSET S : s # S => Sum(f, s) = OneLess(f, s)
  PROVE  Sum(f, S) = OneLess(f, S)
<1> DEFINE sums == [s \in SUBSET S |-> IF s = S THEN OneLess(f, S) ELSE Sum(f, s)]
<1>1. ASSUME NEW s \in SUBSET S
      PROVE  sums[s] = IF s = {} THEN 0 ELSE f[Pick(s)] + sums[s \ {Pick(s)}]
  <2>1. sums[s] = OneLess(f, s)
    OBVIOUS
  <2>2. CASE s = {}
    BY <2>1, <2>2 DEF OneLess
  <2>3. CASE s # {}
    <3>1. s \ {Pick(s)} \in SUBSET S /\ s \ {Pick(s)} # S
      BY <2>3, PickIsIn
    <3>2. sums[s \ {Pick(s)}] = Sum(f, s \ {Pick(s)})
      BY <3>1
    <3>3. QED
      BY <2>1, <2>3, <3>2 DEF OneLess
  <2>4. QED
    BY <2>2, <2>3
<1>2. Unfolded(f, S, sums)
  <2> DEFINE body == [s \in SUBSET S |-> IF s = {} THEN 0 ELSE f[Pick(s)] + sums[s \ {Pick(s)}]]
  <2>1. sums = body
    BY <1>1
  <2>2. QED
    BY <2>1 DEF Unfolded
<1> DEFINE sum == CHOOSE g : Unfolded(f, S, g)
<1>3. Unfolded(f, S, sum)
  BY <1>2
<1>4. ASSUME NEW s \in SUBSET S
      PROVE  sum[s] = IF s = {} THEN 0 ELSE f[Pick(s)] + sum[s \ {Pick(s)}]
  BY <1>3 DEF Unfolded
<1>5. \A s \in SUBSET S : s # S => sum[s] = Sum(f, s)
  <2> DEFINE Wrong == {s \in SUBSET S : s # S /\ sum[s] # Sum(f, s)}
  <2> HIDE DEF sum
  <2>1. SUFFICES ASSUME Wrong # {} PROVE FALSE
    OBVIOUS
  <2>2. PICK s \in Wrong : \A t \in Wrong : t \subseteq s => t = s
    <3>1. Wrong \subseteq SUBSET S
      OBVIOUS
    <3> HIDE DEF Wrong
    <3>2. QED
      BY <2>1, <3>1, MinimalSubset
  <2>3. s # {}
    <3>1. SUFFICES ASSUME s = {} PROVE FALSE
      OBVIOUS
    <3>2. sum[s] = 0 /\ Sum(f, s) = 0
      BY <1>4, <2>2, <3>1 DEF OneLess
    <3>3. QED
      BY <2>2, <3>2
  <2>4. Pick(s) \in s
    BY <2>3, PickIsIn
  <2>5. s \ {Pick(s)} \in SUBSET S /\ s \ {Pick(s)} # S /\ s \ {Pick(s)} \notin Wrong
    BY <2>2, <2>4
  <2>6. sum[s \ {Pick(s)}] = Sum(f, s \ {Pick(s)})
    BY <2>5
  <2>7. sum[s] = f[Pick(s)] + sum[s \ {Pick(s)}]
    BY <1>4, <2>2, <2>3
  <2>8. Sum(f, s) = f[Pick(s)] + Sum(f, s \ {Pick(s)})
    BY <2>2, <2>3 DEF OneLess
  <2>9. QED
    BY <2>2, <2>6, <2>7, <2>8
<1>6. Sum(f, S) = sum[S]
  BY SumIs
<1> HIDE DEF sum
<1>7. CASE S = {}
  BY <1>4, <1>6, <1>7 DEF OneLess
<1>8. CASE S # {}
  <2>1. Pick(S) \in S
    BY <1>8, PickIsIn
  <2>2. sum[S \ {Pick(S)}] = Sum(f, S \ {Pick(S)})
    BY <1>5, <2>1
  <2>3. QED
    BY <1>4, <1>6, <1>8, <2>2 DEF OneLess
<1>9. QED
  BY <1>7, <1>8

(* Every sum over a finite set takes one element at a time.                *)
LEMMA SumUnfolds ==
  ASSUME NEW f, NEW S, IsFiniteSet(S)
  PROVE  Sum(f, S) = OneLess(f, S)
<1> DEFINE Wrong == {s \in SUBSET S : Sum(f, s) # OneLess(f, s)}
<1>1. SUFFICES ASSUME Wrong # {} PROVE FALSE
  OBVIOUS
<1>2. PICK s \in Wrong : \A t \in Wrong : t \subseteq s => t = s
  <2>1. Wrong \subseteq SUBSET S
    OBVIOUS
  <2> HIDE DEF Wrong
  <2>2. QED
    BY <1>1, <2>1, MinimalSubset
<1>3. \A t \in SUBSET s : t # s => Sum(f, t) = OneLess(f, t)
  BY <1>2
<1>4. IsFiniteSet(s)
  BY <1>2, FS_Subset
<1>5. QED
  BY <1>2, <1>3, <1>4, UnfoldStep

(* Nothing adds up to nothing.                                             *)
LEMMA SumOfNone ==
  ASSUME NEW f
  PROVE  SumFunctionOnSet(f, {}) = 0
BY SumUnfolds, FS_EmptySet DEF Sum, OneLess

(* Whole numbers add up to a whole number.                                 *)
LEMMA SumIsInt ==
  ASSUME NEW f, NEW S, IsFiniteSet(S), \A x \in S : f[x] \in Int
  PROVE  SumFunctionOnSet(f, S) \in Int
<1> DEFINE Wrong == {s \in SUBSET S : Sum(f, s) \notin Int}
<1>1. SUFFICES ASSUME Wrong # {} PROVE FALSE
  BY DEF Sum
<1>2. PICK s \in Wrong : \A t \in Wrong : t \subseteq s => t = s
  <2>1. Wrong \subseteq SUBSET S
    OBVIOUS
  <2> HIDE DEF Wrong
  <2>2. QED
    BY <1>1, <2>1, MinimalSubset
<1>3. Sum(f, s) = OneLess(f, s)
  BY <1>2, FS_Subset, SumUnfolds
<1>4. s # {}
  BY <1>2, <1>3 DEF OneLess
<1>5. Pick(s) \in s
  BY <1>4, PickIsIn
<1>6. s \ {Pick(s)} \in SUBSET S /\ s \ {Pick(s)} \notin Wrong
  BY <1>2, <1>5
<1>7. Sum(f, s \ {Pick(s)}) \in Int /\ f[Pick(s)] \in Int
  BY <1>2, <1>5, <1>6
<1>8. QED
  BY <1>2, <1>3, <1>4, <1>7 DEF OneLess

(* A sum looks at nothing but what it adds.                                *)
LEMMA SumOfSame ==
  ASSUME NEW f, NEW g, NEW S, IsFiniteSet(S), \A x \in S : f[x] = g[x]
  PROVE  SumFunctionOnSet(f, S) = SumFunctionOnSet(g, S)
<1> DEFINE Wrong == {s \in SUBSET S : Sum(f, s) # Sum(g, s)}
<1>1. SUFFICES ASSUME Wrong # {} PROVE FALSE
  BY DEF Sum
<1>2. PICK s \in Wrong : \A t \in Wrong : t \subseteq s => t = s
  <2>1. Wrong \subseteq SUBSET S
    OBVIOUS
  <2> HIDE DEF Wrong
  <2>2. QED
    BY <1>1, <2>1, MinimalSubset
<1>3. Sum(f, s) = OneLess(f, s) /\ Sum(g, s) = OneLess(g, s)
  BY <1>2, FS_Subset, SumUnfolds
<1>4. s # {}
  BY <1>2, <1>3 DEF OneLess
<1>5. Pick(s) \in s
  BY <1>4, PickIsIn
<1>6. Sum(f, s \ {Pick(s)}) = Sum(g, s \ {Pick(s)})
  BY <1>2, <1>5
<1>7. f[Pick(s)] = g[Pick(s)]
  BY <1>2, <1>5
<1>8. QED
  BY <1>2, <1>3, <1>4, <1>6, <1>7 DEF OneLess

(* One more element adds what it counts for.                               *)
LEMMA SumOfOneMore ==
  ASSUME NEW f, NEW S, IsFiniteSet(S), NEW y, y \notin S, \A x \in S \cup {y} : f[x] \in Int
  PROVE  SumFunctionOnSet(f, S \cup {y}) = SumFunctionOnSet(f, S) + f[y]
<1> DEFINE All == S \cup {y}
<1> DEFINE Adds(s, z) == Sum(f, s \cup {z}) = Sum(f, s) + f[z]
<1> DEFINE Wrong == {s \in SUBSET All : \E z \in All \ s : ~Adds(s, z)}
<1>1. SUFFICES ASSUME Wrong # {} PROVE FALSE
  BY DEF Sum
<1>2. IsFiniteSet(All)
  BY FS_AddElement
<1>3. \A t \in SUBSET All : IsFiniteSet(t) /\ Sum(f, t) \in Int
  <2> TAKE t \in SUBSET All
  <2>1. IsFiniteSet(t) /\ \A z \in t : f[z] \in Int
    BY <1>2, FS_Subset
  <2>2. QED
    BY <2>1, SumIsInt DEF Sum
<1>4. PICK s \in Wrong : \A t \in Wrong : t \subseteq s => t = s
  <2>1. Wrong \subseteq SUBSET All
    OBVIOUS
  <2> HIDE DEF Wrong, All
  <2>2. QED
    BY <1>1, <1>2, <2>1, MinimalSubset
<1>5. PICK z \in All \ s : ~Adds(s, z)
  BY <1>4
<1>6. \A t \in SUBSET s : t # s => \A x \in All \ t : Adds(t, x)
  BY <1>4
<1>7. s \in SUBSET All /\ s \cup {z} \in SUBSET All /\ s \cup {z} # {}
  BY <1>4, <1>5
<1> DEFINE x == Pick(s \cup {z})
<1>8. x \in s \cup {z}
  BY PickIsIn
<1>9. Sum(f, s \cup {z}) = f[x] + Sum(f, (s \cup {z}) \ {x})
  <2>1. IsFiniteSet(s \cup {z})
    BY <1>3, <1>7
  <2>2. Sum(f, s \cup {z}) = OneLess(f, s \cup {z})
    BY <2>1, SumUnfolds
  <2>3. QED
    BY <1>7, <2>2 DEF OneLess
<1> HIDE DEF x, Wrong
<1>10. Sum(f, s) \in Int /\ f[z] \in Int /\ f[x] \in Int
  BY <1>3, <1>5, <1>7, <1>8
<1>11. CASE x = z
  <2>1. (s \cup {z}) \ {x} = s
    BY <1>5, <1>11
  <2>2. Sum(f, s \cup {z}) = f[z] + Sum(f, s)
    BY <1>9, <1>11, <2>1
  <2>3. QED
    BY <1>5, <1>10, <2>2
<1>12. CASE x # z
  <2> DEFINE r == s \ {x}
  <2>1. x \in s /\ (s \cup {z}) \ {x} = r \cup {z} /\ r \in SUBSET s /\ r # s
        /\ x \in All \ r /\ z \in All \ r /\ r \cup {x} = s /\ r \in SUBSET All
    BY <1>5, <1>7, <1>8, <1>12
  <2>2. Sum(f, r \cup {z}) = Sum(f, r) + f[z]
    BY <1>6, <2>1
  <2>3. Sum(f, r \cup {x}) = Sum(f, r) + f[x]
    BY <1>6, <2>1
  <2>4. Sum(f, r) \in Int
    BY <1>3, <2>1
  <2>5. Sum(f, s \cup {z}) = f[x] + (Sum(f, r) + f[z])
    BY <1>9, <2>1, <2>2
  <2>6. Sum(f, s) = Sum(f, r) + f[x]
    BY <2>1, <2>3
  <2> HIDE DEF r
  <2>7. Sum(f, s \cup {z}) = Sum(f, s) + f[z]
    BY <1>10, <2>4, <2>5, <2>6
  <2>8. QED
    BY <1>5, <2>7
<1>13. QED
  BY <1>11, <1>12

-----------------------------------------------------------------------------
(* The inductive invariant *)

EntryType == [order : Order \cup {None}, type : {"cashback", "spend", "refund"}, amount : Nat]

(* What the money needs to know of a row.                                  *)
GoodRow(r) ==
  /\ {"status", "method", "pay", "key", "total"} \subseteq DOMAIN r
  /\ r.status \in {"open", "cancelled", "done"} /\ r.method \in Method
  /\ r.pay \in {"none", "paid", "refunded"} /\ r.total \in Nat \ {0}
  /\ r.pay = "paid" => r.method = "wallet"

Shapes ==
  /\ ledger \subseteq EntryType /\ IsFiniteSet(ledger)
  /\ DOMAIN orders = Order /\ \A o \in Order : orders[o] = NoOrder \/ GoodRow(orders[o])
  /\ DOMAIN job = Handler /\ \A h \in Handler : "pc" \in DOMAIN job[h]

(* A request that makes an order, and one that gives money back.           *)
Creates(j) ==
  \/ j.pc \in {"price", "balance", "save"}
  \/ j.pc \in {"lock", "insert"} /\ j.entry.type = "spend"
Returns(j, type) == j.pc \in {"lock", "insert"} /\ j.entry.type = type

Touched(o) == \E e \in ledger : e.order = o

(* The order is nobody else's and not there yet; its debit is in the       *)
(* ledger exactly when it was made.                                        *)
GoodNew(j) ==
  /\ "order" \in DOMAIN j /\ j.order \in Order /\ orders[j.order] = NoOrder
  /\ j.pc = "price" => j.method \in Method
  /\ j.pc # "price" =>
       /\ {"row", "gave"} \subseteq DOMAIN j /\ GoodRow(j.row) /\ j.row.status = "open"
       /\ j.row.pay = IF j.row.method = "wallet" THEN "paid" ELSE "none"
  /\ j.pc # "save" => ~Touched(j.order)
  /\ j.pc \in {"balance", "lock", "insert"} => j.row.method = "wallet"
  /\ j.pc \in {"lock", "insert"} => /\ "entry" \in DOMAIN j
                                    /\ j.entry = Entry(j.order, "spend", j.row.total)
  /\ j.pc = "save" =>
       /\ j.row.method = "wallet" => Entry(j.order, "spend", j.row.total) \in ledger
       /\ \A e \in ledger : e.order = j.order =>
            j.row.method = "wallet" /\ e = Entry(j.order, "spend", j.row.total)

GoodRefund(j) ==
  /\ "order" \in DOMAIN j /\ j.order \in Order /\ orders[j.order] # NoOrder
  /\ orders[j.order].status = "cancelled" /\ orders[j.order].method = "wallet"

GoodJob(j) ==
  /\ j.pc \in {"idle", "price", "balance", "lock", "insert", "save", "count", "refunded"}
  /\ j.pc \in {"lock", "insert"} => j.entry.type \in {"spend", "refund", "cashback"}
  /\ Creates(j) => GoodNew(j)
  /\ Returns(j, "refund") =>
       /\ GoodRefund(j) /\ "entry" \in DOMAIN j
       /\ j.entry = Entry(j.order, "refund", orders[j.order].total)
  /\ Returns(j, "cashback") =>
       /\ {"order", "entry"} \subseteq DOMAIN j /\ j.order \in Order
       /\ orders[j.order].status = "done"
       /\ j.entry = Entry(j.order, "cashback", j.entry.amount) /\ j.entry.amount \in Nat
  /\ j.pc = "refunded" =>
       /\ GoodRefund(j) /\ Entry(j.order, "refund", orders[j.order].total) \in ledger
  /\ j.pc = "count" => {"order", "gave"} \subseteq DOMAIN j

GoodJobs == \A h \in Handler : GoodJob(job[h])
OneCreator == \A g, h \in Handler :
  Creates(job[g]) /\ Creates(job[h]) /\ job[g].order = job[h].order => g = h

(* The lock is held exactly while an entry is about to be inserted.        *)
LockIsHeld ==
  /\ \A h \in Handler : job[h].pc = "insert" => lock = h
  /\ lock # None => lock \in Handler /\ job[lock].pc = "insert"

Covered == /\ Balance >= 0
           /\ \A h \in Handler : job[h].pc = "insert" /\ job[h].entry.type = "spend"
                                   => Balance >= job[h].entry.amount

EntriesMatch == \A e \in ledger :
  /\ e.order = None => e.type = "cashback"
  /\ e.order # None =>
       /\ e.type = "refund" => /\ orders[e.order].status = "cancelled"
                               /\ e.amount = orders[e.order].total
                               /\ Entry(e.order, "spend", e.amount) \in ledger
       /\ e.type = "cashback" => orders[e.order].status = "done"
       /\ e.type = "spend" /\ orders[e.order] # NoOrder => e.amount = orders[e.order].total

RowsMatch == \A o \in SavedOrders :
  /\ orders[o].method = "wallet" => Entry(o, "spend", orders[o].total) \in ledger
  /\ orders[o].pay = "refunded" => Entry(o, "refund", orders[o].total) \in ledger
OneOrderPerKey == \A o, p \in SavedOrders :
  orders[o].key = orders[p].key /\ orders[o].key # None => o = p

IInv == /\ Shapes /\ GoodJobs /\ OneCreator /\ LockIsHeld /\ Covered
        /\ EntriesMatch /\ RowsMatch /\ OneOrderPerKey

-----------------------------------------------------------------------------
(* The balance *)

Amounts(entries) == [e \in entries |-> Signed(e)]

(* What an entry counts for is a whole number.                             *)
LEMMA SignedIsInt ==
  ASSUME NEW e \in EntryType
  PROVE  Signed(e) \in Int
BY DEF EntryType, Signed

(* The balance is a sum of whole numbers.                                  *)
LEMMA BalanceIsInt ==
  ASSUME Shapes
  PROVE  Balance \in Int
<1>1. \A e \in ledger : Amounts(ledger)[e] \in Int
  BY SignedIsInt DEF Shapes, Amounts
<1>2. SumFunctionOnSet(Amounts(ledger), ledger) \in Int
  BY <1>1, SumIsInt DEF Shapes
<1>3. DOMAIN Amounts(ledger) = ledger
  BY DEF Amounts
<1>4. QED
  BY <1>2, <1>3 DEF Balance, SumFunction, Amounts

(* One more entry changes the balance by its amount.                       *)
LEMMA BalanceMoves ==
  ASSUME Shapes, NEW e \in EntryType, e \notin ledger, ledger' = ledger \cup {e}
  PROVE  Balance' = Balance + Signed(e)
<1> DEFINE all == Amounts(ledger \cup {e})
<1>1. \A x \in ledger \cup {e} : all[x] = Signed(x) /\ all[x] \in Int
  BY SignedIsInt DEF Shapes, Amounts
<1>2. IsFiniteSet(ledger)
  BY DEF Shapes
<1> HIDE DEF all
<1>3. SumFunctionOnSet(all, ledger \cup {e}) = SumFunctionOnSet(all, ledger) + all[e]
  BY <1>1, <1>2, SumOfOneMore
<1>4. SumFunctionOnSet(all, ledger) = SumFunctionOnSet(Amounts(ledger), ledger)
  BY <1>1, <1>2, SumOfSame DEF Amounts
<1>5. Balance = SumFunctionOnSet(Amounts(ledger), ledger)
  <2>1. DOMAIN Amounts(ledger) = ledger
    BY DEF Amounts
  <2>2. QED
    BY <2>1 DEF Balance, SumFunction, Amounts
<1>6. Balance' = SumFunctionOnSet(all, ledger \cup {e})
  <2>1. DOMAIN all = ledger \cup {e} /\ all = [x \in ledger \cup {e} |-> Signed(x)]
    BY DEF all, Amounts
  <2>2. Balance' = SumFunctionOnSet([x \in ledger' |-> Signed(x)], DOMAIN [x \in ledger' |-> Signed(x)])
    BY DEF Balance, SumFunction, Signed
  <2>3. QED
    BY <2>1, <2>2
<1>7. QED
  BY <1>1, <1>3, <1>4, <1>5, <1>6

-----------------------------------------------------------------------------
(* What a step leaves alone *)

(* One goroutine goes on as j, the others stay.                            *)
Becomes(h, j) ==
  DOMAIN job' = Handler /\ \A g \in Handler : job'[g] = IF g = h THEN j ELSE job[g]

(* What an assignment to one goroutine does.                               *)
LEMMA JobWritten ==
  ASSUME Shapes, NEW h \in Handler, NEW j, job' = [job EXCEPT ![h] = j]
  PROVE  Becomes(h, j)
BY DEF Shapes, Becomes

(* A goroutine that does nothing is good, whatever the tables hold.        *)
LEMMA IdleIsGood == /\ GoodJob(Idle) /\ "pc" \in DOMAIN Idle /\ ~Creates(Idle)
                    /\ Idle.pc \notin {"lock", "insert"}
BY DEF GoodJob, Idle, Creates, Returns

(* Neither tables nor lock change.                                         *)
LEMMA JobGoesOn ==
  ASSUME IInv, UNCHANGED <<ledger, orders, lock>>, NEW h \in Handler, NEW j, Becomes(h, j),
         "pc" \in DOMAIN j, GoodJob(j), job[h].pc # "insert", j.pc # "insert",
         Creates(j) => \A g \in Handler : g # h /\ Creates(job[g]) => job[g].order # j.order
  PROVE  IInv'
<1>1. Shapes'
  BY DEF IInv, Shapes, Becomes, EntryType, GoodRow
<1>2. GoodJobs'
  <2> SUFFICES ASSUME NEW g \in Handler PROVE GoodJob(job[g])'
    BY DEF GoodJobs
  <2>1. GoodJob(job'[g])
    BY DEF IInv, GoodJobs, Becomes
  <2>2. QED
    BY <2>1 DEF GoodJob, GoodNew, GoodRefund, Creates, Returns, Touched, GoodRow, Entry
<1>3. OneCreator'
  BY DEF IInv, OneCreator, Creates, Becomes
<1>4. LockIsHeld'
  BY DEF IInv, LockIsHeld, Becomes
<1>5. Balance' = Balance
  BY DEF Balance
<1>6. Covered'
  BY <1>5 DEF IInv, Covered, Becomes
<1>7. EntriesMatch' /\ RowsMatch' /\ OneOrderPerKey'
  BY DEF IInv, EntriesMatch, RowsMatch, OneOrderPerKey, SavedOrders, Entry
<1>8. QED
  BY <1>1, <1>2, <1>3, <1>4, <1>6, <1>7 DEF IInv

-----------------------------------------------------------------------------
(* Creating an order *)

(* BeginOrder takes an id nothing knows of.                                *)
LEMMA BeginOrderKeeps ==
  ASSUME IInv, NEW h \in Handler, BeginOrder(h)
  PROVE  IInv'
<1>1. PICK c \in Cart, o \in Fresh :
        \E expected, key : \E method \in Method :
          job' = [job EXCEPT ![h] = [pc |-> "price", cart |-> c, method |-> method,
                                     key |-> key, order |-> o, expected |-> expected]]
  BY DEF BeginOrder
<1>2. PICK expected, key, method :
          /\ method \in Method
          /\ job' = [job EXCEPT ![h] = [pc |-> "price", cart |-> c, method |-> method,
                                        key |-> key, order |-> o, expected |-> expected]]
  BY <1>1
<1>3. PICK j : j = [pc |-> "price", cart |-> c, method |-> method,
                    key |-> key, order |-> o, expected |-> expected]
  OBVIOUS
<1>4. job[h].pc = "idle" /\ UNCHANGED <<ledger, lock, orders>> /\ Becomes(h, j)
  BY <1>2, <1>3, JobWritten DEF BeginOrder, IInv
<1>5. o \in Unused
  BY <1>1 DEF Fresh
<1>6. /\ o \in Order /\ orders[o] = NoOrder /\ ~Touched(o)
      /\ \A g \in Handler : Creates(job[g]) => job[g].order # o
  BY <1>5 DEF Unused, Touched, Creates
<1>7. GoodJob(j)
  BY <1>2, <1>3, <1>6 DEF GoodJob, GoodNew, Creates, Returns
<1>8. QED
  BY <1>3, <1>4, <1>6, <1>7, JobGoesOn

(* CreateExpecting prices the cart; what is to be paid is above zero.      *)
LEMMA CreateExpectingKeeps ==
  ASSUME IInv, NEW h \in Handler, CreateExpecting(h)
  PROVE  IInv'
<1>1. PICK quote : job' = [job EXCEPT ![h] = Priced(job[h], quote)]
  BY DEF CreateExpecting, IInv, Shapes
<1>2. PICK j : j = Priced(job[h], quote)
  OBVIOUS
<1>3. job[h].pc = "price" /\ UNCHANGED <<ledger, lock, orders>> /\ Becomes(h, j)
  BY <1>1, <1>2, JobWritten DEF CreateExpecting, IInv
<1>4. CASE j = Idle
  BY <1>3, <1>4, IdleIsGood, JobGoesOn
<1>5. CASE j # Idle
  <2>1. GoodJob(job[h]) /\ Creates(job[h])
    BY <1>3 DEF IInv, GoodJobs, Creates
  <2>2. GoodNew(job[h])
    BY <2>1 DEF GoodJob
  <2>3. /\ quote.total \in Nat \ {0} /\ j.order = job[h].order
        /\ "pc" \in DOMAIN j /\ {"order", "row", "gave"} \subseteq DOMAIN j
        /\ j.pc = IF job[h].method = "wallet" THEN "balance" ELSE "save"
        /\ {"status", "method", "pay", "key", "total"} \subseteq DOMAIN j.row
        /\ j.row.status = "open" /\ j.row.method = job[h].method /\ j.row.total = quote.total
        /\ j.row.pay = IF job[h].method = "wallet" THEN "paid" ELSE "none"
    BY <1>2, <1>5 DEF Priced, Idle
  <2>4. j.order \in Order /\ orders[j.order] = NoOrder /\ ~Touched(j.order)
        /\ job[h].method \in Method
    BY <1>3, <2>2, <2>3 DEF GoodNew
  <2>5. GoodRow(j.row)
    BY <2>3, <2>4 DEF GoodRow, Method
  <2>6. GoodNew(j)
    BY <2>3, <2>4, <2>5 DEF GoodNew, Method, Touched
  <2>7. GoodJob(j) /\ j.pc # "insert" /\ "pc" \in DOMAIN j
    BY <2>3, <2>6 DEF GoodJob, Creates, Returns
  <2>8. \A g \in Handler : g # h /\ Creates(job[g]) => job[g].order # j.order
    BY <2>1, <2>3 DEF IInv, OneCreator
  <2>9. QED
    BY <1>3, <2>7, <2>8, JobGoesOn
<1>6. QED
  BY <1>4, <1>5

(* DebitForOrder asks the balance before it waits for the lock.            *)
LEMMA CheckBalanceKeeps ==
  ASSUME IInv, NEW h \in Handler, CheckBalance(h)
  PROVE  IInv'
<1>1. PICK j : j = IF Balance < SpendMin THEN Idle
                   ELSE [pc |-> "lock", entry |-> Entry(job[h].order, "spend", job[h].row.total),
                         order |-> job[h].order, row |-> job[h].row, gave |-> job[h].gave]
  OBVIOUS
<1>2. job' = [job EXCEPT ![h] = j]
  BY <1>1 DEF CheckBalance, IInv, Shapes
<1>3. job[h].pc = "balance" /\ UNCHANGED <<ledger, lock, orders>> /\ Becomes(h, j)
  BY <1>2, JobWritten DEF CheckBalance, IInv
<1>4. CASE j = Idle
  BY <1>3, <1>4, IdleIsGood, JobGoesOn
<1>5. CASE j # Idle
  <2>1. Creates(job[h]) /\ GoodNew(job[h])
    BY <1>3 DEF IInv, GoodJobs, GoodJob, Creates
  <2>2. /\ j.pc = "lock" /\ j.entry = Entry(j.order, "spend", j.row.total)
        /\ j.order = job[h].order /\ j.row = job[h].row
        /\ {"pc", "order", "row", "gave", "entry"} \subseteq DOMAIN j
    BY <1>1, <1>5
  <2>3. GoodNew(j)
    BY <1>3, <2>1, <2>2 DEF GoodNew
  <2>4. GoodJob(j)
    BY <2>2, <2>3 DEF GoodJob, Creates, Returns, Entry
  <2>5. \A g \in Handler : g # h /\ Creates(job[g]) => job[g].order # j.order
    BY <2>1, <2>2 DEF IInv, OneCreator
  <2>6. QED
    BY <1>3, <2>2, <2>4, <2>5, JobGoesOn
<1>6. QED
  BY <1>4, <1>5

-----------------------------------------------------------------------------
(* The wallet *)

(* With the lock comes the right to insert one entry; a debit is covered.  *)
LEMMA TakeLockKeeps ==
  ASSUME IInv, NEW h \in Handler, TakeLock(h)
  PROVE  IInv'
<1>1. job[h].pc = "lock" /\ lock = None /\ UNCHANGED <<ledger, orders>> /\ GoodJob(job[h])
  BY DEF TakeLock, WalletIsFree, IInv, GoodJobs
<1>2. CASE job' = [job EXCEPT ![h] = Idle] /\ UNCHANGED lock
  <2>1. Becomes(h, Idle)
    BY <1>2, JobWritten DEF IInv
  <2>2. QED
    BY <1>1, <1>2, <2>1, IdleIsGood, JobGoesOn
<1>3. CASE /\ job' = [job EXCEPT ![h].pc = "insert"] /\ lock' = h
           /\ ~(job[h].entry.type = "spend" /\ Balance < job[h].entry.amount)
  <2>1. PICK j : j = [job[h] EXCEPT !.pc = "insert"]
    OBVIOUS
  <2>2. job' = [job EXCEPT ![h] = j]
    BY <1>3, <2>1 DEF IInv, Shapes
  <2>3. Becomes(h, j)
    BY <2>2, JobWritten DEF IInv
  <2>4. "pc" \in DOMAIN job[h]
    BY DEF IInv, Shapes
  <2>5. /\ DOMAIN j = DOMAIN job[h] /\ j.pc = "insert"
        /\ \A f \in DOMAIN j : f # "pc" => j[f] = job[h][f]
    BY <2>1, <2>4
  <2>6. /\ {"pc", "order", "entry"} \subseteq DOMAIN job[h]
        /\ job[h].entry.type \in {"spend", "refund", "cashback"}
        /\ job[h].entry.type = "spend" => {"row", "gave"} \subseteq DOMAIN job[h]
    BY <1>1, <2>4 DEF GoodJob, GoodNew, GoodRefund, Creates, Returns
  <2>7. /\ j.order = job[h].order /\ j.entry = job[h].entry
        /\ job[h].entry.type = "spend" => j.row = job[h].row /\ j.gave = job[h].gave
    BY <2>5, <2>6
  <2>8. (Creates(j) <=> Creates(job[h])) /\ \A type : Returns(j, type) <=> Returns(job[h], type)
    BY <1>1, <2>5, <2>7 DEF Creates, Returns
  <2>9. ASSUME Creates(j) PROVE GoodNew(j)
    <3>1. GoodNew(job[h]) /\ job[h].entry.type = "spend"
      BY <1>1, <2>8, <2>9 DEF GoodJob, Creates
    <3>2. QED
      BY <1>1, <2>5, <2>6, <2>7, <3>1 DEF GoodNew
  <2>10. GoodJob(j)
    <3>1. Returns(j, "refund") => GoodRefund(j)
                                  /\ j.entry = Entry(j.order, "refund", orders[j.order].total)
      BY <1>1, <2>5, <2>6, <2>7, <2>8 DEF GoodJob, GoodRefund
    <3>2. Returns(j, "cashback") =>
            /\ j.order \in Order /\ orders[j.order].status = "done"
            /\ j.entry = Entry(j.order, "cashback", j.entry.amount) /\ j.entry.amount \in Nat
      BY <1>1, <2>6, <2>7, <2>8 DEF GoodJob
    <3>3. QED
      BY <2>5, <2>6, <2>7, <2>9, <3>1, <3>2 DEF GoodJob
  <2>11. Shapes'
    BY <1>1, <2>3, <2>4, <2>5 DEF IInv, Shapes, Becomes, EntryType, GoodRow
  <2>12. GoodJobs'
    <3> SUFFICES ASSUME NEW g \in Handler PROVE GoodJob(job[g])'
      BY DEF GoodJobs
    <3>1. GoodJob(job'[g])
      BY <2>3, <2>10 DEF IInv, GoodJobs, Becomes
    <3>2. QED
      BY <1>1, <3>1 DEF GoodJob, GoodNew, GoodRefund, Creates, Returns, Touched, GoodRow, Entry
  <2>13. OneCreator'
    <3> SUFFICES ASSUME NEW a \in Handler, NEW b \in Handler, Creates(job[a])', Creates(job[b])',
                        job'[a].order = job'[b].order
                 PROVE  a = b
      BY DEF OneCreator
    <3>1. Creates(job'[a]) /\ Creates(job'[b])
      BY DEF Creates
    <3>2. Creates(job[a]) /\ Creates(job[b]) /\ job[a].order = job[b].order
      BY <2>3, <2>7, <2>8, <3>1 DEF Becomes
    <3>3. QED
      BY <3>2 DEF IInv, OneCreator
  <2>14. LockIsHeld'
    <3>1. \A g \in Handler : job[g].pc # "insert"
      BY <1>1, NoneIsNoId DEF IInv, LockIsHeld
    <3>2. QED
      BY <1>3, <2>3, <2>5, <3>1 DEF LockIsHeld, Becomes
  <2>15. Covered'
    <3>1. Balance' = Balance
      BY <1>1 DEF Balance
    <3>2. \A g \in Handler : job[g].pc # "insert"
      BY <1>1, NoneIsNoId DEF IInv, LockIsHeld
    <3>3. Balance \in Int
      BY BalanceIsInt DEF IInv
    <3>4. job[h].entry.type = "spend" => job[h].entry.amount \in Int
      BY <1>1 DEF GoodJob, Creates, GoodNew, GoodRow, Entry
    <3>5. QED
      BY <1>3, <2>3, <2>5, <2>7, <3>1, <3>2, <3>3, <3>4 DEF IInv, Covered, Becomes
  <2>16. EntriesMatch' /\ RowsMatch' /\ OneOrderPerKey'
    BY <1>1 DEF IInv, EntriesMatch, RowsMatch, OneOrderPerKey, SavedOrders, Entry
  <2>17. QED
    BY <2>11, <2>12, <2>13, <2>14, <2>15, <2>16 DEF IInv
<1>4. QED
  BY <1>1, <1>2, <1>3 DEF TakeLock

(* The goroutine with the lock leaves one entry in the ledger, its own or  *)
(* the one that was there, and gives the lock back.                        *)
LEMMA LedgerGrows ==
  ASSUME IInv, NEW h \in Handler, NEW j, NEW e \in EntryType, job[h].pc = "insert",
         ledger' = ledger \cup {e}, lock' = None, UNCHANGED orders, Becomes(h, j),
         "pc" \in DOMAIN j, j.pc # "insert", GoodJob(j)',
         Creates(j) => Creates(job[h]) /\ j.order = job[h].order,
         e.order \in Order,
         \A g \in Handler : g # h /\ Creates(job[g]) => job[g].order # e.order,
         e.type = "refund" => /\ orders[e.order].status = "cancelled"
                              /\ e.amount = orders[e.order].total
                              /\ Entry(e.order, "spend", e.amount) \in ledger,
         e.type = "cashback" => orders[e.order].status = "done",
         e.type = "spend" => /\ orders[e.order] # NoOrder => e.amount = orders[e.order].total
                             /\ e \notin ledger => Balance >= e.amount
  PROVE  IInv'
<1>1. lock = h /\ h # None /\ \A g \in Handler : job[g].pc = "insert" => g = h
  BY NoneIsNoId DEF IInv, LockIsHeld
<1>2. Shapes'
  <2>1. IsFiniteSet(ledger')
    BY FS_AddElement DEF IInv, Shapes
  <2>2. QED
    BY <2>1 DEF IInv, Shapes, Becomes, EntryType, GoodRow
<1>3. GoodJobs'
  <2> SUFFICES ASSUME NEW g \in Handler PROVE GoodJob(job[g])'
    BY DEF GoodJobs
  <2>1. CASE g = h
    <3>1. job'[g] = j
      BY <2>1 DEF Becomes
    <3>2. QED
      BY <3>1 DEF GoodJob, GoodNew, GoodRefund, Creates, Returns, Touched, GoodRow, Entry
  <2>2. CASE g # h
    <3>1. job'[g] = job[g] /\ GoodJob(job[g])
      BY <2>2 DEF IInv, GoodJobs, Becomes
    <3>2. ASSUME Creates(job[g]) PROVE GoodNew(job[g])'
      <4>1. GoodNew(job[g]) /\ e.order # job[g].order
        BY <2>2, <3>1, <3>2 DEF GoodJob
      <4>2. Touched(job[g].order)' <=> Touched(job[g].order)
        BY <3>1, <4>1 DEF Touched
      <4>3. \A x \in ledger' : x.order = job[g].order => x \in ledger
        BY <4>1
      <4>4. job[g].order \in Order /\ orders'[job'[g].order] = NoOrder
        BY <3>1, <4>1 DEF GoodNew
      <4>5. job[g].pc = "save" =>
              /\ job[g].row.method = "wallet"
                   => Entry(job[g].order, "spend", job[g].row.total) \in ledger'
              /\ \A x \in ledger' : x.order = job[g].order =>
                   job[g].row.method = "wallet" /\ x = Entry(job[g].order, "spend", job[g].row.total)
        BY <4>1, <4>3 DEF GoodNew
      <4>6. QED
        BY <3>1, <4>1, <4>2, <4>4, <4>5 DEF GoodNew, GoodRow, Entry
    <3>3. QED
      BY <3>1, <3>2 DEF GoodJob, GoodRefund, Creates, Returns, Entry
  <2>3. QED
    BY <2>1, <2>2
<1>4. OneCreator'
  BY DEF IInv, OneCreator, Creates, Becomes
<1>5. LockIsHeld'
  BY <1>1 DEF LockIsHeld, Becomes
<1>6. Covered'
  <2>1. Balance' >= 0
    <3>1. CASE e \in ledger
      <4>1. ledger' = ledger
        BY <3>1
      <4>2. QED
        BY <4>1 DEF IInv, Covered, Balance
    <3>2. CASE e \notin ledger
      <4>1. Balance' = Balance + Signed(e) /\ Balance \in Int /\ Balance >= 0
        BY <3>2, BalanceMoves, BalanceIsInt DEF IInv, Covered
      <4>2. QED
        BY <3>2, <4>1 DEF Signed, EntryType
    <3>3. QED
      BY <3>1, <3>2
  <2>2. QED
    BY <1>1, <2>1 DEF Covered, Becomes
<1>7. EntriesMatch'
  BY NoneIsNoId DEF IInv, EntriesMatch, Entry
<1>8. RowsMatch' /\ OneOrderPerKey'
  BY DEF IInv, RowsMatch, OneOrderPerKey, SavedOrders, Entry
<1>9. QED
  BY <1>2, <1>3, <1>4, <1>5, <1>6, <1>7, <1>8 DEF IInv

(* A debit, a refund or a cashback is entered, each for its own reason.    *)
LEMMA InsertEntryKeeps ==
  ASSUME IInv, NEW h \in Handler, InsertEntry(h)
  PROVE  IInv'
<1>1. job[h].pc = "insert" /\ lock' = None /\ UNCHANGED orders /\ GoodJob(job[h])
  BY DEF InsertEntry, IInv, GoodJobs
<1>2. PICK entry : entry = job[h].entry
  OBVIOUS
<1>3. ledger' = IF \E e \in ledger : e.order = entry.order /\ e.type = entry.type
                THEN ledger ELSE ledger \cup {entry}
  BY <1>2 DEF InsertEntry
<1>4. PICK j : j = AfterInsert(job[h])
  OBVIOUS
<1>5. Becomes(h, j)
  BY <1>4, JobWritten DEF InsertEntry, IInv, Shapes
<1>6. "pc" \in DOMAIN job[h]
  BY DEF IInv, Shapes
<1>7. CASE entry.type = "spend"
  <2>1. Creates(job[h]) /\ GoodNew(job[h])
    BY <1>1, <1>2, <1>7 DEF GoodJob, Creates
  <2>2. entry = Entry(job[h].order, "spend", job[h].row.total) /\ ~Touched(job[h].order)
        /\ GoodRow(job[h].row) /\ job[h].order \in Order /\ job[h].row.method = "wallet"
        /\ orders[job[h].order] = NoOrder
    BY <1>1, <1>2, <2>1 DEF GoodNew
  <2>3. entry \in EntryType /\ entry.order = job[h].order
        /\ entry.amount = job[h].row.total /\ entry.type = "spend"
    BY <2>2 DEF EntryType, Entry, GoodRow
  <2>4. entry \notin ledger /\ ledger' = ledger \cup {entry}
    BY <1>3, <2>2, <2>3 DEF Touched
  <2>5. Balance >= entry.amount
    BY <1>1, <1>2, <1>7 DEF IInv, Covered
  <2>6. j = [job[h] EXCEPT !.pc = "save"]
    BY <1>2, <1>4, <1>7 DEF AfterInsert
  <2>7. {"pc", "order", "row", "gave", "entry"} \subseteq DOMAIN job[h]
    BY <1>1, <1>6, <2>1 DEF GoodNew
  <2>8. /\ j.pc = "save" /\ j.order = job[h].order /\ j.row = job[h].row
        /\ {"pc", "order", "row", "gave"} \subseteq DOMAIN j
    BY <2>6, <2>7
  <2>9. GoodNew(j)'
    <3>1. \A e \in ledger' : e.order = j.order => e = entry
      BY <2>2, <2>4, <2>8 DEF Touched
    <3>2. entry \in ledger'
      BY <2>4
    <3>3. QED
      BY <1>1, <2>1, <2>2, <2>8, <3>1, <3>2 DEF GoodNew, GoodRow, Entry
  <2>10. GoodJob(j)'
    BY <2>8, <2>9 DEF GoodJob, Creates, Returns
  <2>11. \A g \in Handler : g # h /\ Creates(job[g]) => job[g].order # entry.order
    BY <2>1, <2>3 DEF IInv, OneCreator
  <2>12. QED
    BY <1>1, <1>5, <2>1, <2>2, <2>3, <2>4, <2>5, <2>8, <2>10, <2>11, LedgerGrows
<1>8. CASE entry.type = "refund"
  <2>1. GoodRefund(job[h]) /\ entry = Entry(job[h].order, "refund", orders[job[h].order].total)
    BY <1>1, <1>2, <1>8 DEF GoodJob, Returns
  <2>2. PICK o \in Order : o = job[h].order
    BY <2>1 DEF GoodRefund
  <2>3. o \in SavedOrders /\ orders[o].status = "cancelled" /\ orders[o].method = "wallet"
        /\ GoodRow(orders[o])
    BY <2>1, <2>2 DEF GoodRefund, SavedOrders, IInv, Shapes
  <2>4. /\ entry \in EntryType /\ entry.order = o /\ entry.amount = orders[o].total
        /\ entry = Entry(o, "refund", orders[o].total)
    BY <2>1, <2>2, <2>3 DEF EntryType, Entry, GoodRow
  <2>5. Entry(o, "spend", orders[o].total) \in ledger
    BY <2>3 DEF IInv, RowsMatch
  <2>6. ledger' = ledger \cup {entry}
    <3>1. ASSUME NEW e \in ledger, e.order = entry.order, e.type = entry.type PROVE e = entry
      <4>1. e \in EntryType /\ e.order = o /\ e.type = "refund" /\ o # None
        BY <2>4, <3>1, <1>8, NoneIsNoId DEF IInv, Shapes
      <4>2. e.amount = orders[o].total
        BY <4>1 DEF IInv, EntriesMatch
      <4>3. QED
        BY <2>4, <4>1, <4>2 DEF EntryType, Entry
    <3>2. QED
      BY <1>3, <3>1
  <2>7. j = [job[h] EXCEPT !.pc = "refunded"]
    BY <1>2, <1>4, <1>8 DEF AfterInsert
  <2>8. {"pc", "order"} \subseteq DOMAIN job[h]
    BY <1>6, <2>1 DEF GoodRefund
  <2>9. j.pc = "refunded" /\ j.order = o /\ {"pc", "order"} \subseteq DOMAIN j
    BY <2>2, <2>7, <2>8
  <2>10. GoodRefund(j)' /\ entry \in ledger'
    BY <1>1, <2>1, <2>2, <2>3, <2>6, <2>9 DEF GoodRefund, SavedOrders, NoOrder
  <2>11. GoodJob(j)' /\ ~Creates(j)
    BY <1>1, <2>4, <2>9, <2>10 DEF GoodJob, Creates, Returns, Entry
  <2>12. \A g \in Handler : Creates(job[g]) => job[g].order # entry.order
    BY <2>3, <2>4 DEF IInv, GoodJobs, GoodJob, GoodNew, SavedOrders
  <2>13. QED
    BY <1>1, <1>5, <1>8, <2>3, <2>4, <2>5, <2>6, <2>9, <2>11, <2>12, LedgerGrows
<1>9. CASE entry.type = "cashback"
  <2>1. /\ job[h].order \in Order /\ orders[job[h].order].status = "done"
        /\ entry = Entry(job[h].order, "cashback", entry.amount) /\ entry.amount \in Nat
    BY <1>1, <1>2, <1>9 DEF GoodJob, Returns
  <2>2. entry \in EntryType /\ entry.order = job[h].order
    BY <2>1 DEF EntryType, Entry
  <2>3. PICK e \in EntryType : /\ ledger' = ledger \cup {e}
                               /\ e.order = entry.order /\ e.type = "cashback"
    BY <1>3, <1>9, <2>2 DEF IInv, Shapes
  <2>4. j = Idle
    BY <1>2, <1>4, <1>9 DEF AfterInsert
  <2>5. GoodJob(j)' /\ ~Creates(j) /\ j.pc # "insert" /\ "pc" \in DOMAIN j
    BY <2>4 DEF GoodJob, Idle, Creates, Returns
  <2>6. \A g \in Handler : Creates(job[g]) => job[g].order # e.order
    BY <2>1, <2>2, <2>3 DEF IInv, GoodJobs, GoodJob, GoodNew, NoOrder
  <2>7. QED
    BY <1>1, <1>5, <2>1, <2>2, <2>3, <2>5, <2>6, LedgerGrows
<1>10. QED
  BY <1>1, <1>2, <1>7, <1>8, <1>9 DEF GoodJob

-----------------------------------------------------------------------------
(* The rows *)

(* The order is written under its id; nobody else was making it.           *)
LEMMA SaveOrderKeeps ==
  ASSUME IInv, NEW h \in Handler, SaveOrder(h)
  PROVE  IInv'
<1>1. job[h].pc = "save" /\ UNCHANGED <<ledger, lock>> /\ GoodJob(job[h]) /\ Creates(job[h])
  BY DEF SaveOrder, IInv, GoodJobs, Creates
<1>2. PICK o, row : o = job[h].order /\ row = job[h].row
  OBVIOUS
<1>3. /\ o \in Order /\ orders[o] = NoOrder /\ GoodRow(row) /\ row.status = "open"
      /\ row.pay = IF row.method = "wallet" THEN "paid" ELSE "none"
      /\ row.method = "wallet" => Entry(o, "spend", row.total) \in ledger
      /\ \A e \in ledger : e.order = o => row.method = "wallet" /\ e = Entry(o, "spend", row.total)
  BY <1>1, <1>2 DEF GoodJob, GoodNew
<1>4. CASE job' = [job EXCEPT ![h] = Idle] /\ UNCHANGED orders
  <2>1. Becomes(h, Idle)
    BY <1>4, JobWritten DEF IInv
  <2>2. QED
    BY <1>1, <1>4, <2>1, IdleIsGood, JobGoesOn
<1>5. CASE /\ WithKey(row.key) = {} /\ orders' = [orders EXCEPT ![o] = row]
           /\ job' = [job EXCEPT ![h] = IF @.gave = <<>> THEN Idle
                                        ELSE [pc |-> "count", order |-> @.order, gave |-> @.gave]]
  <2>1. PICK j : j = IF job[h].gave = <<>> THEN Idle
                     ELSE [pc |-> "count", order |-> job[h].order, gave |-> job[h].gave]
    OBVIOUS
  <2>2. job' = [job EXCEPT ![h] = j]
    BY <1>5, <2>1 DEF IInv, Shapes
  <2>3. Becomes(h, j)
    BY <2>2, JobWritten DEF IInv
  <2>4. "pc" \in DOMAIN j /\ j.pc \in {"idle", "count"} /\ ~Creates(j) /\ GoodJob(j)'
    BY <2>1 DEF Idle, Creates, GoodJob, Returns
  <2>5. /\ DOMAIN orders' = Order /\ orders'[o] = row
        /\ \A p \in Order : p # o => orders'[p] = orders[p]
    BY <1>3, <1>5 DEF IInv, Shapes
  <2>6. Shapes'
    BY <1>1, <1>3, <2>3, <2>4, <2>5 DEF IInv, Shapes, Becomes, EntryType, GoodRow
  <2>7. GoodJobs'
    <3> SUFFICES ASSUME NEW g \in Handler PROVE GoodJob(job[g])'
      BY DEF GoodJobs
    <3>1. CASE g = h
      <4>1. job'[g] = j
        BY <2>3, <3>1 DEF Becomes
      <4>2. QED
        BY <2>4, <4>1 DEF GoodJob, GoodNew, GoodRefund, Creates, Returns, Touched, GoodRow, Entry
    <3>2. CASE g # h
      <4>1. job'[g] = job[g] /\ GoodJob(job[g])
        BY <2>3, <3>2 DEF IInv, GoodJobs, Becomes
      <4>2. ASSUME Creates(job[g]) PROVE GoodNew(job[g])'
        <5>1. GoodNew(job[g]) /\ job[g].order # o
          BY <1>1, <1>2, <3>2, <4>1, <4>2 DEF IInv, OneCreator, GoodJob
        <5>2. job[g].order \in Order /\ orders'[job[g].order] = NoOrder
          BY <2>5, <5>1 DEF GoodNew
        <5>3. QED
          BY <1>1, <4>1, <5>1, <5>2 DEF GoodNew, GoodRow, Entry, Touched
      <4>3. GoodRefund(job[g]) => GoodRefund(job[g])' /\ orders'[job[g].order] = orders[job[g].order]
        BY <1>3, <2>5, <4>1 DEF GoodRefund
      <4>4. job[g].order \in Order /\ orders[job[g].order].status = "done" =>
              orders'[job[g].order].status = "done"
        BY <1>3, <2>5 DEF NoOrder
      <4>5. QED
        BY <1>1, <4>1, <4>2, <4>3, <4>4 DEF GoodJob, Creates, Returns, Entry
    <3>3. QED
      BY <3>1, <3>2
  <2>8. OneCreator'
    BY <2>3, <2>4 DEF IInv, OneCreator, Creates, Becomes
  <2>9. LockIsHeld'
    BY <1>1, <2>3, <2>4 DEF IInv, LockIsHeld, Becomes
  <2>10. Covered'
    <3>1. Balance' = Balance
      BY <1>1 DEF Balance
    <3>2. QED
      BY <2>3, <2>4, <3>1 DEF IInv, Covered, Becomes
  <2>11. EntriesMatch'
    <3> SUFFICES ASSUME NEW e \in ledger, e.order # None
                 PROVE  /\ e.type = "refund" => /\ orders'[e.order].status = "cancelled"
                                                /\ e.amount = orders'[e.order].total
                                                /\ Entry(e.order, "spend", e.amount) \in ledger
                        /\ e.type = "cashback" => orders'[e.order].status = "done"
                        /\ e.type = "spend" /\ orders'[e.order] # NoOrder
                             => e.amount = orders'[e.order].total
      BY <1>1 DEF IInv, EntriesMatch, Entry
    <3>1. e.order \in Order
      BY DEF IInv, Shapes, EntryType
    <3>2. CASE e.order = o
      BY <1>3, <2>5, <3>2 DEF Entry
    <3>3. CASE e.order # o
      <4>1. orders'[e.order] = orders[e.order]
        BY <2>5, <3>1, <3>3
      <4>2. QED
        BY <4>1 DEF IInv, EntriesMatch
    <3>4. QED
      BY <3>2, <3>3
  <2>12. RowsMatch'
    BY <1>1, <1>3, <2>5 DEF IInv, RowsMatch, SavedOrders, Entry
  <2>13. OneOrderPerKey'
    BY <1>5, <2>5 DEF IInv, OneOrderPerKey, SavedOrders, WithKey
  <2>14. QED
    BY <2>6, <2>7, <2>8, <2>9, <2>10, <2>11, <2>12, <2>13 DEF IInv
<1>6. QED
  BY <1>2, <1>4, <1>5 DEF SaveOrder

(* A row that is there moves on: what it was sold for stays, its status    *)
(* changes only from open, its payment only to refunded and with the entry.*)
LEMMA RowMoves ==
  ASSUME IInv, NEW h \in Handler, NEW j, NEW o \in SavedOrders, NEW r, GoodRow(r),
         UNCHANGED <<ledger, lock>>, Becomes(h, j), "pc" \in DOMAIN j,
         GoodJob(j)', ~Creates(j), j.pc # "insert", job[h].pc # "insert",
         orders' = [orders EXCEPT ![o] = r],
         r.key = orders[o].key, r.total = orders[o].total, r.method = orders[o].method,
         orders[o].status \in {"open", r.status},
         r.pay = "refunded" => Entry(o, "refund", r.total) \in ledger
  PROVE  IInv'
<1>1. /\ o \in Order /\ orders[o] # NoOrder /\ DOMAIN orders' = Order /\ orders'[o] = r
      /\ r # NoOrder /\ \A p \in Order : p # o => orders'[p] = orders[p]
  BY DEF SavedOrders, IInv, Shapes, GoodRow, NoOrder
<1>2. /\ \A p \in Order : orders[p] = NoOrder => orders'[p] = NoOrder
      /\ \A p \in Order : orders'[p] = NoOrder => orders[p] = NoOrder
      /\ \A p \in Order : \/ orders[p] = NoOrder
                          \/ /\ orders'[p].total = orders[p].total
                             /\ orders'[p].method = orders[p].method
                             /\ orders'[p].key = orders[p].key
  BY <1>1
<1>2a. \A p \in Order : orders[p].status \in {"cancelled", "done"}
                         => orders'[p].status = orders[p].status
  BY <1>1
<1>3. Shapes'
  BY <1>1 DEF IInv, Shapes, Becomes, EntryType, GoodRow
<1>4. GoodJobs'
  <2> SUFFICES ASSUME NEW g \in Handler PROVE GoodJob(job[g])'
    BY DEF GoodJobs
  <2>1. CASE g = h
    <3>1. job'[g] = j
      BY <2>1 DEF Becomes
    <3>2. QED
      BY <3>1 DEF GoodJob, GoodNew, GoodRefund, Creates, Returns, Touched, GoodRow, Entry
  <2>2. CASE g # h
    <3>1. job'[g] = job[g] /\ GoodJob(job[g])
      BY <2>2 DEF IInv, GoodJobs, Becomes
    <3>2. ASSUME Creates(job[g]) PROVE GoodNew(job[g])'
      <4>1. GoodNew(job[g])
        BY <3>1, <3>2 DEF GoodJob
      <4>1a. job[g].order \in Order /\ orders[job[g].order] = NoOrder
        BY <4>1 DEF GoodNew
      <4>2. job[g].order \in Order /\ orders'[job[g].order] = NoOrder
        BY <1>2, <4>1a
      <4>3. QED
        BY <3>1, <4>1, <4>2 DEF GoodNew, GoodRow, Entry, Touched
    <3>3. GoodRefund(job[g]) => GoodRefund(job[g])'
                                /\ orders'[job[g].order].total = orders[job[g].order].total
      BY <1>2, <1>2a, <3>1 DEF GoodRefund
    <3>4. QED
      BY <1>2a, <3>1, <3>2, <3>3 DEF GoodJob, Creates, Returns, Entry
  <2>3. QED
    BY <2>1, <2>2
<1>5. OneCreator'
  BY DEF IInv, OneCreator, Creates, Becomes
<1>6. LockIsHeld'
  BY DEF IInv, LockIsHeld, Becomes
<1>7. Covered'
  <2>1. Balance' = Balance
    BY DEF Balance
  <2>2. QED
    BY <2>1 DEF IInv, Covered, Becomes
<1>8. EntriesMatch'
  <2> SUFFICES ASSUME NEW e \in ledger, e.order # None
               PROVE  /\ e.type = "refund" => /\ orders'[e.order].status = "cancelled"
                                              /\ e.amount = orders'[e.order].total
                                              /\ Entry(e.order, "spend", e.amount) \in ledger
                      /\ e.type = "cashback" => orders'[e.order].status = "done"
                      /\ e.type = "spend" /\ orders'[e.order] # NoOrder
                           => e.amount = orders'[e.order].total
    BY DEF IInv, EntriesMatch, Entry
  <2>1. e.order \in Order
    BY DEF IInv, Shapes, EntryType
  <2>2. e.type = "refund" => orders[e.order] # NoOrder
    BY DEF IInv, EntriesMatch, NoOrder
  <2>3. QED
    BY <1>2, <1>2a, <2>1, <2>2 DEF IInv, EntriesMatch
<1>9. RowsMatch'
  BY <1>1 DEF IInv, RowsMatch, SavedOrders, Entry
<1>10. OneOrderPerKey'
  BY <1>1 DEF IInv, OneOrderPerKey, SavedOrders
<1>11. QED
  BY <1>3, <1>4, <1>5, <1>6, <1>7, <1>8, <1>9, <1>10 DEF IInv

(* Idle goroutines start what follows the end of an order: a refund ...    *)
LEMMA CancelOrderKeeps ==
  ASSUME IInv, NEW h \in Handler, NEW o \in Order, CancelOrder(h, o)
  PROVE  IInv'
<1>1. /\ job[h].pc = "idle" /\ orders[o].status = "open" /\ UNCHANGED <<ledger, lock>>
      /\ "pc" \in DOMAIN job[h]
  BY DEF CancelOrder, IInv, Shapes
<1>2. o \in SavedOrders /\ GoodRow(orders[o])
  BY <1>1 DEF SavedOrders, NoOrder, IInv, Shapes
<1>3. PICK r : r = [orders[o] EXCEPT !.status = "cancelled"]
  OBVIOUS
<1>4. /\ GoodRow(r) /\ r.status = "cancelled" /\ r.pay = orders[o].pay /\ r.key = orders[o].key
      /\ r.total = orders[o].total /\ r.method = orders[o].method
  BY <1>2, <1>3 DEF GoodRow
<1>5. orders' = [orders EXCEPT ![o] = r]
  BY <1>3 DEF CancelOrder, IInv, Shapes
<1>6. r.pay = "refunded" => Entry(o, "refund", r.total) \in ledger
  BY <1>2, <1>4 DEF IInv, RowsMatch
<1>7. CASE orders[o].pay # "paid"
  <2>1. PICK j : j = job[h]
    OBVIOUS
  <2>2. Becomes(h, j)
    BY <1>7, <2>1 DEF CancelOrder, Becomes, IInv, Shapes
  <2>3. GoodJob(j)' /\ ~Creates(j) /\ j.pc # "insert" /\ "pc" \in DOMAIN j
    BY <1>1, <2>1 DEF GoodJob, Creates, Returns
  <2>4. QED
    BY <1>1, <1>2, <1>4, <1>5, <1>6, <2>2, <2>3, RowMoves
<1>8. CASE orders[o].pay = "paid"
  <2>1. PICK j : j = [pc |-> "lock", order |-> o, entry |-> Entry(o, "refund", orders[o].total)]
    OBVIOUS
  <2>2. Becomes(h, j)
    BY <1>8, <2>1, JobWritten DEF CancelOrder, IInv
  <2>3. orders'[o] = r /\ r # NoOrder /\ r.method = "wallet"
    BY <1>2, <1>4, <1>5, <1>8 DEF IInv, Shapes, NoOrder, GoodRow
  <2>4. GoodRefund(j)' /\ j.entry = Entry(j.order, "refund", r.total) /\ orders'[j.order] = r
    BY <1>4, <2>1, <2>3 DEF GoodRefund, NoOrder
  <2>5. j.pc = "lock" /\ "pc" \in DOMAIN j /\ "entry" \in DOMAIN j /\ j.entry.type = "refund"
    BY <2>1 DEF Entry
  <2>6. GoodJob(j)' /\ ~Creates(j)
    BY <2>4, <2>5 DEF GoodJob, Creates, Returns, Entry
  <2>7. QED
    BY <1>1, <1>2, <1>4, <1>5, <1>6, <2>2, <2>5, <2>6, RowMoves
<1>9. QED
  BY <1>7, <1>8

(* ... or a cashback.                                                      *)
LEMMA FinishOrderKeeps ==
  ASSUME IInv, NEW h \in Handler, NEW o \in Order, FinishOrder(h, o)
  PROVE  IInv'
<1>1. /\ job[h].pc = "idle" /\ orders[o].status = "open" /\ UNCHANGED <<ledger, lock>>
      /\ "pc" \in DOMAIN job[h]
  BY DEF FinishOrder, IInv, Shapes
<1>2. o \in SavedOrders /\ GoodRow(orders[o])
  BY <1>1 DEF SavedOrders, NoOrder, IInv, Shapes
<1>3. PICK r : r = [orders[o] EXCEPT !.status = "done"]
  OBVIOUS
<1>4. /\ GoodRow(r) /\ r.status = "done" /\ r.pay = orders[o].pay /\ r.key = orders[o].key
      /\ r.total = orders[o].total /\ r.method = orders[o].method
  BY <1>2, <1>3 DEF GoodRow
<1>5. orders' = [orders EXCEPT ![o] = r]
  BY <1>3 DEF FinishOrder, IInv, Shapes
<1>6. r.pay = "refunded" => Entry(o, "refund", r.total) \in ledger
  BY <1>2, <1>4 DEF IInv, RowsMatch
<1>7. PICK amount : amount = Cashback(orders[o].total)
  OBVIOUS
<1>8. amount \in Nat
  <2>1. CashbackPercent \in Nat /\ orders[o].total \in Nat
    BY <1>2, ThresholdsAreNat DEF GoodRow
  <2>2. orders[o].total * CashbackPercent \in Nat
    BY <2>1
  <2>3. (orders[o].total * CashbackPercent) \div 100 \in Nat
    BY <2>2
  <2>4. QED
    BY <1>7, <2>3 DEF Cashback
<1>9. CASE amount = 0
  <2>1. PICK j : j = job[h]
    OBVIOUS
  <2>2. Becomes(h, j)
    BY <1>7, <1>9, <2>1 DEF FinishOrder, Becomes, IInv, Shapes
  <2>3. GoodJob(j)' /\ ~Creates(j) /\ j.pc # "insert" /\ "pc" \in DOMAIN j
    BY <1>1, <2>1 DEF GoodJob, Creates, Returns
  <2>4. QED
    BY <1>1, <1>2, <1>4, <1>5, <1>6, <2>2, <2>3, RowMoves
<1>10. CASE amount # 0
  <2>1. PICK j : j = [pc |-> "lock", order |-> o, entry |-> Entry(o, "cashback", amount)]
    OBVIOUS
  <2>2. Becomes(h, j)
    BY <1>7, <1>10, <2>1, JobWritten DEF FinishOrder, IInv
  <2>3. orders'[o].status = "done"
    BY <1>2, <1>4, <1>5 DEF IInv, Shapes, SavedOrders
  <2>4. /\ j.pc = "lock" /\ {"pc", "order", "entry"} \subseteq DOMAIN j /\ j.order = o
        /\ j.entry = Entry(o, "cashback", amount) /\ j.entry.type = "cashback"
        /\ j.entry.amount = amount
    BY <2>1 DEF Entry
  <2>5. GoodJob(j)' /\ ~Creates(j)
    BY <1>8, <2>3, <2>4 DEF GoodJob, Creates, Returns, Entry
  <2>6. QED
    BY <1>1, <1>2, <1>4, <1>5, <1>6, <2>2, <2>4, <2>5, RowMoves
<1>11. QED
  BY <1>9, <1>10

(* The refund is in the ledger, the row says so.                           *)
LEMMA PersistRefundedKeeps ==
  ASSUME IInv, NEW h \in Handler, PersistRefunded(h)
  PROVE  IInv'
<1>1. job[h].pc = "refunded" /\ UNCHANGED <<ledger, lock>> /\ GoodJob(job[h])
  BY DEF PersistRefunded, IInv, GoodJobs
<1>2. PICK o : o = job[h].order
  OBVIOUS
<1>3. /\ o \in SavedOrders /\ GoodRow(orders[o]) /\ orders[o].method = "wallet"
      /\ Entry(o, "refund", orders[o].total) \in ledger
  BY <1>1, <1>2 DEF GoodJob, GoodRefund, SavedOrders, IInv, Shapes
<1>4. PICK r : r = [orders[o] EXCEPT !.pay = "refunded"]
  OBVIOUS
<1>5. /\ GoodRow(r) /\ r.status = orders[o].status /\ r.key = orders[o].key
      /\ r.total = orders[o].total /\ r.method = orders[o].method
  BY <1>3, <1>4 DEF GoodRow
<1>6. orders' = [orders EXCEPT ![o] = r]
  BY <1>2, <1>4 DEF PersistRefunded, IInv, Shapes
<1>7. PICK j : j = Idle
  OBVIOUS
<1>8. Becomes(h, j)
  BY <1>7, JobWritten DEF PersistRefunded, IInv
<1>9. GoodJob(j)' /\ ~Creates(j) /\ j.pc # "insert" /\ "pc" \in DOMAIN j
  BY <1>7 DEF GoodJob, Creates, Returns, Idle
<1>10. QED
  BY <1>1, <1>3, <1>5, <1>6, <1>8, <1>9, RowMoves

-----------------------------------------------------------------------------
(* The other steps *)

(* The counters of the promotions are none of the wallet's business.       *)
LEMMA CountUseKeeps ==
  ASSUME IInv, NEW h \in Handler, CountUse(h)
  PROVE  IInv'
<1>1. job[h].pc = "count" /\ UNCHANGED <<ledger, lock, orders>> /\ GoodJob(job[h])
      /\ "pc" \in DOMAIN job[h]
  BY DEF CountUse, IInv, GoodJobs, Shapes
<1>2. PICK j : j = IF Tail(job[h].gave) = <<>> THEN Idle
                   ELSE [job[h] EXCEPT !.gave = Tail(job[h].gave)]
  OBVIOUS
<1>3. job' = [job EXCEPT ![h] = j]
  BY <1>2 DEF CountUse, IInv, Shapes
<1>4. Becomes(h, j)
  BY <1>3, JobWritten DEF IInv
<1>5. {"order", "gave"} \subseteq DOMAIN job[h]
  BY <1>1 DEF GoodJob
<1>6. CASE j = Idle
  BY <1>1, <1>4, <1>6, IdleIsGood, JobGoesOn
<1>7. CASE j # Idle
  <2>1. j.pc = "count" /\ {"pc", "order", "gave"} \subseteq DOMAIN j
    BY <1>1, <1>2, <1>5, <1>7
  <2>2. GoodJob(j) /\ ~Creates(j)
    BY <2>1 DEF GoodJob, Creates, Returns
  <2>3. QED
    BY <1>1, <1>4, <2>1, <2>2, JobGoesOn
<1>8. QED
  BY <1>6, <1>7

(* A goroutine that dies gives the lock back; what it wrote stays.         *)
LEMMA AbandonKeeps ==
  ASSUME IInv, NEW h \in Handler, Abandon(h)
  PROVE  IInv'
<1>1. UNCHANGED <<ledger, orders>> /\ lock' = IF lock = h THEN None ELSE lock
  BY DEF Abandon
<1>2. Becomes(h, Idle)
  BY JobWritten DEF Abandon, IInv
<1>3. Shapes'
  BY <1>1, <1>2, IdleIsGood DEF IInv, Shapes, Becomes, EntryType, GoodRow
<1>4. GoodJobs'
  <2> SUFFICES ASSUME NEW g \in Handler PROVE GoodJob(job[g])'
    BY DEF GoodJobs
  <2>1. GoodJob(job'[g])
    BY <1>2, IdleIsGood DEF IInv, GoodJobs, Becomes
  <2>2. QED
    BY <1>1, <2>1 DEF GoodJob, GoodNew, GoodRefund, Creates, Returns, Touched, GoodRow, Entry
<1>5. OneCreator'
  BY <1>2, IdleIsGood DEF IInv, OneCreator, Creates, Becomes
<1>6. LockIsHeld'
  BY <1>1, <1>2, IdleIsGood DEF IInv, LockIsHeld, Becomes
<1>7. Covered'
  <2>1. Balance' = Balance
    BY <1>1 DEF Balance
  <2>2. QED
    BY <1>2, <2>1, IdleIsGood DEF IInv, Covered, Becomes
<1>8. EntriesMatch' /\ RowsMatch' /\ OneOrderPerKey'
  BY <1>1 DEF IInv, EntriesMatch, RowsMatch, OneOrderPerKey, SavedOrders, Entry
<1>9. QED
  BY <1>3, <1>4, <1>5, <1>6, <1>7, <1>8 DEF IInv

(* The panel, the hours and the clock write neither money nor orders.      *)
LEMMA UnchangedKeeps ==
  ASSUME IInv, UNCHANGED <<ledger, lock, orders, job>>
  PROVE  IInv'
<1>1. Shapes' /\ OneCreator' /\ LockIsHeld'
  BY DEF IInv, Shapes, EntryType, GoodRow, OneCreator, LockIsHeld, Creates
<1>2. GoodJobs'
  <2> SUFFICES ASSUME NEW g \in Handler PROVE GoodJob(job[g])'
    BY DEF GoodJobs
  <2>1. GoodJob(job[g])
    BY DEF IInv, GoodJobs
  <2>2. QED
    BY <2>1 DEF GoodJob, GoodNew, GoodRefund, Creates, Returns, Touched, GoodRow, Entry
<1>3. Covered'
  BY DEF IInv, Covered, Balance
<1>4. EntriesMatch' /\ RowsMatch' /\ OneOrderPerKey'
  BY DEF IInv, EntriesMatch, RowsMatch, OneOrderPerKey, SavedOrders, Entry
<1>5. QED
  BY <1>1, <1>2, <1>3, <1>4 DEF IInv

-----------------------------------------------------------------------------
(* The theorems *)

(* A wallet starts with what was earned and no orders.                     *)
LEMMA InitHolds ==
  ASSUME Init
  PROVE  IInv
<1>1. PICK amount \in Earned : ledger = {Entry(None, "cashback", amount)}
  BY DEF Init
<1>2. PICK e : e = Entry(None, "cashback", amount)
  OBVIOUS
<1>3. /\ amount \in Nat /\ e \in EntryType /\ ledger = {e} /\ Signed(e) = amount
      /\ e.order = None /\ e.type = "cashback"
  BY <1>1, <1>2, ThresholdsAreNat DEF EntryType, Entry, Signed
<1>4. /\ lock = None /\ orders = [o \in Order |-> NoOrder] /\ job = [h \in Handler |-> Idle]
  BY DEF Init
<1>5. \A h \in Handler : job[h] = Idle /\ job[h].pc = "idle"
  BY <1>4 DEF Idle
<1>6. Shapes
  BY <1>3, <1>4, <1>5, FS_Singleton, IdleIsGood DEF Shapes
<1>7. GoodJobs /\ OneCreator /\ LockIsHeld
  BY <1>4, <1>5, IdleIsGood DEF GoodJobs, OneCreator, LockIsHeld
<1>8. Covered
  <2>1. DOMAIN Amounts(ledger) = ledger /\ Amounts(ledger)[e] = amount
    BY <1>3 DEF Amounts
  <2>2. Balance = SumFunctionOnSet(Amounts(ledger), {e})
    BY <1>3, <2>1 DEF Balance, SumFunction, Amounts
  <2>3. SumFunctionOnSet(Amounts(ledger), {} \cup {e}) = 0 + amount
    BY <1>3, <2>1, FS_EmptySet, SumOfNone, SumOfOneMore
  <2>4. {} \cup {e} = {e}
    OBVIOUS
  <2>5. Balance >= 0
    BY <1>3, <2>2, <2>3, <2>4
  <2>6. QED
    BY <1>5, <2>5 DEF Covered
<1>9. EntriesMatch /\ RowsMatch /\ OneOrderPerKey
  BY <1>3, <1>4 DEF EntriesMatch, RowsMatch, OneOrderPerKey, SavedOrders
<1>10. QED
  BY <1>6, <1>7, <1>8, <1>9 DEF IInv

(* Every step of the system keeps the invariant.                           *)
LEMMA NextKeeps ==
  ASSUME IInv, [Next]_vars
  PROVE  IInv'
<1>1. ASSUME CheckoutNext PROVE IInv'
  <2>1. PICK h \in Handler :
          \/ BeginOrder(h) \/ CreateExpecting(h) \/ CheckBalance(h) \/ TakeLock(h)
          \/ InsertEntry(h) \/ SaveOrder(h) \/ CountUse(h) \/ PersistRefunded(h) \/ Abandon(h)
          \/ \E o \in Order : CancelOrder(h, o) \/ FinishOrder(h, o)
    BY <1>1 DEF CheckoutNext
  <2>2. ASSUME NEW o \in Order, CancelOrder(h, o) \/ FinishOrder(h, o) PROVE IInv'
    BY <2>2, CancelOrderKeeps, FinishOrderKeeps
  <2>3. QED
    BY <2>1, <2>2, BeginOrderKeeps, CreateExpectingKeeps, CheckBalanceKeeps, TakeLockKeeps,
       InsertEntryKeeps, SaveOrderKeeps, CountUseKeeps, PersistRefundedKeeps, AbandonKeeps
<1>2. ASSUME PanelNext /\ UNCHANGED <<switch, hours, clock, shown, ledger, lock, orders, job>>
      PROVE  IInv'
  BY <1>2, UnchangedKeeps
<1>3. ASSUME HoursNext /\ UNCHANGED <<promos, panel, day, ledger, lock, orders, job>>
      PROVE  IInv'
  BY <1>3, UnchangedKeeps
<1>4. ASSUME UNCHANGED vars PROVE IInv'
  BY <1>4, UnchangedKeeps DEF vars
<1>5. QED
  BY <1>1, <1>2, <1>3, <1>4 DEF Next

(* The invariant holds of every behaviour of the checkout.                 *)
THEOREM Invariance == Spec => []IInv
<1>1. Init => IInv
  BY InitHolds
<1>2. IInv /\ [Next]_vars => IInv'
  BY NextKeeps
<1>3. QED
  BY <1>1, <1>2, PTL DEF Spec

(* The wallet and the orders agree, for any carts, promotions, prices,     *)
(* customers' keys and handlers (CreateExpecting, applyLocked,             *)
(* settleWalletPayment, creditCashback, migrations/0057_wallet.sql).       *)
THEOREM MoneyMatchesOrdersHolds == Spec => []MoneyMatchesOrders
<1>1. IInv => MoneyMatchesOrders
  <2> SUFFICES ASSUME IInv PROVE MoneyMatchesOrders
    OBVIOUS
  <2>1. Balance >= 0
    BY DEF IInv, Covered
  <2>2. ASSUME NEW o \in SavedOrders
        PROVE  /\ orders[o].method = "wallet" => Entry(o, "spend", orders[o].total) \in ledger
               /\ orders[o].pay = "refunded" => Entry(o, "refund", orders[o].total) \in ledger
               /\ WithKey(orders[o].key) \subseteq {o}
    BY DEF IInv, RowsMatch, OneOrderPerKey, WithKey
  <2>3. \A e \in ledger : e.order # None =>
          /\ e.type = "refund" => orders[e.order].status = "cancelled"
                                  /\ Entry(e.order, "spend", e.amount) \in ledger
          /\ e.type = "cashback" => orders[e.order].status = "done"
    BY DEF IInv, EntriesMatch
  <2>4. QED
    BY <2>1, <2>2, <2>3 DEF MoneyMatchesOrders
<1>2. QED
  BY <1>1, Invariance, PTL

-----------------------------------------------------------------------------
(* Opening hours: minutes, days and weeks *)

(* A moment is a day and a minute of it, in one way only.                  *)
LEMMA DayAndMinute ==
  ASSUME NEW D \in Nat \ {0}, NEW t \in Int
  PROVE  /\ t \div D \in Int /\ t % D \in 0..(D - 1)
         /\ t = D * (t \div D) + (t % D)
<1>1. t \div D \in Int
  OBVIOUS
<1>2. t % D \in 0..(D - 1)
  OBVIOUS
<1>3. t = D * (t \div D) + (t % D)
  OBVIOUS
<1> QED
  BY <1>1, <1>2, <1>3

(* Whoever names a day and a minute of it has named the moment's.          *)
LEMMA DayAndMinuteOf ==
  ASSUME NEW D \in Nat \ {0}, NEW q \in Int, NEW m \in 0..(D - 1)
  PROVE  (D * q + m) \div D = q /\ (D * q + m) % D = m
<1> DEFINE t == D * q + m
<1> DEFINE r == t \div D
<1> DEFINE n == t % D
<1>1. t \in Int
  OBVIOUS
<1>2. r \in Int /\ n \in 0..(D - 1) /\ D * q + m = D * r + n
  BY <1>1, DayAndMinute
<1> HIDE DEF r, n
<1>3. ~(q > r)
  <2> SUFFICES ASSUME q > r
               PROVE  FALSE
    OBVIOUS
  <2>1. (q - r - 1) * D >= 0
    BY <1>2
  <2> QED
    BY <1>2, <2>1
<1>4. ~(q < r)
  <2> SUFFICES ASSUME q < r
               PROVE  FALSE
    OBVIOUS
  <2>1. (r - q - 1) * D >= 0
    BY <1>2
  <2> QED
    BY <1>2, <2>1
<1>5. q = r
  BY <1>2, <1>3, <1>4
<1>6. m = n
  BY <1>2, <1>5
<1> QED
  BY <1>5, <1>6 DEF r, n

DayOf(t) == t \div DayLength
Midnight(q) == DayLength * q

(* The weekday depends on the day alone, and comes again after seven.      *)
LEMMA WeekdayOf ==
  ASSUME NEW t \in Int
  PROVE  /\ DayOf(t) \in Int /\ t % DayLength \in Minute
         /\ t = Midnight(DayOf(t)) + (t % DayLength)
         /\ Weekday(t) = 1 + (DayOf(t) % 7) /\ Weekday(t) \in 1..7
<1>1. /\ DayOf(t) \in Int /\ t % DayLength \in 0..(DayLength - 1)
      /\ t = DayLength * DayOf(t) + (t % DayLength)
  BY DayHasMinutes, DayAndMinute DEF DayOf
<1>2. DayOf(t) % 7 \in 0..6
  BY <1>1
<1> QED
  BY <1>1, <1>2 DEF Weekday, DayOf, Midnight, Minute

(* What is known of a moment given as a day and a minute.                  *)
LEMMA MomentOf ==
  ASSUME NEW q \in Int, NEW m \in Minute, NEW t, t = Midnight(q) + m
  PROVE  /\ t \in Int /\ DayOf(t) = q /\ t % DayLength = m
         /\ Weekday(t) = 1 + (q % 7) /\ Weekday(t) \in 1..7
<1>1. t \in Int /\ t \div DayLength = q /\ t % DayLength = m
  BY DayHasMinutes, DayAndMinuteOf DEF Midnight, Minute
<1>2. q % 7 \in 0..6
  OBVIOUS
<1> QED
  BY <1>1, <1>2 DEF DayOf, Weekday

(* The day before.                                                         *)
LEMMA DayBefore ==
  ASSUME NEW q \in Int
  PROVE  1 + ((q - 1) % 7) = Yesterday(1 + (q % 7)) /\ (q + 7) % 7 = q % 7
<1>1. q = 7 * (q \div 7) + (q % 7) /\ q % 7 \in 0..6 /\ q \div 7 \in Int
  OBVIOUS
<1> QED
  BY <1>1 DEF Yesterday

(* A week later the same hours hold.                                       *)
LEMMA EveryWeek ==
  ASSUME NEW w, NEW t \in Int
  PROVE  IsOpenAt(w, t + WeekLength) = IsOpenAt(w, t)
<1> DEFINE q == DayOf(t)
<1> DEFINE m == t % DayLength
<1>1. q \in Int /\ m \in Minute /\ t = Midnight(q) + m /\ Weekday(t) = 1 + (q % 7)
  BY WeekdayOf
<1> DEFINE u == t + WeekLength
<1>2. u = Midnight(q + 7) + m
  <2> HIDE DEF q, m
  <2>1. DayLength * (q + 7) = DayLength * q + 7 * DayLength
    BY <1>1, DayHasMinutes
  <2> QED
    BY <1>1, <2>1, DayHasMinutes DEF WeekLength, Midnight, Minute
<1>3. u % DayLength = m /\ Weekday(u) = 1 + ((q + 7) % 7)
  <2> HIDE DEF u, q, m
  <2> QED
    BY <1>1, <1>2, MomentOf
<1>4. Weekday(u) = Weekday(t) /\ u % DayLength = t % DayLength
  BY <1>1, <1>3, DayBefore
<1> QED
  BY <1>4 DEF IsOpenAt

(* Within a day the answer changes only at a moment that is looked at.     *)
LEMMA ChangesAreSeen ==
  ASSUME NEW w \in [1..7 -> DayHours], NEW t \in Int, IsOpenAt(w, t) # IsOpenAt(w, t - 1)
  PROVE  t \in ChangesOf(w, Midnight(DayOf(t))) \cup ChangesOf(w, Midnight(DayOf(t) - 1))
<1> DEFINE q == DayOf(t)
<1> DEFINE m == t % DayLength
<1> DEFINE d == w[Weekday(t)]
<1> DEFINE y == w[Yesterday(Weekday(t))]
<1>1. q \in Int /\ m \in Minute /\ t = Midnight(q) + m /\ Weekday(t) = 1 + (q % 7)
      /\ Weekday(t) \in 1..7
  BY WeekdayOf
<1>2. Weekday(Midnight(q)) = Weekday(t) /\ Midnight(q) \in Int
  <2>1. 0 \in Minute /\ Midnight(q) = Midnight(q) + 0
    BY <1>1, DayHasMinutes DEF Minute, Midnight
  <2> HIDE DEF q, m
  <2> QED
    BY <1>1, <2>1, MomentOf
<1>3. Weekday(Midnight(q - 1)) = Yesterday(Weekday(t)) /\ Midnight(q - 1) = Midnight(q) - DayLength
  <2>1. 0 \in Minute /\ Midnight(q - 1) = Midnight(q - 1) + 0 /\ q - 1 \in Int
        /\ Midnight(q - 1) = Midnight(q) - DayLength
    BY <1>1, DayHasMinutes DEF Minute, Midnight
  <2> HIDE DEF q, m
  <2>2. Weekday(Midnight(q - 1)) = 1 + ((q - 1) % 7)
    BY <2>1, MomentOf
  <2> QED
    BY <1>1, <2>1, <2>2, DayBefore
<1>4. d \in DayHours /\ y \in DayHours
  BY <1>1 DEF Yesterday
<1>5. CASE m = 0
  BY <1>1, <1>2, <1>5 DEF ChangesOf
<1>6. CASE m # 0
  <2>1. m - 1 \in Minute /\ t - 1 = Midnight(q) + (m - 1)
    <3> HIDE DEF q, m
    <3> QED
      BY <1>1, <1>2, <1>6, DayHasMinutes DEF Minute
  <2>2. Weekday(t - 1) = Weekday(t) /\ (t - 1) % DayLength = m - 1
    <3> HIDE DEF q, m
    <3> QED
      BY <1>1, <2>1, MomentOf
  <2>3. \/ OpenToday(d, m) # OpenToday(d, m - 1)
        \/ OpenSinceYesterday(y, m) # OpenSinceYesterday(y, m - 1)
    BY <2>2 DEF IsOpenAt
  <2> HIDE DEF q, m, d, y
  <2>4. CASE OpenToday(d, m) # OpenToday(d, m - 1)
    <3>1. d.enabled /\ (m = d.open \/ (m = d.close /\ d.open < d.close))
      BY <1>1, <1>4, <2>1, <2>4 DEF OpenToday, DayHours, Minute
    <3>2. d = w[Weekday(Midnight(q))]
      BY <1>2 DEF d
    <3>3. t \in ChangesOf(w, Midnight(q))
      BY <1>1, <1>2, <1>4, <3>1, <3>2 DEF ChangesOf, DayHours, Minute
    <3> QED
      BY <3>3 DEF q
  <2>5. CASE OpenSinceYesterday(y, m) # OpenSinceYesterday(y, m - 1)
    <3>1. y.enabled /\ m = y.close /\ y.close < y.open
      BY <1>1, <1>4, <2>1, <2>5 DEF OpenSinceYesterday, DayHours, Minute
    <3>2. y = w[Weekday(Midnight(q - 1))]
      BY <1>3 DEF y
    <3>3. Midnight(q - 1) + y.close + (IF y.close < y.open THEN DayLength ELSE 0) = t
      BY <1>1, <1>2, <1>3, <1>4, <3>1, DayHasMinutes DEF DayHours, Minute
    <3>4. t \in ChangesOf(w, Midnight(q - 1))
      BY <3>1, <3>2, <3>3 DEF ChangesOf
    <3> QED
      BY <3>4 DEF q
  <2> QED
    BY <2>3, <2>4, <2>5
<1> QED
  BY <1>5, <1>6

(* The moments from a moment on at which the answer is not what it was.    *)
Others(w, t) == {u \in Nat : u > t /\ IsOpenAt(w, u) # IsOpenAt(w, t)}

(* A set of numbers that is not empty has a smallest one.                  *)
LEMMA SmallestOf ==
  ASSUME NEW S \in SUBSET Nat, S # {}
  PROVE  \E n \in S : \A m \in S : n <= m
<1> DEFINE R == OpToRel(<, Nat)
<1>1. IsWellFoundedOn(R, Nat)
  BY NatLessThanWellFounded
<1>2. \A m, n \in Nat : m < n => <<m, n>> \in R
  BY DEF OpToRel
<1> HIDE DEF R
<1>3. PICK n \in S : \A m \in S : ~ (<<m, n>> \in R)
  BY <1>1, WFMin
<1>4. ASSUME NEW m \in S
      PROVE  n <= m
  <2>1. m \in Nat /\ n \in Nat /\ ~ (<<m, n>> \in R)
    BY <1>3
  <2>2. ~(m < n)
    BY <1>2, <2>1
  <2> QED
    BY <2>1, <2>2
<1> QED
  BY <1>4

(* The first of them is a moment that is looked at, within a week.         *)
LEMMA FirstOther ==
  ASSUME NEW w \in [1..7 -> DayHours], NEW t \in Nat, NEW s \in Others(w, t),
         \A u \in Others(w, t) : s <= u
  PROVE  \E i \in -1..8 : s \in ChangesOf(w, Midnight(DayOf(t) + i))
<1>1. s \in Nat /\ s > t /\ IsOpenAt(w, s) # IsOpenAt(w, t)
  BY DEF Others
<1>2. WeekLength \in Nat /\ WeekLength = 7 * DayLength /\ DayLength \in Nat /\ DayLength > 0
  BY DayHasMinutes DEF WeekLength
<1>3. s <= t + WeekLength
  <2> SUFFICES ASSUME s > t + WeekLength
               PROVE  FALSE
    BY <1>1, <1>2
  <2> DEFINE u == s - WeekLength
  <2>1. u \in Nat /\ u > t /\ u < s /\ u + WeekLength = s
    BY <1>1, <1>2
  <2> HIDE DEF u
  <2>2. IsOpenAt(w, u) = IsOpenAt(w, s)
    BY <2>1, EveryWeek
  <2>3. u \in Others(w, t)
    BY <1>1, <2>1, <2>2 DEF Others
  <2> QED
    BY <1>1, <2>1, <2>3
<1>4. IsOpenAt(w, s - 1) = IsOpenAt(w, t)
  <2>1. CASE s - 1 = t
    BY <2>1
  <2>2. CASE s - 1 # t
    <3>1. s - 1 \in Nat /\ s - 1 > t /\ ~(s <= s - 1)
      BY <1>1, <2>2
    <3> QED
      BY <3>1 DEF Others
  <2> QED
    BY <2>1, <2>2
<1>5. s \in ChangesOf(w, Midnight(DayOf(s))) \cup ChangesOf(w, Midnight(DayOf(s) - 1))
  BY <1>1, <1>4, ChangesAreSeen
<1> DEFINE p == DayOf(t)
<1> DEFINE q == DayOf(s)
<1>6. /\ p \in Int /\ q \in Int /\ DayLength * p <= t /\ t < DayLength * p + DayLength
      /\ DayLength * q <= s /\ s < DayLength * q + DayLength
  <2> SUFFICES ASSUME NEW u \in Nat
               PROVE  /\ DayOf(u) \in Int
                      /\ DayLength * DayOf(u) <= u /\ u < DayLength * DayOf(u) + DayLength
    BY <1>1
  <2>1. /\ DayOf(u) \in Int /\ u % DayLength \in 0..(DayLength - 1)
        /\ u = DayLength * DayOf(u) + (u % DayLength)
    BY WeekdayOf DEF Midnight, Minute
  <2> DEFINE m == u % DayLength
  <2> DEFINE k == DayLength * DayOf(u)
  <2>2. m \in 0..(DayLength - 1) /\ u = k + m /\ k \in Int
    BY <1>2, <2>1
  <2> HIDE DEF m, k
  <2>3. k <= u /\ u < k + DayLength
    BY <1>2, <2>2
  <2> QED
    BY <2>1, <2>3 DEF k
<1> HIDE DEF p, q
<1>7. q - p \in 0..7
  <2>1. ~(q < p)
    <3> SUFFICES ASSUME q < p
                 PROVE  FALSE
      OBVIOUS
    <3>1. (p - q - 1) * DayLength >= 0
      BY <1>2, <1>6
    <3> QED
      BY <1>1, <1>2, <1>6, <3>1
  <2>2. ~(q > p + 7)
    <3> SUFFICES ASSUME q > p + 7
                 PROVE  FALSE
      OBVIOUS
    <3>1. (q - p - 8) * DayLength >= 0
      BY <1>2, <1>6
    <3>2. DayLength * q - DayLength * p - 8 * DayLength >= 0
      BY <1>2, <1>6, <3>1
    <3> QED
      BY <1>1, <1>2, <1>3, <1>6, <3>2
  <2> QED
    BY <1>6, <2>1, <2>2
<1>8. CASE s \in ChangesOf(w, Midnight(q))
  <2>1. q - p \in -1..8 /\ p + (q - p) = q
    BY <1>6, <1>7
  <2> QED
    BY <1>8, <2>1 DEF p
<1>9. CASE s \in ChangesOf(w, Midnight(q - 1))
  <2>1. q - p - 1 \in -1..8 /\ p + (q - p - 1) = q - 1
    BY <1>6, <1>7
  <2> QED
    BY <1>9, <2>1 DEF p
<1> QED
  BY <1>5, <1>8, <1>9 DEF q

(* NextChangeAfter is right: up to that moment the answer stays, in that   *)
(* moment it is another; without one it stays for ever.                    *)
LEMMA NextChangeIs ==
  ASSUME NEW w \in Schedule \cup {None}, NEW t \in Nat
  PROVE  \/ /\ NextChangeAfter(w, t) = None
            /\ \A j \in Nat : IsOpenAt(w, t + j) = IsOpenAt(w, t)
         \/ /\ NextChangeAfter(w, t) \in Nat \ {0}
            /\ \A j \in 0..NextChangeAfter(w, t) :
                 (IsOpenAt(w, t + j) = IsOpenAt(w, t)) <=> j # NextChangeAfter(w, t)
<1>1. CASE w = None
  BY <1>1 DEF NextChangeAfter, IsOpenAt
<1>2. CASE w # None
  <2> DEFINE today == (t \div DayLength) * DayLength
  <2> DEFINE changes == {c \in UNION {ChangesOf(w, today + i * DayLength) : i \in -1..8} :
                           c > t /\ IsOpenAt(w, c) # IsOpenAt(w, t)}
  <2>1. NextChangeAfter(w, t) = IF changes = {} THEN None
          ELSE (CHOOSE c \in changes : \A other \in changes : c <= other) - t
    BY <1>2 DEF NextChangeAfter
  <2>2. w \in [1..7 -> DayHours]
    BY <1>2, SchedulesAreValid
  <2>3. DayOf(t) \in Int /\ \A i \in -1..8 : today + i * DayLength = Midnight(DayOf(t) + i)
    <3>1. DayOf(t) \in Int /\ today = DayOf(t) * DayLength /\ DayLength \in Nat
      BY WeekdayOf, DayHasMinutes DEF DayOf
    <3> HIDE DEF today
    <3> QED
      BY <3>1 DEF Midnight
  <2>4. changes \subseteq Others(w, t)
    <3> SUFFICES ASSUME NEW c \in changes
                 PROVE  c \in Nat
      BY DEF Others
    <3>1. PICK i \in -1..8 : c \in ChangesOf(w, today + i * DayLength)
      OBVIOUS
    <3> DEFINE mid == today + i * DayLength
    <3>2. mid \in Int /\ c \in ChangesOf(w, mid)
      BY <2>3, <3>1, DayHasMinutes DEF Midnight
    <3> HIDE DEF mid
    <3>3. w[Weekday(mid)] \in DayHours
      BY <2>2, <3>2, WeekdayOf
    <3>4. c \in Int
      BY <3>2, <3>3, DayHasMinutes DEF ChangesOf, DayHours, Minute
    <3> QED
      BY <3>4
  <2> DEFINE n == NextChangeAfter(w, t)
  <2>5. CASE Others(w, t) = {}
    <3>1. n = None
      BY <2>1, <2>4, <2>5
    <3>2. ASSUME NEW j \in Nat
          PROVE  IsOpenAt(w, t + j) = IsOpenAt(w, t)
      <4>1. CASE j = 0
        BY <4>1
      <4>2. CASE j # 0
        BY <2>5, <4>2 DEF Others
      <4> QED
        BY <4>1, <4>2
    <3> QED
      BY <3>1, <3>2
  <2>6. CASE Others(w, t) # {}
    <3>1. PICK s \in Others(w, t) : \A u \in Others(w, t) : s <= u
      BY <2>6, SmallestOf DEF Others
    <3>2. s \in Nat /\ s > t /\ IsOpenAt(w, s) # IsOpenAt(w, t)
      BY DEF Others
    <3>3. s \in changes
      <4>1. PICK i \in -1..8 : s \in ChangesOf(w, Midnight(DayOf(t) + i))
        BY <2>2, <3>1, FirstOther
      <4> QED
        BY <2>3, <3>2, <4>1
    <3>4. \A c \in changes : s <= c /\ c \in Nat
      BY <2>4, <3>1 DEF Others
    <3> HIDE DEF changes
    <3>5. (CHOOSE c \in changes : \A other \in changes : c <= other) = s
      <4>1. \A c \in changes : (\A other \in changes : c <= other) => c = s
        BY <3>2, <3>3, <3>4
      <4> QED
        BY <3>3, <3>4, <4>1
    <3>6. n = s - t /\ n \in Nat \ {0}
      <4>1. n = (CHOOSE c \in changes : \A other \in changes : c <= other) - t
        BY <2>1, <3>3
      <4>2. n = s - t
        BY <3>5, <4>1
      <4> QED
        BY <3>2, <4>2
    <3> HIDE DEF n
    <3>7. ASSUME NEW j \in 0..n
          PROVE  (IsOpenAt(w, t + j) = IsOpenAt(w, t)) <=> j # n
      <4>1. CASE j = n
        BY <3>2, <3>6, <4>1
      <4>2. CASE j = 0
        BY <3>6, <4>2
      <4>3. CASE j # n /\ j # 0
        <5>1. t + j \in Nat /\ t + j > t /\ ~(s <= t + j)
          BY <3>2, <3>6, <4>3
        <5> QED
          BY <3>1, <4>3, <5>1 DEF Others
      <4> QED
        BY <4>1, <4>2, <4>3
    <3> QED
      BY <3>6, <3>7 DEF n
  <2> QED
    BY <2>5, <2>6
<1> QED
  BY <1>1, <1>2

(* What a screen was told, and what is true from now on: the answer stays  *)
(* until the moment it counts down to, or for ever.                        *)
Telling == [open : BOOLEAN, left : Nat \cup {None}]
StaysFor(s) ==
  \/ s.left = None /\ \A j \in Nat : OrderableAt(clock + j) = s.open
  \/ s.left \in Nat /\ \A j \in 0..s.left : (OrderableAt(clock + j) = s.open) <=> j # s.left

HoursInv ==
  /\ switch \in BOOLEAN /\ hours \in Schedule \cup {None} /\ clock \in 0..(WeekLength - 1)
  /\ shown # None => shown \in Telling /\ StaysFor(shown)

(* At the start nobody has been told anything.                             *)
LEMMA HoursInvInit ==
  ASSUME HoursInit
  PROVE  HoursInv
BY DayHasMinutes DEF HoursInit, HoursInv, WeekLength

(* What a screen is told is true.                                          *)
LEMMA ToldIsTrue ==
  ASSUME HoursInv, WithOpenState
  PROVE  HoursInv'
<1>1. clock \in Nat /\ UNCHANGED <<switch, hours, clock>> /\ shown' = OpenStateAt(clock)
  BY DayHasMinutes DEF HoursInv, WithOpenState, WeekLength
<1> DEFINE n == NextChangeAfter(hours, clock)
<1> DEFINE s == OpenStateAt(clock)
<1>2. /\ s.open = OrderableAt(clock) /\ s.open \in BOOLEAN /\ s.left = IF switch THEN n ELSE None
      /\ s = [open |-> s.open, left |-> s.left]
  BY DEF OpenStateAt, OrderableAt
<1>3. \/ n = None /\ \A j \in Nat : IsOpenAt(hours, clock + j) = IsOpenAt(hours, clock)
      \/ /\ n \in Nat \ {0}
         /\ \A j \in 0..n : (IsOpenAt(hours, clock + j) = IsOpenAt(hours, clock)) <=> j # n
  BY <1>1, NextChangeIs DEF HoursInv
<1> HIDE DEF n, s
<1>4. s \in Telling
  BY <1>2, <1>3 DEF Telling
<1>5. StaysFor(s)
  <2>1. CASE switch
    <3>1. s.left = n
      BY <1>2, <2>1
    <3>2. CASE n = None /\ \A j \in Nat : IsOpenAt(hours, clock + j) = IsOpenAt(hours, clock)
      <4>1. ASSUME NEW j \in Nat
            PROVE  OrderableAt(clock + j) = s.open
        <5>1. OrderableAt(clock + j) \in BOOLEAN
          BY DEF OrderableAt
        <5>2. IsOpenAt(hours, clock + j) = IsOpenAt(hours, clock)
          BY <3>2
        <5> QED
          BY <2>1, <5>1, <5>2, <1>2 DEF OrderableAt
      <4> QED
        BY <3>1, <3>2, <4>1 DEF StaysFor
    <3>3. CASE /\ n \in Nat \ {0}
               /\ \A j \in 0..n : (IsOpenAt(hours, clock + j) = IsOpenAt(hours, clock)) <=> j # n
      <4>1. ASSUME NEW j \in 0..n
            PROVE  (OrderableAt(clock + j) = s.open) <=> j # n
        <5>1. (IsOpenAt(hours, clock + j) = IsOpenAt(hours, clock)) <=> j # n
          BY <3>3
        <5>2. OrderableAt(clock + j) = IsOpenAt(hours, clock + j)
          BY <2>1 DEF OrderableAt, IsOpenAt
        <5>3. s.open = IsOpenAt(hours, clock)
          BY <1>2, <2>1 DEF OrderableAt, IsOpenAt
        <5> QED
          BY <5>1, <5>2, <5>3
      <4> QED
        BY <3>1, <3>3, <4>1 DEF StaysFor
    <3> QED
      BY <1>3, <3>2, <3>3
  <2>2. CASE ~switch
    BY <1>2, <2>2 DEF StaysFor, OrderableAt
  <2> QED
    BY <2>1, <2>2
<1>6. StaysFor(shown)'
  BY <1>1, <1>5 DEF StaysFor, OrderableAt, s
<1> QED
  BY <1>1, <1>4, <1>6 DEF HoursInv, s

(* A minute later it is still true, also when the week is over.            *)
LEMMA MinutePassesInv ==
  ASSUME HoursInv, MinutePasses
  PROVE  HoursInv'
<1>1. /\ UNCHANGED <<switch, hours>> /\ clock' = (clock + 1) % WeekLength /\ shown' = Countdown
      /\ clock \in Nat /\ WeekLength \in Nat \ {0} /\ clock < WeekLength
  BY DayHasMinutes DEF HoursInv, MinutePasses, WeekLength
<1>2. clock' \in 0..(WeekLength - 1) /\ (clock' = clock + 1 \/ (clock' = 0 /\ clock + 1 = WeekLength))
  <2>1. CASE clock + 1 < WeekLength
    <3>1. (clock + 1) % WeekLength = clock + 1
      BY <1>1, <2>1
    <3> QED
      BY <1>1, <2>1, <3>1
  <2>2. CASE clock + 1 = WeekLength
    <3>1. (clock + 1) % WeekLength = 0
      BY <1>1, <2>2
    <3> QED
      BY <1>1, <2>2, <3>1
  <2> QED
    BY <1>1, <2>1, <2>2
<1>3. ASSUME NEW j \in Nat
      PROVE  OrderableAt(clock + j)' = OrderableAt(clock + (j + 1))
  <2>1. CASE clock' = clock + 1
    <3>1. clock' + j = clock + (j + 1)
      BY <1>1, <2>1
    <3> QED
      BY <1>1, <3>1 DEF OrderableAt
  <2>2. CASE clock' = 0 /\ clock + 1 = WeekLength
    <3>1. clock' + j = j /\ clock + (j + 1) = j + WeekLength
      BY <1>1, <2>2
    <3>2. IsOpenAt(hours, j + WeekLength) = IsOpenAt(hours, j)
      BY EveryWeek
    <3> QED
      BY <1>1, <3>1, <3>2 DEF OrderableAt
  <2> QED
    BY <1>2, <2>1, <2>2
<1>4. CASE shown' = None
  BY <1>1, <1>2, <1>4 DEF HoursInv
<1>5. CASE shown' # None
  <2>1. shown # None /\ shown \in Telling /\ StaysFor(shown) /\ shown.left # 0
    BY <1>1, <1>5 DEF HoursInv, Countdown
  <2>2. CASE shown.left = None
    <3>1. shown' = shown
      BY <1>1, <2>1, <2>2 DEF Countdown
    <3>2. \A j \in Nat : OrderableAt(clock + (j + 1)) = shown.open
      BY <2>1, <2>2, NoneIsNoTime DEF StaysFor
    <3>3. StaysFor(shown)'
      BY <1>3, <2>2, <3>1, <3>2 DEF StaysFor
    <3> QED
      BY <1>1, <1>2, <2>1, <3>1, <3>3 DEF HoursInv
  <2>3. CASE shown.left \in Nat
    <3>1. shown' = [shown EXCEPT !.left = @ - 1] /\ shown.left - 1 \in Nat
      BY <1>1, <2>1, <2>3, NoneIsNoTime DEF Countdown
    <3>2. shown' \in Telling /\ shown'.open = shown.open /\ shown'.left = shown.left - 1
      BY <2>1, <3>1 DEF Telling
    <3>3. \A j \in 0..(shown.left - 1) :
            (OrderableAt(clock + (j + 1)) = shown.open) <=> j # shown.left - 1
      BY <2>1, <2>3, NoneIsNoTime DEF StaysFor
    <3>4. StaysFor(shown)'
      <4> DEFINE k == shown.left - 1
      <4>1. k \in Nat /\ shown'.left = k
        BY <3>1, <3>2
      <4>2. ASSUME NEW j \in 0..k
            PROVE  (OrderableAt(clock + j)' = shown'.open) <=> j # k
        BY <1>3, <3>2, <3>3
      <4> HIDE DEF k
      <4> QED
        BY <4>1, <4>2 DEF StaysFor
    <3> QED
      BY <1>1, <1>2, <3>2, <3>4 DEF HoursInv
  <2> QED
    BY <2>1, <2>2, <2>3 DEF Telling
<1> QED
  BY <1>4, <1>5

(* Hours change by these steps and no others.                              *)
LEMMA HoursInvNext ==
  ASSUME HoursInv, HoursNext \/ UNCHANGED hourVars
  PROVE  HoursInv'
<1>1. CASE ChangeSettings
  BY <1>1 DEF HoursInv, ChangeSettings
<1>2. CASE UNCHANGED hourVars
  BY <1>2 DEF HoursInv, hourVars, StaysFor, OrderableAt
<1> QED
  BY <1>1, <1>2, ToldIsTrue, MinutePassesInv DEF HoursNext

(* What a screen shows is right now.                                       *)
LEMMA ShownIsRight ==
  ASSUME HoursInv
  PROVE  ShownUntilChange
<1> SUFFICES ASSUME shown # None
             PROVE  (OrderableAt(clock) = shown.open) <=> shown.left # 0
  BY DEF ShownUntilChange
<1>1. clock \in Int /\ clock + 0 = clock /\ shown \in Telling /\ StaysFor(shown)
  BY DayHasMinutes DEF HoursInv, WeekLength
<1>2. CASE shown.left = None
  BY <1>1, <1>2, NoneIsNoTime DEF StaysFor
<1>3. CASE shown.left \in Nat
  <2>1. 0 \in 0..shown.left /\ ((OrderableAt(clock + 0) = shown.open) <=> 0 # shown.left)
    BY <1>1, <1>3, NoneIsNoTime DEF StaysFor
  <2> QED
    BY <1>1, <2>1
<1> QED
  BY <1>1, <1>2, <1>3 DEF Telling

(* The hours' invariant holds of every behaviour of the checkout.          *)
LEMMA HoursInvariance == Spec => []HoursInv
<1>1. Init => HoursInv
  BY HoursInvInit DEF Init
<1>2. HoursInv /\ [Next]_vars => HoursInv'
  <2> SUFFICES ASSUME HoursInv, [Next]_vars PROVE HoursInv'
    OBVIOUS
  <2>1. HoursNext \/ UNCHANGED hourVars
    BY DEF Next, vars, hourVars
  <2> QED
    BY <2>1, HoursInvNext
<1> QED
  BY <1>1, <1>2, PTL DEF Spec

(* What a customer's screen says of a restaurant is right in every minute, *)
(* for days of any length, any tables of hours and any moment of the week  *)
(* (OpenStateAt, NextChangeAfter against IsOpenAt).                           *)
THEOREM ShownUntilChangeHolds == Spec => []ShownUntilChange
<1>1. HoursInv => ShownUntilChange
  BY ShownIsRight
<1> QED
  BY <1>1, HoursInvariance, PTL

-----------------------------------------------------------------------------
(* Sequences and ranks *)

(* What holds of 0 and passes to the next number holds up to any number.   *)
LEMMA CountingUp ==
  ASSUME NEW N \in Nat, NEW S, 0 \in S, \A n \in 0..N : n # N /\ n \in S => n + 1 \in S
  PROVE  0..N \subseteq S
<1> DEFINE Left == (0..N) \ S
<1>1. SUFFICES ASSUME Left # {} PROVE FALSE
  OBVIOUS
<1>2. PICK n \in Left : \A m \in Left : n <= m
  <2>1. Left \in SUBSET Nat
    OBVIOUS
  <2> HIDE DEF Left
  <2>2. QED
    BY <1>1, <2>1, SmallestOf
<1>3. n \in 0..N /\ n # 0 /\ n \notin S
  BY <1>2
<1>4. n - 1 \in 0..N /\ n - 1 # N /\ (n - 1) + 1 = n
  BY <1>3
<1>5. n - 1 \notin S
  BY <1>3, <1>4
<1>6. n - 1 \in Left
  BY <1>4, <1>5
<1>7. n <= n - 1
  BY <1>2, <1>6
<1>8. QED
  BY <1>3, <1>7

(* A tuple is the sequence it was made of.                                 *)
LEMMA TupleIs ==
  ASSUME NEW T, NEW s \in Seq(T)
  PROVE  Tuple(s) = s
BY ConcatEmptySeq DEF Tuple

(* A function on 1..n is a sequence of n elements.                         *)
LEMMA SequenceOf ==
  ASSUME NEW n \in Nat, NEW T, NEW s \in [1..n -> T]
  PROVE  s \in Seq(T) /\ Len(s) = n /\ DOMAIN s = 1..n
OBVIOUS

-----------------------------------------------------------------------------
(* Lists in an order *)

Before(P, key, c) == {d \in P : key[d] > key[c] \/ (key[d] = key[c] /\ d < c)}

(* Whoever comes later has more before it.                                 *)
LEMMA RanksDiffer ==
  ASSUME NEW P \in SUBSET Int, IsFiniteSet(P), NEW key, \A c \in P : key[c] \in Int,
         NEW c \in P, NEW d \in P, c # d
  PROVE  Rank(P, key, c) # Rank(P, key, d)
<1>1. \A x, y \in P : x \in Before(P, key, y) => Rank(P, key, x) < Rank(P, key, y)
  <2> TAKE x, y \in P
  <2> HAVE x \in Before(P, key, y)
  <2>1. x \notin Before(P, key, x)
    <3>1. key[x] \in Int /\ x \in Int
      OBVIOUS
    <3>2. QED
      BY <3>1 DEF Before
  <2>2. ASSUME NEW z \in Before(P, key, x) PROVE z \in Before(P, key, y)
    <3>1. /\ key[x] \in Int /\ x \in Int /\ key[y] \in Int /\ y \in Int /\ z \in P
          /\ key[z] \in Int /\ z \in Int
      BY <2>2 DEF Before
    <3>2. QED
      BY <2>2, <3>1 DEF Before
  <2>3. Before(P, key, x) \in SUBSET Before(P, key, y) /\ Before(P, key, x) # Before(P, key, y)
    BY <2>1, <2>2
  <2>4. IsFiniteSet(Before(P, key, y)) /\ IsFiniteSet(Before(P, key, x))
    <3>1. Before(P, key, y) \in SUBSET P /\ Before(P, key, x) \in SUBSET P
      BY DEF Before
    <3>2. QED
      BY <3>1, FS_Subset
  <2>5. Cardinality(Before(P, key, x)) < Cardinality(Before(P, key, y))
    BY <2>3, <2>4, FS_Subset, FS_CardinalityType
  <2>6. QED
    BY <2>5 DEF Before, Rank
<1>2. c \in Before(P, key, d) \/ d \in Before(P, key, c)
  <2>1. key[c] \in Int /\ c \in Int /\ key[d] \in Int /\ d \in Int
    OBVIOUS
  <2>2. QED
    BY <2>1 DEF Before
<1>3. Rank(P, key, c) \in Nat /\ Rank(P, key, d) \in Nat
  <2>1. \A x \in P : Before(P, key, x) \in SUBSET P
    BY DEF Before
  <2>2. \A x \in P : Cardinality(Before(P, key, x)) \in Nat
    BY <2>1, FS_Subset, FS_CardinalityType
  <2>3. QED
    BY <2>2 DEF Before, Rank
<1>4. QED
  BY <1>1, <1>2, <1>3

(* Ranks are the numbers below the number of places.                       *)
LEMMA EveryRankIsTaken ==
  ASSUME NEW P \in SUBSET Int, IsFiniteSet(P), NEW key, \A c \in P : key[c] \in Int,
         NEW k \in 1..Cardinality(P)
  PROVE  \E c \in P : Rank(P, key, c) = k - 1
<1> DEFINE n == Cardinality(P)
<1> DEFINE place == [c \in P |-> Rank(P, key, c) + 1]
<1>1. n \in Nat
  BY FS_CardinalityType
<1>2. ASSUME NEW c \in P PROVE Rank(P, key, c) \in Nat /\ Rank(P, key, c) < n
  <2>1. Before(P, key, c) \in SUBSET P /\ Before(P, key, c) # P
    <3>1. key[c] \in Int /\ c \in Int
      OBVIOUS
    <3>2. c \notin Before(P, key, c)
      BY <3>1 DEF Before
    <3>3. QED
      BY <3>2 DEF Before
  <2>2. Cardinality(Before(P, key, c)) \in Nat /\ Cardinality(Before(P, key, c)) < n
    BY <1>1, <2>1, FS_Subset, FS_CardinalityType
  <2>3. QED
    BY <2>2 DEF Before, Rank
<1>3. place \in Injection(P, 1..n)
  <2>1. place \in [P -> 1..n]
    BY <1>1, <1>2
  <2>2. IsInjective(place)
    <3>1. \A c, d \in P : c # d => Rank(P, key, c) + 1 # Rank(P, key, d) + 1
      BY <1>2, RanksDiffer
    <3>2. QED
      BY <3>1 DEF IsInjective
  <2>3. QED
    BY <2>1, <2>2 DEF Injection
<1>4. IsFiniteSet(1..n) /\ Cardinality(1..n) = n
  BY <1>1, FS_Interval
<1>5. place \in Surjection(P, 1..n)
  BY <1>3, <1>4, FS_Injection
<1>6. PICK c \in P : place[c] = k
  BY <1>5 DEF Surjection
<1>7. QED
  BY <1>2, <1>6

(* A list of places by rank, each of them once.                            *)
IsRanking(s, n, P, key) ==
  /\ s \in [1..n -> P] /\ s \in Seq(P) /\ Len(s) = n /\ n \in Nat
  /\ \A k \in 1..n : Rank(P, key, s[k]) = k - 1
  /\ \A c \in P : \E k \in 1..n : s[k] = c

(* Ordering by a key gives such a list.                                    *)
LEMMA RankedIs ==
  ASSUME NEW P \in SUBSET Int, IsFiniteSet(P), NEW key, \A c \in P : key[c] \in Int
  PROVE  IsRanking(Ranked(P, key), Cardinality(P), P, key)
<1> DEFINE n == Cardinality(P)
<1> DEFINE s == [k \in 1..n |-> CHOOSE c \in P : Rank(P, key, c) = k - 1]
<1>1. n \in Nat
  BY FS_CardinalityType
<1>2. \A k \in 1..n : s[k] \in P /\ Rank(P, key, s[k]) = k - 1
  BY EveryRankIsTaken
<1>3. s \in [1..n -> P]
  BY <1>2
<1>4. s \in Seq(P) /\ Len(s) = n
  BY <1>1, <1>3, SequenceOf
<1>5. Ranked(P, key) = s
  BY <1>4, TupleIs DEF Ranked
<1>6. s \in Injection(1..n, P)
  <2>1. \A j, k \in 1..n : s[j] = s[k] => j = k
    <3> TAKE j, k \in 1..n
    <3>1. Rank(P, key, s[j]) = j - 1 /\ Rank(P, key, s[k]) = k - 1
      BY <1>2
    <3> HIDE DEF s
    <3>2. QED
      BY <3>1
  <2> HIDE DEF s
  <2>2. QED
    BY <1>3, <2>1 DEF Injection, IsInjective
<1>7. IsFiniteSet(1..n) /\ Cardinality(1..n) = n
  BY <1>1, FS_Interval
<1> HIDE DEF s
<1>8. s \in Surjection(1..n, P)
  BY <1>6, <1>7, FS_Injection
<1>9. \A c \in P : \E k \in 1..n : s[k] = c
  BY <1>8 DEF Surjection
<1>10. IsRanking(s, n, P, key)
  BY <1>1, <1>2, <1>3, <1>4, <1>9 DEF IsRanking
<1>11. QED
  BY <1>5, <1>10

(* A list of the elements at these places, each once.                      *)
Picks(kept, list, P) ==
  \E n \in Nat : \E f \in [1..n -> P] :
    /\ Len(kept) = n
    /\ \A k \in 1..n : kept[k] = list[f[k]]
    /\ \A j, k \in 1..n : f[j] = f[k] => j = k
    /\ \A c \in P : \E k \in 1..n : f[k] = c

(* What stays of a list is the elements at the places kept.                *)
LEMMA KeptIs ==
  ASSUME NEW T, NEW list \in Seq(T), NEW P \in SUBSET DOMAIN list
  PROVE  Kept(list, P) \in Seq(T) /\ Picks(Kept(list, P), list, P)
<1>0. PICK key, order, n :
        key = [i \in P |-> 0] /\ order = Ranked(P, key) /\ n = Cardinality(P)
  OBVIOUS
<1>1. /\ P \in SUBSET Int /\ P \in SUBSET (1..Len(list)) /\ IsFiniteSet(P)
      /\ \A c \in P : key[c] \in Int
  <2>1. DOMAIN list = 1..Len(list) /\ Len(list) \in Nat
    BY LenProperties
  <2>2. P \in SUBSET (1..Len(list)) /\ P \in SUBSET Int
    BY <2>1
  <2>3. IsFiniteSet(1..Len(list))
    BY <2>1, FS_Interval
  <2>4. IsFiniteSet(P)
    BY <2>2, <2>3, FS_Subset
  <2>5. QED
    BY <1>0, <2>2, <2>4
<1>2. /\ order \in [1..n -> P] /\ Len(order) = n /\ n \in Nat /\ order \in Seq(P)
      /\ \A k \in 1..n : Rank(P, key, order[k]) = k - 1
      /\ \A c \in P : \E k \in 1..n : order[k] = c
  <2>1. IsRanking(order, n, P, key)
    BY <1>0, <1>1, RankedIs
  <2>2. QED
    BY <2>1 DEF IsRanking
<1>3. \A j, k \in 1..n : order[j] = order[k] => j = k
  <2> TAKE j, k \in 1..n
  <2>1. Rank(P, key, order[j]) = j - 1 /\ Rank(P, key, order[k]) = k - 1
    BY <1>2
  <2>2. j \in Int /\ k \in Int
    BY <1>2
  <2>3. QED
    BY <2>1, <2>2
<1>4. DOMAIN order = 1..n
  BY <1>2
<1>5. PICK kept : kept = [k \in 1..n |-> list[order[k]]]
  OBVIOUS
<1>6. kept \in [1..n -> T]
  <2>1. \A i \in P : list[i] \in T
    BY <1>1
  <2>2. \A k \in 1..n : list[order[k]] \in T
    BY <1>2, <2>1
  <2>3. QED
    BY <1>5, <2>2
<1>7. kept \in Seq(T) /\ Len(kept) = n
  BY <1>2, <1>6, SequenceOf
<1>8. Kept(list, P) = kept
  <2>1. Kept(list, P) = Tuple(kept)
    BY <1>0, <1>4, <1>5 DEF Kept
  <2>2. QED
    BY <1>7, <2>1, TupleIs
<1>9. \A k \in 1..n : kept[k] = list[order[k]]
  BY <1>5
<1>10. Picks(kept, list, P)
  BY <1>2, <1>3, <1>7, <1>9 DEF Picks
<1>11. QED
  BY <1>7, <1>8, <1>10

-----------------------------------------------------------------------------
(* More about sums *)

(* What holds of nothing and passes on with every element holds of all.    *)
LEMMA AddingUp ==
  ASSUME NEW S, IsFiniteSet(S), NEW C, {} \in C,
         \A s \in SUBSET S : s \in C => \A x \in S \ s : s \cup {x} \in C
  PROVE  S \in C
<1> DEFINE Wrong == {s \in SUBSET S : s \notin C}
<1>1. SUFFICES ASSUME Wrong # {} PROVE FALSE
  OBVIOUS
<1>2. PICK s \in Wrong : \A t \in Wrong : t \subseteq s => t = s
  <2>1. Wrong \subseteq SUBSET S
    OBVIOUS
  <2> HIDE DEF Wrong
  <2>2. QED
    BY <1>1, <2>1, MinimalSubset
<1>3. PICK x \in s : TRUE
  BY <1>2
<1>4. s \ {x} \in SUBSET S /\ s \ {x} \in C /\ x \in S \ (s \ {x}) /\ (s \ {x}) \cup {x} = s
  BY <1>2, <1>3
<1>5. s \in C
  BY <1>4
<1>6. QED
  BY <1>2, <1>5

(* A greater term makes a greater sum, or no smaller one.                  *)
LEMMA SumIsMonotonic ==
  ASSUME NEW S, IsFiniteSet(S), NEW f, NEW g,
         \A x \in S : f[x] \in Int /\ g[x] \in Int /\ f[x] <= g[x]
  PROVE  SumFunctionOnSet(f, S) <= SumFunctionOnSet(g, S)
<1> DEFINE C == {s \in SUBSET S : Sum(f, s) <= Sum(g, s)}
<1>1. {} \in C
  BY SumOfNone DEF Sum
<1>2. ASSUME NEW s \in SUBSET S, s \in C, NEW x \in S \ s PROVE s \cup {x} \in C
  <2>1. IsFiniteSet(s)
    BY FS_Subset
  <2>2. Sum(f, s \cup {x}) = Sum(f, s) + f[x]
    BY <2>1, SumOfOneMore DEF Sum
  <2>3. Sum(g, s \cup {x}) = Sum(g, s) + g[x]
    BY <2>1, SumOfOneMore DEF Sum
  <2>4. Sum(f, s) \in Int /\ Sum(g, s) \in Int
    BY <2>1, SumIsInt DEF Sum
  <2>5. f[x] \in Int /\ g[x] \in Int /\ f[x] <= g[x] /\ Sum(f, s) <= Sum(g, s)
    BY <1>2
  <2>6. Sum(f, s \cup {x}) <= Sum(g, s \cup {x})
    BY <2>2, <2>3, <2>4, <2>5
  <2>7. QED
    BY <2>6
<1> HIDE DEF C
<1>3. S \in C
  BY <1>1, <1>2, AddingUp
<1>4. QED
  BY <1>3 DEF C, Sum

(* The sum of sums.                                                        *)
LEMMA SumOfSums ==
  ASSUME NEW S, IsFiniteSet(S), NEW f, NEW g, NEW h,
         \A x \in S : f[x] \in Int /\ g[x] \in Int /\ h[x] = f[x] + g[x]
  PROVE  SumFunctionOnSet(h, S) = SumFunctionOnSet(f, S) + SumFunctionOnSet(g, S)
<1> DEFINE C == {s \in SUBSET S : Sum(h, s) = Sum(f, s) + Sum(g, s)}
<1>1. {} \in C
  BY SumOfNone DEF Sum
<1>2. ASSUME NEW s \in SUBSET S, s \in C, NEW x \in S \ s PROVE s \cup {x} \in C
  <2>1. IsFiniteSet(s) /\ \A y \in s \cup {x} : f[y] \in Int /\ g[y] \in Int /\ h[y] \in Int
    BY FS_Subset
  <2>2. Sum(f, s \cup {x}) = Sum(f, s) + f[x]
    BY <2>1, SumOfOneMore DEF Sum
  <2>3. Sum(g, s \cup {x}) = Sum(g, s) + g[x]
    BY <2>1, SumOfOneMore DEF Sum
  <2>4. Sum(h, s \cup {x}) = Sum(h, s) + h[x]
    BY <2>1, SumOfOneMore DEF Sum
  <2>5. Sum(f, s) \in Int /\ Sum(g, s) \in Int
    BY <2>1, SumIsInt DEF Sum
  <2>6. f[x] \in Int /\ g[x] \in Int /\ h[x] = f[x] + g[x] /\ Sum(h, s) = Sum(f, s) + Sum(g, s)
    BY <1>2
  <2>7. Sum(h, s \cup {x}) = Sum(f, s \cup {x}) + Sum(g, s \cup {x})
    BY <2>2, <2>3, <2>4, <2>5, <2>6
  <2>8. QED
    BY <2>7
<1> HIDE DEF C
<1>3. S \in C
  BY <1>1, <1>2, AddingUp
<1>4. QED
  BY <1>3 DEF C, Sum

(* A common factor.                                                        *)
LEMMA SumOfMultiples ==
  ASSUME NEW S, IsFiniteSet(S), NEW f, NEW g, NEW a \in Int,
         \A x \in S : f[x] \in Int /\ g[x] = a * f[x]
  PROVE  SumFunctionOnSet(g, S) = a * SumFunctionOnSet(f, S)
<1> DEFINE C == {s \in SUBSET S : Sum(g, s) = a * Sum(f, s)}
<1>1. {} \in C
  BY SumOfNone DEF Sum
<1>2. ASSUME NEW s \in SUBSET S, s \in C, NEW x \in S \ s PROVE s \cup {x} \in C
  <2>1. IsFiniteSet(s) /\ \A y \in s \cup {x} : f[y] \in Int /\ g[y] \in Int
    BY FS_Subset
  <2>2. Sum(f, s \cup {x}) = Sum(f, s) + f[x]
    BY <2>1, SumOfOneMore DEF Sum
  <2>3. Sum(g, s \cup {x}) = Sum(g, s) + g[x]
    BY <2>1, SumOfOneMore DEF Sum
  <2>4. Sum(f, s) \in Int
    BY <2>1, SumIsInt DEF Sum
  <2>5. f[x] \in Int /\ g[x] = a * f[x] /\ Sum(g, s) = a * Sum(f, s)
    BY <1>2
  <2>6. \A b, c \in Int : a * b + a * c = a * (b + c)
    OBVIOUS
  <2>7. Sum(g, s \cup {x}) = a * Sum(f, s \cup {x})
    BY <2>2, <2>3, <2>4, <2>5, <2>6
  <2>8. QED
    BY <2>7
<1> HIDE DEF C
<1>3. S \in C
  BY <1>1, <1>2, AddingUp
<1>4. QED
  BY <1>3 DEF C, Sum

(* As many ones as there are elements.                                     *)
LEMMA SumOfConstants ==
  ASSUME NEW S, IsFiniteSet(S), NEW f, NEW a \in Int, \A x \in S : f[x] = a
  PROVE  SumFunctionOnSet(f, S) = a * Cardinality(S)
<1> DEFINE C == {s \in SUBSET S : Sum(f, s) = a * Cardinality(s)}
<1>1. {} \in C
  BY SumOfNone, FS_EmptySet DEF Sum
<1>2. ASSUME NEW s \in SUBSET S, s \in C, NEW x \in S \ s PROVE s \cup {x} \in C
  <2>1. IsFiniteSet(s) /\ \A y \in s \cup {x} : f[y] \in Int
    BY FS_Subset
  <2>2. Sum(f, s \cup {x}) = Sum(f, s) + f[x]
    BY <2>1, SumOfOneMore DEF Sum
  <2>3. Cardinality(s \cup {x}) = Cardinality(s) + 1 /\ Cardinality(s) \in Int
    BY <2>1, FS_AddElement, FS_CardinalityType
  <2>4. f[x] = a /\ Sum(f, s) = a * Cardinality(s)
    BY <1>2
  <2>5. \A c \in Int : a * c + a = a * (c + 1)
    OBVIOUS
  <2>6. Sum(f, s \cup {x}) = a * Cardinality(s \cup {x})
    BY <2>2, <2>3, <2>4, <2>5
  <2>7. QED
    BY <2>6
<1> HIDE DEF C
<1>3. S \in C
  BY <1>1, <1>2, AddingUp
<1>4. QED
  BY <1>3 DEF C, Sum

-----------------------------------------------------------------------------
(* Totals of lists *)

(* A total adds up every place of a list.                                  *)
LEMMA TotalIs ==
  ASSUME NEW L \in Nat, NEW w \in [1..L -> Int]
  PROVE  /\ Total(w) \in Int /\ Total(w) = SumFunctionOnSet(w, 1..L)
         /\ IsFiniteSet(1..L) /\ Cardinality(1..L) = L
<1>1. IsFiniteSet(1..L) /\ Cardinality(1..L) = L
  BY FS_Interval
<1>2. SumFunctionOnSet(w, 1..L) \in Int
  BY <1>1, SumIsInt
<1>3. DOMAIN w = 1..L
  OBVIOUS
<1>4. QED
  BY <1>1, <1>2, <1>3 DEF Total, SumFunction

(* Nothing is below zero, so the total is not.                             *)
LEMMA TotalIsNat ==
  ASSUME NEW L \in Nat, NEW w \in [1..L -> Nat]
  PROVE  Total(w) \in Nat
<1>1. PICK none : none = [i \in 1..L |-> 0]
  OBVIOUS
<1>2. w \in [1..L -> Int]
  OBVIOUS
<1>3. /\ Total(w) \in Int /\ Total(w) = SumFunctionOnSet(w, 1..L)
      /\ IsFiniteSet(1..L) /\ Cardinality(1..L) = L
  BY <1>2, TotalIs
<1>4. \A i \in 1..L : none[i] \in Int /\ none[i] = 0 /\ w[i] \in Int /\ none[i] <= w[i]
  <2> TAKE i \in 1..L
  <2>1. none[i] = 0 /\ w[i] \in Nat
    BY <1>1
  <2>2. QED
    BY <2>1
<1>5. SumFunctionOnSet(none, 1..L) <= SumFunctionOnSet(w, 1..L)
  BY <1>3, <1>4, SumIsMonotonic
<1>6. SumFunctionOnSet(none, 1..L) = 0 * Cardinality(1..L)
  BY <1>3, <1>4, SumOfConstants
<1>7. 0 * L = 0
  OBVIOUS
<1>8. QED
  BY <1>3, <1>5, <1>6, <1>7

(* Less in every place is less in total.                                   *)
LEMMA TotalIsMonotonic ==
  ASSUME NEW L \in Nat, NEW v \in [1..L -> Int], NEW w \in [1..L -> Int],
         \A i \in 1..L : v[i] <= w[i]
  PROVE  Total(v) <= Total(w)
<1>1. SumFunctionOnSet(v, 1..L) <= SumFunctionOnSet(w, 1..L)
  <2>1. \A i \in 1..L : v[i] \in Int /\ w[i] \in Int /\ v[i] <= w[i]
    OBVIOUS
  <2>2. QED
    BY <2>1, TotalIs, SumIsMonotonic
<1>2. QED
  BY <1>1, TotalIs

(* No place holds more than the total.                                     *)
LEMMA PartOfTotal ==
  ASSUME NEW L \in Nat, NEW v \in [1..L -> Nat], NEW i \in 1..L
  PROVE  v[i] <= Total(v)
<1> DEFINE rest == (1..L) \ {i}
<1> DEFINE none == [j \in rest |-> 0]
<1>1. IsFiniteSet(1..L) /\ IsFiniteSet(rest) /\ rest \cup {i} = 1..L /\ i \notin rest
  <2>1. IsFiniteSet(1..L) /\ rest \in SUBSET (1..L)
    BY FS_Interval
  <2>2. QED
    BY <2>1, FS_Subset
<1>2. \A j \in 1..L : v[j] \in Int
  OBVIOUS
<1>3. \A j \in rest : none[j] \in Int /\ none[j] = 0 /\ v[j] \in Int /\ none[j] <= v[j]
  OBVIOUS
<1> HIDE DEF none, rest
<1>4. SumFunctionOnSet(v, rest \cup {i}) = SumFunctionOnSet(v, rest) + v[i]
  BY <1>1, <1>2, SumOfOneMore
<1>5. SumFunctionOnSet(none, rest) <= SumFunctionOnSet(v, rest)
  BY <1>1, <1>3, SumIsMonotonic
<1>6. SumFunctionOnSet(none, rest) = 0
  <2>1. 0 \in Int /\ \A j \in rest : none[j] = 0
    BY <1>3
  <2>2. SumFunctionOnSet(none, rest) = 0 * Cardinality(rest)
    BY <1>1, <2>1, SumOfConstants
  <2>3. Cardinality(rest) \in Int
    BY <1>1, FS_CardinalityType
  <2>4. QED
    BY <2>2, <2>3
<1>7. SumFunctionOnSet(v, rest) \in Int /\ v[i] \in Int
  BY <1>1, <1>2, <1>3, SumIsInt
<1>8. Total(v) = SumFunctionOnSet(v, 1..L)
  <2>1. v \in [1..L -> Int]
    OBVIOUS
  <2>2. QED
    BY <2>1, TotalIs
<1>9. Total(v) = SumFunctionOnSet(v, rest) + v[i]
  BY <1>1, <1>4, <1>8
<1>10. QED
  BY <1>5, <1>6, <1>7, <1>9

(* One coin more in one place is one more in total.                        *)
LEMMA TotalOfOneMore ==
  ASSUME NEW L \in Nat, NEW v \in [1..L -> Int], NEW i \in 1..L
  PROVE  Total([v EXCEPT ![i] = @ + 1]) = Total(v) + 1
<1> DEFINE one == [j \in 1..L |-> IF j = i THEN 1 ELSE 0]
<1> DEFINE more == [v EXCEPT ![i] = @ + 1]
<1> DEFINE rest == (1..L) \ {i}
<1>1. /\ more \in [1..L -> Int]
      /\ \A j \in 1..L : v[j] \in Int /\ one[j] \in Int /\ more[j] = v[j] + one[j]
      /\ \A j \in rest : one[j] = 0
      /\ one[i] = 1
  OBVIOUS
<1>2. IsFiniteSet(1..L) /\ IsFiniteSet(rest) /\ rest \cup {i} = 1..L /\ i \notin rest
  <2>1. IsFiniteSet(1..L) /\ rest \in SUBSET (1..L)
    BY FS_Interval
  <2>2. QED
    BY <2>1, FS_Subset
<1>3. /\ Total(more) = SumFunctionOnSet(more, 1..L)
      /\ Total(v) = SumFunctionOnSet(v, 1..L) /\ Total(v) \in Int
  BY <1>1, TotalIs
<1> HIDE DEF one, more, rest
<1>4. SumFunctionOnSet(more, 1..L) = SumFunctionOnSet(v, 1..L) + SumFunctionOnSet(one, 1..L)
  BY <1>1, <1>2, SumOfSums
<1>5. SumFunctionOnSet(one, rest \cup {i}) = SumFunctionOnSet(one, rest) + one[i]
  <2>1. \A j \in rest \cup {i} : one[j] \in Int
    BY <1>1, <1>2
  <2>2. QED
    BY <1>2, <2>1, SumOfOneMore
<1>6. SumFunctionOnSet(one, rest) = 0 * Cardinality(rest)
  BY <1>1, <1>2, SumOfConstants
<1>7. Cardinality(rest) \in Int
  BY <1>2, FS_CardinalityType
<1>8. 0 * Cardinality(rest) = 0
  BY <1>7
<1>9. SumFunctionOnSet(one, 1..L) = 1
  <2>1. SumFunctionOnSet(one, 1..L) = SumFunctionOnSet(one, rest) + one[i]
    BY <1>2, <1>5
  <2>2. SumFunctionOnSet(one, rest) = 0 /\ one[i] = 1
    BY <1>1, <1>6, <1>8
  <2>3. QED
    BY <2>1, <2>2
<1>10. Total(more) = Total(v) + 1
  BY <1>3, <1>4, <1>9
<1>11. QED
  BY <1>10 DEF more

-----------------------------------------------------------------------------
(* Sharing a total *)

(* What is left of a division is less than the divisor.                    *)
LEMMA FloorOf ==
  ASSUME NEW a \in Nat, NEW b \in Nat \ {0}
  PROVE  /\ a \div b \in Nat
         /\ (a \div b) * b <= a /\ a < (a \div b) * b + b
<1>1. a \div b \in Int /\ a % b \in 0..(b - 1) /\ a = b * (a \div b) + (a % b)
  OBVIOUS
<1>2. b * (a \div b) = (a \div b) * b
  BY <1>1
<1> DEFINE q == a \div b
<1> DEFINE p == q * b
<1>3. p \in Int /\ p <= a /\ a < p + b
  BY <1>1, <1>2
<1>4. q >= 0
  <2>1. CASE q < 0
    <3>1. q + 1 <= 0
      BY <1>1, <2>1
    <3>2. \A x \in Int : x <= 0 => x * b <= 0
      OBVIOUS
    <3>3. (q + 1) * b <= 0 /\ (q + 1) * b = p + b
      BY <1>1, <3>1, <3>2
    <3>4. QED
      BY <1>3, <3>3
  <2>2. QED
    BY <1>1, <2>1
<1>5. QED
  BY <1>1, <1>3, <1>4

(* A smaller multiple is the multiple of a smaller number.                 *)
LEMMA FactorsCompare ==
  ASSUME NEW a \in Int, NEW c \in Int, NEW b \in Nat \ {0}
  PROVE  /\ a * b <= c * b => a <= c
         /\ a * b < c * b => a < c
         /\ a <= c => a * b <= c * b
<1>1. ASSUME a > c PROVE a * b > c * b
  <2>1. a - c >= 1 /\ a - c \in Int
    BY <1>1
  <2>2. (a - c) * b >= b
    BY <2>1
  <2>3. (a - c) * b = a * b - c * b
    OBVIOUS
  <2>4. QED
    BY <2>2, <2>3
<1>2. ASSUME c > a PROVE c * b > a * b
  <2>1. c - a >= 1 /\ c - a \in Int
    BY <1>2
  <2>2. (c - a) * b >= b
    BY <2>1
  <2>3. (c - a) * b = c * b - a * b
    OBVIOUS
  <2>4. QED
    BY <2>2, <2>3
<1>3. a * b \in Int /\ c * b \in Int /\ (a = c => a * b = c * b)
  OBVIOUS
<1>4. QED
  BY <1>1, <1>2, <1>3

Lines(L) == [1..L -> Nat]

(* Every place's exact share, rounded down; what that leaves is less than  *)
(* a coin a place.                                                         *)
LEMMA FloorsAre ==
  ASSUME NEW L \in Nat, NEW w \in Lines(L), NEW t \in Nat, Total(w) \in Nat \ {0},
         t <= Total(w), NEW F, F = Floors(t, w)
  PROVE  /\ F \in Lines(L)
         /\ \A i \in 1..L : /\ F[i] <= w[i] /\ F[i] * Total(w) <= t * w[i]
                           /\ t * w[i] < F[i] * Total(w) + Total(w)
         /\ Total(F) \in Nat /\ Total(F) <= t /\ t < Total(F) + L
<1> DEFINE W == Total(w)
<1> DEFINE f == [i \in 1..L |-> (t * w[i]) \div W]
<1>1. W \in Nat \ {0} /\ t <= W /\ w \in [1..L -> Nat] /\ w \in [1..L -> Int] /\ DOMAIN w = 1..L
  BY DEF Lines
<1>2. /\ W = SumFunctionOnSet(w, 1..L) /\ IsFiniteSet(1..L) /\ Cardinality(1..L) = L
  BY <1>1, TotalIs
<1> HIDE DEF W
<1>3. ASSUME NEW i \in 1..L
      PROVE  /\ f[i] \in Nat /\ f[i] <= w[i] /\ f[i] * W <= t * w[i] /\ t * w[i] < f[i] * W + W
  <2>1. PICK x : x = w[i]
    OBVIOUS
  <2>2. x \in Nat
    BY <1>1, <2>1
  <2>3. t * x \in Nat /\ t * x <= W * x /\ W * x = x * W
    <3>1. t * x \in Nat /\ W * x = x * W
      BY <1>1, <2>2
    <3>2. x # 0 => t * x <= W * x
      BY <1>1, <2>2, FactorsCompare
    <3>3. x = 0 => t * x <= W * x
      BY <1>1, <2>2
    <3>4. QED
      BY <3>1, <3>2, <3>3
  <2>4. PICK q : q = (t * x) \div W
    OBVIOUS
  <2>5. q \in Nat /\ q * W <= t * x /\ t * x < q * W + W
    BY <1>1, <2>3, <2>4, FloorOf
  <2>6. q * W \in Int /\ x * W \in Int
    BY <1>1, <2>2, <2>5
  <2>7. q * W <= x * W
    BY <1>1, <2>2, <2>3, <2>5, <2>6
  <2>8. q <= x
    BY <1>1, <2>2, <2>5, <2>7, FactorsCompare
  <2>9. f[i] = q
    BY <2>1, <2>4
  <2> HIDE DEF f
  <2>10. QED
    BY <2>1, <2>5, <2>8, <2>9
<1>4. f \in [1..L -> Nat]
  <2>1. \A i \in 1..L : f[i] \in Nat
    BY <1>3
  <2>2. QED
    BY <2>1
<1>5. F = f
  <2>1. f \in Seq(Nat)
    BY <1>4, SequenceOf
  <2>2. Floors(t, w) = Tuple(f)
    BY <1>1 DEF Floors, W
  <2>3. QED
    BY <2>1, <2>2, TupleIs
<1> HIDE DEF f
<1>6. f \in [1..L -> Int]
  BY <1>4
<1>7. Total(f) \in Nat /\ Total(f) = SumFunctionOnSet(f, 1..L)
  BY <1>4, <1>6, TotalIs, TotalIsNat
<1> DEFINE exact == [i \in 1..L |-> t * w[i]]
<1> DEFINE low == [i \in 1..L |-> W * f[i]]
<1> DEFINE one == [i \in 1..L |-> W]
<1> DEFINE high == [i \in 1..L |-> W * f[i] + W]
<1> DEFINE S(g) == SumFunctionOnSet(g, 1..L)
<1>8. \A i \in 1..L : /\ w[i] \in Int /\ exact[i] \in Int /\ exact[i] = t * w[i]
                       /\ f[i] \in Int /\ low[i] \in Int /\ low[i] = W * f[i]
                       /\ one[i] = W /\ high[i] \in Int /\ high[i] = low[i] + one[i] /\ W \in Int
  BY <1>1, <1>6
<1>9. \A i \in 1..L : low[i] <= exact[i] /\ exact[i] + 1 <= high[i]
  <2> TAKE i \in 1..L
  <2>1. f[i] * W <= t * w[i] /\ t * w[i] < f[i] * W + W /\ f[i] \in Int /\ w[i] \in Int
    BY <1>3, <1>8
  <2>2. f[i] * W = W * f[i]
    BY <1>1, <2>1
  <2>3. low[i] = W * f[i] /\ exact[i] = t * w[i] /\ high[i] = W * f[i] + W
        /\ low[i] \in Int /\ exact[i] \in Int
    BY <1>8
  <2>4. PICK a, b : a = W * f[i] /\ b = t * w[i]
    OBVIOUS
  <2> HIDE DEF low, exact, high, W
  <2>5. low[i] = a /\ exact[i] = b /\ high[i] = a + W /\ a \in Int /\ b \in Int /\ W \in Int
    BY <1>8, <2>3, <2>4
  <2>6. a <= b /\ b < a + W
    BY <2>1, <2>2, <2>4
  <2>7. low[i] <= exact[i]
    BY <2>5, <2>6
  <2>8. exact[i] + 1 <= high[i]
    <3>1. b + 1 <= a + W
      BY <2>5, <2>6
    <3>2. QED
      BY <2>5, <3>1
  <2>9. QED
    BY <2>7, <2>8
<1> DEFINE next == [i \in 1..L |-> exact[i] + 1]
<1> DEFINE unit == [i \in 1..L |-> 1]
<1>10. \A i \in 1..L : next[i] = exact[i] + unit[i] /\ next[i] \in Int /\ unit[i] = 1 /\ unit[i] \in Int
  BY <1>8
<1>11. \A i \in 1..L : next[i] = exact[i] + 1
  OBVIOUS
<1> HIDE DEF exact, low, one, high, next, unit
<1>12. S(exact) = t * S(w)
  <2>1. t \in Int /\ \A i \in 1..L : w[i] \in Int /\ exact[i] = t * w[i]
    BY <1>8
  <2>2. QED
    BY <1>2, <2>1, SumOfMultiples
<1>13. S(low) = W * S(f)
  <2>1. W \in Int /\ \A i \in 1..L : f[i] \in Int /\ low[i] = W * f[i]
    BY <1>1, <1>8
  <2>2. QED
    BY <1>2, <2>1, SumOfMultiples
<1>14. S(high) = S(low) + S(one)
  <2>1. \A i \in 1..L : low[i] \in Int /\ one[i] \in Int /\ high[i] = low[i] + one[i]
    BY <1>1, <1>8
  <2>2. QED
    BY <1>2, <2>1, SumOfSums
<1>15. S(one) = W * L
  <2>1. W \in Int /\ \A i \in 1..L : one[i] = W
    BY <1>1, <1>8
  <2>2. S(one) = W * Cardinality(1..L)
    BY <1>2, <2>1, SumOfConstants
  <2>3. QED
    BY <1>2, <2>2
<1>16. S(low) <= S(exact)
  BY <1>2, <1>8, <1>9, SumIsMonotonic
<1>17. S(next) <= S(high)
  BY <1>2, <1>8, <1>9, <1>10, <1>11, SumIsMonotonic
<1>18. S(next) = S(exact) + S(unit)
  <2>1. \A i \in 1..L : exact[i] \in Int /\ unit[i] \in Int /\ next[i] = exact[i] + unit[i]
    BY <1>8, <1>10
  <2>2. QED
    BY <1>2, <2>1, SumOfSums
<1>19. S(unit) = 1 * L
  <2>1. 1 \in Int /\ \A i \in 1..L : unit[i] = 1
    BY <1>10
  <2>2. S(unit) = 1 * Cardinality(1..L)
    BY <1>2, <2>1, SumOfConstants
  <2>3. QED
    BY <1>2, <2>2
<1>20. L # 0
  BY <1>1, <1>2, SumOfNone
<1>21. PICK a : a = Total(f)
  OBVIOUS
<1>22. W * a <= t * W /\ t * W + L <= W * a + W * L /\ a \in Nat
  <2>1. S(f) = a /\ S(w) = W /\ a \in Nat
    BY <1>2, <1>7, <1>21
  <2>2. t * W \in Int /\ W * a \in Int /\ W * L \in Int /\ 1 * L = L
    BY <1>1, <2>1
  <2>3. S(exact) = t * W /\ S(low) = W * a
    BY <1>12, <1>13, <2>1
  <2> HIDE DEF S
  <2>4. QED
    BY <1>14, <1>15, <1>16, <1>17, <1>18, <1>19, <2>1, <2>2, <2>3
<1>23. a <= t
  <2>1. a * W <= t * W
    BY <1>1, <1>22
  <2>2. QED
    BY <1>1, <1>22, <2>1, FactorsCompare
<1>24. t < a + L
  <2>1. t * W < (a + L) * W
    <3>1. (a + L) * W = W * a + W * L /\ t * W \in Int /\ W * a + W * L \in Int
      BY <1>1, <1>22
    <3>2. QED
      BY <1>20, <1>22, <3>1
  <2>2. QED
    BY <1>1, <1>22, <2>1, FactorsCompare
<1>25. QED
  BY <1>3, <1>4, <1>5, <1>7, <1>21, <1>23, <1>24 DEF W, Lines

-----------------------------------------------------------------------------
(* The coins that rounding leaves *)

(* The coin goes to a line that has room for it.                           *)
LEMMA FirstHasRoom ==
  ASSUME NEW L \in Nat, NEW w \in Lines(L), NEW x \in Lines(L), Room(x, w) # {}
  PROVE  First(x, w) \in Room(x, w)
<1> DEFINE P == Room(x, w)
<1> DEFINE Precedes(i, j) == w[j] < w[i] \/ (w[j] = w[i] /\ i <= j)
<1>1. P \in SUBSET (1..L) /\ P \in SUBSET Int /\ \A i \in P : w[i] \in Int
  BY DEF Room, Lines
<1>2. IsFiniteSet(P)
  BY <1>1, FS_Interval, FS_Subset
<1> HIDE DEF P
<1>3. 1 \in 1..Cardinality(P)
  BY <1>2, FS_CardinalityType, FS_EmptySet DEF P
<1>4. PICK i \in P : Rank(P, w, i) = 1 - 1
  BY <1>1, <1>2, <1>3, EveryRankIsTaken
<1>5. Before(P, w, i) = {}
  <2>1. Before(P, w, i) \in SUBSET P
    BY DEF Before
  <2>2. IsFiniteSet(Before(P, w, i)) /\ Cardinality(Before(P, w, i)) = 0
    BY <1>2, <1>4, <2>1, FS_Subset DEF Before, Rank
  <2>3. QED
    BY <2>2, FS_EmptySet
<1>6. ASSUME NEW j \in P PROVE Precedes(i, j)
  <2>1. w[i] \in Int /\ w[j] \in Int /\ i \in Int /\ j \in Int
    BY <1>1
  <2>2. ~(w[j] > w[i] \/ (w[j] = w[i] /\ j < i))
    BY <1>5 DEF Before
  <2>3. QED
    BY <2>1, <2>2
<1>7. (CHOOSE k \in P : \A j \in P : Precedes(k, j)) \in P
  BY <1>6
<1>8. QED
  BY <1>7 DEF First, P

(* What a list of coins is on the way: between the rounded shares and the  *)
(* weights, as much in total as coins were given.                          *)
OnTheWay(t, w, L, n) ==
  {x \in Lines(L) : /\ \A i \in 1..L : Floors(t, w)[i] <= x[i] /\ x[i] <= w[i]
                    /\ Total(x) = Lesser(t, Total(Floors(t, w)) + n)}

(* One more coin.                                                          *)
LEMMA OneCoinIs ==
  ASSUME NEW L \in Nat, NEW w \in Lines(L), NEW t \in Nat, Total(w) \in Nat \ {0},
         t <= Total(w), NEW n \in Nat, NEW x \in OnTheWay(t, w, L, n)
  PROVE  OneCoin(x, w, t) \in OnTheWay(t, w, L, n + 1)
<1>1. PICK F : F = Floors(t, w)
  OBVIOUS
<1>2. F \in Lines(L) /\ Total(F) \in Nat
  BY <1>1, FloorsAre
<1>3. /\ x \in Lines(L) /\ Total(x) = Lesser(t, Total(F) + n)
      /\ \A i \in 1..L : F[i] <= x[i] /\ x[i] <= w[i]
  <2>1. /\ x \in Lines(L) /\ Total(x) = Lesser(t, Total(Floors(t, w)) + n)
        /\ \A i \in 1..L : Floors(t, w)[i] <= x[i] /\ x[i] <= w[i]
    BY DEF OnTheWay
  <2>2. QED
    BY <1>1, <2>1
<1>4. x \in [1..L -> Nat] /\ w \in [1..L -> Nat] /\ F \in [1..L -> Nat]
  BY <1>2, <1>3 DEF Lines
<1>5. CASE Total(x) = t
  <2>1. Total(x) = Lesser(t, Total(F) + (n + 1))
    BY <1>2, <1>3, <1>5 DEF Lesser
  <2>2. OneCoin(x, w, t) = x
    BY <1>5 DEF OneCoin
  <2>3. QED
    BY <1>1, <1>3, <2>1, <2>2 DEF OnTheWay
<1>6. CASE Total(x) # t
  <2>1. Total(x) < t /\ Total(x) = Total(F) + n /\ Total(x) \in Nat
    BY <1>2, <1>3, <1>6 DEF Lesser
  <2>2. Room(x, w) # {}
    <3>1. SUFFICES ASSUME Room(x, w) = {} PROVE FALSE
      OBVIOUS
    <3>2. ASSUME NEW i \in 1..L PROVE w[i] <= x[i]
      <4>1. w[i] \in Nat /\ x[i] \in Nat /\ i \in DOMAIN w
        BY <1>4
      <4>2. ~(x[i] < w[i])
        BY <3>1, <4>1 DEF Room
      <4>3. QED
        BY <4>1, <4>2
    <3>3. x \in [1..L -> Int] /\ w \in [1..L -> Int]
      BY <1>4
    <3>4. Total(w) <= Total(x)
      BY <3>2, <3>3, TotalIsMonotonic
    <3>5. QED
      BY <2>1, <3>4
  <2>3. PICK i : i = First(x, w)
    OBVIOUS
  <2>4. i \in 1..L /\ x[i] < w[i]
    BY <1>3, <1>4, <2>2, <2>3, FirstHasRoom DEF Room
  <2>5. PICK y : y = [x EXCEPT ![i] = @ + 1]
    OBVIOUS
  <2>6. OneCoin(x, w, t) = y
    BY <1>6, <2>3, <2>5 DEF OneCoin
  <2>7. Total(y) = Total(x) + 1
    <3>1. x \in [1..L -> Int]
      BY <1>4
    <3>2. QED
      BY <2>4, <2>5, <3>1, TotalOfOneMore
  <2>8. Total(y) = Lesser(t, Total(F) + (n + 1))
    BY <1>2, <2>1, <2>7 DEF Lesser
  <2>9. y \in Lines(L) /\ \A j \in 1..L : y[j] = IF j = i THEN x[i] + 1 ELSE x[j]
    <3>1. x[i] + 1 \in Nat
      BY <1>4, <2>4
    <3>2. \A j \in 1..L : y[j] = IF j = i THEN x[i] + 1 ELSE x[j]
      BY <1>4, <2>4, <2>5
    <3>3. y \in [1..L -> Nat]
      BY <1>4, <2>5, <3>1
    <3>4. QED
      BY <3>2, <3>3 DEF Lines
  <2>10. \A j \in 1..L : F[j] <= y[j] /\ y[j] <= w[j]
    <3> TAKE j \in 1..L
    <3>1. F[j] \in Nat /\ x[j] \in Nat /\ w[j] \in Nat /\ F[j] <= x[j] /\ x[j] <= w[j]
      BY <1>3, <1>4
    <3>2. QED
      BY <2>4, <2>9, <3>1
  <2>11. QED
    BY <1>1, <2>6, <2>8, <2>9, <2>10 DEF OnTheWay
<1>7. QED
  BY <1>5, <1>6

Unrolled(g, N, t, w) ==
  g = [n \in 0..N |-> IF n = 0 THEN Floors(t, w) ELSE OneCoin(g[n - 1], w, t)]

(* There is such a history of coins, for any number of them.               *)
LEMMA CoinsAreGiven ==
  ASSUME NEW N \in Nat, NEW t, NEW w
  PROVE  \E g : Unrolled(g, N, t, w)
<1> DEFINE S == {n \in 0..N : \E g : Unrolled(g, n, t, w)}
<1>1. 0 \in S
  <2>1. PICK g : g = [n \in 0..0 |-> Floors(t, w)]
    OBVIOUS
  <2>2. g = [n \in 0..0 |-> IF n = 0 THEN Floors(t, w) ELSE OneCoin(g[n - 1], w, t)]
    <3>1. \A n \in 0..0 : n = 0
      OBVIOUS
    <3>2. QED
      BY <2>1, <3>1
  <2>3. QED
    BY <2>2 DEF Unrolled
<1>2. ASSUME NEW n \in 0..N, n # N, n \in S PROVE n + 1 \in S
  <2>1. PICK g : Unrolled(g, n, t, w)
    BY <1>2
  <2>2. PICK h : h = [k \in 0..(n + 1) |-> IF k = n + 1 THEN OneCoin(g[n], w, t) ELSE g[k]]
    OBVIOUS
  <2> DEFINE want == [k \in 0..(n + 1) |-> IF k = 0 THEN Floors(t, w) ELSE OneCoin(h[k - 1], w, t)]
  <2>3. ASSUME NEW k \in 0..(n + 1) PROVE h[k] = want[k]
    <3>1. CASE k = n + 1
      <4>1. h[n] = g[n] /\ h[k] = OneCoin(g[n], w, t) /\ k - 1 = n /\ k # 0
        BY <2>2, <3>1
      <4>2. QED
        BY <4>1
    <3>2. CASE k = 0
      <4>1. h[k] = g[k] /\ k \in 0..n
        BY <2>2, <3>2
      <4>2. g[k] = Floors(t, w)
        BY <2>1, <3>2, <4>1 DEF Unrolled
      <4>3. QED
        BY <3>2, <4>1, <4>2
    <3>3. CASE k # n + 1 /\ k # 0
      <4>1. h[k] = g[k] /\ k \in 0..n /\ k - 1 \in 0..(n + 1) /\ k - 1 # n + 1 /\ h[k - 1] = g[k - 1]
        BY <2>2, <3>3
      <4>2. g[k] = OneCoin(g[k - 1], w, t)
        BY <2>1, <3>3, <4>1 DEF Unrolled
      <4>3. QED
        BY <3>3, <4>1, <4>2
    <3>4. QED
      BY <3>1, <3>2, <3>3
  <2>4. h = want
    <3>1. DOMAIN h = 0..(n + 1) /\ h = [k \in DOMAIN h |-> h[k]]
      BY <2>2
    <3>2. want = [k \in DOMAIN want |-> want[k]] /\ DOMAIN want = 0..(n + 1)
      OBVIOUS
    <3> HIDE DEF want
    <3>3. QED
      BY <2>3, <3>1, <3>2
  <2>5. Unrolled(h, n + 1, t, w)
    BY <2>4 DEF Unrolled
  <2>6. n + 1 \in 0..N
    BY <1>2
  <2>7. QED
    BY <2>5, <2>6
<1> HIDE DEF S
<1>3. N \in S
  BY <1>1, <1>2, CountingUp
<1>4. QED
  BY <1>3 DEF S

(* All of the coins are given out.                                         *)
LEMMA CoinsAre ==
  ASSUME NEW L \in Nat, NEW w \in Lines(L), NEW t \in Nat, Total(w) \in Nat \ {0},
         t <= Total(w)
  PROVE  Coins(t, w) \in OnTheWay(t, w, L, L)
<1> DEFINE g == CHOOSE g : Unrolled(g, L, t, w)
<1>1. Unrolled(g, L, t, w)
  BY CoinsAreGiven
<1>2. Len(w) = L
  BY SequenceOf DEF Lines
<1>3. Coins(t, w) = g[L]
  BY <1>2 DEF Coins, Unrolled
<1> HIDE DEF g
<1>4. g[0] = Floors(t, w) /\ \A n \in 0..L : n # L => g[n + 1] = OneCoin(g[n], w, t)
  <2>1. g[0] = Floors(t, w)
    BY <1>1 DEF Unrolled
  <2>2. ASSUME NEW n \in 0..L, n # L PROVE g[n + 1] = OneCoin(g[n], w, t)
    <3>1. n + 1 \in 0..L /\ n + 1 # 0 /\ (n + 1) - 1 = n
      BY <2>2
    <3>2. g[n + 1] = OneCoin(g[(n + 1) - 1], w, t)
      BY <1>1, <3>1 DEF Unrolled
    <3>3. QED
      BY <3>1, <3>2
  <2>3. QED
    BY <2>1, <2>2
<1> DEFINE S == {n \in 0..L : g[n] \in OnTheWay(t, w, L, n)}
<1>5. 0 \in S
  <2>1. PICK F : F = Floors(t, w)
    OBVIOUS
  <2>2. F \in Lines(L) /\ Total(F) \in Nat /\ Total(F) <= t /\ \A i \in 1..L : F[i] <= w[i]
    BY <2>1, FloorsAre
  <2>3. \A i \in 1..L : F[i] <= F[i]
    BY <2>2 DEF Lines
  <2>4. Total(F) = Lesser(t, Total(F) + 0)
    BY <2>2 DEF Lesser
  <2>5. F \in OnTheWay(t, w, L, 0)
    BY <2>1, <2>2, <2>3, <2>4 DEF OnTheWay
  <2>6. QED
    BY <1>4, <2>1, <2>5
<1>6. ASSUME NEW n \in 0..L, n # L, n \in S PROVE n + 1 \in S
  <2>1. g[n] \in OnTheWay(t, w, L, n) /\ n \in Nat
    BY <1>6
  <2>2. OneCoin(g[n], w, t) \in OnTheWay(t, w, L, n + 1)
    BY <2>1, OneCoinIs
  <2>3. n + 1 \in 0..L
    BY <1>6
  <2>4. QED
    BY <1>4, <1>6, <2>2, <2>3
<1> HIDE DEF S
<1>7. L \in S
  BY <1>5, <1>6, CountingUp
<1>8. QED
  BY <1>3, <1>7 DEF S

Zeros(L) == [i \in 1..L |-> 0]

(* Nothing on every line is nothing in total.                              *)
LEMMA ZerosAre ==
  ASSUME NEW L \in Nat
  PROVE  Zeros(L) \in Lines(L) /\ Zeros(L) \in Seq(Nat) /\ Total(Zeros(L)) = 0
<1>1. Zeros(L) \in [1..L -> Nat] /\ Zeros(L) \in [1..L -> Int] /\ \A i \in 1..L : Zeros(L)[i] = 0
  BY DEF Zeros
<1>2. Total(Zeros(L)) = SumFunctionOnSet(Zeros(L), 1..L) /\ IsFiniteSet(1..L) /\ Cardinality(1..L) = L
  BY <1>1, TotalIs
<1>3. 0 \in Int /\ 0 * L = 0
  OBVIOUS
<1>4. SumFunctionOnSet(Zeros(L), 1..L) = 0 * Cardinality(1..L)
  BY <1>1, <1>2, <1>3, SumOfConstants
<1>5. QED
  BY <1>1, <1>2, <1>3, <1>4, SequenceOf DEF Lines

(* Of every share a part of a coin was dropped, and of all coins less than *)
(* one a line was given back.                                              *)
LEMMA CoinsAreExact ==
  ASSUME NEW L \in Nat, NEW w \in Lines(L), NEW t \in Nat, Total(w) \in Nat \ {0},
         t <= Total(w), NEW s \in OnTheWay(t, w, L, L)
  PROVE  /\ s \in Lines(L) /\ Total(s) = t
         /\ \A i \in 1..L : /\ s[i] <= w[i] /\ s[i] * Total(w) > t * w[i] - Total(w)
                           /\ s[i] * Total(w) < t * w[i] + L * Total(w)
<1>1. PICK F, W : F = Floors(t, w) /\ W = Total(w)
  OBVIOUS
<1>2. /\ F \in Lines(L) /\ Total(F) \in Nat /\ Total(F) <= t /\ t < Total(F) + L
      /\ \A i \in 1..L : F[i] * W <= t * w[i] /\ t * w[i] < F[i] * W + W
  BY <1>1, FloorsAre
<1>3. /\ s \in Lines(L) /\ Total(s) = Lesser(t, Total(F) + L)
      /\ \A i \in 1..L : F[i] <= s[i] /\ s[i] <= w[i]
  <2>1. /\ s \in Lines(L) /\ Total(s) = Lesser(t, Total(Floors(t, w)) + L)
        /\ \A i \in 1..L : Floors(t, w)[i] <= s[i] /\ s[i] <= w[i]
    BY DEF OnTheWay
  <2>2. QED
    BY <1>1, <2>1
<1>4. Total(s) = t
  BY <1>2, <1>3 DEF Lesser
<1>5. F \in [1..L -> Int] /\ s \in [1..L -> Int] /\ w \in [1..L -> Int] /\ W \in Nat \ {0}
  BY <1>1, <1>2, <1>3 DEF Lines
<1>6. ASSUME NEW i \in 1..L PROVE s[i] - F[i] <= Total(s) - Total(F)
  <2> DEFINE given == [j \in 1..L |-> s[j] - F[j]]
  <2>1. \A j \in 1..L : given[j] \in Nat /\ F[j] \in Int /\ given[j] \in Int /\ s[j] = F[j] + given[j]
    <3> TAKE j \in 1..L
    <3>1. s[j] \in Int /\ F[j] \in Int /\ F[j] <= s[j]
      BY <1>3, <1>5
    <3>2. s[j] - F[j] \in Nat /\ s[j] = F[j] + (s[j] - F[j]) /\ given[j] = s[j] - F[j]
      BY <3>1
    <3> HIDE DEF given
    <3>3. QED
      BY <3>1, <3>2
  <2>2. given \in [1..L -> Nat] /\ given[i] = s[i] - F[i]
    BY <2>1
  <2>3. given \in [1..L -> Int]
    BY <2>1
  <2> HIDE DEF given
  <2>4. /\ Total(s) = SumFunctionOnSet(s, 1..L) /\ Total(F) = SumFunctionOnSet(F, 1..L)
        /\ Total(given) = SumFunctionOnSet(given, 1..L) /\ IsFiniteSet(1..L)
        /\ Total(F) \in Int /\ Total(given) \in Int
    BY <1>5, <2>3, TotalIs
  <2>5. SumFunctionOnSet(s, 1..L) = SumFunctionOnSet(F, 1..L) + SumFunctionOnSet(given, 1..L)
    BY <2>1, <2>4, SumOfSums
  <2>6. Total(s) = Total(F) + Total(given)
    BY <2>4, <2>5
  <2>7. given[i] <= Total(given)
    BY <2>2, PartOfTotal
  <2>8. QED
    BY <2>2, <2>4, <2>6, <2>7
<1>7. ASSUME NEW i \in 1..L
      PROVE  s[i] * W > t * w[i] - W /\ s[i] * W < t * w[i] + L * W
  <2>1. PICK a, b, x : a = F[i] /\ b = s[i] /\ x = t * w[i]
    OBVIOUS
  <2>2. a \in Int /\ b \in Int /\ x \in Int /\ a <= b
    BY <1>3, <1>5, <2>1
  <2>3. a * W <= x /\ x < a * W + W
    BY <1>2, <2>1
  <2>4. b - a <= L - 1
    <3>1. b - a <= t - Total(F)
      BY <1>4, <1>6, <2>1
    <3>2. QED
      BY <1>2, <2>2, <3>1
  <2>5. a * W <= b * W /\ b * W <= (a + (L - 1)) * W
    <3>1. b <= a + (L - 1) /\ a + (L - 1) \in Int
      BY <2>2, <2>4
    <3>2. QED
      BY <1>5, <2>2, <3>1, FactorsCompare
  <2>6. (a + (L - 1)) * W = a * W + L * W - W
    BY <1>5, <2>2
  <2>7. a * W \in Int /\ b * W \in Int /\ L * W \in Int
    BY <1>5, <2>2
  <2>8. b * W > x - W /\ b * W < x + L * W
    <3>1. PICK p, q, r : p = a * W /\ q = b * W /\ r = L * W
      OBVIOUS
    <3>2. /\ p \in Int /\ q \in Int /\ r \in Int
          /\ p <= x /\ x < p + W /\ p <= q /\ q <= p + r - W
      BY <2>3, <2>5, <2>6, <2>7, <3>1
    <3>3. q > x - W /\ q < x + r
      BY <1>5, <2>2, <3>2
    <3>4. QED
      BY <3>1, <3>3
  <2>9. QED
    BY <2>1, <2>8
<1>8. QED
  BY <1>1, <1>3, <1>4, <1>7

(* A total that is not below zero is shared out exactly.                   *)
LEMMA SpreadIs ==
  ASSUME NEW L \in Nat, NEW w \in Lines(L), NEW t \in Nat, NEW s, s = Spread(t, w)
  PROVE  /\ s \in Lines(L) /\ s \in Seq(Nat)
         /\ IsExactSpread(s, t, w)
         /\ Total(s) = Lesser(t, Total(w))
         /\ \A i \in 1..L : s[i] <= w[i]
<1>1. PICK W : W = Total(w)
  OBVIOUS
<1>2. /\ w \in [1..L -> Nat] /\ w \in [1..L -> Int] /\ DOMAIN w = 1..L /\ Len(w) = L
      /\ \A i \in 1..L : w[i] \in Nat
  BY SequenceOf DEF Lines
<1>3. W \in Nat
  BY <1>1, <1>2, TotalIsNat
<1>4. CASE W = 0 \/ t <= 0
  <2>1. s = Zeros(L)
    BY <1>1, <1>2, <1>4 DEF Spread, Zeros
  <2>2. s \in Lines(L) /\ s \in Seq(Nat) /\ Total(s) = 0
    BY <2>1, ZerosAre
  <2>3. Lesser(t, W) = 0
    BY <1>3, <1>4 DEF Lesser
  <2>4. \A i \in 1..L : s[i] = 0
    BY <2>1 DEF Zeros
  <2>5. ASSUME NEW i \in 1..L, w[i] > 0
        PROVE  /\ t <= W => 0 * W > t * w[i] - W
               /\ 0 * W < t * w[i] + L * W
    <3>1. W > 0
      <4>1. SUFFICES ASSUME W = 0 PROVE FALSE
        BY <1>3
      <4>2. w[i] <= Total(w)
        BY <1>2, PartOfTotal
      <4>3. QED
        BY <1>1, <1>2, <2>5, <4>1, <4>2
    <3>2. t = 0
      BY <1>3, <1>4, <3>1
    <3>3. L * W > 0
      <4>1. L > 0
        OBVIOUS
      <4>2. QED
        BY <1>3, <3>1, <4>1
    <3>4. t * w[i] = 0 /\ 0 * W = 0 /\ L * W \in Int
      BY <1>2, <1>3, <3>2
    <3>5. QED
      BY <1>3, <3>1, <3>3, <3>4
  <2>6. \A i \in 1..L : s[i] <= w[i]
    BY <1>2, <2>4
  <2>7. IsExactSpread(s, t, w)
    <3>1. Total(s) = Lesser(t, Total(w))
      BY <1>1, <2>2, <2>3
    <3>2. ASSUME NEW i \in DOMAIN w
          PROVE  /\ s[i] <= w[i]
                 /\ w[i] > 0 /\ t <= Total(w) => s[i] * Total(w) > t * w[i] - Total(w)
                 /\ w[i] > 0 => s[i] * Total(w) < t * w[i] + Len(w) * Total(w)
      <4>1. i \in 1..L
        BY <1>2
      <4>2. QED
        BY <1>1, <1>2, <2>4, <2>5, <2>6, <4>1
    <3>3. QED
      BY <3>1, <3>2 DEF IsExactSpread
  <2>8. QED
    BY <1>1, <2>2, <2>3, <2>6, <2>7
<1>5. CASE ~(W = 0 \/ t <= 0)
  <2>1. PICK u : u = Lesser(t, W)
    OBVIOUS
  <2>2. u \in Nat /\ u <= W /\ W \in Nat \ {0} /\ u <= t /\ (t <= W => u = t)
    BY <1>3, <1>5, <2>1 DEF Lesser
  <2>3. PICK c : c = Coins(u, w)
    OBVIOUS
  <2>4. c \in OnTheWay(u, w, L, L)
    BY <1>1, <2>2, <2>3, CoinsAre
  <2>5. /\ c \in Lines(L) /\ Total(c) = u
        /\ \A i \in 1..L : /\ c[i] <= w[i] /\ c[i] * W > u * w[i] - W
                          /\ c[i] * W < u * w[i] + L * W
    BY <1>1, <2>2, <2>4, CoinsAreExact
  <2>6. c \in Seq(Nat)
    BY <2>5, SequenceOf DEF Lines
  <2>7. s = c
    <3>1. s = Tuple(c)
      BY <1>1, <1>5, <2>1, <2>3 DEF Spread
    <3>2. QED
      BY <2>6, <3>1, TupleIs
  <2>8. \A i \in 1..L : c[i] * W < t * w[i] + L * W
    <3> TAKE i \in 1..L
    <3>1. PICK x, y, z : x = w[i] /\ y = c[i] * W /\ z = L * W
      OBVIOUS
    <3>2. x \in Nat /\ y < u * x + z
      BY <1>2, <2>5, <3>1
    <3>3. u * x <= t * x /\ u * x \in Int /\ t * x \in Int
      <4>1. x # 0 => u * x <= t * x
        BY <2>2, <3>2, FactorsCompare
      <4>2. x = 0 => u * x <= t * x
        BY <2>2
      <4>3. u * x \in Int /\ t * x \in Int
        BY <2>2, <3>2
      <4>4. QED
        BY <4>1, <4>2, <4>3
    <3>4. y \in Int /\ z \in Int
      <4>1. c[i] \in Int
        BY <2>5 DEF Lines
      <4>2. QED
        BY <1>3, <3>1, <4>1
    <3>5. y < t * x + z
      BY <3>2, <3>3, <3>4
    <3>6. QED
      BY <3>1, <3>5
  <2>9. IsExactSpread(s, t, w)
    <3>1. Total(s) = Lesser(t, Total(w))
      BY <1>1, <2>1, <2>5, <2>7
    <3>2. ASSUME NEW i \in DOMAIN w
          PROVE  /\ s[i] <= w[i]
                 /\ w[i] > 0 /\ t <= Total(w) => s[i] * Total(w) > t * w[i] - Total(w)
                 /\ w[i] > 0 => s[i] * Total(w) < t * w[i] + Len(w) * Total(w)
      <4>1. i \in 1..L
        BY <1>2
      <4>2. c[i] <= w[i] /\ c[i] * W > u * w[i] - W
        BY <2>5, <4>1
      <4>3. c[i] * W < t * w[i] + L * W
        BY <2>8, <4>1
      <4>4. t <= W => c[i] * W > t * w[i] - W
        BY <2>2, <4>2
      <4>5. QED
        BY <1>1, <1>2, <2>7, <4>2, <4>3, <4>4
    <3>3. QED
      BY <3>1, <3>2 DEF IsExactSpread
  <2>10. QED
    BY <1>1, <2>1, <2>5, <2>6, <2>7, <2>9
<1>6. QED
  BY <1>4, <1>5

-----------------------------------------------------------------------------
(* Rows, carts, and what a promotion gives on each line *)

(* A row of the table, and a line of a cart.                               *)
PromoRow == [id : PromoId, used : Nat,
             type : Type, unit : {"percent", "amount"}, value : Nat \ {0}, min : Nat, max : Nat,
             previous : Nat, products : SUBSET Product, categories : SUBSET Category,
             whole : BOOLEAN, start : Int, end : Int, active : BOOLEAN]
CartLine == [product : Product, qty : 1..100]
(* What the lines of a cart cost.                                          *)
CostOf(cart) == [i \in 1..Len(cart) |-> LineSubtotal(cart[i])]

(* What was filled in, with an id and the use counted so far.              *)
LEMMA RowIs ==
  ASSUME NEW id \in PromoId, NEW f \in Form, NEW used \in Nat
  PROVE  /\ Row(id, f, used) \in PromoRow
         /\ Row(id, f, used).id = id /\ Row(id, f, used).used = used
<1>1. f \in Fields
  BY FormsAreValid DEF IsValidForm
<1> DEFINE r == [id |-> id, used |-> used, type |-> f.type, unit |-> f.unit, value |-> f.value,
                 min |-> f.min, max |-> f.max, previous |-> f.previous,
                 products |-> f.products, categories |-> f.categories, whole |-> f.whole,
                 start |-> f.start, end |-> f.end, active |-> f.active]
<1>2. r \in PromoRow
  BY <1>1 DEF PromoRow, Fields
<1>3. DOMAIN f = {"type", "unit", "value", "min", "max", "previous", "products", "categories",
                  "whole", "start", "end", "active"}
  BY <1>1 DEF Fields
<1>4. Row(id, f, used) = r
  BY <1>3 DEF Row
<1>5. QED
  BY <1>2, <1>4

(* A line costs something.                                                 *)
LEMMA CostIs ==
  ASSUME NEW cart \in Seq(CartLine)
  PROVE  /\ CostOf(cart) \in Lines(Len(cart)) /\ Len(cart) \in Nat /\ DOMAIN cart = 1..Len(cart)
         /\ \A i \in 1..Len(cart) :
              /\ cart[i].product \in Product /\ cart[i].qty \in 1..100
              /\ CostOf(cart)[i] = LineSubtotal(cart[i])
              /\ LineSubtotal(cart[i]) = Menu[cart[i].product].price * cart[i].qty
              /\ LineSubtotal(cart[i]) \in Nat
<1>1. Len(cart) \in Nat /\ DOMAIN cart = 1..Len(cart)
  OBVIOUS
<1>2. ASSUME NEW i \in 1..Len(cart)
      PROVE  /\ cart[i].product \in Product /\ cart[i].qty \in 1..100
             /\ LineSubtotal(cart[i]) = Menu[cart[i].product].price * cart[i].qty
             /\ LineSubtotal(cart[i]) \in Nat
  <2>1. cart[i] \in CartLine
    OBVIOUS
  <2>2. cart[i].product \in Product /\ cart[i].qty \in 1..100
    BY <2>1 DEF CartLine
  <2>3. Menu[cart[i].product].price \in Nat
    BY <2>2, MenuIsPriced
  <2>4. \A a \in Nat, b \in 1..100 : a * b \in Nat
    OBVIOUS
  <2>5. QED
    BY <2>2, <2>3, <2>4 DEF LineSubtotal
<1>3. CostOf(cart) \in Lines(Len(cart))
  BY <1>2 DEF CostOf, Lines
<1>4. QED
  BY <1>1, <1>2, <1>3 DEF CostOf

(* A promotion takes its targets for what they cost.                       *)
LEMMA WeightsAre ==
  ASSUME NEW cart \in Seq(CartLine), NEW p
  PROVE  /\ Weights(p, cart) \in Lines(Len(cart))
         /\ \A i \in 1..Len(cart) : Weights(p, cart)[i] \in {0, LineSubtotal(cart[i])}
<1> DEFINE L == Len(cart)
<1> DEFINE w == [i \in 1..L |-> IF IsTarget(p, cart[i]) THEN LineSubtotal(cart[i]) ELSE 0]
<1>1. \A i \in 1..L : w[i] \in Nat /\ w[i] \in {0, LineSubtotal(cart[i])}
  BY CostIs
<1>2. w \in [1..L -> Nat] /\ L \in Nat
  BY <1>1, CostIs
<1>3. w \in Seq(Nat)
  BY <1>2, SequenceOf
<1>4. Weights(p, cart) = w
  <2>1. Weights(p, cart) = Tuple(w)
    BY CostIs DEF Weights
  <2>2. QED
    BY <1>3, <2>1, TupleIs
<1>5. QED
  BY <1>1, <1>2, <1>4 DEF Lines

(* A discount before it is shared is a whole number.                       *)
LEMMA DiscountIs ==
  ASSUME NEW p \in PromoRow, NEW amount \in Nat
  PROVE  DiscountByUnit(p, amount) \in Nat
<1>1. p.value \in Nat
  BY DEF PromoRow
<1>2. amount * p.value \in Nat
  BY <1>1
<1>3. (amount * p.value) \div 100 \in Nat
  BY <1>2, FloorOf
<1>4. QED
  BY <1>1, <1>3 DEF DiscountByUnit

(* A promotion takes no more off a line than it costs, and what it shares  *)
(* out it shares exactly.                                                  *)
LEMMA LineDiscountsAre ==
  ASSUME NEW cart \in Seq(CartLine), NEW p \in PromoRow, NEW d, d = LineDiscounts(p, cart)
  PROVE  /\ d \in Lines(Len(cart)) /\ Tuple(d) = d
         /\ \A i \in 1..Len(cart) : d[i] <= LineSubtotal(cart[i])
         /\ p.type \in {"percent", "loyalty"} =>
              IsExactSpread(d, DiscountByUnit(p, Total(Weights(p, cart))), Weights(p, cart))
<1> DEFINE L == Len(cart)
<1>1. L \in Nat /\ DOMAIN cart = 1..L /\ \A i \in 1..L : LineSubtotal(cart[i]) \in Nat
  BY CostIs
<1>2. PICK w : w = Weights(p, cart)
  OBVIOUS
<1>3. w \in Lines(L) /\ \A i \in 1..L : w[i] \in Nat /\ w[i] <= LineSubtotal(cart[i])
  <2>1. w \in Lines(L) /\ \A i \in 1..L : w[i] \in {0, LineSubtotal(cart[i])}
    BY <1>2, WeightsAre
  <2>2. QED
    BY <1>1, <2>1
<1>4. PICK t : t = DiscountByUnit(p, Total(w))
  OBVIOUS
<1>5. t \in Nat
  <2>1. Total(w) \in Nat
    BY <1>1, <1>3, TotalIsNat DEF Lines
  <2>2. QED
    BY <1>4, <2>1, DiscountIs
<1>6. PICK s : s = Spread(t, w)
  OBVIOUS
<1>7. s \in Lines(L) /\ IsExactSpread(s, t, w) /\ \A i \in 1..L : s[i] <= w[i]
  BY <1>1, <1>3, <1>5, <1>6, SpreadIs
<1>8. \A i \in 1..L : s[i] <= LineSubtotal(cart[i])
  <2> TAKE i \in 1..L
  <2>1. s[i] \in Nat /\ s[i] <= w[i] /\ w[i] \in Nat /\ w[i] <= LineSubtotal(cart[i])
        /\ LineSubtotal(cart[i]) \in Nat
    BY <1>1, <1>3, <1>7 DEF Lines
  <2>2. QED
    BY <2>1
<1>9. Nothing(cart) \in Lines(L) /\ \A i \in 1..L : Nothing(cart)[i] <= LineSubtotal(cart[i])
  BY <1>1 DEF Nothing, Lines
<1>10. PICK unit : unit = [i \in 1..L |-> IF w[i] = 0 THEN 0
                             ELSE (cart[i].qty \div 2) * Menu[cart[i].product].price]
  OBVIOUS
<1>11. unit \in Lines(L) /\ \A i \in 1..L : unit[i] <= LineSubtotal(cart[i])
  <2>1. ASSUME NEW i \in 1..L
        PROVE  unit[i] \in Nat /\ unit[i] <= LineSubtotal(cart[i])
    <3>1. PICK q, c : q = cart[i].qty /\ c = Menu[cart[i].product].price
      OBVIOUS
    <3>2. q \in 1..100 /\ c \in Nat \ {0} /\ LineSubtotal(cart[i]) = c * q
      BY <3>1, CostIs, MenuIsPriced
    <3>3. PICK h : h = q \div 2
      OBVIOUS
    <3>4. h \in Nat /\ h <= q
      BY <3>2, <3>3
    <3>5. h * c <= q * c /\ h * c \in Nat /\ q * c = c * q
      BY <3>2, <3>4, FactorsCompare
    <3>6. unit[i] = IF w[i] = 0 THEN 0 ELSE h * c
      BY <1>10, <3>1, <3>3
    <3>7. CASE w[i] = 0
      BY <1>1, <3>6, <3>7
    <3>8. CASE w[i] # 0
      BY <3>2, <3>5, <3>6, <3>8
    <3>9. QED
      BY <3>7, <3>8
  <2>2. unit \in [1..L -> Nat]
    BY <1>10, <2>1
  <2>3. QED
    BY <2>1, <2>2 DEF Lines
<1>12. PICK flat : flat = [i \in 1..L |-> Lesser(p.value * cart[i].qty, w[i])]
  OBVIOUS
<1>13. flat \in Lines(L) /\ \A i \in 1..L : flat[i] <= LineSubtotal(cart[i])
  <2>1. ASSUME NEW i \in 1..L
        PROVE  flat[i] \in Nat /\ flat[i] <= LineSubtotal(cart[i])
    <3>1. PICK x : x = p.value * cart[i].qty
      OBVIOUS
    <3>2. x \in Nat
      <4>1. p.value \in Nat /\ cart[i].qty \in 1..100
        BY CostIs DEF PromoRow
      <4>2. \A a \in Nat, b \in 1..100 : a * b \in Nat
        OBVIOUS
      <4>3. QED
        BY <3>1, <4>1, <4>2
    <3>3. flat[i] = Lesser(x, w[i])
      BY <1>12, <3>1
    <3>4. w[i] \in Nat /\ w[i] <= LineSubtotal(cart[i]) /\ LineSubtotal(cart[i]) \in Nat
      BY <1>1, <1>3
    <3>5. QED
      BY <3>2, <3>3, <3>4 DEF Lesser
  <2>2. flat \in [1..L -> Nat]
    BY <1>12, <2>1
  <2>3. QED
    BY <2>1, <2>2 DEF Lines
<1>14. d = CASE p.type = "bogo" -> unit
             [] p.type = "fixed_amount" -> flat
             [] p.type = "bundle" -> IF HasBundle(p, cart) THEN s ELSE Nothing(cart)
             [] p.type \in {"percent", "loyalty"} -> s
             [] OTHER -> Nothing(cart)
  BY <1>1, <1>2, <1>4, <1>6, <1>10, <1>12 DEF LineDiscounts
<1>15. d \in {unit, flat, s, Nothing(cart)} /\ (p.type \in {"percent", "loyalty"} => d = s)
  <2>1. p.type \in Type
    BY DEF PromoRow
  <2>2. QED
    BY <1>14, <2>1 DEF Type
<1>16. d \in Lines(L) /\ \A i \in 1..L : d[i] <= LineSubtotal(cart[i])
  BY <1>7, <1>8, <1>9, <1>11, <1>13, <1>15
<1>17. Tuple(d) = d
  <2>1. d \in Seq(Nat)
    BY <1>1, <1>16, SequenceOf DEF Lines
  <2>2. QED
    BY <2>1, TupleIs
<1>18. QED
  BY <1>2, <1>4, <1>7, <1>15, <1>16, <1>17

(* A product's own discount price takes no more off than the line costs.   *)
LEMMA BaselineIs ==
  ASSUME NEW cart \in Seq(CartLine), NEW base, base = Tuple(Baseline(cart))
  PROVE  /\ base \in Lines(Len(cart))
         /\ \A i \in 1..Len(cart) : base[i] <= LineSubtotal(cart[i])
<1> DEFINE L == Len(cart)
<1>1. L \in Nat /\ DOMAIN cart = 1..L
  BY CostIs
<1>2. PICK b : b = Baseline(cart)
  OBVIOUS
<1>3. ASSUME NEW i \in 1..L
      PROVE  b[i] \in Nat /\ b[i] <= LineSubtotal(cart[i])
  <2>1. PICK q, c, o : q = cart[i].qty /\ c = Menu[cart[i].product].price /\ o = Menu[cart[i].product].own
    OBVIOUS
  <2>2. q \in 1..100 /\ c \in Nat \ {0} /\ o \in Nat /\ LineSubtotal(cart[i]) = c * q
    BY <2>1, CostIs, MenuIsPriced
  <2>3. b[i] = IF o > 0 /\ o < c THEN (c - o) * q ELSE 0
    BY <1>1, <1>2, <2>1 DEF Baseline
  <2>4. CASE o > 0 /\ o < c
    <3>1. PICK e : e = c - o
      OBVIOUS
    <3>2. e \in Nat /\ e <= c /\ q \in Nat \ {0}
      BY <2>2, <2>4, <3>1
    <3>3. e * q \in Nat /\ e * q <= c * q
      BY <2>2, <3>2, FactorsCompare
    <3>4. QED
      BY <2>2, <2>3, <2>4, <3>1, <3>3
  <2>5. CASE ~(o > 0 /\ o < c)
    <3>1. b[i] = 0
      BY <2>3, <2>5
    <3>2. LineSubtotal(cart[i]) \in Nat
      BY CostIs
    <3>3. QED
      BY <3>1, <3>2
  <2>6. QED
    BY <2>4, <2>5
<1>4. b \in [1..L -> Nat]
  <2>1. DOMAIN b = 1..L /\ b = [i \in DOMAIN b |-> b[i]]
    BY <1>1, <1>2 DEF Baseline
  <2>2. QED
    BY <1>3, <2>1
<1>5. b \in Seq(Nat)
  BY <1>1, <1>4, SequenceOf
<1>6. base = b
  BY <1>2, <1>5, TupleIs
<1>7. QED
  BY <1>3, <1>4, <1>6 DEF Lines

-----------------------------------------------------------------------------
(* The candidates, and the order of what they gave *)

(* No two of a list have the same id.                                      *)
OneOfEach(list) == \A i, j \in DOMAIN list : list[i].id = list[j].id => i = j

(* The candidates are the promotions that run for the cart and give        *)
(* something, each once.                                                   *)
LEMMA CandidatesAre ==
  ASSUME NEW list \in Seq(PromoRow), OneOfEach(list), NEW cart, NEW n, NEW d,
         NEW cands, cands = Candidates(list, cart, n, d)
  PROVE  /\ cands \in Seq(PromoRow) /\ OneOfEach(cands)
         /\ \A c \in DOMAIN cands : \E i \in DOMAIN list :
              cands[c] = list[i] /\ IsEligible(list[i], Total(Subtotals(cart)), n, d)
         /\ \A i \in DOMAIN list : /\ IsEligible(list[i], Total(Subtotals(cart)), n, d)
                                   /\ Total(LineDiscounts(list[i], cart)) > 0
                                   => \E c \in DOMAIN cands : cands[c] = list[i]
<1> DEFINE Runs(i) == /\ IsEligible(list[i], Total(Subtotals(cart)), n, d)
                      /\ Total(LineDiscounts(list[i], cart)) > 0
<1> DEFINE P == {i \in DOMAIN list : Runs(i)}
<1>1. cands = Kept(list, P)
  BY DEF Candidates
<1>2. P \in SUBSET DOMAIN list /\ \A i \in P : Runs(i)
  OBVIOUS
<1> HIDE DEF P
<1>3. Picks(cands, list, P)
  BY <1>1, <1>2, KeptIs
<1>3a. PICK m \in Nat : \E f \in [1..m -> P] :
        /\ Len(cands) = m
        /\ \A k \in 1..m : cands[k] = list[f[k]]
        /\ \A j, k \in 1..m : f[j] = f[k] => j = k
        /\ \A c \in P : \E k \in 1..m : f[k] = c
  BY <1>3 DEF Picks
<1>4. PICK f \in [1..m -> P] :
        /\ Len(cands) = m
        /\ \A k \in 1..m : cands[k] = list[f[k]]
        /\ \A j, k \in 1..m : f[j] = f[k] => j = k
        /\ \A c \in P : \E k \in 1..m : f[k] = c
  BY <1>3a
<1>5. cands \in Seq(PromoRow)
  BY <1>1, <1>2, KeptIs
<1>6. DOMAIN cands = 1..m
  BY <1>4, <1>5
<1>7. OneOfEach(cands)
  BY <1>2, <1>4, <1>6 DEF OneOfEach
<1>8. ASSUME NEW c \in DOMAIN cands
      PROVE  \E i \in DOMAIN list :
              cands[c] = list[i] /\ IsEligible(list[i], Total(Subtotals(cart)), n, d)
  <2>1. f[c] \in P /\ cands[c] = list[f[c]]
    BY <1>4, <1>6
  <2>2. QED
    BY <1>2, <2>1
<1>9. ASSUME NEW i \in DOMAIN list, IsEligible(list[i], Total(Subtotals(cart)), n, d),
             Total(LineDiscounts(list[i], cart)) > 0
      PROVE  \E c \in DOMAIN cands : cands[c] = list[i]
  <2>1. i \in P
    BY <1>9 DEF P
  <2>2. PICK k \in 1..m : f[k] = i
    BY <1>4, <2>1
  <2>3. QED
    BY <1>4, <1>6, <2>2
<1>10. QED
  BY <1>5, <1>7, <1>8, <1>9

-----------------------------------------------------------------------------
(* The best offer for a line *)

(* The greatest of numbers with a bound is one of them.                    *)
LEMMA MaxIs ==
  ASSUME NEW B \in Nat, NEW S \in SUBSET (0..B), S # {}
  PROVE  Max(S) \in S /\ \A x \in S : x <= Max(S)
<1> DEFINE T == {n \in Nat : \E x \in S : n = B - x}
<1>1. T # {} /\ T \in SUBSET Nat
  <2>1. PICK x \in S : TRUE
    OBVIOUS
  <2>2. B - x \in Nat
    BY <2>1
  <2>3. QED
    BY <2>2
<1>2. PICK n \in T : \A m \in T : n <= m
  <2> HIDE DEF T
  <2>1. QED
    BY <1>1, SmallestOf
<1>3. PICK x \in S : n = B - x
  BY <1>2
<1>4. ASSUME NEW y \in S PROVE x >= y
  <2>1. B - y \in T /\ y \in 0..B /\ x \in 0..B
    OBVIOUS
  <2>2. B - x <= B - y
    BY <1>2, <1>3, <2>1
  <2>3. QED
    BY <2>1, <2>2
<1>5. Max(S) \in S /\ \A y \in S : Max(S) >= y
  BY <1>4 DEF Max
<1>6. QED
  BY <1>5

(* And so is the smallest.                                                 *)
LEMMA MinIs ==
  ASSUME NEW S \in SUBSET Nat, S # {}
  PROVE  Min(S) \in S
<1>1. PICK n \in S : \A m \in S : n <= m
  BY SmallestOf
<1>2. QED
  BY <1>1 DEF Min

(* What lines cost, what they save at their own prices and by each of the  *)
(* promotions.                                                             *)
Offers(L, C, cost, base, offer) ==
  /\ L \in Nat /\ C \in Nat /\ cost \in Lines(L) /\ base \in Lines(L)
  /\ offer \in [1..C -> Lines(L)]
  /\ \A i \in 1..L : base[i] <= cost[i] /\ \A c \in 1..C : offer[c][i] <= cost[i]

(* The best offer is one that was made, and the winner made it.            *)
LEMMA WinnerIs ==
  ASSUME NEW L, NEW C, NEW cost, NEW base, NEW offer, Offers(L, C, cost, base, offer),
         NEW i \in 1..L, NEW best, best = Best(base, offer, i),
         NEW winner, winner = Winner(base, offer, i)
  PROVE  /\ best \in Nat /\ best <= cost[i] /\ base[i] <= best
         /\ \A c \in 1..C : offer[c][i] <= best
         /\ winner \in 0..C
         /\ winner = 0 => best = base[i]
         /\ winner # 0 => best = offer[winner][i] /\ best > base[i]
<1>1. /\ cost[i] \in Nat /\ base[i] \in Nat /\ base[i] <= cost[i] /\ DOMAIN offer = 1..C
      /\ C \in Nat
      /\ \A c \in 1..C : offer[c][i] \in Nat /\ offer[c][i] <= cost[i]
  BY DEF Offers, Lines
<1> DEFINE S == {base[i]} \cup {offer[c][i] : c \in DOMAIN offer}
<1>2. S \in SUBSET (0..cost[i]) /\ S # {} /\ base[i] \in S /\ \A c \in 1..C : offer[c][i] \in S
  <2>1. base[i] \in 0..cost[i]
    BY <1>1
  <2>2. \A c \in 1..C : offer[c][i] \in 0..cost[i]
    BY <1>1
  <2>3. QED
    BY <1>1, <2>1, <2>2
<1>3. best = Max(S)
  BY DEF Best
<1>4. \A x \in S : x = base[i] \/ \E c \in 1..C : x = offer[c][i]
  BY <1>1
<1> HIDE DEF S
<1>5. best \in S /\ \A x \in S : x <= best
  BY <1>1, <1>2, <1>3, MaxIs
<1>6. best \in Nat /\ best <= cost[i] /\ base[i] <= best /\ \A c \in 1..C : offer[c][i] <= best
  BY <1>1, <1>2, <1>5
<1>7. CASE best = base[i]
  <2>1. winner = 0
    BY <1>7 DEF Winner
  <2>2. QED
    BY <1>1, <1>6, <1>7, <2>1
<1>8. CASE best # base[i]
  <2> DEFINE T == {c \in DOMAIN offer : offer[c][i] = best}
  <2>1. winner = Min(T)
    BY <1>8 DEF Winner
  <2>2. T \in SUBSET Nat /\ T # {} /\ \A c \in T : c \in 1..C /\ offer[c][i] = best
    BY <1>1, <1>4, <1>5, <1>8
  <2> HIDE DEF T
  <2>3. winner \in T
    BY <2>1, <2>2, MinIs
  <2>4. winner \in 1..C /\ offer[winner][i] = best
    BY <2>2, <2>3
  <2>5. QED
    BY <1>1, <1>6, <1>8, <2>4
<1>9. QED
  BY <1>7, <1>8

(* A promotion over its limit gives the limit, one without gives all.      *)
LEMMA ScaledIs ==
  ASSUME NEW L \in Nat, NEW limit \in Nat, NEW wins \in Lines(L),
         NEW s, s = Scaled(limit, wins)
  PROVE  /\ s \in Lines(L) /\ Total(s) \in Nat /\ \A i \in 1..L : s[i] <= wins[i]
         /\ limit > 0 => Total(s) <= limit
         /\ limit = 0 => s = wins
<1>1. Total(wins) \in Nat
  BY TotalIsNat DEF Lines
<1>2. CASE limit > 0 /\ Total(wins) > limit
  <2>1. s = Spread(limit, wins)
    BY <1>2 DEF Scaled
  <2>2. s \in Lines(L) /\ Total(s) = Lesser(limit, Total(wins)) /\ \A i \in 1..L : s[i] <= wins[i]
    BY <2>1, SpreadIs
  <2>3. Total(s) = limit
    BY <1>1, <1>2, <2>2 DEF Lesser
  <2>4. QED
    BY <1>2, <2>2, <2>3
<1>3. CASE ~(limit > 0 /\ Total(wins) > limit)
  <2>1. s = wins
    BY <1>3 DEF Scaled
  <2>2. \A i \in 1..L : s[i] <= wins[i]
    BY <2>1 DEF Lines
  <2>3. QED
    BY <1>1, <1>3, <2>1, <2>2
<1>4. QED
  BY <1>2, <1>3

(* What was applied: every line saves at least by its own price and at     *)
(* most what it costs, and more than by its own price only by the promotion*)
(* it went to; a promotion that has a limit keeps it; without any limit a  *)
(* line saves the best that was offered.                                   *)
Applied(r, L, C, cost, base, offer, cands) ==
  /\ r.lines \in Lines(L) /\ r.won \in [1..L -> 0..C] /\ r.cands = cands
  /\ \A i \in 1..L : /\ base[i] <= r.lines[i] /\ r.lines[i] <= cost[i]
                     /\ r.won[i] = 0 => r.lines[i] = base[i]
                     /\ r.won[i] # 0 => r.lines[i] > base[i]
                     /\ (\A c \in 1..C : cands[c].max = 0) => r.lines[i] = Best(base, offer, i)
  /\ \A c \in 1..C : /\ Gave(r, c) \in Nat
                     /\ cands[c].max > 0 => Gave(r, c) <= cands[c].max

(* Lines settle for what is better, their promotion or their own price.    *)
LEMMA CompeteIs ==
  ASSUME NEW L, NEW C, NEW cost, NEW base, NEW offer, Offers(L, C, cost, base, offer),
         NEW cands \in Seq(PromoRow), Len(cands) = C
  PROVE  Applied(Compete(base, cands, offer), L, C, cost, base, offer, cands)
<1>1. /\ L \in Nat /\ C \in Nat /\ base \in [1..L -> Nat] /\ cost \in [1..L -> Nat]
      /\ DOMAIN base = 1..L /\ DOMAIN cands = 1..C
      /\ \A c \in 1..C : cands[c].max \in Nat
  <2>1. /\ L \in Nat /\ C \in Nat /\ base \in [1..L -> Nat] /\ cost \in [1..L -> Nat]
    BY DEF Offers, Lines
  <2>2. DOMAIN cands = 1..C /\ \A c \in 1..C : cands[c] \in PromoRow
    OBVIOUS
  <2>3. \A c \in 1..C : cands[c].max \in Nat
    BY <2>2 DEF PromoRow
  <2>4. QED
    BY <2>1, <2>2, <2>3
<1>2. PICK best : best = [i \in 1..L |-> Best(base, offer, i)]
  OBVIOUS
<1>3. PICK winner : winner = [i \in 1..L |-> Winner(base, offer, i)]
  OBVIOUS
<1>4. \A i \in 1..L : /\ best[i] \in Nat /\ best[i] <= cost[i] /\ base[i] <= best[i]
                      /\ winner[i] \in 0..C
                      /\ winner[i] = 0 => best[i] = base[i]
                      /\ winner[i] # 0 => best[i] > base[i]
  BY <1>2, <1>3, WinnerIs
<1>5. winner \in [1..L -> 0..C]
  BY <1>3, <1>4
<1>6. Tuple([i \in DOMAIN base |-> Winner(base, offer, i)]) = winner
  <2>1. winner \in Seq(0..C)
    BY <1>1, <1>5, SequenceOf
  <2>2. QED
    BY <1>1, <1>3, <2>1, TupleIs
<1>7. ASSUME NEW c \in 1..C
      PROVE  /\ Wins(base, offer, winner, c) \in Lines(L)
             /\ \A i \in 1..L : Wins(base, offer, winner, c)[i] =
                                  IF winner[i] = c THEN best[i] ELSE 0
  <2>1. PICK w : w = [i \in 1..L |-> IF winner[i] = c THEN best[i] ELSE 0]
    OBVIOUS
  <2>2. w \in [1..L -> Nat]
    BY <1>4, <2>1
  <2>3. w \in Seq(Nat)
    BY <1>1, <2>2, SequenceOf
  <2>4. w = [i \in DOMAIN base |-> IF winner[i] = c THEN Best(base, offer, i) ELSE 0]
    BY <1>1, <1>2, <2>1
  <2>5. Wins(base, offer, winner, c) = w
    BY <2>3, <2>4, TupleIs DEF Wins
  <2>6. QED
    BY <2>1, <2>2, <2>5 DEF Lines
<1>8. PICK scaled : scaled = [c \in 1..C |-> Scaled(cands[c].max, Wins(base, offer, winner, c))]
  OBVIOUS
<1>9. ASSUME NEW c \in 1..C
      PROVE  /\ scaled[c] \in Lines(L) /\ Total(scaled[c]) \in Nat
             /\ \A i \in 1..L : /\ scaled[c][i] \in Nat
                                /\ winner[i] = c => scaled[c][i] <= best[i]
             /\ cands[c].max > 0 => Total(scaled[c]) <= cands[c].max
             /\ cands[c].max = 0 => \A i \in 1..L : winner[i] = c => scaled[c][i] = best[i]
  <2>1. PICK w : w = Wins(base, offer, winner, c)
    OBVIOUS
  <2>2. w \in Lines(L) /\ \A i \in 1..L : w[i] = IF winner[i] = c THEN best[i] ELSE 0
    BY <1>7, <2>1
  <2>3. scaled[c] = Scaled(cands[c].max, w)
    BY <1>8, <2>1
  <2>4. cands[c].max \in Nat
    BY <1>1
  <2>5. /\ scaled[c] \in Lines(L) /\ Total(scaled[c]) \in Nat
        /\ \A i \in 1..L : scaled[c][i] <= w[i]
        /\ cands[c].max > 0 => Total(scaled[c]) <= cands[c].max
        /\ cands[c].max = 0 => scaled[c] = w
    BY <1>1, <2>2, <2>3, <2>4, ScaledIs
  <2>6. \A i \in 1..L : scaled[c][i] \in Nat
    BY <2>5 DEF Lines
  <2>7. \A i \in 1..L : winner[i] = c => w[i] = best[i]
    BY <2>2
  <2>8. QED
    BY <2>5, <2>6, <2>7
<1>10. Tuple([c \in DOMAIN cands |-> Scaled(cands[c].max, Wins(base, offer, winner, c))]) = scaled
  <2>1. scaled \in [1..C -> Lines(L)]
    BY <1>8, <1>9
  <2>2. scaled \in Seq(Lines(L))
    BY <1>1, <2>1, SequenceOf
  <2>3. QED
    BY <1>1, <1>8, <2>2, TupleIs
<1> DEFINE Stays(i) == winner[i] # 0 /\ scaled[winner[i]][i] > base[i]
<1>11. PICK lines : lines = [i \in 1..L |-> IF Stays(i) THEN scaled[winner[i]][i] ELSE base[i]]
  OBVIOUS
<1>12. PICK won : won = [i \in 1..L |-> IF Stays(i) THEN winner[i] ELSE 0]
  OBVIOUS
<1>13. ASSUME NEW i \in 1..L
       PROVE  /\ lines[i] \in Nat /\ base[i] <= lines[i] /\ lines[i] <= cost[i]
              /\ won[i] \in 0..C
              /\ won[i] = 0 => lines[i] = base[i]
              /\ won[i] # 0 => lines[i] > base[i] /\ lines[i] = scaled[won[i]][i]
              /\ (\A c \in 1..C : cands[c].max = 0) => lines[i] = best[i]
  <2>1. /\ base[i] \in Nat /\ best[i] \in Nat /\ best[i] <= cost[i] /\ base[i] <= best[i]
        /\ cost[i] \in Nat /\ winner[i] \in 0..C
    BY <1>1, <1>4
  <2>2. CASE Stays(i)
    <3>1. winner[i] \in 1..C
      BY <2>1, <2>2
    <3>2. scaled[winner[i]][i] \in Nat /\ scaled[winner[i]][i] <= best[i]
      BY <1>9, <3>1
    <3>3. (\A c \in 1..C : cands[c].max = 0) => scaled[winner[i]][i] = best[i]
      BY <1>9, <3>1
    <3>4. lines[i] = scaled[winner[i]][i] /\ won[i] = winner[i]
      BY <1>11, <1>12, <2>2
    <3>5. QED
      BY <2>1, <2>2, <3>1, <3>2, <3>3, <3>4
  <2>3. CASE ~Stays(i)
    <3>1. lines[i] = base[i] /\ won[i] = 0
      BY <1>11, <1>12, <2>3
    <3>2. ASSUME \A c \in 1..C : cands[c].max = 0, winner[i] # 0 PROVE FALSE
      <4>1. winner[i] \in 1..C
        BY <2>1, <3>2
      <4>2. scaled[winner[i]][i] = best[i] /\ best[i] > base[i]
        BY <1>4, <1>9, <3>2, <4>1
      <4>3. QED
        BY <2>3, <3>2, <4>2
    <3>3. (\A c \in 1..C : cands[c].max = 0) => best[i] = base[i]
      BY <1>4, <3>2
    <3>4. QED
      BY <1>1, <2>1, <3>1, <3>3
  <2>4. QED
    BY <2>2, <2>3
<1> HIDE DEF Stays
<1>14. lines \in [1..L -> Nat] /\ won \in [1..L -> 0..C]
  BY <1>11, <1>12, <1>13
<1>15. PICK r : r = Compete(base, cands, offer)
  OBVIOUS
<1>16. r.lines = lines /\ r.won = won /\ r.cands = cands
  <2>1. r = Settle(base, cands, winner, scaled)
    BY <1>6, <1>10, <1>15 DEF Compete, Award
  <2>2. lines \in Seq(Nat) /\ won \in Seq(0..C)
    BY <1>1, <1>14, SequenceOf
  <2>3. Tuple(lines) = lines /\ Tuple(won) = won
    BY <2>2, TupleIs
  <2>4. r = [lines |-> Tuple(lines), won |-> Tuple(won), cands |-> cands]
    BY <1>1, <1>11, <1>12, <2>1 DEF Settle, Stays
  <2>5. QED
    BY <2>3, <2>4
<1>17. ASSUME NEW c \in 1..C
       PROVE  Gave(r, c) \in Nat /\ (cands[c].max > 0 => Gave(r, c) <= cands[c].max)
  <2>1. PICK part : part = [i \in 1..L |-> IF won[i] = c THEN lines[i] ELSE 0]
    OBVIOUS
  <2>2. \A i \in 1..L : /\ part[i] \in Nat /\ scaled[c][i] \in Nat /\ part[i] <= scaled[c][i]
    <3> TAKE i \in 1..L
    <3>1. scaled[c][i] \in Nat /\ lines[i] \in Nat
      BY <1>9, <1>13
    <3>2. CASE won[i] = c
      <4>1. lines[i] = scaled[c][i] /\ part[i] = lines[i]
        BY <1>13, <2>1, <3>2
      <4>2. QED
        BY <3>1, <4>1
    <3>3. CASE won[i] # c
      BY <2>1, <3>1, <3>3
    <3>4. QED
      BY <3>2, <3>3
  <2>3. part \in [1..L -> Nat]
    BY <2>1, <2>2
  <2>4. part \in [1..L -> Int] /\ scaled[c] \in [1..L -> Int]
    <3>1. scaled[c] \in [1..L -> Nat]
      BY <1>9 DEF Lines
    <3>2. QED
      BY <2>3, <3>1
  <2>5. Total(part) \in Nat /\ Total(part) <= Total(scaled[c])
    BY <1>1, <2>2, <2>3, <2>4, TotalIsNat, TotalIsMonotonic
  <2>6. Gave(r, c) = Total(part)
    <3>1. DOMAIN lines = 1..L
      BY <1>14
    <3>2. QED
      BY <1>16, <2>1, <3>1 DEF Gave
  <2>7. cands[c].max \in Nat /\ Total(scaled[c]) \in Nat
        /\ (cands[c].max > 0 => Total(scaled[c]) <= cands[c].max)
    BY <1>1, <1>9
  <2>8. QED
    BY <2>5, <2>6, <2>7
<1>18. ASSUME NEW i \in 1..L
       PROVE  /\ base[i] <= r.lines[i] /\ r.lines[i] <= cost[i]
              /\ r.won[i] = 0 => r.lines[i] = base[i]
              /\ r.won[i] # 0 => r.lines[i] > base[i]
              /\ (\A c \in 1..C : cands[c].max = 0) => r.lines[i] = Best(base, offer, i)
  BY <1>2, <1>13, <1>16
<1>19. QED
  BY <1>14, <1>15, <1>16, <1>17, <1>18 DEF Applied, Lines

-----------------------------------------------------------------------------
(* What a promotion gave in all: sums by promotion and sums by line *)

Image(order, s) == {order[k] : k \in s}

(* One more term in both orders.                                           *)
LEMMA OneMoreTerm ==
  ASSUME NEW D, IsFiniteSet(D), NEW P, NEW order \in [D -> P], NEW g, \A c \in P : g[c] \in Int,
         \A j, k \in D : order[j] = order[k] => j = k,
         NEW a, \A k \in D : a[k] = g[order[k]],
         NEW s \in SUBSET D, IsFiniteSet(Image(order, s)), Sum(a, s) = Sum(g, Image(order, s)),
         NEW x \in D \ s
  PROVE  /\ IsFiniteSet(Image(order, s \cup {x}))
         /\ Sum(a, s \cup {x}) = Sum(g, Image(order, s \cup {x}))
<1>1. PICK I : I = Image(order, s)
  OBVIOUS
<1>2. Image(order, s \cup {x}) = I \cup {order[x]}
  BY <1>1 DEF Image
<1>3. order[x] \notin I /\ I \subseteq P /\ order[x] \in P
  BY <1>1 DEF Image
<1>4. IsFiniteSet(I) /\ IsFiniteSet(I \cup {order[x]}) /\ Sum(a, s) = Sum(g, I)
  BY <1>1, FS_AddElement
<1>5. Sum(g, I \cup {order[x]}) = Sum(g, I) + g[order[x]]
  <2>1. \A c \in I \cup {order[x]} : g[c] \in Int
    BY <1>3
  <2>2. QED
    BY <1>3, <1>4, <2>1, SumOfOneMore DEF Sum
<1>6. Sum(a, s \cup {x}) = Sum(a, s) + a[x]
  <2>1. \A k \in s \cup {x} : a[k] \in Int
    <3>1. \A k \in D : order[k] \in P /\ a[k] = g[order[k]]
      OBVIOUS
    <3>2. QED
      BY <3>1
  <2>2. IsFiniteSet(s) /\ x \notin s
    BY FS_Subset
  <2>3. QED
    BY <2>1, <2>2, SumOfOneMore DEF Sum
<1>7. a[x] = g[order[x]]
  OBVIOUS
<1>8. QED
  BY <1>2, <1>4, <1>5, <1>6, <1>7

(* Terms may be added in another order.                                    *)
LEMMA SumReordered ==
  ASSUME NEW D, IsFiniteSet(D), NEW P, NEW order \in [D -> P], NEW g, \A c \in P : g[c] \in Int,
         \A j, k \in D : order[j] = order[k] => j = k,
         \A c \in P : \E k \in D : order[k] = c,
         NEW a, \A k \in D : a[k] = g[order[k]]
  PROVE  SumFunctionOnSet(a, D) = SumFunctionOnSet(g, P)
<1> DEFINE Good == {s \in SUBSET D : /\ IsFiniteSet(Image(order, s))
                                     /\ Sum(a, s) = Sum(g, Image(order, s))}
<1>1. {} \in Good
  <2>1. Image(order, {}) = {}
    BY DEF Image
  <2>2. QED
    BY <2>1, SumOfNone, FS_EmptySet DEF Sum
<1>2. ASSUME NEW s \in SUBSET D, s \in Good, NEW x \in D \ s PROVE s \cup {x} \in Good
  <2>1. IsFiniteSet(Image(order, s)) /\ Sum(a, s) = Sum(g, Image(order, s))
    BY <1>2
  <2>2. s \cup {x} \in SUBSET D
    OBVIOUS
  <2>3. /\ IsFiniteSet(Image(order, s \cup {x}))
        /\ Sum(a, s \cup {x}) = Sum(g, Image(order, s \cup {x}))
    <3> HIDE DEF Good
    <3>1. QED
      BY <2>1, OneMoreTerm
  <2>4. QED
    BY <2>2, <2>3
<1> HIDE DEF Good
<1>3. D \in Good
  BY <1>1, <1>2, AddingUp
<1>4. Image(order, D) = P
  BY DEF Image
<1>5. QED
  BY <1>3, <1>4 DEF Good, Sum

(* Terms that are nothing may be left out.                                 *)
LEMMA SumOfSome ==
  ASSUME NEW S, IsFiniteSet(S), NEW P \in SUBSET S, NEW g, \A c \in S : g[c] \in Int,
         \A c \in S \ P : g[c] = 0
  PROVE  SumFunctionOnSet(g, S) = SumFunctionOnSet(g, P)
<1> DEFINE Good == {t \in SUBSET (S \ P) : Sum(g, P \cup t) = Sum(g, P)}
<1>1. {} \in Good
  <2>1. P \cup {} = P
    OBVIOUS
  <2>2. QED
    BY <2>1
<1>2. ASSUME NEW t \in SUBSET (S \ P), t \in Good, NEW x \in (S \ P) \ t PROVE t \cup {x} \in Good
  <2>1. PICK U : U = P \cup t
    OBVIOUS
  <2>2. U \in SUBSET S /\ x \notin U /\ P \cup (t \cup {x}) = U \cup {x} /\ x \in S
    BY <2>1
  <2>3. IsFiniteSet(U)
    BY <2>2, FS_Subset
  <2>4. Sum(g, U \cup {x}) = Sum(g, U) + g[x]
    <3>1. \A c \in U \cup {x} : g[c] \in Int
      BY <2>2
    <3>2. QED
      BY <2>2, <2>3, <3>1, SumOfOneMore DEF Sum
  <2>5. Sum(g, U) = Sum(g, P) /\ g[x] = 0
    BY <1>2, <2>1
  <2>6. Sum(g, U) \in Int
    <3>1. \A c \in U : g[c] \in Int
      BY <2>2
    <3>2. QED
      BY <2>3, <3>1, SumIsInt DEF Sum
  <2>7. Sum(g, P \cup (t \cup {x})) = Sum(g, P)
    <3>1. Sum(g, U \cup {x}) = Sum(g, U)
      BY <2>4, <2>5, <2>6
    <3>2. P \cup (t \cup {x}) = U \cup {x}
      BY <2>2
    <3>3. QED
      BY <2>5, <3>1, <3>2
  <2>8. QED
    BY <2>7
<1>3. IsFiniteSet(S \ P)
  BY FS_Subset
<1> HIDE DEF Good
<1>4. S \ P \in Good
  BY <1>1, <1>2, <1>3, AddingUp
<1>5. P \cup (S \ P) = S
  OBVIOUS
<1>6. QED
  BY <1>4, <1>5 DEF Good, Sum

(* What the lines save that these promotions won.                          *)
WonBy(r, L, s) == [i \in 1..L |-> IF r.won[i] \in s THEN r.lines[i] ELSE 0]

(* What one more candidate wins adds to what the others won.               *)
LEMMA WonByAdds ==
  ASSUME NEW L \in Nat, NEW r, r.lines \in [1..L -> Nat], NEW s, NEW x, x \notin s
  PROVE  /\ Total(WonBy(r, L, s \cup {x})) = Total(WonBy(r, L, s)) + Total(WonBy(r, L, {x}))
         /\ Total(WonBy(r, L, s)) \in Nat
<1>1. PICK u, v, w : u = WonBy(r, L, s) /\ v = WonBy(r, L, {x}) /\ w = WonBy(r, L, s \cup {x})
  OBVIOUS
<1>2. \A i \in 1..L : u[i] \in Int /\ v[i] \in Int /\ w[i] = u[i] + v[i]
  <2> TAKE i \in 1..L
  <2>1. PICK n, k : n = r.lines[i] /\ k = r.won[i]
    OBVIOUS
  <2>2. n \in Nat
    BY <2>1
  <2>3. /\ u[i] = IF k \in s THEN n ELSE 0
        /\ v[i] = IF k = x THEN n ELSE 0
        /\ w[i] = IF k \in s \cup {x} THEN n ELSE 0
    BY <1>1, <2>1 DEF WonBy
  <2>4. QED
    BY <2>2, <2>3
<1>3. /\ u \in [1..L -> Nat] /\ u \in [1..L -> Int]
      /\ v \in [1..L -> Int] /\ w \in [1..L -> Int]
  BY <1>1 DEF WonBy
<1>4. /\ Total(u) = SumFunctionOnSet(u, 1..L) /\ Total(v) = SumFunctionOnSet(v, 1..L)
      /\ Total(w) = SumFunctionOnSet(w, 1..L) /\ IsFiniteSet(1..L)
  BY <1>3, TotalIs
<1>5. SumFunctionOnSet(w, 1..L) = SumFunctionOnSet(u, 1..L) + SumFunctionOnSet(v, 1..L)
  <2>1. PICK D : D = 1..L
    OBVIOUS
  <2>2. IsFiniteSet(D) /\ \A i \in D : u[i] \in Int /\ v[i] \in Int /\ w[i] = u[i] + v[i]
    BY <1>2, <1>4, <2>1
  <2>3. SumFunctionOnSet(w, D) = SumFunctionOnSet(u, D) + SumFunctionOnSet(v, D)
    BY <2>2, SumOfSums
  <2>4. QED
    BY <2>1, <2>3
<1>6. Total(w) = Total(u) + Total(v)
  BY <1>4, <1>5
<1>7. Total(u) \in Nat
  BY <1>3, TotalIsNat
<1>8. QED
  BY <1>1, <1>6, <1>7

(* What some promotions gave together is what the lines they won save.     *)
LEMMA GivenTogether ==
  ASSUME NEW L \in Nat, NEW D, IsFiniteSet(D), NEW r, r.lines \in [1..L -> Nat],
         NEW g, \A c \in D : g[c] = Gave(r, c)
  PROVE  /\ \A c \in D : g[c] \in Nat
         /\ SumFunctionOnSet(g, D) = Total(WonBy(r, L, D))
<1>1. ASSUME NEW c \in D PROVE g[c] = Total(WonBy(r, L, {c})) /\ g[c] \in Nat
  <2>1. WonBy(r, L, {c}) = [i \in DOMAIN r.lines |-> IF r.won[i] = c THEN r.lines[i] ELSE 0]
    BY DEF WonBy
  <2>2. WonBy(r, L, {c}) \in [1..L -> Nat]
    BY DEF WonBy
  <2>3. Total(WonBy(r, L, {c})) \in Nat
    BY <2>2, TotalIsNat
  <2>4. QED
    BY <2>1, <2>3 DEF Gave
<1>2. \A c \in D : g[c] \in Nat /\ g[c] \in Int
  <2>1. ASSUME NEW c \in D PROVE g[c] \in Nat /\ g[c] \in Int
    <3>1. g[c] \in Nat
      BY <1>1
    <3>2. QED
      BY <3>1
  <2>2. QED
    BY <2>1
<1> DEFINE Good == {s \in SUBSET D : Sum(g, s) = Total(WonBy(r, L, s))}
<1>3. {} \in Good
  <2>1. WonBy(r, L, {}) = Zeros(L)
    BY DEF Zeros, WonBy
  <2>2. Total(Zeros(L)) = 0
    BY ZerosAre
  <2>3. QED
    BY <2>1, <2>2, SumOfNone DEF Sum
<1>4. ASSUME NEW s \in SUBSET D, s \in Good, NEW x \in D \ s PROVE s \cup {x} \in Good
  <2>1. Sum(g, s) = Total(WonBy(r, L, s)) /\ x \notin s /\ x \in D
    BY <1>4
  <2> HIDE DEF Good
  <2>2. Sum(g, s \cup {x}) = Sum(g, s) + g[x]
    <3>1. (\A c \in s \cup {x} : g[c] \in Int) /\ IsFiniteSet(s)
      BY <1>2, FS_Subset
    <3>2. QED
      BY <2>1, <3>1, SumOfOneMore DEF Sum
  <2>3. Total(WonBy(r, L, s \cup {x})) = Total(WonBy(r, L, s)) + Total(WonBy(r, L, {x}))
    BY <2>1, WonByAdds
  <2>4. g[x] = Total(WonBy(r, L, {x}))
    BY <1>1
  <2>5. Sum(g, s \cup {x}) = Total(WonBy(r, L, s \cup {x}))
    BY <2>1, <2>2, <2>3, <2>4
  <2>6. s \cup {x} \in SUBSET D
    OBVIOUS
  <2>7. QED
    BY <2>5, <2>6 DEF Good
<1> HIDE DEF Good
<1>5. D \in Good
  BY <1>3, <1>4, AddingUp
<1>6. Sum(g, D) = Total(WonBy(r, L, D))
  BY <1>5 DEF Good
<1>7. QED
  BY <1>2, <1>6 DEF Sum

(* The places of a list are finitely many.                                 *)
LEMMA PlacesAreFinite ==
  ASSUME NEW n \in Nat PROVE IsFiniteSet(1..n)
BY FS_Interval

Contribution == [id : PromoId, amount : Nat]

(* Every promotion that gave something is named once, with what it gave;   *)
(* together that is all that lines save beyond their own prices.           *)
LEMMA ContributionsAre ==
  ASSUME NEW L, NEW C, NEW cost, NEW base, NEW offer, Offers(L, C, cost, base, offer),
         NEW cands \in Seq(PromoRow), Len(cands) = C, OneOfEach(cands),
         NEW r, Applied(r, L, C, cost, base, offer, cands), NEW gave, gave = Contributions(r)
  PROVE  /\ gave \in Seq(Contribution) /\ OneOfEach(gave)
         /\ \A k \in DOMAIN gave : \E c \in 1..C :
              gave[k].id = cands[c].id /\ gave[k].amount = Gave(r, c)
         /\ Total([k \in DOMAIN gave |-> gave[k].amount]) =
              Total([i \in 1..L |-> IF r.lines[i] > base[i] THEN r.lines[i] ELSE 0])
<1>0. L \in Nat /\ C \in Nat /\ base \in [1..L -> Nat]
  BY DEF Offers, Lines
<1>1. /\ r.lines \in [1..L -> Nat] /\ r.won \in [1..L -> 0..C] /\ r.cands = cands
      /\ DOMAIN cands = 1..C
  BY DEF Applied, Lines
<1>1a. \A i \in 1..L : /\ r.won[i] = 0 => r.lines[i] = base[i]
                       /\ r.won[i] # 0 => r.lines[i] > base[i]
  BY DEF Applied
<1>2. PICK g : g = [c \in DOMAIN r.cands |-> Gave(r, c)]
  OBVIOUS
<1>3. DOMAIN g = 1..C /\ \A c \in 1..C : g[c] = Gave(r, c)
  BY <1>1, <1>2
<1>3a. PICK all : all = WonBy(r, L, 1..C)
  OBVIOUS
<1>4. (\A c \in 1..C : g[c] \in Nat) /\ SumFunctionOnSet(g, 1..C) = Total(all)
  <2>1. PICK D : D = 1..C
    OBVIOUS
  <2>2. IsFiniteSet(D)
    BY <1>0, <2>1, PlacesAreFinite
  <2>3. L \in Nat /\ r.lines \in [1..L -> Nat] /\ \A c \in D : g[c] = Gave(r, c)
    BY <1>0, <1>1, <1>3, <2>1
  <2>4. (\A c \in D : g[c] \in Nat) /\ SumFunctionOnSet(g, D) = Total(WonBy(r, L, D))
    BY <2>2, <2>3, GivenTogether
  <2>5. QED
    BY <1>3a, <2>1, <2>4
<1> DEFINE P == {c \in DOMAIN g : g[c] > 0}
<1> DEFINE order == Ranked(P, g)
<1> DEFINE m == Cardinality(P)
<1>5. P \in SUBSET (1..C) /\ P \in SUBSET Int /\ \A c \in P : g[c] \in Int
  BY <1>3, <1>4
<1>6. IsFiniteSet(P) /\ IsFiniteSet(1..C)
  <2>1. IsFiniteSet(1..C)
    BY <1>0, PlacesAreFinite
  <2> HIDE DEF P
  <2>2. QED
    BY <1>5, <2>1, FS_Subset
<1>7. \A c \in (1..C) \ P : g[c] = 0
  BY <1>3, <1>4
<1> HIDE DEF P
<1>8. /\ order \in [1..m -> P] /\ m \in Nat /\ DOMAIN order = 1..m
      /\ \A k \in 1..m : Rank(P, g, order[k]) = k - 1
      /\ \A c \in P : \E k \in 1..m : order[k] = c
  <2>1. IsRanking(order, m, P, g)
    BY <1>5, <1>6, RankedIs
  <2> HIDE DEF order, m
  <2>2. QED
    BY <2>1 DEF IsRanking
<1>9. \A j, k \in 1..m : order[j] = order[k] => j = k
  <2> TAKE j, k \in 1..m
  <2>1. Rank(P, g, order[j]) = j - 1 /\ Rank(P, g, order[k]) = k - 1
    BY <1>8
  <2> HIDE DEF order, m
  <2>2. QED
    BY <2>1
<1>10. PICK s : s = [k \in 1..m |-> [id |-> cands[order[k]].id, amount |-> g[order[k]]]]
  OBVIOUS
<1>11. gave = Tuple(s)
  <2>1. gave = LET G == [c \in DOMAIN r.cands |-> Gave(r, c)]
                   o == Ranked({c \in DOMAIN G : G[c] > 0}, G)
               IN  Tuple([k \in DOMAIN o |-> [id |-> r.cands[o[k]].id, amount |-> G[o[k]]]])
    BY DEF Contributions
  <2>2. gave = Tuple([k \in DOMAIN order |-> [id |-> r.cands[order[k]].id, amount |-> g[order[k]]]])
    BY <1>2, <2>1 DEF P
  <2> HIDE DEF order, m
  <2>3. QED
    BY <1>1, <1>8, <1>10, <2>2
<1> HIDE DEF order, m
<1>12. \A k \in 1..m : order[k] \in P /\ order[k] \in 1..C
  BY <1>5, <1>8
<1>13. \A k \in 1..m : /\ s[k].id = cands[order[k]].id /\ s[k].amount = g[order[k]]
                       /\ s[k] \in Contribution
  <2> TAKE k \in 1..m
  <2>1. order[k] \in 1..C
    BY <1>12
  <2>2. cands[order[k]] \in PromoRow
    BY <1>1, <2>1
  <2>3. cands[order[k]].id \in PromoId /\ g[order[k]] \in Nat
    BY <1>4, <2>1, <2>2 DEF PromoRow
  <2>4. s[k] = [id |-> cands[order[k]].id, amount |-> g[order[k]]]
    BY <1>10
  <2>5. QED
    BY <2>3, <2>4 DEF Contribution
<1>14. s \in [1..m -> Contribution]
  BY <1>10, <1>13
<1>15. s \in Seq(Contribution) /\ DOMAIN s = 1..m
  BY <1>8, <1>14, SequenceOf
<1>16. gave = s
  BY <1>11, <1>15, TupleIs
<1>17. OneOfEach(gave)
  <2> SUFFICES ASSUME NEW j \in 1..m, NEW k \in 1..m, s[j].id = s[k].id PROVE j = k
    BY <1>15, <1>16 DEF OneOfEach
  <2>1. cands[order[j]].id = cands[order[k]].id
    BY <1>13
  <2>2. order[j] = order[k]
    BY <1>1, <1>12, <2>1 DEF OneOfEach
  <2>3. QED
    BY <1>9, <2>2
<1>18. \A k \in 1..m : \E c \in 1..C : s[k].id = cands[c].id /\ s[k].amount = Gave(r, c)
  BY <1>3, <1>12, <1>13
<1>19. PICK a : a = [k \in 1..m |-> s[k].amount]
  OBVIOUS
<1>20. Total(a) = SumFunctionOnSet(a, 1..m)
  BY <1>19 DEF Total, SumFunction
<1>21. SumFunctionOnSet(a, 1..m) = SumFunctionOnSet(g, P)
  <2>1. PICK D : D = 1..m
    OBVIOUS
  <2>2. IsFiniteSet(D)
    BY <1>8, <2>1, PlacesAreFinite
  <2>3. \A k \in D : a[k] = g[order[k]]
    BY <1>13, <1>19, <2>1
  <2>4. order \in [D -> P] /\ \A c \in P : g[c] \in Int
    BY <1>5, <1>8, <2>1
  <2>5. (\A j, k \in D : order[j] = order[k] => j = k) /\ \A c \in P : \E k \in D : order[k] = c
    BY <1>8, <1>9, <2>1
  <2>6. SumFunctionOnSet(a, D) = SumFunctionOnSet(g, P)
    BY <2>2, <2>3, <2>4, <2>5, SumReordered
  <2>7. QED
    BY <2>1, <2>6
<1>22. SumFunctionOnSet(g, 1..C) = SumFunctionOnSet(g, P)
  <2>1. \A c \in 1..C : g[c] \in Int
    BY <1>4
  <2>2. QED
    BY <1>5, <1>6, <1>7, <2>1, SumOfSome
<1>23. all = [i \in 1..L |-> IF r.lines[i] > base[i] THEN r.lines[i] ELSE 0]
  <2>1. ASSUME NEW i \in 1..L PROVE r.won[i] \in 1..C <=> r.lines[i] > base[i]
    <3>1. base[i] \in Nat /\ r.lines[i] \in Nat /\ r.won[i] \in 0..C
      BY <1>0, <1>1
    <3>2. r.won[i] \in 1..C <=> r.won[i] # 0
      BY <1>0, <3>1
    <3>3. QED
      BY <1>1a, <3>1, <3>2
  <2>2. QED
    BY <1>3a, <2>1 DEF WonBy
<1>24. Total([k \in DOMAIN gave |-> gave[k].amount]) =
         Total([i \in 1..L |-> IF r.lines[i] > base[i] THEN r.lines[i] ELSE 0])
  <2>1. [k \in DOMAIN gave |-> gave[k].amount] = a
    BY <1>15, <1>16, <1>19
  <2>2. QED
    BY <1>4, <1>20, <1>21, <1>22, <1>23, <2>1
<1>25. QED
  BY <1>15, <1>16, <1>17, <1>18, <1>24

-----------------------------------------------------------------------------
(* The best of every line and the limits *)

(* A greatest number is the only one.                                      *)
LEMMA GreatestIs ==
  ASSUME NEW B \in Nat, NEW S \in SUBSET (0..B), NEW b \in S, \A x \in S : x <= b
  PROVE  Max(S) = b
<1>1. Max(S) \in S /\ b <= Max(S)
  BY MaxIs
<1>2. Max(S) <= b /\ b \in 0..B /\ Max(S) \in 0..B
  BY <1>1
<1>3. QED
  BY <1>1, <1>2

(* What a customer is offered: what the lines of the cart cost, what their *)
(* own prices save and what each candidate would.                          *)
OfferOf(cart, cands) == Tuple([c \in DOMAIN cands |-> Tuple(LineDiscounts(cands[c], cart))])

(* What the candidates offer are lists the best of a line can be taken     *)
(* from.                                                                   *)
LEMMA OffersAre ==
  ASSUME NEW cart \in Seq(CartLine), NEW cands \in Seq(PromoRow), NEW base, base = Tuple(Baseline(cart)),
         NEW offer, offer = OfferOf(cart, cands)
  PROVE  /\ Offers(Len(cart), Len(cands), CostOf(cart), base, offer)
         /\ \A c \in 1..Len(cands) : offer[c] = Tuple(LineDiscounts(cands[c], cart))
<1>1. PICK o : o = [c \in 1..Len(cands) |-> Tuple(LineDiscounts(cands[c], cart))]
  OBVIOUS
<1>2. Len(cands) \in Nat /\ DOMAIN cands = 1..Len(cands)
  OBVIOUS
<1>3. ASSUME NEW c \in 1..Len(cands)
      PROVE  /\ o[c] \in Lines(Len(cart)) /\ o[c] = Tuple(LineDiscounts(cands[c], cart))
             /\ \A i \in 1..Len(cart) : o[c][i] <= LineSubtotal(cart[i])
  <2>1. cands[c] \in PromoRow
    BY <1>2
  <2>2. PICK d : d = LineDiscounts(cands[c], cart)
    OBVIOUS
  <2>3. /\ d \in Lines(Len(cart)) /\ Tuple(d) = d
        /\ \A i \in 1..Len(cart) : d[i] <= LineSubtotal(cart[i])
    BY <2>1, <2>2, LineDiscountsAre
  <2>4. o[c] = d
    BY <1>1, <2>2, <2>3
  <2>5. QED
    BY <2>2, <2>3, <2>4
<1>4. o \in [1..Len(cands) -> Lines(Len(cart))]
  BY <1>1, <1>3
<1>5. o \in Seq(Lines(Len(cart)))
  BY <1>2, <1>4, SequenceOf
<1>6. offer = o
  <2>1. offer = Tuple(o)
    BY <1>1, <1>2 DEF OfferOf
  <2>2. QED
    BY <1>5, <2>1, TupleIs
<1>7. /\ CostOf(cart) \in Lines(Len(cart)) /\ Len(cart) \in Nat
      /\ \A i \in 1..Len(cart) : CostOf(cart)[i] = LineSubtotal(cart[i])
  BY CostIs
<1>8. base \in Lines(Len(cart)) /\ \A i \in 1..Len(cart) : base[i] <= LineSubtotal(cart[i])
  BY BaselineIs
<1>9. \A i \in 1..Len(cart) :
        base[i] <= CostOf(cart)[i] /\ \A c \in 1..Len(cands) : offer[c][i] <= CostOf(cart)[i]
  BY <1>3, <1>6, <1>7, <1>8
<1>10. QED
  BY <1>2, <1>3, <1>4, <1>6, <1>7, <1>8, <1>9 DEF Offers

(* What is quoted is what was applied: no line saves more than it costs.   *)
LEMMA QuotedIs ==
  ASSUME NEW list \in Seq(PromoRow), OneOfEach(list), NEW cart \in Seq(CartLine), NEW n, NEW d,
         NEW base, base = Tuple(Baseline(cart)),
         NEW cands, cands = Candidates(list, cart, n, d),
         NEW r, r = Apply(list, cart, n, d), NEW quote, quote = PriceCart(list, cart, n, d)
  PROVE  /\ Applied(r, Len(cart), Len(cands), CostOf(cart), base, OfferOf(cart, cands), cands)
         /\ quote.subtotal = Total(Subtotals(cart))
         /\ quote.lines = r.lines /\ quote.gave = Contributions(r)
         /\ Total(quote.lines) = quote.subtotal - quote.total
         /\ Total(quote.lines) \in Nat /\ quote.subtotal \in Nat
<1>1. cands \in Seq(PromoRow)
  BY CandidatesAre
<1>2. PICK offer : offer = OfferOf(cart, cands)
  OBVIOUS
<1>3. Offers(Len(cart), Len(cands), CostOf(cart), base, offer)
  BY <1>1, <1>2, OffersAre
<1>4. r = Compete(base, cands, offer)
  BY <1>2 DEF Apply, ApplyTo, OfferOf
<1>5. Applied(r, Len(cart), Len(cands), CostOf(cart), base, offer, cands)
  BY <1>1, <1>3, <1>4, CompeteIs
<1>6. /\ CostOf(cart) \in Lines(Len(cart)) /\ Len(cart) \in Nat /\ DOMAIN cart = 1..Len(cart)
  BY CostIs
<1>7. Subtotals(cart) = CostOf(cart)
  BY <1>6 DEF Subtotals, CostOf
<1>8. PICK L : L = Len(cart)
  OBVIOUS
<1>9. PICK cost : cost = CostOf(cart)
  OBVIOUS
<1>10. L \in Nat /\ cost \in [1..L -> Nat] /\ cost \in [1..L -> Int]
  <2>1. L \in Nat /\ cost \in [1..L -> Nat]
    BY <1>6, <1>8, <1>9 DEF Lines
  <2>2. QED
    BY <2>1
<1>11. r.lines \in [1..L -> Nat] /\ r.lines \in [1..L -> Int] /\ \A i \in 1..L : r.lines[i] <= cost[i]
  <2>1. r.lines \in [1..L -> Nat] /\ \A i \in 1..L : r.lines[i] <= cost[i]
    BY <1>5, <1>8, <1>9 DEF Applied, Lines
  <2>2. QED
    BY <2>1
<1>12. PICK t, s : t = Total(r.lines) /\ s = Total(cost)
  OBVIOUS
<1>13. t \in Nat /\ s \in Nat /\ t <= s
  <2>1. t \in Nat /\ s \in Nat
    BY <1>10, <1>11, <1>12, TotalIsNat
  <2>2. t <= s
    BY <1>10, <1>11, <1>12, TotalIsMonotonic
  <2>3. QED
    BY <2>1, <2>2
<1>14. Lesser(t, s) = t /\ ~(t < t)
  BY <1>13 DEF Lesser
<1>15. quote = QuoteOf(r, s)
  BY <1>7, <1>9, <1>12 DEF PriceCart
<1>16. quote = Quote(r, s, t)
  BY <1>12, <1>14, <1>15 DEF QuoteOf
<1>17. quote = [subtotal |-> s, total |-> s - t, lines |-> r.lines, gave |-> Contributions(r)]
  BY <1>12, <1>14, <1>16 DEF Quote
<1>18. s - (s - t) = t
  BY <1>13
<1>19. /\ quote.subtotal = s /\ quote.lines = r.lines /\ quote.gave = Contributions(r)
       /\ quote.total = s - t
  BY <1>17
<1>20. QED
  BY <1>2, <1>5, <1>7, <1>9, <1>12, <1>13, <1>18, <1>19

-----------------------------------------------------------------------------
(* A quote is fair *)

Running(list, subtotal, n, d) == {p \in ToSet(list) : IsEligible(p, subtotal, n, d)}
SavedBy(running, cart, base, i) ==
  {base[i]} \cup {Tuple(LineDiscounts(p, cart))[i] : p \in running}

(* A line takes the best of what runs, candidate or not: what is no        *)
(* candidate gives nothing.                                                *)
LEMMA BestOfRunning ==
  ASSUME NEW list \in Seq(PromoRow), OneOfEach(list), NEW cart \in Seq(CartLine), NEW n, NEW d,
         NEW base, base = Tuple(Baseline(cart)),
         NEW cands, cands = Candidates(list, cart, n, d),
         NEW running, running = Running(list, Total(Subtotals(cart)), n, d),
         NEW i \in 1..Len(cart), NEW best, best = Best(base, OfferOf(cart, cands), i)
  PROVE  best = Max(SavedBy(running, cart, base, i))
<1>1. /\ cands \in Seq(PromoRow) /\ DOMAIN cands = 1..Len(cands)
      /\ \A c \in DOMAIN cands : \E k \in DOMAIN list :
           cands[c] = list[k] /\ IsEligible(list[k], Total(Subtotals(cart)), n, d)
      /\ \A k \in DOMAIN list : /\ IsEligible(list[k], Total(Subtotals(cart)), n, d)
                                /\ Total(LineDiscounts(list[k], cart)) > 0
                                => \E c \in DOMAIN cands : cands[c] = list[k]
  <2>1. cands \in Seq(PromoRow)
    BY CandidatesAre
  <2>2. DOMAIN cands = 1..Len(cands)
    BY <2>1
  <2>3. /\ \A c \in DOMAIN cands : \E k \in DOMAIN list :
              cands[c] = list[k] /\ IsEligible(list[k], Total(Subtotals(cart)), n, d)
        /\ \A k \in DOMAIN list : /\ IsEligible(list[k], Total(Subtotals(cart)), n, d)
                                  /\ Total(LineDiscounts(list[k], cart)) > 0
                                  => \E c \in DOMAIN cands : cands[c] = list[k]
    BY CandidatesAre
  <2>4. QED
    BY <2>1, <2>2, <2>3
<1>2. PICK L, C, cost : L = Len(cart) /\ C = Len(cands) /\ cost = CostOf(cart)
  OBVIOUS
<1>3. PICK offer : offer = OfferOf(cart, cands)
  OBVIOUS
<1>4. /\ Offers(L, C, cost, base, offer)
      /\ \A c \in 1..C : offer[c] = Tuple(LineDiscounts(cands[c], cart))
  BY <1>1, <1>2, <1>3, OffersAre
<1>5. PICK winner : winner = Winner(base, offer, i)
  OBVIOUS
<1>6. /\ best \in Nat /\ best <= cost[i] /\ base[i] <= best
      /\ \A c \in 1..C : offer[c][i] <= best
      /\ winner \in 0..C
      /\ winner = 0 => best = base[i]
      /\ winner # 0 => best = offer[winner][i] /\ best > base[i]
  <2>1. i \in 1..L /\ best = Best(base, offer, i)
    BY <1>2, <1>3
  <2>2. QED
    BY <1>4, <1>5, <2>1, WinnerIs
<1>7. base[i] \in Nat /\ L \in Nat /\ C \in Nat /\ i \in 1..L
  BY <1>2, <1>4 DEF Offers, Lines
<1> DEFINE S == {base[i]} \cup {Tuple(LineDiscounts(p, cart))[i] : p \in running}
<1>8. ASSUME NEW p \in running
      PROVE  /\ Tuple(LineDiscounts(p, cart))[i] \in Nat
             /\ Tuple(LineDiscounts(p, cart))[i] <= best
  <2>1. PICK k \in DOMAIN list : p = list[k]
    BY DEF Running, ToSet
  <2>2. p \in PromoRow /\ IsEligible(p, Total(Subtotals(cart)), n, d)
    <3>1. p \in PromoRow
      BY <2>1
    <3>2. QED
      BY <3>1 DEF Running
  <2>3. PICK x : x = LineDiscounts(p, cart)
    OBVIOUS
  <2>4. x \in [1..L -> Nat] /\ Tuple(x) = x
    BY <1>2, <2>2, <2>3, LineDiscountsAre DEF Lines
  <2>5. x[i] \in Nat /\ x[i] <= Total(x) /\ Total(x) \in Nat
    BY <1>7, <2>4, PartOfTotal, TotalIsNat
  <2>6. CASE Total(x) > 0
    <3>1. PICK c \in DOMAIN cands : cands[c] = p
      BY <1>1, <2>1, <2>2, <2>3, <2>6
    <3>2. c \in 1..C
      BY <1>1, <1>2
    <3>3. offer[c] = x
      BY <1>4, <2>3, <2>4, <3>1, <3>2
    <3>4. x[i] <= best
      BY <1>6, <3>2, <3>3
    <3>5. QED
      BY <2>3, <2>4, <2>5, <3>4
  <2>7. CASE ~(Total(x) > 0)
    <3>1. x[i] <= best
      BY <1>6, <2>5, <2>7
    <3>2. QED
      BY <2>3, <2>4, <2>5, <3>1
  <2>8. QED
    BY <2>6, <2>7
<1>9. \A x \in S : x \in 0..best /\ x <= best
  <2>1. \A x \in S : x = base[i] \/ \E p \in running : x = Tuple(LineDiscounts(p, cart))[i]
    OBVIOUS
  <2> HIDE DEF S
  <2>2. QED
    BY <1>6, <1>7, <1>8, <2>1
<1>10. best \in S
  <2>1. CASE winner = 0
    BY <1>6, <2>1
  <2>2. CASE winner # 0
    <3>1. winner \in 1..C /\ winner \in DOMAIN cands /\ best = offer[winner][i]
      <4>1. winner \in 1..C
        BY <1>6, <1>7, <2>2
      <4>2. QED
        BY <1>1, <1>2, <1>6, <2>2, <4>1
    <3>2. PICK k \in DOMAIN list :
            cands[winner] = list[k] /\ IsEligible(list[k], Total(Subtotals(cart)), n, d)
      BY <1>1, <3>1
    <3>3. cands[winner] \in running
      BY <3>2 DEF Running, ToSet
    <3>4. best = Tuple(LineDiscounts(cands[winner], cart))[i]
      BY <1>4, <3>1
    <3>5. QED
      BY <3>3, <3>4
  <2>3. QED
    BY <2>1, <2>2
<1>11. S \in SUBSET (0..best)
  <2> HIDE DEF S
  <2>1. QED
    BY <1>9
<1>12. Max(S) = best
  <2> HIDE DEF S
  <2>1. QED
    BY <1>6, <1>9, <1>10, <1>11, GreatestIs
<1>13. QED
  BY <1>12 DEF SavedBy

(* The price of any cart by any table follows the rules.                   *)
LEMMA PriceIsFair ==
  ASSUME NEW list \in Seq(PromoRow), OneOfEach(list), NEW cart \in Seq(CartLine), NEW n, NEW d
  PROVE  IsFair(list, cart, n, d)
<1>1. PICK base : base = Tuple(Baseline(cart))
  OBVIOUS
<1>2. PICK cands : cands = Candidates(list, cart, n, d)
  OBVIOUS
<1>3. PICK r : r = Apply(list, cart, n, d)
  OBVIOUS
<1>4. PICK quote : quote = PriceCart(list, cart, n, d)
  OBVIOUS
<1>5. PICK offer : offer = OfferOf(cart, cands)
  OBVIOUS
<1>6. PICK L, C, cost : L = Len(cart) /\ C = Len(cands) /\ cost = CostOf(cart)
  OBVIOUS
<1>7. /\ Applied(r, L, C, cost, base, offer, cands)
      /\ quote.subtotal = Total(Subtotals(cart))
      /\ quote.lines = r.lines /\ quote.gave = Contributions(r)
      /\ Total(quote.lines) = quote.subtotal - quote.total
  BY <1>1, <1>2, <1>3, <1>4, <1>5, <1>6, QuotedIs
<1>8. /\ cands \in Seq(PromoRow) /\ OneOfEach(cands) /\ DOMAIN cands = 1..C /\ C \in Nat
      /\ \A c \in 1..C : \E k \in DOMAIN list :
           cands[c] = list[k] /\ IsEligible(list[k], Total(Subtotals(cart)), n, d)
      /\ \A k \in DOMAIN list : /\ IsEligible(list[k], Total(Subtotals(cart)), n, d)
                                /\ Total(LineDiscounts(list[k], cart)) > 0
                                => \E c \in DOMAIN cands : cands[c] = list[k]
  <2>1. cands \in Seq(PromoRow)
    BY <1>2, CandidatesAre
  <2>2. DOMAIN cands = 1..C /\ C \in Nat
    BY <1>6, <2>1
  <2>3. OneOfEach(cands)
    BY <1>2, CandidatesAre
  <2>4. /\ \A c \in DOMAIN cands : \E k \in DOMAIN list :
              cands[c] = list[k] /\ IsEligible(list[k], Total(Subtotals(cart)), n, d)
        /\ \A k \in DOMAIN list : /\ IsEligible(list[k], Total(Subtotals(cart)), n, d)
                                  /\ Total(LineDiscounts(list[k], cart)) > 0
                                  => \E c \in DOMAIN cands : cands[c] = list[k]
    BY <1>2, CandidatesAre
  <2>5. QED
    BY <2>1, <2>2, <2>3, <2>4
<1>9. PICK running : running = Running(list, quote.subtotal, n, d)
  OBVIOUS
<1>10. ASSUME NEW p \in running
       PROVE  p \in PromoRow /\ \E k \in DOMAIN list : p = list[k] /\ IsEligible(list[k], quote.subtotal, n, d)
  <2>1. PICK k \in DOMAIN list : p = list[k] /\ IsEligible(list[k], quote.subtotal, n, d)
    BY <1>9 DEF Running, ToSet
  <2>2. p \in PromoRow
    BY <2>1
  <2>3. QED
    BY <2>1, <2>2
<1>11. \A c \in 1..C : cands[c] \in running /\ cands[c] \in PromoRow
  <2> TAKE c \in 1..C
  <2>1. PICK k \in DOMAIN list : cands[c] = list[k] /\ IsEligible(list[k], quote.subtotal, n, d)
    BY <1>7, <1>8
  <2>2. QED
    BY <1>8, <1>9, <2>1 DEF Running, ToSet
<1>12. DOMAIN cart = 1..L /\ L \in Nat /\ \A i \in 1..L : cost[i] = LineSubtotal(cart[i]) /\ cost[i] \in Nat
  BY <1>6, CostIs
<1>13. base \in [1..L -> Nat]
  BY <1>1, <1>6, BaselineIs DEF Lines
<1>14. ASSUME NEW i \in 1..L PROVE quote.lines[i] \in base[i]..LineSubtotal(cart[i])
  <2>1. base[i] \in Nat /\ cost[i] \in Nat /\ r.lines[i] \in Nat
    BY <1>7, <1>12, <1>13 DEF Applied, Lines
  <2>2. base[i] <= r.lines[i] /\ r.lines[i] <= cost[i]
    BY <1>7 DEF Applied
  <2>3. QED
    BY <1>7, <1>12, <2>1, <2>2
<1>15. ASSUME ~ \E p \in running : p.max > 0, NEW i \in 1..L
       PROVE  quote.lines[i] = Max({base[i]} \cup {Tuple(LineDiscounts(p, cart))[i] : p \in running})
  <2>1. \A c \in 1..C : cands[c].max = 0
    <3> TAKE c \in 1..C
    <3>1. cands[c].max \in Nat
      BY <1>11 DEF PromoRow
    <3>2. ~(cands[c].max > 0)
      BY <1>11, <1>15
    <3>3. QED
      BY <3>1, <3>2
  <2>2. r.lines[i] = Best(base, offer, i)
    BY <1>7, <2>1 DEF Applied
  <2>3. Best(base, offer, i) = Max(SavedBy(running, cart, base, i))
    <3>1. running = Running(list, Total(Subtotals(cart)), n, d) /\ i \in 1..Len(cart)
      BY <1>6, <1>7, <1>9
    <3>2. PICK best : best = Best(base, OfferOf(cart, cands), i)
      OBVIOUS
    <3>3. best = Max(SavedBy(running, cart, base, i))
      BY <1>1, <1>2, <3>1, <3>2, BestOfRunning
    <3>4. QED
      BY <1>5, <3>2, <3>3
  <2>4. QED
    BY <1>7, <2>2, <2>3 DEF SavedBy
<1>16. ASSUME NEW p \in running, p.type \in {"percent", "loyalty"}, NEW w, w = Weights(p, cart)
       PROVE  IsExactSpread(Tuple(LineDiscounts(p, cart)), DiscountByUnit(p, Total(w)), w)
  BY <1>10, <1>16, LineDiscountsAre
<1>17. /\ quote.gave \in Seq(Contribution) /\ OneOfEach(quote.gave)
       /\ \A k \in DOMAIN quote.gave : \E c \in 1..C :
            quote.gave[k].id = cands[c].id /\ quote.gave[k].amount = Gave(r, c)
       /\ Total([k \in DOMAIN quote.gave |-> quote.gave[k].amount]) =
            Total([i \in 1..L |-> IF r.lines[i] > base[i] THEN r.lines[i] ELSE 0])
  <2>1. Offers(L, C, cost, base, offer)
    BY <1>1, <1>5, <1>6, <1>8, OffersAre
  <2>2. Len(cands) = C /\ cands \in Seq(PromoRow) /\ OneOfEach(cands)
    BY <1>6, <1>8
  <2>3. Applied(r, L, C, cost, base, offer, cands) /\ quote.gave = Contributions(r)
    BY <1>7
  <2>4. QED
    BY <2>1, <2>2, <2>3, ContributionsAre
<1>18. ASSUME NEW p \in running, p.max > 0, NEW g \in ToSet(quote.gave), g.id = p.id
       PROVE  g.amount <= p.max
  <2>1. PICK j \in DOMAIN quote.gave : g = quote.gave[j]
    BY DEF ToSet
  <2>2. PICK c \in 1..C : g.id = cands[c].id /\ g.amount = Gave(r, c)
    BY <1>17, <2>1
  <2>3. PICK k \in DOMAIN list : cands[c] = list[k]
    BY <1>8
  <2>4. PICK m \in DOMAIN list : p = list[m]
    BY <1>10
  <2>5. list[k].id = list[m].id
    BY <1>18, <2>2, <2>3, <2>4
  <2>6. cands[c] = p
    BY <2>3, <2>4, <2>5 DEF OneOfEach
  <2>7. cands[c].max > 0 => Gave(r, c) <= cands[c].max
    BY <1>7 DEF Applied
  <2>8. QED
    BY <1>18, <2>2, <2>6, <2>7
<1>19. IsFairQuote(quote, base, list, cart, n, d)
  <2>1. running = {p \in ToSet(list) : IsEligible(p, quote.subtotal, n, d)}
    BY <1>9 DEF Running
  <2>2. \A i \in DOMAIN cart :
          /\ quote.lines[i] \in base[i]..LineSubtotal(cart[i])
          /\ ~(\E p \in running : p.max > 0) => quote.lines[i] =
               Max({base[i]} \cup {Tuple(LineDiscounts(p, cart))[i] : p \in running})
    BY <1>12, <1>14, <1>15
  <2>3. \A p \in running :
          /\ p.type \in {"percent", "loyalty"} =>
               LET w == Weights(p, cart)
               IN  IsExactSpread(Tuple(LineDiscounts(p, cart)), DiscountByUnit(p, Total(w)), w)
          /\ p.max > 0 => \A g \in ToSet(quote.gave) : g.id = p.id => g.amount <= p.max
    BY <1>16, <1>18
  <2>4. Total([g \in DOMAIN quote.gave |-> quote.gave[g].amount]) =
          Total([i \in DOMAIN cart |-> IF quote.lines[i] > base[i] THEN quote.lines[i] ELSE 0])
    BY <1>7, <1>12, <1>17
  <2>5. QED
    BY <1>7, <2>1, <2>2, <2>3, <2>4 DEF IsFairQuote
<1>20. QED
  BY <1>1, <1>4, <1>19 DEF IsFair

(* What an order notes down of its price: promotions it used, each once.   *)
LEMMA GaveOnce ==
  ASSUME NEW list \in Seq(PromoRow), OneOfEach(list), NEW cart \in Seq(CartLine), NEW n, NEW d,
         NEW gave, gave = PriceCart(list, cart, n, d).gave
  PROVE  gave \in Seq(Contribution) /\ OneOfEach(gave)
<1>1. PICK base : base = Tuple(Baseline(cart))
  OBVIOUS
<1>2. PICK cands : cands = Candidates(list, cart, n, d)
  OBVIOUS
<1>3. PICK r : r = Apply(list, cart, n, d)
  OBVIOUS
<1>4. PICK offer : offer = OfferOf(cart, cands)
  OBVIOUS
<1>5. PICK L, C, cost : L = Len(cart) /\ C = Len(cands) /\ cost = CostOf(cart)
  OBVIOUS
<1>6. Applied(r, L, C, cost, base, offer, cands) /\ gave = Contributions(r)
  BY <1>1, <1>2, <1>3, <1>4, <1>5, QuotedIs
<1>7. cands \in Seq(PromoRow) /\ OneOfEach(cands)
  BY <1>2, CandidatesAre
<1>8. Offers(L, C, cost, base, offer)
  BY <1>1, <1>4, <1>5, <1>7, OffersAre
<1>9. Len(cands) = C
  BY <1>5
<1>10. gave \in Seq(Contribution) /\ OneOfEach(gave)
  <2>1. PICK g : g = Contributions(r)
    OBVIOUS
  <2>2. g \in Seq(Contribution)
    BY <1>6, <1>7, <1>8, <1>9, <2>1, ContributionsAre
  <2>3. OneOfEach(g)
    BY <1>6, <1>7, <1>8, <1>9, <2>1, ContributionsAre
  <2>4. QED
    BY <1>6, <2>1, <2>2, <2>3
<1>11. QED
  BY <1>10

-----------------------------------------------------------------------------
(* The panel: what managers hold of the table *)

(* What a manager holds of the table: rows still to be written.            *)
Held(request) ==
  CASE request.pc = "save"  -> {request.row}
    [] request.pc = "write" -> {request.queue[i] : i \in DOMAIN request.queue}
    [] OTHER -> {}
GoodHeld(request) ==
  /\ "pc" \in DOMAIN request
  /\ request.pc \in {"save", "list", "write"} => "row" \in DOMAIN request
  /\ request.pc = "save" => request.row \in PromoRow
  /\ request.pc = "write" => "queue" \in DOMAIN request /\ request.queue \in Seq(PromoRow)

PanelShapes ==
  /\ promos \in Seq(PromoRow) /\ OneOfEach(promos)
  /\ DOMAIN panel = Manager /\ \A m \in Manager : GoodHeld(panel[m])

(* The rows that are in the table or will be written to it.                *)
InTable == {promos[i] : i \in DOMAIN promos}
Copies == InTable \cup UNION {Held(panel[m]) : m \in Manager}

(* What is left of a promotion keeps its id and its use.                   *)
LEMMA WithoutTargetsIs ==
  ASSUME NEW p \in PromoRow, NEW incoming
  PROVE  /\ WithoutTargets(p, incoming) \in PromoRow
         /\ WithoutTargets(p, incoming).id = p.id /\ WithoutTargets(p, incoming).used = p.used
<1>1. CASE incoming.whole \/ p.whole
  <2>1. PICK q : q = [p EXCEPT !.active = FALSE]
    OBVIOUS
  <2>2. q \in PromoRow /\ q.id = p.id /\ q.used = p.used
    BY <2>1 DEF PromoRow
  <2>3. WithoutTargets(p, incoming) = q
    BY <1>1, <2>1 DEF WithoutTargets
  <2>4. QED
    BY <2>2, <2>3
<1>2. CASE ~(incoming.whole \/ p.whole)
  <2>1. PICK s, c : s = p.products \ incoming.products /\ c = p.categories \ incoming.categories
    OBVIOUS
  <2>2. s \in SUBSET Product /\ c \in SUBSET Category
    BY <2>1 DEF PromoRow
  <2>3. PICK q : q = [p EXCEPT !.products = s, !.categories = c]
    OBVIOUS
  <2>4. q \in PromoRow /\ q.id = p.id /\ q.used = p.used
    BY <2>2, <2>3 DEF PromoRow
  <2>5. WithoutTargets(p, incoming) = q
    BY <1>2, <2>1, <2>3 DEF WithoutTargets, PromoRow
  <2>6. QED
    BY <2>4, <2>5
<1>3. QED
  BY <1>1, <1>2

(* A row that is saved takes the place of the one with its id.             *)
LEMMA SavedIs ==
  ASSUME PanelShapes, NEW row \in PromoRow, NEW s, s = Saved(row)
  PROVE  /\ s \in Seq(PromoRow) /\ OneOfEach(s)
         /\ \A i \in DOMAIN s : s[i] = row \/ s[i] \in InTable
<1>1. promos \in Seq(PromoRow) /\ OneOfEach(promos)
  BY DEF PanelShapes
<1>2. CASE row.id \in Ids
  <2>1. s = [i \in DOMAIN promos |-> IF promos[i].id = row.id THEN row ELSE promos[i]]
    BY <1>2 DEF Saved
  <2>2. PICK n \in Nat : n = Len(promos) /\ DOMAIN promos = 1..n
    BY <1>1
  <2>3. s \in [1..n -> PromoRow]
    <3>1. \A i \in 1..n : promos[i] \in PromoRow
      BY <1>1, <2>2
    <3>2. QED
      BY <2>1, <2>2, <3>1
  <2>4. s \in Seq(PromoRow) /\ DOMAIN s = 1..n
    BY <2>3, SequenceOf
  <2>5. \A i \in 1..n : s[i].id = promos[i].id /\ (s[i] = row \/ s[i] = promos[i])
    BY <2>1, <2>2
  <2>6. OneOfEach(s)
    BY <1>1, <2>2, <2>4, <2>5 DEF OneOfEach
  <2>7. QED
    BY <2>2, <2>4, <2>5, <2>6 DEF InTable
<1>3. CASE row.id \notin Ids
  <2>1. s = <<row>> \o promos
    BY <1>3 DEF Saved
  <2>2. PICK n \in Nat : n = Len(promos) /\ DOMAIN promos = 1..n
    BY <1>1
  <2>3. s \in Seq(PromoRow) /\ Len(s) = n + 1 /\ DOMAIN s = 1..(n + 1)
    BY <1>1, <2>1, <2>2
  <2>4. s[1] = row /\ \A i \in 2..(n + 1) : s[i] = promos[i - 1] /\ i - 1 \in 1..n
    BY <1>1, <2>1, <2>2
  <2>5. \A i \in 1..n : promos[i].id # row.id
    BY <1>3, <2>2 DEF Ids
  <2>6. OneOfEach(s)
    <3> SUFFICES ASSUME NEW i \in 1..(n + 1), NEW j \in 1..(n + 1), s[i].id = s[j].id PROVE i = j
      BY <2>3 DEF OneOfEach
    <3>1. CASE i = 1 /\ j # 1
      <4>1. j \in 2..(n + 1)
        BY <3>1
      <4>2. QED
        BY <2>4, <2>5, <3>1, <4>1
    <3>2. CASE i # 1 /\ j = 1
      <4>1. i \in 2..(n + 1)
        BY <3>2
      <4>2. QED
        BY <2>4, <2>5, <3>2, <4>1
    <3>3. CASE i # 1 /\ j # 1
      <4>1. i \in 2..(n + 1) /\ j \in 2..(n + 1)
        BY <3>3
      <4>2. i - 1 \in DOMAIN promos /\ j - 1 \in DOMAIN promos /\ promos[i - 1].id = promos[j - 1].id
        BY <2>2, <2>4, <4>1
      <4>3. i - 1 = j - 1
        BY <1>1, <4>2 DEF OneOfEach
      <4>4. QED
        BY <4>1, <4>3
    <3>4. QED
      BY <3>1, <3>2, <3>3
  <2>7. ASSUME NEW i \in 1..(n + 1) PROVE s[i] = row \/ s[i] \in InTable
    <3>1. CASE i = 1
      BY <2>4, <3>1
    <3>2. CASE i # 1
      <4>1. i \in 2..(n + 1)
        BY <3>2
      <4>2. QED
        BY <2>2, <2>4, <4>1 DEF InTable
    <3>3. QED
      BY <3>1, <3>2
  <2>8. QED
    BY <2>3, <2>6, <2>7
<1>4. QED
  BY <1>2, <1>3

(* What stays of the table is rows of the table.                           *)
LEMMA StaysInTable ==
  ASSUME PanelShapes, NEW P \in SUBSET DOMAIN promos, NEW kept, kept = Kept(promos, P)
  PROVE  /\ kept \in Seq(PromoRow) /\ OneOfEach(kept)
         /\ \A k \in DOMAIN kept : kept[k] \in InTable
<1>1. promos \in Seq(PromoRow) /\ OneOfEach(promos)
  BY DEF PanelShapes
<1>2. kept \in Seq(PromoRow) /\ Picks(kept, promos, P)
  BY <1>1, KeptIs
<1>3. PICK m \in Nat : \E f \in [1..m -> P] :
        /\ Len(kept) = m
        /\ \A k \in 1..m : kept[k] = promos[f[k]]
        /\ \A j, k \in 1..m : f[j] = f[k] => j = k
        /\ \A c \in P : \E k \in 1..m : f[k] = c
  BY <1>2 DEF Picks
<1>4. PICK f \in [1..m -> P] :
        /\ Len(kept) = m
        /\ \A k \in 1..m : kept[k] = promos[f[k]]
        /\ \A j, k \in 1..m : f[j] = f[k] => j = k
  BY <1>3
<1>5. DOMAIN kept = 1..m /\ \A k \in 1..m : f[k] \in DOMAIN promos
  BY <1>2, <1>4
<1>6. OneOfEach(kept)
  BY <1>1, <1>4, <1>5 DEF OneOfEach
<1>7. QED
  BY <1>2, <1>4, <1>5, <1>6 DEF InTable

(* A manager's step changes what that manager holds and perhaps the table. *)
Holds(m, x) == DOMAIN panel' = Manager /\ panel'[m] = x
               /\ \A n \in Manager : n # m => panel'[n] = panel[n]

(* A manager's step writes that manager's request and no other.            *)
LEMMA PanelWritten ==
  ASSUME PanelShapes, NEW m \in Manager, NEW x, panel' = [panel EXCEPT ![m] = x]
  PROVE  Holds(m, x)
BY DEF PanelShapes, Holds

(* What is held after a manager's step: the table, the new request, and    *)
(* what was held before.                                                   *)
LEMMA PanelMoves ==
  ASSUME PanelShapes, NEW m \in Manager, NEW x, Holds(m, x), GoodHeld(x),
         promos' \in Seq(PromoRow), OneOfEach(promos')
  PROVE  /\ PanelShapes'
         /\ Copies' \subseteq {promos'[i] : i \in DOMAIN promos'} \cup Held(x) \cup Copies
<1>1. \A n \in Manager : GoodHeld(panel'[n])
  BY DEF PanelShapes, Holds
<1>2. PanelShapes'
  BY <1>1 DEF PanelShapes, GoodHeld, Holds, OneOfEach
<1>3. \A n \in Manager : Held(panel'[n]) \subseteq Held(x) \cup Copies
  <2> TAKE n \in Manager
  <2>1. CASE n = m
    BY <2>1 DEF Holds
  <2>2. CASE n # m
    <3>1. panel'[n] = panel[n]
      BY <2>2 DEF Holds
    <3>2. Held(panel[n]) \subseteq Copies
      BY DEF Copies
    <3>3. QED
      BY <3>1, <3>2
  <2>3. QED
    BY <2>1, <2>2
<1>4. Copies' = {promos'[i] : i \in DOMAIN promos'} \cup UNION {Held(panel'[n]) : n \in Manager}
  BY DEF Copies, InTable, Held
<1>5. QED
  BY <1>2, <1>3, <1>4

(* Every row after a step has its use from a row before it, or none.       *)
Known(rows) == \A r \in rows : /\ r \in PromoRow
                               /\ r.used = 0 \/ \E q \in Copies : r.id = q.id /\ r.used = q.used

(* Rows are known already while they stay where they are.                  *)
LEMMA CopiesAreKnown ==
  ASSUME PanelShapes
  PROVE  /\ Known(Copies) /\ Known(InTable) /\ \A m \in Manager : Known(Held(panel[m]))
         /\ InTable \subseteq Copies /\ \A m \in Manager : Held(panel[m]) \subseteq Copies
<1>1. InTable \subseteq Copies /\ \A m \in Manager : Held(panel[m]) \subseteq Copies
  BY DEF Copies
<1>2. InTable \subseteq PromoRow
  <2>1. promos \in Seq(PromoRow)
    BY DEF PanelShapes
  <2>2. QED
    BY <2>1 DEF InTable
<1>3. ASSUME NEW m \in Manager PROVE Held(panel[m]) \subseteq PromoRow
  <2>1. GoodHeld(panel[m])
    BY DEF PanelShapes
  <2>2. PICK x : x = panel[m]
    OBVIOUS
  <2>3. CASE x.pc = "save"
    BY <2>1, <2>2, <2>3 DEF GoodHeld, Held
  <2>4. CASE x.pc = "write"
    <3>1. x.queue \in Seq(PromoRow) /\ Held(x) = {x.queue[i] : i \in DOMAIN x.queue}
      BY <2>1, <2>2, <2>4 DEF GoodHeld, Held
    <3>2. \A i \in DOMAIN x.queue : x.queue[i] \in PromoRow
      BY <3>1
    <3>3. QED
      BY <2>2, <3>1, <3>2
  <2>5. CASE x.pc \notin {"save", "write"}
    BY <2>2, <2>5 DEF Held
  <2>6. QED
    BY <2>3, <2>4, <2>5
<1>4. Copies \subseteq PromoRow
  BY <1>2, <1>3 DEF Copies
<1>5. QED
  BY <1>1, <1>4 DEF Known

(* A step of one manager that brings in no new use.                        *)
LEMMA PanelMovesKnown ==
  ASSUME PanelShapes, NEW m \in Manager, NEW x, Holds(m, x), GoodHeld(x),
         promos' \in Seq(PromoRow), OneOfEach(promos'),
         Known({promos'[i] : i \in DOMAIN promos'}), Known(Held(x))
  PROVE  PanelShapes' /\ Known(Copies')
<1>1. PanelShapes' /\ Copies' \subseteq {promos'[i] : i \in DOMAIN promos'} \cup Held(x) \cup Copies
  BY PanelMoves
<1>2. Known(Copies)
  BY CopiesAreKnown
<1>3. PICK rows : rows = Copies'
  OBVIOUS
<1>4. Known(rows)
  BY <1>1, <1>2, <1>3 DEF Known
<1>5. QED
  BY <1>1, <1>3, <1>4

(* While the table stays as it is.                                         *)
LEMMA TableStays ==
  ASSUME PanelShapes, UNCHANGED promos
  PROVE  /\ promos' \in Seq(PromoRow) /\ OneOfEach(promos')
         /\ Known({promos'[i] : i \in DOMAIN promos'})
BY CopiesAreKnown DEF PanelShapes, InTable

(* An edit takes the use of the row it read, or none.                      *)
LEMMA ReadPromotionKeeps ==
  ASSUME PanelShapes, NEW m \in Manager, ReadPromotion(m)
  PROVE  PanelShapes' /\ Known(Copies')
<1>1. PICK id \in PromoId, f \in Form :
        \E used \in {0} \cup {p.used : p \in {q \in ToSet(promos) : q.id = id}} :
          panel' = [panel EXCEPT ![m] = [pc |-> "save", row |-> Row(id, f, used)]]
  BY DEF ReadPromotion
<1>2. PICK used \in {0} \cup {p.used : p \in {q \in ToSet(promos) : q.id = id}} :
        panel' = [panel EXCEPT ![m] = [pc |-> "save", row |-> Row(id, f, used)]]
  BY <1>1
<1>3. used = 0 \/ \E q \in InTable : q.id = id /\ q.used = used
  BY <1>2 DEF InTable, ToSet
<1>4. used \in Nat /\ (used = 0 \/ \E q \in Copies : q.id = id /\ q.used = used)
  <2>1. CASE used = 0
    BY <2>1
  <2>2. CASE \E q \in InTable : q.id = id /\ q.used = used
    <3>1. PICK q \in InTable : q.id = id /\ q.used = used
      BY <2>2
    <3>2. q \in Copies /\ q \in PromoRow
      BY CopiesAreKnown DEF Known
    <3>3. QED
      BY <3>1, <3>2 DEF PromoRow
  <2>3. QED
    BY <1>3, <2>1, <2>2
<1>5. PICK row : row = Row(id, f, used)
  OBVIOUS
<1>6. row \in PromoRow /\ row.id = id /\ row.used = used
  BY <1>4, <1>5, RowIs
<1>7. PICK x : x = [pc |-> "save", row |-> row]
  OBVIOUS
<1>8. GoodHeld(x) /\ Held(x) = {row}
  BY <1>6, <1>7 DEF GoodHeld, Held
<1>9. Holds(m, x)
  BY <1>2, <1>5, <1>7, PanelWritten
<1>10. Known(Held(x))
  BY <1>4, <1>6, <1>8 DEF Known
<1>11. UNCHANGED promos
  BY DEF ReadPromotion
<1>12. QED
  BY <1>8, <1>9, <1>10, <1>11, TableStays, PanelMovesKnown

(* A row written to the table is one that was held.                        *)
LEMMA WrittenIsKnown ==
  ASSUME PanelShapes, NEW row \in Copies, promos' = Saved(row)
  PROVE  /\ promos' \in Seq(PromoRow) /\ OneOfEach(promos')
         /\ Known({promos'[i] : i \in DOMAIN promos'})
<1>1. row \in PromoRow /\ InTable \subseteq Copies /\ Known(Copies)
  BY CopiesAreKnown DEF Known
<1>2. PICK s : s = Saved(row)
  OBVIOUS
<1>3. /\ s \in Seq(PromoRow) /\ OneOfEach(s)
      /\ \A i \in DOMAIN s : s[i] = row \/ s[i] \in InTable
  BY <1>1, <1>2, SavedIs
<1>4. Known({s[i] : i \in DOMAIN s})
  BY <1>1, <1>3 DEF Known
<1>5. QED
  BY <1>2, <1>3, <1>4

(* Nothing held.                                                           *)
LEMMA NothingHeld ==
  /\ GoodHeld(NoRequest) /\ Held(NoRequest) = {} /\ Known({})
BY DEF GoodHeld, Held, NoRequest, Known

(* One lemma for each step of the panel: saving the row,                   *)
LEMMA SavePromotionKeeps ==
  ASSUME PanelShapes, NEW m \in Manager, SavePromotion(m)
  PROVE  PanelShapes' /\ Known(Copies')
<1>1. PICK r : r = panel[m]
  OBVIOUS
<1>2. r.pc = "save" /\ GoodHeld(r) /\ r.row \in Copies
  <2>1. r.pc = "save" /\ GoodHeld(r)
    BY <1>1 DEF SavePromotion, PanelShapes
  <2>2. r.row \in Held(r)
    BY <2>1 DEF Held
  <2>3. QED
    BY <1>1, <2>1, <2>2, CopiesAreKnown
<1>3. /\ promos' \in Seq(PromoRow) /\ OneOfEach(promos')
      /\ Known({promos'[i] : i \in DOMAIN promos'})
  BY <1>1, <1>2, WrittenIsKnown DEF SavePromotion
<1>4. PICK x : x = IF r.row.active THEN [r EXCEPT !.pc = "list"] ELSE NoRequest
  OBVIOUS
<1>5. Holds(m, x)
  <2>1. panel' = [panel EXCEPT ![m] = x]
    BY <1>1, <1>4 DEF SavePromotion, PanelShapes
  <2>2. QED
    BY <2>1, PanelWritten
<1>6. GoodHeld(x) /\ Held(x) = {}
  <2>1. CASE x = NoRequest
    BY <2>1, NothingHeld
  <2>2. CASE x = [r EXCEPT !.pc = "list"]
    <3>1. x.pc = "list" /\ {"pc", "row"} \subseteq DOMAIN x
      BY <1>2, <2>2 DEF GoodHeld
    <3>2. QED
      BY <3>1 DEF GoodHeld, Held
  <2>3. QED
    BY <1>4, <2>1, <2>2
<1>7. QED
  BY <1>3, <1>5, <1>6, NothingHeld, PanelMovesKnown

(* listing the promotions in its way,                                      *)
LEMMA ListOthersKeeps ==
  ASSUME PanelShapes, NEW m \in Manager, ListOthers(m)
  PROVE  PanelShapes' /\ Known(Copies')
<1>1. PICK incoming, others : incoming = panel[m].row /\ others = InTheWay(incoming)
  OBVIOUS
<1>2. others \in Seq(PromoRow) /\ \A k \in DOMAIN others : others[k] \in InTable
  <2>1. PICK P : P = {i \in DOMAIN promos : LET p == promos[i] IN
                        /\ p.id # incoming.id /\ ComputeStatus(p, day) = "active"
                        /\ WithoutTargets(p, incoming) # p}
    OBVIOUS
  <2>2. P \in SUBSET DOMAIN promos
    BY <2>1
  <2>3. others = Kept(promos, P)
    BY <1>1, <2>1 DEF InTheWay
  <2>4. QED
    BY <2>2, <2>3, StaysInTable
<1>3. PICK q : q = [i \in DOMAIN others |-> WithoutTargets(others[i], incoming)]
  OBVIOUS
<1>4. \A i \in DOMAIN others : q[i] \in PromoRow /\ q[i].id = others[i].id /\ q[i].used = others[i].used
  <2> TAKE i \in DOMAIN others
  <2>1. others[i] \in PromoRow /\ q[i] = WithoutTargets(others[i], incoming)
    BY <1>2, <1>3
  <2>2. QED
    BY <2>1, WithoutTargetsIs
<1>5. q \in Seq(PromoRow) /\ DOMAIN q = DOMAIN others
  <2>1. PICK n \in Nat : n = Len(others) /\ DOMAIN others = 1..n
    BY <1>2
  <2>2. q \in [1..n -> PromoRow]
    BY <1>3, <1>4, <2>1
  <2>3. QED
    BY <2>1, <2>2, SequenceOf
<1>6. PICK x : x = [pc |-> "write", row |-> incoming, queue |-> q]
  OBVIOUS
<1>7. Holds(m, x) /\ UNCHANGED promos
  <2>1. panel' = [panel EXCEPT ![m] = x] /\ UNCHANGED promos
    BY <1>1, <1>3, <1>6 DEF ListOthers
  <2>2. QED
    BY <2>1, PanelWritten
<1>8. GoodHeld(x) /\ Held(x) = {q[i] : i \in DOMAIN q}
  BY <1>5, <1>6 DEF GoodHeld, Held
<1>9. Known(Held(x))
  <2> SUFFICES ASSUME NEW i \in DOMAIN q
               PROVE  q[i] \in PromoRow /\ \E c \in Copies : q[i].id = c.id /\ q[i].used = c.used
    BY <1>8 DEF Known
  <2>1. others[i] \in Copies
    BY <1>2, <1>5, CopiesAreKnown
  <2>2. QED
    BY <1>4, <1>5, <2>1
<1>10. QED
  BY <1>7, <1>8, <1>9, TableStays, PanelMovesKnown

(* writing one of them without the targets,                                *)
LEMMA WriteOtherKeeps ==
  ASSUME PanelShapes, NEW m \in Manager, WriteOther(m)
  PROVE  PanelShapes' /\ Known(Copies')
<1>1. PICK r, q : r = panel[m] /\ q = r.queue
  OBVIOUS
<1>2. r.pc = "write" /\ GoodHeld(r) /\ q \in Seq(PromoRow) /\ q # <<>>
  BY <1>1 DEF WriteOther, PanelShapes, GoodHeld
<1>3. Held(r) = {q[i] : i \in DOMAIN q} /\ Held(r) \subseteq Copies
  BY <1>1, <1>2, CopiesAreKnown DEF Held
<1>4. PICK n \in Nat : n = Len(q) /\ n # 0 /\ DOMAIN q = 1..n
  BY <1>2
<1>5. Head(q) \in Copies
  BY <1>2, <1>3, <1>4
<1>6. /\ Tail(q) \in Seq(PromoRow)
      /\ \A i \in DOMAIN Tail(q) : i + 1 \in DOMAIN q /\ Tail(q)[i] = q[i + 1]
  BY <1>2, <1>4
<1>7. PICK x : x = [r EXCEPT !.queue = Tail(@)]
  OBVIOUS
<1>8. Holds(m, x)
  <2>1. panel' = [panel EXCEPT ![m] = x]
    BY <1>1, <1>7 DEF WriteOther, PanelShapes
  <2>2. QED
    BY <2>1, PanelWritten
<1>9. x.pc = "write" /\ x.queue = Tail(q) /\ {"pc", "row", "queue"} \subseteq DOMAIN x
  BY <1>1, <1>2, <1>7 DEF GoodHeld
<1>10. GoodHeld(x) /\ Held(x) = {Tail(q)[i] : i \in DOMAIN Tail(q)}
  BY <1>6, <1>9 DEF GoodHeld, Held
<1>11. Known(Held(x))
  <2>1. Held(x) \subseteq Copies
    BY <1>3, <1>6, <1>10
  <2>2. QED
    BY <2>1, CopiesAreKnown DEF Known
<1>12. CASE promos' = Saved(Head(q))
  <2>1. /\ promos' \in Seq(PromoRow) /\ OneOfEach(promos')
        /\ Known({promos'[i] : i \in DOMAIN promos'})
    BY <1>5, <1>12, WrittenIsKnown
  <2>2. QED
    BY <1>8, <1>10, <1>11, <2>1, PanelMovesKnown
<1>13. CASE UNCHANGED promos
  BY <1>8, <1>10, <1>11, <1>13, TableStays, PanelMovesKnown
<1>14. QED
  BY <1>1, <1>12, <1>13 DEF WriteOther

(* answering the manager,                                                  *)
LEMMA PromotionSavedKeeps ==
  ASSUME PanelShapes, NEW m \in Manager, PromotionSaved(m)
  PROVE  PanelShapes' /\ Known(Copies')
<1>1. Holds(m, NoRequest) /\ UNCHANGED promos
  BY PanelWritten DEF PromotionSaved
<1>2. QED
  BY <1>1, NothingHeld, TableStays, PanelMovesKnown

(* and deleting a promotion.                                               *)
LEMMA DeletePromotionKeeps ==
  ASSUME PanelShapes, NEW m \in Manager, DeletePromotion(m)
  PROVE  PanelShapes' /\ Known(Copies')
<1>1. PICK id \in Ids : promos' = Kept(promos, {i \in DOMAIN promos : promos[i].id # id})
  BY DEF DeletePromotion
<1>2. PICK P : P = {i \in DOMAIN promos : promos[i].id # id}
  OBVIOUS
<1>3. P \in SUBSET DOMAIN promos
  BY <1>2
<1>4. PICK kept : kept = Kept(promos, P)
  OBVIOUS
<1>5. kept \in Seq(PromoRow) /\ OneOfEach(kept) /\ \A k \in DOMAIN kept : kept[k] \in InTable
  BY <1>3, <1>4, StaysInTable
<1>6. Known({kept[k] : k \in DOMAIN kept})
  BY <1>5, CopiesAreKnown DEF Known
<1>7. promos' = kept
  BY <1>1, <1>2, <1>4
<1>8. Holds(m, panel[m]) /\ GoodHeld(panel[m]) /\ Known(Held(panel[m]))
  BY CopiesAreKnown DEF DeletePromotion, Holds, PanelShapes
<1>9. QED
  BY <1>5, <1>6, <1>7, <1>8, PanelMovesKnown

(* Whatever the panel does, it counts no use.                              *)
LEMMA PanelNextKeeps ==
  ASSUME PanelShapes, PanelNext
  PROVE  PanelShapes' /\ Known(Copies')
<1>1. CASE \E m \in Manager : \/ ReadPromotion(m) \/ SavePromotion(m) \/ ListOthers(m)
                            \/ WriteOther(m) \/ PromotionSaved(m) \/ DeletePromotion(m)
  BY <1>1, ReadPromotionKeeps, SavePromotionKeeps, ListOthersKeeps, WriteOtherKeeps,
     PromotionSavedKeeps, DeletePromotionKeeps
<1>2. CASE NextDay
  <2>1. UNCHANGED <<promos, panel>>
    BY <1>2 DEF NextDay
  <2>2. PanelShapes' /\ Copies' = Copies
    BY <2>1 DEF PanelShapes, Copies, InTable, Held, GoodHeld, OneOfEach
  <2>3. QED
    BY <2>2, CopiesAreKnown
<1>3. QED
  BY <1>1, <1>2 DEF PanelNext

-----------------------------------------------------------------------------
(* The counters: the invariant *)

(* Orders with a promotion, and how many of them are counted already or    *)
(* never will be: those of requests that are not about to count it.        *)
OnceEach(s) == s \in Seq(PromoId) /\ \A i, k \in DOMAIN s : s[i] = s[k] => i = k
With(id) == {o \in SavedOrders : id \in orders[o].gave}
Counting == {h \in Handler : job[h].pc = "count"}
Waiting(id) == {h \in Counting : id \in ToSet(job[h].gave)}
Counted(id) == Cardinality(With(id)) - Cardinality(Waiting(id))

(* What a request knows of the promotions it used: what its row will say.  *)
GoodGave(j) ==
  /\ j.pc = "price" => "cart" \in DOMAIN j /\ j.cart \in Cart
  /\ Creates(j) /\ j.pc # "price" =>
       OnceEach(j.gave) /\ "gave" \in DOMAIN j.row /\ j.row.gave = ToSet(j.gave)
  /\ j.pc = "count" => OnceEach(j.gave) /\ j.gave # <<>>

(* The inductive invariant: no copy of a row, in the table or in a         *)
(* manager's hands, says more uses than the orders that name the promotion,*)
(* less those a request has still to count.                                *)
UsageInv ==
  /\ PanelShapes
  /\ \A h \in Handler : GoodGave(job[h])
  /\ IsFiniteSet(SavedOrders) /\ IsFiniteSet(Counting)
  /\ \A o \in SavedOrders : "gave" \in DOMAIN orders[o]
  /\ \A id \in PromoId : Counted(id) >= 0
  /\ \A r \in Copies : r.used <= Counted(r.id)

(* Both numbers are numbers.                                               *)
LEMMA CountedIs ==
  ASSUME UsageInv, NEW id
  PROVE  /\ IsFiniteSet(With(id)) /\ IsFiniteSet(Waiting(id))
         /\ Cardinality(With(id)) \in Nat /\ Cardinality(Waiting(id)) \in Nat
         /\ Counted(id) \in Int
<1>1. IsFiniteSet(With(id))
  BY FS_Subset DEF With, UsageInv
<1>2. IsFiniteSet(Waiting(id))
  BY FS_Subset DEF Waiting, UsageInv
<1>3. Cardinality(With(id)) \in Nat /\ Cardinality(Waiting(id)) \in Nat
  BY <1>1, <1>2, FS_CardinalityType
<1>4. QED
  BY <1>1, <1>2, <1>3 DEF Counted

(* A request that goes on takes no promotion into its count that it did    *)
(* not have there.                                                         *)
GoesOn(j, before) ==
  j.pc = "count" => before.pc = "count" /\ ToSet(j.gave) \subseteq ToSet(before.gave)
SameGave ==
  /\ SavedOrders' = SavedOrders
  /\ \A o \in SavedOrders : "gave" \in DOMAIN orders'[o] /\ orders'[o].gave = orders[o].gave

(* Then what is counted does not become less.                              *)
LEMMA CountedStays ==
  ASSUME UsageInv, NEW h \in Handler, NEW j, Becomes(h, j), GoodGave(j), GoesOn(j, job[h]), SameGave
  PROVE  /\ \A g \in Handler : GoodGave(job'[g])
         /\ IsFiniteSet(SavedOrders') /\ IsFiniteSet(Counting')
         /\ \A o \in SavedOrders' : "gave" \in DOMAIN orders'[o]
         /\ \A id : /\ With(id)' = With(id) /\ Waiting(id)' \subseteq Waiting(id)
                    /\ Counted(id)' \in Int /\ Counted(id)' >= Counted(id)
<1>1. \A g \in Handler : GoodGave(job'[g])
  BY DEF UsageInv, Becomes
<1>2. \A g \in Handler : GoesOn(job'[g], job[g])
  BY DEF Becomes, GoesOn
<1>3. Counting' \subseteq Counting
  BY <1>2 DEF Counting, GoesOn
<1>4. IsFiniteSet(SavedOrders') /\ IsFiniteSet(Counting')
  BY <1>3, FS_Subset DEF UsageInv, SameGave
<1>5. ASSUME NEW id
      PROVE  /\ With(id)' = With(id) /\ Waiting(id)' \subseteq Waiting(id)
             /\ Counted(id)' \in Int /\ Counted(id)' >= Counted(id)
  <2>1. With(id)' = With(id)
    BY DEF With, SameGave
  <2>2. Waiting(id)' \subseteq Waiting(id)
    BY <1>2, <1>3 DEF Waiting, Counting, GoesOn
  <2>3. PICK a, b, c : a = Cardinality(With(id)) /\ b = Cardinality(Waiting(id))
                       /\ c = Cardinality(Waiting(id)')
    OBVIOUS
  <2>4. a \in Nat /\ b \in Nat /\ IsFiniteSet(Waiting(id))
    BY <2>3, CountedIs
  <2>5. c \in Nat /\ c <= b
    <3>1. PICK S, T : S = Waiting(id)' /\ T = Waiting(id)
      OBVIOUS
    <3>2. IsFiniteSet(T) /\ S \subseteq T
      BY <2>2, <2>4, <3>1
    <3>3. Cardinality(S) <= Cardinality(T) /\ IsFiniteSet(S)
      BY <3>2, FS_Subset
    <3>4. Cardinality(S) \in Nat
      BY <3>3, FS_CardinalityType
    <3>5. QED
      BY <2>3, <3>1, <3>3, <3>4
  <2>6. Counted(id) = a - b /\ Counted(id)' = a - c
    <3>1. Counted(id)' = Cardinality(With(id)') - Cardinality(Waiting(id)')
      BY DEF Counted
    <3>2. QED
      BY <2>1, <2>3, <3>1 DEF Counted
  <2>7. QED
    BY <2>1, <2>2, <2>4, <2>5, <2>6
<1>6. QED
  BY <1>1, <1>4, <1>5 DEF SameGave

(* Of a row only its id and its use matter.                                *)
LEMMA StillWithin ==
  ASSUME UsageInv, PanelShapes', Known(Copies'),
         \A g \in Handler : GoodGave(job'[g]),
         IsFiniteSet(SavedOrders'), IsFiniteSet(Counting'),
         \A o \in SavedOrders' : "gave" \in DOMAIN orders'[o],
         \A id : Counted(id)' \in Int /\ Counted(id)' >= Counted(id)
  PROVE  UsageInv'
<1>1. \A id \in PromoId : Counted(id)' >= 0
  <2> TAKE id \in PromoId
  <2>1. Counted(id) \in Int /\ Counted(id) >= 0
    BY CountedIs DEF UsageInv
  <2>2. QED
    BY <2>1
<1>2. \A r \in Copies' : r.used <= Counted(r.id)'
  <2> TAKE r \in Copies'
  <2>1. r \in PromoRow /\ (r.used = 0 \/ \E q \in Copies : r.id = q.id /\ r.used = q.used)
    BY DEF Known
  <2>2. r.id \in PromoId /\ r.used \in Nat
    BY <2>1 DEF PromoRow
  <2>3. Counted(r.id) \in Int /\ Counted(r.id)' \in Int /\ Counted(r.id)' >= Counted(r.id)
    BY CountedIs
  <2>4. CASE r.used = 0
    BY <1>1, <2>2, <2>4
  <2>5. CASE \E q \in Copies : r.id = q.id /\ r.used = q.used
    <3>1. r.used <= Counted(r.id)
      BY <2>5 DEF UsageInv
    <3>2. QED
      BY <2>2, <2>3, <3>1
  <2>6. QED
    BY <2>1, <2>4, <2>5
<1>3. \A g \in Handler : GoodGave(job[g])'
  BY DEF GoodGave, Creates
<1>4. QED
  BY <1>1, <1>2, <1>3 DEF UsageInv

(* A request that goes on while no row of the table is written.            *)
LEMMA RequestGoesOn ==
  ASSUME UsageInv, NEW h \in Handler, NEW j, Becomes(h, j), GoodGave(j), GoesOn(j, job[h]), SameGave,
         UNCHANGED <<promos, panel>>
  PROVE  UsageInv'
<1>1. PanelShapes' /\ Copies' = Copies
  BY DEF UsageInv, PanelShapes, Copies, InTable, Held, GoodHeld, OneOfEach
<1>2. Known(Copies')
  BY <1>1, CopiesAreKnown DEF UsageInv
<1>3. QED
  BY <1>1, <1>2, CountedStays, StillWithin

-----------------------------------------------------------------------------
(* The counters: the steps of a request *)

(* A handler that serves nothing, and rows that stay what they are.        *)
LEMMA NothingToCount ==
  /\ GoodGave(Idle) /\ \A before : GoesOn(Idle, before)
BY DEF GoodGave, GoesOn, Idle, Creates

(* Rows of orders that do not change keep what they name.                  *)
LEMMA RowsStay ==
  ASSUME UsageInv, UNCHANGED orders
  PROVE  SameGave
BY DEF UsageInv, SameGave, SavedOrders

(* A request that makes no order and counts none.                          *)
LEMMA OtherRequest ==
  ASSUME NEW j, ~Creates(j), j.pc # "count"
  PROVE  GoodGave(j) /\ \A before : GoesOn(j, before)
BY DEF GoodGave, GoesOn, Creates

(* What a row gave outlives another change of the row.                     *)
LEMMA RowKeepsGave ==
  ASSUME IInv, UsageInv, NEW o \in SavedOrders, NEW r, orders' = [orders EXCEPT ![o] = r],
         r # NoOrder, "gave" \in DOMAIN r, r.gave = orders[o].gave
  PROVE  SameGave
<1>1. DOMAIN orders = Order /\ o \in Order
  BY DEF IInv, Shapes, SavedOrders
<1>2. SavedOrders' = SavedOrders
  BY <1>1 DEF SavedOrders
<1>3. ASSUME NEW p \in SavedOrders PROVE "gave" \in DOMAIN orders'[p] /\ orders'[p].gave = orders[p].gave
  <2>1. p \in Order /\ "gave" \in DOMAIN orders[p]
    BY DEF SavedOrders, UsageInv
  <2>2. QED
    BY <1>1, <2>1
<1>4. QED
  BY <1>2, <1>3 DEF SameGave

(* One lemma for each step of a request: its start,                        *)
LEMMA BeginOrderCounts ==
  ASSUME IInv, UsageInv, NEW h \in Handler, BeginOrder(h), UNCHANGED panel
  PROVE  UsageInv'
<1>1. PICK c \in Cart, o \in Fresh :
        \E expected, key : \E method \in Method :
          job' = [job EXCEPT ![h] = [pc |-> "price", cart |-> c, method |-> method,
                                     key |-> key, order |-> o, expected |-> expected]]
  BY DEF BeginOrder
<1>2. PICK expected, key, method :
          job' = [job EXCEPT ![h] = [pc |-> "price", cart |-> c, method |-> method,
                                     key |-> key, order |-> o, expected |-> expected]]
  BY <1>1
<1>3. PICK j : j = [pc |-> "price", cart |-> c, method |-> method,
                    key |-> key, order |-> o, expected |-> expected]
  OBVIOUS
<1>4. Becomes(h, j) /\ UNCHANGED <<orders, promos>>
  BY <1>2, <1>3, JobWritten DEF BeginOrder, IInv
<1>5. GoodGave(j) /\ GoesOn(j, job[h])
  BY <1>3 DEF GoodGave, GoesOn
<1>6. QED
  BY <1>4, <1>5, RowsStay, RequestGoesOn

(* The order will name the promotions in its price, each once.             *)
LEMMA CreateExpectingCounts ==
  ASSUME IInv, UsageInv, NEW h \in Handler, CreateExpecting(h), UNCHANGED panel
  PROVE  UsageInv'
<1>1. PICK quote : quote = PriceCart(promos, job[h].cart, Previous, day)
  OBVIOUS
<1>2. PICK j : j = Priced(job[h], quote)
  OBVIOUS
<1>3. job' = [job EXCEPT ![h] = j] /\ job[h].pc = "price" /\ UNCHANGED <<orders, promos>>
  BY <1>1, <1>2 DEF CreateExpecting, IInv, Shapes
<1>4. Becomes(h, j)
  BY <1>3, JobWritten DEF IInv
<1>5. CASE j = Idle
  BY <1>3, <1>4, <1>5, NothingToCount, RowsStay, RequestGoesOn
<1>6. CASE j # Idle
  <2>1. GoodGave(job[h]) /\ PanelShapes
    BY DEF UsageInv
  <2>2. job[h].cart \in Seq(CartLine)
    BY <1>3, <2>1, CartsAreOrdered DEF GoodGave, CartLine
  <2>3. PICK gave : gave = quote.gave
    OBVIOUS
  <2>4. gave \in Seq(Contribution) /\ OneOfEach(gave)
    BY <1>1, <2>1, <2>2, <2>3, GaveOnce DEF PanelShapes
  <2>5. /\ j.pc = IF job[h].method = "wallet" THEN "balance" ELSE "save"
        /\ "gave" \in DOMAIN j.row /\ j.row.gave = {g.id : g \in ToSet(gave)}
        /\ j.gave = [i \in DOMAIN gave |-> gave[i].id]
    BY <1>2, <1>6, <2>3 DEF Priced
  <2>6. PICK n \in Nat : n = Len(gave) /\ DOMAIN gave = 1..n
    BY <2>4
  <2>7. \A i \in 1..n : gave[i].id \in PromoId
    <3>1. \A i \in 1..n : gave[i] \in Contribution
      BY <2>4, <2>6
    <3>2. QED
      BY <3>1 DEF Contribution
  <2>8. j.gave \in [1..n -> PromoId]
    BY <2>5, <2>6, <2>7
  <2>9. j.gave \in Seq(PromoId) /\ DOMAIN j.gave = 1..n
    BY <2>8, SequenceOf
  <2>10. \A i, k \in 1..n : j.gave[i] = j.gave[k] => i = k
    BY <2>4, <2>5, <2>6 DEF OneOfEach
  <2>11. j.row.gave = ToSet(j.gave)
    BY <2>5, <2>6, <2>9 DEF ToSet
  <2>12. GoodGave(j)
    BY <2>5, <2>9, <2>10, <2>11 DEF GoodGave, OnceEach
  <2>13. GoesOn(j, job[h])
    BY <2>5 DEF GoesOn
  <2>14. QED
    BY <1>3, <1>4, <2>12, <2>13, RowsStay, RequestGoesOn
<1>7. QED
  BY <1>5, <1>6

(* the look at the balance,                                                *)
LEMMA CheckBalanceCounts ==
  ASSUME IInv, UsageInv, NEW h \in Handler, CheckBalance(h), UNCHANGED panel
  PROVE  UsageInv'
<1>1. PICK j : j = IF Balance < SpendMin THEN Idle
                   ELSE [pc |-> "lock", entry |-> Entry(job[h].order, "spend", job[h].row.total),
                         order |-> job[h].order, row |-> job[h].row, gave |-> job[h].gave]
  OBVIOUS
<1>2. job' = [job EXCEPT ![h] = j] /\ job[h].pc = "balance" /\ UNCHANGED <<orders, promos>>
  BY <1>1 DEF CheckBalance, IInv, Shapes
<1>3. Becomes(h, j)
  BY <1>2, JobWritten DEF IInv
<1>4. CASE j = Idle
  BY <1>2, <1>3, <1>4, NothingToCount, RowsStay, RequestGoesOn
<1>5. CASE j # Idle
  <2>1. GoodGave(job[h]) /\ Creates(job[h])
    BY <1>2 DEF UsageInv, Creates
  <2>2. j.pc = "lock" /\ j.row = job[h].row /\ j.gave = job[h].gave
    BY <1>1, <1>5
  <2>3. GoodGave(j) /\ GoesOn(j, job[h])
    BY <1>2, <2>1, <2>2 DEF GoodGave, GoesOn
  <2>4. QED
    BY <1>2, <1>3, <2>3, RowsStay, RequestGoesOn
<1>6. QED
  BY <1>4, <1>5

(* A request that makes an order keeps what it knows while it is served.   *)
LEMMA StillCreates ==
  ASSUME IInv, UsageInv, NEW h \in Handler, job[h].pc \in {"lock", "insert"},
         NEW pc, pc \in {"insert", "save", "refunded"}, NEW j, j = [job[h] EXCEPT !.pc = pc],
         pc = "save" => Creates(job[h])
  PROVE  GoodGave(j) /\ GoesOn(j, job[h])
<1>1. GoodJob(job[h]) /\ GoodGave(job[h]) /\ "pc" \in DOMAIN job[h]
  BY DEF IInv, GoodJobs, UsageInv, Shapes
<1>2. {"pc", "entry"} \subseteq DOMAIN job[h]
  BY <1>1 DEF GoodJob, GoodNew, Creates, Returns
<1>3. j.pc = pc /\ j.entry = job[h].entry
  BY <1>1, <1>2
<1>4. CASE Creates(job[h])
  <2>1. {"row", "gave"} \subseteq DOMAIN job[h]
    BY <1>1, <1>4 DEF GoodJob, GoodNew
  <2>2. j.row = job[h].row /\ j.gave = job[h].gave
    BY <2>1
  <2>3. QED
    BY <1>1, <1>3, <1>4, <2>2 DEF GoodGave, GoesOn
<1>5. CASE ~Creates(job[h])
  <2>1. ~Creates(j) /\ j.pc # "count"
    BY <1>3, <1>5 DEF Creates
  <2>2. QED
    BY <2>1, OtherRequest
<1>6. QED
  BY <1>4, <1>5

(* the lock,                                                               *)
LEMMA TakeLockCounts ==
  ASSUME IInv, UsageInv, NEW h \in Handler, TakeLock(h), UNCHANGED panel
  PROVE  UsageInv'
<1>1. job[h].pc = "lock" /\ UNCHANGED <<orders, promos>>
  BY DEF TakeLock
<1>2. CASE job' = [job EXCEPT ![h] = Idle]
  <2>1. Becomes(h, Idle)
    BY <1>2, JobWritten DEF IInv
  <2>2. QED
    BY <1>1, <2>1, NothingToCount, RowsStay, RequestGoesOn
<1>3. CASE job' = [job EXCEPT ![h].pc = "insert"]
  <2>1. PICK j : j = [job[h] EXCEPT !.pc = "insert"]
    OBVIOUS
  <2>2. job' = [job EXCEPT ![h] = j]
    BY <1>3, <2>1 DEF IInv, Shapes
  <2>3. Becomes(h, j)
    BY <2>2, JobWritten DEF IInv
  <2>4. GoodGave(j) /\ GoesOn(j, job[h])
    BY <1>1, <2>1, StillCreates
  <2>5. QED
    BY <1>1, <2>3, <2>4, RowsStay, RequestGoesOn
<1>4. QED
  BY <1>2, <1>3 DEF TakeLock

(* the charge,                                                             *)
LEMMA InsertEntryCounts ==
  ASSUME IInv, UsageInv, NEW h \in Handler, InsertEntry(h), UNCHANGED panel
  PROVE  UsageInv'
<1>1. job[h].pc = "insert" /\ UNCHANGED <<orders, promos>>
  BY DEF InsertEntry
<1>2. PICK j : j = AfterInsert(job[h])
  OBVIOUS
<1>3. Becomes(h, j)
  BY <1>2, JobWritten DEF InsertEntry, IInv, Shapes
<1>4. job[h].entry.type \in {"spend", "refund", "cashback"}
  BY <1>1 DEF IInv, GoodJobs, GoodJob
<1>5. CASE job[h].entry.type = "spend"
  <2>1. j = [job[h] EXCEPT !.pc = "save"] /\ Creates(job[h])
    BY <1>1, <1>2, <1>5 DEF AfterInsert, Creates
  <2>2. GoodGave(j) /\ GoesOn(j, job[h])
    BY <1>1, <2>1, StillCreates
  <2>3. QED
    BY <1>1, <1>3, <2>2, RowsStay, RequestGoesOn
<1>6. CASE job[h].entry.type = "refund"
  <2>1. j = [job[h] EXCEPT !.pc = "refunded"]
    BY <1>2, <1>6 DEF AfterInsert
  <2>2. GoodGave(j) /\ GoesOn(j, job[h])
    BY <1>1, <2>1, StillCreates
  <2>3. QED
    BY <1>1, <1>3, <2>2, RowsStay, RequestGoesOn
<1>7. CASE job[h].entry.type = "cashback"
  <2>1. j = Idle
    BY <1>2, <1>7 DEF AfterInsert
  <2>2. QED
    BY <1>1, <1>3, <2>1, NothingToCount, RowsStay, RequestGoesOn
<1>8. QED
  BY <1>4, <1>5, <1>6, <1>7

(* a cancellation,                                                         *)
LEMMA CancelOrderCounts ==
  ASSUME IInv, UsageInv, NEW h \in Handler, NEW o \in Order, CancelOrder(h, o), UNCHANGED panel
  PROVE  UsageInv'
<1>1. job[h].pc = "idle" /\ orders[o].status = "open" /\ UNCHANGED promos
  BY DEF CancelOrder
<1>2. o \in SavedOrders /\ GoodRow(orders[o]) /\ "gave" \in DOMAIN orders[o]
  BY <1>1 DEF SavedOrders, NoOrder, IInv, Shapes, UsageInv
<1>3. PICK r : r = [orders[o] EXCEPT !.status = "cancelled"]
  OBVIOUS
<1>4. r # NoOrder /\ "gave" \in DOMAIN r /\ r.gave = orders[o].gave
  BY <1>2, <1>3 DEF NoOrder, GoodRow
<1>5. orders' = [orders EXCEPT ![o] = r]
  BY <1>3 DEF CancelOrder, IInv, Shapes
<1>6. SameGave
  BY <1>2, <1>4, <1>5, RowKeepsGave
<1>7. CASE job' = job
  <2>1. Becomes(h, job[h])
    BY <1>7 DEF Becomes, IInv, Shapes
  <2>2. GoodGave(job[h]) /\ GoesOn(job[h], job[h])
    BY <1>1 DEF UsageInv, GoesOn
  <2>3. QED
    BY <1>1, <1>6, <2>1, <2>2, RequestGoesOn
<1>8. CASE job' = [job EXCEPT ![h] = [pc |-> "lock", order |-> o,
                                      entry |-> Entry(o, "refund", orders[o].total)]]
  <2>1. PICK j : j = [pc |-> "lock", order |-> o, entry |-> Entry(o, "refund", orders[o].total)]
    OBVIOUS
  <2>2. Becomes(h, j)
    BY <1>8, <2>1, JobWritten DEF IInv
  <2>3. GoodGave(j) /\ GoesOn(j, job[h])
    BY <2>1 DEF GoodGave, GoesOn, Creates, Entry
  <2>4. QED
    BY <1>1, <1>6, <2>2, <2>3, RequestGoesOn
<1>9. QED
  BY <1>7, <1>8 DEF CancelOrder

(* an order that ends,                                                     *)
LEMMA FinishOrderCounts ==
  ASSUME IInv, UsageInv, NEW h \in Handler, NEW o \in Order, FinishOrder(h, o), UNCHANGED panel
  PROVE  UsageInv'
<1>1. job[h].pc = "idle" /\ orders[o].status = "open" /\ UNCHANGED promos
  BY DEF FinishOrder
<1>2. o \in SavedOrders /\ GoodRow(orders[o]) /\ "gave" \in DOMAIN orders[o]
  BY <1>1 DEF SavedOrders, NoOrder, IInv, Shapes, UsageInv
<1>3. PICK r : r = [orders[o] EXCEPT !.status = "done"]
  OBVIOUS
<1>4. r # NoOrder /\ "gave" \in DOMAIN r /\ r.gave = orders[o].gave
  BY <1>2, <1>3 DEF NoOrder, GoodRow
<1>5. orders' = [orders EXCEPT ![o] = r]
  BY <1>3 DEF FinishOrder, IInv, Shapes
<1>6. SameGave
  BY <1>2, <1>4, <1>5, RowKeepsGave
<1>7. PICK amount : amount = Cashback(orders[o].total)
  OBVIOUS
<1>8. CASE job' = job
  <2>1. Becomes(h, job[h])
    BY <1>8 DEF Becomes, IInv, Shapes
  <2>2. GoodGave(job[h]) /\ GoesOn(job[h], job[h])
    BY <1>1 DEF UsageInv, GoesOn
  <2>3. QED
    BY <1>1, <1>6, <2>1, <2>2, RequestGoesOn
<1>9. CASE job' = [job EXCEPT ![h] = [pc |-> "lock", order |-> o,
                                      entry |-> Entry(o, "cashback", amount)]]
  <2>1. PICK j : j = [pc |-> "lock", order |-> o, entry |-> Entry(o, "cashback", amount)]
    OBVIOUS
  <2>2. Becomes(h, j)
    BY <1>9, <2>1, JobWritten DEF IInv
  <2>3. GoodGave(j) /\ GoesOn(j, job[h])
    BY <2>1 DEF GoodGave, GoesOn, Creates, Entry
  <2>4. QED
    BY <1>1, <1>6, <2>2, <2>3, RequestGoesOn
<1>10. QED
  BY <1>7, <1>8, <1>9 DEF FinishOrder

(* the mark of a refund,                                                   *)
LEMMA PersistRefundedCounts ==
  ASSUME IInv, UsageInv, NEW h \in Handler, PersistRefunded(h), UNCHANGED panel
  PROVE  UsageInv'
<1>1. PICK o : o = job[h].order
  OBVIOUS
<1>2. o \in SavedOrders /\ GoodRow(orders[o]) /\ "gave" \in DOMAIN orders[o] /\ UNCHANGED promos
  <2>1. job[h].pc = "refunded" /\ GoodJob(job[h]) /\ UNCHANGED promos
    BY DEF PersistRefunded, IInv, GoodJobs
  <2>2. o \in SavedOrders
    BY <1>1, <2>1 DEF GoodJob, GoodRefund, SavedOrders
  <2>3. QED
    BY <2>1, <2>2 DEF SavedOrders, IInv, Shapes, UsageInv
<1>3. PICK r : r = [orders[o] EXCEPT !.pay = "refunded"]
  OBVIOUS
<1>4. r # NoOrder /\ "gave" \in DOMAIN r /\ r.gave = orders[o].gave
  BY <1>2, <1>3 DEF NoOrder, GoodRow
<1>5. orders' = [orders EXCEPT ![o] = r]
  BY <1>1, <1>3 DEF PersistRefunded, IInv, Shapes
<1>6. SameGave
  BY <1>2, <1>4, <1>5, RowKeepsGave
<1>7. Becomes(h, Idle)
  BY JobWritten DEF PersistRefunded, IInv
<1>8. QED
  BY <1>2, <1>6, <1>7, NothingToCount, RequestGoesOn

(* and a request that is given up.                                         *)
LEMMA AbandonCounts ==
  ASSUME IInv, UsageInv, NEW h \in Handler, Abandon(h), UNCHANGED panel
  PROVE  UsageInv'
<1>1. Becomes(h, Idle) /\ UNCHANGED <<orders, promos>>
  BY JobWritten DEF Abandon, IInv
<1>2. QED
  BY <1>1, NothingToCount, RowsStay, RequestGoesOn

-----------------------------------------------------------------------------
(* The counters: counting a use, and the invariant always holds *)

(* One more.                                                               *)
LEMMA OneMoreOf ==
  ASSUME NEW S, IsFiniteSet(S), NEW x, x \notin S
  PROVE  IsFiniteSet(S \cup {x}) /\ Cardinality(S \cup {x}) = Cardinality(S) + 1
         /\ Cardinality(S) \in Nat
BY FS_AddElement, FS_CardinalityType

(* One less.                                                               *)
LEMMA OneLessOf ==
  ASSUME NEW S, IsFiniteSet(S), NEW x \in S, NEW T, T \subseteq S \ {x}
  PROVE  IsFiniteSet(T) /\ Cardinality(T) \in Nat /\ Cardinality(S) \in Nat
         /\ Cardinality(T) + 1 <= Cardinality(S)
<1>1. PICK R : R = S \ {x}
  OBVIOUS
<1>2. IsFiniteSet(R) /\ x \notin R /\ R \cup {x} = S
  BY <1>1, FS_Subset
<1>3. Cardinality(S) = Cardinality(R) + 1 /\ Cardinality(R) \in Nat
  BY <1>2, OneMoreOf
<1>4. IsFiniteSet(T) /\ Cardinality(T) <= Cardinality(R)
  BY <1>1, <1>2, FS_Subset
<1>5. Cardinality(T) \in Nat
  BY <1>4, FS_CardinalityType
<1>6. QED
  BY <1>3, <1>4, <1>5

(* A saved order is one more with its promotions, and each of them has one *)
(* more request about to count it.                                         *)
LEMMA SaveOrderCounts ==
  ASSUME IInv, UsageInv, NEW h \in Handler, SaveOrder(h), UNCHANGED panel
  PROVE  UsageInv'
<1>1. job[h].pc = "save" /\ UNCHANGED promos /\ GoodJob(job[h]) /\ Creates(job[h])
      /\ GoodGave(job[h])
  BY DEF SaveOrder, IInv, GoodJobs, Creates, UsageInv
<1>2. PICK o, row, gave : o = job[h].order /\ row = job[h].row /\ gave = job[h].gave
  OBVIOUS
<1>3. o \in Order /\ orders[o] = NoOrder /\ GoodRow(row)
  BY <1>1, <1>2 DEF GoodJob, GoodNew
<1>4. OnceEach(gave) /\ "gave" \in DOMAIN row /\ row.gave = ToSet(gave)
  BY <1>1, <1>2 DEF GoodGave
<1>5. CASE job' = [job EXCEPT ![h] = Idle] /\ UNCHANGED orders
  <2>1. Becomes(h, Idle)
    BY <1>5, JobWritten DEF IInv
  <2>2. QED
    BY <1>1, <1>5, <2>1, NothingToCount, RowsStay, RequestGoesOn
<1>6. CASE /\ orders' = [orders EXCEPT ![o] = row]
           /\ job' = [job EXCEPT ![h] = IF @.gave = <<>> THEN Idle
                                        ELSE [pc |-> "count", order |-> @.order, gave |-> @.gave]]
  <2>1. PICK j : j = IF gave = <<>> THEN Idle ELSE [pc |-> "count", order |-> o, gave |-> gave]
    OBVIOUS
  <2>2. Becomes(h, j)
    <3>1. job' = [job EXCEPT ![h] = j]
      BY <1>2, <1>6, <2>1 DEF IInv, Shapes
    <3>2. QED
      BY <3>1, JobWritten DEF IInv
  <2>3. /\ gave = <<>> => j.pc = "idle"
        /\ gave # <<>> => j.pc = "count" /\ j.gave = gave
    BY <2>1 DEF Idle
  <2>4. \A g \in Handler : GoodGave(job'[g])
    <3>1. GoodGave(j)
      BY <1>4, <2>3 DEF GoodGave, Creates
    <3>2. QED
      BY <2>2, <3>1 DEF UsageInv, Becomes
  <2>5. row # NoOrder /\ o \notin SavedOrders /\ DOMAIN orders = Order
    BY <1>3 DEF GoodRow, NoOrder, SavedOrders, IInv, Shapes
  <2>6. orders'[o] = row /\ \A p \in Order : p # o => orders'[p] = orders[p]
    BY <1>3, <1>6, <2>5
  <2>7. SavedOrders' = SavedOrders \cup {o}
    BY <1>3, <2>5, <2>6 DEF SavedOrders
  <2>8. IsFiniteSet(SavedOrders') /\ \A p \in SavedOrders' : "gave" \in DOMAIN orders'[p]
    <3>1. IsFiniteSet(SavedOrders')
      BY <2>7, FS_AddElement DEF UsageInv
    <3>2. \A p \in SavedOrders : p \in Order /\ p # o /\ "gave" \in DOMAIN orders[p]
      BY <2>5 DEF UsageInv, SavedOrders
    <3>3. QED
      BY <1>4, <2>6, <2>7, <3>1, <3>2
  <2>9. h \notin Counting /\ Counting' \subseteq Counting \cup {h} /\ IsFiniteSet(Counting')
    <3>1. h \notin Counting
      BY <1>1 DEF Counting
    <3>2. Counting' \subseteq Counting \cup {h}
      BY <2>2 DEF Counting, Becomes
    <3>3. IsFiniteSet(Counting \cup {h})
      BY FS_AddElement DEF UsageInv
    <3>4. QED
      BY <3>1, <3>2, <3>3, FS_Subset
  <2>10. ASSUME NEW id PROVE Counted(id)' \in Int /\ Counted(id)' >= Counted(id)
    <3>1. Counted(id)' = Cardinality(With(id)') - Cardinality(Waiting(id)')
      BY DEF Counted
    <3>2. \A g \in Handler : g # h => job'[g] = job[g]
      BY <2>2 DEF Becomes
    <3>3. job'[h] = j
      BY <2>2 DEF Becomes
    <3>4. CASE id \in ToSet(gave)
      <4>1. With(id)' = With(id) \cup {o} /\ o \notin With(id)
        <5>1. \A p \in SavedOrders : orders'[p] = orders[p]
          BY <2>5, <2>6 DEF SavedOrders
        <5>2. QED
          BY <1>4, <2>5, <2>6, <2>7, <3>4, <5>1 DEF With
      <4>2. gave # <<>>
        BY <3>4 DEF ToSet
      <4>3. Waiting(id)' = Waiting(id) \cup {h} /\ h \notin Waiting(id)
        BY <2>3, <2>9, <3>2, <3>3, <3>4, <4>2 DEF Waiting, Counting
      <4>4. PICK S, T : S = With(id) /\ T = Waiting(id)
        OBVIOUS
      <4>5. IsFiniteSet(S) /\ IsFiniteSet(T)
        BY <4>4, CountedIs
      <4>6. /\ Cardinality(S \cup {o}) = Cardinality(S) + 1 /\ Cardinality(S) \in Nat
            /\ Cardinality(T \cup {h}) = Cardinality(T) + 1 /\ Cardinality(T) \in Nat
        BY <4>1, <4>3, <4>4, <4>5, OneMoreOf
      <4>7. Counted(id)' = Cardinality(S \cup {o}) - Cardinality(T \cup {h})
            /\ Counted(id) = Cardinality(S) - Cardinality(T)
        BY <3>1, <4>1, <4>3, <4>4 DEF Counted
      <4>8. QED
        BY <4>6, <4>7
    <3>5. CASE id \notin ToSet(gave)
      <4>1. With(id)' = With(id)
        <5>1. \A p \in SavedOrders : orders'[p] = orders[p]
          BY <2>5, <2>6 DEF SavedOrders
        <5>2. QED
          BY <1>4, <2>5, <2>6, <2>7, <3>5, <5>1 DEF With
      <4>2. Waiting(id)' = Waiting(id)
        BY <2>3, <2>9, <3>2, <3>3, <3>5 DEF Waiting, Counting
      <4>3. Counted(id)' = Counted(id)
        BY <3>1, <4>1, <4>2 DEF Counted
      <4>4. Counted(id) \in Int
        BY CountedIs
      <4>5. QED
        BY <4>3, <4>4
    <3>6. QED
      BY <3>4, <3>5
  <2>11. PanelShapes' /\ Copies' = Copies
    BY <1>1 DEF UsageInv, PanelShapes, Copies, InTable, Held, GoodHeld, OneOfEach
  <2>12. Known(Copies')
    BY <2>11, CopiesAreKnown DEF UsageInv
  <2>13. QED
    BY <2>4, <2>8, <2>9, <2>10, <2>11, <2>12, StillWithin
<1>7. QED
  BY <1>2, <1>5, <1>6 DEF SaveOrder

(* A list without its first element, when each is there once.              *)
LEMMA WithoutFirst ==
  ASSUME NEW s, OnceEach(s), s # <<>>
  PROVE  /\ OnceEach(Tail(s)) /\ ToSet(Tail(s)) \subseteq ToSet(s)
         /\ Head(s) \in ToSet(s) /\ Head(s) \notin ToSet(Tail(s)) /\ Head(s) \in PromoId
<1>1. s \in Seq(PromoId)
  BY DEF OnceEach
<1>2. PICK n \in Nat : n = Len(s) /\ n # 0 /\ DOMAIN s = 1..n
  BY <1>1
<1>3. PICK t : t = Tail(s)
  OBVIOUS
<1>4. t \in Seq(PromoId) /\ DOMAIN t = 1..(n - 1) /\ \A i \in 1..(n - 1) : t[i] = s[i + 1] /\ i + 1 \in 1..n
  BY <1>1, <1>2, <1>3
<1>5. Head(s) = s[1] /\ 1 \in 1..n
  BY <1>1, <1>2
<1>6. \A i, k \in 1..n : s[i] = s[k] => i = k
  BY <1>2 DEF OnceEach
<1>7. OnceEach(t)
  <2> SUFFICES ASSUME NEW i \in 1..(n - 1), NEW k \in 1..(n - 1), t[i] = t[k] PROVE i = k
    BY <1>4 DEF OnceEach
  <2>1. i + 1 = k + 1
    BY <1>4, <1>6
  <2>2. QED
    BY <2>1
<1>8. ToSet(t) \subseteq ToSet(s)
  BY <1>2, <1>4 DEF ToSet
<1>9. Head(s) \in ToSet(s) /\ Head(s) \in PromoId
  BY <1>1, <1>2, <1>5 DEF ToSet
<1>10. Head(s) \notin ToSet(t)
  <2> SUFFICES ASSUME NEW i \in 1..(n - 1), t[i] = s[1] PROVE FALSE
    BY <1>4, <1>5 DEF ToSet
  <2>1. i + 1 = 1
    BY <1>4, <1>5, <1>6
  <2>2. QED
    BY <2>1
<1>11. QED
  BY <1>3, <1>7, <1>8, <1>9, <1>10

(* One counter is one more, and so is what has been counted.               *)
LEMMA CountUseCounts ==
  ASSUME IInv, UsageInv, NEW h \in Handler, CountUse(h), UNCHANGED panel
  PROVE  UsageInv'
<1>1. PICK gave : gave = job[h].gave
  OBVIOUS
<1>2. /\ job[h].pc = "count" /\ UNCHANGED orders /\ GoodGave(job[h])
      /\ {"pc", "order", "gave"} \subseteq DOMAIN job[h] /\ OnceEach(gave) /\ gave # <<>>
  <2>1. job[h].pc = "count" /\ UNCHANGED orders /\ GoodGave(job[h]) /\ GoodJob(job[h])
        /\ "pc" \in DOMAIN job[h]
    BY DEF CountUse, UsageInv, IInv, GoodJobs, Shapes
  <2>2. QED
    BY <1>1, <2>1 DEF GoodGave, GoodJob
<1>3. PICK id : id = Head(gave)
  OBVIOUS
<1>4. PICK left : left = Tail(gave)
  OBVIOUS
<1>5. /\ OnceEach(left) /\ ToSet(left) \subseteq ToSet(gave)
      /\ id \in ToSet(gave) /\ id \notin ToSet(left) /\ id \in PromoId
  BY <1>2, <1>3, <1>4, WithoutFirst
<1>6. PICK j : j = IF left = <<>> THEN Idle ELSE [job[h] EXCEPT !.gave = left]
  OBVIOUS
<1>7. Becomes(h, j)
  <2>1. job' = [job EXCEPT ![h] = j]
    BY <1>1, <1>4, <1>6 DEF CountUse, IInv, Shapes
  <2>2. QED
    BY <2>1, JobWritten DEF IInv
<1>8. /\ left = <<>> => j.pc = "idle"
      /\ left # <<>> => j.pc = "count" /\ j.gave = left
  BY <1>2, <1>6 DEF Idle
<1>9. GoodGave(j) /\ GoesOn(j, job[h])
  BY <1>1, <1>2, <1>5, <1>8 DEF GoodGave, GoesOn, Creates
<1>10. /\ \A g \in Handler : GoodGave(job'[g])
       /\ IsFiniteSet(SavedOrders') /\ IsFiniteSet(Counting')
       /\ \A o \in SavedOrders' : "gave" \in DOMAIN orders'[o]
       /\ \A x : /\ With(x)' = With(x) /\ Waiting(x)' \subseteq Waiting(x)
                 /\ Counted(x)' \in Int /\ Counted(x)' >= Counted(x)
  BY <1>2, <1>7, <1>9, RowsStay, CountedStays
<1>11. Counted(id) + 1 <= Counted(id)'
  <2>1. h \in Waiting(id)
    BY <1>1, <1>2, <1>5 DEF Waiting, Counting
  <2>2. h \notin Waiting(id)'
    <3>1. job'[h] = j
      BY <1>7 DEF Becomes
    <3>2. QED
      BY <1>5, <1>8, <3>1 DEF Waiting, Counting
  <2>3. PICK S, T, W : S = Waiting(id) /\ T = Waiting(id)' /\ W = With(id)
    OBVIOUS
  <2>4. IsFiniteSet(S) /\ h \in S /\ T \subseteq S \ {h} /\ Cardinality(W) \in Nat
    BY <1>10, <2>1, <2>2, <2>3, CountedIs
  <2>5. Cardinality(T) \in Nat /\ Cardinality(S) \in Nat /\ Cardinality(T) + 1 <= Cardinality(S)
    BY <2>4, OneLessOf
  <2>6. Counted(id) = Cardinality(W) - Cardinality(S) /\ Counted(id)' = Cardinality(W) - Cardinality(T)
    <3>1. Counted(id)' = Cardinality(With(id)') - Cardinality(Waiting(id)')
      BY DEF Counted
    <3>2. QED
      BY <1>10, <2>3, <3>1 DEF Counted
  <2>7. QED
    BY <2>4, <2>5, <2>6
<1>12. PICK s : s = [i \in DOMAIN promos |->
                       IF promos[i].id = id THEN [promos[i] EXCEPT !.used = @ + 1] ELSE promos[i]]
  OBVIOUS
<1>13. promos' = s
  BY <1>1, <1>3, <1>12 DEF CountUse, IncrementUsage
<1>14. promos \in Seq(PromoRow) /\ OneOfEach(promos)
  BY DEF UsageInv, PanelShapes
<1>15. ASSUME NEW i \in DOMAIN promos
       PROVE  /\ s[i] \in PromoRow /\ s[i].id = promos[i].id
              /\ s[i].used = IF promos[i].id = id THEN promos[i].used + 1 ELSE promos[i].used
  <2>1. PICK p : p = promos[i]
    OBVIOUS
  <2>2. p \in PromoRow
    BY <1>14, <2>1
  <2>3. PICK u : u = p.used + 1
    OBVIOUS
  <2>4. u \in Nat
    BY <2>2, <2>3 DEF PromoRow
  <2>5. PICK q : q = [p EXCEPT !.used = u]
    OBVIOUS
  <2>6. q \in PromoRow /\ q.id = p.id /\ q.used = u
    BY <2>2, <2>4, <2>5 DEF PromoRow
  <2>7. s[i] = IF p.id = id THEN q ELSE p
    BY <1>12, <2>1, <2>3, <2>5
  <2>8. QED
    BY <2>1, <2>2, <2>3, <2>6, <2>7
<1>16. s \in Seq(PromoRow) /\ DOMAIN s = DOMAIN promos
  <2>1. PICK n \in Nat : n = Len(promos) /\ DOMAIN promos = 1..n
    BY <1>14
  <2>2. s \in [1..n -> PromoRow]
    BY <1>12, <1>15, <2>1
  <2>3. QED
    BY <2>1, <2>2, SequenceOf
<1>17. OneOfEach(s)
  BY <1>14, <1>15, <1>16 DEF OneOfEach
<1>18. PanelShapes'
  BY <1>13, <1>16, <1>17 DEF UsageInv, PanelShapes, GoodHeld, OneOfEach
<1>19. \A x \in PromoId : Counted(x)' >= 0
  <2> TAKE x \in PromoId
  <2>1. Counted(x) \in Int /\ Counted(x) >= 0
    BY CountedIs DEF UsageInv
  <2>2. Counted(x)' \in Int /\ Counted(x)' >= Counted(x)
    BY <1>10
  <2>3. QED
    BY <2>1, <2>2
<1>20. \A r \in Copies' : r.used <= Counted(r.id)'
  <2> TAKE r \in Copies'
  <2>1. r \in InTable' \/ r \in Copies
    BY DEF Copies, Held
  <2>2. CASE r \in Copies
    <3>1. r.used \in Nat /\ r.used <= Counted(r.id)
      BY <2>2, CopiesAreKnown DEF UsageInv, Known, PromoRow
    <3>2. Counted(r.id) \in Int /\ Counted(r.id)' \in Int /\ Counted(r.id)' >= Counted(r.id)
      BY <1>10, CountedIs
    <3>3. QED
      BY <3>1, <3>2
  <2>3. CASE r \in InTable'
    <3>1. PICK i \in DOMAIN promos : r = s[i]
      BY <1>13, <1>16, <2>3 DEF InTable
    <3>2. PICK p : p = promos[i]
      OBVIOUS
    <3>3. p.used \in Nat /\ p.used <= Counted(p.id)
      <4>1. p \in Copies /\ p \in PromoRow
        BY <1>14, <3>2 DEF Copies, InTable
      <4>2. QED
        BY <4>1 DEF UsageInv, PromoRow
    <3>4. r.id = p.id /\ r.used = IF p.id = id THEN p.used + 1 ELSE p.used
      BY <1>15, <3>1, <3>2
    <3>5. Counted(p.id) \in Int /\ Counted(p.id)' \in Int /\ Counted(p.id)' >= Counted(p.id)
      BY <1>10, CountedIs
    <3>6. CASE p.id = id
      BY <1>11, <3>3, <3>4, <3>5, <3>6
    <3>7. CASE p.id # id
      BY <3>3, <3>4, <3>5, <3>7
    <3>8. QED
      BY <3>6, <3>7
  <2>4. QED
    BY <2>1, <2>2, <2>3
<1>21. \A g \in Handler : GoodGave(job[g])'
  BY <1>10 DEF GoodGave, Creates
<1>22. QED
  BY <1>10, <1>18, <1>19, <1>20, <1>21 DEF UsageInv

(* Nothing is known and nothing is bought at the start.                    *)
LEMMA UsageInvInit ==
  ASSUME Init
  PROVE  UsageInv
<1>1. promos = <<>> /\ panel = [m \in Manager |-> NoRequest]
      /\ orders = [o \in Order |-> NoOrder] /\ job = [h \in Handler |-> Idle]
  BY DEF Init, PanelInit
<1>2. promos \in Seq(PromoRow) /\ DOMAIN promos = {}
  BY <1>1
<1>3. PanelShapes
  BY <1>1, <1>2, NothingHeld DEF PanelShapes, OneOfEach
<1>4. Copies = {}
  BY <1>1, <1>2, NothingHeld DEF Copies, InTable
<1>5. SavedOrders = {} /\ Counting = {}
  BY <1>1 DEF SavedOrders, Counting, Idle
<1>6. \A h \in Handler : GoodGave(job[h])
  BY <1>1, NothingToCount
<1>7. \A id \in PromoId : Counted(id) >= 0
  <2> TAKE id \in PromoId
  <2>1. With(id) = {} /\ Waiting(id) = {}
    BY <1>5 DEF With, Waiting
  <2>2. Cardinality({}) = 0
    BY FS_EmptySet
  <2>3. QED
    BY <2>1, <2>2 DEF Counted
<1>8. QED
  BY <1>3, <1>4, <1>5, <1>6, <1>7, FS_EmptySet DEF UsageInv

(* Orders, and the panel beside them.                                      *)
LEMMA UsageInvNext ==
  ASSUME IInv, UsageInv, [Next]_vars
  PROVE  UsageInv'
<1>1. CASE CheckoutNext /\ UNCHANGED <<panel, day, switch, hours, clock, shown>>
  <2>1. PICK h \in Handler :
          \/ BeginOrder(h) \/ CreateExpecting(h) \/ CheckBalance(h) \/ TakeLock(h) \/ InsertEntry(h)
          \/ SaveOrder(h) \/ CountUse(h) \/ PersistRefunded(h) \/ Abandon(h)
          \/ \E o \in Order : CancelOrder(h, o) \/ FinishOrder(h, o)
    BY <1>1 DEF CheckoutNext
  <2>2. UNCHANGED panel
    BY <1>1
  <2>3. CASE BeginOrder(h) \/ CreateExpecting(h) \/ CheckBalance(h) \/ TakeLock(h) \/ InsertEntry(h)
    BY <2>2, <2>3, BeginOrderCounts, CreateExpectingCounts, CheckBalanceCounts, TakeLockCounts,
       InsertEntryCounts
  <2>4. CASE SaveOrder(h) \/ CountUse(h) \/ PersistRefunded(h) \/ Abandon(h)
    BY <2>2, <2>4, SaveOrderCounts, CountUseCounts, PersistRefundedCounts, AbandonCounts
  <2>5. CASE \E o \in Order : CancelOrder(h, o) \/ FinishOrder(h, o)
    BY <2>2, <2>5, CancelOrderCounts, FinishOrderCounts
  <2>6. QED
    BY <2>1, <2>3, <2>4, <2>5
<1>2. ASSUME PanelShapes', Known(Copies'), UNCHANGED <<orders, job>> PROVE UsageInv'
  <2>1. /\ \A g \in Handler : GoodGave(job'[g])
        /\ IsFiniteSet(SavedOrders') /\ IsFiniteSet(Counting')
        /\ \A o \in SavedOrders' : "gave" \in DOMAIN orders'[o]
    BY <1>2 DEF UsageInv, SavedOrders, Counting
  <2>2. ASSUME NEW id PROVE Counted(id)' \in Int /\ Counted(id)' >= Counted(id)
    <3>1. Counted(id)' = Counted(id)
      BY <1>2 DEF Counted, With, Waiting, Counting, SavedOrders
    <3>2. Counted(id) \in Int
      BY CountedIs
    <3>3. QED
      BY <3>1, <3>2
  <2>3. QED
    BY <1>2, <2>1, <2>2, StillWithin
<1>3. CASE PanelNext /\ UNCHANGED <<switch, hours, clock, shown, ledger, lock, orders, job>>
  <2>1. PanelShapes' /\ Known(Copies')
    BY <1>3, PanelNextKeeps DEF UsageInv
  <2>2. QED
    BY <1>2, <1>3, <2>1
<1>4. CASE UNCHANGED <<promos, panel, orders, job>>
  <2>1. PanelShapes' /\ Copies' = Copies
    BY <1>4 DEF UsageInv, PanelShapes, Copies, InTable, Held, GoodHeld, OneOfEach
  <2>2. Known(Copies')
    BY <2>1, CopiesAreKnown DEF UsageInv
  <2>3. QED
    BY <1>2, <1>4, <2>1, <2>2
<1>5. QED
  BY <1>1, <1>3, <1>4 DEF Next, vars

(* The table, its copies and the orders keep their shapes.                 *)
LEMMA UsageInvariance == Spec => []UsageInv
<1>1. Init => UsageInv
  BY UsageInvInit
<1>2. IInv /\ UsageInv /\ [Next]_vars => UsageInv'
  BY UsageInvNext
<1>3. QED
  BY <1>1, <1>2, Invariance, PTL DEF Spec

(* A promotion's counter never says more than there are orders with it,    *)
(* for any restaurant, panel, carts and handlers, although the panel writes*)
(* back whole rows it read before (IncrementUsage, savePromotion).         *)
THEOREM UsageIsRealHolds == Spec => []UsageIsReal
<1>1. UsageInv => UsageIsReal
  <2> SUFFICES ASSUME UsageInv, NEW p \in ToSet(promos)
               PROVE  p.used <= Cardinality({o \in SavedOrders : p.id \in orders[o].gave})
    BY DEF UsageIsReal
  <2>1. p \in Copies
    BY DEF Copies, InTable, ToSet
  <2>2. p \in PromoRow
    BY <2>1, CopiesAreKnown DEF UsageInv, Known
  <2>3. p.used \in Nat /\ p.used <= Counted(p.id)
    BY <2>1, <2>2 DEF UsageInv, PromoRow
  <2>4. PICK a, b : a = Cardinality(With(p.id)) /\ b = Cardinality(Waiting(p.id))
    OBVIOUS
  <2>5. a \in Nat /\ b \in Nat /\ Counted(p.id) = a - b
    BY <2>4, CountedIs DEF Counted
  <2>6. p.used <= a
    BY <2>3, <2>5
  <2>7. QED
    BY <2>4, <2>6 DEF With
<1>2. QED
  BY <1>1, UsageInvariance, PTL

(* Whatever promotions the panel leaves behind, the price a customer is    *)
(* asked for follows the rules, for any menu, forms, carts and dates       *)
(* (priceCart, promotions.Apply).                                          *)
THEOREM QuoteIsFairHolds == Spec => []QuoteIsFair
<1>1. UsageInv => QuoteIsFair
  <2> SUFFICES ASSUME UsageInv, NEW h \in Handler, job[h].pc = "price"
               PROVE  IsFair(promos, job[h].cart, Previous, day)
    BY DEF QuoteIsFair
  <2>1. promos \in Seq(PromoRow) /\ OneOfEach(promos)
    BY DEF UsageInv, PanelShapes
  <2>2. job[h].cart \in Seq(CartLine)
    BY CartsAreOrdered DEF UsageInv, GoodGave, CartLine
  <2>3. QED
    BY <2>1, <2>2, PriceIsFair
<1>2. QED
  BY <1>1, UsageInvariance, PTL
=============================================================================
