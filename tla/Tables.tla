------------------------------- MODULE Tables -------------------------------
(***************************************************************************)
(* The tables of one restaurant and the orders made at them                *)
(* (internal/tables, routes_tables.go, routes_waiter.go): requests of the  *)
(* panel, orders of waiters and of guests who scanned a QR code, one step  *)
(* for each call of the storage.  Zone, kind and label of a table are one  *)
(* name here, written in small or in capital letters.                      *)
(***************************************************************************)
EXTENDS Integers, FiniteSets, Functions

CONSTANTS
  TableId, OrderId,
  Name,      \* addresses of tables: zone, kind and label
  Host,      \* requests of the panel under way at once
  Waiter,    \* waiters, one request each at a time
  Guest,     \* guests who have scanned a code
  Key,       \* idempotency keys chosen by the waiters' application
  NoKey,     \* the order of a guest has none
  MaxTables, \* MaxTablesPerRestaurant
  MaxHour    \* bound: the clock

ASSUME TablesAssumption == MaxTables \in Nat /\ MaxHour \in Nat \ {0}
ASSUME NoKeyIsNone == NoKey \notin Waiter \X Key

VARIABLES
  tables,    \* restaurant_tables
  dine,      \* orders at tables
  hour,      \* the clock
  hall,      \* the request of each person
  answered   \* what waiters were told: key, table and order

tablesVars == <<tables, dine, hour, hall, answered>>

Person == Host \cup Waiter \cup Guest
NoTable == [mark |-> -1]
NoOrder == [at |-> 0]
Rest == [pc |-> "rest"]

Unmarked == 0
Set == {t \in TableId : tables[t] # NoTable}
Made == {o \in OrderId : dine[o] # NoOrder}
FreshOrder == CHOOSE o \in OrderId : dine[o] = NoOrder

(* The unique index compares letters as they are written.                  *)
SameSlot(a, b) == a.name = b.name
SameEntry(a, b) == a.name = b.name /\ a.upper = b.upper

Does(h, job) == hall' = [hall EXCEPT ![h] = job]
Done(h) == Does(h, Rest)

-----------------------------------------------------------------------------
(* What the panel shows *)

OpenAt(t) == {o \in Made : dine[o].table = t /\ dine[o].open}
OrdersAt(t) == {o \in Made : dine[o].table = t}

MarkHolds(t) == /\ tables[t].mark # Unmarked
                /\ \A o \in OrdersAt(t) : dine[o].at <= tables[t].mark

StatusOf(t) == CASE OpenAt(t) # {} -> "occupied"
                 [] OpenAt(t) = {} /\ ~tables[t].active -> "inactive"
                 [] OpenAt(t) = {} /\ tables[t].active /\ MarkHolds(t) -> "cleaning"
                 [] OTHER -> "available"

-----------------------------------------------------------------------------
(* The panel: add, edit, delete *)

NewTables == {[name |-> n, upper |-> u, active |-> TRUE, mark |-> Unmarked] :
                n \in Name, u \in BOOLEAN}

(* CreateTable, CreateBatch: the list is read and compared, the rows are   *)
(* written later, all of them or none.                                     *)
Batches == {{[name |-> n, upper |-> u, active |-> TRUE, mark |-> Unmarked] : n \in Name} : u \in BOOLEAN}

Add(h) == \E rows \in {{row} : row \in NewTables} \cup Batches :
  /\ hall[h] = Rest
  /\ Cardinality(Set) + Cardinality(rows) <= MaxTables
  /\ \A t \in Set, row \in rows : ~SameSlot(tables[t], row)
  /\ Does(h, [pc |-> "insert", rows |-> rows])
  /\ UNCHANGED <<tables, dine, answered>>

Insert(h) ==
  LET rows == hall[h].rows
      place == CHOOSE f \in Injection(rows, TableId \ Set) : TRUE IN
  /\ hall[h].pc = "insert" /\ Cardinality(rows) <= Cardinality(TableId \ Set)
  /\ tables' = IF \E t \in Set, row \in rows : SameEntry(tables[t], row) THEN tables
               ELSE [t \in TableId |-> IF \E row \in rows : place[row] = t
                                       THEN CHOOSE row \in rows : place[row] = t ELSE tables[t]]
  /\ Done(h) /\ UNCHANGED <<dine, answered>>

(* Cleaning: a mark that is there already keeps its time.                  *)
Marked(row, on) == [row EXCEPT !.mark = IF ~on THEN Unmarked
                                        ELSE IF @ = Unmarked THEN hour ELSE @]

Edits(row) == {[row EXCEPT !.name = n] : n \in Name} \cup {[row EXCEPT !.upper = u] : u \in BOOLEAN}
              \cup {[row EXCEPT !.active = a] : a \in BOOLEAN}

Edited(t, row, clean) ==
  [pc |-> IF SameEntry(row, tables[t]) THEN "write" ELSE "siblings",
   table |-> t, row |-> row, clean |-> clean]

Edit(h) == \E t \in Set :
  /\ hall[h] = Rest
  /\ \/ \E row \in Edits(tables[t]) : Does(h, Edited(t, row, FALSE))
     \/ \E on \in BOOLEAN : Does(h, Edited(t, Marked(tables[t], on), on))
  /\ UNCHANGED <<tables, dine, answered>>

Siblings(h) == LET job == hall[h] IN
  /\ job.pc = "siblings"
  /\ IF \E t \in Set \ {job.table} : SameSlot(tables[t], job.row)
     THEN Done(h) ELSE Does(h, [job EXCEPT !.pc = "write"])
  /\ UNCHANGED <<tables, dine, answered>>

(* The whole row, as it was read and changed.                              *)
Write(h) == LET job == hall[h] IN
  /\ job.pc = "write"
  /\ tables' = IF job.table \notin Set
                  \/ \E t \in Set \ {job.table} : SameEntry(tables[t], job.row)
               THEN tables ELSE [tables EXCEPT ![job.table] = job.row]
  /\ Done(h) /\ UNCHANGED <<dine, answered>>

(* DELETE /tables/{id}: a table with an open order is not deleted.         *)
Delete(h) == \E t \in Set :
  /\ hall[h] = Rest /\ OpenAt(t) = {}
  /\ Does(h, [pc |-> "remove", table |-> t])
  /\ UNCHANGED <<tables, dine, answered>>

Deleted(h) ==
  /\ hall[h].pc = "remove"
  /\ tables' = [tables EXCEPT ![hall[h].table] = NoTable]
  /\ Done(h) /\ UNCHANGED <<dine, answered>>

-----------------------------------------------------------------------------
(* Orders *)

Order(t, key) == [table |-> t, key |-> key, at |-> hour, open |-> TRUE]

(* GET /tables/resolve of a guest, and his order some time later.          *)
Scan(g) == \E t \in Set :
  /\ hall[g] = Rest /\ tables[t].active
  /\ Does(g, [pc |-> "guest", table |-> t])
  /\ UNCHANGED <<tables, dine, answered>>

GuestOrders(g) ==
  /\ hall[g].pc = "guest" /\ Made # OrderId
  /\ dine' = [dine EXCEPT ![FreshOrder] = Order(hall[g].table, NoKey)]
  /\ Done(g) /\ UNCHANGED <<tables, answered>>

(* POST /waiter/orders: the table is read, the key is looked up, the order *)
(* is saved unless somebody saved the key meanwhile.                       *)
Ask(w) == \E t \in Set, k \in Key :
  /\ hall[w] = Rest /\ tables[t].active
  /\ Does(w, [pc |-> "find", table |-> t, key |-> <<w, k>>])
  /\ UNCHANGED <<tables, dine, answered>>

WithKey(key) == {o \in Made : dine[o].key = key}

(* Another table's order is no answer: 409.                                *)
Answer(w, o) ==
  /\ answered' = IF dine'[o].table = hall[w].table
                 THEN answered \cup {<<hall[w].key, hall[w].table, o>>} ELSE answered
  /\ Done(w)

Find(w) == LET found == WithKey(hall[w].key) IN
  /\ hall[w].pc = "find"
  /\ UNCHANGED <<tables, dine>>
  /\ IF found = {} THEN Does(w, [hall[w] EXCEPT !.pc = "save"]) /\ UNCHANGED answered
     ELSE Answer(w, CHOOSE o \in found : TRUE)

(* Mutant: two requests with one key both save.                            *)
SaveBlindly(w) ==
  /\ hall[w].pc = "save" /\ Made # OrderId
  /\ UNCHANGED tables
  /\ dine' = [dine EXCEPT ![FreshOrder] = Order(hall[w].table, hall[w].key)]
  /\ Answer(w, FreshOrder)

SaveOrder(w) == LET taken == WithKey(hall[w].key) IN
  /\ hall[w].pc = "save" /\ Made # OrderId
  /\ UNCHANGED tables
  /\ IF taken # {}
     THEN UNCHANGED dine /\ Answer(w, CHOOSE o \in taken : TRUE)
     ELSE /\ dine' = [dine EXCEPT ![FreshOrder] = Order(hall[w].table, hall[w].key)]
          /\ Answer(w, FreshOrder)

(* The waiter's connection is lost: he sends the request again, while the  *)
(* first one goes on as a request of its own.                              *)
Again(w, v) == /\ hall[w].pc \in {"find", "save"} /\ hall[v] = Rest
               /\ Does(v, [hall[w] EXCEPT !.pc = "find"])
               /\ UNCHANGED <<tables, dine, answered>>

(* The order is served or cancelled.                                       *)
Finish(o) == /\ dine[o].open /\ dine' = [dine EXCEPT ![o].open = FALSE]
             /\ UNCHANGED <<tables, hall, answered>>

-----------------------------------------------------------------------------
TablesInit == /\ tables = [t \in TableId |-> NoTable] /\ dine = [o \in OrderId |-> NoOrder]
              /\ hour = 1 /\ hall = [h \in Person |-> Rest] /\ answered = {}

TablesNext ==
  \/ /\ UNCHANGED hour
     /\ \/ \E h \in Host : \/ Add(h) \/ Insert(h) \/ Edit(h) \/ Siblings(h) \/ Write(h)
                           \/ Delete(h) \/ Deleted(h)
        \/ \E g \in Guest : Scan(g) \/ GuestOrders(g)
        \/ \E w \in Waiter : Ask(w) \/ Find(w) \/ SaveOrder(w)
        \/ \E w, v \in Waiter : Again(w, v)
        \/ \E o \in Made : Finish(o)
  \/ /\ hour < MaxHour /\ hour' = hour + 1
     /\ UNCHANGED <<tables, dine, hall, answered>>

-----------------------------------------------------------------------------
(* Properties *)

TablesTypeOK ==
  /\ \A t \in Set : tables[t] \in [name : Name, upper : BOOLEAN, active : BOOLEAN, mark : 0..hour]
  /\ \A t, s \in Set : t # s => ~SameEntry(tables[t], tables[s])
  /\ \A o \in Made : dine[o].at \in 1..hour /\ dine[o].table \in TableId
  /\ answered \subseteq (Waiter \X Key) \X TableId \X OrderId

(* However often a waiter sends an order again, also while the first       *)
(* request is still under way and the table is edited or removed, the      *)
(* kitchen gets it once, and nobody is answered with an order of another   *)
(* table or another waiter (POST /waiter/orders, rule 5).                  *)
OneOrderPerKey ==
  /\ \A a, b \in answered : a[1] = b[1] => a[3] = b[3]
  /\ \A a \in answered : dine[a[3]].key = a[1] /\ dine[a[3]].table = a[2]
  /\ \A o, p \in Made : dine[o].key # NoKey /\ dine[o].key = dine[p].key => o = p

(* A request to show a table as being cleaned writes a mark that counts:   *)
(* none of the orders already made there is younger (Patch.Cleaning: the   *)
(* time is written at that moment).  Not so: a mark that has lapsed counts *)
(* as one that is there already, and its time is kept.                     *)
MarkIsSeen == [][\A h \in Host :
  hall[h] = Rest /\ hall'[h].pc = "write" /\ hall'[h].clean =>
    \A o \in OrdersAt(hall'[h].table) : dine[o].at <= hall'[h].row.mark]_tablesVars

(* A table with an open order is not deleted.  Not so: the order comes     *)
(* between the check and the deletion.                                     *)
OccupiedStays == [][\A t \in Set : OpenAt(t) # {} => tables'[t] # NoTable]_tablesVars

(* No order reaches a table that is closed.  Not so, likewise.             *)
ClosedTakesNone == [][\A o \in OrderId : dine[o] = NoOrder /\ dine'[o] # NoOrder =>
  LET t == dine'[o].table IN t \in Set /\ tables[t].active]_tablesVars

(* No two tables differ only in the case of letters.  Not so: the index    *)
(* does not stop what both requests had checked.                           *)
NamesDiffer == \A t, s \in Set : SameSlot(tables[t], tables[s]) => t = s
=============================================================================
