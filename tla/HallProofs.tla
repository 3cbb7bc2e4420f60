----------------------------- MODULE HallProofs -----------------------------
(***************************************************************************)
(* Proofs about the staff, the report and the tables of a restaurant, for  *)
(* any number of members, managers, accounts, waiters and orders.          *)
(*                                                                         *)
(* The staff: a row and the account it names are found by the same phone,  *)
(* and phones of accounts are unique.  Requests that concern different     *)
(* members and phones therefore never touch one account, and what a        *)
(* request has read stays true until it writes.  An account that works is  *)
(* either the account of an active row or in the hands of a request that   *)
(* has opened it and will save the row or close the account again.         *)
(*                                                                         *)
(* The report: the oldest event since a day tells what was before it, and  *)
(* a new event is always the newest.                                       *)
(***************************************************************************)
EXTENDS Hall, FiniteSetTheorems, WellFoundedInduction, TLAPS

-----------------------------------------------------------------------------
(* The staff: what holds whatever requests overlap *)

Step == {"phone", "close", "busy", "turn", "open", "link", "activate", "save"}
Disabling == {"close", "busy", "turn"}
Opening == {"open", "link"}
Opened == {"activate", "save"}

Requests == [pc : Step, m : Member, old : Rows \cup {Nobody}, new : Rows, undo : BOOLEAN]

People == {a \in Accounts : /\ a.role = "customer" => a.entity = None
                            /\ a.role = "waiter" => a.entity = Here
                            /\ a.role = "courier" => a.entity \in Member}

(* Where a request stands, from its own reads alone.                       *)
InOrder(r) ==
  /\ r.undo => r.pc \in Disabling /\ Opens(r) /\ r.new.user # None
  /\ ~r.undo /\ r.pc \in Disabling => Closes(r)
  /\ ~r.undo /\ r.pc \in Disabling \cup {"phone"} => r.new.user = r.old.user
  /\ r.pc \in Opening \cup {"activate"} => Opens(r)
  /\ r.pc \in Opened /\ Opens(r) => r.new.user # None
  /\ r.pc = "activate" => r.new.position = "courier"
  /\ r.pc \in Opening /\ r.new.user # None => r.new.user = r.old.user /\ ~PhoneChanged(r)
  /\ r.pc \in Opening \cup Opened /\ ~Closes(r) /\ r.old.user # None => r.new.user = r.old.user
  /\ r.pc = "save" /\ ~Opens(r) /\ r.new.user # None => r.new.user = r.old.user /\ ~PhoneChanged(r)

(* An account a row or a request may name.                                 *)
OfStaff(u) == u \in UserId /\ account[u] # NoAccount /\ u \notin foreign

Busy(g) == request[g] # Idle

StaffShape ==
  /\ staff \in [Member -> Rows \cup {NoMember}]
  /\ Hired \subseteq made
  /\ account \in [UserId -> People \cup {NoAccount}]
  /\ courier \in [Member -> [approved : BOOLEAN, available : BOOLEAN]]
  /\ request \in [Manager -> Requests \cup {Idle}]
  /\ foreign \subseteq UserId

(* What holds whatever requests overlap.                                  *)
StaffBase ==
  /\ StaffShape
  /\ \A g \in Manager : Busy(g) => InOrder(request[g])
  /\ \A u \in foreign : account[u] # NoAccount /\ account[u].role = "customer"
  /\ \A m \in Hired : staff[m].user # None => OfStaff(staff[m].user)
  /\ \A g \in Manager : Busy(g) =>
       /\ request[g].m \in made
       /\ request[g].old.user # None => OfStaff(request[g].old.user)
       /\ request[g].new.user # None => OfStaff(request[g].new.user)

-----------------------------------------------------------------------------
(* The staff: what holds while requests are apart *)

(* The account of member m.                                                *)
AccountOf(u, m, phone) == /\ account[u].phone = phone
                          /\ account[u].role = "courier" => account[u].entity = m

RowsNameTheirs ==
  /\ \A m \in Hired : staff[m].user # None => AccountOf(staff[m].user, m, staff[m].phone)
  /\ \A m, x \in Hired : staff[m].user # None /\ staff[m].user = staff[x].user => m = x
  /\ \A u, v \in UserId : account[u] # NoAccount /\ account[v] # NoAccount
                          /\ account[u].phone = account[v].phone => u = v

(* What a request has read and done is still so.                           *)
UpToDate(r) ==
  /\ r.old = IF r.m \in Hired THEN staff[r.m] ELSE Nobody
  /\ r.new.user # None => \/ r.new.user = r.old.user
                          \/ AccountOf(r.new.user, r.m, r.new.phone)
  /\ r.pc \in Opened /\ Opens(r) => /\ Belongs(r.new.user, r)
                                    /\ account[r.new.user].phone = r.new.phone
  /\ r.pc \in Opening \cup Opened /\ Closes(r) =>
       \/ account[r.old.user].role = "customer"
       \/ r.pc \in Opened /\ Opens(r) /\ r.new.user = r.old.user
  /\ r.pc = "link" /\ r.new.user # None => account[r.new.user].role = "customer"
  /\ r.pc = "busy" => account[Closing(r)].role = "courier"
  /\ r.pc \in {"busy", "turn"} /\ account[Closing(r)].role = "courier" => ~courier[r.m].approved

RequestsApart ==
  \A g, h \in Manager : g # h /\ Busy(g) /\ Busy(h) => Apart(request[g], request[h])

(* Whoever works is accounted for.                                         *)
HasRow(u) == \E m \in Hired : /\ staff[m].user = u /\ AccessEffective(staff[m])
                              /\ staff[m].position = account[u].role
InHand(u, r) == /\ r.new.user = u
                /\ r.undo \/ (r.pc \in Opened /\ Opens(r))

Accounted ==
  \A u \in UserId \ leaked : account[u] # NoAccount /\ account[u].role # "customer" =>
    HasRow(u) \/ \E g \in Manager : Busy(g) /\ InHand(u, request[g])

(* What holds of requests that are apart.                                  *)
StaffApart ==
  /\ RequestsApart /\ RowsNameTheirs
  /\ \A g \in Manager : Busy(g) => UpToDate(request[g])
  /\ ApprovedMeansLinked
  /\ Accounted

(* The inductive invariant of the staff.                                   *)
StaffInv == StaffBase /\ (~Overlap => StaffApart)

-----------------------------------------------------------------------------
(* The tables *)

Orders == [table : TableId, key : (Waiter \X Key) \cup {NoKey}, at : Nat \ {0}, open : BOOLEAN]
KeyJobs == [pc : {"find", "save"}, table : TableId, key : Waiter \X Key]

(* The inductive invariant of the tables: an order has its key from when   *)
(* it is made, no key is saved twice, and an answer names the order of its *)
(* key and table.                                                          *)
TablesInv ==
  /\ hour \in Nat \ {0}
  /\ dine \in [OrderId -> Orders \cup {NoOrder}]
  /\ DOMAIN hall = Person
  /\ \A h \in Person : /\ "pc" \in DOMAIN hall[h]
                       /\ hall[h].pc \in {"find", "save"} => hall[h] \in KeyJobs
                       /\ hall[h].pc = "guest" => hall[h].table \in TableId
  /\ answered \subseteq (Waiter \X Key) \X TableId \X OrderId
  /\ \A a \in answered : a[3] \in Made /\ dine[a[3]].key = a[1] /\ dine[a[3]].table = a[2]
  /\ \A o, p \in Made : dine[o].key # NoKey /\ dine[o].key = dine[p].key => o = p

-----------------------------------------------------------------------------
(* A request from step to step *)

(* The same request, later.                                                *)
Continues(r, s) ==
  /\ s \in Requests /\ InOrder(s)
  /\ s.m = r.m /\ s.old = r.old
  /\ s.new.phone = r.new.phone /\ s.new.position = r.new.position
  /\ s.new.status = r.new.status /\ s.new.app = r.new.app

(* What a row asks for does not depend on the account it names.            *)
LEMMA SameWish ==
  ASSUME NEW r \in Requests, NEW s \in Requests, s.old = r.old,
         s.new.phone = r.new.phone, s.new.position = r.new.position,
         s.new.status = r.new.status, s.new.app = r.new.app
  PROVE  /\ Want(s) <=> Want(r)
         /\ PhoneChanged(s) <=> PhoneChanged(r)
         /\ Opens(s) <=> Opens(r)
         /\ Closes(s) <=> Closes(r)
BY DEF Want, Had, PhoneChanged, Relink, Opens, Closes, AccessEffective

(* Values that stand for nothing are no values.                            *)
LEMMA Nothing ==
  /\ NoMember \notin Rows /\ Nobody \notin Rows /\ NoAccount \notin People
  /\ Idle \notin Requests
<1>1. NoMember \notin Rows
  <2> SUFFICES ASSUME NoMember \in Rows PROVE FALSE
    OBVIOUS
  <2>1. NoMember.phone \in Phone
    BY DEF Rows
  <2> QED
    BY <2>1, NoneIsAbsent DEF NoMember
<1>2. Nobody \notin Rows
  BY NoneIsAbsent DEF Nobody, Rows
<1>3. NoAccount \notin People
  <2> SUFFICES ASSUME NoAccount \in People PROVE FALSE
    OBVIOUS
  <2>1. NoAccount.phone \in Phone
    BY DEF People, Accounts
  <2> QED
    BY <2>1, NoneIsAbsent DEF NoAccount
<1>4. Idle \notin Requests
  <2> SUFFICES ASSUME Idle \in Requests PROVE FALSE
    OBVIOUS
  <2>1. Idle.pc \in Step
    BY DEF Requests
  <2> QED
    BY <2>1 DEF Idle, Step
<1> QED
  BY <1>1, <1>2, <1>3, <1>4

(* A request that has read the row, and checked the phone if it must.      *)
LEMMA SyncContinues ==
  ASSUME NEW r \in Requests, ~r.undo, r.new.user = r.old.user
  PROVE  /\ Continues(r, Sync(r)) /\ Sync(r).new = r.new
         /\ Sync(r).pc \in {"close", "open", "save"}
         /\ Sync(r).pc = "close" <=> Closes(r)
         /\ Sync(r).pc = "open" => Opens(r)
         /\ Sync(r).pc = "save" => ~Opens(r)
         /\ ~Sync(r).undo
<1> DEFINE s == Sync(r)
<1>1. s \in Requests /\ s.m = r.m /\ s.old = r.old /\ s.new = r.new /\ s.undo = r.undo
  BY DEF Requests, Step, Sync, Close, Open
<1>2. /\ s.pc \in {"close", "open", "save"} /\ (s.pc = "close" <=> Closes(r))
      /\ (s.pc = "open" => Opens(r)) /\ (s.pc = "save" => ~Opens(r))
  BY DEF Requests, Step, Sync, Close, Open
<1>3. (Opens(s) <=> Opens(r)) /\ (Closes(s) <=> Closes(r)) /\ (PhoneChanged(s) <=> PhoneChanged(r))
  BY <1>1, SameWish
<1>4. r.new.user # None /\ ~Closes(r) => ~PhoneChanged(r)
  BY DEF Closes, Relink, PhoneChanged
<1>5. InOrder(s)
  <2> HIDE DEF s
  <2> QED
    BY <1>1, <1>2, <1>3, <1>4 DEF InOrder, Disabling, Opening, Opened
<1> QED
  BY <1>1, <1>2, <1>5 DEF Continues

(* The account is closed, or there was none: the request opens one, saves  *)
(* the row, or ends if it was only taking back what it had done.           *)
LEMMA ClosedContinues ==
  ASSUME NEW r \in Requests, InOrder(r), r.pc \in Disabling
  PROVE  /\ r.undo => Closed(r) = Idle
         /\ ~r.undo => /\ Continues(r, Closed(r)) /\ ~Closed(r).undo
                       /\ Closed(r).pc = IF Opens(r) THEN "open" ELSE "save"
                       /\ Closed(r).new.user = IF PhoneChanged(r) THEN None ELSE r.new.user
<1>1. r.undo => Closed(r) = Idle
  BY DEF Closed
<1> SUFFICES ASSUME ~r.undo
             PROVE  /\ Continues(r, Closed(r)) /\ ~Closed(r).undo
                    /\ Closed(r).pc = IF Opens(r) THEN "open" ELSE "save"
                    /\ Closed(r).new.user = IF PhoneChanged(r) THEN None ELSE r.new.user
  BY <1>1
<1> DEFINE q == IF PhoneChanged(r) THEN [r EXCEPT !.new.user = None] ELSE r
           s == Open(q)
<1>2. Closed(r) = s
  BY DEF Closed
<1>3. /\ q \in Requests /\ q.m = r.m /\ q.old = r.old /\ q.undo = r.undo
      /\ q.new.phone = r.new.phone /\ q.new.position = r.new.position
      /\ q.new.status = r.new.status /\ q.new.app = r.new.app
      /\ q.new.user = IF PhoneChanged(r) THEN None ELSE r.new.user
  BY DEF Requests, Rows
<1>4. Opens(q) <=> Opens(r)
  BY <1>3, SameWish
<1> HIDE DEF q
<1>5. /\ s \in Requests /\ s.m = q.m /\ s.old = q.old /\ s.undo = q.undo /\ s.new = q.new
      /\ s.pc = IF Opens(q) THEN "open" ELSE "save"
  BY <1>3 DEF Requests, Step, Open
<1>6. (Opens(s) <=> Opens(r)) /\ (Closes(s) <=> Closes(r)) /\ (PhoneChanged(s) <=> PhoneChanged(r))
  BY <1>3, <1>5, SameWish
<1> HIDE DEF s
<1>7. InOrder(s)
  BY <1>3, <1>4, <1>5, <1>6 DEF InOrder, Disabling, Opening, Opened
<1> QED
  BY <1>2, <1>3, <1>4, <1>5, <1>7 DEF Continues

(* An account is found, opened again or made.                              *)
LEMMA LinkedContinues ==
  ASSUME NEW r \in Requests, InOrder(r), r.pc \in Opening, NEW u \in UserId,
         r.new.user # None => u = r.new.user
  PROVE  /\ Continues(r, Linked(r, u)) /\ Linked(r, u).undo = r.undo /\ ~r.undo
         /\ Linked(r, u).new.user = u /\ Linked(r, u).pc \in Opened
         /\ Opens(Linked(r, u)) /\ Opens(r)
<1> DEFINE s == Linked(r, u)
<1>1. /\ s \in Requests /\ s.m = r.m /\ s.old = r.old /\ s.undo = r.undo
      /\ s.new.phone = r.new.phone /\ s.new.position = r.new.position
      /\ s.new.status = r.new.status /\ s.new.app = r.new.app /\ s.new.user = u
      /\ s.pc = IF r.new.position = "courier" THEN "activate" ELSE "save"
  BY DEF Linked, Requests, Rows, Step
<1>2. (Opens(s) <=> Opens(r)) /\ (Closes(s) <=> Closes(r)) /\ (PhoneChanged(s) <=> PhoneChanged(r))
  BY <1>1, SameWish
<1> HIDE DEF s
<1>3. u # None
  BY NoneIsAbsent
<1>4. Opens(r) /\ ~r.undo
  BY DEF InOrder, Opening, Disabling
<1>5. InOrder(s)
  BY <1>1, <1>2, <1>3, <1>4 DEF InOrder, Disabling, Opening, Opened
<1> QED
  BY <1>1, <1>2, <1>4, <1>5 DEF Continues, Opened, s

-----------------------------------------------------------------------------
(* The staff, whatever requests overlap: one lemma for each action *)

(* A request may stand so in the table of requests.                        *)
Sound(s) == s = Idle \/ /\ s \in Requests /\ InOrder(s) /\ s.m \in made
                        /\ s.old.user # None => OfStaff(s.old.user)
                        /\ s.new.user # None => OfStaff(s.new.user)

(* Rows stay, and so do accounts that anybody may name.                    *)
LEMMA BaseStep ==
  ASSUME StaffBase, NEW g \in Manager, NEW s, Sound(s)',
         request' = [request EXCEPT ![g] = s],
         UNCHANGED <<staff, foreign>>, made \subseteq made',
         account' \in [UserId -> People \cup {NoAccount}],
         courier' \in [Member -> [approved : BOOLEAN, available : BOOLEAN]],
         \A u \in foreign : account'[u] = account[u],
         \A u \in UserId : OfStaff(u) => account'[u] # NoAccount
  PROVE  StaffBase'
<1>1. request' \in [Manager -> Requests \cup {Idle}]
  BY DEF StaffBase, StaffShape, Sound
<1>2. \A u \in UserId : OfStaff(u) => OfStaff(u)'
  BY DEF OfStaff
<1>3. \A q : Sound(q) => Sound(q)'
  BY <1>2 DEF Sound, OfStaff
<1>4. \A h \in Manager : Sound(request[h])'
  <2> TAKE h \in Manager
  <2>1. request'[h] = IF h = g THEN s ELSE request[h]
    BY DEF StaffBase, StaffShape
  <2>2. Sound(request[h])
    BY DEF StaffBase, StaffShape, Busy, Sound
  <2>3. CASE h = g
    BY <2>1, <2>3 DEF Sound, OfStaff
  <2>4. CASE h # g
    <3> DEFINE q == request[h]
    <3>1. Sound(q)'
      BY <2>1, <2>2, <2>4, <1>2 DEF Sound, OfStaff
    <3> QED
      BY <3>1
  <2> QED
    BY <2>3, <2>4
<1>5. StaffShape'
  BY <1>1 DEF StaffBase, StaffShape, Hired
<1>6. \A u \in foreign' : account'[u] # NoAccount /\ account'[u].role = "customer"
  BY DEF StaffBase
<1>7. \A m \in Hired' : staff'[m].user # None => OfStaff(staff[m].user)'
  <2> TAKE m \in Hired'
  <2>1. m \in Hired /\ staff'[m] = staff[m]
    BY DEF Hired
  <2>2. staff[m].user # None => OfStaff(staff[m].user)
    BY <2>1 DEF StaffBase
  <2> QED
    BY <1>2, <2>1, <2>2 DEF OfStaff
<1>8. \A h \in Manager : Busy(h)' => /\ InOrder(request'[h]) /\ request'[h].m \in made'
                                     /\ request'[h].old.user # None => OfStaff(request[h].old.user)'
                                     /\ request'[h].new.user # None => OfStaff(request[h].new.user)'
  BY <1>4 DEF Sound, Busy
<1> QED
  BY <1>5, <1>6, <1>7, <1>8 DEF StaffBase

(* A new request.                                                          *)
LEMMA BeginContinues ==
  ASSUME NEW g \in Manager, NEW m \in Member, NEW old \in Rows \cup {Nobody}, NEW new \in Rows,
         new.user = old.user, Begin(g, m, old, new)
  PROVE  \E s \in Requests :
           /\ request' = [request EXCEPT ![g] = s] /\ InOrder(s)
           /\ s.m = m /\ s.old = old /\ s.new = new /\ ~s.undo
           /\ s.pc \in {"phone", "close", "open", "save"}
           /\ s.pc \in {"open", "save"} => ~Closes(s)
           /\ s.pc = "save" => ~Opens(s)
           /\ ~Overlap => \A h \in Manager : Busy(h) => Apart(s, request[h])
<1> DEFINE r == [pc |-> "phone", m |-> m, old |-> old, new |-> new, undo |-> FALSE]
<1>1. r \in Requests /\ InOrder(r)
  BY DEF Requests, Step, InOrder, Disabling, Opening, Opened
<1>2. PICK s \in {r, Sync(r)} : request' = [request EXCEPT ![g] = s]
  BY DEF Begin
<1>3. ~Overlap => \A h \in Manager : Busy(h) => Apart(r, request[h])
  BY DEF Begin, Busy
<1>4. /\ Continues(r, Sync(r)) /\ Sync(r).new = r.new
      /\ Sync(r).pc \in {"close", "open", "save"}
      /\ Sync(r).pc = "close" <=> Closes(r)
      /\ Sync(r).pc = "save" => ~Opens(r)
      /\ ~Sync(r).undo
  <2> HIDE DEF r
  <2>1. ~r.undo /\ r.new.user = r.old.user
    BY DEF r
  <2> QED
    BY <1>1, <2>1, SyncContinues
<1>5. /\ r.m = m /\ r.old = old /\ r.new = new /\ ~r.undo /\ r.pc = "phone"
  OBVIOUS
<1> HIDE DEF r
<1>6. /\ s \in Requests /\ InOrder(s) /\ s.m = m /\ s.old = old /\ s.new = new /\ ~s.undo
      /\ s.pc \in {"phone", "close", "open", "save"}
  BY <1>1, <1>2, <1>4, <1>5 DEF Continues
<1>7. (Closes(s) <=> Closes(r)) /\ (Opens(s) <=> Opens(r))
  BY <1>1, <1>5, <1>6, SameWish
<1>8. ~Overlap => \A h \in Manager : Busy(h) => Apart(s, request[h])
  BY <1>3, <1>5, <1>6 DEF Apart, Phones
<1>9. s.pc \in {"open", "save"} => ~Closes(s) /\ (s.pc = "save" => ~Opens(s))
  BY <1>2, <1>4, <1>5, <1>7
<1> QED
  BY <1>2, <1>6, <1>8, <1>9

(* What a manager may type is a row.                                       *)
LEMMA NewRowsAreRows ==
  /\ \A new \in NewRows : new \in Rows /\ new.user = None
  /\ \A row \in Rows : \A new \in Patched(row) : new \in Rows /\ new.user = row.user
<1>1. \A new \in NewRows : new \in Rows /\ new.user = None
  BY DEF NewRows, Rows, Status
<1>2. ASSUME NEW row \in Rows, NEW p \in Position
      PROVE  MoveTo(row, p) \in Rows /\ MoveTo(row, p).user = row.user
  BY DEF MoveTo, Rows, AllowsApp
<1>3. ASSUME NEW row \in Rows, NEW new \in Patched(row) PROVE new \in Rows /\ new.user = row.user
  <2>1. CASE new \in {MoveTo(row, p) : p \in Position}
    BY <1>2, <2>1
  <2>2. CASE new \in {[row EXCEPT !.phone = p] : p \in Phone}
    BY <2>2 DEF Rows
  <2>3. CASE new \in {[row EXCEPT !.status = s] : s \in Status}
    BY <2>3 DEF Rows
  <2>4. CASE new \in {[row EXCEPT !.app = a] : a \in BOOLEAN}
    BY <2>4 DEF Rows
  <2> QED
    BY <2>1, <2>2, <2>3, <2>4 DEF Patched
<1> QED
  BY <1>1, <1>3

(* A request begins about a member who is there, or about a new one.       *)
LEMMA BeginIs ==
  ASSUME StaffShape, NEW g \in Manager, Create(g) \/ Update(g)
  PROVE  \E s \in Requests :
           /\ request[g] = Idle /\ request' = [request EXCEPT ![g] = s] /\ InOrder(s)
           /\ s.old = IF s.m \in Hired THEN staff[s.m] ELSE Nobody
           /\ s.new.user = s.old.user /\ ~s.undo
           /\ s.pc \in {"phone", "close", "open", "save"}
           /\ s.pc \in {"open", "save"} => ~Closes(s)
           /\ s.pc = "save" => ~Opens(s)
           /\ made \subseteq made' /\ s.m \in made'
           /\ ~Overlap => \A h \in Manager : Busy(h) => Apart(s, request[h])
<1>1. CASE Create(g)
  <2>1. PICK m \in Member, new \in NewRows : m \notin made /\ made' = made \cup {m} /\ Begin(g, m, Nobody, new)
    BY <1>1 DEF Create
  <2>2. new \in Rows /\ new.user = Nobody.user
    BY NewRowsAreRows DEF Nobody
  <2>3. m \notin Hired
    BY <2>1 DEF StaffShape
  <2>4. PICK s \in Requests :
           /\ request' = [request EXCEPT ![g] = s] /\ InOrder(s)
           /\ s.m = m /\ s.old = Nobody /\ s.new = new /\ ~s.undo
           /\ s.pc \in {"phone", "close", "open", "save"}
           /\ s.pc \in {"open", "save"} => ~Closes(s)
           /\ s.pc = "save" => ~Opens(s)
           /\ ~Overlap => \A h \in Manager : Busy(h) => Apart(s, request[h])
    BY <2>1, <2>2, BeginContinues
  <2>5. request[g] = Idle
    BY <2>1 DEF Begin
  <2> QED
    BY <2>1, <2>2, <2>3, <2>4, <2>5
<1>2. CASE Update(g)
  <2>1. PICK m \in Hired : \E new \in Patched(staff[m]) : Begin(g, m, staff[m], new)
    BY <1>2 DEF Update
  <2>2. PICK new \in Patched(staff[m]) : Begin(g, m, staff[m], new)
    BY <2>1
  <2>3. m \in Member /\ staff[m] \in Rows /\ m \in made
    BY DEF Hired, StaffShape
  <2>4. new \in Rows /\ new.user = staff[m].user
    BY <2>3, NewRowsAreRows
  <2>5. PICK s \in Requests :
           /\ request' = [request EXCEPT ![g] = s] /\ InOrder(s)
           /\ s.m = m /\ s.old = staff[m] /\ s.new = new /\ ~s.undo
           /\ s.pc \in {"phone", "close", "open", "save"}
           /\ s.pc \in {"open", "save"} => ~Closes(s)
           /\ s.pc = "save" => ~Opens(s)
           /\ ~Overlap => \A h \in Manager : Busy(h) => Apart(s, request[h])
    BY <2>2, <2>3, <2>4, BeginContinues
  <2>6. request[g] = Idle /\ made' = made
    BY <1>2, <2>2 DEF Begin, Update
  <2> QED
    BY <2>3, <2>4, <2>5, <2>6
<1> QED
  BY <1>1, <1>2

(* A new request names no foreign account (Create, Update, SetStatus).     *)
LEMMA BeginBase ==
  ASSUME StaffBase, NEW g \in Manager, Create(g) \/ Update(g),
         UNCHANGED <<staff, account, courier, ride, foreign, leaked>>
  PROVE  StaffBase'
<1>1. PICK s \in Requests :
           /\ request' = [request EXCEPT ![g] = s] /\ InOrder(s)
           /\ s.old = IF s.m \in Hired THEN staff[s.m] ELSE Nobody
           /\ s.new.user = s.old.user
           /\ made \subseteq made' /\ s.m \in made'
  BY BeginIs DEF StaffBase
<1>2. s.old.user # None => OfStaff(s.old.user)
  BY <1>1 DEF StaffBase, Nobody
<1>3. Sound(s)'
  BY <1>1, <1>2 DEF Sound, OfStaff
<1> QED
  BY <1>1, <1>3, BaseStep DEF StaffBase, StaffShape, OfStaff

(* The request of manager g that is under way.                             *)
LEMMA UnderWay ==
  ASSUME StaffBase, NEW g \in Manager, "pc" \in DOMAIN request[g], request[g].pc # "idle"
  PROVE  /\ request[g] \in Requests /\ InOrder(request[g]) /\ Busy(g)
         /\ request[g].old.user # None => OfStaff(request[g].old.user)
         /\ request[g].new.user # None => OfStaff(request[g].new.user)
<1>1. Busy(g)
  BY DEF Busy, Idle
<1> QED
  BY <1>1 DEF StaffBase, StaffShape, Busy

(* A manager is idle or has a request with a step of its own.              *)
LEMMA Stands ==
  ASSUME StaffShape, NEW g \in Manager
  PROVE  "pc" \in DOMAIN request[g] /\ (request[g] = Idle <=> request[g].pc = "idle")
<1>1. CASE request[g] = Idle
  BY <1>1 DEF Idle
<1>2. CASE request[g] \in Requests
  BY <1>2 DEF Requests, Step, Idle
<1> QED
  BY <1>1, <1>2 DEF StaffShape

(* After the check of the phone the request goes on or ends.               *)
LEMMA CheckPhoneIs ==
  ASSUME StaffBase, NEW g \in Manager, CheckPhone(g)
  PROVE  /\ request[g] \in Requests /\ request[g].pc = "phone"
         /\ \E s : /\ request' = [request EXCEPT ![g] = s]
                   /\ \/ s = Idle
                      \/ /\ Continues(request[g], s) /\ s.new = request[g].new /\ ~s.undo
                         /\ s.pc \in {"close", "open", "save"}
                         /\ s.pc \in {"open", "save"} => ~Closes(s)
                         /\ s.pc = "save" => ~Opens(s)
<1> DEFINE r == request[g]
<1>1. r.pc = "phone" /\ r \in Requests /\ InOrder(r)
  BY Stands, UnderWay DEF CheckPhone, StaffBase
<1> HIDE DEF r
<1>2. ~r.undo /\ r.new.user = r.old.user
  BY <1>1 DEF InOrder, Disabling
<1>3. /\ Continues(r, Sync(r)) /\ Sync(r).new = r.new /\ ~Sync(r).undo
      /\ Sync(r).pc \in {"close", "open", "save"}
      /\ Sync(r).pc = "close" <=> Closes(r)
      /\ Sync(r).pc = "save" => ~Opens(r)
  BY <1>1, <1>2, SyncContinues
<1>4. (Closes(Sync(r)) <=> Closes(r)) /\ (Opens(Sync(r)) <=> Opens(r))
  BY <1>1, <1>3, SameWish DEF Continues
<1>5. \/ request' = [request EXCEPT ![g] = Idle]
      \/ request' = [request EXCEPT ![g] = Sync(r)]
  BY DEF CheckPhone, r
<1> QED
  BY <1>1, <1>3, <1>4, <1>5 DEF r

(* What is found or chosen is an account of the staff.                     *)
LEMMA ChooseIs ==
  ASSUME StaffBase, NEW g \in Manager, Choose(g)
  PROVE  /\ request[g] \in Requests /\ request[g].pc = "open"
         /\ \E s : /\ request' = [request EXCEPT ![g] = s]
                   /\ \/ s = Idle
                      \/ /\ Continues(request[g], s) /\ s.new = request[g].new /\ ~s.undo /\ s.pc = "link"
                         /\ s.new.user # None => account[s.new.user].role = "customer"
                      \/ /\ Continues(request[g], s) /\ ~s.undo /\ s.pc \in Opened /\ Opens(s)
                         /\ OfStaff(s.new.user) /\ Belongs(s.new.user, s)
                         /\ IF request[g].new.user # None THEN s.new.user = request[g].new.user
                            ELSE account[s.new.user].phone = s.new.phone
<1> DEFINE r == request[g]
           u == r.new.user
<1>1. /\ r.pc = "open" /\ r \in Requests /\ InOrder(r)
      /\ u # None => OfStaff(u)
  BY Stands, UnderWay DEF Choose, StaffBase
<1>2. ~r.undo /\ Opens(r)
  BY <1>1 DEF InOrder, Disabling, Opening
<1>3. ASSUME NEW s, s = [r EXCEPT !.pc = "link"]
      PROVE  Continues(r, s) /\ s.new = r.new /\ ~s.undo /\ s.pc = "link"
  <2>1. /\ s \in Requests /\ s.m = r.m /\ s.old = r.old /\ s.new = r.new /\ s.undo = r.undo
        /\ s.pc = "link"
    BY <1>1, <1>3 DEF Requests, Step
  <2>2. (Opens(s) <=> Opens(r)) /\ (Closes(s) <=> Closes(r)) /\ (PhoneChanged(s) <=> PhoneChanged(r))
    BY <1>1, <2>1, SameWish
  <2>3. InOrder(s)
    BY <1>1, <1>2, <2>1, <2>2 DEF InOrder, Disabling, Opening, Opened
  <2> QED
    BY <1>2, <2>1, <2>3 DEF Continues
<1>4. ASSUME NEW v \in UserId, account[v] # NoAccount, Belongs(v, r), u # None => v = u
      PROVE  LET s == Linked(r, v) IN
             /\ Continues(r, s) /\ ~s.undo /\ s.pc \in Opened /\ Opens(s)
             /\ s.new.user = v /\ OfStaff(v) /\ Belongs(v, s)
  <2>1. /\ Continues(r, Linked(r, v)) /\ Linked(r, v).undo = r.undo
        /\ Linked(r, v).new.user = v /\ Linked(r, v).pc \in Opened /\ Opens(Linked(r, v))
    BY <1>1, <1>4, LinkedContinues DEF Opening
  <2>2. Belongs(v, Linked(r, v))
    BY <1>4, <2>1 DEF Belongs, AppRole, Continues
  <2>3. account[v].role = r.new.position
    BY <1>4 DEF Belongs, AppRole
  <2>4. r.new.position # "customer"
    BY <1>1 DEF Requests, Rows, Position
  <2>5. v \notin foreign
    BY <2>3, <2>4 DEF StaffBase
  <2> QED
    BY <1>2, <1>4, <2>1, <2>2, <2>5 DEF OfStaff
<1>5. CASE u # None
  <2>0. account[u] # NoAccount /\ u \in UserId
    BY <1>1, <1>5 DEF OfStaff
  <2>1. CASE Belongs(u, r)
    <3>1. request' = [request EXCEPT ![g] = Linked(r, u)]
      BY <1>5, <2>1 DEF Choose
    <3> QED
      BY <1>1, <1>4, <1>5, <2>0, <2>1, <3>1
  <2>2. CASE ~Belongs(u, r) /\ Returns(u, r)
    <3>1. request' = [request EXCEPT ![g] = [r EXCEPT !.pc = "link"]]
      BY <1>5, <2>2 DEF Choose
    <3>2. account[u].role = "customer"
      BY <2>2 DEF Returns
    <3> QED
      BY <1>1, <1>3, <3>1, <3>2
  <2>3. CASE ~Belongs(u, r) /\ ~Returns(u, r)
    <3>1. request' = [request EXCEPT ![g] = Idle]
      BY <1>5, <2>3 DEF Choose
    <3> QED
      BY <1>1, <3>1
  <2> QED
    BY <2>1, <2>2, <2>3
<1>6. CASE u = None /\ ByPhone(r.new.phone) = {}
  <2>1. request' = [request EXCEPT ![g] = [r EXCEPT !.pc = "link"]]
    BY <1>6 DEF Choose
  <2> QED
    BY <1>1, <1>3, <1>6, <2>1
<1>7. CASE u = None /\ ByPhone(r.new.phone) # {}
  <2> DEFINE v == CHOOSE x \in ByPhone(r.new.phone) : TRUE
  <2>1. request' = [request EXCEPT ![g] = IF Belongs(v, r) THEN Linked(r, v) ELSE Idle]
    BY <1>7 DEF Choose
  <2>2. v \in ByPhone(r.new.phone)
    BY <1>7
  <2>3. v \in UserId /\ account[v] # NoAccount /\ account[v].phone = r.new.phone
    BY <2>2 DEF ByPhone
  <2> HIDE DEF v
  <2>4. CASE Belongs(v, r)
    <3>1. /\ Continues(r, Linked(r, v)) /\ Linked(r, v).new.user = v
          /\ ~Linked(r, v).undo /\ Linked(r, v).pc \in Opened /\ Opens(Linked(r, v))
          /\ OfStaff(v) /\ Belongs(v, Linked(r, v))
      BY <1>4, <1>7, <2>3, <2>4
    <3>2. Linked(r, v).new.phone = r.new.phone
      BY <3>1 DEF Continues
    <3> QED
      BY <1>1, <1>7, <2>1, <2>3, <2>4, <3>1, <3>2
  <2>5. CASE ~Belongs(v, r)
    BY <1>1, <2>1, <2>5
  <2> QED
    BY <2>4, <2>5
<1> QED
  BY <1>5, <1>6, <1>7

(* A failed call ends the request; a failed write of the row makes it      *)
(* close again what it had opened.                                         *)
LEMMA FailsIs ==
  ASSUME StaffBase, NEW g \in Manager, Fails(g)
  PROVE  /\ request[g] \in Requests /\ InOrder(request[g])
         /\ leaked' = IF request[g].undo \/ request[g].pc = "activate"
                      THEN leaked \cup {request[g].new.user} ELSE leaked
         /\ \E s : /\ request' = [request EXCEPT ![g] = s]
                   /\ IF request[g].pc = "save" /\ Opens(request[g])
                      THEN /\ Continues(request[g], s) /\ s.new = request[g].new /\ s.undo
                           /\ s.pc = "close"
                      ELSE s = Idle
<1> DEFINE r == request[g]
<1>1. r \in Requests /\ InOrder(r)
  BY Stands, UnderWay DEF Fails, StaffBase
<1>2. CASE r.pc = "save" /\ Opens(r)
  <2> DEFINE s == [Close(r) EXCEPT !.undo = TRUE]
  <2>1. request' = [request EXCEPT ![g] = s]
    BY <1>2 DEF Fails
  <2>2. /\ s \in Requests /\ s.m = r.m /\ s.old = r.old /\ s.new = r.new /\ s.undo /\ s.pc = "close"
    BY <1>1 DEF Requests, Step, Close
  <2> HIDE DEF s
  <2>3. (Opens(s) <=> Opens(r)) /\ (Closes(s) <=> Closes(r)) /\ (PhoneChanged(s) <=> PhoneChanged(r))
    BY <1>1, <2>2, SameWish
  <2>4. InOrder(s)
    BY <1>1, <1>2, <2>2, <2>3 DEF InOrder, Disabling, Opening, Opened
  <2> QED
    BY <1>1, <1>2, <2>1, <2>2, <2>4 DEF Continues, Fails
<1>3. CASE ~(r.pc = "save" /\ Opens(r))
  BY <1>1, <1>3 DEF Fails
<1> QED
  BY <1>2, <1>3

(* The write of the row ends the request.                                  *)
LEMMA SaveIs ==
  ASSUME StaffBase, NEW g \in Manager, Save(g)
  PROVE  /\ request[g] \in Requests /\ InOrder(request[g]) /\ request[g].pc = "save"
         /\ request' = [request EXCEPT ![g] = Idle]
         /\ staff' = [staff EXCEPT ![request[g].m] = request[g].new]
         /\ RowFits(request[g].m, request[g].new)
         /\ request[g].new.user # None => OfStaff(request[g].new.user)
BY Stands, UnderWay DEF Save, StaffBase

(* Whom Disable is about is an account of the staff.                       *)
LEMMA ClosingIs ==
  ASSUME StaffBase, NEW g \in Manager, "pc" \in DOMAIN request[g], request[g].pc \in Disabling
  PROVE  /\ request[g] \in Requests /\ InOrder(request[g])
         /\ OfStaff(Closing(request[g]))
         /\ account[Closing(request[g])] \in People
         /\ Closing(request[g]) = IF request[g].undo THEN request[g].new.user ELSE request[g].old.user
         /\ \A p \in Disabling : Continues(request[g], [request[g] EXCEPT !.pc = p])
<1> DEFINE r == request[g]
<1>1. /\ r \in Requests /\ InOrder(r)
      /\ r.old.user # None => OfStaff(r.old.user)
      /\ r.new.user # None => OfStaff(r.new.user)
  BY UnderWay DEF Disabling
<1>2. IF r.undo THEN r.new.user # None ELSE r.old.user # None
  BY <1>1 DEF InOrder, Closes
<1>3. OfStaff(Closing(r))
  BY <1>1, <1>2 DEF Closing
<1>4. account[Closing(r)] \in People
  BY <1>3 DEF OfStaff, StaffBase, StaffShape
<1>5. ASSUME NEW p \in Disabling PROVE Continues(r, [r EXCEPT !.pc = p])
  <2> DEFINE s == [r EXCEPT !.pc = p]
  <2>1. /\ s \in Requests /\ s.m = r.m /\ s.old = r.old /\ s.new = r.new /\ s.undo = r.undo /\ s.pc = p
    BY <1>1 DEF Requests, Step, Disabling
  <2> HIDE DEF s
  <2>2. (Opens(s) <=> Opens(r)) /\ (Closes(s) <=> Closes(r)) /\ (PhoneChanged(s) <=> PhoneChanged(r))
    BY <1>1, <2>1, SameWish
  <2>3. InOrder(s)
    BY <1>1, <2>1, <2>2 DEF InOrder, Disabling, Opening, Opened
  <2>4. Continues(r, s)
    BY <2>1, <2>3 DEF Continues
  <2> QED
    BY <2>4 DEF s
<1> QED
  BY <1>1, <1>3, <1>4, <1>5 DEF Closing

(* The end of Disable, as seen by the accounts.                            *)
LEMMA ClosedIs ==
  ASSUME StaffBase, NEW g \in Manager, "pc" \in DOMAIN request[g], request[g].pc \in Disabling
  PROVE  LET r == request[g]  s == Closed(r) IN
         IF r.undo THEN s = Idle
         ELSE /\ Continues(r, s) /\ ~s.undo /\ Closes(s)
              /\ s.pc = IF Opens(s) THEN "open" ELSE "save"
              /\ s.new.user = IF PhoneChanged(s) THEN None ELSE r.new.user
<1> DEFINE r == request[g]
           s == Closed(r)
<1>1. r \in Requests /\ InOrder(r) /\ r.pc \in Disabling
  BY ClosingIs
<1> HIDE DEF r
<1>2. CASE r.undo
  BY <1>1, <1>2, ClosedContinues DEF r
<1>3. CASE ~r.undo
  <2>1. /\ Continues(r, s) /\ ~s.undo
        /\ s.pc = IF Opens(r) THEN "open" ELSE "save"
        /\ s.new.user = IF PhoneChanged(r) THEN None ELSE r.new.user
    BY <1>1, <1>3, ClosedContinues
  <2> HIDE DEF s
  <2>2. (Opens(s) <=> Opens(r)) /\ (Closes(s) <=> Closes(r)) /\ (PhoneChanged(s) <=> PhoneChanged(r))
    BY <1>1, <2>1, SameWish DEF Continues
  <2>3. Closes(r)
    BY <1>1, <1>3 DEF InOrder
  <2> QED
    BY <1>3, <2>1, <2>2, <2>3 DEF r, s
<1> QED
  BY <1>2, <1>3 DEF r

(* Disable reads the account and, of a courier, takes the approval.        *)
LEMMA LookIs ==
  ASSUME StaffBase, NEW g \in Manager, Look(g)
  PROVE  /\ request[g].pc = "close" /\ "pc" \in DOMAIN request[g]
         /\ leaked' = leaked
         /\ LET r == request[g]  a == account[Closing(r)] IN
            CASE a.role = "courier" ->
                   /\ request' = [request EXCEPT ![g] = [r EXCEPT !.pc = "busy"]]
                   /\ a.entity \in Member /\ courier' = [courier EXCEPT ![a.entity].approved = FALSE]
              [] a.role = "waiter" ->
                   /\ request' = [request EXCEPT ![g] = [r EXCEPT !.pc = "turn"]] /\ courier' = courier
              [] a.role = "customer" ->
                   /\ request' = [request EXCEPT ![g] = Closed(r)] /\ courier' = courier
<1> DEFINE r == request[g]
           a == account[Closing(r)]
<1>1. "pc" \in DOMAIN r /\ r.pc = "close"
  BY Stands DEF Look, StaffBase
<1>2. a \in People /\ a # NoAccount
  BY <1>1, ClosingIs, Nothing DEF Disabling
<1>3. /\ courier' = IF Ours(a) THEN [courier EXCEPT ![a.entity].approved = FALSE] ELSE courier
      /\ request' = [request EXCEPT ![g] =
           IF Ours(a) THEN [r EXCEPT !.pc = "busy"]
           ELSE IF Waits(a) THEN [r EXCEPT !.pc = "turn"] ELSE Closed(r)]
      /\ leaked' = leaked
  BY DEF Look
<1> HIDE DEF a
<1>4. /\ a.role \in {"customer", "waiter", "courier"}
      /\ Ours(a) <=> a.role = "courier"
      /\ Waits(a) <=> a.role = "waiter"
      /\ a.role = "courier" => a.entity \in Member
  BY <1>2 DEF People, Accounts, Ours, Waits
<1>5. CASE a.role = "courier"
  BY <1>1, <1>3, <1>4, <1>5 DEF a
<1>6. CASE a.role = "waiter"
  BY <1>1, <1>3, <1>4, <1>6 DEF a
<1>7. CASE a.role = "customer"
  BY <1>1, <1>3, <1>4, <1>7 DEF a
<1> QED
  BY <1>4, <1>5, <1>6, <1>7

(* A courier with an order gets the approval back and the request ends;    *)
(* another one goes off line.                                              *)
LEMMA BusyIs ==
  ASSUME StaffBase, NEW g \in Manager, CheckBusy(g) \/ BusyFails(g)
  PROVE  /\ request[g].pc = "busy" /\ "pc" \in DOMAIN request[g]
         /\ account[Closing(request[g])].entity \in Member
         /\ LET r == request[g]  m == account[Closing(r)].entity IN
            \/ /\ request' = [request EXCEPT ![g] = Idle]
               /\ courier' = [courier EXCEPT ![m].approved = TRUE]
               /\ leaked' = IF r.undo THEN leaked \cup {Closing(r)} ELSE leaked
            \/ /\ request' = [request EXCEPT ![g] = [r EXCEPT !.pc = "turn"]]
               /\ courier' = [courier EXCEPT ![m].available = FALSE]
               /\ leaked' = leaked
<1>1. "pc" \in DOMAIN request[g]
  BY Stands DEF StaffBase
<1>2. CASE CheckBusy(g)
  BY <1>1, <1>2 DEF CheckBusy
<1>3. CASE BusyFails(g)
  BY <1>1, <1>3 DEF BusyFails
<1> QED
  BY <1>2, <1>3

(* The account becomes a customer's and keeps its phone.                   *)
LEMMA TurnIs ==
  ASSUME StaffBase, NEW g \in Manager, Turn(g)
  PROVE  /\ request[g].pc = "turn" /\ "pc" \in DOMAIN request[g]
         /\ request' = [request EXCEPT ![g] = Closed(request[g])]
         /\ LET c == Closing(request[g]) IN
            account' = [account EXCEPT ![c] = [phone |-> account[c].phone, role |-> "customer", entity |-> None]]
<1> DEFINE c == Closing(request[g])
<1>1. request[g].pc = "turn" /\ "pc" \in DOMAIN request[g]
  BY Stands DEF Turn, StaffBase
<1>2. c \in UserId /\ account[c] \in People
  BY <1>1, ClosingIs DEF Disabling, OfStaff
<1>3. account' = [account EXCEPT ![c].role = "customer", ![c].entity = None]
  BY DEF Turn
<1> HIDE DEF c
<1>4. account' = [account EXCEPT ![c] = [[account[c] EXCEPT !.role = "customer"] EXCEPT !.entity = None]]
  BY <1>2, <1>3 DEF StaffBase, StaffShape
<1>5. [[account[c] EXCEPT !.role = "customer"] EXCEPT !.entity = None]
        = [phone |-> account[c].phone, role |-> "customer", entity |-> None]
  <2>1. account[c] \in [phone : Phone, role : {"customer", "waiter", "courier"},
                        entity : Member \cup {Here, None}]
    BY <1>2 DEF People, Accounts
  <2> DEFINE a == account[c]
             b == [a EXCEPT !.role = "customer"]
             d == [b EXCEPT !.entity = None]
  <2> HIDE DEF a
  <2>2. /\ b \in [phone : Phone, role : {"customer", "waiter", "courier"}, entity : Member \cup {Here, None}]
        /\ b.phone = a.phone /\ b.role = "customer"
    BY <2>1 DEF a
  <2> HIDE DEF b
  <2>3. /\ d \in [phone : Phone, role : {"customer", "waiter", "courier"}, entity : Member \cup {Here, None}]
        /\ d.phone = a.phone /\ d.role = "customer" /\ d.entity = None
    BY <2>2
  <2> HIDE DEF d
  <2>4. d = [phone |-> a.phone, role |-> "customer", entity |-> None]
    BY <2>3
  <2> QED
    BY <2>4 DEF a, b, d
<1>6. account' = [account EXCEPT ![c] = [phone |-> account[c].phone, role |-> "customer", entity |-> None]]
  BY <1>4, <1>5
<1>7. request' = [request EXCEPT ![g] = Closed(request[g])]
  BY DEF Turn
<1> QED
  BY <1>1, <1>6, <1>7 DEF c

(* The account that is made, or the one that returns.                      *)
LEMMA LinkIs ==
  ASSUME StaffBase, NEW g \in Manager, Link(g)
  PROVE  LET r == request[g] IN
         /\ r \in Requests /\ InOrder(r) /\ r.pc = "link"
         /\ r.new.user # None => OfStaff(r.new.user)
         /\ \/ request' = [request EXCEPT ![g] = Idle] /\ account' = account
            \/ \E u \in UserId, phone \in Phone : \E s :
                 /\ request' = [request EXCEPT ![g] = s]
                 /\ IF r.new.user # None THEN u = r.new.user /\ phone = account[u].phone
                    ELSE account[u] = NoAccount /\ ByPhone(phone) = {} /\ phone = r.new.phone
                 /\ account' = [account EXCEPT ![u] =
                      [phone |-> phone, role |-> AppRole(r.m, r.new).role, entity |-> AppRole(r.m, r.new).entity]]
                 /\ account'[u] \in People /\ account'[u].role = r.new.position
                 /\ account'[u].role # "customer" /\ (account'[u].role = "courier" => account'[u].entity = r.m)
                 /\ Continues(r, s) /\ ~s.undo /\ s.pc \in Opened /\ Opens(s)
                 /\ s.new.user = u /\ Belongs(u, s)'
<1> DEFINE r == request[g]
           as == AppRole(r.m, r.new)
           u == IF r.new.user # None THEN r.new.user ELSE FreshUser
           s == Linked(r, u)
           phone == IF r.new.user = None THEN r.new.phone ELSE account[u].phone
           a == [phone |-> phone, role |-> as.role, entity |-> as.entity]
<1>1. /\ r.pc = "link" /\ r \in Requests /\ InOrder(r)
      /\ r.new.user # None => OfStaff(r.new.user)
  BY Stands, UnderWay DEF Link, StaffBase
<1>2. CASE r.new.user = None /\ ByPhone(r.new.phone) # {}
  BY <1>1, <1>2 DEF Link
<1>3. CASE ~(r.new.user = None /\ ByPhone(r.new.phone) # {})
  <2>1. request' = [request EXCEPT ![g] = s] /\ account' = [account EXCEPT ![u] = a]
    BY <1>3 DEF Link
  <2>2. r.new.user = None => FreshUser \in UserId /\ account[FreshUser] = NoAccount
    <3>1. r.new.user = None => \E v \in UserId : account[v] = NoAccount
      BY DEF Link
    <3> QED
      BY <3>1 DEF FreshUser
  <2>3. u \in UserId /\ (r.new.user # None => account[u] # NoAccount)
    BY <1>1, <2>2 DEF OfStaff
  <2>4. phone \in Phone
    <3>1. r.new.phone \in Phone
      BY <1>1 DEF Requests, Rows
    <3>2. r.new.user # None => account[u] \in People
      BY <2>3 DEF StaffBase, StaffShape
    <3>3. \A b \in People : b.phone \in Phone
      BY DEF People, Accounts
    <3> QED
      BY <3>1, <3>2, <3>3
  <2>5. r.new.position \in {"waiter", "courier"} /\ r.m \in Member
    <3>1. Opens(r)
      BY <1>1 DEF InOrder, Opening
    <3> QED
      BY <1>1, <3>1 DEF Opens, Want, AccessEffective, AllowsApp, Requests
  <2>6. as.role = r.new.position /\ as.entity = IF r.new.position = "waiter" THEN Here ELSE r.m
    BY DEF AppRole
  <2>7. /\ Continues(r, s) /\ s.undo = r.undo /\ ~r.undo /\ s.new.user = u /\ s.pc \in Opened /\ Opens(s)
    BY <1>1, <2>3, LinkedContinues DEF Opening
  <2> HIDE DEF u, s, phone, as
  <2>8. /\ a.phone = phone /\ a.role = r.new.position
        /\ a.entity = IF r.new.position = "waiter" THEN Here ELSE r.m
    BY <2>6
  <2>9. a \in People
    <3>1. a \in Accounts
      BY <2>4, <2>5, <2>6 DEF Accounts
    <3> QED
      BY <2>5, <2>8, <3>1 DEF People
  <2>10. account'[u] = a
    BY <2>1, <2>3 DEF StaffBase, StaffShape
  <2> HIDE DEF a
  <2>11. ASSUME NEW U, NEW S, U = u, S = s PROVE Belongs(U, S)'
    <3>1. S.m = r.m /\ S.new.position = r.new.position
      BY <2>7, <2>11 DEF Continues
    <3>2. account'[U] = a
      BY <2>10, <2>11
    <3>3. account'[U].role = AppRole(S.m, S.new).role /\ account'[U].entity = AppRole(S.m, S.new).entity
      BY <2>8, <3>1, <3>2 DEF AppRole
    <3> QED
      BY <3>3 DEF Belongs, AppRole
  <2>12. IF r.new.user # None THEN u = r.new.user /\ phone = account[u].phone
         ELSE account[u] = NoAccount /\ ByPhone(phone) = {} /\ phone = r.new.phone
    BY <1>3, <2>2 DEF u, phone
  <2>13. account' = [account EXCEPT ![u] =
           [phone |-> phone, role |-> AppRole(r.m, r.new).role, entity |-> AppRole(r.m, r.new).entity]]
    BY <2>1 DEF a, as
  <2> HIDE DEF r
  <2>14. /\ account'[u] \in People /\ account'[u].role = r.new.position
         /\ account'[u].role # "customer" /\ (account'[u].role = "courier" => account'[u].entity = r.m)
    BY <2>5, <2>8, <2>9, <2>10
  <2>15. \A U, S : U = u /\ S = s => Belongs(U, S)'
    BY <2>11
  <2>16. \E U \in UserId, F \in Phone : \E S : U = u /\ S = s /\ F = phone
    BY <2>3, <2>4
  <2>17. PICK U \in UserId, F \in Phone, S \in {s} : U = u /\ S = s /\ F = phone
    BY <2>16
  <2>18. Belongs(U, S)'
    BY <2>15, <2>17
  <2>19. /\ request' = [request EXCEPT ![g] = S]
         /\ IF r.new.user # None THEN U = r.new.user /\ F = account[U].phone
            ELSE account[U] = NoAccount /\ ByPhone(F) = {} /\ F = r.new.phone
         /\ account' = [account EXCEPT ![U] =
              [phone |-> F, role |-> AppRole(r.m, r.new).role, entity |-> AppRole(r.m, r.new).entity]]
         /\ account'[U] \in People /\ account'[U].role = r.new.position
         /\ account'[U].role # "customer" /\ (account'[U].role = "courier" => account'[U].entity = r.m)
         /\ Continues(r, S) /\ ~S.undo /\ S.pc \in Opened /\ Opens(S)
         /\ S.new.user = U
    BY <2>1, <2>7, <2>12, <2>13, <2>14, <2>17
  <2> QED
    BY <1>1, <2>18, <2>19 DEF r
<1> QED
  BY <1>2, <1>3

(* The courier of the member is approved; the account was linked before.   *)
LEMMA ActivateIs ==
  ASSUME StaffBase, NEW g \in Manager, Activate(g)
  PROVE  LET r == request[g]  s == [r EXCEPT !.pc = "save"] IN
         /\ r \in Requests /\ InOrder(r) /\ r.pc = "activate" /\ Opens(r)
         /\ OfStaff(r.new.user)
         /\ request' = [request EXCEPT ![g] = s]
         /\ courier' = [courier EXCEPT ![r.m].approved = TRUE]
         /\ Continues(r, s) /\ ~s.undo /\ s.new = r.new /\ s.pc = "save" /\ Opens(s)
<1> DEFINE r == request[g]
           s == [r EXCEPT !.pc = "save"]
<1>1. /\ r.pc = "activate" /\ r \in Requests /\ InOrder(r)
      /\ r.new.user # None => OfStaff(r.new.user)
  BY Stands, UnderWay DEF Activate, StaffBase
<1>2. /\ request' = [request EXCEPT ![g] = s] /\ courier' = [courier EXCEPT ![r.m].approved = TRUE]
  BY DEF Activate
<1> HIDE DEF r
<1>3. Opens(r) /\ r.new.user # None /\ ~r.undo
  BY <1>1 DEF InOrder, Opened, Disabling
<1>4. s \in Requests /\ s.m = r.m /\ s.old = r.old /\ s.new = r.new /\ s.undo = r.undo /\ s.pc = "save"
  BY <1>1 DEF Requests, Step
<1> HIDE DEF s
<1>5. (Opens(s) <=> Opens(r)) /\ (Closes(s) <=> Closes(r)) /\ (PhoneChanged(s) <=> PhoneChanged(r))
  BY <1>1, <1>4, SameWish
<1>6. InOrder(s)
  BY <1>1, <1>3, <1>4, <1>5 DEF InOrder, Disabling, Opening, Opened
<1>7. Continues(r, s)
  BY <1>4, <1>6 DEF Continues
<1> QED
  BY <1>1, <1>2, <1>3, <1>4, <1>5, <1>7 DEF r, s

(* Somebody signs up with a phone that nobody has.                         *)
LEMMA SignUpIs ==
  ASSUME NEW p \in Phone, SignUp(p)
  PROVE  /\ FreshUser \in UserId /\ account[FreshUser] = NoAccount
         /\ account' = [account EXCEPT ![FreshUser] = [phone |-> p, role |-> "customer", entity |-> None]]
         /\ foreign' = foreign \cup {FreshUser}
         /\ ByPhone(p) = {}
         /\ [phone |-> p, role |-> "customer", entity |-> None] \in People
<1>1. \E u \in UserId : account[u] = NoAccount
  BY DEF SignUp
<1>2. FreshUser \in UserId /\ account[FreshUser] = NoAccount
  BY <1>1 DEF FreshUser
<1>3. [phone |-> p, role |-> "customer", entity |-> None] \in People
  BY DEF People, Accounts
<1> QED
  BY <1>2, <1>3 DEF SignUp

(* Foreign accounts are left alone.                                        *)
LeavesForeign == \A u \in foreign : account'[u] = account[u]

(* Writing a row names no foreign account: the request had none.           *)
LEMMA SaveBase ==
  ASSUME StaffBase, NEW g \in Manager, Save(g),
         UNCHANGED <<made, account, courier, ride, requests, foreign, leaked>>
  PROVE  StaffBase'
<1> DEFINE r == request[g]
<1>1. /\ r \in Requests /\ request' = [request EXCEPT ![g] = Idle]
      /\ staff' = [staff EXCEPT ![r.m] = r.new]
      /\ r.new.user # None => OfStaff(r.new.user)
  BY SaveIs
<1>2. r.m \in made /\ r.m \in Member /\ r.new \in Rows
  <2>1. Busy(g)
    BY <1>1, Nothing DEF Busy
  <2> QED
    BY <1>1, <2>1 DEF StaffBase, Requests
<1> HIDE DEF r
<1>3. \A u : OfStaff(u)' <=> OfStaff(u)
  BY DEF OfStaff
<1>4. StaffShape'
  BY <1>1, <1>2 DEF StaffBase, StaffShape, Hired
<1>5. \A h \in Manager : Busy(h)' => Busy(h) /\ request'[h] = request[h]
  BY <1>1 DEF Busy, StaffBase, StaffShape
<1>6. \A h \in Manager : Busy(h)' =>
         /\ InOrder(request'[h]) /\ request'[h].m \in made'
         /\ request'[h].old.user # None => OfStaff(request[h].old.user)'
         /\ request'[h].new.user # None => OfStaff(request[h].new.user)'
  BY <1>5 DEF StaffBase, OfStaff
<1>7. \A m \in Hired' : staff'[m].user # None => OfStaff(staff[m].user)'
  <2> TAKE m \in Hired'
  <2>1. CASE m = r.m
    BY <1>1, <1>2, <2>1 DEF StaffBase, StaffShape, OfStaff
  <2>2. CASE m # r.m
    <3>1. m \in Hired /\ staff'[m] = staff[m]
      BY <1>1, <1>2, <2>2 DEF StaffBase, StaffShape, Hired
    <3> QED
      BY <3>1 DEF StaffBase, OfStaff
  <2> QED
    BY <2>1, <2>2
<1> QED
  BY <1>4, <1>6, <1>7 DEF StaffBase

(* The steps of a request that write no account and no row.                *)
LEMMA RequestsBase ==
  ASSUME StaffBase, NEW g \in Manager,
         CheckPhone(g) \/ Choose(g) \/ Fails(g) \/ Activate(g),
         UNCHANGED <<staff, made, account, foreign>>,
         courier' = courier \/ Activate(g)
  PROVE  StaffBase'
<1> DEFINE r == request[g]
<1>1. Sound(r) /\ \A u : OfStaff(u)' <=> OfStaff(u)
  BY DEF StaffBase, StaffShape, Busy, Sound, OfStaff
<1>2. ASSUME NEW s, request' = [request EXCEPT ![g] = s], Sound(s),
             courier' \in [Member -> [approved : BOOLEAN, available : BOOLEAN]]
      PROVE  StaffBase'
  <2>1. Sound(s)'
    BY <1>1, <1>2 DEF Sound
  <2> QED
    BY <1>2, <2>1, BaseStep DEF StaffBase, StaffShape, OfStaff
<1>3. courier \in [Member -> [approved : BOOLEAN, available : BOOLEAN]]
  BY DEF StaffBase, StaffShape
<1>4. Sound(Idle) /\ Idle \notin Requests
  BY Nothing DEF Sound
<1>5. CASE CheckPhone(g) /\ courier' = courier
  <2>1. PICK s : /\ request' = [request EXCEPT ![g] = s]
                 /\ s = Idle \/ (Continues(r, s) /\ s.new = r.new)
    BY <1>5, CheckPhoneIs
  <2>2. r \in Requests
    BY <1>5, CheckPhoneIs
  <2> HIDE DEF r
  <2>3. Sound(s)
    BY <1>1, <1>4, <2>1, <2>2 DEF Sound, Continues
  <2> QED
    BY <1>2, <1>3, <1>5, <2>1, <2>3
<1>6. CASE Choose(g) /\ courier' = courier
  <2>1. PICK s : /\ request' = [request EXCEPT ![g] = s]
                 /\ \/ s = Idle
                    \/ Continues(r, s) /\ s.new = r.new
                    \/ Continues(r, s) /\ OfStaff(s.new.user)
    BY <1>6, ChooseIs
  <2>2. r \in Requests
    BY <1>6, ChooseIs
  <2> HIDE DEF r
  <2>3. Sound(s)
    BY <1>1, <1>4, <2>1, <2>2 DEF Sound, Continues
  <2> QED
    BY <1>2, <1>3, <1>6, <2>1, <2>3
<1>7. CASE Fails(g) /\ courier' = courier
  <2>1. PICK s : /\ request' = [request EXCEPT ![g] = s]
                 /\ s = Idle \/ (Continues(r, s) /\ s.new = r.new)
    BY <1>7, FailsIs
  <2>2. r \in Requests
    BY <1>7, FailsIs
  <2> HIDE DEF r
  <2>3. Sound(s)
    BY <1>1, <1>4, <2>1, <2>2 DEF Sound, Continues
  <2> QED
    BY <1>2, <1>3, <1>7, <2>1, <2>3
<1>8. CASE Activate(g)
  <2> DEFINE s == [r EXCEPT !.pc = "save"]
  <2>1. /\ request' = [request EXCEPT ![g] = s]
        /\ Continues(r, s) /\ s.new = r.new /\ r \in Requests
        /\ courier' = [courier EXCEPT ![r.m].approved = TRUE]
    BY <1>8, ActivateIs
  <2> HIDE DEF r, s
  <2>2. Sound(s)
    BY <1>1, <1>4, <2>1 DEF Sound, Continues
  <2>3. courier' \in [Member -> [approved : BOOLEAN, available : BOOLEAN]]
    BY <1>3, <2>1 DEF Requests
  <2> QED
    BY <1>2, <2>1, <2>2, <2>3
<1> QED
  BY <1>5, <1>6, <1>7, <1>8

(* Disable turns an account of the staff and no other.                     *)
LEMMA DisableBase ==
  ASSUME StaffBase, NEW g \in Manager,
         \/ Look(g) /\ account' = account
         \/ (CheckBusy(g) \/ BusyFails(g)) /\ account' = account
         \/ Turn(g) /\ courier' = courier,
         UNCHANGED <<staff, made, foreign>>
  PROVE  StaffBase' /\ LeavesForeign
<1> DEFINE r == request[g]
           c == Closing(r)
           Keep == \A u \in UserId : OfStaff(u) => account'[u] # NoAccount
<1>1. "pc" \in DOMAIN r /\ r.pc \in Disabling
  BY LookIs, BusyIs, TurnIs DEF Disabling
<1>2. /\ r \in Requests /\ InOrder(r) /\ OfStaff(c) /\ account[c] \in People
      /\ \A p \in Disabling : Continues(r, [r EXCEPT !.pc = p])
      /\ c # None
  BY <1>1, ClosingIs, NoneIsAbsent DEF OfStaff
<1>3. IF r.undo THEN Closed(r) = Idle
      ELSE /\ Continues(r, Closed(r))
           /\ Closed(r).new.user = None \/ Closed(r).new.user = r.new.user
  BY <1>1, ClosedIs
<1>4. Sound(r)
  BY <1>2 DEF StaffBase, StaffShape, Busy, Sound
<1>5. Sound(Idle) /\ Sound(Closed(r)) /\ \A p \in Disabling : Sound([r EXCEPT !.pc = p])
  <2> HIDE DEF r
  <2>1. Sound(Idle) /\ r # Idle
    BY <1>2, Nothing DEF Sound
  <2>2. r.new.user # None => OfStaff(r.new.user)
    BY <1>4, <2>1 DEF Sound
  <2>3. Sound(Closed(r))
    BY <1>3, <1>4, <2>1, <2>2 DEF Sound, Continues
  <2>4. ASSUME NEW p \in Disabling PROVE Sound([r EXCEPT !.pc = p])
    <3> DEFINE s == [r EXCEPT !.pc = p]
    <3>1. Continues(r, s)
      BY <1>2
    <3>2. s.new = r.new
      BY <1>2 DEF Requests
    <3> HIDE DEF s
    <3>3. Sound(s)
      BY <1>4, <2>1, <2>2, <3>1, <3>2 DEF Sound, Continues
    <3> QED
      BY <3>3 DEF s
  <2> QED
    BY <2>1, <2>3, <2>4
<1>6. PICK s : request' = [request EXCEPT ![g] = s] /\ Sound(s)
  <2>1. CASE Look(g)
    <3>1. account[c].role \in {"customer", "waiter", "courier"}
      BY <1>2 DEF People, Accounts
    <3>2. \/ request' = [request EXCEPT ![g] = [r EXCEPT !.pc = "busy"]]
          \/ request' = [request EXCEPT ![g] = [r EXCEPT !.pc = "turn"]]
          \/ request' = [request EXCEPT ![g] = Closed(r)]
      BY <2>1, <3>1, LookIs
    <3> QED
      BY <1>5, <3>2 DEF Disabling
  <2>2. CASE CheckBusy(g) \/ BusyFails(g)
    <3>1. \/ request' = [request EXCEPT ![g] = [r EXCEPT !.pc = "turn"]]
          \/ request' = [request EXCEPT ![g] = Idle]
      BY <2>2, BusyIs
    <3> QED
      BY <1>5, <3>1 DEF Disabling
  <2>3. CASE Turn(g)
    BY <1>5, <2>3, TurnIs
  <2> QED
    BY <2>1, <2>2, <2>3
<1>7. courier' \in [Member -> [approved : BOOLEAN, available : BOOLEAN]]
  <2>0. courier \in [Member -> [approved : BOOLEAN, available : BOOLEAN]]
    BY DEF StaffBase, StaffShape
  <2>1. CASE Look(g)
    <3>1. account[c].role \in {"customer", "waiter", "courier"}
      BY <1>2 DEF People, Accounts
    <3>2. \/ courier' = courier
          \/ courier' = [courier EXCEPT ![account[c].entity].approved = FALSE]
      BY <2>1, <3>1, LookIs
    <3> QED
      BY <2>0, <3>2
  <2>2. CASE CheckBusy(g) \/ BusyFails(g)
    <3>1. \/ courier' = [courier EXCEPT ![account[c].entity].approved = TRUE]
          \/ courier' = [courier EXCEPT ![account[c].entity].available = FALSE]
      BY <2>2, BusyIs
    <3> QED
      BY <2>0, <3>1
  <2> QED
    BY <2>0, <2>1, <2>2
<1>8. /\ account' \in [UserId -> People \cup {NoAccount}]
      /\ \A u \in UserId : u # c => account'[u] = account[u]
      /\ account'[c] # NoAccount
  <2>1. CASE account' = account
    BY <1>2, <2>1 DEF StaffBase, StaffShape, OfStaff
  <2>2. CASE Turn(g)
    <3> DEFINE a == [phone |-> account[c].phone, role |-> "customer", entity |-> None]
    <3>1. account' = [account EXCEPT ![c] = a]
      BY <2>2, TurnIs
    <3>2. account[c].phone \in Phone
      BY <1>2 DEF People, Accounts
    <3>3. a \in People
      BY <3>2 DEF People, Accounts
    <3> HIDE DEF a, c
    <3> QED
      BY <1>2, <3>1, <3>3, Nothing DEF StaffBase, StaffShape, OfStaff
  <2> QED
    BY <2>1, <2>2
<1>9. LeavesForeign
  BY <1>2, <1>8 DEF LeavesForeign, OfStaff, StaffBase, StaffShape
<1>10. Keep
  BY <1>8 DEF OfStaff
<1>11. Sound(s)'
  <2>1. \A u : OfStaff(u) => OfStaff(u)'
    BY <1>10 DEF OfStaff
  <2> QED
    BY <1>6, <2>1 DEF Sound
<1> QED
  BY <1>6, <1>7, <1>8, <1>9, <1>10, <1>11, BaseStep DEF LeavesForeign

(* Enable turns an account of the staff, or makes one.                     *)
LEMMA LinkBase ==
  ASSUME StaffBase, NEW g \in Manager, Link(g), UNCHANGED <<staff, made, courier, foreign>>
  PROVE  StaffBase' /\ LeavesForeign
<1> DEFINE r == request[g]
<1>1. Sound(r) /\ r \in Requests /\ (r.new.user # None => OfStaff(r.new.user))
  BY LinkIs DEF StaffBase, StaffShape, Busy, Sound
<1>2. CASE request' = [request EXCEPT ![g] = Idle] /\ account' = account
  BY <1>2, BaseStep DEF StaffBase, StaffShape, OfStaff, Sound, LeavesForeign
<1>3. CASE ~(request' = [request EXCEPT ![g] = Idle] /\ account' = account)
  <2>1. PICK u \in UserId, s \in Requests :
          /\ request' = [request EXCEPT ![g] = s]
          /\ r.new.user # None => u = r.new.user
          /\ r.new.user = None => account[u] = NoAccount
          /\ account'[u] \in People
          /\ \A v \in UserId : v # u => account'[v] = account[v]
          /\ account' \in [UserId -> People \cup {NoAccount}]
          /\ Continues(r, s) /\ s.new.user = u
    <3>1. PICK u \in UserId, phone \in Phone : \E s :
                 /\ request' = [request EXCEPT ![g] = s]
                 /\ IF r.new.user # None THEN u = r.new.user
                    ELSE account[u] = NoAccount
                 /\ account' = [account EXCEPT ![u] =
                      [phone |-> phone, role |-> AppRole(r.m, r.new).role, entity |-> AppRole(r.m, r.new).entity]]
                 /\ account'[u] \in People
                 /\ Continues(r, s) /\ s.new.user = u
      BY <1>3, LinkIs
    <3> DEFINE a == [phone |-> phone, role |-> AppRole(r.m, r.new).role, entity |-> AppRole(r.m, r.new).entity]
    <3>2. account' = [account EXCEPT ![u] = a] /\ account'[u] \in People
      BY <3>1
    <3> HIDE DEF a, r
    <3>3. /\ \A v \in UserId : v # u => account'[v] = account[v]
          /\ account' \in [UserId -> People \cup {NoAccount}]
      BY <3>2 DEF StaffBase, StaffShape
    <3> QED
      BY <3>1, <3>2, <3>3 DEF Continues
  <2> HIDE DEF r
  <2>2. u \notin foreign
    BY <1>1, <2>1 DEF StaffBase, OfStaff
  <2>3. LeavesForeign
    BY <2>1, <2>2 DEF LeavesForeign, StaffBase, StaffShape
  <2>4. \A v \in UserId : OfStaff(v) => account'[v] # NoAccount
    BY <2>1, Nothing DEF OfStaff
  <2>5. \A v : OfStaff(v) => OfStaff(v)'
    BY <2>4 DEF OfStaff
  <2>6. OfStaff(u)'
    BY <2>1, <2>2, Nothing DEF OfStaff
  <2>7. Sound(s)'
    <3>1. s.m \in made' /\ (s.old.user # None => OfStaff(s.old.user))
      BY <1>1, <2>1, Nothing DEF Sound, Continues
    <3> QED
      BY <2>1, <2>5, <2>6, <3>1 DEF Sound, Continues
  <2>8. courier' \in [Member -> [approved : BOOLEAN, available : BOOLEAN]]
    BY DEF StaffBase, StaffShape
  <2> QED
    BY <2>1, <2>3, <2>4, <2>7, <2>8, BaseStep DEF LeavesForeign, r
<1> QED
  BY <1>2, <1>3

(* A step of dispatch, or of the courier.                                  *)
LEMMA RideIs ==
  ASSUME StaffShape, NEW m \in Member, GoOnline(m) \/ Claim(m) \/ Assign(m) \/ Deliver(m)
  PROVE  /\ courier' \in [Member -> [approved : BOOLEAN, available : BOOLEAN]]
         /\ \A x \in Member : courier'[x].approved = courier[x].approved
<1>1. \E v \in BOOLEAN : courier' = [courier EXCEPT ![m].available = v] \/ courier' = courier
  BY DEF GoOnline, Claim, Assign, Deliver
<1> QED
  BY <1>1 DEF StaffShape

(* Dispatch touches no account; who signs up gets one that nobody names.   *)
LEMMA OthersBase ==
  ASSUME StaffBase,
         \/ (\E m \in Member : GoOnline(m) \/ Claim(m) \/ Assign(m) \/ Deliver(m))
               /\ UNCHANGED <<staff, made, account, request, requests, foreign, leaked>>
         \/ (\E p \in Phone : SignUp(p))
               /\ UNCHANGED <<staff, made, courier, ride, request, requests, leaked>>
  PROVE  StaffBase' /\ LeavesForeign
<1>1. /\ courier' \in [Member -> [approved : BOOLEAN, available : BOOLEAN]]
      /\ account' \in [UserId -> People \cup {NoAccount}]
      /\ foreign' \subseteq UserId
      /\ \A u \in foreign' : account'[u] # NoAccount /\ account'[u].role = "customer"
      /\ LeavesForeign
      /\ \A u : OfStaff(u) => OfStaff(u)'
  <2>1. CASE /\ \E m \in Member : GoOnline(m) \/ Claim(m) \/ Assign(m) \/ Deliver(m)
             /\ UNCHANGED <<staff, made, account, request, requests, foreign, leaked>>
    BY <2>1, RideIs DEF StaffBase, StaffShape, LeavesForeign, OfStaff
  <2>2. CASE /\ \E p \in Phone : SignUp(p)
             /\ UNCHANGED <<staff, made, courier, ride, request, requests, leaked>>
    <3>1. PICK p \in Phone : SignUp(p)
      BY <2>2
    <3> DEFINE a == [phone |-> p, role |-> "customer", entity |-> None]
               u == FreshUser
    <3>2. /\ u \in UserId /\ account[u] = NoAccount
          /\ account' = [account EXCEPT ![u] = a]
          /\ foreign' = foreign \cup {u} /\ a \in People /\ a.role = "customer"
      BY <3>1, SignUpIs
    <3> HIDE DEF a, u
    <3>3. account' \in [UserId -> People \cup {NoAccount}] /\ account'[u] = a
      BY <3>2 DEF StaffBase, StaffShape
    <3>4. \A v \in UserId : v # u => account'[v] = account[v]
      BY <3>2 DEF StaffBase, StaffShape
    <3>5. foreign \subseteq UserId /\ u \notin foreign
      BY <3>2 DEF StaffBase, StaffShape
    <3>6. \A v : OfStaff(v) => OfStaff(v)'
      BY <3>2, <3>4 DEF OfStaff
    <3>7. \A v \in foreign' : account'[v] # NoAccount /\ account'[v].role = "customer"
      BY <3>2, <3>3, <3>4, <3>5, Nothing DEF StaffBase
    <3>8. LeavesForeign
      BY <3>4, <3>5 DEF LeavesForeign
    <3>9. courier' \in [Member -> [approved : BOOLEAN, available : BOOLEAN]]
      BY <2>2 DEF StaffBase, StaffShape
    <3> QED
      BY <3>2, <3>3, <3>5, <3>6, <3>7, <3>8, <3>9
  <2> QED
    BY <2>1, <2>2
<1>2. UNCHANGED <<staff, made, request>>
  OBVIOUS
<1>3. StaffShape'
  BY <1>1, <1>2 DEF StaffBase, StaffShape, Hired
<1>4. \A m \in Hired' : staff'[m].user # None => OfStaff(staff[m].user)'
  <2> TAKE m \in Hired'
  <2>1. m \in Hired /\ staff'[m] = staff[m]
    BY <1>2 DEF Hired
  <2>2. staff[m].user # None => OfStaff(staff[m].user)
    BY <2>1 DEF StaffBase
  <2> QED
    BY <1>1, <2>1, <2>2 DEF OfStaff
<1>5. \A h \in Manager : Busy(h)' =>
         /\ InOrder(request'[h]) /\ request'[h].m \in made'
         /\ request'[h].old.user # None => OfStaff(request[h].old.user)'
         /\ request'[h].new.user # None => OfStaff(request[h].new.user)'
  <2> TAKE h \in Manager
  <2> HAVE Busy(h)'
  <2>1. Busy(h) /\ request'[h] = request[h]
    BY <1>2 DEF Busy
  <2>2. /\ InOrder(request[h]) /\ request[h].m \in made
        /\ request[h].old.user # None => OfStaff(request[h].old.user)
        /\ request[h].new.user # None => OfStaff(request[h].new.user)
    BY <2>1 DEF StaffBase
  <2> QED
    BY <1>1, <1>2, <2>1, <2>2 DEF OfStaff
<1> QED
  BY <1>1, <1>3, <1>4, <1>5 DEF StaffBase

(* Every step of the staff keeps the base and leaves foreign accounts      *)
(* alone.                                                                  *)
LEMMA StaffBaseNext ==
  ASSUME StaffBase, StaffNext
  PROVE  StaffBase' /\ LeavesForeign
<1>1. CASE (\E g \in Manager : Create(g) \/ Update(g))
             /\ UNCHANGED <<staff, account, courier, ride, foreign, leaked>>
  <2>1. StaffBase'
    BY <1>1, BeginBase
  <2> QED
    BY <1>1, <2>1 DEF LeavesForeign
<1>2. CASE (\E g \in Manager : CheckPhone(g) \/ Choose(g))
             /\ UNCHANGED <<staff, made, account, courier, ride, requests, foreign, leaked>>
  <2>1. StaffBase'
    BY <1>2, RequestsBase
  <2> QED
    BY <1>2, <2>1 DEF LeavesForeign
<1>3. CASE (\E g \in Manager : Fails(g))
             /\ UNCHANGED <<staff, made, account, courier, ride, requests, foreign>>
  <2>1. StaffBase'
    BY <1>3, RequestsBase
  <2> QED
    BY <1>3, <2>1 DEF LeavesForeign
<1>4. CASE (\E g \in Manager : Save(g))
             /\ UNCHANGED <<made, account, courier, ride, requests, foreign, leaked>>
  <2>1. StaffBase'
    BY <1>4, SaveBase
  <2> QED
    BY <1>4, <2>1 DEF LeavesForeign
<1>5. CASE (\E g \in Manager : Look(g) \/ CheckBusy(g) \/ BusyFails(g))
             /\ UNCHANGED <<staff, made, account, ride, requests, foreign>>
  BY <1>5, DisableBase
<1>6. CASE (\E g \in Manager : Turn(g) \/ Link(g))
             /\ UNCHANGED <<staff, made, courier, ride, requests, foreign, leaked>>
  BY <1>6, DisableBase, LinkBase
<1>7. CASE (\E g \in Manager : Activate(g))
             /\ UNCHANGED <<staff, made, account, ride, requests, foreign, leaked>>
  <2>1. StaffBase'
    BY <1>7, RequestsBase
  <2> QED
    BY <1>7, <2>1 DEF LeavesForeign
<1> QED
  BY <1>1, <1>2, <1>3, <1>4, <1>5, <1>6, <1>7, OthersBase DEF StaffNext

-----------------------------------------------------------------------------
(* The staff, while requests are apart *)

(* An account a request names has a phone of the request.                  *)
LEMMA PhoneOfUser ==
  ASSUME StaffBase, StaffApart, NEW g \in Manager, Busy(g), NEW u, u # None,
         u = request[g].old.user \/ u = request[g].new.user
  PROVE  /\ OfStaff(u) /\ account[u].phone \in Phones(request[g])
         /\ account[u].role = "courier" => account[u].entity = request[g].m
<1> DEFINE r == request[g]
<1>1. /\ r \in Requests /\ UpToDate(r) /\ InOrder(r)
      /\ r.old.user # None => OfStaff(r.old.user)
      /\ r.new.user # None => OfStaff(r.new.user)
  BY DEF StaffBase, StaffShape, StaffApart, Busy
<1> HIDE DEF r
<1>2. OfStaff(u)
  BY <1>1 DEF r
<1>3. CASE u = r.old.user
  <2>1. r.m \in Hired /\ r.old = staff[r.m]
    BY <1>1, <1>3 DEF UpToDate, Nobody
  <2>2. AccountOf(u, r.m, r.old.phone)
    BY <1>3, <2>1 DEF StaffApart, RowsNameTheirs
  <2>3. r.old \in Rows
    BY <2>1 DEF StaffBase, StaffShape, Hired
  <2>4. r.old.phone \in Phones(r)
    BY <2>3, NoneIsAbsent DEF Phones, Rows
  <2> QED
    BY <1>2, <2>2, <2>4 DEF AccountOf, r
<1>4. CASE u = r.new.user /\ u # r.old.user
  <2>1. AccountOf(u, r.m, r.new.phone)
    BY <1>1, <1>4 DEF UpToDate
  <2>2. r.new.phone \in Phones(r)
    BY <1>1, NoneIsAbsent DEF Phones, Requests, Rows
  <2> QED
    BY <1>2, <2>1, <2>2 DEF AccountOf, r
<1> QED
  BY <1>3, <1>4 DEF r

(* An account that returns has the phone of the row.                       *)
LEMMA PhoneOfReturned ==
  ASSUME StaffBase, StaffApart, NEW g \in Manager, Busy(g), request[g].pc \in Opening,
         request[g].new.user # None
  PROVE  /\ account[request[g].new.user].phone = request[g].new.phone
         /\ request[g].m \in Hired /\ staff[request[g].m] = request[g].old
         /\ request[g].new.user = request[g].old.user
<1> DEFINE r == request[g]
<1>1. UpToDate(r) /\ InOrder(r)
  BY DEF StaffBase, StaffApart
<1>2. r.new.user = r.old.user /\ ~PhoneChanged(r) /\ r.old.user # None
  BY <1>1 DEF InOrder
<1>3. r.m \in Hired /\ r.old = staff[r.m]
  BY <1>1, <1>2 DEF UpToDate, Nobody
<1>4. account[r.old.user].phone = r.old.phone
  BY <1>2, <1>3 DEF StaffApart, RowsNameTheirs, AccountOf
<1> QED
  BY <1>2, <1>3, <1>4 DEF PhoneChanged

(* Two requests name different accounts.                                   *)
LEMMA Disjoint ==
  ASSUME StaffBase, StaffApart, NEW g \in Manager, NEW h \in Manager, g # h, Busy(g), Busy(h),
         NEW u, u # None, u = request[g].old.user \/ u = request[g].new.user
  PROVE  u # request[h].old.user /\ u # request[h].new.user /\ request[g].m # request[h].m
<1>1. /\ Phones(request[g]) \cap Phones(request[h]) = {} /\ request[g].m # request[h].m
  BY DEF StaffApart, RequestsApart, Apart
<1>2. account[u].phone \in Phones(request[g])
  BY PhoneOfUser
<1>3. u = request[h].old.user \/ u = request[h].new.user => account[u].phone \in Phones(request[h])
  BY PhoneOfUser
<1> QED
  BY <1>1, <1>2, <1>3

(* What a request knows stays true while nobody touches its member, its    *)
(* accounts and its courier.                                               *)
LEMMA StillUpToDate ==
  ASSUME StaffBase, StaffApart, NEW h \in Manager, Busy(h), request'[h] = request[h],
         staff'[request[h].m] = staff[request[h].m],
         \A u \in UserId : OfStaff(u) /\ (u = request[h].old.user \/ u = request[h].new.user) =>
           account'[u] = account[u],
         courier'[request[h].m].approved => courier[request[h].m].approved
  PROVE  UpToDate(request[h])'
<1> DEFINE q == request[h]
<1>1. /\ q \in Requests /\ UpToDate(q) /\ InOrder(q)
      /\ q.old.user # None => OfStaff(q.old.user)
      /\ q.new.user # None => OfStaff(q.new.user)
      /\ q.m \in Member
  BY DEF StaffBase, StaffShape, StaffApart, Busy, Requests
<1>2. PICK p : p = q
  OBVIOUS
<1>3. /\ p.old.user # None => p.old.user \in UserId /\ account'[p.old.user] = account[p.old.user]
      /\ p.new.user # None => p.new.user \in UserId /\ account'[p.new.user] = account[p.new.user]
  BY <1>1, <1>2 DEF OfStaff
<1>4. p.m \in Hired' <=> p.m \in Hired
  BY <1>1, <1>2 DEF Hired
<1>5. p.old = IF p.m \in Hired' THEN staff'[p.m] ELSE Nobody
  BY <1>1, <1>2, <1>4 DEF UpToDate
<1>6. /\ p.pc \in {"busy", "turn"} => Closing(p) # None /\ account'[Closing(p)] = account[Closing(p)]
  BY <1>1, <1>2, <1>3 DEF InOrder, Closing, Disabling, Closes
<1>7. p.pc \in Opened /\ Opens(p) => p.new.user # None
  BY <1>1, <1>2 DEF InOrder
<1>8. Closes(p) => p.old.user # None
  BY DEF Closes
<1>9. UpToDate(p)
  BY <1>1, <1>2
<1>10. courier'[p.m].approved => courier[p.m].approved
  BY <1>2
<1>11. p.pc \in Opened /\ Opens(p) => account'[p.new.user].role = AppRole(p.m, p.new).role
                                    /\ account'[p.new.user].entity = AppRole(p.m, p.new).entity
                                    /\ account'[p.new.user].phone = p.new.phone
  BY <1>3, <1>7, <1>9 DEF UpToDate, Belongs, AppRole
<1>12. p.new.user # None => \/ p.new.user = p.old.user
                            \/ AccountOf(p.new.user, p.m, p.new.phone)'
  BY <1>3, <1>9 DEF UpToDate, AccountOf
<1>13. p.pc \in Opened /\ Opens(p) => Belongs(p.new.user, p)'
  BY <1>11 DEF Belongs, AppRole
<1>14. UpToDate(p)'
  BY <1>3, <1>5, <1>6, <1>8, <1>9, <1>10, <1>11, <1>12, <1>13 DEF UpToDate
<1> QED
  BY <1>2, <1>14 DEF UpToDate, AccountOf, Belongs, Opens, Closes, Closing, Want, Had, Relink, PhoneChanged

(* Who works stays accounted for, if the request of g answers for what it  *)
(* did before and for what it turns now.                                   *)
LEMMA AccountedStep ==
  ASSUME StaffBase, StaffApart, NEW g \in Manager, NEW s,
         request' = [request EXCEPT ![g] = s], staff' = staff, leaked \subseteq leaked',
         \A u \in UserId \ leaked' : account'[u] # NoAccount /\ account'[u].role # "customer" =>
           /\ account'[u] = account[u] \/ (s # Idle /\ InHand(u, s))
           /\ Busy(g) /\ InHand(u, request[g]) => s # Idle /\ InHand(u, s)
  PROVE  Accounted'
<1> SUFFICES ASSUME NEW u \in UserId \ leaked', account'[u] # NoAccount, account'[u].role # "customer"
             PROVE  HasRow(u)' \/ \E h \in Manager : Busy(h)' /\ InHand(u, request[h])'
  BY DEF Accounted
<1>1. request'[g] = s /\ \A h \in Manager : h # g => request'[h] = request[h]
  BY DEF StaffBase, StaffShape
<1>2. CASE s # Idle /\ InHand(u, s)
  BY <1>1, <1>2 DEF Busy, InHand, Opens, Want, Had, Relink, PhoneChanged
<1>3. CASE ~(s # Idle /\ InHand(u, s))
  <2>1. account'[u] = account[u]
    BY <1>3
  <2>2. HasRow(u) \/ \E h \in Manager : Busy(h) /\ InHand(u, request[h])
    BY <2>1 DEF StaffApart, Accounted
  <2>3. CASE HasRow(u)
    BY <2>1, <2>3 DEF HasRow, Hired
  <2>4. CASE \E h \in Manager : Busy(h) /\ InHand(u, request[h])
    <3>1. PICK h \in Manager : Busy(h) /\ InHand(u, request[h])
      BY <2>4
    <3>2. h # g
      BY <1>3, <3>1
    <3>3. Busy(h)' /\ InHand(u, request[h])'
      BY <1>1, <3>1, <3>2 DEF Busy, InHand
    <3> QED
      BY <3>3
  <2> QED
    BY <2>2, <2>3, <2>4
<1> QED
  BY <1>2, <1>3

(* The requests stay apart, and each knows what it knew.                   *)
LEMMA RequestsStep ==
  ASSUME StaffBase, StaffApart, NEW g \in Manager, NEW s,
         request' = [request EXCEPT ![g] = s],
         s # Idle => /\ Busy(g) => Continues(request[g], s)
                     /\ ~Busy(g) => \A h \in Manager : Busy(h) => Apart(s, request[h])
                     /\ UpToDate(s)',
         \A h \in Manager : h # g /\ Busy(h) => UpToDate(request[h])'
  PROVE  /\ RequestsApart'
         /\ \A h \in Manager : Busy(h)' => UpToDate(request[h])'
<1>1. request'[g] = s /\ \A h \in Manager : h # g => request'[h] = request[h]
  BY DEF StaffBase, StaffShape
<1>2. ASSUME NEW h \in Manager, h # g, Busy(h), s # Idle
      PROVE  Apart(s, request[h]) /\ Apart(request[h], s)
  <2>1. Apart(s, request[h])
    <3>1. CASE Busy(g)
      <4>1. Apart(request[g], request[h])
        BY <1>2, <3>1 DEF StaffApart, RequestsApart
      <4> QED
        BY <1>2, <3>1, <4>1 DEF Apart, Phones, Continues
    <3>2. CASE ~Busy(g)
      BY <1>2, <3>2
    <3> QED
      BY <3>1, <3>2
  <2> QED
    BY <2>1 DEF Apart
<1>3. \A h, k \in Manager : h # k /\ Busy(h)' /\ Busy(k)' => Apart(request'[h], request'[k])
  BY <1>1, <1>2 DEF Busy, StaffApart, RequestsApart
<1>4. RequestsApart'
  BY <1>3 DEF RequestsApart
<1>5. \A h \in Manager : Busy(h)' => UpToDate(request[h])'
  <2> TAKE h \in Manager
  <2> HAVE Busy(h)'
  <2>1. CASE h # g
    BY <1>1, <2>1 DEF Busy
  <2>2. CASE h = g
    <3>1. s # Idle /\ request'[h] = s
      BY <1>1, <2>2 DEF Busy
    <3>2. UpToDate(s)'
      BY <3>1
    <3> QED
      BY <3>1, <3>2 DEF UpToDate, AccountOf, Belongs
  <2> QED
    BY <2>1, <2>2
<1> QED
  BY <1>4, <1>5

(* The rows still name their accounts if the accounts did not change.      *)
LEMMA RowsSame ==
  ASSUME StaffApart, staff' = staff, account' = account
  PROVE  RowsNameTheirs' /\ \A m : HasAccount(m)' <=> HasAccount(m)
BY DEF StaffApart, RowsNameTheirs, AccountOf, Hired, HasAccount

(* A new request is apart from the others and has read its row.            *)
LEMMA BeginApart ==
  ASSUME StaffBase, StaffApart, ~Overlap, NEW g \in Manager, Create(g) \/ Update(g),
         UNCHANGED <<staff, account, courier, ride, foreign, leaked>>
  PROVE  StaffApart'
<1>1. PICK s \in Requests :
           /\ request[g] = Idle /\ request' = [request EXCEPT ![g] = s] /\ InOrder(s)
           /\ s.old = IF s.m \in Hired THEN staff[s.m] ELSE Nobody
           /\ s.new.user = s.old.user /\ ~s.undo
           /\ s.pc \in {"phone", "close", "open", "save"}
           /\ s.pc \in {"open", "save"} => ~Closes(s)
           /\ s.pc = "save" => ~Opens(s)
           /\ \A h \in Manager : Busy(h) => Apart(s, request[h])
  BY BeginIs DEF StaffBase
<1>2. UpToDate(s)'
  BY <1>1 DEF UpToDate, Opening, Opened, Hired
<1>3. \A h \in Manager : h # g /\ Busy(h) => UpToDate(request[h])'
  <2> TAKE h \in Manager
  <2> HAVE h # g /\ Busy(h)
  <2>1. request'[h] = request[h]
    BY <1>1 DEF StaffBase, StaffShape
  <2> QED
    BY <2>1, StillUpToDate
<1>4. ~Busy(g)
  BY <1>1 DEF Busy
<1>5. RequestsApart' /\ \A h \in Manager : Busy(h)' => UpToDate(request[h])'
  BY <1>1, <1>2, <1>3, <1>4, RequestsStep
<1>6. Accounted'
  BY <1>1, <1>4, AccountedStep
<1>7. RowsNameTheirs' /\ ApprovedMeansLinked'
  BY RowsSame DEF ApprovedMeansLinked, StaffApart
<1> QED
  BY <1>5, <1>6, <1>7 DEF StaffApart

(* The check of the phone changes nothing that others know.                *)
LEMMA CheckPhoneApart ==
  ASSUME StaffBase, StaffApart, NEW g \in Manager, CheckPhone(g),
         UNCHANGED <<staff, made, account, courier, ride, requests, foreign, leaked>>
  PROVE  StaffApart'
<1> DEFINE r == request[g]
<1>1. /\ r \in Requests /\ r.pc = "phone"
  BY CheckPhoneIs
<1>2. PICK s : /\ request' = [request EXCEPT ![g] = s]
               /\ \/ s = Idle
                  \/ /\ Continues(r, s) /\ s.new = r.new /\ ~s.undo
                     /\ s.pc \in {"close", "open", "save"}
                     /\ s.pc \in {"open", "save"} => ~Closes(s)
                     /\ s.pc = "save" => ~Opens(s)
  BY CheckPhoneIs
<1>3. Busy(g) /\ UpToDate(r) /\ InOrder(r)
  BY <1>1, Nothing DEF Busy, StaffApart, StaffBase
<1> HIDE DEF r
<1>4. s # Idle => UpToDate(s)'
  BY <1>1, <1>2, <1>3 DEF UpToDate, Opening, Opened, Hired, Continues, AccountOf
<1>5. \A h \in Manager : h # g /\ Busy(h) => UpToDate(request[h])'
  <2> TAKE h \in Manager
  <2> HAVE h # g /\ Busy(h)
  <2>1. request'[h] = request[h]
    BY <1>2 DEF StaffBase, StaffShape
  <2> QED
    BY <2>1, StillUpToDate
<1>6. RequestsApart' /\ \A h \in Manager : Busy(h)' => UpToDate(request[h])'
  BY <1>2, <1>3, <1>4, <1>5, RequestsStep DEF r
<1>7. ~\E u : InHand(u, r)
  BY <1>1, <1>3 DEF InHand, InOrder, Disabling, Opened
<1>8. Accounted'
  BY <1>2, <1>7, AccountedStep DEF r
<1>9. RowsNameTheirs' /\ ApprovedMeansLinked'
  BY RowsSame DEF ApprovedMeansLinked, StaffApart
<1> QED
  BY <1>6, <1>8, <1>9 DEF StaffApart

(* The account that is found has the phone of the request and belongs to   *)
(* its member.                                                             *)
LEMMA ChooseApart ==
  ASSUME StaffBase, StaffApart, NEW g \in Manager, Choose(g),
         UNCHANGED <<staff, made, account, courier, ride, requests, foreign, leaked>>
  PROVE  StaffApart'
<1> DEFINE r == request[g]
<1>1. /\ r \in Requests /\ r.pc = "open"
  BY ChooseIs
<1>2. PICK s : /\ request' = [request EXCEPT ![g] = s]
               /\ \/ s = Idle
                  \/ /\ Continues(r, s) /\ s.new = r.new /\ ~s.undo /\ s.pc = "link"
                     /\ s.new.user # None => account[s.new.user].role = "customer"
                  \/ /\ Continues(r, s) /\ ~s.undo /\ s.pc \in Opened /\ Opens(s)
                     /\ OfStaff(s.new.user) /\ Belongs(s.new.user, s)
                     /\ IF r.new.user # None THEN s.new.user = r.new.user
                        ELSE account[s.new.user].phone = s.new.phone
  BY ChooseIs
<1>3. Busy(g) /\ UpToDate(r) /\ InOrder(r)
  BY <1>1, Nothing DEF Busy, StaffApart, StaffBase
<1> HIDE DEF r
<1>4. s # Idle => UpToDate(s)
  <2>1. SUFFICES ASSUME s # Idle PROVE UpToDate(s)
    OBVIOUS
  <2>2. Continues(r, s) /\ s.m = r.m /\ s.old = r.old /\ s.new.phone = r.new.phone
    BY <1>2, <2>1 DEF Continues
  <2>3. (Closes(s) <=> Closes(r)) /\ (Opens(s) <=> Opens(r))
    BY <1>1, <2>2, SameWish DEF Continues
  <2>4. s.old = IF s.m \in Hired THEN staff[s.m] ELSE Nobody
    BY <1>3, <2>2 DEF UpToDate
  <2>5. Closes(s) => account[s.old.user].role = "customer"
    BY <1>1, <1>3, <2>2, <2>3 DEF UpToDate, Opening, Opened
  <2>6. CASE s.new = r.new /\ s.pc = "link" /\ (s.new.user # None => account[s.new.user].role = "customer")
    BY <1>3, <2>2, <2>4, <2>5, <2>6 DEF UpToDate, Opened
  <2>7. CASE /\ s.pc \in Opened /\ Opens(s)
             /\ OfStaff(s.new.user) /\ Belongs(s.new.user, s)
             /\ IF r.new.user # None THEN s.new.user = r.new.user
                ELSE account[s.new.user].phone = s.new.phone
    <3>1. s.new.user # None => \/ s.new.user = s.old.user
                               \/ AccountOf(s.new.user, s.m, s.new.phone)
      <4>1. CASE r.new.user # None
        BY <1>3, <2>2, <2>7, <4>1 DEF UpToDate
      <4>2. CASE r.new.user = None
        <5>1. account[s.new.user].role = "courier" => account[s.new.user].entity = s.m
          <6>1. /\ account[s.new.user].role = AppRole(s.m, s.new).role
                /\ account[s.new.user].entity = AppRole(s.m, s.new).entity
            BY <2>7 DEF Belongs, AppRole
          <6> QED
            BY <6>1 DEF AppRole
        <5> QED
          BY <2>7, <4>2, <5>1 DEF AccountOf
      <4> QED
        BY <4>1, <4>2
    <3>2. account[s.new.user].phone = s.new.phone
      BY <1>1, <1>3, <2>2, <2>7, PhoneOfReturned DEF r, Opening
    <3> QED
      BY <2>4, <2>5, <2>7, <3>1, <3>2 DEF UpToDate, Opened
  <2> QED
    BY <1>2, <2>1, <2>6, <2>7
<1>5. s # Idle => UpToDate(s)'
  BY <1>4 DEF UpToDate, Hired, AccountOf, Belongs, AppRole
<1>6. \A h \in Manager : h # g /\ Busy(h) => UpToDate(request[h])'
  <2> TAKE h \in Manager
  <2> HAVE h # g /\ Busy(h)
  <2>1. request'[h] = request[h]
    BY <1>2 DEF StaffBase, StaffShape
  <2> QED
    BY <2>1, StillUpToDate
<1>7. RequestsApart' /\ \A h \in Manager : Busy(h)' => UpToDate(request[h])'
  BY <1>2, <1>3, <1>5, <1>6, RequestsStep DEF r
<1>8. ~\E u : InHand(u, r)
  BY <1>1, <1>3 DEF InHand, InOrder, Disabling, Opened
<1>9. Accounted'
  BY <1>2, <1>8, AccountedStep DEF r
<1>10. RowsNameTheirs' /\ ApprovedMeansLinked'
  BY RowsSame DEF ApprovedMeansLinked, StaffApart
<1> QED
  BY <1>7, <1>9, <1>10 DEF StaffApart

(* What a failed request leaves open is closed again or leaked.            *)
LEMMA FailsApart ==
  ASSUME StaffBase, StaffApart, NEW g \in Manager, Fails(g),
         UNCHANGED <<staff, made, account, courier, ride, requests, foreign>>
  PROVE  StaffApart'
<1> DEFINE r == request[g]
<1>1. /\ r \in Requests /\ InOrder(r)
      /\ leaked' = IF r.undo \/ r.pc = "activate" THEN leaked \cup {r.new.user} ELSE leaked
  BY FailsIs
<1>2. PICK s : /\ request' = [request EXCEPT ![g] = s]
               /\ IF r.pc = "save" /\ Opens(r)
                  THEN /\ Continues(r, s) /\ s.new = r.new /\ s.undo
                       /\ s.pc = "close"
                  ELSE s = Idle
  BY FailsIs
<1>3. Busy(g) /\ UpToDate(r)
  BY <1>1, Nothing DEF Busy, StaffApart, StaffBase
<1> HIDE DEF r
<1>4. s # Idle => UpToDate(s)'
  BY <1>1, <1>2, <1>3 DEF UpToDate, Opening, Opened, Hired, Continues, AccountOf
<1>5. \A h \in Manager : h # g /\ Busy(h) => UpToDate(request[h])'
  <2> TAKE h \in Manager
  <2> HAVE h # g /\ Busy(h)
  <2>1. request'[h] = request[h]
    BY <1>2 DEF StaffBase, StaffShape
  <2> QED
    BY <2>1, StillUpToDate
<1>6. RequestsApart' /\ \A h \in Manager : Busy(h)' => UpToDate(request[h])'
  BY <1>2, <1>3, <1>4, <1>5, RequestsStep DEF r
<1>7. \A u \in UserId \ leaked' : InHand(u, r) => s # Idle /\ InHand(u, s)
  BY <1>1, <1>2, Nothing DEF InHand, Opened, Continues
<1>8. Accounted'
  BY <1>1, <1>2, <1>7, AccountedStep DEF r
<1>9. RowsNameTheirs' /\ ApprovedMeansLinked'
  BY RowsSame DEF ApprovedMeansLinked, StaffApart
<1> QED
  BY <1>6, <1>8, <1>9 DEF StaffApart

(* The member of a request that closes: the account is his.                *)
LEMMA ClosingTheirs ==
  ASSUME StaffBase, StaffApart, NEW g \in Manager, "pc" \in DOMAIN request[g], request[g].pc \in Disabling
  PROVE  LET r == request[g]  c == Closing(r) IN
         /\ Busy(g) /\ UpToDate(r) /\ r.m \in Member
         /\ c # None /\ (c = r.old.user \/ c = r.new.user)
         /\ OfStaff(c) /\ (account[c].role = "courier" => account[c].entity = r.m)
         /\ \A h \in Manager : h # g /\ Busy(h) =>
              c # request[h].old.user /\ c # request[h].new.user /\ r.m # request[h].m
<1> DEFINE r == request[g]
           c == Closing(r)
<1>1. /\ r \in Requests /\ OfStaff(c) /\ r.m \in Member
      /\ c = IF r.undo THEN r.new.user ELSE r.old.user
  BY ClosingIs DEF Requests
<1>2. Busy(g) /\ UpToDate(r)
  BY <1>1, Nothing DEF Busy, StaffApart
<1>3. c # None /\ (c = r.old.user \/ c = r.new.user)
  BY <1>1, NoneIsAbsent DEF OfStaff
<1> HIDE DEF c
<1>4. account[c].role = "courier" => account[c].entity = r.m
  BY <1>2, <1>3, PhoneOfUser
<1>5. \A h \in Manager : h # g /\ Busy(h) =>
        c # request[h].old.user /\ c # request[h].new.user /\ r.m # request[h].m
  BY <1>2, <1>3, Disjoint
<1> QED
  BY <1>1, <1>2, <1>3, <1>4, <1>5 DEF c

(* The approval of the courier goes first; nobody else's request is about  *)
(* him.                                                                    *)
LEMMA LookApart ==
  ASSUME StaffBase, StaffApart, NEW g \in Manager, Look(g),
         UNCHANGED <<staff, made, account, ride, requests, foreign>>
  PROVE  StaffApart'
<1> DEFINE r == request[g]
           c == Closing(r)
           a == account[c]
<1>1. /\ "pc" \in DOMAIN r /\ r.pc = "close" /\ leaked' = leaked
      /\ CASE a.role = "courier" ->
                /\ request' = [request EXCEPT ![g] = [r EXCEPT !.pc = "busy"]]
                /\ a.entity \in Member /\ courier' = [courier EXCEPT ![a.entity].approved = FALSE]
           [] a.role = "waiter" ->
                /\ request' = [request EXCEPT ![g] = [r EXCEPT !.pc = "turn"]] /\ courier' = courier
           [] a.role = "customer" ->
                /\ request' = [request EXCEPT ![g] = Closed(r)] /\ courier' = courier
  BY LookIs
<1>2. /\ Busy(g) /\ UpToDate(r) /\ r.m \in Member
      /\ c # None /\ (c = r.old.user \/ c = r.new.user)
      /\ OfStaff(c) /\ (a.role = "courier" => a.entity = r.m)
      /\ \A h \in Manager : h # g /\ Busy(h) =>
           c # request[h].old.user /\ c # request[h].new.user /\ r.m # request[h].m
  BY <1>1, ClosingTheirs DEF Disabling
<1>3. /\ r \in Requests /\ InOrder(r) /\ a \in People
      /\ c = IF r.undo THEN r.new.user ELSE r.old.user
      /\ \A p \in Disabling : Continues(r, [r EXCEPT !.pc = p])
  BY <1>1, ClosingIs DEF Disabling
<1>4. IF r.undo THEN Closed(r) = Idle
      ELSE /\ Continues(r, Closed(r)) /\ ~Closed(r).undo /\ Closes(Closed(r))
           /\ Closed(r).pc = IF Opens(Closed(r)) THEN "open" ELSE "save"
           /\ Closed(r).new.user = IF PhoneChanged(Closed(r)) THEN None ELSE r.new.user
  BY <1>1, ClosedIs DEF Disabling
<1>5. a.role \in {"customer", "waiter", "courier"}
  BY <1>3 DEF People, Accounts
<1>6. /\ courier \in [Member -> [approved : BOOLEAN, available : BOOLEAN]]
      /\ account' = account /\ staff' = staff
  BY DEF StaffBase, StaffShape
<1>7. /\ \A m \in Member : m # r.m => courier'[m].approved = courier[m].approved
      /\ \A m \in Member : courier'[m].approved => courier[m].approved
      /\ a.role = "courier" => ~courier'[r.m].approved
  <2> HIDE DEF r, a
  <2>1. CASE a.role = "courier"
    BY <1>1, <1>2, <1>6, <2>1
  <2>2. CASE a.role # "courier"
    BY <1>1, <1>5, <1>6, <2>2
  <2> QED
    BY <2>1, <2>2
<1> HIDE DEF r, c, a
<1>8. PICK s : /\ request' = [request EXCEPT ![g] = s]
               /\ \/ a.role = "courier" /\ s = [r EXCEPT !.pc = "busy"]
                  \/ a.role = "waiter" /\ s = [r EXCEPT !.pc = "turn"]
                  \/ a.role = "customer" /\ s = Closed(r)
  BY <1>1, <1>5
<1>9. \A p \in Disabling : /\ [r EXCEPT !.pc = p].undo = r.undo /\ [r EXCEPT !.pc = p].new = r.new
                           /\ [r EXCEPT !.pc = p].old = r.old /\ [r EXCEPT !.pc = p].m = r.m
                           /\ [r EXCEPT !.pc = p].pc = p
  BY <1>3 DEF Requests
<1>10. s # Idle => /\ Continues(r, s)
                   /\ \/ /\ s.pc \in {"busy", "turn"} /\ s.undo = r.undo /\ s.new = r.new
                         /\ s.pc = "busy" => a.role = "courier"
                         /\ s.pc = "turn" => a.role = "waiter"
                      \/ /\ s.pc \in {"open", "save"} /\ (s.pc = "save" => ~Opens(s)) /\ ~s.undo
                         /\ ~r.undo /\ s.new.user \in {None, r.new.user} /\ a.role = "customer"
  BY <1>3, <1>4, <1>8, <1>9 DEF Disabling
<1>11. s # Idle => UpToDate(s)'
  <2> SUFFICES ASSUME s # Idle PROVE UpToDate(s)'
    OBVIOUS
  <2>1. /\ s.m = r.m /\ s.old = r.old /\ s.new.phone = r.new.phone
    BY <1>10 DEF Continues
  <2>2. s.old = IF s.m \in Hired' THEN staff'[s.m] ELSE Nobody
    BY <1>2, <1>6, <2>1 DEF UpToDate, Hired
  <2>3. CASE /\ s.pc \in {"busy", "turn"} /\ s.undo = r.undo /\ s.new = r.new
             /\ s.pc = "busy" => a.role = "courier"
             /\ s.pc = "turn" => a.role = "waiter"
    <3>1. Closing(s) = c
      BY <2>1, <2>3 DEF Closing, c
    <3>2. account'[Closing(s)] = a
      BY <1>6, <3>1 DEF a
    <3>3. s.new.user # None => \/ s.new.user = s.old.user
                               \/ AccountOf(s.new.user, s.m, s.new.phone)'
      BY <1>2, <1>6, <2>1, <2>3 DEF UpToDate, AccountOf
    <3> QED
      BY <1>7, <2>1, <2>2, <2>3, <3>2, <3>3 DEF UpToDate, Opening, Opened
  <2>4. CASE /\ s.pc \in {"open", "save"} /\ (s.pc = "save" => ~Opens(s)) /\ ~s.undo
             /\ ~r.undo /\ s.new.user \in {None, r.new.user} /\ a.role = "customer"
    <3>1. account'[s.old.user].role = "customer"
      BY <1>3, <1>6, <2>1, <2>4 DEF a
    <3>2. s.new.user # None => \/ s.new.user = s.old.user
                               \/ AccountOf(s.new.user, s.m, s.new.phone)'
      BY <1>2, <1>6, <2>1, <2>4 DEF UpToDate, AccountOf
    <3> QED
      BY <2>2, <2>4, <3>1, <3>2 DEF UpToDate, Opening, Opened
  <2> QED
    BY <1>10, <2>3, <2>4
<1>12. \A h \in Manager : h # g /\ Busy(h) => UpToDate(request[h])'
  <2> TAKE h \in Manager
  <2> HAVE h # g /\ Busy(h)
  <2>1. request'[h] = request[h]
    BY <1>8 DEF StaffBase, StaffShape
  <2>2. request[h].m \in Member
    BY DEF StaffBase, StaffShape, Busy, Requests
  <2> QED
    BY <1>6, <1>7, <2>1, <2>2, StillUpToDate
<1>13. RequestsApart' /\ \A h \in Manager : Busy(h)' => UpToDate(request[h])'
  BY <1>2, <1>8, <1>10, <1>11, <1>12, RequestsStep DEF r
<1>14. \A u \in UserId \ leaked' : account'[u].role # "customer" /\ InHand(u, r) => s # Idle /\ InHand(u, s)
  <2> SUFFICES ASSUME NEW u \in UserId, account[u].role # "customer", InHand(u, r)
               PROVE  s # Idle /\ InHand(u, s)
    BY <1>6
  <2>1. r.undo /\ u = c
    BY <1>1, <1>3 DEF InHand, Opened, r
  <2>2. a.role # "customer"
    BY <2>1 DEF a
  <2>3. s \in {[r EXCEPT !.pc = "busy"], [r EXCEPT !.pc = "turn"]}
    BY <1>8, <2>2
  <2>4. s # Idle
    BY <1>3, <1>9, <2>3 DEF Disabling, Idle
  <2>5. s.undo /\ s.new = r.new
    BY <1>9, <2>1, <2>3 DEF Disabling
  <2> QED
    BY <2>4, <2>5 DEF InHand
<1>15. Accounted'
  BY <1>1, <1>6, <1>8, <1>14, AccountedStep DEF r
<1>16. RowsNameTheirs' /\ ApprovedMeansLinked'
  BY <1>6, <1>7, RowsSame DEF ApprovedMeansLinked, StaffApart
<1> QED
  BY <1>13, <1>15, <1>16 DEF StaffApart

(* The approval is given back to a courier who still has his account.      *)
LEMMA BusyApart ==
  ASSUME StaffBase, StaffApart, NEW g \in Manager, CheckBusy(g) \/ BusyFails(g),
         UNCHANGED <<staff, made, account, ride, requests, foreign>>
  PROVE  StaffApart'
<1> DEFINE r == request[g]
           c == Closing(r)
           a == account[c]
<1>1. /\ "pc" \in DOMAIN r /\ r.pc = "busy" /\ a.entity \in Member
      /\ \/ /\ request' = [request EXCEPT ![g] = Idle]
            /\ courier' = [courier EXCEPT ![a.entity].approved = TRUE]
            /\ leaked' = IF r.undo THEN leaked \cup {c} ELSE leaked
         \/ /\ request' = [request EXCEPT ![g] = [r EXCEPT !.pc = "turn"]]
            /\ courier' = [courier EXCEPT ![a.entity].available = FALSE]
            /\ leaked' = leaked
  BY BusyIs
<1>2. /\ Busy(g) /\ UpToDate(r) /\ r.m \in Member
      /\ c # None /\ (c = r.old.user \/ c = r.new.user)
      /\ OfStaff(c) /\ (a.role = "courier" => a.entity = r.m)
      /\ \A h \in Manager : h # g /\ Busy(h) =>
           c # request[h].old.user /\ c # request[h].new.user /\ r.m # request[h].m
  BY <1>1, ClosingTheirs DEF Disabling
<1>3. /\ r \in Requests /\ InOrder(r)
      /\ c = IF r.undo THEN r.new.user ELSE r.old.user
      /\ Continues(r, [r EXCEPT !.pc = "turn"])
  BY <1>1, ClosingIs DEF Disabling
<1>4. /\ courier \in [Member -> [approved : BOOLEAN, available : BOOLEAN]]
      /\ account' = account /\ staff' = staff
  BY DEF StaffBase, StaffShape
<1>5. a.role = "courier" /\ a.entity = r.m /\ ~courier[r.m].approved
  BY <1>1, <1>2 DEF UpToDate
<1> HIDE DEF r, c, a
<1>6. PICK s : /\ request' = [request EXCEPT ![g] = s]
               /\ \/ /\ s = Idle /\ courier' = [courier EXCEPT ![r.m].approved = TRUE]
                     /\ leaked' = IF r.undo THEN leaked \cup {c} ELSE leaked
                  \/ /\ s = [r EXCEPT !.pc = "turn"] /\ courier' = [courier EXCEPT ![r.m].available = FALSE]
                     /\ leaked' = leaked
  BY <1>1, <1>5
<1>7. \A m \in Member : m # r.m => courier'[m].approved = courier[m].approved
  BY <1>4, <1>6
<1>8. s # Idle => /\ Continues(r, s) /\ s.pc = "turn" /\ s.undo = r.undo /\ s.new = r.new
                  /\ s.old = r.old /\ s.m = r.m
                  /\ ~courier'[r.m].approved
  BY <1>2, <1>3, <1>4, <1>5, <1>6 DEF Requests
<1>9. s # Idle => UpToDate(s)'
  <2> SUFFICES ASSUME s # Idle PROVE UpToDate(s)'
    OBVIOUS
  <2>1. s.old = IF s.m \in Hired' THEN staff'[s.m] ELSE Nobody
    BY <1>2, <1>4, <1>8 DEF UpToDate, Hired
  <2>2. s.new.user # None => \/ s.new.user = s.old.user
                             \/ AccountOf(s.new.user, s.m, s.new.phone)'
    BY <1>2, <1>4, <1>8 DEF UpToDate, AccountOf
  <2> QED
    BY <1>8, <2>1, <2>2 DEF UpToDate, Opening, Opened
<1>10. \A h \in Manager : h # g /\ Busy(h) => UpToDate(request[h])'
  <2> TAKE h \in Manager
  <2> HAVE h # g /\ Busy(h)
  <2>1. request'[h] = request[h]
    BY <1>6 DEF StaffBase, StaffShape
  <2>2. request[h].m \in Member /\ request[h].m # r.m
    BY <1>2 DEF StaffBase, StaffShape, Busy, Requests
  <2> QED
    BY <1>4, <1>7, <2>1, <2>2, StillUpToDate
<1>11. RequestsApart' /\ \A h \in Manager : Busy(h)' => UpToDate(request[h])'
  BY <1>2, <1>6, <1>8, <1>9, <1>10, RequestsStep DEF r
<1>12. \A u \in UserId \ leaked' : InHand(u, r) => s # Idle /\ InHand(u, s)
  <2> SUFFICES ASSUME NEW u \in UserId \ leaked', InHand(u, r)
               PROVE  s # Idle /\ InHand(u, s)
    OBVIOUS
  <2>1. r.undo /\ u = c
    BY <1>1, <1>3 DEF InHand, Opened, r
  <2>2. s # Idle
    BY <1>3, <1>6, <2>1, Nothing DEF Continues
  <2> QED
    BY <1>8, <2>1, <2>2 DEF InHand
<1>13. Accounted'
  BY <1>4, <1>6, <1>12, AccountedStep DEF r
<1>14. ApprovedMeansLinked'
  <2> SUFFICES ASSUME NEW m \in Member, courier'[m].approved PROVE HasAccount(m)'
    BY DEF ApprovedMeansLinked
  <2>1. HasAccount(r.m)
    BY <1>2, <1>5 DEF HasAccount, OfStaff, a
  <2>2. m # r.m => HasAccount(m)
    BY <1>7 DEF StaffApart, ApprovedMeansLinked
  <2> QED
    BY <1>4, <2>1, <2>2 DEF HasAccount
<1>15. RowsNameTheirs'
  BY <1>4, RowsSame
<1> QED
  BY <1>11, <1>13, <1>14, <1>15 DEF StaffApart

(* The account that is turned is no approved courier's, and no other       *)
(* request's.                                                              *)
LEMMA TurnApart ==
  ASSUME StaffBase, StaffApart, NEW g \in Manager, Turn(g),
         UNCHANGED <<staff, made, courier, ride, requests, foreign, leaked>>
  PROVE  StaffApart'
<1> DEFINE r == request[g]
           c == Closing(r)
           n == Closed(r)
           a == [phone |-> account[c].phone, role |-> "customer", entity |-> None]
<1>1. /\ "pc" \in DOMAIN r /\ r.pc = "turn"
      /\ request' = [request EXCEPT ![g] = n]
      /\ account' = [account EXCEPT ![c] = a]
  BY TurnIs
<1>2. /\ Busy(g) /\ UpToDate(r) /\ r.m \in Member
      /\ c # None /\ (c = r.old.user \/ c = r.new.user)
      /\ OfStaff(c) /\ (account[c].role = "courier" => account[c].entity = r.m)
      /\ \A h \in Manager : h # g /\ Busy(h) =>
           c # request[h].old.user /\ c # request[h].new.user /\ r.m # request[h].m
  BY <1>1, ClosingTheirs DEF Disabling
<1>3. /\ r \in Requests /\ InOrder(r) /\ account[c] \in People
      /\ c = IF r.undo THEN r.new.user ELSE r.old.user
  BY <1>1, ClosingIs DEF Disabling
<1>4. IF r.undo THEN n = Idle
      ELSE /\ Continues(r, n) /\ ~n.undo /\ Closes(n)
           /\ n.pc = IF Opens(n) THEN "open" ELSE "save"
           /\ n.new.user = IF PhoneChanged(n) THEN None ELSE r.new.user
  BY <1>1, ClosedIs DEF Disabling
<1>5. a.role = "customer" /\ a.phone = account[c].phone
  OBVIOUS
<1>6. account[c].role = "courier" => ~courier[r.m].approved
  BY <1>1, <1>2 DEF UpToDate
<1> HIDE DEF r, c, n, a
<1>7. /\ account'[c] = a /\ \A u \in UserId : u # c => account'[u] = account[u]
      /\ c \in UserId /\ account[c] # NoAccount
  BY <1>1, <1>2 DEF StaffBase, StaffShape, OfStaff
<1>8. \A u \in UserId : /\ account'[u].phone = account[u].phone
                        /\ account'[u].role # "customer" => account'[u] = account[u]
                        /\ account'[u] # NoAccount => account[u] # NoAccount
  BY <1>5, <1>7
<1>9. PICK s : s = n
  OBVIOUS
<1>10. s # Idle => /\ Continues(r, s) /\ s.pc \in {"open", "save"} /\ (s.pc = "save" => ~Opens(s))
                   /\ s.new.user \in {None, r.new.user} /\ ~r.undo
  BY <1>4, <1>9
<1>11. s # Idle => UpToDate(s)'
  <2> SUFFICES ASSUME s # Idle PROVE UpToDate(s)'
    OBVIOUS
  <2>1. /\ s.m = r.m /\ s.old = r.old
    BY <1>10 DEF Continues
  <2>2. s.old = IF s.m \in Hired' THEN staff'[s.m] ELSE Nobody
    BY <1>2, <2>1 DEF UpToDate, Hired
  <2>3. s.new.user # None => s.new.user = s.old.user
    BY <1>1, <1>3, <1>10, <2>1 DEF InOrder, Disabling
  <2>4. account'[s.old.user].role = "customer"
    BY <1>3, <1>5, <1>7, <1>10, <2>1
  <2> QED
    BY <1>10, <2>2, <2>3, <2>4 DEF UpToDate, Opening, Opened
<1>12. \A h \in Manager : h # g /\ Busy(h) => UpToDate(request[h])'
  <2> TAKE h \in Manager
  <2> HAVE h # g /\ Busy(h)
  <2>1. request'[h] = request[h]
    BY <1>1 DEF StaffBase, StaffShape
  <2>2. c # request[h].old.user /\ c # request[h].new.user
    BY <1>2
  <2> QED
    BY <1>7, <2>1, <2>2, StillUpToDate
<1>13. RequestsApart' /\ \A h \in Manager : Busy(h)' => UpToDate(request[h])'
  BY <1>1, <1>2, <1>9, <1>10, <1>11, <1>12, RequestsStep DEF r
<1>14. \A u \in UserId \ leaked' : account'[u].role # "customer" /\ InHand(u, r) => s # Idle /\ InHand(u, s)
  <2> TAKE u \in UserId \ leaked'
  <2> HAVE account'[u].role # "customer" /\ InHand(u, r)
  <2>1. u = c
    BY <1>1, <1>3 DEF InHand, Opened
  <2> QED
    BY <1>5, <1>7, <2>1
<1>15. Accounted'
  BY <1>1, <1>8, <1>9, <1>14, AccountedStep DEF r
<1>16. ApprovedMeansLinked'
  <2> SUFFICES ASSUME NEW m \in Member, courier[m].approved PROVE HasAccount(m)'
    BY DEF ApprovedMeansLinked
  <2>1. PICK u \in UserId : account[u] # NoAccount /\ account[u].role = "courier" /\ account[u].entity = m
    BY DEF StaffApart, ApprovedMeansLinked, HasAccount
  <2>2. u # c
    BY <1>2, <1>6, <2>1
  <2> QED
    BY <1>7, <2>1, <2>2 DEF HasAccount
<1>17. RowsNameTheirs'
  <2>1. \A m \in Hired : staff[m].user # None => staff[m].user \in UserId
    BY DEF StaffBase, OfStaff
  <2>2. Hired' = Hired
    BY DEF Hired
  <2> QED
    BY <1>8, <2>1, <2>2 DEF StaffApart, RowsNameTheirs, AccountOf
<1> QED
  BY <1>13, <1>15, <1>16, <1>17 DEF StaffApart
(* The account that is linked was a customer's or nobody's, and the        *)
(* request answers for it.                                                 *)
LEMMA LinkApart ==
  ASSUME StaffBase, StaffApart, NEW g \in Manager, Link(g),
         UNCHANGED <<staff, made, courier, ride, requests, foreign, leaked>>
  PROVE  StaffApart'
<1> DEFINE r == request[g]
<1>1. /\ r \in Requests /\ InOrder(r) /\ r.pc = "link"
      /\ r.new.user # None => OfStaff(r.new.user)
  BY LinkIs
<1>2. Busy(g) /\ UpToDate(r) /\ ~r.undo
  BY <1>1, Nothing DEF Busy, StaffApart, InOrder, Disabling
<1>3. ~\E u : InHand(u, r)
  BY <1>1, <1>2 DEF InHand, Opened
<1>4. CASE request' = [request EXCEPT ![g] = Idle] /\ account' = account
  <2>1. \A h \in Manager : h # g /\ Busy(h) => UpToDate(request[h])'
    <3> TAKE h \in Manager
    <3> HAVE h # g /\ Busy(h)
    <3>1. request'[h] = request[h]
      BY <1>4 DEF StaffBase, StaffShape
    <3> QED
      BY <1>4, <3>1, StillUpToDate
  <2>2. RequestsApart' /\ \A h \in Manager : Busy(h)' => UpToDate(request[h])'
    BY <1>4, <2>1, RequestsStep
  <2>3. Accounted'
    BY <1>3, <1>4, AccountedStep
  <2>4. RowsNameTheirs' /\ ApprovedMeansLinked'
    BY <1>4, RowsSame DEF ApprovedMeansLinked, StaffApart
  <2> QED
    BY <2>2, <2>3, <2>4 DEF StaffApart
<1>5. CASE ~(request' = [request EXCEPT ![g] = Idle] /\ account' = account)
  <2>1. PICK u \in UserId, phone \in Phone : \E s :
          /\ request' = [request EXCEPT ![g] = s]
          /\ IF r.new.user # None THEN u = r.new.user /\ phone = account[u].phone
             ELSE account[u] = NoAccount /\ ByPhone(phone) = {} /\ phone = r.new.phone
          /\ account' = [account EXCEPT ![u] =
               [phone |-> phone, role |-> AppRole(r.m, r.new).role, entity |-> AppRole(r.m, r.new).entity]]
          /\ account'[u] \in People /\ account'[u].role = r.new.position
          /\ account'[u].role # "customer" /\ (account'[u].role = "courier" => account'[u].entity = r.m)
          /\ Continues(r, s) /\ ~s.undo /\ s.pc \in Opened /\ Opens(s)
          /\ s.new.user = u /\ Belongs(u, s)'
    BY <1>5, LinkIs
  <2>2. PICK s :
          /\ request' = [request EXCEPT ![g] = s]
          /\ IF r.new.user # None THEN u = r.new.user /\ phone = account[u].phone
             ELSE account[u] = NoAccount /\ ByPhone(phone) = {} /\ phone = r.new.phone
          /\ account' = [account EXCEPT ![u] =
               [phone |-> phone, role |-> AppRole(r.m, r.new).role, entity |-> AppRole(r.m, r.new).entity]]
          /\ account'[u] \in People /\ account'[u].role = r.new.position
          /\ account'[u].role # "customer" /\ (account'[u].role = "courier" => account'[u].entity = r.m)
          /\ Continues(r, s) /\ ~s.undo /\ s.pc \in Opened /\ Opens(s)
          /\ s.new.user = u /\ Belongs(u, s)'
    BY <2>1
  <2> DEFINE a == [phone |-> phone, role |-> AppRole(r.m, r.new).role, entity |-> AppRole(r.m, r.new).entity]
  <2>3. account' = [account EXCEPT ![u] = a] /\ a.phone = phone
    BY <2>2
  <2> HIDE DEF a
  <2>4. account'[u].phone = phone /\ \A v \in UserId : v # u => account'[v] = account[v]
    BY <2>3 DEF StaffBase, StaffShape
  <2>5. account[u] = NoAccount \/ account[u].role = "customer"
    BY <1>1, <1>2, <2>2 DEF UpToDate
  <2>6. r.new.user # None => /\ u = r.old.user /\ phone = r.new.phone
                             /\ r.m \in Hired /\ staff[r.m] = r.old
    BY <1>1, <1>2, <2>2, PhoneOfReturned DEF Opening
  <2>7. \A h \in Manager : h # g /\ Busy(h) => u # request[h].old.user /\ u # request[h].new.user
    <3> TAKE h \in Manager
    <3> HAVE h # g /\ Busy(h)
    <3>1. CASE r.new.user # None
      BY <1>2, <2>2, <3>1, Disjoint
    <3>2. CASE r.new.user = None
      BY <2>2, <3>2, NoneIsAbsent DEF StaffBase, OfStaff
    <3> QED
      BY <3>1, <3>2
  <2> HIDE DEF r
  <2>8. UpToDate(s)'
    <3>1. s.m = r.m /\ s.old = r.old /\ s.new.phone = r.new.phone /\ s \in Requests
      BY <2>2 DEF Continues
    <3>2. s.old = IF s.m \in Hired' THEN staff'[s.m] ELSE Nobody
      BY <1>2, <3>1 DEF UpToDate, Hired
    <3>3. account'[s.new.user].phone = s.new.phone /\ AccountOf(s.new.user, s.m, s.new.phone)'
      BY <2>2, <2>4, <2>6, <3>1 DEF AccountOf
    <3>4. Closes(s) => account'[s.old.user].role = "customer" \/ s.new.user = s.old.user
      <4> SUFFICES ASSUME Closes(s), u # s.old.user PROVE account'[s.old.user].role = "customer"
        BY <2>2
      <4>1. Closes(r)
        BY <1>1, <2>2, <3>1, SameWish DEF Continues
      <4>2. account[r.old.user].role = "customer"
        BY <1>1, <1>2, <4>1 DEF UpToDate, Opening, Opened
      <4>3. r.old.user \in UserId
        BY <1>2, <4>1 DEF Closes, StaffBase, OfStaff, r
      <4> QED
        BY <2>4, <3>1, <4>2, <4>3
    <3>5. s.pc \in Opened /\ Opens(s) /\ Belongs(s.new.user, s)'
      BY <2>2
    <3> QED
      BY <3>2, <3>3, <3>4, <3>5 DEF UpToDate, Opening, Opened
  <2>9. \A h \in Manager : h # g /\ Busy(h) => UpToDate(request[h])'
    <3> TAKE h \in Manager
    <3> HAVE h # g /\ Busy(h)
    <3>1. request'[h] = request[h]
      BY <2>2 DEF StaffBase, StaffShape
    <3> QED
      BY <2>4, <2>7, <3>1, StillUpToDate
  <2>10. RequestsApart' /\ \A h \in Manager : Busy(h)' => UpToDate(request[h])'
    BY <1>2, <2>2, <2>8, <2>9, RequestsStep DEF r
  <2>11. s # Idle /\ InHand(u, s)
    BY <2>2, Nothing DEF InHand, Continues
  <2>12. Accounted'
    <3>1. \A v \in UserId : account'[v] = account[v] \/ (s # Idle /\ InHand(v, s))
      BY <2>4, <2>11
    <3>2. \A v : ~InHand(v, request[g])
      BY <1>3 DEF r
    <3>3. request' = [request EXCEPT ![g] = s] /\ staff' = staff /\ leaked \subseteq leaked'
      BY <2>2
    <3> QED
      BY <3>1, <3>2, <3>3, AccountedStep
  <2>13. ApprovedMeansLinked'
    <3> SUFFICES ASSUME NEW m \in Member, courier[m].approved PROVE HasAccount(m)'
      BY DEF ApprovedMeansLinked
    <3>1. PICK v \in UserId : account[v] # NoAccount /\ account[v].role = "courier" /\ account[v].entity = m
      BY DEF StaffApart, ApprovedMeansLinked, HasAccount
    <3>2. v # u
      BY <2>5, <3>1
    <3> QED
      BY <2>4, <3>1, <3>2 DEF HasAccount
  <2>14. \A m \in Hired : staff[m].user # None => AccountOf(staff[m].user, m, staff[m].phone)'
    <3> SUFFICES ASSUME NEW m \in Hired, staff[m].user # None
                 PROVE  AccountOf(staff[m].user, m, staff[m].phone)'
      OBVIOUS
    <3>1. staff[m].user \in UserId /\ account[staff[m].user] # NoAccount
      BY DEF StaffBase, OfStaff
    <3>2. AccountOf(staff[m].user, m, staff[m].phone)
      BY DEF StaffApart, RowsNameTheirs
    <3>3. CASE staff[m].user # u
      BY <2>4, <3>1, <3>2, <3>3 DEF AccountOf
    <3>4. CASE staff[m].user = u
      <4>1. r.new.user # None
        BY <2>2, <3>1, <3>4
      <4>2. m = r.m
        BY <2>6, <3>4, <4>1 DEF StaffApart, RowsNameTheirs
      <4> QED
        BY <2>2, <2>4, <3>2, <3>4, <4>1, <4>2 DEF AccountOf
    <3> QED
      BY <3>3, <3>4
  <2>15. \A v, w \in UserId : account'[v] # NoAccount /\ account'[w] # NoAccount
                              /\ account'[v].phone = account'[w].phone => v = w
    <3>1. \A v, w \in UserId : account[v] # NoAccount /\ account[w] # NoAccount
                               /\ account[v].phone = account[w].phone => v = w
      BY DEF StaffApart, RowsNameTheirs
    <3>2. ASSUME NEW v \in UserId, account[v] # NoAccount, v # u PROVE account[v].phone # phone
      <4>1. CASE r.new.user = None
        BY <2>2, <3>2, <4>1 DEF ByPhone
      <4>2. CASE r.new.user # None
        BY <1>1, <2>2, <3>1, <3>2, <4>2 DEF OfStaff
      <4> QED
        BY <4>1, <4>2
    <3>3. ASSUME NEW v \in UserId, account'[v] # NoAccount, v # u
          PROVE  account'[v] = account[v] /\ account'[v].phone # account'[u].phone
      BY <2>4, <3>2, <3>3
    <3> QED
      BY <3>1, <3>3
  <2>16. RowsNameTheirs'
    BY <2>14, <2>15 DEF StaffApart, RowsNameTheirs, Hired
  <2> QED
    BY <2>10, <2>12, <2>13, <2>16 DEF StaffApart
<1> QED
  BY <1>4, <1>5

(* The courier who is approved has the account that was linked to him.     *)
LEMMA ActivateApart ==
  ASSUME StaffBase, StaffApart, NEW g \in Manager, Activate(g),
         UNCHANGED <<staff, made, account, ride, requests, foreign, leaked>>
  PROVE  StaffApart'
<1> DEFINE r == request[g]
<1>1. PICK s : /\ request' = [request EXCEPT ![g] = s]
               /\ Continues(r, s) /\ ~s.undo /\ s.new = r.new /\ s.pc = "save" /\ Opens(s)
  BY ActivateIs
<1>2. /\ r \in Requests /\ InOrder(r) /\ r.pc = "activate" /\ Opens(r)
      /\ OfStaff(r.new.user)
      /\ courier' = [courier EXCEPT ![r.m].approved = TRUE]
  BY ActivateIs
<1>3. Busy(g) /\ UpToDate(r) /\ r.m \in Member /\ r.new.user # None
  BY <1>2, Nothing, NoneIsAbsent DEF Busy, StaffApart, Requests, OfStaff
<1>4. \A h \in Manager : h # g /\ Busy(h) => r.m # request[h].m
  BY <1>3, Disjoint
<1>5. HasAccount(r.m)
  <2>1. r.new.position = "courier"
    BY <1>2 DEF InOrder
  <2>2. /\ account[r.new.user].role = AppRole(r.m, r.new).role
        /\ account[r.new.user].entity = AppRole(r.m, r.new).entity
    BY <1>2, <1>3 DEF UpToDate, Opened, Belongs, AppRole
  <2> QED
    BY <1>2, <2>1, <2>2 DEF AppRole, HasAccount, OfStaff
<1> HIDE DEF r
<1>6. \A m \in Member : m # r.m => courier'[m].approved = courier[m].approved
  BY <1>2 DEF StaffBase, StaffShape
<1>7. UpToDate(s)'
  <2>1. s.m = r.m /\ s.old = r.old /\ (Closes(s) <=> Closes(r))
    BY <1>1, <1>2, SameWish DEF Continues
  <2>2. UpToDate(s)
    BY <1>1, <1>2, <1>3, <2>1 DEF UpToDate, Opening, Opened, Belongs
  <2> QED
    BY <1>1, <2>2 DEF UpToDate, Hired, AccountOf, Belongs, AppRole
<1>8. \A h \in Manager : h # g /\ Busy(h) => UpToDate(request[h])'
  <2> TAKE h \in Manager
  <2> HAVE h # g /\ Busy(h)
  <2>1. request'[h] = request[h]
    BY <1>1 DEF StaffBase, StaffShape
  <2>2. request[h].m \in Member /\ request[h].m # r.m
    BY <1>4 DEF StaffBase, StaffShape, Busy, Requests
  <2> QED
    BY <1>6, <2>1, <2>2, StillUpToDate
<1>9. RequestsApart' /\ \A h \in Manager : Busy(h)' => UpToDate(request[h])'
  BY <1>1, <1>3, <1>7, <1>8, RequestsStep DEF r
<1>10. \A u : InHand(u, r) => s # Idle /\ InHand(u, s)
  BY <1>1, <1>2, Nothing DEF InHand, Opened, Continues
<1>11. Accounted'
  BY <1>1, <1>10, AccountedStep DEF r
<1>12. RowsNameTheirs' /\ \A m : HasAccount(m)' <=> HasAccount(m)
  BY RowsSame
<1>13. ApprovedMeansLinked'
  BY <1>5, <1>6, <1>12 DEF ApprovedMeansLinked, StaffApart
<1> QED
  BY <1>9, <1>11, <1>12, <1>13 DEF StaffApart

(* The row that is written names the account the request has opened, or    *)
(* the one that was never closed.                                          *)
LEMMA SaveApart ==
  ASSUME StaffBase, StaffApart, NEW g \in Manager, Save(g),
         UNCHANGED <<made, account, courier, ride, requests, foreign, leaked>>
  PROVE  StaffApart'
<1> DEFINE r == request[g]
<1>1. /\ r \in Requests /\ InOrder(r) /\ r.pc = "save"
      /\ request' = [request EXCEPT ![g] = Idle]
      /\ staff' = [staff EXCEPT ![r.m] = r.new]
      /\ RowFits(r.m, r.new)
      /\ r.new.user # None => OfStaff(r.new.user)
  BY SaveIs
<1>2. Busy(g) /\ UpToDate(r) /\ r.m \in Member /\ r.new \in Rows
  BY <1>1, Nothing DEF Busy, StaffApart, Requests
<1>3. \A h \in Manager : h # g /\ Busy(h) => r.m # request[h].m
  BY <1>2 DEF StaffApart, RequestsApart, Apart
<1> HIDE DEF r
<1>4. /\ staff'[r.m] = r.new /\ \A m \in Member : m # r.m => staff'[m] = staff[m]
      /\ r.m \in Hired' /\ \A m \in Member : m # r.m => (m \in Hired' <=> m \in Hired)
  BY <1>1, <1>2, Nothing DEF StaffBase, StaffShape, Hired
<1>5. \A h \in Manager : h # g /\ Busy(h) => UpToDate(request[h])'
  <2> TAKE h \in Manager
  <2> HAVE h # g /\ Busy(h)
  <2>1. request'[h] = request[h]
    BY <1>1 DEF StaffBase, StaffShape
  <2>2. request[h].m \in Member /\ request[h].m # r.m
    BY <1>3 DEF StaffBase, StaffShape, Busy, Requests
  <2> QED
    BY <1>4, <2>1, <2>2, StillUpToDate
<1>6. RequestsApart' /\ \A h \in Manager : Busy(h)' => UpToDate(request[h])'
  BY <1>1, <1>5, RequestsStep
<1>7. r.new.user # None => AccountOf(r.new.user, r.m, r.new.phone)
  <2> SUFFICES ASSUME r.new.user # None PROVE AccountOf(r.new.user, r.m, r.new.phone)
    OBVIOUS
  <2>1. account[r.new.user].role = "courier" => account[r.new.user].entity = r.m
    BY <1>2, PhoneOfUser DEF r
  <2>2. CASE Opens(r)
    BY <1>1, <1>2, <2>1, <2>2 DEF UpToDate, Opened, AccountOf
  <2>3. CASE ~Opens(r)
    <3>1. r.new.user = r.old.user /\ ~PhoneChanged(r)
      BY <1>1, <2>3 DEF InOrder
    <3>2. r.m \in Hired /\ r.old = staff[r.m]
      BY <1>2, <3>1 DEF UpToDate, Nobody
    <3>3. account[r.old.user].phone = r.old.phone
      BY <3>1, <3>2 DEF StaffApart, RowsNameTheirs, AccountOf
    <3> QED
      BY <2>1, <3>1, <3>3 DEF PhoneChanged, AccountOf
  <2> QED
    BY <2>2, <2>3
<1>8. \A m \in Hired' : m \in Member /\ (m # r.m => m \in Hired)
  BY <1>4 DEF Hired
<1>9. \A m \in Hired' : staff'[m].user # None => AccountOf(staff[m].user, m, staff[m].phone)'
  BY <1>4, <1>7, <1>8 DEF StaffApart, RowsNameTheirs, AccountOf
<1>10. \A m, x \in Hired' : staff'[m].user # None /\ staff'[m].user = staff'[x].user => m = x
  <2>1. \A x \in Hired : x # r.m /\ r.new.user # None => staff[x].user # r.new.user
    BY <1>1 DEF RowFits
  <2> QED
    BY <1>4, <1>8, <2>1 DEF StaffApart, RowsNameTheirs
<1>11. RowsNameTheirs'
  BY <1>9, <1>10 DEF StaffApart, RowsNameTheirs
<1>12. ApprovedMeansLinked'
  BY DEF StaffApart, ApprovedMeansLinked, HasAccount
<1>13. ASSUME NEW u \in UserId \ leaked, account[u] # NoAccount, account[u].role # "customer",
              u = r.new.user, Want(r), r.new.position = account[u].role
       PROVE  HasRow(u)'
  <2>1. r.m \in Hired' /\ staff'[r.m].user = u /\ staff'[r.m].position = account'[u].role
    BY <1>4, <1>13
  <2>2. AccessEffective(staff'[r.m])
    BY <1>4, <1>13 DEF Want
  <2> QED
    BY <2>1, <2>2 DEF HasRow, AccessEffective
<1>14. ASSUME NEW u \in UserId \ leaked, account[u] # NoAccount, account[u].role # "customer"
       PROVE  HasRow(u)' \/ \E h \in Manager : Busy(h)' /\ InHand(u, request[h])'
  <2>1. HasRow(u) \/ \E h \in Manager : Busy(h) /\ InHand(u, request[h])
    BY <1>14 DEF StaffApart, Accounted
  <2>2. ASSUME NEW h \in Manager, Busy(h), InHand(u, request[h])
        PROVE  HasRow(u)' \/ \E k \in Manager : Busy(k)' /\ InHand(u, request[k])'
    <3>1. CASE h # g
      <4>1. request'[h] = request[h]
        BY <1>1, <3>1 DEF StaffBase, StaffShape
      <4> QED
        BY <2>2, <4>1 DEF Busy, InHand
    <3>2. CASE h = g
      <4>1. r.new.user = u /\ Opens(r)
        BY <1>1, <2>2, <3>2 DEF InHand, InOrder, r
      <4>2. account[u].role = r.new.position /\ Want(r)
        BY <1>1, <1>2, <4>1 DEF UpToDate, Opened, Belongs, AppRole, Opens
      <4> QED
        BY <1>13, <1>14, <4>1, <4>2
    <3> QED
      BY <3>1, <3>2
  <2>3. ASSUME NEW m \in Hired, staff[m].user = u, AccessEffective(staff[m]), staff[m].position = account[u].role
        PROVE  HasRow(u)'
    <3>1. CASE m # r.m
      <4>1. m \in Hired' /\ staff'[m] = staff[m]
        BY <1>4, <3>1 DEF Hired
      <4> QED
        BY <2>3, <4>1 DEF HasRow
    <3>2. CASE m = r.m
      <4>1. r.old = staff[m]
        BY <1>2, <3>2 DEF UpToDate
      <4>2. u # None
        BY NoneIsAbsent
      <4>3. CASE Closes(r)
        <5>1. Opens(r) /\ r.new.user = u
          BY <1>1, <1>2, <1>14, <2>3, <4>1, <4>3 DEF UpToDate, Opening, Opened
        <5>2. account[u].role = r.new.position /\ Want(r)
          BY <1>1, <1>2, <5>1 DEF UpToDate, Opened, Belongs, AppRole, Opens
        <5> QED
          BY <1>13, <1>14, <5>1, <5>2
      <4>4. CASE ~Closes(r)
        <5>1. r.new.user = u
          BY <1>1, <2>3, <4>1, <4>2, <4>4 DEF InOrder, Opening, Opened
        <5>2. Want(r) /\ r.new.position = r.old.position
          BY <2>3, <4>1, <4>2, <4>4 DEF Closes, Relink
        <5> QED
          BY <1>13, <1>14, <2>3, <4>1, <5>1, <5>2
      <4> QED
        BY <4>3, <4>4
    <3> QED
      BY <3>1, <3>2
  <2> QED
    BY <2>1, <2>2, <2>3 DEF HasRow
<1>15. Accounted'
  BY <1>14 DEF Accounted
<1> QED
  BY <1>6, <1>11, <1>12, <1>15 DEF StaffApart

(* Steps of dispatch and of people who sign up touch nothing a request     *)
(* knows.                                                                  *)
LEMMA OthersApart ==
  ASSUME StaffBase, StaffApart,
         \/ (\E m \in Member : GoOnline(m) \/ Claim(m) \/ Assign(m) \/ Deliver(m))
               /\ UNCHANGED <<staff, made, account, request, requests, foreign, leaked>>
         \/ (\E p \in Phone : SignUp(p))
               /\ UNCHANGED <<staff, made, courier, ride, request, requests, leaked>>
  PROVE  StaffApart'
<1>1. /\ \A u \in UserId : account[u] # NoAccount => account'[u] = account[u]
      /\ \A u \in UserId : account'[u] # NoAccount /\ account'[u].role # "customer" => account'[u] = account[u]
      /\ \A u, v \in UserId : account'[u] # NoAccount /\ account'[v] # NoAccount
                              /\ account'[u].phone = account'[v].phone => u = v
      /\ \A m \in Member : courier'[m].approved = courier[m].approved
  <2>0. \A u, v \in UserId : account[u] # NoAccount /\ account[v] # NoAccount
                             /\ account[u].phone = account[v].phone => u = v
    BY DEF StaffApart, RowsNameTheirs
  <2>1. CASE /\ \E m \in Member : GoOnline(m) \/ Claim(m) \/ Assign(m) \/ Deliver(m)
             /\ UNCHANGED <<staff, made, account, request, requests, foreign, leaked>>
    BY <2>0, <2>1, RideIs DEF StaffBase
  <2>2. CASE /\ \E p \in Phone : SignUp(p)
             /\ UNCHANGED <<staff, made, courier, ride, request, requests, leaked>>
    <3>1. PICK p \in Phone : SignUp(p)
      BY <2>2
    <3> DEFINE a == [phone |-> p, role |-> "customer", entity |-> None]
               f == FreshUser
    <3>2. /\ f \in UserId /\ account[f] = NoAccount
          /\ account' = [account EXCEPT ![f] = a]
          /\ a.role = "customer" /\ a.phone = p
          /\ ByPhone(p) = {}
      BY <3>1, SignUpIs
    <3> HIDE DEF a, f
    <3>3. account'[f] = a /\ \A u \in UserId : u # f => account'[u] = account[u]
      BY <3>2 DEF StaffBase, StaffShape
    <3>4. \A u \in UserId : account[u] # NoAccount => account[u].phone # p
      BY <3>2 DEF ByPhone
    <3>5. ASSUME NEW u \in UserId, account'[u] # NoAccount, u # f
          PROVE  account'[u] = account[u] /\ account'[u].phone # account'[f].phone
      BY <3>2, <3>3, <3>4, <3>5
    <3>6. \A u, v \in UserId : account'[u] # NoAccount /\ account'[v] # NoAccount
                               /\ account'[u].phone = account'[v].phone => u = v
      BY <2>0, <3>5
    <3> QED
      BY <2>2, <3>2, <3>3, <3>6
  <2> QED
    BY <2>1, <2>2
<1>2. UNCHANGED <<staff, request, leaked>>
  OBVIOUS
<1>3. \A h \in Manager : Busy(h)' => UpToDate(request[h])'
  <2> TAKE h \in Manager
  <2> HAVE Busy(h)'
  <2>1. Busy(h) /\ request'[h] = request[h]
    BY <1>2 DEF Busy
  <2>2. request[h].m \in Member
    BY <2>1 DEF StaffBase, StaffShape, Busy, Requests
  <2> QED
    BY <1>1, <1>2, <2>1, <2>2, StillUpToDate DEF OfStaff
<1>4. RequestsApart'
  BY <1>2 DEF StaffApart, RequestsApart, Busy
<1>5. Hired' = Hired
  BY <1>2 DEF Hired
<1>6. RowsNameTheirs'
  <2>1. \A m \in Hired : staff[m].user # None =>
          staff[m].user \in UserId /\ account'[staff[m].user] = account[staff[m].user]
    BY <1>1 DEF StaffBase, OfStaff
  <2> QED
    BY <1>1, <1>2, <1>5, <2>1 DEF StaffApart, RowsNameTheirs, AccountOf
<1>7. ApprovedMeansLinked'
  BY <1>1 DEF StaffApart, ApprovedMeansLinked, HasAccount
<1>8. Accounted'
  <2> SUFFICES ASSUME NEW u \in UserId \ leaked, account[u] # NoAccount, account[u].role # "customer",
                      account'[u] = account[u]
               PROVE  HasRow(u)' \/ \E h \in Manager : Busy(h)' /\ InHand(u, request[h])'
    BY <1>1, <1>2 DEF Accounted
  <2>1. HasRow(u) \/ \E h \in Manager : Busy(h) /\ InHand(u, request[h])
    BY DEF StaffApart, Accounted
  <2>2. HasRow(u) => HasRow(u)'
    BY <1>2, <1>5 DEF HasRow
  <2>3. \A h \in Manager : Busy(h) /\ InHand(u, request[h]) => Busy(h)' /\ InHand(u, request[h])'
    BY <1>2 DEF Busy, InHand
  <2> QED
    BY <2>1, <2>2, <2>3
<1> QED
  BY <1>3, <1>4, <1>6, <1>7, <1>8 DEF StaffApart

(* Every step keeps what holds while requests are apart.                   *)
LEMMA StaffApartNext ==
  ASSUME StaffBase, StaffApart, ~Overlap, StaffNext
  PROVE  StaffApart'
BY BeginApart, CheckPhoneApart, ChooseApart, FailsApart, SaveApart, LookApart, BusyApart, TurnApart,
   LinkApart, ActivateApart, OthersApart DEF StaffNext

(* Nobody is employed and nothing is asked at first.                       *)
LEMMA StaffInvInit ==
  ASSUME StaffInit
  PROVE  StaffInv
<1>1. Hired = {}
  BY DEF StaffInit, Hired
<1>2. \A g \in Manager : ~Busy(g)
  BY DEF StaffInit, Busy
<1>3. StaffBase
  BY <1>1, <1>2 DEF StaffInit, StaffBase, StaffShape, NoCourier
<1>4. StaffApart
  BY <1>1, <1>2 DEF StaffInit, StaffApart, RequestsApart, RowsNameTheirs, ApprovedMeansLinked,
                    Accounted, NoCourier
<1> QED
  BY <1>3, <1>4 DEF StaffInv

(* The invariant of the staff is inductive.                                *)
LEMMA StaffInvNext ==
  ASSUME StaffInv, StaffNext
  PROVE  StaffInv'
BY StaffBaseNext, StaffApartNext DEF StaffInv

(* It does not depend on the other parts.                                  *)
LEMMA StaffInvSame ==
  ASSUME StaffInv, UNCHANGED staffVars
  PROVE  StaffInv'
<1>1. UNCHANGED <<staff, made, account, courier, request, foreign, leaked>>
  BY DEF staffVars
<1>2. StaffBase'
  BY <1>1 DEF StaffInv, StaffBase, StaffShape, Hired, Busy, OfStaff
<1>3. ~Overlap => StaffApart'
  <2> SUFFICES ASSUME StaffApart PROVE StaffApart'
    BY DEF StaffInv
  <2>1. RequestsApart' /\ RowsNameTheirs' /\ ApprovedMeansLinked'
    BY <1>1 DEF StaffApart, RequestsApart, RowsNameTheirs, ApprovedMeansLinked, HasAccount, AccountOf, Hired, Busy
  <2>2. \A h \in Manager : Busy(h)' => UpToDate(request[h])'
    BY <1>1, StillUpToDate DEF StaffInv, Busy
  <2>3. Accounted'
    BY <1>1 DEF StaffApart, Accounted, HasRow, InHand, Hired, Busy
  <2> QED
    BY <2>1, <2>2, <2>3 DEF StaffApart
<1> QED
  BY <1>2, <1>3 DEF StaffInv

-----------------------------------------------------------------------------
(* The staff: what the properties say *)

(* Whoever can work is accounted for by a row when nobody is at work on it.*)
LEMMA StaffClosed ==
  ASSUME StaffInv, ~Overlap
  PROVE  ApprovedMeansLinked /\ ClosedMeansClosed
<1>1. ApprovedMeansLinked
  BY DEF StaffInv, StaffApart
<1>2. ASSUME \A g \in Manager : request[g] = Idle, NEW u \in UserId \ leaked, Works(u)
      PROVE  \E m \in Hired : /\ staff[m].user = u /\ AccessEffective(staff[m])
                              /\ AppRole(m, staff[m]).role = account[u].role
  <2>1. account[u] # NoAccount /\ account[u].role # "customer"
    BY <1>2 DEF Works, Waits, Ours
  <2>2. HasRow(u)
    BY <1>2, <2>1 DEF StaffInv, StaffApart, Accounted, Busy
  <2> QED
    BY <2>2 DEF HasRow, AppRole
<1> QED
  BY <1>1, <1>2 DEF ClosedMeansClosed

-----------------------------------------------------------------------------
(* The tables *)

(* The mark of an order that was not made is no order.                     *)
LEMMA NoOrderIsNone == NoOrder \notin Orders
<1> SUFFICES ASSUME NoOrder \in Orders PROVE FALSE
  OBVIOUS
<1>1. NoOrder.at \in Nat \ {0}
  BY DEF Orders
<1> QED
  BY <1>1 DEF NoOrder

(* An order is made where none was; the others stay.                       *)
LEMMA OrderMade ==
  ASSUME TablesInv, Made # OrderId, NEW t \in TableId, NEW k \in (Waiter \X Key) \cup {NoKey},
         dine' = [dine EXCEPT ![FreshOrder] = Order(t, k)]
  PROVE  /\ FreshOrder \in OrderId \ Made
         /\ dine' \in [OrderId -> Orders \cup {NoOrder}]
         /\ Made' = Made \cup {FreshOrder}
         /\ dine'[FreshOrder].table = t /\ dine'[FreshOrder].key = k
         /\ \A o \in Made : dine'[o] = dine[o]
<1>1. \E o \in OrderId : dine[o] = NoOrder
  BY DEF Made
<1>2. FreshOrder \in OrderId /\ dine[FreshOrder] = NoOrder
  BY <1>1 DEF FreshOrder
<1>3. Order(t, k) \in Orders /\ Order(t, k).table = t /\ Order(t, k).key = k
  BY DEF Order, Orders, TablesInv
<1>4. Order(t, k) # NoOrder
  BY <1>3, NoOrderIsNone
<1>5. dine \in [OrderId -> Orders \cup {NoOrder}]
  BY DEF TablesInv
<1> QED
  BY <1>2, <1>3, <1>4, <1>5 DEF Made

(* Requests, but for waiters', only read and write tables.                 *)
JobsOK == /\ DOMAIN hall = Person
          /\ \A h \in Person : /\ "pc" \in DOMAIN hall[h]
                               /\ hall[h].pc \in {"find", "save"} => hall[h] \in KeyJobs
                               /\ hall[h].pc = "guest" => hall[h].table \in TableId

AnswersOK ==
  /\ answered \subseteq (Waiter \X Key) \X TableId \X OrderId
  /\ \A a \in answered : a[3] \in Made /\ dine[a[3]].key = a[1] /\ dine[a[3]].table = a[2]
  /\ \A o, p \in Made : dine[o].key # NoKey /\ dine[o].key = dine[p].key => o = p

GoodJob(j) == /\ "pc" \in DOMAIN j
              /\ j.pc \in {"find", "save"} => j \in KeyJobs
              /\ j.pc = "guest" => j.table \in TableId

(* A person's request may be replaced by a well-formed one.                *)
LEMMA JobsStep ==
  ASSUME JobsOK, NEW h, NEW j, Does(h, j), GoodJob(j)
  PROVE  JobsOK'
BY DEF JobsOK, Does, GoodJob

(* A step that makes no order and answers nobody.                          *)
LEMMA TablesSame ==
  ASSUME TablesInv, JobsOK', UNCHANGED <<dine, answered>>, hour' \in Nat \ {0}
  PROVE  TablesInv'
BY DEF TablesInv, JobsOK, Made

(* The panel reads and writes tables only.                                 *)
LEMMA PanelKeeps ==
  ASSUME TablesInv, NEW h \in Host,
         Add(h) \/ Insert(h) \/ Edit(h) \/ Siblings(h) \/ Write(h) \/ Delete(h) \/ Deleted(h),
         UNCHANGED hour
  PROVE  TablesInv'
<1>1. JobsOK
  BY DEF TablesInv, JobsOK
<1>2. GoodJob(Rest)
  BY DEF GoodJob, Rest
<1>3. UNCHANGED <<dine, answered>>
  BY DEF Add, Insert, Edit, Siblings, Write, Delete, Deleted
<1>4. ASSUME Add(h) PROVE JobsOK'
  <2>1. PICK rows : Does(h, [pc |-> "insert", rows |-> rows])
    BY <1>4 DEF Add
  <2> QED
    BY <1>1, <2>1, JobsStep DEF GoodJob
<1>5. ASSUME Edit(h) PROVE JobsOK'
  <2>1. PICK t, row, clean : Does(h, Edited(t, row, clean))
    BY <1>5 DEF Edit
  <2>2. GoodJob(Edited(t, row, clean))
    BY DEF GoodJob, Edited
  <2> QED
    BY <1>1, <2>1, <2>2, JobsStep
<1>6. ASSUME Siblings(h) PROVE JobsOK'
  <2>1. Does(h, Rest) \/ Does(h, [hall[h] EXCEPT !.pc = "write"])
    BY <1>6 DEF Siblings, Done
  <2>2. "pc" \in DOMAIN hall[h]
    BY <1>1 DEF JobsOK, Person
  <2>3. GoodJob([hall[h] EXCEPT !.pc = "write"])
    BY <2>2 DEF GoodJob
  <2> QED
    BY <1>1, <1>2, <2>1, <2>3, JobsStep
<1>7. ASSUME Delete(h) PROVE JobsOK'
  <2>1. PICK t : Does(h, [pc |-> "remove", table |-> t])
    BY <1>7 DEF Delete
  <2> QED
    BY <1>1, <2>1, JobsStep DEF GoodJob
<1>8. ASSUME Insert(h) \/ Write(h) \/ Deleted(h) PROVE JobsOK'
  <2>1. Does(h, Rest)
    BY <1>8 DEF Insert, Write, Deleted, Done
  <2> QED
    BY <1>1, <1>2, <2>1, JobsStep
<1>9. JobsOK'
  BY <1>4, <1>5, <1>6, <1>7, <1>8
<1>10. hour' \in Nat \ {0}
  BY DEF TablesInv
<1> QED
  BY <1>3, <1>9, <1>10, TablesSame

(* The order of a guest has no key, so it is no answer to a waiter.        *)
LEMMA GuestsKeep ==
  ASSUME TablesInv, NEW g \in Guest, Scan(g) \/ GuestOrders(g), UNCHANGED hour
  PROVE  TablesInv'
<1>1. JobsOK /\ AnswersOK
  BY DEF TablesInv, JobsOK, AnswersOK
<1>2. GoodJob(Rest)
  BY DEF GoodJob, Rest
<1>3. hour' \in Nat \ {0}
  BY DEF TablesInv
<1>4. CASE Scan(g)
  <2>1. PICK t \in Set : Does(g, [pc |-> "guest", table |-> t])
    BY <1>4 DEF Scan
  <2>2. JobsOK'
    BY <1>1, <2>1, JobsStep DEF GoodJob, Set
  <2> QED
    BY <1>3, <1>4, <2>2, TablesSame DEF Scan
<1>5. CASE GuestOrders(g)
  <2>1. JobsOK'
    BY <1>1, <1>2, <1>5, JobsStep DEF GuestOrders, Done
  <2>2. hall[g].table \in TableId
    BY <1>1, <1>5 DEF GuestOrders, JobsOK, Person
  <2> DEFINE f == FreshOrder
  <2>3. /\ f \in OrderId \ Made
        /\ dine' \in [OrderId -> Orders \cup {NoOrder}]
        /\ Made' = Made \cup {f}
        /\ dine'[f].key = NoKey
        /\ \A o \in Made : dine'[o] = dine[o]
    BY <1>5, <2>2, OrderMade DEF GuestOrders
  <2> HIDE DEF f
  <2>4. answered' = answered
    BY <1>5 DEF GuestOrders
  <2>5. AnswersOK'
    BY <1>1, <2>3, <2>4 DEF AnswersOK
  <2> QED
    BY <1>3, <2>1, <2>3, <2>5 DEF TablesInv, JobsOK, AnswersOK
<1> QED
  BY <1>4, <1>5

(* A waiter is told of an order made with his key at his table.            *)
LEMMA AnswerKeeps ==
  ASSUME TablesInv, NEW w \in Person, hall[w] \in KeyJobs, NEW o, Answer(w, o),
         o \in Made', dine'[o].key = hall[w].key, UNCHANGED hour,
         dine' \in [OrderId -> Orders \cup {NoOrder}],
         \A x \in Made : x \in Made' /\ dine'[x] = dine[x],
         \A x, y \in Made' : dine'[x].key # NoKey /\ dine'[x].key = dine'[y].key => x = y
  PROVE  TablesInv'
<1>1. JobsOK'
  <2>1. JobsOK /\ GoodJob(Rest)
    BY DEF TablesInv, JobsOK, GoodJob, Rest
  <2> QED
    BY <2>1, JobsStep DEF Answer, Done
<1>2. hall[w].key \in Waiter \X Key /\ hall[w].table \in TableId /\ o \in OrderId
  BY DEF KeyJobs, Made
<1>3. ASSUME NEW a \in answered'
      PROVE  /\ a \in (Waiter \X Key) \X TableId \X OrderId
             /\ a[3] \in Made' /\ dine'[a[3]].key = a[1] /\ dine'[a[3]].table = a[2]
  <2>1. CASE a \in answered
    <3>1. /\ a \in (Waiter \X Key) \X TableId \X OrderId
          /\ a[3] \in Made /\ dine[a[3]].key = a[1] /\ dine[a[3]].table = a[2]
      BY <2>1 DEF TablesInv
    <3> QED
      BY <3>1
  <2>2. CASE a \notin answered
    <3>1. a = <<hall[w].key, hall[w].table, o>> /\ dine'[o].table = hall[w].table
      BY <1>3, <2>2 DEF Answer
    <3> QED
      BY <1>2, <3>1
  <2> QED
    BY <2>1, <2>2
<1>4. hour' \in Nat \ {0}
  BY DEF TablesInv
<1> QED
  BY <1>1, <1>3, <1>4 DEF TablesInv, JobsOK

(* A waiter's order is saved under his key once, and answered from what is *)
(* saved.                                                                  *)
LEMMA WaitersKeep ==
  ASSUME TablesInv, NEW w \in Waiter, NEW v \in Waiter,
         Ask(w) \/ Find(w) \/ SaveOrder(w) \/ Again(w, v), UNCHANGED hour
  PROVE  TablesInv'
<1>1. JobsOK /\ AnswersOK /\ w \in Person /\ v \in Person
  BY DEF TablesInv, JobsOK, AnswersOK, Person
<1>2. hour' \in Nat \ {0} /\ dine \in [OrderId -> Orders \cup {NoOrder}]
  BY DEF TablesInv
<1>3. CASE Ask(w)
  <2>1. PICK t \in Set, k \in Key : Does(w, [pc |-> "find", table |-> t, key |-> <<w, k>>])
    BY <1>3 DEF Ask
  <2>2. t \in TableId /\ <<w, k>> \in Waiter \X Key
    BY DEF Set
  <2>3. JobsOK'
    BY <1>1, <2>1, <2>2, JobsStep DEF GoodJob, KeyJobs
  <2> QED
    BY <1>2, <1>3, <2>3, TablesSame DEF Ask
<1>4. CASE Again(w, v)
  <2>1. hall[w] \in KeyJobs /\ Does(v, [hall[w] EXCEPT !.pc = "find"])
    BY <1>1, <1>4 DEF Again, JobsOK
  <2>2. [hall[w] EXCEPT !.pc = "find"] \in KeyJobs
    BY <2>1 DEF KeyJobs
  <2>3. GoodJob([hall[w] EXCEPT !.pc = "find"])
    BY <2>2 DEF GoodJob, KeyJobs
  <2>4. JobsOK'
    BY <1>1, <2>1, <2>3, JobsStep
  <2> QED
    BY <1>2, <1>4, <2>4, TablesSame DEF Again
<1>5. ASSUME NEW o \in WithKey(hall[w].key) PROVE o \in Made /\ dine[o].key = hall[w].key
  BY DEF WithKey
<1>6. CASE Find(w)
  <2>1. hall[w] \in KeyJobs /\ UNCHANGED <<tables, dine>>
    BY <1>1, <1>6 DEF Find, JobsOK
  <2>2. CASE WithKey(hall[w].key) = {}
    <3>1. [hall[w] EXCEPT !.pc = "save"] \in KeyJobs
      BY <2>1 DEF KeyJobs
    <3>2. GoodJob([hall[w] EXCEPT !.pc = "save"])
      BY <3>1 DEF GoodJob, KeyJobs
    <3>3. JobsOK' /\ answered' = answered
      BY <1>1, <1>6, <2>2, <3>2, JobsStep DEF Find
    <3> QED
      BY <1>2, <2>1, <3>3, TablesSame
  <2>3. CASE WithKey(hall[w].key) # {}
    <3>1. PICK o \in WithKey(hall[w].key) : Answer(w, o)
      BY <1>6, <2>3 DEF Find
    <3>2. o \in Made' /\ dine'[o].key = hall[w].key /\ Made' = Made
      BY <1>5, <2>1, <3>1 DEF Made
    <3> QED
      BY <1>1, <1>2, <2>1, <3>1, <3>2, AnswerKeeps DEF AnswersOK
  <2> QED
    BY <2>2, <2>3
<1>7. CASE SaveOrder(w)
  <2>1. hall[w] \in KeyJobs /\ Made # OrderId
    BY <1>1, <1>7 DEF SaveOrder, JobsOK
  <2>2. CASE WithKey(hall[w].key) # {}
    <3>1. PICK o \in WithKey(hall[w].key) : Answer(w, o)
      BY <1>7, <2>2 DEF SaveOrder
    <3>2. dine' = dine
      BY <1>7, <2>2 DEF SaveOrder
    <3>3. o \in Made' /\ dine'[o].key = hall[w].key /\ Made' = Made
      BY <1>5, <3>1, <3>2 DEF Made
    <3> QED
      BY <1>1, <1>2, <2>1, <3>1, <3>2, <3>3, AnswerKeeps DEF AnswersOK
  <2>3. CASE WithKey(hall[w].key) = {}
    <3>1. /\ dine' = [dine EXCEPT ![FreshOrder] = Order(hall[w].table, hall[w].key)]
          /\ Answer(w, FreshOrder)
      BY <1>7, <2>3 DEF SaveOrder
    <3>2. hall[w].table \in TableId /\ hall[w].key \in (Waiter \X Key) \cup {NoKey}
      BY <2>1 DEF KeyJobs
    <3>3. PICK f : f = FreshOrder
      OBVIOUS
    <3>4. /\ f \in OrderId \ Made
          /\ dine' \in [OrderId -> Orders \cup {NoOrder}]
          /\ Made' = Made \cup {f}
          /\ dine'[f].key = hall[w].key
          /\ \A o \in Made : dine'[o] = dine[o]
      BY <2>1, <3>1, <3>2, <3>3, OrderMade
    <3>5. \A o \in Made : dine[o].key # hall[w].key
      BY <2>3 DEF WithKey
    <3>6. \A x, y \in Made' : dine'[x].key # NoKey /\ dine'[x].key = dine'[y].key => x = y
      BY <1>1, <3>4, <3>5 DEF AnswersOK
    <3>7. Answer(w, f)
      BY <3>1, <3>3 DEF Answer
    <3> QED
      BY <1>1, <2>1, <3>4, <3>6, <3>7, AnswerKeeps
  <2> QED
    BY <2>2, <2>3
<1> QED
  BY <1>3, <1>4, <1>6, <1>7

(* An order that is served keeps its key and its table.                    *)
LEMMA FinishKeeps ==
  ASSUME TablesInv, NEW o \in Made, Finish(o), UNCHANGED hour
  PROVE  TablesInv'
<1>1. /\ dine \in [OrderId -> Orders \cup {NoOrder}] /\ o \in OrderId /\ dine[o] \in Orders
      /\ dine' = [dine EXCEPT ![o].open = FALSE] /\ UNCHANGED <<tables, hall, answered>>
  BY DEF TablesInv, Made, Finish
<1>2. [dine[o] EXCEPT !.open = FALSE] \in Orders
  BY <1>1 DEF Orders
<1>3. /\ dine' \in [OrderId -> Orders \cup {NoOrder}]
      /\ \A x \in OrderId : x # o => dine'[x] = dine[x]
      /\ dine'[o] \in Orders
      /\ dine'[o].key = dine[o].key /\ dine'[o].table = dine[o].table
  BY <1>1, <1>2 DEF Orders
<1>4. Made' = Made
  BY <1>1, <1>3, NoOrderIsNone DEF Made
<1>5. \A x \in Made : dine'[x].key = dine[x].key /\ dine'[x].table = dine[x].table
  BY <1>3 DEF Made
<1> QED
  BY <1>1, <1>3, <1>4, <1>5 DEF TablesInv

(* No order is made and nobody is answered at first.                       *)
LEMMA TablesInvInit ==
  ASSUME TablesInit
  PROVE  TablesInv
BY DEF TablesInit, TablesInv, Rest, Made

(* The invariant of the tables is inductive.                               *)
LEMMA TablesInvNext ==
  ASSUME TablesInv, TablesNext
  PROVE  TablesInv'
<1>1. CASE /\ hour < MaxHour /\ hour' = hour + 1
           /\ UNCHANGED <<tables, dine, hall, answered>>
  <2>1. hour' \in Nat \ {0} /\ JobsOK'
    BY <1>1 DEF TablesInv, JobsOK
  <2> QED
    BY <1>1, <2>1, TablesSame
<1> QED
  BY <1>1, PanelKeeps, GuestsKeep, WaitersKeep, FinishKeeps DEF TablesNext

(* It does not depend on the other parts.                                  *)
LEMMA TablesInvSame ==
  ASSUME TablesInv, UNCHANGED tablesVars
  PROVE  TablesInv'
BY DEF TablesInv, tablesVars, Made

(* Answers to one key are one order, made with it at the table.            *)
LEMMA TablesOnce ==
  ASSUME TablesInv
  PROVE  OneOrderPerKey
<1>1. ASSUME NEW a \in answered, NEW b \in answered, a[1] = b[1]
      PROVE  a[3] = b[3]
  <2>1. a[1] # NoKey
    BY NoKeyIsNone DEF TablesInv
  <2> QED
    BY <1>1, <2>1 DEF TablesInv
<1> QED
  BY <1>1 DEF TablesInv, OneOrderPerKey

-----------------------------------------------------------------------------
(* The report: the past is played back *)

Kind == {"status_changed", "schedule_changed"}
Statuses == {"active", "on_leave", "dismissed"}
States == [status : Statuses, shift : Shifts \cup {Unset}]
Members == [status : Statuses, shift : Shifts \cup {Unset}, hired : {Unset} \cup HireDates, since : Nat]
Events == [who : Worker, kind : Kind, from : Statuses \cup Shifts \cup {Unset}, at : Nat]

Was(w, kind) == IF kind = "status_changed" THEN roster[w].status ELSE roster[w].shift
AtDawn(w, kind, d) == IF kind = "status_changed" THEN dawn[w][d].status ELSE dawn[w][d].shift

(* w's events of a kind from a day on.                                     *)
His(w, kind, d) == {i \in DOMAIN journal : /\ journal[i].who = w /\ journal[i].kind = kind
                                          /\ journal[i].at >= d}

(* What w was is what the oldest of them tells.                            *)
Tells(w, kind, d) ==
  \/ His(w, kind, d) = {} /\ AtDawn(w, kind, d) = Was(w, kind)
  \/ \E i \in His(w, kind, d) : /\ \A j \in His(w, kind, d) : j <= i
                                /\ journal[i].from = AtDawn(w, kind, d)

ReportShape ==
  /\ day \in Nat \ {0} /\ journal \in Seq(Events)
  /\ roster \in [Worker -> Members \cup {Nowhere}]
  /\ dawn \in [Worker -> Seq(States)] /\ \A w \in Employed : Len(dawn[w]) = day

ReportInv ==
  /\ ReportShape
  /\ \A i \in DOMAIN journal : journal[i].who \in Employed /\ journal[i].at <= day
  /\ \A i, k \in DOMAIN journal : i < k => journal[i].at >= journal[k].at
  /\ \A w \in Employed, kind \in Kind, d \in 1..day : Tells(w, kind, d)

(* At the start nobody is employed.                                        *)
LEMMA ReportInvInit ==
  ASSUME ReportInit
  PROVE  ReportInv
BY DEF ReportInit, ReportInv, ReportShape, Employed

(* Whoever is employed has a whole row.                                    *)
LEMMA RowOf ==
  ASSUME ReportShape, NEW w \in Worker
  PROVE  w \in Employed <=> roster[w] \in Members
<1>1. Nowhere \notin Members
  BY DEF Members, Nowhere, Statuses
<1> QED
  BY <1>1 DEF ReportShape, Employed

(* The event at a place of the journal.                                    *)
LEMMA EventOf ==
  ASSUME ReportInv, NEW i \in DOMAIN journal
  PROVE  /\ i \in Nat /\ journal[i].who \in Employed /\ journal[i].kind \in Kind
         /\ journal[i].at \in Nat /\ journal[i].at <= day
<1>1. i \in Nat /\ journal[i] \in Events
  BY DEF ReportInv, ReportShape
<1>2. journal[i].who \in Employed /\ journal[i].at <= day
  BY DEF ReportInv
<1> QED
  BY <1>1, <1>2 DEF Events

(* The past of a new member is what he is hired as: no event is his.       *)
LEMMA HireKeeps ==
  ASSUME ReportInv, NEW w \in Worker, Hire(w), UNCHANGED day
  PROVE  ReportInv'
<1>1. PICK shift \in Shifts \cup {Unset}, hired \in {Unset} \cup HireDates :
        LET row == [status |-> "active", shift |-> shift, hired |-> hired, since |-> day] IN
        /\ roster[w] = Nowhere /\ roster' = [roster EXCEPT ![w] = row]
        /\ dawn' = [dawn EXCEPT ![w] = [d \in 1..day |-> State(row)]]
        /\ UNCHANGED journal
  BY DEF Hire
<1> DEFINE row == [status |-> "active", shift |-> shift, hired |-> hired, since |-> day]
<1>2. row \in Members /\ row # Nowhere /\ State(row) \in States
  BY DEF Members, States, Statuses, State, Nowhere, ReportInv, ReportShape
<1>3. /\ UNCHANGED <<journal, day>> /\ w \notin Employed
      /\ roster' \in [Worker -> Members \cup {Nowhere}] /\ roster'[w] = row
      /\ \A v \in Worker : v # w => roster'[v] = roster[v]
  BY <1>1, <1>2 DEF ReportInv, ReportShape, Employed
<1> DEFINE past == [d \in 1..day |-> State(row)]
<1>4. past \in Seq(States) /\ Len(past) = day /\ \A d \in 1..day : past[d] = State(row)
  <2> DEFINE x == State(row)
  <2>1. x \in States /\ day \in Nat /\ past = [d \in 1..day |-> x]
    BY <1>2 DEF ReportInv, ReportShape
  <2> HIDE DEF x, past
  <2>2. past \in Seq(States) /\ Len(past) = day /\ \A d \in 1..day : past[d] = x
    BY <2>1
  <2> QED
    BY <2>2 DEF x
<1>5. dawn' \in [Worker -> Seq(States)] /\ dawn'[w] = past /\ \A v \in Worker : v # w => dawn'[v] = dawn[v]
  BY <1>1, <1>4 DEF ReportInv, ReportShape
<1>6. State(row).status = row.status /\ State(row).shift = row.shift
  BY DEF State
<1> HIDE DEF row, past
<1>7. Employed' = Employed \cup {w} /\ w \notin Employed
  BY <1>2, <1>3 DEF Employed
<1>8. ReportShape'
  BY <1>3, <1>4, <1>5, <1>7 DEF ReportShape, ReportInv, Employed
<1>9. ASSUME NEW v \in Employed', NEW kind \in Kind, NEW d \in 1..day
      PROVE  Tells(v, kind, d)'
  <2>1. CASE v = w
    <3>1. His(w, kind, d)' = {}
      BY <1>3, <1>7 DEF His, ReportInv
    <3>2. AtDawn(w, kind, d)' = Was(w, kind)'
      BY <1>3, <1>4, <1>5, <1>6 DEF AtDawn, Was
    <3> QED
      BY <2>1, <3>1, <3>2 DEF Tells
  <2>2. CASE v # w
    <3>1. v \in Employed /\ Tells(v, kind, d)
      BY <1>7, <2>2 DEF ReportInv
    <3>2. roster'[v] = roster[v] /\ dawn'[v] = dawn[v]
      BY <1>3, <1>5, <2>2, <3>1 DEF Employed
    <3> QED
      BY <1>3, <3>1, <3>2 DEF Tells, His, AtDawn, Was
  <2> QED
    BY <2>1, <2>2
<1> QED
  BY <1>3, <1>7, <1>8, <1>9 DEF ReportInv

(* A new event comes first; the others move by one.                        *)
LEMMA NewFirst ==
  ASSUME NEW q \in Seq(Events), NEW e \in Events, NEW r, r = <<e>> \o q
  PROVE  /\ r \in Seq(Events) /\ 1 \in DOMAIN r /\ r[1] = e
         /\ DOMAIN q \subseteq Nat
         /\ \A i \in DOMAIN q : i + 1 \in DOMAIN r /\ r[i + 1] = q[i]
         /\ \A i \in DOMAIN r : i = 1 \/ (i > 1 /\ i - 1 \in DOMAIN q /\ r[i] = q[i - 1])
OBVIOUS

(* A change is undone by the event that was written with it.               *)
LEMMA ChangeKeeps ==
  ASSUME ReportInv, NEW w \in Employed, NEW kind \in Kind, Journal(w, kind, Was(w, kind)),
         UNCHANGED <<day, dawn>>, roster' \in [Worker -> Members \cup {Nowhere}],
         Employed' = Employed,
         \A v \in Employed, k \in Kind : v # w \/ k # kind => Was(v, k)' = Was(v, k)
  PROVE  ReportInv'
<1> DEFINE e == [who |-> w, kind |-> kind, from |-> Was(w, kind), at |-> day]
<1>1. e \in Events /\ e.who = w /\ e.kind = kind /\ e.from = Was(w, kind) /\ e.at = day
  BY RowOf DEF ReportInv, ReportShape, Events, Members, Was, Kind, Employed
<1>2. /\ journal' \in Seq(Events) /\ 1 \in DOMAIN journal' /\ journal'[1] = e
      /\ DOMAIN journal \subseteq Nat
      /\ \A i \in DOMAIN journal : i + 1 \in DOMAIN journal' /\ journal'[i + 1] = journal[i]
      /\ \A i \in DOMAIN journal' : i = 1 \/ (i > 1 /\ i - 1 \in DOMAIN journal /\ journal'[i] = journal[i - 1])
  <2>1. journal' = <<e>> \o journal /\ journal \in Seq(Events)
    BY DEF Journal, ReportInv, ReportShape
  <2> HIDE DEF e
  <2> QED
    BY <1>1, <2>1, NewFirst
<1> HIDE DEF e
<1>3. ReportShape'
  BY <1>2 DEF ReportInv, ReportShape
<1>4. ASSUME NEW i \in DOMAIN journal'
      PROVE  journal'[i].who \in Employed' /\ journal'[i].at <= day'
  <2>1. CASE i = 1
    BY <1>1, <1>2, <2>1 DEF ReportInv, ReportShape
  <2>2. CASE i # 1
    <3>1. i - 1 \in DOMAIN journal /\ journal'[i] = journal[i - 1]
      BY <1>2, <2>2
    <3> QED
      BY <3>1, EventOf
  <2> QED
    BY <2>1, <2>2
<1>5. ASSUME NEW i \in DOMAIN journal', NEW k \in DOMAIN journal', i < k
      PROVE  journal'[i].at >= journal'[k].at
  <2>1. k > 1 /\ k - 1 \in DOMAIN journal /\ journal'[k] = journal[k - 1]
    BY <1>2, <1>5
  <2>2. CASE i = 1
    BY <1>1, <1>2, <2>1, <2>2 DEF ReportInv, ReportShape
  <2>3. CASE i # 1
    <3>1. i - 1 \in DOMAIN journal /\ journal'[i] = journal[i - 1] /\ i - 1 < k - 1
      BY <1>2, <1>5, <2>1, <2>3
    <3> QED
      BY <2>1, <3>1 DEF ReportInv
  <2> QED
    BY <2>2, <2>3
<1>6. ASSUME NEW v \in Employed, NEW k \in Kind, NEW d \in 1..day
      PROVE  Tells(v, k, d)'
  <2>1. Tells(v, k, d) /\ AtDawn(v, k, d)' = AtDawn(v, k, d)
    BY DEF ReportInv, AtDawn
  <2>2. /\ \A i \in His(v, k, d) : i + 1 \in His(v, k, d)' /\ journal'[i + 1].from = journal[i].from
        /\ \A i \in His(v, k, d)' : i > 1 => i - 1 \in His(v, k, d)
        /\ 1 \in His(v, k, d)' <=> v = w /\ k = kind
        /\ His(v, k, d)' \subseteq Nat \ {0} /\ His(v, k, d) \subseteq Nat
    BY <1>1, <1>2 DEF His, ReportInv, ReportShape
  <2>3. CASE His(v, k, d) = {} /\ v = w /\ k = kind
    <3>1. 1 \in His(v, k, d)' /\ \A j \in His(v, k, d)' : j <= 1
      BY <2>2, <2>3
    <3>2. journal'[1].from = AtDawn(v, k, d)'
      BY <1>1, <1>2, <2>1, <2>3 DEF Tells
    <3> QED
      BY <3>1, <3>2 DEF Tells
  <2>4. CASE His(v, k, d) = {} /\ ~(v = w /\ k = kind)
    <3>1. His(v, k, d)' = {}
      BY <2>2, <2>4
    <3>2. AtDawn(v, k, d)' = Was(v, k)'
      BY <2>1, <2>4 DEF Tells
    <3> QED
      BY <3>1, <3>2 DEF Tells
  <2>5. CASE His(v, k, d) # {}
    <3>1. PICK i \in His(v, k, d) : /\ \A j \in His(v, k, d) : j <= i
                                    /\ journal[i].from = AtDawn(v, k, d)
      BY <2>1, <2>5 DEF Tells
    <3>2. i + 1 \in His(v, k, d)' /\ \A j \in His(v, k, d)' : j <= i + 1
      <4>1. ASSUME NEW j \in His(v, k, d)'
            PROVE  j <= i + 1
        <5>1. j \in Nat \ {0} /\ i \in Nat /\ (j > 1 => j - 1 <= i)
          BY <2>2, <3>1
        <5> QED
          BY <5>1
      <4> QED
        BY <2>2, <4>1
    <3>3. journal'[i + 1].from = AtDawn(v, k, d)'
      BY <2>1, <2>2, <3>1
    <3> QED
      BY <3>2, <3>3 DEF Tells
  <2> QED
    BY <2>3, <2>4, <2>5
<1> QED
  BY <1>3, <1>4, <1>5, <1>6 DEF ReportInv

(* A day begins: nothing has happened on it yet.                           *)
LEMMA NextDayKeeps ==
  ASSUME ReportInv, NextDay
  PROVE  ReportInv'
<1>1. /\ day \in Nat \ {0} /\ day' = day + 1 /\ UNCHANGED <<roster, journal>> /\ Employed' = Employed
      /\ dawn' = [w \in Worker |-> IF w \in Employed THEN Append(dawn[w], State(roster[w])) ELSE <<>>]
  BY DEF NextDay, ReportInv, ReportShape, Employed
<1>2. ASSUME NEW w \in Employed
      PROVE  /\ dawn'[w] \in Seq(States) /\ Len(dawn'[w]) = day + 1
             /\ \A d \in 1..day : dawn'[w][d] = dawn[w][d]
             /\ dawn'[w][day + 1] = State(roster[w])
  <2>1. /\ dawn[w] \in Seq(States) /\ Len(dawn[w]) = day
        /\ dawn'[w] = Append(dawn[w], State(roster[w]))
    BY <1>1 DEF ReportInv, ReportShape, Employed
  <2>2. State(roster[w]) \in States
    BY RowOf DEF ReportInv, Employed, Members, States, State
  <2> DEFINE x == State(roster[w])
  <2>3. x \in States /\ dawn'[w] = Append(dawn[w], x)
    BY <2>1, <2>2
  <2> HIDE DEF x
  <2>4. /\ day \in Nat /\ day + 1 \in Nat /\ Len(dawn[w]) = day /\ DOMAIN dawn[w] = 1..day
    BY <1>1, <2>1
  <2>5. /\ dawn'[w] \in Seq(States) /\ Len(dawn'[w]) = day + 1
        /\ \A d \in 1..day : dawn'[w][d] = dawn[w][d]
        /\ dawn'[w][day + 1] = x
    BY <2>1, <2>3, <2>4
  <2> QED
    BY <2>5 DEF x
<1>3. ReportShape'
  <2>1. day' \in Nat \ {0} /\ journal \in Seq(Events) /\ roster \in [Worker -> Members \cup {Nowhere}]
    BY <1>1 DEF ReportInv, ReportShape
  <2>2. dawn' \in [Worker -> Seq(States)]
    <3>1. ASSUME NEW w \in Worker
          PROVE  dawn'[w] \in Seq(States)
      <4>1. CASE w \in Employed
        BY <1>2, <4>1
      <4>2. CASE w \notin Employed
        <5>1. dawn'[w] = <<>>
          BY <1>1, <4>2
        <5> QED
          BY <5>1
      <4> QED
        BY <4>1, <4>2
    <3>2. dawn' = [w \in Worker |-> dawn'[w]]
      BY <1>1
    <3> QED
      BY <3>1, <3>2
  <2> QED
    BY <1>1, <1>2, <2>1, <2>2 DEF ReportShape
<1>4. ASSUME NEW i \in DOMAIN journal
      PROVE  journal[i].at \in Nat /\ journal[i].at <= day
  BY EventOf
<1>5. ASSUME NEW w \in Employed, NEW kind \in Kind, NEW d \in 1..(day + 1)
      PROVE  Tells(w, kind, d)'
  <2>1. His(w, kind, d)' = His(w, kind, d) /\ Was(w, kind)' = Was(w, kind)
    BY <1>1 DEF His, Was
  <2>2. CASE d = day + 1
    <3>1. His(w, kind, d) = {}
      BY <1>1, <1>4, <2>2 DEF His
    <3>2. AtDawn(w, kind, d)' = Was(w, kind)
      <4>1. dawn'[w][d] = State(roster[w])
        BY <1>2, <2>2
      <4>2. State(roster[w]).status = roster[w].status /\ State(roster[w]).shift = roster[w].shift
        BY DEF State
      <4> QED
        BY <4>1, <4>2 DEF AtDawn, Was
    <3> QED
      BY <2>1, <3>1, <3>2 DEF Tells
  <2>3. CASE d # day + 1
    <3>1. d \in 1..day
      BY <1>1, <2>3
    <3>2. Tells(w, kind, d) /\ AtDawn(w, kind, d)' = AtDawn(w, kind, d)
      BY <1>2, <3>1 DEF ReportInv, AtDawn
    <3> QED
      BY <1>1, <2>1, <3>2 DEF Tells
  <2> QED
    BY <2>2, <2>3
<1>6. \A i \in DOMAIN journal : journal[i].who \in Employed /\ journal[i].at <= day + 1
  BY <1>1, <1>4 DEF ReportInv
<1> QED
  BY <1>1, <1>3, <1>5, <1>6 DEF ReportInv

(* The journal and the roster change by these steps and no others.         *)
LEMMA ReportInvNext ==
  ASSUME ReportInv, ReportNext
  PROVE  ReportInv'
<1>1. ASSUME NEW w \in Employed, SetStatus(w) \/ SetShift(w), UNCHANGED <<day, dawn>>
      PROVE  ReportInv'
  <2>1. /\ w \in Worker /\ roster \in [Worker -> Members \cup {Nowhere}] /\ roster[w] \in Members
        /\ Nowhere \notin Members
    BY RowOf DEF ReportInv, ReportShape, Employed, Members, Nowhere
  <2>2. CASE SetStatus(w)
    <3>1. PICK status \in Statuses :
            /\ roster' = [roster EXCEPT ![w].status = status]
            /\ Journal(w, "status_changed", roster[w].status)
      BY <2>2 DEF SetStatus, Statuses
    <3>2. /\ roster'[w] \in Members /\ roster'[w].shift = roster[w].shift
          /\ roster' \in [Worker -> Members \cup {Nowhere}]
          /\ \A v \in Worker : v # w => roster'[v] = roster[v]
      BY <2>1, <3>1 DEF Members
    <3>3. Employed' = Employed
      BY <2>1, <3>2 DEF Employed
    <3>4. \A v \in Employed, k \in Kind : v # w \/ k # "status_changed" => Was(v, k)' = Was(v, k)
      BY <3>2 DEF Was, Employed
    <3> QED
      BY <1>1, <3>1, <3>2, <3>3, <3>4, ChangeKeeps DEF Was, Kind
  <2>3. CASE SetShift(w)
    <3>1. PICK shift \in Shifts \cup {Unset} :
            /\ roster' = [roster EXCEPT ![w].shift = shift]
            /\ Journal(w, "schedule_changed", roster[w].shift)
      BY <2>3 DEF SetShift
    <3>2. /\ roster'[w] \in Members /\ roster'[w].status = roster[w].status
          /\ roster' \in [Worker -> Members \cup {Nowhere}]
          /\ \A v \in Worker : v # w => roster'[v] = roster[v]
      BY <2>1, <3>1 DEF Members
    <3>3. Employed' = Employed
      BY <2>1, <3>2 DEF Employed
    <3>4. \A v \in Employed, k \in Kind : v # w \/ k # "schedule_changed" => Was(v, k)' = Was(v, k)
      BY <3>2 DEF Was, Employed, Kind
    <3> QED
      BY <1>1, <3>1, <3>2, <3>3, <3>4, ChangeKeeps DEF Was, Kind
  <2> QED
    BY <1>1, <2>2, <2>3
<1> QED
  BY <1>1, HireKeeps, NextDayKeeps DEF ReportNext

(* Nothing else touches them.                                              *)
LEMMA ReportInvSame ==
  ASSUME ReportInv, UNCHANGED reportVars
  PROVE  ReportInv'
<1>1. UNCHANGED <<roster, journal, day, dawn>> /\ Employed' = Employed
  BY DEF reportVars, Employed
<1>2. ReportShape'
  BY <1>1 DEF ReportInv, ReportShape
<1>3. \A w \in Employed, kind \in Kind, d \in 1..day : Tells(w, kind, d)'
  BY <1>1 DEF ReportInv, Tells, His, Was, AtDawn
<1> QED
  BY <1>1, <1>2, <1>3 DEF ReportInv

(* Playing back as many events as happened since a day tells the truth.    *)
LEMMA PlayedBack ==
  ASSUME ReportInv, NEW w \in Employed, NEW kind \in Kind, NEW d \in Nat \ {0}, NEW E,
         \A i : (i \in E /\ journal[i].who = w /\ journal[i].kind = kind) <=> i \in His(w, kind, d)
  PROVE  Before(w, kind, E, Was(w, kind)) = IF d <= day THEN AtDawn(w, kind, d) ELSE Was(w, kind)
<1>1. Before(w, kind, E, Was(w, kind)) =
        IF His(w, kind, d) = {} THEN Was(w, kind) ELSE journal[Max(His(w, kind, d))].from
  <2>1. {i \in E : journal[i].who = w /\ journal[i].kind = kind} = His(w, kind, d)
    OBVIOUS
  <2> QED
    BY <2>1 DEF Before
<1>2. CASE d <= day
  <2>1. Tells(w, kind, d)
    BY <1>2 DEF ReportInv, ReportShape
  <2>2. CASE His(w, kind, d) = {}
    BY <1>1, <1>2, <2>1, <2>2 DEF Tells
  <2>3. CASE His(w, kind, d) # {}
    <3>1. PICK i \in His(w, kind, d) : /\ \A j \in His(w, kind, d) : j <= i
                                       /\ journal[i].from = AtDawn(w, kind, d)
      BY <2>1, <2>3 DEF Tells
    <3>2. His(w, kind, d) \subseteq Nat
      BY DEF His, ReportInv, ReportShape
    <3>3. Max(His(w, kind, d)) = i
      <4> DEFINE S == His(w, kind, d)
      <4>1. \A m \in S : (\A y \in S : m >= y) => m = i
        BY <3>1, <3>2
      <4>2. i \in S /\ \A y \in S : i >= y
        BY <3>1, <3>2
      <4> HIDE DEF S
      <4>3. Max(S) = i
        BY <4>1, <4>2 DEF Max
      <4> QED
        BY <4>3 DEF S
    <3> QED
      BY <1>1, <1>2, <2>3, <3>1, <3>3
  <2> QED
    BY <2>2, <2>3
<1>3. CASE ~(d <= day)
  <2>1. His(w, kind, d) = {}
    BY <1>3, EventOf DEF His, ReportInv, ReportShape
  <2> QED
    BY <1>1, <1>3, <2>1
<1> QED
  BY <1>2, <1>3

(* A day of the month is restored from the events of the month.            *)
LEMMA DayIsRestored ==
  ASSUME ReportInv, NEW w \in Employed, NEW d \in Nat \ {0}, NEW first \in Nat, first <= d
  PROVE  /\ StateAt(w, d, Since(first)).status = Truth(w, d).status
         /\ StateAt(w, d, Since(first)).shift = Truth(w, d).shift
<1> DEFINE E == After(w, d, Since(first))
<1>1. ASSUME NEW kind \in Kind
      PROVE  Before(w, kind, E, Was(w, kind)) = IF d <= day THEN AtDawn(w, kind, d) ELSE Was(w, kind)
  <2>1. ASSUME NEW i
        PROVE  (i \in E /\ journal[i].who = w /\ journal[i].kind = kind) <=> i \in His(w, kind, d)
    <3>1. ASSUME i \in E, journal[i].who = w, journal[i].kind = kind
          PROVE  i \in His(w, kind, d)
      <4>1. i \in Since(first) /\ i \in DOMAIN journal /\ i <= i
        BY <3>1 DEF After, Since, ReportInv, ReportShape
      <4> QED
        BY <3>1, <4>1 DEF After, His
    <3>2. ASSUME i \in His(w, kind, d)
          PROVE  i \in E
      <4>1. i \in DOMAIN journal /\ journal[i].at \in Nat /\ journal[i].at >= d
        BY <3>2, EventOf DEF His
      <4>2. i \in Since(first)
        BY <4>1 DEF Since
      <4>3. ASSUME NEW j \in Since(first), j <= i
            PROVE  journal[j].at >= d
        <5>1. j \in DOMAIN journal /\ j \in Nat /\ i \in Nat /\ journal[j].at \in Nat
          BY <4>1, EventOf DEF Since
        <5>2. j = i \/ journal[j].at >= journal[i].at
          BY <4>1, <4>3, <5>1 DEF ReportInv
        <5> QED
          BY <4>1, <5>1, <5>2
      <4> QED
        BY <4>2, <4>3 DEF After
    <3> QED
      BY <3>1, <3>2 DEF His
  <2> HIDE DEF E
  <2> QED
    BY <2>1, PlayedBack
<1>2. /\ StateAt(w, d, Since(first)).status = Before(w, "status_changed", E, Was(w, "status_changed"))
      /\ StateAt(w, d, Since(first)).shift = Before(w, "schedule_changed", E, Was(w, "schedule_changed"))
  BY DEF StateAt, Was
<1> HIDE DEF E
<1>3. /\ StateAt(w, d, Since(first)).status =
           IF d <= day THEN AtDawn(w, "status_changed", d) ELSE Was(w, "status_changed")
      /\ StateAt(w, d, Since(first)).shift =
           IF d <= day THEN AtDawn(w, "schedule_changed", d) ELSE Was(w, "schedule_changed")
  BY <1>1, <1>2 DEF Kind
<1> QED
  BY <1>3 DEF AtDawn, Was, Truth, State

(* So is the day a week ago.                                               *)
LEMMA WeekIsRestored ==
  ASSUME ReportInv, NEW w \in Employed, day - WeekDays \in Nat \ {0}, WeekDays \in Nat
  PROVE  Then(w) = dawn[w][day - WeekDays].status
<1> DEFINE d == day - WeekDays
<1>1. \A i : (i \in Since(d) /\ journal[i].who = w /\ journal[i].kind = "status_changed")
               <=> i \in His(w, "status_changed", d)
  BY DEF Since, His
<1>2. d <= day /\ d \in Nat \ {0} /\ "status_changed" \in Kind
  BY DEF ReportInv, ReportShape, Kind
<1>3. Then(w) = Before(w, "status_changed", Since(d), Was(w, "status_changed"))
  BY DEF Then, Was
<1> HIDE DEF d
<1>4. Then(w) = AtDawn(w, "status_changed", d)
  BY <1>1, <1>2, <1>3, PlayedBack
<1> QED
  BY <1>4 DEF AtDawn, d

(* Rounding makes up for no day when a day is worth more than half a tiyin.*)
LEMMA FullMonth ==
  ASSUME NEW S \in Nat, NEW n \in Nat \ {0}, NEW p \in 0..n, n < 2 * S
  PROVE  (S * p * 2 + n) \div (2 * n) = S <=> p = n
<1> DEFINE x == S * p * 2 + n
<1> DEFINE r == x \div (2 * n)
<1>1. x \in Nat /\ r \in Int /\ (2 * n) * r <= x /\ x < (2 * n) * r + 2 * n
  OBVIOUS
<1>2. CASE p = n
  OBVIOUS
<1>3. CASE p # n
  OBVIOUS
<1> QED
  BY <1>2, <1>3

(* The first day of the month is in it.                                    *)
LEMMA MinOf ==
  ASSUME NEW S \in SUBSET Nat, NEW d \in S
  PROVE  Min(S) \in S /\ Min(S) <= d
<1> DEFINE R == OpToRel(<, Nat)
<1>1. IsWellFoundedOn(R, Nat)
  BY NatLessThanWellFounded
<1>2. \A m, n \in Nat : m < n => <<m, n>> \in R
  BY DEF OpToRel
<1> HIDE DEF R
<1>3. PICK n \in S : \A m \in S : ~ (<<m, n>> \in R)
  BY <1>1, WFMin
<1>4. ASSUME NEW m \in S
      PROVE  n <= m
  <2>1. m \in Nat /\ n \in Nat /\ ~ (<<m, n>> \in R)
    BY <1>3
  <2>2. ~(m < n)
    BY <1>2, <2>1
  <2> QED
    BY <2>1, <2>2
<1>5. Min(S) \in S /\ \A m \in S : Min(S) <= m
  BY <1>4 DEF Min
<1> QED
  BY <1>5

(* Somebody is hired on a day.                                             *)
LEMMA HiredOnADay ==
  ASSUME ReportInv, NEW w \in Employed
  PROVE  HiredOn(w) \in Int
<1>1. roster[w] \in Members
  BY RowOf DEF ReportInv, Employed
<1>2. roster[w].since \in Nat /\ roster[w].hired \in {Unset} \cup HireDates
  BY <1>1 DEF Members
<1> DEFINE hired == roster[w].hired
<1>3. HireDates \subseteq Int
  BY ReportAssumption
<1>4. hired # Unset => hired \in Int
  BY <1>2, <1>3
<1>5. HiredOn(w) = IF hired = Unset THEN roster[w].since ELSE hired
  BY DEF HiredOn
<1> HIDE DEF hired
<1>6. CASE hired = Unset
  BY <1>2, <1>5, <1>6
<1>7. CASE hired # Unset
  BY <1>4, <1>5, <1>7
<1> QED
  BY <1>6, <1>7

(* What the report says of a member is true.                               *)
LEMMA RowIsTrue ==
  ASSUME ReportInv, NEW w \in Employed
  PROVE  /\ \A d \in Month : Row(w).mark[d] = MarkOf(w, d, Truth(w, d))
         /\ Row(w).norm = Cardinality({d \in Month : WorksOn(Truth(w, d).shift, d)})
         /\ Row(w).norm \in 1..(2 * Salary - 1) =>
              (Row(w).accrued = Salary <=> Row(w).payable = Row(w).norm)
<1> DEFINE E == Since(MonthStart)
<1> DEFINE state == [d \in Month |-> StateAt(w, d, E)]
<1> DEFINE mark == [d \in Month |-> MarkOf(w, d, state[d])]
<1> DEFINE Working == {d \in Month : WorksOn(state[d].shift, d)}
<1> DEFINE Paid == {d \in Month : mark[d] \in {"W", "P"}}
<1> DEFINE norm == Cardinality(Working)
<1> DEFINE payable == Cardinality(Paid)
<1>1. /\ Row(w).mark = mark /\ Row(w).norm = norm /\ Row(w).payable = payable
      /\ Row(w).accrued = IF norm = 0 THEN Unset ELSE (Salary * payable * 2 + norm) \div (2 * norm)
  BY DEF Row
<1>2. ASSUME NEW d \in Month
      PROVE  state[d].status = Truth(w, d).status /\ state[d].shift = Truth(w, d).shift
  <2>1. MonthStart \in Month /\ MonthStart <= d
    BY MinOf, ReportAssumption DEF MonthStart
  <2>2. d \in Nat \ {0} /\ MonthStart \in Nat
    BY <2>1, ReportAssumption
  <2> QED
    BY <2>1, <2>2, DayIsRestored
<1>3. \A d \in Month : mark[d] = MarkOf(w, d, Truth(w, d))
  BY <1>2 DEF MarkOf
<1>4. Working = {d \in Month : WorksOn(Truth(w, d).shift, d)}
  BY <1>2
<1>5. Paid \subseteq Working /\ IsFiniteSet(Working)
  <2>1. ASSUME NEW d \in Paid
        PROVE  WorksOn(state[d].shift, d)
    <3>1. HiredOn(w) \in Int /\ d \in Int
      <4>1. d \in Month
        OBVIOUS
      <4>2. d \in Int
        BY <4>1, ReportAssumption
      <4> QED
        BY <4>2, HiredOnADay
    <3>2. MarkOf(w, d, state[d]) \in {"W", "P"}
      OBVIOUS
    <3> QED
      BY <3>1, <3>2 DEF MarkOf
  <2>2. IsFiniteSet(Month)
    <3>1. IsFiniteSet(1..LastDay) /\ Month \subseteq 1..LastDay
      BY ReportAssumption, FS_Interval
    <3> QED
      BY <3>1, FS_Subset
  <2>3. IsFiniteSet(Working)
    BY <2>2, FS_Subset
  <2> QED
    BY <2>1, <2>3
<1>6. norm \in Nat /\ payable \in 0..norm
  <2> HIDE DEF Working, Paid
  <2>1. norm \in Nat /\ payable \in Nat /\ payable <= norm
    BY <1>5, FS_Subset, FS_CardinalityType
  <2> QED
    BY <2>1
<1> HIDE DEF norm, payable
<1>7. norm \in 1..(2 * Salary - 1) =>
        ((Salary * payable * 2 + norm) \div (2 * norm) = Salary <=> payable = norm)
  BY <1>6, FullMonth, ReportAssumption
<1>8. norm \in 1..(2 * Salary - 1) => norm # 0
  BY <1>6
<1> QED
  BY <1>1, <1>3, <1>4, <1>7, <1>8 DEF norm

(* HistoryIsRestored follows.                                              *)
LEMMA ReportIsTrue ==
  ASSUME ReportInv
  PROVE  HistoryIsRestored
<1>1. ASSUME day > WeekDays, NEW status \in {"active", "dismissed"}
      PROVE  WeekDelta(status) = Count(status) - Cardinality({w \in Employed :
               roster[w].since < day - WeekDays /\ dawn[w][day - WeekDays].status = status})
  <2>1. WeekDays \in Nat /\ day - WeekDays \in Nat \ {0}
    BY <1>1, ReportAssumption DEF ReportInv, ReportShape
  <2>2. \A w \in Employed : Then(w) = dawn[w][day - WeekDays].status
    BY <2>1, WeekIsRestored
  <2>3. {w \in Employed : WasThere(w) /\ Then(w) = status}
          = {w \in Employed : roster[w].since < day - WeekDays /\ dawn[w][day - WeekDays].status = status}
    BY <2>2 DEF WasThere
  <2> QED
    BY <2>3 DEF WeekDelta, CountThen
<1> QED
  BY <1>1, RowIsTrue DEF HistoryIsRestored

-----------------------------------------------------------------------------
(* The theorems *)

(* The invariant holds in every reachable state, whichever part moves.     *)
THEOREM Invariance == Spec => [](StaffInv /\ ReportInv /\ TablesInv)
<1>1. Init => StaffInv /\ ReportInv /\ TablesInv
  BY StaffInvInit, ReportInvInit, TablesInvInit DEF Init
<1>2. StaffInv /\ ReportInv /\ TablesInv /\ [Next]_vars => (StaffInv /\ ReportInv /\ TablesInv)'
  <2> SUFFICES ASSUME StaffInv, ReportInv, TablesInv, [Next]_vars
               PROVE  StaffInv' /\ ReportInv' /\ TablesInv'
    OBVIOUS
  <2>1. CASE StaffNext /\ UNCHANGED <<reportVars, tablesVars>>
    BY <2>1, StaffInvNext, ReportInvSame, TablesInvSame
  <2>2. CASE ReportNext /\ UNCHANGED <<staffVars, tablesVars>>
    BY <2>2, StaffInvSame, ReportInvNext, TablesInvSame
  <2>3. CASE TablesNext /\ UNCHANGED <<staffVars, reportVars>>
    BY <2>3, StaffInvSame, ReportInvSame, TablesInvNext
  <2>4. CASE UNCHANGED vars
    BY <2>4, StaffInvSame, ReportInvSame, TablesInvSame DEF vars
  <2> QED
    BY <2>1, <2>2, <2>3, <2>4 DEF Next
<1> QED
  BY <1>1, <1>2, PTL DEF Spec

(* Whatever phone a manager types, whichever call fails and whatever       *)
(* requests overlap, the account of a customer or of another restaurant's  *)
(* staff is neither turned nor closed (UserAccounts of internal/staff).    *)
THEOREM ForeignUntouchedHolds == Spec => ForeignUntouched
<1>1. StaffInv /\ [Next]_vars => [\A u \in foreign : account'[u] = account[u]]_staffVars
  <2> SUFFICES ASSUME StaffInv, [Next]_vars, ~UNCHANGED staffVars
               PROVE  \A u \in foreign : account'[u] = account[u]
    OBVIOUS
  <2>1. StaffNext
    BY DEF Next, vars
  <2> QED
    BY <2>1, StaffBaseNext DEF StaffInv, LeavesForeign
<1> QED
  BY <1>1, Invariance, PTL DEF Spec, ForeignUntouched

(* Dispatch is never allowed to ask a courier of the restaurant who has no *)
(* account to answer with, if requests about one member or one phone do    *)
(* not overlap (activate, Disable).                                        *)
THEOREM ApprovedMeansLinkedHolds == ~Overlap => (Spec => []ApprovedMeansLinked)
<1> SUFFICES ASSUME ~Overlap PROVE Spec => []ApprovedMeansLinked
  OBVIOUS
<1>1. StaffInv => ApprovedMeansLinked
  BY StaffClosed
<1> QED
  BY <1>1, Invariance, PTL

(* Between requests, whoever can work is an active member with access and  *)
(* that position, but for the accounts a failed rollback has left open;    *)
(* again if requests about one member or one phone do not overlap          *)
(* (syncAccess, Create, Update).                                           *)
THEOREM ClosedMeansClosedHolds == ~Overlap => (Spec => []ClosedMeansClosed)
<1> SUFFICES ASSUME ~Overlap PROVE Spec => []ClosedMeansClosed
  OBVIOUS
<1>1. StaffInv => ClosedMeansClosed
  BY StaffClosed
<1> QED
  BY <1>1, Invariance, PTL

(* However often a waiter sends an order again, the kitchen has it once,   *)
(* and the answer is the order of that key and table (routes_waiter.go).   *)
THEOREM OneOrderPerKeyHolds == Spec => []OneOrderPerKey
<1>1. TablesInv => OneOrderPerKey
  BY TablesOnce
<1> QED
  BY <1>1, Invariance, PTL

(* What a member was on any past day is restored from what he is and from  *)
(* the journal; a full salary is paid for a full month and the weekly      *)
(* figures are right (stateAt, BuildReport, Summarize), for any members,   *)
(* schedules, months and events.                                           *)
THEOREM HistoryIsRestoredHolds == Spec => []HistoryIsRestored
<1>1. ReportInv => HistoryIsRestored
  BY ReportIsTrue
<1> QED
  BY <1>1, Invariance, PTL
=============================================================================
