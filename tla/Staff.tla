-------------------------------- MODULE Staff --------------------------------
(***************************************************************************)
(* Members of the staff of one restaurant and the application accounts     *)
(* that follow them (internal/staff): a request of a manager reads the row *)
(* of a member, closes the account if access ends, opens it if access      *)
(* begins, and writes the whole row last; if that write fails, what was    *)
(* opened is closed again.  Every call of the storage is one step, with    *)
(* the reads just before it.                                               *)
(*                                                                         *)
(* A courier of the restaurant has a courier row of his own, named after   *)
(* the member; dispatch claims it, and assigns the order in a later step.  *)
(***************************************************************************)
EXTENDS Integers, FiniteSets

CONSTANTS
  Member,       \* identifiers of rows and of the courier rows named after them
  Manager,      \* requests of managers under way at once
  Phone,        \* telephone numbers
  UserId,       \* identifiers of accounts
  None,
  MaxRequests,  \* bound: requests of managers
  Overlap       \* may two requests about one member, or one phone, be under way?

ASSUME StaffAssumption == MaxRequests \in Nat /\ Overlap \in BOOLEAN
ASSUME NoneIsAbsent == None \notin Phone \cup UserId

Position == {"waiter", "courier", "chef"}
Status == {"active", "on_leave", "dismissed"}

Here == "here"            \* the entity of a waiter of this restaurant
Elsewhere == "elsewhere"  \* the entity of a waiter or courier of another one

VARIABLES
  staff,     \* staff_members
  made,      \* identifiers given out (newID)
  account,   \* users
  courier,   \* couriers: the rows named after members
  ride,      \* what dispatch does with the courier of a member
  request,   \* the request a manager is waiting for
  requests,  \* requests made
  foreign,   \* accounts that belong to no row: customers, staff of others
  leaked     \* accounts left half open: a rollback failed or was refused, or the
             \* approval of a courier failed after his account was turned

staffVars == <<staff, made, account, courier, ride, request, requests, foreign, leaked>>

NoMember == [phone |-> None]
NoAccount == [phone |-> None]
NoCourier == [approved |-> FALSE, available |-> FALSE]  \* no row, or one at rest
Idle == [pc |-> "idle"]

Hired == {m \in Member : staff[m] # NoMember}

AllowsApp(position) == position \in {"waiter", "courier"}
AccessEffective(row) == row.app /\ row.status = "active" /\ AllowsApp(row.position)

(* The role of a position, and the entity the account then belongs to.     *)
AppRole(m, row) == [role |-> row.position,
                    entity |-> IF row.position = "waiter" THEN Here ELSE m]

(* The unique indexes of staff_members: a phone among those employed, an   *)
(* account among all.                                                      *)
RowFits(m, row) == \A x \in Hired \ {m} :
  /\ row.status # "dismissed" /\ staff[x].status # "dismissed" => staff[x].phone # row.phone
  /\ row.user # None => staff[x].user # row.user

PhoneFree(m, row) == \/ row.status = "dismissed"
                     \/ \A x \in Hired \ {m} : staff[x].status # "dismissed" => staff[x].phone # row.phone

-----------------------------------------------------------------------------
(* syncAccess: what the change of a row asks of the account *)

Want(r) == AccessEffective(r.new)
Had(r) == r.old.user # None /\ AccessEffective(r.old)
PhoneChanged(r) == r.old.user # None /\ r.old.phone # r.new.phone
(* Mutant: a waiter who becomes a courier keeps his account.               *)
RelinkOnPhone(r) == PhoneChanged(r)

Relink(r) == PhoneChanged(r) \/ (r.old.user # None /\ r.old.position # r.new.position)

Closes(r) == r.old.user # None /\ (~Want(r) \/ Relink(r))
Opens(r) == Want(r) /\ (~Had(r) \/ Relink(r))

Close(r) == [r EXCEPT !.pc = "close"]
Open(r) == IF Opens(r) THEN [r EXCEPT !.pc = "open"] ELSE [r EXCEPT !.pc = "save"]
Sync(r) == IF Closes(r) THEN Close(r) ELSE Open(r)

(* The old account stays with the old phone.                               *)
Closed(r) == IF r.undo THEN Idle
             ELSE Open(IF PhoneChanged(r) THEN [r EXCEPT !.new.user = None] ELSE r)

(* The account Disable is about.                                           *)
Closing(r) == IF r.undo THEN r.new.user ELSE r.old.user

-----------------------------------------------------------------------------
(* A request: Create, Update or SetStatus *)

Nobody == [phone |-> None, position |-> "chef", status |-> "active", app |-> FALSE, user |-> None]

MoveTo(row, position) ==
  [row EXCEPT !.position = position, !.app = @ /\ AllowsApp(position)]

Patched(row) ==
  {MoveTo(row, p) : p \in Position} \cup {[row EXCEPT !.phone = p] : p \in Phone}
  \cup {[row EXCEPT !.status = s] : s \in Status} \cup {[row EXCEPT !.app = a] : a \in BOOLEAN}

NewRows == [phone : Phone, position : Position, status : {"active"}, app : BOOLEAN, user : {None}]

Allowed(row) == row.app => AllowsApp(row.position)

Phones(r) == {r.old.phone, r.new.phone} \ {None}
Apart(r, q) == r.m # q.m /\ Phones(r) \cap Phones(q) = {}

Begin(g, m, old, new) ==
  LET r == [pc |-> "phone", m |-> m, old |-> old, new |-> new, undo |-> FALSE] IN
  /\ request[g] = Idle /\ requests < MaxRequests
  /\ ~Overlap => \A h \in Manager : request[h] # Idle => Apart(r, request[h])
  /\ Allowed(new) /\ new # old
  /\ requests' = requests + 1
  /\ request' = [request EXCEPT ![g] =
       IF old.phone # new.phone \/ (old.status = "dismissed" /\ new.status # "dismissed")
       THEN r ELSE Sync(r)]

Create(g) == \E m \in Member, new \in NewRows :
  /\ m \notin made /\ made' = made \cup {m}
  /\ Begin(g, m, Nobody, new)

Update(g) == /\ \E m \in Hired : \E new \in Patched(staff[m]) : Begin(g, m, staff[m], new)
             /\ UNCHANGED made

CheckPhone(g) == LET r == request[g] IN
  /\ r.pc = "phone"
  /\ request' = [request EXCEPT ![g] = IF PhoneFree(r.m, r.new) THEN Sync(r) ELSE Idle]

(* A call of the storage fails: the request ends there, and only a failed  *)
(* write of the row closes again what was opened.                          *)
Fails(g) == LET r == request[g] IN
  /\ r # Idle
  /\ leaked' = IF r.undo \/ r.pc = "activate" THEN leaked \cup {r.new.user} ELSE leaked
  /\ request' = [request EXCEPT ![g] =
       IF r.pc = "save" /\ Opens(r) THEN [Close(r) EXCEPT !.undo = TRUE] ELSE Idle]

Save(g) == LET r == request[g] IN
  /\ r.pc = "save" /\ RowFits(r.m, r.new)
  /\ staff' = [staff EXCEPT ![r.m] = r.new]
  /\ request' = [request EXCEPT ![g] = Idle]

-----------------------------------------------------------------------------
(* UserAccounts.Disable *)

Ours(a) == a # NoAccount /\ (a.role = "courier" /\ a.entity \in Member)
Waits(a) == a # NoAccount /\ a.role = "waiter" /\ a.entity = Here

(* Mutant: the approval is left.                                           *)
LookOnly(g) == LET r == request[g]  a == account[Closing(r)] IN
  /\ r.pc = "close"
  /\ request' = [request EXCEPT ![g] =
       IF Ours(a) THEN [r EXCEPT !.pc = "busy"]
       ELSE IF Waits(a) THEN [r EXCEPT !.pc = "turn"] ELSE Closed(r)]
  /\ UNCHANGED <<courier, leaked>>

(* The approval goes first: no new offer, no new claim.                    *)
Look(g) == LET r == request[g]  a == account[Closing(r)] IN
  /\ r.pc = "close"
  /\ courier' = IF Ours(a) THEN [courier EXCEPT ![a.entity].approved = FALSE] ELSE courier
  /\ request' = [request EXCEPT ![g] =
       IF Ours(a) THEN [r EXCEPT !.pc = "busy"]
       ELSE IF Waits(a) THEN [r EXCEPT !.pc = "turn"] ELSE Closed(r)]
  /\ UNCHANGED leaked

(* GetActiveByCourier: only an assigned order counts.                      *)
CourierBusy(m) == ride[m] = "assigned"

CheckBusy(g) == LET r == request[g]  m == account[Closing(r)].entity IN
  /\ r.pc = "busy" /\ account[Closing(r)].entity \in Member
  /\ courier' = IF CourierBusy(m) THEN [courier EXCEPT ![m].approved = TRUE]
                ELSE [courier EXCEPT ![m].available = FALSE]
  /\ leaked' = IF CourierBusy(m) /\ r.undo THEN leaked \cup {Closing(r)} ELSE leaked
  /\ request' = [request EXCEPT ![g] =
       IF CourierBusy(m) THEN Idle ELSE [r EXCEPT !.pc = "turn"]]

(* The query fails: the approval is given back.                            *)
BusyFails(g) == LET r == request[g]  m == account[Closing(r)].entity IN
  /\ r.pc = "busy" /\ m \in Member
  /\ courier' = [courier EXCEPT ![m].approved = TRUE]
  /\ leaked' = IF r.undo THEN leaked \cup {Closing(r)} ELSE leaked
  /\ request' = [request EXCEPT ![g] = Idle]

(* UpdateRole, and the sessions are revoked.                               *)
Turn(g) == LET r == request[g] IN
  /\ r.pc = "turn"
  /\ account' = [account EXCEPT ![Closing(r)].role = "customer", ![Closing(r)].entity = None]
  /\ request' = [request EXCEPT ![g] = Closed(r)]

-----------------------------------------------------------------------------
(* UserAccounts.Enable *)

ByPhone(p) == {u \in UserId : account[u] # NoAccount /\ account[u].phone = p}
Belongs(u, r) == [role |-> account[u].role, entity |-> account[u].entity] = AppRole(r.m, r.new)

(* The account that was linked before, closed since, on the same phone.    *)
Returns(u, r) == account[u].role = "customer" /\ account[u].entity = None
                 /\ account[u].phone = r.new.phone

Linked(r, u) == [r EXCEPT !.new.user = u,
                          !.pc = IF r.new.position = "courier" THEN "activate" ELSE "save"]

(* Mutant: whoever has the phone becomes a member of the staff.            *)
ChooseAnybody(g) == LET r == request[g] IN
  /\ r.pc = "open"
  /\ request' = [request EXCEPT ![g] =
       IF r.new.user = None /\ ByPhone(r.new.phone) # {}
       THEN [r EXCEPT !.new.user = CHOOSE x \in ByPhone(r.new.phone) : TRUE, !.pc = "link"]
       ELSE [r EXCEPT !.pc = "link"]]

Choose(g) == LET r == request[g]  u == r.new.user IN
  /\ r.pc = "open"
  /\ request' = [request EXCEPT ![g] =
       IF u # None
       THEN CASE Belongs(u, r) -> Linked(r, u)
              [] ~Belongs(u, r) /\ Returns(u, r) -> [r EXCEPT !.pc = "link"]
              [] OTHER -> Idle                                \* ErrAccountConflict
       ELSE IF ByPhone(r.new.phone) = {} THEN [r EXCEPT !.pc = "link"]
       ELSE LET v == CHOOSE x \in ByPhone(r.new.phone) : TRUE IN
            IF Belongs(v, r) THEN Linked(r, v) ELSE Idle]

FreshUser == CHOOSE u \in UserId : account[u] = NoAccount

(* UpdateRole of the account that returns, or Create of a new one.         *)
Link(g) ==
  LET r == request[g]
      as == AppRole(r.m, r.new)
      u == IF r.new.user # None THEN r.new.user ELSE FreshUser IN
  /\ r.pc = "link"
  /\ r.new.user = None => \E v \in UserId : account[v] = NoAccount
  /\ IF r.new.user = None /\ ByPhone(r.new.phone) # {}
     THEN request' = [request EXCEPT ![g] = Idle] /\ UNCHANGED account   \* ErrPhoneTaken
     ELSE /\ account' = [account EXCEPT ![u] =
                           [phone |-> IF r.new.user = None THEN r.new.phone ELSE account[u].phone,
                            role |-> as.role, entity |-> as.entity]]
          /\ request' = [request EXCEPT ![g] = Linked(r, u)]

Activate(g) == LET r == request[g] IN
  /\ r.pc = "activate"
  /\ courier' = [courier EXCEPT ![r.m].approved = TRUE]
  /\ request' = [request EXCEPT ![g] = [r EXCEPT !.pc = "save"]]

-----------------------------------------------------------------------------
(* Couriers at work, and people who sign up *)

HasAccount(m) == \E u \in UserId : account[u] # NoAccount
                   /\ account[u].role = "courier" /\ account[u].entity = m

(* A courier without an order goes on line. With one he may too (see the  *)
(* toggles of CourierDispatch); going off line by hand is left out.        *)
GoOnline(m) == /\ HasAccount(m) /\ courier[m].approved /\ ride[m] = "none"
               /\ courier' = [courier EXCEPT ![m].available = TRUE]
               /\ UNCHANGED ride

(* ClaimIfAvailable, then AssignCourier or its compensation.               *)
Claim(m) == /\ courier[m].approved /\ courier[m].available /\ ride[m] = "none"
            /\ courier' = [courier EXCEPT ![m].available = FALSE]
            /\ ride' = [ride EXCEPT ![m] = "claimed"]
Assign(m) == /\ ride[m] = "claimed"
             /\ \/ ride' = [ride EXCEPT ![m] = "assigned"] /\ UNCHANGED courier
                \/ /\ ride' = [ride EXCEPT ![m] = "none"]
                   /\ courier' = [courier EXCEPT ![m].available = TRUE]

Deliver(m) == /\ ride[m] = "assigned" /\ HasAccount(m)
              /\ ride' = [ride EXCEPT ![m] = "none"]
              /\ courier' = [courier EXCEPT ![m].available = TRUE]

SignUp(p) == /\ ByPhone(p) = {} /\ \E u \in UserId : account[u] = NoAccount
             /\ account' = [account EXCEPT ![FreshUser] =
                              [phone |-> p, role |-> "customer", entity |-> None]]
             /\ foreign' = foreign \cup {FreshUser}

-----------------------------------------------------------------------------
StaffInit ==
  /\ staff = [m \in Member |-> NoMember] /\ made = {} /\ account = [u \in UserId |-> NoAccount]
  /\ courier = [m \in Member |-> NoCourier] /\ ride = [m \in Member |-> "none"]
  /\ request = [g \in Manager |-> Idle] /\ requests = 0
  /\ foreign = {} /\ leaked = {}

StaffNext ==
  \/ (\E g \in Manager : Create(g) \/ Update(g))
       /\ UNCHANGED <<staff, account, courier, ride, foreign, leaked>>
  \/ (\E g \in Manager : CheckPhone(g) \/ Choose(g))
       /\ UNCHANGED <<staff, made, account, courier, ride, requests, foreign, leaked>>
  \/ (\E g \in Manager : Fails(g))
       /\ UNCHANGED <<staff, made, account, courier, ride, requests, foreign>>
  \/ (\E g \in Manager : Save(g))
       /\ UNCHANGED <<made, account, courier, ride, requests, foreign, leaked>>
  \/ (\E g \in Manager : Look(g) \/ CheckBusy(g) \/ BusyFails(g))
       /\ UNCHANGED <<staff, made, account, ride, requests, foreign>>
  \/ (\E g \in Manager : Turn(g) \/ Link(g))
       /\ UNCHANGED <<staff, made, courier, ride, requests, foreign, leaked>>
  \/ (\E g \in Manager : Activate(g))
       /\ UNCHANGED <<staff, made, account, ride, requests, foreign, leaked>>
  \/ (\E m \in Member : GoOnline(m) \/ Claim(m) \/ Assign(m) \/ Deliver(m))
       /\ UNCHANGED <<staff, made, account, request, requests, foreign, leaked>>
  \/ (\E p \in Phone : SignUp(p))
       /\ UNCHANGED <<staff, made, courier, ride, request, requests, leaked>>

-----------------------------------------------------------------------------
(* Properties *)

Rows == [phone : Phone, position : Position, status : Status, app : BOOLEAN, user : UserId \cup {None}]
Accounts == [phone : Phone, role : {"customer", "waiter", "courier"},
             entity : Member \cup {Here, None}]

StaffTypeOK ==
  /\ Hired \subseteq made /\ made \subseteq Member
  /\ staff \in [Member -> Rows \cup {NoMember}]
  /\ \A m \in Hired : staff[m].app => AllowsApp(staff[m].position)
  /\ account \in [UserId -> Accounts \cup {NoAccount}]
  /\ \A p \in Phone : Cardinality(ByPhone(p)) <= 1
  /\ courier \in [Member -> [approved : BOOLEAN, available : BOOLEAN]]
  /\ ride \in [Member -> {"none", "claimed", "assigned"}]
  /\ foreign \subseteq UserId /\ leaked \subseteq UserId

(* The account of somebody who is not of this staff is never turned into   *)
(* an account of it, nor closed, whatever phone a manager types and        *)
(* whichever call fails (UserAccounts: BEGONA AKKAUNTGA TEGILMAYDI).       *)
ForeignUntouched == [][\A u \in foreign : account'[u] = account[u]]_staffVars

(* The waiter of this restaurant, or the courier whom dispatch may ask.    *)
Works(u) == \/ Waits(account[u])
            \/ Ours(account[u]) /\ courier[account[u].entity].approved

(* When no request is under way, whoever can work is an active member with *)
(* access and the position he works in, but for accounts left half open    *)
(* (syncAccess: first close, then save; Create and Update roll back).      *)
ClosedMeansClosed ==
  (\A g \in Manager : request[g] = Idle) =>
    \A u \in UserId \ leaked : Works(u) =>
      \E m \in Hired : /\ staff[m].user = u /\ AccessEffective(staff[m])
                       /\ AppRole(m, staff[m]).role = account[u].role

(* Dispatch may only ask a courier who has an account to answer with: the  *)
(* approval comes after the link and goes before it (activate, Disable).   *)
ApprovedMeansLinked == \A m \in Member : courier[m].approved => HasAccount(m)

(* Only a request about a member closes the account he works with.  Not so *)
(* when Overlap: of two equal Creates, one fails and takes the account     *)
(* that both had found or made with it.                                    *)
ClosedByItsOwn == [][\A m \in Hired, u \in UserId :
  staff[m].user = u /\ Works(u) /\ ~Works(u)' =>
    \E g \in Manager : request[g] # Idle /\ request[g].m = m]_staffVars

(* A courier keeps his account while he has an order to deliver (Disable,  *)
(* ErrCourierBusy).  Not so: an order that is claimed and not assigned yet *)
(* is no order of his.                                                     *)
DeliveryKeepsCourier == \A m \in Member : ride[m] = "assigned" => HasAccount(m)

(* An account that was opened for a request that failed can be opened by   *)
(* the next one.  Not so: it is a customer's of an unknown person now.     *)
RetryOpens == \A g \in Manager : request[g].pc = "open" =>
  LET r == request[g] IN
  r.new.user = None => \A u \in ByPhone(r.new.phone) \ foreign : Belongs(u, r)
=============================================================================
