----------------------------- MODULE Identities -----------------------------
(***************************************************************************)
(* The users table, the one-time codes and the requests that prove a phone *)
(* or an e-mail: users.Service Register, IssueCode, RequestEmailCode,      *)
(* Verify, VerifyEmail, LoginWithGoogle, LoginWithFirebasePhone.  A request *)
(* is a goroutine, every call of the storage is a step of it.  People      *)
(* mistype: they register with the phone or the e-mail of another.         *)
(***************************************************************************)
EXTENDS Naturals, FiniteSets

CONSTANTS Handler, Bot,      \* goroutines: of the requests, of the Telegram bot
          Person, UserId, None,
          Stored,            \* tables of users the program starts with
          CodeTTL, Cooldown, MaxAttempts,
          MaxCodes, MaxClock \* bounds: codes per target, seconds

ASSUME LimitsArePositive == {CodeTTL, Cooldown, MaxAttempts, MaxCodes} \subseteq Nat \ {0}
ASSUME NoneIsNobody == None \notin Person \cup [number : Nat, sent : Nat, attempts : Nat]
ASSUME OneBot == IsFiniteSet(Handler) /\ Handler # {} /\ Bot \notin Handler

VARIABLES users,   \* the users table
          codes,   \* the code of each target, None when there is none
          issued,  \* how many codes were sent to a target
          tried,   \* history: comparisons with the last code sent
          tokens,  \* the tokens given out
          clock,   \* seconds
          job      \* of each goroutine: what it is doing

idVars == <<users, codes, issued, tried, tokens, clock, job>>

Target == [kind : {"phone", "email"}, owner : Person]
Phone(p) == [kind |-> "phone", owner |-> p]
Email(p) == [kind |-> "email", owner |-> p]

(* phone, email: whose they are.  password: who made it up.  weak: the     *)
(* hash has outdated parameters (NeedsRehash).                             *)
Maybe == Person \cup {None}
UserRow == [phone : Maybe, phoneVerified : BOOLEAN, email : Maybe, emailVerified : BOOLEAN,
            password : Maybe, weak : BOOLEAN, telegram : Maybe, deleted : BOOLEAN]
NoUser == [phone |-> None, phoneVerified |-> FALSE, email |-> None, emailVerified |-> FALSE,
           password |-> None, weak |-> FALSE, telegram |-> None, deleted |-> FALSE]
Rows == {u \in UserId : users[u] # NoUser}

Has(row, t) == row[t.kind] = t.owner
WithTarget(t) == {u \in Rows : Has(users[u], t)}
Verified(row, t) == IF t.kind = "phone" THEN row.phoneVerified ELSE row.emailVerified
Owner(row) == IF row.phone # None THEN row.phone ELSE row.email

(* Rows the program may start with: of a row with a phone the e-mail counts*)
(* only when both were proven by one person.                               *)
LegalRow(row) ==
  /\ Owner(row) # None
  /\ row.phoneVerified => row.phone # None
  /\ row.emailVerified /\ row.phone # None => row.phoneVerified /\ row.email = row.phone
  /\ row.telegram \in {None, Owner(row)}

ASSUME StoredIsLegal ==
  \A table \in Stored : /\ table \in [UserId -> UserRow]
                        /\ \A u \in UserId : table[u] = NoUser \/ LegalRow(table[u])

(* Of a verified row nobody else made up the password, nor is an outdated  *)
(* hash somebody else's.  The accounts a stored table says otherwise of: a *)
(* password typed there by another may come back after it was cleared.     *)
OwnPassword(row) ==
  /\ row.phoneVerified \/ row.emailVerified => row.password \in {None, Owner(row)}
  /\ row.weak => row.password = Owner(row)
Doubtful == {u \in UserId : \E table \in Stored : ~OwnPassword(table[u])}

(* A record with fields added or replaced.                                 *)
Put(record, fields) == [f \in DOMAIN record \cup DOMAIN fields |->
                          IF f \in DOMAIN fields THEN fields[f] ELSE record[f]]

Idle == [pc |-> "idle"]
Goto(h, pc) == job' = [job EXCEPT ![h].pc = pc]
Done(h) == job' = [job EXCEPT ![h] = Idle]

(* The bot only logs that a contact could not be linked, and goes on.      *)
Fail(h) == IF h = Bot /\ job[h].pc \in {"find", "create", "restore", "link"}
           THEN Goto(h, "answer") ELSE Done(h)

(* The unique indexes of the phone, the e-mail and the Telegram id.        *)
IdTypeOK ==
  /\ users \in [UserId -> UserRow]
  /\ \A u \in Rows : Owner(users[u]) # None
  /\ \A u, v \in Rows : u # v => \A f \in {"phone", "email", "telegram"} :
       users[u][f] = None \/ users[u][f] # users[v][f]
  /\ codes \in [Target -> [number : 1..MaxCodes, sent : 0..MaxClock, attempts : Nat] \cup {None}]
  /\ \A t \in Target : codes[t] # None => codes[t].number = issued[t]
  /\ tokens \subseteq [user : Rows, holder : Person, iat : 0..MaxClock, proven : BOOLEAN]
  /\ clock \in 0..MaxClock

IdInit ==
  /\ users \in Stored
  /\ codes = [t \in Target |-> None]
  /\ issued = [t \in Target |-> 0]
  /\ tried = [t \in Target |-> 0]
  /\ tokens = {}
  /\ clock = 0
  /\ job = [h \in Handler \cup {Bot} |-> Idle]

-----------------------------------------------------------------------------
(* Sending a code *)

(* The cooldown is looked up ...                                           *)
TooSoon(t) == codes[t] # None /\ clock - codes[t].sent < Cooldown

RequestCode(h, t) ==
  /\ job[h].pc = "idle" /\ ~TooSoon(t)
  /\ job' = [job EXCEPT ![h] = [pc |-> "send", target |-> t]]
  /\ UNCHANGED <<users, codes, issued, tried, tokens>>

(* The end of Register: too soon is not told to the client.                *)
CodeAfterRegister(h) ==
  /\ job[h].pc = "peek"
  /\ job' = [job EXCEPT ![h] = IF TooSoon(@.target) THEN Idle
                               ELSE [pc |-> "send", target |-> @.target]]
  /\ UNCHANGED <<users, codes, issued, tried, tokens>>

(* ... and the code saved in a later call; it replaces the one before.     *)
SaveCode(t) ==
  /\ issued[t] < MaxCodes
  /\ issued' = [issued EXCEPT ![t] = @ + 1]
  /\ tried' = [tried EXCEPT ![t] = 0]
  /\ codes' = [codes EXCEPT ![t] = [number |-> issued[t] + 1, sent |-> clock, attempts |-> 0]]

IssueCode(h) ==
  /\ job[h].pc = "send" /\ SaveCode(job[h].target)
  /\ Done(h)
  /\ UNCHANGED <<users, tokens>>

-----------------------------------------------------------------------------
(* Verify and VerifyEmail *)

(* typed: the number of the code the client types, 0 a wrong one.          *)
BeginVerify(h, t, typed) ==
  /\ job[h].pc = "idle" /\ codes[t] # None
  /\ job' = [job EXCEPT ![h] =
       [pc |-> IF clock > codes[t].sent + CodeTTL THEN "drop" ELSE "count",
        target |-> t, via |-> "code", by |-> t.owner, hash |-> codes[t].number, typed |-> typed]]
  /\ UNCHANGED <<users, codes, issued, tried, tokens>>

(* IncrementAttempts: of whatever code is stored now, 0 when there is none.*)
(* Above the limit it does not matter how far.                             *)
Increment(t) == IF codes[t] = None THEN 0
                ELSE IF codes[t].attempts > MaxAttempts THEN codes[t].attempts
                ELSE codes[t].attempts + 1
Counted(t) == IF codes[t] = None THEN codes
              ELSE [codes EXCEPT ![t].attempts = Increment(t)]

(* Mutant: the counter is never written.                                  *)
NotCounted(t) == codes

StoreCount(t) == Counted(t)

CountAttempt(h) ==
  /\ job[h].pc = "count"
  /\ LET t == job[h].target
     IN  /\ codes' = StoreCount(t)
         /\ IF Increment(t) > MaxAttempts
            THEN Goto(h, "drop") /\ UNCHANGED tried
            ELSE /\ IF job[h].typed = job[h].hash THEN Goto(h, "consume") ELSE Done(h)
                 /\ tried' = IF job[h].hash = issued[t] THEN [tried EXCEPT ![t] = @ + 1] ELSE tried
  /\ UNCHANGED <<users, issued, tokens>>

(* Delete says nothing of whether there was a code, or which one.          *)
DropCode(h) ==
  /\ job[h].pc = "drop"
  /\ codes' = [codes EXCEPT ![job[h].target] = None]
  /\ Done(h)
  /\ UNCHANGED <<users, issued, tried, tokens>>

ConsumeCode(h) ==
  /\ job[h].pc = "consume"
  /\ codes' = [codes EXCEPT ![job[h].target] = None]
  /\ Goto(h, "find")
  /\ UNCHANGED <<users, issued, tried, tokens>>

(* Firebase vouches for a phone, Google for an e-mail.                     *)
LoginWithProvider(h, t) ==
  /\ job[h].pc = "idle"
  /\ job' = [job EXCEPT ![h] = [pc |-> "find", target |-> t, by |-> t.owner,
                                via |-> IF t.kind = "phone" THEN "firebase" ELSE "google"]]
  /\ UNCHANGED <<users, codes, issued, tried, tokens>>

-----------------------------------------------------------------------------
(* The account of what was proven: finishPhoneLogin, VerifyEmail,          *)
(* LoginWithGoogle, LinkTelegramPhone                                      *)

(* Mutant: whoever has the address in the row is taken for its owner.     *)
AnyEmailIsIdentity(row) == TRUE

EmailIsIdentity(row) == row.emailVerified \/ row.phone = None

MayCreate(request) == request.target.kind = "phone" \/ request.via \in {"google", "register"}
AfterProof(request) == IF request.via = "contact" THEN "link" ELSE "issue"

(* What is done about the row that was found, from what was read of it.    *)
NextStep(request, row) ==
  IF request.target.kind = "email" /\ ~EmailIsIdentity(row) THEN "release"
  ELSE IF request.via # "contact" /\ ~Verified(row, request.target) THEN "clear"
  ELSE IF row.deleted THEN "restore" ELSE AfterProof(request)

FindAccount(h) ==
  /\ job[h].pc = "find"
  /\ LET request == job[h]
         found == WithTarget(request.target)
     IN  job' = [job EXCEPT ![h] =
           IF found # {}
           THEN LET u == CHOOSE u \in found : TRUE
                IN  Put(request, [pc |-> NextStep(request, users[u]),
                                  user |-> u, deleted |-> users[u].deleted])
           ELSE IF MayCreate(request) THEN [request EXCEPT !.pc = "create"] ELSE Idle]
  /\ UNCHANGED <<users, codes, issued, tried, tokens>>

UpdateUser(u, fields) == users' = [users EXCEPT ![u] = Put(@, fields)]

(* releaseUnprovenEmail: a code opens no account of another.               *)
ReleaseEmail(h) ==
  /\ job[h].pc = "release"
  /\ UpdateUser(job[h].user, [email |-> None])
  /\ IF MayCreate(job[h]) THEN Goto(h, "create") ELSE Done(h)
  /\ UNCHANGED <<codes, issued, tried, tokens>>

Fresh == UserId \ Rows
NewRow(t, verified) ==
  [NoUser EXCEPT ![t.kind] = t.owner,
                 !.phoneVerified = verified /\ t.kind = "phone",
                 !.emailVerified = verified /\ t.kind = "email"]

Taken(t) == WithTarget(t) # {}

(* Another request may have created the account meanwhile: an error.       *)
CreateAccount(h) ==
  /\ job[h].pc = "create" /\ job[h].via # "register"
  /\ LET t == job[h].target
     IN  IF Taken(t) THEN Fail(h) /\ UNCHANGED users
         ELSE /\ Fresh # {}
              /\ LET u == CHOOSE u \in Fresh : TRUE
                 IN  /\ users' = [users EXCEPT ![u] = NewRow(t, TRUE)]
                     /\ job' = [job EXCEPT ![h] = Put(@, [pc |-> AfterProof(@), user |-> u])]
  /\ UNCHANGED <<codes, issued, tried, tokens>>

(* The password of an unverified row is cleared before it is verified.     *)
(* Mutant: the password stays.                                             *)
KeepPassword(h) ==
  /\ job[h].pc = "clear"
  /\ Goto(h, "mark")
  /\ UNCHANGED <<users, codes, issued, tried, tokens>>

ClearPassword(h) ==
  /\ job[h].pc = "clear"
  /\ UpdateUser(job[h].user, [password |-> None, weak |-> FALSE])
  /\ Goto(h, "mark")
  /\ UNCHANGED <<codes, issued, tried, tokens>>

MarkVerified(h) ==
  /\ job[h].pc = "mark"
  /\ UpdateUser(job[h].user, IF job[h].target.kind = "phone" THEN [phoneVerified |-> TRUE]
                             ELSE [emailVerified |-> TRUE])
  /\ Goto(h, IF job[h].deleted THEN "restore" ELSE "issue")
  /\ UNCHANGED <<codes, issued, tried, tokens>>

Reactivate(h) ==
  /\ job[h].pc = "restore"
  /\ UpdateUser(job[h].user, [deleted |-> FALSE])
  /\ Goto(h, AfterProof(job[h]))
  /\ UNCHANGED <<codes, issued, tried, tokens>>

IssueToken(h) ==
  /\ job[h].pc = "issue"
  /\ tokens' = tokens \cup {[user |-> job[h].user, holder |-> job[h].by, iat |-> clock,
                             proven |-> job[h].via \in {"code", "firebase"}]}
  /\ Done(h)
  /\ UNCHANGED <<users, codes, issued, tried>>

-----------------------------------------------------------------------------
(* Registration *)

(* mail: the address in the form of a registration by phone.               *)
Register(h, t, mail) ==
  /\ job[h].pc = "idle"
  /\ LET found == WithTarget(t)
         request == [target |-> t, via |-> "register", mail |-> mail]
     IN  job' = [job EXCEPT ![h] = Put(request,
           IF found = {} THEN [pc |-> "create"]
           ELSE LET u == CHOOSE u \in found : TRUE
                IN  [user |-> u,
                     pc |-> IF t.kind = "email" /\ ~EmailIsIdentity(users[u]) THEN "release"
                            ELSE IF t.kind = "phone" /\ ~users[u].phoneVerified /\ mail # None
                            THEN "update" ELSE "peek"])]
  /\ UNCHANGED <<users, codes, issued, tried, tokens>>

(* The row is made without a password, and without an address that is taken*)
RegisterUser(h) ==
  /\ job[h].pc = "create" /\ job[h].via = "register"
  /\ LET request == job[h]
         mail == request.mail
         kept == IF mail = None \/ Taken(Email(mail)) THEN None ELSE mail
     IN  IF Taken(request.target) THEN Done(h) /\ UNCHANGED users
         ELSE /\ Fresh # {}
              /\ users' = [users EXCEPT ![CHOOSE u \in Fresh : TRUE] =
                   IF request.target.kind = "email" THEN NewRow(request.target, FALSE)
                   ELSE [NewRow(request.target, FALSE) EXCEPT !.email = kept]]
              /\ Goto(h, "peek")
  /\ UNCHANGED <<codes, issued, tried, tokens>>

(* An unfinished registration is taken over, by the row read before.       *)
UpdateProfile(h) ==
  /\ job[h].pc = "update"
  /\ LET mail == Email(job[h].mail)
     IN  IF WithTarget(mail) \subseteq {job[h].user}
         THEN UpdateUser(job[h].user, [email |-> mail.owner]) ELSE UNCHANGED users
  /\ Goto(h, "peek")
  /\ UNCHANGED <<codes, issued, tried, tokens>>

IdStep(h) ==
  \/ \E t \in Target :
       \/ RequestCode(h, t) \/ LoginWithProvider(h, t) \/ Register(h, t, None)
       \/ BeginVerify(h, t, 0)
       \/ codes[t] # None /\ BeginVerify(h, t, codes[t].number)
  \/ \E p, mail \in Person : Register(h, Phone(p), mail)
  \/ CodeAfterRegister(h) \/ IssueCode(h) \/ CountAttempt(h) \/ DropCode(h) \/ ConsumeCode(h)
  \/ FindAccount(h) \/ ReleaseEmail(h) \/ CreateAccount(h) \/ ClearPassword(h)
  \/ MarkVerified(h) \/ Reactivate(h) \/ IssueToken(h) \/ RegisterUser(h) \/ UpdateProfile(h)

Tick == clock < MaxClock /\ clock' = clock + 1
=============================================================================
