---------------------------- MODULE SignInProofs ----------------------------
(***************************************************************************)
(* Whoever is let into an account owns its phone or its e-mail, a verified *)
(* account has no password but its owner's, and a code is guessed at a     *)
(* bounded number of times: for any number of people, accounts, requests   *)
(* and codes, with restarts in between.                                    *)
(*                                                                         *)
(* A row never changes its owner once it is there, so what a request has   *)
(* found out about the owner stays true however late it goes on.  Accounts *)
(* that start with the password of another (Doubtful) are left out; they   *)
(* may be there, and do the others no harm.                                *)
(***************************************************************************)
EXTENDS SignIn, FiniteSetTheorems, TLAPS

Process == Handler \cup {Bot}
Text == {"phone", "email", "password", "telegram"}
Flag == {"phoneVerified", "emailVerified", "weak", "deleted"}

-----------------------------------------------------------------------------
(* The inductive invariant *)

(* The goroutine serves an account: for its owner, or the account is       *)
(* doubtful.  It acts for the owner.                                       *)
Serves(j) == /\ {"user", "by"} \subseteq DOMAIN j /\ j.user \in Rows /\ j.by \in Maybe
             /\ j.user \in Doubtful \/ j.by = Owner(users[j.user])
Acts(j) == Serves(j) /\ j.by = Owner(users[j.user])

Targeted == {"send", "peek", "count", "drop", "consume", "find", "create", "release", "unlink",
             "clear", "mark", "update"}
Proving == {"count", "consume", "find", "create", "release", "unlink"}
Acting == {"clear", "mark", "restore", "link"}
Serving == {"issue", "rehash", "password", "delete"}

(* Who proves something proves what is his; the rest is a registration.    *)
Proves(j) ==
  /\ "via" \in DOMAIN j
  /\ \/ j.via # "register" /\ "by" \in DOMAIN j /\ j.by = j.target.owner
     \/ /\ j.via = "register" /\ j.pc \in {"create", "release"}
        /\ "mail" \in DOMAIN j /\ j.mail \in Maybe

(* The row of an unfinished registration with a phone.                     *)
Unproven(j) == /\ "user" \in DOMAIN j /\ j.user \in Rows
               /\ users[j.user].phone # None /\ ~users[j.user].emailVerified

GoodJob(h, j) ==
  /\ "pc" \in DOMAIN j
  /\ j.pc \in Targeted \/ (h = Bot /\ j.pc # "idle") => "target" \in DOMAIN j /\ j.target \in Target
  /\ j.pc \in Proving => Proves(j)
  /\ j.pc \in Acting => Acts(j)
  /\ j.pc \in Serving => Serves(j)
  /\ j.pc \in {"revoke", "keep"} => /\ "end" \in DOMAIN j /\ j.end \in {"idle", "issue"}
                                    /\ j.end = "issue" => Serves(j)
  /\ j.pc \in {"clear", "mark"} => (j.target.kind = "phone" <=> users[j.user].phone # None)
  /\ j.pc = "mark" => \/ j.user \in Doubtful
                       \/ users[j.user].password \in {None, Owner(users[j.user])}
  /\ j.pc \in {"release", "update"} => Unproven(j)
  /\ j.pc = "update" => "mail" \in DOMAIN j /\ j.mail \in Person

(* The row of an account.                                                  *)
Fine(u, row) == LegalRow(row) /\ (u \in Doubtful \/ OwnPassword(row))

(* Whose a session is.                                                     *)
Held(token) == /\ token.user \in Rows /\ token.holder \in Maybe
               /\ token.user \in Doubtful \/ token.holder = Owner(users[token.user])

Accounts ==
  /\ users \in [UserId -> UserRow] /\ \A u \in Rows : Fine(u, users[u])
  /\ \A token \in tokens : Held(token)
  /\ pending \in [Link -> LinkRow \cup {None}]

Jobs == DOMAIN job = Process /\ \A h \in Process : GoodJob(h, job[h])

(* Guesses at the last code that are under way.                            *)
Racing(t) == {h \in Handler : job[h].pc = "count" /\ job[h].target = t /\ job[h].hash = issued[t]}

Guesses(t) ==
  IF codes[t] = None
  THEN tried[t] + Cardinality(Racing(t)) <= MaxAttempts + Cardinality(Handler) - 1
  ELSE tried[t] <= codes[t].attempts /\ tried[t] <= MaxAttempts

Code == [number : Nat, sent : Nat, attempts : Nat]
Codes ==
  /\ codes \in [Target -> Code \cup {None}] /\ clock \in Nat
  /\ issued \in [Target -> Nat] /\ tried \in [Target -> Nat]
  /\ \A t \in Target : Guesses(t)

IInv == Accounts /\ Jobs /\ Codes

-----------------------------------------------------------------------------
(* One goroutine goes on *)

Moves(h, j) == /\ DOMAIN job' = Process /\ job'[h] = j
               /\ \A g \in Process \ {h} : job'[g] = job[g]

(* The record with another program counter.                                *)
At(k, pc, j) == /\ DOMAIN j = DOMAIN k /\ j.pc = pc
                /\ \A x \in DOMAIN k \ {"pc"} : j[x] = k[x]

(* What Goto and Done write.                                               *)
LEMMA GotoMoves ==
  ASSUME Jobs, NEW h \in Process, NEW pc, Goto(h, pc)
  PROVE  \E j : Moves(h, j) /\ At(job[h], pc, j)
<1>1. PICK j : j = [job[h] EXCEPT !.pc = pc]
  OBVIOUS
<1>2. At(job[h], pc, j)
  BY <1>1 DEF At, Jobs, GoodJob
<1>3. Moves(h, j)
  BY <1>1 DEF Goto, Moves, Jobs
<1>4. QED
  BY <1>2, <1>3

(* A goroutine that ends.                                                  *)
LEMMA DoneMoves ==
  ASSUME Jobs, NEW h \in Process, Done(h)
  PROVE  Moves(h, Idle)
BY DEF Done, Moves, Jobs

(* A goroutine whose record is written whole.                              *)
LEMMA WriteMoves ==
  ASSUME Jobs, NEW h \in Process, NEW j, job' = [job EXCEPT ![h] = j]
  PROVE  Moves(h, j)
BY DEF Moves, Jobs

(* Nothing is asked of one that rests.                                     *)
LEMMA IdleIsGood ==
  ASSUME NEW h
  PROVE  GoodJob(h, Idle) /\ Idle.pc = "idle"
BY DEF GoodJob, Idle, Targeted, Proving, Acting, Serving


(* What a record with fields added is.                                     *)
LEMMA PutFields ==
  ASSUME NEW f, NEW g, NEW j, j = Put(f, g)
  PROVE  /\ DOMAIN j = DOMAIN f \cup DOMAIN g
         /\ \A x \in DOMAIN g : j[x] = g[x]
         /\ \A x \in DOMAIN f \ DOMAIN g : j[x] = f[x]
BY DEF Put

-----------------------------------------------------------------------------
(* The users table *)

(* What a write of the table leaves true of the rows that are there.       *)
Kept(u, r, s) ==
  /\ s.phone = r.phone /\ Owner(s) = Owner(r)
  /\ r.phone # None /\ ~r.emailVerified => ~s.emailVerified
  /\ u \in Doubtful \/ (r.password \in {None, Owner(r)} => s.password \in {None, Owner(r)})

Steady ==
  /\ users' \in [UserId -> UserRow] /\ \A u \in Rows' : Fine(u, users'[u])
  /\ \A u \in Rows : Kept(u, users[u], users'[u])

(* Without a write.                                                        *)
LEMMA Unwritten ==
  ASSUME Accounts, UNCHANGED users
  PROVE  Steady
BY DEF Accounts, Steady, Kept, Rows

(* A row with an owner is there.                                           *)
LEMMA OwnedIsThere ==
  ASSUME NEW r, Owner(r) # None
  PROVE  r # NoUser
BY DEF Owner, NoUser

(* A row that is there is changed.                                         *)
LEMMA RowChanges ==
  ASSUME Accounts, NEW u \in Rows, NEW r \in UserRow, users' = [users EXCEPT ![u] = r],
         Fine(u, r), Kept(u, users[u], r)
  PROVE  Steady
<1>1. u \in UserId /\ users \in [UserId -> UserRow] /\ \A v \in Rows : Fine(v, users[v])
  BY DEF Accounts, Rows
<1>2. /\ users' \in [UserId -> UserRow] /\ users'[u] = r
      /\ \A v \in UserId : v # u => users'[v] = users[v]
  BY <1>1
<1>3. \A v \in Rows' : Fine(v, users'[v])
  <2> SUFFICES ASSUME NEW v \in Rows' PROVE Fine(v, users'[v])
    OBVIOUS
  <2>1. CASE v = u
    BY <1>2, <2>1
  <2>2. CASE v # u
    <3>1. v \in Rows /\ users'[v] = users[v]
      BY <1>2, <2>2 DEF Rows
    <3>2. QED
      BY <1>1, <3>1
  <2>3. QED
    BY <2>1, <2>2
<1>4. \A v \in Rows : Kept(v, users[v], users'[v])
  <2>1. \A v \in Rows : v # u => users'[v] = users[v]
    BY <1>2 DEF Rows
  <2>2. \A v \in Rows : v # u => Kept(v, users[v], users'[v])
    BY <2>1 DEF Kept
  <2>3. QED
    BY <1>2, <2>2
<1>5. QED
  BY <1>2, <1>3, <1>4 DEF Steady

(* A row is added.                                                         *)
LEMMA RowAdded ==
  ASSUME Accounts, NEW u \in Fresh, NEW r \in UserRow, users' = [users EXCEPT ![u] = r],
         Fine(u, r)
  PROVE  Steady /\ u \in Rows' /\ users'[u] = r
<1>1. /\ u \in UserId /\ users \in [UserId -> UserRow] /\ \A v \in Rows : Fine(v, users[v])
      /\ \A v \in Rows : v # u /\ v \in UserId
  BY DEF Accounts, Rows, Fresh
<1>2. /\ users' \in [UserId -> UserRow] /\ users'[u] = r
      /\ \A v \in UserId : v # u => users'[v] = users[v]
  BY <1>1
<1>3. \A v \in Rows' : Fine(v, users'[v])
  <2> SUFFICES ASSUME NEW v \in Rows' PROVE Fine(v, users'[v])
    OBVIOUS
  <2>1. CASE v = u
    BY <1>2, <2>1
  <2>2. CASE v # u
    <3>1. v \in Rows /\ users'[v] = users[v]
      BY <1>2, <2>2 DEF Rows
    <3>2. QED
      BY <1>1, <3>1
  <2>3. QED
    BY <2>1, <2>2
<1>4. \A v \in Rows : Kept(v, users[v], users'[v])
  <2>1. \A v \in Rows : users'[v] = users[v]
    BY <1>1, <1>2
  <2>2. QED
    BY <2>1 DEF Kept
<1>5. u \in Rows'
  BY <1>1, <1>2, OwnedIsThere DEF Rows, Fine, LegalRow
<1>6. QED
  BY <1>2, <1>3, <1>4, <1>5 DEF Steady

(* What UpdateUser writes.                                                 *)
LEMMA Updated ==
  ASSUME Accounts, NEW u \in Rows, NEW fields, UpdateUser(u, fields),
         \A f \in DOMAIN fields : \/ f \in Text /\ fields[f] \in Maybe
                                  \/ f \in Flag /\ fields[f] \in BOOLEAN
  PROVE  \E r \in UserRow : /\ users' = [users EXCEPT ![u] = r]
                            /\ \A f \in DOMAIN fields : r[f] = fields[f]
                            /\ \A f \in (Text \cup Flag) \ DOMAIN fields : r[f] = users[u][f]
<1>1. users[u] \in UserRow /\ u \in UserId
  BY DEF Accounts, Rows
<1>2. DOMAIN users[u] = Text \cup Flag
  BY <1>1 DEF UserRow, Text, Flag
<1>3. PICK r : r = Put(users[u], fields)
  OBVIOUS
<1>4. users' = [users EXCEPT ![u] = r]
  BY <1>3 DEF UpdateUser
<1>5. /\ \A f \in DOMAIN fields : r[f] = fields[f]
      /\ \A f \in (Text \cup Flag) \ DOMAIN fields : r[f] = users[u][f]
  <2>1. /\ \A f \in DOMAIN fields : r[f] = fields[f]
        /\ \A f \in DOMAIN users[u] \ DOMAIN fields : r[f] = users[u][f]
    BY <1>3 DEF Put
  <2>2. QED
    BY <1>2, <2>1
<1>6. DOMAIN fields \subseteq Text \cup Flag
  OBVIOUS
<1>7. DOMAIN r = Text \cup Flag /\ r = [f \in Text \cup Flag |-> r[f]]
  BY <1>2, <1>3, <1>6 DEF Put
<1>8. \A f \in Text : r[f] \in Maybe
  <2> SUFFICES ASSUME NEW f \in Text PROVE r[f] \in Maybe
    OBVIOUS
  <2>1. f \notin Flag /\ users[u][f] \in Maybe
    BY <1>1 DEF Text, Flag, UserRow
  <2>2. QED
    BY <1>5, <2>1
<1>9. \A f \in Flag : r[f] \in BOOLEAN
  <2> SUFFICES ASSUME NEW f \in Flag PROVE r[f] \in BOOLEAN
    OBVIOUS
  <2>1. f \notin Text /\ users[u][f] \in BOOLEAN
    BY <1>1 DEF Text, Flag, UserRow
  <2>2. QED
    BY <1>5, <2>1
<1>10. r \in UserRow
  <2>1. /\ r.phone \in Maybe /\ r.email \in Maybe /\ r.password \in Maybe /\ r.telegram \in Maybe
        /\ r.phoneVerified \in BOOLEAN /\ r.emailVerified \in BOOLEAN
        /\ r.weak \in BOOLEAN /\ r.deleted \in BOOLEAN
    BY <1>8, <1>9 DEF Text, Flag
  <2>2. r = [phone |-> r.phone, phoneVerified |-> r.phoneVerified, email |-> r.email,
             emailVerified |-> r.emailVerified, password |-> r.password, weak |-> r.weak,
             telegram |-> r.telegram, deleted |-> r.deleted]
    BY <1>7 DEF Text, Flag
  <2>3. QED
    BY <2>1, <2>2 DEF UserRow
<1>11. QED
  BY <1>4, <1>5, <1>10

-----------------------------------------------------------------------------
(* What is left true of the other goroutines *)

(* What a goroutine found out stays true.                                  *)
LEMMA GoodJobStays ==
  ASSUME Accounts, Steady, NEW h, NEW j, GoodJob(h, j)
  PROVE  GoodJob(h, j)'
<1>1. ASSUME "user" \in DOMAIN j, j.user \in Rows
      PROVE  /\ j.user \in Rows' /\ Owner(users'[j.user]) = Owner(users[j.user])
             /\ Kept(j.user, users[j.user], users'[j.user])
  <2>1. Kept(j.user, users[j.user], users'[j.user]) /\ Fine(j.user, users[j.user])
    BY <1>1 DEF Steady, Accounts
  <2>2. Owner(users'[j.user]) = Owner(users[j.user]) /\ Owner(users[j.user]) # None
    BY <2>1 DEF Kept, Fine, LegalRow
  <2>3. QED
    BY <1>1, <2>1, <2>2, OwnedIsThere DEF Rows
<1>2. (Acts(j) => Acts(j)') /\ (Serves(j) => Serves(j)')
  BY <1>1 DEF Acts, Serves
<1>3. Unproven(j) => Unproven(j)'
  BY <1>1 DEF Unproven, Kept
<1>4. Proves(j) => Proves(j)'
  BY DEF Proves
<1>5. j.pc \in {"clear", "mark"} => Acts(j) /\ (j.target.kind = "phone" <=> users'[j.user].phone # None)
  BY <1>1 DEF GoodJob, Acting, Acts, Serves, Kept
<1>6. j.pc = "mark" => \/ j.user \in Doubtful
                       \/ users'[j.user].password \in {None, Owner(users'[j.user])}
  BY <1>1 DEF GoodJob, Acting, Acts, Serves, Kept
<1>7. QED
  BY <1>2, <1>3, <1>4, <1>5, <1>6 DEF GoodJob

(* A set of racing guesses that gets no larger.                            *)
LEMMA FewerRacing ==
  ASSUME NEW t, Racing(t)' \subseteq Racing(t)
  PROVE  /\ Cardinality(Racing(t)) \in Nat /\ Cardinality(Racing(t)') \in Nat
         /\ Cardinality(Racing(t)') <= Cardinality(Racing(t))
<1>1. IsFiniteSet(Racing(t))
  BY OneBot, FS_Subset DEF Racing
<1>2. QED
  BY <1>1, FS_Subset, FS_CardinalityType

(* No code is touched, and only a code that is there is newly guessed at.  *)
LEMMA CodesRest ==
  ASSUME Codes, UNCHANGED <<codes, issued, tried>>, clock' \in Nat,
         \A t \in Target : codes[t] = None => Racing(t)' \subseteq Racing(t)
  PROVE  Codes'
<1>1. ASSUME NEW t \in Target PROVE Guesses(t)'
  <2>1. CASE codes[t] # None
    BY <2>1 DEF Codes, Guesses
  <2>2. CASE codes[t] = None
    <3>1. /\ Cardinality(Racing(t)) \in Nat /\ Cardinality(Racing(t)') \in Nat
          /\ Cardinality(Racing(t)') <= Cardinality(Racing(t))
      BY <2>2, FewerRacing
    <3>2. tried[t] + Cardinality(Racing(t)) <= MaxAttempts + Cardinality(Handler) - 1
      BY <2>2 DEF Codes, Guesses
    <3>3. tried[t] \in Nat /\ MaxAttempts \in Nat /\ Cardinality(Handler) \in Nat
      BY LimitsArePositive, OneBot, FS_CardinalityType DEF Codes
    <3>4. tried[t] + Cardinality(Racing(t)') <= MaxAttempts + Cardinality(Handler) - 1
      BY <3>1, <3>2, <3>3
    <3>5. QED
      BY <2>2, <3>4 DEF Guesses
  <2>3. QED
    BY <2>1, <2>2
<1>2. QED
  BY <1>1 DEF Codes

(* One goroutine goes on, and begins a guess only at a code that is there. *)
LEMMA CodesOfMove ==
  ASSUME Codes, Jobs, UNCHANGED <<codes, issued, tried, clock>>, NEW h \in Process, NEW j,
         Moves(h, j), j.pc = "count" => j.target \in Target /\ codes[j.target] # None
  PROVE  Codes'
<1>1. ASSUME NEW t \in Target, codes[t] = None PROVE Racing(t)' \subseteq Racing(t)
  <2> SUFFICES ASSUME NEW g \in Handler, job'[g].pc = "count", job'[g].target = t,
                      job'[g].hash = issued[t]
               PROVE  g \in Racing(t)
    BY DEF Racing
  <2>1. g # h
    BY <1>1 DEF Moves
  <2>2. job'[g] = job[g]
    BY <2>1 DEF Moves, Process
  <2>3. QED
    BY <2>2 DEF Racing
<1>2. clock' \in Nat
  BY DEF Codes
<1>3. QED
  BY <1>1, <1>2, CodesRest

(* The links with the bot keep their form.                                 *)
LinksFine == pending' \in [Link -> LinkRow \cup {None}]

(* A step of one goroutine that writes users, at most.                     *)
LEMMA OneStep ==
  ASSUME IInv, UNCHANGED <<codes, issued, tried, clock, tokens>>, LinksFine, Steady,
         NEW h \in Process, NEW j, Moves(h, j), GoodJob(h, j)',
         j.pc = "count" => codes[j.target] # None
  PROVE  IInv'
<1>1. Accounts /\ Jobs /\ Codes
  BY DEF IInv
<1>2. Codes'
  <2>1. j.pc = "count" => j.target \in Target
    BY DEF GoodJob, Targeted
  <2>2. QED
    BY <1>1, <2>1, CodesOfMove
<1>3. Jobs'
  <2> SUFFICES ASSUME NEW g \in Process PROVE GoodJob(g, job[g])'
    BY DEF Jobs, Moves
  <2>1. CASE g = h
    BY <2>1 DEF Moves
  <2>2. CASE g # h
    <3>1. job'[g] = job[g] /\ GoodJob(g, job[g])
      BY <1>1, <2>2 DEF Moves, Jobs
    <3>2. PICK k : k = job[g]
      OBVIOUS
    <3>3. GoodJob(g, k)'
      BY <1>1, <3>1, <3>2, GoodJobStays
    <3>4. QED
      BY <3>1, <3>2, <3>3
  <2>3. QED
    BY <2>1, <2>2
<1>4. Accounts'
  <2>1. ASSUME NEW token \in tokens PROVE Held(token)'
    <3>1. PICK u : u = token.user
      OBVIOUS
    <3>2. Held(token) /\ u \in Rows /\ Kept(u, users[u], users'[u]) /\ LegalRow(users[u])
      BY <1>1, <3>1 DEF Accounts, Steady, Held, Fine
    <3>3. Owner(users'[u]) = Owner(users[u]) /\ u \in Rows'
      BY <3>2, OwnedIsThere DEF Kept, LegalRow, Rows
    <3>4. QED
      BY <3>1, <3>2, <3>3 DEF Held
  <2>2. QED
    BY <2>1 DEF Accounts, Steady, LinksFine
<1>5. QED
  BY <1>2, <1>3, <1>4 DEF IInv

(* A step that only looks.                                                 *)
LEMMA OneLook ==
  ASSUME IInv, UNCHANGED <<users, codes, issued, tried, clock, tokens>>, LinksFine,
         NEW h \in Process, NEW j, Moves(h, j), GoodJob(h, j),
         j.pc = "count" => codes[j.target] # None
  PROVE  IInv'
<1>1. Steady
  BY Unwritten DEF IInv
<1>2. GoodJob(h, j)'
  BY <1>1, GoodJobStays DEF IInv
<1>3. QED
  BY <1>1, <1>2, OneStep

(* A step that ends a request, or the bot's answer to one.                 *)
LEMMA OneEnd ==
  ASSUME IInv, UNCHANGED <<users, codes, issued, tried, clock, tokens>>, LinksFine,
         NEW h \in Process, Done(h)
  PROVE  IInv'
<1>1. Moves(h, Idle)
  BY DoneMoves DEF IInv
<1>2. QED
  BY <1>1, IdleIsGood, OneLook

-----------------------------------------------------------------------------
(* Codes: Identities *)

(* Goto keeps what a goroutine knows.                                      *)
LEMMA AtGood ==
  ASSUME NEW h, NEW k, NEW pc, NEW j, At(k, pc, j), "pc" \in DOMAIN k
  PROVE  /\ \A x \in {"target", "via", "by", "mail", "user", "end"} : x \in DOMAIN k =>
              x \in DOMAIN j /\ j[x] = k[x]
         /\ "pc" \in DOMAIN j /\ j.pc = pc
BY DEF At

(* The cooldown is looked up, then the code is sent.                       *)
LEMMA RequestCodeKeeps ==
  ASSUME IInv, UNCHANGED <<clock, pending>>, NEW h \in Handler, NEW t \in Target,
         RequestCode(h, t)
  PROVE  IInv'
<1>1. PICK j : j = [pc |-> "send", target |-> t]
  OBVIOUS
<1>2. Moves(h, j)
  BY <1>1, WriteMoves DEF RequestCode, IInv, Process
<1>3. GoodJob(h, j)
  BY <1>1, OneBot DEF GoodJob, Targeted, Proving, Acting, Serving
<1>4. QED
  BY <1>1, <1>2, <1>3, OneLook DEF RequestCode, IInv, Accounts, LinksFine, Process

(* The end of a registration.                                              *)
LEMMA CodeAfterRegisterKeeps ==
  ASSUME IInv, UNCHANGED <<clock, pending>>, NEW h \in Handler, CodeAfterRegister(h)
  PROVE  IInv'
<1>1. job[h].target \in Target
  BY DEF CodeAfterRegister, IInv, Jobs, GoodJob, Targeted, Process
<1>2. PICK j : /\ job' = [job EXCEPT ![h] = j]
               /\ j = Idle \/ j = [pc |-> "send", target |-> job[h].target]
  BY DEF CodeAfterRegister
<1>3. Moves(h, j)
  BY <1>2, WriteMoves DEF IInv, Process
<1>4. GoodJob(h, j) /\ j.pc # "count"
  <2>1. CASE j = Idle
    BY <2>1, IdleIsGood
  <2>2. CASE j = [pc |-> "send", target |-> job[h].target]
    BY <1>1, <2>2, OneBot DEF GoodJob, Targeted, Proving, Acting, Serving
  <2>3. QED
    BY <1>2, <2>1, <2>2
<1>5. QED
  BY <1>3, <1>4, OneLook DEF CodeAfterRegister, IInv, Accounts, LinksFine, Process

(* A new code may be guessed at again from the start.                      *)
LEMMA SaveCodeKeeps ==
  ASSUME IInv, NEW t \in Target, SaveCode(t), clock' = clock,
         \A u \in Target : u # t => Racing(u)' \subseteq Racing(u)
  PROVE  Codes'
<1>1. PICK code : code = [number |-> issued[t] + 1, sent |-> clock, attempts |-> 0]
  OBVIOUS
<1>2. /\ codes \in [Target -> Code \cup {None}] /\ clock \in Nat
      /\ issued \in [Target -> Nat] /\ tried \in [Target -> Nat]
      /\ \A u \in Target : Guesses(u)
  BY DEF IInv, Codes
<1>3. code \in Code /\ code.attempts = 0
  BY <1>1, <1>2 DEF Code
<1>4. code # None
  BY <1>3, NoneIsNobody DEF Code
<1>5. /\ codes' = [codes EXCEPT ![t] = code] /\ issued' = [issued EXCEPT ![t] = @ + 1]
      /\ tried' = [tried EXCEPT ![t] = 0]
  BY <1>1 DEF SaveCode
<1>6. /\ codes' \in [Target -> Code \cup {None}] /\ clock' \in Nat
      /\ issued' \in [Target -> Nat] /\ tried' \in [Target -> Nat]
  BY <1>2, <1>3, <1>5
<1>7. ASSUME NEW u \in Target PROVE Guesses(u)'
  <2>1. CASE u = t
    <3>1. codes'[u] = code /\ tried'[u] = 0
      BY <1>2, <1>5, <2>1
    <3>2. QED
      BY <1>3, <1>4, <3>1, LimitsArePositive DEF Guesses
  <2>2. CASE u # t
    <3>1. codes'[u] = codes[u] /\ tried'[u] = tried[u] /\ Guesses(u)
      BY <1>2, <1>5, <2>2
    <3>2. /\ Cardinality(Racing(u)) \in Nat /\ Cardinality(Racing(u)') \in Nat
          /\ Cardinality(Racing(u)') <= Cardinality(Racing(u))
      BY <2>2, FewerRacing
    <3>3. tried[u] \in Nat /\ MaxAttempts \in Nat /\ Cardinality(Handler) \in Nat
      BY <1>2, LimitsArePositive, OneBot, FS_CardinalityType
    <3>4. QED
      BY <3>1, <3>2, <3>3 DEF Guesses
  <2>3. QED
    BY <2>1, <2>2
<1>8. QED
  BY <1>6, <1>7 DEF Codes

(* A step of a goroutine that changes codes only.                          *)
LEMMA CodeStep ==
  ASSUME IInv, UNCHANGED <<users, tokens>>, LinksFine, Codes',
         NEW h \in Process, NEW j, Moves(h, j), GoodJob(h, j)
  PROVE  IInv'
<1>1. Accounts /\ Jobs /\ Steady
  BY Unwritten DEF IInv
<1>2. Jobs'
  <2> SUFFICES ASSUME NEW g \in Process PROVE GoodJob(g, job[g])'
    BY DEF Jobs, Moves
  <2>1. PICK k : k = job'[g]
    OBVIOUS
  <2>2. GoodJob(g, k)
    BY <1>1, <2>1 DEF Moves, Jobs
  <2>3. GoodJob(g, k)'
    BY <1>1, <2>2, GoodJobStays
  <2>4. QED
    BY <2>1, <2>3
<1>3. Accounts'
  BY <1>1 DEF Accounts, LinksFine, Held, Rows
<1>4. QED
  BY <1>2, <1>3 DEF IInv

(* Only the goroutine that moves can join or leave a race.                 *)
LEMMA RaceOfMove ==
  ASSUME NEW h \in Process, NEW j, Moves(h, j), j.pc # "count", NEW t, issued'[t] = issued[t]
  PROVE  Racing(t)' \subseteq Racing(t) \ {h}
BY DEF Racing, Moves, Process

(* The code is sent.                                                       *)
LEMMA IssueCodeKeeps ==
  ASSUME IInv, UNCHANGED <<clock, pending>>, NEW h \in Handler, IssueCode(h)
  PROVE  IInv'
<1>1. PICK t : t = job[h].target
  OBVIOUS
<1>2. t \in Target /\ SaveCode(t) /\ h \in Process
  BY <1>1 DEF IssueCode, IInv, Jobs, GoodJob, Targeted, Process
<1>3. Moves(h, Idle) /\ GoodJob(h, Idle) /\ Idle.pc # "count"
  BY <1>2, DoneMoves, IdleIsGood DEF IssueCode, IInv
<1>4. \A u \in Target : u # t => issued'[u] = issued[u]
  BY <1>2 DEF SaveCode, IInv, Codes
<1>5. Codes'
  <2>1. \A u \in Target : u # t => Racing(u)' \subseteq Racing(u)
    BY <1>2, <1>3, <1>4, RaceOfMove
  <2>2. QED
    BY <1>2, <2>1, SaveCodeKeeps
<1>6. QED
  BY <1>2, <1>3, <1>5, CodeStep DEF IssueCode, IInv, Accounts, LinksFine

(* The guess begins at a code that is there.                               *)
LEMMA BeginVerifyKeeps ==
  ASSUME IInv, UNCHANGED <<clock, pending>>, NEW h \in Handler, NEW t \in Target, NEW typed,
         BeginVerify(h, t, typed)
  PROVE  IInv'
<1>1. PICK pc : pc = IF clock > codes[t].sent + CodeTTL THEN "drop" ELSE "count"
  OBVIOUS
<1>2. PICK j : j = [pc |-> pc, target |-> t, via |-> "code", by |-> t.owner,
                    hash |-> codes[t].number, typed |-> typed]
  OBVIOUS
<1>3. Moves(h, j)
  BY <1>1, <1>2, WriteMoves DEF BeginVerify, IInv, Process
<1>4. GoodJob(h, j)
  BY <1>1, <1>2, OneBot DEF GoodJob, Targeted, Proving, Acting, Serving, Proves
<1>5. QED
  BY <1>2, <1>3, <1>4, OneLook DEF BeginVerify, IInv, Accounts, LinksFine, Process

(* The code is gone: whoever is still guessing at it, this one is not.     *)
LEMMA CodeGone ==
  ASSUME IInv, NEW h \in Handler, NEW j, Moves(h, j), j.pc # "count", NEW t \in Target,
         codes' = [codes EXCEPT ![t] = None], UNCHANGED <<issued, tried, clock>>
  PROVE  Codes'
<1>1. /\ codes \in [Target -> Code \cup {None}] /\ clock \in Nat
      /\ issued \in [Target -> Nat] /\ tried \in [Target -> Nat]
      /\ \A u \in Target : Guesses(u)
  BY DEF IInv, Codes
<1>2. \A u \in Target : Racing(u)' \subseteq Racing(u) \ {h}
  BY RaceOfMove DEF Process
<1>3. MaxAttempts \in Nat /\ Cardinality(Handler) \in Nat
  BY LimitsArePositive, OneBot, FS_CardinalityType
<1>4. ASSUME NEW u \in Target PROVE Guesses(u)'
  <2>1. /\ Cardinality(Racing(u)) \in Nat /\ Cardinality(Racing(u)') \in Nat
        /\ Cardinality(Racing(u)') <= Cardinality(Racing(u))
    BY <1>2, FewerRacing
  <2>2. tried[u] \in Nat
    BY <1>1
  <2>3. CASE u = t /\ codes[u] # None
    <3>1. Racing(u)' \subseteq Handler \ {h}
      BY <1>2 DEF Racing
    <3>2. Cardinality(Handler \ {h}) = Cardinality(Handler) - 1 /\ IsFiniteSet(Handler \ {h})
      BY OneBot, FS_RemoveElement
    <3>3. Cardinality(Racing(u)') <= Cardinality(Handler) - 1
      BY <3>1, <3>2, FS_Subset
    <3>4. tried[u] <= MaxAttempts
      BY <1>1, <2>3 DEF Guesses
    <3>5. tried'[u] + Cardinality(Racing(u)') <= MaxAttempts + Cardinality(Handler) - 1
      BY <1>3, <2>1, <2>2, <3>3, <3>4
    <3>6. codes'[u] = None
      BY <1>1, <2>3
    <3>7. QED
      BY <3>5, <3>6 DEF Guesses
  <2>4. CASE ~(u = t /\ codes[u] # None)
    <3>1. codes'[u] = codes[u] /\ Guesses(u)
      BY <1>1, <2>4
    <3>2. CASE codes[u] # None
      BY <3>1, <3>2 DEF Guesses
    <3>3. CASE codes[u] = None
      <4>1. tried[u] + Cardinality(Racing(u)) <= MaxAttempts + Cardinality(Handler) - 1
        BY <3>1, <3>3 DEF Guesses
      <4>2. tried'[u] + Cardinality(Racing(u)') <= MaxAttempts + Cardinality(Handler) - 1
        BY <1>3, <2>1, <2>2, <4>1
      <4>3. QED
        BY <3>1, <3>3, <4>2 DEF Guesses
    <3>4. QED
      BY <3>2, <3>3
  <2>5. QED
    BY <2>3, <2>4
<1>5. QED
  BY <1>1, <1>4 DEF Codes

(* Too old, or guessed at too often.                                       *)
LEMMA DropCodeKeeps ==
  ASSUME IInv, UNCHANGED <<clock, pending>>, NEW h \in Handler, DropCode(h)
  PROVE  IInv'
<1>1. PICK t : t = job[h].target
  OBVIOUS
<1>2. /\ t \in Target /\ codes' = [codes EXCEPT ![t] = None] /\ h \in Process
      /\ UNCHANGED <<issued, tried, clock>>
  BY <1>1 DEF DropCode, IInv, Jobs, GoodJob, Targeted, Process
<1>3. Moves(h, Idle) /\ GoodJob(h, Idle) /\ Idle.pc # "count"
  BY <1>2, DoneMoves, IdleIsGood DEF DropCode, IInv
<1>4. Codes'
  BY <1>2, <1>3, CodeGone
<1>5. QED
  BY <1>2, <1>3, <1>4, CodeStep DEF DropCode, IInv, Accounts, LinksFine

(* Guessed: the code is used up, and the account looked for.               *)
LEMMA ConsumeCodeKeeps ==
  ASSUME IInv, UNCHANGED <<clock, pending>>, NEW h \in Handler, ConsumeCode(h)
  PROVE  IInv'
<1>1. PICK t : t = job[h].target
  OBVIOUS
<1>2. /\ t \in Target /\ codes' = [codes EXCEPT ![t] = None] /\ h \in Process
      /\ UNCHANGED <<issued, tried, clock>> /\ job[h].pc = "consume" /\ GoodJob(h, job[h])
  BY <1>1 DEF ConsumeCode, IInv, Jobs, GoodJob, Targeted, Process
<1>3. PICK j : Moves(h, j) /\ At(job[h], "find", j)
  BY <1>2, GotoMoves DEF ConsumeCode, IInv
<1>4. GoodJob(h, j) /\ j.pc # "count"
  BY <1>2, <1>3, AtGood DEF GoodJob, Targeted, Proving, Acting, Serving, Proves
<1>5. Codes'
  BY <1>2, <1>3, <1>4, CodeGone
<1>6. QED
  BY <1>2, <1>3, <1>4, <1>5, CodeStep DEF ConsumeCode, IInv, Accounts, LinksFine

(* The guess is counted, whatever code is there now, and compared with the *)
(* code that was read (service.go, IncrementAttempts).                     *)
LEMMA CountAttemptKeeps ==
  ASSUME IInv, UNCHANGED <<clock, pending>>, NEW h \in Handler, CountAttempt(h)
  PROVE  IInv'
<1>1. PICK t : t = job[h].target
  OBVIOUS
<1>2. /\ t \in Target /\ h \in Process /\ job[h].pc = "count" /\ GoodJob(h, job[h])
      /\ codes' = Counted(t) /\ UNCHANGED <<users, issued, tokens, clock>>
  BY <1>1 DEF CountAttempt, StoreCount, IInv, Jobs, GoodJob, Targeted, Process
<1>3. /\ codes \in [Target -> Code \cup {None}] /\ clock \in Nat
      /\ issued \in [Target -> Nat] /\ tried \in [Target -> Nat]
      /\ \A u \in Target : Guesses(u)
  BY DEF IInv, Codes
<1>4. PICK j : Moves(h, j) /\ GoodJob(h, j) /\ j.pc # "count"
  <2>1. CASE Done(h)
    BY <1>2, <2>1, DoneMoves, IdleIsGood DEF IInv
  <2>2. ASSUME NEW pc \in {"drop", "consume"}, Goto(h, pc)
        PROVE  \E j : Moves(h, j) /\ GoodJob(h, j) /\ j.pc # "count"
    <3>1. PICK j : Moves(h, j) /\ At(job[h], pc, j)
      BY <1>2, <2>2, GotoMoves DEF IInv
    <3>2. GoodJob(h, j) /\ j.pc # "count"
      BY <1>2, <2>2, <3>1, AtGood DEF GoodJob, Targeted, Proving, Acting, Serving, Proves
    <3>3. QED
      BY <3>1, <3>2
  <2>3. Done(h) \/ Goto(h, "drop") \/ Goto(h, "consume")
    BY <1>1 DEF CountAttempt
  <2>4. QED
    BY <2>1, <2>2, <2>3
<1>5. \A u \in Target : Racing(u)' \subseteq Racing(u) \ {h}
  BY <1>2, <1>4, RaceOfMove
<1>6. MaxAttempts \in Nat /\ Cardinality(Handler) \in Nat
  BY LimitsArePositive, OneBot, FS_CardinalityType
<1>7. \/ /\ Increment(t) > MaxAttempts /\ tried' = tried
      \/ /\ ~(Increment(t) > MaxAttempts)
         /\ tried' = IF job[h].hash = issued[t] THEN [tried EXCEPT ![t] = @ + 1] ELSE tried
  BY <1>1 DEF CountAttempt
<1>8. \A u \in Target : u # t => codes'[u] = codes[u] /\ tried'[u] = tried[u]
  BY <1>2, <1>3, <1>7 DEF Counted
<1>9. tried' \in [Target -> Nat]
  BY <1>3, <1>7
<1>10. ASSUME codes[t] = None PROVE codes' = codes /\ Guesses(t)'
  <2>1. Increment(t) = 0 /\ codes' = codes
    BY <1>2, <1>10 DEF Increment, Counted
  <2>2. tried[t] + Cardinality(Racing(t)) <= MaxAttempts + Cardinality(Handler) - 1
    BY <1>2, <1>3, <1>10 DEF Guesses
  <2>3. /\ IsFiniteSet(Racing(t)) /\ Cardinality(Racing(t)) \in Nat /\ Cardinality(Racing(t)') \in Nat
        /\ Cardinality(Racing(t)') <= Cardinality(Racing(t))
    <3>1. IsFiniteSet(Racing(t))
      BY OneBot, FS_Subset DEF Racing
    <3>2. Racing(t)' \subseteq Racing(t)
      BY <1>2, <1>5
    <3>3. QED
      BY <3>1, <3>2, FewerRacing
  <2>4. tried'[t] + Cardinality(Racing(t)') <= MaxAttempts + Cardinality(Handler) - 1
    <3>1. CASE job[h].hash = issued[t]
      <4>1. h \in Racing(t)
        BY <1>1, <1>2, <3>1 DEF Racing
      <4>2. /\ Cardinality(Racing(t) \ {h}) = Cardinality(Racing(t)) - 1
            /\ IsFiniteSet(Racing(t) \ {h})
        BY <2>3, <4>1, FS_RemoveElement
      <4>3. Cardinality(Racing(t)') <= Cardinality(Racing(t)) - 1
        BY <1>2, <1>5, <4>2, FS_Subset
      <4>4. tried'[t] = tried[t] + 1 /\ tried[t] \in Nat
        BY <1>2, <1>3, <1>6, <1>7, <2>1, <3>1
      <4>5. QED
        BY <1>6, <2>2, <2>3, <4>3, <4>4
    <3>2. CASE job[h].hash # issued[t]
      <4>1. tried'[t] = tried[t] /\ tried[t] \in Nat
        BY <1>2, <1>3, <1>7, <3>2
      <4>2. QED
        BY <1>6, <2>2, <2>3, <4>1
    <3>3. QED
      BY <3>1, <3>2
  <2>5. QED
    BY <1>10, <2>1, <2>4 DEF Guesses
<1>11. ASSUME codes[t] # None PROVE codes'[t] \in Code /\ Guesses(t)'
  <2>1. codes[t] \in Code /\ codes[t].attempts \in Nat /\ Increment(t) \in Nat
    BY <1>2, <1>3, <1>11 DEF Code, Increment
  <2>2. codes' = [codes EXCEPT ![t].attempts = Increment(t)]
    BY <1>2, <1>11 DEF Counted
  <2>3. PICK code : code = [codes[t] EXCEPT !.attempts = Increment(t)]
    OBVIOUS
  <2>4. code \in Code /\ code.attempts = Increment(t)
    BY <2>1, <2>3 DEF Code
  <2>5. codes'[t] = code /\ code # None
    BY <1>2, <1>3, <2>2, <2>3, <2>4, NoneIsNobody DEF Code
  <2>6. tried[t] <= codes[t].attempts /\ tried[t] <= MaxAttempts /\ tried[t] \in Nat
    BY <1>2, <1>3, <1>11 DEF Guesses
  <2>7. tried'[t] <= Increment(t) /\ tried'[t] <= MaxAttempts
    <3>1. codes[t].attempts <= Increment(t)
      BY <1>11, <2>1 DEF Increment
    <3>2. CASE Increment(t) > MaxAttempts
      BY <1>6, <1>7, <2>1, <2>6, <3>1, <3>2
    <3>3. CASE ~(Increment(t) > MaxAttempts)
      <4>1. Increment(t) = codes[t].attempts + 1
        BY <1>6, <1>11, <2>1, <3>3 DEF Increment
      <4>2. tried'[t] = tried[t] \/ tried'[t] = tried[t] + 1
        BY <1>3, <1>7
      <4>3. QED
        BY <1>6, <2>1, <2>6, <3>3, <4>1, <4>2
    <3>4. QED
      BY <3>2, <3>3
  <2>8. QED
    BY <2>4, <2>5, <2>7 DEF Guesses
<1>12. codes' \in [Target -> Code \cup {None}]
  <2>1. CASE codes[t] = None
    BY <1>3, <1>10, <2>1
  <2>2. CASE codes[t] # None
    <3>1. codes' = [codes EXCEPT ![t].attempts = Increment(t)]
      BY <1>2, <2>2 DEF Counted
    <3>2. QED
      BY <1>3, <1>11, <2>2, <3>1
  <2>3. QED
    BY <2>1, <2>2
<1>13. ASSUME NEW u \in Target PROVE Guesses(u)'
  <2>1. CASE u = t
    BY <1>10, <1>11, <2>1
  <2>2. CASE u # t
    <3>1. codes'[u] = codes[u] /\ tried'[u] = tried[u] /\ Guesses(u) /\ tried[u] \in Nat
      BY <1>3, <1>8, <2>2
    <3>2. /\ Cardinality(Racing(u)) \in Nat /\ Cardinality(Racing(u)') \in Nat
          /\ Cardinality(Racing(u)') <= Cardinality(Racing(u))
      BY <1>5, FewerRacing
    <3>3. QED
      BY <1>6, <3>1, <3>2 DEF Guesses
  <2>3. QED
    BY <2>1, <2>2
<1>14. Codes'
  BY <1>2, <1>3, <1>9, <1>12, <1>13 DEF Codes
<1>15. QED
  BY <1>2, <1>4, <1>14, CodeStep DEF IInv, Accounts, LinksFine

-----------------------------------------------------------------------------
(* The account of what was proven: Identities *)

(* Somebody else has seen the proof.                                       *)
LEMMA LoginWithProviderKeeps ==
  ASSUME IInv, UNCHANGED <<clock, pending>>, NEW h \in Handler, NEW t \in Target,
         LoginWithProvider(h, t)
  PROVE  IInv'
<1>1. PICK via : via = IF t.kind = "phone" THEN "firebase" ELSE "google"
  OBVIOUS
<1>2. PICK j : j = [pc |-> "find", target |-> t, by |-> t.owner, via |-> via]
  OBVIOUS
<1>3. Moves(h, j)
  BY <1>1, <1>2, WriteMoves DEF LoginWithProvider, IInv, Process
<1>4. GoodJob(h, j) /\ j.pc # "count"
  BY <1>1, <1>2, OneBot DEF GoodJob, Targeted, Proving, Acting, Serving, Proves
<1>5. QED
  BY <1>3, <1>4, OneLook DEF LoginWithProvider, IInv, Accounts, LinksFine, Process

(* Whose row is found by what.                                             *)
LEMMA OwnerOfFound ==
  ASSUME Accounts, NEW t \in Target, NEW u \in WithTarget(t)
  PROVE  /\ u \in Rows /\ Fine(u, users[u])
         /\ t.kind = "phone" => users[u].phone # None /\ Owner(users[u]) = t.owner
         /\ t.kind = "email" => users[u].email = t.owner /\ t.owner # None
         /\ t.kind = "email" /\ EmailIsIdentity(users[u]) => Owner(users[u]) = t.owner
<1>1. u \in Rows /\ users[u][t.kind] = t.owner /\ t.owner # None /\ t.kind \in {"phone", "email"}
      /\ Fine(u, users[u])
  BY NoneIsNobody DEF WithTarget, Has, Target, Accounts
<1>2. t.kind = "phone" => users[u].phone = t.owner
  BY <1>1
<1>3. t.kind = "email" => users[u].email = t.owner
  BY <1>1
<1>4. QED
  BY <1>1, <1>2, <1>3 DEF EmailIsIdentity, Fine, LegalRow, Owner

(* The row that was found, and what is done about it.                      *)
LEMMA FindAccountKeeps ==
  ASSUME IInv, UNCHANGED <<clock, pending>>, NEW h \in Process, FindAccount(h)
  PROVE  IInv'
<1>1. PICK k : k = job[h]
  OBVIOUS
<1>2. /\ k.pc = "find" /\ GoodJob(h, k) /\ Accounts /\ Jobs
      /\ UNCHANGED <<users, codes, issued, tried, tokens>>
  BY <1>1 DEF FindAccount, IInv, Jobs
<1>3. /\ "pc" \in DOMAIN k /\ {"target", "via", "by"} \subseteq DOMAIN k /\ k.target \in Target
      /\ k.via # "register" /\ k.by = k.target.owner
  BY <1>2 DEF GoodJob, Targeted, Proving, Proves
<1>4. \E j : Moves(h, j) /\ GoodJob(h, j) /\ j.pc # "count"
  <2>1. CASE WithTarget(k.target) # {}
    <3>1. PICK u : u = CHOOSE x \in WithTarget(k.target) : TRUE
      OBVIOUS
    <3>2. u \in WithTarget(k.target)
      BY <2>1, <3>1
    <3>3. PICK step : step = NextStep(k, users[u])
      OBVIOUS
    <3>4. PICK j : j = Put(k, [pc |-> step, user |-> u, deleted |-> users[u].deleted])
      OBVIOUS
    <3>5. Moves(h, j)
      BY <1>1, <1>2, <2>1, <3>1, <3>3, <3>4, WriteMoves DEF FindAccount
    <3>6. /\ {"pc", "user", "target", "via", "by"} \subseteq DOMAIN j
          /\ j.pc = step /\ j.user = u /\ j.target = k.target /\ j.via = k.via /\ j.by = k.by
      BY <1>3, <3>4 DEF Put
    <3>7. /\ u \in Rows /\ Fine(u, users[u])
          /\ k.target.kind = "phone" => users[u].phone # None /\ Owner(users[u]) = k.target.owner
          /\ k.target.kind = "email" /\ EmailIsIdentity(users[u]) => Owner(users[u]) = k.target.owner
          /\ k.target.kind \in {"phone", "email"}
      BY <1>2, <1>3, <3>2, OwnerOfFound DEF Target
    <3>8. CASE step = "release"
      <4>1. k.target.kind = "email" /\ ~EmailIsIdentity(users[u])
        BY <3>3, <3>8 DEF NextStep, AfterProof
      <4>2. Unproven(j)
        BY <3>6, <3>7, <4>1 DEF Unproven, EmailIsIdentity
      <4>3. GoodJob(h, j)
        BY <1>3, <3>6, <3>8, <4>2 DEF GoodJob, Targeted, Proving, Acting, Serving, Proves
      <4>4. QED
        BY <3>5, <3>6, <3>8, <4>3
    <3>9. CASE step # "release"
      <4>1. k.target.kind = "phone" \/ EmailIsIdentity(users[u])
        BY <3>3, <3>7, <3>9 DEF NextStep
      <4>2. Acts(j)
        BY <1>3, <3>6, <3>7, <4>1 DEF Acts, Serves, Target, Maybe
      <4>3. step \in {"clear", "restore", "link", "issue"}
        BY <3>3, <3>9 DEF NextStep, AfterProof
      <4>4. step = "clear" => (k.target.kind = "phone" <=> users[u].phone # None)
        BY <3>3, <3>7, <4>1 DEF NextStep, Verified, EmailIsIdentity, AfterProof
      <4>5. GoodJob(h, j)
        BY <1>3, <3>6, <4>2, <4>3, <4>4 DEF GoodJob, Targeted, Proving, Acting, Serving, Acts
      <4>6. QED
        BY <3>5, <3>6, <4>3, <4>5
    <3>10. QED
      BY <3>8, <3>9
  <2>2. CASE WithTarget(k.target) = {} /\ MayCreate(k)
    <3>1. PICK j : j = [k EXCEPT !.pc = "create"]
      OBVIOUS
    <3>2. Moves(h, j) /\ At(k, "create", j)
      BY <1>1, <1>2, <1>3, <2>2, <3>1, WriteMoves DEF FindAccount, At
    <3>3. GoodJob(h, j) /\ j.pc # "count"
      BY <1>3, <3>2, AtGood DEF GoodJob, Targeted, Proving, Acting, Serving, Proves
    <3>4. QED
      BY <3>2, <3>3
  <2>3. CASE WithTarget(k.target) = {} /\ ~MayCreate(k)
    <3>1. Moves(h, Idle)
      BY <1>1, <1>2, <2>3, WriteMoves DEF FindAccount
    <3>2. QED
      BY <3>1, IdleIsGood
  <2>4. QED
    BY <2>1, <2>2, <2>3
<1>5. QED
  BY <1>2, <1>4, OneLook DEF IInv, Accounts, LinksFine

(* The account is deleted, or there again: nobody's account becomes one of *)
(* another.                                                                *)
LEMMA DeletedFlagMoves ==
  ASSUME Accounts, NEW u \in Rows, NEW gone \in BOOLEAN, UpdateUser(u, [deleted |-> gone])
  PROVE  Steady
<1>1. PICK fields : fields = [deleted |-> gone]
  OBVIOUS
<1>2. users[u] \in UserRow /\ Fine(u, users[u])
  BY DEF Accounts, Rows
<1>3. PICK r \in UserRow : /\ users' = [users EXCEPT ![u] = r]
                           /\ \A f \in (Text \cup Flag) \ DOMAIN fields : r[f] = users[u][f]
  <2>1. \A f \in DOMAIN fields : f \in Flag /\ fields[f] \in BOOLEAN
    BY <1>1 DEF Flag
  <2>2. QED
    BY <1>1, <2>1, Updated
<1>4. /\ r.email = users[u].email /\ r.phone = users[u].phone
      /\ r.password = users[u].password /\ r.telegram = users[u].telegram
      /\ r.phoneVerified = users[u].phoneVerified /\ r.emailVerified = users[u].emailVerified
      /\ r.weak = users[u].weak
  BY <1>1, <1>3 DEF Text, Flag
<1>5. Fine(u, r) /\ Kept(u, users[u], r)
  BY <1>2, <1>4 DEF Fine, LegalRow, OwnPassword, Kept, Owner
<1>6. QED
  BY <1>3, <1>5, RowChanges

(* The password becomes the owner's, or anybody's in a doubtful account.   *)
LEMMA PasswordMoves ==
  ASSUME Accounts, NEW u \in Rows, NEW p \in Maybe, u \in Doubtful \/ p = Owner(users[u]),
         UpdateUser(u, [password |-> p, weak |-> FALSE])
  PROVE  Steady
<1>1. PICK fields : fields = [password |-> p, weak |-> FALSE]
  OBVIOUS
<1>2. users[u] \in UserRow /\ Fine(u, users[u])
  BY DEF Accounts, Rows
<1>3. PICK r \in UserRow : /\ users' = [users EXCEPT ![u] = r]
                           /\ \A f \in DOMAIN fields : r[f] = fields[f]
                           /\ \A f \in (Text \cup Flag) \ DOMAIN fields : r[f] = users[u][f]
  <2>1. \A f \in DOMAIN fields : \/ f \in Text /\ fields[f] \in Maybe
                                 \/ f \in Flag /\ fields[f] \in BOOLEAN
    <3>1. /\ DOMAIN fields = {"password", "weak"} /\ fields["password"] = p
          /\ fields["weak"] = FALSE
      BY <1>1
    <3>2. QED
      BY <3>1 DEF Text, Flag
  <2>2. UpdateUser(u, fields)
    BY <1>1
  <2>3. QED
    BY <2>1, <2>2, Updated
<1>4. /\ r.email = users[u].email /\ r.phone = users[u].phone
      /\ r.password = p /\ r.telegram = users[u].telegram
      /\ r.phoneVerified = users[u].phoneVerified /\ r.emailVerified = users[u].emailVerified
      /\ r.weak = FALSE
  BY <1>1, <1>3 DEF Text, Flag
<1>5. Fine(u, r) /\ Kept(u, users[u], r)
  BY <1>2, <1>4 DEF Fine, LegalRow, OwnPassword, Kept, Owner
<1>6. QED
  BY <1>3, <1>5, RowChanges

(* A request whose row is written, or whose turn it is to write it.        *)
LEMMA OwnRow ==
  ASSUME Accounts, NEW h, NEW k, GoodJob(h, k), k.pc \in Acting
  PROVE  /\ Acts(k) /\ k.user \in Rows /\ users[k.user] \in UserRow /\ Fine(k.user, users[k.user])
         /\ k.by = Owner(users[k.user])
BY DEF GoodJob, Acts, Serves, Accounts, Rows

(* The same, where the account may be doubtful.                            *)
LEMMA ServedRow ==
  ASSUME Accounts, NEW h, NEW k, GoodJob(h, k), k.pc \in Serving
  PROVE  /\ Serves(k) /\ k.user \in Rows /\ k.by \in Maybe
         /\ k.user \in Doubtful \/ k.by = Owner(users[k.user])
BY DEF GoodJob, Serves

(* An address that nobody proved is taken out of the row of another.       *)
LEMMA ReleaseEmailKeeps ==
  ASSUME IInv, UNCHANGED <<clock, pending>>, NEW h \in Process, ReleaseEmail(h)
  PROVE  IInv'
<1>1. PICK k : k = job[h]
  OBVIOUS
<1>2. /\ k.pc = "release" /\ GoodJob(h, k) /\ Accounts /\ Jobs
      /\ UNCHANGED <<codes, issued, tried, tokens, clock>> /\ LinksFine
  BY <1>1 DEF ReleaseEmail, IInv, Jobs, Accounts, LinksFine
<1>3. PICK u : u = k.user
  OBVIOUS
<1>4. /\ u \in Rows /\ users[u] \in UserRow /\ Fine(u, users[u])
      /\ users[u].phone # None /\ ~users[u].emailVerified
  BY <1>2, <1>3 DEF GoodJob, Unproven, Accounts, Rows
<1>5. PICK fields : fields = [email |-> None]
  OBVIOUS
<1>6. PICK r \in UserRow : /\ users' = [users EXCEPT ![u] = r]
                           /\ \A f \in DOMAIN fields : r[f] = fields[f]
                           /\ \A f \in (Text \cup Flag) \ DOMAIN fields : r[f] = users[u][f]
  <2>1. UpdateUser(u, fields)
    BY <1>1, <1>3, <1>5 DEF ReleaseEmail
  <2>2. \A f \in DOMAIN fields : f \in Text /\ fields[f] \in Maybe
    BY <1>5 DEF Text, Maybe
  <2>3. QED
    BY <1>2, <1>4, <2>1, <2>2, Updated
<1>7. /\ r.email = None /\ r.phone = users[u].phone /\ r.password = users[u].password
      /\ r.telegram = users[u].telegram /\ r.phoneVerified = users[u].phoneVerified
      /\ r.emailVerified = users[u].emailVerified /\ r.weak = users[u].weak
  BY <1>5, <1>6 DEF Text, Flag
<1>8. Fine(u, r) /\ Kept(u, users[u], r)
  BY <1>4, <1>7 DEF Fine, LegalRow, OwnPassword, Kept, Owner
<1>9. Steady
  BY <1>2, <1>4, <1>6, <1>8, RowChanges
<1>10. CASE MayCreate(k)
  <2>1. PICK j : Moves(h, j) /\ At(k, "create", j)
    BY <1>1, <1>2, <1>10, GotoMoves DEF ReleaseEmail
  <2>2. GoodJob(h, j)' /\ j.pc # "count"
    BY <1>2, <2>1, AtGood DEF GoodJob, Targeted, Proving, Acting, Serving, Proves
  <2>3. QED
    BY <1>2, <1>9, <2>1, <2>2, OneStep
<1>11. CASE ~MayCreate(k)
  <2>1. Moves(h, Idle)
    BY <1>1, <1>2, <1>11, DoneMoves DEF ReleaseEmail
  <2>2. GoodJob(h, Idle)' /\ Idle.pc # "count"
    BY DEF GoodJob, Idle, Targeted, Proving, Acting, Serving
  <2>3. QED
    BY <1>2, <1>9, <2>1, <2>2, OneStep
<1>12. QED
  BY <1>10, <1>11

(* The row of a new account.                                               *)
LEMMA NewRowIsLegal ==
  ASSUME NEW t \in Target, NEW verified \in BOOLEAN
  PROVE  /\ NewRow(t, verified) \in UserRow
         /\ LegalRow(NewRow(t, verified)) /\ OwnPassword(NewRow(t, verified))
         /\ Owner(NewRow(t, verified)) = t.owner
         /\ t.kind = "phone" => NewRow(t, verified).phone = t.owner
         /\ t.kind = "phone" => ~NewRow(t, verified).emailVerified
         /\ NewRow(t, verified).password = None /\ ~NewRow(t, verified).weak
         /\ NewRow(t, verified).telegram = None
<1>1. t.kind \in {"phone", "email"} /\ t.owner \in Person /\ t.owner # None
  BY NoneIsNobody DEF Target
<1>2. CASE t.kind = "phone"
  <2>1. NewRow(t, verified) =
          [phone |-> t.owner, phoneVerified |-> verified, email |-> None, emailVerified |-> FALSE,
           password |-> None, weak |-> FALSE, telegram |-> None, deleted |-> FALSE]
    <3>1. /\ (verified /\ t.kind = "phone") = verified
          /\ (verified /\ t.kind = "email") = FALSE
      BY <1>2
    <3>2. NewRow(t, verified) = [NoUser EXCEPT !.phone = t.owner, !.phoneVerified = verified,
                                               !.emailVerified = FALSE]
      BY <3>1, <1>2 DEF NewRow
    <3>3. QED
      BY <3>2 DEF NoUser
  <2>2. QED
    BY <1>1, <1>2, <2>1 DEF UserRow, LegalRow, OwnPassword, Owner, Maybe
<1>3. CASE t.kind = "email"
  <2>1. NewRow(t, verified) =
          [phone |-> None, phoneVerified |-> FALSE, email |-> t.owner, emailVerified |-> verified,
           password |-> None, weak |-> FALSE, telegram |-> None, deleted |-> FALSE]
    <3>1. /\ (verified /\ t.kind = "phone") = FALSE
          /\ (verified /\ t.kind = "email") = verified
      BY <1>3
    <3>2. NewRow(t, verified) = [NoUser EXCEPT !.email = t.owner, !.phoneVerified = FALSE,
                                               !.emailVerified = verified]
      BY <3>1, <1>3 DEF NewRow
    <3>3. QED
      BY <3>2 DEF NoUser
  <2>2. QED
    BY <1>1, <1>3, <2>1 DEF UserRow, LegalRow, OwnPassword, Owner, Maybe
<1>4. QED
  BY <1>1, <1>2, <1>3

(* The end of a goroutine's account steps with an error.                   *)
LEMMA FailMoves ==
  ASSUME IInv, NEW h \in Process, Fail(h)
  PROVE  \E j : Moves(h, j) /\ GoodJob(h, j) /\ j.pc # "count"
<1>1. PICK k : k = job[h]
  OBVIOUS
<1>2. GoodJob(h, k) /\ Jobs
  BY <1>1 DEF IInv, Jobs
<1>3. CASE h = Bot /\ k.pc \in {"find", "create", "restore", "link"}
  <2>1. PICK j : Moves(h, j) /\ At(k, "answer", j)
    BY <1>1, <1>2, <1>3, GotoMoves DEF Fail
  <2>2. GoodJob(h, j)
    BY <1>2, <1>3, <2>1, AtGood DEF GoodJob, Targeted, Proving, Acting, Serving
  <2>3. QED
    BY <1>2, <2>1, <2>2, AtGood DEF GoodJob
<1>4. CASE ~(h = Bot /\ k.pc \in {"find", "create", "restore", "link"})
  <2>1. Moves(h, Idle)
    BY <1>1, <1>2, <1>4, DoneMoves DEF Fail
  <2>2. QED
    BY <2>1, IdleIsGood
<1>5. QED
  BY <1>3, <1>4

(* The account of one who has proved what is his.                          *)
LEMMA CreateAccountKeeps ==
  ASSUME IInv, UNCHANGED <<clock, pending>>, NEW h \in Process, CreateAccount(h)
  PROVE  IInv'
<1>1. PICK k : k = job[h]
  OBVIOUS
<1>2. /\ k.pc = "create" /\ k.via # "register" /\ GoodJob(h, k) /\ Accounts /\ Jobs
      /\ UNCHANGED <<codes, issued, tried, tokens, clock>> /\ LinksFine
  BY <1>1 DEF CreateAccount, IInv, Jobs, Accounts, LinksFine
<1>3. PICK t : t = k.target
  OBVIOUS
<1>4. /\ {"target", "via", "by"} \subseteq DOMAIN k /\ t \in Target /\ k.by = t.owner
  BY <1>2, <1>3 DEF GoodJob, Targeted, Proving, Proves
<1>5. CASE Taken(t)
  <2>1. Fail(h) /\ UNCHANGED users
    BY <1>1, <1>3, <1>5 DEF CreateAccount
  <2>2. QED
    BY <1>2, <2>1, FailMoves, OneLook
<1>6. CASE ~Taken(t)
  <2>1. PICK u : u = CHOOSE x \in Fresh : TRUE
    OBVIOUS
  <2>2. PICK r : r = NewRow(t, TRUE)
    OBVIOUS
  <2>3. u \in Fresh /\ users' = [users EXCEPT ![u] = r]
    BY <1>1, <1>3, <1>6, <2>1, <2>2 DEF CreateAccount
  <2>4. r \in UserRow /\ Fine(u, r) /\ Owner(r) = t.owner
    BY <1>4, <2>2, NewRowIsLegal DEF Fine
  <2>5. Steady /\ u \in Rows' /\ users'[u] = r
    BY <1>2, <2>3, <2>4, RowAdded
  <2>6. PICK step : step = AfterProof(k)
    OBVIOUS
  <2>7. PICK j : j = Put(k, [pc |-> step, user |-> u])
    OBVIOUS
  <2>8. Moves(h, j)
    BY <1>1, <1>2, <1>3, <1>6, <2>1, <2>6, <2>7, WriteMoves DEF CreateAccount
  <2>9. /\ {"pc", "user", "target", "by"} \subseteq DOMAIN j /\ j.pc = step /\ j.user = u
        /\ j.target = t /\ j.by = t.owner
    BY <1>3, <1>4, <2>7 DEF Put
  <2>10. Acts(j)'
    BY <1>4, <2>4, <2>5, <2>9 DEF Acts, Serves, Target, Maybe
  <2>11. step \in {"link", "issue"}
    BY <2>6 DEF AfterProof
  <2>12. GoodJob(h, j)' /\ j.pc # "count"
    BY <1>4, <2>9, <2>10, <2>11 DEF GoodJob, Targeted, Proving, Acting, Serving, Acts
  <2>13. QED
    BY <1>2, <2>5, <2>8, <2>12, OneStep
<1>7. QED
  BY <1>5, <1>6

(* The account of a form, which nobody has proved anything of.             *)
LEMMA RegisterUserKeeps ==
  ASSUME IInv, UNCHANGED <<clock, pending>>, NEW h \in Process, RegisterUser(h)
  PROVE  IInv'
<1>1. PICK k : k = job[h]
  OBVIOUS
<1>2. /\ k.pc = "create" /\ k.via = "register" /\ GoodJob(h, k) /\ Accounts /\ Jobs
      /\ UNCHANGED <<codes, issued, tried, tokens, clock>> /\ LinksFine
  BY <1>1 DEF RegisterUser, IInv, Jobs, Accounts, LinksFine
<1>3. PICK t : t = k.target
  OBVIOUS
<1>4. /\ "target" \in DOMAIN k /\ t \in Target /\ k.mail \in Maybe
  BY <1>2, <1>3 DEF GoodJob, Targeted, Proving, Proves
<1>5. CASE Taken(t)
  <2>1. Done(h) /\ UNCHANGED users
    BY <1>1, <1>3, <1>5 DEF RegisterUser
  <2>2. QED
    BY <1>2, <2>1, OneEnd
<1>6. CASE ~Taken(t)
  <2>1. PICK u : u = CHOOSE x \in Fresh : TRUE
    OBVIOUS
  <2>2. PICK kept1 : kept1 = IF k.mail = None \/ Taken(Email(k.mail)) THEN None ELSE k.mail
    OBVIOUS
  <2>3. PICK r : r = IF t.kind = "email" THEN NewRow(t, FALSE)
                     ELSE [NewRow(t, FALSE) EXCEPT !.email = kept1]
    OBVIOUS
  <2>4. u \in Fresh /\ users' = [users EXCEPT ![u] = r] /\ Goto(h, "peek")
    BY <1>1, <1>3, <1>6, <2>1, <2>2, <2>3 DEF RegisterUser
  <2>5. r \in UserRow /\ Fine(u, r)
    <3>1. PICK new : new = NewRow(t, FALSE)
      OBVIOUS
    <3>2. /\ new \in UserRow /\ Fine(u, new)
          /\ t.kind = "phone" => new.phone = t.owner
          /\ t.kind = "phone" => ~new.emailVerified
      BY <1>4, <3>1, NewRowIsLegal DEF Fine
    <3>3. CASE t.kind = "email"
      BY <2>3, <3>1, <3>2, <3>3
    <3>4. CASE t.kind # "email"
      <4>1. r = [new EXCEPT !.email = kept1] /\ t.kind = "phone" /\ t.owner # None
        BY <1>4, <2>3, <3>1, <3>4, NoneIsNobody DEF Target
      <4>2. kept1 \in Maybe
        BY <1>4, <2>2 DEF Maybe
      <4>3. QED
        BY <3>2, <4>1, <4>2 DEF UserRow, Fine, LegalRow, OwnPassword, Owner
    <3>5. QED
      BY <3>3, <3>4
  <2>6. Steady
    BY <1>2, <2>4, <2>5, RowAdded
  <2>7. PICK j : Moves(h, j) /\ At(k, "peek", j)
    BY <1>1, <1>2, <2>4, GotoMoves
  <2>8. GoodJob(h, j)' /\ j.pc # "count"
    BY <1>2, <1>3, <1>4, <2>7, AtGood DEF GoodJob, Targeted, Proving, Acting, Serving
  <2>9. QED
    BY <1>2, <2>6, <2>7, <2>8, OneStep
<1>7. QED
  BY <1>5, <1>6

(* The password of whoever made the row is cleared ...                     *)
LEMMA ClearPasswordKeeps ==
  ASSUME IInv, UNCHANGED <<clock, pending>>, NEW h \in Process, ClearPassword(h)
  PROVE  IInv'
<1>1. PICK k : k = job[h]
  OBVIOUS
<1>2. /\ k.pc = "clear" /\ GoodJob(h, k) /\ Accounts /\ Jobs
      /\ UNCHANGED <<codes, issued, tried, tokens, clock>> /\ LinksFine
  BY <1>1 DEF ClearPassword, IInv, Jobs, Accounts, LinksFine
<1>3. PICK u : u = k.user
  OBVIOUS
<1>4. u \in Rows /\ users[u] \in UserRow /\ Fine(u, users[u])
  BY <1>2, <1>3, OwnRow DEF Acting
<1>5. PICK fields : fields = [password |-> None, weak |-> FALSE]
  OBVIOUS
<1>6. PICK r \in UserRow : /\ users' = [users EXCEPT ![u] = r]
                           /\ \A f \in DOMAIN fields : r[f] = fields[f]
                           /\ \A f \in (Text \cup Flag) \ DOMAIN fields : r[f] = users[u][f]
  <2>1. UpdateUser(u, fields)
    BY <1>1, <1>3, <1>5 DEF ClearPassword
  <2>2. \A f \in DOMAIN fields : \/ f \in Text /\ fields[f] \in Maybe
                                 \/ f \in Flag /\ fields[f] \in BOOLEAN
    <3>1. /\ DOMAIN fields = {"password", "weak"} /\ fields["password"] = None
          /\ fields["weak"] = FALSE
      BY <1>5
    <3>2. QED
      BY <3>1 DEF Text, Flag, Maybe
  <2>3. QED
    BY <1>2, <1>4, <2>1, <2>2, Updated
<1>7. /\ r.email = users[u].email /\ r.phone = users[u].phone /\ r.password = None
      /\ r.telegram = users[u].telegram /\ r.phoneVerified = users[u].phoneVerified
      /\ r.emailVerified = users[u].emailVerified /\ r.weak = FALSE
  BY <1>5, <1>6 DEF Text, Flag
<1>8. Fine(u, r) /\ Kept(u, users[u], r)
  BY <1>4, <1>7 DEF Fine, LegalRow, OwnPassword, Kept, Owner
<1>9. Steady /\ users'[u] = r
  BY <1>2, <1>4, <1>6, <1>8, RowChanges DEF Accounts, Rows
<1>10. PICK j : Moves(h, j) /\ At(k, "mark", j)
  BY <1>1, <1>2, GotoMoves DEF ClearPassword
<1>11. GoodJob(h, j)' /\ j.pc # "count"
  <2>1. GoodJob(h, k)'
    BY <1>2, <1>9, GoodJobStays
  <2>2. /\ {"target", "user", "by"} \subseteq DOMAIN j /\ j.target = k.target /\ j.user = k.user
        /\ j.by = k.by /\ j.pc = "mark" /\ "pc" \in DOMAIN j
    BY <1>2, <1>10, OwnRow, AtGood DEF GoodJob, Targeted, Acting, Serving, Serves, Acts
  <2>3. users'[j.user].password = None
    BY <1>3, <1>7, <1>9, <2>2
  <2>4. QED
    BY <1>2, <2>1, <2>2, <2>3 DEF GoodJob, Targeted, Proving, Acting, Serving, Serves, Acts
<1>12. QED
  BY <1>2, <1>9, <1>10, <1>11, OneStep

(* ... and only then the row is marked: it has no password, or its owner's.*)
LEMMA MarkVerifiedKeeps ==
  ASSUME IInv, UNCHANGED <<clock, pending>>, NEW h \in Process, MarkVerified(h)
  PROVE  IInv'
<1>1. PICK k : k = job[h]
  OBVIOUS
<1>2. /\ k.pc = "mark" /\ GoodJob(h, k) /\ Accounts /\ Jobs
      /\ UNCHANGED <<codes, issued, tried, tokens, clock>> /\ LinksFine
  BY <1>1 DEF MarkVerified, IInv, Jobs, Accounts, LinksFine
<1>3. PICK u : u = k.user
  OBVIOUS
<1>4. /\ u \in Rows /\ users[u] \in UserRow /\ Fine(u, users[u])
      /\ u \in Doubtful \/ users[u].password \in {None, Owner(users[u])}
      /\ k.target.kind = "phone" <=> users[u].phone # None
  BY <1>2, <1>3, OwnRow DEF Acting, GoodJob
<1>5. PICK fields : fields = IF k.target.kind = "phone" THEN [phoneVerified |-> TRUE]
                             ELSE [emailVerified |-> TRUE]
  OBVIOUS
<1>6. PICK r \in UserRow : /\ users' = [users EXCEPT ![u] = r]
                           /\ \A f \in DOMAIN fields : r[f] = fields[f]
                           /\ \A f \in (Text \cup Flag) \ DOMAIN fields : r[f] = users[u][f]
  <2>1. UpdateUser(u, fields)
    BY <1>1, <1>3, <1>5 DEF MarkVerified
  <2>2. \A f \in DOMAIN fields : f \in Flag /\ fields[f] \in BOOLEAN
    <3>1. CASE k.target.kind = "phone"
      <4>1. fields = [phoneVerified |-> TRUE]
        BY <1>5, <3>1
      <4>2. DOMAIN fields = {"phoneVerified"} /\ fields["phoneVerified"] = TRUE
        BY <4>1
      <4>3. QED
        BY <4>2 DEF Flag
    <3>2. CASE k.target.kind # "phone"
      <4>1. fields = [emailVerified |-> TRUE]
        BY <1>5, <3>2
      <4>2. DOMAIN fields = {"emailVerified"} /\ fields["emailVerified"] = TRUE
        BY <4>1
      <4>3. QED
        BY <4>2 DEF Flag
    <3>3. QED
      BY <3>1, <3>2
  <2>3. QED
    BY <1>2, <1>4, <2>1, <2>2, Updated
<1>7. /\ r.email = users[u].email /\ r.phone = users[u].phone
      /\ r.password = users[u].password /\ r.telegram = users[u].telegram
      /\ r.weak = users[u].weak
  BY <1>5, <1>6 DEF Text, Flag
<1>8. Fine(u, r) /\ Kept(u, users[u], r)
  <2>1. CASE k.target.kind = "phone"
    <3>1. r.phoneVerified = TRUE /\ r.emailVerified = users[u].emailVerified
      BY <1>5, <1>6, <2>1 DEF Flag
    <3>2. QED
      BY <1>4, <1>7, <2>1, <3>1 DEF Fine, LegalRow, OwnPassword, Kept, Owner
  <2>2. CASE k.target.kind # "phone"
    <3>1. r.phoneVerified = users[u].phoneVerified /\ r.emailVerified = TRUE
      BY <1>5, <1>6, <2>2 DEF Flag
    <3>2. QED
      BY <1>4, <1>7, <2>2, <3>1 DEF Fine, LegalRow, OwnPassword, Kept, Owner
  <2>3. QED
    BY <2>1, <2>2
<1>9. Steady
  BY <1>2, <1>4, <1>6, <1>8, RowChanges
<1>10. PICK step \in {"restore", "issue"} : Goto(h, step)
  BY <1>1 DEF MarkVerified
<1>11. PICK j : Moves(h, j) /\ At(k, step, j)
  BY <1>1, <1>2, <1>10, GotoMoves
<1>12. GoodJob(h, j)' /\ j.pc # "count"
  <2>1. GoodJob(h, k)'
    BY <1>2, <1>9, GoodJobStays
  <2>2. QED
    BY <1>2, <1>10, <1>11, <2>1, AtGood DEF GoodJob, Targeted, Proving, Acting, Serving, Serves, Acts
<1>13. QED
  BY <1>2, <1>9, <1>11, <1>12, OneStep

(* The account of one who has proved what is his is there again.           *)
LEMMA ReactivateKeeps ==
  ASSUME IInv, UNCHANGED <<clock, pending>>, NEW h \in Process, Reactivate(h)
  PROVE  IInv'
<1>1. PICK k : k = job[h]
  OBVIOUS
<1>2. /\ k.pc = "restore" /\ GoodJob(h, k) /\ Accounts /\ Jobs
      /\ UNCHANGED <<codes, issued, tried, tokens, clock>> /\ LinksFine
  BY <1>1 DEF Reactivate, IInv, Jobs, Accounts, LinksFine
<1>3. PICK u : u = k.user
  OBVIOUS
<1>4. u \in Rows /\ users[u] \in UserRow /\ Fine(u, users[u])
  BY <1>2, <1>3, OwnRow DEF Acting
<1>5. Steady
  BY <1>1, <1>2, <1>3, <1>4, DeletedFlagMoves DEF Reactivate
<1>6. PICK step \in {"link", "issue"} : Goto(h, step)
  BY <1>1 DEF Reactivate, AfterProof
<1>7. PICK j : Moves(h, j) /\ At(k, step, j)
  BY <1>1, <1>2, <1>6, GotoMoves
<1>8. GoodJob(h, j)' /\ j.pc # "count"
  <2>1. GoodJob(h, k)'
    BY <1>2, <1>5, GoodJobStays
  <2>2. QED
    BY <1>2, <1>6, <1>7, <2>1, AtGood DEF GoodJob, Targeted, Proving, Acting, Serving, Serves, Acts
<1>9. QED
  BY <1>2, <1>5, <1>7, <1>8, OneStep

(* An unfinished registration is taken over.                               *)
LEMMA UpdateProfileKeeps ==
  ASSUME IInv, UNCHANGED <<clock, pending>>, NEW h \in Process, UpdateProfile(h)
  PROVE  IInv'
<1>1. PICK k : k = job[h]
  OBVIOUS
<1>2. /\ k.pc = "update" /\ GoodJob(h, k) /\ Accounts /\ Jobs
      /\ UNCHANGED <<codes, issued, tried, tokens, clock>> /\ LinksFine
  BY <1>1 DEF UpdateProfile, IInv, Jobs, Accounts, LinksFine
<1>3. PICK u : u = k.user
  OBVIOUS
<1>4. /\ u \in Rows /\ users[u] \in UserRow /\ Fine(u, users[u])
      /\ users[u].phone # None /\ ~users[u].emailVerified /\ k.mail \in Person
  BY <1>2, <1>3 DEF GoodJob, Unproven, Accounts, Rows
<1>5. PICK fields : fields = [email |-> k.mail]
  OBVIOUS
<1>6. Steady
  <2>1. CASE UNCHANGED users
    BY <1>2, <2>1, Unwritten
  <2>2. CASE UpdateUser(u, fields)
    <3>1. \A f \in DOMAIN fields : f \in Text /\ fields[f] \in Maybe
      BY <1>4, <1>5 DEF Text, Maybe
    <3>2. PICK r \in UserRow : /\ users' = [users EXCEPT ![u] = r]
                               /\ \A f \in DOMAIN fields : r[f] = fields[f]
                               /\ \A f \in (Text \cup Flag) \ DOMAIN fields : r[f] = users[u][f]
      BY <1>2, <1>4, <2>2, <3>1, Updated
    <3>3. /\ r.phone = users[u].phone /\ r.password = users[u].password
          /\ r.telegram = users[u].telegram /\ r.phoneVerified = users[u].phoneVerified
          /\ r.emailVerified = users[u].emailVerified /\ r.weak = users[u].weak
      BY <1>5, <3>2 DEF Text, Flag
    <3>4. Fine(u, r) /\ Kept(u, users[u], r)
      BY <1>4, <3>3 DEF Fine, LegalRow, OwnPassword, Kept, Owner
    <3>5. QED
      BY <1>2, <1>4, <3>2, <3>4, RowChanges
  <2>3. UpdateUser(u, fields) \/ UNCHANGED users
    BY <1>1, <1>3, <1>5 DEF UpdateProfile, Email
  <2>4. QED
    BY <2>1, <2>2, <2>3
<1>7. PICK j : Moves(h, j) /\ At(k, "peek", j)
  BY <1>1, <1>2, GotoMoves DEF UpdateProfile
<1>8. GoodJob(h, j)' /\ j.pc # "count"
  BY <1>2, <1>7, AtGood DEF GoodJob, Targeted, Proving, Acting, Serving
<1>9. QED
  BY <1>2, <1>6, <1>7, <1>8, OneStep

(* The token is given to the one the goroutine acts for.                   *)
LEMMA IssueTokenKeeps ==
  ASSUME IInv, UNCHANGED <<clock, pending>>, NEW h \in Process, IssueToken(h)
  PROVE  IInv'
<1>1. PICK k : k = job[h]
  OBVIOUS
<1>2. /\ k.pc = "issue" /\ GoodJob(h, k) /\ Accounts /\ Jobs /\ Codes /\ Done(h)
      /\ UNCHANGED <<users, codes, issued, tried, clock, pending>>
  BY <1>1 DEF IssueToken, IInv, Jobs, Accounts
<1>3. Moves(h, Idle)
  BY <1>2, DoneMoves
<1>4. Codes'
  BY <1>2, <1>3, IdleIsGood, CodesOfMove
<1>5. Jobs'
  <2> SUFFICES ASSUME NEW g \in Process PROVE GoodJob(g, job[g])'
    BY <1>3 DEF Jobs, Moves
  <2>1. PICK j : j = job'[g]
    OBVIOUS
  <2>2. GoodJob(g, j)
    BY <1>2, <1>3, <2>1, IdleIsGood DEF Moves, Jobs
  <2>3. GoodJob(g, j)'
    BY <1>2, <2>2, Unwritten, GoodJobStays
  <2>4. QED
    BY <2>1, <2>3
<1>6. Accounts'
  <2>1. Serves(k)
    BY <1>2, ServedRow DEF Serving
  <2>2. \A token \in tokens' : token \in tokens \/ (token.user = k.user /\ token.holder = k.by)
    BY <1>1 DEF IssueToken
  <2>3. \A token \in tokens' : Held(token)
    BY <1>2, <2>1, <2>2 DEF Accounts, Serves, Held
  <2>4. QED
    BY <1>2, <2>3 DEF Accounts, Held, Rows
<1>7. QED
  BY <1>4, <1>5, <1>6 DEF IInv

(* A form: whose the address is, it does not say.                          *)
LEMMA RegisterKeeps ==
  ASSUME IInv, UNCHANGED <<clock, pending>>, NEW h \in Process, NEW t \in Target,
         NEW mail \in Maybe, Register(h, t, mail)
  PROVE  IInv'
<1>1. Accounts /\ Jobs /\ UNCHANGED <<users, codes, issued, tried, tokens, clock>> /\ LinksFine
  BY DEF Register, IInv, Accounts, LinksFine
<1>2. PICK request : request = [target |-> t, via |-> "register", mail |-> mail]
  OBVIOUS
<1>3. \E j : Moves(h, j) /\ GoodJob(h, j) /\ j.pc # "count"
  <2>1. CASE WithTarget(t) = {}
    <3>1. PICK j : j = Put(request, [pc |-> "create"])
      OBVIOUS
    <3>2. Moves(h, j)
      BY <1>1, <1>2, <2>1, <3>1, WriteMoves DEF Register
    <3>3. /\ {"pc", "target", "via", "mail"} \subseteq DOMAIN j /\ j.pc = "create"
          /\ j.target = t /\ j.via = "register" /\ j.mail = mail
      BY <1>2, <3>1 DEF Put
    <3>4. GoodJob(h, j)
      BY <3>3 DEF GoodJob, Targeted, Proving, Acting, Serving, Proves
    <3>5. QED
      BY <3>2, <3>3, <3>4
  <2>2. CASE WithTarget(t) # {}
    <3>1. PICK u : u = CHOOSE x \in WithTarget(t) : TRUE
      OBVIOUS
    <3>2. u \in WithTarget(t)
      BY <2>2, <3>1
    <3>3. PICK step : step = IF t.kind = "email" /\ ~EmailIsIdentity(users[u]) THEN "release"
                             ELSE IF t.kind = "phone" /\ ~users[u].phoneVerified /\ mail # None
                             THEN "update" ELSE "peek"
      OBVIOUS
    <3>4. PICK j : j = Put(request, [user |-> u, pc |-> step])
      OBVIOUS
    <3>5. Moves(h, j)
      BY <1>1, <1>2, <2>2, <3>1, <3>3, <3>4, WriteMoves DEF Register
    <3>6. /\ {"pc", "user", "target", "via", "mail"} \subseteq DOMAIN j /\ j.pc = step
          /\ j.user = u /\ j.target = t /\ j.via = "register" /\ j.mail = mail
      BY <1>2, <3>4 DEF Put
    <3>7. step # "peek" => Unproven(j)
      <4>1. /\ u \in Rows /\ Fine(u, users[u])
            /\ t.kind = "phone" => users[u].phone # None
        BY <1>1, <3>2, OwnerOfFound
      <4>2. QED
        BY <3>3, <3>6, <4>1 DEF Unproven, EmailIsIdentity, Fine, LegalRow
    <3>8. step = "update" => mail \in Person
      BY <3>3 DEF Maybe
    <3>9. step \in {"release", "update", "peek"}
      BY <3>3
    <3>10. GoodJob(h, j)
      BY <3>6, <3>7, <3>8, <3>9 DEF GoodJob, Targeted, Proving, Acting, Serving, Proves
    <3>11. QED
      BY <3>5, <3>6, <3>9, <3>10
  <2>3. QED
    BY <2>1, <2>2
<1>4. QED
  BY <1>1, <1>3, OneLook

(* Every step of an account, of a request or of the bot.                   *)
LEMMA IdStepKeeps ==
  ASSUME IInv, UNCHANGED <<clock, pending>>, NEW h \in Handler, IdStep(h)
  PROVE  IInv'
<1>1. h \in Process
  BY DEF Process
<1>2. ASSUME NEW t \in Target,
             \/ RequestCode(h, t) \/ LoginWithProvider(h, t) \/ Register(h, t, None)
             \/ BeginVerify(h, t, 0) \/ BeginVerify(h, t, codes[t].number)
      PROVE  IInv'
  <2>1. None \in Maybe
    BY DEF Maybe
  <2>2. PICK typed : typed = codes[t].number
    OBVIOUS
  <2>3. BeginVerify(h, t, typed) => IInv'
    BY BeginVerifyKeeps
  <2>4. QED
    BY <1>1, <1>2, <2>1, <2>2, <2>3, RequestCodeKeeps, LoginWithProviderKeeps, RegisterKeeps,
       BeginVerifyKeeps
<1>3. ASSUME NEW p \in Person, NEW mail \in Person, Register(h, Phone(p), mail)
      PROVE  IInv'
  <2>1. Phone(p) \in Target /\ mail \in Maybe
    BY DEF Phone, Target, Maybe
  <2>2. QED
    BY <1>1, <1>3, <2>1, RegisterKeeps
<1>4. CASE CodeAfterRegister(h)
  BY <1>4, CodeAfterRegisterKeeps
<1>5. CASE IssueCode(h)
  BY <1>5, IssueCodeKeeps
<1>6. CASE CountAttempt(h)
  BY <1>6, CountAttemptKeeps
<1>7. CASE DropCode(h)
  BY <1>7, DropCodeKeeps
<1>8. CASE ConsumeCode(h)
  BY <1>8, ConsumeCodeKeeps
<1>9. CASE FindAccount(h)
  BY <1>1, <1>9, FindAccountKeeps
<1>10. CASE ReleaseEmail(h)
  BY <1>1, <1>10, ReleaseEmailKeeps
<1>11. CASE CreateAccount(h)
  BY <1>1, <1>11, CreateAccountKeeps
<1>12. CASE ClearPassword(h)
  BY <1>1, <1>12, ClearPasswordKeeps
<1>13. CASE MarkVerified(h)
  BY <1>1, <1>13, MarkVerifiedKeeps
<1>14. CASE Reactivate(h)
  BY <1>1, <1>14, ReactivateKeeps
<1>15. CASE IssueToken(h)
  BY <1>1, <1>15, IssueTokenKeeps
<1>16. CASE RegisterUser(h)
  BY <1>1, <1>16, RegisterUserKeeps
<1>17. CASE UpdateProfile(h)
  BY <1>1, <1>17, UpdateProfileKeeps
<1>18. QED
  BY <1>2, <1>3, <1>4, <1>5, <1>6, <1>7, <1>8, <1>9, <1>10, <1>11, <1>12, <1>13, <1>14, <1>15,
     <1>16, <1>17 DEF IdStep

(* The bot finds, creates and restores accounts, and does nothing else.    *)
LEMMA BotStepKeeps ==
  ASSUME IInv, UNCHANGED <<clock, pending>>, BotStep
  PROVE  IInv'
<1>1. Bot \in Process
  BY DEF Process
<1>2. job[Bot].pc \in {"find", "create", "restore"} /\ IdStep(Bot)
  BY DEF BotStep
<1>3. FindAccount(Bot) \/ CreateAccount(Bot) \/ RegisterUser(Bot) \/ Reactivate(Bot)
  BY <1>2 DEF IdStep, RequestCode, LoginWithProvider, Register, BeginVerify, CodeAfterRegister,
       IssueCode, CountAttempt, DropCode, ConsumeCode, ReleaseEmail, ClearPassword, MarkVerified,
       IssueToken, UpdateProfile
<1>4. QED
  BY <1>1, <1>3, FindAccountKeeps, CreateAccountKeeps, RegisterUserKeeps, ReactivateKeeps

-----------------------------------------------------------------------------
(* Passwords and sessions: Sessions *)

(* Whose password is typed: the row must be verified for it to count, or   *)
(* its hash outdated; either way it is the owner's, or the account doubtful*)
LEMMA LoginWithPasswordKeeps ==
  ASSUME IInv, UNCHANGED <<clock, pending>>, NEW h \in Handler, NEW t \in Target, NEW p \in Person,
         LoginWithPassword(h, t, p)
  PROVE  IInv'
<1>1. /\ Accounts /\ Jobs /\ UNCHANGED <<users, codes, issued, tried, tokens, clock>> /\ LinksFine
      /\ h \in Process /\ h # Bot
  BY OneBot DEF LoginWithPassword, IInv, Accounts, LinksFine, Process
<1>2. PICK u \in WithTarget(t), refused \in BOOLEAN :
         /\ refused = (\/ users[u].deleted
                       \/ users[u].phone # None /\ ~users[u].phoneVerified
                       \/ users[u].phone = None /\ ~users[u].emailVerified)
         /\ users[u].password = p
         /\ users[u].weak \/ ~refused
         /\ job' = [job EXCEPT ![h] = [pc |-> IF users[u].weak THEN "rehash" ELSE "issue",
                      user |-> u, by |-> p, via |-> "password", refused |-> refused]]
  BY DEF LoginWithPassword
<1>3. u \in Rows /\ Fine(u, users[u]) /\ p # None
  BY <1>1, OwnerOfFound, NoneIsNobody
<1>4. u \in Doubtful \/ p = Owner(users[u])
  <2>1. CASE users[u].weak
    BY <1>2, <1>3, <2>1 DEF Fine, LegalRow, OwnPassword
  <2>2. CASE ~users[u].weak
    BY <1>2, <1>3, <2>2 DEF Fine, LegalRow, OwnPassword
  <2>3. QED
    BY <2>1, <2>2
<1>5. PICK j : j = [pc |-> IF users[u].weak THEN "rehash" ELSE "issue",
                    user |-> u, by |-> p, via |-> "password", refused |-> refused]
  OBVIOUS
<1>6. Moves(h, j)
  BY <1>1, <1>2, <1>5, WriteMoves
<1>7. /\ {"pc", "user", "by"} \subseteq DOMAIN j /\ j.pc \in {"rehash", "issue"}
      /\ j.user = u /\ j.by = p
  BY <1>5
<1>8. Serves(j)
  BY <1>3, <1>4, <1>7 DEF Serves, Maybe
<1>9. GoodJob(h, j) /\ j.pc # "count"
  BY <1>1, <1>7, <1>8 DEF GoodJob, Targeted, Proving, Acting, Serving
<1>10. QED
  BY <1>1, <1>6, <1>9, OneLook

(* The new hash is of the owner's password, whatever the row is now, if the*)
(* account is not doubtful.                                                *)
LEMMA RehashKeeps ==
  ASSUME IInv, UNCHANGED <<clock, pending>>, NEW h \in Handler, Rehash(h)
  PROVE  IInv'
<1>1. PICK k : k = job[h]
  OBVIOUS
<1>2. /\ k.pc = "rehash" /\ GoodJob(h, k) /\ Accounts /\ Jobs /\ h \in Process
      /\ UNCHANGED <<codes, issued, tried, tokens, clock>> /\ LinksFine
  BY <1>1 DEF Rehash, IInv, Jobs, Accounts, LinksFine, Process
<1>3. /\ Serves(k) /\ k.user \in Rows /\ k.by \in Maybe
      /\ k.user \in Doubtful \/ k.by = Owner(users[k.user])
  BY <1>2, ServedRow DEF Serving
<1>4. Steady
  BY <1>1, <1>2, <1>3, PasswordMoves DEF Rehash
<1>5. CASE Done(h)
  <2>1. Moves(h, Idle)
    BY <1>2, <1>5, DoneMoves
  <2>2. GoodJob(h, Idle)' /\ Idle.pc # "count"
    BY DEF GoodJob, Idle, Targeted, Proving, Acting, Serving
  <2>3. QED
    BY <1>2, <1>4, <2>1, <2>2, OneStep
<1>6. CASE Goto(h, "issue")
  <2>1. PICK j : Moves(h, j) /\ At(k, "issue", j)
    BY <1>1, <1>2, <1>6, GotoMoves
  <2>2. GoodJob(h, j)' /\ j.pc # "count"
    <3>1. GoodJob(h, k)'
      BY <1>2, <1>4, GoodJobStays
    <3>2. QED
      BY <1>2, <2>1, <3>1, AtGood DEF GoodJob, Targeted, Proving, Acting, Serving, Serves, Acts
  <2>3. QED
    BY <1>2, <1>4, <2>1, <2>2, OneStep
<1>7. QED
  BY <1>5, <1>6 DEF Rehash

(* What a session may begin, it begins for its holder.                     *)
LEMMA BeginChangeKeeps ==
  ASSUME IInv, UNCHANGED <<clock, pending>>, NEW h \in Handler, NEW token \in tokens,
         NEW pc \in {"password", "delete"}, BeginChange(h, token, pc)
  PROVE  IInv'
<1>1. /\ Accounts /\ Jobs /\ UNCHANGED <<users, codes, issued, tried, tokens, clock>> /\ LinksFine
      /\ h \in Process /\ h # Bot
  BY OneBot DEF BeginChange, IInv, Accounts, LinksFine, Process
<1>2. PICK j : j = [pc |-> pc, user |-> token.user, by |-> token.holder, via |-> "password"]
  OBVIOUS
<1>3. Moves(h, j)
  BY <1>1, <1>2, WriteMoves DEF BeginChange
<1>4. Serves(j)
  BY <1>1, <1>2 DEF Serves, Held, Accounts
<1>5. GoodJob(h, j) /\ j.pc # "count"
  BY <1>1, <1>2, <1>4 DEF GoodJob, Targeted, Proving, Acting, Serving
<1>6. QED
  BY <1>1, <1>3, <1>5, OneLook

(* The owner's new password.                                               *)
LEMMA SetPasswordHashKeeps ==
  ASSUME IInv, UNCHANGED <<clock, pending>>, NEW h \in Handler, SetPasswordHash(h)
  PROVE  IInv'
<1>1. PICK k : k = job[h]
  OBVIOUS
<1>2. /\ k.pc = "password" /\ GoodJob(h, k) /\ Accounts /\ Jobs /\ h \in Process /\ h # Bot
      /\ UNCHANGED <<codes, issued, tried, tokens, clock>> /\ LinksFine
  BY <1>1, OneBot DEF SetPasswordHash, IInv, Jobs, Accounts, LinksFine, Process
<1>3. /\ Serves(k) /\ k.user \in Rows /\ k.by \in Maybe
      /\ k.user \in Doubtful \/ k.by = Owner(users[k.user])
  BY <1>2, ServedRow DEF Serving
<1>4. Steady
  BY <1>1, <1>2, <1>3, PasswordMoves DEF SetPasswordHash
<1>5. PICK j : j = Put(k, [pc |-> "revoke", at |-> clock, end |-> "issue"])
  OBVIOUS
<1>6. Moves(h, j)
  BY <1>1, <1>2, <1>5, WriteMoves DEF SetPasswordHash
<1>7. /\ {"pc", "user", "by", "end"} \subseteq DOMAIN j /\ j.pc = "revoke" /\ j.end = "issue"
      /\ j.user = k.user /\ j.by = k.by
  BY <1>3, <1>5 DEF Put, Serves
<1>8. GoodJob(h, j)' /\ j.pc # "count"
  <2>1. GoodJob(h, k)'
    BY <1>2, <1>4, GoodJobStays
  <2>2. QED
    BY <1>2, <1>7, <2>1 DEF GoodJob, Targeted, Proving, Acting, Serving, Serves, Acts
<1>9. QED
  BY <1>2, <1>4, <1>6, <1>8, OneStep

(* The account is marked as deleted.                                       *)
LEMMA SoftDeleteKeeps ==
  ASSUME IInv, UNCHANGED <<clock, pending>>, NEW h \in Handler, SoftDelete(h)
  PROVE  IInv'
<1>1. PICK k : k = job[h]
  OBVIOUS
<1>2. /\ k.pc = "delete" /\ GoodJob(h, k) /\ Accounts /\ Jobs /\ h \in Process /\ h # Bot
      /\ UNCHANGED <<codes, issued, tried, tokens, clock>> /\ LinksFine
  BY <1>1, OneBot DEF SoftDelete, IInv, Jobs, Accounts, LinksFine, Process
<1>3. k.user \in Rows
  BY <1>2, ServedRow DEF Serving
<1>4. Steady
  BY <1>1, <1>2, <1>3, DeletedFlagMoves DEF SoftDelete
<1>5. PICK j : j = Put(k, [pc |-> "revoke", at |-> clock, end |-> "idle"])
  OBVIOUS
<1>6. Moves(h, j)
  BY <1>1, <1>2, <1>5, WriteMoves DEF SoftDelete
<1>7. {"pc", "end"} \subseteq DOMAIN j /\ j.pc = "revoke" /\ j.end = "idle"
  BY <1>5 DEF Put
<1>8. GoodJob(h, j)' /\ j.pc # "count"
  BY <1>2, <1>7 DEF GoodJob, Targeted, Proving, Acting, Serving
<1>9. QED
  BY <1>2, <1>4, <1>6, <1>8, OneStep

(* The end of a session.                                                   *)
LEMMA LogoutKeeps ==
  ASSUME IInv, UNCHANGED <<clock, pending>>, NEW h \in Handler, NEW token \in tokens,
         Logout(h, token)
  PROVE  IInv'
<1>1. /\ Accounts /\ Jobs /\ UNCHANGED <<users, codes, issued, tried, tokens, clock>> /\ LinksFine
      /\ h \in Process /\ h # Bot
  BY OneBot DEF Logout, IInv, Accounts, LinksFine, Process
<1>2. PICK j : j = [pc |-> "revoke", user |-> token.user, at |-> clock, end |-> "idle"]
  OBVIOUS
<1>3. Moves(h, j)
  BY <1>1, <1>2, WriteMoves DEF Logout
<1>4. GoodJob(h, j) /\ j.pc # "count"
  BY <1>1, <1>2 DEF GoodJob, Targeted, Proving, Acting, Serving
<1>5. QED
  BY <1>1, <1>3, <1>4, OneLook

(* The mark is written, then kept.                                         *)
LEMMA MarksKeep ==
  ASSUME IInv, UNCHANGED <<clock, pending>>, NEW h \in Handler, Revoke(h) \/ KeepMark(h)
  PROVE  IInv'
<1>1. PICK k : k = job[h]
  OBVIOUS
<1>2. /\ k.pc \in {"revoke", "keep"} /\ GoodJob(h, k) /\ Accounts /\ Jobs /\ h \in Process /\ h # Bot
      /\ UNCHANGED <<users, codes, issued, tried, tokens, clock>> /\ LinksFine
  BY <1>1, OneBot DEF Revoke, KeepMark, IInv, Jobs, Accounts, LinksFine, Process
<1>3. CASE Done(h)
  BY <1>2, <1>3, OneEnd
<1>4. ASSUME NEW pc \in {"keep", "issue"}, Goto(h, pc), pc = "issue" => k.end = "issue"
      PROVE  IInv'
  <2>1. PICK j : Moves(h, j) /\ At(k, pc, j)
    BY <1>1, <1>2, <1>4, GotoMoves
  <2>2. GoodJob(h, j) /\ j.pc # "count"
    BY <1>2, <1>4, <2>1, AtGood DEF GoodJob, Targeted, Proving, Acting, Serving, Serves, Acts
  <2>3. QED
    BY <1>2, <2>1, <2>2, OneLook
<1>5. Done(h) \/ Goto(h, "keep") \/ (k.end = "issue" /\ Goto(h, "issue"))
  <2>1. k.end \in {"idle", "issue"}
    BY <1>2 DEF GoodJob
  <2>2. QED
    BY <1>1, <2>1 DEF Revoke, KeepMark
<1>6. QED
  BY <1>3, <1>4, <1>5

(* Every step of a password or of a session.                               *)
LEMMA SessionStepKeeps ==
  ASSUME IInv, UNCHANGED <<clock, pending>>, NEW h \in Handler, SessionStep(h)
  PROVE  IInv'
<1>1. CASE \E t \in Target, p \in Person : LoginWithPassword(h, t, p)
  BY <1>1, LoginWithPasswordKeeps
<1>2. CASE \E token \in tokens : \/ BeginChange(h, token, "password") \/ BeginChange(h, token, "delete")
                                 \/ Logout(h, token)
  BY <1>2, BeginChangeKeeps, LogoutKeeps
<1>3. CASE Rehash(h)
  BY <1>3, RehashKeeps
<1>4. CASE SetPasswordHash(h)
  BY <1>4, SetPasswordHashKeeps
<1>5. CASE SoftDelete(h)
  BY <1>5, SoftDeleteKeeps
<1>6. CASE Revoke(h) \/ KeepMark(h)
  BY <1>6, MarksKeep
<1>7. QED
  BY <1>1, <1>2, <1>3, <1>4, <1>5, <1>6 DEF SessionStep

-----------------------------------------------------------------------------
(* The bot: TelegramLogin *)

(* Nobody moves: a link is opened, found or forgotten, or a second passes. *)
LEMMA NobodyMoves ==
  ASSUME IInv, UNCHANGED <<users, codes, issued, tried, tokens, job>>, clock' \in Nat, LinksFine
  PROVE  IInv'
<1>1. Accounts /\ Jobs /\ Codes
  BY DEF IInv
<1>2. Codes'
  <2>1. \A t \in Target : Racing(t)' \subseteq Racing(t)
    BY DEF Racing
  <2>2. QED
    BY <1>1, <2>1, CodesRest
<1>3. Jobs'
  <2> SUFFICES ASSUME NEW g \in Process PROVE GoodJob(g, job[g])'
    BY <1>1 DEF Jobs
  <2>1. PICK j : j = job'[g]
    OBVIOUS
  <2>2. GoodJob(g, j)
    BY <1>1, <2>1 DEF Jobs
  <2>3. GoodJob(g, j)'
    BY <1>1, <2>2, Unwritten, GoodJobStays
  <2>4. QED
    BY <2>1, <2>3
<1>4. Accounts'
  BY <1>1 DEF Accounts, LinksFine, Held, Rows
<1>5. QED
  BY <1>2, <1>3, <1>4 DEF IInv

(* A link that is forgotten.                                               *)
LEMMA DroppedLink ==
  ASSUME Accounts, NEW l, DropLink(l)
  PROVE  LinksFine
BY DEF DropLink, LinksFine, Accounts

(* A link is opened, bound to a chat, or too old.                          *)
LEMMA LinkKeeps ==
  ASSUME IInv, UNCHANGED clock,
         \/ \E p \in Person, asked \in Person \cup {None} : StartLink(p, asked)
         \/ \E l \in Link : ExpireLink(l) \/ BindChat(l)
  PROVE  IInv'
<1>1. Accounts /\ clock' \in Nat /\ pending \in [Link -> LinkRow \cup {None}]
  BY DEF IInv, Codes, Accounts
<1>2. CASE \E p \in Person, asked \in Person \cup {None} : StartLink(p, asked)
  <2>1. PICK p \in Person, asked \in Person \cup {None} : StartLink(p, asked)
    BY <1>2
  <2>2. PICK row : row = [by |-> p, asked |-> asked, bound |-> FALSE, done |-> FALSE]
    OBVIOUS
  <2>3. row \in LinkRow
    BY <2>2 DEF LinkRow
  <2>4. LinksFine
    BY <1>1, <2>1, <2>2, <2>3 DEF StartLink, LinksFine
  <2>5. QED
    BY <1>1, <2>1, <2>4, NobodyMoves DEF StartLink
<1>3. CASE \E l \in Link : ExpireLink(l)
  BY <1>1, <1>3, DroppedLink, NobodyMoves DEF ExpireLink
<1>4. CASE \E l \in Link : BindChat(l)
  <2>1. PICK l \in Link : BindChat(l)
    BY <1>4
  <2>2. PICK row : row = [pending[l] EXCEPT !.bound = TRUE]
    OBVIOUS
  <2>3. pending[l] \in LinkRow
    BY <1>1, <2>1 DEF BindChat
  <2>4. row \in LinkRow
    BY <2>2, <2>3 DEF LinkRow
  <2>5. LinksFine
    BY <1>1, <2>1, <2>2, <2>4 DEF BindChat, LinksFine
  <2>6. QED
    BY <1>1, <2>1, <2>5, NobodyMoves DEF BindChat
<1>5. QED
  BY <1>2, <1>3, <1>4

(* Only one's own contact counts.                                          *)
LEMMA ShareContactKeeps ==
  ASSUME IInv, UNCHANGED clock, NEW p \in Person, NEW contact \in Person, ShareContact(p, contact)
  PROVE  IInv'
<1>1. PICK j : j = [pc |-> "find", target |-> Phone(contact), via |-> "contact", by |-> p]
  OBVIOUS
<1>2. /\ UNCHANGED <<users, codes, issued, tried, tokens, clock>> /\ LinksFine /\ Jobs
      /\ Bot \in Process /\ contact = p
  BY DEF ShareContact, IsOwnContact, IInv, Accounts, LinksFine, Process
<1>3. Moves(Bot, j)
  BY <1>1, <1>2, WriteMoves DEF ShareContact
<1>4. GoodJob(Bot, j) /\ j.pc # "count"
  BY <1>1, <1>2 DEF GoodJob, Targeted, Proving, Acting, Serving, Proves, Phone, Target
<1>5. QED
  BY <1>2, <1>3, <1>4, OneLook

(* The Telegram account moves to the row of the one it belongs to.         *)
LEMMA LinkTelegramKeeps ==
  ASSUME IInv, UNCHANGED clock, LinkTelegram
  PROVE  IInv'
<1>1. PICK k : k = job[Bot]
  OBVIOUS
<1>2. /\ k.pc = "link" /\ GoodJob(Bot, k) /\ Accounts /\ Jobs /\ Bot \in Process
      /\ UNCHANGED <<codes, issued, tried, tokens, clock>> /\ LinksFine
  BY <1>1 DEF LinkTelegram, IInv, Jobs, Accounts, LinksFine, Process
<1>3. /\ k.user \in Rows /\ k.by = Owner(users[k.user]) /\ users[k.user] \in UserRow
      /\ k.by \in Maybe
  BY <1>2, OwnRow DEF Acting, Owner, UserRow
<1>4. users' = [u \in UserId |->
        IF u = k.user THEN [users[u] EXCEPT !.telegram = k.by]
        ELSE IF users[u].telegram = k.by THEN [users[u] EXCEPT !.telegram = None]
        ELSE users[u]]
  BY <1>1 DEF LinkTelegram
<1>5. ASSUME NEW u \in UserId
      PROVE  /\ users'[u] \in UserRow
             /\ \A f \in (Text \cup Flag) \ {"telegram"} : users'[u][f] = users[u][f]
             /\ \/ users'[u].telegram \in {None, users[u].telegram}
                \/ u = k.user /\ users'[u].telegram = k.by
  <2>1. users[u] \in UserRow
    BY <1>2 DEF Accounts
  <2>2. CASE u = k.user
    <3>1. users'[u] = [users[u] EXCEPT !.telegram = k.by]
      BY <1>4, <2>2
    <3>2. QED
      BY <1>3, <2>1, <2>2, <3>1 DEF UserRow, Text, Flag
  <2>3. CASE u # k.user /\ users[u].telegram = k.by
    <3>1. users'[u] = [users[u] EXCEPT !.telegram = None]
      BY <1>4, <2>3
    <3>2. QED
      BY <2>1, <3>1 DEF UserRow, Text, Flag, Maybe
  <2>4. CASE u # k.user /\ users[u].telegram # k.by
    <3>1. users'[u] = users[u]
      BY <1>4, <2>4
    <3>2. QED
      BY <2>1, <3>1
  <2>5. QED
    BY <2>2, <2>3, <2>4
<1>6. ASSUME NEW u \in UserId
      PROVE  /\ users'[u].phone = users[u].phone /\ users'[u].email = users[u].email
             /\ users'[u].phoneVerified = users[u].phoneVerified
             /\ users'[u].emailVerified = users[u].emailVerified
             /\ users'[u].password = users[u].password /\ users'[u].weak = users[u].weak
             /\ Owner(users'[u]) = Owner(users[u])
  BY <1>5 DEF Text, Flag, Owner
<1>7. ASSUME NEW u \in Rows PROVE Fine(u, users'[u]) /\ Kept(u, users[u], users'[u])
  <2>1. u \in UserId /\ Fine(u, users[u])
    BY <1>2 DEF Accounts, Rows
  <2>2. users'[u].telegram \in {None, Owner(users[u])}
    BY <1>3, <1>5, <2>1 DEF Fine, LegalRow, OwnPassword
  <2>3. QED
    BY <1>6, <2>1, <2>2 DEF Fine, LegalRow, OwnPassword, Kept
<1>8. \A u \in Rows' : u \in Rows
  <2> SUFFICES ASSUME NEW u \in UserId, users[u] = NoUser PROVE users'[u] = NoUser
    BY DEF Rows
  <2>1. u # k.user
    BY <1>3 DEF Rows
  <2>2. [NoUser EXCEPT !.telegram = None] = NoUser
    <3>1. PICK n : n = NoUser
      OBVIOUS
    <3>2. n.telegram = None /\ n = [f \in DOMAIN n |-> n[f]]
      BY <3>1 DEF NoUser
    <3>3. [n EXCEPT !.telegram = None] = n
      BY <3>2
    <3>4. QED
      BY <3>1, <3>3
  <2>3. QED
    BY <1>4, <2>1, <2>2
<1>9. Steady
  <2>1. users' \in [UserId -> UserRow]
    BY <1>4, <1>5
  <2>2. QED
    BY <1>7, <1>8, <2>1 DEF Steady
<1>10. PICK j : Moves(Bot, j) /\ At(k, "answer", j)
  BY <1>1, <1>2, GotoMoves DEF LinkTelegram
<1>11. GoodJob(Bot, j)' /\ j.pc # "count"
  BY <1>2, <1>10, AtGood DEF GoodJob, Targeted, Proving, Acting, Serving
<1>12. QED
  BY <1>2, <1>9, <1>10, <1>11, OneStep

(* The chat is answered: a code, the way in, or nothing.                   *)
LEMMA AnswerKeeps ==
  ASSUME IInv, UNCHANGED clock, Answer
  PROVE  IInv'
<1>1. PICK k : k = job[Bot]
  OBVIOUS
<1>2. /\ k.pc = "answer" /\ GoodJob(Bot, k) /\ Accounts /\ Jobs /\ Bot \in Process
      /\ UNCHANGED <<users, codes, issued, tried, tokens, clock>>
      /\ pending \in [Link -> LinkRow \cup {None}]
  BY <1>1 DEF Answer, IInv, Jobs, Accounts, Process
<1>3. k.target \in Target /\ Phone(k.target.owner) \in Target
  BY <1>2 DEF GoodJob, Phone, Target
<1>4. PICK l : l = byChat[k.by]
  OBVIOUS
<1>5. CASE Done(Bot) /\ LinksFine
  BY <1>2, <1>5, OneEnd
<1>6. CASE Done(Bot) /\ pending' = [pending EXCEPT ![l].done = TRUE] /\ pending[l] # None
  <2>1. CASE l \in Link
    <3>1. PICK row : row = [pending[l] EXCEPT !.done = TRUE]
      OBVIOUS
    <3>2. row \in LinkRow
      BY <1>2, <1>6, <2>1, <3>1 DEF LinkRow
    <3>3. LinksFine
      BY <1>2, <1>6, <3>1, <3>2 DEF LinksFine
    <3>4. QED
      BY <1>5, <1>6, <3>3
  <2>2. CASE l \notin Link
    <3>1. pending' = pending
      BY <1>2, <1>6, <2>2
    <3>2. QED
      BY <1>2, <1>5, <1>6, <3>1 DEF LinksFine
  <2>3. QED
    BY <2>1, <2>2
<1>7. CASE /\ job' = [job EXCEPT ![Bot] = [pc |-> "code", target |-> Phone(k.target.owner), link |-> l]]
           /\ UNCHANGED pending
  <2>1. PICK j : j = [pc |-> "code", target |-> Phone(k.target.owner), link |-> l]
    OBVIOUS
  <2>2. Moves(Bot, j)
    BY <1>2, <1>7, <2>1, WriteMoves
  <2>3. GoodJob(Bot, j) /\ j.pc # "count"
    BY <1>3, <2>1 DEF GoodJob, Targeted, Proving, Acting, Serving
  <2>4. LinksFine
    BY <1>2, <1>7 DEF LinksFine
  <2>5. QED
    BY <1>2, <2>2, <2>3, <2>4, OneLook
<1>8. \/ Done(Bot) /\ UNCHANGED pending
      \/ Done(Bot) /\ DropLink(l)
      \/ Done(Bot) /\ pending' = [pending EXCEPT ![l].done = TRUE] /\ pending[l] # None
      \/ /\ job' = [job EXCEPT ![Bot] = [pc |-> "code", target |-> Phone(k.target.owner), link |-> l]]
         /\ UNCHANGED pending
  BY <1>1, <1>4 DEF Answer
<1>9. UNCHANGED pending => LinksFine
  BY <1>2 DEF LinksFine
<1>10. DropLink(l) => LinksFine
  BY <1>2, DroppedLink
<1>11. QED
  BY <1>5, <1>6, <1>7, <1>8, <1>9, <1>10

(* The code goes to the chat.                                              *)
LEMMA CodeInChatKeeps ==
  ASSUME IInv, UNCHANGED clock, CodeInChat
  PROVE  IInv'
<1>1. PICK t : t = job[Bot].target
  OBVIOUS
<1>2. /\ t \in Target /\ SaveCode(t) /\ Bot \in Process /\ LinksFine
      /\ UNCHANGED <<users, tokens, clock>>
  BY <1>1, DroppedLink DEF CodeInChat, IInv, Jobs, GoodJob, Process
<1>3. Moves(Bot, Idle) /\ GoodJob(Bot, Idle) /\ Idle.pc # "count"
  BY <1>2, DoneMoves, IdleIsGood DEF CodeInChat, IInv
<1>4. \A u \in Target : u # t => issued'[u] = issued[u]
  BY <1>2 DEF SaveCode, IInv, Codes
<1>5. Codes'
  <2>1. \A u \in Target : u # t => Racing(u)' \subseteq Racing(u)
    BY <1>2, <1>3, <1>4, RaceOfMove
  <2>2. QED
    BY <1>2, <2>1, SaveCodeKeeps
<1>6. QED
  BY <1>2, <1>3, <1>5, CodeStep

(* A session that the bot let in is taken by whoever opened it.            *)
LEMMA LoginStatusKeeps ==
  ASSUME IInv, UNCHANGED clock, NEW h \in Handler, NEW l \in Link, LoginStatus(h, l)
  PROVE  IInv'
<1>1. /\ UNCHANGED <<users, codes, issued, tried, tokens, clock>> /\ LinksFine /\ Jobs
      /\ h \in Process /\ pending[l] \in LinkRow
  BY DEF LoginStatus, IInv, Accounts, LinksFine, Process
<1>2. PICK p \in Person : p = pending[l].by
  BY <1>1 DEF LinkRow
<1>3. PICK j : j = [pc |-> "unlink", link |-> l, via |-> "firebase", target |-> Phone(p), by |-> p]
  OBVIOUS
<1>4. Moves(h, j)
  BY <1>1, <1>2, <1>3, WriteMoves DEF LoginStatus
<1>5. GoodJob(h, j) /\ j.pc # "count"
  BY <1>2, <1>3 DEF GoodJob, Targeted, Proving, Acting, Serving, Proves, Phone, Target
<1>6. QED
  BY <1>1, <1>4, <1>5, OneLook

(* The session is dropped, and the account looked for.                     *)
LEMMA ConsumeLoginKeeps ==
  ASSUME IInv, UNCHANGED clock, NEW h \in Handler, ConsumeLogin(h)
  PROVE  IInv'
<1>1. PICK k : k = job[h]
  OBVIOUS
<1>2. /\ k.pc = "unlink" /\ GoodJob(h, k) /\ Jobs /\ h \in Process
      /\ UNCHANGED <<users, codes, issued, tried, tokens, clock>> /\ LinksFine
  BY <1>1, DroppedLink DEF ConsumeLogin, IInv, Jobs, Process
<1>3. PICK j : Moves(h, j) /\ At(k, "find", j)
  BY <1>1, <1>2, GotoMoves DEF ConsumeLogin
<1>4. GoodJob(h, j) /\ j.pc # "count"
  BY <1>2, <1>3, AtGood DEF GoodJob, Targeted, Proving, Acting, Serving, Proves
<1>5. QED
  BY <1>2, <1>3, <1>4, OneLook

(* The Telegram account of a row is its owner's.                           *)
LEMMA LoginWithTelegramIDKeeps ==
  ASSUME IInv, UNCHANGED clock, NEW h \in Handler, NEW p \in Person, LoginWithTelegramID(h, p)
  PROVE  IInv'
<1>1. /\ UNCHANGED <<users, codes, issued, tried, tokens, clock>> /\ LinksFine /\ Jobs /\ Accounts
      /\ h \in Process /\ h # Bot
  BY OneBot DEF LoginWithTelegramID, IInv, Accounts, LinksFine, Process
<1>2. PICK u \in Rows :
         /\ users[u].telegram = p
         /\ job' = [job EXCEPT ![h] = [pc |-> "issue", user |-> u, by |-> p, via |-> "miniapp"]]
  BY DEF LoginWithTelegramID
<1>3. p = Owner(users[u])
  BY <1>1, <1>2, NoneIsNobody DEF Accounts, Fine, LegalRow
<1>4. PICK j : j = [pc |-> "issue", user |-> u, by |-> p, via |-> "miniapp"]
  OBVIOUS
<1>5. Moves(h, j)
  BY <1>1, <1>2, <1>4, WriteMoves
<1>6. Acts(j)
  BY <1>3, <1>4 DEF Acts, Serves, Maybe
<1>7. GoodJob(h, j) /\ j.pc # "count"
  BY <1>1, <1>4, <1>6 DEF GoodJob, Targeted, Proving, Acting, Serving, Acts
<1>8. QED
  BY <1>1, <1>5, <1>7, OneLook

(* Every step of the bot and of those it lets in.                          *)
LEMMA TelegramStepKeeps ==
  ASSUME IInv, UNCHANGED clock, TelegramStep
  PROVE  IInv'
BY LinkKeeps, ShareContactKeeps, LinkTelegramKeeps, AnswerKeeps, CodeInChatKeeps, LoginStatusKeeps,
   ConsumeLoginKeeps, LoginWithTelegramIDKeeps DEF TelegramStep

-----------------------------------------------------------------------------
(* The whole: SignIn *)

(* Nobody is left who was in the middle of anything.                       *)
LEMMA RestartKeeps ==
  ASSUME IInv, Restart
  PROVE  IInv'
<1>1. /\ Accounts /\ Codes /\ UNCHANGED <<users, codes, issued, tried, tokens, clock>>
      /\ job' = [g \in Process |-> Idle] /\ pending \in [Link -> LinkRow \cup {None}]
  BY DEF Restart, IInv, Accounts, Process
<1>2. Codes'
  <2>1. \A g \in Handler : job'[g].pc # "count"
    BY <1>1, IdleIsGood DEF Process
  <2>2. \A t \in Target : Racing(t)' \subseteq Racing(t)
    BY <2>1 DEF Racing
  <2>3. QED
    BY <1>1, <2>2, CodesRest DEF Codes
<1>3. Jobs'
  <2>1. \A g \in Process : GoodJob(g, Idle)'
    BY DEF GoodJob, Idle, Targeted, Proving, Acting, Serving
  <2>2. QED
    BY <1>1, <2>1 DEF Jobs
<1>4. pending' \in [Link -> LinkRow \cup {None}]
  BY <1>1 DEF Restart, ReloadLinks
<1>5. Accounts'
  BY <1>1, <1>4 DEF Accounts, Held, Rows
<1>6. QED
  BY <1>2, <1>3, <1>5 DEF IInv

(* A call of the storage fails.                                            *)
LEMMA GiveUpKeeps ==
  ASSUME IInv, NEW h \in Process, GiveUp(h)
  PROVE  IInv'
<1>1. Fail(h) /\ LinksFine /\ UNCHANGED <<users, codes, issued, tried, tokens, clock>>
  BY DEF GiveUp, IInv, Accounts, LinksFine
<1>2. QED
  BY <1>1, FailMoves, OneLook

(* Before anybody came.                                                    *)
LEMMA InitIsFine ==
  ASSUME Init
  PROVE  IInv
<1>1. Accounts
  <2>1. users \in [UserId -> UserRow] /\ \A u \in Rows : Fine(u, users[u])
    BY StoredIsLegal DEF Init, IdInit, Rows, Fine, Doubtful
  <2>2. tokens = {} /\ pending \in [Link -> LinkRow \cup {None}]
    BY DEF Init, IdInit, TelegramInit
  <2>3. QED
    BY <2>1, <2>2 DEF Accounts
<1>2. Jobs
  <2>1. job = [g \in Process |-> Idle]
    BY DEF Init, IdInit, Process
  <2>2. QED
    BY <2>1, IdleIsGood DEF Jobs
<1>3. Codes
  <2>1. /\ codes = [t \in Target |-> None] /\ issued = [t \in Target |-> 0]
        /\ tried = [t \in Target |-> 0] /\ clock = 0
    BY DEF Init, IdInit
  <2>2. ASSUME NEW t \in Target PROVE Guesses(t)
    <3>1. \A g \in Handler : job[g].pc # "count"
      BY IdleIsGood DEF Init, IdInit
    <3>2. Racing(t) = {}
      BY <3>1 DEF Racing
    <3>3. Cardinality(Racing(t)) = 0
      BY <3>2, FS_EmptySet
    <3>4. MaxAttempts \in Nat \ {0} /\ Cardinality(Handler) \in Nat
      BY LimitsArePositive, OneBot, FS_CardinalityType
    <3>5. QED
      BY <2>1, <3>3, <3>4 DEF Guesses
  <2>3. QED
    BY <2>1, <2>2 DEF Codes
<1>4. QED
  BY <1>1, <1>2, <1>3 DEF IInv

(* Every step leaves the invariant true.                                   *)
LEMMA NextKeeps ==
  ASSUME IInv, [Next]_vars
  PROVE  IInv'
<1>1. CASE Restart
  BY <1>1, RestartKeeps
<1>2. CASE \E h \in Handler \cup {Bot} : GiveUp(h)
  BY <1>2, GiveUpKeeps DEF Process
<1>3. CASE Tick /\ UNCHANGED <<users, codes, issued, tried, tokens, job, mark, kept, pending, byChat>>
  <2>1. clock' \in Nat /\ LinksFine
    BY <1>3 DEF Tick, IInv, Codes, Accounts, LinksFine
  <2>2. QED
    BY <1>3, <2>1, NobodyMoves
<1>4. CASE (\E h \in Handler : IdStep(h)) /\ UNCHANGED <<clock, mark, kept, pending, byChat>>
  BY <1>4, IdStepKeeps
<1>5. CASE BotStep /\ UNCHANGED <<clock, mark, kept, pending, byChat>>
  BY <1>5, BotStepKeeps
<1>6. CASE (\E h \in Handler : SessionStep(h)) /\ UNCHANGED <<clock, pending, byChat>>
  BY <1>6, SessionStepKeeps
<1>7. CASE TelegramStep /\ UNCHANGED clock
  BY <1>7, TelegramStepKeeps
<1>8. CASE UNCHANGED vars
  <2>1. clock' \in Nat /\ LinksFine
    BY <1>8 DEF vars, IInv, Codes, Accounts, LinksFine
  <2>2. QED
    BY <1>8, <2>1, NobodyMoves DEF vars
<1>9. QED
  BY <1>1, <1>2, <1>3, <1>4, <1>5, <1>6, <1>7, <1>8 DEF Next

(* Rows are legal, goroutines act for whom they have found to be the owner,*)
(* guesses are within their bound: always.                                 *)
THEOREM Invariance == Spec => []IInv
<1>1. Init => IInv
  BY InitIsFine
<1>2. IInv /\ [Next]_vars => IInv'
  BY NextKeeps
<1>3. QED
  BY <1>1, <1>2, PTL DEF Spec

(* Whoever holds a session of an account owns its phone, or its e-mail when*)
(* it has no phone (finishPhoneLogin, VerifyEmail, LoginWithPassword,      *)
(* LinkTelegramPhone, LoginWithTelegramID): in every account but those the *)
(* stored table has with another's password, verified or outdated.         *)
THEOREM OnlyTheOwnerSignsInHolds == Spec => []OnlyTheOwnerSignsIn
<1>1. IInv => OnlyTheOwnerSignsIn
  BY DEF IInv, Accounts, Held, OnlyTheOwnerSignsIn
<1>2. QED
  BY <1>1, Invariance, PTL

(* A verified account has no password but its owner's (finishPhoneLogin    *)
(* clears it before it marks the row), unless it is doubtful: then a       *)
(* sign-in that read the outdated hash before may write it back (Rehash).  *)
(* The password of no other account is touched by that.                    *)
THEOREM PasswordIsTheOwnersHolds == Spec => []PasswordIsTheOwners
<1>1. IInv => PasswordIsTheOwners
  BY DEF IInv, Accounts, Fine, OwnPassword, PasswordIsTheOwners
<1>2. QED
  BY <1>1, Invariance, PTL

(* A code is guessed at no more often than the limit and those under way   *)
(* allow, for any number of requests (IncrementAttempts).                  *)
THEOREM GuessesBoundedHolds == Spec => []GuessesBounded
<1>1. ASSUME IInv, NEW t \in Target
      PROVE  tried[t] <= MaxAttempts + Cardinality(Handler) - 1
  <2>1. Guesses(t) /\ tried[t] \in Nat
    BY <1>1 DEF IInv, Codes
  <2>2. MaxAttempts \in Nat /\ Cardinality(Handler) \in Nat
    BY LimitsArePositive, OneBot, FS_CardinalityType
  <2>3. CASE codes[t] = None
    <3>1. Cardinality(Racing(t)) \in Nat
      BY FewerRacing, OneBot, FS_Subset, FS_CardinalityType DEF Racing
    <3>2. QED
      BY <2>1, <2>2, <2>3, <3>1 DEF Guesses
  <2>4. CASE codes[t] # None
    <3>1. tried[t] <= MaxAttempts
      BY <2>1, <2>4 DEF Guesses
    <3>2. Cardinality(Handler) # 0
      BY OneBot, FS_EmptySet
    <3>3. QED
      BY <2>1, <2>2, <3>1, <3>2
  <2>5. QED
    BY <2>3, <2>4
<1>2. IInv => GuessesBounded
  BY <1>1 DEF GuessesBounded
<1>3. QED
  BY <1>2, Invariance, PTL
=============================================================================
