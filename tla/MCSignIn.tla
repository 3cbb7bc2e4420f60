------------------------------ MODULE MCSignIn ------------------------------
EXTENDS SignIn, Functions, TLC

Empty == [u \in UserId |-> NoUser]
First == CHOOSE u \in UserId : TRUE
At(row) == [u \in UserId |-> IF u = First THEN row ELSE NoUser]

(* Rows of before: a verified account, its password hashed the old way; an *)
(* unfinished registration somebody else put a password in.                *)
Old(p) == [NewRow(Phone(p), TRUE) EXCEPT !.password = p, !.weak = TRUE]
Foreign(t, q) == [NewRow(t, FALSE) EXCEPT !.password = q]
Strange == {<<t, q>> \in Target \X Person : t.owner # q}
(* An account of its own for the rows that are doubtful.                   *)
Late == CHOOSE u \in UserId : u \notin {First, CHOOSE v \in UserId \ {First} : TRUE}
AtLate(row) == [Empty EXCEPT ![Late] = row]
Tables == {Empty} \cup {At(Old(p)) : p \in Person} \cup {At(Foreign(t, q)) : <<t, q>> \in Strange}
          \cup {AtLate([Foreign(t, q) EXCEPT !.weak = TRUE]) : <<t, q>> \in Strange}

NoLinks == /\ \A l \in Link : pending[l] = None
           /\ job[Bot] = Idle /\ \A u \in UserId : users[u].telegram = None
NoMarks == \A u \in UserId : mark[u] = 0
Doing(pcs) == \A h \in Handler : job[h].pc \in pcs
CodePcs == {"idle", "send", "count", "drop", "consume"}
AccountPcs == {"idle", "find", "release", "create", "clear", "mark", "issue"}
Busy == {h \in Handler : job[h] # Idle}
Via(ways) == \A h \in Handler : "via" \in DOMAIN job[h] => job[h].via \in ways
OnlyPhone == \E p \in Person :
  /\ \A h \in Handler : "target" \in DOMAIN job[h] => job[h].target = Phone(p)
  /\ \A t \in Target \ {Phone(p)} : issued[t] = 0
IssuedIn(ts) == SumFunctionOnSet(issued, ts)
OneRow == Rows \subseteq {First}
HasOld == \E u \in Rows : users[u].password = Owner(users[u])

Asking == /\ Busy = {} /\ Cardinality({l \in Link : pending[l] # None}) <= 1
          /\ \A u \in Rows : users[u].password = None

(* Bounds: the guesses of one code; the accounts of two people, two        *)
(* requests at once about one of them; passwords and revocation of one     *)
(* account; the bot beside one request.                                    *)
CodesOnly == /\ users = Empty /\ tokens = {} /\ NoLinks /\ NoMarks
             /\ Doing(CodePcs) /\ OnlyPhone
AccountsOnly == /\ clock = 0 /\ tokens = {} /\ NoLinks /\ NoMarks /\ ~HasOld
                /\ Late \notin Rows
                /\ \/ /\ IssuedIn(Target) = 0 /\ Via({"register", "google", "firebase"})
                      /\ Doing(AccountPcs \cup {"update", "peek"})
                      /\ \A g, h \in Busy : job[g].target.owner = job[h].target.owner
                   \/ /\ Cardinality(Busy) <= 1 /\ IssuedIn(Target) <= 1 /\ Via({"code"})
                      /\ Doing(AccountPcs \cup CodePcs)
SessionsOnly == /\ NoLinks /\ clock <= 1 /\ OneRow /\ users[First].password # None /\ Cardinality(tokens) <= 2
                /\ \A u \in Rows : users[u].phone # None /\ users[u].email = None
                /\ \A h \in Handler : "target" \in DOMAIN job[h] => Has(users[First], job[h].target)
                /\ Via({"password", "firebase"}) /\ IssuedIn(Target) = 0
BotOnly == /\ Cardinality(Busy) <= 1 /\ clock = 0 /\ NoMarks /\ tokens = {} /\ OneRow /\ ~HasOld
           /\ \A u \in Rows : users[u].phone # None /\ users[u].email = None
           /\ IssuedIn(Target) <= IF Asking THEN 1 ELSE 0
           /\ Via({"firebase", "miniapp"})
           /\ Doing({"idle", "unlink", "find", "create", "restore", "issue", "clear", "mark"})
           /\ \E p \in Person :
                /\ \A h \in Handler \cup {Bot} : "by" \in DOMAIN job[h] => job[h].by = p
                /\ \A l \in Link : pending[l] = None \/ pending[l].by = p
(* Two requests about the doubtful account, one about another.             *)
DoubtfulOnly == /\ NoLinks /\ NoMarks /\ clock = 0 /\ IssuedIn(Target) = 0 /\ Late \in Rows
                /\ Cardinality(Rows) <= 2 /\ Cardinality(tokens) <= 1
                /\ Via({"password", "firebase"}) /\ Cardinality({h \in Busy : job[h].pc = "send"}) = 0
Separately == CodesOnly \/ AccountsOnly \/ SessionsOnly \/ BotOnly \/ DoubtfulOnly

Symmetry == Permutations(Handler) \cup Permutations(Person)
=============================================================================
