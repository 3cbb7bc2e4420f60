------------------------------ MODULE Sessions ------------------------------
(***************************************************************************)
(* Passwords, the end of an account and of its sessions: LoginWithPassword,*)
(* SetPassword, DeleteAccount of users.Service, revoke.Store and the       *)
(* handlers POST /me/password, /me/delete-account and /auth/logout.        *)
(***************************************************************************)
EXTENDS Identities

CONSTANT ProofWindow      \* how long a code proves the phone to SetPassword

VARIABLES mark,           \* revoke.Store: tokens of before this second are void
          kept            \* its copy in Redis

sessionVars == <<mark, kept>>

SessionsInit == mark = [u \in UserId |-> 0] /\ kept = mark
SessionsTypeOK == {mark, kept} \subseteq [UserId -> 0..MaxClock]

(* Middleware auth: the signature, the mark; the users table is not read.  *)
IsRevoked(token) == token.iat < mark[token.user]
Accepted == {token \in tokens : ~IsRevoked(token)}

HasFreshPhoneProof(token) == token.proven /\ clock - token.iat <= ProofWindow

-----------------------------------------------------------------------------
(* p types the password p made up, for an account found by t.  The row is  *)
(* read here, the token is issued later.                                   *)
LoginWithPassword(h, t, p) ==
  /\ job[h].pc = "idle"
  /\ \E u \in WithTarget(t) :
       LET row == users[u]
           refused == \/ row.deleted
                      \/ row.phone # None /\ ~row.phoneVerified
                      \/ row.phone = None /\ ~row.emailVerified
       IN  /\ row.password = p
           /\ row.weak \/ ~refused
           /\ job' = [job EXCEPT ![h] = [pc |-> IF row.weak THEN "rehash" ELSE "issue",
                        user |-> u, by |-> p, via |-> "password", refused |-> refused]]
  /\ UNCHANGED <<users, codes, issued, tried, tokens, mark, kept>>

(* A hash with outdated parameters is replaced before the other checks.    *)
Rehash(h) ==
  /\ job[h].pc = "rehash"
  /\ UpdateUser(job[h].user, [password |-> job[h].by, weak |-> FALSE])
  /\ IF job[h].refused THEN Done(h) ELSE Goto(h, "issue")
  /\ UNCHANGED <<codes, issued, tried, tokens, mark, kept>>

(* SetPassword and DeleteAccount ask for the current password, unless there*)
(* is none or a code was typed a moment ago.                               *)
MayChange(token) ==
  users[token.user].password \in {None, token.holder} \/ HasFreshPhoneProof(token)

BeginChange(h, token, pc) ==
  /\ job[h].pc = "idle" /\ token \in Accepted /\ MayChange(token)
  /\ job' = [job EXCEPT ![h] = [pc |-> pc, user |-> token.user, by |-> token.holder,
                                via |-> "password"]]
  /\ UNCHANGED <<users, codes, issued, tried, tokens, mark, kept>>

(* The handler then revokes the sessions and, after a new password, gives a*)
(* new token.                                                              *)
SetPasswordHash(h) ==
  /\ job[h].pc = "password"
  /\ UpdateUser(job[h].user, [password |-> job[h].by, weak |-> FALSE])
  /\ job' = [job EXCEPT ![h] = Put(@, [pc |-> "revoke", at |-> clock, end |-> "issue"])]
  /\ UNCHANGED <<codes, issued, tried, tokens, mark, kept>>

SoftDelete(h) ==
  /\ job[h].pc = "delete"
  /\ UpdateUser(job[h].user, [deleted |-> TRUE])
  /\ job' = [job EXCEPT ![h] = Put(@, [pc |-> "revoke", at |-> clock, end |-> "idle"])]
  /\ UNCHANGED <<codes, issued, tried, tokens, mark, kept>>

Logout(h, token) ==
  /\ job[h].pc = "idle" /\ token \in Accepted
  /\ job' = [job EXCEPT ![h] = [pc |-> "revoke", user |-> token.user, at |-> clock, end |-> "idle"]]
  /\ UNCHANGED <<users, codes, issued, tried, tokens, mark, kept>>

(* Revoke: the time is taken, then the map is written ...                  *)
Revoke(h) ==
  /\ job[h].pc = "revoke"
  /\ mark' = [mark EXCEPT ![job[h].user] = job[h].at]
  /\ Goto(h, "keep")
  /\ UNCHANGED <<users, codes, issued, tried, tokens, kept>>

(* ... then Redis, which may fail and is then only logged.                 *)
KeepMark(h) ==
  /\ job[h].pc = "keep"
  /\ kept' \in {kept, [kept EXCEPT ![job[h].user] = job[h].at]}
  /\ IF job[h].end = "idle" THEN Done(h) ELSE Goto(h, job[h].end)
  /\ UNCHANGED <<users, codes, issued, tried, tokens, mark>>

SessionStep(h) ==
  \/ \E t \in Target, p \in Person : LoginWithPassword(h, t, p)
  \/ \E token \in tokens : \/ BeginChange(h, token, "password") \/ BeginChange(h, token, "delete")
                           \/ Logout(h, token)
  \/ Rehash(h) \/ SetPasswordHash(h) \/ SoftDelete(h) \/ Revoke(h) \/ KeepMark(h)
=============================================================================
