------------------------------- MODULE SignIn -------------------------------
(***************************************************************************)
(* Signing in: the ways to prove a phone or an e-mail, passwords, the bot, *)
(* and a process that may stop between two calls of the storage.           *)
(***************************************************************************)
EXTENDS TelegramLogin

vars == <<users, codes, issued, tried, tokens, clock, job, mark, kept, pending, byChat>>

Init == IdInit /\ SessionsInit /\ TelegramInit

(* The process stops: the requests are gone, Redis and the database stay.  *)
Restart ==
  /\ job' = [h \in Handler \cup {Bot} |-> Idle]
  /\ mark' = kept
  /\ ReloadLinks
  /\ UNCHANGED <<users, codes, issued, tried, tokens, clock, kept>>

(* A call of the storage fails: the rest of the request is not done.       *)
GiveUp(h) ==
  /\ job[h].pc # "idle" /\ Fail(h)
  /\ UNCHANGED <<users, codes, issued, tried, tokens, clock, mark, kept, pending, byChat>>

(* The bot goes through the same account steps as the requests.            *)
BotStep ==
  /\ job[Bot].pc \in {"find", "create", "restore"}
  /\ IdStep(Bot)

Next ==
  \/ Restart
  \/ \E h \in Handler \cup {Bot} : GiveUp(h)
  \/ Tick /\ UNCHANGED <<users, codes, issued, tried, tokens, job, mark, kept, pending, byChat>>
  \/ (\E h \in Handler : IdStep(h)) /\ UNCHANGED <<clock, mark, kept, pending, byChat>>
  \/ BotStep /\ UNCHANGED <<clock, mark, kept, pending, byChat>>
  \/ (\E h \in Handler : SessionStep(h)) /\ UNCHANGED <<clock, pending, byChat>>
  \/ TelegramStep /\ UNCHANGED clock

Spec == Init /\ [][Next]_vars

-----------------------------------------------------------------------------
(* Properties *)

TypeOK == IdTypeOK /\ SessionsTypeOK /\ TelegramTypeOK

(* Whoever holds a session of an account owns its phone, or its e-mail when*)
(* it has no phone: whatever was mistyped into the form of somebody else,  *)
(* whichever way in was taken, whatever happened between two steps         *)
(* (emailIsIdentity, releaseUnprovenEmail, LinkTelegramPhone).  The        *)
(* doubtful accounts of the stored table are left out, and only they.      *)
OnlyTheOwnerSignsIn ==
  \A token \in tokens : token.user \notin Doubtful => Owner(users[token.user]) = token.holder

(* No password that was set before the account was verified lives on after *)
(* it, also when the process stops in the middle (finishPhoneLogin: the    *)
(* password is cleared first, then the row is marked): of every account    *)
(* that is not doubtful from the start.                                    *)
PasswordIsTheOwners ==
  \A u \in Rows \ Doubtful : users[u].phoneVerified \/ users[u].emailVerified
                             => users[u].password \in {None, Owner(users[u])}

(* A password that was cleared does not come back after the phone was      *)
(* proven, whoever's it was.  Not so: LoginWithPassword has read another's *)
(* password with an outdated hash, the password is cleared and the row     *)
(* marked, and the new hash of it is written last (users/service.go:409-415*)
(* and register.go:353).                                                   *)
NoPasswordComesBack ==
  [][\A u \in Rows : users[u].password = None /\ users[u].phoneVerified
                     => users'[u].password \in {None, Owner(users[u])}]_vars

(* A code is compared with at most MaxAttempts guesses and those that were *)
(* under way at the last of them, whatever is sent anew meanwhile          *)
(* (IncrementAttempts).                                                    *)
GuessesBounded == \A t \in Target : tried[t] <= MaxAttempts + Cardinality(Handler) - 1

(* The limit as CodeStore.IncrementAttempts describes it.  Not so.         *)
AtMostMaxAttempts == \A t \in Target : tried[t] <= MaxAttempts

(* A password its owner set is not lost by signing in again.  Not so.      *)
OwnPasswordStays ==
  [][\A u \in Rows : users[u].password = Owner(users[u]) => users'[u].password # None]_vars

(* A session that was ended stays ended.  Not so.                          *)
EndedStaysEnded == [][\A token \in tokens : IsRevoked(token) => IsRevoked(token)']_vars

(* Nobody is let in after the account was deleted and its sessions ended,  *)
(* unless it was restored.  Not so.                                        *)
DeletedIsOut ==
  [][\A token \in tokens' \ tokens : ~users[token.user].deleted]_vars
=============================================================================
