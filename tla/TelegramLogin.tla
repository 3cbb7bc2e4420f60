---------------------------- MODULE TelegramLogin ----------------------------
(***************************************************************************)
(* telegram.Verifier: the application opens a session with the bot, the    *)
(* user opens its link in a chat and shares a contact; the bot sends a code*)
(* or lets the application in.  The bot is one goroutine.  A chat is named *)
(* by its user; a link is opened by the person it was made for.            *)
(***************************************************************************)
EXTENDS Sessions

CONSTANT Link             \* bound: tokens of sessions with the bot

VARIABLES pending,        \* byToken: the open sessions
          byChat          \* byChatID: the session of a chat

telegramVars == <<pending, byChat>>

(* asked: the phone to confirm, None when the contact says which.          *)
LinkRow == [by : Person, asked : Person \cup {None}, bound : BOOLEAN, done : BOOLEAN]

TelegramTypeOK ==
  /\ pending \in [Link -> LinkRow \cup {None}]
  /\ byChat \in [Person -> Link \cup {None}]

TelegramInit == pending = [l \in Link |-> None] /\ byChat = [p \in Person |-> None]

(* Start, StartLogin, StartLoginWeb.                                       *)
StartLink(by, asked) ==
  /\ \E l \in Link : pending[l] = None
  /\ LET l == CHOOSE l \in Link : pending[l] = None
     IN  pending' = [pending EXCEPT ![l] = [by |-> by, asked |-> asked,
                                            bound |-> FALSE, done |-> FALSE]]
  /\ UNCHANGED <<byChat, users, codes, issued, tried, tokens, job, mark, kept>>

(* drop: what the chat is bound to now is forgotten with the session.      *)
DropLink(l) ==
  /\ pending' = [pending EXCEPT ![l] = None]
  /\ byChat' = IF pending[l] # None /\ pending[l].bound
               THEN [byChat EXCEPT ![pending[l].by] = None] ELSE byChat

(* sweepLocked: after ten minutes the session is gone.                     *)
ExpireLink(l) ==
  /\ pending[l] # None /\ DropLink(l)
  /\ UNCHANGED <<users, codes, issued, tried, tokens, job, mark, kept>>

(* /start of the link: the chat now belongs to this session.               *)
BindChat(l) ==
  /\ job[Bot].pc = "idle" /\ pending[l] # None
  /\ pending' = [pending EXCEPT ![l].bound = TRUE]
  /\ byChat' = [byChat EXCEPT ![pending[l].by] = l]
  /\ UNCHANGED <<users, codes, issued, tried, tokens, job, mark, kept>>

IsOwnContact(p, contact) == contact = p

ShareContact(p, contact) ==
  /\ job[Bot].pc = "idle" /\ IsOwnContact(p, contact)
  /\ job' = [job EXCEPT ![Bot] = [pc |-> "find", target |-> Phone(contact),
                                  via |-> "contact", by |-> p]]
  /\ UNCHANGED <<users, codes, issued, tried, tokens, mark, kept, pending, byChat>>

(* LinkTelegram: one transaction, the link moves to this account.          *)
LinkTelegram ==
  /\ job[Bot].pc = "link"
  /\ users' = [u \in UserId |->
       IF u = job[Bot].user THEN [users[u] EXCEPT !.telegram = job[Bot].by]
       ELSE IF users[u].telegram = job[Bot].by THEN [users[u] EXCEPT !.telegram = None]
       ELSE users[u]]
  /\ Goto(Bot, "answer")
  /\ UNCHANGED <<codes, issued, tried, tokens, mark, kept, pending, byChat>>

(* After the contact was linked: what the session of this chat asked for.  *)
Answer ==
  /\ job[Bot].pc = "answer"
  /\ LET p == job[Bot].by
         l == byChat[p]
         shared == job[Bot].target.owner
     IN  IF l = None \/ pending[l] = None
         THEN Done(Bot) /\ UNCHANGED <<pending, byChat>>
         ELSE IF pending[l].asked = None
         THEN Done(Bot) /\ pending' = [pending EXCEPT ![l].done = TRUE] /\ UNCHANGED byChat
         ELSE IF pending[l].asked # shared THEN Done(Bot) /\ DropLink(l)
         ELSE IF TooSoon(Phone(shared)) THEN Done(Bot) /\ UNCHANGED <<pending, byChat>>
         ELSE /\ job' = [job EXCEPT ![Bot] = [pc |-> "code", target |-> Phone(shared), link |-> l]]
              /\ UNCHANGED <<pending, byChat>>
  /\ UNCHANGED <<users, codes, issued, tried, tokens, mark, kept>>

CodeInChat ==
  /\ job[Bot].pc = "code"
  /\ SaveCode(job[Bot].target) /\ DropLink(job[Bot].link) /\ Done(Bot)
  /\ UNCHANGED <<users, tokens, mark, kept>>

(* GET /auth/telegram/login/status: LoginResult and ConsumeLogin look, ... *)
LoginStatus(h, l) ==
  /\ job[h].pc = "idle" /\ pending[l] # None /\ pending[l].done
  /\ job' = [job EXCEPT ![h] = [pc |-> "unlink", link |-> l, via |-> "firebase",
                                target |-> Phone(pending[l].by), by |-> pending[l].by]]
  /\ UNCHANGED <<users, codes, issued, tried, tokens, mark, kept, pending, byChat>>

(* ... then drop, and let the phone in.                                    *)
ConsumeLogin(h) ==
  /\ job[h].pc = "unlink"
  /\ DropLink(job[h].link)
  /\ Goto(h, "find")
  /\ UNCHANGED <<users, codes, issued, tried, tokens, mark, kept>>

(* POST /auth/telegram/miniapp: LoginWithTelegramID.                       *)
LoginWithTelegramID(h, p) ==
  /\ job[h].pc = "idle"
  /\ \E u \in Rows :
       /\ users[u].telegram = p /\ ~users[u].deleted
       /\ job' = [job EXCEPT ![h] = [pc |-> "issue", user |-> u, by |-> p, via |-> "miniapp"]]
  /\ UNCHANGED <<users, codes, issued, tried, tokens, mark, kept, pending, byChat>>

TelegramStep ==
  \/ \E p \in Person, asked \in Person \cup {None} : StartLink(p, asked)
  \/ \E l \in Link : ExpireLink(l) \/ BindChat(l)
  \/ \E p, contact \in Person : ShareContact(p, contact)
  \/ LinkTelegram \/ Answer \/ CodeInChat
  \/ \E h \in Handler : \/ \E l \in Link : LoginStatus(h, l)
                        \/ \E p \in Person : LoginWithTelegramID(h, p)
                        \/ ConsumeLogin(h)

(* load: the chats are found again in the sessions; without Redis both are *)
(* gone.                                                                   *)
ReloadLinks ==
  \/ pending' = [l \in Link |-> None] /\ byChat' = [p \in Person |-> None]
  \/ /\ UNCHANGED pending
     /\ byChat' \in {f \in [Person -> Link \cup {None}] : \A p \in Person :
          LET mine == {l \in Link : pending[l] # None /\ pending[l].by = p /\ pending[l].bound}
          IN  IF mine = {} THEN f[p] = None ELSE f[p] \in mine}
=============================================================================
