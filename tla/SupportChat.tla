----------------------------- MODULE SupportChat -----------------------------
(***************************************************************************)
(* The chat of one restaurant with the platform (internal/support) and the *)
(* panels that show it (ondex_support, conversation.dart).                 *)
(*                                                                         *)
(* The server writes a message, or a read mark, and tells both sides of it *)
(* under the lock of the restaurant; two reads without the lock make the   *)
(* page a panel asks for.  A panel hears of a message from the answer to   *)
(* its own post, from the live channel and from a page, in any order.      *)
(***************************************************************************)
EXTENDS Hub, FiniteSets, TLC

CONSTANTS
  Panel,       \* open conversation pages, each a device of the hub
  SideOf,      \* SideOf[p]: "restaurant" or "admin"
  Roaming,     \* bound: the panels whose socket breaks
  TopicOf,     \* TopicOf[side]: RestaurantTopic, AdminTopic
  MaxPosts,    \* bound: messages a panel writes
  MaxMessages  \* bound: messages of the thread, no more than a page has

(* What a panel does not recover from; the first of them is remembered.    *)
(* "overtaken": the answer to a post arrives before an older message does. *)
(* "loading": a message is written, or the socket comes up, while a panel  *)
(* loads its page.                                                         *)
(* "rising": something is told while the socket of a panel is rising.      *)
(* "failing": the request for a page fails.                                *)
(* "untold": GetThread fails after the message was committed.              *)
(* "unmarked": GetThread fails after a read mark was; no message is missed *)
(* for it, and the next of the others takes its place.                     *)
Mishap == {"overtaken", "loading", "rising", "failing", "untold", "unmarked"}
Harmless == {"none", "unmarked"}

(* The first page of a thread; a catch-up asks for up to 2000 messages.    *)
(* The modelled thread fits on a page, so a page is all there is.          *)
PageSize == 50

ASSUME ChatAssumption == /\ Panel \subseteq Device
                         /\ MaxPosts \in Nat
                         /\ MaxMessages \in Nat /\ MaxMessages <= PageSize
                         /\ SideOf \in [Panel -> {"restaurant", "admin"}]

Side == {"restaurant", "admin"}

(* A panel hears the topic of its side (RestaurantTopic, AdminTopic).      *)
ASSUME TopicsOfSides ==
  /\ TopicOf \in [Side -> Topic] /\ TopicOf["restaurant"] # TopicOf["admin"]
  /\ \A p \in Panel : Hears[p] \cap {TopicOf[s] : s \in Side} = {TopicOf[SideOf[p]]}

Other(side) == IF side = "admin" THEN "restaurant" ELSE "admin"

VARIABLES
  thread,   \* support_messages in the order of seq, support_threads' read marks
  post,     \* the message a panel is sending
  mark,     \* the read mark a panel is sending
  page,     \* the page a panel is asking for
  view,     \* what a panel holds
  met       \* the first mishap, harmless ones last, or none

chatVars == <<thread, post, mark, page, view, met>>

NoThread == [last |-> 0, read |-> 0, peer |-> 0, unread |-> 0]

Last == Len(thread.log)
Seqs == 1..Last
Meet(mishap, here) == met' = IF here /\ met \in Harmless THEN mishap ELSE met
MaxOf(S) == IF S = {} THEN 0 ELSE CHOOSE n \in S : \A m \in S : m <= n

ChatInit == /\ HubInit
            /\ thread = [log |-> <<>>, read |-> [s \in Side |-> 0]]
            /\ post = [p \in Panel |-> Idle]
            /\ mark = [p \in Panel |-> Idle]
            /\ page = [p \in Panel |-> [pc |-> "load", items |-> {}]]
            /\ view = [p \in Panel |-> [held |-> {}, thread |-> NoThread, outbox |-> {},
                                        written |-> 0, again |-> FALSE]]
            /\ met = "none"

-----------------------------------------------------------------------------
(* The server *)

(* lockFor(restaurantID): held from the write until everybody is told.     *)
LockIsFree == \A p \in Panel : post[p].pc # "tell" /\ mark[p].pc # "tell"

(* supportThreadSelect, as one side sees it (ToThreadView).                *)
UnreadOf(t, side) ==
  Cardinality({n \in DOMAIN t.log : SideOf[t.log[n].from] # side /\ n > t.read[side]})

ThreadView(t, side) == [last |-> Len(t.log), read |-> t.read[side],
                        peer |-> t.read[Other(side)], unread |-> UnreadOf(t, side)]

Tell(kind, n) == Send([topic \in {TopicOf[s] : s \in Side} |->
  LET side == CHOOSE s \in Side : TopicOf[s] = topic
  IN [kind |-> kind, seq |-> n, thread |-> ThreadView(thread, side)]])

Written(p, key) == {n \in Seqs : thread.log[n] = [from |-> p, key |-> key]}

(* Mutant: whoever writes, both marks move.                                *)
StoreForBoth(t, p, key) == [log |-> Append(t.log, [from |-> p, key |-> key]),
                            read |-> [s \in Side |-> Len(t.log) + 1]]

(* InsertMessage: the message, and the mark of its own side.               *)
Store(t, p, key) == [log |-> Append(t.log, [from |-> p, key |-> key]),
                     read |-> [t.read EXCEPT ![SideOf[p]] = Len(t.log) + 1]]

(* Mutant: a repeated post is stored again.                                *)
StoredTwice(p, key) == {}

Stored(p, key) == Written(p, key)

SomeRises == \E p \in Panel : socket[p] = "rising"
Loading(p) == page[p].pc \in {"load", "loaded"}

(* A message of the outbox reaches the server, sent for the first time or  *)
(* again, and the transaction is made: a key already stored gives the      *)
(* message it made.  A request lost on its way leaves the message where it *)
(* is.                                                                     *)
InsertMessage(p, key) ==
  LET old == Stored(p, key)
  IN /\ post[p] = Idle /\ key \in view[p].outbox /\ LockIsFree
     /\ old = {} => Last < MaxMessages
     /\ thread' = IF old = {} THEN Store(thread, p, key) ELSE thread
     /\ post' = [post EXCEPT ![p] = [pc |-> "tell", new |-> old = {},
                                     seq |-> IF old = {} THEN Last + 1 ELSE MaxOf(old)]]
     /\ Meet("loading", old = {} /\ \E q \in Panel : Loading(q))
     /\ UNCHANGED <<mark, page, view, hubVars>>

(* Send: GetThread, then both topics, then the lock is let go.             *)
TellMessage(p) ==
  /\ post[p].pc = "tell"
  /\ IF post[p].new THEN Tell("message", post[p].seq) ELSE UNCHANGED hubVars
  /\ post' = [post EXCEPT ![p] = [pc |-> "answer", seq |-> @.seq,
                                  thread |-> ThreadView(thread, SideOf[p])]]
  /\ Meet("rising", post[p].new /\ SomeRises)
  /\ UNCHANGED <<thread, mark, page, view>>

(* Send: GetThread fails: an error for a message that is stored.           *)
LeaveUntold(p) ==
  /\ post[p].pc = "tell"
  /\ post' = [post EXCEPT ![p] = Idle]
  /\ Meet("untold", post[p].new)
  /\ UNCHANGED <<thread, mark, page, view, hubVars>>

(* The answer is lost: the message stays to be sent again, unless the live *)
(* channel confirms it.                                                    *)
LoseAnswer(p) == /\ post[p].pc = "answer"
                 /\ post' = [post EXCEPT ![p] = Idle]
                 /\ UNCHANGED <<thread, mark, page, view, hubVars, met>>

(* MarkRead: the mark of a side only grows, and not past the thread.       *)
UpdateMark(p) ==
  LET upTo == IF mark[p].upTo < Last THEN mark[p].upTo ELSE Last
      side == SideOf[p]
  IN /\ mark[p].pc = "sent" /\ LockIsFree
     /\ thread' = [thread EXCEPT !.read[side] = IF upTo > @ THEN upTo ELSE @]
     /\ mark' = [mark EXCEPT ![p] = [pc |-> "tell", changed |-> upTo > thread.read[side]]]
     /\ UNCHANGED <<post, page, view, hubVars, met>>

TellMark(p) ==
  /\ mark[p].pc = "tell"
  /\ IF mark[p].changed THEN Tell("read", 0) ELSE UNCHANGED hubVars
  /\ mark' = [mark EXCEPT ![p] = [pc |-> "answer", thread |-> ThreadView(thread, SideOf[p])]]
  /\ Meet("rising", mark[p].changed /\ SomeRises)
  /\ UNCHANGED <<thread, post, page, view>>

(* MarkRead: GetThread fails: an error for a mark that is stored.          *)
LeaveMarkUntold(p) ==
  /\ mark[p].pc = "tell"
  /\ mark' = [mark EXCEPT ![p] = [pc |-> "failed"]]
  /\ Meet("unmarked", mark[p].changed)
  /\ UNCHANGED <<thread, post, page, view, hubVars>>

(* What a panel asks to follow: the largest number it holds.               *)
LatestSeq(v) == MaxOf(v.held)

(* writeSupportMessages: the messages first, the thread after them.  The   *)
(* first read is the step in which the panel asks: what comes between the  *)
(* two only adds to the page.                                              *)
AskPage(v) == IF v.held = {} THEN [pc |-> "load", items |-> Seqs]
              ELSE [pc |-> "catch", items |-> {n \in Seqs : n > LatestSeq(v)}]

ReadThread(p) ==
  /\ page[p].pc \in {"load", "catch"}
  /\ page' = [page EXCEPT ![p] = [pc |-> IF @.pc = "load" THEN "loaded" ELSE "caught",
                                  items |-> @.items, thread |-> ThreadView(thread, SideOf[p])]]
  /\ UNCHANGED <<thread, post, mark, view, hubVars, met>>

-----------------------------------------------------------------------------
(* The panel *)

(* Mutant: the view that arrives last wins.                                *)
TakeThread(t, other) == other

(* SupportThread.merge: the marks only grow, the rest is of the newer one. *)
MergeThread(t, other) ==
  LET newer == IF other.last > t.last \/ (other.last = t.last /\ other.read >= t.read)
               THEN other ELSE t
  IN [last |-> newer.last, unread |-> newer.unread,
      read |-> IF t.read > other.read THEN t.read ELSE other.read,
      peer |-> IF t.peer > other.peer THEN t.peer ELSE other.peer]

(* _merge: by id, and what is confirmed leaves the outbox.                 *)
Merge(p, v, items) ==
  [v EXCEPT !.held = @ \cup items,
            !.outbox = {k \in @ : \A n \in items : thread.log[n] # [from |-> p, key |-> k]}]

Apply(v, t) == [v EXCEPT !.thread = MergeThread(@, t)]

(* markSeen: a message of the other side is shown and not marked yet; one  *)
(* request at a time, another one after it.                                *)
Unmarked(p, v) == \E n \in v.held : SideOf[thread.log[n].from] # SideOf[p] /\ n > v.thread.read

MarkSeen(p, v) ==
  IF ~Unmarked(p, v) THEN /\ view' = [view EXCEPT ![p] = v] /\ UNCHANGED mark
  ELSE IF mark[p] # Idle THEN /\ view' = [view EXCEPT ![p] = [v EXCEPT !.again = TRUE]] /\ UNCHANGED mark
  ELSE /\ view' = [view EXCEPT ![p] = v]
       /\ mark' = [mark EXCEPT ![p] = [pc |-> "sent", upTo |-> LatestSeq(v)]]

(* send: the message waits in the outbox under a key of its own.           *)
Post(p) == LET key == view[p].written + 1
           IN /\ view[p].written < MaxPosts
              /\ view' = [view EXCEPT ![p].written = key, ![p].outbox = @ \cup {key}]
              /\ UNCHANGED <<thread, post, mark, page, hubVars, met>>

(* _deliver: the answer is merged like any other message.                  *)
Answer(p) ==
  LET a == post[p]
  IN /\ a.pc = "answer"
     /\ view' = [view EXCEPT ![p] = Apply(Merge(p, @, {a.seq}), a.thread)]
     /\ post' = [post EXCEPT ![p] = Idle]
     /\ Meet("overtaken", \E n \in 1..(a.seq - 1) : n \notin view[p].held)
     /\ UNCHANGED <<thread, mark, page, hubVars>>

(* handleEvent: only a message makes the panel mark what it shows.         *)
Receive(p) ==
  LET e == Head(out[p])
      v == Apply(IF e.kind = "message" THEN Merge(p, view[p], {e.seq}) ELSE view[p], e.thread)
  IN /\ Write(p)
     /\ IF e.kind = "message" THEN MarkSeen(p, v)
        ELSE view' = [view EXCEPT ![p] = v] /\ UNCHANGED mark
     /\ UNCHANGED <<thread, post, page, met>>

(* load: what the panel held is replaced by the page.                      *)
FinishLoad(p) == /\ page[p].pc = "loaded"
                 /\ MarkSeen(p, Apply(Merge(p, [view[p] EXCEPT !.held = {}], page[p].items), page[p].thread))
                 /\ page' = [page EXCEPT ![p] = Idle]
                 /\ UNCHANGED <<thread, post, hubVars, met>>

FinishCatchUp(p) == /\ page[p].pc = "caught"
                    /\ MarkSeen(p, Apply(Merge(p, view[p], page[p].items), page[p].thread))
                    /\ page' = [page EXCEPT ![p] = Idle]
                    /\ UNCHANGED <<thread, post, hubVars, met>>

FailPage(p) == /\ page[p] # Idle
               /\ page' = [page EXCEPT ![p] = Idle]
               /\ IF Loading(p) THEN MarkSeen(p, view[p]) ELSE UNCHANGED <<view, mark>>
               /\ Meet("failing", TRUE)
               /\ UNCHANGED <<thread, post, hubVars>>

(* catchUp, by the timer of the page.                                      *)
Poll(p) == /\ page[p] = Idle
           /\ page' = [page EXCEPT ![p] = AskPage(view[p])]
           /\ UNCHANGED <<thread, post, mark, view, hubVars, met>>

(* The socket is up again: no catch-up if a page is loading (one still     *)
(* under way has ended by then).                                           *)
Reconnect(p) == /\ Connect(p)
                /\ page[p] = Idle \/ Loading(p)
                /\ page' = [page EXCEPT ![p] = IF Loading(p) THEN @ ELSE AskPage(view[p])]
                /\ Meet("loading", Loading(p))
                /\ UNCHANGED <<thread, post, mark, view>>

(* The answer to a mark, an error or its loss; what was shown meanwhile is *)
(* marked next.                                                            *)
EndMark(p, seen) ==
  LET v == [seen EXCEPT !.again = FALSE]
      more == seen.again /\ Unmarked(p, v)
  IN /\ view' = [view EXCEPT ![p] = v]
     /\ mark' = [mark EXCEPT ![p] = IF more THEN [pc |-> "sent", upTo |-> LatestSeq(v)] ELSE Idle]
     /\ UNCHANGED <<thread, post, page, hubVars, met>>

FinishMark(p) == mark[p].pc = "answer" /\ EndMark(p, Apply(view[p], mark[p].thread))
LoseMark(p) == mark[p].pc \in {"sent", "answer", "failed"} /\ EndMark(p, view[p])

(* What the server notices of a socket that is gone changes no panel.      *)
SocketStep(p) == (Register(p) \/ (p \in Roaming /\ Cut(p)) \/ Close(p)) /\ UNCHANGED chatVars

ChatNext == \E p \in Panel :
  \/ Post(p) \/ TellMessage(p) \/ LeaveUntold(p) \/ LoseAnswer(p) \/ Answer(p)
  \/ \E key \in 1..MaxPosts : InsertMessage(p, key)
  \/ UpdateMark(p) \/ TellMark(p) \/ LeaveMarkUntold(p) \/ LoseMark(p) \/ FinishMark(p)
  \/ ReadThread(p) \/ FinishLoad(p) \/ FinishCatchUp(p) \/ FailPage(p) \/ Poll(p)
  \/ Receive(p) \/ Reconnect(p) \/ SocketStep(p)

ChatSpec == ChatInit /\ [][ChatNext]_<<hubVars, chatVars>>

-----------------------------------------------------------------------------
ChatTypeOK ==
  /\ Len(thread.log) <= MaxMessages
  /\ thread.read \in [Side -> 0..MaxMessages]
  /\ \A p \in Panel : /\ view[p].held \subseteq Seqs
                      /\ view[p].outbox \subseteq 1..MaxPosts
                      /\ \A f \in DOMAIN NoThread : view[p].thread[f] \in 0..MaxMessages

(* A panel with nothing on its way: connected, its queue empty, no request *)
(* of its own under way and nobody between writing and telling.            *)
Quiet(p) == /\ socket[p] = "open" /\ out[p] = <<>> /\ page[p] = Idle
            /\ post[p] = Idle /\ mark[p] = Idle /\ LockIsFree

(* A panel at rest shows every message of the thread (support.go, rule 3,  *)
(* "hech narsa tushib qolmaydi"): of those the live channel lost, none is  *)
(* skipped by asking for what follows the last one held.                   *)
NothingMissed == met \in Harmless => \A p \in Panel : Quiet(p) => view[p].held = Seqs

(* A panel at rest shows the server's count of what is unread, and how far *)
(* the other side has read, in whatever order the answers, the events and  *)
(* the pages came (models.dart, merge).                                    *)
BadgeIsRight == met = "none" =>
  \A p \in Panel : Quiet(p) => view[p].thread = ThreadView(thread, SideOf[p])

(* Not so when a mark was stored and could not be told: what the other     *)
(* panels, and its own, show is old until they ask for a page.             *)
BadgeIsRightUntold == met \in Harmless =>
  \A p \in Panel : Quiet(p) => view[p].thread = ThreadView(thread, SideOf[p])

(* Not so after a mishap: what is skipped once stays skipped, since the    *)
(* panel only asks for what follows the largest number it holds.           *)
NoHole == \A p \in Panel : Quiet(p) => \A n \in 1..LatestSeq(view[p]) : n \in view[p].held
NoneOvertaken == met \in {"none", "overtaken"} => NoHole
NoneWhileLoading == met \in {"none", "loading"} => NoHole
NoneWhileRising == met \in {"none", "rising"} => NoHole
NoneByFailing == met \in {"none", "failing"} => NoHole
NoneUntold == met \in {"none", "untold"} => NoHole

(* What is marked as read for a side is shown to it, or on its way in a    *)
(* page, unless the side wrote after it (InsertMessage moves the mark of   *)
(* the author, markSeen asks for the largest number shown).                *)
ShownTo(p, n) == n \in view[p].held \/ (page[p] # Idle /\ n \in page[p].items)
ShownIsRead == \A n \in Seqs :
  LET side == Other(SideOf[thread.log[n].from])
  IN n <= thread.read[side] => \/ \E p \in Panel : SideOf[p] = side /\ ShownTo(p, n)
                               \/ \E m \in Seqs : m > n /\ SideOf[thread.log[m].from] = side
OnlyShownIsRead == met \in Harmless => ShownIsRead

(* What is marked is held ("ko'rinib turgan xabarlarini o'qilgan deb       *)
(* belgilaydi", conversation.dart, markSeen).  Not so after a reconnection *)
(* whose page is slower than a live message: the largest number held then  *)
(* passes the messages of the page.                                        *)
OnlyHeldIsRead == met = "none" => \A n \in Seqs :
  LET side == Other(SideOf[thread.log[n].from])
  IN n <= thread.read[side] => \/ \E p \in Panel : SideOf[p] = side /\ n \in view[p].held
                               \/ \E m \in Seqs : m > n /\ SideOf[thread.log[m].from] = side

(* However often it is sent, a message is stored once and shown once: it   *)
(* is not in the outbox of a panel that holds it from the server.          *)
SentOnce == /\ \A m, n \in Seqs : thread.log[m] = thread.log[n] => m = n
            /\ \A p \in Panel : \A n \in view[p].held :
                 thread.log[n].from = p => thread.log[n].key \notin view[p].outbox
=============================================================================
