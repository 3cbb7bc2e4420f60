------------------------------- MODULE Alerts -------------------------------
(***************************************************************************)
(* Notifications of one restaurant (internal/alerts) and the notification  *)
(* centre of its panels (restaurant_panel, notification_center.dart).      *)
(*                                                                         *)
(* An event of an order, a payment or the staff publishes an alert in a    *)
(* task of its own, a job does so at every tick; the key of the event lets *)
(* it be stored once.  Storing and telling are under the lock of the       *)
(* restaurant, the counts a panel asks for are read without it.            *)
(***************************************************************************)
EXTENDS Hub, FiniteSets

CONSTANTS
  Source,        \* what publishes: one task of an event, or one job
  KeyOf,         \* KeyOf[s]: the DedupeKey of what s publishes
  Job,           \* the sources that try again at every tick
  Center,        \* panels of the restaurant, devices of the hub
  ManagerTopic,  \* alerts.Topic(restaurant)
  MaxReads       \* bound: how often the user of a panel marks as read

ASSUME AlertsAssumption == /\ Center \subseteq Device /\ Job \subseteq Source
                           /\ MaxReads \in Nat

(* The socket of a panel is put under the topic of its restaurant.         *)
ASSUME CentersHear == \A p \in Center : ManagerTopic \in Hears[p]

VARIABLES
  alerts,   \* restaurant_notifications in the order of seq: key, read
  publish,  \* what a source is at
  center,   \* what a panel holds
  sync,     \* what it asks for
  reading,  \* the read mark its user has asked for
  upset     \* the worst that has happened to a panel, see Worse

alertVars == <<alerts, publish, center, sync, reading, upset>>

Before == "before"  \* the key of an alert older than the panel, read since

Latest == Len(alerts)
Unread == Cardinality({n \in 1..Latest : ~alerts[n].read})

AlertsInit ==
  /\ HubInit
  /\ alerts \in {<<>>, <<[key |-> Before, read |-> TRUE]>>}
  /\ publish = [s \in Source |-> [pc |-> "due"]]
  /\ center = [p \in Center |-> [latest |-> 0, base |-> 0, seen |-> {}, unread |-> 0,
                                 again |-> FALSE, reads |-> 0]]
  /\ sync = [p \in Center |-> [pc |-> "count"]]
  /\ reading = [p \in Center |-> Idle]
  /\ upset = "none"

-----------------------------------------------------------------------------
(* The server *)

(* Mutant: an alert is told after the lock is let go.                      *)
AlertUnlocked == TRUE

(* lockFor(restaurantID): held from the write until everybody is told.     *)
AlertLockFree == /\ \A s \in Source : publish[s].pc # "tell"
                 /\ \A p \in Center : reading[p].pc # "tell"

Known(key) == \E n \in 1..Latest : alerts[n].key = key

(* Something is told while a socket is rising; a socket comes up while the *)
(* panel is asking; what a panel asks for fails.                           *)
Worse == [none |-> 0, rising |-> 1, overlap |-> 2, failed |-> 3]
Upset(mishap, here) == upset' = IF here /\ Worse[mishap] > Worse[upset] THEN mishap ELSE upset
CenterRises == \E p \in Center : socket[p] = "rising"

TellAlerts(e) == /\ Send([topic \in {ManagerTopic} |-> e])
                 /\ Upset("rising", CenterRises)
(* Publish: Insert, ON CONFLICT (restaurant_id, dedupe_key) DO NOTHING.    *)
InsertAlert(s) ==
  /\ publish[s].pc = "due" /\ AlertLockFree
  /\ IF Known(KeyOf[s])
     THEN /\ publish' = [publish EXCEPT ![s] = [pc |-> "done"]] /\ UNCHANGED alerts
     ELSE /\ publish' = [publish EXCEPT ![s] = [pc |-> "tell", seq |-> Latest + 1]]
          /\ alerts' = Append(alerts, [key |-> KeyOf[s], read |-> FALSE])
  /\ UNCHANGED <<center, sync, reading, hubVars, upset>>

(* Publish: the count, left out of the event if it cannot be read.         *)
TellAlert(s) ==
  /\ publish[s].pc = "tell"
  /\ \E count \in {Unread, -1} :
       TellAlerts([kind |-> "alert", seq |-> publish[s].seq, unread |-> count])
  /\ publish' = [publish EXCEPT ![s] = [pc |-> "done"]]
  /\ UNCHANGED <<alerts, center, sync, reading>>

(* publishAsync: an error is only logged.                                  *)
LoseAlert(s) == /\ publish[s].pc = "due"
                /\ publish' = [publish EXCEPT ![s] = [pc |-> "done"]]
                /\ UNCHANGED <<alerts, center, sync, reading, hubVars, upset>>

(* CheckWaitingOrders, CheckDailyReports: the next tick finds the order or *)
(* the day again.                                                          *)
Tick(s) == /\ s \in Job /\ publish[s].pc = "done"
           /\ publish' = [publish EXCEPT ![s] = [pc |-> "due"]]
           /\ UNCHANGED <<alerts, center, sync, reading, hubVars, upset>>

(* Mutant: everything is marked, also what came meanwhile.                 *)
MarkEverything(upTo) == [n \in 1..Latest |-> [alerts[n] EXCEPT !.read = TRUE]]

(* MarkAllRead: up to the number the panel has shown.                      *)
MarkUpTo(upTo) == [n \in 1..Latest |-> [alerts[n] EXCEPT !.read = @ \/ n <= upTo]]

MarkOne(seq) == [alerts EXCEPT ![seq].read = TRUE]

UpdateRead(p) ==
  /\ reading[p].pc = "sent" /\ AlertLockFree
  /\ alerts' = IF reading[p].all THEN MarkUpTo(reading[p].seq) ELSE MarkOne(reading[p].seq)
  /\ reading' = [reading EXCEPT ![p] = [pc |-> "tell", changed |-> alerts' # alerts]]
  /\ UNCHANGED <<publish, center, sync, hubVars, upset>>

TellRead(p) ==
  /\ reading[p].pc = "tell"
  /\ IF reading[p].changed THEN TellAlerts([kind |-> "alertsRead", seq |-> 0, unread |-> Unread])
     ELSE UNCHANGED <<hubVars, upset>>
  /\ reading' = [reading EXCEPT ![p] = [pc |-> "answer", unread |-> Unread]]
  /\ UNCHANGED <<alerts, publish, center, sync>>

(* Summary: the count first, the latest number after it.                   *)
ReadCount(p) ==
  /\ sync[p].pc = "count"
  /\ sync' = [sync EXCEPT ![p] = [pc |-> "latest", unread |-> Unread]]
  /\ UNCHANGED <<alerts, publish, center, reading, hubVars, upset>>

ReadLatest(p) ==
  /\ sync[p].pc = "latest"
  /\ sync' = [sync EXCEPT ![p] = [pc |-> "summary", unread |-> @.unread, latest |-> Latest]]
  /\ UNCHANGED <<alerts, publish, center, reading, hubVars, upset>>

(* Mutant: the count of the page instead of the count of all.              *)
ReadUnreadOfPage(p) ==
  /\ sync[p].pc = "listed"
  /\ sync' = [sync EXCEPT ![p] = [pc |-> "list", items |-> @.items, unread |-> Cardinality(@.items)]]
  /\ UNCHANGED <<alerts, publish, center, reading, hubVars, upset>>

(* GET notifications?after=: the items first, in the step in which the     *)
(* panel asks (see Asked), the count after them.                           *)
ReadUnread(p) ==
  /\ sync[p].pc = "listed"
  /\ sync' = [sync EXCEPT ![p] = [pc |-> "list", items |-> @.items, unread |-> Unread]]
  /\ UNCHANGED <<alerts, publish, center, reading, hubVars, upset>>

-----------------------------------------------------------------------------
(* The panel *)

(* sync: one at a time; asked for meanwhile, it goes round again.          *)
Asked(c) == IF c.latest = 0 THEN [pc |-> "count"]
            ELSE [pc |-> "listed", items |-> {n \in 1..Latest : n > c.latest}]

AskSync(p, c) ==
  IF sync[p] = Idle
  THEN sync' = [sync EXCEPT ![p] = Asked(c)] /\ center' = [center EXCEPT ![p] = c]
  ELSE center' = [center EXCEPT ![p] = [c EXCEPT !.again = TRUE]] /\ UNCHANGED sync

Round(p, c) == /\ center' = [center EXCEPT ![p] = [c EXCEPT !.again = FALSE]]
               /\ sync' = [sync EXCEPT ![p] = IF c.again THEN Asked(c) ELSE Idle]

Largest(S) == CHOOSE n \in S : \A m \in S : m <= n

(* _accept: once by id, and the largest number is kept.                    *)
Accept(c, items) == IF items = {} THEN c ELSE
  [c EXCEPT !.seen = @ \cup items,
            !.base = IF c.latest = 0 THEN Largest(items) - 1 ELSE @,
            !.latest = IF Largest(items) > @ THEN Largest(items) ELSE @]

(* refreshSummary: the first number known; later a larger one asks for     *)
(* what lies between.                                                      *)
FinishSummary(p) ==
  LET s == sync[p]
      c == [center[p] EXCEPT !.unread = s.unread]
  IN /\ s.pc = "summary"
     /\ Round(p, IF c.latest = 0 THEN [c EXCEPT !.latest = s.latest, !.base = s.latest]
                 ELSE [c EXCEPT !.again = @ \/ s.latest > c.latest])
     /\ UNCHANGED <<alerts, publish, reading, hubVars, upset>>

FinishList(p) ==
  /\ sync[p].pc = "list"
  /\ Round(p, [Accept(center[p], sync[p].items) EXCEPT !.unread = sync[p].unread])
  /\ UNCHANGED <<alerts, publish, reading, hubVars, upset>>

(* A read that fails changes nothing, wherever it fails: the round ends,   *)
(* what was asked for meanwhile is forgotten.                              *)
FailSync(p) ==
  /\ sync[p].pc \in {"summary", "list"}
  /\ sync' = [sync EXCEPT ![p] = Idle] /\ center' = [center EXCEPT ![p].again = FALSE]
  /\ Upset("failed", TRUE)
  /\ UNCHANGED <<alerts, publish, reading, hubVars>>

(* The timer: 15 s without the socket, 60 s with it.                       *)
Remind(p) == /\ sync[p] = Idle
             /\ AskSync(p, center[p])
             /\ UNCHANGED <<alerts, publish, reading, hubVars, upset>>

Resume(p) == /\ Connect(p)
             /\ AskSync(p, center[p])
             /\ Upset("overlap", sync[p] # Idle)
             /\ UNCHANGED <<alerts, publish, reading>>

CenterSocket(p) == (Register(p) \/ Cut(p) \/ Close(p) \/ Unregister(p)) /\ UNCHANGED alertVars

(* handleEvent: a new alert, or alerts marked as read elsewhere; either    *)
(* brings the count of the server.                                         *)
Hear(p) ==
  LET e == Head(out[p])
      c == IF e.kind = "alert" THEN Accept(center[p], {e.seq}) ELSE center[p]
  IN /\ Write(p) /\ e.kind \in {"alert", "alertsRead"}
     /\ center' = [center EXCEPT ![p] = IF e.unread >= 0 THEN [c EXCEPT !.unread = e.unread] ELSE c]
     /\ UNCHANGED <<alerts, publish, sync, reading, upset>>

(* The user opens one alert, or marks all that the panel has.              *)
Mark(p) ==
  /\ reading[p] = Idle /\ center[p].reads < MaxReads
  /\ \E request \in [pc : {"sent"}, all : {TRUE}, seq : {center[p].latest} \ {0}]
                    \cup [pc : {"sent"}, all : {FALSE}, seq : center[p].seen] :
       reading' = [reading EXCEPT ![p] = request]
  /\ center' = [center EXCEPT ![p].reads = @ + 1]
  /\ UNCHANGED <<alerts, publish, sync, hubVars, upset>>

FinishRead(p) ==
  /\ reading[p].pc = "answer"
  /\ center' = [center EXCEPT ![p].unread = reading[p].unread]
  /\ reading' = [reading EXCEPT ![p] = Idle]
  /\ UNCHANGED <<alerts, publish, sync, hubVars, upset>>

(* The mark, the count after it, which leaves the mark untold, or the      *)
(* answer fails: the panel changes nothing.                                *)
FailRead(p) == /\ reading[p].pc \in {"sent", "tell", "answer"}
               /\ reading' = [reading EXCEPT ![p] = Idle]
               /\ UNCHANGED <<alerts, publish, center, sync, hubVars, upset>>

AlertsNext ==
  \/ \E s \in Source : InsertAlert(s) \/ TellAlert(s) \/ LoseAlert(s) \/ Tick(s)
  \/ \E p \in Center : \/ ReadCount(p) \/ ReadLatest(p) \/ ReadUnread(p)
                       \/ FinishSummary(p) \/ FinishList(p) \/ FailSync(p) \/ Remind(p)
                       \/ Resume(p) \/ CenterSocket(p) \/ Hear(p)
                       \/ Mark(p) \/ UpdateRead(p) \/ TellRead(p) \/ FinishRead(p) \/ FailRead(p)

(* Requests are served, the timer fires, the socket's queue is written;    *)
(* asked again and again, the server answers at last.                      *)
allVars == <<hubVars, alertVars>>
AlertsFair ==
  /\ \A s \in Source : WF_allVars(TellAlert(s))
  /\ \A p \in Center : /\ WF_allVars(Remind(p)) /\ WF_allVars(Hear(p))
                       /\ WF_allVars(ReadCount(p) \/ ReadLatest(p) \/ ReadUnread(p))
                       /\ SF_allVars(FinishSummary(p) \/ FinishList(p))
                       /\ WF_allVars(UpdateRead(p) \/ TellRead(p) \/ FinishRead(p))

AlertsSpec == AlertsInit /\ [][AlertsNext]_allVars /\ AlertsFair

-----------------------------------------------------------------------------
AlertsTypeOK ==
  /\ \A n \in 1..Latest : alerts[n].key \in {Before} \cup {KeyOf[s] : s \in Source} /\ alerts[n].read \in BOOLEAN
  /\ \A p \in Center : center[p].seen \subseteq 1..Latest /\ center[p].latest <= Latest

(* One event, one alert: whatever is published again, by another task or   *)
(* by the next tick, the restaurant hears of it once (alerts.go, Insert).  *)
OneAlertPerEvent == \A m, n \in 1..Latest : alerts[m].key = alerts[n].key => m = n

Settled(p) == /\ socket[p] = "open" /\ out[p] = <<>> /\ sync[p] = Idle /\ AlertLockFree

(* A panel at rest has been given every alert since the first number it    *)
(* knew: none is skipped between what it held when the socket broke and    *)
(* what came after (notification_center.dart, "HECH BIRI tushib            *)
(* qolmaydi").                                                             *)
AllGiven == \A p \in Center :
  Settled(p) => \A n \in (center[p].base + 1)..Latest : n \in center[p].seen
NoneSkipped == upset = "none" => AllGiven

(* What a panel holds has no gap ("HECH BIRI tushib qolmaydi"): the sync    *)
(* after a reconnection gives every alert after the last one held.  Not so *)
(* when something is told while the socket rises, nor when the socket      *)
(* comes up while an older sync is under way: a live alert raises the      *)
(* largest number past what was missed.                                    *)
NoGap == \A p \in Center :
  Settled(p) => \A n \in (center[p].base + 1)..center[p].latest : n \in center[p].seen
NoneSkippedRising == upset \in {"none", "rising"} => NoGap
NoneSkippedByOverlap == upset \in {"none", "overlap"} => NoGap

(* What no panel has been given, or is about to be given by a page it has  *)
(* asked for, is not marked as read: what comes while the button is        *)
(* pressed stays unread (alerts.go, MarkAllRead).                          *)
OnTheWay(p) == IF sync[p].pc \in {"listed", "list"} THEN sync[p].items ELSE {}
OnlySeenIsRead == upset = "none" => \A n \in 1..Latest :
  alerts[n].read /\ alerts[n].key # Before => \E p \in Center : n \in center[p].seen \cup OnTheWay(p) \cup 1..center[p].base

(* A count that came late is put right: in the end the badge of a panel    *)
(* shows what the server counts.                                           *)
BadgeSettles == \A p \in Center : <>[](center[p].unread = Unread)
=============================================================================
