--------------------------- MODULE CourierDispatch ---------------------------
(***************************************************************************)
(* The courier search: couriers.Dispatcher, the goroutines that run it     *)
(* (httpapi.dispatchOrder), and the handlers and the watchdog that start,  *)
(* stop and clean up after it.                                             *)
(*                                                                         *)
(* A search offers an order to waves of couriers and gives it to the first *)
(* one whose acceptance it can turn into a claim of the courier (an atomic *)
(* UPDATE).  Which searches run is known in memory only; orders and claims *)
(* are in the database.  Operations on an order are atomic here, as        *)
(* OrderLifecycle promises and Orders implements.                          *)
(***************************************************************************)
EXTENDS Integers, Sequences, FiniteSets

CONSTANTS Order, Courier,
          Search,      \* dispatchOrder goroutines (bound: how many at a time)
          None,
          Settings     \* what the runs explore, see below

(* A behaviour keeps one setting: the orders that are placed (a bound),    *)
(* the couriers asked at a time, the unanswered offers in a row before a   *)
(* courier is put off line, whether the assistant and the agent API cancel *)
(* orders too, when couriers switch on and off line, whether they answer   *)
(* the same offer again, whether the process may die and calls may fail.   *)
ASSUME NoneIsNobody == None \notin Order \cup Courier \cup Search
ASSUME CouriersAreFinite == IsFiniteSet(Courier)
ASSUME Options == \A s \in Settings :
  /\ s.orders \in Nat /\ s.waveSize \in Nat \ {0} /\ s.maxMissed \in Nat \ {0}
  /\ {s.sideCancels, s.doubleTaps, s.faults} \subseteq BOOLEAN
  /\ s.toggles \in {"none", "idle", "any"}

VARIABLE setting

WaveSize == setting.waveSize
MaxMissed == setting.maxMissed
SideCancels == setting.sideCancels
Toggles == setting.toggles
DoubleTaps == setting.doubleTaps
Faults == setting.faults

VARIABLES want,     \* what an order wants of the search
          rider,    \* orders.courier_id
          duty,     \* couriers.available, with the reason it is false
          pending,  \* Dispatcher.pending: the registered search of an order
          search,   \* the goroutines
          cards,    \* offers a courier's phone shows
          missed,   \* Dispatcher.missed
          chores    \* what handlers and the watchdog still have to do

vars == <<want, rider, duty, pending, search, cards, missed, chores>>

Response == [courier : Courier, accepted : BOOLEAN]

(* A goroutine: its context, the couriers left in this cycle, the current  *)
(* wave (it stays set when the wave is over), the channel of answers, and  *)
(* awaitWave's count of refusals and set of couriers heard.                *)
Running == [pc : {"start", "check", "wave", "await", "pause", "assign", "release"},
            order : Order, cancelled : BOOLEAN, rest : SUBSET Courier,
            wave : SUBSET Courier, inbox : Seq(Response), rejected : 0..WaveSize,
            answered : SUBSET Courier, winner : Courier \cup {None}]
Off == [pc |-> "off"]

Chore == [todo : {"stop", "stop_and_free", "free"}, order : Order,
          courier : Courier \cup {None}]

TypeOK ==
  /\ want \in [Order -> {"placed", "waiting", "not_found", "closed"}]
  /\ rider \in [Order -> Courier \cup {None}]
  /\ duty \in [Courier -> {"online", "claimed", "missed", "offline"}]
  /\ pending \in [Order -> Search \cup {None}]
  /\ search \in [Search -> Running \cup {Off}]
  /\ cards \in [Courier -> SUBSET Order]
  /\ missed \in [Courier -> 0..(MaxMissed - 1)]
  /\ chores \subseteq Chore

Init ==
  /\ setting \in Settings
  /\ want \in [Order -> {"placed", "closed"}]
  /\ Cardinality({o \in Order : want[o] = "placed"}) = setting.orders
  /\ rider = [o \in Order |-> None]
  /\ duty = [c \in Courier |-> "online"]
  /\ pending = [o \in Order |-> None]
  /\ search = [s \in Search |-> Off]
  /\ cards = [c \in Courier |-> {}]
  /\ missed = [c \in Courier |-> 0]
  /\ chores = {}

Online == {c \in Courier : duty[c] = "online"}
NeedsDispatchRecovery(o) == want[o] = "waiting" /\ rider[o] = None
Live(s) == search[s].pc # "off"
Active(o) == want[o] # "closed" /\ rider[o] # None

-----------------------------------------------------------------------------
(* Starting and stopping *)

(* safeGo: the goroutine exists, it has not registered yet. *)
Spawn(s, o) ==
  /\ search[s] = Off
  /\ search' = [search EXCEPT ![s] =
       [pc |-> "start", order |-> o, cancelled |-> FALSE, rest |-> {}, wave |-> {},
        inbox |-> <<>>, rejected |-> 0, answered |-> {}, winner |-> None]]

Accept(o) ==
  /\ want[o] = "placed"
  /\ want' = [want EXCEPT ![o] = "waiting"]
  /\ \E s \in Search : Spawn(s, o)
  /\ UNCHANGED <<rider, duty, pending, cards, missed, chores>>

(* POST /orders/{id}/dispatch/retry *)
Retry(o) ==
  /\ want[o] = "not_found" /\ rider[o] = None
  /\ want' = [want EXCEPT ![o] = "waiting"]
  /\ \E s \in Search : Spawn(s, o)
  /\ UNCHANGED <<rider, duty, pending, cards, missed, chores>>

(* The watchdog is one goroutine: it stops the search of an order it gave  *)
(* up before it does anything else.                                        *)
WatchdogIsFree == \A t \in chores : t.todo # "stop"

(* Mutant: the answer of IsRunning is taken the wrong way round. *)
RecoverRunning(o) ==
  /\ WatchdogIsFree /\ NeedsDispatchRecovery(o) /\ pending[o] # None
  /\ \E s \in Search : Spawn(s, o)
  /\ UNCHANGED <<want, rider, duty, pending, cards, missed, chores>>

(* The watchdog: a waiting order for which no search runs. *)
Recover(o) ==
  /\ WatchdogIsFree /\ NeedsDispatchRecovery(o) /\ pending[o] = None
  /\ \E s \in Search : Spawn(s, o)
  /\ UNCHANGED <<want, rider, duty, pending, cards, missed, chores>>

(* The watchdog: nobody was found in time; it then stops the search. *)
GiveUp(o) ==
  /\ WatchdogIsFree /\ NeedsDispatchRecovery(o)
  /\ want' = [want EXCEPT ![o] = "not_found"]
  /\ chores' = chores \cup {[todo |-> "stop", order |-> o, courier |-> None]}
  /\ UNCHANGED <<rider, duty, pending, search, cards, missed>>

(* The transition endpoint closes an order (delivered, rejected, cancelled)*)
(* and then cleans up; it knows the courier of the row it saved.           *)
Close(o) ==
  /\ want[o] # "closed"
  /\ want' = [want EXCEPT ![o] = "closed"]
  /\ chores' = chores \cup {[todo |-> "stop_and_free", order |-> o, courier |-> rider[o]]}
  /\ UNCHANGED <<rider, duty, pending, search, cards, missed>>

(* The assistant and the agent API cancel through orders.Service alone.    *)
CancelAside(o) ==
  /\ SideCancels /\ want[o] \in {"placed", "waiting"}
  /\ want' = [want EXCEPT ![o] = "closed"]
  /\ UNCHANGED <<rider, duty, pending, search, cards, missed, chores>>

(* Dispatcher.Cancel: the entry goes at once, the goroutine finds its      *)
(* context done.                                                           *)
StopDispatch(t) ==
  /\ t.todo \in {"stop", "stop_and_free"}
  /\ pending' = [pending EXCEPT ![t.order] = None]
  /\ search' = IF pending[t.order] = None THEN search
               ELSE [search EXCEPT ![pending[t.order]].cancelled = TRUE]
  /\ chores' = (chores \ {t}) \cup
       (IF t.todo = "stop_and_free" /\ t.courier # None THEN {[t EXCEPT !.todo = "free"]} ELSE {})
  /\ UNCHANGED <<want, rider, duty, cards, missed>>

FreeCourier(t) ==
  /\ t.todo = "free"
  /\ duty' = [duty EXCEPT ![t.courier] = "online"]
  /\ chores' = chores \ {t}
  /\ UNCHANGED <<want, rider, pending, search, cards, missed>>

-----------------------------------------------------------------------------
(* Dispatch *)

(* Mutant: the entry is deleted whoever holds it. *)
UnregisterAny(s) == pending' = [pending EXCEPT ![search[s].order] = None]

(* The deferred delete removes only the goroutine's own entry. *)
Unregister(s) ==
  LET o == search[s].order
  IN pending' = IF pending[o] = s THEN [pending EXCEPT ![o] = None] ELSE pending

Exit(s) == search' = [search EXCEPT ![s] = Off] /\ Unregister(s)
Withdraw(o, from) == cards' = [c \in Courier |-> IF c \in from THEN cards[c] \ {o} ELSE cards[c]]

Register(s) ==
  LET o == search[s].order
  IN /\ search[s].pc = "start"
     /\ IF pending[o] # None
        THEN search' = [search EXCEPT ![s] = Off] /\ UNCHANGED pending
        ELSE /\ search' = [search EXCEPT ![s].pc = "check"]
             /\ pending' = [pending EXCEPT ![o] = s]
     /\ UNCHANGED <<want, rider, duty, cards, missed, chores>>

(* Mutant: only "not found" stops a search. *)
ClosedIsNotCancelled(o) == want[o] = "not_found"

IsOrderCancelled(o) == ~ NeedsDispatchRecovery(o)

(* IsOrderCancelled and the candidates of the new cycle (those in reach);  *)
(* both queries fail in a context that is done.                            *)
Check(s) ==
  /\ search[s].pc = "check"
  /\ \/ /\ Faults \/ search[s].cancelled \/ IsOrderCancelled(search[s].order)
        /\ Exit(s)
     \/ /\ ~ search[s].cancelled /\ ~ IsOrderCancelled(search[s].order)
        /\ \E near \in SUBSET Online :
             search' = [search EXCEPT ![s].pc = "wave", ![s].rest = near]
        /\ UNCHANGED pending
  /\ UNCHANGED <<want, rider, duty, cards, missed, chores>>

(* Mutant: old answers stay in the channel. *)
WaveUndrained(g, wave) ==
  [g EXCEPT !.pc = "await", !.wave = wave, !.rest = @ \ wave, !.rejected = 0, !.answered = {}]

(* The next wave: the answers of the last one are thrown away. *)
NextWave(g, wave) ==
  [g EXCEPT !.pc = "await", !.wave = wave, !.rest = @ \ wave, !.inbox = <<>>,
            !.rejected = 0, !.answered = {}]

StartWave(s) ==
  /\ search[s].pc = "wave"
  /\ \E wave \in SUBSET search[s].rest :
       /\ wave # {}
       /\ Cardinality(wave) = WaveSize \/ (wave = search[s].rest /\ Cardinality(wave) < WaveSize)
       /\ search' = [search EXCEPT ![s] = NextWave(@, wave)]
       /\ cards' = [c \in Courier |-> IF c \in wave THEN cards[c] \cup {search[s].order}
                                                    ELSE cards[c]]
  /\ UNCHANGED <<want, rider, duty, pending, missed, chores>>

EndCycle(s) ==
  /\ search[s].pc = "wave" /\ search[s].rest = {}
  /\ search' = [search EXCEPT ![s].pc = "pause"]
  /\ UNCHANGED <<want, rider, duty, pending, cards, missed, chores>>

EndPause(s) ==
  /\ search[s].pc = "pause"
  /\ \/ search' = [search EXCEPT ![s].pc = "check"] /\ UNCHANGED pending
     \/ search[s].cancelled /\ Exit(s)
  /\ UNCHANGED <<want, rider, duty, cards, missed, chores>>

(* HandleResponse, when it takes the answer; a phone that answered shows   *)
(* the offer no more.                                                      *)
HandleResponse(c, o, accepted) ==
  LET s == pending[o]
      heard == search[s].answered \cup {search[s].inbox[i].courier : i \in DOMAIN search[s].inbox}
  IN /\ s # None
     /\ c \in search[s].wave /\ Len(search[s].inbox) < WaveSize
     /\ DoubleTaps \/ c \notin heard
     /\ search' = [search EXCEPT ![s].inbox = Append(@, [courier |-> c, accepted |-> accepted])]
     /\ Withdraw(o, {c})
     /\ UNCHANGED <<want, rider, duty, pending, missed, chores>>

-----------------------------------------------------------------------------
(* awaitWave: the goroutine takes whichever is ready of an answer, the     *)
(* timer and its context; if several are, any of them.                     *)

Awaits(s) == search[s].pc = "await"
Answer(s) == Head(search[s].inbox)

(* Every answer resets the count of missed offers. *)
Hear(s) ==
  /\ Awaits(s) /\ search[s].inbox # <<>>
  /\ missed' = [missed EXCEPT ![Answer(s).courier] = 0]

(* Mutant: the claim is an unconditional SetAvailable(false). *)
AlwaysClaimable(c) == TRUE

Claimable(c) == c \in Online

(* A refusal, or an acceptance by a courier who is busy by now. *)
CountRefusal(s) ==
  /\ Hear(s)
  /\ Answer(s).accepted => ~ search[s].cancelled /\ ~ Claimable(Answer(s).courier)
  /\ search' = [search EXCEPT ![s].inbox = Tail(@), ![s].rejected = @ + 1,
                  ![s].answered = @ \cup {Answer(s).courier},
                  ![s].pc = IF search[s].rejected + 1 >= Cardinality(search[s].wave)
                            THEN "wave" ELSE "await"]
  /\ UNCHANGED <<want, rider, duty, pending, cards, chores>>

(* ClaimIfAvailable, then the offers of the others are withdrawn. *)
Claim(s) ==
  LET c == Answer(s).courier
  IN /\ Hear(s) /\ Answer(s).accepted /\ ~ search[s].cancelled /\ Claimable(c)
     /\ duty' = [duty EXCEPT ![c] = "claimed"]
     /\ search' = [search EXCEPT ![s].pc = "assign", ![s].winner = c, ![s].inbox = <<>>]
     /\ Unregister(s)
     /\ Withdraw(search[s].order, search[s].wave \ {c})
     /\ UNCHANGED <<want, rider, chores>>

(* The claim in a context that is done fails, and Dispatch with it. *)
ClaimFails(s) ==
  /\ Hear(s) /\ Answer(s).accepted /\ (search[s].cancelled \/ Faults)
  /\ Exit(s)
  /\ UNCHANGED <<want, rider, duty, cards, chores>>

(* Couriers who let the whole time pass miss an offer; MaxMissed in a row  *)
(* put them off line.                                                      *)
Silent(s) == search[s].wave \ search[s].answered

Timeout(s) ==
  /\ Awaits(s)
  /\ Withdraw(search[s].order, search[s].wave)
  /\ missed' = [c \in Courier |-> IF c \in Silent(s) THEN (missed[c] + 1) % MaxMissed
                                                     ELSE missed[c]]
  /\ duty' = [c \in Courier |-> IF c \in Silent(s) /\ missed[c] + 1 = MaxMissed
                                  /\ ~ search[s].cancelled /\ duty[c] = "online"
                                THEN "missed" ELSE duty[c]]
  /\ search' = [search EXCEPT ![s].pc = "wave"]
  /\ UNCHANGED <<want, rider, pending, chores>>

ContextDone(s) ==
  /\ Awaits(s) /\ search[s].cancelled
  /\ Withdraw(search[s].order, search[s].wave)
  /\ Exit(s)
  /\ UNCHANGED <<want, rider, duty, missed, chores>>

-----------------------------------------------------------------------------
(* dispatchOrder, after the search: the order may have been closed, or got *)
(* another courier, in the meantime; then the courier is free again.       *)
MayAssign(o) == want[o] # "closed" /\ rider[o] = None

AssignCourier(s) ==
  LET o == search[s].order
  IN /\ search[s].pc = "assign"
     /\ \/ /\ MayAssign(o)
           /\ rider' = [rider EXCEPT ![o] = search[s].winner]
           /\ search' = [search EXCEPT ![s] = Off]
        \/ /\ ~ MayAssign(o) \/ Faults
           /\ search' = [search EXCEPT ![s].pc = "release"]
           /\ UNCHANGED rider
     /\ UNCHANGED <<want, duty, pending, cards, missed, chores>>

(* Mutant: the compensation is forgotten. *)
ForgetCourier(s) ==
  /\ search[s].pc = "release"
  /\ search' = [search EXCEPT ![s] = Off]
  /\ UNCHANGED <<want, rider, duty, pending, cards, missed, chores>>

ReleaseCourier(s) ==
  /\ search[s].pc = "release"
  /\ \/ duty' = [duty EXCEPT ![search[s].winner] = "online"]
     \/ Faults /\ UNCHANGED duty
  /\ search' = [search EXCEPT ![s] = Off]
  /\ UNCHANGED <<want, rider, pending, cards, missed, chores>>

-----------------------------------------------------------------------------
(* POST /couriers/{id}/available, and the end of the process. *)

(* Off line only without an active order. *)
GoOffline(c) ==
  /\ Toggles # "none"
  /\ ~ \E o \in Order : Active(o) /\ rider[o] = c
  /\ duty[c] = "online"
  /\ duty' = [duty EXCEPT ![c] = "offline"]
  /\ UNCHANGED <<want, rider, pending, search, cards, missed, chores>>

(* On line whenever the courier likes, one who has an order included: the  *)
(* endpoint looks for an active order only before it puts a courier off    *)
(* line.  With "idle", couriers who are claimed do not touch the switch.   *)
GoOnline(c) ==
  /\ Toggles = "any" \/ (Toggles = "idle" /\ duty[c] # "claimed")
  /\ duty[c] # "online"
  /\ duty' = [duty EXCEPT ![c] = "online"]
  /\ UNCHANGED <<want, rider, pending, search, cards, missed, chores>>

(* The offers on the phones run out by themselves. *)
Crash ==
  /\ Faults
  /\ \E s \in Search : Live(s)
  /\ pending' = [o \in Order |-> None]
  /\ search' = [s \in Search |-> Off]
  /\ cards' = [c \in Courier |-> {}]
  /\ missed' = [c \in Courier |-> 0]
  /\ chores' = {}
  /\ UNCHANGED <<want, rider, duty>>

Step(s) ==
  \/ Register(s) \/ Check(s) \/ StartWave(s) \/ EndCycle(s) \/ EndPause(s)
  \/ CountRefusal(s) \/ Claim(s) \/ ClaimFails(s) \/ Timeout(s) \/ ContextDone(s)
  \/ AssignCourier(s) \/ ReleaseCourier(s)

Next == UNCHANGED setting /\ (
  \/ \E o \in Order : Accept(o) \/ Retry(o) \/ Recover(o) \/ GiveUp(o) \/ Close(o) \/ CancelAside(o)
  \/ \E t \in chores : StopDispatch(t) \/ FreeCourier(t)
  \/ \E c \in Courier, o \in Order, accepted \in BOOLEAN : HandleResponse(c, o, accepted)
  \/ \E s \in Search : Step(s)
  \/ \E c \in Courier : GoOffline(c) \/ GoOnline(c)
  \/ Crash)

Spec == Init /\ [][Next]_<<vars, setting>>

(* Goroutines run, timers fire, the watchdog ticks, and the process does   *)
(* not die for ever again.                                                 *)
Fairness ==
  /\ \A s \in Search : WF_vars(Step(s)) /\ WF_vars(Timeout(s))
  /\ \A o \in Order : WF_vars(Recover(o))
  /\ WF_vars(\E t \in chores : StopDispatch(t) \/ FreeCourier(t))
  /\ <>[][~ Crash]_vars

FairSpec == Spec /\ Fairness

-----------------------------------------------------------------------------
(* Properties *)

(* A courier delivers one order at a time: that is what the claim is for   *)
(* (courier.go:101-109).  Not so if couriers switch on line at any time.   *)
OneActiveOrder == Toggles # "any" =>
  \A o1, o2 \in Order :
    o1 # o2 /\ Active(o1) /\ Active(o2) => rider[o1] # rider[o2]

(* The courier a search claims is one it has just asked (dispatch.go:209-  *)
(* 211, 428-434: answers of an old wave do not count in a new one).        *)
WinnerWasAsked ==
  \A s \in Search :
    search[s].pc \in {"assign", "release"} => search[s].winner \in search[s].wave

(* A courier who is marked busy is: for an active order, for a search that *)
(* is about to assign or to let go, or until a handler that has already    *)
(* closed the order frees the courier (httpapi/dispatch.go:143-147).  Not  *)
(* so when a call fails, or when the assistant cancels the order: nobody   *)
(* frees the courier then.                                                 *)
BusyForAReason == ~ Faults /\ ~ SideCancels =>
  \A c \in Courier : duty[c] = "claimed" =>
    \/ \E o \in Order : Active(o) /\ rider[o] = c
    \/ \E s \in Search : search[s].pc \in {"assign", "release"} /\ search[s].winner = c
    \/ \E t \in chores : t.courier = c

(* At most one goroutine of an order is registered, offers and claims: one *)
(* that lost its entry is on its way out (dispatch.go:337-346).            *)
OneSearchPerOrder ==
  \A s \in Search :
    search[s].pc \in {"check", "wave", "await", "pause"} =>
      search[s].cancelled \/ pending[search[s].order] = s

(* An offer on a phone belongs to a wave that still waits for answers      *)
(* (dispatch.go:320-322, 448-456).                                         *)
OpenOffersAreLive ==
  \A c \in Courier : \A o \in cards[c] :
    \E s \in Search : Awaits(s) /\ search[s].order = o /\ c \in search[s].wave

(* A wave ends before its time only when every courier of it has refused   *)
(* ("hammasi rad etdi", dispatch.go:643, 683-686).                         *)
EarlyEndMeansAllRefused ==
  [][\A s \in Search :
       CountRefusal(s) /\ search'[s].pc = "wave" => Silent(s)' = {}]_vars

(* Only who was silent for the whole wave misses an offer (dispatch.go:    *)
(* 716-722, missed.go:8-18).                                               *)
OnlySilentMiss ==
  [][\A c \in Courier :
       missed'[c] > missed[c] \/ (duty[c] = "online" /\ duty'[c] = "missed") =>
         \E s \in Search :
           /\ Awaits(s) /\ c \in Silent(s)
           /\ c \notin {search[s].inbox[i].courier : i \in DOMAIN search[s].inbox}]_vars

(* An answer that comes after its wave is refused (dispatch.go:744-751).   *)
LateAnswersRefused ==
  [][\A s \in Search :
       Live(s) /\ search'[s].pc # "off" /\ Len(search'[s].inbox) > Len(search[s].inbox)
         => Awaits(s)]_vars

(* An order never changes its courier.                                     *)
RiderStays == [][\A o \in Order : rider[o] # None => rider'[o] = rider[o]]_vars

(* A waiting order has a search again, sooner or later, whatever died      *)
(* (dispatch_watchdog.go:160-172).                                         *)
SearchComesBack ==
  \A o \in Order :
    NeedsDispatchRecovery(o) ~>
      \/ ~ NeedsDispatchRecovery(o)
      \/ \E s \in Search : Live(s) /\ search[s].order = o /\ pending[o] = s

(* No goroutine goes on searching for a closed order (dispatch.go:165-171).*)
NoZombieSearch ==
  \A o \in Order :
    want[o] = "closed" ~> \A s \in Search : ~ (Live(s) /\ search[s].order = o)
==============================================================================
