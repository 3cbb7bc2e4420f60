----------------------- MODULE CourierDispatchProofs -----------------------
(***************************************************************************)
(* Proofs about the courier search: what its runs check holds for any      *)
(* number of orders, couriers and goroutines and in every setting.         *)
(*                                                                         *)
(* The argument has three parts.  A goroutine is sane: what is in its      *)
(* channel answers the wave it keeps, and the one it claimed is of that    *)
(* wave.  The entries of Dispatcher.pending point at goroutines that       *)
(* search, and a goroutine that lost its entry is cancelled.  And a courier*)
(* who is claimed is a token that exactly one holder has: a search about   *)
(* to assign or let go, an active order, or a handler that will free it.   *)
(* Every action hands the token on, drops it, or makes it from a courier   *)
(* who was on line, whom nobody held.                                      *)
(***************************************************************************)
EXTENDS CourierDispatch, FiniteSetTheorems, SequenceTheorems, TLAPS

Searching == {"check", "wave", "await", "pause"}
Holds(s) == search[s].pc \in {"assign", "release"}

Sane(g) ==
  /\ \A i \in DOMAIN g.inbox : g.inbox[i].courier \in g.wave
  /\ g.pc \in {"assign", "release"} => g.winner \in g.wave
  /\ g.pc = "await" => g.rejected < Cardinality(g.wave) /\ Cardinality(g.wave) <= WaveSize

AllSane == \A s \in Search : Live(s) => Sane(search[s])

Registered ==
  \A o \in Order : pending[o] # None =>
    search[pending[o]].pc \in Searching /\ search[pending[o]].order = o

ChoresGood ==
  \A t \in chores : /\ t.todo = "stop" => t.courier = None
                    /\ t.todo = "free" => t.courier # None

(* The holders of a courier, and that they exclude one another.            *)
Excluded(t) == /\ \A o \in Order : Active(o) => rider[o] # t.courier
               /\ \A s \in Search : Holds(s) => search[s].winner # t.courier

OneHolder ==
  /\ \A o1, o2 \in Order : Active(o1) /\ Active(o2) /\ rider[o1] = rider[o2] => o1 = o2
  /\ \A s1, s2 \in Search :
       Holds(s1) /\ Holds(s2) /\ search[s1].winner = search[s2].winner => s1 = s2
  /\ \A o \in Order, s \in Search : Active(o) /\ Holds(s) => rider[o] # search[s].winner
  /\ \A t \in chores : Excluded(t)
  /\ \A t1, t2 \in chores : t1.courier = t2.courier /\ t1.courier # None => t1 = t2

HeldIsClaimed ==
  /\ \A o \in Order : Active(o) => duty[rider[o]] = "claimed"
  /\ \A s \in Search : Holds(s) => duty[search[s].winner] = "claimed"
  /\ \A t \in chores : t.courier # None => duty[t.courier] = "claimed"

Tokens == Toggles # "any" => OneHolder /\ HeldIsClaimed

IInv ==
  /\ setting \in Settings /\ TypeOK
  /\ AllSane /\ Registered /\ OneSearchPerOrder
  /\ ChoresGood /\ Tokens /\ BusyForAReason

-----------------------------------------------------------------------------
(* Goroutines *)

(* A goroutine that has not ended has all its fields.                      *)
LEMMA LiveIsRunning ==
  ASSUME TypeOK, NEW s \in Search, Live(s)
  PROVE  search[s] \in Running
BY DEF TypeOK, Live, Off

(* The setting is a constant of a behaviour, and so is what it sizes.      *)
LEMMA SettingStays ==
  ASSUME setting \in Settings, UNCHANGED setting
  PROVE  /\ Running' = Running /\ WaveSize' = WaveSize /\ MaxMissed' = MaxMissed
         /\ Toggles' = Toggles /\ Faults' = Faults /\ SideCancels' = SideCancels
         /\ WaveSize \in Nat \ {0} /\ MaxMissed \in Nat \ {0}
BY Options DEF Running, WaveSize, MaxMissed, Toggles, Faults, SideCancels

(* A wave has a size, and one that is not empty has somebody in it.        *)
LEMMA WavesAreFinite ==
  ASSUME NEW wave \in SUBSET Courier
  PROVE  Cardinality(wave) \in Nat /\ (wave # {} => Cardinality(wave) > 0)
<1>1. IsFiniteSet(wave)
  BY CouriersAreFinite, FS_Subset
<1>2. QED
  BY <1>1, FS_CardinalityType, FS_EmptySet

(* The first answer of a channel comes from the wave, and so do the rest.  *)
LEMMA Answers ==
  ASSUME NEW g \in Running, Sane(g), g.inbox # <<>>
  PROVE  /\ Head(g.inbox).courier \in g.wave /\ Head(g.inbox).courier \in Courier
         /\ Head(g.inbox) \in Response /\ Tail(g.inbox) \in Seq(Response)
         /\ \A i \in DOMAIN Tail(g.inbox) : Tail(g.inbox)[i].courier \in g.wave
<1>1. g.inbox \in Seq(Response) /\ g.wave \in SUBSET Courier
  BY DEF Running
<1>2. /\ Len(g.inbox) \in Nat \ {0} /\ DOMAIN g.inbox = 1..Len(g.inbox)
      /\ Head(g.inbox) = g.inbox[1] /\ Tail(g.inbox) \in Seq(Response)
      /\ Head(g.inbox) \in Response
      /\ Len(Tail(g.inbox)) = Len(g.inbox) - 1
      /\ DOMAIN Tail(g.inbox) = 1..Len(Tail(g.inbox))
      /\ \A i \in 1..Len(Tail(g.inbox)) : Tail(g.inbox)[i] = g.inbox[i + 1]
  BY <1>1, EmptySeq, LenProperties, HeadTailProperties
<1>3. QED
  BY <1>1, <1>2 DEF Sane, Response

(* A goroutine that keeps its type and its sanity replaces the old one.    *)
LEMMA Replaced ==
  ASSUME IInv, UNCHANGED setting, NEW s \in Search, NEW n,
         search' = [search EXCEPT ![s] = n],
         n = Off \/ (n \in Running /\ Sane(n))
  PROVE  search' \in [Search -> Running' \cup {Off}] /\ AllSane'
<1>1. n \in Running \cup {Off} /\ Running' = Running
  BY SettingStays DEF IInv
<1>2. ASSUME NEW r \in Search, Live(r)' PROVE Sane(search[r])'
  <2>1. search'[r] = IF r = s THEN n ELSE search[r]
    BY DEF IInv, TypeOK
  <2>2. Sane(search'[r])
    BY <1>2, <2>1 DEF Live, Off, IInv, AllSane
  <2>3. QED
    BY <2>2, SettingStays DEF Sane, IInv
<1>3. QED
  BY <1>1, <1>2 DEF AllSane, IInv, TypeOK

-----------------------------------------------------------------------------
(* Types, and the sanity of goroutines, action by action *)

(* A goroutine starts with an empty wave and an empty channel (safeGo).    *)
LEMMA SpawnSane ==
  ASSUME IInv, UNCHANGED setting, NEW o \in Order, NEW s \in Search, Spawn(s, o)
  PROVE  search' \in [Search -> Running' \cup {Off}] /\ AllSane'
<1> DEFINE n == [pc |-> "start", order |-> o, cancelled |-> FALSE, rest |-> {}, wave |-> {},
                 inbox |-> <<>>, rejected |-> 0, answered |-> {}, winner |-> None]
<1>1. n \in Running
  BY SettingStays, EmptySeq DEF IInv, Running
<1>2. Sane(n)
  BY DEF Sane
<1>3. search' = [search EXCEPT ![s] = n]
  BY DEF Spawn
<1> HIDE DEF n
<1>4. QED
  BY <1>1, <1>2, <1>3, Replaced

(* Cancelling a context changes nothing else.                              *)
LEMMA CancelSane ==
  ASSUME IInv, UNCHANGED setting, NEW s \in Search, Live(s),
         search' = [search EXCEPT ![s].cancelled = TRUE]
  PROVE  search' \in [Search -> Running' \cup {Off}] /\ AllSane'
<1> DEFINE n == [search[s] EXCEPT !.cancelled = TRUE]
<1>1. search[s] \in Running /\ Sane(search[s])
  BY LiveIsRunning DEF IInv, AllSane
<1>2. n \in Running /\ Sane(n)
  BY <1>1 DEF Running, Sane
<1>3. search' = [search EXCEPT ![s] = n]
  BY DEF IInv, TypeOK
<1> HIDE DEF n
<1>4. QED
  BY <1>2, <1>3, Replaced

(* Nor does what leaves the goroutines alone.                              *)
LEMMA AllSaneStays ==
  ASSUME IInv, UNCHANGED <<setting, search>>
  PROVE  search' \in [Search -> Running' \cup {Off}] /\ AllSane'
<1>1. Running' = Running /\ WaveSize' = WaveSize
  BY SettingStays DEF IInv
<1>2. QED
  BY <1>1 DEF IInv, TypeOK, AllSane, Sane, Live

(* What an action of a goroutine makes of it.                              *)
Becomes(s, n) == search' = [search EXCEPT ![s] = n]
BecomesSane(s) == \E n : Becomes(s, n) /\ (n = Off \/ (n \in Running /\ Sane(n)))

(* No step of a goroutine breaks its type or its sanity.                   *)
LEMMA StepSane ==
  ASSUME IInv, UNCHANGED setting, NEW s \in Search, Step(s)
  PROVE  search' \in [Search -> Running' \cup {Off}] /\ AllSane'
<1> DEFINE g == search[s]
<1>1. Live(s)
  BY DEF Step, Register, Check, StartWave, EndCycle, EndPause, CountRefusal, Claim, ClaimFails,
         Timeout, ContextDone, AssignCourier, ReleaseCourier, Hear, Awaits, Live
<1>2. g \in Running /\ Sane(g) /\ WaveSize \in Nat \ {0}
  BY <1>1, LiveIsRunning, SettingStays DEF IInv, AllSane
<1>3. SUFFICES BecomesSane(s)
  BY Replaced DEF BecomesSane, Becomes
<1>4. search \in [Search -> Running \cup {Off}]
  BY DEF IInv, TypeOK
<1>5. ASSUME Becomes(s, Off) PROVE BecomesSane(s)
  BY <1>5 DEF BecomesSane
<1>6. ASSUME NEW pc \in {"check", "wave", "pause", "release"}, pc = "release" => Holds(s),
             search' = [search EXCEPT ![s].pc = pc]
      PROVE  BecomesSane(s)
  <2>1. [g EXCEPT !.pc = pc] \in Running /\ Sane([g EXCEPT !.pc = pc])
    BY <1>2, <1>6 DEF Running, Sane, Holds
  <2>2. Becomes(s, [g EXCEPT !.pc = pc])
    BY <1>4, <1>6 DEF Becomes
  <2>3. QED
    BY <2>1, <2>2 DEF BecomesSane
<1>7. CASE Register(s)
  BY <1>5, <1>6, <1>7 DEF Register, Becomes
<1>8. CASE Check(s)
  <2>1. ASSUME NEW near \in SUBSET Online,
               search' = [search EXCEPT ![s].pc = "wave", ![s].rest = near]
        PROVE  BecomesSane(s)
    <3> DEFINE n == [g EXCEPT !.pc = "wave", !.rest = near]
    <3>1. n \in Running /\ Sane(n)
      BY <1>2 DEF Running, Sane, Online
    <3>2. Becomes(s, n)
      BY <1>4, <2>1 DEF Becomes
    <3>3. QED
      BY <3>1, <3>2 DEF BecomesSane
  <2>2. QED
    BY <1>5, <1>8, <2>1 DEF Check, Exit, Becomes
<1>9. CASE StartWave(s)
  <2>1. PICK wave \in SUBSET g.rest :
          /\ wave # {}
          /\ Cardinality(wave) = WaveSize \/ Cardinality(wave) < WaveSize
          /\ Becomes(s, NextWave(g, wave))
    BY <1>9, <1>4 DEF StartWave, Becomes
  <2>2. wave \in SUBSET Courier
    BY <1>2 DEF Running
  <2>3. Cardinality(wave) \in Nat /\ 0 < Cardinality(wave) /\ Cardinality(wave) <= WaveSize
    BY <1>2, <2>1, <2>2, WavesAreFinite
  <2>4. NextWave(g, wave) \in Running
    <3>1. 0 \in 0..WaveSize /\ <<>> \in Seq(Response) /\ g.rest \ wave \in SUBSET Courier
      BY <1>2, EmptySeq DEF Running
    <3>2. NextWave(g, wave) = [g EXCEPT !.pc = "await", !.wave = wave, !.rest = g.rest \ wave,
                                        !.inbox = <<>>, !.rejected = 0, !.answered = {}]
      BY DEF NextWave
    <3>3. QED
      BY <1>2, <2>2, <3>1, <3>2 DEF Running
  <2>5. Sane(NextWave(g, wave))
    BY <1>2, <2>3 DEF Sane, NextWave, Running
  <2>6. QED
    BY <2>1, <2>4, <2>5 DEF BecomesSane
<1>10. CASE EndCycle(s)
  BY <1>6, <1>10 DEF EndCycle
<1>11. CASE EndPause(s)
  BY <1>5, <1>6, <1>11 DEF EndPause, Exit, Becomes
<1>12. CASE CountRefusal(s)
  <2> DEFINE n == [g EXCEPT !.inbox = Tail(@), !.rejected = @ + 1,
                     !.answered = @ \cup {Answer(s).courier},
                     !.pc = IF g.rejected + 1 >= Cardinality(g.wave) THEN "wave" ELSE "await"]
  <2>1. Becomes(s, n)
    BY <1>4, <1>12 DEF CountRefusal, Becomes
  <2>2. g.pc = "await" /\ g.inbox # <<>> /\ Answer(s) = Head(g.inbox)
    BY <1>12 DEF CountRefusal, Hear, Awaits, Answer
  <2>3. /\ Answer(s).courier \in Courier /\ Tail(g.inbox) \in Seq(Response)
        /\ \A i \in DOMAIN Tail(g.inbox) : Tail(g.inbox)[i].courier \in g.wave
    BY <1>2, <2>2, Answers
  <2>4. g.rejected < Cardinality(g.wave) /\ Cardinality(g.wave) <= WaveSize /\ Cardinality(g.wave) \in Nat
    BY <1>2, <2>2, WavesAreFinite DEF Sane, Running
  <2>5. n \in Running
    <3>1. g.rejected + 1 \in 0..WaveSize /\ g.answered \cup {Answer(s).courier} \in SUBSET Courier
      BY <1>2, <2>3, <2>4 DEF Running
    <3>2. QED
      BY <1>2, <2>3, <3>1 DEF Running
  <2>6. Sane(n)
    BY <1>2, <2>3, <2>4 DEF Running, Sane
  <2> HIDE DEF n
  <2>7. QED
    BY <2>1, <2>5, <2>6 DEF BecomesSane
<1>13. CASE Claim(s)
  <2> DEFINE n == [g EXCEPT !.pc = "assign", !.winner = Answer(s).courier, !.inbox = <<>>]
  <2>1. Becomes(s, n)
    BY <1>4, <1>13 DEF Claim, Becomes
  <2>2. Answer(s).courier \in Courier /\ Answer(s).courier \in g.wave
    BY <1>2, <1>13, Answers DEF Claim, Hear, Answer
  <2>3. n \in Running
    <3>1. <<>> \in Seq(Response) /\ Answer(s).courier \in Courier \cup {None}
      BY <2>2, EmptySeq
    <3>2. QED
      BY <1>2, <3>1 DEF Running
  <2>4. Sane(n)
    <3>1. n.inbox = <<>> /\ n.pc = "assign" /\ n.winner \in n.wave
      BY <1>2, <2>2 DEF Running
    <3>2. DOMAIN n.inbox = {}
      BY <3>1
    <3>3. QED
      BY <3>1, <3>2 DEF Sane
  <2> HIDE DEF n
  <2>5. QED
    BY <2>1, <2>3, <2>4 DEF BecomesSane
<1>14. CASE ClaimFails(s)
  BY <1>5, <1>14 DEF ClaimFails, Exit, Becomes
<1>15. CASE Timeout(s)
  BY <1>6, <1>15 DEF Timeout
<1>16. CASE ContextDone(s)
  BY <1>5, <1>16 DEF ContextDone, Exit, Becomes
<1>17. CASE AssignCourier(s)
  BY <1>5, <1>6, <1>17 DEF AssignCourier, Holds, Becomes
<1>18. CASE ReleaseCourier(s)
  BY <1>5, <1>18 DEF ReleaseCourier, Becomes
<1>19. QED
  BY <1>7, <1>8, <1>9, <1>10, <1>11, <1>12, <1>13, <1>14, <1>15, <1>16, <1>17, <1>18 DEF Step

-----------------------------------------------------------------------------
(* The entries of Dispatcher.pending *)

(* Only goroutine s changes.                                               *)
Only(s) == \A r \in Search : r # s => search'[r] = search[r]

(* Entries stay, and a goroutine that searches goes on or another that     *)
(* does not is in a new place.                                             *)
LEMMA EntryKept ==
  ASSUME IInv, UNCHANGED pending, NEW s \in Search, Only(s),
         search'[s].pc \in Searching <=> search[s].pc \in Searching,
         search[s].pc \in Searching =>
           /\ search'[s].order = search[s].order
           /\ search'[s].cancelled = search[s].cancelled
  PROVE  (Registered /\ OneSearchPerOrder)'
<1>1. \A o \in Order : pending[o] \in Search \cup {None}
  BY DEF IInv, TypeOK
<1>2. Registered'
  BY <1>1 DEF IInv, Registered, Only
<1>3. OneSearchPerOrder'
  BY DEF IInv, OneSearchPerOrder, Only, Searching
<1>4. QED
  BY <1>2, <1>3

(* A goroutine that stops searching takes its own entry along.             *)
LEMMA EntryLost ==
  ASSUME IInv, NEW s \in Search, Only(s), Unregister(s),
         search'[s].pc \notin Searching
  PROVE  (Registered /\ OneSearchPerOrder)'
<1>1. pending \in [Order -> Search \cup {None}]
  BY DEF IInv, TypeOK
<1>2. Registered'
  <2>1. ASSUME NEW o \in Order, pending'[o] # None
        PROVE  search'[pending'[o]].pc \in Searching /\ search'[pending'[o]].order = o
    <3>1. pending'[o] = pending[o] /\ pending[o] \in Search
      BY <1>1, <2>1 DEF Unregister
    <3>2. search[pending[o]].order = o /\ search[pending[o]].pc \in Searching
      BY <2>1, <3>1 DEF IInv, Registered
    <3>3. pending[o] # s
      BY <1>1, <2>1, <3>1, <3>2 DEF Unregister
    <3>4. QED
      BY <3>1, <3>2, <3>3 DEF Only
  <2>2. QED
    BY <2>1 DEF Registered
<1>3. OneSearchPerOrder'
  <2>1. ASSUME NEW r \in Search, search'[r].pc \in Searching, ~ search'[r].cancelled
        PROVE  pending'[search'[r].order] = r
    <3>1. r # s /\ search'[r] = search[r]
      BY <2>1 DEF Only
    <3>2. pending[search[r].order] = r
      BY <2>1, <3>1 DEF IInv, OneSearchPerOrder, Searching
    <3>3. QED
      BY <1>1, <3>1, <3>2 DEF Unregister
  <2>2. QED
    BY <2>1 DEF OneSearchPerOrder, Searching
<1>4. QED
  BY <1>2, <1>3

-----------------------------------------------------------------------------
(* The holders of a courier *)

(* Whoever is held is a courier.                                           *)
LEMMA HeldAreCouriers ==
  ASSUME TypeOK, AllSane
  PROVE  /\ \A o \in Order : Active(o) => rider[o] \in Courier
         /\ \A s \in Search : Holds(s) => search[s].winner \in Courier /\ Live(s)
         /\ \A t \in chores : t.courier \in Courier \cup {None}
<1>1. \A o \in Order : Active(o) => rider[o] \in Courier
  BY DEF TypeOK, Active
<1>2. ASSUME NEW s \in Search, Holds(s) PROVE search[s].winner \in Courier /\ Live(s)
  <2>1. Live(s)
    BY <1>2 DEF Holds, Live
  <2>2. search[s] \in Running /\ search[s].winner \in search[s].wave
    BY <1>2, <2>1, LiveIsRunning DEF Holds, AllSane, Sane
  <2>3. QED
    BY <2>1, <2>2 DEF Running
<1>3. \A t \in chores : t.courier \in Courier \cup {None}
  BY DEF TypeOK, Chore
<1>4. QED
  BY <1>1, <1>2, <1>3

(* Nobody new holds a courier, and whoever still is held stays claimed.    *)
LEMMA TokensShrink ==
  ASSUME IInv, UNCHANGED setting,
         \A o \in Order : Active(o)' => Active(o) /\ rider'[o] = rider[o],
         \A s \in Search : Holds(s)' => Holds(s) /\ search'[s].winner = search[s].winner,
         \A t \in chores' : t \in chores \/ t.courier = None,
         \A c \in Courier : duty[c] = "claimed" => duty'[c] = "claimed"
  PROVE  Tokens'
<1>1. SUFFICES ASSUME Toggles # "any" PROVE (OneHolder /\ HeldIsClaimed)'
  BY DEF Toggles, Tokens
<1>2. OneHolder /\ HeldIsClaimed
  BY <1>1 DEF IInv, Tokens
<1>3. /\ \A o \in Order : Active(o) => rider[o] \in Courier
      /\ \A s \in Search : Holds(s) => search[s].winner \in Courier
      /\ \A t \in chores : t.courier \in Courier \cup {None}
  BY HeldAreCouriers DEF IInv
<1>4. ASSUME NEW t \in chores' PROVE Excluded(t)'
  <2>1. CASE t \in chores
    BY <1>2, <2>1 DEF OneHolder, Excluded
  <2>2. CASE t.courier = None
    BY <1>3, <2>2, NoneIsNobody DEF Excluded
  <2>3. QED
    BY <2>1, <2>2
<1>5. \A t1, t2 \in chores' : t1.courier = t2.courier /\ t1.courier # None => t1 = t2
  BY <1>2 DEF OneHolder
<1>6. OneHolder'
  <2>1. \A o1, o2 \in Order : Active(o1)' /\ Active(o2)' /\ rider'[o1] = rider'[o2] => o1 = o2
    BY <1>2 DEF OneHolder
  <2>2. \A s1, s2 \in Search :
          Holds(s1)' /\ Holds(s2)' /\ search'[s1].winner = search'[s2].winner => s1 = s2
    BY <1>2 DEF OneHolder
  <2>3. \A o \in Order, s \in Search : Active(o)' /\ Holds(s)' => rider'[o] # search'[s].winner
    BY <1>2 DEF OneHolder
  <2>4. QED
    BY <1>4, <1>5, <2>1, <2>2, <2>3 DEF OneHolder
<1>7. HeldIsClaimed'
  BY <1>2, <1>3 DEF HeldIsClaimed
<1>8. QED
  BY <1>6, <1>7

(* Nobody lets go of a courier, and nobody is claimed.                     *)
LEMMA BusyKept ==
  ASSUME IInv, UNCHANGED setting,
         \A o \in Order : Active(o) => Active(o)' /\ rider'[o] = rider[o],
         \A s \in Search : Holds(s) => Holds(s)' /\ search'[s].winner = search[s].winner,
         chores \subseteq chores',
         \A c \in Courier : duty'[c] = "claimed" => duty[c] = "claimed"
  PROVE  BusyForAReason'
BY DEF IInv, BusyForAReason, Faults, SideCancels, Holds

-----------------------------------------------------------------------------
(* What the handlers and the watchdog do *)

(* A new goroutine (Accept, Retry, Recover) searches nothing yet.          *)
LEMMA Spawning ==
  ASSUME IInv, UNCHANGED <<setting, rider, duty, pending, cards, missed, chores>>,
         NEW o \in Order, NEW s \in Search, Spawn(s, o), want[o] # "closed",
         want' = want \/ want' = [want EXCEPT ![o] = "waiting"]
  PROVE  IInv'
<1>1. search' \in [Search -> Running' \cup {Off}] /\ AllSane'
  BY SpawnSane
<1>2. Only(s) /\ search[s].pc = "off" /\ search'[s].pc = "start"
  BY DEF Spawn, Only, Off, IInv, TypeOK
<1>3. TypeOK'
  BY <1>1, SettingStays DEF IInv, TypeOK
<1>4. (Registered /\ OneSearchPerOrder)'
  BY <1>2, EntryKept DEF Searching
<1>5. \A q \in Order : Active(q)' <=> Active(q)
  BY DEF IInv, TypeOK, Active
<1>6. \A r \in Search : (Holds(r)' <=> Holds(r)) /\ (Holds(r) => search'[r].winner = search[r].winner)
  BY <1>2 DEF Only, Holds
<1>7. Tokens' /\ BusyForAReason'
  BY <1>5, <1>6, TokensShrink, BusyKept
<1>8. QED
  BY <1>1, <1>3, <1>4, <1>7 DEF IInv, ChoresGood

(* An order is closed or given up: the search and the couriers stay.       *)
LEMMA GiveUpKeeps ==
  ASSUME IInv, UNCHANGED setting, NEW o \in Order, GiveUp(o)
  PROVE  IInv'
<1>1. search' \in [Search -> Running' \cup {Off}] /\ AllSane'
  BY AllSaneStays DEF GiveUp
<1> DEFINE t == [todo |-> "stop", order |-> o, courier |-> None]
<1>2. t \in Chore /\ t.courier = None /\ t.todo = "stop"
  BY DEF Chore
<1>3. chores' = chores \cup {t}
  BY DEF GiveUp
<1> HIDE DEF t
<1>4. TypeOK'
  BY <1>1, <1>2, <1>3, SettingStays DEF IInv, TypeOK, GiveUp
<1>5. (Registered /\ OneSearchPerOrder)'
  BY DEF IInv, GiveUp, Registered, OneSearchPerOrder
<1>6. \A q \in Order : (Active(q)' <=> Active(q)) /\ rider'[q] = rider[q]
  BY DEF IInv, TypeOK, Active, GiveUp, NeedsDispatchRecovery
<1>7. \A r \in Search : (Holds(r)' <=> Holds(r)) /\ search'[r].winner = search[r].winner
  BY DEF Holds, GiveUp
<1>8. duty' = duty
  BY DEF GiveUp
<1>9. Tokens' /\ BusyForAReason'
  BY <1>2, <1>3, <1>6, <1>7, <1>8, TokensShrink, BusyKept
<1>10. ChoresGood'
  BY <1>2, <1>3 DEF IInv, ChoresGood
<1>11. QED
  BY <1>1, <1>4, <1>5, <1>9, <1>10 DEF IInv

(* The assistant's cancellation may leave a courier claimed whom nobody    *)
(* holds any more; it makes no second holder.                              *)
LEMMA CancelAsideKeeps ==
  ASSUME IInv, UNCHANGED setting, NEW o \in Order, CancelAside(o)
  PROVE  IInv'
<1>1. search' \in [Search -> Running' \cup {Off}] /\ AllSane'
  BY AllSaneStays DEF CancelAside
<1>2. TypeOK'
  BY <1>1, SettingStays DEF IInv, TypeOK, CancelAside
<1>3. (Registered /\ OneSearchPerOrder)' /\ ChoresGood'
  BY DEF IInv, CancelAside, Registered, OneSearchPerOrder, ChoresGood
<1>4. \A q \in Order : Active(q)' => Active(q) /\ rider'[q] = rider[q]
  BY DEF IInv, TypeOK, Active, CancelAside
<1>5. \A r \in Search : Holds(r)' => Holds(r) /\ search'[r].winner = search[r].winner
  BY DEF Holds, CancelAside
<1>6. Tokens'
  BY <1>4, <1>5, TokensShrink DEF CancelAside
<1>7. BusyForAReason'
  BY DEF BusyForAReason, CancelAside, SideCancels
<1>8. QED
  BY <1>1, <1>2, <1>3, <1>6, <1>7 DEF IInv

(* The handler that closes an order takes its courier over.                *)
LEMMA CloseKeeps ==
  ASSUME IInv, UNCHANGED setting, NEW o \in Order, Close(o)
  PROVE  IInv'
<1>1. search' \in [Search -> Running' \cup {Off}] /\ AllSane'
  BY AllSaneStays DEF Close
<1>2. PICK n \in Chore : /\ n.courier = rider[o] /\ n.todo = "stop_and_free"
                         /\ chores' = chores \cup {n}
  BY DEF Close, Chore, IInv, TypeOK
<1>3. chores' = chores \cup {n}
  BY <1>2
<1>4. TypeOK'
  BY <1>1, <1>2, <1>3, SettingStays DEF IInv, TypeOK, Close
<1>5. (Registered /\ OneSearchPerOrder)'
  BY DEF IInv, Close, Registered, OneSearchPerOrder
<1>6. ChoresGood'
  BY <1>2, <1>3 DEF IInv, ChoresGood
<1>7. /\ \A q \in Order : Active(q)' <=> Active(q) /\ q # o
      /\ UNCHANGED <<rider, search, duty>>
      /\ Active(o) <=> rider[o] # None
  BY DEF IInv, TypeOK, Active, Close
<1>8. Tokens'
  <2>1. SUFFICES ASSUME Toggles # "any" PROVE (OneHolder /\ HeldIsClaimed)'
    BY DEF Toggles, Tokens
  <2>2. OneHolder /\ HeldIsClaimed
    BY <2>1 DEF IInv, Tokens
  <2>3. /\ \A q \in Order : Active(q) => rider[q] \in Courier
        /\ \A s \in Search : Holds(s) => search[s].winner \in Courier
    BY HeldAreCouriers DEF IInv
  <2>4. Excluded(n)'
    <3>1. \A q \in Order : Active(q) /\ q # o => rider[q] # rider[o]
      BY <1>7, <2>2, <2>3, NoneIsNobody DEF OneHolder
    <3>2. \A s \in Search : Holds(s) => search[s].winner # rider[o]
      BY <1>7, <2>2, <2>3, NoneIsNobody DEF OneHolder
    <3>3. \A s \in Search : Holds(s)' <=> Holds(s)
      BY <1>7 DEF Holds
    <3>4. QED
      BY <1>2, <1>7, <3>1, <3>2, <3>3 DEF Excluded
  <2>5. \A t \in chores : Excluded(t)'
    BY <1>7, <2>2 DEF OneHolder, Excluded, Holds
  <2>6. \A t \in chores : t.courier = rider[o] => rider[o] = None
    BY <1>7, <2>2 DEF OneHolder, Excluded
  <2>7. OneHolder'
    <3>1. \A t \in chores' : Excluded(t)'
      BY <1>3, <2>4, <2>5
    <3>2. \A t1, t2 \in chores' : t1.courier = t2.courier /\ t1.courier # None => t1 = t2
      BY <1>2, <1>3, <2>2, <2>6 DEF OneHolder
    <3>3. QED
      BY <1>7, <2>2, <3>1, <3>2 DEF OneHolder, Holds
  <2>8. HeldIsClaimed'
    BY <1>2, <1>3, <1>7, <2>2 DEF HeldIsClaimed, Holds
  <2>9. QED
    BY <2>7, <2>8
<1>9. BusyForAReason'
  BY <1>2, <1>3, <1>7 DEF IInv, BusyForAReason, Faults, SideCancels
<1>10. QED
  BY <1>1, <1>4, <1>5, <1>6, <1>8, <1>9 DEF IInv

(* Stopping the search keeps the courier for the handler that frees it.    *)
LEMMA StopDispatchKeeps ==
  ASSUME IInv, UNCHANGED setting, NEW t \in chores, StopDispatch(t)
  PROVE  IInv'
<1> DEFINE free == [t EXCEPT !.todo = "free"]
<1> DEFINE o == t.order
<1>1. /\ t \in Chore /\ free \in Chore /\ o \in Order /\ t.todo \in {"stop", "stop_and_free"}
      /\ free.courier = t.courier /\ free.todo = "free"
  BY DEF IInv, TypeOK, Chore, StopDispatch
<1>2. chores' = (chores \ {t}) \cup (IF t.todo = "stop_and_free" /\ t.courier # None THEN {free} ELSE {})
  BY DEF StopDispatch
<1> HIDE DEF free
<1>3. pending \in [Order -> Search \cup {None}] /\ search \in [Search -> Running \cup {Off}]
  BY DEF IInv, TypeOK
<1>4. pending[o] # None => /\ pending[o] \in Search /\ search[pending[o]].pc \in Searching
                           /\ search[pending[o]].order = o
  BY <1>1, <1>3 DEF IInv, Registered
<1>5. search' \in [Search -> Running' \cup {Off}] /\ AllSane'
  <2>1. CASE pending[o] = None
    BY <2>1, AllSaneStays DEF StopDispatch
  <2>2. CASE pending[o] # None
    <3>1. Live(pending[o])
      BY <1>4, <2>2 DEF Live, Searching
    <3>2. QED
      BY <1>4, <2>2, <3>1, CancelSane DEF StopDispatch
  <2>3. QED
    BY <2>1, <2>2
<1>6. pending' = [pending EXCEPT ![o] = None] /\ UNCHANGED <<want, rider, duty, cards, missed>>
  BY DEF StopDispatch
<1>7. TypeOK'
  BY <1>1, <1>2, <1>3, <1>5, <1>6, SettingStays DEF IInv, TypeOK
<1>8. \A r \in Search : /\ search'[r].pc = search[r].pc /\ search'[r].order = search[r].order
                        /\ search'[r].winner = search[r].winner
                        /\ r = pending[o] => search'[r].cancelled
                        /\ r # pending[o] => search'[r] = search[r]
  <2>1. CASE pending[o] = None
    BY <1>3, <2>1, NoneIsNobody DEF StopDispatch
  <2>2. CASE pending[o] # None
    <3>1. search' = [search EXCEPT ![pending[o]] = [search[pending[o]] EXCEPT !.cancelled = TRUE]]
      BY <1>3, <2>2 DEF StopDispatch
    <3>2. search[pending[o]] \in Running
      BY <1>3, <1>4, <2>2 DEF Off, Searching
    <3>3. QED
      BY <1>3, <1>4, <2>2, <3>1, <3>2 DEF Running
  <2>3. QED
    BY <2>1, <2>2
<1>9. Registered'
  BY <1>3, <1>6, <1>8 DEF IInv, Registered
<1>10. OneSearchPerOrder'
  <2>1. ASSUME NEW r \in Search, search'[r].pc \in Searching, ~ search'[r].cancelled
        PROVE  pending'[search'[r].order] = r
    <3>1. r # pending[o] /\ search'[r] = search[r]
      BY <1>8, <2>1
    <3>2. pending[search[r].order] = r
      BY <2>1, <3>1 DEF IInv, OneSearchPerOrder, Searching
    <3>3. QED
      BY <1>3, <1>6, <3>1, <3>2
  <2>2. QED
    BY <2>1 DEF OneSearchPerOrder, Searching
<1>11. ChoresGood'
  BY <1>1, <1>2 DEF IInv, ChoresGood
<1>12. /\ \A q \in Order : Active(q)' <=> Active(q)
       /\ \A r \in Search : Holds(r)' <=> Holds(r)
  BY <1>6, <1>8 DEF Active, Holds
<1>13. Tokens'
  <2>1. SUFFICES ASSUME Toggles # "any" PROVE (OneHolder /\ HeldIsClaimed)'
    BY DEF Toggles, Tokens
  <2>2. OneHolder /\ HeldIsClaimed
    BY <2>1 DEF IInv, Tokens
  <2>3. \A u \in chores : Excluded(u)'
    BY <1>6, <1>8, <1>12, <2>2 DEF OneHolder, Excluded
  <2>4. Excluded(free)'
    BY <1>1, <2>3 DEF Excluded
  <2>5. OneHolder'
    BY <1>1, <1>2, <1>6, <1>8, <1>12, <2>2, <2>3, <2>4 DEF OneHolder
  <2>6. HeldIsClaimed'
    BY <1>1, <1>2, <1>6, <1>8, <1>12, <2>2 DEF HeldIsClaimed
  <2>7. QED
    BY <2>5, <2>6
<1>14. BusyForAReason'
  <2>1. ASSUME NEW c \in Courier, NEW u \in chores, u.courier = c
        PROVE  \E v \in chores' : v.courier = c
    <3>1. t.courier = c => t.todo = "stop_and_free"
      BY <1>1, NoneIsNobody DEF IInv, ChoresGood
    <3>2. QED
      BY <1>1, <1>2, <2>1, <3>1, NoneIsNobody
  <2>2. QED
    BY <1>6, <1>8, <1>12, <2>1 DEF IInv, BusyForAReason, Faults, SideCancels, Holds
<1>15. QED
  BY <1>5, <1>7, <1>9, <1>10, <1>11, <1>13, <1>14 DEF IInv

(* The courier whom a handler frees is held by nobody else.                *)
LEMMA FreeCourierKeeps ==
  ASSUME IInv, UNCHANGED setting, NEW t \in chores, FreeCourier(t)
  PROVE  IInv'
<1>1. t.courier \in Courier
  BY DEF IInv, ChoresGood, TypeOK, Chore, FreeCourier
<1>2. search' \in [Search -> Running' \cup {Off}] /\ AllSane'
  BY AllSaneStays DEF FreeCourier
<1>3. TypeOK'
  BY <1>2, SettingStays DEF IInv, TypeOK, FreeCourier
<1>4. (Registered /\ OneSearchPerOrder)' /\ ChoresGood'
  BY DEF IInv, FreeCourier, Registered, OneSearchPerOrder, ChoresGood
<1>5. /\ UNCHANGED <<want, rider, search>> /\ chores' = chores \ {t}
      /\ \A c \in Courier : duty'[c] = IF c = t.courier THEN "online" ELSE duty[c]
  BY DEF FreeCourier, IInv, TypeOK
<1>6. Tokens'
  <2>1. SUFFICES ASSUME Toggles # "any" PROVE (OneHolder /\ HeldIsClaimed)'
    BY DEF Toggles, Tokens
  <2>2. OneHolder /\ HeldIsClaimed /\ Excluded(t)
    BY <2>1 DEF IInv, Tokens, OneHolder
  <2>3. OneHolder'
    BY <1>5, <2>2 DEF OneHolder, Excluded, Holds, Active
  <2>4. /\ \A q \in Order : Active(q) => rider[q] \in Courier
        /\ \A s \in Search : Holds(s) => search[s].winner \in Courier
        /\ \A u \in chores : u.courier \in Courier \cup {None}
    BY HeldAreCouriers DEF IInv
  <2>5. HeldIsClaimed'
    BY <1>1, <1>5, <2>2, <2>4, NoneIsNobody DEF OneHolder, HeldIsClaimed, Excluded, Holds, Active
  <2>6. QED
    BY <2>3, <2>5
<1>7. BusyForAReason'
  BY <1>5 DEF IInv, BusyForAReason, Faults, SideCancels, Active
<1>8. QED
  BY <1>2, <1>3, <1>4, <1>6, <1>7 DEF IInv

-----------------------------------------------------------------------------
(* What the goroutines do *)

(* A step of a goroutine that holds nobody, before and after.              *)
LEMMA QuietStep ==
  ASSUME IInv, UNCHANGED <<setting, want, rider, chores>>, NEW s \in Search, Only(s),
         ~ Holds(s), ~ Holds(s)',
         \A c \in Courier : duty'[c] = "claimed" <=> duty[c] = "claimed"
  PROVE  Tokens' /\ BusyForAReason'
<1>1. \A o \in Order : Active(o)' <=> Active(o)
  BY DEF Active
<1>2. \A r \in Search : (Holds(r)' <=> Holds(r)) /\ (Holds(r) => search'[r].winner = search[r].winner)
  BY DEF Only, Holds
<1>3. QED
  BY <1>1, <1>2, TokensShrink, BusyKept

(* The deferred delete keeps the type of the map.                          *)
LEMMA UnregisterType ==
  ASSUME IInv, NEW s, Unregister(s)
  PROVE  pending' \in [Order -> Search \cup {None}]
BY DEF IInv, TypeOK, Unregister

(* A claim makes a token: nobody held a courier who was on line.           *)
LEMMA ClaimKeeps ==
  ASSUME IInv, UNCHANGED <<setting, want, rider, chores>>, NEW s \in Search, Only(s),
         NEW c \in Courier, duty[c] = "online", duty' = [duty EXCEPT ![c] = "claimed"],
         ~ Holds(s), Holds(s)', search'[s].winner = c
  PROVE  Tokens' /\ BusyForAReason'
<1>1. \A d \in Courier : duty'[d] = IF d = c THEN "claimed" ELSE duty[d]
  BY DEF IInv, TypeOK
<1>2. \A o \in Order : Active(o)' <=> Active(o)
  BY DEF Active
<1>3. \A r \in Search : r # s => (Holds(r)' <=> Holds(r)) /\ search'[r].winner = search[r].winner
  BY DEF Only, Holds
<1>4. Tokens'
  <2>1. SUFFICES ASSUME Toggles # "any" PROVE (OneHolder /\ HeldIsClaimed)'
    BY DEF Toggles, Tokens
  <2>2. OneHolder /\ HeldIsClaimed
    BY <2>1 DEF IInv, Tokens
  <2>3. /\ \A o \in Order : Active(o) => rider[o] \in Courier
        /\ \A r \in Search : Holds(r) => search[r].winner \in Courier
        /\ \A t \in chores : t.courier \in Courier \cup {None}
    BY HeldAreCouriers DEF IInv
  <2>4. /\ \A o \in Order : Active(o) => rider[o] # c
        /\ \A r \in Search : Holds(r) => search[r].winner # c
        /\ \A t \in chores : t.courier # c
    BY <2>2, NoneIsNobody DEF HeldIsClaimed
  <2>5. \A t \in chores' : Excluded(t)'
    BY <1>2, <1>3, <2>2, <2>4 DEF OneHolder, Excluded
  <2>6. \A s1, s2 \in Search :
          Holds(s1)' /\ Holds(s2)' /\ search'[s1].winner = search'[s2].winner => s1 = s2
    BY <1>3, <2>2, <2>4 DEF OneHolder
  <2>7. \A o \in Order, r \in Search : Active(o)' /\ Holds(r)' => rider'[o] # search'[r].winner
    BY <1>2, <1>3, <2>2, <2>4 DEF OneHolder
  <2>8. OneHolder'
    BY <1>2, <2>2, <2>5, <2>6, <2>7 DEF OneHolder
  <2>9. HeldIsClaimed'
    BY <1>1, <1>2, <1>3, <2>2, <2>3 DEF HeldIsClaimed
  <2>10. QED
    BY <2>8, <2>9
<1>5. BusyForAReason'
  BY <1>1, <1>2, <1>3 DEF IInv, BusyForAReason, Faults, SideCancels, Holds
<1>6. QED
  BY <1>4, <1>5

(* The courier goes from the search to the order.                          *)
LEMMA AssignKeeps ==
  ASSUME IInv, UNCHANGED <<setting, want, duty, chores>>, NEW s \in Search, Only(s),
         NEW o \in Order, MayAssign(o), rider' = [rider EXCEPT ![o] = search[s].winner],
         Holds(s), ~ Holds(s)'
  PROVE  Tokens' /\ BusyForAReason'
<1> DEFINE c == search[s].winner
<1>1. /\ \A q \in Order : Active(q) => rider[q] \in Courier
      /\ \A r \in Search : Holds(r) => search[r].winner \in Courier
      /\ \A t \in chores : t.courier \in Courier \cup {None}
  BY HeldAreCouriers DEF IInv
<1>2. \A q \in Order : rider'[q] = IF q = o THEN c ELSE rider[q]
  BY DEF IInv, TypeOK
<1>3. Active(o)' /\ ~ Active(o) /\ \A q \in Order : q # o => (Active(q)' <=> Active(q))
  BY <1>1, <1>2, NoneIsNobody DEF Active, MayAssign
<1>4. \A r \in Search : r # s => (Holds(r)' <=> Holds(r)) /\ search'[r].winner = search[r].winner
  BY DEF Only, Holds
<1>5. Tokens'
  <2>1. SUFFICES ASSUME Toggles # "any" PROVE (OneHolder /\ HeldIsClaimed)'
    BY DEF Toggles, Tokens
  <2>2. OneHolder /\ HeldIsClaimed
    BY <2>1 DEF IInv, Tokens
  <2>3. /\ \A q \in Order : Active(q) => rider[q] # c
        /\ \A r \in Search : Holds(r) /\ r # s => search[r].winner # c
        /\ \A t \in chores : t.courier # c
    BY <2>2 DEF OneHolder, Excluded
  <2>4. \A t \in chores' : Excluded(t)'
    BY <1>2, <1>3, <1>4, <2>2, <2>3 DEF OneHolder, Excluded
  <2>5. \A q1, q2 \in Order : Active(q1)' /\ Active(q2)' /\ rider'[q1] = rider'[q2] => q1 = q2
    BY <1>2, <1>3, <2>2, <2>3 DEF OneHolder
  <2>6. \A q \in Order, r \in Search : Active(q)' /\ Holds(r)' => rider'[q] # search'[r].winner
    BY <1>2, <1>3, <1>4, <2>2, <2>3 DEF OneHolder
  <2>7. \A s1, s2 \in Search :
          Holds(s1)' /\ Holds(s2)' /\ search'[s1].winner = search'[s2].winner => s1 = s2
    BY <1>4, <2>2 DEF OneHolder
  <2>8. OneHolder'
    BY <2>2, <2>4, <2>5, <2>6, <2>7 DEF OneHolder
  <2>9. HeldIsClaimed'
    BY <1>2, <1>3, <1>4, <2>2 DEF HeldIsClaimed
  <2>10. QED
    BY <2>8, <2>9
<1>6. BusyForAReason'
  <2>1. SUFFICES ASSUME ~ Faults, ~ SideCancels, NEW d \in Courier, duty[d] = "claimed"
                 PROVE  \/ \E q \in Order : Active(q)' /\ rider'[q] = d
                        \/ \E r \in Search : Holds(r)' /\ search'[r].winner = d
                        \/ \E t \in chores : t.courier = d
    BY DEF BusyForAReason, Faults, SideCancels, Holds
  <2>2. \/ \E q \in Order : Active(q) /\ rider[q] = d
        \/ \E r \in Search : Holds(r) /\ search[r].winner = d
        \/ \E t \in chores : t.courier = d
    BY <2>1 DEF IInv, BusyForAReason, Holds
  <2>3. QED
    BY <1>2, <1>3, <1>4, <2>2
<1>7. QED
  BY <1>5, <1>6

(* A search lets its courier go, or dies without (a failed call).          *)
LEMMA ReleaseKeeps ==
  ASSUME IInv, UNCHANGED <<setting, want, rider, chores>>, NEW s \in Search, Only(s),
         Holds(s), ~ Holds(s)',
         \/ duty' = [duty EXCEPT ![search[s].winner] = "online"]
         \/ Faults /\ UNCHANGED duty
  PROVE  Tokens' /\ BusyForAReason'
<1> DEFINE c == search[s].winner
<1>1. /\ \A q \in Order : Active(q) => rider[q] \in Courier
      /\ \A r \in Search : Holds(r) => search[r].winner \in Courier
      /\ \A t \in chores : t.courier \in Courier \cup {None}
  BY HeldAreCouriers DEF IInv
<1>2. /\ \A d \in Courier : d # c => duty'[d] = duty[d]
      /\ Faults \/ duty'[c] = "online"
  BY <1>1 DEF IInv, TypeOK
<1>3. \A q \in Order : Active(q)' <=> Active(q)
  BY DEF Active
<1>4. \A r \in Search : r # s => (Holds(r)' <=> Holds(r)) /\ search'[r].winner = search[r].winner
  BY DEF Only, Holds
<1>5. Tokens'
  <2>1. SUFFICES ASSUME Toggles # "any" PROVE (OneHolder /\ HeldIsClaimed)'
    BY DEF Toggles, Tokens
  <2>2. OneHolder /\ HeldIsClaimed
    BY <2>1 DEF IInv, Tokens
  <2>3. /\ \A q \in Order : Active(q) => rider[q] # c
        /\ \A r \in Search : Holds(r) /\ r # s => search[r].winner # c
        /\ \A t \in chores : t.courier # c
    BY <2>2 DEF OneHolder, Excluded
  <2>4. OneHolder'
    BY <1>3, <1>4, <2>2 DEF OneHolder, Excluded
  <2>5. HeldIsClaimed'
    BY <1>1, <1>2, <1>3, <1>4, <2>2, <2>3, NoneIsNobody DEF HeldIsClaimed
  <2>6. QED
    BY <2>4, <2>5
<1>6. BusyForAReason'
  BY <1>2, <1>3, <1>4 DEF IInv, BusyForAReason, Faults, SideCancels, Holds
<1>7. QED
  BY <1>5, <1>6

(* Every step of a goroutine keeps the invariant.                          *)
LEMMA StepKeeps ==
  ASSUME IInv, UNCHANGED setting, NEW s \in Search, Step(s)
  PROVE  IInv'
<1>1. search' \in [Search -> Running' \cup {Off}] /\ AllSane'
  BY StepSane
<1>2. Live(s)
  BY DEF Step, Register, Check, StartWave, EndCycle, EndPause, CountRefusal, Claim, ClaimFails,
         Timeout, ContextDone, AssignCourier, ReleaseCourier, Hear, Awaits, Live
<1>3. search[s] \in Running /\ Sane(search[s]) /\ search[s].order \in Order
  BY <1>2, LiveIsRunning DEF IInv, AllSane, Running
<1>4. /\ search \in [Search -> Running \cup {Off}] /\ pending \in [Order -> Search \cup {None}]
      /\ rider \in [Order -> Courier \cup {None}] /\ s # None
  BY NoneIsNobody DEF IInv, TypeOK
<1>5. ASSUME UNCHANGED chores PROVE ChoresGood'
  BY <1>5 DEF IInv, ChoresGood
<1>6. SUFFICES TypeOK' /\ (Registered /\ OneSearchPerOrder)' /\ Tokens' /\ BusyForAReason' /\ chores' = chores
  BY <1>1, <1>5 DEF IInv
<1>7. ASSUME UNCHANGED <<want, rider, chores>>, pending' \in [Order -> Search \cup {None}],
             duty' \in [Courier -> {"online", "claimed", "missed", "offline"}],
             cards' \in [Courier -> SUBSET Order], missed' \in [Courier -> 0..(MaxMissed - 1)]
      PROVE  TypeOK'
  BY <1>1, <1>7, SettingStays DEF IInv, TypeOK
<1>8. /\ duty \in [Courier -> {"online", "claimed", "missed", "offline"}]
      /\ cards \in [Courier -> SUBSET Order] /\ missed \in [Courier -> 0..(MaxMissed - 1)]
  BY DEF IInv, TypeOK
<1>9. ASSUME NEW o \in Order, NEW from, Withdraw(o, from)
      PROVE  cards' \in [Courier -> SUBSET Order]
  BY <1>8, <1>9 DEF Withdraw
<1>10. ASSUME Exit(s), ~ Holds(s), UNCHANGED <<want, rider, chores>>,
              \A c \in Courier : duty'[c] = "claimed" <=> duty[c] = "claimed"
       PROVE  (Registered /\ OneSearchPerOrder)' /\ Tokens' /\ BusyForAReason'
  <2>1. Only(s) /\ search'[s] = Off /\ Unregister(s)
    BY <1>4, <1>10 DEF Exit, Only
  <2>2. ~ Holds(s)' /\ search'[s].pc \notin Searching
    BY <2>1 DEF Holds, Off, Searching
  <2>3. QED
    BY <1>10, <2>1, <2>2, EntryLost, QuietStep
<1>11. ASSUME NEW pc \in Searching, Only(s), search'[s].pc = pc, search[s].pc \in Searching,
              search'[s].order = search[s].order, search'[s].cancelled = search[s].cancelled,
              UNCHANGED <<pending, want, rider, chores>>,
              \A c \in Courier : duty'[c] = "claimed" <=> duty[c] = "claimed"
       PROVE  (Registered /\ OneSearchPerOrder)' /\ Tokens' /\ BusyForAReason'
  BY <1>11, EntryKept, QuietStep DEF Searching, Holds
<1>12. CASE Register(s)
  <2> DEFINE o == search[s].order
  <2>1. TypeOK'
    BY <1>3, <1>4, <1>7, <1>8, <1>12 DEF Register
  <2>2. Only(s) /\ search[s].pc = "start" /\ UNCHANGED <<want, rider, duty, chores>>
    BY <1>4, <1>12 DEF Register, Only
  <2>3. CASE pending[o] # None
    <3>1. search'[s] = Off /\ UNCHANGED pending
      BY <1>4, <1>12, <2>3 DEF Register
    <3>2. QED
      BY <2>1, <2>2, <3>1, EntryKept, QuietStep DEF Off, Searching, Holds
  <2>4. CASE pending[o] = None
    <3>1. /\ search' = [search EXCEPT ![s] = [search[s] EXCEPT !.pc = "check"]]
          /\ pending' = [pending EXCEPT ![o] = s]
      BY <1>4, <1>12, <2>4 DEF Register
    <3>2. search'[s].pc = "check" /\ search'[s].order = o
      BY <1>3, <1>4, <3>1 DEF Running
    <3>3. Registered'
      <4>1. \A q \in Order : pending[q] # None => pending[q] # s
        BY <2>2 DEF IInv, Registered, Searching
      <4>2. QED
        BY <1>3, <1>4, <2>2, <3>1, <3>2, <4>1 DEF IInv, Registered, Only, Searching
    <3>4. OneSearchPerOrder'
      <4>1. ASSUME NEW r \in Search, r # s, search'[r].pc \in Searching, ~ search'[r].cancelled
            PROVE  pending'[search'[r].order] = r
        <5>1. search'[r] = search[r]
          BY <2>2, <4>1 DEF Only
        <5>2. pending[search[r].order] = r
          BY <4>1, <5>1 DEF IInv, OneSearchPerOrder, Searching
        <5>3. search[r].order # o
          BY <1>4, <2>4, <5>2, NoneIsNobody
        <5>4. QED
          BY <3>1, <5>1, <5>2, <5>3, <1>4
      <4>2. pending'[search'[s].order] = s
        BY <1>3, <1>4, <3>1, <3>2
      <4>3. QED
        BY <4>1, <4>2 DEF OneSearchPerOrder, Searching
    <3>5. QED
      BY <2>1, <2>2, <3>2, <3>3, <3>4, QuietStep DEF Holds
  <2>5. QED
    BY <2>2, <2>3, <2>4
<1>13. CASE Check(s)
  <2>1. UNCHANGED <<want, rider, duty, cards, missed, chores>> /\ search[s].pc = "check"
    BY <1>13 DEF Check
  <2>2. CASE Exit(s)
    BY <1>7, <1>8, <1>10, <2>1, <2>2, UnregisterType DEF Exit, Holds
  <2>3. CASE /\ UNCHANGED pending
             /\ \E near \in SUBSET Online :
                  search' = [search EXCEPT ![s].pc = "wave", ![s].rest = near]
    <3>1. PICK near : search' = [search EXCEPT ![s] = [search[s] EXCEPT !.pc = "wave", !.rest = near]]
      BY <1>4, <2>3
    <3>2. /\ Only(s) /\ search'[s].pc = "wave" /\ search'[s].order = search[s].order
          /\ search'[s].cancelled = search[s].cancelled
      BY <1>3, <1>4, <3>1 DEF Running, Only
    <3>3. QED
      BY <1>4, <1>7, <1>8, <1>11, <2>1, <2>3, <3>2 DEF Searching
  <2>4. QED
    BY <1>13, <2>2, <2>3 DEF Check
<1>14. CASE StartWave(s)
  <2>1. PICK wave \in SUBSET search[s].rest :
          /\ search' = [search EXCEPT ![s] = NextWave(search[s], wave)]
          /\ cards' = [c \in Courier |-> IF c \in wave THEN cards[c] \cup {search[s].order}
                                                       ELSE cards[c]]
    BY <1>4, <1>14 DEF StartWave
  <2>2. UNCHANGED <<want, rider, duty, pending, missed, chores>> /\ search[s].pc = "wave"
    BY <1>14 DEF StartWave
  <2>3. /\ Only(s) /\ search'[s].pc = "await" /\ search'[s].order = search[s].order
        /\ search'[s].cancelled = search[s].cancelled
    BY <1>3, <1>4, <2>1 DEF Running, Only, NextWave
  <2>4. cards' \in [Courier -> SUBSET Order]
    BY <1>3, <1>8, <2>1
  <2>5. QED
    BY <1>4, <1>7, <1>8, <1>11, <2>2, <2>3, <2>4 DEF Searching
<1>15. CASE EndCycle(s)
  <2>1. /\ UNCHANGED <<want, rider, duty, pending, cards, missed, chores>> /\ search[s].pc = "wave"
        /\ search' = [search EXCEPT ![s] = [search[s] EXCEPT !.pc = "pause"]]
    BY <1>4, <1>15 DEF EndCycle
  <2>2. /\ Only(s) /\ search'[s].pc = "pause" /\ search'[s].order = search[s].order
        /\ search'[s].cancelled = search[s].cancelled
    BY <1>3, <1>4, <2>1 DEF Running, Only
  <2>3. QED
    BY <1>4, <1>7, <1>8, <1>11, <2>1, <2>2 DEF Searching
<1>16. CASE EndPause(s)
  <2>1. UNCHANGED <<want, rider, duty, cards, missed, chores>> /\ search[s].pc = "pause"
    BY <1>16 DEF EndPause
  <2>2. CASE Exit(s)
    BY <1>7, <1>8, <1>10, <2>1, <2>2, UnregisterType DEF Exit, Holds
  <2>3. CASE UNCHANGED pending /\ search' = [search EXCEPT ![s].pc = "check"]
    <3>1. /\ Only(s) /\ search'[s].pc = "check" /\ search'[s].order = search[s].order
          /\ search'[s].cancelled = search[s].cancelled
      BY <1>3, <1>4, <2>3 DEF Running, Only
    <3>2. QED
      BY <1>4, <1>7, <1>8, <1>11, <2>1, <2>3, <3>1 DEF Searching
  <2>4. QED
    BY <1>16, <2>2, <2>3 DEF EndPause
<1>17. ASSUME Hear(s) PROVE missed' \in [Courier -> 0..(MaxMissed - 1)] /\ search[s].pc = "await"
  <2>1. 0 \in 0..(MaxMissed - 1)
    BY SettingStays DEF IInv
  <2>2. missed' = [missed EXCEPT ![Answer(s).courier] = 0] /\ search[s].pc = "await"
    BY <1>17 DEF Hear, Awaits
  <2>3. QED
    BY <1>8, <2>1, <2>2
<1>18. CASE CountRefusal(s)
  <2>1. UNCHANGED <<want, rider, duty, pending, cards, chores>> /\ Hear(s)
    BY <1>18 DEF CountRefusal
  <2>2. PICK pc \in {"wave", "await"} :
          search' = [search EXCEPT ![s] = [search[s] EXCEPT !.inbox = Tail(@), !.rejected = @ + 1,
                       !.answered = @ \cup {Answer(s).courier}, !.pc = pc]]
    BY <1>4, <1>18 DEF CountRefusal
  <2>3. /\ Only(s) /\ search'[s].pc = pc /\ search'[s].order = search[s].order
        /\ search'[s].cancelled = search[s].cancelled
    BY <1>3, <1>4, <2>2 DEF Running, Only
  <2>4. QED
    BY <1>4, <1>7, <1>8, <1>11, <1>17, <2>1, <2>3 DEF Searching
<1>19. CASE Claim(s)
  <2> DEFINE c == Answer(s).courier
  <2>1. /\ UNCHANGED <<want, rider, chores>> /\ Hear(s) /\ duty[c] = "online" /\ c \in Courier
        /\ duty' = [duty EXCEPT ![c] = "claimed"] /\ Unregister(s)
        /\ Withdraw(search[s].order, search[s].wave \ {c})
    BY <1>19 DEF Claim, Claimable, Online
  <2>2. search' = [search EXCEPT ![s] =
                     [search[s] EXCEPT !.pc = "assign", !.winner = c, !.inbox = <<>>]]
    BY <1>4, <1>19 DEF Claim
  <2>3. Only(s) /\ search'[s].pc = "assign" /\ search'[s].winner = c
    BY <1>3, <1>4, <2>2 DEF Running, Only
  <2>4. ~ Holds(s) /\ Holds(s)' /\ search'[s].pc \notin Searching
    BY <1>17, <2>1, <2>3 DEF Holds, Searching
  <2>5. duty' \in [Courier -> {"online", "claimed", "missed", "offline"}]
    BY <1>8, <2>1
  <2>6. TypeOK'
    BY <1>3, <1>7, <1>9, <1>17, <2>1, <2>5, UnregisterType
  <2>7. Tokens' /\ BusyForAReason'
    BY <2>1, <2>3, <2>4, ClaimKeeps
  <2>8. QED
    BY <2>1, <2>3, <2>4, <2>6, <2>7, EntryLost
<1>20. CASE ClaimFails(s)
  <2>1. UNCHANGED <<want, rider, duty, cards, chores>> /\ Hear(s) /\ Exit(s) /\ Unregister(s)
    BY <1>20 DEF ClaimFails, Exit
  <2>2. ~ Holds(s)
    BY <1>17, <2>1 DEF Holds
  <2>3. QED
    BY <1>7, <1>8, <1>10, <1>17, <2>1, <2>2, UnregisterType
<1>21. CASE Timeout(s)
  <2>1. /\ UNCHANGED <<want, rider, pending, chores>> /\ search[s].pc = "await"
        /\ Withdraw(search[s].order, search[s].wave)
        /\ search' = [search EXCEPT ![s] = [search[s] EXCEPT !.pc = "wave"]]
    BY <1>4, <1>21 DEF Timeout, Awaits
  <2>2. /\ Only(s) /\ search'[s].pc = "wave" /\ search'[s].order = search[s].order
        /\ search'[s].cancelled = search[s].cancelled
    BY <1>3, <1>4, <2>1 DEF Running, Only
  <2>3. /\ duty' \in [Courier -> {"online", "claimed", "missed", "offline"}]
        /\ \A c \in Courier : duty'[c] = "claimed" <=> duty[c] = "claimed"
    BY <1>8, <1>21 DEF Timeout
  <2>4. missed' \in [Courier -> 0..(MaxMissed - 1)]
    <3>1. MaxMissed \in Nat \ {0}
      BY SettingStays DEF IInv
    <3>2. \A m \in 0..(MaxMissed - 1) : (m + 1) % MaxMissed \in 0..(MaxMissed - 1)
      BY <3>1
    <3>3. QED
      BY <1>8, <1>21, <3>2 DEF Timeout
  <2>5. QED
    BY <1>3, <1>4, <1>7, <1>9, <1>11, <2>1, <2>2, <2>3, <2>4 DEF Searching
<1>22. CASE ContextDone(s)
  <2>1. /\ UNCHANGED <<want, rider, duty, missed, chores>> /\ search[s].pc = "await"
        /\ Exit(s) /\ Unregister(s) /\ Withdraw(search[s].order, search[s].wave)
    BY <1>22 DEF ContextDone, Exit, Awaits
  <2>2. QED
    BY <1>3, <1>7, <1>8, <1>9, <1>10, <2>1, UnregisterType DEF Holds
<1>23. CASE AssignCourier(s)
  <2> DEFINE o == search[s].order
  <2>1. UNCHANGED <<want, duty, pending, cards, missed, chores>> /\ search[s].pc = "assign"
    BY <1>23 DEF AssignCourier
  <2>2. Holds(s) /\ search[s].pc \notin Searching /\ search[s].winner \in Courier
    BY <2>1, HeldAreCouriers DEF Holds, Searching, IInv
  <2>3. CASE MayAssign(o) /\ rider' = [rider EXCEPT ![o] = search[s].winner]
             /\ search' = [search EXCEPT ![s] = Off]
    <3>1. Only(s) /\ search'[s] = Off
      BY <1>4, <2>3 DEF Only
    <3>2. TypeOK'
      BY <1>1, <2>1, <2>2, <2>3, SettingStays DEF IInv, TypeOK
    <3>3. search'[s].pc = "off" /\ ~ Holds(s)'
      BY <3>1 DEF Off, Holds
    <3>4. (Registered /\ OneSearchPerOrder)'
      BY <2>1, <2>2, <3>1, <3>3, EntryKept DEF Searching
    <3>5. Tokens' /\ BusyForAReason'
      BY <1>3, <2>1, <2>2, <2>3, <3>1, <3>3, AssignKeeps
    <3>6. QED
      BY <2>1, <3>2, <3>4, <3>5
  <2>4. CASE search' = [search EXCEPT ![s].pc = "release"] /\ UNCHANGED rider
    <3>1. Only(s) /\ search'[s].pc = "release" /\ search'[s].winner = search[s].winner
      BY <1>3, <1>4, <2>4 DEF Only, Running
    <3>2. TypeOK'
      BY <1>4, <1>7, <1>8, <2>1, <2>4
    <3>3. (Registered /\ OneSearchPerOrder)'
      BY <2>1, <2>2, <3>1, EntryKept DEF Searching
    <3>4. \A r \in Search : (Holds(r)' <=> Holds(r)) /\ search'[r].winner = search[r].winner
      BY <2>2, <3>1 DEF Only, Holds
    <3>5. \A q \in Order : Active(q)' <=> Active(q)
      BY <2>1, <2>4 DEF Active
    <3>6. Tokens' /\ BusyForAReason'
      BY <2>1, <2>4, <3>4, <3>5, TokensShrink, BusyKept
    <3>7. QED
      BY <2>1, <3>2, <3>3, <3>6
  <2>5. QED
    BY <1>23, <2>3, <2>4 DEF AssignCourier
<1>24. CASE ReleaseCourier(s)
  <2>1. /\ UNCHANGED <<want, rider, pending, cards, missed, chores>> /\ search[s].pc = "release"
        /\ search' = [search EXCEPT ![s] = Off]
        /\ \/ duty' = [duty EXCEPT ![search[s].winner] = "online"]
           \/ Faults /\ UNCHANGED duty
    BY <1>24 DEF ReleaseCourier
  <2>2. Only(s) /\ search'[s] = Off /\ Holds(s) /\ ~ Holds(s)' /\ search[s].pc \notin Searching
    BY <1>4, <2>1 DEF Only, Off, Holds, Searching
  <2>3. TypeOK'
    BY <1>4, <1>7, <1>8, <2>1
  <2>4. QED
    BY <2>1, <2>2, <2>3, EntryKept, ReleaseKeeps DEF Off, Searching
<1>25. QED
  BY <1>12, <1>13, <1>14, <1>15, <1>16, <1>18, <1>19, <1>20, <1>21, <1>22, <1>23, <1>24 DEF Step

-----------------------------------------------------------------------------
(* Answers, the couriers' switches and the end of the process *)

(* An answer goes to the wave that is asked.                               *)
LEMMA HandleResponseKeeps ==
  ASSUME IInv, UNCHANGED setting, NEW c \in Courier, NEW o \in Order, NEW accepted \in BOOLEAN,
         HandleResponse(c, o, accepted)
  PROVE  IInv'
<1> DEFINE s == pending[o]
<1> DEFINE n == [search[s] EXCEPT !.inbox = Append(@, [courier |-> c, accepted |-> accepted])]
<1>1. /\ UNCHANGED <<want, rider, duty, pending, missed, chores>> /\ s # None
      /\ c \in search[s].wave /\ Withdraw(o, {c})
  BY DEF HandleResponse
<1>2. s \in Search /\ search \in [Search -> Running \cup {Off}] /\ search[s].pc \in Searching
  BY <1>1 DEF IInv, TypeOK, Registered
<1>3. Live(s) /\ ~ Holds(s)
  BY <1>2 DEF Live, Searching, Holds
<1>4. search[s] \in Running /\ Sane(search[s])
  BY <1>2, <1>3, LiveIsRunning DEF IInv, AllSane
<1>5. search' = [search EXCEPT ![s] = n]
  BY <1>2 DEF HandleResponse
<1>6. n \in Running /\ Sane(n)
  <2> DEFINE r == [courier |-> c, accepted |-> accepted]
  <2> DEFINE more == Append(search[s].inbox, r)
  <2>1. r \in Response /\ r.courier = c /\ search[s].inbox \in Seq(Response)
    BY <1>4 DEF Response, Running
  <2> HIDE DEF r
  <2>2. /\ more \in Seq(Response) /\ DOMAIN more = 1..(Len(search[s].inbox) + 1)
        /\ DOMAIN search[s].inbox = 1..Len(search[s].inbox) /\ Len(search[s].inbox) \in Nat
        /\ \A i \in 1..Len(search[s].inbox) : more[i] = search[s].inbox[i]
        /\ more[Len(search[s].inbox) + 1] = r
    BY <2>1, AppendProperties, LenProperties
  <2>3. \A i \in DOMAIN more : more[i].courier \in search[s].wave
    BY <1>1, <1>4, <2>1, <2>2 DEF Sane
  <2>4. n = [search[s] EXCEPT !.inbox = more]
    BY DEF r
  <2> HIDE DEF n, more
  <2>5. n \in Running
    BY <1>4, <2>2, <2>4 DEF Running
  <2>6. n.inbox = more /\ n.wave = search[s].wave /\ n.pc = search[s].pc
        /\ n.winner = search[s].winner /\ n.rejected = search[s].rejected
    BY <1>4, <2>4 DEF Running
  <2>7. QED
    BY <1>4, <2>3, <2>5, <2>6 DEF Sane
<1>7. search' \in [Search -> Running' \cup {Off}] /\ AllSane'
  BY <1>2, <1>5, <1>6, Replaced
<1>8. /\ Only(s) /\ search'[s].pc = search[s].pc /\ search'[s].order = search[s].order
      /\ search'[s].cancelled = search[s].cancelled
  BY <1>2, <1>4, <1>5 DEF Only, Running
<1>9. TypeOK'
  <2>1. cards' \in [Courier -> SUBSET Order]
    BY <1>1 DEF Withdraw, IInv, TypeOK
  <2>2. QED
    BY <1>1, <1>7, <2>1, SettingStays DEF IInv, TypeOK
<1>10. (Registered /\ OneSearchPerOrder)'
  BY <1>1, <1>2, <1>8, EntryKept
<1>11. Tokens' /\ BusyForAReason'
  BY <1>1, <1>2, <1>3, <1>8, QuietStep DEF Holds
<1>12. QED
  BY <1>1, <1>7, <1>9, <1>10, <1>11 DEF IInv, ChoresGood

(* The switch: a claimed courier stays claimed, unless couriers switch on  *)
(* line at any time.                                                       *)
LEMMA ToggleKeeps ==
  ASSUME IInv, UNCHANGED setting, NEW c \in Courier, GoOffline(c) \/ GoOnline(c)
  PROVE  IInv'
<1>1. /\ UNCHANGED <<want, rider, pending, search, cards, missed, chores>>
      /\ duty' \in [Courier -> {"online", "claimed", "missed", "offline"}]
  BY DEF GoOffline, GoOnline, IInv, TypeOK
<1>2. search' \in [Search -> Running' \cup {Off}] /\ AllSane'
  BY <1>1, AllSaneStays
<1>3. TypeOK'
  BY <1>1, <1>2, SettingStays DEF IInv, TypeOK
<1>4. (Registered /\ OneSearchPerOrder)' /\ ChoresGood'
  BY <1>1 DEF IInv, Registered, OneSearchPerOrder, ChoresGood
<1>5. /\ \A d \in Courier : duty'[d] = "claimed" => duty[d] = "claimed"
      /\ Toggles # "any" => \A d \in Courier : duty[d] = "claimed" => duty'[d] = "claimed"
  BY DEF GoOffline, GoOnline, IInv, TypeOK
<1>6. \A q \in Order : Active(q)' <=> Active(q)
  BY <1>1 DEF Active
<1>7. \A r \in Search : (Holds(r)' <=> Holds(r)) /\ search'[r].winner = search[r].winner
  BY <1>1 DEF Holds
<1>8. BusyForAReason'
  BY <1>1, <1>5, <1>6, <1>7, BusyKept
<1>9. Tokens'
  <2>1. CASE Toggles # "any"
    BY <1>1, <1>5, <1>6, <1>7, <2>1, TokensShrink
  <2>2. CASE Toggles = "any"
    BY <2>2 DEF Tokens, Toggles
  <2>3. QED
    BY <2>1, <2>2
<1>10. QED
  BY <1>2, <1>3, <1>4, <1>8, <1>9 DEF IInv

(* The process dies: orders and claims survive, searches do not.           *)
LEMMA CrashKeeps ==
  ASSUME IInv, UNCHANGED setting, Crash
  PROVE  IInv'
<1>1. UNCHANGED <<want, rider, duty>> /\ chores' = {} /\ Faults
  BY DEF Crash
<1>2. \A s \in Search : search'[s] = Off
  BY DEF Crash
<1>3. \A s \in Search : search'[s].pc = "off" /\ ~ Holds(s)' /\ ~ Live(s)'
  BY <1>2 DEF Off, Holds, Live
<1>4. AllSane'
  BY <1>3 DEF AllSane
<1>5. TypeOK'
  <2>1. search' \in [Search -> Running' \cup {Off}]
    BY DEF Crash
  <2>2. missed' \in [Courier -> 0..(MaxMissed - 1)]
    <3>1. 0 \in 0..(MaxMissed - 1)
      BY SettingStays DEF IInv
    <3>2. QED
      BY <3>1 DEF Crash
  <2>3. pending' \in [Order -> Search \cup {None}] /\ cards' \in [Courier -> SUBSET Order]
    BY DEF Crash
  <2>4. QED
    BY <1>1, <2>1, <2>2, <2>3, SettingStays DEF IInv, TypeOK
<1>6. Registered'
  BY DEF Crash, Registered
<1>7. OneSearchPerOrder'
  BY <1>3 DEF OneSearchPerOrder
<1>8. ChoresGood'
  BY <1>1 DEF ChoresGood
<1>9. \A o \in Order : Active(o)' <=> Active(o)
  BY <1>1 DEF Active
<1>10. Tokens'
  BY <1>1, <1>3, <1>9, TokensShrink
<1>11. BusyForAReason'
  BY <1>1 DEF BusyForAReason, Faults
<1>12. QED
  BY <1>4, <1>5, <1>6, <1>7, <1>8, <1>10, <1>11 DEF IInv

-----------------------------------------------------------------------------
(* The theorems *)

(* At the start nobody searches and nobody is claimed.                     *)
LEMMA InitHolds == Init => IInv
<1> SUFFICES ASSUME Init PROVE IInv
  OBVIOUS
<1>2. 0 \in 0..(MaxMissed - 1) /\ setting \in Settings
  BY Options DEF Init, MaxMissed
<1>3. TypeOK
  BY <1>2 DEF Init, TypeOK
<1>4. \A s \in Search : search[s].pc = "off" /\ ~ Holds(s) /\ ~ Live(s)
  BY DEF Init, Off, Holds, Live
<1>5. AllSane /\ Registered /\ OneSearchPerOrder /\ ChoresGood
  BY <1>4 DEF Init, AllSane, Registered, OneSearchPerOrder, ChoresGood
<1>6. \A o \in Order : ~ Active(o)
  BY DEF Init, Active
<1>7. Tokens
  BY <1>4, <1>6 DEF Init, Tokens, OneHolder, HeldIsClaimed
<1>8. BusyForAReason
  BY DEF Init, BusyForAReason
<1>9. QED
  BY <1>2, <1>3, <1>5, <1>7, <1>8 DEF IInv

(* One case per action.                                                    *)
LEMMA NextKeeps ==
  ASSUME IInv, [Next]_<<vars, setting>>
  PROVE  IInv'
<1>1. CASE UNCHANGED <<vars, setting>>
  <2>1. search' \in [Search -> Running' \cup {Off}] /\ AllSane'
    BY <1>1, AllSaneStays DEF vars
  <2>2. TypeOK' /\ Registered' /\ OneSearchPerOrder' /\ ChoresGood'
    BY <1>1, <2>1, SettingStays
       DEF vars, IInv, TypeOK, Registered, OneSearchPerOrder, ChoresGood
  <2>3. (\A o \in Order : Active(o)' <=> Active(o)) /\ (\A s \in Search : Holds(s)' <=> Holds(s))
    BY <1>1 DEF vars, Active, Holds
  <2>4. Tokens' /\ BusyForAReason'
    BY <1>1, <2>3, TokensShrink, BusyKept DEF vars
  <2>5. QED
    BY <1>1, <2>1, <2>2, <2>4 DEF IInv
<1>2. ASSUME NEW o \in Order, UNCHANGED setting, Accept(o) \/ Retry(o) \/ Recover(o)
      PROVE  IInv'
  <2>1. PICK s \in Search : Spawn(s, o)
    BY <1>2 DEF Accept, Retry, Recover
  <2>2. /\ UNCHANGED <<rider, duty, pending, cards, missed, chores>> /\ want[o] # "closed"
        /\ want' = want \/ want' = [want EXCEPT ![o] = "waiting"]
    BY <1>2 DEF Accept, Retry, Recover, NeedsDispatchRecovery
  <2>3. QED
    BY <1>2, <2>1, <2>2, Spawning
<1>3. CASE Next
  BY <1>2, <1>3, GiveUpKeeps, CloseKeeps, CancelAsideKeeps, StopDispatchKeeps, FreeCourierKeeps,
     HandleResponseKeeps, StepKeeps, ToggleKeeps, CrashKeeps DEF Next
<1>4. QED
  BY <1>1, <1>3

(* The searches' inductive invariant.                                      *)
THEOREM Invariance == Spec => []IInv
<1>1. IInv /\ [Next]_<<vars, setting>> => IInv'
  BY NextKeeps
<1>2. QED
  BY InitHolds, <1>1, PTL DEF Spec

(* The types of the searches' state.                                       *)
THEOREM TypeCorrect == Spec => []TypeOK
<1>1. IInv => TypeOK
  BY DEF IInv
<1>2. QED
  BY Invariance, <1>1, PTL

(* The courier a search claims is of the wave it asked (awaitWave,         *)
(* dispatch.go:428-434, 637-731): an answer of an old wave never wins.     *)
THEOREM WinnerWasAskedHolds == Spec => []WinnerWasAsked
<1>1. IInv => WinnerWasAsked
  BY DEF IInv, AllSane, Sane, Live, WinnerWasAsked
<1>2. QED
  BY Invariance, <1>1, PTL

(* At most one goroutine offers an order: a second one finds the entry     *)
(* taken, and one that lost its entry is cancelled (Dispatch, Cancel).     *)
THEOREM OneSearchPerOrderHolds == Spec => []OneSearchPerOrder
<1>1. IInv => OneSearchPerOrder
  BY DEF IInv
<1>2. QED
  BY Invariance, <1>1, PTL

(* The claim (ClaimIfAvailable) and who hands it on give a courier one     *)
(* order at a time, in every interleaving of searches and handlers.        *)
THEOREM OneActiveOrderHolds == Spec => []OneActiveOrder
<1>1. IInv => OneActiveOrder
  BY DEF IInv, Tokens, OneHolder, OneActiveOrder
<1>2. QED
  BY Invariance, <1>1, PTL

(* No courier stays marked busy for nothing: there is always somebody left *)
(* who will free the courier, unless a call failed or the order was        *)
(* cancelled aside.                                                        *)
THEOREM BusyForAReasonHolds == Spec => []BusyForAReason
<1>1. IInv => BusyForAReason
  BY DEF IInv
<1>2. QED
  BY Invariance, <1>1, PTL

(* An order never changes its courier: the assignment of a late search     *)
(* finds the row taken (AssignCourier).                                    *)
THEOREM RiderStaysHolds == Spec => RiderStays
<1>1. ASSUME IInv, [Next]_<<vars, setting>>, NEW o \in Order, rider[o] # None
      PROVE  rider'[o] = rider[o]
  <2>1. CASE UNCHANGED <<vars, setting>>
    BY <2>1 DEF vars
  <2>2. ASSUME NEW s \in Search, Step(s) PROVE rider'[o] = rider[o]
    BY <1>1, <2>2 DEF IInv, TypeOK, Step, Register, Check, StartWave, EndCycle, EndPause,
       CountRefusal, Claim, ClaimFails, Timeout, ContextDone, AssignCourier, ReleaseCourier, MayAssign
  <2>3. CASE Next
    BY <2>2, <2>3 DEF Next, Accept, Retry, Recover, GiveUp, Close, CancelAside, StopDispatch,
       FreeCourier, HandleResponse, GoOffline, GoOnline, Crash
  <2>4. QED
    BY <1>1, <2>1, <2>3
<1>2. IInv /\ [Next]_<<vars, setting>>
        => [\A o \in Order : rider[o] # None => rider'[o] = rider[o]]_vars
  BY <1>1
<1>3. QED
  BY Invariance, <1>2, PTL DEF Spec, RiderStays
============================================================================
