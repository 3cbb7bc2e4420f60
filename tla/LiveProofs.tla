----------------------------- MODULE LiveProofs -----------------------------
(***************************************************************************)
(* What the panels of a restaurant hear over the live channel.             *)
(*                                                                         *)
(* The chat: nothing is sent twice, nothing is missed, the badges are      *)
(* right and only what was shown is read, for any number of panels,        *)
(* messages, queues and retries.  What holds whatever goes wrong comes     *)
(* first; the rest holds until the first of the mishaps that a panel does  *)
(* not recover from (Mishap), in two parts: messages, and views of the     *)
(* thread.  Assumed are the constants' types and that a panel hears the    *)
(* topic of its side (ChatAssumption, TopicsOfSides).                      *)
(*                                                                         *)
(* The alerts: one event is one alert, whatever goes wrong; until the      *)
(* first mishap no panel is left without one, and only what was given to   *)
(* a panel is read.  Assumed are the constants' types and that a panel     *)
(* hears the topic of its restaurant (AlertsAssumption, CentersHear).      *)
(***************************************************************************)
EXTENDS SupportChat, Alerts, FiniteSetTheorems, SequenceTheorems, WellFoundedInduction, TLAPS

-----------------------------------------------------------------------------
(* The largest number of a set *)

(* A set of numbers that is bounded has a largest one, and MaxOf is it.    *)
LEMMA MaxOfIs ==
  ASSUME NEW n \in Nat, NEW S \in SUBSET (1..n)
  PROVE  /\ MaxOf(S) \in 0..n
         /\ S = {} => MaxOf(S) = 0
         /\ S # {} => MaxOf(S) \in S
         /\ \A m \in S : m <= MaxOf(S)
<1>1. CASE S = {}
  BY <1>1 DEF MaxOf
<1>2. CASE S # {}
  <2> DEFINE Above(m) == {k \in S : k > m}
  <2> DEFINE C == {Above(m) : m \in S}
  <2> DEFINE R == StrictSubsetOrdering(S)
  <2> DEFINE F == FiniteSubsetsOf(S)
  <2>1. IsFiniteSet(S)
    <3>1. IsFiniteSet(1..n)
      BY FS_Interval
    <3> QED
      BY <3>1, FS_Subset
  <2>2. IsWellFoundedOn(R, F)
    BY <2>1, FS_StrictSubsetOrderingWellFounded
  <2>3. C \subseteq F /\ C # {}
    <3>1. \A T \in C : T \in SUBSET S
      OBVIOUS
    <3>2. \A T \in C : IsFiniteSet(T)
      BY <2>1, <3>1, FS_Subset
    <3>3. C # {}
      BY <1>2
    <3> QED
      BY <3>1, <3>2, <3>3 DEF FiniteSubsetsOf
  <2>4. \E T \in C : \A U \in C : ~(<<U, T>> \in R)
    <3> HIDE DEF C, R, F
    <3>1. \E x : x \in C
      BY <2>3
    <3> QED
      BY <2>2, <2>3, <3>1, WFMin
  <2>5. PICK m \in S : \A U \in C : ~(<<U, Above(m)>> \in R)
    BY <2>4
  <2>6. Above(m) = {}
    <3> SUFFICES ASSUME NEW k \in Above(m) PROVE FALSE
      OBVIOUS
    <3> k \in S /\ k \in 1..n /\ m \in 1..n /\ k > m
      OBVIOUS
    <3>1. Above(k) \in C /\ Above(k) \subseteq Above(m)
      <4>1. ASSUME NEW j \in Above(k) PROVE j \in Above(m)
        <5>1. j \in S /\ j \in 1..n /\ j > k
          OBVIOUS
        <5> QED
          BY <5>1
      <4>2. Above(k) \in C
        OBVIOUS
      <4> QED
        BY <4>1, <4>2
    <3>2. k \in Above(m) /\ k \notin Above(k)
      OBVIOUS
    <3>3. Above(k) # Above(m)
      BY <3>2
    <3>4. <<Above(k), Above(m)>> \in R
      <4>1. Above(k) \in SUBSET S /\ Above(m) \in SUBSET S
        OBVIOUS
      <4> HIDE DEF Above
      <4> QED
        BY <3>1, <3>3, <4>1 DEF StrictSubsetOrdering
    <3> QED
      BY <2>5, <3>1, <3>4
  <2>7. \A k \in S : k <= m
    BY <2>6
  <2>8. \E k \in S : \A j \in S : j <= k
    BY <2>7
  <2>9. MaxOf(S) \in S /\ \A j \in S : j <= MaxOf(S)
    BY <1>2, <2>8 DEF MaxOf
  <2>10. MaxOf(S) \in 1..n
    BY <2>9
  <2> QED
    BY <1>2, <2>9, <2>10
<1> QED
  BY <1>1, <1>2

-----------------------------------------------------------------------------
(* What holds whatever goes wrong *)

Message == [from : Panel, key : Nat \ {0}]
View == [last : Nat, read : Nat, peer : Nat, unread : Nat]
Event == [kind : {"message", "read"}, seq : Nat, thread : View]

ChatShape ==
  /\ thread \in [log : Seq(Message), read : [Side -> Nat]]
  /\ post \in [Panel -> {Idle} \cup [pc : {"tell"}, new : BOOLEAN, seq : Nat]
                               \cup [pc : {"answer"}, seq : Nat, thread : View]]
  /\ mark \in [Panel -> {Idle} \cup [pc : {"sent"}, upTo : Nat]
                               \cup [pc : {"tell"}, changed : BOOLEAN]
                               \cup [pc : {"answer"}, thread : View] \cup [pc : {"failed"}]]
  /\ page \in [Panel -> {Idle} \cup [pc : {"load", "catch"}, items : SUBSET Nat]
                               \cup [pc : {"loaded", "caught"}, items : SUBSET Nat, thread : View]]
  /\ view \in [Panel -> [held : SUBSET Nat, thread : View, outbox : SUBSET Nat,
                         written : Nat, again : BOOLEAN]]
  /\ socket \in [Device -> {"off", "rising", "open", "stopped", "gone"}]
  /\ out \in [Device -> Seq(Event)]

(* Nobody writes or tells while somebody is between the two.               *)
Lock ==
  /\ \A p, q \in Panel :
       /\ post[p].pc = "tell" /\ post[q].pc = "tell" => p = q
       /\ mark[p].pc = "tell" /\ mark[q].pc = "tell" => p = q
       /\ ~(post[p].pc = "tell" /\ mark[q].pc = "tell")
  /\ \A p \in Panel : post[p].pc = "tell" /\ post[p].new => post[p].seq = Last

Items(p) == IF page[p] = Idle THEN {} ELSE page[p].items

(* Whatever is under way has a number of the thread.                       *)
Numbered ==
  /\ \A s \in Side : thread.read[s] <= Last
  /\ \A p \in Panel : /\ view[p].held \subseteq Seqs
                      /\ Items(p) \subseteq Seqs
                      /\ post[p] # Idle => post[p].seq \in Seqs
                      /\ \A i \in DOMAIN out[p] : out[p][i].kind = "message" => out[p][i].seq \in Seqs

(* A key is used for one message.                                          *)
Keyed == /\ \A n \in Seqs : thread.log[n].key <= view[thread.log[n].from].written
         /\ \A p \in Panel : \A k \in view[p].outbox : k <= view[p].written /\ k > 0

ChatBase == ChatShape /\ Lock /\ Numbered /\ Keyed /\ SentOnce

(* A view of the thread has numbers.                                       *)
LEMMA ViewOfThread ==
  ASSUME ChatShape, NEW side \in Side, \A s \in Side : thread.read[s] <= Last
  PROVE  /\ ThreadView(thread, side) \in View
         /\ Last \in Nat
         /\ Other(side) \in Side
<1>1. Last \in Nat /\ DOMAIN thread.log = 1..Last
  BY DEF ChatShape, Last
<1>2. UnreadOf(thread, side) \in Nat
  <2>1. IsFiniteSet(1..Last)
    BY <1>1, FS_Interval
  <2>2. {n \in DOMAIN thread.log : SideOf[thread.log[n].from] # side /\ n > thread.read[side]}
          \in SUBSET (1..Last)
    BY <1>1
  <2> QED
    BY <2>1, <2>2, FS_Subset, FS_CardinalityType DEF UnreadOf
<1>3. Other(side) \in Side
  BY DEF Other, Side
<1> QED
  BY <1>1, <1>2, <1>3 DEF ThreadView, View, ChatShape, Last

-----------------------------------------------------------------------------
(* What a panel holds *)

Holding == [held : SUBSET Nat, thread : View, outbox : SUBSET Nat, written : Nat, again : BOOLEAN]

(* What panel p may come to hold, v.                                       *)
Fits(p, v) ==
  /\ v \in Holding /\ v.held \subseteq Seqs /\ v.written >= view[p].written
  /\ \A k \in v.outbox : k <= v.written /\ k > 0
  /\ \A n \in v.held : thread.log[n].from = p => thread.log[n].key \notin v.outbox

Shows(p, v) == \E again \in BOOLEAN : view' = [view EXCEPT ![p] = [v EXCEPT !.again = again]]

(* What a panel holds fits it.                                             *)
LEMMA ViewFits ==
  ASSUME ChatBase, NEW p \in Panel
  PROVE  Fits(p, view[p])
BY DEF ChatBase, ChatShape, Numbered, Keyed, SentOnce, Fits, Holding

(* Merging a message or a view gives what fits.                            *)
LEMMA MergeFits ==
  ASSUME NEW p \in Panel, NEW v, Fits(p, v), NEW items \in SUBSET Nat, items \subseteq Seqs,
         ChatShape
  PROVE  /\ Fits(p, Merge(p, v, items))
         /\ Merge(p, v, items).held = v.held \cup items
         /\ Merge(p, v, items).thread = v.thread
<1> DEFINE w == Merge(p, v, items)
<1>1. /\ w.held = v.held \cup items /\ w.thread = v.thread /\ w.written = v.written
      /\ w.outbox = {k \in v.outbox : \A n \in items : thread.log[n] # [from |-> p, key |-> k]}
      /\ w \in Holding
  BY DEF Merge, Fits, Holding
<1>2. ASSUME NEW n \in w.held, thread.log[n].from = p
      PROVE  thread.log[n].key \notin w.outbox
  <2>1. CASE n \in v.held
    BY <1>1, <1>2, <2>1 DEF Fits
  <2>2. CASE n \in items
    <3>1. thread.log \in Seq(Message)
      BY DEF ChatShape
    <3>2. thread.log[n] \in Message
      BY <2>2, <3>1 DEF Seqs, Last
    <3>3. thread.log[n] = [from |-> p, key |-> thread.log[n].key]
      BY <1>2, <3>2 DEF Message
    <3> QED
      BY <1>1, <2>2, <3>3
  <2> QED
    BY <1>1, <2>1, <2>2
<1> HIDE DEF w
<1>3. Fits(p, w)
  BY <1>1, <1>2 DEF Fits
<1> QED
  BY <1>1, <1>3 DEF w

(* A view of the thread that is merged changes nothing else.               *)
LEMMA ApplyFits ==
  ASSUME NEW p \in Panel, NEW v, Fits(p, v), NEW x \in View
  PROVE  /\ Fits(p, Apply(v, x))
         /\ Apply(v, x).held = v.held
         /\ Apply(v, x).thread = MergeThread(v.thread, x)
<1>1. MergeThread(v.thread, x) \in View
  BY DEF MergeThread, View, Fits, Holding
<1> QED
  BY <1>1 DEF Apply, Fits, Holding

(* The largest number a panel holds bounds the others and is one of them.  *)
LEMMA LatestOfView ==
  ASSUME ChatShape, NEW v, v.held \subseteq Seqs
  PROVE  /\ LatestSeq(v) \in 0..Last
         /\ \A n \in v.held : n <= LatestSeq(v)
         /\ v.held # {} => LatestSeq(v) \in v.held
         /\ v.held = {} => LatestSeq(v) = 0
<1>1. Last \in Nat
  BY DEF ChatShape, Last
<1>2. v.held \in SUBSET (1..Last)
  BY DEF Seqs
<1> QED
  BY <1>1, <1>2, MaxOfIs DEF LatestSeq

(* A panel that shows more tells the server of it, one request at a time.  *)
Asks(p, v) == mark' \in {mark, [mark EXCEPT ![p] = Idle],
                        [mark EXCEPT ![p] = [pc |-> "sent", upTo |-> LatestSeq(v)]]}

(* markSeen shows what it was given and sends one mark at most.            *)
LEMMA MarkSeenShows ==
  ASSUME ChatShape, NEW p \in Panel, NEW v \in Holding, MarkSeen(p, v)
  PROVE  Shows(p, v) /\ Asks(p, v)
<1>1. v = [v EXCEPT !.again = v.again] /\ v.again \in BOOLEAN
  BY DEF Holding
<1>2. Shows(p, v)
  BY <1>1 DEF MarkSeen, Shows
<1>3. Asks(p, v)
  BY DEF MarkSeen, Asks
<1> QED
  BY <1>2, <1>3

(* What a panel is shown keeps what is known of every panel.               *)
LEMMA ShowsBase ==
  ASSUME ChatBase, NEW p \in Panel, NEW v, Fits(p, v), Shows(p, v), UNCHANGED thread
  PROVE  /\ view' \in [Panel -> Holding]
         /\ \A q \in Panel : view'[q].held \subseteq Seqs
         /\ Keyed' /\ SentOnce'
<1>1. PICK again \in BOOLEAN : view' = [view EXCEPT ![p] = [v EXCEPT !.again = again]]
  BY DEF Shows
<1> DEFINE w == [v EXCEPT !.again = again]
<1>2. /\ w \in Holding /\ w.held = v.held /\ w.outbox = v.outbox /\ w.written = v.written
  BY DEF Fits, Holding
<1>3. /\ view \in [Panel -> Holding]
      /\ Seqs' = Seqs /\ thread' = thread
  BY DEF ChatBase, ChatShape, Holding, Seqs, Last
<1> HIDE DEF w
<1>4. view' = [view EXCEPT ![p] = w]
  BY <1>1 DEF w
<1>5. view' \in [Panel -> Holding]
  BY <1>2, <1>3, <1>4
<1>6. \A q \in Panel : view'[q] = IF q = p THEN w ELSE view[q]
  BY <1>3, <1>4
<1>7. \A q \in Panel : view'[q].held \subseteq Seqs
  BY <1>2, <1>6 DEF ChatBase, Numbered, Fits
<1>8. Keyed'
  <2>1. ASSUME NEW n \in Seqs PROVE thread.log[n].key <= view'[thread.log[n].from].written
    <3>1. thread.log[n] \in Message
      BY DEF ChatBase, ChatShape, Seqs, Last
    <3>2. view[thread.log[n].from].written \in Nat
      BY <1>3, <3>1 DEF Message, Holding
    <3>3. thread.log[n].key <= view[thread.log[n].from].written
      BY DEF ChatBase, Keyed
    <3>4. CASE thread.log[n].from = p
      BY <1>2, <1>6, <3>1, <3>2, <3>3, <3>4 DEF Fits, Holding, Message
    <3>5. CASE thread.log[n].from # p
      BY <1>6, <3>1, <3>3, <3>5 DEF Message
    <3> QED
      BY <3>4, <3>5
  <2>2. \A q \in Panel : \A k \in view'[q].outbox : k <= view'[q].written /\ k > 0
    BY <1>2, <1>6 DEF ChatBase, Keyed, Fits
  <2> QED
    BY <1>3, <2>1, <2>2 DEF Keyed
<1>9. SentOnce'
  BY <1>2, <1>3, <1>6 DEF ChatBase, SentOnce, Fits
<1> QED
  BY <1>5, <1>7, <1>8, <1>9

-----------------------------------------------------------------------------
(* What holds whatever goes wrong: every step *)

(* The live channel's queues hold events and its sockets have a state.     *)
LEMMA SendShape ==
  ASSUME ChatShape, NEW told, told \in [{TopicOf[s] : s \in Side} -> Event], Send(told)
  PROVE  /\ out' \in [Device -> Seq(Event)]
         /\ socket' \in [Device -> {"off", "rising", "open", "stopped", "gone"}]
         /\ \A d \in Device : \A i \in DOMAIN out'[d] :
              \/ i \in DOMAIN out[d] /\ out'[d][i] = out[d][i]
              \/ i = Len(out[d]) + 1 /\ \E x \in DOMAIN told : out'[d][i] = told[x]
<1>1. ASSUME NEW d \in Device
      PROVE  \/ EventFor(d, told) = <<>>
             \/ \E x \in DOMAIN told : EventFor(d, told) = <<told[x]>>
  BY DEF EventFor
<1>2. ASSUME NEW d \in Device
      PROVE  \/ out'[d] = out[d]
             \/ \E x \in DOMAIN told : out'[d] = Append(out[d], told[x])
  <2>1. out[d] \in Seq(Event)
    BY DEF ChatShape
  <2>2. out[d] \o <<>> = out[d]
    BY <2>1
  <2>3. \A x \in DOMAIN told : told[x] \in Event
    OBVIOUS
  <2>4. \A x \in DOMAIN told : out[d] \o <<told[x]>> = Append(out[d], told[x])
    BY <2>1, <2>3, AppendIsConcat
  <2> QED
    BY <1>1, <2>2, <2>4 DEF Send
<1>3. ASSUME NEW d \in Device
      PROVE  /\ out'[d] \in Seq(Event)
             /\ \A i \in DOMAIN out'[d] :
                  \/ i \in DOMAIN out[d] /\ out'[d][i] = out[d][i]
                  \/ i = Len(out[d]) + 1 /\ \E x \in DOMAIN told : out'[d][i] = told[x]
  <2>1. out[d] \in Seq(Event)
    BY DEF ChatShape
  <2>2. CASE out'[d] = out[d]
    BY <2>1, <2>2
  <2>3. ASSUME NEW x \in DOMAIN told, out'[d] = Append(out[d], told[x])
        PROVE  /\ out'[d] \in Seq(Event)
               /\ \A i \in DOMAIN out'[d] :
                    \/ i \in DOMAIN out[d] /\ out'[d][i] = out[d][i]
                    \/ i = Len(out[d]) + 1 /\ \E y \in DOMAIN told : out'[d][i] = told[y]
    <3>1. told[x] \in Event
      OBVIOUS
    <3> QED
      BY <2>1, <2>3, <3>1, AppendProperties, LenProperties
  <2> QED
    BY <1>2, <2>2, <2>3
<1>4. out' = [d \in Device |-> out'[d]] /\ socket' = [d \in Device |-> socket'[d]]
  BY DEF Send
<1>5. \A d \in Device : socket'[d] \in {"off", "rising", "open", "stopped", "gone"}
  BY DEF Send, ChatShape
<1> QED
  BY <1>3, <1>4, <1>5

(* What is told reaches the open sockets of both sides, each with the      *)
(* thread as its side sees it, and ends those whose queue is full.         *)
NewsFor(q, kind, n) == [kind |-> kind, seq |-> n, thread |-> ThreadView(thread, SideOf[q])]
Told(q, news) ==
  /\ socket[q] = "open" /\ ~Full(q) => /\ out'[q] = Append(out[q], news)
                                       /\ socket'[q] = "open"
  /\ ~(socket[q] = "open" /\ ~Full(q)) => out'[q] = out[q]
  /\ socket[q] # "open" => socket'[q] = socket[q]
  /\ socket[q] = "open" /\ Full(q) => socket'[q] = "stopped"

(* A restaurant and the platform hear the same news, each as its side sees *)
(* the thread; a queue gets nothing else.                                  *)
LEMMA TellTells ==
  ASSUME ChatShape, \A s \in Side : thread.read[s] <= Last,
         NEW kind \in {"message", "read"}, NEW n \in Nat, Tell(kind, n)
  PROVE  /\ out' \in [Device -> Seq(Event)]
         /\ socket' \in [Device -> {"off", "rising", "open", "stopped", "gone"}]
         /\ \A d \in Device : \A i \in DOMAIN out'[d] :
              \/ i \in DOMAIN out[d] /\ out'[d][i] = out[d][i]
              \/ out'[d][i].kind = kind /\ out'[d][i].seq = n
         /\ \A q \in Panel : NewsFor(q, kind, n) \in Event /\ Told(q, NewsFor(q, kind, n))
<1> DEFINE side(topic) == CHOOSE s \in Side : TopicOf[s] = topic
<1> DEFINE told == [topic \in {TopicOf[s] : s \in Side} |->
                      [kind |-> kind, seq |-> n, thread |-> ThreadView(thread, side(topic))]]
<1>1. Send(told)
  BY DEF Tell
<1>2. \A s \in Side : side(TopicOf[s]) = s
  BY TopicsOfSides DEF Side
<1>3. \A s \in Side : ThreadView(thread, s) \in View
  BY ViewOfThread
<1> HIDE DEF side
<1>4. told \in [{TopicOf[s] : s \in Side} -> Event]
  BY <1>2, <1>3 DEF Event
<1>5. \A x \in DOMAIN told : told[x].kind = kind /\ told[x].seq = n
  OBVIOUS
<1>6. ASSUME NEW q \in Panel
      PROVE  NewsFor(q, kind, n) \in Event /\ EventFor(q, told) = <<NewsFor(q, kind, n)>>
  <2>1. SideOf[q] \in Side
    BY ChatAssumption DEF Side
  <2>2. told[TopicOf[SideOf[q]]] = NewsFor(q, kind, n)
    BY <1>2, <2>1 DEF NewsFor
  <2>3. Hears[q] \cap DOMAIN told = {TopicOf[SideOf[q]]}
    BY TopicsOfSides
  <2> HIDE DEF told
  <2>4. EventFor(q, told) = <<told[TopicOf[SideOf[q]]]>>
    BY <2>3 DEF EventFor
  <2> QED
    BY <1>3, <2>1, <2>2, <2>4 DEF NewsFor, Event
<1> HIDE DEF told
<1>7. ASSUME NEW q \in Panel PROVE Told(q, NewsFor(q, kind, n))
  <2>1. q \in Device /\ out[q] \in Seq(Event)
    BY ChatAssumption DEF ChatShape
  <2>2. out[q] \o <<NewsFor(q, kind, n)>> = Append(out[q], NewsFor(q, kind, n))
    BY <1>6, <2>1, AppendIsConcat
  <2>3. EventFor(q, told) # <<>>
    BY <1>6
  <2>4. /\ out'[q] = IF socket[q] = "open" /\ ~Full(q) THEN Append(out[q], NewsFor(q, kind, n)) ELSE out[q]
        /\ socket'[q] = IF socket[q] = "open" /\ Full(q) THEN "stopped" ELSE socket[q]
    BY <1>1, <1>6, <2>1, <2>2, <2>3 DEF Send
  <2> QED
    BY <2>4 DEF Told
<1> QED
  BY <1>1, <1>4, <1>5, <1>6, <1>7, SendShape

(* Nothing is written, held or under way at first.                         *)
LEMMA BaseInit == ChatInit => ChatBase
<1> SUFFICES ASSUME ChatInit PROVE ChatBase
  OBVIOUS
<1>1. ChatShape
  BY DEF ChatInit, HubInit, ChatShape, Idle, NoThread, View
<1>2. Last = 0 /\ Seqs = {}
  BY DEF ChatInit, Last, Seqs
<1>3. Lock
  BY DEF ChatInit, Lock, Idle
<1>4. Numbered
  <2>1. \A p \in Panel : out[p] = <<>>
    BY ChatAssumption DEF ChatInit, HubInit
  <2>2. \A p \in Panel : Items(p) = {} /\ view[p].held = {} /\ post[p] = Idle
    BY DEF ChatInit, Items
  <2> QED
    BY <1>2, <2>1, <2>2 DEF ChatInit, Numbered
<1>5. Keyed /\ SentOnce
  BY <1>2 DEF ChatInit, Keyed, SentOnce
<1> QED
  BY <1>1, <1>3, <1>4, <1>5 DEF ChatBase

(* A step that changes nothing keeps what holds.                           *)
LEMMA BaseStutters ==
  ASSUME ChatBase, UNCHANGED <<hubVars, chatVars>>
  PROVE  ChatBase'
BY DEF ChatBase, ChatShape, Lock, Numbered, Keyed, SentOnce, Items, Last, Seqs, hubVars, chatVars

(* A message waits under a key that no message has yet.                    *)
LEMMA BasePost ==
  ASSUME ChatBase, NEW p \in Panel, Post(p)
  PROVE  ChatBase'
<1> DEFINE key == view[p].written + 1
<1> DEFINE v == [view[p] EXCEPT !.written = key, !.outbox = @ \cup {key}]
<1>1. view[p] \in Holding
  BY DEF ChatBase, ChatShape, Holding
<1>2. /\ v \in Holding /\ v.held = view[p].held /\ v.written = view[p].written + 1
      /\ v.outbox = view[p].outbox \cup {view[p].written + 1}
  <2>1. key \in Nat /\ view[p].outbox \cup {key} \in SUBSET Nat
    BY <1>1 DEF Holding
  <2> HIDE DEF key
  <2>2. /\ v \in Holding /\ v.held = view[p].held /\ v.written = key
        /\ v.outbox = view[p].outbox \cup {key}
    BY <1>1, <2>1 DEF Holding
  <2> QED
    BY <2>2 DEF key
<1>3. view' = [view EXCEPT ![p] = v]
  BY <1>1 DEF Post, Holding, ChatBase, ChatShape
<1> HIDE DEF v
<1>4. Fits(p, v)
  <2>1. ASSUME NEW n \in v.held, thread.log[n].from = p
        PROVE  thread.log[n].key \notin v.outbox
    <3>1. n \in Seqs /\ thread.log[n] \in Message
      BY <1>2, ViewFits DEF Fits, ChatBase, ChatShape, Seqs, Last
    <3>2. thread.log[n].key <= view[p].written /\ thread.log[n].key \notin view[p].outbox
      BY <1>2, <2>1, <3>1 DEF ChatBase, Keyed, SentOnce
    <3> QED
      BY <1>1, <1>2, <3>1, <3>2 DEF Holding, Message
  <2>2. \A k \in v.outbox : k <= v.written /\ k > 0
    BY <1>1, <1>2, ViewFits DEF Fits, Holding
  <2> QED
    BY <1>1, <1>2, <2>1, <2>2, ViewFits DEF Fits, Holding
<1>5. Shows(p, v)
  <2>1. v = [v EXCEPT !.again = v.again] /\ v.again \in BOOLEAN
    BY <1>2 DEF Holding
  <2> QED
    BY <1>3, <2>1 DEF Shows
<1>6. UNCHANGED <<thread, post, mark, page, hubVars>>
  BY DEF Post
<1> QED
  BY <1>4, <1>5, <1>6, ShowsBase
    DEF ChatBase, ChatShape, Holding, Lock, Numbered, Items, Last, Seqs, hubVars

(* A message that is stored has a new number and a new key; one that is    *)
(* stored already keeps its own.                                           *)
LEMMA BaseInsert ==
  ASSUME ChatBase, NEW p \in Panel, NEW key \in 1..MaxPosts, InsertMessage(p, key)
  PROVE  ChatBase'
<1> DEFINE old == Stored(p, key)
<1>1. /\ post[p] = Idle /\ key \in view[p].outbox /\ LockIsFree
      /\ UNCHANGED <<mark, page, view, hubVars>>
  BY DEF InsertMessage
<1>2. key \in Nat \ {0} /\ key <= view[p].written
  BY <1>1, ViewFits, ChatAssumption DEF Fits, Holding
<1>3. thread.log \in Seq(Message) /\ Last \in Nat /\ Seqs = 1..Last /\ DOMAIN thread.log = 1..Last
  BY DEF ChatBase, ChatShape, Seqs, Last
<1>4. CASE old # {}
  <2>1. MaxOf(old) \in Seqs
    <3>1. old \in SUBSET (1..Last)
      BY <1>3 DEF Stored, Written
    <3> QED
      BY <1>3, <1>4, <3>1, MaxOfIs
  <2>2. thread' = thread /\ Last' = Last /\ Seqs' = Seqs
    BY <1>4 DEF InsertMessage, Last, Seqs
  <2>3. post' = [post EXCEPT ![p] = [pc |-> "tell", new |-> FALSE, seq |-> MaxOf(old)]]
    BY <1>4 DEF InsertMessage
  <2>4. ChatShape'
    BY <1>1, <1>3, <2>1, <2>2, <2>3 DEF ChatBase, ChatShape, hubVars
  <2>5. Lock'
    BY <1>1, <2>2, <2>3 DEF ChatBase, Lock, LockIsFree, ChatShape
  <2>6. Numbered'
    BY <1>1, <2>1, <2>2, <2>3 DEF ChatBase, Numbered, Items, hubVars, ChatShape
  <2>7. Keyed' /\ SentOnce'
    BY <1>1, <2>2 DEF ChatBase, Keyed, SentOnce
  <2> QED
    BY <2>4, <2>5, <2>6, <2>7 DEF ChatBase
<1>5. CASE old = {}
  <2> DEFINE m == [from |-> p, key |-> key]
  <2>1. /\ thread' = Store(thread, p, key)
        /\ post' = [post EXCEPT ![p] = [pc |-> "tell", new |-> TRUE, seq |-> Last + 1]]
    BY <1>5 DEF InsertMessage
  <2>2. m \in Message
    BY <1>2 DEF Message
  <2>3. /\ thread'.log \in Seq(Message) /\ Last' = Last + 1 /\ Seqs' = Seqs \cup {Last + 1}
        /\ \A n \in Seqs : thread'.log[n] = thread.log[n]
        /\ thread'.log[Last + 1] = m
        /\ DOMAIN thread'.log = 1..(Last + 1)
    <3>1. thread'.log = Append(thread.log, m)
      BY <2>1 DEF Store
    <3>2. /\ thread'.log \in Seq(Message) /\ Len(thread'.log) = Len(thread.log) + 1
          /\ \A n \in 1..Len(thread.log) : thread'.log[n] = thread.log[n]
          /\ thread'.log[Len(thread.log) + 1] = m
      BY <1>3, <2>2, <3>1, AppendProperties
    <3>3. Last' = Last + 1
      BY <3>2 DEF Last
    <3> QED
      BY <1>3, <3>2, <3>3 DEF Last, Seqs
  <2>4. /\ thread'.read \in [Side -> Nat] /\ \A s \in Side : thread'.read[s] <= Last'
        /\ thread' \in [log : Seq(Message), read : [Side -> Nat]]
    <3>1. thread'.read = [thread.read EXCEPT ![SideOf[p]] = Last + 1]
      BY <2>1 DEF Store, Last
    <3>2. thread'.read \in [Side -> Nat] /\ \A s \in Side : thread'.read[s] <= Last'
      BY <1>3, <2>3, <3>1, ChatAssumption DEF ChatBase, ChatShape, Numbered, Side
    <3> QED
      BY <2>1, <2>3, <3>2 DEF Store
  <2>5. ChatShape'
    BY <1>1, <1>3, <2>1, <2>4 DEF ChatBase, ChatShape, hubVars
  <2>6. Lock'
    BY <1>1, <2>1, <2>3 DEF ChatBase, Lock, LockIsFree, ChatShape
  <2>7. Numbered'
    <3>1. Seqs \subseteq Seqs' /\ Last + 1 \in Seqs'
      BY <2>3
    <3>2. \A q \in Panel : post'[q] # Idle => post'[q].seq \in Seqs'
      BY <2>1, <3>1 DEF ChatBase, Numbered, ChatShape
    <3> QED
      BY <1>1, <2>4, <3>1, <3>2 DEF ChatBase, Numbered, Items, hubVars
  <2>8. Keyed'
    BY <1>1, <1>2, <2>3 DEF ChatBase, Keyed
  <2>9. SentOnce'
    <3>1. \A n \in Seqs : thread.log[n] # m
      BY <1>5 DEF Stored, Written
    <3>2. \A a, b \in Seqs' : thread'.log[a] = thread'.log[b] => a = b
      BY <2>3, <3>1 DEF ChatBase, SentOnce
    <3>3. \A q \in Panel : view'[q] = view[q] /\ view[q].held \subseteq Seqs
      BY <1>1 DEF ChatBase, Numbered
    <3> HIDE DEF m
    <3> QED
      BY <2>3, <3>2, <3>3 DEF ChatBase, SentOnce
  <2> QED
    BY <2>5, <2>6, <2>7, <2>8, <2>9 DEF ChatBase
<1> QED
  BY <1>4, <1>5

(* The queues lose events and gain none.                                   *)
Drained ==
  /\ out' \in [Device -> Seq(Event)]
  /\ \A d \in Device : \A i \in DOMAIN out'[d] : \E j \in DOMAIN out[d] : out'[d][i] = out[d][j]

(* A queue that is left alone gains nothing.                               *)
LEMMA SameIsDrained ==
  ASSUME ChatShape, out' = out
  PROVE  Drained
BY DEF ChatShape, Drained

(* The head of a queue goes to the device, the rest moves up by one.       *)
LEMMA WriteDrains ==
  ASSUME ChatShape, NEW p \in Panel, Write(p)
  PROVE  /\ Drained /\ UNCHANGED socket
         /\ out[p] # <<>> /\ Head(out[p]) = out[p][1] /\ Head(out[p]) \in Event
         /\ 1 \in DOMAIN out[p]
         /\ \A q \in Panel : q # p => out'[q] = out[q]
         /\ Len(out'[p]) = Len(out[p]) - 1
         /\ DOMAIN out'[p] = 1..(Len(out[p]) - 1) /\ DOMAIN out[p] = 1..Len(out[p])
         /\ \A i \in DOMAIN out'[p] : out'[p][i] = out[p][i + 1]
<1>1. out[p] # <<>> /\ out' = [out EXCEPT ![p] = Tail(out[p])] /\ UNCHANGED socket
  BY DEF Write
<1>2. p \in Device /\ out[p] \in Seq(Event) /\ Panel \subseteq Device
  BY ChatAssumption DEF ChatShape
<1>3. out'[p] = Tail(out[p]) /\ \A q \in Device : q # p => out'[q] = out[q]
  BY <1>1, <1>2 DEF ChatShape
<1>4. /\ Head(out[p]) \in Event /\ Tail(out[p]) \in Seq(Event)
      /\ Len(Tail(out[p])) = Len(out[p]) - 1
      /\ \A i \in 1..Len(Tail(out[p])) : Tail(out[p])[i] = out[p][i + 1]
  BY <1>1, <1>2, HeadTailProperties
<1>5. /\ DOMAIN Tail(out[p]) = 1..(Len(out[p]) - 1) /\ DOMAIN out[p] = 1..Len(out[p])
      /\ Len(out[p]) \in Nat \ {0} /\ Head(out[p]) = out[p][1]
  BY <1>1, <1>2, <1>4, LenProperties, EmptySeq
<1>6. out' \in [Device -> Seq(Event)]
  BY <1>1, <1>2, <1>4 DEF ChatShape
<1>7. \A i \in DOMAIN out'[p] : i + 1 \in DOMAIN out[p] /\ out'[p][i] = out[p][i + 1]
  BY <1>3, <1>4, <1>5
<1>8. Drained
  BY <1>3, <1>6, <1>7 DEF Drained
<1> QED
  BY <1>1, <1>2, <1>3, <1>4, <1>5, <1>7, <1>8

(* A panel is shown something: the end of an answer, an event or a page.   *)
LEMMA BaseShows ==
  ASSUME ChatBase, NEW p \in Panel, NEW v, Fits(p, v), Shows(p, v), Asks(p, v),
         UNCHANGED thread, Drained,
         post' \in {post, [post EXCEPT ![p] = Idle]},
         page' \in {page, [page EXCEPT ![p] = Idle]},
         UNCHANGED socket
  PROVE  ChatBase'
<1>1. /\ view' \in [Panel -> Holding] /\ \A q \in Panel : view'[q].held \subseteq Seqs
      /\ Keyed' /\ SentOnce'
  BY ShowsBase
<1>2. LatestSeq(v) \in Nat
  <2>1. Last \in Nat
    BY DEF ChatBase, ChatShape, Last
  <2> QED
    BY <2>1, LatestOfView DEF ChatBase, Fits
<1>3. ChatShape'
  <2> USE DEF ChatBase, ChatShape
  <2>1. mark' \in [Panel -> {Idle} \cup [pc : {"sent"}, upTo : Nat]
                               \cup [pc : {"tell"}, changed : BOOLEAN]
                               \cup [pc : {"answer"}, thread : View] \cup [pc : {"failed"}]]
    <3>1. [pc |-> "sent", upTo |-> LatestSeq(v)] \in [pc : {"sent"}, upTo : Nat]
      BY <1>2
    <3> DEFINE sent == [pc |-> "sent", upTo |-> LatestSeq(v)]
    <3> DEFINE Marks == {Idle} \cup [pc : {"sent"}, upTo : Nat]
                               \cup [pc : {"tell"}, changed : BOOLEAN]
                               \cup [pc : {"answer"}, thread : View] \cup [pc : {"failed"}]
    <3>2. mark' = mark \/ mark' = [mark EXCEPT ![p] = Idle] \/ mark' = [mark EXCEPT ![p] = sent]
      BY DEF Asks
    <3>3. mark \in [Panel -> Marks] /\ Idle \in Marks /\ sent \in Marks
      BY <3>1
    <3>4. mark' \in [Panel -> Marks]
      <4> HIDE DEF Marks, sent, ChatBase, ChatShape
      <4> QED
        BY <3>2, <3>3
    <3> QED
      BY <3>4
  <2>2. /\ post' \in [Panel -> {Idle} \cup [pc : {"tell"}, new : BOOLEAN, seq : Nat]
                                   \cup [pc : {"answer"}, seq : Nat, thread : View]]
    OBVIOUS
  <2>3. page' \in [Panel -> {Idle} \cup [pc : {"load", "catch"}, items : SUBSET Nat]
                               \cup [pc : {"loaded", "caught"}, items : SUBSET Nat, thread : View]]
    OBVIOUS
  <2> QED
    BY <1>1, <2>1, <2>2, <2>3 DEF Holding, Drained
<1>4. Seqs' = Seqs /\ Last' = Last
  BY DEF Seqs, Last
<1>5. \A q \in Panel : post'[q] = post[q] \/ post'[q] = Idle
  BY DEF ChatBase, ChatShape
<1>6. \A q \in Panel : mark'[q] = mark[q] \/ mark'[q].pc # "tell"
  BY DEF ChatBase, ChatShape, Asks, Idle
<1>7. Lock'
  BY <1>4, <1>5, <1>6 DEF ChatBase, Lock, Idle
<1>8. \A q \in Panel : Items(q)' \subseteq Items(q)
  BY DEF ChatBase, ChatShape, Items
<1>9. Numbered'
  <2>1. \A q \in Panel : \A i \in DOMAIN out'[q] : out'[q][i].kind = "message" => out'[q][i].seq \in Seqs
    BY ChatAssumption DEF ChatBase, Numbered, Drained
  <2> QED
    BY <1>1, <1>4, <1>5, <1>8, <2>1 DEF ChatBase, Numbered
<1> QED
  BY <1>1, <1>3, <1>7, <1>9 DEF ChatBase

(* Telling appends an event and moves the teller on.                       *)
LEMMA BaseTells ==
  ASSUME ChatBase, NEW kind \in {"message", "read"}, NEW n \in Nat,
         kind = "message" => n \in Seqs,
         Tell(kind, n) \/ UNCHANGED hubVars
  PROVE  /\ out' \in [Device -> Seq(Event)]
         /\ socket' \in [Device -> {"off", "rising", "open", "stopped", "gone"}]
         /\ \A p \in Panel : \A i \in DOMAIN out'[p] : out'[p][i].kind = "message" => out'[p][i].seq \in Seqs
<1>1. CASE UNCHANGED hubVars
  BY <1>1 DEF hubVars, ChatBase, ChatShape, Numbered
<1>2. CASE Tell(kind, n)
  <2>1. ChatShape /\ \A s \in Side : thread.read[s] <= Last
    BY DEF ChatBase, Numbered
  <2>2. /\ out' \in [Device -> Seq(Event)]
        /\ socket' \in [Device -> {"off", "rising", "open", "stopped", "gone"}]
        /\ \A d \in Device : \A i \in DOMAIN out'[d] :
              \/ i \in DOMAIN out[d] /\ out'[d][i] = out[d][i]
              \/ out'[d][i].kind = kind /\ out'[d][i].seq = n
    BY <1>2, <2>1, TellTells
  <2> QED
    BY <2>2, ChatAssumption DEF ChatBase, Numbered
<1> QED
  BY <1>1, <1>2

(* Telling a message: every queue that gets it gets its number.            *)
LEMMA BaseTellMessage ==
  ASSUME ChatBase, NEW p \in Panel, TellMessage(p)
  PROVE  ChatBase'
<1> USE DEF ChatBase
<1> DEFINE answer == [pc |-> "answer", seq |-> post[p].seq, thread |-> ThreadView(thread, SideOf[p])]
<1>1. /\ post[p].pc = "tell" /\ post' = [post EXCEPT ![p] = answer]
      /\ UNCHANGED <<thread, mark, page, view>>
  BY DEF TellMessage, ChatShape
<1>2. post[p] \in [pc : {"tell"}, new : BOOLEAN, seq : Nat] /\ post[p].seq \in Seqs
  BY <1>1 DEF ChatShape, Numbered, Idle
<1>3. SideOf[p] \in Side /\ ThreadView(thread, SideOf[p]) \in View
  BY ViewOfThread, ChatAssumption DEF Numbered, Side
<1>4. answer \in [pc : {"answer"}, seq : Nat, thread : View] /\ answer.seq = post[p].seq /\ answer.pc = "answer"
  BY <1>2, <1>3
<1>5. Tell("message", post[p].seq) \/ UNCHANGED hubVars
  BY DEF TellMessage
<1>6. /\ out' \in [Device -> Seq(Event)]
      /\ socket' \in [Device -> {"off", "rising", "open", "stopped", "gone"}]
      /\ \A q \in Panel : \A i \in DOMAIN out'[q] : out'[q][i].kind = "message" => out'[q][i].seq \in Seqs
  BY <1>2, <1>5, BaseTells
<1> HIDE DEF answer
<1>7. Last' = Last /\ Seqs' = Seqs
  BY <1>1 DEF Last, Seqs
<1>8. post' \in [Panel -> {Idle} \cup [pc : {"tell"}, new : BOOLEAN, seq : Nat]
                                   \cup [pc : {"answer"}, seq : Nat, thread : View]]
  BY <1>1, <1>4 DEF ChatShape
<1>9. ChatShape'
  BY <1>1, <1>6, <1>8 DEF ChatShape
<1>10. Lock'
  BY <1>1, <1>4, <1>7 DEF ChatShape, Lock
<1>11. Numbered'
  BY <1>1, <1>2, <1>4, <1>6, <1>7 DEF ChatShape, Numbered, Items
<1>12. Keyed' /\ SentOnce'
  BY <1>1, <1>7 DEF Keyed, SentOnce
<1> QED
  BY <1>9, <1>10, <1>11, <1>12

(* A post ends without an answer.                                          *)
LEMMA BaseEndPost ==
  ASSUME ChatBase, NEW p \in Panel, LeaveUntold(p) \/ LoseAnswer(p)
  PROVE  ChatBase'
<1>1. post' = [post EXCEPT ![p] = Idle] /\ UNCHANGED <<thread, mark, page, view, hubVars>>
  BY DEF LeaveUntold, LoseAnswer
<1> QED
  BY <1>1 DEF ChatBase, ChatShape, Lock, Numbered, Keyed, SentOnce, Items, Last, Seqs, hubVars, Idle

(* A mark is moved within the thread, under the lock.                      *)
LEMMA BaseUpdateMark ==
  ASSUME ChatBase, NEW p \in Panel, UpdateMark(p)
  PROVE  ChatBase'
<1> USE DEF ChatBase
<1> DEFINE upTo == IF mark[p].upTo < Last THEN mark[p].upTo ELSE Last
<1> DEFINE side == SideOf[p]
<1>1. /\ mark[p].pc = "sent" /\ LockIsFree
      /\ thread' = [thread EXCEPT !.read[side] = IF upTo > thread.read[side] THEN upTo ELSE thread.read[side]]
      /\ mark' = [mark EXCEPT ![p] = [pc |-> "tell", changed |-> upTo > thread.read[side]]]
      /\ UNCHANGED <<post, page, view, hubVars>>
  BY DEF UpdateMark
<1>2. mark[p].upTo \in Nat /\ Last \in Nat /\ side \in Side
  <2>1. mark[p] \in [pc : {"sent"}, upTo : Nat]
    BY <1>1 DEF ChatShape, Idle
  <2>2. Last \in Nat
    BY DEF ChatShape, Last
  <2> QED
    BY <2>1, <2>2, ChatAssumption DEF Side
<1>3. upTo \in Nat /\ upTo <= Last
  BY <1>2
<1> HIDE DEF upTo
<1>4. /\ thread'.log = thread.log /\ thread' \in [log : Seq(Message), read : [Side -> Nat]]
      /\ \A s \in Side : thread'.read[s] <= Last
  BY <1>1, <1>2, <1>3 DEF ChatShape, Numbered
<1>5. Last' = Last /\ Seqs' = Seqs
  BY <1>4 DEF Last, Seqs
<1>6. (upTo > thread.read[side]) \in BOOLEAN
  BY <1>2, <1>3 DEF ChatShape
<1> DEFINE told == [pc |-> "tell", changed |-> upTo > thread.read[side]]
<1>7. told \in [pc : {"tell"}, changed : BOOLEAN] /\ told.pc = "tell"
  BY <1>6
<1>8. mark' = [mark EXCEPT ![p] = told]
  BY <1>1
<1> HIDE DEF told
<1>9. ChatShape'
  <2>1. mark' \in [Panel -> {Idle} \cup [pc : {"sent"}, upTo : Nat]
                               \cup [pc : {"tell"}, changed : BOOLEAN]
                               \cup [pc : {"answer"}, thread : View] \cup [pc : {"failed"}]]
    BY <1>7, <1>8 DEF ChatShape
  <2>2. UNCHANGED <<post, page, view, socket, out>>
    BY <1>1 DEF hubVars
  <2> QED
    BY <1>4, <2>1, <2>2 DEF ChatShape
<1>10. Lock'
  BY <1>1, <1>5, <1>8 DEF ChatShape, Lock, LockIsFree
<1>11. Numbered'
  BY <1>1, <1>4, <1>5 DEF Numbered, Items, hubVars
<1>12. Keyed' /\ SentOnce'
  BY <1>1, <1>4, <1>5 DEF Keyed, SentOnce
<1> QED
  BY <1>9, <1>10, <1>11, <1>12

(* Telling a mark: no queue gets a message.                                *)
LEMMA BaseTellMark ==
  ASSUME ChatBase, NEW p \in Panel, TellMark(p)
  PROVE  ChatBase'
<1> USE DEF ChatBase
<1> DEFINE answer == [pc |-> "answer", thread |-> ThreadView(thread, SideOf[p])]
<1>1. mark' = [mark EXCEPT ![p] = answer] /\ UNCHANGED <<thread, post, page, view>>
  BY DEF TellMark
<1>2. SideOf[p] \in Side /\ ThreadView(thread, SideOf[p]) \in View
  BY ViewOfThread, ChatAssumption DEF Numbered, Side
<1>3. answer \in [pc : {"answer"}, thread : View] /\ answer.pc = "answer"
  BY <1>2
<1>4. Tell("read", 0) \/ UNCHANGED hubVars
  BY DEF TellMark
<1>5. /\ out' \in [Device -> Seq(Event)]
      /\ socket' \in [Device -> {"off", "rising", "open", "stopped", "gone"}]
      /\ \A q \in Panel : \A i \in DOMAIN out'[q] : out'[q][i].kind = "message" => out'[q][i].seq \in Seqs
  BY <1>4, BaseTells
<1> HIDE DEF answer
<1>6. Last' = Last /\ Seqs' = Seqs
  BY <1>1 DEF Last, Seqs
<1>7. ChatShape'
  BY <1>1, <1>3, <1>5 DEF ChatShape
<1>8. Lock'
  BY <1>1, <1>3, <1>6 DEF ChatShape, Lock
<1>9. Numbered' /\ Keyed' /\ SentOnce'
  BY <1>1, <1>5, <1>6 DEF Numbered, Items, Keyed, SentOnce
<1> QED
  BY <1>7, <1>8, <1>9

(* A mark that is stored and not told touches no queue.                    *)
LEMMA BaseLeaveMark ==
  ASSUME ChatBase, NEW p \in Panel, LeaveMarkUntold(p)
  PROVE  ChatBase'
<1> USE DEF ChatBase
<1>1. mark' = [mark EXCEPT ![p] = [pc |-> "failed"]] /\ UNCHANGED <<thread, post, page, view, hubVars>>
  BY DEF LeaveMarkUntold
<1>2. Last' = Last /\ Seqs' = Seqs
  BY <1>1 DEF Last, Seqs
<1>3. ChatShape' /\ Lock'
  BY <1>1, <1>2 DEF ChatShape, Lock, hubVars
<1>4. Numbered' /\ Keyed' /\ SentOnce'
  BY <1>1, <1>2 DEF Numbered, Items, Keyed, SentOnce, hubVars
<1> QED
  BY <1>3, <1>4

(* The second read of a page adds the view of the thread, no message.      *)
LEMMA BaseReadThread ==
  ASSUME ChatBase, NEW p \in Panel, ReadThread(p)
  PROVE  ChatBase' /\ \A q \in Panel : Items(q)' = Items(q)
<1> USE DEF ChatBase
<1> DEFINE read == [pc |-> IF page[p].pc = "load" THEN "loaded" ELSE "caught",
                    items |-> page[p].items, thread |-> ThreadView(thread, SideOf[p])]
<1>1. /\ page[p].pc \in {"load", "catch"} /\ page' = [page EXCEPT ![p] = read]
      /\ UNCHANGED <<thread, post, mark, view, hubVars>>
  BY DEF ReadThread, ChatShape
<1>2. SideOf[p] \in Side /\ ThreadView(thread, SideOf[p]) \in View
  BY ViewOfThread, ChatAssumption DEF Numbered, Side
<1>3. page[p] # Idle /\ page[p].items \in SUBSET Nat
  BY <1>1 DEF ChatShape, Idle
<1>4. /\ read \in [pc : {"loaded", "caught"}, items : SUBSET Nat, thread : View]
      /\ read.items = page[p].items /\ read # Idle
  BY <1>2, <1>3 DEF Idle
<1> HIDE DEF read
<1>5. ChatShape'
  BY <1>1, <1>4 DEF ChatShape, hubVars
<1>6. \A q \in Panel : Items(q)' = Items(q)
  BY <1>1, <1>3, <1>4 DEF Items, ChatShape
<1>7. Lock' /\ Keyed' /\ SentOnce'
  BY <1>1 DEF Lock, Keyed, SentOnce, Last, Seqs
<1>8. Numbered'
  BY <1>1, <1>6 DEF Numbered, Last, Seqs, hubVars
<1> QED
  BY <1>5, <1>6, <1>7, <1>8

(* Answers, events and pages are shown.                                    *)
LEMMA BaseAnswer ==
  ASSUME ChatBase, NEW p \in Panel, Answer(p)
  PROVE  /\ ChatBase' /\ post[p].pc = "answer"
         /\ post[p] \in [pc : {"answer"}, seq : Nat, thread : View] /\ post[p].seq \in Seqs
         /\ view'[p].held = view[p].held \cup {post[p].seq}
         /\ view'[p].thread = MergeThread(view[p].thread, post[p].thread)
         /\ \A q \in Panel : q # p => view'[q] = view[q]
<1> DEFINE v == Apply(Merge(p, view[p], {post[p].seq}), post[p].thread)
<1>1. /\ post[p].pc = "answer" /\ view' = [view EXCEPT ![p] = v]
      /\ post' = [post EXCEPT ![p] = Idle] /\ UNCHANGED <<thread, mark, page, hubVars>>
  BY DEF Answer
<1>2. post[p] \in [pc : {"answer"}, seq : Nat, thread : View] /\ post[p].seq \in Seqs
  BY <1>1 DEF ChatBase, ChatShape, Numbered, Idle
<1>3. ChatShape
  BY DEF ChatBase
<1>4. {post[p].seq} \in SUBSET Nat /\ {post[p].seq} \subseteq Seqs /\ post[p].thread \in View
  BY <1>2
<1>5. /\ Fits(p, v) /\ v.held = view[p].held \cup {post[p].seq}
      /\ v.thread = MergeThread(view[p].thread, post[p].thread)
  <2>1. Fits(p, view[p])
    BY ViewFits
  <2> DEFINE w == Merge(p, view[p], {post[p].seq})
  <2>2. Fits(p, w) /\ w.held = view[p].held \cup {post[p].seq} /\ w.thread = view[p].thread
    BY <1>3, <1>4, <2>1, MergeFits
  <2> HIDE DEF w
  <2>3. Fits(p, Apply(w, post[p].thread)) /\ Apply(w, post[p].thread).held = w.held
        /\ Apply(w, post[p].thread).thread = MergeThread(w.thread, post[p].thread)
    BY <1>4, <2>2, ApplyFits
  <2> QED
    BY <2>2, <2>3 DEF w
<1> HIDE DEF v
<1>6. Shows(p, v)
  <2>1. v = [v EXCEPT !.again = v.again] /\ v.again \in BOOLEAN
    BY <1>5 DEF Fits, Holding
  <2> QED
    BY <1>1, <2>1 DEF Shows
<1>7. Drained
  BY <1>1, <1>3, SameIsDrained DEF hubVars
<1>8. ChatBase'
  BY <1>1, <1>5, <1>6, <1>7, BaseShows DEF Asks, hubVars
<1>9. view'[p] = v /\ \A q \in Panel : q # p => view'[q] = view[q]
  BY <1>1, <1>3 DEF ChatShape
<1> QED
  BY <1>1, <1>2, <1>5, <1>8, <1>9

(* What panel p holds and asks for once it has been shown v.               *)
NowShows(p, v) ==
  /\ view'[p].held = v.held /\ view'[p].thread = v.thread
  /\ \A q \in Panel : q # p => view'[q] = view[q] /\ mark'[q] = mark[q]
  /\ mark'[p] \in {mark[p], Idle, [pc |-> "sent", upTo |-> LatestSeq(v)]}

(* What is shown to a panel is what it holds then.                         *)
LEMMA ShowsThat ==
  ASSUME ChatShape, NEW p \in Panel, NEW v \in Holding, Shows(p, v), Asks(p, v)
  PROVE  NowShows(p, v)
<1>1. PICK again \in BOOLEAN : view' = [view EXCEPT ![p] = [v EXCEPT !.again = again]]
  BY DEF Shows
<1> DEFINE w == [v EXCEPT !.again = again]
<1>2. w.held = v.held /\ w.thread = v.thread
  BY DEF Holding
<1> HIDE DEF w
<1>3. view'[p] = w /\ \A q \in Panel : q # p => view'[q] = view[q]
  BY <1>1 DEF ChatShape, w
<1> DEFINE sent == [pc |-> "sent", upTo |-> LatestSeq(v)]
<1>4. mark' = mark \/ mark' = [mark EXCEPT ![p] = Idle] \/ mark' = [mark EXCEPT ![p] = sent]
  BY DEF Asks
<1> HIDE DEF sent
<1>5. mark'[p] \in {mark[p], Idle, sent} /\ \A q \in Panel : q # p => mark'[q] = mark[q]
  BY <1>4 DEF ChatShape
<1> QED
  BY <1>2, <1>3, <1>5 DEF NowShows, sent

(* What an event shows: the message, if it brings one, and the thread.     *)
LEMMA BaseReceive ==
  ASSUME ChatBase, NEW p \in Panel, Receive(p)
  PROVE  /\ ChatBase'
         /\ \E v : /\ NowShows(p, v) /\ Fits(p, v)
                   /\ v.held = view[p].held \cup (IF out[p][1].kind = "message" THEN {out[p][1].seq} ELSE {})
                   /\ v.thread = MergeThread(view[p].thread, out[p][1].thread)
<1> DEFINE e == out[p][1]
<1> DEFINE items == IF e.kind = "message" THEN {e.seq} ELSE {}
<1> DEFINE w == IF e.kind = "message" THEN Merge(p, view[p], {e.seq}) ELSE view[p]
<1> DEFINE v == Apply(w, e.thread)
<1>1. ChatShape
  BY DEF ChatBase
<1>2. Write(p) /\ UNCHANGED <<thread, post, page, met>>
  BY DEF Receive
<1>3. Drained /\ UNCHANGED socket /\ Head(out[p]) = e /\ e \in Event /\ 1 \in DOMAIN out[p]
  BY <1>1, <1>2, WriteDrains
<1>4. IF e.kind = "message" THEN MarkSeen(p, v) ELSE view' = [view EXCEPT ![p] = v] /\ UNCHANGED mark
  BY <1>3 DEF Receive
<1>5. e.thread \in View /\ (e.kind = "message" => e.seq \in Seqs /\ {e.seq} \in SUBSET Nat)
  BY <1>3 DEF ChatBase, Numbered, Event
<1>6. Fits(p, w) /\ w.held = view[p].held \cup items /\ w.thread = view[p].thread
  <2>1. Fits(p, view[p])
    BY ViewFits
  <2>2. CASE e.kind = "message"
    <3>1. {e.seq} \subseteq Seqs
      BY <1>5, <2>2
    <3> QED
      BY <1>1, <1>5, <2>1, <2>2, <3>1, MergeFits
  <2>3. CASE e.kind # "message"
    BY <2>1, <2>3
  <2> QED
    BY <2>2, <2>3
<1> HIDE DEF w
<1>7. Fits(p, v) /\ v.held = w.held /\ v.thread = MergeThread(w.thread, e.thread)
  BY <1>5, <1>6, ApplyFits
<1> HIDE DEF v, e
<1>8. v \in Holding
  BY <1>7 DEF Fits
<1>9. Shows(p, v) /\ Asks(p, v)
  <2>1. CASE e.kind = "message"
    BY <1>1, <1>4, <1>8, <2>1, MarkSeenShows
  <2>2. CASE e.kind # "message"
    <3>1. v = [v EXCEPT !.again = v.again] /\ v.again \in BOOLEAN
      BY <1>8 DEF Holding
    <3> QED
      BY <1>4, <2>2, <3>1 DEF Shows, Asks
  <2> QED
    BY <2>1, <2>2
<1>10. ChatBase'
  BY <1>2, <1>3, <1>7, <1>9, BaseShows
<1>11. NowShows(p, v)
  BY <1>1, <1>8, <1>9, ShowsThat
<1> QED
  BY <1>6, <1>7, <1>10, <1>11 DEF e

(* What a page shows, before and after what was held.                      *)
LEMMA BaseFinishPage ==
  ASSUME ChatBase, NEW p \in Panel, FinishLoad(p) \/ FinishCatchUp(p)
  PROVE  /\ ChatBase' /\ page[p].pc \in {"loaded", "caught"} /\ page[p].thread \in View
         /\ page' = [page EXCEPT ![p] = Idle] /\ UNCHANGED <<thread, post, hubVars, met>>
         /\ \E v : /\ NowShows(p, v) /\ Fits(p, v)
                   /\ v.held = page[p].items \cup (IF page[p].pc = "loaded" THEN {} ELSE view[p].held)
                   /\ v.thread = MergeThread(view[p].thread, page[p].thread)
<1> DEFINE u == IF page[p].pc = "loaded" THEN [view[p] EXCEPT !.held = {}] ELSE view[p]
<1> DEFINE w == Merge(p, u, page[p].items)
<1> DEFINE v == Apply(w, page[p].thread)
<1>1. ChatShape
  BY DEF ChatBase
<1>2. /\ page[p].pc \in {"loaded", "caught"} /\ MarkSeen(p, v)
      /\ page' = [page EXCEPT ![p] = Idle] /\ UNCHANGED <<thread, post, hubVars, met>>
  BY DEF FinishLoad, FinishCatchUp
<1>3. page[p] \in [pc : {"loaded", "caught"}, items : SUBSET Nat, thread : View] /\ page[p] # Idle
  <2>1. page[p] \in {Idle} \cup [pc : {"load", "catch"}, items : SUBSET Nat]
                       \cup [pc : {"loaded", "caught"}, items : SUBSET Nat, thread : View]
    BY <1>1 DEF ChatShape
  <2> QED
    BY <1>2, <2>1 DEF Idle
<1>4. page[p].items \in SUBSET Nat /\ page[p].items \subseteq Seqs /\ page[p].thread \in View
  BY <1>3 DEF ChatBase, Numbered, Items
<1>5. Fits(p, u) /\ u.thread = view[p].thread
      /\ u.held = IF page[p].pc = "loaded" THEN {} ELSE view[p].held
  BY ViewFits DEF Fits, Holding
<1> HIDE DEF u
<1>6. Fits(p, w) /\ w.held = u.held \cup page[p].items /\ w.thread = u.thread
  BY <1>1, <1>4, <1>5, MergeFits
<1> HIDE DEF w
<1>7. Fits(p, v) /\ v.held = w.held /\ v.thread = MergeThread(w.thread, page[p].thread)
  BY <1>4, <1>6, ApplyFits
<1> HIDE DEF v
<1>8. v \in Holding
  BY <1>7 DEF Fits
<1>9. Shows(p, v) /\ Asks(p, v)
  BY <1>1, <1>2, <1>8, MarkSeenShows
<1>10. Drained
  BY <1>1, <1>2, SameIsDrained DEF hubVars
<1>11. ChatBase'
  BY <1>2, <1>7, <1>9, <1>10, BaseShows DEF hubVars
<1>12. NowShows(p, v)
  BY <1>1, <1>8, <1>9, ShowsThat
<1> QED
  BY <1>2, <1>4, <1>5, <1>6, <1>7, <1>11, <1>12

(* A page that fails shows nothing new.                                    *)
LEMMA BaseFailPage ==
  ASSUME ChatBase, NEW p \in Panel, FailPage(p)
  PROVE  ChatBase'
<1>1. ChatShape /\ page' = [page EXCEPT ![p] = Idle] /\ UNCHANGED <<thread, post, hubVars>>
  BY DEF ChatBase, FailPage
<1>2. Fits(p, view[p]) /\ view[p] \in Holding
  BY ViewFits DEF Fits
<1>3. Shows(p, view[p]) /\ Asks(p, view[p])
  <2>1. CASE MarkSeen(p, view[p])
    BY <1>1, <1>2, <2>1, MarkSeenShows
  <2>2. CASE UNCHANGED <<view, mark>>
    <3>1. view[p] = [view[p] EXCEPT !.again = view[p].again] /\ view[p].again \in BOOLEAN
      BY <1>2 DEF Holding
    <3>2. view' = [view EXCEPT ![p] = view[p]]
      BY <1>1, <2>2 DEF ChatShape
    <3> QED
      BY <2>2, <3>1, <3>2 DEF Shows, Asks
  <2> QED
    BY <2>1, <2>2 DEF FailPage
<1>4. Drained
  BY <1>1, SameIsDrained DEF hubVars
<1> QED
  BY <1>1, <1>2, <1>3, <1>4, BaseShows DEF hubVars

(* The answer to a mark, or its loss.                                      *)
LEMMA BaseEndMark ==
  ASSUME ChatBase, NEW p \in Panel, FinishMark(p) \/ LoseMark(p)
  PROVE  /\ ChatBase' /\ mark[p].pc \in {"sent", "answer", "failed"}
         /\ mark[p].pc = "answer" => mark[p].thread \in View
         /\ UNCHANGED <<thread, post, page, hubVars, met>>
         /\ \E v : /\ NowShows(p, v) /\ Fits(p, v) /\ v.held = view[p].held
                   /\ \/ v.thread = view[p].thread
                      \/ mark[p].pc = "answer" /\ v.thread = MergeThread(view[p].thread, mark[p].thread)
<1>1. ChatShape
  BY DEF ChatBase
<1>2. PICK seen : /\ EndMark(p, seen)
                  /\ \/ seen = view[p]
                     \/ mark[p].pc = "answer" /\ seen = Apply(view[p], mark[p].thread)
  BY DEF FinishMark, LoseMark
<1>3. mark[p].pc \in {"sent", "answer", "failed"} /\ (mark[p].pc = "answer" => mark[p].thread \in View)
  <2>1. mark[p] \in {Idle} \cup [pc : {"sent"}, upTo : Nat] \cup [pc : {"tell"}, changed : BOOLEAN]
                       \cup [pc : {"answer"}, thread : View] \cup [pc : {"failed"}]
    BY <1>1 DEF ChatShape
  <2>2. mark[p].pc \in {"sent", "answer", "failed"}
    BY DEF FinishMark, LoseMark
  <2> QED
    BY <2>1, <2>2 DEF Idle
<1>4. /\ Fits(p, seen) /\ seen.held = view[p].held
      /\ \/ seen.thread = view[p].thread
         \/ mark[p].pc = "answer" /\ seen.thread = MergeThread(view[p].thread, mark[p].thread)
  <2>1. Fits(p, view[p])
    BY ViewFits
  <2>2. CASE seen = view[p]
    BY <2>1, <2>2
  <2>3. CASE mark[p].pc = "answer" /\ seen = Apply(view[p], mark[p].thread)
    BY <1>3, <2>1, <2>3, ApplyFits
  <2> QED
    BY <1>2, <2>2, <2>3
<1> DEFINE v == [seen EXCEPT !.again = FALSE]
<1>5. Fits(p, v) /\ v.held = seen.held /\ v.thread = seen.thread
  BY <1>4 DEF Fits, Holding
<1>6. v \in Holding /\ v.again = FALSE
  BY <1>4 DEF Fits, Holding
<1>7. /\ view' = [view EXCEPT ![p] = v] /\ Asks(p, v)
      /\ UNCHANGED <<thread, post, page, hubVars, met>>
  BY <1>2 DEF EndMark, Asks
<1> HIDE DEF v
<1>8. Shows(p, v)
  <2>1. v = [v EXCEPT !.again = v.again] /\ v.again \in BOOLEAN
    BY <1>6 DEF Holding
  <2> QED
    BY <1>7, <2>1 DEF Shows
<1>9. Drained
  BY <1>1, <1>7, SameIsDrained DEF hubVars
<1>10. ChatBase'
  BY <1>5, <1>7, <1>8, <1>9, BaseShows DEF hubVars
<1>11. NowShows(p, v)
  BY <1>1, <1>6, <1>7, <1>8, ShowsThat
<1> QED
  BY <1>3, <1>4, <1>5, <1>7, <1>10, <1>11

(* A panel asks for a page.                                                *)
LEMMA AskedPage ==
  ASSUME ChatShape
  PROVE  \A p \in Panel : /\ AskPage(view[p]) \in [pc : {"load", "catch"}, items : SUBSET Nat]
                          /\ AskPage(view[p]).items \subseteq Seqs
                          /\ AskPage(view[p]) # Idle
<1> SUFFICES ASSUME NEW p \in Panel
             PROVE  /\ AskPage(view[p]) \in [pc : {"load", "catch"}, items : SUBSET Nat]
                    /\ AskPage(view[p]).items \subseteq Seqs
                    /\ AskPage(view[p]) # Idle
  OBVIOUS
<1>1. Seqs \in SUBSET Nat
  BY DEF ChatShape, Seqs, Last
<1> QED
  BY <1>1 DEF AskPage, Idle

(* Asking for a page, with what becomes of the sockets meanwhile.          *)
LEMMA BaseAsks ==
  ASSUME ChatBase, NEW p \in Panel, page' \in {page, [page EXCEPT ![p] = AskPage(view[p])]},
         UNCHANGED <<thread, post, mark, view>>, Drained,
         socket' \in [Device -> {"off", "rising", "open", "stopped", "gone"}]
  PROVE  ChatBase'
<1> USE DEF ChatBase
<1>1. Last' = Last /\ Seqs' = Seqs
  BY DEF Last, Seqs
<1> DEFINE asked == AskPage(view[p])
<1>2. asked \in [pc : {"load", "catch"}, items : SUBSET Nat] /\ asked.items \subseteq Seqs /\ asked # Idle
  BY AskedPage
<1> HIDE DEF asked
<1>3. page' = page \/ page' = [page EXCEPT ![p] = asked]
  BY DEF asked
<1>4. page' \in [Panel -> {Idle} \cup [pc : {"load", "catch"}, items : SUBSET Nat]
                               \cup [pc : {"loaded", "caught"}, items : SUBSET Nat, thread : View]]
  BY <1>2, <1>3 DEF ChatShape
<1>5. ChatShape'
  BY <1>4 DEF ChatShape, Drained
<1>6. Lock' /\ Keyed' /\ SentOnce'
  BY <1>1 DEF Lock, Keyed, SentOnce
<1>7. \A q \in Panel : page'[q] = page[q] \/ page'[q] = asked
  BY <1>3 DEF ChatShape
<1>8. \A q \in Panel : Items(q)' \subseteq Seqs
  BY <1>2, <1>7 DEF Items, Numbered
<1>9. \A q \in Panel : \A i \in DOMAIN out'[q] : out'[q][i].kind = "message" => out'[q][i].seq \in Seqs
  BY ChatAssumption DEF Numbered, Drained
<1>10. Numbered'
  BY <1>1, <1>8, <1>9 DEF Numbered
<1> QED
  BY <1>5, <1>6, <1>10

(* A socket comes up or ends; its queue is emptied or left.                *)
LEMMA SocketDrains ==
  ASSUME ChatShape, NEW p \in Panel, Connect(p) \/ Register(p) \/ Cut(p) \/ Close(p)
  PROVE  /\ Drained /\ socket' \in [Device -> {"off", "rising", "open", "stopped", "gone"}]
         /\ \A q \in Panel : q # p => out'[q] = out[q] /\ socket'[q] = socket[q]
         /\ Register(p) => out' = out /\ socket[p] = "rising" /\ socket'[p] = "open"
         /\ ~Register(p) => out'[p] = <<>>
         /\ Cut(p) \/ Close(p) => socket'[p] \in {"off", "gone"}
<1>1. p \in Device /\ Panel \subseteq Device
  BY ChatAssumption
<1>2. out' \in {out, [out EXCEPT ![p] = <<>>]}
  BY DEF Connect, Register, Cut, Close
<1>3. <<>> \in Seq(Event) /\ DOMAIN <<>> = {}
  BY EmptySeq
<1>4. Drained
  <2>1. \A d \in Device : out'[d] = out[d] \/ out'[d] = <<>>
    BY <1>1, <1>2 DEF ChatShape
  <2>2. out' \in [Device -> Seq(Event)]
    BY <1>1, <1>2, <1>3 DEF ChatShape
  <2> QED
    BY <1>3, <2>1, <2>2 DEF Drained
<1>5. socket' \in [Device -> {"off", "rising", "open", "stopped", "gone"}]
  <2>1. \E s \in {"off", "rising", "open", "stopped", "gone"} : socket' = [socket EXCEPT ![p] = s]
    BY DEF Connect, Register, Cut, Close
  <2> QED
    BY <1>1, <2>1 DEF ChatShape
<1>6. \A q \in Panel : q # p => out'[q] = out[q] /\ socket'[q] = socket[q]
  BY <1>1 DEF ChatShape, Connect, Register, Cut, Close
<1>7. Register(p) => out' = out /\ socket[p] = "rising" /\ socket'[p] = "open"
  BY <1>1 DEF ChatShape, Register
<1>8. ~Register(p) => out'[p] = <<>>
  BY <1>1 DEF ChatShape, Connect, Cut, Close
<1>9. Cut(p) \/ Close(p) => socket'[p] \in {"off", "gone"}
  BY <1>1 DEF ChatShape, Cut, Close
<1> QED
  BY <1>4, <1>5, <1>6, <1>7, <1>8, <1>9

(* The timer, a reconnect and the end of a socket.                         *)
LEMMA BasePollsOrConnects ==
  ASSUME ChatBase, NEW p \in Panel, Poll(p) \/ Reconnect(p) \/ SocketStep(p)
  PROVE  ChatBase'
<1>1. ChatShape
  BY DEF ChatBase
<1>2. CASE Poll(p)
  BY <1>1, <1>2, SameIsDrained, BaseAsks DEF Poll, hubVars, ChatShape
<1>3. CASE Reconnect(p)
  <2>1. Connect(p) /\ UNCHANGED <<thread, post, mark, view>>
    BY <1>3 DEF Reconnect
  <2>2. page' \in {page, [page EXCEPT ![p] = AskPage(view[p])]}
    <3>1. page = [page EXCEPT ![p] = page[p]]
      BY <1>1 DEF ChatShape
    <3> QED
      BY <1>3, <3>1 DEF Reconnect
  <2> QED
    BY <1>1, <2>1, <2>2, SocketDrains, BaseAsks
<1>4. CASE SocketStep(p)
  <2>1. (Register(p) \/ Cut(p) \/ Close(p)) /\ UNCHANGED <<thread, post, mark, view, page>>
    BY <1>4 DEF SocketStep, chatVars
  <2> QED
    BY <1>1, <2>1, SocketDrains, BaseAsks
<1> QED
  BY <1>2, <1>3, <1>4

(* ChatBase is inductive: every step keeps it, whatever went wrong before. *)
LEMMA BaseNext ==
  ASSUME ChatBase, [ChatNext]_<<hubVars, chatVars>>
  PROVE  ChatBase'
<1>1. CASE UNCHANGED <<hubVars, chatVars>>
  BY <1>1, BaseStutters
<1>2. ASSUME NEW p \in Panel,
             \/ Post(p) \/ TellMessage(p) \/ LeaveUntold(p) \/ LoseAnswer(p) \/ Answer(p)
             \/ \E key \in 1..MaxPosts : InsertMessage(p, key)
             \/ UpdateMark(p) \/ TellMark(p) \/ LeaveMarkUntold(p) \/ LoseMark(p) \/ FinishMark(p)
             \/ ReadThread(p) \/ FinishLoad(p) \/ FinishCatchUp(p) \/ FailPage(p) \/ Poll(p)
             \/ Receive(p) \/ Reconnect(p) \/ SocketStep(p)
      PROVE  ChatBase'
  BY <1>2, BasePost, BaseInsert, BaseTellMessage, BaseEndPost, BaseAnswer, BaseUpdateMark,
     BaseTellMark, BaseLeaveMark, BaseEndMark, BaseReadThread, BaseFinishPage, BaseFailPage, BaseReceive,
     BasePollsOrConnects
<1> QED
  BY <1>1, <1>2 DEF ChatNext

-----------------------------------------------------------------------------
(* What holds until the first mishap: messages *)

(* What a panel holds, or has asked for.                                   *)
Given(p) == view[p].held \cup Items(p)
Whole(S) == \A n \in S : 1..n \subseteq S

(* Message n is among the first k events of the queue of panel p.          *)
Queued(p, n, k) == \E i \in 1..k : out[p][i].kind = "message" /\ out[p][i].seq = n
Untold(n) == \E q \in Panel : post[q].pc = "tell" /\ post[q].new /\ post[q].seq = n
Hearing(p) == socket[p] \in {"rising", "open"}

(* A panel is given the messages in their order, and all that a panel      *)
(* misses while it hears is on its way.                                    *)
InTurn(p) == /\ Whole(Given(p))
             /\ Loading(p) => Items(p) = Seqs
             /\ \A k \in DOMAIN out[p] : out[p][k].kind = "message" =>
                  \A n \in 1..(out[p][k].seq - 1) : n \in Given(p) \/ Queued(p, n, k - 1)
Coming(p) == Hearing(p) => \A n \in Seqs : n \in Given(p) \/ Queued(p, n, Len(out[p])) \/ Untold(n)
MarksGiven(p) == mark[p].pc = "sent" => 1..mark[p].upTo \subseteq Given(p)

Messages == \A p \in Panel : InTurn(p) /\ Coming(p) /\ MarksGiven(p)

(* Seen from the shapes: what numbers are.                                 *)
LEMMA Numbers ==
  ASSUME ChatBase
  PROVE  /\ Last \in Nat /\ Seqs = 1..Last /\ DOMAIN thread.log = 1..Last
         /\ \A n \in Seqs : thread.log[n] \in Message
         /\ \A p \in Panel : /\ Given(p) \subseteq Seqs /\ out[p] \in Seq(Event)
                             /\ Len(out[p]) \in Nat /\ DOMAIN out[p] = 1..Len(out[p])
                             /\ SideOf[p] \in Side /\ ThreadView(thread, SideOf[p]) \in View
<1>1. thread.log \in Seq(Message)
  BY DEF ChatBase, ChatShape
<1>2. Last \in Nat /\ Seqs = 1..Last /\ DOMAIN thread.log = 1..Last
  BY <1>1 DEF Last, Seqs
<1>3. \A n \in Seqs : thread.log[n] \in Message
  BY <1>1, <1>2
<1>4. ASSUME NEW p \in Panel
      PROVE  /\ Given(p) \subseteq Seqs /\ out[p] \in Seq(Event)
             /\ SideOf[p] \in Side /\ ThreadView(thread, SideOf[p]) \in View
  BY ChatAssumption, ViewOfThread DEF ChatBase, ChatShape, Numbered, Given, Side
<1> QED
  BY <1>2, <1>3, <1>4, LenProperties

(* More is given, in order; nothing is told or written.                    *)
LEMMA MoreGiven ==
  ASSUME ChatBase, Messages, UNCHANGED hubVars, thread'.log = thread.log,
         NEW p \in Panel,
         \A n : Untold(n) => Untold(n)',
         Given(p) \subseteq Given(p)', Whole(Given(p)'), Loading(p)' => Items(p)' = Seqs,
         \/ mark'[p] = mark[p]
         \/ mark'[p].pc # "sent"
         \/ 1..mark'[p].upTo \subseteq Given(p)'
  PROVE  (InTurn(p) /\ Coming(p) /\ MarksGiven(p))'
<1>1. Seqs' = Seqs /\ out' = out /\ socket' = socket
  BY DEF Seqs, Last, hubVars
<1>2. \A n, k : Queued(p, n, k)' <=> Queued(p, n, k)
  BY <1>1 DEF Queued
<1>3. InTurn(p) /\ Coming(p) /\ MarksGiven(p)
  BY DEF Messages
<1>4. InTurn(p)'
  BY <1>1, <1>2, <1>3 DEF InTurn
<1>5. Coming(p)'
  BY <1>1, <1>2, <1>3 DEF Coming, Hearing
<1>6. MarksGiven(p)'
  BY <1>3 DEF MarksGiven
<1> QED
  BY <1>4, <1>5, <1>6

(* What is shown stays shown while marks and messages stay.                *)
LEMMA StillShown ==
  ASSUME ChatBase, ShownIsRead, UNCHANGED thread, \A p \in Panel : Given(p) \subseteq Given(p)'
  PROVE  ShownIsRead'
<1>1. Seqs' = Seqs
  BY DEF Seqs, Last
<1>2. \A p \in Panel : \A n : ShownTo(p, n) <=> n \in Given(p)
  BY DEF ShownTo, Given, Items
<1>3. \A p \in Panel : \A n : ShownTo(p, n)' <=> n \in Given(p)'
  BY DEF ShownTo, Given, Items
<1> QED
  BY <1>1, <1>2, <1>3 DEF ShownIsRead

(* What panel p shows or asks for grows, and nothing else moves.           *)
LEMMA OneIsGiven ==
  ASSUME ChatBase, Messages, ShownIsRead, UNCHANGED <<thread, hubVars>>,
         \A n : Untold(n) => Untold(n)',
         NEW p \in Panel,
         \A q \in Panel : q # p => /\ view'[q].held = view[q].held
                                   /\ page'[q] = page[q] /\ mark'[q] = mark[q],
         Given(p) \subseteq Given(p)', Whole(Given(p)'), Loading(p)' => Items(p)' = Seqs,
         mark'[p] \in {mark[p], Idle} \/ mark'[p].pc # "sent" \/ 1..mark'[p].upTo \subseteq Given(p)'
  PROVE  Messages' /\ ShownIsRead'
<1>1. ASSUME NEW q \in Panel
      PROVE  /\ Given(q) \subseteq Given(q)' /\ Whole(Given(q)') /\ (Loading(q)' => Items(q)' = Seqs)
             /\ \/ mark'[q] = mark[q] \/ mark'[q].pc # "sent" \/ 1..mark'[q].upTo \subseteq Given(q)'
  <2>1. CASE q = p
    BY <2>1 DEF Idle
  <2>2. CASE q # p
    <3>1. Given(q)' = Given(q) /\ Items(q)' = Items(q) /\ (Loading(q)' <=> Loading(q))
      BY <2>2 DEF Given, Items, Loading
    <3>2. Whole(Given(q)) /\ (Loading(q) => Items(q) = Seqs)
      BY DEF Messages, InTurn
    <3> QED
      BY <2>2, <3>1, <3>2
  <2> QED
    BY <2>1, <2>2
<1>2. Messages'
  BY <1>1, MoreGiven DEF Messages
<1>3. ShownIsRead'
  BY <1>1, StillShown
<1> QED
  BY <1>2, <1>3

(* What is whole reaches down from the largest number held.                *)
LEMMA DownFromLatest ==
  ASSUME ChatBase, NEW v, v.held \subseteq Seqs, NEW S, Whole(S), v.held \subseteq S
  PROVE  1..LatestSeq(v) \subseteq S
<1>1. ChatShape
  BY DEF ChatBase
<1>2. CASE v.held = {}
  BY <1>1, <1>2, LatestOfView
<1>3. CASE v.held # {}
  BY <1>1, <1>3, LatestOfView DEF Whole
<1> QED
  BY <1>2, <1>3

(* A page asked for by a panel that holds all up to a number makes up for  *)
(* all the rest.                                                           *)
LEMMA AskedIsAll ==
  ASSUME ChatBase, Messages, NEW p \in Panel, page[p] = Idle,
         page'[p] = AskPage(view[p]), UNCHANGED <<thread, view>>
  PROVE  /\ Given(p)' = Seqs /\ Given(p) \subseteq Seqs /\ Whole(Seqs)
         /\ Loading(p)' => Items(p)' = Seqs
<1>1. ChatShape /\ view[p].held \subseteq Seqs /\ Seqs' = Seqs /\ Last \in Nat /\ Seqs = 1..Last
  BY Numbers DEF ChatBase, Numbered, Seqs, Last
<1>2. Given(p) = view[p].held /\ Whole(view[p].held)
  BY DEF Given, Items, Messages, InTurn
<1>3. page'[p] # Idle /\ Items(p)' = AskPage(view[p]).items
  BY <1>1, AskedPage DEF Items
<1>4. Whole(Seqs)
  BY <1>1 DEF Whole
<1>5. CASE view[p].held = {}
  BY <1>1, <1>2, <1>3, <1>4, <1>5 DEF AskPage, Given
<1>6. CASE view[p].held # {}
  <2>1. 1..LatestSeq(view[p]) \subseteq view[p].held /\ LatestSeq(view[p]) \in 0..Last
    BY <1>1, <1>2, DownFromLatest, LatestOfView
  <2>2. Items(p)' = {n \in Seqs : n > LatestSeq(view[p])} /\ page'[p].pc = "catch"
    BY <1>3, <1>6 DEF AskPage
  <2>3. Given(p)' = Seqs
    BY <1>1, <2>1, <2>2 DEF Given
  <2> QED
    BY <1>1, <1>2, <1>4, <2>2, <2>3 DEF Loading
<1> QED
  BY <1>5, <1>6

(* A message that waits, or a post that ends, takes nothing from a panel.  *)
LEMMA MessagesPost ==
  ASSUME ChatBase, Messages, ShownIsRead, NEW p \in Panel,
         Post(p) \/ LoseAnswer(p) \/ (LeaveUntold(p) /\ met' \in Harmless)
  PROVE  Messages' /\ ShownIsRead'
<1>1. /\ UNCHANGED <<thread, hubVars, mark, page>>
      /\ \A q \in Panel : view'[q].held = view[q].held
  <2>1. UNCHANGED <<thread, hubVars, mark, page>>
    BY DEF Post, LoseAnswer, LeaveUntold
  <2>2. CASE Post(p)
    <3>1. view' = [view EXCEPT ![p] = [view[p] EXCEPT !.written = view[p].written + 1,
                                          !.outbox = @ \cup {view[p].written + 1}]]
      BY <2>2 DEF Post, ChatBase, ChatShape
    <3>2. view[p] \in Holding /\ view \in [Panel -> Holding]
      BY DEF ChatBase, ChatShape, Holding
    <3>3. [view[p] EXCEPT !.written = view[p].written + 1,
                          !.outbox = @ \cup {view[p].written + 1}].held = view[p].held
      BY <3>2 DEF Holding
    <3> QED
      BY <2>1, <3>1, <3>2, <3>3
  <2>3. CASE LoseAnswer(p) \/ LeaveUntold(p)
    BY <2>1, <2>3 DEF LoseAnswer, LeaveUntold
  <2> QED
    BY <2>2, <2>3
<1>2. \A n : Untold(n) => Untold(n)'
  <2>1. \A q \in Panel : post'[q] = post[q] \/ ~(post[q].pc = "tell" /\ post[q].new)
    BY DEF Post, LoseAnswer, LeaveUntold, Meet, Harmless, ChatBase, ChatShape
  <2> QED
    BY <2>1 DEF Untold
<1>3. Given(p)' = Given(p) /\ Items(p)' = Items(p) /\ (Loading(p)' <=> Loading(p))
  BY <1>1 DEF Given, Items, Loading
<1>4. Whole(Given(p)) /\ (Loading(p) => Items(p) = Seqs)
  BY DEF Messages, InTurn
<1> QED
  BY <1>1, <1>2, <1>3, <1>4, OneIsGiven

(* The second read of a page takes nothing from it.                        *)
LEMMA MessagesReadThread ==
  ASSUME ChatBase, Messages, ShownIsRead, NEW p \in Panel, ReadThread(p)
  PROVE  Messages' /\ ShownIsRead'
<1>1. /\ UNCHANGED <<thread, post, mark, view, hubVars>> /\ page[p].pc \in {"load", "catch"}
      /\ page'[p].pc = IF page[p].pc = "load" THEN "loaded" ELSE "caught"
      /\ \A q \in Panel : q # p => page'[q] = page[q]
  BY DEF ReadThread, ChatBase, ChatShape
<1>2. \A q \in Panel : Items(q)' = Items(q)
  BY BaseReadThread
<1>3. Given(p)' = Given(p) /\ (Loading(p)' => Loading(p))
  BY <1>1, <1>2 DEF Given, Loading
<1>4. Whole(Given(p)) /\ (Loading(p) => Items(p) = Seqs)
  BY DEF Messages, InTurn
<1>5. \A n : Untold(n) => Untold(n)'
  BY <1>1 DEF Untold
<1> QED
  BY <1>1, <1>2, <1>3, <1>4, <1>5, OneIsGiven

(* An answer that overtakes no older message adds the next one.            *)
LEMMA MessagesAnswer ==
  ASSUME ChatBase, Messages, ShownIsRead, NEW p \in Panel, Answer(p), met' \in Harmless
  PROVE  Messages' /\ ShownIsRead'
<1> DEFINE s == post[p].seq
<1>1. /\ post[p].pc = "answer" /\ s \in Seqs
      /\ view'[p].held = view[p].held \cup {s}
      /\ \A q \in Panel : q # p => view'[q] = view[q]
  BY BaseAnswer
<1>2. /\ UNCHANGED <<thread, mark, page, hubVars>> /\ post' = [post EXCEPT ![p] = Idle]
      /\ \A n \in 1..(s - 1) : n \in view[p].held
  BY DEF Answer, Meet, Harmless
<1>3. Given(p)' = Given(p) \cup {s} /\ Items(p)' = Items(p) /\ (Loading(p)' <=> Loading(p))
  BY <1>1, <1>2 DEF Given, Items, Loading
<1>4. Whole(Given(p)) /\ (Loading(p) => Items(p) = Seqs)
  BY DEF Messages, InTurn
<1>5. Whole(Given(p)')
  <2>1. Seqs = 1..Last /\ Last \in Nat
    BY Numbers
  <2>2. 1..s \subseteq Given(p)'
    BY <1>1, <1>2, <1>3, <2>1 DEF Given
  <2> QED
    BY <1>3, <1>4, <2>2 DEF Whole
<1>6. \A n : Untold(n) => Untold(n)'
  <2>1. \A q \in Panel : post'[q] = post[q] \/ post[q].pc # "tell"
    BY <1>1, <1>2 DEF ChatBase, ChatShape
  <2> QED
    BY <2>1 DEF Untold
<1> QED
  BY <1>1, <1>2, <1>3, <1>4, <1>5, <1>6, OneIsGiven

(* A page shows all that was given, and marks no more than that.           *)
LEMMA MessagesFinishPage ==
  ASSUME ChatBase, Messages, ShownIsRead, NEW p \in Panel, FinishLoad(p) \/ FinishCatchUp(p)
  PROVE  Messages' /\ ShownIsRead'
<1>1. /\ page[p].pc \in {"loaded", "caught"}
      /\ page' = [page EXCEPT ![p] = Idle] /\ UNCHANGED <<thread, post, hubVars>>
  BY BaseFinishPage
<1>2. PICK v : /\ NowShows(p, v) /\ Fits(p, v)
               /\ v.held = page[p].items \cup (IF page[p].pc = "loaded" THEN {} ELSE view[p].held)
  BY BaseFinishPage
<1>3. page'[p] = Idle /\ \A q \in Panel : q # p => page'[q] = page[q]
  BY <1>1 DEF ChatBase, ChatShape
<1>4. Items(p)' = {} /\ ~Loading(p)' /\ Items(p) = page[p].items
  BY <1>1, <1>3 DEF Items, Loading, Idle
<1>5. Given(p)' = v.held /\ v.held \subseteq Seqs /\ Given(p) \subseteq Seqs
  BY <1>2, <1>4, Numbers DEF Given, NowShows, Fits
<1>6. Whole(Given(p)) /\ (Loading(p) => Items(p) = Seqs)
  BY DEF Messages, InTurn
<1>7. Given(p)' = Given(p) \/ Given(p)' = Seqs
  BY <1>1, <1>2, <1>4, <1>5, <1>6 DEF Given, Loading
<1>8. Whole(Given(p)') /\ Given(p) \subseteq Given(p)'
  <2>1. Whole(Seqs)
    BY Numbers DEF Whole
  <2> QED
    BY <1>5, <1>6, <1>7, <2>1
<1>9. mark'[p] \in {mark[p], Idle} \/ 1..mark'[p].upTo \subseteq Given(p)'
  <2>1. 1..LatestSeq(v) \subseteq Given(p)'
    BY <1>5, <1>8, DownFromLatest
  <2> QED
    BY <1>2, <2>1 DEF NowShows
<1>10. \A n : Untold(n) => Untold(n)'
  BY <1>1 DEF Untold
<1>11. \A q \in Panel : q # p => view'[q].held = view[q].held /\ mark'[q] = mark[q]
  BY <1>2 DEF NowShows
<1> QED
  BY <1>1, <1>3, <1>4, <1>8, <1>9, <1>10, <1>11, OneIsGiven

(* The mark sent after a mark is of messages the panel holds.              *)
LEMMA MessagesEndMark ==
  ASSUME ChatBase, Messages, ShownIsRead, NEW p \in Panel, FinishMark(p) \/ LoseMark(p)
  PROVE  Messages' /\ ShownIsRead'
<1>1. UNCHANGED <<thread, post, page, hubVars>>
  BY BaseEndMark
<1>2. PICK v : NowShows(p, v) /\ Fits(p, v) /\ v.held = view[p].held
  BY BaseEndMark
<1>3. Given(p)' = Given(p) /\ Items(p)' = Items(p) /\ (Loading(p)' <=> Loading(p))
  BY <1>1, <1>2 DEF Given, Items, Loading, NowShows
<1>4. Whole(Given(p)) /\ (Loading(p) => Items(p) = Seqs)
  BY DEF Messages, InTurn
<1>5. mark'[p] \in {mark[p], Idle} \/ 1..mark'[p].upTo \subseteq Given(p)'
  <2>1. 1..LatestSeq(v) \subseteq Given(p)
    BY <1>2, <1>4, DownFromLatest DEF Given, Fits
  <2> QED
    BY <1>2, <1>3, <2>1 DEF NowShows
<1>6. \A n : Untold(n) => Untold(n)'
  BY <1>1 DEF Untold
<1>7. \A q \in Panel : q # p => view'[q].held = view[q].held /\ mark'[q] = mark[q]
  BY <1>2 DEF NowShows
<1> QED
  BY <1>1, <1>3, <1>4, <1>5, <1>6, <1>7, OneIsGiven

(* A mark that is not told takes no message from anybody.                  *)
LEMMA MessagesLeaveMark ==
  ASSUME ChatBase, Messages, ShownIsRead, NEW p \in Panel, LeaveMarkUntold(p)
  PROVE  Messages' /\ ShownIsRead'
<1>1. /\ UNCHANGED <<thread, post, page, view, hubVars>> /\ mark'[p].pc = "failed"
      /\ \A q \in Panel : q # p => mark'[q] = mark[q]
  BY DEF LeaveMarkUntold, ChatBase, ChatShape
<1>2. Given(p)' = Given(p) /\ Items(p)' = Items(p) /\ (Loading(p)' <=> Loading(p))
  BY <1>1 DEF Given, Items, Loading
<1>3. Whole(Given(p)) /\ (Loading(p) => Items(p) = Seqs)
  BY DEF Messages, InTurn
<1>4. \A n : Untold(n) => Untold(n)'
  BY <1>1 DEF Untold
<1> QED
  BY <1>1, <1>2, <1>3, <1>4, OneIsGiven

(* The timer asks for all that the panel does not hold.                    *)
LEMMA MessagesPoll ==
  ASSUME ChatBase, Messages, ShownIsRead, NEW p \in Panel, Poll(p)
  PROVE  Messages' /\ ShownIsRead'
<1>1. /\ page[p] = Idle /\ page'[p] = AskPage(view[p])
      /\ \A q \in Panel : q # p => page'[q] = page[q]
      /\ UNCHANGED <<thread, post, mark, view, hubVars>>
  BY DEF Poll, ChatBase, ChatShape
<1>2. \A n : Untold(n) => Untold(n)'
  BY <1>1 DEF Untold
<1> QED
  BY <1>1, <1>2, AskedIsAll, OneIsGiven

(* A message is written: nobody loads a page, so all hear of it.           *)
LEMMA MessagesInsert ==
  ASSUME ChatBase, Messages, ShownIsRead, NEW p \in Panel, NEW key \in 1..MaxPosts,
         InsertMessage(p, key), met' \in Harmless
  PROVE  Messages' /\ ShownIsRead'
<1> DEFINE old == Stored(p, key)
<1>1. /\ post[p] = Idle /\ UNCHANGED <<mark, page, view, hubVars>>
      /\ \A q \in Panel : q # p => post'[q] = post[q]
      /\ post'[p].pc = "tell" /\ (post'[p].new <=> old = {})
      /\ old = {} => post'[p].seq = Last + 1
      /\ old = {} => \A q \in Panel : ~Loading(q)
      /\ thread' = IF old = {} THEN Store(thread, p, key) ELSE thread
  BY DEF InsertMessage, Meet, Harmless, ChatBase, ChatShape
<1>2. \A n : Untold(n) => Untold(n)'
  BY <1>1 DEF Untold, Idle
<1>3. \A q \in Panel : Given(q)' = Given(q) /\ Items(q)' = Items(q) /\ (Loading(q)' <=> Loading(q))
  BY <1>1 DEF Given, Items, Loading
<1>4. \A q \in Panel : Whole(Given(q)) /\ (Loading(q) => Items(q) = Seqs)
  BY DEF Messages, InTurn
<1>5. CASE old # {}
  BY <1>1, <1>2, <1>3, <1>4, <1>5, OneIsGiven
<1>6. CASE old = {}
  <2>1. /\ Last \in Nat /\ Seqs = 1..Last /\ thread.log \in Seq(Message)
        /\ SideOf[p] \in Side
    BY Numbers DEF ChatBase, ChatShape
  <2> DEFINE m == [from |-> p, key |-> key]
  <2>2. m \in Message
    BY ChatAssumption DEF Message
  <2>3. thread'.log = Append(thread.log, m) /\ thread'.read = [thread.read EXCEPT ![SideOf[p]] = Last + 1]
    BY <1>1, <1>6 DEF Store, Last
  <2>4. /\ Last' = Last + 1 /\ thread'.log[Last + 1].from = p
        /\ \A n \in Seqs : thread'.log[n] = thread.log[n]
    BY <2>1, <2>2, <2>3, AppendProperties DEF Last, Seqs
  <2>5. Seqs' = Seqs \cup {Last + 1}
    <3>1. Seqs' = 1..(Last + 1)
      BY <2>4 DEF Seqs
    <3> QED
      BY <2>1, <3>1
  <2>6. \A n : n = Last + 1 => Untold(n)'
    BY <1>1, <1>6 DEF Untold
  <2>7. ASSUME NEW q \in Panel PROVE (InTurn(q) /\ Coming(q) /\ MarksGiven(q))'
    <3>1. InTurn(q) /\ Coming(q) /\ MarksGiven(q)
      BY DEF Messages
    <3>2. \A n, k : Queued(q, n, k)' <=> Queued(q, n, k)
      BY <1>1 DEF Queued, hubVars
    <3>3. InTurn(q)'
      BY <1>1, <1>3, <1>6, <3>1, <3>2 DEF InTurn, hubVars
    <3>4. Coming(q)'
      BY <1>1, <1>2, <1>3, <2>5, <2>6, <3>1, <3>2 DEF Coming, Hearing, hubVars
    <3>5. MarksGiven(q)'
      BY <1>1, <1>3, <3>1 DEF MarksGiven
    <3> QED
      BY <3>3, <3>4, <3>5
  <2>8. Messages'
    BY <2>7 DEF Messages
  <2>9. \A q \in Panel : \A n : ShownTo(q, n)' <=> ShownTo(q, n)
    BY <1>1 DEF ShownTo
  <2>10. ASSUME NEW n \in Seqs', n <= thread'.read[Other(SideOf[thread'.log[n].from])]
         PROVE  \/ \E q \in Panel : /\ SideOf[q] = Other(SideOf[thread'.log[n].from])
                                    /\ ShownTo(q, n)'
                \/ \E k \in Seqs' : /\ k > n
                                    /\ SideOf[thread'.log[k].from] = Other(SideOf[thread'.log[n].from])
    <3> DEFINE side == Other(SideOf[thread'.log[n].from])
    <3>1. n # Last + 1 \/ side # SideOf[p]
      BY <2>1, <2>4 DEF Other, Side
    <3>2. CASE side = SideOf[p]
      <4>1. Last + 1 \in Seqs' /\ Last + 1 > n
        BY <2>1, <2>5, <3>1, <3>2
      <4> QED
        BY <2>4, <3>2, <4>1
    <3>3. CASE side # SideOf[p]
      <4>1. side \in Side
        BY DEF Other, Side
      <4>2. thread'.read[side] = thread.read[side]
        BY <2>1, <2>3, <3>3, <4>1 DEF ChatBase, ChatShape
      <4>3. n \in Seqs
        <5>1. thread.read[side] <= Last /\ thread.read[side] \in Nat
          BY <4>1 DEF ChatBase, ChatShape, Numbered
        <5> QED
          BY <2>1, <2>5, <2>10, <4>2, <5>1
      <4>4. thread'.log[n] = thread.log[n]
        BY <2>4, <4>3
      <4>5. \/ \E q \in Panel : SideOf[q] = side /\ ShownTo(q, n)
            \/ \E k \in Seqs : k > n /\ SideOf[thread.log[k].from] = side
        BY <2>10, <4>2, <4>3, <4>4 DEF ShownIsRead
      <4> QED
        BY <2>4, <2>5, <2>9, <4>5
    <3> QED
      BY <3>2, <3>3
  <2>11. ShownIsRead'
    BY <2>10 DEF ShownIsRead
  <2> QED
    BY <2>8, <2>11
<1> QED
  BY <1>5, <1>6

(* The mark a panel sends is of messages it was given.                     *)
LEMMA MessagesUpdateMark ==
  ASSUME ChatBase, Messages, ShownIsRead, NEW p \in Panel, UpdateMark(p)
  PROVE  Messages' /\ ShownIsRead'
<1> DEFINE upTo == IF mark[p].upTo < Last THEN mark[p].upTo ELSE Last
<1> DEFINE side == SideOf[p]
<1>1. /\ mark[p].pc = "sent" /\ UNCHANGED <<post, page, view, hubVars>>
      /\ thread' = [thread EXCEPT !.read[side] = IF upTo > thread.read[side] THEN upTo ELSE thread.read[side]]
      /\ mark'[p].pc = "tell" /\ \A q \in Panel : q # p => mark'[q] = mark[q]
  BY DEF UpdateMark, ChatBase, ChatShape
<1>2. mark[p].upTo \in Nat /\ Last \in Nat /\ side \in Side /\ Seqs = 1..Last
  <2>1. mark[p] \in [pc : {"sent"}, upTo : Nat]
    BY <1>1 DEF ChatBase, ChatShape, Idle
  <2> QED
    BY <2>1, Numbers
<1>3. upTo \in Nat /\ upTo <= mark[p].upTo
  BY <1>2
<1> HIDE DEF upTo
<1>4. /\ thread'.log = thread.log
      /\ \A s \in Side : thread'.read[s] = thread.read[s] \/ (s = side /\ thread'.read[s] = upTo)
  BY <1>1, <1>2 DEF ChatBase, ChatShape
<1>5. 1..mark[p].upTo \subseteq Given(p)
  BY <1>1 DEF Messages, MarksGiven
<1>6. \A q \in Panel : Given(q)' = Given(q) /\ Items(q)' = Items(q) /\ (Loading(q)' <=> Loading(q))
  BY <1>1 DEF Given, Items, Loading
<1>7. Seqs' = Seqs /\ \A n : Untold(n) => Untold(n)'
  BY <1>1, <1>4 DEF Seqs, Last, Untold
<1>8. Messages'
  <2>1. ASSUME NEW q \in Panel PROVE (InTurn(q) /\ Coming(q) /\ MarksGiven(q))'
    <3>1. InTurn(q)
      BY DEF Messages
    <3>2. \/ mark'[q] = mark[q] \/ mark'[q].pc # "sent"
      BY <1>1
    <3> QED
      BY <1>1, <1>4, <1>6, <1>7, <3>1, <3>2, MoreGiven DEF InTurn
  <2> QED
    BY <2>1 DEF Messages
<1>9. \A q \in Panel : \A n : (ShownTo(q, n)' <=> ShownTo(q, n)) /\ (ShownTo(q, n) <=> n \in Given(q))
  BY <1>1 DEF ShownTo, Given, Items
<1>10. ASSUME NEW n \in Seqs, n <= thread'.read[Other(SideOf[thread.log[n].from])]
       PROVE  \/ \E q \in Panel : SideOf[q] = Other(SideOf[thread.log[n].from]) /\ ShownTo(q, n)
              \/ \E k \in Seqs : /\ k > n
                                 /\ SideOf[thread.log[k].from] = Other(SideOf[thread.log[n].from])
  <2> DEFINE s == Other(SideOf[thread.log[n].from])
  <2>1. s \in Side
    BY DEF Other, Side
  <2>2. CASE thread'.read[s] = thread.read[s]
    BY <1>10, <2>2 DEF ShownIsRead
  <2>3. CASE s = side /\ thread'.read[s] = upTo
    <3>1. n \in 1..mark[p].upTo
      BY <1>2, <1>3, <1>10, <2>3
    <3> QED
      BY <1>5, <1>9, <2>3, <3>1
  <2> QED
    BY <1>4, <2>1, <2>2, <2>3
<1>11. ShownIsRead'
  BY <1>4, <1>7, <1>9, <1>10 DEF ShownIsRead
<1> QED
  BY <1>8, <1>11

(* Something is told: those who hear it have it in their queue, the last.  *)
LEMMA HearsMore ==
  ASSUME ChatBase, Messages, NEW news \in Event, NEW q \in Panel, Told(q, news),
         socket[q] # "rising", UNCHANGED <<thread, view, page>>,
         mark'[q] = mark[q] \/ mark'[q].pc # "sent",
         news.kind = "message" => news.seq = Last /\ \A n : Untold(n) => n = Last,
         news.kind # "message" => \A n : ~Untold(n)
  PROVE  (InTurn(q) /\ Coming(q) /\ MarksGiven(q))'
<1>1. InTurn(q) /\ Coming(q) /\ MarksGiven(q)
  BY DEF Messages
<1>2. Given(q)' = Given(q) /\ Items(q)' = Items(q) /\ (Loading(q)' <=> Loading(q)) /\ Seqs' = Seqs
  BY DEF Given, Items, Loading, Seqs, Last
<1>3. MarksGiven(q)'
  BY <1>1, <1>2 DEF MarksGiven
<1>4. CASE socket[q] = "open" /\ ~Full(q)
  <2> DEFINE k == Len(out[q])
  <2>1. out'[q] = Append(out[q], news) /\ socket'[q] = "open" /\ out[q] \in Seq(Event) /\ k \in Nat
    BY <1>4, Numbers DEF Told
  <2>2. /\ Len(out'[q]) = k + 1 /\ DOMAIN out'[q] = 1..(k + 1) /\ DOMAIN out[q] = 1..k
        /\ \A i \in 1..k : out'[q][i] = out[q][i]
        /\ out'[q][k + 1] = news
    BY <2>1, AppendProperties, LenProperties
  <2>3. ASSUME NEW n, NEW j \in 0..k, Queued(q, n, j) PROVE Queued(q, n, j)'
    BY <2>1, <2>2, <2>3 DEF Queued
  <2>4. \A n \in Seqs : n \in Given(q) \/ Queued(q, n, k) \/ Untold(n)
    BY <1>1, <1>4 DEF Coming, Hearing
  <2>5. ASSUME NEW i \in DOMAIN out'[q], out'[q][i].kind = "message",
               NEW n \in 1..(out'[q][i].seq - 1)
        PROVE  n \in Given(q) \/ \A j : j = i - 1 => Queued(q, n, j)'
    <3>1. CASE i \in 1..k
      <4>1. n \in Given(q) \/ Queued(q, n, i - 1)
        BY <1>1, <2>2, <2>5, <3>1 DEF InTurn
      <4> QED
        BY <2>1, <2>3, <3>1, <4>1
    <3>2. CASE i = k + 1
      <4>1. Last \in Nat /\ Seqs = 1..Last
        BY Numbers
      <4>2. out'[q][i].seq = Last /\ out'[q][i].kind = "message"
        BY <2>2, <2>5, <3>2
      <4>3. n \in Seqs /\ n # Last
        BY <4>1, <4>2
      <4>4. ~Untold(n)
        BY <2>2, <2>5, <3>2, <4>3
      <4> QED
        BY <2>1, <2>3, <2>4, <3>2, <4>3, <4>4
    <3> QED
      BY <2>1, <2>2, <3>1, <3>2
  <2>6. InTurn(q)'
    BY <1>1, <1>2, <2>5 DEF InTurn
  <2>7. ASSUME NEW n \in Seqs PROVE n \in Given(q) \/ \A j : j = k + 1 => Queued(q, n, j)'
    <3>1. CASE Queued(q, n, k)
      <4>1. PICK i \in 1..k : out[q][i].kind = "message" /\ out[q][i].seq = n
        BY <3>1 DEF Queued
      <4> QED
        BY <2>1, <2>2, <4>1 DEF Queued
    <3>2. CASE Untold(n)
      <4>1. news.kind = "message" /\ news.seq = n
        BY <3>2
      <4> QED
        BY <2>1, <2>2, <4>1 DEF Queued
    <3> QED
      BY <2>4, <3>1, <3>2
  <2>8. Coming(q)'
    BY <1>2, <2>2, <2>7 DEF Coming
  <2> QED
    BY <1>3, <2>6, <2>8
<1>5. CASE ~(socket[q] = "open" /\ ~Full(q))
  <2>1. out'[q] = out[q] /\ ~Hearing(q)'
    BY <1>5 DEF Told, Hearing, Full
  <2>2. \A n, k : Queued(q, n, k)' <=> Queued(q, n, k)
    BY <2>1 DEF Queued
  <2> QED
    BY <1>1, <1>2, <1>3, <2>1, <2>2 DEF InTurn, Coming
<1> QED
  BY <1>4, <1>5

(* Told while no socket is rising: who hears has it in the queue, a full   *)
(* queue ends the socket.                                                  *)
LEMMA MessagesTell ==
  ASSUME ChatBase, Messages, ShownIsRead, NEW p \in Panel, TellMessage(p) \/ TellMark(p), met' \in Harmless
  PROVE  Messages' /\ ShownIsRead'
<1>1. UNCHANGED <<thread, view, page>>
  BY DEF TellMessage, TellMark
<1>2. \A q \in Panel : mark'[q] = mark[q] \/ mark'[q].pc # "sent"
  BY DEF TellMessage, TellMark, ChatBase, ChatShape
<1>3. ShownIsRead'
  <2>1. \A q \in Panel : Given(q)' = Given(q)
    BY <1>1 DEF Given, Items
  <2> QED
    BY <1>1, <2>1, StillShown
<1>4. ChatShape /\ Lock /\ \A s \in Side : thread.read[s] <= Last
  BY DEF ChatBase, Numbered
<1>5. CASE TellMessage(p) /\ post[p].new
  <2>1. post[p].pc = "tell" /\ Tell("message", post[p].seq) /\ ~SomeRises
    BY <1>5 DEF TellMessage, Meet, Harmless
  <2>2. post[p].seq = Last /\ post[p].seq \in Nat /\ \A n : Untold(n) => n = Last
    BY <1>4, <1>5, <2>1, Numbers DEF Lock, Untold
  <2>3. \A q \in Panel : /\ NewsFor(q, "message", post[p].seq) \in Event
                         /\ Told(q, NewsFor(q, "message", post[p].seq))
    BY <1>4, <2>1, <2>2, TellTells
  <2>4. \A q \in Panel : socket[q] # "rising"
    BY <2>1 DEF SomeRises
  <2>5. ASSUME NEW q \in Panel PROVE (InTurn(q) /\ Coming(q) /\ MarksGiven(q))'
    <3> DEFINE news == NewsFor(q, "message", post[p].seq)
    <3>1. news.kind = "message" /\ news.seq = Last
      BY <2>2 DEF NewsFor
    <3>2. news \in Event /\ Told(q, news)
      BY <2>3
    <3> HIDE DEF news
    <3> QED
      BY <1>1, <1>2, <2>2, <2>4, <3>1, <3>2, HearsMore
  <2> QED
    BY <1>3, <2>5 DEF Messages
<1>6. CASE TellMark(p) /\ mark[p].changed
  <2>1. mark[p].pc = "tell" /\ Tell("read", 0) /\ ~SomeRises
    BY <1>6 DEF TellMark, Meet, Harmless
  <2>2. \A n : ~Untold(n)
    BY <1>4, <2>1 DEF Lock, Untold
  <2>3. \A q \in Panel : NewsFor(q, "read", 0) \in Event /\ Told(q, NewsFor(q, "read", 0))
    BY <1>4, <2>1, TellTells
  <2>4. \A q \in Panel : socket[q] # "rising"
    BY <2>1 DEF SomeRises
  <2>5. ASSUME NEW q \in Panel PROVE (InTurn(q) /\ Coming(q) /\ MarksGiven(q))'
    <3> DEFINE news == NewsFor(q, "read", 0)
    <3>1. news.kind = "read"
      BY DEF NewsFor
    <3>2. news \in Event /\ Told(q, news)
      BY <2>3
    <3> HIDE DEF news
    <3> QED
      BY <1>1, <1>2, <2>2, <2>4, <3>1, <3>2, HearsMore
  <2> QED
    BY <1>3, <2>5 DEF Messages
<1>7. CASE (TellMessage(p) /\ ~post[p].new) \/ (TellMark(p) /\ ~mark[p].changed)
  <2>1. UNCHANGED hubVars
    BY <1>7 DEF TellMessage, TellMark
  <2>2. \A n : Untold(n) => Untold(n)'
    <3>1. \A q \in Panel : post'[q] = post[q] \/ ~post[q].new
      BY <1>7 DEF TellMessage, TellMark, ChatBase, ChatShape
    <3> QED
      BY <3>1 DEF Untold
  <2>3. ASSUME NEW q \in Panel PROVE (InTurn(q) /\ Coming(q) /\ MarksGiven(q))'
    <3>1. Given(q)' = Given(q) /\ Items(q)' = Items(q) /\ (Loading(q)' <=> Loading(q))
      BY <1>1 DEF Given, Items, Loading
    <3>2. Whole(Given(q)) /\ (Loading(q) => Items(q) = Seqs)
      BY DEF Messages, InTurn
    <3> QED
      BY <1>1, <1>2, <2>1, <2>2, <3>1, <3>2, MoreGiven
  <2> QED
    BY <1>3, <2>3 DEF Messages
<1> QED
  BY <1>5, <1>6, <1>7

(* An event is taken from the queue and shown.                             *)
LEMMA MessagesReceive ==
  ASSUME ChatBase, Messages, ShownIsRead, NEW p \in Panel, Receive(p)
  PROVE  Messages' /\ ShownIsRead'
<1> DEFINE e == out[p][1]
<1>1. Write(p) /\ UNCHANGED <<thread, post, page, met>>
  BY DEF Receive
<1>2. PICK v : /\ NowShows(p, v) /\ Fits(p, v)
               /\ v.held = view[p].held \cup (IF e.kind = "message" THEN {e.seq} ELSE {})
  BY BaseReceive
<1>3. /\ UNCHANGED socket /\ e \in Event /\ 1 \in DOMAIN out[p]
      /\ \A q \in Panel : q # p => out'[q] = out[q]
      /\ Len(out'[p]) = Len(out[p]) - 1 /\ Len(out[p]) \in Nat
      /\ DOMAIN out'[p] = 1..(Len(out[p]) - 1) /\ DOMAIN out[p] = 1..Len(out[p])
      /\ \A i \in DOMAIN out'[p] : out'[p][i] = out[p][i + 1]
  BY <1>1, WriteDrains, Numbers DEF ChatBase
<1> DEFINE S == IF e.kind = "message" THEN {e.seq} ELSE {}
<1>4. Seqs' = Seqs /\ Items(p)' = Items(p) /\ (Loading(p)' <=> Loading(p)) /\ Given(p)' = Given(p) \cup S
  BY <1>1, <1>2 DEF Seqs, Last, Items, Loading, Given, NowShows
<1>5. Whole(Given(p)) /\ (Loading(p) => Items(p) = Seqs)
  BY DEF Messages, InTurn
<1>6. e.kind = "message" => e.seq \in Seqs /\ 1..(e.seq - 1) \subseteq Given(p)
  <2>1. \A n : ~Queued(p, n, 0)
    BY DEF Queued
  <2>2. e.kind = "message" => \A n \in 1..(e.seq - 1) : n \in Given(p) \/ Queued(p, n, 0)
    BY <1>3 DEF Messages, InTurn
  <2> QED
    BY <1>3, <2>1, <2>2 DEF ChatBase, Numbered
<1>7. Whole(Given(p)')
  <2>1. Seqs = 1..Last /\ Last \in Nat
    BY Numbers
  <2>2. CASE e.kind = "message"
    <3>1. 1..e.seq \subseteq Given(p)'
      BY <1>4, <1>6, <2>1, <2>2
    <3> QED
      BY <1>4, <1>5, <2>2, <3>1 DEF Whole
  <2>3. CASE e.kind # "message"
    BY <1>4, <1>5, <2>3
  <2> QED
    BY <2>2, <2>3
<1>8. ASSUME NEW n, NEW k \in 0..(Len(out[p]) - 1), n \in Given(p) \/ Queued(p, n, k + 1)
      PROVE  n \in Given(p)' \/ Queued(p, n, k)'
  <2>1. CASE n \in Given(p)
    BY <1>4, <2>1
  <2>2. CASE Queued(p, n, k + 1)
    <3>1. PICK i \in 1..(k + 1) : out[p][i].kind = "message" /\ out[p][i].seq = n
      BY <2>2 DEF Queued
    <3>2. CASE i = 1
      BY <1>4, <3>1, <3>2
    <3>3. CASE i # 1
      <4>1. i - 1 \in 1..k /\ out'[p][i - 1] = out[p][i]
        BY <1>3, <3>1, <3>3
      <4> QED
        BY <3>1, <4>1 DEF Queued
    <3> QED
      BY <3>2, <3>3
  <2> QED
    BY <1>8, <2>1, <2>2
<1>9. InTurn(p)'
  <2>1. ASSUME NEW k \in DOMAIN out'[p], out'[p][k].kind = "message",
               NEW n \in 1..(out'[p][k].seq - 1)
        PROVE  n \in Given(p)' \/ \A j : j = k - 1 => Queued(p, n, j)'
    <3>1. k + 1 \in DOMAIN out[p] /\ out'[p][k] = out[p][k + 1] /\ k - 1 \in 0..(Len(out[p]) - 1) /\ (k - 1) + 1 = k
          /\ (k + 1) - 1 = k
      <4> DEFINE L == Len(out[p])
      <4>1. L \in Nat /\ k \in 1..(L - 1) /\ DOMAIN out[p] = 1..L
        BY <1>3
      <4>2. out'[p][k] = out[p][k + 1]
        BY <1>3
      <4> HIDE DEF L
      <4>3. k + 1 \in 1..L /\ k - 1 \in 0..(L - 1) /\ (k - 1) + 1 = k /\ (k + 1) - 1 = k
        BY <4>1
      <4> QED
        BY <4>1, <4>2, <4>3 DEF L
    <3>2. n \in Given(p) \/ Queued(p, n, (k + 1) - 1)
      BY <2>1, <3>1 DEF Messages, InTurn
    <3> QED
      BY <1>8, <3>1, <3>2
  <2> QED
    BY <1>4, <1>5, <1>7, <2>1 DEF InTurn
<1>10. Coming(p)'
  <2>1. ASSUME Hearing(p), NEW n \in Seqs
        PROVE  n \in Given(p)' \/ (\A j : j = Len(out[p]) - 1 => Queued(p, n, j)') \/ Untold(n)
    <3>1. n \in Given(p) \/ Queued(p, n, Len(out[p])) \/ Untold(n)
      BY <2>1 DEF Messages, Coming
    <3>2. Len(out[p]) - 1 \in 0..(Len(out[p]) - 1) /\ (Len(out[p]) - 1) + 1 = Len(out[p])
      BY <1>3
    <3> QED
      BY <1>8, <3>1, <3>2
  <2>2. (Hearing(p)' <=> Hearing(p)) /\ \A n : Untold(n)' <=> Untold(n)
    BY <1>1, <1>3 DEF Hearing, Untold
  <2> QED
    BY <1>3, <1>4, <2>1, <2>2 DEF Coming
<1>11. MarksGiven(p)'
  <2>1. 1..LatestSeq(v) \subseteq Given(p)'
    BY <1>2, <1>4, <1>7, DownFromLatest DEF Given, NowShows, Fits
  <2> QED
    BY <1>2, <1>4, <2>1 DEF NowShows, MarksGiven, Messages, Idle
<1>12. ASSUME NEW q \in Panel, q # p PROVE (InTurn(q) /\ Coming(q) /\ MarksGiven(q))'
  <2>1. view'[q] = view[q] /\ mark'[q] = mark[q] /\ out'[q] = out[q] /\ socket'[q] = socket[q]
    BY <1>2, <1>3, <1>12 DEF NowShows
  <2>2. /\ Given(q)' = Given(q) /\ Items(q)' = Items(q) /\ (Loading(q)' <=> Loading(q))
        /\ (\A n, k : Queued(q, n, k)' <=> Queued(q, n, k)) /\ \A n : Untold(n)' <=> Untold(n)
    BY <1>1, <2>1 DEF Given, Items, Loading, Queued, Untold
  <2> QED
    BY <1>4, <2>1, <2>2 DEF Messages, InTurn, Coming, MarksGiven, Hearing
<1>13. ShownIsRead'
  <2>1. ASSUME NEW q \in Panel PROVE Given(q) \subseteq Given(q)'
    <3>1. CASE q = p
      BY <1>4, <3>1
    <3>2. CASE q # p
      BY <1>1, <1>2, <3>2 DEF NowShows, Given, Items
    <3> QED
      BY <3>1, <3>2
  <2> QED
    BY <1>1, <2>1, StillShown
<1> QED
  BY <1>9, <1>10, <1>11, <1>12, <1>13 DEF Messages

(* A socket comes up, and the panel asks for all it may have missed, or it *)
(* ends.                                                                   *)
LEMMA MessagesSocket ==
  ASSUME ChatBase, Messages, ShownIsRead, NEW p \in Panel,
         (Reconnect(p) /\ met' \in Harmless) \/ SocketStep(p)
  PROVE  Messages' /\ ShownIsRead'
<1>1. ChatShape /\ UNCHANGED <<thread, post, mark, view>>
  BY DEF ChatBase, Reconnect, SocketStep, chatVars
<1>2. /\ \A q \in Panel : q # p => out'[q] = out[q] /\ socket'[q] = socket[q]
      /\ Register(p) => out' = out /\ socket[p] = "rising" /\ socket'[p] = "open"
      /\ ~Register(p) => out'[p] = <<>>
      /\ Cut(p) \/ Close(p) => socket'[p] \in {"off", "gone"}
  BY <1>1, SocketDrains DEF Reconnect, SocketStep
<1>3. Seqs' = Seqs /\ \A n : Untold(n)' <=> Untold(n)
  BY <1>1 DEF Seqs, Last, Untold
<1>4. ASSUME NEW q \in Panel, q # p PROVE page'[q] = page[q]
  BY <1>4 DEF Reconnect, SocketStep, chatVars, ChatBase, ChatShape
<1>5. \A q \in Panel : InTurn(q) /\ Coming(q) /\ MarksGiven(q)
  BY DEF Messages
<1>6. ASSUME NEW q \in Panel, q # p
      PROVE  (InTurn(q) /\ Coming(q) /\ MarksGiven(q))' /\ Given(q)' = Given(q)
  <2>1. /\ Given(q)' = Given(q) /\ Items(q)' = Items(q) /\ (Loading(q)' <=> Loading(q))
        /\ \A n, k : Queued(q, n, k)' <=> Queued(q, n, k)
        /\ out'[q] = out[q] /\ socket'[q] = socket[q] /\ mark'[q] = mark[q]
    BY <1>1, <1>2, <1>4, <1>6 DEF Given, Items, Loading, Queued
  <2> QED
    BY <1>3, <1>5, <2>1 DEF InTurn, Coming, MarksGiven, Hearing
<1>7. (InTurn(p) /\ Coming(p) /\ MarksGiven(p))' /\ Given(p) \subseteq Given(p)'
  <2>1. CASE Reconnect(p) /\ met' \in Harmless
    <3>1. page[p] = Idle /\ page'[p] = AskPage(view[p]) /\ ~Register(p)
      BY <2>1 DEF Reconnect, Meet, Harmless, Connect, Register, Connected, ChatBase, ChatShape
    <3>2. Given(p)' = Seqs /\ Given(p) \subseteq Seqs /\ Whole(Seqs) /\ (Loading(p)' => Items(p)' = Seqs)
      BY <1>1, <3>1, AskedIsAll
    <3>3. out'[p] = <<>> /\ DOMAIN out'[p] = {}
      BY <1>2, <3>1
    <3>4. InTurn(p)' /\ Coming(p)'
      BY <1>3, <3>2, <3>3 DEF InTurn, Coming
    <3>5. MarksGiven(p)'
      BY <1>1, <1>5, <3>2 DEF MarksGiven
    <3> QED
      BY <3>2, <3>4, <3>5
  <2>2. CASE SocketStep(p)
    <3>1. Given(p)' = Given(p) /\ Items(p)' = Items(p) /\ (Loading(p)' <=> Loading(p)) /\ mark' = mark
      BY <2>2 DEF SocketStep, chatVars, Given, Items, Loading
    <3>2. CASE Register(p)
      <4>1. \A n, k : Queued(p, n, k)' <=> Queued(p, n, k)
        BY <1>2, <3>2 DEF Queued
      <4> QED
        BY <1>2, <1>3, <1>5, <3>1, <3>2, <4>1 DEF InTurn, Coming, MarksGiven, Hearing
    <3>3. CASE ~Register(p)
      <4>1. ~Hearing(p)' /\ out'[p] = <<>> /\ DOMAIN out'[p] = {}
        BY <1>2, <2>2, <3>3 DEF SocketStep, Hearing
      <4> QED
        BY <1>3, <1>5, <3>1, <4>1 DEF InTurn, Coming, MarksGiven
    <3> QED
      BY <3>2, <3>3
  <2> QED
    BY <2>1, <2>2
<1>8. Messages'
  BY <1>6, <1>7 DEF Messages
<1>9. ShownIsRead'
  <2>1. \A q \in Panel : Given(q) \subseteq Given(q)'
    BY <1>6, <1>7
  <2> QED
    BY <1>1, <2>1, StillShown
<1> QED
  BY <1>8, <1>9

(* At first there is no message to miss.                                   *)
LEMMA MessagesInit ==
  ASSUME ChatInit
  PROVE  Messages /\ ShownIsRead
<1>1. Last = 0 /\ Seqs = {}
  BY DEF ChatInit, Last, Seqs
<1>2. \A p \in Panel : /\ out[p] = <<>> /\ Items(p) = {} /\ view[p].held = {} /\ mark[p].pc = "idle"
  BY ChatAssumption DEF ChatInit, HubInit, Items, Idle
<1>3. \A p \in Panel : InTurn(p) /\ Coming(p) /\ MarksGiven(p)
  BY <1>1, <1>2 DEF InTurn, Coming, MarksGiven, Given, Whole
<1> QED
  BY <1>1, <1>3 DEF Messages, ShownIsRead

(* Every step that is no mishap keeps the order of the messages and the    *)
(* marks within what is shown.                                             *)
LEMMA MessagesNext ==
  ASSUME ChatBase, Messages, ShownIsRead, [ChatNext]_<<hubVars, chatVars>>, met' \in Harmless
  PROVE  Messages' /\ ShownIsRead'
<1>1. CASE UNCHANGED <<hubVars, chatVars>>
  BY <1>1 DEF hubVars, chatVars, Messages, InTurn, Coming, MarksGiven, Given, Items, Loading, Whole,
              Queued, Untold, Hearing, ShownIsRead, ShownTo, Seqs, Last
<1>2. \A p \in Panel : ~FailPage(p)
  BY DEF FailPage, Meet, Harmless
<1>3. ASSUME NEW p \in Panel,
             \/ Post(p) \/ TellMessage(p) \/ LeaveUntold(p) \/ LoseAnswer(p) \/ Answer(p)
             \/ \E key \in 1..MaxPosts : InsertMessage(p, key)
             \/ UpdateMark(p) \/ TellMark(p) \/ LeaveMarkUntold(p) \/ LoseMark(p) \/ FinishMark(p)
             \/ ReadThread(p) \/ FinishLoad(p) \/ FinishCatchUp(p) \/ FailPage(p) \/ Poll(p)
             \/ Receive(p) \/ Reconnect(p) \/ SocketStep(p)
      PROVE  Messages' /\ ShownIsRead'
  BY <1>2, <1>3, MessagesPost, MessagesInsert, MessagesTell, MessagesAnswer, MessagesUpdateMark,
     MessagesLeaveMark, MessagesEndMark, MessagesReadThread, MessagesFinishPage, MessagesPoll, MessagesReceive,
     MessagesSocket
<1> QED
  BY <1>1, <1>3 DEF ChatNext

-----------------------------------------------------------------------------
(* What holds until the first mishap: views of the thread *)

(* What was unread for a side of the first n messages, r of them marked.   *)
UnreadAt(n, side, r) == Cardinality({k \in 1..n : SideOf[thread.log[k].from] # side /\ k > r})

(* A view of the thread one side had at some time, now or before.          *)
Past(x, side) == /\ x \in View /\ x.last <= Last
                 /\ x.read <= thread.read[side] /\ x.peer <= thread.read[Other(side)]
                 /\ x.unread = UnreadAt(x.last, side, x.read)
InOrder(x, y) == x.last < y.last => x.read <= y.read
Now(p) == ThreadView(thread, SideOf[p])

(* Views on their way to panel p which it will certainly apply, and all    *)
(* that it has or may apply.                                               *)
Arriving(p, x) == \/ \E i \in DOMAIN out[p] : out[p][i].thread = x
                  \/ page[p].pc \in {"loaded", "caught"} /\ page[p].thread = x
Knows(p, x) == \/ Arriving(p, x) \/ view[p].thread = x
               \/ post[p].pc = "answer" /\ post[p].thread = x
               \/ mark[p].pc = "answer" /\ mark[p].thread = x

Telling(q) == \/ post[q].pc = "tell" /\ post[q].new
              \/ mark[q].pc = "tell" /\ mark[q].changed

(* All a panel knows of was so once, one view not contradicting another.   *)
AllPast(p) == /\ \A x : Knows(p, x) => Past(x, SideOf[p])
              /\ \A x, y : Knows(p, x) /\ Knows(p, y) => InOrder(x, y)

(* A panel that hears has the thread as it is, or it is on its way.        *)
Current(p) == Hearing(p) => \/ \E q \in Panel : Telling(q)
                            \/ page[p].pc \in {"load", "catch"}
                            \/ Arriving(p, Now(p))
                            \/ view[p].thread = Now(p)

Badges == \A p \in Panel : AllPast(p) /\ Current(p)

(* The server's view counts what is unread now.                            *)
LEMMA NowIsPast ==
  ASSUME ChatBase, NEW p \in Panel
  PROVE  Past(Now(p), SideOf[p])
<1> DEFINE side == SideOf[p]
<1>1. /\ side \in Side /\ Now(p) \in View /\ DOMAIN thread.log = 1..Last /\ Last \in Nat
  BY Numbers DEF Now
<1>2. UnreadOf(thread, side) = UnreadAt(Last, side, thread.read[side])
  BY <1>1 DEF UnreadOf, UnreadAt
<1>3. Other(side) \in Side
  BY DEF Other, Side
<1> QED
  BY <1>1, <1>2, <1>3 DEF Past, Now, ThreadView, Last, ChatBase, ChatShape

(* What was so once is in order with what is so now.                       *)
LEMMA NowIsInOrder ==
  ASSUME ChatBase, NEW p \in Panel, NEW x, Past(x, SideOf[p])
  PROVE  InOrder(x, Now(p)) /\ InOrder(Now(p), x)
<1>1. Now(p).last = Last /\ Now(p).read = thread.read[SideOf[p]]
  BY DEF Now, ThreadView, Last
<1>2. x.last \in Nat /\ Last \in Nat
  BY Numbers DEF Past, View
<1> QED
  BY <1>1, <1>2 DEF Past, InOrder

(* Two views in order merge into the newer one, with both marks at their   *)
(* largest.                                                                *)
LEMMA MergeIsNewer ==
  ASSUME NEW x \in View, NEW y \in View, InOrder(x, y), InOrder(y, x)
  PROVE  /\ MergeThread(x, y) \in View
         /\ \E z \in {x, y} : /\ MergeThread(x, y).last = z.last
                              /\ MergeThread(x, y).read = z.read
                              /\ MergeThread(x, y).unread = z.unread
         /\ MergeThread(x, y).peer \in {x.peer, y.peer}
<1> DEFINE z == IF y.last > x.last \/ (y.last = x.last /\ y.read >= x.read) THEN y ELSE x
<1>1. /\ x.last \in Nat /\ x.read \in Nat /\ x.peer \in Nat /\ x.unread \in Nat
      /\ y.last \in Nat /\ y.read \in Nat /\ y.peer \in Nat /\ y.unread \in Nat
  BY DEF View
<1>2. (IF x.read > y.read THEN x.read ELSE y.read) = z.read
  BY <1>1 DEF InOrder
<1>3. z \in {x, y} /\ z \in View
  OBVIOUS
<1>4. /\ MergeThread(x, y).last = z.last /\ MergeThread(x, y).unread = z.unread
      /\ MergeThread(x, y).read = (IF x.read > y.read THEN x.read ELSE y.read)
      /\ MergeThread(x, y).peer = (IF x.peer > y.peer THEN x.peer ELSE y.peer)
  BY DEF MergeThread
<1>5. MergeThread(x, y) \in View
  BY <1>1 DEF MergeThread, View
<1> HIDE DEF z
<1> QED
  BY <1>2, <1>3, <1>4, <1>5

(* Two views that were so once merge into one that was so, in order with   *)
(* the same views as both.                                                 *)
LEMMA MergeIsPast ==
  ASSUME ChatBase, NEW p \in Panel, NEW x, NEW y, Past(x, SideOf[p]), Past(y, SideOf[p]),
         InOrder(x, y), InOrder(y, x)
  PROVE  /\ Past(MergeThread(x, y), SideOf[p])
         /\ \A z : InOrder(x, z) /\ InOrder(y, z) => InOrder(MergeThread(x, y), z)
         /\ \A z : InOrder(z, x) /\ InOrder(z, y) => InOrder(z, MergeThread(x, y))
<1> DEFINE m == MergeThread(x, y)
<1>1. x \in View /\ y \in View
  BY DEF Past
<1>2. /\ m \in View /\ m.peer \in {x.peer, y.peer}
      /\ \E z \in {x, y} : m.last = z.last /\ m.read = z.read /\ m.unread = z.unread
  BY <1>1, MergeIsNewer
<1> HIDE DEF m
<1>3. Past(m, SideOf[p])
  BY <1>2 DEF Past
<1>4. \A z : InOrder(x, z) /\ InOrder(y, z) => InOrder(m, z)
  BY <1>2 DEF InOrder
<1>5. \A z : InOrder(z, x) /\ InOrder(z, y) => InOrder(z, m)
  BY <1>2 DEF InOrder
<1> QED
  BY <1>3, <1>4, <1>5 DEF m

(* What is so now is not undone by what was so once, whichever comes last. *)
LEMMA NowWins ==
  ASSUME ChatBase, NEW p \in Panel, NEW x, Past(x, SideOf[p])
  PROVE  MergeThread(Now(p), x) = Now(p) /\ MergeThread(x, Now(p)) = Now(p)
<1> DEFINE now == Now(p)
<1>1. /\ x.last \in Nat /\ x.read \in Nat /\ x.peer \in Nat
      /\ x.last <= now.last /\ x.read <= now.read /\ x.peer <= now.peer
      /\ x.last = now.last /\ x.read = now.read => x.unread = now.unread
  BY NowIsPast DEF Past, View, Now, ThreadView, Last
<1>2. now \in View
  BY NowIsPast DEF Past
<1> HIDE DEF now
<1>3. /\ now.last \in Nat /\ now.read \in Nat /\ now.peer \in Nat
      /\ now = [last |-> now.last, unread |-> now.unread, read |-> now.read, peer |-> now.peer]
  BY <1>2 DEF View
<1>4. MergeThread(now, x) = now
  <2>1. CASE x.last > now.last \/ (x.last = now.last /\ x.read >= now.read)
    BY <1>1, <1>3, <2>1 DEF MergeThread
  <2>2. CASE ~(x.last > now.last \/ (x.last = now.last /\ x.read >= now.read))
    BY <1>1, <1>3, <2>2 DEF MergeThread
  <2> QED
    BY <2>1, <2>2
<1>5. MergeThread(x, now) = now
  BY <1>1, <1>3 DEF MergeThread
<1> QED
  BY <1>4, <1>5 DEF now

(* The log and the marks only grow: what was so once stays so.             *)
LEMMA StaysPast ==
  ASSUME ChatBase, thread'.log = thread.log \/ \E m \in Message : thread'.log = Append(thread.log, m),
         \A s \in Side : thread'.read[s] \in Nat /\ thread.read[s] <= thread'.read[s],
         NEW p \in Panel, NEW x, Past(x, SideOf[p])
  PROVE  Past(x, SideOf[p])'
<1> DEFINE side == SideOf[p]
<1>1. /\ thread.log \in Seq(Message) /\ Last \in Nat /\ side \in Side /\ Other(side) \in Side
      /\ thread.read \in [Side -> Nat]
  BY Numbers DEF ChatBase, ChatShape, Other, Side
<1>2. Last' \in Nat /\ Last <= Last' /\ \A k \in 1..Last : thread'.log[k] = thread.log[k]
  <2>1. CASE thread'.log = thread.log
    BY <1>1, <2>1 DEF Last
  <2>2. ASSUME NEW m \in Message, thread'.log = Append(thread.log, m)
        PROVE  Last' \in Nat /\ Last <= Last' /\ \A k \in 1..Last : thread'.log[k] = thread.log[k]
    BY <1>1, <2>2, AppendProperties DEF Last
  <2> QED
    BY <2>1, <2>2
<1>3. x.last \in Nat /\ x.read \in Nat /\ x.peer \in Nat
  BY DEF Past, View
<1>4. {k \in 1..x.last : SideOf[thread'.log[k].from] # side /\ k > x.read}
      = {k \in 1..x.last : SideOf[thread.log[k].from] # side /\ k > x.read}
  BY <1>1, <1>2, <1>3 DEF Past
<1>5. \A n, r : n = x.last /\ r = x.read => UnreadAt(n, side, r)' = UnreadAt(n, side, r)
  BY <1>4 DEF UnreadAt
<1>6. x.last <= Last' /\ x.read <= thread'.read[side] /\ x.peer <= thread'.read[Other(side)]
  BY <1>1, <1>2, <1>3 DEF Past
<1> QED
  BY <1>5, <1>6 DEF Past, Other

(* A panel comes to know of the thread as it is, or merges what it knows.  *)
LEMMA StillPast ==
  ASSUME ChatBase, UNCHANGED thread, NEW p \in Panel, AllPast(p),
         \A x : Knows(p, x)' => \/ Knows(p, x)
                                \/ x = Now(p)
                                \/ \E a, b : Knows(p, a) /\ Knows(p, b) /\ x = MergeThread(a, b)
  PROVE  AllPast(p)'
<1> DEFINE K(x) == Knows(p, x) \/ x = Now(p)
<1>1. ASSUME NEW x, NEW y, K(x), K(y)
      PROVE  Past(x, SideOf[p]) /\ InOrder(x, y)
  <2>1. Past(Now(p), SideOf[p])
    BY NowIsPast
  <2>2. Past(x, SideOf[p]) /\ Past(y, SideOf[p])
    BY <1>1, <2>1 DEF AllPast
  <2>3. CASE Knows(p, x) /\ Knows(p, y)
    BY <2>2, <2>3 DEF AllPast
  <2>4. CASE x = Now(p) \/ y = Now(p)
    BY <2>2, <2>4, NowIsInOrder
  <2> QED
    BY <1>1, <2>2, <2>3, <2>4
<1> DEFINE Good(x) == Past(x, SideOf[p]) /\ \A z : K(z) => InOrder(x, z) /\ InOrder(z, x)
<1>2. ASSUME NEW x, K(x) PROVE Good(x)
  BY <1>1, <1>2
<1>3. ASSUME NEW a, NEW b, K(a), K(b) PROVE Good(MergeThread(a, b))
  <2>1. Past(a, SideOf[p]) /\ Past(b, SideOf[p]) /\ InOrder(a, b) /\ InOrder(b, a)
    BY <1>1, <1>3
  <2>2. /\ Past(MergeThread(a, b), SideOf[p])
        /\ \A z : InOrder(a, z) /\ InOrder(b, z) => InOrder(MergeThread(a, b), z)
        /\ \A z : InOrder(z, a) /\ InOrder(z, b) => InOrder(z, MergeThread(a, b))
    BY <2>1, MergeIsPast
  <2>3. \A z : K(z) => /\ InOrder(a, z) /\ InOrder(b, z) /\ InOrder(z, a) /\ InOrder(z, b)
    BY <1>1, <1>3
  <2> HIDE DEF K
  <2> QED
    BY <2>2, <2>3
<1>4. ASSUME NEW x, Knows(p, x)' PROVE Good(x)
  BY <1>2, <1>3, <1>4
<1>5. ASSUME NEW x, NEW y, Knows(p, x)', Knows(p, y)' PROVE InOrder(x, y)
  <2>1. Good(x)
    BY <1>4, <1>5
  <2>2. CASE K(y)
    BY <2>1, <2>2
  <2>3. ASSUME NEW a, NEW b, K(a), K(b), y = MergeThread(a, b) PROVE InOrder(x, y)
    <3>1. Past(a, SideOf[p]) /\ Past(b, SideOf[p]) /\ InOrder(a, b) /\ InOrder(b, a)
      BY <1>1, <2>3
    <3>2. \A z : InOrder(z, a) /\ InOrder(z, b) => InOrder(z, MergeThread(a, b))
      BY <3>1, MergeIsPast
    <3>3. InOrder(x, a) /\ InOrder(x, b)
      BY <2>1, <2>3
    <3> QED
      BY <2>3, <3>2, <3>3
  <2> QED
    BY <1>5, <2>2, <2>3
<1>6. \A x : Past(x, SideOf[p])' <=> Past(x, SideOf[p])
  BY DEF Past, Last, UnreadAt
<1>7. \A x : Knows(p, x)' => Past(x, SideOf[p])
  BY <1>4
<1>8. \A x, y : InOrder(x, y)' <=> InOrder(x, y)
  BY DEF InOrder
<1> HIDE DEF K, Good
<1> QED
  BY <1>5, <1>6, <1>7, <1>8 DEF AllPast

(* A panel that has the thread as it is keeps it, and one it is on its way *)
(* to gets it, whatever else arrives.                                      *)
LEMMA StillCurrent ==
  ASSUME ChatBase, UNCHANGED thread, NEW p \in Panel, AllPast(p), Current(p),
         Hearing(p)' => Hearing(p),
         \A q \in Panel : Telling(q) => Telling(q)',
         page[p].pc \in {"load", "catch"} => page'[p].pc \in {"load", "catch"},
         \A x : Arriving(p, x) => \/ Arriving(p, x)'
                                  \/ view'[p].thread = MergeThread(view[p].thread, x),
         \/ view'[p].thread = view[p].thread
         \/ \E x : Knows(p, x) /\ view'[p].thread = MergeThread(view[p].thread, x)
  PROVE  Current(p)'
<1> DEFINE now == Now(p)
<1>1. Now(p)' = now
  BY DEF Now
<1>2. \A x : Knows(p, x) => MergeThread(now, x) = now /\ MergeThread(x, now) = now
  BY NowWins DEF AllPast
<1>3. Knows(p, view[p].thread)
  BY DEF Knows
<1>4. CASE view[p].thread = now
  BY <1>1, <1>2, <1>4 DEF Current
<1>5. CASE Arriving(p, now)
  <2>1. (\A x : x = now => Arriving(p, x)') \/ view'[p].thread = MergeThread(view[p].thread, now)
    BY <1>5
  <2>2. (\A x : x = now => Arriving(p, x)') => Arriving(p, Now(p))'
    BY <1>1
  <2> HIDE DEF now
  <2> QED
    BY <1>1, <1>2, <1>3, <2>1, <2>2 DEF Current
<1> QED
  BY <1>4, <1>5 DEF Current

(* What a panel other than p knows stays when only p moves.                *)
LEMMA OthersStill ==
  ASSUME ChatBase, UNCHANGED thread, NEW p \in Panel, AllPast(p), Current(p),
         \A q \in Panel : Telling(q) => Telling(q)',
         view'[p].thread = view[p].thread, post'[p] = post[p], mark'[p] = mark[p],
         page'[p] = page[p], out'[p] = out[p], socket'[p] = socket[p]
  PROVE  AllPast(p)' /\ Current(p)'
<1>1. \A x : Arriving(p, x)' <=> Arriving(p, x)
  BY DEF Arriving
<1>2. \A x : Knows(p, x)' <=> Knows(p, x)
  BY <1>1 DEF Knows
<1>3. AllPast(p)'
  BY <1>2, StillPast
<1>4. Current(p)'
  BY <1>1, StillCurrent DEF Hearing
<1> QED
  BY <1>3, <1>4

(* A message waits, a post ends, a page is asked for or read.              *)
LEMMA BadgesPost ==
  ASSUME ChatBase, Badges, NEW p \in Panel,
         Post(p) \/ LoseAnswer(p) \/ (LeaveUntold(p) /\ met' = "none")
  PROVE  Badges'
<1>1. /\ UNCHANGED <<thread, hubVars, mark, page>>
      /\ \A q \in Panel : view'[q].thread = view[q].thread
  <2>1. UNCHANGED <<thread, hubVars, mark, page>>
    BY DEF Post, LoseAnswer, LeaveUntold
  <2>2. CASE Post(p)
    <3>1. view' = [view EXCEPT ![p] = [view[p] EXCEPT !.written = view[p].written + 1,
                                          !.outbox = @ \cup {view[p].written + 1}]]
      BY <2>2 DEF Post, ChatBase, ChatShape
    <3>2. view[p] \in Holding /\ view \in [Panel -> Holding]
      BY DEF ChatBase, ChatShape, Holding
    <3>3. [view[p] EXCEPT !.written = view[p].written + 1,
                          !.outbox = @ \cup {view[p].written + 1}].thread = view[p].thread
      BY <3>2 DEF Holding
    <3> QED
      BY <2>1, <3>1, <3>2, <3>3
  <2>3. CASE LoseAnswer(p) \/ LeaveUntold(p)
    BY <2>1, <2>3 DEF LoseAnswer, LeaveUntold
  <2> QED
    BY <2>2, <2>3
<1>2. \A q \in Panel : post'[q] = post[q] \/ (post'[q] = Idle /\ ~(post[q].pc = "tell" /\ post[q].new))
  BY DEF Post, LoseAnswer, LeaveUntold, Meet, Harmless, ChatBase, ChatShape
<1>3. \A q \in Panel : Telling(q) => Telling(q)'
  BY <1>1, <1>2 DEF Telling
<1>4. ASSUME NEW q \in Panel PROVE AllPast(q)' /\ Current(q)'
  <2>1. \A x : Arriving(q, x)' <=> Arriving(q, x)
    BY <1>1 DEF Arriving, hubVars
  <2>2. \A x : Knows(q, x)' => Knows(q, x)
    BY <1>1, <1>2, <2>1 DEF Knows, Idle
  <2>3. AllPast(q)'
    BY <1>1, <2>2, StillPast DEF Badges
  <2>4. Current(q)'
    BY <1>1, <1>3, <2>1, StillCurrent DEF Badges, Hearing, hubVars
  <2> QED
    BY <2>3, <2>4
<1> QED
  BY <1>4 DEF Badges

(* A page asked for brings the thread as it is when it is read.            *)
LEMMA BadgesPage ==
  ASSUME ChatBase, Badges, NEW p \in Panel, ReadThread(p) \/ Poll(p)
  PROVE  Badges'
<1>1. /\ UNCHANGED <<thread, post, mark, view, hubVars>>
      /\ \A q \in Panel : q # p => page'[q] = page[q]
      /\ Poll(p) => page[p] = Idle /\ page'[p].pc \in {"load", "catch"}
      /\ ReadThread(p) => /\ page[p].pc \in {"load", "catch"} /\ page'[p].thread = Now(p)
                          /\ page'[p].pc \in {"loaded", "caught"}
  BY DEF ReadThread, Poll, AskPage, Now, ChatBase, ChatShape
<1>2. \A q \in Panel : Telling(q) => Telling(q)'
  BY <1>1 DEF Telling
<1>3. ASSUME NEW q \in Panel, q # p PROVE AllPast(q)' /\ Current(q)'
  BY <1>1, <1>2, <1>3, OthersStill DEF Badges, hubVars
<1>4. Now(p)' = Now(p)
  BY <1>1 DEF Now
<1>5. AllPast(p)'
  <2>1. \A x : Arriving(p, x)' => Arriving(p, x) \/ x = Now(p)
    BY <1>1 DEF Arriving, hubVars, Idle
  <2>2. \A x : Knows(p, x)' => Knows(p, x) \/ x = Now(p)
    BY <1>1, <2>1 DEF Knows
  <2> QED
    BY <1>1, <2>2, StillPast DEF Badges
<1>6. Current(p)'
  <2>1. CASE Poll(p)
    BY <1>1, <2>1 DEF Current
  <2>2. CASE ReadThread(p)
    <3>1. Arriving(p, Now(p))'
      BY <1>1, <1>4, <2>2 DEF Arriving
    <3> QED
      BY <3>1 DEF Current
  <2> QED
    BY <2>1, <2>2
<1> QED
  BY <1>3, <1>5, <1>6 DEF Badges

(* An answer, an event, a page or the answer to a mark is merged.          *)
LEMMA BadgesMerge ==
  ASSUME ChatBase, Badges, NEW p \in Panel, UNCHANGED <<thread, socket>>,
         \A q \in Panel : q # p => /\ view'[q] = view[q] /\ post'[q] = post[q] /\ mark'[q] = mark[q]
                                   /\ page'[q] = page[q] /\ out'[q] = out[q],
         \A q \in Panel : Telling(q) => Telling(q)',
         \/ view'[p].thread = view[p].thread
         \/ \E x : Knows(p, x) /\ view'[p].thread = MergeThread(view[p].thread, x),
         page'[p] \in {page[p], Idle}, page'[p] = Idle => page[p].pc \notin {"load", "catch"},
         post'[p] \in {post[p], Idle},
         mark'[p] = mark[p] \/ mark'[p].pc # "answer",
         \A x : Arriving(p, x)' => Arriving(p, x),
         \A x : Arriving(p, x) => Arriving(p, x)' \/ view'[p].thread = MergeThread(view[p].thread, x)
  PROVE  Badges'
<1>1. ASSUME NEW q \in Panel, q # p PROVE AllPast(q)' /\ Current(q)'
  BY <1>1, OthersStill DEF Badges
<1>2. Knows(p, view[p].thread)
  BY DEF Knows
<1>3. \A x : Knows(p, x)' => \/ Knows(p, x)
                             \/ \E a, b : Knows(p, a) /\ Knows(p, b) /\ x = MergeThread(a, b)
  <2>1. ASSUME NEW x, Knows(p, x)', x # view'[p].thread PROVE Knows(p, x)
    BY <2>1 DEF Knows, Idle
  <2> QED
    BY <1>2, <2>1
<1>4. AllPast(p)'
  BY <1>3, StillPast DEF Badges
<1>5. Current(p)'
  BY StillCurrent DEF Badges, Hearing
<1> QED
  BY <1>1, <1>4, <1>5 DEF Badges

(* The answer to a post is merged.                                         *)
LEMMA BadgesAnswer ==
  ASSUME ChatBase, Badges, NEW p \in Panel, Answer(p)
  PROVE  Badges'
<1>1. /\ post[p].pc = "answer" /\ view'[p].thread = MergeThread(view[p].thread, post[p].thread)
      /\ \A q \in Panel : q # p => view'[q] = view[q]
  BY BaseAnswer
<1>2. /\ UNCHANGED <<thread, mark, page, hubVars>> /\ post'[p] = Idle
      /\ \A q \in Panel : q # p => post'[q] = post[q]
  BY DEF Answer, ChatBase, ChatShape
<1>3. \A q \in Panel : Telling(q) => Telling(q)'
  BY <1>1, <1>2 DEF Telling
<1>4. \A x : Arriving(p, x)' <=> Arriving(p, x)
  BY <1>2 DEF Arriving, hubVars
<1>5. Knows(p, post[p].thread)
  BY <1>1 DEF Knows
<1>6. page'[p] = Idle => page[p].pc \notin {"load", "catch"}
  BY <1>2 DEF Idle
<1>7. UNCHANGED <<socket, out>>
  BY <1>2 DEF hubVars
<1> QED
  BY <1>1, <1>2, <1>3, <1>4, <1>5, <1>6, <1>7, BadgesMerge

(* The answer to a mark is merged, or lost.                                *)
LEMMA BadgesEndMark ==
  ASSUME ChatBase, Badges, NEW p \in Panel, FinishMark(p) \/ LoseMark(p)
  PROVE  Badges'
<1>1. /\ mark[p].pc \in {"sent", "answer", "failed"} /\ UNCHANGED <<thread, post, page, socket, out>>
  BY BaseEndMark DEF hubVars
<1>2. PICK v : /\ NowShows(p, v)
               /\ \/ v.thread = view[p].thread
                  \/ mark[p].pc = "answer" /\ v.thread = MergeThread(view[p].thread, mark[p].thread)
  BY BaseEndMark
<1>3. \A q \in Panel : q # p => view'[q] = view[q] /\ mark'[q] = mark[q]
  BY <1>2 DEF NowShows
<1>4. mark'[p] = mark[p] \/ mark'[p].pc # "answer"
  BY <1>2 DEF NowShows, Idle
<1>5. \A q \in Panel : Telling(q) => Telling(q)'
  BY <1>1, <1>3 DEF Telling
<1>6. \/ view'[p].thread = view[p].thread
      \/ \E x : Knows(p, x) /\ view'[p].thread = MergeThread(view[p].thread, x)
  BY <1>2 DEF NowShows, Knows
<1>7. \A x : Arriving(p, x)' <=> Arriving(p, x)
  BY <1>1 DEF Arriving
<1>8. page'[p] = Idle => page[p].pc \notin {"load", "catch"}
  BY <1>1 DEF Idle
<1> QED
  BY <1>1, <1>3, <1>4, <1>5, <1>6, <1>7, <1>8, BadgesMerge

(* Of a mark that changes nothing nobody has to be told.                   *)
LEMMA BadgesLeaveMark ==
  ASSUME ChatBase, Badges, NEW p \in Panel, LeaveMarkUntold(p), met' = "none"
  PROVE  Badges'
<1>1. /\ UNCHANGED <<thread, post, page, view, hubVars>> /\ mark'[p].pc = "failed" /\ ~mark[p].changed
      /\ mark[p].pc = "tell" /\ \A q \in Panel : q # p => mark'[q] = mark[q]
  BY DEF LeaveMarkUntold, Meet, Harmless, ChatBase, ChatShape
<1>2. \A q \in Panel : Telling(q) => Telling(q)'
  BY <1>1 DEF Telling
<1>3. ASSUME NEW q \in Panel PROVE AllPast(q)' /\ Current(q)'
  <2>1. \A x : Arriving(q, x)' <=> Arriving(q, x)
    BY <1>1 DEF Arriving, hubVars
  <2>2. \A x : Knows(q, x)' => Knows(q, x)
    BY <1>1, <2>1 DEF Knows
  <2>3. AllPast(q)'
    BY <1>1, <2>2, StillPast DEF Badges
  <2>4. Current(q)'
    BY <1>1, <1>2, <2>1, StillCurrent DEF Badges, Hearing, hubVars
  <2> QED
    BY <2>3, <2>4
<1> QED
  BY <1>3 DEF Badges

(* The view that comes with a page is merged.                              *)
LEMMA BadgesFinishPage ==
  ASSUME ChatBase, Badges, NEW p \in Panel, FinishLoad(p) \/ FinishCatchUp(p)
  PROVE  Badges'
<1>1. /\ page[p].pc \in {"loaded", "caught"} /\ page' = [page EXCEPT ![p] = Idle]
      /\ UNCHANGED <<thread, post, socket, out>>
  BY BaseFinishPage DEF hubVars
<1>2. PICK v : NowShows(p, v) /\ v.thread = MergeThread(view[p].thread, page[p].thread)
  BY BaseFinishPage
<1>3. page'[p] = Idle /\ \A q \in Panel : q # p => page'[q] = page[q]
  BY <1>1 DEF ChatBase, ChatShape
<1>4. \A q \in Panel : mark[q].pc = "tell" => mark'[q] = mark[q]
  BY DEF FinishLoad, FinishCatchUp, MarkSeen, Idle, ChatBase, ChatShape
<1>5. \A q \in Panel : Telling(q) => Telling(q)'
  BY <1>1, <1>4 DEF Telling
<1>6. /\ \A q \in Panel : q # p => view'[q] = view[q] /\ mark'[q] = mark[q]
      /\ mark'[p] = mark[p] \/ mark'[p].pc # "answer"
      /\ view'[p].thread = MergeThread(view[p].thread, page[p].thread)
  BY <1>2 DEF NowShows, Idle
<1>7. Knows(p, page[p].thread)
  BY <1>1 DEF Knows, Arriving
<1>8. /\ \A x : Arriving(p, x)' => Arriving(p, x)
      /\ \A x : Arriving(p, x) => Arriving(p, x)' \/ x = page[p].thread
  BY <1>1, <1>3 DEF Arriving, Idle
<1> QED
  BY <1>1, <1>3, <1>5, <1>6, <1>7, <1>8, BadgesMerge

(* The view that comes with an event is merged.                            *)
LEMMA BadgesReceive ==
  ASSUME ChatBase, Badges, NEW p \in Panel, Receive(p)
  PROVE  Badges'
<1>1. Write(p) /\ UNCHANGED <<thread, post, page, met>>
  BY DEF Receive
<1>2. /\ UNCHANGED socket /\ 1 \in DOMAIN out[p]
      /\ \A q \in Panel : q # p => out'[q] = out[q]
      /\ Len(out[p]) \in Nat /\ DOMAIN out'[p] = 1..(Len(out[p]) - 1) /\ DOMAIN out[p] = 1..Len(out[p])
      /\ \A i \in DOMAIN out'[p] : out'[p][i] = out[p][i + 1]
  BY <1>1, WriteDrains, Numbers DEF ChatBase
<1>3. PICK v : NowShows(p, v) /\ v.thread = MergeThread(view[p].thread, out[p][1].thread)
  BY BaseReceive
<1>4. \A q \in Panel : mark[q].pc = "tell" => mark'[q] = mark[q]
  BY DEF Receive, MarkSeen, Idle, ChatBase, ChatShape
<1>5. \A q \in Panel : Telling(q) => Telling(q)'
  BY <1>1, <1>4 DEF Telling
<1>6. /\ \A q \in Panel : q # p => view'[q] = view[q] /\ mark'[q] = mark[q]
      /\ mark'[p] = mark[p] \/ mark'[p].pc # "answer"
      /\ view'[p].thread = MergeThread(view[p].thread, out[p][1].thread)
  BY <1>3 DEF NowShows, Idle
<1>7. Knows(p, out[p][1].thread)
  BY <1>2 DEF Knows, Arriving
<1>8. \A x : Arriving(p, x)' => Arriving(p, x)
  <2>1. \A i \in DOMAIN out'[p] : i + 1 \in DOMAIN out[p] /\ out'[p][i] = out[p][i + 1]
    BY <1>2
  <2> QED
    BY <1>1, <2>1 DEF Arriving
<1>9. \A x : Arriving(p, x) => Arriving(p, x)' \/ x = out[p][1].thread
  <2>1. \A i \in DOMAIN out[p] : i = 1 \/ (i - 1 \in DOMAIN out'[p] /\ out'[p][i - 1] = out[p][i])
    BY <1>2
  <2> QED
    BY <1>1, <2>1 DEF Arriving
<1>10. page'[p] = Idle => page[p].pc \notin {"load", "catch"}
  BY <1>1 DEF Idle
<1> QED
  BY <1>1, <1>2, <1>5, <1>6, <1>7, <1>8, <1>9, <1>10, BadgesMerge

(* A message or a mark is written: who writes it tells all who hear.       *)
LEMMA BadgesWrite ==
  ASSUME ChatBase, Badges, NEW p \in Panel,
         UpdateMark(p) \/ \E key \in 1..MaxPosts : InsertMessage(p, key)
  PROVE  Badges'
<1>1. /\ thread'.log = thread.log \/ \E m \in Message : thread'.log = Append(thread.log, m)
      /\ \A s \in Side : thread'.read[s] \in Nat /\ thread.read[s] <= thread'.read[s]
      /\ thread' = thread \/ Telling(p)'
      /\ UNCHANGED <<page, view, socket, out>>
      /\ \A q \in Panel : Telling(q) => Telling(q)'
      /\ \A q \in Panel : /\ post'[q].pc = "answer" => post'[q] = post[q]
                          /\ mark'[q].pc = "answer" => mark'[q] = mark[q]
  <2>1. /\ SideOf[p] \in Side /\ Last \in Nat /\ thread.read[SideOf[p]] <= Last
        /\ thread \in [log : Seq(Message), read : [Side -> Nat]]
    BY Numbers DEF ChatBase, ChatShape, Numbered
  <2>2. CASE UpdateMark(p)
    <3> DEFINE upTo == IF mark[p].upTo < Last THEN mark[p].upTo ELSE Last
    <3> DEFINE side == SideOf[p]
    <3>1. /\ mark[p].pc = "sent" /\ UNCHANGED <<post, page, view, hubVars>>
          /\ thread' = [thread EXCEPT !.read[side] = IF upTo > thread.read[side] THEN upTo ELSE thread.read[side]]
          /\ mark'[p].pc = "tell" /\ mark'[p].changed = (upTo > thread.read[side])
          /\ \A q \in Panel : q # p => mark'[q] = mark[q]
      BY <2>2 DEF UpdateMark, ChatBase, ChatShape
    <3>2. mark[p].upTo \in Nat
      <4>1. mark[p] \in [pc : {"sent"}, upTo : Nat]
        BY <3>1 DEF ChatBase, ChatShape, Idle
      <4> QED
        BY <4>1
    <3>3. upTo \in Nat
      BY <2>1, <3>2
    <3> HIDE DEF upTo
    <3>4. thread'.log = thread.log /\ \A s \in Side : thread'.read[s] \in Nat /\ thread.read[s] <= thread'.read[s]
      BY <2>1, <3>1, <3>3
    <3>5. thread' = thread \/ Telling(p)'
      <4>1. CASE upTo > thread.read[side]
        BY <3>1, <4>1 DEF Telling
      <4>2. CASE ~(upTo > thread.read[side])
        BY <2>1, <3>1, <4>2
      <4> QED
        BY <4>1, <4>2
    <3>6. \A q \in Panel : Telling(q) => Telling(q)'
      BY <3>1 DEF Telling
    <3> QED
      BY <3>1, <3>4, <3>5, <3>6 DEF hubVars
  <2>3. ASSUME NEW key \in 1..MaxPosts, InsertMessage(p, key)
        PROVE  /\ thread'.log = thread.log \/ \E m \in Message : thread'.log = Append(thread.log, m)
               /\ \A s \in Side : thread'.read[s] \in Nat /\ thread.read[s] <= thread'.read[s]
               /\ thread' = thread \/ Telling(p)'
               /\ UNCHANGED <<page, view, socket, out>>
               /\ \A q \in Panel : Telling(q) => Telling(q)'
               /\ \A q \in Panel : /\ post'[q].pc = "answer" => post'[q] = post[q]
                                   /\ mark'[q].pc = "answer" => mark'[q] = mark[q]
    <3> DEFINE old == Stored(p, key)
    <3>1. /\ post[p] = Idle /\ UNCHANGED <<mark, page, view, hubVars>>
          /\ \A q \in Panel : q # p => post'[q] = post[q]
          /\ post'[p].pc = "tell" /\ (post'[p].new <=> old = {})
          /\ thread' = IF old = {} THEN Store(thread, p, key) ELSE thread
      BY <2>3 DEF InsertMessage, ChatBase, ChatShape
    <3>2. \A q \in Panel : Telling(q) => Telling(q)'
      BY <3>1 DEF Telling, Idle
    <3>3. CASE old # {}
      BY <2>1, <3>1, <3>2, <3>3 DEF hubVars
    <3>4. CASE old = {}
      <4> DEFINE m == [from |-> p, key |-> key]
      <4>1. m \in Message
        BY ChatAssumption DEF Message
      <4>2. thread'.log = Append(thread.log, m) /\ thread'.read = [thread.read EXCEPT ![SideOf[p]] = Last + 1]
        BY <3>1, <3>4 DEF Store, Last
      <4>3. \A s \in Side : thread'.read[s] \in Nat /\ thread.read[s] <= thread'.read[s]
        BY <2>1, <4>2
      <4> HIDE DEF m
      <4> QED
        BY <3>1, <3>2, <3>4, <4>1, <4>2, <4>3 DEF hubVars, Telling
    <3> QED
      BY <3>3, <3>4
  <2> QED
    BY <2>2, <2>3
<1>2. ASSUME NEW q \in Panel PROVE AllPast(q)' /\ Current(q)'
  <2>1. \A x : Arriving(q, x)' <=> Arriving(q, x)
    BY <1>1 DEF Arriving
  <2>2. ASSUME NEW x, Knows(q, x)' PROVE Knows(q, x)
    <3>1. CASE post'[q].pc = "answer" /\ post'[q].thread = x
      <4>1. post'[q] = post[q]
        BY <1>1, <3>1
      <4> QED
        BY <3>1, <4>1 DEF Knows
    <3>2. CASE mark'[q].pc = "answer" /\ mark'[q].thread = x
      <4>1. mark'[q] = mark[q]
        BY <1>1, <3>2
      <4> QED
        BY <3>2, <4>1 DEF Knows
    <3>3. CASE Arriving(q, x)' \/ view'[q].thread = x
      BY <1>1, <2>1, <3>3 DEF Knows
    <3> QED
      BY <2>2, <3>1, <3>2, <3>3 DEF Knows
  <2>3. AllPast(q)'
    <3>1. \A x : Past(x, SideOf[q]) => Past(x, SideOf[q])'
      BY <1>1, StaysPast
    <3>2. \A x, y : InOrder(x, y)' <=> InOrder(x, y)
      BY DEF InOrder
    <3> QED
      BY <2>2, <3>1, <3>2 DEF Badges, AllPast
  <2>4. Current(q)'
    <3>1. CASE thread' = thread
      BY <1>1, <2>1, <3>1, StillCurrent DEF Badges, Hearing
    <3>2. CASE Telling(p)'
      BY <3>2 DEF Current
    <3> QED
      BY <1>1, <3>1, <3>2
  <2> QED
    BY <2>3, <2>4
<1> QED
  BY <1>2 DEF Badges

(* Everyone who hears is told the thread as it is.                         *)
LEMMA BadgesTell ==
  ASSUME ChatBase, Badges, NEW p \in Panel, TellMessage(p) \/ TellMark(p), met' = "none"
  PROVE  Badges'
<1>1. /\ UNCHANGED <<thread, view, page>>
      /\ \A q \in Panel : q # p => post'[q] = post[q] /\ mark'[q] = mark[q]
      /\ \/ post'[p] = post[p]
         \/ post'[p].thread = Now(p)
      /\ \/ mark'[p] = mark[p]
         \/ mark'[p].thread = Now(p)
  BY DEF TellMessage, TellMark, Now, ChatBase, ChatShape
<1>2. ChatShape /\ Lock /\ \A s \in Side : thread.read[s] <= Last
  BY DEF ChatBase, Numbered
<1>3. \A q \in Panel : Now(q)' = Now(q)
  BY <1>1 DEF Now
<1>4. CASE UNCHANGED hubVars /\ \A q \in Panel : ~Telling(q)
  <2>1. ASSUME NEW q \in Panel PROVE AllPast(q)' /\ Current(q)'
    <3>1. \A x : Arriving(q, x)' <=> Arriving(q, x)
      BY <1>1, <1>4 DEF Arriving, hubVars
    <3>2. \A x : Knows(q, x)' => Knows(q, x) \/ x = Now(q)
      BY <1>1, <3>1 DEF Knows
    <3>3. AllPast(q)'
      BY <1>1, <3>2, StillPast DEF Badges
    <3>4. Current(q)'
      BY <1>1, <1>4, <3>1, StillCurrent DEF Badges, Hearing, hubVars
    <3> QED
      BY <3>3, <3>4
  <2> QED
    BY <2>1 DEF Badges
<1>5. ASSUME NEW kind \in {"message", "read"}, NEW n \in Nat, Tell(kind, n),
             \A q \in Panel : socket[q] # "rising"
      PROVE  Badges'
  <2>1. ASSUME NEW q \in Panel PROVE AllPast(q)' /\ Current(q)'
    <3> DEFINE news == NewsFor(q, kind, n)
    <3>1. news \in Event /\ Told(q, news) /\ news.thread = Now(q) /\ out[q] \in Seq(Event)
      BY <1>2, <1>5, TellTells, Numbers DEF NewsFor, Now
    <3> HIDE DEF news
    <3>2. \/ out'[q] = out[q] /\ ~Hearing(q)'
          \/ /\ DOMAIN out'[q] = 1..(Len(out[q]) + 1) /\ DOMAIN out[q] = 1..Len(out[q]) /\ Len(out[q]) \in Nat
             /\ \A i \in 1..Len(out[q]) : out'[q][i] = out[q][i]
             /\ out'[q][Len(out[q]) + 1].thread = Now(q)
      <4>1. CASE socket[q] = "open" /\ ~Full(q)
        <5>1. out'[q] = Append(out[q], news)
          BY <3>1, <4>1 DEF Told
        <5> QED
          BY <3>1, <5>1, AppendProperties, LenProperties
      <4>2. CASE ~(socket[q] = "open" /\ ~Full(q))
        BY <1>5, <3>1, <4>2 DEF Told, Hearing
      <4> QED
        BY <4>1, <4>2
    <3>3. \A x : Arriving(q, x)' => Arriving(q, x) \/ x = Now(q)
      <4>1. ASSUME NEW i \in DOMAIN out'[q]
            PROVE  out'[q][i].thread = Now(q) \/ (i \in DOMAIN out[q] /\ out'[q][i] = out[q][i])
        BY <3>2
      <4> QED
        BY <1>1, <4>1 DEF Arriving
    <3>4. \A x : Knows(q, x)' => Knows(q, x) \/ x = Now(q)
      BY <1>1, <3>3 DEF Knows
    <3>5. AllPast(q)'
      BY <1>1, <3>4, StillPast DEF Badges
    <3>6. Current(q)'
      <4>1. CASE ~Hearing(q)'
        BY <4>1 DEF Current
      <4>2. CASE /\ DOMAIN out'[q] = 1..(Len(out[q]) + 1) /\ Len(out[q]) \in Nat
                 /\ out'[q][Len(out[q]) + 1].thread = Now(q)
        <5>1. Arriving(q, Now(q))'
          BY <1>3, <4>2 DEF Arriving
        <5> QED
          BY <5>1 DEF Current
      <4> QED
        BY <3>2, <4>1, <4>2
    <3> QED
      BY <3>5, <3>6
  <2> QED
    BY <2>1 DEF Badges
<1>6. CASE TellMessage(p)
  <2>1. post[p].pc = "tell" /\ post[p].seq \in Nat
    <3>1. post[p].pc = "tell"
      BY <1>6 DEF TellMessage
    <3>2. post[p] \in [pc : {"tell"}, new : BOOLEAN, seq : Nat]
      BY <1>2, <3>1 DEF ChatShape, Idle
    <3> QED
      BY <3>1, <3>2
  <2>2. CASE post[p].new
    BY <1>5, <1>6, <2>1, <2>2 DEF TellMessage, Meet, Harmless, SomeRises
  <2>3. CASE ~post[p].new
    BY <1>2, <1>4, <1>6, <2>1, <2>3 DEF TellMessage, Telling, Lock
  <2> QED
    BY <2>2, <2>3
<1>7. CASE TellMark(p)
  <2>1. mark[p].pc = "tell"
    BY <1>7 DEF TellMark
  <2>2. CASE mark[p].changed
    BY <1>5, <1>7, <2>1, <2>2 DEF TellMark, Meet, Harmless, SomeRises
  <2>3. CASE ~mark[p].changed
    BY <1>2, <1>4, <1>7, <2>1, <2>3 DEF TellMark, Telling, Lock
  <2> QED
    BY <2>2, <2>3
<1> QED
  BY <1>6, <1>7

(* A socket comes up, and a page is asked for, or it ends.                 *)
LEMMA BadgesSocket ==
  ASSUME ChatBase, Badges, NEW p \in Panel,
         (Reconnect(p) /\ met' = "none") \/ SocketStep(p)
  PROVE  Badges'
<1>1. ChatShape /\ UNCHANGED <<thread, post, mark, view>>
  BY DEF ChatBase, Reconnect, SocketStep, chatVars
<1>2. /\ \A q \in Panel : q # p => out'[q] = out[q] /\ socket'[q] = socket[q]
      /\ Register(p) => out' = out /\ socket[p] = "rising" /\ socket'[p] = "open"
      /\ ~Register(p) => out'[p] = <<>>
      /\ Cut(p) \/ Close(p) => socket'[p] \in {"off", "gone"}
  BY <1>1, SocketDrains DEF Reconnect, SocketStep
<1>3. \A q \in Panel : Telling(q) => Telling(q)'
  BY <1>1 DEF Telling
<1>4. ASSUME NEW q \in Panel, q # p PROVE AllPast(q)' /\ Current(q)'
  <2>1. page'[q] = page[q]
    BY <1>4 DEF Reconnect, SocketStep, chatVars, ChatBase, ChatShape
  <2> QED
    BY <1>1, <1>2, <1>3, <1>4, <2>1, OthersStill DEF Badges
<1>5. page'[p] = page[p] \/ page'[p].pc \in {"load", "catch"}
  BY DEF Reconnect, SocketStep, chatVars, AskPage, ChatBase, ChatShape
<1>6. AllPast(p)'
  <2>1. \A i \in DOMAIN out'[p] : out' = out
    BY <1>2
  <2>2. \A x : Arriving(p, x)' => Arriving(p, x)
    BY <1>5, <2>1 DEF Arriving
  <2>3. \A x : Knows(p, x)' => Knows(p, x)
    BY <1>1, <2>2 DEF Knows
  <2> QED
    BY <1>1, <2>3, StillPast DEF Badges
<1>7. Current(p)'
  <2>1. CASE Reconnect(p) /\ met' = "none"
    <3>1. page'[p].pc \in {"load", "catch"}
      BY <2>1 DEF Reconnect, Meet, Harmless, AskPage, ChatBase, ChatShape
    <3> QED
      BY <3>1 DEF Current
  <2>2. CASE SocketStep(p) /\ ~Register(p)
    BY <1>2, <2>2 DEF SocketStep, Current, Hearing
  <2>3. CASE SocketStep(p) /\ Register(p)
    <3>1. page' = page /\ \A x : Arriving(p, x)' <=> Arriving(p, x)
      BY <1>2, <2>3 DEF SocketStep, chatVars, Arriving
    <3> QED
      BY <1>1, <1>2, <1>3, <2>3, <3>1, StillCurrent DEF Badges, Hearing
  <2> QED
    BY <2>1, <2>2, <2>3
<1> QED
  BY <1>4, <1>6, <1>7 DEF Badges

(* A panel starts with a view of the empty thread and loads a page.        *)
LEMMA BadgesInit ==
  ASSUME ChatInit
  PROVE  Badges
<1>1. \A p \in Panel : /\ out[p] = <<>> /\ post[p] = Idle /\ mark[p] = Idle /\ page[p].pc = "load"
                       /\ view[p].thread = NoThread
  BY ChatAssumption DEF ChatInit, HubInit
<1>2. Last = 0 /\ \A s \in Side : thread.read[s] = 0
  BY DEF ChatInit, Last
<1>3. ASSUME NEW p \in Panel PROVE AllPast(p) /\ Current(p)
  <2>1. \A x : Knows(p, x) => x = NoThread
    BY <1>1 DEF Knows, Arriving, Idle
  <2>2. Past(NoThread, SideOf[p])
    <3>1. SideOf[p] \in Side /\ Other(SideOf[p]) \in Side
      BY ChatAssumption DEF Side, Other
    <3>2. UnreadAt(0, SideOf[p], 0) = 0
      <4>1. {k \in 1..0 : SideOf[thread.log[k].from] # SideOf[p] /\ k > 0} = {}
        OBVIOUS
      <4> QED
        BY <4>1, FS_EmptySet DEF UnreadAt
    <3> QED
      BY <1>2, <3>1, <3>2 DEF Past, NoThread, View
  <2>3. InOrder(NoThread, NoThread)
    BY DEF InOrder, NoThread
  <2> QED
    BY <1>1, <2>1, <2>2, <2>3 DEF AllPast, Current
<1> QED
  BY <1>3 DEF Badges

(* Every step that is no mishap keeps the views true.                      *)
LEMMA BadgesNext ==
  ASSUME ChatBase, Badges, [ChatNext]_<<hubVars, chatVars>>, met' = "none"
  PROVE  Badges'
<1>1. CASE UNCHANGED <<hubVars, chatVars>>
  <2>1. UNCHANGED <<thread, post, mark, page, view, out, socket>>
    BY <1>1 DEF hubVars, chatVars
  <2>2. \A q \in Panel : Telling(q) => Telling(q)'
    BY <2>1 DEF Telling
  <2> QED
    BY <2>1, <2>2, OthersStill DEF Badges
<1>2. \A p \in Panel : ~FailPage(p)
  BY DEF FailPage, Meet, Harmless
<1>3. ASSUME NEW p \in Panel,
             \/ Post(p) \/ TellMessage(p) \/ LeaveUntold(p) \/ LoseAnswer(p) \/ Answer(p)
             \/ \E key \in 1..MaxPosts : InsertMessage(p, key)
             \/ UpdateMark(p) \/ TellMark(p) \/ LeaveMarkUntold(p) \/ LoseMark(p) \/ FinishMark(p)
             \/ ReadThread(p) \/ FinishLoad(p) \/ FinishCatchUp(p) \/ FailPage(p) \/ Poll(p)
             \/ Receive(p) \/ Reconnect(p) \/ SocketStep(p)
      PROVE  Badges'
  BY <1>2, <1>3, BadgesPost, BadgesWrite, BadgesTell, BadgesAnswer, BadgesLeaveMark, BadgesEndMark, BadgesPage,
     BadgesFinishPage, BadgesReceive, BadgesSocket
<1> QED
  BY <1>1, <1>3 DEF ChatNext

-----------------------------------------------------------------------------
(* Theorems *)

(* No step undoes a mishap: the first one is remembered.                   *)
LEMMA OnceMetAlwaysMet ==
  ASSUME [ChatNext]_<<hubVars, chatVars>>
  PROVE  (met' = "none" => met = "none") /\ (met' \in Harmless => met \in Harmless)
BY DEF ChatNext, hubVars, chatVars, Post, TellMessage, LeaveUntold, LoseAnswer, Answer, InsertMessage,
       UpdateMark, TellMark, LeaveMarkUntold, LoseMark, FinishMark, EndMark, ReadThread, FinishLoad, FinishCatchUp,
       FailPage, Poll, Receive, Reconnect, SocketStep, Meet, Harmless

ChatIInv == /\ ChatBase
            /\ met \in Harmless => Messages /\ ShownIsRead
            /\ met = "none" => Badges

(* The inductive invariant: numbers, keys and the lock whatever goes       *)
(* wrong; until the first mishap also the order in which a panel is given  *)
(* messages and what its marks reach, which a mark that could not be told  *)
(* does not harm, and the views it merges.                                 *)
THEOREM ChatInvariance == ChatSpec => []ChatIInv
<1>1. ChatInit => ChatIInv
  BY BaseInit, MessagesInit, BadgesInit DEF ChatIInv
<1>2. ChatIInv /\ [ChatNext]_<<hubVars, chatVars>> => ChatIInv'
  BY BaseNext, MessagesNext, BadgesNext, OnceMetAlwaysMet DEF ChatIInv
<1> QED
  BY <1>1, <1>2, PTL DEF ChatSpec

(* However often a message is sent, it is stored once and shown once       *)
(* (InsertMessage, _merge), for any number of panels, messages and retries *)
(* and after any mishap.                                                   *)
THEOREM SentOnceHolds == ChatSpec => []SentOnce
<1>1. ChatIInv => SentOnce
  BY DEF ChatIInv, ChatBase
<1> QED
  BY <1>1, ChatInvariance, PTL

(* Until the first mishap, what is marked read for a side is shown to it   *)
(* or on its way in a page, unless the side wrote after it (UpdateMark,    *)
(* markSeen).                                                              *)
THEOREM OnlyShownIsReadHolds == ChatSpec => []OnlyShownIsRead
<1>1. ChatIInv => OnlyShownIsRead
  BY DEF ChatIInv, OnlyShownIsRead
<1> QED
  BY <1>1, ChatInvariance, PTL

(* Until the first mishap, a panel with nothing on its way shows every     *)
(* message of the thread, whatever the order of answers, events and pages  *)
(* (support.go, rule 3).                                                   *)
THEOREM NothingMissedHolds == ChatSpec => []NothingMissed
<1>1. ChatIInv => NothingMissed
  <2> SUFFICES ASSUME ChatIInv, met \in Harmless, NEW p \in Panel, Quiet(p)
               PROVE  view[p].held = Seqs
    BY DEF NothingMissed
  <2>1. /\ Hearing(p) /\ Given(p) = view[p].held /\ Len(out[p]) = 0 /\ view[p].held \subseteq Seqs
        /\ \A n : ~Untold(n)
    BY DEF Quiet, Hearing, Given, Items, LockIsFree, Untold, ChatIInv, ChatBase, Numbered
  <2>2. \A n : ~Queued(p, n, Len(out[p]))
    BY <2>1 DEF Queued
  <2>3. \A n \in Seqs : n \in view[p].held
    BY <2>1, <2>2 DEF ChatIInv, Messages, Coming
  <2> QED
    BY <2>1, <2>3
<1> QED
  BY <1>1, ChatInvariance, PTL

(* Until the first mishap, a panel with nothing on its way shows the count *)
(* of unread messages and the marks the server has (models.dart, merge).   *)
THEOREM BadgeIsRightHolds == ChatSpec => []BadgeIsRight
<1>1. ChatIInv => BadgeIsRight
  <2> SUFFICES ASSUME ChatIInv, met = "none", NEW p \in Panel, Quiet(p)
               PROVE  view[p].thread = ThreadView(thread, SideOf[p])
    BY DEF BadgeIsRight
  <2>1. /\ Hearing(p) /\ \A q \in Panel : ~Telling(q)
        /\ page[p].pc \notin {"load", "catch"} /\ ~Arriving(p, Now(p))
    BY DEF Quiet, Hearing, LockIsFree, Telling, Idle, Arriving
  <2> QED
    BY <2>1 DEF ChatIInv, Badges, Current, Now
<1> QED
  BY <1>1, ChatInvariance, PTL

-----------------------------------------------------------------------------
(* The alerts of a restaurant: what a panel is told, as values *)

Entry == [key : {Before} \cup {KeyOf[s] : s \in Source}, read : BOOLEAN]
AlertEvent == [kind : {"alert", "alertsRead"}, seq : Nat, unread : Int]
Held == [latest : Nat, base : Nat, seen : SUBSET Nat, unread : Int, again : BOOLEAN, reads : Nat]
Asking == {Idle, [pc |-> "count"]}
          \cup [pc : {"latest"}, unread : Nat]
          \cup [pc : {"summary"}, unread : Nat, latest : Nat]
          \cup [pc : {"listed"}, items : SUBSET Nat]
          \cup [pc : {"list"}, items : SUBSET Nat, unread : Nat]

IsAlert(e) == e.kind = "alert"

(* What panel c has asked for by s, and the number up to which it knows    *)
(* what it has: none before the first summary.                             *)
Pending(s) == IF s.pc \in {"listed", "list"} THEN s.items ELSE {}
Unsure(c, s) == c.latest = 0 /\ s.pc \in {"count", "latest"}
Reached(c, s) == IF c.latest = 0 /\ s.pc = "summary" THEN s.latest ELSE c.latest

(* Alert n is among the first k events of queue q.                         *)
AmongFirst(q, n, k) == \E j \in DOMAIN q : j <= k /\ IsAlert(q[j]) /\ q[j].seq = n

(* A panel that holds c and asks s, with queue q, and L alerts stored.     *)
Possible(c, s, q, L) ==
  /\ c \in Held /\ s \in Asking /\ q \in Seq(AlertEvent) /\ L \in Nat
  /\ c.base <= c.latest /\ c.latest <= L
  /\ c.seen \subseteq 1..L /\ Pending(s) \subseteq 1..L
  /\ s.pc = "summary" => s.latest <= L
  /\ s.pc \in {"listed", "list"} => c.latest > 0
  /\ \A k \in DOMAIN q : IsAlert(q[k]) => q[k].seq \in 1..L

(* The alerts of a queue follow each other without a gap.                  *)
Consecutive(q) == \A i, k \in DOMAIN q : i < k /\ IsAlert(q[i]) /\ IsAlert(q[k]) =>
  q[i].seq < q[k].seq /\ \A n \in q[i].seq..(q[k].seq - 1) : AmongFirst(q, n, k - 1)

(* What it holds and has asked for has no gap.                             *)
HasAll(c, s) == /\ \A n \in (c.base + 1)..c.latest : n \in c.seen \cup Pending(s)
                /\ \A n \in Pending(s) : \A m \in (c.latest + 1)..n : m \in Pending(s)

(* An event in its queue has no gap before it.                             *)
GivenInTurn(c, s, q) == ~Unsure(c, s) => \A k \in DOMAIN q : IsAlert(q[k]) =>
  \A n \in (Reached(c, s) + 1)..(q[k].seq - 1) : n \in Pending(s) \/ AmongFirst(q, n, k - 1)

(* What it does not have yet is in its queue, or about to be told.         *)
IsComing(q, L, told, n) == AmongFirst(q, n, Len(q)) \/ n \in told
AllComing(c, s, q, L, told) ==
  /\ \A k \in DOMAIN q : IsAlert(q[k]) => \A n \in q[k].seq..L : IsComing(q, L, told, n)
  /\ ~Unsure(c, s) => \A n \in (Reached(c, s) + 1)..L : n \in Pending(s) \/ IsComing(q, L, told, n)

Follows(c, s, q, hears, L, told) ==
  /\ Consecutive(q) /\ HasAll(c, s) /\ GivenInTurn(c, s, q)
  /\ hears => AllComing(c, s, q, L, told)
  /\ \A k \in DOMAIN q : IsAlert(q[k]) => q[k].seq \notin told

(* All that a panel has been given or will be.                             *)
Shown(c, s) == c.seen \cup Pending(s) \cup 1..c.base

(* The numbers of a panel are numbers.                                     *)
LEMMA NumbersOf ==
  ASSUME NEW c, NEW s, NEW q, NEW L, Possible(c, s, q, L)
  PROVE  /\ L \in Nat /\ c.latest \in Nat /\ c.base \in Nat
         /\ Reached(c, s) \in Nat /\ Reached(c, s) <= L
         /\ s.pc = "summary" => s.latest \in Nat
         /\ Pending(s) \in SUBSET (1..L) /\ c.seen \in SUBSET (1..L)
BY DEF Possible, Reached, Held, Asking, Idle

(* An alert that is stored is about to be told.                            *)
LEMMA StoredFollows ==
  ASSUME NEW c, NEW s, NEW q, NEW L, NEW hears \in BOOLEAN,
         Possible(c, s, q, L), Follows(c, s, q, hears, L, {})
  PROVE  Possible(c, s, q, L + 1) /\ Follows(c, s, q, hears, L + 1, {L + 1})
<1>1. Possible(c, s, q, L + 1)
  <2>1. /\ L \in Nat /\ c.latest \in Nat /\ 1..L \subseteq 1..(L + 1)
        /\ s.pc = "summary" => s.latest \in Nat
    BY NumbersOf
  <2>2. c.latest <= L + 1 /\ (s.pc = "summary" => s.latest <= L + 1)
    BY <2>1 DEF Possible
  <2>3. \A k \in DOMAIN q : IsAlert(q[k]) => q[k].seq \in 1..(L + 1)
    BY <2>1 DEF Possible
  <2> QED
    BY <2>1, <2>2, <2>3 DEF Possible
<1>2. \A k \in DOMAIN q : IsAlert(q[k]) => q[k].seq \in 1..L
  BY DEF Possible
<1>3. L \in Nat /\ Reached(c, s) \in Nat
  BY DEF Possible, Reached, Held, Asking, Idle
<1>4. AllComing(c, s, q, L, {}) => AllComing(c, s, q, L + 1, {L + 1})
  BY <1>2, <1>3 DEF AllComing, IsComing
<1> QED
  BY <1>1, <1>2, <1>3, <1>4 DEF Follows

(* A panel that does not hear is promised less.                            *)
LEMMA DeafFollows ==
  ASSUME NEW c, NEW s, NEW q, NEW L, NEW hears \in BOOLEAN, NEW told, NEW less \in SUBSET told,
         Follows(c, s, q, hears, L, told)
  PROVE  Follows(c, s, q, FALSE, L, less) /\ Follows(c, s, <<>>, FALSE, L, less)
<1>1. Follows(c, s, q, FALSE, L, less)
  BY DEF Follows
<1>2. Follows(c, s, <<>>, FALSE, L, less)
  BY DEF Follows, Consecutive, GivenInTurn
<1> QED
  BY <1>1, <1>2

(* An event that is appended changes nothing of what was there before.     *)
LEMMA Appended ==
  ASSUME NEW q \in Seq(AlertEvent), NEW e \in AlertEvent
  PROVE  /\ Append(q, e) \in Seq(AlertEvent) /\ Len(q) \in Nat
         /\ Len(Append(q, e)) = Len(q) + 1
         /\ DOMAIN q = 1..Len(q) /\ DOMAIN Append(q, e) = 1..(Len(q) + 1)
         /\ \A i \in DOMAIN q : Append(q, e)[i] = q[i]
         /\ Append(q, e)[Len(q) + 1] = e
         /\ \A n, k : AmongFirst(q, n, k) => AmongFirst(Append(q, e), n, k)
<1>1. /\ Append(q, e) \in Seq(AlertEvent) /\ Len(q) \in Nat
      /\ Len(Append(q, e)) = Len(q) + 1
      /\ DOMAIN q = 1..Len(q) /\ DOMAIN Append(q, e) = 1..(Len(q) + 1)
      /\ \A i \in 1..Len(q) : Append(q, e)[i] = q[i]
      /\ Append(q, e)[Len(q) + 1] = e
  BY AppendProperties, LenProperties
<1>2. \A n, k : AmongFirst(q, n, k) => AmongFirst(Append(q, e), n, k)
  BY <1>1 DEF AmongFirst
<1> QED
  BY <1>1, <1>2

(* The alert that is told now goes behind those that were told before.     *)
LEMMA ToldFollows ==
  ASSUME NEW c, NEW s, NEW q, NEW L \in Nat \ {0}, NEW e \in AlertEvent, IsAlert(e), e.seq = L,
         Possible(c, s, q, L), Follows(c, s, q, TRUE, L, {L})
  PROVE  Possible(c, s, Append(q, e), L) /\ Follows(c, s, Append(q, e), TRUE, L, {})
<1> DEFINE r == Append(q, e)
<1> DEFINE l == Len(q)
<1>1. q \in Seq(AlertEvent)
  BY DEF Possible
<1>2. /\ r \in Seq(AlertEvent) /\ l \in Nat /\ Len(r) = l + 1
      /\ DOMAIN q = 1..l /\ DOMAIN r = 1..(l + 1)
      /\ \A i \in DOMAIN q : r[i] = q[i]
      /\ r[l + 1] = e
      /\ \A n, k : AmongFirst(q, n, k) => AmongFirst(r, n, k)
  BY <1>1, Appended
<1> HIDE DEF r, l
<1>3. \A k \in DOMAIN q : IsAlert(q[k]) => q[k].seq \in 1..(L - 1)
  BY DEF Possible, Follows
<1>4. Possible(c, s, r, L)
  BY <1>2, <1>3 DEF Possible
<1>5. \A n : IsComing(q, L, {L}, n) => n = L \/ AmongFirst(q, n, l)
  BY DEF IsComing, l
<1>6. AmongFirst(r, L, l + 1)
  BY <1>2 DEF AmongFirst
<1>7. \A n : AmongFirst(q, n, l) => AmongFirst(r, n, l + 1)
  BY <1>2 DEF AmongFirst
<1>8. Reached(c, s) \in Nat
  BY DEF Possible, Reached, Held, Asking, Idle
<1>9. Consecutive(r)
  <2> SUFFICES ASSUME NEW i \in DOMAIN r, NEW k \in DOMAIN r, i < k, IsAlert(r[i]), IsAlert(r[k])
               PROVE  r[i].seq < r[k].seq /\ \A n \in r[i].seq..(r[k].seq - 1) : AmongFirst(r, n, k - 1)
    BY DEF Consecutive
  <2>1. CASE k \in DOMAIN q
    BY <1>2, <2>1 DEF Follows, Consecutive
  <2>2. CASE k = l + 1
    <3>1. i \in DOMAIN q /\ IsAlert(q[i]) /\ r[k] = e /\ r[i] = q[i] /\ k - 1 = l
      BY <1>2, <2>2
    <3>2. r[i].seq < r[k].seq
      BY <1>3, <3>1
    <3>3. \A n \in q[i].seq..L : IsComing(q, L, {L}, n)
      BY <3>1 DEF Follows, AllComing
    <3>4. ASSUME NEW n \in r[i].seq..(r[k].seq - 1) PROVE AmongFirst(r, n, k - 1)
      <4>1. n \in q[i].seq..L /\ n # L
        BY <1>3, <3>1
      <4> QED
        BY <1>2, <1>5, <3>1, <3>3, <4>1
    <3> QED
      BY <3>2, <3>4
  <2> QED
    BY <1>2, <2>1, <2>2
<1>10. GivenInTurn(c, s, r)
  <2> SUFFICES ASSUME ~Unsure(c, s), NEW k \in DOMAIN r, IsAlert(r[k]),
                      NEW n \in (Reached(c, s) + 1)..(r[k].seq - 1)
               PROVE  n \in Pending(s) \/ AmongFirst(r, n, k - 1)
    BY DEF GivenInTurn
  <2>1. CASE k \in DOMAIN q
    BY <1>2, <2>1 DEF Follows, GivenInTurn
  <2>2. CASE k = l + 1
    <3>1. n \in (Reached(c, s) + 1)..L /\ n # L /\ k - 1 = l
      BY <1>2, <1>8, <2>2
    <3> QED
      BY <1>2, <1>5, <3>1 DEF Follows, AllComing
  <2> QED
    BY <1>2, <2>1, <2>2
<1>11. AllComing(c, s, r, L, {})
  <2>1. \A n : IsComing(q, L, {L}, n) => IsComing(r, L, {}, n)
    BY <1>2, <1>5, <1>6, <1>7 DEF IsComing
  <2>2. ASSUME NEW k \in DOMAIN r, IsAlert(r[k]), NEW n \in r[k].seq..L
        PROVE  IsComing(r, L, {}, n)
    <3>1. CASE k \in DOMAIN q
      BY <1>2, <2>1, <2>2, <3>1 DEF Follows, AllComing
    <3>2. CASE k = l + 1
      BY <1>2, <1>6, <2>2, <3>2 DEF IsComing
    <3> QED
      BY <1>2, <3>1, <3>2
  <2> QED
    BY <2>1, <2>2 DEF Follows, AllComing
<1>12. Follows(c, s, r, TRUE, L, {})
  BY <1>9, <1>10, <1>11 DEF Follows
<1> QED
  BY <1>4, <1>12 DEF r

(* Another event in the queue changes nothing.                             *)
LEMMA OtherEventFollows ==
  ASSUME NEW c, NEW s, NEW q, NEW L, NEW hears \in BOOLEAN, NEW told,
         NEW e \in AlertEvent, ~IsAlert(e),
         Possible(c, s, q, L), Follows(c, s, q, hears, L, told)
  PROVE  Possible(c, s, Append(q, e), L) /\ Follows(c, s, Append(q, e), hears, L, told)
<1> DEFINE r == Append(q, e)
<1> DEFINE l == Len(q)
<1>1. q \in Seq(AlertEvent)
  BY DEF Possible
<1>2. /\ r \in Seq(AlertEvent) /\ l \in Nat /\ Len(r) = l + 1
      /\ DOMAIN q = 1..l /\ DOMAIN r = 1..(l + 1)
      /\ \A i \in DOMAIN q : r[i] = q[i]
      /\ r[l + 1] = e
      /\ \A n, k : AmongFirst(q, n, k) => AmongFirst(r, n, k)
  BY <1>1, Appended
<1> HIDE DEF r
<1>3. \A k \in DOMAIN r : IsAlert(r[k]) => k \in DOMAIN q /\ r[k] = q[k]
  BY <1>2
<1>4. Possible(c, s, r, L)
  BY <1>2, <1>3 DEF Possible
<1>5. \A n : AmongFirst(q, n, l) => AmongFirst(r, n, l + 1)
  BY <1>2 DEF AmongFirst
<1>6. \A n : IsComing(q, L, told, n) => IsComing(r, L, told, n)
  BY <1>2, <1>5 DEF IsComing
<1>7. Consecutive(r)
  BY <1>2, <1>3 DEF Follows, Consecutive
<1>8. GivenInTurn(c, s, r)
  BY <1>2, <1>3 DEF Follows, GivenInTurn
<1>9. AllComing(c, s, q, L, told) => AllComing(c, s, r, L, told)
  BY <1>3, <1>6 DEF AllComing
<1>10. Follows(c, s, r, hears, L, told)
  BY <1>3, <1>7, <1>8, <1>9 DEF Follows
<1> QED
  BY <1>4, <1>10 DEF r

-----------------------------------------------------------------------------
(* The alerts of a restaurant: what a panel asks for and hears, as values *)

(* The count of what is unread says nothing of what a panel holds.         *)
LEMMA SameFollows ==
  ASSUME NEW c, NEW d \in Held, NEW s, NEW q, NEW L, NEW hears \in BOOLEAN, NEW told,
         Possible(c, s, q, L), Follows(c, s, q, hears, L, told),
         d.latest = c.latest, d.base = c.base, d.seen = c.seen
  PROVE  Possible(d, s, q, L) /\ Follows(d, s, q, hears, L, told) /\ Shown(d, s) = Shown(c, s)
<1>1. Unsure(d, s) = Unsure(c, s) /\ Reached(d, s) = Reached(c, s)
  BY DEF Unsure, Reached
<1> QED
  BY <1>1 DEF Possible, Follows, HasAll, GivenInTurn, AllComing, Shown

(* Summary: the count is read.                                             *)
LEMMA CountFollows ==
  ASSUME NEW c, NEW s, NEW q, NEW L, NEW hears \in BOOLEAN, NEW told,
         Possible(c, s, q, L), Follows(c, s, q, hears, L, told), s.pc = "count",
         NEW t \in Asking, t.pc = "latest"
  PROVE  Possible(c, t, q, L) /\ Follows(c, t, q, hears, L, told) /\ Shown(c, t) = Shown(c, s)
<1>1. Pending(t) = {} /\ Pending(s) = {} /\ Unsure(c, t) = Unsure(c, s) /\ Reached(c, t) = Reached(c, s)
  BY DEF Pending, Unsure, Reached
<1>2. Possible(c, t, q, L)
  BY <1>1 DEF Possible
<1>3. Follows(c, t, q, hears, L, told)
  BY <1>1 DEF Follows, HasAll, GivenInTurn, AllComing
<1> QED
  BY <1>1, <1>2, <1>3 DEF Shown

(* Summary: the latest number is read; what comes after it is not told yet *)
(* or in the queue.                                                        *)
LEMMA LatestFollows ==
  ASSUME NEW c, NEW s, NEW q, NEW L, NEW hears \in BOOLEAN, NEW told,
         Possible(c, s, q, L), Follows(c, s, q, hears, L, told), s.pc = "latest",
         NEW t \in Asking, t.pc = "summary", t.latest = L
  PROVE  Possible(c, t, q, L) /\ Follows(c, t, q, hears, L, told) /\ Shown(c, t) = Shown(c, s)
<1>1. L \in Nat /\ c.latest \in Nat
  BY NumbersOf
<1>2. /\ Pending(t) = {} /\ Pending(s) = {}
      /\ ~Unsure(c, t) /\ (c.latest # 0 => ~Unsure(c, s) /\ Reached(c, t) = Reached(c, s))
      /\ (c.latest = 0 => Reached(c, t) = L)
  BY DEF Pending, Unsure, Reached
<1>3. Possible(c, t, q, L)
  BY <1>1, <1>2 DEF Possible
<1>4. HasAll(c, t)
  BY <1>2 DEF Follows, HasAll
<1>5. GivenInTurn(c, t, q)
  <2>1. CASE c.latest = 0
    <3>1. \A k \in DOMAIN q : IsAlert(q[k]) => (L + 1)..(q[k].seq - 1) = {}
      BY <1>1 DEF Possible
    <3> QED
      BY <1>2, <2>1, <3>1 DEF GivenInTurn
  <2>2. CASE c.latest # 0
    BY <1>2, <2>2 DEF Follows, GivenInTurn
  <2> QED
    BY <2>1, <2>2
<1>6. hears => AllComing(c, t, q, L, told)
  <2>1. (L + 1)..L = {}
    BY <1>1
  <2> QED
    BY <1>2, <2>1 DEF Follows, AllComing
<1>7. Follows(c, t, q, hears, L, told)
  BY <1>4, <1>5, <1>6 DEF Follows
<1> QED
  BY <1>2, <1>3, <1>7 DEF Shown

(* A page: the count is read after the items.                              *)
LEMMA UnreadFollows ==
  ASSUME NEW c, NEW s, NEW q, NEW L, NEW hears \in BOOLEAN, NEW told,
         Possible(c, s, q, L), Follows(c, s, q, hears, L, told), s.pc = "listed",
         NEW t \in Asking, t.pc = "list", t.items = s.items
  PROVE  Possible(c, t, q, L) /\ Follows(c, t, q, hears, L, told) /\ Shown(c, t) = Shown(c, s)
<1>1. Pending(t) = Pending(s) /\ Unsure(c, t) = Unsure(c, s) /\ Reached(c, t) = Reached(c, s)
  BY DEF Pending, Unsure, Reached
<1>2. Possible(c, t, q, L)
  BY <1>1 DEF Possible
<1>3. Follows(c, t, q, hears, L, told)
  BY <1>1 DEF Follows, HasAll, GivenInTurn, AllComing
<1> QED
  BY <1>1, <1>2, <1>3 DEF Shown

(* refreshSummary: the panel starts after the latest number, unless a live *)
(* alert has given it one.                                                 *)
LEMMA SummaryFollows ==
  ASSUME NEW c, NEW d \in Held, NEW s, NEW q, NEW L, NEW hears \in BOOLEAN, NEW told,
         Possible(c, s, q, L), Follows(c, s, q, hears, L, told), s.pc = "summary",
         d.seen = c.seen,
         c.latest = 0 => d.latest = s.latest /\ d.base = s.latest,
         c.latest # 0 => d.latest = c.latest /\ d.base = c.base
  PROVE  Possible(d, Idle, q, L) /\ Follows(d, Idle, q, hears, L, told)
         /\ Shown(c, s) \subseteq Shown(d, Idle)
<1>1. /\ L \in Nat /\ c.latest \in Nat /\ c.base \in Nat /\ s.latest \in Nat
      /\ c.base <= c.latest /\ s.latest <= L
  <2>1. L \in Nat /\ c.latest \in Nat /\ c.base \in Nat /\ s.latest \in Nat
    BY NumbersOf
  <2>2. c.base <= c.latest /\ s.latest <= L
    BY DEF Possible
  <2> QED
    BY <2>1, <2>2
<1>2. /\ Pending(s) = {} /\ Pending(Idle) = {} /\ ~Unsure(c, s) /\ ~Unsure(d, Idle)
      /\ Reached(d, Idle) = Reached(c, s)
  BY DEF Pending, Unsure, Reached, Idle
<1>3. Possible(d, Idle, q, L)
  BY <1>1, <1>2 DEF Possible, Asking, Idle
<1>4. HasAll(d, Idle)
  <2>1. (d.latest + 1)..d.latest = {}
    BY <1>1
  <2> QED
    BY <1>2, <2>1 DEF Follows, HasAll
<1>5. Follows(d, Idle, q, hears, L, told)
  BY <1>2, <1>4 DEF Follows, GivenInTurn, AllComing
<1>6. 1..c.base \subseteq 1..d.base
  BY <1>1
<1> QED
  BY <1>2, <1>3, <1>5, <1>6 DEF Shown

(* What a page brings is held, and the largest number is kept.             *)
LEMMA ListFollows ==
  ASSUME NEW c, NEW d \in Held, NEW s, NEW q, NEW L, NEW hears \in BOOLEAN, NEW told,
         Possible(c, s, q, L), Follows(c, s, q, hears, L, told), s.pc = "list",
         d.seen = c.seen \cup s.items, d.base = c.base,
         d.latest \in {c.latest} \cup s.items, d.latest >= c.latest,
         \A n \in s.items : n <= d.latest
  PROVE  Possible(d, Idle, q, L) /\ Follows(d, Idle, q, hears, L, told)
         /\ Shown(c, s) \subseteq Shown(d, Idle)
<1>1. /\ L \in Nat /\ c.latest \in Nat /\ c.base \in Nat /\ c.latest > 0
      /\ c.base <= c.latest /\ c.latest <= L /\ s.items \in SUBSET (1..L)
  BY NumbersOf DEF Possible, Pending
<1>2. /\ Pending(s) = s.items /\ Pending(Idle) = {} /\ ~Unsure(c, s) /\ ~Unsure(d, Idle)
      /\ Reached(d, Idle) = d.latest /\ Reached(c, s) = c.latest /\ d.latest \in Nat /\ d.latest <= L
  BY <1>1 DEF Pending, Unsure, Reached, Idle
<1>3. Possible(d, Idle, q, L)
  BY <1>1, <1>2 DEF Possible, Asking, Idle
<1>4. HasAll(d, Idle)
  <2>1. ASSUME NEW n \in (d.base + 1)..d.latest PROVE n \in d.seen
    <3>1. CASE n <= c.latest
      BY <1>1, <1>2, <3>1 DEF Follows, HasAll
    <3>2. CASE n > c.latest
      <4>1. d.latest \in s.items /\ n \in (c.latest + 1)..d.latest
        BY <1>1, <1>2, <3>2
      <4> QED
        BY <1>2, <4>1 DEF Follows, HasAll
    <3> QED
      BY <1>1, <1>2, <3>1, <3>2
  <2> QED
    BY <1>2, <2>1 DEF HasAll
<1>5. GivenInTurn(d, Idle, q)
  <2> SUFFICES ASSUME NEW k \in DOMAIN q, IsAlert(q[k]), NEW n \in (d.latest + 1)..(q[k].seq - 1)
               PROVE  AmongFirst(q, n, k - 1)
    BY <1>2 DEF GivenInTurn
  <2>1. q[k].seq \in Nat
    BY DEF Possible
  <2>2. n \in (c.latest + 1)..(q[k].seq - 1) /\ n \notin s.items
    BY <1>1, <1>2, <2>1
  <2> QED
    BY <1>2, <2>2 DEF Follows, GivenInTurn
<1>6. hears => AllComing(d, Idle, q, L, told)
  <2> SUFFICES ASSUME hears, NEW n \in (d.latest + 1)..L PROVE IsComing(q, L, told, n)
    BY <1>2 DEF Follows, AllComing
  <2>1. n \in (c.latest + 1)..L /\ n \notin s.items
    BY <1>1, <1>2
  <2> QED
    BY <1>2, <2>1 DEF Follows, AllComing
<1>7. Follows(d, Idle, q, hears, L, told)
  BY <1>4, <1>5, <1>6 DEF Follows
<1> QED
  BY <1>2, <1>3, <1>7 DEF Shown

(* sync: everything after the last number held is asked for.               *)
LEMMA AskFollows ==
  ASSUME NEW c, NEW q, NEW hears \in BOOLEAN, NEW told,
         Possible(c, Idle, q, Latest), Follows(c, Idle, q, hears, Latest, told)
  PROVE  /\ Possible(c, Asked(c), q, Latest) /\ Follows(c, Asked(c), q, hears, Latest, told)
         /\ Possible(c, Asked(c), <<>>, Latest) /\ Follows(c, Asked(c), <<>>, TRUE, Latest, told)
         /\ Shown(c, Idle) \subseteq Shown(c, Asked(c))
<1> DEFINE s == Asked(c)
<1> DEFINE items == {n \in 1..Latest : n > c.latest}
<1>1. /\ Latest \in Nat /\ c.latest \in Nat /\ c.base \in Nat
      /\ c.base <= c.latest /\ c.latest <= Latest
  BY NumbersOf DEF Possible
<1>2. Pending(Idle) = {} /\ ~Unsure(c, Idle) /\ Reached(c, Idle) = c.latest
  BY DEF Pending, Unsure, Reached, Idle
<1>3. /\ s \in Asking /\ s.pc # "summary"
      /\ c.latest = 0 => s.pc = "count" /\ Pending(s) = {}
      /\ c.latest # 0 => s.pc = "listed" /\ Pending(s) = items
  BY <1>1 DEF Asked, Asking, Pending
<1>4. (c.latest = 0 => Unsure(c, s)) /\ (c.latest # 0 => ~Unsure(c, s)) /\ Reached(c, s) = c.latest
  BY <1>3 DEF Unsure, Reached
<1> HIDE DEF s
<1>5. /\ \A r : Possible(c, Idle, r, Latest) => Possible(c, s, r, Latest)
      /\ Possible(c, Idle, <<>>, Latest)
  BY <1>1, <1>3 DEF Possible
<1>6. HasAll(c, s)
  BY <1>1, <1>2, <1>3 DEF Follows, HasAll
<1>7. ASSUME NEW r, Possible(c, Idle, r, Latest) PROVE GivenInTurn(c, s, r)
  <2> SUFFICES ASSUME c.latest # 0, NEW k \in DOMAIN r, IsAlert(r[k]),
                      NEW n \in (c.latest + 1)..(r[k].seq - 1)
               PROVE  n \in items
    BY <1>3, <1>4 DEF GivenInTurn
  <2>1. r[k].seq \in 1..Latest
    BY <1>7 DEF Possible
  <2> QED
    BY <1>1, <2>1
<1>8. c.latest # 0 => \A n \in (c.latest + 1)..Latest : n \in Pending(s)
  BY <1>1, <1>3
<1>9. Follows(c, s, q, hears, Latest, told)
  BY <1>4, <1>6, <1>7, <1>8 DEF Follows, AllComing
<1>10. Follows(c, s, <<>>, TRUE, Latest, told)
  BY <1>4, <1>5, <1>6, <1>7, <1>8 DEF Follows, AllComing, Consecutive
<1> QED
  BY <1>2, <1>3, <1>5, <1>9, <1>10 DEF Shown, s

(* What is left of a queue when its head goes to the device.               *)
LEMMA Drops ==
  ASSUME NEW q \in Seq(AlertEvent), q # <<>>
  PROVE  /\ Tail(q) \in Seq(AlertEvent) /\ Len(q) \in Nat \ {0}
         /\ Head(q) = q[1] /\ q[1] \in AlertEvent
         /\ DOMAIN q = 1..Len(q) /\ Len(Tail(q)) = Len(q) - 1
         /\ DOMAIN Tail(q) = 1..(Len(q) - 1)
         /\ \A i \in DOMAIN Tail(q) : Tail(q)[i] = q[i + 1]
         /\ \A n : \A k \in Int : AmongFirst(q, n, k) =>
              (IsAlert(q[1]) /\ q[1].seq = n) \/ AmongFirst(Tail(q), n, k - 1)
<1>1. /\ Tail(q) \in Seq(AlertEvent) /\ Len(q) \in Nat \ {0}
      /\ Head(q) = q[1] /\ q[1] \in AlertEvent
      /\ DOMAIN q = 1..Len(q) /\ Len(Tail(q)) = Len(q) - 1
      /\ DOMAIN Tail(q) = 1..(Len(q) - 1)
      /\ \A i \in 1..(Len(q) - 1) : Tail(q)[i] = q[i + 1]
  BY HeadTailProperties, LenProperties, EmptySeq
<1>2. ASSUME NEW n, NEW k \in Int, AmongFirst(q, n, k), ~(IsAlert(q[1]) /\ q[1].seq = n)
      PROVE  AmongFirst(Tail(q), n, k - 1)
  <2>1. PICK j \in DOMAIN q : j <= k /\ IsAlert(q[j]) /\ q[j].seq = n
    BY <1>2 DEF AmongFirst
  <2>2. j # 1
    BY <1>2, <2>1
  <2>3. j - 1 \in DOMAIN Tail(q) /\ Tail(q)[j - 1] = q[j] /\ j - 1 <= k - 1
    BY <1>1, <2>1, <2>2
  <2> QED
    BY <2>1, <2>3 DEF AmongFirst
<1> QED
  BY <1>1, <1>2

(* What follows in the queue follows the event that is heard now.          *)
LEMMA Rest ==
  ASSUME NEW q \in Seq(AlertEvent), q # <<>>, Consecutive(q)
  PROVE  /\ Consecutive(Tail(q))
         /\ IsAlert(q[1]) => \A k \in DOMAIN Tail(q) : IsAlert(Tail(q)[k]) =>
              /\ q[1].seq < Tail(q)[k].seq
              /\ \A n \in (q[1].seq + 1)..(Tail(q)[k].seq - 1) : AmongFirst(Tail(q), n, k - 1)
<1> DEFINE r == Tail(q)
<1>1. /\ r \in Seq(AlertEvent) /\ Len(q) \in Nat \ {0}
      /\ DOMAIN q = 1..Len(q) /\ DOMAIN r = 1..(Len(q) - 1)
      /\ \A i \in DOMAIN r : r[i] = q[i + 1]
      /\ \A n : \A k \in Int : AmongFirst(q, n, k) =>
              (IsAlert(q[1]) /\ q[1].seq = n) \/ AmongFirst(r, n, k - 1)
  BY Drops
<1>2. \A i \in DOMAIN q : q[i].seq \in Nat
  <2>1. \A i \in 1..Len(q) : q[i] \in AlertEvent
    BY ElementOfSeq
  <2> QED
    BY <1>1, <2>1 DEF AlertEvent
<1> HIDE DEF r
<1>3. ASSUME NEW i \in DOMAIN r, NEW k \in DOMAIN r, i < k, IsAlert(r[i]), IsAlert(r[k])
      PROVE  r[i].seq < r[k].seq /\ \A n \in r[i].seq..(r[k].seq - 1) : AmongFirst(r, n, k - 1)
  <2>1. /\ i + 1 \in DOMAIN q /\ k + 1 \in DOMAIN q /\ i + 1 < k + 1 /\ 1 \in DOMAIN q /\ 1 < i + 1
        /\ r[i] = q[i + 1] /\ r[k] = q[k + 1] /\ k \in Int
    BY <1>1, <1>3
  <2>2. /\ q[i + 1].seq < q[k + 1].seq
        /\ \A n \in q[i + 1].seq..(q[k + 1].seq - 1) : AmongFirst(q, n, (k + 1) - 1)
    BY <1>3, <2>1 DEF Consecutive
  <2>3. ASSUME NEW n \in q[i + 1].seq..(q[k + 1].seq - 1) PROVE AmongFirst(r, n, k - 1)
    <3>1. IsAlert(q[1]) => q[1].seq < q[i + 1].seq
      BY <1>3, <2>1 DEF Consecutive
    <3>2. ~(IsAlert(q[1]) /\ q[1].seq = n)
      BY <1>2, <2>1, <3>1
    <3>3. (k + 1) - 1 = k
      BY <2>1
    <3> QED
      BY <1>1, <2>1, <2>2, <3>2, <3>3
  <2> QED
    BY <2>1, <2>2, <2>3
<1>4. ASSUME IsAlert(q[1]), NEW k \in DOMAIN r, IsAlert(r[k])
      PROVE  /\ q[1].seq < r[k].seq
             /\ \A n \in (q[1].seq + 1)..(r[k].seq - 1) : AmongFirst(r, n, k - 1)
  <2>1. k + 1 \in DOMAIN q /\ 1 \in DOMAIN q /\ 1 < k + 1 /\ r[k] = q[k + 1] /\ k \in Int /\ (k + 1) - 1 = k
    BY <1>1
  <2>2. q[1].seq < r[k].seq /\ \A n \in q[1].seq..(r[k].seq - 1) : AmongFirst(q, n, k)
    BY <1>4, <2>1 DEF Consecutive
  <2>3. ASSUME NEW n \in (q[1].seq + 1)..(r[k].seq - 1) PROVE AmongFirst(r, n, k - 1)
    <3>1. n \in q[1].seq..(r[k].seq - 1) /\ n # q[1].seq
      BY <1>2, <2>1
    <3> QED
      BY <1>1, <2>1, <2>2, <3>1
  <2> QED
    BY <2>2, <2>3
<1> QED
  BY <1>3, <1>4 DEF Consecutive, r

(* A live alert is held; it is the next one, or the first, or a page with  *)
(* those before it is on its way.                                          *)
LEMMA HearFollows ==
  ASSUME NEW c, NEW d \in Held, NEW s, NEW q, NEW L, NEW hears \in BOOLEAN, NEW told,
         Possible(c, s, q, L), Follows(c, s, q, hears, L, told), told \subseteq {L},
         q # <<>>, IsAlert(q[1]),
         d.seen = c.seen \cup {q[1].seq},
         d.base = IF c.latest = 0 THEN q[1].seq - 1 ELSE c.base,
         d.latest = IF q[1].seq > c.latest THEN q[1].seq ELSE c.latest
  PROVE  Possible(d, s, Tail(q), L) /\ Follows(d, s, Tail(q), hears, L, told)
         /\ Shown(c, s) \subseteq Shown(d, s)
<1> DEFINE r == Tail(q)
<1> DEFINE n0 == q[1].seq
<1>1. /\ L \in Nat /\ c.latest \in Nat /\ c.base \in Nat /\ c.base <= c.latest /\ c.latest <= L
      /\ c.seen \in SUBSET (1..L) /\ q \in Seq(AlertEvent)
      /\ Reached(c, s) \in Nat /\ (s.pc = "summary" => s.latest \in Nat)
  <2>1. /\ L \in Nat /\ c.latest \in Nat /\ c.base \in Nat /\ c.seen \in SUBSET (1..L)
        /\ Reached(c, s) \in Nat /\ (s.pc = "summary" => s.latest \in Nat)
    BY NumbersOf
  <2>2. c.base <= c.latest /\ c.latest <= L /\ q \in Seq(AlertEvent)
    BY DEF Possible
  <2> QED
    BY <2>1, <2>2
<1>2. /\ r \in Seq(AlertEvent) /\ Len(q) \in Nat \ {0}
      /\ DOMAIN q = 1..Len(q) /\ Len(r) = Len(q) - 1 /\ DOMAIN r = 1..(Len(q) - 1)
      /\ \A i \in DOMAIN r : r[i] = q[i + 1]
      /\ \A n : \A k \in Int : AmongFirst(q, n, k) =>
              (IsAlert(q[1]) /\ q[1].seq = n) \/ AmongFirst(r, n, k - 1)
  BY <1>1, Drops
<1>3. /\ Consecutive(r)
      /\ \A k \in DOMAIN r : IsAlert(r[k]) =>
              /\ n0 < r[k].seq
              /\ \A n \in (n0 + 1)..(r[k].seq - 1) : AmongFirst(r, n, k - 1)
  BY <1>1, Rest DEF Follows
<1>4. n0 \in 1..L /\ 1 \in DOMAIN q /\ \A k \in DOMAIN q : IsAlert(q[k]) => q[k].seq \in 1..L
  BY <1>2 DEF Possible
<1>5. \A n : ~AmongFirst(q, n, 0)
  BY <1>2 DEF AmongFirst
<1> HIDE DEF r
<1>6. Possible(d, s, r, L)
  <2>1. d.base <= d.latest /\ d.latest <= L /\ d.latest > 0 /\ d.seen \subseteq 1..L
    BY <1>1, <1>4
  <2>2. \A k \in DOMAIN r : IsAlert(r[k]) => r[k].seq \in 1..L
    BY <1>2, <1>4
  <2> QED
    BY <1>2, <2>1, <2>2 DEF Possible
<1>7. ~Unsure(d, s) /\ Reached(d, s) = d.latest /\ d.latest \in Nat /\ d.latest >= n0 /\ n0 \in Nat
  BY <1>1, <1>4 DEF Unsure, Reached
<1>8. \A n \in (c.latest + 1)..(n0 - 1) : c.latest # 0 => n \in Pending(s)
  <2> SUFFICES ASSUME NEW n \in (c.latest + 1)..(n0 - 1), c.latest # 0 PROVE n \in Pending(s)
    OBVIOUS
  <2>1. ~Unsure(c, s) /\ Reached(c, s) = c.latest
    BY DEF Unsure, Reached
  <2>2. n \in Pending(s) \/ AmongFirst(q, n, 1 - 1)
    BY <1>4, <2>1 DEF Follows, GivenInTurn
  <2> QED
    BY <1>5, <2>2
<1>9. HasAll(d, s)
  <2>1. ASSUME NEW n \in (d.base + 1)..d.latest PROVE n \in d.seen \cup Pending(s)
    <3>1. CASE c.latest = 0
      <4>1. n = n0
        BY <1>4, <3>1
      <4> QED
        BY <4>1
    <3>2. CASE c.latest # 0 /\ n <= c.latest
      BY <1>1, <1>4, <3>2 DEF Follows, HasAll
    <3>3. CASE c.latest # 0 /\ n > c.latest
      <4>1. n = n0 \/ n \in (c.latest + 1)..(n0 - 1)
        BY <1>1, <1>4, <3>3
      <4> QED
        BY <1>8, <3>3, <4>1
    <3> QED
      BY <1>1, <1>4, <3>1, <3>2, <3>3
  <2>2. ASSUME NEW n \in Pending(s), NEW m \in (d.latest + 1)..n PROVE m \in Pending(s)
    <3>1. n \in 1..L /\ m \in (c.latest + 1)..n
      BY <1>1, <1>4 DEF Possible
    <3> QED
      BY <3>1 DEF Follows, HasAll
  <2> QED
    BY <2>1, <2>2 DEF HasAll
<1>10. GivenInTurn(d, s, r)
  <2> SUFFICES ASSUME NEW k \in DOMAIN r, IsAlert(r[k]), NEW n \in (d.latest + 1)..(r[k].seq - 1)
               PROVE  AmongFirst(r, n, k - 1)
    BY <1>7 DEF GivenInTurn
  <2>1. r[k].seq \in Nat
    BY <1>2, <1>4
  <2>2. n \in (n0 + 1)..(r[k].seq - 1)
    BY <1>7, <2>1
  <2> QED
    BY <1>3, <2>2
<1>11. \A n : n # n0 /\ IsComing(q, L, told, n) => IsComing(r, L, told, n)
  BY <1>2 DEF IsComing
<1>12. hears => AllComing(d, s, r, L, told)
  <2> SUFFICES ASSUME hears PROVE AllComing(d, s, r, L, told)
    OBVIOUS
  <2>1. \A n \in (n0 + 1)..L : IsComing(r, L, told, n)
    <3> SUFFICES ASSUME NEW n \in (n0 + 1)..L PROVE IsComing(r, L, told, n)
      OBVIOUS
    <3>1. n \in n0..L /\ n # n0
      BY <1>4
    <3>2. IsComing(q, L, told, n)
      BY <1>4, <3>1 DEF Follows, AllComing
    <3> QED
      BY <1>11, <3>1, <3>2
  <2>2. \A k \in DOMAIN r : IsAlert(r[k]) => \A n \in r[k].seq..L : n \in (n0 + 1)..L
    BY <1>2, <1>3, <1>4
  <2>3. \A n \in (d.latest + 1)..L : n \in (n0 + 1)..L
    BY <1>1, <1>7
  <2> QED
    BY <1>7, <2>1, <2>2, <2>3 DEF AllComing
<1>13. \A k \in DOMAIN r : IsAlert(r[k]) => r[k].seq \notin told
  BY <1>2 DEF Follows
<1>14. Follows(d, s, r, hears, L, told)
  BY <1>3, <1>9, <1>10, <1>12, <1>13 DEF Follows
<1>15. Shown(c, s) \subseteq Shown(d, s)
  <2>1. 1..c.base \subseteq 1..d.base
    BY <1>1, <1>4
  <2> QED
    BY <2>1 DEF Shown
<1> QED
  BY <1>6, <1>14, <1>15 DEF r

(* Another event is heard: nothing changes but the count.                  *)
LEMMA OtherHeardFollows ==
  ASSUME NEW c, NEW s, NEW q, NEW L, NEW hears \in BOOLEAN, NEW told,
         Possible(c, s, q, L), Follows(c, s, q, hears, L, told),
         q # <<>>, ~IsAlert(q[1])
  PROVE  Possible(c, s, Tail(q), L) /\ Follows(c, s, Tail(q), hears, L, told)
<1> DEFINE r == Tail(q)
<1>1. q \in Seq(AlertEvent)
  BY DEF Possible
<1>2. /\ r \in Seq(AlertEvent) /\ Len(q) \in Nat \ {0}
      /\ DOMAIN q = 1..Len(q) /\ Len(r) = Len(q) - 1 /\ DOMAIN r = 1..(Len(q) - 1)
      /\ \A i \in DOMAIN r : r[i] = q[i + 1]
      /\ \A n : \A k \in Int : AmongFirst(q, n, k) => AmongFirst(r, n, k - 1)
  BY <1>1, Drops
<1>3. Consecutive(r)
  BY <1>1, Rest DEF Follows
<1> HIDE DEF r
<1>4. \A k \in DOMAIN r : k + 1 \in DOMAIN q /\ r[k] = q[k + 1] /\ k \in Int /\ (k + 1) - 1 = k
  BY <1>2
<1>5. Possible(c, s, r, L)
  BY <1>2, <1>4 DEF Possible
<1>6. GivenInTurn(c, s, r)
  <2> SUFFICES ASSUME ~Unsure(c, s), NEW k \in DOMAIN r, IsAlert(r[k]),
                      NEW n \in (Reached(c, s) + 1)..(r[k].seq - 1)
               PROVE  n \in Pending(s) \/ AmongFirst(r, n, k - 1)
    BY DEF GivenInTurn
  <2>1. n \in Pending(s) \/ AmongFirst(q, n, (k + 1) - 1)
    BY <1>4 DEF Follows, GivenInTurn
  <2> QED
    BY <1>2, <1>4, <2>1
<1>7. \A n : IsComing(q, L, told, n) => IsComing(r, L, told, n)
  BY <1>2 DEF IsComing
<1>8. hears => AllComing(c, s, r, L, told)
  BY <1>4, <1>7 DEF Follows, AllComing
<1>9. Follows(c, s, r, hears, L, told)
  BY <1>3, <1>4, <1>6, <1>8 DEF Follows
<1> QED
  BY <1>5, <1>9 DEF r

-----------------------------------------------------------------------------
(* The alerts of a restaurant: what is stored, and what panels are told *)

Publishing == {[pc |-> "due"], [pc |-> "done"]} \cup [pc : {"tell"}, seq : Nat]
Marking == {Idle} \cup [pc : {"sent"}, all : BOOLEAN, seq : Nat]
                  \cup [pc : {"tell"}, changed : BOOLEAN] \cup [pc : {"answer"}, unread : Nat]
Sockets == {"off", "rising", "open", "stopped", "gone"}

(* What is stored, whatever goes wrong.                                    *)
AlertsStored == alerts \in Seq(Entry) /\ OneAlertPerEvent

PanelShape == /\ publish \in [Source -> Publishing]
              /\ center \in [Center -> Held] /\ sync \in [Center -> Asking]
              /\ reading \in [Center -> Marking]
              /\ socket \in [Device -> Sockets] /\ out \in [Device -> Seq(AlertEvent)]

(* The numbers that are stored and not told yet: the last one at most.     *)
BeingTold == {publish[s].seq : s \in {t \in Source : publish[t].pc = "tell"}}
OneTold == /\ BeingTold \subseteq {Latest} \ {0}
           /\ \A s, t \in Source : publish[s].pc = "tell" /\ publish[t].pc = "tell" => s = t

PanelFollows(p) ==
  /\ Possible(center[p], sync[p], out[p], Latest)
  /\ Follows(center[p], sync[p], out[p], socket[p] \in {"rising", "open"}, Latest, BeingTold)

(* What a panel has asked to be marked has been given to it.               *)
Marks(m) == IF m.all THEN 1..m.seq ELSE {m.seq}
MarksShown(p) == reading[p].pc = "sent" => Marks(reading[p]) \subseteq Shown(center[p], sync[p])

ReadIsShown == \A n \in 1..Latest : alerts[n].read /\ alerts[n].key # Before =>
                 \E p \in Center : n \in Shown(center[p], sync[p])

Panels == PanelShape /\ OneTold /\ ReadIsShown /\ \A p \in Center : PanelFollows(p) /\ MarksShown(p)

AlertsIInv == AlertsStored /\ (upset = "none" => Panels)

(* The alerts are numbered, and the unread ones can be counted.            *)
LEMMA Counted ==
  ASSUME alerts \in Seq(Entry)
  PROVE  /\ Latest \in Nat /\ DOMAIN alerts = 1..Latest /\ Unread \in Nat
         /\ \A n \in 1..Latest : alerts[n] \in Entry
<1>1. Latest \in Nat /\ DOMAIN alerts = 1..Latest /\ \A n \in 1..Latest : alerts[n] \in Entry
  BY DEF Latest
<1>2. IsFiniteSet(1..Latest)
  BY <1>1, FS_Interval
<1>3. {n \in 1..Latest : ~alerts[n].read} \in SUBSET (1..Latest)
  OBVIOUS
<1> QED
  BY <1>1, <1>2, <1>3, FS_Subset, FS_CardinalityType DEF Unread

(* Nothing is upset by a step after which nothing is.                      *)
LEMMA NotUpset ==
  ASSUME NEW mishap \in {"rising", "overlap", "failed"}, NEW here \in BOOLEAN,
         Upset(mishap, here), upset' = "none"
  PROVE  upset = "none" /\ ~here
BY DEF Upset, Worse

(* A step of one panel: it follows as before, the others do not notice.    *)
LEMMA PanelMoves ==
  ASSUME Panels, NEW p \in Center, UNCHANGED <<alerts, publish>>,
         NEW c \in Held, NEW s \in Asking, NEW m \in Marking,
         center' = [center EXCEPT ![p] = c], sync' = [sync EXCEPT ![p] = s],
         reading' = [reading EXCEPT ![p] = m],
         socket' \in [Device -> Sockets], out' \in [Device -> Seq(AlertEvent)],
         \A q \in Center : q # p => out'[q] = out[q] /\ socket'[q] = socket[q],
         Possible(c, s, out'[p], Latest),
         Follows(c, s, out'[p], socket'[p] \in {"rising", "open"}, Latest, BeingTold),
         Shown(center[p], sync[p]) \subseteq Shown(c, s),
         m.pc = "sent" => m = reading[p] \/ Marks(m) \subseteq Shown(c, s)
  PROVE  Panels'
<1>1. PanelShape'
  BY DEF Panels, PanelShape
<1>2. Latest' = Latest /\ BeingTold' = BeingTold
  BY DEF Latest, BeingTold
<1>3. OneTold'
  BY <1>2 DEF Panels, OneTold
<1>4. /\ center'[p] = c /\ sync'[p] = s /\ reading'[p] = m
      /\ \A q \in Center : q # p => /\ center'[q] = center[q] /\ sync'[q] = sync[q]
                                    /\ reading'[q] = reading[q]
  BY DEF Panels, PanelShape
<1>5. \A q \in Center : Shown(center[q], sync[q]) \subseteq Shown(center'[q], sync'[q])
  BY <1>4
<1>6. ReadIsShown'
  BY <1>2, <1>5 DEF Panels, ReadIsShown
<1>7. ASSUME NEW q \in Center PROVE PanelFollows(q)' /\ MarksShown(q)'
  <2>1. CASE q = p
    <3>1. PanelFollows(p)'
      BY <1>2, <1>4 DEF PanelFollows
    <3>2. MarksShown(p)'
      <4>1. m = reading[p] => (m.pc = "sent" => Marks(m) \subseteq Shown(center[p], sync[p]))
        BY DEF Panels, MarksShown
      <4>2. m.pc = "sent" => Marks(m) \subseteq Shown(c, s)
        BY <4>1
      <4> QED
        BY <1>4, <4>2 DEF MarksShown
    <3> QED
      BY <2>1, <3>1, <3>2
  <2>2. CASE q # p
    <3>1. PanelFollows(q)'
      BY <1>2, <1>4, <2>2 DEF Panels, PanelFollows
    <3>2. MarksShown(q)'
      BY <1>4, <2>2 DEF Panels, MarksShown
    <3> QED
      BY <3>1, <3>2
  <2> QED
    BY <2>1, <2>2
<1> QED
  BY <1>1, <1>3, <1>6, <1>7 DEF Panels

(* What is told reaches every panel that goes on hearing; none is rising.  *)
LEMMA AlertTold ==
  ASSUME PanelShape, NEW e \in AlertEvent, TellAlerts(e), upset' = "none"
  PROVE  /\ upset = "none"
         /\ socket' \in [Device -> Sockets] /\ out' \in [Device -> Seq(AlertEvent)]
         /\ \A p \in Center :
              \/ /\ socket[p] = "open" /\ socket'[p] = "open" /\ out'[p] = Append(out[p], e)
              \/ socket'[p] \notin {"rising", "open"} /\ out'[p] = out[p]
<1> DEFINE told == [topic \in {ManagerTopic} |-> e]
<1>1. Send(told) /\ upset = "none" /\ ~CenterRises
  BY NotUpset DEF TellAlerts, CenterRises
<1>2. \A d \in Device : EventFor(d, told) = <<>> \/ EventFor(d, told) = <<e>>
  BY DEF EventFor
<1>3. \A p \in Center : EventFor(p, told) = <<e>>
  BY CentersHear DEF EventFor
<1> HIDE DEF told
<1>4. \A d \in Device : out[d] \in Seq(AlertEvent) /\ out[d] \o <<e>> = Append(out[d], e)
                        /\ Append(out[d], e) \in Seq(AlertEvent) /\ out[d] \o <<>> = out[d]
  <2> SUFFICES ASSUME NEW d \in Device
               PROVE  out[d] \in Seq(AlertEvent) /\ out[d] \o <<e>> = Append(out[d], e)
                      /\ Append(out[d], e) \in Seq(AlertEvent) /\ out[d] \o <<>> = out[d]
    OBVIOUS
  <2>1. out[d] \in Seq(AlertEvent)
    BY DEF PanelShape
  <2> QED
    BY <2>1, AppendIsConcat, AppendProperties, ConcatEmptySeq
<1>5. socket' \in [Device -> Sockets]
  BY <1>1 DEF Send, PanelShape, Sockets
<1>6. out' \in [Device -> Seq(AlertEvent)]
  BY <1>1, <1>2, <1>4 DEF Send
<1>7. ASSUME NEW p \in Center
      PROVE  \/ /\ socket[p] = "open" /\ socket'[p] = "open" /\ out'[p] = Append(out[p], e)
             \/ socket'[p] \notin {"rising", "open"} /\ out'[p] = out[p]
  <2>1. p \in Device /\ socket[p] # "rising"
    BY <1>1, AlertsAssumption DEF CenterRises
  <2>2. EventFor(p, told) # <<>>
    <3>1. <<e>> # <<>>
      OBVIOUS
    <3> QED
      BY <1>3, <3>1
  <2>3. /\ out'[p] = IF socket[p] = "open" /\ ~Full(p) THEN out[p] \o <<e>> ELSE out[p]
        /\ socket'[p] = IF socket[p] = "open" /\ Full(p) THEN "stopped" ELSE socket[p]
    BY <1>1, <1>3, <2>1, <2>2 DEF Send
  <2>4. out[p] \o <<e>> = Append(out[p], e)
    BY <1>4, <2>1
  <2>5. CASE socket[p] = "open" /\ ~Full(p)
    BY <2>3, <2>4, <2>5
  <2>6. CASE ~(socket[p] = "open" /\ ~Full(p))
    BY <2>1, <2>3, <2>6
  <2> QED
    BY <2>5, <2>6
<1> QED
  BY <1>1, <1>5, <1>6, <1>7

-----------------------------------------------------------------------------
(* The alerts of a restaurant: every step *)

(* An alert is stored under the lock, once for its key.                    *)
LEMMA PanelsInsert ==
  ASSUME AlertsStored, Panels, NEW src \in Source, InsertAlert(src)
  PROVE  Panels'
<1>1. Latest \in Nat /\ DOMAIN alerts = 1..Latest /\ \A n \in 1..Latest : alerts[n] \in Entry
  BY Counted DEF AlertsStored
<1>2. CASE Known(KeyOf[src])
  <2>1. /\ UNCHANGED <<alerts, center, sync, reading, socket, out>>
        /\ publish' = [publish EXCEPT ![src] = [pc |-> "done"]]
    BY <1>2 DEF InsertAlert, hubVars
  <2>2. \A t \in Source : publish'[t].pc = "tell" <=> publish[t].pc = "tell"
    BY <2>1 DEF InsertAlert, Panels, PanelShape
  <2>3. \A t \in Source : publish[t].pc = "tell" => publish'[t] = publish[t]
    BY <2>1 DEF InsertAlert, Panels, PanelShape
  <2>4. BeingTold' = BeingTold
    BY <2>2, <2>3 DEF BeingTold
  <2>5. Latest' = Latest
    BY <2>1 DEF Latest
  <2>6. PanelShape'
    BY <2>1 DEF Panels, PanelShape, Publishing
  <2>7. OneTold' /\ ReadIsShown' /\ \A p \in Center : PanelFollows(p)' /\ MarksShown(p)'
    BY <2>1, <2>2, <2>4, <2>5 DEF Panels, OneTold, ReadIsShown, PanelFollows, MarksShown
  <2> QED
    BY <2>6, <2>7 DEF Panels
<1>3. CASE ~Known(KeyOf[src])
  <2> DEFINE new == [key |-> KeyOf[src], read |-> FALSE]
  <2>1. /\ UNCHANGED <<center, sync, reading, socket, out>>
        /\ publish' = [publish EXCEPT ![src] = [pc |-> "tell", seq |-> Latest + 1]]
        /\ alerts' = Append(alerts, new)
        /\ \A t \in Source : publish[t].pc # "tell"
    BY <1>3 DEF InsertAlert, hubVars, AlertLockFree
  <2>2. new \in Entry
    BY DEF Entry
  <2>3. /\ Latest' = Latest + 1 /\ \A n \in 1..Latest : alerts'[n] = alerts[n]
        /\ alerts'[Latest + 1] = new
    <3> HIDE DEF new
    <3> QED
      BY <2>1, <2>2, AppendProperties DEF AlertsStored, Latest
  <2>4. BeingTold = {}
    BY <2>1 DEF BeingTold
  <2>5. PanelShape'
    BY <1>1, <2>1 DEF Panels, PanelShape, Publishing
  <2>6. /\ publish'[src] = [pc |-> "tell", seq |-> Latest + 1]
        /\ \A t \in Source : publish'[t].pc = "tell" <=> t = src
    BY <2>1 DEF Panels, PanelShape
  <2>7. BeingTold' = {Latest + 1}
    BY <2>6 DEF BeingTold
  <2>8. OneTold'
    BY <1>1, <2>3, <2>6, <2>7 DEF OneTold
  <2>9. ReadIsShown'
    <3> SUFFICES ASSUME NEW n \in 1..(Latest + 1), alerts'[n].read, alerts'[n].key # Before
                 PROVE  \E p \in Center : n \in Shown(center[p], sync[p])
      BY <2>1, <2>3 DEF ReadIsShown
    <3>1. n \in 1..Latest
      BY <1>1, <2>3
    <3> QED
      BY <2>3, <3>1 DEF Panels, ReadIsShown
  <2>10. ASSUME NEW p \in Center PROVE PanelFollows(p)'
    <3>1. Possible(center[p], sync[p], out[p], Latest)
      BY DEF Panels, PanelFollows
    <3>2. Follows(center[p], sync[p], out[p], socket[p] \in {"rising", "open"}, Latest, {})
      BY <2>4 DEF Panels, PanelFollows
    <3> DEFINE hears == socket[p] \in {"rising", "open"}
    <3> hears \in BOOLEAN
      OBVIOUS
    <3>3. /\ Possible(center[p], sync[p], out[p], Latest + 1)
          /\ Follows(center[p], sync[p], out[p], hears, Latest + 1, {Latest + 1})
      <4>1. Follows(center[p], sync[p], out[p], hears, Latest, {})
        BY <3>2
      <4> HIDE DEF hears
      <4> QED
        BY <3>1, <4>1, StoredFollows
    <3> QED
      BY <2>1, <2>3, <2>7, <3>3 DEF PanelFollows
  <2>11. \A p \in Center : MarksShown(p)'
    BY <2>1 DEF Panels, MarksShown
  <2> QED
    BY <2>5, <2>8, <2>9, <2>10, <2>11 DEF Panels
<1> QED
  BY <1>2, <1>3

(* The alert is told to everybody who hears.                               *)
LEMMA PanelsTellAlert ==
  ASSUME AlertsStored, Panels, NEW src \in Source, TellAlert(src), upset' = "none"
  PROVE  Panels'
<1>1. Latest \in Nat /\ Unread \in Nat
  BY Counted DEF AlertsStored
<1>2. PICK count \in {Unread, -1} :
        TellAlerts([kind |-> "alert", seq |-> publish[src].seq, unread |-> count])
  BY DEF TellAlert
<1> DEFINE e == [kind |-> "alert", seq |-> publish[src].seq, unread |-> count]
<1>3. publish[src].pc = "tell" /\ publish[src].seq \in BeingTold
  BY DEF TellAlert, BeingTold
<1>4. publish[src].seq = Latest /\ BeingTold = {Latest} /\ Latest \in Nat \ {0}
  BY <1>1, <1>3 DEF Panels, OneTold
<1>5. e \in AlertEvent /\ IsAlert(e) /\ e.seq = Latest
  BY <1>1, <1>4 DEF AlertEvent, IsAlert
<1>6. TellAlerts(e)
  BY <1>2
<1> HIDE DEF e
<1>7. /\ socket' \in [Device -> Sockets] /\ out' \in [Device -> Seq(AlertEvent)]
      /\ \A p \in Center :
           \/ /\ socket[p] = "open" /\ socket'[p] = "open" /\ out'[p] = Append(out[p], e)
           \/ socket'[p] \notin {"rising", "open"} /\ out'[p] = out[p]
  BY <1>5, <1>6, AlertTold DEF Panels
<1>8. /\ publish' = [publish EXCEPT ![src] = [pc |-> "done"]]
      /\ UNCHANGED <<alerts, center, sync, reading>>
  BY DEF TellAlert
<1>9. \A t \in Source : publish'[t].pc # "tell"
  BY <1>3, <1>8 DEF Panels, PanelShape, OneTold
<1>10. BeingTold' = {} /\ Latest' = Latest
  BY <1>8, <1>9 DEF BeingTold, Latest
<1>11. PanelShape'
  BY <1>7, <1>8 DEF Panels, PanelShape, Publishing
<1>12. OneTold' /\ ReadIsShown' /\ \A p \in Center : MarksShown(p)'
  BY <1>8, <1>9, <1>10 DEF Panels, OneTold, ReadIsShown, MarksShown
<1>13. ASSUME NEW p \in Center PROVE PanelFollows(p)'
  <2>1. Possible(center[p], sync[p], out[p], Latest)
    BY DEF Panels, PanelFollows
  <2>2. Follows(center[p], sync[p], out[p], socket[p] \in {"rising", "open"}, Latest, {Latest})
    BY <1>4 DEF Panels, PanelFollows
  <2>3. CASE socket[p] = "open" /\ socket'[p] = "open" /\ out'[p] = Append(out[p], e)
    <3>1. Follows(center[p], sync[p], out[p], TRUE, Latest, {Latest})
      BY <2>2, <2>3
    <3>2. /\ Possible(center[p], sync[p], Append(out[p], e), Latest)
          /\ Follows(center[p], sync[p], Append(out[p], e), TRUE, Latest, {})
      BY <1>4, <1>5, <2>1, <3>1, ToldFollows
    <3> QED
      BY <1>8, <1>10, <2>3, <3>2 DEF PanelFollows
  <2>4. CASE socket'[p] \notin {"rising", "open"} /\ out'[p] = out[p]
    <3> DEFINE hears == socket[p] \in {"rising", "open"}
    <3>1. Follows(center[p], sync[p], out[p], hears, Latest, {Latest}) /\ hears \in BOOLEAN
      BY <2>2
    <3> HIDE DEF hears
    <3>2. Follows(center[p], sync[p], out[p], FALSE, Latest, {})
      BY <3>1, DeafFollows
    <3>3. (socket'[p] \in {"rising", "open"}) = FALSE
      BY <2>4
    <3>4. Follows(center[p], sync[p], out[p], socket'[p] \in {"rising", "open"}, Latest, {})
      BY <3>2, <3>3
    <3> QED
      BY <1>8, <1>10, <2>1, <2>4, <3>4 DEF PanelFollows
  <2> QED
    BY <1>7, <2>3, <2>4
<1> QED
  BY <1>11, <1>12, <1>13 DEF Panels

(* A source that gives up, or tries again, tells nothing.                  *)
LEMMA PanelsIdleSource ==
  ASSUME Panels, NEW src \in Source, LoseAlert(src) \/ Tick(src)
  PROVE  Panels'
<1>1. /\ UNCHANGED <<alerts, center, sync, reading, socket, out>>
      /\ publish[src].pc # "tell"
      /\ \E r \in {[pc |-> "done"], [pc |-> "due"]} : publish' = [publish EXCEPT ![src] = r]
  BY DEF LoseAlert, Tick, hubVars
<1>2. /\ \A t \in Source : publish'[t].pc = "tell" <=> publish[t].pc = "tell"
      /\ \A t \in Source : publish[t].pc = "tell" => publish'[t] = publish[t]
  BY <1>1 DEF Panels, PanelShape
<1>3. BeingTold' = BeingTold /\ Latest' = Latest
  BY <1>1, <1>2 DEF BeingTold, Latest
<1>4. PanelShape'
  BY <1>1 DEF Panels, PanelShape, Publishing
<1>5. OneTold' /\ ReadIsShown' /\ \A p \in Center : PanelFollows(p)' /\ MarksShown(p)'
  BY <1>1, <1>2, <1>3 DEF Panels, OneTold, ReadIsShown, PanelFollows, MarksShown
<1> QED
  BY <1>4, <1>5 DEF Panels

(* What is marked was given to the panel that asks for it.                 *)
LEMMA PanelsUpdateRead ==
  ASSUME AlertsStored, Panels, NEW p \in Center, UpdateRead(p)
  PROVE  Panels'
<1> DEFINE m == reading[p]
<1>1. /\ Latest \in Nat /\ DOMAIN alerts = 1..Latest
      /\ \A n \in 1..Latest : alerts[n] \in Entry
  BY Counted DEF AlertsStored
<1>2. /\ m.pc = "sent" /\ m \in [pc : {"sent"}, all : BOOLEAN, seq : Nat]
      /\ alerts' = IF m.all THEN MarkUpTo(m.seq) ELSE MarkOne(m.seq)
      /\ reading' = [reading EXCEPT ![p] = [pc |-> "tell", changed |-> alerts' # alerts]]
      /\ UNCHANGED <<publish, center, sync, socket, out>>
  BY DEF UpdateRead, Panels, PanelShape, Marking, Idle, hubVars
<1>3. /\ Latest' = Latest
      /\ \A n \in 1..Latest : /\ alerts'[n].key = alerts[n].key
                              /\ alerts'[n].read => alerts[n].read \/ n \in Marks(m)
  <2>1. CASE m.all
    <3>1. alerts' = MarkUpTo(m.seq)
      BY <1>2, <2>1
    <3>2. \A n \in 1..Latest : MarkUpTo(m.seq)[n] = [alerts[n] EXCEPT !.read = @ \/ n <= m.seq]
      BY DEF MarkUpTo
    <3>3. Len(MarkUpTo(m.seq)) = Latest
      BY <1>1 DEF MarkUpTo
    <3>4. \A n \in 1..Latest : n <= m.seq => n \in Marks(m)
      BY <1>1, <1>2, <2>1 DEF Marks
    <3>5. \A n \in 1..Latest : /\ MarkUpTo(m.seq)[n].key = alerts[n].key
                               /\ MarkUpTo(m.seq)[n].read <=> (alerts[n].read \/ n <= m.seq)
      BY <1>1, <3>2 DEF Entry
    <3> QED
      BY <3>1, <3>3, <3>4, <3>5 DEF Latest
  <2>2. CASE ~m.all
    <3>1. alerts' = MarkOne(m.seq)
      BY <1>2, <2>2
    <3>2. /\ MarkOne(m.seq) \in [1..Latest -> Entry] /\ DOMAIN MarkOne(m.seq) = 1..Latest
          /\ MarkOne(m.seq) \in Seq(Entry) /\ Len(MarkOne(m.seq)) = Latest
      <4>1. alerts \in [1..Latest -> Entry]
        BY <1>1 DEF AlertsStored
      <4>2. MarkOne(m.seq) \in [1..Latest -> Entry]
        BY <4>1 DEF MarkOne, Entry
      <4> QED
        BY <1>1, <4>2
    <3>3. \A n \in 1..Latest : MarkOne(m.seq)[n] = IF n = m.seq THEN [alerts[n] EXCEPT !.read = TRUE] ELSE alerts[n]
      BY <1>1 DEF MarkOne
    <3>4. m.seq \in Marks(m)
      BY <2>2 DEF Marks
    <3> QED
      BY <1>1, <3>1, <3>2, <3>3, <3>4 DEF Latest, Entry
  <2> QED
    BY <2>1, <2>2
<1>4. BeingTold' = BeingTold
  BY <1>2 DEF BeingTold
<1>5. PanelShape'
  <2>1. [pc |-> "tell", changed |-> alerts' # alerts] \in Marking
    BY DEF Marking
  <2> QED
    BY <1>2, <2>1 DEF Panels, PanelShape
<1>6. OneTold' /\ \A q \in Center : PanelFollows(q)'
  BY <1>2, <1>3, <1>4 DEF Panels, OneTold, PanelFollows
<1>7. ReadIsShown'
  <2> SUFFICES ASSUME NEW n \in 1..Latest, alerts'[n].read, alerts'[n].key # Before
               PROVE  \E q \in Center : n \in Shown(center[q], sync[q])
    BY <1>2, <1>3 DEF ReadIsShown
  <2>1. Marks(m) \subseteq Shown(center[p], sync[p])
    BY <1>2 DEF Panels, MarksShown
  <2> QED
    BY <1>3, <2>1 DEF Panels, ReadIsShown
<1>8. \A q \in Center : MarksShown(q)'
  <2>1. reading'[p].pc # "sent" /\ \A q \in Center : q # p => reading'[q] = reading[q]
    BY <1>2 DEF Panels, PanelShape
  <2> QED
    BY <1>2, <2>1 DEF Panels, MarksShown
<1> QED
  BY <1>5, <1>6, <1>7, <1>8 DEF Panels

(* The new count is told to everybody who hears.                           *)
LEMMA PanelsTellRead ==
  ASSUME AlertsStored, Panels, NEW p \in Center, TellRead(p), upset' = "none"
  PROVE  Panels'
<1> DEFINE e == [kind |-> "alertsRead", seq |-> 0, unread |-> Unread]
<1>1. Latest \in Nat /\ Unread \in Nat
  BY Counted DEF AlertsStored
<1>2. e \in AlertEvent /\ ~IsAlert(e)
  BY <1>1 DEF AlertEvent, IsAlert
<1>3. /\ TellAlerts(e) \/ UNCHANGED <<socket, out, upset>>
      /\ reading' = [reading EXCEPT ![p] = [pc |-> "answer", unread |-> Unread]]
      /\ UNCHANGED <<alerts, publish, center, sync>>
  BY DEF TellRead, hubVars
<1> HIDE DEF e
<1>4. /\ socket' \in [Device -> Sockets] /\ out' \in [Device -> Seq(AlertEvent)]
      /\ \A q \in Center :
           \/ socket'[q] = socket[q] /\ out'[q] \in {out[q], Append(out[q], e)}
           \/ socket'[q] \notin {"rising", "open"} /\ out'[q] = out[q]
  <2>1. CASE TellAlerts(e)
    BY <1>2, <2>1, AlertTold DEF Panels
  <2>2. CASE UNCHANGED <<socket, out, upset>>
    BY <2>2 DEF Panels, PanelShape
  <2> QED
    BY <1>3, <2>1, <2>2
<1>5. BeingTold' = BeingTold /\ Latest' = Latest
  BY <1>3 DEF BeingTold, Latest
<1>6. PanelShape'
  BY <1>1, <1>3, <1>4 DEF Panels, PanelShape, Marking
<1>7. OneTold' /\ ReadIsShown'
  BY <1>3, <1>5 DEF Panels, OneTold, ReadIsShown
<1>8. \A q \in Center : MarksShown(q)'
  <2>1. reading'[p].pc # "sent" /\ \A q \in Center : q # p => reading'[q] = reading[q]
    BY <1>3 DEF Panels, PanelShape
  <2> QED
    BY <1>3, <2>1 DEF Panels, MarksShown
<1>9. ASSUME NEW q \in Center PROVE PanelFollows(q)'
  <2> DEFINE hears == socket[q] \in {"rising", "open"}
  <2>1. /\ Possible(center[q], sync[q], out[q], Latest) /\ hears \in BOOLEAN
        /\ Follows(center[q], sync[q], out[q], hears, Latest, BeingTold)
    BY DEF Panels, PanelFollows
  <2>2. CASE socket'[q] = socket[q] /\ out'[q] = out[q]
    BY <1>3, <1>5, <2>1, <2>2 DEF PanelFollows
  <2>3. CASE socket'[q] = socket[q] /\ out'[q] = Append(out[q], e)
    <3>1. /\ Possible(center[q], sync[q], out'[q], Latest)
          /\ Follows(center[q], sync[q], out'[q], hears, Latest, BeingTold)
      <4> HIDE DEF hears
      <4> QED
        BY <1>2, <2>1, <2>3, OtherEventFollows
    <3> QED
      BY <1>3, <1>5, <2>3, <3>1 DEF PanelFollows
  <2>4. CASE socket'[q] \notin {"rising", "open"} /\ out'[q] = out[q]
    <3>1. Follows(center[q], sync[q], out[q], FALSE, Latest, BeingTold)
      <4> HIDE DEF hears
      <4> QED
        BY <2>1, DeafFollows
    <3>2. (socket'[q] \in {"rising", "open"}) = FALSE
      BY <2>4
    <3>3. Follows(center[q], sync[q], out[q], socket'[q] \in {"rising", "open"}, Latest, BeingTold)
      BY <3>1, <3>2
    <3> QED
      BY <1>3, <1>5, <2>1, <2>4, <3>3 DEF PanelFollows
  <2> QED
    BY <1>4, <2>2, <2>3, <2>4
<1> QED
  BY <1>6, <1>7, <1>8, <1>9 DEF Panels

(* A request of one panel is answered; the others do not notice.           *)
LEMMA PanelsRequest ==
  ASSUME AlertsStored, Panels, NEW p \in Center, ReadCount(p) \/ ReadLatest(p) \/ ReadUnread(p)
  PROVE  Panels'
<1> DEFINE hears == socket[p] \in {"rising", "open"}
<1>1. /\ Latest \in Nat /\ Unread \in Nat /\ UNCHANGED <<alerts, publish, center, reading, socket, out>>
      /\ center' = [center EXCEPT ![p] = center[p]] /\ reading' = [reading EXCEPT ![p] = reading[p]]
      /\ center[p] \in Held /\ reading[p] \in Marking /\ sync[p] \in Asking
      /\ socket' \in [Device -> Sockets] /\ out' \in [Device -> Seq(AlertEvent)]
  BY Counted DEF AlertsStored, ReadCount, ReadLatest, ReadUnread, hubVars, Panels, PanelShape
<1>2. /\ Possible(center[p], sync[p], out[p], Latest)
      /\ Follows(center[p], sync[p], out[p], hears, Latest, BeingTold)
  BY DEF Panels, PanelFollows
<1>3. hears \in BOOLEAN
  OBVIOUS
<1> HIDE DEF hears
<1>4. PICK s : /\ s \in Asking /\ sync' = [sync EXCEPT ![p] = s]
               /\ Possible(center[p], s, out[p], Latest)
               /\ Follows(center[p], s, out[p], hears, Latest, BeingTold)
               /\ Shown(center[p], s) = Shown(center[p], sync[p])
  <2>1. CASE ReadCount(p)
    <3> DEFINE s == [pc |-> "latest", unread |-> Unread]
    <3>1. sync[p].pc = "count" /\ sync' = [sync EXCEPT ![p] = s]
      BY <2>1 DEF ReadCount
    <3>2. s \in Asking /\ s.pc = "latest"
      BY <1>1 DEF Asking
    <3> HIDE DEF s
    <3>3. /\ Possible(center[p], s, out[p], Latest)
          /\ Follows(center[p], s, out[p], hears, Latest, BeingTold)
          /\ Shown(center[p], s) = Shown(center[p], sync[p])
      BY <1>3, <1>2, <3>2, <3>1, CountFollows
    <3> QED
      BY <3>2, <3>1, <3>3
  <2>2. CASE ReadLatest(p)
    <3> DEFINE s == [pc |-> "summary", unread |-> sync[p].unread, latest |-> Latest]
    <3>1. sync[p].pc = "latest" /\ sync' = [sync EXCEPT ![p] = s] /\ sync[p].unread \in Nat
      BY <1>1, <2>2 DEF ReadLatest, Asking, Idle
    <3>2. s \in Asking /\ s.pc = "summary" /\ s.latest = Latest
      BY <1>1, <3>1 DEF Asking
    <3> HIDE DEF s
    <3>3. /\ Possible(center[p], s, out[p], Latest)
          /\ Follows(center[p], s, out[p], hears, Latest, BeingTold)
          /\ Shown(center[p], s) = Shown(center[p], sync[p])
      BY <1>3, <1>2, <3>2, <3>1, LatestFollows
    <3> QED
      BY <3>2, <3>1, <3>3
  <2>3. CASE ReadUnread(p)
    <3> DEFINE s == [pc |-> "list", items |-> sync[p].items, unread |-> Unread]
    <3>1. sync[p].pc = "listed" /\ sync' = [sync EXCEPT ![p] = s]
      BY <2>3 DEF ReadUnread
    <3>2. s \in Asking /\ s.pc = "list" /\ s.items = sync[p].items
      <4>1. sync[p].items \in SUBSET Nat
        BY <1>1, <3>1 DEF Asking, Idle
      <4> QED
        BY <1>1, <4>1 DEF Asking
    <3> HIDE DEF s
    <3>3. /\ Possible(center[p], s, out[p], Latest)
          /\ Follows(center[p], s, out[p], hears, Latest, BeingTold)
          /\ Shown(center[p], s) = Shown(center[p], sync[p])
      BY <1>3, <1>2, <3>2, <3>1, UnreadFollows
    <3> QED
      BY <3>2, <3>1, <3>3
  <2> QED
    BY <2>1, <2>2, <2>3
<1>5. /\ Possible(center[p], s, out'[p], Latest)
      /\ Follows(center[p], s, out'[p], socket'[p] \in {"rising", "open"}, Latest, BeingTold)
  BY <1>1, <1>4 DEF hears
<1> QED
  BY <1>1, <1>4, <1>5, PanelMoves

(* A round of sync ends, and begins again if that was asked for.           *)
LEMMA PanelsRound ==
  ASSUME AlertsStored, Panels, NEW p \in Center, NEW c \in Held, Round(p, c),
         UNCHANGED <<alerts, publish, reading, socket, out>>,
         Possible(c, Idle, out[p], Latest),
         Follows(c, Idle, out[p], socket[p] \in {"rising", "open"}, Latest, BeingTold),
         Shown(center[p], sync[p]) \subseteq Shown(c, Idle)
  PROVE  Panels'
<1> DEFINE hears == socket[p] \in {"rising", "open"}
<1> DEFINE d == [c EXCEPT !.again = FALSE]
<1>1. hears \in BOOLEAN
  OBVIOUS
<1>2. d \in Held /\ d.latest = c.latest /\ d.base = c.base /\ d.seen = c.seen
  BY DEF Held
<1>3. center' = [center EXCEPT ![p] = d] /\ (sync' = [sync EXCEPT ![p] = Asked(d)] \/ sync' = [sync EXCEPT ![p] = Idle])
  BY <1>2 DEF Round, Asked
<1>4. Follows(c, Idle, out[p], hears, Latest, BeingTold)
  OBVIOUS
<1> HIDE DEF hears, d
<1>5. /\ Possible(d, Idle, out[p], Latest) /\ Follows(d, Idle, out[p], hears, Latest, BeingTold)
      /\ Shown(d, Idle) = Shown(c, Idle)
  BY <1>1, <1>2, <1>4, SameFollows
<1>6. /\ Possible(d, Asked(d), out[p], Latest) /\ Follows(d, Asked(d), out[p], hears, Latest, BeingTold)
      /\ Shown(d, Idle) \subseteq Shown(d, Asked(d))
  BY <1>1, <1>2, <1>5, AskFollows
<1>7. PICK s \in {Idle, Asked(d)} : sync' = [sync EXCEPT ![p] = s]
  BY <1>3
<1>8. /\ s \in Asking /\ Possible(d, s, out'[p], Latest)
      /\ Follows(d, s, out'[p], socket'[p] \in {"rising", "open"}, Latest, BeingTold)
      /\ Shown(center[p], sync[p]) \subseteq Shown(d, s)
  BY <1>5, <1>6, <1>7 DEF Possible, hears
<1>9. /\ reading[p] \in Marking /\ reading' = [reading EXCEPT ![p] = reading[p]]
      /\ socket' \in [Device -> Sockets] /\ out' \in [Device -> Seq(AlertEvent)]
  BY DEF Panels, PanelShape
<1> QED
  BY <1>2, <1>3, <1>7, <1>8, <1>9, PanelMoves

(* refreshSummary: its first number, or what lies between is asked for.    *)
LEMMA PanelsSummary ==
  ASSUME AlertsStored, Panels, NEW p \in Center, FinishSummary(p)
  PROVE  Panels'
<1> DEFINE hears == socket[p] \in {"rising", "open"}
<1> DEFINE s == sync[p]
<1> DEFINE c == [center[p] EXCEPT !.unread = s.unread]
<1> DEFINE d == IF c.latest = 0 THEN [c EXCEPT !.latest = s.latest, !.base = s.latest]
                                ELSE [c EXCEPT !.again = @ \/ s.latest > c.latest]
<1>1. s.pc = "summary" /\ Round(p, d) /\ UNCHANGED <<alerts, publish, reading, socket, out>>
  BY DEF FinishSummary, hubVars
<1>2. s.unread \in Nat /\ s.latest \in Nat /\ center[p] \in Held
  BY <1>1 DEF Panels, PanelShape, Asking, Idle
<1>3. /\ d \in Held /\ d.seen = center[p].seen
      /\ center[p].latest = 0 => d.latest = s.latest /\ d.base = s.latest
      /\ center[p].latest # 0 => d.latest = center[p].latest /\ d.base = center[p].base
  <2>1. /\ c \in Held /\ c.latest = center[p].latest /\ c.base = center[p].base
        /\ c.seen = center[p].seen
    BY <1>2 DEF Held
  <2> HIDE DEF c
  <2>2. CASE c.latest = 0
    <3>1. d = [c EXCEPT !.latest = s.latest, !.base = s.latest]
      BY <2>2
    <3> QED
      BY <1>2, <2>1, <2>2, <3>1 DEF Held
  <2>3. CASE c.latest # 0
    <3>1. d = [c EXCEPT !.again = @ \/ s.latest > c.latest]
      BY <2>3
    <3>2. (c.again \/ s.latest > c.latest) \in BOOLEAN
      OBVIOUS
    <3> QED
      BY <2>1, <2>3, <3>1, <3>2 DEF Held
  <2> QED
    BY <2>2, <2>3
<1>4. hears \in BOOLEAN
  OBVIOUS
<1>5. /\ Possible(center[p], s, out[p], Latest)
      /\ Follows(center[p], s, out[p], hears, Latest, BeingTold)
  BY DEF Panels, PanelFollows
<1> HIDE DEF hears, d, s
<1>6. /\ Possible(d, Idle, out[p], Latest) /\ Follows(d, Idle, out[p], hears, Latest, BeingTold)
      /\ Shown(center[p], s) \subseteq Shown(d, Idle)
  BY <1>4, <1>1, <1>3, <1>5, SummaryFollows
<1> QED
  BY <1>1, <1>3, <1>6, PanelsRound DEF hears, s

(* A panel has the page it has asked for.                                  *)
LEMMA AcceptHolds ==
  ASSUME Latest \in Nat, NEW c \in Held, NEW items, items \subseteq 1..Latest,
         NEW d, d = Accept(c, items)
  PROVE  /\ d \in Held /\ d.seen = c.seen \cup items
         /\ c.latest # 0 => d.base = c.base
         /\ d.latest \in {c.latest} \cup items /\ d.latest >= c.latest
         /\ \A n \in items : n <= d.latest
<1>1. CASE items = {}
  <2>1. d = c
    BY <1>1 DEF Accept
  <2> QED
    BY <1>1, <2>1 DEF Held
<1>2. CASE items # {}
  <2>1. Largest(items) = MaxOf(items)
    <3>1. MaxOf(items) = CHOOSE n \in items : \A m \in items : m <= n
      BY <1>2 DEF MaxOf
    <3>2. Largest(items) = CHOOSE n \in items : \A m \in items : m <= n
      BY DEF Largest
    <3> QED
      BY <3>1, <3>2
  <2>2. Largest(items) \in items /\ \A n \in items : n <= Largest(items)
    BY <1>2, <2>1, MaxOfIs
  <2>3. Largest(items) \in Nat \ {0}
    <3>1. Largest(items) \in 1..Latest
      BY <2>2
    <3> QED
      BY <3>1
  <2>4. d = [c EXCEPT !.seen = @ \cup items,
                      !.base = IF c.latest = 0 THEN Largest(items) - 1 ELSE @,
                      !.latest = IF Largest(items) > @ THEN Largest(items) ELSE @]
    BY <1>2 DEF Accept
  <2>5. /\ d.seen = c.seen \cup items
        /\ d.base = IF c.latest = 0 THEN Largest(items) - 1 ELSE c.base
        /\ d.latest = IF Largest(items) > c.latest THEN Largest(items) ELSE c.latest
        /\ d \in Held
    <3> DEFINE n == Largest(items)
    <3> DEFINE b == IF c.latest = 0 THEN n - 1 ELSE c.base
    <3> DEFINE l == IF n > c.latest THEN n ELSE c.latest
    <3>1. c.latest \in Nat /\ c.base \in Nat /\ c.seen \cup items \in SUBSET Nat
      <4>1. items \in SUBSET Nat
        OBVIOUS
      <4> QED
        BY <4>1 DEF Held
    <3>2. b \in Nat /\ l \in Nat
      BY <2>3, <3>1
    <3>3. d = [c EXCEPT !.seen = c.seen \cup items, !.base = b, !.latest = l]
      BY <2>4
    <3> HIDE DEF b, l
    <3>4. d.seen = c.seen \cup items /\ d.base = b /\ d.latest = l /\ d \in Held
      BY <3>1, <3>2, <3>3 DEF Held
    <3> QED
      BY <3>4 DEF b, l
  <2>6. c.latest \in Nat
    BY DEF Held
  <2> QED
    BY <2>2, <2>3, <2>5, <2>6
<1> QED
  BY <1>1, <1>2

(* A page comes.                                                           *)
LEMMA PanelsList ==
  ASSUME AlertsStored, Panels, NEW p \in Center, FinishList(p)
  PROVE  Panels'
<1> DEFINE hears == socket[p] \in {"rising", "open"}
<1> DEFINE s == sync[p]
<1> DEFINE a == Accept(center[p], s.items)
<1> DEFINE d == [a EXCEPT !.unread = s.unread]
<1>1. s.pc = "list" /\ Round(p, d) /\ UNCHANGED <<alerts, publish, reading, socket, out>>
  BY DEF FinishList, hubVars
<1>2. hears \in BOOLEAN
  OBVIOUS
<1>3. s.unread \in Nat /\ center[p] \in Held
  BY <1>1 DEF Panels, PanelShape, Asking, Idle
<1>4. /\ Possible(center[p], s, out[p], Latest)
      /\ Follows(center[p], s, out[p], hears, Latest, BeingTold)
  BY DEF Panels, PanelFollows
<1>5. Latest \in Nat /\ s.items \subseteq 1..Latest /\ center[p].latest # 0
  BY <1>1, <1>4 DEF Possible, Pending, Held
<1>6. /\ a \in Held /\ a.seen = center[p].seen \cup s.items /\ a.base = center[p].base
      /\ a.latest \in {center[p].latest} \cup s.items /\ a.latest >= center[p].latest
      /\ \A n \in s.items : n <= a.latest
  <2>1. a = Accept(center[p], s.items)
    OBVIOUS
  <2> HIDE DEF a, s
  <2>2. /\ a \in Held /\ a.seen = center[p].seen \cup s.items
        /\ center[p].latest # 0 => a.base = center[p].base
        /\ a.latest \in {center[p].latest} \cup s.items /\ a.latest >= center[p].latest
        /\ \A n \in s.items : n <= a.latest
    BY <1>3, <1>5, <2>1, AcceptHolds
  <2> QED
    BY <1>5, <2>2
<1> HIDE DEF a
<1>7. /\ d \in Held /\ d.seen = a.seen /\ d.base = a.base /\ d.latest = a.latest
  BY <1>3, <1>6 DEF Held
<1> HIDE DEF hears, d, s
<1>8. /\ Possible(d, Idle, out[p], Latest) /\ Follows(d, Idle, out[p], hears, Latest, BeingTold)
      /\ Shown(center[p], s) \subseteq Shown(d, Idle)
  BY <1>2, <1>1, <1>4, <1>6, <1>7, ListFollows
<1> QED
  BY <1>1, <1>7, <1>8, PanelsRound DEF hears, s

(* A panel asks, by its timer or because its socket comes up: one that was *)
(* at rest, unless something is upset.                                     *)
LEMMA PanelsAsk ==
  ASSUME AlertsStored, Panels, NEW p \in Center, Remind(p) \/ Resume(p), upset' = "none"
  PROVE  Panels'
<1> DEFINE hears == socket[p] \in {"rising", "open"}
<1> DEFINE c == center[p]
<1>1. sync[p] = Idle
  <2>1. CASE Resume(p)
    BY <2>1, NotUpset DEF Resume
  <2> QED
    BY <2>1 DEF Remind
<1>2. /\ UNCHANGED <<alerts, publish, reading>>
      /\ sync' = [sync EXCEPT ![p] = Asked(c)] /\ center' = [center EXCEPT ![p] = c]
  BY <1>1 DEF Remind, Resume, AskSync
<1>3. c \in Held /\ reading[p] \in Marking /\ reading' = [reading EXCEPT ![p] = reading[p]]
  BY <1>2 DEF Panels, PanelShape
<1>4. hears \in BOOLEAN
  OBVIOUS
<1>5. Possible(c, Idle, out[p], Latest) /\ Follows(c, Idle, out[p], hears, Latest, BeingTold)
  BY <1>1 DEF Panels, PanelFollows
<1> HIDE DEF c, hears
<1>6. /\ Possible(c, Asked(c), out[p], Latest)
      /\ Follows(c, Asked(c), out[p], hears, Latest, BeingTold)
      /\ Possible(c, Asked(c), <<>>, Latest)
      /\ Follows(c, Asked(c), <<>>, TRUE, Latest, BeingTold)
      /\ Shown(c, Idle) \subseteq Shown(c, Asked(c))
  BY <1>4, <1>5, AskFollows
<1>7. Asked(c) \in Asking /\ Shown(center[p], sync[p]) \subseteq Shown(c, Asked(c))
  BY <1>1, <1>6 DEF Possible, c
<1>8. /\ socket' \in [Device -> Sockets] /\ out' \in [Device -> Seq(AlertEvent)]
      /\ \A q \in Center : q # p => out'[q] = out[q] /\ socket'[q] = socket[q]
      /\ Possible(c, Asked(c), out'[p], Latest)
      /\ Follows(c, Asked(c), out'[p], socket'[p] \in {"rising", "open"}, Latest, BeingTold)
  <2>1. p \in Device
    BY AlertsAssumption
  <2>2. CASE Remind(p)
    BY <1>6, <2>2 DEF Remind, hubVars, Panels, PanelShape, hears
  <2>3. CASE Resume(p)
    <3>1. socket' = [socket EXCEPT ![p] = "rising"] /\ out' = [out EXCEPT ![p] = <<>>]
      BY <2>3 DEF Resume, Connect
    <3>2. socket'[p] = "rising" /\ out'[p] = <<>>
      BY <2>1, <3>1 DEF Panels, PanelShape
    <3>3. (socket'[p] \in {"rising", "open"}) = TRUE
      BY <3>2
    <3>4. Follows(c, Asked(c), out'[p], socket'[p] \in {"rising", "open"}, Latest, BeingTold)
      BY <1>6, <3>2, <3>3
    <3>5. \A q \in Center : q # p => out'[q] = out[q] /\ socket'[q] = socket[q]
      BY <3>1, AlertsAssumption DEF Panels, PanelShape
    <3>6. socket' \in [Device -> Sockets] /\ out' \in [Device -> Seq(AlertEvent)]
      <4>1. <<>> \in Seq(AlertEvent)
        OBVIOUS
      <4>2. socket \in [Device -> Sockets] /\ out \in [Device -> Seq(AlertEvent)]
        BY DEF Panels, PanelShape
      <4>3. socket' \in [Device -> Sockets]
        BY <3>1, <4>2 DEF Sockets
      <4>4. out' \in [Device -> Seq(AlertEvent)]
        BY <3>1, <4>1, <4>2
      <4> QED
        BY <4>3, <4>4
    <3> QED
      BY <1>6, <3>2, <3>4, <3>5, <3>6
  <2> QED
    BY <2>2, <2>3
<1> QED
  BY <1>2, <1>3, <1>7, <1>8, PanelMoves

(* What happens to a socket: the queue stays, or is lost with it.          *)
LEMMA PanelsSocket ==
  ASSUME Panels, NEW p \in Center, CenterSocket(p)
  PROVE  Panels'
<1> DEFINE hears == socket[p] \in {"rising", "open"}
<1> DEFINE c == center[p]
<1> DEFINE s == sync[p]
<1> DEFINE m == reading[p]
<1>1. /\ UNCHANGED <<alerts, publish>> /\ p \in Device
      /\ center' = [center EXCEPT ![p] = c] /\ sync' = [sync EXCEPT ![p] = s]
      /\ reading' = [reading EXCEPT ![p] = m]
      /\ c \in Held /\ s \in Asking /\ m \in Marking
  BY AlertsAssumption DEF CenterSocket, alertVars, Panels, PanelShape
<1>2. Shown(center[p], sync[p]) \subseteq Shown(c, s) /\ m = reading[p]
  OBVIOUS
<1>3. /\ Possible(c, s, out[p], Latest)
      /\ Follows(c, s, out[p], hears, Latest, BeingTold)
  BY DEF Panels, PanelFollows
<1>4. hears \in BOOLEAN
  OBVIOUS
<1>5. /\ Follows(c, s, out[p], FALSE, Latest, BeingTold)
      /\ Follows(c, s, <<>>, FALSE, Latest, BeingTold)
  <2> HIDE DEF hears, c, s
  <2>1. Follows(c, s, out[p], FALSE, Latest, BeingTold)
    BY <1>3 DEF Follows
  <2>2. Follows(c, s, <<>>, FALSE, Latest, BeingTold)
    BY <1>3 DEF Follows, Consecutive, GivenInTurn
  <2> QED
    BY <2>1, <2>2
<1>6. Possible(c, s, <<>>, Latest)
  BY <1>3 DEF Possible
<1>7. /\ socket' \in [Device -> Sockets] /\ out' \in [Device -> Seq(AlertEvent)]
      /\ \A q \in Center : q # p => out'[q] = out[q] /\ socket'[q] = socket[q]
      /\ Possible(c, s, out'[p], Latest)
      /\ Follows(c, s, out'[p], socket'[p] \in {"rising", "open"}, Latest, BeingTold)
  <2>1. CASE Register(p)
    <3>1. socket[p] = "rising" /\ socket' = [socket EXCEPT ![p] = "open"] /\ out' = out
      BY <2>1 DEF Register
    <3>2. socket'[p] = "open" /\ (socket'[p] \in {"rising", "open"}) = hears
      BY <1>1, <3>1 DEF Panels, PanelShape
    <3>3. Follows(c, s, out'[p], socket'[p] \in {"rising", "open"}, Latest, BeingTold)
      BY <1>3, <3>1, <3>2
    <3>4. socket' \in [Device -> Sockets] /\ out' \in [Device -> Seq(AlertEvent)]
      BY <3>1 DEF Panels, PanelShape, Sockets
    <3>5. \A q \in Center : q # p => out'[q] = out[q] /\ socket'[q] = socket[q]
      BY <3>1, AlertsAssumption DEF Panels, PanelShape
    <3>6. Possible(c, s, out'[p], Latest)
      BY <1>3, <3>1
    <3> QED
      BY <3>3, <3>4, <3>5, <3>6
  <2>2. CASE Cut(p) \/ Close(p) \/ Unregister(p)
    <3>1. PICK off \in {"off", "gone"} : /\ socket' = [socket EXCEPT ![p] = off]
                                       /\ out' \in {out, [out EXCEPT ![p] = <<>>]}
      BY <2>2 DEF Cut, Close, Unregister
    <3>2. socket'[p] = off /\ out'[p] \in {out[p], <<>>}
      BY <1>1, <3>1 DEF Panels, PanelShape
    <3>3. (socket'[p] \in {"rising", "open"}) = FALSE
      BY <3>2
    <3>4. Follows(c, s, out'[p], FALSE, Latest, BeingTold)
      BY <1>5, <3>2
    <3>5. Follows(c, s, out'[p], socket'[p] \in {"rising", "open"}, Latest, BeingTold)
      BY <3>3, <3>4
    <3>6. socket' \in [Device -> Sockets] /\ out' \in [Device -> Seq(AlertEvent)]
      <4>1. <<>> \in Seq(AlertEvent)
        OBVIOUS
      <4>2. socket \in [Device -> Sockets] /\ out \in [Device -> Seq(AlertEvent)]
        BY DEF Panels, PanelShape
      <4>3. socket' \in [Device -> Sockets]
        BY <3>1, <4>2 DEF Sockets
      <4>4. out' \in [Device -> Seq(AlertEvent)]
        BY <3>1, <4>1, <4>2
      <4> QED
        BY <4>3, <4>4
    <3>7. \A q \in Center : q # p => out'[q] = out[q] /\ socket'[q] = socket[q]
      BY <3>1, AlertsAssumption DEF Panels, PanelShape
    <3> QED
      BY <1>3, <1>6, <3>2, <3>5, <3>6, <3>7
  <2> QED
    BY <2>1, <2>2 DEF CenterSocket
<1> HIDE DEF c, s, m
<1> QED
  BY <1>1, <1>7, <1>2, PanelMoves

(* An event is heard.                                                      *)
LEMMA PanelsHear ==
  ASSUME AlertsStored, Panels, NEW p \in Center, Hear(p)
  PROVE  Panels'
<1> DEFINE hears == socket[p] \in {"rising", "open"}
<1> DEFINE q == out[p]
<1> DEFINE e == Head(q)
<1> DEFINE a == IF e.kind = "alert" THEN Accept(center[p], {e.seq}) ELSE center[p]
<1> DEFINE d == IF e.unread >= 0 THEN [a EXCEPT !.unread = e.unread] ELSE a
<1>1. /\ q # <<>> /\ out' = [out EXCEPT ![p] = Tail(q)] /\ UNCHANGED socket
      /\ center' = [center EXCEPT ![p] = d] /\ UNCHANGED <<alerts, publish>>
  BY DEF Hear, Write
<1>2. p \in Device /\ q \in Seq(AlertEvent) /\ center[p] \in Held
  BY AlertsAssumption DEF Panels, PanelShape
<1> DEFINE s == sync[p]
<1> DEFINE m == reading[p]
<1>3. /\ sync' = [sync EXCEPT ![p] = s] /\ reading' = [reading EXCEPT ![p] = m]
      /\ s \in Asking /\ m \in Marking
  BY DEF Hear, Panels, PanelShape
<1>4. hears \in BOOLEAN
  OBVIOUS
<1>5. Possible(center[p], s, q, Latest) /\ Follows(center[p], s, q, hears, Latest, BeingTold)
  BY DEF Panels, PanelFollows
<1>6. BeingTold \subseteq {Latest}
  BY DEF Panels, OneTold
<1> HIDE DEF hears, q, a, d
<1>7. e = q[1] /\ e \in AlertEvent /\ Tail(q) \in Seq(AlertEvent) /\ 1 \in DOMAIN q
  BY <1>1, <1>2, Drops
<1>8. e.unread \in Int /\ (IsAlert(e) => e.seq \in 1..Latest /\ Latest \in Nat)
  BY <1>5, <1>7 DEF AlertEvent, Possible
<1>9. /\ d \in Held /\ Possible(d, s, Tail(q), Latest)
      /\ Follows(d, s, Tail(q), hears, Latest, BeingTold)
      /\ Shown(center[p], s) \subseteq Shown(d, s)
  <2>1. ASSUME a \in Held
        PROVE  d \in Held /\ d.latest = a.latest /\ d.base = a.base /\ d.seen = a.seen
    <3>1. CASE e.unread >= 0
      BY <1>8, <2>1, <3>1 DEF d, Held
    <3>2. CASE ~(e.unread >= 0)
      BY <2>1, <3>2 DEF d
    <3> QED
      BY <3>1, <3>2
  <2>2. CASE IsAlert(e)
    <3>1. a = Accept(center[p], {e.seq})
      BY <2>2 DEF a, IsAlert
    <3>2. e.seq \in 1..Latest /\ {e.seq} \subseteq 1..Latest /\ Latest \in Nat
      BY <1>8, <2>2
    <3>3. /\ a \in Held /\ a.seen = center[p].seen \cup {e.seq}
          /\ a.latest \in {center[p].latest, e.seq} /\ a.latest >= center[p].latest /\ e.seq <= a.latest
      <4> HIDE DEF e
      <4>1. /\ a \in Held /\ a.seen = center[p].seen \cup {e.seq}
            /\ a.latest \in {center[p].latest} \cup {e.seq} /\ a.latest >= center[p].latest
            /\ \A n \in {e.seq} : n <= a.latest
        BY <1>2, <3>1, <3>2, AcceptHolds
      <4> QED
        BY <4>1
    <3>4. center[p].latest \in Nat /\ e.seq \in Nat
      BY <1>2, <3>2 DEF Held
    <3>5. a.latest = IF e.seq > center[p].latest THEN e.seq ELSE center[p].latest
      <4> HIDE DEF e
      <4> QED
        BY <3>3, <3>4
    <3>6. a.base = IF center[p].latest = 0 THEN e.seq - 1 ELSE center[p].base
      <4> HIDE DEF e
      <4>1. Largest({e.seq}) = e.seq
        BY <3>4 DEF Largest
      <4>2. {e.seq} # {}
        OBVIOUS
      <4>3. a = [center[p] EXCEPT
                   !.seen = center[p].seen \cup {e.seq},
                   !.base = IF center[p].latest = 0 THEN e.seq - 1 ELSE center[p].base,
                   !.latest = IF e.seq > center[p].latest THEN e.seq ELSE center[p].latest]
        BY <3>1, <4>1, <4>2 DEF Accept
      <4> QED
        BY <1>2, <4>3 DEF Held
    <3>7. IsAlert(q[1]) /\ q[1].seq = e.seq
      BY <1>7, <2>2
    <3>8. /\ Possible(a, s, Tail(q), Latest)
          /\ Follows(a, s, Tail(q), hears, Latest, BeingTold)
          /\ Shown(center[p], s) \subseteq Shown(a, s)
      <4> HIDE DEF e
      <4> QED
        BY <1>1, <1>4, <1>5, <1>6, <3>3, <3>5, <3>6, <3>7, HearFollows
    <3> QED
      <4> HIDE DEF e
      <4>1. d \in Held /\ d.latest = a.latest /\ d.base = a.base /\ d.seen = a.seen
        BY <2>1, <3>3
      <4>2. Possible(d, s, Tail(q), Latest) /\ Follows(d, s, Tail(q), hears, Latest, BeingTold)
            /\ Shown(d, s) = Shown(a, s)
        BY <1>4, <3>8, <4>1, SameFollows
      <4> QED
        BY <3>8, <4>1, <4>2
  <2>3. CASE ~IsAlert(e)
    <3>1. a = center[p]
      BY <2>3 DEF a, IsAlert
    <3>2. /\ Possible(a, s, Tail(q), Latest)
          /\ Follows(a, s, Tail(q), hears, Latest, BeingTold)
      BY <1>1, <1>4, <1>5, <1>7, <2>3, <3>1, OtherHeardFollows
    <3> QED
      <4> HIDE DEF e
      <4> QED
        BY <1>2, <1>4, <2>1, <3>1, <3>2, SameFollows
  <2> QED
    BY <2>2, <2>3
<1>10. /\ socket' \in [Device -> Sockets] /\ out' \in [Device -> Seq(AlertEvent)]
       /\ \A r \in Center : r # p => out'[r] = out[r] /\ socket'[r] = socket[r]
       /\ out'[p] = Tail(q)
  BY <1>1, <1>2, <1>7, AlertsAssumption DEF Panels, PanelShape
<1>11. Follows(d, s, out'[p], socket'[p] \in {"rising", "open"}, Latest, BeingTold)
  BY <1>1, <1>9, <1>10 DEF hears
<1>12. Possible(d, s, out'[p], Latest) /\ Shown(center[p], sync[p]) \subseteq Shown(d, s) /\ m = reading[p]
  BY <1>9, <1>10
<1> HIDE DEF s, m
<1> QED
  BY <1>1, <1>9, <1>10, <1>11, <1>3, <1>12, PanelMoves

(* The user marks, or the answer to a mark comes: what a panel holds of    *)
(* the alerts stays.                                                       *)
LEMMA PanelsOwn ==
  ASSUME Panels, NEW p \in Center, NEW d \in Held, NEW m \in Marking,
         UNCHANGED <<alerts, publish, sync, socket, out>>,
         center' = [center EXCEPT ![p] = d], reading' = [reading EXCEPT ![p] = m],
         d.latest = center[p].latest, d.base = center[p].base, d.seen = center[p].seen,
         m.pc = "sent" => Marks(m) \subseteq Shown(center[p], sync[p])
  PROVE  Panels'
<1> DEFINE hears == socket[p] \in {"rising", "open"}
<1> DEFINE s == sync[p]
<1>1. hears \in BOOLEAN
  OBVIOUS
<1>2. /\ s \in Asking /\ sync' = [sync EXCEPT ![p] = s]
      /\ socket' \in [Device -> Sockets] /\ out' \in [Device -> Seq(AlertEvent)]
  BY DEF Panels, PanelShape
<1>3. /\ Possible(center[p], s, out[p], Latest)
      /\ Follows(center[p], s, out[p], hears, Latest, BeingTold)
  BY DEF Panels, PanelFollows
<1>4. m.pc = "sent" => Marks(m) \subseteq Shown(center[p], s)
  OBVIOUS
<1>5. Shown(center[p], s) = Shown(center[p], sync[p])
  OBVIOUS
<1> HIDE DEF hears, s
<1>6. /\ Possible(d, s, out[p], Latest) /\ Follows(d, s, out[p], hears, Latest, BeingTold)
      /\ Shown(d, s) = Shown(center[p], s)
  BY <1>1, <1>3, SameFollows
<1>7. Follows(d, s, out'[p], socket'[p] \in {"rising", "open"}, Latest, BeingTold)
  BY <1>6 DEF hears
<1>8. /\ Possible(d, s, out'[p], Latest) /\ Shown(center[p], sync[p]) \subseteq Shown(d, s)
      /\ m.pc = "sent" => Marks(m) \subseteq Shown(d, s)
      /\ \A q \in Center : q # p => out'[q] = out[q] /\ socket'[q] = socket[q]
  BY <1>4, <1>5, <1>6
<1> QED
  BY <1>2, <1>7, <1>8, PanelMoves

(* What the user of a panel marks has been given to it.                    *)
LEMMA PanelsMark ==
  ASSUME Panels, NEW p \in Center, Mark(p)
  PROVE  Panels'
<1> DEFINE c == center[p]
<1> DEFINE d == [c EXCEPT !.reads = @ + 1]
<1>1. /\ UNCHANGED <<alerts, publish, sync, socket, out>> /\ center' = [center EXCEPT ![p] = d]
      /\ c \in Held
  BY DEF Mark, hubVars, Panels, PanelShape
<1>2. PICK m \in [pc : {"sent"}, all : {TRUE}, seq : {c.latest} \ {0}]
                 \cup [pc : {"sent"}, all : {FALSE}, seq : c.seen] :
        reading' = [reading EXCEPT ![p] = m]
  BY DEF Mark
<1>3. /\ c.latest \in Nat /\ c.base \in Nat /\ c.seen \subseteq Nat
      /\ \A n \in (c.base + 1)..c.latest : n \in c.seen \cup Pending(sync[p])
  BY <1>1 DEF Held, Panels, PanelFollows, Follows, HasAll
<1>4. m \in Marking /\ Marks(m) \subseteq Shown(c, sync[p])
  <2>1. CASE m \in [pc : {"sent"}, all : {TRUE}, seq : {c.latest} \ {0}]
    <3>1. m \in Marking /\ m.all /\ m.seq = c.latest
      BY <1>3, <2>1 DEF Marking
    <3>2. ASSUME NEW n \in 1..c.latest
          PROVE  n \in Shown(c, sync[p])
      <4>1. n \in 1..c.base \/ n \in (c.base + 1)..c.latest
        BY <1>3
      <4> QED
        BY <1>3, <4>1 DEF Shown
    <3> QED
      BY <3>1, <3>2 DEF Marks
  <2>2. CASE m \in [pc : {"sent"}, all : {FALSE}, seq : c.seen]
    <3>1. m \in Marking /\ ~m.all /\ m.seq \in c.seen
      BY <1>3, <2>2 DEF Marking
    <3> QED
      BY <3>1 DEF Marks, Shown
  <2> QED
    BY <1>2, <2>1, <2>2
<1>5. d \in Held /\ d.latest = c.latest /\ d.base = c.base /\ d.seen = c.seen
  BY <1>1 DEF Held
<1>6. d.latest = center[p].latest /\ d.base = center[p].base /\ d.seen = center[p].seen
      /\ Marks(m) \subseteq Shown(center[p], sync[p])
  BY <1>4, <1>5
<1> HIDE DEF c, d
<1> QED
  BY <1>1, <1>2, <1>4, <1>5, <1>6, PanelsOwn

(* The answer to a mark brings a count.                                    *)
LEMMA PanelsReadEnds ==
  ASSUME Panels, NEW p \in Center, FinishRead(p) \/ FailRead(p)
  PROVE  Panels'
<1> DEFINE c == center[p]
<1>1. /\ UNCHANGED <<alerts, publish, sync, socket, out>>
      /\ reading' = [reading EXCEPT ![p] = Idle] /\ c \in Held /\ Idle \in Marking /\ Idle.pc # "sent"
  BY DEF FinishRead, FailRead, hubVars, Panels, PanelShape, Marking, Idle
<1>2. PICK d \in Held : /\ center' = [center EXCEPT ![p] = d]
                        /\ d.latest = c.latest /\ d.base = c.base /\ d.seen = c.seen
  <2>1. CASE FinishRead(p)
    <3> DEFINE d == [c EXCEPT !.unread = reading[p].unread]
    <3>1. reading[p].unread \in Int /\ center' = [center EXCEPT ![p] = d]
      BY <2>1 DEF FinishRead, Panels, PanelShape, Marking, Idle
    <3>2. d \in Held /\ d.latest = c.latest /\ d.base = c.base /\ d.seen = c.seen
      BY <1>1, <3>1 DEF Held
    <3> QED
      BY <3>1, <3>2
  <2>2. CASE FailRead(p)
    BY <1>1, <2>2 DEF FailRead, Panels, PanelShape
  <2> QED
    BY <2>1, <2>2
<1>3. d.latest = center[p].latest /\ d.base = center[p].base /\ d.seen = center[p].seen
  BY <1>2
<1> HIDE DEF c
<1> QED
  BY <1>1, <1>2, <1>3, PanelsOwn

(* Whatever goes wrong, an alert is stored once.                           *)
LEMMA StoredNext ==
  ASSUME AlertsStored, [AlertsNext]_allVars
  PROVE  AlertsStored'
<1>1. /\ Latest \in Nat /\ DOMAIN alerts = 1..Latest
      /\ \A n \in 1..Latest : alerts[n] \in Entry
  BY Counted DEF AlertsStored
<1>2. CASE UNCHANGED alerts
  BY <1>2 DEF AlertsStored, OneAlertPerEvent, Latest
<1>3. ASSUME NEW src \in Source, InsertAlert(src), ~Known(KeyOf[src])
      PROVE  AlertsStored'
  <2> DEFINE e == [key |-> KeyOf[src], read |-> FALSE]
  <2>1. alerts' = Append(alerts, e) /\ e \in Entry
    BY <1>3 DEF InsertAlert, Entry
  <2>2. /\ alerts' \in Seq(Entry) /\ Latest' = Latest + 1
        /\ alerts'[Latest + 1] = e /\ \A n \in 1..Latest : alerts'[n] = alerts[n]
    BY <1>1, <2>1 DEF AlertsStored, Latest
  <2>3. \A n \in 1..Latest : alerts[n].key # e.key
    BY <1>3 DEF Known
  <2>4. ASSUME NEW m \in 1..(Latest + 1), NEW n \in 1..(Latest + 1), alerts'[m].key = alerts'[n].key
        PROVE  m = n
    <3> HIDE DEF e
    <3>1. CASE m \in 1..Latest /\ n \in 1..Latest
      BY <2>2, <2>4, <3>1 DEF AlertsStored, OneAlertPerEvent
    <3>2. CASE m = Latest + 1 \/ n = Latest + 1
      BY <1>1, <2>2, <2>3, <2>4, <3>2
    <3> QED
      BY <1>1, <3>1, <3>2
  <2> QED
    BY <2>2, <2>4 DEF AlertsStored, OneAlertPerEvent
<1>4. ASSUME NEW p \in Center, UpdateRead(p)
      PROVE  AlertsStored'
  <2>1. /\ alerts' \in Seq(Entry) /\ Latest' = Latest
        /\ \A n \in 1..Latest : alerts'[n].key = alerts[n].key
    <3>1. CASE reading[p].all
      <4> DEFINE upTo == reading[p].seq
      <4> DEFINE marked(n) == [alerts[n] EXCEPT !.read = @ \/ n <= upTo]
      <4>1. alerts' = [n \in 1..Latest |-> marked(n)]
        BY <1>4, <3>1 DEF UpdateRead, MarkUpTo
      <4>2. \A n \in 1..Latest : marked(n) \in Entry /\ marked(n).key = alerts[n].key
        <5> SUFFICES ASSUME NEW n \in 1..Latest
                     PROVE  marked(n) \in Entry /\ marked(n).key = alerts[n].key
          OBVIOUS
        <5>1. alerts[n] \in Entry /\ (alerts[n].read \/ n <= upTo) \in BOOLEAN
          BY <1>1
        <5> QED
          BY <5>1 DEF Entry
      <4> HIDE DEF marked
      <4>3. alerts' \in Seq(Entry) /\ Len(alerts') = Latest
        BY <1>1, <4>1, <4>2
      <4> QED
        BY <4>1, <4>2, <4>3 DEF Latest
    <3>2. CASE ~reading[p].all
      <4> DEFINE k == reading[p].seq
      <4>1. alerts' = [alerts EXCEPT ![k].read = TRUE]
        BY <1>4, <3>2 DEF UpdateRead, MarkOne
      <4>2. k \in 1..Latest => [alerts[k] EXCEPT !.read = TRUE] \in Entry
        BY <1>1 DEF Entry
      <4>3. alerts' \in Seq(Entry) /\ Len(alerts') = Len(alerts)
        <5>1. alerts \in [1..Latest -> Entry]
          BY <1>1 DEF AlertsStored, Latest
        <5>2. alerts' \in [1..Latest -> Entry]
          BY <4>1, <4>2, <5>1
        <5> QED
          BY <1>1, <5>2 DEF Latest
      <4>4. \A n \in 1..Latest : alerts'[n].key = alerts[n].key
        BY <1>1, <4>1 DEF Entry
      <4> QED
        BY <4>3, <4>4 DEF Latest
    <3> QED
      BY <3>1, <3>2
  <2> QED
    BY <2>1 DEF AlertsStored, OneAlertPerEvent
<1> USE DEF hubVars, alertVars
<1>5. ASSUME NEW src \in Source,
             InsertAlert(src) \/ TellAlert(src) \/ LoseAlert(src) \/ Tick(src)
      PROVE  AlertsStored'
  BY <1>2, <1>3, <1>5 DEF InsertAlert, TellAlert, LoseAlert, Tick
<1>6. ASSUME NEW p \in Center, ReadCount(p) \/ ReadLatest(p) \/ ReadUnread(p)
             \/ FinishSummary(p) \/ FinishList(p) \/ FailSync(p) \/ Remind(p)
             \/ Resume(p) \/ CenterSocket(p) \/ Hear(p) \/ Mark(p)
             \/ TellRead(p) \/ FinishRead(p) \/ FailRead(p)
      PROVE  UNCHANGED alerts
  BY <1>6 DEF ReadCount, ReadLatest, ReadUnread, FinishSummary, FinishList, FailSync, Remind,
              Resume, CenterSocket, Hear, Mark, TellRead, FinishRead, FailRead
<1>7. CASE UNCHANGED allVars
  BY <1>2, <1>7 DEF allVars
<1> QED
  BY <1>2, <1>4, <1>5, <1>6, <1>7 DEF AlertsNext

(* The first mishap stays.                                                 *)
LEMMA UpsetStays ==
  ASSUME [AlertsNext]_allVars, upset' = "none"
  PROVE  upset = "none" /\ \A p \in Center : ~FailSync(p)
<1>1. ASSUME NEW src \in Source, InsertAlert(src) \/ LoseAlert(src) \/ Tick(src)
      PROVE  upset = "none"
  BY <1>1 DEF InsertAlert, LoseAlert, Tick
<1>2. ASSUME NEW e, TellAlerts(e)
      PROVE  upset = "none"
  BY <1>2, NotUpset DEF TellAlerts, CenterRises
<1>3. ASSUME NEW src \in Source, TellAlert(src)
      PROVE  upset = "none"
  BY <1>2, <1>3 DEF TellAlert
<1>4. ASSUME NEW p \in Center, TellRead(p)
      PROVE  upset = "none"
  BY <1>2, <1>4 DEF TellRead
<1>5. ASSUME NEW p \in Center, Resume(p)
      PROVE  upset = "none"
  BY <1>5, NotUpset DEF Resume
<1>6. ASSUME NEW p \in Center
      PROVE  ~FailSync(p)
  BY NotUpset DEF FailSync
<1>7. ASSUME NEW p \in Center, ReadCount(p) \/ ReadLatest(p) \/ ReadUnread(p)
             \/ FinishSummary(p) \/ FinishList(p) \/ Remind(p) \/ CenterSocket(p)
             \/ Hear(p) \/ Mark(p) \/ UpdateRead(p) \/ FinishRead(p) \/ FailRead(p)
      PROVE  upset = "none"
  BY <1>7 DEF ReadCount, ReadLatest, ReadUnread, FinishSummary, FinishList, Remind,
              CenterSocket, alertVars, Hear, Mark, UpdateRead, FinishRead, FailRead
<1>8. CASE UNCHANGED allVars
  BY <1>6, <1>8 DEF allVars, alertVars
<1> QED
  BY <1>1, <1>3, <1>4, <1>5, <1>6, <1>7, <1>8 DEF AlertsNext

(* Until the first mishap, a step keeps what is promised to the panels.    *)
LEMMA PanelsNext ==
  ASSUME AlertsStored, Panels, [AlertsNext]_allVars, upset' = "none"
  PROVE  Panels'
<1>1. ASSUME NEW src \in Source,
             InsertAlert(src) \/ TellAlert(src) \/ LoseAlert(src) \/ Tick(src)
      PROVE  Panels'
  BY <1>1, PanelsInsert, PanelsTellAlert, PanelsIdleSource
<1>2. ASSUME NEW p \in Center, ReadCount(p) \/ ReadLatest(p) \/ ReadUnread(p)
             \/ FinishSummary(p) \/ FinishList(p) \/ Remind(p) \/ Resume(p)
      PROVE  Panels'
  BY <1>2, PanelsRequest, PanelsSummary, PanelsList, PanelsAsk
<1>3. ASSUME NEW p \in Center, CenterSocket(p) \/ Hear(p) \/ Mark(p)
             \/ UpdateRead(p) \/ TellRead(p) \/ FinishRead(p) \/ FailRead(p)
      PROVE  Panels'
  BY <1>3, PanelsSocket, PanelsHear, PanelsMark, PanelsUpdateRead, PanelsTellRead, PanelsReadEnds
<1>4. CASE UNCHANGED allVars
  BY <1>4 DEF allVars, alertVars, hubVars, Panels, PanelShape, OneTold, BeingTold, ReadIsShown,
              PanelFollows, MarksShown, Latest
<1> QED
  BY <1>1, <1>2, <1>3, <1>4, UpsetStays DEF AlertsNext

(* At the start nothing is asked but the first count.                      *)
LEMMA PanelsInit ==
  ASSUME AlertsInit
  PROVE  AlertsStored /\ Panels
<1> DEFINE old == [key |-> Before, read |-> TRUE]
<1>1. alerts \in Seq(Entry) /\ Latest \in {0, 1} /\ \A n \in 1..Latest : alerts[n] = old
  <2>1. old \in Entry
    BY DEF Entry
  <2>2. alerts = <<>> \/ alerts = <<old>>
    BY DEF AlertsInit
  <2>3. CASE alerts = <<>>
    BY <2>3 DEF Latest
  <2>4. CASE alerts = <<old>>
    <3> HIDE DEF old
    <3>1. <<old>> \in Seq(Entry) /\ Len(<<old>>) = 1 /\ <<old>>[1] = old
      BY <2>1
    <3> QED
      BY <2>4, <3>1 DEF Latest
  <2> HIDE DEF old
  <2> QED
    BY <2>2, <2>3, <2>4
<1>2. AlertsStored
  BY <1>1 DEF AlertsStored, OneAlertPerEvent
<1> DEFINE c == [latest |-> 0, base |-> 0, seen |-> {}, unread |-> 0,
                 again |-> FALSE, reads |-> 0]
<1> DEFINE s == [pc |-> "count"]
<1>3. /\ center = [p \in Center |-> c] /\ sync = [p \in Center |-> s]
      /\ reading = [p \in Center |-> Idle] /\ publish = [r \in Source |-> [pc |-> "due"]]
      /\ socket = [d \in Device |-> "off"] /\ out = [d \in Device |-> <<>>]
  BY DEF AlertsInit, HubInit
<1>4. PanelShape
  <2>1. c \in Held /\ s \in Asking /\ <<>> \in Seq(AlertEvent) /\ Idle \in Marking
    BY DEF Held, Asking, Marking
  <2> HIDE DEF c, s
  <2> QED
    BY <1>3, <2>1 DEF PanelShape, Publishing, Sockets
<1>5. OneTold
  BY <1>3 DEF OneTold, BeingTold
<1>6. ReadIsShown
  BY <1>1 DEF ReadIsShown
<1>7. ASSUME NEW p \in Center
      PROVE  PanelFollows(p) /\ MarksShown(p)
  <2>1. /\ center[p] = c /\ sync[p] = s /\ out[p] = <<>> /\ reading[p] = Idle
        /\ socket[p] \notin {"rising", "open"}
    BY <1>3, AlertsAssumption
  <2>2. MarksShown(p)
    BY <2>1 DEF MarksShown, Idle
  <2>3. Possible(c, s, <<>>, Latest)
    BY <1>1 DEF Possible, Held, Asking, Pending
  <2>4. Consecutive(<<>>) /\ GivenInTurn(c, s, <<>>)
    BY DEF Consecutive, GivenInTurn
  <2>5. HasAll(c, s)
    BY DEF HasAll, Pending
  <2>6. (socket[p] \in {"rising", "open"}) = FALSE
    BY <2>1
  <2>7. Follows(c, s, <<>>, FALSE, Latest, BeingTold)
    BY <2>4, <2>5 DEF Follows
  <2> HIDE DEF c, s
  <2> QED
    BY <2>1, <2>2, <2>3, <2>6, <2>7 DEF PanelFollows
<1> QED
  BY <1>2, <1>4, <1>5, <1>6, <1>7 DEF Panels

(* The invariant behind the properties of the alerts, for any number of    *)
(* panels, sources and topics and queues of any length.                    *)
THEOREM AlertsInvariance == AlertsSpec => []AlertsIInv
<1>1. AlertsInit => AlertsIInv
  BY PanelsInit DEF AlertsIInv
<1>2. AlertsIInv /\ [AlertsNext]_allVars => AlertsIInv'
  BY StoredNext, PanelsNext, UpsetStays DEF AlertsIInv
<1> QED
  BY <1>1, <1>2, PTL DEF AlertsSpec

(* One event, one alert: whatever is published again, by another task or   *)
(* by the next tick, and whatever goes wrong (alerts.go, Insert).          *)
THEOREM OneAlertPerEventHolds == AlertsSpec => []OneAlertPerEvent
<1>1. AlertsIInv => OneAlertPerEvent
  BY DEF AlertsIInv, AlertsStored
<1> QED
  BY <1>1, AlertsInvariance, PTL

(* A panel at rest has been given every alert since the first number it    *)
(* knew, unless something was told while a socket rose, a socket came up   *)
(* over an older request, or a request failed (notification_center.dart).  *)
THEOREM NoneSkippedHolds == AlertsSpec => []NoneSkipped
<1>1. AlertsIInv => NoneSkipped
  <2> SUFFICES ASSUME AlertsIInv, upset = "none", NEW p \in Center, Settled(p),
                      NEW n \in (center[p].base + 1)..Latest
               PROVE  n \in center[p].seen
    BY DEF NoneSkipped, AllGiven
  <2>1. /\ out[p] = <<>> /\ sync[p] = Idle /\ BeingTold = {}
        /\ socket[p] \in {"rising", "open"}
    BY DEF Settled, AlertLockFree, BeingTold
  <2>2. /\ Possible(center[p], sync[p], out[p], Latest)
        /\ HasAll(center[p], sync[p])
        /\ AllComing(center[p], sync[p], out[p], Latest, BeingTold)
    BY <2>1 DEF AlertsIInv, Panels, PanelFollows, Follows
  <2>3. /\ ~Unsure(center[p], sync[p]) /\ Pending(sync[p]) = {}
        /\ Reached(center[p], sync[p]) = center[p].latest
    BY <2>1 DEF Unsure, Pending, Reached, Idle
  <2>4. center[p].latest \in Nat /\ center[p].base \in Nat /\ Latest \in Nat
    BY <2>2 DEF Possible, Held
  <2>5. n \notin (center[p].latest + 1)..Latest
    BY <2>1, <2>2, <2>3 DEF AllComing, IsComing, AmongFirst
  <2>6. n \in (center[p].base + 1)..center[p].latest
    BY <2>4, <2>5
  <2> QED
    BY <2>2, <2>3, <2>6 DEF HasAll
<1> QED
  BY <1>1, AlertsInvariance, PTL

(* Until the first mishap, what no panel has been given, or is about to    *)
(* be, stays unread (alerts.go, MarkAllRead).                              *)
THEOREM OnlySeenIsReadHolds == AlertsSpec => []OnlySeenIsRead
<1>1. AlertsIInv => OnlySeenIsRead
  BY DEF AlertsIInv, Panels, ReadIsShown, Shown, Pending, OnlySeenIsRead, OnTheWay
<1> QED
  BY <1>1, AlertsInvariance, PTL

=============================================================================
