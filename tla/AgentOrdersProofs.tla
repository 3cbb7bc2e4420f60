------------------------- MODULE AgentOrdersProofs -------------------------
(***************************************************************************)
(* What the agent of a partner does alone stays within the customer's      *)
(* limits, and the customer pays the price that was shown.  The lock of a  *)
(* grant makes room for one draft at a time; the limits of a grant in use  *)
(* never change, though its row is written whole from old copies.          *)
(***************************************************************************)
EXTENDS AgentOrders, FiniteSetTheorems, WellFoundedInduction, TLAPS

-----------------------------------------------------------------------------
(* Sums over finite sets *)

(* SumFunctionOnSet is defined by a function that takes one element at a   *)
(* time out of a set; what one more element does to a sum needs an         *)
(* induction over finite sets, done here by looking at a least             *)
(* counterexample.  The same lemmas are in CheckoutProofs.                 *)

(* Among subsets of a finite set there is one that holds no other.         *)
LEMMA MinimalSubset ==
  ASSUME NEW S, IsFiniteSet(S), NEW C, C \subseteq SUBSET S, C # {}
  PROVE  \E T \in C : \A U \in C : U \subseteq T => U = T
<1> DEFINE R == StrictSubsetOrdering(S)
<1> DEFINE F == FiniteSubsetsOf(S)
<1>1. IsWellFoundedOn(R, F)
  BY FS_StrictSubsetOrderingWellFounded
<1>2. \A T \in C : T \in F
  BY FS_Subset DEF FiniteSubsetsOf
<1>3. \E T \in C : \A U \in C : ~ (<<U, T>> \in R)
  <2> HIDE DEF R, F
  <2>1. C \subseteq F /\ \E x : x \in C
    BY <1>2
  <2>2. QED
    BY <1>1, <2>1, WFMin
<1>4. QED
  BY <1>3 DEF StrictSubsetOrdering

Pick(S) == CHOOSE x \in S : TRUE
Sum(f, S) == SumFunctionOnSet(f, S)
Unfolded(f, S, sum) ==
  sum = [s \in SUBSET S |-> IF s = {} THEN 0 ELSE f[Pick(s)] + sum[s \ {Pick(s)}]]
OneLess(f, S) == IF S = {} THEN 0 ELSE f[Pick(S)] + Sum(f, S \ {Pick(S)})

(* The definition, without the operators it passes on.                     *)
LEMMA SumIs ==
  ASSUME NEW f, NEW S
  PROVE  Sum(f, S) = (CHOOSE sum : Unfolded(f, S, sum))[S]
BY DEF Sum, SumFunctionOnSet, FoldFunctionOnSet, MapThenFoldSet, Unfolded, Pick

(* An element picked from a set is in it.                                  *)
LEMMA PickIsIn ==
  ASSUME NEW S, S # {}
  PROVE  Pick(S) \in S
BY DEF Pick

(* If the smaller sets are summed one element at a time, so is this one.   *)
LEMMA UnfoldStep ==
  ASSUME NEW f, NEW S, IsFiniteSet(S),
         \A s \in SUBSET S : s # S => Sum(f, s) = OneLess(f, s)
  PROVE  Sum(f, S) = OneLess(f, S)
<1> DEFINE sums == [s \in SUBSET S |-> IF s = S THEN OneLess(f, S) ELSE Sum(f, s)]
<1>1. ASSUME NEW s \in SUBSET S
      PROVE  sums[s] = IF s = {} THEN 0 ELSE f[Pick(s)] + sums[s \ {Pick(s)}]
  <2>1. sums[s] = OneLess(f, s)
    OBVIOUS
  <2>2. CASE s = {}
    BY <2>1, <2>2 DEF OneLess
  <2>3. CASE s # {}
    <3>1. s \ {Pick(s)} \in SUBSET S /\ s \ {Pick(s)} # S
      BY <2>3, PickIsIn
    <3>2. sums[s \ {Pick(s)}] = Sum(f, s \ {Pick(s)})
      BY <3>1
    <3>3. QED
      BY <2>1, <2>3, <3>2 DEF OneLess
  <2>4. QED
    BY <2>2, <2>3
<1>2. Unfolded(f, S, sums)
  <2> DEFINE body == [s \in SUBSET S |-> IF s = {} THEN 0 ELSE f[Pick(s)] + sums[s \ {Pick(s)}]]
  <2>1. sums = body
    BY <1>1
  <2>2. QED
    BY <2>1 DEF Unfolded
<1> DEFINE sum == CHOOSE g : Unfolded(f, S, g)
<1>3. Unfolded(f, S, sum)
  BY <1>2
<1>4. ASSUME NEW s \in SUBSET S
      PROVE  sum[s] = IF s = {} THEN 0 ELSE f[Pick(s)] + sum[s \ {Pick(s)}]
  BY <1>3 DEF Unfolded
<1>5. \A s \in SUBSET S : s # S => sum[s] = Sum(f, s)
  <2> DEFINE Wrong == {s \in SUBSET S : s # S /\ sum[s] # Sum(f, s)}
  <2> HIDE DEF sum
  <2>1. SUFFICES ASSUME Wrong # {} PROVE FALSE
    OBVIOUS
  <2>2. PICK s \in Wrong : \A t \in Wrong : t \subseteq s => t = s
    <3>1. Wrong \subseteq SUBSET S
      OBVIOUS
    <3> HIDE DEF Wrong
    <3>2. QED
      BY <2>1, <3>1, MinimalSubset
  <2>3. s # {}
    <3>1. SUFFICES ASSUME s = {} PROVE FALSE
      OBVIOUS
    <3>2. sum[s] = 0 /\ Sum(f, s) = 0
      BY <1>4, <2>2, <3>1 DEF OneLess
    <3>3. QED
      BY <2>2, <3>2
  <2>4. Pick(s) \in s
    BY <2>3, PickIsIn
  <2>5. s \ {Pick(s)} \in SUBSET S /\ s \ {Pick(s)} # S /\ s \ {Pick(s)} \notin Wrong
    BY <2>2, <2>4
  <2>6. sum[s \ {Pick(s)}] = Sum(f, s \ {Pick(s)})
    BY <2>5
  <2>7. sum[s] = f[Pick(s)] + sum[s \ {Pick(s)}]
    BY <1>4, <2>2, <2>3
  <2>8. Sum(f, s) = f[Pick(s)] + Sum(f, s \ {Pick(s)})
    BY <2>2, <2>3 DEF OneLess
  <2>9. QED
    BY <2>2, <2>6, <2>7, <2>8
<1>6. Sum(f, S) = sum[S]
  BY SumIs
<1> HIDE DEF sum
<1>7. CASE S = {}
  BY <1>4, <1>6, <1>7 DEF OneLess
<1>8. CASE S # {}
  <2>1. Pick(S) \in S
    BY <1>8, PickIsIn
  <2>2. sum[S \ {Pick(S)}] = Sum(f, S \ {Pick(S)})
    BY <1>5, <2>1
  <2>3. QED
    BY <1>4, <1>6, <1>8, <2>2 DEF OneLess
<1>9. QED
  BY <1>7, <1>8

(* Every sum over a finite set takes one element at a time.                *)
LEMMA SumUnfolds ==
  ASSUME NEW f, NEW S, IsFiniteSet(S)
  PROVE  Sum(f, S) = OneLess(f, S)
<1> DEFINE Wrong == {s \in SUBSET S : Sum(f, s) # OneLess(f, s)}
<1>1. SUFFICES ASSUME Wrong # {} PROVE FALSE
  OBVIOUS
<1>2. PICK s \in Wrong : \A t \in Wrong : t \subseteq s => t = s
  <2>1. Wrong \subseteq SUBSET S
    OBVIOUS
  <2> HIDE DEF Wrong
  <2>2. QED
    BY <1>1, <2>1, MinimalSubset
<1>3. \A t \in SUBSET s : t # s => Sum(f, t) = OneLess(f, t)
  BY <1>2
<1>4. IsFiniteSet(s)
  BY <1>2, FS_Subset
<1>5. QED
  BY <1>2, <1>3, <1>4, UnfoldStep

(* Nothing adds up to nothing.                                             *)
LEMMA SumOfNone ==
  ASSUME NEW f
  PROVE  SumFunctionOnSet(f, {}) = 0
BY SumUnfolds, FS_EmptySet DEF Sum, OneLess

(* Whole numbers add up to a whole number.                                 *)
LEMMA SumIsInt ==
  ASSUME NEW f, NEW S, IsFiniteSet(S), \A x \in S : f[x] \in Int
  PROVE  SumFunctionOnSet(f, S) \in Int
<1> DEFINE Wrong == {s \in SUBSET S : Sum(f, s) \notin Int}
<1>1. SUFFICES ASSUME Wrong # {} PROVE FALSE
  BY DEF Sum
<1>2. PICK s \in Wrong : \A t \in Wrong : t \subseteq s => t = s
  <2>1. Wrong \subseteq SUBSET S
    OBVIOUS
  <2> HIDE DEF Wrong
  <2>2. QED
    BY <1>1, <2>1, MinimalSubset
<1>3. Sum(f, s) = OneLess(f, s)
  BY <1>2, FS_Subset, SumUnfolds
<1>4. s # {}
  BY <1>2, <1>3 DEF OneLess
<1>5. Pick(s) \in s
  BY <1>4, PickIsIn
<1>6. s \ {Pick(s)} \in SUBSET S /\ s \ {Pick(s)} \notin Wrong
  BY <1>2, <1>5
<1>7. Sum(f, s \ {Pick(s)}) \in Int /\ f[Pick(s)] \in Int
  BY <1>2, <1>5, <1>6
<1>8. QED
  BY <1>2, <1>3, <1>4, <1>7 DEF OneLess

(* A sum looks at nothing but what it adds.                                *)
LEMMA SumOfSame ==
  ASSUME NEW f, NEW g, NEW S, IsFiniteSet(S), \A x \in S : f[x] = g[x]
  PROVE  SumFunctionOnSet(f, S) = SumFunctionOnSet(g, S)
<1> DEFINE Wrong == {s \in SUBSET S : Sum(f, s) # Sum(g, s)}
<1>1. SUFFICES ASSUME Wrong # {} PROVE FALSE
  BY DEF Sum
<1>2. PICK s \in Wrong : \A t \in Wrong : t \subseteq s => t = s
  <2>1. Wrong \subseteq SUBSET S
    OBVIOUS
  <2> HIDE DEF Wrong
  <2>2. QED
    BY <1>1, <2>1, MinimalSubset
<1>3. Sum(f, s) = OneLess(f, s) /\ Sum(g, s) = OneLess(g, s)
  BY <1>2, FS_Subset, SumUnfolds
<1>4. s # {}
  BY <1>2, <1>3 DEF OneLess
<1>5. Pick(s) \in s
  BY <1>4, PickIsIn
<1>6. Sum(f, s \ {Pick(s)}) = Sum(g, s \ {Pick(s)})
  BY <1>2, <1>5
<1>7. f[Pick(s)] = g[Pick(s)]
  BY <1>2, <1>5
<1>8. QED
  BY <1>2, <1>3, <1>4, <1>6, <1>7 DEF OneLess

(* One more element adds what it counts for.                               *)
LEMMA SumOfOneMore ==
  ASSUME NEW f, NEW S, IsFiniteSet(S), NEW y, y \notin S, \A x \in S \cup {y} : f[x] \in Int
  PROVE  SumFunctionOnSet(f, S \cup {y}) = SumFunctionOnSet(f, S) + f[y]
<1> DEFINE All == S \cup {y}
<1> DEFINE Adds(s, z) == Sum(f, s \cup {z}) = Sum(f, s) + f[z]
<1> DEFINE Wrong == {s \in SUBSET All : \E z \in All \ s : ~Adds(s, z)}
<1>1. SUFFICES ASSUME Wrong # {} PROVE FALSE
  BY DEF Sum
<1>2. IsFiniteSet(All)
  BY FS_AddElement
<1>3. \A t \in SUBSET All : IsFiniteSet(t) /\ Sum(f, t) \in Int
  <2> TAKE t \in SUBSET All
  <2>1. IsFiniteSet(t) /\ \A z \in t : f[z] \in Int
    BY <1>2, FS_Subset
  <2>2. QED
    BY <2>1, SumIsInt DEF Sum
<1>4. PICK s \in Wrong : \A t \in Wrong : t \subseteq s => t = s
  <2>1. Wrong \subseteq SUBSET All
    OBVIOUS
  <2> HIDE DEF Wrong, All
  <2>2. QED
    BY <1>1, <1>2, <2>1, MinimalSubset
<1>5. PICK z \in All \ s : ~Adds(s, z)
  BY <1>4
<1>6. \A t \in SUBSET s : t # s => \A x \in All \ t : Adds(t, x)
  BY <1>4
<1>7. s \in SUBSET All /\ s \cup {z} \in SUBSET All /\ s \cup {z} # {}
  BY <1>4, <1>5
<1> DEFINE x == Pick(s \cup {z})
<1>8. x \in s \cup {z}
  BY PickIsIn
<1>9. Sum(f, s \cup {z}) = f[x] + Sum(f, (s \cup {z}) \ {x})
  <2>1. IsFiniteSet(s \cup {z})
    BY <1>3, <1>7
  <2>2. Sum(f, s \cup {z}) = OneLess(f, s \cup {z})
    BY <2>1, SumUnfolds
  <2>3. QED
    BY <1>7, <2>2 DEF OneLess
<1> HIDE DEF x, Wrong
<1>10. Sum(f, s) \in Int /\ f[z] \in Int /\ f[x] \in Int
  BY <1>3, <1>5, <1>7, <1>8
<1>11. CASE x = z
  <2>1. (s \cup {z}) \ {x} = s
    BY <1>5, <1>11
  <2>2. Sum(f, s \cup {z}) = f[z] + Sum(f, s)
    BY <1>9, <1>11, <2>1
  <2>3. QED
    BY <1>5, <1>10, <2>2
<1>12. CASE x # z
  <2> DEFINE r == s \ {x}
  <2>1. x \in s /\ (s \cup {z}) \ {x} = r \cup {z} /\ r \in SUBSET s /\ r # s
        /\ x \in All \ r /\ z \in All \ r /\ r \cup {x} = s /\ r \in SUBSET All
    BY <1>5, <1>7, <1>8, <1>12
  <2>2. Sum(f, r \cup {z}) = Sum(f, r) + f[z]
    BY <1>6, <2>1
  <2>3. Sum(f, r \cup {x}) = Sum(f, r) + f[x]
    BY <1>6, <2>1
  <2>4. Sum(f, r) \in Int
    BY <1>3, <2>1
  <2>5. Sum(f, s \cup {z}) = f[x] + (Sum(f, r) + f[z])
    BY <1>9, <2>1, <2>2
  <2>6. Sum(f, s) = Sum(f, r) + f[x]
    BY <2>1, <2>3
  <2> HIDE DEF r
  <2>7. Sum(f, s \cup {z}) = Sum(f, s) + f[z]
    BY <1>10, <2>4, <2>5, <2>6
  <2>8. QED
    BY <1>5, <2>7
<1>13. QED
  BY <1>11, <1>12

(* With natural numbers, more elements do not add up to less.              *)
LEMMA SumOfMore ==
  ASSUME NEW f, NEW T, IsFiniteSet(T), NEW S, S \subseteq T, \A x \in T : f[x] \in Nat
  PROVE  SumFunctionOnSet(f, S) <= SumFunctionOnSet(f, T)
<1> DEFINE Wrong == {s \in SUBSET T : S \subseteq s /\ ~(Sum(f, S) <= Sum(f, s))}
<1>1. SUFFICES ASSUME Wrong # {} PROVE FALSE
  BY DEF Sum
<1>2. PICK s \in Wrong : \A t \in Wrong : t \subseteq s => t = s
  <2>1. Wrong \subseteq SUBSET T
    OBVIOUS
  <2> HIDE DEF Wrong
  <2>2. QED
    BY <1>1, <2>1, MinimalSubset
<1>3. \A t \in SUBSET T : IsFiniteSet(t) /\ Sum(f, t) \in Int
  <2> TAKE t \in SUBSET T
  <2>1. IsFiniteSet(t) /\ \A x \in t : f[x] \in Int
    BY FS_Subset
  <2>2. QED
    BY <2>1, SumIsInt DEF Sum
<1>4. s \in SUBSET T /\ S \subseteq s /\ ~(Sum(f, S) <= Sum(f, s))
  BY <1>2
<1>5. PICK y \in s : y \notin S
  BY <1>3, <1>4
<1>6. PICK r \in SUBSET T : r = s \ {y}
  BY <1>4
<1>7. S \subseteq r /\ r \subseteq s /\ r # s /\ y \notin r /\ s = r \cup {y}
  BY <1>4, <1>5, <1>6
<1>8. Sum(f, S) <= Sum(f, r)
  BY <1>2, <1>7
<1>9. Sum(f, s) = Sum(f, r) + f[y]
  <2>1. \A x \in r \cup {y} : f[x] \in Int
    BY <1>4, <1>7
  <2>2. QED
    BY <1>3, <1>7, <2>1, SumOfOneMore DEF Sum
<1>10. f[y] \in Nat /\ Sum(f, S) \in Int /\ Sum(f, r) \in Int
  BY <1>3, <1>4, <1>5
<1>11. QED
  BY <1>4, <1>8, <1>9, <1>10

-----------------------------------------------------------------------------
(* The inductive invariant *)

InUse(g) == g \in Grant /\ grants[g].status # "absent"
Made == {d \in Draft : drafts[d].status # "absent"}

(* A copy of a grant's row that may be written back.                       *)
CopyOf(row, g) ==
  InUse(g) /\ row \in GrantRow /\ row.status # "absent" /\ row.limits = grants[g].limits

Agents == {"agent", "late_agent"}
Placed(g, day) == OfDay(AskedBy(g, {"agent"}), day)

(* There is room for the draft in the limit of its day.                    *)
Room(d) ==
  LET g == drafts[d].grant
  IN  grants[g].limits[2] > 0 =>
        Spent(Placed(g, drafts[d].day)) + drafts[d].total <= grants[g].limits[2]

(* A goroutine with the lock of its grant: what it knows of its draft.     *)
Holding == {"place", "undo", "placed"}
Holds(h, j) ==
  /\ lock[j.grant] = h /\ drafts[j.draft].grant = j.grant
  /\ \/ asked[j.draft] = "customer" /\ drafts[j.draft].status \in {"awaiting_user", "rejected"}
     \/ /\ asked[j.draft] \in Agents /\ drafts[j.draft].status \in {"draft", "rejected"}
        /\ asked[j.draft] = "agent" => Room(j.draft)

GoodJob(h, j) ==
  /\ j.pc \in {"token", "revoke"} => CopyOf(j.copy, j.grant)
  /\ j.pc = "revoke_old" => CopyOf(j.old, j.grant)
  /\ j.pc \in {"replace", "revoke_old", "create"} => j.copy.status = "active"
  /\ j.pc = "decide" => (j.row.status = "approved" => j.row.grant \in Grant)
  /\ j.pc = "draft" => InUse(j.grant)
  /\ j.pc \in {"lock", "reject"} \cup Holding => j.draft \in Made
  /\ j.pc = "lock" /\ j.user => drafts[j.draft].grant = j.grant
  /\ j.pc \in Holding => Holds(h, j)

GoodJobs == \A h \in Handler : GoodJob(h, job[h])
GoodLinks == \A l \in Link : links[l].status = "approved" => links[l].grant \in Grant

GoodDraft(d) ==
  /\ drafts[d].status = "absent" => order[d] = NoOrder /\ asked[d] = "nobody"
  /\ drafts[d].status # "absent" => InUse(drafts[d].grant)
  /\ drafts[d].status = "draft" \/ asked[d] \in Agents
       => drafts[d].total <= grants[drafts[d].grant].limits[1]
GoodDrafts == IsFiniteSet(Made) /\ \A d \in Draft : GoodDraft(d)

WithinDay == \A g \in Grant : InUse(g) /\ grants[g].limits[2] > 0 =>
  \A day \in 0..MaxDay : Spent(Placed(g, day)) <= grants[g].limits[2]

IInv == TypeOK /\ GoodJobs /\ GoodLinks /\ GoodDrafts /\ WithinDay /\ WhatTheCustomerSaw

-----------------------------------------------------------------------------
(* What is spent *)

(* A goroutine's step tells what kind of record it keeps.                  *)
LEMMA KindsOfJobs ==
  ASSUME TypeOK, NEW h \in Handler
  PROVE  /\ job[h] = Idle => job[h].pc = "idle"
         /\ job[h].pc \in {"token", "consume", "replace", "revoke_old", "create", "decide", "revoke"}
              => job[h] \in LinkJob
         /\ job[h].pc \in {"draft", "lock", "reject"} \cup Holding => job[h] \in DraftJob
BY DEF TypeOK, Idle, LinkJob, DraftJob, Holding

(* What a draft costs.                                                     *)
LEMMA TotalsAreNat ==
  ASSUME TypeOK, NEW d \in Draft
  PROVE  drafts[d] \in DraftRow /\ drafts[d].total \in Nat
<1>1. drafts \in [Draft -> DraftRow]
  BY DEF TypeOK
<1>2. drafts[d] \in DraftRow
  BY <1>1
<1>3. drafts[d].total \in Total \cup {0}
  BY <1>2 DEF DraftRow
<1>4. Total \cup {0} \subseteq Nat
  <2>1. \A t \in Total : t \in Nat
    BY TotalsArePositive
  <2>2. QED
    BY <2>1
<1>5. drafts[d].total \in Nat
  BY <1>3, <1>4
<1>6. QED
  BY <1>2, <1>5

(* Drafts with an order are among those that were made.                    *)
LEMMA PlacedAreMade ==
  ASSUME NEW g, NEW day
  PROVE  Placed(g, day) \subseteq Made /\ Placed(g, day) \subseteq Draft
BY DEF Placed, OfDay, AskedBy, Made

(* What is spent is a whole number.                                        *)
LEMMA SpentIsInt ==
  ASSUME TypeOK, IsFiniteSet(Made), NEW S, S \subseteq Made
  PROVE  Spent(S) \in Int
<1>1. IsFiniteSet(S) /\ S \subseteq Draft
  BY FS_Subset DEF Made
<1>2. \A d \in S : [x \in Draft |-> drafts[x].total][d] \in Int
  BY <1>1, TotalsAreNat
<1>3. QED
  BY <1>1, <1>2, SumIsInt DEF Spent

(* More drafts do not cost less.                                           *)
LEMMA MoreIsSpent ==
  ASSUME TypeOK, IsFiniteSet(Made), NEW T, T \subseteq Made, NEW S, S \subseteq T
  PROVE  Spent(S) <= Spent(T)
<1>1. IsFiniteSet(T) /\ T \subseteq Draft
  BY FS_Subset DEF Made
<1>2. \A d \in T : [x \in Draft |-> drafts[x].total][d] \in Nat
  BY <1>1, TotalsAreNat
<1>3. QED
  BY <1>1, <1>2, SumOfMore DEF Spent

(* When fewer drafts are placed and nothing about them changes, no more is *)
(* spent.                                                                  *)
LEMMA SpentKept ==
  ASSUME TypeOK, IsFiniteSet(Made), NEW g, NEW day, Placed(g, day)' \subseteq Placed(g, day),
         \A d \in Placed(g, day) : drafts'[d].total = drafts[d].total
  PROVE  /\ Spent(Placed(g, day)) \in Int /\ Spent(Placed(g, day))' \in Int
         /\ Spent(Placed(g, day))' <= Spent(Placed(g, day))
<1>1. PICK S : S = Placed(g, day)'
  OBVIOUS
<1>2. S \subseteq Placed(g, day) /\ Placed(g, day) \subseteq Made /\ S \subseteq Draft
  BY <1>1, PlacedAreMade
<1>3. Spent(S) \in Int /\ Spent(Placed(g, day)) \in Int /\ Spent(S) <= Spent(Placed(g, day))
  BY <1>2, SpentIsInt, MoreIsSpent
<1>4. IsFiniteSet(S)
  BY <1>2, FS_Subset
<1>5. PICK f : f = [x \in Draft |-> drafts[x].total]
  OBVIOUS
<1>6. PICK f2 : f2 = [x \in Draft |-> drafts'[x].total]
  OBVIOUS
<1>7. Spent(S) = SumFunctionOnSet(f, S) /\ Spent(Placed(g, day))' = SumFunctionOnSet(f2, S)
  BY <1>1, <1>5, <1>6 DEF Spent
<1>8. \A d \in S : f2[d] = f[d]
  BY <1>2, <1>5, <1>6
<1>9. SumFunctionOnSet(f2, S) = SumFunctionOnSet(f, S)
  BY <1>4, <1>8, SumOfSame
<1>10. QED
  BY <1>3, <1>7, <1>9

-----------------------------------------------------------------------------
(* What a step leaves alone *)

Kept == \A g : InUse(g) => grants'[g].status # "absent" /\ grants'[g].limits = grants[g].limits

(* A copy stays one, as the limits of a grant in use never change.         *)
LEMMA CopiesStay ==
  ASSUME NEW g, NEW row, CopyOf(row, g), Kept
  PROVE  CopyOf(row, g)'
BY DEF CopyOf, InUse, Kept

(* Requests come and go and grants change hands; drafts, orders and locks  *)
(* do not move.                                                            *)
LEMMA RequestsMove ==
  ASSUME IInv, UNCHANGED ordering, LinkingTypeOK', GoodLinks', Kept,
         job' \in [Handler -> {Idle} \cup LinkJob \cup DraftJob],
         \A h \in Handler :
           \/ job'[h] = job[h]
           \/ job[h].pc \notin Holding /\ job'[h].pc \notin Holding /\ GoodJob(h, job[h])'
  PROVE  IInv'
<1>1. UNCHANGED <<drafts, order, lock, today, asked>>
  BY DEF ordering
<1>2. TypeOK'
  <2>1. ASSUME NEW g \in Grant, lock[g] # None
        PROVE  job'[lock[g]].pc \in {"place", "undo", "placed"} /\ job'[lock[g]].grant = g
    <3>1. /\ lock[g] \in Handler /\ job[lock[g]].pc \in {"place", "undo", "placed"}
          /\ job[lock[g]].grant = g
      BY <2>1 DEF IInv, TypeOK
    <3>2. QED
      BY <3>1 DEF Holding
  <2>2. QED
    BY <1>1, <2>1 DEF IInv, TypeOK
<1>3. \A g, day : Placed(g, day)' = Placed(g, day) /\ Spent(Placed(g, day))' = Spent(Placed(g, day))
  BY <1>1 DEF Placed, AskedBy, OfDay, Spent
<1>4. GoodJobs'
  <2> SUFFICES ASSUME NEW h \in Handler, job'[h] = job[h] PROVE GoodJob(h, job[h])'
    BY DEF GoodJobs
  <2>1. GoodJob(h, job[h])
    BY DEF IInv, GoodJobs
  <2>2. Made' = Made
    BY <1>1 DEF Made
  <2>3. ASSUME job[h].pc \in Holding PROVE Holds(h, job[h])'
    <3>1. Holds(h, job[h]) /\ job[h].draft \in Made
      BY <2>1, <2>3 DEF GoodJob
    <3>2. InUse(drafts[job[h].draft].grant)
      BY <3>1 DEF IInv, GoodDrafts, GoodDraft, Made
    <3>3. Room(job[h].draft) => Room(job[h].draft)'
      BY <1>1, <1>3, <3>2 DEF Room, Kept
    <3>4. QED
      BY <1>1, <3>1, <3>3 DEF Holds
  <2>4. job[h].pc \in {"token", "revoke"} => CopyOf(job[h].copy, job[h].grant)'
    BY <2>1, CopiesStay DEF GoodJob
  <2>5. job[h].pc = "revoke_old" => CopyOf(job[h].old, job[h].grant)'
    BY <2>1, CopiesStay DEF GoodJob
  <2>6. job[h].pc = "draft" => InUse(job[h].grant)'
    BY <2>1 DEF GoodJob, InUse, Kept
  <2>7. QED
    BY <1>1, <2>1, <2>2, <2>3, <2>4, <2>5, <2>6 DEF GoodJob
<1>5. GoodDrafts'
  <2>1. Made' = Made
    BY <1>1 DEF Made
  <2>2. ASSUME NEW d \in Draft PROVE GoodDraft(d)'
    <3>1. GoodDraft(d)
      BY DEF IInv, GoodDrafts
    <3>2. drafts[d].status = "absent" => drafts[d].status # "draft" /\ asked[d] \notin Agents
      BY <3>1 DEF GoodDraft, Agents
    <3>3. QED
      BY <1>1, <3>1, <3>2 DEF GoodDraft, InUse, Kept
  <2>3. QED
    BY <2>1, <2>2 DEF IInv, GoodDrafts
<1>6. WithinDay'
  <2> SUFFICES ASSUME NEW g \in Grant, InUse(g)', grants'[g].limits[2] > 0, NEW day \in 0..MaxDay
               PROVE  Spent(Placed(g, day)) <= grants'[g].limits[2]
    BY <1>3 DEF WithinDay
  <2>1. CASE InUse(g)
    BY <2>1 DEF Kept, IInv, WithinDay
  <2>2. CASE ~InUse(g)
    <3>1. Placed(g, day) = {}
      BY <2>2 DEF IInv, GoodDrafts, GoodDraft, Placed, AskedBy, OfDay
    <3>2. Spent(Placed(g, day)) = 0
      BY <3>1, SumOfNone DEF Spent
    <3>3. grants'[g].limits \in Nat \X Nat
      BY LimitsAreLegal DEF LinkingTypeOK, GrantRow
    <3>4. QED
      BY <3>2, <3>3
  <2>3. QED
    BY <2>1, <2>2
<1>7. WhatTheCustomerSaw'
  BY <1>1 DEF IInv, WhatTheCustomerSaw, Holding
<1>8. QED
  BY <1>2, <1>4, <1>5, <1>6, <1>7 DEF IInv

(* One request goes on as j.                                               *)
LEMMA OneMoves ==
  ASSUME IInv, UNCHANGED ordering, LinkingTypeOK', GoodLinks', Kept,
         NEW h \in Handler, NEW j \in {Idle} \cup LinkJob \cup DraftJob,
         job' = [job EXCEPT ![h] = j], job[h].pc \notin Holding, j.pc \notin Holding,
         GoodJob(h, j)'
  PROVE  IInv'
<1>1. job \in [Handler -> {Idle} \cup LinkJob \cup DraftJob]
  BY DEF IInv, TypeOK
<1>2. /\ job' \in [Handler -> {Idle} \cup LinkJob \cup DraftJob]
      /\ \A g \in Handler : job'[g] = IF g = h THEN j ELSE job[g]
  BY <1>1
<1>3. GoodJob(h, job[h])'
  BY <1>2 DEF GoodJob, CopyOf, InUse, Holds, Room, Made
<1>4. QED
  BY <1>2, <1>3, RequestsMove

(* A request alone goes on: no table is written.                           *)
LEMMA CallMoves ==
  ASSUME IInv, UNCHANGED <<linking, ordering>>,
         NEW h \in Handler, NEW j \in {Idle} \cup LinkJob \cup DraftJob,
         job' = [job EXCEPT ![h] = j], job[h].pc \notin Holding, j.pc \notin Holding,
         GoodJob(h, j)
  PROVE  IInv'
<1>1. UNCHANGED <<partner, links, grants, drafts, order, lock, today, asked>>
  BY DEF linking, ordering
<1>2. LinkingTypeOK' /\ GoodLinks' /\ Kept
  BY <1>1 DEF IInv, TypeOK, LinkingTypeOK, GoodLinks, Kept, InUse
<1>3. GoodJob(h, j)'
  BY <1>1 DEF GoodJob, CopyOf, InUse, Made, Holding
<1>4. UNCHANGED ordering
  BY <1>1 DEF ordering
<1>5. QED
  BY <1>2, <1>3, <1>4, OneMoves

(* A goroutine without a request is good.                                  *)
LEMMA IdleIsGood ==
  ASSUME NEW h
  PROVE  GoodJob(h, Idle) /\ GoodJob(h, Idle)' /\ Idle.pc \notin Holding
BY DEF GoodJob, Idle, Holding

-----------------------------------------------------------------------------
(* Linking *)

(* The operator and the clock change no grant.                             *)
LEMMA WorldKeeps ==
  ASSUME IInv, UNCHANGED ordering, SetPartnerActive \/ LinkDeadline
  PROVE  IInv'
<1>1. UNCHANGED <<grants, job>>
  BY DEF SetPartnerActive, LinkDeadline
<1>2. Kept /\ job' \in [Handler -> {Idle} \cup LinkJob \cup DraftJob]
  BY <1>1 DEF Kept, InUse, IInv, TypeOK
<1>3. partner \in [active : BOOLEAN, live : BOOLEAN] /\ links \in [Link -> LinkRow]
      /\ grants \in [Grant -> GrantRow]
  BY DEF IInv, TypeOK, LinkingTypeOK
<1>4. LinkingTypeOK' /\ GoodLinks'
  <2>1. CASE SetPartnerActive
    BY <1>1, <1>3, <2>1 DEF SetPartnerActive, LinkingTypeOK, IInv, GoodLinks
  <2>2. CASE LinkDeadline
    <3>1. PICK l \in Link : links' = [links EXCEPT ![l].late = TRUE]
      BY <2>2 DEF LinkDeadline
    <3>2. links' \in [Link -> LinkRow]
      BY <1>3, <3>1 DEF LinkRow
    <3>3. \A k \in Link : links'[k].status = links[k].status /\ links'[k].grant = links[k].grant
      BY <1>3, <3>1 DEF LinkRow
    <3>4. QED
      BY <1>1, <1>3, <2>2, <3>2, <3>3 DEF LinkDeadline, LinkingTypeOK, IInv, GoodLinks
  <2>3. QED
    BY <2>1, <2>2
<1>5. QED
  BY <1>1, <1>2, <1>4, RequestsMove

(* A new link request waits for the customer.                              *)
LEMMA StartLinkKeeps ==
  ASSUME IInv, UNCHANGED ordering, NEW request \in SUBSET Scope, StartLink(request)
  PROVE  IInv'
<1>1. UNCHANGED <<partner, grants, job>>
  BY DEF StartLink
<1>2. Kept /\ job' \in [Handler -> {Idle} \cup LinkJob \cup DraftJob]
  BY <1>1 DEF Kept, InUse, IInv, TypeOK
<1>3. partner \in [active : BOOLEAN, live : BOOLEAN] /\ links \in [Link -> LinkRow]
      /\ grants \in [Grant -> GrantRow]
  BY DEF IInv, TypeOK, LinkingTypeOK
<1>4. PICK scopes : scopes = IntersectScopes(Wanted(request), Ceiling)
  OBVIOUS
<1>5. PICK l \in Link : links' = [links EXCEPT ![l] =
                                    [NoLink EXCEPT !.status = "pending", !.scopes = scopes]]
  BY <1>4 DEF StartLink
<1>6. PICK row : row = [NoLink EXCEPT !.status = "pending", !.scopes = scopes]
  OBVIOUS
<1>7. scopes \subseteq Scope
  BY <1>4, CeilingOfScopes DEF IntersectScopes
<1>8. row \in LinkRow /\ row.status = "pending"
  BY <1>6, <1>7 DEF NoLink, LinkRow, LinkStatus
<1>9. links' = [links EXCEPT ![l] = row]
  BY <1>5, <1>6
<1>10. LinkingTypeOK' /\ GoodLinks'
  BY <1>1, <1>3, <1>8, <1>9 DEF LinkingTypeOK, IInv, GoodLinks
<1>11. QED
  BY <1>1, <1>2, <1>10, RequestsMove

(* A link's row is written: its status and its grant.                      *)
LEMMA LinkWritten ==
  ASSUME LinkingTypeOK, GoodLinks, NEW l \in Link \cup {None}, NEW row \in LinkRow,
         UpdateLink(l, row), row.status = "approved" => row.grant \in Grant
  PROVE  links' \in [Link -> LinkRow] /\ GoodLinks'
<1>1. links \in [Link -> LinkRow]
  BY DEF LinkingTypeOK
<1>2. PICK new : new = [links[l] EXCEPT !.status = row.status, !.grant = row.grant]
  OBVIOUS
<1>3. CASE l \in Link
  <2>1. new \in LinkRow /\ new.status = row.status /\ new.grant = row.grant
    BY <1>1, <1>2, <1>3 DEF LinkRow
  <2>2. links' = [links EXCEPT ![l] = new]
    BY <1>1, <1>2, <1>3 DEF UpdateLink
  <2>3. QED
    BY <1>1, <2>1, <2>2 DEF GoodLinks
<1>4. CASE l = None
  <2>1. links' = links
    BY <1>1, <1>4, NoneIsNoId DEF UpdateLink
  <2>2. QED
    BY <1>1, <2>1 DEF GoodLinks
<1>5. QED
  BY <1>3, <1>4

(* A grant's row is written whole, with the limits it has.                 *)
LEMMA GrantWritten ==
  ASSUME LinkingTypeOK, NEW g, NEW row, CopyOf(row, g), UpdateGrant(g, row)
  PROVE  grants' \in [Grant -> GrantRow] /\ Kept /\ CopyOf(row, g)'
<1>1. grants \in [Grant -> GrantRow] /\ g \in Grant /\ row \in GrantRow
  BY DEF LinkingTypeOK, CopyOf, InUse
<1>2. grants' = [grants EXCEPT ![g] = row]
  BY DEF UpdateGrant
<1>3. QED
  BY <1>1, <1>2 DEF Kept, InUse, CopyOf

(* The types of the rows, for the steps below.                             *)
LEMMA RowTypes ==
  ASSUME IInv
  PROVE  /\ LinkingTypeOK /\ links \in [Link -> LinkRow] /\ grants \in [Grant -> GrantRow]
         /\ GoodLinks /\ job \in [Handler -> {Idle} \cup LinkJob \cup DraftJob]
BY DEF IInv, TypeOK, LinkingTypeOK

(* A poll closes an overdue link or finds the grant of an approved one.    *)
LEMMA PollLinkKeeps ==
  ASSUME IInv, UNCHANGED ordering, NEW h \in Handler, NEW l \in Link, PollLink(h, l)
  PROVE  IInv'
<1>1. job[h] = Idle /\ UNCHANGED <<partner, grants>>
  BY DEF PollLink
<1>2. CASE UpdateLink(l, [links[l] EXCEPT !.status = "expired"]) /\ UNCHANGED job
  <2>1. PICK row : row = [links[l] EXCEPT !.status = "expired"]
    OBVIOUS
  <2>2. row \in LinkRow /\ row.status = "expired" /\ UpdateLink(l, row)
    BY <1>2, <2>1, RowTypes DEF LinkRow, LinkStatus
  <2>3. links' \in [Link -> LinkRow] /\ GoodLinks'
    BY <2>2, RowTypes, LinkWritten
  <2>4. LinkingTypeOK' /\ Kept
    BY <1>1, <2>3, RowTypes DEF LinkingTypeOK, Kept, InUse
  <2>5. job' \in [Handler -> {Idle} \cup LinkJob \cup DraftJob] /\ \A g \in Handler : job'[g] = job[g]
    BY <1>2, RowTypes
  <2>6. QED
    BY <2>3, <2>4, <2>5, RequestsMove
<1>3. CASE /\ links[l].status = "approved" /\ Usable(grants[links[l].grant]) /\ UNCHANGED links
           /\ Become(h, LinkCall("token", l, links[l], links[l].grant, grants[links[l].grant]))
  <2>1. PICK g \in Grant : g = links[l].grant
    BY <1>3, RowTypes DEF GoodLinks
  <2>2. PICK j : j = LinkCall("token", l, links[l], g, grants[g])
    OBVIOUS
  <2>3. job' = [job EXCEPT ![h] = j]
    BY <1>3, <2>1, <2>2 DEF Become
  <2>4. grants[g] \in GrantRow /\ links[l] \in LinkRow /\ grants[g].status = "active"
    BY <1>3, <2>1, RowTypes DEF Usable
  <2>5. j \in LinkJob /\ j.pc = "token" /\ j.grant = g /\ j.copy = grants[g]
    BY <2>2, <2>4 DEF LinkCall, LinkJob, NoGrant, GrantRow
  <2>6. GoodJob(h, j) /\ j.pc \notin Holding
    BY <2>4, <2>5 DEF GoodJob, CopyOf, InUse, Holding
  <2>7. job[h].pc \notin Holding /\ UNCHANGED linking
    BY <1>1, <1>3 DEF Idle, Holding, linking
  <2>8. QED
    BY <2>3, <2>5, <2>6, <2>7, CallMoves
<1>4. QED
  BY <1>2, <1>3 DEF PollLink

(* The token goes into the row of the grant, unless it was replaced.       *)
LEMMA SaveTokenKeeps ==
  ASSUME IInv, UNCHANGED ordering, NEW h \in Handler, SaveToken(h)
  PROVE  IInv'
<1>1. /\ job[h].pc = "token" /\ UNCHANGED <<partner, links>> /\ job[h] \in LinkJob
      /\ job[h].pc \notin Holding
  BY KindsOfJobs DEF SaveToken, At, IInv, Holding
<1>2. PICK row, g : row = [job[h].copy EXCEPT !.token = TRUE] /\ g = job[h].grant
  OBVIOUS
<1>3. CopyOf(job[h].copy, g)
  BY <1>1, <1>2 DEF IInv, GoodJobs, GoodJob
<1>4. CopyOf(row, g)
  BY <1>2, <1>3 DEF CopyOf, GrantRow
<1>5. CASE UpdateGrant(g, row) /\ Become(h, [job[h] EXCEPT !.pc = "consume"])
  <2>1. PICK j : j = [job[h] EXCEPT !.pc = "consume"]
    OBVIOUS
  <2>2. j \in LinkJob /\ j.pc = "consume" /\ job' = [job EXCEPT ![h] = j]
    BY <1>1, <1>5, <2>1 DEF LinkJob, Become
  <2>3. grants' \in [Grant -> GrantRow] /\ Kept
    BY <1>4, <1>5, RowTypes, GrantWritten
  <2>4. LinkingTypeOK' /\ GoodLinks'
    BY <1>1, <2>3, RowTypes DEF LinkingTypeOK, GoodLinks
  <2>5. GoodJob(h, j)' /\ j.pc \notin Holding
    BY <2>2 DEF GoodJob, Holding
  <2>6. QED
    BY <1>1, <2>2, <2>3, <2>4, <2>5, OneMoves
<1>6. CASE Finish(h) /\ UNCHANGED grants
  BY <1>1, <1>6, IdleIsGood, CallMoves DEF Finish, Become, linking
<1>7. QED
  BY <1>2, <1>5, <1>6 DEF SaveToken

(* The link is used up.                                                    *)
LEMMA ConsumeLinkKeeps ==
  ASSUME IInv, UNCHANGED ordering, NEW h \in Handler, ConsumeLink(h)
  PROVE  IInv'
<1>1. /\ job[h].pc = "consume" /\ UNCHANGED <<partner, grants>> /\ job[h] \in LinkJob
      /\ job[h].pc \notin Holding
  BY KindsOfJobs DEF ConsumeLink, At, IInv, Holding
<1>2. PICK row : row = [job[h].row EXCEPT !.status = "consumed"]
  OBVIOUS
<1>3. row \in LinkRow /\ row.status = "consumed"
  BY <1>1, <1>2 DEF LinkJob, LinkRow, LinkStatus
<1>4. job[h].link \in Link \cup {None} /\ UpdateLink(job[h].link, row)
  BY <1>1, <1>2 DEF LinkJob, ConsumeLink
<1>5. links' \in [Link -> LinkRow] /\ GoodLinks'
  BY <1>3, <1>4, RowTypes, LinkWritten
<1>6. LinkingTypeOK' /\ Kept
  BY <1>1, <1>5, RowTypes DEF LinkingTypeOK, Kept, InUse
<1>7. QED
  BY <1>1, <1>5, <1>6, IdleIsGood, OneMoves DEF ConsumeLink, Finish, Become

(* The customer approves a link: the grant is made ready.                  *)
LEMMA ApproveLinkKeeps ==
  ASSUME IInv, UNCHANGED ordering, NEW h \in Handler, NEW l \in Link,
         NEW request \in SUBSET Scope, NEW limits \in Limits, ApproveLink(h, l, request, limits)
  PROVE  IInv'
<1>1. job[h] = Idle /\ UNCHANGED linking /\ links[l] \in LinkRow
  BY RowTypes DEF ApproveLink
<1>2. PICK copy : copy = [status |-> "active", token |-> FALSE,
                          scopes |-> IntersectScopes(Chosen(l, request), links[l].scopes),
                          limits |-> limits]
  OBVIOUS
<1>3. copy \in GrantRow /\ copy.status = "active"
  BY <1>1, <1>2 DEF GrantRow, IntersectScopes, LinkRow
<1>4. PICK j : j = LinkCall("replace", l, links[l], None, copy)
  OBVIOUS
<1>5. job' = [job EXCEPT ![h] = j]
  BY <1>2, <1>4 DEF ApproveLink, Become
<1>6. j \in LinkJob /\ j.pc = "replace" /\ j.copy = copy
  BY <1>1, <1>3, <1>4 DEF LinkCall, LinkJob, NoGrant, GrantRow
<1>7. GoodJob(h, j) /\ j.pc \notin Holding /\ job[h].pc \notin Holding
  BY <1>1, <1>3, <1>6 DEF GoodJob, Holding, Idle
<1>8. QED
  BY <1>1, <1>5, <1>6, <1>7, CallMoves

(* The grant that is to be replaced is read.                               *)
LEMMA FindOldGrantKeeps ==
  ASSUME IInv, UNCHANGED ordering, NEW h \in Handler, FindOldGrant(h)
  PROVE  IInv'
<1>1. /\ job[h].pc = "replace" /\ UNCHANGED linking /\ job[h] \in LinkJob
      /\ job[h].pc \notin Holding /\ job[h].copy.status = "active"
  BY KindsOfJobs DEF FindOldGrant, At, IInv, Holding, GoodJobs, GoodJob
<1>2. CASE Become(h, [job[h] EXCEPT !.pc = "create"])
  <2>1. PICK j : j = [job[h] EXCEPT !.pc = "create"]
    OBVIOUS
  <2>2. j \in LinkJob /\ j.pc = "create" /\ j.copy = job[h].copy /\ job' = [job EXCEPT ![h] = j]
    BY <1>1, <1>2, <2>1 DEF LinkJob, Become
  <2>3. GoodJob(h, j) /\ j.pc \notin Holding
    BY <1>1, <2>2 DEF GoodJob, Holding
  <2>4. QED
    BY <1>1, <2>2, <2>3, CallMoves
<1>3. ASSUME NEW old \in ActiveGrants,
             Become(h, [job[h] EXCEPT !.pc = "revoke_old", !.grant = old,
                          !.old = [grants[old] EXCEPT !.status = "revoked"]])
      PROVE  IInv'
  <2>1. PICK row : row = [grants[old] EXCEPT !.status = "revoked"]
    OBVIOUS
  <2>2. old \in Grant /\ grants[old] \in GrantRow /\ grants[old].status = "active"
    BY RowTypes DEF ActiveGrants
  <2>3. CopyOf(row, old)
    BY <2>1, <2>2 DEF CopyOf, InUse, GrantRow
  <2>4. PICK j : j = [job[h] EXCEPT !.pc = "revoke_old", !.grant = old, !.old = row]
    OBVIOUS
  <2>5. row \in GrantRow
    BY <2>3 DEF CopyOf
  <2>6. /\ j \in LinkJob /\ j.pc = "revoke_old" /\ j.copy = job[h].copy /\ j.grant = old
        /\ j.old = row /\ job' = [job EXCEPT ![h] = j]
    BY <1>1, <1>3, <2>1, <2>2, <2>4, <2>5 DEF LinkJob, Become
  <2>7. GoodJob(h, j) /\ j.pc \notin Holding
    BY <1>1, <2>3, <2>6 DEF GoodJob, Holding
  <2>8. QED
    BY <1>1, <2>6, <2>7, CallMoves
<1>4. QED
  BY <1>2, <1>3 DEF FindOldGrant

(* ... and cut.                                                            *)
LEMMA RevokeOldGrantKeeps ==
  ASSUME IInv, UNCHANGED ordering, NEW h \in Handler, RevokeOldGrant(h)
  PROVE  IInv'
<1>1. /\ job[h].pc = "revoke_old" /\ UNCHANGED <<partner, links>> /\ job[h] \in LinkJob
      /\ job[h].pc \notin Holding /\ job[h].copy.status = "active"
      /\ CopyOf(job[h].old, job[h].grant) /\ UpdateGrant(job[h].grant, job[h].old)
  BY KindsOfJobs DEF RevokeOldGrant, At, IInv, Holding, GoodJobs, GoodJob
<1>2. grants' \in [Grant -> GrantRow] /\ Kept
  BY <1>1, RowTypes, GrantWritten
<1>3. LinkingTypeOK' /\ GoodLinks'
  BY <1>1, <1>2, RowTypes DEF LinkingTypeOK, GoodLinks
<1>4. PICK j : j = [job[h] EXCEPT !.pc = "create", !.grant = None, !.old = NoGrant]
  OBVIOUS
<1>5. j \in LinkJob /\ j.pc = "create" /\ j.copy = job[h].copy /\ job' = [job EXCEPT ![h] = j]
  BY <1>1, <1>4 DEF LinkJob, Become, RevokeOldGrant, NoGrant, GrantRow
<1>6. GoodJob(h, j)' /\ j.pc \notin Holding
  BY <1>1, <1>5 DEF GoodJob, Holding
<1>7. QED
  BY <1>1, <1>2, <1>3, <1>5, <1>6, OneMoves

(* A grant nobody used gets the limits the customer chose.                 *)
LEMMA CreateGrantKeeps ==
  ASSUME IInv, UNCHANGED ordering, NEW h \in Handler, CreateGrant(h)
  PROVE  IInv'
<1>1. /\ job[h].pc = "create" /\ UNCHANGED <<partner, links>> /\ job[h] \in LinkJob
      /\ job[h].pc \notin Holding /\ job[h].copy.status = "active"
  BY KindsOfJobs DEF CreateGrant, At, IInv, Holding, GoodJobs, GoodJob
<1>2. CASE Finish(h) /\ UNCHANGED grants
  BY <1>1, <1>2, IdleIsGood, CallMoves DEF Finish, Become, linking
<1>3. ASSUME NEW g \in UnusedGrants, UpdateGrant(g, job[h].copy),
             Become(h, [job[h] EXCEPT !.pc = "decide", !.copy = NoGrant,
                          !.row = [@ EXCEPT !.status = "approved", !.grant = g]])
      PROVE  IInv'
  <2>1. g \in Grant /\ grants[g].status = "absent" /\ job[h].copy \in GrantRow
    BY <1>1 DEF UnusedGrants, NoGrant, LinkJob
  <2>2. grants' \in [Grant -> GrantRow] /\ \A k \in Grant : k # g => grants'[k] = grants[k]
    BY <1>3, <2>1, RowTypes DEF UpdateGrant
  <2>3. Kept
    BY <2>1, <2>2 DEF Kept, InUse
  <2>4. LinkingTypeOK' /\ GoodLinks'
    BY <1>1, <2>2, RowTypes DEF LinkingTypeOK, GoodLinks
  <2>5. PICK row : row = [job[h].row EXCEPT !.status = "approved", !.grant = g]
    OBVIOUS
  <2>6. row \in LinkRow /\ row.grant = g
    BY <1>1, <2>1, <2>5 DEF LinkJob, LinkRow, LinkStatus
  <2>7. PICK j : j = [job[h] EXCEPT !.pc = "decide", !.copy = NoGrant, !.row = row]
    OBVIOUS
  <2>8. j \in LinkJob /\ j.pc = "decide" /\ j.row = row /\ job' = [job EXCEPT ![h] = j]
    BY <1>1, <1>3, <2>5, <2>6, <2>7 DEF LinkJob, Become, NoGrant, GrantRow
  <2>9. GoodJob(h, j)' /\ j.pc \notin Holding
    BY <2>1, <2>6, <2>8 DEF GoodJob, Holding
  <2>10. QED
    BY <1>1, <2>3, <2>4, <2>8, <2>9, OneMoves
<1>4. QED
  BY <1>2, <1>3 DEF CreateGrant

(* The customer's decision is written into the link.                       *)
LEMMA DecideLinkKeeps ==
  ASSUME IInv, UNCHANGED ordering, NEW h \in Handler, DecideLink(h)
  PROVE  IInv'
<1>1. /\ job[h].pc = "decide" /\ UNCHANGED <<partner, grants>> /\ job[h] \in LinkJob
      /\ job[h].pc \notin Holding
      /\ job[h].row.status = "approved" => job[h].row.grant \in Grant
  BY KindsOfJobs DEF DecideLink, At, IInv, Holding, GoodJobs, GoodJob
<1>2. job[h].link \in Link \cup {None} /\ job[h].row \in LinkRow
      /\ UpdateLink(job[h].link, job[h].row)
  BY <1>1 DEF LinkJob, DecideLink
<1>3. links' \in [Link -> LinkRow] /\ GoodLinks'
  BY <1>1, <1>2, RowTypes, LinkWritten
<1>4. LinkingTypeOK' /\ Kept
  BY <1>1, <1>3, RowTypes DEF LinkingTypeOK, Kept, InUse
<1>5. QED
  BY <1>1, <1>3, <1>4, IdleIsGood, OneMoves DEF DecideLink, Finish, Become

(* The customer denies a link ...                                          *)
LEMMA DenyLinkKeeps ==
  ASSUME IInv, UNCHANGED ordering, NEW h \in Handler, NEW l \in Link, DenyLink(h, l)
  PROVE  IInv'
<1>1. job[h] = Idle /\ UNCHANGED linking /\ links[l] \in LinkRow
  BY RowTypes DEF DenyLink
<1>2. PICK row : row = [links[l] EXCEPT !.status = "denied"]
  OBVIOUS
<1>3. row \in LinkRow /\ row.status = "denied"
  BY <1>1, <1>2 DEF LinkRow, LinkStatus
<1>4. PICK j : j = LinkCall("decide", l, row, None, NoGrant)
  OBVIOUS
<1>5. j \in LinkJob /\ j.pc = "decide" /\ j.row = row /\ job' = [job EXCEPT ![h] = j]
  BY <1>2, <1>3, <1>4 DEF LinkCall, LinkJob, NoGrant, GrantRow, DenyLink, Become
<1>6. GoodJob(h, j) /\ j.pc \notin Holding /\ job[h].pc \notin Holding
  BY <1>1, <1>3, <1>5 DEF GoodJob, Holding, Idle
<1>7. QED
  BY <1>1, <1>5, <1>6, CallMoves

(* ... or cuts a connection ...                                            *)
LEMMA RevokeGrantKeeps ==
  ASSUME IInv, UNCHANGED ordering, NEW h \in Handler, NEW g \in Grant, RevokeGrant(h, g)
  PROVE  IInv'
<1>1. job[h] = Idle /\ UNCHANGED linking /\ grants[g] \in GrantRow /\ grants[g].status = "active"
  BY RowTypes DEF RevokeGrant
<1>2. PICK row : row = [grants[g] EXCEPT !.status = "revoked"]
  OBVIOUS
<1>3. CopyOf(row, g) /\ row \in GrantRow
  BY <1>1, <1>2 DEF CopyOf, InUse, GrantRow
<1>4. PICK j : j = LinkCall("revoke", None, NoLink, g, row)
  OBVIOUS
<1>5. j \in LinkJob /\ j.pc = "revoke" /\ j.grant = g /\ j.copy = row
      /\ job' = [job EXCEPT ![h] = j]
  BY <1>2, <1>3, <1>4
  DEF LinkCall, LinkJob, NoGrant, GrantRow, NoLink, LinkRow, LinkStatus, RevokeGrant, Become
<1>6. GoodJob(h, j) /\ j.pc \notin Holding /\ job[h].pc \notin Holding
  BY <1>1, <1>3, <1>5 DEF GoodJob, Holding, Idle
<1>7. QED
  BY <1>1, <1>5, <1>6, CallMoves

(* ... which is written with an old copy of the row.                       *)
LEMMA SaveRevokedKeeps ==
  ASSUME IInv, UNCHANGED ordering, NEW h \in Handler, SaveRevoked(h)
  PROVE  IInv'
<1>1. /\ job[h].pc = "revoke" /\ UNCHANGED <<partner, links>> /\ job[h].pc \notin Holding
      /\ CopyOf(job[h].copy, job[h].grant) /\ UpdateGrant(job[h].grant, job[h].copy)
  BY DEF SaveRevoked, At, IInv, Holding, GoodJobs, GoodJob
<1>2. grants' \in [Grant -> GrantRow] /\ Kept
  BY <1>1, RowTypes, GrantWritten
<1>3. LinkingTypeOK' /\ GoodLinks'
  BY <1>1, <1>2, RowTypes DEF LinkingTypeOK, GoodLinks
<1>4. QED
  BY <1>1, <1>2, <1>3, IdleIsGood, OneMoves DEF SaveRevoked, Finish, Become

(* Linking changes no limit of a grant in use, whoever writes last.        *)
LEMMA LinkingKeeps ==
  ASSUME IInv, UNCHANGED ordering, LinkingNext
  PROVE  IInv'
BY WorldKeeps, StartLinkKeeps, PollLinkKeeps, SaveTokenKeeps, ConsumeLinkKeeps, ApproveLinkKeeps,
   FindOldGrantKeeps, RevokeOldGrantKeeps, CreateGrantKeeps, DecideLinkKeeps, DenyLinkKeeps,
   RevokeGrantKeeps, SaveRevokedKeeps DEF LinkingNext

-----------------------------------------------------------------------------
(* What confirming and placing leave alone *)

(* The types of the drafts, their orders and the locks.                    *)
LEMMA DraftTypes ==
  ASSUME IInv
  PROVE  /\ drafts \in [Draft -> DraftRow] /\ order \in [Draft -> OrderRow]
         /\ lock \in [Grant -> Handler \cup {None}] /\ today \in 0..MaxDay
         /\ asked \in [Draft -> Asker]
BY DEF IInv, TypeOK

(* Drafts keep their grant, day and price, and no more of them are placed. *)
Steady ==
  /\ Made \subseteq Made'
  /\ \A d \in Made : /\ drafts'[d].grant = drafts[d].grant /\ drafts'[d].day = drafts[d].day
                     /\ drafts'[d].total = drafts[d].total
  /\ \A g, day : Placed(g, day)' \subseteq Placed(g, day)

(* Then the days stay within their limits, and where there was room there  *)
(* still is.                                                               *)
LEMMA SpendsNoMore ==
  ASSUME IInv, UNCHANGED linking, Steady
  PROVE  WithinDay' /\ \A d \in Made : Room(d) => Room(d)'
<1>1. grants' = grants /\ grants \in [Grant -> GrantRow]
  BY RowTypes DEF linking
<1>2. \A g, day : /\ Spent(Placed(g, day)) \in Int /\ Spent(Placed(g, day))' \in Int
                  /\ Spent(Placed(g, day))' <= Spent(Placed(g, day))
  <2> TAKE g, day
  <2>1. TypeOK /\ IsFiniteSet(Made)
    BY DEF IInv, GoodDrafts
  <2>2. Placed(g, day)' \subseteq Placed(g, day)
        /\ \A d \in Placed(g, day) : drafts'[d].total = drafts[d].total
    BY PlacedAreMade DEF Steady
  <2>3. QED
    BY <2>1, <2>2, SpentKept
<1>3. \A g \in Grant : grants[g].limits[2] \in Int
  <2>1. \A g \in Grant : grants[g].limits \in Nat \X Nat
    BY <1>1, LimitsAreLegal DEF GrantRow
  <2>2. QED
    BY <2>1
<1>4. WithinDay'
  <2> SUFFICES ASSUME NEW g \in Grant, InUse(g)', grants'[g].limits[2] > 0, NEW day \in 0..MaxDay
               PROVE  Spent(Placed(g, day))' <= grants'[g].limits[2]
    BY DEF WithinDay
  <2>1. InUse(g) /\ grants[g].limits[2] > 0
    BY <1>1 DEF InUse
  <2>2. Spent(Placed(g, day)) <= grants[g].limits[2]
    BY <2>1 DEF IInv, WithinDay
  <2>3. QED
    BY <1>1, <1>2, <1>3, <2>2
<1>5. ASSUME NEW d \in Made, Room(d) PROVE Room(d)'
  <2>1. PICK g, day, total : g = drafts[d].grant /\ day = drafts[d].day /\ total = drafts[d].total
    OBVIOUS
  <2>2. g \in Grant /\ total \in Nat
    BY <2>1, TotalsAreNat DEF IInv, GoodDrafts, GoodDraft, Made, InUse
  <2>3. drafts'[d].grant = g /\ drafts'[d].day = day /\ drafts'[d].total = total
    BY <2>1 DEF Steady
  <2>4. grants[g].limits[2] > 0 => Spent(Placed(g, day)) + total <= grants[g].limits[2]
    BY <1>5, <2>1 DEF Room
  <2>5. grants[g].limits[2] > 0 => Spent(Placed(g, day))' + total <= grants[g].limits[2]
    BY <1>2, <1>3, <2>2, <2>4
  <2>6. QED
    BY <1>1, <2>3, <2>5 DEF Room
<1>6. QED
  BY <1>4, <1>5

(* A goroutine that takes no part keeps what it knows.                     *)
LEMMA OthersKnow ==
  ASSUME IInv, UNCHANGED linking, NEW g \in Handler, job'[g] = job[g],
         Made \subseteq Made', \A d \in Made : drafts'[d].grant = drafts[d].grant,
         job[g].pc \in Holding =>
           /\ lock'[job[g].grant] = lock[job[g].grant]
           /\ asked'[job[g].draft] = asked[job[g].draft]
           /\ drafts'[job[g].draft].status \in {drafts[job[g].draft].status, "rejected"},
         NEW d, d = job[g].draft, job[g].pc \in Holding /\ Room(d) => Room(d)'
  PROVE  GoodJob(g, job[g])'
<1>1. GoodJob(g, job[g]) /\ UNCHANGED <<partner, links, grants>>
  BY DEF IInv, GoodJobs, linking
<1>2. ASSUME job[g].pc \in Holding PROVE Holds(g, job[g])'
  <2>1. Holds(g, job[g]) /\ job[g].draft \in Made
    BY <1>1, <1>2 DEF GoodJob
  <2>2. Room(d) => Room(d)'
    BY <1>2
  <2>3. drafts'[d].grant = drafts[d].grant
    BY <2>1
  <2>4. QED
    BY <1>2, <2>1, <2>2, <2>3 DEF Holds
<1>3. QED
  BY <1>1, <1>2 DEF GoodJob, CopyOf, InUse

(* So it is when no more is placed.                                        *)
LEMMA OthersStay ==
  ASSUME IInv, UNCHANGED linking, Steady, NEW g \in Handler, job'[g] = job[g],
         job[g].pc \in Holding =>
           /\ lock'[job[g].grant] = lock[job[g].grant]
           /\ asked'[job[g].draft] = asked[job[g].draft]
           /\ drafts'[job[g].draft].status \in {drafts[job[g].draft].status, "rejected"}
  PROVE  GoodJob(g, job[g])'
<1>1. PICK d : d = job[g].draft
  OBVIOUS
<1>2. job[g].pc \in Holding => d \in Made
  BY <1>1 DEF IInv, GoodJobs, GoodJob
<1>3. job[g].pc \in Holding /\ Room(d) => Room(d)'
  BY <1>2, SpendsNoMore
<1>4. Made \subseteq Made' /\ \A x \in Made : drafts'[x].grant = drafts[x].grant
  BY DEF Steady
<1>5. QED
  BY <1>1, <1>3, <1>4, OthersKnow

-----------------------------------------------------------------------------
(* Requests about drafts *)

(* Requests that have only been received.                                  *)
LEMMA BeginKeeps ==
  ASSUME IInv, NEW h \in Handler,
         \/ \E g \in Grant : BeginDraft(h, g)
         \/ \E g \in Grant, d \in Draft : BeginConfirm(h, g, d)
         \/ \E d \in Draft : BeginApproval(h, d) \/ UserRejectDraft(h, d)
  PROVE  IInv'
<1>1. job[h] = Idle /\ job[h].pc \notin Holding /\ UNCHANGED <<linking, ordering>>
  <2>1. job[h] = Idle /\ UNCHANGED linking /\ UNCHANGED ordering
    BY DEF BeginDraft, BeginConfirm, BeginApproval, UserRejectDraft
  <2>2. QED
    BY <2>1 DEF Idle, Holding
<1>2. ASSUME NEW g \in Grant, BeginDraft(h, g) PROVE IInv'
  <2>1. PICK j : j = DraftCall("draft", FALSE, g, None)
    OBVIOUS
  <2>2. j \in DraftJob /\ j.pc = "draft" /\ j.grant = g
    BY <2>1 DEF DraftCall, DraftJob
  <2>3. InUse(g)
    BY <1>2 DEF BeginDraft, AgentAuth, AuthenticateGrant, Usable, InUse
  <2>4. GoodJob(h, j) /\ j.pc \notin Holding
    BY <2>2, <2>3 DEF GoodJob, Holding
  <2>5. job' = [job EXCEPT ![h] = j]
    BY <1>2, <2>1 DEF BeginDraft, Become
  <2>6. QED
    BY <1>1, <2>2, <2>4, <2>5, CallMoves
<1>3. ASSUME NEW g \in Grant, NEW d \in Draft, BeginConfirm(h, g, d) PROVE IInv'
  <2>1. PICK j : j = DraftCall("lock", FALSE, g, d)
    OBVIOUS
  <2>2. j \in DraftJob /\ j.pc = "lock" /\ j.draft = d /\ ~j.user
    BY <2>1 DEF DraftCall, DraftJob
  <2>3. d \in Made
    BY <1>3 DEF BeginConfirm, Made
  <2>4. GoodJob(h, j) /\ j.pc \notin Holding
    BY <2>2, <2>3 DEF GoodJob, Holding
  <2>5. job' = [job EXCEPT ![h] = j]
    BY <1>3, <2>1 DEF BeginConfirm, Become
  <2>6. QED
    BY <1>1, <2>2, <2>4, <2>5, CallMoves
<1>4. ASSUME NEW d \in Draft, BeginApproval(h, d) \/ UserRejectDraft(h, d) PROVE IInv'
  <2>1. PICK pc, g : /\ pc \in {"lock", "reject"} /\ g = drafts[d].grant
                     /\ Become(h, DraftCall(pc, TRUE, g, d))
    BY <1>4 DEF BeginApproval, UserRejectDraft
  <2>2. PICK j : j = DraftCall(pc, TRUE, g, d)
    OBVIOUS
  <2>3. d \in Made /\ g \in Grant
    BY <1>4, <2>1
    DEF BeginApproval, UserRejectDraft, Made, IInv, GoodDrafts, GoodDraft, InUse
  <2>4. j \in DraftJob /\ j.pc = pc /\ j.draft = d /\ j.grant = g
    BY <2>1, <2>2, <2>3 DEF DraftCall, DraftJob
  <2>5. GoodJob(h, j) /\ j.pc \notin Holding
    BY <2>1, <2>3, <2>4 DEF GoodJob, Holding
  <2>6. job' = [job EXCEPT ![h] = j]
    BY <2>1, <2>2 DEF Become
  <2>7. QED
    BY <1>1, <2>4, <2>5, <2>6, CallMoves
<1>5. QED
  BY <1>2, <1>3, <1>4

(* The draft of an agent: at once within the limits, or for the customer.  *)
LEMMA CreateDraftKeeps ==
  ASSUME IInv, NEW h \in Handler, NEW total \in Total, CreateDraft(h, total)
  PROVE  IInv'
<1>1. /\ job[h].pc = "draft" /\ job[h] \in DraftJob /\ InUse(job[h].grant)
      /\ UNCHANGED <<linking, order, lock, today, asked>> /\ job' = [job EXCEPT ![h] = Idle]
  BY KindsOfJobs DEF CreateDraft, At, IInv, GoodJobs, GoodJob, Finish, Become
<1>2. PICK g : g = job[h].grant
  OBVIOUS
<1>3. PICK row : row = [status |-> IF RequiresUser(g, total) THEN "awaiting_user" ELSE "draft",
                        grant |-> g, total |-> total, late |-> FALSE, day |-> today]
  OBVIOUS
<1>4. PICK d \in Draft : drafts[d] = NoDraft /\ drafts' = [drafts EXCEPT ![d] = row]
  BY <1>2, <1>3 DEF CreateDraft
<1>5. g \in Grant /\ g # None /\ row \in DraftRow /\ row.status \in {"awaiting_user", "draft"}
  BY <1>1, <1>2, <1>3, NoneIsNoId, DraftTypes DEF InUse, DraftRow, DraftStatus
<1>6. /\ drafts'[d] = row /\ drafts' \in [Draft -> DraftRow]
      /\ \A x \in Draft : x # d => drafts'[x] = drafts[x]
  BY <1>4, <1>5, DraftTypes
<1>7. d \notin Made /\ Made' = Made \cup {d} /\ drafts[d].status = "absent"
  BY <1>4, <1>5, <1>6 DEF Made, NoDraft
<1>8. Steady
  <2>1. \A k, day : Placed(k, day)' \subseteq Placed(k, day)
    BY <1>1, <1>5, <1>6 DEF Placed, AskedBy, OfDay
  <2>2. QED
    BY <1>6, <1>7, <2>1 DEF Steady, Made
<1>9. TypeOK'
  <2>1. job' \in [Handler -> {Idle} \cup LinkJob \cup DraftJob]
    BY <1>1, RowTypes
  <2>2. LinkingTypeOK'
    BY <1>1, RowTypes DEF linking, LinkingTypeOK
  <2>3. ASSUME NEW k \in Grant, lock[k] # None
        PROVE  job'[lock[k]].pc \in {"place", "undo", "placed"} /\ job'[lock[k]].grant = k
    <3>1. /\ lock[k] \in Handler /\ job[lock[k]].pc \in {"place", "undo", "placed"}
          /\ job[lock[k]].grant = k
      BY <2>3 DEF IInv, TypeOK
    <3>2. QED
      BY <1>1, <3>1, RowTypes
  <2>4. QED
    BY <1>1, <1>6, <2>1, <2>2, <2>3, DraftTypes DEF TypeOK
<1>10. GoodJobs'
  <2> SUFFICES ASSUME NEW k \in Handler PROVE GoodJob(k, job[k])'
    BY DEF GoodJobs
  <2>1. CASE k = h
    <3>1. job'[k] = Idle
      BY <1>1, <2>1, RowTypes
    <3>2. QED
      BY <3>1 DEF GoodJob, Idle, Holding
  <2>2. CASE k # h
    <3>1. job'[k] = job[k]
      BY <1>1, <2>2, RowTypes
    <3>2. job[k].pc \in Holding => job[k].draft \in Made
      BY DEF IInv, GoodJobs, GoodJob
    <3>3. job[k].pc \in Holding => drafts'[job[k].draft] = drafts[job[k].draft]
      BY <1>6, <1>7, <3>2 DEF Made
    <3>4. QED
      BY <1>1, <1>8, <3>1, <3>3, OthersStay
  <2>3. QED
    BY <2>1, <2>2
<1>11. GoodLinks' /\ WithinDay'
  BY <1>1, <1>8, SpendsNoMore, RowTypes DEF GoodLinks, linking
<1>12. GoodDrafts'
  <2>1. IsFiniteSet(Made')
    BY <1>7, FS_AddElement DEF IInv, GoodDrafts
  <2>2. GoodDraft(d)'
    <3>1. asked'[d] = "nobody"
      BY <1>1, <1>7 DEF IInv, GoodDrafts, GoodDraft
    <3>2. row.status = "draft" => ~RequiresUser(g, total)
      BY <1>3
    <3>3. grants' = grants /\ grants[g].limits[1] \in Nat /\ total \in Nat
      <4>1. grants[g].limits \in Nat \X Nat
        BY <1>5, RowTypes, LimitsAreLegal DEF GrantRow
      <4>2. QED
        BY <1>1, <4>1, TotalsArePositive DEF linking
    <3>4. row.status = "draft" => total <= grants[g].limits[1]
      BY <3>2, <3>3 DEF RequiresUser
    <3>5. row.grant = g /\ row.total = total
      BY <1>3
    <3>6. QED
      BY <1>1, <1>2, <1>5, <1>6, <3>1, <3>3, <3>4, <3>5 DEF GoodDraft, InUse, Agents
  <2>3. ASSUME NEW x \in Draft, x # d PROVE GoodDraft(x)'
    BY <1>1, <1>6, <2>3 DEF IInv, GoodDrafts, GoodDraft, InUse, linking
  <2>4. QED
    BY <2>1, <2>2, <2>3 DEF GoodDrafts
<1>13. WhatTheCustomerSaw'
  <2>1. order[d].status # "open"
    BY <1>7 DEF IInv, GoodDrafts, GoodDraft, NoOrder
  <2>2. \A k \in Handler : job[k].pc = "undo" => job'[k] = job[k]
    BY <1>1, RowTypes
  <2>3. QED
    BY <1>1, <1>6, <2>1, <2>2 DEF IInv, WhatTheCustomerSaw
<1>14. QED
  BY <1>9, <1>10, <1>11, <1>12, <1>13 DEF IInv

-----------------------------------------------------------------------------
(* The status of a draft *)

(* A status is written; the rest of the row stays.                         *)
LEMMA RowWritten ==
  ASSUME IInv, NEW d \in Draft, NEW status \in DraftStatus, UpdateDraft(d, status)
  PROVE  /\ drafts' \in [Draft -> DraftRow] /\ drafts'[d].status = status
         /\ drafts'[d].grant = drafts[d].grant /\ drafts'[d].total = drafts[d].total
         /\ drafts'[d].day = drafts[d].day
         /\ \A x \in Draft : x # d => drafts'[x] = drafts[x]
<1>1. drafts \in [Draft -> DraftRow]
  BY DraftTypes
<1>2. PICK row : row = [drafts[d] EXCEPT
                          !.status = status,
                          !.late = drafts[d].late /\ status \in {"draft", "awaiting_user"}]
  OBVIOUS
<1>3. drafts' = [drafts EXCEPT ![d] = row]
  BY <1>1, <1>2 DEF UpdateDraft, DraftRow
<1>4. (drafts[d].late /\ status \in {"draft", "awaiting_user"}) \in BOOLEAN
  OBVIOUS
<1>5. /\ row \in DraftRow /\ row.status = status /\ row.grant = drafts[d].grant
      /\ row.total = drafts[d].total /\ row.day = drafts[d].day
  BY <1>1, <1>2, <1>4 DEF DraftRow
<1>6. QED
  BY <1>1, <1>3, <1>5

(* No draft is placed by it, so nothing more is spent.                     *)
LEMMA StatusIsSteady ==
  ASSUME IInv, NEW d \in Made, NEW status \in {"expired", "awaiting_user", "rejected"},
         UpdateDraft(d, status), UNCHANGED asked
  PROVE  /\ Steady /\ Made' = Made
         /\ UNCHANGED <<linking, order>> => \A x \in Draft : GoodDraft(x)'
<1>1. d \in Draft /\ status \in DraftStatus /\ drafts[d].status # "absent"
  BY DEF Made, DraftStatus
<1>2. /\ drafts'[d].status = status /\ drafts'[d].grant = drafts[d].grant
      /\ drafts'[d].total = drafts[d].total /\ drafts'[d].day = drafts[d].day
      /\ \A x \in Draft : x # d => drafts'[x] = drafts[x]
  BY <1>1, RowWritten
<1>3. \A k, day : Placed(k, day)' \subseteq Placed(k, day)
  BY <1>2 DEF Placed, AskedBy, OfDay
<1>4. Made' = Made
  BY <1>1, <1>2 DEF Made
<1>5. Steady
  BY <1>2, <1>3, <1>4 DEF Steady, Made
<1>6. ASSUME UNCHANGED <<linking, order>>, NEW x \in Draft PROVE GoodDraft(x)'
  <2>1. GoodDraft(x)
    BY DEF IInv, GoodDrafts
  <2>2. CASE x = d
    BY <1>1, <1>2, <1>6, <2>1, <2>2 DEF GoodDraft, InUse, linking
  <2>3. CASE x # d
    BY <1>2, <1>6, <2>1, <2>3 DEF GoodDraft, InUse, linking
  <2>4. QED
    BY <2>2, <2>3
<1>7. QED
  BY <1>4, <1>5, <1>6

(* A refusal or a rejection that takes no lock.                            *)
LEMMA StatusWritten ==
  ASSUME IInv, NEW h \in Handler, NEW d \in Made,
         NEW status \in {"expired", "awaiting_user", "rejected"},
         UpdateDraft(d, status), UNCHANGED <<linking, order, lock, today, asked>>,
         job' = [job EXCEPT ![h] = Idle], job[h].pc \notin Holding,
         status = "rejected" \/ lock[drafts[d].grant] = None
  PROVE  IInv'
<1>1. Steady /\ Made' = Made /\ \A x \in Draft : GoodDraft(x)'
  BY StatusIsSteady
<1>2. /\ drafts' \in [Draft -> DraftRow] /\ drafts'[d].status = status
      /\ drafts'[d].total = drafts[d].total
      /\ \A x \in Draft : x # d => drafts'[x] = drafts[x]
  BY RowWritten DEF Made, DraftStatus
<1>3. /\ job' \in [Handler -> {Idle} \cup LinkJob \cup DraftJob] /\ job'[h] = Idle
      /\ \A k \in Handler : k # h => job'[k] = job[k]
  BY RowTypes
<1>4. TypeOK'
  <2>1. LinkingTypeOK'
    BY RowTypes DEF linking, LinkingTypeOK
  <2>2. ASSUME NEW k \in Grant, lock[k] # None
        PROVE  job'[lock[k]].pc \in {"place", "undo", "placed"} /\ job'[lock[k]].grant = k
    <3>1. /\ lock[k] \in Handler /\ job[lock[k]].pc \in {"place", "undo", "placed"}
          /\ job[lock[k]].grant = k
      BY <2>2 DEF IInv, TypeOK
    <3>2. lock[k] # h
      BY <3>1 DEF Holding
    <3>3. QED
      BY <1>3, <3>1, <3>2
  <2>3. QED
    BY <1>2, <1>3, <2>1, <2>2, DraftTypes DEF TypeOK
<1>5. GoodJobs'
  <2> SUFFICES ASSUME NEW k \in Handler PROVE GoodJob(k, job[k])'
    BY DEF GoodJobs
  <2>1. CASE k = h
    BY <1>3, <2>1 DEF GoodJob, Idle, Holding
  <2>2. CASE k # h
    <3>1. job'[k] = job[k]
      BY <1>3, <2>2
    <3>2. ASSUME job[k].pc \in Holding
          PROVE  drafts'[job[k].draft].status \in {drafts[job[k].draft].status, "rejected"}
      <4>1. job[k].draft \in Made /\ lock[job[k].grant] = k
            /\ drafts[job[k].draft].grant = job[k].grant
        BY <3>2 DEF IInv, GoodJobs, GoodJob, Holds
      <4>2. job[k].draft = d => status = "rejected"
        BY <4>1, NoneIsNoId
      <4>3. QED
        BY <1>2, <4>1, <4>2 DEF Made
    <3>3. QED
      BY <1>1, <3>1, <3>2, OthersStay
  <2>3. QED
    BY <2>1, <2>2
<1>6. GoodLinks' /\ WithinDay'
  BY <1>1, SpendsNoMore, RowTypes DEF GoodLinks, linking
<1>7. GoodDrafts'
  BY <1>1 DEF IInv, GoodDrafts
<1>8. WhatTheCustomerSaw'
  <2>1. \A k \in Handler : job[k].pc = "undo" => job'[k] = job[k]
    BY <1>3 DEF Holding
  <2>2. \A x \in Draft : drafts'[x].total = drafts[x].total
    BY <1>2
  <2>3. QED
    BY <2>1, <2>2 DEF IInv, WhatTheCustomerSaw
<1>9. QED
  BY <1>4, <1>5, <1>6, <1>7, <1>8 DEF IInv

(* UserRejectDraft writes whatever happened since.                         *)
LEMMA SaveRejectedKeeps ==
  ASSUME IInv, NEW h \in Handler, SaveRejected(h)
  PROVE  IInv'
<1>1. job[h].pc = "reject" /\ UNCHANGED <<linking, order, lock, today, asked>>
      /\ UpdateDraft(job[h].draft, "rejected") /\ job' = [job EXCEPT ![h] = Idle]
  BY DEF SaveRejected, At, Finish, Become
<1>2. job[h].draft \in Made /\ job[h].pc \notin Holding
  BY <1>1 DEF IInv, GoodJobs, GoodJob, Holding
<1>3. QED
  BY <1>1, <1>2, StatusWritten

-----------------------------------------------------------------------------
(* Taking the lock *)

(* What ConfirmDraft checks under the lock leaves room for the draft.      *)
LEMMA ThereIsRoom ==
  ASSUME IInv, NEW d \in Made, drafts[d].day = today,
         ~ExceedsDaily(drafts[d].grant, drafts[d].total)
  PROVE  Room(d)
<1>1. PICK g, total : g = drafts[d].grant /\ total = drafts[d].total
  OBVIOUS
<1>2. g \in Grant /\ total \in Nat /\ IsFiniteSet(Made) /\ TypeOK
  BY <1>1, TotalsAreNat DEF IInv, GoodDrafts, GoodDraft, Made, InUse
<1>3. PICK T : T = {x \in Draft : /\ drafts[x].grant = g /\ drafts[x].status = "placed"
                                  /\ drafts[x].day = today}
  OBVIOUS
<1>4. Placed(g, today) \subseteq T /\ T \subseteq Made
  BY <1>3 DEF Placed, OfDay, AskedBy, Made
<1>5. /\ Spent(T) \in Int /\ Spent(Placed(g, today)) \in Int
      /\ Spent(Placed(g, today)) <= Spent(T)
  BY <1>2, <1>4, MoreIsSpent, SpentIsInt
<1>6. SpentSince(g) = Spent(T)
  BY <1>3 DEF SpentSince
<1>7. grants[g].limits[2] \in Int
  <2>1. grants[g].limits \in Nat \X Nat
    BY <1>2, RowTypes, LimitsAreLegal DEF GrantRow
  <2>2. QED
    BY <2>1
<1>8. grants[g].limits[2] > 0 => Spent(T) + total <= grants[g].limits[2]
  BY <1>1, <1>2, <1>5, <1>6, <1>7 DEF ExceedsDaily
<1>9. grants[g].limits[2] > 0 => Spent(Placed(g, today)) + total <= grants[g].limits[2]
  BY <1>2, <1>5, <1>7, <1>8
<1>10. QED
  BY <1>1, <1>9 DEF Room

(* With the lock goes the name of who confirmed.                           *)
LEMMA LockTaken ==
  ASSUME IInv, NEW h \in Handler, NEW g, NEW d, NEW who \in Asker,
         job[h].pc = "lock", g = job[h].grant, d = job[h].draft, drafts[d].grant = g,
         lock[g] = None, lock' = [lock EXCEPT ![g] = h], asked' = [asked EXCEPT ![d] = who],
         Become(h, [job[h] EXCEPT !.pc = "place"]), UNCHANGED <<linking, drafts, order, today>>,
         \/ who = "customer" /\ drafts[d].status = "awaiting_user"
         \/ who \in Agents /\ drafts[d].status = "draft" /\ (who = "agent" => Room(d))
  PROVE  IInv'
<1>1. job[h] \in DraftJob /\ g \in Grant /\ d \in Made /\ d \in Draft
  BY KindsOfJobs DEF IInv, DraftJob, GoodJobs, GoodJob, Made
<1>2. PICK j : j = [job[h] EXCEPT !.pc = "place"]
  OBVIOUS
<1>3. j \in DraftJob /\ j.pc = "place" /\ j.grant = g /\ j.draft = d
  BY <1>1, <1>2 DEF DraftJob
<1>4. /\ job' \in [Handler -> {Idle} \cup LinkJob \cup DraftJob] /\ job'[h] = j
      /\ \A k \in Handler : k # h => job'[k] = job[k]
  BY <1>2, <1>3, RowTypes DEF Become
<1>5. /\ lock' \in [Grant -> Handler \cup {None}] /\ lock'[g] = h
      /\ \A k \in Grant : k # g => lock'[k] = lock[k]
  BY <1>1, DraftTypes
<1>6. /\ asked' \in [Draft -> Asker] /\ asked'[d] = who
      /\ \A x \in Draft : x # d => asked'[x] = asked[x]
  BY <1>1, DraftTypes
<1>7. Steady
  <2>1. \A k, day : Placed(k, day)' \subseteq Placed(k, day)
    BY <1>6 DEF Placed, AskedBy, OfDay
  <2>2. QED
    BY <2>1 DEF Steady, Made
<1>8. TypeOK'
  <2>1. LinkingTypeOK'
    BY RowTypes DEF linking, LinkingTypeOK
  <2>2. ASSUME NEW k \in Grant, lock'[k] # None
        PROVE  job'[lock'[k]].pc \in {"place", "undo", "placed"} /\ job'[lock'[k]].grant = k
    <3>1. CASE k = g
      BY <1>3, <1>4, <1>5, <3>1
    <3>2. CASE k # g
      <4>1. /\ lock'[k] = lock[k] /\ lock[k] \in Handler
            /\ job[lock[k]].pc \in {"place", "undo", "placed"} /\ job[lock[k]].grant = k
        BY <1>5, <2>2, <3>2 DEF IInv, TypeOK
      <4>2. lock[k] # h
        BY <4>1
      <4>3. QED
        BY <1>4, <4>1, <4>2
    <3>3. QED
      BY <3>1, <3>2
  <2>3. QED
    BY <1>4, <1>5, <1>6, <2>1, <2>2, DraftTypes DEF TypeOK
<1>9. GoodJobs'
  <2> SUFFICES ASSUME NEW k \in Handler PROVE GoodJob(k, job[k])'
    BY DEF GoodJobs
  <2>1. CASE k = h
    <3>1. Room(d) => Room(d)'
      BY <1>1, <1>7, SpendsNoMore
    <3>2. Holds(h, j)'
      BY <1>3, <1>5, <1>6, <3>1 DEF Holds, Agents
    <3>3. d \in Made'
      BY <1>1, <1>7 DEF Steady
    <3>4. j.pc = "place" /\ job'[k] = j
      BY <1>3, <1>4, <2>1
    <3>5. QED
      BY <1>3, <2>1, <3>2, <3>3, <3>4 DEF GoodJob, Holds, Holding
  <2>2. CASE k # h
    <3>1. job'[k] = job[k]
      BY <1>4, <2>2
    <3>2. ASSUME job[k].pc \in Holding
          PROVE  /\ lock'[job[k].grant] = lock[job[k].grant]
                 /\ asked'[job[k].draft] = asked[job[k].draft]
      <4>1. job[k].draft \in Made /\ lock[job[k].grant] = k
            /\ drafts[job[k].draft].grant = job[k].grant /\ job[k] \in DraftJob
        BY <3>2, KindsOfJobs DEF IInv, GoodJobs, GoodJob, Holds
      <4>2. job[k].grant # g /\ job[k].draft # d /\ job[k].grant \in Grant
        BY <4>1, NoneIsNoId DEF DraftJob
      <4>3. QED
        BY <1>5, <1>6, <4>1, <4>2 DEF Made
    <3>3. QED
      BY <1>7, <3>1, <3>2, OthersStay
  <2>3. QED
    BY <2>1, <2>2
<1>10. GoodLinks' /\ WithinDay'
  BY <1>7, SpendsNoMore, RowTypes DEF GoodLinks, linking
<1>11. GoodDrafts'
  <2>1. Made' = Made
    BY DEF Made
  <2>2. ASSUME NEW x \in Draft PROVE GoodDraft(x)'
    <3>1. GoodDraft(x)
      BY DEF IInv, GoodDrafts
    <3>2. CASE x = d
      BY <1>6, <3>1, <3>2 DEF GoodDraft, InUse, linking, Agents
    <3>3. CASE x # d
      BY <1>6, <3>1, <3>3 DEF GoodDraft, InUse, linking
    <3>4. QED
      BY <3>2, <3>3
  <2>3. QED
    BY <2>1, <2>2 DEF IInv, GoodDrafts
<1>12. WhatTheCustomerSaw'
  <2>1. \A k \in Handler : job[k].pc = "undo" => job'[k] = job[k]
    BY <1>4
  <2>2. QED
    BY <2>1 DEF IInv, WhatTheCustomerSaw
<1>13. QED
  BY <1>8, <1>9, <1>10, <1>11, <1>12 DEF IInv

(* The agent confirms: refused, overdue, for the customer, or placed.      *)
LEMMA ConfirmDraftKeeps ==
  ASSUME IInv, NEW h \in Handler, ConfirmDraft(h)
  PROVE  IInv'
<1>1. PICK g, d : g = job[h].grant /\ d = job[h].draft
  OBVIOUS
<1>2. /\ job[h].pc = "lock" /\ lock[g] = None /\ UNCHANGED <<linking, order, today>>
      /\ job[h].pc \notin Holding
  BY <1>1 DEF ConfirmDraft, At, LockIsFree, Holding
<1>3. d \in Made /\ g \in Grant
  BY <1>1, <1>2, KindsOfJobs DEF IInv, GoodJobs, GoodJob, DraftJob
<1>4. asked' = IF lock' = lock THEN asked
               ELSE [asked EXCEPT ![d] = IF drafts[d].day = today THEN "agent" ELSE "late_agent"]
  BY <1>1 DEF ConfirmDraft
<1>5. CASE Finish(h) /\ UNCHANGED <<drafts, lock>>
  <2>1. UNCHANGED <<linking, ordering>>
    BY <1>2, <1>4, <1>5 DEF ordering
  <2>2. QED
    BY <1>2, <1>5, <2>1, IdleIsGood, CallMoves DEF Finish, Become
<1>6. ASSUME NEW status \in {"expired", "awaiting_user"}, UpdateDraft(d, status), Finish(h),
             UNCHANGED lock, drafts[d].grant = g
      PROVE  IInv'
  <2>1. asked' = asked
    BY <1>4, <1>6
  <2>2. QED
    BY <1>2, <1>3, <1>6, <2>1, StatusWritten DEF Finish, Become
<1>7. CASE /\ drafts[d].grant = g /\ drafts[d].status = "draft"
           /\ ~ExceedsDaily(g, drafts[d].total) /\ UNCHANGED drafts
           /\ Become(h, [job[h] EXCEPT !.pc = "place"]) /\ lock' = [lock EXCEPT ![g] = h]
  <2>1. PICK who : who = IF drafts[d].day = today THEN "agent" ELSE "late_agent"
    OBVIOUS
  <2>2. lock' # lock
    BY <1>2, <1>3, <1>7, DraftTypes, NoneIsNoId
  <2>3. asked' = [asked EXCEPT ![d] = who]
    BY <1>4, <2>1, <2>2
  <2>4. who \in Asker /\ who \in Agents
    BY <2>1 DEF Asker, Agents
  <2>5. who = "agent" => Room(d)
    BY <1>3, <1>7, <2>1, ThereIsRoom
  <2>6. QED
    BY <1>1, <1>2, <1>7, <2>3, <2>4, <2>5, LockTaken
<1>8. QED
  BY <1>1, <1>5, <1>6, <1>7 DEF ConfirmDraft

(* The customer approves.                                                  *)
LEMMA UserApproveDraftKeeps ==
  ASSUME IInv, NEW h \in Handler, UserApproveDraft(h)
  PROVE  IInv'
<1>1. PICK g, d : g = job[h].grant /\ d = job[h].draft
  OBVIOUS
<1>2. /\ job[h].pc = "lock" /\ job[h].user /\ lock[g] = None /\ UNCHANGED <<linking, order, today>>
      /\ job[h].pc \notin Holding
  BY <1>1 DEF UserApproveDraft, At, LockIsFree, Holding
<1>3. d \in Made /\ g \in Grant /\ drafts[d].grant = g
  BY <1>1, <1>2, KindsOfJobs DEF IInv, GoodJobs, GoodJob, DraftJob
<1>4. asked' = IF lock' = lock THEN asked ELSE [asked EXCEPT ![d] = "customer"]
  BY <1>1 DEF UserApproveDraft
<1>5. CASE Finish(h) /\ UNCHANGED <<drafts, lock>>
  <2>1. UNCHANGED <<linking, ordering>>
    BY <1>2, <1>4, <1>5 DEF ordering
  <2>2. QED
    BY <1>2, <1>5, <2>1, IdleIsGood, CallMoves DEF Finish, Become
<1>6. CASE UpdateDraft(d, "expired") /\ Finish(h) /\ UNCHANGED lock
  <2>1. asked' = asked
    BY <1>4, <1>6
  <2>2. QED
    BY <1>2, <1>3, <1>6, <2>1, StatusWritten DEF Finish, Become
<1>7. CASE /\ drafts[d].status = "awaiting_user" /\ UNCHANGED drafts
           /\ Become(h, [job[h] EXCEPT !.pc = "place"]) /\ lock' = [lock EXCEPT ![g] = h]
  <2>1. lock' # lock
    BY <1>2, <1>3, <1>7, DraftTypes, NoneIsNoId
  <2>2. asked' = [asked EXCEPT ![d] = "customer"]
    BY <1>4, <2>1
  <2>3. QED
    BY <1>1, <1>2, <1>3, <1>7, <2>2, LockTaken DEF Asker
<1>8. QED
  BY <1>1, <1>5, <1>6, <1>7 DEF UserApproveDraft

-----------------------------------------------------------------------------
(* Placing *)

(* An order is made under the lock, or none for a test key.                *)
LEMMA HolderMoves ==
  ASSUME IInv, NEW h \in Handler, NEW d, NEW pc \in {"placed", "undo"},
         job[h].pc = "place", d = job[h].draft, Become(h, [job[h] EXCEPT !.pc = pc]),
         order' \in [Draft -> OrderRow], \A x \in Draft : x # d => order'[x] = order[x],
         pc = "placed" => order'[d].total = drafts[d].total \/ order' = order,
         UNCHANGED <<linking, drafts, lock, today, asked>>
  PROVE  IInv'
<1>1. job[h] \in DraftJob /\ d \in Made /\ d \in Draft /\ Holds(h, job[h])
  BY KindsOfJobs DEF IInv, GoodJobs, GoodJob, Holding, Made
<1>2. PICK j : j = [job[h] EXCEPT !.pc = pc]
  OBVIOUS
<1>3. j \in DraftJob /\ j.pc = pc /\ j.grant = job[h].grant /\ j.draft = d
  BY <1>1, <1>2 DEF DraftJob
<1>4. /\ job' \in [Handler -> {Idle} \cup LinkJob \cup DraftJob] /\ job'[h] = j
      /\ \A k \in Handler : k # h => job'[k] = job[k]
  BY <1>2, <1>3, RowTypes DEF Become
<1>5. Steady /\ Made' = Made
  BY DEF Steady, Made, Placed, AskedBy, OfDay
<1>6. TypeOK'
  <2>1. LinkingTypeOK'
    BY RowTypes DEF linking, LinkingTypeOK
  <2>2. ASSUME NEW k \in Grant, lock[k] # None
        PROVE  job'[lock[k]].pc \in {"place", "undo", "placed"} /\ job'[lock[k]].grant = k
    <3>1. /\ lock[k] \in Handler /\ job[lock[k]].pc \in {"place", "undo", "placed"}
          /\ job[lock[k]].grant = k
      BY <2>2 DEF IInv, TypeOK
    <3>2. QED
      BY <1>3, <1>4, <3>1
  <2>3. QED
    BY <1>4, <2>1, <2>2, DraftTypes DEF TypeOK
<1>7. GoodJobs'
  <2> SUFFICES ASSUME NEW k \in Handler PROVE GoodJob(k, job[k])'
    BY DEF GoodJobs
  <2>1. CASE k = h
    <3>1. Room(d) => Room(d)'
      BY <1>1, <1>5, SpendsNoMore
    <3>2. Holds(h, j)'
      BY <1>1, <1>3, <3>1 DEF Holds
    <3>3. j.pc \in Holding /\ job'[k] = j
      BY <1>3, <1>4, <2>1 DEF Holding
    <3>4. QED
      BY <1>1, <1>3, <1>5, <2>1, <3>2, <3>3 DEF GoodJob, Holds, Holding
  <2>2. CASE k # h
    BY <1>4, <1>5, <2>2, OthersStay
  <2>3. QED
    BY <2>1, <2>2
<1>8. GoodLinks' /\ WithinDay'
  BY <1>5, SpendsNoMore, RowTypes DEF GoodLinks, linking
<1>9. GoodDrafts'
  <2>1. ASSUME NEW x \in Draft PROVE GoodDraft(x)'
    <3>1. GoodDraft(x)
      BY DEF IInv, GoodDrafts
    <3>2. drafts[x].status = "absent" => x # d
      BY <1>1 DEF Made
    <3>3. QED
      BY <3>1, <3>2 DEF GoodDraft, InUse, linking
  <2>2. QED
    BY <1>5, <2>1 DEF IInv, GoodDrafts
<1>10. WhatTheCustomerSaw'
  <2> SUFFICES ASSUME NEW x \in Draft, order'[x].status = "open", order'[x].total # drafts[x].total
               PROVE  \E k \in Handler : job'[k].pc = "undo" /\ job'[k].draft = x
    BY DEF WhatTheCustomerSaw
  <2>1. CASE x = d /\ pc = "undo"
    BY <1>3, <1>4, <2>1
  <2>2. CASE ~(x = d /\ pc = "undo")
    <3>1. order'[x] = order[x]
      BY <2>2
    <3>2. PICK k \in Handler : job[k].pc = "undo" /\ job[k].draft = x
      BY <3>1 DEF IInv, WhatTheCustomerSaw
    <3>3. job'[k] = job[k]
      BY <1>4, <3>2
    <3>4. QED
      BY <3>2, <3>3
  <2>3. QED
    BY <2>1, <2>2
<1>11. QED
  BY <1>6, <1>7, <1>8, <1>9, <1>10 DEF IInv

(* The lock is given back.                                                 *)
LEMMA LockReleased ==
  ASSUME IInv, NEW h \in Handler, NEW d, job[h].pc \in Holding, d = job[h].draft, EndOfPlace(h),
         UNCHANGED <<linking, today, asked>>, Made' = Made,
         drafts' \in [Draft -> DraftRow], order' \in [Draft -> OrderRow],
         \A x \in Draft : x # d => drafts'[x] = drafts[x],
         drafts'[d].grant = drafts[d].grant,
         \A x \in Made : drafts[x].grant # job[h].grant /\ Room(x) => Room(x)',
         \A x \in Draft : GoodDraft(x)', WithinDay', WhatTheCustomerSaw'
  PROVE  IInv'
<1>1. job[h] \in DraftJob /\ d \in Made /\ Holds(h, job[h])
  BY KindsOfJobs DEF IInv, GoodJobs, GoodJob, Holding
<1>2. PICK g \in Grant : g = job[h].grant
  BY <1>1 DEF DraftJob
<1>3. /\ job' \in [Handler -> {Idle} \cup LinkJob \cup DraftJob] /\ job'[h] = Idle
      /\ \A k \in Handler : k # h => job'[k] = job[k]
  BY RowTypes DEF EndOfPlace, Finish, Become
<1>4. /\ lock' \in [Grant -> Handler \cup {None}] /\ lock'[g] = None /\ lock[g] = h
      /\ \A k \in Grant : k # g => lock'[k] = lock[k]
  BY <1>1, <1>2, DraftTypes DEF EndOfPlace, Unlock, Holds
<1>5. TypeOK'
  <2>1. LinkingTypeOK'
    BY RowTypes DEF linking, LinkingTypeOK
  <2>2. ASSUME NEW k \in Grant, lock'[k] # None
        PROVE  job'[lock'[k]].pc \in {"place", "undo", "placed"} /\ job'[lock'[k]].grant = k
    <3>1. /\ k # g /\ lock'[k] = lock[k] /\ lock[k] \in Handler
          /\ job[lock[k]].pc \in {"place", "undo", "placed"} /\ job[lock[k]].grant = k
      BY <1>4, <2>2 DEF IInv, TypeOK
    <3>2. lock[k] # h
      BY <1>2, <3>1
    <3>3. QED
      BY <1>3, <3>1, <3>2
  <2>3. QED
    BY <1>3, <1>4, <2>1, <2>2, DraftTypes DEF TypeOK
<1>6. GoodJobs'
  <2> SUFFICES ASSUME NEW k \in Handler PROVE GoodJob(k, job[k])'
    BY DEF GoodJobs
  <2>1. CASE k = h
    BY <1>3, <2>1 DEF GoodJob, Idle, Holding
  <2>2. CASE k # h
    <3>1. PICK x : x = job[k].draft
      OBVIOUS
    <3>2. ASSUME job[k].pc \in Holding
          PROVE  x \in Made /\ drafts[x].grant # g /\ x # d /\ lock'[job[k].grant] = lock[job[k].grant]
      <4>1. x \in Made /\ lock[job[k].grant] = k /\ drafts[x].grant = job[k].grant
            /\ job[k].grant \in Grant
        BY <3>1, <3>2, KindsOfJobs DEF IInv, GoodJobs, GoodJob, Holds, DraftJob
      <4>2. job[k].grant # g
        BY <1>4, <2>2, <4>1
      <4>3. drafts[d].grant = g
        BY <1>1, <1>2 DEF Holds
      <4>4. QED
        BY <1>4, <4>1, <4>2, <4>3
    <3>3. job[k].pc \in Holding /\ Room(x) => Room(x)'
      BY <1>2, <3>2
    <3>4. job[k].pc \in Holding => drafts'[x] = drafts[x]
      BY <3>2 DEF Made
    <3>5. \A y \in Made : drafts'[y].grant = drafts[y].grant
      BY DEF Made
    <3>6. QED
      BY <1>3, <2>2, <3>1, <3>2, <3>3, <3>4, <3>5, OthersKnow
  <2>3. QED
    BY <2>1, <2>2
<1>7. GoodLinks' /\ GoodDrafts'
  BY RowTypes DEF GoodLinks, linking, IInv, GoodDrafts
<1>8. QED
  BY <1>5, <1>6, <1>7 DEF IInv

(* Placing an order: made, or not, or not needed.                          *)
LEMMA PlaceKeeps ==
  ASSUME IInv, NEW h \in Handler,
         PlaceTest(h) \/ \E total \in Total : PlaceAgentOrder(h, total)
  PROVE  IInv'
<1>1. PICK d : d = job[h].draft
  OBVIOUS
<1>2. /\ job[h].pc = "place" /\ UNCHANGED <<linking, drafts, lock, today, asked>>
      /\ d \in Draft
  BY <1>1 DEF PlaceTest, PlaceAgentOrder, At, IInv, GoodJobs, GoodJob, Holding, Made
<1>3. CASE PlaceTest(h)
  <2>1. order' = order /\ Become(h, [job[h] EXCEPT !.pc = "placed"])
    BY <1>3 DEF PlaceTest
  <2>2. QED
    BY <1>1, <1>2, <2>1, DraftTypes, HolderMoves
<1>4. ASSUME NEW total \in Total, PlaceAgentOrder(h, total) PROVE IInv'
  <2>1. PICK row : row = IF order[d] = NoOrder THEN [status |-> "open", total |-> total]
                         ELSE order[d]
    OBVIOUS
  <2>2. order' = [order EXCEPT ![d] = row]
    BY <1>1, <1>2, <1>4, <2>1, DraftTypes DEF PlaceAgentOrder
  <2>3. row \in OrderRow
    BY <1>2, <2>1, DraftTypes DEF OrderRow
  <2>4. order' \in [Draft -> OrderRow] /\ \A x \in Draft : x # d => order'[x] = order[x]
    BY <2>2, <2>3, DraftTypes
  <2>5. PICK pc \in {"placed", "undo"} :
          pc = IF order'[d].total = drafts[d].total THEN "placed" ELSE "undo"
    OBVIOUS
  <2>6. Become(h, [job[h] EXCEPT !.pc = pc])
    BY <1>1, <1>4, <2>5 DEF PlaceAgentOrder, CheckTotal
  <2>7. QED
    BY <1>1, <1>2, <2>4, <2>5, <2>6, HolderMoves
<1>5. QED
  BY <1>3, <1>4

(* No order could be made, or one at a wrong price is cancelled.           *)
LEMMA UndoKeeps ==
  ASSUME IInv, NEW h \in Handler, CannotPlace(h) \/ CancelMismatch(h)
  PROVE  IInv'
<1>1. PICK d : d = job[h].draft
  OBVIOUS
<1>2. /\ job[h].pc \in {"place", "undo"} /\ EndOfPlace(h) /\ UNCHANGED <<linking, drafts, today, asked>>
      /\ order' = order \/ /\ order[d].status = "open"
                           /\ order' = [order EXCEPT ![d].status = "closed"]
      /\ job[h].pc = "undo" => order[d].status # "open" \/ order' # order
  <2>1. CASE CannotPlace(h)
    BY <2>1 DEF CannotPlace, At
  <2>2. CASE CancelMismatch(h)
    <3>1. /\ job[h].pc = "undo" /\ EndOfPlace(h) /\ UNCHANGED <<linking, drafts, today, asked>>
          /\ \/ order[d].status = "open" /\ order' = [order EXCEPT ![d].status = "closed"]
             \/ order[d].status # "open" /\ order' = order
      BY <1>1, <2>2 DEF CancelMismatch, At
    <3>2. d \in Draft /\ order[d] \in OrderRow
      BY <1>1, <3>1, DraftTypes DEF IInv, GoodJobs, GoodJob, Holding, Made
    <3>3. order' = [order EXCEPT ![d].status = "closed"] => order'[d].status = "closed"
      BY <3>2, DraftTypes DEF OrderRow
    <3>4. QED
      BY <3>1, <3>3
  <2>3. QED
    BY <2>1, <2>2
<1>3. d \in Made /\ d \in Draft /\ job[h].pc \in Holding
  BY <1>1, <1>2 DEF IInv, GoodJobs, GoodJob, Holding, Made
<1>4. /\ order' \in [Draft -> OrderRow]
      /\ \A x \in Draft : order'[x].total = order[x].total
      /\ \A x \in Draft : order'[x].status = "open" => order[x].status = "open"
      /\ \A x \in Draft : x # d => order'[x] = order[x]
      /\ job[h].pc = "undo" => order'[d].status # "open"
  <2>1. order \in [Draft -> OrderRow]
    BY DraftTypes
  <2>2. CASE order' = order
    BY <1>2, <2>1, <2>2
  <2>3. CASE order' = [order EXCEPT ![d].status = "closed"]
    BY <1>3, <2>1, <2>3 DEF OrderRow
  <2>4. QED
    BY <1>2, <2>2, <2>3
<1>5. Steady /\ Made' = Made
  BY <1>2 DEF Steady, Made, Placed, AskedBy, OfDay
<1>6. WithinDay' /\ \A x \in Made : Room(x) => Room(x)'
  BY <1>2, <1>5, SpendsNoMore
<1>7. ASSUME NEW x \in Draft PROVE GoodDraft(x)'
  <2>1. GoodDraft(x)
    BY DEF IInv, GoodDrafts
  <2>2. drafts[x].status = "absent" => x # d
    BY <1>3 DEF Made
  <2>3. QED
    BY <1>2, <1>4, <2>1, <2>2 DEF GoodDraft, InUse, linking
<1>8. WhatTheCustomerSaw'
  <2> SUFFICES ASSUME NEW x \in Draft, order'[x].status = "open", order'[x].total # drafts[x].total
               PROVE  \E k \in Handler : job'[k].pc = "undo" /\ job'[k].draft = x
    BY <1>2 DEF WhatTheCustomerSaw
  <2>1. PICK k \in Handler : job[k].pc = "undo" /\ job[k].draft = x
    BY <1>4 DEF IInv, WhatTheCustomerSaw
  <2>2. k # h
    BY <1>1, <1>4, <2>1
  <2>3. job'[k] = job[k]
    BY <1>2, <2>2, RowTypes DEF EndOfPlace, Finish, Become
  <2>4. QED
    BY <2>1, <2>3
<1>9. drafts' \in [Draft -> DraftRow] /\ UNCHANGED drafts
  BY <1>2, DraftTypes
<1>10. QED
  BY <1>1, <1>2, <1>3, <1>4, <1>5, <1>6, <1>7, <1>8, <1>9, LockReleased

(* One more placed draft costs its price.                                  *)
LEMMA OneMoreSpent ==
  ASSUME TypeOK, IsFiniteSet(Made), NEW g, NEW day, NEW d \in Made, d \notin Placed(g, day),
         Placed(g, day)' = Placed(g, day) \cup {d},
         \A x \in Draft : drafts'[x].total = drafts[x].total
  PROVE  Spent(Placed(g, day))' = Spent(Placed(g, day)) + drafts[d].total
<1>1. PICK S : S = Placed(g, day)
  OBVIOUS
<1>2. S \subseteq Made /\ S \subseteq Draft /\ d \in Draft
  BY <1>1, PlacedAreMade DEF Made
<1>3. IsFiniteSet(S)
  BY <1>2, FS_Subset
<1>4. PICK f : f = [x \in Draft |-> drafts[x].total]
  OBVIOUS
<1>5. [x \in Draft |-> drafts'[x].total] = f
  BY <1>4
<1>6. \A x \in S \cup {d} : f[x] \in Int
  <2>1. \A x \in Draft : drafts[x].total \in Nat
    BY TotalsAreNat
  <2>2. QED
    BY <1>2, <1>4, <2>1
<1>7. SumFunctionOnSet(f, S \cup {d}) = SumFunctionOnSet(f, S) + f[d]
  BY <1>1, <1>3, <1>6, SumOfOneMore
<1>8. Spent(Placed(g, day)) = SumFunctionOnSet(f, S)
  BY <1>1, <1>4 DEF Spent
<1>9. Spent(Placed(g, day))' = SumFunctionOnSet(f, S \cup {d})
  BY <1>1, <1>5 DEF Spent
<1>10. QED
  BY <1>2, <1>4, <1>7, <1>8, <1>9

(* The draft is placed, unless the write fails.                            *)
LEMMA SavePlacedKeeps ==
  ASSUME IInv, NEW h \in Handler, SavePlaced(h)
  PROVE  IInv'
<1>1. PICK d : d = job[h].draft
  OBVIOUS
<1>2. job[h].pc = "placed" /\ EndOfPlace(h) /\ UNCHANGED <<linking, order, today, asked>>
  BY DEF SavePlaced, At
<1>3. d \in Made /\ d \in Draft /\ job[h].pc \in Holding /\ Holds(h, job[h])
  BY <1>1, <1>2 DEF IInv, GoodJobs, GoodJob, Holding, Made
<1>4. \A k \in Handler : job[k].pc = "undo" => job'[k] = job[k]
  BY <1>2, RowTypes DEF EndOfPlace, Finish, Become
<1>5. CASE UNCHANGED drafts
  <2>1. Steady /\ Made' = Made
    BY <1>2, <1>5 DEF Steady, Made, Placed, AskedBy, OfDay
  <2>2. WithinDay' /\ \A x \in Made : Room(x) => Room(x)'
    BY <1>2, <2>1, SpendsNoMore
  <2>3. \A x \in Draft : GoodDraft(x)'
    BY <1>2, <1>5 DEF IInv, GoodDrafts, GoodDraft, InUse, linking
  <2>4. WhatTheCustomerSaw'
    BY <1>2, <1>4, <1>5 DEF IInv, WhatTheCustomerSaw
  <2>5. QED
    BY <1>1, <1>2, <1>3, <1>5, <2>1, <2>2, <2>3, <2>4, DraftTypes, LockReleased
<1>6. CASE UpdateDraft(d, "placed")
  <2>1. /\ drafts' \in [Draft -> DraftRow] /\ drafts'[d].status = "placed"
        /\ drafts'[d].grant = drafts[d].grant /\ drafts'[d].total = drafts[d].total
        /\ drafts'[d].day = drafts[d].day
        /\ \A x \in Draft : x # d => drafts'[x] = drafts[x]
    BY <1>3, <1>6, RowWritten DEF DraftStatus
  <2>2. Made' = Made /\ \A x \in Draft : drafts'[x].total = drafts[x].total
    BY <1>3, <2>1 DEF Made
  <2>3. PICK g, day : g \in Grant /\ g = drafts[d].grant /\ day = drafts[d].day
    BY <1>3 DEF IInv, GoodDrafts, GoodDraft, Made, InUse
  <2>4. /\ job[h].grant = g /\ drafts[d].status # "placed"
        /\ asked[d] = "agent" => Room(d)
    BY <1>1, <1>3, <2>3 DEF Holds, Agents
  <2>5. \A k, t : ~(k = g /\ t = day /\ asked[d] = "agent") => Placed(k, t)' \subseteq Placed(k, t)
    BY <1>2, <2>1, <2>3 DEF Placed, AskedBy, OfDay
  <2>6. asked[d] = "agent" => Placed(g, day)' = Placed(g, day) \cup {d} /\ d \notin Placed(g, day)
    BY <1>2, <1>3, <2>1, <2>3, <2>4 DEF Placed, AskedBy, OfDay, Made
  <2>7. TypeOK /\ IsFiniteSet(Made) /\ UNCHANGED <<partner, links, grants>>
        /\ \A k \in Grant : grants[k].limits[2] \in Int
    <3>1. \A k \in Grant : grants[k].limits \in Nat \X Nat
      BY RowTypes, LimitsAreLegal DEF GrantRow
    <3>2. QED
      BY <1>2, <3>1 DEF IInv, GoodDrafts, linking
  <2>8. ASSUME NEW k, NEW t, ~(k = g /\ t = day /\ asked[d] = "agent")
        PROVE  /\ Spent(Placed(k, t)) \in Int /\ Spent(Placed(k, t))' \in Int
               /\ Spent(Placed(k, t))' <= Spent(Placed(k, t))
    <3>1. \A x \in Placed(k, t) : drafts'[x].total = drafts[x].total
      BY <2>2, PlacedAreMade
    <3>2. QED
      BY <2>5, <2>7, <2>8, <3>1, SpentKept
  <2>9. WithinDay'
    <3> SUFFICES ASSUME NEW k \in Grant, InUse(k)', grants'[k].limits[2] > 0, NEW t \in 0..MaxDay
                 PROVE  Spent(Placed(k, t))' <= grants'[k].limits[2]
      BY DEF WithinDay
    <3>1. InUse(k) /\ grants[k].limits[2] > 0 /\ grants'[k] = grants[k]
      BY <2>7 DEF InUse
    <3>2. CASE k = g /\ t = day /\ asked[d] = "agent"
      <4>1. Spent(Placed(g, day))' = Spent(Placed(g, day)) + drafts[d].total
        BY <1>3, <2>2, <2>6, <2>7, <3>2, OneMoreSpent
      <4>2. Spent(Placed(g, day)) + drafts[d].total <= grants[g].limits[2]
        BY <2>3, <2>4, <3>1, <3>2 DEF Room
      <4>3. QED
        BY <3>1, <3>2, <4>1, <4>2
    <3>3. CASE ~(k = g /\ t = day /\ asked[d] = "agent")
      <4>1. Spent(Placed(k, t)) <= grants[k].limits[2]
        BY <3>1 DEF IInv, WithinDay
      <4>2. QED
        BY <2>7, <2>8, <3>1, <3>3, <4>1
    <3>4. QED
      BY <3>2, <3>3
  <2>10. ASSUME NEW x \in Made, drafts[x].grant # g, Room(x) PROVE Room(x)'
    <3>1. PICK k, t, total : k = drafts[x].grant /\ t = drafts[x].day /\ total = drafts[x].total
      OBVIOUS
    <3>2. k \in Grant /\ k # g /\ total \in Nat /\ x # d /\ x \in Draft
      BY <2>3, <2>10, <3>1, TotalsAreNat DEF IInv, GoodDrafts, GoodDraft, Made, InUse
    <3>3. grants[k].limits[2] > 0 => Spent(Placed(k, t)) + total <= grants[k].limits[2]
      BY <2>10, <3>1 DEF Room
    <3>4. grants[k].limits[2] > 0 => Spent(Placed(k, t))' + total <= grants[k].limits[2]
      BY <2>7, <2>8, <3>2, <3>3
    <3>5. drafts'[x] = drafts[x] /\ grants' = grants
      BY <2>1, <2>7, <3>2
    <3>6. QED
      BY <3>1, <3>4, <3>5 DEF Room
  <2>11. ASSUME NEW x \in Draft PROVE GoodDraft(x)'
    <3>1. GoodDraft(x)
      BY DEF IInv, GoodDrafts
    <3>2. CASE x = d
      BY <1>2, <1>3, <2>1, <2>7, <3>1, <3>2 DEF GoodDraft, InUse, Made
    <3>3. CASE x # d
      BY <1>2, <2>1, <2>7, <3>1, <3>3 DEF GoodDraft, InUse
    <3>4. QED
      BY <3>2, <3>3
  <2>12. WhatTheCustomerSaw'
    BY <1>2, <1>4, <2>2 DEF IInv, WhatTheCustomerSaw
  <2>13. order' \in [Draft -> OrderRow]
    BY <1>2, DraftTypes
  <2>14. QED
    BY <1>1, <1>2, <1>3, <2>1, <2>2, <2>4, <2>9, <2>10, <2>11, <2>12, <2>13, LockReleased
<1>7. QED
  BY <1>1, <1>5, <1>6 DEF SavePlaced

-----------------------------------------------------------------------------
(* The rest of the world *)

(* Kitchens, deadlines and midnights.                                      *)
LEMMA WorldMoves ==
  ASSUME IInv, OrderMoves \/ DraftDeadline \/ NextDay
  PROVE  IInv'
<1>1. UNCHANGED <<linking, job, lock, asked>>
  BY DEF OrderMoves, DraftDeadline, NextDay
<1>2. /\ drafts' \in [Draft -> DraftRow]
      /\ \A d \in Draft : /\ drafts'[d].status = drafts[d].status /\ drafts'[d].day = drafts[d].day
                          /\ drafts'[d].grant = drafts[d].grant /\ drafts'[d].total = drafts[d].total
  <2>1. drafts \in [Draft -> DraftRow]
    BY DraftTypes
  <2>2. CASE OrderMoves \/ NextDay
    BY <2>1, <2>2 DEF OrderMoves, NextDay
  <2>3. CASE DraftDeadline
    <3>1. PICK d \in Draft : drafts' = [drafts EXCEPT ![d].late = TRUE]
      BY <2>3 DEF DraftDeadline
    <3>2. QED
      BY <2>1, <3>1 DEF DraftRow
  <2>4. QED
    BY <2>2, <2>3
<1>3. /\ order' \in [Draft -> OrderRow]
      /\ \A d \in Draft : order'[d].total = order[d].total
      /\ \A d \in Draft : order'[d].status = "open" => order[d].status = "open"
      /\ \A d \in Draft : order[d] = NoOrder => order'[d] = NoOrder
  <2>1. order \in [Draft -> OrderRow]
    BY DraftTypes
  <2>2. CASE DraftDeadline \/ NextDay
    BY <2>1, <2>2 DEF DraftDeadline, NextDay
  <2>3. CASE OrderMoves
    <3>1. PICK d \in Draft : order[d].status = "open" /\ order' = [order EXCEPT ![d].status = "closed"]
      BY <2>3 DEF OrderMoves
    <3>2. QED
      BY <2>1, <3>1 DEF OrderRow, NoOrder
  <2>4. QED
    BY <2>2, <2>3
<1>4. today' \in 0..MaxDay
  BY DraftTypes, BoundsOfDrafts DEF OrderMoves, DraftDeadline, NextDay
<1>5. Steady /\ Made' = Made
  BY <1>1, <1>2 DEF Steady, Made, Placed, AskedBy, OfDay
<1>6. TypeOK'
  <2>1. LinkingTypeOK'
    BY <1>1, RowTypes DEF linking, LinkingTypeOK
  <2>2. QED
    BY <1>1, <1>2, <1>3, <1>4, <2>1 DEF IInv, TypeOK
<1>7. GoodJobs'
  <2> SUFFICES ASSUME NEW k \in Handler PROVE GoodJob(k, job[k])'
    BY DEF GoodJobs
  <2>1. job[k].pc \in Holding => job[k].draft \in Draft
    BY DEF IInv, GoodJobs, GoodJob, Made
  <2>2. QED
    BY <1>1, <1>2, <1>5, <2>1, OthersStay
<1>8. GoodLinks' /\ WithinDay'
  BY <1>1, <1>5, SpendsNoMore, RowTypes DEF GoodLinks, linking
<1>9. GoodDrafts'
  <2>1. ASSUME NEW d \in Draft PROVE GoodDraft(d)'
    <3>1. GoodDraft(d)
      BY DEF IInv, GoodDrafts
    <3>2. QED
      BY <1>1, <1>2, <1>3, <3>1 DEF GoodDraft, InUse, linking
  <2>2. QED
    BY <1>5, <2>1 DEF IInv, GoodDrafts
<1>10. WhatTheCustomerSaw'
  BY <1>1, <1>2, <1>3 DEF IInv, WhatTheCustomerSaw
<1>11. QED
  BY <1>6, <1>7, <1>8, <1>9, <1>10 DEF IInv

-----------------------------------------------------------------------------
(* The theorems *)

(* Nothing is connected and nothing was ordered.                           *)
LEMMA InitHolds ==
  ASSUME Init
  PROVE  IInv
<1>1. /\ LinkingTypeOK /\ links = [l \in Link |-> NoLink] /\ grants = [g \in Grant |-> NoGrant]
  BY DEF Init, LinkingInit, LinkingTypeOK, NoLink, NoGrant, LinkRow, GrantRow, LinkStatus
<1>2. /\ job = [h \in Handler |-> Idle] /\ drafts = [d \in Draft |-> NoDraft]
      /\ order = [d \in Draft |-> NoOrder] /\ lock = [g \in Grant |-> None]
      /\ today = 0 /\ asked = [d \in Draft |-> "nobody"]
  BY DEF Init
<1>3. NoDraft \in DraftRow /\ NoOrder \in OrderRow /\ today \in 0..MaxDay
  BY <1>2, BoundsOfDrafts DEF NoDraft, DraftRow, DraftStatus, NoOrder, OrderRow
<1>4. TypeOK
  BY <1>1, <1>2, <1>3 DEF TypeOK, Asker
<1>5. GoodJobs /\ GoodLinks
  BY <1>1, <1>2, IdleIsGood DEF GoodJobs, GoodLinks, NoLink
<1>6. Made = {} /\ IsFiniteSet(Made)
  BY <1>2, FS_EmptySet DEF Made, NoDraft
<1>7. GoodDrafts
  BY <1>2, <1>6 DEF GoodDrafts, GoodDraft, NoDraft, Agents
<1>8. WithinDay
  BY <1>1 DEF WithinDay, InUse, NoGrant
<1>9. WhatTheCustomerSaw
  BY <1>2 DEF WhatTheCustomerSaw, NoOrder
<1>10. QED
  BY <1>4, <1>5, <1>7, <1>8, <1>9 DEF IInv

(* A step that does nothing.                                               *)
LEMMA UnchangedKeeps ==
  ASSUME IInv, UNCHANGED vars
  PROVE  IInv'
<1>1. UNCHANGED <<partner, links, grants, job, drafts, order, lock, today, asked>>
  BY DEF vars
<1>2. UNCHANGED ordering /\ LinkingTypeOK' /\ GoodLinks' /\ Kept
  BY <1>1, RowTypes DEF ordering, LinkingTypeOK, GoodLinks, Kept, InUse
<1>3. QED
  BY <1>1, <1>2, RowTypes, RequestsMove

(* Every step of the system keeps the invariant.                           *)
LEMMA NextKeeps ==
  ASSUME IInv, [Next]_vars
  PROVE  IInv'
<1>1. ASSUME NEW h \in Handler, NEW g \in Grant,
             BeginDraft(h, g) \/ \E d \in Draft : BeginConfirm(h, g, d)
      PROVE  IInv'
  BY <1>1, BeginKeeps
<1>2. ASSUME NEW h \in Handler, NEW d \in Draft, BeginApproval(h, d) \/ UserRejectDraft(h, d)
      PROVE  IInv'
  BY <1>2, BeginKeeps
<1>3. ASSUME NEW h \in Handler, NEW t \in Total, CreateDraft(h, t) \/ PlaceAgentOrder(h, t)
      PROVE  IInv'
  BY <1>3, CreateDraftKeeps, PlaceKeeps
<1>4. ASSUME NEW h \in Handler,
             \/ ConfirmDraft(h) \/ UserApproveDraft(h) \/ SaveRejected(h)
             \/ CannotPlace(h) \/ PlaceTest(h) \/ CancelMismatch(h) \/ SavePlaced(h)
      PROVE  IInv'
  BY <1>4, ConfirmDraftKeeps, UserApproveDraftKeeps, SaveRejectedKeeps, UndoKeeps, PlaceKeeps,
     SavePlacedKeeps
<1>5. QED
  BY <1>1, <1>2, <1>3, <1>4, LinkingKeeps, WorldMoves, UnchangedKeeps DEF Next

(* The invariant holds of every behaviour of partners, agents and customers*)
THEOREM Invariance == Spec => []IInv
<1>1. Init => IInv
  BY InitHolds
<1>2. IInv /\ [Next]_vars => IInv'
  BY NextKeeps
<1>3. QED
  BY <1>1, <1>2, PTL DEF Spec

(* Rows, requests and locks have their types; whoever is named by a lock is*)
(* placing an order under it (grantLocks).                                 *)
THEOREM TypeCorrect == Spec => []TypeOK
BY Invariance, PTL DEF IInv

(* What the agent does alone stays within the limits of an order and of a  *)
(* day, for any number of drafts, grants and requests that race            *)
(* (ConfirmDraft, exceedsDaily, grantLocks).                               *)
THEOREM WithinLimitsHolds == Spec => []WithinLimits
<1>1. IInv => WithinLimits
  <2> SUFFICES ASSUME IInv, NEW g \in Grant
               PROVE  /\ \A d \in AskedBy(g, {"agent", "late_agent"}) :
                            drafts[d].total <= grants[g].limits[1]
                      /\ grants[g].limits[2] > 0 => \A day \in 0..MaxDay :
                            Spent(OfDay(AskedBy(g, {"agent"}), day)) <= grants[g].limits[2]
    BY DEF WithinLimits
  <2>1. \A d \in AskedBy(g, {"agent", "late_agent"}) : drafts[d].total <= grants[g].limits[1]
    BY DEF AskedBy, IInv, GoodDrafts, GoodDraft, Agents
  <2>2. ASSUME grants[g].limits[2] > 0, NEW day \in 0..MaxDay
        PROVE  Spent(Placed(g, day)) <= grants[g].limits[2]
    <3>1. CASE InUse(g)
      BY <2>2, <3>1 DEF IInv, WithinDay
    <3>2. CASE ~InUse(g)
      <4>1. Placed(g, day) = {}
        BY <3>2 DEF IInv, GoodDrafts, GoodDraft, Placed, AskedBy, OfDay
      <4>2. Spent(Placed(g, day)) = 0
        BY <4>1, SumOfNone DEF Spent
      <4>3. grants[g].limits \in Nat \X Nat
        BY RowTypes, LimitsAreLegal DEF GrantRow
      <4>4. QED
        BY <4>2, <4>3
    <3>3. QED
      BY <3>1, <3>2
  <2>3. QED
    BY <2>1, <2>2 DEF Placed
<1>2. QED
  BY <1>1, Invariance, PTL

(* An open order costs what its draft said, or is about to be cancelled    *)
(* (placeAgentOrder, CancelMismatch).                                      *)
THEOREM WhatTheCustomerSawHolds == Spec => []WhatTheCustomerSaw
BY Invariance, PTL DEF IInv

(* Only SavePlaced places a draft; any other step leaves those not placed. *)
LEMMA OnlySavedIsPlaced ==
  ASSUME IInv, Next, NEW d \in Draft, drafts'[d].status = "placed", drafts[d].status # "placed"
  PROVE  \E h \in Handler : SavePlaced(h) /\ d = job[h].draft /\ job[h].pc = "placed"
<1>1. drafts' # drafts
  OBVIOUS
<1>2. CASE \E h \in Handler : SavePlaced(h)
  <2>1. PICK h \in Handler : SavePlaced(h)
    BY <1>2
  <2>2. UpdateDraft(job[h].draft, "placed") /\ job[h].pc = "placed"
    BY <1>1, <2>1 DEF SavePlaced, At
  <2>3. job[h].draft \in Draft
    BY <2>2 DEF IInv, GoodJobs, GoodJob, Holding, Made
  <2>4. d = job[h].draft
    BY <2>2, <2>3, RowWritten DEF DraftStatus
  <2>5. QED
    BY <2>1, <2>2, <2>4
<1>3. ASSUME NEW h \in Handler, NEW x \in Made, NEW status \in {"expired", "awaiting_user", "rejected"},
             UpdateDraft(x, status)
      PROVE  FALSE
  <2>1. x \in Draft /\ status \in DraftStatus
    BY DEF Made, DraftStatus
  <2>2. drafts'[x].status = status /\ \A y \in Draft : y # x => drafts'[y] = drafts[y]
    BY <1>3, <2>1, RowWritten
  <2>3. QED
    BY <2>2
<1>4. CASE \E h \in Handler : ConfirmDraft(h) \/ UserApproveDraft(h) \/ SaveRejected(h)
  <2>1. PICK h \in Handler : ConfirmDraft(h) \/ UserApproveDraft(h) \/ SaveRejected(h)
    BY <1>4
  <2>2. job[h].pc \in {"lock", "reject"}
    BY <2>1 DEF ConfirmDraft, UserApproveDraft, SaveRejected, At
  <2>3. job[h].draft \in Made
    BY <2>2 DEF IInv, GoodJobs, GoodJob
  <2>4. PICK status \in {"expired", "awaiting_user", "rejected"} : UpdateDraft(job[h].draft, status)
    BY <1>1, <2>1 DEF ConfirmDraft, UserApproveDraft, SaveRejected
  <2>5. QED
    BY <1>3, <2>3, <2>4
<1>5. CASE \E h \in Handler, total \in Total : CreateDraft(h, total)
  <2>1. PICK h \in Handler, total \in Total : CreateDraft(h, total)
    BY <1>5
  <2>2. PICK x \in Draft, status \in {"awaiting_user", "draft"} :
          drafts' = [drafts EXCEPT ![x] = [status |-> status, grant |-> job[h].grant,
                                           total |-> total, late |-> FALSE, day |-> today]]
    <3>1. PICK status \in {"awaiting_user", "draft"} :
            status = IF RequiresUser(job[h].grant, total) THEN "awaiting_user" ELSE "draft"
      OBVIOUS
    <3>2. QED
      BY <2>1, <3>1 DEF CreateDraft
  <2>3. QED
    BY <2>2, DraftTypes
<1>6. CASE DraftDeadline
  <2>1. PICK x \in Draft : drafts' = [drafts EXCEPT ![x].late = TRUE]
    BY <1>6 DEF DraftDeadline
  <2>2. QED
    BY <2>1, DraftTypes DEF DraftRow
<1>7. QED
  BY <1>1, <1>2, <1>4, <1>5, <1>6
  DEF Next, ordering, BeginDraft, BeginConfirm, BeginApproval, UserRejectDraft, PlaceAgentOrder,
      CannotPlace, PlaceTest, CancelMismatch, OrderMoves, NextDay

(* A draft above the limit is placed by nobody but the customer, though the*)
(* agent, the customer and their rejections race for it                    *)
(* (ConfirmDraft, UserApproveDraft).                                       *)
THEOREM OnlyCustomerReleasesHolds == Spec => OnlyCustomerReleases
<1>1. IInv /\ [Next]_vars =>
        [\A d \in Draft : drafts[d].status = "awaiting_user" /\ drafts'[d].status = "placed"
           => asked[d] = "customer"]_vars
  <2> SUFFICES ASSUME IInv, Next, NEW d \in Draft, drafts[d].status = "awaiting_user",
                      drafts'[d].status = "placed"
               PROVE  asked[d] = "customer"
    OBVIOUS
  <2>1. PICK h \in Handler : SavePlaced(h) /\ d = job[h].draft /\ job[h].pc = "placed"
    BY OnlySavedIsPlaced
  <2>2. Holds(h, job[h])
    BY <2>1 DEF IInv, GoodJobs, GoodJob, Holding
  <2>3. QED
    BY <2>1, <2>2 DEF Holds
<1>2. QED
  BY <1>1, Invariance, PTL DEF Spec, OnlyCustomerReleases
=============================================================================
