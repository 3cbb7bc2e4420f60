---------------------------- MODULE AgentOrders ----------------------------
(***************************************************************************)
(* agentapi.Service, second half: what the agent of a partner may do with  *)
(* the customer's money.  A draft is priced and shown; the agent confirms  *)
(* it within the customer's limits, otherwise the customer does.           *)
(*                                                                         *)
(* One lock per grant (grantLocks) puts confirmations in a row; the        *)
(* customer's rejection does not take it.  A placed draft has an order     *)
(* whose idempotency key is the draft's id: one order per draft.           *)
(***************************************************************************)
EXTENDS AgentGrants, Functions

CONSTANTS Draft,      \* bound: drafts
          Total,      \* prices a cart may have
          MaxDay      \* bound: days

ASSUME BoundsOfDrafts == None \notin Draft /\ MaxDay \in Nat
ASSUME TotalsArePositive == Total \subseteq Nat \ {0}

VARIABLES drafts,    \* agent_order_drafts
          order,     \* of each draft: the order with its idempotency key
          lock,      \* of each grant: the goroutine that holds its lock
          today,     \* the day
          asked      \* history: who confirmed each draft last

vars == <<partner, links, grants, job, drafts, order, lock, today, asked>>
ordering == <<drafts, order, lock, today, asked>>

DraftStatus == {"absent", "draft", "awaiting_user", "placed", "rejected", "expired"}
DraftRow == [status : DraftStatus, grant : Grant \cup {None}, total : Total \cup {0},
             late : BOOLEAN, day : 0..MaxDay]
NoDraft  == [status |-> "absent", grant |-> None, total |-> 0, late |-> FALSE, day |-> 0]

(* closed: cancelled, or past the statuses in which a customer may cancel. *)
OrderRow == [status : {"none", "open", "closed"}, total : Total \cup {0}]
NoOrder  == [status |-> "none", total |-> 0]

(* late_agent: on a later day than the draft was made. *)
Asker == {"nobody", "agent", "late_agent", "customer"}

(* grant: who calls; user: the customer, not the agent.                    *)
DraftJob == [pc : {"draft", "lock", "place", "undo", "placed", "reject"}, user : BOOLEAN,
             grant : Grant, draft : Draft \cup {None}]
DraftCall(pc, user, g, d) == [pc |-> pc, user |-> user, grant |-> g, draft |-> d]

TypeOK ==
  /\ LinkingTypeOK
  /\ job \in [Handler -> {Idle} \cup LinkJob \cup DraftJob]
  /\ drafts \in [Draft -> DraftRow]
  /\ order \in [Draft -> OrderRow]
  /\ lock \in [Grant -> Handler \cup {None}]
  /\ \A g \in Grant : lock[g] # None =>
       /\ job[lock[g]].pc \in {"place", "undo", "placed"}
       /\ job[lock[g]].grant = g
  /\ today \in 0..MaxDay
  /\ asked \in [Draft -> Asker]

Init ==
  /\ LinkingInit
  /\ job = [h \in Handler |-> Idle]
  /\ drafts = [d \in Draft |-> NoDraft]
  /\ order = [d \in Draft |-> NoOrder]
  /\ lock = [g \in Grant |-> None]
  /\ today = 0
  /\ asked = [d \in Draft |-> "nobody"]

(* UpdateDraft writes the status alone: a draft is a picture of what the   *)
(* customer saw.  The deadline of a closed draft is never looked at.       *)
UpdateDraft(d, status) ==
  drafts' = [drafts EXCEPT ![d].status = status,
                           ![d].late = @ /\ status \in {"draft", "awaiting_user"}]

Unlock(h) == lock' = [lock EXCEPT ![job[h].grant] = None]

-----------------------------------------------------------------------------
(* Limits *)

(* Mutants: nothing that was spent counts; nobody waits for the lock.      *)
NothingSpent(g) == 0
FreeForAll(g) == TRUE

Spent(set) == SumFunctionOnSet([d \in Draft |-> drafts[d].total], set)

(* Of today's drafts, by the day they were made on. *)
SpentSince(g) == Spent({d \in Draft : /\ drafts[d].grant = g /\ drafts[d].status = "placed"
                                      /\ drafts[d].day = today})

ExceedsDaily(g, total) ==
  grants[g].limits[2] > 0 /\ SpentSince(g) + total > grants[g].limits[2]

RequiresUser(g, total) ==
  \/ grants[g].limits[1] = 0 \/ total > grants[g].limits[1]
  \/ ExceedsDaily(g, total)

LockIsFree(g) == lock[g] = None

-----------------------------------------------------------------------------
(* The agent *)

AuthenticateGrant(g) == grants[g].token /\ Usable(grants[g])
RequireScope(g, scope) == scope \in grants[g].scopes

(* The checks in front of every request of an agent (agentAuth). *)
AgentAuth(g, scope) == AuthenticatePartner /\ AuthenticateGrant(g) /\ RequireScope(g, scope)

(* POST /agent/v1/orders/draft: the cart is priced after the token has been*)
(* looked at.                                                              *)
BeginDraft(h, g) ==
  /\ job[h] = Idle /\ AgentAuth(g, "create")
  /\ Become(h, DraftCall("draft", FALSE, g, None))
  /\ UNCHANGED <<linking, ordering>>

CreateDraft(h, total) ==
  /\ At(h, "draft")
  /\ LET unused == {d \in Draft : drafts[d] = NoDraft}
     IN \E d \in unused :
          drafts' = [drafts EXCEPT ![d] =
             [status |-> IF RequiresUser(job[h].grant, total) THEN "awaiting_user" ELSE "draft",
              grant |-> job[h].grant, total |-> total, late |-> FALSE, day |-> today]]
  /\ Finish(h)
  /\ UNCHANGED <<linking, order, lock, today, asked>>

(* POST /agent/v1/orders/confirm: the goroutine waits for the lock.        *)
BeginConfirm(h, g, d) ==
  /\ job[h] = Idle /\ AgentAuth(g, "create")
  /\ drafts[d].status # "absent"
  /\ Become(h, DraftCall("lock", FALSE, g, d))
  /\ UNCHANGED <<linking, ordering>>

(* ConfirmDraft under the lock.  The agent names the total it saw, which   *)
(* never changes: a wrong one ends the call, like every other refusal.     *)
ConfirmDraft(h) ==
  /\ At(h, "lock") /\ ~job[h].user /\ LockIsFree(job[h].grant)
  /\ LET g == job[h].grant
         d == job[h].draft
     IN IF drafts[d].grant # g \/ drafts[d].status # "draft"
        THEN Finish(h) /\ UNCHANGED <<drafts, lock>>
        ELSE \/ Finish(h) /\ UNCHANGED <<drafts, lock>>
             \/ /\ drafts[d].late
                /\ UpdateDraft(d, "expired") /\ Finish(h) /\ UNCHANGED lock
             \/ /\ ~drafts[d].late /\ ExceedsDaily(g, drafts[d].total)
                /\ UpdateDraft(d, "awaiting_user") /\ Finish(h) /\ UNCHANGED lock
             \/ /\ ~drafts[d].late /\ ~ExceedsDaily(g, drafts[d].total)
                /\ Become(h, [job[h] EXCEPT !.pc = "place"])
                /\ lock' = [lock EXCEPT ![g] = h]
                /\ UNCHANGED drafts
  /\ asked' = IF lock' = lock THEN asked
              ELSE [asked EXCEPT ![job[h].draft] =
                      IF drafts[job[h].draft].day = today THEN "agent" ELSE "late_agent"]
  /\ UNCHANGED <<linking, order, today>>

-----------------------------------------------------------------------------
(* The customer *)

BeginApproval(h, d) ==
  /\ job[h] = Idle /\ drafts[d].status # "absent"
  /\ Become(h, DraftCall("lock", TRUE, drafts[d].grant, d))
  /\ UNCHANGED <<linking, ordering>>

(* UserApproveDraft under the lock reads the draft and the grant again.    *)
UserApproveDraft(h) ==
  /\ At(h, "lock") /\ job[h].user /\ LockIsFree(job[h].grant)
  /\ LET g == job[h].grant
         d == job[h].draft
     IN IF drafts[d].status # "awaiting_user"
        THEN Finish(h) /\ UNCHANGED <<drafts, lock>>
        ELSE \/ /\ drafts[d].late
                /\ UpdateDraft(d, "expired") /\ Finish(h) /\ UNCHANGED lock
             \/ /\ ~drafts[d].late /\ ~Usable(grants[g])
                /\ Finish(h) /\ UNCHANGED <<drafts, lock>>
             \/ /\ ~drafts[d].late /\ Usable(grants[g])
                /\ Become(h, [job[h] EXCEPT !.pc = "place"])
                /\ lock' = [lock EXCEPT ![g] = h]
                /\ UNCHANGED drafts
  /\ asked' = IF lock' = lock THEN asked ELSE [asked EXCEPT ![job[h].draft] = "customer"]
  /\ UNCHANGED <<linking, order, today>>

(* UserRejectDraft takes no lock: it writes what it decided on a copy.     *)
UserRejectDraft(h, d) ==
  /\ job[h] = Idle /\ drafts[d].status \in {"awaiting_user", "draft"}
  /\ Become(h, DraftCall("reject", TRUE, drafts[d].grant, d))
  /\ UNCHANGED <<linking, ordering>>

SaveRejected(h) ==
  /\ At(h, "reject")
  /\ UpdateDraft(job[h].draft, "rejected")
  /\ Finish(h)
  /\ UNCHANGED <<linking, order, lock, today, asked>>

-----------------------------------------------------------------------------
(* Placing *)

EndOfPlace(h) == Finish(h) /\ Unlock(h)

(* Mutant: an order of any price will do. *)
TakeAnyPrice(h, d) == Become(h, [job[h] EXCEPT !.pc = "placed"])
CheckTotal(h, d) ==
  Become(h, [job[h] EXCEPT !.pc = IF order'[d].total = drafts[d].total THEN "placed" ELSE "undo"])

(* placeAgentOrder: the cart is priced again, the order of this draft is   *)
(* made unless there is one; a test key makes none.                        *)
PlaceAgentOrder(h, total) ==
  /\ At(h, "place") /\ partner.live
  /\ LET d == job[h].draft
     IN /\ order' = [order EXCEPT ![d] =
             IF order[d] = NoOrder THEN [status |-> "open", total |-> total] ELSE @]
        /\ CheckTotal(h, d)
  /\ UNCHANGED <<linking, drafts, lock, today, asked>>

CannotPlace(h) ==
  /\ At(h, "place") /\ partner.live
  /\ EndOfPlace(h)
  /\ UNCHANGED <<linking, drafts, order, today, asked>>

PlaceTest(h) ==
  /\ At(h, "place") /\ ~partner.live
  /\ Become(h, [job[h] EXCEPT !.pc = "placed"])
  /\ UNCHANGED <<linking, drafts, order, lock, today, asked>>

(* The order has another total than the draft: it is cancelled, if it      *)
(* still may be.                                                           *)
CancelMismatch(h) ==
  /\ At(h, "undo")
  /\ \/ /\ order[job[h].draft].status = "open"
        /\ order' = [order EXCEPT ![job[h].draft].status = "closed"]
     \/ /\ order[job[h].draft].status # "open"
        /\ UNCHANGED order
  /\ EndOfPlace(h)
  /\ UNCHANGED <<linking, drafts, today, asked>>

(* The write may fail although the order exists: the draft can be confirmed*)
(* again and finds its order.                                              *)
SavePlaced(h) ==
  /\ At(h, "placed")
  /\ UpdateDraft(job[h].draft, "placed") \/ UNCHANGED drafts
  /\ EndOfPlace(h)
  /\ UNCHANGED <<linking, order, today, asked>>

-----------------------------------------------------------------------------
(* The rest of the world: the restaurant cooks, the customer or the agent  *)
(* cancels the order, time passes.                                         *)

OrderMoves ==
  /\ \E d \in Draft : /\ order[d].status = "open"
                      /\ order' = [order EXCEPT ![d].status = "closed"]
  /\ UNCHANGED <<linking, job, drafts, lock, today, asked>>

DraftDeadline ==
  /\ \E d \in Draft : /\ drafts[d].status \in {"draft", "awaiting_user"} /\ ~drafts[d].late
                      /\ drafts' = [drafts EXCEPT ![d].late = TRUE]
  /\ UNCHANGED <<linking, job, order, lock, today, asked>>

NextDay ==
  /\ today < MaxDay /\ today' = today + 1
  /\ UNCHANGED <<linking, job, drafts, order, lock, asked>>

Next ==
  \/ LinkingNext /\ UNCHANGED ordering
  \/ \E h \in Handler :
       \/ \E g \in Grant : BeginDraft(h, g) \/ \E d \in Draft : BeginConfirm(h, g, d)
       \/ \E t \in Total : CreateDraft(h, t) \/ PlaceAgentOrder(h, t)
       \/ \E d \in Draft : BeginApproval(h, d) \/ UserRejectDraft(h, d)
       \/ ConfirmDraft(h) \/ UserApproveDraft(h) \/ SaveRejected(h)
       \/ CannotPlace(h) \/ PlaceTest(h) \/ CancelMismatch(h) \/ SavePlaced(h)
  \/ OrderMoves \/ DraftDeadline \/ NextDay

Spec == Init /\ [][Next]_vars

-----------------------------------------------------------------------------
(* Properties *)

(* The placed drafts of a grant, by who confirmed them and by their day.   *)
AskedBy(g, who) ==
  {d \in Draft : drafts[d].grant = g /\ drafts[d].status = "placed" /\ asked[d] \in who}
OfDay(set, day) == {d \in set : drafts[d].day = day}

(* What the agent did alone stays within what the customer allowed: each   *)
(* order within its own limit, and the placed drafts of a day within the   *)
(* day's, although two confirmations race (ConfirmDraft, exceedsDaily).    *)
(* A draft confirmed after midnight counts for neither day.                *)
WithinLimits ==
  \A g \in Grant :
    /\ \A d \in AskedBy(g, {"agent", "late_agent"}) : drafts[d].total <= grants[g].limits[1]
    /\ grants[g].limits[2] > 0 =>
         \A day \in 0..MaxDay : Spent(OfDay(AskedBy(g, {"agent"}), day)) <= grants[g].limits[2]

(* The order of a draft costs what the draft said, unless it is about to be*)
(* cancelled or was already being cooked then (placeAgentOrder).           *)
WhatTheCustomerSaw ==
  \A d \in Draft : order[d].status = "open" /\ order[d].total # drafts[d].total =>
    \E h \in Handler : job[h].pc = "undo" /\ job[h].draft = d

(* A draft that waits for the customer is placed by the customer alone     *)
(* (the lock of the grant, and the status read again under it).            *)
OnlyCustomerReleases ==
  [][\A d \in Draft : drafts[d].status = "awaiting_user" /\ drafts'[d].status = "placed"
       => asked[d] = "customer"]_vars

(* What the comment of RevokeGrant says: there is no window in which a     *)
(* grant that was cut still works.                                         *)
RevokedStaysRevoked ==
  [][\A g \in Grant : grants[g].status = "revoked" => grants'[g].status = "revoked"]_vars
=============================================================================
