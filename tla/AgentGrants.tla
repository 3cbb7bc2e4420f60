---------------------------- MODULE AgentGrants ----------------------------
(***************************************************************************)
(* agentapi.Service, first half: how the agent of a partner is linked to a *)
(* customer's account.  The partner starts a link and polls it; the        *)
(* customer approves or denies it in the application and may cut the       *)
(* connection later; an operator may switch the partner off.               *)
(*                                                                         *)
(* One partner and one customer.  Every request is a goroutine; links and  *)
(* grants are rows without a version, read whole and written whole, so the *)
(* last writer wins.  AgentOrders adds what the agent does with a grant.   *)
(***************************************************************************)
EXTENDS Integers, FiniteSets

CONSTANTS Handler,    \* request goroutines
          Link,       \* bound: link requests
          Grant,      \* bound: grants
          Scope,      \* permissions there are
          Ceiling,    \* permissions the partner may ask for
          Limits,     \* pairs <<per order, per day>> a customer may set; 0: none
          None        \* no id

ASSUME NoneIsNoId == None \notin Handler \cup Link \cup Grant
ASSUME CeilingOfScopes == Ceiling \subseteq Scope
ASSUME LimitsAreLegal ==
  \A l \in Limits : /\ l \in Nat \X Nat
                    /\ l[2] > 0 => l[1] <= l[2]

VARIABLES partner,  \* [active, live]: switched on; a live or a test key
          links,    \* agent_link_requests
          grants,   \* agent_grants
          job       \* what each goroutine is doing

linking == <<partner, links, grants>>

LinkStatus == {"absent", "pending", "approved", "denied", "consumed", "expired"}

(* late: expires_at has passed; grant: grant_id.                           *)
LinkRow == [status : LinkStatus, scopes : SUBSET Scope, grant : Grant \cup {None}, late : BOOLEAN]
NoLink  == [status |-> "absent", scopes |-> {}, grant |-> None, late |-> FALSE]

(* token: token_hash is set, the partner holds the token.                  *)
GrantRow == [status : {"absent", "active", "revoked"}, token : BOOLEAN, scopes : SUBSET Scope,
             limits : Limits \cup {<<0, 0>>}]
NoGrant  == [status |-> "absent", token |-> FALSE, scopes |-> {}, limits |-> <<0, 0>>]

Idle == [pc |-> "idle"]
LinkJob == [pc : {"token", "consume", "replace", "revoke_old", "create", "decide", "revoke"},
            link : Link \cup {None}, row : LinkRow, grant : Grant \cup {None}, copy : GrantRow,
            old : GrantRow]
LinkCall(pc, l, row, g, copy) ==
  [pc |-> pc, link |-> l, row |-> row, grant |-> g, copy |-> copy, old |-> NoGrant]

LinkingTypeOK ==
  /\ partner \in [active : BOOLEAN, live : BOOLEAN]
  /\ links \in [Link -> LinkRow]
  /\ grants \in [Grant -> GrantRow]

LinkingInit ==
  /\ partner \in [active : {TRUE}, live : BOOLEAN]
  /\ links = [l \in Link |-> NoLink]
  /\ grants = [g \in Grant |-> NoGrant]

Become(h, j) == job' = [job EXCEPT ![h] = j]
Finish(h) == Become(h, Idle)
At(h, pc) == job[h].pc = pc

-----------------------------------------------------------------------------
(* Rules of one record *)

IsLive(l) == l.status = "pending" /\ ~l.late
Usable(g) == g.status = "active"   \* expires_at is never set

IntersectScopes(want, ceiling) == want \cap ceiling

UnusedGrants == {g \in Grant : grants[g] = NoGrant}
Approving == {h \in Handler : job[h].pc \in {"replace", "revoke_old", "create"}}
ActiveGrants == {g \in Grant : grants[g].status = "active"}

(* The partial unique index: one active grant per partner and customer.    *)
IndexAllows(g, row) == row.status = "active" => ActiveGrants \subseteq {g}

(* UpdateLink writes status and grant_id of the copy, not the scopes; a    *)
(* deadline passes by itself.                                              *)
UpdateLink(l, row) ==
  links' = [links EXCEPT ![l] = [@ EXCEPT !.status = row.status, !.grant = row.grant]]

UpdateGrant(g, row) == grants' = [grants EXCEPT ![g] = row]

-----------------------------------------------------------------------------
(* The operator and time *)

SetPartnerActive ==
  /\ partner' = [partner EXCEPT !.active = ~@]
  /\ UNCHANGED <<links, grants, job>>

LinkDeadline ==
  /\ \E l \in Link : /\ IsLive(links[l])
                     /\ links' = [links EXCEPT ![l].late = TRUE]
  /\ UNCHANGED <<partner, grants, job>>

-----------------------------------------------------------------------------
(* The partner's side *)

AuthenticatePartner == partner.active

(* A request that names no scopes asks for all it may have. *)
Wanted(request) == IF request = {} THEN Ceiling ELSE request

StartLink(request) ==
  /\ AuthenticatePartner
  /\ LET scopes == IntersectScopes(Wanted(request), Ceiling)
         unused == {l \in Link : links[l] = NoLink}
     IN /\ scopes # {}
        /\ \E l \in unused :
             links' = [links EXCEPT ![l] =
                         [NoLink EXCEPT !.status = "pending", !.scopes = scopes]]
  /\ UNCHANGED <<partner, grants, job>>

(* An overdue link is closed; only an approved one with a usable grant     *)
(* goes on to the token.  The grant is read with the link.                 *)
PollLink(h, l) ==
  /\ job[h] = Idle /\ AuthenticatePartner
  /\ \/ /\ links[l].status = "pending" /\ links[l].late
        /\ UpdateLink(l, [links[l] EXCEPT !.status = "expired"])
        /\ UNCHANGED job
     \/ /\ links[l].status = "approved"
        /\ LET g == links[l].grant
           IN /\ Usable(grants[g])
              /\ Become(h, LinkCall("token", l, links[l], g, grants[g]))
        /\ UNCHANGED links
  /\ UNCHANGED <<partner, grants>>

(* The whole copy is written, with its old status. *)
SaveToken(h) ==
  /\ At(h, "token")
  /\ IF IndexAllows(job[h].grant, job[h].copy)
     THEN /\ UpdateGrant(job[h].grant, [job[h].copy EXCEPT !.token = TRUE])
          /\ Become(h, [job[h] EXCEPT !.pc = "consume"])
     ELSE Finish(h) /\ UNCHANGED grants
  /\ UNCHANGED <<partner, links>>

ConsumeLink(h) ==
  /\ At(h, "consume")
  /\ UpdateLink(job[h].link, [job[h].row EXCEPT !.status = "consumed"])
  /\ Finish(h)
  /\ UNCHANGED <<partner, grants>>

-----------------------------------------------------------------------------
(* The customer's side *)

ResolveUserCode(l) == IsLive(links[l]) /\ partner.active

(* A customer who chooses nothing allows what was asked for. *)
Chosen(l, request) == IF request = {} THEN links[l].scopes ELSE request

ApproveLink(h, l, request, limits) ==
  /\ job[h] = Idle /\ ResolveUserCode(l)
  /\ Cardinality(UnusedGrants) > Cardinality(Approving)
  /\ LET granted == IntersectScopes(Chosen(l, request), links[l].scopes)
     IN /\ granted # {}
        /\ Become(h, LinkCall("replace", l, links[l], None,
                     [status |-> "active", token |-> FALSE, scopes |-> granted,
                      limits |-> limits]))
  /\ UNCHANGED linking

(* ActiveGrantFor; a revoked copy of what it finds is written next.        *)
FindOldGrant(h) ==
  /\ At(h, "replace")
  /\ IF ActiveGrants = {} THEN Become(h, [job[h] EXCEPT !.pc = "create"])
     ELSE \E old \in ActiveGrants :
            Become(h, [job[h] EXCEPT !.pc = "revoke_old", !.grant = old,
                         !.old = [grants[old] EXCEPT !.status = "revoked"]])
  /\ UNCHANGED linking

RevokeOldGrant(h) ==
  /\ At(h, "revoke_old")
  /\ UpdateGrant(job[h].grant, job[h].old)
  /\ Become(h, [job[h] EXCEPT !.pc = "create", !.grant = None, !.old = NoGrant])
  /\ UNCHANGED <<partner, links>>

CreateGrant(h) ==
  /\ At(h, "create")
  /\ IF ActiveGrants # {} THEN Finish(h) /\ UNCHANGED grants
     ELSE \E g \in UnusedGrants :
             /\ UpdateGrant(g, job[h].copy)
             /\ Become(h, [job[h] EXCEPT !.pc = "decide", !.copy = NoGrant,
                  !.row = [@ EXCEPT !.status = "approved", !.grant = g]])
  /\ UNCHANGED <<partner, links>>

DecideLink(h) ==
  /\ At(h, "decide")
  /\ UpdateLink(job[h].link, job[h].row)
  /\ Finish(h)
  /\ UNCHANGED <<partner, grants>>

DenyLink(h, l) ==
  /\ job[h] = Idle /\ ResolveUserCode(l)
  /\ Become(h, LinkCall("decide", l, [links[l] EXCEPT !.status = "denied"], None, NoGrant))
  /\ UNCHANGED linking

RevokeGrant(h, g) ==
  /\ job[h] = Idle /\ grants[g].status = "active"
  /\ Become(h, LinkCall("revoke", None, NoLink, g, [grants[g] EXCEPT !.status = "revoked"]))
  /\ UNCHANGED linking

SaveRevoked(h) ==
  /\ At(h, "revoke")
  /\ UpdateGrant(job[h].grant, job[h].copy)
  /\ Finish(h)
  /\ UNCHANGED <<partner, links>>

-----------------------------------------------------------------------------
LinkingNext ==
  \/ SetPartnerActive \/ LinkDeadline
  \/ \E request \in SUBSET Scope : StartLink(request)
  \/ \E h \in Handler :
       \/ \E l \in Link : PollLink(h, l) \/ DenyLink(h, l)
       \/ \E l \in Link, request \in SUBSET Scope, limits \in Limits :
            ApproveLink(h, l, request, limits)
       \/ \E g \in Grant : RevokeGrant(h, g)
       \/ SaveToken(h) \/ ConsumeLink(h) \/ FindOldGrant(h) \/ RevokeOldGrant(h)
       \/ CreateGrant(h) \/ DecideLink(h) \/ SaveRevoked(h)
=============================================================================
