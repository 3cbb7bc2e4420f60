--------------------------- MODULE MCAgentOrders ---------------------------
EXTENDS AgentOrders, TLC
LimitPairs == {<<1, 1>>}
Symmetry == Permutations(Handler) \cup Permutations(Grant) \cup Permutations(Draft)

(* Bound: drafts are looked at only once the connection is made, while     *)
(* nothing but its revocation happens to it and the partner is switched on;*)
(* they are made on the first day.                                         *)
Separately ==
  \/ drafts = [d \in Draft |-> NoDraft]
  \/ /\ partner.active
     /\ \A d \in Draft : drafts[d].day = 0
     /\ Cardinality(UnusedGrants) = Cardinality(Grant) - 1
     /\ \A l \in Link : links[l].status = "consumed"
     /\ \A h \in Handler : job[h].pc \notin {"token", "consume", "replace", "revoke_old",
                                            "create", "decide"}
=============================================================================
