------------------------------ MODULE MCAlerts ------------------------------
(* One panel; an order that arrives and one that waits, found by the job.  *)
EXTENDS Alerts

CONSTANT panel

MCHears == [d \in Device |-> {"m"}]
MCKeyOf == [s \in Source |-> IF s = "waiting" THEN "order_waiting" ELSE "new_order"]
=============================================================================
