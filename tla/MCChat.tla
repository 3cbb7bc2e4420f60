------------------------------- MODULE MCChat -------------------------------
(* A restaurant's desk, whose socket may break, and the platform's office. *)
EXTENDS SupportChat

CONSTANTS desk, office

MCHears == [d \in Device |-> IF d = desk THEN {"m"} ELSE {"a"}]
MCSideOf == [d \in Panel |-> IF d = desk THEN "restaurant" ELSE "admin"]
MCTopicOf == [s \in Side |-> IF s = "admin" THEN "a" ELSE "m"]

(* The requests of the panels that are under way.                          *)
Under(f) == {q \in Panel : f[q] # Idle}
Busy == Cardinality(Under(post)) + Cardinality(Under(mark)) + Cardinality(Under(page))

(* Two requests at a time, and two messages, one of each panel or both of  *)
(* the office; with two the office, whose socket stays, asks for no page.  *)
(* One request and one message once something went wrong.                  *)
Posted == view[desk].written + view[office].written
Bounded == /\ view[desk].written <= 1
           /\ Posted = 2 => page[office] = Idle
           /\ IF met \in Harmless THEN Busy <= 2 /\ Posted <= 2 ELSE Busy <= 1 /\ Posted <= 1
=============================================================================
