--------------------------- MODULE MCCardPayments ---------------------------
EXTENDS CardPayments, TLC

Symmetry == Permutations(Handler)

(* Two attempts, signed notifications in any order; one attempt, with      *)
(* failing calls, unsigned notifications and a sweeper.                    *)
Calm == [attempts |-> 2, signed |-> TRUE, retries |-> TRUE, sweeps |-> FALSE,
         late |-> FALSE, faults |-> FALSE, alone |-> FALSE]
Broken == [attempts |-> 1, signed |-> FALSE, retries |-> FALSE, sweeps |-> TRUE,
           late |-> FALSE, faults |-> TRUE, alone |-> FALSE]
RaceAndFaults == {[Calm EXCEPT !.late = TRUE], Broken}

(* Two of the two handlers and the sweeper at a time.                      *)
TwoAtATime == Cardinality({h \in Process : job[h] # Idle}) <= 2

(* Announced in the order of the bank, without faults: two attempts and    *)
(* one goroutine after another, one attempt and two goroutines at a time.  *)
InTurnOrTogether == {[Calm EXCEPT !.alone = TRUE], [Calm EXCEPT !.attempts = 1]}

(* One attempt whose notifications may come late.                          *)
OneLate == {[Calm EXCEPT !.attempts = 1, !.retries = FALSE, !.late = TRUE, !.alone = TRUE]}
=============================================================================
