-------------------------- MODULE MCCourierDispatch --------------------------
EXTENDS CourierDispatch, TLC

Symmetry == Permutations(Order) \cup Permutations(Courier) \cup Permutations(Search)

(* One order, waves of two, cancellations past the endpoints and faults;   *)
(* two orders that compete, asking one courier at a time.                  *)
Waves == [orders |-> 1, waveSize |-> 2, maxMissed |-> 1, sideCancels |-> TRUE,
          toggles |-> "none", doubleTaps |-> FALSE, faults |-> TRUE]
Two == [orders |-> 2, waveSize |-> 1, maxMissed |-> 1, sideCancels |-> FALSE,
        toggles |-> "none", doubleTaps |-> FALSE, faults |-> FALSE]
WavesAndTwo == {Waves, Two}

(* One order and one courier who does as he likes.                         *)
Restless == {[Waves EXCEPT !.waveSize = 1, !.maxMissed = 2, !.toggles = "any", !.doubleTaps = TRUE]}
==============================================================================
