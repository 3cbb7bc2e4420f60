------------------------------- MODULE MCHall -------------------------------
EXTENDS Hall, TLC

(* One shift that ends on the next day, one that ends on the same.         *)
Night == [days |-> {0, 1}, start |-> 18 * 60, end |-> 2 * 60]
ByDay == [days |-> {1, 2}, start |-> 9 * 60, end |-> 17 * 60]
TwoShifts == {Night, ByDay}
Hires == {3}
Days == 2..4

(* Bounds of the report: one member and three events, or two members hired *)
(* on the first day and two events.                                        *)
OneOrTwo ==
  \/ Cardinality(Employed) <= 1 /\ Len(journal) <= 3
  \/ /\ Cardinality(Employed) = 2 /\ Len(journal) <= 2
     /\ \A w \in Employed : roster[w].hired = Unset /\ roster[w].since = 1 /\ roster[w].shift # ByDay

(* Bounds of the tables: waiters and one edit of the panel without marks,  *)
(* or the panel beside one guest.                                          *)
RowsOf == {tables[t] : t \in Set}
          \cup UNION {hall[h].rows : h \in {x \in Host : "rows" \in DOMAIN hall[x]}}
          \cup {hall[h].row : h \in {x \in Host : "row" \in DOMAIN hall[x]}}
WaitersOnly == /\ hour = 1 /\ \A g \in Guest : hall[g] = Rest
               /\ \A row \in RowsOf : ~row.upper /\ row.mark = Unmarked
PanelOnly == Cardinality(Made) <= 1 /\ \A w \in Waiter : hall[w] = Rest

Bounded == OneOrTwo /\ (WaitersOnly \/ PanelOnly)

Symmetry == Permutations(Member) \cup Permutations(Manager)
            \cup Permutations(Worker) \cup Permutations(Name)
=============================================================================
