----------------------------- MODULE MCCheckout -----------------------------
EXTENDS Checkout, TLC

Dishes == [plov  |-> [price |-> 10, own |-> 0, category |-> "hot"],
           salad |-> [price |-> 7, own |-> 5, category |-> "cold"]]

Basic == [type |-> "percent", unit |-> "percent", value |-> 30, min |-> 0, max |-> 0,
          previous |-> 0, products |-> {}, categories |-> {}, whole |-> FALSE,
          start |-> 0, end |-> 9, active |-> TRUE]
Limited == [Basic EXCEPT !.whole = TRUE, !.max = 4]
Forms ==
  { Limited,
    [Basic EXCEPT !.type = "fixed_amount", !.unit = "amount", !.value = 6,
                  !.products = {"plov", "salad"}, !.start = 1],
    [Basic EXCEPT !.type = "bogo", !.categories = {"hot"}],
    [Basic EXCEPT !.type = "bundle", !.unit = "amount", !.value = 9,
                  !.products = {"plov", "salad"}, !.end = 0],
    [Limited EXCEPT !.type = "loyalty", !.unit = "amount", !.value = 7, !.previous = 1],
    [Basic EXCEPT !.type = "free_delivery", !.whole = TRUE],
    [Basic EXCEPT !.value = 100, !.products = {"salad"}, !.min = 15, !.max = 8] }

L(product, qty) == [product |-> product, qty |-> qty]
Small == <<L("plov", 2)>>
Carts == {Small, <<L("plov", 1), L("salad", 2), L("plov", 2)>>}

Hours(e, o, c) == [enabled |-> e, open |-> o, close |-> c]
Shut == Hours(FALSE, 0, 0)
Schedules ==
  { [d \in 1..7 |-> Hours(TRUE, 1, 3)],
    [d \in 1..7 |-> IF d = 1 THEN Hours(TRUE, 2, 1) ELSE Shut],
    [d \in 1..7 |-> IF d \in {1, 2} THEN Hours(TRUE, 2, 2) ELSE Shut],
    [d \in 1..7 |-> IF d = 7 THEN Hours(TRUE, 3, 2) ELSE IF d = 1 THEN Hours(TRUE, 1, 3) ELSE Shut],
    [d \in 1..7 |-> Hours(TRUE, 3, 3)],
    [d \in 1..7 |-> Hours(TRUE, 3, 2)] }

Symmetry == Permutations(Handler)

HoursAtRest == switch /\ hours = None /\ clock = 0 /\ shown = None
NothingBought == Cardinality(ledger) = 1 /\ SavedOrders = {} /\ lock = None
OneQuote == /\ \A h \in Handler : job[h].pc \in {"idle", "price"}
            /\ Cardinality({h \in Handler : job[h].pc = "price"}) <= 1
            /\ \A h \in Handler : job[h].pc = "price" =>
                 job[h].method = "cash" /\ job[h].key = None /\ job[h].expected = 0
PanelAtRest == \A m \in Manager : panel[m] = NoRequest

(* Bounds: the restaurant's hours; every cart against every table of the   *)
(* panel; orders of one cart while the panel edits one promotion.          *)
Separately ==
  \/ promos = <<>> /\ PanelAtRest /\ day = 0 /\ NothingBought /\ \A h \in Handler : job[h] = Idle
  \/ /\ HoursAtRest /\ NothingBought /\ OneQuote
     /\ PanelAtRest \/ \A h \in Handler : job[h] = Idle
  \/ /\ HoursAtRest /\ day = 0
     /\ \A p \in ToSet(promos) : p.id = "p1" /\ p.whole /\ p.max = 4
     /\ \A m \in Manager : panel[m].pc \in {"idle", "save"}
     /\ \A m \in Manager : panel[m].pc = "save" => panel[m].row.whole /\ panel[m].row.max = 4 /\ panel[m].row.id = "p1"
     /\ \A h \in Handler : job[h].pc = "price" => job[h].cart = Small
=============================================================================
