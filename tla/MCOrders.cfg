CONSTANTS
  Order = {o1}
  Handler = {h1, h2}
  Watchdog = wd
  Courier = {c1, c2}
  None = None
  MaxAttempts = 2
  MaxVersion = 8
SPECIFICATION Spec
SYMMETRY Symmetry
INVARIANTS TypeOK PaidBeforeKitchen SearchIsConsistent
PROPERTIES ClosedIsFinal HistoryIsTrue ImplementsLifecycle
CHECK_DEADLOCK FALSE
