CONSTANTS
  Courier = {c1}
  None = None
  Handler = {h1, h2}
  Sweeper = sw
  MaxPayments = 2
  Settings <- RaceAndFaults
SPECIFICATION Spec
SYMMETRY Symmetry
INVARIANTS NeverAheadOfBank OnlyAcceptedIsCharged ChargedOnce
CONSTRAINT TwoAtATime
CHECK_DEADLOCK FALSE
