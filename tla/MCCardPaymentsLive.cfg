CONSTANTS
  Courier = {c1}
  None = None
  Handler = {h1, h2}
  Sweeper = sw
  MaxPayments = 2
  Settings <- InTurnOrTogether
SPECIFICATION FairSpec
PROPERTIES AcceptedIsCharged  HeldReachesOrder
CHECK_DEADLOCK FALSE
