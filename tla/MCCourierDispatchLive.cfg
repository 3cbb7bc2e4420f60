CONSTANTS
  Order = {o1}
  Courier = {c1}
  Search = {s1, s2}
  None = None
  Settings <- Restless
SPECIFICATION FairSpec
PROPERTIES SearchComesBack NoZombieSearch
CHECK_DEADLOCK FALSE
