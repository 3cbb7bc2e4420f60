CONSTANTS
  Member = {m1, m2}
  Manager = {g1, g2}
  Phone = {p1, p2}
  UserId = {"u1", "u2", "u3"}
  None = None
  Unset = Unset
  NoKey = NoKey
  MaxRequests = 3
  Overlap = FALSE
  Worker = {w1, w2}
  Shifts <- TwoShifts
  Salary = 100
  Month <- Days
  HireDates <- Hires
  LastDay = 5
  WeekDays = 3
  MaxEvents = 3
  TableId = {"t1", "t2"}
  OrderId = {"o1", "o2"}
  Name = {n1, n2}
  Host = {h1}
  Waiter = {v1, v2}
  Guest = {guest}
  Key = {key}
  MaxTables = 2
  MaxHour = 2
SPECIFICATION Spec
CONSTRAINT Bounded
SYMMETRY Symmetry
INVARIANTS ClosedMeansClosed ApprovedMeansLinked HistoryIsRestored OneOrderPerKey
PROPERTIES ForeignUntouched
CHECK_DEADLOCK FALSE
