CONSTANTS
  Handler = {h1, h2}
  Order = {"o1", "o2"}
  Key = {"k1"}
  None = None
  Product = {"plov", "salad"}
  Menu <- Dishes
  Manager = {"m1"}
  PromoId = {"p1", "p2"}
  Form <- Forms
  MaxDay = 1
  Cart <- Carts
  Earned = {30}
  SpendMin = 20
  CashbackMin = 15
  CashbackPercent = 20
  DayLength = 4
  Schedule <- Schedules
SPECIFICATION Spec
CONSTRAINT Separately
SYMMETRY Symmetry
INVARIANTS QuoteIsFair MoneyMatchesOrders UsageIsReal ShownUntilChange
CHECK_DEADLOCK FALSE
