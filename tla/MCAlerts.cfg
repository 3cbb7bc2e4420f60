SPECIFICATION AlertsSpec
CONSTANTS
  panel = panel
  Device = {panel}
  Topic = {"m"}
  Hears <- MCHears
  OutBuffer = 2
  Source = {"created", "waiting"}
  KeyOf <- MCKeyOf
  Job = {"waiting"}
  Center = {panel}
  ManagerTopic = "m"
  MaxReads = 1
INVARIANTS NoneSkipped OnlySeenIsRead
PROPERTIES BadgeSettles
CHECK_DEADLOCK FALSE
