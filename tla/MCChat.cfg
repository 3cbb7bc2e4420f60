SPECIFICATION ChatSpec
CONSTANTS
  desk = desk
  office = office
  Device = {desk, office}
  Panel = {desk, office}
  Topic = {"m", "a"}
  Hears <- MCHears
  SideOf <- MCSideOf
  TopicOf <- MCTopicOf
  Roaming = {desk}
  OutBuffer = 2
  MaxPosts = 2
  MaxMessages = 2
INVARIANTS NothingMissed BadgeIsRight OnlyShownIsRead SentOnce
CONSTRAINT Bounded
CHECK_DEADLOCK FALSE
