CONSTANTS
  None = None
  MaxLevel = 2
  Keys = {"a", "left"}
  MaxEvents = 3
  Room = 1
SPECIFICATION MCFairSpec
PROPERTIES
  SettingsSettle
  MenuIsFollowed
CHECK_DEADLOCK FALSE
