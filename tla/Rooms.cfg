SPECIFICATION Spec
CONSTANTS
  None = None
  member1 = member1
  moderator = moderator
  event = event
  NumRooms = 2
  Joined = {1}
  Matching = {1, 2}
  Words = {1, 2}
  Earlier <- OneBan
  Messages <- Talk
  Level <- Levels
  Needed <- DefaultLevels
  BotLevel <- BotModerates
  Limits = {1, 2}
  Faults = {"crash", "homeserver", "database"}
  MaxMessages = 2
  MaxErrors = 1
  MaxCrashes = 1
INVARIANTS
  TypeOK
  TablesFollowLog
  PinsFollowLog
  CacheFollowsTable
  HandledInOrder
  DiscoveredAtStart
  NothingDropped
CHECK_DEADLOCK FALSE
