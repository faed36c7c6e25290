SPECIFICATION Spec
CONSTANTS
  Lists <- TwoLists
  Broken = Broken
  Missing = Missing
  ChannelSize = 1
  Faults = {"crash", "watch", "notify", "read", "matrix"}
  MaxSaves = 3
  MaxCrashes = 1
  Messages <- SomeMessages
  Direct = TRUE
  MaxSent = 2
INVARIANTS
  TypeOK
  SettledIsCurrent
  AnsweredOnce
  AnswersBest
PROPERTY ServedInTheEnd
CHECK_DEADLOCK FALSE
