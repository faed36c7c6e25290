SPECIFICATION FairSpec
CONSTANTS
  alice = alice
  bob = bob
  Users = {alice, bob}
  Original <- Levels
  Faults = {"crash", "matrix", "database"}
  MaxCommands = 3
  MaxCrashes = 2
  MaxBoth = 4
INVARIANTS
  TypeOK
  TimedWhileRunning
  LevelsFollowLog
PROPERTY RecordedMuteEnds
CHECK_DEADLOCK FALSE
