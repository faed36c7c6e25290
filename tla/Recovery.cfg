SPECIFICATION Spec
CONSTANTS
  alice = alice
  bob = bob
  Users = {alice, bob}
  Original <- Levels
  Faults = {"stop"}
  MaxCommands = 2
  MaxCrashes = 1
  MaxBoth = 3
PROPERTY RecoveryMutesNobody
CHECK_DEADLOCK FALSE
