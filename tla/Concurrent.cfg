SPECIFICATION Spec
CONSTANTS
  Requests = {r1, r2, r3}
  Licenses = {"lic"}
  Tiers = {"solo", "kmu", "pro", "gold"}
  AllowedTiers = {"solo", "kmu", "pro"}
  Deliveries <- EveryDelivery
  Nobody = Nobody
  Faults = {"database", "homeserver", "abort"}
  MaxInFlight = 3
SYMMETRY Symmetry
INVARIANTS
  TypeOK
  AccountBacked
  ReadOnlyLockedOut
  ProcessedMeansEnforced
  PasswordOpensAccount
  ChangesTraced
CHECK_DEADLOCK FALSE
PROPERTIES
  NothingTakenBack
