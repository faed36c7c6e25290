SPECIFICATION Spec
CONSTANTS
  Requests = {r1, r2, r3, r4}
  Licenses = {"lic"}
  Tiers = {"solo", "kmu", "pro", "gold"}
  AllowedTiers = {"solo", "kmu", "pro"}
  Deliveries <- ValidDeliveries
  Nobody = Nobody
  Faults = {"database", "abort"}
  MaxInFlight = 1
SYMMETRY Symmetry
PROPERTIES
  ImplementsRecord
CHECK_DEADLOCK FALSE
