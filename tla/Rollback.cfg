SPECIFICATION Spec
CONSTANTS
  Requests = {r1, r2, r3}
  Licenses = {"lic"}
  Tiers = {"solo", "kmu", "pro", "gold"}
  AllowedTiers = {"solo", "kmu", "pro"}
  Deliveries <- ValidDeliveries
  Nobody = Nobody
  Faults = {}
  MaxInFlight = 3
SYMMETRY Symmetry
PROPERTIES
  NoRollback
CHECK_DEADLOCK FALSE
