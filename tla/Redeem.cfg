SPECIFICATION Spec
CONSTANTS
  c1 = c1
  c2 = c2
  c3 = c3
  Creations = {c1, c2, c3}
  Valid = {c1, c2}
  Invoices = {"2026-1"}
  InvoiceOf <- OneInvoice
  Redemptions = {s1, s2, s3}
  Unknown = Unknown
  Nobody = Nobody
  MaxGuests = 2
  Faults = {"database", "homeserver", "abort"}
SYMMETRY Symmetry
INVARIANTS
  TypeOK
  SeatsCounted
  OneLoginPerGuest
  GuestsArrive
  JoinedOnRecord
  AliasLeadsToRoom
CHECK_DEADLOCK FALSE
