SPECIFICATION Spec
CONSTANTS
  good = good
  other = other
  forged = forged
  late = late
  never = never
  Tokens = {good, other, forged, late, never}
  JtiOf <- Jtis
  IatOf <- Iats
  ExpOf <- Exps
  Signed = {good, other, late, never}
  Granted = {good, forged, late, never}
  Presentations = {p1, p2, p3}
  Second = 2
  Leeway = 2
  MaxAge = 6
  Timeout = 1
  LastSorted = 8
  LastMoment = 12
  Horizon = 5
SYMMETRY Symmetry
INVARIANTS
  TypeOK
  AcceptedOnce
  ReplayIsReplay
CHECK_DEADLOCK FALSE
