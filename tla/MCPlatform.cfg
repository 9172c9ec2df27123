SPECIFICATION MixedSpec
CONSTANTS
  ModuleIds <- Ids
  MaxIds = 3
  Org = {o1}
  Key = {"seats.max"}
  Value <- Values2
  None = None
  Request = {r1, r2}
  Slot = {c1, c2}
  Nil = Nil
  Tours <- MCTours
  MagicLink = TRUE
  Row = {s1, s2}
SYMMETRY Symmetry
INVARIANTS
  MixedTypeOK
  RefusedIffInvalid
  GuardedStaysWithOwner
  MeMirrorsGate
  NewestRowStands
  ScreensTellTruth
  TrailTellsTruth
CHECK_DEADLOCK FALSE
