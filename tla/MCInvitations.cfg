SPECIFICATION MixedSpec
CONSTANTS
  Person = {p1}
  Spelling = {s1, s2}
  Invite = {i1, i2}
  None = None
  TTL = 1
  Horizon = 2
  MaxUses = 2
  Request = {r1, r2}
  Offered = {"create", "resend", "revoke", "accept", "cliResend"}
  Faults = TRUE
SYMMETRY Symmetry
INVARIANTS
  TypeOK
  SingleUse
  RevocationHolds
  OnePendingPerAddress
  AuditTellsTruth
PROPERTIES
  TicketSpec
