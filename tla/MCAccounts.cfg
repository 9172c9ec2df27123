SPECIFICATION Spec
CONSTANTS
  Account = {a1}
  TeamOrg = {t1}
  Slug = {x}
  Session = {s1, s2}
  Request = {r1, r2}
  Held = {"owner", "member"}
  None = None
  PersonalAccounts = TRUE
  Organizations = TRUE
SYMMETRY Symmetry
INVARIANTS
  TypeOK
  AccountsAreComplete
  InternalErrorOnlyByOverlap
  MeOffersServed
