SPECIFICATION MixedSpec
CONSTANTS
  User = {Bob, Ann}
  Bob = Bob
  Ann = Ann
  ANN = ANN
  Lowered <- MCLowered
  NoUser = NoUser
  Member = {m1, m2}
  NoMember = NoMember
  Request = {r1, r2}
  Offered = {"changeRole", "removeMember", "accept", "restore"}
  Faults = FALSE
SYMMETRY Symmetry
INVARIANTS
  AtLeastOneOwner
