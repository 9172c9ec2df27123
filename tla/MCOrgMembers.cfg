SPECIFICATION MixedSpec
CONSTANTS
  User = {Bob, Ann, ANN}
  Bob = Bob
  Ann = Ann
  ANN = ANN
  Lowered <- MCLowered
  NoUser = NoUser
  Member = {m1, m2, m3}
  NoMember = NoMember
  Request = {r1, r2}
  Offered = {"changeRole", "removeMember", "transfer", "accept", "join", "createMember", "deleteOrg", "restore"}
  Faults = TRUE
SYMMETRY Symmetry
INVARIANTS
  TypeOK
  LastOwnerLostOnlyByInterference
  DuplicateOnlyUnchecked
  CreatedAccountsAreOnboarded
PROPERTIES
  OwnedUnlessInterfered
