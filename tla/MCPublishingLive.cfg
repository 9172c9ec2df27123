SPECIFICATION FairSpec
CONSTANTS
  User = {u1}
  Space = {s1}
  Note = {n1, n2}
  Comment = {c1}
  Body = {b1}
  None = None
  MaxNotes = 1
  Request = {r1, r2}
  Held = {"owner"}
  Offered = {"createSpace", "createNote", "publish", "unpublish", "deleteSpace", "like", "unlike"}
  Faults = TRUE
INVARIANTS
  CapUnlessOverran
PROPERTIES
  PublishedReachesShelf
CHECK_DEADLOCK FALSE
