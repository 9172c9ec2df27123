SPECIFICATION Spec
CONSTANTS
  User = {u1, u2}
  Space = {s1}
  Note = {n1}
  Comment = {c1}
  Body = {b1, b2}
  None = None
  MaxNotes = 1
  Request = {r1, r2}
  Held = {"Author", "owner"}
  Offered = {"createSpace", "createNote", "updateNote", "publish", "unpublish", "comment", "deleteComment", "deleteNote"}
  Faults = TRUE
SYMMETRY Symmetry
INVARIANTS
  TypeOK
  ShelfShowsCurrent
  EngagementOnShelf
CHECK_DEADLOCK FALSE
