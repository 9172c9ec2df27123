SPECIFICATION Spec
CONSTANTS
  User = {u1}
  Space = {s1}
  Note = {n1}
  Comment = {c1}
  Body = {b1, b2}
  None = None
  MaxNotes = 1
  Request = {r1}
  Held = {"Editor"}
  Offered = {"createSpace", "createNote", "publish", "deleteSpace"}
  Faults = FALSE
SYMMETRY Symmetry
INVARIANTS
  DeletedLeavesShelf
CHECK_DEADLOCK FALSE
