SPECIFICATION Spec
CONSTANTS
  User = {u1}
  Space = {s1}
  Note = {n1}
  Comment = {c1}
  Body = {b1, b2}
  None = None
  MaxNotes = 1
  Request = {r1}
  Held = {"Author", "Editor"}
  Offered = {"createSpace", "createNote", "updateNote", "publish"}
  Faults = FALSE
SYMMETRY Symmetry
PROPERTIES
  OnlyPublishInserts
CHECK_DEADLOCK FALSE
