SPECIFICATION FairSpec
CONSTANTS
  Org = {o1, o2}
  None = None
  Conn = {c1}
  Task = {t1, t2}
  Tables = {"note", "audit_log"}
  Logins = {"owner", "app_runtime"}
INVARIANTS
  ReadsConfined
PROPERTIES
  WritesConfined
  OnlyWithOrg
  Served
