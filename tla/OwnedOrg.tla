------------------------------ MODULE OwnedOrg ------------------------------
(***************************************************************************)
(* What an organization's membership table promises: it starts with one    *)
(* owner and always has one, rows are inserted for invitees and admin-     *)
(* created members but never as owner, and a removed row never comes back. *)
(***************************************************************************)
CONSTANTS Member

VARIABLES
  role,     \* the role of each row, "none" when there is no such row
  issued    \* the row ids ever inserted

vars == <<role, issued>>

Owners == {m \in Member : role[m] = "owner"}

Init ==
  \E m \in Member :
    /\ role = [n \in Member |-> IF n = m THEN "owner" ELSE "none"]
    /\ issued = {m}

Join(m, to) ==
  /\ m \notin issued
  /\ role' = [role EXCEPT ![m] = to]
  /\ issued' = issued \cup {m}

\* A new role, or "none" to remove the row: refused when no other owner is left
Change(m, to) ==
  /\ role[m] # "none"
  /\ to = "owner" \/ Owners \ {m} # {}
  /\ role' = [role EXCEPT ![m] = to]
  /\ UNCHANGED issued

Next ==
  \E m \in Member :
    \/ \E to \in {"admin", "member"} : Join(m, to)
    \/ \E to \in {"owner", "admin", "member", "none"} : Change(m, to)

Spec == Init /\ [][Next]_vars

=============================================================================
