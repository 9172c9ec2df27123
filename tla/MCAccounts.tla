------------------------------ MODULE MCAccounts ------------------------------
(***************************************************************************)
(* Accounts on a small instance.  Slugs, sessions, team organizations and  *)
(* request slots are interchangeable.                                      *)
(***************************************************************************)
EXTENDS Accounts, TLC

Symmetry ==
  Permutations(TeamOrg) \cup Permutations(Slug) \cup Permutations(Session)
    \cup Permutations(Request)

=============================================================================
