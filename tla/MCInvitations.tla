---------------------------- MODULE MCInvitations ----------------------------
(***************************************************************************)
(* Invitations on small instances.  Ids, people, spellings and request     *)
(* slots are interchangeable.                                              *)
(*                                                                         *)
(* A behaviour is of one of two mixes: every operation on one invitation   *)
(* over all days, or the operations that issue and close invitations, on   *)
(* all of them and over the lifetime of one, of a live organization whose  *)
(* members only come by an acceptance, and failing only where a handler    *)
(* may end anyway.                                                         *)
(***************************************************************************)
EXTENDS Invitations, TLC

VARIABLE mix

Single == Ops
Issuing == {"create", "revoke", "accept"}

Creating == {r \in Request : req[r].pc \in {"findPending", "insert"}}

Within ==
  IF mix = Single THEN Cardinality(Creating \cup Issued) <= 1
  ELSE /\ now <= TTL
       /\ org = "live"
       /\ \A r \in Request : req[r].op \in mix \cup {"none"}
       /\ \A p \in Person : seats[p] <= Cardinality({i \in Invite : used[i] > 0})

MayEnd == {"findPending", "findRow", "findSeat", "auditRevoked"}

MixedInit == Init /\ mix \in {Single, Issuing}

MixedNext ==
  /\ Next
  /\ UNCHANGED mix
  /\ Within'
  /\ mix = Issuing =>
       /\ \A p \in Person : seats'[p] >= seats[p]
       /\ \A r \in Request : req[r].pc \notin MayEnd => ~Fail(r)

MixedSpec == MixedInit /\ [][MixedNext]_<<vars, mix>>

Symmetry ==
  Permutations(Person) \cup Permutations(Spelling) \cup Permutations(Invite)
    \cup Permutations(Request)

=============================================================================
