---------------------------- MODULE MCOrgMembers ----------------------------
(***************************************************************************)
(* OrgMembers on small instances.  Rows and request slots are              *)
(* interchangeable, so both may be permuted.                               *)
(*                                                                         *)
(* Ann's address is also typed with capitals; the founder is Bob.          *)
(*                                                                         *)
(* All operations over three rows are too many states, so a behaviour is   *)
(* of one of three mixes of calls: those that change who governs, over two *)
(* rows; those by which people come and go, over all rows; and those that  *)
(* meet the end and the restoration of the organization, over two rows.    *)
(* Acceptances in the first and removals in the second overlap with        *)
(* nothing.                                                                *)
(***************************************************************************)
EXTENDS OrgMembers, TLC

CONSTANTS Bob, Ann, ANN

MCLowered == [u \in User |-> IF u = ANN THEN Ann ELSE u]

VARIABLE mix

Governing == {"changeRole", "removeMember", "transfer", "accept"}
Joining == {"removeMember", "createMember", "join"}
Closing == {"createMember", "accept", "deleteOrg", "restore"}

Mixes == {Governing, Joining, Closing}

Alone ==
  [m \in Mixes |-> CASE m = Governing -> {"accept"}
                     [] m = Joining -> {"removeMember"}
                     [] m = Closing -> {}]

Rows(m) == IF m = Joining THEN Cardinality(Member) ELSE 2

MixedInit == Init /\ account[Bob] = "signedUp" /\ mix \in Mixes

\* RowsLeft, with the rows of the mix
Within(r) ==
  /\ req'[r].op \in mix
  /\ (\E q \in Request : req'[q].op \in Alone[mix]) => \A q \in Request \ {r} : req[q] = Idle
  /\ req'[r].subject # NoUser =>
       Cardinality({q \in Request : req[q].subject # NoUser}) + Cardinality(Issued) < Rows(mix)

MixedNext ==
  /\ Next
  /\ UNCHANGED mix
  /\ \A r \in Request : req[r] = Idle /\ req'[r] # Idle => Within(r)

MixedSpec == MixedInit /\ [][MixedNext]_<<vars, mix>>

Symmetry == Permutations(Member) \cup Permutations(Request)

=============================================================================
