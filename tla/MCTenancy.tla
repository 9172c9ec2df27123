------------------------------ MODULE MCTenancy ------------------------------
(***************************************************************************)
(* Tenancy on small instances.  Organizations, connections and tasks are   *)
(* interchangeable.                                                        *)
(***************************************************************************)
EXTENDS Tenancy, TLC

Symmetry == Permutations(Org) \cup Permutations(Conn) \cup Permutations(Task)

=============================================================================
