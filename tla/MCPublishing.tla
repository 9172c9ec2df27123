---------------------------- MODULE MCPublishing ----------------------------
(***************************************************************************)
(* Publishing on small instances.  The ids of rows, the contents, the      *)
(* users and the request slots are interchangeable.                        *)
(***************************************************************************)
EXTENDS Publishing, TLC

Symmetry ==
  Permutations(User) \cup Permutations(Note) \cup Permutations(Body)
    \cup Permutations(Comment) \cup Permutations(Request)

=============================================================================
