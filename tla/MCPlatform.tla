------------------------------ MODULE MCPlatform ------------------------------
(***************************************************************************)
(* What every product has, on small instances: a behaviour is of           *)
(* ControlPlane, or of one address's owner at the screens of Access, who   *)
(* uses one or two of them and is led to others.                           *)
(* Session rows and request slots are interchangeable.                     *)
(*                                                                         *)
(* Two of the permission ids are wildcards, as no code keeps a manifest    *)
(* from declaring one; one is the platform's own.                          *)
(***************************************************************************)
EXTENDS ControlPlane, Access, TLC

VARIABLE mix

Ids == {<<"space", "notes", "read">>, <<"org", "*">>, <<"org", "delete">>}
Values2 == {[kind |-> "flag", n |-> 0], [kind |-> "limit", n |-> 7]}
MCTours ==
  {{"sign-in", "sign-up"}, {"inbox", "reset-password"}, {"verify-email", "forgot-password"},
   {"magic-link", "profile"}, {"sign-in", "security"}}

\* a product without modules
Bare == [permissions |-> <<>>, memberDefaults |-> <<>>, entitlements |-> <<>>]

MixedInit ==
  /\ Init
  /\ AccessInit
  /\ \/ mix = "control plane" /\ tour = {"sign-in", "security"} /\ account = "none"
     \/ mix = "access" /\ contributed = Bare

MixedNext ==
  /\ UNCHANGED mix
  /\ \/ mix = "control plane" /\ Next /\ UNCHANGED accessVars
     \/ mix = "access" /\ AccessNext /\ UNCHANGED vars

MixedSpec == MixedInit /\ [][MixedNext]_<<vars, accessVars, mix>>

Symmetry == Permutations(Request) \cup Permutations(Slot) \cup Permutations(Row)

\* The types of both.
MixedTypeOK == TypeOK /\ AccessTypeOK

=============================================================================
