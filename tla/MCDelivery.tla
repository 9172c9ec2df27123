----------------------------- MODULE MCDelivery -----------------------------
(***************************************************************************)
(* Delivery on small instances.  Liveness is checked, so nothing is        *)
(* declared symmetric.                                                     *)
(***************************************************************************)
EXTENDS Delivery

\* pg-boss retries twice; one retry already tells "again" from "given up"
Retries == 1

\* One death without a shutdown; orderly exits and new boots are not bounded
Deaths == 1

=============================================================================
