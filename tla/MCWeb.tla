-------------------------------- MODULE MCWeb --------------------------------
(***************************************************************************)
(* The web application on a small instance: one person, a personal and a   *)
(* team organization, in products with and without personal accounts.  At  *)
(* first the person owns the team or is outside; with personal accounts it *)
(* may be founded later.                                                   *)
(*                                                                         *)
(* Console and Screens share nothing but the query client, under different *)
(* keys; a behaviour is of one of the two.                                 *)
(***************************************************************************)
EXTENDS Console, Screens, TLC

CONSTANTS home, team, homeSlug, teamSlug

VARIABLE mix

MCFirstSlugs == {(home :> homeSlug) @@ (team :> s) : s \in {teamSlug, None}}
MCConfigs == {[personalAccounts |-> b, organizations |-> TRUE] : b \in BOOLEAN}

Shared == {"members", "tasks"}
MCTabs == {Shared, {"library", "note"}, {"invitations", "audit"}, {"workspaces", "roles"}}

\* where the session stands meanwhile: signed out, on the sign-in page
SignedOut ==
  /\ config \in Configs /\ config.personalAccounts
  /\ slug \in FirstSlugs /\ slug[team] = None
  /\ role = [o \in Org |-> None]
  /\ cookie = FALSE
  /\ changes = 0
  /\ path = SignInPage
  /\ key = None
  /\ cache = [k \in Keys |-> IF k = None THEN Failed(Absent) ELSE Absent]
  /\ view = "shown"
  /\ beside = {} /\ astray = "no"
  /\ promised = FALSE

MixedInit ==
  /\ ScreensInit
  /\ \/ /\ mix = "session" /\ Init /\ visited = Shared
        /\ IF config.personalAccounts
           THEN role[team] = None /\ (slug[team] = None => role[home] = "owner")
           ELSE slug[team] # None /\ {role[home], role[team]} = {None, "owner"}
     \/ mix = "screens" /\ SignedOut

MixedNext ==
  /\ UNCHANGED mix
  /\ \/ mix = "session" /\ Next /\ UNCHANGED screensVars
     \/ mix = "screens" /\ ScreensNext /\ UNCHANGED vars

MixedSpec ==
  /\ MixedInit
  /\ [][MixedNext]_<<vars, screensVars, mix>>
  /\ Fairness

\* The types of both.
MixedTypeOK == TypeOK /\ ScreensTypeOK

=============================================================================
