----------------------------- MODULE ControlPlane -----------------------------
(***************************************************************************)
(* What the product's modules contribute and what the running API makes of *)
(* it: the permission registry built at boot from the manifests, which     *)
(* refuses a duplicate or unknown id, the entitlement defaults merged from *)
(* them, and the per-organization overrides that operators store while the *)
(* API serves.  (platform-authz, platform-entitlements, apps/api context,  *)
(* ops entitlement commands)                                               *)
(*                                                                         *)
(* The manifests are read one after another and which of them an id stands *)
(* in only shows in a message, so `contributed` holds each list joined.    *)
(***************************************************************************)
EXTENDS Authz, Integers, FiniteSets

CONSTANTS
  ModuleIds,     \* permission ids a manifest may name
  MaxIds,        \* bound: the ids all manifests declare together
  Org, Key,      \* organizations, entitlement keys
  Value,         \* the values an entitlement may be set to
  None,
  Request        \* entitlement writes in flight at once

ASSUME Values == Value \subseteq [kind : {"flag"}, n : {0, 1}] \cup [kind : {"limit"}, n : Int]
ASSUME NoneFresh == None \notin [kind : {"flag", "limit"}, n : Int]
ASSUME IdsAreSegments == ModuleIds \subseteq Seq(STRING) \ {<<>>}
ASSUME MaxIdsNat == MaxIds \in Nat

VARIABLES
  contributed,  \* the manifests, each list joined over all of them
  boot,         \* createPermissionRegistry's loops, and then the registry
  override,     \* entitlement_override: the value of each (org, key), if any
  recorded,     \* the value the newest audit row of (org, key) names, if any
  req,          \* entitlement writes in flight
  unrecorded,   \* history: (org, key) pairs a write of which lost its audit row
  crossed       \* history: (org, key) pairs two writes of which overlapped

vars == <<contributed, boot, override, recorded, req, unrecorded, crossed>>
stored == <<override, recorded, unrecorded, crossed>>

\* An EntitlementValue is a boolean flag (FALSE is 0, TRUE is 1) or a number.

ListsUpTo(S, n) == UNION {[1..k -> S] : k \in 0..n}

Contribution ==
  [permissions : ListsUpTo(ModuleIds, MaxIds),
   memberDefaults : ListsUpTo(ModuleIds \cup PLATFORM_PERMISSIONS, 1),
   entitlements : ListsUpTo(Key \X Value, 2)]

Registry ==
  [pc : {"declaring", "granting", "serving", "refused"}, i : Nat,
   universe : SUBSET (ModuleIds \cup PLATFORM_PERMISSIONS),
   memberDefaults : SUBSET (ModuleIds \cup PLATFORM_PERMISSIONS)]

Write == [pc : {"idle", "upsert", "audit"}, org : Org \cup {None}, key : Key \cup {None},
          value : Value \cup {None}]
Idle == [pc |-> "idle", org |-> None, key |-> None, value |-> None]

TypeOK ==
  /\ contributed \in Contribution
  /\ boot \in Registry
  /\ override \in [Org \X Key -> Value \cup {None}]
  /\ recorded \in [Org \X Key -> Value \cup {None}]
  /\ req \in [Request -> Write]
  /\ unrecorded \in SUBSET (Org \X Key)
  /\ crossed \in SUBSET (Org \X Key)

-----------------------------------------------------------------------------
\* Boot.

Init ==
  /\ contributed \in Contribution
  /\ boot = [pc |-> "declaring", i |-> 1, universe |-> PLATFORM_PERMISSIONS, memberDefaults |-> {}]
  /\ override = [p \in Org \X Key |-> None]
  /\ recorded = [p \in Org \X Key |-> None]
  /\ req = [r \in Request |-> Idle]
  /\ unrecorded = {}
  /\ crossed = {}

\* mutant: a duplicate is skipped instead of refused
DeclareAnyway ==
  /\ boot.pc = "declaring"
  /\ boot.i <= Len(contributed.permissions)
  /\ boot' = [boot EXCEPT !.universe = @ \cup {contributed.permissions[boot.i]}, !.i = @ + 1]
  /\ UNCHANGED <<contributed, stored, req>>

\* The first loop of createPermissionRegistry: one declared id.
Declare ==
  /\ boot.pc = "declaring"
  /\ boot.i <= Len(contributed.permissions)
  /\ LET id == contributed.permissions[boot.i] IN
     boot' = IF id \in boot.universe
             THEN [boot EXCEPT !.pc = "refused"]
             ELSE [boot EXCEPT !.universe = @ \cup {id}, !.i = @ + 1]
  /\ UNCHANGED <<contributed, stored, req>>

AllDeclared ==
  /\ boot.pc = "declaring"
  /\ boot.i > Len(contributed.permissions)
  /\ boot' = [boot EXCEPT !.pc = "granting", !.i = 1]
  /\ UNCHANGED <<contributed, stored, req>>

\* The second loop: one member default.
GrantDefault ==
  /\ boot.pc = "granting"
  /\ boot.i <= Len(contributed.memberDefaults)
  /\ LET id == contributed.memberDefaults[boot.i] IN
     boot' = IF id \in boot.universe
             THEN [boot EXCEPT !.memberDefaults = @ \cup {id}, !.i = @ + 1]
             ELSE [boot EXCEPT !.pc = "refused"]
  /\ UNCHANGED <<contributed, stored, req>>

\* The registry is built, and with it the context the API serves from.
Serve ==
  /\ boot.pc = "granting"
  /\ boot.i > Len(contributed.memberDefaults)
  /\ boot' = [boot EXCEPT !.pc = "serving"]
  /\ UNCHANGED <<contributed, stored, req>>

\* mutant: the roles are computed over the modules' ids only
moduleRolesOnly == buildBuiltInRoles(boot.universe \ PLATFORM_PERMISSIONS, boot.memberDefaults)

\* the registry's roles, once it is built
roles == buildBuiltInRoles(boot.universe, boot.memberDefaults)

-----------------------------------------------------------------------------
\* Entitlements.

BUILT_IN_ENTITLEMENTS(key) ==
  CASE key = "seats.max" -> [kind |-> "limit", n |-> 5]
    [] key = "sso.enabled" -> [kind |-> "flag", n |-> 0]
    [] OTHER -> None

\* buildEntitlementRegistry: the last manifest to declare a key wins, and any
\* of them wins over the built-in value
getDefault(key) ==
  LET at == {i \in DOMAIN contributed.entitlements : contributed.entitlements[i][1] = key} IN
  IF at = {} THEN BUILT_IN_ENTITLEMENTS(key)
  ELSE contributed.entitlements[CHOOSE i \in at : \A j \in at : j <= i][2]

\* EntitlementsApi.get; None is the UnknownEntitlementError
get(org, key) == IF override[<<org, key>>] # None THEN override[<<org, key>>] ELSE getDefault(key)

\* `ops entitlement get`: its registry is built without the manifests
entitlementGet(org, key) ==
  IF override[<<org, key>>] # None THEN override[<<org, key>>] ELSE BUILT_IN_ENTITLEMENTS(key)

\* mutant: an argument is stored as it was typed
SetOverrideUncoerced(r, org, key, value) ==
  /\ boot.pc = "serving"
  /\ req[r] = Idle
  /\ req' = [req EXCEPT ![r] = [pc |-> "upsert", org |-> org, key |-> key,
                               value |-> [kind |-> "text", n |-> 0]]]
  /\ UNCHANGED <<contributed, boot, stored>>

\* A write begins: setOverride, or `ops entitlement set` with an argument that
\* is true, false or a number (another argument is refused before anything).
\* Neither the organization nor the key has to exist.
SetOverride(r, org, key, value) ==
  /\ boot.pc = "serving"
  /\ req[r] = Idle
  /\ req' = [req EXCEPT ![r] = [pc |-> "upsert", org |-> org, key |-> key, value |-> value]]
  /\ UNCHANGED <<contributed, boot, stored>>

Target(r) == <<req[r].org, req[r].key>>

\* another write of the same pair has stored its value and not yet recorded it
Crosses(r) == \E q \in Request \ {r} : req[q].pc = "audit" /\ Target(q) = Target(r)

\* insert ... on conflict do update
Upsert(r) ==
  /\ req[r].pc = "upsert"
  /\ override' = [override EXCEPT ![Target(r)] = req[r].value]
  /\ req' = [req EXCEPT ![r].pc = "audit"]
  /\ crossed' = IF Crosses(r) THEN crossed \cup {Target(r)} ELSE crossed
  /\ UNCHANGED <<contributed, boot, recorded, unrecorded>>

\* mutant: the change is not recorded
RecordOld(r) ==
  /\ req[r].pc = "audit"
  /\ req' = [req EXCEPT ![r] = Idle]
  /\ UNCHANGED <<contributed, boot, override, recorded, unrecorded, crossed>>

\* audit.log entitlement.changed with the value
RecordChange(r) ==
  /\ req[r].pc = "audit"
  /\ recorded' = [recorded EXCEPT ![Target(r)] = req[r].value]
  /\ req' = [req EXCEPT ![r] = Idle]
  /\ UNCHANGED <<contributed, boot, override, unrecorded, crossed>>

\* The statement of a write fails, or the process dies in front of it.
Break(r) ==
  /\ req[r].pc # "idle"
  /\ req' = [req EXCEPT ![r] = Idle]
  /\ unrecorded' = IF req[r].pc = "audit" THEN unrecorded \cup {Target(r)} ELSE unrecorded
  /\ UNCHANGED <<contributed, boot, override, recorded, crossed>>

Next ==
  \/ Declare \/ AllDeclared \/ GrantDefault \/ Serve
  \/ \E r \in Request :
       \/ \E org \in Org, key \in Key, value \in Value : SetOverride(r, org, key, value)
       \/ Upsert(r) \/ RecordChange(r) \/ Break(r)

Spec == Init /\ [][Next]_vars

-----------------------------------------------------------------------------
\* Properties.

Listed(s) == {s[i] : i \in DOMAIN s}

\* What the manifests must not do, said without the loops.
Invalid ==
  \/ \E i \in DOMAIN contributed.permissions :
       \/ contributed.permissions[i] \in PLATFORM_PERMISSIONS
       \/ \E j \in 1..(i - 1) : contributed.permissions[j] = contributed.permissions[i]
  \/ ~ (Listed(contributed.memberDefaults)
          \subseteq PLATFORM_PERMISSIONS \cup Listed(contributed.permissions))

\* The API refuses to boot exactly when a manifest declares an id twice or one
\* of the platform's, or grants members an id nobody declares, wherever in the
\* lists that happens (registry.ts createPermissionRegistry).
RefusedIffInvalid ==
  /\ boot.pc = "refused" => Invalid
  /\ boot.pc = "serving" =>
       /\ ~Invalid
       /\ boot.universe = PLATFORM_PERMISSIONS \cup Listed(contributed.permissions)
       /\ boot.memberDefaults = Listed(contributed.memberDefaults)

Wildcards == {id \in boot.universe : isWildcard(id)}

\* No role but owner satisfies an ownership-guarded permission, unless a
\* manifest grants it to members by name or declares an id that is itself a
\* wildcard: ids are never checked for that, and the roles that hold one hold
\* all it covers (roles.ts buildRole, permissions.ts satisfies).
GuardedStaysWithOwner ==
  boot.pc = "serving" =>
    \A r \in {"admin", "member"}, p \in OWNERSHIP_GUARDED_PERMISSIONS :
      satisfies(roles[r], p) =>
        \/ \E w \in Wildcards : matchesPattern(w, p)
        \/ r = "member" /\ p \in boot.memberDefaults

\* The client shows what the organization routes allow: GET /api/me and the
\* routes' gate agree on every platform permission of a built-in role, except
\* where a manifest grants members one or declares a wildcard, which only the
\* shared registry knows of (me.ts, routes/orgs/authorization.ts).
MeMirrorsGate ==
  boot.pc = "serving" =>
    \A r \in RoleName, p \in PLATFORM_PERMISSIONS :
      LET shown == satisfies(resolvePermissionsForRole(roles, r), p)
          allowed == satisfies(permissionsForOrgRole(r), p)
      IN /\ allowed => shown
         /\ shown => allowed \/ Wildcards # {} \/ p \in boot.memberDefaults

\* What an organization is entitled to is what its newest audit row says, or
\* the declared default where there is none, and the operator is told the same
\* but for a manifest's default, which the command does not know; except while
\* a write is on its way, and for good where a write lost its row or two writes
\* overlapped (check.ts get, setOverride, ops entitlement get, set).
NewestRowStands ==
  \A org \in Org, key \in Key :
    LET newest == recorded[<<org, key>>]
        said(default) == IF newest = None THEN default ELSE newest
    IN
    \/ /\ get(org, key) = said(getDefault(key))
       /\ entitlementGet(org, key) = said(BUILT_IN_ENTITLEMENTS(key))
    \/ <<org, key>> \in unrecorded \cup crossed
    \/ \E r \in Request : req[r].pc = "audit" /\ Target(r) = <<org, key>>

=============================================================================
