-------------------------------- MODULE Authz --------------------------------
(***************************************************************************)
(* Permission ids, patterns and the built-in roles (packages/platform-authz)*)
(* and the three places that turn a member's role into permissions: the    *)
(* organization routes, the reference module's routes and GET /api/me.     *)
(*                                                                         *)
(* An id is its dotted segments: org.members.read is                       *)
(* <<"org", "members", "read">>, space.* is <<"space", "*">>.              *)
(***************************************************************************)
EXTENDS Naturals, Sequences

PLATFORM_PERMISSIONS ==
  {<<"org", "settings", "read">>, <<"org", "settings", "update">>, <<"org", "members", "read">>,
   <<"org", "members", "invite">>, <<"org", "members", "remove">>,
   <<"org", "members", "role", "update">>, <<"org", "delete">>,
   <<"org", "ownership", "transfer">>}

OWNERSHIP_GUARDED_PERMISSIONS == {<<"org", "delete">>, <<"org", "ownership", "transfer">>}

\* the permission ids of modules/reference-workspace/manifest.ts
SPACE_PERMISSIONS ==
  {<<"space", "spaces", "manage">>, <<"space", "notes", "read">>, <<"space", "notes", "write">>,
   <<"space", "notes", "publish">>, <<"space", "likes", "write">>,
   <<"space", "comments", "write">>}

LastSegment(id) == id[Len(id)]

\* the match-all * or a prefix wildcard ending in .*
isWildcard(pattern) == LastSegment(pattern) = "*"

\* a prefix wildcard covers its prefix and every id below it
matchesPattern(pattern, id) ==
  \/ pattern = <<"*">>
  \/ /\ isWildcard(pattern)
     /\ Len(id) >= Len(pattern) - 1
     /\ SubSeq(id, 1, Len(pattern) - 1) = SubSeq(pattern, 1, Len(pattern) - 1)
  \/ ~isWildcard(pattern) /\ pattern = id

expandPatterns(patterns, universe) ==
  {id \in universe : \E p \in patterns : matchesPattern(p, id)}

isReadPermission(id) == LastSegment(id) = "read"

satisfies(granted, required) == \E g \in granted : matchesPattern(g, required)

RoleName == {"owner", "admin", "member"}

\* mutant: the guarded permissions are not taken from admin
LooseRoleDefinitions ==
  [owner  |-> [grant |-> {<<"*">>}, deny |-> {}, readDefaults |-> FALSE],
   admin  |-> [grant |-> {<<"*">>}, deny |-> {<<"org", "delete">>}, readDefaults |-> FALSE],
   member |-> [grant |-> {}, deny |-> {}, readDefaults |-> TRUE]]

BUILT_IN_ROLE_DEFINITIONS ==
  [owner  |-> [grant |-> {<<"*">>}, deny |-> {}, readDefaults |-> FALSE],
   admin  |-> [grant |-> {<<"*">>}, deny |-> OWNERSHIP_GUARDED_PERMISSIONS, readDefaults |-> FALSE],
   member |-> [grant |-> {}, deny |-> {}, readDefaults |-> TRUE]]

\* What is denied is taken away last, by equality and not by pattern.
buildRole(definition, universe, extraGrants) ==
  (expandPatterns(definition.grant, universe)
     \cup {id \in universe : definition.readDefaults /\ isReadPermission(id)}
     \cup extraGrants) \ definition.deny

buildBuiltInRoles(universe, memberDefaults) ==
  [r \in RoleName |->
     buildRole(BUILT_IN_ROLE_DEFINITIONS[r], universe, IF r = "member" THEN memberDefaults ELSE {})]

\* the roles over the bare platform catalog, without any module
BUILT_IN_ROLES == buildBuiltInRoles(PLATFORM_PERMISSIONS, {})

-----------------------------------------------------------------------------
\* the named roles the reference module ships and the ids they grant
ModuleRoles ==
  [Author |-> {<<"space", "notes", "read">>, <<"space", "notes", "write">>},
   Editor |-> {<<"space", "notes", "read">>, <<"space", "notes", "write">>,
               <<"space", "notes", "publish">>, <<"space", "spaces", "manage">>},
   Reader |-> {<<"space", "notes", "read">>, <<"space", "likes", "write">>},
   Commenter |-> {<<"space", "notes", "read">>, <<"space", "likes", "write">>,
                  <<"space", "comments", "write">>}]

\* the gate of the organization routes and of the roles matrix: no module is
\* known to it, and a module's role grants nothing
permissionsForOrgRole(role) == IF role \in RoleName THEN BUILT_IN_ROLES[role] ELSE {}

\* the gate of the reference module's routes: its own registry, and its roles
permissionsForWorkspaceRole(role) ==
  IF role \in RoleName
  THEN buildBuiltInRoles(PLATFORM_PERMISSIONS \cup SPACE_PERMISSIONS, {})[role]
  ELSE IF role \in DOMAIN ModuleRoles THEN ModuleRoles[role] ELSE {}

\* what GET /api/me tells the client: the shared registry, built-in roles only
resolvePermissionsForRole(roles, role) == IF role \in RoleName THEN roles[role] ELSE {}

=============================================================================
