------------------------------- MODULE Accounts -------------------------------
(***************************************************************************)
(* Accounts, their organizations' slugs and their sessions: sign-up with   *)
(* the notice for an address that has an account, the hook that makes the  *)
(* personal organization, organization creation and renaming, sign-in,     *)
(* GET /api/me and the operator's deactivation.  Each action is one        *)
(* awaited statement of a handler, so handlers interleave at every await.  *)
(* (better-auth/auth.ts, routes/orgs/create.ts, update.ts, personal-org.ts,*)
(* routes/me.ts, lib/session.ts, ops user command)                         *)
(*                                                                         *)
(* An account is named by its address, its personal organization and that  *)
(* organization's first slug by the account.  Whether personal accounts    *)
(* and self-service organizations are on is the product's choice           *)
(* (platform-config profiles.ts, product.config.ts).  The audit row a      *)
(* handler appends last is left out: nothing here reads it and its failure *)
(* takes nothing back.                                                     *)
(***************************************************************************)
EXTENDS Authz, FiniteSets

CONSTANTS
  Account,
  TeamOrg,    \* ids createOrgWithOwner draws for team organizations
  Slug,       \* slugs callers choose
  Session,    \* ids of session rows
  Request,    \* requests in flight at once
  Held,       \* the roles a membership may have: built-in or a module's
  PersonalAccounts, Organizations,  \* the product's capabilities
  None

ASSUME Distinct ==
  /\ Account \cap TeamOrg = {}
  /\ Account \cap Slug = {}
  /\ None \notin Account \cup TeamOrg \cup Slug \cup Session \cup Held
ASSUME OwnerHeld == "owner" \in Held
ASSUME Switches == {PersonalAccounts, Organizations} \subseteq BOOLEAN

Org == Account \cup TeamOrg
AnySlug == Account \cup Slug

VARIABLES
  account,    \* user rows: "none", "unverified" or "verified"
  org,        \* organization rows, soft-deleted ones included
  role,       \* member rows: the role of an account in an organization, or None
  session,    \* session rows: whose, and the active organization stored on it
  mailed,     \* accounts a verification email was queued for
  req,        \* the requests in flight
  hookFailed, \* history: accounts whose creation hook did not run to its end
  created     \* history: accounts an administrator or a seed inserted

database == <<account, org, role, session, mailed>>
history == <<hookFailed, created>>
vars == <<database, req, history>>

NoOrg == [state |-> "none", slug |-> None]
NoSession == [user |-> None, active |-> None]

Membership == [org : Org, slug : AnySlug, role : Held]
Nobody == [org |-> None, slug |-> None, role |-> None]

Steps == {"idle", "findExistingAccount", "notify", "insertUser", "createPersonalOrg",
          "verification", "findOrg", "findMembership", "findSlug", "createOrg", "updateOrg",
          "list", "stored", "answered", "failed", "findUser", "revoke"}

RequestState ==
  [pc : Steps,
   user : Account \cup {None},       \* whom the request is by, or about
   session : Session \cup {None},
   org : Org \cup {None},            \* the organization to rename
   slug : AnySlug \cup {None},       \* the slug asked for
   listed : SUBSET Membership,       \* the memberships GET /api/me read
   active : Membership \cup {Nobody},\* the one it answers with
   same : BOOLEAN,                   \* the slug asked for is the one findOrg read
   crossed : BOOLEAN]                \* what the request read has changed since

Idle == [pc |-> "idle", user |-> None, session |-> None, org |-> None, slug |-> None,
         listed |-> {}, active |-> Nobody, same |-> FALSE, crossed |-> FALSE]

TypeOK ==
  /\ account \in [Account -> {"none", "unverified", "verified"}]
  /\ org \in [Org -> [state : {"live", "deleted"}, slug : AnySlug] \cup {NoOrg}]
  /\ role \in [Account -> [Org -> Held \cup {None}]]
  /\ session \in [Session -> [user : Account, active : Org \cup {None}] \cup {NoSession}]
  /\ mailed \in SUBSET Account
  /\ req \in [Request -> RequestState]
  /\ hookFailed \in SUBSET Account
  /\ created \in SUBSET Account

-----------------------------------------------------------------------------
Taken(slug) == \E o \in Org : org[o].slug = slug

\* mutant: the lookup overlooks soft-deleted organizations
findLiveBySlug(slug) == {o \in Org : org[o].slug = slug /\ org[o].state = "live"}

\* the row with this slug, soft-deleted or not; there is at most one
findOrgBySlug(slug) == {o \in Org : org[o].slug = slug}

\* the rows of the membership query: neither deleted organizations are left
\* out nor is there an order
Memberships(a) ==
  {[org |-> o, slug |-> org[o].slug, role |-> role[a][o]] : o \in {p \in Org : role[a][p] # None}}

\* mutant: the stored organization is active whether or not it is listed
resolveStored(listed, stored, slug) ==
  LET at == {m \in listed : m.slug = slug} IN
  IF at # {} THEN at
  ELSE IF stored # None /\ {m \in listed : m.org = stored} = {}
       THEN {[org |-> stored, slug |-> stored, role |-> "owner"]}
  ELSE IF stored # None THEN {m \in listed : m.org = stored}
  ELSE IF listed # {} THEN listed ELSE {Nobody}

\* the requested membership, else the stored one, else the first row (any of
\* them, as the query has no order), else none
resolveActiveMembership(listed, stored, slug) ==
  LET requested == {m \in listed : m.slug = slug}
      kept == {m \in listed : m.org = stored}
  IN IF requested # {} THEN requested
     ELSE IF kept # {} THEN kept
     ELSE IF listed # {} THEN listed
     ELSE {Nobody}

Goto(r, step) == req' = [req EXCEPT ![r].pc = step]
Finish(r) == req' = [req EXCEPT ![r] = Idle]

\* a request that took slug s to be free, or its organization's own
Claims(q, s) ==
  /\ q.slug = s
  /\ q.pc \in {"createOrg", "updateOrg"} \/ (q.pc = "findMembership" /\ q.same)

\* a request of GET /api/me that has listed the memberships of one of As
HasListed(q, As) == q.pc \in {"stored", "answered"} /\ q.user \in As

\* r becomes mine, and a write of slug s, or to the memberships of As, is
\* noted by the requests that have read what it changes.
Cross(r, mine, s, As) ==
  req' = [q \in Request |->
            IF q = r THEN mine
            ELSE [req[q] EXCEPT !.crossed = @ \/ Claims(req[q], s) \/ HasListed(req[q], As)]]

Members(o) == {a \in Account : role[a][o] # None}

Init ==
  /\ account = [a \in Account |-> "none"]
  /\ org = [o \in Org |-> NoOrg]
  /\ role = [a \in Account |-> [o \in Org |-> None]]
  /\ session = [s \in Session |-> NoSession]
  /\ mailed = {}
  /\ req = [r \in Request |-> Idle]
  /\ hookFailed = {}
  /\ created = {}

\* the sessions a caller may have; a request without one is answered 401
requireUser == {s \in Session : session[s].user # None}

Arrive(r, call) == req' = [req EXCEPT ![r] = call]

\* A request arrives: with an address, with a session, or from the operator.
\* Creation is refused (403) where the product has no organizations.
Begin(r) ==
  /\ req[r] = Idle
  /\ \/ \E step \in {"findExistingAccount", "findUser"}, a \in Account :
          Arrive(r, [Idle EXCEPT !.pc = step, !.user = a])
     \/ \E s \in requireUser :
          LET by == [Idle EXCEPT !.user = session[s].user] IN
          \/ /\ Organizations
             /\ \E slug \in Slug : Arrive(r, [by EXCEPT !.pc = "findSlug", !.slug = slug])
          \/ \E o \in {p \in Org : org[p] # NoOrg}, slug \in Slug :
               Arrive(r, [by EXCEPT !.pc = "findOrg", !.org = o, !.slug = slug])
          \/ \E slug \in {org[o].slug : o \in Org} \cup {None} :
               Arrive(r, [by EXCEPT !.pc = "list", !.session = s, !.slug = slug])
  /\ UNCHANGED <<database, history>>

\* The response is sent.
Respond(r) ==
  /\ req[r].pc \in {"answered", "failed"}
  /\ Finish(r)
  /\ UNCHANGED <<database, history>>

\* A statement throws or the process stops: the handler does nothing more.
Fail(r) ==
  /\ req[r].pc \notin {"idle", "answered", "failed"}
  /\ Finish(r)
  /\ hookFailed' = IF req[r].pc \in {"createPersonalOrg", "verification"}
                   THEN hookFailed \cup {req[r].user} ELSE hookFailed
  /\ UNCHANGED <<database, created>>

-----------------------------------------------------------------------------
\* POST /api/auth/sign-up/email: the before hook, better-auth, the after hook

FindExistingAccount(r) ==
  /\ req[r].pc = "findExistingAccount"
  /\ Goto(r, IF account[req[r].user] = "none" THEN "insertUser" ELSE "notify")
  /\ UNCHANGED <<database, history>>

\* the notice is queued, and the request goes on to its neutral response
NotifyExisting(r) ==
  /\ req[r].pc = "notify"
  /\ Goto(r, "insertUser")
  /\ UNCHANGED <<database, history>>

\* better-auth creates no second user for an address and does not say so;
\* the hook runs for a new one where the product has personal accounts
InsertUser(r) ==
  /\ req[r].pc = "insertUser"
  /\ IF account[req[r].user] # "none"
     THEN Finish(r) /\ UNCHANGED account
     ELSE /\ account' = [account EXCEPT ![req[r].user] = "unverified"]
          /\ Goto(r, IF PersonalAccounts THEN "createPersonalOrg" ELSE "verification")
  /\ UNCHANGED <<org, role, session, mailed, history>>

\* mutant: the organization and its owner's row are two transactions
CreatePersonalOrgHalf(r) ==
  /\ req[r].pc = "createPersonalOrg"
  /\ LET a == req[r].user IN
     /\ org' = [org EXCEPT ![a] = [state |-> "live", slug |-> a]]
     /\ Cross(r, [req[r] EXCEPT !.pc = "verification"], a, {a})
  /\ UNCHANGED <<account, role, session, mailed, history>>

\* user.create.after: createOrgWithOwner in a transaction of its own, on
\* another connection than the account's insert
CreatePersonalOrg(r) ==
  /\ req[r].pc = "createPersonalOrg"
  /\ LET a == req[r].user IN
     /\ org' = [org EXCEPT ![a] = [state |-> "live", slug |-> a]]
     /\ role' = [role EXCEPT ![a][a] = "owner"]
     /\ Cross(r, [req[r] EXCEPT !.pc = "verification"], a, {a})
  /\ UNCHANGED <<account, session, mailed, history>>

\* the verification email is queued
SendVerification(r) ==
  /\ req[r].pc = "verification"
  /\ mailed' = mailed \cup {req[r].user}
  /\ Finish(r)
  /\ UNCHANGED <<account, org, role, session, history>>

\* An administrator's new member, whose address is vouched for; no hook runs.
CreateUser(a) ==
  /\ account[a] = "none"
  /\ account' = [account EXCEPT ![a] = "verified"]
  /\ created' = created \cup {a}
  /\ UNCHANGED <<org, role, session, mailed, req, hookFailed>>

\* the link of a verification email is followed
VerifyEmail(a) ==
  /\ account[a] = "unverified"
  /\ account' = [account EXCEPT ![a] = "verified"]
  /\ UNCHANGED <<org, role, session, mailed, req, history>>

-----------------------------------------------------------------------------
\* Sessions (better-auth's rows) and the operator's deactivation

SignIn(s, a) ==
  /\ account[a] = "verified"
  /\ session[s] = NoSession
  /\ session' = [session EXCEPT ![s].user = a]
  /\ UNCHANGED <<account, org, role, mailed, req, history>>

\* mutant: the row keeps its active organization
EndSessionHalf(s) ==
  /\ session[s].user # None
  /\ session' = [session EXCEPT ![s].user = None]
  /\ UNCHANGED <<account, org, role, mailed, req, history>>

\* sign-out, revocation from another session, or expiry
EndSession(s) ==
  /\ session[s].user # None
  /\ session' = [session EXCEPT ![s] = NoSession]
  /\ UNCHANGED <<account, org, role, mailed, req, history>>

\* the organization plugin's set-active, open to members
SetActive(s, o) ==
  /\ session[s].user # None
  /\ role[session[s].user][o] # None
  /\ session' = [session EXCEPT ![s].active = o]
  /\ UNCHANGED <<account, org, role, mailed, req, history>>

FindUser(r) ==
  /\ req[r].pc = "findUser"
  /\ IF account[req[r].user] = "none" THEN Finish(r) ELSE Goto(r, "revoke")
  /\ UNCHANGED <<database, history>>

\* DELETE of every session row of the account
RevokeSessions(r) ==
  /\ req[r].pc = "revoke"
  /\ session' = [s \in Session |-> IF session[s].user = req[r].user THEN NoSession ELSE session[s]]
  /\ Finish(r)
  /\ UNCHANGED <<account, org, role, mailed, history>>

-----------------------------------------------------------------------------
\* POST /api/orgs and PATCH /api/orgs/:orgId

\* authorizeOrg: the organization, then the caller's membership and permission
FindOrg(r) ==
  /\ req[r].pc = "findOrg"
  /\ IF org[req[r].org].state # "live" THEN Finish(r)
     ELSE req' = [req EXCEPT ![r].pc = "findMembership",
                             ![r].same = req[r].slug = org[req[r].org].slug]
  /\ UNCHANGED <<database, history>>

FindMembership(r) ==
  /\ req[r].pc = "findMembership"
  /\ IF satisfies(permissionsForOrgRole(role[req[r].user][req[r].org]), <<"org", "settings", "update">>)
     THEN Goto(r, IF req[r].same THEN "updateOrg" ELSE "findSlug")
     ELSE Finish(r)
  /\ UNCHANGED <<database, history>>

\* a slug of another organization is a conflict (409)
FindSlug(r) ==
  /\ req[r].pc = "findSlug"
  /\ IF findOrgBySlug(req[r].slug) \ {req[r].org} # {} THEN Finish(r)
     ELSE Goto(r, IF req[r].org = None THEN "createOrg" ELSE "updateOrg")
  /\ UNCHANGED <<database, history>>

\* createOrgWithOwner: both rows in one transaction; the unique index on the
\* slug answers a second organization with an error nobody maps (500)
CreateOrg(r) ==
  /\ req[r].pc = "createOrg"
  /\ \/ Taken(req[r].slug) /\ Goto(r, "failed") /\ UNCHANGED <<org, role>>
     \/ /\ ~Taken(req[r].slug)
        /\ \E o \in {t \in TeamOrg : org[t] = NoOrg} :
             /\ org' = [org EXCEPT ![o] = [state |-> "live", slug |-> req[r].slug]]
             /\ role' = [role EXCEPT ![req[r].user][o] = "owner"]
             /\ Cross(r, Idle, req[r].slug, {req[r].user})
  /\ UNCHANGED <<account, session, mailed, history>>

\* UPDATE organization SET slug: of a deleted one too, and of a personal one
UpdateOrg(r) ==
  /\ req[r].pc = "updateOrg"
  /\ LET o == req[r].org IN
     IF findOrgBySlug(req[r].slug) \ {o} # {} THEN Goto(r, "failed") /\ UNCHANGED org
     ELSE /\ org' = [org EXCEPT ![o].slug = req[r].slug]
          /\ Cross(r, Idle, req[r].slug, Members(o))
  /\ UNCHANGED <<account, role, session, mailed, history>>

\* DELETE /api/orgs/:orgId and `ops org restore` (OrgMembers has their steps)
Delete(o) ==
  /\ org[o].state = "live"
  /\ org' = [org EXCEPT ![o].state = "deleted"]
  /\ UNCHANGED <<account, role, session, mailed, req, history>>

Restore(o) ==
  /\ org[o].state = "deleted"
  /\ org' = [org EXCEPT ![o].state = "live"]
  /\ UNCHANGED <<account, role, session, mailed, req, history>>

\* A team organization's member is added, removed or given another role.
ChangeMember(a, o, held) ==
  /\ account[a] # "none"
  /\ org[o] # NoOrg
  /\ role' = [role EXCEPT ![a][o] = held]
  /\ req' = [q \in Request |-> [req[q] EXCEPT !.crossed = @ \/ HasListed(req[q], {a})]]
  /\ UNCHANGED <<account, org, session, mailed, history>>

-----------------------------------------------------------------------------
\* GET /api/me

ListMemberships(r) ==
  /\ req[r].pc = "list"
  /\ req' = [req EXCEPT ![r].pc = "stored", ![r].listed = Memberships(req[r].user)]
  /\ UNCHANGED <<database, history>>

\* loadActiveOrganizationId (null once the session's row is gone), and the answer
ReadStored(r) ==
  /\ req[r].pc = "stored"
  /\ \E m \in resolveActiveMembership(req[r].listed, session[req[r].session].active, req[r].slug) :
       req' = [req EXCEPT ![r].pc = "answered", ![r].active = m]
  /\ UNCHANGED <<database, history>>

Handle(r) ==
  \/ FindExistingAccount(r) \/ NotifyExisting(r) \/ InsertUser(r) \/ CreatePersonalOrg(r)
  \/ SendVerification(r) \/ FindUser(r) \/ RevokeSessions(r)
  \/ FindOrg(r) \/ FindMembership(r) \/ FindSlug(r) \/ CreateOrg(r)
  \/ UpdateOrg(r) \/ ListMemberships(r) \/ ReadStored(r) \/ Respond(r)

Next ==
  \/ \E r \in Request : Begin(r) \/ Handle(r) \/ Fail(r)
  \/ \E a \in Account : CreateUser(a) \/ VerifyEmail(a)
  \/ \E s \in Session, a \in Account : SignIn(s, a)
  \/ \E s \in Session : EndSession(s) \/ \E o \in Org : SetActive(s, o)
  \/ \E o \in Org : Delete(o) \/ Restore(o)
  \/ \E a \in Account, o \in TeamOrg, held \in Held \cup {None} : ChangeMember(a, o, held)

Spec == Init /\ [][Next]_vars

-----------------------------------------------------------------------------
\* Properties.

InFlight(a, steps) == \E r \in Request : req[r].user = a /\ req[r].pc \in steps

\* Every account has its personal organization, where the product has them,
\* of which it is the owner, and every account that signed up had its
\* verification email queued, unless an administrator made the account or the
\* steps after its insert broke off
\* (auth.ts buildDatabaseHooks, personal-org.ts).
AccountsAreComplete ==
  \A a \in Account : account[a] # "none" /\ a \notin hookFailed \cup created =>
    /\ PersonalAccounts =>
         (org[a] # NoOrg /\ role[a][a] = "owner") \/ InFlight(a, {"createPersonalOrg"})
    /\ a \in mailed \/ InFlight(a, {"createPersonalOrg", "verification"})

\* A caller meets an internal error for a slug only if another request wrote
\* that slug after this one found it free; every other clash is a conflict the
\* caller is told of, with soft-deleted organizations as well (create.ts, update.ts).
InternalErrorOnlyByOverlap == \A r \in Request : req[r].pc = "failed" => req[r].crossed

Admits(a, o, permission) ==
  org[o].state = "live" /\ satisfies(permissionsForOrgRole(role[a][o]), permission)

\* GET /api/me offers what the organization routes serve: with no membership
\* changed since it listed them, the active organization is one of the
\* caller's whatever the session had stored, under the role the routes judge
\* by, unless it was deleted; and the one asked for when it is the caller's
\* (me.ts resolveActiveMembership, authorization.ts authorizeOrg).
MeOffersServed ==
  \A r \in Request : req[r].pc = "answered" /\ ~req[r].crossed =>
    LET a == req[r].user
        m == req[r].active
    IN IF m = Nobody THEN \A o \in Org : role[a][o] = None
       ELSE /\ role[a][m.org] # None
            /\ org[m.org].state = "live" =>
                 \A p \in PLATFORM_PERMISSIONS :
                   p \in permissionsForOrgRole(m.role) <=> Admits(a, m.org, p)
            /\ \A o \in Org : role[a][o] # None /\ org[o].slug = req[r].slug => m.org = o

=============================================================================
