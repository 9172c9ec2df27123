------------------------------- MODULE Console -------------------------------
(***************************************************************************)
(* One browser tab of the web application (apps/web/src): the session      *)
(* bootstrap over GET /api/me and its query cache, the router with its     *)
(* guards and redirects, and the two shells with the links they offer,     *)
(* while the server's memberships, slugs and sessions change.              *)
(*                                                                         *)
(* TanStack Query: an entry is fetched when something mounts on it without *)
(* data; it may be fetched again whenever it is observed (30 s stale and   *)
(* mounted or reconnected, or invalidated); components render again when   *)
(* the status or the data they observe change.  TanStack Router: guards    *)
(* run in microtasks, so nothing comes between the redirects of one        *)
(* navigation.  A person acts on a page that has settled, or goes back     *)
(* from the splash.  The server reads for an answer when it arrives.       *)
(*                                                                         *)
(* The browser: the pages its document has been on are gone back and       *)
(* forward to without loading, and outlive a reload.                       *)
(***************************************************************************)
EXTENDS Authz, FiniteSets, Naturals

CONSTANTS
  Org,
  Personal,      \* the organizations of type personal
  Slug,
  Malformed,     \* a segment slugSchema refuses: GET /api/me?orgSlug= answers 400
  Held,          \* the roles a membership may have
  None,
  FirstSlugs,    \* the organizations' slugs at first; None: not created yet
  Configs,       \* products: [personalAccounts, organizations : BOOLEAN]
  Sections,      \* the settings pages looked at
  MaxBeside,     \* bound: the pages of a document the browser may go back or forward to
  MaxChanges     \* bound: renames, changes elsewhere, lost answers, going back from the splash

ASSUME Kinds ==
  /\ Personal \subseteq Org
  /\ None \notin Org \cup Slug \cup Held
  /\ {"owner", "member"} \subseteq Held
  /\ Malformed \notin Slug \cup {None}
  /\ FirstSlugs \subseteq [Org -> Slug \cup {None}]
  /\ \A first \in FirstSlugs : \A o, p \in Org : first[o] = first[p] /\ first[o] # None => o = p
  /\ Configs \subseteq [personalAccounts : BOOLEAN, organizations : BOOLEAN]
  /\ MaxBeside \in Nat \ {0} /\ MaxChanges \in Nat

VARIABLES
  config,    \* product.config.ts
  slug,      \* organization rows
  role,      \* the person's member rows
  cookie,    \* whether the browser's session cookie is good
  changes,   \* how many of what MaxChanges bounds there were
  path,      \* window.location
  view,      \* what the tab shows
  key,       \* the orgSlug of the session query SessionGate observes
  cache,     \* the query cache under ['me', orgSlug | null]
  beside,    \* the browser's history: the other pages of this document, in some order
  astray,    \* history: whether the gate rendered since some of these pages were reached
             \* ("behind"), or the tab came back to one under another key ("here")
  promised   \* history: the page was reached by a link a shell offered, nothing changed since

server == <<config, slug, role, cookie, changes>>
tab == <<path, view, key, cache, beside, astray>>
vars == <<server, tab, promised>>

Path == [area : {"index", "auth", "app", "o"}, slug : Slug \cup {Malformed, None},
         section : {"", "sign-in", "accept-invite", "create-organization", "profile", "module"}
                     \cup Sections]

At(area, section) == [area |-> area, slug |-> None, section |-> section]
InOrg(s, section) == [area |-> "o", slug |-> s, section |-> section]
Index == At("index", "")
SignInPage == At("auth", "sign-in")

\* a row of organizations in the answer of GET /api/me, and the answer
Listing == [org : Org, slug : Slug, role : Held]
Me == [organizations : SUBSET Listing, active : Org \cup {None}]
NoMe == [organizations |-> {}, active |-> None]

\* "lapsed": the last fetch failed and there is data of an earlier one
Entry == [status : {"absent", "pending", "data", "error", "lapsed"}, me : Me, fetching : BOOLEAN]
Absent == [status |-> "absent", me |-> NoMe, fetching |-> FALSE]
Pending == [status |-> "pending", me |-> NoMe, fetching |-> TRUE]

Keys == Slug \cup {Malformed, None}

TypeOK ==
  /\ config \in Configs
  /\ slug \in [Org -> Slug \cup {None}]
  /\ role \in [Org -> Held \cup {None}]
  /\ cookie \in BOOLEAN
  /\ changes \in 0..MaxChanges
  /\ path \in Path
  /\ view \in {"waiting", "routing", "shown", "missing"}
  /\ key \in Keys
  /\ cache \in [Keys -> Entry]
  /\ beside \in SUBSET Path
  /\ astray \in {"no", "behind", "here"}
  /\ promised \in BOOLEAN

-----------------------------------------------------------------------------
\* The session, session.ts

isAuthenticated == cache[key].status = "data"
me == cache[key].me

ActiveOf(m) == {o \in m.organizations : o.org = m.active}
sessionPermissions ==
  UNION {resolvePermissionsForRole(BUILT_IN_ROLES, o.role) : o \in ActiveOf(me)}

findOrgBySlug(m, s) == {o \in m.organizations : o.slug = s}
personalOrg(m) == {o \in m.organizations : o.org \in Personal}

\* the slugs activeOrgSlug may name, a row's place in the answer being any;
\* the server always names a row as active when there is one
activeOrgSlug(m) == {o.slug : o \in ActiveOf(m)}

\* the active organization if it is a team, else any team
returnTeamOrg(m) ==
  LET teams(s) == {o \in s : o.org \notin Personal} IN
  IF teams(ActiveOf(m)) # {} THEN teams(ActiveOf(m)) ELSE teams(m.organizations)

-----------------------------------------------------------------------------
\* The routes: app-routes.tsx, auth-routes.tsx

\* what is mounted: org modules under /app only where there are personal accounts
Mounted(p) == p.area = "app" /\ p.section = "module" => config.personalAccounts

PersonalModule == At("app", "module")

indexDestination ==
  IF ~isAuthenticated THEN {SignInPage}
  ELSE LET active == {o \in ActiveOf(me) : o.org \notin Personal} IN
       IF active # {} THEN {InOrg(o.slug, "") : o \in active}
       ELSE IF config.personalAccounts /\ personalOrg(me) # {} THEN {PersonalModule}
       ELSE IF me.organizations # {} THEN {InOrg(s, "") : s \in activeOrgSlug(me)}
       ELSE {At("app", "")}

authedDestination ==
  IF me.organizations # {} THEN {InOrg(s, "") : s \in activeOrgSlug(me)} ELSE {At("app", "")}

\* where beforeLoad redirects from page p; none if it stays
redirectIfAuthed == IF isAuthenticated THEN authedDestination ELSE {}
requireAuth == IF isAuthenticated THEN {} ELSE {SignInPage}

\* mutant: whatever the product, a personal organization's page is not shown
AwayFromPersonal(p) ==
  IF ~isAuthenticated THEN {SignInPage}
  ELSE IF \E o \in findOrgBySlug(me, p.slug) : o.org \in Personal THEN {Index} ELSE {}

resolveOrgRoute(p) ==
  IF ~isAuthenticated THEN {SignInPage}
  ELSE IF config.personalAccounts /\ \E o \in findOrgBySlug(me, p.slug) : o.org \in Personal
       THEN {PersonalModule} ELSE {}

Redirects(p) ==
  CASE p.area = "index" -> indexDestination
    [] p.area = "auth"  -> redirectIfAuthed
    [] p.area = "app"   -> IF Mounted(p) THEN requireAuth ELSE {}
    [] p.area = "o"     -> resolveOrgRoute(p)

\* notFound() of an organization the session does not list, or no such route
NotFound(p) == ~Mounted(p) \/ (p.area = "o" /\ findOrgBySlug(me, p.slug) = {})

-----------------------------------------------------------------------------
\* The links: app-shell.tsx, personal-shell.tsx, org-switcher.tsx, user-menu.tsx

InOrgShell == view = "shown" /\ path.area = "o" /\ isAuthenticated
InPersonalShell == view = "shown" /\ path.area = "app" /\ isAuthenticated

Gate == [general |-> <<"org", "settings", "update">>, members |-> <<"org", "members", "read">>,
         invitations |-> <<"org", "members", "invite">>, roles |-> <<"org", "settings", "read">>,
         audit |-> <<"org", "settings", "update">>]

moduleNavLinks(s) == {InOrg(s, ""), InOrg(s, "module")}

adminNavLinks(s) ==
  {InOrg(s, section) : section \in
     {c \in Sections : /\ \E o \in findOrgBySlug(me, s) : o.org \notin Personal
                       /\ satisfies(sessionPermissions, Gate[c])}}
    \cup IF config.organizations THEN {At("app", "create-organization")} ELSE {}

\* mutant: the modules are listed whether or not they are mounted under /app
allModuleNavLinks == {PersonalModule}

personalModuleNavLinks == IF config.personalAccounts THEN {PersonalModule} ELSE {}

OrgSwitcher ==
  LET m == cache[path.slug].me IN
  IF Cardinality(m.organizations) > 1 THEN {InOrg(o.slug, "") : o \in m.organizations} ELSE {}

UserMenu == {[path EXCEPT !.section = "profile"]}

\* the way back from the form for another organization
BackTo == IF config.organizations /\ path.section \in {"", "create-organization"}
          THEN {InOrg(o.slug, "") : o \in returnTeamOrg(me)} ELSE {}

\* links the router follows, and links the browser follows by loading a page
RouterLinks ==
  IF InOrgShell THEN moduleNavLinks(path.slug) \cup adminNavLinks(path.slug)
  ELSE IF InPersonalShell THEN personalModuleNavLinks ELSE {}
BrowserLinks ==
  IF InOrgShell THEN {Index} \cup OrgSwitcher \cup UserMenu
  ELSE IF InPersonalShell THEN {Index} \cup UserMenu \cup BackTo ELSE {}

-----------------------------------------------------------------------------
\* The query cache and the gate: use-session.ts, app.tsx

orgSlugFromPath(p) == p.slug

\* something mounts on an entry
MountOn(c, k) == IF c[k].status \in {"absent", "error"} THEN [c EXCEPT ![k] = Pending] ELSE c

\* an entry is fetched again; one that never had data is pending again
FetchAgain(c, k) == [MountOn(c, k) EXCEPT ![k].fetching = TRUE]

Mounts == IF InOrgShell THEN {key, path.slug} ELSE {key}

\* the script starts on a page with an empty cache
Start(p) ==
  /\ path' = p
  /\ key' = orgSlugFromPath(p)
  /\ cache' = MountOn([k \in Keys |-> Absent], orgSlugFromPath(p))
  /\ view' = "waiting"

\* A page is loaded, in a document of its own.
Load(p) == Start(p) /\ beside' = {} /\ astray' = "no"

\* the gate renders on a page, with others beside it or none
LeftBehind ==
  /\ astray' = IF beside = {} THEN "no" ELSE "behind"
  /\ UNCHANGED beside

\* mutant: the gate goes on with the query it started with
GateKeepsKey(c) ==
  /\ key' = key
  /\ cache' = c
  /\ view' = IF c[key].status = "pending" THEN "waiting" ELSE "routing"
  /\ UNCHANGED <<path, beside, astray>>

\* SessionGate renders: with the slug of the path the router has come to since,
\* and with a new router for the session it finds, or the splash in its place.
SessionGate(c) ==
  /\ key' = orgSlugFromPath(path)
  /\ cache' = IF key' = key THEN c ELSE MountOn(c, key')
  /\ view' = IF cache'[key'].status = "pending" THEN "waiting" ELSE "routing"
  /\ LeftBehind
  /\ UNCHANGED path

\* The entry of k becomes e; the gate renders if it observes a difference.
Update(c, k) ==
  IF k = key /\ (c[k].status # cache[k].status \/ c[k].me # cache[k].me) THEN SessionGate(c)
  ELSE cache' = c /\ UNCHANGED <<path, view, key, beside, astray>>

\* invalidateQueries(['me']): what is observed is fetched again
Invalidate == Update(FetchAgain(cache, key), key)

Settled == view \in {"shown", "missing"}

-----------------------------------------------------------------------------
Memberships ==
  {[org |-> o, slug |-> slug[o], role |-> role[o]] : o \in {x \in Org : role[x] # None}}

\* the answers of GET /api/me: with the slug asked for, that organization is
\* active if it is the person's, else any is (the stored one, or the first row)
getMe(k) ==
  LET asked == {o \in Memberships : o.slug = k} IN
  {[organizations |-> Memberships, active |-> a] :
     a \in IF asked # {} THEN {o.org : o \in asked}
           ELSE IF Memberships # {} THEN {o.org : o \in Memberships} ELSE {None}}

Failed(e) == [status |-> IF e.status \in {"data", "lapsed"} THEN "lapsed" ELSE "error",
              me |-> NoMe, fetching |-> FALSE]

\* 401 or 400 fails the query, which is not tried again
Outcomes(k) ==
  IF cookie /\ k # Malformed
  THEN {[status |-> "data", me |-> m, fetching |-> FALSE] : m \in getMe(k)}
  ELSE {Failed(cache[k])}

Init ==
  /\ config \in Configs
  /\ slug \in FirstSlugs
  /\ role \in {r \in [Org -> Held \cup {None}] :
                 \A o \in Org : /\ slug[o] = None => r[o] = None
                                /\ o \in Personal => r[o] \in {None, "owner"}}
  /\ cookie \in BOOLEAN
  /\ changes = 0
  /\ path = Index
  /\ key = None
  /\ cache = MountOn([k \in Keys |-> Absent], None)
  /\ view = "waiting"
  /\ beside = {} /\ astray = "no"
  /\ promised = FALSE

Answer(k) ==
  /\ view # "routing"
  /\ cache[k].fetching
  /\ \E e \in Outcomes(k) :
       /\ Update([cache EXCEPT ![k] = e], k)
       /\ promised' = (promised /\ e.status = "data")
  /\ UNCHANGED server

\* The answer is lost.
Lose(k) ==
  /\ view # "routing"
  /\ cache[k].fetching
  /\ changes < MaxChanges
  /\ changes' = changes + 1
  /\ Update([cache EXCEPT ![k] = Failed(cache[k])], k)
  /\ promised' = FALSE
  /\ UNCHANGED <<config, slug, role, cookie>>

\* The router takes one redirect, or renders what the path matches; the org
\* shell's switcher mounts on the query of its own slug.
Route ==
  /\ view = "routing"
  /\ \/ /\ \E p \in Redirects(path) : path' = p
        /\ UNCHANGED <<view, cache>>
     \/ /\ Redirects(path) = {}
        /\ view' = IF NotFound(path) THEN "missing" ELSE "shown"
        /\ cache' = IF path.area = "o" /\ view' = "shown" THEN MountOn(cache, path.slug) ELSE cache
        /\ UNCHANGED path
  /\ UNCHANGED <<server, key, beside, astray, promised>>

\* staleness and a mount, or a reconnection; saving the profile has the same effect
Refetch(k) ==
  /\ Settled
  /\ k \in Mounts
  /\ ~cache[k].fetching
  /\ Update(FetchAgain(cache, k), k)
  /\ UNCHANGED <<server, promised>>

-----------------------------------------------------------------------------
\* The person

\* an address typed, bookmarked or mailed
Visit(p) ==
  /\ Settled
  /\ p # path
  /\ Load(p)
  /\ promised' = FALSE
  /\ UNCHANGED server

\* The page is loaded again, in the same document as far as going back goes.
Reload ==
  /\ Settled
  /\ Start(path)
  /\ LeftBehind
  /\ promised' = FALSE
  /\ UNCHANGED server

\* The browser goes back or forward to another page of the document.  The router
\* routes it in the session the gate found last: the gate does not render.
BackOrForward(p) ==
  /\ view # "routing"
  /\ p \in beside
  /\ path' = p
  /\ view' = IF view = "waiting" THEN "waiting" ELSE "routing"
  /\ beside' = (beside \ {p}) \cup {path}
  /\ astray' = IF astray = "no" THEN "no" ELSE IF p.slug = key THEN "behind" ELSE "here"
  /\ view = "waiting" => changes < MaxChanges
  /\ changes' = IF view = "waiting" THEN changes + 1 ELSE changes
  /\ promised' = FALSE
  /\ UNCHANGED <<config, slug, role, cookie, key, cache>>

\* a link is good if the queries behind the page hold what the server holds,
\* and the tab has not come back to the page
Good ==
  cookie /\ astray # "here" /\ \A k \in {key, path.slug} :
    /\ cache[k].status # "lapsed"
    /\ cache[k].status = "data" => cache[k].me.organizations = Memberships

Navigate(p) ==
  /\ p \in RouterLinks
  /\ path' = p
  /\ view' = "routing"
  /\ promised' = Good
  /\ IF p = path THEN UNCHANGED beside
     ELSE \E kept \in SUBSET beside :
            Cardinality(kept) < MaxBeside /\ beside' = kept \cup {path}
  /\ UNCHANGED <<server, key, cache, astray>>

Follow(p) ==
  /\ p \in BrowserLinks
  /\ Load(p)
  /\ promised' = Good
  /\ UNCHANGED server

SignIn ==
  /\ view = "shown"
  /\ path = SignInPage
  /\ cookie' = TRUE
  /\ promised' = FALSE
  /\ Invalidate
  /\ UNCHANGED <<config, slug, role, changes>>

\* signed out, the shell loads the sign-in page
SignOut ==
  /\ InOrgShell \/ InPersonalShell
  /\ cookie' = FALSE
  /\ promised' = FALSE
  /\ Load(SignInPage)
  /\ UNCHANGED <<config, slug, role, changes>>

Free == {s \in Slug : \A o \in Org : slug[o] # s}

\* The general settings are saved; nothing is fetched again.
Save(o, s) ==
  /\ InOrgShell
  /\ path.section = "general"
  /\ [org |-> o, slug |-> path.slug] \in {[org |-> x.org, slug |-> x.slug] : x \in me.organizations}
  /\ cookie
  /\ satisfies(permissionsForOrgRole(role[o]), <<"org", "settings", "update">>)
  /\ s \in Free
  /\ changes < MaxChanges
  /\ changes' = changes + 1
  /\ slug' = [slug EXCEPT ![o] = s]
  /\ promised' = FALSE
  /\ UNCHANGED <<config, role, cookie, tab>>

CreateOrganization(o, s) ==
  /\ InPersonalShell
  /\ path.section \in {"", "create-organization"}
  /\ config.organizations
  /\ cookie
  /\ slug[o] = None
  /\ o \notin Personal
  /\ s \in Free
  /\ slug' = [slug EXCEPT ![o] = s]
  /\ role' = [role EXCEPT ![o] = "owner"]
  /\ promised' = TRUE
  /\ Load(InOrg(s, ""))
  /\ UNCHANGED <<config, cookie, changes>>

\* accept-invitation asks for a session, and the page is only shown without
\* one: it is accepted if the person signed in elsewhere since
AcceptInvite(o) ==
  /\ view = "shown"
  /\ path = At("auth", "accept-invite")
  /\ cookie
  /\ slug[o] # None
  /\ role[o] = None
  /\ role' = [role EXCEPT ![o] = "member"]
  /\ promised' = FALSE
  /\ Invalidate
  /\ UNCHANGED <<config, slug, cookie, changes>>

\* Another tab signs in or out or the session expires; an administrator adds or
\* removes the person or changes the role; somebody renames an organization.
Elsewhere ==
  /\ view # "routing"
  /\ changes < MaxChanges
  /\ changes' = changes + 1
  /\ \/ cookie' = ~cookie /\ UNCHANGED <<slug, role>>
     \/ \E o \in Org \ Personal, h \in Held \cup {None} :
          /\ slug[o] # None
          /\ role' = [role EXCEPT ![o] = h]
          /\ UNCHANGED <<slug, cookie>>
     \/ \E o \in Org, s \in Free :
          /\ slug[o] # None
          /\ slug' = [slug EXCEPT ![o] = s]
          /\ UNCHANGED <<role, cookie>>
  /\ promised' = FALSE
  /\ UNCHANGED <<config, tab>>

Addresses ==
  {Index, SignInPage, At("auth", "accept-invite"), At("app", ""), PersonalModule}
    \cup {InOrg(s, "") : s \in Slug \cup {Malformed}}

Next ==
  \/ \E k \in Keys : Answer(k) \/ Lose(k) \/ Refetch(k)
  \/ Route \/ SignIn \/ SignOut \/ Elsewhere \/ Reload
  \/ \E p \in Addresses : Visit(p)
  \/ \E p \in beside : BackOrForward(p)
  \/ \E p \in RouterLinks : Navigate(p)
  \/ \E p \in BrowserLinks : Follow(p)
  \/ \E o \in Org : AcceptInvite(o) \/ \E s \in Slug : Save(o, s) \/ CreateOrganization(o, s)

\* the answer the splash waits for arrives or fails, and the router runs
Fairness == WF_vars(view = "waiting" /\ Answer(key)) /\ WF_vars(Route)

Spec == Init /\ [][Next]_vars /\ Fairness

-----------------------------------------------------------------------------
\* Properties.

\* An organization's page acts for the organization of its address: the
\* session lists it, and the permissions the page is gated by are those the
\* person has in it, also after redirects, links, going back and forward and
\* refetches that changed which organization the server calls active.  The one
\* exception: the browser went back or forward to a page of an organization the
\* gate did not ask for, past a point where it had rendered
\* (use-session.ts, app-routes.tsx resolveOrg, app.tsx).
ShellActsForItsOrg ==
  InOrgShell /\ astray # "here" => \E o \in ActiveOf(me) : o.slug = path.slug

\* A link a shell offers leads to its page, never to Not Found or to sign-in,
\* whatever the product's capabilities, unless something changed, an answer
\* failed or the tab went back since it was offered, or the page that offered it
\* was one the tab had come back to past a render of the gate (app-shell.tsx,
\* personal-shell.tsx, org-switcher.tsx, user-menu.tsx).
LinksLead == promised /\ Settled => view = "shown" /\ path.area \in {"app", "o"}

\* The tab never stays on the splash or between redirects (app.tsx SessionGate).
Settles == []<>Settled

=============================================================================
