# platform-scaffold: a verification development

This directory holds TLA+ models of the platform scaffold (the Fastify API, its
platform packages, the reference module and the operator CLI), the TLC
configurations that check them on small instances, and TLAPS proofs of what
matters most for instances of every size. `PROJECT.json` ties every definition to
the source lines it stands for, every run to its question, every property to a
mutation of the code it catches, and every hazard of the code to the properties
that would show it going wrong.

Paths below are relative to the repository; `orgs/` is `apps/api/src/routes/orgs/`,
`ref/` is `modules/reference-workspace/`, `packages/` and `ops/` are themselves.

To check: `tlc -config MCTenancy.cfg MCTenancy` and so on for each `.cfg`;
`tlapm TenancyProofs.tla` and so on for each `*Proofs` module.

## 1. The system

One Node process (`apps/api/src/main.ts`) serves HTTP, runs the pg-boss workers and
talks to one PostgreSQL database through one `pg` pool. Requests interleave at every
`await`. With one exception there is no lock: repositories issue one autocommitted
statement per call, `createOrgWithOwner` uses a transaction, and the reference module
wraps each repository call in a `withOrg` transaction of its own. So **the unit of atomicity is the statement (or
the `withOrg` call), and a handler is a sequence of them**. That is the shape of every
state machine here: `req[r].pc` is the statement a request will issue next, its other
fields are the row values it has read and will act on, and one action is one statement
with the synchronous code up to the next.

| Component | State | Operations | Hard behaviour | What makes it correct |
|---|---|---|---|---|
| Organization membership (`orgs/members.ts`, `transfer-ownership.ts`, `delete.ts`, `invariants.ts`, `authorization.ts`, `drizzle-repository.ts`; `ops/src/commands/org.ts`) | `member` rows, `organization.deleted_at`, `user` rows | add or create, change role, remove, transfer, soft-delete, restore; accept (shared with invitations), and better-auth's own acceptance | checks and writes are separate statements; no unique index on (organization, user); a transfer is two updates; failure between statements; the web application accepts through the library, which checks nothing | an organization has an owner; one row per user unless one was added unchecked; a personal organization stays solo; the audit log names what happened; created accounts get their link, where the library finds them |
| Invitations (`orgs/invitations.ts`, `invitation-service.ts`; `ops/src/commands/invite.ts`) | `invitation` rows with status and expiry, mail, audit | create, resend, revoke, accept, operator's resend; the expiry sweep, whose body is empty | an acceptance acts on a row it read some statements ago; expiry is a moving clock; mail fails after the row is written | an invitation is a single-use ticket; revocation holds; one pending invitation per address |
| Reference module (`ref/api/*.service.ts`, `*repository.ts`) | spaces, notes, the published shelf, likes, comments | create, edit, publish, unpublish, assign, delete; like, comment; delete a space | two transactions per publication; cascades on one table and not on the other; a count-then-insert quota | what readers see is what writers published; engagement never outlives the note; the quota holds; ownership is respected |
| Tenant isolation (`packages/platform-tenancy`, `packages/platform-db/drizzle/0001_rls_backstop_policies.sql`) | pool connections, the `app.org_id` setting, transactions, the rows of every organization | `withOrg` transactions; platform services outside them | connections are shared in turn; transactions fail anywhere; the login role decides whether the policies apply | no unit of work is shown or changes another organization's rows; the setting never leaks; nobody starves for a connection |
| Authorization (`packages/platform-authz`, `apps/api/src/context.ts`) | permission ids, role → permission sets, computed at boot from the manifests | declare, refuse, grant defaults, expand patterns, satisfies | wildcards and member defaults from modules; three places compute roles | a guarded permission stays with owners; a bad manifest is refused; the client is told what the routes enforce |
| Entitlements (`packages/platform-entitlements`, `ops/src/commands/entitlement.ts`) | overrides, registry defaults | get, require, set | override and audit are two statements, and two writers overlap | the newest audit row names the value that stands; values keep their kind |
| Jobs and email (`packages/platform-jobs`, `packages/platform-email`, `ref/api/export.job.ts`) | pg-boss queues, pending workers, mail | register, start, enqueue, deliver, retry, stop | order of start and attach; a crash or a lost completion after delivery | what was accepted is delivered or failed, not lost; a duplicate has a reason |
| Boot and shutdown (`apps/api/src/main.ts`, `shutdown.ts`) | server, queue, pool | listen, drain, stop, end | three subsystems closed one after the other while work runs | no request and no awaited handler finds the pool closed |
| Identity (`packages/platform-identity`, on better-auth) | users, accounts, sessions, sign-in trail | sign-up with its notice and hook, admin creation, deactivation, sign-in and sign-out with the audit hook | the hook that creates the personal organization runs after the account exists; the audit hook runs after the session exists | every account is complete; the trail names who signed in |
| Sessions (`apps/api/src/plugins/auth.ts`, `lib/session.ts`, `routes/me.ts`) | session rows with an active organization | requireUser, GET /api/me, profile | the active organization outlives the membership; two reads per answer | GET /api/me offers what the routes serve |
| Slugs (`orgs/create.ts`, `update.ts`, `personal-org.ts`) | `organization.slug`, unique, soft-deleted rows included | create, rename, create personal, delete, restore | check-then-write against the unique index | a taken slug is a 409; an internal error needs an overlap |
| Audit (`packages/platform-audit`, `orgs/audit-logs.ts`) | `audit_log`, append-only | log, list | written last, by another statement | it names only what happened |
| Rate limiting (`apps/api/src/plugins/rate-limit.ts`) | a library's counters | two budgets, per route | none of its own | the budgets are as configured |
| Operator CLI (`ops/src`) | none of its own | restore, resend, deactivate, entitlement get and set | runs in a process beside the API | as the components it writes |
| Web: session, routes, shells (`apps/web/src/{app.tsx,session,router,shell}`) | the session query and its key, the location, what is shown | bootstrap, guards, redirects, links, sign-in and out, rename, create, accept | the key of the query is the address at render time; refetches fail or come late; modules are mounted per product; Back and Forward return to a page without the gate | a page acts for the organization of its address; links lead; no splash for ever |
| Web: screens (`apps/web/src/screens/settings-org`, `ref/web`) | the query cache | fetch, refetch, change, invalidate | answers overtake changes; filters share a prefix, screens share a key | one's own change shows |
| Web: account access (`apps/web/src/screens/{auth,settings-user}`, `lib/auth-client.ts`) | one form, its error and confirmation, the session list | every call of the auth client | answers are lost, or arrive after the screen or after another answer | a confirmation stands for something done; an ended session is not shown as active |
| UI kit, contracts, configuration, seeding, static files | constants, scripts | | | not modelled, see 8 |

The tab holds no lock either: a call is sent, anything may happen, and an answer arrives or is lost. Its
models (`Console`, `Screens`, `Access`) are state machines of one tab against a server reduced to what that
tab can tell apart.

The components of the API interact by the shared tables only, with these exceptions: handlers await the
email port and the audit writer (a rejected promise ends the handler where it is);
creation of a note awaits the entitlement lookup; the sign-up hook of identity calls
organization creation; boot wires the workers of jobs to the email adapter.

## 2. Modules

| Module | Models | Notes |
|---|---|---|
| `OrgMembers` | the membership table of one organization, this code's handlers that write it and better-auth's acceptance, which the web application calls | provable; no recursion; the plugin's other endpoints: see 8 |
| `OwnedOrg` | what that table promises: rows come, change and go, and an owner is always left | abstract specification, refined by `OrgMembers` |
| `OrgMembersProofs` | theorems about `OrgMembers` | |
| `Invitations` | the invitations of one organization with clock, mail, audit and memberships | this code's handlers and the operator's; better-auth's acceptance of an invitation: see 8 |
| `Ticket` | one invitation: admits once while valid, and is over when used or revoked | abstract specification, refined by `Invitations` |
| `InvitationsProofs` | theorems about `Invitations` | |
| `Publishing` | spaces, notes, shelf, likes, comments and the quota of one organization | |
| `PublishingProofs` | theorems about `Publishing` | |
| `Tenancy` | units of work of several organizations over one pool, under either login role | composes `withOrg` callers with the services outside it |
| `TenancyProofs` | theorems about `Tenancy` | |
| `Delivery` | the life of the process, the job queues, the workers and the mail they send | composes boot, shutdown, jobs, email port and export job |
| `DeliveryProofs` | theorems about `Delivery` | |
| `Authz` | permission patterns, built-in and module roles, and the three computations of a role's permissions | operators only; used by `ControlPlane`, `Accounts` and `Console` |
| `ControlPlane` | the registry built at boot from any manifests, entitlement defaults, overrides and their audit | composes authz, entitlements, context and the operator's commands |
| `Accounts` | sign-up and its hooks, slugs, session rows, GET /api/me, deactivation | composes identity, organization creation and the session routes |
| `AccountsProofs` | theorems about `Accounts` | |
| `Console` | one tab: session query, router, shells and their links | one person, against changing memberships and slugs |
| `Screens` | the screens of one organization over the query cache | tables are version numbers |
| `Access` | one person at the public and personal screens, the auth client and `/api/auth` with its hooks | two calls under way at once, other devices |
| `PlatformProofs` | theorems about `ControlPlane`, `Access` and the mix of the two in `MCPlatform` | |
| `WebProofs` | theorems about `Console`, `Screens` and the mix of the two in `MCWeb` | |
| `MC*` | symmetry sets and bounds for TLC; the `.cfg` files give the constants | one per state machine, but `MCWeb` extends `Console` and `Screens`, and `MCPlatform` `ControlPlane` and `Access`; hence the names of `Screens` and `Access` that begin with their module's |

Common conventions. `Request` is the set of requests in flight at once; `Offered`
limits which operations callers send in a run (all of them are in the specification);
`Faults` says whether a handler may stop between any two of its statements, which
stands for a thrown error and for a crash of the process alike: what is in the
database stays, what the handler remembered is lost. A definition under a comment
"mutant:" is not part of a specification: it is what the preceding code would be
with a plausible bug, and the runs are expected to notice when it is put in place.

History variables (`interfered`, `doubled`, `stranded`, `torn`, `overran`, `stale`,
`used`, `unsent`, `rejoined`, `refused`, `unheard`, `dropped`, `crossed`, `unrecorded`, `hookFailed`, `overtaken`, `unaudited`, `promised`, `astray`, `borrowed`, ...) record which race or failure has happened. They never guard an action.
They let a property say exactly *when* a promise is lost instead of giving it up
because it is lost in one order nobody serialized: "an organization loses its last
owner only when ..." is checked and proved, and the bare "an organization has an
owner" is refuted by a run of its own.

### OrgMembers

State: `role` and `holder` (the `member` rows; ids are never issued twice), `org`
(live, deleted, deleted for over thirty days), `orgType`, `account`, `mailed`,
`audit`, `req`. Actions are the statements of `authorizeOrg` (`FindOrg`,
`FindMembership`), of role change and removal (`FindTarget`, `ListOwners`,
`ChangeRole`, `DeleteMember`), of transfer (`Promote`, `Demote`), of deletion and
restore (`SoftDelete`, `FindDeleted`, `ClearDeleted`), of `addOrCreateMember` and
acceptance (`FindUser`, `FindExisting`, `CreateUser`, `AddMember`,
`SendSetPassword`), and `Audit`. The statements acceptance makes on the invitation
row are in `Invitations`, the ones on this table in both.

`accept` is the API's handler (`orgs/invitations.ts` 215-238), `join` is `/organization/accept-invitation` of better-auth's
plugin, to which `auth-client.ts` 218-219 posts. The library is not under `src/`; it is modelled as an insert
with no look at the table before it. `User` are addresses as they are stored, and `Lowered` is what the library makes of
one: it looks accounts up, and signs people up, under the lowered address only, while `createMember` looks up and stores the address as typed.

### Invitations and Ticket

State: `invite` rows (status, address, expiry), the member rows of each person (`seats`), the
clock `now`, `mailed` and `audit`. The clock counts days up to `Horizon`; an invitation lives
`TTL` of them. Each handler is its lookups, then its writes; `accept` reads the row,
looks up the membership, inserts it, marks the row and audits. `Ticket` is
one invitation as `SPEC.md` describes it. `TicketSpec` says `Invitations` implements
`Ticket` for every invitation that no acceptance held a stale reading of and none
broke off in the middle of; those two sets are the history variables `stale` and `torn`. `unsent` holds the
invitations whose mail broke off; any other that nobody was mailed has a request about to send it (`AuditTellsTruth`).

### Publishing

State: `spaces`, `note`, `shelf`, `likes`, `comments`, and the roles of the people.
A handler is a sequence of `withOrg` transactions; each transaction is one action,
foreign-key cascades included: deleting a space deletes its notes, deleting a
shelf row deletes its likes and comments, and nothing ties a shelf row to its note.

### Tenancy

A row is only its table and its organization. A unit of work waits for a connection
(`Acquire`), and either goes through `BEGIN`, `set_config(..., true)`, its statements
and `COMMIT` or a rollback, or is one statement of a platform service. `Permits` is
the policy's USING and WITH CHECK clause; `Filter` is the WHERE clause the repositories
write themselves. `login` is the login role of the deployment, fixed at the start: `app_runtime`,
as the tenancy package is designed for, under which statements may forget their filter, since the
policies are the backstop for that; or the owner, whose `DATABASE_URL` `main.ts` really uses
(`docs/DEPLOYMENT.md` 53-66), to whom no policy applies. `refused` collects the rows a service could not write.

### Delivery

State: `stage` (how far `main()` or the shutdown has come), `attached` (the workers are attached one by
one, in the order `main.ts` 142-145 registers them), the `queues` that exist, the rows `job`, the `worker` of
each queue with the handler it runs, `late` handlers nobody waits for any more, and the `request`s about
to send. The tables of the queue outlive the process, everything else is forgotten by `Forget`. `sent` counts the effects of a job: mails
transported, or export mails enqueued. What pg-boss 10 does is external, and modelled as this code meets it: a send
to a missing queue answers null (which `email.send` throws away), a handler is waited for until its job expires and is not
interrupted then, a rejected handler fails its job, a failed job is retried up to the default limit, `stop` waits for the
handlers for a while and then fails their jobs, and maintenance fails active jobs nobody runs. Neither sweep is in any request's reach:
nothing schedules them, so their queues stay empty.

### Authz and ControlPlane

An id is the sequence of its dotted segments; `matchesPattern`, `expandPatterns` and `buildRole` are the functions
of those names over sets. `contributed` is any list of manifests, `boot` the loops of
`createPermissionRegistry` with their early errors (`Declare`, `GrantDefault`), after which `Serve` publishes the registry. Overrides are
written by `Upsert` and audited by `RecordChange`, two statements of two writers that may overlap and may break off (`Break`).

### Accounts

State: `account`, `org` (state and slug), `role`, `session` (user and stored active organization), `mailed` and the requests. One
action is one statement: sign-up is `FindExistingAccount`, `NotifyExisting`, `InsertUser`, `CreatePersonalOrg`, `SendVerification`; creating
or renaming an organization is `FindSlug` and then the write that the unique index may refuse; GET /api/me is `ListMemberships` and
`ReadStored`. The capabilities of the product are constants.

### Console

State: the product's `config`, the server's `slug`, `role` and `cookie`, and the tab: `path`, `view` (splash, redirecting, shown, missing), `key` and the
`cache` of the session query. `beside` is the browser's history: the other pages this document has been on, in no order, to which `BackOrForward` goes; `Reload`
starts the script again in the same history. `astray` says whether the tab came back to a page under a key the gate did not ask for, which the gate does not notice. `Route` runs guards and redirects, `SessionGate` the gate over whatever answer came, `Answer` and `Lose` the network. The
links of both shells are sets of paths (`RouterLinks`, `BrowserLinks`), so that "a link leads somewhere" is a statement about what the router then does.

### Screens

A screen is what it reads, what its mutations change and what they invalidate; a table of the server is the number of changes it
has seen (`made` is their sum, for the bound), a cache entry the number it was read at and the shape it is kept in (`ShapeFor`). `RefetchQuery`, `Serve`, `Arrive` and `FailFetch` are the life of a fetch, `Submit`, `Apply`, `Acknowledge` and `FailChange` that of a change.

### Access

State: the tab's `page`, `form` (pending call, error, submitted, saved), sessions `panel` and `cookie`; the `call`s under way; the server's `account`, `session` rows
and `trail`. `Screen` gives for each page the calls it offers and what it says was done, from `useAuthMutation` and the form's `isSubmitSuccessful`.
`Run`, `SignOutOthers` and `SignOut` send; the `Serve...` actions are the endpoints, `AfterHook` the audit hook between session and response; `Receive` is
an answer, perhaps lost, to the screen that is mounted by then. Passwords and links are right or wrong when looked at.

## 3. Runs

| Run | Question and answer |
|---|---|
| `org_members` | Three mixes of calls, two overlapping, failing anywhere. Those that govern, over two rows: the last owner is lost only by interference, and until then every write is a step of `OwnedOrg`. Those by which people come and go, over three rows, by an administrator or by better-auth's acceptance: a duplicate row needs two additions of that user overlapping between check and insert, or that acceptance. Additions, deletion and restore: an account an admin made is mailed its link unless its request failed or its address has capitals. |
| `org_owner_race` | Violation: two demotions or removals leave no owner. |
| `publishing` | Two overlapping requests of authors and owners on a note, failing anywhere, with role changes and removals: the shelf agrees with the notes but for named races; likes and comments leave with the shelf row. |
| `publishing_live` | Two notes at a limit of one, the space deleted meanwhile, failing anywhere: the quota; a published note reaches the readers unless its write is lost, withdrawn or overtaken. |
| `publishing_space_gone`, `publishing_by_edit` | Violations, see 7. |
| `invitations` | Two mixes, failing anywhere: two calls on one invitation over two lifetimes (single use, revocation, refinement of `Ticket`); two invitations and two spellings of an address (one pending per address unless creations overlapped; the audit tells what happened, and only a mail that broke off leaves an invitation nobody was mailed). |
| `tenancy` | Two organizations, two units of work in turn over one connection, failing anywhere, under either login: confinement by the policies alone (`app_runtime`) or by the filters alone (the owner), what the services may reach outside `withOrg` whatever ran on their connection before, and whoever waits for the connection gets it. |
| `delivery` | One request and two jobs through any number of boots and shutdowns and one crash: nothing sent meets a missing queue; a second mail has a reason; queue and pool are closed when quiet or given up; every accepted job is completed or given up. |
| `accounts` | Two requests and two sessions of one account, its personal organization and a team, failing anywhere: accounts are complete unless their hook broke off; an internal error for a slug needs an overlap; GET /api/me offers what the routes serve. |
| `platform` | Two mixes. Every set of manifests of up to three ids, two of them wildcards and one the platform's: what is refused, what the roles become, who holds the guarded permissions, and two overlapping entitlement writes. One person at one or two screens of `Access` (and those they lead to), two calls under way, answers lost, another device: confirmations, the session list, the sign-in trail. |
| `web` | Two mixes. One tab of a person with a personal and a team organization, in products with and without personal accounts, with one rename, change elsewhere or lost answer, going back, forward and reloading: pages act for their organization unless the tab came back to them under another key, links lead, the splash ends. Pairs of screens that share cached data, with one change: one's own change shows, in the shape the screen draws. |

A *mix* keeps each run small by letting a behaviour be of one kind or another; the MC module's comment says which. All mixes of a
run are checked together, and no property is of two of them except the type invariant.

### Bounds, and why they are enough

* Two requests in flight. Every race in this code is between one check and one write
  of another request, since no handler reads more than one thing another writes before it acts;
  two suffice to produce it, and the proofs cover any number.
* Two people, one of whose addresses is also typed with capitals, and two or three rows: enough for an owner and another, a removal and a second
  join, and a second account for one person. Rows are never reused, so three rows let a person leave and come back.
* `TTL` and `Horizon` of 1 or 2: an invitation can be fresh, expire while a handler holds it,
  and be refreshed by a resend. Nothing depends on the length of a day.
* `MaxUses` caps the counter of acceptances at 2, one more than a ticket allows.
* Note limit 1 and two notes: reaching and overrunning the limit both happen.
* Two organizations and one connection: the hazard of a pool is the *next* user of a
  connection; concurrent transactions meet in what they have committed only. The two tables of `tenancy`
  are one under the plain policy and `audit_log`, whose policy also permits rows of none.
* Two jobs, one request, one retry and one crash: an export makes a mail, so two jobs are the export and its mail, or two mails
  in one queue; the crash may fall in any boot, in any handler or in any step of a shutdown, and the restart after it is unbounded. pg-boss retries twice by default; one retry already tells a job that is tried
  again from one that is given up.
* Three manifest ids: a wildcard that covers the others and a platform id among them is what separates patterns from ids; one organization and key, since
  overrides of different pairs never meet.
* One account, two slugs (the account's own and a chosen one) and two sessions: the clash of slugs, the second session that is left, and a stored organization that is gone all occur.
* `web`: two organizations, since the hazard is the *other* organization; one change, rename or lost answer, after any number of navigations and refetches. One page
  beside the one shown (`MaxBeside`; the browser drops the rest): the way back to a page under another key needs one. Going back while the splash is up counts among the changes, since it
  would otherwise put off the splash's end at will. Going back to another document is a `Visit`: it loads the page. Two of the three filters: invalidation is by
  prefix, and one other list tells that from invalidating one's own.
* `platform`: two calls under way are what it takes for one answer to overtake another; two session rows are this device and another.
  A person uses one of five small sets of screens, since screens share only the cookie, and every form keeps its own state.
* `CHECK_DEADLOCK FALSE` stands in the configurations of `Publishing`, which may begin with nobody
  in the organization, or see everybody leave, and of `platform`, where a refused manifest ends the boot and the rows of sessions
  run out: no call is left to make then.

### Fairness

`publishing_live` assumes weak fairness of each request's next statement: the event loop
resumes every handler whose statement has been answered, and a handler may still fail anywhere (a lost
shelf write is one of the outcomes its property allows). `tenancy` assumes that callbacks come to an end
(weak fairness of a unit's own steps) and that a waiting caller is not passed over for ever
(strong fairness of `Acquire`: `pg-pool` serves its queue first in, first out). `delivery` assumes that boot and shutdown
go on and that the supervisor starts a process that exited (`specs/design/deployment.md` 101), that handlers come to an end, be it an error, and that the queue gets to every waiting and every expired job while a process
is up (strong fairness, since restarts disable both in between). `web` assumes that a session fetch ends, answered or failed, and that the router runs (weak fairness of the answer the splash waits for, `view = "waiting" /\ Answer(key)`, and of `Route`: `fetch` settles, and guards are microtasks). `Settles` says that the tab settles again and again, since
a person may leave a settled page at any time. Calls themselves are never fair:
nobody is obliged to send a request, a SIGTERM or a crash.

## 4. Proofs

What TLC finds on small instances is proved for every number of users, rows,
requests, invitations, notes, organizations, connections, jobs, retries, manifests, crashes, sessions, calls of a tab, slugs and
screens. The assumptions are the named `ASSUME`s of each module: ids are distinct from the null values, the constants are in their ranges,
and in `Console` (`Kinds`) no two organizations begin with one slug, which the unique column `organization.slug`
(`packages/platform-db/src/schema/auth.ts` 70) forbids, and the roles have an owner and a member, which creation and acceptance write.
TLC evaluates them in every run.

Each `*Proofs` module has the same layout: type correctness; lemmas that say what one
action does and one *frame* lemma for what it leaves; one lemma per part of the
inductive invariant, with a step per action; `IInv /\ [Next]_vars => IInv'`; then the
temporal theorem `Spec => []IInv` and one theorem per property.

* `OrgMembers`: `IInv` adds to the properties what the requests in flight still hold.
  `OwnerInv`: until there is interference, a request past its owner check leaves another owner
  behind (`LeavesOwner`), and a transfer about to demote its caller has an owner in its target.
  "There is an owner" alone is not inductive: a check made three statements ago says nothing of now. `JoinInv`
  says the same of additions by the handlers that check, `OnboardInv` that an account in the making is mailed or stranded, or that its address has capitals, `PersonalInv` restricts which statements a personal
  organization's requests can reach, `AuditInv` that a removal about to be audited has
  happened. `TableIsOwned` then maps each write to a step of `OwnedOrg`.
* `Publishing`: `ShelfInv` relates each note to its shelf row, or else to the request that
  will synchronize them or to the history of one that broke off or was overtaken;
  `CapInv` counts, with each creation in flight that has passed the check.
* `Invitations`: `OpenInv` says an acceptance past its lookup holds an open invitation or the invitation
  is stale; `MarkingInv` that between the membership and the mark exactly one acceptance has used it;
  `ClosedOnceUsed` that a used one is closed unless an acceptance broke off; `ImplementsTicket` follows step by step.
* `Tenancy`: `Tasks` ties each unit to the connection it holds and to how far its transaction is;
  `Connections` says a free connection is clean, and that uncommitted writes are of the organization
  whose transaction it is. Confinement of reads follows from the setting being one's own. `Refusals` says which rows a
  service was ever refused; `OnlyWithOrg` (theorem `ServicesAreBound`) needs it and that no connection keeps a setting for the service that comes next.

* `Delivery`: `BootInv` ties the queues to the workers attached so far, so that whoever can send finds
  its queue; `WorkInv` says a worker runs an active job of its own queue, so two workers never hold one job; `HeardInv`
  is the account: a job none of whose effects went unheard has had one if it is completed or its worker is about to say so, and none otherwise;
  `ShutInv` carries what the shutdown has seen quiet to the stages after.
* `ControlPlane`: `BootInv` says what each loop has read and that none of it was bad, from which a refusal means a bad manifest and
  serving means none; what the roles then hold follows from the functions of `Authz` alone (`RolesGrow`: a larger catalog only adds).
  `AuditInv` says that a pair no write spoiled is recorded as it is stored, or has exactly one write between the two statements.

* `Accounts`: what a request has read is a fact about the past, so `Fine` says of each request in flight what it may still rely on, or
  that it has been `crossed`: one about to write a slug (`ClaimOK`) finds nobody but its own organization under it, one that listed memberships (`ListOK`) has
  listed those of now. `Spares` is the frame of a write, and `FineNoted` says whoever a write does not spare has been told of it. `RowsInv` (no slug twice) is
  what the unique index keeps, and both `OnlyByOverlap` and `MeOffers` need it.
* `Access`: `CallOK` is the heart: an answer on its way that says success has behind it what it will claim (a revocation told of, a list
  without what was ended, a form's deed in `done`). `TrailOK` says the trail lacks a password's session only while the audit hook of that session is still to write; `PanelOK` that
  while sessions are being revoked no list is due unless one was overtaken. "A confirmation stands" alone is not inductive: the confirmation is made long before, by the call.
* `Screens`: `Shows` relates an entry to the change its reader saw acknowledged. It is inductive only with the fetches under way, one of which may have read before
  that change: then its query is in `overtaken`. `ChangeOK` is what makes the acknowledgement enough: a change refreshes *every* query of its table (lemma `UsesRefresh`, screen by screen),
  and `SeenOK` that nobody saw more than there is. `ShapesOK` relates the shape of an entry to the screen that will read it: what is of another shape is in `borrowed` until a fetch of the open screen's own has ended. The mutant of the run drops exactly that.
* `Console`: `AnswerOK` says what an answer to a slug may name as active, `WaitOK` which query the gate waits for. Neither says what a page acts for
  while the router is ahead of the gate, after a redirect or a link: `ActingOK` does, with the active organization of the answer for the address that was left (`ActsFor`), unless the tab is `astray`. `BesideOK` is what makes the
  way back safe before that: as long as the gate has not rendered since, every page beside the one shown is of the organization it asked for, or of none, and the gate's answer is still good for it.
  `IndexOK` (at the root nothing else is cached) is what makes the redirect from there safe. `PromiseOK` says a promise is kept by what is cached *and* by what the server would answer now, and
  `SameAnswer` that asking again brings the same answer, so that a refetch cannot send a promised page elsewhere.
* The mixes: `MixedTypeCorrect` in `PlatformProofs` and `WebProofs` shows that a step of the mix that TLC explores is a step of one module that leaves the other
  alone, and keeps the types of both.

Only model-checked: the liveness properties (`PublishedReachesShelf`, `Served`, `Settled` of `delivery`, `Settles`) and everything about
fairness, which is out of the prover's reach. Every invariant and every action property of a passing run is a theorem. The other way round, some
theorems state what no run checks: the type invariants of `Tenancy` and `Delivery`, `NoSettingLeft`, `CompletedIsSent`, `PersonalOrgIsSolo`, `AuditNamesRealChanges`,
`RowsReferenced`, `ClosedStaysClosed` and the inductive invariants hold for every instance, so no small one is spent on them.
The inductive invariants were model-checked on the same instances before they were proved (that of `Access` with two calls under way); the
configurations list the properties only. Nothing in these modules is defined by recursion, so no theorem needs induction over data;
sums and counts appear as variables (`made`, `changes`) and as cardinalities.

## 5. Hazards

The list in `PROJECT.json` names, by line, what tests hardly reach here. It is dominated
by one pattern: *read, await, write what the read allowed*, with no lock, no transaction and no
constraint behind it. The others are failures between two statements that belong together,
and calls that are legal one by one and reach a state the comments say cannot be. In the tab the pattern returns
as *render, fetch, render what came*: an answer is shown under an address, a filter or a form it was not asked for.

## 6. Plan

1. `OrgMembers` with `OwnedOrg`: done.
2. `Publishing`: done.
3. `Invitations` with `Ticket`: done.
4. `Tenancy`: done.
5. `Delivery`: done.
6. `Authz` and `ControlPlane`: done.
7. `Accounts` (identity hooks, slugs, sessions): done.
8. `Console` and `Screens` (the web application's session, routes and cache): done.
9. `Access` (account screens and `/api/auth`): done.

Theorems: all nine state machines have their type invariant, an inductive invariant and every safety property proved.

Still worth writing: an abstract specification of a sign-in session (begins once, ends for good, is recorded), which `Access` would refine as
`Invitations` refines `Ticket`.

## 7. Where the code and its documents disagree

Each of these was met while modelling and has a run with `expect: violation` that shows it.

* `members.ts` 3-4 says the at-least-one-owner invariant blocks every change that would break it: two overlapping changes pass (`org_owner_race`).
* A deleted space leaves its published notes on the shelf, out of every route's reach, while `task.service.ts` 234 says a deleted note must leave it (`publishing_space_gone`).
* An author who may not publish creates a note as published and shelves it by editing it, while `schema.ts` 60 says only publish inserts (`publishing_by_edit`).

The following are in the models too. A passing run names the race or the failure each needs, as the
excuse in a property, and holds outside it.

* `specs/design/data-models.md` 146 declares a unique index on (organization, user) that no migration creates: two overlapping additions leave two rows, and so does better-auth's acceptance by somebody an administrator has added since the invitation (the excuses of `DuplicateOnlyUnchecked`).
* `orgs/members.ts` 180-186 says a created account's set-password onboarding is triggered: an address typed with capitals is stored as typed (`members.ts` 192 and 202), the library's reset looks it up lowered, finds nobody and answers success, and no mail goes out (the excuse in `CreatedAccountsAreOnboarded`). The person may then sign up under the lowered address, as a second account.
* A withdrawal between the two transactions of a publication leaves a draft on the shelf, while `schema.ts` 59 says drafts never reach it (`torn`, in `ShelfShowsCurrent`).
* Overlapping creations exceed the note limit (`overran`, in `CapUnlessOverran`).
* An acceptance that breaks off between its two writes leaves a used invitation pending, and it admits again (`torn`, in `SingleUse`); two overlapping creations leave two pending invitations for one address (`doubled`, in `OnePendingPerAddress`).
* An accepted invitation can be revoked, since `canRevoke` has no caller in the handler (`Revoke` has no such guard), and a member can be invited, while `api-contracts.md` 335 says 409 (creation never looks at the members).
* A note created as published has no `published_at`, while `schema.ts` 42 says it is set when the note is published (`InsertNote`).
* An expired invitation stays pending and keeps its address from being invited, since the sweep's body is a TODO, while `specs/design/data-models.md` 170 says the sweep flips it; neither
  sweep is ever scheduled either (`Invitations` has no such action, in `Delivery` their queues stay empty).
* The export's retry policy (`ref/manifest.ts` 35-38, three retries with backoff) is never passed to the queue, while `export.job.ts` 82-83 says it is applied when the platform wires the worker: the default decides (`RetryLimit`).
* `specs/design/deployment.md` 109 lets running handlers finish before the queue stops; `stop` gives them the library's default time and then fails their jobs, which run again (`StopForced`), and 111's hard timeout is not in `shutdown.ts`.
* Under `app_runtime` the policy refuses the audit writer its organization rows, while `0001_rls_backstop_policies.sql` 19 says it is never blocked (`ServiceWrite`; `OnlyWithOrg` says what is refused under which login).
* `screens/settings-org/members.screen.tsx` 7-8 says the list is refreshed on success; it and the tasks screen keep differently shaped data under one query key, so that whichever opens second within 30 s shows nothing or crashes (`ShapeFor`, `Unrenderable`; `borrowed`, in `OwnChangesShow`), the members screen saying "No members yet" (88) over the rows, and a refresh that joins an older fetch ends with the older list (`overtaken`, in `OwnChangesShow`). The library and the audit log are never invalidated.
* `orgs/deps.ts` 30-35 and `api-contracts.md` 183-184 let a signed-in invitee accept; `redirectIfAuthed` keeps the page to those who are signed out (`Redirects`).
* The page of an organization is gated by the permissions of whatever organization the gate asked for last: the gate reads the address when it renders (`use-session.ts`, `app.tsx`), and going back or
  forward within the document does not render it. From `/o/B` by the link to create an organization, a refetch that brings news, and back: B's page, under the permissions of the organization the server calls active (`astray`, in `ShellActsForItsOrg`).
* `packages/platform-identity/src/better-auth/auth.ts` 246-247 and `orgs/personal-org.ts` 5-7 say the personal organization is made in the transaction of the sign-up; it is made by a transaction of its own after the account's, and may be missing (`hookFailed`, in `AccountsAreComplete`).
* A failed refetch of a good session counts as signed out, as does the 400 for a malformed slug in the address (`Failed`, `Outcomes`); a rename leaves links with the old slug until the session is fetched again (the excuse in `promised`); GET /api/me lists soft-deleted organizations (`Memberships`).
* With personal accounts an account an administrator made has no personal organization, so its home has none either (`created`, in `AccountsAreComplete`); a module's role has no permission of the organization routes (`permissionsForOrgRole`); the link to create an organization is shown to everybody while the capability is on.
* `sign-up.screen.tsx`, `forgot-password.screen.tsx` and `reset-password.screen.tsx` confirm "on success": while a retry after a failure is under way the confirmation is already shown (`Confirms`; `ScreensTellTruth` speaks of a form with nothing pending).
* `verify-email.screen.tsx` 21 and 68 say a session is established and the person signed in; nothing configures that (`ServeVerifyEmail`). `reset-password.screen.tsx` 42 and 76 say other sessions are invalidated; nothing configures that either (`ServeOther`).
* `SPEC.md` 336 audits password resets; `resolveAuthEvent` knows sign-in and sign-out by password only, so sign-ins by Google or a link leave no row (`EnterByLink`). A row that cannot be written leaves a session of a password that nothing records (`unaudited`, in `TrailTellsTruth`).
* Changing the password with "sign out other sessions" does not reload the list beside it (`Reloaded`), and the resend on the sign-in screen clears the error without a word (`Settled`).
* An admin may promote to owner through PATCH, although `members.ts` 26-27 and `invariants.ts` 12 say ownership moves by transfer only; acceptance does not look at `organization.deleted_at`, nor does the reference module's authorization.

## 8. Not modelled

better-auth, Fastify, TanStack Query and Router, pg-boss and PostgreSQL are libraries and services: they are modelled only as this
code uses them, and so are the browser and other devices. The UI kit, what screens draw, the static file server, contracts, configuration merging, seeding and migration have no
interleaving and no state of their own that outlives a call. Paging and filters of the audit viewer, the linked accounts panel, argument parsing and printing of the
operator's CLI, mail rendering and the CSV of the export are conversions no property is about. The membership lookup of the tenancy package has no caller in the program. Renaming a space is one statement on a name no decision reads. The rate limiter's counters are a
library's: `Access` only knows that a budget may be spent.

The web application accepts an invitation through better-auth's `/organization/accept-invitation` (`auth-client.ts` 218-219; the plugin is in `auth.ts`,
its routes are mounted by the wildcard of `plugins/auth.ts` 77). Its insert into the member table is `Join` in `OrgMembers`; what it does to the invitation row, which as
the library is known it marks before the insert, is not in `Invitations`: single use, the hold of a revocation and the refinement of `Ticket` are about
`orgs/invitations.ts` and the operator's resend. The plugin mounts more endpoints that write members and invitations (invite, remove a member,
update a role, leave). Nothing under `src/` calls them, and they are left out, as is the plugin's limit on the members of an organization.

In `Console` a page that the browser keeps alive across documents (bfcache) is left out: going back to another document loads it.
