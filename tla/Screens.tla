------------------------------- MODULE Screens -------------------------------
(***************************************************************************)
(* The screens of one organization in one browser tab and the query cache  *)
(* they share: what each reads, what each changes, and what is fetched     *)
(* again after a change (apps/web/src/screens/settings-org,                *)
(* modules/reference-workspace/web).  A table of the server is the number  *)
(* of changes it has seen.                                                 *)
(*                                                                         *)
(* TanStack Query: mounting fetches an entry that has no data or is        *)
(* invalidated; an observed entry may be fetched again at any time (30 s   *)
(* stale and mounted, or reconnected); invalidation marks an entry and     *)
(* fetches it again if it is observed, and in both cases a fetch under way *)
(* that nothing cancels is joined and its result ends the invalidation.    *)
(***************************************************************************)
EXTENDS Naturals, FiniteSets

CONSTANTS
  Tabs,        \* sets of screens a person goes between
  Filters,     \* the filters a person uses
  MaxMade      \* bound: changes made, to all tables together

Screen == {"members", "invitations", "workspaces", "tasks", "library", "note", "roles", "audit"}
Filter == {"all", "draft", "published"}

ASSUME Bounds ==
  Tabs \subseteq SUBSET Screen /\ Filters \subseteq Filter /\ MaxMade \in Nat

VARIABLES
  visited,   \* the screens this person goes between
  open,      \* the screen shown, "none", or "crashed": the router's error surface
  filter,    \* the tasks screen's
  table,     \* the server
  made,      \* changes made to any table, for the bound
  entry,     \* the query cache
  change,    \* the change under way
  seen,      \* history: the table as of the person's last acknowledged change to it
  overtaken, \* history: a fetch that read before such a change was joined by its refresh
  borrowed   \* history: what the screen opened on was fetched, or being fetched, for a screen
             \* that reads it in another shape, and no fetch of its own has come since

screensVars == <<visited, open, filter, table, made, entry, change, seen, overtaken, borrowed>>

-----------------------------------------------------------------------------
\* The screens: the queries they read, the table their mutations change and the
\* queries their onSuccess invalidates.

\* mutant: only the list that is shown is refreshed
OwnListTasksScreen(f) ==
  [reads |-> {f, "members"}, changes |-> {"tasks"}, refreshed |-> {f}]

MembersScreen == [reads |-> {"members"}, changes |-> {"members"}, refreshed |-> {"members"}]
InvitationsScreen ==
  [reads |-> {"invitations"}, changes |-> {"invitations"}, refreshed |-> {"invitations"}]
WorkspacesScreen ==
  [reads |-> {"workspaces"}, changes |-> {"workspaces"}, refreshed |-> {"workspaces"}]

\* invalidated by prefix: the lists of all filters
TasksScreen(f) == [reads |-> {f, "members"}, changes |-> {"tasks"}, refreshed |-> Filter]

LibraryScreen == [reads |-> {"library"}, changes |-> {}, refreshed |-> {}]

\* a note of the library, opened: a like refreshes the detail, a comment the comments
NoteEngagement(t) ==
  [reads |-> {"library", "detail", "comments"}, changes |-> {t}, refreshed |-> {t}]

RolesView == [reads |-> {"roles"}, changes |-> {}, refreshed |-> {}]
AuditLogViewer == [reads |-> {"audit"}, changes |-> {}, refreshed |-> {}]

\* a screen as it may be used
Uses(s) ==
  CASE s = "members"     -> {MembersScreen}
    [] s = "invitations" -> {InvitationsScreen}
    [] s = "workspaces"  -> {WorkspacesScreen}
    [] s = "tasks"       -> {TasksScreen(filter)}
    [] s = "library"     -> {LibraryScreen}
    [] s = "note"        -> {NoteEngagement(t) : t \in {"detail", "comments"}}
    [] s = "roles"       -> {RolesView}
    [] s = "audit"       -> {AuditLogViewer}
    [] OTHER             -> {}

Reads(s) == UNION {u.reads : u \in Uses(s)}
Observed == Reads(open)

Query == Filter \cup {"members", "invitations", "workspaces", "library", "detail", "comments",
                      "roles", "audit"}
Table == (Query \ Filter) \cup {"tasks"}
TableOf(q) == IF q \in Filter THEN "tasks" ELSE q

\* what the query function of the screen makes of the answer: the members
\* screen keeps the page, the tasks screen its rows, under one key
ShapeFor(s) == IF s = "tasks" THEN "rows" ELSE "page"

-----------------------------------------------------------------------------
Unread == MaxMade + 1
NoEntry == [at |-> Unread, shape |-> "page", invalid |-> FALSE,
           fetch |-> "none", read |-> Unread, fetchShape |-> "page"]
QueryEntry == [at : 0..Unread, shape : {"page", "rows"}, invalid : BOOLEAN,
          fetch : {"none", "sent", "read"}, read : 0..Unread, fetchShape : {"page", "rows"}]
NoChange == [stage |-> "none", refreshed |-> {}, to |-> "tasks", at |-> Unread]

ScreensTypeOK ==
  /\ visited \in Tabs
  /\ open \in Screen \cup {"none", "crashed"}
  /\ filter \in Filter
  /\ table \in [Table -> 0..MaxMade]
  /\ made \in 0..MaxMade
  /\ entry \in [Query -> QueryEntry]
  /\ change \in [stage : {"none", "sent", "applied"}, refreshed : SUBSET Query, to : Table,
                 at : 0..Unread]
  /\ seen \in [Query -> 0..MaxMade]
  /\ overtaken \in SUBSET Query
  /\ borrowed \in SUBSET Query

HasData(e) == e.at # Unread

\* a fetch begins, whatever was under way being cancelled
Sent(e, s) == [e EXCEPT !.fetch = "sent", !.read = Unread, !.fetchShape = ShapeFor(s)]

\* an entry a screen s mounts on
MountedOn(e, s) ==
  IF e.fetch = "none" /\ (~HasData(e) \/ e.invalid) THEN Sent(e, s) ELSE e

\* s is what is shown; the tasks screen cannot render what the members screen
\* left under their key, and nothing mounts
Unrenderable(s, e) == s = "tasks" /\ HasData(e["members"]) /\ e["members"].shape = "page"

\* an entry holds, or awaits, what another screen than s can read
ForAnother(e, s) ==
  \/ HasData(e) /\ e.shape # ShapeFor(s)
  \/ e.fetch # "none" /\ e.fetchShape # ShapeFor(s)

Mount(s, f) ==
  LET reads == IF s = "tasks" THEN {f, "members"} ELSE Reads(s) IN
  IF Unrenderable(s, entry) THEN open' = "crashed" /\ borrowed' = {} /\ UNCHANGED entry
  ELSE /\ open' = s
       /\ entry' = [q \in Query |-> IF q \in reads THEN MountedOn(entry[q], s) ELSE entry[q]]
       /\ borrowed' = {q \in reads : ForAnother(entry'[q], s)}

ScreensInit ==
  /\ visited \in Tabs
  /\ open = "none"
  /\ filter = "draft"
  /\ table = [t \in Table |-> 0]
  /\ made = 0
  /\ entry = [q \in Query |-> NoEntry]
  /\ change = NoChange
  /\ seen = [q \in Query |-> 0]
  /\ overtaken = {}
  /\ borrowed = {}

\* the router shows a screen; the filter is the tasks screen's own state
Open(s) ==
  /\ s \in visited
  /\ open # s
  /\ filter' = "draft"
  /\ Mount(s, "draft")
  /\ UNCHANGED <<visited, table, made, change, seen, overtaken>>

SetFilter(f) ==
  /\ open = "tasks"
  /\ f # filter
  /\ filter' = f
  /\ Mount("tasks", f)
  /\ UNCHANGED <<visited, table, made, change, seen, overtaken>>

\* an entry nothing observes is collected after a while
Collect(q) ==
  /\ q \notin Observed
  /\ entry[q].fetch = "none"
  /\ HasData(entry[q])
  /\ entry' = [entry EXCEPT ![q] = NoEntry]
  /\ UNCHANGED <<visited, open, filter, table, made, change, seen, overtaken, borrowed>>

-----------------------------------------------------------------------------
\* Reading

RefetchQuery(q) ==
  /\ q \in Observed
  /\ entry[q].fetch = "none"
  /\ entry' = [entry EXCEPT ![q] = Sent(entry[q], open)]
  /\ UNCHANGED <<visited, open, filter, table, made, change, seen, overtaken, borrowed>>

\* the server reads for the answer
Serve(q) ==
  /\ entry[q].fetch = "sent"
  /\ entry' = [entry EXCEPT ![q].fetch = "read", ![q].read = table[TableOf(q)]]
  /\ UNCHANGED <<visited, open, filter, table, made, change, seen, overtaken, borrowed>>

Arrive(q) ==
  LET e == entry[q] IN
  /\ e.fetch = "read"
  /\ entry' = [entry EXCEPT ![q] = [NoEntry EXCEPT !.at = e.read, !.shape = e.fetchShape]]
  /\ open' = IF Unrenderable(open, entry') THEN "crashed" ELSE open
  /\ overtaken' = IF e.read < seen[q] THEN overtaken ELSE overtaken \ {q}
  /\ borrowed' = IF e.fetchShape = ShapeFor(open) THEN borrowed \ {q} ELSE borrowed
  /\ UNCHANGED <<visited, filter, table, made, change, seen>>

\* refused, or lost, twice: the entry keeps what it has
FailFetch(q) ==
  /\ entry[q].fetch # "none"
  /\ entry' = [entry EXCEPT ![q].fetch = "none", ![q].read = Unread, ![q].fetchShape = "page"]
  /\ UNCHANGED <<visited, open, filter, table, made, change, seen, overtaken, borrowed>>

-----------------------------------------------------------------------------
\* Changing

Submit ==
  /\ change = NoChange
  /\ \E u \in Uses(open), t \in Table :
       /\ t \in u.changes
       /\ change' = [stage |-> "sent", refreshed |-> u.refreshed, to |-> t, at |-> Unread]
  /\ UNCHANGED <<visited, open, filter, table, made, entry, seen, overtaken, borrowed>>

Apply ==
  /\ change.stage = "sent"
  /\ made < MaxMade
  /\ made' = made + 1
  /\ table' = [table EXCEPT ![change.to] = @ + 1]
  /\ change' = [change EXCEPT !.stage = "applied", !.at = table'[change.to]]
  /\ UNCHANGED <<visited, open, filter, entry, seen, overtaken, borrowed>>

\* refused, or its answer is lost: nothing is refreshed
FailChange ==
  /\ change # NoChange
  /\ change' = NoChange
  /\ UNCHANGED <<visited, open, filter, table, made, entry, seen, overtaken, borrowed>>

\* invalidateQueries: an observed entry is fetched again, cancelling a fetch
\* under way if there is data; a first fetch is joined
invalidateQueries(qs) ==
  entry' = [q \in Query |->
    LET e == [entry[q] EXCEPT !.invalid = TRUE] IN
    IF q \notin qs \/ entry[q] = NoEntry THEN entry[q]
    ELSE IF q \in Observed /\ (e.fetch = "none" \/ HasData(e)) THEN Sent(e, open) ELSE e]

\* mutant: when it was sent
Sending == change.stage # "none"

\* when onSuccess runs
Succeeded == change.stage = "applied"

\* the answer: onSuccess, also of a screen that was left
Acknowledge ==
  /\ Succeeded
  /\ change' = NoChange
  /\ invalidateQueries(change.refreshed)
  /\ seen' = [q \in Query |-> IF TableOf(q) = change.to THEN change.at ELSE seen[q]]
  /\ overtaken' = overtaken
       \cup {q \in change.refreshed : entry'[q].fetch = "read" /\ entry'[q].read < seen'[q]}
  /\ UNCHANGED <<visited, open, filter, table, made, borrowed>>

\* somebody else
SomebodyElse(t) ==
  /\ t \in {TableOf(q) : q \in UNION {Reads(s) : s \in visited}}
  /\ made < MaxMade
  /\ made' = made + 1
  /\ table' = [table EXCEPT ![t] = @ + 1]
  /\ UNCHANGED <<visited, open, filter, entry, change, seen, overtaken, borrowed>>

ScreensNext ==
  \/ \E s \in Screen : Open(s)
  \/ \E f \in Filters : SetFilter(f)
  \/ \E q \in Query : Collect(q) \/ RefetchQuery(q) \/ Serve(q) \/ Arrive(q) \/ FailFetch(q)
  \/ Submit \/ Apply \/ FailChange \/ Acknowledge
  \/ \E t \in Table : SomebodyElse(t)

ScreensSpec == ScreensInit /\ [][ScreensNext]_screensVars

-----------------------------------------------------------------------------
\* Once a person's change is acknowledged, every list it touches shows it, or
\* something later, whenever it is shown and at rest: on the screen it was made
\* from, under the other filters, and on a screen opened since, also when a
\* refresh failed in between or the answer came after the screen was left.  Shown
\* means held in the shape the screen reads.  The exceptions: a refresh that
\* joined a first fetch that had read too early; and, in shape alone, a screen
\* opened on what the other screen of the same key fetched, until an answer to
\* a fetch of its own has come (members.screen.tsx, invitations.screen.tsx,
\* workspaces.screen.tsx, tasks.screen.tsx, library.screen.tsx: refresh).
OwnChangesShow ==
  \A q \in Observed :
    LET e == entry[q] IN
    e.fetch = "none" /\ HasData(e) /\ ~e.invalid =>
      /\ q \notin overtaken => e.at >= seen[q]
      /\ q \notin borrowed => e.shape = ShapeFor(open)

=============================================================================
