------------------------------- MODULE Tenancy -------------------------------
(***************************************************************************)
(* Tenant isolation: withOrg transactions over a pool of shared            *)
(* connections, the row-level-security policies behind them, and the       *)
(* platform services (audit writer, entitlement overrides) that use the    *)
(* same tables outside withOrg.  (packages/platform-tenancy,               *)
(* packages/platform-db/drizzle/0001_rls_backstop_policies.sql)            *)
(*                                                                         *)
(* A row is only its table and its organization: what the policies and     *)
(* the filters of the queries tell apart.  An action is one message to     *)
(* the database; transactions see what others have committed.              *)
(***************************************************************************)
EXTENDS Naturals, FiniteSets

CONSTANTS
  Org,        \* organizations
  None,       \* no organization, no connection, or a setting that is unset
  Conn,       \* the connections of the pg pool
  Task,       \* the units of work in flight, each in need of a connection
  Tables,     \* the tenant tables in play, space and note alike
  Logins      \* the login roles deployed: "owner" (bypasses RLS) or "app_runtime"

ASSUME NoneFresh == None \notin Org \cup Conn \cup Task
ASSUME TenantTables == Tables \subseteq {"note", "entitlement_override", "audit_log"}
ASSUME LoginRoles == Logins \subseteq {"owner", "app_runtime"}

VARIABLES
  login,     \* the login role of the pool, as DATABASE_URL of this deployment has it
  rows,      \* the committed rows of the tenant tables
  conn,      \* the state of each connection
  task,      \* the units of work
  refused    \* history: the rows a service was refused

vars == <<login, rows, conn, task, refused>>

\* audit_log alone has rows of no organization.
Row == [table : Tables, org : Org] \cup [table : Tables \cap {"audit_log"}, org : {None}]

ConnState ==
  [by : Task \cup {None},       \* who has it checked out
   open : BOOLEAN,              \* inside a transaction
   local : Org \cup {None},     \* app.org_id as set for the transaction
   session : Org \cup {None},   \* app.org_id as set for the session
   added : SUBSET Row, removed : SUBSET Row]   \* written and not committed yet

Clean == [by |-> None, open |-> FALSE, local |-> None, session |-> None,
          added |-> {}, removed |-> {}]

TaskState ==
  [pc : {"idle", "waiting", "begin", "scope", "run", "service"},
   scoped : BOOLEAN,            \* withOrg, or a service outside it
   org : Org \cup {None},       \* the organization it works for
   conn : Conn \cup {None},
   got : SUBSET Row]            \* the rows its statements have returned

Rest == [pc |-> "idle", scoped |-> FALSE, org |-> None, conn |-> None, got |-> {}]

TypeOK ==
  /\ login \in Logins
  /\ rows \in SUBSET Row
  /\ conn \in [Conn -> ConnState]
  /\ task \in [Task -> TaskState]
  /\ \A t \in Task : task[t].scoped => task[t].org \in Org
  /\ refused \in SUBSET Row

-----------------------------------------------------------------------------
\* current_setting('app.org_id', true): NULL, or after a transaction the empty string,
\* which no organization's id equals either
Setting(c) == IF conn[c].local # None THEN conn[c].local ELSE conn[c].session

\* mutant: the audit_log policy without its match on the organization
PermitsNullOnly(c, row) ==
  \/ login = "owner"
  \/ row.table = "audit_log"
  \/ row.org \in Org /\ row.org = Setting(c)

\* orgScopePredicate, the USING and WITH CHECK clause of every policy
Permits(c, row) ==
  \/ login = "owner"
  \/ row.table = "audit_log" /\ row.org = None
  \/ row.org \in Org /\ row.org = Setting(c)

\* What a statement on c can see, its own transaction's writes included
Seen(c) == {x \in (rows \ conn[c].removed) \cup conn[c].added : Permits(c, x)}

\* mutant: the repositories rely on the policies alone
FilterNothing(t, x) == TRUE

\* The WHERE clause of a repository query.  Under the policies it may be forgotten: they are
\* the backstop for that, which the owner's login does without.
Filter(t, x) == login = "app_runtime" \/ x.org = task[t].org

Goto(t, step) == task' = [task EXCEPT ![t].pc = step]

\* The task ends and its connection goes back to the pool as it is.
Release(t) ==
  /\ task' = [task EXCEPT ![t] = Rest]
  /\ conn' = [conn EXCEPT ![task[t].conn] = [@ EXCEPT !.by = None, !.open = FALSE,
                                             !.local = None, !.added = {}, !.removed = {}]]

-----------------------------------------------------------------------------
Init ==
  /\ login \in Logins
  /\ rows = [table : Tables, org : Org]
  /\ conn = [c \in Conn |-> Clean]
  /\ task = [t \in Task |-> Rest]
  /\ refused = {}

\* A repository call for a member's organization, or a service's: for an organization,
\* or for none (an authentication event)
Arrive(t) ==
  /\ task[t].pc = "idle"
  /\ \E scoped \in BOOLEAN, o \in Org \cup {None} :
       /\ scoped => o \in Org
       /\ task' = [task EXCEPT ![t] = [Rest EXCEPT !.pc = "waiting", !.scoped = scoped,
                                                   !.org = o]]
  /\ UNCHANGED <<login, rows, conn, refused>>

\* pool.connect, which waits for as long as every connection is checked out
Acquire(t) ==
  /\ task[t].pc = "waiting"
  /\ \E c \in Conn :
       /\ conn[c].by = None
       /\ conn' = [conn EXCEPT ![c].by = t]
       /\ task' = [task EXCEPT ![t] = [@ EXCEPT !.conn = c, !.pc =
                     IF task[t].scoped THEN "begin" ELSE "service"]]
  /\ UNCHANGED <<login, rows, refused>>

BeginTx(t) ==
  /\ task[t].pc = "begin"
  /\ conn' = [conn EXCEPT ![task[t].conn].open = TRUE]
  /\ Goto(t, "scope")
  /\ UNCHANGED <<login, rows, refused>>

\* mutant: set_config('app.org_id', orgId, false), for the session
SetConfigForSession(t) ==
  /\ task[t].pc = "scope"
  /\ conn' = [conn EXCEPT ![task[t].conn].session = task[t].org]
  /\ Goto(t, "run")
  /\ UNCHANGED <<login, rows, refused>>

\* set_config('app.org_id', orgId, true): local to the transaction
SetConfig(t) ==
  /\ task[t].pc = "scope"
  /\ conn' = [conn EXCEPT ![task[t].conn].local = task[t].org]
  /\ Goto(t, "run")
  /\ UNCHANGED <<login, rows, refused>>

\* A connection on which these writes wait for the commit
Pending(k, added, removed) == [k EXCEPT !.added = added, !.removed = removed]

\* The statements of the callback.  An update keeps a row's organization and shows it, as a
\* select does.
Select(t) ==
  /\ task[t].pc = "run"
  /\ \E table \in Tables :
       task' = [task EXCEPT ![t].got =
         @ \cup {x \in Seen(task[t].conn) : x.table = table /\ Filter(t, x)}]
  /\ UNCHANGED <<login, rows, conn, refused>>

\* A row the policy's WITH CHECK refuses aborts the transaction.
Insert(t) ==
  /\ task[t].pc = "run"
  /\ \E x \in Row :
       /\ Filter(t, x)
       /\ IF Permits(task[t].conn, x)
            THEN /\ conn' = [conn EXCEPT ![task[t].conn] =
                       Pending(@, @.added \cup {x}, @.removed \ {x})]
                 /\ UNCHANGED task
            ELSE Release(t)
  /\ UNCHANGED <<login, rows, refused>>

Delete(t) ==
  /\ task[t].pc = "run"
  /\ \E x \in Seen(task[t].conn) :
       /\ Filter(t, x)
       /\ conn' = [conn EXCEPT ![task[t].conn] =
            Pending(@, @.added \ {x}, @.removed \cup {x})]
  /\ UNCHANGED <<login, rows, task, refused>>

\* mutant: the client begins its next transaction before it is released
CommitChained(t) ==
  /\ task[t].pc = "run"
  /\ rows' = (rows \ conn[task[t].conn].removed) \cup conn[task[t].conn].added
  /\ conn' = [conn EXCEPT ![task[t].conn] = [@ EXCEPT !.added = {}, !.removed = {}]]
  /\ UNCHANGED <<login, task, refused>>

Commit(t) ==
  /\ task[t].pc = "run"
  /\ rows' = (rows \ conn[task[t].conn].removed) \cup conn[task[t].conn].added
  /\ Release(t)
  /\ UNCHANGED <<login, refused>>

\* The callback throws, or the connection is lost and replaced by a fresh one.
Rollback(t) ==
  /\ task[t].pc \in {"begin", "scope", "run", "service"}
  /\ \/ Release(t)
     \/ /\ task' = [task EXCEPT ![t] = Rest]
        /\ conn' = [conn EXCEPT ![task[t].conn] = Clean]
  /\ UNCHANGED <<login, rows, refused>>

\* A service's one statement, autocommitted: an override read or written, an audit row
\* appended or a page of them read.  It names the organization it is about.
ServiceRead(t) ==
  /\ task[t].pc = "service" /\ task[t].org \in Org
  /\ \E table \in Tables \ {"note"} :
       task' = [task EXCEPT ![t].got =
         @ \cup {x \in Seen(task[t].conn) : x.table = table /\ x.org = task[t].org}]
  /\ UNCHANGED <<login, rows, conn, refused>>

ServiceWrite(t) ==
  /\ task[t].pc = "service"
  /\ \E x \in {y \in Row : y.table # "note" /\ y.org = task[t].org} :
       IF Permits(task[t].conn, x)
         THEN rows' = rows \cup {x} /\ UNCHANGED refused
         ELSE refused' = refused \cup {x} /\ UNCHANGED rows
  /\ Release(t)
  /\ UNCHANGED login

-----------------------------------------------------------------------------
Work(t) ==
  \/ BeginTx(t) \/ SetConfig(t) \/ Commit(t) \/ Rollback(t) \/ ServiceWrite(t)

Next ==
  \E t \in Task :
    Arrive(t) \/ Acquire(t) \/ Work(t) \/ Select(t) \/ Insert(t) \/ Delete(t) \/ ServiceRead(t)

Spec == Init /\ [][Next]_vars

\* Callbacks end, and the pool serves its waiting callers in turn.
FairSpec == Spec /\ \A t \in Task : WF_vars(Work(t)) /\ SF_vars(Acquire(t))

-----------------------------------------------------------------------------
\* Tenant isolation (rls.ts): a unit of work is only ever shown rows of its organization,
\* or an audit row of none, whatever its queries ask for and whoever had its connection
\* before.
ReadsConfined ==
  \A t \in Task : \A x \in task[t].got : x.org \in {task[t].org, None}

\* A committed row appears or goes only by work for its own organization; an audit row of
\* none also by the services.
WritesConfined ==
  [][\A x \in (rows' \ rows) \cup (rows \ rows') :
       x.org \in Org => \E t \in Task : task[t].pc \in {"run", "service"} /\ task[t].org = x.org
                                        /\ task'[t].pc = "idle"]_vars

\* The setting does not outlive its transaction ("it cannot leak to another tenant on a
\* shared connection", with-org.ts): outside one no connection has an organization.
NoSettingLeft == \A c \in Conn : ~conn[c].open => Setting(c) = None

\* withOrg: a transaction's statements run with its own organization set.
SettingIsOwn ==
  \A t \in Task : task[t].pc = "run" => Setting(task[t].conn) = task[t].org

\* What the services reach outside withOrg is decided by the login alone, never by what ran
\* on their connection before.  Under the policies withOrg is "the single sanctioned path"
\* (with-org.ts): an organization's row appears or goes only as a withOrg transaction of that
\* organization commits, and a service is shown none; and nothing but that is refused, so
\* that with the owner's login every write of a service is made, and an audit row of no
\* organization under either (writer.ts, check.ts, 0001_rls_backstop_policies.sql).
OnlyWithOrg ==
  [][/\ login = "app_runtime" =>
          /\ \A x \in (rows' \ rows) \cup (rows \ rows') :
               x.org \in Org => \E t \in Task : task[t].pc = "run" /\ task[t].org = x.org
                                                /\ task'[t].pc = "idle"
          /\ \A t \in Task : task'[t].pc = "service" => task'[t].got = {}
     /\ \A x \in refused' : login = "app_runtime" /\ x.org \in Org]_vars

\* Everyone who waits for a connection gets one: no unit of work holds a connection while
\* it waits for another.
Served == \A t \in Task : task[t].pc = "waiting" ~> task[t].pc # "waiting"

-----------------------------------------------------------------------------
\* The inductive invariant

\* A connection is held by the task that holds it, and is at the step the task is at.
Holding(t) ==
  LET c == task[t].conn IN
  IF task[t].pc \in {"idle", "waiting"} THEN c = None
  ELSE /\ c \in Conn
       /\ conn[c].by = t
       /\ conn[c].open <=> task[t].pc \in {"scope", "run"}
       /\ conn[c].local = IF task[t].pc = "run" THEN task[t].org ELSE None
       /\ task[t].scoped <=> task[t].pc # "service"

Tasks == \A t \in Task : Holding(t)

\* What lies on a connection is of the organization whose transaction it is in.
Connections ==
  \A c \in Conn :
    /\ conn[c].session = None
    /\ conn[c].by = None => conn[c] = Clean
    /\ conn[c].by # None => task[conn[c].by].conn = c
    /\ conn[c].added \cup conn[c].removed # {} => conn[c].local # None
    /\ \A x \in conn[c].added \cup conn[c].removed : x.org \in {conn[c].local, None}

\* The policies refuse a service the organizations' rows, and nothing else.
Refusals ==
  /\ \A x \in refused : login = "app_runtime" /\ x.org \in Org
  /\ login = "app_runtime" => \A t \in Task : ~task[t].scoped => task[t].got = {}

IInv == TypeOK /\ Tasks /\ Connections /\ ReadsConfined /\ Refusals

-----------------------------------------------------------------------------
=============================================================================
