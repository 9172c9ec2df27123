---------------------------- MODULE TenancyProofs ----------------------------
(***************************************************************************)
(* Tenant isolation for any organizations, connections and units of work:  *)
(* IInv of Tenancy is inductive, and the isolation properties follow.      *)
(***************************************************************************)
EXTENDS Tenancy, TLAPS

-----------------------------------------------------------------------------
\* The connection a unit of work holds is its own, and no other unit holds it.
LEMMA Held ==
  ASSUME IInv, NEW t \in Task, task[t].pc \notin {"idle", "waiting"}
  PROVE  /\ task[t].conn \in Conn
         /\ conn[task[t].conn].by = t
         /\ conn[task[t].conn].open <=> task[t].pc \in {"scope", "run"}
         /\ conn[task[t].conn].local = IF task[t].pc = "run" THEN task[t].org ELSE None
         /\ conn[task[t].conn].session = None
         /\ task[t].scoped <=> task[t].pc # "service"
         /\ task[t].scoped => task[t].org \in Org
         /\ \A u \in Task : u # t => task[u].conn # task[t].conn
<1>1. Holding(t)
  BY DEF IInv, Tasks
<1>2. /\ task[t].conn \in Conn
      /\ conn[task[t].conn].by = t
      /\ conn[task[t].conn].open <=> task[t].pc \in {"scope", "run"}
      /\ conn[task[t].conn].local = IF task[t].pc = "run" THEN task[t].org ELSE None
      /\ task[t].scoped <=> task[t].pc # "service"
  BY <1>1 DEF Holding
<1>3. ASSUME NEW u \in Task, u # t PROVE task[u].conn # task[t].conn
  BY <1>2, <1>3, NoneFresh DEF IInv, Tasks, Holding
<1> QED
  BY <1>2, <1>3 DEF IInv, TypeOK, Connections

\* Whatever the policies and the filter let a transaction reach is of its organization, or
\* of none: the policy confines the statements that forget the filter, the filter those of
\* a login the policies do not bind.
LEMMA Reach ==
  ASSUME IInv, NEW t \in Task, task[t].pc = "run",
         NEW x \in Row, Permits(task[t].conn, x), Filter(t, x)
  PROVE  x.org \in {task[t].org, None}
<1>1. Setting(task[t].conn) = task[t].org
  BY Held DEF Setting
<1>2. CASE login = "app_runtime"
  BY <1>1, <1>2 DEF Permits
<1>3. CASE login # "app_runtime"
  BY <1>3 DEF Filter
<1> QED
  BY <1>2, <1>3

\* Under the policies a statement outside a transaction reaches no organization's row: its
\* connection has none set, whatever it was used for before.
LEMMA Outside ==
  ASSUME IInv, NEW t \in Task, task[t].pc = "service", login = "app_runtime",
         NEW x \in Row, Permits(task[t].conn, x)
  PROVE  x.org = None
<1>1. Setting(task[t].conn) = None
  BY Held DEF Setting
<1> QED
  BY <1>1, NoneFresh DEF Permits

\* What a connection can see are rows.
LEMMA SeenRows ==
  ASSUME IInv, NEW c \in Conn
  PROVE  \A x \in Seen(c) : x \in Row /\ Permits(c, x)
  BY DEF IInv, TypeOK, ConnState, Seen

\* What Release makes of a connection whose session setting is unset.
LEMMA Cleaned ==
  ASSUME NEW k \in ConnState, k.session = None
  PROVE  [k EXCEPT !.by = None, !.open = FALSE, !.local = None, !.added = {},
                   !.removed = {}] = Clean
<1> DEFINE e == [k EXCEPT !.by = None, !.open = FALSE, !.local = None, !.added = {},
                          !.removed = {}]
<1>1. /\ e \in ConnState /\ e.by = None /\ e.open = FALSE /\ e.local = None /\ e.added = {}
      /\ e.removed = {} /\ e.session = None
  BY DEF ConnState
<1> HIDE DEF e
<1>2. e = [by |-> e.by, open |-> e.open, local |-> e.local, session |-> e.session,
           added |-> e.added, removed |-> e.removed]
  BY <1>1 DEF ConnState
<1> QED
  BY <1>1, <1>2 DEF Clean, e

\* A unit of work that ends leaves its connection clean.
LEMMA ReleaseKeeps ==
  ASSUME IInv, NEW t \in Task, task[t].pc \notin {"idle", "waiting"},
         login' = login, rows' \in SUBSET Row, refused' \in SUBSET Row,
         \A x \in refused' : login = "app_runtime" /\ x.org \in Org,
         \/ Release(t)
         \/ /\ task' = [task EXCEPT ![t] = Rest]
            /\ conn' = [conn EXCEPT ![task[t].conn] = Clean]
  PROVE  IInv'
<1> DEFINE c == task[t].conn
<1>1. /\ c \in Conn /\ conn[c].session = None
      /\ \A u \in Task : u # t => task[u].conn # c
  BY Held
<1>2. /\ conn \in [Conn -> ConnState] /\ task \in [Task -> TaskState]
      /\ \A u \in Task : task[u].scoped => task[u].org \in Org
  BY DEF IInv, TypeOK
<1>3. conn' = [conn EXCEPT ![c] = Clean] /\ task' = [task EXCEPT ![t] = Rest]
  <2>1. conn[c] \in ConnState
    BY <1>1, <1>2
  <2>2. [conn[c] EXCEPT !.by = None, !.open = FALSE, !.local = None,
                        !.added = {}, !.removed = {}] = Clean
    BY <2>1, <1>1, Cleaned
  <2>3. CASE Release(t)
    BY <2>2, <2>3 DEF Release
  <2> QED
    BY <2>3
<1> HIDE DEF c
<1>4. Clean \in ConnState /\ Rest \in TaskState
  BY DEF Clean, ConnState, Rest, TaskState
<1>5. TypeOK'
  BY <1>1, <1>2, <1>3, <1>4 DEF IInv, TypeOK, Rest
<1>6. Tasks'
  <2> SUFFICES ASSUME NEW u \in Task PROVE Holding(u)'
    BY DEF Tasks
  <2>1. CASE u = t
    BY <2>1, <1>2, <1>3 DEF Holding, Rest
  <2>2. CASE u # t
    <3>1. task'[u] = task[u] /\ task[u].conn # c
      BY <2>2, <1>1, <1>2, <1>3
    <3>2. task[u].conn \in Conn => conn'[task[u].conn] = conn[task[u].conn]
      BY <3>1, <1>2, <1>3
    <3> QED
      BY <3>1, <3>2 DEF IInv, Tasks, Holding
  <2> QED
    BY <2>1, <2>2
<1>7. Connections'
  <2> SUFFICES ASSUME NEW d \in Conn
               PROVE  /\ conn'[d].session = None
                      /\ conn'[d].by = None => conn'[d] = Clean
                      /\ conn'[d].by # None => task'[conn'[d].by].conn = d
                      /\ conn'[d].added \cup conn'[d].removed # {} => conn'[d].local # None
                      /\ \A x \in conn'[d].added \cup conn'[d].removed :
                           x.org \in {conn'[d].local, None}
    BY DEF Connections
  <2>1. CASE d = c
    BY <2>1, <1>1, <1>2, <1>3 DEF Clean
  <2>2. CASE d # c
    <3>1. conn'[d] = conn[d]
      BY <2>2, <1>2, <1>3
    <3>2. conn[d].by # None => conn[d].by # t
      BY <2>2 DEF IInv, Connections, c
    <3>3. conn[d].by # None => conn[d].by \in Task
      BY <1>2 DEF ConnState
    <3>4. conn[d].by # None => task'[conn[d].by] = task[conn[d].by]
      BY <3>2, <3>3, <1>2, <1>3
    <3> QED
      BY <3>1, <3>4 DEF IInv, Connections
  <2> QED
    BY <2>1, <2>2
<1>8. ReadsConfined'
  BY <1>2, <1>3 DEF IInv, ReadsConfined, Rest
<1>9. Refusals'
  BY <1>2, <1>3 DEF IInv, Refusals, Rest
<1> QED
  BY <1>5, <1>6, <1>7, <1>8, <1>9 DEF IInv

\* The state `new` of a unit of work t and the state `with` of the connection c it holds
\* fit each other.
InOrder(t, c, new, with) ==
  /\ new \in TaskState /\ with \in ConnState
  /\ with.by = t /\ new.conn = c
  /\ new.pc \notin {"idle", "waiting"}
  /\ with.open <=> new.pc \in {"scope", "run"}
  /\ with.local = IF new.pc = "run" THEN new.org ELSE None
  /\ new.scoped <=> new.pc # "service"
  /\ new.scoped => new.org \in Org
  /\ with.session = None
  /\ with.added \cup with.removed # {} => with.local # None
  /\ \A x \in with.added \cup with.removed : x.org \in {with.local, None}
  /\ \A x \in new.got : x.org \in {new.org, None}
  /\ login = "app_runtime" /\ ~new.scoped => new.got = {}

\* A step in which one unit of work goes on with the connection it holds, and leaves the
\* connection and itself in order, keeps everybody else in order.
LEMMA GoOnKeeps ==
  ASSUME IInv, NEW t \in Task, NEW c \in Conn, NEW new, NEW with, InOrder(t, c, new, with),
         login' = login, rows' = rows, refused' = refused,
         task' = [task EXCEPT ![t] = new], conn' = [conn EXCEPT ![c] = with],
         conn[c].by \in {t, None}, task[t].conn \in {c, None}
  PROVE  IInv'
<1>1. /\ conn \in [Conn -> ConnState] /\ task \in [Task -> TaskState]
      /\ \A u \in Task : task[u].scoped => task[u].org \in Org
  BY DEF IInv, TypeOK
<1>2. TypeOK'
  BY <1>1 DEF IInv, TypeOK, InOrder
<1>3. Tasks'
  <2> SUFFICES ASSUME NEW u \in Task PROVE Holding(u)'
    BY DEF Tasks
  <2>1. CASE u = t
    BY <2>1, <1>1 DEF Holding, InOrder
  <2>2. CASE u # t
    <3>1. task'[u] = task[u] /\ Holding(u)
      BY <2>2, <1>1 DEF IInv, Tasks
    <3>2. task[u].conn \in Conn => task[u].conn # c
      BY <3>1, <2>2, NoneFresh DEF Holding
    <3>3. task[u].conn \in Conn => conn'[task[u].conn] = conn[task[u].conn]
      BY <3>2, <1>1
    <3> QED
      BY <3>1, <3>3 DEF Holding
  <2> QED
    BY <2>1, <2>2
<1>4. Connections'
  <2> SUFFICES ASSUME NEW d \in Conn
               PROVE  /\ conn'[d].session = None
                      /\ conn'[d].by = None => conn'[d] = Clean
                      /\ conn'[d].by # None => task'[conn'[d].by].conn = d
                      /\ conn'[d].added \cup conn'[d].removed # {} => conn'[d].local # None
                      /\ \A x \in conn'[d].added \cup conn'[d].removed :
                           x.org \in {conn'[d].local, None}
    BY DEF Connections
  <2>1. CASE d = c
    BY <2>1, <1>1, NoneFresh DEF InOrder
  <2>2. CASE d # c
    <3>1. conn'[d] = conn[d]
      BY <2>2, <1>1
    <3>2. conn[d].by # None => conn[d].by # t /\ conn[d].by \in Task
      BY <2>2, <1>1, NoneFresh DEF IInv, Connections, ConnState
    <3>3. conn[d].by # None => task'[conn[d].by] = task[conn[d].by]
      BY <3>2, <1>1
    <3> QED
      BY <3>1, <3>3 DEF IInv, Connections
  <2> QED
    BY <2>1, <2>2
<1>5. ReadsConfined'
  BY <1>1 DEF IInv, ReadsConfined, InOrder
<1>6. Refusals'
  BY <1>1 DEF IInv, Refusals, InOrder
<1> QED
  BY <1>2, <1>3, <1>4, <1>5, <1>6 DEF IInv

-----------------------------------------------------------------------------
\* The steps

LEMMA ArriveKeeps ==
  ASSUME IInv, NEW t \in Task, Arrive(t)
  PROVE  IInv'
<1>1. PICK scoped \in BOOLEAN, o \in Org \cup {None} :
        /\ scoped => o \in Org
        /\ task' = [task EXCEPT ![t] = [Rest EXCEPT !.pc = "waiting", !.scoped = scoped,
                                                    !.org = o]]
  BY DEF Arrive
<1> DEFINE new == [Rest EXCEPT !.pc = "waiting", !.scoped = scoped, !.org = o]
<1>2. /\ new \in TaskState /\ new.pc = "waiting" /\ new.conn = None /\ new.got = {}
      /\ new.scoped => new.org \in Org
  BY <1>1 DEF Rest, TaskState
<1>3. task' = [task EXCEPT ![t] = new] /\ UNCHANGED <<login, rows, conn, refused>>
  BY <1>1 DEF Arrive
<1> HIDE DEF new
<1>4. task[t].conn = None /\ task \in [Task -> TaskState]
  BY DEF IInv, TypeOK, Tasks, Holding, Arrive
<1>5. TypeOK'
  BY <1>2, <1>3 DEF IInv, TypeOK
<1>6. Tasks'
  BY <1>2, <1>3, <1>4 DEF IInv, Tasks, Holding
<1>7. Connections'
  <2>1. \A d \in Conn : conn[d].by # None => conn[d].by # t /\ conn[d].by \in Task
    BY <1>4, NoneFresh DEF IInv, TypeOK, ConnState, Connections
  <2> QED
    BY <2>1, <1>3, <1>4 DEF IInv, Connections
<1>8. ReadsConfined'
  BY <1>2, <1>3, <1>4 DEF IInv, ReadsConfined
<1>9. Refusals'
  BY <1>2, <1>3, <1>4 DEF IInv, Refusals
<1> QED
  BY <1>5, <1>6, <1>7, <1>8, <1>9 DEF IInv

LEMMA AcquireKeeps ==
  ASSUME IInv, NEW t \in Task, Acquire(t)
  PROVE  IInv'
<1> DEFINE step == IF task[t].scoped THEN "begin" ELSE "service"
<1>1. PICK c \in Conn :
        /\ conn[c].by = None
        /\ conn' = [conn EXCEPT ![c].by = t]
        /\ task' = [task EXCEPT ![t] = [@ EXCEPT !.conn = c, !.pc = step]]
  BY DEF Acquire
<1>2. /\ task[t] \in TaskState /\ task[t].scoped \in BOOLEAN /\ step \in {"begin", "service"}
      /\ task[t].scoped => task[t].org \in Org
      /\ task[t].scoped = (step # "service")
  BY DEF IInv, TypeOK, TaskState
<1>3. task[t].conn = None /\ \A x \in task[t].got : x.org \in {task[t].org, None}
  BY DEF IInv, Tasks, Holding, Acquire, ReadsConfined
<1>4. login = "app_runtime" /\ ~task[t].scoped => task[t].got = {}
  BY DEF IInv, Refusals
<1>5. /\ conn[c] \in ConnState /\ conn[c].open = FALSE /\ conn[c].local = None
      /\ conn[c].session = None /\ conn[c].added = {} /\ conn[c].removed = {}
  BY <1>1 DEF IInv, TypeOK, Connections, Clean
<1> HIDE DEF step
<1> DEFINE new == [task[t] EXCEPT !.conn = c, !.pc = step]
           with == [conn[c] EXCEPT !.by = t]
<1>6. /\ new \in TaskState /\ new.conn = c /\ new.org = task[t].org /\ new.got = task[t].got
      /\ new.scoped = task[t].scoped /\ new.pc = step
  BY <1>2 DEF TaskState
<1>7. /\ with \in ConnState /\ with.by = t /\ with.open = FALSE /\ with.local = None
      /\ with.session = None /\ with.added = {} /\ with.removed = {}
  BY <1>5 DEF ConnState
<1>8. /\ task' = [task EXCEPT ![t] = new] /\ conn' = [conn EXCEPT ![c] = with]
      /\ login' = login /\ rows' = rows /\ refused' = refused
  BY <1>1 DEF Acquire
<1> HIDE DEF new, with
<1>9. InOrder(t, c, new, with)
  BY <1>2, <1>3, <1>6, <1>7, <1>4 DEF InOrder
<1> QED
  BY <1>1, <1>3, <1>8, <1>9, GoOnKeeps

\* At work, a unit and its connection fit each other.
LEMMA AtWork ==
  ASSUME IInv, NEW t \in Task, task[t].pc \notin {"idle", "waiting"}
  PROVE  InOrder(t, task[t].conn, task[t], conn[task[t].conn])
<1>1. task[t] \in TaskState /\ \A x \in task[t].got : x.org \in {task[t].org, None}
  BY DEF IInv, TypeOK, ReadsConfined
<1>2. conn[task[t].conn] \in ConnState
  BY Held DEF IInv, TypeOK
<1>3. LET k == conn[task[t].conn] IN
        /\ k.added \cup k.removed # {} => k.local # None
        /\ \A x \in k.added \cup k.removed : x.org \in {k.local, None}
  BY Held DEF IInv, Connections
<1>4. login = "app_runtime" /\ ~task[t].scoped => task[t].got = {}
  BY DEF IInv, Refusals
<1> QED
  BY <1>1, <1>2, <1>3, <1>4, Held DEF InOrder

LEMMA BeginTxKeeps ==
  ASSUME IInv, NEW t \in Task, BeginTx(t)
  PROVE  IInv'
<1> DEFINE c == task[t].conn
           new == [task[t] EXCEPT !.pc = "scope"]
           with == [conn[c] EXCEPT !.open = TRUE]
<1>1. task[t].pc = "begin" /\ c \in Conn /\ conn[c].by = t /\ InOrder(t, c, task[t], conn[c])
  BY Held, AtWork DEF BeginTx
<1>2. /\ task' = [task EXCEPT ![t] = new] /\ conn' = [conn EXCEPT ![c] = with]
      /\ login' = login /\ rows' = rows /\ refused' = refused
  BY DEF BeginTx, Goto
<1>3. /\ new \in TaskState /\ new.conn = c /\ new.org = task[t].org /\ new.got = task[t].got
      /\ new.scoped = task[t].scoped /\ new.pc = "scope"
  BY <1>1 DEF InOrder, TaskState
<1>4. /\ with \in ConnState /\ with.by = conn[c].by /\ with.open = TRUE
      /\ with.local = conn[c].local /\ with.session = conn[c].session
      /\ with.added = conn[c].added /\ with.removed = conn[c].removed
  BY <1>1 DEF InOrder, ConnState
<1> HIDE DEF new, with, c
<1>5. InOrder(t, c, new, with)
  BY <1>1, <1>3, <1>4 DEF InOrder
<1> QED
  BY <1>1, <1>2, <1>5, GoOnKeeps DEF c

LEMMA SetConfigKeeps ==
  ASSUME IInv, NEW t \in Task, SetConfig(t)
  PROVE  IInv'
<1> DEFINE c == task[t].conn
           new == [task[t] EXCEPT !.pc = "run"]
           with == [conn[c] EXCEPT !.local = task[t].org]
<1>1. /\ task[t].pc = "scope" /\ c \in Conn /\ conn[c].by = t /\ conn[c].local = None
      /\ InOrder(t, c, task[t], conn[c])
  BY Held, AtWork DEF SetConfig
<1>2. /\ task' = [task EXCEPT ![t] = new] /\ conn' = [conn EXCEPT ![c] = with]
      /\ login' = login /\ rows' = rows /\ refused' = refused
  BY DEF SetConfig, Goto
<1>3. /\ new \in TaskState /\ new.conn = c /\ new.org = task[t].org /\ new.got = task[t].got
      /\ new.scoped = task[t].scoped /\ new.pc = "run"
  BY <1>1 DEF InOrder, TaskState
<1>4. task[t].org \in Org
  BY <1>1 DEF InOrder
<1>5. /\ with \in ConnState /\ with.by = conn[c].by /\ with.open = conn[c].open
      /\ with.local = task[t].org /\ with.session = conn[c].session
      /\ with.added = conn[c].added /\ with.removed = conn[c].removed
  BY <1>1, <1>4 DEF InOrder, ConnState
<1> HIDE DEF new, with, c
<1>6. InOrder(t, c, new, with)
  BY <1>1, <1>3, <1>4, <1>5 DEF InOrder
<1> QED
  BY <1>1, <1>2, <1>6, GoOnKeeps DEF c

\* Rows shown to a unit of work leave it in order when they are of its organization, or of
\* none, and under the policies a unit outside withOrg is shown none.
LEMMA ShownKeeps ==
  ASSUME IInv, NEW t \in Task, task[t].pc \notin {"idle", "waiting"},
         NEW more \in SUBSET Row, \A x \in more : x.org \in {task[t].org, None},
         login = "app_runtime" /\ ~task[t].scoped => more = {},
         task' = [task EXCEPT ![t].got = @ \cup more],
         UNCHANGED <<login, rows, conn, refused>>
  PROVE  IInv'
<1> DEFINE c == task[t].conn
           new == [task[t] EXCEPT !.got = @ \cup more]
<1>1. c \in Conn /\ conn[c].by = t /\ InOrder(t, c, task[t], conn[c])
  BY Held, AtWork
<1>2. task' = [task EXCEPT ![t] = new] /\ login' = login /\ rows' = rows /\ refused' = refused
  OBVIOUS
<1>3. conn' = [conn EXCEPT ![c] = conn[c]]
  <2>1. conn \in [Conn -> ConnState] /\ conn' = conn
    BY DEF IInv, TypeOK
  <2> HIDE DEF c
  <2> QED
    BY <2>1, <1>1
<1>4. /\ new \in TaskState /\ new.conn = c /\ new.org = task[t].org
      /\ new.got = task[t].got \cup more
      /\ new.scoped = task[t].scoped /\ new.pc = task[t].pc
  BY <1>1 DEF InOrder, TaskState
<1> HIDE DEF new, c
<1>5. InOrder(t, c, new, conn[c])
  BY <1>1, <1>4 DEF InOrder
<1> QED
  BY <1>1, <1>2, <1>3, <1>5, GoOnKeeps DEF c

LEMMA SelectKeeps ==
  ASSUME IInv, NEW t \in Task, Select(t)
  PROVE  IInv'
<1>1. PICK table \in Tables :
        task' = [task EXCEPT ![t].got =
          @ \cup {x \in Seen(task[t].conn) : x.table = table /\ Filter(t, x)}]
  BY DEF Select
<1> DEFINE more == {x \in Seen(task[t].conn) : x.table = table /\ Filter(t, x)}
<1>2. task[t].pc = "run" /\ UNCHANGED <<login, rows, conn, refused>> /\ task[t].conn \in Conn
  BY Held DEF Select
<1>3. \A x \in more : x \in Row /\ x.org \in {task[t].org, None}
  BY <1>2, SeenRows, Reach
<1>4. task' = [task EXCEPT ![t].got = @ \cup more]
  BY <1>1
<1>5. task[t].scoped
  BY <1>2, Held
<1> HIDE DEF more
<1> QED
  BY <1>2, <1>3, <1>4, <1>5, ShownKeeps

LEMMA ServiceReadKeeps ==
  ASSUME IInv, NEW t \in Task, ServiceRead(t)
  PROVE  IInv'
<1>1. PICK table \in Tables \ {"note"} :
        task' = [task EXCEPT ![t].got =
          @ \cup {x \in Seen(task[t].conn) : x.table = table /\ x.org = task[t].org}]
  BY DEF ServiceRead
<1> DEFINE more == {x \in Seen(task[t].conn) : x.table = table /\ x.org = task[t].org}
<1>2. task[t].pc = "service" /\ UNCHANGED <<login, rows, conn, refused>> /\ task[t].conn \in Conn
  BY Held DEF ServiceRead
<1>3. \A x \in more : x \in Row /\ x.org \in {task[t].org, None}
  BY <1>2, SeenRows
<1>4. task' = [task EXCEPT ![t].got = @ \cup more]
  BY <1>1
<1>5. ASSUME login = "app_runtime" PROVE more = {}
  <2>1. \A x \in more : x.org = None /\ x.org = task[t].org
    BY <1>2, <1>3, <1>5, SeenRows, Outside
  <2> QED
    BY <2>1, NoneFresh DEF ServiceRead
<1> HIDE DEF more
<1> QED
  BY <1>2, <1>3, <1>4, <1>5, ShownKeeps

\* A transaction that has written rows of its organization, or of none, is in order.
LEMMA WrittenKeeps ==
  ASSUME IInv, NEW t \in Task, NEW with \in ConnState, task[t].pc = "run",
         conn' = [conn EXCEPT ![task[t].conn] = with],
         UNCHANGED <<login, rows, task, refused>>,
         LET k == conn[task[t].conn] IN
           /\ with.by = k.by /\ with.open = k.open /\ with.local = k.local
           /\ with.session = k.session,
         \A x \in with.added \cup with.removed : x.org \in {task[t].org, None}
  PROVE  IInv'
<1> DEFINE c == task[t].conn
<1>1. /\ c \in Conn /\ conn[c].by = t /\ conn[c].local = task[t].org
      /\ task[t].org \in Org /\ InOrder(t, c, task[t], conn[c])
  BY Held, AtWork
<1>2. task' = [task EXCEPT ![t] = task[t]]
  BY DEF IInv, TypeOK
<1> HIDE DEF c
<1>3. InOrder(t, c, task[t], with)
  BY <1>1, NoneFresh DEF InOrder, c
<1> QED
  BY <1>1, <1>2, <1>3, GoOnKeeps DEF c

\* The rows a transaction has written so far.
LEMMA Written ==
  ASSUME IInv, NEW t \in Task, task[t].pc = "run"
  PROVE  LET k == conn[task[t].conn] IN
           /\ k.added \in SUBSET Row /\ k.removed \in SUBSET Row
           /\ \A x \in k.added \cup k.removed : x.org \in {task[t].org, None}
<1>1. InOrder(t, task[t].conn, task[t], conn[task[t].conn])
  BY AtWork
<1> QED
  BY <1>1 DEF InOrder, ConnState

LEMMA InsertKeeps ==
  ASSUME IInv, NEW t \in Task, Insert(t)
  PROVE  IInv'
<1>1. PICK x \in Row :
        /\ Filter(t, x)
        /\ IF Permits(task[t].conn, x)
             THEN /\ conn' = [conn EXCEPT ![task[t].conn] =
                        Pending(@, @.added \cup {x}, @.removed \ {x})]
                  /\ UNCHANGED task
             ELSE Release(t)
  BY DEF Insert
<1>2. task[t].pc = "run" /\ login' = login /\ rows' = rows /\ refused' = refused
  BY DEF Insert
<1>3. CASE Permits(task[t].conn, x)
  <2> DEFINE k == conn[task[t].conn]
             with == Pending(k, k.added \cup {x}, k.removed \ {x})
  <2>1. x.org \in {task[t].org, None}
    BY <1>1, <1>2, <1>3, Reach
  <2>2. k \in ConnState
    BY <1>2, Held DEF IInv, TypeOK
  <2> HIDE DEF k
  <2>3. /\ with \in ConnState /\ with.by = k.by /\ with.open = k.open
        /\ with.local = k.local /\ with.session = k.session
        /\ with.added = k.added \cup {x} /\ with.removed = k.removed \ {x}
    BY <2>2 DEF ConnState, Pending
  <2>4. \A y \in k.added \cup k.removed : y.org \in {task[t].org, None}
    BY <1>2, Written DEF k
  <2>5. conn' = [conn EXCEPT ![task[t].conn] = with]
    BY <1>1, <1>3 DEF k
  <2> HIDE DEF with
  <2>6. \A y \in with.added \cup with.removed : y.org \in {task[t].org, None}
    BY <2>1, <2>3, <2>4
  <2> QED
    BY <1>1, <1>2, <1>3, <2>3, <2>5, <2>6, WrittenKeeps DEF k
<1>4. CASE ~Permits(task[t].conn, x)
  BY <1>1, <1>2, <1>4, ReleaseKeeps DEF IInv, TypeOK, Refusals
<1> QED
  BY <1>3, <1>4

LEMMA DeleteKeeps ==
  ASSUME IInv, NEW t \in Task, Delete(t)
  PROVE  IInv'
<1>1. PICK x \in Seen(task[t].conn) :
        /\ Filter(t, x)
        /\ conn' = [conn EXCEPT ![task[t].conn] =
             Pending(@, @.added \ {x}, @.removed \cup {x})]
  BY DEF Delete
<1>2. task[t].pc = "run" /\ UNCHANGED <<login, rows, task, refused>> /\ task[t].conn \in Conn
  BY Held DEF Delete
<1> DEFINE k == conn[task[t].conn]
           with == Pending(k, k.added \ {x}, k.removed \cup {x})
<1>3. x \in Row /\ x.org \in {task[t].org, None}
  BY <1>1, <1>2, SeenRows, Reach
<1>4. k \in ConnState
  BY <1>2 DEF IInv, TypeOK
<1> HIDE DEF k
<1>5. /\ with \in ConnState /\ with.by = k.by /\ with.open = k.open
      /\ with.local = k.local /\ with.session = k.session
      /\ with.added = k.added \ {x} /\ with.removed = k.removed \cup {x}
  BY <1>3, <1>4 DEF ConnState, Pending
<1>6. \A y \in k.added \cup k.removed : y.org \in {task[t].org, None}
  BY <1>2, Written DEF k
<1>7. conn' = [conn EXCEPT ![task[t].conn] = with]
  BY <1>1 DEF k
<1> HIDE DEF with
<1>8. \A y \in with.added \cup with.removed : y.org \in {task[t].org, None}
  BY <1>3, <1>5, <1>6
<1> QED
  BY <1>2, <1>5, <1>7, <1>8, WrittenKeeps DEF k

LEMMA CommitKeeps ==
  ASSUME IInv, NEW t \in Task, Commit(t)
  PROVE  IInv'
<1>1. task[t].pc = "run" /\ Release(t) /\ login' = login /\ refused' = refused
  BY DEF Commit
<1>2. rows' \in SUBSET Row
  BY <1>1, Written DEF Commit, IInv, TypeOK
<1> QED
  BY <1>1, <1>2, ReleaseKeeps DEF IInv, TypeOK, Refusals

LEMMA RollbackKeeps ==
  ASSUME IInv, NEW t \in Task, Rollback(t)
  PROVE  IInv'
  BY ReleaseKeeps DEF Rollback, IInv, TypeOK, Refusals

LEMMA ServiceWriteKeeps ==
  ASSUME IInv, NEW t \in Task, ServiceWrite(t)
  PROVE  IInv'
<1>1. task[t].pc = "service" /\ Release(t) /\ login' = login
  BY DEF ServiceWrite
<1>2. PICK x \in {y \in Row : y.table # "note" /\ y.org = task[t].org} :
        IF Permits(task[t].conn, x)
          THEN rows' = rows \cup {x} /\ UNCHANGED refused
          ELSE refused' = refused \cup {x} /\ UNCHANGED rows
  BY DEF ServiceWrite
<1>3. rows' \in SUBSET Row /\ refused' \in SUBSET Row
  BY <1>2 DEF IInv, TypeOK
<1>4. ~Permits(task[t].conn, x) => login = "app_runtime" /\ x.org \in Org
  BY LoginRoles DEF Permits, Row, IInv, TypeOK
<1>5. \A y \in refused' : login = "app_runtime" /\ y.org \in Org
  BY <1>2, <1>4 DEF IInv, Refusals
<1> QED
  BY <1>1, <1>3, <1>5, ReleaseKeeps

-----------------------------------------------------------------------------
\* IInv holds at first: nobody holds a connection, and every connection is clean.
LEMMA InitHolds == Init => IInv
<1> SUFFICES ASSUME Init PROVE IInv
  OBVIOUS
<1>1. Clean \in ConnState /\ Rest \in TaskState
  BY DEF Clean, ConnState, Rest, TaskState
<1>2. rows \in SUBSET Row
  BY DEF Init, Row
<1>3. TypeOK
  BY <1>1, <1>2 DEF Init, TypeOK, Rest
<1>4. Tasks
  BY DEF Init, Tasks, Holding, Rest
<1>5. Connections
  BY DEF Init, Connections, Clean
<1>6. ReadsConfined
  BY DEF Init, ReadsConfined, Rest
<1> QED
  BY <1>3, <1>4, <1>5, <1>6 DEF IInv, Refusals, Init, Rest

\* Every step keeps it.
LEMMA NextKeeps == IInv /\ [Next]_vars => IInv'
<1> SUFFICES ASSUME IInv, [Next]_vars PROVE IInv'
  OBVIOUS
<1>1. CASE UNCHANGED vars
  BY <1>1 DEF vars, IInv, TypeOK, Tasks, Holding, Connections, ReadsConfined, Refusals
<1>2. ASSUME NEW t \in Task, Arrive(t) PROVE IInv'
  BY <1>2, ArriveKeeps
<1>3. ASSUME NEW t \in Task, Acquire(t) PROVE IInv'
  BY <1>3, AcquireKeeps
<1>4. ASSUME NEW t \in Task, Work(t) PROVE IInv'
  BY <1>4, BeginTxKeeps, SetConfigKeeps, CommitKeeps, RollbackKeeps, ServiceWriteKeeps DEF Work
<1>5. ASSUME NEW t \in Task, Select(t) PROVE IInv'
  BY <1>5, SelectKeeps
<1>6. ASSUME NEW t \in Task, Insert(t) \/ Delete(t) PROVE IInv'
  BY <1>6, InsertKeeps, DeleteKeeps
<1>7. ASSUME NEW t \in Task, ServiceRead(t) PROVE IInv'
  BY <1>7, ServiceReadKeeps
<1> QED
  BY <1>1, <1>2, <1>3, <1>4, <1>5, <1>6, <1>7 DEF Next

\* The inductive invariant, for any organizations, connections and units of work.
THEOREM Invariant == Spec => []IInv
  BY InitHolds, NextKeeps, PTL DEF Spec

\* The variables keep their types; a unit of work inside withOrg has an organization.
THEOREM TypeCorrect == Spec => []TypeOK
<1>1. IInv => TypeOK
  BY DEF IInv
<1> QED
  BY <1>1, Invariant, PTL

\* Tenant isolation of reads: with app_runtime whatever the statements forget, and with the
\* owner as long as none forgets its filter, no unit of work is shown another
\* organization's row.
THEOREM ReadsAreConfined == Spec => []ReadsConfined
<1>1. IInv => ReadsConfined
  BY DEF IInv
<1> QED
  BY <1>1, Invariant, PTL

\* The setting does not leak: a connection outside a transaction has no organization.
THEOREM SettingIsLocal == Spec => []NoSettingLeft
<1>1. IInv => NoSettingLeft
  <2> SUFFICES ASSUME IInv, NEW c \in Conn, ~conn[c].open
               PROVE  Setting(c) = None
    BY DEF NoSettingLeft
  <2>1. conn[c].session = None /\ (conn[c].by = None => conn[c].local = None)
    BY DEF IInv, Connections, Clean
  <2>2. ASSUME conn[c].by # None PROVE conn[c].local = None
    <3>1. conn[c].by \in Task /\ task[conn[c].by].conn = c
      BY <2>2 DEF IInv, TypeOK, ConnState, Connections
    <3>2. Holding(conn[c].by)
      BY <3>1 DEF IInv, Tasks
    <3> QED
      BY <3>1, <3>2, NoneFresh DEF Holding
  <2> QED
    BY <2>1, <2>2 DEF Setting
<1> QED
  BY <1>1, Invariant, PTL

\* The statements of a withOrg transaction run with its organization set.
THEOREM SettingBelongs == Spec => []SettingIsOwn
<1>1. IInv => SettingIsOwn
  BY Held DEF SettingIsOwn, Setting
<1> QED
  BY <1>1, Invariant, PTL

\* Tenant isolation of writes: a committed row of an organization appears or goes only by a
\* unit of work for that organization.
THEOREM WritesAreConfined == Spec => WritesConfined
<1> DEFINE Changed == (rows' \ rows) \cup (rows \ rows')
           By(x) == \E t \in Task : /\ task[t].pc \in {"run", "service"} /\ task[t].org = x.org
                                    /\ task'[t].pc = "idle"
<1>1. ASSUME IInv, [Next]_vars, NEW x \in Changed, x.org \in Org
      PROVE  By(x)
  <2>1. ASSUME NEW t \in Task, Commit(t) PROVE By(x)
    <3>1. task[t].pc = "run" /\ task'[t].pc = "idle"
      BY <1>1, <2>1 DEF Commit, Release, Rest, IInv, TypeOK
    <3>2. x \in conn[task[t].conn].added \cup conn[task[t].conn].removed
      BY <2>1 DEF Commit
    <3>3. x.org = task[t].org
      BY <1>1, <3>1, <3>2, Written, NoneFresh
    <3> QED
      BY <3>1, <3>3
  <2>2. ASSUME NEW t \in Task, ServiceWrite(t) PROVE By(x)
    <3>1. task[t].pc = "service" /\ task'[t].pc = "idle"
      BY <1>1, <2>2 DEF ServiceWrite, Release, Rest, IInv, TypeOK
    <3>2. x.org = task[t].org
      BY <2>2 DEF ServiceWrite
    <3> QED
      BY <3>1, <3>2
  <2>3. rows' # rows
    OBVIOUS
  <2>4. ASSUME NEW t \in Task, Work(t) PROVE By(x)
    BY <2>1, <2>2, <2>3, <2>4 DEF Work, BeginTx, SetConfig, Rollback
  <2> QED
    BY <1>1, <2>3, <2>4 DEF Next, vars, Arrive, Acquire, Select, Insert, Delete, ServiceRead
<1>2. IInv /\ [Next]_vars =>
        [\A x \in (rows' \ rows) \cup (rows \ rows') :
           x.org \in Org => \E t \in Task : task[t].pc \in {"run", "service"} /\ task[t].org = x.org
                                            /\ task'[t].pc = "idle"]_vars
  BY <1>1
<1> QED
  BY <1>2, Invariant, PTL DEF Spec, WritesConfined

\* The services outside withOrg: under the policies an organization's row appears or goes
\* only as a withOrg transaction of it commits and is shown to no service, and nothing else
\* is refused, for any use of the connections before.
THEOREM ServicesAreBound == Spec => OnlyWithOrg
<1> DEFINE By(x) == \E t \in Task : task[t].pc = "run" /\ task[t].org = x.org
                                  /\ task'[t].pc = "idle"
<1>1. ASSUME IInv, [Next]_vars, login = "app_runtime",
             NEW x \in (rows' \ rows) \cup (rows \ rows'), x.org \in Org
      PROVE  By(x)
  <2>1. ASSUME NEW t \in Task, Commit(t) PROVE By(x)
    <3>1. task[t].pc = "run" /\ task'[t].pc = "idle"
      BY <1>1, <2>1 DEF Commit, Release, Rest, IInv, TypeOK
    <3>2. x \in conn[task[t].conn].added \cup conn[task[t].conn].removed
      BY <2>1 DEF Commit
    <3>3. x.org = task[t].org
      BY <1>1, <3>1, <3>2, Written, NoneFresh
    <3> QED
      BY <3>1, <3>3
  <2>2. ASSUME NEW t \in Task, ServiceWrite(t) PROVE FALSE
    <3>1. task[t].pc = "service" /\ x \in Row /\ Permits(task[t].conn, x)
      BY <2>2 DEF ServiceWrite
    <3> QED
      BY <1>1, <3>1, Outside, NoneFresh
  <2>3. rows' # rows
    OBVIOUS
  <2>4. ASSUME NEW t \in Task, Work(t) PROVE By(x)
    BY <2>1, <2>2, <2>3, <2>4 DEF Work, BeginTx, SetConfig, Rollback
  <2> QED
    BY <1>1, <2>3, <2>4 DEF Next, vars, Arrive, Acquire, Select, Insert, Delete, ServiceRead
<1>2. ASSUME IInv, [Next]_vars
      PROVE  /\ login' = login
             /\ login = "app_runtime" =>
                  \A t \in Task : task'[t].pc = "service" => task'[t].got = {}
             /\ \A x \in refused' : login = "app_runtime" /\ x.org \in Org
  <2>1. IInv'
    BY <1>2, NextKeeps
  <2>2. login' = login
    BY <1>2 DEF Next, vars, Work, Arrive, Acquire, BeginTx, SetConfig, Commit, Rollback,
                ServiceWrite, Select, Insert, Delete, ServiceRead
  <2>3. \A t \in Task : task'[t].pc = "service" => ~task'[t].scoped
    BY <2>1 DEF IInv, Tasks, Holding
  <2> QED
    BY <2>1, <2>2, <2>3 DEF IInv, Refusals
<1>3. IInv /\ [Next]_vars =>
        [/\ login = "app_runtime" =>
              /\ \A x \in (rows' \ rows) \cup (rows \ rows') :
                   x.org \in Org => \E t \in Task : task[t].pc = "run" /\ task[t].org = x.org
                                                    /\ task'[t].pc = "idle"
              /\ \A t \in Task : task'[t].pc = "service" => task'[t].got = {}
         /\ \A x \in refused' : login = "app_runtime" /\ x.org \in Org]_vars
  BY <1>1, <1>2
<1> QED
  BY <1>3, Invariant, PTL DEF Spec, OnlyWithOrg

=============================================================================
