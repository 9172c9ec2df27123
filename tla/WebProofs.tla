------------------------------- MODULE WebProofs -------------------------------
(***************************************************************************)
(* Proofs about the web application: the screens over the query cache      *)
(* (Screens) and the session, routes and shells of a tab (Console), for    *)
(* any organizations, slugs, products and bounds.                          *)
(*                                                                         *)
(* Each part has an inductive invariant, a lemma for every action, and the *)
(* theorems that follow.                                                   *)
(***************************************************************************)
EXTENDS MCWeb, TLAPS

-----------------------------------------------------------------------------
\* Screens

\* the part of the types the proofs need: a table's count is a number
EntryType ==
  [at : Nat, shape : {"page", "rows"}, invalid : BOOLEAN, fetch : {"none", "sent", "read"},
   read : Nat, fetchShape : {"page", "rows"}]

CountsOK ==
  /\ table \in [Table -> Nat]
  /\ entry \in [Query -> EntryType]
  /\ seen \in [Query -> Nat]
  /\ change \in [stage : {"none", "sent", "applied"}, refreshed : SUBSET Query, to : Table,
                 at : Nat]

\* what e, the entry of q, may hold when the person saw n changes to its table
Shows(q, e, n, over) ==
  /\ q \notin over /\ HasData(e) /\ ~e.invalid => e.at >= n
  /\ e.fetch = "read" => e.read >= n \/ q \in over

EntriesOK == \A q \in Query : Shows(q, entry[q], seen[q], overtaken)

SeenOK == \A q \in Query : seen[q] <= table[TableOf(q)]

\* a change refreshes every query of its table
ChangeOK ==
  change.stage # "none" =>
    /\ change.refreshed = {q \in Query : TableOf(q) = change.to}
    /\ change.stage = "applied" => change.at <= table[change.to]

ScreensInv == CountsOK /\ EntriesOK /\ SeenOK /\ ChangeOK

LEMMA TablesAre == \A q \in Query : TableOf(q) \in Table
  BY DEF Query, Table, TableOf, Filter

LEMMA NoEntryIs == NoEntry \in EntryType /\ ~HasData(NoEntry) /\ NoEntry.fetch = "none"
  BY Bounds DEF NoEntry, EntryType, HasData, Unread

\* a fetch that begins changes nothing of what is held
LEMMA SentIs ==
  ASSUME NEW e \in EntryType, NEW s
  PROVE  /\ Sent(e, s) \in EntryType /\ Sent(e, s).fetch = "sent"
         /\ Sent(e, s).at = e.at /\ Sent(e, s).invalid = e.invalid
<1>1. ShapeFor(s) \in {"page", "rows"} /\ Unread \in Nat  BY Bounds DEF ShapeFor, Unread
<1> QED  BY <1>1 DEF Sent, EntryType

LEMMA SentShows ==
  ASSUME NEW e \in EntryType, NEW s, NEW q, NEW n, NEW over, Shows(q, e, n, over)
  PROVE  Sent(e, s) \in EntryType /\ Shows(q, Sent(e, s), n, over)
  BY SentIs DEF Shows, HasData

LEMMA MountShows ==
  ASSUME ScreensInv, NEW s, NEW f, Mount(s, f)
  PROVE  /\ entry' \in [Query -> EntryType]
         /\ \A q \in Query : Shows(q, entry'[q], seen[q], overtaken)
<1>1. CountsOK /\ EntriesOK  BY DEF ScreensInv
<1>2. CASE UNCHANGED entry  BY <1>1, <1>2 DEF CountsOK, EntriesOK
<1>3. ASSUME NEW reads, entry' = [q \in Query |-> IF q \in reads THEN MountedOn(entry[q], s)
                                                 ELSE entry[q]]
      PROVE  /\ entry' \in [Query -> EntryType]
             /\ \A q \in Query : Shows(q, entry'[q], seen[q], overtaken)
  <2>1. ASSUME NEW q \in Query
        PROVE  entry'[q] \in EntryType /\ Shows(q, entry'[q], seen[q], overtaken)
    <3>1. entry[q] \in EntryType /\ Shows(q, entry[q], seen[q], overtaken)
      BY <1>1 DEF CountsOK, EntriesOK
    <3>2. entry'[q] \in {entry[q], Sent(entry[q], s)}  BY <1>3 DEF MountedOn
    <3> QED  BY <3>1, <3>2, SentShows
  <2> QED  BY <1>3, <2>1
<1> QED  BY <1>2, <1>3 DEF Mount

\* one entry changes, and nothing is submitted or seen
LEMMA EntryKeeps ==
  ASSUME ScreensInv, NEW q \in Query, NEW e \in EntryType, entry' = [entry EXCEPT ![q] = e],
         Shows(q, e, seen[q], overtaken'), overtaken \ {q} \subseteq overtaken',
         overtaken' \subseteq overtaken, UNCHANGED <<table, change, seen>>
  PROVE  ScreensInv'
<1>1. CountsOK /\ EntriesOK /\ SeenOK /\ ChangeOK  BY DEF ScreensInv
<1>2. /\ entry' \in [Query -> EntryType] /\ entry'[q] = e
      /\ \A p \in Query \ {q} : entry'[p] = entry[p]
  BY <1>1 DEF CountsOK
<1>3. ASSUME NEW p \in Query PROVE Shows(p, entry'[p], seen'[p], overtaken')
  BY <1>1, <1>2 DEF EntriesOK, Shows
<1> QED  BY <1>1, <1>2, <1>3 DEF ScreensInv, CountsOK, EntriesOK, SeenOK, ChangeOK

LEMMA OpenKeeps ==
  ASSUME ScreensInv, (\E s \in Screen : Open(s)) \/ (\E f \in Filters : SetFilter(f))
  PROVE  ScreensInv'
<1>1. PICK s, f : Mount(s, f) /\ UNCHANGED <<table, change, seen, overtaken>>
  BY DEF Open, SetFilter
<1>2. /\ entry' \in [Query -> EntryType]
      /\ \A q \in Query : Shows(q, entry'[q], seen[q], overtaken)
  BY <1>1, MountShows
<1> QED  BY <1>1, <1>2 DEF ScreensInv, CountsOK, EntriesOK, SeenOK, ChangeOK

LEMMA ReadingKeeps ==
  ASSUME ScreensInv, NEW q \in Query,
         Collect(q) \/ RefetchQuery(q) \/ Serve(q) \/ Arrive(q) \/ FailFetch(q)
  PROVE  ScreensInv'
<1>1. CountsOK /\ EntriesOK /\ SeenOK  BY DEF ScreensInv
<1>2. entry[q] \in EntryType /\ Shows(q, entry[q], seen[q], overtaken)
  BY <1>1 DEF CountsOK, EntriesOK
<1>3. CASE Collect(q)
  <2>1. Shows(q, NoEntry, seen[q], overtaken)  BY NoEntryIs DEF Shows
  <2> QED  BY <1>3, <2>1, NoEntryIs, EntryKeeps DEF Collect
<1>4. CASE RefetchQuery(q)
  <2>1. PICK e : e = Sent(entry[q], open)  OBVIOUS
  <2>2. e \in EntryType /\ Shows(q, e, seen[q], overtaken)  BY <1>2, <2>1, SentShows
  <2>3. entry' = [entry EXCEPT ![q] = e] /\ UNCHANGED <<table, change, seen, overtaken>>
    BY <1>4, <2>1 DEF RefetchQuery
  <2> QED  BY <2>2, <2>3, EntryKeeps
<1>5. CASE Serve(q)
  <2>1. PICK n : n = table[TableOf(q)]  OBVIOUS
  <2>2. n \in Nat /\ n >= seen[q]
    BY <1>1, <2>1, TablesAre DEF CountsOK, SeenOK
  <2>3. PICK e : e = [entry[q] EXCEPT !.fetch = "read", !.read = n]  OBVIOUS
  <2>4. /\ e \in EntryType /\ e.fetch = "read" /\ e.read = n /\ e.at = entry[q].at
        /\ e.invalid = entry[q].invalid
    BY <1>2, <2>2, <2>3 DEF EntryType
  <2>5. entry' = [entry EXCEPT ![q] = e] /\ UNCHANGED <<table, change, seen, overtaken>>
    BY <1>1, <1>5, <2>1, <2>3 DEF Serve, CountsOK, EntryType
  <2>6. Shows(q, e, seen[q], overtaken)  BY <1>2, <2>2, <2>4 DEF Shows, HasData
  <2> QED  BY <2>4, <2>5, <2>6, EntryKeeps
<1>6. CASE Arrive(q)
  <2>1. PICK e : e = [NoEntry EXCEPT !.at = entry[q].read, !.shape = entry[q].fetchShape]
    OBVIOUS
  <2>2. /\ e \in EntryType /\ e.fetch = "none" /\ e.at = entry[q].read
    BY <1>2, <2>1, NoEntryIs DEF EntryType
  <2>3. /\ entry' = [entry EXCEPT ![q] = e] /\ entry[q].fetch = "read"
        /\ overtaken' = IF entry[q].read < seen[q] THEN overtaken ELSE overtaken \ {q}
        /\ UNCHANGED <<table, change, seen>>
    BY <1>6, <2>1 DEF Arrive
  <2>4. Shows(q, e, seen[q], overtaken')
    <3>1. entry[q].read \in Nat /\ seen[q] \in Nat  BY <1>1, <1>2 DEF EntryType, CountsOK
    <3>2. CASE entry[q].read < seen[q]
      BY <1>2, <2>2, <2>3, <3>1, <3>2 DEF Shows
    <3>3. CASE entry[q].read >= seen[q]
      BY <2>2, <3>1, <3>3 DEF Shows
    <3> QED  BY <3>1, <3>2, <3>3
  <2> QED  BY <2>2, <2>3, <2>4, EntryKeeps
<1>7. CASE FailFetch(q)
  <2>1. PICK e : e = [entry[q] EXCEPT !.fetch = "none", !.read = Unread, !.fetchShape = "page"]
    OBVIOUS
  <2>2. Unread \in Nat  BY Bounds DEF Unread
  <2>3. /\ e \in EntryType /\ e.fetch = "none" /\ e.at = entry[q].at
        /\ e.invalid = entry[q].invalid
    BY <1>2, <2>1, <2>2 DEF EntryType
  <2>4. entry' = [entry EXCEPT ![q] = e] /\ UNCHANGED <<table, change, seen, overtaken>>
    BY <1>1, <1>7, <2>1 DEF FailFetch, CountsOK, EntryType
  <2>5. Shows(q, e, seen[q], overtaken)  BY <1>2, <2>3 DEF Shows, HasData
  <2> QED  BY <2>3, <2>4, <2>5, EntryKeeps
<1> QED  BY <1>3, <1>4, <1>5, <1>6, <1>7

\* each screen refreshes whatever reads the table it changes
LEMMA UsesRefresh ==
  ASSUME NEW s, NEW u \in Uses(s), NEW t \in Table, t \in u.changes
  PROVE  u.refreshed = {q \in Query : TableOf(q) = t}
<1>1. \A q : q \in Query <=> q \in {"all", "draft", "published", "members", "invitations",
                                   "workspaces", "library", "detail", "comments", "roles", "audit"}
  BY DEF Query, Filter
<1>2. \A q : TableOf(q) = IF q \in {"all", "draft", "published"} THEN "tasks" ELSE q
  BY DEF TableOf, Filter
<1>3. CASE u = TasksScreen(filter)
  <2>1. u.refreshed = {"all", "draft", "published"} /\ t = "tasks"
    BY <1>3 DEF TasksScreen, Filter
  <2> QED  BY <1>1, <1>2, <2>1
<1>4. ASSUME u.refreshed = {t}, t \in {"members", "invitations", "workspaces", "detail",
                                       "comments"}
      PROVE  u.refreshed = {q \in Query : TableOf(q) = t}
  BY <1>1, <1>2, <1>4
<1>5. CASE s = "members"
  <2>1. u.refreshed = {t} /\ t = "members"  BY <1>5 DEF Uses, MembersScreen
  <2> QED  BY <1>4, <2>1
<1>6. CASE s = "invitations"
  <2>1. u.refreshed = {t} /\ t = "invitations"  BY <1>6 DEF Uses, InvitationsScreen
  <2> QED  BY <1>4, <2>1
<1>7. CASE s = "workspaces"
  <2>1. u.refreshed = {t} /\ t = "workspaces"  BY <1>7 DEF Uses, WorkspacesScreen
  <2> QED  BY <1>4, <2>1
<1>8. CASE s = "tasks"  BY <1>3, <1>8 DEF Uses
<1>9. CASE s = "note"
  <2>1. PICK c \in {"detail", "comments"} : u = NoteEngagement(c)  BY <1>9 DEF Uses
  <2>2. u.refreshed = {t} /\ t = c  BY <2>1 DEF NoteEngagement
  <2> QED  BY <1>4, <2>1, <2>2
<1>10. CASE s \notin {"members", "invitations", "workspaces", "tasks", "note"}
  BY <1>10 DEF Uses, LibraryScreen, RolesView, AuditLogViewer
<1> QED  BY <1>5, <1>6, <1>7, <1>8, <1>9, <1>10

LEMMA SubmitKeeps ==
  ASSUME ScreensInv, Submit \/ FailChange
  PROVE  ScreensInv'
<1>1. CountsOK /\ EntriesOK /\ SeenOK  BY DEF ScreensInv
<1>2. UNCHANGED <<table, entry, seen, overtaken>>  BY DEF Submit, FailChange
<1>3. Unread \in Nat  BY Bounds DEF Unread
<1>4. CASE Submit
  <2>1. PICK u \in Uses(open), t \in Table :
          /\ t \in u.changes
          /\ change' = [stage |-> "sent", refreshed |-> u.refreshed, to |-> t, at |-> Unread]
    BY <1>4 DEF Submit
  <2>2. u.refreshed = {q \in Query : TableOf(q) = t}  BY <2>1, UsesRefresh
  <2> QED  BY <1>1, <1>2, <1>3, <2>1, <2>2
           DEF ScreensInv, CountsOK, EntriesOK, SeenOK, ChangeOK
<1>5. CASE FailChange
  <2>1. change' = NoChange /\ NoChange.stage = "none"  BY <1>5 DEF FailChange, NoChange
  <2>2. NoChange \in [stage : {"none", "sent", "applied"}, refreshed : SUBSET Query, to : Table,
                      at : Nat]
    BY <1>3 DEF NoChange, Table
  <2> QED  BY <1>1, <1>2, <2>1, <2>2 DEF ScreensInv, CountsOK, EntriesOK, SeenOK, ChangeOK
<1> QED  BY <1>4, <1>5

\* a table that grows still holds what was seen of it
LEMMA TableGrows ==
  ASSUME ScreensInv, NEW t \in Table, table' = [table EXCEPT ![t] = @ + 1],
         UNCHANGED <<entry, seen, overtaken>>
  PROVE  /\ table' \in [Table -> Nat] /\ \A s \in Table : table[s] <= table'[s]
         /\ EntriesOK' /\ SeenOK'
<1>1. CountsOK /\ EntriesOK /\ SeenOK  BY DEF ScreensInv
<1>2. table' \in [Table -> Nat] /\ \A s \in Table : table[s] <= table'[s]
  BY <1>1 DEF CountsOK
<1>3. SeenOK'
  <2>1. ASSUME NEW q \in Query PROVE seen[q] <= table'[TableOf(q)]
    <3>1. TableOf(q) \in Table  BY TablesAre
    <3>2. seen[q] \in Nat /\ table[TableOf(q)] \in Nat /\ table'[TableOf(q)] \in Nat
      BY <1>1, <1>2, <3>1 DEF CountsOK
    <3>3. seen[q] <= table[TableOf(q)]  BY <1>1 DEF SeenOK
    <3> QED  BY <1>2, <3>1, <3>2, <3>3
  <2> QED  BY <2>1 DEF SeenOK
<1> QED  BY <1>1, <1>2, <1>3 DEF EntriesOK

LEMMA ApplyKeeps ==
  ASSUME ScreensInv, Apply \/ (\E t \in Table : SomebodyElse(t))
  PROVE  ScreensInv'
<1>1. CountsOK /\ EntriesOK /\ SeenOK /\ ChangeOK  BY DEF ScreensInv
<1>2. CASE Apply
  <2>1. PICK t \in Table : t = change.to  BY <1>1 DEF CountsOK
  <2>2. table' = [table EXCEPT ![t] = @ + 1] /\ UNCHANGED <<entry, seen, overtaken>>
    BY <1>2, <2>1 DEF Apply
  <2>3. /\ table' \in [Table -> Nat] /\ EntriesOK' /\ SeenOK'  BY <2>2, TableGrows
  <2>4. PICK n \in Nat : n = table'[t]  BY <2>3
  <2>5. change' = [change EXCEPT !.stage = "applied", !.at = n] /\ change.stage = "sent"
    BY <1>2, <2>1, <2>4 DEF Apply
  <2>6. /\ change' \in [stage : {"none", "sent", "applied"}, refreshed : SUBSET Query, to : Table,
                        at : Nat]
        /\ change'.refreshed = change.refreshed /\ change'.to = t /\ change'.at = n
    BY <1>1, <2>1, <2>5 DEF CountsOK
  <2>7. ChangeOK'
    <3>1. n <= table'[t]  BY <2>4
    <3> QED  BY <1>1, <2>1, <2>5, <2>6, <3>1 DEF ChangeOK
  <2> QED  BY <1>1, <2>2, <2>3, <2>6, <2>7 DEF ScreensInv, CountsOK
<1>3. ASSUME NEW t \in Table, SomebodyElse(t) PROVE ScreensInv'
  <2>1. /\ table' = [table EXCEPT ![t] = @ + 1] /\ UNCHANGED <<entry, change, seen, overtaken>>
    BY <1>3 DEF SomebodyElse
  <2>2. /\ table' \in [Table -> Nat] /\ \A s \in Table : table[s] <= table'[s]
        /\ EntriesOK' /\ SeenOK'
    BY <2>1, TableGrows
  <2>3. ChangeOK'
    <3>1. /\ change.to \in Table /\ change.at \in Nat
          /\ table[change.to] \in Nat /\ table'[change.to] \in Nat
      BY <1>1, <2>2 DEF CountsOK
    <3> QED  BY <1>1, <2>1, <2>2, <3>1 DEF ChangeOK
  <2> QED  BY <1>1, <2>1, <2>2, <2>3 DEF ScreensInv, CountsOK
<1> QED  BY <1>2, <1>3

\* what is refreshed is invalid until a fetch that began since brings it, and
\* a fetch that is joined though it read too early is remembered
LEMMA AcknowledgeKeeps ==
  ASSUME ScreensInv, Acknowledge
  PROVE  ScreensInv'
<1>1. CountsOK /\ EntriesOK /\ SeenOK /\ ChangeOK  BY DEF ScreensInv
<1>2. PICK qs : qs = change.refreshed  OBVIOUS
<1>3. PICK n \in Nat : n = change.at  BY <1>1 DEF CountsOK
<1>4. /\ change.stage = "applied" /\ change' = NoChange /\ UNCHANGED table
      /\ seen' = [q \in Query |-> IF TableOf(q) = change.to THEN n ELSE seen[q]]
      /\ overtaken' = overtaken \cup {q \in qs : entry'[q].fetch = "read"
                                                  /\ entry'[q].read < seen'[q]}
      /\ entry' = [q \in Query |->
                     LET e == [entry[q] EXCEPT !.invalid = TRUE] IN
                     IF q \notin qs \/ entry[q] = NoEntry THEN entry[q]
                     ELSE IF q \in Observed /\ (e.fetch = "none" \/ HasData(e))
                     THEN Sent(e, open) ELSE e]
  BY <1>2, <1>3 DEF Acknowledge, Succeeded, invalidateQueries
<1>5. qs = {q \in Query : TableOf(q) = change.to} /\ n <= table[change.to]
  BY <1>1, <1>2, <1>3, <1>4 DEF ChangeOK
<1>6. /\ seen' \in [Query -> Nat]
      /\ \A q \in qs : seen'[q] = n
      /\ \A q \in Query \ qs : seen'[q] = seen[q]
  BY <1>1, <1>4, <1>5 DEF CountsOK
<1>7. SeenOK'
  <2>1. ASSUME NEW q \in Query PROVE seen'[q] <= table[TableOf(q)]
    BY <1>1, <1>5, <1>6 DEF SeenOK
  <2> QED  BY <1>4, <2>1 DEF SeenOK
<1>8. ASSUME NEW q \in Query
      PROVE  entry'[q] \in EntryType /\ Shows(q, entry'[q], seen'[q], overtaken')
  <2>1. entry[q] \in EntryType /\ Shows(q, entry[q], seen[q], overtaken)
    BY <1>1 DEF CountsOK, EntriesOK
  <2>2. CASE q \notin qs
    <3>1. entry'[q] = entry[q] /\ seen'[q] = seen[q] /\ (q \in overtaken' <=> q \in overtaken)
      BY <1>4, <1>6, <2>2
    <3> QED  BY <2>1, <3>1 DEF Shows
  <2>3. CASE q \in qs /\ entry[q] = NoEntry
    <3>1. entry'[q] = NoEntry  BY <1>4, <2>3
    <3> QED  BY <3>1, NoEntryIs DEF Shows
  <2>4. CASE q \in qs /\ entry[q] # NoEntry
    <3>1. PICK e : e = [entry[q] EXCEPT !.invalid = TRUE]  OBVIOUS
    <3>2. e \in EntryType /\ e.invalid  BY <2>1, <3>1 DEF EntryType
    <3>3. entry'[q] \in {e, Sent(e, open)}  BY <1>4, <2>4, <3>1
    <3>4. entry'[q] \in EntryType /\ entry'[q].invalid  BY <3>2, <3>3, SentIs
    <3>5. entry'[q].read \in Nat /\ seen'[q] \in Nat  BY <1>6, <3>4 DEF EntryType
    <3>6. entry'[q].fetch = "read" => entry'[q].read >= seen'[q] \/ q \in overtaken'
      BY <1>4, <2>4, <3>5
    <3> QED  BY <3>4, <3>6 DEF Shows
  <2> QED  BY <2>2, <2>3, <2>4
<1>9. entry' \in [Query -> EntryType]  BY <1>4, <1>8
<1>10. /\ change'.stage = "none"
       /\ change' \in [stage : {"none", "sent", "applied"}, refreshed : SUBSET Query, to : Table,
                       at : Nat]
  <2>1. Unread \in Nat  BY Bounds DEF Unread
  <2> QED  BY <1>4, <2>1 DEF NoChange, Table
<1> QED  BY <1>1, <1>4, <1>6, <1>7, <1>8, <1>9, <1>10
         DEF ScreensInv, CountsOK, EntriesOK, ChangeOK

LEMMA ScreensInitially == ScreensInit => ScreensInv
<1> SUFFICES ASSUME ScreensInit PROVE ScreensInv  OBVIOUS
<1>1. Unread \in Nat  BY Bounds DEF Unread
<1>2. CountsOK  BY <1>1, NoEntryIs DEF ScreensInit, CountsOK, NoChange, Table
<1>3. EntriesOK  BY NoEntryIs DEF ScreensInit, EntriesOK, Shows
<1>4. SeenOK  BY TablesAre DEF ScreensInit, SeenOK
<1>5. ChangeOK  BY DEF ScreensInit, ChangeOK, NoChange
<1> QED  BY <1>2, <1>3, <1>4, <1>5 DEF ScreensInv

LEMMA ScreensStep == ScreensInv /\ [ScreensNext]_screensVars => ScreensInv'
<1> SUFFICES ASSUME ScreensInv, [ScreensNext]_screensVars PROVE ScreensInv'  OBVIOUS
<1>1. CASE ScreensNext
  BY <1>1, OpenKeeps, ReadingKeeps, SubmitKeeps, ApplyKeeps, AcknowledgeKeeps DEF ScreensNext
<1>2. CASE UNCHANGED screensVars
  BY <1>2 DEF screensVars, ScreensInv, CountsOK, EntriesOK, SeenOK, ChangeOK
<1> QED  BY <1>1, <1>2

\* In every reachable state an entry that is not marked holds at least what
\* the person saw change, a fetch that read before such a change is remembered
\* as overtaken, and a change under way refreshes every query of its table
\* (the screens' refresh over the query cache).
THEOREM ScreensInvariant == ScreensSpec => []ScreensInv
  BY ScreensInitially, ScreensStep, PTL DEF ScreensSpec

\* what the steps leave alone
LEMMA OpeningLeaves ==
  ASSUME (\E s \in Screen : Open(s)) \/ (\E f \in Filters : SetFilter(f))
  PROVE  /\ UNCHANGED <<visited, table, made, change, seen, overtaken>>
         /\ open' \in Screen \cup {"crashed"} /\ filter' \in Filter
<1>1. ASSUME NEW s \in Screen, NEW f \in Filter, Mount(s, f)
      PROVE  open' \in Screen \cup {"crashed"}
  BY <1>1 DEF Mount
<1>2. CASE \E s \in Screen : Open(s)
  <2>1. "draft" \in Filter  BY DEF Filter
  <2> QED  BY <1>1, <1>2, <2>1 DEF Open
<1>3. CASE \E f \in Filters : SetFilter(f)
  <2>1. "tasks" \in Screen  BY DEF Screen
  <2> QED  BY <1>1, <1>3, <2>1, Bounds DEF SetFilter
<1> QED  BY <1>2, <1>3

LEMMA ReadingLeaves ==
  ASSUME NEW q, Collect(q) \/ RefetchQuery(q) \/ Serve(q) \/ Arrive(q) \/ FailFetch(q)
  PROVE  /\ UNCHANGED <<visited, filter, table, made, change, seen>>
         /\ open' \in {open, "crashed"} /\ overtaken' \subseteq overtaken
<1>1. CASE Collect(q)  BY <1>1 DEF Collect
<1>2. CASE RefetchQuery(q)  BY <1>2 DEF RefetchQuery
<1>3. CASE Serve(q)  BY <1>3 DEF Serve
<1>4. CASE Arrive(q)  BY <1>4 DEF Arrive
<1>5. CASE FailFetch(q)  BY <1>5 DEF FailFetch
<1> QED  BY <1>1, <1>2, <1>3, <1>4, <1>5

LEMMA ChangingLeaves ==
  ASSUME Submit \/ Apply \/ FailChange \/ Acknowledge \/ (\E t \in Table : SomebodyElse(t))
  PROVE  /\ UNCHANGED <<visited, open, filter>>
         /\ UNCHANGED <<table, made>> \/ Apply \/ (\E t \in Table : SomebodyElse(t))
         /\ UNCHANGED change \/ change' = NoChange \/ Submit \/ Apply
         /\ UNCHANGED overtaken \/ Acknowledge
<1>1. CASE Submit  BY <1>1 DEF Submit
<1>2. CASE Apply  BY <1>2 DEF Apply
<1>3. CASE FailChange  BY <1>3 DEF FailChange
<1>4. CASE Acknowledge  BY <1>4 DEF Acknowledge
<1>5. CASE \E t \in Table : SomebodyElse(t)  BY <1>5 DEF SomebodyElse
<1> QED  BY <1>1, <1>2, <1>3, <1>4, <1>5

\* the three kinds of steps
Opening == (\E s \in Screen : Open(s)) \/ (\E f \in Filters : SetFilter(f))
Reading ==
  \E q \in Query : Collect(q) \/ RefetchQuery(q) \/ Serve(q) \/ Arrive(q) \/ FailFetch(q)
Changing ==
  Submit \/ Apply \/ FailChange \/ Acknowledge \/ (\E t \in Table : SomebodyElse(t))

LEMMA StepsAre == ScreensNext => Opening \/ Reading \/ Changing
  BY DEF ScreensNext, Opening, Reading, Changing

\* the tasks screen filters by one of its filters
FilterOK == filter \in Filter

LEMMA FilterStep == FilterOK /\ [ScreensNext]_screensVars => FilterOK'
<1> SUFFICES ASSUME filter \in Filter, [ScreensNext]_screensVars PROVE filter' \in Filter
  BY DEF FilterOK
<1>1. CASE Opening  BY <1>1, OpeningLeaves DEF Opening
<1>2. CASE Reading  BY <1>2, ReadingLeaves DEF Reading
<1>3. CASE Changing  BY <1>3, ChangingLeaves DEF Changing
<1>4. CASE UNCHANGED screensVars  BY <1>4 DEF screensVars
<1> QED  BY <1>1, <1>2, <1>3, <1>4, StepsAre

LEMMA FilterInitially == ScreensInit => FilterOK
  BY DEF ScreensInit, Filter, FilterOK

LEMMA FilterInvariant == ScreensSpec => []FilterOK
  BY FilterInitially, FilterStep, PTL DEF ScreensSpec

LEMMA ReadsAre ==
  ASSUME FilterOK, NEW s
  PROVE  Reads(s) \subseteq Query
<1>1. ASSUME NEW u \in Uses(s) PROVE u.reads \subseteq Query
  <2>1. CASE s = "tasks"
    <3>1. u.reads = {filter, "members"}  BY <1>1, <2>1 DEF Uses, TasksScreen
    <3> QED  BY <3>1 DEF Query, FilterOK
  <2>2. CASE s = "note"
    <3>1. u.reads = {"library", "detail", "comments"}  BY <1>1, <2>2 DEF Uses, NoteEngagement
    <3> QED  BY <3>1 DEF Query
  <2>3. CASE s \in {"members", "invitations", "workspaces", "library", "roles", "audit"}
    <3>1. u.reads = {s}
      BY <1>1, <2>3 DEF Uses, MembersScreen, InvitationsScreen, WorkspacesScreen, LibraryScreen,
         RolesView, AuditLogViewer
    <3> QED  BY <2>3, <3>1 DEF Query
  <2>4. CASE s \notin {"tasks", "note", "members", "invitations", "workspaces", "library",
                       "roles", "audit"}
    BY <1>1, <2>4 DEF Uses
  <2> QED  BY <2>1, <2>2, <2>3, <2>4
<1> QED  BY <1>1 DEF Reads

\* the screen shown can read what it did not open on, and every fetch it awaits
ShapesOK ==
  /\ borrowed \subseteq Query
  /\ \A q \in Observed \ borrowed : ~ForAnother(entry[q], open)

LEMMA ForAnotherIs ==
  ASSUME NEW e \in EntryType, NEW s
  PROVE  /\ ForAnother(Sent(e, s), s) => ForAnother(e, s)
         /\ \A b \in BOOLEAN : ForAnother([e EXCEPT !.invalid = b], s) <=> ForAnother(e, s)
<1>1. ForAnother(Sent(e, s), s) => ForAnother(e, s)
  <2>1. PICK d : d = Sent(e, s)  OBVIOUS
  <2>2. d.at = e.at /\ d.shape = e.shape /\ d.fetchShape = ShapeFor(s)
    BY <2>1 DEF Sent, EntryType
  <2> QED  BY <2>1, <2>2 DEF ForAnother, HasData
<1>2. ASSUME NEW b \in BOOLEAN
      PROVE  ForAnother([e EXCEPT !.invalid = b], s) <=> ForAnother(e, s)
  <2>1. PICK d : d = [e EXCEPT !.invalid = b]  OBVIOUS
  <2>2. d.at = e.at /\ d.shape = e.shape /\ d.fetch = e.fetch /\ d.fetchShape = e.fetchShape
    BY <2>1 DEF EntryType
  <2> QED  BY <2>1, <2>2 DEF ForAnother, HasData
<1> QED  BY <1>1, <1>2

\* a screen that opens remembers what it cannot read
LEMMA MountShapes ==
  ASSUME FilterOK, NEW s \in Screen, NEW f \in Filter, Mount(s, f), filter' = f
  PROVE  ShapesOK'
<1>1. PICK reads : reads = IF s = "tasks" THEN {f, "members"} ELSE Reads(s)  OBVIOUS
<1>2. reads \subseteq Query  BY <1>1, ReadsAre DEF Query
<1>3. CASE Unrenderable(s, entry)
  <2>1. open' = "crashed" /\ borrowed' = {}  BY <1>3 DEF Mount
  <2>2. Observed' = {}  BY <2>1 DEF Observed, Reads, Uses
  <2> QED  BY <2>1, <2>2 DEF ShapesOK
<1>4. CASE ~Unrenderable(s, entry)
  <2>1. open' = s /\ borrowed' = {q \in reads : ForAnother(entry'[q], s)}
    BY <1>1, <1>4 DEF Mount
  <2>2. Observed' = reads
    <3>1. CASE s = "tasks"
      <4>1. Observed' = {f, "members"}
        BY <2>1, <3>1 DEF Observed, Reads, Uses, TasksScreen
      <4> QED  BY <1>1, <3>1, <4>1
    <3>2. CASE s # "tasks"
      <4>1. Observed' = Reads(s)  BY <2>1, <3>2 DEF Observed, Reads, Uses
      <4> QED  BY <1>1, <3>2, <4>1
    <3> QED  BY <3>1, <3>2
  <2>3. borrowed' \subseteq Query  BY <1>2, <2>1
  <2>4. ASSUME NEW q \in Observed' \ borrowed' PROVE ~ForAnother(entry'[q], open')
    BY <2>1, <2>2
  <2>5. \A q \in (Observed \ borrowed)' : ~ForAnother(entry[q], open)'
    BY <2>4 DEF ForAnother, HasData, ShapeFor
  <2> QED  BY <2>3, <2>5 DEF ShapesOK
<1> QED  BY <1>3, <1>4

\* nothing is mounted, and no entry comes to hold what the screen cannot read
LEMMA ShapesLast ==
  ASSUME ShapesOK, UNCHANGED <<open, filter, borrowed>>,
         \A q \in Observed : ForAnother(entry'[q], open) => ForAnother(entry[q], open)
  PROVE  ShapesOK'
<1>1. Observed' = Observed  BY DEF Observed, Reads, Uses
<1>2. ASSUME NEW q \in Observed \ borrowed PROVE ~ForAnother(entry'[q], open)
  BY DEF ShapesOK
<1>3. \A q \in (Observed \ borrowed)' : ~ForAnother(entry[q], open)'
  BY <1>1, <1>2 DEF ForAnother, HasData, ShapeFor
<1> QED  BY <1>3 DEF ShapesOK

LEMMA ArriveShapes ==
  ASSUME ScreensInv, ShapesOK, NEW q \in Query, Arrive(q)
  PROVE  ShapesOK'
<1>1. entry \in [Query -> EntryType]  BY DEF ScreensInv, CountsOK
<1>2. PICK d : d = [NoEntry EXCEPT !.at = entry[q].read, !.shape = entry[q].fetchShape]
  OBVIOUS
<1>3. d.shape = entry[q].fetchShape /\ d.fetch = "none"  BY <1>2 DEF NoEntry
<1>4. /\ entry' = [entry EXCEPT ![q] = d] /\ entry[q].fetch = "read" /\ filter' = filter
      /\ borrowed' = IF entry[q].fetchShape = ShapeFor(open) THEN borrowed \ {q} ELSE borrowed
      /\ open' \in {open, "crashed"}
  BY <1>2 DEF Arrive
<1>5. borrowed' \subseteq Query  BY <1>4 DEF ShapesOK
<1>6. CASE open' = "crashed"
  <2>1. Observed' = {}  BY <1>6 DEF Observed, Reads, Uses
  <2> QED  BY <1>5, <2>1 DEF ShapesOK
<1>7. CASE open' = open
  <2>1. Observed' = Observed  BY <1>4, <1>7 DEF Observed, Reads, Uses
  <2>2. ASSUME NEW p \in Observed, p \notin borrowed' PROVE ~ForAnother(entry'[p], open)
    <3>1. CASE p # q
      <4>1. entry'[p] = entry[p]  BY <1>4, <3>1
      <4>2. p \notin borrowed  BY <1>4, <2>2, <3>1
      <4> QED  BY <4>1, <4>2 DEF ShapesOK
    <3>2. CASE p = q
      <4>1. entry'[p] = d  BY <1>1, <1>4, <3>2
      <4>2. d.shape = ShapeFor(open)
        <5>1. SUFFICES ASSUME entry[q].fetchShape # ShapeFor(open) PROVE FALSE  BY <1>3
        <5>2. p \notin borrowed /\ ForAnother(entry[q], open)
          BY <1>4, <2>2, <5>1 DEF ForAnother
        <5> QED  BY <3>2, <5>2 DEF ShapesOK
      <4> QED  BY <1>3, <4>1, <4>2 DEF ForAnother
    <3> QED  BY <3>1, <3>2
  <2>3. \A p \in (Observed \ borrowed)' : ~ForAnother(entry[p], open)'
    BY <1>7, <2>1, <2>2 DEF ForAnother, HasData, ShapeFor
  <2> QED  BY <1>5, <2>3 DEF ShapesOK
<1> QED  BY <1>4, <1>6, <1>7

LEMMA ShapesStep ==
  ScreensInv /\ FilterOK /\ ShapesOK /\ [ScreensNext]_screensVars => ShapesOK'
<1> SUFFICES ASSUME ScreensInv, FilterOK, ShapesOK, [ScreensNext]_screensVars PROVE ShapesOK'
  OBVIOUS
<1>1. entry \in [Query -> EntryType] /\ Observed \subseteq Query
  BY ReadsAre DEF ScreensInv, CountsOK, Observed
<1>2. ASSUME NEW s \in Screen, Open(s) PROVE ShapesOK'
  <2>1. Mount(s, "draft") /\ filter' = "draft" /\ "draft" \in Filter  BY <1>2 DEF Open, Filter
  <2> QED  BY <2>1, MountShapes
<1>3. ASSUME NEW f \in Filters, SetFilter(f) PROVE ShapesOK'
  <2>1. Mount("tasks", f) /\ filter' = f /\ f \in Filter /\ "tasks" \in Screen
    BY <1>3, Bounds DEF SetFilter, Screen
  <2> QED  BY <2>1, MountShapes
<1>4. ASSUME NEW p \in Query, Collect(p) \/ RefetchQuery(p) \/ Serve(p) \/ FailFetch(p)
      PROVE  ShapesOK'
  <2>1. UNCHANGED <<open, filter, borrowed>>
    BY <1>4 DEF Collect, RefetchQuery, Serve, FailFetch
  <2>2. ASSUME NEW q \in Observed
        PROVE  ForAnother(entry'[q], open) => ForAnother(entry[q], open)
    <3>1. entry[q] \in EntryType  BY <1>1
    <3>2. CASE entry'[q] = entry[q]  BY <3>2
    <3>3. CASE entry'[q] = Sent(entry[q], open)  BY <3>1, <3>3, ForAnotherIs
    <3>4. CASE /\ entry'[q].at = entry[q].at /\ entry'[q].shape = entry[q].shape
               /\ \/ entry'[q].fetch = "none"
                  \/ /\ entry[q].fetch # "none"
                     /\ entry'[q].fetchShape = entry[q].fetchShape
      BY <3>4 DEF ForAnother, HasData
    <3>5. CASE Collect(p)  BY <1>1, <3>2, <3>5 DEF Collect
    <3>6. CASE RefetchQuery(p)  BY <1>1, <3>2, <3>3, <3>6 DEF RefetchQuery
    <3>7. CASE Serve(p)  BY <1>1, <3>2, <3>4, <3>7 DEF Serve, EntryType
    <3>8. CASE FailFetch(p)  BY <1>1, <3>2, <3>4, <3>8 DEF FailFetch, EntryType
    <3> QED  BY <1>4, <3>5, <3>6, <3>7, <3>8
  <2> QED  BY <2>1, <2>2, ShapesLast
<1>5. CASE \E p \in Query : Arrive(p)  BY <1>5, ArriveShapes
<1>6. CASE Acknowledge
  <2>1. UNCHANGED <<open, filter, borrowed>>  BY <1>6 DEF Acknowledge
  <2>2. ASSUME NEW q \in Observed
        PROVE  ForAnother(entry'[q], open) => ForAnother(entry[q], open)
    <3>1. q \in Query /\ entry[q] \in EntryType  BY <1>1
    <3>2. PICK e : e = [entry[q] EXCEPT !.invalid = TRUE]  OBVIOUS
    <3>3. e \in EntryType /\ (ForAnother(e, open) <=> ForAnother(entry[q], open))
      BY <3>1, <3>2, ForAnotherIs DEF EntryType
    <3>4. entry'[q] \in {entry[q], e, Sent(e, open)}
      BY <1>6, <3>1, <3>2 DEF Acknowledge, invalidateQueries
    <3> QED  BY <3>3, <3>4, ForAnotherIs
  <2> QED  BY <2>1, <2>2, ShapesLast
<1>7. CASE UNCHANGED <<open, filter, borrowed, entry>>  BY <1>7, ShapesLast
<1> QED
  BY <1>2, <1>3, <1>4, <1>5, <1>6, <1>7
  DEF ScreensNext, Submit, Apply, FailChange, SomebodyElse, screensVars

LEMMA ShapesInitially == ScreensInit => ShapesOK
  BY DEF ScreensInit, ShapesOK, Observed, Reads, Uses

\* In every reachable state what the screen shown holds and awaits is in the
\* shape it reads, but for what it opened on that was the other screen's
\* (workspace-client.ts listMembers, members.screen.tsx).
THEOREM ShapesInvariant == ScreensSpec => []ShapesOK
  BY ShapesInitially, ShapesStep, ScreensInvariant, FilterInvariant, PTL DEF ScreensSpec

\* A person's acknowledged change shows on every screen that is at rest,
\* whichever screen it was made from, in the shape the screen reads, but for a
\* refresh that joined a fetch that had read too early, and for the shape of
\* what a screen opened on (members.screen.tsx, invitations.screen.tsx,
\* workspaces.screen.tsx, tasks.screen.tsx, library.screen.tsx: refresh).
THEOREM ChangesShow == ScreensSpec => []OwnChangesShow
<1>1. ASSUME ScreensInv, FilterOK, ShapesOK PROVE OwnChangesShow
  <2>1. Observed \subseteq Query  BY <1>1, ReadsAre DEF Observed
  <2>2. SUFFICES ASSUME NEW q \in Observed, entry[q].fetch = "none", HasData(entry[q]),
                        ~entry[q].invalid
                 PROVE  /\ q \notin overtaken => entry[q].at >= seen[q]
                        /\ q \notin borrowed => entry[q].shape = ShapeFor(open)
    BY DEF OwnChangesShow
  <2>3. q \notin overtaken => entry[q].at >= seen[q]
    BY <1>1, <2>1, <2>2 DEF ScreensInv, EntriesOK, Shows
  <2>4. q \notin borrowed => entry[q].shape = ShapeFor(open)
    BY <1>1, <2>2 DEF ShapesOK, ForAnother
  <2> QED  BY <2>3, <2>4
<1> QED  BY <1>1, ScreensInvariant, FilterInvariant, ShapesInvariant, PTL

-----------------------------------------------------------------------------
\* The bound on the changes, and the types

\* where what an entry holds comes from
LEMMA EntriesCome ==
  ASSUME ScreensInv, [ScreensNext]_screensVars, NEW q \in Query
  PROVE  /\ entry'[q].at \in {entry[q].at, entry[q].read, Unread}
         /\ entry'[q].read \in {entry[q].read, table[TableOf(q)], Unread}
<1>1. entry \in [Query -> EntryType]  BY DEF ScreensInv, CountsOK
<1>2. NoEntry.at = Unread /\ NoEntry.read = Unread  BY DEF NoEntry
<1>3. ASSUME NEW e \in EntryType, NEW s
      PROVE  /\ Sent(e, s).at = e.at /\ Sent(e, s).read = Unread
             /\ MountedOn(e, s) \in {e, Sent(e, s)}
  BY DEF Sent, EntryType, MountedOn
<1>4. ASSUME NEW s, NEW f, Mount(s, f)
      PROVE  entry'[q] \in {entry[q], Sent(entry[q], s)}
  BY <1>1, <1>3, <1>4 DEF Mount
<1>5. CASE (\E s \in Screen : Open(s)) \/ (\E f \in Filters : SetFilter(f))
  BY <1>1, <1>3, <1>4, <1>5 DEF Open, SetFilter
<1>6. CASE \E p \in Query : Collect(p) \/ RefetchQuery(p)
  BY <1>1, <1>2, <1>3, <1>6 DEF Collect, RefetchQuery
<1>7. ASSUME NEW p \in Query, Serve(p)
      PROVE  entry'[q].at = entry[q].at /\ entry'[q].read \in {entry[q].read, table[TableOf(q)]}
  BY <1>1, <1>7 DEF Serve, EntryType
<1>8. ASSUME NEW p \in Query, Arrive(p)
      PROVE  entry'[q] = entry[q] \/ (entry'[q].at = entry[q].read /\ entry'[q].read = Unread)
  <2>1. PICK e : e = [NoEntry EXCEPT !.at = entry[p].read, !.shape = entry[p].fetchShape]
    OBVIOUS
  <2>2. e.at = entry[p].read /\ e.read = Unread  BY <2>1 DEF NoEntry
  <2>3. entry' = [entry EXCEPT ![p] = e]  BY <1>8, <2>1 DEF Arrive
  <2> QED  BY <1>1, <2>2, <2>3
<1>9. ASSUME NEW p \in Query, FailFetch(p)
      PROVE  entry'[q].at = entry[q].at /\ entry'[q].read \in {entry[q].read, Unread}
  BY <1>1, <1>9 DEF FailFetch, EntryType
<1>10. CASE Acknowledge
  <2>1. PICK e : e = [entry[q] EXCEPT !.invalid = TRUE]  OBVIOUS
  <2>2. e \in EntryType /\ e.at = entry[q].at /\ e.read = entry[q].read
    BY <1>1, <2>1 DEF EntryType
  <2>3. entry'[q] \in {entry[q], e, Sent(e, open)}
    BY <1>10, <2>1 DEF Acknowledge, invalidateQueries
  <2> QED  BY <1>3, <2>2, <2>3
<1>11. CASE UNCHANGED entry  BY <1>11
<1> QED
  BY <1>5, <1>6, <1>7, <1>8, <1>9, <1>10, <1>11
  DEF ScreensNext, Submit, Apply, FailChange, SomebodyElse, screensVars

\* no table has seen more changes than were made, and none more than the bound
BoundOK ==
  /\ made \in 0..MaxMade
  /\ \A t \in Table : table[t] <= made
  /\ \A q \in Query : entry[q].at <= Unread /\ entry[q].read <= Unread
  /\ change.at <= Unread
  /\ visited \in Tabs
  /\ open \in Screen \cup {"none", "crashed"}
  /\ overtaken \subseteq Query

LEMMA BoundInitially == ScreensInit => BoundOK
<1> SUFFICES ASSUME ScreensInit PROVE BoundOK  OBVIOUS
<1>1. Unread \in Nat /\ NoEntry.at = Unread /\ NoEntry.read = Unread  BY Bounds DEF Unread, NoEntry
<1>2. change.at = Unread  BY DEF ScreensInit, NoChange
<1> QED  BY <1>1, <1>2, Bounds DEF ScreensInit, BoundOK

LEMMA BoundStep == ScreensInv /\ BoundOK /\ [ScreensNext]_screensVars => BoundOK'
<1> SUFFICES ASSUME ScreensInv, BoundOK, [ScreensNext]_screensVars PROVE BoundOK'  OBVIOUS
<1>0. /\ visited' = visited /\ open' \in {open, "crashed"} \cup Screen
      /\ UNCHANGED <<table, made>> \/ Apply \/ (\E t \in Table : SomebodyElse(t))
      /\ UNCHANGED change \/ change' = NoChange \/ Submit \/ Apply
      /\ overtaken' \subseteq overtaken \/ Acknowledge
  <2>1. CASE Opening  BY <2>1, OpeningLeaves DEF Opening
  <2>2. CASE Reading  BY <2>2, ReadingLeaves DEF Reading
  <2>3. CASE Changing  BY <2>3, ChangingLeaves DEF Changing
  <2>4. CASE UNCHANGED screensVars  BY <2>4 DEF screensVars
  <2> QED  BY <2>1, <2>2, <2>3, <2>4, StepsAre
<1>1. /\ Unread = MaxMade + 1 /\ Unread \in Nat /\ MaxMade \in Nat /\ made \in Nat
      /\ table \in [Table -> Nat] /\ entry \in [Query -> EntryType]
  BY Bounds DEF Unread, ScreensInv, CountsOK, BoundOK
<1>2. ASSUME NEW t \in Table, made < MaxMade, made' = made + 1,
             table' = [table EXCEPT ![t] = @ + 1]
      PROVE  made' \in 0..MaxMade /\ \A u \in Table : table'[u] <= made' /\ table'[u] \in Nat
  BY <1>1, <1>2 DEF BoundOK
<1>3. change.to \in Table  BY DEF ScreensInv, CountsOK
<1>4. made' \in 0..MaxMade /\ \A t \in Table : table'[t] <= made'
  <2>1. CASE Apply  BY <1>2, <1>3, <2>1 DEF Apply
  <2>2. CASE \E t \in Table : SomebodyElse(t)  BY <1>2, <2>2 DEF SomebodyElse
  <2>3. CASE UNCHANGED <<table, made>>  BY <2>3 DEF BoundOK
  <2> QED  BY <1>0, <2>1, <2>2, <2>3
<1>5. ASSUME NEW q \in Query PROVE entry'[q].at <= Unread /\ entry'[q].read <= Unread
  <2>1. table[TableOf(q)] \in Nat /\ table[TableOf(q)] <= made  BY <1>1, TablesAre DEF BoundOK
  <2>2. table[TableOf(q)] <= Unread  BY <1>1, <2>1 DEF BoundOK
  <2>3. entry[q].at <= Unread /\ entry[q].read <= Unread  BY DEF BoundOK
  <2> QED  BY <1>1, <2>2, <2>3, EntriesCome
<1>6. change'.at <= Unread
  <2>1. CASE Submit  BY <1>1, <2>1 DEF Submit
  <2>2. CASE Apply
    <3>1. PICK t \in Table : t = change.to  BY <1>3
    <3>2. PICK n : n = table'[t]  OBVIOUS
    <3>3. n \in Nat /\ n <= made' /\ made' \in 0..MaxMade
      <4>1. made < MaxMade /\ made' = made + 1 /\ table' = [table EXCEPT ![t] = @ + 1]
        BY <2>2, <3>1 DEF Apply
      <4>2. made' \in 0..MaxMade /\ table'[t] <= made' /\ table'[t] \in Nat  BY <1>2, <4>1
      <4> QED  BY <3>2, <4>2
    <3>4. change' = [change EXCEPT !.stage = "applied", !.at = n]
      BY <2>2, <3>1, <3>2 DEF Apply
    <3>5. change'.at = n  BY <3>4 DEF ScreensInv, CountsOK
    <3> QED  BY <1>1, <3>3, <3>5
  <2>3. CASE change' = NoChange  BY <1>1, <2>3 DEF NoChange
  <2>4. CASE UNCHANGED change  BY <2>4 DEF BoundOK
  <2> QED  BY <1>0, <2>1, <2>2, <2>3, <2>4
<1>7. visited' = visited  BY <1>0
<1>8. open' \in {open, "crashed"} \cup Screen  BY <1>0
<1>9. overtaken' \subseteq Query
  <2>1. CASE Acknowledge
    <3>1. change.refreshed \subseteq Query  BY DEF ScreensInv, CountsOK
    <3> QED  BY <2>1, <3>1 DEF Acknowledge, BoundOK
  <2>2. CASE overtaken' \subseteq overtaken  BY <2>2 DEF BoundOK
  <2> QED  BY <1>0, <2>1, <2>2
<1> QED  BY <1>4, <1>5, <1>6, <1>7, <1>8, <1>9 DEF BoundOK

LEMMA TypesAre == ScreensInv /\ BoundOK /\ FilterOK /\ ShapesOK => ScreensTypeOK
<1> SUFFICES ASSUME ScreensInv, BoundOK, FilterOK, ShapesOK PROVE ScreensTypeOK  OBVIOUS
<1>1. /\ Unread = MaxMade + 1 /\ Unread \in Nat /\ MaxMade \in Nat /\ made \in 0..MaxMade
      /\ table \in [Table -> Nat] /\ entry \in [Query -> EntryType] /\ seen \in [Query -> Nat]
  BY Bounds DEF Unread, ScreensInv, CountsOK, BoundOK
<1>2. \A t \in Table : table[t] \in 0..MaxMade  BY <1>1 DEF BoundOK
<1>3. ASSUME NEW q \in Query PROVE seen[q] \in 0..MaxMade
  <2>1. seen[q] <= table[TableOf(q)] /\ table[TableOf(q)] \in 0..MaxMade
    BY <1>2, TablesAre DEF ScreensInv, SeenOK
  <2> QED  BY <1>1, <2>1
<1>4. ASSUME NEW q \in Query PROVE entry[q] \in QueryEntry
  <2>1. entry[q] \in EntryType /\ entry[q].at <= Unread /\ entry[q].read <= Unread
    BY <1>1 DEF BoundOK
  <2>2. entry[q].at \in 0..Unread /\ entry[q].read \in 0..Unread  BY <1>1, <2>1 DEF EntryType
  <2> QED  BY <2>1, <2>2 DEF EntryType, QueryEntry
<1>5. change \in [stage : {"none", "sent", "applied"}, refreshed : SUBSET Query, to : Table,
                  at : 0..Unread]
  <2>1. change.at \in 0..Unread  BY <1>1 DEF ScreensInv, CountsOK, BoundOK
  <2> QED  BY <2>1 DEF ScreensInv, CountsOK
<1> QED  BY <1>1, <1>2, <1>3, <1>4, <1>5 DEF BoundOK, FilterOK, ShapesOK, ScreensTypeOK

\* Every variable of the screens keeps its type: no table, and nothing read of
\* one, is past the changes made (the screens over the query cache).
THEOREM ScreensTypeCorrect == ScreensSpec => []ScreensTypeOK
<1>1. BoundOK /\ ScreensInv /\ [ScreensNext]_screensVars => BoundOK'  BY BoundStep
<1> QED
  BY BoundInitially, <1>1, TypesAre, ScreensInvariant, FilterInvariant, ShapesInvariant, PTL
  DEF ScreensSpec

-----------------------------------------------------------------------------
\* Console

\* the server's rows: no membership of what was not created, and no slug twice
RowsOK ==
  /\ \A o \in Org : slug[o] = None => role[o] = None
  /\ \A o, p \in Org : slug[o] = slug[p] /\ slug[o] # None => o = p

PathOK == path.area # "o" => path.slug = None

Listed(m, s) == \E o \in m.organizations : o.slug = s

\* what the entry of k may hold: an answer names one of its rows as active, and
\* that of the slug asked for if it lists it
AnswerOK(k, e) ==
  /\ e.status # "data" => e.me = NoMe
  /\ e.status = "data" /\ e.me.organizations # {} => ActiveOf(e.me) # {}
  /\ e.status = "data" /\ Listed(e.me, k) => \A o \in ActiveOf(e.me) : o.slug = k

AnswersOK == \A k \in Keys : AnswerOK(k, cache[k])

\* the gate waits for the query of the address, unless the tab went back
\* meanwhile, and only for a first answer
WaitOK ==
  /\ view = "waiting" => key = path.slug \/ astray = "here"
  /\ view # "waiting" => cache[key].status # "pending"

\* a page at the root has loaded, and nothing else
IndexOK ==
  path.area = "index" =>
    /\ view \in {"waiting", "routing"} /\ key = None
    /\ \A k \in Keys \ {None} : cache[k] = Absent

Acting == view # "waiting" /\ isAuthenticated

\* page p may be rendered with what the gate holds: for an address the gate has
\* not come to, the active organization is the one of the address; for one it
\* has left, the session lists what it asked for
ActsFor(p) ==
  /\ p.area = "o" /\ key # p.slug => \E o \in ActiveOf(me) : o.slug = p.slug
  /\ key # None => \/ p.area = "o" /\ p.slug = key
                   \/ p.area = "app" /\ Listed(me, key)

ActingOK ==
  /\ InOrgShell => Listed(me, path.slug)
  /\ Acting /\ astray # "here" => ActsFor(path)

\* the other pages of the document are pages that settled, and may be rendered
\* as long as the gate has not rendered since
BesideOK ==
  /\ beside \subseteq Path
  /\ \A p \in beside : p.area # "index" /\ (p.area # "o" => p.slug = None)
  /\ path.area = "index" => beside = {}
  /\ view = "waiting" /\ astray = "no" => beside = {}
  /\ isAuthenticated /\ astray = "no" => \A p \in beside : ActsFor(p)

\* the entry of k in c holds nothing the server would now deny
Fine(c, k) ==
  /\ c[k].status # "lapsed"
  /\ c[k].status = "data" => c[k].me.organizations = Memberships

PromiseOK ==
  promised =>
    /\ cookie /\ astray # "here"
    /\ path.area \in {"index", "app", "o"} /\ Mounted(path)
    /\ view # "missing"
    /\ path.area = "o" => Fine(cache, path.slug) /\ \E o \in Memberships : o.slug = path.slug
    /\ Fine(cache, key) /\ cache[key].status \in {"data", "pending"}

ServerOK ==
  /\ config \in Configs
  /\ slug \in [Org -> Slug \cup {None}]
  /\ role \in [Org -> Held \cup {None}]
  /\ cookie \in BOOLEAN
  /\ changes \in 0..MaxChanges
  /\ RowsOK

TabOK ==
  /\ path \in Path
  /\ view \in {"waiting", "routing", "shown", "missing"}
  /\ key \in Keys
  /\ cache \in [Keys -> Entry]
  /\ astray \in {"no", "behind", "here"}
  /\ PathOK /\ AnswersOK /\ WaitOK /\ IndexOK /\ ActingOK /\ BesideOK

ConsoleInv == ServerOK /\ TabOK /\ promised \in BOOLEAN /\ PromiseOK

LEMMA ConstantsAre ==
  /\ None \notin Slug /\ Malformed \notin Slug /\ None \in Keys /\ Malformed \in Keys
  /\ Slug \subseteq Keys /\ Malformed # None
  BY Kinds DEF Keys

LEMMA PagesAre ==
  /\ Index \in Path /\ Index.area = "index" /\ Index.slug = None
  /\ SignInPage \in Path /\ SignInPage.area = "auth" /\ SignInPage.slug = None
  /\ PersonalModule \in Path /\ PersonalModule.area = "app" /\ PersonalModule.slug = None
  /\ PersonalModule.section = "module"
  /\ At("app", "") \in Path /\ At("app", "").area = "app" /\ At("app", "").slug = None
  /\ At("app", "").section = ""
  BY DEF Index, SignInPage, PersonalModule, At, Path

LEMMA InOrgIs ==
  ASSUME NEW s \in Slug \cup {Malformed, None}, NEW section
  PROVE  /\ InOrg(s, section).area = "o" /\ InOrg(s, section).slug = s
         /\ InOrg(s, "") \in Path
  BY DEF InOrg, Path

LEMMA EntriesAre ==
  /\ NoMe \in Me /\ NoMe.organizations = {}
  /\ Absent \in Entry /\ Absent.status = "absent" /\ Absent.me = NoMe /\ ~Absent.fetching
  /\ Pending \in Entry /\ Pending.status = "pending" /\ Pending.me = NoMe
<1>1. NoMe \in Me /\ NoMe.organizations = {}  BY DEF NoMe, Me
<1>2. Absent \in Entry /\ Absent.status = "absent" /\ Absent.me = NoMe /\ ~Absent.fetching
  BY <1>1 DEF Absent, Entry
<1>3. Pending \in Entry /\ Pending.status = "pending" /\ Pending.me = NoMe
  BY <1>1 DEF Pending, Entry
<1> QED  BY <1>1, <1>2, <1>3

LEMMA FailedIs ==
  ASSUME NEW e \in Entry
  PROVE  /\ Failed(e) \in Entry /\ Failed(e).me = NoMe
         /\ Failed(e).status \in {"lapsed", "error"}
<1>1. NoMe \in Me  BY EntriesAre
<1> QED  BY <1>1 DEF Failed, Entry

\* what holds no data is as it should be, whatever was asked
LEMMA NoAnswerOK ==
  ASSUME NEW k, NEW e, e.status # "data", e.me = NoMe
  PROVE  AnswerOK(k, e)
  BY DEF AnswerOK

LEMMA MountOnIs ==
  ASSUME NEW c \in [Keys -> Entry], NEW k \in Keys
  PROVE  /\ MountOn(c, k) \in [Keys -> Entry]
         /\ \A j \in Keys \ {k} : MountOn(c, k)[j] = c[j]
         /\ IF c[k].status \in {"absent", "error"} THEN MountOn(c, k)[k] = Pending
            ELSE MountOn(c, k)[k] = c[k]
  BY EntriesAre DEF MountOn

LEMMA FetchAgainIs ==
  ASSUME NEW c \in [Keys -> Entry], NEW k \in Keys
  PROVE  /\ FetchAgain(c, k) \in [Keys -> Entry]
         /\ \A j \in Keys \ {k} : FetchAgain(c, k)[j] = c[j]
         /\ LET e == IF c[k].status \in {"absent", "error"} THEN Pending ELSE c[k]
            IN FetchAgain(c, k)[k].status = e.status /\ FetchAgain(c, k)[k].me = e.me
<1>1. PICK m \in [Keys -> Entry] : m = MountOn(c, k)  BY MountOnIs
<1>2. /\ \A j \in Keys \ {k} : m[j] = c[j]
      /\ m[k] = IF c[k].status \in {"absent", "error"} THEN Pending ELSE c[k]
  BY <1>1, MountOnIs
<1>3. PICK e : e = [m[k] EXCEPT !.fetching = TRUE]  OBVIOUS
<1>4. e \in Entry /\ e.status = m[k].status /\ e.me = m[k].me  BY <1>3 DEF Entry
<1>5. FetchAgain(c, k) = [m EXCEPT ![k] = e]  BY <1>1, <1>3 DEF FetchAgain
<1> QED  BY <1>2, <1>4, <1>5

LEMMA MembershipsAre ==
  ASSUME ServerOK
  PROVE  /\ Memberships \subseteq Listing
         /\ \A o \in Memberships : o.org \in Org /\ o.slug = slug[o.org] /\ o.slug \in Slug
         /\ \A o, p \in Memberships : o.org = p.org \/ o.slug = p.slug => o = p
<1>1. ASSUME NEW o \in Memberships
      PROVE  /\ o \in Listing /\ o.org \in Org /\ o.slug = slug[o.org] /\ o.slug \in Slug
             /\ o = [org |-> o.org, slug |-> slug[o.org], role |-> role[o.org]]
  <2>1. PICK x \in Org : role[x] # None /\ o = [org |-> x, slug |-> slug[x], role |-> role[x]]
    BY DEF Memberships
  <2>2. slug[x] \in Slug /\ role[x] \in Held  BY <2>1 DEF ServerOK, RowsOK
  <2> QED  BY <2>1, <2>2 DEF Listing
<1>2. ASSUME NEW o \in Memberships, NEW p \in Memberships, o.org = p.org \/ o.slug = p.slug
      PROVE  o = p
  <2>1. o.org = p.org
    <3>1. o.slug # None  BY <1>1, ConstantsAre
    <3>2. o.slug = p.slug => slug[o.org] = slug[p.org] /\ slug[o.org] # None  BY <1>1, <3>1
    <3> QED  BY <1>1, <1>2, <3>2 DEF ServerOK, RowsOK
  <2> QED  BY <1>1, <2>1
<1> QED  BY <1>1, <1>2

\* an answer of the server is an entry, and as an answer should be
LEMMA getMeIs ==
  ASSUME ServerOK, NEW k \in Keys, NEW m \in getMe(k)
  PROVE  /\ m \in Me /\ m.organizations = Memberships
         /\ AnswerOK(k, [status |-> "data", me |-> m, fetching |-> FALSE])
         /\ [status |-> "data", me |-> m, fetching |-> FALSE] \in Entry
<1>1. PICK asked : asked = {o \in Memberships : o.slug = k}  OBVIOUS
<1>2. PICK a \in IF asked # {} THEN {o.org : o \in asked}
                 ELSE IF Memberships # {} THEN {o.org : o \in Memberships} ELSE {None} :
        m = [organizations |-> Memberships, active |-> a]
  BY <1>1 DEF getMe
<1>3. a \in Org \cup {None} /\ Memberships \subseteq Listing  BY <1>1, <1>2, MembershipsAre
<1>4. m \in Me /\ m.organizations = Memberships /\ m.active = a  BY <1>2, <1>3 DEF Me
<1>5. ActiveOf(m) = {o \in Memberships : o.org = a}  BY <1>4 DEF ActiveOf
<1>6. Memberships # {} => ActiveOf(m) # {}  BY <1>1, <1>2, <1>5
<1>7. Listed(m, k) => \A o \in ActiveOf(m) : o.slug = k
  <2>1. SUFFICES ASSUME Listed(m, k), NEW o \in ActiveOf(m) PROVE o.slug = k  OBVIOUS
  <2>2. asked # {}  BY <1>1, <1>4, <2>1 DEF Listed
  <2>3. PICK p \in asked : p.org = a  BY <1>2, <2>2
  <2>4. o \in Memberships /\ o.org = p.org /\ p \in Memberships /\ p.slug = k
    BY <1>1, <1>5, <2>1, <2>3
  <2> QED  BY <2>4, MembershipsAre
<1>8. PICK e : e = [status |-> "data", me |-> m, fetching |-> FALSE]  OBVIOUS
<1>9. e \in Entry /\ e.status = "data" /\ e.me = m  BY <1>4, <1>8 DEF Entry
<1> QED  BY <1>4, <1>6, <1>7, <1>8, <1>9 DEF AnswerOK

\* the same organization is active in two answers for a slug the person has
LEMMA SameAnswer ==
  ASSUME ServerOK, NEW k \in Keys, NEW m \in getMe(k), NEW n \in Me,
         n.organizations = Memberships, Listed(n, k),
         ActiveOf(n) # {}, \A o \in ActiveOf(n) : o.slug = k
  PROVE  m = n
<1>1. m \in Me /\ m.organizations = Memberships /\ ActiveOf(m) # {}
      /\ \A o \in ActiveOf(m) : o.slug = k
  <2>1. /\ m \in Me /\ m.organizations = Memberships
        /\ AnswerOK(k, [status |-> "data", me |-> m, fetching |-> FALSE])
    BY getMeIs
  <2>2. PICK e : e = [status |-> "data", me |-> m, fetching |-> FALSE]  OBVIOUS
  <2>3. AnswerOK(k, e) /\ e.status = "data" /\ e.me = m  BY <2>1, <2>2
  <2>4. Listed(m, k) /\ m.organizations # {}  BY <2>1 DEF Listed
  <2> QED  BY <2>1, <2>3, <2>4 DEF AnswerOK
<1>2. PICK o \in Memberships : o.org = m.active /\ o.slug = k  BY <1>1 DEF ActiveOf
<1>3. PICK p \in Memberships : p.org = n.active /\ p.slug = k  BY DEF ActiveOf
<1>4. o = p  BY <1>2, <1>3, MembershipsAre
<1>5. m.active = n.active /\ m.organizations = n.organizations  BY <1>1, <1>2, <1>3, <1>4
<1> QED  BY <1>1, <1>5 DEF Me

-----------------------------------------------------------------------------
\* The query cache and the gate

\* where an entry may be fetched or answered: not between redirects, and at
\* the root only the gate's
Fetches(k) == view # "routing" /\ (path.area = "index" => k = key)

\* the gate renders if the entry it observes differs
LEMMA UpdateKeepsTab ==
  ASSUME TabOK, NEW k \in Keys, Fetches(k), NEW c \in [Keys -> Entry], Update(c, k),
         \A j \in Keys \ {k} : c[j] = cache[j], AnswerOK(k, c[k])
  PROVE  TabOK'
<1>1. \A j \in Keys : AnswerOK(j, c[j])  BY DEF TabOK, AnswersOK
<1>2. path.slug \in Keys  BY DEF TabOK, Path, Keys
<1>3. CASE k = key /\ (c[k].status # cache[k].status \/ c[k].me # cache[k].me)
  <2>1. /\ key' = path.slug /\ path' = path
        /\ cache' = IF key' = key THEN c ELSE MountOn(c, key')
        /\ view' = IF cache'[key'].status = "pending" THEN "waiting" ELSE "routing"
        /\ beside' = beside /\ astray' = IF beside = {} THEN "no" ELSE "behind"
    BY <1>3 DEF Update, SessionGate, LeftBehind, orgSlugFromPath
  <2>2. /\ cache' \in [Keys -> Entry]
        /\ \A j \in Keys : cache'[j] = c[j] \/ cache'[j] = Pending
        /\ key' = key => cache' = c
    <3>1. PICK k1 \in Keys : k1 = key'  BY <1>2, <2>1
    <3>2. MountOn(c, k1) \in [Keys -> Entry]
          /\ \A j \in Keys : MountOn(c, k1)[j] = c[j] \/ MountOn(c, k1)[j] = Pending
      BY MountOnIs
    <3>3. cache' = c \/ (key' # key /\ cache' = MountOn(c, k1))  BY <2>1, <3>1
    <3> QED  BY <2>1, <3>2, <3>3
  <2>3. AnswersOK'
    <3>1. ASSUME NEW j \in Keys PROVE AnswerOK(j, cache'[j])
      <4>1. CASE cache'[j] = c[j]  BY <1>1, <4>1
      <4>2. CASE cache'[j] = Pending  BY <4>2, EntriesAre, NoAnswerOK
      <4> QED  BY <2>2, <4>1, <4>2
    <3> QED  BY <3>1 DEF AnswersOK
  <2>4. PathOK'  BY <2>1 DEF TabOK, PathOK
  <2>5. WaitOK'  BY <2>1 DEF WaitOK
  <2>6. IndexOK'
    <3>1. SUFFICES ASSUME path.area = "index"
                   PROVE  /\ view' \in {"waiting", "routing"} /\ key' = None
                          /\ \A j \in Keys \ {None} : cache'[j] = Absent
      BY <2>1 DEF IndexOK
    <3>2. key' = None /\ key = None  BY <2>1, <3>1 DEF TabOK, PathOK, IndexOK
    <3>3. \A j \in Keys \ {None} : cache'[j] = cache[j]  BY <1>3, <2>2, <3>2
    <3> QED  BY <2>1, <3>1, <3>2, <3>3 DEF TabOK, IndexOK
  <2>7. ActingOK'
    <3>1. ~InOrgShell'  BY <2>1 DEF InOrgShell
    <3>2. key' # None => path'.area = "o"  BY <2>1 DEF TabOK, PathOK
    <3>3. ActsFor(path)'  BY <2>1, <3>2 DEF ActsFor
    <3> QED  BY <3>1, <3>3 DEF ActingOK
  <2>8. /\ view' \in {"waiting", "routing", "shown", "missing"} /\ key' \in Keys /\ path' \in Path
        /\ astray' \in {"no", "behind", "here"}
    BY <1>2, <2>1 DEF TabOK
  <2>9. BesideOK'  BY <2>1 DEF TabOK, BesideOK
  <2> QED  BY <2>2, <2>3, <2>4, <2>5, <2>6, <2>7, <2>8, <2>9 DEF TabOK
<1>4. CASE ~(k = key /\ (c[k].status # cache[k].status \/ c[k].me # cache[k].me))
  <2>1. cache' = c /\ UNCHANGED <<path, view, key, beside, astray>>  BY <1>4 DEF Update
  <2>2. cache'[key].status = cache[key].status /\ me' = me
    BY <1>4, <2>1 DEF TabOK, me
  <2>3. isAuthenticated' <=> isAuthenticated  BY <2>1, <2>2 DEF isAuthenticated
  <2>4. AnswersOK'  BY <1>1, <2>1 DEF AnswersOK
  <2>5. PathOK' /\ WaitOK'  BY <2>1, <2>2 DEF TabOK, PathOK, WaitOK
  <2>6. IndexOK'
    <3>1. SUFFICES ASSUME path.area = "index"
                   PROVE  /\ view \in {"waiting", "routing"} /\ key = None
                          /\ \A j \in Keys \ {None} : cache'[j] = Absent
      BY <2>1 DEF IndexOK
    <3>2. k = None /\ key = None  BY <3>1 DEF TabOK, IndexOK, Fetches
    <3> QED  BY <2>1, <3>1, <3>2 DEF TabOK, IndexOK
  <2>7. ActingOK'
    <3>1. (Acting' <=> Acting) /\ (InOrgShell' <=> InOrgShell)
      BY <2>1, <2>3 DEF Acting, InOrgShell
    <3>2. ActsFor(path)' <=> ActsFor(path)  BY <2>1, <2>2 DEF ActsFor
    <3> QED  BY <2>1, <2>2, <3>1, <3>2 DEF TabOK, ActingOK
  <2>8. BesideOK'
    <3>1. ASSUME NEW p \in beside PROVE ActsFor(p)' <=> ActsFor(p)
      BY <2>1, <2>2 DEF ActsFor
    <3> QED  BY <2>1, <2>3, <3>1 DEF TabOK, BesideOK
  <2> QED  BY <2>1, <2>4, <2>5, <2>6, <2>7, <2>8 DEF TabOK
<1> QED  BY <1>3, <1>4

\* ... and keeps what was promised, if the entry holds what the server holds
LEMMA UpdateKeepsPromise ==
  ASSUME TabOK, PromiseOK, promised, UNCHANGED server, NEW k \in Keys, view # "routing",
         NEW c \in [Keys -> Entry], Update(c, k),
         \A j \in Keys \ {k} : c[j] = cache[j],
         \A j \in Keys : Fine(cache, j) => Fine(c, j),
         c[key].status \in {"data", "pending"},
         k = key /\ (c[k].status # cache[k].status \/ c[k].me # cache[k].me) =>
           path.area = "o" \/ key = path.slug
  PROVE  PromiseOK'
<1>1. /\ cookie /\ astray # "here"
      /\ path.area \in {"index", "app", "o"} /\ Mounted(path)
      /\ view # "missing"
      /\ path.area = "o" => Fine(cache, path.slug) /\ \E o \in Memberships : o.slug = path.slug
      /\ Fine(cache, key)
  BY DEF PromiseOK
<1>2. path.slug \in Keys /\ key \in Keys  BY DEF TabOK, Path, Keys
<1>3. Memberships' = Memberships /\ cookie' = cookie /\ config' = config
  BY DEF Memberships, server
<1>4. path' = path  BY DEF Update, SessionGate
<1>5. Mounted(path)' /\ path'.area \in {"index", "app", "o"}  BY <1>1, <1>3, <1>4 DEF Mounted
<1>0. astray' # "here"  BY <1>1 DEF Update, SessionGate, LeftBehind
<1>6. SUFFICES /\ view' # "missing"
               /\ path.area = "o" => Fine(cache', path.slug)
               /\ Fine(cache', key') /\ cache'[key'].status \in {"data", "pending"}
  BY <1>0, <1>1, <1>3, <1>4, <1>5 DEF PromiseOK, Fine
<1>7. CASE k = key /\ (c[k].status # cache[k].status \/ c[k].me # cache[k].me)
  <2>1. /\ key' = path.slug
        /\ cache' = IF key' = key THEN c ELSE MountOn(c, key')
        /\ view' = IF cache'[key'].status = "pending" THEN "waiting" ELSE "routing"
    BY <1>7 DEF Update, SessionGate, orgSlugFromPath
  <2>2. CASE path.slug = key
    <3>1. cache' = c /\ key' = key  BY <2>1, <2>2
    <3>2. Fine(c, key)  BY <1>1, <1>2
    <3> QED  BY <2>1, <2>2, <3>1, <3>2
  <2>3. CASE path.slug # key
    <3>1. path.area = "o" /\ Fine(c, path.slug)  BY <1>1, <1>2, <1>7, <2>3
    <3>2. PICK s \in Keys : s = path.slug  BY <1>2
    <3>3. cache' = MountOn(c, s)  BY <2>1, <2>3, <3>2
    <3>4. cache'[s] = IF c[s].status \in {"absent", "error"} THEN Pending ELSE c[s]
      BY <3>3, MountOnIs
    <3>5. c[s].status \in {"absent", "pending", "data", "error", "lapsed"}  BY DEF Entry
    <3>6. Fine(cache', s) /\ cache'[s].status \in {"data", "pending"}
      BY <3>1, <3>2, <3>4, <3>5, EntriesAre DEF Fine
    <3> QED  BY <2>1, <3>2, <3>6
  <2> QED  BY <2>2, <2>3
<1>8. CASE ~(k = key /\ (c[k].status # cache[k].status \/ c[k].me # cache[k].me))
  <2>1. cache' = c /\ UNCHANGED <<view, key>>  BY <1>8 DEF Update
  <2> QED  BY <1>1, <1>2, <2>1
<1> QED  BY <1>7, <1>8

\* a page that starts waits for the query of its address, with no other
LEMMA StartIs ==
  ASSUME NEW p \in Path, p.area # "o" => p.slug = None, Start(p),
         astray' \in {"no", "behind", "here"}, beside' \subseteq Path,
         \A q \in beside' : q.area # "index" /\ (q.area # "o" => q.slug = None),
         p.area = "index" \/ astray' = "no" => beside' = {}
  PROVE  /\ TabOK' /\ path' = p /\ view' = "waiting" /\ key' = p.slug
         /\ cache'[key'].status = "pending" /\ cache'[p.slug].status = "pending"
<1>1. PICK k \in Keys : k = p.slug  BY DEF Path, Keys
<1>2. PICK c : c = [j \in Keys |-> Absent]  OBVIOUS
<1>3. c \in [Keys -> Entry]  BY <1>2, EntriesAre
<1>4. /\ path' = p /\ key' = k /\ cache' = MountOn(c, k) /\ view' = "waiting"
  BY <1>1, <1>2 DEF Start, orgSlugFromPath
<1>5. /\ cache' \in [Keys -> Entry] /\ cache'[k] = Pending
      /\ \A j \in Keys \ {k} : cache'[j] = Absent
  <2>1. c[k].status \in {"absent", "error"}  BY <1>2, EntriesAre
  <2> QED  BY <1>2, <1>3, <1>4, <2>1, MountOnIs
<1>6. AnswersOK'
  <2>1. ASSUME NEW j \in Keys PROVE AnswerOK(j, cache'[j])
    <3>1. cache'[j] \in {Pending, Absent}  BY <1>5
    <3> QED  BY <3>1, EntriesAre, NoAnswerOK
  <2> QED  BY <2>1 DEF AnswersOK
<1>7. PathOK'  BY <1>4 DEF PathOK
<1>8. WaitOK'  BY <1>1, <1>4 DEF WaitOK
<1>9. IndexOK'  BY <1>1, <1>4, <1>5 DEF IndexOK
<1>10. ActingOK'  BY <1>4 DEF ActingOK, Acting, InOrgShell
<1>11. BesideOK'  BY <1>4 DEF BesideOK
<1> QED  BY <1>1, <1>4, <1>5, <1>6, <1>7, <1>8, <1>9, <1>10, <1>11, EntriesAre DEF TabOK

\* what is promised of a page that loads
LEMMA LoadKeeps ==
  ASSUME NEW p \in Path, p.area # "o" => p.slug = None, Load(p), ServerOK',
         promised' \in BOOLEAN,
         promised' => /\ cookie' /\ p.area \in {"index", "app", "o"} /\ Mounted(p)'
                      /\ p.area = "o" => \E o \in Memberships' : o.slug = p.slug
  PROVE  ConsoleInv'
<1>0. Start(p) /\ beside' = {} /\ astray' = "no"  BY DEF Load
<1>1. /\ TabOK' /\ path' = p /\ view' = "waiting" /\ key' = p.slug
      /\ cache'[key'].status = "pending" /\ cache'[p.slug].status = "pending"
  BY <1>0, StartIs
<1>2. PromiseOK'
  <2>1. Fine(cache, path.slug)' /\ Fine(cache, key)'  BY <1>1 DEF Fine
  <2>2. Mounted(p)' <=> Mounted(path)'  BY <1>1 DEF Mounted
  <2> QED  BY <1>0, <1>1, <2>1, <2>2 DEF PromiseOK
<1> QED  BY <1>1, <1>2 DEF ConsoleInv

LEMMA ServerLasts ==
  ASSUME ServerOK, UNCHANGED server
  PROVE  ServerOK' /\ Memberships' = Memberships
  BY DEF ServerOK, server, RowsOK, Memberships

LEMMA AnswerKeeps ==
  ASSUME ConsoleInv, NEW k \in Keys, Answer(k)
  PROVE  ConsoleInv'
<1>1. ServerOK /\ TabOK /\ PromiseOK /\ promised \in BOOLEAN  BY DEF ConsoleInv
<1>2. PICK e \in Outcomes(k) :
        /\ Update([cache EXCEPT ![k] = e], k)
        /\ promised' = (promised /\ e.status = "data")
  BY DEF Answer
<1>3. view # "routing" /\ cache[k].fetching /\ UNCHANGED server  BY DEF Answer
<1>4. cache[k] \in Entry /\ cache \in [Keys -> Entry] /\ key \in Keys  BY <1>1 DEF TabOK
<1>5. e \in Entry /\ AnswerOK(k, e)
      /\ (e.status = "data" => e.me \in getMe(k) /\ e.me.organizations = Memberships)
  <2>1. CASE cookie /\ k # Malformed
    <3>1. PICK m \in getMe(k) : e = [status |-> "data", me |-> m, fetching |-> FALSE]
      BY <2>1 DEF Outcomes
    <3>2. e \in Entry /\ AnswerOK(k, e) /\ m.organizations = Memberships
      BY <1>1, <3>1, getMeIs
    <3>3. e.me = m  BY <3>1
    <3> QED  BY <3>2, <3>3
  <2>2. CASE ~(cookie /\ k # Malformed)
    <3>1. e = Failed(cache[k])  BY <2>2 DEF Outcomes
    <3>2. e \in Entry /\ e.me = NoMe /\ e.status # "data"  BY <1>4, <3>1, FailedIs
    <3> QED  BY <3>2, NoAnswerOK
  <2> QED  BY <2>1, <2>2
<1>6. PICK c : c = [cache EXCEPT ![k] = e]  OBVIOUS
<1>7. c \in [Keys -> Entry] /\ c[k] = e /\ \A j \in Keys \ {k} : c[j] = cache[j]
  BY <1>4, <1>5, <1>6
<1>8. Update(c, k)  BY <1>2, <1>6
<1>9. Fetches(k)
  <2>1. SUFFICES ASSUME path.area = "index" PROVE k = key  BY <1>3 DEF Fetches
  <2>2. key = None /\ \A j \in Keys \ {None} : cache[j] = Absent
    BY <1>1, <2>1 DEF TabOK, IndexOK
  <2> QED  BY <1>3, <2>2, EntriesAre
<1>10. TabOK'  BY <1>1, <1>5, <1>7, <1>8, <1>9, UpdateKeepsTab
<1>11. ServerOK'  BY <1>1, <1>3, ServerLasts
<1>12. PromiseOK'
  <2>1. CASE ~promised'  BY <2>1 DEF PromiseOK
  <2>2. CASE promised'
    <3>1. promised /\ e.status = "data"  BY <1>1, <1>2, <2>2
    <3>2. e.me \in getMe(k) /\ e.me.organizations = Memberships  BY <1>5, <3>1
    <3>3. \A j \in Keys : Fine(cache, j) => Fine(c, j)
      BY <1>7, <3>1, <3>2 DEF Fine
    <3>4. c[key].status \in {"data", "pending"}
      BY <1>1, <1>4, <1>7, <3>1 DEF PromiseOK
    <3>5. k = key /\ (c[k].status # cache[k].status \/ c[k].me # cache[k].me) =>
            path.area = "o" \/ key = path.slug
      <4>1. SUFFICES ASSUME k = key, path.area # "o", key # path.slug
                     PROVE  c[k].status = cache[k].status /\ c[k].me = cache[k].me
        OBVIOUS
      <4>2. key # None /\ view # "waiting"
        BY <1>1, <3>1, <4>1 DEF TabOK, PathOK, WaitOK, PromiseOK
      <4>3. view = "shown" /\ cache[key].status = "data"
        BY <1>1, <1>3, <3>1, <4>2 DEF TabOK, WaitOK, PromiseOK
      <4>4. Listed(me, key)
        <5>1. Acting /\ astray # "here"
          BY <1>1, <3>1, <4>3 DEF PromiseOK, Acting, isAuthenticated
        <5> QED  BY <1>1, <4>1, <4>2, <5>1 DEF TabOK, ActingOK, ActsFor
      <4>5. PICK n \in Me : n = cache[key].me  BY <1>4 DEF Entry
      <4>6. n.organizations = Memberships  BY <1>1, <3>1, <4>3, <4>5 DEF PromiseOK, Fine
      <4>7. Listed(n, key) /\ n.organizations # {}  BY <4>4, <4>5 DEF me, Listed
      <4>8. AnswerOK(key, cache[key])  BY <1>1, <1>4 DEF TabOK, AnswersOK
      <4>9. ActiveOf(n) # {} /\ \A o \in ActiveOf(n) : o.slug = key
        BY <4>3, <4>5, <4>7, <4>8 DEF AnswerOK
      <4>10. e.me = n  BY <1>1, <3>2, <4>1, <4>6, <4>7, <4>9, SameAnswer
      <4> QED  BY <1>7, <3>1, <4>1, <4>3, <4>5, <4>10
    <3> QED  BY <1>1, <1>3, <1>7, <1>8, <3>1, <3>3, <3>4, <3>5, UpdateKeepsPromise
  <2> QED  BY <2>1, <2>2
<1>13. promised' \in BOOLEAN  BY <1>2
<1> QED  BY <1>10, <1>11, <1>12, <1>13 DEF ConsoleInv

LEMMA LoseKeeps ==
  ASSUME ConsoleInv, NEW k \in Keys, Lose(k)
  PROVE  ConsoleInv'
<1>1. ServerOK /\ TabOK  BY DEF ConsoleInv
<1>2. PICK e : e = Failed(cache[k])  OBVIOUS
<1>3. cache[k] \in Entry /\ cache \in [Keys -> Entry] /\ key \in Keys  BY <1>1 DEF TabOK
<1>4. e \in Entry /\ AnswerOK(k, e)  BY <1>2, <1>3, FailedIs, NoAnswerOK
<1>5. PICK c : c = [cache EXCEPT ![k] = e]  OBVIOUS
<1>6. c \in [Keys -> Entry] /\ c[k] = e /\ \A j \in Keys \ {k} : c[j] = cache[j]
  BY <1>3, <1>4, <1>5
<1>7. /\ Update(c, k) /\ view # "routing" /\ cache[k].fetching
      /\ changes < MaxChanges /\ changes' = changes + 1 /\ promised' = FALSE
      /\ UNCHANGED <<config, slug, role, cookie>>
  BY <1>2, <1>5 DEF Lose
<1>8. Fetches(k)
  <2>1. SUFFICES ASSUME path.area = "index" PROVE k = key  BY <1>7 DEF Fetches
  <2>2. key = None /\ \A j \in Keys \ {None} : cache[j] = Absent
    BY <1>1, <2>1 DEF TabOK, IndexOK
  <2> QED  BY <1>7, <2>2, EntriesAre
<1>9. TabOK'  BY <1>1, <1>4, <1>6, <1>7, <1>8, UpdateKeepsTab
<1>10. ServerOK'
  <2>1. changes' \in 0..MaxChanges  BY <1>1, <1>7, Kinds DEF ServerOK
  <2> QED  BY <1>1, <1>7, <2>1 DEF ServerOK, RowsOK
<1> QED  BY <1>7, <1>9, <1>10 DEF ConsoleInv, PromiseOK

\* an entry that is fetched again holds what it held, or is awaited
LEMMA FetchAgainKeeps ==
  ASSUME TabOK, NEW k \in Keys, Fetches(k), Update(FetchAgain(cache, k), k)
  PROVE  TabOK'
<1>1. PICK c : c = FetchAgain(cache, k)  OBVIOUS
<1>2. /\ c \in [Keys -> Entry] /\ \A j \in Keys \ {k} : c[j] = cache[j]
      /\ LET e == IF cache[k].status \in {"absent", "error"} THEN Pending ELSE cache[k]
         IN c[k].status = e.status /\ c[k].me = e.me
  BY <1>1, FetchAgainIs DEF TabOK
<1>3. AnswerOK(k, c[k])
  <2>1. CASE cache[k].status \in {"absent", "error"}  BY <1>2, <2>1, EntriesAre, NoAnswerOK
  <2>2. CASE cache[k].status \notin {"absent", "error"}
    <3>1. AnswerOK(k, cache[k])  BY DEF TabOK, AnswersOK
    <3> QED  BY <1>2, <2>2, <3>1 DEF AnswerOK
  <2> QED  BY <2>1, <2>2
<1> QED  BY <1>1, <1>2, <1>3, UpdateKeepsTab

LEMMA RefetchKeeps ==
  ASSUME ConsoleInv, NEW k \in Keys, Refetch(k)
  PROVE  ConsoleInv'
<1>1. ServerOK /\ TabOK /\ PromiseOK /\ promised \in BOOLEAN  BY DEF ConsoleInv
<1>2. PICK c : c = FetchAgain(cache, k)  OBVIOUS
<1>3. /\ Update(c, k) /\ Update(FetchAgain(cache, k), k) /\ view \in {"shown", "missing"}
      /\ UNCHANGED server /\ promised' = promised
  BY <1>2 DEF Refetch, Settled
<1>4. Fetches(k)  BY <1>1, <1>3 DEF Fetches, TabOK, IndexOK
<1>5. TabOK'  BY <1>1, <1>3, <1>4, FetchAgainKeeps
<1>6. ServerOK'  BY <1>1, <1>3, ServerLasts
<1>7. /\ c \in [Keys -> Entry] /\ \A j \in Keys \ {k} : c[j] = cache[j]
      /\ LET e == IF cache[k].status \in {"absent", "error"} THEN Pending ELSE cache[k]
         IN c[k].status = e.status /\ c[k].me = e.me
  BY <1>1, <1>2, FetchAgainIs DEF TabOK
<1>8. PromiseOK'
  <2>1. CASE ~promised  BY <1>3, <2>1 DEF PromiseOK
  <2>2. CASE promised
    <3>1. cache[key].status = "data"
      BY <1>1, <1>3, <2>2 DEF PromiseOK, TabOK, WaitOK
    <3>2. \A j \in Keys : Fine(cache, j) => Fine(c, j)
      <4>1. SUFFICES ASSUME Fine(cache, k) PROVE Fine(c, k)  BY <1>7 DEF Fine
      <4> QED  BY <1>7, <4>1, EntriesAre DEF Fine
    <3>3. c[key].status = "data" /\ c[key].me = cache[key].me
      BY <1>1, <1>7, <3>1 DEF TabOK
    <3> QED  BY <1>1, <1>3, <1>7, <2>2, <3>1, <3>2, <3>3, UpdateKeepsPromise
  <2> QED  BY <2>1, <2>2
<1> QED  BY <1>1, <1>3, <1>5, <1>6, <1>8 DEF ConsoleInv

\* a membership or a slug that is written leaves the rows as they should be
LEMMA RowsKeep ==
  ASSUME ServerOK, UNCHANGED config, cookie' \in BOOLEAN, changes' \in 0..MaxChanges,
         \/ UNCHANGED <<slug, role>>
         \/ \E o \in Org, h \in Held \cup {None} :
              slug[o] # None /\ role' = [role EXCEPT ![o] = h] /\ UNCHANGED slug
         \/ \E o \in Org, s \in Free : slug' = [slug EXCEPT ![o] = s] /\ UNCHANGED role
         \/ \E o \in Org, s \in Free, h \in Held :
              slug' = [slug EXCEPT ![o] = s] /\ role' = [role EXCEPT ![o] = h]
  PROVE  ServerOK'
<1>1. CASE UNCHANGED <<slug, role>>  BY <1>1 DEF ServerOK, RowsOK
<1>2. ASSUME NEW o \in Org, NEW h \in Held \cup {None}, slug[o] # None,
             role' = [role EXCEPT ![o] = h], UNCHANGED slug
      PROVE  ServerOK'
  BY <1>2 DEF ServerOK, RowsOK
<1>3. ASSUME NEW o \in Org, NEW s \in Free, slug' = [slug EXCEPT ![o] = s],
             UNCHANGED role \/ (\E h \in Held : role' = [role EXCEPT ![o] = h])
      PROVE  ServerOK'
  <2>1. s \in Slug /\ s # None /\ \A p \in Org : slug[p] # s  BY ConstantsAre DEF Free
  <2>2. slug' \in [Org -> Slug \cup {None}]  BY <1>3, <2>1 DEF ServerOK
  <2>3. slug'[o] = s /\ \A p \in Org \ {o} : slug'[p] = slug[p]  BY <1>3 DEF ServerOK
  <2>4. role' \in [Org -> Held \cup {None}] /\ \A p \in Org \ {o} : role'[p] = role[p]
    BY <1>3 DEF ServerOK
  <2>5. \A p \in Org : slug'[p] = None => role'[p] = None
    BY <2>1, <2>3, <2>4 DEF ServerOK, RowsOK
  <2>6. \A p, q \in Org : slug'[p] = slug'[q] /\ slug'[p] # None => p = q
    BY <2>1, <2>3 DEF ServerOK, RowsOK
  <2> QED  BY <2>2, <2>4, <2>5, <2>6 DEF ServerOK, RowsOK
<1> QED  BY <1>1, <1>2, <1>3

LEMMA SignInKeeps ==
  ASSUME ConsoleInv, SignIn \/ \E o \in Org : AcceptInvite(o)
  PROVE  ConsoleInv'
<1>1. ServerOK /\ TabOK  BY DEF ConsoleInv
<1>2. view = "shown" /\ Update(FetchAgain(cache, key), key) /\ promised' = FALSE
  BY DEF SignIn, AcceptInvite, Invalidate
<1>3. key \in Keys /\ Fetches(key)  BY <1>1, <1>2 DEF TabOK, Fetches
<1>4. TabOK'  BY <1>1, <1>2, <1>3, FetchAgainKeeps
<1>5. ServerOK'
  <2>1. CASE SignIn  BY <1>1, <2>1, RowsKeep DEF SignIn, ServerOK
  <2>2. ASSUME NEW o \in Org, AcceptInvite(o) PROVE ServerOK'
    <3>1. "member" \in Held \cup {None}  BY Kinds
    <3> QED  BY <1>1, <2>2, <3>1, RowsKeep DEF AcceptInvite, ServerOK
  <2> QED  BY <2>1, <2>2
<1> QED  BY <1>2, <1>4, <1>5 DEF ConsoleInv, PromiseOK

LEMMA TabLasts ==
  ASSUME TabOK, UNCHANGED tab
  PROVE  TabOK'
<1>1. UNCHANGED <<path, view, key, cache, beside, astray>> /\ me' = me
      /\ (isAuthenticated' <=> isAuthenticated)
  BY DEF tab, me, isAuthenticated
<1>2. ASSUME NEW p PROVE ActsFor(p)' <=> ActsFor(p)  BY <1>1 DEF ActsFor
<1>3. ActsFor(path)' <=> ActsFor(path)  BY <1>1 DEF ActsFor
<1>4. ActingOK'  BY <1>1, <1>3 DEF TabOK, ActingOK, Acting, InOrgShell
<1>5. BesideOK'  BY <1>1, <1>2 DEF TabOK, BesideOK
<1>6. PathOK' /\ AnswersOK' /\ WaitOK' /\ IndexOK'
  BY <1>1 DEF TabOK, PathOK, AnswersOK, WaitOK, IndexOK
<1> QED  BY <1>1, <1>4, <1>5, <1>6 DEF TabOK

LEMMA ElsewhereKeeps ==
  ASSUME ConsoleInv, Elsewhere \/ \E o \in Org, s \in Slug : Save(o, s)
  PROVE  ConsoleInv'
<1>1. ServerOK /\ TabOK  BY DEF ConsoleInv
<1>2. UNCHANGED <<config, tab>> /\ promised' = FALSE
      /\ changes < MaxChanges /\ changes' = changes + 1
  BY DEF Elsewhere, Save
<1>3. TabOK'  BY <1>1, <1>2, TabLasts
<1>4. changes' \in 0..MaxChanges  BY <1>1, <1>2, Kinds DEF ServerOK
<1>5. ServerOK'
  <2>1. CASE Elsewhere
    <3>1. cookie' \in BOOLEAN  BY <1>1, <2>1 DEF Elsewhere, ServerOK
    <3> QED  BY <1>1, <1>2, <1>4, <2>1, <3>1, RowsKeep DEF Elsewhere
  <2>2. ASSUME NEW o \in Org, NEW s \in Slug, Save(o, s) PROVE ServerOK'
    BY <1>1, <1>2, <1>4, <2>2, RowsKeep DEF Save, ServerOK
  <2> QED  BY <2>1, <2>2
<1> QED  BY <1>2, <1>3, <1>5 DEF ConsoleInv, PromiseOK

-----------------------------------------------------------------------------
\* The router

\* where a page leads: to the active organization's or the personal page, the
\* form of somebody without one, or to sign-in
LEMMA RedirectsAre ==
  ASSUME ConsoleInv, view = "routing", NEW p \in Redirects(path)
  PROVE  \/ ~isAuthenticated /\ p = SignInPage
         \/ /\ isAuthenticated /\ path.area \in {"index", "auth"}
            /\ \/ p = At("app", "")
               \/ \E o \in ActiveOf(me) : p = InOrg(o.slug, "")
               \/ config.personalAccounts /\ p = PersonalModule
         \/ /\ isAuthenticated /\ path.area = "o"
            /\ config.personalAccounts /\ p = PersonalModule
            /\ Listed(me, path.slug)
<1>1. path.area \in {"index", "auth", "app", "o"}  BY DEF ConsoleInv, TabOK, Path
<1>2. CASE path.area = "index"
  <2>1. p \in indexDestination  BY <1>2 DEF Redirects
  <2> QED  BY <1>2, <2>1 DEF indexDestination, activeOrgSlug
<1>3. CASE path.area = "auth"
  <2>1. isAuthenticated /\ p \in authedDestination  BY <1>3 DEF Redirects, redirectIfAuthed
  <2> QED  BY <1>3, <2>1 DEF authedDestination, activeOrgSlug
<1>4. CASE path.area = "app"
  <2>1. ~isAuthenticated /\ p = SignInPage  BY <1>4 DEF Redirects, requireAuth
  <2> QED  BY <2>1
<1>5. CASE path.area = "o"
  <2>1. p \in resolveOrgRoute(path)  BY <1>5 DEF Redirects
  <2> QED  BY <1>5, <2>1 DEF resolveOrgRoute, findOrgBySlug, Listed
<1> QED  BY <1>1, <1>2, <1>3, <1>4, <1>5

\* a page that is rendered is not the root's
LEMMA RootLeads ==
  ASSUME ConsoleInv, Redirects(path) = {}
  PROVE  path.area # "index" /\ (path.area = "o" => isAuthenticated)
<1>1. CASE path.area = "index"
  <2>1. indexDestination = {}  BY <1>1 DEF Redirects
  <2>2. isAuthenticated /\ me.organizations # {} /\ activeOrgSlug(me) = {}
    BY <2>1 DEF indexDestination
  <2>3. ActiveOf(me) # {}
    <3>1. AnswerOK(key, cache[key])  BY DEF ConsoleInv, TabOK, AnswersOK
    <3> QED  BY <2>2, <3>1 DEF AnswerOK, me, isAuthenticated
  <2> QED  BY <2>2, <2>3 DEF activeOrgSlug
<1>2. CASE path.area = "o"  BY <1>2 DEF Redirects, resolveOrgRoute
<1> QED  BY <1>1, <1>2

LEMMA ListingsAre ==
  ASSUME ConsoleInv, NEW k \in Keys
  PROVE  /\ cache[k].me \in Me /\ ActiveOf(cache[k].me) \subseteq cache[k].me.organizations
         /\ \A o \in cache[k].me.organizations : o.slug \in Slug
  BY DEF ConsoleInv, TabOK, Entry, Me, Listing, ActiveOf

LEMMA RedirectKeeps ==
  ASSUME ConsoleInv, view = "routing", NEW p \in Redirects(path), path' = p,
         UNCHANGED <<server, view, key, cache, beside, astray, promised>>
  PROVE  ConsoleInv'
<1>1. ServerOK /\ TabOK /\ PromiseOK /\ promised \in BOOLEAN  BY DEF ConsoleInv
<1>2. key \in Keys /\ path \in Path /\ me' = me /\ (isAuthenticated' <=> isAuthenticated)
  BY <1>1 DEF TabOK, me, isAuthenticated
<1>3. ActiveOf(me) \subseteq me.organizations /\ \A o \in me.organizations : o.slug \in Slug
  BY <1>2, ListingsAre DEF me
<1>4. /\ p \in Path /\ p.area # "index" /\ (p.area # "o" => p.slug = None)
      /\ p.area = "o" => /\ isAuthenticated /\ path.area \in {"index", "auth"}
                         /\ \E o \in ActiveOf(me) : o.slug = p.slug
      /\ p.area = "app" => isAuthenticated /\ (path.area = "o" => Listed(me, path.slug))
                             /\ path.area # "app"
      /\ p.area = "auth" => ~isAuthenticated
      /\ p.area = "app" => Mounted(p)
  <2>1. CASE ~isAuthenticated /\ p = SignInPage  BY <2>1, PagesAre
  <2>2. CASE isAuthenticated /\ path.area \in {"index", "auth"} /\ p = At("app", "")
    BY <2>2, PagesAre DEF Mounted
  <2>3. CASE isAuthenticated /\ path.area \in {"index", "auth"} /\ config.personalAccounts
             /\ p = PersonalModule
    BY <2>3, PagesAre DEF Mounted
  <2>4. ASSUME isAuthenticated, path.area \in {"index", "auth"}, NEW o \in ActiveOf(me),
               p = InOrg(o.slug, "")
        PROVE  /\ p \in Path /\ p.area = "o" /\ p.slug = o.slug
    BY <1>3, <2>4, InOrgIs
  <2>5. CASE isAuthenticated /\ path.area = "o" /\ config.personalAccounts /\ p = PersonalModule
             /\ Listed(me, path.slug)
    BY <2>5, PagesAre DEF Mounted
  <2> QED  BY <2>1, <2>2, <2>3, <2>4, <2>5, RedirectsAre
<1>5. TabOK'
  <2>1. PathOK' /\ IndexOK'  BY <1>4 DEF PathOK, IndexOK
  <2>2. AnswersOK'  BY <1>1 DEF TabOK, AnswersOK
  <2>3. WaitOK'  BY <1>1 DEF TabOK, WaitOK
  <2>4. ActingOK'
    <3>1. ~InOrgShell'  BY DEF InOrgShell
    <3>2. Acting' => Acting  BY <1>2 DEF Acting
    <3>3. ASSUME Acting, astray # "here" PROVE ActsFor(path)'
      <4>1. ActsFor(path)  BY <1>1, <3>3 DEF TabOK, ActingOK
      <4>2. ASSUME p.area = "o" PROVE key = None /\ \E o \in ActiveOf(me) : o.slug = p.slug
        BY <1>4, <4>1, <4>2 DEF ActsFor
      <4>3. ASSUME p.area = "app", key # None PROVE Listed(me, key)
        <5>1. path.area = "o" /\ path.slug = key  BY <1>4, <4>1, <4>3 DEF ActsFor
        <5> QED  BY <1>4, <4>3, <5>1
      <4>4. p.area \in {"o", "app"}  BY <1>4, <3>3 DEF Acting, Path
      <4> QED  BY <1>2, <4>2, <4>3, <4>4 DEF ActsFor
    <3> QED  BY <3>1, <3>2, <3>3 DEF ActingOK
  <2>5. BesideOK'
    <3>1. ASSUME NEW q \in beside PROVE ActsFor(q)' <=> ActsFor(q)  BY <1>2 DEF ActsFor
    <3> QED  BY <1>1, <1>2, <1>4, <3>1 DEF TabOK, BesideOK
  <2> QED  BY <1>1, <1>4, <2>1, <2>2, <2>3, <2>4, <2>5 DEF TabOK
<1>6. ServerOK' /\ Memberships' = Memberships  BY <1>1, ServerLasts
<1>7. PromiseOK'
  <2>1. SUFFICES ASSUME promised PROVE PromiseOK'  BY DEF PromiseOK
  <2>2. /\ cookie /\ astray # "here" /\ path.area \in {"index", "app", "o"}
        /\ Fine(cache, key) /\ cache[key].status \in {"data", "pending"}
    BY <1>1, <2>1 DEF PromiseOK
  <2>3. isAuthenticated  BY <1>1, <2>2 DEF TabOK, WaitOK, isAuthenticated
  <2>4. p.area \in {"o", "app"}  BY <1>4, <2>3 DEF Path
  <2>5. me.organizations = Memberships  BY <2>2, <2>3 DEF Fine, me, isAuthenticated
  <2>6. p.area = "o" => Fine(cache, p.slug) /\ \E o \in Memberships : o.slug = p.slug
    <3>1. SUFFICES ASSUME p.area = "o"
                   PROVE  Fine(cache, p.slug) /\ \E o \in Memberships : o.slug = p.slug
      OBVIOUS
    <3>2. PICK o \in ActiveOf(me) : o.slug = p.slug  BY <1>4, <3>1
    <3>3. o \in Memberships /\ p.slug \in Slug  BY <1>3, <2>5, <3>2
    <3>4. path.area = "index"  BY <1>4, <2>2, <3>1
    <3>5. cache[p.slug] = Absent
      BY <1>1, <3>3, <3>4, ConstantsAre DEF TabOK, IndexOK
    <3> QED  BY <3>2, <3>3, <3>5, EntriesAre DEF Fine
  <2>7. Mounted(p)  BY <1>4, <2>4 DEF Mounted
  <2>8. Mounted(path)'  BY <2>7 DEF Mounted, server
  <2> QED  BY <1>6, <2>2, <2>4, <2>6, <2>8 DEF PromiseOK, Fine, server
<1> QED  BY <1>1, <1>5, <1>6, <1>7 DEF ConsoleInv

LEMMA RenderKeeps ==
  ASSUME ConsoleInv, view = "routing", Redirects(path) = {},
         view' = IF NotFound(path) THEN "missing" ELSE "shown",
         cache' = IF path.area = "o" /\ view' = "shown" THEN MountOn(cache, path.slug) ELSE cache,
         UNCHANGED <<server, path, key, beside, astray, promised>>
  PROVE  ConsoleInv'
<1>1. ServerOK /\ TabOK /\ PromiseOK /\ promised \in BOOLEAN  BY DEF ConsoleInv
<1>2. key \in Keys /\ path \in Path /\ cache \in [Keys -> Entry]  BY <1>1 DEF TabOK
<1>3. PICK s \in Keys : s = path.slug  BY <1>2 DEF Path, Keys
<1>4. path.area # "index" /\ (path.area = "o" => isAuthenticated)  BY RootLeads
<1>5. /\ cache' \in [Keys -> Entry]
      /\ \A j \in Keys : cache'[j] = cache[j]
                          \/ (cache'[j] = Pending /\ cache[j].status \in {"absent", "error"})
  <2>1. cache' = cache \/ cache' = MountOn(cache, s)  BY <1>3
  <2> QED  BY <1>2, <2>1, MountOnIs
<1>6. cache'[key] = cache[key]
  <2>1. CASE path.area = "o"  BY <1>2, <1>4, <1>5, <2>1 DEF isAuthenticated
  <2>2. CASE path.area # "o"  BY <2>2
  <2> QED  BY <2>1, <2>2
<1>7. me' = me /\ (isAuthenticated' <=> isAuthenticated)  BY <1>6 DEF me, isAuthenticated
<1>8. TabOK'
  <2>1. AnswersOK'
    <3>1. ASSUME NEW j \in Keys PROVE AnswerOK(j, cache'[j])
      <4>1. CASE cache'[j] = cache[j]  BY <1>1, <4>1 DEF TabOK, AnswersOK
      <4>2. CASE cache'[j] = Pending  BY <4>2, EntriesAre, NoAnswerOK
      <4> QED  BY <1>5, <4>1, <4>2
    <3> QED  BY <3>1 DEF AnswersOK
  <2>2. PathOK' /\ IndexOK'  BY <1>1, <1>4 DEF TabOK, PathOK, IndexOK
  <2>3. WaitOK'  BY <1>1, <1>6 DEF TabOK, WaitOK
  <2>4. ActingOK'
    <3>1. Acting' => Acting  BY <1>7 DEF Acting
    <3>2. InOrgShell' => Listed(me', path.slug)
      BY <1>7 DEF InOrgShell, NotFound, findOrgBySlug, Listed
    <3>3. ActsFor(path)' <=> ActsFor(path)  BY <1>7 DEF ActsFor
    <3> QED  BY <1>1, <3>1, <3>2, <3>3 DEF TabOK, ActingOK
  <2>5. BesideOK'
    <3>1. ASSUME NEW q \in beside PROVE ActsFor(q)' <=> ActsFor(q)  BY <1>7 DEF ActsFor
    <3> QED  BY <1>1, <1>7, <3>1 DEF TabOK, BesideOK
  <2> QED  BY <1>1, <1>5, <2>1, <2>2, <2>3, <2>4, <2>5 DEF TabOK
<1>9. ServerOK' /\ Memberships' = Memberships  BY <1>1, ServerLasts
<1>10. PromiseOK'
  <2>1. SUFFICES ASSUME promised PROVE PromiseOK'  BY DEF PromiseOK
  <2>2. /\ cookie /\ astray # "here" /\ path.area \in {"index", "app", "o"} /\ Mounted(path)
        /\ path.area = "o" => Fine(cache, path.slug) /\ \E o \in Memberships : o.slug = path.slug
        /\ Fine(cache, key) /\ cache[key].status \in {"data", "pending"}
    BY <1>1, <2>1 DEF PromiseOK
  <2>3. isAuthenticated  BY <1>1, <2>2 DEF TabOK, WaitOK, isAuthenticated
  <2>4. me.organizations = Memberships  BY <2>2, <2>3 DEF Fine, me, isAuthenticated
  <2>5. ~NotFound(path)  BY <2>2, <2>4 DEF NotFound, findOrgBySlug
  <2>6. path.area = "o" => Fine(cache', path.slug)
    BY <1>3, <1>5, <2>2, EntriesAre DEF Fine
  <2>7. Fine(cache', key)  BY <1>6, <2>2 DEF Fine
  <2>8. Mounted(path)'  BY <2>2 DEF Mounted, server
  <2> QED  BY <1>6, <1>9, <2>2, <2>5, <2>6, <2>7, <2>8 DEF PromiseOK, Fine, server
<1> QED  BY <1>1, <1>8, <1>9, <1>10 DEF ConsoleInv

LEMMA RouteKeeps ==
  ASSUME ConsoleInv, Route
  PROVE  ConsoleInv'
<1>1. view = "routing" /\ UNCHANGED <<server, key, beside, astray, promised>>  BY DEF Route
<1>2. CASE (\E p \in Redirects(path) : path' = p) /\ UNCHANGED <<view, cache>>
  BY <1>1, <1>2, RedirectKeeps
<1>3. CASE ~((\E p \in Redirects(path) : path' = p) /\ UNCHANGED <<view, cache>>)
  BY <1>1, <1>3, RenderKeeps DEF Route
<1> QED  BY <1>2, <1>3

-----------------------------------------------------------------------------
\* The person

\* a link that is good goes where the server has something
LEMMA GoodIs ==
  ASSUME ConsoleInv, Good, NEW k \in {key, path.slug}
  PROVE  Fine(cache, k) /\ cookie /\ astray # "here"
         /\ (cache[k].status = "data" => cache[k].me.organizations = Memberships)
  BY DEF Good, Fine

\* a link of the router stays in the shell, or leaves an organization for the
\* form of another
LEMMA RouterLinksAre ==
  ASSUME ConsoleInv, NEW p \in RouterLinks
  PROVE  /\ isAuthenticated /\ view = "shown" /\ path.area \in {"o", "app"} /\ p \in Path
         /\ \/ path.area = "o" /\ p.area = "o" /\ p.slug = path.slug
            \/ p.area = "app" /\ p.slug = None /\ Mounted(p)
<1>1. path.slug \in Slug \cup {Malformed, None}  BY DEF ConsoleInv, TabOK, Path
<1>2. CASE InOrgShell
  <2>1. isAuthenticated /\ view = "shown" /\ path.area = "o"  BY <1>2 DEF InOrgShell
  <2>2. p \in moduleNavLinks(path.slug) \cup adminNavLinks(path.slug)  BY <1>2 DEF RouterLinks
  <2>3. \/ \E section \in {"", "module"} \cup Sections : p = InOrg(path.slug, section)
        \/ p = At("app", "create-organization")
    BY <2>2 DEF moduleNavLinks, adminNavLinks
  <2>4. ASSUME NEW section \in {"", "module"} \cup Sections, p = InOrg(path.slug, section)
        PROVE  p.area = "o" /\ p.slug = path.slug /\ p \in Path
    BY <1>1, <2>4 DEF InOrg, Path
  <2>5. ASSUME p = At("app", "create-organization")
        PROVE  p.area = "app" /\ p.slug = None /\ Mounted(p) /\ p \in Path
    BY <2>5 DEF At, Mounted, Path
  <2> QED  BY <2>1, <2>3, <2>4, <2>5
<1>3. CASE ~InOrgShell /\ InPersonalShell
  <2>1. isAuthenticated /\ view = "shown" /\ path.area = "app"  BY <1>3 DEF InPersonalShell
  <2>2. p \in personalModuleNavLinks  BY <1>3 DEF RouterLinks
  <2>3. p = PersonalModule /\ config.personalAccounts  BY <2>2 DEF personalModuleNavLinks
  <2> QED  BY <2>1, <2>3, PagesAre DEF Mounted
<1> QED  BY <1>2, <1>3 DEF RouterLinks

LEMMA NavigateKeeps ==
  ASSUME ConsoleInv, NEW p \in RouterLinks, Navigate(p)
  PROVE  ConsoleInv'
<1>1. ServerOK /\ TabOK  BY DEF ConsoleInv
<1>2. /\ path' = p /\ view' = "routing" /\ promised' = Good
      /\ beside' \subseteq beside \cup {path} /\ UNCHANGED <<server, key, cache, astray>>
  BY DEF Navigate
<1>3. /\ isAuthenticated /\ view = "shown" /\ path.area \in {"o", "app"} /\ p \in Path
      /\ \/ path.area = "o" /\ p.area = "o" /\ p.slug = path.slug
         \/ p.area = "app" /\ p.slug = None /\ Mounted(p)
  BY RouterLinksAre
<1>4. me' = me /\ (isAuthenticated' <=> isAuthenticated) /\ Acting /\ key \in Keys
  BY <1>1, <1>2, <1>3 DEF me, isAuthenticated, Acting, TabOK
<1>5. path.area = "o" => InOrgShell /\ Listed(me, path.slug)
  BY <1>1, <1>3 DEF InOrgShell, TabOK, ActingOK
<1>6. TabOK'
  <2>1. AnswersOK'  BY <1>1, <1>2 DEF TabOK, AnswersOK
  <2>2. PathOK' /\ IndexOK'  BY <1>2, <1>3 DEF PathOK, IndexOK
  <2>3. WaitOK'  BY <1>1, <1>2, <1>3 DEF TabOK, WaitOK
  <2>4. ActingOK'
    <3>1. ~InOrgShell'  BY <1>2 DEF InOrgShell
    <3>2. ASSUME astray # "here" PROVE ActsFor(path)'
      <4>1. ActsFor(path)  BY <1>1, <1>4, <3>2 DEF TabOK, ActingOK
      <4>2. p.area = "o" /\ key # p.slug => \E o \in ActiveOf(me) : o.slug = p.slug
        BY <1>3, <4>1 DEF ActsFor
      <4>3. key # None => (p.area = "o" /\ p.slug = key) \/ (p.area = "app" /\ Listed(me, key))
        BY <1>3, <1>5, <4>1 DEF ActsFor
      <4> QED  BY <1>2, <1>4, <4>2, <4>3 DEF ActsFor
    <3> QED  BY <1>2, <3>1, <3>2 DEF ActingOK
  <2>5. BesideOK'
    <3>1. \A q \in beside' : q \in Path /\ q.area # "index" /\ (q.area # "o" => q.slug = None)
      BY <1>1, <1>2, <1>3 DEF TabOK, BesideOK, PathOK
    <3>2. ASSUME astray = "no", NEW q \in beside' PROVE ActsFor(q)'
      <4>1. ActsFor(q)
        BY <1>1, <1>2, <1>3, <1>4, <3>2 DEF TabOK, BesideOK, ActingOK
      <4> QED  BY <1>2, <1>4, <4>1 DEF ActsFor
    <3> QED  BY <1>2, <1>3, <3>1, <3>2 DEF BesideOK
  <2> QED  BY <1>1, <1>2, <1>3, <2>1, <2>2, <2>3, <2>4, <2>5 DEF TabOK
<1>7. ServerOK' /\ Memberships' = Memberships  BY <1>1, <1>2, ServerLasts
<1>8. PromiseOK'
  <2>1. SUFFICES ASSUME Good PROVE PromiseOK'  BY <1>2 DEF PromiseOK
  <2>2. cookie /\ astray # "here" /\ Fine(cache, key) /\ Fine(cache, path.slug)  BY <2>1, GoodIs
  <2>3. cache[key].status = "data" /\ me.organizations = Memberships
    BY <1>3, <2>2 DEF isAuthenticated, Fine, me
  <2>4. p.area = "o" => Fine(cache, p.slug) /\ \E o \in Memberships : o.slug = p.slug
    BY <1>3, <1>5, <2>2, <2>3 DEF Listed
  <2>5. Mounted(p)  BY <1>3 DEF Mounted
  <2>6. Mounted(path)'  BY <1>2, <2>5 DEF Mounted, server
  <2>7. p.area \in {"index", "app", "o"}  BY <1>3
  <2> QED  BY <1>2, <1>7, <2>2, <2>3, <2>4, <2>6, <2>7 DEF PromiseOK, Fine, server
<1>9. promised' \in BOOLEAN  BY <1>2 DEF Good
<1> QED  BY <1>6, <1>7, <1>8, <1>9 DEF ConsoleInv

LEMMA BrowserLinksAre ==
  ASSUME ConsoleInv, NEW p \in BrowserLinks
  PROVE  /\ isAuthenticated /\ p \in Path /\ (p.area # "o" => p.slug = None)
         /\ p.area \in {"index", "app", "o"} /\ Mounted(p)
         /\ p.area = "o" => \/ Listed(me, p.slug)
                            \/ InOrgShell /\ Listed(cache[path.slug].me, p.slug)
<1>1. TabOK /\ path \in Path /\ path.slug \in Keys  BY DEF ConsoleInv, TabOK, Path, Keys
<1>2. CASE p = Index /\ isAuthenticated  BY <1>2, PagesAre DEF Mounted
<1>3. CASE p = [path EXCEPT !.section = "profile"] /\ isAuthenticated
           /\ (InOrgShell \/ InPersonalShell)
  <2>1. p.area = path.area /\ p.slug = path.slug /\ p.section = "profile" /\ p \in Path
    BY <1>1, <1>3 DEF Path
  <2>2. path.area \in {"o", "app"}  BY <1>3 DEF InOrgShell, InPersonalShell
  <2>3. path.area = "o" => Listed(me, path.slug)
    BY <1>1, <1>3 DEF TabOK, ActingOK, InOrgShell, InPersonalShell
  <2> QED  BY <1>1, <1>3, <2>1, <2>2, <2>3 DEF TabOK, PathOK, Mounted
<1>4. ASSUME NEW o, p = InOrg(o.slug, ""), isAuthenticated, o.slug \in Slug,
             \/ o \in me.organizations
             \/ InOrgShell /\ o \in cache[path.slug].me.organizations
      PROVE  /\ p.area = "o" /\ Mounted(p) /\ p \in Path
             /\ Listed(me, p.slug) \/ (InOrgShell /\ Listed(cache[path.slug].me, p.slug))
  <2>1. PICK s \in Slug : s = o.slug  BY <1>4
  <2>2. p = InOrg(s, "")  BY <1>4, <2>1
  <2>3. p.area = "o" /\ p.slug = o.slug /\ p \in Path  BY <2>1, <2>2, InOrgIs
  <2>4. Mounted(p)  BY <2>3 DEF Mounted
  <2> QED  BY <1>4, <2>3, <2>4 DEF Listed
<1>5. CASE InOrgShell
  <2>1. isAuthenticated  BY <1>5 DEF InOrgShell
  <2>2. p \in {Index} \cup OrgSwitcher \cup UserMenu  BY <1>5 DEF BrowserLinks
  <2>3. CASE p \in OrgSwitcher
    <3>1. PICK o \in cache[path.slug].me.organizations : p = InOrg(o.slug, "")
      BY <2>3 DEF OrgSwitcher
    <3>2. o.slug \in Slug  BY <1>1, ListingsAre
    <3> QED  BY <1>4, <1>5, <2>1, <3>1, <3>2
  <2> QED  BY <1>2, <1>3, <1>5, <2>1, <2>2, <2>3 DEF UserMenu
<1>6. CASE ~InOrgShell /\ InPersonalShell
  <2>1. isAuthenticated  BY <1>6 DEF InPersonalShell
  <2>2. p \in {Index} \cup UserMenu \cup BackTo  BY <1>6 DEF BrowserLinks
  <2>3. CASE p \in BackTo
    <3>1. PICK o \in returnTeamOrg(me) : p = InOrg(o.slug, "")  BY <2>3 DEF BackTo
    <3>2. key \in Keys  BY <1>1 DEF TabOK
    <3>3. o \in me.organizations  BY <3>1 DEF returnTeamOrg, ActiveOf
    <3>4. o.slug \in Slug  BY <3>2, <3>3, ListingsAre DEF me
    <3> QED  BY <1>4, <2>1, <3>1, <3>3, <3>4
  <2> QED  BY <1>2, <1>3, <1>6, <2>1, <2>2, <2>3 DEF UserMenu
<1> QED  BY <1>5, <1>6 DEF BrowserLinks

LEMMA FollowKeeps ==
  ASSUME ConsoleInv, NEW p \in BrowserLinks, Follow(p)
  PROVE  ConsoleInv'
<1>1. ServerOK /\ TabOK  BY DEF ConsoleInv
<1>2. Load(p) /\ promised' = Good /\ UNCHANGED server  BY DEF Follow
<1>3. /\ isAuthenticated /\ p \in Path /\ (p.area # "o" => p.slug = None)
      /\ p.area \in {"index", "app", "o"} /\ Mounted(p)
      /\ p.area = "o" => \/ Listed(me, p.slug)
                         \/ InOrgShell /\ Listed(cache[path.slug].me, p.slug)
  BY BrowserLinksAre
<1>4. ServerOK' /\ Memberships' = Memberships  BY <1>1, <1>2, ServerLasts
<1>5. ASSUME Good, p.area = "o" PROVE \E o \in Memberships : o.slug = p.slug
  <2>1. CASE Listed(me, p.slug)
    <3>1. me.organizations = Memberships
      BY <1>3, <1>5, GoodIs DEF isAuthenticated, me
    <3> QED  BY <2>1, <3>1 DEF Listed
  <2>2. CASE Listed(cache[path.slug].me, p.slug)
    <3>1. AnswerOK(path.slug, cache[path.slug])
      BY <1>1 DEF TabOK, AnswersOK, Path, Keys
    <3>2. cache[path.slug].status = "data"
      BY <2>2, <3>1, EntriesAre DEF AnswerOK, Listed
    <3>3. cache[path.slug].me.organizations = Memberships  BY <1>5, <3>2, GoodIs
    <3> QED  BY <2>2, <3>3 DEF Listed
  <2> QED  BY <1>3, <1>5, <2>1, <2>2
<1>6. Mounted(p)'  BY <1>2, <1>3 DEF Mounted, server
<1>7. Good => cookie'  BY <1>2 DEF Good, server
<1>8. promised' \in BOOLEAN  BY <1>2 DEF Good
<1> QED  BY <1>2, <1>3, <1>4, <1>5, <1>6, <1>7, <1>8, LoadKeeps

LEMMA VisitKeeps ==
  ASSUME ConsoleInv, (\E p \in Addresses : Visit(p)) \/ SignOut
  PROVE  ConsoleInv'
<1>1. ServerOK  BY DEF ConsoleInv
<1>2. ASSUME NEW p \in Addresses PROVE p \in Path /\ (p.area # "o" => p.slug = None)
  <2>1. ASSUME NEW s \in Slug \cup {Malformed}, p = InOrg(s, "")
        PROVE  p \in Path /\ p.area = "o"
    BY <2>1, InOrgIs
  <2>2. At("auth", "accept-invite") \in Path /\ At("auth", "accept-invite").slug = None
    BY DEF At, Path
  <2> QED  BY <2>1, <2>2, PagesAre DEF Addresses
<1>3. ASSUME NEW p \in Addresses, Visit(p) PROVE ConsoleInv'
  <2>1. Load(p) /\ promised' = FALSE /\ UNCHANGED server  BY <1>3 DEF Visit
  <2>2. ServerOK'  BY <1>1, <2>1, ServerLasts
  <2> QED  BY <1>2, <2>1, <2>2, LoadKeeps
<1>4. CASE SignOut
  <2>1. Load(SignInPage) /\ promised' = FALSE  BY <1>4 DEF SignOut
  <2>2. ServerOK'  BY <1>1, <1>4 DEF SignOut, ServerOK, RowsOK
  <2> QED  BY <2>1, <2>2, LoadKeeps, PagesAre
<1> QED  BY <1>3, <1>4

LEMMA ReloadKeeps ==
  ASSUME ConsoleInv, Reload
  PROVE  ConsoleInv'
<1>1. ServerOK /\ TabOK  BY DEF ConsoleInv
<1>2. /\ Start(path) /\ promised' = FALSE /\ UNCHANGED server /\ beside' = beside
      /\ astray' = IF beside = {} THEN "no" ELSE "behind"
  BY DEF Reload, LeftBehind
<1>3. TabOK'  BY <1>1, <1>2, StartIs DEF TabOK, PathOK, BesideOK
<1>4. ServerOK'  BY <1>1, <1>2, ServerLasts
<1> QED  BY <1>2, <1>3, <1>4 DEF ConsoleInv, PromiseOK

\* back on a page that was reached after the gate rendered last, or on one of
\* its own key, the tab acts as before; elsewhere it is astray
LEMMA BackOrForwardKeeps ==
  ASSUME ConsoleInv, NEW p \in beside, BackOrForward(p)
  PROVE  ConsoleInv'
<1>1. ServerOK /\ TabOK  BY DEF ConsoleInv
<1>2. /\ view # "routing" /\ path' = p /\ promised' = FALSE
      /\ view' = IF view = "waiting" THEN "waiting" ELSE "routing"
      /\ beside' = (beside \ {p}) \cup {path}
      /\ astray' = IF astray = "no" THEN "no" ELSE IF p.slug = key THEN "behind" ELSE "here"
      /\ changes' \in {changes, changes + 1} /\ (changes' # changes => changes < MaxChanges)
      /\ UNCHANGED <<config, slug, role, cookie, key, cache>>
  BY DEF BackOrForward
<1>3. p \in Path /\ p.area # "index" /\ (p.area # "o" => p.slug = None)
      /\ path \in Path /\ path.area # "index" /\ (path.area # "o" => path.slug = None)
  BY <1>1 DEF TabOK, BesideOK, PathOK
<1>4. me' = me /\ (isAuthenticated' <=> isAuthenticated)  BY <1>2 DEF me, isAuthenticated
<1>5. ServerOK'
  <2>1. changes' \in 0..MaxChanges  BY <1>1, <1>2, Kinds DEF ServerOK
  <2> QED  BY <1>1, <1>2, <2>1 DEF ServerOK, RowsOK
<1>6. view = "waiting" => astray # "no"  BY <1>1 DEF TabOK, BesideOK
<1>7. ASSUME isAuthenticated, astray' # "here" PROVE ActsFor(path)'
  <2>1. CASE astray = "no"
    <3>1. ActsFor(p)  BY <1>1, <1>7, <2>1 DEF TabOK, BesideOK
    <3> QED  BY <1>2, <1>4, <3>1 DEF ActsFor
  <2>2. CASE p.slug = key
    <3>1. key # None => p.area = "o"  BY <1>3, <2>2
    <3> QED  BY <1>2, <2>2, <3>1 DEF ActsFor
  <2> QED  BY <1>2, <1>7, <2>1, <2>2
<1>8. BesideOK'
  <2>1. \A q \in beside' : q \in Path /\ q.area # "index" /\ (q.area # "o" => q.slug = None)
    BY <1>1, <1>2, <1>3 DEF TabOK, BesideOK
  <2>2. ASSUME astray' = "no", isAuthenticated, NEW q \in beside' PROVE ActsFor(q)'
    <3>1. astray = "no" /\ view # "waiting"  BY <1>2, <1>6, <2>2
    <3>2. ActsFor(q)
      BY <1>1, <1>2, <2>2, <3>1 DEF TabOK, BesideOK, ActingOK, Acting
    <3> QED  BY <1>2, <1>4, <3>2 DEF ActsFor
  <2>3. ~(view' = "waiting" /\ astray' = "no")  BY <1>2, <1>6
  <2> QED  BY <1>2, <1>3, <1>4, <2>1, <2>2, <2>3 DEF BesideOK
<1>9. TabOK'
  <2>1. AnswersOK'  BY <1>1, <1>2 DEF TabOK, AnswersOK
  <2>2. PathOK' /\ IndexOK'  BY <1>2, <1>3 DEF PathOK, IndexOK
  <2>3. WaitOK'  BY <1>1, <1>2, <1>6 DEF TabOK, WaitOK
  <2>4. ActingOK'  BY <1>2, <1>4, <1>7 DEF ActingOK, Acting, InOrgShell
  <2> QED  BY <1>1, <1>2, <1>3, <1>8, <2>1, <2>2, <2>3, <2>4 DEF TabOK
<1> QED  BY <1>2, <1>5, <1>9 DEF ConsoleInv, PromiseOK

LEMMA CreateOrganizationKeeps ==
  ASSUME ConsoleInv, NEW o \in Org, NEW s \in Slug, CreateOrganization(o, s)
  PROVE  ConsoleInv'
<1>1. ServerOK  BY DEF ConsoleInv
<1>2. /\ cookie /\ s \in Free /\ promised' = TRUE /\ Load(InOrg(s, ""))
      /\ slug' = [slug EXCEPT ![o] = s] /\ role' = [role EXCEPT ![o] = "owner"]
      /\ UNCHANGED <<config, cookie, changes>>
  BY DEF CreateOrganization
<1>3. "owner" \in Held /\ "owner" # None  BY Kinds
<1>4. ServerOK'  BY <1>1, <1>2, <1>3, RowsKeep DEF ServerOK
<1>5. PICK p \in Path : p = InOrg(s, "") /\ p.area = "o" /\ p.slug = s  BY InOrgIs
<1>6. \E x \in Memberships' : x.slug = s
  <2>1. slug'[o] = s /\ role'[o] = "owner"  BY <1>1, <1>2 DEF ServerOK
  <2>2. PICK x : x = [org |-> o, slug |-> slug'[o], role |-> role'[o]]  OBVIOUS
  <2>3. x \in Memberships' /\ x.slug = s  BY <1>3, <2>1, <2>2 DEF Memberships
  <2> QED  BY <2>3
<1>7. Mounted(p)'  BY <1>5 DEF Mounted
<1> QED  BY <1>2, <1>4, <1>5, <1>6, <1>7, LoadKeeps

-----------------------------------------------------------------------------
\* The whole tab

LEMMA ConsoleInitially == Init => ConsoleInv
<1> SUFFICES ASSUME Init PROVE ConsoleInv  OBVIOUS
<1>1. ServerOK
  <2>1. slug \in [Org -> Slug \cup {None}]  BY Kinds DEF Init
  <2>2. \A o, p \in Org : slug[o] = slug[p] /\ slug[o] # None => o = p  BY Kinds DEF Init
  <2>3. changes \in 0..MaxChanges  BY Kinds DEF Init
  <2> QED  BY <2>1, <2>2, <2>3 DEF Init, ServerOK, RowsOK
<1>2. PICK c : c = [k \in Keys |-> Absent]  OBVIOUS
<1>3. c \in [Keys -> Entry] /\ None \in Keys /\ c[None] = Absent
  BY <1>2, EntriesAre, ConstantsAre
<1>4. /\ cache \in [Keys -> Entry] /\ cache[None] = Pending
      /\ \A k \in Keys \ {None} : cache[k] = Absent
  <2>1. cache = MountOn(c, None)  BY <1>2 DEF Init
  <2> QED  BY <1>2, <1>3, <2>1, MountOnIs, EntriesAre
<1>5. /\ path = Index /\ key = None /\ view = "waiting" /\ promised = FALSE
      /\ beside = {} /\ astray = "no"
  BY DEF Init
<1>6. AnswersOK
  <2>1. ASSUME NEW k \in Keys PROVE AnswerOK(k, cache[k])
    <3>1. cache[k] \in {Pending, Absent}  BY <1>4
    <3> QED  BY <3>1, EntriesAre, NoAnswerOK
  <2> QED  BY <2>1 DEF AnswersOK
<1>7. PathOK /\ WaitOK /\ IndexOK
  BY <1>4, <1>5, PagesAre DEF PathOK, WaitOK, IndexOK
<1>8. ActingOK /\ BesideOK  BY <1>5 DEF ActingOK, Acting, InOrgShell, BesideOK
<1>9. TabOK  BY <1>3, <1>4, <1>5, <1>6, <1>7, <1>8, PagesAre DEF TabOK
<1> QED  BY <1>1, <1>5, <1>9 DEF ConsoleInv, PromiseOK

LEMMA ConsoleStep == ConsoleInv /\ [Next]_vars => ConsoleInv'
<1> SUFFICES ASSUME ConsoleInv, [Next]_vars PROVE ConsoleInv'  OBVIOUS
<1>1. CASE \E k \in Keys : Answer(k)  BY <1>1, AnswerKeeps
<1>2. CASE \E k \in Keys : Lose(k)  BY <1>2, LoseKeeps
<1>3. CASE \E k \in Keys : Refetch(k)  BY <1>3, RefetchKeeps
<1>4. CASE Route  BY <1>4, RouteKeeps
<1>5. CASE SignIn \/ \E o \in Org : AcceptInvite(o)  BY <1>5, SignInKeeps
<1>6. CASE SignOut \/ \E p \in Addresses : Visit(p)  BY <1>6, VisitKeeps
<1>7. CASE Elsewhere \/ \E o \in Org, s \in Slug : Save(o, s)  BY <1>7, ElsewhereKeeps
<1>8. CASE \E p \in RouterLinks : Navigate(p)  BY <1>8, NavigateKeeps
<1>9. CASE \E p \in BrowserLinks : Follow(p)  BY <1>9, FollowKeeps
<1>12. CASE Reload \/ \E p \in beside : BackOrForward(p)
  BY <1>12, ReloadKeeps, BackOrForwardKeeps
<1>10. CASE \E o \in Org, s \in Slug : CreateOrganization(o, s)
  BY <1>10, CreateOrganizationKeeps
<1>11. CASE UNCHANGED vars
  <2>1. UNCHANGED server /\ UNCHANGED tab /\ UNCHANGED promised  BY <1>11 DEF vars
  <2>2. ServerOK' /\ Memberships' = Memberships  BY <2>1, ServerLasts DEF ConsoleInv
  <2>3. TabOK'  BY <2>1, TabLasts DEF ConsoleInv
  <2>4. PromiseOK'
    <3>1. PromiseOK  BY DEF ConsoleInv
    <3> QED  BY <2>1, <2>2, <3>1 DEF PromiseOK, Fine, Mounted, server, tab
  <2> QED  BY <2>1, <2>2, <2>3, <2>4 DEF ConsoleInv
<1> QED
  BY <1>1, <1>2, <1>3, <1>4, <1>5, <1>6, <1>7, <1>8, <1>9, <1>10, <1>11, <1>12 DEF Next

\* In every reachable state an answer names one of its rows as active, that of
\* the slug it was asked for if it lists it; the gate waits for the query of its
\* address, unless the tab went back meanwhile; a page acts for what its address
\* names even where the router has come to an address the gate has not, and so
\* will the pages one may go back to until the gate renders; and what a link
\* promised still agrees with the server (use-session.ts, app.tsx SessionGate,
\* app-routes.tsx).
THEOREM ConsoleInvariant == Spec => []ConsoleInv
  BY ConsoleInitially, ConsoleStep, PTL DEF Spec

\* Every variable of the tab and of the server's rows keeps its type
\* (use-session.ts, app-routes.tsx).
THEOREM ConsoleTypeCorrect == Spec => []TypeOK
<1>1. ConsoleInv => TypeOK  BY DEF ConsoleInv, ServerOK, TabOK, BesideOK, TypeOK
<1> QED  BY <1>1, ConsoleInvariant, PTL

\* The organization's shell acts for the organization its address names: the
\* session's active organization, whose role decides what is offered, has that
\* slug, unless the browser went back or forward to it past a render of the gate
\* (use-session.ts, app-routes.tsx resolveOrgRoute, app.tsx SessionGate).
THEOREM ShellActs == Spec => []ShellActsForItsOrg
<1>1. ASSUME ConsoleInv PROVE ShellActsForItsOrg
  <2>1. SUFFICES ASSUME InOrgShell, astray # "here"
                 PROVE  \E o \in ActiveOf(me) : o.slug = path.slug
    BY DEF ShellActsForItsOrg
  <2>2. isAuthenticated /\ view = "shown" /\ path.area = "o" /\ key \in Keys
        /\ Listed(me, path.slug)
    BY <1>1, <2>1 DEF InOrgShell, ConsoleInv, TabOK, ActingOK
  <2>3. CASE key # path.slug
    BY <1>1, <2>1, <2>2, <2>3 DEF ConsoleInv, TabOK, ActingOK, Acting, ActsFor
  <2>4. CASE key = path.slug
    <3>1. AnswerOK(key, cache[key])  BY <1>1, <2>2 DEF ConsoleInv, TabOK, AnswersOK
    <3>2. me.organizations # {}  BY <2>2 DEF Listed
    <3>3. ActiveOf(me) # {} /\ \A o \in ActiveOf(me) : o.slug = key
      BY <2>2, <2>4, <3>1, <3>2 DEF AnswerOK, me, isAuthenticated
    <3> QED  BY <2>4, <3>3
  <2> QED  BY <2>3, <2>4
<1> QED  BY <1>1, ConsoleInvariant, PTL

\* A link offered on what the server holds leads to its page: never to Not
\* Found, never to sign-in, whatever redirects and answers come in between
\* (app-shell.tsx, personal-shell.tsx, org-switcher.tsx, user-menu.tsx).
THEOREM LinksReach == Spec => []LinksLead
<1>1. ASSUME ConsoleInv PROVE LinksLead
  <2>1. SUFFICES ASSUME promised, Settled PROVE view = "shown" /\ path.area \in {"app", "o"}
    BY DEF LinksLead
  <2>2. view # "missing" /\ path.area \in {"index", "app", "o"}
    BY <1>1, <2>1 DEF ConsoleInv, PromiseOK
  <2>3. path.area # "index"  BY <1>1, <2>1 DEF ConsoleInv, TabOK, IndexOK, Settled
  <2> QED  BY <2>1, <2>2, <2>3 DEF Settled
<1> QED  BY <1>1, ConsoleInvariant, PTL

-----------------------------------------------------------------------------
\* The mix of the two that is model-checked

LEMMA SignedOutIs == SignedOut => ConsoleInv
<1> SUFFICES ASSUME SignedOut PROVE ConsoleInv  OBVIOUS
<1>1. ServerOK
  <2>1. slug \in [Org -> Slug \cup {None}]  BY Kinds DEF SignedOut
  <2>2. \A o, p \in Org : slug[o] = slug[p] /\ slug[o] # None => o = p  BY Kinds DEF SignedOut
  <2>3. changes \in 0..MaxChanges  BY Kinds DEF SignedOut
  <2> QED  BY <2>1, <2>2, <2>3 DEF SignedOut, ServerOK, RowsOK
<1>2. PICK e \in Entry : e = Failed(Absent) /\ e.me = NoMe /\ e.status \in {"lapsed", "error"}
  BY EntriesAre, FailedIs
<1>3. None \in Keys  BY ConstantsAre
<1>4. cache \in [Keys -> Entry] /\ cache[key].status \in {"lapsed", "error"}
  BY <1>2, <1>3, EntriesAre DEF SignedOut
<1>5. AnswersOK
  <2>1. ASSUME NEW k \in Keys PROVE AnswerOK(k, cache[k])
    <3>1. cache[k] \in {e, Absent}  BY <1>2 DEF SignedOut
    <3> QED  BY <1>2, <3>1, EntriesAre, NoAnswerOK
  <2> QED  BY <2>1 DEF AnswersOK
<1>6. /\ path = SignInPage /\ key = None /\ view = "shown" /\ promised = FALSE
      /\ beside = {} /\ astray = "no"
  BY DEF SignedOut
<1>7. PathOK /\ WaitOK /\ IndexOK  BY <1>4, <1>6, PagesAre DEF PathOK, WaitOK, IndexOK
<1>8. ActingOK /\ BesideOK
  BY <1>4, <1>6, PagesAre DEF ActingOK, Acting, InOrgShell, isAuthenticated, BesideOK
<1> QED  BY <1>1, <1>3, <1>4, <1>5, <1>6, <1>7, <1>8, PagesAre DEF TabOK, ConsoleInv, PromiseOK

\* Whatever a step of the mix does, it is a step of each or leaves it alone, so
\* that the types of both are kept, for any values of the constants
\* (use-session.ts, app-routes.tsx, the screens over the query cache).
THEOREM MixedTypeCorrect == MixedSpec => []MixedTypeOK
<1> DEFINE ScreensAll == ScreensInv /\ BoundOK /\ FilterOK /\ ShapesOK
<1>1. MixedInit => ConsoleInv /\ ScreensAll
  BY ConsoleInitially, SignedOutIs, ScreensInitially, BoundInitially, FilterInitially,
     ShapesInitially DEF MixedInit
<1>2. ConsoleInv /\ ScreensAll /\ [MixedNext]_<<vars, screensVars, mix>>
        => ConsoleInv' /\ ScreensAll'
  <2>1. MixedNext => [Next]_vars /\ [ScreensNext]_screensVars  BY DEF MixedNext
  <2>2. UNCHANGED <<vars, screensVars, mix>> => [Next]_vars /\ [ScreensNext]_screensVars
    OBVIOUS
  <2> QED  BY <2>1, <2>2, ConsoleStep, ScreensStep, BoundStep, FilterStep, ShapesStep
<1>3. ConsoleInv /\ ScreensAll => MixedTypeOK
  BY TypesAre DEF ConsoleInv, ServerOK, TabOK, BesideOK, TypeOK, MixedTypeOK
<1> QED  BY <1>1, <1>2, <1>3, PTL DEF MixedSpec

=============================================================================
