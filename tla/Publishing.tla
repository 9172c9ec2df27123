----------------------------- MODULE Publishing -----------------------------
(***************************************************************************)
(* Spaces, notes and the shared shelf of published notes (the reference    *)
(* module, modules/reference-workspace/api).  A note lives in its writers' *)
(* organization; its published projection lives on the shelf, which the    *)
(* readers of every organization see, like and comment on.                 *)
(*                                                                         *)
(* Every repository call is a transaction of its own, so a handler that    *)
(* writes both planes writes them one after the other: an action is one    *)
(* transaction together with the synchronous code up to the next.          *)
(***************************************************************************)
EXTENDS Naturals, FiniteSets

CONSTANTS
  User,        \* the people of the organization
  Space,       \* space ids, never issued twice
  Note,        \* note ids, never issued twice
  Comment,     \* comment ids, never issued twice
  Body,        \* the contents (title and body) a note may have
  None,        \* an absent id, user or content
  MaxNotes,    \* the space.maxNotes entitlement of the organization
  Request,     \* the requests in flight at once
  Held,        \* the roles members hold (all of Roles, or those a run is about)
  Offered,     \* the operations callers send (all of Ops, or those a run is about)
  Faults       \* whether a transaction may fail or the process crash in a handler

Roles == {"owner", "admin", "member", "Author", "Editor", "Reader", "Commenter"}

Ops == {"createSpace", "deleteSpace", "createNote", "updateNote", "publish", "unpublish",
        "deleteNote", "like", "unlike", "comment", "deleteComment"}

ASSUME Finite == IsFiniteSet(Note) /\ IsFiniteSet(Request)
ASSUME NoneFresh == None \notin User \cup Space \cup Note \cup Comment \cup Body
ASSUME MaxNotesNat == MaxNotes \in Nat
ASSUME HeldRoles == Held \subseteq Roles
ASSUME OfferedOps == Offered \subseteq Ops
ASSUME FaultsBool == Faults \in BOOLEAN

VARIABLES
  role,      \* member.role of each user's member row, "none" once it is removed
  spaces,    \* space rows
  note,      \* note rows
  shelf,     \* published_note rows
  likes,     \* note_like rows
  comments,  \* note_comment rows
  audit,     \* audit_log rows about spaces
  req,       \* the requests in flight
  torn,      \* history: notes whose last shelf write was lost or overtaken
  overran    \* history: a note was inserted between another creation's count and insert

vars == <<role, spaces, note, shelf, likes, comments, audit, req, torn, overran>>
notePlane == <<role, spaces, note>>
sharedPlane == <<shelf, likes, comments>>
history == <<torn, overran>>

\* A row of note; stamped when published_at is set.
NoteRow ==
  [status : {"unborn", "draft", "published", "gone"}, stamped : BOOLEAN, body : Body \cup {None},
   space : Space \cup {None}, author : User \cup {None}, assignee : User \cup {None}]

NoNote(status) ==
  [status |-> status, stamped |-> FALSE, body |-> None, space |-> None, author |-> None,
   assignee |-> None]

\* A row of published_note; there is one for the note when on.
ShelfRow == [on : BOOLEAN, body : Body \cup {None}, space : Space \cup {None}]
OffShelf == [on |-> FALSE, body |-> None, space |-> None]

CommentRow == [status : {"unborn", "live", "gone"}, note : Note \cup {None}, user : User \cup {None}]
NoComment(status) == [status |-> status, note |-> None, user |-> None]

Steps ==
  {"idle", "insertSpace", "findSpace", "removeSpace", "auditSpace", "countNotes",
   "checkAssignee", "insertNote", "findOwned", "patch", "setStatus", "removeNote", "shelve",
   "unshelve", "findShelved", "engage", "unlike", "findComment", "removeComment"}

RequestState ==
  [pc : Steps, op : Ops \cup {"none"}, user : User \cup {None},
   moderates : BOOLEAN,               \* the caller's role could publish when authorized
   space : Space \cup {None}, note : Note \cup {None}, comment : Comment \cup {None},
   body : Body \cup {None},           \* the content to write, in the note or on the shelf
   status : {"draft", "published"}, assignee : User \cup {None}]

Idle ==
  [pc |-> "idle", op |-> "none", user |-> None, moderates |-> FALSE, space |-> None,
   note |-> None, comment |-> None, body |-> None, status |-> "draft", assignee |-> None]

TypeOK ==
  /\ role \in [User -> Roles \cup {"none"}]
  /\ spaces \in [Space -> {"unborn", "live", "gone"}]
  /\ note \in [Note -> NoteRow]
  /\ shelf \in [Note -> ShelfRow]
  /\ likes \in SUBSET (Note \X User)
  /\ comments \in [Comment -> CommentRow]
  /\ audit \in SUBSET [action : {"workspace.created", "workspace.deleted"}, space : Space]
  /\ req \in [Request -> RequestState]
  /\ torn \in SUBSET Note
  /\ overran \in BOOLEAN

-----------------------------------------------------------------------------
Exists(n) == note[n].status \in {"draft", "published"}
Existing == {n \in Note : Exists(n)}
IsMember(u) == role[u] # "none"

\* The permissions the module's manifest gives each role, by operation; owner and
\* admin have them all, member the read ones only.
Permits(rl, op) ==
  \/ rl \in {"owner", "admin"}
  \/ rl = "Author" /\ op \in {"createNote", "updateNote", "deleteNote"}
  \/ rl = "Editor" /\ op \in {"createNote", "updateNote", "deleteNote", "publish", "unpublish",
                              "createSpace", "deleteSpace"}
  \/ rl \in {"Reader", "Commenter"} /\ op \in {"like", "unlike"}
  \/ rl = "Commenter" /\ op \in {"comment", "deleteComment"}

\* A request between its write of note n and its write of n's row on the shelf
Syncing(q, n) == req[q].pc \in {"shelve", "unshelve"} /\ req[q].note = n

AtRest(n) == \A q \in Request : ~Syncing(q, n)

\* A creation that has passed the limit and not inserted yet
Counted(q) == req[q].pc \in {"checkAssignee", "insertNote"}

\* A write of note n, to be followed by the step next, while the shelf awaits
\* another request's write for n and the order of the two writes matters
Overtakes(n, next) ==
  \E q \in Request : Syncing(q, n) /\ (req[q].pc = "shelve" \/ next = "shelve")

\* The next undisturbed write of the shelf repairs what was torn.
WriteNote(n, row, next) ==
  /\ note' = [note EXCEPT ![n] = row]
  /\ torn' = IF Overtakes(n, next) THEN torn \cup {n}
             ELSE IF AtRest(n) /\ next \in {"shelve", "unshelve"} THEN torn \ {n}
             ELSE torn

Goto(r, step) == req' = [req EXCEPT ![r].pc = step]

\* toShelfInput: r goes on to write the shelf as the row just returned has it.
GotoShelf(r, step, row) ==
  req' = [req EXCEPT ![r] = [@ EXCEPT !.pc = step, !.space = row.space, !.body = row.body]]

Finish(r) == req' = [req EXCEPT ![r] = Idle]

-----------------------------------------------------------------------------
Init ==
  /\ role \in [User -> Held \cup {"none"}]
  /\ spaces = [s \in Space |-> "unborn"]
  /\ note = [n \in Note |-> NoNote("unborn")]
  /\ shelf = [n \in Note |-> OffShelf]
  /\ likes = {}
  /\ comments = [c \in Comment |-> NoComment("unborn")]
  /\ audit = {}
  /\ req = [r \in Request |-> Idle]
  /\ torn = {}
  /\ overran = FALSE

\* The membership surface of the organization (OrgMembers) changes a role, or
\* removes a row, which unassigns its notes (on delete set null).
ChangeRole(u) ==
  /\ IsMember(u)
  /\ \E rl \in Held : role' = [role EXCEPT ![u] = rl]
  /\ UNCHANGED <<spaces, note, sharedPlane, audit, req, history>>

Leave(u) ==
  /\ IsMember(u)
  /\ role' = [role EXCEPT ![u] = "none"]
  /\ note' = [n \in Note |-> IF note[n].assignee = u THEN [note[n] EXCEPT !.assignee = None]
                             ELSE note[n]]
  /\ UNCHANGED <<spaces, sharedPlane, audit, req, history>>

FirstStep(op) ==
  CASE op = "createSpace" -> "insertSpace"
    [] op \in {"deleteSpace", "createNote"} -> "findSpace"
    [] op \in {"updateNote", "deleteNote"} -> "findOwned"
    [] op \in {"publish", "unpublish"} -> "setStatus"
    [] op \in {"like", "comment"} -> "findShelved"
    [] op = "unlike" -> "unlike"
    [] OTHER -> "findComment"

\* What a caller may send: ids come from earlier responses, and the rows they
\* name may be gone by now.  An update that names no field leaves body None.
IssuedSpace == {s \in Space : spaces[s] # "unborn"}
IssuedNote == {n \in Note : note[n].status # "unborn"}
IssuedComment == {c \in Comment : comments[c].status # "unborn"}

Call(op, u, s, n, c, b, st, a) ==
  [pc |-> FirstStep(op), op |-> op, user |-> u, moderates |-> Permits(role[u], "publish"),
   space |-> s, note |-> n, comment |-> c, body |-> b, status |-> st, assignee |-> a]

NoteOps == {"publish", "unpublish", "deleteNote", "like", "unlike", "comment"}

Calls(u) ==
  {Call("createSpace", u, None, None, None, None, "draft", None)}
    \cup {Call("deleteSpace", u, s, None, None, None, "draft", None) : s \in IssuedSpace}
    \cup {Call("createNote", u, s, None, None, b, st, a) :
            s \in IssuedSpace, b \in Body, st \in {"draft", "published"}, a \in User \cup {None}}
    \cup {Call("updateNote", u, None, n, None, b, "draft", None) :
            n \in IssuedNote, b \in Body \cup {None}}
    \cup {Call(op, u, None, n, None, None, "draft", None) : n \in IssuedNote, op \in NoteOps}
    \cup {Call("deleteComment", u, None, None, c, None, "draft", None) : c \in IssuedComment}

\* Bound: there is an unissued id for every request that may insert a row.
InFlight(op) == Cardinality({q \in Request : req[q].op = op})
Room(op) ==
  /\ op = "createSpace" => InFlight(op) < Cardinality(Space \ IssuedSpace)
  /\ op = "createNote" => InFlight(op) < Cardinality(Note \ IssuedNote)
  /\ op = "comment" => InFlight(op) < Cardinality(Comment \ IssuedComment)

\* authorize: the caller's role is read and its permission checked, once.
Begin(r) ==
  /\ req[r].pc = "idle"
  /\ \E u \in User : \E c \in Calls(u) :
       /\ c.op \in Offered
       /\ Permits(role[u], c.op)
       /\ Room(c.op)
       /\ req' = [req EXCEPT ![r] = c]
  /\ UNCHANGED <<notePlane, sharedPlane, audit, history>>

\* A transaction fails or the process stops: the handler writes nothing more,
\* and the shelf write it owed is lost.
Fail(r) ==
  /\ Faults
  /\ req[r].pc # "idle"
  /\ Finish(r)
  /\ torn' = torn \cup {n \in Note : Syncing(r, n)}
  /\ UNCHANGED <<notePlane, sharedPlane, audit, overran>>

-----------------------------------------------------------------------------
\* createWorkspace
InsertSpace(r) ==
  /\ req[r].pc = "insertSpace"
  /\ \E s \in Space \ IssuedSpace :
       /\ spaces' = [spaces EXCEPT ![s] = "live"]
       /\ req' = [req EXCEPT ![r].pc = "auditSpace", ![r].space = s]
  /\ UNCHANGED <<role, note, sharedPlane, audit, history>>

\* mutant: the operation's name is logged, which no audit reader knows
AuditSpaceOp(r) ==
  /\ req[r].pc = "auditSpace"
  /\ audit' = audit \cup {[action |-> req[r].op, space |-> req[r].space]}
  /\ Finish(r)
  /\ UNCHANGED <<notePlane, sharedPlane, history>>

AuditSpace(r) ==
  /\ req[r].pc = "auditSpace"
  /\ audit' = audit \cup
       {[action |-> IF req[r].op = "createSpace" THEN "workspace.created" ELSE "workspace.deleted",
         space |-> req[r].space]}
  /\ Finish(r)
  /\ UNCHANGED <<notePlane, sharedPlane, history>>

\* requireWorkspace, or deleteWorkspace's own lookup
FindSpace(r) ==
  /\ req[r].pc = "findSpace"
  /\ IF spaces[req[r].space] = "live"
     THEN Goto(r, IF req[r].op = "deleteSpace" THEN "removeSpace" ELSE "countNotes")
     ELSE Finish(r)
  /\ UNCHANGED <<notePlane, sharedPlane, audit, history>>

\* The delete cascades to the space's notes.  Its row count is not looked at,
\* so a second deletion is logged too; the shelf is not touched.
RemoveSpace(r) ==
  /\ req[r].pc = "removeSpace"
  /\ spaces' = [spaces EXCEPT ![req[r].space] = "gone"]
  /\ note' = [n \in Note |-> IF Exists(n) /\ note[n].space = req[r].space THEN NoNote("gone")
                             ELSE note[n]]
  /\ Goto(r, "auditSpace")
  /\ UNCHANGED <<role, sharedPlane, audit, history>>

-----------------------------------------------------------------------------
Assigned(r) == req[r].assignee # None

\* mutant: off by one
CountNotesLate(r) ==
  /\ req[r].pc = "countNotes"
  /\ IF Cardinality(Existing) > MaxNotes THEN Finish(r)
     ELSE Goto(r, IF Assigned(r) THEN "checkAssignee" ELSE "insertNote")
  /\ UNCHANGED <<notePlane, sharedPlane, audit, history>>

\* createTask: at the limit it is refused with 403
CountNotes(r) ==
  /\ req[r].pc = "countNotes"
  /\ IF Cardinality(Existing) >= MaxNotes THEN Finish(r)
     ELSE Goto(r, IF Assigned(r) THEN "checkAssignee" ELSE "insertNote")
  /\ UNCHANGED <<notePlane, sharedPlane, audit, history>>

CheckAssignee(r) ==
  /\ req[r].pc = "checkAssignee"
  /\ IF IsMember(req[r].assignee) THEN Goto(r, "insertNote") ELSE Finish(r)
  /\ UNCHANGED <<notePlane, sharedPlane, audit, history>>

\* The row references the space and the assignee: the insert fails when either
\* has gone.  The caller chooses the status, and published_at is left unset.
InsertNote(r) ==
  /\ req[r].pc = "insertNote"
  /\ IF spaces[req[r].space] = "live" /\ (Assigned(r) => IsMember(req[r].assignee))
     THEN /\ \E n \in Note \ IssuedNote :
               note' = [note EXCEPT ![n] =
                 [status |-> req[r].status, stamped |-> FALSE, body |-> req[r].body,
                  space |-> req[r].space, author |-> req[r].user, assignee |-> req[r].assignee]]
          /\ overran' = (overran \/ \E q \in Request \ {r} : Counted(q))
     ELSE UNCHANGED <<note, overran>>
  /\ Finish(r)
  /\ UNCHANGED <<role, spaces, sharedPlane, audit, torn>>

\* requireOwnedNote: the author's own note, or a caller who could publish
FindOwned(r) ==
  /\ req[r].pc = "findOwned"
  /\ IF Exists(req[r].note) /\ (note[req[r].note].author = req[r].user \/ req[r].moderates)
     THEN IF req[r].op = "deleteNote" THEN Goto(r, "removeNote")
          ELSE IF req[r].body # None THEN Goto(r, "patch") ELSE Finish(r)
     ELSE Finish(r)
  /\ UNCHANGED <<notePlane, sharedPlane, audit, history>>

\* mutant: an edit of a published note stays off the shelf
PatchOnly(r) ==
  /\ req[r].pc = "patch"
  /\ LET n == req[r].note
     IN  IF Exists(n) THEN WriteNote(n, [note[n] EXCEPT !.body = req[r].body], "idle")
         ELSE UNCHANGED <<note, torn>>
  /\ Finish(r)
  /\ UNCHANGED <<role, spaces, sharedPlane, audit, overran>>

\* updateNote: the row just returned decides whether the shelf follows.
Patch(r) ==
  /\ req[r].pc = "patch"
  /\ LET n == req[r].note
         row == [note[n] EXCEPT !.body = req[r].body]
         next == IF row.status = "published" THEN "shelve" ELSE "idle"
     IN  IF Exists(n)
         THEN /\ WriteNote(n, row, next)
              /\ IF next = "shelve" THEN GotoShelf(r, next, row) ELSE Finish(r)
         ELSE Finish(r) /\ UNCHANGED <<note, torn>>
  /\ UNCHANGED <<role, spaces, sharedPlane, audit, overran>>

\* publishTask and unpublishTask: a note of any status is set, 404 when it is gone
SetStatus(r) ==
  /\ req[r].pc = "setStatus"
  /\ LET n == req[r].note
         up == req[r].op = "publish"
         row == [note[n] EXCEPT !.status = IF up THEN "published" ELSE "draft", !.stamped = up]
         next == IF up THEN "shelve" ELSE "unshelve"
     IN  IF Exists(n) THEN WriteNote(n, row, next) /\ GotoShelf(r, next, row)
         ELSE Finish(r) /\ UNCHANGED <<note, torn>>
  /\ UNCHANGED <<role, spaces, sharedPlane, audit, overran>>

\* deleteTask: 404 when the note went meanwhile
RemoveNote(r) ==
  /\ req[r].pc = "removeNote"
  /\ LET n == req[r].note
     IN  IF Exists(n) THEN WriteNote(n, NoNote("gone"), "unshelve") /\ Goto(r, "unshelve")
         ELSE Finish(r) /\ UNCHANGED <<note, torn>>
  /\ UNCHANGED <<role, spaces, sharedPlane, audit, overran>>

-----------------------------------------------------------------------------
\* mutant: an update where the upsert is
ShelveOnlyShelved(r) ==
  /\ req[r].pc = "shelve"
  /\ shelf' = [shelf EXCEPT ![req[r].note] =
       IF shelf[req[r].note].on THEN [on |-> TRUE, body |-> req[r].body, space |-> req[r].space]
       ELSE OffShelf]
  /\ Finish(r)
  /\ UNCHANGED <<notePlane, likes, comments, audit, history>>

\* shelf.publish: insert, or update the row that is there, with the note as the
\* handler's own statement returned it
Shelve(r) ==
  /\ req[r].pc = "shelve"
  /\ shelf' = [shelf EXCEPT ![req[r].note] =
                 [on |-> TRUE, body |-> req[r].body, space |-> req[r].space]]
  /\ Finish(r)
  /\ UNCHANGED <<notePlane, likes, comments, audit, history>>

\* mutant: likes and comments do not reference the shelf
UnshelveAlone(r) ==
  /\ req[r].pc = "unshelve"
  /\ shelf' = [shelf EXCEPT ![req[r].note] = OffShelf]
  /\ Finish(r)
  /\ UNCHANGED <<notePlane, likes, comments, audit, history>>

\* shelf.remove, which cascades to the note's likes and comments
Unshelve(r) ==
  /\ req[r].pc = "unshelve"
  /\ LET n == req[r].note
     IN  /\ shelf' = [shelf EXCEPT ![n] = OffShelf]
         /\ likes' = {l \in likes : l[1] # n}
         /\ comments' = [c \in Comment |->
              IF comments[c].status = "live" /\ comments[c].note = n THEN NoComment("gone")
              ELSE comments[c]]
  /\ Finish(r)
  /\ UNCHANGED <<notePlane, audit, history>>

-----------------------------------------------------------------------------
\* requirePublished
FindShelved(r) ==
  /\ req[r].pc = "findShelved"
  /\ IF shelf[req[r].note].on THEN Goto(r, "engage") ELSE Finish(r)
  /\ UNCHANGED <<notePlane, sharedPlane, audit, history>>

\* Both rows reference published_note: the insert fails once the note has left
\* the shelf.  A second like of the same user is dropped (on conflict).
Engage(r) ==
  /\ req[r].pc = "engage"
  /\ IF ~shelf[req[r].note].on THEN UNCHANGED <<likes, comments>>
     ELSE IF req[r].op = "like"
          THEN likes' = likes \cup {<<req[r].note, req[r].user>>} /\ UNCHANGED comments
          ELSE /\ \E c \in Comment \ IssuedComment : comments' = [comments EXCEPT ![c] =
                    [status |-> "live", note |-> req[r].note, user |-> req[r].user]]
               /\ UNCHANGED likes
  /\ Finish(r)
  /\ UNCHANGED <<notePlane, shelf, audit, history>>

Unlike(r) ==
  /\ req[r].pc = "unlike"
  /\ likes' = likes \ {<<req[r].note, req[r].user>>}
  /\ Finish(r)
  /\ UNCHANGED <<notePlane, shelf, comments, audit, history>>

\* deleteOwnComment: the comment is found by its id alone
FindComment(r) ==
  /\ req[r].pc = "findComment"
  /\ LET c == comments[req[r].comment]
     IN  IF c.status = "live" /\ c.user = req[r].user THEN Goto(r, "removeComment")
         ELSE Finish(r)
  /\ UNCHANGED <<notePlane, sharedPlane, audit, history>>

RemoveComment(r) ==
  /\ req[r].pc = "removeComment"
  /\ comments' = [comments EXCEPT ![req[r].comment] = NoComment("gone")]
  /\ Finish(r)
  /\ UNCHANGED <<notePlane, shelf, likes, audit, history>>

-----------------------------------------------------------------------------
Outside == \E u \in User : ChangeRole(u) \/ Leave(u)

SpaceStep(r) == InsertSpace(r) \/ AuditSpace(r) \/ FindSpace(r) \/ RemoveSpace(r)
CreateStep(r) == CountNotes(r) \/ CheckAssignee(r) \/ InsertNote(r)
NoteStep(r) == FindOwned(r) \/ Patch(r) \/ SetStatus(r) \/ RemoveNote(r)
ShelfStep(r) == Shelve(r) \/ Unshelve(r)
ReaderStep(r) ==
  FindShelved(r) \/ Engage(r) \/ Unlike(r) \/ FindComment(r) \/ RemoveComment(r)

Continue(r) == SpaceStep(r) \/ CreateStep(r) \/ NoteStep(r) \/ ShelfStep(r) \/ ReaderStep(r)

Handle(r) == Begin(r) \/ Fail(r) \/ Continue(r)

Next == Outside \/ \E r \in Request : Handle(r)

Spec == Init /\ [][Next]_vars

\* The event loop resumes every handler whose transaction has ended.
FairSpec == Spec /\ \A r \in Request : WF_vars(Continue(r))

-----------------------------------------------------------------------------
\* The shelf shows what the writers' plane holds: once a note's handlers have
\* ended, and unless its last shelf write was lost or overtaken, a row on the
\* shelf is a published note with its current content, or the remains of a note
\* deleted with its space.
ShelfShowsCurrent ==
  \A n \in Note : shelf[n].on /\ AtRest(n) /\ n \notin torn =>
    IF Exists(n) THEN note[n].status = "published" /\ shelf[n].body = note[n].body
    ELSE spaces[shelf[n].space] = "gone"

\* A note that publishing has stamped is on the shelf for readers, and stays
\* there until it is unpublished, unless a shelf write was lost or overtaken.
StampedIsShelved ==
  \A n \in Note : note[n].stamped /\ AtRest(n) /\ n \notin torn => shelf[n].on

\* Likes and comments are only ever of notes on the shelf: unpublishing and
\* deleting a note take them along, also those posted meanwhile.
EngagementOnShelf ==
  /\ \A l \in likes : shelf[l[1]].on
  /\ \A c \in Comment : comments[c].status = "live" => shelf[comments[c].note].on

\* The organization holds more notes than its limit only when two creations
\* overlapped: one inserted between the other's count and its insert.
CapUnlessOverran == ~overran => Cardinality(Existing) <= MaxNotes

\* A note sits in an existing space, and its assignee is a current member, also
\* when the space is deleted or the member removed while it is being created.
RowsReferenced ==
  \A n \in Existing :
    /\ spaces[note[n].space] = "live"
    /\ note[n].assignee # None => IsMember(note[n].assignee)

\* A note that publishing has stamped reaches the shelf, or stops being
\* published, or its shelf write is overtaken by another request's.
PublishedReachesShelf ==
  \A n \in Note : note[n].stamped ~> (shelf[n].on \/ ~note[n].stamped \/ n \in torn)

-----------------------------------------------------------------------------
\* The inductive invariant.  What a request names is there to be named:
WellFormed(q) ==
  /\ q.pc \in {"findOwned", "patch", "setStatus", "removeNote", "shelve", "unshelve",
              "findShelved", "engage", "unlike"} => q.note \in Note
  /\ q.pc \in {"findSpace", "removeSpace", "auditSpace", "countNotes", "checkAssignee",
              "insertNote"} => q.space \in Space
  /\ q.pc \in {"findComment", "removeComment"} => q.comment \in Comment
  /\ q.pc # "idle" => q.user \in User

RequestInv == \A r \in Request : WellFormed(req[r])

\* A note that was never created has left no trace; published_at is only ever
\* set on a published note.
TraceInv ==
  \A n \in Note :
    /\ note[n].status = "unborn" => ~shelf[n].on /\ AtRest(n)
    /\ note[n].stamped => note[n].status = "published"
    /\ Exists(n) => note[n].space \in Space

\* What a row that shows body, of a note in the space sp, claims about the note
Shows(n, body, sp) ==
  /\ sp \in Space
  /\ IF Exists(n) THEN note[n].status = "published" /\ note[n].body = body /\ note[n].space = sp
     ELSE spaces[sp] = "gone"

\* What is on the shelf, or is about to be, shows the note, and a stamped note is
\* on the shelf, or is about to be.
Synced(n) ==
  /\ AtRest(n) => (shelf[n].on => Shows(n, shelf[n].body, shelf[n].space))
                  /\ (note[n].stamped => shelf[n].on)
  /\ \A q \in Request : Syncing(q, n) =>
       IF req[q].pc = "shelve"
       THEN /\ Shows(n, req[q].body, req[q].space)
            /\ \A p \in Request \ {q} : ~Syncing(p, n)
       ELSE note[n].status \in {"draft", "gone"}

ShelfInv == \A n \in Note \ torn : Synced(n)

EngagementInv ==
  /\ EngagementOnShelf
  /\ \A c \in Comment : comments[c].status = "live" => comments[c].note \in Note

\* A creation past the limit check still has room, unless one overran it.
CapInv ==
  ~overran =>
    /\ Cardinality(Existing) <= MaxNotes
    /\ \A q \in Request : Counted(q) => Cardinality(Existing) < MaxNotes

IInv ==
  TypeOK /\ RequestInv /\ TraceInv /\ RowsReferenced /\ ShelfInv /\ EngagementInv /\ CapInv

-----------------------------------------------------------------------------
\* modules/reference-workspace/api/task.service.ts:234: "A deleted note must also
\* leave the shared shelf (§9.x)."
DeletedLeavesShelf ==
  \A n \in Note : note[n].status = "gone" /\ AtRest(n) => ~shelf[n].on

\* modules/reference-workspace/api/schema.ts:60: "only publish inserts"
OnlyPublishInserts ==
  [][\A n \in Note : ~shelf[n].on /\ shelf'[n].on =>
       \E r \in Request : req[r].op = "publish" /\ req[r].note = n /\ req[r].pc = "shelve"]_vars
=============================================================================
