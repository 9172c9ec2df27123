-------------------------- MODULE PublishingProofs --------------------------
(***************************************************************************)
(* Proofs about Publishing for any number of users, ids and requests.      *)
(***************************************************************************)
EXTENDS Publishing, TLAPS, FiniteSetTheorems

Pending(q) == req[q].pc \in {"shelve", "unshelve"}

LEMMA IdleType == Idle \in RequestState /\ WellFormed(Idle)
BY DEF Idle, RequestState, Steps, WellFormed

\* A request that goes to another step keeps everything else of it.
LEMMA GotoEffect ==
  ASSUME NEW r \in Request, NEW step \in Steps, req \in [Request -> RequestState], Goto(r, step)
  PROVE  /\ req' \in [Request -> RequestState]
         /\ \A q \in Request \ {r} : req'[q] = req[q]
         /\ req'[r].pc = step /\ req'[r].op = req[r].op /\ req'[r].user = req[r].user
         /\ req'[r].note = req[r].note /\ req'[r].space = req[r].space
         /\ req'[r].comment = req[r].comment /\ req'[r].body = req[r].body
BY DEF Goto, RequestState

LEMMA FinishEffect ==
  ASSUME NEW r \in Request, req \in [Request -> RequestState], Finish(r)
  PROVE  /\ req' \in [Request -> RequestState]
         /\ \A q \in Request \ {r} : req'[q] = req[q]
         /\ req'[r] = Idle /\ req'[r].pc = "idle"
BY IdleType DEF Finish, Idle

LEMMA GotoShelfEffect ==
  ASSUME NEW r \in Request, NEW step \in Steps, req \in [Request -> RequestState],
         NEW row \in NoteRow, GotoShelf(r, step, row)
  PROVE  /\ req' \in [Request -> RequestState]
         /\ \A q \in Request \ {r} : req'[q] = req[q]
         /\ req'[r].pc = step /\ req'[r].user = req[r].user /\ req'[r].note = req[r].note
         /\ req'[r].body = row.body /\ req'[r].space = row.space
<1>. DEFINE new == [req[r] EXCEPT !.pc = step, !.space = row.space, !.body = row.body]
<1>1. req[r] \in RequestState /\ row.space \in Space \cup {None} /\ row.body \in Body \cup {None}
  BY DEF NoteRow
<1>2. /\ new \in RequestState /\ new.pc = step /\ new.user = req[r].user
      /\ new.note = req[r].note /\ new.body = row.body /\ new.space = row.space
  BY <1>1 DEF RequestState
<1>3. req' = [req EXCEPT ![r] = new]
  BY DEF GotoShelf
<1>. HIDE DEF new
<1>. QED
  BY <1>2, <1>3

\* What arrives is well formed and has not reached a write.
LEMMA CallsType ==
  ASSUME NEW u \in User, NEW c \in Calls(u)
  PROVE  /\ c \in RequestState /\ WellFormed(c)
         /\ c.pc \notin {"idle", "shelve", "unshelve", "checkAssignee", "insertNote"}
<1>1. ASSUME NEW op \in Ops, NEW s \in Space \cup {None}, NEW n \in Note \cup {None},
             NEW d \in Comment \cup {None}, NEW b \in Body \cup {None},
             NEW st \in {"draft", "published"}, NEW a \in User \cup {None},
             op \in {"deleteSpace", "createNote"} => s \in Space,
             op \in NoteOps \cup {"updateNote"} => n \in Note,
             op = "deleteComment" => d \in Comment
      PROVE  /\ Call(op, u, s, n, d, b, st, a) \in RequestState
             /\ WellFormed(Call(op, u, s, n, d, b, st, a))
             /\ Call(op, u, s, n, d, b, st, a).pc
                  \notin {"idle", "shelve", "unshelve", "checkAssignee", "insertNote"}
  <2>1. FirstStep(op) \in Steps \ {"idle", "shelve", "unshelve", "checkAssignee", "insertNote"}
    BY DEF FirstStep, Ops, Steps
  <2>2. Permits(role[u], "publish") \in BOOLEAN
    BY DEF Permits
  <2>. QED
    BY <1>1, <2>1, <2>2 DEF Call, RequestState, WellFormed, FirstStep, Ops, NoteOps
<1>2. CASE c = Call("createSpace", u, None, None, None, None, "draft", None)
  BY <1>1, <1>2 DEF Ops, NoteOps
<1>3. CASE \E s \in IssuedSpace : c = Call("deleteSpace", u, s, None, None, None, "draft", None)
  BY <1>1, <1>3 DEF IssuedSpace, Ops, NoteOps
<1>4. CASE \E s \in IssuedSpace, b \in Body, st \in {"draft", "published"}, a \in User \cup {None} :
             c = Call("createNote", u, s, None, None, b, st, a)
  BY <1>1, <1>4 DEF IssuedSpace, Ops, NoteOps
<1>5. CASE \E n \in IssuedNote, b \in Body \cup {None} :
             c = Call("updateNote", u, None, n, None, b, "draft", None)
  <2>1. PICK n \in IssuedNote, b \in Body \cup {None} :
               c = Call("updateNote", u, None, n, None, b, "draft", None)
    BY <1>5
  <2>2. n \in Note /\ "updateNote" \in Ops \ {"deleteSpace", "createNote", "deleteComment"}
    BY DEF IssuedNote, Ops
  <2>. QED
    BY <1>1, <2>1, <2>2
<1>6. CASE \E n \in IssuedNote, op \in NoteOps :
             c = Call(op, u, None, n, None, None, "draft", None)
  BY <1>1, <1>6 DEF IssuedNote, Ops, NoteOps
<1>7. CASE \E d \in IssuedComment : c = Call("deleteComment", u, None, None, d, None, "draft", None)
  BY <1>1, <1>7 DEF IssuedComment, Ops, NoteOps
<1>. QED
  BY <1>2, <1>3, <1>4, <1>5, <1>6, <1>7 DEF Calls

LEMMA BeginEffect ==
  ASSUME NEW r \in Request, req \in [Request -> RequestState], Begin(r)
  PROVE  /\ req' \in [Request -> RequestState]
         /\ \A q \in Request \ {r} : req'[q] = req[q]
         /\ req[r].pc = "idle" /\ WellFormed(req'[r])
         /\ req'[r].pc \notin {"shelve", "unshelve", "checkAssignee", "insertNote"}
<1>1. PICK u \in User : \E c \in Calls(u) : req' = [req EXCEPT ![r] = c]
  BY DEF Begin
<1>2. PICK c \in Calls(u) : req' = [req EXCEPT ![r] = c]
  BY <1>1
<1>. QED
  BY <1>2, CallsType DEF Begin

-----------------------------------------------------------------------------
\* The three writes of a note are one kind of step: the row written, and the
\* shelf write, if any, that will follow.
RowFollows(n, row, next) ==
  /\ row \in NoteRow
  /\ next \in {"idle", "shelve", "unshelve"}
  /\ next = "shelve" => row.status = "published"
  /\ next = "unshelve" => row.status \in {"draft", "gone"}
  /\ next = "idle" => row.status = "draft" /\ note[n].status = "draft"
  /\ row.status # "gone" => row.space = note[n].space /\ row.assignee = note[n].assignee
  /\ row.stamped => row.status = "published"

NoteWrite(r, n, row, next) ==
  /\ Exists(n)
  /\ RowFollows(n, row, next)
  /\ WriteNote(n, row, next)
  /\ ~Pending(r)
  /\ \A q \in Request \ {r} : req'[q] = req[q]
  /\ req'[r].pc = next
  /\ next # "idle" => req'[r].note = n
  /\ next = "shelve" => req'[r].body = row.body /\ req'[r].space = row.space
  /\ UNCHANGED <<role, spaces, sharedPlane, audit, overran>>

LEMMA PatchWrites ==
  ASSUME TypeOK, RequestInv, TraceInv, NEW r \in Request, Patch(r)
  PROVE  /\ req' \in [Request -> RequestState] /\ WellFormed(req'[r])
         /\ \/ Finish(r) /\ UNCHANGED <<note, torn, role, spaces, sharedPlane, audit, overran>>
            \/ \E n \in Note, row \in NoteRow, next \in Steps : NoteWrite(r, n, row, next)
<1>. DEFINE n == req[r].note
            row == [note[n] EXCEPT !.body = req[r].body]
            next == IF row.status = "published" THEN "shelve" ELSE "idle"
<1>1. n \in Note /\ req[r].pc = "patch" /\ req[r] \in RequestState /\ req[r].user \in User
  BY DEF Patch, RequestInv, WellFormed, TypeOK
<1>2. CASE ~Exists(n)
  BY <1>1, <1>2, FinishEffect, IdleType DEF Patch, TypeOK
<1>3. CASE Exists(n)
  <2>1. row \in NoteRow /\ row.status = note[n].status /\ row.stamped = note[n].stamped
        /\ row.space = note[n].space /\ row.assignee = note[n].assignee /\ row.body = req[r].body
    BY <1>1 DEF TypeOK, NoteRow, RequestState
  <2>2. RowFollows(n, row, next)
    BY <1>1, <1>3, <2>1 DEF RowFollows, Exists, TraceInv
  <2>3. WriteNote(n, row, next) /\ UNCHANGED <<role, spaces, sharedPlane, audit, overran>>
    BY <1>3 DEF Patch
  <2>6. req \in [Request -> RequestState] /\ "shelve" \in Steps
    BY DEF TypeOK, Steps
  <2>4. CASE next = "shelve"
    <3>1. GotoShelf(r, next, row)
      BY <1>3, <2>4 DEF Patch
    <3>2. /\ req' \in [Request -> RequestState]
          /\ \A q \in Request \ {r} : req'[q] = req[q]
          /\ req'[r].pc = next /\ req'[r].note = n /\ req'[r].user = req[r].user
          /\ req'[r].body = row.body /\ req'[r].space = row.space
      BY <2>1, <2>4, <2>6, <3>1, GotoShelfEffect
    <3>. QED
      BY <1>1, <1>3, <2>1, <2>2, <2>3, <2>4, <3>2 DEF NoteWrite, Pending, WellFormed, Steps
  <2>5. CASE next = "idle"
    <3>1. Finish(r)
      BY <1>3, <2>5 DEF Patch
    <3>. QED
      BY <1>1, <1>3, <2>1, <2>2, <2>3, <2>5, <3>1, FinishEffect, IdleType
      DEF NoteWrite, Pending, WellFormed, Steps, TypeOK
  <2>. QED
    BY <2>4, <2>5
<1>. QED
  BY <1>2, <1>3

LEMMA SetStatusWrites ==
  ASSUME TypeOK, RequestInv, TraceInv, NEW r \in Request, SetStatus(r)
  PROVE  /\ req' \in [Request -> RequestState] /\ WellFormed(req'[r])
         /\ \/ Finish(r) /\ UNCHANGED <<note, torn, role, spaces, sharedPlane, audit, overran>>
            \/ \E n \in Note, row \in NoteRow, next \in Steps : NoteWrite(r, n, row, next)
<1>. DEFINE n == req[r].note
            up == req[r].op = "publish"
            next == IF up THEN "shelve" ELSE "unshelve"
            row == [note[n] EXCEPT !.status = IF up THEN "published" ELSE "draft", !.stamped = up]
<1>1. n \in Note /\ req[r].pc = "setStatus" /\ req[r] \in RequestState /\ req[r].user \in User
  BY DEF SetStatus, RequestInv, WellFormed, TypeOK
<1>2. CASE ~Exists(n)
  BY <1>1, <1>2, FinishEffect, IdleType DEF SetStatus, TypeOK
<1>3. CASE Exists(n)
  <2>0. up \in BOOLEAN
    OBVIOUS
  <2>1. row \in NoteRow /\ row.status = (IF up THEN "published" ELSE "draft") /\ row.stamped = up
        /\ row.space = note[n].space /\ row.assignee = note[n].assignee /\ row.body = note[n].body
    BY <1>1, <2>0 DEF TypeOK, NoteRow
  <2>2. RowFollows(n, row, next)
    BY <1>1, <1>3, <2>1 DEF RowFollows
  <2>3. WriteNote(n, row, next) /\ UNCHANGED <<role, spaces, sharedPlane, audit, overran>>
    BY <1>3 DEF SetStatus
  <2>4. GotoShelf(r, next, row)
    BY <1>3 DEF SetStatus
  <2>5. next \in Steps /\ req \in [Request -> RequestState]
    BY DEF TypeOK, Steps
  <2>6. /\ req' \in [Request -> RequestState]
        /\ \A q \in Request \ {r} : req'[q] = req[q]
        /\ req'[r].pc = next /\ req'[r].note = n /\ req'[r].user = req[r].user
        /\ req'[r].body = row.body /\ req'[r].space = row.space
    <3>. HIDE DEF row, next
    <3>. QED
      BY <2>1, <2>4, <2>5, GotoShelfEffect
  <2>. QED
    BY <1>1, <1>3, <2>1, <2>2, <2>3, <2>5, <2>6 DEF NoteWrite, Pending, WellFormed
<1>. QED
  BY <1>2, <1>3

LEMMA RemoveNoteWrites ==
  ASSUME TypeOK, RequestInv, TraceInv, NEW r \in Request, RemoveNote(r)
  PROVE  /\ req' \in [Request -> RequestState] /\ WellFormed(req'[r])
         /\ \/ Finish(r) /\ UNCHANGED <<note, torn, role, spaces, sharedPlane, audit, overran>>
            \/ \E n \in Note, row \in NoteRow, next \in Steps : NoteWrite(r, n, row, next)
<1>. DEFINE n == req[r].note
<1>1. n \in Note /\ req[r].pc = "removeNote" /\ req[r] \in RequestState /\ req[r].user \in User
  BY DEF RemoveNote, RequestInv, WellFormed, TypeOK
<1>2. CASE ~Exists(n)
  BY <1>1, <1>2, FinishEffect, IdleType DEF RemoveNote, TypeOK
<1>3. CASE Exists(n)
  <2>1. NoNote("gone") \in NoteRow /\ NoNote("gone").status = "gone" /\ ~NoNote("gone").stamped
    BY DEF NoNote, NoteRow
  <2>2. RowFollows(n, NoNote("gone"), "unshelve")
    BY <2>1 DEF RowFollows
  <2>3. /\ WriteNote(n, NoNote("gone"), "unshelve") /\ Goto(r, "unshelve")
        /\ UNCHANGED <<role, spaces, sharedPlane, audit, overran>>
    BY <1>3 DEF RemoveNote
  <2>4. "unshelve" \in Steps
    BY DEF Steps
  <2>. QED
    BY <1>1, <1>3, <2>1, <2>2, <2>3, <2>4, GotoEffect DEF NoteWrite, Pending, WellFormed, TypeOK
<1>. QED
  BY <1>2, <1>3

-----------------------------------------------------------------------------
\* A step of r leaves the other requests alone and what it names is there.
LEMMA RequestStep ==
  ASSUME TypeOK, RequestInv, TraceInv, NEW r \in Request, Handle(r)
  PROVE  /\ req' \in [Request -> RequestState]
         /\ \A q \in Request \ {r} : req'[q] = req[q]
         /\ WellFormed(req'[r])
<1>. DEFINE Goal == /\ req' \in [Request -> RequestState]
                    /\ \A q \in Request \ {r} : req'[q] = req[q]
                    /\ WellFormed(req'[r])
<1>1. req \in [Request -> RequestState] /\ WellFormed(req[r])
  BY DEF TypeOK, RequestInv
<1>2. Finish(r) => Goal
  BY <1>1, FinishEffect, IdleType
<1>3. ASSUME NEW step \in Steps, Goto(r, step), req[r].pc # "idle",
             step \in {"auditSpace", "removeSpace", "countNotes", "checkAssignee", "insertNote"}
               => req[r].space \in Space,
             step \in {"patch", "removeNote", "unshelve", "engage"} => req[r].note \in Note,
             step = "removeComment" => req[r].comment \in Comment,
             step \in {"auditSpace", "removeSpace", "countNotes", "checkAssignee", "insertNote",
                       "patch", "removeNote", "unshelve", "engage", "removeComment"}
      PROVE  Goal
  BY <1>1, <1>3, GotoEffect DEF WellFormed
<1>4. CASE Begin(r)
  BY <1>1, <1>4, BeginEffect
<1>5. CASE Fail(r) \/ AuditSpace(r) \/ InsertNote(r) \/ ShelfStep(r) \/ Engage(r) \/ Unlike(r)
             \/ RemoveComment(r)
  BY <1>2, <1>5 DEF Fail, AuditSpace, InsertNote, ShelfStep, Shelve, Unshelve, Engage, Unlike,
     RemoveComment
<1>6. CASE InsertSpace(r)
  <2>1. PICK s \in Space : req' = [req EXCEPT ![r].pc = "auditSpace", ![r].space = s]
    BY <1>6 DEF InsertSpace
  <2>2. req[r].pc = "insertSpace" /\ req[r] \in RequestState
    BY <1>1, <1>6 DEF InsertSpace
  <2>3. /\ req' \in [Request -> RequestState]
        /\ \A q \in Request \ {r} : req'[q] = req[q]
        /\ req'[r].pc = "auditSpace" /\ req'[r].space = s /\ req'[r].user = req[r].user
    BY <1>1, <2>1, <2>2 DEF RequestState, Steps
  <2>. QED
    BY <1>1, <2>2, <2>3 DEF WellFormed
<1>7. CASE FindSpace(r)
  <2>1. req[r].pc = "findSpace" /\ req[r].space \in Space
    BY <1>1, <1>7 DEF FindSpace, WellFormed
  <2>. QED
    BY <1>2, <1>3, <1>7, <2>1 DEF FindSpace, Steps
<1>8. CASE RemoveSpace(r)
  BY <1>1, <1>3, <1>8 DEF RemoveSpace, WellFormed, Steps
<1>9. CASE CountNotes(r)
  <2>1. req[r].pc = "countNotes" /\ req[r].space \in Space
    BY <1>1, <1>9 DEF CountNotes, WellFormed
  <2>. QED
    BY <1>2, <1>3, <1>9, <2>1 DEF CountNotes, Steps
<1>10. CASE CheckAssignee(r)
  BY <1>1, <1>2, <1>3, <1>10 DEF CheckAssignee, WellFormed, Steps
<1>11. CASE FindOwned(r)
  <2>1. req[r].pc = "findOwned" /\ req[r].note \in Note
    BY <1>1, <1>11 DEF FindOwned, WellFormed
  <2>2. Goto(r, "removeNote") \/ Goto(r, "patch") \/ Finish(r)
    BY <1>11 DEF FindOwned
  <2>. QED
    BY <1>2, <1>3, <2>1, <2>2 DEF Steps
<1>12. CASE Patch(r) \/ SetStatus(r) \/ RemoveNote(r)
  <2>1. req' \in [Request -> RequestState] /\ WellFormed(req'[r])
    BY <1>12, PatchWrites, SetStatusWrites, RemoveNoteWrites
  <2>2. Finish(r) => Goal
    BY <1>2
  <2>3. \A n, row, next : NoteWrite(r, n, row, next) => \A q \in Request \ {r} : req'[q] = req[q]
    BY DEF NoteWrite
  <2>. QED
    BY <1>12, <2>1, <2>2, <2>3, PatchWrites, SetStatusWrites, RemoveNoteWrites
<1>13. CASE FindShelved(r)
  BY <1>1, <1>2, <1>3, <1>13 DEF FindShelved, WellFormed, Steps
<1>14. CASE FindComment(r)
  <2>1. req[r].pc = "findComment" /\ req[r].comment \in Comment
    BY <1>1, <1>14 DEF FindComment, WellFormed
  <2>2. Goto(r, "removeComment") \/ Finish(r)
    BY <1>14 DEF FindComment
  <2>. QED
    BY <1>2, <1>3, <2>1, <2>2 DEF Steps
<1>. QED
  BY <1>4, <1>5, <1>6, <1>7, <1>8, <1>9, <1>10, <1>11, <1>12, <1>13, <1>14
  DEF Handle, Continue, SpaceStep, CreateStep, NoteStep, ReaderStep

LEMMA RequestInvStep ==
  ASSUME TypeOK, RequestInv, TraceInv, NEW r \in Request, Handle(r)
  PROVE  RequestInv'
BY RequestStep DEF RequestInv

-----------------------------------------------------------------------------
LEMMA WriteNoteType ==
  ASSUME TypeOK, NEW n \in Note, NEW row \in NoteRow, NEW next, WriteNote(n, row, next)
  PROVE  note' \in [Note -> NoteRow] /\ torn' \in SUBSET Note
BY DEF WriteNote, TypeOK

\* Every variable keeps its type.
LEMMA TypeStep ==
  ASSUME TypeOK, RequestInv, TraceInv, NEW r \in Request, Handle(r)
  PROVE  TypeOK'
<1>1. req' \in [Request -> RequestState] /\ WellFormed(req[r]) /\ req[r] \in RequestState
  BY RequestStep DEF TypeOK, RequestInv
<1>2. NoNote("gone") \in NoteRow /\ OffShelf \in ShelfRow /\ NoComment("gone") \in CommentRow
  BY DEF NoNote, NoteRow, OffShelf, ShelfRow, NoComment, CommentRow
<1>3. CASE Begin(r) \/ FindSpace(r) \/ CountNotes(r) \/ CheckAssignee(r) \/ FindOwned(r)
             \/ FindShelved(r) \/ FindComment(r)
  BY <1>1, <1>3 DEF Begin, FindSpace, CountNotes, CheckAssignee, FindOwned, FindShelved, FindComment,
     TypeOK, notePlane, sharedPlane, history
<1>4. CASE Fail(r)
  BY <1>1, <1>4 DEF Fail, TypeOK, notePlane, sharedPlane
<1>5. CASE InsertSpace(r)
  BY <1>1, <1>5 DEF InsertSpace, TypeOK, sharedPlane, history
<1>6. CASE AuditSpace(r)
  BY <1>1, <1>6 DEF AuditSpace, TypeOK, notePlane, sharedPlane, history, WellFormed
<1>7. CASE RemoveSpace(r)
  BY <1>1, <1>2, <1>7 DEF RemoveSpace, TypeOK, sharedPlane, history, WellFormed
<1>8. CASE InsertNote(r)
  <2>1. [status |-> req[r].status, stamped |-> FALSE, body |-> req[r].body, space |-> req[r].space,
         author |-> req[r].user, assignee |-> req[r].assignee] \in NoteRow
    BY <1>1 DEF RequestState, NoteRow
  <2>2. note' \in [Note -> NoteRow]
    BY <1>8, <2>1 DEF InsertNote, TypeOK
  <2>3. overran' \in BOOLEAN
    BY <1>8 DEF InsertNote, TypeOK
  <2>. QED
    BY <1>1, <1>8, <2>2, <2>3 DEF InsertNote, TypeOK, sharedPlane
<1>9. CASE Patch(r) \/ SetStatus(r) \/ RemoveNote(r)
  <2>1. CASE UNCHANGED <<note, torn, role, spaces, sharedPlane, audit, overran>>
    BY <1>1, <2>1 DEF TypeOK, sharedPlane
  <2>2. CASE \E n \in Note, row \in NoteRow, next \in Steps : NoteWrite(r, n, row, next)
    BY <1>1, <2>2, WriteNoteType DEF NoteWrite, TypeOK, sharedPlane
  <2>. QED
    BY <1>9, <2>1, <2>2, PatchWrites, SetStatusWrites, RemoveNoteWrites
<1>10. CASE Shelve(r)
  <2>1. [on |-> TRUE, body |-> req[r].body, space |-> req[r].space] \in ShelfRow
    BY <1>1 DEF RequestState, ShelfRow
  <2>. QED
    BY <1>1, <1>10, <2>1 DEF Shelve, TypeOK, notePlane, history
<1>11. CASE Unshelve(r)
  BY <1>1, <1>2, <1>11 DEF Unshelve, TypeOK, notePlane, history
<1>12. CASE Engage(r)
  <2>1. req[r].note \in Note /\ req[r].user \in User
    BY <1>1, <1>12 DEF Engage, WellFormed
  <2>2. [status |-> "live", note |-> req[r].note, user |-> req[r].user] \in CommentRow
    BY <2>1 DEF CommentRow
  <2>3. likes' \in SUBSET (Note \X User) /\ comments' \in [Comment -> CommentRow]
    BY <1>12, <2>1, <2>2 DEF Engage, TypeOK
  <2>. QED
    BY <1>1, <1>12, <2>3 DEF Engage, TypeOK, notePlane, history
<1>13. CASE Unlike(r)
  BY <1>1, <1>13 DEF Unlike, TypeOK, notePlane, history
<1>14. CASE RemoveComment(r)
  BY <1>1, <1>2, <1>14 DEF RemoveComment, TypeOK, notePlane, history
<1>. QED
  BY <1>3, <1>4, <1>5, <1>6, <1>7, <1>8, <1>9, <1>10, <1>11, <1>12, <1>13, <1>14
  DEF Handle, Continue, SpaceStep, CreateStep, NoteStep, ShelfStep, ReaderStep

-----------------------------------------------------------------------------
\* What the steps of a request do to the notes and the shelf: nothing, or lose
\* a shelf write, or one of six writes.
Quiet(r) == UNCHANGED <<role, spaces, note, shelf, torn>> /\ ~Pending(r) /\ ~Pending(r)'

Writes(r) ==
  \/ Quiet(r) \/ Fail(r) \/ InsertSpace(r) \/ RemoveSpace(r) \/ InsertNote(r)
  \/ Shelve(r) \/ Unshelve(r)
  \/ \E n \in Note, row \in NoteRow, next \in Steps : NoteWrite(r, n, row, next)

LEMMA StepWrites ==
  ASSUME TypeOK, RequestInv, TraceInv, NEW r \in Request, Handle(r)
  PROVE  Writes(r)
<1>1. req \in [Request -> RequestState] /\ Idle.pc = "idle"
  BY DEF TypeOK, Idle
<1>2. Finish(r) => ~Pending(r)'
  BY <1>1, FinishEffect DEF Pending
<1>3. ASSUME NEW step \in Steps \ {"shelve", "unshelve"}, Goto(r, step)
      PROVE  ~Pending(r)'
  BY <1>1, <1>3, GotoEffect DEF Pending
<1>4. CASE Begin(r)
  BY <1>1, <1>4, BeginEffect DEF Begin, Writes, Quiet, Pending, notePlane, sharedPlane, history
<1>5. CASE AuditSpace(r) \/ Engage(r) \/ Unlike(r) \/ RemoveComment(r)
  BY <1>2, <1>5 DEF AuditSpace, Engage, Unlike, RemoveComment, Writes, Quiet, Pending, notePlane,
     sharedPlane, history
<1>6. CASE FindSpace(r) \/ CountNotes(r) \/ CheckAssignee(r) \/ FindOwned(r) \/ FindShelved(r)
             \/ FindComment(r)
  <2>1. Finish(r) \/ \E step \in Steps \ {"shelve", "unshelve"} : Goto(r, step)
    BY <1>6 DEF FindSpace, CountNotes, CheckAssignee, FindOwned, FindShelved, FindComment, Steps
  <2>2. UNCHANGED <<role, spaces, note, shelf, torn>> /\ ~Pending(r)
    BY <1>6 DEF FindSpace, CountNotes, CheckAssignee, FindOwned, FindShelved, FindComment,
       Pending, notePlane, sharedPlane, history
  <2>. QED
    BY <1>2, <1>3, <2>1, <2>2 DEF Writes, Quiet
<1>7. CASE Patch(r) \/ SetStatus(r) \/ RemoveNote(r)
  <2>1. CASE Finish(r) /\ UNCHANGED <<note, torn, role, spaces, sharedPlane, audit, overran>>
    <3>1. ~Pending(r)
      BY <1>7 DEF Patch, SetStatus, RemoveNote, Pending
    <3>. QED
      BY <1>2, <2>1, <3>1 DEF Writes, Quiet, sharedPlane
  <2>. QED
    BY <1>7, <2>1, PatchWrites, SetStatusWrites, RemoveNoteWrites DEF Writes
<1>. QED
  BY <1>4, <1>5, <1>6, <1>7
  DEF Handle, Continue, SpaceStep, CreateStep, NoteStep, ShelfStep, ReaderStep, Writes

\* Where nobody is pending on a note, or r is not, the others' steps show.
LEMMA SyncOthers ==
  ASSUME NEW r \in Request, NEW q \in Request \ {r}, NEW n, req'[q] = req[q]
  PROVE  Syncing(q, n)' <=> Syncing(q, n)
BY DEF Syncing

LEMMA TraceStep ==
  ASSUME TypeOK, RequestInv, TraceInv, NEW r \in Request, Handle(r)
  PROVE  TraceInv'
<1>1. /\ req \in [Request -> RequestState] /\ WellFormed(req[r])
      /\ \A q \in Request \ {r} : req'[q] = req[q]
  BY RequestStep DEF TypeOK, RequestInv
<1>2. \A q \in Request \ {r}, n \in Note : Syncing(q, n)' <=> Syncing(q, n)
  BY <1>1, SyncOthers
<1>3. Finish(r) => ~Pending(r)'
  BY <1>1, FinishEffect DEF Pending
<1>4. ASSUME ~Pending(r)'
      PROVE  \A n \in Note : AtRest(n) => AtRest(n)'
  BY <1>2, <1>4 DEF AtRest, Syncing, Pending
<1>5. CASE Quiet(r) \/ Fail(r) \/ InsertSpace(r)
  <2>1. UNCHANGED <<note, shelf>>
    BY <1>5 DEF Quiet, Fail, InsertSpace, notePlane, sharedPlane
  <2>2. ~Pending(r)'
    <3>1. CASE InsertSpace(r)
      <4>1. PICK s \in Space : req' = [req EXCEPT ![r].pc = "auditSpace", ![r].space = s]
        BY <3>1 DEF InsertSpace
      <4>2. req'[r].pc = "auditSpace"
        BY <1>1, <4>1 DEF RequestState
      <4>. QED
        BY <4>2 DEF Pending
    <3>. QED
      BY <1>3, <1>5, <3>1 DEF Quiet, Fail
  <2>. QED
    BY <1>4, <2>1, <2>2 DEF TraceInv, Exists
<1>6. CASE RemoveSpace(r)
  <2>1. ~Pending(r)' /\ shelf' = shelf
    BY <1>1, <1>6, GotoEffect DEF RemoveSpace, Pending, sharedPlane, Steps
  <2>2. ASSUME NEW n \in Note
        PROVE  \/ note'[n] = note[n]
               \/ note[n].status # "unborn" /\ note'[n].status = "gone" /\ ~note'[n].stamped
    BY <1>6 DEF RemoveSpace, NoNote, Exists
  <2>. QED
    BY <1>4, <2>1, <2>2 DEF TraceInv, Exists
<1>7. CASE InsertNote(r)
  <2>1. ~Pending(r)' /\ shelf' = shelf
    BY <1>3, <1>7 DEF InsertNote, sharedPlane
  <2>2. req[r].space \in Space /\ req[r].status \in {"draft", "published"}
    BY <1>1, <1>7 DEF InsertNote, WellFormed, RequestState
  <2>3. ASSUME NEW n \in Note
        PROVE  \/ note'[n] = note[n]
               \/ note'[n].status # "unborn" /\ ~note'[n].stamped /\ note'[n].space \in Space
    BY <1>7, <2>2 DEF InsertNote, TypeOK
  <2>. QED
    BY <1>4, <2>1, <2>3 DEF TraceInv, Exists
<1>8. CASE \E n \in Note, row \in NoteRow, next \in Steps : NoteWrite(r, n, row, next)
  <2>1. PICK m \in Note, row \in NoteRow, next \in Steps : NoteWrite(r, m, row, next)
    BY <1>8
  <2>2. /\ row.status # "unborn" /\ (row.stamped => row.status = "published")
        /\ row.status \in {"draft", "published"} => row.space \in Space
    BY <2>1 DEF NoteWrite, RowFollows, TraceInv, Exists, Steps
  <2>3. \A n \in Note : note'[n] = IF n = m THEN row ELSE note[n]
    BY <2>1 DEF NoteWrite, WriteNote, TypeOK
  <2>4. ASSUME NEW n \in Note, n # m, AtRest(n)
        PROVE  AtRest(n)'
    BY <1>2, <2>1, <2>4 DEF NoteWrite, AtRest, Syncing
  <2>5. shelf' = shelf
    BY <2>1 DEF NoteWrite, sharedPlane
  <2>. QED
    BY <2>2, <2>3, <2>4, <2>5 DEF TraceInv, Exists
<1>9. CASE Shelve(r) \/ Unshelve(r)
  <2>1. ~Pending(r)' /\ note' = note
    BY <1>3, <1>9 DEF Shelve, Unshelve, notePlane
  <2>2. req[r].note \in Note /\ Syncing(r, req[r].note)
    BY <1>1, <1>9 DEF Shelve, Unshelve, WellFormed, Syncing
  <2>3. note[req[r].note].status # "unborn"
    BY <2>2 DEF TraceInv, AtRest
  <2>4. \A n \in Note \ {req[r].note} : shelf'[n] = shelf[n]
    BY <1>9 DEF Shelve, Unshelve, TypeOK
  <2>. QED
    BY <1>4, <2>1, <2>3, <2>4 DEF TraceInv, Exists
<1>. QED
  BY <1>5, <1>6, <1>7, <1>8, <1>9, StepWrites DEF Writes

-----------------------------------------------------------------------------
\* A note keeps referring to a space and a member that exist.
LEMMA RowsStep ==
  ASSUME TypeOK, RequestInv, TraceInv, RowsReferenced, NEW r \in Request, Handle(r)
  PROVE  RowsReferenced'
<1>1. CASE Quiet(r) \/ Fail(r) \/ Shelve(r) \/ Unshelve(r)
  <2>1. UNCHANGED <<role, spaces, note>>
    BY <1>1 DEF Quiet, Fail, Shelve, Unshelve, notePlane
  <2>. QED
    BY <2>1 DEF RowsReferenced, Existing, Exists, IsMember
<1>2. CASE InsertSpace(r)
  <2>1. \A s \in Space : spaces[s] = "live" => spaces'[s] = "live"
    BY <1>2 DEF InsertSpace, TypeOK, IssuedSpace
  <2>2. UNCHANGED <<role, note>>
    BY <1>2 DEF InsertSpace
  <2>. QED
    BY <2>1, <2>2 DEF RowsReferenced, TraceInv, Existing, Exists, IsMember
<1>3. CASE RemoveSpace(r)
  <2>1. ASSUME NEW n \in Note, Exists(n)'
        PROVE  note'[n] = note[n] /\ Exists(n) /\ note[n].space # req[r].space
    BY <1>3, <2>1 DEF RemoveSpace, NoNote, Exists
  <2>2. \A s \in Space : s # req[r].space => spaces'[s] = spaces[s]
    BY <1>3 DEF RemoveSpace, TypeOK
  <2>3. role' = role
    BY <1>3 DEF RemoveSpace
  <2>. QED
    BY <2>1, <2>2, <2>3 DEF RowsReferenced, TraceInv, Existing, IsMember
<1>4. CASE InsertNote(r)
  <2>1. UNCHANGED <<role, spaces>>
    BY <1>4 DEF InsertNote
  <2>2. ASSUME NEW n \in Note
        PROVE  \/ note'[n] = note[n]
               \/ /\ spaces[note'[n].space] = "live"
                  /\ note'[n].assignee # None => IsMember(note'[n].assignee)
    BY <1>4 DEF InsertNote, TypeOK, Assigned
  <2>. QED
    BY <2>1, <2>2 DEF RowsReferenced, Existing, Exists, IsMember
<1>5. CASE \E n \in Note, row \in NoteRow, next \in Steps : NoteWrite(r, n, row, next)
  <2>1. PICK m \in Note, row \in NoteRow, next \in Steps : NoteWrite(r, m, row, next)
    BY <1>5
  <2>2. Exists(m) /\ (row.status # "gone" => row.space = note[m].space
                                              /\ row.assignee = note[m].assignee)
    BY <2>1 DEF NoteWrite, RowFollows
  <2>3. \A n \in Note : note'[n] = IF n = m THEN row ELSE note[n]
    BY <2>1 DEF NoteWrite, WriteNote, TypeOK
  <2>4. UNCHANGED <<role, spaces>>
    BY <2>1 DEF NoteWrite
  <2>. QED
    BY <2>2, <2>3, <2>4 DEF RowsReferenced, Existing, Exists, IsMember
<1>. QED
  BY <1>1, <1>2, <1>3, <1>4, <1>5, StepWrites DEF Writes

-----------------------------------------------------------------------------
\* Space deletions are final, so a note that nothing touched stays synced.
LEMMA SyncedFrame ==
  ASSUME NEW r \in Request, \A q \in Request \ {r} : req'[q] = req[q],
         \A s \in Space : spaces[s] = "gone" => spaces'[s] = "gone",
         NEW n \in Note, Synced(n), note'[n] = note[n], shelf'[n] = shelf[n],
         ~Syncing(r, n), ~Syncing(r, n)'
  PROVE  Synced(n)'
<1>1. \A q \in Request : Syncing(q, n)' <=> Syncing(q, n)
  BY SyncOthers
<1>2. \A b, sp : Shows(n, b, sp) => Shows(n, b, sp)'
  BY DEF Shows, Exists
<1>3. \A q \in Request : Syncing(q, n) => req'[q] = req[q]
  OBVIOUS
<1>4. AtRest(n)' <=> AtRest(n)
  BY <1>1 DEF AtRest
<1>. QED
  BY <1>1, <1>2, <1>3, <1>4 DEF Synced

LEMMA ShelfInvStep ==
  ASSUME TypeOK, RequestInv, TraceInv, RowsReferenced, ShelfInv, NEW r \in Request, Handle(r)
  PROVE  ShelfInv'
<1>1. /\ req \in [Request -> RequestState] /\ WellFormed(req[r])
      /\ \A q \in Request \ {r} : req'[q] = req[q]
  BY RequestStep DEF TypeOK, RequestInv
<1>2. \A q \in Request \ {r}, n \in Note : Syncing(q, n)' <=> Syncing(q, n)
  BY <1>1, SyncOthers
<1>3. Finish(r) => ~Pending(r)'
  BY <1>1, FinishEffect DEF Pending
<1>4. ~Pending(r) => \A n : ~Syncing(r, n)
  BY DEF Pending, Syncing
<1>5. ~Pending(r)' => \A n : ~Syncing(r, n)'
  BY DEF Pending, Syncing
<1>6. CASE Quiet(r)
  <2>1. /\ \A s \in Space : spaces[s] = "gone" => spaces'[s] = "gone"
        /\ \A n \in Note : note'[n] = note[n] /\ shelf'[n] = shelf[n]
        /\ ~Pending(r) /\ ~Pending(r)' /\ torn' = torn
    BY <1>6 DEF Quiet
  <2>. QED
    BY <1>1, <1>4, <1>5, <2>1, SyncedFrame DEF ShelfInv
<1>7. CASE Fail(r)
  <2>1. /\ \A s \in Space : spaces[s] = "gone" => spaces'[s] = "gone"
        /\ \A n \in Note : note'[n] = note[n] /\ shelf'[n] = shelf[n]
        /\ torn' = torn \cup {n \in Note : Syncing(r, n)} /\ ~Pending(r)'
    BY <1>3, <1>7 DEF Fail, notePlane, sharedPlane
  <2>. QED
    BY <1>1, <1>5, <2>1, SyncedFrame DEF ShelfInv
<1>8. CASE InsertSpace(r)
  <2>1. PICK s \in Space \ IssuedSpace :
               /\ spaces' = [spaces EXCEPT ![s] = "live"]
               /\ req' = [req EXCEPT ![r].pc = "auditSpace", ![r].space = s]
    BY <1>8 DEF InsertSpace
  <2>2. req'[r].pc = "auditSpace" /\ req[r].pc = "insertSpace"
    BY <1>1, <1>8, <2>1 DEF RequestState, InsertSpace
  <2>3. \A t \in Space : spaces[t] = "gone" => spaces'[t] = "gone"
    BY <2>1 DEF IssuedSpace, TypeOK
  <2>4. UNCHANGED <<note, shelf, torn>> /\ ~Pending(r) /\ ~Pending(r)'
    BY <1>8, <2>2 DEF InsertSpace, sharedPlane, history, Pending
  <2>. QED
    BY <1>1, <1>4, <1>5, <2>3, <2>4, SyncedFrame DEF ShelfInv
<1>9. CASE RemoveSpace(r)
  <2>1. /\ spaces' = [spaces EXCEPT ![req[r].space] = "gone"] /\ req[r].space \in Space
        /\ shelf' = shelf /\ torn' = torn /\ ~Pending(r) /\ ~Pending(r)'
    BY <1>1, <1>9, GotoEffect DEF RemoveSpace, WellFormed, Pending, sharedPlane, history, Steps
  <2>2. /\ \A s \in Space : spaces[s] = "gone" => spaces'[s] = "gone"
        /\ spaces'[req[r].space] = "gone"
    BY <2>1 DEF TypeOK
  <2>3. ASSUME NEW n \in Note \ torn
        PROVE  Synced(n)'
    <3>1. Synced(n)
      BY DEF ShelfInv
    <3>2. CASE note'[n] = note[n]
      BY <1>1, <1>4, <1>5, <2>1, <2>2, <3>1, <3>2, SyncedFrame
    <3>3. CASE note'[n] # note[n]
      <4>1. /\ Exists(n) /\ note[n].space = req[r].space
            /\ note'[n].status = "gone" /\ ~note'[n].stamped
        BY <1>9, <3>3 DEF RemoveSpace, NoNote
      <4>2. \A b, sp : Shows(n, b, sp) => Shows(n, b, sp)'
        BY <2>1, <2>2, <4>1 DEF Shows, Exists
      <4>3. \A q \in Request : (Syncing(q, n)' <=> Syncing(q, n))
                               /\ (Syncing(q, n) => req'[q] = req[q])
        BY <1>1, <1>2, <1>4, <1>5, <2>1
      <4>4. AtRest(n)' <=> AtRest(n)
        BY <4>3 DEF AtRest
      <4>. QED
        BY <2>1, <3>1, <4>1, <4>2, <4>3, <4>4 DEF Synced
    <3>. QED
      BY <3>2, <3>3
  <2>. QED
    BY <2>1, <2>3 DEF ShelfInv
<1>10. CASE InsertNote(r)
  <2>1. UNCHANGED <<spaces, shelf, torn>> /\ ~Pending(r) /\ ~Pending(r)'
    BY <1>3, <1>10 DEF InsertNote, sharedPlane, Pending
  <2>2. ASSUME NEW n \in Note \ torn
        PROVE  Synced(n)'
    <3>1. CASE note'[n] = note[n]
      BY <1>1, <1>4, <1>5, <2>1, <3>1, SyncedFrame DEF ShelfInv
    <3>2. CASE note'[n] # note[n]
      <4>1. note[n].status = "unborn" /\ ~note'[n].stamped
        BY <1>10, <3>2 DEF InsertNote, TypeOK, IssuedNote
      <4>2. ~shelf'[n].on /\ AtRest(n)
        BY <2>1, <4>1 DEF TraceInv
      <4>3. \A q \in Request : ~Syncing(q, n)'
        BY <1>2, <1>5, <2>1, <4>2 DEF AtRest
      <4>. QED
        BY <4>1, <4>2, <4>3 DEF Synced
    <3>. QED
      BY <3>1, <3>2
  <2>. QED
    BY <2>1, <2>2 DEF ShelfInv
<1>11. CASE Shelve(r)
  <2>0. PICK m \in Note : m = req[r].note
    BY <1>1, <1>11 DEF Shelve, WellFormed
  <2>1. /\ UNCHANGED <<spaces, note, torn>> /\ ~Pending(r)' /\ m \in Note
        /\ Syncing(r, m) /\ req[r].pc = "shelve"
    BY <1>1, <1>3, <1>11, <2>0 DEF Shelve, notePlane, history, WellFormed, Syncing
  <2>2. /\ \A n \in Note \ {m} : shelf'[n] = shelf[n] /\ ~Syncing(r, n)
        /\ shelf'[m] = [on |-> TRUE, body |-> req[r].body, space |-> req[r].space]
    BY <1>11, <2>0 DEF Shelve, TypeOK, Syncing
  <2>3. ASSUME m \notin torn
        PROVE  Synced(m)'
    <3>1. Shows(m, req[r].body, req[r].space) /\ \A p \in Request \ {r} : ~Syncing(p, m)
      BY <2>1, <2>3 DEF ShelfInv, Synced
    <3>3. Shows(m, shelf'[m].body, shelf'[m].space)
      BY <2>2, <3>1
    <3>4. Shows(m, shelf[m].body, shelf[m].space)'
      BY <2>1, <3>3 DEF Shows, Exists
    <3>5. \A q \in Request : ~Syncing(q, m)'
      BY <1>2, <1>5, <2>1, <3>1
    <3>. QED
      BY <2>2, <3>4, <3>5 DEF Synced
  <2>4. \A n \in Note \ torn : n # m => Synced(n)'
    BY <1>1, <1>5, <2>1, <2>2, SyncedFrame DEF ShelfInv
  <2>. QED
    BY <2>1, <2>3, <2>4 DEF ShelfInv
<1>12. CASE Unshelve(r)
  <2>0. PICK m \in Note : m = req[r].note
    BY <1>1, <1>12 DEF Unshelve, WellFormed
  <2>1. /\ UNCHANGED <<spaces, note, torn>> /\ ~Pending(r)' /\ m \in Note
        /\ Syncing(r, m) /\ req[r].pc = "unshelve"
    BY <1>1, <1>3, <1>12, <2>0 DEF Unshelve, notePlane, history, WellFormed, Syncing
  <2>2. /\ \A n \in Note \ {m} : shelf'[n] = shelf[n] /\ ~Syncing(r, n)
        /\ ~shelf'[m].on
    BY <1>12, <2>0 DEF Unshelve, TypeOK, Syncing, OffShelf
  <2>3. ASSUME m \notin torn
        PROVE  Synced(m)'
    <3>1. note'[m].status \in {"draft", "gone"}
      BY <2>1, <2>3 DEF ShelfInv, Synced
    <3>2. ~note'[m].stamped
      BY <2>1, <3>1 DEF TraceInv
    <3>3. \A q \in Request : Syncing(q, m)' => Syncing(q, m) /\ req'[q] = req[q] /\ q # r
      BY <1>1, <1>2, <1>5, <2>1
    <3>4. \A q \in Request : Syncing(q, m) /\ q # r => req[q].pc # "shelve"
      BY <2>1, <2>3 DEF ShelfInv, Synced
    <3>. QED
      BY <2>2, <3>1, <3>2, <3>3, <3>4 DEF Synced
  <2>4. \A n \in Note \ torn : n # m => Synced(n)'
    BY <1>1, <1>5, <2>1, <2>2, SyncedFrame DEF ShelfInv
  <2>. QED
    BY <2>1, <2>3, <2>4 DEF ShelfInv
<1>13. CASE \E n \in Note, row \in NoteRow, next \in Steps : NoteWrite(r, n, row, next)
  <2>1. PICK m \in Note, row \in NoteRow, next \in Steps : NoteWrite(r, m, row, next)
    BY <1>13
  <2>2. /\ UNCHANGED <<spaces, shelf>> /\ ~Pending(r) /\ Exists(m)
        /\ RowFollows(m, row, next) /\ WriteNote(m, row, next)
        /\ req'[r].pc = next /\ (next # "idle" => req'[r].note = m)
        /\ next = "shelve" => req'[r].body = row.body /\ req'[r].space = row.space
    BY <2>1 DEF NoteWrite, sharedPlane
  <2>3. \A n \in Note : note'[n] = IF n = m THEN row ELSE note[n]
    BY <2>2 DEF WriteNote, TypeOK
  <2>4. \A n \in Note : n # m => (n \in torn' <=> n \in torn)
    BY <2>2 DEF WriteNote
  <2>5. \A n \in Note \ torn' : n # m => Synced(n)'
    <3>1. \A n \in Note : n # m => ~Syncing(r, n)'
      BY <2>2 DEF Syncing
    <3>. QED
      BY <1>1, <1>4, <2>2, <2>3, <2>4, <3>1, SyncedFrame DEF ShelfInv
  <2>6. ASSUME m \notin torn'
        PROVE  Synced(m)'
    <3>1. ~Overtakes(m, next) /\ ((AtRest(m) /\ next # "idle") \/ m \notin torn)
      BY <2>2, <2>6 DEF WriteNote, RowFollows
    <3>2. \A q \in Request : Syncing(q, m) => req[q].pc = "unshelve" /\ next # "shelve" /\ q # r
      BY <1>4, <2>2, <3>1 DEF Overtakes, Syncing
    <3>3. \A q \in Request \ {r} : Syncing(q, m)' => Syncing(q, m) /\ req'[q] = req[q]
      BY <1>1, <1>2
    <3>4. CASE next = "shelve"
      <4>1. row.status = "published" /\ row.space = note[m].space /\ note[m].space \in Space
        BY <2>2, <3>4 DEF RowFollows, TraceInv
      <4>2. Shows(m, req[r].body, req[r].space)'
        BY <2>2, <2>3, <3>4, <4>1 DEF Shows, Exists
      <4>3. Syncing(r, m)' /\ \A p \in Request \ {r} : ~Syncing(p, m)'
        BY <2>2, <3>2, <3>3, <3>4 DEF Syncing
      <4>. QED
        BY <2>2, <3>4, <4>2, <4>3 DEF Synced, AtRest
    <3>5. CASE next = "unshelve"
      <4>1. note'[m].status \in {"draft", "gone"}
        BY <2>2, <2>3, <3>5 DEF RowFollows
      <4>2. Syncing(r, m)' /\ req'[r].pc = "unshelve"
        BY <2>2, <3>5 DEF Syncing
      <4>. QED
        BY <3>2, <3>3, <4>1, <4>2 DEF Synced, AtRest
    <3>6. CASE next = "idle"
      <4>1. Synced(m) /\ note[m].status = "draft" /\ note'[m].status = "draft" /\ ~note'[m].stamped
        BY <2>2, <2>3, <3>1, <3>6 DEF ShelfInv, RowFollows
      <4>2. ~Syncing(r, m)'
        BY <2>2, <3>6 DEF Syncing
      <4>3. AtRest(m)' => AtRest(m)
        BY <1>2, <3>2 DEF AtRest
      <4>4. AtRest(m) => ~shelf[m].on
        BY <2>2, <4>1 DEF Synced, Shows
      <4>. QED
        BY <2>2, <3>2, <3>3, <4>1, <4>2, <4>3, <4>4 DEF Synced
    <3>. QED
      BY <2>2, <3>4, <3>5, <3>6 DEF RowFollows
  <2>7. torn' \subseteq Note
    BY <2>1, WriteNoteType DEF NoteWrite
  <2>. QED
    BY <2>5, <2>6 DEF ShelfInv
<1>. QED
  BY <1>6, <1>7, <1>8, <1>9, <1>10, <1>11, <1>12, <1>13, StepWrites DEF Writes

-----------------------------------------------------------------------------
\* A like or a comment is inserted only while its note is on the shelf, and goes
\* with it.
LEMMA EngagementStep ==
  ASSUME TypeOK, RequestInv, EngagementInv, NEW r \in Request, Handle(r)
  PROVE  EngagementInv'
<1>1. req \in [Request -> RequestState] /\ WellFormed(req[r])
  BY DEF TypeOK, RequestInv
<1>2. CASE UNCHANGED sharedPlane
  BY <1>2 DEF EngagementInv, EngagementOnShelf, sharedPlane
<1>3. CASE Shelve(r)
  <2>1. UNCHANGED <<likes, comments>>
    BY <1>3 DEF Shelve
  <2>2. \A n \in Note : shelf[n].on => shelf'[n].on
    BY <1>3 DEF Shelve, TypeOK
  <2>. QED
    BY <2>1, <2>2 DEF EngagementInv, EngagementOnShelf, TypeOK
<1>4. CASE Unshelve(r)
  <2>1. /\ likes' = {l \in likes : l[1] # req[r].note}
        /\ \A n \in Note : n # req[r].note => shelf'[n] = shelf[n]
    BY <1>4 DEF Unshelve, TypeOK
  <2>2. ASSUME NEW c \in Comment, comments'[c].status = "live"
        PROVE  comments'[c] = comments[c] /\ comments[c].note # req[r].note
    BY <1>4, <2>2 DEF Unshelve, NoComment
  <2>. QED
    BY <2>1, <2>2 DEF EngagementInv, EngagementOnShelf, TypeOK
<1>5. CASE Engage(r)
  <2>1. shelf' = shelf /\ req[r].note \in Note
    BY <1>1, <1>5 DEF Engage, WellFormed
  <2>2. ASSUME NEW l \in likes'
        PROVE  l \in likes \/ (l[1] = req[r].note /\ shelf[req[r].note].on)
    BY <1>5, <2>2 DEF Engage
  <2>3. ASSUME NEW c \in Comment
        PROVE  comments'[c] = comments[c]
               \/ (comments'[c].note = req[r].note /\ shelf[req[r].note].on)
    BY <1>5 DEF Engage, TypeOK
  <2>. QED
    BY <2>1, <2>2, <2>3 DEF EngagementInv, EngagementOnShelf
<1>6. CASE Unlike(r)
  BY <1>6 DEF Unlike, EngagementInv, EngagementOnShelf
<1>7. CASE RemoveComment(r)
  <2>1. UNCHANGED <<shelf, likes>>
    BY <1>7 DEF RemoveComment
  <2>2. ASSUME NEW c \in Comment, comments'[c].status = "live"
        PROVE  comments'[c] = comments[c]
    BY <1>7, <2>2 DEF RemoveComment, NoComment, TypeOK
  <2>. QED
    BY <2>1, <2>2 DEF EngagementInv, EngagementOnShelf
<1>. QED
  <2>1. Begin(r) \/ Fail(r) \/ SpaceStep(r) \/ CreateStep(r) \/ FindOwned(r) \/ Patch(r)
        \/ SetStatus(r) \/ RemoveNote(r) \/ FindShelved(r) \/ FindComment(r) => UNCHANGED sharedPlane
    BY DEF Begin, Fail, SpaceStep, InsertSpace, AuditSpace, FindSpace, RemoveSpace, CreateStep,
       CountNotes, CheckAssignee, InsertNote, FindOwned, Patch, SetStatus, RemoveNote,
       FindShelved, FindComment
  <2>. QED
    BY <1>2, <1>3, <1>4, <1>5, <1>6, <1>7, <2>1
    DEF Handle, Continue, NoteStep, ShelfStep, ReaderStep

-----------------------------------------------------------------------------
LEMMA ExistingFinite ==
  ASSUME NEW S \in SUBSET Note
  PROVE  IsFiniteSet(S) /\ Cardinality(S) \in Nat
BY Finite, FS_Subset, FS_CardinalityType

\* Only an insertion adds a note.
LEMMA ExistingStep ==
  ASSUME TypeOK, RequestInv, TraceInv, NEW r \in Request, Handle(r), ~InsertNote(r)
  PROVE  Existing' \subseteq Existing
<1>1. CASE Quiet(r) \/ Fail(r) \/ InsertSpace(r) \/ Shelve(r) \/ Unshelve(r)
  <2>1. note' = note
    BY <1>1 DEF Quiet, Fail, InsertSpace, Shelve, Unshelve, notePlane
  <2>. QED
    BY <2>1 DEF Existing, Exists
<1>2. CASE RemoveSpace(r)
  BY <1>2 DEF RemoveSpace, NoNote, Existing, Exists
<1>3. CASE \E n \in Note, row \in NoteRow, next \in Steps : NoteWrite(r, n, row, next)
  BY <1>3 DEF NoteWrite, WriteNote, Existing, Exists, TypeOK
<1>. QED
  BY <1>1, <1>2, <1>3, StepWrites DEF Writes

\* A request is past the limit check only by having found room, or having been
\* there before.
LEMMA CountedStep ==
  ASSUME TypeOK, RequestInv, TraceInv, NEW r \in Request, Handle(r), ~InsertNote(r),
         NEW q \in Request, Counted(q)'
  PROVE  Counted(q) \/ Cardinality(Existing) < MaxNotes
<1>1. /\ req \in [Request -> RequestState]
      /\ \A p \in Request \ {r} : req'[p] = req[p]
  BY RequestStep DEF TypeOK
<1>2. CASE q # r
  BY <1>1, <1>2 DEF Counted
<1>3. CASE q = r
  <2>1. req'[r].pc \in {"checkAssignee", "insertNote"}
    BY <1>3 DEF Counted
  <2>2. ~Finish(r)
    BY <1>1, <2>1, FinishEffect
  <2>3. ~Begin(r)
    BY <1>1, <2>1, BeginEffect
  <2>4. ASSUME NEW step \in Steps, Goto(r, step)
        PROVE  step \in {"checkAssignee", "insertNote"} /\ req'[r].op = req[r].op
    BY <1>1, <2>1, <2>4, GotoEffect
  <2>5. CASE CountNotes(r)
    <3>1. ~(Cardinality(Existing) >= MaxNotes)
      BY <2>2, <2>5 DEF CountNotes
    <3>2. Cardinality(Existing) \in Nat
      BY ExistingFinite DEF Existing
    <3>. QED
      BY <3>1, <3>2, MaxNotesNat
  <2>6. CASE CheckAssignee(r)
    <3>1. Goto(r, "insertNote") /\ req[r].pc = "checkAssignee"
      BY <2>2, <2>6 DEF CheckAssignee
    <3>. QED
      BY <1>3, <2>4, <3>1 DEF Counted, Steps
  <2>7. CASE InsertSpace(r)
    <3>1. PICK s \in Space : req' = [req EXCEPT ![r].pc = "auditSpace", ![r].space = s]
      BY <2>7 DEF InsertSpace
    <3>2. req'[r].pc = "auditSpace"
      BY <1>1, <3>1 DEF RequestState
    <3>. QED
      BY <2>1, <3>2
  <2>8. CASE FindSpace(r)
    <3>1. \/ Goto(r, "removeSpace") /\ req[r].op = "deleteSpace"
          \/ Goto(r, "countNotes")
      BY <2>2, <2>8 DEF FindSpace
    <3>. QED
      BY <2>4, <3>1 DEF Steps
  <2>9. ~RemoveSpace(r) /\ ~FindOwned(r) /\ ~FindShelved(r) /\ ~FindComment(r)
    BY <2>2, <2>4 DEF RemoveSpace, FindOwned, FindShelved, FindComment, Steps
  <2>10. ~Fail(r) /\ ~AuditSpace(r) /\ ~ShelfStep(r) /\ ~Engage(r) /\ ~Unlike(r) /\ ~RemoveComment(r)
    BY <2>2 DEF Fail, AuditSpace, ShelfStep, Shelve, Unshelve, Engage, Unlike, RemoveComment
  <2>11. ~Patch(r) /\ ~SetStatus(r) /\ ~RemoveNote(r)
    <3>1. \A n \in Note, row \in NoteRow, next \in Steps : ~NoteWrite(r, n, row, next)
      BY <2>1 DEF NoteWrite, RowFollows
    <3>. QED
      BY <2>2, <3>1, PatchWrites, SetStatusWrites, RemoveNoteWrites
  <2>. QED
    BY <2>3, <2>5, <2>6, <2>7, <2>8, <2>9, <2>10, <2>11
    DEF Handle, Continue, SpaceStep, CreateStep, NoteStep, ReaderStep
<1>. QED
  BY <1>2, <1>3

LEMMA CapStep ==
  ASSUME TypeOK, RequestInv, TraceInv, CapInv, NEW r \in Request, Handle(r)
  PROVE  CapInv'
<1>1. Cardinality(Existing) \in Nat /\ Cardinality(Existing') \in Nat
  BY ExistingFinite DEF Existing
<1>2. CASE ~InsertNote(r)
  <2>1. Existing' \subseteq Existing
    BY <1>2, ExistingStep
  <2>2. Cardinality(Existing') <= Cardinality(Existing)
    BY <2>1, ExistingFinite, FS_Subset DEF Existing
  <2>3. overran' = overran
    BY <1>2 DEF Handle, Continue, SpaceStep, CreateStep, NoteStep, ShelfStep, ReaderStep, Begin,
       Fail, InsertSpace, AuditSpace, FindSpace, RemoveSpace, CountNotes, CheckAssignee, FindOwned,
       Patch, SetStatus, RemoveNote, Shelve, Unshelve, FindShelved, Engage, Unlike, FindComment,
       RemoveComment, history
  <2>4. \A q \in Request : Counted(q)' => Counted(q) \/ Cardinality(Existing) < MaxNotes
    BY <1>2, CountedStep
  <2>. QED
    BY <1>1, <2>2, <2>3, <2>4, MaxNotesNat DEF CapInv
<1>3. CASE InsertNote(r)
  <2>1. req \in [Request -> RequestState] /\ \A q \in Request \ {r} : req'[q] = req[q]
    BY RequestStep DEF TypeOK
  <2>2. ~Counted(r)'
    BY <1>3, <2>1, FinishEffect DEF InsertNote, Counted
  <2>3. CASE UNCHANGED <<note, overran>>
    <3>1. Existing' = Existing
      BY <2>3 DEF Existing, Exists
    <3>2. \A q \in Request : Counted(q)' => Counted(q)
      BY <2>1, <2>2 DEF Counted
    <3>. QED
      BY <2>3, <3>1, <3>2 DEF CapInv
  <2>4. CASE ~UNCHANGED <<note, overran>>
    <3>1. PICK n \in Note :
                 /\ \A m \in Note \ {n} : note'[m] = note[m]
                 /\ overran' = (overran \/ \E q \in Request \ {r} : Counted(q))
      BY <1>3, <2>4 DEF InsertNote, TypeOK
    <3>2. Existing' \subseteq Existing \cup {n}
      BY <3>1 DEF Existing, Exists
    <3>3. Cardinality(Existing') <= Cardinality(Existing) + 1
      <4>1. Existing \cup {n} \in SUBSET Note
        BY DEF Existing
      <4>2. IsFiniteSet(Existing) /\ IsFiniteSet(Existing \cup {n})
            /\ Cardinality(Existing \cup {n}) \in Nat
        BY <4>1, ExistingFinite DEF Existing
      <4>3. Cardinality(Existing \cup {n}) <= Cardinality(Existing) + 1
        BY <1>1, <4>2, FS_AddElement
      <4>4. Cardinality(Existing') <= Cardinality(Existing \cup {n})
        BY <3>2, <4>2, FS_Subset
      <4>. QED
        BY <1>1, <4>2, <4>3, <4>4
    <3>4. ASSUME ~overran'
          PROVE  ~overran /\ \A q \in Request : ~Counted(q)'
      BY <2>1, <2>2, <3>1, <3>4 DEF Counted
    <3>5. Counted(r)
      BY <1>3 DEF InsertNote, Counted
    <3>. QED
      BY <1>1, <3>3, <3>4, <3>5, MaxNotesNat DEF CapInv
  <2>. QED
    BY <2>3, <2>4
<1>. QED
  BY <1>2, <1>3

-----------------------------------------------------------------------------
LEMMA InvInit == Init => IInv
<1>. SUFFICES ASSUME Init PROVE IInv
  OBVIOUS
<1>1. TypeOK
  <2>1. NoNote("unborn") \in NoteRow /\ OffShelf \in ShelfRow /\ NoComment("unborn") \in CommentRow
    BY DEF NoNote, NoteRow, OffShelf, ShelfRow, NoComment, CommentRow
  <2>. QED
    BY <2>1, IdleType, HeldRoles DEF Init, TypeOK
<1>2. RequestInv
  BY IdleType DEF Init, RequestInv
<1>3. \A n \in Note : note[n].status = "unborn" /\ ~note[n].stamped /\ ~shelf[n].on /\ AtRest(n)
  BY DEF Init, NoNote, OffShelf, AtRest, Syncing, Idle
<1>4. TraceInv /\ ShelfInv /\ RowsReferenced
  BY <1>3 DEF TraceInv, ShelfInv, Synced, AtRest, RowsReferenced, Existing, Exists
<1>5. EngagementInv
  BY DEF Init, EngagementInv, EngagementOnShelf, NoComment
<1>6. CapInv
  <2>1. Existing = {}
    BY <1>3 DEF Existing, Exists
  <2>2. \A q \in Request : ~Counted(q)
    BY DEF Init, Counted, Idle
  <2>. QED
    BY <2>1, <2>2, FS_EmptySet, MaxNotesNat DEF CapInv
<1>. QED
  BY <1>1, <1>2, <1>4, <1>5, <1>6 DEF IInv

\* What happens to the members of the organization leaves the rest in order.
LEMMA OutsideInv ==
  ASSUME IInv, Outside
  PROVE  IInv'
<1>. USE DEF IInv
<1>1. PICK u \in User : ChangeRole(u) \/ Leave(u)
  BY DEF Outside
<1>2. UNCHANGED <<spaces, shelf, likes, comments, audit, req, torn, overran>>
  BY <1>1 DEF ChangeRole, Leave, sharedPlane, history
<1>3. role' \in [User -> Roles \cup {"none"}]
  BY <1>1, HeldRoles DEF ChangeRole, Leave, TypeOK
<1>4. \A n \in Note : note'[n] = note[n] \/ note'[n] = [note[n] EXCEPT !.assignee = None]
  BY <1>1 DEF ChangeRole, Leave
<1>5. note' \in [Note -> NoteRow]
  <2>1. \A n \in Note : [note[n] EXCEPT !.assignee = None] \in NoteRow
    BY DEF TypeOK, NoteRow
  <2>. QED
    BY <1>1, <2>1 DEF ChangeRole, Leave, TypeOK
<1>6. ASSUME NEW n \in Note
      PROVE  /\ note'[n].status = note[n].status /\ note'[n].stamped = note[n].stamped
             /\ note'[n].body = note[n].body /\ note'[n].space = note[n].space
  <2>1. note[n] \in NoteRow
    BY DEF TypeOK
  <2>2. CASE note'[n] = [note[n] EXCEPT !.assignee = None]
    BY <2>1, <2>2 DEF NoteRow
  <2>. QED
    BY <1>4, <2>2
<1>7. \A n \in Note : (Exists(n)' <=> Exists(n)) /\ (AtRest(n)' <=> AtRest(n))
  BY <1>2, <1>6 DEF Exists, AtRest, Syncing
<1>8. TypeOK'
  BY <1>2, <1>3, <1>5 DEF TypeOK
<1>9. RequestInv' /\ TraceInv' /\ EngagementInv'
  BY <1>2, <1>6, <1>7 DEF RequestInv, TraceInv, EngagementInv, EngagementOnShelf
<1>10. ShelfInv'
  <2>1. \A n \in Note : \A b, sp : Shows(n, b, sp) => Shows(n, b, sp)'
    BY <1>2, <1>6, <1>7 DEF Shows
  <2>2. \A q \in Request, n \in Note : Syncing(q, n)' <=> Syncing(q, n)
    BY <1>2 DEF Syncing
  <2>. QED
    BY <1>2, <1>6, <1>7, <2>1, <2>2 DEF ShelfInv, Synced
<1>11. CapInv'
  <2>1. Existing' = Existing
    BY <1>7 DEF Existing
  <2>. QED
    BY <1>2, <2>1 DEF CapInv, Counted
<1>12. RowsReferenced'
  <2>1. ASSUME NEW n \in Note, Exists(n), note'[n].assignee # None
        PROVE  role'[note'[n].assignee] # "none"
    <3>1. note'[n].assignee = note[n].assignee /\ note[n].assignee \in User
      BY <1>4, <2>1 DEF TypeOK, NoteRow
    <3>2. role[note[n].assignee] # "none"
      BY <2>1, <3>1 DEF RowsReferenced, Existing, IsMember
    <3>3. CASE ChangeRole(u)
      BY <3>1, <3>2, <3>3, HeldRoles DEF ChangeRole, TypeOK, Roles
    <3>4. CASE Leave(u)
      <4>1. note[n].assignee # u
        BY <2>1, <3>1, <3>4 DEF Leave, TypeOK, NoteRow
      <4>. QED
        BY <3>1, <3>2, <3>4, <4>1 DEF Leave, TypeOK
    <3>. QED
      BY <1>1, <3>3, <3>4
  <2>. QED
    BY <1>2, <1>6, <1>7, <2>1 DEF RowsReferenced, Existing, IsMember
<1>. QED
  BY <1>8, <1>9, <1>10, <1>11, <1>12

LEMMA InvStep == IInv /\ [Next]_vars => IInv'
<1>. SUFFICES ASSUME IInv, [Next]_vars PROVE IInv'
  OBVIOUS
<1>1. CASE UNCHANGED vars
  BY <1>1 DEF IInv, vars, TypeOK, RequestInv, TraceInv, RowsReferenced, ShelfInv, EngagementInv,
     EngagementOnShelf, CapInv, Synced, Shows, AtRest, Syncing, Existing, Exists, IsMember, Counted
<1>2. ASSUME NEW r \in Request, Handle(r)
      PROVE  IInv'
  BY <1>2, TypeStep, RequestInvStep, TraceStep, RowsStep, ShelfInvStep, EngagementStep, CapStep
  DEF IInv
<1>. QED
  BY <1>1, <1>2, OutsideInv DEF Next

THEOREM Invariant == Spec => []IInv
BY InvInit, InvStep, PTL DEF Spec

-----------------------------------------------------------------------------
\* Type correctness of the reference module's rows and requests.
THEOREM TypeCorrect == Spec => []TypeOK
<1>1. IInv => TypeOK
  BY DEF IInv
<1>. QED
  BY <1>1, Invariant, PTL

\* However many writers overlap and whatever fails, a note none of whose shelf
\* writes was lost or overtaken since the last undisturbed one reads on the
\* shelf as it is.
THEOREM ShelfIsCurrent == Spec => [](ShelfShowsCurrent /\ StampedIsShelved)
<1>1. IInv => ShelfShowsCurrent /\ StampedIsShelved
  BY DEF IInv, ShelfInv, Synced, Shows, ShelfShowsCurrent, StampedIsShelved
<1>. QED
  BY <1>1, Invariant, PTL

\* No like or comment outlives its note's row on the shelf.
THEOREM EngagementShelved == Spec => []EngagementOnShelf
<1>1. IInv => EngagementOnShelf
  BY DEF IInv, EngagementInv
<1>. QED
  BY <1>1, Invariant, PTL

\* The note limit is only ever passed by creations that overlap.
THEOREM CapHolds == Spec => []CapUnlessOverran
<1>1. IInv => CapUnlessOverran
  BY DEF IInv, CapInv, CapUnlessOverran
<1>. QED
  BY <1>1, Invariant, PTL

\* Notes refer to spaces and members that exist.
THEOREM RowsAreReferenced == Spec => []RowsReferenced
<1>1. IInv => RowsReferenced
  BY DEF IInv
<1>. QED
  BY <1>1, Invariant, PTL
=============================================================================
