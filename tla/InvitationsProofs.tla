------------------------- MODULE InvitationsProofs -------------------------
(***************************************************************************)
(* Proofs about Invitations for any number of people, invitations,         *)
(* requests and days.                                                      *)
(***************************************************************************)
EXTENDS Invitations, TLAPS

LEMMA IdleType == Idle \in RequestState /\ WellFormed(Idle)
BY DEF Idle, Call, RequestState, Steps, WellFormed

\* Only r's control state changes, to one that is well formed.
Only(r) ==
  /\ req' \in [Request -> RequestState]
  /\ \A q \in Request \ {r} : req'[q] = req[q]

LEMMA GotoEffect ==
  ASSUME NEW r \in Request, NEW step \in Steps, req \in [Request -> RequestState], Goto(r, step)
  PROVE  /\ Only(r)
         /\ req'[r].pc = step /\ req'[r].op = req[r].op /\ req'[r].invite = req[r].invite
         /\ req'[r].who = req[r].who /\ req'[r].email = req[r].email
BY DEF Goto, Only, RequestState

LEMMA FinishEffect ==
  ASSUME NEW r \in Request, req \in [Request -> RequestState], Finish(r)
  PROVE  /\ Only(r)
         /\ req'[r] = Idle /\ req'[r].pc = "idle" /\ req'[r].op = "none"
BY IdleType DEF Finish, Only, Idle, Call

\* Steps that write no row: r's new control state makes no claim that is not so.
Quiet(r) ==
  /\ Only(r)
  /\ UNCHANGED <<org, now, invite, seats, mailed, audit, used, stale, doubled>>
  /\ torn \subseteq torn' /\ torn' \subseteq Invite
  /\ req[r].pc = "mark" => req[r].invite \in torn'
  /\ unsent \subseteq unsent' /\ unsent' \subseteq Invite
  /\ req[r].pc = "send" => req[r].invite \in mailed \cup unsent'
  /\ WellFormed(req'[r])
  /\ req'[r].pc \in {"findSeat", "addSeat"} =>
       (Pending(req'[r].invite) /\ ~IsExpired(req'[r].invite)) \/ req'[r].invite \in stale
  /\ req'[r].pc \notin {"mark", "auditRevoked", "auditSent", "auditAccepted", "auditAdded"}
  /\ req'[r].pc = "insert" =>
       \A i \in Invite : ~(Pending(i) /\ invite[i].email = req'[r].email)

LEMMA QuietStep ==
  ASSUME IInv, NEW r \in Request, Quiet(r)
  PROVE  IInv'
<1>. USE DEF Quiet, Only
<1>1. TypeOK'
  BY DEF IInv, TypeOK
<1>2. RequestInv' /\ TraceInv' /\ Issued' = Issued
  BY DEF IInv, RequestInv, TraceInv, WellFormed, Issued, Unborn
<1>3. OpenInv'
  BY DEF IInv, OpenInv, Accepting, Pending, IsExpired
<1>4. MarkingInv' /\ UseInv'
  BY DEF IInv, MarkingInv, UseInv
<1>5. ClosedOnceUsed'
  BY DEF IInv, ClosedOnceUsed, Pending
<1>6. RevokeInv' /\ RevocationHolds'
  BY DEF IInv, RevokeInv, RevocationHolds
<1>7. InsertInv' /\ OnePendingPerAddress'
  BY DEF IInv, InsertInv, OnePendingPerAddress, Pending
<1>8. AuditInv' /\ AuditTellsTruth'
  BY <1>2 DEF IInv, AuditInv, AuditTellsTruth
<1>. QED
  BY <1>1, <1>2, <1>3, <1>4, <1>5, <1>6, <1>7, <1>8 DEF IInv

\* What arrives is well formed and is at its first lookup.
LEMMA CallsType ==
  ASSUME NEW c \in Managed \cup Unmanaged
  PROVE  c \in RequestState /\ WellFormed(c) /\ c.pc \in {"findRow", "findPending"}
<1>1. ASSUME NEW op \in {"resend", "revoke", "cliResend"}, NEW i \in Issued,
             c = Call("findRow", op, i, None, None)
      PROVE  c \in RequestState /\ WellFormed(c) /\ c.pc \in {"findRow", "findPending"}
  BY <1>1 DEF Call, RequestState, WellFormed, Issued, Ops, Steps
<1>2. ASSUME NEW a \in Address, c = Call("findPending", "create", None, None, a)
      PROVE  c \in RequestState /\ WellFormed(c) /\ c.pc \in {"findRow", "findPending"}
  BY <1>2 DEF Call, RequestState, WellFormed, Ops, Steps
<1>3. ASSUME NEW i \in Issued, NEW p \in Person, c = Call("findRow", "accept", i, p, None)
      PROVE  c \in RequestState /\ WellFormed(c) /\ c.pc \in {"findRow", "findPending"}
  BY <1>3 DEF Call, RequestState, WellFormed, Issued, Ops, Steps
<1>4. CASE c \in Managed
  BY <1>1, <1>2, <1>4 DEF Managed
<1>5. CASE c \in Unmanaged
  BY <1>1, <1>3, <1>5 DEF Unmanaged
<1>. QED
  BY <1>4, <1>5

LEMMA BeginQuiet ==
  ASSUME IInv, NEW r \in Request, Begin(r)
  PROVE  Quiet(r)
<1>1. PICK c \in Managed \cup Unmanaged : req' = [req EXCEPT ![r] = c]
  BY DEF Begin
<1>. QED
  BY <1>1, CallsType DEF Begin, Quiet, Only, IInv, TypeOK, outside, history

LEMMA FailQuiet ==
  ASSUME IInv, NEW r \in Request, Fail(r)
  PROVE  Quiet(r)
<1>1. req[r].pc \in {"mark", "send"} => req[r].invite \in Invite
  BY DEF IInv, RequestInv, WellFormed, Issued, Steps
<1>2. Only(r) /\ req'[r] = Idle /\ req'[r].pc = "idle"
  BY FinishEffect DEF Fail, IInv, TypeOK
<1>. QED
  BY <1>1, <1>2, IdleType DEF Fail, Quiet, IInv, TypeOK, outside, history

LEMMA FinishQuiet ==
  ASSUME IInv, NEW r \in Request, Finish(r), req[r].pc \notin {"mark", "send"},
         UNCHANGED <<outside, invite, seats, audit, history>>
  PROVE  Quiet(r)
<1>1. Only(r) /\ req'[r] = Idle /\ req'[r].pc = "idle"
  BY FinishEffect DEF IInv, TypeOK
<1>. QED
  BY <1>1, IdleType DEF Quiet, IInv, TypeOK, outside, history

LEMMA FindPendingQuiet ==
  ASSUME IInv, NEW r \in Request, FindPending(r)
  PROVE  Quiet(r)
<1>1. CASE \E i \in Invite : Pending(i) /\ invite[i].email = req[r].email
  BY <1>1, FinishQuiet DEF FindPending
<1>2. CASE ~\E i \in Invite : Pending(i) /\ invite[i].email = req[r].email
  <2>1. Goto(r, "insert") /\ "insert" \in Steps
    BY <1>2 DEF FindPending, Steps
  <2>2. /\ Only(r) /\ req'[r].pc = "insert" /\ req'[r].op = req[r].op
        /\ req'[r].email = req[r].email
    BY <2>1, GotoEffect DEF IInv, TypeOK
  <2>3. WellFormed(req'[r])
    BY <2>2 DEF FindPending, IInv, RequestInv, WellFormed
  <2>. QED
    BY <1>2, <2>2, <2>3 DEF FindPending, Quiet, IInv, TypeOK, outside, history
<1>. QED
  BY <1>1, <1>2

LEMMA FindRowQuiet ==
  ASSUME IInv, NEW r \in Request, FindRow(r)
  PROVE  Quiet(r)
<1>1. CASE Finish(r)
  BY <1>1, FinishQuiet DEF FindRow
<1>2. ASSUME NEW step \in {"extend", "revoke", "findSeat"}, Goto(r, step),
             step = "findSeat" => req[r].op = "accept" /\ Acceptable(req[r].invite, req[r].who)
      PROVE  Quiet(r)
  <2>1. step \in Steps
    BY DEF Steps
  <2>2. /\ Only(r) /\ req'[r].pc = step /\ req'[r].op = req[r].op
        /\ req'[r].invite = req[r].invite /\ req'[r].who = req[r].who
    BY <1>2, <2>1, GotoEffect DEF IInv, TypeOK
  <2>3. WellFormed(req'[r])
    BY <1>2, <2>2 DEF FindRow, IInv, RequestInv, WellFormed, Steps
  <2>. QED
    BY <1>2, <2>2, <2>3 DEF FindRow, Acceptable, Quiet, IInv, TypeOK, outside, history
<1>. QED
  BY <1>1, <1>2 DEF FindRow

LEMMA FindSeatQuiet ==
  ASSUME IInv, NEW r \in Request, FindSeat(r)
  PROVE  Quiet(r)
<1>1. CASE seats[req[r].who] > 0
  BY <1>1, FinishQuiet DEF FindSeat
<1>2. CASE ~(seats[req[r].who] > 0)
  <2>1. Goto(r, "addSeat") /\ "addSeat" \in Steps
    BY <1>2 DEF FindSeat, Steps
  <2>2. /\ Only(r) /\ req'[r].pc = "addSeat" /\ req'[r].op = req[r].op
        /\ req'[r].invite = req[r].invite /\ req'[r].who = req[r].who
    BY <2>1, GotoEffect DEF IInv, TypeOK
  <2>3. WellFormed(req'[r])
    BY <2>2 DEF FindSeat, IInv, RequestInv, WellFormed, Steps
  <2>4. UNCHANGED <<outside, invite, seats, audit, history>> /\ req[r].pc = "findSeat"
    BY DEF FindSeat
  <2>5. (Pending(req[r].invite) /\ ~IsExpired(req[r].invite)) \/ req[r].invite \in stale
    BY <2>4 DEF IInv, OpenInv, Accepting, RequestInv, WellFormed, Issued, Steps
  <2>. QED
    BY <2>2, <2>3, <2>4, <2>5 DEF Quiet, IInv, TypeOK, outside, history
<1>. QED
  BY <1>1, <1>2

-----------------------------------------------------------------------------
\* A request at one of these steps names an issued invitation.
LEMMA Names ==
  ASSUME IInv, NEW q \in Request
  PROVE  /\ Accepting(q, req[q].invite) => req[q].invite \in Issued
         /\ req[q].pc \in Steps \ {"idle", "findPending", "insert"} => req[q].invite \in Issued
         /\ Issued \subseteq Invite
BY DEF IInv, RequestInv, WellFormed, Accepting, Issued, Steps

\* A request that is not about to send leaves who was mailed, or has yet to be, as it is.
LEMMA MailKept ==
  ASSUME IInv, NEW r \in Request, Only(r), req[r].pc # "send", UNCHANGED <<mailed, unsent>>,
         NEW i \in Issued
  PROVE  i \in mailed' \cup unsent' \/ \E q \in Request : req'[q].pc = "send" /\ req'[q].invite = i
<1>1. i \in mailed \cup unsent \/ \E q \in Request : req[q].pc = "send" /\ req[q].invite = i
  BY DEF IInv, AuditTellsTruth, Issued
<1>. QED
  BY <1>1 DEF Only

LEMMA InsertStep ==
  ASSUME IInv, NEW r \in Request, InsertInvite(r)
  PROVE  IInv'
<1>1. PICK i \in Unborn :
        /\ invite' = [invite EXCEPT ![i] =
             [status |-> "pending", email |-> req[r].email, expires |-> now + TTL]]
        /\ req' = [req EXCEPT ![r] = Call("send", req[r].op, i, None, None)]
  BY DEF InsertInvite
<1>2. /\ req[r].pc = "insert" /\ req[r].op = "create" /\ req[r].email \in Address
      /\ i \in Invite /\ invite[i].status = "unborn" /\ used[i] = 0
  BY DEF InsertInvite, IInv, RequestInv, WellFormed, TraceInv, Unborn
<1>3. /\ UNCHANGED <<org, now, seats, mailed, audit, used, stale, torn, unsent>>
      /\ doubled \subseteq doubled' /\ doubled' \subseteq Address
      /\ Doubles(r) => req[r].email \in doubled'
  BY <1>2 DEF InsertInvite, outside, IInv, TypeOK
<1>4. now + TTL \in Nat /\ ~(now + TTL <= now)
  BY Bounds DEF IInv, TypeOK
<1>5. /\ invite' \in [Invite -> InviteRow]
      /\ \A j \in Invite \ {i} : invite'[j] = invite[j]
      /\ invite'[i].status = "pending" /\ invite'[i].email = req[r].email
      /\ invite'[i].expires = now + TTL
  BY <1>1, <1>2, <1>4 DEF IInv, TypeOK, InviteRow
<1>6. Call("send", "create", i, None, None) \in RequestState
  BY <1>2 DEF Call, RequestState, Steps, Ops
<1>7. /\ Only(r) /\ req'[r].pc = "send" /\ req'[r].op = "create" /\ req'[r].invite = i
      /\ req'[r].email = None
  BY <1>1, <1>2, <1>6 DEF Only, Call, IInv, TypeOK
<1>8. Issued' = Issued \cup {i} /\ \A q \in Request : ~Accepting(q, i)
  BY <1>2, <1>5, Names DEF Issued, Unborn, Accepting, Steps
<1>. HIDE DEF Call
<1>9. TypeOK'
  BY <1>3, <1>5, <1>7 DEF IInv, TypeOK, Only
<1>10. RequestInv' /\ TraceInv'
  BY <1>2, <1>3, <1>5, <1>7, <1>8 DEF IInv, RequestInv, TraceInv, WellFormed, Only, Issued, Unborn
<1>11. OpenInv'
  BY <1>3, <1>5, <1>7, <1>8 DEF IInv, OpenInv, Accepting, Pending, IsExpired, Only
<1>12. MarkingInv' /\ UseInv'
  BY <1>3, <1>7 DEF IInv, MarkingInv, UseInv, Only
<1>13. ClosedOnceUsed'
  BY <1>2, <1>3, <1>5, <1>7 DEF IInv, ClosedOnceUsed, Pending, Only, TypeOK
<1>14. RevokeInv'
  BY <1>2, <1>3, <1>5, <1>7, Names DEF IInv, RevokeInv, Only, Steps, Issued, Unborn
<1>15. RevocationHolds'
  BY <1>2, <1>3, <1>5 DEF IInv, RevocationHolds
<1>16. InsertInv'
  BY <1>2, <1>3, <1>5, <1>7 DEF IInv, InsertInv, Only, Pending, Doubles
<1>17. OnePendingPerAddress'
  BY <1>2, <1>3, <1>5 DEF IInv, OnePendingPerAddress, InsertInv, Pending
<1>18. AuditInv' /\ AuditTellsTruth'
  BY <1>2, <1>3, <1>7, <1>8 DEF IInv, AuditInv, AuditTellsTruth, Only
<1>. QED
  BY <1>9, <1>10, <1>11, <1>12, <1>13, <1>14, <1>15, <1>16, <1>17, <1>18 DEF IInv

LEMMA SendStep ==
  ASSUME IInv, NEW r \in Request, SendInvite(r)
  PROVE  IInv'
<1>1. /\ req[r].pc = "send" /\ req[r].invite \in Invite
      /\ UNCHANGED <<org, now, invite, seats, audit, used, stale, torn, doubled>>
      /\ mailed' = mailed \cup {req[r].invite} /\ unsent' = unsent \ {req[r].invite}
      /\ "auditSent" \in Steps
  BY Names DEF SendInvite, history, Steps
<1>2. Only(r) /\ req'[r].pc = "auditSent" /\ req'[r].op = req[r].op
      /\ req'[r].invite = req[r].invite /\ req'[r].who = req[r].who
  BY <1>1, GotoEffect DEF SendInvite, IInv, TypeOK
<1>. USE <1>1, <1>2 DEF Only
<1>3. TypeOK'
  BY DEF IInv, TypeOK
<1>4. RequestInv' /\ TraceInv' /\ Issued' = Issued
  BY DEF IInv, RequestInv, TraceInv, WellFormed, Issued, Unborn, Steps
<1>5. OpenInv' /\ MarkingInv' /\ UseInv'
  BY DEF IInv, OpenInv, MarkingInv, UseInv, Accepting, Pending, IsExpired
<1>6. ClosedOnceUsed' /\ RevokeInv' /\ RevocationHolds'
  BY DEF IInv, ClosedOnceUsed, RevokeInv, RevocationHolds, Pending
<1>7. InsertInv' /\ OnePendingPerAddress'
  BY DEF IInv, InsertInv, OnePendingPerAddress, Pending
<1>8. AuditInv' /\ AuditTellsTruth'
  BY <1>4 DEF IInv, AuditInv, AuditTellsTruth
<1>. QED
  BY <1>3, <1>4, <1>5, <1>6, <1>7, <1>8 DEF IInv

LEMMA ExtendStep ==
  ASSUME IInv, NEW r \in Request, ExtendExpiry(r)
  PROVE  IInv'
<1>. DEFINE next == IF req[r].op = "resend" THEN "send" ELSE "auditResent"
<1>1. /\ req[r].pc = "extend" /\ req[r].invite \in Issued /\ req[r].invite \in Invite
      /\ UNCHANGED <<org, now, seats, mailed, audit, used, stale, torn, doubled, unsent>>
      /\ next \in {"send", "auditResent"} /\ next \in Steps /\ Goto(r, next)
  BY Names DEF ExtendExpiry, outside, history, Steps
<1>. HIDE DEF next
<1>2. Only(r) /\ req'[r].pc = next /\ req'[r].op = req[r].op
      /\ req'[r].invite = req[r].invite /\ req'[r].who = req[r].who
  BY <1>1, GotoEffect DEF IInv, TypeOK
<1>3. now + TTL \in Nat /\ ~(now + TTL <= now)
  BY Bounds DEF IInv, TypeOK
<1>4. /\ invite' \in [Invite -> InviteRow]
      /\ \A j \in Invite : invite'[j].status = invite[j].status /\ invite'[j].email = invite[j].email
      /\ \A j \in Invite : invite'[j].expires = invite[j].expires \/ invite'[j].expires = now + TTL
  BY <1>1, <1>3 DEF ExtendExpiry, IInv, TypeOK, InviteRow
<1>5. Issued' = Issued
  BY <1>4 DEF Issued, Unborn
<1>. USE <1>1, <1>2 DEF Only
<1>6. TypeOK'
  BY <1>4 DEF IInv, TypeOK
<1>7. RequestInv' /\ TraceInv'
  BY <1>4, <1>5 DEF IInv, RequestInv, TraceInv, WellFormed, Issued, Unborn, Steps
<1>8. OpenInv'
  BY <1>3, <1>4 DEF IInv, OpenInv, Accepting, Pending, IsExpired
<1>9. MarkingInv' /\ UseInv'
  BY DEF IInv, MarkingInv, UseInv
<1>10. ClosedOnceUsed'
  BY <1>4 DEF IInv, ClosedOnceUsed, Pending
<1>11. RevokeInv' /\ RevocationHolds'
  BY <1>4, Names DEF IInv, RevokeInv, RevocationHolds, Steps
<1>12. InsertInv' /\ OnePendingPerAddress'
  BY <1>4 DEF IInv, InsertInv, OnePendingPerAddress, Pending
<1>13. AuditInv' /\ AuditTellsTruth'
  BY <1>5 DEF IInv, AuditInv, AuditTellsTruth
<1>. QED
  BY <1>6, <1>7, <1>8, <1>9, <1>10, <1>11, <1>12, <1>13 DEF IInv

\* Revoke and MarkAccepted write a status: the others' acceptances of the invitation
\* make it stale.
LEMMA CloseStep ==
  ASSUME IInv, NEW r \in Request, NEW status \in {"revoked", "accepted"},
         NEW next \in {"auditRevoked", "auditAccepted"},
         req[r].pc = IF status = "revoked" THEN "revoke" ELSE "mark",
         next = IF status = "revoked" THEN "auditRevoked" ELSE "auditAccepted",
         invite' = [invite EXCEPT ![req[r].invite].status = status],
         Outdates(r, req[r].invite), Goto(r, next),
         UNCHANGED <<outside, seats, audit, used, torn, doubled, unsent>>
  PROVE  IInv'
<1>. DEFINE i == req[r].invite
<1>1. /\ i \in Issued /\ i \in Invite /\ next \in Steps
      /\ UNCHANGED <<org, now, seats, mailed, audit, used, torn, doubled, unsent>>
  BY Names DEF outside, Steps
<1>2. Only(r) /\ req'[r].pc = next /\ req'[r].op = req[r].op
      /\ req'[r].invite = i /\ req'[r].who = req[r].who
  BY <1>1, GotoEffect DEF IInv, TypeOK
<1>3. /\ stale \subseteq stale' /\ stale' \subseteq Invite
      /\ i \notin stale' => \A q \in Request \ {r} : ~Accepting(q, i)
  BY <1>1 DEF Outdates, IInv, TypeOK
<1>4. /\ invite' \in [Invite -> InviteRow]
      /\ \A j \in Invite \ {i} : invite'[j] = invite[j]
      /\ invite'[i].status = status /\ invite'[i].email = invite[i].email
  BY <1>1 DEF IInv, TypeOK, InviteRow
<1>5. Issued' = Issued
  BY <1>1, <1>4 DEF Issued, Unborn
<1>6. TypeOK'
  BY <1>1, <1>2, <1>3, <1>4 DEF IInv, TypeOK, Only
<1>7. RequestInv' /\ TraceInv'
  BY <1>1, <1>2, <1>4, <1>5 DEF IInv, RequestInv, TraceInv, WellFormed, Issued, Unborn, Steps, Only
<1>8. OpenInv'
  BY <1>1, <1>2, <1>3, <1>4 DEF IInv, OpenInv, Accepting, Pending, IsExpired, Only
<1>9. MarkingInv' /\ UseInv'
  BY <1>1, <1>2, <1>3 DEF IInv, MarkingInv, UseInv, Only
<1>10. ClosedOnceUsed'
  <2>1. SUFFICES ASSUME NEW j \in Invite, (used[j] > 0)', Pending(j)'
        PROVE  (j \in torn \/ \E q \in Request : req[q].pc = "mark" /\ req[q].invite = j)'
    BY DEF ClosedOnceUsed
  <2>2. j # i /\ used[j] > 0 /\ Pending(j)
    BY <1>1, <1>4, <2>1 DEF Pending
  <2>. QED
    BY <1>1, <1>2, <2>2 DEF IInv, ClosedOnceUsed, Only
<1>11. RevokeInv'
  <2>1. SUFFICES ASSUME NEW q \in Request, req'[q].pc = "auditRevoked"
        PROVE  invite'[req'[q].invite].status = "revoked" \/ req'[q].invite \in stale'
    BY DEF RevokeInv
  <2>2. CASE q = r
    BY <1>2, <1>4, <2>1, <2>2
  <2>3. CASE q # r
    <3>1. /\ req[q].pc = "auditRevoked" /\ req'[q].invite = req[q].invite
          /\ req[q].invite \in Invite
          /\ invite[req[q].invite].status = "revoked" \/ req[q].invite \in stale
      BY <1>2, <2>1, <2>3, Names DEF IInv, RevokeInv, Steps, Only
    <3>2. CASE req[q].invite # i
      BY <1>3, <1>4, <3>1, <3>2
    <3>3. CASE req[q].invite = i /\ status = "accepted"
      <4>1. i \in stale \/ Pending(i)
        BY <1>1, <3>3 DEF IInv, OpenInv, Accepting
      <4>. QED
        BY <1>3, <3>1, <3>3, <4>1 DEF Pending
    <3>. QED
      BY <1>4, <3>1, <3>2, <3>3
  <2>. QED
    BY <2>2, <2>3
<1>12. RevocationHolds'
  <2>1. status = "accepted" => i \in stale \/ Pending(i)
    BY <1>1 DEF IInv, OpenInv, Accepting
  <2>. QED
    BY <1>1, <1>3, <1>4, <2>1 DEF IInv, RevocationHolds, Pending
<1>13. InsertInv' /\ OnePendingPerAddress'
  BY <1>1, <1>2, <1>4 DEF IInv, InsertInv, OnePendingPerAddress, Pending, Only
<1>14. AuditInv'
  <2>1. status = "accepted" => used[i] > 0
    BY DEF IInv, MarkingInv
  <2>. QED
    BY <1>1, <1>2, <2>1 DEF IInv, AuditInv, Only
<1>15. AuditTellsTruth'
  <2>1. req[r].pc # "send"
    OBVIOUS
  <2>. QED
    BY <1>1, <1>2, <1>5, <2>1, MailKept DEF IInv, AuditTellsTruth
<1>. QED
  BY <1>6, <1>7, <1>8, <1>9, <1>10, <1>11, <1>12, <1>13, <1>14, <1>15 DEF IInv

LEMMA AddSeatStep ==
  ASSUME IInv, NEW r \in Request, AddSeat(r)
  PROVE  IInv'
<1>. DEFINE i == req[r].invite
<1>1. /\ req[r].pc = "addSeat" /\ i \in Issued /\ i \in Invite /\ req[r].who \in Person
      /\ UNCHANGED <<org, now, invite, mailed, audit, torn, doubled, unsent>>
      /\ "mark" \in Steps
  BY Names DEF AddSeat, outside, Steps, IInv, RequestInv, WellFormed
<1>2. Only(r) /\ req'[r].pc = "mark" /\ req'[r].op = req[r].op
      /\ req'[r].invite = i /\ req'[r].who = req[r].who
  BY <1>1, GotoEffect DEF AddSeat, IInv, TypeOK
<1>3. /\ stale \subseteq stale' /\ stale' \subseteq Invite
      /\ i \notin stale' => \A q \in Request \ {r} : ~Accepting(q, i)
  BY <1>1 DEF AddSeat, Outdates, IInv, TypeOK
<1>4. /\ used' \in [Invite -> Nat] /\ seats' \in [Person -> Nat]
      /\ used'[i] = used[i] + 1 /\ \A j \in Invite \ {i} : used'[j] = used[j]
      /\ \A j \in Invite : used[j] \in Nat
  BY <1>1 DEF AddSeat, IInv, TypeOK
<1>5. \A j \in Invite : used[j] > 0 => used'[j] > 0
  BY <1>4
<1>6. i \notin stale' \cup torn => used[i] = 0 /\ \A q \in Request \ {r} : ~Accepting(q, i)
  <2>1. SUFFICES ASSUME i \notin stale' \cup torn PROVE used[i] = 0
    BY <1>3
  <2>2. Pending(i)
    BY <1>1, <1>3, <2>1 DEF IInv, OpenInv, Accepting
  <2>3. ~\E q \in Request : req[q].pc = "mark" /\ req[q].invite = i
    BY <1>1, <1>3, <2>1 DEF Accepting
  <2>. QED
    BY <1>1, <1>4, <2>1, <2>2, <2>3 DEF IInv, ClosedOnceUsed
<1>7. TypeOK'
  BY <1>1, <1>2, <1>3, <1>4 DEF IInv, TypeOK, Only
<1>8. RequestInv' /\ TraceInv'
  BY <1>1, <1>2, <1>4 DEF IInv, RequestInv, TraceInv, WellFormed, Issued, Unborn, Steps, Only
<1>9. OpenInv'
  BY <1>1, <1>2, <1>3 DEF IInv, OpenInv, Accepting, Pending, IsExpired, Only
<1>10. MarkingInv'
  BY <1>1, <1>2, <1>4, <1>5, Names DEF IInv, MarkingInv, Only, Steps
<1>11. UseInv'
  BY <1>1, <1>2, <1>3, <1>4, <1>6 DEF IInv, UseInv, Only, Accepting
<1>12. ClosedOnceUsed'
  BY <1>1, <1>2, <1>4 DEF IInv, ClosedOnceUsed, Pending, Only
<1>13. RevokeInv' /\ RevocationHolds'
  BY <1>1, <1>2, <1>3 DEF IInv, RevokeInv, RevocationHolds, Only
<1>14. InsertInv' /\ OnePendingPerAddress'
  BY <1>1, <1>2 DEF IInv, InsertInv, OnePendingPerAddress, Pending, Only
<1>15. AuditInv'
  BY <1>1, <1>2, <1>5, Names DEF IInv, AuditInv, Only, Steps
<1>16. AuditTellsTruth'
  <2>1. Issued' = Issued
    BY <1>1 DEF Issued, Unborn
  <2>. QED
    BY <1>1, <1>2, <1>5, <2>1, MailKept DEF IInv, AuditTellsTruth
<1>. QED
  BY <1>7, <1>8, <1>9, <1>10, <1>11, <1>12, <1>13, <1>14, <1>15, <1>16
     DEF IInv

LEMMA AuditStep ==
  ASSUME IInv, NEW r \in Request, Audit(r)
  PROVE  IInv'
<1>. DEFINE i == req[r].invite
            row == [action |-> AuditAction(req[r].pc), invite |-> i]
<1>1. /\ req[r].pc \in {"auditSent", "auditRevoked", "auditAccepted", "auditAdded", "auditResent"}
      /\ UNCHANGED <<org, now, invite, seats, mailed, used, stale, torn, doubled, unsent>>
      /\ i \in Invite /\ audit' = audit \cup {row}
  BY Names DEF Audit, outside, history, Steps
<1>2. /\ row \in AuditRow /\ row.invite = i
      /\ row.action = "invite.sent" => req[r].pc = "auditSent"
      /\ row.action = "invite.revoked" => req[r].pc = "auditRevoked"
      /\ row.action = "invite.accepted" <=> req[r].pc = "auditAccepted"
      /\ row.action = "member.added" => req[r].pc = "auditAdded"
  BY <1>1 DEF AuditRow, AuditAction
<1>3. /\ Only(r) /\ WellFormed(req'[r]) /\ req'[r].pc \in {"auditAdded", "idle"}
      /\ req'[r].pc = "auditAdded" => req[r].pc = "auditAccepted" /\ req'[r].invite = i
  <2>1. CASE req[r].pc = "auditAccepted"
    <3>1. Goto(r, "auditAdded") /\ "auditAdded" \in Steps
      BY <2>1 DEF Audit, Steps
    <3>2. /\ Only(r) /\ req'[r].pc = "auditAdded" /\ req'[r].op = req[r].op
          /\ req'[r].invite = i /\ req'[r].who = req[r].who
      BY <3>1, GotoEffect DEF IInv, TypeOK
    <3>. QED
      BY <2>1, <3>2 DEF IInv, RequestInv, WellFormed, Steps
  <2>2. CASE req[r].pc # "auditAccepted"
    BY <2>2, FinishEffect, IdleType DEF Audit, IInv, TypeOK
  <2>. QED
    BY <2>1, <2>2
<1>4. audit \subseteq audit' /\ \A x \in audit' : x \in audit \/ x = row
  BY <1>1
<1>. HIDE DEF row
<1>5. TypeOK'
  BY <1>1, <1>2, <1>3 DEF IInv, TypeOK, Only
<1>6. RequestInv' /\ TraceInv'
  BY <1>1, <1>3 DEF IInv, RequestInv, TraceInv, WellFormed, Issued, Unborn, Only
<1>7. OpenInv' /\ MarkingInv' /\ UseInv'
  BY <1>1, <1>3 DEF IInv, OpenInv, MarkingInv, UseInv, Accepting, Pending, IsExpired, Only
<1>8. ClosedOnceUsed' /\ RevokeInv'
  BY <1>1, <1>3 DEF IInv, ClosedOnceUsed, RevokeInv, Pending, Only
<1>9. RevocationHolds'
  <2>1. req[r].pc = "auditRevoked" => invite[i].status = "revoked" \/ i \in stale
    BY DEF IInv, RevokeInv
  <2>. QED
    BY <1>1, <1>2, <1>4, <2>1 DEF IInv, RevocationHolds
<1>10. InsertInv' /\ OnePendingPerAddress'
  BY <1>1, <1>3 DEF IInv, InsertInv, OnePendingPerAddress, Pending, Only
<1>11. AuditInv'
  <2>1. req'[r].pc = "auditAdded" => row = [action |-> "invite.accepted", invite |-> i]
    BY <1>1, <1>3 DEF row, AuditAction
  <2>. QED
    BY <1>1, <1>3, <1>4, <2>1 DEF IInv, AuditInv, Only
<1>12. AuditTellsTruth'
  <2>1. /\ req[r].pc = "auditSent" => i \in mailed
        /\ req[r].pc = "auditAccepted" => used[i] > 0
        /\ req[r].pc = "auditAdded" => [action |-> "invite.accepted", invite |-> i] \in audit
    BY DEF IInv, AuditInv
  <2>2. ASSUME NEW j \in Issued
        PROVE  \/ j \in mailed' \cup unsent'
               \/ \E q \in Request : req'[q].pc = "send" /\ req'[q].invite = j
    BY <1>1, <1>3, MailKept
  <2>3. Issued' = Issued
    BY <1>1 DEF Issued, Unborn
  <2>. QED
    <3>1. ASSUME NEW j \in Invite, NEW action,
                 [action |-> action, invite |-> j] \in audit',
                 [action |-> action, invite |-> j] \notin audit
          PROVE  j = i /\ action = row.action
      BY <1>1, <1>2, <1>4, <3>1
    <3>2. ASSUME NEW j \in Invite
          PROVE  /\ [action |-> "invite.sent", invite |-> j] \in audit' => j \in mailed'
                 /\ [action |-> "invite.accepted", invite |-> j] \in audit' => used'[j] > 0
                 /\ [action |-> "member.added", invite |-> j] \in audit' =>
                      [action |-> "invite.accepted", invite |-> j] \in audit'
      BY <1>1, <1>2, <1>4, <2>1, <3>1 DEF IInv, AuditTellsTruth
    <3>. QED
      BY <2>2, <2>3, <3>2 DEF AuditTellsTruth
<1>. QED
  BY <1>5, <1>6, <1>7, <1>8, <1>9, <1>10, <1>11, <1>12 DEF IInv

LEMMA TickStep ==
  ASSUME IInv, Tick
  PROVE  IInv'
<1>1. /\ UNCHANGED <<org, invite, seats, mailed, audit, req, used, torn, doubled, unsent>>
      /\ now \in Nat /\ now' = now + 1 /\ stale \subseteq stale' /\ stale' \subseteq Invite
      /\ \A i \in Invite : invite[i].expires \in Nat
      /\ \A i \in Invite \ stale' :
           invite[i].expires # now + 1 \/ \A q \in Request : ~Accepting(q, i)
  BY DEF Tick, IInv, TypeOK, InviteRow
<1>2. TypeOK' /\ RequestInv' /\ TraceInv'
  BY <1>1 DEF IInv, TypeOK, RequestInv, TraceInv, WellFormed, Issued, Unborn
<1>3. OpenInv'
  BY <1>1 DEF IInv, OpenInv, Accepting, Pending, IsExpired
<1>4. MarkingInv' /\ UseInv' /\ ClosedOnceUsed'
  BY <1>1 DEF IInv, MarkingInv, UseInv, ClosedOnceUsed, Pending
<1>5. RevokeInv' /\ RevocationHolds'
  BY <1>1 DEF IInv, RevokeInv, RevocationHolds
<1>6. InsertInv' /\ OnePendingPerAddress' /\ AuditInv' /\ AuditTellsTruth'
  BY <1>1 DEF IInv, InsertInv, OnePendingPerAddress, AuditInv, AuditTellsTruth, Pending, Issued,
              Unborn
<1>. QED
  BY <1>2, <1>3, <1>4, <1>5, <1>6 DEF IInv

\* What happens to the organization and to its other members, and stuttering
LEMMA OutsideStep ==
  ASSUME IInv, UNCHANGED <<now, invite, mailed, audit, req, used, stale, torn, doubled, unsent>>,
         org' \in {"live", "deleted"}, seats' \in [Person -> Nat]
  PROVE  IInv'
<1>1. TypeOK' /\ RequestInv' /\ TraceInv'
  BY DEF IInv, TypeOK, RequestInv, TraceInv, WellFormed, Issued, Unborn
<1>2. OpenInv' /\ MarkingInv' /\ UseInv' /\ ClosedOnceUsed'
  BY DEF IInv, OpenInv, MarkingInv, UseInv, ClosedOnceUsed, Accepting, Pending, IsExpired
<1>3. RevokeInv' /\ RevocationHolds' /\ InsertInv' /\ OnePendingPerAddress'
  BY DEF IInv, RevokeInv, RevocationHolds, InsertInv, OnePendingPerAddress, Pending
<1>4. AuditInv' /\ AuditTellsTruth'
  BY DEF IInv, AuditInv, AuditTellsTruth, Issued, Unborn
<1>. QED
  BY <1>1, <1>2, <1>3, <1>4 DEF IInv

LEMMA InvInit == Init => IInv
<1>. SUFFICES ASSUME Init PROVE IInv
  OBVIOUS
<1>. USE DEF Init
<1>1. \A r \in Request : req[r].pc = "idle" /\ req[r] \in RequestState /\ WellFormed(req[r])
  BY IdleType DEF Idle, Call
<1>2. TypeOK
  BY <1>1 DEF TypeOK, InviteRow
<1>3. RequestInv /\ TraceInv
  BY <1>1 DEF RequestInv, TraceInv, Issued, Unborn
<1>4. OpenInv /\ MarkingInv /\ UseInv /\ ClosedOnceUsed
  BY <1>1 DEF OpenInv, MarkingInv, UseInv, ClosedOnceUsed, Accepting
<1>5. RevokeInv /\ RevocationHolds /\ InsertInv /\ OnePendingPerAddress
  BY <1>1 DEF RevokeInv, RevocationHolds, InsertInv, OnePendingPerAddress, Pending
<1>6. AuditInv /\ AuditTellsTruth
  BY <1>1 DEF AuditInv, AuditTellsTruth, Issued, Unborn
<1>. QED
  BY <1>2, <1>3, <1>4, <1>5, <1>6 DEF IInv

LEMMA InvStep == IInv /\ [Next]_vars => IInv'
<1>. SUFFICES ASSUME IInv, [Next]_vars PROVE IInv'
  OBVIOUS
<1>1. CASE Tick
  BY <1>1, TickStep
<1>2. CASE DeleteOrg \/ RestoreOrg \/ UNCHANGED vars
  BY <1>2, OutsideStep DEF DeleteOrg, RestoreOrg, vars, history, IInv, TypeOK
<1>3. ASSUME NEW p \in Person, RemoveMember(p) \/ AddMember(p) PROVE IInv'
  <2>1. seats' \in [Person -> Nat]
    BY <1>3 DEF RemoveMember, AddMember, IInv, TypeOK
  <2>. QED
    BY <1>3, <2>1, OutsideStep DEF RemoveMember, AddMember, outside, history, IInv, TypeOK
<1>4. ASSUME NEW r \in Request, Begin(r) \/ Fail(r) \/ FindPending(r) \/ FindRow(r) \/ FindSeat(r)
      PROVE  IInv'
  BY <1>4, BeginQuiet, FailQuiet, FindPendingQuiet, FindRowQuiet, FindSeatQuiet, QuietStep
<1>5. ASSUME NEW r \in Request, InsertInvite(r) \/ SendInvite(r) \/ ExtendExpiry(r) PROVE IInv'
  BY <1>5, InsertStep, SendStep, ExtendStep
<1>6. ASSUME NEW r \in Request, Revoke(r) PROVE IInv'
  BY <1>6, CloseStep DEF Revoke
<1>7. ASSUME NEW r \in Request, MarkAccepted(r) PROVE IInv'
  BY <1>7, CloseStep DEF MarkAccepted
<1>8. ASSUME NEW r \in Request, AddSeat(r) \/ Audit(r) PROVE IInv'
  BY <1>8, AddSeatStep, AuditStep
<1>. QED
  BY <1>1, <1>2, <1>3, <1>4, <1>5, <1>6, <1>7, <1>8 DEF Next, Continue

-----------------------------------------------------------------------------
\* The strengthening of all the invariants below.
THEOREM Invariant == Spec => []IInv
BY InvInit, InvStep, PTL DEF Spec

\* Every variable keeps its type.
THEOREM TypeCorrect == Spec => []TypeOK
<1>1. IInv => TypeOK
  BY DEF IInv
<1>. QED
  BY <1>1, Invariant, PTL

\* registerAccept: an invitation leads to one membership, and is closed afterwards, unless
\* it changed under an acceptance or an acceptance broke off.
THEOREM InvitationIsSingleUse == Spec => [](SingleUse /\ ClosedOnceUsed)
<1>1. IInv => SingleUse /\ ClosedOnceUsed
  BY DEF IInv, UseInv, SingleUse
<1>. QED
  BY <1>1, Invariant, PTL

\* registerRevoke: a revocation that is on record is in force, unless an acceptance was
\* under way.
THEOREM RevocationsHold == Spec => []RevocationHolds
<1>1. IInv => RevocationHolds
  BY DEF IInv
<1>. QED
  BY <1>1, Invariant, PTL

\* assertInvitable: two invitations are pending for an address only when their creations
\* overlapped.
THEOREM PendingOnce == Spec => []OnePendingPerAddress
<1>1. IInv => OnePendingPerAddress
  BY DEF IInv
<1>. QED
  BY <1>1, Invariant, PTL

\* sendAndAudit, auditAcceptance: the audit log claims only what has happened, and nobody
\* is left without the mail of an invitation unless it broke off.
THEOREM AuditIsTruthful == Spec => []AuditTellsTruth
<1>1. IInv => AuditTellsTruth
  BY DEF IInv
<1>. QED
  BY <1>1, Invariant, PTL

-----------------------------------------------------------------------------
\* What a step does to the row of one invitation and to the count of its uses
RowStep(i) ==
  \/ invite'[i].status = invite[i].status /\ used'[i] = used[i]
  \/ invite[i].status = "unborn" /\ invite'[i].status = "pending" /\ used'[i] = used[i]
  \/ invite[i].status # "unborn" /\ invite'[i].status = "revoked" /\ used'[i] = used[i]
  \/ /\ invite'[i].status = "accepted" /\ used'[i] = used[i] /\ used[i] > 0
     /\ i \in stale \/ invite[i].status = "pending"
  \/ /\ invite'[i].status = invite[i].status /\ used'[i] = used[i] + 1
     /\ i \in stale \/ (invite[i].status = "pending" /\ ~IsExpired(i))
     /\ i \in stale' \/ i \in torn \/ used[i] = 0

LEMMA RowSteps ==
  ASSUME IInv, [Next]_vars, NEW i \in Invite
  PROVE  RowStep(i)
<1>1. CASE UNCHANGED <<invite, used>>
  BY <1>1 DEF RowStep
<1>2. ASSUME NEW r \in Request, InsertInvite(r) PROVE RowStep(i)
  BY <1>2 DEF RowStep, InsertInvite, Unborn, IInv, TypeOK
<1>3. ASSUME NEW r \in Request, ExtendExpiry(r) PROVE RowStep(i)
  BY <1>3 DEF RowStep, ExtendExpiry, history, IInv, TypeOK, InviteRow
<1>4. ASSUME NEW r \in Request, Revoke(r) PROVE RowStep(i)
  <2>1. req[r].invite \in Issued
    BY <1>4, Names DEF Revoke, Steps
  <2>. QED
    BY <1>4, <2>1 DEF RowStep, Revoke, Issued, Unborn, IInv, TypeOK, InviteRow
<1>5. ASSUME NEW r \in Request, MarkAccepted(r) PROVE RowStep(i)
  <2>1. req[r].invite = i => used[i] > 0 /\ (i \in stale \/ Pending(i))
    BY <1>5 DEF MarkAccepted, IInv, MarkingInv, OpenInv, Accepting
  <2>. QED
    BY <1>5, <2>1 DEF RowStep, MarkAccepted, Pending, IInv, TypeOK, InviteRow
<1>6. ASSUME NEW r \in Request, AddSeat(r) PROVE RowStep(i)
  <2>1. CASE req[r].invite # i
    BY <1>6, <2>1 DEF RowStep, AddSeat, IInv, TypeOK
  <2>2. CASE req[r].invite = i
    <3>1. i \in stale \/ (Pending(i) /\ ~IsExpired(i))
      BY <1>6, <2>2 DEF AddSeat, IInv, OpenInv, Accepting
    <3>2. /\ IInv' /\ torn' = torn /\ used'[i] = used[i] + 1 /\ used[i] \in Nat
          /\ invite' = invite
      BY <1>6, <2>2, AddSeatStep DEF AddSeat, IInv, TypeOK
    <3>3. i \in stale' \/ i \in torn \/ used'[i] <= 1
      BY <3>2 DEF IInv, UseInv
    <3>. QED
      BY <3>1, <3>2, <3>3 DEF RowStep, Pending
  <2>. QED
    BY <2>1, <2>2
<1>7. \/ UNCHANGED <<invite, used>>
      \/ \E r \in Request : InsertInvite(r) \/ ExtendExpiry(r) \/ Revoke(r) \/ MarkAccepted(r)
                             \/ AddSeat(r)
  BY DEF Next, Continue, Tick, DeleteOrg, RestoreOrg, RemoveMember, AddMember, Begin, Fail,
         FindPending, SendInvite, FindRow, FindSeat, Audit, vars, history
<1>. QED
  BY <1>1, <1>2, <1>3, <1>4, <1>5, <1>6, <1>7

LEMMA HistoryGrows ==
  ASSUME IInv, [Next]_vars
  PROVE  stale \subseteq stale' /\ torn \subseteq torn'
<1>1. ASSUME NEW r \in Request, NEW i, Outdates(r, i) PROVE stale \subseteq stale'
  BY <1>1 DEF Outdates
<1>. QED
  BY <1>1 DEF Next, Continue, Tick, DeleteOrg, RestoreOrg, RemoveMember, AddMember, Begin, Fail,
              FindPending, InsertInvite, SendInvite, FindRow, ExtendExpiry, Revoke, FindSeat,
              AddSeat, MarkAccepted, Audit, vars, history

\* assertAcceptable: nobody is admitted by an invitation that is closed or has lapsed,
\* unless it was so only after the acceptance had judged it.
THEOREM OpenAdmits == Spec => AdmitsOnlyByOpen
<1>1. ASSUME IInv, [Next]_vars
      PROVE  [\A i \in Invite : used'[i] # used[i] =>
                (Pending(i) /\ ~IsExpired(i)) \/ i \in stale]_vars
  BY <1>1, RowSteps DEF RowStep, Pending
<1>. QED
  BY <1>1, Invariant, PTL DEF Spec, AdmitsOnlyByOpen

\* registerResend, inviteResend: no step reopens an invitation that was closed.
THEOREM ClosedForGood == Spec => ClosedStaysClosed
<1>1. ASSUME IInv, [Next]_vars
      PROVE  [\A i \in Invite : invite[i].status \in {"accepted", "revoked"} => ~Pending(i)']_vars
  BY <1>1, RowSteps DEF RowStep, Pending
<1>. QED
  BY <1>1, Invariant, PTL DEF Spec, ClosedStaysClosed

\* invitations.ts: the invitations implement single-use tickets.
THEOREM ImplementsTicket == Spec => TicketSpec
<1>1. Init => T!Init
  BY DEF Init, T!Init, ticketState, trusted
<1>2. ASSUME IInv, [Next]_vars PROVE [T!Next]_<<ticketState, used, trusted>>
  <2>1. trusted' \subseteq trusted
    BY <1>2, HistoryGrows DEF trusted
  <2>2. ASSUME NEW i \in trusted' PROVE T!Send(i) \/ T!Use(i) \/ T!Close(i) \/ T!Keep(i)
    <3>. DEFINE From == ticketState[i]
                To == ticketState'[i]
    <3>1. /\ i \in Invite /\ i \notin stale /\ i \notin torn /\ i \notin stale'
          /\ used[i] \in Nat
          /\ i \in Unborn => used[i] = 0
      BY <1>2, <2>1, <2>2 DEF trusted, IInv, TypeOK, TraceInv
    <3>2. From = IF invite[i].status = "unborn" THEN "unsent"
                 ELSE IF invite[i].status = "revoked" THEN "closed"
                 ELSE IF used[i] > 0 THEN "used" ELSE "out"
      BY <3>1 DEF ticketState
    <3>3. To = IF invite'[i].status = "unborn" THEN "unsent"
               ELSE IF invite'[i].status = "revoked" THEN "closed"
               ELSE IF used'[i] > 0 THEN "used" ELSE "out"
      BY <3>1 DEF ticketState
    <3>. HIDE DEF From, To
    <3>4. \/ From = "unsent" /\ To = "out" /\ used'[i] = used[i]
          \/ From = "out" /\ To = "used" /\ used'[i] = used[i] + 1
          \/ From \in {"out", "used"} /\ To = "closed" /\ used'[i] = used[i]
          \/ To = From /\ used'[i] = used[i]
      <4>1. RowStep(i)
        BY <1>2, <3>1, RowSteps
      <4>2. invite[i].status = "unborn" => used[i] = 0
        BY <3>1 DEF Unborn
      <4>3. CASE invite'[i].status = invite[i].status /\ used'[i] = used[i]
        BY <3>2, <3>3, <4>3
      <4>4. CASE invite[i].status = "unborn" /\ invite'[i].status = "pending" /\ used'[i] = used[i]
        BY <3>2, <3>3, <4>2, <4>4
      <4>5. CASE invite[i].status # "unborn" /\ invite'[i].status = "revoked" /\ used'[i] = used[i]
        BY <3>2, <3>3, <4>5
      <4>6. CASE /\ invite'[i].status = "accepted" /\ used'[i] = used[i] /\ used[i] > 0
                 /\ invite[i].status = "pending"
        BY <3>2, <3>3, <4>6
      <4>7. CASE /\ invite'[i].status = invite[i].status /\ used'[i] = used[i] + 1
                 /\ invite[i].status = "pending" /\ used[i] = 0
        BY <3>2, <3>3, <4>7
      <4>. QED
        BY <3>1, <4>1, <4>3, <4>4, <4>5, <4>6, <4>7 DEF RowStep
    <3>. QED
      BY <3>4 DEF From, To, T!Send, T!Use, T!Close, T!Keep
  <2>. QED
    BY <2>1, <2>2 DEF T!Next
<1>. QED
  BY <1>1, <1>2, Invariant, PTL DEF Spec, TicketSpec, T!Spec
=============================================================================
