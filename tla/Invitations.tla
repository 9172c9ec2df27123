---------------------------- MODULE Invitations ----------------------------
(***************************************************************************)
(* The invitations of one team organization: sent, resent, revoked and     *)
(* accepted (apps/api/src/routes/orgs/invitations.ts), and resent by the   *)
(* operator (ops/src/commands/invite.ts).  An invitation row has no lock   *)
(* and no version: its status is read by one statement and written by a    *)
(* later one, whatever happened in between.                                *)
(*                                                                         *)
(* An action is one autocommitted statement with the synchronous code up   *)
(* to the next.  Of the membership table only the number of rows of each   *)
(* person is kept: its roles and owners are the subject of OrgMembers.     *)
(***************************************************************************)
EXTENDS Naturals, FiniteSets

CONSTANTS
  Person,     \* people but the owner, identified with the mailbox they signed up with
  Spelling,   \* the spellings (letter case, blanks) of a mailbox's address
  Invite,     \* invitation ids, never issued twice
  None,       \* an absent id or address
  TTL,        \* days until an invitation expires
  Horizon,    \* bound: the days that pass
  MaxUses,    \* bound: the acceptances of one invitation
  Request,    \* the requests in flight at once
  Offered,    \* the operations callers send (all of Ops, or those a run is about)
  Faults      \* whether a statement may fail or the process crash in a handler

Ops == {"create", "resend", "revoke", "accept", "cliResend"}

\* An address as written: whose mailbox it is, and how it is spelled
Address == Person \X Spelling

ASSUME Finite == IsFiniteSet(Invite) /\ IsFiniteSet(Request)
ASSUME NoneFresh == None \notin Person \cup Invite \cup Address
ASSUME Bounds == TTL \in Nat \ {0} /\ Horizon \in Nat /\ MaxUses \in Nat
ASSUME OfferedOps == Offered \subseteq Ops
ASSUME FaultsBool == Faults \in BOOLEAN

VARIABLES
  org,      \* "live", or "deleted" once deleted_at is set
  now,      \* the day
  invite,   \* invitation rows
  seats,    \* the number of member rows of each person
  mailed,   \* invitations whose mail has been sent
  audit,    \* audit_log rows about invitations
  req,      \* the requests in flight
  used,     \* history: the member rows each invitation has led to
  stale,    \* history: invitations that changed while they were being accepted
  torn,     \* history: invitations whose acceptance broke off before its last write
  doubled,  \* history: addresses invited inside another creation's check and insert
  unsent    \* history: invitations whose mail a request broke off before, none sent since

vars == <<org, now, invite, seats, mailed, audit, req, used, stale, torn, doubled, unsent>>
outside == <<org, now, mailed>>
history == <<used, stale, torn, doubled, unsent>>

InviteRow ==
  [status : {"unborn", "pending", "accepted", "revoked"}, email : Address \cup {None},
   expires : Nat]

Steps == {"idle", "findPending", "insert", "send", "findRow", "extend", "revoke", "findSeat",
          "addSeat", "mark", "auditSent", "auditRevoked", "auditAccepted", "auditAdded",
          "auditResent"}

RequestState ==
  [pc : Steps, op : Ops \cup {"none"}, invite : Invite \cup {None},
   who : Person \cup {None},          \* the person accepting
   email : Address \cup {None}]       \* the address to invite

Call(step, op, i, p, a) == [pc |-> step, op |-> op, invite |-> i, who |-> p, email |-> a]

Idle == Call("idle", "none", None, None, None)

AuditRow ==
  [action : {"invite.sent", "invite.resent", "invite.revoked", "invite.accepted",
             "member.added"}, invite : Invite]

TypeOK ==
  /\ org \in {"live", "deleted"}
  /\ now \in Nat
  /\ invite \in [Invite -> InviteRow]
  /\ seats \in [Person -> Nat]
  /\ mailed \in SUBSET Invite
  /\ audit \in SUBSET AuditRow
  /\ req \in [Request -> RequestState]
  /\ used \in [Invite -> Nat]
  /\ stale \in SUBSET Invite
  /\ torn \in SUBSET Invite
  /\ doubled \in SUBSET Address
  /\ unsent \in SUBSET Invite

-----------------------------------------------------------------------------
Unborn == {i \in Invite : invite[i].status = "unborn"}
Issued == Invite \ Unborn
Pending(i) == invite[i].status = "pending"
IsExpired(i) == invite[i].expires <= now

\* mutant: an invitation is acceptable whatever its status
AcceptableUnexpired(i, p) == ~IsExpired(i) /\ invite[i].email[1] = p

\* invitationAcceptability: emailsMatch compares mailboxes, not spellings
Acceptable(i, p) == Pending(i) /\ ~IsExpired(i) /\ invite[i].email[1] = p

\* q has found i acceptable and has not marked it accepted yet.
Accepting(q, i) == req[q].pc \in {"findSeat", "addSeat", "mark"} /\ req[q].invite = i

\* r writes what the other acceptances of i have judged already.
Outdates(r, i) ==
  stale' = IF \E q \in Request \ {r} : Accepting(q, i) THEN stale \cup {i} ELSE stale

Goto(r, step) == req' = [req EXCEPT ![r].pc = step]
Finish(r) == req' = [req EXCEPT ![r] = Idle]

-----------------------------------------------------------------------------
\* createOrgWithOwner: nobody but the owner, who is not in Person, is a member.
Init ==
  /\ org = "live"
  /\ now = 0
  /\ invite = [i \in Invite |-> [status |-> "unborn", email |-> None, expires |-> 0]]
  /\ seats = [p \in Person |-> 0]
  /\ mailed = {}
  /\ audit = {}
  /\ req = [r \in Request |-> Idle]
  /\ used = [i \in Invite |-> 0]
  /\ stale = {} /\ torn = {} /\ doubled = {} /\ unsent = {}

\* Days pass; an invitation may lapse under an acceptance that has judged it.
Tick ==
  /\ now < Horizon
  /\ now' = now + 1
  /\ stale' = stale \cup {i \in Invite : invite[i].expires = now + 1
                                         /\ \E q \in Request : Accepting(q, i)}
  /\ UNCHANGED <<org, invite, seats, mailed, audit, req, used, torn, doubled, unsent>>

\* DELETE /api/orgs/:orgId by its owner; `org restore` by the operator
DeleteOrg ==
  /\ org = "live"
  /\ org' = "deleted"
  /\ UNCHANGED <<now, invite, seats, mailed, audit, req, history>>

RestoreOrg ==
  /\ org = "deleted"
  /\ org' = "live"
  /\ UNCHANGED <<now, invite, seats, mailed, audit, req, history>>

\* DELETE .../members/:memberId, or the person leaves
RemoveMember(p) ==
  /\ seats[p] > 0
  /\ seats' = [seats EXCEPT ![p] = @ - 1]
  /\ UNCHANGED <<outside, invite, audit, req, history>>

\* An administrator adds the person without an invitation.
AddMember(p) ==
  /\ seats[p] = 0
  /\ seats' = [seats EXCEPT ![p] = 1]
  /\ UNCHANGED <<outside, invite, audit, req, history>>

\* Bounds: an unissued id for every creation in flight, and MaxUses acceptances.
IdsLeft == Cardinality({q \in Request : req[q].pc \in {"findPending", "insert"}})
             < Cardinality(Unborn)
UsesLeft(i) == used[i] + Cardinality({q \in Request : req[q].op = "accept"
                                                      /\ req[q].invite = i}) < MaxUses

\* authorizeOrg: the management calls need a live organization, and a caller who may
\* invite (its owner, if nobody else).  An accepting caller needs only a session, and
\* the operator a shell.  Ids come from the list of invitations, or from the mail.
Managed ==
  IF org = "live"
  THEN {Call("findRow", op, i, None, None) : op \in {"resend", "revoke"}, i \in Issued}
         \cup {Call("findPending", "create", None, None, a) : a \in IF IdsLeft THEN Address ELSE {}}
  ELSE {}

Unmanaged ==
  {Call("findRow", "accept", i, p, None) : i \in {j \in Issued : UsesLeft(j)}, p \in Person}
    \cup {Call("findRow", "cliResend", i, None, None) : i \in Issued}

Begin(r) ==
  /\ req[r].pc = "idle"
  /\ \E c \in Managed \cup Unmanaged :
       /\ c.op \in Offered
       /\ req' = [req EXCEPT ![r] = c]
  /\ UNCHANGED <<outside, invite, seats, audit, history>>

\* A statement throws or the process stops: the handler writes nothing more.
Fail(r) ==
  /\ Faults
  /\ req[r].pc # "idle"
  /\ Finish(r)
  /\ torn' = IF req[r].pc = "mark" THEN torn \cup {req[r].invite} ELSE torn
  /\ unsent' = IF req[r].pc = "send" /\ req[r].invite \notin mailed
                 THEN unsent \cup {req[r].invite} ELSE unsent
  /\ UNCHANGED <<outside, invite, seats, audit, used, stale, doubled>>

-----------------------------------------------------------------------------
\* mutant: a pending invitation for the address does not matter
FindNone(r) ==
  /\ req[r].pc = "findPending"
  /\ Goto(r, "insert")
  /\ UNCHANGED <<outside, invite, seats, audit, history>>

\* assertInvitable (409): the exact address, pending, whether or not it has expired
FindPending(r) ==
  /\ req[r].pc = "findPending"
  /\ IF \E i \in Invite : Pending(i) /\ invite[i].email = req[r].email
       THEN Finish(r) ELSE Goto(r, "insert")
  /\ UNCHANGED <<outside, invite, seats, audit, history>>

\* Another creation has found no pending invitation for the address either.
Doubles(r) ==
  \E q \in Request \ {r} : req[q].pc = "insert" /\ req[q].email = req[r].email

\* createInvitation
InsertInvite(r) ==
  /\ req[r].pc = "insert"
  /\ \E i \in Unborn :
       /\ invite' = [invite EXCEPT ![i] =
            [status |-> "pending", email |-> req[r].email, expires |-> now + TTL]]
       /\ req' = [req EXCEPT ![r] = Call("send", req[r].op, i, None, None)]
  /\ doubled' = IF Doubles(r) THEN doubled \cup {req[r].email} ELSE doubled
  /\ UNCHANGED <<outside, seats, audit, used, stale, torn, unsent>>

\* sendInvite, awaited before the audit row is written
SendInvite(r) ==
  /\ req[r].pc = "send"
  /\ mailed' = mailed \cup {req[r].invite}
  /\ unsent' = unsent \ {req[r].invite}
  /\ Goto(r, "auditSent")
  /\ UNCHANGED <<org, now, invite, seats, audit, used, stale, torn, doubled>>

\* requireInvitation, and what each handler asks of the row: resending needs it
\* pending (409), accepting needs it acceptable (404, 422), revoking takes any row.
FindRow(r) ==
  /\ req[r].pc = "findRow"
  /\ LET i == req[r].invite IN
     \/ req[r].op \in {"resend", "cliResend"} /\ Pending(i) /\ Goto(r, "extend")
     \/ req[r].op = "revoke" /\ Goto(r, "revoke")
     \/ req[r].op = "accept" /\ Acceptable(i, req[r].who) /\ Goto(r, "findSeat")
     \/ /\ \/ req[r].op \in {"resend", "cliResend"} /\ ~Pending(i)
           \/ req[r].op = "accept" /\ ~Acceptable(i, req[r].who)
        /\ Finish(r)
  /\ UNCHANGED <<outside, invite, seats, audit, history>>

\* mutant: resending writes the status it has read along with the expiry
ExtendPending(r) ==
  /\ req[r].pc = "extend"
  /\ invite' = [invite EXCEPT ![req[r].invite] =
       [@ EXCEPT !.status = "pending", !.expires = now + TTL]]
  /\ Goto(r, IF req[r].op = "resend" THEN "send" ELSE "auditResent")
  /\ UNCHANGED <<outside, seats, audit, history>>

\* updateInvitation with a fresh expiry, or the gateway's extendExpiry
ExtendExpiry(r) ==
  /\ req[r].pc = "extend"
  /\ invite' = [invite EXCEPT ![req[r].invite].expires = now + TTL]
  /\ Goto(r, IF req[r].op = "resend" THEN "send" ELSE "auditResent")
  /\ UNCHANGED <<outside, seats, audit, history>>

\* updateInvitation: any row, whatever its status has become
Revoke(r) ==
  /\ req[r].pc = "revoke"
  /\ invite' = [invite EXCEPT ![req[r].invite].status = "revoked"]
  /\ Outdates(r, req[r].invite)
  /\ Goto(r, "auditRevoked")
  /\ UNCHANGED <<outside, seats, audit, used, torn, doubled, unsent>>

-----------------------------------------------------------------------------
\* Acceptance: findMemberByUser (409), addMember, updateInvitation, two audit rows
FindSeat(r) ==
  /\ req[r].pc = "findSeat"
  /\ IF seats[req[r].who] > 0 THEN Finish(r) ELSE Goto(r, "addSeat")
  /\ UNCHANGED <<outside, invite, seats, audit, history>>

AddSeat(r) ==
  /\ req[r].pc = "addSeat"
  /\ seats' = [seats EXCEPT ![req[r].who] = @ + 1]
  /\ used' = [used EXCEPT ![req[r].invite] = @ + 1]
  /\ Outdates(r, req[r].invite)
  /\ Goto(r, "mark")
  /\ UNCHANGED <<outside, invite, audit, torn, doubled, unsent>>

\* mutant: the invitation is left as it is
MarkNothing(r) ==
  /\ req[r].pc = "mark"
  /\ Goto(r, "auditAccepted")
  /\ UNCHANGED <<outside, invite, seats, audit, history>>

MarkAccepted(r) ==
  /\ req[r].pc = "mark"
  /\ invite' = [invite EXCEPT ![req[r].invite].status = "accepted"]
  /\ Outdates(r, req[r].invite)
  /\ Goto(r, "auditAccepted")
  /\ UNCHANGED <<outside, seats, audit, used, torn, doubled, unsent>>

\* mutant: the operator's own action name
AuditWithoutResent(step) ==
  CASE step = "auditSent" -> "invite.sent"
    [] step = "auditRevoked" -> "invite.revoked"
    [] step = "auditAccepted" -> "invite.accepted"
    [] step = "auditAdded" -> "member.added"
    [] step = "auditResent" -> "cli.invite"

\* mutant: membership is audited first
AuditReversed(step) ==
  CASE step = "auditSent" -> "invite.sent"
    [] step = "auditRevoked" -> "invite.revoked"
    [] step = "auditAccepted" -> "member.added"
    [] step = "auditAdded" -> "invite.accepted"
    [] step = "auditResent" -> "invite.resent"

\* What the handler at each audit step records
AuditAction(step) ==
  CASE step = "auditSent" -> "invite.sent"
    [] step = "auditRevoked" -> "invite.revoked"
    [] step = "auditAccepted" -> "invite.accepted"
    [] step = "auditAdded" -> "member.added"
    [] step = "auditResent" -> "invite.resent"

Audit(r) ==
  /\ req[r].pc \in {"auditSent", "auditRevoked", "auditAccepted", "auditAdded", "auditResent"}
  /\ audit' = audit \cup {[action |-> AuditAction(req[r].pc), invite |-> req[r].invite]}
  /\ IF req[r].pc = "auditAccepted" THEN Goto(r, "auditAdded") ELSE Finish(r)
  /\ UNCHANGED <<outside, invite, seats, history>>

-----------------------------------------------------------------------------
Continue(r) ==
  \/ FindPending(r) \/ InsertInvite(r) \/ SendInvite(r) \/ FindRow(r) \/ ExtendExpiry(r)
  \/ Revoke(r) \/ FindSeat(r) \/ AddSeat(r) \/ MarkAccepted(r) \/ Audit(r)

\* The invite-expiry-sweep job has an empty body (shipped-jobs.ts), hence no action.
Next ==
  \/ Tick \/ DeleteOrg \/ RestoreOrg
  \/ \E p \in Person : RemoveMember(p) \/ AddMember(p)
  \/ \E r \in Request : Begin(r) \/ Fail(r) \/ Continue(r)

Spec == Init /\ [][Next]_vars

-----------------------------------------------------------------------------
\* A single-use token (SPEC.md:253): an invitation leads to one membership, unless it
\* changed under the acceptance or an acceptance broke off before it was marked.
SingleUse == \A i \in Invite : used[i] <= 1 \/ i \in stale \cup torn

\* Nobody is admitted by an invitation that is revoked, used or lapsed at that moment,
\* unless it became so after the acceptance had judged it.
AdmitsOnlyByOpen ==
  [][\A i \in Invite : used'[i] # used[i] => (Pending(i) /\ ~IsExpired(i)) \/ i \in stale]_vars

\* A revocation that was audited is in force, unless an acceptance was under way.
RevocationHolds ==
  \A i \in Invite :
    [action |-> "invite.revoked", invite |-> i] \in audit => invite[i].status = "revoked"
                                                            \/ i \in stale

\* An invitation once accepted or revoked never becomes pending again, not even by a
\* resend that read it while it was.
ClosedStaysClosed ==
  [][\A i \in Invite : invite[i].status \in {"accepted", "revoked"} => ~Pending(i)']_vars

\* An invitation that led to a membership is closed, or about to be.
ClosedOnceUsed ==
  \A i \in Invite :
    used[i] > 0 /\ Pending(i) =>
      i \in torn \/ \E q \in Request : req[q].pc = "mark" /\ req[q].invite = i

\* assertInvitable: at most one pending invitation for an address, unless two creations
\* overlapped.
OnePendingPerAddress ==
  \A i, j \in Invite :
    Pending(i) /\ Pending(j) /\ invite[i].email = invite[j].email =>
      i = j \/ invite[i].email \in doubled

\* The audit log tells what happened, in order: a sent invitation was mailed, an accepted
\* one led to a membership and is audited before the membership is.  An invitation nobody
\* was mailed, which keeps its address from being invited, is one whose mail broke off.
AuditTellsTruth ==
  \A i \in Invite :
    /\ [action |-> "invite.sent", invite |-> i] \in audit => i \in mailed
    /\ [action |-> "invite.accepted", invite |-> i] \in audit => used[i] > 0
    /\ [action |-> "member.added", invite |-> i] \in audit =>
         [action |-> "invite.accepted", invite |-> i] \in audit
    /\ i \in Issued =>
         i \in mailed \cup unsent \/ \E q \in Request : req[q].pc = "send" /\ req[q].invite = i

\* The tickets handed out, with a membership counted from its insertion on
ticketState ==
  [i \in Invite |->
     CASE invite[i].status = "unborn" -> "unsent"
       [] invite[i].status = "revoked" -> "closed"
       [] OTHER -> IF used[i] > 0 THEN "used" ELSE "out"]

trusted == Invite \ (stale \cup torn)

T == INSTANCE Ticket WITH Id <- Invite, state <- ticketState, uses <- used

\* invitations.ts:3, "single-use": every invitation is a ticket, until it changes under
\* an acceptance or an acceptance of it breaks off.
TicketSpec == T!Spec

-----------------------------------------------------------------------------
\* The inductive invariant

WellFormed(c) ==
  /\ c.pc = "idle" => c.op = "none"
  /\ c.pc \in {"findPending", "insert"} => c.op = "create" /\ c.email \in Address
  /\ c.pc \in Steps \ {"idle", "findPending", "insert"} => c.invite \in Issued
  /\ c.pc \in {"findSeat", "addSeat", "mark"} => c.op = "accept"
  /\ c.op = "accept" => c.who \in Person /\ c.invite \in Issued

RequestInv == \A r \in Request : WellFormed(req[r])

\* An invitation not issued yet has left no trace; an issued one has an address.
TraceInv ==
  \A i \in Invite :
    /\ i \in Unborn => used[i] = 0
    /\ i \in Issued => invite[i].email \in Address

\* What an acceptance has judged still holds, unless the invitation is stale.
OpenInv ==
  \A i \in Invite \ stale : \A q \in Request :
    Accepting(q, i) => Pending(i) /\ ~IsExpired(i)

MarkingInv == \A q \in Request : req[q].pc = "mark" => used[req[q].invite] > 0

\* Two acceptances of one invitation never both insert, and none starts once it is used.
UseInv ==
  \A i \in Invite \ (stale \cup torn) :
    /\ used[i] <= 1
    /\ \A p, q \in Request :
         req[p].pc = "mark" /\ req[q].pc = "mark" /\ req[p].invite = i /\ req[q].invite = i
           => p = q

RevokeInv ==
  \A q \in Request :
    req[q].pc = "auditRevoked" =>
      invite[req[q].invite].status = "revoked" \/ req[q].invite \in stale

\* A creation about to insert is the first for its address, or one that overlapped.
InsertInv ==
  \A q \in Request : req[q].pc = "insert" =>
    \A i \in Invite :
      Pending(i) /\ invite[i].email = req[q].email => req[q].email \in doubled

AuditInv ==
  \A q \in Request :
    /\ req[q].pc = "auditSent" => req[q].invite \in mailed
    /\ req[q].pc \in {"auditAccepted", "auditAdded"} => used[req[q].invite] > 0
    /\ req[q].pc = "auditAdded" =>
         [action |-> "invite.accepted", invite |-> req[q].invite] \in audit

IInv ==
  /\ TypeOK /\ RequestInv /\ TraceInv
  /\ OpenInv /\ MarkingInv /\ UseInv /\ ClosedOnceUsed
  /\ RevokeInv /\ RevocationHolds
  /\ InsertInv /\ OnePendingPerAddress
  /\ AuditInv /\ AuditTellsTruth
=============================================================================
