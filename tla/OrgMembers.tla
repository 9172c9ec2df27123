----------------------------- MODULE OrgMembers -----------------------------
(***************************************************************************)
(* The membership table of one organization and the request handlers that  *)
(* write it: admin-create, role change, removal, ownership transfer, soft  *)
(* deletion, invitation acceptance, and the operator's `org restore`       *)
(* (apps/api/src/routes/orgs/*, ops/src/commands/org.ts), and the          *)
(* acceptance of better-auth's organization plugin, which is the one the   *)
(* web application calls (apps/web/src/lib/auth-client.ts).                *)
(*                                                                         *)
(* Every repository call of a handler is one autocommitted SQL statement   *)
(* and every `await` lets another request run, so an action is one such    *)
(* statement together with the synchronous code up to the next one.  The   *)
(* control state of a request, with the row values it has read, is kept in *)
(* req.  Statements of acceptance on the invitation row are Invitations'.  *)
(***************************************************************************)
EXTENDS Naturals, FiniteSets

CONSTANTS
  User,      \* user rows, identified with the email address as it is stored
  Lowered,   \* the address better-auth makes of each: it looks up and stores only those
  NoUser,    \* the holder of a membership id that was never issued
  Member,    \* membership row ids (uuidv7: never issued twice)
  NoMember,  \* the value of a request field that names no row
  Request,   \* the requests in flight at once
  Offered,   \* the operations callers send (all of Ops, or those a run is about)
  Faults     \* whether a statement may fail or the process crash in a handler

ASSUME MemberFinite == IsFiniteSet(Member)
ASSUME LoweredAddresses ==
  Lowered \in [User -> User] /\ \A u \in User : Lowered[Lowered[u]] = Lowered[u]
ASSUME NoUserFresh == NoUser \notin User
ASSUME NoMemberFresh == NoMember \notin Member
ASSUME OfferedOps == Offered \subseteq
  {"changeRole", "removeMember", "createMember", "transfer", "deleteOrg", "accept", "join", "restore"}
ASSUME FaultsBool == Faults \in BOOLEAN

VARIABLES
  orgType,     \* organization.type
  org,         \* "live", "deleted" (deleted_at set), "lapsed" (for over 30 days)
  account,     \* user table: who signed up and who was created by an admin
  mailed,      \* users sent the set-password mail
  role,        \* member.role of each row, "none" when there is no such row
  holder,      \* member.user_id of each row ever inserted
  audit,       \* audit_log rows about this organization
  req,         \* the requests in flight
  interfered,  \* history: an owner was lost inside another request's check-to-write
  doubled,     \* history: users added inside another addition of them
  rejoined,    \* history: members already whom better-auth's acceptance added again
  stranded     \* history: users whose creation broke off before their mail was sent

vars == <<orgType, org, account, mailed, role, holder, audit, req, interfered, doubled, rejoined,
          stranded>>
database == <<orgType, org, account, mailed, role, holder, audit>>
history == <<interfered, doubled, rejoined, stranded>>

Roles == {"owner", "admin", "member"}

RoleOps == {"changeRole", "removeMember"}
MemberOps == RoleOps \cup {"createMember"}
OrgOps == {"transfer", "deleteOrg"}
AddOps == {"createMember", "accept", "join"}
Ops == MemberOps \cup OrgOps \cup {"accept", "join", "restore"}

Steps == {"idle", "findOrg", "findMembership", "findTarget", "listOwners", "write",
          "promote", "demote", "softDelete", "findUser", "findExisting", "createUser",
          "addMember", "sendSetPassword", "findDeleted", "clearDeleted", "audit"}

RequestState ==
  [pc : Steps, op : Ops \cup {"none"},
   actor : User \cup {NoUser},        \* the caller, until authorized
   target : Member \cup {NoMember},   \* the row the request is about
   self : Member \cup {NoMember},     \* the row a transfer authorized, to be demoted
   subject : User \cup {NoUser},      \* the user to add
   to : Roles \cup {"none"},          \* the role to write
   seen : Roles \cup {"none"},        \* the role read from the target's row
   created : BOOLEAN]                 \* the request inserted the user it adds

Idle ==
  [pc |-> "idle", op |-> "none", actor |-> NoUser, target |-> NoMember,
   self |-> NoMember, subject |-> NoUser, to |-> "none", seen |-> "none",
   created |-> FALSE]

AuditRow ==
  [action : {"member.added", "member.removed", "member.role_changed"}, target : Member]
    \cup [action : {"org.ownership_transferred", "org.deleted", "org.restored"},
          target : {NoMember}]

TypeOK ==
  /\ orgType \in {"personal", "team"}
  /\ org \in {"live", "deleted", "lapsed"}
  /\ account \in [User -> {"none", "signedUp", "created"}]
  /\ mailed \in SUBSET User
  /\ role \in [Member -> Roles \cup {"none"}]
  /\ holder \in [Member -> User \cup {NoUser}]
  /\ audit \in SUBSET AuditRow
  /\ req \in [Request -> RequestState]
  /\ interfered \in BOOLEAN
  /\ doubled \in SUBSET User
  /\ rejoined \in SUBSET User
  /\ stranded \in SUBSET User

-----------------------------------------------------------------------------
Live == {m \in Member : role[m] # "none"}
Owners == {m \in Member : role[m] = "owner"}
RowsOf(u) == {m \in Live : holder[m] = u}
Issued == {m \in Member : holder[m] # NoUser}
Unissued == Member \ Issued

\* The built-in owner role grants every permission, admin all of them but the
\* two ownership-guarded ones, and member only the read permissions.
Grants(r, op) == r = "owner" \/ (r = "admin" /\ op \notin OrgOps)

\* findOrgById, and the members surface a personal org does not have
OrgVisible(op) == org = "live" /\ (op \in MemberOps => orgType = "team")

\* mutant: off by one
WouldRemoveNoOwner(currentRole, ownerCount, nextRole) ==
  currentRole = "owner" /\ nextRole # "owner" /\ ownerCount < 1

WouldRemoveLastOwner(currentRole, ownerCount, nextRole) ==
  currentRole = "owner" /\ nextRole # "owner" /\ ownerCount <= 1

Goto(r, step) == req' = [req EXCEPT ![r].pc = step]
Finish(r) == req' = [req EXCEPT ![r] = Idle]
Log(action, m) == audit' = audit \cup {[action |-> action, target |-> m]}

\* A request between the read its owner check is about and the write the
\* check allowed, when that write can cost the organization an owner.
Reducing(r) ==
  \/ req[r].op \in RoleOps /\ req[r].to # "owner" /\ req[r].pc \in {"listOwners", "write"}
  \/ req[r].pc = "demote"

\* r writes row m, after which the row is not an owner's
Interferes(r, m) == role[m] = "owner" /\ \E q \in Request \ {r} : Reducing(q)

\* r inserts a row for a user that another request has found to have none
Doubles(r) ==
  \E q \in Request \ {r} : req[q].pc = "addMember" /\ req[q].subject = req[r].subject

-----------------------------------------------------------------------------
\* createOrgWithOwner: the organization and its owner's row in one transaction
Init ==
  /\ orgType \in {"personal", "team"}
  /\ org = "live"
  /\ mailed = {}
  /\ audit = {}
  /\ req = [r \in Request |-> Idle]
  /\ interfered = FALSE
  /\ doubled = {}
  /\ rejoined = {}
  /\ stranded = {}
  /\ \E u \in User, m \in Member :
       /\ Lowered[u] = u
       /\ account = [v \in User |-> IF v = u THEN "signedUp" ELSE "none"]
       /\ role = [n \in Member |-> IF n = m THEN "owner" ELSE "none"]
       /\ holder = [n \in Member |-> IF n = m THEN u ELSE NoUser]

SignUp(u) ==
  /\ Lowered[u] = u
  /\ account[u] = "none"
  /\ account' = [account EXCEPT ![u] = "signedUp"]
  /\ UNCHANGED <<orgType, org, mailed, role, holder, audit, req, history>>

\* deleted_at grows older than the 30-day retention window
RetentionLapses ==
  /\ org = "deleted"
  /\ org' = "lapsed"
  /\ UNCHANGED <<orgType, account, mailed, role, holder, audit, req, history>>

\* What a caller may send: a membership id comes from an earlier response, an
\* invitee's role is never owner, a personal org has no invitations to accept,
\* and the operator's command has no session.  better-auth's acceptance ("join")
\* goes from the invitation, which it marks, to the insert.
FirstStep(op) ==
  CASE op = "accept" -> "findExisting"
    [] op = "join" -> "addMember"
    [] OTHER -> "findOrg"

Call(op, u, m, v, t) ==
  [pc |-> FirstStep(op), op |-> op, actor |-> u, target |-> m, self |-> NoMember,
   subject |-> v, to |-> t, seen |-> "none", created |-> FALSE]

Calls(u) ==
  {Call("changeRole", u, m, NoUser, t) : m \in Issued, t \in Roles}
    \cup {Call(op, u, m, NoUser, "none") : op \in {"removeMember", "transfer"}, m \in Issued}
    \cup {Call("createMember", u, NoMember, v, t) : v \in User, t \in {"admin", "member"}}
    \cup {Call("deleteOrg", u, NoMember, NoUser, "none")}
    \cup {Call(op, u, NoMember, u, t) :
             op \in {"accept", "join"}, t \in IF orgType = "team" THEN {"admin", "member"} ELSE {}}

Restore == [Idle EXCEPT !.pc = "findDeleted", !.op = "restore"]

\* Bound: there is an unissued row for every request that may insert one.
RowsLeft == Cardinality({q \in Request : req[q].subject # NoUser}) < Cardinality(Unissued)

\* The callers are those who can sign in: better-auth finds a lowered address only.
Begin(r) ==
  /\ req[r].pc = "idle"
  /\ \/ \E u \in User : account[u] # "none" /\ Lowered[u] = u /\ \E c \in Calls(u) :
          /\ c.op \in Offered
          /\ c.subject # NoUser => RowsLeft
          /\ req' = [req EXCEPT ![r] = c]
     \/ "restore" \in Offered /\ req' = [req EXCEPT ![r] = Restore]
  /\ UNCHANGED <<database, history>>

\* A statement throws or the process stops: the handler writes nothing more.
Fail(r) ==
  /\ Faults
  /\ req[r].pc # "idle"
  /\ Finish(r)
  /\ stranded' = IF req[r].created /\ req[r].pc # "audit" THEN stranded \cup {req[r].subject}
                 ELSE stranded
  /\ UNCHANGED <<database, interfered, doubled, rejoined>>

-----------------------------------------------------------------------------
\* authorizeOrg: the organization, then the caller's membership and permission
FindOrg(r) ==
  /\ req[r].pc = "findOrg"
  /\ IF OrgVisible(req[r].op) THEN Goto(r, "findMembership") ELSE Finish(r)
  /\ UNCHANGED <<database, history>>

Authorized(op) ==
  CASE op = "createMember" -> "findUser"
    [] op = "deleteOrg" -> "softDelete"
    [] OTHER -> "findTarget"

\* The statement has no ORDER BY: any of the caller's rows may come first.
FindMembership(r) ==
  /\ req[r].pc = "findMembership"
  /\ \/ RowsOf(req[r].actor) = {} /\ Finish(r)
     \/ \E m \in RowsOf(req[r].actor) :
          \/ /\ Grants(role[m], req[r].op)
             /\ req' = [req EXCEPT ![r].pc = Authorized(req[r].op), ![r].actor = NoUser,
                                   ![r].self = IF req[r].op = "transfer" THEN m ELSE NoMember]
          \/ ~Grants(role[m], req[r].op) /\ Finish(r)
  /\ UNCHANGED <<database, history>>

\* requireMember (404), or the transfer's own lookup (409, also for oneself)
FindTarget(r) ==
  /\ req[r].pc = "findTarget"
  /\ \/ /\ role[req[r].target] = "none" \/ (req[r].op = "transfer" /\ req[r].target = req[r].self)
        /\ Finish(r)
     \/ /\ role[req[r].target] # "none"
        /\ req[r].op = "transfer" => req[r].target # req[r].self
        /\ req' = [req EXCEPT ![r].seen = role[req[r].target],
                              ![r].pc = IF req[r].op = "transfer" THEN "promote" ELSE "listOwners"]
  /\ UNCHANGED <<database, history>>

ListOwners(r) ==
  /\ req[r].pc = "listOwners"
  /\ IF WouldRemoveLastOwner(req[r].seen, Cardinality(Owners), req[r].to)
       THEN Finish(r) ELSE Goto(r, "write")
  /\ UNCHANGED <<database, history>>

\* UPDATE member SET role ... RETURNING: no row returned makes toMemberRow throw
UpdateRole(r, m, to, next) ==
  /\ IF role[m] = "none"
       THEN Finish(r) /\ UNCHANGED <<role, interfered>>
       ELSE /\ role' = [role EXCEPT ![m] = to]
            /\ interfered' = (interfered \/ (to # "owner" /\ Interferes(r, m)))
            /\ Goto(r, next)
  /\ UNCHANGED <<orgType, org, account, mailed, holder, audit, doubled, rejoined, stranded>>

ChangeRole(r) ==
  /\ req[r].pc = "write" /\ req[r].op = "changeRole"
  /\ UpdateRole(r, req[r].target, req[r].to, "audit")

\* DELETE of a row that is gone already is no error, and is audited all the same
DeleteMember(r) ==
  /\ req[r].pc = "write" /\ req[r].op = "removeMember"
  /\ role' = [role EXCEPT ![req[r].target] = "none"]
  /\ interfered' = (interfered \/ Interferes(r, req[r].target))
  /\ Goto(r, "audit")
  /\ UNCHANGED <<orgType, org, account, mailed, holder, audit, doubled, rejoined, stranded>>

\* mutant: the transfer demotes the caller before it promotes the target
DemoteFirst(r) == req[r].pc = "promote" /\ UpdateRole(r, req[r].self, "admin", "demote")

\* Ownership transfer: promote the target, then demote the caller's own row
Promote(r) == req[r].pc = "promote" /\ UpdateRole(r, req[r].target, "owner", "demote")
Demote(r) == req[r].pc = "demote" /\ UpdateRole(r, req[r].self, "admin", "audit")

\* The echoed name does not match (422), or deleted_at is set to now
SoftDelete(r) ==
  /\ req[r].pc = "softDelete"
  /\ \/ Finish(r) /\ UNCHANGED org
     \/ Goto(r, "audit") /\ org' = "deleted"
  /\ UNCHANGED <<orgType, account, mailed, role, holder, audit, history>>

-----------------------------------------------------------------------------
\* addOrCreateMember, and the part of acceptance that touches this table
FindUser(r) ==
  /\ req[r].pc = "findUser"
  /\ Goto(r, IF account[req[r].subject] = "none" THEN "createUser" ELSE "findExisting")
  /\ UNCHANGED <<database, history>>

\* mutant: no membership check
FindNothing(r) ==
  /\ req[r].pc = "findExisting"
  /\ Goto(r, "addMember")
  /\ UNCHANGED <<database, history>>

FindExisting(r) ==
  /\ req[r].pc = "findExisting"
  /\ IF RowsOf(req[r].subject) # {} THEN Finish(r) ELSE Goto(r, "addMember")
  /\ UNCHANGED <<database, history>>

\* user.email is UNIQUE: an account made since FindUser fails the insert (500)
CreateUser(r) ==
  /\ req[r].pc = "createUser"
  /\ IF account[req[r].subject] # "none"
       THEN Finish(r) /\ UNCHANGED account
       ELSE /\ account' = [account EXCEPT ![req[r].subject] = "created"]
            /\ req' = [req EXCEPT ![r].pc = "addMember", ![r].created = TRUE]
  /\ UNCHANGED <<orgType, org, mailed, role, holder, audit, history>>

\* addMember: a fresh uuid, and no constraint on (organization_id, user_id)
Insert(r, m) ==
  /\ role' = [role EXCEPT ![m] = req[r].to]
  /\ holder' = [holder EXCEPT ![m] = req[r].subject]
  /\ doubled' = IF Doubles(r) THEN doubled \cup {req[r].subject} ELSE doubled

AddMember(r) ==
  /\ req[r].pc = "addMember" /\ req[r].op # "join"
  /\ \E m \in Unissued :
       /\ Insert(r, m)
       /\ req' = [req EXCEPT ![r].target = m,
                             ![r].pc = IF req[r].created THEN "sendSetPassword" ELSE "audit"]
  /\ UNCHANGED <<orgType, org, account, mailed, audit, interfered, rejoined, stranded>>

\* better-auth's acceptance inserts its row without looking for an existing one,
\* and writes no audit row.
Join(r) ==
  /\ req[r].pc = "addMember" /\ req[r].op = "join"
  /\ \E m \in Unissued : Insert(r, m)
  /\ rejoined' = rejoined \cup {u \in {req[r].subject} : RowsOf(u) # {}}
  /\ Finish(r)
  /\ UNCHANGED <<orgType, org, account, mailed, audit, interfered, stranded>>

\* mutant: the link is only sent to accounts that signed up themselves
SendToSignedUp(r) ==
  /\ req[r].pc = "sendSetPassword"
  /\ mailed' = mailed \cup {u \in {req[r].subject} : account[u] = "signedUp"}
  /\ Goto(r, "audit")
  /\ UNCHANGED <<orgType, org, account, role, holder, audit, history>>

\* better-auth looks the lowered address up, and answers 200 whether or not it
\* finds somebody to mail.
SendSetPassword(r) ==
  /\ req[r].pc = "sendSetPassword"
  /\ mailed' = mailed \cup {u \in {Lowered[req[r].subject]} : account[u] # "none"}
  /\ Goto(r, "audit")
  /\ UNCHANGED <<orgType, org, account, role, holder, audit, history>>

-----------------------------------------------------------------------------
\* `org restore`: refused for a live organization and after the retention window
FindDeleted(r) ==
  /\ req[r].pc = "findDeleted"
  /\ IF org = "deleted" THEN Goto(r, "clearDeleted") ELSE Finish(r)
  /\ UNCHANGED <<database, history>>

ClearDeleted(r) ==
  /\ req[r].pc = "clearDeleted"
  /\ org' = "live"
  /\ Goto(r, "audit")
  /\ UNCHANGED <<orgType, account, mailed, role, holder, audit, history>>

AuditAction(op) ==
  CASE op = "changeRole" -> "member.role_changed"
    [] op = "removeMember" -> "member.removed"
    [] op \in {"createMember", "accept"} -> "member.added"
    [] op = "transfer" -> "org.ownership_transferred"
    [] op = "deleteOrg" -> "org.deleted"
    [] OTHER -> "org.restored"

\* mutant: every audit row is written about the organization
AuditOrg(r) ==
  /\ req[r].pc = "audit"
  /\ Log(AuditAction(req[r].op), NoMember)
  /\ Finish(r)
  /\ UNCHANGED <<orgType, org, account, mailed, role, holder, history>>

\* The audit row is written last, after the change it describes.
Audit(r) ==
  /\ req[r].pc = "audit"
  /\ Log(AuditAction(req[r].op),
         IF req[r].op \in MemberOps \cup {"accept"} THEN req[r].target ELSE NoMember)
  /\ Finish(r)
  /\ UNCHANGED <<orgType, org, account, mailed, role, holder, history>>

-----------------------------------------------------------------------------
Handle(r) ==
  \/ Begin(r) \/ Fail(r) \/ FindOrg(r) \/ FindMembership(r) \/ FindTarget(r)
  \/ ListOwners(r) \/ ChangeRole(r) \/ DeleteMember(r) \/ Promote(r) \/ Demote(r)
  \/ SoftDelete(r) \/ FindUser(r) \/ FindExisting(r) \/ CreateUser(r) \/ AddMember(r)
  \/ Join(r) \/ SendSetPassword(r) \/ FindDeleted(r) \/ ClearDeleted(r) \/ Audit(r)

Next ==
  \/ \E u \in User : SignUp(u)
  \/ RetentionLapses
  \/ \E r \in Request : Handle(r)

Spec == Init /\ [][Next]_vars

-----------------------------------------------------------------------------
\* The organization has an owner.  members.ts and transfer-ownership.ts say the
\* handlers preserve this; two overlapping requests do not.
AtLeastOneOwner == Owners # {}

\* The organization loses its last owner only if some request took an owner away
\* between another request's owner check and the write it allowed (or between
\* the two writes of a transfer): joins, promotions, acceptances, deletion,
\* restores and failures at any point never contribute.
LastOwnerLostOnlyByInterference == ~interfered => AtLeastOneOwner

OneRow(u) == \A m, n \in RowsOf(u) : m = n

\* What the table promises (OwnedOrg).  Overlapping handlers, failing between any two of
\* their statements, keep the promise write by write until two of them interfere.
Owned == INSTANCE OwnedOrg WITH issued <- Issued

OwnedUnlessInterfered ==
  Owned!Init /\ [][interfered' \/ Owned!Next]_<<role, Issued>>

\* A user has two membership rows only if two requests that add that user
\* overlapped between the check and the insert, or if better-auth's acceptance,
\* which checks nothing, added somebody who was a member by then: the 409 "already
\* a member" of addOrCreateMember and of the API's acceptance covers every other order.
DuplicateOnlyUnchecked == \A u \in User \ (doubled \cup rejoined) : OneRow(u)

\* A personal organization keeps exactly the one member it was created with,
\* whatever requests its owner sends: no handler adds, removes or changes it.
PersonalOrgIsSolo ==
  orgType = "personal" => \E m \in Member : Live = {m} /\ Owners = {m}

\* What the audit log says happened did, and is not undone behind its back: a
\* row logged as removed is gone for good, and every row named was inserted.
AuditNamesRealChanges ==
  \A a \in audit :
    /\ a.action = "member.removed" => role[a.target] = "none"
    /\ a.target # NoMember => a.target \in Issued

\* An account made by an admin is mailed its set-password link, unless the request that
\* made it is still on its way there or broke off on it, or its address was typed with
\* capitals: that is stored as typed, and the reset does not find it.
CreatedAccountsAreOnboarded ==
  \A u \in User : account[u] = "created" =>
    \/ Lowered[u] # u
    \/ u \in mailed \cup stranded
    \/ \E r \in Request : req[r].created /\ req[r].subject = u

-----------------------------------------------------------------------------
(***************************************************************************)
(* The inductive invariant behind the safety properties, part by part.     *)
(***************************************************************************)

\* What a request's control state says of its operation and its inputs
WellFormed(q) ==
  /\ q.op = "none" <=> q.pc = "idle"
  /\ q.pc \in {"findOrg", "findMembership"} => q.op \in MemberOps \cup OrgOps
  /\ q.pc = "findTarget" => q.op \in RoleOps \cup {"transfer"}
  /\ q.pc \in {"listOwners", "write"} => q.op \in RoleOps
  /\ q.pc \in {"promote", "demote"} => q.op = "transfer" /\ q.target # q.self
  /\ q.pc \in {"findTarget", "promote", "demote"} /\ q.op = "transfer" => q.self \in Member
  /\ q.pc \in {"findUser", "createUser"} => q.op = "createMember"
  /\ q.pc = "findExisting" => q.op \in {"createMember", "accept"}
  /\ q.pc = "addMember" => q.op \in AddOps
  /\ q.pc = "sendSetPassword" => q.op = "createMember"
  /\ q.op = "join" => q.pc = "addMember"
  /\ q.pc = "softDelete" => q.op = "deleteOrg"
  /\ q.pc \in {"findDeleted", "clearDeleted"} => q.op = "restore"
  /\ q.op \in RoleOps \cup {"transfer"} => q.target \in Issued
  /\ q.op \in {"createMember", "accept"} /\ q.pc \in {"sendSetPassword", "audit"} => q.target \in Issued
  /\ q.op = "removeMember" => q.to = "none"
  /\ q.op = "changeRole" => q.to # "none"
  /\ q.op \in AddOps => q.subject \in User /\ q.to \in {"admin", "member"}
  /\ q.created => q.op = "createMember" /\ q.pc \in {"addMember", "sendSetPassword", "audit"}

RequestInv == \A r \in Request : WellFormed(req[r])

RowsInv == Live \subseteq Issued

\* While an owner can be lost only by this request's own write, another owner
\* is there for it to leave behind.
LeavesOwner(q) ==
  /\ /\ q.op \in RoleOps /\ q.to # "owner"
     /\ q.pc = "write" \/ (q.pc = "listOwners" /\ q.seen # "owner")
     => Owners \ {q.target} # {}
  /\ q.pc = "demote" => q.target \in Owners

OwnerInv ==
  ~interfered => AtLeastOneOwner /\ \A r \in Request : LeavesOwner(req[r])

\* Rows belong to users with accounts, and a user found to have no row has none.
AccountInv ==
  /\ \A m \in Issued : account[holder[m]] # "none"
  /\ \A r \in Request :
       req[r].pc \in {"findExisting", "addMember", "sendSetPassword"} => account[req[r].subject] # "none"

\* A request that checked, and is about to add a user, still finds the user without a row.
JoinInv ==
  /\ DuplicateOnlyUnchecked
  /\ \A r \in Request :
       req[r].pc = "addMember" /\ req[r].op # "join" /\ req[r].subject \notin doubled
         => RowsOf(req[r].subject) = {}

AuditInv ==
  /\ AuditNamesRealChanges
  /\ \A r \in Request :
       req[r].pc = "audit" /\ req[r].op = "removeMember" => role[req[r].target] = "none"

\* In a personal organization only transfer and deletion get past the
\* authorization, and a transfer not past its target lookup.
PersonalInv ==
  /\ PersonalOrgIsSolo
  /\ orgType = "personal" => \A r \in Request :
       req[r].pc \in {"idle", "findOrg", "findMembership", "findTarget", "softDelete",
                      "findDeleted", "clearDeleted", "audit"}
       /\ req[r].op \notin {"accept", "join"}
       /\ (req[r].pc \in {"findMembership", "findTarget"} => req[r].op \in OrgOps)
       /\ (req[r].pc = "findTarget" => req[r].self \in Live)

\* A request that has made an account goes on to its mail, and ends after it.
OnboardInv ==
  /\ CreatedAccountsAreOnboarded
  /\ \A r \in Request : req[r].created /\ req[r].pc = "audit" =>
       Lowered[req[r].subject] # req[r].subject \/ req[r].subject \in mailed

IInv ==
  /\ RequestInv /\ RowsInv /\ OwnerInv /\ AccountInv /\ JoinInv /\ AuditInv /\ PersonalInv
  /\ OnboardInv

=============================================================================
