-------------------------- MODULE OrgMembersProofs --------------------------
(***************************************************************************)
(* Proofs about OrgMembers for any number of users, rows and requests.     *)
(***************************************************************************)
EXTENDS OrgMembers, TLAPS, FiniteSetTheorems

\* The next control state of a request is a request state again.
LEMMA GotoType ==
  ASSUME NEW r \in Request, NEW step \in Steps,
         req \in [Request -> RequestState], Goto(r, step)
  PROVE  req' \in [Request -> RequestState]
BY DEF Goto, RequestState

\* ... with its step changed and nothing else of it.
LEMMA GotoFields ==
  ASSUME NEW r \in Request, NEW step \in Steps,
         req \in [Request -> RequestState], Goto(r, step)
  PROVE  /\ req'[r].pc = step /\ req'[r].op = req[r].op /\ req'[r].target = req[r].target
         /\ req'[r].self = req[r].self /\ req'[r].subject = req[r].subject
         /\ req'[r].to = req[r].to /\ req'[r].seen = req[r].seen
         /\ req'[r].created = req[r].created
BY DEF Goto, RequestState

LEMMA FinishType ==
  ASSUME NEW r \in Request, req \in [Request -> RequestState], Finish(r)
  PROVE  req' \in [Request -> RequestState]
<1>1. Idle \in RequestState
  BY DEF Idle, RequestState, Steps
<1>. QED
  BY <1>1 DEF Finish

LEMMA CallsType ==
  ASSUME NEW u \in User
  PROVE  Calls(u) \subseteq RequestState
<1>1. ASSUME NEW op \in Ops, NEW m \in Member \cup {NoMember}, NEW v \in User \cup {NoUser},
             NEW t \in Roles \cup {"none"}
      PROVE  Call(op, u, m, v, t) \in RequestState
  BY DEF Call, FirstStep, RequestState, Steps
<1>. QED
  BY <1>1 DEF Calls, Issued, Ops, MemberOps, RoleOps, OrgOps, Roles

LEMMA UpdateRoleType ==
  ASSUME NEW r \in Request, NEW m \in Member, NEW to \in Roles \cup {"none"}, NEW next \in Steps,
         TypeOK, UpdateRole(r, m, to, next)
  PROVE  TypeOK'
<1>1. req' \in [Request -> RequestState]
  BY GotoType, FinishType DEF UpdateRole, TypeOK
<1>2. role' \in [Member -> Roles \cup {"none"}]
  BY DEF UpdateRole, TypeOK
<1>3. interfered' \in BOOLEAN
  BY DEF UpdateRole, TypeOK
<1>. QED
  BY <1>1, <1>2, <1>3 DEF UpdateRole, TypeOK

LEMMA LogType ==
  ASSUME NEW op \in Ops, NEW m \in Member \cup {NoMember}, audit \in SUBSET AuditRow,
         op \in MemberOps \cup {"accept"} => m \in Member,
         Log(AuditAction(op), IF op \in MemberOps \cup {"accept"} THEN m ELSE NoMember)
  PROVE  audit' \in SUBSET AuditRow
BY DEF Log, AuditAction, AuditRow, Ops, MemberOps, RoleOps, OrgOps

-----------------------------------------------------------------------------
\* Every variable keeps its type.  The step needs RequestInv: the rows a request
\* writes and logs are rows.
LEMMA TypeInit == Init => TypeOK
<1>1. Idle \in RequestState
  BY DEF Idle, RequestState, Steps
<1>2. ASSUME Init, NEW u \in User, NEW m \in Member,
             account = [v \in User |-> IF v = u THEN "signedUp" ELSE "none"],
             role = [n \in Member |-> IF n = m THEN "owner" ELSE "none"],
             holder = [n \in Member |-> IF n = m THEN u ELSE NoUser]
      PROVE  TypeOK
  <2>1. req \in [Request -> RequestState]
    BY <1>1, <1>2 DEF Init
  <2>2. account \in [User -> {"none", "signedUp", "created"}]
    BY <1>2
  <2>3. role \in [Member -> Roles \cup {"none"}] /\ holder \in [Member -> User \cup {NoUser}]
    BY <1>2 DEF Roles
  <2>. QED
    BY <1>2, <2>1, <2>2, <2>3 DEF Init, TypeOK
<1>. QED
  BY <1>2 DEF Init

LEMMA TypeStep ==
  ASSUME TypeOK, RequestInv, NEW r \in Request, Handle(r)
  PROVE  TypeOK'
<1>. USE DEF TypeOK
<1>1. CASE Begin(r)
  <2>1. Restore \in RequestState
    BY DEF Restore, Idle, RequestState, Steps, Ops
  <2>. QED
    BY <1>1, <2>1, CallsType DEF Begin, database, history
<1>13. CASE Fail(r)
  <2>1. stranded' \in SUBSET User
    BY <1>13 DEF Fail, RequestInv, WellFormed, AddOps
  <2>. QED
    BY <1>13, <2>1, FinishType DEF Fail, database
<1>2. CASE FindOrg(r) \/ ListOwners(r) \/ FindUser(r) \/ FindExisting(r) \/ FindDeleted(r)
  BY <1>2, FinishType, GotoType
  DEF FindOrg, ListOwners, FindUser, FindExisting, FindDeleted, database, history, Steps
<1>3. CASE FindMembership(r)
  BY <1>3, FinishType
  DEF FindMembership, Authorized, RequestState, RowsOf, Live, database, history, Steps
<1>4. CASE FindTarget(r)
  BY <1>4, FinishType
  DEF FindTarget, RequestInv, WellFormed, RequestState, database, history, Steps, RoleOps
<1>5. CASE ChangeRole(r) \/ Promote(r) \/ Demote(r)
  BY <1>5, UpdateRoleType
  DEF ChangeRole, Promote, Demote, RequestInv, WellFormed, Issued, RequestState, Steps, Roles, RoleOps
<1>6. CASE DeleteMember(r)
  BY <1>6, GotoType DEF DeleteMember, Steps, Roles
<1>7. CASE SoftDelete(r)
  BY <1>7, FinishType, GotoType DEF SoftDelete, Steps, history
<1>8. CASE CreateUser(r)
  BY <1>8, FinishType DEF CreateUser, RequestState, Steps, history
<1>. req[r].pc = "addMember" => req[r].subject \in User /\ req[r].to \in Roles
  BY DEF RequestInv, WellFormed, Roles, AddOps
<1>9. CASE AddMember(r)
  BY <1>9 DEF AddMember, Insert, RequestState, Steps, Roles, Unissued, Issued
<1>14. CASE Join(r)
  <2>1. req' \in [Request -> RequestState]
    BY <1>14, FinishType DEF Join
  <2>2. rejoined' \in SUBSET User /\ doubled' \in SUBSET User
    BY <1>14 DEF Join, Insert
  <2>. QED
    BY <1>14, <2>1, <2>2 DEF Join, Insert, Unissued, Roles
<1>10. CASE SendSetPassword(r)
  BY <1>10, GotoType, LoweredAddresses
  DEF SendSetPassword, RequestInv, WellFormed, RequestState, Steps, AddOps, history
<1>11. CASE ClearDeleted(r)
  BY <1>11, GotoType DEF ClearDeleted, Steps, history
<1>12. CASE Audit(r)
  BY <1>12, FinishType, LogType DEF Audit, Issued, RequestInv, WellFormed, RequestState, Ops, MemberOps, RoleOps, history
<1>. QED
  BY <1>1, <1>2, <1>3, <1>4, <1>5, <1>6, <1>7, <1>8, <1>9, <1>10, <1>11, <1>12, <1>13, <1>14 DEF Handle

-----------------------------------------------------------------------------
LEMMA OtherRequests ==
  ASSUME TypeOK, NEW r \in Request, Handle(r), NEW q \in Request \ {r}
  PROVE  req'[q] = req[q]
BY DEF Handle, Begin, Fail, FindOrg, FindMembership, FindTarget, ListOwners, ChangeRole,
   DeleteMember, Promote, Demote, UpdateRole, SoftDelete, FindUser, FindExisting, CreateUser,
   AddMember, Insert, Join, SendSetPassword, FindDeleted, ClearDeleted, Audit, Goto, Finish, TypeOK

LEMMA IssuedGrows ==
  ASSUME TypeOK, RequestInv, NEW r \in Request, Handle(r)
  PROVE  Issued \subseteq Issued'
<1>1. CASE AddMember(r) \/ Join(r)
  <2>1. req[r].subject # NoUser
    BY <1>1, NoUserFresh DEF AddMember, Join, RequestInv, WellFormed, AddOps
  <2>. QED
    BY <1>1, <2>1 DEF AddMember, Join, Insert, TypeOK, Issued
<1>2. CASE ~AddMember(r) /\ ~Join(r)
  <2>1. UNCHANGED holder
    BY <1>2 DEF Handle, Begin, Fail, FindOrg, FindMembership, FindTarget, ListOwners, ChangeRole,
       DeleteMember, Promote, Demote, UpdateRole, SoftDelete, FindUser, FindExisting, CreateUser,
       SendSetPassword, FindDeleted, ClearDeleted, Audit, database
  <2>. QED
    BY <2>1 DEF Issued
<1>. QED
  BY <1>1, <1>2

LEMMA WellFormedIdle == WellFormed(Idle)
BY DEF WellFormed, Idle, RoleOps, AddOps

\* A request stays well formed through its own steps and through those of
\* others, which only ever issue more rows.
LEMMA RequestStep ==
  ASSUME TypeOK, RequestInv, NEW r \in Request, Handle(r)
  PROVE  RequestInv'
<1>. SUFFICES ASSUME NEW q \in Request
              PROVE  WellFormed(req[q])'
  BY DEF RequestInv
<1>1. Issued \subseteq Issued'
  BY IssuedGrows
<1>2. WellFormed(req[q])
  BY DEF RequestInv
<1>3. CASE q # r
  BY <1>1, <1>2, <1>3, OtherRequests DEF WellFormed
<1>4. CASE q = r
  <2>. USE <1>1, <1>2, <1>4, GotoFields DEF WellFormed, TypeOK, MemberOps, OrgOps, RoleOps, AddOps
  <2>1. CASE req'[r] = Idle
    BY <2>1 DEF Idle
  <2>2. CASE Begin(r)
    <3>1. ASSUME NEW op \in Ops, NEW u, NEW m, NEW v, NEW t,
                 req'[r] = Call(op, u, m, v, t),
                 op \in RoleOps \cup {"transfer"} => m \in Issued',
                 op = "removeMember" => t = "none",
                 op = "changeRole" => t # "none",
                 op \in AddOps => v \in User /\ t \in {"admin", "member"},
                 op # "restore"
          PROVE  WellFormed(req[q])'
      BY <3>1 DEF Call, FirstStep, Ops
    <3>2. ASSUME NEW u \in User, NEW c \in Calls(u), req'[r] = c
          PROVE  WellFormed(req[q])'
      BY <3>1, <3>2 DEF Calls, Roles, Ops
    <3>3. CASE req'[r] = Restore
      BY <3>3 DEF Restore, Idle
    <3>. QED
      BY <2>2, <3>2, <3>3 DEF Begin
  <2>3. CASE FindOrg(r) /\ req'[r] # Idle
    <3>1. req[r].op \in MemberOps \cup OrgOps /\ req[r].op \notin {"none", "accept", "join", "restore"}
      BY <2>3 DEF FindOrg
    <3>2. Goto(r, "findMembership")
      BY <2>3 DEF FindOrg, Finish
    <3>3. /\ req'[r].pc = "findMembership" /\ req'[r].op = req[r].op
          /\ req'[r].target = req[r].target /\ req'[r].to = req[r].to
          /\ req'[r].subject = req[r].subject /\ req'[r].created = req[r].created
      BY <3>2 DEF Steps
    <3>4. ~req[r].created
      BY <2>3 DEF FindOrg
    <3>. QED
      BY ONLY <1>1, <1>2, <1>4, <3>1, <3>3, <3>4
      DEF WellFormed, MemberOps, OrgOps, RoleOps, AddOps
  <2>4. CASE FindMembership(r) /\ req'[r] # Idle
    <3>1. /\ req[r].op \in MemberOps \cup OrgOps /\ ~req[r].created
          /\ req[r].pc = "findMembership"
      BY <2>4 DEF FindMembership
    <3>2. PICK m \in Member :
            req' = [req EXCEPT ![r].pc = Authorized(req[r].op), ![r].actor = NoUser,
                               ![r].self = IF req[r].op = "transfer" THEN m ELSE NoMember]
      BY <2>4 DEF FindMembership, RowsOf, Live, Finish
    <3>3. /\ req'[r].pc = Authorized(req[r].op) /\ req'[r].op = req[r].op
          /\ req'[r].target = req[r].target /\ req'[r].to = req[r].to
          /\ req'[r].subject = req[r].subject /\ req'[r].created = req[r].created
          /\ req[r].op = "transfer" => req'[r].self \in Member
      BY <3>2 DEF RequestState
    <3>. QED
      BY ONLY <1>1, <1>2, <1>4, <3>1, <3>3
      DEF WellFormed, Authorized, MemberOps, OrgOps, RoleOps, AddOps
  <2>5. CASE FindTarget(r) /\ req'[r] # Idle
    BY <2>5 DEF FindTarget, Finish, RequestState
  <2>6. CASE ListOwners(r) /\ req'[r] # Idle
    BY <2>6 DEF ListOwners, Steps, Finish
  <2>7. CASE (ChangeRole(r) \/ Promote(r) \/ Demote(r)) /\ req'[r] # Idle
    BY <2>7 DEF ChangeRole, Promote, Demote, UpdateRole, Steps, Finish
  <2>8. CASE (DeleteMember(r) \/ SoftDelete(r)) /\ req'[r] # Idle
    BY <2>8 DEF DeleteMember, SoftDelete, Steps, Finish
  <2>9. CASE (FindUser(r) \/ FindExisting(r) \/ SendSetPassword(r)) /\ req'[r] # Idle
    BY <2>9 DEF FindUser, FindExisting, SendSetPassword, Steps, Finish
  <2>10. CASE CreateUser(r) /\ req'[r] # Idle
    BY <2>10 DEF CreateUser, RequestState, Finish
  <2>13. CASE AddMember(r)
    <3>1. PICK m \in Unissued :
            /\ holder' = [holder EXCEPT ![m] = req[r].subject]
            /\ req' = [req EXCEPT ![r].target = m,
                                  ![r].pc = IF req[r].created THEN "sendSetPassword" ELSE "audit"]
      BY <2>13, Zenon DEF AddMember, Insert
    <3>2. m \in Issued'
      BY <2>13, <3>1, NoUserFresh DEF AddMember, Unissued, Issued
    <3>. QED
      BY <2>13, <3>1, <3>2 DEF AddMember, RequestState
  <2>11. CASE (FindDeleted(r) \/ ClearDeleted(r)) /\ req'[r] # Idle
    BY <2>11 DEF FindDeleted, ClearDeleted, Steps, Finish
  <2>12. CASE Fail(r) \/ Audit(r) \/ Join(r)
    BY <2>12, <2>1 DEF Fail, Audit, Join, Finish
  <2>. QED
    BY <2>1, <2>2, <2>3, <2>4, <2>5, <2>6, <2>7, <2>8, <2>9, <2>10, <2>11, <2>12, <2>13 DEF Handle
<1>. QED
  BY <1>3, <1>4

-----------------------------------------------------------------------------
\* Live rows have been issued, and issued rows belong to accounts.
LEMMA RowsStep ==
  ASSUME TypeOK, RequestInv, RowsInv, NEW r \in Request, Handle(r)
  PROVE  RowsInv'
<1>1. Issued \subseteq Issued'
  BY IssuedGrows
<1>2. CASE AddMember(r) \/ Join(r)
  <2>1. req[r].subject # NoUser
    BY <1>2, NoUserFresh DEF AddMember, Join, RequestInv, WellFormed, AddOps
  <2>. QED
    BY <1>2, <2>1 DEF AddMember, Join, Insert, TypeOK, RowsInv, Live, Issued
<1>3. CASE ChangeRole(r) \/ Promote(r) \/ Demote(r) \/ DeleteMember(r)
  BY <1>1, <1>3 DEF ChangeRole, Promote, Demote, UpdateRole, DeleteMember, TypeOK, RowsInv, Live
<1>4. CASE UNCHANGED role
  BY <1>1, <1>4 DEF RowsInv, Live
<1>. QED
  BY <1>2, <1>3, <1>4 DEF Handle, Begin, Fail, FindOrg, FindMembership, FindTarget, ListOwners,
     SoftDelete, FindUser, FindExisting, CreateUser, SendSetPassword, FindDeleted, ClearDeleted,
     Audit, database

\* Two owners leave one behind when either of them goes.
LEMMA AnotherOwner ==
  ASSUME NEW m, ~(Cardinality(Owners) <= 1)
  PROVE  Owners \ {m} # {}
<1>. SUFFICES ASSUME Owners \subseteq {m} PROVE FALSE
  OBVIOUS
<1>1. CASE Owners = {}
  BY <1>1, FS_EmptySet
<1>2. CASE Owners = {m}
  BY <1>2, FS_Singleton
<1>. QED
  BY <1>1, <1>2

LEMMA OwnersAfterWrite ==
  ASSUME TypeOK, NEW m \in Member, NEW to, role' = [role EXCEPT ![m] = to]
  PROVE  Owners' = IF to = "owner" THEN Owners \cup {m} ELSE Owners \ {m}
BY DEF TypeOK, Owners

\* A step that takes no owner away leaves every other request safe.
LEMMA OthersSafe ==
  ASSUME TypeOK, NEW r \in Request, Handle(r), ~interfered, OwnerInv, Owners \subseteq Owners',
         NEW q \in Request \ {r}
  PROVE  LeavesOwner(req[q])'
BY OtherRequests DEF OwnerInv, LeavesOwner

\* A write that takes the owner m away and does not interfere does the same:
\* no other request is in a window.
LEMMA OthersOutside ==
  ASSUME TypeOK, NEW r \in Request, Handle(r), NEW m \in Member,
         role[m] = "owner", ~Interferes(r, m), NEW q \in Request \ {r}
  PROVE  LeavesOwner(req[q])'
BY OtherRequests DEF Interferes, Reducing, LeavesOwner

\* A role update either finds no row, and the request ends, or writes the role.
LEMMA UpdateRoleEffect ==
  ASSUME TypeOK, NEW r \in Request, NEW m, NEW to, NEW next, UpdateRole(r, m, to, next)
  PROVE  \/ req'[r] = Idle /\ UNCHANGED role
         \/ /\ role[m] # "none" /\ role' = [role EXCEPT ![m] = to] /\ Goto(r, next)
            /\ ~interfered' => to = "owner" \/ ~Interferes(r, m)
<1>1. CASE role[m] = "none"
  BY <1>1 DEF UpdateRole, Finish, TypeOK
<1>2. CASE role[m] # "none"
  BY <1>2 DEF UpdateRole
<1>. QED
  BY <1>1, <1>2

\* The owner invariant, handler step by handler step.
LEMMA OwnerStep ==
  ASSUME TypeOK, RequestInv, RowsInv, OwnerInv, NEW r \in Request, Handle(r)
  PROVE  OwnerInv'
<1>. SUFFICES ASSUME ~interfered'
              PROVE  AtLeastOneOwner' /\ \A q \in Request : LeavesOwner(req[q])'
  BY DEF OwnerInv
<1>0. ~interfered
  BY DEF Handle, Begin, Fail, FindOrg, FindMembership, FindTarget, ListOwners, ChangeRole,
     DeleteMember, Promote, Demote, UpdateRole, SoftDelete, FindUser, FindExisting, CreateUser,
     AddMember, Insert, Join, SendSetPassword, FindDeleted, ClearDeleted, Audit, history
<1>. Owners # {} /\ \A q \in Request : LeavesOwner(req[q])
  BY <1>0 DEF OwnerInv, AtLeastOneOwner
<1>. WellFormed(req[r]) /\ req[r] \in RequestState
  BY DEF RequestInv, TypeOK
<1>. USE DEF AtLeastOneOwner
<1>1. CASE UNCHANGED role /\ req'[r].pc \notin {"listOwners", "write", "demote"}
  <2>1. Owners' = Owners
    BY <1>1 DEF Owners
  <2>2. LeavesOwner(req[r])'
    BY <1>1 DEF LeavesOwner
  <2>. QED
    BY <1>0, <2>1, <2>2, OthersSafe
<1>2. CASE FindTarget(r) /\ req'[r].pc = "listOwners"
  <2>1. Owners' = Owners
    BY <1>2 DEF FindTarget, Owners, database
  <2>2. /\ req'[r].seen = role[req[r].target] /\ req'[r].target = req[r].target
        /\ req[r].target \in Member
    BY <1>2 DEF FindTarget, RequestState, TypeOK, WellFormed, Issued, Finish, Idle
  <2>3. LeavesOwner(req[r])'
    BY <1>2, <2>1, <2>2 DEF LeavesOwner, Owners
  <2>. QED
    BY <1>0, <2>1, <2>3, OthersSafe
<1>3. CASE ListOwners(r) /\ req'[r].pc = "write"
  <2>1. Owners' = Owners
    BY <1>3 DEF ListOwners, Owners, database
  <2>2. /\ req'[r].op = req[r].op /\ req'[r].target = req[r].target /\ req'[r].to = req[r].to
        /\ ~WouldRemoveLastOwner(req[r].seen, Cardinality(Owners), req[r].to)
    BY <1>3, GotoFields DEF ListOwners, TypeOK, Steps, Finish, Idle
  <2>3. req[r].op \in RoleOps /\ req[r].to # "owner" => Owners \ {req[r].target} # {}
    BY <1>3, <2>2, AnotherOwner DEF WouldRemoveLastOwner, LeavesOwner, ListOwners
  <2>4. LeavesOwner(req[r])'
    BY <1>3, <2>1, <2>2, <2>3 DEF LeavesOwner
  <2>. QED
    BY <1>0, <2>1, <2>4, OthersSafe
<1>4. CASE (ChangeRole(r) \/ DeleteMember(r)) /\ req'[r].pc = "audit"
  <2>. DEFINE m == req[r].target
              to == IF req[r].op = "changeRole" THEN req[r].to ELSE "none"
  <2>1. /\ m \in Member /\ role' = [role EXCEPT ![m] = to]
        /\ req[r].pc = "write" /\ req[r].op \in RoleOps
        /\ to # "owner" => ~Interferes(r, m)
    <3>1. m \in Member /\ req[r].pc = "write" /\ req[r].op \in RoleOps
      BY <1>4 DEF ChangeRole, DeleteMember, WellFormed, Issued, RoleOps
    <3>2. CASE ChangeRole(r)
      BY <1>4, <3>1, <3>2, UpdateRoleEffect DEF ChangeRole, Idle
    <3>3. CASE DeleteMember(r)
      BY <3>1, <3>3 DEF DeleteMember
    <3>. QED
      BY <1>4, <3>1, <3>2, <3>3
  <2>2. req'[r].pc = "audit"
    BY <1>4
  <2>3. Owners' = IF to = "owner" THEN Owners \cup {m} ELSE Owners \ {m}
    BY <2>1, OwnersAfterWrite
  <2>4. Owners' # {}
    BY <2>1, <2>3 DEF LeavesOwner, WellFormed, RoleOps
  <2>5. LeavesOwner(req[r])'
    BY <2>2 DEF LeavesOwner
  <2>6. CASE to # "owner" /\ role[m] = "owner"
    BY <2>1, <2>4, <2>5, <2>6, OthersOutside
  <2>7. CASE ~(to # "owner" /\ role[m] = "owner")
    BY <1>0, <2>1, <2>3, <2>4, <2>5, <2>7, OthersSafe DEF Owners
  <2>. QED
    BY <2>6, <2>7
<1>5. CASE Promote(r) /\ req'[r].pc = "demote"
  <2>1. req[r].target \in Member /\ role' = [role EXCEPT ![req[r].target] = "owner"]
    BY <1>5 DEF Promote, UpdateRole, WellFormed, Issued, Finish, Idle, TypeOK
  <2>2. Owners' = Owners \cup {req[r].target}
    BY <2>1, OwnersAfterWrite
  <2>3. req'[r].pc = "demote" /\ req'[r].target = req[r].target
    BY <1>5, UpdateRoleEffect, GotoFields DEF Promote, TypeOK, Steps, Idle
  <2>4. LeavesOwner(req[r])'
    BY <2>2, <2>3 DEF LeavesOwner
  <2>. QED
    BY <1>0, <2>2, <2>4, OthersSafe
<1>6. CASE Demote(r) /\ req'[r].pc = "audit"
  <2>. DEFINE m == req[r].self
  <2>1. m \in Member /\ role' = [role EXCEPT ![m] = "admin"] /\ ~Interferes(r, m)
    BY <1>6, UpdateRoleEffect DEF Demote, WellFormed, Idle
  <2>2. Owners' = Owners \ {m}
    BY <2>1 DEF Owners, TypeOK
  <2>3. req[r].target \in Owners'
    BY <1>6, <2>2 DEF Demote, LeavesOwner, WellFormed
  <2>4. LeavesOwner(req[r])'
    BY <1>6 DEF LeavesOwner
  <2>5. CASE role[m] = "owner"
    BY <2>1, <2>3, <2>4, <2>5, OthersOutside
  <2>6. CASE role[m] # "owner"
    BY <1>0, <2>2, <2>3, <2>4, <2>6, OthersSafe DEF Owners
  <2>. QED
    BY <2>5, <2>6
<1>7. CASE AddMember(r) \/ Join(r)
  <2>1. PICK m \in Unissued : role' = [role EXCEPT ![m] = req[r].to]
    BY <1>7 DEF AddMember, Join, Insert
  <2>2. m \in Member /\ m \notin Owners /\ req[r].to # "owner"
    BY <1>7 DEF AddMember, Join, Unissued, RowsInv, Live, Owners, WellFormed, AddOps
  <2>3. Owners' = Owners
    BY <2>1, <2>2 DEF Owners, TypeOK
  <2>4. req'[r].pc \in {"sendSetPassword", "audit", "idle"}
    <3>1. CASE AddMember(r)
      BY <3>1 DEF AddMember, TypeOK, RequestState
    <3>2. CASE Join(r)
      BY <3>2 DEF Join, Finish, Idle, TypeOK
    <3>. QED
      BY <1>7, <3>1, <3>2
  <2>5. (req'[r].op \in RoleOps => req'[r].pc \notin {"listOwners", "write"}) /\ req'[r].pc # "demote"
    BY <2>4
  <2>6. LeavesOwner(req[r])'
    BY <2>5 DEF LeavesOwner
  <2>. QED
    BY <1>0, <2>3, <2>6, OthersSafe
<1>8. \/ UNCHANGED role /\ req'[r].pc \notin {"listOwners", "write", "demote"}
      \/ FindTarget(r) /\ req'[r].pc = "listOwners"
      \/ ListOwners(r) /\ req'[r].pc = "write"
      \/ (ChangeRole(r) \/ DeleteMember(r)) /\ req'[r].pc = "audit"
      \/ Promote(r) /\ req'[r].pc = "demote"
      \/ Demote(r) /\ req'[r].pc = "audit"
      \/ AddMember(r) \/ Join(r)
  <2>. USE GotoFields DEF Steps, Finish, Idle, TypeOK, database
  <2>1. CASE Begin(r)
    <3>1. ASSUME NEW u \in User, NEW c \in Calls(u), req'[r] = c
          PROVE  req'[r].pc \in {"findOrg", "findExisting", "addMember"}
      BY <3>1 DEF Calls, Call, FirstStep
    <3>2. CASE req'[r] = Restore
      BY <2>1, <3>2 DEF Restore, Idle, Begin
    <3>. QED
      BY <2>1, <3>1, <3>2 DEF Begin
  <2>2. CASE Fail(r) \/ FindOrg(r) \/ FindUser(r) \/ FindExisting(r) \/ FindDeleted(r) \/ ClearDeleted(r)
    BY <2>2 DEF Fail, FindOrg, FindUser, FindExisting, FindDeleted, ClearDeleted
  <2>3. CASE FindMembership(r)
    BY <2>3 DEF FindMembership, Authorized, RequestState
  <2>4. CASE FindTarget(r) \/ ListOwners(r)
    BY <2>4 DEF FindTarget, ListOwners, RequestState
  <2>5. CASE ChangeRole(r) \/ Promote(r) \/ Demote(r)
    BY <2>5 DEF ChangeRole, Promote, Demote, UpdateRole
  <2>6. CASE DeleteMember(r)
    BY <2>6 DEF DeleteMember
  <2>7. CASE SoftDelete(r) \/ CreateUser(r) \/ SendSetPassword(r) \/ Audit(r)
    BY <2>7 DEF SoftDelete, CreateUser, SendSetPassword, Audit, RequestState
  <2>. QED
    BY <2>1, <2>2, <2>3, <2>4, <2>5, <2>6, <2>7 DEF Handle
<1>. QED
  BY <1>1, <1>2, <1>3, <1>4, <1>5, <1>6, <1>7, <1>8

-----------------------------------------------------------------------------
\* Only the two inserts make a row live; every other step leaves the holders alone.
LEMMA LiveShrinks ==
  ASSUME TypeOK, NEW r \in Request, Handle(r), ~AddMember(r), ~Join(r)
  PROVE  Live' \subseteq Live /\ UNCHANGED holder
<1>1. CASE ChangeRole(r) \/ Promote(r) \/ Demote(r)
  BY <1>1 DEF ChangeRole, Promote, Demote, UpdateRole, TypeOK, Live
<1>2. CASE DeleteMember(r)
  BY <1>2 DEF DeleteMember, TypeOK, Live
<1>3. CASE UNCHANGED <<role, holder>>
  BY <1>3 DEF Live
<1>. QED
  BY <1>1, <1>2, <1>3 DEF Handle, Begin, Fail, FindOrg, FindMembership, FindTarget, ListOwners,
     SoftDelete, FindUser, FindExisting, CreateUser, SendSetPassword, FindDeleted, ClearDeleted,
     Audit, database

\* A row that was issued and is gone is never live again.
LEMMA GoneStaysGone ==
  ASSUME TypeOK, NEW r \in Request, Handle(r), NEW m \in Issued, role[m] = "none"
  PROVE  role'[m] = "none"
<1>1. CASE AddMember(r) \/ Join(r)
  <2>1. PICK n \in Unissued : role' = [role EXCEPT ![n] = req[r].to]
    BY <1>1 DEF AddMember, Join, Insert
  <2>. QED
    BY <2>1 DEF Unissued, Issued, TypeOK
<1>2. CASE ~AddMember(r) /\ ~Join(r)
  <2>1. m \notin Live' /\ m \in Member
    BY <1>2, LiveShrinks DEF Live, Issued
  <2>. QED
    BY <2>1 DEF Live
<1>. QED
  BY <1>1, <1>2

\* No step of a handler removes an account.
LEMMA AccountsStay ==
  ASSUME TypeOK, NEW r \in Request, Handle(r), NEW u \in User, account[u] # "none"
  PROVE  account'[u] # "none"
<1>1. CASE CreateUser(r)
  BY <1>1 DEF CreateUser, TypeOK
<1>2. CASE UNCHANGED account
  BY <1>2
<1>. QED
  BY <1>1, <1>2 DEF Handle, Begin, Fail, FindOrg, FindMembership, FindTarget, ListOwners, ChangeRole,
     DeleteMember, Promote, Demote, UpdateRole, SoftDelete, FindUser, FindExisting, AddMember,
     Insert, Join, SendSetPassword, FindDeleted, ClearDeleted, Audit, database

\* The steps after which a handler is at the statements the join and audit
\* invariants are about.
LEMMA Arrives ==
  ASSUME TypeOK, NEW r \in Request, Handle(r)
  PROVE  /\ req'[r].pc = "findExisting" => Begin(r) \/ FindUser(r)
         /\ req'[r].pc = "addMember" => FindExisting(r) \/ CreateUser(r) \/ (Begin(r) /\ req'[r].op = "join")
         /\ req'[r].pc = "sendSetPassword" => AddMember(r)
         /\ req'[r].pc = "audit" => \/ ChangeRole(r) \/ DeleteMember(r) \/ Demote(r) \/ SoftDelete(r)
                                    \/ AddMember(r) \/ SendSetPassword(r) \/ ClearDeleted(r)
<1>. USE GotoFields DEF Steps, Finish, Idle, TypeOK
<1>. req[r] \in RequestState
  OBVIOUS
<1>1. CASE Begin(r)
  <2>1. ASSUME NEW u \in User, NEW c \in Calls(u)
        PROVE  c.pc \in {"findOrg", "findExisting"} \/ (c.pc = "addMember" /\ c.op = "join")
    BY <2>1 DEF Calls, Call, FirstStep
  <2>2. Restore.pc = "findDeleted"
    BY DEF Restore
  <2>3. \/ req'[r].pc \in {"findOrg", "findExisting", "findDeleted"}
        \/ req'[r].pc = "addMember" /\ req'[r].op = "join"
    BY <1>1, <2>1, <2>2 DEF Begin
  <2>. QED
    BY <1>1, <2>3
<1>2. CASE Fail(r) \/ FindOrg(r) \/ ListOwners(r) \/ FindUser(r) \/ FindExisting(r) \/ FindDeleted(r)
  BY <1>2 DEF Fail, FindOrg, ListOwners, FindUser, FindExisting, FindDeleted
<1>3. CASE FindMembership(r)
  BY <1>3 DEF FindMembership, Authorized, RequestState
<1>4. CASE FindTarget(r)
  BY <1>4 DEF FindTarget, RequestState
<1>5. CASE ChangeRole(r) \/ Demote(r) \/ DeleteMember(r) \/ SoftDelete(r) \/ SendSetPassword(r) \/ ClearDeleted(r)
  <2>1. req'[r].pc \in {"idle", "audit"}
    BY <1>5, UpdateRoleEffect DEF ChangeRole, Demote, DeleteMember, SoftDelete, SendSetPassword, ClearDeleted
  <2>. QED
    BY <1>5, <2>1
<1>6. CASE Promote(r)
  BY <1>6, UpdateRoleEffect DEF Promote
<1>7. CASE CreateUser(r)
  BY <1>7 DEF CreateUser, RequestState
<1>8. CASE AddMember(r)
  <2>1. req'[r].pc \in {"sendSetPassword", "audit"}
    BY <1>8 DEF AddMember, RequestState
  <2>. QED
    BY <1>8, <2>1
<1>9. CASE Audit(r) \/ Join(r)
  BY <1>9 DEF Audit, Join
<1>. QED
  BY <1>1, <1>2, <1>3, <1>4, <1>5, <1>6, <1>7, <1>8, <1>9 DEF Handle

\* Rows belong to accounts, and only account holders are about to be added.
LEMMA AccountStep ==
  ASSUME TypeOK, RequestInv, AccountInv, NEW r \in Request, Handle(r)
  PROVE  AccountInv'
<1>. WellFormed(req[r]) /\ req[r] \in RequestState
  BY DEF RequestInv, TypeOK
<1>1. ASSUME NEW m \in Issued' PROVE (account[holder[m]])' # "none"
  <2>1. CASE holder'[m] = holder[m]
    <3>1. m \in Issued /\ holder[m] \in User
      BY <1>1, <2>1 DEF Issued, TypeOK
    <3>. QED
      BY <2>1, <3>1, AccountsStay DEF AccountInv
  <2>2. CASE (AddMember(r) \/ Join(r)) /\ holder'[m] # holder[m]
    <3>1. holder'[m] = req[r].subject /\ req[r].subject \in User
      BY <1>1, <2>2 DEF AddMember, Join, Insert, TypeOK, WellFormed, AddOps, Issued
    <3>. QED
      BY <2>2, <3>1 DEF AddMember, Join, AccountInv
  <2>. QED
    BY <2>1, <2>2, LiveShrinks
<1>2. ASSUME NEW q \in Request, req'[q].pc \in {"findExisting", "addMember", "sendSetPassword"}
      PROVE  (account[req[q].subject])' # "none"
  <2>1. CASE q # r
    <3>1. req[q].subject \in User
      BY <1>2, <2>1, OtherRequests DEF RequestInv, WellFormed, AddOps
    <3>. QED
      BY <1>2, <2>1, <3>1, OtherRequests, AccountsStay DEF AccountInv
  <2>2. CASE q = r /\ Begin(r)
    <3>1. ASSUME NEW u \in User, NEW c \in Calls(u), c.pc \in {"findExisting", "addMember"}
          PROVE  c.subject = u
      BY <3>1 DEF Calls, Call, FirstStep
    <3>2. ASSUME NEW u \in User, NEW c \in Calls(u) PROVE c.pc # "sendSetPassword"
      BY <3>2 DEF Calls, Call, FirstStep
    <3>3. Restore.pc = "findDeleted"
      BY DEF Restore, Idle
    <3>. QED
      BY <1>2, <2>2, <3>1, <3>2, <3>3 DEF Begin, TypeOK, database
  <2>3. CASE q = r /\ FindUser(r)
    BY <1>2, <2>3, GotoFields DEF FindUser, TypeOK, Steps, database, WellFormed
  <2>6. CASE q = r /\ AddMember(r)
    BY <1>2, <2>6 DEF AddMember, TypeOK, RequestState, AccountInv
  <2>4. CASE q = r /\ FindExisting(r)
    BY <1>2, <2>4, GotoFields DEF FindExisting, Finish, Idle, TypeOK, Steps, database, AccountInv
  <2>5. CASE q = r /\ CreateUser(r)
    BY <1>2, <2>5 DEF CreateUser, Finish, Idle, TypeOK, RequestState, WellFormed
  <2>. QED
    BY <1>2, <2>1, <2>2, <2>3, <2>4, <2>5, <2>6, Arrives
<1>. QED
  BY <1>1, <1>2 DEF AccountInv

\* The log names real changes, and a removal about to be logged has happened.
LEMMA AuditStep ==
  ASSUME TypeOK, RequestInv, AuditInv, NEW r \in Request, Handle(r)
  PROVE  AuditInv'
<1>. WellFormed(req[r]) /\ req[r] \in RequestState
  BY DEF RequestInv, TypeOK
<1>. DEFINE Real(a) == /\ a.action = "member.removed" => role[a.target] = "none"
                       /\ a.target # NoMember => a.target \in Issued
<1>1. Issued \subseteq Issued'
  BY IssuedGrows
<1>2. ASSUME NEW a \in AuditRow, Real(a) PROVE Real(a)'
  BY <1>1, <1>2, GoneStaysGone, NoMemberFresh DEF AuditRow, Issued
<1>3. AuditNamesRealChanges'
  <2>1. CASE Audit(r)
    <3>1. ASSUME NEW a \in audit', a \notin audit PROVE Real(a)
      BY <2>1, <3>1 DEF Audit, Log, AuditAction, AuditInv, MemberOps, RoleOps, WellFormed
    <3>. QED
      BY <1>2, <2>1, <3>1, TypeStep DEF AuditNamesRealChanges, AuditInv, TypeOK
  <2>2. CASE UNCHANGED audit
    BY <1>2, <2>2 DEF AuditNamesRealChanges, AuditInv, TypeOK
  <2>. QED
    BY <2>1, <2>2 DEF Handle, Begin, Fail, FindOrg, FindMembership, FindTarget, ListOwners, ChangeRole,
       DeleteMember, Promote, Demote, UpdateRole, SoftDelete, FindUser, FindExisting, CreateUser,
       AddMember, Insert, Join, SendSetPassword, FindDeleted, ClearDeleted, database
<1>4. ASSUME NEW q \in Request, req'[q].pc = "audit", req'[q].op = "removeMember"
      PROVE  (role[req[q].target])' = "none"
  <2>1. CASE q # r
    BY <1>4, <2>1, OtherRequests, GoneStaysGone DEF AuditInv, RequestInv, WellFormed, RoleOps
  <2>2. CASE q = r /\ DeleteMember(r)
    BY <2>2, GotoFields DEF DeleteMember, WellFormed, TypeOK, Steps, Issued, RoleOps
  <2>3. CASE q = r /\ (ChangeRole(r) \/ Demote(r))
    BY <1>4, <2>3, UpdateRoleEffect, GotoFields DEF ChangeRole, Demote, TypeOK, Steps, Idle, WellFormed
  <2>4. CASE q = r /\ (SoftDelete(r) \/ SendSetPassword(r) \/ ClearDeleted(r))
    BY <1>4, <2>4, GotoFields DEF SoftDelete, SendSetPassword, ClearDeleted, WellFormed, Finish, Idle, TypeOK, Steps
  <2>5. CASE q = r /\ AddMember(r)
    BY <1>4, <2>5 DEF AddMember, WellFormed, AddOps, TypeOK, RequestState
  <2>. QED
    BY <1>4, <2>1, <2>2, <2>3, <2>4, <2>5, Arrives
<1>. QED
  BY <1>3, <1>4 DEF AuditInv

\* A user gets a second row only inside another addition of that user, or by the
\* acceptance that does not look for the first.
LEMMA InsertStep ==
  ASSUME TypeOK, RequestInv, RowsInv, JoinInv, NEW r \in Request, Handle(r),
         AddMember(r) \/ Join(r)
  PROVE  JoinInv'
<1>. req[r] \in RequestState /\ req[r].subject \in User
  BY DEF RequestInv, WellFormed, AddOps, AddMember, Join, TypeOK
<1>. PICK u \in User : u = req[r].subject
  OBVIOUS
<1>0. PICK m \in Unissued : Insert(r, m)
  BY Zenon DEF AddMember, Join
<1>1. /\ role' = [role EXCEPT ![m] = req[r].to]
      /\ holder' = [holder EXCEPT ![m] = req[r].subject]
      /\ doubled \subseteq doubled' /\ rejoined \subseteq rejoined'
      /\ Doubles(r) => u \in doubled'
  BY <1>0 DEF Insert, AddMember, Join
<1>2. m \in Member /\ m \notin Live
  BY DEF Unissued, RowsInv
<1>3. Live' \subseteq Live \cup {m}
  BY <1>1, <1>2 DEF Live, TypeOK
<1>4. holder'[m] = u /\ \A n \in Live : holder'[n] = holder[n]
  BY <1>1, <1>2 DEF Live, TypeOK
<1>5. RowsOf(u)' \subseteq RowsOf(u) \cup {m}
  BY <1>3, <1>4 DEF RowsOf
<1>6. \A v \in User \ {u} : RowsOf(v)' \subseteq RowsOf(v)
  BY <1>3, <1>4 DEF RowsOf
<1>7. u \notin doubled' \cup rejoined' => RowsOf(u) = {}
  <2>1. CASE AddMember(r)
    BY <1>1, <2>1 DEF AddMember, JoinInv
  <2>2. CASE Join(r)
    BY <2>2 DEF Join
  <2>. QED
    BY <2>1, <2>2
<1>8. DuplicateOnlyUnchecked'
  <2>. SUFFICES ASSUME NEW v \in User, v \notin doubled' \cup rejoined' PROVE OneRow(v)'
    BY DEF DuplicateOnlyUnchecked
  <2>1. CASE v = u
    <3>1. RowsOf(v)' \subseteq {m}
      BY <1>5, <1>7, <2>1
    <3>. QED
      BY <3>1 DEF OneRow
  <2>2. CASE v # u
    BY <1>1, <1>6, <2>2 DEF OneRow, JoinInv, DuplicateOnlyUnchecked
  <2>. QED
    BY <2>1, <2>2
<1>9. ASSUME NEW q \in Request, req'[q].pc = "addMember", req'[q].op # "join",
             req'[q].subject \notin doubled'
      PROVE  RowsOf(req[q].subject)' = {}
  <2>1. q # r
    <3>1. CASE AddMember(r)
      <4>1. PICK n \in Unissued :
              req' = [req EXCEPT ![r].target = n,
                                 ![r].pc = IF req[r].created THEN "sendSetPassword" ELSE "audit"]
        BY <3>1, Zenon DEF AddMember
      <4>2. req'[r].pc \in {"sendSetPassword", "audit"}
        BY <4>1 DEF TypeOK, RequestState
      <4>. QED
        BY <1>9, <4>2
    <3>2. CASE Join(r)
      <4>1. req'[r].pc = "idle"
        BY <3>2 DEF Join, Finish, Idle, TypeOK
      <4>. QED
        BY <1>9, <4>1
    <3>. QED
      BY <3>1, <3>2
  <2>2. req'[q] = req[q]
    BY <2>1, OtherRequests
  <2>3. req[q].subject # u
    BY <1>1, <1>9, <2>1, <2>2 DEF Doubles
  <2>4. req[q].subject \in User /\ RowsOf(req[q].subject) = {}
    BY <1>1, <1>9, <2>2 DEF JoinInv, RequestInv, WellFormed, AddOps
  <2>. QED
    BY <1>6, <2>2, <2>3, <2>4
<1>. QED
  BY <1>8, <1>9 DEF JoinInv

LEMMA JoinStep ==
  ASSUME TypeOK, RequestInv, RowsInv, AccountInv, JoinInv, NEW r \in Request, Handle(r)
  PROVE  JoinInv'
<1>. WellFormed(req[r]) /\ req[r] \in RequestState
  BY DEF RequestInv, TypeOK
<1>1. CASE AddMember(r) \/ Join(r)
  BY <1>1, InsertStep
<1>2. CASE ~AddMember(r) /\ ~Join(r)
  <2>1. Live' \subseteq Live /\ holder' = holder
    BY <1>2, LiveShrinks
  <2>2. doubled' = doubled /\ rejoined' = rejoined
    BY <1>2 DEF Handle, Begin, Fail, FindOrg, FindMembership, FindTarget, ListOwners, ChangeRole,
       DeleteMember, Promote, Demote, UpdateRole, SoftDelete, FindUser, FindExisting, CreateUser,
       SendSetPassword, FindDeleted, ClearDeleted, Audit, history
  <2>3. DuplicateOnlyUnchecked'
    BY <2>1, <2>2 DEF JoinInv, DuplicateOnlyUnchecked, OneRow, RowsOf
  <2>4. ASSUME NEW q \in Request, req'[q].pc = "addMember", req'[q].op # "join",
               req'[q].subject \notin doubled
        PROVE  RowsOf(req[q].subject) = {} /\ req'[q].subject = req[q].subject
    <3>1. CASE q # r
      BY <2>4, <3>1, OtherRequests DEF JoinInv
    <3>2. CASE q = r /\ FindExisting(r)
      BY <2>4, <3>2, GotoFields DEF FindExisting, Finish, Idle, TypeOK, Steps
    <3>3. CASE q = r /\ CreateUser(r)
      <4>1. account[req[r].subject] = "none" /\ req'[r].subject = req[r].subject
        BY <2>4, <3>3 DEF CreateUser, Finish, Idle, TypeOK, RequestState
      <4>. QED
        BY <3>3, <4>1 DEF AccountInv, RowsInv, RowsOf
    <3>. QED
      BY <2>4, <3>1, <3>2, <3>3, Arrives
  <2>. QED
    BY <2>1, <2>2, <2>3, <2>4 DEF JoinInv, RowsOf
<1>. QED
  BY <1>1, <1>2

-----------------------------------------------------------------------------
\* Without a fault in the authorization no handler writes a personal
\* organization's table.
LEMMA PersonalStep ==
  ASSUME TypeOK, RequestInv, RowsInv, PersonalInv, NEW r \in Request, Handle(r)
  PROVE  PersonalInv'
<1>. WellFormed(req[r]) /\ req[r] \in RequestState
  BY DEF RequestInv, TypeOK
<1>1. UNCHANGED orgType
  BY DEF Handle, Begin, Fail, FindOrg, FindMembership, FindTarget, ListOwners, ChangeRole,
     DeleteMember, Promote, Demote, UpdateRole, SoftDelete, FindUser, FindExisting, CreateUser,
     AddMember, Insert, Join, SendSetPassword, FindDeleted, ClearDeleted, Audit, database
<1>. DEFINE Bystander(q) ==
       /\ q.pc \in {"idle", "findOrg", "findMembership", "findTarget", "softDelete",
                    "findDeleted", "clearDeleted", "audit"}
       /\ q.op \notin {"accept", "join"}
       /\ q.pc \in {"findMembership", "findTarget"} => q.op \in OrgOps
       /\ q.pc = "findTarget" => q.self \in Live
<1>. SUFFICES ASSUME orgType = "personal"
              PROVE  /\ \E m \in Member : Live' = {m} /\ Owners' = {m}
                     /\ \A q \in Request : Bystander(req[q])'
  BY <1>1 DEF PersonalInv, PersonalOrgIsSolo
<1>2. PICK m \in Member : Live = {m} /\ Owners = {m}
  BY DEF PersonalInv, PersonalOrgIsSolo
<1>3. \A q \in Request : Bystander(req[q])
  BY DEF PersonalInv
<1>4. UNCHANGED role
  BY <1>3 DEF Handle, Begin, Fail, FindOrg, FindMembership, FindTarget, ListOwners, ChangeRole,
     DeleteMember, Promote, Demote, SoftDelete, FindUser, FindExisting, CreateUser,
     AddMember, Insert, Join, SendSetPassword, FindDeleted, ClearDeleted, Audit, database
<1>5. Live' = Live /\ Owners' = Owners
  BY <1>4 DEF Live, Owners
<1>6. Bystander(req[r])'
  <2>. USE <1>3, <1>5, GotoFields DEF Finish, TypeOK, Steps
  <2>1. CASE req'[r] = Idle
    BY <2>1 DEF Idle
  <2>2. CASE Begin(r)
    <3>1. ASSUME NEW u \in User, NEW c \in Calls(u) PROVE c.pc = "findOrg" /\ c.op \notin {"accept", "join"}
      BY <3>1 DEF Calls, Call, FirstStep
    <3>2. Restore.pc = "findDeleted" /\ Restore.op = "restore"
      BY DEF Restore, Idle
    <3>. QED
      BY <2>2, <3>1, <3>2 DEF Begin
  <2>3. CASE FindOrg(r) /\ req'[r] # Idle
    BY <2>3 DEF FindOrg, OrgVisible, WellFormed
  <2>4. CASE FindMembership(r) /\ req'[r] # Idle
    BY <2>4 DEF FindMembership, Authorized, RowsOf, RequestState, OrgOps
  <2>5. CASE FindTarget(r) /\ req'[r] # Idle
    <3>1. req[r].op = "transfer" /\ req[r].self = m
      BY <1>2, <2>5 DEF FindTarget, WellFormed, OrgOps, RoleOps
    <3>2. req[r].target \in Member /\ req[r].target # m /\ role[req[r].target] # "none"
      BY <2>5, <3>1 DEF FindTarget, WellFormed, Issued
    <3>. QED
      BY <1>2, <3>2 DEF Live
  <2>6. CASE (SoftDelete(r) \/ FindDeleted(r) \/ ClearDeleted(r)) /\ req'[r] # Idle
    BY <2>6 DEF SoftDelete, FindDeleted, ClearDeleted
  <2>7. CASE Fail(r) \/ Audit(r)
    BY <2>7, <2>1 DEF Fail, Audit
  <2>. QED
    BY <2>1, <2>2, <2>3, <2>4, <2>5, <2>6, <2>7 DEF Handle, ListOwners, ChangeRole, DeleteMember,
       Promote, Demote, FindUser, FindExisting, CreateUser, AddMember, Insert, Join, SendSetPassword
<1>. QED
  BY <1>2, <1>3, <1>5, <1>6, OtherRequests

-----------------------------------------------------------------------------
\* A request that made an account is on its way to its mail, has sent it, or stranded it.
LEMMA OnboardStep ==
  ASSUME TypeOK, RequestInv, AccountInv, OnboardInv, NEW r \in Request, Handle(r)
  PROVE  OnboardInv'
<1>. WellFormed(req[r]) /\ req[r] \in RequestState
  BY DEF RequestInv, TypeOK
<1>1. mailed \subseteq mailed' /\ stranded \subseteq stranded'
  BY DEF Handle, Begin, Fail, FindOrg, FindMembership, FindTarget, ListOwners, ChangeRole,
     DeleteMember, Promote, Demote, UpdateRole, SoftDelete, FindUser, FindExisting, CreateUser,
     AddMember, Insert, Join, SendSetPassword, FindDeleted, ClearDeleted, Audit, database, history
<1>2. ASSUME NEW u \in User, account'[u] = "created"
      PROVE  account[u] = "created" \/ (CreateUser(r) /\ req[r].subject = u /\ req'[r].created)
  BY <1>2 DEF Handle, Begin, Fail, FindOrg, FindMembership, FindTarget, ListOwners, ChangeRole,
     DeleteMember, Promote, Demote, UpdateRole, SoftDelete, FindUser, FindExisting, CreateUser,
     AddMember, Insert, Join, SendSetPassword, FindDeleted, ClearDeleted, Audit, database, TypeOK, RequestState
\* A request with an account to mail keeps it in hand, or ends with it mailed or stranded.
<1>3. req[r].created => \/ req'[r].created /\ req'[r].subject = req[r].subject
                        \/ req[r].subject \in mailed' \cup stranded'
                        \/ Lowered[req[r].subject] # req[r].subject
  <2>1. CASE Fail(r)
    BY <2>1, <1>1 DEF Fail, OnboardInv
  <2>2. CASE AddMember(r)
    BY <2>2 DEF AddMember, TypeOK, RequestState
  <2>3. CASE SendSetPassword(r)
    BY <2>3 DEF SendSetPassword, AccountInv
  <2>4. CASE Audit(r)
    BY <2>4, <1>1 DEF Audit, OnboardInv
  <2>. QED
    BY <2>1, <2>2, <2>3, <2>4 DEF Handle, WellFormed, Begin, FindOrg, FindMembership, FindTarget,
       ListOwners, ChangeRole, DeleteMember, Promote, Demote, SoftDelete, FindUser,
       FindExisting, CreateUser, Join, FindDeleted, ClearDeleted
<1>4. CreatedAccountsAreOnboarded'
  <2>1. SUFFICES ASSUME NEW u \in User, account'[u] = "created", Lowered[u] = u
                 PROVE  u \in (mailed \cup stranded)' \/ \E q \in Request : req'[q].created /\ req'[q].subject = u
    BY DEF CreatedAccountsAreOnboarded
  <2>2. CASE CreateUser(r) /\ req[r].subject = u /\ req'[r].created
    BY <2>2 DEF CreateUser, TypeOK, RequestState, Finish, Idle
  <2>3. CASE u \in mailed \cup stranded
    BY <1>1, <2>3
  <2>4. CASE \E q \in Request : req[q].created /\ req[q].subject = u
    <3>1. PICK q \in Request : req[q].created /\ req[q].subject = u
      BY <2>4
    <3>. QED
      BY <1>3, <2>1, <3>1, OtherRequests
  <2>. QED
    BY <1>2, <2>1, <2>2, <2>3, <2>4 DEF OnboardInv, CreatedAccountsAreOnboarded
<1>5. ASSUME NEW q \in Request, req'[q].created, req'[q].pc = "audit",
             Lowered[req'[q].subject] = req'[q].subject
      PROVE  req'[q].subject \in mailed'
  <2>1. CASE q # r
    BY <1>1, <1>5, <2>1, OtherRequests DEF OnboardInv
  <2>2. CASE q = r /\ AddMember(r)
    BY <1>5, <2>2 DEF AddMember, TypeOK, RequestState
  <2>3. CASE q = r /\ SendSetPassword(r)
    BY <1>5, <2>3, GotoFields DEF SendSetPassword, AccountInv, TypeOK, Steps
  <2>4. CASE q = r /\ (ChangeRole(r) \/ Demote(r))
    BY <1>5, <2>4, UpdateRoleEffect, GotoFields DEF ChangeRole, Demote, TypeOK, Steps, Idle, WellFormed
  <2>5. CASE q = r /\ (DeleteMember(r) \/ SoftDelete(r) \/ ClearDeleted(r))
    BY <1>5, <2>5, GotoFields DEF DeleteMember, SoftDelete, ClearDeleted, WellFormed, Finish, Idle, TypeOK, Steps
  <2>. QED
    BY <1>5, <2>1, <2>2, <2>3, <2>4, <2>5, Arrives
<1>. QED
  BY <1>4, <1>5 DEF OnboardInv

-----------------------------------------------------------------------------
\* The inductive invariant: it holds at first, every step keeps it, and it
\* implies the properties.
LEMMA InvInit == Init => IInv
<1>. SUFFICES ASSUME Init, NEW u \in User, NEW m \in Member,
                     account = [v \in User |-> IF v = u THEN "signedUp" ELSE "none"],
                     role = [n \in Member |-> IF n = m THEN "owner" ELSE "none"],
                     holder = [n \in Member |-> IF n = m THEN u ELSE NoUser]
              PROVE  IInv
  BY DEF Init
<1>1. Live = {m} /\ Owners = {m} /\ Issued = {m}
  BY NoUserFresh DEF Live, Owners, Issued
<1>2. \A r \in Request : req[r] = Idle
  BY DEF Init
<1>3. RequestInv /\ RowsInv
  BY <1>1, <1>2, WellFormedIdle DEF RequestInv, RowsInv
<1>4. OwnerInv
  BY <1>1, <1>2 DEF OwnerInv, AtLeastOneOwner, LeavesOwner, Idle
<1>5. AccountInv /\ JoinInv
  <2>1. AccountInv
    <3>1. account[u] # "none" /\ holder[m] = u
      OBVIOUS
    <3>. QED
      BY <1>1, <1>2, <3>1 DEF AccountInv, Idle
  <2>2. \A v : RowsOf(v) \subseteq {m}
    BY <1>1 DEF RowsOf
  <2>3. JoinInv
    BY <1>2, <2>2 DEF JoinInv, DuplicateOnlyUnchecked, OneRow, Idle
  <2>. QED
    BY <2>1, <2>3
<1>6. AuditInv
  BY <1>2 DEF AuditInv, AuditNamesRealChanges, Init, Idle
<1>7. PersonalInv
  BY <1>1, <1>2 DEF PersonalInv, PersonalOrgIsSolo, Idle
<1>8. OnboardInv
  BY <1>2 DEF OnboardInv, CreatedAccountsAreOnboarded, Idle
<1>. QED
  BY <1>3, <1>4, <1>5, <1>6, <1>7, <1>8 DEF IInv

LEMMA OutsideStep ==
  ASSUME TypeOK, IInv, \/ \E u \in User : SignUp(u)
                       \/ RetentionLapses
                       \/ UNCHANGED vars
  PROVE  TypeOK' /\ IInv'
<1>1. UNCHANGED <<orgType, role, holder, audit, req, mailed, interfered, doubled, rejoined,
                stranded>>
  BY DEF SignUp, RetentionLapses, vars, history
<1>2. /\ account' \in [User -> {"none", "signedUp", "created"}]
      /\ \A u \in User : account[u] # "none" => account'[u] # "none"
  BY DEF TypeOK, SignUp, RetentionLapses, vars
<1>3. TypeOK'
  BY <1>1, <1>2 DEF TypeOK, SignUp, RetentionLapses, vars
<1>4. Live' = Live /\ Owners' = Owners /\ Issued' = Issued /\ \A u : RowsOf(u)' = RowsOf(u)
  BY <1>1 DEF Live, Owners, Issued, RowsOf
<1>5. (RequestInv /\ RowsInv)'
  BY <1>1, <1>4 DEF IInv, RequestInv, RowsInv, WellFormed
<1>6. OwnerInv'
  BY <1>1, <1>4 DEF IInv, OwnerInv, AtLeastOneOwner, LeavesOwner
<1>7. AccountInv'
  BY <1>1, <1>2, <1>4 DEF IInv, AccountInv, Issued, TypeOK, RequestInv, WellFormed, AddOps
<1>8. JoinInv'
  BY <1>1, <1>4 DEF IInv, JoinInv, DuplicateOnlyUnchecked, OneRow
<1>9. AuditInv'
  BY <1>1, <1>4 DEF IInv, AuditInv, AuditNamesRealChanges
<1>10. PersonalInv'
  BY <1>1, <1>4 DEF IInv, PersonalInv, PersonalOrgIsSolo
<1>11. OnboardInv'
  <2>1. \A u \in User : account'[u] = "created" => account[u] = "created"
    BY DEF TypeOK, SignUp, RetentionLapses, vars
  <2>. QED
    BY <1>1, <2>1 DEF IInv, OnboardInv, CreatedAccountsAreOnboarded
<1>. QED
  BY <1>3, <1>5, <1>6, <1>7, <1>8, <1>9, <1>10, <1>11 DEF IInv

LEMMA InvStep == TypeOK /\ IInv /\ [Next]_vars => TypeOK' /\ IInv'
<1>. SUFFICES ASSUME TypeOK, IInv, [Next]_vars PROVE TypeOK' /\ IInv'
  OBVIOUS
<1>1. ASSUME NEW r \in Request, Handle(r) PROVE TypeOK' /\ IInv'
  <2>1. TypeOK' /\ RequestInv'
    BY <1>1, TypeStep, RequestStep DEF IInv
  <2>2. RowsInv' /\ OwnerInv'
    BY <1>1, RowsStep, OwnerStep DEF IInv
  <2>3. AccountInv' /\ JoinInv'
    BY <1>1, AccountStep, JoinStep DEF IInv
  <2>4. AuditInv' /\ PersonalInv'
    BY <1>1, AuditStep, PersonalStep DEF IInv
  <2>5. OnboardInv'
    BY <1>1, OnboardStep DEF IInv
  <2>. QED
    BY <2>1, <2>2, <2>3, <2>4, <2>5 DEF IInv
<1>. QED
  BY <1>1, OutsideStep DEF Next

LEMMA Invariant == Spec => [](TypeOK /\ IInv)
<1>1. Init => TypeOK /\ IInv
  BY TypeInit, InvInit
<1>. QED
  BY <1>1, InvStep, PTL DEF Spec

-----------------------------------------------------------------------------
\* Every variable of the members table and of its requests keeps its type,
\* whatever requests callers send: no handler writes or logs a row that is not one.
THEOREM TypeCorrect == Spec => []TypeOK
BY Invariant, PTL

\* wouldRemoveLastOwner and the order of a transfer's two writes protect the last
\* owner in every history where no request takes an owner away inside another's
\* check-to-write window, for any number of users, rows and requests.
THEOREM OwnerProtected == Spec => []LastOwnerLostOnlyByInterference
<1>1. IInv => LastOwnerLostOnlyByInterference
  BY DEF IInv, OwnerInv, LastOwnerLostOnlyByInterference
<1>. QED
  BY <1>1, Invariant, PTL

\* The 409 checks of addOrCreateMember and of the API's acceptance keep one row for
\* every user whose additions did not overlap and whom better-auth's acceptance, which
\* makes no such check, did not add over an existing row.
THEOREM JoinsAreUnique == Spec => []DuplicateOnlyUnchecked
<1>1. IInv => DuplicateOnlyUnchecked
  BY DEF IInv, JoinInv
<1>. QED
  BY <1>1, Invariant, PTL

\* A member logged as removed is gone for good, and a member named in the log is
\* a row that was inserted: the log is written after the change, and row ids are
\* not issued twice.
THEOREM AuditIsTruthful == Spec => []AuditNamesRealChanges
<1>1. IInv => AuditNamesRealChanges
  BY DEF IInv, AuditInv
<1>. QED
  BY <1>1, Invariant, PTL

\* The table of a personal organization never changes: the members surface is
\* hidden from it, and a transfer finds nobody but the caller to transfer to.
THEOREM PersonalStaysSolo == Spec => []PersonalOrgIsSolo
<1>1. IInv => PersonalOrgIsSolo
  BY DEF IInv, PersonalInv
<1>. QED
  BY <1>1, Invariant, PTL

\* An account an admin makes is mailed its set-password link, however requests overlap,
\* unless the one that made it broke off before or typed its address with capitals.
THEOREM AccountsOnboarded == Spec => []CreatedAccountsAreOnboarded
<1>1. IInv => CreatedAccountsAreOnboarded
  BY DEF IInv, OnboardInv
<1>. QED
  BY <1>1, Invariant, PTL

-----------------------------------------------------------------------------
\* Refinement: a handler's step is a step of the promised table, or interferes.
LEMMA OwnedStep ==
  ASSUME TypeOK, IInv, [Next]_vars, ~interfered'
  PROVE  Owned!Next \/ UNCHANGED <<role, Issued>>
<1>1. ASSUME NEW m \in Member, NEW to \in {"owner", "admin", "member", "none"},
             role[m] # "none", to = "owner" \/ Owners \ {m} # {},
             role' = [role EXCEPT ![m] = to], UNCHANGED holder
      PROVE  Owned!Next
  <2>1. Owned!Change(m, to)
    BY <1>1 DEF Owned!Change, Owned!Owners, Owners, Issued
  <2>. QED
    BY <2>1 DEF Owned!Next
<1>2. ASSUME NEW r \in Request, Handle(r) PROVE Owned!Next \/ UNCHANGED <<role, Issued>>
  <2>. WellFormed(req[r]) /\ req[r] \in RequestState
    BY DEF IInv, RequestInv, TypeOK
  <2>0. ~interfered
    BY <1>2 DEF Handle, Begin, Fail, FindOrg, FindMembership, FindTarget, ListOwners, ChangeRole,
       DeleteMember, Promote, Demote, UpdateRole, SoftDelete, FindUser, FindExisting, CreateUser,
       AddMember, Insert, Join, SendSetPassword, FindDeleted, ClearDeleted, Audit, history
  <2>. Owners # {} /\ LeavesOwner(req[r])
    BY <2>0 DEF IInv, OwnerInv, AtLeastOneOwner
  <2>1. CASE ChangeRole(r)
    <3>. DEFINE m == req[r].target
    <3>1. m \in Member /\ req[r].to \in Roles
      BY <2>1 DEF ChangeRole, WellFormed, Issued, RoleOps, RequestState
    <3>2. UNCHANGED holder
      BY <2>1 DEF ChangeRole, UpdateRole
    <3>3. req[r].to = "owner" \/ Owners \ {m} # {}
      BY <2>1 DEF ChangeRole, LeavesOwner, RoleOps
    <3>4. UNCHANGED role \/ (role[m] # "none" /\ role' = [role EXCEPT ![m] = req[r].to])
      BY <2>1 DEF ChangeRole, UpdateRole
    <3>. QED
      BY <1>1, <3>1, <3>2, <3>3, <3>4 DEF Roles, Issued
  <2>2. CASE DeleteMember(r)
    <3>. DEFINE m == req[r].target
    <3>1. m \in Member /\ Owners \ {m} # {}
      BY <2>2 DEF DeleteMember, WellFormed, Issued, RoleOps, LeavesOwner
    <3>2. UNCHANGED holder /\ role' = [role EXCEPT ![m] = "none"]
      BY <2>2 DEF DeleteMember
    <3>3. CASE role[m] = "none"
      BY <3>2, <3>3 DEF TypeOK, Issued
    <3>. QED
      BY <1>1, <3>1, <3>2, <3>3
  <2>3. CASE Promote(r)
    <3>1. UNCHANGED holder /\ req[r].target \in Member
      BY <2>3 DEF Promote, UpdateRole, WellFormed, Issued
    <3>2. UNCHANGED role \/ /\ role[req[r].target] # "none"
                            /\ role' = [role EXCEPT ![req[r].target] = "owner"]
      BY <2>3, UpdateRoleEffect DEF Promote
    <3>. QED
      BY <1>1, <3>1, <3>2 DEF Issued
  <2>4. CASE Demote(r)
    <3>1. UNCHANGED holder /\ req[r].self \in Member
      BY <2>4 DEF Demote, UpdateRole, WellFormed
    <3>2. Owners \ {req[r].self} # {}
      BY <2>4 DEF Demote, LeavesOwner, WellFormed
    <3>3. UNCHANGED role \/ /\ role[req[r].self] # "none"
                            /\ role' = [role EXCEPT ![req[r].self] = "admin"]
      BY <2>4, UpdateRoleEffect DEF Demote
    <3>. QED
      BY <1>1, <3>1, <3>2, <3>3 DEF Issued
  <2>5. CASE AddMember(r) \/ Join(r)
    <3>1. PICK m \in Unissued : /\ role' = [role EXCEPT ![m] = req[r].to]
                                /\ holder' = [holder EXCEPT ![m] = req[r].subject]
      BY <2>5, Zenon DEF AddMember, Join, Insert
    <3>2. req[r].to \in {"admin", "member"} /\ req[r].subject # NoUser /\ m \in Member /\ m \notin Issued
      BY <2>5, NoUserFresh DEF AddMember, Join, WellFormed, AddOps, Unissued
    <3>3. Issued' = Issued \cup {m}
      BY <3>1, <3>2 DEF Issued, TypeOK
    <3>4. Owned!Join(m, req[r].to)
      BY <3>1, <3>2, <3>3 DEF Owned!Join
    <3>. QED
      BY <3>2, <3>4 DEF Owned!Next
  <2>6. CASE UNCHANGED <<role, holder>>
    BY <2>6 DEF Issued
  <2>. QED
    BY <1>2, <2>1, <2>2, <2>3, <2>4, <2>5, <2>6 DEF Handle, Begin, Fail, FindOrg, FindMembership,
       FindTarget, ListOwners, SoftDelete, FindUser, FindExisting, CreateUser, SendSetPassword,
       FindDeleted, ClearDeleted, Audit, database
<1>3. CASE (\E u \in User : SignUp(u)) \/ RetentionLapses \/ UNCHANGED vars
  BY <1>3 DEF SignUp, RetentionLapses, vars, Issued
<1>. QED
  BY <1>2, <1>3 DEF Next

LEMMA OwnedInit == Init => Owned!Init
<1>. SUFFICES ASSUME Init, NEW u \in User, NEW m \in Member,
                     role = [n \in Member |-> IF n = m THEN "owner" ELSE "none"],
                     holder = [n \in Member |-> IF n = m THEN u ELSE NoUser]
              PROVE  Owned!Init
  BY DEF Init
<1>1. Issued = {m}
  BY NoUserFresh DEF Issued
<1>. QED
  BY <1>1 DEF Owned!Init

\* Write by write, the handlers implement the promised table (OwnedOrg) until
\* two of them interfere, for any number of users, rows and requests.
THEOREM TableIsOwned == Spec => OwnedUnlessInterfered
<1>1. TypeOK /\ IInv /\ [Next]_vars => [interfered' \/ Owned!Next]_<<role, Issued>>
  BY OwnedStep
<1>. QED
  BY <1>1, OwnedInit, Invariant, PTL DEF Spec, OwnedUnlessInterfered

=============================================================================
