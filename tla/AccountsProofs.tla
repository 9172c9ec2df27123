---------------------------- MODULE AccountsProofs ----------------------------
(***************************************************************************)
(* Theorems about Accounts, for any number of accounts, organizations,     *)
(* slugs, sessions and requests in flight, and for every product.          *)
(*                                                                         *)
(* The rows' part of the invariant (RowsInv) says that slugs are unique,   *)
(* that memberships are of organizations that exist and that a personal    *)
(* organization is its account's alone.  The requests' part (Fine) says    *)
(* what a request that has read something may still rely on: ClaimOK that  *)
(* a slug found free is free, ListOK that the memberships listed are the   *)
(* caller's, each until another request crossed it.                        *)
(***************************************************************************)
EXTENDS Accounts, TLAPS

RowsInv ==
  /\ \A a \in Account, o \in Org : role[a][o] # None => org[o] # NoOrg
  /\ \A a \in Account, b \in Account : role[a][b] # None => a = b
  /\ \A o \in Org, p \in Org : org[o].slug = org[p].slug /\ org[o].slug # None => o = p
  /\ \A o \in Org : org[o].slug \in Account => org[o].slug = o

\* a request names what exists
ReqOK(q) ==
  /\ q.pc # "idle" => q.user \in Account
  /\ q.pc \in {"findOrg", "findMembership", "updateOrg"} => q.org \in Org /\ q.slug \in Slug
  /\ q.pc \in {"findSlug", "createOrg"} => q.slug \in Slug
  /\ q.pc = "createOrg" => q.org = None
  /\ q.org # None => q.org \in Org /\ org[q.org] # NoOrg
  /\ q.pc \in {"list", "stored"} => q.session \in Session

Claiming(q) == q.pc \in {"createOrg", "updateOrg"} \/ (q.pc = "findMembership" /\ q.same)

\* nobody but its own organization has the slug a request took to be free
ClaimOK(q) ==
  /\ Claiming(q) => q.crossed \/ findOrgBySlug(q.slug) \subseteq {q.org}
  /\ q.pc = "failed" => q.crossed

\* the answer is one of the rows listed, the one asked for if it is there
Answers(q) ==
  /\ q.active \in q.listed \/ (q.active = Nobody /\ q.listed = {})
  /\ \A m \in q.listed : m.slug = q.slug => q.active.slug = q.slug

\* the rows listed are still the caller's memberships
ListOK(q) ==
  /\ q.pc \in {"stored", "answered"} => q.crossed \/ q.listed = Memberships(q.user)
  /\ q.pc = "answered" => Answers(q)

Fine(q) == ReqOK(q) /\ ClaimOK(q) /\ ListOK(q)

\* The inductive invariant.
IInv ==
  /\ TypeOK
  /\ RowsInv
  /\ \A r \in Request : Fine(req[r])
  /\ AccountsAreComplete

-----------------------------------------------------------------------------
\* What the steps do to the requests

LEMMA IdleIs ==
  /\ Idle \in RequestState
  /\ Idle.pc = "idle" /\ Idle.org = None /\ Idle.user = None
<1>1. Nobody \in {Nobody} /\ "idle" \in Steps  BY DEF Steps
<1> QED  BY <1>1 DEF Idle, RequestState

LEMMA GotoIs ==
  ASSUME req \in [Request -> RequestState], NEW r \in Request, NEW step \in Steps, Goto(r, step)
  PROVE  /\ req' \in [Request -> RequestState]
         /\ req'[r] = [req[r] EXCEPT !.pc = step]
         /\ \A q \in Request \ {r} : req'[q] = req[q]
<1>1. [req[r] EXCEPT !.pc = step] \in RequestState  BY DEF RequestState
<1> QED  BY <1>1 DEF Goto

LEMMA FinishIs ==
  ASSUME req \in [Request -> RequestState], NEW r \in Request, Finish(r)
  PROVE  /\ req' \in [Request -> RequestState]
         /\ req'[r] = Idle
         /\ \A q \in Request \ {r} : req'[q] = req[q]
  BY IdleIs DEF Finish

\* q has been told of a write of slug s, or to the memberships of As
Noted(q, s, As) ==
  /\ req'[q].pc = req[q].pc /\ req'[q].user = req[q].user /\ req'[q].session = req[q].session
  /\ req'[q].org = req[q].org /\ req'[q].slug = req[q].slug /\ req'[q].listed = req[q].listed
  /\ req'[q].active = req[q].active /\ req'[q].same = req[q].same
  /\ req'[q].crossed <=> req[q].crossed \/ Claims(req[q], s) \/ HasListed(req[q], As)

LEMMA NotedIs ==
  ASSUME NEW q \in Request, NEW s, NEW As, req[q] \in RequestState,
         req'[q] = [req[q] EXCEPT !.crossed = @ \/ Claims(req[q], s) \/ HasListed(req[q], As)]
  PROVE  req'[q] \in RequestState /\ Noted(q, s, As)
<1>1. PICK b \in BOOLEAN : b = (req[q].crossed \/ Claims(req[q], s) \/ HasListed(req[q], As))
  OBVIOUS
<1>2. req'[q] = [req[q] EXCEPT !.crossed = b]  BY <1>1
<1>3. req'[q] \in RequestState  BY <1>2 DEF RequestState
<1>4. /\ req'[q].pc = req[q].pc /\ req'[q].user = req[q].user /\ req'[q].session = req[q].session
      /\ req'[q].org = req[q].org /\ req'[q].slug = req[q].slug /\ req'[q].listed = req[q].listed
      /\ req'[q].active = req[q].active /\ req'[q].same = req[q].same
      /\ req'[q].crossed = b
  BY <1>2 DEF RequestState
<1> QED  BY <1>1, <1>3, <1>4 DEF Noted

LEMMA CrossIs ==
  ASSUME req \in [Request -> RequestState], NEW r \in Request, NEW mine \in RequestState,
         NEW s, NEW As, Cross(r, mine, s, As)
  PROVE  /\ req' \in [Request -> RequestState]
         /\ req'[r] = mine
         /\ \A q \in Request \ {r} : Noted(q, s, As)
<1>1. req'[r] = mine  BY DEF Cross
<1>2. ASSUME NEW q \in Request \ {r} PROVE req'[q] \in RequestState /\ Noted(q, s, As)
  <2>1. req'[q] = [req[q] EXCEPT !.crossed = @ \/ Claims(req[q], s) \/ HasListed(req[q], As)]
    BY DEF Cross
  <2> QED  BY <2>1, NotedIs
<1>3. req' = [q \in Request |-> req'[q]]  BY DEF Cross
<1> QED  BY <1>1, <1>2, <1>3

-----------------------------------------------------------------------------
\* What a request may still rely on

\* organizations stay, slugs other than s are at most given up, and only the
\* memberships of As change
Spares(s, As) ==
  /\ \A o \in Org : org[o] # NoOrg => org'[o] # NoOrg
  /\ \A t \in Slug \ {s} : findOrgBySlug(t)' \subseteq findOrgBySlug(t)
  /\ \A a \in Account \ As : Memberships(a)' = Memberships(a)

LEMMA FineNoted ==
  ASSUME NEW q \in Request, NEW s, NEW As, req[q] \in RequestState, Fine(req[q]),
         Noted(q, s, As), Spares(s, As)
  PROVE  Fine(req[q])'
<1>1. ReqOK(req[q])'
  BY DEF Fine, ReqOK, Noted, Spares, RequestState
<1>2. ClaimOK(req[q])'
  <2>1. req[q].pc = "failed" => req'[q].crossed  BY DEF Fine, ClaimOK, Noted
  <2>2. ASSUME Claiming(req[q]), ~req'[q].crossed
        PROVE  findOrgBySlug(req[q].slug)' \subseteq {req[q].org}
    <3>1. PICK t : t = req[q].slug  OBVIOUS
    <3>2. ~req[q].crossed /\ t # s  BY <2>2, <3>1 DEF Noted, Claims, Claiming
    <3>3. t \in Slug  BY <2>2, <3>1 DEF Claiming, Fine, ReqOK
    <3>4. findOrgBySlug(t) \subseteq {req[q].org}  BY <2>2, <3>1, <3>2 DEF Fine, ClaimOK
    <3>5. findOrgBySlug(t)' \subseteq {req[q].org}  BY <3>2, <3>3, <3>4 DEF Spares
    <3>6. req'[q].slug = t  BY <3>1 DEF Noted
    <3> QED  BY <3>5, <3>6 DEF findOrgBySlug
  <2> QED  BY <2>1, <2>2 DEF ClaimOK, Claiming, Noted, findOrgBySlug
<1>3. ListOK(req[q])'
  <2>1. req[q].pc = "answered" => Answers(req[q])'  BY DEF Fine, ListOK, Answers, Noted
  <2>2. ASSUME req[q].pc \in {"stored", "answered"}, ~req'[q].crossed
        PROVE  req[q].listed = Memberships(req[q].user)'
    <3>1. PICK a : a = req[q].user  OBVIOUS
    <3>2. ~req[q].crossed /\ a \notin As  BY <2>2, <3>1 DEF Noted, HasListed
    <3>3. a \in Account  BY <2>2, <3>1 DEF Fine, ReqOK
    <3>4. req[q].listed = Memberships(a)  BY <2>2, <3>1, <3>2 DEF Fine, ListOK
    <3>5. req[q].listed = Memberships(a)'  BY <3>2, <3>3, <3>4 DEF Spares
    <3>6. req'[q].user = a  BY <3>1 DEF Noted
    <3> QED  BY <3>5, <3>6 DEF Memberships
  <2> QED  BY <2>1, <2>2 DEF ListOK, Noted
<1> QED  BY <1>1, <1>2, <1>3 DEF Fine

\* a request that is left alone by a step that takes nothing back
LEMMA FineStays ==
  ASSUME NEW q \in Request, Fine(req[q]), req'[q] = req[q],
         \A o \in Org : org'[o].slug = org[o].slug /\ (org[o] # NoOrg => org'[o] # NoOrg),
         role' = role
  PROVE  Fine(req[q])'
<1>1. \A t : findOrgBySlug(t)' = findOrgBySlug(t)  BY DEF findOrgBySlug
<1>2. \A a : Memberships(a)' = Memberships(a)  BY DEF Memberships
<1>3. ReqOK(req[q])'  BY DEF Fine, ReqOK
<1>4. ClaimOK(req[q])'  BY <1>1 DEF Fine, ClaimOK, Claiming
<1>5. ListOK(req[q])'  BY <1>2 DEF Fine, ListOK, Answers
<1> QED  BY <1>3, <1>4, <1>5 DEF Fine

\* a request that is over, or has nothing it relies on yet
LEMMA FineIdle ==
  ASSUME NEW q \in Request, req'[q] = Idle
  PROVE  Fine(req[q])'
<1>1. ReqOK(req[q])'  BY IdleIs DEF ReqOK
<1>2. ClaimOK(req[q])'  BY IdleIs DEF ClaimOK, Claiming
<1>3. ListOK(req[q])'  BY IdleIs DEF ListOK
<1> QED  BY <1>1, <1>2, <1>3 DEF Fine

\* the facts a step starts from
Before == TypeOK /\ RowsInv /\ \A r \in Request : Fine(req[r])
After == RowsInv' /\ \A r \in Request : Fine(req[r])'

\* a step that leaves the rows alone and every request but r
LEMMA RowsStay ==
  ASSUME Before, NEW r \in Request, UNCHANGED <<org, role>>, Fine(req[r])',
         \A q \in Request \ {r} : req'[q] = req[q]
  PROVE  After
<1>1. \A q \in Request \ {r} : Fine(req[q])'  BY FineStays DEF Before
<1>2. RowsInv'  BY DEF Before, RowsInv
<1> QED  BY <1>1, <1>2 DEF After

\* ... or every request
LEMMA AllStay ==
  ASSUME Before, UNCHANGED <<org, role, req>>
  PROVE  After
<1>1. \A q \in Request : Fine(req[q])'  BY FineStays DEF Before
<1>2. RowsInv'  BY DEF Before, RowsInv
<1> QED  BY <1>1, <1>2 DEF After

\* a step that is the last of its request
LEMMA Over ==
  ASSUME Before, NEW r \in Request, UNCHANGED <<org, role>>, Finish(r)
  PROVE  After
<1>1. /\ req'[r] = Idle
      /\ \A q \in Request \ {r} : req'[q] = req[q]
  BY FinishIs DEF Before, TypeOK
<1> QED  BY <1>1, FineIdle, RowsStay

\* a step that goes on to one where nothing has been read yet
LEMMA GoesOn ==
  ASSUME Before, NEW r \in Request, UNCHANGED <<org, role>>,
         req[r].pc # "idle",
         NEW step \in {"insertUser", "notify", "createPersonalOrg", "verification", "revoke"},
         Goto(r, step)
  PROVE  After
<1>0. step \in Steps  BY DEF Steps
<1>1. /\ req[r] \in RequestState /\ Fine(req[r])
      /\ req'[r] = [req[r] EXCEPT !.pc = step] /\ \A q \in Request \ {r} : req'[q] = req[q]
  BY <1>0, GotoIs DEF Before, TypeOK
<1>2. /\ req'[r].pc = step /\ req'[r].user = req[r].user /\ req'[r].org = req[r].org
  BY <1>1 DEF RequestState
<1>3. ReqOK(req[r])'  BY <1>1, <1>2 DEF Fine, ReqOK
<1>4. ClaimOK(req[r])'  BY <1>2 DEF ClaimOK, Claiming
<1>5. ListOK(req[r])'  BY <1>2 DEF ListOK
<1> QED  BY <1>1, <1>3, <1>4, <1>5, RowsStay DEF Fine

-----------------------------------------------------------------------------
\* Arrivals

LEMMA SessionUser ==
  ASSUME TypeOK, NEW s \in Session, session[s].user # None
  PROVE  session[s].user \in Account
<1>1. session[s] \in [user : Account, active : Org \cup {None}] \/ session[s] = NoSession
  BY DEF TypeOK
<1>2. session[s] # NoSession  BY DEF NoSession
<1> QED  BY <1>1, <1>2

\* what arrives has read nothing
New(c) ==
  /\ c \in RequestState
  /\ c.user \in Account /\ ~c.crossed
  /\ \/ c.pc \in {"findExistingAccount", "findUser"} /\ c.org = None
     \/ c.pc = "findSlug" /\ c.slug \in Slug /\ c.org = None
     \/ c.pc = "findOrg" /\ c.slug \in Slug /\ c.org \in Org /\ org[c.org] # NoOrg
     \/ c.pc = "list" /\ c.session \in Session /\ c.org = None

LEMMA BeginIs ==
  ASSUME TypeOK, NEW r \in Request, Begin(r)
  PROVE  \E c : New(c) /\ req' = [req EXCEPT ![r] = c]
<1>1. ASSUME NEW step \in {"findExistingAccount", "findUser"}, NEW a \in Account
      PROVE  New([Idle EXCEPT !.pc = step, !.user = a])
  BY DEF New, Idle, RequestState, Steps
<1>2. ASSUME NEW s \in Session, session[s].user # None, NEW slug \in Slug,
             NEW o \in Org, org[o] # NoOrg
      PROVE  LET by == [Idle EXCEPT !.user = session[s].user] IN
             New([by EXCEPT !.pc = "findOrg", !.org = o, !.slug = slug])
  BY <1>2, SessionUser DEF New, Idle, RequestState, Steps, AnySlug
<1>3. ASSUME NEW s \in Session, session[s].user # None, NEW slug \in Slug
      PROVE  LET by == [Idle EXCEPT !.user = session[s].user] IN
             New([by EXCEPT !.pc = "findSlug", !.slug = slug])
  BY <1>3, SessionUser DEF New, Idle, RequestState, Steps, AnySlug
<1>4. ASSUME NEW s \in Session, session[s].user # None, NEW slug \in AnySlug \cup {None}
      PROVE  LET by == [Idle EXCEPT !.user = session[s].user] IN
             New([by EXCEPT !.pc = "list", !.session = s, !.slug = slug])
  BY <1>4, SessionUser DEF New, Idle, RequestState, Steps
<1>5. {org[o].slug : o \in Org} \subseteq AnySlug \cup {None}  BY DEF TypeOK, NoOrg
<1> QED  BY <1>1, <1>2, <1>3, <1>4, <1>5 DEF Begin, Arrive, requireUser

LEMMA BeginKeeps ==
  ASSUME Before, NEW r \in Request, Begin(r)
  PROVE  After /\ req' \in [Request -> RequestState]
<1>1. PICK c : New(c) /\ req' = [req EXCEPT ![r] = c]  BY BeginIs DEF Before
<1>3. /\ req' \in [Request -> RequestState] /\ req'[r] = c
      /\ \A q \in Request \ {r} : req'[q] = req[q]
      /\ UNCHANGED <<org, role>>
  BY <1>1 DEF Begin, Before, TypeOK, database, New
<1>4. ReqOK(req[r])'  BY <1>1, <1>3 DEF ReqOK, New
<1>5. ClaimOK(req[r])'  BY <1>1, <1>3 DEF ClaimOK, Claiming, New
<1>6. ListOK(req[r])'  BY <1>1, <1>3 DEF ListOK, New
<1> QED  BY <1>3, <1>4, <1>5, <1>6, RowsStay DEF Fine

-----------------------------------------------------------------------------
\* Steps that write no organization and no membership

LEMMA FindExistingAccountKeeps ==
  ASSUME Before, NEW r \in Request, FindExistingAccount(r)
  PROVE  After /\ TypeOK'
<1>1. PICK step \in {"insertUser", "notify"} : Goto(r, step)  BY DEF FindExistingAccount
<1>2. req[r].pc # "idle" /\ UNCHANGED <<org, role>>  BY DEF FindExistingAccount, database
<1>3. step \in Steps  BY DEF Steps
<1>4. After  BY <1>1, <1>2, GoesOn
<1>5. req' \in [Request -> RequestState]  BY <1>1, <1>3, GotoIs DEF Before, TypeOK
<1>6. TypeOK'  BY <1>5 DEF FindExistingAccount, database, history, Before, TypeOK
<1> QED  BY <1>4, <1>6

LEMMA NotifyExistingKeeps ==
  ASSUME Before, NEW r \in Request, NotifyExisting(r)
  PROVE  After /\ TypeOK'
<1>1. Goto(r, "insertUser") /\ req[r].pc # "idle" /\ UNCHANGED <<org, role>>
  BY DEF NotifyExisting, database
<1>2. "insertUser" \in Steps  BY DEF Steps
<1>3. After  BY <1>1, GoesOn
<1>4. req' \in [Request -> RequestState]  BY <1>1, <1>2, GotoIs DEF Before, TypeOK
<1>5. TypeOK'  BY <1>4 DEF NotifyExisting, database, history, Before, TypeOK
<1> QED  BY <1>3, <1>5

LEMMA InsertUserKeeps ==
  ASSUME Before, NEW r \in Request, InsertUser(r)
  PROVE  After /\ TypeOK'
<1>1. req[r].pc = "insertUser" /\ UNCHANGED <<org, role>>  BY DEF InsertUser
<1>2. CASE account[req[r].user] # "none"
  <2>1. Finish(r) /\ UNCHANGED account  BY <1>2 DEF InsertUser
  <2>2. After  BY <1>1, <2>1, Over
  <2>3. req' \in [Request -> RequestState]  BY <2>1, FinishIs DEF Before, TypeOK
  <2>4. TypeOK'  BY <2>1, <2>3 DEF InsertUser, history, Before, TypeOK
  <2> QED  BY <2>2, <2>4
<1>3. CASE account[req[r].user] = "none"
  <2>1. PICK step \in {"createPersonalOrg", "verification"} : Goto(r, step)
    BY <1>3 DEF InsertUser
  <2>2. step \in Steps  BY DEF Steps
  <2>3. After  BY <1>1, <2>1, GoesOn
  <2>4. req' \in [Request -> RequestState]  BY <2>1, <2>2, GotoIs DEF Before, TypeOK
  <2>5. account' = [account EXCEPT ![req[r].user] = "unverified"]  BY <1>3 DEF InsertUser
  <2>6. account' \in [Account -> {"none", "unverified", "verified"}]
    BY <2>5 DEF Before, TypeOK
  <2>7. TypeOK'  BY <2>4, <2>6 DEF InsertUser, history, Before, TypeOK
  <2> QED  BY <2>3, <2>7
<1> QED  BY <1>2, <1>3

LEMMA SendVerificationKeeps ==
  ASSUME Before, NEW r \in Request, SendVerification(r)
  PROVE  After /\ TypeOK'
<1>1. req[r].pc = "verification" /\ Finish(r) /\ UNCHANGED <<org, role>>
  BY DEF SendVerification
<1>2. req[r].user \in Account  BY <1>1 DEF Before, Fine, ReqOK
<1>3. After  BY <1>1, Over
<1>4. req' \in [Request -> RequestState]  BY <1>1, FinishIs DEF Before, TypeOK
<1>5. TypeOK'  BY <1>2, <1>4 DEF SendVerification, history, Before, TypeOK
<1> QED  BY <1>3, <1>5

LEMMA FindUserKeeps ==
  ASSUME Before, NEW r \in Request, FindUser(r)
  PROVE  After /\ TypeOK'
<1>1. req[r].pc # "idle" /\ UNCHANGED <<org, role>> /\ (Finish(r) \/ Goto(r, "revoke"))
  BY DEF FindUser, database
<1>2. "revoke" \in Steps  BY DEF Steps
<1>3. After  BY <1>1, Over, GoesOn
<1>4. req' \in [Request -> RequestState]  BY <1>1, <1>2, FinishIs, GotoIs DEF Before, TypeOK
<1>5. TypeOK'  BY <1>4 DEF FindUser, database, history, Before, TypeOK
<1> QED  BY <1>3, <1>5

LEMMA RevokeSessionsKeeps ==
  ASSUME Before, NEW r \in Request, RevokeSessions(r)
  PROVE  After /\ TypeOK'
<1>1. Finish(r) /\ UNCHANGED <<org, role>>  BY DEF RevokeSessions
<1>2. After  BY <1>1, Over
<1>3. req' \in [Request -> RequestState]  BY <1>1, FinishIs DEF Before, TypeOK
<1>4. session' \in [Session -> [user : Account, active : Org \cup {None}] \cup {NoSession}]
  BY DEF RevokeSessions, Before, TypeOK
<1>5. TypeOK'  BY <1>3, <1>4 DEF RevokeSessions, history, Before, TypeOK
<1> QED  BY <1>2, <1>5

LEMMA RespondKeeps ==
  ASSUME Before, NEW r \in Request, Respond(r)
  PROVE  After /\ TypeOK'
<1>1. Finish(r) /\ UNCHANGED <<org, role>>  BY DEF Respond, database
<1>2. After  BY <1>1, Over
<1>3. req' \in [Request -> RequestState]  BY <1>1, FinishIs DEF Before, TypeOK
<1>4. TypeOK'  BY <1>3 DEF Respond, database, history, Before, TypeOK
<1> QED  BY <1>2, <1>4

LEMMA FailKeeps ==
  ASSUME Before, NEW r \in Request, Fail(r)
  PROVE  After /\ TypeOK'
<1>1. Finish(r) /\ UNCHANGED <<org, role>> /\ req[r].pc # "idle"  BY DEF Fail, database
<1>2. req[r].user \in Account  BY <1>1 DEF Before, Fine, ReqOK
<1>3. After  BY <1>1, Over
<1>4. req' \in [Request -> RequestState]  BY <1>1, FinishIs DEF Before, TypeOK
<1>5. TypeOK'  BY <1>2, <1>4 DEF Fail, database, Before, TypeOK
<1> QED  BY <1>3, <1>5

LEMMA FindOrgKeeps ==
  ASSUME Before, NEW r \in Request, FindOrg(r)
  PROVE  After /\ TypeOK'
<1>1. req[r].pc = "findOrg" /\ UNCHANGED <<org, role>>  BY DEF FindOrg, database
<1>2. CASE org[req[r].org].state # "live"
  <2>1. Finish(r)  BY <1>2 DEF FindOrg
  <2>2. After  BY <1>1, <2>1, Over
  <2>3. req' \in [Request -> RequestState]  BY <2>1, FinishIs DEF Before, TypeOK
  <2>4. TypeOK'  BY <2>3 DEF FindOrg, database, history, Before, TypeOK
  <2> QED  BY <2>2, <2>4
<1>3. CASE org[req[r].org].state = "live"
  <2>1. PICK b \in BOOLEAN : b = (req[r].slug = org[req[r].org].slug)  OBVIOUS
  <2>2. req' = [req EXCEPT ![r].pc = "findMembership", ![r].same = b]
    BY <1>3, <2>1 DEF FindOrg
  <2>3. req[r] \in RequestState /\ req \in [Request -> RequestState]  BY DEF Before, TypeOK
  <2>4. req' = [req EXCEPT ![r] = [req[r] EXCEPT !.pc = "findMembership", !.same = b]]
    BY <2>2, <2>3 DEF RequestState
  <2>5. [req[r] EXCEPT !.pc = "findMembership", !.same = b] \in RequestState
    BY <2>3 DEF RequestState, Steps
  <2>6. /\ req' \in [Request -> RequestState]
        /\ req'[r] = [req[r] EXCEPT !.pc = "findMembership", !.same = b]
        /\ \A q \in Request \ {r} : req'[q] = req[q]
    BY <2>3, <2>4, <2>5
  <2>7. /\ req'[r].pc = "findMembership" /\ req'[r].user = req[r].user /\ req'[r].org = req[r].org
        /\ req'[r].slug = req[r].slug /\ req'[r].same = b
    BY <2>3, <2>6 DEF RequestState
  <2>8. /\ req[r].user \in Account /\ req[r].org \in Org /\ req[r].slug \in Slug
        /\ org[req[r].org] # NoOrg
    BY <1>1, <1>3 DEF Before, Fine, ReqOK, NoOrg
  <2>9. ReqOK(req[r])'  BY <1>1, <2>7, <2>8 DEF ReqOK
  <2>10. ClaimOK(req[r])'
    <3>1. ASSUME b PROVE findOrgBySlug(req[r].slug) \subseteq {req[r].org}
      <4>1. org[req[r].org].slug # None  BY <2>1, <2>8, <3>1, Distinct
      <4>2. \A o \in Org : org[o].slug = org[req[r].org].slug => o = req[r].org
        BY <2>8, <4>1 DEF Before, RowsInv
      <4> QED  BY <2>1, <3>1, <4>2 DEF findOrgBySlug
    <3> QED  BY <1>1, <2>7, <3>1 DEF ClaimOK, Claiming, findOrgBySlug
  <2>11. ListOK(req[r])'  BY <2>7 DEF ListOK
  <2>12. After  BY <1>1, <2>6, <2>9, <2>10, <2>11, RowsStay DEF Fine
  <2>13. TypeOK'  BY <2>6 DEF FindOrg, database, history, Before, TypeOK
  <2> QED  BY <2>12, <2>13
<1> QED  BY <1>2, <1>3

LEMMA FindMembershipKeeps ==
  ASSUME Before, NEW r \in Request, FindMembership(r)
  PROVE  After /\ TypeOK'
<1>1. req[r].pc = "findMembership" /\ UNCHANGED <<org, role>>  BY DEF FindMembership, database
<1>2. CASE Finish(r)
  <2>1. After  BY <1>1, <1>2, Over
  <2>2. req' \in [Request -> RequestState]  BY <1>2, FinishIs DEF Before, TypeOK
  <2>3. TypeOK'  BY <2>2 DEF FindMembership, database, history, Before, TypeOK
  <2> QED  BY <2>1, <2>3
<1>3. CASE ~Finish(r)
  <2>1. PICK step \in {"updateOrg", "findSlug"} :
          Goto(r, step) /\ (step = "updateOrg" => req[r].same)
    BY <1>3 DEF FindMembership
  <2>2. step \in Steps  BY DEF Steps
  <2>3. /\ req' \in [Request -> RequestState] /\ req'[r] = [req[r] EXCEPT !.pc = step]
        /\ \A q \in Request \ {r} : req'[q] = req[q]
        /\ req[r] \in RequestState /\ Fine(req[r])
    BY <2>1, <2>2, GotoIs DEF Before, TypeOK
  <2>4. /\ req'[r].pc = step /\ req'[r].user = req[r].user /\ req'[r].org = req[r].org
        /\ req'[r].slug = req[r].slug /\ req'[r].crossed = req[r].crossed
    BY <2>3 DEF RequestState
  <2>5. ReqOK(req[r])'  BY <1>1, <2>3, <2>4 DEF ReqOK, Fine
  <2>6. ClaimOK(req[r])'  BY <1>1, <2>1, <2>3, <2>4 DEF ClaimOK, Claiming, Fine, findOrgBySlug
  <2>7. ListOK(req[r])'  BY <2>4 DEF ListOK
  <2>8. After  BY <1>1, <2>3, <2>5, <2>6, <2>7, RowsStay DEF Fine
  <2>9. TypeOK'  BY <2>3 DEF FindMembership, database, history, Before, TypeOK
  <2> QED  BY <2>8, <2>9
<1> QED  BY <1>2, <1>3

LEMMA FindSlugKeeps ==
  ASSUME Before, NEW r \in Request, FindSlug(r)
  PROVE  After /\ TypeOK'
<1>1. req[r].pc = "findSlug" /\ UNCHANGED <<org, role>>  BY DEF FindSlug, database
<1>2. CASE Finish(r)
  <2>1. After  BY <1>1, <1>2, Over
  <2>2. req' \in [Request -> RequestState]  BY <1>2, FinishIs DEF Before, TypeOK
  <2>3. TypeOK'  BY <2>2 DEF FindSlug, database, history, Before, TypeOK
  <2> QED  BY <2>1, <2>3
<1>3. CASE ~Finish(r)
  <2>1. PICK step \in {"createOrg", "updateOrg"} :
          Goto(r, step) /\ (step = "createOrg" <=> req[r].org = None)
    BY <1>3 DEF FindSlug
  <2>2. step \in Steps  BY DEF Steps
  <2>3. findOrgBySlug(req[r].slug) \subseteq {req[r].org}  BY <1>3 DEF FindSlug
  <2>4. /\ req' \in [Request -> RequestState] /\ req'[r] = [req[r] EXCEPT !.pc = step]
        /\ \A q \in Request \ {r} : req'[q] = req[q]
        /\ req[r] \in RequestState /\ Fine(req[r])
    BY <2>1, <2>2, GotoIs DEF Before, TypeOK
  <2>5. /\ req'[r].pc = step /\ req'[r].user = req[r].user /\ req'[r].org = req[r].org
        /\ req'[r].slug = req[r].slug
    BY <2>4 DEF RequestState
  <2>6. ReqOK(req[r])'  BY <1>1, <2>1, <2>4, <2>5 DEF ReqOK, Fine
  <2>7. ClaimOK(req[r])'  BY <1>1, <2>1, <2>3, <2>5 DEF ClaimOK, Claiming, findOrgBySlug
  <2>8. ListOK(req[r])'  BY <2>1, <2>5 DEF ListOK
  <2>9. After  BY <1>1, <2>4, <2>6, <2>7, <2>8, RowsStay DEF Fine
  <2>10. TypeOK'  BY <2>4 DEF FindSlug, database, history, Before, TypeOK
  <2> QED  BY <2>9, <2>10
<1> QED  BY <1>2, <1>3

LEMMA MembershipsTyped ==
  ASSUME TypeOK, RowsInv, NEW a \in Account
  PROVE  Memberships(a) \subseteq Membership
<1>1. ASSUME NEW o \in Org, role[a][o] # None
      PROVE  [org |-> o, slug |-> org[o].slug, role |-> role[a][o]] \in Membership
  <2>1. role[a][o] \in Held  BY <1>1 DEF TypeOK
  <2>2. org[o] # NoOrg  BY <1>1 DEF RowsInv
  <2>3. org[o].slug \in AnySlug  BY <2>2 DEF TypeOK
  <2> QED  BY <2>1, <2>3 DEF Membership
<1> QED  BY <1>1 DEF Memberships

LEMMA ListMembershipsKeeps ==
  ASSUME Before, NEW r \in Request, ListMemberships(r)
  PROVE  After /\ TypeOK'
<1>1. PICK a, found : a = req[r].user /\ found = Memberships(a)  OBVIOUS
<1>2. /\ req[r].pc = "list" /\ UNCHANGED <<org, role>>
      /\ req' = [req EXCEPT ![r].pc = "stored", ![r].listed = found]
  BY <1>1 DEF ListMemberships, database
<1>3. req[r] \in RequestState /\ req \in [Request -> RequestState]  BY DEF Before, TypeOK
<1>4. a \in Account /\ req[r].session \in Session /\ ReqOK(req[r])
  BY <1>1, <1>2 DEF Before, Fine, ReqOK
<1>5. found \subseteq Membership  BY <1>1, <1>4, MembershipsTyped DEF Before
<1>6. req' = [req EXCEPT ![r] = [req[r] EXCEPT !.pc = "stored", !.listed = found]]
  BY <1>2, <1>3 DEF RequestState
<1>7. [req[r] EXCEPT !.pc = "stored", !.listed = found] \in RequestState
  BY <1>3, <1>5 DEF RequestState, Steps
<1>8. /\ req' \in [Request -> RequestState]
      /\ req'[r] = [req[r] EXCEPT !.pc = "stored", !.listed = found]
      /\ \A q \in Request \ {r} : req'[q] = req[q]
  BY <1>3, <1>6, <1>7
<1>9. /\ req'[r].pc = "stored" /\ req'[r].user = a /\ req'[r].org = req[r].org
      /\ req'[r].session = req[r].session /\ req'[r].listed = found
  BY <1>1, <1>3, <1>8 DEF RequestState
<1>10. ReqOK(req[r])'  BY <1>2, <1>4, <1>9 DEF ReqOK
<1>11. ClaimOK(req[r])'  BY <1>9 DEF ClaimOK, Claiming
<1>12. ListOK(req[r])'  BY <1>1, <1>2, <1>9 DEF ListOK, Memberships
<1>13. After  BY <1>2, <1>8, <1>10, <1>11, <1>12, RowsStay DEF Fine
<1>14. TypeOK'  BY <1>8 DEF ListMemberships, database, history, Before, TypeOK
<1> QED  BY <1>13, <1>14

LEMMA ActiveIs ==
  ASSUME NEW listed, NEW stored, NEW slug, NEW m \in resolveActiveMembership(listed, stored, slug)
  PROVE  /\ m \in listed \/ (m = Nobody /\ listed = {})
         /\ \A n \in listed : n.slug = slug => m.slug = slug
<1>1. CASE {n \in listed : n.slug = slug} # {}
  <2>1. m \in {n \in listed : n.slug = slug}  BY <1>1 DEF resolveActiveMembership
  <2> QED  BY <2>1
<1>2. CASE {n \in listed : n.slug = slug} = {}
  <2>1. m \in listed \/ (m = Nobody /\ listed = {})  BY <1>2 DEF resolveActiveMembership
  <2> QED  BY <1>2, <2>1
<1> QED  BY <1>1, <1>2

LEMMA ReadStoredKeeps ==
  ASSUME Before, NEW r \in Request, ReadStored(r)
  PROVE  After /\ TypeOK'
<1>1. PICK m :
        /\ m \in resolveActiveMembership(req[r].listed, session[req[r].session].active, req[r].slug)
        /\ req' = [req EXCEPT ![r].pc = "answered", ![r].active = m]
  BY DEF ReadStored
<1>2. req[r].pc = "stored" /\ UNCHANGED <<org, role>>  BY DEF ReadStored, database
<1>3. req[r] \in RequestState /\ req \in [Request -> RequestState]  BY DEF Before, TypeOK
<1>4. ReqOK(req[r]) /\ ListOK(req[r])  BY DEF Before, Fine
<1>5. /\ m \in req[r].listed \/ (m = Nobody /\ req[r].listed = {})
      /\ \A n \in req[r].listed : n.slug = req[r].slug => m.slug = req[r].slug
  BY <1>1, ActiveIs
<1>6. m \in Membership \cup {Nobody}  BY <1>3, <1>5 DEF RequestState
<1>7. req' = [req EXCEPT ![r] = [req[r] EXCEPT !.pc = "answered", !.active = m]]
  BY <1>1, <1>3 DEF RequestState
<1>8. [req[r] EXCEPT !.pc = "answered", !.active = m] \in RequestState
  BY <1>3, <1>6 DEF RequestState, Steps
<1>9. /\ req' \in [Request -> RequestState]
      /\ req'[r] = [req[r] EXCEPT !.pc = "answered", !.active = m]
      /\ \A q \in Request \ {r} : req'[q] = req[q]
  BY <1>3, <1>7, <1>8
<1>10. /\ req'[r].pc = "answered" /\ req'[r].user = req[r].user /\ req'[r].org = req[r].org
       /\ req'[r].listed = req[r].listed /\ req'[r].active = m /\ req'[r].slug = req[r].slug
       /\ req'[r].crossed = req[r].crossed
  BY <1>3, <1>9 DEF RequestState
<1>11. ReqOK(req[r])'  BY <1>2, <1>4, <1>10 DEF ReqOK
<1>12. ClaimOK(req[r])'  BY <1>10 DEF ClaimOK, Claiming
<1>13. ListOK(req[r])'
  <2>1. Answers(req[r])'  BY <1>5, <1>10 DEF Answers
  <2>2. req[r].crossed \/ req[r].listed = Memberships(req[r].user)  BY <1>2, <1>4 DEF ListOK
  <2> QED  BY <1>2, <1>10, <2>1, <2>2 DEF ListOK, Memberships
<1>14. After  BY <1>2, <1>9, <1>11, <1>12, <1>13, RowsStay DEF Fine
<1>15. TypeOK'  BY <1>9 DEF ReadStored, database, history, Before, TypeOK
<1> QED  BY <1>14, <1>15

-----------------------------------------------------------------------------
\* Steps that no request takes

LEMMA AccountKeeps ==
  ASSUME Before, NEW a \in Account, CreateUser(a) \/ VerifyEmail(a)
  PROVE  After /\ TypeOK'
<1>1. UNCHANGED <<org, role, req>>  BY DEF CreateUser, VerifyEmail
<1>2. After  BY <1>1, AllStay
<1>3. TypeOK'  BY DEF CreateUser, VerifyEmail, history, Before, TypeOK
<1> QED  BY <1>2, <1>3

LEMMA SessionKeeps ==
  ASSUME Before, NEW s \in Session,
         \/ \E a \in Account : SignIn(s, a)
         \/ EndSession(s)
         \/ \E o \in Org : SetActive(s, o)
  PROVE  After /\ TypeOK'
<1>1. UNCHANGED <<account, org, role, mailed, req, hookFailed, created>>
  BY DEF SignIn, EndSession, SetActive, history
<1>2. After  BY <1>1, AllStay
<1> DEFINE Rows == [user : Account, active : Org \cup {None}]
<1>3. session \in [Session -> Rows \cup {NoSession}]  BY DEF Before, TypeOK
<1>4. session' \in [Session -> Rows \cup {NoSession}]
  <2>1. ASSUME NEW a \in Account, SignIn(s, a) PROVE session' \in [Session -> Rows \cup {NoSession}]
    <3>1. /\ session' = [session EXCEPT ![s].user = a] /\ session[s] = NoSession
      BY <2>1 DEF SignIn
    <3>2. [NoSession EXCEPT !.user = a] \in Rows  BY DEF NoSession
    <3> QED  BY <1>3, <3>1, <3>2
  <2>2. ASSUME EndSession(s) PROVE session' \in [Session -> Rows \cup {NoSession}]
    BY <1>3, <2>2 DEF EndSession
  <2>3. ASSUME NEW o \in Org, SetActive(s, o) PROVE session' \in [Session -> Rows \cup {NoSession}]
    <3>1. session' = [session EXCEPT ![s].active = o] /\ session[s].user # None
      BY <2>3 DEF SetActive
    <3>2. session[s] \in Rows  BY <1>3, <3>1 DEF NoSession
    <3>3. [session[s] EXCEPT !.active = o] \in Rows  BY <3>2
    <3> QED  BY <1>3, <3>1, <3>3
  <2> QED  BY <2>1, <2>2, <2>3
<1>5. TypeOK'  BY <1>1, <1>4 DEF Before, TypeOK
<1> QED  BY <1>2, <1>5

LEMMA DeleteRestoreKeeps ==
  ASSUME Before, NEW o \in Org, Delete(o) \/ Restore(o)
  PROVE  After /\ TypeOK'
<1>1. PICK state \in {"live", "deleted"} :
        org[o].state \in {"live", "deleted"} /\ org' = [org EXCEPT ![o].state = state]
  BY DEF Delete, Restore
<1>2. UNCHANGED <<account, role, session, mailed, req, hookFailed, created>>
  BY DEF Delete, Restore, history
<1>3. /\ org \in [Org -> [state : {"live", "deleted"}, slug : AnySlug] \cup {NoOrg}]
  BY DEF Before, TypeOK
<1>4. org[o] \in [state : {"live", "deleted"}, slug : AnySlug]  BY <1>1, <1>3 DEF NoOrg
<1>5. /\ [org[o] EXCEPT !.state = state] \in [state : {"live", "deleted"}, slug : AnySlug]
      /\ [org[o] EXCEPT !.state = state].slug = org[o].slug
  BY <1>4
<1>6. /\ org' \in [Org -> [state : {"live", "deleted"}, slug : AnySlug] \cup {NoOrg}]
      /\ org'[o] = [org[o] EXCEPT !.state = state]
      /\ \A p \in Org \ {o} : org'[p] = org[p]
  BY <1>1, <1>3, <1>5
<1>7. org'[o] # NoOrg
  BY <1>5, <1>6 DEF NoOrg
<1>8. \A p \in Org : org'[p].slug = org[p].slug /\ (org[p] # NoOrg => org'[p] # NoOrg)
  BY <1>5, <1>6, <1>7
<1>9. \A q \in Request : Fine(req[q])'  BY <1>2, <1>8, FineStays DEF Before
<1>10. RowsInv'  BY <1>2, <1>8 DEF Before, RowsInv
<1>11. TypeOK'  BY <1>2, <1>6 DEF Before, TypeOK
<1> QED  BY <1>9, <1>10, <1>11 DEF After

-----------------------------------------------------------------------------
\* Steps that write organizations and memberships

LEMMA OrgTyped ==
  ASSUME TypeOK, NEW o \in Org, NEW row \in [state : {"live", "deleted"}, slug : AnySlug],
         org' = [org EXCEPT ![o] = row]
  PROVE  /\ org' \in [Org -> [state : {"live", "deleted"}, slug : AnySlug] \cup {NoOrg}]
         /\ org'[o] = row /\ org'[o] # NoOrg
         /\ \A p \in Org \ {o} : org'[p] = org[p]
<1>1. row # NoOrg  BY DEF NoOrg
<1> QED  BY <1>1 DEF TypeOK

LEMMA RoleTyped ==
  ASSUME TypeOK, NEW a \in Account, NEW o \in Org, NEW held \in Held \cup {None},
         role' = [role EXCEPT ![a][o] = held]
  PROVE  /\ role' \in [Account -> [Org -> Held \cup {None}]]
         /\ role'[a][o] = held
         /\ \A p \in Org \ {o} : role'[a][p] = role[a][p]
         /\ \A b \in Account \ {a} : role'[b] = role[b]
  BY DEF TypeOK

\* a write of the organization o alone, seen from an account that is no member
LEMMA MembershipsStay ==
  ASSUME NEW x, NEW o, \A p \in Org \ {o} : org'[p] = org[p],
         role'[x] = role[x], role[x][o] = None
  PROVE  Memberships(x)' = Memberships(x)
<1>1. \A p \in Org : role'[x][p] # None => p # o /\ org'[p] = org[p]  OBVIOUS
<1>2. {p \in Org : role[x][p] # None} = {p \in Org : role'[x][p] # None}  OBVIOUS
<1> QED  BY <1>1, <1>2 DEF Memberships

\* the others, once the writing request has gone on to mine
LEMMA OthersFine ==
  ASSUME Before, NEW r \in Request, NEW mine \in RequestState, NEW s, NEW As,
         Cross(r, mine, s, As), Spares(s, As)
  PROVE  \A q \in Request \ {r} : Fine(req[q])'
<1>1. \A q \in Request \ {r} : Noted(q, s, As)  BY CrossIs DEF Before, TypeOK
<1>2. \A q \in Request : req[q] \in RequestState /\ Fine(req[q])  BY DEF Before, TypeOK
<1> QED  BY <1>1, <1>2, FineNoted

LEMMA CreatePersonalOrgKeeps ==
  ASSUME Before, NEW r \in Request, CreatePersonalOrg(r)
  PROVE  After /\ TypeOK'
<1>1. PICK a : a = req[r].user  OBVIOUS
<1>2. PICK mine : mine = [req[r] EXCEPT !.pc = "verification"]  OBVIOUS
<1>3. PICK row : row = [state |-> "live", slug |-> a]  OBVIOUS
<1>4. /\ req[r].pc = "createPersonalOrg"
      /\ org' = [org EXCEPT ![a] = row]
      /\ role' = [role EXCEPT ![a][a] = "owner"]
      /\ Cross(r, mine, a, {a})
      /\ UNCHANGED <<account, session, mailed, hookFailed, created>>
  BY <1>1, <1>2, <1>3 DEF CreatePersonalOrg, history
<1>5. req[r] \in RequestState /\ Fine(req[r]) /\ TypeOK /\ RowsInv  BY DEF Before, TypeOK
<1>6. a \in Account  BY <1>1, <1>4, <1>5 DEF Fine, ReqOK
<1>7. a \in Org /\ a \notin Slug /\ "owner" \in Held /\ "owner" # None
  BY <1>6, Distinct, OwnerHeld DEF Org
<1>8. row \in [state : {"live", "deleted"}, slug : AnySlug] /\ row.slug = a
  BY <1>3, <1>6 DEF AnySlug
<1>9. /\ org' \in [Org -> [state : {"live", "deleted"}, slug : AnySlug] \cup {NoOrg}]
      /\ org'[a].slug = a /\ org'[a] # NoOrg /\ \A p \in Org \ {a} : org'[p] = org[p]
  BY <1>4, <1>5, <1>7, <1>8, OrgTyped
<1>10. /\ role' \in [Account -> [Org -> Held \cup {None}]] /\ role'[a][a] = "owner"
       /\ \A p \in Org \ {a} : role'[a][p] = role[a][p]
       /\ \A b \in Account \ {a} : role'[b] = role[b]
  BY <1>4, <1>5, <1>6, <1>7, RoleTyped
<1>11. mine \in RequestState /\ mine.pc = "verification" /\ mine.user = a /\ mine.org = req[r].org
  BY <1>1, <1>2, <1>5 DEF RequestState, Steps
<1>12. req' \in [Request -> RequestState] /\ req'[r] = mine
  BY <1>4, <1>5, <1>11, CrossIs DEF TypeOK
<1>13. Spares(a, {a})
  <2>1. \A o \in Org : org[o] # NoOrg => org'[o] # NoOrg  BY <1>9
  <2>2. \A t \in Slug \ {a} : findOrgBySlug(t)' \subseteq findOrgBySlug(t)
    BY <1>7, <1>9 DEF findOrgBySlug
  <2>3. ASSUME NEW x \in Account \ {a} PROVE Memberships(x)' = Memberships(x)
    <3>1. role[x][a] = None  BY <1>5, <1>6 DEF RowsInv
    <3> QED  BY <1>9, <1>10, <3>1, MembershipsStay
  <2> QED  BY <2>1, <2>2, <2>3 DEF Spares
<1>14. \A q \in Request \ {r} : Fine(req[q])'  BY <1>4, <1>11, <1>13, OthersFine
<1>15. Fine(req[r])'
  <2>1. ReqOK(req[r])'  BY <1>5, <1>6, <1>9, <1>11, <1>12 DEF Fine, ReqOK
  <2>2. ClaimOK(req[r])'  BY <1>11, <1>12 DEF ClaimOK, Claiming
  <2>3. ListOK(req[r])'  BY <1>11, <1>12 DEF ListOK
  <2> QED  BY <2>1, <2>2, <2>3 DEF Fine
<1>16. RowsInv'
  <2>1. \A x \in Account, o \in Org : role'[x][o] # None => org'[o] # NoOrg
    BY <1>5, <1>9, <1>10 DEF RowsInv
  <2>2. \A x \in Account, b \in Account : role'[x][b] # None => x = b
    BY <1>5, <1>10 DEF RowsInv, Org
  <2>3. \A o \in Org : org'[o].slug \in Account => org'[o].slug = o
    BY <1>5, <1>9 DEF RowsInv
  <2>4. ASSUME NEW o \in Org, NEW p \in Org, org'[o].slug = org'[p].slug, org'[o].slug # None
        PROVE  o = p
    BY <1>5, <1>6, <1>9, <2>3, <2>4 DEF RowsInv
  <2> QED  BY <2>1, <2>2, <2>3, <2>4 DEF RowsInv
<1>17. TypeOK'  BY <1>4, <1>5, <1>9, <1>10, <1>12 DEF TypeOK
<1> QED  BY <1>14, <1>15, <1>16, <1>17 DEF After

\* a claim that was lost: the request goes to "failed" with what it read crossed
LEMMA LostKeeps ==
  ASSUME Before, NEW r \in Request, UNCHANGED <<org, role>>, Goto(r, "failed"),
         req[r].pc # "idle", req[r].crossed
  PROVE  After /\ req' \in [Request -> RequestState]
<1>1. "failed" \in Steps  BY DEF Steps
<1>2. req[r] \in RequestState /\ Fine(req[r])  BY DEF Before, TypeOK
<1>3. /\ req' \in [Request -> RequestState] /\ req'[r] = [req[r] EXCEPT !.pc = "failed"]
      /\ \A q \in Request \ {r} : req'[q] = req[q]
  BY <1>1, GotoIs DEF Before, TypeOK
<1>4. /\ req'[r].pc = "failed" /\ req'[r].user = req[r].user /\ req'[r].org = req[r].org
      /\ req'[r].crossed
  BY <1>2, <1>3 DEF RequestState
<1>5. ReqOK(req[r])'  BY <1>2, <1>4 DEF Fine, ReqOK
<1>6. ClaimOK(req[r])'  BY <1>4 DEF ClaimOK, Claiming
<1>7. ListOK(req[r])'  BY <1>4 DEF ListOK
<1> QED  BY <1>3, <1>5, <1>6, <1>7, RowsStay DEF Fine

LEMMA CreateOrgKeeps ==
  ASSUME Before, NEW r \in Request, CreateOrg(r)
  PROVE  After /\ TypeOK'
<1>1. PICK u, s : u = req[r].user /\ s = req[r].slug  OBVIOUS
<1>2. req[r].pc = "createOrg" /\ UNCHANGED <<account, session, mailed, hookFailed, created>>
  BY DEF CreateOrg, history
<1>3. req[r] \in RequestState /\ Fine(req[r]) /\ TypeOK /\ RowsInv  BY DEF Before, TypeOK
<1>4. u \in Account /\ s \in Slug /\ req[r].org = None  BY <1>1, <1>2, <1>3 DEF Fine, ReqOK
<1>5. CASE Taken(s) /\ Goto(r, "failed") /\ UNCHANGED <<org, role>>
  <2>1. PICK o \in Org : org[o].slug = s  BY <1>5 DEF Taken
  <2>2. o # None  BY Distinct DEF Org
  <2>3. ~ findOrgBySlug(s) \subseteq {None}  BY <2>1, <2>2 DEF findOrgBySlug
  <2>4. req[r].crossed  BY <1>1, <1>2, <1>3, <1>4, <2>3 DEF Fine, ClaimOK, Claiming
  <2>5. After /\ req' \in [Request -> RequestState]  BY <1>2, <1>5, <2>4, LostKeeps
  <2>6. TypeOK'  BY <1>2, <1>3, <1>5, <2>5 DEF TypeOK
  <2> QED  BY <2>5, <2>6
<1>6. CASE ~Taken(s)
  <2>1. PICK row : row = [state |-> "live", slug |-> s]  OBVIOUS
  <2>2. PICK o \in TeamOrg :
          /\ org[o] = NoOrg
          /\ org' = [org EXCEPT ![o] = row]
          /\ role' = [role EXCEPT ![u][o] = "owner"]
          /\ Cross(r, Idle, s, {u})
    BY <1>1, <1>6, <2>1 DEF CreateOrg
  <2>3. o \in Org /\ o \notin Account /\ "owner" \in Held /\ s \notin Account /\ s # None
    BY <1>4, Distinct, OwnerHeld DEF Org
  <2>4. row \in [state : {"live", "deleted"}, slug : AnySlug] /\ row.slug = s
    BY <1>4, <2>1 DEF AnySlug
  <2>5. /\ org' \in [Org -> [state : {"live", "deleted"}, slug : AnySlug] \cup {NoOrg}]
        /\ org'[o].slug = s /\ org'[o] # NoOrg /\ \A p \in Org \ {o} : org'[p] = org[p]
    BY <1>3, <2>2, <2>3, <2>4, OrgTyped
  <2>6. /\ role' \in [Account -> [Org -> Held \cup {None}]] /\ role'[u][o] = "owner"
        /\ \A p \in Org \ {o} : role'[u][p] = role[u][p]
        /\ \A b \in Account \ {u} : role'[b] = role[b]
    BY <1>3, <1>4, <2>2, <2>3, RoleTyped
  <2>7. req' \in [Request -> RequestState] /\ req'[r] = Idle
    BY <1>3, <2>2, IdleIs, CrossIs DEF TypeOK
  <2>8. Spares(s, {u})
    <3>1. \A p \in Org : org[p] # NoOrg => org'[p] # NoOrg  BY <2>5
    <3>2. \A t \in Slug \ {s} : findOrgBySlug(t)' \subseteq findOrgBySlug(t)
      BY <2>5 DEF findOrgBySlug
    <3>3. ASSUME NEW x \in Account \ {u} PROVE Memberships(x)' = Memberships(x)
      <4>1. role[x][o] = None  BY <1>3, <2>2, <2>3 DEF RowsInv
      <4> QED  BY <2>5, <2>6, <4>1, MembershipsStay
    <3> QED  BY <3>1, <3>2, <3>3 DEF Spares
  <2>9. \A q \in Request \ {r} : Fine(req[q])'  BY <2>2, <2>8, IdleIs, OthersFine
  <2>10. Fine(req[r])'  BY <2>7, FineIdle
  <2>11. RowsInv'
    <3>1. \A x \in Account, p \in Org : role'[x][p] # None => org'[p] # NoOrg
      BY <1>3, <2>5, <2>6 DEF RowsInv
    <3>2. \A x \in Account, b \in Account : role'[x][b] # None => x = b
      BY <1>3, <2>3, <2>6 DEF RowsInv, Org
    <3>3. \A p \in Org : org'[p].slug \in Account => org'[p].slug = p
      BY <1>3, <2>3, <2>5 DEF RowsInv
    <3>4. \A p \in Org : org[p].slug # s  BY <1>6 DEF Taken
    <3>5. \A p \in Org, z \in Org :
            org'[p].slug = org'[z].slug /\ org'[p].slug # None => p = z
      BY <1>3, <2>5, <3>4 DEF RowsInv
    <3> QED  BY <3>1, <3>2, <3>3, <3>5 DEF RowsInv
  <2>12. TypeOK'  BY <1>2, <1>3, <2>5, <2>6, <2>7 DEF TypeOK
  <2> QED  BY <2>9, <2>10, <2>11, <2>12 DEF After
<1> QED  BY <1>1, <1>5, <1>6 DEF CreateOrg

LEMMA UpdateOrgKeeps ==
  ASSUME Before, NEW r \in Request, UpdateOrg(r)
  PROVE  After /\ TypeOK'
<1>1. PICK o, s : o = req[r].org /\ s = req[r].slug  OBVIOUS
<1>2. /\ req[r].pc = "updateOrg"
      /\ UNCHANGED <<account, role, session, mailed, hookFailed, created>>
  BY DEF UpdateOrg, history
<1>3. req[r] \in RequestState /\ Fine(req[r]) /\ TypeOK /\ RowsInv  BY DEF Before, TypeOK
<1>4. o \in Org /\ s \in Slug /\ org[o] # NoOrg
  <2>1. o \in Org /\ s \in Slug  BY <1>1, <1>2, <1>3 DEF Fine, ReqOK
  <2>2. o # None  BY <2>1, Distinct DEF Org
  <2> QED  BY <1>1, <1>3, <2>1, <2>2 DEF Fine, ReqOK
<1>5. CASE findOrgBySlug(s) \ {o} # {}
  <2>1. Goto(r, "failed") /\ UNCHANGED org  BY <1>1, <1>5 DEF UpdateOrg
  <2>2. req[r].crossed  BY <1>1, <1>2, <1>3, <1>5 DEF Fine, ClaimOK, Claiming
  <2>3. After /\ req' \in [Request -> RequestState]  BY <1>2, <2>1, <2>2, LostKeeps
  <2>4. TypeOK'  BY <1>2, <1>3, <2>1, <2>3 DEF TypeOK
  <2> QED  BY <2>3, <2>4
<1>6. CASE findOrgBySlug(s) \ {o} = {}
  <2>1. PICK row : row = [org[o] EXCEPT !.slug = s]  OBVIOUS
  <2>2. PICK As : As = Members(o)  OBVIOUS
  <2>3. org' = [org EXCEPT ![o].slug = s] /\ Cross(r, Idle, s, As)
    BY <1>1, <1>6, <2>2 DEF UpdateOrg
  <2>4. org' = [org EXCEPT ![o] = row]  BY <2>1, <2>3
  <2>5. row \in [state : {"live", "deleted"}, slug : AnySlug] /\ row.slug = s
    <3>1. org[o] \in [state : {"live", "deleted"}, slug : AnySlug]  BY <1>3, <1>4 DEF TypeOK
    <3> QED  BY <1>4, <2>1, <3>1 DEF AnySlug
  <2>6. /\ org' \in [Org -> [state : {"live", "deleted"}, slug : AnySlug] \cup {NoOrg}]
        /\ org'[o].slug = s /\ org'[o] # NoOrg /\ \A p \in Org \ {o} : org'[p] = org[p]
    BY <1>3, <1>4, <2>4, <2>5, OrgTyped
  <2>7. req' \in [Request -> RequestState] /\ req'[r] = Idle
    BY <1>3, <2>3, IdleIs, CrossIs DEF TypeOK
  <2>8. Spares(s, As)
    <3>1. \A p \in Org : org[p] # NoOrg => org'[p] # NoOrg  BY <2>6
    <3>2. \A t \in Slug \ {s} : findOrgBySlug(t)' \subseteq findOrgBySlug(t)
      BY <2>6 DEF findOrgBySlug
    <3>3. ASSUME NEW x \in Account \ As PROVE Memberships(x)' = Memberships(x)
      <4>1. role[x][o] = None  BY <2>2 DEF Members
      <4> QED  BY <1>2, <2>6, <4>1, MembershipsStay
    <3> QED  BY <3>1, <3>2, <3>3 DEF Spares
  <2>9. \A q \in Request \ {r} : Fine(req[q])'  BY <2>3, <2>8, IdleIs, OthersFine
  <2>10. Fine(req[r])'  BY <2>7, FineIdle
  <2>11. s \notin Account /\ s # None  BY <1>4, Distinct
  <2>12. RowsInv'
    <3>1. \A x \in Account, p \in Org : role'[x][p] # None => org'[p] # NoOrg
      BY <1>2, <1>3, <2>6 DEF RowsInv
    <3>2. \A x \in Account, b \in Account : role'[x][b] # None => x = b
      BY <1>2, <1>3 DEF RowsInv
    <3>3. \A p \in Org : org'[p].slug \in Account => org'[p].slug = p
      BY <1>3, <2>6, <2>11 DEF RowsInv
    <3>4. \A p \in Org \ {o} : org[p].slug # s  BY <1>6 DEF findOrgBySlug
    <3>5. \A p \in Org, z \in Org :
            org'[p].slug = org'[z].slug /\ org'[p].slug # None => p = z
      BY <1>3, <2>6, <3>4 DEF RowsInv
    <3> QED  BY <3>1, <3>2, <3>3, <3>5 DEF RowsInv
  <2>13. TypeOK'  BY <1>2, <1>3, <2>6, <2>7 DEF TypeOK
  <2> QED  BY <2>9, <2>10, <2>12, <2>13 DEF After
<1> QED  BY <1>5, <1>6

LEMMA ChangeMemberKeeps ==
  ASSUME Before, NEW a \in Account, NEW o \in TeamOrg, NEW held \in Held \cup {None},
         ChangeMember(a, o, held)
  PROVE  After /\ TypeOK'
<1>1. /\ org[o] # NoOrg
      /\ role' = [role EXCEPT ![a][o] = held]
      /\ req' = [q \in Request |-> [req[q] EXCEPT !.crossed = @ \/ HasListed(req[q], {a})]]
      /\ UNCHANGED <<account, org, session, mailed, hookFailed, created>>
  BY DEF ChangeMember, history
<1>2. TypeOK /\ RowsInv /\ o \in Org /\ o \notin Account  BY Distinct DEF Before, Org
<1>3. /\ role' \in [Account -> [Org -> Held \cup {None}]] /\ role'[a][o] = held
      /\ \A p \in Org \ {o} : role'[a][p] = role[a][p]
      /\ \A b \in Account \ {a} : role'[b] = role[b]
  BY <1>1, <1>2, RoleTyped
<1>4. ASSUME NEW q \in Request
      PROVE  req'[q] \in RequestState /\ Noted(q, None, {a})
  <2>1. req[q] \in RequestState /\ Fine(req[q])  BY DEF Before, TypeOK
  <2>2. ~Claims(req[q], None)
    BY <2>1, Distinct DEF Claims, Fine, ReqOK
  <2>3. req'[q] = [req[q] EXCEPT !.crossed = @ \/ HasListed(req[q], {a})]  BY <1>1
  <2>4. (req[q].crossed \/ HasListed(req[q], {a}))
          = (req[q].crossed \/ Claims(req[q], None) \/ HasListed(req[q], {a}))
    BY <2>2
  <2>5. req'[q] = [req[q] EXCEPT !.crossed =
                     @ \/ Claims(req[q], None) \/ HasListed(req[q], {a})]
    BY <2>3, <2>4
  <2> QED  BY <2>1, <2>5, NotedIs
<1>5. req' \in [Request -> RequestState]
  <2>1. req' = [q \in Request |-> req'[q]]  BY <1>1
  <2> QED  BY <1>4, <2>1
<1>6. Spares(None, {a})
  <2>1. \A b \in Account \ {a} : Memberships(b)' = Memberships(b)
    BY <1>1, <1>3 DEF Memberships
  <2> QED  BY <1>1, <2>1 DEF Spares, findOrgBySlug
<1>7. \A q \in Request : Fine(req[q])'
  <2>1. \A q \in Request : req[q] \in RequestState /\ Fine(req[q])  BY DEF Before, TypeOK
  <2> QED  BY <1>4, <1>6, <2>1, FineNoted
<1>8. RowsInv'
  <2>1. \A x \in Account, p \in Org : role'[x][p] # None => org'[p] # NoOrg
    BY <1>1, <1>2, <1>3 DEF RowsInv
  <2>2. \A x \in Account, b \in Account : role'[x][b] # None => x = b
    BY <1>2, <1>3 DEF RowsInv, Org
  <2> QED  BY <1>1, <1>2, <2>1, <2>2 DEF RowsInv
<1>9. TypeOK'  BY <1>1, <1>2, <1>3, <1>5 DEF TypeOK
<1> QED  BY <1>7, <1>8, <1>9 DEF After

-----------------------------------------------------------------------------
\* Whose account is whole

Whole(a) ==
  account[a] # "none" /\ a \notin hookFailed \cup created =>
    /\ PersonalAccounts =>
         (org[a] # NoOrg /\ role[a][a] = "owner") \/ InFlight(a, {"createPersonalOrg"})
    /\ a \in mailed \/ InFlight(a, {"createPersonalOrg", "verification"})

AfterInsert == {"createPersonalOrg", "verification"}

\* nothing that makes the account a whole is taken back
Lasts(a) ==
  /\ account'[a] # "none" => account[a] # "none" \/ a \in created'
  /\ org[a] # NoOrg => org'[a] # NoOrg
  /\ role[a][a] = "owner" => role'[a][a] = "owner"
  /\ a \in mailed => a \in mailed'
  /\ a \in hookFailed => a \in hookFailed'
  /\ a \in created => a \in created'

LEMMA WholeLasts ==
  ASSUME NEW a, Whole(a), Lasts(a),
         \A q \in Request : req[q].user = a /\ req[q].pc \in AfterInsert =>
           req'[q].user = req[q].user /\ req'[q].pc = req[q].pc
  PROVE  Whole(a)'
<1> SUFFICES ASSUME account'[a] # "none", a \notin hookFailed' \cup created'
             PROVE  /\ PersonalAccounts => \/ org'[a] # NoOrg /\ role'[a][a] = "owner"
                                           \/ InFlight(a, {"createPersonalOrg"})'
                    /\ a \in mailed' \/ InFlight(a, {"createPersonalOrg", "verification"})'
  BY DEF Whole
<1>1. account[a] # "none" /\ a \notin hookFailed \cup created  BY DEF Lasts
<1>2. InFlight(a, {"createPersonalOrg"}) => InFlight(a, {"createPersonalOrg"})'
  BY DEF InFlight, AfterInsert
<1>3. InFlight(a, {"createPersonalOrg", "verification"})
        => InFlight(a, {"createPersonalOrg", "verification"})'
  BY DEF InFlight, AfterInsert
<1> QED  BY <1>1, <1>2, <1>3 DEF Whole, Lasts

\* a step of r leaves the other requests where they are
LEMMA OthersGoOn ==
  ASSUME TypeOK, NEW r \in Request, Begin(r) \/ Handle(r) \/ Fail(r)
  PROVE  \A q \in Request \ {r} : req'[q].user = req[q].user /\ req'[q].pc = req[q].pc
<1> DEFINE Others == \A q \in Request \ {r} : req'[q].user = req[q].user /\ req'[q].pc = req[q].pc
<1>1. ASSUME NEW step, Goto(r, step) PROVE Others  BY <1>1 DEF Goto, TypeOK
<1>2. ASSUME Finish(r) PROVE Others  BY <1>2 DEF Finish, TypeOK
<1>3. ASSUME NEW mine, NEW s, NEW As, Cross(r, mine, s, As) PROVE Others
  <2>1. ASSUME NEW q \in Request \ {r} PROVE req'[q].user = req[q].user /\ req'[q].pc = req[q].pc
    <3>1. req'[q] = [req[q] EXCEPT !.crossed = @ \/ Claims(req[q], s) \/ HasListed(req[q], As)]
      BY <1>3 DEF Cross
    <3>2. Noted(q, s, As)  BY <3>1, NotedIs DEF TypeOK
    <3> QED  BY <3>2 DEF Noted
  <2> QED  BY <2>1
<1>4. ASSUME Begin(r) PROVE Others  BY <1>4, BeginIs DEF TypeOK
<1>5. ASSUME FindOrg(r) PROVE Others  BY <1>2, <1>5 DEF FindOrg, TypeOK
<1>6. ASSUME ListMemberships(r) \/ ReadStored(r) PROVE Others
  BY <1>6 DEF ListMemberships, ReadStored, TypeOK
<1>7. ASSUME FindExistingAccount(r) \/ NotifyExisting(r) \/ InsertUser(r) PROVE Others
  BY <1>1, <1>2, <1>7 DEF FindExistingAccount, NotifyExisting, InsertUser
<1>8. ASSUME CreatePersonalOrg(r) \/ CreateOrg(r) \/ UpdateOrg(r) PROVE Others
  BY <1>1, <1>3, <1>8 DEF CreatePersonalOrg, CreateOrg, UpdateOrg
<1>9. ASSUME SendVerification(r) \/ FindUser(r) \/ RevokeSessions(r) \/ Respond(r) \/ Fail(r)
      PROVE Others
  BY <1>1, <1>2, <1>9 DEF SendVerification, FindUser, RevokeSessions, Respond, Fail
<1>10. ASSUME FindMembership(r) \/ FindSlug(r) PROVE Others
  BY <1>1, <1>2, <1>10 DEF FindMembership, FindSlug
<1> QED  BY <1>4, <1>5, <1>6, <1>7, <1>8, <1>9, <1>10 DEF Handle

\* the rows of an account only grow, but for the account being inserted
LEMMA RowsLast ==
  ASSUME Before, Next, NEW a \in Account,
         ~\E r \in Request : InsertUser(r) /\ req[r].user = a
  PROVE  Lasts(a)
<1>0. /\ TypeOK /\ RowsInv /\ a \in Org /\ a \notin TeamOrg
      /\ \A r \in Request : req[r] \in RequestState /\ ReqOK(req[r])
  BY Distinct DEF Before, Fine, Org, TypeOK
<1>1. ASSUME NEW r \in Request, Begin(r) \/ FindExistingAccount(r) \/ NotifyExisting(r)
                  \/ FindUser(r) \/ FindOrg(r) \/ FindMembership(r) \/ FindSlug(r)
                  \/ ListMemberships(r) \/ ReadStored(r) \/ Respond(r)
      PROVE  Lasts(a)
  <2>1. UNCHANGED <<database, history>>
    BY <1>1 DEF Begin, FindExistingAccount, NotifyExisting, FindUser, FindOrg, FindMembership,
               FindSlug, ListMemberships, ReadStored, Respond
  <2> QED  BY <2>1 DEF Lasts, database, history
<1>2. ASSUME NEW r \in Request, InsertUser(r) PROVE Lasts(a)
  <2>1. req[r].user # a  BY <1>2
  <2>2. account'[a] = account[a]  BY <1>0, <1>2, <2>1 DEF InsertUser, TypeOK
  <2> QED  BY <1>2, <2>2 DEF Lasts, InsertUser, history
<1>3. ASSUME NEW r \in Request, CreatePersonalOrg(r) PROVE Lasts(a)
  <2>1. PICK b : b = req[r].user  OBVIOUS
  <2>2. /\ org' = [org EXCEPT ![b] = [state |-> "live", slug |-> b]]
        /\ role' = [role EXCEPT ![b][b] = "owner"]
        /\ UNCHANGED <<account, mailed, hookFailed, created>>
    BY <1>3, <2>1 DEF CreatePersonalOrg, history
  <2>3. org[a] # NoOrg => org'[a] # NoOrg  BY <1>0, <2>2 DEF TypeOK, NoOrg
  <2>4. role[a][a] = "owner" => role'[a][a] = "owner"  BY <1>0, <2>2 DEF TypeOK
  <2> QED  BY <2>2, <2>3, <2>4 DEF Lasts
<1>4. ASSUME NEW r \in Request, SendVerification(r) \/ RevokeSessions(r) \/ Fail(r) PROVE Lasts(a)
  BY <1>4 DEF SendVerification, RevokeSessions, Fail, Lasts, database, history
<1>5. ASSUME NEW r \in Request, CreateOrg(r) PROVE Lasts(a)
  <2>1. UNCHANGED <<account, mailed, hookFailed, created>>  BY <1>5 DEF CreateOrg, history
  <2>2. org'[a] = org[a] /\ role'[a][a] = role[a][a]
    <3>1. CASE UNCHANGED <<org, role>>  BY <3>1
    <3>2. CASE ~ UNCHANGED <<org, role>>
      <4>1. PICK u, s : u = req[r].user /\ s = req[r].slug  OBVIOUS
      <4>2. PICK o \in TeamOrg : /\ org' = [org EXCEPT ![o] = [state |-> "live", slug |-> s]]
                                 /\ role' = [role EXCEPT ![u][o] = "owner"]
        BY <1>5, <3>2, <4>1 DEF CreateOrg
      <4>3. o # a  BY <1>0
      <4> QED  BY <1>0, <4>2, <4>3 DEF TypeOK
    <3> QED  BY <3>1, <3>2
  <2> QED  BY <2>1, <2>2 DEF Lasts
<1>6. ASSUME NEW r \in Request, UpdateOrg(r) PROVE Lasts(a)
  <2>1. UNCHANGED <<account, role, mailed, hookFailed, created>>  BY <1>6 DEF UpdateOrg, history
  <2>2. PICK o, s : o = req[r].org /\ s = req[r].slug  OBVIOUS
  <2>3. UNCHANGED org \/ org' = [org EXCEPT ![o].slug = s]  BY <1>6, <2>2 DEF UpdateOrg
  <2>4. ASSUME org[a] # NoOrg PROVE org'[a] # NoOrg
    <3>1. org[a] \in [state : {"live", "deleted"}, slug : AnySlug]  BY <1>0, <2>4 DEF TypeOK
    <3>2. org'[a].state = org[a].state  BY <1>0, <2>3, <3>1 DEF TypeOK
    <3> QED  BY <3>1, <3>2 DEF NoOrg
  <2> QED  BY <2>1, <2>4 DEF Lasts
<1>7. ASSUME NEW b \in Account, CreateUser(b) \/ VerifyEmail(b) PROVE Lasts(a)
  BY <1>0, <1>7 DEF CreateUser, VerifyEmail, history, Lasts, TypeOK
<1>8. ASSUME NEW s \in Session,
             \/ \E b \in Account : SignIn(s, b)
             \/ EndSession(s)
             \/ \E o \in Org : SetActive(s, o)
      PROVE  Lasts(a)
  BY <1>8 DEF SignIn, EndSession, SetActive, history, Lasts
<1>9. ASSUME NEW o \in Org, Delete(o) \/ Restore(o) PROVE Lasts(a)
  <2>1. PICK state \in {"live", "deleted"} : org' = [org EXCEPT ![o].state = state]
    BY <1>9 DEF Delete, Restore
  <2>2. UNCHANGED <<account, role, mailed, hookFailed, created>>
    BY <1>9 DEF Delete, Restore, history
  <2>3. ASSUME org[a] # NoOrg PROVE org'[a] # NoOrg
    <3>1. org[a] \in [state : {"live", "deleted"}, slug : AnySlug]  BY <1>0, <2>3 DEF TypeOK
    <3>2. org'[a].state \in {"live", "deleted"}  BY <1>0, <2>1, <3>1 DEF TypeOK
    <3> QED  BY <3>2 DEF NoOrg
  <2> QED  BY <2>2, <2>3 DEF Lasts
<1>10. ASSUME NEW b \in Account, NEW o \in TeamOrg, NEW held \in Held \cup {None},
              ChangeMember(b, o, held)
       PROVE  Lasts(a)
  <2>1. /\ role' = [role EXCEPT ![b][o] = held] /\ o # a
        /\ UNCHANGED <<account, org, mailed, hookFailed, created>>
    BY <1>0, <1>10 DEF ChangeMember, history
  <2>2. role'[a][a] = role[a][a]  BY <1>0, <2>1 DEF TypeOK
  <2> QED  BY <2>1, <2>2 DEF Lasts
<1> QED
  BY <1>1, <1>2, <1>3, <1>4, <1>5, <1>6, <1>7, <1>8, <1>9, <1>10 DEF Next, Handle

\* a request that is past the insert is about an account, and goes on, ends
\* with its email queued or breaks off
LEMMA CompleteKeeps ==
  ASSUME Before, AccountsAreComplete, Next
  PROVE  AccountsAreComplete'
<1>0. TypeOK /\ \A r \in Request : req[r] \in RequestState /\ ReqOK(req[r])
  BY DEF Before, Fine, TypeOK
<1> SUFFICES ASSUME NEW a \in Account PROVE Whole(a)'
  BY DEF AccountsAreComplete, Whole
<1>1. Whole(a)  BY DEF AccountsAreComplete, Whole
<1>2. CASE \E r \in Request : InsertUser(r) /\ req[r].user = a
  <2>1. PICK r \in Request : InsertUser(r) /\ req[r].user = a  BY <1>2
  <2>2. CASE account[a] # "none"
    <3>1. req[r].pc = "insertUser" /\ Finish(r)
          /\ UNCHANGED <<account, org, role, session, mailed, hookFailed, created>>
      BY <2>1, <2>2 DEF InsertUser, history
    <3>2. \A q \in Request \ {r} : req'[q] = req[q]  BY <1>0, <3>1, FinishIs DEF TypeOK
    <3>3. Lasts(a)  BY <2>2, <3>1 DEF Lasts
    <3>4. \A q \in Request : req[q].user = a /\ req[q].pc \in AfterInsert =>
            req'[q].user = req[q].user /\ req'[q].pc = req[q].pc
      BY <3>1, <3>2 DEF AfterInsert
    <3> QED  BY <1>1, <3>3, <3>4, WholeLasts
  <2>3. CASE account[a] = "none"
    <3>1. PICK step \in AfterInsert :
            /\ Goto(r, step)
            /\ PersonalAccounts => step = "createPersonalOrg"
      BY <2>1, <2>3, Switches DEF InsertUser, AfterInsert
    <3>2. step \in Steps  BY DEF AfterInsert, Steps
    <3>3. req'[r] = [req[r] EXCEPT !.pc = step]  BY <1>0, <3>1, <3>2, GotoIs DEF TypeOK
    <3>4. req'[r].pc = step /\ req'[r].user = a  BY <1>0, <2>1, <3>3 DEF RequestState
    <3>5. PersonalAccounts => InFlight(a, {"createPersonalOrg"})'
      BY <3>1, <3>4 DEF InFlight
    <3>6. InFlight(a, {"createPersonalOrg", "verification"})'
      BY <3>1, <3>4 DEF InFlight, AfterInsert
    <3> QED  BY <3>5, <3>6 DEF Whole
  <2> QED  BY <2>2, <2>3
<1>3. CASE ~\E r \in Request : InsertUser(r) /\ req[r].user = a
  <2>1. Lasts(a)  BY <1>3, RowsLast
  <2> DEFINE Quiet == \A q \in Request : req[q].user = a /\ req[q].pc \in AfterInsert =>
                        req'[q].user = req[q].user /\ req'[q].pc = req[q].pc
  <2>2. CASE Quiet
    <3> HIDE DEF Quiet
    <3> QED  BY <1>1, <2>1, <2>2, WholeLasts DEF Quiet
  <2>3. CASE ~Quiet
    <3>1. PICK r \in Request :
            /\ req[r].user = a /\ req[r].pc \in AfterInsert
            /\ ~(req'[r].user = req[r].user /\ req'[r].pc = req[r].pc)
      BY <2>3
    <3>2. Begin(r) \/ Handle(r) \/ Fail(r)
      <4>1. ASSUME NEW q \in Request \ {r}, Begin(q) \/ Handle(q) \/ Fail(q) PROVE FALSE
        BY <1>0, <3>1, <4>1, OthersGoOn
      <4>2. req'[r] # req[r]  BY <3>1
      <4>3. ASSUME NEW b \in Account, NEW o \in TeamOrg, NEW held \in Held \cup {None},
                   ChangeMember(b, o, held)
            PROVE  FALSE
        <5>1. PICK c \in BOOLEAN : c = (req[r].crossed \/ HasListed(req[r], {b}))
          BY <1>0 DEF RequestState
        <5>2. req'[r] = [req[r] EXCEPT !.crossed = @ \/ HasListed(req[r], {b})]
          BY <4>3 DEF ChangeMember
        <5>3. req'[r] = [req[r] EXCEPT !.crossed = c]  BY <5>1, <5>2
        <5>4. req'[r].pc = req[r].pc /\ req'[r].user = req[r].user
          BY <1>0, <5>3 DEF RequestState
        <5> QED  BY <3>1, <5>4
      <4>4. ASSUME NEW b \in Account, CreateUser(b) \/ VerifyEmail(b) PROVE FALSE
        BY <4>2, <4>4 DEF CreateUser, VerifyEmail
      <4>5. ASSUME NEW s \in Session, NEW b \in Account, SignIn(s, b) PROVE FALSE
        BY <4>2, <4>5 DEF SignIn
      <4>6. ASSUME NEW s \in Session, EndSession(s) \/ \E o \in Org : SetActive(s, o) PROVE FALSE
        BY <4>2, <4>6 DEF EndSession, SetActive
      <4>7. ASSUME NEW o \in Org, Delete(o) \/ Restore(o) PROVE FALSE
        BY <4>2, <4>7 DEF Delete, Restore
      <4> QED  BY <4>1, <4>3, <4>4, <4>5, <4>6, <4>7 DEF Next
    <3>3. req[r].pc \in AfterInsert => ~Begin(r)
      <4>1. Begin(r) => req[r].pc = "idle"  BY IdleIs DEF Begin
      <4> QED  BY <4>1 DEF AfterInsert
    <3>4. CreatePersonalOrg(r) \/ SendVerification(r) \/ Fail(r)
      BY <3>1, <3>2, <3>3 DEF Handle, AfterInsert, FindExistingAccount, NotifyExisting, InsertUser,
         FindUser, RevokeSessions, FindOrg, FindMembership, FindSlug, CreateOrg, UpdateOrg,
         ListMemberships, ReadStored, Respond
    <3>5. CASE CreatePersonalOrg(r)
      <4>1. PICK mine : mine = [req[r] EXCEPT !.pc = "verification"]  OBVIOUS
      <4>2. /\ org' = [org EXCEPT ![a] = [state |-> "live", slug |-> a]]
            /\ role' = [role EXCEPT ![a][a] = "owner"]
            /\ Cross(r, mine, a, {a})
        BY <3>1, <3>5, <4>1 DEF CreatePersonalOrg
      <4>3. mine \in RequestState /\ mine.pc = "verification" /\ mine.user = a
        BY <1>0, <3>1, <4>1 DEF RequestState, Steps
      <4>4. req'[r] = mine  BY <1>0, <4>2, <4>3, CrossIs DEF TypeOK
      <4>5. InFlight(a, {"createPersonalOrg", "verification"})'
        BY <4>3, <4>4 DEF InFlight
      <4>6. org'[a] # NoOrg /\ role'[a][a] = "owner"
        BY <1>0, <4>2 DEF TypeOK, NoOrg, Org
      <4> QED  BY <4>5, <4>6 DEF Whole
    <3>6. CASE SendVerification(r)
      <4>1. /\ req[r].pc = "verification" /\ Finish(r) /\ a \in mailed'
            /\ UNCHANGED <<account, org, role, session, hookFailed, created>>
        BY <3>1, <3>6 DEF SendVerification, history
      <4>2. \A q \in Request \ {r} : req'[q] = req[q]  BY <1>0, <4>1, FinishIs DEF TypeOK
      <4>3. InFlight(a, {"createPersonalOrg"}) => InFlight(a, {"createPersonalOrg"})'
        BY <4>1, <4>2 DEF InFlight
      <4> QED  BY <1>1, <4>1, <4>3 DEF Whole
    <3>7. CASE Fail(r)
      <4>1. a \in hookFailed'  BY <3>1, <3>7 DEF Fail, AfterInsert
      <4> QED  BY <4>1 DEF Whole
    <3> QED  BY <3>4, <3>5, <3>6, <3>7
  <2> QED  BY <2>2, <2>3
<1> QED  BY <1>2, <1>3

-----------------------------------------------------------------------------
\* The invariant

LEMMA Initially ==
  ASSUME Init
  PROVE  IInv
<1>1. TypeOK
  <2>1. NoOrg \in {NoOrg} /\ NoSession \in {NoSession}  OBVIOUS
  <2> QED  BY <2>1, IdleIs DEF Init, TypeOK
<1>2. RowsInv
  <2>1. \A o \in Org : org[o] = NoOrg  BY DEF Init
  <2>2. \A a \in Account, o \in Org : role[a][o] = None  BY DEF Init
  <2>3. NoOrg.slug = None /\ None \notin Account  BY Distinct DEF NoOrg
  <2>4. Account \subseteq Org  BY DEF Org
  <2> QED  BY <2>1, <2>2, <2>3, <2>4 DEF RowsInv
<1>3. ASSUME NEW r \in Request PROVE Fine(req[r])
  <2>1. req[r] = Idle  BY DEF Init
  <2> QED  BY <2>1, IdleIs DEF Fine, ReqOK, ClaimOK, Claiming, ListOK
<1>4. AccountsAreComplete  BY DEF Init, AccountsAreComplete
<1> QED  BY <1>1, <1>2, <1>3, <1>4 DEF IInv

LEMMA HandleKeeps ==
  ASSUME Before, NEW r \in Request, Begin(r) \/ Handle(r) \/ Fail(r)
  PROVE  After /\ TypeOK'
<1>1. ASSUME Begin(r) PROVE After /\ TypeOK'
  <2>1. After /\ req' \in [Request -> RequestState]  BY <1>1, BeginKeeps
  <2>2. UNCHANGED <<database, history>>  BY <1>1 DEF Begin
  <2>3. TypeOK'  BY <2>1, <2>2 DEF Before, TypeOK, database, history
  <2> QED  BY <2>1, <2>3
<1> QED
  BY <1>1, FindExistingAccountKeeps, NotifyExistingKeeps, InsertUserKeeps, CreatePersonalOrgKeeps,
     SendVerificationKeeps, FindUserKeeps, RevokeSessionsKeeps, FindOrgKeeps, FindMembershipKeeps,
     FindSlugKeeps, CreateOrgKeeps, UpdateOrgKeeps, ListMembershipsKeeps, ReadStoredKeeps,
     RespondKeeps, FailKeeps
  DEF Handle

LEMMA Step ==
  ASSUME IInv, [Next]_vars
  PROVE  IInv'
<1>1. Before  BY DEF IInv, Before
<1>2. CASE Next
  <2>1. After /\ TypeOK'
    <3>1. ASSUME NEW s \in Session,
                 \/ \E a \in Account : SignIn(s, a)
                 \/ EndSession(s)
                 \/ \E o \in Org : SetActive(s, o)
          PROVE  After /\ TypeOK'
      BY <1>1, <3>1, SessionKeeps
    <3>2. ASSUME NEW r \in Request, Begin(r) \/ Handle(r) \/ Fail(r) PROVE After /\ TypeOK'
      BY <1>1, <3>2, HandleKeeps
    <3>3. ASSUME NEW a \in Account, CreateUser(a) \/ VerifyEmail(a) PROVE After /\ TypeOK'
      BY <1>1, <3>3, AccountKeeps
    <3>4. ASSUME NEW o \in Org, Delete(o) \/ Restore(o) PROVE After /\ TypeOK'
      BY <1>1, <3>4, DeleteRestoreKeeps
    <3>5. ASSUME NEW a \in Account, NEW o \in TeamOrg, NEW held \in Held \cup {None},
                 ChangeMember(a, o, held)
          PROVE  After /\ TypeOK'
      BY <1>1, <3>5, ChangeMemberKeeps
    <3> QED  BY <1>2, <3>1, <3>2, <3>3, <3>4, <3>5 DEF Next
  <2>2. AccountsAreComplete'  BY <1>1, <1>2, CompleteKeeps DEF IInv
  <2> QED  BY <2>1, <2>2 DEF IInv, After
<1>3. CASE UNCHANGED vars
  <2>1. UNCHANGED <<account, org, role, session, mailed, req, hookFailed, created>>
    BY <1>3 DEF vars, database, history
  <2>2. After  BY <1>1, <2>1, AllStay
  <2>3. TypeOK'  BY <1>1, <2>1 DEF Before, TypeOK
  <2>4. AccountsAreComplete'  BY <2>1 DEF IInv, AccountsAreComplete, InFlight
  <2> QED  BY <2>2, <2>3, <2>4 DEF IInv, After
<1> QED  BY <1>2, <1>3

\* The invariant holds of every behaviour, whatever the accounts, slugs,
\* sessions and requests and whatever the product offers.
THEOREM Invariant == Spec => []IInv
<1>1. Init => IInv  BY Initially
<1>2. IInv /\ [Next]_vars => IInv'  BY Step
<1> QED  BY <1>1, <1>2, PTL DEF Spec

-----------------------------------------------------------------------------
\* What follows

\* The rows, the sessions and the requests keep their types.
THEOREM TypeCorrect == Spec => []TypeOK
<1>1. IInv => TypeOK  BY DEF IInv
<1> QED  BY <1>1, Invariant, PTL

\* At most one organization has a slug, soft-deleted ones included; a personal
\* organization has one member at most, and no membership is of an
\* organization that was never made (the unique index on organization.slug,
\* packages/platform-db schema; personal-org.ts).
THEOREM SlugsAreUnique == Spec => []RowsInv
<1>1. IInv => RowsInv  BY DEF IInv
<1> QED  BY <1>1, Invariant, PTL

\* Every account is complete, or an administrator made it, or its creation
\* broke off after the insert (auth.ts buildDatabaseHooks, personal-org.ts).
THEOREM Complete == Spec => []AccountsAreComplete
<1>1. IInv => AccountsAreComplete  BY DEF IInv
<1> QED  BY <1>1, Invariant, PTL

\* An internal error for a slug takes another request that wrote it after this
\* one found it free (create.ts, update.ts).
THEOREM OnlyByOverlap == Spec => []InternalErrorOnlyByOverlap
<1>1. IInv => InternalErrorOnlyByOverlap
  BY DEF IInv, Fine, ClaimOK, InternalErrorOnlyByOverlap
<1> QED  BY <1>1, Invariant, PTL

\* no permission of the catalog is a pattern
LEMMA NoWildcards ==
  ASSUME NEW p \in PLATFORM_PERMISSIONS
  PROVE  ~isWildcard(p) /\ p # <<"*">>
<1>1. \/ p = <<"org", "settings", "read">> \/ p = <<"org", "settings", "update">>
      \/ p = <<"org", "members", "read">> \/ p = <<"org", "members", "invite">>
      \/ p = <<"org", "members", "remove">> \/ p = <<"org", "members", "role", "update">>
      \/ p = <<"org", "delete">> \/ p = <<"org", "ownership", "transfer">>
  BY DEF PLATFORM_PERMISSIONS
<1>2. Len(<<"*">>) = 1 /\ <<"*">>[1] = "*"  OBVIOUS
<1>3. ASSUME NEW a, NEW b, p = <<a, b>>, b # "*" PROVE ~isWildcard(p) /\ p # <<"*">>
  <2>1. Len(p) = 2 /\ p[2] = b  BY <1>3
  <2> QED  BY <1>2, <1>3, <2>1 DEF isWildcard, LastSegment
<1>4. ASSUME NEW a, NEW b, NEW c, p = <<a, b, c>>, c # "*" PROVE ~isWildcard(p) /\ p # <<"*">>
  <2>1. Len(p) = 3 /\ p[3] = c  BY <1>4
  <2> QED  BY <1>2, <1>4, <2>1 DEF isWildcard, LastSegment
<1>5. ASSUME NEW a, NEW b, NEW c, NEW d, p = <<a, b, c, d>>, d # "*"
      PROVE  ~isWildcard(p) /\ p # <<"*">>
  <2>1. Len(p) = 4 /\ p[4] = d  BY <1>5
  <2> QED  BY <1>2, <1>5, <2>1 DEF isWildcard, LastSegment
<1>6. "read" # "*" /\ "update" # "*" /\ "invite" # "*" /\ "remove" # "*" /\ "delete" # "*"
      /\ "transfer" # "*"
  OBVIOUS
<1> QED  BY <1>1, <1>3, <1>4, <1>5, <1>6

LEMMA OrgRoleGrants ==
  ASSUME NEW held
  PROVE  permissionsForOrgRole(held) \subseteq PLATFORM_PERMISSIONS
<1>1. ASSUME NEW d, NEW universe PROVE buildRole(d, universe, {}) \subseteq universe
  BY DEF buildRole, expandPatterns
<1>2. ASSUME held \in RoleName
      PROVE  BUILT_IN_ROLES[held] =
               buildRole(BUILT_IN_ROLE_DEFINITIONS[held], PLATFORM_PERMISSIONS, {})
  BY <1>2 DEF BUILT_IN_ROLES, buildBuiltInRoles
<1> QED  BY <1>1, <1>2 DEF permissionsForOrgRole

\* the gate of the organization routes asks for a permission by its id
LEMMA GateIs ==
  ASSUME NEW held, NEW p \in PLATFORM_PERMISSIONS
  PROVE  satisfies(permissionsForOrgRole(held), p) <=> p \in permissionsForOrgRole(held)
<1>1. \A g \in permissionsForOrgRole(held) : ~isWildcard(g) /\ g # <<"*">>
  BY OrgRoleGrants, NoWildcards
<1>2. ~isWildcard(p)  BY NoWildcards
<1> QED  BY <1>1, <1>2 DEF satisfies, matchesPattern

\* GET /api/me offers what the organization routes serve
\* (me.ts resolveActiveMembership, authorization.ts authorizeOrg).
THEOREM MeOffers == Spec => []MeOffersServed
<1>1. ASSUME IInv PROVE MeOffersServed
  <2> SUFFICES ASSUME NEW r \in Request, req[r].pc = "answered", ~req[r].crossed
               PROVE  LET a == req[r].user
                          m == req[r].active
                      IN IF m = Nobody THEN \A o \in Org : role[a][o] = None
                         ELSE /\ role[a][m.org] # None
                              /\ org[m.org].state = "live" =>
                                   \A p \in PLATFORM_PERMISSIONS :
                                     p \in permissionsForOrgRole(m.role) <=> Admits(a, m.org, p)
                              /\ \A o \in Org :
                                   role[a][o] # None /\ org[o].slug = req[r].slug => m.org = o
    BY DEF MeOffersServed
  <2> DEFINE a == req[r].user
  <2> DEFINE m == req[r].active
  <2>1. /\ TypeOK /\ RowsInv /\ a \in Account
        /\ req[r].listed = Memberships(a) /\ Answers(req[r])
    BY <1>1 DEF IInv, Fine, ReqOK, ListOK
  <2>2. \A o \in Org : role[a][o] # None =>
          [org |-> o, slug |-> org[o].slug, role |-> role[a][o]] \in req[r].listed
    BY <2>1 DEF Memberships
  <2>3. CASE m = Nobody
    <3>1. m \notin req[r].listed  BY <2>1, <2>3, Distinct DEF Memberships, Nobody, Org
    <3>2. req[r].listed = {}  BY <2>1, <3>1 DEF Answers
    <3> QED  BY <2>2, <2>3, <3>2
  <2>4. CASE m # Nobody
    <3>1. m \in Memberships(a)  BY <2>1, <2>4 DEF Answers
    <3>2. PICK o \in Org : /\ role[a][o] # None
                           /\ m = [org |-> o, slug |-> org[o].slug, role |-> role[a][o]]
      BY <3>1 DEF Memberships
    <3>3. m.org = o /\ m.slug = org[o].slug /\ m.role = role[a][o]  BY <3>2
    <3>4. ASSUME NEW p \in PLATFORM_PERMISSIONS, org[m.org].state = "live"
          PROVE  p \in permissionsForOrgRole(m.role) <=> Admits(a, m.org, p)
      BY <3>3, <3>4, GateIs DEF Admits
    <3>5. ASSUME NEW t \in Org, role[a][t] # None, org[t].slug = req[r].slug PROVE m.org = t
      <4>1. m.slug = req[r].slug  BY <2>1, <2>2, <3>5 DEF Answers
      <4>2. org[t].slug # None
        <5>1. org[t] # NoOrg  BY <2>1, <3>5 DEF RowsInv
        <5>2. org[t].slug \in AnySlug  BY <2>1, <5>1 DEF TypeOK
        <5> QED  BY <5>2, Distinct DEF AnySlug
      <4> QED  BY <2>1, <3>3, <3>5, <4>1, <4>2 DEF RowsInv
    <3> QED  BY <2>4, <3>2, <3>3, <3>4, <3>5
  <2> QED  BY <2>3, <2>4
<1> QED  BY <1>1, Invariant, PTL

=============================================================================
