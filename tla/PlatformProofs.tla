----------------------------- MODULE PlatformProofs -----------------------------
(***************************************************************************)
(* Theorems about what every product has: ControlPlane, for manifests of   *)
(* any length over any ids and any number of organizations, keys, values   *)
(* and overlapping writes, and Access, for any number of calls under way,  *)
(* of session rows and of screens.  Each has an invariant of its own.      *)
(*                                                                         *)
(* ControlPlane's: the registry's part (BootInv) says how much of the      *)
(* manifests the loops have read and that nothing read so far was refused; *)
(* the writes' part (AuditInv) that a pair nobody spoiled is recorded as   *)
(* it is stored, but for the one write between the two.                    *)
(*                                                                         *)
(* Access's: each call under way has behind it what its answer will claim  *)
(* (CallOK), the trail lacks a sign-in only while its row is being written *)
(* (TrailOK), the form waits for a call its page offers and confirms what  *)
(* was done (ScreenOK), and while sessions are being revoked no list is    *)
(* due, unless one was overtaken (PanelOK).                                *)
(***************************************************************************)
EXTENDS MCPlatform, SequenceTheorems, TLAPS

-----------------------------------------------------------------------------
\* ControlPlane

Declared == contributed.permissions
Granted == contributed.memberDefaults

\* the first n ids are all new
Sound(n) ==
  \A i \in 1..n : Declared[i] \notin PLATFORM_PERMISSIONS
                    /\ \A j \in 1..(i - 1) : Declared[j] # Declared[i]

ListsOK ==
  /\ Declared \in Seq(ModuleIds)
  /\ Granted \in Seq(ModuleIds \cup PLATFORM_PERMISSIONS)

BootInv ==
  /\ boot \in Registry
  /\ boot.pc = "declaring" =>
       /\ boot.i \in 1..(Len(Declared) + 1)
       /\ boot.universe = PLATFORM_PERMISSIONS \cup {Declared[k] : k \in 1..(boot.i - 1)}
       /\ boot.memberDefaults = {}
       /\ Sound(boot.i - 1)
  /\ boot.pc \in {"granting", "serving"} =>
       /\ boot.universe = PLATFORM_PERMISSIONS \cup {Declared[k] : k \in 1..Len(Declared)}
       /\ Sound(Len(Declared))
       /\ boot.i \in 1..(Len(Granted) + 1)
       /\ boot.memberDefaults = {Granted[k] : k \in 1..(boot.i - 1)}
       /\ boot.memberDefaults \subseteq boot.universe
  /\ boot.pc = "serving" => boot.i = Len(Granted) + 1
  /\ boot.pc = "refused" => Invalid

WritesOK ==
  /\ override \in [Org \X Key -> Value \cup {None}]
  /\ recorded \in [Org \X Key -> Value \cup {None}]
  /\ req \in [Request -> Write]
  /\ \A r \in Request : req[r].pc # "idle" => Target(r) \in Org \X Key /\ req[r].value \in Value
  /\ unrecorded \in SUBSET (Org \X Key)
  /\ crossed \in SUBSET (Org \X Key)

\* a write that stored its value for p and has not recorded it
Pending(r, p) == req[r].pc = "audit" /\ Target(r) = p

AuditInv ==
  \A p \in (Org \X Key) \ (unrecorded \cup crossed) :
    /\ (\A r \in Request : ~Pending(r, p)) => override[p] = recorded[p]
    /\ \A r \in Request : Pending(r, p) =>
         override[p] = req[r].value /\ \A q \in Request : Pending(q, p) => q = r

\* The inductive invariant.
IInv == contributed \in Contribution /\ ListsOK /\ BootInv /\ WritesOK /\ AuditInv

-----------------------------------------------------------------------------
\* Lists

LEMMA ListIsSeq ==
  ASSUME NEW S, NEW n \in Nat, NEW s \in ListsUpTo(S, n)
  PROVE  s \in Seq(S)
<1>1. PICK k \in 0..n : s \in [1..k -> S]  BY DEF ListsUpTo
<1>2. k \in Nat  BY <1>1
<1> QED  BY <1>1, <1>2, SeqDef

LEMMA ContributionLists == contributed \in Contribution => ListsOK
<1> SUFFICES ASSUME contributed \in Contribution PROVE ListsOK  OBVIOUS
<1>1. /\ contributed.permissions \in ListsUpTo(ModuleIds, MaxIds)
      /\ contributed.memberDefaults \in ListsUpTo(ModuleIds \cup PLATFORM_PERMISSIONS, 1)
  BY DEF Contribution
<1>2. contributed.permissions \in Seq(ModuleIds)  BY <1>1, ListIsSeq, MaxIdsNat
<1>3. contributed.memberDefaults \in Seq(ModuleIds \cup PLATFORM_PERMISSIONS)
  BY <1>1, ListIsSeq
<1> QED  BY <1>2, <1>3 DEF ListsOK, Declared, Granted

LEMMA ListsTyped ==
  ASSUME ListsOK
  PROVE  /\ Len(Declared) \in Nat /\ DOMAIN Declared = 1..Len(Declared)
         /\ Len(Granted) \in Nat /\ DOMAIN Granted = 1..Len(Granted)
         /\ \A k \in 1..Len(Declared) : Declared[k] \in ModuleIds
         /\ \A k \in 1..Len(Granted) : Granted[k] \in ModuleIds \cup PLATFORM_PERMISSIONS
<1>1. Declared \in Seq(ModuleIds) /\ Granted \in Seq(ModuleIds \cup PLATFORM_PERMISSIONS)
  BY DEF ListsOK
<1>2. /\ Len(Declared) \in Nat /\ DOMAIN Declared = 1..Len(Declared)
      /\ Declared \in [1..Len(Declared) -> ModuleIds]
  BY <1>1, LenProperties
<1>3. /\ Len(Granted) \in Nat /\ DOMAIN Granted = 1..Len(Granted)
      /\ Granted \in [1..Len(Granted) -> ModuleIds \cup PLATFORM_PERMISSIONS]
  BY <1>1, LenProperties
<1> QED  BY <1>2, <1>3

LEMMA ListedIs ==
  ASSUME ListsOK
  PROVE  /\ Listed(contributed.permissions) = {Declared[k] : k \in 1..Len(Declared)}
         /\ Listed(contributed.memberDefaults) = {Granted[k] : k \in 1..Len(Granted)}
  BY ListsTyped DEF Listed, Declared, Granted

-----------------------------------------------------------------------------
\* The registry

\* what the loops leave alone
LEMMA BootFrame ==
  ASSUME BootInv, UNCHANGED <<contributed, boot>>
  PROVE  BootInv'
  BY DEF BootInv, Sound, Declared, Granted, Invalid, Listed

LEMMA DeclareKeeps ==
  ASSUME ListsOK, BootInv, Declare
  PROVE  BootInv'
<1> DEFINE id == contributed.permissions[boot.i]
           n == boot.i
<1>1. /\ boot.pc = "declaring" /\ n <= Len(Declared) /\ id = Declared[n]
      /\ contributed' = contributed
  BY DEF Declare, Declared
<1>2. /\ n \in 1..(Len(Declared) + 1) /\ boot.memberDefaults = {}
      /\ boot.universe = PLATFORM_PERMISSIONS \cup {Declared[k] : k \in 1..(n - 1)}
      /\ Sound(n - 1) /\ boot \in Registry
  BY <1>1 DEF BootInv
<1>3. /\ Len(Declared) \in Nat /\ n \in 1..Len(Declared) /\ n \in DOMAIN Declared
      /\ Declared[n] \in ModuleIds
  BY <1>1, <1>2, ListsTyped
<1>4. UNCHANGED <<Declared, Granted>>  BY <1>1 DEF Declared, Granted
<1>5. CASE id \in boot.universe
  <2>1. boot' = [boot EXCEPT !.pc = "refused"]  BY <1>5 DEF Declare
  <2>2. boot'.pc = "refused" /\ boot' \in Registry  BY <2>1, <1>2 DEF Registry
  <2>3. Invalid
    <3>1. CASE Declared[n] \in PLATFORM_PERMISSIONS
      BY <3>1, <1>3 DEF Invalid, Declared
    <3>2. CASE \E k \in 1..(n - 1) : Declared[k] = Declared[n]
      BY <3>2, <1>3 DEF Invalid, Declared
    <3> QED  BY <1>1, <1>2, <1>5, <3>1, <3>2
  <2>4. Invalid'  BY <2>3, <1>1 DEF Invalid, Listed
  <2> QED  BY <2>2, <2>4 DEF BootInv
<1>6. CASE id \notin boot.universe
  <2>1. boot' = [boot EXCEPT !.universe = @ \cup {id}, !.i = @ + 1]  BY <1>6 DEF Declare
  <2>2. /\ boot'.pc = "declaring" /\ boot'.i = n + 1 /\ boot'.memberDefaults = {}
        /\ boot'.universe = boot.universe \cup {Declared[n]} /\ boot' \in Registry
    <3>1. DOMAIN boot = {"pc", "i", "universe", "memberDefaults"}  BY <1>2 DEF Registry
    <3>2. /\ boot'.pc = "declaring" /\ boot'.i = n + 1 /\ boot'.memberDefaults = {}
          /\ boot'.universe = boot.universe \cup {Declared[n]}
      BY <2>1, <3>1, <1>1, <1>2
    <3>3. /\ n + 1 \in Nat
          /\ boot.universe \cup {Declared[n]} \in SUBSET (ModuleIds \cup PLATFORM_PERMISSIONS)
      BY <1>2, <1>3 DEF Registry
    <3>4. boot' \in Registry  BY <2>1, <3>3, <1>1, <1>2 DEF Registry
    <3> QED  BY <3>2, <3>4
  <2>3. boot'.universe = PLATFORM_PERMISSIONS \cup {Declared[k] : k \in 1..n}
    BY <2>2, <1>2, <1>3
  <2>4. Sound(n)
    <3>1. Declared[n] \notin PLATFORM_PERMISSIONS /\ \A j \in 1..(n - 1) : Declared[j] # Declared[n]
      BY <1>1, <1>2, <1>6
    <3> QED  BY <3>1, <1>2, <1>3 DEF Sound
  <2>5. boot'.i - 1 = n  BY <2>2, <1>3
  <2>7. Sound(boot.i - 1)'  BY <2>5, <2>4, <1>4 DEF Sound
  <2>6. boot'.universe = PLATFORM_PERMISSIONS \cup {Declared'[k] : k \in 1..(boot'.i - 1)}
    BY <2>3, <2>5, <1>4
  <2>8. boot'.i \in 1..(Len(Declared') + 1)  BY <2>2, <1>3, <1>4
  <2> QED  BY <2>2, <2>6, <2>7, <2>8 DEF BootInv
<1> QED  BY <1>5, <1>6

LEMMA AllDeclaredKeeps ==
  ASSUME ListsOK, BootInv, AllDeclared
  PROVE  BootInv'
<1>1. /\ boot.pc = "declaring" /\ boot.i > Len(Declared) /\ contributed' = contributed
      /\ boot' = [boot EXCEPT !.pc = "granting", !.i = 1]
  BY DEF AllDeclared, Declared
<1>2. Len(Declared) \in Nat /\ Len(Granted) \in Nat  BY ListsTyped
<1>3. boot.i - 1 = Len(Declared)  BY <1>1, <1>2 DEF BootInv
<1>4. /\ boot'.pc = "granting" /\ boot'.i = 1 /\ boot'.universe = boot.universe
      /\ boot'.memberDefaults = {} /\ boot' \in Registry
  BY <1>1 DEF BootInv, Registry
<1>5. UNCHANGED <<Declared, Granted>>  BY <1>1 DEF Declared, Granted
<1>6. Sound(Len(Declared))'
  BY <1>1, <1>3, <1>5 DEF BootInv, Sound
<1>7. boot'.universe = PLATFORM_PERMISSIONS \cup {Declared'[k] : k \in 1..Len(Declared')}
  BY <1>1, <1>3, <1>4, <1>5 DEF BootInv
<1>8. boot'.memberDefaults = {Granted'[k] : k \in 1..(boot'.i - 1)}
  BY <1>4
<1> QED  BY <1>2, <1>4, <1>5, <1>6, <1>7, <1>8 DEF BootInv

LEMMA GrantDefaultKeeps ==
  ASSUME ListsOK, BootInv, GrantDefault
  PROVE  BootInv'
<1> DEFINE id == contributed.memberDefaults[boot.i]
           n == boot.i
<1>1. /\ boot.pc = "granting" /\ n <= Len(Granted) /\ id = Granted[n]
      /\ contributed' = contributed
  BY DEF GrantDefault, Granted
<1>2. /\ n \in 1..(Len(Granted) + 1) /\ Sound(Len(Declared)) /\ boot \in Registry
      /\ boot.universe = PLATFORM_PERMISSIONS \cup {Declared[k] : k \in 1..Len(Declared)}
      /\ boot.memberDefaults = {Granted[k] : k \in 1..(n - 1)}
      /\ boot.memberDefaults \subseteq boot.universe
  BY <1>1 DEF BootInv
<1>3. /\ Len(Granted) \in Nat /\ n \in 1..Len(Granted) /\ n \in DOMAIN Granted
      /\ Granted[n] \in ModuleIds \cup PLATFORM_PERMISSIONS
  BY <1>1, <1>2, ListsTyped
<1>4. UNCHANGED <<Declared, Granted>>  BY <1>1 DEF Declared, Granted
<1>5. CASE id \in boot.universe
  <2>1. boot' = [boot EXCEPT !.memberDefaults = @ \cup {id}, !.i = @ + 1]
    BY <1>5 DEF GrantDefault
  <2>2. /\ boot'.pc = "granting" /\ boot'.i = n + 1 /\ boot'.universe = boot.universe
        /\ boot'.memberDefaults = boot.memberDefaults \cup {Granted[n]} /\ boot' \in Registry
    <3>1. DOMAIN boot = {"pc", "i", "universe", "memberDefaults"}  BY <1>2 DEF Registry
    <3>2. /\ boot'.pc = "granting" /\ boot'.i = n + 1 /\ boot'.universe = boot.universe
          /\ boot'.memberDefaults = boot.memberDefaults \cup {Granted[n]}
      BY <2>1, <3>1, <1>1, <1>2
    <3>3. /\ n + 1 \in Nat
          /\ boot.memberDefaults \cup {Granted[n]} \in SUBSET (ModuleIds \cup PLATFORM_PERMISSIONS)
      BY <1>2, <1>3 DEF Registry
    <3>4. boot' \in Registry  BY <2>1, <3>3, <1>1, <1>2 DEF Registry
    <3> QED  BY <3>2, <3>4
  <2>3. boot'.memberDefaults = {Granted[k] : k \in 1..n}  BY <2>2, <1>2, <1>3
  <2>4. boot'.memberDefaults \subseteq boot'.universe  BY <2>2, <1>1, <1>2, <1>5
  <2>5. Sound(Len(Declared))'  BY <1>2, <1>4 DEF Sound
  <2>6. boot'.i - 1 = n /\ boot'.i \in 1..(Len(Granted') + 1)  BY <2>2, <1>3, <1>4
  <2>7. boot'.memberDefaults = {Granted'[k] : k \in 1..(boot'.i - 1)}  BY <2>3, <2>6, <1>4
  <2>8. boot'.universe = PLATFORM_PERMISSIONS \cup {Declared'[k] : k \in 1..Len(Declared')}
    BY <2>2, <1>2, <1>4
  <2> QED  BY <2>2, <2>4, <2>5, <2>6, <2>7, <2>8 DEF BootInv
<1>6. CASE id \notin boot.universe
  <2>1. boot' = [boot EXCEPT !.pc = "refused"]  BY <1>6 DEF GrantDefault
  <2>2. boot'.pc = "refused" /\ boot' \in Registry  BY <2>1, <1>2 DEF Registry
  <2>3. Granted[n] \in Listed(contributed.memberDefaults)  BY <1>3, ListedIs
  <2>4. Granted[n] \notin PLATFORM_PERMISSIONS \cup Listed(contributed.permissions)
    BY <1>1, <1>2, <1>6, ListedIs
  <2>5. Invalid  BY <2>3, <2>4 DEF Invalid
  <2>6. Invalid'  BY <2>5, <1>1 DEF Invalid, Listed
  <2> QED  BY <2>2, <2>6 DEF BootInv
<1> QED  BY <1>5, <1>6

LEMMA ServeKeeps ==
  ASSUME ListsOK, BootInv, Serve
  PROVE  BootInv'
<1>1. /\ boot.pc = "granting" /\ boot.i > Len(Granted) /\ contributed' = contributed
      /\ boot' = [boot EXCEPT !.pc = "serving"]
  BY DEF Serve, Granted
<1>2. Len(Granted) \in Nat  BY ListsTyped
<1>3. boot.i = Len(Granted) + 1  BY <1>1, <1>2 DEF BootInv
<1>4. /\ boot'.pc = "serving" /\ boot'.i = boot.i /\ boot'.universe = boot.universe
      /\ boot'.memberDefaults = boot.memberDefaults /\ boot' \in Registry
  BY <1>1 DEF BootInv, Registry
<1>5. UNCHANGED <<Declared, Granted>>  BY <1>1 DEF Declared, Granted
<1>6. Sound(Len(Declared))'  BY <1>1, <1>5 DEF BootInv, Sound
<1> QED  BY <1>1, <1>3, <1>4, <1>5, <1>6 DEF BootInv

-----------------------------------------------------------------------------
\* Entitlement writes

LEMMA WritesFrame ==
  ASSUME WritesOK, AuditInv, UNCHANGED <<stored, req>>
  PROVE  WritesOK' /\ AuditInv'
  BY DEF WritesOK, AuditInv, stored, Pending, Target

LEMMA SetOverrideKeeps ==
  ASSUME WritesOK, AuditInv, NEW r \in Request, NEW org \in Org, NEW key \in Key,
         NEW value \in Value, SetOverride(r, org, key, value)
  PROVE  WritesOK' /\ AuditInv'
<1> DEFINE w == [pc |-> "upsert", org |-> org, key |-> key, value |-> value]
<1>1. /\ req' = [req EXCEPT ![r] = w] /\ req[r] = Idle /\ req \in [Request -> Write]
      /\ UNCHANGED <<override, recorded, unrecorded, crossed>>
  BY DEF SetOverride, stored, WritesOK
<1>2. w \in Write  BY DEF Write
<1>3. req' \in [Request -> Write] /\ req'[r] = w /\ \A q \in Request \ {r} : req'[q] = req[q]
  BY <1>1, <1>2
<1>4. WritesOK'
  <2>1. \A q \in Request : req'[q].pc # "idle" =>
          <<req'[q].org, req'[q].key>> \in Org \X Key /\ req'[q].value \in Value
    BY <1>3 DEF WritesOK, Target
  <2> QED  BY <1>1, <1>3, <2>1 DEF WritesOK, Target
<1>5. \A q \in Request, p \in Org \X Key :
        /\ Pending(q, p)' <=> Pending(q, p)
        /\ Pending(q, p) => req'[q].value = req[q].value
  <2> SUFFICES ASSUME NEW q \in Request, NEW p \in Org \X Key
               PROVE  /\ Pending(q, p)' <=> Pending(q, p)
                      /\ Pending(q, p) => req'[q].value = req[q].value
    OBVIOUS
  <2>1. CASE q = r  BY <2>1, <1>1, <1>3 DEF Pending, Idle
  <2>2. CASE q # r  BY <2>2, <1>3 DEF Pending, Target
  <2> QED  BY <2>1, <2>2
<1>6. AuditInv'  BY <1>1, <1>5 DEF AuditInv
<1> QED  BY <1>4, <1>6

LEMMA UpsertKeeps ==
  ASSUME WritesOK, AuditInv, NEW r \in Request, Upsert(r)
  PROVE  WritesOK' /\ AuditInv'
<1>0. PICK t, v : t = Target(r) /\ v = req[r].value  OBVIOUS
<1>1. /\ req[r].pc = "upsert" /\ req' = [req EXCEPT ![r].pc = "audit"]
      /\ override' = [override EXCEPT ![t] = v]
      /\ crossed' = IF Crosses(r) THEN crossed \cup {t} ELSE crossed
      /\ UNCHANGED <<recorded, unrecorded>>
  BY <1>0 DEF Upsert
<1>2. /\ t \in Org \X Key /\ v \in Value /\ req \in [Request -> Write]
      /\ override \in [Org \X Key -> Value \cup {None}]
  BY <1>0, <1>1 DEF WritesOK
<1>3. /\ req' \in [Request -> Write] /\ req'[r] = [req[r] EXCEPT !.pc = "audit"]
      /\ \A q \in Request \ {r} : req'[q] = req[q]
  BY <1>1, <1>2 DEF Write
<1>4. req'[r].pc = "audit" /\ <<req'[r].org, req'[r].key>> = t /\ req'[r].value = v
  BY <1>0, <1>1, <1>2 DEF Write, Target
<1>5. /\ override' \in [Org \X Key -> Value \cup {None}] /\ override'[t] = v
      /\ \A p \in (Org \X Key) \ {t} : override'[p] = override[p]
  BY <1>1, <1>2
<1>6. WritesOK'
  <2>1. \A q \in Request : req'[q].pc # "idle" =>
          <<req'[q].org, req'[q].key>> \in Org \X Key /\ req'[q].value \in Value
    BY <1>2, <1>3, <1>4 DEF WritesOK, Target
  <2>2. crossed' \in SUBSET (Org \X Key)  BY <1>1, <1>2 DEF WritesOK
  <2> QED  BY <1>1, <1>3, <1>5, <2>1, <2>2 DEF WritesOK, Target
<1>7. Pending(r, t)' /\ \A p : p # t => ~Pending(r, p)' /\ ~Pending(r, p)
  BY <1>1, <1>4 DEF Pending, Target
<1>8. \A p : \A q \in Request \ {r} : Pending(q, p)' <=> Pending(q, p)
  BY <1>3 DEF Pending, Target
<1>9. ASSUME NEW p \in (Org \X Key) \ (unrecorded' \cup crossed')
      PROVE  /\ (\A q \in Request : ~Pending(q, p)') => override'[p] = recorded'[p]
             /\ \A q \in Request : Pending(q, p)' =>
                  override'[p] = req'[q].value /\ \A q2 \in Request : Pending(q2, p)' => q2 = q
  <2>1. p \in (Org \X Key) \ (unrecorded \cup crossed)  BY <1>1
  <2>2. CASE p = t
    <3>1. ~Crosses(r)  BY <2>2, <1>1
    <3>2. \A q \in Request \ {r} : ~Pending(q, t)  BY <1>0, <3>1 DEF Crosses, Pending
    <3> QED  BY <2>2, <3>2, <1>4, <1>5, <1>7, <1>8
  <2>3. CASE p # t
    BY <2>1, <2>3, <1>1, <1>3, <1>5, <1>7, <1>8 DEF AuditInv
  <2> QED  BY <2>2, <2>3
<1>10. AuditInv'  BY <1>9 DEF AuditInv
<1> QED  BY <1>6, <1>10

\* a request that ends, whether or not it recorded
LEMMA Ends ==
  ASSUME WritesOK, NEW r \in Request, req' = [req EXCEPT ![r] = Idle]
  PROVE  /\ req' \in [Request -> Write]
         /\ \A q \in Request : req'[q].pc # "idle" =>
              <<req'[q].org, req'[q].key>> \in Org \X Key /\ req'[q].value \in Value
         /\ \A p : ~Pending(r, p)'
         /\ \A q \in Request \ {r} : req'[q] = req[q] /\ \A p : Pending(q, p)' <=> Pending(q, p)
<1>1. Idle \in Write /\ Idle.pc = "idle"  BY DEF Idle, Write
<1>2. /\ req' \in [Request -> Write] /\ req'[r] = Idle
      /\ \A q \in Request \ {r} : req'[q] = req[q]
  BY <1>1 DEF WritesOK
<1>3. ~ \E p : Pending(r, p)'  BY <1>1, <1>2 DEF Pending
<1>4. \A q \in Request \ {r} : \A p : Pending(q, p)' <=> Pending(q, p)
  BY <1>2 DEF Pending, Target
<1> QED  BY <1>1, <1>2, <1>3, <1>4 DEF WritesOK, Target

LEMMA RecordChangeKeeps ==
  ASSUME WritesOK, AuditInv, NEW r \in Request, RecordChange(r)
  PROVE  WritesOK' /\ AuditInv'
<1>0. PICK t, v : t = Target(r) /\ v = req[r].value  OBVIOUS
<1>1. /\ req[r].pc = "audit" /\ req' = [req EXCEPT ![r] = Idle]
      /\ recorded' = [recorded EXCEPT ![t] = v]
      /\ UNCHANGED <<override, unrecorded, crossed>>
  BY <1>0 DEF RecordChange
<1>2. t \in Org \X Key /\ v \in Value /\ recorded \in [Org \X Key -> Value \cup {None}]
  BY <1>0, <1>1 DEF WritesOK
<1>3. /\ recorded' \in [Org \X Key -> Value \cup {None}] /\ recorded'[t] = v
      /\ \A p \in (Org \X Key) \ {t} : recorded'[p] = recorded[p]
  BY <1>1, <1>2
<1>4. Pending(r, t)  BY <1>0, <1>1 DEF Pending
<1>5. \A p : p # t => ~Pending(r, p)  BY <1>0 DEF Pending
<1>6. override[t] = v \/ t \in unrecorded \cup crossed  BY <1>0, <1>2, <1>4 DEF AuditInv
<1>7. WritesOK'  BY <1>1, <1>3, Ends DEF WritesOK, Target
<1>8. ASSUME NEW p \in (Org \X Key) \ (unrecorded' \cup crossed')
      PROVE  /\ (\A q \in Request : ~Pending(q, p)') => override'[p] = recorded'[p]
             /\ \A q \in Request : Pending(q, p)' =>
                  override'[p] = req'[q].value /\ \A q2 \in Request : Pending(q2, p)' => q2 = q
  <2>1. p \in (Org \X Key) \ (unrecorded \cup crossed)  BY <1>1
  <2>2. CASE p = t
    <3>1. \A q \in Request : Pending(q, p) => q = r  BY <2>1, <2>2, <1>4 DEF AuditInv
    <3>2. \A q \in Request : ~Pending(q, p)'  BY <3>1, <1>1, Ends
    <3>3. override'[p] = recorded'[p]  BY <2>1, <2>2, <1>1, <1>3, <1>6
    <3> QED  BY <3>2, <3>3
  <2>3. CASE p # t
    <3>1. override'[p] = override[p] /\ recorded'[p] = recorded[p]  BY <2>1, <2>3, <1>1, <1>3
    <3>2. ASSUME NEW q \in Request
          PROVE  /\ Pending(q, p)' <=> Pending(q, p)
                 /\ Pending(q, p) => req'[q] = req[q]
      <4>1. CASE q = r
        <5>1. ~Pending(r, p)' /\ ~Pending(r, p)  BY <2>3, <1>1, <1>5, Ends
        <5> QED  BY <4>1, <5>1 DEF Pending, Target
      <4>2. CASE q # r  BY <4>2, <1>1, Ends
      <4> QED  BY <4>1, <4>2
    <3>3. (\A q \in Request : ~Pending(q, p)) => override[p] = recorded[p]  BY <2>1 DEF AuditInv
    <3>4. ASSUME NEW q \in Request, Pending(q, p)'
          PROVE  override'[p] = req'[q].value /\ \A q2 \in Request : Pending(q2, p)' => q2 = q
      <4>1. Pending(q, p) /\ req'[q] = req[q]  BY <3>2, <3>4
      <4>2. override[p] = req[q].value /\ \A q2 \in Request : Pending(q2, p) => q2 = q
        BY <2>1, <4>1 DEF AuditInv
      <4> QED  BY <3>1, <3>2, <4>1, <4>2
    <3> QED  BY <3>1, <3>2, <3>3, <3>4
  <2> QED  BY <2>2, <2>3
<1>9. AuditInv'  BY <1>8 DEF AuditInv
<1> QED  BY <1>7, <1>9

LEMMA BreakKeeps ==
  ASSUME WritesOK, AuditInv, NEW r \in Request, Break(r)
  PROVE  WritesOK' /\ AuditInv'
<1>0. PICK t : t = Target(r)  OBVIOUS
<1>1. /\ req[r].pc # "idle" /\ req' = [req EXCEPT ![r] = Idle]
      /\ unrecorded' = IF req[r].pc = "audit" THEN unrecorded \cup {t} ELSE unrecorded
      /\ UNCHANGED <<override, recorded, crossed>>
  BY <1>0 DEF Break
<1>2. t \in Org \X Key  BY <1>0, <1>1 DEF WritesOK
<1>3. \A p : Pending(r, p) => p = t /\ t \in unrecorded'  BY <1>0, <1>1 DEF Pending
<1>4. unrecorded' \in SUBSET (Org \X Key)  BY <1>1, <1>2 DEF WritesOK
<1>5. WritesOK'  BY <1>1, <1>4, Ends DEF WritesOK, Target
<1>6. ASSUME NEW p \in (Org \X Key) \ (unrecorded' \cup crossed')
      PROVE  /\ (\A q \in Request : ~Pending(q, p)') => override'[p] = recorded'[p]
             /\ \A q \in Request : Pending(q, p)' =>
                  override'[p] = req'[q].value /\ \A q2 \in Request : Pending(q2, p)' => q2 = q
  <2>1. p \in (Org \X Key) \ (unrecorded \cup crossed)  BY <1>1
  <2>2. ASSUME NEW q \in Request
        PROVE  /\ Pending(q, p)' <=> Pending(q, p)
               /\ Pending(q, p) => req'[q] = req[q]
    <3>1. CASE q = r
      <4>1. ~Pending(r, p)'  BY <1>1, Ends
      <4>2. ~Pending(r, p)  BY <1>3
      <4> QED  BY <3>1, <4>1, <4>2 DEF Pending, Target
    <3>2. CASE q # r  BY <3>2, <1>1, Ends
    <3> QED  BY <3>1, <3>2
  <2>3. (\A q \in Request : ~Pending(q, p)) => override[p] = recorded[p]  BY <2>1 DEF AuditInv
  <2>4. ASSUME NEW q \in Request, Pending(q, p)'
        PROVE  override'[p] = req'[q].value /\ \A q2 \in Request : Pending(q2, p)' => q2 = q
    <3>1. Pending(q, p) /\ req'[q] = req[q]  BY <2>2, <2>4
    <3>2. override[p] = req[q].value /\ \A q2 \in Request : Pending(q2, p) => q2 = q
      BY <2>1, <3>1 DEF AuditInv
    <3> QED  BY <1>1, <2>2, <3>1, <3>2
  <2> QED  BY <1>1, <2>2, <2>3, <2>4
<1>7. AuditInv'  BY <1>6 DEF AuditInv
<1> QED  BY <1>5, <1>7

-----------------------------------------------------------------------------
\* The invariant

LEMMA Initially == Init => IInv
<1> SUFFICES ASSUME Init PROVE IInv  OBVIOUS
<1>1. ListsOK  BY ContributionLists DEF Init
<1>2. Len(Declared) \in Nat  BY <1>1, ListsTyped
<1>3. BootInv
  <2>1. boot \in Registry  BY DEF Init, Registry
  <2>2. boot.pc = "declaring" /\ boot.i = 1 /\ boot.universe = PLATFORM_PERMISSIONS
          /\ boot.memberDefaults = {}
    BY DEF Init
  <2>3. Sound(boot.i - 1)  BY <2>2 DEF Sound
  <2> QED  BY <2>1, <2>2, <2>3, <1>2 DEF BootInv
<1>4. WritesOK  BY DEF Init, WritesOK, Write, Idle
<1>5. AuditInv  BY DEF Init, AuditInv, Pending, Idle
<1> QED  BY <1>1, <1>3, <1>4, <1>5 DEF Init, IInv

LEMMA ControlPlaneStep == IInv /\ [Next]_vars => IInv'
<1> SUFFICES ASSUME IInv, [Next]_vars PROVE IInv'  OBVIOUS
<1> USE DEF IInv
<1>1. ASSUME Declare \/ AllDeclared \/ GrantDefault \/ Serve PROVE IInv'
  <2>1. UNCHANGED <<contributed, stored, req>>
    BY <1>1 DEF Declare, AllDeclared, GrantDefault, Serve
  <2>2. BootInv'  BY <1>1, DeclareKeeps, AllDeclaredKeeps, GrantDefaultKeeps, ServeKeeps
  <2>3. ListsOK'  BY <2>1 DEF ListsOK, Declared, Granted
  <2> QED  BY <2>1, <2>2, <2>3, WritesFrame
<1>2. ASSUME NEW r \in Request,
             \/ \E org \in Org, key \in Key, value \in Value : SetOverride(r, org, key, value)
             \/ Upsert(r) \/ RecordChange(r) \/ Break(r)
      PROVE  IInv'
  <2>1. UNCHANGED <<contributed, boot>>
    BY <1>2 DEF SetOverride, Upsert, RecordChange, Break
  <2>2. WritesOK' /\ AuditInv'
    BY <1>2, SetOverrideKeeps, UpsertKeeps, RecordChangeKeeps, BreakKeeps
  <2>3. ListsOK'  BY <2>1 DEF ListsOK, Declared, Granted
  <2> QED  BY <2>1, <2>2, <2>3, BootFrame
<1>3. CASE UNCHANGED vars
  <2>1. UNCHANGED <<contributed, boot>> /\ UNCHANGED <<stored, req>>
    BY <1>3 DEF vars, stored
  <2>2. ListsOK'  BY <2>1 DEF ListsOK, Declared, Granted
  <2> QED  BY <2>1, <2>2, BootFrame, WritesFrame
<1> QED  BY <1>1, <1>2, <1>3 DEF Next

\* What the loops of createPermissionRegistry have read, and what the writes
\* of entitlement overrides have stored and recorded, at every moment.
THEOREM Invariant == Spec => []IInv
<1>1. Init => IInv  BY Initially
<1>2. IInv /\ [Next]_vars => IInv'  BY ControlPlaneStep
<1> QED  BY <1>1, <1>2, PTL DEF Spec

\* Type correctness (registry.ts, check.ts).
THEOREM TypeCorrect == Spec => []TypeOK
<1>1. IInv => TypeOK  BY DEF IInv, BootInv, WritesOK, TypeOK
<1> QED  BY <1>1, Invariant, PTL

\* The registry refuses the manifests that are bad, and no others, however
\* long they are (registry.ts createPermissionRegistry).
THEOREM RefusedExactly == Spec => []RefusedIffInvalid
<1>1. IInv => RefusedIffInvalid
  <2> SUFFICES ASSUME IInv PROVE RefusedIffInvalid  OBVIOUS
  <2>1. ListsOK /\ BootInv  BY DEF IInv
  <2>2. boot.pc = "refused" => Invalid  BY <2>1 DEF BootInv
  <2>3. ASSUME boot.pc = "serving"
        PROVE  /\ ~Invalid
               /\ boot.universe = PLATFORM_PERMISSIONS \cup Listed(contributed.permissions)
               /\ boot.memberDefaults = Listed(contributed.memberDefaults)
    <3>1. Len(Granted) \in Nat /\ DOMAIN Declared = 1..Len(Declared)  BY <2>1, ListsTyped
    <3>2. boot.i - 1 = Len(Granted)  BY <2>1, <2>3, <3>1 DEF BootInv
    <3>3. boot.memberDefaults = Listed(contributed.memberDefaults)
      BY <2>1, <2>3, <3>2, ListedIs DEF BootInv
    <3>4. boot.universe = PLATFORM_PERMISSIONS \cup Listed(contributed.permissions)
      BY <2>1, <2>3, ListedIs DEF BootInv
    <3>5. Listed(contributed.memberDefaults)
            \subseteq PLATFORM_PERMISSIONS \cup Listed(contributed.permissions)
      BY <2>1, <2>3, <3>3, <3>4 DEF BootInv
    <3>6. Sound(Len(Declared))  BY <2>1, <2>3 DEF BootInv
    <3>7. ~Invalid  BY <3>1, <3>5, <3>6 DEF Invalid, Sound, Declared
    <3> QED  BY <3>3, <3>4, <3>7
  <2> QED  BY <2>2, <2>3 DEF RefusedIffInvalid
<1> QED  BY <1>1, Invariant, PTL

LEMMA NotWild ==
  ASSUME NEW g, NEW p, ~isWildcard(g), matchesPattern(g, p), g # <<"*">>
  PROVE  g = p
  BY DEF matchesPattern

LEMMA StarIsWild == isWildcard(<<"*">>)
  BY DEF isWildcard, LastSegment

LEMMA GuardedIsNoRead ==
  \A p \in OWNERSHIP_GUARDED_PERMISSIONS : ~isReadPermission(p)
<1>1. ~isReadPermission(<<"org", "delete">>)
  <2>1. Len(<<"org", "delete">>) = 2 /\ <<"org", "delete">>[2] = "delete"  OBVIOUS
  <2> QED  BY <2>1 DEF isReadPermission, LastSegment
<1>2. ~isReadPermission(<<"org", "ownership", "transfer">>)
  <2>1. /\ Len(<<"org", "ownership", "transfer">>) = 3
        /\ <<"org", "ownership", "transfer">>[3] = "transfer"
    OBVIOUS
  <2> QED  BY <2>1 DEF isReadPermission, LastSegment
<1> QED  BY <1>1, <1>2 DEF OWNERSHIP_GUARDED_PERMISSIONS

\* Whatever the modules declare, a guarded permission leaves the owners only
\* by a declared wildcard or a member default that names it (roles.ts).
THEOREM GuardedStays == Spec => []GuardedStaysWithOwner
<1>1. IInv => GuardedStaysWithOwner
  <2> SUFFICES ASSUME IInv, boot.pc = "serving",
                      NEW r \in {"admin", "member"}, NEW p \in OWNERSHIP_GUARDED_PERMISSIONS,
                      satisfies(roles[r], p)
               PROVE  \/ \E w \in Wildcards : matchesPattern(w, p)
                      \/ r = "member" /\ p \in boot.memberDefaults
    BY DEF GuardedStaysWithOwner
  <2>1. PICK g \in roles[r] : matchesPattern(g, p)  BY DEF satisfies
  <2>2. boot.memberDefaults \subseteq boot.universe  BY DEF IInv, BootInv
  <2>3. CASE r = "admin"
    <3>1. roles[r] = buildRole([grant |-> {<<"*">>}, deny |-> OWNERSHIP_GUARDED_PERMISSIONS,
                                readDefaults |-> FALSE], boot.universe, {})
      BY <2>3 DEF roles, buildBuiltInRoles, BUILT_IN_ROLE_DEFINITIONS, RoleName
    <3>2. roles[r] \subseteq boot.universe \ OWNERSHIP_GUARDED_PERMISSIONS
      BY <3>1 DEF buildRole, expandPatterns
    <3>3. g \in boot.universe /\ g # p  BY <2>1, <3>2
    <3>4. isWildcard(g)  BY <3>3, <2>1, NotWild, StarIsWild
    <3> QED  BY <3>3, <3>4, <2>1 DEF Wildcards
  <2>4. CASE r = "member"
    <3>1. roles[r] = buildRole([grant |-> {}, deny |-> {}, readDefaults |-> TRUE],
                               boot.universe, boot.memberDefaults)
      BY <2>4 DEF roles, buildBuiltInRoles, BUILT_IN_ROLE_DEFINITIONS, RoleName
    <3>2. g \in boot.memberDefaults \/ (g \in boot.universe /\ isReadPermission(g))
      BY <3>1, <2>1 DEF buildRole, expandPatterns
    <3>3. CASE isWildcard(g)  BY <3>2, <3>3, <2>1, <2>2 DEF Wildcards
    <3>4. CASE ~isWildcard(g)
      <4>1. g = p  BY <3>4, <2>1, NotWild, StarIsWild
      <4> QED  BY <4>1, <3>2, <2>4, GuardedIsNoRead
    <3> QED  BY <3>3, <3>4
  <2> QED  BY <2>3, <2>4
<1> QED  BY <1>1, Invariant, PTL

LEMMA RoleIs ==
  ASSUME NEW universe, NEW defaults, NEW r \in RoleName
  PROVE  buildBuiltInRoles(universe, defaults)[r]
           = buildRole(BUILT_IN_ROLE_DEFINITIONS[r], universe,
                       IF r = "member" THEN defaults ELSE {})
  BY DEF buildBuiltInRoles

\* a larger catalog and more defaults only add to a role
LEMMA RolesGrow ==
  ASSUME NEW small, NEW large, NEW defaults, NEW r \in RoleName, small \subseteq large
  PROVE  buildBuiltInRoles(small, {})[r] \subseteq buildBuiltInRoles(large, defaults)[r]
<1>1. ASSUME NEW g \in buildBuiltInRoles(small, {})[r]
      PROVE  g \in buildBuiltInRoles(large, defaults)[r]
  <2> DEFINE d == BUILT_IN_ROLE_DEFINITIONS[r]
  <2>1. g \in buildRole(d, small, {})  BY <1>1, RoleIs
  <2>2. g \in buildRole(d, large, IF r = "member" THEN defaults ELSE {})
    BY <2>1 DEF buildRole, expandPatterns
  <2> QED  BY <2>2, RoleIs
<1> QED  BY <1>1

\* What GET /api/me shows is what the organization routes allow, whatever the
\* modules declare, but for a wildcard or a default a manifest grants (me.ts,
\* routes/orgs/authorization.ts).
THEOREM MeMirrors == Spec => []MeMirrorsGate
<1>1. IInv => MeMirrorsGate
  <2> SUFFICES ASSUME IInv, boot.pc = "serving", NEW r \in RoleName, NEW p \in PLATFORM_PERMISSIONS
               PROVE  /\ satisfies(BUILT_IN_ROLES[r], p) => satisfies(roles[r], p)
                      /\ satisfies(roles[r], p) =>
                           \/ satisfies(BUILT_IN_ROLES[r], p)
                           \/ Wildcards # {} \/ p \in boot.memberDefaults
    BY DEF MeMirrorsGate, resolvePermissionsForRole, permissionsForOrgRole
  <2>1. PLATFORM_PERMISSIONS \subseteq boot.universe /\ boot.memberDefaults \subseteq boot.universe
    BY DEF IInv, BootInv
  <2>2. BUILT_IN_ROLES[r] \subseteq roles[r]  BY <2>1, RolesGrow DEF BUILT_IN_ROLES, roles
  <2>3. ASSUME satisfies(roles[r], p), Wildcards = {}, p \notin boot.memberDefaults
        PROVE  satisfies(BUILT_IN_ROLES[r], p)
    <3> DEFINE d == BUILT_IN_ROLE_DEFINITIONS[r]
    <3>1. PICK g \in roles[r] : matchesPattern(g, p)  BY <2>3 DEF satisfies
    <3>2. g \in buildRole(d, boot.universe, IF r = "member" THEN boot.memberDefaults ELSE {})
      BY <3>1, RoleIs DEF roles
    <3>3. g \in boot.universe  BY <3>2, <2>1 DEF buildRole, expandPatterns
    <3>4. ~isWildcard(g)  BY <3>3, <2>3 DEF Wildcards
    <3>5. g = p  BY <3>1, <3>4, NotWild, StarIsWild
    <3>6. p \in buildRole(d, PLATFORM_PERMISSIONS, {})
      BY <3>2, <3>5, <2>3 DEF buildRole, expandPatterns
    <3>7. p \in BUILT_IN_ROLES[r]
      <4>1. buildBuiltInRoles(PLATFORM_PERMISSIONS, {})[r] = buildRole(d, PLATFORM_PERMISSIONS, {})
        BY RoleIs
      <4> QED  BY <4>1, <3>6 DEF BUILT_IN_ROLES
    <3> QED  BY <3>1, <3>5, <3>7 DEF satisfies
  <2> QED  BY <2>2, <2>3 DEF satisfies
<1> QED  BY <1>1, Invariant, PTL

\* An override that stands is the one its newest audit row names, however
\* many writes there are, except where one lost its row or two overlapped
\* (check.ts get, setOverride).
THEOREM NewestStands == Spec => []NewestRowStands
<1>1. IInv => NewestRowStands
  <2> SUFFICES ASSUME IInv, NEW org \in Org, NEW key \in Key,
                      <<org, key>> \notin unrecorded \cup crossed,
                      \A r \in Request : ~Pending(r, <<org, key>>)
               PROVE  /\ get(org, key) = IF recorded[<<org, key>>] = None THEN getDefault(key)
                                             ELSE recorded[<<org, key>>]
                      /\ entitlementGet(org, key) =
                           IF recorded[<<org, key>>] = None THEN BUILT_IN_ENTITLEMENTS(key)
                           ELSE recorded[<<org, key>>]
    BY DEF NewestRowStands, Pending
  <2>1. override[<<org, key>>] = recorded[<<org, key>>]  BY DEF IInv, AuditInv
  <2> QED  BY <2>1 DEF get, entitlementGet
<1> QED  BY <1>1, Invariant, PTL

-----------------------------------------------------------------------------
\* Access

\* what a call has behind it
CallOK(q) ==
  /\ q.stage # "idle" => q.name # Nil
  /\ q.name = "signOut" => q.as # Nil
  /\ q.stage = "sent" => ~q.ok /\ q.row = Nil
  /\ q.stage = "hook" =>
       \/ q.name = "signIn" /\ (q.ok <=> q.row # Nil) /\ (q.row # Nil => q.row \in begun)
       \/ q.name = "signOut" /\ q.ok /\ q.row # Nil /\ session[q.row] = "ended"
  /\ q.stage \in {"hook", "answered"} => q.ok \/ q.error # Nil
  /\ q.stage = "answered" /\ q.ok /\ q.name = "signIn" => q.row # Nil
  /\ q.stage = "answered" /\ q.ok /\ q.name = "revokeOtherSessions" =>
       \A s \in q.data : session[s] = "ended"

\* a sign-in whose audit row is being written
Writing(s) == \E r \in Slot : call[r].stage = "hook" /\ call[r].name = "signIn" /\ call[r].row = s

TrailOK ==
  /\ \A s : <<"auth.sign_in.success", s>> \in trail => s \in begun
  /\ \A s \in begun : s \in unaudited \/ <<"auth.sign_in.success", s>> \in trail \/ Writing(s)
  /\ \A s : <<"auth.sign_out", s>> \in trail => s \in Row /\ session[s] = "ended"

\* the calls a screen may have its form wait for
Asks(p) ==
  CASE p = "sign-in"         -> {"signIn", "signInGoogle", "sendVerificationEmail"}
    [] p = "sign-up"         -> {"signUp", "signInGoogle"}
    [] p = "verify-email"    -> {"verifyEmail"}
    [] p = "inbox"           -> {"sendVerificationEmail"}
    [] p = "forgot-password" -> {"forgotPassword"}
    [] p = "reset-password"  -> {"resetPassword"}
    [] p = "magic-link"      -> {"signInMagicLink"}
    [] p = "security"        -> {"changePassword"}
    [] p = "profile"         -> {"updateProfile"}
    [] OTHER                 -> {}

ScreenOK ==
  /\ page \in Inside => cookie # Nil
  /\ form.pending \in Asks(page) \cup {Nil}
  /\ form.pending = Nil => Screen.says \subseteq done

Revoking(r) == call[r].name = "revokeOtherSessions" /\ call[r].waits = "form"
Listing(r) == call[r].name = "listSessions" /\ call[r].waits = "form"

\* unless a list was overtaken, none is due while sessions are being revoked,
\* and one that was read is of sessions no revocation told of ended
PanelOK ==
  /\ \A s \in revoked : session[s] = "ended"
  /\ \A r \in Slot : Revoking(r) => panel.revoking
  /\ \A q \in Slot, r \in Slot : Revoking(q) /\ Revoking(r) => q = r
  /\ ~overtaken =>
       /\ \A r \in Slot : Listing(r) => ~panel.revoking
       /\ \A r \in Slot : Listing(r) /\ call[r].stage = "answered" /\ call[r].ok =>
            call[r].data \cap revoked = {}
       /\ ~panel.loadError /\ (\A r \in Slot : ~Listing(r)) =>
            panel.list = Nil \/ panel.list \cap revoked = {}

AccessInv ==
  /\ AccessTypeOK
  /\ \A r \in Slot : CallOK(call[r])
  /\ TrailOK
  /\ ScreenOK
  /\ PanelOK

-----------------------------------------------------------------------------
\* Records and screens

CallRecord ==
  [stage : {"idle", "sent", "hook", "answered"}, name : Call \cup {Nil},
   waits : {"form", "route", "nobody"}, as : Row \cup {Nil},
   ok : BOOLEAN, error : {Nil, "EMAIL_NOT_VERIFIED", "other"},
   row : Row \cup {Nil}, data : SUBSET Row]

FormRecord ==
  [pending : Call \cup {Nil}, error : {Nil, "EMAIL_NOT_VERIFIED", "other"},
   submitted : BOOLEAN, saved : BOOLEAN]

PanelRecord == [list : (SUBSET Row) \cup {Nil}, loadError : BOOLEAN, revoking : BOOLEAN]

Pages == Public \cup Inside \cup {"google"}

LEMMA PagesAre ==
  /\ Public \subseteq {"sign-in", "sign-up", "verify-email", "inbox", "forgot-password",
                       "reset-password", "magic-link"}
  /\ "sign-in" \in Public /\ "inbox" \in Public /\ "home" \in Inside
  /\ Inside = {"home", "security", "profile"}
  BY DEF Public, Inside

LEMMA NoCallIs ==
  /\ NoCall \in CallRecord
  /\ NoCall.stage = "idle" /\ NoCall.name = Nil /\ NoCall.waits = "nobody"
  BY DEF NoCall, CallRecord

LEMMA SentIs ==
  ASSUME AccessTypeOK, NEW c \in Call
  PROVE  /\ Sent(c) \in CallRecord
         /\ Sent(c).stage = "sent" /\ Sent(c).name = c /\ Sent(c).waits = "form"
         /\ Sent(c).as = cookie /\ ~Sent(c).ok /\ Sent(c).row = Nil
  BY DEF Sent, NoCall, CallRecord, AccessTypeOK

LEMMA PutIs ==
  ASSUME AccessTypeOK, NEW r \in Slot, NEW new \in CallRecord, call' = [call EXCEPT ![r] = new]
  PROVE  /\ call' \in [Slot -> CallRecord]
         /\ call'[r] = new
         /\ \A q \in Slot \ {r} : call'[q] = call[q]
  BY DEF AccessTypeOK, CallRecord

\* what a screen offers and says, page by page
LEMMA ScreenIs ==
  /\ Screen.offers \subseteq Asks(page)
  /\ Screen.says =
       CASE page = "sign-up"         -> IF Confirms THEN {"signUp"} ELSE {}
         [] page = "forgot-password" -> IF Confirms THEN {"forgotPassword"} ELSE {}
         [] page = "reset-password"  -> IF Confirms THEN {"resetPassword"} ELSE {}
         [] page = "magic-link"      -> IF Confirms THEN {"signInMagicLink"} ELSE {}
         [] page = "verify-email"    -> IF form.saved THEN {"verifyEmail"} ELSE {}
         [] page = "security"        -> IF form.saved THEN {"changePassword"} ELSE {}
         [] page = "profile"         -> IF form.saved THEN {"updateProfile"} ELSE {}
         [] OTHER                    -> {}
<1>1. CASE page = "sign-in"
  BY <1>1 DEF Screen, SignInScreen, Form, Asks
<1>2. CASE page = "sign-up"
  BY <1>2 DEF Screen, SignUpScreen, Form, Says, Asks
<1>3. CASE page = "verify-email"
  BY <1>3 DEF Screen, VerifyEmailScreen, Form, Says, Asks
<1>4. CASE page = "inbox"
  BY <1>4 DEF Screen, Inbox, Form, Asks
<1>5. CASE page = "forgot-password"
  BY <1>5 DEF Screen, ForgotPasswordScreen, Form, Says, Asks
<1>6. CASE page = "reset-password"
  BY <1>6 DEF Screen, ResetPasswordScreen, Form, Says, Asks
<1>7. CASE page = "magic-link"
  BY <1>7 DEF Screen, MagicLinkScreen, Form, Says, Asks
<1>8. CASE page = "security"
  BY <1>8 DEF Screen, PasswordPanel, Asks
<1>9. CASE page = "profile"
  BY <1>9 DEF Screen, ProfileScreen, Asks
<1>10. CASE page \notin {"sign-in", "sign-up", "verify-email", "inbox", "forgot-password",
                         "reset-password", "magic-link", "security", "profile"}
  BY <1>10 DEF Screen, Form, Asks
<1> QED
  BY <1>1, <1>2, <1>3, <1>4, <1>5, <1>6, <1>7, <1>8, <1>9, <1>10

\* what is asked of a form is a call, and no call of the sessions panel
LEMMA AsksAre ==
  ASSUME NEW p, NEW c \in Asks(p)
  PROVE  c \in Call /\ c \notin {"listSessions", "revokeOtherSessions", "signOut"} /\ c # Nil
<1>1. c \in {"signIn", "signInGoogle", "sendVerificationEmail", "signUp", "verifyEmail",
             "forgotPassword", "resetPassword", "signInMagicLink", "changePassword",
             "updateProfile"}
  BY DEF Asks
<1>2. c \in Call /\ c \notin {"listSessions", "revokeOtherSessions", "signOut"}
  BY <1>1 DEF Call
<1> QED  BY <1>2, Bounds

\* the screen is what it was
LEMMA ScreenStays ==
  ASSUME UNCHANGED <<page, form>>
  PROVE  Screen.says' = Screen.says
  BY ScreenIs DEF Confirms, Screen, SignInScreen, SignUpScreen, VerifyEmailScreen, Inbox,
     ForgotPasswordScreen, ResetPasswordScreen, MagicLinkScreen, PasswordPanel, ProfileScreen,
     Form, Says

-----------------------------------------------------------------------------
\* What lasts: a row that ended has ended, and a password began what it began

Lasts ==
  /\ begun \subseteq begun'
  /\ \A s : s \in Row /\ session[s] = "ended" => session'[s] = "ended"

\* q is a call as it was, whoever waits for it
Same(q, was) ==
  /\ q.stage = was.stage /\ q.name = was.name /\ q.as = was.as /\ q.ok = was.ok
  /\ q.error = was.error /\ q.row = was.row /\ q.data = was.data

LEMMA CallLasts ==
  ASSUME NEW r \in Slot, NEW was \in CallRecord, CallOK(was), Same(call'[r], was), Lasts
  PROVE  CallOK(call[r])'
<1>1. was.row \in Row \cup {Nil} /\ was.data \in SUBSET Row  BY DEF CallRecord
<1>2. \A s : s \in Row /\ session[s] = "ended" => session'[s] = "ended"  BY DEF Lasts
<1>3. \A s : s \in was.data /\ session[s] = "ended" => session'[s] = "ended"  BY <1>1, <1>2
<1> QED  BY <1>1, <1>2, <1>3 DEF CallOK, Same, Lasts

\* a call that has not been served, or a slot that is free
LEMMA FreshOK ==
  ASSUME NEW r \in Slot, call'[r].stage \in {"idle", "sent"},
         call'[r].stage = "idle" \/ call'[r].name # Nil,
         call'[r].stage = "sent" => ~call'[r].ok /\ call'[r].row = Nil,
         call'[r].name = "signOut" => call'[r].as # Nil
  PROVE  CallOK(call[r])'
  BY DEF CallOK

\* the trail is not written and no call under way at the hook is disturbed
LEMMA TrailLasts ==
  ASSUME TrailOK, Lasts, UNCHANGED <<trail, begun, unaudited>>,
         \A r \in Slot : call[r].stage = "hook" =>
           call'[r].stage = "hook" /\ call'[r].name = call[r].name /\ call'[r].row = call[r].row
  PROVE  TrailOK'
<1>1. \A s : <<"auth.sign_in.success", s>> \in trail' => s \in begun'  BY DEF TrailOK
<1>2. ASSUME NEW s \in begun'
      PROVE  s \in unaudited' \/ <<"auth.sign_in.success", s>> \in trail' \/ Writing(s)'
  <2>1. s \in unaudited \/ <<"auth.sign_in.success", s>> \in trail \/ Writing(s)  BY DEF TrailOK
  <2>2. ASSUME Writing(s) PROVE Writing(s)'
    <3>1. PICK r \in Slot : call[r].stage = "hook" /\ call[r].name = "signIn" /\ call[r].row = s
      BY <2>2 DEF Writing
    <3>2. call'[r].stage = "hook" /\ call'[r].name = "signIn" /\ call'[r].row = s  BY <3>1
    <3> QED  BY <3>2 DEF Writing
  <2> QED  BY <2>1, <2>2
<1>3. \A s : <<"auth.sign_out", s>> \in trail' => s \in Row /\ session'[s] = "ended"
  BY DEF TrailOK, Lasts
<1> QED  BY <1>1, <1>2, <1>3 DEF TrailOK

-----------------------------------------------------------------------------
\* The API: a step of it answers or advances one call, whose name and asker stay

UnseenByTab == UNCHANGED <<tour, page, form, panel, cookie, done, revoked, overtaken>>

Advances(r) ==
  /\ call' \in [Slot -> CallRecord]
  /\ \A q \in Slot \ {r} : call'[q] = call[q]
  /\ call'[r].name = call[r].name /\ call'[r].waits = call[r].waits /\ call'[r].as = call[r].as

LEMMA AdvanceKeeps ==
  ASSUME AccessInv, NEW r \in Slot, Advances(r), UnseenByTab, Lasts, CallOK(call[r])',
         Listing(r) /\ call'[r].stage = "answered" /\ call'[r].ok => call'[r].data \cap revoked = {}
  PROVE  (\A q \in Slot : CallOK(call[q])') /\ ScreenOK' /\ PanelOK'
<1>1. AccessTypeOK /\ PanelOK /\ ScreenOK /\ \A q \in Slot : CallOK(call[q])  BY DEF AccessInv
<1>2. \A q \in Slot : call[q] \in CallRecord  BY <1>1 DEF AccessTypeOK, CallRecord
<1>3. ASSUME NEW q \in Slot \ {r} PROVE CallOK(call[q])'
  <2>1. Same(call'[q], call[q])  BY <1>3 DEF Advances, Same
  <2> QED  BY <1>1, <1>2, <2>1, CallLasts
<1>4. ScreenOK'  BY <1>1, ScreenStays DEF UnseenByTab, ScreenOK
<1>5. \A q \in Slot : call'[q].name = call[q].name /\ call'[q].waits = call[q].waits
  BY DEF Advances
<1>6. \A q \in Slot : (Revoking(q)' <=> Revoking(q)) /\ (Listing(q)' <=> Listing(q))
  BY <1>5 DEF Revoking, Listing
<1>7. \A s \in revoked' : session'[s] = "ended"
  <2>1. revoked \subseteq Row  BY <1>1 DEF AccessTypeOK
  <2> QED  BY <1>1, <2>1 DEF PanelOK, Lasts, UnseenByTab
<1>8. \A q \in Slot : Listing(q) /\ call'[q].stage = "answered" /\ call'[q].ok /\ ~overtaken =>
        call'[q].data \cap revoked = {}
  BY <1>1 DEF PanelOK, Advances
<1>9. PanelOK'
  <2>1. \A q \in Slot : Revoking(q)' => panel.revoking'  BY <1>1, <1>6 DEF PanelOK, UnseenByTab
  <2>2. \A q \in Slot, p \in Slot : Revoking(q)' /\ Revoking(p)' => q = p
    BY <1>1, <1>6 DEF PanelOK
  <2>3. ~overtaken' => \A q \in Slot : Listing(q)' => ~panel.revoking'
    BY <1>1, <1>6 DEF PanelOK, UnseenByTab
  <2>4. ~overtaken' =>
          \A q \in Slot : Listing(q)' /\ call'[q].stage = "answered" /\ call'[q].ok =>
            call'[q].data \cap revoked' = {}
    BY <1>6, <1>8 DEF UnseenByTab
  <2>5. ~overtaken' /\ ~panel'.loadError /\ (\A q \in Slot : ~Listing(q)') =>
          panel'.list = Nil \/ panel'.list \cap revoked' = {}
    BY <1>1, <1>6 DEF PanelOK, UnseenByTab
  <2> QED  BY <1>7, <2>1, <2>2, <2>3, <2>4, <2>5 DEF PanelOK
<1> QED  BY <1>3, <1>4, <1>9

\* a step of the API that writes neither the trail nor what passwords began,
\* before the hook
LEMMA SentKeeps ==
  ASSUME AccessInv, NEW r \in Slot, call[r].stage = "sent", Advances(r), UnseenByTab,
         Lasts, UNCHANGED <<trail, begun, unaudited>>, CallOK(call[r])',
         account' \in {"none", "unverified", "verified"},
         session' \in [Row -> {"unused", "live", "ended"}],
         Listing(r) /\ call'[r].stage = "answered" /\ call'[r].ok => call'[r].data \cap revoked = {}
  PROVE  AccessInv'
<1>1. (\A q \in Slot : CallOK(call[q])') /\ ScreenOK' /\ PanelOK'  BY AdvanceKeeps
<1>2. TrailOK'
  <2>1. \A q \in Slot : call[q].stage = "hook" => call'[q] = call[q]  BY DEF Advances
  <2>2. TrailOK  BY DEF AccessInv
  <2> QED  BY <2>1, <2>2, TrailLasts
<1>3. AccessTypeOK'
  BY DEF AccessInv, AccessTypeOK, UnseenByTab, Advances, CallRecord
<1> QED  BY <1>1, <1>2, <1>3 DEF AccessInv

\* Done, and the answers that are refusals
LEMMA DoneIs ==
  ASSUME AccessTypeOK, NEW r \in Slot, NEW data \in SUBSET Row, Done(r, data)
  PROVE  /\ Advances(r)
         /\ call'[r].stage = "answered" /\ call'[r].ok /\ call'[r].data = data
         /\ call'[r].error = call[r].error /\ call'[r].row = call[r].row
<1>1. call[r] \in CallRecord  BY DEF AccessTypeOK, CallRecord
<1>2. PICK new : new = [[call[r] EXCEPT !.ok = TRUE, !.data = data] EXCEPT !.stage = "answered"]
  OBVIOUS
<1>3. call' = [call EXCEPT ![r] = new]  BY <1>2 DEF Done, Answered
<1>4. /\ new \in CallRecord
      /\ new.stage = "answered" /\ new.ok /\ new.data = data /\ new.error = call[r].error
      /\ new.row = call[r].row /\ new.name = call[r].name /\ new.waits = call[r].waits
      /\ new.as = call[r].as
  BY <1>1, <1>2 DEF CallRecord
<1> QED  BY <1>3, <1>4, PutIs DEF Advances

LEMMA DoneOK ==
  ASSUME NEW r \in Slot, call'[r].stage = "answered", call'[r].ok, call'[r].name # Nil,
         call'[r].name \notin {"signIn", "signOut", "revokeOtherSessions"}
  PROVE  CallOK(call[r])'
  BY DEF CallOK

LEMMA RefuseKeeps ==
  ASSUME AccessInv, NEW r \in Slot, Refuse(r), UNCHANGED tour
  PROVE  AccessInv'
<1>1. AccessTypeOK /\ CallOK(call[r])  BY DEF AccessInv
<1>2. call[r] \in CallRecord /\ call[r].stage = "sent"  BY <1>1 DEF AccessTypeOK, CallRecord, Refuse
<1>3. PICK new : new = [[call[r] EXCEPT !.error = "other"] EXCEPT !.stage = "answered"]  OBVIOUS
<1>4. call' = [call EXCEPT ![r] = new]  BY <1>3 DEF Refuse, Answered
<1>5. /\ new \in CallRecord
      /\ new.stage = "answered" /\ new.error = "other" /\ new.ok = call[r].ok
      /\ new.row = call[r].row /\ new.name = call[r].name /\ new.waits = call[r].waits
      /\ new.as = call[r].as /\ new.data = call[r].data
  BY <1>2, <1>3 DEF CallRecord
<1>6. Advances(r) /\ call'[r] = new  BY <1>1, <1>4, <1>5, PutIs DEF Advances
<1>7. ~call[r].ok /\ call[r].name # Nil  BY <1>1, <1>2 DEF CallOK
<1>8. "other" # Nil  BY Bounds
<1>9. CallOK(call[r])'
  <2>1. /\ call'[r].stage = "answered" /\ call'[r].error # Nil /\ ~call'[r].ok
        /\ call'[r].name = call[r].name /\ call'[r].as = call[r].as
    BY <1>5, <1>6, <1>7, <1>8
  <2> QED  BY <1>1, <1>7, <2>1 DEF CallOK
<1>10. UnseenByTab /\ UNCHANGED <<session, trail, begun, unaudited>>
  BY DEF Refuse, UnseenByTab, tab
<1>11. account' \in {"none", "unverified", "verified"}  BY <1>1 DEF Refuse, AccessTypeOK
<1>12. session' \in [Row -> {"unused", "live", "ended"}] /\ Lasts
  BY <1>1, <1>10 DEF AccessTypeOK, Lasts
<1> QED  BY <1>2, <1>5, <1>6, <1>7, <1>9, <1>10, <1>11, <1>12, SentKeeps

\* the calls that are done with the server
LEMMA PlainKeeps ==
  ASSUME AccessInv, NEW r \in Slot, UNCHANGED tour,
         ServeSignUp(r) \/ ServeVerifyEmail(r) \/ ServeProfile(r) \/ ServeMail(r) \/ ServeOther(r)
  PROVE  AccessInv'
<1>1. AccessTypeOK /\ CallOK(call[r])  BY DEF AccessInv
<1>2. /\ call[r].stage = "sent" /\ Done(r, {})
      /\ call[r].name \in {"signUp", "verifyEmail", "updateProfile", "sendVerificationEmail",
                           "forgotPassword", "signInMagicLink", "signInGoogle", "resetPassword"}
      /\ account' \in {"none", "unverified", "verified"}
      /\ UNCHANGED <<tab, session, trail, begun, unaudited, done, revoked, overtaken>>
  BY <1>1 DEF ServeSignUp, ServeVerifyEmail, ServeProfile, ServeMail, ServeOther, server,
     AccessTypeOK
<1>3. /\ Advances(r) /\ call'[r].stage = "answered" /\ call'[r].ok /\ call'[r].data = {}
  BY <1>1, <1>2, DoneIs
<1>4. call'[r].name = call[r].name /\ call[r].name # Nil  BY <1>1, <1>2, <1>3 DEF CallOK, Advances
<1>5. CallOK(call[r])'  BY <1>2, <1>3, <1>4, DoneOK
<1>6. UnseenByTab  BY <1>2 DEF UnseenByTab, tab
<1>7. session' \in [Row -> {"unused", "live", "ended"}] /\ Lasts
  BY <1>1, <1>2 DEF AccessTypeOK, Lasts
<1> QED  BY <1>2, <1>3, <1>5, <1>6, <1>7, SentKeeps

LEMMA ServeListSessionsKeeps ==
  ASSUME AccessInv, NEW r \in Slot, ServeListSessions(r), UNCHANGED tour
  PROVE  AccessInv'
<1>1. AccessTypeOK /\ CallOK(call[r]) /\ PanelOK  BY DEF AccessInv
<1>2. /\ call[r].stage = "sent" /\ call[r].name = "listSessions" /\ Done(r, Live)
      /\ UNCHANGED <<tab, account, session, trail, begun, unaudited, done, revoked, overtaken>>
  BY DEF ServeListSessions, server
<1>3. /\ Advances(r) /\ call'[r].stage = "answered" /\ call'[r].ok /\ call'[r].data = Live
  BY <1>1, <1>2, DoneIs DEF Live
<1>4. call'[r].name = "listSessions" /\ "listSessions" # Nil
  BY <1>1, <1>2, <1>3 DEF CallOK, Advances
<1>5. CallOK(call[r])'  BY <1>3, <1>4, DoneOK
<1>6. Live \cap revoked = {}  BY <1>1 DEF Live, PanelOK
<1>7. UnseenByTab  BY <1>2 DEF UnseenByTab, tab
<1>8. /\ session' \in [Row -> {"unused", "live", "ended"}] /\ Lasts
      /\ account' \in {"none", "unverified", "verified"}
  BY <1>1, <1>2 DEF AccessTypeOK, Lasts
<1> QED  BY <1>2, <1>3, <1>5, <1>6, <1>7, <1>8, SentKeeps

LEMMA EndOthersIs ==
  ASSUME AccessTypeOK, NEW s
  PROVE  /\ EndOthers(s) \in [Row -> {"unused", "live", "ended"}]
         /\ \A t \in Row : session[t] = "ended" => EndOthers(s)[t] = "ended"
         /\ \A t \in Live \ {s} : EndOthers(s)[t] = "ended"
  BY DEF EndOthers, Live, AccessTypeOK

LEMMA ServeRevokeOthersKeeps ==
  ASSUME AccessInv, NEW r \in Slot, ServeRevokeOthers(r), UNCHANGED tour
  PROVE  AccessInv'
<1>1. AccessTypeOK /\ CallOK(call[r])  BY DEF AccessInv
<1>2. PICK s : s = call[r].as  OBVIOUS
<1>3. /\ call[r].stage = "sent" /\ call[r].name = "revokeOtherSessions"
      /\ Done(r, Live \ {s}) /\ session' = EndOthers(s)
      /\ UNCHANGED <<tab, account, trail, begun, unaudited, done, revoked, overtaken>>
  BY <1>2 DEF ServeRevokeOthers
<1>4. Live \ {s} \in SUBSET Row  BY DEF Live
<1>5. /\ Advances(r) /\ call'[r].stage = "answered" /\ call'[r].ok /\ call'[r].data = Live \ {s}
  BY <1>1, <1>3, <1>4, DoneIs
<1>6. /\ session' \in [Row -> {"unused", "live", "ended"}]
      /\ \A t \in Row : session[t] = "ended" => session'[t] = "ended"
      /\ \A t \in Live \ {s} : session'[t] = "ended"
  BY <1>1, <1>3, EndOthersIs
<1>7. Lasts  BY <1>3, <1>6 DEF Lasts
<1>8. call'[r].name = "revokeOtherSessions" /\ "revokeOtherSessions" # Nil
  BY <1>1, <1>3, <1>5 DEF CallOK, Advances
<1>9. CallOK(call[r])'  BY <1>5, <1>6, <1>8 DEF CallOK
<1>10. UnseenByTab /\ account' \in {"none", "unverified", "verified"}
  BY <1>1, <1>3 DEF UnseenByTab, tab, AccessTypeOK
<1>11. ~Listing(r)  BY <1>3 DEF Listing
<1> QED  BY <1>3, <1>5, <1>6, <1>7, <1>9, <1>10, <1>11, SentKeeps

LEMMA ServeChangePasswordKeeps ==
  ASSUME AccessInv, NEW r \in Slot, ServeChangePassword(r), UNCHANGED tour
  PROVE  AccessInv'
<1>1. AccessTypeOK /\ CallOK(call[r])  BY DEF AccessInv
<1>2. PICK s : s = call[r].as  OBVIOUS
<1>3. /\ call[r].stage = "sent" /\ call[r].name = "changePassword"
      /\ Done(r, {}) /\ session' \in {session, EndOthers(s)}
      /\ UNCHANGED <<tab, account, trail, begun, unaudited, done, revoked, overtaken>>
  BY <1>2 DEF ServeChangePassword
<1>4. /\ Advances(r) /\ call'[r].stage = "answered" /\ call'[r].ok /\ call'[r].data = {}
  BY <1>1, <1>3, DoneIs
<1>5. /\ session' \in [Row -> {"unused", "live", "ended"}]
      /\ \A t \in Row : session[t] = "ended" => session'[t] = "ended"
  BY <1>1, <1>3, EndOthersIs DEF AccessTypeOK
<1>6. Lasts  BY <1>3, <1>5 DEF Lasts
<1>7. call'[r].name = "changePassword" /\ "changePassword" # Nil
  BY <1>1, <1>3, <1>4 DEF CallOK, Advances
<1>8. CallOK(call[r])'  BY <1>4, <1>7, DoneOK
<1>9. UnseenByTab /\ account' \in {"none", "unverified", "verified"}
  BY <1>1, <1>3 DEF UnseenByTab, tab, AccessTypeOK
<1> QED  BY <1>3, <1>4, <1>5, <1>6, <1>8, <1>9, SentKeeps

LEMMA ServeSignInKeeps ==
  ASSUME AccessInv, NEW r \in Slot, ServeSignIn(r), UNCHANGED tour
  PROVE  AccessInv'
<1>1. AccessTypeOK /\ CallOK(call[r]) /\ TrailOK  BY DEF AccessInv
<1>2. /\ call[r] \in CallRecord /\ call[r].stage = "sent" /\ call[r].name = "signIn"
      /\ UNCHANGED <<tab, account, trail, unaudited, done, revoked, overtaken>>
  BY <1>1 DEF ServeSignIn, AccessTypeOK, CallRecord
<1>3. UnseenByTab /\ ~Listing(r)  BY <1>2 DEF UnseenByTab, tab, Listing
<1>4. ~call[r].ok /\ call[r].row = Nil /\ "signIn" # Nil  BY <1>1, <1>2 DEF CallOK
<1>5. ASSUME NEW s \in Row, session[s] = "unused", session' = [session EXCEPT ![s] = "live"],
             begun' = begun \cup {s},
             call' = [call EXCEPT ![r].stage = "hook", ![r].ok = TRUE, ![r].row = s]
      PROVE  AccessInv'
  <2>1. PICK new : new = [call[r] EXCEPT !.stage = "hook", !.ok = TRUE, !.row = s]  OBVIOUS
  <2>2. call' = [call EXCEPT ![r] = new]  BY <1>1, <1>2, <1>5, <2>1 DEF AccessTypeOK, CallRecord
  <2>3. /\ new \in CallRecord /\ new.stage = "hook" /\ new.ok /\ new.row = s
        /\ new.name = call[r].name /\ new.waits = call[r].waits /\ new.as = call[r].as
    BY <1>2, <2>1 DEF CallRecord
  <2>4. Advances(r) /\ call'[r] = new  BY <1>1, <2>2, <2>3, PutIs DEF Advances
  <2>5. Lasts /\ session' \in [Row -> {"unused", "live", "ended"}] /\ begun' \in SUBSET Row
    BY <1>1, <1>5 DEF Lasts, AccessTypeOK
  <2>6. s # Nil  BY Bounds
  <2>7. CallOK(call[r])'
    <3>1. /\ call'[r].stage = "hook" /\ call'[r].name = "signIn" /\ call'[r].ok
          /\ call'[r].row = s /\ s \in begun'
      BY <1>2, <1>5, <2>3, <2>4
    <3> QED  BY <1>4, <2>6, <3>1 DEF CallOK
  <2>8. (\A q \in Slot : CallOK(call[q])') /\ ScreenOK' /\ PanelOK'
    BY <1>3, <2>4, <2>5, <2>7, AdvanceKeeps
  <2>9. TrailOK'
    <3>1. \A t : <<"auth.sign_in.success", t>> \in trail' => t \in begun'
      BY <1>1, <1>2, <1>5 DEF TrailOK
    <3>2. ASSUME NEW t \in begun'
          PROVE  t \in unaudited' \/ <<"auth.sign_in.success", t>> \in trail' \/ Writing(t)'
      <4>1. CASE t = s  BY <1>2, <2>3, <2>4, <4>1 DEF Writing
      <4>2. CASE t # s
        <5>1. t \in unaudited \/ <<"auth.sign_in.success", t>> \in trail \/ Writing(t)
          BY <1>1, <1>5, <3>2, <4>2 DEF TrailOK
        <5>2. Writing(t) => Writing(t)'  BY <1>2, <2>4 DEF Writing, Advances
        <5> QED  BY <1>2, <5>1, <5>2
      <4> QED  BY <4>1, <4>2
    <3>3. \A t : <<"auth.sign_out", t>> \in trail' => t \in Row /\ session'[t] = "ended"
      BY <1>1, <1>2, <2>5 DEF TrailOK, Lasts
    <3> QED  BY <3>1, <3>2, <3>3 DEF TrailOK
  <2>10. AccessTypeOK'
    BY <1>1, <1>2, <1>3, <2>4, <2>5 DEF AccessTypeOK, UnseenByTab, Advances, CallRecord
  <2> QED  BY <2>8, <2>9, <2>10 DEF AccessInv
<1>6. ASSUME NEW code \in {"EMAIL_NOT_VERIFIED", "other"},
             call' = [call EXCEPT ![r].stage = "hook", ![r].error = code],
             UNCHANGED <<session, begun>>
      PROVE  AccessInv'
  <2>1. PICK new : new = [call[r] EXCEPT !.stage = "hook", !.error = code]  OBVIOUS
  <2>2. call' = [call EXCEPT ![r] = new]  BY <1>1, <1>2, <1>6, <2>1 DEF AccessTypeOK, CallRecord
  <2>3. /\ new \in CallRecord /\ new.stage = "hook" /\ new.error = code /\ new.ok = call[r].ok
        /\ new.row = call[r].row
        /\ new.name = call[r].name /\ new.waits = call[r].waits /\ new.as = call[r].as
    BY <1>2, <2>1 DEF CallRecord
  <2>4. Advances(r) /\ call'[r] = new  BY <1>1, <2>2, <2>3, PutIs DEF Advances
  <2>5. code # Nil  BY Bounds
  <2>6. /\ call'[r].stage = "hook" /\ call'[r].name = "signIn" /\ ~call'[r].ok
        /\ call'[r].row = Nil /\ call'[r].error # Nil
    BY <1>2, <1>4, <2>3, <2>4, <2>5
  <2>7. CallOK(call[r])'  BY <1>4, <2>6 DEF CallOK
  <2>8. /\ session' \in [Row -> {"unused", "live", "ended"}] /\ Lasts
        /\ account' \in {"none", "unverified", "verified"}
    BY <1>1, <1>2, <1>6 DEF AccessTypeOK, Lasts
  <2> QED  BY <1>2, <1>3, <1>6, <2>4, <2>7, <2>8, SentKeeps
<1> QED  BY <1>5, <1>6 DEF ServeSignIn

LEMMA ServeSignOutKeeps ==
  ASSUME AccessInv, NEW r \in Slot, ServeSignOut(r), UNCHANGED tour
  PROVE  AccessInv'
<1>1. AccessTypeOK /\ CallOK(call[r])  BY DEF AccessInv
<1>2. PICK s : s = call[r].as  OBVIOUS
<1>3. /\ call[r].stage = "sent" /\ call[r].name = "signOut" /\ call[r] \in CallRecord
      /\ session' = [session EXCEPT ![s] = "ended"]
      /\ call' = [call EXCEPT ![r].stage = "hook", ![r].ok = TRUE, ![r].row = s]
      /\ UNCHANGED <<tab, account, trail, begun, unaudited, done, revoked, overtaken>>
  BY <1>1, <1>2 DEF ServeSignOut, AccessTypeOK, CallRecord
<1>4. s \in Row /\ s # Nil  BY <1>1, <1>2, <1>3 DEF CallOK, CallRecord
<1>5. PICK new : new = [call[r] EXCEPT !.stage = "hook", !.ok = TRUE, !.row = s]  OBVIOUS
<1>6. call' = [call EXCEPT ![r] = new]  BY <1>1, <1>3, <1>5 DEF AccessTypeOK, CallRecord
<1>7. /\ new \in CallRecord /\ new.stage = "hook" /\ new.ok /\ new.row = s
      /\ new.name = call[r].name /\ new.waits = call[r].waits /\ new.as = call[r].as
  BY <1>3, <1>4, <1>5 DEF CallRecord
<1>8. Advances(r) /\ call'[r] = new  BY <1>1, <1>6, <1>7, PutIs DEF Advances
<1>9. /\ session' \in [Row -> {"unused", "live", "ended"}] /\ session'[s] = "ended"
      /\ \A t \in Row : session[t] = "ended" => session'[t] = "ended"
  BY <1>1, <1>3, <1>4 DEF AccessTypeOK
<1>10. Lasts  BY <1>3, <1>9 DEF Lasts
<1>11. CallOK(call[r])'
  <2>1. /\ call'[r].stage = "hook" /\ call'[r].name = "signOut" /\ call'[r].ok
        /\ call'[r].row = s /\ call'[r].as = s /\ session'[s] = "ended"
    BY <1>2, <1>3, <1>7, <1>8, <1>9
  <2>2. "signOut" # Nil  BY <1>1, <1>3 DEF CallOK
  <2> QED  BY <1>4, <2>1, <2>2 DEF CallOK
<1>12. UnseenByTab /\ account' \in {"none", "unverified", "verified"} /\ ~Listing(r)
  BY <1>1, <1>3 DEF UnseenByTab, tab, AccessTypeOK, Listing
<1> QED  BY <1>3, <1>8, <1>9, <1>10, <1>11, <1>12, SentKeeps

\* the event is written, or the caller is answered with an error
LEMMA AfterHookKeeps ==
  ASSUME AccessInv, NEW r \in Slot, AfterHook(r), UNCHANGED tour
  PROVE  AccessInv'
<1>1. AccessTypeOK /\ CallOK(call[r]) /\ TrailOK  BY DEF AccessInv
<1>2. PICK q : q = call[r]  OBVIOUS
<1>3. /\ q \in CallRecord /\ q.stage = "hook" /\ q.name # Nil
      /\ UNCHANGED <<tab, account, session, begun, done, revoked, overtaken>>
  BY <1>1, <1>2 DEF AfterHook, AccessTypeOK, CallRecord, CallOK
<1>4. \/ q.name = "signIn" /\ (q.ok <=> q.row # Nil) /\ (q.row # Nil => q.row \in begun)
      \/ q.name = "signOut" /\ q.ok /\ q.row # Nil /\ session[q.row] = "ended"
  BY <1>1, <1>2, <1>3 DEF CallOK
<1>5. UnseenByTab /\ ~Listing(r)  BY <1>2, <1>3, <1>4 DEF UnseenByTab, tab, Listing
<1>6. Lasts  BY <1>3 DEF Lasts
<1>7. CASE /\ trail' = trail \cup {e \in {<<resolveAuthEvent(q), q.row>>} :
                                     e[1] # "auth.sign_in.failure"}
           /\ Answered(r, q)
           /\ UNCHANGED unaudited
  <2>1. PICK new : new = [q EXCEPT !.stage = "answered"]  OBVIOUS
  <2>2. call' = [call EXCEPT ![r] = new]  BY <1>7, <2>1 DEF Answered
  <2>3. /\ new \in CallRecord /\ new.stage = "answered" /\ new.ok = q.ok /\ new.row = q.row
        /\ new.error = q.error /\ new.name = q.name /\ new.waits = q.waits /\ new.as = q.as
    BY <1>3, <2>1 DEF CallRecord
  <2>4. Advances(r) /\ call'[r] = new  BY <1>1, <1>2, <2>2, <2>3, PutIs DEF Advances
  <2>5. CallOK(call[r])'  BY <1>1, <1>2, <1>3, <1>4, <2>3, <2>4 DEF CallOK
  <2>6. (\A p \in Slot : CallOK(call[p])') /\ ScreenOK' /\ PanelOK'
    BY <1>5, <1>6, <2>4, <2>5, AdvanceKeeps
  <2>7. CASE q.name = "signIn" /\ q.row # Nil
    <3>1. resolveAuthEvent(q) = "auth.sign_in.success"  BY <2>7 DEF resolveAuthEvent
    <3>2. trail' = trail \cup {<<"auth.sign_in.success", q.row>>}  BY <1>7, <3>1
    <3>3. TrailOK'
      <4>1. \A s : <<"auth.sign_in.success", s>> \in trail' => s \in begun'
        BY <1>1, <1>3, <1>4, <2>7, <3>2 DEF TrailOK
      <4>2. ASSUME NEW s \in begun'
            PROVE  s \in unaudited' \/ <<"auth.sign_in.success", s>> \in trail' \/ Writing(s)'
        <5>1. s \in unaudited \/ <<"auth.sign_in.success", s>> \in trail \/ Writing(s)
          BY <1>1, <1>3 DEF TrailOK
        <5>2. Writing(s) => Writing(s)' \/ s = q.row  BY <1>2, <2>4 DEF Writing, Advances
        <5> QED  BY <1>7, <3>2, <5>1, <5>2
      <4>3. \A s : <<"auth.sign_out", s>> \in trail' => s \in Row /\ session'[s] = "ended"
        BY <1>1, <1>3, <3>2 DEF TrailOK
      <4> QED  BY <4>1, <4>2, <4>3 DEF TrailOK
    <3>4. trail' \in SUBSET ({"auth.sign_in.success", "auth.sign_out"} \X (Row \cup {Nil}))
      BY <1>1, <1>3, <3>2 DEF AccessTypeOK, CallRecord
    <3>5. AccessTypeOK'
      BY <1>1, <1>3, <1>5, <1>7, <2>4, <3>4 DEF AccessTypeOK, UnseenByTab, Advances, CallRecord
    <3> QED  BY <2>6, <3>3, <3>5 DEF AccessInv
  <2>8. CASE q.name = "signOut"
    <3>1. resolveAuthEvent(q) = "auth.sign_out"  BY <2>8 DEF resolveAuthEvent
    <3>2. trail' = trail \cup {<<"auth.sign_out", q.row>>}  BY <1>7, <3>1
    <3>3. TrailOK'
      <4>1. \A s : <<"auth.sign_in.success", s>> \in trail' => s \in begun'
        BY <1>1, <1>3, <3>2 DEF TrailOK
      <4>2. ASSUME NEW s \in begun'
            PROVE  s \in unaudited' \/ <<"auth.sign_in.success", s>> \in trail' \/ Writing(s)'
        <5>1. s \in unaudited \/ <<"auth.sign_in.success", s>> \in trail \/ Writing(s)
          BY <1>1, <1>3 DEF TrailOK
        <5>2. Writing(s) => Writing(s)'  BY <1>2, <2>4, <2>8 DEF Writing, Advances
        <5> QED  BY <1>7, <3>2, <5>1, <5>2
      <4>3. q.row \in Row /\ session'[q.row] = "ended"
        BY <1>3, <1>4, <2>8 DEF CallRecord
      <4>4. \A s : <<"auth.sign_out", s>> \in trail' => s \in Row /\ session'[s] = "ended"
        BY <1>1, <1>3, <3>2, <4>3 DEF TrailOK
      <4> QED  BY <4>1, <4>2, <4>4 DEF TrailOK
    <3>4. trail' \in SUBSET ({"auth.sign_in.success", "auth.sign_out"} \X (Row \cup {Nil}))
      BY <1>1, <1>3, <3>2 DEF AccessTypeOK, CallRecord
    <3>5. AccessTypeOK'
      BY <1>1, <1>3, <1>5, <1>7, <2>4, <3>4 DEF AccessTypeOK, UnseenByTab, Advances, CallRecord
    <3> QED  BY <2>6, <3>3, <3>5 DEF AccessInv
  <2>9. CASE q.name = "signIn" /\ q.row = Nil
    <3>1. resolveAuthEvent(q) = "auth.sign_in.failure"  BY <2>9 DEF resolveAuthEvent
    <3>2. trail' = trail  BY <1>7, <3>1
    <3>3. TrailOK'
      <4>1. \A s : <<"auth.sign_in.success", s>> \in trail' => s \in begun'
        BY <1>1, <1>3, <3>2 DEF TrailOK
      <4>2. ASSUME NEW s \in begun'
            PROVE  s \in unaudited' \/ <<"auth.sign_in.success", s>> \in trail' \/ Writing(s)'
        <5>1. s \in unaudited \/ <<"auth.sign_in.success", s>> \in trail \/ Writing(s)
          BY <1>1, <1>3 DEF TrailOK
        <5>2. s # Nil  BY <1>1, <1>3, Bounds DEF AccessTypeOK
        <5>3. Writing(s) => Writing(s)'  BY <1>2, <2>4, <2>9, <5>2 DEF Writing, Advances
        <5> QED  BY <1>7, <3>2, <5>1, <5>3
      <4>3. \A s : <<"auth.sign_out", s>> \in trail' => s \in Row /\ session'[s] = "ended"
        BY <1>1, <1>3, <3>2 DEF TrailOK
      <4> QED  BY <4>1, <4>2, <4>3 DEF TrailOK
    <3>4. AccessTypeOK'
      BY <1>1, <1>3, <1>5, <1>7, <2>4, <3>2 DEF AccessTypeOK, UnseenByTab, Advances, CallRecord
    <3> QED  BY <2>6, <3>3, <3>4 DEF AccessInv
  <2> QED  BY <1>4, <2>7, <2>8, <2>9
<1>8. CASE /\ unaudited' = unaudited \cup ({q.row} \ {Nil})
           /\ Answered(r, [q EXCEPT !.ok = FALSE, !.error = "other"])
           /\ UNCHANGED trail
  <2>1. PICK new : new = [[q EXCEPT !.ok = FALSE, !.error = "other"] EXCEPT !.stage = "answered"]
    OBVIOUS
  <2>2. call' = [call EXCEPT ![r] = new]  BY <1>8, <2>1 DEF Answered
  <2>3. /\ new \in CallRecord /\ new.stage = "answered" /\ ~new.ok /\ new.row = q.row
        /\ new.error = "other" /\ new.name = q.name /\ new.waits = q.waits /\ new.as = q.as
    BY <1>3, <2>1 DEF CallRecord
  <2>4. Advances(r) /\ call'[r] = new  BY <1>1, <1>2, <2>2, <2>3, PutIs DEF Advances
  <2>5. "other" # Nil  BY Bounds
  <2>6. CallOK(call[r])'  BY <1>1, <1>2, <1>3, <2>3, <2>4, <2>5 DEF CallOK
  <2>7. (\A p \in Slot : CallOK(call[p])') /\ ScreenOK' /\ PanelOK'
    BY <1>5, <1>6, <2>3, <2>4, <2>6, AdvanceKeeps
  <2>8. TrailOK'
    <3>1. \A s : <<"auth.sign_in.success", s>> \in trail' => s \in begun'
      BY <1>1, <1>3, <1>8 DEF TrailOK
    <3>2. ASSUME NEW s \in begun'
          PROVE  s \in unaudited' \/ <<"auth.sign_in.success", s>> \in trail' \/ Writing(s)'
      <4>1. s \in unaudited \/ <<"auth.sign_in.success", s>> \in trail \/ Writing(s)
        BY <1>1, <1>3 DEF TrailOK
      <4>2. s # Nil  BY <1>1, <1>3, Bounds DEF AccessTypeOK
      <4>3. Writing(s) => Writing(s)' \/ s = q.row  BY <1>2, <2>4 DEF Writing, Advances
      <4> QED  BY <1>8, <4>1, <4>2, <4>3
    <3>3. \A s : <<"auth.sign_out", s>> \in trail' => s \in Row /\ session'[s] = "ended"
      BY <1>1, <1>3, <1>8 DEF TrailOK
    <3> QED  BY <3>1, <3>2, <3>3 DEF TrailOK
  <2>9. unaudited' \in SUBSET Row  BY <1>1, <1>3, <1>8 DEF AccessTypeOK, CallRecord
  <2>10. AccessTypeOK'
    BY <1>1, <1>3, <1>5, <1>8, <2>4, <2>9 DEF AccessTypeOK, UnseenByTab, Advances, CallRecord
  <2> QED  BY <2>7, <2>8, <2>10 DEF AccessInv
<1> QED  BY <1>2, <1>7, <1>8 DEF AfterHook

-----------------------------------------------------------------------------
\* No call is disturbed

LEMMA PanelStays ==
  ASSUME AccessTypeOK, PanelOK, Lasts, UNCHANGED <<panel, revoked, overtaken>>,
         \A q \in Slot : (Revoking(q)' <=> Revoking(q)) /\ (Listing(q)' <=> Listing(q)),
         \A q \in Slot : Listing(q) => call'[q] = call[q]
  PROVE  PanelOK'
<1>1. \A s \in revoked' : session'[s] = "ended"
  <2>1. revoked \subseteq Row  BY DEF AccessTypeOK
  <2> QED  BY <2>1 DEF PanelOK, Lasts
<1>2. \A q \in Slot : Revoking(q)' => panel.revoking'  BY DEF PanelOK
<1>3. \A q \in Slot, p \in Slot : Revoking(q)' /\ Revoking(p)' => q = p  BY DEF PanelOK
<1>4. ~overtaken' => \A q \in Slot : Listing(q)' => ~panel.revoking'  BY DEF PanelOK
<1>5. ~overtaken' =>
        \A q \in Slot : Listing(q)' /\ call'[q].stage = "answered" /\ call'[q].ok =>
          call'[q].data \cap revoked' = {}
  BY DEF PanelOK
<1>6. ~overtaken' /\ ~panel'.loadError /\ (\A q \in Slot : ~Listing(q)') =>
        panel'.list = Nil \/ panel'.list \cap revoked' = {}
  BY DEF PanelOK
<1> QED  BY <1>1, <1>2, <1>3, <1>4, <1>5, <1>6 DEF PanelOK

LEMMA ServerKeeps ==
  ASSUME AccessInv, UNCHANGED tour, Lasts,
         UNCHANGED <<tab, call, trail, begun, unaudited, done, revoked, overtaken>>,
         account' \in {"none", "unverified", "verified"},
         session' \in [Row -> {"unused", "live", "ended"}]
  PROVE  AccessInv'
<1>1. AccessTypeOK /\ TrailOK /\ PanelOK /\ ScreenOK /\ \A q \in Slot : CallOK(call[q])
  BY DEF AccessInv
<1>2. ASSUME NEW q \in Slot PROVE CallOK(call[q])'
  <2>1. call[q] \in CallRecord /\ CallOK(call[q])  BY <1>1, <1>2 DEF AccessTypeOK, CallRecord
  <2>2. Same(call'[q], call[q])  BY DEF Same
  <2> QED  BY <1>2, <2>1, <2>2, CallLasts
<1>3. TrailOK'  BY <1>1, TrailLasts
<1>4. ScreenOK'  BY <1>1, ScreenStays DEF tab, ScreenOK
<1>5. PanelOK'
  <2>1. \A q \in Slot : (Revoking(q)' <=> Revoking(q)) /\ (Listing(q)' <=> Listing(q))
    BY DEF Revoking, Listing
  <2> QED  BY <1>1, <2>1, PanelStays DEF tab
<1>6. AccessTypeOK'  BY <1>1 DEF AccessTypeOK, tab
<1> QED  BY <1>2, <1>3, <1>4, <1>5, <1>6 DEF AccessInv

LEMMA OutsideKeeps ==
  ASSUME AccessInv, UNCHANGED tour,
         FollowVerification \/ Expire \/ (\E s \in Row : OtherDevice(s))
  PROVE  AccessInv'
<1>1. AccessTypeOK  BY DEF AccessInv
<1>2. CASE FollowVerification
  BY <1>1, <1>2, ServerKeeps DEF FollowVerification, Lasts, AccessTypeOK
<1>3. CASE Expire
  <2>1. /\ session' \in [Row -> {"unused", "live", "ended"}]
        /\ \A t \in Row : session[t] = "ended" => session'[t] = "ended"
    BY <1>1, <1>3 DEF Expire, Live, AccessTypeOK
  <2> QED  BY <1>1, <1>3, <2>1, ServerKeeps DEF Expire, Lasts, AccessTypeOK
<1>4. ASSUME NEW s \in Row, OtherDevice(s) PROVE AccessInv'
  <2>1. /\ session' \in [Row -> {"unused", "live", "ended"}]
        /\ \A t \in Row : session[t] = "ended" => session'[t] = "ended"
    BY <1>1, <1>4 DEF OtherDevice, AccessTypeOK
  <2> QED  BY <1>1, <1>4, <2>1, ServerKeeps DEF OtherDevice, Lasts, AccessTypeOK
<1> QED  BY <1>2, <1>3, <1>4

-----------------------------------------------------------------------------
\* A screen is mounted

LEMMA LeftIs ==
  ASSUME AccessTypeOK, NEW b \in BOOLEAN
  PROVE  /\ Left(b) \in [Slot -> CallRecord]
         /\ \A q \in Slot : Same(Left(b)[q], call[q]) /\ Left(b)[q].waits # "form"
<1>1. ASSUME NEW q \in Slot
      PROVE  /\ Left(b)[q] \in CallRecord
             /\ Same(Left(b)[q], call[q]) /\ Left(b)[q].waits # "form"
  <2>1. call[q] \in CallRecord  BY DEF AccessTypeOK, CallRecord
  <2>2. Left(b)[q] =
          IF call[q].waits # "nobody" /\ (b \/ call[q].name \notin CalledBack)
          THEN [call[q] EXCEPT !.waits = "nobody"]
          ELSE IF call[q].waits = "form" THEN [call[q] EXCEPT !.waits = "route"] ELSE call[q]
    BY DEF Left
  <2>3. ASSUME NEW w \in {"nobody", "route"}, Left(b)[q] = [call[q] EXCEPT !.waits = w]
        PROVE  /\ Left(b)[q] \in CallRecord
               /\ Same(Left(b)[q], call[q]) /\ Left(b)[q].waits # "form"
    BY <2>1, <2>3 DEF CallRecord, Same
  <2>4. ASSUME Left(b)[q] = call[q], call[q].waits # "form"
        PROVE  /\ Left(b)[q] \in CallRecord
               /\ Same(Left(b)[q], call[q]) /\ Left(b)[q].waits # "form"
    BY <2>1, <2>4 DEF Same
  <2> QED  BY <2>2, <2>3, <2>4
<1>2. Left(b) = [q \in Slot |-> Left(b)[q]]  BY DEF Left
<1> QED  BY <1>1, <1>2

\* a form that confirms nothing says nothing
LEMMA SaysNothing ==
  ASSUME ~form'.saved, ~form'.submitted \/ form'.error # Nil
  PROVE  Screen.says' = {}
  BY DEF Confirms, Screen, SignInScreen, SignUpScreen, VerifyEmailScreen, Inbox,
     ForgotPasswordScreen, ResetPasswordScreen, MagicLinkScreen, PasswordPanel, ProfileScreen,
     Form, Says

LEMMA MountIs ==
  ASSUME AccessTypeOK, NEW p, NEW cs \in [Slot -> CallRecord], Mount(p, cs)
  PROVE  /\ page' = p /\ done' = {} /\ revoked' = {} /\ overtaken' = FALSE
         /\ panel' \in PanelRecord /\ panel'.list = Nil /\ ~panel'.revoking
         /\ form' \in FormRecord /\ ~form'.saved /\ ~form'.submitted
         /\ form'.pending \in Asks(p) \cup {Nil}
         /\ call' \in [Slot -> CallRecord]
         /\ \A q \in Slot :
              \/ call'[q] = cs[q]
              \/ /\ cs[q] = NoCall /\ call'[q].stage = "sent"
                 /\ call'[q].name \in {"verifyEmail", "listSessions"}
                 /\ ~call'[q].ok /\ call'[q].row = Nil
<1>1. /\ page' = p /\ done' = {} /\ revoked' = {} /\ overtaken' = FALSE
  BY DEF Mount
<1>2. panel' \in PanelRecord /\ panel'.list = Nil /\ ~panel'.revoking
  <2>1. Unloaded \in PanelRecord  BY DEF Unloaded, PanelRecord
  <2>2. Unloaded.list = Nil  BY DEF Unloaded
  <2>3. ~Unloaded.revoking  BY DEF Unloaded
  <2>4. panel' = Unloaded  BY DEF Mount
  <2> QED  BY <2>1, <2>2, <2>3, <2>4
<1>3. /\ form' \in FormRecord /\ ~form'.saved /\ ~form'.submitted
      /\ form'.pending \in Asks(p) \cup {Nil}
  BY DEF Mount, Fresh, FormRecord, Call, Asks
<1>4. CASE OnMount(p) = Nil  BY <1>1, <1>2, <1>3, <1>4 DEF Mount
<1>5. CASE OnMount(p) # Nil
  <2>1. PICK c : c = OnMount(p)  OBVIOUS
  <2>2. c \in Call /\ c \in {"verifyEmail", "listSessions"}
    BY <1>5, <2>1 DEF OnMount, Call
  <2>3. PICK r \in Slot : cs[r] = NoCall /\ call' = [cs EXCEPT ![r] = Sent(c)]
    BY <1>5, <2>1 DEF Mount
  <2>4. /\ Sent(c) \in CallRecord /\ Sent(c).stage = "sent" /\ Sent(c).name = c
        /\ ~Sent(c).ok /\ Sent(c).row = Nil
    BY <2>2, SentIs
  <2>5. call' \in [Slot -> CallRecord]  BY <2>3, <2>4
  <2>6. call'[r] = Sent(c) /\ \A q \in Slot \ {r} : call'[q] = cs[q]  BY <2>3
  <2> QED  BY <1>1, <1>2, <1>3, <2>2, <2>3, <2>4, <2>5, <2>6
<1> QED  BY <1>4, <1>5

\* the calls that are left wait for no form, so nothing is known of the new screen
LEMMA MountKeeps ==
  ASSUME AccessInv, UNCHANGED tour, NEW p \in Pages, NEW cs \in [Slot -> CallRecord], Mount(p, cs),
         \A q \in Slot : cs[q] = NoCall \/ (Same(cs[q], call[q]) /\ cs[q].waits # "form"),
         \A q \in Slot : call[q].stage = "hook" => Same(cs[q], call[q]),
         cookie' \in Row \cup {Nil}, p \in Inside => cookie' # Nil,
         account' \in {"none", "unverified", "verified"},
         session' \in [Row -> {"unused", "live", "ended"}],
         Lasts, UNCHANGED <<trail, begun, unaudited>>
  PROVE  AccessInv'
<1>1. AccessTypeOK /\ TrailOK /\ \A q \in Slot : CallOK(call[q])  BY DEF AccessInv
<1>2. /\ page' = p /\ done' = {} /\ revoked' = {} /\ overtaken' = FALSE
      /\ panel' \in PanelRecord /\ panel'.list = Nil /\ ~panel'.revoking
      /\ form' \in FormRecord /\ ~form'.saved /\ ~form'.submitted
      /\ form'.pending \in Asks(p) \cup {Nil}
      /\ call' \in [Slot -> CallRecord]
      /\ \A q \in Slot :
           \/ call'[q] = cs[q]
           \/ /\ cs[q] = NoCall /\ call'[q].stage = "sent"
              /\ call'[q].name \in {"verifyEmail", "listSessions"}
              /\ ~call'[q].ok /\ call'[q].row = Nil
  BY <1>1, MountIs
<1>3. /\ NoCall.stage = "idle" /\ NoCall.name = Nil /\ NoCall.waits = "nobody"
      /\ Nil \notin {"verifyEmail", "listSessions", "signOut", "revokeOtherSessions"}
  BY NoCallIs, Bounds DEF Call
<1>4. ASSUME NEW q \in Slot PROVE CallOK(call[q])'
  <2>1. CASE call'[q] = NoCall  BY <1>3, <2>1, FreshOK
  <2>2. CASE call'[q] = cs[q] /\ cs[q] # NoCall
    <3>1. Same(call'[q], call[q])  BY <2>2
    <3>2. call[q] \in CallRecord /\ CallOK(call[q])  BY <1>1 DEF AccessTypeOK, CallRecord
    <3> QED  BY <3>1, <3>2, CallLasts
  <2>3. CASE call'[q] # cs[q]
    <3>1. /\ call'[q].stage = "sent" /\ call'[q].name \in {"verifyEmail", "listSessions"}
          /\ ~call'[q].ok /\ call'[q].row = Nil
      BY <1>2, <2>3
    <3> QED  BY <1>3, <3>1, FreshOK
  <2> QED  BY <2>1, <2>2, <2>3
<1>5. TrailOK'
  <2>1. ASSUME NEW q \in Slot, call[q].stage = "hook"
        PROVE  call'[q].stage = "hook" /\ call'[q].name = call[q].name /\ call'[q].row = call[q].row
    <3>1. Same(cs[q], call[q])  BY <2>1
    <3>2. cs[q].stage = "hook"  BY <2>1, <3>1 DEF Same
    <3>3. call'[q] = cs[q]  BY <1>2, <1>3, <3>2
    <3> QED  BY <2>1, <3>1, <3>3 DEF Same
  <2> QED  BY <1>1, <2>1, TrailLasts
<1>6. ScreenOK'
  <2>1. Screen.says' = {}  BY <1>2, SaysNothing
  <2>2. form'.pending \in Asks(page') \cup {Nil}  BY <1>2
  <2> QED  BY <1>2, <2>1, <2>2 DEF ScreenOK, Asks
<1>7. PanelOK'
  <2>1. \A q \in Slot : ~Revoking(q)'
    BY <1>2, <1>3 DEF Revoking
  <2> QED  BY <1>2, <2>1 DEF PanelOK
<1>8. AccessTypeOK'
  <2>1. page' \in Public \cup Inside \cup {"google"}  BY <1>2 DEF Pages
  <2> QED  BY <1>1, <1>2, <2>1 DEF AccessTypeOK, CallRecord, FormRecord, PanelRecord
<1> QED  BY <1>4, <1>5, <1>6, <1>7, <1>8 DEF AccessInv

LEMMA DestinationIs ==
  ASSUME AccessTypeOK, NEW p \in Public \cup Inside, NEW c
  PROVE  Destination(p, c) \in Public \cup Inside /\ (Destination(p, c) \in Inside => c # Nil)
  BY PagesAre DEF Destination

LEMMA NavigateKeeps ==
  ASSUME AccessInv, UNCHANGED tour, NEW p \in tour, Navigate(p)
  PROVE  AccessInv'
<1>1. AccessTypeOK  BY DEF AccessInv
<1>2. p \in Public \cup Inside  BY <1>1, Bounds DEF AccessTypeOK
<1>3. PICK d \in Public \cup Inside : d = Destination(p, cookie)  BY <1>1, <1>2, DestinationIs
<1>4. /\ Mount(d, Left(FALSE)) /\ (d \in Inside => cookie # Nil)
      /\ UNCHANGED <<cookie, account, session, trail, begun, unaudited>>
  BY <1>1, <1>2, <1>3, DestinationIs DEF Navigate, server
<1>5. /\ Left(FALSE) \in [Slot -> CallRecord]
      /\ \A q \in Slot : Same(Left(FALSE)[q], call[q]) /\ Left(FALSE)[q].waits # "form"
  BY <1>1, LeftIs
<1>6. /\ cookie' \in Row \cup {Nil} /\ account' \in {"none", "unverified", "verified"}
      /\ session' \in [Row -> {"unused", "live", "ended"}] /\ Lasts
  BY <1>1, <1>4 DEF AccessTypeOK, Lasts
<1>7. d \in Pages  BY <1>3 DEF Pages
<1> QED  BY <1>4, <1>5, <1>6, <1>7, MountKeeps

LEMMA ReloadKeeps ==
  ASSUME AccessInv, UNCHANGED tour, NEW p \in tour, Reload(p)
  PROVE  AccessInv'
<1>1. AccessTypeOK  BY DEF AccessInv
<1>2. p \in Public \cup Inside  BY <1>1, Bounds DEF AccessTypeOK
<1>3. PICK c : c = cookie'  OBVIOUS
<1>4. PICK d \in Public \cup Inside : d = Destination(p, c)  BY <1>1, <1>2, DestinationIs
<1>5. /\ Mount(d, Left(TRUE)) /\ (d \in Inside => c # Nil) /\ c \in {cookie, Nil}
      /\ UNCHANGED <<account, session, trail, begun, unaudited>>
  BY <1>1, <1>2, <1>3, <1>4, DestinationIs DEF Reload, server
<1>6. /\ Left(TRUE) \in [Slot -> CallRecord]
      /\ \A q \in Slot : Same(Left(TRUE)[q], call[q]) /\ Left(TRUE)[q].waits # "form"
  BY <1>1, LeftIs
<1>7. /\ cookie' \in Row \cup {Nil} /\ account' \in {"none", "unverified", "verified"}
      /\ session' \in [Row -> {"unused", "live", "ended"}] /\ Lasts
  BY <1>1, <1>3, <1>5 DEF AccessTypeOK, Lasts
<1>8. d \in Pages  BY <1>4 DEF Pages
<1> QED  BY <1>3, <1>5, <1>6, <1>7, <1>8, MountKeeps

LEMMA EnterByLinkKeeps ==
  ASSUME AccessInv, UNCHANGED tour, NEW s \in Row, EnterByLink(s)
  PROVE  AccessInv'
<1>1. AccessTypeOK  BY DEF AccessInv
<1>2. /\ Mount("home", Left(TRUE)) /\ cookie' = s /\ account' = "verified"
      /\ session[s] = "unused" /\ session' = [session EXCEPT ![s] = "live"]
      /\ UNCHANGED <<trail, begun, unaudited>>
  BY DEF EnterByLink
<1>3. /\ Left(TRUE) \in [Slot -> CallRecord]
      /\ \A q \in Slot : Same(Left(TRUE)[q], call[q]) /\ Left(TRUE)[q].waits # "form"
  BY <1>1, LeftIs
<1>4. /\ session' \in [Row -> {"unused", "live", "ended"}]
      /\ \A t \in Row : session[t] = "ended" => session'[t] = "ended"
  BY <1>1, <1>2 DEF AccessTypeOK
<1>5. Lasts  BY <1>2, <1>4 DEF Lasts
<1>6. s # Nil /\ "home" \in Pages  BY Bounds, PagesAre DEF Pages
<1> QED  BY <1>2, <1>3, <1>4, <1>5, <1>6, MountKeeps

-----------------------------------------------------------------------------
\* A screen asks

\* one call is put in place of one that is at no hook
LEMMA PutKeeps ==
  ASSUME AccessInv, NEW r \in Slot, call[r].stage # "hook", NEW new \in CallRecord,
         call' = [call EXCEPT ![r] = new], new.stage \in {"idle", "sent"},
         new.stage = "idle" \/ new.name # Nil, new.stage = "sent" => ~new.ok /\ new.row = Nil,
         new.name = "signOut" => new.as # Nil,
         UNCHANGED <<session, trail, begun, unaudited>>
  PROVE  /\ call' \in [Slot -> CallRecord] /\ call'[r] = new
         /\ \A q \in Slot \ {r} : call'[q] = call[q]
         /\ (\A q \in Slot : CallOK(call[q])') /\ TrailOK' /\ Lasts
<1>1. AccessTypeOK /\ TrailOK /\ \A q \in Slot : CallOK(call[q])  BY DEF AccessInv
<1>2. /\ call' \in [Slot -> CallRecord] /\ call'[r] = new
      /\ \A q \in Slot \ {r} : call'[q] = call[q]
  BY <1>1, PutIs
<1>3. Lasts  BY <1>1 DEF Lasts
<1>4. CallOK(call[r])'  BY <1>2, FreshOK
<1>5. ASSUME NEW q \in Slot \ {r} PROVE CallOK(call[q])'
  <2>1. call[q] \in CallRecord /\ CallOK(call[q])  BY <1>1 DEF AccessTypeOK, CallRecord
  <2>2. Same(call'[q], call[q])  BY <1>2 DEF Same
  <2> QED  BY <1>3, <2>1, <2>2, CallLasts
<1>6. TrailOK'
  <2>1. \A q \in Slot : call[q].stage = "hook" => call'[q] = call[q]  BY <1>2
  <2> QED  BY <1>1, <1>3, <2>1, TrailLasts
<1> QED  BY <1>2, <1>3, <1>4, <1>5, <1>6

LEMMA InvalidFormKeeps ==
  ASSUME AccessInv, InvalidForm, UNCHANGED tour
  PROVE  AccessInv'
<1>1. AccessTypeOK /\ TrailOK /\ PanelOK /\ ScreenOK /\ \A q \in Slot : CallOK(call[q])
  BY DEF AccessInv
<1>2. /\ form.pending = Nil /\ form' = [form EXCEPT !.submitted = FALSE]
      /\ UNCHANGED <<page, panel, cookie, call, account, session, trail, begun, unaudited, done,
                     revoked, overtaken>>
  BY DEF InvalidForm, server
<1>3. form \in FormRecord  BY <1>1 DEF AccessTypeOK, FormRecord
<1>4. /\ form' \in FormRecord /\ form'.pending = Nil /\ ~form'.submitted
      /\ form'.saved = form.saved
  BY <1>2, <1>3 DEF FormRecord
<1>5. Lasts  BY <1>2 DEF Lasts
<1>6. ASSUME NEW q \in Slot PROVE CallOK(call[q])'
  <2>1. call[q] \in CallRecord /\ CallOK(call[q])  BY <1>1 DEF AccessTypeOK, CallRecord
  <2>2. Same(call'[q], call[q])  BY <1>2 DEF Same
  <2> QED  BY <1>5, <2>1, <2>2, CallLasts
<1>7. TrailOK'  BY <1>1, <1>2, <1>5, TrailLasts
<1>8. Screen.says' \subseteq Screen.says
  BY <1>2, <1>4, ScreenIs DEF Confirms, Screen, SignInScreen, SignUpScreen, VerifyEmailScreen,
     Inbox, ForgotPasswordScreen, ResetPasswordScreen, MagicLinkScreen, PasswordPanel,
     ProfileScreen, Form, Says
<1>9. ScreenOK'  BY <1>1, <1>2, <1>4, <1>8 DEF ScreenOK
<1>10. PanelOK'
  <2>1. \A q \in Slot : (Revoking(q)' <=> Revoking(q)) /\ (Listing(q)' <=> Listing(q))
    BY <1>2 DEF Revoking, Listing
  <2> QED  BY <1>1, <1>2, <1>5, <2>1, PanelStays
<1>11. AccessTypeOK'  BY <1>1, <1>2, <1>4 DEF AccessTypeOK, FormRecord
<1> QED  BY <1>6, <1>7, <1>9, <1>10, <1>11 DEF AccessInv

LEMMA RunKeeps ==
  ASSUME AccessInv, UNCHANGED tour, NEW r \in Slot, NEW c \in Screen.offers, Run(r, c)
  PROVE  AccessInv'
<1>1. AccessTypeOK /\ PanelOK /\ ScreenOK  BY DEF AccessInv
<1>2. c \in Asks(page)  BY ScreenIs
<1>3. c \in Call /\ c \notin {"listSessions", "revokeOtherSessions", "signOut"} /\ c # Nil
  BY <1>2, AsksAre
<1>4. PICK new : new = Sent(c)  OBVIOUS
<1>5. /\ new \in CallRecord /\ new.stage = "sent" /\ new.name = c /\ new.waits = "form"
      /\ ~new.ok /\ new.row = Nil
  BY <1>1, <1>3, <1>4, SentIs
<1>6. /\ call[r] = NoCall /\ call' = [call EXCEPT ![r] = new]
      /\ form' = [form EXCEPT !.pending = c, !.error = Nil, !.saved = FALSE]
      /\ done' = done \ {c}
      /\ UNCHANGED <<page, panel, cookie, account, session, trail, begun, unaudited, revoked,
                     overtaken>>
  BY <1>4 DEF Run, server
<1>7. /\ NoCall.stage = "idle" /\ NoCall.name = Nil /\ NoCall.waits = "nobody"
      /\ Nil \notin {"listSessions", "revokeOtherSessions"}
  BY NoCallIs, Bounds DEF Call
<1>8. /\ call' \in [Slot -> CallRecord] /\ call'[r] = new
      /\ \A q \in Slot \ {r} : call'[q] = call[q]
      /\ (\A q \in Slot : CallOK(call[q])') /\ TrailOK' /\ Lasts
  BY <1>3, <1>5, <1>6, <1>7, PutKeeps
<1>9. form \in FormRecord  BY <1>1 DEF AccessTypeOK, FormRecord
<1>10. form' \in FormRecord /\ form'.pending = c  BY <1>3, <1>6, <1>9 DEF FormRecord
<1>11. ScreenOK'  BY <1>1, <1>2, <1>3, <1>6, <1>10 DEF ScreenOK, Asks
<1>12. PanelOK'
  <2>1. \A q \in Slot : (Revoking(q)' <=> Revoking(q)) /\ (Listing(q)' <=> Listing(q))
    BY <1>3, <1>5, <1>6, <1>7, <1>8 DEF Revoking, Listing
  <2>2. \A q \in Slot : Listing(q) => call'[q] = call[q]
    BY <1>6, <1>7, <1>8 DEF Listing
  <2> QED  BY <1>1, <1>6, <1>8, <2>1, <2>2, PanelStays
<1>13. AccessTypeOK'
  BY <1>1, <1>6, <1>8, <1>10 DEF AccessTypeOK, FormRecord, CallRecord
<1> QED  BY <1>8, <1>11, <1>12, <1>13 DEF AccessInv

LEMMA SignOutKeeps ==
  ASSUME AccessInv, UNCHANGED tour, NEW r \in Slot, SignOut(r)
  PROVE  AccessInv'
<1>1. AccessTypeOK /\ PanelOK /\ ScreenOK  BY DEF AccessInv
<1>2. "signOut" \in Call /\ Nil \notin {"signOut", "listSessions", "revokeOtherSessions"}
  BY Bounds DEF Call
<1>3. PICK s : s = Sent("signOut")  OBVIOUS
<1>4. s \in CallRecord /\ s.stage = "sent" /\ s.name = "signOut" /\ s.as = cookie /\ ~s.ok
      /\ s.row = Nil
  BY <1>1, <1>2, <1>3, SentIs
<1>5. PICK new : new = [s EXCEPT !.waits = "route"]  OBVIOUS
<1>6. /\ new \in CallRecord /\ new.stage = "sent" /\ new.name = "signOut" /\ new.waits = "route"
      /\ new.as = cookie /\ ~new.ok /\ new.row = Nil
  BY <1>4, <1>5 DEF CallRecord
<1>7. /\ call[r] = NoCall /\ call' = [call EXCEPT ![r] = new] /\ page \in Inside
      /\ UNCHANGED <<page, form, panel, cookie, account, session, trail, begun, unaudited, done,
                     revoked, overtaken>>
  BY <1>3, <1>5 DEF SignOut, tab, server
<1>8. cookie # Nil  BY <1>1, <1>7 DEF ScreenOK
<1>9. NoCall.stage = "idle" /\ NoCall.name = Nil /\ NoCall.waits = "nobody"  BY NoCallIs
<1>10. /\ call' \in [Slot -> CallRecord] /\ call'[r] = new
       /\ \A q \in Slot \ {r} : call'[q] = call[q]
       /\ (\A q \in Slot : CallOK(call[q])') /\ TrailOK' /\ Lasts
  BY <1>2, <1>6, <1>7, <1>8, <1>9, PutKeeps
<1>11. ScreenOK'  BY <1>1, <1>7, ScreenStays DEF ScreenOK
<1>12. PanelOK'
  <2>1. \A q \in Slot : (Revoking(q)' <=> Revoking(q)) /\ (Listing(q)' <=> Listing(q))
    BY <1>2, <1>6, <1>7, <1>9, <1>10 DEF Revoking, Listing
  <2>2. \A q \in Slot : Listing(q) => call'[q] = call[q]
    BY <1>2, <1>7, <1>9, <1>10 DEF Listing
  <2> QED  BY <1>1, <1>7, <1>10, <2>1, <2>2, PanelStays
<1>13. AccessTypeOK'  BY <1>1, <1>7, <1>10 DEF AccessTypeOK, CallRecord
<1> QED  BY <1>10, <1>11, <1>12, <1>13 DEF AccessInv

LEMMA UnheardKeeps ==
  ASSUME AccessInv, UNCHANGED tour, NEW r \in Slot, Unheard(r)
  PROVE  AccessInv'
<1>1. AccessTypeOK /\ PanelOK /\ ScreenOK  BY DEF AccessInv
<1>2. /\ call[r].stage = "answered" /\ call[r].waits = "nobody"
      /\ call' = [call EXCEPT ![r] = NoCall]
      /\ UNCHANGED <<page, form, panel, cookie, account, session, trail, begun, unaudited, done,
                     revoked, overtaken>>
  BY DEF Unheard, tab, server
<1>3. /\ NoCall \in CallRecord /\ NoCall.stage = "idle" /\ NoCall.name = Nil
      /\ NoCall.waits = "nobody" /\ Nil # "signOut"
  BY NoCallIs, Bounds DEF Call
<1>4. /\ call' \in [Slot -> CallRecord] /\ call'[r] = NoCall
      /\ \A q \in Slot \ {r} : call'[q] = call[q]
      /\ (\A q \in Slot : CallOK(call[q])') /\ TrailOK' /\ Lasts
  BY <1>2, <1>3, PutKeeps
<1>5. ScreenOK'  BY <1>1, <1>2, ScreenStays DEF ScreenOK
<1>6. PanelOK'
  <2>1. \A q \in Slot : (Revoking(q)' <=> Revoking(q)) /\ (Listing(q)' <=> Listing(q))
    BY <1>2, <1>3, <1>4 DEF Revoking, Listing
  <2>2. \A q \in Slot : Listing(q) => call'[q] = call[q]
    BY <1>2, <1>4 DEF Listing
  <2> QED  BY <1>1, <1>2, <1>4, <2>1, <2>2, PanelStays
<1>7. AccessTypeOK'  BY <1>1, <1>2, <1>4 DEF AccessTypeOK, CallRecord
<1> QED  BY <1>4, <1>5, <1>6, <1>7 DEF AccessInv

LEMMA SignOutOthersKeeps ==
  ASSUME AccessInv, UNCHANGED tour, NEW r \in Slot, SignOutOthers(r)
  PROVE  AccessInv'
<1>1. AccessTypeOK /\ PanelOK /\ ScreenOK  BY DEF AccessInv
<1>2. /\ "revokeOtherSessions" \in Call
      /\ Nil \notin {"signOut", "listSessions", "revokeOtherSessions"}
  BY Bounds DEF Call
<1>3. PICK new : new = Sent("revokeOtherSessions")  OBVIOUS
<1>4. /\ new \in CallRecord /\ new.stage = "sent" /\ new.name = "revokeOtherSessions"
      /\ new.waits = "form" /\ ~new.ok /\ new.row = Nil
  BY <1>1, <1>2, <1>3, SentIs
<1>5. /\ call[r] = NoCall /\ call' = [call EXCEPT ![r] = new] /\ ~panel.revoking
      /\ panel' = [panel EXCEPT !.revoking = TRUE]
      /\ overtaken' = (overtaken \/ Unanswered("listSessions"))
      /\ UNCHANGED <<page, form, cookie, account, session, trail, begun, unaudited, done, revoked>>
  BY <1>3 DEF SignOutOthers, server
<1>6. NoCall.stage = "idle" /\ NoCall.name = Nil /\ NoCall.waits = "nobody"  BY NoCallIs
<1>7. /\ call' \in [Slot -> CallRecord] /\ call'[r] = new
      /\ \A q \in Slot \ {r} : call'[q] = call[q]
      /\ (\A q \in Slot : CallOK(call[q])') /\ TrailOK' /\ Lasts
  BY <1>2, <1>4, <1>5, <1>6, PutKeeps
<1>8. ScreenOK'  BY <1>1, <1>5, ScreenStays DEF ScreenOK
<1>9. panel \in PanelRecord  BY <1>1 DEF AccessTypeOK, PanelRecord
<1>10. /\ panel' \in PanelRecord /\ panel'.revoking /\ panel'.list = panel.list
       /\ panel'.loadError = panel.loadError
  BY <1>5, <1>9 DEF PanelRecord
<1>11. PanelOK'
  <2>1. \A q \in Slot : ~Revoking(q)  BY <1>1, <1>5 DEF PanelOK
  <2>2. \A q \in Slot : Revoking(q)' => q = r  BY <1>7, <2>1 DEF Revoking
  <2>3. \A q \in Slot : Listing(q)' <=> Listing(q)
    BY <1>2, <1>4, <1>5, <1>6, <1>7 DEF Listing
  <2>4. ~overtaken' => ~overtaken /\ \A q \in Slot : ~Listing(q)
    BY <1>5 DEF Unanswered, Listing
  <2>5. \A s \in revoked' : session'[s] = "ended"  BY <1>1, <1>5 DEF PanelOK
  <2>6. ~overtaken' /\ ~panel'.loadError => panel'.list = Nil \/ panel'.list \cap revoked' = {}
    BY <1>1, <1>5, <1>10, <2>4 DEF PanelOK
  <2> QED  BY <1>10, <2>2, <2>3, <2>4, <2>5, <2>6 DEF PanelOK
<1>12. overtaken' \in BOOLEAN  BY <1>1, <1>5 DEF AccessTypeOK
<1>13. AccessTypeOK'
  BY <1>1, <1>5, <1>7, <1>10, <1>12 DEF AccessTypeOK, CallRecord, PanelRecord
<1> QED  BY <1>7, <1>8, <1>11, <1>13 DEF AccessInv

-----------------------------------------------------------------------------
\* The answer arrives

\* where the callback leads, and with what cookie
LEMMA CallbackIs ==
  ASSUME AccessInv, NEW r \in Slot, call[r].stage = "answered", call[r].ok, NEW c,
         c = IF call[r].name = "signIn" THEN call[r].row
             ELSE IF call[r].name = "signOut" THEN Nil ELSE cookie
  PROVE  LET p == Callback(call[r].name)
         IN p \in Pages /\ (p \in Inside => c # Nil)
<1>1. AccessTypeOK /\ CallOK(call[r]) /\ ScreenOK  BY DEF AccessInv
<1>2. PICK n : n = call[r].name  OBVIOUS
<1>3. page \in Pages /\ (page \in Inside => cookie # Nil)
  BY <1>1 DEF AccessTypeOK, Pages, ScreenOK
<1>4. CASE n = "signIn"
  <2>1. call[r].row # Nil  BY <1>1, <1>2, <1>4 DEF CallOK
  <2>2. Callback(n) \in {"home", page}  BY <1>4 DEF Callback
  <2>3. "home" \in Pages  BY PagesAre DEF Pages
  <2> QED  BY <1>2, <1>3, <1>4, <2>1, <2>2, <2>3
<1>5. CASE n = "signUp"
  <2>1. Callback(n) = Destination("inbox", cookie)  BY <1>5 DEF Callback
  <2>2. "inbox" \in Public \cup Inside  BY PagesAre
  <2> QED  BY <1>1, <1>2, <1>5, <2>1, <2>2, DestinationIs DEF Pages
<1>6. CASE n = "resetPassword"
  <2>1. Callback(n) = Destination("sign-in", cookie)  BY <1>6 DEF Callback
  <2>2. "sign-in" \in Public \cup Inside  BY PagesAre
  <2> QED  BY <1>1, <1>2, <1>6, <2>1, <2>2, DestinationIs DEF Pages
<1>7. CASE n = "signInGoogle"
  <2>1. Callback(n) = "google"  BY <1>7 DEF Callback
  <2> QED  BY <1>2, <2>1, PagesAre DEF Pages
<1>8. CASE n = "signOut"
  <2>1. Callback(n) = "sign-in"  BY <1>8 DEF Callback
  <2> QED  BY <1>2, <2>1, PagesAre DEF Pages
<1>9. CASE n \notin {"signIn", "signUp", "resetPassword", "signInGoogle", "signOut"}
  <2>1. Callback(n) = page  BY <1>9 DEF Callback
  <2> QED  BY <1>2, <1>3, <1>9, <2>1
<1> QED  BY <1>4, <1>5, <1>6, <1>7, <1>8, <1>9

\* a screen whose form is settled confirms what was done, or nothing
LEMMA SettledIs ==
  ASSUME AccessInv, NEW r \in Slot, NEW lost \in BOOLEAN, call[r].stage = "answered",
         form.pending = call[r].name, page' = page,
         ~(call[r].ok /\ ~lost /\ Callback(call[r].name) # page),
         form' = Settled(call[r].name, call[r].ok /\ ~lost, ErrorOf(lost, call[r].error))
  PROVE  /\ form' \in FormRecord /\ form'.pending = Nil
         /\ Screen.says' \subseteq (IF call[r].ok THEN {call[r].name} ELSE {})
<1>1. AccessTypeOK /\ CallOK(call[r]) /\ ScreenOK  BY DEF AccessInv
<1>2. PICK c : c = call[r].name  OBVIOUS
<1>3. c # Nil /\ c \in Asks(page)  BY <1>1, <1>2 DEF CallOK, ScreenOK
<1>4. form \in FormRecord /\ call[r] \in CallRecord
  BY <1>1 DEF AccessTypeOK, FormRecord, CallRecord
<1>5. PICK e : e = ErrorOf(lost, call[r].error)  OBVIOUS
<1>6. e \in {Nil, "EMAIL_NOT_VERIFIED", "other"}  BY <1>4, <1>5 DEF ErrorOf, CallRecord
<1>7. PICK ok \in BOOLEAN : ok <=> call[r].ok /\ ~lost  OBVIOUS
<1>8. form' = [form EXCEPT !.pending = Nil, !.error = IF ok THEN Nil ELSE e,
                 !.submitted = form.submitted \/ c \in Confirmed,
                 !.saved = ok /\ c \in {"changePassword", "updateProfile", "verifyEmail"}]
  <2>1. call[r].ok \in BOOLEAN  BY <1>4 DEF CallRecord
  <2>2. ok = (call[r].ok /\ ~lost)  BY <1>7, <2>1
  <2> QED  BY <1>2, <1>5, <2>2 DEF Settled
<1>9. /\ form' \in FormRecord /\ form'.pending = Nil
      /\ form'.error = IF ok THEN Nil ELSE e
      /\ form'.saved <=> ok /\ c \in {"changePassword", "updateProfile", "verifyEmail"}
  BY <1>4, <1>6, <1>8 DEF FormRecord
<1>10. CASE ~ok
  <2>1. e # Nil
    <3>1. CASE lost  BY <1>5, <3>1, Bounds DEF ErrorOf
    <3>2. CASE ~lost
      <4>1. ~call[r].ok /\ e = call[r].error  BY <1>5, <1>7, <1>10, <3>2 DEF ErrorOf
      <4> QED  BY <1>1, <4>1 DEF CallOK
    <3> QED  BY <3>1, <3>2
  <2>2. Screen.says' = {}  BY <1>9, <1>10, <2>1, SaysNothing
  <2> QED  BY <1>9, <2>2
<1>11. CASE ok
  <2>1. call[r].ok /\ Callback(c) = page  BY <1>2, <1>7, <1>11
  <2>2. page # "google"  BY <1>3 DEF Asks
  <2>3. c # "signInGoogle"  BY <2>1, <2>2 DEF Callback
  <2>4. Screen.says' \subseteq Asks(page) \ {"signInGoogle", "sendVerificationEmail", "signIn"}
    BY DEF Confirms, Screen, SignInScreen, SignUpScreen, VerifyEmailScreen, Inbox,
       ForgotPasswordScreen, ResetPasswordScreen, MagicLinkScreen, PasswordPanel, ProfileScreen,
       Form, Says, Asks
  <2>5. Asks(page) \ {"signInGoogle", "sendVerificationEmail", "signIn"} \subseteq {c}
    BY <1>3, <2>3 DEF Asks
  <2> QED  BY <1>2, <1>9, <2>1, <2>4, <2>5
<1> QED  BY <1>10, <1>11

\* the answer to the panel is shown, and a revocation that went well is
\* followed by another list
LEMMA PanelAnswered ==
  ASSUME AccessInv, NEW r \in Slot, NEW ok \in BOOLEAN, ok => call[r].ok,
         call[r].stage = "answered",
         call' \in [Slot -> CallRecord], \A q \in Slot \ {r} : call'[q] = call[q],
         call'[r] = Reloaded(call[r], ok), ShowSessions(call[r], ok),
         revoked' = IF call[r].waits = "form" /\ ok /\ call[r].name = "revokeOtherSessions"
                    THEN revoked \cup call[r].data ELSE revoked,
         UNCHANGED <<session, begun, overtaken>>
  PROVE  panel' \in PanelRecord /\ revoked' \in SUBSET Row /\ PanelOK'
<1>1. AccessTypeOK /\ CallOK(call[r]) /\ PanelOK  BY DEF AccessInv
<1>2. panel \in PanelRecord /\ call[r] \in CallRecord /\ revoked \in SUBSET Row
  BY <1>1 DEF AccessTypeOK, PanelRecord, CallRecord
<1>3. /\ NoCall.stage = "idle" /\ NoCall.name = Nil /\ NoCall.waits = "nobody"
      /\ Nil \notin {"listSessions", "revokeOtherSessions"} /\ "listSessions" \in Call
  BY NoCallIs, Bounds DEF Call
<1>4. Lasts  BY DEF Lasts
<1>5. CASE ~Revoking(r) /\ ~Listing(r)
  <2>1. panel' = panel /\ revoked' = revoked /\ call'[r] = NoCall
    BY <1>5 DEF ShowSessions, Reloaded, Revoking, Listing
  <2>2. \A q \in Slot : (Revoking(q)' <=> Revoking(q)) /\ (Listing(q)' <=> Listing(q))
    BY <1>3, <1>5, <2>1 DEF Revoking, Listing
  <2>3. \A q \in Slot : Listing(q) => call'[q] = call[q]  BY <1>5
  <2>4. PanelOK'  BY <1>1, <1>4, <2>1, <2>2, <2>3, PanelStays
  <2> QED  BY <1>2, <2>1, <2>4
<1>6. CASE Listing(r)
  <2>1. /\ call[r].name = "listSessions" /\ call[r].waits = "form" /\ call'[r] = NoCall
        /\ revoked' = revoked
        /\ panel' = IF ok THEN [panel EXCEPT !.list = call[r].data, !.loadError = FALSE]
                    ELSE [panel EXCEPT !.loadError = TRUE]
    BY <1>6 DEF ShowSessions, Reloaded, Listing
  <2>2. /\ panel' \in PanelRecord /\ panel'.revoking = panel.revoking
        /\ ~panel'.loadError => ok /\ panel'.list = call[r].data
    BY <1>2, <2>1 DEF PanelRecord, CallRecord
  <2>3. \A q \in Slot : (Revoking(q)' <=> Revoking(q)) /\ (Listing(q)' => Listing(q) /\ q # r)
    BY <1>3, <2>1 DEF Revoking, Listing
  <2>4. PanelOK'
    <3>1. \A s \in revoked' : session'[s] = "ended"  BY <1>1, <2>1 DEF PanelOK
    <3>2. \A q \in Slot : Revoking(q)' => panel'.revoking  BY <1>1, <2>2, <2>3 DEF PanelOK
    <3>3. \A q \in Slot, p \in Slot : Revoking(q)' /\ Revoking(p)' => q = p
      BY <1>1, <2>3 DEF PanelOK
    <3>4. ~overtaken' => \A q \in Slot : Listing(q)' => ~panel'.revoking
      BY <1>1, <2>2, <2>3 DEF PanelOK
    <3>5. ~overtaken' =>
            \A q \in Slot : Listing(q)' /\ call'[q].stage = "answered" /\ call'[q].ok =>
              call'[q].data \cap revoked' = {}
      BY <1>1, <2>1, <2>3 DEF PanelOK
    <3>6. ~overtaken' /\ ~panel'.loadError => panel'.list \cap revoked' = {}
      BY <1>1, <1>6, <2>1, <2>2 DEF PanelOK
    <3> QED  BY <3>1, <3>2, <3>3, <3>4, <3>5, <3>6 DEF PanelOK
  <2> QED  BY <1>2, <2>1, <2>2, <2>4
<1>7. CASE Revoking(r)
  <2>1. /\ call[r].name = "revokeOtherSessions" /\ call[r].waits = "form" /\ panel.revoking
        /\ panel' = [panel EXCEPT !.revoking = FALSE]
        /\ call'[r] = IF ok THEN Sent("listSessions") ELSE NoCall
        /\ revoked' = IF ok THEN revoked \cup call[r].data ELSE revoked
    BY <1>1, <1>7 DEF ShowSessions, Reloaded, Revoking, PanelOK
  <2>2. /\ panel' \in PanelRecord /\ ~panel'.revoking /\ panel'.list = panel.list
        /\ panel'.loadError = panel.loadError
    BY <1>2, <2>1 DEF PanelRecord
  <2>3. /\ Sent("listSessions").stage = "sent" /\ Sent("listSessions").name = "listSessions"
        /\ Sent("listSessions").waits = "form"
    BY <1>1, <1>3, SentIs
  <2>4. \A q \in Slot : ~Revoking(q)'
    BY <1>1, <1>3, <1>7, <2>1, <2>3 DEF PanelOK, Revoking
  <2>5. ~overtaken => \A q \in Slot : ~Listing(q)  BY <1>1, <2>1 DEF PanelOK
  <2>6. \A q \in Slot \ {r} : Listing(q)' <=> Listing(q)  BY DEF Listing
  <2>7. PanelOK'
    <3>1. \A s \in revoked' : session'[s] = "ended"  BY <1>1, <2>1 DEF PanelOK, CallOK
    <3>2. ~overtaken' =>
            \A q \in Slot : Listing(q)' /\ call'[q].stage = "answered" /\ call'[q].ok =>
              call'[q].data \cap revoked' = {}
      BY <1>3, <2>1, <2>3, <2>5, <2>6 DEF Listing
    <3>3. ~overtaken' /\ ~panel'.loadError /\ (\A q \in Slot : ~Listing(q)') =>
            panel'.list = Nil \/ panel'.list \cap revoked' = {}
      <4>1. CASE ok
        <5>1. call'[r] = Sent("listSessions")  BY <2>1, <4>1
        <5>2. Listing(r)'  BY <2>3, <5>1 DEF Listing
        <5> QED  BY <5>2
      <4>2. CASE ~ok  BY <1>1, <2>1, <2>2, <2>5, <4>2 DEF PanelOK
      <4> QED  BY <4>1, <4>2
    <3> QED  BY <2>2, <2>4, <3>1, <3>2, <3>3 DEF PanelOK
  <2> QED  BY <1>2, <2>1, <2>2, <2>7 DEF CallRecord
<1> QED  BY <1>5, <1>6, <1>7

LEMMA ReceiveKeeps ==
  ASSUME AccessInv, UNCHANGED tour, NEW r \in Slot, Receive(r)
  PROVE  AccessInv'
<1>1. AccessTypeOK /\ CallOK(call[r]) /\ ScreenOK  BY DEF AccessInv
<1>2. PICK q : q = call[r]  OBVIOUS
<1>3. q \in CallRecord /\ q.stage = "answered" /\ q.name # Nil /\ CallOK(q)
  BY <1>1, <1>2 DEF Receive, AccessTypeOK, CallRecord, CallOK
<1>4. PICK lost \in BOOLEAN :
        /\ cookie' = IF q.ok /\ ~lost /\ q.name = "signIn" THEN q.row
                     ELSE IF q.ok /\ ~lost /\ q.name = "signOut" THEN Nil ELSE cookie
        /\ IF q.ok /\ ~lost /\ Callback(q.name) # page
           THEN Mount(Callback(q.name), [Left(FALSE) EXCEPT ![r] = NoCall])
           ELSE /\ form' = IF q.waits = "form" /\ form.pending = q.name
                           THEN Settled(q.name, q.ok /\ ~lost, ErrorOf(lost, q.error)) ELSE form
                /\ ShowSessions(q, q.ok /\ ~lost)
                /\ done' = IF q.waits = "form" /\ form.pending = q.name /\ q.ok
                           THEN done \cup {q.name} ELSE done
                /\ revoked' = IF q.waits = "form" /\ q.ok /\ ~lost
                                 /\ q.name = "revokeOtherSessions"
                              THEN revoked \cup q.data ELSE revoked
                /\ call' = [call EXCEPT ![r] = Reloaded(q, q.ok /\ ~lost)]
                /\ UNCHANGED <<page, overtaken>>
  BY <1>2 DEF Receive
<1>5. UNCHANGED <<account, session, trail, begun, unaudited>>  BY DEF Receive, server
<1>6. PICK ok \in BOOLEAN : ok = (q.ok /\ ~lost)  BY <1>3 DEF CallRecord
<1>7. PICK c : c = IF q.name = "signIn" THEN q.row ELSE IF q.name = "signOut" THEN Nil ELSE cookie
  OBVIOUS
<1>8. /\ cookie' = IF ok THEN c ELSE cookie
      /\ cookie' \in Row \cup {Nil}
  BY <1>1, <1>3, <1>4, <1>6, <1>7 DEF AccessTypeOK, CallRecord
<1>9. /\ account' \in {"none", "unverified", "verified"}
      /\ session' \in [Row -> {"unused", "live", "ended"}] /\ Lasts
  BY <1>1, <1>5 DEF AccessTypeOK, Lasts
<1>10. CASE ok /\ Callback(q.name) # page
  <2>1. PICK p : p = Callback(q.name)  OBVIOUS
  <2>2. p \in Pages /\ (p \in Inside => c # Nil)
    BY <1>2, <1>3, <1>6, <1>7, <1>10, <2>1, CallbackIs
  <2>3. /\ Left(FALSE) \in [Slot -> CallRecord]
        /\ \A s \in Slot : Same(Left(FALSE)[s], call[s]) /\ Left(FALSE)[s].waits # "form"
    BY <1>1, LeftIs
  <2>4. PICK cs : cs = [Left(FALSE) EXCEPT ![r] = NoCall]  OBVIOUS
  <2>5. /\ cs \in [Slot -> CallRecord] /\ cs[r] = NoCall
        /\ \A s \in Slot \ {r} : cs[s] = Left(FALSE)[s]
    BY <2>3, <2>4, NoCallIs
  <2>6. Mount(p, cs)  BY <1>4, <1>6, <1>10, <2>1, <2>4
  <2>7. \A s \in Slot : cs[s] = NoCall \/ (Same(cs[s], call[s]) /\ cs[s].waits # "form")
    BY <2>3, <2>5
  <2>8. \A s \in Slot : call[s].stage = "hook" => Same(cs[s], call[s])
    BY <1>2, <1>3, <2>3, <2>5
  <2> QED  BY <1>5, <1>8, <1>9, <1>10, <2>2, <2>5, <2>6, <2>7, <2>8, MountKeeps
<1>11. CASE ~(ok /\ Callback(q.name) # page)
  <2>1. /\ form' = IF q.waits = "form" /\ form.pending = q.name
                   THEN Settled(q.name, q.ok /\ ~lost, ErrorOf(lost, q.error)) ELSE form
        /\ ShowSessions(q, ok)
        /\ done' = IF q.waits = "form" /\ form.pending = q.name /\ q.ok
                   THEN done \cup {q.name} ELSE done
        /\ revoked' = IF q.waits = "form" /\ ok /\ q.name = "revokeOtherSessions"
                      THEN revoked \cup q.data ELSE revoked
        /\ call' = [call EXCEPT ![r] = Reloaded(q, ok)]
        /\ UNCHANGED <<page, overtaken>>
    BY <1>4, <1>6, <1>11
  <2>2. PICK new : new = Reloaded(q, ok)  OBVIOUS
  <2>3. /\ Nil \notin {"signOut", "listSessions"} /\ "listSessions" \in Call
    BY Bounds DEF Call
  <2>4. new \in {NoCall, Sent("listSessions")}  BY <2>2 DEF Reloaded
  <2>5. /\ new \in CallRecord /\ new.stage \in {"idle", "sent"}
        /\ new.stage = "idle" \/ new.name # Nil
        /\ new.stage = "sent" => ~new.ok /\ new.row = Nil
        /\ new.name # "signOut"
    <3>1. CASE new = NoCall  BY <2>3, <3>1, NoCallIs
    <3>2. CASE new = Sent("listSessions")  BY <1>1, <2>3, <3>2, SentIs
    <3> QED  BY <2>4, <3>1, <3>2
  <2>6. /\ call' \in [Slot -> CallRecord] /\ call'[r] = new
        /\ \A s \in Slot \ {r} : call'[s] = call[s]
        /\ (\A s \in Slot : CallOK(call[s])') /\ TrailOK' /\ Lasts
    BY <1>2, <1>3, <1>5, <2>1, <2>2, <2>5, PutKeeps
  <2>7. panel' \in PanelRecord /\ revoked' \in SUBSET Row /\ PanelOK'
    BY <1>2, <1>3, <1>5, <1>6, <2>1, <2>2, <2>6, PanelAnswered
  <2>8. page' \in Inside => cookie' # Nil
    <3>1. SUFFICES ASSUME page \in Inside PROVE cookie' # Nil  BY <2>1
    <3>2. cookie # Nil  BY <1>1, <3>1 DEF ScreenOK
    <3>3. CASE ok
      <4>1. Callback(q.name) = page  BY <1>11, <3>3
      <4>2. c # Nil  BY <1>2, <1>3, <1>6, <1>7, <3>1, <3>3, <4>1, CallbackIs
      <4> QED  BY <1>8, <3>3, <4>2
    <3> QED  BY <1>8, <3>2, <3>3
  <2>9. form' \in FormRecord /\ form'.pending \in Asks(page) \cup {Nil}
        /\ (form'.pending = Nil => Screen.says' \subseteq done')
    <3>1. CASE q.waits = "form" /\ form.pending = q.name
      <4>1. form' = Settled(q.name, q.ok /\ ~lost, ErrorOf(lost, q.error))  BY <2>1, <3>1
      <4>2. form' \in FormRecord /\ form'.pending = Nil
            /\ Screen.says' \subseteq (IF q.ok THEN {q.name} ELSE {})
        BY <1>2, <1>3, <1>6, <1>11, <2>1, <3>1, <4>1, SettledIs
      <4> QED  BY <2>1, <3>1, <4>2
    <3>2. CASE ~(q.waits = "form" /\ form.pending = q.name)
      <4>1. form' = form /\ done' = done /\ page' = page  BY <2>1, <3>2
      <4>2. Screen.says' = Screen.says  BY <4>1, ScreenStays
      <4> QED  BY <1>1, <4>1, <4>2 DEF ScreenOK, AccessTypeOK, FormRecord
    <3> QED  BY <3>1, <3>2
  <2>10. ScreenOK'  BY <2>1, <2>8, <2>9 DEF ScreenOK
  <2>11. done' \in SUBSET Call  BY <1>1, <1>3, <2>1 DEF AccessTypeOK, CallRecord
  <2>12. AccessTypeOK'
    BY <1>1, <1>5, <1>8, <2>1, <2>6, <2>7, <2>9, <2>11
    DEF AccessTypeOK, FormRecord, PanelRecord, CallRecord
  <2> QED  BY <2>6, <2>7, <2>10, <2>12 DEF AccessInv
<1> QED  BY <1>10, <1>11

-----------------------------------------------------------------------------
\* The theorems

LEMMA AccessInitially == AccessInit => AccessInv
<1> SUFFICES ASSUME AccessInit PROVE AccessInv  OBVIOUS
<1>1. /\ NoCall \in CallRecord /\ NoCall.stage = "idle" /\ NoCall.name = Nil
      /\ NoCall.waits = "nobody"
      /\ Nil \notin {"signOut", "listSessions", "revokeOtherSessions"}
  BY NoCallIs, Bounds DEF Call
<1>2. \A q \in Slot : call[q] = NoCall  BY DEF AccessInit
<1>3. \A q \in Slot : CallOK(call[q])  BY <1>1, <1>2 DEF CallOK
<1>4. TrailOK  BY DEF AccessInit, TrailOK
<1>5. Fresh \in FormRecord /\ Fresh.pending = Nil  BY DEF Fresh, FormRecord
<1>6. ScreenOK
  <2>1. page = "sign-in" /\ form = Fresh  BY DEF AccessInit
  <2>2. Screen.says = {}  BY <2>1 DEF Screen, SignInScreen, Form
  <2>3. "sign-in" \notin Inside  BY PagesAre
  <2> QED  BY <1>5, <2>1, <2>2, <2>3 DEF ScreenOK
<1>7. Unloaded \in PanelRecord  BY DEF Unloaded, PanelRecord
<1>8. PanelOK
  <2>1. \A q \in Slot : ~Revoking(q) /\ ~Listing(q)  BY <1>1, <1>2 DEF Revoking, Listing
  <2>2. panel.list = Nil  BY DEF AccessInit, Unloaded
  <2> QED  BY <2>1, <2>2 DEF AccessInit, PanelOK
<1>9. AccessTypeOK
  <2>1. page \in Public \cup Inside \cup {"google"}  BY PagesAre DEF AccessInit
  <2>2. call \in [Slot -> CallRecord]  BY <1>1 DEF AccessInit
  <2> QED  BY <1>5, <1>7, <2>1, <2>2
     DEF AccessInit, AccessTypeOK, FormRecord, PanelRecord, CallRecord
<1> QED  BY <1>3, <1>4, <1>6, <1>8, <1>9 DEF AccessInv

LEMMA AccessStep == AccessInv /\ [AccessNext]_accessVars => AccessInv'
<1> SUFFICES ASSUME AccessInv, [AccessNext]_accessVars PROVE AccessInv'  OBVIOUS
<1>1. CASE AccessNext
  <2> USE <1>1
  <2>1. Step /\ UNCHANGED tour  BY DEF AccessNext
  <2>2. ASSUME NEW p \in tour, Navigate(p) \/ Reload(p) PROVE AccessInv'
    BY <2>1, <2>2, NavigateKeeps, ReloadKeeps
  <2>3. CASE InvalidForm  BY <2>1, <2>3, InvalidFormKeeps
  <2>4. ASSUME NEW r \in Slot, NEW c \in Screen.offers, Run(r, c) PROVE AccessInv'
    BY <2>1, <2>4, RunKeeps
  <2>5. ASSUME NEW r \in Slot, SignOutOthers(r) \/ SignOut(r) \/ Receive(r) \/ Unheard(r)
        PROVE  AccessInv'
    BY <2>1, <2>5, SignOutOthersKeeps, SignOutKeeps, ReceiveKeeps, UnheardKeeps
  <2>6. ASSUME NEW r \in Slot, Api(r) PROVE AccessInv'
    BY <2>1, <2>6, RefuseKeeps, ServeSignInKeeps, ServeSignOutKeeps, AfterHookKeeps, PlainKeeps,
       ServeListSessionsKeeps, ServeRevokeOthersKeeps, ServeChangePasswordKeeps
    DEF Api
  <2>7. CASE FollowVerification \/ Expire  BY <2>1, <2>7, OutsideKeeps
  <2>8. ASSUME NEW s \in Row, EnterByLink(s) \/ OtherDevice(s) PROVE AccessInv'
    BY <2>1, <2>8, EnterByLinkKeeps, OutsideKeeps
  <2> QED  BY <2>1, <2>2, <2>3, <2>4, <2>5, <2>6, <2>7, <2>8 DEF Step
<1>2. CASE UNCHANGED accessVars
  <2>1. AccessTypeOK  BY DEF AccessInv
  <2>2. /\ account' \in {"none", "unverified", "verified"}
        /\ session' \in [Row -> {"unused", "live", "ended"}] /\ Lasts
    BY <1>2, <2>1 DEF accessVars, server, AccessTypeOK, Lasts
  <2> QED  BY <1>2, <2>2, ServerKeeps DEF accessVars, tab, server
<1> QED  BY <1>1, <1>2

\* In every reachable state of the sign-in and account screens each call under
\* way has behind it what its answer will claim, the trail agrees with what
\* passwords began, and the form and the sessions panel agree with what the
\* API did for this screen (useAuthMutation, buildAfterHook, SecurityScreen).
THEOREM AccessInvariant == AccessSpec => []AccessInv
  BY AccessInitially, AccessStep, PTL DEF AccessSpec

\* The tab, its calls and the server's rows keep their types.
THEOREM AccessTypeCorrect == AccessSpec => []AccessTypeOK
<1>1. AccessInv => AccessTypeOK  BY DEF AccessInv
<1> QED  BY <1>1, AccessInvariant, PTL

\* A confirmation stands for a submission the API carried out, and a list of
\* sessions shows none of those the screen was told it ended
\* (useAuthMutation, the auth screens, SecurityScreen.signOutOthers).
THEOREM ConfirmationsStand == AccessSpec => []ScreensTellTruth
<1>1. ASSUME AccessInv PROVE ScreensTellTruth
  <2>1. ScreenOK /\ PanelOK  BY <1>1 DEF AccessInv
  <2>2. (\E r \in Slot : Listing(r)) => Unanswered("listSessions")
    BY DEF Listing, Unanswered
  <2> QED  BY <2>1, <2>2 DEF ScreenOK, PanelOK, ScreensTellTruth
<1> QED  BY <1>1, AccessInvariant, PTL

\* Every session a password began is in the trail, or its row could not be
\* written, and no sign-out is in it of a session that lives
\* (auth.ts resolveAuthEvent, buildAfterHook).
THEOREM TrailIsTrue == AccessSpec => []TrailTellsTruth
<1>1. ASSUME AccessInv PROVE TrailTellsTruth
  <2>1. AccessTypeOK /\ TrailOK  BY <1>1 DEF AccessInv
  <2>2. {s \in Row \cup {Nil} : <<"auth.sign_in.success", s>> \in trail} \subseteq begun
    BY <2>1 DEF TrailOK
  <2>3. ASSUME NEW s \in begun, s \notin unaudited,
               s \notin {call[r].row : r \in {q \in Slot : call[q].stage = "hook"}}
        PROVE  s \in {t \in Row \cup {Nil} : <<"auth.sign_in.success", t>> \in trail}
    <3>1. s \in Row  BY <2>1 DEF AccessTypeOK
    <3>2. ~Writing(s)  BY <2>3 DEF Writing
    <3> QED  BY <2>1, <2>3, <3>1, <3>2 DEF TrailOK
  <2>4. ASSUME NEW s \in Row \cup {Nil}, <<"auth.sign_out", s>> \in trail
        PROVE  s # Nil /\ session[s] = "ended"
    <3>1. s \in Row /\ session[s] = "ended"  BY <2>1, <2>4 DEF TrailOK
    <3> QED  BY <3>1, Bounds
  <2> QED  BY <2>2, <2>3, <2>4 DEF TrailTellsTruth
<1> QED  BY <1>1, AccessInvariant, PTL

-----------------------------------------------------------------------------
\* The mix of the two that is model-checked

\* Whatever a step of the mix does, it is a step of each or leaves it alone, so
\* that the types of both are kept, for any values of the constants
\* (registry.ts, useAuthMutation).
THEOREM MixedTypeCorrect == MixedSpec => []MixedTypeOK
<1>1. MixedInit => IInv /\ AccessInv  BY Initially, AccessInitially DEF MixedInit
<1>2. IInv /\ AccessInv /\ [MixedNext]_<<vars, accessVars, mix>> => IInv' /\ AccessInv'
  <2>1. MixedNext => [Next]_vars /\ [AccessNext]_accessVars  BY DEF MixedNext
  <2>2. UNCHANGED <<vars, accessVars, mix>> => [Next]_vars /\ [AccessNext]_accessVars  OBVIOUS
  <2> QED  BY <2>1, <2>2, ControlPlaneStep, AccessStep
<1>3. IInv /\ AccessInv => MixedTypeOK
  BY DEF IInv, BootInv, WritesOK, TypeOK, AccessInv, MixedTypeOK
<1> QED  BY <1>1, <1>2, <1>3, PTL DEF MixedSpec

=============================================================================
