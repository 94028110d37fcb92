----------------------------- MODULE ServicesProofs -----------------------------
(***************************************************************************)
(* Proofs about MCServices.  A behavior of the six services together is    *)
(* one of each of them, so what is proved of a service alone holds here.   *)
(* The proofs about Uploads, Templates and Plans are in modules of their   *)
(* own.  This one holds those about UserRoles (any finite set of users),   *)
(* PoaThreads and Preferences (any times, on a clock of minutes or coarser)*)
(* for any number of requests that overlap.                                *)
(***************************************************************************)
EXTENDS MCServices, FiniteSetTheorems, TLAPS

-----------------------------------------------------------------------------
(* The composition.                                                        *)

\* What the six do together is what each of them does alone, or nothing.
LEMMA ServicesImplemented ==
  Spec => /\ Threads!Spec /\ Files!Spec /\ Roles!Spec
          /\ TemplateTable!Spec /\ PlanTable!Spec /\ Quiet!Spec
<1>1. Init => /\ Threads!Init /\ Files!Init /\ Roles!Init
              /\ TemplateTable!Init /\ PlanTable!Init /\ Quiet!Init
  BY DEF Init
<1>2. [Next]_vars => [Threads!Next]_(Threads!vars)
  BY DEF Next, vars, threadVars, Threads!vars
<1>3. [Next]_vars => [Files!Next]_(Files!vars)
  BY DEF Next, vars, uploadVars, Files!vars
<1>4. [Next]_vars => [Roles!Next]_(Roles!vars)
  BY DEF Next, vars, roleVars, Roles!vars
<1>5. [Next]_vars => [TemplateTable!Next]_(TemplateTable!vars)
  BY DEF Next, vars, templateVars, TemplateTable!vars
<1>6. [Next]_vars => [PlanTable!Next]_(PlanTable!vars)
  BY DEF Next, vars, planVars, PlanTable!vars
<1>7. [Next]_vars => [Quiet!Next]_(Quiet!vars)
  BY DEF Next, vars, preferenceVars, Quiet!vars
<1>8. QED
  BY <1>1, <1>2, <1>3, <1>4, <1>5, <1>6, <1>7, PTL
     DEF Spec, Threads!Spec, Files!Spec, Roles!Spec, TemplateTable!Spec,
         PlanTable!Spec, Quiet!Spec

\* However uploads, deletions and changes of the photo overlap and fail, rows and
\* files agree.
THEOREM FilesAlwaysAgree ==
  ASSUME Files!Bounds
  PROVE  Spec => []FilesAgree
<1>1. Files!Spec => []Files!FilesAgree
  BY Files!FilesAlwaysAgree
<1>2. QED
  BY <1>1, ServicesImplemented, PTL DEF FilesAgree

\* However renders, edits, deletions and seeds overlap, a system template stays as
\* it was seeded, but for its count.
THEOREM SystemTemplatesAlwaysStay ==
  ASSUME TemplateTable!CodesGiven
  PROVE  Spec => SystemTemplatesStay
<1>1. TemplateTable!Spec => TemplateTable!SystemTemplatesStay
  BY TemplateTable!SystemTemplatesAlwaysStay
<1>2. QED
  BY <1>1, ServicesImplemented, PTL DEF SystemTemplatesStay

\* Overlapping starts of the service, failures among them and requests of
\* administrators never leave two plans of a type, nor, if they do not change a
\* type, a finished seed without one.
THEOREM SeedAlwaysWhole ==
  ASSUME PlanRequests \in Nat
  PROVE  Spec => []SeedIsWhole
<1>1. PlanTable!Spec => []PlanTable!SeedIsWhole
  BY PlanTable!SeedAlwaysWhole
<1>2. QED
  BY <1>1, ServicesImplemented, PTL DEF SeedIsWhole

-----------------------------------------------------------------------------
(* Roles: type correctness.                                                *)

\* Init has a super administrator, so there is a user.
RolesTyped == Roles!TypeOK /\ User # {}

LEMMA IdleType == User # {} => Roles!Idle \in Roles!Memory
BY DEF Roles!Idle, Roles!Memory, Roles!SomeRow, Roles!Row, Roles!UserRole

\* Finishing is well typed.
LEMMA DoneType == User # {} => [Roles!Idle EXCEPT !.pc = "done"] \in Roles!Memory
BY IdleType DEF Roles!Memory

\* A step that only changes what one request remembers.
LEMMA GoesType ==
  ASSUME RolesTyped, NEW r \in Roles!Request, NEW memory \in Roles!Memory,
         Roles!Goes(r, memory)
  PROVE  RolesTyped'
BY DEF RolesTyped, Roles!TypeOK, Roles!Goes

\* What a request remembers once it has found its user.
LEMMA FindsType ==
  ASSUME RolesTyped, NEW r \in Roles!Request, NEW u \in User,
         NEW pc \in {"count", "load"},
         NEW local \in Roles!Row, Roles!Finds(r, u, pc, local)
  PROVE  RolesTyped'
<1>1. [Roles!Idle EXCEPT !.pc = pc, !.user = u, !.base = users[u], !.local = local]
        \in Roles!Memory
  BY IdleType DEF RolesTyped, Roles!TypeOK, Roles!Memory
<1>2. QED
  BY <1>1, GoesType DEF Roles!Finds

\* The changed copies are rows.
LEMMA CopyType ==
  ASSUME RolesTyped, NEW u \in User, NEW k \in Roles!UserRole, NEW active \in BOOLEAN
  PROVE  /\ users[u] \in Roles!Row
         /\ [users[u] EXCEPT !.role = k] \in Roles!Row
         /\ [users[u] EXCEPT !.isActive = active] \in Roles!Row
         /\ [users[u] EXCEPT !.role = k, !.isActive = active] \in Roles!Row
         /\ [users[u] EXCEPT !.deleted = TRUE] \in Roles!Row
<1>1. users[u] \in Roles!Row
  BY DEF RolesTyped, Roles!TypeOK
<1>2. [users[u] EXCEPT !.role = k] \in Roles!Row
  BY <1>1 DEF Roles!Row
<1>3. [users[u] EXCEPT !.isActive = active] \in Roles!Row
  BY <1>1, Zenon DEF Roles!Row
<1>4. [users[u] EXCEPT !.role = k, !.isActive = active] \in Roles!Row
  BY <1>1, Zenon DEF Roles!Row
<1>5. [users[u] EXCEPT !.deleted = TRUE] \in Roles!Row
  BY <1>1, Zenon DEF Roles!Row
<1>6. QED
  BY <1>1, <1>2, <1>3, <1>4, <1>5

\* Patching a row leaves it a old.
LEMMA PatchedType ==
  ASSUME NEW old \in Roles!Row, NEW entity \in Roles!Row, NEW columns
  PROVE  Roles!Patched(old, entity, columns) \in Roles!Row
<1>1. DOMAIN old = {"role", "isActive", "deleted"}
  BY DEF Roles!Row
<1>2. /\ old.role \in Roles!UserRole /\ old.isActive \in BOOLEAN
      /\ old.deleted \in BOOLEAN
      /\ entity.role \in Roles!UserRole /\ entity.isActive \in BOOLEAN
      /\ entity.deleted \in BOOLEAN
  BY DEF Roles!Row
<1> DEFINE new == Roles!Patched(old, entity, columns)
<1>3. /\ new = [c \in {"role", "isActive", "deleted"} |-> new[c]]
      /\ new.role \in Roles!UserRole /\ new.isActive \in BOOLEAN
      /\ new.deleted \in BOOLEAN
  BY <1>1, <1>2 DEF Roles!Patched
<1>4. QED
  BY <1>3, Zenon DEF Roles!Row

\* The initial states are well typed.
LEMMA InitTyped == Roles!Init => RolesTyped
<1> SUFFICES ASSUME Roles!Init PROVE RolesTyped
  OBVIOUS
<1>1. User # {}
  BY DEF Roles!Init, Roles!SuperAdmins
<1>2. ASSUME NEW k \in Roles!UserRole
      PROVE  [Roles!SomeRow EXCEPT !.role = k] \in Roles!Row
  BY DEF Roles!SomeRow, Roles!Row
<1>3. users \in [User -> Roles!Row]
  BY <1>2 DEF Roles!Init
<1>4. QED
  BY <1>1, <1>3, IdleType DEF Roles!Init, RolesTyped, Roles!TypeOK

\* What the administrators' methods do first.
LEMMA RoutesTyped ==
  ASSUME RolesTyped, NEW r \in Roles!Request, NEW u \in User,
         Roles!RoleRoutes(r, u) \/ Roles!StatusRoutes(r, u) \/ Roles!OtherSave(r, u)
  PROVE  RolesTyped'
<1>1. CASE Roles!UpdateRole(r, u)
  BY <1>1, FindsType, CopyType DEF Roles!UpdateRole, Roles!Sets
<1>2. CASE Roles!UpdateUserAdmin(r, u)
  BY <1>2, FindsType, CopyType DEF Roles!UpdateUserAdmin, Roles!Sets
<1>3. CASE Roles!ToggleActive(r, u)
  <2>1. PICK active \in BOOLEAN :
          Roles!Finds(r, u, "load", [users[u] EXCEPT !.isActive = active])
    BY <1>3, Zenon DEF Roles!ToggleActive
  <2>2. [users[u] EXCEPT !.isActive = active] \in Roles!Row
    BY CopyType, Zenon DEF Roles!UserRole
  <2>3. QED
    BY <2>1, <2>2, FindsType
<1>4. CASE Roles!DeleteUser(r, u)
  BY <1>4, FindsType, CopyType DEF Roles!DeleteUser, Roles!UserRole
<1>5. CASE Roles!OtherSave(r, u)
  BY <1>5, FindsType, CopyType DEF Roles!OtherSave, Roles!UserRole
<1>6. QED
  BY <1>1, <1>2, <1>3, <1>4, <1>5 DEF Roles!RoleRoutes, Roles!StatusRoutes

\* Every step keeps the types.
LEMMA NextTyped == RolesTyped /\ [Roles!Next]_(Roles!vars) => RolesTyped'
<1> SUFFICES ASSUME RolesTyped, [Roles!Next]_(Roles!vars) PROVE RolesTyped'
  OBVIOUS
<1>1. ASSUME NEW r \in Roles!Request, Roles!Count(r) PROVE RolesTyped'
  <2>1. [roleReq[r] EXCEPT !.pc = "load", !.counted = Roles!SuperAdmins] \in Roles!Memory
    BY DEF RolesTyped, Roles!TypeOK, Roles!Memory, Roles!SuperAdmins
  <2>2. QED
    BY <1>1, <2>1, GoesType DEF Roles!Count
<1>2. ASSUME NEW r \in Roles!Request, Roles!Refuse(r) PROVE RolesTyped'
  BY <1>2, DoneType, GoesType DEF Roles!Refuse, RolesTyped
<1>3. ASSUME NEW r \in Roles!Request, Roles!Load(r) PROVE RolesTyped'
  <2>1. /\ roleReq[r] \in Roles!Memory /\ roleReq[r].user \in User
        /\ users[roleReq[r].user] \in Roles!Row
    BY DEF RolesTyped, Roles!TypeOK, Roles!Memory
  <2>2. Roles!Differing(roleReq[r].local, users[roleReq[r].user])
          \subseteq {"role", "isActive", "deleted"}
    BY <2>1 DEF Roles!Differing, Roles!Row
  <2> DEFINE diff == IF roleReq[r].local.deleted THEN {"deleted"}
                     ELSE Roles!Differing(roleReq[r].local, users[roleReq[r].user])
  <2>3. diff \in SUBSET {"role", "isActive", "deleted"}
    BY <2>2
  <2> HIDE DEF diff
  <2>4. [roleReq[r] EXCEPT !.pc = "write", !.diff = diff] \in Roles!Memory
    BY <2>1, <2>3 DEF Roles!Memory
  <2>5. QED
    BY <1>3, <2>4, GoesType DEF Roles!Load, diff
<1>4. ASSUME NEW r \in Roles!Request, Roles!Write(r) PROVE RolesTyped'
  <2> DEFINE u == roleReq[r].user
             new == Roles!Patched(users[u], roleReq[r].local, roleReq[r].diff)
  <2>1. u \in User /\ users[u] \in Roles!Row /\ roleReq[r].local \in Roles!Row
    BY DEF RolesTyped, Roles!TypeOK, Roles!Memory
  <2>2. new \in Roles!Row
    BY <2>1, PatchedType
  <2> HIDE DEF new
  <2>3. users' \in [User -> Roles!Row]
    BY <1>4, <2>1, <2>2 DEF Roles!Write, RolesTyped, Roles!TypeOK, new
  <2>4. roleReq' \in [Roles!Request -> Roles!Memory]
    BY <1>4, DoneType DEF Roles!Write, RolesTyped, Roles!TypeOK
  <2>5. roleStale' \in BOOLEAN
    BY <1>4, Zenon DEF Roles!Write, RolesTyped, Roles!TypeOK
  <2>6. QED
    BY <2>3, <2>4, <2>5 DEF RolesTyped, Roles!TypeOK
<1>5. CASE UNCHANGED Roles!vars
  BY <1>5 DEF Roles!vars, RolesTyped, Roles!TypeOK
<1>6. QED
  BY <1>1, <1>2, <1>3, <1>4, <1>5, RoutesTyped DEF Roles!Next

\* The state is well typed, whatever the users and however many requests overlap.
THEOREM RolesTypeCorrect == Roles!Spec => []Roles!TypeOK
<1>1. RolesTyped => Roles!TypeOK
  BY DEF RolesTyped
<1>2. QED
  BY <1>1, InitTyped, NextTyped, PTL DEF Roles!Spec

-----------------------------------------------------------------------------
(* Roles: there is always a super administrator.                           *)

\* What a request between its read and its save can rely on.  The row it read
\* was not deleted; no super administrator is deleted; and who goes on to demote
\* one has counted two.
Sound(m) ==
  /\ ~m.base.deleted
  /\ m.base.role = "super_admin" => ~m.local.deleted
  /\ m.pc \in {"load", "write"} /\ Roles!Demotes(m.base, m.local) =>
       \E v, w \in m.counted : v # w

RequestsSound == \A r \in Roles!Request : r \in Roles!InFlight => Sound(roleReq[r])

RolesInv == RolesTyped /\ RequestsSound /\ Roles!SuperAdminRemains

\* More than one of a finite set are two different ones.
LEMMA TwoOfMany ==
  ASSUME NEW S, IsFiniteSet(S), Cardinality(S) > 1
  PROVE  \E v, w \in S : v # w
<1>1. S # {}
  BY FS_EmptySet
<1>2. PICK v \in S : TRUE
  BY <1>1
<1>3. S # {v}
  BY FS_Singleton
<1>4. QED
  BY <1>2, <1>3

\* Instances of a module have standard operators of their own.
LEMMA SameCardinality ==
  ASSUME NEW S
  PROVE  Roles!Cardinality(S) = Cardinality(S)
BY DEF Roles!Cardinality, Cardinality

LEMMA SuperAdminsFinite == IsFiniteSet(User) => IsFiniteSet(Roles!SuperAdmins)
BY FS_Subset DEF Roles!SuperAdmins

\* A step that changes what one request remembers to something sound, or ends it.
LEMMA GoesSound ==
  ASSUME RolesInv, NEW r \in Roles!Request, NEW memory, Roles!Goes(r, memory),
         memory.pc \in {"idle", "done"} \/ Sound(memory)
  PROVE  RequestsSound' /\ Roles!SuperAdminRemains'
<1>1. /\ roleReq' = [roleReq EXCEPT ![r] = memory]
      /\ roleReq \in [Roles!Request -> Roles!Memory]
  BY DEF Roles!Goes, RolesInv, RolesTyped, Roles!TypeOK
<1>2. ASSUME NEW q \in Roles!Request, q \in Roles!InFlight' PROVE Sound(roleReq'[q])
  BY <1>1, <1>2 DEF RolesInv, RequestsSound, Roles!InFlight
<1>3. RequestsSound'
  BY <1>2 DEF RequestsSound, Sound, Roles!Demotes
<1>4. Roles!SuperAdminRemains'
  BY DEF Roles!Goes, RolesInv, Roles!SuperAdminRemains, Roles!SuperAdmins
<1>5. QED
  BY <1>3, <1>4

\* A request that has found its user is sound, when it does not delete a super
\* administrator and counts before it demotes one.
LEMMA FindsSound ==
  ASSUME RolesInv, NEW r \in Roles!Request, NEW u \in User,
         NEW pc \in {"count", "load"},
         NEW local \in Roles!Row, Roles!Finds(r, u, pc, local),
         users[u].role = "super_admin" => ~local.deleted,
         Roles!Demotes(users[u], local) => pc = "count"
  PROVE  RequestsSound' /\ Roles!SuperAdminRemains'
<1> DEFINE memory == [Roles!Idle EXCEPT !.pc = pc, !.user = u, !.base = users[u],
                                  !.local = local]
<1>1. memory.pc = pc /\ memory.base = users[u] /\ memory.local = local
  BY DEF Roles!Idle
<1>2. Roles!Goes(r, memory) /\ ~users[u].deleted
  BY DEF Roles!Finds
<1> HIDE DEF memory
<1>3. Sound(memory)
  BY <1>1, <1>2 DEF Sound
<1>4. QED
  BY <1>2, <1>3, GoesSound

\* The methods as they arrive.
LEMMA RoutesSound ==
  ASSUME RolesInv, NEW r \in Roles!Request, NEW u \in User,
         Roles!RoleRoutes(r, u) \/ Roles!StatusRoutes(r, u) \/ Roles!OtherSave(r, u)
  PROVE  RequestsSound' /\ Roles!SuperAdminRemains'
<1>0. RolesTyped /\ users[u] \in Roles!Row
  BY DEF RolesInv, RolesTyped, Roles!TypeOK
<1>1. CASE Roles!UpdateRole(r, u)
  <2>1. PICK k \in Roles!UserRole : Roles!Sets(r, u, [users[u] EXCEPT !.role = k])
    BY <1>1 DEF Roles!UpdateRole
  <2> DEFINE local == [users[u] EXCEPT !.role = k]
  <2>2. local \in Roles!Row /\ local.deleted = users[u].deleted
    BY <1>0, CopyType DEF Roles!Row
  <2>3. Roles!Sets(r, u, local)
    BY <2>1
  <2> HIDE DEF local
  <2>4. QED
    BY <2>2, <2>3, FindsSound DEF Roles!Sets, Roles!Finds
<1>2. CASE Roles!UpdateUserAdmin(r, u)
  <2>1. PICK k \in Roles!UserRole, active \in BOOLEAN :
          Roles!Sets(r, u, [users[u] EXCEPT !.role = k, !.isActive = active])
    BY <1>2 DEF Roles!UpdateUserAdmin
  <2> DEFINE local == [users[u] EXCEPT !.role = k, !.isActive = active]
  <2>2. local \in Roles!Row /\ local.deleted = users[u].deleted
    BY <1>0, CopyType DEF Roles!Row
  <2>3. Roles!Sets(r, u, local)
    BY <2>1
  <2> HIDE DEF local
  <2>4. QED
    BY <2>2, <2>3, FindsSound DEF Roles!Sets, Roles!Finds
<1>3. CASE Roles!ToggleActive(r, u)
  <2>1. PICK active \in BOOLEAN :
          Roles!Finds(r, u, "load", [users[u] EXCEPT !.isActive = active])
    BY <1>3 DEF Roles!ToggleActive
  <2> DEFINE local == [users[u] EXCEPT !.isActive = active]
  <2>2. /\ local \in Roles!Row /\ local.deleted = users[u].deleted
        /\ local.role = users[u].role
    BY <1>0, CopyType DEF Roles!Row
  <2>3. Roles!Finds(r, u, "load", local)
    BY <2>1
  <2> HIDE DEF local
  <2>4. QED
    BY <2>2, <2>3, FindsSound DEF Roles!Finds, Roles!Demotes
<1>4. CASE Roles!DeleteUser(r, u)
  <2> DEFINE local == [users[u] EXCEPT !.deleted = TRUE]
  <2>1. /\ local \in Roles!Row /\ users[u].role # "super_admin"
        /\ Roles!Finds(r, u, "load", local)
    BY <1>0, <1>4, CopyType DEF Roles!DeleteUser, Roles!UserRole
  <2> HIDE DEF local
  <2>2. QED
    BY <2>1, FindsSound DEF Roles!Demotes
<1>5. CASE Roles!OtherSave(r, u)
  BY <1>0, <1>5, FindsSound DEF Roles!OtherSave, Roles!Finds, Roles!Demotes
<1>6. QED
  BY <1>1, <1>2, <1>3, <1>4, <1>5 DEF Roles!RoleRoutes, Roles!StatusRoutes

\* A save leaves a super administrator, unless what it had checked has changed.
LEMMA WriteRemains ==
  ASSUME RolesInv, NEW r \in Roles!Request, Roles!Write(r)
  PROVE  Roles!SuperAdminRemains'
<1> SUFFICES ASSUME ~roleStale' PROVE Roles!SuperAdmins' # {}
  BY DEF Roles!SuperAdminRemains
<1> DEFINE u == roleReq[r].user
           local == roleReq[r].local
           new == Roles!Patched(users[u], local, roleReq[r].diff)
<1>1. users' = [users EXCEPT ![u] = new]
  BY DEF Roles!Write
<1>2. /\ ~roleStale /\ users[u] = roleReq[r].base
      /\ Roles!Demotes(roleReq[r].base, local) => Roles!SuperAdmins = roleReq[r].counted
  BY DEF Roles!Write
<1>3. u \in User /\ users \in [User -> Roles!Row] /\ local \in Roles!Row
  BY DEF RolesInv, RolesTyped, Roles!TypeOK, Roles!Memory
<1>4. Sound(roleReq[r]) /\ roleReq[r].pc = "write"
  BY DEF RolesInv, RequestsSound, Roles!InFlight, Roles!Write
<1>5. DOMAIN users[u] = {"role", "isActive", "deleted"}
  BY <1>3 DEF Roles!Row
<1>6. /\ new.role \in {users[u].role, local.role}
      /\ new.deleted \in {users[u].deleted, local.deleted}
  BY <1>5 DEF Roles!Patched
<1> HIDE DEF new
<1>7. ASSUME NEW v \in Roles!SuperAdmins, v # u PROVE v \in Roles!SuperAdmins'
  BY <1>1, <1>3, <1>7 DEF Roles!SuperAdmins
<1>8. CASE Roles!Demotes(roleReq[r].base, local)
  <2>1. PICK v, w \in Roles!SuperAdmins : v # w
    BY <1>2, <1>4, <1>8 DEF Sound
  <2>2. QED
    BY <1>7, <2>1
<1>9. CASE ~Roles!Demotes(roleReq[r].base, local)
  <2>1. PICK v \in Roles!SuperAdmins : TRUE
    BY <1>2 DEF RolesInv, Roles!SuperAdminRemains
  <2>2. CASE v # u
    BY <1>7, <2>1, <2>2
  <2>3. CASE v = u
    <3>1. users[u].role = "super_admin" /\ ~users[u].deleted
      BY <2>1, <2>3 DEF Roles!SuperAdmins
    <3>2. local.role = "super_admin" /\ ~local.deleted
      BY <1>2, <1>4, <1>9, <3>1 DEF Roles!Demotes, Sound
    <3>3. new.role = "super_admin" /\ ~new.deleted
      BY <1>6, <3>1, <3>2
    <3>4. QED
      BY <1>1, <1>3, <3>3 DEF Roles!SuperAdmins
  <2>4. QED
    BY <2>2, <2>3
<1>10. QED
  BY <1>8, <1>9

\* Every step keeps the invariant.
LEMMA RolesSound ==
  ASSUME IsFiniteSet(User), RolesInv, [Roles!Next]_(Roles!vars)
  PROVE  RolesInv'
<1>0. RolesTyped'
  BY NextTyped DEF RolesInv
<1>1. ASSUME NEW r \in Roles!Request, Roles!Count(r)
      PROVE  RequestsSound' /\ Roles!SuperAdminRemains'
  <2> DEFINE memory == [roleReq[r] EXCEPT !.pc = "load", !.counted = Roles!SuperAdmins]
  <2>1. \E v, w \in Roles!SuperAdmins : v # w
    <3>1. IsFiniteSet(Roles!SuperAdmins) /\ Cardinality(Roles!SuperAdmins) > 1
      BY <1>1, SuperAdminsFinite, SameCardinality DEF Roles!Count
    <3>2. QED
      BY <3>1, TwoOfMany
  <2>2. Sound(roleReq[r]) /\ roleReq[r] \in Roles!Memory
    BY <1>1 DEF RolesInv, RolesTyped, Roles!TypeOK, RequestsSound, Roles!InFlight,
                Roles!Count
  <2>3. /\ memory.base = roleReq[r].base /\ memory.local = roleReq[r].local
        /\ memory.counted = Roles!SuperAdmins
    BY <2>2 DEF Roles!Memory
  <2>4. Roles!Goes(r, memory)
    BY <1>1 DEF Roles!Count
  <2> HIDE DEF memory
  <2>5. Sound(memory)
    BY <2>1, <2>2, <2>3 DEF Sound
  <2>6. QED
    BY <2>4, <2>5, GoesSound
<1>2. ASSUME NEW r \in Roles!Request, Roles!Refuse(r)
      PROVE  RequestsSound' /\ Roles!SuperAdminRemains'
  <2>1. [Roles!Idle EXCEPT !.pc = "done"].pc = "done"
    BY DEF Roles!Idle
  <2>2. QED
    BY <1>2, <2>1, GoesSound DEF Roles!Refuse
<1>3. ASSUME NEW r \in Roles!Request, Roles!Load(r)
      PROVE  RequestsSound' /\ Roles!SuperAdminRemains'
  <2> DEFINE diff == IF roleReq[r].local.deleted THEN {"deleted"}
                     ELSE Roles!Differing(roleReq[r].local, users[roleReq[r].user])
             memory == [roleReq[r] EXCEPT !.pc = "write", !.diff = diff]
  <2>1. Sound(roleReq[r]) /\ roleReq[r] \in Roles!Memory /\ roleReq[r].pc = "load"
    BY <1>3 DEF RolesInv, RolesTyped, Roles!TypeOK, RequestsSound, Roles!InFlight,
                Roles!Load
  <2> HIDE DEF diff
  <2>2. /\ memory.base = roleReq[r].base /\ memory.local = roleReq[r].local
        /\ memory.counted = roleReq[r].counted
    BY <2>1 DEF Roles!Memory
  <2>3. Roles!Goes(r, memory)
    BY <1>3 DEF Roles!Load, diff
  <2> HIDE DEF memory
  <2>4. Sound(memory)
    BY <2>1, <2>2 DEF Sound
  <2>5. QED
    BY <2>3, <2>4, GoesSound
<1>4. ASSUME NEW r \in Roles!Request, Roles!Write(r)
      PROVE  RequestsSound' /\ Roles!SuperAdminRemains'
  <2>1. roleReq' = [roleReq EXCEPT ![r] = [Roles!Idle EXCEPT !.pc = "done"]]
        /\ roleReq \in [Roles!Request -> Roles!Memory]
    BY <1>4 DEF Roles!Write, RolesInv, RolesTyped, Roles!TypeOK
  <2>2. [Roles!Idle EXCEPT !.pc = "done"].pc = "done"
    BY DEF Roles!Idle
  <2>3. ASSUME NEW q \in Roles!Request, q \in Roles!InFlight' PROVE Sound(roleReq'[q])
    BY <2>1, <2>2, <2>3 DEF RolesInv, RequestsSound, Roles!InFlight
  <2>4. RequestsSound'
    BY <2>3 DEF RequestsSound, Sound, Roles!Demotes
  <2>5. QED
    BY <1>4, <2>4, WriteRemains
<1>5. CASE UNCHANGED Roles!vars
  <2>1. RequestsSound'
    BY <1>5 DEF Roles!vars, RolesInv, RequestsSound, Roles!InFlight, Sound,
                Roles!Demotes
  <2>2. Roles!SuperAdminRemains'
    BY <1>5 DEF Roles!vars, RolesInv, Roles!SuperAdminRemains, Roles!SuperAdmins
  <2>3. QED
    BY <1>0, <2>1, <2>2 DEF RolesInv
<1>6. CASE Roles!Next
  <2>1. PICK r \in Roles!Request :
          \/ \E u \in User : \/ Roles!RoleRoutes(r, u) \/ Roles!StatusRoutes(r, u)
                             \/ Roles!OtherSave(r, u)
          \/ Roles!Count(r) \/ Roles!Refuse(r) \/ Roles!Load(r) \/ Roles!Write(r)
    BY <1>6 DEF Roles!Next
  <2>2. RequestsSound' /\ Roles!SuperAdminRemains'
    BY <1>1, <1>2, <1>3, <1>4, <2>1, RoutesSound
  <2>3. QED
    BY <1>0, <2>2 DEF RolesInv
<1>7. QED
  BY <1>0, <1>5, <1>6 DEF RolesInv

\* However many demotions, edits and deletions overlap, some super administrator
\* remains, unless a request saved after what it had checked changed.
THEOREM SuperAdminAlwaysRemains ==
  ASSUME IsFiniteSet(User)
  PROVE  Spec => []SuperAdminRemains
<1>1. Roles!Init => RolesInv
  <2> SUFFICES ASSUME Roles!Init PROVE RolesInv
    OBVIOUS
  <2>1. RequestsSound
    BY DEF Roles!Init, RequestsSound, Roles!InFlight, Roles!Idle
  <2>2. QED
    BY <2>1, InitTyped DEF Roles!Init, RolesInv, Roles!SuperAdminRemains
<1>2. RolesInv /\ [Roles!Next]_(Roles!vars) => RolesInv'
  BY RolesSound
<1>3. RolesInv => Roles!SuperAdminRemains
  BY DEF RolesInv
<1>4. QED
  BY <1>1, <1>2, <1>3, ServicesImplemented, PTL DEF Roles!Spec, SuperAdminRemains

-----------------------------------------------------------------------------
(* Threads: what ties the requests to the counters.                        *)

\* A request that posts, one that holds a copy of the thread, one about to save it.
Posts(r) == threadReq[r].op \in {"post", "createMessage"}
Copies(r) ==
  \/ threadReq[r].pc \in {"insert", "find", "load", "write"}
  \/ threadReq[r].op = "markThread" /\ threadReq[r].pc \in {"mload", "mwrite"}
Saves(r) == threadReq[r].pc \in {"load", "write"}

\* Messages posted and not counted yet, by anyone and by the creator's peer; a
\* message of the peer counts as one.
Pending == {r \in Threads!Request : Saves(r) /\ Posts(r)}
CreatorsPeer == Threads!Peer(thread.createdBy)
PeerPending == {r \in Pending : threadReq[r].by = CreatorsPeer}
One(r) == IF threadReq[r].by = CreatorsPeer THEN 1 ELSE 0

\* A request that is about to mark what it found as read, and one that has; the
\* messages marked that unreadCount still counts.
Finding(r) == threadReq[r].op = "markThread" /\ threadReq[r].pc \in {"mload", "mwrite"}
Marks(r) == Saves(r) /\ threadReq[r].op = "markThread"
Marked == {m \in Threads!Request :
             \E r \in Threads!Request : Marks(r) /\ m \in threadReq[r].found}

\* The counters are as r read them, or have moved on: messageCount grows, and as
\* long as it does not, unreadCount only falls.
Current(r) ==
  /\ thread.messageCount = threadReq[r].base.messageCount
  /\ thread.unreadCount = threadReq[r].base.unreadCount
MovedOn(r) ==
  /\ threadReq[r].base.messageCount <= thread.messageCount
  /\ threadReq[r].base.messageCount = thread.messageCount =>
       thread.unreadCount <= threadReq[r].base.unreadCount

\* The requests there are: what each was asked, and at which step it can be.
StepsFit(r) ==
  /\ threadReq[r].pc \in {"found", "insert"} => Posts(r)
  /\ threadReq[r].pc \in {"find", "mload", "mwrite"} =>
       threadReq[r].op \in {"markThread", "markMessage"}
  /\ threadReq[r].pc = "find" => threadReq[r].op = "markThread"
  /\ Saves(r) => Posts(r) \/ threadReq[r].op \in {"markThread", "close", "reopen"}
  /\ threadReq[r].pc \in {"found", "remove"} \/ Copies(r) => Threads!Exists

\* The messages there are: each of a request that has posted it.
MessagesFit(m) ==
  /\ messages[m].state # "none" =>
       Threads!Exists /\ (threadReq[m].pc = "done" \/ m \in Pending)
  /\ m \in Pending => messages[m].state # "none" /\ messages[m].sender = threadReq[m].by
  /\ \A k \in threadReq[m].found : messages[k].state # "none"

\* What a copy of the thread says, next to the row it was read from.
CopyFits(r) ==
  Copies(r) =>
    LET base == threadReq[r].base
        local == threadReq[r].local
        n == Cardinality(threadReq[r].found)
    IN /\ base.createdBy = thread.createdBy /\ local.createdBy = thread.createdBy
       /\ local.messageCount = base.messageCount + (IF Posts(r) THEN 1 ELSE 0)
       /\ Posts(r) => local.unreadCount = base.unreadCount + One(r)
       /\ threadReq[r].pc = "find" \/ threadReq[r].op \in {"close", "reopen"} =>
            local.unreadCount = base.unreadCount
       /\ threadReq[r].op = "markThread" /\ threadReq[r].pc # "find" =>
            /\ threadReq[r].found # {}
            /\ local.unreadCount = Threads!Less(base.unreadCount, n)

ThreadFits ==
  /\ Threads!TypeOK
  /\ \A r \in Threads!Request : StepsFit(r) /\ MessagesFit(r) /\ CopyFits(r)

\* The counters of a copy, once it is saved, do not exceed what was posted.
CopyBounded(r) ==
  Copies(r) =>
    /\ threadReq[r].local.messageCount <=
         Cardinality(Threads!Posted) + (IF threadReq[r].pc = "insert" THEN 1 ELSE 0)
    /\ threadReq[r].local.unreadCount <=
         Cardinality(Threads!FromPeer) + (IF threadReq[r].pc = "insert" THEN One(r) ELSE 0)

CountersBounded ==
  /\ thread.messageCount <= Cardinality(Threads!Posted)
  /\ thread.unreadCount <= Cardinality(Threads!FromPeer)
  /\ \A r \in Threads!Request : CopyBounded(r)

\* As long as no save was of a stale copy: the counters have only moved on, and a
\* save that finds them as they were read writes those that it has changed.
CopyOrdered(r) ==
  /\ Copies(r) => MovedOn(r)
  /\ threadReq[r].pc = "write" /\ Current(r) =>
       \A c \in {"messageCount", "unreadCount"} :
         c \in threadReq[r].diff <=> threadReq[r].local[c] # threadReq[r].base[c]

CopiesOrdered == ~threadStale => \A r \in Threads!Request : CopyOrdered(r)

\* messageCount lacks exactly what is about to be counted.
MessagesCounted ==
  ~threadStale /\ ~threadFailed =>
    thread.messageCount + Cardinality(Pending) = Cardinality(Threads!Posted)

\* Unless it is disturbed: a message not counted yet is unread and nobody has
\* found it; only the creator saves the thread as read, and what it has marked is
\* no longer unread.
MarksFit ==
  ~threadStale /\ ~disturbed =>
    /\ \A m \in Pending : messages[m].state = "unread"
    /\ \A r \in Threads!Request :
         Finding(r) \/ Marks(r) => threadReq[r].found \cap Threads!InFlight = {}
    /\ \A r \in Threads!Request : Marks(r) =>
         /\ threadReq[r].by = thread.createdBy
         /\ \A m \in threadReq[r].found : messages[m].state # "unread"

\* unreadCount lacks what is about to be counted and has too many of what was just
\* marked: when no save that is under way will find the counters changed.
Undoomed ==
  /\ ~threadStale /\ ~threadFailed /\ ~disturbed /\ Threads!Exists
  /\ \A r \in Threads!Request : Saves(r) => Current(r)

UnreadCounted ==
  Undoomed =>
    /\ thread.unreadCount + Cardinality(PeerPending) =
         Cardinality(Threads!Unread(CreatorsPeer) \cup Marked)
    /\ \A r \in Threads!Request :
         Finding(r) /\ threadReq[r].by = thread.createdBy /\ Current(r) =>
           threadReq[r].found \subseteq Threads!Unread(CreatorsPeer) \cup Marked

\* Who removes a message has it unread, or finds it removed.
RemovesUnread ==
  ~threadStale => \A r \in Threads!Request : threadReq[r].pc = "remove" =>
    \A m \in threadReq[r].found : messages[m].state \in {"unread", "deleted"}

ThreadInv ==
  /\ ThreadFits /\ CountersBounded /\ CopiesOrdered /\ MessagesCounted
  /\ MarksFit /\ UnreadCounted /\ RemovesUnread

-----------------------------------------------------------------------------
(* Threads: types, and what a step leaves in the memory of its request.    *)

\* The party that is not x, and the sets there are.
LEMMA PeerType == ASSUME NEW x PROVE Threads!Peer(x) \in Threads!Party
<1>1. \E q \in Threads!Party : q # x
  BY DEF Threads!Party
<1>2. QED
  BY <1>1 DEF Threads!Peer

LEMMA ThreadCardinality ==
  ASSUME NEW S
  PROVE  Threads!Cardinality(S) = Cardinality(S)
BY DEF Threads!Cardinality, Cardinality

\* Sets of requests, and of messages, are finite.
LEMMA ThreadsFinite ==
  ASSUME ThreadRequests \in Nat, NEW S \in SUBSET Threads!Request
  PROVE  IsFiniteSet(S) /\ Cardinality(S) \in Nat /\ (Cardinality(S) = 0 <=> S = {})
<1>1. IsFiniteSet(Threads!Request)
  BY FS_Interval DEF Threads!Request
<1>2. IsFiniteSet(S)
  BY <1>1, FS_Subset
<1>3. QED
  BY <1>2, FS_CardinalityType, FS_EmptySet

LEMMA DisjointUnion ==
  ASSUME NEW S, NEW T, IsFiniteSet(S), IsFiniteSet(T), S \cap T = {}
  PROVE  Cardinality(S \cup T) = Cardinality(S) + Cardinality(T)
<1>1. Cardinality(S \cup T) = Cardinality(S) + Cardinality(T) - Cardinality(S \cap T)
  BY FS_Union
<1>2. Cardinality(S \cap T) = 0
  BY FS_EmptySet
<1>3. Cardinality(S) \in Nat /\ Cardinality(T) \in Nat
  BY FS_CardinalityType
<1>4. QED
  BY <1>1, <1>2, <1>3

\* What the invariant counts is finite.
LEMMA ThreadCountsType ==
  ASSUME ThreadRequests \in Nat
  PROVE  /\ Cardinality(Threads!Posted) \in Nat /\ Cardinality(Threads!FromPeer) \in Nat
         /\ Cardinality(Pending) \in Nat /\ Cardinality(PeerPending) \in Nat
         /\ Cardinality(Threads!Unread(CreatorsPeer) \cup Marked) \in Nat
<1>1. /\ Threads!Posted \in SUBSET Threads!Request
      /\ Threads!FromPeer \in SUBSET Threads!Request
      /\ Pending \in SUBSET Threads!Request /\ PeerPending \in SUBSET Threads!Request
      /\ Threads!Unread(CreatorsPeer) \cup Marked \in SUBSET Threads!Request
  BY DEF Threads!Posted, Threads!FromPeer, Pending, PeerPending, Threads!Unread, Marked
<1>2. QED
  BY <1>1, ThreadsFinite

LEMMA LessType ==
  ASSUME NEW count \in Nat, NEW n \in Nat
  PROVE  /\ Threads!Less(count, n) \in Nat /\ Threads!Less(count, n) <= count
         /\ count > 0 /\ n > 0 => Threads!Less(count, n) < count
         /\ count >= n => Threads!Less(count, n) = count - n
BY DEF Threads!Less

LEMMA ThreadIdleType ==
  /\ Threads!Idle \in Threads!Memory /\ Threads!Done \in Threads!Memory
  /\ Threads!Done.pc = "done" /\ Threads!Done.found = {}
<1>1. Threads!NoThread \in Threads!Thread
  BY DEF Threads!NoThread, Threads!Thread
<1>2. Threads!Idle \in Threads!Memory
  BY <1>1 DEF Threads!Idle, Threads!Memory, Threads!Op, Threads!Party
<1>3. QED
  BY <1>2 DEF Threads!Done, Threads!Memory, Threads!Idle

\* A step after which request r remembers m, and no other request changed.
Remembers(r, m) ==
  /\ m \in Threads!Memory
  /\ threadReq' = [threadReq EXCEPT ![r] = m]

LEMMA ThreadRemembers ==
  ASSUME Threads!TypeOK, NEW r \in Threads!Request, NEW m, Remembers(r, m)
  PROVE  /\ threadReq' \in [Threads!Request -> Threads!Memory] /\ threadReq'[r] = m
         /\ \A q \in Threads!Request : q # r => threadReq'[q] = threadReq[q]
BY DEF Threads!TypeOK, Remembers

\* The fields of a memory and of a thread.
LEMMA MemoryType ==
  ASSUME NEW m \in Threads!Memory
  PROVE  /\ m.base \in Threads!Thread /\ m.local \in Threads!Thread
         /\ m.by \in Threads!Party /\ m.op \in Threads!Op
         /\ m.found \in SUBSET Threads!Request
BY DEF Threads!Memory

LEMMA ThreadType ==
  ASSUME NEW t \in Threads!Thread
  PROVE  /\ t.messageCount \in Nat /\ t.unreadCount \in Nat
         /\ DOMAIN t = {"createdBy", "status", "messageCount", "unreadCount"}
BY DEF Threads!Thread

\* A request that has found the thread.
Found(o, p, pc, local) ==
  [Threads!Idle EXCEPT !.pc = pc, !.op = o, !.by = p, !.base = thread, !.local = local]

LEMMA FoundType ==
  ASSUME Threads!TypeOK, NEW o \in Threads!Op, NEW p \in Threads!Party,
         NEW pc \in {"insert", "find", "load"}, NEW local \in Threads!Thread
  PROVE  LET m == Found(o, p, pc, local)
         IN /\ m \in Threads!Memory /\ m.pc = pc /\ m.op = o /\ m.by = p /\ m.found = {}
            /\ m.diff = {} /\ m.base = thread /\ m.local = local
BY ThreadIdleType DEF Found, Threads!TypeOK, Threads!Memory, Threads!Idle

\* The copies that the methods make of the thread.
LEMMA CountedType ==
  ASSUME Threads!TypeOK, NEW p \in Threads!Party
  PROVE  LET t == Threads!Counted(p)
         IN /\ t \in Threads!Thread /\ t.createdBy = thread.createdBy
            /\ t.messageCount = thread.messageCount + 1
            /\ t.unreadCount = thread.unreadCount + IF p = CreatorsPeer THEN 1 ELSE 0
<1>1. /\ thread \in Threads!Thread /\ thread.messageCount + 1 \in Nat
      /\ thread.unreadCount \in Nat /\ thread.unreadCount + 1 \in Nat
  BY ThreadType DEF Threads!TypeOK
<1> DEFINE mc == thread.messageCount + 1
           uc == IF p = CreatorsPeer THEN thread.unreadCount + 1 ELSE thread.unreadCount
<1>2. Threads!Counted(p) = [thread EXCEPT !.messageCount = mc, !.unreadCount = uc]
  BY <1>1, Zenon DEF Threads!Counted, CreatorsPeer, Threads!Thread
<1>3. mc \in Nat /\ uc \in Nat
  BY <1>1
<1> HIDE DEF mc, uc
<1>4. LET t == Threads!Counted(p)
      IN /\ t \in Threads!Thread /\ t.createdBy = thread.createdBy
         /\ t.messageCount = mc /\ t.unreadCount = uc
  BY <1>1, <1>2, <1>3 DEF Threads!Thread
<1>5. uc = thread.unreadCount + IF p = CreatorsPeer THEN 1 ELSE 0
  BY <1>1 DEF uc
<1>6. QED
  BY <1>4, <1>5 DEF mc

LEMMA StatusType ==
  ASSUME Threads!TypeOK, NEW status \in {"open", "closed"}
  PROVE  LET t == [thread EXCEPT !.status = status]
         IN /\ t \in Threads!Thread /\ t.createdBy = thread.createdBy
            /\ t.messageCount = thread.messageCount /\ t.unreadCount = thread.unreadCount
BY DEF Threads!TypeOK, Threads!Thread

\* What a save makes of the thread.
LEMMA ThreadPatched ==
  ASSUME NEW t \in Threads!Thread, NEW local \in Threads!Thread, NEW columns
  PROVE  LET new == Threads!Patched(t, local, columns)
         IN /\ new \in Threads!Thread
            /\ \A c \in {"createdBy", "status", "messageCount", "unreadCount"} :
                 new[c] = IF c \in columns THEN local[c] ELSE t[c]
<1> DEFINE new == Threads!Patched(t, local, columns)
           names == {"createdBy", "status", "messageCount", "unreadCount"}
<1>1. DOMAIN t = names
  BY ThreadType
<1>2. /\ new = [c \in names |-> new[c]]
      /\ \A c \in names : new[c] = IF c \in columns THEN local[c] ELSE t[c]
  BY <1>1 DEF Threads!Patched
<1>3. /\ new.createdBy \in Threads!Party \cup {"nobody"}
      /\ new.status \in {"open", "closed"}
      /\ new.messageCount \in Nat /\ new.unreadCount \in Nat
  BY <1>2 DEF Threads!Thread
<1> HIDE DEF new
<1>4. new \in Threads!Thread
  BY <1>2, <1>3 DEF Threads!Thread
<1>5. QED
  BY <1>2, <1>4 DEF new

-----------------------------------------------------------------------------
(* Threads: the steps that change no table.                                *)

\* Nothing but the memory of a request changes: what the invariant needs of it.
LEMMA MemoryStep ==
  ASSUME ThreadInv, NEW r \in Threads!Request, NEW m, Remembers(r, m),
         UNCHANGED <<thread, messages, threadFailed, disturbed>>,
         threadStale' \in BOOLEAN, ~threadStale' => ~threadStale,
         threadReq[r].pc # "done",
         StepsFit(r)', MessagesFit(r)', CopyFits(r)', CopyBounded(r)',
         ~threadStale' => CopyOrdered(r)',
         Saves(r) => /\ Saves(r)' /\ m.op = threadReq[r].op /\ m.by = threadReq[r].by
                     /\ m.found = threadReq[r].found /\ m.base = threadReq[r].base,
         Saves(r)' => Saves(r) \/ m.op \in {"close", "reopen"},
         Finding(r)' =>
           \/ /\ Finding(r) /\ m.by = threadReq[r].by
              /\ m.found = threadReq[r].found /\ m.base = threadReq[r].base
           \/ /\ m.found \subseteq Threads!Unread(Threads!Peer(m.by))
              /\ ~threadStale' => m.found \cap Threads!InFlight = {},
         m.pc = "remove" => \A k \in m.found : messages[k].state = "unread"
  PROVE  ThreadInv'
<1>1. /\ threadReq' \in [Threads!Request -> Threads!Memory] /\ threadReq'[r] = m
      /\ \A q \in Threads!Request : q # r => threadReq'[q] = threadReq[q]
  BY ThreadRemembers DEF ThreadInv, ThreadFits
<1>2. \A q \in Threads!Request :
        q # r => /\ Saves(q)' = Saves(q) /\ Posts(q)' = Posts(q) /\ Copies(q)' = Copies(q)
                 /\ Finding(q)' = Finding(q)
  BY <1>1 DEF Saves, Posts, Copies, Finding
<1>3. CreatorsPeer' = CreatorsPeer /\ Threads!Exists' = Threads!Exists
  BY DEF CreatorsPeer, Threads!Exists, Threads!Peer, Threads!Party
<1>4. /\ Threads!Posted' = Threads!Posted /\ Threads!FromPeer' = Threads!FromPeer
      /\ Threads!Unread(CreatorsPeer)' = Threads!Unread(CreatorsPeer)
  BY <1>3 DEF Threads!Posted, Threads!FromPeer, Threads!Unread, CreatorsPeer
<1>5. Pending' = Pending
  BY <1>1, <1>2 DEF Pending, Posts
<1>6. PeerPending' = PeerPending
  BY <1>1, <1>3, <1>5 DEF PeerPending, Pending
<1>7. \A q \in Threads!Request : /\ Marks(q)' = Marks(q)
                                 /\ Marks(q) => threadReq'[q].found = threadReq[q].found
                                             /\ threadReq'[q].by = threadReq[q].by
  BY <1>1, <1>2 DEF Marks
<1>8. Marked' = Marked
  BY <1>7 DEF Marked
<1>9. \A q \in Threads!Request :
        q # r => /\ One(q)' = One(q) /\ Current(q)' = Current(q) /\ MovedOn(q)' = MovedOn(q)
  BY <1>1, <1>3 DEF One, Current, MovedOn
<1>10. \A q \in Threads!Request : StepsFit(q)' /\ MessagesFit(q)' /\ CopyFits(q)'
  <2> SUFFICES ASSUME NEW q \in Threads!Request, q # r
               PROVE  StepsFit(q)' /\ MessagesFit(q)' /\ CopyFits(q)'
    OBVIOUS
  <2>1. StepsFit(q) /\ MessagesFit(q) /\ CopyFits(q)
    BY DEF ThreadInv, ThreadFits
  <2>2. StepsFit(q)'
    BY <1>1, <1>2, <1>3, <2>1 DEF StepsFit
  <2>3. MessagesFit(q)'
    BY <1>1, <1>3, <1>5, <2>1 DEF MessagesFit
  <2>4. CopyFits(q)'
    BY <1>1, <1>2, <1>9, <2>1 DEF CopyFits
  <2>5. QED
    BY <2>2, <2>3, <2>4
<1>11. ThreadFits'
  BY <1>1, <1>10 DEF ThreadFits, ThreadInv, Threads!TypeOK
<1>12. CountersBounded'
  <2>1. \A q \in Threads!Request : q # r => CopyBounded(q)'
    BY <1>1, <1>2, <1>4, <1>9 DEF ThreadInv, CountersBounded, CopyBounded
  <2>2. QED
    BY <1>4, <2>1 DEF ThreadInv, CountersBounded
<1>13. CopiesOrdered'
  <2>1. ~threadStale => \A q \in Threads!Request : q # r => CopyOrdered(q)'
    BY <1>1, <1>2, <1>9 DEF ThreadInv, CopiesOrdered, CopyOrdered
  <2>2. QED
    BY <2>1 DEF CopiesOrdered
<1>14. MessagesCounted'
  BY <1>4, <1>5 DEF ThreadInv, MessagesCounted
<1>15. \A k \in Threads!Request : messages[k].state # "none" =>
         (k \in Threads!InFlight' <=> k \in Threads!InFlight)
  <2> SUFFICES ASSUME messages[r].state # "none"
               PROVE  r \in Threads!InFlight' <=> r \in Threads!InFlight
    BY <1>1 DEF Threads!InFlight
  <2>1. r \in Pending
    BY DEF ThreadInv, ThreadFits, MessagesFit
  <2>2. QED
    BY <1>5, <2>1 DEF Pending, Saves, Threads!InFlight
<1>16. MarksFit'
  <2> SUFFICES ASSUME ~threadStale', ~disturbed' PROVE MarksFit'
    BY DEF MarksFit
  <2>1. /\ \A k \in Pending : messages[k].state = "unread"
        /\ \A q \in Threads!Request :
             Finding(q) \/ Marks(q) => threadReq[q].found \cap Threads!InFlight = {}
        /\ \A q \in Threads!Request : Marks(q) =>
             /\ threadReq[q].by = thread.createdBy
             /\ \A k \in threadReq[q].found : messages[k].state # "unread"
    BY DEF ThreadInv, MarksFit
  <2>2. \A q \in Threads!Request : Finding(q)' \/ Marks(q)' =>
          threadReq'[q].found \cap Threads!InFlight = {}
    BY <1>1, <1>2, <1>7, <2>1
  <2>3. \A q \in Threads!Request : \A k \in threadReq'[q].found : messages[k].state # "none"
    BY <1>10 DEF MessagesFit
  <2>4. \A q \in Threads!Request : Finding(q)' \/ Marks(q)' =>
          threadReq'[q].found \cap Threads!InFlight' = {}
    BY <1>1, <1>15, <2>2, <2>3, MemoryType
  <2>5. QED
    BY <1>5, <1>7, <2>1, <2>4 DEF MarksFit
<1>17. Undoomed' => Undoomed
  BY <1>1, <1>2, <1>3, <1>9 DEF Undoomed, Current
<1>18. UnreadCounted'
  <2> SUFFICES ASSUME Undoomed' PROVE UnreadCounted'
    BY DEF UnreadCounted
  <2>1. /\ thread.unreadCount + Cardinality(PeerPending) =
             Cardinality(Threads!Unread(CreatorsPeer) \cup Marked)
        /\ \A q \in Threads!Request :
             Finding(q) /\ threadReq[q].by = thread.createdBy /\ Current(q) =>
               threadReq[q].found \subseteq Threads!Unread(CreatorsPeer) \cup Marked
    BY <1>17 DEF ThreadInv, UnreadCounted
  <2>2. ASSUME NEW q \in Threads!Request, Finding(q)', threadReq'[q].by = thread.createdBy,
               Current(q)'
        PROVE  threadReq'[q].found \subseteq Threads!Unread(CreatorsPeer) \cup Marked
    <3>1. CASE q # r
      BY <1>1, <1>2, <1>9, <2>1, <2>2, <3>1
    <3>2. CASE q = r /\ Finding(r) /\ m.base = threadReq[r].base
                     /\ m.by = threadReq[r].by /\ m.found = threadReq[r].found
      BY <1>1, <2>1, <2>2, <3>2 DEF Current
    <3>3. CASE q = r /\ m.found \subseteq Threads!Unread(Threads!Peer(m.by))
      BY <1>1, <2>2, <3>3 DEF CreatorsPeer
    <3>4. QED
      BY <2>2, <3>1, <3>2, <3>3
  <2>3. QED
    BY <1>4, <1>6, <1>8, <2>1, <2>2 DEF UnreadCounted
<1>19. RemovesUnread'
  BY <1>1 DEF ThreadInv, RemovesUnread
<1>20. QED
  BY <1>11, <1>12, <1>13, <1>14, <1>16, <1>18, <1>19 DEF ThreadInv

\* A request that has posted nothing has no message.
LEMMA NothingPosted ==
  ASSUME ThreadInv, NEW r \in Threads!Request,
         threadReq[r].pc \in {"idle", "found", "insert", "find", "mload", "mwrite", "remove"}
  PROVE  messages[r].state = "none" /\ ~Saves(r) /\ r \notin Pending
BY DEF ThreadInv, ThreadFits, MessagesFit, Pending, Saves

\* A request that holds a fresh copy of the thread.
LEMMA FindsStep ==
  ASSUME ThreadRequests \in Nat, ThreadInv, NEW r \in Threads!Request, NEW o \in Threads!Op,
         NEW p \in Threads!Party, NEW pc \in {"insert", "find", "load"},
         NEW local \in Threads!Thread, Threads!Finds(r, o, p, pc, local),
         threadReq[r].pc \in {"idle", "found"},
         local.createdBy = thread.createdBy,
         \/ /\ pc = "insert" /\ o \in {"post", "createMessage"}
            /\ local.messageCount = thread.messageCount + 1
            /\ local.unreadCount = thread.unreadCount + IF p = CreatorsPeer THEN 1 ELSE 0
         \/ /\ (pc = "find" /\ o = "markThread") \/ (pc = "load" /\ o \in {"close", "reopen"})
            /\ local.messageCount = thread.messageCount
            /\ local.unreadCount = thread.unreadCount
  PROVE  ThreadInv'
<1>0. Threads!TypeOK /\ CountersBounded /\ threadStale \in BOOLEAN /\ thread \in Threads!Thread
  BY DEF ThreadInv, ThreadFits, Threads!TypeOK
<1> DEFINE m == Found(o, p, pc, local)
<1>1. /\ Threads!Exists
      /\ UNCHANGED <<thread, messages, threadStale, threadFailed, disturbed>>
      /\ threadReq' = [threadReq EXCEPT ![r] = m]
  BY DEF Threads!Finds, Threads!Goes, Found
<1>2. /\ m \in Threads!Memory /\ m.pc = pc /\ m.op = o /\ m.by = p /\ m.found = {}
      /\ m.diff = {} /\ m.base = thread /\ m.local = local
  BY <1>0, FoundType
<1> HIDE DEF m
<1>3. Remembers(r, m) /\ threadReq'[r] = m
  BY <1>0, <1>1, <1>2, ThreadRemembers DEF Remembers
<1>4. messages[r].state = "none" /\ ~Saves(r)
  BY NothingPosted
<1>5. Threads!Exists' /\ CreatorsPeer' = CreatorsPeer
  BY <1>1 DEF Threads!Exists, CreatorsPeer, Threads!Peer, Threads!Party
<1>6. StepsFit(r)'
  BY <1>2, <1>3, <1>5 DEF StepsFit, Posts, Saves
<1>7. MessagesFit(r)'
  BY <1>1, <1>2, <1>3, <1>4 DEF MessagesFit, Pending, Saves, Posts
<1>8. One(r)' = IF p = CreatorsPeer THEN 1 ELSE 0
  BY <1>2, <1>3, <1>5 DEF One
<1>9. thread.messageCount \in Nat /\ thread.unreadCount \in Nat
  BY <1>0, ThreadType
<1>10. CopyFits(r)'
  BY <1>1, <1>2, <1>3, <1>8, <1>9 DEF CopyFits, Posts
<1>11. /\ Threads!Posted' = Threads!Posted /\ Threads!FromPeer' = Threads!FromPeer
  BY <1>1, <1>5 DEF Threads!Posted, Threads!FromPeer, CreatorsPeer
<1>12. CopyBounded(r)'
  <2>1. thread.messageCount <= Cardinality(Threads!Posted)
    BY <1>0 DEF CountersBounded
  <2>2. thread.unreadCount <= Cardinality(Threads!FromPeer)
    BY <1>0 DEF CountersBounded
  <2>0. Cardinality(Threads!Posted) \in Nat /\ Cardinality(Threads!FromPeer) \in Nat
    BY ThreadCountsType
  <2>3. CASE pc = "insert"
    BY <2>0, <1>2, <1>3, <1>8, <1>9, <1>11, <2>1, <2>2, <2>3 DEF CopyBounded
  <2>4. CASE pc # "insert"
    BY <2>0, <1>2, <1>3, <1>9, <1>11, <2>1, <2>2, <2>4 DEF CopyBounded
  <2>5. QED
    BY <2>3, <2>4
<1>13. CopyOrdered(r)'
  BY <1>1, <1>2, <1>3, <1>9 DEF CopyOrdered, MovedOn
<1>14. Saves(r)' => m.op \in {"close", "reopen"}
  BY <1>2, <1>3 DEF Saves
<1>15. ~Finding(r)'
  BY <1>2, <1>3 DEF Finding
<1>16. QED
  BY <1>0, <1>1, <1>2, <1>3, <1>4, <1>6, <1>7, <1>10, <1>12, <1>13, <1>14, <1>15, MemoryStep

\* The methods that begin with the thread; createMessage goes on with it.
LEMMA BeginsThread ==
  ASSUME ThreadRequests \in Nat, ThreadInv, NEW r \in Threads!Request, NEW p \in Threads!Party,
         \/ Threads!CreateMessageInThread(r, p) \/ Threads!MarkThreadAsRead(r, p)
         \/ Threads!CloseThread(r, p) \/ Threads!ReopenThread(r, p)
  PROVE  ThreadInv'
<1>0. Threads!TypeOK /\ threadReq[r].pc = "idle"
  BY DEF ThreadInv, ThreadFits, Threads!CreateMessageInThread, Threads!MarkThreadAsRead,
         Threads!CloseThread, Threads!ReopenThread, Threads!Arrives
<1>1. CASE Threads!CreateMessageInThread(r, p)
  BY <1>0, <1>1, FindsStep, CountedType DEF Threads!CreateMessageInThread, Threads!Op
<1>2. CASE Threads!MarkThreadAsRead(r, p)
  BY <1>0, <1>2, FindsStep DEF Threads!MarkThreadAsRead, Threads!Op, Threads!TypeOK
<1>3. CASE Threads!CloseThread(r, p)
  BY <1>0, <1>3, FindsStep, StatusType DEF Threads!CloseThread, Threads!Op
<1>4. CASE Threads!ReopenThread(r, p)
  BY <1>0, <1>4, FindsStep, StatusType DEF Threads!ReopenThread, Threads!Op
<1>5. QED
  BY <1>1, <1>2, <1>3, <1>4

LEMMA PostsFirst ==
  ASSUME ThreadRequests \in Nat, ThreadInv, NEW r \in Threads!Request, Threads!PostFirst(r)
  PROVE  ThreadInv'
<1>1. Threads!TypeOK /\ threadReq[r].by \in Threads!Party
  BY MemoryType DEF ThreadInv, ThreadFits, Threads!TypeOK
<1>2. QED
  BY <1>1, FindsStep, CountedType DEF Threads!PostFirst, Threads!Op

\* A step of a request that neither holds a copy of the thread nor gets one.
LEMMA MessageStep ==
  ASSUME ThreadInv, NEW r \in Threads!Request, NEW m, Remembers(r, m),
         UNCHANGED <<thread, messages, threadFailed, disturbed>>,
         threadStale' \in BOOLEAN, ~threadStale' => ~threadStale,
         threadReq[r].pc \notin {"done", "load", "write"},
         m.pc \in {"done", "remove"} \/ (m.pc \in {"mload", "mwrite"} /\ m.op = "markMessage"),
         \A k \in m.found : messages[k].state # "none",
         m.pc = "remove" => Threads!Exists /\ \A k \in m.found : messages[k].state = "unread"
  PROVE  ThreadInv'
<1>1. threadReq'[r] = m /\ messages[r].state = "none" /\ ~Saves(r)
  <2>1. threadReq[r].pc \in {"idle", "found", "insert", "find", "mload", "mwrite", "remove"}
    BY DEF ThreadInv, ThreadFits, Threads!TypeOK, Threads!Memory
  <2>2. QED
    BY <2>1, NothingPosted, ThreadRemembers DEF ThreadInv, ThreadFits
<1>2. Threads!Exists' = Threads!Exists
  BY DEF Threads!Exists
<1>3. ~Copies(r)' /\ ~Saves(r)' /\ ~Finding(r)' /\ m.pc # "write"
  BY <1>1 DEF Copies, Saves, Finding
<1>4. StepsFit(r)'
  BY <1>1, <1>2, <1>3 DEF StepsFit
<1>5. MessagesFit(r)'
  BY <1>1, <1>3 DEF MessagesFit, Pending
<1>6. CopyFits(r)' /\ CopyBounded(r)' /\ CopyOrdered(r)'
  BY <1>1, <1>3 DEF CopyFits, CopyBounded, CopyOrdered
<1>7. QED
  BY <1>1, <1>3, <1>4, <1>5, <1>6, MemoryStep

\* One message is marked as read or taken back.
LEMMA BeginsMessage ==
  ASSUME ThreadInv, NEW r \in Threads!Request, NEW p \in Threads!Party,
         Threads!MarkMessageAsRead(r, p) \/ Threads!DeleteMessage(r, p)
  PROVE  ThreadInv'
<1>0. Threads!TypeOK /\ threadStale \in BOOLEAN /\ threadReq[r].pc = "idle"
  BY DEF ThreadInv, ThreadFits, Threads!TypeOK, Threads!MarkMessageAsRead,
         Threads!DeleteMessage, Threads!Arrives
<1>1. UNCHANGED <<thread, messages, threadStale, threadFailed, disturbed>>
  BY DEF Threads!MarkMessageAsRead, Threads!DeleteMessage
<1>2. CASE Threads!MarkMessageAsRead(r, p)
  <2>1. PICK k \in Threads!Request :
          /\ messages[k].state = "unread"
          /\ Threads!Goes(r, [Threads!Idle EXCEPT !.pc = "mload", !.op = "markMessage",
                                                  !.by = p, !.found = {k}])
    BY <1>2 DEF Threads!MarkMessageAsRead
  <2> DEFINE m == [Threads!Idle EXCEPT !.pc = "mload", !.op = "markMessage",
                                       !.by = p, !.found = {k}]
  <2>2. Threads!Goes(r, m)
    BY <2>1
  <2>3. m \in Threads!Memory /\ m.pc = "mload" /\ m.op = "markMessage" /\ m.found = {k}
    BY ThreadIdleType DEF Threads!Memory, Threads!Idle, Threads!Op
  <2> HIDE DEF m
  <2>4. QED
    BY <1>0, <1>1, <2>1, <2>2, <2>3, MessageStep DEF Remembers, Threads!Goes
<1>3. CASE Threads!DeleteMessage(r, p)
  <2>1. PICK k \in Threads!Request :
          /\ messages[k] = [state |-> "unread", sender |-> p]
          /\ Threads!Goes(r, [Threads!Idle EXCEPT !.pc = "remove", !.op = "delete",
                                                  !.by = p, !.found = {k}])
    BY <1>3 DEF Threads!DeleteMessage
  <2> DEFINE m == [Threads!Idle EXCEPT !.pc = "remove", !.op = "delete",
                                       !.by = p, !.found = {k}]
  <2>2. Threads!Goes(r, m)
    BY <2>1
  <2>3. m \in Threads!Memory /\ m.pc = "remove" /\ m.found = {k}
    BY ThreadIdleType DEF Threads!Memory, Threads!Idle, Threads!Op
  <2> HIDE DEF m
  <2>4. messages[k].state = "unread" /\ Threads!Exists
    BY <2>1 DEF ThreadInv, ThreadFits, MessagesFit
  <2>5. QED
    BY <1>0, <1>1, <2>2, <2>3, <2>4, MessageStep DEF Remembers, Threads!Goes
<1>4. QED
  BY <1>2, <1>3

\* Who marks the thread looks for unread messages.
LEMMA FindsUnread ==
  ASSUME ThreadRequests \in Nat, ThreadInv, NEW r \in Threads!Request, Threads!FindUnread(r)
  PROVE  ThreadInv'
<1> DEFINE ms == Threads!Unread(Threads!Peer(threadReq[r].by))
           local == threadReq[r].local
           m == [threadReq[r] EXCEPT !.pc = "mload", !.found = ms,
                    !.local.unreadCount = Threads!Less(@, Threads!Cardinality(ms))]
<1>1. /\ Threads!TypeOK /\ threadReq[r] \in Threads!Memory /\ threadReq[r].pc = "find"
      /\ StepsFit(r) /\ CopyFits(r) /\ CopyBounded(r) /\ threadStale \in BOOLEAN
  BY DEF ThreadInv, ThreadFits, Threads!TypeOK, Threads!FindUnread, CountersBounded
<1>2. /\ UNCHANGED <<thread, messages, threadFailed, disturbed>>
      /\ threadStale' = (threadStale \/ ms \cap Threads!InFlight # {})
  BY DEF Threads!FindUnread
<1>3. threadStale' \in BOOLEAN /\ (~threadStale' => ~threadStale)
  BY <1>1, <1>2, Zenon
<1>4. \A k \in ms : messages[k].state = "unread"
  BY DEF Threads!Unread
<1>5. ms \in SUBSET Threads!Request
  BY DEF Threads!Unread
<1>6. CASE ms = {}
  <2>1. Remembers(r, Threads!Done)
    BY <1>6, ThreadIdleType DEF Threads!FindUnread, Threads!Goes, Remembers
  <2>2. QED
    BY <1>1, <1>2, <1>3, <2>1, ThreadIdleType, MessageStep
<1>7. CASE ms # {}
  <2>1. threadReq' = [threadReq EXCEPT ![r] = m]
    BY <1>7 DEF Threads!FindUnread, Threads!Goes
  <2>2. /\ local \in Threads!Thread /\ local.unreadCount \in Nat
        /\ threadReq[r].base \in Threads!Thread
    BY <1>1, MemoryType, ThreadType
  <2>3. Cardinality(ms) \in Nat /\ Threads!Cardinality(ms) = Cardinality(ms)
    BY <1>5, ThreadsFinite, ThreadCardinality
  <2> DEFINE less == Threads!Less(local.unreadCount, Threads!Cardinality(ms))
             l == [local EXCEPT !.unreadCount = less]
  <2>4. less \in Nat /\ less <= local.unreadCount
    BY <2>2, <2>3, LessType
  <2>5. less = Threads!Less(local.unreadCount, Cardinality(ms))
    BY <2>3
  <2> HIDE DEF less
  <2>6. /\ l \in Threads!Thread /\ l.createdBy = local.createdBy
        /\ l.messageCount = local.messageCount /\ l.unreadCount = less
    BY <2>2, <2>4 DEF Threads!Thread
  <2> HIDE DEF ms
  <2>7. /\ m \in Threads!Memory /\ m.pc = "mload" /\ m.found = ms /\ m.local = l
        /\ m.op = threadReq[r].op /\ m.by = threadReq[r].by /\ m.base = threadReq[r].base
    BY <1>1, <1>5, <2>6 DEF Threads!Memory, less
  <2> HIDE DEF m, l
  <2>8. Remembers(r, m) /\ threadReq'[r] = m
    BY <1>1, <2>1, <2>7, ThreadRemembers DEF Remembers
  <2>9. m.op = "markThread" /\ Threads!Exists /\ Copies(r) /\ ~Posts(r)
    BY <1>1, <2>7 DEF StepsFit, Copies, Posts
  <2>10. Threads!Exists' /\ ~Saves(r)' /\ ~Saves(r) /\ Copies(r)' /\ ~Posts(r)'
    BY <1>1, <1>2, <2>7, <2>8, <2>9 DEF Saves, Threads!Exists, Copies, Posts
  <2>11. StepsFit(r)'
    BY <2>7, <2>8, <2>9, <2>10 DEF StepsFit
  <2>12. MessagesFit(r)'
    <3>1. messages[r].state = "none"
      BY <1>1, NothingPosted
    <3>2. QED
      BY <1>2, <1>4, <2>7, <2>8, <2>10, <3>1 DEF MessagesFit, Pending
  <2>13. CopyFits(r)'
    BY <1>1, <1>2, <1>7, <2>5, <2>6, <2>7, <2>8, <2>9, <2>10 DEF CopyFits
  <2>14. CopyBounded(r)'
    <3>1. CreatorsPeer' = CreatorsPeer
      BY <1>2 DEF CreatorsPeer, Threads!Peer, Threads!Party
    <3>2. /\ Threads!Posted' = Threads!Posted /\ Threads!FromPeer' = Threads!FromPeer
      BY <1>2, <3>1 DEF Threads!Posted, Threads!FromPeer, CreatorsPeer
    <3>3. Cardinality(Threads!Posted) \in Nat /\ Cardinality(Threads!FromPeer) \in Nat
      BY ThreadCountsType
    <3>4. /\ local.messageCount <= Cardinality(Threads!Posted)
          /\ local.unreadCount <= Cardinality(Threads!FromPeer)
      BY <1>1, <2>2, <2>9, <3>3, ThreadType DEF CopyBounded
    <3>5. QED
      BY <2>2, <2>4, <2>6, <2>7, <2>8, <3>2, <3>3, <3>4, ThreadType DEF CopyBounded
  <2>15. ~threadStale' => CopyOrdered(r)'
    BY <1>2, <1>3, <2>7, <2>8, <2>9 DEF CopyOrdered, MovedOn, ThreadInv, CopiesOrdered
  <2>16. m.found \subseteq Threads!Unread(Threads!Peer(m.by))
    BY <2>7 DEF ms
  <2>17. ~threadStale' => m.found \cap Threads!InFlight = {}
    BY <1>2, <2>7, Zenon
  <2>18. QED
    BY <1>1, <1>2, <1>3, <2>7, <2>8, <2>10, <2>11, <2>12, <2>13, <2>14, <2>15, <2>16,
       <2>17, MemoryStep
<1>8. QED
  BY <1>6, <1>7

\* The first access of a save.
LEMMA LoadsThread ==
  ASSUME ThreadRequests \in Nat, ThreadInv, NEW r \in Threads!Request, Threads!ThreadLoad(r)
  PROVE  ThreadInv'
<1> DEFINE diff == Threads!Differing(threadReq[r].local, thread)
           m == [threadReq[r] EXCEPT !.pc = "write", !.diff = diff]
<1>1. /\ Threads!TypeOK /\ threadReq[r] \in Threads!Memory /\ threadReq[r].pc = "load"
      /\ StepsFit(r) /\ MessagesFit(r) /\ CopyFits(r) /\ CopyBounded(r)
      /\ threadStale \in BOOLEAN /\ thread \in Threads!Thread
  BY DEF ThreadInv, ThreadFits, Threads!TypeOK, Threads!ThreadLoad, CountersBounded
<1>2. /\ UNCHANGED <<thread, messages, threadStale, threadFailed, disturbed>>
      /\ threadReq' = [threadReq EXCEPT ![r] = m]
  BY DEF Threads!ThreadLoad, Threads!Goes
<1>3. /\ diff \in SUBSET {"createdBy", "status", "messageCount", "unreadCount"}
      /\ \A c \in {"messageCount", "unreadCount"} :
           c \in diff <=> threadReq[r].local[c] # thread[c]
  BY <1>1, ThreadType DEF Threads!Differing
<1> HIDE DEF diff
<1>4. /\ m \in Threads!Memory /\ m.pc = "write" /\ m.diff = diff
      /\ m.found = threadReq[r].found /\ m.local = threadReq[r].local
      /\ m.op = threadReq[r].op /\ m.by = threadReq[r].by /\ m.base = threadReq[r].base
  BY <1>1, <1>3 DEF Threads!Memory
<1> HIDE DEF m
<1>5. Remembers(r, m) /\ threadReq'[r] = m
  BY <1>1, <1>2, <1>4, ThreadRemembers DEF Remembers
<1>6. /\ Threads!Exists' = Threads!Exists /\ CreatorsPeer' = CreatorsPeer
      /\ Saves(r)' /\ Saves(r) /\ Posts(r)' = Posts(r) /\ Copies(r) /\ Copies(r)'
      /\ One(r)' = One(r)
  BY <1>1, <1>2, <1>4, <1>5
     DEF Threads!Exists, CreatorsPeer, Threads!Peer, Threads!Party, Saves, Posts, Copies, One
<1>7. StepsFit(r)'
  BY <1>1, <1>4, <1>5, <1>6 DEF StepsFit
<1>8. MessagesFit(r)'
  BY <1>1, <1>2, <1>4, <1>5, <1>6 DEF MessagesFit, Pending
<1>9. CopyFits(r)'
  BY <1>1, <1>2, <1>4, <1>5, <1>6 DEF CopyFits
<1>10. CopyBounded(r)'
  <2>1. Threads!Posted' = Threads!Posted /\ Threads!FromPeer' = Threads!FromPeer
    BY <1>2, <1>6 DEF Threads!Posted, Threads!FromPeer, CreatorsPeer
  <2>2. QED
    BY <1>1, <1>4, <1>5, <1>6, <2>1 DEF CopyBounded
<1>11. ~threadStale' => CopyOrdered(r)'
  <2>1. ~threadStale => MovedOn(r)
    BY <1>6 DEF ThreadInv, CopiesOrdered, CopyOrdered
  <2>2. MovedOn(r)' = MovedOn(r)
    BY <1>2, <1>4, <1>5 DEF MovedOn
  <2>3. Current(r)' => \A c \in {"messageCount", "unreadCount"} :
                         c \in m.diff <=> m.local[c] # m.base[c]
    BY <1>2, <1>3, <1>4, <1>5 DEF Current
  <2>4. QED
    BY <1>2, <1>5, <2>1, <2>2, <2>3 DEF CopyOrdered
<1>12. ~Finding(r)'
  BY <1>4, <1>5 DEF Finding
<1>13. QED
  BY <1>1, <1>2, <1>4, <1>5, <1>6, <1>7, <1>8, <1>9, <1>10, <1>11, <1>12, MemoryStep

\* The first access of the save of messages.
LEMMA LoadsMessages ==
  ASSUME ThreadRequests \in Nat, ThreadInv, NEW r \in Threads!Request, Threads!MessageLoad(r)
  PROVE  ThreadInv'
<1> DEFINE missing == {k \in threadReq[r].found : messages[k].state = "deleted"}
           m == [threadReq[r] EXCEPT !.pc = "mwrite", !.missing = missing]
<1>1. /\ Threads!TypeOK /\ threadReq[r] \in Threads!Memory /\ threadReq[r].pc = "mload"
      /\ StepsFit(r) /\ MessagesFit(r) /\ CopyFits(r) /\ CopyBounded(r)
      /\ threadStale \in BOOLEAN
  BY DEF ThreadInv, ThreadFits, Threads!TypeOK, Threads!MessageLoad, CountersBounded
<1>2. /\ UNCHANGED <<thread, messages, threadStale, threadFailed, disturbed>>
      /\ threadReq' = [threadReq EXCEPT ![r] = m]
  BY DEF Threads!MessageLoad, Threads!Goes
<1>3. missing \in SUBSET Threads!Request
  BY <1>1, MemoryType
<1> HIDE DEF missing
<1>4. /\ m \in Threads!Memory /\ m.pc = "mwrite"
      /\ m.found = threadReq[r].found /\ m.local = threadReq[r].local
      /\ m.op = threadReq[r].op /\ m.by = threadReq[r].by /\ m.base = threadReq[r].base
  BY <1>1, <1>3 DEF Threads!Memory
<1> HIDE DEF m
<1>5. Remembers(r, m) /\ threadReq'[r] = m
  BY <1>1, <1>2, <1>4, ThreadRemembers DEF Remembers
<1>6. /\ Threads!Exists' = Threads!Exists /\ CreatorsPeer' = CreatorsPeer
      /\ ~Saves(r)' /\ ~Saves(r) /\ Posts(r)' = Posts(r) /\ Copies(r)' = Copies(r)
      /\ One(r)' = One(r) /\ Finding(r)' = Finding(r)
  BY <1>1, <1>2, <1>4, <1>5
     DEF Threads!Exists, CreatorsPeer, Threads!Peer, Threads!Party, Saves, Posts, Copies, One,
         Finding
<1>7. StepsFit(r)'
  BY <1>1, <1>4, <1>5, <1>6 DEF StepsFit
<1>8. MessagesFit(r)'
  <2>1. messages[r].state = "none"
    BY <1>1, NothingPosted
  <2>2. QED
    BY <1>1, <1>2, <1>4, <1>5, <1>6, <2>1 DEF MessagesFit, Pending
<1>9. CopyFits(r)'
  BY <1>1, <1>2, <1>4, <1>5, <1>6 DEF CopyFits
<1>10. CopyBounded(r)'
  <2>1. Threads!Posted' = Threads!Posted /\ Threads!FromPeer' = Threads!FromPeer
    BY <1>2, <1>6 DEF Threads!Posted, Threads!FromPeer, CreatorsPeer
  <2>2. QED
    BY <1>1, <1>4, <1>5, <1>6, <2>1 DEF CopyBounded
<1>11. ~threadStale' => CopyOrdered(r)'
  BY <1>2, <1>4, <1>5, <1>6 DEF CopyOrdered, MovedOn, ThreadInv, CopiesOrdered
<1>12. QED
  BY <1>1, <1>2, <1>4, <1>5, <1>6, <1>7, <1>8, <1>9, <1>10, <1>11, MemoryStep

-----------------------------------------------------------------------------
(* Threads: the steps that change a table, or end half-way.                *)

\* What a step of request r leaves as it is in the others.
LEMMA OthersKept ==
  ASSUME Threads!TypeOK, NEW r \in Threads!Request, NEW m, Remembers(r, m),
         NEW q \in Threads!Request, q # r
  PROVE  /\ threadReq'[q] = threadReq[q]
         /\ Saves(q)' = Saves(q) /\ Posts(q)' = Posts(q) /\ Copies(q)' = Copies(q)
         /\ Finding(q)' = Finding(q) /\ Marks(q)' = Marks(q)
         /\ q \in Pending' <=> q \in Pending
         /\ q \in Threads!InFlight' <=> q \in Threads!InFlight
BY ThreadRemembers DEF Saves, Posts, Copies, Finding, Marks, Pending, Threads!InFlight

\* A step that leaves who created the thread.
LEMMA CreatorKept ==
  ASSUME thread'.createdBy = thread.createdBy
  PROVE  CreatorsPeer' = CreatorsPeer /\ Threads!Exists' = Threads!Exists
BY DEF CreatorsPeer, Threads!Exists, Threads!Peer, Threads!Party

\* A request that is done.
LEMMA Ended ==
  ASSUME NEW r \in Threads!Request, threadReq'[r] = Threads!Done
  PROVE  /\ StepsFit(r)' /\ CopyFits(r)' /\ CopyBounded(r)' /\ CopyOrdered(r)'
         /\ (messages[r].state # "none" => Threads!Exists)' => MessagesFit(r)'
         /\ ~Saves(r)' /\ ~Finding(r)' /\ ~Marks(r)' /\ r \notin Pending'
         /\ r \notin Threads!InFlight' /\ threadReq'[r].pc # "remove"
<1>1. threadReq'[r].pc = "done" /\ threadReq'[r].found = {}
  BY ThreadIdleType
<1>2. ~Copies(r)' /\ ~Saves(r)' /\ ~Finding(r)' /\ ~Marks(r)'
  BY <1>1 DEF Copies, Saves, Finding, Marks
<1>3. StepsFit(r)'
  BY <1>1, <1>2 DEF StepsFit
<1>4. r \notin Pending' /\ r \notin Threads!InFlight'
  BY <1>1, <1>2 DEF Pending, Threads!InFlight
<1>5. (messages[r].state # "none" => Threads!Exists)' => MessagesFit(r)'
  BY <1>1, <1>4 DEF MessagesFit
<1>6. CopyFits(r)' /\ CopyBounded(r)' /\ CopyOrdered(r)'
  BY <1>1, <1>2 DEF CopyFits, CopyBounded, CopyOrdered
<1>7. QED
  BY <1>1, <1>2, <1>3, <1>4, <1>5, <1>6

\* The thread is created: there was nothing about it before.
LEMMA InsertsThread ==
  ASSUME ThreadRequests \in Nat, ThreadInv, NEW r \in Threads!Request,
         NEW o \in {"createThread", "createMessage"}, NEW p \in Threads!Party,
         Threads!Insert(r, o, p)
  PROVE  ThreadInv'
<1> DEFINE m == IF o = "createMessage"
                THEN [Threads!Idle EXCEPT !.pc = "found", !.op = o, !.by = p]
                ELSE Threads!Done
<1>1. /\ Threads!TypeOK /\ ~Threads!Exists /\ threadReq[r].pc = "idle"
      /\ UNCHANGED <<messages, threadStale, threadFailed, disturbed>>
      /\ thread' = [Threads!NoThread EXCEPT !.createdBy = p]
      /\ threadReq' = [threadReq EXCEPT ![r] = m]
  BY DEF ThreadInv, ThreadFits, Threads!Insert, Threads!Goes, Threads!Arrives
<1>2. /\ m \in Threads!Memory /\ m.found = {}
      /\ m.pc = "done" \/ (m.pc = "found" /\ m.op = "createMessage")
  BY ThreadIdleType DEF Threads!Memory, Threads!Idle, Threads!Op
<1> HIDE DEF m
<1>3. Remembers(r, m)
  BY <1>1, <1>2 DEF Remembers
<1>4. threadReq' \in [Threads!Request -> Threads!Memory] /\ threadReq'[r] = m
  BY <1>1, <1>3, ThreadRemembers
<1>5. /\ thread' \in Threads!Thread /\ thread'.createdBy # "nobody"
      /\ thread'.messageCount = 0 /\ thread'.unreadCount = 0
  BY <1>1 DEF Threads!NoThread, Threads!Thread, Threads!Party
<1>6. \A q \in Threads!Request : ~Copies(q) /\ ~Saves(q) /\ threadReq[q].pc # "remove"
  BY <1>1 DEF ThreadInv, ThreadFits, StepsFit, Copies, Saves
<1>7. \A q \in Threads!Request : messages[q].state = "none"
  BY <1>1 DEF ThreadInv, ThreadFits, MessagesFit
<1>8. ~Copies(r)' /\ ~Saves(r)' /\ ~Finding(r)'
  BY <1>2, <1>4 DEF Copies, Saves, Finding
<1>9. \A q \in Threads!Request : /\ ~Copies(q)' /\ ~Saves(q)' /\ ~Finding(q)' /\ ~Marks(q)'
                                 /\ threadReq'[q].pc \notin {"remove", "write"}
  BY <1>1, <1>2, <1>3, <1>4, <1>6, <1>8, OthersKept DEF Copies, Saves, Marks, Finding
<1>10. Threads!Exists'
  BY <1>5 DEF Threads!Exists
<1>11. Pending' = {} /\ PeerPending' = {} /\ Marked' = {} /\ Threads!Posted' = {}
  BY <1>1, <1>7, <1>9 DEF Pending, PeerPending, Marked, Threads!Posted
<1>12. Threads!FromPeer' = {} /\ Threads!Unread(CreatorsPeer)' = {}
  BY <1>1, <1>7, <1>11 DEF Threads!FromPeer, Threads!Unread
<1>13. ThreadFits'
  <2>1. \A q \in Threads!Request : StepsFit(q)'
    BY <1>1, <1>2, <1>3, <1>4, <1>9, <1>10, OthersKept
       DEF StepsFit, ThreadInv, ThreadFits, Posts
  <2>2. \A q \in Threads!Request : MessagesFit(q)'
    BY <1>1, <1>2, <1>3, <1>4, <1>7, <1>11, OthersKept DEF MessagesFit, ThreadInv, ThreadFits
  <2>3. \A q \in Threads!Request : CopyFits(q)'
    BY <1>9 DEF CopyFits
  <2>4. Threads!TypeOK'
    BY <1>1, <1>4, <1>5 DEF Threads!TypeOK
  <2>5. QED
    BY <2>1, <2>2, <2>3, <2>4 DEF ThreadFits
<1>14. CountersBounded'
  BY <1>5, <1>9, <1>11, <1>12, FS_EmptySet DEF CountersBounded, CopyBounded
<1>15. CopiesOrdered'
  BY <1>9 DEF CopiesOrdered, CopyOrdered
<1>16. MessagesCounted' /\ MarksFit'
  BY <1>5, <1>9, <1>11, FS_EmptySet DEF MessagesCounted, MarksFit
<1>17. UnreadCounted'
  <2>1. Threads!Unread(CreatorsPeer)' \cup Marked' = {}
    BY <1>11, <1>12
  <2>2. Cardinality({}) = 0
    BY FS_EmptySet
  <2>3. /\ Cardinality(PeerPending') = 0
        /\ Cardinality(Threads!Unread(CreatorsPeer)' \cup Marked') = 0
    BY <1>11, <2>1, <2>2
  <2>4. thread'.unreadCount + Cardinality(PeerPending')
          = Cardinality(Threads!Unread(CreatorsPeer)' \cup Marked')
    BY <1>5, <2>3
  <2>5. \A q \in Threads!Request : ~Finding(q)'
    BY <1>9
  <2>6. QED
    BY <2>4, <2>5 DEF UnreadCounted
<1>18. RemovesUnread'
  BY <1>9 DEF RemovesUnread
<1>19. QED
  BY <1>13, <1>14, <1>15, <1>16, <1>17, <1>18 DEF ThreadInv

\* A request ends half-way: what is written stays written.
LEMMA FailsHalfway ==
  ASSUME ThreadRequests \in Nat, ThreadInv, NEW r \in Threads!Request, Threads!Fails(r)
  PROVE  ThreadInv'
<1>1. /\ Threads!TypeOK /\ threadFailed' = TRUE
      /\ UNCHANGED <<thread, messages, threadStale, disturbed>>
  BY DEF ThreadInv, ThreadFits, Threads!Fails
<1>2. Remembers(r, Threads!Done)
  BY ThreadIdleType DEF Threads!Fails, Threads!Goes, Remembers
<1>3. threadReq' \in [Threads!Request -> Threads!Memory] /\ threadReq'[r] = Threads!Done
  BY <1>1, <1>2, ThreadRemembers
<1>4. CreatorsPeer' = CreatorsPeer /\ Threads!Exists' = Threads!Exists
  BY <1>1, CreatorKept
<1>5. Threads!Posted' = Threads!Posted /\ Threads!FromPeer' = Threads!FromPeer
  BY <1>1, <1>4 DEF Threads!Posted, Threads!FromPeer, CreatorsPeer
<1>6. ASSUME NEW q \in Threads!Request
      PROVE  /\ StepsFit(q)' /\ MessagesFit(q)' /\ CopyFits(q)' /\ CopyBounded(q)'
             /\ ~threadStale => CopyOrdered(q)'
  <2>1. CASE q = r
    BY <1>1, <1>3, <1>4, <2>1, Ended DEF ThreadInv, ThreadFits, MessagesFit
  <2>2. CASE q # r
    <3>1. /\ StepsFit(q) /\ MessagesFit(q) /\ CopyFits(q) /\ CopyBounded(q)
          /\ ~threadStale => CopyOrdered(q)
      BY DEF ThreadInv, ThreadFits, CountersBounded, CopiesOrdered
    <3>2. /\ threadReq'[q] = threadReq[q]
          /\ Saves(q)' = Saves(q) /\ Posts(q)' = Posts(q) /\ Copies(q)' = Copies(q)
          /\ q \in Pending' <=> q \in Pending
      BY <1>1, <1>2, <2>2, OthersKept
    <3>3. One(q)' = One(q) /\ MovedOn(q)' = MovedOn(q) /\ Current(q)' = Current(q)
      BY <1>1, <1>4, <3>2 DEF One, MovedOn, Current
    <3>4. StepsFit(q)' /\ MessagesFit(q)'
      BY <1>1, <1>4, <3>1, <3>2 DEF StepsFit, MessagesFit
    <3>5. CopyFits(q)'
      BY <1>1, <3>1, <3>2, <3>3 DEF CopyFits
    <3>6. CopyBounded(q)'
      BY <1>1, <1>5, <3>1, <3>2, <3>3 DEF CopyBounded
    <3>7. ~threadStale => CopyOrdered(q)'
      BY <1>1, <3>1, <3>2, <3>3 DEF CopyOrdered
    <3>8. QED
      BY <3>4, <3>5, <3>6, <3>7
  <2>3. QED
    BY <2>1, <2>2
<1>7. Threads!TypeOK'
  BY <1>1, <1>3 DEF Threads!TypeOK
<1>8. ThreadFits' /\ CountersBounded' /\ CopiesOrdered'
  BY <1>1, <1>5, <1>6, <1>7
     DEF ThreadFits, CountersBounded, CopiesOrdered, ThreadInv
<1>9. MessagesCounted' /\ UnreadCounted'
  BY <1>1 DEF MessagesCounted, UnreadCounted, Undoomed
<1>10. MarksFit'
  <2>1. Pending' \subseteq Pending /\ Threads!InFlight' \subseteq Threads!InFlight
    BY <1>1, <1>2, <1>3, Ended, OthersKept DEF Pending, Threads!InFlight
  <2>2. \A q \in Threads!Request : Finding(q)' \/ Marks(q)' =>
          /\ q # r /\ threadReq'[q] = threadReq[q] /\ Finding(q)' = Finding(q)
          /\ Marks(q)' = Marks(q)
    BY <1>1, <1>2, <1>3, Ended, OthersKept
  <2>3. QED
    BY <1>1, <2>1, <2>2 DEF ThreadInv, MarksFit
<1>11. RemovesUnread'
  BY <1>1, <1>2, <1>3, Ended, OthersKept DEF ThreadInv, RemovesUnread
<1>12. QED
  BY <1>8, <1>9, <1>10, <1>11 DEF ThreadInv

\* Messages that change their state only are the same messages.
LEMMA SameMessages ==
  ASSUME thread' = thread,
         \A k \in Threads!Request :
           /\ messages'[k].sender = messages[k].sender
           /\ messages'[k].state = "none" <=> messages[k].state = "none"
  PROVE  Threads!Posted' = Threads!Posted /\ Threads!FromPeer' = Threads!FromPeer
<1>1. CreatorsPeer' = CreatorsPeer
  BY CreatorKept
<1>2. QED
  BY <1>1 DEF Threads!Posted, Threads!FromPeer, CreatorsPeer

\* What holds of the requests but r, when only r and the states of messages change.
LEMMA OthersFit ==
  ASSUME ThreadInv, NEW r \in Threads!Request, NEW m, Remembers(r, m), thread' = thread,
         \A k \in Threads!Request :
           /\ messages'[k].sender = messages[k].sender
           /\ messages'[k].state = "none" <=> messages[k].state = "none",
         NEW q \in Threads!Request, q # r
  PROVE  /\ StepsFit(q)' /\ MessagesFit(q)' /\ CopyFits(q)' /\ CopyBounded(q)'
         /\ ~threadStale => CopyOrdered(q)'
         /\ Current(q)' = Current(q)
<1>1. /\ StepsFit(q) /\ MessagesFit(q) /\ CopyFits(q) /\ CopyBounded(q)
      /\ ~threadStale => CopyOrdered(q)
  BY DEF ThreadInv, ThreadFits, CountersBounded, CopiesOrdered
<1>2. /\ threadReq'[q] = threadReq[q]
      /\ Saves(q)' = Saves(q) /\ Posts(q)' = Posts(q) /\ Copies(q)' = Copies(q)
      /\ q \in Pending' <=> q \in Pending
  BY OthersKept DEF ThreadInv, ThreadFits
<1>3. CreatorsPeer' = CreatorsPeer /\ Threads!Exists' = Threads!Exists
  BY CreatorKept
<1>4. One(q)' = One(q) /\ MovedOn(q)' = MovedOn(q) /\ Current(q)' = Current(q)
  BY <1>2, <1>3 DEF One, MovedOn, Current
<1>5. StepsFit(q)'
  BY <1>1, <1>2, <1>3 DEF StepsFit
<1>6. MessagesFit(q)'
  <2>1. \A k \in threadReq[q].found : k \in Threads!Request
    BY MemoryType DEF ThreadInv, ThreadFits, Threads!TypeOK
  <2>2. QED
    BY <1>1, <1>2, <1>3, <2>1 DEF MessagesFit
<1>7. CopyFits(q)'
  BY <1>1, <1>2, <1>4 DEF CopyFits
<1>8. CopyBounded(q)'
  BY <1>1, <1>2, <1>4, SameMessages DEF CopyBounded
<1>9. ~threadStale => CopyOrdered(q)'
  BY <1>1, <1>2, <1>4 DEF CopyOrdered
<1>10. QED
  BY <1>4, <1>5, <1>6, <1>7, <1>8, <1>9

\* A sender takes back messages.
LEMMA RemovesMessages ==
  ASSUME ThreadRequests \in Nat, ThreadInv, NEW r \in Threads!Request, Threads!Remove(r)
  PROVE  ThreadInv'
<1>1. /\ Threads!TypeOK /\ disturbed' = TRUE /\ UNCHANGED <<thread, threadStale, threadFailed>>
      /\ messages \in [Threads!Request -> Threads!Message]
      /\ messages' = [k \in Threads!Request |->
                        IF k \in threadReq[r].found
                        THEN [messages[k] EXCEPT !.state = "deleted"] ELSE messages[k]]
      /\ threadReq[r].pc = "remove" /\ MessagesFit(r) /\ StepsFit(r)
  BY DEF ThreadInv, ThreadFits, Threads!TypeOK, Threads!Remove
<1>2. Remembers(r, Threads!Done)
  BY ThreadIdleType DEF Threads!Remove, Threads!Goes, Remembers
<1>3. threadReq' \in [Threads!Request -> Threads!Memory] /\ threadReq'[r] = Threads!Done
  BY <1>1, <1>2, ThreadRemembers
<1>4. ASSUME NEW k \in Threads!Request
      PROVE  /\ messages'[k] \in Threads!Message
             /\ messages'[k].sender = messages[k].sender
             /\ messages'[k].state = "none" <=> messages[k].state = "none"
             /\ messages'[k].state \in {messages[k].state, "deleted"}
  BY <1>1 DEF Threads!Message, MessagesFit
<1>5. Threads!Posted' = Threads!Posted /\ Threads!FromPeer' = Threads!FromPeer
  BY <1>1, <1>4, SameMessages
<1>6. ASSUME NEW q \in Threads!Request
      PROVE  /\ StepsFit(q)' /\ MessagesFit(q)' /\ CopyFits(q)' /\ CopyBounded(q)'
             /\ ~threadStale => CopyOrdered(q)'
  <2>1. CASE q = r
    <3>1. messages[r].state = "none"
      BY <1>1, NothingPosted
    <3>2. QED
      BY <1>3, <1>4, <2>1, <3>1, Ended
  <2>2. CASE q # r
    BY <1>1, <1>2, <1>4, <2>2, OthersFit
  <2>3. QED
    BY <2>1, <2>2
<1>7. Threads!TypeOK'
  BY <1>1, <1>3, <1>4 DEF Threads!TypeOK
<1>8. ThreadFits' /\ CountersBounded' /\ CopiesOrdered'
  BY <1>1, <1>5, <1>6, <1>7
     DEF ThreadFits, CountersBounded, CopiesOrdered, ThreadInv
<1>9. MessagesCounted'
  <2>1. Pending' = Pending
    <3>1. r \notin Pending /\ r \notin Pending'
      BY <1>1, <1>3, Ended DEF Pending, Saves
    <3>2. QED
      BY <1>1, <1>2, <3>1, OthersKept DEF Pending
  <2>2. QED
    BY <1>1, <1>5, <2>1 DEF ThreadInv, MessagesCounted
<1>10. MarksFit' /\ UnreadCounted'
  BY <1>1 DEF MarksFit, UnreadCounted, Undoomed
<1>11. RemovesUnread'
  <2> SUFFICES ASSUME ~threadStale, NEW q \in Threads!Request, threadReq'[q].pc = "remove",
                      NEW k \in threadReq'[q].found
               PROVE  messages'[k].state \in {"unread", "deleted"}
    BY <1>1 DEF RemovesUnread
  <2>1. q # r /\ threadReq'[q] = threadReq[q]
    BY <1>1, <1>2, <1>3, Ended, OthersKept
  <2>2. k \in Threads!Request
    BY <2>1, MemoryType, <1>1 DEF Threads!TypeOK
  <2>3. messages[k].state \in {"unread", "deleted"}
    BY <2>1 DEF ThreadInv, RemovesUnread
  <2>4. QED
    BY <1>4, <2>2, <2>3
<1>12. QED
  BY <1>8, <1>9, <1>10, <1>11 DEF ThreadInv

\* Messages are marked as read.
LEMMA WritesMessages ==
  ASSUME ThreadRequests \in Nat, ThreadInv, NEW r \in Threads!Request,
         Threads!MessageWrite(r)
  PROVE  ThreadInv'
<1> DEFINE found == threadReq[r].found
           marks == threadReq[r].op = "markThread"
           m == IF marks THEN [threadReq[r] EXCEPT !.pc = "load"] ELSE Threads!Done
<1>1. /\ Threads!TypeOK /\ UNCHANGED <<thread, threadFailed>>
      /\ messages \in [Threads!Request -> Threads!Message]
      /\ threadReq[r] \in Threads!Memory /\ threadReq[r].pc = "mwrite"
      /\ StepsFit(r) /\ MessagesFit(r) /\ CopyFits(r) /\ CopyBounded(r)
      /\ found \in SUBSET Threads!Request
      /\ threadStale \in BOOLEAN /\ disturbed \in BOOLEAN
  BY MemoryType DEF ThreadInv, ThreadFits, Threads!TypeOK, Threads!MessageWrite, CountersBounded
<1>2. /\ messages' = [k \in Threads!Request |->
            IF k \in found /\ (messages[k].state # "deleted" \/ k \in threadReq[r].missing)
            THEN [messages[k] EXCEPT !.state = "read"] ELSE messages[k]]
      /\ threadReq' = [threadReq EXCEPT ![r] = m]
  BY DEF Threads!MessageWrite, Threads!Goes
<1>3. ~threadStale' => /\ ~threadStale /\ \A k \in found : messages[k].state # "deleted"
                       /\ \A q \in Threads!Request :
                            threadReq[q].pc = "remove" => threadReq[q].found \cap found = {}
  BY Zenon DEF Threads!MessageWrite
<1>4. ~disturbed' => ~disturbed /\ threadReq[r].op # "markMessage"
                     /\ threadReq[r].by = thread.createdBy
  BY Zenon DEF Threads!MessageWrite
<1>5. threadStale' \in BOOLEAN /\ disturbed' \in BOOLEAN
  BY <1>1, Zenon DEF Threads!MessageWrite
<1>6. /\ m \in Threads!Memory
      /\ marks => /\ m.pc = "load" /\ m.found = found /\ m.local = threadReq[r].local
                  /\ m.op = "markThread" /\ m.by = threadReq[r].by
                  /\ m.base = threadReq[r].base
      /\ ~marks => m = Threads!Done
  BY <1>1, ThreadIdleType DEF Threads!Memory
<1> HIDE DEF m
<1>7. Remembers(r, m)
  BY <1>2, <1>6 DEF Remembers
<1>8. threadReq' \in [Threads!Request -> Threads!Memory] /\ threadReq'[r] = m
  BY <1>1, <1>7, ThreadRemembers
<1>9. ASSUME NEW k \in Threads!Request
      PROVE  /\ messages'[k] \in Threads!Message
             /\ messages'[k].sender = messages[k].sender
             /\ messages'[k].state = "none" <=> messages[k].state = "none"
             /\ messages'[k].state \in {messages[k].state, "read"}
             /\ k \notin found => messages'[k] = messages[k]
             /\ k \in found /\ messages[k].state # "deleted" => messages'[k].state = "read"
  BY <1>1, <1>2 DEF Threads!Message, MessagesFit
<1>10. Threads!Posted' = Threads!Posted /\ Threads!FromPeer' = Threads!FromPeer
  BY <1>1, <1>9, SameMessages
<1>11. CreatorsPeer' = CreatorsPeer /\ Threads!Exists' = Threads!Exists
  BY <1>1, CreatorKept
<1>12. messages[r].state = "none" /\ ~Saves(r) /\ ~Marks(r)
  BY <1>1, NothingPosted DEF Marks
<1>13. marks => /\ Copies(r) /\ Copies(r)' /\ Saves(r)' /\ Marks(r)' /\ Finding(r)
                /\ ~Posts(r) /\ ~Posts(r)' /\ ~Finding(r)' /\ Current(r)' = Current(r)
                /\ MovedOn(r)' = MovedOn(r)
  BY <1>1, <1>6, <1>8 DEF Copies, Saves, Marks, Finding, Posts, Current, MovedOn
<1>14. ASSUME NEW q \in Threads!Request
       PROVE  /\ StepsFit(q)' /\ MessagesFit(q)' /\ CopyFits(q)' /\ CopyBounded(q)'
              /\ ~threadStale => CopyOrdered(q)'
  <2>1. CASE q # r
    BY <1>1, <1>7, <1>9, <2>1, OthersFit
  <2>2. CASE q = r /\ ~marks
    BY <1>6, <1>8, <1>9, <1>12, <2>2, Ended
  <2>3. CASE q = r /\ marks
    <3>1. StepsFit(r)'
      BY <1>1, <1>6, <1>8, <1>11, <1>13, <2>3 DEF StepsFit
    <3>2. MessagesFit(r)'
      BY <1>1, <1>6, <1>8, <1>9, <1>11, <1>12, <1>13, <2>3 DEF MessagesFit, Pending
    <3>3. CopyFits(r)'
      BY <1>1, <1>6, <1>8, <1>13, <2>3 DEF CopyFits
    <3>4. CopyBounded(r)'
      BY <1>1, <1>6, <1>8, <1>10, <1>13, <2>3 DEF CopyBounded
    <3>5. ~threadStale => CopyOrdered(r)'
      BY <1>6, <1>8, <1>13, <2>3 DEF CopyOrdered, ThreadInv, CopiesOrdered
    <3>6. QED
      BY <2>3, <3>1, <3>2, <3>3, <3>4, <3>5
  <2>4. QED
    BY <2>1, <2>2, <2>3
<1>15. Threads!TypeOK'
  <2>1. messages' \in [Threads!Request -> Threads!Message]
    BY <1>2, <1>9
  <2>2. QED
    BY <1>1, <1>5, <1>8, <2>1 DEF Threads!TypeOK
<1>16. ThreadFits' /\ CountersBounded' /\ CopiesOrdered'
  BY <1>1, <1>3, <1>10, <1>14, <1>15
     DEF ThreadFits, CountersBounded, CopiesOrdered, ThreadInv
<1>17. Pending' = Pending
  <2>1. r \notin Pending /\ r \notin Pending'
    BY <1>6, <1>8, <1>12, <1>13, Ended DEF Pending
  <2>2. QED
    BY <1>1, <1>7, <2>1, OthersKept DEF Pending
<1>18. MessagesCounted'
  BY <1>1, <1>3, <1>10, <1>17 DEF ThreadInv, MessagesCounted
<1>19. Threads!InFlight' \subseteq Threads!InFlight
  <2>1. r \in Threads!InFlight
    BY <1>1 DEF Threads!InFlight
  <2>2. QED
    BY <1>1, <1>7, <2>1, OthersKept DEF Threads!InFlight
<1>20. MarksFit'
  <2> SUFFICES ASSUME ~threadStale', ~disturbed' PROVE MarksFit'
    BY DEF MarksFit
  <2>1. /\ marks /\ threadReq[r].by = thread.createdBy
        /\ \A k \in found : messages'[k].state = "read"
    BY <1>1, <1>3, <1>4, <1>9 DEF StepsFit
  <2>2. /\ \A k \in Pending : messages[k].state = "unread"
        /\ \A q \in Threads!Request :
             Finding(q) \/ Marks(q) => threadReq[q].found \cap Threads!InFlight = {}
        /\ \A q \in Threads!Request : Marks(q) =>
             /\ threadReq[q].by = thread.createdBy
             /\ \A k \in threadReq[q].found : messages[k].state # "unread"
    BY <1>3, <1>4 DEF ThreadInv, MarksFit
  <2>3. \A k \in Pending : k \notin found
    BY <1>13, <2>1, <2>2 DEF Pending, Saves, Threads!InFlight
  <2>4. \A k \in Pending' : messages'[k].state = "unread"
    BY <1>9, <1>17, <2>2, <2>3 DEF Pending
  <2>5. \A q \in Threads!Request : Finding(q)' \/ Marks(q)' =>
          threadReq'[q].found \cap Threads!InFlight' = {}
    BY <1>1, <1>6, <1>7, <1>8, <1>13, <1>19, <2>1, <2>2, OthersKept
  <2>6. ASSUME NEW q \in Threads!Request, Marks(q)'
        PROVE  /\ threadReq'[q].by = thread.createdBy
               /\ \A k \in threadReq'[q].found : messages'[k].state # "unread"
    <3>1. CASE q = r
      BY <1>6, <1>8, <2>1, <3>1
    <3>2. CASE q # r
      <4>1. Marks(q) /\ threadReq'[q] = threadReq[q]
        BY <1>1, <1>7, <2>6, <3>2, OthersKept
      <4>2. threadReq[q].found \in SUBSET Threads!Request
        BY <1>1, MemoryType DEF Threads!TypeOK
      <4>3. QED
        BY <1>9, <2>2, <4>1, <4>2
    <3>3. QED
      BY <3>1, <3>2
  <2>7. QED
    BY <1>1, <2>4, <2>5, <2>6 DEF MarksFit
<1>21. UnreadCounted'
  <2> SUFFICES ASSUME Undoomed' PROVE UnreadCounted'
    BY DEF UnreadCounted
  <2>1. ~threadStale' /\ ~threadFailed /\ ~disturbed'
    BY <1>1 DEF Undoomed
  <2>2. /\ marks /\ threadReq[r].by = thread.createdBy
        /\ \A k \in found : messages'[k].state = "read"
    BY <1>1, <1>3, <1>4, <1>9, <2>1 DEF StepsFit
  <2>3. Undoomed /\ Current(r)
    <3>1. \A q \in Threads!Request : Saves(q) => Current(q)
      BY <1>1, <1>7, <1>9, <1>12, OthersKept, OthersFit DEF Undoomed
    <3>2. Current(r)
      BY <1>13, <2>2 DEF Undoomed
    <3>3. QED
      BY <1>3, <1>4, <1>11, <2>1, <3>1, <3>2 DEF Undoomed
  <2>4. /\ thread.unreadCount + Cardinality(PeerPending) =
             Cardinality(Threads!Unread(CreatorsPeer) \cup Marked)
        /\ \A q \in Threads!Request :
             Finding(q) /\ threadReq[q].by = thread.createdBy /\ Current(q) =>
               threadReq[q].found \subseteq Threads!Unread(CreatorsPeer) \cup Marked
    BY <2>3 DEF ThreadInv, UnreadCounted
  <2>5. PeerPending' = PeerPending
    BY <1>1, <1>7, <1>11, <1>12, <1>17, OthersKept DEF PeerPending, Pending
  <2>6. Threads!Unread(CreatorsPeer)' = Threads!Unread(CreatorsPeer) \ found
    <3>1. ASSUME NEW k \in Threads!Request
          PROVE  messages'[k] = [state |-> "unread", sender |-> CreatorsPeer] <=>
                   messages[k] = [state |-> "unread", sender |-> CreatorsPeer] /\ k \notin found
      BY <1>9, <2>2
    <3>2. QED
      BY <1>11, <3>1 DEF Threads!Unread
  <2>7. Marked' = Marked \cup found
    <3>1. \A q \in Threads!Request :
            Marks(q)' <=> (q = r \/ (q # r /\ Marks(q)))
      BY <1>1, <1>7, <1>13, <2>2, OthersKept
    <3>2. \A q \in Threads!Request : q # r => threadReq'[q] = threadReq[q]
      BY <1>1, <1>7, OthersKept
    <3>3. threadReq'[r].found = found
      BY <1>6, <1>8, <2>2
    <3>4. QED
      BY <1>1, <1>12, <3>1, <3>2, <3>3 DEF Marked
  <2>8. found \subseteq Threads!Unread(CreatorsPeer) \cup Marked
    BY <1>13, <2>2, <2>3, <2>4
  <2>9. Threads!Unread(CreatorsPeer)' \cup Marked' = Threads!Unread(CreatorsPeer) \cup Marked
    BY <2>6, <2>7, <2>8
  <2>10. ASSUME NEW q \in Threads!Request, Finding(q)', threadReq'[q].by = thread.createdBy,
                Current(q)'
         PROVE  threadReq'[q].found \subseteq Threads!Unread(CreatorsPeer) \cup Marked
    <3>1. q # r
      BY <1>13, <2>2, <2>10
    <3>2. threadReq'[q] = threadReq[q] /\ Finding(q) /\ Current(q)
      BY <1>1, <1>7, <1>9, <2>10, <3>1, OthersKept, OthersFit
    <3>3. QED
      BY <2>4, <2>10, <3>2
  <2>11. QED
    BY <1>1, <2>4, <2>5, <2>9, <2>10 DEF UnreadCounted
<1>22. RemovesUnread'
  <2> SUFFICES ASSUME ~threadStale', NEW q \in Threads!Request, threadReq'[q].pc = "remove",
                      NEW k \in threadReq'[q].found
               PROVE  messages'[k].state \in {"unread", "deleted"}
    BY DEF RemovesUnread
  <2>1. q # r /\ threadReq'[q] = threadReq[q]
    BY <1>1, <1>6, <1>7, <1>8, Ended, OthersKept
  <2>2. k \in Threads!Request
    BY <2>1, MemoryType, <1>1 DEF Threads!TypeOK
  <2>3. messages[k].state \in {"unread", "deleted"} /\ k \notin found
    BY <1>3, <2>1 DEF ThreadInv, RemovesUnread
  <2>4. QED
    BY <1>9, <2>2, <2>3
<1>23. QED
  BY <1>16, <1>18, <1>20, <1>21, <1>22 DEF ThreadInv

\* A message is posted.
LEMMA PostsMessage ==
  ASSUME ThreadRequests \in Nat, ThreadInv, NEW r \in Threads!Request,
         Threads!InsertMessage(r)
  PROVE  ThreadInv'
<1> DEFINE m == [threadReq[r] EXCEPT !.pc = "load"]
           message == [state |-> "unread", sender |-> threadReq[r].by]
           mine == threadReq[r].by = CreatorsPeer
<1>1. /\ Threads!TypeOK /\ UNCHANGED <<thread, threadStale, threadFailed, disturbed>>
      /\ messages \in [Threads!Request -> Threads!Message]
      /\ threadReq[r] \in Threads!Memory /\ threadReq[r].pc = "insert"
      /\ StepsFit(r) /\ MessagesFit(r) /\ CopyFits(r) /\ CopyBounded(r)
      /\ threadReq[r].by \in Threads!Party
      /\ messages' = [messages EXCEPT ![r] = message]
      /\ threadReq' = [threadReq EXCEPT ![r] = m]
  BY MemoryType
     DEF ThreadInv, ThreadFits, Threads!TypeOK, Threads!InsertMessage, CountersBounded,
         Threads!Goes
<1>2. /\ m \in Threads!Memory /\ m.pc = "load" /\ m.found = threadReq[r].found
      /\ m.local = threadReq[r].local /\ m.base = threadReq[r].base
      /\ m.op = threadReq[r].op /\ m.by = threadReq[r].by
  BY <1>1 DEF Threads!Memory
<1> HIDE DEF m
<1>3. Remembers(r, m) /\ threadReq' \in [Threads!Request -> Threads!Memory] /\ threadReq'[r] = m
  BY <1>1, <1>2, ThreadRemembers DEF Remembers
<1>4. message \in Threads!Message /\ message.state = "unread" /\ message.sender = threadReq[r].by
  BY <1>1 DEF Threads!Message
<1>5. messages[r].state = "none" /\ ~Saves(r) /\ r \notin Pending
  BY <1>1, NothingPosted
<1>6. messages'[r] = message /\ \A k \in Threads!Request : k # r => messages'[k] = messages[k]
  BY <1>1
<1> HIDE DEF message
<1>7. CreatorsPeer' = CreatorsPeer /\ Threads!Exists' = Threads!Exists
  BY <1>1, CreatorKept
<1>8. /\ Posts(r) /\ Posts(r)' /\ Saves(r)' /\ Copies(r) /\ Copies(r)' /\ ~Finding(r)'
      /\ ~Marks(r) /\ ~Marks(r)' /\ One(r)' = One(r) /\ MovedOn(r)' = MovedOn(r)
      /\ Threads!Exists /\ r \in Pending'
  BY <1>1, <1>2, <1>3, <1>5, <1>7
     DEF StepsFit, Posts, Saves, Copies, Finding, Marks, One, MovedOn, Pending
<1>9. Threads!Posted' = Threads!Posted \cup {r} /\ r \notin Threads!Posted
  BY <1>4, <1>5, <1>6 DEF Threads!Posted
<1>10. Threads!FromPeer' = IF mine THEN Threads!FromPeer \cup {r} ELSE Threads!FromPeer
  <2>1. /\ Threads!FromPeer = {k \in Threads!Posted : messages[k].sender = CreatorsPeer}
        /\ Threads!FromPeer' = {k \in Threads!Posted' : messages'[k].sender = CreatorsPeer'}
    BY DEF Threads!FromPeer, CreatorsPeer
  <2>2. messages'[r].sender = CreatorsPeer <=> mine
    BY <1>4, <1>6
  <2>3. \A k \in Threads!Posted : k # r /\ messages'[k] = messages[k]
    BY <1>6, <1>9 DEF Threads!Posted
  <2> HIDE DEF mine
  <2>4. CASE mine
    BY <1>7, <1>9, <2>1, <2>2, <2>3, <2>4
  <2>5. CASE ~mine
    BY <1>7, <1>9, <2>1, <2>2, <2>3, <2>5
  <2>6. QED
    BY <2>4, <2>5
<1>11. Pending' = Pending \cup {r}
  BY <1>1, <1>3, <1>8, OthersKept DEF Pending
<1>12. PeerPending' = (IF mine THEN PeerPending \cup {r} ELSE PeerPending) /\ r \notin PeerPending
  BY <1>1, <1>2, <1>3, <1>5, <1>7, <1>11, OthersKept DEF PeerPending, Pending
<1>13. Marked' = Marked /\ r \notin Marked
  <2>1. Marked' = Marked
    BY <1>1, <1>3, <1>8, OthersKept DEF Marked
  <2>2. QED
    BY <1>5, <2>1 DEF Marked, ThreadInv, ThreadFits, MessagesFit
<1>14. Threads!Unread(CreatorsPeer)' =
         (IF mine THEN Threads!Unread(CreatorsPeer) \cup {r} ELSE Threads!Unread(CreatorsPeer))
       /\ r \notin Threads!Unread(CreatorsPeer)
  <2>1. messages[r].state # "unread"
    BY <1>5
  <2>2. messages'[r] = [state |-> "unread", sender |-> threadReq[r].by]
    BY <1>6 DEF message
  <2>3. messages'[r] = [state |-> "unread", sender |-> CreatorsPeer] <=> mine
    BY <2>2
  <2>4. QED
    BY <1>6, <1>7, <2>1, <2>3 DEF Threads!Unread
<1>15. /\ Cardinality(Threads!Posted') = Cardinality(Threads!Posted) + 1
       /\ Cardinality(Pending') = Cardinality(Pending) + 1
       /\ Cardinality(Threads!FromPeer') = Cardinality(Threads!FromPeer) + One(r)
       /\ Cardinality(PeerPending') = Cardinality(PeerPending) + One(r)
       /\ Cardinality(Threads!Unread(CreatorsPeer)' \cup Marked') =
            Cardinality(Threads!Unread(CreatorsPeer) \cup Marked) + One(r)
  <2> DEFINE U == Threads!Unread(CreatorsPeer) \cup Marked
  <2>1. /\ IsFiniteSet(Threads!Posted) /\ IsFiniteSet(Pending) /\ IsFiniteSet(PeerPending)
        /\ IsFiniteSet(Threads!FromPeer) /\ IsFiniteSet(U)
    <3>1. /\ Threads!Posted \in SUBSET Threads!Request
          /\ Threads!FromPeer \in SUBSET Threads!Request
          /\ Pending \in SUBSET Threads!Request /\ PeerPending \in SUBSET Threads!Request
          /\ U \in SUBSET Threads!Request
      BY DEF Threads!Posted, Threads!FromPeer, Pending, PeerPending, Threads!Unread, Marked
    <3>2. QED
      BY <3>1, ThreadsFinite
  <2>2. r \notin Threads!FromPeer /\ r \notin U
    BY <1>9, <1>13, <1>14 DEF Threads!FromPeer
  <2>3. Threads!Unread(CreatorsPeer)' \cup Marked' = IF mine THEN U \cup {r} ELSE U
    BY <1>13, <1>14
  <2> HIDE DEF U
  <2>4. /\ Cardinality(Threads!FromPeer \cup {r}) = Cardinality(Threads!FromPeer) + 1
        /\ Cardinality(PeerPending \cup {r}) = Cardinality(PeerPending) + 1
        /\ Cardinality(U \cup {r}) = Cardinality(U) + 1
    BY <1>12, <2>1, <2>2, FS_AddElement
  <2>5. /\ Cardinality(Threads!FromPeer) \in Nat /\ Cardinality(PeerPending) \in Nat
        /\ Cardinality(U) \in Nat
    BY ThreadCountsType DEF U
  <2>6. /\ Cardinality(Threads!FromPeer') = Cardinality(Threads!FromPeer) + One(r)
        /\ Cardinality(PeerPending') = Cardinality(PeerPending) + One(r)
        /\ Cardinality(Threads!Unread(CreatorsPeer)' \cup Marked') = Cardinality(U) + One(r)
    <3>1. CASE mine
      <4>1. One(r) = 1
        BY <3>1 DEF One
      <4>2. /\ Threads!FromPeer' = Threads!FromPeer \cup {r}
            /\ PeerPending' = PeerPending \cup {r}
            /\ Threads!Unread(CreatorsPeer)' \cup Marked' = U \cup {r}
        BY <1>10, <1>12, <2>3, <3>1
      <4>3. QED
        BY <2>4, <4>1, <4>2
    <3>2. CASE ~mine
      <4>1. One(r) = 0
        BY <3>2 DEF One
      <4>2. /\ Threads!FromPeer' = Threads!FromPeer /\ PeerPending' = PeerPending
            /\ Threads!Unread(CreatorsPeer)' \cup Marked' = U
        BY <1>10, <1>12, <2>3, <3>2
      <4>3. QED
        BY <2>5, <4>1, <4>2
    <3>3. QED
      BY <3>1, <3>2
  <2>7. /\ Cardinality(Threads!Posted') = Cardinality(Threads!Posted) + 1
        /\ Cardinality(Pending') = Cardinality(Pending) + 1
    BY <1>5, <1>9, <1>11, <2>1, FS_AddElement
  <2>8. QED
    BY <2>6, <2>7 DEF U
<1>16. One(r) \in {0, 1}
  BY DEF One
<1>17. ASSUME NEW q \in Threads!Request, q # r
       PROVE  /\ threadReq'[q] = threadReq[q]
              /\ Saves(q)' = Saves(q) /\ Posts(q)' = Posts(q) /\ Copies(q)' = Copies(q)
              /\ q \in Pending' <=> q \in Pending
              /\ Finding(q)' = Finding(q) /\ Marks(q)' = Marks(q)
              /\ One(q)' = One(q) /\ MovedOn(q)' = MovedOn(q) /\ Current(q)' = Current(q)
  <2>1. /\ threadReq'[q] = threadReq[q]
        /\ Saves(q)' = Saves(q) /\ Posts(q)' = Posts(q) /\ Copies(q)' = Copies(q)
        /\ q \in Pending' <=> q \in Pending
        /\ Finding(q)' = Finding(q) /\ Marks(q)' = Marks(q)
    BY <1>1, <1>3, <1>17, OthersKept
  <2>2. One(q)' = One(q) /\ MovedOn(q)' = MovedOn(q) /\ Current(q)' = Current(q)
    BY <1>1, <1>7, <2>1 DEF One, MovedOn, Current
  <2>3. QED
    BY <2>1, <2>2
<1>18. \A k \in Threads!Request : messages[k].state # "none" => messages'[k] = messages[k]
  BY <1>5, <1>6
<1>19. ASSUME NEW q \in Threads!Request
       PROVE  StepsFit(q)' /\ MessagesFit(q)' /\ CopyFits(q)' /\ CopyBounded(q)'
  <2>1. /\ StepsFit(q) /\ MessagesFit(q) /\ CopyFits(q) /\ CopyBounded(q)
        /\ threadReq[q].found \in SUBSET Threads!Request
    BY <1>1, MemoryType
       DEF ThreadInv, ThreadFits, CountersBounded, Threads!TypeOK
  <2>2. /\ Cardinality(Threads!Posted) \in Nat /\ Cardinality(Threads!FromPeer) \in Nat
    BY ThreadCountsType
  <2>3. CASE q # r
    <3>1. StepsFit(q)'
      BY <1>7, <1>17, <2>1, <2>3 DEF StepsFit
    <3>2. MessagesFit(q)'
      BY <1>6, <1>7, <1>17, <1>18, <2>1, <2>3 DEF MessagesFit
    <3>3. CopyFits(q)'
      BY <1>1, <1>17, <2>1, <2>3 DEF CopyFits
    <3>4. CopyBounded(q)'
      <4>1. /\ threadReq[q].local.messageCount \in Nat /\ threadReq[q].local.unreadCount \in Nat
            /\ One(q) \in {0, 1}
        BY <1>1, MemoryType, ThreadType DEF Threads!TypeOK, One
      <4>2. QED
        BY <1>15, <1>16, <1>17, <2>1, <2>2, <2>3, <4>1 DEF CopyBounded
    <3>5. QED
      BY <3>1, <3>2, <3>3, <3>4
  <2>4. CASE q = r
    <3>1. StepsFit(r)'
      BY <1>2, <1>3, <1>7, <1>8 DEF StepsFit
    <3>2. MessagesFit(r)'
      BY <1>2, <1>3, <1>4, <1>6, <1>7, <1>8, <1>18, <2>1, <2>4 DEF MessagesFit
    <3>3. CopyFits(r)'
      BY <1>1, <1>2, <1>3, <1>8 DEF CopyFits, Posts
    <3>4. CopyBounded(r)'
      <4>1. threadReq[r].local.messageCount \in Nat /\ threadReq[r].local.unreadCount \in Nat
        BY <1>1, MemoryType, ThreadType
      <4>2. QED
        BY <1>1, <1>2, <1>3, <1>8, <1>15, <1>16, <2>1, <2>2, <2>4, <4>1 DEF CopyBounded
    <3>5. QED
      BY <2>4, <3>1, <3>2, <3>3, <3>4
  <2>5. QED
    BY <2>3, <2>4
<1>20. Threads!TypeOK'
  BY <1>1, <1>3, <1>4 DEF Threads!TypeOK
<1>21. CountersBounded'
  <2>1. /\ thread.messageCount \in Nat /\ thread.unreadCount \in Nat
        /\ Cardinality(Threads!Posted) \in Nat /\ Cardinality(Threads!FromPeer) \in Nat
    BY <1>1, ThreadType, ThreadCountsType DEF Threads!TypeOK
  <2>2. QED
    BY <1>1, <1>15, <1>16, <1>19, <2>1 DEF CountersBounded, ThreadInv
<1>22. CopiesOrdered'
  <2>1. ~threadStale => \A q \in Threads!Request : CopyOrdered(q)
    BY DEF ThreadInv, CopiesOrdered
  <2>2. ~threadStale => CopyOrdered(r)'
    BY <1>2, <1>3, <1>8, <2>1 DEF CopyOrdered
  <2>3. ~threadStale => \A q \in Threads!Request : q # r => CopyOrdered(q)'
    BY <1>17, <2>1 DEF CopyOrdered
  <2>4. QED
    BY <1>1, <2>2, <2>3 DEF CopiesOrdered
<1>23. MessagesCounted'
  <2>1. /\ thread.messageCount \in Nat /\ Cardinality(Threads!Posted) \in Nat
        /\ Cardinality(Pending) \in Nat
    BY <1>1, ThreadType, ThreadCountsType DEF Threads!TypeOK
  <2>2. QED
    BY <1>1, <1>15, <2>1 DEF MessagesCounted, ThreadInv
<1>24. MarksFit'
  <2> SUFFICES ASSUME ~threadStale, ~disturbed PROVE MarksFit'
    BY <1>1 DEF MarksFit
  <2>1. /\ \A k \in Pending : messages[k].state = "unread"
        /\ \A q \in Threads!Request :
             Finding(q) \/ Marks(q) => threadReq[q].found \cap Threads!InFlight = {}
        /\ \A q \in Threads!Request : Marks(q) =>
             /\ threadReq[q].by = thread.createdBy
             /\ \A k \in threadReq[q].found : messages[k].state # "unread"
    BY DEF ThreadInv, MarksFit
  <2>2. \A k \in Pending' : messages'[k].state = "unread"
    BY <1>4, <1>6, <1>11, <2>1 DEF Pending
  <2>3. Threads!InFlight' = Threads!InFlight
    BY <1>1, <1>2, <1>3, <1>17 DEF Threads!InFlight
  <2>4. \A q \in Threads!Request : Finding(q)' \/ Marks(q)' =>
          threadReq'[q].found \cap Threads!InFlight' = {}
    BY <1>8, <1>17, <2>1, <2>3
  <2>5. ASSUME NEW q \in Threads!Request, Marks(q)'
        PROVE  /\ threadReq'[q].by = thread.createdBy
               /\ \A k \in threadReq'[q].found : messages'[k].state # "unread"
    <3>1. q # r /\ threadReq'[q] = threadReq[q] /\ Marks(q)
      BY <1>8, <1>17, <2>5
    <3>2. \A k \in threadReq[q].found : k \in Threads!Request /\ messages[k].state # "none"
      BY <1>1, MemoryType DEF ThreadInv, ThreadFits, MessagesFit, Threads!TypeOK
    <3>3. QED
      BY <1>18, <2>1, <3>1, <3>2
  <2>6. QED
    BY <1>1, <2>2, <2>4, <2>5 DEF MarksFit
<1>25. UnreadCounted'
  <2> SUFFICES ASSUME Undoomed' PROVE UnreadCounted'
    BY DEF UnreadCounted
  <2>1. Undoomed
    BY <1>1, <1>5, <1>7, <1>17 DEF Undoomed
  <2>2. /\ thread.unreadCount + Cardinality(PeerPending) =
             Cardinality(Threads!Unread(CreatorsPeer) \cup Marked)
        /\ \A q \in Threads!Request :
             Finding(q) /\ threadReq[q].by = thread.createdBy /\ Current(q) =>
               threadReq[q].found \subseteq Threads!Unread(CreatorsPeer) \cup Marked
    BY <2>1 DEF ThreadInv, UnreadCounted
  <2>3. /\ thread.unreadCount \in Nat /\ Cardinality(PeerPending) \in Nat
        /\ Cardinality(Threads!Unread(CreatorsPeer) \cup Marked) \in Nat
    BY <1>1, ThreadType, ThreadCountsType DEF Threads!TypeOK
  <2>4. thread.unreadCount + Cardinality(PeerPending') =
          Cardinality(Threads!Unread(CreatorsPeer)' \cup Marked')
    BY <1>15, <1>16, <2>2, <2>3
  <2>5. ASSUME NEW q \in Threads!Request, Finding(q)', threadReq'[q].by = thread.createdBy,
               Current(q)'
        PROVE  threadReq'[q].found \subseteq Threads!Unread(CreatorsPeer)' \cup Marked'
    BY <1>8, <1>13, <1>14, <1>17, <2>2, <2>5
  <2>6. QED
    BY <1>1, <2>4, <2>5 DEF UnreadCounted
<1>26. RemovesUnread'
  <2> SUFFICES ASSUME ~threadStale, NEW q \in Threads!Request, threadReq'[q].pc = "remove",
                      NEW k \in threadReq'[q].found
               PROVE  messages'[k].state \in {"unread", "deleted"}
    BY <1>1 DEF RemovesUnread
  <2>1. q # r /\ threadReq'[q] = threadReq[q]
    BY <1>2, <1>3, <1>17
  <2>2. k \in Threads!Request
    BY <2>1, MemoryType, <1>1 DEF Threads!TypeOK
  <2>3. messages[k].state \in {"unread", "deleted"}
    BY <2>1 DEF ThreadInv, RemovesUnread
  <2>4. QED
    BY <1>18, <2>2, <2>3
<1>27. QED
  BY <1>19, <1>20, <1>21, <1>22, <1>23, <1>24, <1>25, <1>26 DEF ThreadInv, ThreadFits

\* What a save that is not of a stale copy does to the counters.
LEMMA FreshSave ==
  ASSUME ThreadRequests \in Nat, ThreadInv, NEW r \in Threads!Request,
         Threads!ThreadWrite(r), ~threadStale'
  PROVE  /\ thread = threadReq[r].base /\ Current(r) /\ ~threadStale
         /\ thread'.messageCount = thread.messageCount + (IF Posts(r) THEN 1 ELSE 0)
         /\ Posts(r) => thread'.unreadCount = thread.unreadCount + One(r)
         /\ threadReq[r].op \in {"close", "reopen"} => thread'.unreadCount = thread.unreadCount
         /\ threadReq[r].op = "markThread" =>
              /\ threadReq[r].found # {}
              /\ thread'.unreadCount =
                   Threads!Less(thread.unreadCount, Cardinality(threadReq[r].found))
<1>1. /\ thread = threadReq[r].base /\ ~threadStale /\ threadReq[r].pc = "write"
      /\ thread' = Threads!Patched(thread, threadReq[r].local, threadReq[r].diff)
  BY Zenon DEF Threads!ThreadWrite
<1>2. thread \in Threads!Thread /\ threadReq[r].local \in Threads!Thread
  BY MemoryType DEF ThreadInv, ThreadFits, Threads!TypeOK
<1>3. Current(r)
  BY <1>1 DEF Current
<1>4. \A c \in {"messageCount", "unreadCount"} :
        c \in threadReq[r].diff <=> threadReq[r].local[c] # thread[c]
  BY <1>1, <1>3 DEF ThreadInv, CopiesOrdered, CopyOrdered
<1>5. /\ thread'.messageCount = threadReq[r].local.messageCount
      /\ thread'.unreadCount = threadReq[r].local.unreadCount
  BY <1>1, <1>2, <1>4, ThreadPatched
<1>6. CopyFits(r) /\ Copies(r)
  BY <1>1 DEF ThreadInv, ThreadFits, Copies
<1>7. QED
  BY <1>1, <1>3, <1>5, <1>6 DEF CopyFits

\* As long as no stale copy is saved, the counters move on and never come back.
LEMMA MovesOn ==
  ASSUME ThreadRequests \in Nat, ThreadInv, NEW r \in Threads!Request,
         Threads!ThreadWrite(r), ~threadStale',
         NEW q \in Threads!Request, q # r, Copies(q)
  PROVE  /\ MovedOn(q)'
         /\ Current(q)' => /\ Current(q) /\ thread'.unreadCount = thread.unreadCount
                           /\ thread'.messageCount = thread.messageCount
<1>1. /\ threadReq'[q] = threadReq[q] /\ MovedOn(q) /\ StepsFit(r)
      /\ thread.messageCount \in Nat /\ thread.unreadCount \in Nat
      /\ threadReq[q].base.messageCount \in Nat /\ threadReq[q].base.unreadCount \in Nat
      /\ threadReq[r].found \in SUBSET Threads!Request
  <2>1. threadReq'[q] = threadReq[q]
    BY DEF Threads!ThreadWrite, Threads!Goes, ThreadInv, ThreadFits, Threads!TypeOK
  <2>2. MovedOn(q)
    BY FreshSave DEF ThreadInv, CopiesOrdered, CopyOrdered
  <2>3. QED
    BY <2>1, <2>2, MemoryType, ThreadType DEF ThreadInv, ThreadFits, Threads!TypeOK
<1>2. /\ thread'.messageCount \in Nat /\ thread'.unreadCount \in Nat
      /\ thread.messageCount <= thread'.messageCount
      /\ thread'.messageCount = thread.messageCount =>
           thread'.unreadCount <= thread.unreadCount
  <2>1. CASE Posts(r)
    BY <1>1, <2>1, FreshSave DEF One
  <2>2. CASE threadReq[r].op \in {"close", "reopen"}
    BY <1>1, <2>2, FreshSave DEF Posts
  <2>3. CASE threadReq[r].op = "markThread"
    <3>1. Cardinality(threadReq[r].found) \in Nat
      BY <1>1, ThreadsFinite
    <3>2. QED
      <4>1. /\ thread'.messageCount = thread.messageCount
            /\ thread'.unreadCount =
                 Threads!Less(thread.unreadCount, Cardinality(threadReq[r].found))
        BY <1>1, <2>3, FreshSave DEF Posts
      <4>2. thread'.unreadCount \in Nat /\ thread'.unreadCount <= thread.unreadCount
        BY <1>1, <3>1, <4>1 DEF Threads!Less
      <4>3. QED
        BY <1>1, <4>1, <4>2
  <2>4. QED
    BY <1>1, <2>1, <2>2, <2>3 DEF StepsFit, Saves, Threads!ThreadWrite
<1>3. MovedOn(q)'
  BY <1>1, <1>2 DEF MovedOn
<1>4. Current(q)' => /\ Current(q) /\ thread'.unreadCount = thread.unreadCount
                     /\ thread'.messageCount = thread.messageCount
  BY <1>1, <1>2 DEF MovedOn, Current
<1>5. QED
  BY <1>3, <1>4

\* The save of a thread that was marked as read takes off what it has marked.
LEMMA MarksTakenOff ==
  ASSUME ThreadRequests \in Nat, ThreadInv, Undoomed, NEW r \in Threads!Request, Marks(r)
  PROVE  LET n == Cardinality(threadReq[r].found)
         IN /\ n \in Nat /\ n <= thread.unreadCount
            /\ PeerPending = {} /\ Marked = threadReq[r].found =>
                 thread.unreadCount - n = Cardinality(Threads!Unread(CreatorsPeer))
<1> DEFINE found == threadReq[r].found
           unread == Threads!Unread(CreatorsPeer)
<1>1. /\ thread.unreadCount + Cardinality(PeerPending) = Cardinality(unread \cup Marked)
      /\ thread.unreadCount \in Nat
  BY ThreadType DEF ThreadInv, UnreadCounted, ThreadFits, Threads!TypeOK
<1>2. /\ \A k \in Pending : messages[k].state = "unread"
      /\ found \cap Threads!InFlight = {}
      /\ \A k \in found : messages[k].state # "unread"
  BY DEF ThreadInv, MarksFit, Undoomed
<1>3. /\ found \in SUBSET Threads!Request /\ unread \in SUBSET Threads!Request
      /\ PeerPending \in SUBSET Threads!Request /\ Marked \in SUBSET Threads!Request
  BY MemoryType
     DEF ThreadInv, ThreadFits, Threads!TypeOK, Threads!Unread, PeerPending, Pending, Marked
<1>4. PeerPending \subseteq unread
  BY <1>2, <1>3 DEF ThreadInv, ThreadFits, MessagesFit, PeerPending, Threads!Unread,
                    Threads!TypeOK, Threads!Message
<1>5. found \subseteq Marked
  BY <1>3 DEF Marked
<1>6. found \cap PeerPending = {} /\ unread \cap found = {}
  BY <1>2 DEF PeerPending, Pending, Saves, Threads!InFlight, Threads!Unread
<1> HIDE DEF found, unread
<1>7. /\ IsFiniteSet(found) /\ IsFiniteSet(unread) /\ IsFiniteSet(PeerPending)
      /\ IsFiniteSet(unread \cup Marked)
      /\ Cardinality(found) \in Nat /\ Cardinality(unread) \in Nat
      /\ Cardinality(PeerPending) \in Nat /\ Cardinality(unread \cup Marked) \in Nat
  <2>1. unread \cup Marked \in SUBSET Threads!Request
    BY <1>3
  <2>2. QED
    BY <1>3, <2>1, ThreadsFinite
<1>8. Cardinality(found \cup PeerPending) = Cardinality(found) + Cardinality(PeerPending)
  BY <1>6, <1>7, DisjointUnion
<1>9. Cardinality(unread \cup found) = Cardinality(unread) + Cardinality(found)
  BY <1>6, <1>7, DisjointUnion
<1>10. Cardinality(found \cup PeerPending) <= Cardinality(unread \cup Marked)
  <2>1. found \cup PeerPending \in SUBSET (unread \cup Marked)
    BY <1>4, <1>5
  <2>2. QED
    BY <1>7, <2>1, FS_Subset
<1>11. Cardinality(found) <= thread.unreadCount
  BY <1>1, <1>7, <1>8, <1>10
<1>12. ASSUME PeerPending = {}, Marked = found
       PROVE  thread.unreadCount - Cardinality(found) = Cardinality(unread)
  <2>1. Cardinality(PeerPending) = 0
    BY <1>12, FS_EmptySet
  <2>2. QED
    BY <1>1, <1>7, <1>9, <1>12, <2>1
<1>13. QED
  BY <1>7, <1>11, <1>12 DEF found, unread

\* A copy of the thread is saved.
LEMMA WritesThread ==
  ASSUME ThreadRequests \in Nat, ThreadInv, NEW r \in Threads!Request,
         Threads!ThreadWrite(r)
  PROVE  ThreadInv'
<1>1. /\ Threads!TypeOK /\ UNCHANGED <<messages, threadFailed, disturbed>>
      /\ threadReq[r] \in Threads!Memory /\ threadReq[r].pc = "write"
      /\ threadReq[r].local \in Threads!Thread /\ thread \in Threads!Thread
      /\ StepsFit(r) /\ MessagesFit(r) /\ CopyFits(r) /\ CopyBounded(r)
      /\ thread' = Threads!Patched(thread, threadReq[r].local, threadReq[r].diff)
      /\ threadStale \in BOOLEAN
  BY MemoryType
     DEF ThreadInv, ThreadFits, Threads!TypeOK, Threads!ThreadWrite, CountersBounded
<1>2. threadStale' \in BOOLEAN /\ (~threadStale' => ~threadStale)
  BY <1>1, Zenon DEF Threads!ThreadWrite
<1>3. Remembers(r, Threads!Done)
  BY ThreadIdleType DEF Threads!ThreadWrite, Threads!Goes, Remembers
<1>4. threadReq' \in [Threads!Request -> Threads!Memory] /\ threadReq'[r] = Threads!Done
  BY <1>1, <1>3, ThreadRemembers
<1>5. Copies(r) /\ Saves(r)
  BY <1>1 DEF Copies, Saves
<1>6. /\ thread' \in Threads!Thread /\ thread'.createdBy = thread.createdBy
      /\ thread'.messageCount \in {thread.messageCount, threadReq[r].local.messageCount}
      /\ thread'.unreadCount \in {thread.unreadCount, threadReq[r].local.unreadCount}
  BY <1>1, <1>5, ThreadPatched DEF CopyFits
<1>7. CreatorsPeer' = CreatorsPeer /\ Threads!Exists' = Threads!Exists
  BY <1>6, CreatorKept
<1>8. /\ Threads!Posted' = Threads!Posted /\ Threads!FromPeer' = Threads!FromPeer
      /\ Threads!Unread(CreatorsPeer)' = Threads!Unread(CreatorsPeer)
  BY <1>1, <1>7 DEF Threads!Posted, Threads!FromPeer, Threads!Unread, CreatorsPeer
<1>9. ASSUME NEW q \in Threads!Request, q # r
      PROVE  /\ threadReq'[q] = threadReq[q]
             /\ Saves(q)' = Saves(q) /\ Posts(q)' = Posts(q) /\ Copies(q)' = Copies(q)
             /\ Finding(q)' = Finding(q) /\ Marks(q)' = Marks(q)
             /\ q \in Pending' <=> q \in Pending
             /\ q \in Threads!InFlight' <=> q \in Threads!InFlight
             /\ One(q)' = One(q)
  <2>1. /\ threadReq'[q] = threadReq[q]
        /\ Saves(q)' = Saves(q) /\ Posts(q)' = Posts(q) /\ Copies(q)' = Copies(q)
        /\ Finding(q)' = Finding(q) /\ Marks(q)' = Marks(q)
        /\ q \in Pending' <=> q \in Pending
        /\ q \in Threads!InFlight' <=> q \in Threads!InFlight
    BY <1>1, <1>3, <1>9, OthersKept
  <2>2. QED
    BY <1>7, <2>1 DEF One
<1>10. ASSUME NEW q \in Threads!Request
       PROVE  StepsFit(q)' /\ MessagesFit(q)' /\ CopyFits(q)' /\ CopyBounded(q)'
  <2>1. CASE q = r
    BY <1>1, <1>4, <1>7, <2>1, Ended DEF MessagesFit
  <2>2. CASE q # r
    <3>1. StepsFit(q) /\ MessagesFit(q) /\ CopyFits(q) /\ CopyBounded(q)
      BY DEF ThreadInv, ThreadFits, CountersBounded
    <3>2. StepsFit(q)'
      BY <1>7, <1>9, <2>2, <3>1 DEF StepsFit
    <3>3. MessagesFit(q)'
      BY <1>1, <1>7, <1>9, <2>2, <3>1 DEF MessagesFit
    <3>4. CopyFits(q)'
      BY <1>6, <1>9, <2>2, <3>1 DEF CopyFits
    <3>5. CopyBounded(q)'
      BY <1>8, <1>9, <2>2, <3>1 DEF CopyBounded
    <3>6. QED
      BY <3>2, <3>3, <3>4, <3>5
  <2>3. QED
    BY <2>1, <2>2
<1>11. ThreadFits'
  BY <1>1, <1>2, <1>4, <1>6, <1>10 DEF ThreadFits, Threads!TypeOK
<1>12. CountersBounded'
  <2>1. /\ Cardinality(Threads!Posted) \in Nat /\ Cardinality(Threads!FromPeer) \in Nat
        /\ threadReq[r].local.messageCount \in Nat /\ threadReq[r].local.unreadCount \in Nat
    BY <1>1, ThreadType, ThreadCountsType
  <2>2. /\ threadReq[r].local.messageCount <= Cardinality(Threads!Posted)
        /\ threadReq[r].local.unreadCount <= Cardinality(Threads!FromPeer)
    BY <1>1, <1>5, <2>1 DEF CopyBounded
  <2>3. QED
    BY <1>6, <1>8, <1>10, <2>2 DEF CountersBounded, ThreadInv
<1>13. CopiesOrdered'
  <2> SUFFICES ASSUME ~threadStale', NEW q \in Threads!Request PROVE CopyOrdered(q)'
    BY DEF CopiesOrdered
  <2>1. CASE q = r
    BY <1>4, <2>1, Ended
  <2>2. CASE q # r
    <3>1. CopyOrdered(q)
      BY <1>2 DEF ThreadInv, CopiesOrdered
    <3>2. Copies(q) => MovedOn(q)' /\ (Current(q)' => Current(q))
      BY <2>2, MovesOn
    <3>3. threadReq[q].pc = "write" => Copies(q)
      BY DEF Copies
    <3>4. QED
      BY <1>9, <2>2, <3>1, <3>2, <3>3 DEF CopyOrdered
  <2>3. QED
    BY <2>1, <2>2
<1>14. Pending' = Pending \ {r} /\ PeerPending' = PeerPending \ {r}
  <2>1. Pending' = Pending \ {r}
    BY <1>4, <1>9, Ended DEF Pending
  <2>2. QED
    BY <1>7, <1>9, <2>1 DEF PeerPending, Pending
<1>15. /\ r \in Pending <=> Posts(r)
       /\ r \in PeerPending <=> Posts(r) /\ threadReq[r].by = CreatorsPeer
  BY <1>5 DEF Pending, PeerPending
<1>16. /\ thread.messageCount \in Nat /\ thread.unreadCount \in Nat
       /\ Cardinality(Threads!Posted) \in Nat
       /\ Cardinality(Pending) \in Nat /\ Cardinality(PeerPending) \in Nat
       /\ IsFiniteSet(Pending) /\ IsFiniteSet(PeerPending)
  <2>1. Pending \in SUBSET Threads!Request /\ PeerPending \in SUBSET Threads!Request
    BY DEF Pending, PeerPending
  <2>2. QED
    BY <1>1, <2>1, ThreadType, ThreadCountsType, ThreadsFinite
<1>17. MessagesCounted'
  <2> SUFFICES ASSUME ~threadStale', ~threadFailed'
               PROVE  thread'.messageCount + Cardinality(Pending') = Cardinality(Threads!Posted')
    BY DEF MessagesCounted
  <2>1. thread.messageCount + Cardinality(Pending) = Cardinality(Threads!Posted)
    BY <1>1, <1>2 DEF ThreadInv, MessagesCounted
  <2>2. Cardinality(Pending \ {r}) = IF r \in Pending THEN Cardinality(Pending) - 1
                                     ELSE Cardinality(Pending)
    BY <1>16, FS_RemoveElement
  <2>3. thread'.messageCount = thread.messageCount + (IF Posts(r) THEN 1 ELSE 0)
    BY FreshSave
  <2>4. QED
    BY <1>8, <1>14, <1>15, <1>16, <2>1, <2>2, <2>3
<1>18. MarksFit'
  <2> SUFFICES ASSUME ~threadStale', ~disturbed' PROVE MarksFit'
    BY DEF MarksFit
  <2>1. /\ \A k \in Pending : messages[k].state = "unread"
        /\ \A q \in Threads!Request :
             Finding(q) \/ Marks(q) => threadReq[q].found \cap Threads!InFlight = {}
        /\ \A q \in Threads!Request : Marks(q) =>
             /\ threadReq[q].by = thread.createdBy
             /\ \A k \in threadReq[q].found : messages[k].state # "unread"
    BY <1>1, <1>2 DEF ThreadInv, MarksFit
  <2>2. Threads!InFlight' \subseteq Threads!InFlight
    BY <1>4, <1>9, Ended DEF Threads!InFlight
  <2>3. \A q \in Threads!Request : Finding(q)' \/ Marks(q)' => q # r
    BY <1>4, Ended
  <2>4. \A q \in Threads!Request : Finding(q)' \/ Marks(q)' =>
          threadReq'[q].found \cap Threads!InFlight' = {}
    BY <1>9, <2>1, <2>2, <2>3
  <2>5. \A q \in Threads!Request : Marks(q)' =>
          /\ threadReq'[q].by = thread'.createdBy
          /\ \A k \in threadReq'[q].found : messages'[k].state # "unread"
    BY <1>1, <1>6, <1>9, <2>1, <2>3
  <2>6. \A k \in Pending' : messages'[k].state = "unread"
    BY <1>1, <1>14, <2>1
  <2>7. QED
    BY <2>4, <2>5, <2>6 DEF MarksFit
<1>19. UnreadCounted'
  <2> SUFFICES ASSUME Undoomed' PROVE UnreadCounted'
    BY DEF UnreadCounted
  <2>0. ~threadStale'
    BY DEF Undoomed
  <2> DEFINE found == threadReq[r].found
             unread == Threads!Unread(CreatorsPeer)
  <2>1. ASSUME NEW q \in Threads!Request, q # r, Saves(q)
        PROVE  Current(q) /\ thread'.unreadCount = thread.unreadCount
                          /\ thread'.messageCount = thread.messageCount
    <3>1. Current(q)'
      BY <1>9, <2>1 DEF Undoomed
    <3>2. Copies(q)
      BY <2>1 DEF Saves, Copies
    <3>3. QED
      BY <2>0, <2>1, <3>1, <3>2, MovesOn
  <2>2. Undoomed
    BY <1>1, <1>2, <1>7, <2>0, <2>1, FreshSave DEF Undoomed
  <2>3. /\ thread.unreadCount + Cardinality(PeerPending) = Cardinality(unread \cup Marked)
        /\ \A q \in Threads!Request :
             Finding(q) /\ threadReq[q].by = thread.createdBy /\ Current(q) =>
               threadReq[q].found \subseteq unread \cup Marked
    BY <2>2 DEF ThreadInv, UnreadCounted
  <2>4. ASSUME NEW q \in Threads!Request, Finding(q)', threadReq'[q].by = thread'.createdBy,
               Current(q)'
        PROVE  /\ threadReq'[q].found \subseteq unread \cup Marked
               /\ thread'.unreadCount = thread.unreadCount
    <3>1. q # r
      BY <1>4, <2>4, Ended
    <3>2. Copies(q) /\ Finding(q) /\ threadReq'[q] = threadReq[q]
      BY <1>9, <2>4, <3>1 DEF Finding, Copies
    <3>3. Current(q) /\ thread'.unreadCount = thread.unreadCount
      BY <2>0, <2>4, <3>1, <3>2, MovesOn
    <3>4. QED
      BY <1>6, <2>3, <2>4, <3>2, <3>3
  <2>5. CASE ~Marks(r)
    <3>1. Marked' = Marked
      BY <1>4, <1>9, <2>5, Ended DEF Marked
    <3>2. Cardinality(PeerPending \ {r}) =
            IF r \in PeerPending THEN Cardinality(PeerPending) - 1 ELSE Cardinality(PeerPending)
      BY <1>16, FS_RemoveElement
    <3>3. thread'.unreadCount =
            thread.unreadCount + (IF r \in PeerPending THEN 1 ELSE 0)
      BY <1>1, <1>5, <1>15, <1>16, <2>0, <2>5, FreshSave DEF StepsFit, Marks, One
    <3>4. thread'.unreadCount + Cardinality(PeerPending') = Cardinality(unread \cup Marked)
      BY <1>14, <1>16, <2>3, <3>2, <3>3
    <3>5. QED
      BY <1>8, <2>4, <3>1, <3>4 DEF UnreadCounted
  <2>6. CASE Marks(r)
    <3>1. /\ Cardinality(found) \in Nat /\ Cardinality(found) <= thread.unreadCount
          /\ PeerPending = {} /\ Marked = found =>
               thread.unreadCount - Cardinality(found) = Cardinality(unread)
      BY <2>2, <2>6, MarksTakenOff
    <3>2. found # {} /\ thread'.unreadCount = Threads!Less(thread.unreadCount, Cardinality(found))
      BY <2>0, <2>6, FreshSave DEF Marks
    <3>3. Cardinality(found) > 0
      <4>1. found \in SUBSET Threads!Request
        BY <1>1, MemoryType
      <4>2. QED
        BY <3>1, <3>2, <4>1, ThreadsFinite
    <3>4. thread'.unreadCount = thread.unreadCount - Cardinality(found)
      BY <1>16, <3>1, <3>2, LessType
    <3>5. thread'.unreadCount # thread.unreadCount
      BY <1>16, <3>1, <3>3, <3>4
    <3>6. \A q \in Threads!Request : q # r => ~Saves(q)
      BY <2>1, <3>5
    <3>7. ~Posts(r)
      BY <2>6 DEF Marks, Posts
    <3>8. PeerPending = {} /\ Marked = found /\ Marked' = {}
      <4>1. PeerPending = {}
        BY <3>6, <3>7 DEF PeerPending, Pending
      <4>2. found \in SUBSET Threads!Request
        BY <1>1, MemoryType
      <4>3. Marked = found
        BY <2>6, <3>6, <4>2 DEF Marked, Marks
      <4>4. Marked' = {}
        BY <1>4, <1>9, <3>6, Ended DEF Marked, Marks
      <4>5. QED
        BY <4>1, <4>3, <4>4
    <3>9. thread'.unreadCount = Cardinality(unread)
      BY <3>1, <3>4, <3>8
    <3>10. Cardinality(PeerPending') = 0 /\ unread \cup Marked' = unread
      BY <1>14, <3>8, FS_EmptySet
    <3>11. Cardinality(unread) \in Nat
      <4>1. unread \in SUBSET Threads!Request
        BY DEF Threads!Unread
      <4>2. QED
        BY <4>1, ThreadsFinite
    <3>12. thread'.unreadCount + Cardinality(PeerPending') = Cardinality(unread \cup Marked')
      <4>1. Cardinality(unread \cup Marked') = Cardinality(unread)
        BY <3>10
      <4>2. QED
        BY <3>9, <3>10, <3>11, <4>1
    <3>13. QED
      BY <1>8, <2>4, <3>5, <3>12 DEF UnreadCounted
  <2>7. QED
    BY <2>5, <2>6
<1>20. RemovesUnread'
  BY <1>1, <1>2, <1>4, <1>9, Ended DEF ThreadInv, RemovesUnread
<1>21. QED
  BY <1>11, <1>12, <1>13, <1>17, <1>18, <1>19, <1>20 DEF ThreadInv

-----------------------------------------------------------------------------
(* Threads: what every step keeps, and what follows.                       *)

\* The initial state: no thread and no message.
LEMMA InitThread ==
  ASSUME ThreadRequests \in Nat, Threads!Init
  PROVE  ThreadInv
<1>1. /\ threadReq = [r \in Threads!Request |-> Threads!Idle]
      /\ messages = [r \in Threads!Request |-> Threads!NoMessage]
      /\ thread = Threads!NoThread
      /\ threadStale = FALSE /\ threadFailed = FALSE /\ disturbed = FALSE
  BY DEF Threads!Init
<1>2. /\ thread \in Threads!Thread /\ thread.messageCount = 0 /\ thread.unreadCount = 0
      /\ ~Threads!Exists
  BY <1>1 DEF Threads!NoThread, Threads!Thread, Threads!Exists
<1>3. Threads!NoMessage \in Threads!Message /\ Threads!NoMessage.state = "none"
  BY DEF Threads!NoMessage, Threads!Message, Threads!Party
<1>4. Threads!Idle.pc = "idle" /\ Threads!Idle.op = "post" /\ Threads!Idle.found = {}
  BY DEF Threads!Idle
<1>5. Threads!TypeOK
  BY <1>1, <1>2, <1>3, ThreadIdleType DEF Threads!TypeOK
<1>6. \A r \in Threads!Request : /\ ~Copies(r) /\ ~Saves(r) /\ ~Finding(r) /\ ~Marks(r)
                                 /\ threadReq[r].pc = "idle" /\ threadReq[r].found = {}
                                 /\ messages[r].state = "none"
  BY <1>1, <1>3, <1>4 DEF Copies, Saves, Finding, Marks
<1>7. Pending = {} /\ Marked = {} /\ Threads!Posted = {} /\ Threads!InFlight = {}
  BY <1>6 DEF Pending, Marked, Threads!Posted, Threads!InFlight
<1>8. Threads!FromPeer = {}
  BY <1>7 DEF Threads!FromPeer
<1>9. ThreadFits
  BY <1>5, <1>6, <1>7 DEF ThreadFits, StepsFit, MessagesFit, CopyFits
<1>10. CountersBounded /\ MessagesCounted
  BY <1>2, <1>6, <1>7, <1>8, FS_EmptySet DEF CountersBounded, CopyBounded, MessagesCounted
<1>11. CopiesOrdered /\ MarksFit /\ UnreadCounted /\ RemovesUnread
  BY <1>2, <1>6, <1>7
     DEF CopiesOrdered, CopyOrdered, MarksFit, UnreadCounted, Undoomed, RemovesUnread
<1>12. QED
  BY <1>9, <1>10, <1>11 DEF ThreadInv

\* Each step is one of these, whichever party's route it is on.
LEMMA ThreadSteps ==
  ASSUME Threads!Next
  PROVE  \E r \in Threads!Request :
           \/ \E p \in Threads!Party :
                \/ \E o \in {"createThread", "createMessage"} : Threads!Insert(r, o, p)
                \/ Threads!CreateMessageInThread(r, p) \/ Threads!MarkThreadAsRead(r, p)
                \/ Threads!CloseThread(r, p) \/ Threads!ReopenThread(r, p)
                \/ Threads!MarkMessageAsRead(r, p) \/ Threads!DeleteMessage(r, p)
           \/ Threads!PostFirst(r) \/ Threads!InsertMessage(r) \/ Threads!FindUnread(r)
           \/ Threads!ThreadLoad(r) \/ Threads!ThreadWrite(r)
           \/ Threads!MessageLoad(r) \/ Threads!MessageWrite(r) \/ Threads!Remove(r)
           \/ Threads!Fails(r)
<1>1. PICK r \in Threads!Request :
        \/ \E p \in Threads!Party : Threads!ThreadRoutes(r, p) \/ Threads!MessageRoutes(r, p)
        \/ Threads!PostFirst(r) \/ Threads!InsertMessage(r) \/ Threads!FindUnread(r)
        \/ Threads!ThreadLoad(r) \/ Threads!ThreadWrite(r)
        \/ Threads!MessageLoad(r) \/ Threads!MessageWrite(r) \/ Threads!Remove(r)
        \/ Threads!Fails(r)
  BY DEF Threads!Next, Threads!ClientRoutes, Threads!AdminRoutes, Threads!Party
<1>2. ASSUME NEW p \in Threads!Party, Threads!ThreadRoutes(r, p) \/ Threads!MessageRoutes(r, p)
      PROVE  \/ \E o \in {"createThread", "createMessage"} : Threads!Insert(r, o, p)
             \/ Threads!CreateMessageInThread(r, p) \/ Threads!MarkThreadAsRead(r, p)
             \/ Threads!CloseThread(r, p) \/ Threads!ReopenThread(r, p)
             \/ Threads!MarkMessageAsRead(r, p) \/ Threads!DeleteMessage(r, p)
  BY <1>2 DEF Threads!ThreadRoutes, Threads!MessageRoutes, Threads!CreateThread,
              Threads!CreateMessage
<1>3. QED
  BY <1>1, <1>2

\* Every step keeps the invariant.
LEMMA NextThread ==
  ASSUME ThreadRequests \in Nat, ThreadInv, [Threads!Next]_(Threads!vars)
  PROVE  ThreadInv'
<1>1. CASE UNCHANGED Threads!vars
  <2>1. UNCHANGED <<thread, messages, threadReq, threadStale, threadFailed, disturbed>>
    BY <1>1 DEF Threads!vars
  <2>2. ThreadFits' /\ CountersBounded' /\ CopiesOrdered'
    BY <2>1
       DEF ThreadInv, ThreadFits, StepsFit, MessagesFit, CopyFits, Pending, Saves, Posts,
           Copies, One, CreatorsPeer, Threads!TypeOK, Threads!Exists, CountersBounded,
           CopyBounded, CopiesOrdered, CopyOrdered, MovedOn, Current, Threads!Posted,
           Threads!FromPeer, Threads!Peer
  <2>3. MessagesCounted' /\ MarksFit'
    BY <2>1
       DEF ThreadInv, MessagesCounted, MarksFit, Pending, Saves, Posts, Threads!Posted,
           Finding, Marks, Threads!InFlight
  <2>4. UnreadCounted' /\ RemovesUnread'
    BY <2>1
       DEF ThreadInv, UnreadCounted, Undoomed, Current, Saves, Posts, Pending, PeerPending,
           CreatorsPeer, Threads!Peer, Threads!Unread, Marked, Marks, Finding, RemovesUnread,
           Threads!Exists
  <2>5. QED
    BY <2>2, <2>3, <2>4 DEF ThreadInv
<1>2. CASE Threads!Next
  BY <1>2, ThreadSteps, InsertsThread, BeginsThread, BeginsMessage, PostsFirst, PostsMessage,
     FindsUnread, LoadsThread, WritesThread, LoadsMessages, WritesMessages, RemovesMessages,
     FailsHalfway
<1>3. QED
  BY <1>1, <1>2

\* The counters tell what was posted and what is unread.
LEMMA InvTells == ASSUME ThreadRequests \in Nat, ThreadInv PROVE Threads!CountersTell
<1>1. /\ thread.messageCount <= Cardinality(Threads!Posted)
      /\ thread.unreadCount <= Cardinality(Threads!FromPeer)
  BY DEF ThreadInv, CountersBounded
<1>2. ASSUME Threads!Settled
      PROVE  /\ thread.messageCount = Cardinality(Threads!Posted)
             /\ ~disturbed /\ Threads!Exists =>
                  thread.unreadCount = Cardinality(Threads!Unread(CreatorsPeer))
  <2>1. Threads!InFlight = {} /\ ~threadStale /\ ~threadFailed
    BY <1>2 DEF Threads!Settled
  <2>2. \A r \in Threads!Request : ~Saves(r)
    BY <2>1 DEF Threads!InFlight, Saves
  <2>3. Pending = {} /\ PeerPending = {} /\ Marked = {}
    BY <2>2 DEF Pending, PeerPending, Marked, Marks
  <2>4. Cardinality({}) = 0
    BY FS_EmptySet
  <2>5. thread.messageCount \in Nat /\ thread.unreadCount \in Nat
    BY ThreadType DEF ThreadInv, ThreadFits, Threads!TypeOK
  <2>6. thread.messageCount = Cardinality(Threads!Posted)
    BY <2>1, <2>3, <2>4, <2>5 DEF ThreadInv, MessagesCounted
  <2>7. ASSUME ~disturbed, Threads!Exists
        PROVE  thread.unreadCount = Cardinality(Threads!Unread(CreatorsPeer))
    <3>1. thread.unreadCount + Cardinality(PeerPending) =
            Cardinality(Threads!Unread(CreatorsPeer) \cup Marked)
      BY <2>1, <2>2, <2>7 DEF ThreadInv, UnreadCounted, Undoomed
    <3>2. Threads!Unread(CreatorsPeer) \cup Marked = Threads!Unread(CreatorsPeer)
      BY <2>3
    <3>3. QED
      BY <2>3, <2>4, <2>5, <3>1, <3>2
  <2>8. QED
    BY <2>6, <2>7
<1>3. QED
  BY <1>1, <1>2, ThreadCardinality DEF Threads!CountersTell, CreatorsPeer

\* The state of the threads is well typed.
THEOREM ThreadsTypeCorrect ==
  ASSUME ThreadRequests \in Nat
  PROVE  Threads!Spec => []Threads!TypeOK
<1>1. ThreadInv => Threads!TypeOK
  BY DEF ThreadInv, ThreadFits
<1>2. QED
  BY <1>1, InitThread, NextThread, PTL DEF Threads!Spec

\* The counters of a thread never exceed, and when nothing overlaps or fails equal,
\* what was posted and what its creator has not read, for any number of requests of
\* both parties.
THEOREM CountersAlwaysTell ==
  ASSUME ThreadRequests \in Nat
  PROVE  Spec => []CountersTell
<1>1. ThreadInv => Threads!CountersTell
  BY InvTells
<1>2. Threads!Spec => []Threads!CountersTell
  BY <1>1, InitThread, NextThread, PTL DEF Threads!Spec
<1>3. QED
  BY <1>2, ServicesImplemented, PTL DEF CountersTell

\* Only marking and taking back change a message that is there.
LEMMA StateStays ==
  ASSUME ThreadRequests \in Nat, ThreadInv, [Threads!Next]_(Threads!vars), ~threadStale',
         NEW m \in Threads!Request, messages[m].state \in {"read", "deleted"}
  PROVE  messages'[m].state = messages[m].state
<1>1. messages \in [Threads!Request -> Threads!Message]
  BY DEF ThreadInv, ThreadFits, Threads!TypeOK
<1>2. CASE messages' = messages
  BY <1>2
<1>3. ASSUME NEW r \in Threads!Request, Threads!InsertMessage(r)
      PROVE  messages'[m].state = messages[m].state
  <2>1. messages[r].state = "none"
    BY <1>3, NothingPosted DEF Threads!InsertMessage
  <2>2. m # r
    BY <2>1
  <2>3. QED
    BY <1>1, <1>3, <2>2 DEF Threads!InsertMessage
<1>4. ASSUME NEW r \in Threads!Request, Threads!MessageWrite(r)
      PROVE  messages'[m].state = messages[m].state
  <2>1. \A k \in threadReq[r].found : messages[k].state # "deleted"
    BY <1>4, Zenon DEF Threads!MessageWrite
  <2>2. messages'[m] = IF m \in threadReq[r].found
                             /\ (messages[m].state # "deleted" \/ m \in threadReq[r].missing)
                       THEN [messages[m] EXCEPT !.state = "read"] ELSE messages[m]
    BY <1>4 DEF Threads!MessageWrite
  <2>3. messages[m] \in Threads!Message
    BY <1>1
  <2>4. CASE m \in threadReq[r].found
    BY <2>1, <2>2, <2>3, <2>4 DEF Threads!Message
  <2>5. CASE m \notin threadReq[r].found
    BY <2>2, <2>5
  <2>6. QED
    BY <2>4, <2>5
<1>5. ASSUME NEW r \in Threads!Request, Threads!Remove(r)
      PROVE  messages'[m].state = messages[m].state
  <2>1. ~threadStale /\ threadReq[r].pc = "remove"
    BY <1>5 DEF Threads!Remove
  <2>2. messages'[m] = IF m \in threadReq[r].found
                       THEN [messages[m] EXCEPT !.state = "deleted"] ELSE messages[m]
    BY <1>5 DEF Threads!Remove
  <2>3. m \in threadReq[r].found => messages[m].state = "deleted"
    BY <2>1 DEF ThreadInv, RemovesUnread
  <2>4. messages[m] \in Threads!Message
    BY <1>1
  <2>5. QED
    BY <2>2, <2>3, <2>4 DEF Threads!Message
<1>6. messages' # messages => \E r \in Threads!Request :
        Threads!InsertMessage(r) \/ Threads!MessageWrite(r) \/ Threads!Remove(r)
  <2> SUFFICES ASSUME messages' # messages, Threads!Next
               PROVE  \E r \in Threads!Request :
                        Threads!InsertMessage(r) \/ Threads!MessageWrite(r) \/ Threads!Remove(r)
    BY DEF Threads!vars
  <2> QED
    BY ThreadSteps
       DEF Threads!Insert, Threads!CreateMessageInThread, Threads!MarkThreadAsRead,
           Threads!CloseThread, Threads!ReopenThread, Threads!MarkMessageAsRead,
           Threads!DeleteMessage, Threads!PostFirst, Threads!FindUnread, Threads!ThreadLoad,
           Threads!ThreadWrite, Threads!MessageLoad, Threads!Fails, Threads!Finds
<1>7. QED
  BY <1>2, <1>3, <1>4, <1>5, <1>6

\* What was read stays in the conversation and what was taken back stays away, for
\* any number of requests, unless reader and sender act on a message at a time.
THEOREM ReadAlwaysStays ==
  ASSUME ThreadRequests \in Nat
  PROVE  Spec => ReadStays
<1>1. ThreadInv /\ [Threads!Next]_(Threads!vars) =>
        [~threadStale' => \A m \in Threads!Request :
            messages[m].state \in {"read", "deleted"} =>
              messages'[m].state = messages[m].state]_(Threads!vars)
  BY StateStays
<1>2. Threads!Spec => Threads!ReadStays
  BY <1>1, InitThread, NextThread, PTL DEF Threads!Spec, Threads!ReadStays
<1>3. QED
  BY <1>2, ServicesImplemented, PTL DEF ReadStays

-----------------------------------------------------------------------------
(* Preferences: the arithmetic of the time of day.                         *)

\* Clients write any times; the clock may count in minutes or anything coarser.
QuietBounds ==
  /\ MinutesPerHour \in 1 .. 60
  /\ Texts \subseteq Quiet!Text
  /\ Delays \subseteq Nat
  /\ PreferenceRequests \in Nat

LEMMA DayType == ASSUME QuietBounds PROVE Quiet!Day \in Nat /\ Quiet!Day > 0
BY DEF QuietBounds, Quiet!Day

LEMMA HoursAndMinutes ==
  ASSUME NEW M \in 1 .. 60, NEW n \in 0 .. 24 * M - 1
  PROVE  /\ n \div M \in 0 .. 23
         /\ n % M \in 0 .. M - 1
         /\ n = (n \div M) * M + (n % M)
<1>1. n % M \in 0 .. M - 1
  OBVIOUS
<1>2. n = (n \div M) * M + (n % M)
  OBVIOUS
<1>3. n \div M \in Int
  OBVIOUS
<1>4. QED
  BY <1>1, <1>2, <1>3

LEMMA Remainder ==
  ASSUME NEW M \in 1 .. 60, NEW q \in Int, NEW k \in Int, NEW r \in 0 .. M - 1
  PROVE  /\ (q * M + r) % M = r
         /\ (q + k) * M + r = (q * M + r) + k * M
OBVIOUS

LEMMA Mod ==
  ASSUME NEW D \in Nat, D > 0, NEW x \in Int
  PROVE  /\ x \in 0 .. D - 1 => x % D = x
         /\ x \in -D .. -1 => x % D = x + D
         /\ x \in D .. 2 * D - 1 => x % D = x - D
OBVIOUS

\* A time read off the clock is written with two digits, and is that minute.
LEMMA AtType ==
  ASSUME QuietBounds, NEW n \in 0 .. 2 * Quiet!Day - 1
  PROVE  /\ Quiet!At(n) \in Quiet!Text
         /\ Quiet!At(n).padded
         /\ Quiet!MinuteOf(Quiet!At(n)) = n % Quiet!Day
<1> DEFINE d == n % Quiet!Day
<1>1. d \in 0 .. 24 * MinutesPerHour - 1 /\ MinutesPerHour \in 1 .. 60
  <2>1. CASE n < Quiet!Day
    BY <2>1, DayType, Mod DEF Quiet!Day, QuietBounds
  <2>2. CASE n >= Quiet!Day
    BY <2>2, DayType, Mod DEF Quiet!Day, QuietBounds
  <2>3. QED
    BY <2>1, <2>2, DayType
<1>2. n % MinutesPerHour = d % MinutesPerHour
  <2>1. CASE n < Quiet!Day
    BY <2>1, DayType, Mod
  <2>2. CASE n >= Quiet!Day
    <3>1. d = n - 24 * MinutesPerHour
      BY <2>2, DayType, Mod DEF Quiet!Day
    <3> DEFINE q == d \div MinutesPerHour
               r == d % MinutesPerHour
    <3>2. q \in Int /\ r \in 0 .. MinutesPerHour - 1 /\ d = q * MinutesPerHour + r
      BY <1>1, HoursAndMinutes
    <3>3. n = d + 24 * MinutesPerHour
      BY <3>1, <1>1
    <3> HIDE DEF d, q, r
    <3>4. n = (q + 24) * MinutesPerHour + r
      BY <3>2, <3>3, <1>1, Remainder
    <3>5. n % MinutesPerHour = r
      BY <3>4, <3>2, <1>1, Remainder
    <3>6. QED
      BY <3>5 DEF r
  <2>3. QED
    BY <2>1, <2>2, DayType
<1>3. /\ d \div MinutesPerHour \in 0 .. 23
      /\ d % MinutesPerHour \in 0 .. MinutesPerHour - 1
      /\ d = (d \div MinutesPerHour) * MinutesPerHour + (d % MinutesPerHour)
  BY <1>1, HoursAndMinutes
<1>4. QED
  BY <1>2, <1>3 DEF Quiet!At, Quiet!Text, Quiet!MinuteOf

LEMMA MinuteType ==
  ASSUME QuietBounds, NEW t \in Quiet!Text
  PROVE  Quiet!MinuteOf(t) \in 0 .. Quiet!Day - 1
<1>1. t.hour \in 0 .. 23 /\ t.minute \in 0 .. MinutesPerHour - 1 /\ MinutesPerHour \in 1 .. 60
  BY DEF Quiet!Text, QuietBounds
<1>2. /\ t.hour * MinutesPerHour \in Nat
      /\ t.hour * MinutesPerHour <= 23 * MinutesPerHour
  BY <1>1
<1>3. QED
  BY <1>1, <1>2 DEF Quiet!MinuteOf, Quiet!Day

\* What two digits compare as, and that it is as the number they write.
TwoDigits(n) == 12 * (n \div 10) + (n % 10)

\* And what two digits, a colon and two digits do.
Weight(hours, minutes) == 1728 * hours + 24061 + minutes

LEMMA DigitsOrder ==
  ASSUME NEW m \in 0 .. 59, NEW n \in 0 .. 59
  PROVE  TwoDigits(m) \in 0 .. 69 /\ (m < n => TwoDigits(m) < TwoDigits(n))
BY DEF TwoDigits

LEMMA HoursFirst ==
  ASSUME NEW M \in 1 .. 60, NEW h \in 0 .. 23, NEW k \in 0 .. 23,
         NEW m \in 0 .. M - 1, NEW n \in 0 .. M - 1
  PROVE  /\ h * M + m < k * M + n => h < k \/ (h = k /\ m < n)
         /\ h * M + m = k * M + n => h = k /\ m = n
OBVIOUS

\* What a time written with two digits compares as.
LEMMA KeyOf ==
  ASSUME NEW t, t.padded, t.hour \in 0 .. 23, t.minute \in 0 .. 59
  PROVE  Quiet!Key(t) = Weight(TwoDigits(t.hour), TwoDigits(t.minute))
<1> DEFINE char == <<(t.hour \div 10) + 1, (t.hour % 10) + 1, 11,
                     (t.minute \div 10) + 1, (t.minute % 10) + 1>>
<1>1. Quiet!Key(t) =
        (((char[1] * 12 + char[2]) * 12 + char[3]) * 12 + char[4]) * 12 + char[5]
  BY Zenon DEF Quiet!Key
<1>2. /\ char[1] = (t.hour \div 10) + 1 /\ char[2] = (t.hour % 10) + 1 /\ char[3] = 11
      /\ char[4] = (t.minute \div 10) + 1 /\ char[5] = (t.minute % 10) + 1
  OBVIOUS
<1> HIDE DEF char
<1>3. QED
  BY <1>1, <1>2 DEF TwoDigits, Weight

LEMMA HeavierDigits ==
  ASSUME NEW h \in 0 .. 69, NEW k \in 0 .. 69, NEW m \in 0 .. 69, NEW n \in 0 .. 69
  PROVE  /\ Weight(h, m) \in Nat
         /\ h < k => Weight(h, m) < Weight(k, n)
         /\ h = k /\ m < n => Weight(h, m) < Weight(k, n)
BY DEF Weight

\* The minute of the day.
Clock(hours, minutes) == hours * MinutesPerHour + minutes

LEMMA MinutesOrder ==
  ASSUME MinutesPerHour \in 1 .. 60, NEW h \in 0 .. 23, NEW k \in 0 .. 23,
         NEW m \in 0 .. MinutesPerHour - 1, NEW n \in 0 .. MinutesPerHour - 1
  PROVE  /\ Weight(TwoDigits(h), TwoDigits(m)) \in Nat
         /\ Clock(h, m) < Clock(k, n) =>
              Weight(TwoDigits(h), TwoDigits(m)) < Weight(TwoDigits(k), TwoDigits(n))
         /\ Clock(h, m) = Clock(k, n) => h = k /\ m = n
<1>1. h \in 0 .. 59 /\ k \in 0 .. 59 /\ m \in 0 .. 59 /\ n \in 0 .. 59
  OBVIOUS
<1>2. /\ TwoDigits(h) \in 0 .. 69 /\ TwoDigits(k) \in 0 .. 69
      /\ TwoDigits(m) \in 0 .. 69 /\ TwoDigits(n) \in 0 .. 69
      /\ h < k => TwoDigits(h) < TwoDigits(k)
      /\ m < n => TwoDigits(m) < TwoDigits(n)
  BY <1>1, DigitsOrder
<1>3. /\ Weight(TwoDigits(h), TwoDigits(m)) \in Nat
      /\ h < k => Weight(TwoDigits(h), TwoDigits(m)) < Weight(TwoDigits(k), TwoDigits(n))
      /\ h = k /\ m < n =>
           Weight(TwoDigits(h), TwoDigits(m)) < Weight(TwoDigits(k), TwoDigits(n))
  BY <1>2, HeavierDigits
<1>4. /\ Clock(h, m) < Clock(k, n) => h < k \/ (h = k /\ m < n)
      /\ Clock(h, m) = Clock(k, n) => h = k /\ m = n
  BY HoursFirst DEF Clock
<1>5. QED
  BY <1>3, <1>4

\* Times written with two digits compare as the minutes they stand for.
LEMMA KeysOrder ==
  ASSUME QuietBounds, NEW t \in Quiet!Text, NEW u \in Quiet!Text, t.padded, u.padded
  PROVE  /\ Quiet!Key(t) \in Nat
         /\ Quiet!MinuteOf(t) < Quiet!MinuteOf(u) => Quiet!Key(t) < Quiet!Key(u)
         /\ Quiet!MinuteOf(t) = Quiet!MinuteOf(u) => Quiet!Key(t) = Quiet!Key(u)
<1> DEFINE h == t.hour
           m == t.minute
           k == u.hour
           n == u.minute
<1>1. /\ h \in 0 .. 23 /\ m \in 0 .. MinutesPerHour - 1
      /\ k \in 0 .. 23 /\ n \in 0 .. MinutesPerHour - 1
      /\ MinutesPerHour \in 1 .. 60
      /\ m \in 0 .. 59 /\ n \in 0 .. 59
  BY DEF Quiet!Text, QuietBounds
<1>2. Quiet!Key(t) = Weight(TwoDigits(h), TwoDigits(m))
  BY <1>1, KeyOf
<1>3. Quiet!Key(u) = Weight(TwoDigits(k), TwoDigits(n))
  BY <1>1, KeyOf
<1>4. Quiet!MinuteOf(t) = Clock(h, m) /\ Quiet!MinuteOf(u) = Clock(k, n)
  BY Zenon DEF Quiet!MinuteOf, Clock
<1> HIDE DEF h, m, k, n
<1>5. Weight(TwoDigits(h), TwoDigits(m)) \in Nat
  BY <1>1, MinutesOrder
<1>6. Clock(h, m) < Clock(k, n) =>
        Weight(TwoDigits(h), TwoDigits(m)) < Weight(TwoDigits(k), TwoDigits(n))
  BY <1>1, MinutesOrder
<1>7. Clock(h, m) = Clock(k, n) => h = k /\ m = n
  BY <1>1, MinutesOrder
<1>8. QED
  BY <1>2, <1>3, <1>4, <1>5, <1>6, <1>7

-----------------------------------------------------------------------------
(* Preferences: when a notification is due.                                *)

\* Whether minute x of a day lies in the hours from s to e.
Within(s, e, x) == IF s > e THEN x >= s \/ x < e ELSE x >= s /\ x < e

LEMMA WithinIs ==
  ASSUME NEW D \in Nat, D > 0, NEW s \in 0 .. D - 1, NEW e \in 0 .. D - 1,
         NEW x \in 0 .. D - 1
  PROVE  (x - s) % D < (e - s) % D <=> Within(s, e, x)
<1>1. (x - s) % D = IF x >= s THEN x - s ELSE x - s + D
  BY Mod
<1>2. (e - s) % D = IF e >= s THEN e - s ELSE e - s + D
  BY Mod
<1>3. QED
  BY <1>1, <1>2 DEF Within

\* The fields of preferences that the decision reads.
LEMMA PreferenceType ==
  ASSUME QuietBounds, NEW p \in Quiet!Row
  PROVE  /\ p.quietHoursStart \in Quiet!Text /\ p.quietHoursEnd \in Quiet!Text
         /\ p.quietHoursEnabled \in BOOLEAN /\ p.allowed \in BOOLEAN
         /\ Quiet!MinuteOf(p.quietHoursStart) \in 0 .. Quiet!Day - 1
         /\ Quiet!MinuteOf(p.quietHoursEnd) \in 0 .. Quiet!Day - 1
<1>1. /\ p.quietHoursStart \in Quiet!Text /\ p.quietHoursEnd \in Quiet!Text
      /\ p.quietHoursEnabled \in BOOLEAN /\ p.allowed \in BOOLEAN
  BY DEF Quiet!Row
<1>2. QED
  BY <1>1, MinuteType

LEMMA QuietIs ==
  ASSUME QuietBounds, NEW p \in Quiet!Row, NEW m \in Nat
  PROVE  Quiet!Quiet(p, m) <=>
           p.quietHoursEnabled /\ Within(Quiet!MinuteOf(p.quietHoursStart),
                                         Quiet!MinuteOf(p.quietHoursEnd), m % Quiet!Day)
<1> DEFINE D == Quiet!Day
           s == Quiet!MinuteOf(p.quietHoursStart)
           e == Quiet!MinuteOf(p.quietHoursEnd)
           x == m % D
<1>1. D \in Nat /\ D > 0 /\ s \in 0 .. D - 1 /\ e \in 0 .. D - 1
  BY DayType, PreferenceType
<1> HIDE DEF D, s, e
<1>2. x \in 0 .. D - 1
  BY <1>1
<1> HIDE DEF x
<1>3. (x - s) % D < (e - s) % D <=> Within(s, e, x)
  BY <1>1, <1>2, WithinIs
<1>4. QED
  BY <1>3, Zenon DEF Quiet!Quiet, D, s, e, x

\* The clock's strings decide as the minutes would.
LEMMA IsInQuietHoursIs ==
  ASSUME QuietBounds, NEW p \in Quiet!Row, NEW now \in 0 .. Quiet!Day - 1,
         p.quietHoursStart.padded, p.quietHoursEnd.padded
  PROVE  Quiet!IsInQuietHours(p, now) <=>
           p.quietHoursEnabled /\ Within(Quiet!MinuteOf(p.quietHoursStart),
                                         Quiet!MinuteOf(p.quietHoursEnd), now)
<1> DEFINE D == Quiet!Day
           start == p.quietHoursStart
           end == p.quietHoursEnd
           t == Quiet!At(now)
           s == Quiet!MinuteOf(start)
           e == Quiet!MinuteOf(end)
<1>1. /\ start \in Quiet!Text /\ end \in Quiet!Text /\ start.padded /\ end.padded
      /\ s \in 0 .. D - 1 /\ e \in 0 .. D - 1
  BY PreferenceType
<1>2. now \in 0 .. 2 * D - 1 /\ now % D = now /\ D \in Nat
  BY DayType, Mod
<1>3. t \in Quiet!Text /\ t.padded /\ Quiet!MinuteOf(t) = now
  BY <1>2, AtType
<1> HIDE DEF start, end, t
<1>4. Quiet!Key(t) \in Nat /\ Quiet!Key(start) \in Nat /\ Quiet!Key(end) \in Nat
  BY <1>1, <1>3, KeysOrder
<1>5. /\ now < s => Quiet!Key(t) < Quiet!Key(start)
      /\ now = s => Quiet!Key(t) = Quiet!Key(start)
      /\ s < now => Quiet!Key(start) < Quiet!Key(t)
  BY <1>1, <1>3, KeysOrder
<1>6. /\ now < e => Quiet!Key(t) < Quiet!Key(end)
      /\ now = e => Quiet!Key(t) = Quiet!Key(end)
      /\ e < now => Quiet!Key(end) < Quiet!Key(t)
  BY <1>1, <1>3, KeysOrder
<1>7. /\ s < e => Quiet!Key(start) < Quiet!Key(end)
      /\ s = e => Quiet!Key(start) = Quiet!Key(end)
      /\ e < s => Quiet!Key(end) < Quiet!Key(start)
  BY <1>1, KeysOrder
<1> HIDE DEF s, e, D
<1>8. /\ Quiet!Key(t) >= Quiet!Key(start) <=> now >= s
      /\ Quiet!Key(t) < Quiet!Key(end) <=> now < e
      /\ Quiet!Key(start) > Quiet!Key(end) <=> s > e
  BY <1>1, <1>2, <1>4, <1>5, <1>6, <1>7
<1>9. Quiet!IsInQuietHours(p, now) <=>
        /\ p.quietHoursEnabled
        /\ IF Quiet!Key(start) > Quiet!Key(end)
           THEN Quiet!Key(t) >= Quiet!Key(start) \/ Quiet!Key(t) < Quiet!Key(end)
           ELSE Quiet!Key(t) >= Quiet!Key(start) /\ Quiet!Key(t) < Quiet!Key(end)
  BY Zenon DEF Quiet!IsInQuietHours, start, end, t
<1>10. QED
  BY <1>8, <1>9, Zenon DEF Within, s, e, start, end

LEMMA EndsAt ==
  ASSUME QuietBounds, NEW p \in Quiet!Row, NEW n \in 0 .. Quiet!Day
  PROVE  LET e == Quiet!MinuteOf(p.quietHoursEnd)
             D == Quiet!Day
         IN Quiet!CalculateQuietHoursEnd(p, n) =
              IF n = D THEN IF e = 0 THEN 2 * D ELSE D + e
              ELSE IF e <= n THEN e + D ELSE e
<1> DEFINE D == Quiet!Day
           e == Quiet!MinuteOf(p.quietHoursEnd)
<1>1. D \in Nat /\ D > 0 /\ e \in 0 .. D - 1
  BY DayType, PreferenceType
<1>2. Quiet!CalculateQuietHoursEnd(p, n) =
        IF (n \div D) * D + e <= n THEN ((n \div D) * D + e) + D ELSE (n \div D) * D + e
  BY Zenon DEF Quiet!CalculateQuietHoursEnd
<1> HIDE DEF D, e
<1>3. (n \div D) * D = n - (n % D)
  BY <1>1 DEF D
<1>4. n % D = IF n = D THEN 0 ELSE n
  BY <1>1, Mod DEF D
<1>5. (n \div D) * D = IF n = D THEN D ELSE 0
  BY <1>3, <1>4, <1>1 DEF D
<1>6. n \in 0 .. D
  BY DEF D
<1>7. Quiet!CalculateQuietHoursEnd(p, n) =
              IF n = D THEN IF e = 0 THEN 2 * D ELSE D + e
              ELSE IF e <= n THEN e + D ELSE e
  <2> DEFINE b == (n \div D) * D
  <2>1. Quiet!CalculateQuietHoursEnd(p, n) = IF b + e <= n THEN (b + e) + D ELSE b + e
    BY <1>2
  <2>2. b = IF n = D THEN D ELSE 0
    BY <1>5
  <2> HIDE DEF b
  <2>3. QED
    BY <2>1, <2>2, <1>1, <1>6
<1>8. QED
  BY <1>7, Zenon DEF D, e

\* What send promises of a routine notification that is not scheduled for later.
Kept(p, now, due, ticked) ==
  /\ ~Quiet!Quiet(p, due)
  /\ due >= now
  /\ ~ticked => \A m \in now .. due - 1 : Quiet!Quiet(p, m)

LEMMA DecisionKept ==
  ASSUME QuietBounds, NEW p \in Quiet!Row, NEW now \in 0 .. Quiet!Day - 1,
         NEW ticked \in BOOLEAN, NEW due,
         p.quietHoursStart.padded, p.quietHoursEnd.padded,
         due = IF Quiet!IsInQuietHours(p, now)
               THEN Quiet!CalculateQuietHoursEnd(p, IF ticked THEN now + 1 ELSE now)
               ELSE now
  PROVE  Kept(p, now, due, ticked)
<1> DEFINE D == Quiet!Day
           s == Quiet!MinuteOf(p.quietHoursStart)
           e == Quiet!MinuteOf(p.quietHoursEnd)
<1>1. D \in Nat /\ D > 0 /\ s \in 0 .. D - 1 /\ e \in 0 .. D - 1 /\ now \in 0 .. D - 1
  BY DayType, PreferenceType
<1>2. Quiet!IsInQuietHours(p, now) <=> p.quietHoursEnabled /\ Within(s, e, now)
  BY IsInQuietHoursIs
<1>3. \A m \in Nat : Quiet!Quiet(p, m) <=> p.quietHoursEnabled /\ Within(s, e, m % D)
  BY QuietIs
<1>4. \A n \in 0 .. D :
        Quiet!CalculateQuietHoursEnd(p, n) =
          IF n = D THEN IF e = 0 THEN 2 * D ELSE D + e ELSE IF e <= n THEN e + D ELSE e
  BY EndsAt
<1> HIDE DEF D, s, e
<1>5. CASE ~Quiet!IsInQuietHours(p, now)
  <2>1. due = now /\ now \in Nat /\ now % D = now
    BY <1>5, <1>1, Mod
  <2>2. ~Quiet!Quiet(p, now)
    BY <2>1, <1>2, <1>3, <1>5
  <2>3. now .. due - 1 = {}
    BY <2>1
  <2>4. QED
    BY <2>1, <2>2, <2>3 DEF Kept
<1>6. CASE Quiet!IsInQuietHours(p, now)
  <2> DEFINE n == IF ticked THEN now + 1 ELSE now
  <2>1. n \in 0 .. D /\ n >= now /\ (~ticked => n = now)
    BY <1>1
  <2>2. due = Quiet!CalculateQuietHoursEnd(p, n)
    BY <1>6
  <2> HIDE DEF n
  <2>3. due = IF n = D THEN IF e = 0 THEN 2 * D ELSE D + e ELSE IF e <= n THEN e + D ELSE e
    BY <2>1, <2>2, <1>4
  <2>4. due \in Nat /\ due >= now /\ due % D = e
    <3>1. due \in {e, e + D, e + 2 * D}
      BY <2>3, <1>1
    <3>2. due >= now
      BY <2>1, <2>3, <1>1
    <3>3. e % D = e /\ (e + D) % D = e /\ (e + 2 * D) % D = e
      BY <1>1
    <3>4. QED
      BY <3>1, <3>2, <3>3, <1>1
  <2>5. ~Quiet!Quiet(p, due)
    <3>1. ~Within(s, e, e)
      BY <1>1 DEF Within
    <3>2. QED
      BY <2>4, <3>1, <1>3
  <2>6. ASSUME ~ticked, NEW m \in now .. due - 1 PROVE Quiet!Quiet(p, m)
    <3>1. n = now /\ n # D
      BY <2>1, <2>6, <1>1
    <3>2. due = IF e <= now THEN e + D ELSE e
      BY <3>1, <2>3
    <3>3. p.quietHoursEnabled /\ Within(s, e, now)
      BY <1>2, <1>6
    <3>4. m \in now .. due - 1 /\ m \in Nat /\ m < 2 * D
      BY <3>2, <1>1, <2>4
    <3>5. m % D = IF m < D THEN m ELSE m - D
      BY <3>4, <1>1, Mod
    <3> DEFINE x == m % D
    <3> HIDE DEF x
    <3>6. x = IF m < D THEN m ELSE m - D
      BY <3>5 DEF x
    <3>7. Within(s, e, x)
      BY <3>2, <3>3, <3>4, <3>6, <1>1 DEF Within
    <3>8. QED
      BY <3>3, <3>4, <3>7, <1>3 DEF x
  <2>7. QED
    BY <2>4, <2>5, <2>6 DEF Kept
<1>7. QED
  BY <1>5, <1>6

-----------------------------------------------------------------------------
(* Preferences: the invariant.                                             *)

\* What a request goes on with is a row.
HasRow(m) == m.pc \in {"have", "load", "write"} => m.local \in Quiet!Row

KeptBy(d) ==
  /\ d.kind = "routine" /\ d.delay = 0 /\ d.due # Quiet!CANCELLED
  /\ d.preferences.quietHoursStart.padded /\ d.preferences.quietHoursEnd.padded
  => Kept(d.preferences, d.now, d.due, d.ticked)

QuietInv ==
  /\ Quiet!TypeOK
  /\ \A r \in Quiet!Request : HasRow(preferenceReq[r])
  /\ \A r \in Quiet!Request : KeptBy(decision[r])

LEMMA QuietIdle ==
  /\ Quiet!Idle \in Quiet!Memory /\ Quiet!Idle.pc = "idle"
  /\ Quiet!Done \in Quiet!Memory /\ Quiet!Done.pc = "done"
BY DEF Quiet!Idle, Quiet!Done, Quiet!Memory

LEMMA DefaultType ==
  ASSUME QuietBounds, NEW r \in Quiet!Request
  PROVE  Quiet!Default(r) \in Quiet!Row
<1> DEFINE start == Quiet!At(22 * MinutesPerHour)
           end == Quiet!At(8 * MinutesPerHour)
<1>1. /\ 22 * MinutesPerHour \in 0 .. 2 * Quiet!Day - 1
      /\ 8 * MinutesPerHour \in 0 .. 2 * Quiet!Day - 1
  BY DEF QuietBounds, Quiet!Day
<1>2. start \in Quiet!Text /\ end \in Quiet!Text
  BY <1>1, AtType
<1>3. r \in 0 .. PreferenceRequests
  BY DEF Quiet!Request, QuietBounds
<1>4. Quiet!Default(r) = [id |-> r, allowed |-> TRUE, quietHoursEnabled |-> FALSE,
                          quietHoursStart |-> start, quietHoursEnd |-> end]
  BY Zenon DEF Quiet!Default
<1> HIDE DEF start, end
<1>5. QED
  BY <1>2, <1>3, <1>4 DEF Quiet!Row

\* A request that goes on without touching the row keeps the invariant.
LEMMA GoesOn ==
  ASSUME QuietInv, NEW r \in Quiet!Request, NEW m \in Quiet!Memory, HasRow(m),
         Quiet!Goes(r, m)
  PROVE  QuietInv'
<1>1. preferenceReq' = [preferenceReq EXCEPT ![r] = m]
      /\ row' = row /\ decision' = decision
  BY DEF Quiet!Goes
<1>2. Quiet!TypeOK'
  BY <1>1 DEF QuietInv, Quiet!TypeOK
<1>3. \A q \in Quiet!Request : HasRow(preferenceReq'[q])
  BY <1>1 DEF QuietInv, Quiet!TypeOK
<1>4. \A q \in Quiet!Request : KeptBy(decision'[q])
  BY <1>1 DEF QuietInv
<1>5. QED
  BY <1>2, <1>3, <1>4 DEF QuietInv

LEMMA GetsOrCreates ==
  ASSUME QuietInv, NEW r \in Quiet!Request, NEW o \in {"send", "get", "update", "reset"},
         Quiet!GetOrCreate(r, o)
  PROVE  QuietInv'
<1>1. CASE row = Quiet!NoRow
  <2> DEFINE m == [Quiet!Idle EXCEPT !.pc = "insert", !.op = o]
  <2>1. m \in Quiet!Memory /\ HasRow(m)
    BY DEF Quiet!Idle, Quiet!Memory, HasRow
  <2>2. Quiet!Goes(r, m)
    BY <1>1 DEF Quiet!GetOrCreate
  <2>3. QED
    BY <2>1, <2>2, GoesOn
<1>2. CASE row # Quiet!NoRow
  <2> DEFINE m == [Quiet!Idle EXCEPT !.pc = "have", !.op = o, !.local = row]
  <2>1. row \in Quiet!Row
    BY <1>2 DEF QuietInv, Quiet!TypeOK
  <2>2. m \in Quiet!Memory /\ HasRow(m)
    BY <2>1 DEF Quiet!Idle, Quiet!Memory, HasRow
  <2>3. Quiet!Goes(r, m)
    BY <1>2 DEF Quiet!GetOrCreate
  <2>4. QED
    BY <2>2, <2>3, GoesOn
<1>3. QED
  BY <1>1, <1>2

\* A request whose memory changes, with what it does to the row.
LEMMA RowStep ==
  ASSUME QuietInv, NEW r \in Quiet!Request, NEW m \in Quiet!Memory, HasRow(m),
         preferenceReq' = [preferenceReq EXCEPT ![r] = m],
         row' \in Quiet!Row \cup {Quiet!NoRow}, decision' = decision
  PROVE  QuietInv'
<1>1. Quiet!TypeOK'
  BY DEF QuietInv, Quiet!TypeOK
<1>2. \A q \in Quiet!Request : HasRow(preferenceReq'[q])
  BY DEF QuietInv, Quiet!TypeOK
<1>3. \A q \in Quiet!Request : KeptBy(decision'[q])
  BY DEF QuietInv
<1>4. QED
  BY <1>1, <1>2, <1>3 DEF QuietInv

LEMMA InsertsDefault ==
  ASSUME QuietBounds, QuietInv, NEW r \in Quiet!Request, Quiet!InsertDefault(r)
  PROVE  QuietInv'
<1> DEFINE m == [preferenceReq[r] EXCEPT !.pc = "have", !.local = Quiet!Default(r)]
<1>1. preferenceReq[r] \in Quiet!Memory
  BY DEF QuietInv, Quiet!TypeOK
<1>2. m \in Quiet!Memory /\ HasRow(m)
  BY <1>1, DefaultType DEF Quiet!Memory, HasRow
<1>3. preferenceReq' = [preferenceReq EXCEPT ![r] = m]
  BY <1>1 DEF Quiet!InsertDefault, QuietInv, Quiet!TypeOK
<1>4. row' \in Quiet!Row /\ decision' = decision
  BY DefaultType DEF Quiet!InsertDefault
<1>5. QED
  BY <1>2, <1>3, <1>4, RowStep

LEMMA RemovesRow ==
  ASSUME QuietInv, NEW r \in Quiet!Request,
         Quiet!ResetPreferences(r) \/ Quiet!RemoveRow(r)
  PROVE  QuietInv'
<1>0. preferenceReq[r] \in Quiet!Memory /\ row \in Quiet!Row \cup {Quiet!NoRow}
  BY DEF QuietInv, Quiet!TypeOK
<1>1. CASE Quiet!ResetPreferences(r)
  <2> DEFINE m == [Quiet!Idle EXCEPT !.pc = IF row = Quiet!NoRow THEN "again" ELSE "remove",
                                     !.op = "reset", !.local = row]
  <2>1. m \in Quiet!Memory /\ HasRow(m)
    BY <1>0 DEF Quiet!Idle, Quiet!Memory, HasRow
  <2>2. Quiet!Goes(r, m)
    BY <1>1 DEF Quiet!ResetPreferences
  <2>3. QED
    BY <2>1, <2>2, GoesOn
<1>2. CASE Quiet!RemoveRow(r)
  <2> DEFINE m == [preferenceReq[r] EXCEPT !.pc = "again"]
  <2>1. m \in Quiet!Memory /\ HasRow(m)
    BY <1>0 DEF Quiet!Memory, HasRow
  <2>2. /\ preferenceReq' = [preferenceReq EXCEPT ![r] = m]
        /\ row' \in Quiet!Row \cup {Quiet!NoRow} /\ decision' = decision
    BY <1>2, <1>0 DEF Quiet!RemoveRow, QuietInv, Quiet!TypeOK
  <2>3. QED
    BY <2>1, <2>2, RowStep
<1>3. QED
  BY <1>1, <1>2

LEMMA Sets ==
  ASSUME QuietBounds, QuietInv, NEW r \in Quiet!Request, Quiet!SetFields(r)
  PROVE  QuietInv'
<1>1. PICK allowed \in BOOLEAN, enabled \in BOOLEAN, start \in Texts, end \in Texts :
        Quiet!Goes(r, [preferenceReq[r] EXCEPT !.pc = "load",
                  !.local = [@ EXCEPT !.allowed = allowed, !.quietHoursEnabled = enabled,
                                      !.quietHoursStart = start, !.quietHoursEnd = end]])
  BY DEF Quiet!SetFields
<1> DEFINE p == preferenceReq[r].local
           n == [p EXCEPT !.allowed = allowed, !.quietHoursEnabled = enabled,
                          !.quietHoursStart = start, !.quietHoursEnd = end]
           m == [preferenceReq[r] EXCEPT !.pc = "load", !.local = n]
<1>2. preferenceReq[r] \in Quiet!Memory /\ p \in Quiet!Row
  BY DEF QuietInv, Quiet!TypeOK, HasRow, Quiet!SetFields
<1>3. start \in Quiet!Text /\ end \in Quiet!Text
  BY DEF QuietBounds
<1>4. n \in Quiet!Row
  BY <1>2, <1>3 DEF Quiet!Row
<1>5. Quiet!Goes(r, m)
  BY <1>1
<1> HIDE DEF n
<1>6. m \in Quiet!Memory /\ HasRow(m)
  BY <1>2, <1>4 DEF Quiet!Memory, HasRow
<1>7. QED
  BY <1>5, <1>6, GoesOn

LEMMA RowColumns ==
  ASSUME NEW p \in Quiet!Row
  PROVE  DOMAIN p = Quiet!Column
BY DEF Quiet!Row, Quiet!Column

LEMMA LoadsRow ==
  ASSUME QuietInv, NEW r \in Quiet!Request, Quiet!Load(r)
  PROVE  QuietInv'
<1> DEFINE p == preferenceReq[r].local
           there == row # Quiet!NoRow /\ row.id = p.id
           d == IF there THEN Quiet!Differing(p, row) ELSE Quiet!Column
           m == [preferenceReq[r] EXCEPT !.pc = "load"]
<1>0. preferenceReq[r] \in Quiet!Memory /\ p \in Quiet!Row
  BY DEF QuietInv, Quiet!TypeOK, HasRow, Quiet!Load
<1>1. d \in SUBSET Quiet!Column
  <2>1. CASE there
    <3>1. row \in Quiet!Row
      BY <2>1 DEF QuietInv, Quiet!TypeOK
    <3>2. DOMAIN row = Quiet!Column
      BY <3>1, RowColumns
    <3>3. QED
      BY <2>1, <3>2 DEF Quiet!Differing
  <2>2. CASE ~there
    BY <2>2
  <2>3. QED
    BY <2>1, <2>2
<1> DEFINE n == [preferenceReq[r] EXCEPT !.pc = "write", !.absent = ~there, !.diff = d]
<1>2. Quiet!Goes(r, n)
  BY Zenon DEF Quiet!Load
<1> HIDE DEF d
<1>3. (~there) \in BOOLEAN
  OBVIOUS
<1> HIDE DEF there
<1>4. n \in Quiet!Memory /\ HasRow(n)
  BY <1>0, <1>1, <1>3 DEF Quiet!Memory, HasRow
<1>5. QED
  BY <1>2, <1>4, GoesOn

LEMMA PatchedRow ==
  ASSUME NEW p \in Quiet!Row, NEW q \in Quiet!Row, NEW c
  PROVE  Quiet!Patched(p, q, c) \in Quiet!Row
<1>1. Quiet!Patched(p, q, c) =
        [id |-> IF "id" \in c THEN q.id ELSE p.id,
         allowed |-> IF "allowed" \in c THEN q.allowed ELSE p.allowed,
         quietHoursEnabled |-> IF "quietHoursEnabled" \in c THEN q.quietHoursEnabled
                               ELSE p.quietHoursEnabled,
         quietHoursStart |-> IF "quietHoursStart" \in c THEN q.quietHoursStart
                             ELSE p.quietHoursStart,
         quietHoursEnd |-> IF "quietHoursEnd" \in c THEN q.quietHoursEnd
                           ELSE p.quietHoursEnd]
  BY DEF Quiet!Patched, Quiet!Row
<1>2. QED
  BY <1>1 DEF Quiet!Row

LEMMA WritesRow ==
  ASSUME QuietInv, NEW r \in Quiet!Request, Quiet!Write(r)
  PROVE  QuietInv'
<1> DEFINE p == preferenceReq[r].local
<1>0. preferenceReq[r] \in Quiet!Memory /\ p \in Quiet!Row
      /\ row \in Quiet!Row \cup {Quiet!NoRow}
  BY DEF QuietInv, Quiet!TypeOK, HasRow, Quiet!Write
<1>1. row' \in {p, row} \/ (row \in Quiet!Row
                            /\ row' = Quiet!Patched(row, p, preferenceReq[r].diff))
  BY <1>0 DEF Quiet!Write
<1>2. row' \in Quiet!Row \cup {Quiet!NoRow}
  BY <1>0, <1>1, PatchedRow
<1>3. /\ preferenceReq' = [preferenceReq EXCEPT ![r] = Quiet!Done]
      /\ decision' = decision
  BY DEF Quiet!Write
<1>4. HasRow(Quiet!Done)
  BY QuietIdle DEF HasRow
<1>5. QED
  BY <1>2, <1>3, <1>4, QuietIdle, RowStep

LEMMA EndType ==
  ASSUME QuietBounds, NEW p \in Quiet!Row, NEW n \in 0 .. Quiet!Day
  PROVE  Quiet!CalculateQuietHoursEnd(p, n) \in Nat
<1>1. Quiet!MinuteOf(p.quietHoursEnd) \in Nat /\ Quiet!Day \in Nat
  BY DayType, PreferenceType
<1>2. QED
  BY <1>1, EndsAt

LEMMA Decides ==
  ASSUME QuietBounds, QuietInv, NEW r \in Quiet!Request, Quiet!Decide(r)
  PROVE  QuietInv'
<1> DEFINE p == preferenceReq[r].local
           dueOf(kind, now, delay, ticked) ==
             IF ~p.allowed THEN Quiet!CANCELLED
             ELSE IF kind # "urgent" /\ Quiet!IsInQuietHours(p, now)
                  THEN Quiet!CalculateQuietHoursEnd(p, IF ticked THEN now + 1 ELSE now)
                  ELSE now + delay
<1>1. PICK kind \in {"routine", "urgent"}, now \in 0 .. Quiet!Day - 1,
           delay \in Delays \cup {0}, ticked \in BOOLEAN :
        decision' = [decision EXCEPT ![r] =
          [kind |-> kind, now |-> now, delay |-> delay, preferences |-> p,
           due |-> dueOf(kind, now, delay, ticked), ticked |-> ticked]]
  BY Zenon DEF Quiet!Decide
<1> DEFINE due == dueOf(kind, now, delay, ticked)
           d == [kind |-> kind, now |-> now, delay |-> delay, preferences |-> p,
                 due |-> due, ticked |-> ticked]
<1>2. preferenceReq[r] \in Quiet!Memory /\ p \in Quiet!Row
  BY DEF QuietInv, Quiet!TypeOK, HasRow, Quiet!Decide
<1>3. due \in Nat \cup {Quiet!CANCELLED}
  <2>1. now \in Nat /\ delay \in Nat /\ (IF ticked THEN now + 1 ELSE now) \in 0 .. Quiet!Day
    BY DayType DEF QuietBounds
  <2>2. Quiet!CalculateQuietHoursEnd(p, IF ticked THEN now + 1 ELSE now) \in Nat
    BY <2>1, <1>2, EndType
  <2>3. QED
    BY <2>1, <2>2
<1>4. ASSUME kind = "routine", delay = 0, due # Quiet!CANCELLED,
             p.quietHoursStart.padded, p.quietHoursEnd.padded
      PROVE  Kept(p, now, due, ticked)
  <2>1. due = IF Quiet!IsInQuietHours(p, now)
              THEN Quiet!CalculateQuietHoursEnd(p, IF ticked THEN now + 1 ELSE now)
              ELSE now
    BY <1>4, DayType
  <2> HIDE DEF due
  <2>2. QED
    BY <2>1, <1>2, <1>4, DecisionKept
<1> HIDE DEF due
<1>5. KeptBy(d)
  BY <1>4, Zenon DEF KeptBy
<1>6. d \in Quiet!Decision
  BY <1>2, <1>3 DEF Quiet!Decision, Quiet!CANCELLED
<1>7. decision' = [decision EXCEPT ![r] = d]
  BY <1>1 DEF due
<1> HIDE DEF d
<1>8. /\ preferenceReq' = [preferenceReq EXCEPT ![r] = Quiet!Done]
      /\ row' = row
  BY Zenon DEF Quiet!Decide
<1>9. Quiet!TypeOK'
  BY <1>6, <1>7, <1>8, QuietIdle DEF QuietInv, Quiet!TypeOK
<1>10. \A q \in Quiet!Request : HasRow(preferenceReq'[q])
  BY <1>8, QuietIdle DEF QuietInv, Quiet!TypeOK, HasRow
<1>11. \A q \in Quiet!Request : KeptBy(decision'[q])
  BY <1>5, <1>7 DEF QuietInv, Quiet!TypeOK
<1>12. QED
  BY <1>9, <1>10, <1>11 DEF QuietInv

LEMMA InitQuiet == ASSUME QuietBounds, Quiet!Init PROVE QuietInv
<1>1. Quiet!TypeOK
  BY QuietIdle DEF Quiet!Init, Quiet!TypeOK
<1>2. \A r \in Quiet!Request : HasRow(preferenceReq[r])
  BY QuietIdle DEF Quiet!Init, HasRow
<1>3. \A r \in Quiet!Request : KeptBy(decision[r])
  BY DEF Quiet!Init, KeptBy, Quiet!Undecided
<1>4. QED
  BY <1>1, <1>2, <1>3 DEF QuietInv

LEMMA NextQuiet ==
  ASSUME QuietBounds, QuietInv, [Quiet!Next]_(Quiet!vars)
  PROVE  QuietInv'
<1>1. CASE UNCHANGED Quiet!vars
  BY <1>1 DEF QuietInv, Quiet!vars, Quiet!TypeOK
<1>2. ASSUME NEW r \in Quiet!Request,
             \/ Quiet!Send(r) \/ Quiet!GetPreferences(r) \/ Quiet!UpdatePreferences(r)
             \/ Quiet!CreateAgain(r)
      PROVE  QuietInv'
  BY <1>2, GetsOrCreates
     DEF Quiet!Send, Quiet!GetPreferences, Quiet!UpdatePreferences, Quiet!CreateAgain
<1>3. ASSUME NEW r \in Quiet!Request, Quiet!Answer(r) \/ Quiet!Fails(r)
      PROVE  QuietInv'
  <2>1. Quiet!Goes(r, Quiet!Done)
    BY <1>3 DEF Quiet!Answer, Quiet!Fails
  <2>2. HasRow(Quiet!Done)
    BY QuietIdle DEF HasRow
  <2>3. QED
    BY <2>1, <2>2, QuietIdle, GoesOn
<1>4. CASE Quiet!Next
  BY <1>4, <1>2, <1>3, InsertsDefault, RemovesRow, Decides, Sets, LoadsRow, WritesRow
     DEF Quiet!Next
<1>5. QED
  BY <1>1, <1>4

\* However requests of the user and notifications overlap, with a clock of minutes
\* or a coarser one, and whatever times clients send: the preferences are a row,
\* and a decision is one that send can take.
THEOREM QuietTypeCorrect ==
  ASSUME QuietBounds
  PROVE  Quiet!Spec => []Quiet!TypeOK
<1>1. QuietInv => Quiet!TypeOK
  BY DEF QuietInv
<1>2. QED
  BY <1>1, InitQuiet, NextQuiet, PTL DEF Quiet!Spec

\* For every minute of the day, and all preferences with two digits: a routine
\* notification is due outside of quiet hours, not before now, and, unless the
\* clock reached their end while send decided, at the first minute after them.
THEOREM QuietHoursAlwaysKept ==
  ASSUME QuietBounds
  PROVE  Spec => []QuietHoursKept
<1>1. QuietInv => Quiet!QuietHoursKept
  <2> SUFFICES ASSUME QuietInv, NEW r \in Quiet!Request,
                      decision[r].kind = "routine", decision[r].delay = 0,
                      decision[r].due # Quiet!CANCELLED,
                      decision[r].preferences.quietHoursStart.padded,
                      decision[r].preferences.quietHoursEnd.padded
               PROVE  Kept(decision[r].preferences, decision[r].now, decision[r].due,
                           decision[r].ticked)
    BY Zenon DEF Quiet!QuietHoursKept, Quiet!Routine, Kept
  <2>1. QED
    BY DEF QuietInv, KeptBy
<1>2. Quiet!Spec => []Quiet!QuietHoursKept
  BY <1>1, InitQuiet, NextQuiet, PTL DEF Quiet!Spec
<1>3. QED
  BY <1>2, ServicesImplemented, PTL DEF QuietHoursKept

-----------------------------------------------------------------------------
(* All six services.                                                       *)

\* The state of every service is well typed, however many requests of each of them
\* overlap.
THEOREM AllTypesCorrect ==
  ASSUME ThreadRequests \in Nat, Files!Bounds, TemplateTable!CodesGiven,
         PlanRequests \in Nat, QuietBounds
  PROVE  Spec => []TypesOK
<1>1. Threads!Spec => []Threads!TypeOK
  BY ThreadsTypeCorrect
<1>2. Files!Spec => []Files!TypeOK
  BY Files!TypeCorrect
<1>3. Roles!Spec => []Roles!TypeOK
  BY RolesTypeCorrect
<1>4. TemplateTable!Spec => []TemplateTable!TypeOK
  BY TemplateTable!TypeCorrect
<1>5. PlanTable!Spec => []PlanTable!TypeOK
  BY PlanTable!TypeCorrect
<1>6. Quiet!Spec => []Quiet!TypeOK
  BY QuietTypeCorrect
<1>7. QED
  BY <1>1, <1>2, <1>3, <1>4, <1>5, <1>6, ServicesImplemented, PTL DEF TypesOK

=============================================================================
