------------------------------- MODULE UserRoles -------------------------------
(***************************************************************************)
(* The roles of several users (rows of table users), under the methods of  *)
(* UsersService that an administrator calls.                               *)
(*                                                                         *)
(*   idle -> count -> load -> write -> done                                *)
(*                                                                         *)
(* "count" is the count of super administrators, which only a demotion of  *)
(* one makes.  What else a row holds is in Accounts; here it is enough     *)
(* that other methods save the user they have read, too.                   *)
(***************************************************************************)
EXTENDS Integers, FiniteSets, EntitySave

CONSTANTS
  User,         \* the users of the table
  MaxRequests,  \* bound: requests
  MaxInFlight   \* bound: the requests that overlap

Request == 1 .. MaxRequests
UserRole == {"client", "admin", "super_admin"}
Row == [role : UserRole, isActive : BOOLEAN, deleted : BOOLEAN]

\* A request: its user, the row as read (base) and as it will be saved (local),
\* and the super administrators there were when it counted them.
Memory == [pc : {"idle", "count", "load", "write", "done"}, user : User,
           base : Row, local : Row,
           diff : SUBSET {"role", "isActive", "deleted"}, counted : SUBSET User]

VARIABLES
  users,  \* the table
  req,    \* req[r]: what request r holds in memory
  stale   \* observer: a request saved though what it had checked had changed

vars == <<users, req, stale>>

SuperAdmins == {u \in User : users[u].role = "super_admin" /\ ~users[u].deleted}

SomeRow == [role |-> "client", isActive |-> TRUE, deleted |-> FALSE]
Idle == [pc |-> "idle", user |-> CHOOSE u \in User : TRUE, base |-> SomeRow,
         local |-> SomeRow, diff |-> {}, counted |-> {}]

\* Any roles; the first super administrator is put into the table by a script.
Init ==
  /\ users \in [User -> {[SomeRow EXCEPT !.role = k] : k \in UserRole}]
  /\ SuperAdmins # {}
  /\ req = [r \in Request |-> Idle]
  /\ stale = FALSE

InFlight == {r \in Request : req[r].pc \notin {"idle", "done"}}

Arrives(r) ==
  /\ req[r].pc = "idle"
  /\ \A q \in 1 .. r - 1 : req[q].pc # "idle"
  /\ Cardinality(InFlight) < MaxInFlight

Goes(r, memory) == req' = [req EXCEPT ![r] = memory] /\ UNCHANGED <<users, stale>>

\* Request r has read user u and goes on at pc with the changed copy.
Finds(r, u, pc, local) ==
  /\ Arrives(r)
  /\ ~users[u].deleted
  /\ Goes(r, [Idle EXCEPT !.pc = pc, !.user = u, !.base = users[u], !.local = local])

\* A super administrator is to become something else.
Demotes(base, local) == base.role = "super_admin" /\ local.role # "super_admin"

Sets(r, u, local) ==
  Finds(r, u, IF Demotes(users[u], local) THEN "count" ELSE "load", local)

UpdateRole(r, u) == \E k \in UserRole : Sets(r, u, [users[u] EXCEPT !.role = k])

\* PUT :id sets the role first, and the checks of isActive see the new one.
UpdateUserAdmin(r, u) ==
  \E k \in UserRole, active \in BOOLEAN :
    /\ ~(k = "super_admin" /\ ~active)
    /\ Sets(r, u, [users[u] EXCEPT !.role = k, !.isActive = active])

ToggleActive(r, u) ==
  \E active \in BOOLEAN :
    /\ ~(users[u].role = "super_admin" /\ ~active)
    /\ Finds(r, u, "load", [users[u] EXCEPT !.isActive = active])

DeleteUser(r, u) ==
  /\ users[u].role # "super_admin"
  /\ Finds(r, u, "load", [users[u] EXCEPT !.deleted = TRUE])

\* Any method that saves the user without a change of these columns.
OtherSave(r, u) == Finds(r, u, "load", users[u])

\* Faulty variant of Count: off by one.
CountAny(r) ==
  /\ req[r].pc = "count"
  /\ Cardinality(SuperAdmins) >= 1
  /\ Goes(r, [req[r] EXCEPT !.pc = "load", !.counted = SuperAdmins])

Count(r) ==
  /\ req[r].pc = "count"
  /\ Cardinality(SuperAdmins) > 1
  /\ Goes(r, [req[r] EXCEPT !.pc = "load", !.counted = SuperAdmins])

\* "Cannot demote the last super admin", or any access fails.
Refuse(r) == r \in InFlight /\ Goes(r, [Idle EXCEPT !.pc = "done"])

\* softRemove (the one way to set deleted) updates its one column.
Load(r) ==
  /\ req[r].pc = "load"
  /\ Goes(r, [req[r] EXCEPT !.pc = "write",
                !.diff = IF req[r].local.deleted THEN {"deleted"}
                         ELSE Differing(req[r].local, users[req[r].user])])

Write(r) ==
  LET u == req[r].user
  IN /\ req[r].pc = "write"
     /\ users' = [users EXCEPT ![u] = Patched(users[u], req[r].local, req[r].diff)]
     /\ stale' = (stale \/ users[u] # req[r].base
                  \/ (Demotes(req[r].base, req[r].local) /\ SuperAdmins # req[r].counted))
     /\ req' = [req EXCEPT ![r] = [Idle EXCEPT !.pc = "done"]]

RoleRoutes(r, u) == UpdateRole(r, u) \/ UpdateUserAdmin(r, u)
StatusRoutes(r, u) == ToggleActive(r, u) \/ DeleteUser(r, u)

Next ==
  \E r \in Request :
    \/ \E u \in User : RoleRoutes(r, u) \/ StatusRoutes(r, u) \/ OtherSave(r, u)
    \/ Count(r) \/ Refuse(r) \/ Load(r) \/ Write(r)

Spec == Init /\ [][Next]_vars

-----------------------------------------------------------------------------
(* Properties.                                                             *)

TypeOK ==
  /\ users \in [User -> Row]
  /\ req \in [Request -> Memory]
  /\ stale \in BOOLEAN

\* There is always a super administrator, unless a request saved after what it
\* had checked, the row it read or the super administrators it counted, changed:
\* two demotions of different users do not meet in a row, so no lost update.
SuperAdminRemains == ~stale => SuperAdmins # {}

=============================================================================
