--------------------------------- MODULE Plans ---------------------------------
(***************************************************************************)
(* The table plans under PlansService.                                     *)
(*                                                                         *)
(*   a seed      idle -> insert -> ... -> insert -> done                   *)
(*   a request   idle -> load -> write -> done                             *)
(*                                                                         *)
(* The seed runs whenever an instance of the service starts, and on an     *)
(* administrator's request: it counts the plans and, when there are none,  *)
(* inserts the default ones, each in an access of its own.  The type of a  *)
(* plan is unique.  Prices, texts and Stripe's ids are one value, named by *)
(* the request that wrote it.  hardRemove has no caller: no row goes away. *)
(***************************************************************************)
EXTENDS Integers, FiniteSets, EntitySave

CONSTANTS
  MaxRequests,  \* bound: requests and starts of the service
  MaxInFlight   \* bound: those that overlap

Request == 1 .. MaxRequests
PlanType == {"basic", "standard", "premium"}
Id == Request \X PlanType
PlanStatus == {"active", "inactive", "deprecated"}
Row == [type : PlanType, status : PlanStatus, terms : Request]
NoRow == [type |-> "none"]

Memory == [pc : {"idle", "insert", "load", "write", "done"},
           id : Id, entity : Row, diff : SUBSET {"type", "status", "terms"}]
Idle == [pc |-> "idle", id |-> <<1, "basic">>,
         entity |-> [type |-> "basic", status |-> "active", terms |-> 1], diff |-> {}]

VARIABLES
  table,   \* table[i]: the plan with id i, or NoRow
  req,     \* req[r]: what request r holds in memory
  looped,  \* observer: a seed has inserted its last plan
  retyped  \* observer: an administrator has changed the type of a plan

vars == <<table, req, looped, retyped>>

Init ==
  /\ table = [i \in Id |-> NoRow]
  /\ req = [r \in Request |-> Idle]
  /\ looped = FALSE /\ retyped = FALSE

InFlight == {r \in Request : req[r].pc \notin {"idle", "done"}}
Stored == {i \in Id : table[i] # NoRow}
Types == {table[i].type : i \in Stored}

Arrives(r) ==
  /\ req[r].pc = "idle"
  /\ \A q \in 1 .. r - 1 : req[q].pc # "idle"
  /\ Cardinality(InFlight) < MaxInFlight

Goes(r, memory) == req' = [req EXCEPT ![r] = memory]
Done == [Idle EXCEPT !.pc = "done"]

Default(r, t) == [type |-> t, status |-> "active", terms |-> r]

\* Request r goes on at pc with entity as plan i.
Holds(r, pc, i, entity) ==
  /\ Arrives(r)
  /\ Goes(r, [Idle EXCEPT !.pc = pc, !.id = i, !.entity = entity])
  /\ UNCHANGED <<table, looped, retyped>>

-----------------------------------------------------------------------------
(* The methods.                                                            *)

\* onModuleInit, and POST plans/seed: nothing, once there is a plan.
SeedDefaultPlans(r) ==
  IF Stored = {} THEN Holds(r, "insert", <<r, "basic">>, Default(r, "basic"))
  ELSE /\ Arrives(r)
       /\ Goes(r, Done)
       /\ UNCHANGED <<table, looped, retyped>>

\* The order in which the default plans are inserted.
After == [basic |-> "standard", standard |-> "premium", premium |-> "end"]

\* Faulty variant of InsertDefault: it skips a plan.
InsertSkipping(r) ==
  LET t == req[r].entity.type
      next == IF t = "basic" THEN "premium" ELSE "end"
  IN /\ req[r].pc = "insert"
     /\ t \notin Types
     /\ table' = [table EXCEPT ![req[r].id] = req[r].entity]
     /\ Goes(r, IF next = "end" THEN Done
                ELSE [req[r] EXCEPT !.id = <<r, next>>, !.entity = Default(r, next)])
     /\ looped' = (looped \/ next = "end")
     /\ retyped' = retyped

\* An insert of a type that is there fails.
InsertDefault(r) ==
  LET t == req[r].entity.type
      next == After[t]
  IN /\ req[r].pc = "insert"
     /\ t \notin Types
     /\ table' = [table EXCEPT ![req[r].id] = req[r].entity]
     /\ Goes(r, IF next = "end" THEN Done
                ELSE [req[r] EXCEPT !.id = <<r, next>>, !.entity = Default(r, next)])
     /\ looped' = (looped \/ next = "end")
     /\ retyped' = retyped

Create(r) ==
  \E t \in PlanType \ Types, s \in PlanStatus :
    Holds(r, "write", <<r, t>>, [type |-> t, status |-> s, terms |-> r])

\* Any of the fields; another type must be free.
Update(r) ==
  \E i \in Stored :
    \E t \in (PlanType \ Types) \cup {table[i].type}, s \in PlanStatus :
      Holds(r, "load", i, [type |-> t, status |-> s, terms |-> r])

DeactivatePlan(r) ==
  \E i \in Stored : Holds(r, "load", i, [table[i] EXCEPT !.status = "inactive"])

UpdateStripeIds(r) ==
  \E i \in Stored : Holds(r, "load", i, [table[i] EXCEPT !.terms = r])

Load(r) ==
  /\ req[r].pc = "load"
  /\ Goes(r, [req[r] EXCEPT !.pc = "write",
                            !.diff = Differing(req[r].entity, table[req[r].id])])
  /\ UNCHANGED <<table, looped, retyped>>

\* The row of a new plan is inserted, that of another one updated, unless its
\* type is taken by then.
Write(r) ==
  LET i == req[r].id
      row == IF i \in Stored THEN Patched(table[i], req[r].entity, req[r].diff)
             ELSE req[r].entity
  IN /\ req[r].pc = "write"
     /\ \A j \in Stored \ {i} : table[j].type # row.type
     /\ table' = [table EXCEPT ![i] = row]
     /\ retyped' = (retyped \/ (i \in Stored /\ row.type # table[i].type))
     /\ Goes(r, Done)
     /\ looped' = looped

\* An access fails, or a type is taken, or the service stops.
Fails(r) ==
  /\ r \in InFlight
  /\ Goes(r, Done)
  /\ UNCHANGED <<table, looped, retyped>>

AdminRoutes(r) ==
  SeedDefaultPlans(r) \/ Create(r) \/ Update(r) \/ DeactivatePlan(r) \/ UpdateStripeIds(r)

Next ==
  \E r \in Request :
    AdminRoutes(r) \/ InsertDefault(r) \/ Load(r) \/ Write(r) \/ Fails(r)

Spec == Init /\ [][Next]_vars

-----------------------------------------------------------------------------
(* Properties.                                                             *)

TypeOK ==
  /\ table \in [Id -> Row \cup {NoRow}]
  /\ req \in [Request -> Memory]
  /\ looped \in BOOLEAN /\ retyped \in BOOLEAN

\* A seed that got to its end leaves a plan of each type, and one only, even if
\* another instance seeded at the same time, some of the others failed, and
\* administrators edited plans meanwhile.  (A seed that fails half-way is never
\* taken up again, as the next one counts the plans that are there.)
SeedIsWhole ==
  /\ \A i, j \in Stored : i # j => table[i].type # table[j].type
  /\ looped /\ ~retyped => Types = PlanType

=============================================================================
