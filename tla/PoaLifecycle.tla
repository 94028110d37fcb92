---------------------------- MODULE PoaLifecycle ----------------------------
(***************************************************************************)
(* The life of one power of attorney (POA) under PoaService               *)
(* (src/src/modules/poa/poa.service.ts), from the insert that creates its *)
(* row.                                                                    *)
(*                                                                         *)
(* An HTTP request runs one method of the service.  Every await on the     *)
(* database is a point where other requests run, so a request is a process *)
(* that advances one database access at a time:                            *)
(*                                                                         *)
(*   idle -> [insert] -> load -> write -> log -> done                      *)
(*     |        \__________\________\______\--> failed                     *)
(*     \--> refused                                                        *)
(*                                                                         *)
(* The step out of "idle" is the method's findOne together with the        *)
(* synchronous code after it: the checks, and the assignments to the       *)
(* entity in memory (local).  repository.save(entity) is two accesses,     *)
(* because TypeORM selects the stored row, keeps the columns in which the  *)
(* entity differs (load), then updates exactly those columns (write).      *)
(* createHistoryRecord is the last access (log); executeInstruction also   *)
(* inserts an execution row first (insert).  Nothing encloses these steps  *)
(* in a transaction or checks a version.                                   *)
(*                                                                         *)
(* Requests are numbered in the order of their first access.  A date       *)
(* column holds the number of the request that stamped it (each new Date   *)
(* is a fresh value), and an encrypted text names the request whose text   *)
(* it is.  Columns no property tells apart (names, address, notes, the     *)
(* rejection reason, the POA type) are left out, and "instructions" stands *)
(* for both instructions and beneficiaries, which the code treats alike.   *)
(***************************************************************************)
EXTENDS Integers, FiniteSets

CONSTANTS
  MaxRequests,   \* bound: the number of requests that ever reach the POA
  MaxInFlight,   \* bound: the requests that overlap (1: one at a time)
  MaxFailures,   \* bound: the requests that end in an error after they began
  MaxRefusals,   \* bound: the requests answered with an error at their start
  Ops,           \* the methods that are called
  Admins,        \* administrators a POA can be assigned to
  UpdateDtos,    \* bodies of PUT /poas/:id that are considered
  NULL           \* an absent value

Form == {"cipher", "plain"}

\* What PUT can do to the three fields: leave or replace the identification;
\* leave, replace or empty the instructions; leave or set the triggers.
UpdateDto == [clientIdentification : BOOLEAN,
              instructions : {"keep", "set", "clear"},
              activationTriggers : {"keep", "some", "none"}]

ASSUME BoundsAssumption == /\ MaxRequests \in Nat
                           /\ MaxInFlight \in Nat
                           /\ MaxFailures \in Nat
                           /\ MaxRefusals \in Nat
ASSUME NullAssumption == /\ NULL \notin Nat
                         /\ NULL \notin [form : Form \cup {"object"}, of : Nat]

Request == 1 .. MaxRequests

Status == {"draft", "pending", "in_review", "approved", "rejected",
           "notarized", "activated", "executed", "completed", "cancelled"}

DateColumn == {"submittedAt", "reviewedAt", "approvedAt",
               "notarizedAt", "activatedAt", "executedAt"}

Column == {"status", "assignedAdminId", "clientIdentification",
           "instructions", "activationTriggers"} \cup DateColumn

\* An identification, as stored or in memory: whose text, in what form.
Text == [form : Form, of : 0 .. MaxRequests]

\* Instructions as stored; in memory they may also be a decrypted object.
StoredObject == Text \cup {NULL}
LiveObject == StoredObject \cup [form : {"object"}, of : 0 .. MaxRequests]

DateValue == Request \cup {NULL}

\* The rows of table poas, and the entities a request holds in memory.
PoaWith(object) ==
  [status : Status, assignedAdminId : Admins \cup {NULL},
   clientIdentification : Text, instructions : object,
   activationTriggers : BOOLEAN,
   submittedAt : DateValue, reviewedAt : DateValue, approvedAt : DateValue,
   notarizedAt : DateValue, activatedAt : DateValue, executedAt : DateValue]

Row == PoaWith(StoredObject)
Entity == PoaWith(LiveObject)

ClientOp == {"update", "submit", "cancel"}
AdminOp == {"assignAdmin", "markInReview", "approve", "reject", "notarize",
            "activate", "executeInstruction"}
Op == ClientOp \cup AdminOp

ASSUME InputsAssumption == /\ NULL \notin Admins
                           /\ UpdateDtos \subseteq UpdateDto
                           /\ Ops \subseteq Op

HistoryRow == [by : 0 .. MaxRequests, action : Op \cup {"create"},
               previousStatus : Status \cup {NULL}, newStatus : Status]

VARIABLES
  row,         \* the POA's row in the database
  history,     \* rows of table poa_history
  executions,  \* rows of table poa_executions, by the request that inserted them
  creation,    \* how far PoaService.create is
  pc,          \* pc[r]: where request r is
  op,          \* op[r]: the method it runs
  before,      \* before[r]: the status it read
  local,       \* local[r]: the entity it holds in memory
  diff,        \* diff[r]: the columns its save will update
  seen         \* observer: every status the row has had

vars == <<row, history, executions, creation, pc, op, before, local, diff, seen>>

Active == {"insert", "load", "write", "log"}
InFlight == {r \in Request : pc[r] \in Active}
Failed == {r \in Request : pc[r] = "failed"}
Creating == creation \in {"inserted", "logged"}

-----------------------------------------------------------------------------
(* EncryptionService, as decryptPoaData uses it.                           *)

Encrypt(r) == [form |-> "cipher", of |-> r]

\* A text that does not decrypt is kept: what results is in clear either way.
DecryptText(t) == [t EXCEPT !.form = "plain"]

\* Faulty variant of DecryptObject: the test of the form is inverted.
DecryptObjectInverted(o) ==
  IF o # NULL /\ o.form = "plain" THEN [form |-> "object", of |-> o.of]
                                  ELSE NULL

\* Instructions that do not decrypt become null, in memory.
DecryptObject(o) ==
  IF o # NULL /\ o.form = "cipher" THEN [form |-> "object", of |-> o.of]
                                   ELSE NULL

\* The entity findOne hands to the client's methods.
Decrypted(e) == [e EXCEPT !.clientIdentification = DecryptText(@),
                          !.instructions = DecryptObject(@)]

\* Faulty variant of Stored: the object itself reaches the text column.
StoredAsIs(o) == o

\* The driver writes an object into a text column as its JSON.
Stored(o) ==
  IF o # NULL /\ o.form = "object" THEN [form |-> "plain", of |-> o.of]
                                   ELSE o

-----------------------------------------------------------------------------
(* create: the row is inserted in Init; the history row and the            *)
(* 'poa.created' event (after a re-read) follow.                           *)

NewPoa(object, triggers) ==
  [status |-> "draft", assignedAdminId |-> NULL,
   clientIdentification |-> Encrypt(0), instructions |-> object,
   activationTriggers |-> triggers,
   submittedAt |-> NULL, reviewedAt |-> NULL, approvedAt |-> NULL,
   notarizedAt |-> NULL, activatedAt |-> NULL, executedAt |-> NULL]

Init ==
  /\ \E object \in {NULL, Encrypt(0)}, triggers \in BOOLEAN :
       row = NewPoa(object, triggers)
  /\ history = {}
  /\ executions = {}
  /\ creation = "inserted"
  /\ pc = [r \in Request |-> "idle"]
  /\ op = [r \in Request |-> NULL]
  /\ before = [r \in Request |-> NULL]
  /\ local = [r \in Request |-> NULL]
  /\ diff = [r \in Request |-> {}]
  /\ seen = {"draft"}

LogCreation ==
  /\ creation = "inserted"
  /\ creation' = "logged"
  /\ history' = history \cup {[by |-> 0, action |-> "create",
                               previousStatus |-> NULL, newStatus |-> "draft"]}
  /\ UNCHANGED <<row, executions, pc, op, before, local, diff, seen>>

AnnounceCreation ==
  /\ creation = "logged"
  /\ creation' = "announced"
  /\ UNCHANGED <<row, history, executions, pc, op, before, local, diff, seen>>

FailCreation ==
  /\ Creating
  /\ Cardinality(Failed) < MaxFailures
  /\ creation' = "failed"
  /\ UNCHANGED <<row, history, executions, pc, op, before, local, diff, seen>>

-----------------------------------------------------------------------------
(* The first step of a method.                                             *)

\* r is the next request to reach the database.
Arrives(r) ==
  /\ pc[r] = "idle"
  /\ \A q \in 1 .. r - 1 : pc[q] # "idle"
  /\ Cardinality(InFlight) + (IF Creating THEN 1 ELSE 0) < MaxInFlight

\* The statuses in which a method does not answer 400.
From ==
  [update |-> {"draft"}, submit |-> {"draft"},
   cancel |-> Status \ {"completed", "executed"},
   assignAdmin |-> Status, markInReview |-> {"pending"},
   approve |-> {"in_review", "pending"}, reject |-> {"in_review", "pending"},
   notarize |-> {"approved"}, activate |-> {"notarized"},
   executeInstruction |-> {"activated"}]

\* Faulty variants of Accepts: a check that was forgotten.
AcceptsAnyApproval(o) == o = "approve" \/ row.status \in From[o]
AcceptsAnyActivation(o) == o = "activate" \/ row.status \in From[o]
AcceptsAnyRejection(o) == o = "reject" \/ row.status \in From[o]

Accepts(o) == row.status \in From[o]

\* Method o reads the row, passes its check and leaves entity in memory.
Begin(r, o, entity, next) ==
  /\ Arrives(r)
  /\ o \in Ops
  /\ Accepts(o)
  /\ pc' = [pc EXCEPT ![r] = next]
  /\ op' = [op EXCEPT ![r] = o]
  /\ before' = [before EXCEPT ![r] = row.status]
  /\ local' = [local EXCEPT ![r] = entity]
  /\ UNCHANGED <<row, history, executions, creation, diff, seen>>

\* Nothing is written: 400 for the status or a missing trigger, 403 for a
\* client who does not own the POA.
Refuse(r, o) ==
  /\ Arrives(r)
  /\ Cardinality({q \in Request : pc[q] = "refused"}) < MaxRefusals
  /\ \/ ~Accepts(o)
     \/ o = "submit" /\ ~row.activationTriggers
     \/ o \in ClientOp
  /\ pc' = [pc EXCEPT ![r] = "refused"]
  /\ op' = [op EXCEPT ![r] = o]
  /\ before' = [before EXCEPT ![r] = row.status]
  /\ UNCHANGED <<row, history, executions, creation, local, diff, seen>>

Updated(e, dto, r) ==
  [e EXCEPT
     !.clientIdentification = IF dto.clientIdentification THEN Encrypt(r) ELSE @,
     !.instructions = CASE dto.instructions = "keep" -> @
                        [] dto.instructions = "set" -> Encrypt(r)
                        [] dto.instructions = "clear" -> NULL,
     !.activationTriggers = IF dto.activationTriggers = "keep" THEN @
                            ELSE dto.activationTriggers = "some"]

Update(r) ==
  \E dto \in UpdateDtos :
    Begin(r, "update", Updated(Decrypted(row), dto, r), "load")

\* Faulty variant of Submit: the date is forgotten.
SubmitUndated(r) ==
  /\ row.activationTriggers
  /\ Begin(r, "submit", [Decrypted(row) EXCEPT !.status = "pending"], "load")

Submit(r) ==
  /\ row.activationTriggers
  /\ Begin(r, "submit",
           [Decrypted(row) EXCEPT !.status = "pending", !.submittedAt = r], "load")

Cancel(r) ==
  Begin(r, "cancel", [Decrypted(row) EXCEPT !.status = "cancelled"], "load")

AssignAdmin(r) ==
  \E admin \in Admins :
    Begin(r, "assignAdmin", [row EXCEPT !.assignedAdminId = admin], "load")

MarkInReview(r) ==
  Begin(r, "markInReview",
        [row EXCEPT !.status = "in_review", !.reviewedAt = r], "load")

Approve(r) ==
  Begin(r, "approve", [row EXCEPT !.status = "approved", !.approvedAt = r], "load")

Reject(r) ==
  Begin(r, "reject", [row EXCEPT !.status = "rejected"], "load")

Notarize(r) ==
  Begin(r, "notarize",
        [row EXCEPT !.status = "notarized", !.notarizedAt = r], "load")

\* Faulty variant of Activate: it stamps another stage's date.
ActivateMisdated(r) ==
  Begin(r, "activate",
        [row EXCEPT !.status = "activated", !.executedAt = r], "load")

Activate(r) ==
  Begin(r, "activate",
        [row EXCEPT !.status = "activated", !.activatedAt = r], "load")

\* Faulty variant of ExecuteInstruction: no execution row is inserted.
ExecuteUnrecorded(r) ==
  Begin(r, "executeInstruction",
        [row EXCEPT !.status = "executed", !.executedAt = r], "load")

\* The entity is changed only after the insert, but no one else sees it before.
ExecuteInstruction(r) ==
  Begin(r, "executeInstruction",
        [row EXCEPT !.status = "executed", !.executedAt = r], "insert")

-----------------------------------------------------------------------------
(* The later steps.                                                        *)

InsertExecution(r) ==
  /\ pc[r] = "insert"
  /\ executions' = executions \cup {r}
  /\ pc' = [pc EXCEPT ![r] = "load"]
  /\ UNCHANGED <<row, history, creation, op, before, local, diff, seen>>

\* save, first half: which columns differ from the stored row.
SaveLoad(r) ==
  /\ pc[r] = "load"
  /\ diff' = [diff EXCEPT ![r] = {c \in Column : local[r][c] # row[c]}]
  /\ pc' = [pc EXCEPT ![r] = "write"]
  /\ UNCHANGED <<row, history, executions, creation, op, before, local, seen>>

\* save, second half: those columns, and no others, are updated.
SaveWrite(r) ==
  /\ pc[r] = "write"
  /\ LET saved == [local[r] EXCEPT !.instructions = Stored(@)]
     IN row' = [c \in Column |-> IF c \in diff[r] THEN saved[c] ELSE row[c]]
  /\ seen' = seen \cup {row'.status}
  /\ pc' = [pc EXCEPT ![r] = "log"]
  /\ UNCHANGED <<history, executions, creation, op, before, local, diff>>

\* Faulty variants of Entry: the old status as the new one; a copied constant.
EntryOldStatus(r) == [by |-> r, action |-> op[r], previousStatus |-> before[r],
                      newStatus |-> before[r]]
EntryFromDraft(r) == [by |-> r, action |-> op[r], previousStatus |-> "draft",
                      newStatus |-> local[r].status]

\* createHistoryRecord: the status that was read and the one that was set.
Entry(r) == [by |-> r, action |-> op[r], previousStatus |-> before[r],
             newStatus |-> local[r].status]

Log(r) ==
  /\ pc[r] = "log"
  /\ history' = history \cup {Entry(r)}
  /\ pc' = [pc EXCEPT ![r] = "done"]
  /\ local' = [local EXCEPT ![r] = NULL]
  /\ diff' = [diff EXCEPT ![r] = {}]
  /\ UNCHANGED <<row, executions, creation, op, before, seen>>

\* The pending access throws, or the process dies: what is written stays
\* written, and nothing resumes the rest.
Fail(r) ==
  /\ pc[r] \in Active
  /\ Cardinality(Failed) < MaxFailures
  /\ pc' = [pc EXCEPT ![r] = "failed"]
  /\ UNCHANGED <<row, history, executions, creation, op, before, local, diff, seen>>

Start(r) ==
  \/ Update(r) \/ Submit(r) \/ Cancel(r)
  \/ AssignAdmin(r) \/ MarkInReview(r) \/ Approve(r) \/ Reject(r)
  \/ Notarize(r) \/ Activate(r) \/ ExecuteInstruction(r)
  \/ \E o \in Ops : Refuse(r, o)

Advance(r) ==
  InsertExecution(r) \/ SaveLoad(r) \/ SaveWrite(r) \/ Log(r) \/ Fail(r)

Next ==
  \/ LogCreation \/ AnnounceCreation \/ FailCreation
  \/ \E r \in Request : Start(r) \/ Advance(r)

Spec == Init /\ [][Next]_vars

-----------------------------------------------------------------------------
(* Properties.                                                             *)

\* Every variable has its type; a request that is between its first and its
\* last access holds an entity.
TypeOK ==
  /\ row \in Row
  /\ history \subseteq HistoryRow
  /\ executions \subseteq Request
  /\ creation \in {"inserted", "logged", "announced", "failed"}
  /\ pc \in [Request -> {"idle", "done", "refused", "failed"} \cup Active]
  /\ op \in [Request -> Op \cup {NULL}]
  /\ before \in [Request -> Status \cup {NULL}]
  /\ local \in [Request -> Entity \cup {NULL}]
  /\ diff \in [Request -> SUBSET Column]
  /\ seen \subseteq Status
  /\ \A r \in InFlight \cup Failed :
       op[r] \in Op /\ before[r] \in Status /\ local[r] \in Entity

\* However requests overlap and fail, the POA never skips a stage: the row is
\* never notarized before it was approved, activated before it was notarized,
\* executed before it was activated, and it was submitted before all of them.
\* Stale saves can move the status back, but not past a check no one passed.
StageOrder ==
  /\ {"draft", row.status} \subseteq seen
  /\ seen \cap {"in_review", "approved", "rejected"} # {} => "pending" \in seen
  /\ "notarized" \in seen => "approved" \in seen
  /\ "activated" \in seen => "notarized" \in seen
  /\ "executed" \in seen => "activated" \in seen
  /\ executions # {} => "activated" \in seen

\* A date in the row is evidence: the POA did reach the stage it dates, even
\* when stale saves later changed the status or other dates.
StageOf ==
  [submittedAt |-> "pending", reviewedAt |-> "in_review",
   approvedAt |-> "approved", notarizedAt |-> "notarized",
   activatedAt |-> "activated", executedAt |-> "executed"]

DatesAreEvidence ==
  \A c \in DateColumn : row[c] # NULL => StageOf[c] \in seen

\* The audit trail never lies: both statuses of every history row were held
\* by the POA, and an 'executed' entry has its execution record.
AuditIsSound ==
  \A h \in history :
    /\ h.newStatus \in seen
    /\ h.previousStatus \in seen \cup {NULL}
    /\ h.action = "executeInstruction" => h.by \in executions

\* What the audit trail misses is only what a request still in flight is about
\* to log, or what one that failed after its save never did.
AuditMissesOnlyUnlogged ==
  \A s \in seen :
    \/ \E h \in history : h.newStatus = s
    \/ \E r \in Request : pc[r] \in {"log", "failed"} /\ local[r].status = s
    \/ s = "draft" /\ creation \in {"inserted", "failed"}

=============================================================================
