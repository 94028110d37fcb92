------------------------- MODULE PoaLifecycleProofs -------------------------
(***************************************************************************)
(* Proofs about PoaLifecycle, for every number of requests, any overlap    *)
(* and any number of failures.                                             *)
(***************************************************************************)
EXTENDS PoaPromises, FiniteSetTheorems, TLAPS

-----------------------------------------------------------------------------
(* The entities the methods build have the type of an entity.              *)

\* What findOne reads is an entity before anything is assigned.
LEMMA RowIsEntity == Row \subseteq Entity
BY DEF Row, Entity, PoaWith, LiveObject

\* Decrypting yields a text in clear of the same author.
LEMMA DecryptTextType ==
  ASSUME NEW t \in Text PROVE DecryptText(t) \in Text
BY DEF DecryptText, Text, Form

\* Decrypting instructions yields an object, or null.
LEMMA DecryptObjectType ==
  ASSUME NEW o \in StoredObject PROVE DecryptObject(o) \in LiveObject
BY DEF DecryptObject, StoredObject, LiveObject, Text, Form

\* An encrypted text is a text of the request that supplied it.
LEMMA EncryptType ==
  ASSUME NEW r \in 0 .. MaxRequests PROVE Encrypt(r) \in Text
BY DEF Encrypt, Text, Form

\* What the driver writes is a stored object.
LEMMA StoredType ==
  ASSUME NEW o \in LiveObject PROVE Stored(o) \in StoredObject
BY DEF Stored, StoredObject, LiveObject, Text, Form

\* The entity findOne hands to the client's methods.
LEMMA DecryptedType ==
  ASSUME NEW e \in Row PROVE Decrypted(e) \in Entity
<1>1. DecryptText(e.clientIdentification) \in Text
  BY DecryptTextType DEF Row, PoaWith
<1>2. DecryptObject(e.instructions) \in LiveObject
  BY DecryptObjectType DEF Row, PoaWith
<1>3. QED
  BY <1>1, <1>2 DEF Decrypted, Row, Entity, PoaWith

\* An update leaves an entity.
LEMMA UpdatedType ==
  ASSUME NEW e \in Entity, NEW dto \in UpdateDto, NEW r \in Request
  PROVE  Updated(e, dto, r) \in Entity
<1>1. Encrypt(r) \in Text
  BY EncryptType DEF Request
<1>2. Encrypt(r) \in LiveObject /\ NULL \in LiveObject
  BY <1>1 DEF LiveObject, StoredObject
<1>3. QED
  BY <1>1, <1>2 DEF Updated, Entity, PoaWith, UpdateDto

-----------------------------------------------------------------------------
(* Type correctness.                                                       *)

LEMMA InitTypeOK == Init => TypeOK
<1> SUFFICES ASSUME Init PROVE TypeOK
  OBVIOUS
<1>1. row \in Row
  <2>1. PICK object \in {NULL, Encrypt(0)}, triggers \in BOOLEAN :
          row = NewPoa(object, triggers)
    BY DEF Init
  <2>2. Encrypt(0) \in Text
    BY EncryptType, BoundsAssumption
  <2>3. QED
    BY <2>1, <2>2 DEF NewPoa, Row, PoaWith, StoredObject, Status, DateValue
<1>2. QED
  BY <1>1 DEF Init, TypeOK, Active, InFlight, Failed, Status

\* Beginning a method preserves the types, whatever entity it leaves.
LEMMA BeginTypeOK ==
  ASSUME TypeOK, NEW r \in Request, NEW o \in Op, NEW entity \in Entity,
         NEW next \in Active, Begin(r, o, entity, next)
  PROVE  TypeOK'
BY DEF TypeOK, Begin, Active, InFlight, Failed, Row, PoaWith

LEMMA StartTypeOK ==
  ASSUME TypeOK, NEW r \in Request, Start(r)
  PROVE  TypeOK'
<1> USE DEF Op, ClientOp, AdminOp, Active
<1>0. row \in Row /\ row \in Entity /\ Decrypted(row) \in Entity
  BY RowIsEntity, DecryptedType DEF TypeOK
<1>d. r \in DateValue
  BY DEF DateValue
<1>1. CASE Update(r)
  <2>1. PICK dto \in UpdateDtos :
          Begin(r, "update", Updated(Decrypted(row), dto, r), "load")
    BY <1>1 DEF Update
  <2>2. Updated(Decrypted(row), dto, r) \in Entity
    BY <1>0, UpdatedType, InputsAssumption
  <2>3. QED
    BY <2>1, <2>2, BeginTypeOK
<1>2. CASE Submit(r)
  <2>1. [Decrypted(row) EXCEPT !.status = "pending", !.submittedAt = r] \in Entity
    BY <1>0, <1>d DEF Entity, PoaWith, Status
  <2>2. QED
    BY <1>2, <2>1, BeginTypeOK DEF Submit
<1>3. CASE Cancel(r)
  <2>1. [Decrypted(row) EXCEPT !.status = "cancelled"] \in Entity
    BY <1>0 DEF Entity, PoaWith, Status
  <2>2. QED
    BY <1>3, <2>1, BeginTypeOK DEF Cancel
<1>4. CASE AssignAdmin(r)
  <2>1. PICK admin \in Admins :
          Begin(r, "assignAdmin", [row EXCEPT !.assignedAdminId = admin], "load")
    BY <1>4 DEF AssignAdmin
  <2>2. [row EXCEPT !.assignedAdminId = admin] \in Entity
    BY <1>0 DEF Entity, PoaWith
  <2>3. QED
    BY <2>1, <2>2, BeginTypeOK
<1>5. CASE MarkInReview(r)
  <2>1. [row EXCEPT !.status = "in_review", !.reviewedAt = r] \in Entity
    BY <1>0, <1>d DEF Entity, PoaWith, Status
  <2>2. QED
    BY <1>5, <2>1, BeginTypeOK DEF MarkInReview
<1>6. CASE Approve(r)
  <2>1. [row EXCEPT !.status = "approved", !.approvedAt = r] \in Entity
    BY <1>0, <1>d DEF Entity, PoaWith, Status
  <2>2. QED
    BY <1>6, <2>1, BeginTypeOK DEF Approve
<1>7. CASE Reject(r)
  <2>1. [row EXCEPT !.status = "rejected"] \in Entity
    BY <1>0 DEF Entity, PoaWith, Status
  <2>2. QED
    BY <1>7, <2>1, BeginTypeOK DEF Reject
<1>8. CASE Notarize(r)
  <2>1. [row EXCEPT !.status = "notarized", !.notarizedAt = r] \in Entity
    BY <1>0, <1>d DEF Entity, PoaWith, Status
  <2>2. QED
    BY <1>8, <2>1, BeginTypeOK DEF Notarize
<1>9. CASE Activate(r)
  <2>1. [row EXCEPT !.status = "activated", !.activatedAt = r] \in Entity
    BY <1>0, <1>d DEF Entity, PoaWith, Status
  <2>2. QED
    BY <1>9, <2>1, BeginTypeOK DEF Activate
<1>10. CASE ExecuteInstruction(r)
  <2>1. [row EXCEPT !.status = "executed", !.executedAt = r] \in Entity
    BY <1>0, <1>d DEF Entity, PoaWith, Status
  <2>2. QED
    BY <1>10, <2>1, BeginTypeOK DEF ExecuteInstruction
<1>11. CASE \E o \in Ops : Refuse(r, o)
  <2>1. PICK o \in Ops : Refuse(r, o)
    BY <1>11
  <2>2. o \in Op /\ row.status \in Status
    BY <1>0, InputsAssumption DEF Row, PoaWith
  <2>3. QED
    BY <2>1, <2>2 DEF TypeOK, Refuse, InFlight, Failed
<1>12. QED
  BY <1>1, <1>2, <1>3, <1>4, <1>5, <1>6, <1>7, <1>8, <1>9, <1>10, <1>11
     DEF Start

\* What a save writes: each column from the entity in memory or as it was.
LEMMA WrittenRowType ==
  ASSUME TypeOK, NEW r \in Request, SaveWrite(r)
  PROVE  /\ row' \in Row
         /\ row'.status = IF "status" \in diff[r] THEN local[r].status ELSE row.status
<1> DEFINE saved == [local[r] EXCEPT !.instructions = Stored(@)]
<1>1. local[r] \in Entity
  BY DEF SaveWrite, TypeOK, InFlight, Active
<1>2. saved \in Row /\ saved.status = local[r].status
  <2>1. Stored(local[r].instructions) \in StoredObject
    BY <1>1, StoredType DEF Entity, PoaWith
  <2>2. QED
    BY <1>1, <2>1 DEF Row, Entity, PoaWith
<1>3. row' = [c \in Column |-> IF c \in diff[r] THEN saved[c] ELSE row[c]]
  BY DEF SaveWrite
<1>4. row \in Row
  BY DEF TypeOK
<1> HIDE DEF saved
<1>5. row' \in Row
  BY <1>2, <1>3, <1>4 DEF Row, PoaWith, Column, DateColumn
<1>6. QED
  BY <1>2, <1>3, <1>5 DEF Column

LEMMA AdvanceTypeOK ==
  ASSUME TypeOK, NEW r \in Request, Advance(r)
  PROVE  TypeOK'
<1> USE DEF Active, InFlight, Failed
<1>1. CASE InsertExecution(r)
  BY <1>1 DEF TypeOK, InsertExecution
<1>2. CASE SaveLoad(r)
  BY <1>2 DEF TypeOK, SaveLoad
<1>3. CASE SaveWrite(r)
  <2>1. row' \in Row /\ row'.status \in Status
    BY <1>3, WrittenRowType DEF Row, PoaWith
  <2>2. QED
    BY <1>3, <2>1 DEF TypeOK, SaveWrite
<1>4. CASE Log(r)
  <2>1. Entry(r) \in HistoryRow
    BY <1>4 DEF Log, Entry, TypeOK, HistoryRow, Entity, PoaWith, Request
  <2>2. QED
    BY <1>4, <2>1 DEF TypeOK, Log
<1>5. CASE Fail(r)
  BY <1>5 DEF TypeOK, Fail
<1>6. QED
  BY <1>1, <1>2, <1>3, <1>4, <1>5 DEF Advance

LEMMA NextTypeOK == TypeOK /\ [Next]_vars => TypeOK'
<1> SUFFICES ASSUME TypeOK, [Next]_vars PROVE TypeOK'
  OBVIOUS
<1>1. CASE LogCreation
  <2>1. [by |-> 0, action |-> "create", previousStatus |-> NULL,
         newStatus |-> "draft"] \in HistoryRow
    BY BoundsAssumption DEF HistoryRow, Status
  <2>2. QED
    BY <1>1, <2>1 DEF TypeOK, LogCreation, InFlight, Failed
<1>2. CASE AnnounceCreation
  BY <1>2 DEF TypeOK, AnnounceCreation, InFlight, Failed
<1>3. CASE FailCreation
  BY <1>3 DEF TypeOK, FailCreation, InFlight, Failed
<1>4. CASE \E r \in Request : Start(r) \/ Advance(r)
  BY <1>4, StartTypeOK, AdvanceTypeOK
<1>5. CASE UNCHANGED vars
  BY <1>5 DEF TypeOK, vars, InFlight, Failed
<1>6. QED
  BY <1>1, <1>2, <1>3, <1>4, <1>5 DEF Next

\* Every reachable state is well typed.
THEOREM TypeCorrect == Spec => []TypeOK
<1>1. Init => TypeOK
  BY InitTypeOK
<1>2. TypeOK /\ [Next]_vars => TypeOK'
  BY NextTypeOK
<1>3. QED
  BY <1>1, <1>2, PTL DEF Spec

-----------------------------------------------------------------------------
(* The evidence invariant.                                                 *)

\* A status the flow allows stays allowed when more statuses have been held.
LEMMA ReachableGrows ==
  ASSUME NEW s, NEW held, NEW later, Trail!Reachable(s, held), held \subseteq later
  PROVE  Trail!Reachable(s, later)
BY DEF Trail!Reachable, Trail!Documented!Flow, Trail!Documented!Cancellable

LEMMA InitEvidence == Init => EvidenceInv
<1> SUFFICES ASSUME Init PROVE EvidenceInv
  OBVIOUS
<1>1. row.status = "draft" /\ \A c \in DateColumn : row[c] = NULL
  <2>1. PICK object \in {NULL, Encrypt(0)}, triggers \in BOOLEAN :
          row = NewPoa(object, triggers)
    BY DEF Init
  <2>2. QED
    BY <2>1 DEF NewPoa, DateColumn
<1>2. \A r \in Request : pc[r] = "idle"
  BY DEF Init
<1>3. QED
  BY <1>1, <1>2 DEF Init, EvidenceInv, StageOrder, DatesAreEvidence,
     AuditIsSound, ReadsWereStored, CarriedDatesAreEvidence,
     UnwrittenStatusIsStored, ExecutionsComeFirst, InFlight, Active

\* A method keeps the invariant at its first step when the status it sets is
\* one the flow allows, and it dates no other stage.
LEMMA BeginEvidence ==
  ASSUME TypeOK, EvidenceInv,
         NEW r \in Request, NEW o \in Op, NEW entity \in Entity,
         NEW next \in {"insert", "load"},
         Begin(r, o, entity, next),
         Trail!Reachable(entity.status, seen),
         \A c \in DateColumn :
           entity[c] # NULL => row[c] # NULL \/ StageOf[c] = entity.status,
         next = "insert" => row.status = "activated",
         o = "executeInstruction" => next = "insert"
  PROVE  EvidenceInv'
<1> USE DEF Begin, Accepts
<1>1. /\ pc' = [pc EXCEPT ![r] = next] /\ op' = [op EXCEPT ![r] = o]
      /\ before' = [before EXCEPT ![r] = row.status]
      /\ local' = [local EXCEPT ![r] = entity]
      /\ UNCHANGED <<row, history, executions, creation, diff, seen>>
  OBVIOUS
<1>2. row.status \in seen
  BY DEF EvidenceInv, StageOrder
<1>3. (StageOrder /\ DatesAreEvidence /\ AuditIsSound)'
  BY <1>1 DEF EvidenceInv, StageOrder, DatesAreEvidence, AuditIsSound
<1>4. ReadsWereStored'
  <2>1. SUFFICES ASSUME NEW q \in Request, pc'[q] \in Active
                 PROVE  before'[q] \in seen' /\ Trail!Reachable(local'[q].status, seen')
    BY DEF ReadsWereStored, InFlight
  <2>2. CASE q = r
    BY <2>2, <1>1, <1>2 DEF TypeOK
  <2>3. CASE q # r
    <3>1. before[q] \in seen /\ Trail!Reachable(local[q].status, seen)
      BY <2>1, <2>3, <1>1 DEF EvidenceInv, ReadsWereStored, InFlight, TypeOK
    <3>2. QED
      BY <3>1, <2>3, <1>1 DEF TypeOK
  <2>4. QED
    BY <2>2, <2>3
<1>5. CarriedDatesAreEvidence'
  BY <1>1 DEF EvidenceInv, CarriedDatesAreEvidence, DatesAreEvidence,
     InFlight, TypeOK
<1>6. UnwrittenStatusIsStored' /\ ExecutionsComeFirst'
  BY <1>1, <1>2 DEF EvidenceInv, UnwrittenStatusIsStored, ExecutionsComeFirst,
     TypeOK
<1>7. QED
  BY <1>3, <1>4, <1>5, <1>6 DEF EvidenceInv

\* Every method's check makes the status it sets one the flow allows.
LEMMA StartEvidence ==
  ASSUME TypeOK, EvidenceInv, NEW r \in Request, Start(r)
  PROVE  EvidenceInv'
<1> USE DEF Op, ClientOp, AdminOp
<1>0. /\ row \in Row /\ row \in Entity /\ Decrypted(row) \in Entity
      /\ row.status \in seen /\ Trail!Reachable(row.status, seen)
      /\ Decrypted(row).status = row.status
      /\ \A c \in DateColumn : Decrypted(row)[c] = row[c]
  <2>1. row \in Row /\ row \in Entity /\ Decrypted(row) \in Entity
    BY RowIsEntity, DecryptedType DEF TypeOK
  <2>2. row.status \in seen
    BY DEF EvidenceInv, StageOrder
  <2>3. Trail!Reachable(row.status, seen)
    BY <2>2 DEF Trail!Reachable
  <2>4. /\ Decrypted(row).status = row.status
        /\ \A c \in DateColumn : Decrypted(row)[c] = row[c]
    BY <2>1 DEF Decrypted, Row, PoaWith, DateColumn
  <2>5. QED
    BY <2>1, <2>2, <2>3, <2>4
<1>d. r \in DateValue
  BY DEF DateValue
<1>1. CASE Submit(r)
  <2> DEFINE entity == [Decrypted(row) EXCEPT !.status = "pending", !.submittedAt = r]
  <2>1. entity \in Entity /\ Trail!Reachable(entity.status, seen)
    BY <1>1, <1>0, <1>d DEF Submit, Begin, Accepts, From, Entity, PoaWith, Status,
       Trail!Reachable, Trail!Documented!Flow, Trail!Documented!Cancellable
  <2>2. \A c \in DateColumn :
          entity[c] # NULL => row[c] # NULL \/ StageOf[c] = entity.status
    <3>1. entity.status = "pending" /\ StageOf["submittedAt"] = "pending"
      BY <1>0 DEF Entity, PoaWith, StageOf
    <3>2. \A c \in DateColumn : c # "submittedAt" => entity[c] = row[c]
      BY <1>0 DEF Row, Entity, PoaWith, DateColumn
    <3>3. QED
      BY <3>1, <3>2
  <2> HIDE DEF entity
  <2>3. QED
    BY <1>1, <2>1, <2>2, BeginEvidence DEF Submit, Begin, Accepts, From, entity
<1>2. CASE Cancel(r)
  <2> DEFINE entity == [Decrypted(row) EXCEPT !.status = "cancelled"]
  <2>1. entity \in Entity /\ Trail!Reachable(entity.status, seen)
    BY <1>2, <1>0, <1>d DEF Cancel, Begin, Accepts, From, Entity, PoaWith, Status,
       Trail!Reachable, Trail!Documented!Flow, Trail!Documented!Cancellable
  <2>2. \A c \in DateColumn :
          entity[c] # NULL => row[c] # NULL \/ StageOf[c] = entity.status
    BY <1>0 DEF Entity, PoaWith, DateColumn, StageOf
  <2> HIDE DEF entity
  <2>3. QED
    BY <1>2, <2>1, <2>2, BeginEvidence DEF Cancel, Begin, Accepts, From, entity
<1>3. CASE MarkInReview(r)
  <2> DEFINE entity == [row EXCEPT !.status = "in_review", !.reviewedAt = r]
  <2>1. entity \in Entity /\ Trail!Reachable(entity.status, seen)
    BY <1>3, <1>0, <1>d DEF MarkInReview, Begin, Accepts, From, Entity, PoaWith, Status,
       Trail!Reachable, Trail!Documented!Flow, Trail!Documented!Cancellable
  <2>2. \A c \in DateColumn :
          entity[c] # NULL => row[c] # NULL \/ StageOf[c] = entity.status
    <3>1. entity.status = "in_review" /\ StageOf["reviewedAt"] = "in_review"
      BY <1>0 DEF Entity, PoaWith, StageOf
    <3>2. \A c \in DateColumn : c # "reviewedAt" => entity[c] = row[c]
      BY <1>0 DEF Row, Entity, PoaWith, DateColumn
    <3>3. QED
      BY <3>1, <3>2
  <2> HIDE DEF entity
  <2>3. QED
    BY <1>3, <2>1, <2>2, BeginEvidence DEF MarkInReview, Begin, Accepts, From, entity
<1>4. CASE Approve(r)
  <2> DEFINE entity == [row EXCEPT !.status = "approved", !.approvedAt = r]
  <2>1. entity \in Entity /\ Trail!Reachable(entity.status, seen)
    BY <1>4, <1>0, <1>d DEF Approve, Begin, Accepts, From, Entity, PoaWith, Status,
       Trail!Reachable, Trail!Documented!Flow, Trail!Documented!Cancellable
  <2>2. \A c \in DateColumn :
          entity[c] # NULL => row[c] # NULL \/ StageOf[c] = entity.status
    <3>1. entity.status = "approved" /\ StageOf["approvedAt"] = "approved"
      BY <1>0 DEF Entity, PoaWith, StageOf
    <3>2. \A c \in DateColumn : c # "approvedAt" => entity[c] = row[c]
      BY <1>0 DEF Row, Entity, PoaWith, DateColumn
    <3>3. QED
      BY <3>1, <3>2
  <2> HIDE DEF entity
  <2>3. QED
    BY <1>4, <2>1, <2>2, BeginEvidence DEF Approve, Begin, Accepts, From, entity
<1>5. CASE Reject(r)
  <2> DEFINE entity == [row EXCEPT !.status = "rejected"]
  <2>1. entity \in Entity /\ Trail!Reachable(entity.status, seen)
    BY <1>5, <1>0, <1>d DEF Reject, Begin, Accepts, From, Entity, PoaWith, Status,
       Trail!Reachable, Trail!Documented!Flow, Trail!Documented!Cancellable
  <2>2. \A c \in DateColumn :
          entity[c] # NULL => row[c] # NULL \/ StageOf[c] = entity.status
    BY <1>0 DEF Entity, PoaWith, DateColumn, StageOf
  <2> HIDE DEF entity
  <2>3. QED
    BY <1>5, <2>1, <2>2, BeginEvidence DEF Reject, Begin, Accepts, From, entity
<1>6. CASE Notarize(r)
  <2> DEFINE entity == [row EXCEPT !.status = "notarized", !.notarizedAt = r]
  <2>1. entity \in Entity /\ Trail!Reachable(entity.status, seen)
    BY <1>6, <1>0, <1>d DEF Notarize, Begin, Accepts, From, Entity, PoaWith, Status,
       Trail!Reachable, Trail!Documented!Flow, Trail!Documented!Cancellable
  <2>2. \A c \in DateColumn :
          entity[c] # NULL => row[c] # NULL \/ StageOf[c] = entity.status
    <3>1. entity.status = "notarized" /\ StageOf["notarizedAt"] = "notarized"
      BY <1>0 DEF Entity, PoaWith, StageOf
    <3>2. \A c \in DateColumn : c # "notarizedAt" => entity[c] = row[c]
      BY <1>0 DEF Row, Entity, PoaWith, DateColumn
    <3>3. QED
      BY <3>1, <3>2
  <2> HIDE DEF entity
  <2>3. QED
    BY <1>6, <2>1, <2>2, BeginEvidence DEF Notarize, Begin, Accepts, From, entity
<1>7. CASE Activate(r)
  <2> DEFINE entity == [row EXCEPT !.status = "activated", !.activatedAt = r]
  <2>1. entity \in Entity /\ Trail!Reachable(entity.status, seen)
    BY <1>7, <1>0, <1>d DEF Activate, Begin, Accepts, From, Entity, PoaWith, Status,
       Trail!Reachable, Trail!Documented!Flow, Trail!Documented!Cancellable
  <2>2. \A c \in DateColumn :
          entity[c] # NULL => row[c] # NULL \/ StageOf[c] = entity.status
    <3>1. entity.status = "activated" /\ StageOf["activatedAt"] = "activated"
      BY <1>0 DEF Entity, PoaWith, StageOf
    <3>2. \A c \in DateColumn : c # "activatedAt" => entity[c] = row[c]
      BY <1>0 DEF Row, Entity, PoaWith, DateColumn
    <3>3. QED
      BY <3>1, <3>2
  <2> HIDE DEF entity
  <2>3. QED
    BY <1>7, <2>1, <2>2, BeginEvidence DEF Activate, Begin, Accepts, From, entity
<1>8. CASE ExecuteInstruction(r)
  <2> DEFINE entity == [row EXCEPT !.status = "executed", !.executedAt = r]
  <2>1. entity \in Entity /\ Trail!Reachable(entity.status, seen)
    BY <1>8, <1>0, <1>d DEF ExecuteInstruction, Begin, Accepts, From, Entity, PoaWith, Status,
       Trail!Reachable, Trail!Documented!Flow, Trail!Documented!Cancellable
  <2>2. \A c \in DateColumn :
          entity[c] # NULL => row[c] # NULL \/ StageOf[c] = entity.status
    <3>1. entity.status = "executed" /\ StageOf["executedAt"] = "executed"
      BY <1>0 DEF Entity, PoaWith, StageOf
    <3>2. \A c \in DateColumn : c # "executedAt" => entity[c] = row[c]
      BY <1>0 DEF Row, Entity, PoaWith, DateColumn
    <3>3. QED
      BY <3>1, <3>2
  <2> HIDE DEF entity
  <2>3. QED
    BY <1>8, <2>1, <2>2, BeginEvidence DEF ExecuteInstruction, Begin, Accepts, From, entity
<1>9. CASE Update(r)
  <2>1. PICK dto \in UpdateDtos :
          Begin(r, "update", Updated(Decrypted(row), dto, r), "load")
    BY <1>9 DEF Update
  <2> DEFINE entity == Updated(Decrypted(row), dto, r)
  <2>2. entity \in Entity
    BY <1>0, UpdatedType, InputsAssumption
  <2>3. entity.status = row.status /\ \A c \in DateColumn : entity[c] = row[c]
    BY <1>0 DEF Updated, Entity, PoaWith, DateColumn
  <2> HIDE DEF entity
  <2>4. QED
    BY <1>0, <2>1, <2>2, <2>3, BeginEvidence DEF entity
<1>10. CASE AssignAdmin(r)
  <2>1. PICK admin \in Admins :
          Begin(r, "assignAdmin", [row EXCEPT !.assignedAdminId = admin], "load")
    BY <1>10 DEF AssignAdmin
  <2> DEFINE entity == [row EXCEPT !.assignedAdminId = admin]
  <2>2. entity \in Entity
    BY <1>0 DEF Entity, PoaWith
  <2>3. entity.status = row.status /\ \A c \in DateColumn : entity[c] = row[c]
    BY <1>0 DEF Row, PoaWith, DateColumn
  <2> HIDE DEF entity
  <2>4. QED
    BY <1>0, <2>1, <2>2, <2>3, BeginEvidence DEF entity
<1>11. CASE \E o \in Ops : Refuse(r, o)
  <2>1. PICK o \in Ops : Refuse(r, o)
    BY <1>11
  <2>2. (StageOrder /\ DatesAreEvidence /\ AuditIsSound)'
    BY <2>1 DEF Refuse, EvidenceInv, StageOrder, DatesAreEvidence, AuditIsSound
  <2>3. (ReadsWereStored /\ CarriedDatesAreEvidence)'
    BY <2>1 DEF Refuse, EvidenceInv, ReadsWereStored, CarriedDatesAreEvidence,
       InFlight, Active, TypeOK
  <2>4. (UnwrittenStatusIsStored /\ ExecutionsComeFirst)'
    BY <2>1 DEF Refuse, EvidenceInv, UnwrittenStatusIsStored,
       ExecutionsComeFirst, TypeOK
  <2>5. QED
    BY <2>2, <2>3, <2>4 DEF EvidenceInv
<1>12. QED
  BY <1>1, <1>2, <1>3, <1>4, <1>5, <1>6, <1>7, <1>8, <1>9, <1>10, <1>11
     DEF Start

\* A status the flow allows, once added, keeps the stages in order.
LEMMA OrderKept ==
  ASSUME NEW s, Trail!Reachable(s, seen), StageOrder,
         seen' = seen \cup {s}, row'.status = s, executions' = executions
  PROVE  StageOrder'
BY DEF StageOrder, Trail!Reachable, Trail!Documented!Flow,
   Trail!Documented!Cancellable

\* The write of a save: its status was allowed when it was read, and more has
\* been held since; its dates come with their stage.
LEMMA WriteEvidence ==
  ASSUME TypeOK, EvidenceInv, NEW r \in Request, SaveWrite(r)
  PROVE  EvidenceInv'
<1> USE DEF Active
<1>1. /\ r \in InFlight /\ pc[r] = "write" /\ pc' = [pc EXCEPT ![r] = "log"]
      /\ UNCHANGED <<history, executions, creation, op, before, local, diff>>
      /\ seen' = seen \cup {row'.status}
  BY DEF SaveWrite, InFlight
<1>2. row'.status = IF "status" \in diff[r] THEN local[r].status ELSE row.status
  BY WrittenRowType
<1>3. row.status \in seen /\ Trail!Reachable(row'.status, seen)
  <2>1. row.status \in seen /\ Trail!Reachable(local[r].status, seen)
    BY <1>1 DEF EvidenceInv, StageOrder, ReadsWereStored
  <2>2. QED
    BY <1>2, <2>1 DEF Trail!Reachable
<1>4. StageOrder'
  BY <1>1, <1>3, OrderKept DEF EvidenceInv
<1>5. local[r].status \in seen'
  BY <1>1, <1>2 DEF EvidenceInv, UnwrittenStatusIsStored
<1>6. DatesAreEvidence'
  <2>1. SUFFICES ASSUME NEW c \in DateColumn, row'[c] # NULL
                 PROVE  StageOf[c] \in seen'
    BY DEF DatesAreEvidence
  <2>2. row'[c] = IF c \in diff[r] THEN local[r][c] ELSE row[c]
    <3>1. local[r] \in Entity /\ c # "instructions" /\ c \in Column
      BY <1>1 DEF TypeOK, DateColumn, Column
    <3>2. [local[r] EXCEPT !.instructions = Stored(@)][c] = local[r][c]
      BY <3>1 DEF Entity, PoaWith, DateColumn
    <3>3. QED
      BY <3>1, <3>2 DEF SaveWrite
  <2>3. CASE c \in diff[r]
    BY <1>1, <1>5, <2>1, <2>2, <2>3 DEF EvidenceInv, CarriedDatesAreEvidence
  <2>4. CASE c \notin diff[r]
    BY <1>1, <2>1, <2>2, <2>4 DEF EvidenceInv, DatesAreEvidence
  <2>5. QED
    BY <2>3, <2>4
<1>7. AuditIsSound'
  BY <1>1 DEF EvidenceInv, AuditIsSound
<1>8. ReadsWereStored'
  <2>1. SUFFICES ASSUME NEW q \in InFlight'
                 PROVE  before[q] \in seen' /\ Trail!Reachable(local[q].status, seen')
    BY <1>1 DEF ReadsWereStored
  <2>2. q \in InFlight
    BY <1>1 DEF InFlight, TypeOK
  <2>3. seen \subseteq seen'
    BY <1>1
  <2>4. QED
    BY <2>2, <2>3, ReachableGrows DEF EvidenceInv, ReadsWereStored
<1>9. CarriedDatesAreEvidence'
  BY <1>1 DEF EvidenceInv, CarriedDatesAreEvidence, InFlight, TypeOK
<1>10. UnwrittenStatusIsStored'
  BY <1>1, <1>5 DEF EvidenceInv, UnwrittenStatusIsStored, TypeOK
<1>11. ExecutionsComeFirst'
  BY <1>1 DEF EvidenceInv, ExecutionsComeFirst, TypeOK
<1>12. QED
  BY <1>4, <1>6, <1>7, <1>8, <1>9, <1>10, <1>11 DEF EvidenceInv

LEMMA AdvanceEvidence ==
  ASSUME TypeOK, EvidenceInv, NEW r \in Request, Advance(r)
  PROVE  EvidenceInv'
<1> USE DEF Active
<1>1. CASE InsertExecution(r)
  <2>1. /\ pc[r] = "insert" /\ pc' = [pc EXCEPT ![r] = "load"]
        /\ executions' = executions \cup {r}
        /\ UNCHANGED <<row, history, creation, op, before, local, diff, seen>>
    BY <1>1 DEF InsertExecution
  <2>2. "activated" \in seen
    BY <2>1 DEF EvidenceInv, ExecutionsComeFirst
  <2>3. (StageOrder /\ DatesAreEvidence /\ AuditIsSound)'
    BY <2>1, <2>2 DEF EvidenceInv, StageOrder, DatesAreEvidence, AuditIsSound
  <2>4. (ReadsWereStored /\ CarriedDatesAreEvidence)'
    BY <2>1 DEF EvidenceInv, ReadsWereStored, CarriedDatesAreEvidence,
       InFlight, TypeOK
  <2>5. (UnwrittenStatusIsStored /\ ExecutionsComeFirst)'
    BY <2>1 DEF EvidenceInv, UnwrittenStatusIsStored, ExecutionsComeFirst, TypeOK
  <2>6. QED
    BY <2>3, <2>4, <2>5 DEF EvidenceInv
<1>2. CASE SaveLoad(r)
  <2>1. /\ pc[r] = "load" /\ pc' = [pc EXCEPT ![r] = "write"]
        /\ diff' = [diff EXCEPT ![r] = {c \in Column : local[r][c] # row[c]}]
        /\ UNCHANGED <<row, history, executions, creation, op, before, local, seen>>
    BY <1>2 DEF SaveLoad
  <2>2. "status" \notin diff'[r] => local[r].status \in seen
    BY <2>1 DEF EvidenceInv, StageOrder, TypeOK, Column
  <2>3. (StageOrder /\ DatesAreEvidence /\ AuditIsSound)'
    BY <2>1 DEF EvidenceInv, StageOrder, DatesAreEvidence, AuditIsSound
  <2>4. (ReadsWereStored /\ CarriedDatesAreEvidence)'
    BY <2>1 DEF EvidenceInv, ReadsWereStored, CarriedDatesAreEvidence,
       InFlight, TypeOK
  <2>5. (UnwrittenStatusIsStored /\ ExecutionsComeFirst)'
    BY <2>1, <2>2 DEF EvidenceInv, UnwrittenStatusIsStored, ExecutionsComeFirst,
       TypeOK
  <2>6. QED
    BY <2>3, <2>4, <2>5 DEF EvidenceInv
<1>3. CASE SaveWrite(r)
  BY <1>3, WriteEvidence
<1>4. CASE Log(r)
  <2>1. /\ pc[r] = "log" /\ pc' = [pc EXCEPT ![r] = "done"]
        /\ history' = history \cup {Entry(r)}
        /\ local' = [local EXCEPT ![r] = NULL]
        /\ diff' = [diff EXCEPT ![r] = {}]
        /\ UNCHANGED <<row, executions, creation, op, before, seen>>
    BY <1>4 DEF Log
  <2>2. /\ Entry(r).newStatus \in seen /\ Entry(r).previousStatus \in seen
        /\ Entry(r).action = "executeInstruction" => Entry(r).by \in executions
    BY <2>1 DEF EvidenceInv, UnwrittenStatusIsStored, ReadsWereStored,
       ExecutionsComeFirst, InFlight, Entry
  <2>3. (StageOrder /\ DatesAreEvidence /\ AuditIsSound)'
    BY <2>1, <2>2 DEF EvidenceInv, StageOrder, DatesAreEvidence, AuditIsSound
  <2>4. (ReadsWereStored /\ CarriedDatesAreEvidence)'
    BY <2>1 DEF EvidenceInv, ReadsWereStored, CarriedDatesAreEvidence,
       InFlight, TypeOK
  <2>5. (UnwrittenStatusIsStored /\ ExecutionsComeFirst)'
    BY <2>1 DEF EvidenceInv, UnwrittenStatusIsStored, ExecutionsComeFirst, TypeOK
  <2>6. QED
    BY <2>3, <2>4, <2>5 DEF EvidenceInv
<1>5. CASE Fail(r)
  <2>1. /\ pc' = [pc EXCEPT ![r] = "failed"]
        /\ UNCHANGED <<row, history, executions, creation, op, before, local, diff, seen>>
    BY <1>5 DEF Fail
  <2>2. (StageOrder /\ DatesAreEvidence /\ AuditIsSound)'
    BY <2>1 DEF EvidenceInv, StageOrder, DatesAreEvidence, AuditIsSound
  <2>3. (ReadsWereStored /\ CarriedDatesAreEvidence)'
    BY <2>1 DEF EvidenceInv, ReadsWereStored, CarriedDatesAreEvidence,
       InFlight, TypeOK
  <2>4. (UnwrittenStatusIsStored /\ ExecutionsComeFirst)'
    BY <2>1 DEF EvidenceInv, UnwrittenStatusIsStored, ExecutionsComeFirst, TypeOK
  <2>5. QED
    BY <2>2, <2>3, <2>4 DEF EvidenceInv
<1>6. QED
  BY <1>1, <1>2, <1>3, <1>4, <1>5 DEF Advance

LEMMA NextEvidence == TypeOK /\ EvidenceInv /\ [Next]_vars => EvidenceInv'
<1> SUFFICES ASSUME TypeOK, EvidenceInv, [Next]_vars PROVE EvidenceInv'
  OBVIOUS
<1> USE DEF EvidenceInv, StageOrder, DatesAreEvidence, AuditIsSound,
        ReadsWereStored, CarriedDatesAreEvidence, UnwrittenStatusIsStored,
        ExecutionsComeFirst, InFlight
<1>1. CASE LogCreation
  BY <1>1 DEF LogCreation
<1>2. CASE AnnounceCreation
  BY <1>2 DEF AnnounceCreation
<1>3. CASE FailCreation
  BY <1>3 DEF FailCreation
<1>4. CASE \E r \in Request : Start(r) \/ Advance(r)
  BY <1>4, StartEvidence, AdvanceEvidence
<1>5. CASE UNCHANGED vars
  BY <1>5 DEF vars
<1>6. QED
  BY <1>1, <1>2, <1>3, <1>4, <1>5 DEF Next

\* The invariant of the evidence: every reachable state satisfies it.
THEOREM EvidenceHolds == Spec => []EvidenceInv
<1>1. Init => EvidenceInv
  BY InitEvidence
<1>2. TypeOK /\ EvidenceInv /\ [Next]_vars => EvidenceInv'
  BY NextEvidence
<1>3. QED
  BY <1>1, <1>2, TypeCorrect, PTL DEF Spec

\* For any number of overlapping and failing requests, no stage of the flow is
\* skipped: executed implies activated, notarized, approved and submitted.
THEOREM StagesInOrder == Spec => []StageOrder
<1>1. EvidenceInv => StageOrder
  BY DEF EvidenceInv
<1>2. QED
  BY <1>1, EvidenceHolds, PTL

\* For any number of overlapping and failing requests, a date in the row is
\* that of a stage the POA reached.
THEOREM DatesProveStages == Spec => []DatesAreEvidence
<1>1. EvidenceInv => DatesAreEvidence
  BY DEF EvidenceInv
<1>2. QED
  BY <1>1, EvidenceHolds, PTL

\* For any number of overlapping and failing requests, the history holds only
\* statuses the POA had, and no execution without its record.
THEOREM AuditNeverLies == Spec => []AuditIsSound
<1>1. EvidenceInv => AuditIsSound
  BY DEF EvidenceInv
<1>2. QED
  BY <1>1, EvidenceHolds, PTL

-----------------------------------------------------------------------------
(* The audit trail misses nothing but what was never logged.               *)

\* The status of a save that is about to be logged is the row's or an old one,
\* and its entry carries it; nothing else adds a status.
LEMMA NextAudit ==
  TypeOK /\ EvidenceInv /\ AuditMissesOnlyUnlogged /\ [Next]_vars
    => AuditMissesOnlyUnlogged'
<1> SUFFICES ASSUME TypeOK, EvidenceInv, AuditMissesOnlyUnlogged, [Next]_vars,
                    NEW s \in seen'
             PROVE  \/ \E h \in history' : h.newStatus = s
                    \/ \E r \in Request : /\ pc'[r] \in {"log", "failed"}
                                          /\ local'[r].status = s
                    \/ s = "draft" /\ creation' \in {"inserted", "failed"}
  BY DEF AuditMissesOnlyUnlogged
<1> DEFINE Known ==
      \/ \E h \in history : h.newStatus = s
      \/ \E r \in Request : pc[r] \in {"log", "failed"} /\ local[r].status = s
      \/ s = "draft" /\ creation \in {"inserted", "failed"}
<1>0. s \in seen => Known
  BY DEF AuditMissesOnlyUnlogged
<1> HIDE DEF Known
<1>1. CASE LogCreation
  <2>1. /\ creation' = "logged" /\ seen' = seen /\ pc' = pc /\ local' = local
        /\ history' = history \cup {[by |-> 0, action |-> "create",
                                    previousStatus |-> NULL, newStatus |-> "draft"]}
    BY <1>1 DEF LogCreation
  <2>2. \E h \in history' : h.newStatus = "draft"
    <3> DEFINE h == [by |-> 0, action |-> "create", previousStatus |-> NULL,
                     newStatus |-> "draft"]
    <3>1. h \in history' /\ h.newStatus = "draft"
      BY <2>1
    <3>2. QED
      BY <3>1
  <2>3. history \subseteq history'
    BY <2>1
  <2>4. QED
    BY <1>0, <2>1, <2>2, <2>3 DEF Known
<1>2. CASE AnnounceCreation
  BY <1>0, <1>2 DEF AnnounceCreation, Known
<1>3. CASE FailCreation
  BY <1>0, <1>3 DEF FailCreation, Known
<1>4. CASE \E r \in Request : Start(r)
  <2>1. PICK r \in Request : Start(r)
    BY <1>4
  <2>2. /\ pc[r] = "idle" /\ UNCHANGED <<history, creation, seen>>
        /\ \A q \in Request \ {r} : pc'[q] = pc[q] /\ local'[q] = local[q]
    <3>1. \/ \E o, entity, next : Begin(r, o, entity, next)
          \/ \E o \in Ops : Refuse(r, o)
      BY <2>1 DEF Start, Update, Submit, Cancel, AssignAdmin, MarkInReview,
         Approve, Reject, Notarize, Activate, ExecuteInstruction
    <3>2. QED
      BY <3>1 DEF Begin, Refuse, Arrives, TypeOK
  <2>3. QED
    BY <1>0, <2>2 DEF Known
<1>5. CASE \E r \in Request : InsertExecution(r) \/ SaveLoad(r)
  <2>1. PICK r \in Request : InsertExecution(r) \/ SaveLoad(r)
    BY <1>5
  <2>2. /\ pc[r] \in {"insert", "load"}
        /\ UNCHANGED <<history, creation, seen, local>>
        /\ \A q \in Request \ {r} : pc'[q] = pc[q]
    BY <2>1 DEF InsertExecution, SaveLoad, TypeOK
  <2>3. QED
    BY <1>0, <2>2 DEF Known
<1>6. CASE \E r \in Request : SaveWrite(r)
  <2>1. PICK r \in Request : SaveWrite(r)
    BY <1>6
  <2>2. /\ pc[r] = "write" /\ pc' = [pc EXCEPT ![r] = "log"]
        /\ UNCHANGED <<history, creation, local>>
        /\ seen' = seen \cup {row'.status}
    BY <2>1 DEF SaveWrite
  <2>3. row'.status = IF "status" \in diff[r] THEN local[r].status ELSE row.status
    BY <2>1, WrittenRowType
  <2>4. row.status \in seen
    BY DEF EvidenceInv, StageOrder
  <2>5. CASE s \in seen
    BY <1>0, <2>2, <2>5 DEF Known, TypeOK
  <2>6. CASE s \notin seen
    BY <2>2, <2>3, <2>4, <2>6 DEF TypeOK
  <2>7. QED
    BY <2>5, <2>6
<1>7. CASE \E r \in Request : Log(r)
  <2>1. PICK r \in Request : Log(r)
    BY <1>7
  <2>2. /\ UNCHANGED <<creation, seen>>
        /\ history' = history \cup {Entry(r)}
        /\ \A q \in Request \ {r} : pc'[q] = pc[q] /\ local'[q] = local[q]
    BY <2>1 DEF Log, TypeOK
  <2>3. local[r].status = s => \E h \in history' : h.newStatus = s
    <3>1. Entry(r) \in history' /\ Entry(r).newStatus = local[r].status
      BY <2>2 DEF Entry
    <3>2. QED
      BY <3>1
  <2>4. QED
    BY <1>0, <2>2, <2>3 DEF Known
<1>8. CASE \E r \in Request : Fail(r)
  <2>1. PICK r \in Request : Fail(r)
    BY <1>8
  <2>2. /\ pc' = [pc EXCEPT ![r] = "failed"]
        /\ UNCHANGED <<history, creation, seen, local>>
    BY <2>1 DEF Fail
  <2>3. QED
    BY <1>0, <2>2 DEF Known, TypeOK
<1>9. CASE UNCHANGED vars
  BY <1>0, <1>9 DEF vars, Known
<1>10. QED
  BY <1>1, <1>2, <1>3, <1>4, <1>5, <1>6, <1>7, <1>8, <1>9 DEF Next, Advance

\* For any number of overlapping and failing requests, what the history does not
\* tell of the POA is what a request has still to log, or failed to.
THEOREM AuditMissesLittle == Spec => []AuditMissesOnlyUnlogged
<1>1. Init => AuditMissesOnlyUnlogged
  BY DEF Init, AuditMissesOnlyUnlogged
<1>2. TypeOK /\ EvidenceInv /\ AuditMissesOnlyUnlogged /\ [Next]_vars
        => AuditMissesOnlyUnlogged'
  BY NextAudit
<1>3. QED
  BY <1>1, <1>2, TypeCorrect, EvidenceHolds, PTL DEF Spec

-----------------------------------------------------------------------------
(* PoaLifecycle implements PoaTrail.                                       *)

LEMMA InitTrail == Init => Trail!Init
<1> SUFFICES ASSUME Init PROVE Trail!Init
  OBVIOUS
<1>1. row.status = "draft"
  BY DEF Init, NewPoa
<1>2. QED
  BY <1>1 DEF Init, Trail!Init, Trail!Documented!Init

\* Only the write of a save touches the status, and it is a Save of the trail.
LEMMA StepTrail ==
  TypeOK /\ EvidenceInv /\ [Next]_vars => [Trail!Save]_<<row.status, seen>>
<1> SUFFICES ASSUME TypeOK, EvidenceInv, [Next]_vars,
                    ~ UNCHANGED <<row, seen>>
             PROVE  Trail!Save
  OBVIOUS
<1>1. PICK r \in Request : SaveWrite(r)
  BY DEF Next, vars, LogCreation, AnnounceCreation, FailCreation, Start, Update,
     Submit, Cancel, AssignAdmin, MarkInReview, Approve, Reject, Notarize,
     Activate, ExecuteInstruction, Begin, Refuse, Advance, InsertExecution,
     SaveLoad, Log, Fail
<1>2. row'.status = IF "status" \in diff[r] THEN local[r].status ELSE row.status
  BY <1>1, WrittenRowType
<1>3. row.status \in seen /\ Trail!Reachable(local[r].status, seen)
  BY <1>1 DEF EvidenceInv, StageOrder, ReadsWereStored, SaveWrite, InFlight, Active
<1>4. Trail!Reachable(row'.status, seen)
  BY <1>2, <1>3 DEF Trail!Reachable
<1>5. QED
  BY <1>1, <1>4 DEF Trail!Save, SaveWrite

\* Whatever overlaps and whatever fails, PoaService keeps to PoaTrail: a status
\* the POA never had is reached only by the flow, from one it had.
THEOREM ImplementsTrail == Spec => FollowsTrail
<1>1. Init => Trail!Init
  BY InitTrail
<1>2. TypeOK /\ EvidenceInv /\ [Next]_vars => [Trail!Save]_<<row.status, seen>>
  BY StepTrail
<1>3. QED
  BY <1>1, <1>2, TypeCorrect, EvidenceHolds, PTL
     DEF Spec, FollowsTrail, Trail!Spec

-----------------------------------------------------------------------------
(* One request at a time.                                                  *)

\* Requests do not overlap, not even with the creation.
OneAtATime == MaxInFlight = 1

\* Whoever is under way is the only one, and the last to have come.
Alone ==
  /\ Creating => InFlight = {}
  /\ \A q, r \in Request : q < r /\ pc[r] # "idle" => pc[q] # "idle"
  /\ \A r \in InFlight : \A q \in Request : r < q => pc[q] = "idle"

\* How far along the flow a POA of a given status can have dates.
Farthest ==
  [s \in Status |->
     CASE s = "draft" -> 0 [] s = "pending" -> 1 [] s = "in_review" -> 2
       [] s = "approved" -> 3 [] s = "notarized" -> 4 [] s = "activated" -> 5
       [] OTHER -> 6]

\* The dates of entity e tell how it came to its status, and none is of a stage
\* ahead or of a request not among those that have come.
WellDatedFor(e, come) ==
  /\ \A c \in Dated[e.status] : e[c] # NULL
  /\ \A c \in DateColumn : e[c] # NULL =>
       e[c] \in come /\ DateRank[c] <= Farthest[e.status]
  /\ \A c, d \in DateColumn :
       DateRank[c] < DateRank[d] /\ e[c] # NULL /\ e[d] # NULL => e[c] < e[d]

Come == {q \in Request : pc[q] # "idle"}
WellDated(e) == WellDatedFor(e, Come)

\* The flow allows status t after status s, or nothing changes.
Follows(s, t) ==
  \/ t = s
  \/ <<s, t>> \in Workflow!Flow
  \/ s \in Workflow!Cancellable /\ t = "cancelled"

\* A request that has not saved has read the row as it is, and is to take it one
\* step along the flow; one that has saved has written its status.
FreshCopy(r) ==
  /\ before[r] = row.status
  /\ Follows(row.status, local[r].status)
  /\ WellDated(local[r])
  /\ op[r] # "update" /\ row.instructions # NULL /\ row.instructions.form = "cipher"
       => local[r].instructions # NULL
  /\ pc[r] = "write" => diff[r] = {c \in Column : local[r][c] # row[c]}

CopiesFresh ==
  \A r \in Request : pc[r] \in {"insert", "load", "write"} => FreshCopy(r)

SavesShow == \A r \in Request : pc[r] = "log" => local[r].status = row.status

SerialInv == Alone /\ WellDated(row) /\ CopiesFresh /\ SavesShow

LEMMA InitSerial == Init => SerialInv
<1> SUFFICES ASSUME Init PROVE SerialInv
  OBVIOUS
<1>1. row.status = "draft" /\ \A c \in DateColumn : row[c] = NULL
  <2>1. PICK object \in {NULL, Encrypt(0)}, triggers \in BOOLEAN :
          row = NewPoa(object, triggers)
    BY DEF Init
  <2>2. QED
    BY <2>1 DEF NewPoa, DateColumn
<1>2. \A r \in Request : pc[r] = "idle"
  BY DEF Init
<1>3. WellDated(row)
  BY <1>1 DEF WellDated, WellDatedFor, Dated, Status
<1>4. QED
  BY <1>2, <1>3 DEF SerialInv, Alone, CopiesFresh, SavesShow, InFlight, Active

\* When a request arrives nothing is under way, and who came before it is done.
LEMMA ArrivesAlone ==
  ASSUME OneAtATime, TypeOK, SerialInv, NEW r \in Request, Arrives(r)
  PROVE  /\ InFlight = {} /\ ~Creating /\ pc[r] = "idle"
         /\ \A q \in Request : q < r <=> pc[q] # "idle"
<1>1. InFlight = {} /\ ~Creating
  <2>1. IsFiniteSet(InFlight)
    <3>1. IsFiniteSet(Request)
      BY FS_Interval, BoundsAssumption DEF Request
    <3>2. QED
      BY <3>1, FS_Subset DEF InFlight
  <2>2. Cardinality(InFlight) \in Nat
    BY <2>1, FS_CardinalityType
  <2>3. Cardinality(InFlight) = 0 /\ ~Creating
    BY <2>2 DEF Arrives, OneAtATime
  <2>4. QED
    BY <2>1, <2>3, FS_EmptySet
<1>2. pc[r] = "idle" /\ \A q \in 1 .. r - 1 : pc[q] # "idle"
  BY DEF Arrives
<1>3. ASSUME NEW q \in Request PROVE q < r <=> pc[q] # "idle"
  <2>1. CASE q < r
    BY <2>1, <1>2, BoundsAssumption DEF Request
  <2>2. CASE q = r
    BY <2>2, <1>2, BoundsAssumption DEF Request
  <2>3. CASE r < q
    BY <2>3, <1>2, BoundsAssumption DEF SerialInv, Alone, Request
  <2>4. QED
    BY <2>1, <2>2, <2>3, BoundsAssumption DEF Request
<1>4. QED
  BY <1>1, <1>2, <1>3

\* Dates stay good in a copy with the same ones, when more requests have come.
LEMMA DatesStayGood ==
  ASSUME NEW e, NEW f, NEW come, NEW later, WellDatedFor(e, come),
         come \subseteq later, f.status = e.status, e.status \in Status,
         \A c \in DateColumn : f[c] = e[c]
  PROVE  WellDatedFor(f, later)
<1>1. Dated[e.status] \subseteq DateColumn
  BY DEF Dated, DateColumn, Status
<1>2. QED
  BY <1>1 DEF WellDatedFor

\* Request r takes the row to the status of entity, and may set date d, of a
\* stage that the row has not reached, to itself.
Stamps(r, entity, d) ==
  /\ \A c \in DateColumn \ {d} : entity[c] = row[c]
  /\ \/ entity[d] = row[d]
     \/ /\ entity[d] = r
        /\ Farthest[row.status] < DateRank[d] /\ DateRank[d] <= Farthest[entity.status]
  /\ Farthest[row.status] <= Farthest[entity.status]
  /\ \A c \in Dated[entity.status] : c \in Dated[row.status] \/ (c = d /\ entity[d] = r)

\* Such an entity is well dated once r has come.
LEMMA StampedWell ==
  ASSUME TypeOK, WellDated(row), NEW r \in Request, NEW come,
         \A q \in Request : q < r <=> pc[q] # "idle", come = Come \cup {r},
         NEW entity \in Entity, NEW d \in DateColumn, Stamps(r, entity, d)
  PROVE  WellDatedFor(entity, come)
<1>1. row.status \in Status /\ entity.status \in Status
  BY DEF TypeOK, Row, Entity, PoaWith
<1>2. /\ DateRank \in [DateColumn -> 1 .. 6]
      /\ Farthest \in [Status -> 0 .. 6]
      /\ Dated[row.status] \subseteq DateColumn
      /\ Dated[entity.status] \subseteq DateColumn
  BY <1>1 DEF DateRank, DateColumn, Farthest, Dated, Status
<1>3. r # NULL /\ r \in Int
  BY BoundsAssumption, NullAssumption DEF Request
<1>4. \A c \in DateColumn : row[c] # NULL =>
        row[c] \in Come /\ row[c] < r /\ DateRank[c] <= Farthest[row.status]
  BY DEF WellDated, WellDatedFor, Come
<1>5. \A c \in Dated[entity.status] : entity[c] # NULL
  BY <1>2, <1>3 DEF WellDated, WellDatedFor, Stamps
<1>6. ASSUME NEW c \in DateColumn, entity[c] # NULL
      PROVE  entity[c] \in come /\ DateRank[c] <= Farthest[entity.status]
  BY <1>1, <1>2, <1>4, <1>6 DEF Stamps
<1>7. ASSUME NEW c \in DateColumn, NEW k \in DateColumn,
             DateRank[c] < DateRank[k], entity[c] # NULL, entity[k] # NULL
      PROVE  entity[c] < entity[k]
  <2>1. CASE entity[c] = row[c] /\ entity[k] = row[k]
    BY <2>1, <1>7 DEF WellDated, WellDatedFor
  <2>2. CASE entity[k] = r /\ k = d /\ c # d
    BY <2>2, <1>4, <1>7 DEF Stamps
  <2>3. CASE c = d /\ k # d /\ entity[c] # row[c]
    BY <2>3, <1>1, <1>2, <1>4, <1>7 DEF Stamps
  <2>4. c # k
    BY <1>2, <1>7
  <2>5. QED
    BY <2>1, <2>2, <2>3, <2>4 DEF Stamps
<1>8. QED
  BY <1>5, <1>6, <1>7 DEF WellDatedFor

\* The first step of a method that follows the flow and stamps no more than the
\* stage it reaches.
LEMMA BeginSerial ==
  ASSUME OneAtATime, TypeOK, SerialInv, NEW r \in Request, NEW o \in Op,
         NEW entity \in Entity, NEW next \in {"insert", "load"}, NEW d \in DateColumn,
         Begin(r, o, entity, next),
         Follows(row.status, entity.status), Stamps(r, entity, d),
         o # "update" /\ row.instructions # NULL /\ row.instructions.form = "cipher"
           => entity.instructions # NULL
  PROVE  SerialInv'
<1> USE DEF Active, InFlight
<1>1. /\ pc' = [pc EXCEPT ![r] = next] /\ op' = [op EXCEPT ![r] = o]
      /\ before' = [before EXCEPT ![r] = row.status]
      /\ local' = [local EXCEPT ![r] = entity]
      /\ UNCHANGED <<row, history, executions, creation, diff, seen>>
  BY DEF Begin
<1>2. /\ InFlight = {} /\ ~Creating /\ pc[r] = "idle"
      /\ \A q \in Request : q < r <=> pc[q] # "idle"
  BY ArrivesAlone DEF Begin
<1>3. Come' = Come \cup {r}
  BY <1>1 DEF Come, TypeOK
<1>4. WellDatedFor(entity, Come')
  BY <1>2, <1>3, StampedWell DEF SerialInv
<1>5. Alone'
  <2>1. ~Creating'
    BY <1>1, <1>2 DEF Creating
  <2>2. \A q \in Request : pc'[q] # "idle" <=> q <= r
    BY <1>1, <1>2, BoundsAssumption DEF TypeOK, Request
  <2>3. \A q \in Request : pc'[q] \in Active => q = r
    BY <1>1, <1>2 DEF TypeOK
  <2>4. QED
    BY <2>1, <2>2, <2>3, BoundsAssumption DEF Alone, Request
<1>6. WellDated(row)'
  <2>1. WellDatedFor(row, Come')
    BY <1>3, DatesStayGood DEF SerialInv, WellDated, TypeOK, Row, PoaWith
  <2>2. QED
    BY <2>1, <1>1 DEF WellDated
<1>7. CopiesFresh'
  <2>1. SUFFICES ASSUME NEW q \in Request, pc'[q] \in {"insert", "load", "write"}
                 PROVE  FreshCopy(q)'
    BY DEF CopiesFresh
  <2>2. q = r
    BY <2>1, <1>1, <1>2 DEF TypeOK
  <2>3. /\ before'[r] = row'.status /\ local'[r] = entity /\ pc'[r] # "write"
        /\ op'[r] = o /\ row' = row
    BY <1>1 DEF TypeOK
  <2>4. WellDated(local[r])'
    BY <1>4, <2>3 DEF WellDated
  <2>5. QED
    BY <2>2, <2>3, <2>4 DEF FreshCopy
<1>8. SavesShow'
  BY <1>1, <1>2 DEF SavesShow, TypeOK
<1>9. QED
  BY <1>5, <1>6, <1>7, <1>8 DEF SerialInv

\* A refusal leaves everything as it is.
LEMMA RefuseSerial ==
  ASSUME OneAtATime, TypeOK, SerialInv, NEW r \in Request, NEW o, Refuse(r, o)
  PROVE  SerialInv'
<1> USE DEF Active, InFlight
<1>1. /\ pc' = [pc EXCEPT ![r] = "refused"]
      /\ UNCHANGED <<row, creation, local, diff>>
  BY DEF Refuse
<1>2. /\ InFlight = {} /\ ~Creating /\ pc[r] = "idle"
      /\ \A q \in Request : q < r <=> pc[q] # "idle"
  BY ArrivesAlone DEF Refuse
<1>3. Come' = Come \cup {r}
  BY <1>1 DEF Come, TypeOK
<1>4. \A q \in Request : pc'[q] \notin Active
  BY <1>1, <1>2 DEF TypeOK
<1>5. Alone'
  <2>1. \A q \in Request : pc'[q] # "idle" <=> q <= r
    BY <1>1, <1>2, BoundsAssumption DEF TypeOK, Request
  <2>2. QED
    BY <2>1, <1>4, BoundsAssumption DEF Alone, Request
<1>6. WellDated(row)'
  <2>1. WellDatedFor(row, Come')
    BY <1>3, DatesStayGood DEF SerialInv, WellDated, TypeOK, Row, PoaWith
  <2>2. QED
    BY <2>1, <1>1 DEF WellDated
<1>7. QED
  BY <1>4, <1>5, <1>6 DEF SerialInv, CopiesFresh, SavesShow

\* The entities that the methods leave, for what the flow and the dates ask.
LEMMA StartSerial ==
  ASSUME OneAtATime, TypeOK, SerialInv, NEW r \in Request, Start(r)
  PROVE  SerialInv'
<1> USE DEF Op, ClientOp, AdminOp
<1>0. /\ row \in Row /\ row \in Entity /\ Decrypted(row) \in Entity
      /\ Decrypted(row).status = row.status
      /\ \A c \in DateColumn : Decrypted(row)[c] = row[c]
      /\ row.instructions # NULL /\ row.instructions.form = "cipher"
           => Decrypted(row).instructions # NULL
  <2>1. row \in Row /\ row \in Entity /\ Decrypted(row) \in Entity
    BY RowIsEntity, DecryptedType DEF TypeOK
  <2>2. /\ Decrypted(row).status = row.status
        /\ \A c \in DateColumn : Decrypted(row)[c] = row[c]
    BY <2>1 DEF Decrypted, Row, PoaWith, DateColumn
  <2>3. ASSUME row.instructions # NULL, row.instructions.form = "cipher"
        PROVE  Decrypted(row).instructions # NULL
    <3>1. Decrypted(row).instructions = [form |-> "object", of |-> row.instructions.of]
      BY <2>1, <2>3 DEF Decrypted, DecryptObject, Row, PoaWith
    <3>2. row.instructions.of \in Nat
      BY <2>1, <2>3, BoundsAssumption DEF Row, PoaWith, StoredObject, Text
    <3>3. QED
      BY <3>1, <3>2, NullAssumption
  <2>4. QED
    BY <2>1, <2>2, <2>3
<1>d. r \in DateValue
  BY DEF DateValue
<1>1. CASE Update(r)
  <2>0. PICK dto \in UpdateDtos :
          Begin(r, "update", Updated(Decrypted(row), dto, r), "load")
    BY <1>1 DEF Update
  <2> DEFINE entity == Updated(Decrypted(row), dto, r)
  <2>1. entity \in Entity
    BY <1>0, UpdatedType, InputsAssumption
  <2>2. /\ entity.status = row.status /\ row.status \in Status
        /\ \A c \in DateColumn : entity[c] = row[c]
    BY <1>0 DEF Updated, Row, Entity, PoaWith, DateColumn
  <2>3. Follows(row.status, entity.status) /\ Stamps(r, entity, "submittedAt")
    <3>1. Farthest[row.status] \in Int
      BY <2>2 DEF Farthest, Status
    <3>2. QED
      BY <2>2, <3>1 DEF Follows, Stamps, DateColumn
  <2> HIDE DEF entity
  <2>4. Begin(r, "update", entity, "load")
    BY <2>0 DEF entity
  <2>5. QED
    BY <2>1, <2>3, <2>4, BeginSerial DEF DateColumn
<1>2. CASE Submit(r)
  <2> DEFINE entity == [Decrypted(row) EXCEPT !.status = "pending", !.submittedAt = r]
  <2>1. entity \in Entity
    BY <1>0, <1>d DEF Entity, PoaWith, Status
  <2>2. /\ entity.status = "pending"
        /\ entity.submittedAt = r
        /\ \A c \in DateColumn \ {"submittedAt"} : entity[c] = row[c]
        /\ entity.instructions = Decrypted(row).instructions
    BY <1>0 DEF Entity, PoaWith, DateColumn
  <2> HIDE DEF entity
  <2>3. Begin(r, "submit", entity, "load")
    BY <1>2 DEF Submit, entity
  <2>4. row.status \in From["submit"] /\ row.status \in Status
    BY <1>0, <2>3 DEF Begin, Accepts, Row, PoaWith
  <2>5. Follows(row.status, entity.status)
    BY <2>2, <2>4 DEF Follows, From, Workflow!Flow, Workflow!Cancellable, Status
  <2>6. Stamps(r, entity, "submittedAt")
    BY <2>2, <2>4 DEF Stamps, From, Farthest, Dated, DateRank, DateColumn, Status
  <2>7. QED
    BY <1>0, <2>1, <2>2, <2>3, <2>5, <2>6, BeginSerial DEF DateColumn
<1>3. CASE Cancel(r)
  <2> DEFINE entity == [Decrypted(row) EXCEPT !.status = "cancelled"]
  <2>1. entity \in Entity
    BY <1>0, <1>d DEF Entity, PoaWith, Status
  <2>2. /\ entity.status = "cancelled"
        /\ \A c \in DateColumn : entity[c] = row[c]
        /\ entity.instructions = Decrypted(row).instructions
    BY <1>0 DEF Entity, PoaWith, DateColumn
  <2> HIDE DEF entity
  <2>3. Begin(r, "cancel", entity, "load")
    BY <1>3 DEF Cancel, entity
  <2>4. row.status \in From["cancel"] /\ row.status \in Status
    BY <1>0, <2>3 DEF Begin, Accepts, Row, PoaWith
  <2>5. Follows(row.status, entity.status)
    BY <2>2, <2>4 DEF Follows, From, Workflow!Flow, Workflow!Cancellable, Status
  <2>6. Stamps(r, entity, "submittedAt")
    BY <2>2, <2>4 DEF Stamps, From, Farthest, Dated, DateRank, DateColumn, Status
  <2>7. QED
    BY <1>0, <2>1, <2>2, <2>3, <2>5, <2>6, BeginSerial DEF DateColumn
<1>4. CASE AssignAdmin(r)
  <2>0. PICK admin \in Admins :
          Begin(r, "assignAdmin", [row EXCEPT !.assignedAdminId = admin], "load")
    BY <1>4 DEF AssignAdmin
  <2> DEFINE entity == [row EXCEPT !.assignedAdminId = admin]
  <2>1. entity \in Entity
    BY <1>0, <1>d DEF Entity, PoaWith, Status
  <2>2. /\ entity.status = row.status
        /\ \A c \in DateColumn : entity[c] = row[c]
        /\ entity.instructions = row.instructions
    BY <1>0 DEF Entity, PoaWith, DateColumn
  <2> HIDE DEF entity
  <2>3. Begin(r, "assignAdmin", entity, "load")
    BY <2>0 DEF entity
  <2>4. row.status \in From["assignAdmin"] /\ row.status \in Status
    BY <1>0, <2>3 DEF Begin, Accepts, Row, PoaWith
  <2>5. Follows(row.status, entity.status)
    BY <2>2, <2>4 DEF Follows, From, Workflow!Flow, Workflow!Cancellable, Status
  <2>6. Stamps(r, entity, "submittedAt")
    BY <2>2, <2>4 DEF Stamps, From, Farthest, Dated, DateRank, DateColumn, Status
  <2>7. QED
    BY <1>0, <2>1, <2>2, <2>3, <2>5, <2>6, BeginSerial DEF DateColumn
<1>5. CASE MarkInReview(r)
  <2> DEFINE entity == [row EXCEPT !.status = "in_review", !.reviewedAt = r]
  <2>1. entity \in Entity
    BY <1>0, <1>d DEF Entity, PoaWith, Status
  <2>2. /\ entity.status = "in_review"
        /\ entity.reviewedAt = r
        /\ \A c \in DateColumn \ {"reviewedAt"} : entity[c] = row[c]
        /\ entity.instructions = row.instructions
    BY <1>0 DEF Entity, PoaWith, DateColumn
  <2> HIDE DEF entity
  <2>3. Begin(r, "markInReview", entity, "load")
    BY <1>5 DEF MarkInReview, entity
  <2>4. row.status \in From["markInReview"] /\ row.status \in Status
    BY <1>0, <2>3 DEF Begin, Accepts, Row, PoaWith
  <2>5. Follows(row.status, entity.status)
    BY <2>2, <2>4 DEF Follows, From, Workflow!Flow, Workflow!Cancellable, Status
  <2>6. Stamps(r, entity, "reviewedAt")
    BY <2>2, <2>4 DEF Stamps, From, Farthest, Dated, DateRank, DateColumn, Status
  <2>7. QED
    BY <1>0, <2>1, <2>2, <2>3, <2>5, <2>6, BeginSerial DEF DateColumn
<1>6. CASE Approve(r)
  <2> DEFINE entity == [row EXCEPT !.status = "approved", !.approvedAt = r]
  <2>1. entity \in Entity
    BY <1>0, <1>d DEF Entity, PoaWith, Status
  <2>2. /\ entity.status = "approved"
        /\ entity.approvedAt = r
        /\ \A c \in DateColumn \ {"approvedAt"} : entity[c] = row[c]
        /\ entity.instructions = row.instructions
    BY <1>0 DEF Entity, PoaWith, DateColumn
  <2> HIDE DEF entity
  <2>3. Begin(r, "approve", entity, "load")
    BY <1>6 DEF Approve, entity
  <2>4. row.status \in From["approve"] /\ row.status \in Status
    BY <1>0, <2>3 DEF Begin, Accepts, Row, PoaWith
  <2>5. Follows(row.status, entity.status)
    BY <2>2, <2>4 DEF Follows, From, Workflow!Flow, Workflow!Cancellable, Status
  <2>6. Stamps(r, entity, "approvedAt")
    BY <2>2, <2>4 DEF Stamps, From, Farthest, Dated, DateRank, DateColumn, Status
  <2>7. QED
    BY <1>0, <2>1, <2>2, <2>3, <2>5, <2>6, BeginSerial DEF DateColumn
<1>7. CASE Reject(r)
  <2> DEFINE entity == [row EXCEPT !.status = "rejected"]
  <2>1. entity \in Entity
    BY <1>0, <1>d DEF Entity, PoaWith, Status
  <2>2. /\ entity.status = "rejected"
        /\ \A c \in DateColumn : entity[c] = row[c]
        /\ entity.instructions = row.instructions
    BY <1>0 DEF Entity, PoaWith, DateColumn
  <2> HIDE DEF entity
  <2>3. Begin(r, "reject", entity, "load")
    BY <1>7 DEF Reject, entity
  <2>4. row.status \in From["reject"] /\ row.status \in Status
    BY <1>0, <2>3 DEF Begin, Accepts, Row, PoaWith
  <2>5. Follows(row.status, entity.status)
    BY <2>2, <2>4 DEF Follows, From, Workflow!Flow, Workflow!Cancellable, Status
  <2>6. Stamps(r, entity, "submittedAt")
    BY <2>2, <2>4 DEF Stamps, From, Farthest, Dated, DateRank, DateColumn, Status
  <2>7. QED
    BY <1>0, <2>1, <2>2, <2>3, <2>5, <2>6, BeginSerial DEF DateColumn
<1>8. CASE Notarize(r)
  <2> DEFINE entity == [row EXCEPT !.status = "notarized", !.notarizedAt = r]
  <2>1. entity \in Entity
    BY <1>0, <1>d DEF Entity, PoaWith, Status
  <2>2. /\ entity.status = "notarized"
        /\ entity.notarizedAt = r
        /\ \A c \in DateColumn \ {"notarizedAt"} : entity[c] = row[c]
        /\ entity.instructions = row.instructions
    BY <1>0 DEF Entity, PoaWith, DateColumn
  <2> HIDE DEF entity
  <2>3. Begin(r, "notarize", entity, "load")
    BY <1>8 DEF Notarize, entity
  <2>4. row.status \in From["notarize"] /\ row.status \in Status
    BY <1>0, <2>3 DEF Begin, Accepts, Row, PoaWith
  <2>5. Follows(row.status, entity.status)
    BY <2>2, <2>4 DEF Follows, From, Workflow!Flow, Workflow!Cancellable, Status
  <2>6. Stamps(r, entity, "notarizedAt")
    BY <2>2, <2>4 DEF Stamps, From, Farthest, Dated, DateRank, DateColumn, Status
  <2>7. QED
    BY <1>0, <2>1, <2>2, <2>3, <2>5, <2>6, BeginSerial DEF DateColumn
<1>9. CASE Activate(r)
  <2> DEFINE entity == [row EXCEPT !.status = "activated", !.activatedAt = r]
  <2>1. entity \in Entity
    BY <1>0, <1>d DEF Entity, PoaWith, Status
  <2>2. /\ entity.status = "activated"
        /\ entity.activatedAt = r
        /\ \A c \in DateColumn \ {"activatedAt"} : entity[c] = row[c]
        /\ entity.instructions = row.instructions
    BY <1>0 DEF Entity, PoaWith, DateColumn
  <2> HIDE DEF entity
  <2>3. Begin(r, "activate", entity, "load")
    BY <1>9 DEF Activate, entity
  <2>4. row.status \in From["activate"] /\ row.status \in Status
    BY <1>0, <2>3 DEF Begin, Accepts, Row, PoaWith
  <2>5. Follows(row.status, entity.status)
    BY <2>2, <2>4 DEF Follows, From, Workflow!Flow, Workflow!Cancellable, Status
  <2>6. Stamps(r, entity, "activatedAt")
    BY <2>2, <2>4 DEF Stamps, From, Farthest, Dated, DateRank, DateColumn, Status
  <2>7. QED
    BY <1>0, <2>1, <2>2, <2>3, <2>5, <2>6, BeginSerial DEF DateColumn
<1>10. CASE ExecuteInstruction(r)
  <2> DEFINE entity == [row EXCEPT !.status = "executed", !.executedAt = r]
  <2>1. entity \in Entity
    BY <1>0, <1>d DEF Entity, PoaWith, Status
  <2>2. /\ entity.status = "executed"
        /\ entity.executedAt = r
        /\ \A c \in DateColumn \ {"executedAt"} : entity[c] = row[c]
        /\ entity.instructions = row.instructions
    BY <1>0 DEF Entity, PoaWith, DateColumn
  <2> HIDE DEF entity
  <2>3. Begin(r, "executeInstruction", entity, "insert")
    BY <1>10 DEF ExecuteInstruction, entity
  <2>4. row.status \in From["executeInstruction"] /\ row.status \in Status
    BY <1>0, <2>3 DEF Begin, Accepts, Row, PoaWith
  <2>5. Follows(row.status, entity.status)
    BY <2>2, <2>4 DEF Follows, From, Workflow!Flow, Workflow!Cancellable, Status
  <2>6. Stamps(r, entity, "executedAt")
    BY <2>2, <2>4 DEF Stamps, From, Farthest, Dated, DateRank, DateColumn, Status
  <2>7. QED
    BY <1>0, <2>1, <2>2, <2>3, <2>5, <2>6, BeginSerial DEF DateColumn
<1>11. CASE \E o \in Ops : Refuse(r, o)
  BY <1>11, RefuseSerial
<1>12. QED
  BY <1>1, <1>2, <1>3, <1>4, <1>5, <1>6, <1>7, <1>8, <1>9, <1>10, <1>11
     DEF Start

\* The later steps of the request that is under way, and of the creation.
LEMMA AdvanceSerial ==
  ASSUME TypeOK, SerialInv, NEW r \in Request, Advance(r)
  PROVE  SerialInv'
<1> USE DEF Active, InFlight
<1>1. pc[r] \in Active /\ Creating' = Creating
  BY DEF Advance, InsertExecution, SaveLoad, SaveWrite, Log, Fail, Creating
<1>2. \A q \in Request \ {r} : pc[q] \notin Active
  <2>1. \A q \in Request \ {r} : q < r \/ r < q
    BY BoundsAssumption DEF Request
  <2>2. QED
    BY <1>1, <2>1 DEF SerialInv, Alone
<1>3. /\ pc'[r] # "idle"
      /\ \A q \in Request \ {r} : pc'[q] = pc[q]
  BY DEF Advance, InsertExecution, SaveLoad, SaveWrite, Log, Fail, TypeOK
<1>4. Come' = Come
  BY <1>1, <1>3 DEF Come
<1>5. Alone'
  BY <1>1, <1>2, <1>3 DEF SerialInv, Alone
<1>6. CASE InsertExecution(r)
  BY <1>2, <1>3, <1>4, <1>5, <1>6
     DEF InsertExecution, SerialInv, CopiesFresh, SavesShow, FreshCopy, WellDated, TypeOK
<1>7. CASE SaveLoad(r)
  <2>1. FreshCopy(r)'
    BY <1>4, <1>7 DEF SaveLoad, SerialInv, CopiesFresh, FreshCopy, WellDated, TypeOK
  <2>2. QED
    BY <1>2, <1>3, <1>4, <1>5, <1>7, <2>1
       DEF SaveLoad, SerialInv, CopiesFresh, SavesShow, WellDated, TypeOK
<1>8. CASE SaveWrite(r)
  <2>1. /\ pc[r] = "write" /\ pc' = [pc EXCEPT ![r] = "log"]
        /\ row' = [c \in Column |-> IF c \in diff[r]
                                   THEN [local[r] EXCEPT !.instructions = Stored(@)][c]
                                   ELSE row[c]]
        /\ local' = local
    BY <1>8 DEF SaveWrite
  <2>2. diff[r] = {c \in Column : local[r][c] # row[c]} /\ WellDated(local[r])
    BY <2>1 DEF SerialInv, CopiesFresh, FreshCopy
  <2>3. local[r] \in Entity
    BY <2>1 DEF TypeOK
  <2>4. row'.status = local[r].status /\ \A c \in DateColumn : row'[c] = local[r][c]
    <3>1. ASSUME NEW c \in DateColumn \cup {"status"}
          PROVE  [local[r] EXCEPT !.instructions = Stored(@)][c] = local[r][c]
      BY <2>3 DEF Entity, PoaWith, DateColumn
    <3>2. QED
      BY <2>1, <2>2, <3>1 DEF Column
  <2>5. WellDatedFor(row', Come')
    BY <1>4, <2>2, <2>3, <2>4, DatesStayGood DEF WellDated, Entity, PoaWith
  <2>6. WellDated(row)'
    BY <2>5 DEF WellDated
  <2>7. CopiesFresh' /\ SavesShow'
    BY <1>2, <1>3, <2>1, <2>4 DEF CopiesFresh, SavesShow, TypeOK
  <2>8. QED
    BY <1>5, <2>6, <2>7 DEF SerialInv
<1>9. CASE Log(r) \/ Fail(r)
  BY <1>2, <1>3, <1>4, <1>5, <1>9
     DEF Log, Fail, SerialInv, CopiesFresh, SavesShow, WellDated, TypeOK
<1>10. QED
  BY <1>6, <1>7, <1>8, <1>9 DEF Advance

LEMMA NextSerial == OneAtATime /\ TypeOK /\ SerialInv /\ [Next]_vars => SerialInv'
<1> SUFFICES ASSUME OneAtATime, TypeOK, SerialInv, [Next]_vars PROVE SerialInv'
  OBVIOUS
<1> USE DEF SerialInv, Alone, WellDated, Come, CopiesFresh, FreshCopy, SavesShow,
        InFlight, Creating
<1>1. CASE LogCreation
  BY <1>1 DEF LogCreation
<1>2. CASE AnnounceCreation
  BY <1>2 DEF AnnounceCreation
<1>3. CASE FailCreation
  BY <1>3 DEF FailCreation
<1>4. CASE \E r \in Request : Start(r) \/ Advance(r)
  BY <1>4, StartSerial, AdvanceSerial
<1>5. CASE UNCHANGED vars
  BY <1>5 DEF vars
<1>6. QED
  BY <1>1, <1>2, <1>3, <1>4, <1>5 DEF Next

\* With one request at a time, each works on the row as it is, and the dates of
\* the row are those of its way.
THEOREM SerialHolds ==
  ASSUME OneAtATime
  PROVE  Spec => []SerialInv
<1>1. Init => SerialInv
  BY InitSerial
<1>2. TypeOK /\ SerialInv /\ [Next]_vars => SerialInv'
  BY NextSerial
<1>3. QED
  BY <1>1, <1>2, TypeCorrect, PTL DEF Spec

\* With one request at a time, each stage on the way to the status has its date,
\* and the dates increase along the flow, whatever fails.
THEOREM DatesAlwaysTellTheWay ==
  ASSUME OneAtATime
  PROVE  Spec => []DatesTellTheWay
<1>1. SerialInv => DatesTellTheWay
  BY DEF SerialInv, WellDated, WellDatedFor, DatesTellTheWay
<1>2. QED
  BY <1>1, SerialHolds, PTL

\* Only the second half of a save writes the row.
LEMMA OnlySavesWrite == [Next]_vars /\ row' # row => \E r \in Request : SaveWrite(r)
BY DEF Next, vars, LogCreation, AnnounceCreation, FailCreation, Start, Update,
   Submit, Cancel, AssignAdmin, MarkInReview, Approve, Reject, Notarize,
   Activate, ExecuteInstruction, Begin, Refuse, Advance, InsertExecution,
   SaveLoad, Log, Fail

\* With one request at a time, the service implements the documented flow: every
\* step of the status is one of the flow, however many requests come, and fail.
THEOREM ImplementsWorkflow ==
  ASSUME OneAtATime
  PROVE  Spec => FollowsWorkflow
<1>1. Init => Workflow!Init
  BY DEF Init, NewPoa, Workflow!Init
<1>2. TypeOK /\ SerialInv /\ [Next]_vars
        => [Workflow!Move \/ Workflow!Withdraw]_(row.status)
  <2> SUFFICES ASSUME TypeOK, SerialInv, [Next]_vars, row' # row,
                      row'.status # row.status
               PROVE  Workflow!Move \/ Workflow!Withdraw
    OBVIOUS
  <2>1. PICK r \in Request : SaveWrite(r)
    BY OnlySavesWrite
  <2>2. row'.status = IF "status" \in diff[r] THEN local[r].status ELSE row.status
    BY <2>1, WrittenRowType
  <2>3. Follows(row.status, local[r].status)
    BY <2>1 DEF SaveWrite, SerialInv, CopiesFresh, FreshCopy
  <2>4. QED
    BY <2>2, <2>3 DEF Follows, Workflow!Move, Workflow!Withdraw
<1>3. QED
  BY <1>1, <1>2, TypeCorrect, SerialHolds, PTL DEF Spec, FollowsWorkflow, Workflow!Spec

\* With one request at a time, only the save of a PUT empties instructions that
\* are stored encrypted.
THEOREM CipherAlwaysKept ==
  ASSUME OneAtATime
  PROVE  Spec => CipherLostOnlyToUpdate
<1>1. TypeOK /\ SerialInv /\ [Next]_vars =>
        [row.instructions # NULL /\ row.instructions.form = "cipher"
           /\ row'.instructions = NULL
         => \E r \in Request : op[r] = "update" /\ pc[r] = "write" /\ pc'[r] = "log"]_vars
  <2> SUFFICES ASSUME TypeOK, SerialInv, [Next]_vars, row.instructions # NULL,
                      row.instructions.form = "cipher", row'.instructions = NULL
               PROVE  \E r \in Request : op[r] = "update" /\ pc[r] = "write" /\ pc'[r] = "log"
    OBVIOUS
  <2>1. PICK r \in Request : SaveWrite(r)
    BY OnlySavesWrite
  <2>2. pc[r] = "write" /\ pc'[r] = "log" /\ local[r] \in Entity
    BY <2>1 DEF SaveWrite, TypeOK, InFlight, Active
  <2>3. row'.instructions = IF "instructions" \in diff[r]
                            THEN Stored(local[r].instructions) ELSE row.instructions
    BY <2>1, <2>2 DEF SaveWrite, Column, Entity, PoaWith
  <2>4. local[r].instructions # NULL => Stored(local[r].instructions) # NULL
    <3>1. ASSUME NEW o \in LiveObject, o # NULL PROVE Stored(o) # NULL
      <4>1. CASE o.form = "object"
        <5>1. o.of \in Nat
          BY <3>1, BoundsAssumption DEF LiveObject, StoredObject, Text
        <5>2. Stored(o) = [form |-> "plain", of |-> o.of]
          BY <3>1, <4>1 DEF Stored
        <5>3. QED
          BY <5>1, <5>2, NullAssumption DEF Form
      <4>2. QED
        BY <3>1, <4>1 DEF Stored
    <3>2. QED
      BY <2>2, <3>1 DEF Entity, PoaWith
  <2>5. op[r] = "update"
    BY <2>2, <2>3, <2>4 DEF SerialInv, CopiesFresh, FreshCopy
  <2>6. QED
    BY <2>2, <2>5
<1>2. QED
  BY <1>1, TypeCorrect, SerialHolds, PTL DEF Spec, CipherLostOnlyToUpdate

-----------------------------------------------------------------------------
(* One request at a time and none failing: the history is a path.          *)

\* Entry h continues entry g, and no entry is between them.
Continues(h, g) ==
  /\ g.by < h.by /\ g.newStatus = h.previousStatus
  /\ \A k \in history : ~(g.by < k.by /\ k.by < h.by)

\* Entry h is the last one, and ends at status s.
Latest(h, s) == h.newStatus = s /\ \A k \in history : k.by <= h.by

\* The entries are those of requests that are done, each but the first continues
\* another; before the first nothing has happened; and the last one ends where
\* the row is, or was before the save that waits for its entry.
Path ==
  /\ \A h \in history : h.by = 0 \/ pc[h.by] = "done"
  /\ \A h \in history : h.by # 0 => \E g \in history : Continues(h, g)
  /\ creation = "inserted" =>
       row.status = "draft" /\ \A r \in Request : pc[r] \in {"idle", "refused"}
  /\ creation # "inserted" =>
       /\ (\A r \in Request : pc[r] # "log") => \E h \in history : Latest(h, row.status)
       /\ \A r \in Request : pc[r] = "log" => \E h \in history : Latest(h, before[r])

PathInv == Failed = {} /\ creation # "failed" => Path

LEMMA InitPath == Init => PathInv
<1> SUFFICES ASSUME Init PROVE PathInv
  OBVIOUS
<1>1. row.status = "draft"
  BY DEF Init, NewPoa
<1>2. QED
  BY <1>1 DEF Init, PathInv, Path

\* A step that logs nothing and changes no status keeps the path.
LEMMA PathKept ==
  ASSUME Path, history' = history, row'.status = row.status,
         creation' = creation \/ (creation = "logged" /\ creation' = "announced"),
         \A q \in Request :
           /\ pc[q] \in {"done", "log"} => pc'[q] = pc[q] /\ before'[q] = before[q]
           /\ pc'[q] = "log" => pc[q] = "log",
         creation = "inserted" => \A q \in Request : pc'[q] \in {"idle", "refused"},
         TypeOK
  PROVE  Path'
<1>1. \A h \in history : h.by = 0 \/ h.by \in Request
  BY BoundsAssumption DEF TypeOK, HistoryRow, Request
<1>2. \A h, g : Continues(h, g) => Continues(h, g)'
  BY DEF Continues
<1>3. \A h, s : Latest(h, s) => Latest(h, s)'
  BY DEF Latest
<1>4. (\A h \in history : h.by = 0 \/ pc[h.by] = "done")'
  BY <1>1 DEF Path
<1>5. (\A h \in history : h.by # 0 => \E g \in history : Continues(h, g))'
  BY <1>2 DEF Path
<1>6. (creation = "inserted" =>
         row.status = "draft" /\ \A r \in Request : pc[r] \in {"idle", "refused"})'
  BY DEF Path
<1>7. (creation # "inserted" =>
         /\ (\A r \in Request : pc[r] # "log") => \E h \in history : Latest(h, row.status)
         /\ \A r \in Request : pc[r] = "log" => \E h \in history : Latest(h, before[r]))'
  <2>1. CASE creation' # "inserted"
    <3>1. creation # "inserted"
      BY <2>1
    <3>2. ASSUME \A r \in Request : pc'[r] # "log"
          PROVE  \E h \in history' : Latest(h, row.status)'
      <4>1. \A r \in Request : pc[r] # "log"
        BY <3>2
      <4>2. PICK h \in history : Latest(h, row.status)
        BY <3>1, <4>1 DEF Path
      <4>3. Latest(h, row.status)'
        BY <4>2 DEF Latest
      <4>4. QED
        BY <4>3
    <3>3. ASSUME NEW r \in Request, pc'[r] = "log"
          PROVE  \E h \in history' : Latest(h, before[r])'
      <4>1. pc[r] = "log" /\ before'[r] = before[r]
        BY <3>3
      <4>2. PICK h \in history : Latest(h, before[r])
        BY <3>1, <4>1 DEF Path
      <4>3. Latest(h, before[r])'
        BY <4>1, <4>2 DEF Latest
      <4>4. QED
        BY <4>3
    <3>4. QED
      BY <3>2, <3>3
  <2>2. QED
    BY <2>1
<1>8. QED
  BY <1>4, <1>5, <1>6, <1>7 DEF Path

\* The entry of the creation is the first.
LEMMA CreationOnPath ==
  ASSUME TypeOK, Path, LogCreation
  PROVE  Path'
<1> DEFINE e == [by |-> 0, action |-> "create", previousStatus |-> NULL,
                 newStatus |-> "draft"]
<1>1. /\ creation = "inserted" /\ creation' = "logged" /\ history' = history \cup {e}
      /\ UNCHANGED <<row, pc, before>>
  BY DEF LogCreation
<1>2. row.status = "draft" /\ \A r \in Request : pc[r] \in {"idle", "refused"}
  BY <1>1 DEF Path
<1>3. \A h \in history : h.by = 0
  BY <1>2, BoundsAssumption DEF Path, TypeOK, HistoryRow, Request
<1>4. e \in history' /\ \A h \in history' : h.by = 0
  BY <1>1, <1>3
<1>5. Latest(e, row.status)'
  BY <1>1, <1>2, <1>4 DEF Latest
<1>6. \E h \in history' : Latest(h, row.status)'
  BY <1>4, <1>5
<1>7. QED
  BY <1>1, <1>2, <1>4, <1>6 DEF Path

\* The write of a save: the last entry ends at the status that was read.
LEMMA WriteOnPath ==
  ASSUME TypeOK, SerialInv, Path, NEW r \in Request, SaveWrite(r)
  PROVE  Path'
<1>1. /\ pc[r] = "write" /\ pc' = [pc EXCEPT ![r] = "log"]
      /\ UNCHANGED <<history, creation, before>>
  BY DEF SaveWrite
<1>2. before[r] = row.status
  BY <1>1 DEF SerialInv, CopiesFresh, FreshCopy
<1>3. \A q \in Request \ {r} : pc[q] # "log"
  <2>1. \A q \in Request \ {r} : q < r \/ r < q
    BY BoundsAssumption DEF Request
  <2>2. QED
    BY <1>1, <2>1 DEF SerialInv, Alone, InFlight, Active
<1>4. creation # "inserted"
  BY <1>1 DEF Path
<1>5. PICK h \in history : Latest(h, before[r])
  BY <1>1, <1>2, <1>3, <1>4 DEF Path
<1>6. h \in history' /\ Latest(h, before[r])'
  BY <1>1, <1>5 DEF Latest
<1>7. \A q \in Request : pc'[q] = "log" <=> q = r
  BY <1>1, <1>3 DEF TypeOK
<1>8. (\A k \in history : k.by = 0 \/ pc[k.by] = "done")'
  BY <1>1, BoundsAssumption DEF Path, TypeOK, HistoryRow, Request
<1>9. (\A k \in history : k.by # 0 => \E g \in history : Continues(k, g))'
  BY <1>1 DEF Path, Continues
<1>10. (creation # "inserted" =>
         /\ (\A q \in Request : pc[q] # "log") => \E k \in history : Latest(k, row.status)
         /\ \A q \in Request : pc[q] = "log" => \E k \in history : Latest(k, before[q]))'
  BY <1>6, <1>7
<1>11. QED
  BY <1>1, <1>4, <1>8, <1>9, <1>10 DEF Path

\* The entry of a request continues the last one, and is the last.
LEMMA LogOnPath ==
  ASSUME TypeOK, SerialInv, Path, NEW r \in Request, Log(r)
  PROVE  Path'
<1>0. PICK e : e = Entry(r)
  OBVIOUS
<1>1. /\ pc[r] = "log" /\ pc' = [pc EXCEPT ![r] = "done"]
      /\ history' = history \cup {e}
      /\ UNCHANGED <<row, creation, before>>
  BY <1>0 DEF Log
<1>2. e.by = r /\ e.previousStatus = before[r] /\ e.newStatus = row.status
  BY <1>0, <1>1 DEF Entry, SerialInv, SavesShow
<1>3. creation # "inserted"
  BY <1>1 DEF Path
<1>4. \A k \in history : k.by \in Int /\ k.by < r
  <2>1. SUFFICES ASSUME NEW k \in history PROVE k.by \in Int /\ k.by < r
    OBVIOUS
  <2>2. CASE k.by = 0
    BY <2>2, BoundsAssumption DEF Request
  <2>3. CASE k.by # 0
    <3>1. k.by \in Request /\ pc[k.by] = "done"
      BY <2>3, BoundsAssumption DEF Path, TypeOK, HistoryRow, Request
    <3>2. ~(r < k.by)
      BY <1>1, <3>1 DEF SerialInv, Alone, InFlight, Active
    <3>3. QED
      BY <1>1, <3>1, <3>2, BoundsAssumption DEF Request
  <2>4. QED
    BY <2>2, <2>3
<1>5. PICK g \in history : Latest(g, before[r])
  BY <1>1, <1>3 DEF Path
<1>6. Continues(e, g)'
  BY <1>1, <1>2, <1>4, <1>5, BoundsAssumption DEF Continues, Latest, Request
<1>7. ASSUME NEW h \in history', h.by # 0
      PROVE  \E k \in history' : Continues(h, k)'
  <2>1. CASE h = e
    BY <1>1, <1>6, <2>1
  <2>2. CASE h \in history
    <3>1. PICK k \in history : Continues(h, k)
      BY <1>7, <2>2 DEF Path
    <3>2. Continues(h, k)'
      BY <1>1, <1>2, <1>4, <2>2, <3>1, BoundsAssumption DEF Continues, Request
    <3>3. QED
      BY <1>1, <3>2
  <2>3. QED
    BY <1>1, <2>1, <2>2
<1>8. (\A h \in history : h.by = 0 \/ pc[h.by] = "done")'
  <2>1. SUFFICES ASSUME NEW h \in history' PROVE h.by = 0 \/ pc'[h.by] = "done"
    OBVIOUS
  <2>2. CASE h = e
    BY <1>1, <1>2, <2>2 DEF TypeOK
  <2>3. CASE h \in history
    <3>1. h.by = 0 \/ (h.by \in Request /\ pc[h.by] = "done")
      BY <2>3, BoundsAssumption DEF Path, TypeOK, HistoryRow, Request
    <3>2. QED
      BY <1>1, <3>1 DEF TypeOK
  <2>4. QED
    BY <1>1, <2>2, <2>3
<1>9. e \in history' /\ Latest(e, row.status)'
  <2>1. \A k \in history' : k.by <= e.by
    BY <1>1, <1>2, <1>4, BoundsAssumption DEF Request
  <2>2. QED
    BY <1>1, <1>2, <2>1 DEF Latest
<1>10. \A q \in Request : pc'[q] # "log"
  <2>1. \A q \in Request \ {r} : q < r \/ r < q
    BY BoundsAssumption DEF Request
  <2>2. QED
    BY <1>1, <2>1 DEF SerialInv, Alone, InFlight, Active, TypeOK
<1>11. QED
  BY <1>1, <1>3, <1>7, <1>8, <1>9, <1>10 DEF Path

LEMMA NextPath ==
  OneAtATime /\ TypeOK /\ SerialInv /\ PathInv /\ [Next]_vars => PathInv'
<1> SUFFICES ASSUME OneAtATime, TypeOK, SerialInv, PathInv, [Next]_vars,
                    Failed' = {}, creation' # "failed"
             PROVE  Path'
  BY DEF PathInv
<1>1. Failed = {} /\ creation # "failed"
  <2>1. CASE LogCreation \/ AnnounceCreation \/ FailCreation \/ UNCHANGED vars
    BY <2>1 DEF LogCreation, AnnounceCreation, FailCreation, Creating, vars, Failed
  <2>2. CASE \E r \in Request : Start(r) \/ Advance(r)
    <3>1. PICK r \in Request : Start(r) \/ Advance(r)
      BY <2>2
    <3>2. creation' = creation /\ pc[r] # "failed"
          /\ \A q \in Request \ {r} : pc'[q] = pc[q]
      <4>1. CASE Start(r)
        <5>1. \/ \E o, entity, next : Begin(r, o, entity, next)
              \/ \E o \in Ops : Refuse(r, o)
          BY <4>1 DEF Start, Update, Submit, Cancel, AssignAdmin, MarkInReview,
             Approve, Reject, Notarize, Activate, ExecuteInstruction
        <5>2. QED
          BY <5>1 DEF Begin, Refuse, Arrives, TypeOK
      <4>2. CASE Advance(r)
        BY <4>2 DEF Advance, InsertExecution, SaveLoad, SaveWrite, Log, Fail,
           TypeOK, Active
      <4>3. QED
        BY <3>1, <4>1, <4>2
    <3>3. QED
      BY <3>2 DEF Failed
  <2>3. QED
    BY <2>1, <2>2 DEF Next
<1>2. Path
  BY <1>1 DEF PathInv
<1>3. CASE LogCreation
  BY <1>2, <1>3, CreationOnPath
<1>4. CASE AnnounceCreation
  BY <1>2, <1>4, PathKept DEF AnnounceCreation
<1>5. CASE FailCreation
  BY <1>5 DEF FailCreation
<1>6. CASE \E r \in Request : Start(r)
  <2>1. PICK r \in Request : Start(r)
    BY <1>6
  <2>2. \/ \E o, entity, next : next \in {"insert", "load"} /\ Begin(r, o, entity, next)
        \/ \E o \in Ops : Refuse(r, o)
    BY <2>1 DEF Start, Update, Submit, Cancel, AssignAdmin, MarkInReview,
       Approve, Reject, Notarize, Activate, ExecuteInstruction
  <2>3. Arrives(r) /\ UNCHANGED <<row, history, creation>> /\ pc'[r] # "log"
        /\ \A q \in Request \ {r} : pc'[q] = pc[q] /\ before'[q] = before[q]
    BY <2>2 DEF Begin, Refuse, TypeOK
  <2>4. pc[r] = "idle" /\ creation # "inserted"
    BY <2>3, ArrivesAlone DEF Creating
  <2>5. QED
    BY <1>2, <2>3, <2>4, PathKept
<1>7. CASE \E r \in Request : InsertExecution(r) \/ SaveLoad(r)
  <2>1. PICK r \in Request : InsertExecution(r) \/ SaveLoad(r)
    BY <1>7
  <2>2. /\ pc[r] \in {"insert", "load"} /\ pc'[r] # "log"
        /\ UNCHANGED <<row, history, creation, before>>
        /\ \A q \in Request \ {r} : pc'[q] = pc[q]
    BY <2>1 DEF InsertExecution, SaveLoad, TypeOK
  <2>3. creation # "inserted"
    BY <1>2, <2>2 DEF Path
  <2>4. QED
    BY <1>2, <2>2, <2>3, PathKept
<1>8. CASE \E r \in Request : SaveWrite(r)
  BY <1>2, <1>8, WriteOnPath
<1>9. CASE \E r \in Request : Log(r)
  BY <1>2, <1>9, LogOnPath
<1>10. CASE \E r \in Request : Fail(r)
  <2>1. PICK r \in Request : Fail(r)
    BY <1>10
  <2>2. r \in Failed'
    BY <2>1 DEF Fail, Failed, TypeOK
  <2>3. QED
    BY <2>2
<1>11. CASE UNCHANGED vars
  BY <1>2, <1>11, PathKept DEF vars, Path
<1>12. QED
  BY <1>3, <1>4, <1>5, <1>6, <1>7, <1>8, <1>9, <1>10, <1>11 DEF Next, Advance

\* With one request at a time and no failure, the history is a path from the
\* creation to the status of the row.
THEOREM AuditIsAlwaysAPath ==
  ASSUME OneAtATime
  PROVE  Spec => []AuditIsAPath
<1>1. Init => PathInv
  BY InitPath
<1>2. TypeOK /\ SerialInv /\ PathInv /\ [Next]_vars => PathInv'
  BY NextPath
<1>3. PathInv => AuditIsAPath
  BY DEF PathInv, Path, AuditIsAPath, Continues, Latest
<1>4. QED
  BY <1>1, <1>2, <1>3, TypeCorrect, SerialHolds, PTL DEF Spec

=============================================================================
