------------------------ MODULE NotificationQueueProofs ------------------------
(***************************************************************************)
(* Proofs about NotificationQueue, for every number of requests, attempts, *)
(* stalls and faults.                                                      *)
(***************************************************************************)
EXTENDS NotificationPromises, TLAPS

USE DEF Worker

\* The worker is not a request.
LEMMA WorkerIsNoRequest == Worker \notin Request /\ Worker \in Process
BY DEF Request, Process

-----------------------------------------------------------------------------
(* Type correctness.                                                       *)

\* The initial states are well typed.
LEMMA InitTypeOK == Init => TypeOK
BY ConstantsAssumption DEF Init, TypeOK, Created, Row, Status, Job, JobState

\* A save that begins or ends preserves the types.
LEMMA SaveTypeOK ==
  ASSUME TypeOK, NEW p \in Process, SaveLoad(p) \/ SaveWrite(p)
  PROVE  TypeOK'
<1>1. CASE SaveLoad(p)
  BY <1>1 DEF SaveLoad, TypeOK, observed
<1>2. CASE SaveWrite(p)
  <2>1. row' \in Row
    BY <1>2 DEF SaveWrite, TypeOK, Row, Column
  <2>2. QED
    BY <1>2, <2>1 DEF SaveWrite, TypeOK, observed, Final
<1>3. QED
  BY <1>1, <1>2

\* Every step preserves the types.
LEMMA NextTypeOK == TypeOK /\ [Next]_vars => TypeOK'
<1> SUFFICES ASSUME TypeOK, [Next]_vars PROVE TypeOK'
  OBVIOUS
<1> USE WorkerIsNoRequest, ConstantsAssumption
    DEF memory, observed, Row, Status, Job, JobState, Final
<1>1. CASE SenderStep
  BY <1>1 DEF TypeOK, SenderStep, AddJob, MarkQueued
<1>2. CASE BullStep
  <2>1. CASE Due
    BY <2>1 DEF TypeOK, Due
  <2>2. CASE RecoverStalled
    <3>1. job' \in Job
      <4>1. job.stalls + 1 \in Nat
        BY DEF TypeOK
      <4>2. QED
        BY <2>2, <4>1 DEF TypeOK, RecoverStalled
    <3>2. QED
      BY <2>2, <3>1 DEF TypeOK, RecoverStalled
  <2>3. CASE TakeJob
    BY <2>3 DEF TypeOK, TakeJob
  <2>4. QED
    BY <1>2, <2>1, <2>2, <2>3 DEF BullStep
<1>3. CASE WorkerStep
  <2>1. CASE Fetch
    BY <2>1 DEF TypeOK, Fetch, Saves
  <2>2. CASE SaveLoad(Worker) \/ SaveWrite(Worker)
    BY <2>2, SaveTypeOK
  <2>3. CASE SendAccepted
    <3>1. deliveries' \in Nat
      BY <2>3 DEF TypeOK, SendAccepted
    <3>2. [local[Worker] EXCEPT !.status = "sent", !.sentAt = deliveries'] \in Row
      BY <3>1 DEF TypeOK
    <3>3. QED
      BY <2>3, <3>1, <3>2 DEF TypeOK, SendAccepted, Saves
  <2>4. CASE SendRejected \/ SendLost
    BY <2>4 DEF TypeOK, SendRejected, SendLost
  <2>5. CASE Complete
    BY <2>5 DEF TypeOK, Complete
  <2>6. CASE Report
    BY <2>6 DEF TypeOK, Report, Saves
  <2>7. CASE Rethrow
    <3>1. job' \in Job
      <4>1. job.attemptsMade + 1 \in Nat
        BY DEF TypeOK
      <4>2. QED
        BY <2>7, <4>1 DEF TypeOK, Rethrow
    <3>2. QED
      BY <2>7, <3>1 DEF TypeOK, Rethrow
  <2>8. QED
    BY <1>3, <2>1, <2>2, <2>3, <2>4, <2>5, <2>6, <2>7 DEF WorkerStep
<1>4. CASE Fault
  BY <1>4 DEF TypeOK, Fault, WorkerFails, SenderFails, RequestFails, Crash,
     Handling
<1>5. ASSUME NEW r \in Request, Start(r) PROVE TypeOK'
  <2>0. r \in Nat /\ r \in Process
    BY DEF Request, Process
  <2>1. CASE Cancel(r) \/ Refuse(r)
    <3>1. PICK o \in Op, next \in {"lookup", "refused"} : Arrives(r, o, next)
      BY <2>1 DEF Cancel, Refuse, Op
    <3>2. QED
      BY <2>0, <2>1, <3>1 DEF TypeOK, Cancel, Refuse, Arrives
  <2>2. CASE MarkAsRead(r)
    BY <2>0, <2>2 DEF TypeOK, MarkAsRead, Arrives, Op
  <2>3. CASE MarkMultipleAsRead(r)
    BY <2>0, <2>3 DEF TypeOK, MarkMultipleAsRead, Arrives, Op
  <2>4. QED
    BY <1>5, <2>1, <2>2, <2>3 DEF Start
<1>6. ASSUME NEW r \in Request, RequestStep(r) PROVE TypeOK'
  <2>1. CASE SaveLoad(r) \/ SaveWrite(r)
    BY <2>1, SaveTypeOK DEF Process
  <2>2. CASE Lookup(r) \/ RemoveJob(r) \/ RemoveLocked(r) \/ MarkCancelled(r)
    BY <2>2 DEF TypeOK, Lookup, RemoveJob, RemoveLocked, MarkCancelled
  <2>3. QED
    BY <1>6, <2>1, <2>2 DEF RequestStep
<1>7. CASE UNCHANGED vars
  BY <1>7 DEF TypeOK, vars
<1>8. QED
  BY <1>1, <1>2, <1>3, <1>4, <1>5, <1>6, <1>7 DEF Next

\* Every reachable state is well typed.
THEOREM TypeCorrect == Spec => []TypeOK
<1>1. QED
  BY InitTypeOK, NextTypeOK, PTL DEF Spec

-----------------------------------------------------------------------------
(* Every process is where it should be.                                    *)

\* At first nobody is at work.
LEMMA InitInPlace == Init => EveryoneInPlace
BY DEF Init, EveryoneInPlace, Process, Final

\* No step moves a process to a place that is not its own.
LEMMA NextInPlace ==
  TypeOK /\ EveryoneInPlace /\ [Next]_vars => EveryoneInPlace'
<1> SUFFICES ASSUME TypeOK, EveryoneInPlace, [Next]_vars PROVE EveryoneInPlace'
  OBVIOUS
<1> USE WorkerIsNoRequest
    DEF TypeOK, EveryoneInPlace, memory, observed, Final, Process, Job
<1>1. CASE SenderStep
  BY <1>1 DEF SenderStep, AddJob, MarkQueued
<1>2. CASE BullStep
  BY <1>2 DEF BullStep, Due, RecoverStalled, TakeJob
<1>3. CASE WorkerStep
  <2>1. CASE Fetch \/ SendAccepted \/ Report
    BY <2>1 DEF Fetch, SendAccepted, Report, Saves
  <2>2. CASE SaveLoad(Worker) \/ SaveWrite(Worker)
    BY <2>2 DEF SaveLoad, SaveWrite
  <2>3. CASE SendRejected \/ SendLost
    BY <2>3 DEF SendRejected, SendLost
  <2>4. CASE Complete \/ Rethrow
    BY <2>4 DEF Complete, Rethrow
  <2>5. QED
    BY <1>3, <2>1, <2>2, <2>3, <2>4 DEF WorkerStep
<1>4. CASE Fault
  <2>1. CASE WorkerFails \/ SenderFails
    BY <2>1 DEF WorkerFails, SenderFails
  <2>2. CASE \E r \in Request : RequestFails(r)
    BY <2>2 DEF RequestFails
  <2>3. CASE Crash
    BY <2>3 DEF Crash, Handling
  <2>4. QED
    BY <1>4, <2>1, <2>2, <2>3 DEF Fault
<1>5. ASSUME NEW r \in Request, Start(r) PROVE EveryoneInPlace'
  <2>1. CASE Cancel(r) \/ Refuse(r)
    BY <2>1 DEF Cancel, Refuse, Arrives
  <2>2. CASE MarkAsRead(r) \/ MarkMultipleAsRead(r)
    BY <2>2 DEF MarkAsRead, MarkMultipleAsRead, Arrives
  <2>3. QED
    BY <1>5, <2>1, <2>2 DEF Start
<1>6. ASSUME NEW r \in Request, RequestStep(r) PROVE EveryoneInPlace'
  <2>1. CASE SaveLoad(r) \/ SaveWrite(r)
    BY <2>1 DEF SaveLoad, SaveWrite
  <2>2. CASE Lookup(r) \/ RemoveLocked(r) \/ MarkCancelled(r)
    BY <2>2 DEF Lookup, RemoveLocked, MarkCancelled, InQueue
  <2>3. CASE RemoveJob(r)
    BY <2>3 DEF RemoveJob
  <2>4. QED
    BY <1>6, <2>1, <2>2, <2>3 DEF RequestStep
<1>7. CASE UNCHANGED vars
  BY <1>7 DEF vars
<1>8. QED
  BY <1>1, <1>2, <1>3, <1>4, <1>5, <1>6, <1>7 DEF Next

\* In every reachable state each process is where it should be.
THEOREM InPlaceHolds == Spec => [](TypeOK /\ EveryoneInPlace)
<1>1. QED
  BY InitTypeOK, NextTypeOK, InitInPlace, NextInPlace, PTL DEF Spec

-----------------------------------------------------------------------------
(* A notification that says it was sent was delivered.                     *)

\* A sent status or date comes from a delivery, in memory as in the row.
LEMMA NextSent ==
  TypeOK /\ EveryoneInPlace /\ SentInMemoryWasDelivered /\ [Next]_vars
    => SentInMemoryWasDelivered'
<1> SUFFICES ASSUME TypeOK, EveryoneInPlace, SentInMemoryWasDelivered, [Next]_vars
             PROVE  SentInMemoryWasDelivered'
  OBVIOUS
<1> USE WorkerIsNoRequest
    DEF TypeOK, EveryoneInPlace, memory, observed, Final, Process, Job,
        Row, Column, Delivered,
        SentWasDelivered, SentInMemoryWasDelivered
<1>1. CASE SenderStep
  BY <1>1 DEF SenderStep, AddJob, MarkQueued
<1>2. CASE BullStep
  BY <1>2 DEF BullStep, Due, RecoverStalled, TakeJob
<1>3. CASE WorkerStep
  <2>1. CASE Fetch
    BY <2>1 DEF Fetch, Saves
  <2>2. CASE SaveLoad(Worker)
    BY <2>2 DEF SaveLoad
  <2>3. CASE SaveWrite(Worker)
    BY <2>3 DEF SaveWrite
  <2>4. CASE SendAccepted
    BY <2>4 DEF SendAccepted, Saves
  <2>5. CASE SendRejected \/ SendLost
    BY <2>5 DEF SendRejected, SendLost
  <2>6. CASE Complete
    BY <2>6 DEF Complete
  <2>7. CASE Report
    BY <2>7 DEF Report, Saves
  <2>8. CASE Rethrow
    BY <2>8 DEF Rethrow
  <2>9. QED
    BY <1>3, <2>1, <2>2, <2>3, <2>4, <2>5, <2>6, <2>7, <2>8 DEF WorkerStep
<1>4. CASE Fault
  <2>1. CASE WorkerFails
    BY <2>1 DEF WorkerFails
  <2>2. CASE SenderFails \/ \E r \in Request : RequestFails(r)
    BY <2>2 DEF SenderFails, RequestFails, Handling
  <2>3. CASE Crash
    BY <2>3 DEF Crash, Handling
  <2>4. QED
    BY <1>4, <2>1, <2>2, <2>3 DEF Fault
<1>5. ASSUME NEW r \in Request, Start(r) PROVE SentInMemoryWasDelivered'
  <2>1. CASE Cancel(r) \/ Refuse(r)
    BY <2>1 DEF Cancel, Refuse, Arrives
  <2>2. CASE MarkAsRead(r)
    BY <2>2 DEF MarkAsRead, Arrives
  <2>3. CASE MarkMultipleAsRead(r)
    BY <2>3 DEF MarkMultipleAsRead, Arrives
  <2>4. QED
    BY <1>5, <2>1, <2>2, <2>3 DEF Start
<1>6. ASSUME NEW r \in Request, RequestStep(r) PROVE SentInMemoryWasDelivered'
  <2>1. CASE SaveLoad(r)
    BY <2>1 DEF SaveLoad
  <2>2. CASE SaveWrite(r)
    BY <2>2 DEF SaveWrite
  <2>3. CASE Lookup(r) \/ RemoveLocked(r) \/ MarkCancelled(r)
    BY <2>3 DEF Lookup, RemoveLocked, MarkCancelled
  <2>4. CASE RemoveJob(r)
    BY <2>4 DEF RemoveJob
  <2>5. QED
    BY <1>6, <2>1, <2>2, <2>3, <2>4 DEF RequestStep
<1>7. CASE UNCHANGED vars
  BY <1>7 DEF vars
<1>8. QED
  BY <1>1, <1>2, <1>3, <1>4, <1>5, <1>6, <1>7 DEF Next


-----------------------------------------------------------------------------
(* Deliveries use up attempts, stalls and faults.                          *)

\* Every delivery takes one of the attempts or stalls, and repeating one a fault.
LEMMA NextSpent ==
  TypeOK /\ EveryoneInPlace /\ DeliveriesAreSpent /\ [Next]_vars
    => DeliveriesAreSpent'
<1> SUFFICES ASSUME TypeOK, EveryoneInPlace, DeliveriesAreSpent, [Next]_vars
             PROVE  DeliveriesAreSpent'
  OBVIOUS
<1>0. /\ deliveries \in Nat /\ faults \in Nat
      /\ job.attemptsMade \in Nat /\ job.stalls \in Nat
      /\ JobAttempts \in Nat /\ MaxStalls \in Nat
  BY ConstantsAssumption DEF TypeOK, Job
<1> USE <1>0, WorkerIsNoRequest
    DEF TypeOK, EveryoneInPlace, memory, observed, Final, Process, Job,
        Row, Unsent, Delivered,
        InQueue, DuplicatesCostFaults, DeliveriesAreSpent
<1>1. CASE SenderStep
  BY <1>1 DEF SenderStep, AddJob, MarkQueued
<1>2. CASE BullStep
  <2>1. CASE Due
    BY <2>1 DEF Due
  <2>2. CASE RecoverStalled
    BY <2>2 DEF RecoverStalled
  <2>3. CASE TakeJob
    BY <2>3 DEF TakeJob
  <2>4. QED
    BY <1>2, <2>1, <2>2, <2>3 DEF BullStep
<1>3. CASE WorkerStep
  <2>1. CASE Fetch
    BY <2>1 DEF Fetch, Saves
  <2>2. CASE SaveLoad(Worker)
    BY <2>2 DEF SaveLoad
  <2>3. CASE SaveWrite(Worker)
    BY <2>3 DEF SaveWrite
  <2>4. CASE SendAccepted
    BY <2>4 DEF SendAccepted, Saves
  <2>5. CASE SendRejected \/ SendLost
    <3>1. CASE SendRejected
      BY <3>1 DEF SendRejected
    <3>2. CASE SendLost
      BY <3>2 DEF SendLost
    <3>3. QED
      BY <2>5, <3>1, <3>2
  <2>6. CASE Complete
    BY <2>6 DEF Complete
  <2>7. CASE Report
    BY <2>7 DEF Report, Saves
  <2>8. CASE Rethrow
    BY <2>8 DEF Rethrow
  <2>9. QED
    BY <1>3, <2>1, <2>2, <2>3, <2>4, <2>5, <2>6, <2>7, <2>8 DEF WorkerStep
<1>4. CASE Fault
  <2>1. CASE WorkerFails
    BY <2>1 DEF WorkerFails
  <2>2. CASE SenderFails \/ \E r \in Request : RequestFails(r)
    BY <2>2 DEF SenderFails, RequestFails, Handling
  <2>3. CASE Crash
    BY <2>3 DEF Crash, Handling
  <2>4. QED
    BY <1>4, <2>1, <2>2, <2>3 DEF Fault
<1>5. ASSUME NEW r \in Request, Start(r) PROVE DeliveriesAreSpent'
  <2>1. CASE Cancel(r) \/ Refuse(r)
    BY <2>1 DEF Cancel, Refuse, Arrives
  <2>2. CASE MarkAsRead(r)
    BY <2>2 DEF MarkAsRead, Arrives
  <2>3. CASE MarkMultipleAsRead(r)
    BY <2>3 DEF MarkMultipleAsRead, Arrives
  <2>4. QED
    BY <1>5, <2>1, <2>2, <2>3 DEF Start
<1>6. ASSUME NEW r \in Request, RequestStep(r) PROVE DeliveriesAreSpent'
  <2>1. CASE SaveLoad(r)
    BY <2>1 DEF SaveLoad
  <2>2. CASE SaveWrite(r)
    BY <2>2 DEF SaveWrite
  <2>3. CASE Lookup(r) \/ RemoveLocked(r) \/ MarkCancelled(r)
    BY <2>3 DEF Lookup, RemoveLocked, MarkCancelled
  <2>4. CASE RemoveJob(r)
    BY <2>4 DEF RemoveJob
  <2>5. QED
    BY <1>6, <2>1, <2>2, <2>3, <2>4 DEF RequestStep
<1>7. CASE UNCHANGED vars
  BY <1>7 DEF vars
<1>8. QED
  BY <1>1, <1>2, <1>3, <1>4, <1>5, <1>6, <1>7 DEF Next


-----------------------------------------------------------------------------
(* A cancel after send is final.                                           *)

\* Nothing puts a job back that a cancel after send did not find.
LEMMA NextCancels ==
  TypeOK /\ EveryoneInPlace /\ CancelsHold /\ [Next]_vars => CancelsHold'
<1> SUFFICES ASSUME TypeOK, EveryoneInPlace, CancelsHold, [Next]_vars
             PROVE  CancelsHold'
  OBVIOUS
<1> USE WorkerIsNoRequest
    DEF TypeOK, EveryoneInPlace, memory, observed, Final, Process, Job,
        Row, InQueue, CancelsHold
<1>1. CASE SenderStep
  BY <1>1 DEF SenderStep, AddJob, MarkQueued
<1>2. CASE BullStep
  BY <1>2 DEF BullStep, Due, RecoverStalled, TakeJob
<1>3. CASE WorkerStep
  <2>1. CASE Fetch
    BY <2>1 DEF Fetch, Saves
  <2>2. CASE SaveLoad(Worker)
    BY <2>2 DEF SaveLoad
  <2>3. CASE SaveWrite(Worker)
    BY <2>3 DEF SaveWrite
  <2>4. CASE SendAccepted
    BY <2>4 DEF SendAccepted, Saves
  <2>5. CASE SendRejected \/ SendLost
    BY <2>5 DEF SendRejected, SendLost
  <2>6. CASE Complete
    BY <2>6 DEF Complete
  <2>7. CASE Report
    BY <2>7 DEF Report, Saves
  <2>8. CASE Rethrow
    BY <2>8 DEF Rethrow
  <2>9. QED
    BY <1>3, <2>1, <2>2, <2>3, <2>4, <2>5, <2>6, <2>7, <2>8 DEF WorkerStep
<1>4. CASE Fault
  <2>1. CASE WorkerFails
    BY <2>1 DEF WorkerFails
  <2>2. CASE SenderFails \/ \E r \in Request : RequestFails(r)
    BY <2>2 DEF SenderFails, RequestFails, Handling
  <2>3. CASE Crash
    BY <2>3 DEF Crash, Handling
  <2>4. QED
    BY <1>4, <2>1, <2>2, <2>3 DEF Fault
<1>5. ASSUME NEW r \in Request, Start(r) PROVE CancelsHold'
  <2>1. CASE Cancel(r) \/ Refuse(r)
    BY <2>1 DEF Cancel, Refuse, Arrives
  <2>2. CASE MarkAsRead(r)
    BY <2>2 DEF MarkAsRead, Arrives
  <2>3. CASE MarkMultipleAsRead(r)
    BY <2>3 DEF MarkMultipleAsRead, Arrives
  <2>4. QED
    BY <1>5, <2>1, <2>2, <2>3 DEF Start
<1>6. ASSUME NEW r \in Request, RequestStep(r) PROVE CancelsHold'
  <2>1. CASE SaveLoad(r)
    BY <2>1 DEF SaveLoad
  <2>2. CASE SaveWrite(r)
    BY <2>2 DEF SaveWrite
  <2>3. CASE Lookup(r) \/ RemoveLocked(r) \/ MarkCancelled(r)
    BY <2>3 DEF Lookup, RemoveLocked, MarkCancelled
  <2>4. CASE RemoveJob(r)
    BY <2>4 DEF RemoveJob
  <2>5. QED
    BY <1>6, <2>1, <2>2, <2>3, <2>4 DEF RequestStep
<1>7. CASE UNCHANGED vars
  BY <1>7 DEF vars
<1>8. QED
  BY <1>1, <1>2, <1>3, <1>4, <1>5, <1>6, <1>7 DEF Next


-----------------------------------------------------------------------------
(* The date of the delivery is lost only to a stale reader.                *)

\* The date of the delivery reaches the row, or a stale reader did.
LEMMA NextSentAt ==
  TypeOK /\ EveryoneInPlace /\ SentAtIsComing /\ [Next]_vars => SentAtIsComing'
<1> SUFFICES ASSUME TypeOK, EveryoneInPlace, SentAtIsComing, [Next]_vars
             PROVE  SentAtIsComing'
  OBVIOUS
<1> USE WorkerIsNoRequest
    DEF TypeOK, EveryoneInPlace, memory, observed, Final, Process, Job,
        Row, Column, Delivered,
        StaleReader, SentAtIsComing
<1>1. CASE SenderStep
  BY <1>1 DEF SenderStep, AddJob, MarkQueued
<1>2. CASE BullStep
  BY <1>2 DEF BullStep, Due, RecoverStalled, TakeJob
<1>3. CASE WorkerStep
  <2>1. CASE Fetch
    BY <2>1 DEF Fetch, Saves
  <2>2. CASE SaveLoad(Worker)
    BY <2>2 DEF SaveLoad
  <2>3. CASE SaveWrite(Worker)
    BY <2>3 DEF SaveWrite
  <2>4. CASE SendAccepted
    BY <2>4 DEF SendAccepted, Saves
  <2>5. CASE SendRejected \/ SendLost
    BY <2>5 DEF SendRejected, SendLost
  <2>6. CASE Complete
    BY <2>6 DEF Complete
  <2>7. CASE Report
    BY <2>7 DEF Report, Saves
  <2>8. CASE Rethrow
    BY <2>8 DEF Rethrow
  <2>9. QED
    BY <1>3, <2>1, <2>2, <2>3, <2>4, <2>5, <2>6, <2>7, <2>8 DEF WorkerStep
<1>4. CASE Fault
  <2>1. CASE WorkerFails
    BY <2>1 DEF WorkerFails
  <2>2. CASE SenderFails \/ \E r \in Request : RequestFails(r)
    BY <2>2 DEF SenderFails, RequestFails, Handling
  <2>3. CASE Crash
    BY <2>3 DEF Crash, Handling
  <2>4. QED
    BY <1>4, <2>1, <2>2, <2>3 DEF Fault
<1>5. ASSUME NEW r \in Request, Start(r) PROVE SentAtIsComing'
  <2>1. CASE Cancel(r) \/ Refuse(r)
    BY <2>1 DEF Cancel, Refuse, Arrives
  <2>2. CASE MarkAsRead(r)
    BY <2>2 DEF MarkAsRead, Arrives
  <2>3. CASE MarkMultipleAsRead(r)
    BY <2>3 DEF MarkMultipleAsRead, Arrives
  <2>4. QED
    BY <1>5, <2>1, <2>2, <2>3 DEF Start
<1>6. ASSUME NEW r \in Request, RequestStep(r) PROVE SentAtIsComing'
  <2>1. CASE SaveLoad(r)
    BY <2>1 DEF SaveLoad
  <2>2. CASE SaveWrite(r)
    BY <2>2 DEF SaveWrite
  <2>3. CASE Lookup(r) \/ RemoveLocked(r) \/ MarkCancelled(r)
    BY <2>3 DEF Lookup, RemoveLocked, MarkCancelled
  <2>4. CASE RemoveJob(r)
    BY <2>4 DEF RemoveJob
  <2>5. QED
    BY <1>6, <2>1, <2>2, <2>3, <2>4 DEF RequestStep
<1>7. CASE UNCHANGED vars
  BY <1>7 DEF vars
<1>8. QED
  BY <1>1, <1>2, <1>3, <1>4, <1>5, <1>6, <1>7 DEF Next


-----------------------------------------------------------------------------
(* No notification fails.                                                  *)

\* With more than one attempt the branch that marks a failure is dead.
LEMMA NextNothingFails ==
  TypeOK /\ JobAttempts > 1 /\ NothingFails /\ [Next]_vars => NothingFails'
<1> SUFFICES ASSUME TypeOK, JobAttempts > 1, NothingFails, [Next]_vars
             PROVE  NothingFails'
  OBVIOUS
<1> USE WorkerIsNoRequest, ConstantsAssumption
    DEF TypeOK, EveryoneInPlace, memory, observed, Final, Process, Job,
        Row, Column, NothingFails
<1>1. CASE SenderStep
  BY <1>1 DEF SenderStep, AddJob, MarkQueued
<1>2. CASE BullStep
  BY <1>2 DEF BullStep, Due, RecoverStalled, TakeJob
<1>3. CASE WorkerStep
  <2>1. CASE Fetch
    BY <2>1 DEF Fetch, Saves
  <2>2. CASE SaveLoad(Worker)
    BY <2>2 DEF SaveLoad
  <2>3. CASE SaveWrite(Worker)
    BY <2>3 DEF SaveWrite
  <2>4. CASE SendAccepted
    BY <2>4 DEF SendAccepted, Saves
  <2>5. CASE SendRejected \/ SendLost
    BY <2>5 DEF SendRejected, SendLost
  <2>6. CASE Complete
    BY <2>6 DEF Complete
  <2>7. CASE Report
    BY <2>7 DEF Report, Saves
  <2>8. CASE Rethrow
    BY <2>8 DEF Rethrow
  <2>9. QED
    BY <1>3, <2>1, <2>2, <2>3, <2>4, <2>5, <2>6, <2>7, <2>8 DEF WorkerStep
<1>4. CASE Fault
  <2>1. CASE WorkerFails
    BY <2>1 DEF WorkerFails
  <2>2. CASE SenderFails \/ \E r \in Request : RequestFails(r)
    BY <2>2 DEF SenderFails, RequestFails, Handling
  <2>3. CASE Crash
    BY <2>3 DEF Crash, Handling
  <2>4. QED
    BY <1>4, <2>1, <2>2, <2>3 DEF Fault
<1>5. ASSUME NEW r \in Request, Start(r) PROVE NothingFails'
  <2>1. CASE Cancel(r) \/ Refuse(r)
    BY <2>1 DEF Cancel, Refuse, Arrives
  <2>2. CASE MarkAsRead(r)
    BY <2>2 DEF MarkAsRead, Arrives
  <2>3. CASE MarkMultipleAsRead(r)
    BY <2>3 DEF MarkMultipleAsRead, Arrives
  <2>4. QED
    BY <1>5, <2>1, <2>2, <2>3 DEF Start
<1>6. ASSUME NEW r \in Request, RequestStep(r) PROVE NothingFails'
  <2>1. CASE SaveLoad(r)
    BY <2>1 DEF SaveLoad
  <2>2. CASE SaveWrite(r)
    BY <2>2 DEF SaveWrite
  <2>3. CASE Lookup(r) \/ RemoveLocked(r) \/ MarkCancelled(r)
    BY <2>3 DEF Lookup, RemoveLocked, MarkCancelled
  <2>4. CASE RemoveJob(r)
    BY <2>4 DEF RemoveJob
  <2>5. QED
    BY <1>6, <2>1, <2>2, <2>3, <2>4 DEF RequestStep
<1>7. CASE UNCHANGED vars
  BY <1>7 DEF vars
<1>8. QED
  BY <1>1, <1>2, <1>3, <1>4, <1>5, <1>6, <1>7 DEF Next

-----------------------------------------------------------------------------
(* The theorems.                                                           *)

\* The invariant holds at first.
LEMMA InitQueueInv == Init => QueueInv
<1> SUFFICES ASSUME Init PROVE QueueInv
  OBVIOUS
<1> USE WorkerIsNoRequest, ConstantsAssumption DEF Init, Created
<1>1. SentInMemoryWasDelivered
  BY DEF SentWasDelivered, SentInMemoryWasDelivered, Delivered
<1>2. DeliveriesAreSpent
  BY DEF DuplicatesCostFaults, DeliveriesAreSpent
<1>3. CancelsHold
  BY DEF CancelsHold
<1>4. SentAtIsComing
  BY DEF SentAtIsComing, Delivered
<1>5. QED
  BY <1>1, <1>2, <1>3, <1>4, InitInPlace DEF QueueInv

\* The conjunction of the invariants: every reachable state satisfies it.
THEOREM QueueInvHolds == Spec => []QueueInv
<1>1. TypeOK /\ QueueInv /\ [Next]_vars => QueueInv'
  BY NextInPlace, NextSent, NextSpent, NextCancels, NextSentAt DEF QueueInv
<1>2. QED
  BY <1>1, InitQueueInv, TypeCorrect, PTL DEF Spec

\* Whatever overlaps, fails or crashes, a notification that is marked sent, or
\* has a date of sending, was delivered.
THEOREM SentMeansDelivered == Spec => []SentWasDelivered
<1>1. QueueInv => SentWasDelivered
  BY DEF QueueInv, SentInMemoryWasDelivered
<1>2. QED
  BY <1>1, QueueInvHolds, PTL

\* Each delivery beyond the first is paid for by a fault, and there are never
\* more than the attempts and stalls Bull allows, whatever their number.
THEOREM DuplicatesBounded == Spec => []DuplicatesCostFaults
<1>1. QueueInv => DuplicatesCostFaults
  BY DEF QueueInv, DeliveriesAreSpent
<1>2. QED
  BY <1>1, QueueInvHolds, PTL

\* A cancel that comes after send has ended and is answered with success leaves
\* no job and no worker behind.
THEOREM CancelsAreFinal == Spec => []CancelIsFinal
<1>1. QueueInv => CancelIsFinal
  BY DEF QueueInv, EveryoneInPlace, CancelsHold, CancelIsFinal, InQueue
<1>2. QED
  BY <1>1, QueueInvHolds, PTL

\* The date of a confirmed delivery is lost only to a reader that saves a copy
\* it loaded before.
THEOREM SentAtKept == Spec => []SentAtLostOnlyToReader
<1>1. QueueInv => SentAtLostOnlyToReader
  BY DEF QueueInv, SentAtIsComing, StaleReader, SentAtLostOnlyToReader
<1>2. QED
  BY <1>1, QueueInvHolds, PTL

\* As soon as a job may be attempted twice, no notification ever reaches a
\* status that retry accepts.
THEOREM RetryIsDead ==
  ASSUME JobAttempts > 1 PROVE Spec => []NeverRetriable
<1>1. Init => NothingFails
  BY DEF Init, NothingFails, Created
<1>2. TypeOK /\ NothingFails /\ [Next]_vars => NothingFails'
  BY NextNothingFails
<1>3. NothingFails => NeverRetriable
  BY DEF NothingFails, NeverRetriable, CanRetry
<1>4. QED
  BY <1>1, <1>2, <1>3, TypeCorrect, PTL DEF Spec

-----------------------------------------------------------------------------
(* A notification becomes unread again only through the worker.            *)

\* A reader that is about to save has its own mark in the entity.
ReadersRemember ==
  \A r \in Request : pc[r] \in {"load", "write"} => local[r].readAt = r

\* No step takes that mark away.
LEMMA NextReaders ==
  TypeOK /\ EveryoneInPlace /\ ReadersRemember /\ [Next]_vars => ReadersRemember'
<1> SUFFICES ASSUME TypeOK, EveryoneInPlace, ReadersRemember, [Next]_vars,
                    NEW q \in Request, pc'[q] \in {"load", "write"}
             PROVE  local'[q].readAt = q
  BY DEF ReadersRemember
<1> USE WorkerIsNoRequest DEF TypeOK, memory, observed, Process
<1>1. ASSUME pc[q] \in {"load", "write"}, local'[q] = local[q] PROVE local'[q].readAt = q
  BY <1>1 DEF ReadersRemember
<1>2. CASE SenderStep \/ BullStep
  BY <1>1, <1>2 DEF SenderStep, AddJob, MarkQueued, BullStep, Due, RecoverStalled, TakeJob
<1>3. CASE WorkerStep
  BY <1>1, <1>3 DEF WorkerStep, Fetch, SendAccepted, Report, Saves, SaveLoad, SaveWrite,
     SendRejected, SendLost, Complete, Rethrow
<1>4. CASE Fault
  <2>1. CASE WorkerFails \/ SenderFails
    BY <1>1, <2>1 DEF WorkerFails, SenderFails
  <2>2. CASE \E r \in Request : RequestFails(r)
    BY <1>1, <2>2 DEF RequestFails
  <2>3. CASE Crash
    BY <1>1, <2>3 DEF Crash, Handling
  <2>4. QED
    BY <1>4, <2>1, <2>2, <2>3 DEF Fault
<1>5. ASSUME NEW r \in Request, Start(r) PROVE local'[q].readAt = q
  <2>1. CASE Cancel(r) \/ Refuse(r) \/ MarkMultipleAsRead(r)
    BY <1>1, <2>1 DEF Cancel, Refuse, MarkMultipleAsRead, Arrives
  <2>2. CASE MarkAsRead(r)
    BY <1>1, <2>2 DEF MarkAsRead, Arrives, Row
  <2>3. QED
    BY <1>5, <2>1, <2>2 DEF Start
<1>6. ASSUME NEW r \in Request, RequestStep(r) PROVE local'[q].readAt = q
  <2>1. CASE SaveLoad(r)
    BY <1>1, <2>1 DEF SaveLoad
  <2>2. CASE SaveWrite(r)
    BY <1>1, <2>2 DEF SaveWrite, EveryoneInPlace
  <2>3. CASE Lookup(r) \/ RemoveJob(r) \/ RemoveLocked(r) \/ MarkCancelled(r)
    BY <1>1, <2>3 DEF Lookup, RemoveJob, RemoveLocked, MarkCancelled
  <2>4. QED
    BY <1>6, <2>1, <2>2, <2>3 DEF RequestStep
<1>7. CASE UNCHANGED vars
  BY <1>1, <1>7 DEF vars
<1>8. QED
  BY <1>2, <1>3, <1>4, <1>5, <1>6, <1>7 DEF Next

\* A step that makes the notification unread is the worker's.
LEMMA UnreadByWorker ==
  ASSUME TypeOK, ReadersRemember, [Next]_vars, row.readAt # 0, row'.readAt = 0
  PROVE  pc[Worker] = "write" /\ local[Worker].readAt = 0
<1> USE WorkerIsNoRequest DEF TypeOK, memory, observed, Process, Row
<1>1. ASSUME NEW p \in Process, SaveWrite(p)
      PROVE  pc[p] = "write" /\ local[p].readAt = 0
  <2>1. row'.readAt = IF "readAt" \in diff[p] THEN local[p].readAt ELSE row.readAt
    BY <1>1 DEF SaveWrite, Column
  <2>2. QED
    BY <1>1, <2>1 DEF SaveWrite
<1>2. ASSUME NEW r \in Request, SaveWrite(r) PROVE FALSE
  BY <1>1, <1>2 DEF ReadersRemember, Request
<1>3. ASSUME row'.readAt = row.readAt PROVE FALSE
  BY <1>3
<1>4. CASE SenderStep \/ BullStep
  BY <1>3, <1>4 DEF SenderStep, AddJob, MarkQueued, BullStep, Due, RecoverStalled, TakeJob
<1>5. CASE WorkerStep
  BY <1>1, <1>3, <1>5 DEF WorkerStep, Fetch, SendAccepted, Report, SaveLoad, SendRejected,
     SendLost, Complete, Rethrow
<1>6. CASE Fault
  BY <1>3, <1>6 DEF Fault, WorkerFails, SenderFails, Crash, RequestFails
<1>7. ASSUME NEW r \in Request, Start(r) PROVE FALSE
  <2>1. r # 0
    BY DEF Request
  <2>2. QED
    BY <1>3, <1>7, <2>1 DEF Start, Cancel, Refuse, MarkAsRead, MarkMultipleAsRead
<1>8. ASSUME NEW r \in Request, RequestStep(r) PROVE FALSE
  BY <1>2, <1>3, <1>8 DEF RequestStep, Lookup, RemoveJob, RemoveLocked, MarkCancelled,
     SaveLoad
<1>9. CASE UNCHANGED vars
  BY <1>3, <1>9 DEF vars
<1>10. QED
  BY <1>4, <1>5, <1>6, <1>7, <1>8, <1>9 DEF Next

\* However requests, the worker, failures and crashes interleave, what the user has
\* read becomes unread only by the save of a worker that loaded it unread.
THEOREM ReadAlwaysKeptByReaders == Spec => ReadLostOnlyToWorker
<1>1. Init => ReadersRemember
  BY DEF Init, ReadersRemember, Process
<1>2. TypeOK /\ ReadersRemember /\ [Next]_vars =>
        [row.readAt # 0 /\ row'.readAt = 0
           => pc[Worker] = "write" /\ local[Worker].readAt = 0]_vars
  BY UnreadByWorker
<1>3. QED
  BY <1>1, <1>2, InPlaceHolds, NextReaders, PTL DEF Spec, ReadLostOnlyToWorker

-----------------------------------------------------------------------------
(* NotificationQueue implements NotificationDelivery.                      *)

\* The initial states are initial states of NotificationDelivery.
LEMMA InitDelivery == Init => Delivery!Init
<1> SUFFICES ASSUME Init PROVE Delivery!Init
  OBVIOUS
<1>1. job.state = "none" /\ deliveries = 0
  BY DEF Init
<1>2. Phase = "new"
  BY <1>1 DEF Phase, InQueue
<1>3. QED
  BY <1>1, <1>2 DEF Delivery!Init

\* The steps that move the job or deliver are steps of NotificationDelivery.
LEMMA StepDelivery ==
  TypeOK /\ QueueInv /\ [Next]_vars => [Delivery!Next]_<<Phase, deliveries>>
<1> SUFFICES ASSUME TypeOK, QueueInv, [Next]_vars,
                    ~ UNCHANGED <<Phase, deliveries>>
             PROVE  Delivery!Next
  OBVIOUS
<1>0. /\ EveryoneInPlace /\ SentInMemoryWasDelivered
      /\ job.state \in JobState /\ deliveries \in Nat
      /\ job \in Job
  BY DEF QueueInv, TypeOK, Job
<1> USE DEF Delivery!Next, Phase, InQueue, JobState, observed, Job
<1>1. CASE SenderStep
  BY <1>0, <1>1 DEF SenderStep, AddJob, MarkQueued, EveryoneInPlace,
     Delivery!Accept
<1>2. CASE BullStep
  BY <1>0, <1>2 DEF BullStep, Due, RecoverStalled, TakeJob, Delivery!Abandon
<1>3. CASE WorkerStep
  <2>1. job.state = "active"
    BY <1>0, <1>3 DEF WorkerStep, Fetch, SaveLoad, SaveWrite, SendAccepted,
       SendRejected, SendLost, Complete, Report, Rethrow, EveryoneInPlace
  <2>2. CASE SendAccepted \/ SendLost
    BY <2>1, <2>2 DEF SendAccepted, SendLost, Delivery!Deliver
  <2>3. CASE Complete
    BY <1>0, <2>1, <2>3 DEF Complete, SentInMemoryWasDelivered, Delivered,
       Delivery!Confirm
  <2>4. CASE Rethrow
    BY <1>0, <2>1, <2>4 DEF Rethrow, Delivery!Abandon
  <2>5. CASE ~(SendAccepted \/ SendLost \/ Complete \/ Rethrow)
    BY <1>3, <2>5 DEF WorkerStep, Fetch, SaveLoad, SaveWrite, SendRejected, Report
  <2>6. QED
    BY <2>2, <2>3, <2>4, <2>5
<1>4. CASE Fault
  BY <1>0, <1>4 DEF Fault, WorkerFails, SenderFails, RequestFails, Crash
<1>5. ASSUME NEW r \in Request, Start(r) PROVE FALSE
  BY <1>5 DEF Start, Cancel, MarkAsRead, MarkMultipleAsRead, Refuse
<1>6. ASSUME NEW r \in Request, RequestStep(r) PROVE Delivery!Next
  <2>1. CASE RemoveJob(r)
    BY <1>0, <2>1 DEF RemoveJob, EveryoneInPlace, Delivery!Withdraw
  <2>2. CASE ~RemoveJob(r)
    BY <1>6, <2>2 DEF RequestStep, Lookup, RemoveLocked, MarkCancelled,
       SaveLoad, SaveWrite
  <2>3. QED
    BY <2>1, <2>2
<1>7. CASE UNCHANGED vars
  BY <1>7 DEF vars
<1>8. QED
  BY <1>1, <1>2, <1>3, <1>4, <1>5, <1>6, <1>7 DEF Next

\* However requests, failures and crashes interleave, the queue delivers what it
\* confirms and delivers nothing once it has confirmed, given up or withdrawn.
THEOREM DeliveryImplemented == Spec => ImplementsDelivery
<1>1. TypeOK /\ QueueInv /\ [Next]_vars => [Delivery!Next]_<<Phase, deliveries>>
  BY StepDelivery
<1>2. QED
  BY <1>1, InitDelivery, TypeCorrect, QueueInvHolds, PTL
     DEF Spec, ImplementsDelivery, Delivery!Spec

=============================================================================
