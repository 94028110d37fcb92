--------------------------- MODULE NotificationQueue ---------------------------
(***************************************************************************)
(* The delivery of one notification: NotificationsService.send, the job it *)
(* adds to the Bull queue, the worker NotificationQueueService registers   *)
(* for it, and the requests that reach the notification meanwhile (cancel, *)
(* retry, marking it read).                                                *)
(*                                                                         *)
(* All of them share the row of table notifications, and every await is a  *)
(* point where another one runs.  Processes are the sender, the worker (0) *)
(* and the requests 1 .. MaxRequests.  A repository.save(entity) is two    *)
(* accesses, as in PoaLifecycle: "load" compares the entity with the       *)
(* stored row, "write" updates the columns that differed; then[p] is where *)
(* process p goes on.                                                      *)
(*                                                                         *)
(* Bull is external.  It gives a job to the worker under a lock, runs it   *)
(* again after a back-off when the worker throws, up to JobAttempts times, *)
(* and gives it out again when the worker died (a stalled job), up to      *)
(* MaxStalls times.                                                        *)
(*                                                                         *)
(* Left out: the text, the recipient, the error texts and the metadata of  *)
(* the provider.  sentAt holds the number of the delivery it dates and     *)
(* readAt the request that set it, 0 when null.                            *)
(***************************************************************************)
EXTENDS Integers

CONSTANTS
  MaxRequests,  \* bound: the number of requests on the notification
  MaxFaults,    \* bound: failing accesses, lost answers and crashes
  JobAttempts,  \* JOB_ATTEMPTS
  MaxStalls     \* Bull's maxStalledCount

ASSUME ConstantsAssumption == /\ MaxRequests \in Nat
                              /\ MaxFaults \in Nat
                              /\ JobAttempts \in Nat \ {0}
                              /\ MaxStalls \in Nat

Request == 1 .. MaxRequests
Worker == 0
Process == Request \cup {Worker}

Status == {"pending", "queued", "sending", "sent", "delivered", "failed",
           "bounced", "cancelled"}
Column == {"status", "attempts", "sentAt", "readAt"}
Row == [status : Status, attempts : Nat, sentAt : Nat, readAt : Nat]

\* Where a job is; "none" before it is added, "stalled" when its worker died.
JobState == {"none", "delayed", "waiting", "active", "stalled",
             "completed", "failed", "removed"}
Job == [state : JobState, attempt : Nat, attemptsMade : Nat, stalls : Nat]

VARIABLES
  row,         \* the notification's row in the database
  job,         \* its job in Redis
  sender,      \* how far NotificationsService.send is
  pc,          \* pc[p]: where process p is
  op,          \* op[r]: the method request r runs
  local,       \* local[p]: the entity p holds in memory
  diff,        \* diff[p]: the columns its save will update
  then,        \* then[p]: where p goes on after its save
  afterSend,   \* observer: the requests that came when send had ended
  deliveries,  \* observer: how often the provider delivered the notification
  faults       \* accesses that failed, answers lost, crashes

vars == <<row, job, sender, pc, op, local, diff, then, afterSend,
          deliveries, faults>>

\* Parts of vars, for UNCHANGED.
memory == <<local, diff, then>>
observed == <<afterSend, deliveries, faults>>

Op == {"cancel", "retry", "markAsRead", "markMultipleAsRead"}
InQueue == {"delayed", "waiting", "active", "stalled"}
Ended == {"completed", "failed", "removed"}
Final == {"done", "refused", "failed"}
Handling == {r \in Request : pc[r] \notin Final \cup {"idle"}}
Quiet == sender \in Final /\ Handling = {} /\ pc[Worker] = "idle"

Created(status) ==
  [status |-> status, attempts |-> 0, sentAt |-> 0, readAt |-> 0]

\* send has inserted the row: to be queued, or cancelled because the user's
\* preferences do not allow it.
Init ==
  /\ \/ row = Created("pending") /\ sender = "add"
     \/ row = Created("cancelled") /\ sender = "done"
  /\ job = [state |-> "none", attempt |-> 1, attemptsMade |-> 0, stalls |-> 0]
  /\ pc = [p \in Process |-> "idle"]
  /\ op = [r \in Request |-> "none"]
  /\ local = [p \in Process |-> row]
  /\ diff = [p \in Process |-> {}]
  /\ then = [p \in Process |-> "idle"]
  /\ afterSend = {}
  /\ deliveries = 0
  /\ faults = 0

-----------------------------------------------------------------------------
(* Saving an entity.                                                        *)

SaveLoad(p) ==
  /\ pc[p] = "load"
  /\ diff' = [diff EXCEPT ![p] = {c \in Column : local[p][c] # row[c]}]
  /\ pc' = [pc EXCEPT ![p] = "write"]
  /\ UNCHANGED <<row, job, sender, op, local, then, observed>>

SaveWrite(p) ==
  /\ pc[p] = "write"
  /\ row' = [c \in Column |-> IF c \in diff[p] THEN local[p][c] ELSE row[c]]
  /\ pc' = [pc EXCEPT ![p] = then[p]]
  /\ diff' = [diff EXCEPT ![p] = {}]
  /\ UNCHANGED <<job, sender, op, local, then, observed>>

\* p has changed its entity and saves it, then goes on at next.
Saves(p, entity, next) ==
  /\ local' = [local EXCEPT ![p] = entity]
  /\ then' = [then EXCEPT ![p] = next]
  /\ pc' = [pc EXCEPT ![p] = "load"]

-----------------------------------------------------------------------------
(* NotificationsService.send and queueNotification: add the job, then mark *)
(* the row as queued.  The job is delayed in quiet hours and when the      *)
(* caller scheduled it.                                                    *)

AddJob ==
  /\ sender = "add"
  /\ \E state \in {"waiting", "delayed"} : job' = [job EXCEPT !.state = state]
  /\ sender' = "enqueue"
  /\ UNCHANGED <<row, pc, op, memory, observed>>

\* Faulty variant of MarkQueued: it saves the row that send created.
MarkQueuedWhole ==
  /\ sender = "enqueue"
  /\ row' = Created("queued")
  /\ sender' = "done"
  /\ UNCHANGED <<job, pc, op, memory, observed>>

MarkQueued ==
  /\ sender = "enqueue"
  /\ row' = [row EXCEPT !.status = "queued"]
  /\ sender' = "done"
  /\ UNCHANGED <<job, pc, op, memory, observed>>

-----------------------------------------------------------------------------
(* Bull.                                                                    *)

\* The delay of a job, or its back-off, is over.
Due ==
  /\ job.state = "delayed"
  /\ job' = [job EXCEPT !.state = "waiting"]
  /\ UNCHANGED <<row, sender, pc, op, memory, observed>>

\* The periodic check for jobs whose lock expired.
RecoverStalled ==
  /\ job.state = "stalled"
  /\ job' = [job EXCEPT !.stalls = @ + 1,
               !.state = IF job.stalls < MaxStalls THEN "waiting" ELSE "failed"]
  /\ UNCHANGED <<row, sender, pc, op, memory, observed>>

-----------------------------------------------------------------------------
(* The worker: processNotification.                                         *)

TakeJob ==
  /\ job.state = "waiting" /\ pc[Worker] = "idle"
  /\ job' = [job EXCEPT !.state = "active"]
  /\ pc' = [pc EXCEPT ![Worker] = "fetch"]
  /\ UNCHANGED <<row, sender, op, memory, observed>>

\* Faulty variant of Fetch: the row is marked sent before sending.
FetchAsSent ==
  /\ pc[Worker] = "fetch"
  /\ Saves(Worker, [row EXCEPT !.status = "sent", !.attempts = job.attempt],
           "send")
  /\ UNCHANGED <<row, job, sender, op, diff, observed>>

\* attempt comes from the job's data, which nobody changes between attempts.
Fetch ==
  /\ pc[Worker] = "fetch"
  /\ Saves(Worker, [row EXCEPT !.status = "sending", !.attempts = job.attempt],
           "send")
  /\ UNCHANGED <<row, job, sender, op, diff, observed>>

\* The channel delivers and says so.
SendAccepted ==
  /\ pc[Worker] = "send"
  /\ deliveries' = deliveries + 1
  /\ Saves(Worker,
           [local[Worker] EXCEPT !.status = "sent", !.sentAt = deliveries'],
           "complete")
  /\ UNCHANGED <<row, job, sender, op, diff, afterSend, faults>>

\* The channel answers success: false, and the handler throws.
SendRejected ==
  /\ pc[Worker] = "send"
  /\ pc' = [pc EXCEPT ![Worker] = "report"]
  /\ UNCHANGED <<row, job, sender, op, memory, observed>>

\* The provider delivers, but its answer is lost and reported as a failure.
SendLost ==
  /\ pc[Worker] = "send"
  /\ faults < MaxFaults
  /\ deliveries' = deliveries + 1
  /\ faults' = faults + 1
  /\ pc' = [pc EXCEPT ![Worker] = "report"]
  /\ UNCHANGED <<row, job, sender, op, memory, afterSend>>

\* Faulty variant of Complete: the job runs once more.
CompleteAgain ==
  /\ pc[Worker] = "complete"
  /\ job' = [job EXCEPT !.state = "waiting"]
  /\ pc' = [pc EXCEPT ![Worker] = "idle"]
  /\ UNCHANGED <<row, sender, op, memory, observed>>

\* The handler returns: removeOnComplete deletes the job.
Complete ==
  /\ pc[Worker] = "complete"
  /\ job' = [job EXCEPT !.state = "completed"]
  /\ pc' = [pc EXCEPT ![Worker] = "idle"]
  /\ UNCHANGED <<row, sender, op, memory, observed>>

\* Faulty variant of Report: every failed attempt is final.
ReportAsFailed ==
  /\ pc[Worker] = "report"
  /\ Saves(Worker, [row EXCEPT !.attempts = job.attempt, !.status = "failed"],
           "rethrow")
  /\ UNCHANGED <<row, job, sender, op, diff, observed>>

\* updateNotificationError: "failed" only when the attempts are exhausted.
Report ==
  /\ pc[Worker] = "report"
  /\ Saves(Worker,
           [row EXCEPT !.attempts = job.attempt,
              !.status = IF job.attempt >= JobAttempts THEN "failed" ELSE @],
           "rethrow")
  /\ UNCHANGED <<row, job, sender, op, diff, observed>>

\* Faulty variant of Rethrow: the attempts are not counted.
RethrowUncounted ==
  /\ pc[Worker] = "rethrow"
  /\ job' = [job EXCEPT !.state = "delayed"]
  /\ pc' = [pc EXCEPT ![Worker] = "idle"]
  /\ UNCHANGED <<row, sender, op, memory, observed>>

\* The handler throws: Bull runs the job again later, or gives it up.
Rethrow ==
  /\ pc[Worker] = "rethrow"
  /\ job' = [job EXCEPT !.attemptsMade = @ + 1,
               !.state = IF job.attemptsMade + 1 < JobAttempts
                         THEN "delayed" ELSE "failed"]
  /\ pc' = [pc EXCEPT ![Worker] = "idle"]
  /\ UNCHANGED <<row, sender, op, memory, observed>>

-----------------------------------------------------------------------------
(* The requests.                                                            *)

IsPending == row.status \in {"pending", "queued"}

\* The entity's maxAttempts is 3, as JOB_ATTEMPTS.
CanRetry == row.status \in {"failed", "bounced"} /\ row.attempts < JobAttempts

Arrives(r, o, next) ==
  /\ pc[r] = "idle"
  /\ \A q \in 1 .. r - 1 : pc[q] # "idle"
  /\ op' = [op EXCEPT ![r] = o]
  /\ pc' = [pc EXCEPT ![r] = next]
  /\ afterSend' = IF sender \in Final THEN afterSend \cup {r} ELSE afterSend

\* cancel tests the row it read; then cancelNotification looks for the job.
Cancel(r) ==
  /\ IsPending
  /\ Arrives(r, "cancel", "lookup")
  /\ UNCHANGED <<row, job, sender, memory, deliveries, faults>>

\* 400 for a notification that cannot be cancelled or retried, or that is of
\* another user.
Refuse(r) ==
  /\ \E o \in Op : /\ o = "cancel" => ~IsPending
                   /\ o = "retry" => ~CanRetry
                   /\ o # "markMultipleAsRead"
                   /\ Arrives(r, o, "refused")
  /\ UNCHANGED <<row, job, sender, memory, deliveries, faults>>

\* Faulty variant of Lookup: delayed jobs are forgotten.
LookupWaiting(r) ==
  /\ pc[r] = "lookup"
  /\ pc' = [pc EXCEPT ![r] = IF job.state \in {"waiting", "active", "stalled"}
                            THEN "remove" ELSE "mark"]
  /\ UNCHANGED <<row, job, sender, op, memory, observed>>

Lookup(r) ==
  /\ pc[r] = "lookup"
  /\ pc' = [pc EXCEPT ![r] = IF job.state \in InQueue THEN "remove" ELSE "mark"]
  /\ UNCHANGED <<row, job, sender, op, memory, observed>>

\* Faulty variant of RemoveJob: the lock is ignored.
RemoveAnyJob(r) ==
  /\ pc[r] = "remove"
  /\ job' = [job EXCEPT !.state = IF @ = "completed" THEN @ ELSE "removed"]
  /\ pc' = [pc EXCEPT ![r] = "mark"]
  /\ UNCHANGED <<row, sender, op, memory, observed>>

\* job.remove() deletes the job wherever it is by now, unless a lock is held;
\* the lock of a stalled job may or may not have expired yet.
RemoveJob(r) ==
  /\ pc[r] = "remove"
  /\ job.state # "active"
  /\ job' = [job EXCEPT !.state = IF @ = "completed" THEN @ ELSE "removed"]
  /\ pc' = [pc EXCEPT ![r] = "mark"]
  /\ UNCHANGED <<row, sender, op, memory, observed>>

RemoveLocked(r) ==
  /\ pc[r] = "remove"
  /\ job.state \in {"active", "stalled"}
  /\ pc' = [pc EXCEPT ![r] = "failed"]
  /\ UNCHANGED <<row, job, sender, op, memory, observed>>

MarkCancelled(r) ==
  /\ pc[r] = "mark"
  /\ row' = [row EXCEPT !.status = "cancelled"]
  /\ pc' = [pc EXCEPT ![r] = "done"]
  /\ UNCHANGED <<job, sender, op, memory, observed>>

\* markAsRead saves the whole entity it read.
MarkAsRead(r) ==
  /\ Arrives(r, "markAsRead", "load")
  /\ local' = [local EXCEPT ![r] = [row EXCEPT !.readAt = r]]
  /\ then' = [then EXCEPT ![r] = "done"]
  /\ UNCHANGED <<row, job, sender, diff, deliveries, faults>>

\* markMultipleAsRead updates one column.
MarkMultipleAsRead(r) ==
  /\ Arrives(r, "markMultipleAsRead", "done")
  /\ row' = [row EXCEPT !.readAt = r]
  /\ UNCHANGED <<job, sender, memory, deliveries, faults>>

-----------------------------------------------------------------------------
(* What goes wrong.                                                         *)

\* An access of the handler throws.  processNotification reports the error;
\* updateNotificationError swallows its own.
WorkerFails ==
  /\ pc[Worker] \in {"fetch", "load", "write", "report"}
  /\ faults < MaxFaults
  /\ faults' = faults + 1
  /\ LET reporting == pc[Worker] = "report"
                      \/ (pc[Worker] # "fetch" /\ then[Worker] = "rethrow")
     IN pc' = [pc EXCEPT ![Worker] = IF reporting THEN "rethrow" ELSE "report"]
  /\ UNCHANGED <<row, job, sender, op, memory, afterSend, deliveries>>

SenderFails ==
  /\ sender \in {"add", "enqueue"}
  /\ faults < MaxFaults
  /\ faults' = faults + 1
  /\ sender' = "failed"
  /\ UNCHANGED <<row, job, pc, op, memory, afterSend, deliveries>>

RequestFails(r) ==
  /\ r \in Handling
  /\ faults < MaxFaults
  /\ faults' = faults + 1
  /\ pc' = [pc EXCEPT ![r] = "failed"]
  /\ UNCHANGED <<row, job, sender, op, memory, afterSend, deliveries>>

\* Faulty variant of Crash: the job of a dead worker is lost.
CrashUnlocked ==
  /\ ~Quiet
  /\ faults < MaxFaults
  /\ faults' = faults + 1
  /\ sender' = IF sender = "done" THEN sender ELSE "failed"
  /\ pc' = [p \in Process |-> IF p \in Handling THEN "failed"
                             ELSE IF p = Worker THEN "idle" ELSE pc[p]]
  /\ job' = [job EXCEPT !.state = IF @ = "active" THEN "lost" ELSE @]
  /\ UNCHANGED <<row, op, memory, afterSend, deliveries>>

\* The Node process, which runs the worker and the requests, dies and restarts.
Crash ==
  /\ ~Quiet
  /\ faults < MaxFaults
  /\ faults' = faults + 1
  /\ sender' = IF sender = "done" THEN sender ELSE "failed"
  /\ pc' = [p \in Process |-> IF p \in Handling THEN "failed"
                             ELSE IF p = Worker THEN "idle" ELSE pc[p]]
  /\ job' = [job EXCEPT !.state = IF @ = "active" THEN "stalled" ELSE @]
  /\ UNCHANGED <<row, op, memory, afterSend, deliveries>>

-----------------------------------------------------------------------------

SenderStep == AddJob \/ MarkQueued

WorkerStep ==
  \/ Fetch \/ SaveLoad(Worker) \/ SaveWrite(Worker)
  \/ SendAccepted \/ SendRejected \/ SendLost
  \/ Complete \/ Report \/ Rethrow

BullStep == Due \/ RecoverStalled \/ TakeJob

Start(r) == Cancel(r) \/ MarkAsRead(r) \/ MarkMultipleAsRead(r) \/ Refuse(r)

RequestStep(r) ==
  \/ Lookup(r) \/ RemoveJob(r) \/ RemoveLocked(r) \/ MarkCancelled(r)
  \/ SaveLoad(r) \/ SaveWrite(r)

Fault ==
  WorkerFails \/ SenderFails \/ Crash \/ \E r \in Request : RequestFails(r)

Next ==
  \/ SenderStep \/ WorkerStep \/ BullStep \/ Fault
  \/ \E r \in Request : Start(r) \/ RequestStep(r)

Spec == Init /\ [][Next]_vars

\* A process that is running takes its next step, and Bull's timers fire and
\* its worker polls.  Nothing obliges a request to come or an access to fail.
FairSpec ==
  /\ Spec
  /\ WF_vars(SenderStep) /\ WF_vars(WorkerStep) /\ WF_vars(BullStep)
  /\ \A r \in Request : WF_vars(RequestStep(r))

-----------------------------------------------------------------------------
(* Properties.                                                              *)

TypeOK ==
  /\ row \in Row
  /\ job \in Job
  /\ sender \in {"add", "enqueue", "done", "failed"}
  /\ pc \in [Process -> Final \cup {"idle", "load", "write", "fetch", "send",
               "report", "complete", "rethrow", "lookup", "remove", "mark"}]
  /\ op \in [Request -> Op \cup {"none"}]
  /\ local \in [Process -> Row]
  /\ diff \in [Process -> SUBSET Column]
  /\ then \in [Process -> {"idle", "send", "complete", "rethrow", "done"}]
  /\ afterSend \subseteq Request
  /\ deliveries \in Nat
  /\ faults \in 0 .. MaxFaults

\* Whatever stale entities are saved, and in whatever order: a notification
\* that says it was sent, or when, was delivered.
SentWasDelivered == row.status = "sent" \/ row.sentAt # 0 => deliveries > 0

\* The notification is delivered twice only if something failed after the
\* first delivery, and never more often than Bull hands the job out.
DuplicatesCostFaults ==
  /\ deliveries <= 1 + faults
  /\ deliveries <= JobAttempts + MaxStalls

\* A cancel that came after send had ended and is answered with success is
\* final: the notification has no job, and no worker holds it.
CancelIsFinal ==
  \A r \in afterSend :
    op[r] = "cancel" /\ pc[r] = "done" =>
      job.state \notin InQueue /\ pc[Worker] = "idle"

\* Once the job is completed, the date of the delivery is in the row, unless a
\* reader that loaded the row before wrote its copy back.
SentAtLostOnlyToReader ==
  job.state = "completed" /\ row.sentAt = 0 =>
    \E r \in Request : op[r] = "markAsRead" /\ local[r].sentAt = 0

\* A notification becomes unread again only when the worker saves the entity it
\* loaded before the user read it.
ReadLostOnlyToWorker ==
  [][row.readAt # 0 /\ row'.readAt = 0
     => pc[Worker] = "write" /\ local[Worker].readAt = 0]_vars

\* No notification is ever in a status that retry accepts, so retryNotification
\* past its check is never reached (and is not modelled).
NeverRetriable == ~CanRetry

\* Fairness: every job leaves the queue, delivered, given up or removed.
JobEnds == job.state \in InQueue ~> job.state \in Ended

=============================================================================
