------------------------- MODULE NotificationPromises -------------------------
(***************************************************************************)
(* What the notification module promises of a notification, as an abstract *)
(* specification and as the sentences of its documentation.                *)
(***************************************************************************)
EXTENDS NotificationQueue

Phase ==
  CASE job.state = "none" -> "new"
    [] job.state \in InQueue -> "accepted"
    [] job.state = "completed" -> "confirmed"
    [] job.state = "failed" -> "abandoned"
    [] job.state = "removed" -> "withdrawn"

Delivery == INSTANCE NotificationDelivery WITH phase <- Phase

\* Bull and the worker deliver at least once what they complete, and nothing
\* after it was completed, given up or removed.
ImplementsDelivery == Delivery!Spec

\* The invariants behind the theorems of NotificationQueueProofs.  The worker is
\* at work exactly while it holds the lock of the job, and each request is at a
\* step of its own method.
EveryoneInPlace ==
  /\ pc[Worker] \in {"idle", "load", "write", "fetch", "send", "report",
                    "complete", "rethrow"}
  /\ pc[Worker] \in {"load", "write"} =>
       then[Worker] \in {"send", "complete", "rethrow"}
  /\ pc[Worker] = "idle" <=> job.state # "active"
  /\ sender = "add" => job.state = "none"
  /\ \A r \in Request :
       /\ pc[r] \in Final \cup
            {"idle", "load", "write", "lookup", "remove", "mark"}
       /\ pc[r] = "idle" => op[r] = "none"
       /\ pc[r] \in {"load", "write"} => op[r] = "markAsRead" /\ then[r] = "done"
       /\ pc[r] = "remove" => job.state # "none"

\* The worker has not sent in this attempt, or it sent with success.
Unsent == \/ pc[Worker] \in {"fetch", "send"}
          \/ pc[Worker] \in {"load", "write"} /\ then[Worker] = "send"
Delivered == \/ pc[Worker] = "complete"
             \/ pc[Worker] \in {"load", "write"} /\ then[Worker] = "complete"

\* Who holds a sent status or date in memory got it from a delivery, too.
SentInMemoryWasDelivered ==
  /\ SentWasDelivered
  /\ \A p \in Process :
       local[p].status = "sent" \/ local[p].sentAt # 0 => deliveries > 0
  /\ Delivered \/ job.state = "completed" => deliveries > 0

\* A delivery uses up an attempt or a stall, and one more than faults only
\* while it is being, or has been, confirmed.
DeliveriesAreSpent ==
  /\ DuplicatesCostFaults
  /\ job.state \in InQueue \cup {"none"} =>
       job.attemptsMade < JobAttempts /\ job.stalls <= MaxStalls
  /\ job.state \in {"none", "delayed", "waiting"} \/ Unsent =>
       deliveries <= job.attemptsMade + job.stalls
  /\ job.state \in {"active", "stalled"} =>
       deliveries <= job.attemptsMade + job.stalls + 1
  /\ ~Delivered /\ job.state # "completed" => deliveries <= faults

\* A cancel that came after send and is past its look-up left no job to handle.
CancelsHold ==
  \A r \in afterSend :
    /\ sender \in Final
    /\ op[r] = "cancel" /\ pc[r] \in {"mark", "done"} => job.state \notin InQueue

\* The date of the delivery is on its way to the row, or there, or a reader that
\* did not see it may have overwritten it.
StaleReader == \E r \in Request : op[r] = "markAsRead" /\ local[r].sentAt = 0
SentAtIsComing ==
  /\ Delivered /\ pc[Worker] # "complete" => local[Worker].sentAt # 0
  /\ Delivered /\ pc[Worker] = "write" =>
       "sentAt" \in diff[Worker] \/ row.sentAt # 0 \/ StaleReader
  /\ pc[Worker] = "complete" \/ job.state = "completed" =>
       row.sentAt # 0 \/ StaleReader

QueueInv ==
  /\ EveryoneInPlace /\ SentInMemoryWasDelivered /\ DeliveriesAreSpent
  /\ CancelsHold /\ SentAtIsComing

\* When there is more than one attempt, "failed" is never set anywhere.
NothingFails ==
  /\ job.attempt = 1
  /\ row.status \notin {"failed", "bounced"}
  /\ \A p \in Process : local[p].status \notin {"failed", "bounced"}

\* "Mark notification as permanently failed" (notification-queue.service.ts:207),
\* "after all retries exhausted": when the job has failed and nothing runs, the
\* notification says so.
ExhaustedIsFailed == job.state = "failed" /\ Quiet => row.status = "failed"

=============================================================================
