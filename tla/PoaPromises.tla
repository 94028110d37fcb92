----------------------------- MODULE PoaPromises -----------------------------
(***************************************************************************)
(* What the documentation of the POA module promises its users.  Some of   *)
(* it holds as long as requests on one POA do not overlap and none fails   *)
(* half-way, some does not hold even then; the runs of MCPoaLifecycle tell *)
(* which.                                                                  *)
(***************************************************************************)
EXTENDS PoaLifecycle

Workflow == INSTANCE PoaWorkflow WITH status <- row.status
Trail == INSTANCE PoaTrail WITH status <- row.status

\* The status moves only along the documented flow, if requests on the POA
\* come one at a time.
FollowsWorkflow == Workflow!Spec

\* However requests overlap, the row takes a status it never had only by a step
\* of the flow out of one it did have: PoaService's checks are made on statuses
\* that were really stored.
FollowsTrail == Trail!Spec

\* The invariant behind StageOrder, DatesAreEvidence, AuditIsSound and
\* FollowsTrail, one conjunct per step a request can be at: what a request read
\* was stored; the status it is about to save is one the flow allows from what
\* it read; the dates it carries are of stages reached, or of the one it sets;
\* what it is about to log is stored; and an execution was inserted first.
ReadsWereStored ==
  \A r \in InFlight : before[r] \in seen /\ Trail!Reachable(local[r].status, seen)

CarriedDatesAreEvidence ==
  \A r \in InFlight : \A c \in DateColumn :
    local[r][c] # NULL => StageOf[c] \in seen \cup {local[r].status}

UnwrittenStatusIsStored ==
  \A r \in Request :
    (pc[r] = "write" /\ "status" \notin diff[r]) \/ pc[r] = "log"
      => local[r].status \in seen

ExecutionsComeFirst ==
  \A r \in Request :
    /\ pc[r] = "insert" => "activated" \in seen
    /\ op[r] = "executeInstruction" /\ pc[r] \in {"load", "write", "log"}
         => r \in executions

EvidenceInv ==
  /\ StageOrder /\ DatesAreEvidence /\ AuditIsSound
  /\ ReadsWereStored /\ CarriedDatesAreEvidence
  /\ UnwrittenStatusIsStored /\ ExecutionsComeFirst

\* The order in which the flow stamps its dates.
DateRank ==
  [submittedAt |-> 1, reviewedAt |-> 2, approvedAt |-> 3,
   notarizedAt |-> 4, activatedAt |-> 5, executedAt |-> 6]

\* The dates a POA of a given status cannot lack.
Dated ==
  [s \in Status |->
     CASE s \in {"draft", "cancelled", "completed"} -> {}
       [] s \in {"pending", "rejected"} -> {"submittedAt"}
       [] s = "in_review" -> {"submittedAt", "reviewedAt"}
       [] s = "approved" -> {"submittedAt", "approvedAt"}
       [] s = "notarized" -> {"submittedAt", "approvedAt", "notarizedAt"}
       [] s = "activated" -> DateColumn \ {"reviewedAt", "executedAt"}
       [] s = "executed" -> DateColumn \ {"reviewedAt"}]

\* One request at a time, the dates tell how the POA came to its status: each
\* stage on the way has its date, and the dates increase along the flow.
DatesTellTheWay ==
  /\ \A c \in Dated[row.status] : row[c] # NULL
  /\ \A c, d \in DateColumn :
       DateRank[c] < DateRank[d] /\ row[c] # NULL /\ row[d] # NULL
         => row[c] < row[d]

\* One request at a time and none failing, the history is a path: each entry
\* starts at the status where the one before it ended, and the last one ends
\* at the status of the row (or a save waits for its entry).
AuditIsAPath ==
  Failed = {} /\ creation # "failed" =>
    /\ \A h \in history : h.by # 0 =>
         \E g \in history :
           /\ g.by < h.by /\ g.newStatus = h.previousStatus
           /\ \A k \in history : ~(g.by < k.by /\ k.by < h.by)
    /\ (\A r \in Request : pc[r] # "log") /\ creation # "inserted" =>
         \E h \in history : /\ h.newStatus = row.status
                            /\ \A k \in history : k.by <= h.by

\* "UpdatePoaDto allows updating all fields from CreatePoaDto (all optional)"
\* (update-poa.dto.ts:4): when no PUT empties the instructions, what the client
\* once gave stays in the row.
InstructionsKept == [][row.instructions # NULL => row'.instructions # NULL]_row

\* One request at a time, instructions stored encrypted are lost only to a PUT:
\* submitting, cancelling or assigning a POA may leave them in clear, not empty.
CipherLostOnlyToUpdate ==
  [][row.instructions # NULL /\ row.instructions.form = "cipher"
       /\ row'.instructions = NULL
     => \E r \in Request : op[r] = "update" /\ pc[r] = "write" /\ pc'[r] = "log"]_vars

=============================================================================
