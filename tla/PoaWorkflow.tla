----------------------------- MODULE PoaWorkflow -----------------------------
(***************************************************************************)
(* What the POA's documentation promises of its status: a POA moves only   *)
(* along the flow draft -> pending -> in_review -> approved -> notarized   *)
(* -> activated -> executed (the review may be skipped, an unfinished POA  *)
(* may be rejected under review and cancelled at any time), and never goes *)
(* back (ROADMAP.md:89-96, poa-admin.controller.ts:141-306 and             *)
(* poa.controller.ts:165-218 under src/src/modules/poa).                   *)
(***************************************************************************)
VARIABLE status

Flow ==
  {<<"draft", "pending">>, <<"pending", "in_review">>,
   <<"pending", "approved">>, <<"in_review", "approved">>,
   <<"pending", "rejected">>, <<"in_review", "rejected">>,
   <<"approved", "notarized">>, <<"notarized", "activated">>,
   <<"activated", "executed">>}

Cancellable == {"draft", "pending", "in_review", "approved", "rejected",
                "notarized", "activated"}

Init == status = "draft"

Move == <<status, status'>> \in Flow

Withdraw == status \in Cancellable /\ status' = "cancelled"

Spec == Init /\ [][Move \/ Withdraw]_status

=============================================================================
