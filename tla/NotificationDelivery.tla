------------------------- MODULE NotificationDelivery -------------------------
(***************************************************************************)
(* What the notification queue promises the caller of send: once accepted, *)
(* the notification is confirmed only after it was delivered at least      *)
(* once, or abandoned, or withdrawn; and from then on it is not delivered. *)
(***************************************************************************)
EXTENDS Naturals

VARIABLES phase, deliveries

Init == phase = "new" /\ deliveries = 0

Accept == phase = "new" /\ phase' = "accepted" /\ UNCHANGED deliveries

Deliver == phase = "accepted" /\ deliveries' = deliveries + 1 /\ UNCHANGED phase

Confirm == /\ phase = "accepted" /\ deliveries > 0
           /\ phase' = "confirmed" /\ UNCHANGED deliveries

Abandon == phase = "accepted" /\ phase' = "abandoned" /\ UNCHANGED deliveries

\* An abandoned notification may still be withdrawn.
Withdraw == /\ phase \in {"accepted", "abandoned"}
            /\ phase' = "withdrawn" /\ UNCHANGED deliveries

Next == Accept \/ Deliver \/ Confirm \/ Abandon \/ Withdraw

Spec == Init /\ [][Next]_<<phase, deliveries>>

=============================================================================
