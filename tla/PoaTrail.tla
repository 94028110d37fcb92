------------------------------ MODULE PoaTrail ------------------------------
(***************************************************************************)
(* What is left of the documented flow (PoaWorkflow) when requests on one  *)
(* POA overlap.  The status may return to any status the POA has held, as  *)
(* a stale save does, but a status it never held is reached only by a step *)
(* of the flow out of one it did hold.                                     *)
(***************************************************************************)
VARIABLES status, seen

Documented == INSTANCE PoaWorkflow

Init == Documented!Init /\ seen = {"draft"}

\* A POA that has held these statuses may take status s.
Reachable(s, held) ==
  \/ s \in held
  \/ \E h \in held : <<h, s>> \in Documented!Flow
  \/ s = "cancelled" /\ held \cap Documented!Cancellable # {}

Save == /\ Reachable(status', seen)
        /\ seen' = seen \cup {status'}

Spec == Init /\ [][Save]_<<status, seen>>

=============================================================================
