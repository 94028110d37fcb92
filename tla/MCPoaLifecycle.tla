--------------------------- MODULE MCPoaLifecycle ---------------------------
(* Instances of PoaLifecycle for TLC.                                       *)
EXTENDS PoaPromises

\* A PUT that touches none of the encrypted fields.
PlainDtos == {[clientIdentification |-> FALSE, instructions |-> "keep",
               activationTriggers |-> "some"]}

\* Three bodies of PUT that between them do each thing to each field.
EachDto == PlainDtos \cup
  {[clientIdentification |-> TRUE, instructions |-> "set",
    activationTriggers |-> "none"],
   [clientIdentification |-> FALSE, instructions |-> "clear",
    activationTriggers |-> "keep"]}

\* Every body that does not ask for the instructions to be emptied.
KeepDtos == {d \in UpdateDto : d.instructions # "clear"}

\* The methods on the way to an executed POA.
StageOps == {"submit", "approve", "notarize", "activate", "executeInstruction"}

=============================================================================
