------------------------------ MODULE MCAccounts ------------------------------
(* Instances of Accounts for TLC.                                           *)
EXTENDS Accounts

\* Bodies of PUT /admin/users/:id: another e-mail or telephone, with a super
\* administrator's word for it and without.
NoField == [f \in {"email", "emailVerified", "phone", "phoneVerified", "isActive"} |-> KEEP]
OtherEmails == Emails \ {Registered.email}
OtherPhones == Phones \ {Registered.phone}
SomeDtos ==
  {[NoField EXCEPT !.email = e, !.emailVerified = v] : e \in OtherEmails, v \in {TRUE, KEEP}}
  \cup {[NoField EXCEPT !.phone = p, !.phoneVerified = v] : p \in OtherPhones, v \in {TRUE, KEEP}}

=============================================================================
