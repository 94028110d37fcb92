------------------------------- MODULE Accounts -------------------------------
(***************************************************************************)
(* One row of table users: the credentials, sessions, one-time codes and   *)
(* contact addresses of a client, under AuthService and UsersService.      *)
(*                                                                         *)
(* A request is a process:                                                 *)
(*                                                                         *)
(*   idle --> [authorized] --> load --> write --> done                     *)
(*                                                                         *)
(* "authorized" is behind JwtStrategy.validate, which reads the user once  *)
(* and before the method reads it again.  The step out of it is the        *)
(* method's findOne and everything up to its save (hashing and signing are *)
(* awaited in between, on the entity in memory), and load and write are    *)
(* the two accesses of save.  A request that fails writes nothing, as one  *)
(* that stops here.                                                        *)
(*                                                                         *)
(* A password, refresh token, one-time code or reset token is named by the *)
(* request that made it; the registration is request 0.  All the one-time  *)
(* codes share one column, whatever they were sent for.  Whether a secret  *)
(* has expired is left open: an expired one is refused, which writes       *)
(* nothing.  Names, postal addresses and photos are left out; roles are in *)
(* UserRoles.                                                              *)
(*                                                                         *)
(* Requests overlap freely and save what they read before the others saved.*)
(* missed[r] is what request r does not know of when it saves: the columns *)
(* that others changed since it read the row.  The properties say what the *)
(* code promises, and name the saves, of requests that missed something    *)
(* relevant, that may break it.                                            *)
(***************************************************************************)
EXTENDS Integers, EntitySave

CONSTANTS
  MaxRequests,     \* bound: requests that reach this user's row
  Overlapping,     \* bound: the first requests, which overlap freely; those that
                   \* follow come one at a time
  OtpMaxAttempts,  \* OTP_MAX_ATTEMPTS of the configuration, read by AuthService
  PhoneMaxAttempts,\* OTP_MAX_ATTEMPTS of UsersService, which is fixed (3)
  Emails,          \* e-mail addresses the user may have
  Phones,          \* telephone numbers the user may have
  AdminDtos,       \* bodies of PUT /admin/users/:id that are considered
  KEEP             \* a field a body does not have

Request == 1 .. MaxRequests
Id == 0 .. MaxRequests
NONE == -1  \* a column that is NULL
Secret == Id \cup {NONE}

AdminDto == [email : Emails \cup {KEEP}, emailVerified : BOOLEAN \cup {KEEP},
             phone : Phones \cup {KEEP}, phoneVerified : BOOLEAN \cup {KEEP},
             isActive : BOOLEAN \cup {KEEP}]

ASSUME BoundsAssumption == /\ MaxRequests \in Nat
                           /\ Overlapping \in Nat
                           /\ {OtpMaxAttempts, PhoneMaxAttempts} \subseteq Nat \ {0}
ASSUME InputsAssumption == /\ Emails # {} /\ Phones # {} /\ NONE \notin Emails \cup Phones
                           /\ KEEP \notin Emails \cup Phones \cup BOOLEAN
                           /\ AdminDtos \subseteq AdminDto

LargerLimit ==
  IF OtpMaxAttempts < PhoneMaxAttempts THEN PhoneMaxAttempts ELSE OtpMaxAttempts

Row == [email : Emails, emailVerified : BOOLEAN,
        phone : Phones, phoneVerified : BOOLEAN,
        isActive : BOOLEAN, deleted : BOOLEAN,
        password : Id, refreshToken : Secret,
        otpCode : Secret, otpAttempts : 0 .. LargerLimit,
        resetPasswordToken : Secret]

Column == {"email", "emailVerified", "phone", "phoneVerified", "isActive",
           "deleted", "password", "refreshToken", "otpCode", "otpAttempts",
           "resetPasswordToken"}

\* The routes behind JwtAuthGuard or JwtRefreshGuard, and the others: the
\* public ones, and those of an administrator (another user's session).
SessionOp == {"refresh", "logout", "changePassword", "requestChangePassword",
              "confirmChangePassword", "wrongChangeCode", "updateProfile",
              "sendPhoneOtp", "verifyPhone", "wrongPhoneCode"}
OpenOp == {"verifyEmail", "wrongEmailCode", "resendOtp", "login",
           "forgotPassword", "resetPassword"}
AdminOp == {"toggleActive", "deleteUser", "updateUserAdmin"}
Op == SessionOp \cup OpenOp \cup AdminOp

VARIABLES
  row,       \* the user's row
  req,       \* req[r]: what request r holds in memory
  missed,    \* missed[r]: the columns that changed since r read the row
  issued,    \* observer: tokens have been handed out
  ended,     \* observer: the sessions were ended, and neither a login nor a
             \* request that missed it has stored a token since
  barred,    \* observer: an administrator deactivated or deleted the user, and
             \* neither did one undo it nor a request that missed it since
  sentTo,    \* observer: the address to which one-time code c was sent
  accepted,  \* observer: how often secret s was accepted
  wrong,     \* observer: the wrong guesses answered for code c in each service
  stale,     \* observer: the saves from an outdated copy that concern secret s
  proven,    \* observer: the addresses that a code sent there came back for, or
             \* for which a super administrator gave his word
  strayed    \* observer: the addresses marked for another reason

vars == <<row, req, missed, issued, ended, barred, sentTo, accepted, wrong, stale,
          proven, strayed>>

Registered ==
  [email |-> CHOOSE e \in Emails : TRUE, emailVerified |-> FALSE,
   phone |-> CHOOSE p \in Phones : TRUE, phoneVerified |-> FALSE,
   isActive |-> TRUE, deleted |-> FALSE,
   password |-> 0, refreshToken |-> NONE,
   otpCode |-> 0, otpAttempts |-> 0, resetPasswordToken |-> NONE]

\* The same user once the e-mail is verified and a login has answered.
LoggedIn == [Registered EXCEPT !.emailVerified = TRUE, !.otpCode = NONE,
                               !.refreshToken = 0]

\* given: the columns that an administrator's body has.
Idle == [pc |-> "idle", op |-> "login", local |-> Registered, diff |-> {},
         secret |-> NONE, given |-> {}]
Memory == [pc : {"idle", "authorized", "load", "write", "done"}, op : Op,
           local : Row, diff : SUBSET Column, secret : Secret, given : SUBSET Column]

Saving == {r \in Request : req[r].pc \in {"load", "write"}}
InFlight == {r \in Request : req[r].pc \notin {"idle", "done"}}

Init ==
  /\ row \in {Registered, LoggedIn}
  /\ req = [r \in Request |-> Idle]
  /\ missed = [r \in Request |-> {}]
  /\ issued = (row = LoggedIn)
  /\ ended = FALSE
  /\ barred = FALSE
  /\ sentTo = [c \in Id |-> IF c = 0 THEN row.email ELSE NONE]
  /\ accepted = [s \in Id |-> IF s = 0 /\ row = LoggedIn THEN 1 ELSE 0]
  /\ wrong = [c \in Id |-> [auth |-> 0, users |-> 0]]
  /\ stale = [s \in Id |-> 0]
  /\ proven = IF row = LoggedIn THEN {row.email} ELSE {}
  /\ strayed = {}

-----------------------------------------------------------------------------
(* The first steps of a request.                                           *)

\* r is the next request.
Arrives(r) ==
  /\ req[r].pc = "idle"
  /\ \A q \in 1 .. r - 1 : req[q].pc # "idle"
  /\ r <= Overlapping \/ InFlight = {}

Observers == <<issued, ended, barred, sentTo, accepted, wrong, stale, proven, strayed>>

\* JwtStrategy.validate and JwtRefreshStrategy.validate: whoever holds a token
\* passes while the user is active and not deleted.
Validate(r) ==
  /\ Arrives(r)
  /\ issued
  /\ row.isActive /\ ~row.deleted
  /\ req' = [req EXCEPT ![r].pc = "authorized"]
  /\ UNCHANGED <<row, missed, Observers>>

\* Method o finds the row, accepts or refuses secret, and leaves entity to be
\* saved; given is what an administrator's body has.
BeginGiven(r, o, entity, secret, given) ==
  /\ IF o \in SessionOp THEN req[r].pc = "authorized" ELSE Arrives(r)
  /\ ~row.deleted
  /\ req' = [req EXCEPT ![r] = [pc |-> "load", op |-> o, local |-> entity,
                                diff |-> {}, secret |-> secret, given |-> given]]
  /\ UNCHANGED <<row, missed, Observers>>

Begin(r, o, entity, secret) == BeginGiven(r, o, entity, secret, {})

\* The method answers with an error, or changes nothing: the user is gone, or
\* a secret is missing, expired or wrong.
Refuse(r) ==
  /\ req[r].pc = "authorized"
  /\ req' = [req EXCEPT ![r] = [Idle EXCEPT !.pc = "done"]]
  /\ UNCHANGED <<row, missed, Observers>>

NewOtp(r) == [row EXCEPT !.otpCode = r, !.otpAttempts = 0]

\* Faulty variant of OtpUsed: the code stays.
OtpUsedKept(e) == [e EXCEPT !.otpAttempts = 0]

OtpUsed(e) == [e EXCEPT !.otpCode = NONE, !.otpAttempts = 0]

SessionEnded(e) == [e EXCEPT !.refreshToken = NONE]

\* Faulty variant of AttemptsLeft: off by one.
AttemptsLeftOrOne(limit) == row.otpAttempts <= limit

\* hasReachedMaxOtpAttempts
AttemptsLeft(limit) == row.otpAttempts < limit

\* Faulty variant of Guessed: the count is not kept.
GuessedUncounted == row

Guessed == [row EXCEPT !.otpAttempts = @ + 1]

-----------------------------------------------------------------------------
(* AuthService.                                                            *)

\* A code that is missing has no date either, and counts as expired.
VerifyEmail(r) ==
  /\ ~row.emailVerified
  /\ AttemptsLeft(OtpMaxAttempts)
  /\ row.otpCode # NONE
  /\ \/ Begin(r, "verifyEmail", OtpUsed([row EXCEPT !.emailVerified = TRUE]), row.otpCode)
     \/ Begin(r, "wrongEmailCode", Guessed, row.otpCode)

ResendOtp(r) ==
  /\ ~row.emailVerified
  /\ Begin(r, "resendOtp", NewOtp(r), NONE)

\* Faulty variant of Login: the check of isActive is forgotten.
LoginInactive(r) ==
  /\ row.emailVerified
  /\ Begin(r, "login", [row EXCEPT !.refreshToken = r], NONE)

Login(r) ==
  /\ row.emailVerified
  /\ row.isActive
  /\ Begin(r, "login", [row EXCEPT !.refreshToken = r], NONE)

\* The token is compared with a bcrypt hash, which takes 72 bytes: the encoded
\* header and a part of the user's id, the same in all refresh tokens of a user.
\* So any of them is accepted as long as one is stored.
Refresh(r) ==
  /\ row.isActive
  /\ row.refreshToken # NONE
  /\ Begin(r, "refresh", [row EXCEPT !.refreshToken = r], NONE)

Logout(r) == Begin(r, "logout", SessionEnded(row), NONE)

ForgotPassword(r) ==
  Begin(r, "forgotPassword", [row EXCEPT !.resetPasswordToken = r], NONE)

ResetPassword(r) ==
  /\ row.resetPasswordToken # NONE
  /\ Begin(r, "resetPassword",
           SessionEnded([row EXCEPT !.password = r, !.resetPasswordToken = NONE]),
           row.resetPasswordToken)

ChangePassword(r) ==
  Begin(r, "changePassword", SessionEnded([row EXCEPT !.password = r]), NONE)

RequestChangePassword(r) == Begin(r, "requestChangePassword", NewOtp(r), NONE)

\* Faulty variant of ConfirmChangePassword: other sessions go on.
ConfirmOnly(r) ==
  /\ row.otpCode # NONE
  /\ AttemptsLeft(OtpMaxAttempts)
  /\ Begin(r, "confirmChangePassword", OtpUsed([row EXCEPT !.password = r]), row.otpCode)

ConfirmChangePassword(r) ==
  /\ row.otpCode # NONE
  /\ AttemptsLeft(OtpMaxAttempts)
  /\ \/ Begin(r, "confirmChangePassword",
              SessionEnded(OtpUsed([row EXCEPT !.password = r])), row.otpCode)
     \/ Begin(r, "wrongChangeCode", Guessed, row.otpCode)

-----------------------------------------------------------------------------
(* UsersService.                                                           *)

\* A telephone that changes is no longer verified.
WithPhone(e, phone) ==
  IF phone = e.phone THEN e ELSE [e EXCEPT !.phone = phone, !.phoneVerified = FALSE]

\* Faulty variant of UpdateProfile: the mark of the old telephone stays.
UpdateProfileKeepsMark(r) ==
  \E phone \in Phones : Begin(r, "updateProfile", [row EXCEPT !.phone = phone], NONE)

UpdateProfile(r) ==
  \E phone \in Phones : Begin(r, "updateProfile", WithPhone(row, phone), NONE)

SendPhoneOtp(r) ==
  \E phone \in Phones :
    /\ ~(row.phoneVerified /\ row.phone = phone)
    /\ Begin(r, "sendPhoneOtp", WithPhone(NewOtp(r), phone), NONE)

VerifyPhone(r) ==
  /\ ~row.phoneVerified
  /\ row.otpCode # NONE
  /\ AttemptsLeft(PhoneMaxAttempts)
  /\ \/ Begin(r, "verifyPhone", OtpUsed([row EXCEPT !.phoneVerified = TRUE]), row.otpCode)
     \/ Begin(r, "wrongPhoneCode", Guessed, row.otpCode)

ToggleActive(r) ==
  \E active \in BOOLEAN :
    Begin(r, "toggleActive", [row EXCEPT !.isActive = active], NONE)

DeleteUser(r) ==
  Begin(r, "deleteUser", [row EXCEPT !.deleted = TRUE], NONE)

\* Only a super administrator may give the marks; a mark that is not given goes
\* when its address changes.
AdminUpdated(dto) ==
  LET Or(f) == IF dto[f] = KEEP THEN row[f] ELSE dto[f]
      Mark(f, address) == IF dto[f] = KEEP THEN row[f] /\ Or(address) = row[address]
                          ELSE dto[f]
  IN [row EXCEPT !.email = Or("email"), !.phone = Or("phone"),
                 !.emailVerified = Mark("emailVerified", "email"),
                 !.phoneVerified = Mark("phoneVerified", "phone"),
                 !.isActive = Or("isActive")]

UpdateUserAdmin(r) ==
  \E dto \in AdminDtos :
    BeginGiven(r, "updateUserAdmin", AdminUpdated(dto), NONE,
               {f \in DOMAIN dto : dto[f] # KEEP})

-----------------------------------------------------------------------------
(* The save, and what a caller can observe of it.                          *)

\* softRemove updates its one column whatever else the entity holds.
Load(r) ==
  /\ req[r].pc = "load"
  /\ req' = [req EXCEPT ![r].pc = "write",
                        ![r].diff = IF req[r].op = "deleteUser" THEN {"deleted"}
                                    ELSE Differing(req[r].local, row)]
  /\ UNCHANGED <<row, missed, Observers>>

Revoking == {"logout", "resetPassword", "changePassword", "confirmChangePassword"}
Spending == {"verifyEmail", "verifyPhone", "resetPassword", "confirmChangePassword"}
Guessing == {"wrongEmailCode", "wrongChangeCode", "wrongPhoneCode"}

NewCode == {"resendOtp", "requestChangePassword", "sendPhoneOtp"}

\* r saves column c, of which it missed a change.
Overwrites(r, c) == c \in missed[r] \cap req[r].diff

\* The administrator's request r shuts the user out, or lets him in.
Bars(r) ==
  \/ req[r].op = "deleteUser"
  \/ (req[r].op = "toggleActive" \/ "isActive" \in req[r].given) /\ ~req[r].local.isActive
Admits(r) ==
  (req[r].op = "toggleActive" \/ "isActive" \in req[r].given) /\ req[r].local.isActive

\* r accepts or refuses secret s, or writes it or its count back, and missed a
\* change of one of the two.
OtpColumns == {"otpCode", "otpAttempts"}
Outdates(r, s) ==
  \/ /\ missed[r] \cap OtpColumns # {}
     /\ \/ s = req[r].secret /\ req[r].op # "resetPassword"
        \/ s = row'.otpCode /\ req[r].diff \cap OtpColumns # {}
  \/ /\ "resetPasswordToken" \in missed[r]
     /\ \/ s = req[r].secret /\ req[r].op = "resetPassword"
        \/ s = row'.resetPasswordToken /\ "resetPasswordToken" \in req[r].diff

\* The addresses that the save of r marks on a code, and on an administrator's
\* word.
Marked(r) ==
  (IF req[r].op = "verifyEmail" THEN {req[r].local.email} ELSE {})
  \cup (IF req[r].op = "verifyPhone" THEN {req[r].local.phone} ELSE {})
Certified(r) ==
  (IF "emailVerified" \in req[r].given /\ req[r].local.emailVerified
   THEN {req[r].local.email} ELSE {})
  \cup (IF "phoneVerified" \in req[r].given /\ req[r].local.phoneVerified
        THEN {req[r].local.phone} ELSE {})

\* r missed a change of the address or of its mark and saves one of the two: the
\* row has the address of one request with the mark of another.
Torn(r, address, mark) ==
  /\ missed[r] \cap {address, mark} # {}
  /\ (address \in req[r].diff) # (mark \in req[r].diff)
  /\ row'[mark]

Observe(r) ==
  LET o == req[r].op
      s == req[r].secret
  IN /\ issued' = (issued \/ o = "login")
     /\ ended' = \/ o \in Revoking /\ "refreshToken" \notin missed[r] \ req[r].diff
                 \/ ended /\ o # "login" /\ ~Overwrites(r, "refreshToken")
     /\ barred' = \/ Bars(r) /\ (o = "deleteUser" \/ "isActive" \notin missed[r] \ req[r].diff)
                  \/ /\ barred /\ ~Admits(r)
                     /\ ~Overwrites(r, "isActive") /\ ~Overwrites(r, "deleted")
                     /\ o \in {"login", "refresh"} => missed[r] \cap {"isActive", "deleted"} = {}
     /\ sentTo' = IF o \notin NewCode THEN sentTo
                  ELSE [sentTo EXCEPT ![r] = IF o = "sendPhoneOtp" THEN req[r].local.phone
                                             ELSE req[r].local.email]
     /\ accepted' = IF o \in Spending THEN [accepted EXCEPT ![s] = @ + 1] ELSE accepted
     /\ wrong' = CASE o = "wrongPhoneCode" -> [wrong EXCEPT ![s].users = @ + 1]
                   [] o \in Guessing \ {"wrongPhoneCode"} -> [wrong EXCEPT ![s].auth = @ + 1]
                   [] OTHER -> wrong
     /\ stale' = [i \in Id |-> IF i # r /\ Outdates(r, i) THEN stale[i] + 1 ELSE stale[i]]
     /\ proven' = proven \cup Certified(r) \cup {a \in Marked(r) : sentTo[s] = a}
     /\ strayed' = strayed \cup {a \in Marked(r) : sentTo[s] # a}
                   \cup (IF Torn(r, "email", "emailVerified") THEN {row'.email} ELSE {})
                   \cup (IF Torn(r, "phone", "phoneVerified") THEN {row'.phone} ELSE {})

Write(r) ==
  /\ req[r].pc = "write"
  /\ row' = Patched(row, req[r].local, req[r].diff)
  /\ missed' = [q \in Request |-> IF q \in Saving \ {r}
                                  THEN missed[q] \cup Differing(row', row) ELSE {}]
  /\ req' = [req EXCEPT ![r] = [Idle EXCEPT !.pc = "done"]]
  /\ Observe(r)

\* The routes of the controllers.
EmailRoutes(r) == VerifyEmail(r) \/ ResendOtp(r)
SessionRoutes(r) == Login(r) \/ Refresh(r) \/ Logout(r)
PasswordRoutes(r) ==
  \/ ForgotPassword(r) \/ ResetPassword(r) \/ ChangePassword(r)
  \/ RequestChangePassword(r) \/ ConfirmChangePassword(r)
UserRoutes(r) == UpdateProfile(r) \/ SendPhoneOtp(r) \/ VerifyPhone(r)
AdminRoutes(r) == ToggleActive(r) \/ DeleteUser(r) \/ UpdateUserAdmin(r)

Next ==
  \E r \in Request :
    \/ Validate(r) \/ EmailRoutes(r) \/ SessionRoutes(r) \/ PasswordRoutes(r)
    \/ UserRoutes(r) \/ AdminRoutes(r) \/ Refuse(r) \/ Load(r) \/ Write(r)

Spec == Init /\ [][Next]_vars

-----------------------------------------------------------------------------
(* Properties, of requests that overlap freely.                            *)

\* Every variable has its type; a request that presents a secret presents one
\* that was made.
TypeOK ==
  /\ row \in Row
  /\ req \in [Request -> Memory]
  /\ missed \in [Request -> SUBSET Column]
  /\ {issued, ended, barred} \subseteq BOOLEAN
  /\ sentTo \in [Id -> Emails \cup Phones \cup {NONE}]
  /\ accepted \in [Id -> Nat] /\ stale \in [Id -> Nat]
  /\ wrong \in [Id -> [auth : Nat, users : Nat]]
  /\ proven \subseteq Emails \cup Phones /\ strayed \subseteq Emails \cup Phones
  /\ \A r \in Saving : req[r].op \in Spending \cup Guessing => req[r].secret \in Id

\* Logging out, or changing the password in any way, ends the sessions there
\* were: no refresh token is stored before the next login, whatever overlaps,
\* but for a request that read the token before and saves it, or the one it
\* made of it, after.
SessionsEnd == ended => row.refreshToken = NONE

\* A one-time code or reset token is accepted once, wherever it is presented,
\* and once more at most for each save that missed a change of it: a request
\* that presents it at the same time as another, whose acceptance the first did
\* not see, or that writes the accepted one back with all else it read.
SpentOnce == \A s \in Id : accepted[s] <= 1 + stale[s]

\* AuthService answers at most OTP_MAX_ATTEMPTS wrong guesses of a code, and the
\* two services together the larger of their limits, as they share the count;
\* only a save that missed a guess, or the end of the code, begins a new count.
Allowed(limit, c) == limit + (limit + 1) * stale[c]
GuessesBounded ==
  \A c \in Id : /\ wrong[c].auth <= Allowed(OtpMaxAttempts, c)
               /\ wrong[c].auth + wrong[c].users <= Allowed(LargerLimit, c)

\* A verified mark belongs to the address in the row and not to the one before:
\* a code sent to that address came back or a super administrator marked it.
\* The exceptions are those of strayed.  Nothing compares the address a code was
\* sent to: one sent to another telephone, to the e-mail, or for a new password
\* marks whatever address is in the row.  And a save that missed a change may
\* put an address and a mark together that no request held together.
MarksBelong ==
  /\ row.emailVerified => row.email \in proven \cup strayed
  /\ row.phoneVerified => row.phone \in proven \cup strayed

\* Once an administrator deactivated or deleted the user he stays out, and no
\* login or refresh is answered, until an administrator lets him in again; only
\* a request that read the user before the decision and saves after it, such as
\* a login under way, passes it by.
Answered(r) == req[r].pc = "write" /\ req'[r].pc = "done"
DecisionsStand ==
  [][/\ barred' => ~row'.isActive \/ row'.deleted
     /\ barred /\ barred' =>
          \A r \in Request : Answered(r) => req[r].op \notin {"login", "refresh"}]_vars

=============================================================================
