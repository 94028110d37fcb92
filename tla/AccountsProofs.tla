----------------------------- MODULE AccountsProofs -----------------------------
(***************************************************************************)
(* Proofs about Accounts, for any number of requests, of which any number  *)
(* overlap, any two limits of attempts, and any addresses and bodies.      *)
(***************************************************************************)
EXTENDS Accounts, TLAPS

-----------------------------------------------------------------------------
(* The entities that the methods leave to be saved.                        *)

\* e is a row that differs from base in the changed columns only.
Changes(e, base, changed) ==
  /\ e \in Row
  /\ \A f \in Column \ changed : e[f] = base[f]

LEMMA Ids ==
  /\ NONE \notin Id /\ Request \subseteq Id /\ 0 \in Id
  /\ Id \subseteq Secret /\ NONE \in Secret
  /\ LargerLimit \in Nat /\ 0 \in 0 .. LargerLimit
  /\ OtpMaxAttempts \in Nat /\ OtpMaxAttempts <= LargerLimit
  /\ PhoneMaxAttempts \in Nat /\ PhoneMaxAttempts <= LargerLimit
BY BoundsAssumption DEF Id, Request, NONE, Secret, LargerLimit

LEMMA OtpUsedEntity ==
  ASSUME NEW e \in Row
  PROVE  /\ Changes(OtpUsed(e), e, {"otpCode", "otpAttempts"})
         /\ OtpUsed(e).otpCode = NONE /\ OtpUsed(e).otpAttempts = 0
<1>1. OtpUsed(e) \in Row
  BY Ids DEF OtpUsed, Row
<1>2. QED
  BY <1>1 DEF OtpUsed, Row, Changes, Column

LEMMA NewOtpEntity ==
  ASSUME row \in Row, NEW r \in Request
  PROVE  /\ Changes(NewOtp(r), row, {"otpCode", "otpAttempts"})
         /\ NewOtp(r).otpCode = r /\ NewOtp(r).otpAttempts = 0
<1>1. NewOtp(r) \in Row
  BY Ids DEF NewOtp, Row
<1>2. QED
  BY <1>1 DEF NewOtp, Row, Changes, Column

LEMMA SessionEndedEntity ==
  ASSUME NEW e \in Row
  PROVE  /\ Changes(SessionEnded(e), e, {"refreshToken"})
         /\ SessionEnded(e).refreshToken = NONE
<1>1. SessionEnded(e) \in Row
  BY Ids DEF SessionEnded, Row
<1>2. QED
  BY <1>1 DEF SessionEnded, Row, Changes, Column

LEMMA GuessedEntity ==
  ASSUME row \in Row, NEW limit \in {OtpMaxAttempts, PhoneMaxAttempts},
         AttemptsLeft(limit)
  PROVE  /\ Changes(Guessed, row, {"otpAttempts"})
         /\ Guessed.otpAttempts = row.otpAttempts + 1
<1>1. row.otpAttempts + 1 \in 0 .. LargerLimit
  BY Ids DEF AttemptsLeft, Row
<1>2. Guessed \in Row
  BY <1>1 DEF Guessed, Row
<1>3. QED
  BY <1>2 DEF Guessed, Row, Changes, Column

LEMMA WithPhoneEntity ==
  ASSUME NEW e \in Row, NEW phone \in Phones
  PROVE  /\ Changes(WithPhone(e, phone), e, {"phone", "phoneVerified"})
         /\ WithPhone(e, phone).phoneVerified = TRUE =>
              WithPhone(e, phone).phone = e.phone /\ e.phoneVerified = TRUE
<1>1. CASE phone = e.phone
  BY <1>1 DEF WithPhone, Changes
<1>2. CASE phone # e.phone
  <2> DEFINE d == [e EXCEPT !.phone = phone, !.phoneVerified = FALSE]
  <2>1. WithPhone(e, phone) = d
    BY <1>2 DEF WithPhone
  <2>2. d \in Row
    BY Zenon DEF Row
  <2>3. Changes(d, e, {"phone", "phoneVerified"}) /\ d.phoneVerified = FALSE
    BY <2>2 DEF Row, Changes, Column
  <2>4. QED
    BY <2>1, <2>3
<1>3. QED
  BY <1>1, <1>2

\* Setting one column.
LEMMA SetColumn ==
  ASSUME NEW e \in Row, NEW n \in Secret, NEW i \in Id, NEW b \in BOOLEAN
  PROVE  /\ Changes([e EXCEPT !.refreshToken = n], e, {"refreshToken"})
         /\ Changes([e EXCEPT !.resetPasswordToken = n], e, {"resetPasswordToken"})
         /\ Changes([e EXCEPT !.password = i], e, {"password"})
         /\ Changes([e EXCEPT !.password = i, !.resetPasswordToken = n], e,
                    {"password", "resetPasswordToken"})
         /\ Changes([e EXCEPT !.isActive = b], e, {"isActive"})
         /\ Changes([e EXCEPT !.deleted = b], e, {"deleted"})
         /\ Changes([e EXCEPT !.emailVerified = b], e, {"emailVerified"})
         /\ Changes([e EXCEPT !.phoneVerified = b], e, {"phoneVerified"})
<1>1. /\ [e EXCEPT !.refreshToken = n] \in Row
      /\ [e EXCEPT !.resetPasswordToken = n] \in Row
      /\ [e EXCEPT !.password = i] \in Row
      /\ [e EXCEPT !.password = i, !.resetPasswordToken = n] \in Row
  BY DEF Row
<1>2. [e EXCEPT !.isActive = b] \in Row
  BY Zenon DEF Row
<1>3. [e EXCEPT !.deleted = b] \in Row
  BY Zenon DEF Row
<1>4. [e EXCEPT !.emailVerified = b] \in Row
  BY Zenon DEF Row
<1>5. [e EXCEPT !.phoneVerified = b] \in Row
  BY Zenon DEF Row
<1>6. QED
  BY <1>1, <1>2, <1>3, <1>4, <1>5 DEF Row, Changes, Column

\* The new values.
LEMMA SetValue ==
  ASSUME NEW e \in Row, NEW v, NEW w
  PROVE  /\ [e EXCEPT !.refreshToken = v].refreshToken = v
         /\ [e EXCEPT !.resetPasswordToken = v].resetPasswordToken = v
         /\ [e EXCEPT !.password = w, !.resetPasswordToken = v].resetPasswordToken = v
BY DEF Row

-----------------------------------------------------------------------------
(* What a method does to the row b it read, whichever it is: it leaves e.  *)

\* A method that revokes ends the session; only a login or a refresh makes a
\* token, for an active user, and only a login where there is none.
TokensEffect(o, b, e) ==
  /\ o \in Revoking => e.refreshToken = NONE
  /\ o \notin Revoking \cup {"login", "refresh"} => e.refreshToken = b.refreshToken
  /\ o = "refresh" => b.refreshToken # NONE
  /\ o \in {"login", "refresh"} => b.isActive = TRUE /\ b.deleted = FALSE

\* Only an administrator decides about the user.
DecisionsEffect(o, b, e, g) ==
  /\ o \in {"login", "refresh"} => g = {}
  /\ o # "toggleActive" /\ "isActive" \notin g => e.isActive = b.isActive
  /\ o # "deleteUser" => e.deleted = b.deleted
  /\ o = "deleteUser" => e.deleted = TRUE /\ \A c \in Column \ {"deleted"} : e[c] = b[c]

PlaceLimit(o) == IF o = "wrongPhoneCode" THEN PhoneMaxAttempts ELSE OtpMaxAttempts

\* A method makes one secret at most, removes the one it accepts, and counts a
\* wrong guess at the code there is.
CodesEffect(r, o, b, e, s) ==
  /\ \/ e.otpCode \in {b.otpCode, NONE}
     \/ e.otpCode = r /\ o \in NewCode
  /\ \/ e.resetPasswordToken \in {b.resetPasswordToken, NONE}
     \/ e.resetPasswordToken = r /\ o = "forgotPassword"
  /\ o \in Spending \ {"resetPassword"} => s \in Id /\ s = b.otpCode /\ e.otpCode = NONE
  /\ o = "resetPassword" =>
       s \in Id /\ s = b.resetPasswordToken /\ e.resetPasswordToken = NONE
  /\ o \in Guessing =>
       /\ s \in Id /\ s = b.otpCode /\ e.otpCode = s
       /\ e.otpAttempts = b.otpAttempts + 1 /\ e.otpAttempts <= PlaceLimit(o)
  /\ o \notin Guessing /\ e.otpCode = b.otpCode /\ e.otpCode \notin {NONE, r} =>
       e.otpAttempts = b.otpAttempts

\* A mark is kept with its address, or given.
MarksEffect(o, b, e, g) ==
  /\ e.emailVerified = TRUE =>
       \/ b.emailVerified = TRUE /\ e.email = b.email
       \/ o = "verifyEmail" \/ "emailVerified" \in g
  /\ e.phoneVerified = TRUE =>
       \/ b.phoneVerified = TRUE /\ e.phone = b.phone
       \/ o = "verifyPhone" \/ "phoneVerified" \in g

Effect(r, o, b, e, s, g) ==
  /\ e \in Row /\ o \in Op /\ s \in Secret /\ g \in SUBSET Column
  /\ TokensEffect(o, b, e) /\ DecisionsEffect(o, b, e, g)
  /\ CodesEffect(r, o, b, e, s) /\ MarksEffect(o, b, e, g)

\* Request r begins a method with a lawful effect.
Lawful(r) == \E o, e, s, g : BeginGiven(r, o, e, s, g) /\ Effect(r, o, row, e, s, g)

LEMMA BeginLawful ==
  ASSUME NEW r, NEW o, NEW e, NEW s, Begin(r, o, e, s), Effect(r, o, row, e, s, {})
  PROVE  Lawful(r)
BY DEF Lawful, Begin

\* What the effects are when the columns they are about do not change.
LEMMA TokensAlone ==
  ASSUME NEW o, NEW b, NEW e, NEW cols, Changes(e, b, cols),
         "refreshToken" \notin cols, o \notin Revoking \cup {"login", "refresh"}
  PROVE  TokensEffect(o, b, e)
BY DEF TokensEffect, Changes, Column

LEMMA DecisionsAlone ==
  ASSUME NEW o, NEW b, NEW e, NEW cols, Changes(e, b, cols),
         cols \cap {"isActive", "deleted"} = {}, o # "deleteUser"
  PROVE  DecisionsEffect(o, b, e, {})
BY DEF DecisionsEffect, Changes, Column

LEMMA CodesAlone ==
  ASSUME NEW r, NEW o, NEW b, NEW e, NEW cols, Changes(e, b, cols),
         cols \cap {"otpCode", "otpAttempts", "resetPasswordToken"} = {},
         o \notin Spending \cup Guessing
  PROVE  CodesEffect(r, o, b, e, NONE)
BY DEF CodesEffect, Changes, Column, Spending

LEMMA MarksAlone ==
  ASSUME NEW o, NEW b, NEW e, NEW cols, NEW g, Changes(e, b, cols),
         cols \cap {"email", "emailVerified", "phone", "phoneVerified"} = {}
  PROVE  MarksEffect(o, b, e, g)
BY DEF MarksEffect, Changes, Column

\* The operations are what they are named.
LEMMA OpNames ==
  /\ Op \subseteq SessionOp \cup OpenOp \cup AdminOp
  /\ {"verifyEmail", "resendOtp", "login", "refresh", "logout", "forgotPassword",
      "resetPassword", "changePassword", "requestChangePassword",
      "confirmChangePassword", "updateProfile", "sendPhoneOtp", "verifyPhone",
      "toggleActive", "deleteUser", "updateUserAdmin"} \cup Guessing \subseteq Op
BY DEF Op, SessionOp, OpenOp, AdminOp, Guessing

\* A wrong guess, wherever it is made.
LEMMA GuessLawful ==
  ASSUME row \in Row, NEW r \in Request, NEW o \in Guessing, AttemptsLeft(PlaceLimit(o)),
         row.otpCode # NONE, Begin(r, o, Guessed, row.otpCode)
  PROVE  Lawful(r)
<1>1. PICK e : e = Guessed
  OBVIOUS
<1>2. PlaceLimit(o) \in {OtpMaxAttempts, PhoneMaxAttempts}
  BY DEF PlaceLimit
<1>3. Changes(e, row, {"otpAttempts"}) /\ e.otpAttempts = row.otpAttempts + 1
  BY <1>1, <1>2, GuessedEntity
<1>4. row.otpCode \in Id /\ row.otpCode \in Secret
  BY DEF Row, Secret
<1>5. o \notin Spending \cup Revoking \cup {"login", "refresh", "deleteUser"}
  BY DEF Guessing, Spending, Revoking
<1>6. TokensEffect(o, row, e) /\ DecisionsEffect(o, row, e, {}) /\ MarksEffect(o, row, e, {})
  BY <1>3, <1>5, TokensAlone, DecisionsAlone, MarksAlone
<1>7. CodesEffect(r, o, row, e, row.otpCode)
  <2>1. e.otpCode = row.otpCode /\ e.resetPasswordToken = row.resetPasswordToken
    BY <1>3 DEF Changes, Column
  <2>2. e.otpAttempts <= PlaceLimit(o)
    BY <1>2, <1>3, Ids DEF AttemptsLeft, Row
  <2>3. QED
    BY <1>3, <1>4, <1>5, <2>1, <2>2 DEF CodesEffect, Spending
<1>8. Effect(r, o, row, e, row.otpCode, {})
  BY <1>3, <1>4, <1>6, <1>7, OpNames DEF Effect, Changes
<1>9. QED
  BY <1>1, <1>8, BeginLawful

-----------------------------------------------------------------------------
(* The methods.                                                            *)

\* A new code, whatever it is for.
LEMMA NewOtpLawful ==
  ASSUME row \in Row, NEW r \in Request, NEW o \in {"resendOtp", "requestChangePassword"},
         Begin(r, o, NewOtp(r), NONE)
  PROVE  Lawful(r)
<1>1. PICK e : e = NewOtp(r)
  OBVIOUS
<1>2. Changes(e, row, {"otpCode", "otpAttempts"}) /\ e.otpCode = r
  BY <1>1, NewOtpEntity
<1>3. /\ TokensEffect(o, row, e) /\ DecisionsEffect(o, row, e, {})
      /\ MarksEffect(o, row, e, {})
  BY <1>2, TokensAlone, DecisionsAlone, MarksAlone DEF Revoking
<1>4. CodesEffect(r, o, row, e, NONE)
  BY <1>2 DEF CodesEffect, Changes, Column, Spending, Guessing, NewCode
<1>5. Effect(r, o, row, e, NONE, {})
  BY <1>2, <1>3, <1>4, OpNames, Ids DEF Effect, Changes
<1>6. QED
  BY <1>1, <1>5, BeginLawful

\* A code that is accepted marks one address, or changes the password.
LEMMA SpendLawful ==
  ASSUME row \in Row, NEW r \in Request, NEW o \in Spending \ {"resetPassword"}, NEW e,
         NEW cols, Changes(e, row, cols), e.otpCode = NONE, row.otpCode # NONE,
         "resetPasswordToken" \notin cols, cols \cap {"isActive", "deleted"} = {},
         TokensEffect(o, row, e), MarksEffect(o, row, e, {}),
         Begin(r, o, e, row.otpCode)
  PROVE  Lawful(r)
<1>1. row.otpCode \in Id /\ row.otpCode \in Secret
  BY DEF Row, Secret
<1>2. DecisionsEffect(o, row, e, {})
  BY DecisionsAlone DEF Spending
<1>3. CodesEffect(r, o, row, e, row.otpCode)
  BY <1>1 DEF CodesEffect, Changes, Column, Spending, Guessing
<1>4. o \in Op
  BY OpNames DEF Spending
<1>5. Effect(r, o, row, e, row.otpCode, {})
  BY <1>1, <1>2, <1>3, <1>4 DEF Effect, Changes
<1>6. QED
  BY <1>5, BeginLawful

LEMMA EmailLawful ==
  ASSUME row \in Row, NEW r \in Request, EmailRoutes(r)
  PROVE  Lawful(r)
<1>1. CASE VerifyEmail(r)
  <2> DEFINE marked == [row EXCEPT !.emailVerified = TRUE]
             e == OtpUsed(marked)
  <2>1. CASE Begin(r, "wrongEmailCode", Guessed, row.otpCode)
    BY <1>1, <2>1, GuessLawful DEF VerifyEmail, Guessing, PlaceLimit
  <2>2. CASE Begin(r, "verifyEmail", e, row.otpCode)
    <3>1. Changes(marked, row, {"emailVerified"})
      BY Ids, SetColumn
    <3>2. Changes(e, marked, {"otpCode", "otpAttempts"}) /\ e.otpCode = NONE
      BY <3>1, OtpUsedEntity DEF Changes
    <3> HIDE DEF marked, e
    <3>3. Changes(e, row, {"otpCode", "otpAttempts", "emailVerified"})
      BY <3>1, <3>2 DEF Changes
    <3>4. TokensEffect("verifyEmail", row, e)
      BY <3>3, TokensAlone DEF Revoking
    <3>5. MarksEffect("verifyEmail", row, e, {})
      BY <3>3 DEF MarksEffect, Changes, Column
    <3>6. row.otpCode # NONE /\ "verifyEmail" \in Spending \ {"resetPassword"}
      BY <1>1 DEF VerifyEmail, Spending
    <3>7. QED
      BY <2>2, <3>2, <3>3, <3>4, <3>5, <3>6, SpendLawful
  <2>3. QED
    BY <1>1, <2>1, <2>2 DEF VerifyEmail
<1>2. CASE ResendOtp(r)
  BY <1>2, NewOtpLawful DEF ResendOtp
<1>3. QED
  BY <1>1, <1>2 DEF EmailRoutes

LEMMA SessionLawful ==
  ASSUME row \in Row, NEW r \in Request, SessionRoutes(r)
  PROVE  Lawful(r)
<1>1. CASE Login(r) \/ Refresh(r)
  <2>1. PICK e : e = [row EXCEPT !.refreshToken = r]
    OBVIOUS
  <2>2. Changes(e, row, {"refreshToken"})
    BY <2>1, Ids, SetColumn
  <2>3. PICK o \in {"login", "refresh"} :
          /\ Begin(r, o, e, NONE)
          /\ o = "refresh" => row.refreshToken # NONE
    BY <1>1, <2>1 DEF Login, Refresh
  <2>4. row.isActive = TRUE /\ row.deleted = FALSE
    <3>1. row.isActive /\ ~row.deleted
      BY <1>1, Zenon DEF Login, Refresh, Begin, BeginGiven
    <3>2. QED
      BY <3>1 DEF Row
  <2>5. TokensEffect(o, row, e)
    BY <2>3, <2>4 DEF TokensEffect, Revoking
  <2>6. /\ CodesEffect(r, o, row, e, NONE) /\ MarksEffect(o, row, e, {})
        /\ DecisionsEffect(o, row, e, {})
    BY <2>2, CodesAlone, MarksAlone, DecisionsAlone DEF Spending, Guessing
  <2>7. Effect(r, o, row, e, NONE, {})
    BY <2>2, <2>5, <2>6, OpNames, Ids DEF Effect, Changes
  <2>8. QED
    BY <2>3, <2>7, BeginLawful
<1>2. CASE Logout(r)
  <2>1. PICK e : e = SessionEnded(row)
    OBVIOUS
  <2>2. Changes(e, row, {"refreshToken"}) /\ e.refreshToken = NONE
    BY <2>1, SessionEndedEntity
  <2>3. TokensEffect("logout", row, e)
    BY <2>2 DEF TokensEffect, Revoking
  <2>4. /\ CodesEffect(r, "logout", row, e, NONE) /\ MarksEffect("logout", row, e, {})
        /\ DecisionsEffect("logout", row, e, {})
    BY <2>2, CodesAlone, MarksAlone, DecisionsAlone DEF Spending, Guessing
  <2>5. Effect(r, "logout", row, e, NONE, {})
    BY <2>2, <2>3, <2>4, OpNames, Ids DEF Effect, Changes
  <2>6. QED
    BY <1>2, <2>1, <2>5, BeginLawful DEF Logout
<1>3. QED
  BY <1>1, <1>2 DEF SessionRoutes

LEMMA PasswordLawful ==
  ASSUME row \in Row, NEW r \in Request, PasswordRoutes(r)
  PROVE  Lawful(r)
<1>0. r \in Id /\ r \in Secret /\ NONE \in Secret
  BY Ids
<1>1. CASE ForgotPassword(r)
  <2>1. PICK e : e = [row EXCEPT !.resetPasswordToken = r]
    OBVIOUS
  <2>2. Changes(e, row, {"resetPasswordToken"})
    BY <1>0, <2>1, SetColumn
  <2>3. e.resetPasswordToken = r
    BY <2>1, SetValue
  <2>4. /\ TokensEffect("forgotPassword", row, e) /\ MarksEffect("forgotPassword", row, e, {})
        /\ DecisionsEffect("forgotPassword", row, e, {})
    BY <2>2, TokensAlone, MarksAlone, DecisionsAlone DEF Revoking
  <2>5. CodesEffect(r, "forgotPassword", row, e, NONE)
    BY <2>2, <2>3 DEF CodesEffect, Changes, Column, Spending, Guessing
  <2>6. Effect(r, "forgotPassword", row, e, NONE, {})
    BY <1>0, <2>2, <2>4, <2>5, OpNames DEF Effect, Changes
  <2>7. QED
    BY <1>1, <2>1, <2>6, BeginLawful DEF ForgotPassword
<1>2. CASE ResetPassword(r)
  <2> DEFINE changed == [row EXCEPT !.password = r, !.resetPasswordToken = NONE]
             e == SessionEnded(changed)
             s == row.resetPasswordToken
  <2>1. Changes(changed, row, {"password", "resetPasswordToken"})
    BY <1>0, SetColumn
  <2>2. changed.resetPasswordToken = NONE
    BY SetValue
  <2>3. Changes(e, changed, {"refreshToken"}) /\ e.refreshToken = NONE
    BY <2>1, SessionEndedEntity DEF Changes
  <2>4. Begin(r, "resetPassword", e, s) /\ s # NONE
    BY <1>2 DEF ResetPassword
  <2> HIDE DEF changed, e
  <2>5. Changes(e, row, {"password", "resetPasswordToken", "refreshToken"})
        /\ e.resetPasswordToken = NONE
    BY <2>1, <2>2, <2>3 DEF Changes, Column
  <2>6. s \in Id /\ s \in Secret
    BY <2>4 DEF Row, Secret
  <2>7. TokensEffect("resetPassword", row, e)
    BY <2>3 DEF TokensEffect, Revoking
  <2>8. MarksEffect("resetPassword", row, e, {}) /\ DecisionsEffect("resetPassword", row, e, {})
    BY <2>5, MarksAlone, DecisionsAlone
  <2>9. CodesEffect(r, "resetPassword", row, e, s)
    BY <2>5, <2>6 DEF CodesEffect, Changes, Column, Guessing
  <2>10. Effect(r, "resetPassword", row, e, s, {})
    BY <2>5, <2>6, <2>7, <2>8, <2>9, OpNames DEF Effect, Changes
  <2>11. QED
    BY <2>4, <2>10, BeginLawful
<1>3. CASE ChangePassword(r)
  <2> DEFINE changed == [row EXCEPT !.password = r]
             e == SessionEnded(changed)
  <2>1. Changes(changed, row, {"password"})
    BY <1>0, SetColumn
  <2>2. Changes(e, changed, {"refreshToken"}) /\ e.refreshToken = NONE
    BY <2>1, SessionEndedEntity DEF Changes
  <2>3. Begin(r, "changePassword", e, NONE)
    BY <1>3 DEF ChangePassword
  <2> HIDE DEF changed, e
  <2>4. Changes(e, row, {"password", "refreshToken"})
    BY <2>1, <2>2 DEF Changes
  <2>5. TokensEffect("changePassword", row, e)
    BY <2>2 DEF TokensEffect, Revoking
  <2>6. /\ CodesEffect(r, "changePassword", row, e, NONE)
        /\ MarksEffect("changePassword", row, e, {})
        /\ DecisionsEffect("changePassword", row, e, {})
    BY <2>4, CodesAlone, MarksAlone, DecisionsAlone DEF Spending, Guessing
  <2>7. Effect(r, "changePassword", row, e, NONE, {})
    BY <1>0, <2>4, <2>5, <2>6, OpNames DEF Effect, Changes
  <2>8. QED
    BY <2>3, <2>7, BeginLawful
<1>4. CASE RequestChangePassword(r)
  BY <1>4, NewOtpLawful DEF RequestChangePassword
<1>5. CASE ConfirmChangePassword(r)
  <2> DEFINE changed == [row EXCEPT !.password = r]
             used == OtpUsed(changed)
             e == SessionEnded(used)
  <2>1. CASE Begin(r, "wrongChangeCode", Guessed, row.otpCode)
    BY <1>5, <2>1, GuessLawful DEF ConfirmChangePassword, Guessing, PlaceLimit
  <2>2. CASE Begin(r, "confirmChangePassword", e, row.otpCode)
    <3>1. Changes(changed, row, {"password"})
      BY <1>0, SetColumn
    <3>2. Changes(used, changed, {"otpCode", "otpAttempts"}) /\ used.otpCode = NONE
      BY <3>1, OtpUsedEntity DEF Changes
    <3>3. Changes(e, used, {"refreshToken"}) /\ e.refreshToken = NONE
      BY <3>2, SessionEndedEntity DEF Changes
    <3> HIDE DEF changed, used, e
    <3>4. /\ Changes(e, row, {"password", "otpCode", "otpAttempts", "refreshToken"})
          /\ e.otpCode = NONE
      BY <3>1, <3>2, <3>3 DEF Changes, Column
    <3>5. row.otpCode # NONE /\ "confirmChangePassword" \in Spending \ {"resetPassword"}
      BY <1>5 DEF ConfirmChangePassword, Spending
    <3>6. TokensEffect("confirmChangePassword", row, e)
      BY <3>3 DEF TokensEffect, Revoking
    <3>7. MarksEffect("confirmChangePassword", row, e, {})
      BY <3>4, MarksAlone
    <3>8. QED
      BY <2>2, <3>4, <3>5, <3>6, <3>7, SpendLawful
  <2>3. QED
    BY <1>5, <2>1, <2>2 DEF ConfirmChangePassword
<1>6. QED
  BY <1>1, <1>2, <1>3, <1>4, <1>5 DEF PasswordRoutes

LEMMA UserLawful ==
  ASSUME row \in Row, NEW r \in Request, UserRoutes(r)
  PROVE  Lawful(r)
<1>1. CASE UpdateProfile(r)
  <2>1. PICK phone \in Phones : Begin(r, "updateProfile", WithPhone(row, phone), NONE)
    BY <1>1 DEF UpdateProfile
  <2>2. PICK e : e = WithPhone(row, phone)
    OBVIOUS
  <2>3. /\ Changes(e, row, {"phone", "phoneVerified"})
        /\ e.phoneVerified = TRUE => e.phone = row.phone /\ row.phoneVerified = TRUE
    BY <2>2, WithPhoneEntity
  <2>4. /\ TokensEffect("updateProfile", row, e) /\ DecisionsEffect("updateProfile", row, e, {})
        /\ CodesEffect(r, "updateProfile", row, e, NONE)
    BY <2>3, TokensAlone, CodesAlone, DecisionsAlone DEF Revoking, Spending, Guessing
  <2>5. MarksEffect("updateProfile", row, e, {})
    BY <2>3 DEF MarksEffect, Changes, Column
  <2>6. Effect(r, "updateProfile", row, e, NONE, {})
    BY <2>3, <2>4, <2>5, OpNames, Ids DEF Effect, Changes
  <2>7. QED
    BY <2>1, <2>2, <2>6, BeginLawful
<1>2. CASE SendPhoneOtp(r)
  <2>1. PICK phone \in Phones : Begin(r, "sendPhoneOtp", WithPhone(NewOtp(r), phone), NONE)
    BY <1>2 DEF SendPhoneOtp
  <2>2. PICK new : new = NewOtp(r)
    OBVIOUS
  <2>3. PICK e : e = WithPhone(new, phone)
    OBVIOUS
  <2>4. Changes(new, row, {"otpCode", "otpAttempts"}) /\ new.otpCode = r
    BY <2>2, NewOtpEntity
  <2>5. /\ Changes(e, new, {"phone", "phoneVerified"})
        /\ e.phoneVerified = TRUE => e.phone = new.phone /\ new.phoneVerified = TRUE
    BY <2>3, <2>4, WithPhoneEntity DEF Changes
  <2>6. Changes(e, row, {"otpCode", "otpAttempts", "phone", "phoneVerified"}) /\ e.otpCode = r
    BY <2>4, <2>5 DEF Changes, Column
  <2>7. TokensEffect("sendPhoneOtp", row, e) /\ DecisionsEffect("sendPhoneOtp", row, e, {})
    BY <2>6, TokensAlone, DecisionsAlone DEF Revoking
  <2>8. CodesEffect(r, "sendPhoneOtp", row, e, NONE)
    BY <2>6 DEF CodesEffect, Changes, Column, Spending, Guessing, NewCode
  <2>9. MarksEffect("sendPhoneOtp", row, e, {})
    BY <2>4, <2>5, <2>6 DEF MarksEffect, Changes, Column
  <2>10. Effect(r, "sendPhoneOtp", row, e, NONE, {})
    BY <2>6, <2>7, <2>8, <2>9, OpNames, Ids DEF Effect, Changes
  <2>11. QED
    BY <2>1, <2>2, <2>3, <2>10, BeginLawful
<1>3. CASE VerifyPhone(r)
  <2> DEFINE marked == [row EXCEPT !.phoneVerified = TRUE]
             e == OtpUsed(marked)
  <2>1. CASE Begin(r, "wrongPhoneCode", Guessed, row.otpCode)
    BY <1>3, <2>1, GuessLawful DEF VerifyPhone, Guessing, PlaceLimit
  <2>2. CASE Begin(r, "verifyPhone", e, row.otpCode)
    <3>1. Changes(marked, row, {"phoneVerified"})
      BY Ids, SetColumn
    <3>2. Changes(e, marked, {"otpCode", "otpAttempts"}) /\ e.otpCode = NONE
      BY <3>1, OtpUsedEntity DEF Changes
    <3> HIDE DEF marked, e
    <3>3. Changes(e, row, {"otpCode", "otpAttempts", "phoneVerified"})
      BY <3>1, <3>2 DEF Changes
    <3>4. TokensEffect("verifyPhone", row, e)
      BY <3>3, TokensAlone DEF Revoking
    <3>5. MarksEffect("verifyPhone", row, e, {})
      BY <3>3 DEF MarksEffect, Changes, Column
    <3>6. row.otpCode # NONE /\ "verifyPhone" \in Spending \ {"resetPassword"}
      BY <1>3 DEF VerifyPhone, Spending
    <3>7. QED
      BY <2>2, <3>2, <3>3, <3>4, <3>5, <3>6, SpendLawful
  <2>3. QED
    BY <1>3, <2>1, <2>2 DEF VerifyPhone
<1>4. QED
  BY <1>1, <1>2, <1>3 DEF UserRoutes

\* The body of an administrator sets its columns; a mark it does not give is
\* kept with its address only.
LEMMA AdminUpdatedEntity ==
  ASSUME row \in Row, NEW dto \in AdminDto
  PROVE  LET e == AdminUpdated(dto)
             g == {f \in DOMAIN dto : dto[f] # KEEP}
         IN  /\ Changes(e, row, {"email", "emailVerified", "phone", "phoneVerified",
                                 "isActive"})
             /\ g \in SUBSET Column
             /\ "isActive" \notin g => e.isActive = row.isActive
             /\ MarksEffect("updateUserAdmin", row, e, g)
<1>1. PICK g : g = {f \in DOMAIN dto : dto[f] # KEEP}
  OBVIOUS
<1>2. DOMAIN dto = {"email", "emailVerified", "phone", "phoneVerified", "isActive"}
  BY DEF AdminDto
<1>3. PICK email : email = IF dto.email = KEEP THEN row.email ELSE dto.email
  OBVIOUS
<1>4. PICK phone : phone = IF dto.phone = KEEP THEN row.phone ELSE dto.phone
  OBVIOUS
<1>5. PICK active : active = IF dto.isActive = KEEP THEN row.isActive ELSE dto.isActive
  OBVIOUS
<1>6. PICK known : known = IF dto.emailVerified = KEEP
                           THEN row.emailVerified /\ email = row.email ELSE dto.emailVerified
  OBVIOUS
<1>7. PICK called : called = IF dto.phoneVerified = KEEP
                             THEN row.phoneVerified /\ phone = row.phone ELSE dto.phoneVerified
  OBVIOUS
<1>8. /\ email \in Emails /\ phone \in Phones /\ active \in BOOLEAN
      /\ known \in BOOLEAN /\ called \in BOOLEAN
  <2>1. email \in Emails /\ phone \in Phones
    BY <1>3, <1>4 DEF AdminDto, Row
  <2>2. active \in BOOLEAN
    BY <1>5 DEF AdminDto, Row
  <2>3. known \in BOOLEAN
    BY <1>6 DEF AdminDto, Row
  <2>4. called \in BOOLEAN
    BY <1>7 DEF AdminDto, Row
  <2>5. QED
    BY <2>1, <2>2, <2>3, <2>4
<1>9. PICK e : e = [row EXCEPT !.email = email, !.phone = phone, !.emailVerified = known,
                               !.phoneVerified = called, !.isActive = active]
  OBVIOUS
<1>10. AdminUpdated(dto) = e
  BY <1>3, <1>4, <1>5, <1>6, <1>7, <1>9, Zenon DEF AdminUpdated
<1>11. e \in Row
  BY <1>8, <1>9, Zenon DEF Row
<1>12. /\ e.email = email /\ e.phone = phone /\ e.emailVerified = known
       /\ e.phoneVerified = called /\ e.isActive = active
       /\ Changes(e, row, {"email", "emailVerified", "phone", "phoneVerified", "isActive"})
  BY <1>9, <1>11 DEF Row, Changes, Column
<1>13. g \in SUBSET Column
  BY <1>1, <1>2 DEF Column
<1>14. "isActive" \notin g => e.isActive = row.isActive
  BY <1>1, <1>2, <1>5, <1>12
<1>15. known = TRUE => "emailVerified" \in g \/ (row.emailVerified = TRUE /\ email = row.email)
  <2>1. dto.emailVerified = KEEP /\ known = TRUE => row.emailVerified /\ email = row.email
    BY <1>6
  <2>2. row.emailVerified \in BOOLEAN
    BY DEF Row
  <2>3. QED
    BY <1>1, <1>2, <2>1, <2>2
<1>16. called = TRUE => "phoneVerified" \in g \/ (row.phoneVerified = TRUE /\ phone = row.phone)
  <2>1. dto.phoneVerified = KEEP /\ called = TRUE => row.phoneVerified /\ phone = row.phone
    BY <1>7
  <2>2. row.phoneVerified \in BOOLEAN
    BY DEF Row
  <2>3. QED
    BY <1>1, <1>2, <2>1, <2>2
<1>17. MarksEffect("updateUserAdmin", row, e, g)
  BY <1>12, <1>15, <1>16 DEF MarksEffect
<1>18. QED
  BY <1>1, <1>10, <1>12, <1>13, <1>14, <1>17

LEMMA AdminLawful ==
  ASSUME row \in Row, NEW r \in Request, AdminRoutes(r)
  PROVE  Lawful(r)
<1>1. CASE ToggleActive(r)
  <2>1. PICK active \in BOOLEAN :
          Begin(r, "toggleActive", [row EXCEPT !.isActive = active], NONE)
    BY <1>1 DEF ToggleActive
  <2>2. PICK e : e = [row EXCEPT !.isActive = active]
    OBVIOUS
  <2>3. Changes(e, row, {"isActive"})
    BY <2>2, Ids, SetColumn
  <2>4. /\ TokensEffect("toggleActive", row, e) /\ MarksEffect("toggleActive", row, e, {})
        /\ CodesEffect(r, "toggleActive", row, e, NONE)
    BY <2>3, TokensAlone, CodesAlone, MarksAlone DEF Revoking, Spending, Guessing
  <2>5. DecisionsEffect("toggleActive", row, e, {})
    BY <2>3 DEF DecisionsEffect, Changes, Column
  <2>6. Effect(r, "toggleActive", row, e, NONE, {})
    BY <2>3, <2>4, <2>5, OpNames, Ids DEF Effect, Changes
  <2>7. QED
    BY <2>1, <2>2, <2>6, BeginLawful
<1>2. CASE DeleteUser(r)
  <2>1. PICK e : e = [row EXCEPT !.deleted = TRUE]
    OBVIOUS
  <2>2. Changes(e, row, {"deleted"})
    BY <2>1, Ids, SetColumn
  <2>3. /\ TokensEffect("deleteUser", row, e) /\ MarksEffect("deleteUser", row, e, {})
        /\ CodesEffect(r, "deleteUser", row, e, NONE)
    BY <2>2, TokensAlone, CodesAlone, MarksAlone DEF Revoking, Spending, Guessing
  <2>4. DecisionsEffect("deleteUser", row, e, {})
    <3>1. e.deleted = TRUE
      BY <2>1 DEF Row
    <3>2. QED
      BY <2>2, <3>1 DEF DecisionsEffect, Changes, Column
  <2>5. Effect(r, "deleteUser", row, e, NONE, {})
    BY <2>2, <2>3, <2>4, OpNames, Ids DEF Effect, Changes
  <2>6. QED
    BY <1>2, <2>1, <2>5, BeginLawful DEF DeleteUser
<1>3. CASE UpdateUserAdmin(r)
  <2>1. PICK dto \in AdminDtos :
          BeginGiven(r, "updateUserAdmin", AdminUpdated(dto), NONE,
                     {f \in DOMAIN dto : dto[f] # KEEP})
    BY <1>3 DEF UpdateUserAdmin
  <2>2. PICK e : e = AdminUpdated(dto)
    OBVIOUS
  <2>3. PICK g : g = {f \in DOMAIN dto : dto[f] # KEEP}
    OBVIOUS
  <2>4. dto \in AdminDto
    BY InputsAssumption
  <2>5. /\ Changes(e, row, {"email", "emailVerified", "phone", "phoneVerified", "isActive"})
        /\ g \in SUBSET Column
        /\ "isActive" \notin g => e.isActive = row.isActive
        /\ MarksEffect("updateUserAdmin", row, e, g)
    BY <2>2, <2>3, <2>4, AdminUpdatedEntity
  <2>6. TokensEffect("updateUserAdmin", row, e) /\ CodesEffect(r, "updateUserAdmin", row, e, NONE)
    BY <2>5, TokensAlone, CodesAlone DEF Revoking, Spending, Guessing
  <2>7. DecisionsEffect("updateUserAdmin", row, e, g)
    BY <2>5 DEF DecisionsEffect, Changes, Column
  <2>8. Effect(r, "updateUserAdmin", row, e, NONE, g)
    BY <2>5, <2>6, <2>7, OpNames, Ids DEF Effect, Changes
  <2>9. QED
    BY <2>1, <2>2, <2>3, <2>8 DEF Lawful
<1>4. QED
  BY <1>1, <1>2, <1>3 DEF AdminRoutes

\* Every method there is.
Method(r) == EmailRoutes(r) \/ SessionRoutes(r) \/ PasswordRoutes(r)
             \/ UserRoutes(r) \/ AdminRoutes(r)

LEMMA MethodLawful ==
  ASSUME row \in Row, NEW r \in Request, Method(r)
  PROVE  Lawful(r)
BY EmailLawful, SessionLawful, PasswordLawful, UserLawful, AdminLawful DEF Method

-----------------------------------------------------------------------------
(* Types.                                                                  *)

LEMMA RowsTyped ==
  /\ Registered \in Row /\ LoggedIn \in Row
  /\ Registered.otpCode = 0 /\ Registered.refreshToken = NONE
  /\ Registered.resetPasswordToken = NONE /\ Registered.otpAttempts = 0
  /\ Registered.emailVerified = FALSE /\ Registered.phoneVerified = FALSE
  /\ LoggedIn.otpCode = NONE /\ LoggedIn.refreshToken = 0
  /\ LoggedIn.resetPasswordToken = NONE /\ LoggedIn.phoneVerified = FALSE
<1> DEFINE email == CHOOSE e \in Emails : TRUE
           phone == CHOOSE p \in Phones : TRUE
<1>1. email \in Emails /\ phone \in Phones
  BY InputsAssumption, Zenon
<1> HIDE DEF email, phone
<1>2. Registered =
        [email |-> email, emailVerified |-> FALSE, phone |-> phone, phoneVerified |-> FALSE,
         isActive |-> TRUE, deleted |-> FALSE, password |-> 0, refreshToken |-> NONE,
         otpCode |-> 0, otpAttempts |-> 0, resetPasswordToken |-> NONE]
  BY DEF Registered, email, phone
<1>3. Registered \in Row
  BY <1>1, <1>2, Ids DEF Row
<1>4. LoggedIn \in Row
  BY <1>3, Ids DEF Row, LoggedIn
<1>5. QED
  BY <1>2, <1>3, <1>4 DEF LoggedIn, Row

LEMMA IdleTyped ==
  ASSUME NEW pc \in {"idle", "authorized", "done"}
  PROVE  [Idle EXCEPT !.pc = pc] \in Memory /\ [Idle EXCEPT !.pc = pc].pc = pc
<1>1. Idle \in Memory
  BY RowsTyped, Ids DEF Idle, Memory, Op, OpenOp
<1>2. QED
  BY <1>1 DEF Memory

LEMMA InitType == Init => TypeOK
<1> SUFFICES ASSUME Init PROVE TypeOK
  OBVIOUS
<1>1. row \in Row
  BY RowsTyped DEF Init
<1>2. Idle \in Memory /\ Idle.pc = "idle"
  BY RowsTyped, Ids DEF Idle, Memory, Op, OpenOp
<1>3. req \in [Request -> Memory] /\ Saving = {}
  BY <1>2 DEF Init, Saving
<1>4. {issued, ended, barred} \subseteq BOOLEAN
  BY Zenon DEF Init
<1>5. proven \subseteq Emails \cup Phones /\ strayed \subseteq Emails \cup Phones
  BY <1>1 DEF Init, Row
<1>6. sentTo \in [Id -> Emails \cup Phones \cup {NONE}]
  BY <1>1 DEF Init, Row
<1>7. accepted \in [Id -> Nat] /\ stale \in [Id -> Nat]
  BY DEF Init
<1>8. wrong \in [Id -> [auth : Nat, users : Nat]]
  BY DEF Init
<1>9. missed \in [Request -> SUBSET Column]
  BY DEF Init
<1>10. QED
  BY <1>1, <1>3, <1>4, <1>5, <1>6, <1>7, <1>8, <1>9 DEF TypeOK

\* What a step of request r before its save leaves alone.
LEMMA BeforeSave ==
  ASSUME TypeOK, NEW r \in Request, NEW m \in Memory,
         req' = [req EXCEPT ![r] = m],
         UNCHANGED <<row, missed, Observers>>,
         m.pc \in {"load", "write"} /\ m.op \in Spending \cup Guessing => m.secret \in Id
  PROVE  /\ TypeOK'
         /\ req'[r] = m /\ \A q \in Request \ {r} : req'[q] = req[q]
         /\ Saving' = (Saving \ {r}) \cup (IF m.pc \in {"load", "write"} THEN {r} ELSE {})
<1>1. /\ req' \in [Request -> Memory] /\ req'[r] = m
      /\ \A q \in Request \ {r} : req'[q] = req[q]
  BY DEF TypeOK
<1>2. Saving' = (Saving \ {r}) \cup (IF m.pc \in {"load", "write"} THEN {r} ELSE {})
  BY <1>1 DEF Saving
<1>3. \A q \in Saving' : req'[q].op \in Spending \cup Guessing => req'[q].secret \in Id
  BY <1>1, <1>2 DEF TypeOK
<1>4. QED
  BY <1>1, <1>2, <1>3 DEF TypeOK, Observers

\* A method leaves its entity to be saved.
LEMMA LawfulStep ==
  ASSUME TypeOK, NEW r \in Request, NEW o, NEW e, NEW s, NEW g,
         BeginGiven(r, o, e, s, g), Effect(r, o, row, e, s, g)
  PROVE  LET m == [pc |-> "load", op |-> o, local |-> e, diff |-> {}, secret |-> s,
                   given |-> g]
         IN  /\ TypeOK'
             /\ UNCHANGED <<row, missed, Observers>>
             /\ req'[r] = m /\ \A q \in Request \ {r} : req'[q] = req[q]
             /\ r \notin Saving /\ Saving' = Saving \cup {r}
<1> DEFINE m == [pc |-> "load", op |-> o, local |-> e, diff |-> {}, secret |-> s,
                 given |-> g]
<1>1. m \in Memory /\ m.pc = "load" /\ m.op = o /\ m.secret = s
  BY DEF Effect, Memory
<1>2. o \in Spending \cup Guessing => s \in Id
  BY DEF Effect, CodesEffect
<1>3. req' = [req EXCEPT ![r] = m] /\ UNCHANGED <<row, missed, Observers>>
  BY DEF BeginGiven
<1>4. r \notin Saving
  BY DEF BeginGiven, Arrives, Saving
<1> HIDE DEF m
<1>5. /\ TypeOK' /\ req'[r] = m /\ \A q \in Request \ {r} : req'[q] = req[q]
      /\ Saving' = (Saving \ {r}) \cup (IF m.pc \in {"load", "write"} THEN {r} ELSE {})
  BY <1>1, <1>2, <1>3, BeforeSave
<1>6. Saving' = Saving \cup {r}
  BY <1>1, <1>5 DEF Saving
<1>7. QED
  BY <1>3, <1>4, <1>5, <1>6 DEF m

LEMMA ValidateStep ==
  ASSUME TypeOK, NEW r \in Request, Validate(r)
  PROVE  /\ TypeOK' /\ UNCHANGED <<row, missed, Observers>>
         /\ req'[r].pc = "authorized" /\ \A q \in Request \ {r} : req'[q] = req[q]
         /\ r \notin Saving /\ Saving' = Saving
<1> DEFINE m == [req[r] EXCEPT !.pc = "authorized"]
<1>1. m \in Memory /\ m.pc = "authorized"
  BY DEF TypeOK, Memory
<1>2. req' = [req EXCEPT ![r] = m] /\ UNCHANGED <<row, missed, Observers>>
  BY DEF Validate
<1> HIDE DEF m
<1>3. /\ TypeOK' /\ req'[r] = m /\ \A q \in Request \ {r} : req'[q] = req[q]
      /\ Saving' = (Saving \ {r}) \cup (IF m.pc \in {"load", "write"} THEN {r} ELSE {})
  BY <1>1, <1>2, BeforeSave
<1>4. r \notin Saving
  BY DEF Validate, Arrives, Saving
<1>5. QED
  BY <1>1, <1>2, <1>3, <1>4

LEMMA RefuseStep ==
  ASSUME TypeOK, NEW r \in Request, Refuse(r)
  PROVE  /\ TypeOK' /\ UNCHANGED <<row, missed, Observers>>
         /\ req'[r].pc = "done" /\ \A q \in Request \ {r} : req'[q] = req[q]
         /\ r \notin Saving /\ Saving' = Saving
<1> DEFINE m == [Idle EXCEPT !.pc = "done"]
<1>1. m \in Memory /\ m.pc = "done"
  BY IdleTyped
<1>2. req' = [req EXCEPT ![r] = m] /\ UNCHANGED <<row, missed, Observers>>
  BY DEF Refuse
<1> HIDE DEF m
<1>3. /\ TypeOK' /\ req'[r] = m /\ \A q \in Request \ {r} : req'[q] = req[q]
      /\ Saving' = (Saving \ {r}) \cup (IF m.pc \in {"load", "write"} THEN {r} ELSE {})
  BY <1>1, <1>2, BeforeSave
<1>4. r \notin Saving
  BY DEF Refuse, Saving
<1>5. QED
  BY <1>1, <1>2, <1>3, <1>4

LEMMA LoadStep ==
  ASSUME TypeOK, NEW r \in Request, Load(r)
  PROVE  /\ TypeOK' /\ UNCHANGED <<row, missed, Observers>>
         /\ \A q \in Request \ {r} : req'[q] = req[q]
         /\ r \in Saving /\ Saving' = Saving
         /\ req'[r].pc = "write" /\ req'[r].op = req[r].op
         /\ req'[r].local = req[r].local /\ req'[r].secret = req[r].secret
         /\ req'[r].given = req[r].given
         /\ req'[r].diff = IF req[r].op = "deleteUser" THEN {"deleted"}
                           ELSE Differing(req[r].local, row)
<1>1. PICK d : d = IF req[r].op = "deleteUser" THEN {"deleted"}
                   ELSE Differing(req[r].local, row)
  OBVIOUS
<1> DEFINE m == [req[r] EXCEPT !.pc = "write", !.diff = d]
<1>2. d \in SUBSET Column
  BY <1>1 DEF TypeOK, Row, Column, Differing
<1>3. /\ m \in Memory /\ m.pc = "write" /\ m.diff = d /\ m.op = req[r].op
      /\ m.local = req[r].local /\ m.secret = req[r].secret /\ m.given = req[r].given
  BY <1>2 DEF TypeOK, Memory
<1>4. UNCHANGED <<row, missed, Observers>>
  BY DEF Load
<1>5. req' = [req EXCEPT ![r] = m]
  BY <1>1 DEF Load
<1>6. r \in Saving
  BY DEF Load, Saving
<1>7. m.op \in Spending \cup Guessing => m.secret \in Id
  BY <1>3, <1>6 DEF TypeOK
<1> HIDE DEF m
<1>8. /\ TypeOK' /\ req'[r] = m /\ \A q \in Request \ {r} : req'[q] = req[q]
      /\ Saving' = (Saving \ {r}) \cup (IF m.pc \in {"load", "write"} THEN {r} ELSE {})
  BY <1>3, <1>4, <1>5, <1>7, BeforeSave
<1>9. QED
  BY <1>1, <1>3, <1>4, <1>6, <1>8

\* What a save may leave in the row.
LEMMA PatchedTyped ==
  ASSUME row \in Row, NEW e \in Row, NEW d \in SUBSET Column
  PROVE  /\ Patched(row, e, d) \in Row
         /\ \A c \in Column : Patched(row, e, d)[c] = IF c \in d THEN e[c] ELSE row[c]
<1>1. PICK p : p = Patched(row, e, d)
  OBVIOUS
<1>2. DOMAIN row = Column
  BY DEF Row, Column
<1>3. p = [c \in Column |-> IF c \in d THEN e[c] ELSE row[c]]
  BY <1>1, <1>2 DEF Patched
<1>4. p = [email |-> p.email, emailVerified |-> p.emailVerified, phone |-> p.phone,
           phoneVerified |-> p.phoneVerified, isActive |-> p.isActive,
           deleted |-> p.deleted, password |-> p.password,
           refreshToken |-> p.refreshToken, otpCode |-> p.otpCode,
           otpAttempts |-> p.otpAttempts, resetPasswordToken |-> p.resetPasswordToken]
  BY <1>3 DEF Column
<1>5. \A c \in Column : p[c] = e[c] \/ p[c] = row[c]
  BY <1>3
<1>6. p \in Row
  <2>1. p.email \in Emails
    BY <1>5 DEF Row, Column
  <2>2. p.emailVerified \in BOOLEAN
    BY <1>5 DEF Row, Column
  <2>3. p.phone \in Phones /\ p.phoneVerified \in BOOLEAN
    BY <1>5 DEF Row, Column
  <2>4. p.isActive \in BOOLEAN /\ p.deleted \in BOOLEAN
    BY <1>5 DEF Row, Column
  <2>5. /\ p.password \in Id /\ p.refreshToken \in Secret /\ p.otpCode \in Secret
        /\ p.otpAttempts \in 0 .. LargerLimit /\ p.resetPasswordToken \in Secret
    BY <1>5 DEF Row, Column
  <2>6. QED
    BY <1>4, <2>1, <2>2, <2>3, <2>4, <2>5 DEF Row
<1>7. QED
  BY <1>1, <1>3, <1>6

\* What a save does to the row and to the requests.
LEMMA WriteRow ==
  ASSUME TypeOK, NEW r \in Request, Write(r)
  PROVE  /\ row' \in Row
         /\ \A c \in Column : row'[c] = IF c \in req[r].diff THEN req[r].local[c] ELSE row[c]
         /\ req' \in [Request -> Memory] /\ req'[r].pc = "done" /\ req[r].pc = "write"
         /\ \A q \in Request \ {r} : req'[q] = req[q]
         /\ r \in Saving /\ Saving' = Saving \ {r}
         /\ missed' \in [Request -> SUBSET Column]
         /\ \A q \in Saving \ {r} :
              /\ missed[q] \subseteq missed'[q]
              /\ \A c \in Column \ missed'[q] : row'[c] = row[c]
<1>1. PICK m \in Memory : m = req[r]
  BY DEF TypeOK
<1>2. r \in Saving /\ m.pc = "write"
  BY <1>1 DEF Write, Saving
<1>3. /\ row' \in Row
      /\ \A c \in Column : row'[c] = IF c \in m.diff THEN m.local[c] ELSE row[c]
  <2>1. row' = Patched(row, m.local, m.diff)
    BY <1>1 DEF Write
  <2>2. row \in Row /\ m.local \in Row /\ m.diff \in SUBSET Column
    BY DEF TypeOK, Memory
  <2>3. QED
    BY <2>1, <2>2, PatchedTyped
<1>4. /\ req' \in [Request -> Memory] /\ req'[r].pc = "done"
      /\ \A q \in Request \ {r} : req'[q] = req[q]
  <2>1. PICK d : d = [Idle EXCEPT !.pc = "done"]
    OBVIOUS
  <2>2. d \in Memory /\ d.pc = "done"
    BY <2>1, IdleTyped
  <2>3. req' = [req EXCEPT ![r] = d]
    BY <2>1 DEF Write
  <2>4. QED
    BY <2>2, <2>3 DEF TypeOK
<1>5. Saving' = Saving \ {r}
  BY <1>4 DEF Saving
<1>6. DOMAIN row = Column
  BY DEF TypeOK, Row, Column
<1>7. missed' = [q \in Request |-> IF q \in Saving \ {r}
                                   THEN missed[q] \cup Differing(row', row) ELSE {}]
  BY DEF Write
<1>8. PICK changed : changed = Differing(row', row)
  OBVIOUS
<1>9. changed \in SUBSET Column /\ \A c \in Column \ changed : row'[c] = row[c]
  BY <1>6, <1>8 DEF Differing
<1>10. missed' \in [Request -> SUBSET Column]
  BY <1>7, <1>8, <1>9 DEF TypeOK
<1>11. ASSUME NEW q \in Saving \ {r}
       PROVE  missed[q] \subseteq missed'[q] /\ \A c \in Column \ missed'[q] : row'[c] = row[c]
  BY <1>7, <1>8, <1>9, <1>11 DEF Saving
<1>12. QED
  BY <1>1, <1>2, <1>3, <1>4, <1>5, <1>10, <1>11

LEMMA AddressesTyped ==
  ASSUME TypeOK, NEW r \in Request, Write(r)
  PROVE  /\ Marked(r) \subseteq Emails \cup Phones /\ Certified(r) \subseteq Emails \cup Phones
         /\ row'.email \in Emails \cup Phones /\ row'.phone \in Emails \cup Phones
<1>1. req[r].local \in Row
  BY DEF TypeOK, Memory
<1>2. req[r].local.email \in Emails /\ req[r].local.phone \in Phones
  BY <1>1 DEF Row
<1>3. row' \in Row
  BY WriteRow
<1>4. row'.email \in Emails /\ row'.phone \in Phones
  BY <1>3 DEF Row
<1>5. QED
  BY <1>2, <1>4 DEF Marked, Certified

\* How a save counts.
LEMMA WriteCounts ==
  ASSUME TypeOK, NEW r \in Request, Write(r)
  PROVE  LET o == req[r].op
             s == req[r].secret
         IN  /\ stale' \in [Id -> Nat] /\ accepted' \in [Id -> Nat]
             /\ wrong' \in [Id -> [auth : Nat, users : Nat]]
             /\ \A i \in Id : stale'[i] = IF i # r /\ Outdates(r, i) THEN stale[i] + 1
                                          ELSE stale[i]
             /\ \A i \in Id : accepted'[i] = IF o \in Spending /\ i = s THEN accepted[i] + 1
                                             ELSE accepted[i]
             /\ \A i \in Id : wrong'[i].auth =
                  IF o \in Guessing \ {"wrongPhoneCode"} /\ i = s THEN wrong[i].auth + 1
                  ELSE wrong[i].auth
             /\ \A i \in Id : wrong'[i].users =
                  IF o = "wrongPhoneCode" /\ i = s THEN wrong[i].users + 1 ELSE wrong[i].users
<1>1. PICK o, s : o = req[r].op /\ s = req[r].secret
  OBVIOUS
<1>2. o \in Spending \cup Guessing => s \in Id
  BY <1>1 DEF TypeOK, Write, Saving
<1>3. /\ stale \in [Id -> Nat] /\ accepted \in [Id -> Nat]
      /\ wrong \in [Id -> [auth : Nat, users : Nat]]
  BY DEF TypeOK
<1>4. stale' \in [Id -> Nat]
      /\ \A i \in Id : stale'[i] = IF i # r /\ Outdates(r, i) THEN stale[i] + 1 ELSE stale[i]
  <2>1. stale' = [i \in Id |-> IF i # r /\ Outdates(r, i) THEN stale[i] + 1 ELSE stale[i]]
    BY Zenon DEF Write, Observe
  <2>2. DOMAIN stale' = Id /\ stale' = [i \in Id |-> stale'[i]]
    BY <2>1, Zenon
  <2>3. \A i \in Id : stale'[i] = IF i # r /\ Outdates(r, i) THEN stale[i] + 1 ELSE stale[i]
    BY <2>1, Zenon
  <2>4. \A i \in Id : stale'[i] = stale[i] + 1 \/ stale'[i] = stale[i]
    BY <2>3, Zenon
  <2>5. \A i \in Id : stale'[i] \in Nat
    BY <1>3, <2>4
  <2>6. QED
    BY <2>2, <2>3, <2>5, Zenon
<1>5. accepted' \in [Id -> Nat]
      /\ \A i \in Id : accepted'[i] = IF o \in Spending /\ i = s THEN accepted[i] + 1
                                      ELSE accepted[i]
  <2>1. accepted' = IF o \in Spending THEN [accepted EXCEPT ![s] = @ + 1] ELSE accepted
    BY <1>1, Zenon DEF Write, Observe
  <2>2. QED
    BY <1>2, <1>3, <2>1
<1>6. /\ wrong' \in [Id -> [auth : Nat, users : Nat]]
      /\ \A i \in Id : wrong'[i].auth =
           IF o \in Guessing \ {"wrongPhoneCode"} /\ i = s THEN wrong[i].auth + 1
           ELSE wrong[i].auth
      /\ \A i \in Id : wrong'[i].users =
           IF o = "wrongPhoneCode" /\ i = s THEN wrong[i].users + 1 ELSE wrong[i].users
  <2>1. wrong' = CASE o = "wrongPhoneCode" -> [wrong EXCEPT ![s].users = @ + 1]
                   [] o \in Guessing \ {"wrongPhoneCode"} -> [wrong EXCEPT ![s].auth = @ + 1]
                   [] OTHER -> wrong
    BY <1>1, Zenon DEF Write, Observe
  <2>2. CASE o = "wrongPhoneCode"
    BY <1>2, <1>3, <2>1, <2>2 DEF Guessing
  <2>3. CASE o \in Guessing \ {"wrongPhoneCode"}
    BY <1>2, <1>3, <2>1, <2>3
  <2>4. CASE o \notin Guessing
    BY <1>3, <2>1, <2>4 DEF Guessing
  <2>5. QED
    BY <2>2, <2>3, <2>4
<1>7. QED
  BY <1>1, <1>4, <1>5, <1>6

LEMMA WriteStep ==
  ASSUME TypeOK, NEW r \in Request, Write(r)
  PROVE  TypeOK'
<1>1. /\ row' \in Row /\ req' \in [Request -> Memory] /\ Saving' = Saving \ {r}
      /\ missed' \in [Request -> SUBSET Column] /\ \A q \in Request \ {r} : req'[q] = req[q]
  BY WriteRow
<1>2. {issued, ended, barred}' \subseteq BOOLEAN
  <2>1. {issued, ended, barred} \subseteq BOOLEAN
    BY DEF TypeOK
  <2>2. issued' \in BOOLEAN
    BY <2>1, Zenon DEF Write, Observe
  <2>3. ended' \in BOOLEAN
    BY <2>1, Zenon DEF Write, Observe
  <2>4. barred' \in BOOLEAN
    BY <2>1, Zenon DEF Write, Observe
  <2>5. QED
    BY <2>2, <2>3, <2>4
<1>3. stale' \in [Id -> Nat] /\ accepted' \in [Id -> Nat]
      /\ wrong' \in [Id -> [auth : Nat, users : Nat]]
  BY WriteCounts
<1>4. sentTo' \in [Id -> Emails \cup Phones \cup {NONE}]
  <2>1. req[r].local.email \in Emails /\ req[r].local.phone \in Phones
    BY DEF TypeOK, Memory, Row
  <2>2. QED
    BY <2>1, Ids DEF TypeOK, Write, Observe
<1>5. proven' \subseteq Emails \cup Phones /\ strayed' \subseteq Emails \cup Phones
  <2>1. proven' = proven \cup Certified(r) \cup {a \in Marked(r) : sentTo[req[r].secret] = a}
    BY DEF Write, Observe
  <2>2. strayed' \subseteq strayed \cup Marked(r) \cup {row'.email, row'.phone}
    BY DEF Write, Observe
  <2>3. QED
    BY <2>1, <2>2, AddressesTyped DEF TypeOK
<1>6. \A q \in Saving' : req'[q].op \in Spending \cup Guessing => req'[q].secret \in Id
  BY <1>1 DEF TypeOK, Saving
<1>7. QED
  BY <1>1, <1>2, <1>3, <1>4, <1>5, <1>6 DEF TypeOK

\* Every step but a stutter is one of these.
LEMMA Steps ==
  ASSUME TypeOK, Next
  PROVE  \E r \in Request : Validate(r) \/ Lawful(r) \/ Refuse(r) \/ Load(r) \/ Write(r)
<1>1. PICK r \in Request : Validate(r) \/ Method(r) \/ Refuse(r) \/ Load(r) \/ Write(r)
  BY DEF Next, Method
<1>2. QED
  BY <1>1, MethodLawful DEF TypeOK

LEMMA NextType == TypeOK /\ [Next]_vars => TypeOK'
<1> SUFFICES ASSUME TypeOK, [Next]_vars PROVE TypeOK'
  OBVIOUS
<1>1. CASE UNCHANGED vars
  BY <1>1 DEF vars, TypeOK, Saving
<1>2. CASE Next
  <2>1. PICK r \in Request : Validate(r) \/ Lawful(r) \/ Refuse(r) \/ Load(r) \/ Write(r)
    BY <1>2, Steps
  <2>2. CASE Lawful(r)
    BY <2>2, LawfulStep DEF Lawful
  <2>3. QED
    BY <2>1, <2>2, ValidateStep, RefuseStep, LoadStep, WriteStep
<1>3. QED
  BY <1>1, <1>2

\* Every variable of Accounts keeps its type.
THEOREM TypeCorrect == Spec => []TypeOK
<1>1. Init => TypeOK
  BY InitType
<1>2. TypeOK /\ [Next]_vars => TypeOK'
  BY NextType
<1>3. QED
  BY <1>1, <1>2, PTL DEF Spec

-----------------------------------------------------------------------------
(* The inductive invariant.  The row, and each row that a request still    *)
(* holds a copy of, has secrets that were made and marks that were given;  *)
(* a request about to save knows its row but for the columns it missed.    *)

SessionGood == ended = TRUE => row.refreshToken = NONE
DecisionGood == barred = TRUE => row.isActive = FALSE \/ row.deleted = TRUE

\* A secret that is still in the row has an acceptance left.
SecretsGood ==
  \A s \in Id :
    /\ accepted[s] <= 1 + stale[s]
    /\ s \in {row.otpCode, row.resetPasswordToken} => accepted[s] <= stale[s]

\* The attempts counted in the row are those made at its code, but for the
\* counts that began anew.
GuessesGood ==
  \A c \in Id :
    /\ wrong[c].auth <= Allowed(OtpMaxAttempts, c)
    /\ wrong[c].auth + wrong[c].users <= Allowed(LargerLimit, c)
    /\ c = row.otpCode =>
         /\ wrong[c].auth <= row.otpAttempts + (OtpMaxAttempts + 1) * stale[c]
         /\ wrong[c].auth + wrong[c].users <=
              row.otpAttempts + (LargerLimit + 1) * stale[c]

\* s was made by a request that has saved it, or by the registration.
Made(s) == s = 0 \/ (s \in Request /\ req[s].pc = "done")

SecretsKnown(b) ==
  /\ b.otpCode # NONE => Made(b.otpCode) /\ sentTo[b.otpCode] # NONE
  /\ b.resetPasswordToken # NONE =>
       Made(b.resetPasswordToken) /\ sentTo[b.resetPasswordToken] = NONE

MarksGiven(b) ==
  /\ b.emailVerified = TRUE => b.email \in proven \cup strayed
  /\ b.phoneVerified = TRUE => b.phone \in proven \cup strayed

\* The secret of a request that has not saved is nowhere yet.
Fresh(r) ==
  req[r].pc # "done" =>
    /\ accepted[r] = 0 /\ wrong[r].auth = 0 /\ wrong[r].users = 0 /\ sentTo[r] = NONE

\* r read row b, which differs from the present one in the columns it missed.
ReadFrom(r, b) ==
  /\ Effect(r, req[r].op, b, req[r].local, req[r].secret, req[r].given)
  /\ SecretsKnown(b) /\ MarksGiven(b)
  /\ \A c \in Column \ missed[r] : b[c] = row[c]
  /\ req[r].pc = "write" =>
       /\ \A c \in Column \ (missed[r] \cup req[r].diff) : req[r].local[c] = row[c]
       /\ req[r].op = "deleteUser" => req[r].diff = {"deleted"}
Prepared(r) == \E b \in Row : ReadFrom(r, b)

Good ==
  /\ SessionGood /\ DecisionGood /\ SecretsGood /\ GuessesGood
  /\ SecretsKnown(row) /\ MarksGiven(row)
  /\ \A r \in Request : Fresh(r)
  /\ \A r \in Saving : Prepared(r)

IInv == TypeOK /\ Good /\ \A r \in Request \ Saving : missed[r] = {}

LEMMA InitGood == Init => IInv
<1> SUFFICES ASSUME Init PROVE IInv
  OBVIOUS
<1>1. TypeOK
  BY InitType
<1>2. row \in {Registered, LoggedIn} /\ row \in Row
  BY <1>1 DEF Init, TypeOK
<1>3. Saving = {}
  BY DEF Init, Saving, Idle
<1>4. SessionGood /\ DecisionGood
  BY Zenon DEF Init, SessionGood, DecisionGood
<1>5. SecretsGood
  <2>1. row = LoggedIn => row.otpCode = NONE /\ row.resetPasswordToken = NONE
    BY RowsTyped
  <2>2. 0 # NONE
    BY Ids
  <2>3. ASSUME NEW s \in Id
        PROVE  /\ stale[s] = 0 /\ accepted[s] \in {0, 1}
               /\ accepted[s] = 1 => row = LoggedIn /\ s = 0
    BY DEF Init
  <2>4. QED
    BY <2>1, <2>2, <2>3 DEF SecretsGood
<1>6. GuessesGood
  <2>1. \A c \in Id : wrong[c].auth = 0 /\ wrong[c].users = 0 /\ stale[c] = 0
    BY DEF Init
  <2>2. row.otpAttempts \in Nat
    BY <1>2 DEF Row
  <2>3. QED
    BY <2>1, <2>2, Ids DEF GuessesGood, Allowed
<1>7. SecretsKnown(row)
  <2>1. row.resetPasswordToken = NONE /\ row.otpCode \in {0, NONE}
    BY <1>2, RowsTyped
  <2>2. sentTo[0] = row.email /\ row.email # NONE
    BY <1>2, Ids, InputsAssumption DEF Init, Row
  <2>3. QED
    BY <2>1, <2>2 DEF SecretsKnown, Made
<1>8. MarksGiven(row)
  <2>1. row = LoggedIn => proven = {row.email}
    BY DEF Init
  <2>2. QED
    BY <1>2, <2>1, RowsTyped DEF MarksGiven
<1>9. \A r \in Request : Fresh(r) /\ missed[r] = {}
  BY BoundsAssumption DEF Init, Fresh, Request, Id
<1>10. QED
  BY <1>1, <1>3, <1>4, <1>5, <1>6, <1>7, <1>8, <1>9 DEF IInv, Good

\* Before a save nothing changes but what one request holds in memory.
LEMMA GoodBeforeSave ==
  ASSUME IInv, NEW r \in Request, UNCHANGED <<row, missed, Observers>>,
         \A q \in Request \ {r} : req'[q] = req[q],
         req[r].pc # "done", Saving \ {r} = Saving' \ {r}, r \in Saving => r \in Saving',
         r \in Saving' => Prepared(r)'
  PROVE  Good' /\ \A q \in Request \ Saving' : missed'[q] = {}
<1>1. (SessionGood /\ DecisionGood /\ SecretsGood /\ GuessesGood /\ MarksGiven(row))'
  BY DEF IInv, Good, SessionGood, DecisionGood, SecretsGood, GuessesGood, Allowed,
         MarksGiven, Observers
<1>2. \A q \in Request : Fresh(q)'
  BY DEF IInv, Good, Fresh, Observers
<1>3. ASSUME NEW s, Made(s) PROVE Made(s)'
  BY <1>3 DEF Made
<1>4. ASSUME NEW b \in Row, SecretsKnown(b), MarksGiven(b)
      PROVE  SecretsKnown(b)' /\ MarksGiven(b)'
  BY <1>3, <1>4 DEF SecretsKnown, MarksGiven, Observers
<1>5. SecretsKnown(row)'
  BY <1>3 DEF IInv, Good, SecretsKnown, Observers
<1>6. ASSUME NEW q \in Saving' PROVE Prepared(q)'
  <2>1. CASE q = r
    BY <1>6, <2>1
  <2>2. CASE q # r
    <3>1. q \in Request /\ q \in Saving /\ req'[q] = req[q] /\ row' = row /\ missed' = missed
      BY <1>6, <2>2 DEF Saving
    <3>2. PICK b \in Row : ReadFrom(q, b)
      BY <3>1 DEF IInv, Good, Prepared
    <3>3. ReadFrom(q, b)'
      BY <1>4, <3>1, <3>2 DEF ReadFrom, Effect, TokensEffect, DecisionsEffect, CodesEffect,
                              MarksEffect
    <3>4. QED
      BY <3>3 DEF Prepared, Row
  <2>3. QED
    BY <2>1, <2>2
<1>7. \A q \in Request \ Saving' : missed'[q] = {}
  BY DEF IInv
<1>8. QED
  BY <1>1, <1>2, <1>5, <1>6, <1>7 DEF Good

-----------------------------------------------------------------------------
(* A save.                                                                 *)

\* What a save of r, which read b, leaves in each column.
Saved(r, b) ==
  \A c \in Column :
    /\ c \in req[r].diff => row'[c] = req[r].local[c]
    /\ c \notin req[r].diff => row'[c] = row[c]
    /\ c \notin missed[r] => b[c] = row[c] /\ row'[c] = req[r].local[c]

LEMMA SaveFacts ==
  ASSUME TypeOK, NEW r \in Request, Write(r), NEW b \in Row, ReadFrom(r, b)
  PROVE  Saved(r, b)
BY WriteRow DEF Saved, ReadFrom

LEMMA SessionSaved ==
  ASSUME IInv, NEW r \in Request, Write(r), NEW b \in Row, ReadFrom(r, b)
  PROVE  SessionGood'
<1> DEFINE o == req[r].op
           c == "refreshToken"
<1>1. ended' = \/ o \in Revoking /\ c \notin missed[r] \ req[r].diff
               \/ ended /\ o # "login" /\ ~Overwrites(r, c)
  BY Zenon DEF Write, Observe
<1>2. Saved(r, b) /\ c \in Column /\ TokensEffect(o, b, req[r].local)
  BY SaveFacts DEF IInv, Column, ReadFrom, Effect
<1>3. SUFFICES ASSUME ended' = TRUE PROVE row'.refreshToken = NONE
  BY DEF SessionGood
<1>4. CASE o \in Revoking /\ c \notin missed[r] \ req[r].diff
  BY <1>2, <1>4 DEF Saved, TokensEffect
<1>5. CASE ended /\ o # "login" /\ ~Overwrites(r, c)
  <2>1. ended = TRUE
    BY <1>5 DEF IInv, TypeOK
  <2>2. row.refreshToken = NONE
    BY <2>1 DEF IInv, Good, SessionGood
  <2>3. CASE c \in req[r].diff
    <3>1. c \notin missed[r]
      BY <1>5, <2>3 DEF Overwrites
    <3>2. b.refreshToken = NONE /\ row'.refreshToken = req[r].local.refreshToken
      BY <1>2, <2>2, <3>1 DEF Saved
    <3>3. o # "refresh"
      BY <1>2, <3>2 DEF TokensEffect
    <3>4. QED
      BY <1>2, <1>5, <3>2, <3>3 DEF TokensEffect
  <2>4. CASE c \notin req[r].diff
    BY <1>2, <2>2, <2>4 DEF Saved
  <2>5. QED
    BY <2>3, <2>4
<1>6. QED
  BY <1>1, <1>3, <1>4, <1>5

\* The decision, and that no login or refresh passes it by.
LEMMA DecisionSaved ==
  ASSUME IInv, NEW r \in Request, Write(r), NEW b \in Row, ReadFrom(r, b)
  PROVE  /\ DecisionGood'
         /\ barred = TRUE /\ barred' = TRUE => req[r].op \notin {"login", "refresh"}
<1> DEFINE o == req[r].op
           e == req[r].local
<1>1. barred' = \/ Bars(r) /\ (o = "deleteUser" \/ "isActive" \notin missed[r] \ req[r].diff)
                \/ /\ barred /\ ~Admits(r)
                   /\ ~Overwrites(r, "isActive") /\ ~Overwrites(r, "deleted")
                   /\ o \in {"login", "refresh"} => missed[r] \cap {"isActive", "deleted"} = {}
  BY Zenon DEF Write, Observe
<1>2. /\ Saved(r, b) /\ {"isActive", "deleted"} \subseteq Column
      /\ TokensEffect(o, b, e) /\ DecisionsEffect(o, b, e, req[r].given)
  BY SaveFacts DEF IInv, Column, ReadFrom, Effect
<1>3. row \in Row /\ row' \in Row /\ e \in Row /\ req[r].pc = "write"
  BY WriteRow DEF IInv, TypeOK, Memory
<1>4. /\ row.isActive \in BOOLEAN /\ row.deleted \in BOOLEAN
      /\ e.isActive \in BOOLEAN /\ e.deleted \in BOOLEAN
  BY <1>3 DEF Row
<1>5. o = "deleteUser" => req[r].diff = {"deleted"}
  BY <1>3 DEF ReadFrom
<1>6. CASE Bars(r) /\ (o = "deleteUser" \/ "isActive" \notin missed[r] \ req[r].diff)
  <2>1. o = "deleteUser" => row'.deleted = TRUE
    BY <1>2, <1>5 DEF Saved, DecisionsEffect
  <2>2. o # "deleteUser" => e.isActive = FALSE /\ row'.isActive = e.isActive
    <3>1. o # "deleteUser" => ~e.isActive
      BY <1>6 DEF Bars
    <3>2. QED
      BY <1>2, <1>4, <1>6, <3>1 DEF Saved
  <2>3. DecisionGood'
    BY <2>1, <2>2 DEF DecisionGood
  <2>4. o \notin {"login", "refresh"}
    BY <1>6 DEF Bars, ReadFrom, Effect, DecisionsEffect
  <2>5. QED
    BY <2>3, <2>4
<1>7. CASE /\ barred /\ ~Admits(r)
           /\ ~Overwrites(r, "isActive") /\ ~Overwrites(r, "deleted")
           /\ o \in {"login", "refresh"} => missed[r] \cap {"isActive", "deleted"} = {}
           /\ ~(Bars(r) /\ (o = "deleteUser" \/ "isActive" \notin missed[r] \ req[r].diff))
  <2>1. row.isActive = FALSE \/ row.deleted = TRUE
    <3>1. barred = TRUE
      BY <1>7 DEF IInv, TypeOK
    <3>2. QED
      BY <3>1 DEF IInv, Good, DecisionGood
  <2>2. o # "deleteUser"
    BY <1>7 DEF Bars
  <2>3. e.deleted = b.deleted
    BY <1>2, <2>2 DEF DecisionsEffect
  <2>4. row'.deleted = row.deleted
    BY <1>2, <1>7, <2>3 DEF Saved, Overwrites
  <2>5. row'.isActive = row.isActive
    <3>1. CASE o = "toggleActive" \/ "isActive" \in req[r].given
      <4>1. ~e.isActive
        BY <1>7, <3>1 DEF Admits
      <4>2. "isActive" \in missed[r] \ req[r].diff
        BY <1>7, <3>1, <4>1 DEF Bars
      <4>3. QED
        BY <1>2, <4>2 DEF Saved
    <3>2. CASE ~(o = "toggleActive" \/ "isActive" \in req[r].given)
      <4>1. e.isActive = b.isActive
        BY <1>2, <3>2 DEF DecisionsEffect
      <4>2. QED
        BY <1>2, <1>7, <4>1 DEF Saved, Overwrites
    <3>3. QED
      BY <3>1, <3>2
  <2>6. DecisionGood'
    BY <2>1, <2>4, <2>5 DEF DecisionGood
  <2>7. o \notin {"login", "refresh"}
    BY <1>2, <1>7, <2>1 DEF Saved, TokensEffect
  <2>8. QED
    BY <2>6, <2>7
<1>8. CASE ~barred'
  <2>1. barred' # TRUE
    BY <1>8
  <2>2. QED
    BY <2>1 DEF DecisionGood
<1>9. QED
  BY <1>1, <1>6, <1>7, <1>8

\* The secrets a request knows of are those of others, which were made; it makes
\* its own.
LEMMA SecretsOf ==
  ASSUME IInv, NEW r \in Request, Write(r), NEW b \in Row, ReadFrom(r, b)
  PROVE  /\ r \in Id /\ r # 0 /\ ~Made(r) /\ ~Made(NONE)
         /\ \A x \in {row, b} : /\ x.otpCode \in Secret /\ x.resetPasswordToken \in Secret
                                /\ x.otpCode # r /\ x.resetPasswordToken # r
                                /\ x.otpCode # NONE => x.otpCode # x.resetPasswordToken
         /\ row.otpCode # NONE => row.otpCode # b.resetPasswordToken
         /\ row.resetPasswordToken # NONE => row.resetPasswordToken # b.otpCode
         /\ accepted[r] = 0 /\ wrong[r].auth = 0 /\ wrong[r].users = 0 /\ sentTo[r] = NONE
<1>1. r \in Id /\ r # 0
  BY Ids, BoundsAssumption DEF Request
<1>2. req[r].pc = "write"
  BY DEF Write
<1>3. NONE \notin Request /\ NONE # 0
  BY Ids DEF Request
<1>4. ~Made(r) /\ ~Made(NONE)
  BY <1>1, <1>2, <1>3 DEF Made
<1>5. SecretsKnown(row) /\ SecretsKnown(b) /\ row \in Row
  BY DEF IInv, Good, TypeOK, ReadFrom
<1>6. Fresh(r)
  BY DEF IInv, Good
<1>7. /\ row.otpCode \in Secret /\ row.resetPasswordToken \in Secret
      /\ b.otpCode \in Secret /\ b.resetPasswordToken \in Secret
  BY <1>5 DEF Row
<1>8. NONE # r
  BY <1>1, Ids
<1>9. QED
  BY <1>1, <1>2, <1>4, <1>5, <1>6, <1>7, <1>8 DEF SecretsKnown, Fresh

LEMMA SecretsSaved ==
  ASSUME IInv, NEW r \in Request, Write(r), NEW b \in Row, ReadFrom(r, b)
  PROVE  SecretsGood'
<1> DEFINE o == req[r].op
           e == req[r].local
           t == req[r].secret
<1>1. /\ Saved(r, b) /\ CodesEffect(r, o, b, e, t)
      /\ {"otpCode", "otpAttempts", "resetPasswordToken"} \subseteq Column
  BY SaveFacts DEF IInv, Column, ReadFrom, Effect
<1>2. SUFFICES ASSUME NEW s \in Id
               PROVE  /\ accepted'[s] <= 1 + stale'[s]
                      /\ s = row'.otpCode => accepted'[s] <= stale'[s]
                      /\ s = row'.resetPasswordToken => accepted'[s] <= stale'[s]
  BY DEF SecretsGood
<1>3. /\ accepted'[s] = IF o \in Spending /\ s = t THEN accepted[s] + 1 ELSE accepted[s]
      /\ stale'[s] = IF s # r /\ Outdates(r, s) THEN stale[s] + 1 ELSE stale[s]
      /\ accepted[s] \in Nat /\ stale[s] \in Nat
  BY WriteCounts DEF IInv, TypeOK
<1>4. /\ accepted[s] <= 1 + stale[s]
      /\ s = row.otpCode => accepted[s] <= stale[s]
      /\ s = row.resetPasswordToken => accepted[s] <= stale[s]
  BY DEF IInv, Good, SecretsGood
<1>5. /\ r # b.otpCode /\ r # b.resetPasswordToken /\ accepted[r] = 0
      /\ s # NONE /\ (b.otpCode = s => b.resetPasswordToken # s)
      /\ (row.otpCode = s => b.resetPasswordToken # s /\ row.resetPasswordToken # s)
      /\ (row.resetPasswordToken = s => b.otpCode # s)
  BY SecretsOf, Ids
<1>6. CASE s = r
  <2>1. ~(o \in Spending /\ s = t)
    BY <1>1, <1>5, <1>6 DEF CodesEffect
  <2>2. QED
    BY <1>3, <1>5, <1>6, <2>1
<1>7. CASE s # r /\ o \in Spending /\ s = t
  <2>1. CASE o = "resetPassword"
    <3>1. s = b.resetPasswordToken /\ e.resetPasswordToken = NONE
      BY <1>1, <1>7, <2>1 DEF CodesEffect
    <3>2. s # row'.otpCode
      BY <1>1, <1>5, <1>7, <3>1 DEF Saved, CodesEffect
    <3>3. CASE "resetPasswordToken" \in missed[r]
      <4>1. stale'[s] = stale[s] + 1
        BY <1>3, <1>7, <2>1, <3>3 DEF Outdates
      <4>2. s = row'.resetPasswordToken => s = row.resetPasswordToken
        BY <1>1, <1>5, <3>1 DEF Saved
      <4>3. QED
        BY <1>3, <1>4, <1>7, <3>2, <4>1, <4>2
    <3>4. CASE "resetPasswordToken" \notin missed[r]
      <4>1. row.resetPasswordToken = s /\ row'.resetPasswordToken = NONE
        BY <1>1, <3>1, <3>4 DEF Saved
      <4>2. QED
        BY <1>3, <1>4, <1>5, <3>2, <4>1
    <3>5. QED
      BY <3>3, <3>4
  <2>2. CASE o # "resetPassword"
    <3>1. s = b.otpCode /\ e.otpCode = NONE
      BY <1>1, <1>7, <2>2 DEF CodesEffect
    <3>2. s # row'.resetPasswordToken
      BY <1>1, <1>5, <1>7, <3>1 DEF Saved, CodesEffect
    <3>3. CASE "otpCode" \in missed[r]
      <4>1. stale'[s] = stale[s] + 1
        BY <1>3, <1>7, <2>2, <3>3 DEF Outdates, OtpColumns
      <4>2. s = row'.otpCode => s = row.otpCode
        BY <1>1, <1>5, <3>1 DEF Saved
      <4>3. QED
        BY <1>3, <1>4, <1>7, <3>2, <4>1, <4>2
    <3>4. CASE "otpCode" \notin missed[r]
      <4>1. row.otpCode = s /\ row'.otpCode = NONE
        BY <1>1, <3>1, <3>4 DEF Saved
      <4>2. QED
        BY <1>3, <1>4, <1>5, <3>2, <4>1
    <3>5. QED
      BY <3>3, <3>4
  <2>3. QED
    BY <2>1, <2>2
<1>8. CASE s # r /\ ~(o \in Spending /\ s = t)
  <2>1. s = row'.otpCode => s = row.otpCode \/ stale'[s] = stale[s] + 1
    <3>1. SUFFICES ASSUME s = row'.otpCode, s # row.otpCode PROVE Outdates(r, s)
      BY <1>3, <1>8
    <3>2. "otpCode" \in req[r].diff /\ e.otpCode = s
      BY <1>1, <3>1 DEF Saved
    <3>3. b.otpCode = s
      BY <1>1, <1>5, <1>8, <3>2 DEF CodesEffect
    <3>4. "otpCode" \in missed[r]
      BY <1>1, <3>1, <3>3 DEF Saved
    <3>5. QED
      BY <3>1, <3>2, <3>4 DEF Outdates, OtpColumns
  <2>2. s = row'.resetPasswordToken => s = row.resetPasswordToken \/ stale'[s] = stale[s] + 1
    <3>1. SUFFICES ASSUME s = row'.resetPasswordToken, s # row.resetPasswordToken
                   PROVE  Outdates(r, s)
      BY <1>3, <1>8
    <3>2. "resetPasswordToken" \in req[r].diff /\ e.resetPasswordToken = s
      BY <1>1, <3>1 DEF Saved
    <3>3. b.resetPasswordToken = s
      BY <1>1, <1>5, <1>8, <3>2 DEF CodesEffect
    <3>4. "resetPasswordToken" \in missed[r]
      BY <1>1, <3>1, <3>3 DEF Saved
    <3>5. QED
      BY <3>1, <3>2, <3>4 DEF Outdates
  <2>3. QED
    BY <1>3, <1>4, <1>8, <2>1, <2>2
<1>9. QED
  BY <1>6, <1>7, <1>8

\* One more count from the beginning.
LEMMA AnotherCount ==
  ASSUME NEW limit \in Nat, NEW n \in Nat, NEW m \in {n, n + 1}
  PROVE  /\ (limit + 1) * n \in Nat
         /\ m = n => (limit + 1) * m = (limit + 1) * n
         /\ m = n + 1 => (limit + 1) * m = (limit + 1) * n + limit + 1
<1>1. (limit + 1) * n \in Nat
  OBVIOUS
<1>2. (limit + 1) * (n + 1) = (limit + 1) * n + limit + 1
  OBVIOUS
<1>3. QED
  BY <1>1, <1>2

LEMMA GuessesSaved ==
  ASSUME IInv, NEW r \in Request, Write(r), NEW b \in Row, ReadFrom(r, b)
  PROVE  GuessesGood'
<1> DEFINE o == req[r].op
           e == req[r].local
           t == req[r].secret
<1>1. /\ Saved(r, b) /\ CodesEffect(r, o, b, e, t)
      /\ {"otpCode", "otpAttempts", "resetPasswordToken"} \subseteq Column
  BY SaveFacts DEF IInv, Column, ReadFrom, Effect
<1>2. SUFFICES ASSUME NEW c \in Id
               PROVE  /\ wrong'[c].auth <= OtpMaxAttempts + (OtpMaxAttempts + 1) * stale'[c]
                      /\ wrong'[c].auth + wrong'[c].users <=
                           LargerLimit + (LargerLimit + 1) * stale'[c]
                      /\ c = row'.otpCode =>
                           /\ wrong'[c].auth <=
                                row'.otpAttempts + (OtpMaxAttempts + 1) * stale'[c]
                           /\ wrong'[c].auth + wrong'[c].users <=
                                row'.otpAttempts + (LargerLimit + 1) * stale'[c]
  BY DEF GuessesGood, Allowed
<1>3. PICK n, n1 : n = stale[c] /\ n1 = stale'[c]
  OBVIOUS
<1>4. PICK a, u, a1, u1 : /\ a = wrong[c].auth /\ u = wrong[c].users
                          /\ a1 = wrong'[c].auth /\ u1 = wrong'[c].users
  OBVIOUS
<1>5. PICK p, q, p1, q1 :
        /\ p = (OtpMaxAttempts + 1) * n /\ q = (LargerLimit + 1) * n
        /\ p1 = (OtpMaxAttempts + 1) * n1 /\ q1 = (LargerLimit + 1) * n1
  OBVIOUS
<1>6. PICK k, k1 : k = row.otpAttempts /\ k1 = row'.otpAttempts
  OBVIOUS
<1>7. /\ n1 = IF c # r /\ Outdates(r, c) THEN n + 1 ELSE n
      /\ a1 = IF o \in Guessing \ {"wrongPhoneCode"} /\ c = t THEN a + 1 ELSE a
      /\ u1 = IF o = "wrongPhoneCode" /\ c = t THEN u + 1 ELSE u
      /\ n \in Nat /\ a \in Nat /\ u \in Nat
  BY <1>3, <1>4, WriteCounts DEF IInv, TypeOK
<1>8. /\ p \in Nat /\ q \in Nat
      /\ n1 = n + 1 => p1 = p + OtpMaxAttempts + 1 /\ q1 = q + LargerLimit + 1
      /\ n1 = n => p1 = p /\ q1 = q
  <2>1. n1 \in {n, n + 1} /\ n \in Nat
    BY <1>7
  <2>2. /\ p \in Nat
        /\ n1 = n + 1 => p1 = p + OtpMaxAttempts + 1
        /\ n1 = n => p1 = p
    BY <1>5, <2>1, Ids, AnotherCount
  <2>3. /\ q \in Nat
        /\ n1 = n + 1 => q1 = q + LargerLimit + 1
        /\ n1 = n => q1 = q
    BY <1>5, <2>1, Ids, AnotherCount
  <2>4. QED
    BY <2>2, <2>3
<1>9. /\ a <= OtpMaxAttempts + p /\ a + u <= LargerLimit + q
      /\ c = row.otpCode => a <= k + p /\ a + u <= k + q
  BY <1>3, <1>4, <1>5, <1>6 DEF IInv, Good, GuessesGood, Allowed
<1>10. k \in Nat /\ k1 \in Nat
  BY <1>6, WriteRow DEF IInv, TypeOK, Row
<1>11. r # b.otpCode /\ wrong[r].auth = 0 /\ wrong[r].users = 0 /\ c # NONE
  BY SecretsOf, Ids
<1>12. SUFFICES /\ a1 <= OtpMaxAttempts + p1 /\ a1 + u1 <= LargerLimit + q1
                /\ c = row'.otpCode => a1 <= k1 + p1 /\ a1 + u1 <= k1 + q1
  BY <1>3, <1>4, <1>5, <1>6
<1>13. CASE o \in Guessing /\ c = t
  <2>1. /\ c = b.otpCode /\ e.otpCode = c /\ e.otpAttempts = b.otpAttempts + 1
        /\ e.otpAttempts <= PlaceLimit(o)
    BY <1>1, <1>13 DEF CodesEffect
  <2>2. /\ a1 + u1 = a + u + 1
        /\ o # "wrongPhoneCode" => a1 = a + 1
        /\ o = "wrongPhoneCode" => a1 = a
    BY <1>7, <1>13 DEF Guessing
  <2>3. CASE missed[r] \cap OtpColumns = {}
    <3>1. /\ c = row.otpCode /\ row'.otpCode = c
          /\ k1 = e.otpAttempts /\ k = b.otpAttempts
      BY <1>1, <1>6, <2>1, <2>3 DEF Saved, OtpColumns
    <3>2. PlaceLimit(o) = IF o = "wrongPhoneCode" THEN PhoneMaxAttempts ELSE OtpMaxAttempts
      BY DEF PlaceLimit
    <3>3. p1 >= p /\ q1 >= q /\ p1 \in Nat /\ q1 \in Nat
      BY <1>7, <1>8, Ids
    <3>4. QED
      BY <1>7, <1>8, <1>9, <1>10, <2>1, <2>2, <3>1, <3>2, <3>3, Ids
  <2>4. CASE missed[r] \cap OtpColumns # {}
    <3>1. Outdates(r, c)
      BY <1>13, <2>4 DEF Outdates, Guessing
    <3>2. n1 = n + 1
      BY <1>7, <1>11, <2>1, <3>1
    <3>3. QED
      BY <1>7, <1>8, <1>9, <1>10, <2>2, <3>2, Ids
  <2>5. QED
    BY <2>3, <2>4
<1>14. CASE ~(o \in Guessing /\ c = t)
  <2>1. a1 = a /\ u1 = u
    BY <1>7, <1>14 DEF Guessing
  <2>2. CASE n1 = n + 1
    BY <1>7, <1>8, <1>9, <1>10, <2>1, <2>2, Ids
  <2>3. CASE n1 = n
    <3>1. ASSUME c = row'.otpCode PROVE a <= k1 + p /\ a + u <= k1 + q
      <4>1. CASE c = r
        BY <1>4, <1>7, <1>8, <1>10, <1>11, <4>1
      <4>2. CASE c # r
        <5>1. ~Outdates(r, c)
          BY <1>7, <2>3, <4>2
        <5>2. CASE missed[r] \cap OtpColumns = {}
          <6>1. /\ e.otpCode = c /\ b.otpCode = row.otpCode
                /\ k1 = e.otpAttempts /\ k = b.otpAttempts
            BY <1>1, <1>6, <3>1, <5>2 DEF Saved, OtpColumns
          <6>2. b.otpCode = c
            BY <1>1, <1>11, <4>2, <6>1 DEF CodesEffect
          <6>3. o \notin Guessing
            BY <1>1, <1>14, <6>2 DEF CodesEffect
          <6>4. e.otpAttempts = b.otpAttempts
            BY <1>1, <1>11, <4>2, <6>1, <6>2, <6>3 DEF CodesEffect
          <6>5. QED
            BY <1>9, <6>1, <6>2, <6>4
        <5>3. CASE missed[r] \cap OtpColumns # {}
          <6>1. req[r].diff \cap OtpColumns = {}
            BY <3>1, <5>1, <5>3 DEF Outdates
          <6>2. row'.otpCode = row.otpCode /\ k1 = k
            BY <1>1, <1>6, <6>1 DEF Saved, OtpColumns
          <6>3. QED
            BY <1>9, <3>1, <6>2
        <5>4. QED
          BY <5>2, <5>3
      <4>3. QED
        BY <4>1, <4>2
    <3>2. QED
      BY <1>8, <1>9, <2>1, <2>3, <3>1
  <2>4. QED
    BY <1>7, <2>2, <2>3
<1>15. QED
  BY <1>13, <1>14


\* The marks that r would save belong to the addresses it would save.
LEMMA OwnMarks ==
  ASSUME IInv, NEW r \in Request, Write(r), NEW b \in Row, ReadFrom(r, b)
  PROVE  LET e == req[r].local
         IN  /\ proven \subseteq proven' /\ strayed \subseteq strayed'
             /\ e.emailVerified = TRUE => e.email \in proven' \cup strayed'
             /\ e.phoneVerified = TRUE => e.phone \in proven' \cup strayed'
<1> DEFINE o == req[r].op
           e == req[r].local
<1>1. PICK s : s = req[r].secret
  OBVIOUS
<1>2. proven' = proven \cup Certified(r) \cup {a \in Marked(r) : sentTo[s] = a}
  BY <1>1 DEF Write, Observe
<1>3. /\ strayed \subseteq strayed'
      /\ {a \in Marked(r) : sentTo[s] # a} \subseteq strayed'
  BY <1>1 DEF Write, Observe
<1>4. Marked(r) \cup Certified(r) \subseteq proven' \cup strayed'
  BY <1>2, <1>3
<1>5. MarksEffect(o, b, e, req[r].given) /\ MarksGiven(b)
  BY DEF ReadFrom, Effect
<1>6. ASSUME e.emailVerified = TRUE PROVE e.email \in proven' \cup strayed'
  <2>1. CASE b.emailVerified = TRUE /\ e.email = b.email
    BY <1>2, <1>3, <1>5, <2>1 DEF MarksGiven
  <2>2. CASE o = "verifyEmail"
    BY <1>4, <2>2 DEF Marked
  <2>3. CASE "emailVerified" \in req[r].given
    BY <1>4, <1>6, <2>3 DEF Certified
  <2>4. QED
    BY <1>5, <1>6, <2>1, <2>2, <2>3 DEF MarksEffect
<1>7. ASSUME e.phoneVerified = TRUE PROVE e.phone \in proven' \cup strayed'
  <2>1. CASE b.phoneVerified = TRUE /\ e.phone = b.phone
    BY <1>2, <1>3, <1>5, <2>1 DEF MarksGiven
  <2>2. CASE o = "verifyPhone"
    BY <1>4, <2>2 DEF Marked
  <2>3. CASE "phoneVerified" \in req[r].given
    BY <1>4, <1>7, <2>3 DEF Certified
  <2>4. QED
    BY <1>5, <1>7, <2>1, <2>2, <2>3 DEF MarksEffect
<1>8. QED
  BY <1>2, <1>3, <1>6, <1>7

\* A mark comes with its address, or the pair is torn.
LEMMA MarksSaved ==
  ASSUME IInv, NEW r \in Request, Write(r), NEW b \in Row, ReadFrom(r, b)
  PROVE  MarksGiven(row)'
<1> DEFINE e == req[r].local
           torn == (IF Torn(r, "email", "emailVerified") THEN {row'.email} ELSE {})
                   \cup (IF Torn(r, "phone", "phoneVerified") THEN {row'.phone} ELSE {})
<1>1. torn \subseteq strayed'
  BY DEF Write, Observe
<1>2. Saved(r, b) /\ {"email", "emailVerified", "phone", "phoneVerified"} \subseteq Column
  BY SaveFacts DEF IInv, Column
<1>3. /\ proven \subseteq proven' /\ strayed \subseteq strayed'
      /\ e.emailVerified = TRUE => e.email \in proven' \cup strayed'
      /\ e.phoneVerified = TRUE => e.phone \in proven' \cup strayed'
  BY OwnMarks
<1>4. MarksGiven(row)
  BY DEF IInv, Good
<1>5. ASSUME row'.emailVerified = TRUE PROVE row'.email \in proven' \cup strayed'
  <2>1. CASE Torn(r, "email", "emailVerified")
    BY <1>1, <2>1
  <2>2. CASE row'.email = e.email /\ row'.emailVerified = e.emailVerified
    BY <1>3, <1>5, <2>2
  <2>3. CASE row'.email = row.email /\ row'.emailVerified = row.emailVerified
    BY <1>3, <1>4, <1>5, <2>3 DEF MarksGiven
  <2>4. QED
    BY <1>2, <1>5, <2>1, <2>2, <2>3 DEF Saved, Torn
<1>6. ASSUME row'.phoneVerified = TRUE PROVE row'.phone \in proven' \cup strayed'
  <2>1. CASE Torn(r, "phone", "phoneVerified")
    BY <1>1, <2>1
  <2>2. CASE row'.phone = e.phone /\ row'.phoneVerified = e.phoneVerified
    BY <1>3, <1>6, <2>2
  <2>3. CASE row'.phone = row.phone /\ row'.phoneVerified = row.phoneVerified
    BY <1>3, <1>4, <1>6, <2>3 DEF MarksGiven
  <2>4. QED
    BY <1>2, <1>6, <2>1, <2>2, <2>3 DEF Saved, Torn
<1>7. QED
  BY <1>5, <1>6 DEF MarksGiven

\* The codes that were sent, and those that were made.
LEMMA SentSaved ==
  ASSUME IInv, NEW r \in Request, Write(r)
  PROVE  /\ \A i \in Id \ {r} : sentTo'[i] = sentTo[i]
         /\ req[r].op \in NewCode => sentTo'[r] # NONE
         /\ req[r].op \notin NewCode => sentTo'[r] = NONE
         /\ Made(r)' /\ \A i : Made(i) => Made(i)' /\ i # r
<1>1. req'[r].pc = "done" /\ req[r].pc = "write" /\ \A q \in Request \ {r} : req'[q] = req[q]
  BY WriteRow DEF IInv
<1>2. Made(r)' /\ \A i : Made(i) => Made(i)' /\ i # r
  BY <1>1, BoundsAssumption DEF Made, Request
<1>3. PICK a : a = IF req[r].op = "sendPhoneOtp" THEN req[r].local.phone
                   ELSE req[r].local.email
  OBVIOUS
<1>4. sentTo' = IF req[r].op \notin NewCode THEN sentTo ELSE [sentTo EXCEPT ![r] = a]
  BY <1>3 DEF Write, Observe
<1>5. a # NONE
  <2>1. req[r].local.email \in Emails /\ req[r].local.phone \in Phones
    BY DEF IInv, TypeOK, Memory, Row
  <2>2. QED
    BY <1>3, <2>1, InputsAssumption
<1>6. sentTo[r] = NONE
  BY <1>1 DEF IInv, Good, Fresh
<1>7. sentTo \in [Id -> Emails \cup Phones \cup {NONE}] /\ r \in Id
  BY Ids DEF IInv, TypeOK
<1>8. QED
  BY <1>2, <1>4, <1>5, <1>6, <1>7

\* What is known of a row stays known.
LEMMA KnownSaved ==
  ASSUME IInv, NEW r \in Request, Write(r), NEW b \in Row, ReadFrom(r, b)
  PROVE  /\ \A x \in Row : SecretsKnown(x) /\ MarksGiven(x) =>
                             SecretsKnown(x)' /\ MarksGiven(x)'
         /\ SecretsKnown(row)'
<1>1. /\ \A i \in Id \ {r} : sentTo'[i] = sentTo[i]
      /\ req[r].op \in NewCode => sentTo'[r] # NONE
      /\ req[r].op \notin NewCode => sentTo'[r] = NONE
      /\ Made(r)' /\ \A i : Made(i) => Made(i)' /\ i # r
  BY SentSaved
<1>2. ASSUME NEW x \in Row, NEW i \in {x.otpCode, x.resetPasswordToken}, i # NONE
      PROVE  i \in Id
  BY <1>2 DEF Row, Secret
<1>3. ASSUME NEW x \in Row, SecretsKnown(x), MarksGiven(x)
      PROVE  SecretsKnown(x)' /\ MarksGiven(x)'
  <2>1. SecretsKnown(x)'
    BY <1>1, <1>2, <1>3 DEF SecretsKnown
  <2>2. MarksGiven(x)'
    BY <1>3, OwnMarks DEF MarksGiven
  <2>3. QED
    BY <2>1, <2>2
<1>4. SecretsKnown(row)'
  <2>1. /\ Saved(r, b) /\ {"otpCode", "resetPasswordToken"} \subseteq Column
        /\ CodesEffect(r, req[r].op, b, req[r].local, req[r].secret)
        /\ SecretsKnown(b) /\ SecretsKnown(row) /\ row \in Row
    BY SaveFacts DEF IInv, Good, TypeOK, Column, ReadFrom, Effect
  <2>2. /\ row'.otpCode \notin {row.otpCode, b.otpCode, NONE} =>
             row'.otpCode = r /\ req[r].op \in NewCode
        /\ row'.resetPasswordToken \notin {row.resetPasswordToken, b.resetPasswordToken, NONE} =>
             row'.resetPasswordToken = r /\ req[r].op = "forgotPassword"
    BY <2>1 DEF Saved, CodesEffect
  <2>3. PICK x, y : x = row'.otpCode /\ y = row'.resetPasswordToken
    OBVIOUS
  <2>4. ASSUME x # NONE PROVE Made(x)' /\ sentTo'[x] # NONE
    <3>1. CASE x \in {row.otpCode, b.otpCode}
      <4>1. Made(x) /\ sentTo[x] # NONE /\ x \in Id
        BY <1>2, <2>1, <2>4, <3>1 DEF SecretsKnown
      <4>2. QED
        BY <1>1, <4>1
    <3>2. CASE x = r /\ req[r].op \in NewCode
      BY <1>1, <3>2
    <3>3. QED
      BY <2>2, <2>3, <2>4, <3>1, <3>2
  <2>5. ASSUME y # NONE PROVE Made(y)' /\ sentTo'[y] = NONE
    <3>1. CASE y \in {row.resetPasswordToken, b.resetPasswordToken}
      <4>1. Made(y) /\ sentTo[y] = NONE /\ y \in Id
        BY <1>2, <2>1, <2>5, <3>1 DEF SecretsKnown
      <4>2. QED
        BY <1>1, <4>1
    <3>2. CASE y = r /\ req[r].op = "forgotPassword"
      BY <1>1, <3>2 DEF NewCode
    <3>3. QED
      BY <2>2, <2>3, <2>5, <3>1, <3>2
  <2>6. QED
    BY <2>3, <2>4, <2>5 DEF SecretsKnown, Made
<1>5. QED
  BY <1>3, <1>4

\* The requests that have not saved yet.
LEMMA OthersSaved ==
  ASSUME IInv, NEW r \in Request, Write(r), NEW b \in Row, ReadFrom(r, b)
  PROVE  /\ \A q \in Request : Fresh(q)'
         /\ \A q \in Saving' : Prepared(q)'
         /\ \A q \in Request \ Saving' : missed'[q] = {}
<1>1. /\ req'[r].pc = "done" /\ \A q \in Request \ {r} : req'[q] = req[q]
      /\ r \in Saving /\ Saving' = Saving \ {r}
      /\ \A q \in Saving \ {r} : /\ missed[q] \subseteq missed'[q]
                                 /\ \A c \in Column \ missed'[q] : row'[c] = row[c]
  BY WriteRow DEF IInv
<1>2. ASSUME NEW q \in Request, q # r PROVE Fresh(q)'
  <2>1. q \in Id /\ req'[q] = req[q] /\ Fresh(q)
    BY <1>1, <1>2, Ids DEF IInv, Good
  <2>2. SUFFICES ASSUME req[q].pc # "done"
                 PROVE  /\ accepted'[q] = 0 /\ wrong'[q].auth = 0 /\ wrong'[q].users = 0
                        /\ sentTo'[q] = NONE
    BY <2>1 DEF Fresh
  <2>3. sentTo'[q] = NONE
    BY <1>2, <2>1, <2>2, SentSaved DEF Fresh
  <2>4. ~Made(q) /\ q # NONE
    BY <2>1, <2>2, BoundsAssumption, Ids DEF Made, Request
  <2>5. q # b.otpCode /\ q # b.resetPasswordToken
    BY <2>4 DEF ReadFrom, SecretsKnown
  <2>6. req[r].op \in Spending \cup Guessing => req[r].secret # q
    BY <2>5 DEF ReadFrom, Effect, CodesEffect
  <2>7. /\ accepted'[q] = accepted[q] /\ wrong'[q].auth = wrong[q].auth
        /\ wrong'[q].users = wrong[q].users
    BY <2>1, <2>6, WriteCounts DEF IInv, Guessing
  <2>8. QED
    BY <2>1, <2>2, <2>3, <2>7 DEF Fresh
<1>3. Fresh(r)'
  BY <1>1 DEF Fresh
<1>4. ASSUME NEW q \in Saving' PROVE Prepared(q)'
  <2>1. q \in Saving /\ q # r /\ q \in Request /\ req'[q] = req[q]
    BY <1>1, <1>4 DEF Saving
  <2>2. PICK x \in Row : ReadFrom(q, x)
    BY <2>1 DEF IInv, Good, Prepared
  <2>3. SecretsKnown(x)' /\ MarksGiven(x)'
    BY <2>2, KnownSaved DEF ReadFrom
  <2>4. Effect(q, req[q].op, x, req[q].local, req[q].secret, req[q].given)'
    BY <2>1, <2>2 DEF ReadFrom, Effect, TokensEffect, DecisionsEffect, CodesEffect, MarksEffect
  <2>5. \A c \in Column \ missed'[q] : x[c] = row'[c]
    BY <1>1, <2>1, <2>2 DEF ReadFrom
  <2>6. req[q].pc = "write" =>
          /\ \A c \in Column \ (missed'[q] \cup req[q].diff) : req[q].local[c] = row'[c]
          /\ req[q].op = "deleteUser" => req[q].diff = {"deleted"}
    BY <1>1, <2>1, <2>2 DEF ReadFrom
  <2>7. ReadFrom(q, x)'
    BY <2>1, <2>3, <2>4, <2>5, <2>6 DEF ReadFrom
  <2>8. QED
    BY <2>7 DEF Prepared, Row
<1>5. \A q \in Request \ Saving' : missed'[q] = {}
  BY <1>1 DEF Write
<1>6. QED
  BY <1>2, <1>3, <1>4, <1>5

LEMMA GoodSaved ==
  ASSUME IInv, NEW r \in Request, Write(r)
  PROVE  Good' /\ \A q \in Request \ Saving' : missed'[q] = {}
<1>1. PICK b \in Row : ReadFrom(r, b)
  BY WriteRow DEF IInv, Good, Prepared
<1>2. (SessionGood /\ DecisionGood /\ SecretsGood /\ GuessesGood)'
  BY <1>1, SessionSaved, DecisionSaved, SecretsSaved, GuessesSaved
<1>3. SecretsKnown(row)' /\ MarksGiven(row)'
  BY <1>1, KnownSaved, MarksSaved
<1>4. QED
  BY <1>1, <1>2, <1>3, OthersSaved DEF Good

-----------------------------------------------------------------------------
(* Every step keeps the invariant.                                         *)

\* A method begins with the row as it is.
LEMMA GoodBegun ==
  ASSUME IInv, NEW r \in Request, Lawful(r)
  PROVE  Good' /\ \A q \in Request \ Saving' : missed'[q] = {}
<1>1. PICK o, e, s, g : BeginGiven(r, o, e, s, g) /\ Effect(r, o, row, e, s, g)
  BY DEF Lawful
<1>2. PICK m : m = [pc |-> "load", op |-> o, local |-> e, diff |-> {}, secret |-> s,
                    given |-> g]
  OBVIOUS
<1>3. /\ UNCHANGED <<row, missed, Observers>>
      /\ req'[r] = m /\ \A q \in Request \ {r} : req'[q] = req[q]
      /\ r \notin Saving /\ Saving' = Saving \cup {r}
  BY <1>1, <1>2, LawfulStep DEF IInv
<1>4. missed[r] = {} /\ SecretsKnown(row) /\ MarksGiven(row) /\ row \in Row
  BY <1>3 DEF IInv, Good, TypeOK
<1>5. req[r].pc # "done"
  BY <1>1 DEF BeginGiven, Arrives
<1>6. SecretsKnown(row)' /\ MarksGiven(row)'
  <2>1. \A i : Made(i) => Made(i)'
    BY <1>3, <1>5 DEF Made
  <2>2. QED
    BY <1>3, <1>4, <2>1 DEF SecretsKnown, MarksGiven, Observers
<1>7. ReadFrom(r, row)'
  BY <1>1, <1>2, <1>3, <1>4, <1>6 DEF ReadFrom, Effect, TokensEffect, DecisionsEffect,
                                      CodesEffect, MarksEffect
<1>8. Prepared(r)'
  <2>1. row' \in Row
    BY <1>3, <1>4
  <2>2. QED
    BY <1>7, <2>1 DEF Prepared, Row
<1>9. Saving \ {r} = Saving' \ {r} /\ r \in Saving'
  BY <1>3
<1>10. QED
  BY <1>3, <1>5, <1>8, <1>9, GoodBeforeSave

\* The save compares the entity with the row as it is now.
LEMMA GoodLoaded ==
  ASSUME IInv, NEW r \in Request, Load(r)
  PROVE  Good' /\ \A q \in Request \ Saving' : missed'[q] = {}
<1>1. /\ UNCHANGED <<row, missed, Observers>>
      /\ \A q \in Request \ {r} : req'[q] = req[q]
      /\ r \in Saving /\ Saving' = Saving
      /\ req'[r].pc = "write" /\ req'[r].op = req[r].op
      /\ req'[r].local = req[r].local /\ req'[r].secret = req[r].secret
      /\ req'[r].given = req[r].given
      /\ req'[r].diff = IF req[r].op = "deleteUser" THEN {"deleted"}
                        ELSE Differing(req[r].local, row)
  BY LoadStep DEF IInv
<1>2. req[r].pc # "done"
  BY DEF Load
<1>3. PICK b \in Row : ReadFrom(r, b)
  BY <1>1 DEF IInv, Good, Prepared
<1>4. SecretsKnown(b)' /\ MarksGiven(b)'
  <2>1. \A i : Made(i) => Made(i)'
    BY <1>1, <1>2 DEF Made
  <2>2. QED
    BY <1>1, <1>3, <2>1 DEF ReadFrom, SecretsKnown, MarksGiven, Observers
<1>5. Effect(r, req[r].op, b, req[r].local, req[r].secret, req[r].given)'
  BY <1>1, <1>3 DEF ReadFrom, Effect, TokensEffect, DecisionsEffect, CodesEffect, MarksEffect
<1>6. \A c \in Column \ (missed[r] \cup req'[r].diff) : req[r].local[c] = row[c]
  <2>1. CASE req[r].op = "deleteUser"
    BY <1>1, <1>3, <2>1 DEF ReadFrom, Effect, DecisionsEffect
  <2>2. CASE req[r].op # "deleteUser"
    <3>1. DOMAIN row = Column
      BY DEF IInv, TypeOK, Row, Column
    <3>2. req'[r].diff = {c \in Column : req[r].local[c] # row[c]}
      BY <1>1, <2>2, <3>1 DEF Differing
    <3>3. QED
      BY <3>2
  <2>3. QED
    BY <2>1, <2>2
<1>7. ReadFrom(r, b)'
  BY <1>1, <1>3, <1>4, <1>5, <1>6 DEF ReadFrom
<1>8. Prepared(r)'
  BY <1>7 DEF Prepared, Row
<1>9. QED
  BY <1>1, <1>2, <1>8, GoodBeforeSave

LEMMA NextSound == IInv /\ [Next]_vars => IInv'
<1> SUFFICES ASSUME IInv, [Next]_vars PROVE IInv'
  OBVIOUS
<1>1. TypeOK'
  BY NextType DEF IInv
<1>2. SUFFICES Good' /\ \A q \in Request \ Saving' : missed'[q] = {}
  BY <1>1 DEF IInv
<1>3. CASE UNCHANGED vars
  <2>1. UNCHANGED <<row, req, missed, Observers>> /\ Saving' = Saving
    BY <1>3 DEF vars, Observers, Saving
  <2>2. (SessionGood /\ DecisionGood /\ SecretsGood /\ GuessesGood)'
    BY <2>1 DEF IInv, Good, SessionGood, DecisionGood, SecretsGood, GuessesGood, Allowed,
                Observers
  <2>3. (SecretsKnown(row) /\ MarksGiven(row))' /\ \A r \in Request : Fresh(r)'
    BY <2>1 DEF IInv, Good, SecretsKnown, MarksGiven, Made, Fresh, Observers
  <2>4. \A r \in Saving : Prepared(r)'
    BY <2>1 DEF IInv, Good, Prepared, ReadFrom, Effect, TokensEffect, DecisionsEffect,
                CodesEffect, MarksEffect, SecretsKnown, MarksGiven, Made, Observers
  <2>5. QED
    BY <2>1, <2>2, <2>3, <2>4 DEF IInv, Good
<1>4. CASE Next
  <2>1. PICK r \in Request : Validate(r) \/ Lawful(r) \/ Refuse(r) \/ Load(r) \/ Write(r)
    BY <1>4, Steps DEF IInv
  <2>2. CASE Validate(r) \/ Refuse(r)
    <3>1. /\ UNCHANGED <<row, missed, Observers>>
          /\ \A q \in Request \ {r} : req'[q] = req[q]
          /\ r \notin Saving /\ Saving' = Saving
      BY <2>2, ValidateStep, RefuseStep DEF IInv
    <3>2. req[r].pc # "done"
      BY <2>2 DEF Validate, Refuse, Arrives
    <3>3. QED
      BY <3>1, <3>2, GoodBeforeSave
  <2>3. QED
    BY <2>1, <2>2, GoodBegun, GoodLoaded, GoodSaved
<1>5. QED
  BY <1>3, <1>4

\* A request that saves knows the row it read but for the columns it missed, and
\* what the observers of Accounts say of sessions, decisions, codes, guesses and
\* marks holds of the row and of every copy of it.
THEOREM ObservedFits == Spec => []IInv
<1>1. Init => IInv
  BY InitGood
<1>2. IInv /\ [Next]_vars => IInv'
  BY NextSound
<1>3. QED
  BY <1>1, <1>2, PTL DEF Spec

\* Whatever the overlaps, no refresh token is stored after the sessions ended and
\* before the next login, but by a request that missed the end.
THEOREM SessionsAlwaysEnd == Spec => []SessionsEnd
<1>1. IInv => SessionsEnd
  BY Zenon DEF IInv, Good, SessionGood, SessionsEnd, TypeOK
<1>2. QED
  BY <1>1, ObservedFits, PTL

\* No code and no reset token is accepted more often than once and once for each
\* save that missed a change of it.
THEOREM SpentOnlyOnce == Spec => []SpentOnce
<1>1. IInv => SpentOnce
  BY DEF IInv, Good, SecretsGood, SpentOnce
<1>2. QED
  BY <1>1, ObservedFits, PTL

\* Whatever the two limits, the wrong guesses of a code are bounded by them and by
\* the number of counts that a save began anew.
THEOREM GuessesAlwaysBounded == Spec => []GuessesBounded
<1>1. IInv => GuessesBounded
  BY DEF IInv, Good, GuessesGood, GuessesBounded
<1>2. QED
  BY <1>1, ObservedFits, PTL

\* A verified address is one that a code came back for or that a super
\* administrator marked, or one of those in strayed.
THEOREM MarksAlwaysBelong == Spec => []MarksBelong
<1>1. IInv => MarksBelong
  BY Zenon DEF IInv, Good, MarksGiven, MarksBelong, TypeOK
<1>2. QED
  BY <1>1, ObservedFits, PTL

\* A step that leaves the user barred leaves him inactive or deleted and, if he
\* was barred before, answers no login and no refresh.
LEMMA DecisionStep ==
  ASSUME IInv, IInv', Next
  PROVE  /\ barred' => ~row'.isActive \/ row'.deleted
         /\ barred /\ barred' =>
              \A r \in Request : Answered(r) => req[r].op \notin {"login", "refresh"}
<1>1. barred \in BOOLEAN /\ barred' \in BOOLEAN
  BY DEF IInv, TypeOK
<1>2. barred' => ~row'.isActive \/ row'.deleted
  <2>1. barred' = TRUE => row'.isActive = FALSE \/ row'.deleted = TRUE
    BY DEF IInv, Good, DecisionGood
  <2>2. QED
    BY <1>1, <2>1, Zenon
<1>3. ASSUME barred, barred', NEW r \in Request, Answered(r)
      PROVE  req[r].op \notin {"login", "refresh"}
  <2>1. barred = TRUE /\ barred' = TRUE
    BY <1>1, <1>3
  <2>2. Write(r)
    <3>1. PICK q \in Request : Validate(q) \/ Lawful(q) \/ Refuse(q) \/ Load(q) \/ Write(q)
      BY Steps DEF IInv
    <3>2. CASE Write(q)
      <4>1. q = r
        BY <1>3, <3>2, WriteRow DEF IInv, Answered
      <4>2. QED
        BY <3>2, <4>1
    <3>3. CASE Validate(q) \/ Refuse(q)
      <4>1. q = r
        BY <1>3, <3>3, ValidateStep, RefuseStep DEF IInv, Answered
      <4>2. QED
        BY <1>3, <3>3, <4>1 DEF Answered, Validate, Refuse, Arrives
    <3>4. CASE Load(q)
      BY <1>3, <3>4, LoadStep DEF IInv, Answered
    <3>5. CASE Lawful(q)
      <4>1. PICK o, e, s, g : BeginGiven(q, o, e, s, g) /\ Effect(q, o, row, e, s, g)
        BY <3>5 DEF Lawful
      <4>2. r # q => req'[r] = req[r]
        BY <4>1, LawfulStep DEF IInv
      <4>3. q = r
        BY <1>3, <4>2 DEF Answered
      <4>4. QED
        BY <1>3, <4>1, <4>3 DEF Answered, BeginGiven, Arrives
    <3>6. QED
      BY <3>1, <3>2, <3>3, <3>4, <3>5
  <2>3. PICK b \in Row : ReadFrom(r, b)
    BY <2>2, WriteRow DEF IInv, Good, Prepared
  <2>4. QED
    BY <2>1, <2>2, <2>3, DecisionSaved
<1>4. QED
  BY <1>2, <1>3

\* Once an administrator has barred the user, only a request that read the user
\* before and saves after it lets him in or answers a login or refresh.
THEOREM DecisionsAlwaysStand == Spec => DecisionsStand
<1> DEFINE stands == /\ barred' => ~row'.isActive \/ row'.deleted
                     /\ barred /\ barred' =>
                          \A r \in Request : Answered(r) =>
                                               req[r].op \notin {"login", "refresh"}
<1>1. IInv /\ IInv' /\ [Next]_vars => [stands]_vars
  BY DecisionStep
<1>2. QED
  BY <1>1, ObservedFits, PTL DEF Spec, DecisionsStand
=============================================================================
