------------------------------ MODULE MCServices ------------------------------
(***************************************************************************)
(* Six services of the process that share no state, in one run: a behavior *)
(* is one of the service it is about, and the others stay as they are.     *)
(* Three of them are instantiated with the theorems proved about them.     *)
(***************************************************************************)
EXTENDS Integers

CONSTANTS
  MaxInFlight,  \* bound: the requests of a service that overlap
  \* bounds: the requests of a service
  ThreadRequests, UploadRequests, RoleRequests, TemplateRequests, PlanRequests,
  PreferenceRequests,
  Names, MaxTicks, User, Codes, DefaultCodes, MinutesPerHour, Delays, Texts

VARIABLES
  about,  \* the service that this behavior is about
  thread, messages, threadReq, threadStale, threadFailed, disturbed,
  documents, disk, profilePhoto, photos, clock, uploadReq, unlinked,
  uploadFailed, uploadStale,
  users, roleReq, roleStale,
  templates, templateReq,
  plans, planReq, looped, retyped,
  row, preferenceReq, decision

\* For TLC, whose clock of Preferences counts in hours: these times are chosen.
HourTexts ==
  {[hour |-> h, minute |-> 0, padded |-> TRUE] : h \in {0, 8, 22}}
  \cup {[hour |-> 9, minute |-> 0, padded |-> FALSE]}

Threads == INSTANCE PoaThreads WITH MaxRequests <- ThreadRequests,
  req <- threadReq, stale <- threadStale, failed <- threadFailed
Files == INSTANCE UploadsProofs WITH MaxRequests <- UploadRequests,
  req <- uploadReq, failed <- uploadFailed, stale <- uploadStale
Roles == INSTANCE UserRoles WITH MaxRequests <- RoleRequests,
  req <- roleReq, stale <- roleStale
TemplateTable == INSTANCE TemplatesProofs WITH MaxRequests <- TemplateRequests,
  table <- templates, req <- templateReq
PlanTable == INSTANCE PlansProofs WITH MaxRequests <- PlanRequests,
  table <- plans, req <- planReq
Quiet == INSTANCE Preferences WITH MaxRequests <- PreferenceRequests,
  req <- preferenceReq

threadVars == <<thread, messages, threadReq, threadStale, threadFailed, disturbed>>
uploadVars == <<documents, disk, profilePhoto, photos, clock, uploadReq,
                unlinked, uploadFailed, uploadStale>>
roleVars == <<users, roleReq, roleStale>>
templateVars == <<templates, templateReq>>
planVars == <<plans, planReq, looped, retyped>>
preferenceVars == <<row, preferenceReq, decision>>
vars == <<about, threadVars, uploadVars, roleVars, templateVars, planVars, preferenceVars>>

Init ==
  /\ about \in {"threads", "files", "roles", "templates", "plans", "preferences"}
  /\ Threads!Init /\ Files!Init /\ Roles!Init
  /\ TemplateTable!Init /\ PlanTable!Init /\ Quiet!Init
  \* One start of what a behavior is not about is enough.
  /\ about # "files" => profilePhoto = Files!NONE
  /\ about # "roles" => Roles!SuperAdmins = User

Next ==
  \/ about = "threads" /\ Threads!Next
       /\ UNCHANGED <<about, uploadVars, roleVars, templateVars, planVars, preferenceVars>>
  \/ about = "files" /\ Files!Next
       /\ UNCHANGED <<about, threadVars, roleVars, templateVars, planVars, preferenceVars>>
  \/ about = "roles" /\ Roles!Next
       /\ UNCHANGED <<about, threadVars, uploadVars, templateVars, planVars, preferenceVars>>
  \/ about = "templates" /\ TemplateTable!Next
       /\ UNCHANGED <<about, threadVars, uploadVars, roleVars, planVars, preferenceVars>>
  \/ about = "plans" /\ PlanTable!Next
       /\ UNCHANGED <<about, threadVars, uploadVars, roleVars, templateVars, preferenceVars>>
  \/ about = "preferences" /\ Quiet!Next
       /\ UNCHANGED <<about, threadVars, uploadVars, roleVars, templateVars, planVars>>

Spec == Init /\ [][Next]_vars

-----------------------------------------------------------------------------
\* Each service's state is well typed.
TypesOK ==
  /\ Threads!TypeOK /\ Files!TypeOK /\ Roles!TypeOK
  /\ TemplateTable!TypeOK /\ PlanTable!TypeOK /\ Quiet!TypeOK

\* The counters of a thread never exceed, and when nothing overlaps equal, what
\* was posted and what is unread (PoaThreads).
CountersTell == Threads!CountersTell
\* Read messages stay, deleted ones stay away (PoaThreads).
ReadStays == Threads!ReadStays
\* Rows and files on disk agree (Uploads).
FilesAgree == Files!FilesAgree
\* There is always a super administrator (UserRoles).
SuperAdminRemains == Roles!SuperAdminRemains
\* System templates stay as they were seeded (Templates).
SystemTemplatesStay == TemplateTable!SystemTemplatesStay
\* A seed that ends leaves one plan of each type (Plans).
SeedIsWhole == PlanTable!SeedIsWhole
\* Notifications keep out of quiet hours written with two digits (Preferences).
QuietHoursKept == Quiet!QuietHoursKept

=============================================================================
