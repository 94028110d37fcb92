------------------------------ MODULE Preferences ------------------------------
(***************************************************************************)
(* The preferences of one user, and what NotificationsService.send makes of*)
(* them: whether a notification is sent, and when.  What happens to it     *)
(* afterwards is NotificationQueue.                                        *)
(*                                                                         *)
(*   send, get   idle -> [insert] -> have -> done                          *)
(*   update      idle -> [insert] -> have -> load -> write -> done         *)
(*   reset       idle -> [remove] -> again -> [insert] -> have -> done     *)
(*                                                                         *)
(* Times of day are kept and compared as strings.  The DTO accepts "9:00"  *)
(* for "09:00": a Text is an hour, a minute, and whether the hour has two  *)
(* digits.  Of the channels and categories only the answer of isAllowed is *)
(* kept; the user's time zone is left out, as the code never reads it.     *)
(***************************************************************************)
EXTENDS Integers, FiniteSets, EntitySave

CONSTANTS
  MinutesPerHour,  \* 60; a smaller one is a coarser clock
  Texts,           \* the times of day that clients choose
  Delays,          \* how far ahead notifications are scheduled, in minutes
  MaxRequests,     \* bound: requests
  MaxInFlight      \* bound: the requests that overlap

Day == 24 * MinutesPerHour
Text == [hour : 0 .. 23, minute : 0 .. MinutesPerHour - 1, padded : BOOLEAN]

Request == 1 .. MaxRequests

Row == [id : 0 .. MaxRequests, allowed : BOOLEAN, quietHoursEnabled : BOOLEAN,
        quietHoursStart : Text, quietHoursEnd : Text]
NoRow == [id |-> -1]
Column == {"id", "allowed", "quietHoursEnabled", "quietHoursStart", "quietHoursEnd"}

At(m) == [hour |-> (m % Day) \div MinutesPerHour, minute |-> m % MinutesPerHour,
          padded |-> TRUE]
MinuteOf(t) == t.hour * MinutesPerHour + t.minute

\* The row that request r creates: all allowed, quiet hours off.
Default(r) == [id |-> r, allowed |-> TRUE, quietHoursEnabled |-> FALSE,
               quietHoursStart |-> At(22 * MinutesPerHour),
               quietHoursEnd |-> At(8 * MinutesPerHour)]

\* What send decided: the kind of notification, the minute of the day, how far
\* ahead it was scheduled, the preferences, and the minute at which it is due.
Decision == [kind : {"routine", "urgent"}, now : 0 .. Day - 1, delay : Delays \cup {0},
             preferences : Row, due : Nat \cup {-1}, ticked : BOOLEAN]
Undecided == [kind |-> "none"]
CANCELLED == -1

Memory == [pc : {"idle", "insert", "have", "load", "write", "remove", "again", "done"},
           op : {"send", "get", "update", "reset"},
           local : Row \cup {NoRow}, diff : SUBSET Column, absent : BOOLEAN]
Idle == [pc |-> "idle", op |-> "get", local |-> NoRow, diff |-> {}, absent |-> FALSE]

VARIABLES
  row,      \* the user's row of user_notification_preferences, or NoRow
  req,      \* req[r]: what request r holds in memory
  decision  \* decision[r]: what send answered

vars == <<row, req, decision>>

Init ==
  /\ row = NoRow
  /\ req = [r \in Request |-> Idle]
  /\ decision = [r \in Request |-> Undecided]

InFlight == {r \in Request : req[r].pc \notin {"idle", "done"}}

Arrives(r) ==
  /\ req[r].pc = "idle"
  /\ \A q \in 1 .. r - 1 : req[q].pc # "idle"
  /\ Cardinality(InFlight) < MaxInFlight

Goes(r, memory) ==
  /\ req' = [req EXCEPT ![r] = memory]
  /\ UNCHANGED <<row, decision>>
Done == [Idle EXCEPT !.pc = "done"]

-----------------------------------------------------------------------------
(* Quiet hours.                                                            *)

\* The characters of a time, '0' to '9' as 1 to 10, ':' as 11, and their value
\* when strings of that length are compared from the left.
Key(t) ==
  LET tens(n) == (n \div 10) + 1
      ones(n) == (n % 10) + 1
      char == IF t.padded \/ t.hour > 9
              THEN <<tens(t.hour), ones(t.hour), 11, tens(t.minute), ones(t.minute)>>
              ELSE <<ones(t.hour), 11, tens(t.minute), ones(t.minute), 0>>
  IN (((char[1] * 12 + char[2]) * 12 + char[3]) * 12 + char[4]) * 12 + char[5]

\* Faulty variant of IsInQuietHours: hours that span midnight are forgotten.
IsInQuietHoursSameDay(p, now) ==
  /\ p.quietHoursEnabled
  /\ Key(At(now)) >= Key(p.quietHoursStart) /\ Key(At(now)) < Key(p.quietHoursEnd)

IsInQuietHours(p, now) ==
  LET time == Key(At(now))
      start == Key(p.quietHoursStart)
      end == Key(p.quietHoursEnd)
  IN /\ p.quietHoursEnabled
     /\ IF start > end THEN time >= start \/ time < end ELSE time >= start /\ time < end

\* The end of quiet hours today, or tomorrow when that is past: within its minute,
\* which now counts in whole ones, it is.
CalculateQuietHoursEnd(p, now) ==
  LET end == (now \div Day) * Day + MinuteOf(p.quietHoursEnd)
  IN IF end <= now THEN end + Day ELSE end

-----------------------------------------------------------------------------
(* The methods.                                                            *)

\* The first step of getOrCreatePreferences, for a request that begins or, in a
\* reset, has removed the row.
GetOrCreate(r, o) ==
  Goes(r, IF row = NoRow THEN [Idle EXCEPT !.pc = "insert", !.op = o]
          ELSE [Idle EXCEPT !.pc = "have", !.op = o, !.local = row])

Send(r) == Arrives(r) /\ GetOrCreate(r, "send")
GetPreferences(r) == Arrives(r) /\ GetOrCreate(r, "get")
UpdatePreferences(r) == Arrives(r) /\ GetOrCreate(r, "update")

\* A user has one row, and an insert meets another: it fails.
InsertDefault(r) ==
  /\ req[r].pc = "insert"
  /\ row = NoRow
  /\ row' = Default(r)
  /\ req' = [req EXCEPT ![r].pc = "have", ![r].local = Default(r)]
  /\ decision' = decision

ResetPreferences(r) ==
  /\ Arrives(r)
  /\ Goes(r, [Idle EXCEPT !.pc = IF row = NoRow THEN "again" ELSE "remove",
                          !.op = "reset", !.local = row])

RemoveRow(r) ==
  /\ req[r].pc = "remove"
  /\ row' = IF row = NoRow \/ row.id # req[r].local.id THEN row ELSE NoRow
  /\ req' = [req EXCEPT ![r].pc = "again"]
  /\ decision' = decision

CreateAgain(r) == req[r].pc = "again" /\ GetOrCreate(r, "reset")

\* The decision of send, taken at minute now; the clock is read once more for the
\* end of quiet hours, and may have moved on by then.
Decide(r) ==
  /\ req[r].pc = "have" /\ req[r].op = "send"
  /\ \E kind \in {"routine", "urgent"}, now \in 0 .. Day - 1, delay \in Delays \cup {0},
        ticked \in BOOLEAN :
       LET p == req[r].local
           due == IF ~p.allowed THEN CANCELLED
                  ELSE IF kind # "urgent" /\ IsInQuietHours(p, now)
                       THEN CalculateQuietHoursEnd(p, IF ticked THEN now + 1 ELSE now)
                       ELSE now + delay
       IN decision' = [decision EXCEPT ![r] =
            [kind |-> kind, now |-> now, delay |-> delay, preferences |-> p,
             due |-> due, ticked |-> ticked]]
  /\ req' = [req EXCEPT ![r] = Done]
  /\ row' = row

Answer(r) ==
  /\ req[r].pc = "have" /\ req[r].op \in {"get", "reset"}
  /\ Goes(r, Done)

\* Any of the fields of the body is set in the entity.
SetFields(r) ==
  /\ req[r].pc = "have" /\ req[r].op = "update"
  /\ \E allowed, enabled \in BOOLEAN, start, end \in Texts :
       Goes(r, [req[r] EXCEPT !.pc = "load",
                  !.local = [@ EXCEPT !.allowed = allowed, !.quietHoursEnabled = enabled,
                                      !.quietHoursStart = start, !.quietHoursEnd = end]])

Load(r) ==
  LET there == row # NoRow /\ row.id = req[r].local.id
  IN /\ req[r].pc = "load"
     /\ Goes(r, [req[r] EXCEPT !.pc = "write", !.absent = ~there,
                   !.diff = IF there THEN Differing(req[r].local, row) ELSE Column])

\* A row that was reset meanwhile is inserted again, unless there is a new one.
Write(r) ==
  LET there == row # NoRow /\ row.id = req[r].local.id
  IN /\ req[r].pc = "write"
     /\ req[r].absent => row = NoRow
     /\ row' = IF req[r].absent THEN req[r].local
               ELSE IF there THEN Patched(row, req[r].local, req[r].diff) ELSE row
     /\ req' = [req EXCEPT ![r] = Done]
     /\ decision' = decision

\* An access fails, or an insert meets a row.
Fails(r) == r \in InFlight /\ Goes(r, Done)

Next ==
  \E r \in Request :
    \/ Send(r) \/ GetPreferences(r) \/ UpdatePreferences(r) \/ ResetPreferences(r)
    \/ InsertDefault(r) \/ RemoveRow(r) \/ CreateAgain(r)
    \/ Decide(r) \/ Answer(r) \/ SetFields(r) \/ Load(r) \/ Write(r) \/ Fails(r)

Spec == Init /\ [][Next]_vars

-----------------------------------------------------------------------------
(* Properties.                                                             *)

TypeOK ==
  /\ row \in Row \cup {NoRow}
  /\ req \in [Request -> Memory]
  /\ decision \in [Request -> Decision \cup {Undecided}]

\* The minutes of quiet hours, as the user means them.
Quiet(p, minute) ==
  LET start == MinuteOf(p.quietHoursStart)
      end == MinuteOf(p.quietHoursEnd)
      m == minute % Day
  IN /\ p.quietHoursEnabled
     /\ (m - start) % Day < (end - start) % Day

\* The decisions on routine notifications that were not scheduled for later.
Routine ==
  {decision[r] : r \in {q \in Request :
     decision[q].kind = "routine" /\ decision[q].delay = 0 /\ decision[q].due # CANCELLED}}

\* A routine notification is due outside of quiet hours and not a minute later
\* than they end, if both ends are written with two digits: also when they span
\* midnight, start and end together, or end at midnight.  Only a clock that
\* reaches the end between its two readings delays it by a day.
QuietHoursKept ==
  \A d \in Routine :
    d.preferences.quietHoursStart.padded /\ d.preferences.quietHoursEnd.padded =>
      /\ ~Quiet(d.preferences, d.due)
      /\ d.due >= d.now
      /\ ~d.ticked => \A m \in d.now .. d.due - 1 : Quiet(d.preferences, m)

=============================================================================
