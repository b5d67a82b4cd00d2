----------------------------- MODULE Attendance -----------------------------
(***************************************************************************)
(* Who is in, and since when: the shifts of one member of staff.           *)
(*                                                                         *)
(* Every way in and out goes through clock_in and clock_out.  Each looks   *)
(* for the open shift first, and closes it there and then, in a commit of  *)
(* its own, if it was left open too long; and most handlers look once more *)
(* to say where things stand.  A handler writes only what it changed, over *)
(* whatever was committed since it read.                                   *)
(*                                                                         *)
(* Time is in hours.  It passes between handlers, never under one.         *)
(***************************************************************************)
EXTENDS Integers, FiniteSetsExt, SequencesExt

CONSTANTS
  None,
  Handlers,
  MAX_SHIFT_HOURS,
  DayHours,  \* the hours of a day
  LastHour,  \* bound: when the clock stops
  MaxShifts  \* bound

VARIABLES
  exists,    \* the account is there
  is_active, on_duty,
  shifts,    \* the person's shifts in the order they were made
  worked,    \* whether any order or review names the person
  hour,
  clerk,     \* what each handler has read
  alone      \* handlers run one at a time

staffVars == <<exists, is_active, on_duty, shifts, worked, hour, clerk, alone>>

ASSUME AttendanceAssumption ==
  /\ MAX_SHIFT_HOURS \in Nat /\ DayHours \in Nat \ {0}
  /\ LastHour \in Nat /\ MaxShifts \in Nat /\ None \notin Nat \cup {"self", "admin", "stale"}

Shift == [in : Nat, out : Nat \cup {None}, by : {"self", "admin", "stale", None}]
(* active, duty: as loaded; found: the open shift, 0 for none.             *)
Clerk == [task : {"REST", "LOADED", "FOUND", "ANSWER"}, job : {"IN", "OUT", "ACTIVE", "LOOK"},
          by : {"self", "admin"}, active : BOOLEAN, duty : BOOLEAN, found : 0 .. MaxShifts]
Rest == [task |-> "REST", job |-> "LOOK", by |-> "self", active |-> FALSE, duty |-> FALSE,
         found |-> 0]

(* create_staff: on duty from the start, with no shift. *)
StaffInit ==
  /\ exists = TRUE /\ is_active = TRUE /\ on_duty = TRUE
  /\ worked \in BOOLEAN
  /\ shifts = <<>>
  /\ hour = 0
  /\ clerk = [h \in Handlers |-> Rest]
  /\ alone \in BOOLEAN
-----------------------------------------------------------------------------
(* The look that every path takes first.                                   *)
AtRest == \A h \in Handlers : clerk[h] = Rest
At(h, task, jobs) == clerk[h].task = task /\ clerk[h].job \in jobs

OpenShifts == {i \in DOMAIN shifts : shifts[i].out = None}
_is_stale(shift) == hour - shift.in > MAX_SHIFT_HOURS
(* Mutant: who closed it is not said. *)
CloseUnsigned(i, by, at) == [shifts EXCEPT ![i].out = at]
_close(i, by, at) == [shifts EXCEPT ![i].out = at, ![i].by = by]

(* The latest open shift; of two of one moment the database picks.         *)
Latest == IF OpenShifts = {} THEN {0}
          ELSE {i \in OpenShifts : \A j \in OpenShifts : shifts[i].in >= shifts[j].in}
Overdue(i) == i # 0 /\ _is_stale(shifts[i])
(* Mutant: a stale shift ends when somebody looks. *)
EndedNow(i) == IF Overdue(i) THEN _close(i, "stale", hour) ELSE shifts

Tidied(i)  == IF Overdue(i) THEN _close(i, "stale", shifts[i].in + MAX_SHIFT_HOURS) ELSE shifts

(* What follows the work: an answer that looks again, or none.             *)
Then(h) == \E task \in {"ANSWER", "REST"} :
             clerk' = [clerk EXCEPT ![h] = IF task = "REST" THEN Rest
                                           ELSE [Rest EXCEPT !.task = "ANSWER"]]
-----------------------------------------------------------------------------
(* The token of a deactivated person is refused before any handler runs.   *)
Load(h, job, by) ==
  /\ exists /\ clerk[h] = Rest /\ (alone => AtRest)
  /\ by = "self" => is_active
  /\ clerk' = [clerk EXCEPT ![h] = [task |-> "LOADED", job |-> job, by |-> by,
                                    active |-> is_active, duty |-> on_duty, found |-> 0]]
  /\ UNCHANGED <<exists, is_active, on_duty, shifts, worked, hour, alone>>

i_am_in(h)   == Load(h, "IN", "self")
i_am_off(h)  == Load(h, "OUT", "self")
send_home(h) == Load(h, "OUT", "admin")

set_on_duty(h, by)   == \E job \in {"IN", "OUT"} : Load(h, job, by)
toggle_duty(h)       == set_on_duty(h, "self")
toggle_staff_duty(h) == set_on_duty(h, "admin")

toggle_staff_active(h) == Load(h, "ACTIVE", "admin")

my_attendance(h) == Load(h, "LOOK", "self")
roster(h)        == Load(h, "LOOK", "admin")

(* Every request that reaches a shift. *)
Request(h) == \/ i_am_in(h) \/ i_am_off(h) \/ send_home(h)
              \/ toggle_duty(h) \/ toggle_staff_duty(h) \/ toggle_staff_active(h)
              \/ my_attendance(h) \/ roster(h)

(* A deactivated account is not clocked in. *)
Refused(h) ==
  /\ At(h, "LOADED", {"IN"}) /\ ~clerk[h].active
  /\ clerk' = [clerk EXCEPT ![h] = Rest]
  /\ UNCHANGED <<exists, is_active, on_duty, shifts, worked, hour, alone>>

(* A stale shift's commit takes a pending deactivation with it, and what   *)
(* was loaded is read again; all that is left then is to clock out.        *)
open_shift(h) ==
  /\ At(h, "LOADED", {"IN", "OUT", "ACTIVE"})
  /\ At(h, "LOADED", {"IN", "ACTIVE"}) => clerk[h].active
  /\ \E i \in Latest :
       /\ shifts' = Tidied(i)
       /\ IF Overdue(i)
          THEN /\ is_active' = (is_active /\ clerk[h].job # "ACTIVE")
               /\ clerk' = [clerk EXCEPT
                    ![h].task = "FOUND", ![h].duty = on_duty,
                    ![h].job = IF @ = "ACTIVE" THEN "OUT" ELSE @]
          ELSE /\ clerk' = [clerk EXCEPT ![h].task = "FOUND", ![h].found = i]
               /\ UNCHANGED is_active
  /\ UNCHANGED <<exists, on_duty, worked, hour, alone>>

(* Mutant: a second press is a second shift. *)
ClockInAgain(h) ==
  /\ At(h, "FOUND", {"IN"})
  /\ Len(shifts) < MaxShifts
  /\ shifts' = Append(shifts, [in |-> hour, out |-> None, by |-> None])
  /\ on_duty' = (on_duty \/ ~clerk[h].duty)
  /\ Then(h)
  /\ UNCHANGED <<exists, is_active, worked, hour, alone>>

clock_in(h) ==
  /\ At(h, "FOUND", {"IN"})
  /\ IF clerk[h].found # 0 THEN UNCHANGED shifts
     ELSE /\ Len(shifts) < MaxShifts
          /\ shifts' = Append(shifts, [in |-> hour, out |-> None, by |-> None])
  /\ on_duty' = (on_duty \/ ~clerk[h].duty)
  /\ Then(h)
  /\ UNCHANGED <<exists, is_active, worked, hour, alone>>

clock_out(h) ==
  /\ At(h, "FOUND", {"OUT", "ACTIVE"})
  /\ shifts' = IF clerk[h].found = 0 THEN shifts
               ELSE _close(clerk[h].found, clerk[h].by, hour)
  /\ on_duty' = (on_duty /\ ~clerk[h].duty)
  /\ is_active' = (is_active /\ clerk[h].job # "ACTIVE")
  /\ Then(h)
  /\ UNCHANGED <<exists, worked, hour, alone>>

(* toggle_staff_active of somebody who was off; nobody is clocked in by it. *)
Reactivate(h) ==
  /\ At(h, "LOADED", {"ACTIVE"}) /\ ~clerk[h].active
  /\ is_active' = TRUE
  /\ clerk' = [clerk EXCEPT ![h] = [Rest EXCEPT !.task = "ANSWER"]]
  /\ UNCHANGED <<exists, on_duty, shifts, worked, hour, alone>>

(* The roster, the staff list, and the end of most handlers. *)
Look(h) ==
  /\ At(h, "ANSWER", {"LOOK"}) \/ At(h, "LOADED", {"LOOK"})
  /\ \E i \in Latest : shifts' = Tidied(i)
  /\ clerk' = [clerk EXCEPT ![h] = Rest]
  /\ UNCHANGED <<exists, is_active, on_duty, worked, hour, alone>>

(* Refused to anybody who has worked; the database refuses it to anybody   *)
(* with a shift, which refers to the account and is not removed with it.   *)
delete_staff ==
  /\ exists /\ AtRest
  /\ ~worked /\ shifts = <<>>
  /\ exists' = FALSE
  /\ UNCHANGED <<is_active, on_duty, shifts, worked, hour, clerk, alone>>

Tick ==
  /\ AtRest /\ hour < LastHour
  /\ hour' = hour + 1
  /\ UNCHANGED <<exists, is_active, on_duty, shifts, worked, clerk, alone>>

StaffNext ==
  \/ delete_staff \/ Tick
  \/ \E h \in Handlers :
       \/ Request(h) \/ Refused(h) \/ open_shift(h) \/ clock_in(h) \/ clock_out(h)
       \/ Reactivate(h) \/ Look(h)

StaffSpec == StaffInit /\ [][StaffNext]_staffVars
-----------------------------------------------------------------------------
(* hours_today, asked after a look, as every caller does.  The code reads  *)
(* the latest 20 shifts, more than a day holds; the model reads them all.  *)
Midnight == (hour \div DayHours) * DayHours
(* Mutant: the hours before midnight count. *)
SinceIn(i) == shifts[i].in
Started(i) == Max({shifts[i].in, Midnight})
Ended(i)   == IF shifts[i].out = None THEN hour ELSE shifts[i].out
hours_today ==
  MapThenSumSet(LAMBDA i : Ended(i) - Started(i), {i \in DOMAIN shifts : Ended(i) > Midnight})
-----------------------------------------------------------------------------
(* Every variable has its type, and a shift has a way it ended exactly     *)
(* when it has an end.                                                     *)
StaffTypeOK ==
  /\ exists \in BOOLEAN /\ is_active \in BOOLEAN /\ on_duty \in BOOLEAN
  /\ worked \in BOOLEAN
  /\ shifts \in Seq(Shift) /\ Len(shifts) <= MaxShifts
  /\ \A i \in DOMAIN shifts : (shifts[i].out = None) = (shifts[i].by = None)
  /\ hour \in 0 .. LastHour
  /\ clerk \in [Handlers -> Clerk] /\ alone \in BOOLEAN

(* When handlers take turns, between two of them nobody is on two shifts,  *)
(* and whoever is on one is on duty and can log in to end it: a double tap *)
(* of clock_in, a deactivation and a shift that went stale under either    *)
(* leave no shift running against an account that is off.                  *)
OneShiftAtWork ==
  alone /\ AtRest =>
    /\ Cardinality(OpenShifts) <= 1
    /\ OpenShifts # {} => on_duty /\ is_active

(* No shift ends later than MAX_SHIFT_HOURS after it began, however late   *)
(* somebody looks and whoever presses the button first: every path out     *)
(* goes through open_shift, which ends a stale one where it should have.   *)
ShiftsAreBounded ==
  \A i \in DOMAIN shifts : shifts[i].out # None => shifts[i].out - shifts[i].in <= MAX_SHIFT_HOURS

(* When handlers take turns, hours_today is no more than the day has had:  *)
(* shifts do not overlap, and one over midnight counts from midnight.      *)
HoursFitTheDay ==
  alone => hours_today <= hour - Midnight

(* What services/attendance.py:6-9 and the duty toggle (routes/baker.py)   *)
(* say: the flag and the shift record cannot disagree.  Of somebody who    *)
(* has clocked in at least once, with handlers taking turns.               *)
RosterAgrees ==
  alone /\ AtRest /\ shifts # <<>> => (on_duty = (OpenShifts # {}))
=============================================================================
