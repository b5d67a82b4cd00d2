-------------------------- MODULE AttendanceProofs --------------------------
(***************************************************************************)
(* Proofs about Attendance, for any number of handlers and shifts.         *)
(*                                                                         *)
(* A handler that found the open shift goes on while the clock stands      *)
(* still, so a shift it found in time is one it ends in time.  When        *)
(* handlers take turns, the one at work knows what it read to be so, and   *)
(* that is all that keeps two shifts from being open, and so from          *)
(* overlapping.  What does not overlap adds up to no more than the day.    *)
(***************************************************************************)
EXTENDS Attendance, SumProofs, FiniteSetTheorems, SequenceTheorems, TLAPS

(* What a handler found is a shift that had not gone stale; no shift began *)
(* after now.                                                              *)
FoundInTime == \A h \in Handlers :
  /\ clerk[h].found \in 0 .. Len(shifts)
  /\ clerk[h].found # 0 => hour - shifts[clerk[h].found].in <= MAX_SHIFT_HOURS
Begun == \A i \in DOMAIN shifts : shifts[i].in <= hour

(* The rest is said of handlers that take turns.                           *)
Alone == \A h, g \in Handlers : h # g => clerk[h] = Rest \/ clerk[g] = Rest
Current == \A h \in Handlers :
  /\ clerk[h].task = "LOADED"
       => clerk[h].active = is_active /\ clerk[h].duty = on_duty /\ clerk[h].found = 0
  /\ clerk[h].task = "FOUND"
       => /\ clerk[h].duty = on_duty
          /\ clerk[h].job = "IN" => is_active
          /\ IF clerk[h].found = 0 THEN OpenShifts = {} ELSE OpenShifts = {clerk[h].found}
AtMostOne == \A i, j \in OpenShifts : i = j
AtWork == OpenShifts # {} => on_duty /\ is_active

TakingTurns == alone => Alone /\ Current /\ AtMostOne /\ AtWork

IInv == StaffTypeOK /\ FoundInTime /\ Begun /\ ShiftsAreBounded
TInv == IInv /\ TakingTurns
-----------------------------------------------------------------------------
(* Every request begins with the account being loaded.                     *)
LEMMA RequestsLoad ==
  ASSUME NEW h, Request(h)
  PROVE  \E job \in {"IN", "OUT", "ACTIVE", "LOOK"}, by \in {"self", "admin"} : Load(h, job, by)
BY DEF Request, i_am_in, i_am_off, send_home, set_on_duty, toggle_duty, toggle_staff_duty,
       toggle_staff_active, my_attendance, roster

(* Closing one shift leaves the others as they were.                       *)
LEMMA Closing ==
  ASSUME shifts \in Seq(Shift), NEW i \in DOMAIN shifts, NEW by \in {"self", "admin", "stale"},
         NEW at \in Nat
  PROVE  /\ _close(i, by, at) \in Seq(Shift)
         /\ Len(_close(i, by, at)) = Len(shifts)
         /\ DOMAIN _close(i, by, at) = DOMAIN shifts
         /\ _close(i, by, at)[i].in = shifts[i].in
         /\ _close(i, by, at)[i].out = at /\ _close(i, by, at)[i].by = by
         /\ \A j \in DOMAIN shifts \ {i} : _close(i, by, at)[j] = shifts[j]
<1> DEFINE s == [shifts[i] EXCEPT !.out = at, !.by = by]
<1>0. shifts[i] \in Shift
  BY ElementOfSeq
<1>1. s \in Shift /\ s.in = shifts[i].in /\ s.out = at /\ s.by = by
  BY <1>0 DEF Shift
<1>2. _close(i, by, at) = [shifts EXCEPT ![i] = s]
  BY DEF _close
<1> HIDE DEF s
<1> QED BY <1>1, <1>2

(* _is_stale: ending a stale shift where it should have ended.             *)
LEMMA Tidying ==
  ASSUME IInv, NEW i \in Latest
  PROVE  /\ Tidied(i) \in Seq(Shift) /\ Len(Tidied(i)) = Len(shifts)
         /\ DOMAIN Tidied(i) = DOMAIN shifts
         /\ \A j \in DOMAIN shifts : /\ Tidied(i)[j].in = shifts[j].in
                                     /\ (Tidied(i)[j].out = None) = (Tidied(i)[j].by = None)
                                     /\ Tidied(i)[j].out # None
                                          => Tidied(i)[j].out - shifts[j].in <= MAX_SHIFT_HOURS
         /\ ~Overdue(i) => Tidied(i) = shifts
         /\ Overdue(i) => /\ i \in OpenShifts
                          /\ \A j \in DOMAIN shifts :
                               (Tidied(i)[j].out = None) <=> (shifts[j].out = None /\ j # i)
<1>1. shifts \in Seq(Shift) /\ MAX_SHIFT_HOURS \in Nat /\ hour \in Nat
  BY AttendanceAssumption DEF IInv, StaffTypeOK
<1>2. CASE ~Overdue(i)
  BY <1>1, <1>2 DEF Tidied, IInv, StaffTypeOK, ShiftsAreBounded
<1>3. CASE Overdue(i)
  <2>1. i \in OpenShifts /\ i \in DOMAIN shifts /\ shifts[i].in \in Nat
    <3>1. i # 0
      BY <1>3 DEF Overdue
    <3>2. i \in OpenShifts
      BY <3>1 DEF Latest
    <3>3. i \in DOMAIN shifts
      BY <3>2 DEF OpenShifts
    <3>4. shifts[i] \in Shift
      BY <1>1, <3>3, ElementOfSeq
    <3> QED BY <3>2, <3>3, <3>4 DEF Shift
  <2> DEFINE at == shifts[i].in + MAX_SHIFT_HOURS
             new == _close(i, "stale", at)
  <2>2. at \in Nat
    BY <1>1, <2>1
  <2>3. Tidied(i) = new
    BY <1>3 DEF Tidied
  <2>4. /\ new \in Seq(Shift) /\ Len(new) = Len(shifts) /\ DOMAIN new = DOMAIN shifts
        /\ new[i].in = shifts[i].in /\ new[i].out = at /\ new[i].by = "stale"
        /\ \A j \in DOMAIN shifts \ {i} : new[j] = shifts[j]
    <3> HIDE DEF at
    <3> QED BY <1>1, <2>1, <2>2, Closing
  <2>5. at # None /\ at - shifts[i].in <= MAX_SHIFT_HOURS
    BY <1>1, <2>1, AttendanceAssumption
  <2>6. "stale" # None
    BY AttendanceAssumption
  <2> HIDE DEF new, at
  <2> QED BY <1>1, <1>3, <2>1, <2>3, <2>4, <2>5, <2>6 DEF IInv, StaffTypeOK, ShiftsAreBounded
<1> QED BY <1>2, <1>3

(* What a step owes the invariant, whatever it does to the shifts.         *)
GoodShifts(new) ==
  /\ new \in Seq(Shift) /\ Len(shifts) <= Len(new) /\ Len(new) <= MaxShifts
  /\ \A i \in DOMAIN shifts : new[i].in = shifts[i].in
  /\ \A i \in DOMAIN new : /\ new[i].in <= hour
                           /\ (new[i].out = None) = (new[i].by = None)
                           /\ new[i].out # None => new[i].out - new[i].in <= MAX_SHIFT_HOURS

GoodClerk(c) ==
  /\ c \in Clerk
  /\ c.found # 0 => /\ c.found \in DOMAIN shifts
                    /\ hour - shifts[c.found].in <= MAX_SHIFT_HOURS

LEMMA Owed ==
  ASSUME IInv, GoodShifts(shifts'), clerk' \in [Handlers -> Clerk],
         \A h \in Handlers : GoodClerk(clerk'[h]),
         exists' \in BOOLEAN, is_active' \in BOOLEAN, on_duty' \in BOOLEAN,
         UNCHANGED <<worked, hour, alone>>
  PROVE  IInv'
<1>1. StaffTypeOK'
  BY DEF IInv, StaffTypeOK, GoodShifts
<1>2. FoundInTime'
  <2> SUFFICES ASSUME NEW h \in Handlers
               PROVE  /\ clerk'[h].found \in 0 .. Len(shifts')
                      /\ clerk'[h].found # 0
                           => hour - shifts'[clerk'[h].found].in <= MAX_SHIFT_HOURS
    BY DEF FoundInTime
  <2>1. Len(shifts) \in Nat /\ Len(shifts') \in Nat /\ DOMAIN shifts = 1 .. Len(shifts)
    BY DEF IInv, StaffTypeOK, GoodShifts
  <2> QED BY <2>1 DEF GoodShifts, GoodClerk
<1>3. Begun'
  BY DEF Begun, GoodShifts
<1>4. ShiftsAreBounded'
  BY DEF ShiftsAreBounded, GoodShifts
<1> QED BY <1>1, <1>2, <1>3, <1>4 DEF IInv

LEMMA ShiftsAreGood == IInv => GoodShifts(shifts)
BY DEF IInv, GoodShifts, StaffTypeOK, Begun, ShiftsAreBounded

LEMMA ClerksAreGood == IInv => \A h \in Handlers : GoodClerk(clerk[h])
<1> SUFFICES ASSUME IInv, NEW h \in Handlers PROVE GoodClerk(clerk[h])
  OBVIOUS
<1>1. clerk[h] \in Clerk /\ clerk[h].found \in 0 .. Len(shifts) /\ shifts \in Seq(Shift)
  BY DEF IInv, StaffTypeOK, FoundInTime
<1> QED BY <1>1 DEF GoodClerk, IInv, FoundInTime

LEMMA RestIsGood ==
  ASSUME MaxShifts \in Nat
  PROVE  /\ GoodClerk(Rest)
         /\ GoodClerk([Rest EXCEPT !.task = "ANSWER"])
<1>1. Rest \in Clerk /\ Rest.found = 0
  BY DEF Rest, Clerk
<1>2. /\ [Rest EXCEPT !.task = "ANSWER"] \in Clerk
      /\ [Rest EXCEPT !.task = "ANSWER"].found = 0
  BY <1>1 DEF Clerk
<1> QED BY <1>1, <1>2 DEF GoodClerk

LEMMA ThenIsGood ==
  ASSUME IInv, NEW h \in Handlers, Then(h)
  PROVE  /\ clerk' \in [Handlers -> Clerk]
         /\ \A g \in Handlers : GoodClerk(clerk'[g])
         /\ \A g \in Handlers \ {h} : clerk'[g] = clerk[g]
         /\ clerk'[h].task \in {"ANSWER", "REST"}
<1>1. /\ GoodClerk(Rest) /\ GoodClerk([Rest EXCEPT !.task = "ANSWER"])
      /\ Rest.task = "REST" /\ [Rest EXCEPT !.task = "ANSWER"].task = "ANSWER"
  BY RestIsGood, AttendanceAssumption DEF Rest
<1>2. PICK c : /\ clerk' = [clerk EXCEPT ![h] = c]
               /\ c = Rest \/ c = [Rest EXCEPT !.task = "ANSWER"]
  BY DEF Then
<1> QED BY <1>1, <1>2, ClerksAreGood DEF GoodClerk, IInv, StaffTypeOK

(* clock_in and clock_out.                                                 *)
LEMMA AppendingIsGood ==
  ASSUME IInv, Len(shifts) < MaxShifts
  PROVE  GoodShifts(Append(shifts, [in |-> hour, out |-> None, by |-> None]))
<1> DEFINE s == [in |-> hour, out |-> None, by |-> None]
<1>1. s \in Shift /\ shifts \in Seq(Shift) /\ MaxShifts \in Nat /\ hour \in Nat
  BY AttendanceAssumption DEF Shift, IInv, StaffTypeOK
<1>2. s.in = hour /\ s.out = None /\ s.by = None
  OBVIOUS
<1> HIDE DEF s
<1>3. /\ Append(shifts, s) \in Seq(Shift) /\ Len(Append(shifts, s)) = Len(shifts) + 1
      /\ DOMAIN Append(shifts, s) = 1 .. Len(shifts) + 1
      /\ \A i \in 1 .. Len(shifts) : Append(shifts, s)[i] = shifts[i]
      /\ Append(shifts, s)[Len(shifts) + 1] = s
      /\ DOMAIN shifts = 1 .. Len(shifts) /\ Len(shifts) \in Nat
  BY <1>1
<1>4. GoodShifts(Append(shifts, s))
  BY <1>1, <1>2, <1>3, ShiftsAreGood DEF GoodShifts
<1> QED BY <1>4 DEF s

LEMMA ClosingIsGood ==
  ASSUME IInv, NEW i \in DOMAIN shifts, NEW by \in {"self", "admin"},
         hour - shifts[i].in <= MAX_SHIFT_HOURS
  PROVE  GoodShifts(_close(i, by, hour))
<1>1. shifts \in Seq(Shift) /\ hour \in Nat /\ hour # None /\ by # None
  BY AttendanceAssumption DEF IInv, StaffTypeOK
<1> QED BY <1>1, Closing, ShiftsAreGood DEF GoodShifts

LEMMA TidyingIsGood == IInv => \A i \in Latest : GoodShifts(Tidied(i))
BY Tidying, ShiftsAreGood DEF GoodShifts
-----------------------------------------------------------------------------
(* Every step keeps what is true with any number of handlers at once.      *)
LEMMA OpenShiftIsSound == ASSUME IInv, NEW h \in Handlers, open_shift(h) PROVE IInv'
<1>1. PICK i \in Latest :
        /\ shifts' = Tidied(i)
        /\ IF Overdue(i)
           THEN /\ is_active' = (is_active /\ clerk[h].job # "ACTIVE")
                /\ clerk' = [clerk EXCEPT
                     ![h].task = "FOUND", ![h].duty = on_duty,
                     ![h].job = IF @ = "ACTIVE" THEN "OUT" ELSE @]
           ELSE /\ clerk' = [clerk EXCEPT ![h].task = "FOUND", ![h].found = i]
                /\ UNCHANGED is_active
  BY DEF open_shift
<1>2. GoodShifts(shifts')
  BY <1>1, TidyingIsGood
<1>3. UNCHANGED <<exists, on_duty, worked, hour, alone>> /\ is_active' \in BOOLEAN
  BY <1>1 DEF open_shift, IInv, StaffTypeOK
<1>4. GoodClerk(clerk[h]) /\ clerk[h] \in Clerk /\ on_duty \in BOOLEAN
  BY ClerksAreGood DEF GoodClerk, IInv, StaffTypeOK
<1>5. CASE Overdue(i)
  <2> DEFINE c == [clerk[h] EXCEPT !.task = "FOUND", !.duty = on_duty,
                                   !.job = IF @ = "ACTIVE" THEN "OUT" ELSE @]
  <2>1. c \in Clerk /\ c.found = clerk[h].found
    BY <1>4 DEF Clerk
  <2>2. clerk' = [clerk EXCEPT ![h] = c]
    BY <1>1, <1>5
  <2> HIDE DEF c
  <2>3. GoodClerk(c)
    BY <1>4, <2>1 DEF GoodClerk
  <2>4. clerk' \in [Handlers -> Clerk] /\ \A g \in Handlers : GoodClerk(clerk'[g])
    BY <2>1, <2>2, <2>3, ClerksAreGood DEF IInv, StaffTypeOK
  <2> QED BY <1>2, <1>3, <2>4, Owed DEF IInv, StaffTypeOK
<1>6. CASE ~Overdue(i)
  <2> DEFINE c == [clerk[h] EXCEPT !.task = "FOUND", !.found = i]
  <2>1. /\ i = 0 \/ i \in DOMAIN shifts
        /\ shifts \in Seq(Shift) /\ Len(shifts) <= MaxShifts /\ MaxShifts \in Nat
    BY AttendanceAssumption DEF Latest, OpenShifts, IInv, StaffTypeOK
  <2>2. i \in 0 .. MaxShifts
    BY <2>1
  <2>3. c \in Clerk /\ c.found = i
    BY <1>4, <2>2 DEF Clerk
  <2>4. i # 0 => hour - shifts[i].in <= MAX_SHIFT_HOURS
    <3> SUFFICES ASSUME i # 0 PROVE hour - shifts[i].in <= MAX_SHIFT_HOURS
      OBVIOUS
    <3>1. shifts[i] \in Shift /\ hour \in Nat /\ MAX_SHIFT_HOURS \in Nat
      BY <2>1, ElementOfSeq, AttendanceAssumption DEF IInv, StaffTypeOK
    <3> QED BY <1>6, <3>1 DEF Overdue, _is_stale, Shift
  <2>5. clerk' = [clerk EXCEPT ![h] = c]
    BY <1>1, <1>6
  <2> HIDE DEF c
  <2>6. GoodClerk(c)
    BY <2>1, <2>3, <2>4 DEF GoodClerk
  <2>7. clerk' \in [Handlers -> Clerk] /\ \A g \in Handlers : GoodClerk(clerk'[g])
    BY <2>3, <2>5, <2>6, ClerksAreGood DEF IInv, StaffTypeOK
  <2> QED BY <1>2, <1>3, <2>7, Owed DEF IInv, StaffTypeOK
<1> QED BY <1>5, <1>6

LEMMA ClockIsSound ==
  ASSUME IInv, NEW h \in Handlers, clock_in(h) \/ clock_out(h) PROVE IInv'
<1>1. /\ UNCHANGED <<exists, worked, hour, alone>> /\ Then(h)
      /\ is_active' \in BOOLEAN /\ on_duty' \in BOOLEAN /\ exists' \in BOOLEAN
  BY DEF clock_in, clock_out, IInv, StaffTypeOK
<1>2. GoodShifts(shifts')
  <2>1. CASE clock_in(h)
    BY <2>1, AppendingIsGood, ShiftsAreGood DEF clock_in
  <2>2. CASE clock_out(h)
    <3>1. clerk[h].found # 0 => /\ clerk[h].found \in DOMAIN shifts
                               /\ hour - shifts[clerk[h].found].in <= MAX_SHIFT_HOURS
                               /\ clerk[h].by \in {"self", "admin"}
      BY ClerksAreGood DEF GoodClerk, Clerk
    <3> QED BY <2>2, <3>1, ClosingIsGood, ShiftsAreGood DEF clock_out
  <2> QED BY <2>1, <2>2
<1> QED BY <1>1, <1>2, ThenIsGood, Owed

LEMMA OneClerkIsSound ==
  ASSUME IInv, NEW h \in Handlers, NEW c, GoodClerk(c), clerk' = [clerk EXCEPT ![h] = c],
         GoodShifts(shifts'), is_active' \in BOOLEAN,
         UNCHANGED <<exists, on_duty, worked, hour, alone>>
  PROVE  IInv'
<1>1. clerk' \in [Handlers -> Clerk] /\ \A g \in Handlers : GoodClerk(clerk'[g])
  BY ClerksAreGood DEF GoodClerk, IInv, StaffTypeOK
<1> QED BY <1>1, Owed DEF IInv, StaffTypeOK

LEMMA StepIsSound == IInv /\ [StaffNext]_staffVars => IInv'
<1> SUFFICES ASSUME IInv, [StaffNext]_staffVars PROVE IInv'
  OBVIOUS
<1>1. /\ GoodShifts(shifts) /\ MaxShifts \in Nat /\ GoodClerk(Rest)
      /\ GoodClerk([Rest EXCEPT !.task = "ANSWER"])
      /\ is_active \in BOOLEAN /\ on_duty \in BOOLEAN
  BY ShiftsAreGood, RestIsGood, AttendanceAssumption DEF IInv, StaffTypeOK
<1>2. ASSUME NEW h \in Handlers, NEW job \in {"IN", "OUT", "ACTIVE", "LOOK"},
             NEW by \in {"self", "admin"}, Load(h, job, by)
      PROVE  IInv'
  <2> DEFINE c == [task |-> "LOADED", job |-> job, by |-> by,
                   active |-> is_active, duty |-> on_duty, found |-> 0]
  <2>1. GoodClerk(c)
    BY <1>1 DEF GoodClerk, Clerk
  <2>2. clerk' = [clerk EXCEPT ![h] = c] /\ shifts' = shifts
        /\ UNCHANGED <<exists, is_active, on_duty, worked, hour, alone>>
    BY <1>2 DEF Load
  <2> HIDE DEF c
  <2> QED BY <1>1, <2>1, <2>2, OneClerkIsSound
<1>3. ASSUME NEW h \in Handlers, Refused(h) \/ Reactivate(h) PROVE IInv'
  BY <1>1, <1>3, OneClerkIsSound DEF Refused, Reactivate
<1>4. ASSUME NEW h \in Handlers, Look(h) PROVE IInv'
  BY <1>1, <1>4, TidyingIsGood, OneClerkIsSound DEF Look
<1>5. CASE delete_staff
  BY <1>1, <1>5, ClerksAreGood, Owed DEF delete_staff, IInv, StaffTypeOK
<1>6. CASE Tick
  <2>1. /\ \A h \in Handlers : clerk[h].found = 0
        /\ hour' = hour + 1 /\ hour < LastHour /\ LastHour \in Nat
        /\ UNCHANGED <<exists, is_active, on_duty, shifts, worked, clerk, alone>>
    BY <1>6, AttendanceAssumption DEF Tick, AtRest, Rest
  <2>2. hour \in Nat /\ hour <= LastHour
    BY <2>1 DEF IInv, StaffTypeOK
  <2>3. StaffTypeOK'
    BY <2>1, <2>2 DEF IInv, StaffTypeOK
  <2>4. FoundInTime'
    BY <2>1 DEF IInv, FoundInTime
  <2>5. Begun'
    <3>1. ASSUME NEW i \in DOMAIN shifts PROVE shifts[i].in \in Nat
      <4>1. shifts[i] \in Shift
        BY ElementOfSeq DEF IInv, StaffTypeOK
      <4> QED BY <4>1 DEF Shift
    <3> QED BY <2>1, <2>2, <3>1 DEF IInv, Begun
  <2>6. ShiftsAreBounded'
    BY <2>1 DEF IInv, ShiftsAreBounded
  <2> QED BY <2>3, <2>4, <2>5, <2>6 DEF IInv
<1>7. CASE UNCHANGED staffVars
  BY <1>1, <1>7, ClerksAreGood, Owed DEF staffVars, IInv, StaffTypeOK
<1> QED BY <1>2, <1>3, <1>4, <1>5, <1>6, <1>7, RequestsLoad, OpenShiftIsSound, ClockIsSound
       DEF StaffNext

LEMMA InitIsSound == StaffInit => IInv
<1> SUFFICES ASSUME StaffInit PROVE IInv
  OBVIOUS
<1>1. /\ shifts = <<>> /\ shifts \in Seq(Shift) /\ Len(shifts) = 0 /\ DOMAIN shifts = {}
      /\ LastHour \in Nat /\ MaxShifts \in Nat
  BY AttendanceAssumption DEF StaffInit
<1>2. Rest \in Clerk /\ Rest.found = 0
  BY <1>1 DEF Rest, Clerk
<1>3. \A h \in Handlers : clerk[h] = Rest
  BY DEF StaffInit
<1> QED BY <1>1, <1>2, <1>3
        DEF StaffInit, IInv, StaffTypeOK, FoundInTime, Begun, ShiftsAreBounded

(* The types, and the shift a handler found, whoever else is at work.      *)
THEOREM StaffInvariance == StaffSpec => []IInv
BY InitIsSound, StepIsSound, PTL DEF StaffSpec

(* Every handler leaves the account and its shifts well formed, and a shift *)
(* has a way it ended exactly when it has an end (models/shift.py).        *)
THEOREM StaffTypeCorrect == StaffSpec => []StaffTypeOK
<1>1. IInv => StaffTypeOK
  BY DEF IInv
<1> QED BY <1>1, StaffInvariance, PTL

(* A forgotten clock-out is bounded, however late it is noticed and however*)
(* many handlers notice it.                                                *)
THEOREM Bounded == StaffSpec => []ShiftsAreBounded
<1>1. IInv => ShiftsAreBounded
  BY DEF IInv
<1> QED BY <1>1, StaffInvariance, PTL
-----------------------------------------------------------------------------
(* Handlers that take turns: nobody but the one at work holds anything.    *)
LEMMA OneWorks ==
  ASSUME TInv, alone, NEW h \in Handlers, clerk[h] # Rest \/ AtRest,
         clerk' \in [Handlers -> Clerk],
         \A g \in Handlers \ {h} : clerk'[g] = clerk[g]
  PROVE  /\ Alone'
         /\ \A g \in Handlers \ {h} : clerk'[g].task = "REST"
<1>1. \A g \in Handlers \ {h} : clerk[g] = Rest
  BY DEF TInv, TakingTurns, Alone, AtRest
<1> QED BY <1>1 DEF Alone, Rest

LEMMA TurnOver ==
  ASSUME TInv, alone, UNCHANGED alone, NEW h \in Handlers, clerk[h] # Rest \/ AtRest,
         clerk' \in [Handlers -> Clerk],
         \A g \in Handlers \ {h} : clerk'[g] = clerk[g],
         clerk'[h].task \notin {"LOADED", "FOUND"},
         AtMostOne', AtWork'
  PROVE  TakingTurns'
<1>1. Alone' /\ \A g \in Handlers : clerk'[g].task \notin {"LOADED", "FOUND"}
  BY OneWorks
<1> QED BY <1>1 DEF TakingTurns, Current

(* Ending a stale shift, the only one there was, leaves none open.         *)
LEMMA TidyingTurns ==
  ASSUME TInv, alone, NEW i \in Latest, shifts' = Tidied(i)
  PROVE  /\ OpenShifts' = IF Overdue(i) \/ i = 0 THEN {} ELSE {i}
         /\ AtMostOne'
<1>1. /\ AtMostOne /\ shifts \in Seq(Shift) /\ IInv
      /\ DOMAIN Tidied(i) = DOMAIN shifts
  BY Tidying DEF TInv, TakingTurns, IInv, StaffTypeOK
<1>2. CASE Overdue(i)
  <2>1. /\ i \in OpenShifts
        /\ \A j \in DOMAIN shifts : (Tidied(i)[j].out = None) <=> (shifts[j].out = None /\ j # i)
    BY <1>1, <1>2, Tidying
  <2>2. OpenShifts' = {}
    BY <1>1, <2>1 DEF OpenShifts, AtMostOne
  <2> QED BY <1>2, <2>2 DEF AtMostOne
<1>3. CASE ~Overdue(i)
  <2>1. OpenShifts' = OpenShifts
    BY <1>1, <1>3, Tidying DEF OpenShifts
  <2>2. OpenShifts = IF i = 0 THEN {} ELSE {i}
    <3>1. OpenShifts \subseteq DOMAIN shifts /\ 0 \notin DOMAIN shifts
      BY <1>1 DEF OpenShifts
    <3>2. CASE OpenShifts = {}
      BY <3>2 DEF Latest
    <3>3. CASE OpenShifts # {}
      <4>1. i \in OpenShifts
        BY <3>3 DEF Latest
      <4> QED BY <1>1, <3>1, <4>1 DEF AtMostOne
    <3> QED BY <3>2, <3>3
  <2> QED BY <1>1, <1>3, <2>1, <2>2 DEF AtMostOne
<1> QED BY <1>2, <1>3

LEMMA OpenShiftTurns ==
  ASSUME TInv, alone, NEW h \in Handlers, open_shift(h) PROVE TakingTurns'
<1>1. PICK i \in Latest :
        /\ shifts' = Tidied(i)
        /\ IF Overdue(i)
           THEN /\ is_active' = (is_active /\ clerk[h].job # "ACTIVE")
                /\ clerk' = [clerk EXCEPT
                     ![h].task = "FOUND", ![h].duty = on_duty,
                     ![h].job = IF @ = "ACTIVE" THEN "OUT" ELSE @]
           ELSE /\ clerk' = [clerk EXCEPT ![h].task = "FOUND", ![h].found = i]
                /\ UNCHANGED is_active
  BY DEF open_shift
<1>2. /\ clerk[h].task = "LOADED" /\ clerk[h] # Rest /\ UNCHANGED <<on_duty, alone>>
      /\ clerk[h].job = "IN" => clerk[h].active
  BY DEF open_shift, At, Rest
<1>3. /\ clerk \in [Handlers -> Clerk] /\ clerk[h] \in Clerk /\ IInv
      /\ Current /\ AtMostOne /\ AtWork
  BY <1>2 DEF TInv, IInv, StaffTypeOK, TakingTurns
<1>4. clerk' \in [Handlers -> Clerk]
  BY OpenShiftIsSound, <1>3 DEF IInv, StaffTypeOK
<1>5. /\ \A g \in Handlers \ {h} : clerk'[g] = clerk[g]
      /\ clerk'[h].task = "FOUND"
  BY <1>1, <1>3 DEF Clerk
<1>6. Alone' /\ \A g \in Handlers \ {h} : clerk'[g].task = "REST"
  BY <1>2, <1>4, <1>5, OneWorks
<1>7. /\ OpenShifts' = IF Overdue(i) \/ i = 0 THEN {} ELSE {i}
      /\ AtMostOne'
  BY <1>1, TidyingTurns
<1>8. /\ clerk[h].active = is_active /\ clerk[h].duty = on_duty /\ clerk[h].found = 0
      /\ clerk[h].active \in BOOLEAN
  BY <1>2, <1>3 DEF Current, Clerk
<1>9. clerk'[h].duty = on_duty /\ (clerk'[h].job = "IN" => clerk[h].job = "IN")
  BY <1>1, <1>3, <1>8 DEF Clerk
<1>10. clerk'[h].found = IF Overdue(i) THEN 0 ELSE i
  BY <1>1, <1>3, <1>8 DEF Clerk
<1>11. clerk'[h].job = "IN" => is_active'
  BY <1>1, <1>2, <1>8, <1>9
<1>12. Current'
  <2> SUFFICES ASSUME NEW g \in Handlers, clerk'[g].task \in {"LOADED", "FOUND"}
               PROVE  /\ g = h /\ clerk'[g].task = "FOUND" /\ clerk'[g].duty = on_duty'
                      /\ clerk'[g].job = "IN" => is_active'
                      /\ IF clerk'[g].found = 0 THEN OpenShifts' = {}
                         ELSE OpenShifts' = {clerk'[g].found}
    BY DEF Current
  <2>1. g = h
    BY <1>6
  <2> QED BY <1>2, <1>5, <1>7, <1>9, <1>10, <1>11, <2>1
<1>13. AtWork'
  <2>1. CASE OpenShifts' = {}
    BY <2>1 DEF AtWork
  <2>2. CASE OpenShifts' # {}
    <3>1. ~Overdue(i) /\ i # 0 /\ shifts' = shifts /\ is_active' = is_active
      BY <1>1, <1>3, <1>7, <2>2, Tidying
    <3>2. OpenShifts' = OpenShifts
      BY <3>1 DEF OpenShifts
    <3> QED BY <1>2, <1>3, <3>1, <3>2 DEF AtWork
  <2> QED BY <2>1, <2>2
<1> QED BY <1>2, <1>6, <1>7, <1>12, <1>13 DEF TakingTurns

LEMMA ClockTurns ==
  ASSUME TInv, alone, NEW h \in Handlers, clock_in(h) \/ clock_out(h) PROVE TakingTurns'
<1>1. /\ clerk[h].task = "FOUND" /\ clerk[h] # Rest /\ Then(h) /\ UNCHANGED alone
      /\ clerk \in [Handlers -> Clerk] /\ clerk[h] \in Clerk /\ IInv
      /\ Current /\ AtMostOne /\ AtWork /\ shifts \in Seq(Shift)
  <2>1. clerk[h].task = "FOUND" /\ Then(h) /\ UNCHANGED alone
    BY DEF clock_in, clock_out, At
  <2>2. clerk[h] # Rest
    BY <2>1 DEF Rest
  <2>3. /\ clerk \in [Handlers -> Clerk] /\ IInv /\ shifts \in Seq(Shift)
        /\ Current /\ AtMostOne /\ AtWork
    BY DEF TInv, TakingTurns, IInv, StaffTypeOK
  <2> QED BY <2>1, <2>2, <2>3
<1>2. /\ clerk[h].duty = on_duty /\ (clerk[h].job = "IN" => is_active)
      /\ IF clerk[h].found = 0 THEN OpenShifts = {} ELSE OpenShifts = {clerk[h].found}
      /\ on_duty \in BOOLEAN /\ is_active \in BOOLEAN
  BY <1>1 DEF Current, IInv, StaffTypeOK
<1>3. AtMostOne' /\ AtWork'
  <2>1. CASE clock_in(h)
    <3>1. on_duty' /\ is_active' /\ is_active
      BY <1>2, <2>1 DEF clock_in, At
    <3>2. CASE clerk[h].found # 0
      <4>1. OpenShifts' = OpenShifts
        BY <2>1, <3>2 DEF clock_in, OpenShifts
      <4> QED BY <1>1, <3>1, <4>1 DEF AtMostOne, AtWork
    <3>3. CASE clerk[h].found = 0
      <4> DEFINE s == [in |-> hour, out |-> None, by |-> None]
      <4>1. shifts' = Append(shifts, s)
        BY <2>1, <3>3 DEF clock_in
      <4>2. \A i \in DOMAIN shifts' : i # Len(shifts) + 1 => shifts'[i].out # None
        <5> HIDE DEF s
        <5>1. \A i \in DOMAIN shifts : shifts[i].out # None
          BY <1>2, <3>3 DEF OpenShifts
        <5> QED BY <1>1, <4>1, <5>1
      <4>3. \A i, j \in OpenShifts' : i = j
        BY <4>2 DEF OpenShifts
      <4> QED BY <3>1, <4>3 DEF AtMostOne, AtWork
    <3> QED BY <3>2, <3>3
  <2>2. CASE clock_out(h)
    <3>1. OpenShifts' = {}
      <4>1. CASE clerk[h].found = 0
        BY <1>2, <2>2, <4>1 DEF clock_out, OpenShifts
      <4>2. CASE clerk[h].found # 0
        <5>1. /\ clerk[h].found \in DOMAIN shifts /\ clerk[h].by \in {"self", "admin"}
              /\ hour \in Nat /\ hour # None
              /\ shifts' = _close(clerk[h].found, clerk[h].by, hour)
          BY <1>1, <2>2, <4>2, ClerksAreGood, AttendanceAssumption
             DEF clock_out, GoodClerk, Clerk, IInv, StaffTypeOK
        <5> QED BY <1>1, <1>2, <4>2, <5>1, Closing DEF OpenShifts
      <4> QED BY <4>1, <4>2
    <3> QED BY <3>1 DEF AtMostOne, AtWork
  <2> QED BY <2>1, <2>2
<1>4. /\ clerk' \in [Handlers -> Clerk] /\ \A g \in Handlers \ {h} : clerk'[g] = clerk[g]
      /\ clerk'[h].task \notin {"LOADED", "FOUND"}
  BY <1>1, ThenIsGood
<1> QED BY <1>1, <1>3, <1>4, TurnOver

LEMMA LookTurns ==
  ASSUME TInv, alone, NEW h \in Handlers, Look(h) PROVE TakingTurns'
<1>1. PICK i \in Latest : shifts' = Tidied(i)
  BY DEF Look
<1>2. AtMostOne' /\ OpenShifts' = IF Overdue(i) \/ i = 0 THEN {} ELSE {i}
  BY <1>1, TidyingTurns
<1>3. OpenShifts' # {} => OpenShifts # {}
  BY <1>2 DEF Latest
<1>4. AtWork'
  BY <1>3 DEF AtWork, Look, TInv, TakingTurns
<1>5. /\ clerk' = [clerk EXCEPT ![h] = Rest] /\ clerk[h] # Rest /\ UNCHANGED alone
      /\ clerk \in [Handlers -> Clerk] /\ Rest \in Clerk /\ Rest.task = "REST"
  BY RestIsGood, AttendanceAssumption
     DEF Look, At, TInv, IInv, StaffTypeOK, GoodClerk, Rest
<1> QED BY <1>2, <1>4, <1>5, TurnOver

LEMMA TurnsAreKept == TInv /\ [StaffNext]_staffVars => TakingTurns'
<1> SUFFICES ASSUME TInv, [StaffNext]_staffVars PROVE TakingTurns'
  OBVIOUS
<1>1. alone' = alone
  BY RequestsLoad
     DEF StaffNext, staffVars, delete_staff, Tick, Load, Refused, open_shift, clock_in, clock_out,
         Reactivate, Look
<1>2. CASE ~alone
  BY <1>1, <1>2 DEF TakingTurns
<1>3. CASE alone
  <2>1. /\ clerk \in [Handlers -> Clerk] /\ Alone /\ Current /\ AtMostOne /\ AtWork
        /\ is_active \in BOOLEAN /\ on_duty \in BOOLEAN
        /\ Rest \in Clerk /\ Rest.task = "REST"
        /\ [Rest EXCEPT !.task = "ANSWER"] \in Clerk
        /\ [Rest EXCEPT !.task = "ANSWER"].task = "ANSWER"
    BY <1>3, RestIsGood, AttendanceAssumption
       DEF TInv, TakingTurns, IInv, StaffTypeOK, GoodClerk, Rest
  <2>2. ASSUME NEW h \in Handlers, NEW job \in {"IN", "OUT", "ACTIVE", "LOOK"},
               NEW by \in {"self", "admin"}, Load(h, job, by)
        PROVE  TakingTurns'
    <3> DEFINE c == [task |-> "LOADED", job |-> job, by |-> by,
                     active |-> is_active, duty |-> on_duty, found |-> 0]
    <3>1. c \in Clerk /\ c.task = "LOADED" /\ c.active = is_active /\ c.duty = on_duty
          /\ c.found = 0
      BY <2>1, AttendanceAssumption DEF Clerk
    <3>2. /\ clerk' = [clerk EXCEPT ![h] = c] /\ AtRest
          /\ UNCHANGED <<is_active, on_duty, shifts>>
      BY <1>3, <2>2 DEF Load
    <3> HIDE DEF c
    <3>3. Alone' /\ \A g \in Handlers \ {h} : clerk'[g].task = "REST"
      BY <1>3, <2>1, <3>1, <3>2, OneWorks
    <3>4. Current'
      BY <2>1, <3>1, <3>2, <3>3 DEF Current
    <3>5. AtMostOne' /\ AtWork'
      BY <2>1, <3>2 DEF AtMostOne, AtWork, OpenShifts
    <3> QED BY <3>3, <3>4, <3>5 DEF TakingTurns
  <2>3. ASSUME NEW h \in Handlers, Refused(h) \/ Reactivate(h) PROVE TakingTurns'
    <3>1. PICK c \in Clerk : /\ clerk' = [clerk EXCEPT ![h] = c]
                            /\ c.task \notin {"LOADED", "FOUND"}
      BY <2>1, <2>3 DEF Refused, Reactivate
    <3>2. /\ clerk[h] # Rest /\ UNCHANGED <<on_duty, shifts, alone>>
          /\ is_active' = is_active \/ is_active'
      BY <2>3 DEF Refused, Reactivate, At, Rest
    <3>3. AtMostOne' /\ AtWork'
      BY <2>1, <3>2 DEF AtMostOne, AtWork, OpenShifts
    <3> QED BY <1>3, <2>1, <3>1, <3>2, <3>3, TurnOver
  <2>4. CASE delete_staff \/ Tick \/ UNCHANGED staffVars
    <3>1. UNCHANGED <<clerk, shifts, on_duty, is_active>>
      BY <2>4 DEF delete_staff, Tick, staffVars
    <3>2. OpenShifts' = OpenShifts
      BY <3>1 DEF OpenShifts
    <3>3. Alone' /\ AtMostOne' /\ AtWork'
      BY <2>1, <3>1, <3>2 DEF Alone, AtMostOne, AtWork
    <3>4. Current'
      BY <2>1, <3>1, <3>2 DEF Current
    <3> QED BY <3>3, <3>4 DEF TakingTurns
  <2> QED BY <1>3, <2>2, <2>3, <2>4, RequestsLoad, OpenShiftTurns, ClockTurns, LookTurns
         DEF StaffNext
<1> QED BY <1>2, <1>3

(* Handlers that take turns: the one at work knows what it read to be so.  *)
THEOREM TurnsInvariance == StaffSpec => []TInv
<1>1. StaffInit => TInv
  <2> SUFFICES ASSUME StaffInit PROVE TakingTurns
    BY InitIsSound DEF TInv
  <2>1. OpenShifts = {} /\ \A h \in Handlers : clerk[h] = Rest
    BY DEF StaffInit, OpenShifts
  <2> QED BY <2>1 DEF TakingTurns, Alone, Current, AtMostOne, AtWork, Rest
<1>2. TInv /\ [StaffNext]_staffVars => TInv'
  BY StepIsSound, TurnsAreKept DEF TInv
<1> QED BY <1>1, <1>2, PTL DEF StaffSpec

(* A double tap, a deactivation and a stale shift, whichever comes first:  *)
(* clock_in, toggle_staff_active and _is_stale, in any order.              *)
THEOREM OneAtATime == StaffSpec => []OneShiftAtWork
<1>1. TInv => OneShiftAtWork
  <2> SUFFICES ASSUME TInv, alone PROVE /\ Cardinality(OpenShifts) <= 1
                                        /\ OpenShifts # {} => on_duty /\ is_active
    BY DEF OneShiftAtWork
  <2>1. OpenShifts = {} \/ \E i \in OpenShifts : OpenShifts = {i}
    BY DEF TInv, TakingTurns, AtMostOne
  <2>2. Cardinality(OpenShifts) <= 1
    <3>1. CASE OpenShifts = {}
      BY <3>1, FS_EmptySet
    <3>2. ASSUME NEW i, OpenShifts = {i} PROVE Cardinality(OpenShifts) <= 1
      BY <3>2, FS_Singleton
    <3> QED BY <2>1, <3>1, <3>2
  <2> QED BY <2>2 DEF TInv, TakingTurns, AtWork
<1> QED BY <1>1, TurnsInvariance, PTL
-----------------------------------------------------------------------------
(* Shifts that follow one another.                                         *)
Past  == \A i \in DOMAIN shifts :
           shifts[i].out # None => shifts[i].in <= shifts[i].out /\ shifts[i].out <= hour
Chain == \A i, j \in DOMAIN shifts :
           i < j => shifts[i].out # None /\ shifts[i].out <= shifts[j].in
Orderly == alone => Past /\ Chain
HInv == TInv /\ Orderly

LEMMA ShiftsHaveFields ==
  ASSUME IInv
  PROVE  /\ Len(shifts) \in Nat /\ DOMAIN shifts = 1 .. Len(shifts) /\ hour \in Nat
         /\ MAX_SHIFT_HOURS \in Nat /\ None \notin Nat
         /\ \A i \in DOMAIN shifts : /\ shifts[i].in \in Nat /\ shifts[i].in <= hour
                                     /\ shifts[i].out \in Nat \cup {None}
<1>1. shifts \in Seq(Shift)
  BY DEF IInv, StaffTypeOK
<1>2. \A i \in DOMAIN shifts : shifts[i] \in Shift
  BY <1>1, ElementOfSeq
<1> QED BY <1>1, <1>2, AttendanceAssumption, LenProperties DEF IInv, StaffTypeOK, Begun, Shift

(* Ending the open shift, which is the last one.                           *)
LEMMA EndingTheLast ==
  ASSUME IInv, Past, Chain, UNCHANGED hour, DOMAIN shifts' = DOMAIN shifts,
         NEW i \in OpenShifts, NEW at \in Nat, shifts[i].in <= at, at <= hour,
         shifts'[i].in = shifts[i].in, shifts'[i].out = at,
         \A j \in DOMAIN shifts \ {i} : shifts'[j] = shifts[j]
  PROVE  Past' /\ Chain'
<1>1. /\ i \in DOMAIN shifts /\ shifts[i].out = None /\ None \notin Nat
      /\ \A j \in DOMAIN shifts : j \in Int
  BY ShiftsHaveFields DEF OpenShifts
<1>2. \A j \in DOMAIN shifts : ~(i < j)
  BY <1>1 DEF Chain
<1>3. Past'
  BY <1>1 DEF Past
<1>4. Chain'
  <2> SUFFICES ASSUME NEW j \in DOMAIN shifts, NEW k \in DOMAIN shifts, j < k
               PROVE  shifts'[j].out # None /\ shifts'[j].out <= shifts'[k].in
    BY DEF Chain
  <2>1. j # i /\ shifts'[j] = shifts[j]
    BY <1>2
  <2>2. shifts'[k].in = shifts[k].in
    OBVIOUS
  <2> QED BY <2>1, <2>2 DEF Chain
<1> QED BY <1>3, <1>4

LEMMA TidyingInOrder ==
  ASSUME IInv, Past, Chain, UNCHANGED hour, NEW i \in Latest, shifts' = Tidied(i)
  PROVE  Past' /\ Chain'
<1>1. CASE ~Overdue(i)
  <2>1. shifts' = shifts
    BY <1>1 DEF Tidied
  <2> QED BY <2>1 DEF Past, Chain
<1>2. CASE Overdue(i)
  <2>1. i \in OpenShifts
    BY <1>2, Tidying
  <2>2. /\ i \in DOMAIN shifts /\ shifts \in Seq(Shift) /\ shifts[i].in \in Nat
        /\ MAX_SHIFT_HOURS \in Nat /\ hour \in Nat
    BY <2>1, ShiftsHaveFields DEF OpenShifts, IInv, StaffTypeOK
  <2> DEFINE at == shifts[i].in + MAX_SHIFT_HOURS
  <2>3. at \in Nat /\ shifts[i].in <= at /\ at <= hour
    BY <1>2, <2>2 DEF Overdue, _is_stale
  <2>4. shifts' = _close(i, "stale", at)
    BY <1>2 DEF Tidied
  <2> HIDE DEF at
  <2>5. /\ DOMAIN shifts' = DOMAIN shifts
        /\ shifts'[i].in = shifts[i].in /\ shifts'[i].out = at
        /\ \A j \in DOMAIN shifts \ {i} : shifts'[j] = shifts[j]
    BY <2>2, <2>3, <2>4, Closing
  <2> QED BY <2>1, <2>3, <2>5, EndingTheLast
<1> QED BY <1>1, <1>2

LEMMA ClockingInOrder ==
  ASSUME TInv, alone, Past, Chain, NEW h \in Handlers, clock_in(h) \/ clock_out(h)
  PROVE  Past' /\ Chain'
<1>1. /\ clerk[h].task = "FOUND" /\ clerk \in [Handlers -> Clerk] /\ clerk[h] \in Clerk
      /\ UNCHANGED hour /\ IInv /\ Current /\ shifts \in Seq(Shift)
  BY DEF clock_in, clock_out, At, TInv, TakingTurns, IInv, StaffTypeOK
<1>2. IF clerk[h].found = 0 THEN OpenShifts = {} ELSE OpenShifts = {clerk[h].found}
  BY <1>1 DEF Current
<1>3. CASE UNCHANGED shifts
  BY <1>1, <1>3 DEF Past, Chain
<1>4. CASE clock_in(h) /\ clerk[h].found = 0
  <2> DEFINE s == [in |-> hour, out |-> None, by |-> None]
             n == Len(shifts) + 1
  <2>1. shifts' = Append(shifts, s) /\ s.in = hour /\ s.out = None
    BY <1>4 DEF clock_in
  <2> HIDE DEF s
  <2>2. /\ Len(shifts) \in Nat /\ DOMAIN shifts = 1 .. Len(shifts)
        /\ DOMAIN shifts' = 1 .. n /\ shifts'[n] = s
        /\ \A i \in DOMAIN shifts : shifts'[i] = shifts[i]
    BY <1>1, <2>1
  <2>3. \A i \in DOMAIN shifts : shifts[i].out # None /\ shifts[i].out <= hour
    BY <1>2, <1>4 DEF OpenShifts, Past
  <2>4. Past'
    BY <1>1, <2>1, <2>2 DEF Past
  <2>5. Chain'
    <3> SUFFICES ASSUME NEW i \in 1 .. n, NEW j \in 1 .. n, i < j
                 PROVE  shifts'[i].out # None /\ shifts'[i].out <= shifts'[j].in
      BY <2>2 DEF Chain
    <3>1. i \in DOMAIN shifts /\ shifts'[i] = shifts[i]
      BY <2>2
    <3>2. CASE j = n
      BY <2>1, <2>2, <2>3, <3>1, <3>2
    <3>3. CASE j # n
      BY <2>2, <3>1, <3>3 DEF Chain
    <3> QED BY <3>2, <3>3
  <2> QED BY <2>4, <2>5
<1>5. CASE clock_out(h) /\ clerk[h].found # 0
  <2> DEFINE i == clerk[h].found
  <2>1. /\ i \in OpenShifts /\ i \in DOMAIN shifts /\ clerk[h].by \in {"self", "admin"}
        /\ shifts' = _close(i, clerk[h].by, hour)
    BY <1>1, <1>2, <1>5 DEF clock_out, OpenShifts, Clerk
  <2>2. hour \in Nat /\ shifts[i].in <= hour
    BY <1>1, <2>1, ShiftsHaveFields
  <2> HIDE DEF i
  <2>3. /\ DOMAIN shifts' = DOMAIN shifts
        /\ shifts'[i].in = shifts[i].in /\ shifts'[i].out = hour
        /\ \A j \in DOMAIN shifts \ {i} : shifts'[j] = shifts[j]
    BY <1>1, <2>1, <2>2, Closing
  <2> QED BY <1>1, <2>1, <2>2, <2>3, EndingTheLast
<1>6. \/ UNCHANGED shifts \/ (clock_in(h) /\ clerk[h].found = 0)
      \/ (clock_out(h) /\ clerk[h].found # 0)
  BY DEF clock_in, clock_out
<1> QED BY <1>3, <1>4, <1>5, <1>6

LEMMA OrderIsKept == HInv /\ [StaffNext]_staffVars => Orderly'
<1> SUFFICES ASSUME HInv, [StaffNext]_staffVars PROVE Orderly'
  OBVIOUS
<1>0. alone' = alone
  BY RequestsLoad
     DEF StaffNext, staffVars, delete_staff, Tick, Load, Refused, open_shift, clock_in,
         clock_out, Reactivate, Look
<1> SUFFICES ASSUME alone PROVE Past' /\ Chain'
  BY <1>0 DEF Orderly
<1>1. TInv /\ IInv /\ Past /\ Chain
  BY DEF HInv, TInv, Orderly
<1>2. ASSUME UNCHANGED shifts, hour' \in {hour, hour + 1} PROVE Past' /\ Chain'
  BY <1>1, <1>2, ShiftsHaveFields DEF Past, Chain
<1>3. CASE delete_staff \/ Tick \/ UNCHANGED staffVars
  BY <1>2, <1>3 DEF delete_staff, Tick, staffVars
<1>4. ASSUME NEW h \in Handlers, Request(h) \/ Refused(h) \/ Reactivate(h)
      PROVE  Past' /\ Chain'
  BY <1>2, <1>4, RequestsLoad DEF Load, Refused, Reactivate
<1>5. ASSUME NEW h \in Handlers, open_shift(h) \/ Look(h) PROVE Past' /\ Chain'
  BY <1>1, <1>5, TidyingInOrder DEF open_shift, Look
<1> QED BY <1>1, <1>3, <1>4, <1>5, ClockingInOrder DEF StaffNext

(* Shifts follow one another while handlers take turns: each has ended     *)
(* when the next begins (clock_in, clock_out, open_shift).                 *)
THEOREM ShiftsInOrder == StaffSpec => []HInv
<1>1. StaffInit => Orderly
  BY DEF StaffInit, Orderly, Past, Chain
<1>2. TInv /\ Orderly /\ [StaffNext]_staffVars => Orderly'
  BY OrderIsKept DEF HInv
<1>3. TInv /\ Orderly <=> HInv
  BY DEF HInv
<1> QED BY <1>1, <1>2, <1>3, TurnsInvariance, PTL DEF StaffSpec
-----------------------------------------------------------------------------
(* The sum of the hours.                                                   *)
LEMMA HighestIs ==
  ASSUME NEW S, IsFiniteSet(S), S \subseteq Int, S # {}
  PROVE  \E k \in S : \A i \in S : i <= k
<1> DEFINE X == {s \in SUBSET S : s = {} \/ \E k \in s : \A i \in s : i <= k}
<1>1. {} \in X
  OBVIOUS
<1>2. ASSUME NEW s \in SUBSET S, s # {}, \A x \in s : s \ {x} \in X PROVE s \in X
  <2>1. PICK x \in s : TRUE
    BY <1>2
  <2>2. x \in Int /\ s \subseteq Int /\ s \ {x} \in X
    BY <1>2, <2>1
  <2>3. CASE s \ {x} = {}
    BY <2>1, <2>2, <2>3
  <2>4. CASE s \ {x} # {}
    <3>1. PICK k \in s \ {x} : \A i \in s \ {x} : i <= k
      BY <2>2, <2>4
    <3>2. CASE x <= k
      BY <3>1, <3>2, <2>2
    <3>3. CASE ~(x <= k)
      <4>1. \A i \in s : i <= x
        BY <2>2, <3>1, <3>3
      <4> QED BY <2>1, <4>1
    <3> QED BY <3>2, <3>3
  <2> QED BY <2>3, <2>4
<1> HIDE DEF X
<1>3. S \in X
  BY <1>1, <1>2, BySize
<1> QED BY <1>3 DEF X

HoursOf == [i \in DOMAIN shifts |-> Ended(i) - Started(i)]
Today   == {i \in DOMAIN shifts : Ended(i) > Midnight}

LEMMA TodayIsFinite == ASSUME IInv PROVE IsFiniteSet(Today) /\ Today \subseteq DOMAIN shifts
<1>1. IsFiniteSet(1 .. Len(shifts)) /\ Today \subseteq 1 .. Len(shifts)
  BY ShiftsHaveFields, FS_Interval DEF Today
<1> QED BY <1>1, FS_Subset DEF Today

HoursSum(G, P) ==
  G = [s \in SUBSET P |-> IF s = {} THEN 0 ELSE (Ended(OneOf(s)) - Started(OneOf(s))) + G[s \ {OneOf(s)}]]
LEMMA HoursAreATotal == ASSUME IInv PROVE hours_today = Total(HoursOf, Today)
<1> DEFINE P == Today
           g == HoursOf
<1>1. IsFiniteSet(P) /\ P \subseteq DOMAIN shifts
  BY TodayIsFinite
<1>2. hours_today = (CHOOSE G : HoursSum(G, P))[P]
  BY DEF hours_today, MapThenSumSet, MapThenFoldSet, HoursSum, OneOf, Today
<1>3. \A s \in SUBSET P : s # {} => g[OneOf(s)] = Ended(OneOf(s)) - Started(OneOf(s))
  BY <1>1, OneOfThem DEF HoursOf
<1> HIDE DEF P, g
<1>4. PICK H : IsSum(H, g, SUBSET P) /\ Total(g, P) = H[P]
  BY <1>1, TotalIsASum
<1>5. \A G : HoursSum(G, P) <=> IsSum(G, g, SUBSET P)
  <2>1. ASSUME NEW G
        PROVE  [s \in SUBSET P |-> IF s = {} THEN 0
                ELSE (Ended(OneOf(s)) - Started(OneOf(s))) + G[s \ {OneOf(s)}]]
               = [s \in SUBSET P |-> IF s = {} THEN 0 ELSE g[OneOf(s)] + G[s \ {OneOf(s)}]]
    BY <1>3
  <2> QED BY <2>1 DEF HoursSum, IsSum
<1>6. IsSum((CHOOSE G : HoursSum(G, P)), g, SUBSET P)
  BY <1>4, <1>5
<1> DEFINE C == CHOOSE G : HoursSum(G, P)
<1> HIDE DEF C
<1>7. C[P] = H[P]
  BY <1>1, <1>4, <1>6, SumsAgree DEF C
<1> QED BY <1>2, <1>4, <1>7 DEF C, P, g

LEMMA MidnightHasPassed ==
  ASSUME IInv PROVE Midnight \in Nat /\ hour \in Nat /\ Midnight <= hour
<1>1. hour \in Nat /\ DayHours \in Nat /\ DayHours > 0
  BY AttendanceAssumption DEF IInv, StaffTypeOK
<1> DEFINE q == hour \div DayHours
           r == hour % DayHours
<1>2. q \in Nat /\ r \in Nat /\ hour = (DayHours * q) + r
  BY <1>1
<1>3. Midnight = q * DayHours
  BY DEF Midnight
<1> HIDE DEF q, r
<1>4. DayHours * q = q * DayHours /\ q * DayHours \in Nat
  BY <1>1, <1>2
<1> QED BY <1>1, <1>2, <1>3, <1>4

(* Each shift of today lies between midnight and now, and one that follows *)
(* another starts when that one has ended.                                 *)
LEMMA HoursInOrder ==
  ASSUME IInv, Past, Chain
  PROVE  /\ \A i \in Today : /\ Started(i) \in Int /\ Ended(i) \in Int
                             /\ Midnight <= Started(i) /\ Ended(i) <= hour
                             /\ HoursOf[i] = Ended(i) - Started(i)
         /\ \A i, j \in Today : i < j => Ended(i) <= Started(j)
<1>1. Midnight \in Int /\ hour \in Int
  BY MidnightHasPassed
<1>2. ASSUME NEW i \in DOMAIN shifts
      PROVE  /\ Started(i) \in Int /\ Ended(i) \in Int
             /\ Midnight <= Started(i) /\ shifts[i].in <= Started(i) /\ Ended(i) <= hour
             /\ HoursOf[i] = Ended(i) - Started(i)
  <2>1. shifts[i].in \in Int /\ shifts[i].out \in Nat \cup {None}
    BY ShiftsHaveFields
  <2> DEFINE a == shifts[i].in
             m == Midnight
  <2>2. a \in Int /\ m \in Int /\ Started(i) = Max({a, m})
    BY <1>1, <2>1 DEF Started
  <2> HIDE DEF a, m
  <2>3. \E x \in {a, m} : \A y \in {a, m} : x >= y
    BY <2>2
  <2>4. Max({a, m}) \in {a, m} /\ \A y \in {a, m} : Max({a, m}) >= y
    BY <2>3 DEF Max
  <2>5. Started(i) \in Int /\ m <= Started(i) /\ a <= Started(i)
    BY <2>2, <2>4
  <2>6. Ended(i) \in Int /\ Ended(i) <= hour
    BY <1>1, <2>1 DEF Ended, Past
  <2> QED BY <2>5, <2>6 DEF a, m, HoursOf
<1>3. ASSUME NEW i \in DOMAIN shifts, NEW j \in DOMAIN shifts, i < j
      PROVE  Ended(i) <= Started(j)
  <2>1. shifts[i].out # None /\ shifts[i].out <= shifts[j].in
    BY <1>3 DEF Chain
  <2>2. Ended(i) = shifts[i].out /\ shifts[i].out \in Int /\ shifts[j].in \in Int
    BY <2>1, ShiftsHaveFields DEF Ended
  <2>3. Started(j) \in Int /\ shifts[j].in <= Started(j)
    BY <1>2
  <2> QED BY <2>1, <2>2, <2>3
<1> QED BY <1>2, <1>3 DEF Today

(* Ended one after the other, shifts add up to no more than the time from  *)
(* midnight to the last of their ends.                                     *)
LEMMA HoursAddUp ==
  ASSUME IInv, Past, Chain
  PROVE  Total(HoursOf, Today) <= hour - Midnight
<1> DEFINE g == HoursOf
           P == Today
           m == Midnight
           X == {s \in SUBSET P : \A t \in Int :
                   m <= t /\ (\A i \in s : Ended(i) <= t) => Total(g, s) <= t - m}
<1>1. /\ IsFiniteSet(P) /\ P \subseteq Int /\ m \in Int /\ hour \in Int /\ m <= hour
      /\ \A i \in P : /\ Started(i) \in Int /\ Ended(i) \in Int
                      /\ m <= Started(i) /\ Ended(i) <= hour
                      /\ g[i] = Ended(i) - Started(i)
      /\ \A i, j \in P : i < j => Ended(i) <= Started(j)
  <2>1. IsFiniteSet(P) /\ P \subseteq Int
    BY TodayIsFinite, ShiftsHaveFields
  <2>2. m \in Int /\ hour \in Int /\ m <= hour
    BY MidnightHasPassed
  <2> QED BY <2>1, <2>2, HoursInOrder
<1> HIDE DEF g, P, m
<1>2. {} \in X
  BY <1>1, TotalOfNone
<1>3. ASSUME NEW s \in SUBSET P, s # {}, IsFiniteSet(s), \A x \in s : s \ {x} \in X,
             NEW t \in Int, m <= t, \A i \in s : Ended(i) <= t
      PROVE  Total(g, s) <= t - m
  <2>1. PICK k \in s : \A i \in s : i <= k
    BY <1>1, <1>3, HighestIs
  <2>2. \A i \in s : g[i] \in Int
    BY <1>1
  <2>3. Total(g, s) = g[k] + Total(g, s \ {k})
    BY <1>3, <2>2, TotalFrom
  <2>4. /\ Started(k) \in Int /\ Ended(k) \in Int /\ m <= Started(k)
        /\ g[k] = Ended(k) - Started(k) /\ Ended(k) <= t
    BY <1>1, <1>3
  <2>5. \A i \in s \ {k} : Ended(i) <= Started(k)
    BY <1>1, <2>1
  <2>6. Total(g, s \ {k}) <= Started(k) - m
    BY <1>3, <2>4, <2>5
  <2>7. Total(g, s \ {k}) \in Int
    <3>1. IsFiniteSet(s \ {k}) /\ \A i \in s \ {k} : g[i] \in Int
      BY <1>3, <2>2, FS_Subset
    <3> QED BY <3>1, TotalIsInt
  <2> QED BY <1>1, <2>3, <2>4, <2>6, <2>7
<1>4. ASSUME NEW s \in SUBSET P, s # {}, IsFiniteSet(s), \A x \in s : s \ {x} \in X PROVE s \in X
  BY <1>3, <1>4
<1> HIDE DEF X
<1>5. P \in X
  BY <1>1, <1>2, <1>4, BySize
<1>6. Total(g, P) <= hour - m
  BY <1>1, <1>5 DEF X
<1> QED BY <1>6 DEF g, P, m

(* hours_today (services/attendance.py) is no more than the day has had    *)
(* while handlers take turns, for any number of shifts.                    *)
THEOREM NoMoreThanTheDay == StaffSpec => []HoursFitTheDay
<1>1. HInv => HoursFitTheDay
  BY HoursAreATotal, HoursAddUp DEF HInv, TInv, Orderly, HoursFitTheDay
<1> QED BY <1>1, ShiftsInOrder, PTL
=============================================================================
