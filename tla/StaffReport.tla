----------------------------- MODULE StaffReport -----------------------------
(***************************************************************************)
(* The monthly report and the weekly figures of the staff                  *)
(* (internal/staff/report.go, Summarize): nobody records who came; what a  *)
(* member was on a past day is restored by playing the journal of events   *)
(* backwards from what he is now.                                          *)
(*                                                                         *)
(* The clock counts days.  A day begins at 00:00; whatever a manager does  *)
(* on it happens later on that day.                                        *)
(***************************************************************************)
EXTENDS Integers, Sequences, FiniteSets, FiniteSetsExt

CONSTANTS
  Worker,     \* members of the staff
  Shifts,     \* the schedules given to them: sets of weekdays, start and end
  Salary,     \* monthly salary, in tiyin
  Month,      \* the days of the month the report is about
  HireDates,  \* dates of hiring given by hand
  LastDay,    \* bound: the last day of the model
  WeekDays,   \* days in a week
  MaxEvents,  \* bound: events in the journal
  Unset       \* no schedule, no date, no salary to pay

ASSUME ReportAssumption ==
  /\ LastDay \in Nat \ {0} /\ WeekDays \in Nat \ {0} /\ MaxEvents \in Nat
  /\ Salary \in Nat \ {0} /\ Month \subseteq 1..LastDay /\ HireDates \subseteq Int

VARIABLES
  roster,   \* staff_members
  journal,  \* staff_events, the newest first
  day,      \* today
  dawn      \* what each member was at 00:00 of each day (not stored anywhere)

reportVars == <<roster, journal, day, dawn>>

Nowhere == [status |-> "none"]
Employed == {w \in Worker : roster[w] # Nowhere}

State(row) == [status |-> row.status, shift |-> row.shift]

-----------------------------------------------------------------------------
(* What managers do, one journal entry for each change *)

Journal(w, kind, from) ==
  journal' = <<[who |-> w, kind |-> kind, from |-> from, at |-> day]>> \o journal

Hire(w) == \E shift \in Shifts \cup {Unset}, hired \in {Unset} \cup HireDates :
  LET row == [status |-> "active", shift |-> shift, hired |-> hired, since |-> day] IN
  /\ roster[w] = Nowhere
  /\ roster' = [roster EXCEPT ![w] = row]
  /\ dawn' = [dawn EXCEPT ![w] = [d \in 1..day |-> State(row)]]
  /\ UNCHANGED journal

SetStatus(w) == \E status \in {"active", "on_leave", "dismissed"} \ {roster[w].status} :
  /\ roster' = [roster EXCEPT ![w].status = status]
  /\ Journal(w, "status_changed", roster[w].status)

SetShift(w) == \E shift \in (Shifts \cup {Unset}) \ {roster[w].shift} :
  /\ roster' = [roster EXCEPT ![w].shift = shift]
  /\ Journal(w, "schedule_changed", roster[w].shift)

NextDay == /\ day < LastDay
           /\ day' = day + 1
           /\ dawn' = [w \in Worker |-> IF w \in Employed THEN Append(dawn[w], State(roster[w])) ELSE <<>>]
           /\ UNCHANGED <<roster, journal>>

-----------------------------------------------------------------------------
(* The report *)

Weekday(d) == d % WeekDays
WorksOn(shift, d) == shift = Unset \/ Weekday(d) \in shift.days

(* A shift that ends at or before its start ends on the next day.          *)
ShiftMinutes(shift) ==
  IF shift = Unset THEN 0
  ELSE IF shift.end > shift.start THEN shift.end - shift.start
  ELSE 24 * 60 - shift.start + shift.end

(* The events read: those since a day, by their places in the journal.     *)
Since(d) == {i \in DOMAIN journal : journal[i].at >= d}

(* Mutant: what happened on the day itself is not undone.                  *)
AfterThe(w, d, events) ==
  {i \in events : \A j \in events : j <= i /\ journal[j].who = w => journal[j].at > d}

(* Those played back to 00:00 of day d: up to the first of w's before it.  *)
After(w, d, events) ==
  {i \in events : \A j \in events : j <= i /\ journal[j].who = w => journal[j].at >= d}

(* The oldest of w's events of a kind tells what was before.               *)
Before(w, kind, events, now) ==
  LET his == {i \in events : journal[i].who = w /\ journal[i].kind = kind} IN
  IF his = {} THEN now ELSE journal[Max(his)].from

StateAt(w, d, events) ==
  LET after == After(w, d, events) IN
  [status |-> Before(w, "status_changed", after, roster[w].status),
   shift  |-> Before(w, "schedule_changed", after, roster[w].shift)]

HiredOn(w) == IF roster[w].hired = Unset THEN roster[w].since ELSE roster[w].hired

MarkOf(w, d, state) ==
  CASE d < HiredOn(w) \/ state.status = "dismissed" -> "N"
    [] d >= HiredOn(w) /\ state.status # "dismissed" /\ ~WorksOn(state.shift, d) -> "O"
    [] d >= HiredOn(w) /\ state.status = "on_leave" /\ WorksOn(state.shift, d) -> "L"
    [] d >= HiredOn(w) /\ state.status = "active" /\ WorksOn(state.shift, d) ->
         IF d < day THEN "W" ELSE "P"

MonthStart == Min(Month)
Minutes(state, days) == MapThenSumSet(LAMBDA d : ShiftMinutes(state[d].shift), days)

Row(w) ==
  LET events == Since(MonthStart)
      state == [d \in Month |-> StateAt(w, d, events)]
      mark == [d \in Month |-> MarkOf(w, d, state[d])]
      Marked(letters) == {d \in Month : mark[d] \in letters}
      norm == Cardinality({d \in Month : WorksOn(state[d].shift, d)})
      payable == Cardinality(Marked({"W", "P"})) IN
  [mark |-> mark, norm |-> norm, payable |-> payable,
   leave |-> Cardinality(Marked({"L"})),
   minutes |-> Minutes(state, Marked({"W", "P"})),
   accrued |-> IF norm = 0 THEN Unset ELSE (Salary * payable * 2 + norm) \div (2 * norm)]

(* The report has a row for whoever was employed on a day of the month.    *)
Reported == {w \in Employed : \E d \in Month : Row(w).mark[d] # "N"}

-----------------------------------------------------------------------------
(* Summarize: a week ago *)

Then(w) == Before(w, "status_changed", Since(day - WeekDays), roster[w].status)

WasThere(w) == roster[w].since < day - WeekDays

Count(status) == Cardinality({w \in Employed : roster[w].status = status})
CountThen(status) == Cardinality({w \in Employed : WasThere(w) /\ Then(w) = status})

WeekDelta(status) == Count(status) - CountThen(status)

-----------------------------------------------------------------------------
ReportInit == /\ roster = [w \in Worker |-> Nowhere] /\ journal = <<>> /\ day = 1
              /\ dawn = [w \in Worker |-> <<>>]

ReportNext ==
  \/ (\E w \in Worker : Hire(w)) /\ UNCHANGED day
  \/ (\E w \in Employed : Len(journal) < MaxEvents /\ (SetStatus(w) \/ SetShift(w)))
       /\ UNCHANGED <<day, dawn>>
  \/ NextDay

-----------------------------------------------------------------------------
(* Properties *)

ReportTypeOK ==
  /\ day \in 1..LastDay /\ Len(journal) <= MaxEvents
  /\ \A i \in 1..Len(journal) - 1 : journal[i].at >= journal[i + 1].at
  /\ \A w \in Employed : Len(dawn[w]) = day

(* What w was at 00:00 of day d; the days to come are as today. *)
Truth(w, d) == IF d <= day THEN dawn[w][d] ELSE State(roster[w])

(* What the report says of every day is what the member was when that day  *)
(* began, a full salary (of more than half a tiyin a day, or rounding      *)
(* makes up for a day) is paid for a month worked in full and for no other,*)
(* and the weekly figures compare with what was a week ago, though none of *)
(* this was ever stored (stateAt, BuildReport, Summarize).                 *)
HistoryIsRestored ==
  /\ \A w \in Employed : LET row == Row(w) IN
       /\ \A d \in Month : row.mark[d] = MarkOf(w, d, Truth(w, d))
       /\ row.norm = Cardinality({d \in Month : WorksOn(Truth(w, d).shift, d)})
       /\ row.norm \in 1..(2 * Salary - 1) => (row.accrued = Salary <=> row.payable = row.norm)
  /\ day > WeekDays => \A status \in {"active", "dismissed"} :
       WeekDelta(status) = Count(status) - Cardinality({w \in Employed :
         roster[w].since < day - WeekDays /\ dawn[w][day - WeekDays].status = status})
=============================================================================
