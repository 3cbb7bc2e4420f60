---------------------------- MODULE WorkingHours ----------------------------
(***************************************************************************)
(* catalog/hours.go: when a restaurant takes orders.  The week's table may *)
(* run over midnight; a customer is shown "open" or "closed" with the      *)
(* moment at which that changes by itself.  DayLength stands for the 1440  *)
(* minutes of a day.                                                       *)
(***************************************************************************)
EXTENDS Integers, FiniteSets

CONSTANTS DayLength,   \* bound: minutes of a day
          Schedule,    \* tables of the week a restaurant may save
          None

ASSUME DayHasMinutes == DayLength \in Nat \ {0}
ASSUME NoneIsNoTime == None \notin Nat

VARIABLES switch,   \* Restaurant.Open, the "open" button of the panel
          hours,    \* Restaurant.WorkingHours, None: not restricted
          clock,    \* minute of the week
          shown     \* history: what the customer's screen was told last

hourVars == <<switch, hours, clock, shown>>

Minute == 0..(DayLength - 1)
DayHours == [enabled : BOOLEAN, open : Minute, close : Minute]
ASSUME SchedulesAreValid == Schedule \subseteq [1..7 -> DayHours] /\ None \notin Schedule

WeekLength == 7 * DayLength
Weekday(t) == 1 + ((t \div DayLength) % 7)
Yesterday(day) == IF day = 1 THEN 7 ELSE day - 1

(* A day's own hours; what is left of the evening before.                  *)
OpenToday(d, m) ==
  /\ d.enabled
  /\ \/ d.open = d.close
     \/ d.open < d.close /\ m \in d.open..(d.close - 1)
     \/ d.open > d.close /\ m >= d.open

OpenSinceYesterday(d, m) == d.enabled /\ d.open > d.close /\ m < d.close

IsOpenAt(w, t) ==
  w # None =>
    \/ OpenToday(w[Weekday(t)], t % DayLength)
    \/ OpenSinceYesterday(w[Yesterday(Weekday(t))], t % DayLength)

(* Mutant: a closing after midnight is looked for before the opening.      *)
ChangesOfOneDay(w, midnight) ==
  LET d == w[Weekday(midnight)]
  IN  IF d.enabled THEN {midnight, midnight + d.open, midnight + d.close} ELSE {midnight}

(* Moments at which the answer may change: midnights, openings, closings,  *)
(* from yesterday to eight days ahead.                                     *)
ChangesOf(w, midnight) ==
  LET d == w[Weekday(midnight)]
  IN  {midnight} \cup
      (IF d.enabled
       THEN {midnight + d.open,
             midnight + d.close + (IF d.close < d.open THEN DayLength ELSE 0)}
       ELSE {})

(* Minutes until the answer changes, None if it never does.                *)
NextChangeAfter(w, t) ==
  IF w = None THEN None
  ELSE LET today == (t \div DayLength) * DayLength
           changes == {c \in UNION {ChangesOf(w, today + i * DayLength) : i \in -1..8} :
                         c > t /\ IsOpenAt(w, c) # IsOpenAt(w, t)}
       IN  IF changes = {} THEN None
           ELSE (CHOOSE c \in changes : \A other \in changes : c <= other) - t

OrderableAt(t) == switch /\ IsOpenAt(hours, t)

OpenState == [open : BOOLEAN, left : {None} \cup 0..(9 * DayLength)]
OpenStateAt(t) == [open |-> OrderableAt(t),
                   left |-> IF switch THEN NextChangeAfter(hours, t) ELSE None]

HoursTypeOK ==
  /\ switch \in BOOLEAN
  /\ hours \in Schedule \cup {None}
  /\ clock \in 0..(WeekLength - 1)
  /\ shown \in OpenState \cup {None}

HoursInit == switch = TRUE /\ hours = None /\ clock = 0 /\ shown = None

-----------------------------------------------------------------------------
(* The restaurant's settings; a screen is told of them again.              *)
ChangeSettings ==
  /\ \/ switch' = ~switch /\ UNCHANGED hours
     \/ hours' \in (Schedule \cup {None}) \ {hours} /\ UNCHANGED switch
  /\ shown' = None
  /\ UNCHANGED clock

WithOpenState ==
  /\ shown = None
  /\ shown' = OpenStateAt(clock)
  /\ UNCHANGED <<switch, hours, clock>>

(* A screen counts down by itself; it looks again once the moment has come.*)
Countdown == IF shown = None \/ shown.left = 0 THEN None
             ELSE IF shown.left = None THEN shown
             ELSE [shown EXCEPT !.left = @ - 1]

MinutePasses ==
  /\ clock' = (clock + 1) % WeekLength
  /\ shown' = Countdown
  /\ UNCHANGED <<switch, hours>>

HoursNext == ChangeSettings \/ WithOpenState \/ MinutePasses

-----------------------------------------------------------------------------
(* A screen told that a restaurant is open until a moment is right in every*)
(* minute before it and wrong in that minute, as long as the restaurant    *)
(* changes nothing, over midnights and over the end of the week            *)
(* (OpenStateAt against IsOpenAt).                                         *)
ShownUntilChange ==
  shown # None =>
    LET due == shown.left = 0 IN (OrderableAt(clock) = shown.open) <=> ~due
=============================================================================
