---------------------------- MODULE RtcSchedule ----------------------------
(***************************************************************************)
(* The pure schedule arithmetic of src/rtc_schedule.rs.  A schedule entry  *)
(* names a set of weekdays (a bit mask in the code) and a time of day; the *)
(* alarm chip holds one occurrence.  The lengths of a week, a day and an   *)
(* hour are parameters, so that small ones can be checked exhaustively.    *)
(***************************************************************************)
EXTENDS Integers

CONSTANTS
  DAYS,     \* days in a week, 7
  HOURS,    \* hours in a day, 24
  MINUTES,  \* minutes in an hour, 60
  NoTime    \* next_occurrence found nothing

ASSUME LengthAssumption ==
  DAYS \in Nat \ {0} /\ HOURS \in Nat \ {0} /\ MINUTES \in Nat \ {0}

Weekday == 0..(DAYS - 1)
Hour    == 0..(HOURS - 1)
Minute  == 0..(MINUTES - 1)
Time    == [weekday : Weekday, hour : Hour, minute : Minute]

ASSUME NoTimeAssumption == NoTime \notin Time

(* What web::rtc::validate and RtcSchedule::parse let through. *)
Entry == [kind : {"Wake", "Sleep"}, days : (SUBSET Weekday) \ {{}}, hour : Hour, minute : Minute]
Schedule == [enabled : BOOLEAN, entries : SUBSET Entry]

MINUTES_PER_WEEK == DAYS * HOURS * MINUTES
week_minutes(t)  == t.weekday * HOURS * MINUTES + t.hour * MINUTES + t.minute

Occurrences(entries, kind) ==
  UNION { { [weekday |-> d, hour |-> e.hour, minute |-> e.minute] : d \in e.days } :
            e \in { f \in entries : f.kind = kind } }

(* Minutes until the next o strictly after a time: within a week, wrapping. *)
mut_delta_may_be_zero(o, after) ==
  LET d == week_minutes(o) - week_minutes(after)
  IN  IF d < 0 THEN d + MINUTES_PER_WEEK ELSE d
delta(o, after) ==
  LET d == week_minutes(o) - week_minutes(after)
  IN  IF d <= 0 THEN d + MINUTES_PER_WEEK ELSE d

next_occurrence(entries, after, kind) ==
  LET all == Occurrences(entries, kind)
  IN  IF all = {} THEN NoTime
      ELSE CHOOSE o \in all : \A p \in all : delta(o, after) <= delta(p, after)

next_wake(entries, after) == next_occurrence(entries, after, "Wake")

matching_sleep_entry(entries, now) ==
  [weekday |-> now.weekday, hour |-> now.hour, minute |-> now.minute]
    \in Occurrences(entries, "Sleep")
=============================================================================
