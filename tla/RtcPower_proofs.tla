--------------------------- MODULE RtcPower_proofs ---------------------------
(***************************************************************************)
(* The alarm of the RTC, for weeks, days and hours of any length and any   *)
(* set of schedules: first what next_occurrence finds, then that the chip  *)
(* holds what the schedule says.                                           *)
(***************************************************************************)
EXTENDS RtcPower, SharedLemmas

(* The part of a reading that the arithmetic looks at is in range. *)
Instant(t) == t.weekday \in Weekday /\ t.hour \in Hour /\ t.minute \in Minute

(* A multiple of a bounded number is bounded.                              *)
LEMMA Scaled ==
  ASSUME NEW a \in Nat, NEW n \in Nat, a < n, NEW c \in Nat, NEW b \in Nat, b < c
  PROVE  a * c + b \in Nat /\ a * c + b < n * c
<1>1. a * c \in Nat /\ n * c \in Nat
  OBVIOUS
<1>2. (a + 1) * c <= n * c
  OBVIOUS
<1>3. (a + 1) * c = a * c + c
  OBVIOUS
<1> QED
  BY <1>1, <1>2, <1>3

(* The minute of the week is one of the week's minutes. *)
LEMMA WeekMinutesInWeek ==
  ASSUME NEW t, Instant(t)
  PROVE  week_minutes(t) \in Nat /\ week_minutes(t) < MINUTES_PER_WEEK
<1> USE LengthAssumption
<1> DEFINE m == t.hour * MINUTES + t.minute
<1>1. /\ t.weekday \in Nat /\ t.weekday < DAYS
      /\ t.hour \in Nat /\ t.hour < HOURS
      /\ t.minute \in Nat /\ t.minute < MINUTES
  BY DEF Instant, Weekday, Hour, Minute
<1>2. m \in Nat /\ m < HOURS * MINUTES
  BY <1>1, Scaled
<1>3. HOURS * MINUTES \in Nat
  OBVIOUS
<1> HIDE DEF m
<1>4. t.weekday * (HOURS * MINUTES) + m \in Nat
      /\ t.weekday * (HOURS * MINUTES) + m < DAYS * (HOURS * MINUTES)
  BY <1>1, <1>2, <1>3, Scaled
<1>5. /\ t.weekday * (HOURS * MINUTES) = t.weekday * HOURS * MINUTES
      /\ DAYS * (HOURS * MINUTES) = DAYS * HOURS * MINUTES
  BY <1>1
<1>6. week_minutes(t) = t.weekday * (HOURS * MINUTES) + m
  BY <1>1, <1>5 DEF week_minutes, m
<1> QED
  BY <1>4, <1>5, <1>6 DEF MINUTES_PER_WEEK

(* The wait for an occurrence is at least a minute and at most a week.     *)
LEMMA DeltaPositive ==
  ASSUME NEW o, Instant(o), NEW after, Instant(after)
  PROVE  delta(o, after) \in 1..MINUTES_PER_WEEK
<1>1. /\ week_minutes(o) \in Nat /\ week_minutes(o) < MINUTES_PER_WEEK
      /\ week_minutes(after) \in Nat /\ week_minutes(after) < MINUTES_PER_WEEK
  BY WeekMinutesInWeek
<1>2. MINUTES_PER_WEEK \in Int
  BY LengthAssumption DEF MINUTES_PER_WEEK
<1> QED
  BY <1>1, <1>2 DEF delta

(* An occurrence of an entry is a time of the week.                        *)
LEMMA OccurrenceIsTime ==
  ASSUME NEW entries \in SUBSET Entry, NEW kind, NEW o \in Occurrences(entries, kind)
  PROVE  o \in Time /\ Instant(o)
<1>1. PICK e \in entries : \E d \in e.days :
        o = [weekday |-> d, hour |-> e.hour, minute |-> e.minute]
  BY DEF Occurrences
<1>2. e.days \in SUBSET Weekday /\ e.hour \in Hour /\ e.minute \in Minute
  BY DEF Entry
<1> QED
  BY <1>1, <1>2 DEF Time, Instant

(* next_occurrence: the soonest entry of a kind strictly after an instant. *)
(* Where there is one at all it is found, within a week, and no other is   *)
(* sooner; the week's end and entries on the very minute are no exception. *)
THEOREM NextOccurrenceIsSoonest ==
  ASSUME NEW entries \in SUBSET Entry, NEW kind, NEW after, Instant(after),
         Occurrences(entries, kind) # {}
  PROVE  /\ next_occurrence(entries, after, kind) \in Occurrences(entries, kind)
         /\ delta(next_occurrence(entries, after, kind), after) \in 1..MINUTES_PER_WEEK
         /\ \A p \in Occurrences(entries, kind) :
              delta(next_occurrence(entries, after, kind), after) <= delta(p, after)
<1> DEFINE all == Occurrences(entries, kind)
           deltas == { delta(p, after) : p \in all }
<1>1. \A p \in all : delta(p, after) \in 1..MINUTES_PER_WEEK
  BY OccurrenceIsTime, DeltaPositive
<1>2. deltas \in SUBSET Nat /\ deltas # {}
  <2>1. \A p \in all : delta(p, after) \in Nat
    BY <1>1
  <2> QED
    BY <2>1
<1>3. PICK n \in deltas : \A m \in deltas : n <= m
  BY <1>2, LeastElement
<1>4. \E o \in all : \A p \in all : delta(o, after) <= delta(p, after)
  BY <1>3
<1>5. next_occurrence(entries, after, kind) \in all
      /\ \A p \in all : delta(next_occurrence(entries, after, kind), after) <= delta(p, after)
  BY <1>4 DEF next_occurrence
<1> QED
  BY <1>1, <1>5

(* What apply_rtc_wake_alarm and the sleep poll get from it. *)
LEMMA NextWakeIsWake ==
  ASSUME NEW entries \in SUBSET Entry, NEW after, Instant(after)
  PROVE  /\ next_wake(entries, after) = NoTime <=> Occurrences(entries, "Wake") = {}
         /\ next_wake(entries, after) # NoTime =>
              next_wake(entries, after) \in Occurrences(entries, "Wake") \cap Time
<1>1. CASE Occurrences(entries, "Wake") = {}
  BY <1>1 DEF next_wake, next_occurrence
<1>2. CASE Occurrences(entries, "Wake") # {}
  <2>1. next_wake(entries, after) \in Occurrences(entries, "Wake")
    BY <1>2, NextOccurrenceIsSoonest DEF next_wake
  <2>2. next_wake(entries, after) \in Time
    BY <2>1, OccurrenceIsTime
  <2> QED
    BY <1>2, <2>1, <2>2, NoTimeAssumption
<1> QED
  BY <1>1, <1>2

-----------------------------------------------------------------------------
(* The clock, and readings of it, rollover or not. *)
LEMMA NextMinuteIsTime ==
  ASSUME NEW t \in Time
  PROVE  NextMinute(t) \in Time
<1> USE LengthAssumption DEF Weekday, Hour, Minute
<1>1. t.weekday \in Weekday /\ t.hour \in Hour /\ t.minute \in Minute
  BY DEF Time
<1>2. CASE t.minute + 1 < MINUTES
  <2>1. t.minute + 1 \in Minute
    BY <1>1, <1>2
  <2> QED
    BY <1>2, <2>1 DEF NextMinute, Time
<1>3. CASE ~(t.minute + 1 < MINUTES) /\ t.hour + 1 < HOURS
  <2>1. t.hour + 1 \in Hour /\ 0 \in Minute
    BY <1>1, <1>3
  <2>2. NextMinute(t) = [t EXCEPT !.minute = 0, !.hour = t.hour + 1]
    BY <1>3 DEF NextMinute, Time
  <2> QED
    BY <2>1, <2>2 DEF Time
<1>4. CASE ~(t.minute + 1 < MINUTES) /\ ~(t.hour + 1 < HOURS)
  <2>1. (IF t.weekday + 1 < DAYS THEN t.weekday + 1 ELSE 0) \in Weekday
        /\ 0 \in Minute /\ 0 \in Hour
    BY <1>1
  <2> QED
    BY <1>4, <2>1 DEF NextMinute, Time
<1> QED
  BY <1>2, <1>3, <1>4

(* A reading, torn or not, has every field in range.                       *)
LEMMA ReadingInRange ==
  ASSUME NEW t \in Time, NEW n \in 1..4
  PROVE  Instant(Reading(t, n)) /\ Stamp(Reading(t, n)) \in Date
<1>1. \A k \in 1..4 : (IF n >= k THEN t ELSE NextMinute(t)) \in Time
  BY NextMinuteIsTime
<1> QED
  BY <1>1 DEF Reading, Instant, Stamp, Date, Time

(* What a chip that met no error shows of a schedule. *)
Good(c, s) ==
  /\ c.aie <=> s.enabled /\ Occurrences(s.entries, "Wake") # {}
  /\ c.aie => [weekday |-> c.weekday, hour |-> c.hour, minute |-> c.minute]
                \in Occurrences(s.entries, "Wake")

(* clear_alarm leaves a chip, with interrupt and flag off if it            *)
(* succeeded.                                                              *)
LEMMA ClearKeepsChip ==
  ASSUME NEW c \in Chip, NEW outcome \in clear_alarm(c)
  PROVE  /\ outcome.chip \in Chip
         /\ outcome.ok => ~outcome.chip.aie
<1>1. Cleared(c) \in Chip /\ ~Cleared(c).aie
  BY DEF Cleared, Chip
<1> QED
  BY <1>1 DEF clear_alarm, Outcomes

(* set_wake_alarm leaves a chip, armed for the given time if it            *)
(* succeeded.                                                              *)
LEMMA SetKeepsChip ==
  ASSUME NEW c \in Chip, NEW t \in Time, NEW outcome \in set_wake_alarm(c, t)
  PROVE  /\ outcome.chip \in Chip
         /\ outcome.ok =>
              /\ outcome.chip.aie
              /\ [weekday |-> outcome.chip.weekday, hour |-> outcome.chip.hour,
                  minute |-> outcome.chip.minute] = t
<1>1. Partly(c, t) \subseteq Chip /\ Armed(c, t) \in Chip
  <2>1. t.weekday \in Weekday /\ t.hour \in Hour /\ t.minute \in Minute
    BY DEF Time
  <2>2. [c EXCEPT !.minute = t.minute] \in Chip
    BY <2>1 DEF Chip
  <2>3. [c EXCEPT !.minute = t.minute, !.hour = t.hour] \in Chip
    BY <2>1 DEF Chip
  <2>4. Set(c, t) \in Chip
    BY <2>1 DEF Set, Chip
  <2>5. Armed(c, t) \in Chip
    BY <2>4 DEF Armed, Chip
  <2> QED
    BY <2>2, <2>3, <2>4, <2>5 DEF Partly
<1>2. /\ Armed(c, t).aie
      /\ [weekday |-> Armed(c, t).weekday, hour |-> Armed(c, t).hour,
          minute |-> Armed(c, t).minute] = t
  BY DEF Armed, Set, Time
<1> QED
  BY <1>1, <1>2 DEF set_wake_alarm, Outcomes

(* apply_rtc_wake_alarm without an error leaves the alarm as the schedule  *)
(* has it.                                                                 *)
LEMMA AppliedIsGood ==
  ASSUME NEW c \in Chip, NEW s \in Schedule, NEW r, Instant(r),
         NEW outcome \in applied(c, s, r)
  PROVE  outcome.chip \in Chip /\ (outcome.ok => Good(outcome.chip, s))
<1> DEFINE wake == next_wake(s.entries, r)
<1>1. s.enabled \in BOOLEAN /\ s.entries \in SUBSET Entry
  BY DEF Schedule
<1>2. CASE ~s.enabled \/ wake = NoTime
  <2>1. outcome \in clear_alarm(c)
    BY <1>2 DEF applied
  <2>2. ~(s.enabled /\ Occurrences(s.entries, "Wake") # {})
    BY <1>1, <1>2, NextWakeIsWake
  <2> QED
    BY <2>1, <2>2, ClearKeepsChip DEF Good
<1>3. CASE s.enabled /\ wake # NoTime
  <2>1. wake \in Time /\ wake \in Occurrences(s.entries, "Wake")
    BY <1>1, <1>3, NextWakeIsWake
  <2> HIDE DEF wake
  <2>2. outcome \in Rearm(c, wake)
    BY <1>3 DEF applied, wake
  <2>3. PICK clear \in clear_alarm(c) : \E set \in set_wake_alarm(clear.chip, wake) :
          outcome = [chip |-> set.chip, ok |-> clear.ok /\ set.ok]
    BY <2>2 DEF Rearm
  <2> PICK set \in set_wake_alarm(clear.chip, wake) :
        outcome = [chip |-> set.chip, ok |-> clear.ok /\ set.ok]
    BY <2>3
  <2>4. clear.chip \in Chip
    BY ClearKeepsChip
  <2>5. /\ set.chip \in Chip
        /\ set.ok =>
             /\ set.chip.aie
             /\ [weekday |-> set.chip.weekday, hour |-> set.chip.hour,
                 minute |-> set.chip.minute] = wake
    BY <2>1, <2>4, SetKeepsChip
  <2>6. outcome.chip = set.chip /\ (outcome.ok => set.ok)
    OBVIOUS
  <2> QED
    BY <1>3, <2>1, <2>5, <2>6 DEF Good
<1> QED
  BY <1>1, <1>2, <1>3

-----------------------------------------------------------------------------
IInv == TypeOK /\ (fault # "error" => Good(rtc, schedule))

(* What the invariant says of the chip is AlarmFollowsSchedule.            *)
LEMMA GoodIsProperty ==
  AlarmFollowsSchedule <=> (fault # "error" => Good(rtc, schedule))
BY DEF AlarmFollowsSchedule, Good, Wakes, Alarm

(* apply_rtc_wake_alarm leaves a chip that shows the schedule, or an error.*)
LEMMA ApplyKeeps ==
  ASSUME TypeOK, NEW s \in Schedules, apply_rtc_wake_alarm(s)
  PROVE  rtc' \in Chip /\ fault' \in {"none", "torn", "error"} /\ (fault' # "error" => Good(rtc', s))
<1>1. CASE fault' = "error" /\ UNCHANGED rtc
  BY <1>1 DEF TypeOK
<1>2. ASSUME NEW n \in 1..4, NEW outcome \in applied(rtc, s, Reading(now, n)),
             rtc' = outcome.chip,
             fault' = Fault(outcome.ok, True(Reading(now, n), now) \/ ~s.enabled)
      PROVE  rtc' \in Chip /\ fault' \in {"none", "torn", "error"} /\ (fault' # "error" => Good(rtc', s))
  <2>1. rtc \in Chip /\ s \in Schedule /\ Instant(Reading(now, n))
    BY ScheduleAssumption, ReadingInRange DEF TypeOK
  <2>2. outcome.chip \in Chip /\ (outcome.ok => Good(outcome.chip, s))
    BY <2>1, AppliedIsGood
  <2> QED
    BY <1>2, <2>2 DEF Fault
<1> QED
  BY <1>1, <1>2 DEF apply_rtc_wake_alarm

(* The initial states satisfy the inductive invariant.                     *)
LEMMA InitEstablishes == Init => IInv
<1> SUFFICES ASSUME Init PROVE IInv
  OBVIOUS
<1>1. 0 \in Minute /\ 0 \in Hour /\ 0 \in Weekday
  BY LengthAssumption DEF Minute, Hour, Weekday
<1>2. rtc \in Chip
  <2>1. CASE rtc = [minute |-> 0, hour |-> 0, weekday |-> 0, aie |-> FALSE, af |-> FALSE]
    BY <1>1, <2>1 DEF Chip
  <2>2. CASE rtc = [minute |-> 0, hour |-> 0, weekday |-> AnyDay, aie |-> TRUE, af |-> FALSE]
    BY <1>1, <2>2 DEF Chip
  <2> QED
    BY <2>1, <2>2 DEF Init
<1> QED
  BY <1>2 DEF Init, IInv, TypeOK

(* A start keeps the inductive invariant.                                  *)
LEMMA StartKeeps == IInv /\ Start => IInv'
<1> SUFFICES ASSUME IInv, Start PROVE IInv'
  OBVIOUS
<1>1. rtc' \in Chip /\ fault' \in {"none", "torn", "error"} /\ (fault' # "error" => Good(rtc', schedule))
  BY ApplyKeeps DEF Start, IInv, TypeOK
<1> QED
  BY <1>1 DEF Start, IInv, TypeOK

(* So does an edit of the schedule, enabled or not.                        *)
LEMMA ScheduleChangedKeeps ==
  ASSUME IInv, NEW s \in Schedules, ScheduleChanged(s)
  PROVE  IInv'
<1>1. rtc' \in Chip /\ fault' \in {"none", "torn", "error"} /\ (fault' # "error" => Good(rtc', s))
  BY ApplyKeeps DEF ScheduleChanged, IInv
<1> QED
  BY <1>1 DEF ScheduleChanged, IInv, TypeOK

(* So does a scheduled sleep, which arms over what the chip holds.         *)
LEMMA PollKeeps == IInv /\ Poll => IInv'
<1> SUFFICES ASSUME IInv, NEW n \in 1..4, SleepNow(Reading(now, n)) PROVE IInv'
  BY DEF Poll
<1> DEFINE r == Reading(now, n)
           wake == next_wake(schedule.entries, r)
<1>1. /\ Instant(r) /\ Stamp(r) \in Date
      /\ schedule \in Schedule
      /\ schedule.enabled
  BY ReadingInRange, ScheduleAssumption DEF IInv, TypeOK, SleepNow
<1>2. schedule.entries \in SUBSET Entry
  BY <1>1 DEF Schedule
<1>3. rtc' \in Chip /\ fault' \in {"none", "torn", "error"} /\ (fault' # "error" => Good(rtc', schedule))
  <2>1. CASE UNCHANGED <<rtc, fault>>
    BY <2>1 DEF IInv, TypeOK
  <2>2. CASE wake # NoTime
    <3>1. wake \in Time /\ wake \in Occurrences(schedule.entries, "Wake")
      BY <1>1, <1>2, <2>2, NextWakeIsWake
    <3> SUFFICES ASSUME NEW outcome \in set_wake_alarm(rtc, wake),
                        rtc' = outcome.chip,
                        fault' = Fault(outcome.ok, True(r, now))
                 PROVE  rtc' \in Chip /\ fault' \in {"none", "torn", "error"}
                          /\ (fault' # "error" => Good(rtc', schedule))
      BY <2>1, <2>2 DEF SleepNow
    <3> HIDE DEF wake, r
    <3>2. /\ outcome.chip \in Chip
          /\ outcome.ok =>
               /\ outcome.chip.aie
               /\ [weekday |-> outcome.chip.weekday, hour |-> outcome.chip.hour,
                   minute |-> outcome.chip.minute] = wake
      BY <3>1, SetKeepsChip DEF IInv, TypeOK
    <3> QED
      BY <1>1, <3>1, <3>2 DEF Good, Fault
  <2> QED
    BY <2>1, <2>2 DEF SleepNow
<1> QED
  BY <1>1, <1>3 DEF SleepNow, IInv, TypeOK

(* So does a minute passing, whether the alarm fires or not.               *)
LEMMA TickKeeps == IInv /\ Tick => IInv'
<1> SUFFICES ASSUME IInv, Tick PROVE IInv'
  OBVIOUS
<1>1. now' \in Time
  BY NextMinuteIsTime DEF Tick, IInv, TypeOK
<1>2. /\ rtc' \in Chip
      /\ rtc'.aie = rtc.aie /\ rtc'.weekday = rtc.weekday
      /\ rtc'.hour = rtc.hour /\ rtc'.minute = rtc.minute
  BY DEF Tick, Fires, Matches, IInv, TypeOK, Chip
<1> QED
  BY <1>1, <1>2 DEF Tick, IInv, TypeOK, Good

(* So does every step of the power that leaves the chip alone.             *)
LEMMA PowerStepsKeep ==
  IInv /\ (ButtonShutdown \/ Leave \/ PowerDown \/ Abort \/ PowerOn \/ UNCHANGED vars)
    => IInv'
BY DEF ButtonShutdown, Leave, PowerDown, Abort, PowerOn, vars, IInv, TypeOK, Good

(* The inductive invariant holds in every reachable state.                 *)
THEOREM Invariance == Spec => []IInv
<1>1. IInv /\ [Next]_vars => IInv'
  BY StartKeeps, ScheduleChangedKeeps, PollKeeps, TickKeeps, PowerStepsKeep DEF Next
<1> QED
  BY InitEstablishes, <1>1, PTL DEF Spec

(* Every variable has its type, for weeks of any length and any            *)
(* schedules.                                                              *)
THEOREM TypeCorrect == Spec => []TypeOK
<1>1. IInv => TypeOK
  BY DEF IInv
<1> QED
  BY <1>1, Invariance, PTL

(* The chip is armed exactly when the schedule has a wake to offer, with   *)
(* one of them, unless an access failed or was torn: for weeks of seven    *)
(* days of twenty-four hours of sixty minutes, and every schedule.         *)
THEOREM AlarmAlwaysFollows == Spec => []AlarmFollowsSchedule
<1>1. IInv => AlarmFollowsSchedule
  BY GoodIsProperty DEF IInv
<1> QED
  BY <1>1, Invariance, PTL

-----------------------------------------------------------------------------
(* Two numbers written with the same base and digits below it are equal    *)
(* only digit by digit.                                                    *)
LEMMA SameDigits ==
  ASSUME NEW a \in Nat, NEW b \in Nat, NEW c \in Nat,
         NEW x \in Nat, NEW y \in Nat, x < c, y < c, a * c + x = b * c + y
  PROVE  a = b /\ x = y
<1>1. ASSUME NEW u \in Nat, NEW v \in Nat, NEW p \in Nat, NEW q \in Nat,
             p < c, u * c + p = v * c + q
      PROVE  ~(u < v)
  <2> SUFFICES ASSUME u < v PROVE FALSE
    OBVIOUS
  <2>1. u * c + p < u * c + c
    BY <1>1
  <2>2. u * c + c = (u + 1) * c
    OBVIOUS
  <2>3. (u + 1) * c <= v * c
    OBVIOUS
  <2>4. u * c \in Nat /\ v * c \in Nat /\ (u + 1) * c \in Nat
    OBVIOUS
  <2> QED
    BY <1>1, <2>1, <2>2, <2>3, <2>4
<1>2. ~(a < b)
  BY <1>1
<1>3. ~(b < a)
  BY <1>1
<1>4. a = b
  BY <1>2, <1>3
<1>5. a * c \in Nat
  OBVIOUS
<1> QED
  BY <1>4, <1>5

(* The minute of the week, as a number of hours-and-minutes.               *)
LEMMA WeekMinutesAre ==
  ASSUME NEW t, Instant(t)
  PROVE  /\ t.weekday \in Nat /\ t.hour * MINUTES + t.minute \in Nat
         /\ t.hour * MINUTES + t.minute < HOURS * MINUTES
         /\ week_minutes(t) = t.weekday * (HOURS * MINUTES) + (t.hour * MINUTES + t.minute)
<1> USE LengthAssumption
<1>1. /\ t.weekday \in Nat
      /\ t.hour \in Nat /\ t.hour < HOURS
      /\ t.minute \in Nat /\ t.minute < MINUTES
  BY DEF Instant, Weekday, Hour, Minute
<1>2. /\ t.hour * MINUTES + t.minute \in Nat
      /\ t.hour * MINUTES + t.minute < HOURS * MINUTES
  BY <1>1, Scaled
<1>3. t.weekday * (HOURS * MINUTES) = t.weekday * HOURS * MINUTES
  BY <1>1
<1>4. t.weekday * HOURS * MINUTES \in Nat /\ t.hour * MINUTES \in Nat
  BY <1>1
<1> QED
  BY <1>1, <1>2, <1>3, <1>4 DEF week_minutes

(* No two times of the week share a minute of it.                          *)
LEMMA WeekMinutesInjective ==
  ASSUME NEW s \in Time, NEW t \in Time, week_minutes(s) = week_minutes(t)
  PROVE  s = t
<1> USE LengthAssumption
<1>1. Instant(s) /\ Instant(t)
  BY DEF Time, Instant
<1>2. /\ s.hour \in Nat /\ s.minute \in Nat /\ s.minute < MINUTES
      /\ t.hour \in Nat /\ t.minute \in Nat /\ t.minute < MINUTES
  BY <1>1 DEF Instant, Hour, Minute
<1>3. HOURS * MINUTES \in Nat /\ MINUTES \in Nat
  OBVIOUS
<1>4. /\ s.weekday = t.weekday
      /\ s.hour * MINUTES + s.minute = t.hour * MINUTES + t.minute
  <2> DEFINE day == HOURS * MINUTES
             x == s.hour * MINUTES + s.minute
             y == t.hour * MINUTES + t.minute
  <2>1. /\ s.weekday \in Nat /\ x \in Nat /\ x < day
        /\ t.weekday \in Nat /\ y \in Nat /\ y < day
        /\ s.weekday * day + x = t.weekday * day + y
        /\ day \in Nat
    BY <1>1, <1>3, WeekMinutesAre
  <2> HIDE DEF day, x, y
  <2>2. s.weekday = t.weekday /\ x = y
    BY <2>1, SameDigits
  <2> QED
    BY <2>2 DEF x, y
<1>5. s.hour = t.hour /\ s.minute = t.minute
  <2> DEFINE a == s.hour
             b == t.hour
             x == s.minute
             y == t.minute
  <2>1. a \in Nat /\ b \in Nat /\ x \in Nat /\ y \in Nat /\ x < MINUTES /\ y < MINUTES
        /\ a * MINUTES + x = b * MINUTES + y
    BY <1>2, <1>4
  <2> HIDE DEF a, b, x, y
  <2>2. a = b /\ x = y
    BY <1>3, <2>1, SameDigits
  <2> QED
    BY <2>2 DEF a, b, x, y
<1> QED
  BY <1>4, <1>5 DEF Time

(* A minute later it is the next minute of the week, or its first.         *)
LEMMA WeekMinutesNext ==
  ASSUME NEW t \in Time
  PROVE  week_minutes(NextMinute(t)) =
           IF week_minutes(t) + 1 = MINUTES_PER_WEEK THEN 0 ELSE week_minutes(t) + 1
<1> USE LengthAssumption
<1> DEFINE day == HOURS * MINUTES
           next == NextMinute(t)
<1>1. next \in Time /\ Instant(next) /\ Instant(t)
  BY NextMinuteIsTime DEF Time, Instant
<1>2. /\ t.weekday \in Nat /\ t.weekday < DAYS
      /\ t.hour \in Nat /\ t.hour < HOURS
      /\ t.minute \in Nat /\ t.minute < MINUTES
  BY <1>1 DEF Instant, Weekday, Hour, Minute
<1>3. /\ week_minutes(t) = t.weekday * day + (t.hour * MINUTES + t.minute)
      /\ week_minutes(next) = next.weekday * day + (next.hour * MINUTES + next.minute)
  BY <1>1, WeekMinutesAre
<1>4. day \in Nat /\ MINUTES_PER_WEEK = DAYS * day
  BY DEF MINUTES_PER_WEEK
<1>5. /\ week_minutes(next) \in Nat /\ week_minutes(next) < MINUTES_PER_WEEK
      /\ week_minutes(t) \in Nat /\ MINUTES_PER_WEEK \in Nat
  BY <1>1, <1>4, WeekMinutesInWeek
<1>6. t.weekday * day \in Nat /\ t.hour * MINUTES \in Nat
  BY <1>2, <1>4
<1>7. CASE t.minute + 1 < MINUTES
  <2>1. next.weekday = t.weekday /\ next.hour = t.hour /\ next.minute = t.minute + 1
    BY <1>7 DEF NextMinute, Time
  <2>2. week_minutes(next) = week_minutes(t) + 1
    BY <1>2, <1>3, <1>6, <2>1
  <2> QED
    BY <1>5, <2>2
<1>8. CASE ~(t.minute + 1 < MINUTES) /\ t.hour + 1 < HOURS
  <2>1. next.weekday = t.weekday /\ next.hour = t.hour + 1 /\ next.minute = 0
    BY <1>8 DEF NextMinute, Time
  <2>2. (t.hour + 1) * MINUTES = t.hour * MINUTES + MINUTES
    BY <1>2
  <2>3. t.minute + 1 = MINUTES
    BY <1>2, <1>8
  <2>4. week_minutes(next) = week_minutes(t) + 1
    BY <1>2, <1>3, <1>6, <2>1, <2>2, <2>3
  <2> QED
    BY <1>5, <2>4
<1>9. CASE ~(t.minute + 1 < MINUTES) /\ ~(t.hour + 1 < HOURS)
  <2>1. t.minute + 1 = MINUTES /\ t.hour + 1 = HOURS
    BY <1>2, <1>9
  <2>2. (t.hour + 1) * MINUTES = t.hour * MINUTES + MINUTES
    BY <1>2
  <2>3. week_minutes(t) + 1 = t.weekday * day + day
    BY <1>2, <1>3, <1>4, <1>6, <2>1, <2>2
  <2>4. (t.weekday + 1) * day = t.weekday * day + day
    BY <1>2, <1>4
  <2>5. next.hour = 0 /\ next.minute = 0
        /\ next.weekday = IF t.weekday + 1 < DAYS THEN t.weekday + 1 ELSE 0
    BY <1>9 DEF NextMinute
  <2>6. week_minutes(next) = next.weekday * day
    BY <1>1, <1>3, <1>4, <2>5 DEF Instant, Weekday
  <2>7. CASE t.weekday + 1 < DAYS
    BY <1>5, <2>3, <2>4, <2>5, <2>6, <2>7
  <2>8. CASE ~(t.weekday + 1 < DAYS)
    <3>1. t.weekday + 1 = DAYS
      BY <1>2, <2>8
    <3>2. week_minutes(next) = 0
      BY <1>4, <2>5, <2>6, <2>8
    <3> QED
      BY <1>4, <2>3, <2>4, <3>1, <3>2
  <2> QED
    BY <2>7, <2>8
<1> QED
  BY <1>7, <1>8, <1>9

(* An occurrence is a minute away when it is the next minute, and a minute *)
(* later every other one is a minute nearer.                               *)
LEMMA DeltaNext ==
  ASSUME NEW o \in Time, NEW t \in Time
  PROVE  /\ delta(o, t) = 1 <=> o = NextMinute(t)
         /\ delta(o, t) # 1 => delta(o, NextMinute(t)) = delta(o, t) - 1
<1> DEFINE wo == week_minutes(o)
           wt == week_minutes(t)
           wn == week_minutes(NextMinute(t))
<1>1. Instant(o) /\ Instant(t) /\ NextMinute(t) \in Time
  BY NextMinuteIsTime DEF Time, Instant
<1>2. /\ wo \in Nat /\ wo < MINUTES_PER_WEEK /\ wt \in Nat /\ wt < MINUTES_PER_WEEK
      /\ MINUTES_PER_WEEK \in Nat
  BY <1>1, LengthAssumption, WeekMinutesInWeek DEF MINUTES_PER_WEEK
<1>3. wn = IF wt + 1 = MINUTES_PER_WEEK THEN 0 ELSE wt + 1
  BY WeekMinutesNext
<1>4. wo = wn <=> o = NextMinute(t)
  BY <1>1, WeekMinutesInjective
<1>5. /\ delta(o, t) = IF wo - wt <= 0 THEN wo - wt + MINUTES_PER_WEEK ELSE wo - wt
      /\ delta(o, NextMinute(t)) = IF wo - wn <= 0 THEN wo - wn + MINUTES_PER_WEEK ELSE wo - wn
  BY DEF delta
<1> HIDE DEF wo, wt, wn
<1>6. delta(o, t) = 1 <=> wo = wn
  BY <1>2, <1>3, <1>5
<1>7. delta(o, t) # 1 => delta(o, NextMinute(t)) = delta(o, t) - 1
  BY <1>2, <1>3, <1>5
<1> QED
  BY <1>4, <1>6, <1>7

-----------------------------------------------------------------------------
(* The time a chip holds, and that no wake of a schedule comes sooner.     *)
Held(c) == [weekday |-> c.weekday, hour |-> c.hour, minute |-> c.minute]

Soonest(c, s, t) ==
  \A p \in Occurrences(s.entries, "Wake") : delta(Held(c), t) <= delta(p, t)

(* The invariant behind DarkWakesOnTime: while nothing has gone wrong and  *)
(* the flag is clear, the chip holds the wake that comes next.             *)
SoonestInChip ==
  fault = "none" /\ ~rtc.af /\ schedule.enabled => Soonest(rtc, schedule, now)

(* apply_rtc_wake_alarm without an error leaves the next wake in the chip. *)
LEMMA AppliedIsSoonest ==
  ASSUME NEW c \in Chip, NEW s \in Schedule, NEW r, Instant(r),
         NEW outcome \in applied(c, s, r), outcome.ok, s.enabled
  PROVE  Soonest(outcome.chip, s, r)
<1> DEFINE wake == next_wake(s.entries, r)
<1>1. s.entries \in SUBSET Entry
  BY DEF Schedule
<1>2. CASE wake = NoTime
  BY <1>1, <1>2, NextWakeIsWake DEF Soonest
<1>3. CASE wake # NoTime
  <2>1. wake \in Time /\ Occurrences(s.entries, "Wake") # {}
    BY <1>1, <1>3, NextWakeIsWake
  <2>2. \A p \in Occurrences(s.entries, "Wake") : delta(wake, r) <= delta(p, r)
    BY <1>1, <2>1, NextOccurrenceIsSoonest DEF next_wake
  <2> HIDE DEF wake
  <2>3. outcome \in Rearm(c, wake)
    BY <1>3 DEF applied, wake
  <2>4. PICK clear \in clear_alarm(c) : \E set \in set_wake_alarm(clear.chip, wake) :
          outcome = [chip |-> set.chip, ok |-> clear.ok /\ set.ok]
    BY <2>3 DEF Rearm
  <2>5. PICK set \in set_wake_alarm(clear.chip, wake) :
          outcome = [chip |-> set.chip, ok |-> clear.ok /\ set.ok]
    BY <2>4
  <2>6. Held(set.chip) = wake
    BY <2>1, <2>4, <2>5, ClearKeepsChip, SetKeepsChip DEF Held
  <2> QED
    BY <2>2, <2>5, <2>6 DEF Soonest
<1> QED
  BY <1>2, <1>3

(* A true reading of the clock tells the same waits as the clock.          *)
LEMMA TrueReading ==
  ASSUME NEW t \in Time, NEW r, True(r, t)
  PROVE  \A o : delta(o, r) = delta(o, t)
<1>1. r.weekday = t.weekday /\ r.hour = t.hour /\ r.minute = t.minute
  BY DEF True, Reading
<1> QED
  BY <1>1 DEF delta, week_minutes

(* Arming at start and on an edit does so as of the clock itself. *)
LEMMA ApplyIsSoonest ==
  ASSUME TypeOK, NEW s \in Schedules, apply_rtc_wake_alarm(s), fault' = "none", s.enabled
  PROVE  Soonest(rtc', s, now)
<1>1. PICK n \in 1..4 : \E outcome \in applied(rtc, s, Reading(now, n)) :
        /\ rtc' = outcome.chip
        /\ fault' = Fault(outcome.ok, True(Reading(now, n), now) \/ ~s.enabled)
  BY DEF apply_rtc_wake_alarm
<1>2. PICK outcome \in applied(rtc, s, Reading(now, n)) :
        rtc' = outcome.chip /\ outcome.ok /\ True(Reading(now, n), now)
  BY <1>1 DEF Fault
<1>3. rtc \in Chip /\ s \in Schedule /\ Instant(Reading(now, n)) /\ now \in Time
  BY ScheduleAssumption, ReadingInRange DEF TypeOK
<1>4. Soonest(rtc', s, Reading(now, n))
  BY <1>2, <1>3, AppliedIsSoonest
<1> QED
  BY <1>2, <1>3, <1>4, TrueReading DEF Soonest

(* So does a scheduled sleep. *)
LEMMA SleepIsSoonest ==
  ASSUME TypeOK, NEW n \in 1..4, SleepNow(Reading(now, n)), fault' = "none"
  PROVE  Soonest(rtc', schedule, now) \/ UNCHANGED <<rtc, fault>>
<1> DEFINE r == Reading(now, n)
           wake == next_wake(schedule.entries, r)
<1>1. rtc \in Chip /\ schedule \in Schedule /\ Instant(r) /\ now \in Time
  BY ScheduleAssumption, ReadingInRange DEF TypeOK
<1>2. schedule.entries \in SUBSET Entry
  BY <1>1 DEF Schedule
<1> SUFFICES ASSUME wake # NoTime,
                    NEW outcome \in set_wake_alarm(rtc, wake),
                    rtc' = outcome.chip, outcome.ok, True(r, now)
             PROVE  Soonest(rtc', schedule, now)
  BY DEF SleepNow, Fault
<1>3. wake \in Time /\ Occurrences(schedule.entries, "Wake") # {}
  BY <1>1, <1>2, NextWakeIsWake
<1>4. \A p \in Occurrences(schedule.entries, "Wake") : delta(wake, r) <= delta(p, r)
  BY <1>1, <1>2, <1>3, NextOccurrenceIsSoonest DEF next_wake
<1> HIDE DEF wake, r
<1>5. Held(rtc') = wake
  BY <1>1, <1>3, SetKeepsChip DEF Held
<1> QED
  BY <1>1, <1>4, <1>5, TrueReading DEF Soonest

(* A chip without an error whose schedule has wakes holds a time of one.    *)
LEMMA HeldIsWake ==
  ASSUME IInv, fault # "error", schedule.enabled, Wakes # {}
  PROVE  /\ rtc.aie /\ Held(rtc) \in Wakes /\ Held(rtc) \in Time
         /\ Wakes \subseteq Time
<1>1. schedule.entries \in SUBSET Entry
  BY ScheduleAssumption DEF IInv, TypeOK, Schedule
<1>2. rtc.aie /\ Held(rtc) \in Wakes
  BY DEF IInv, Good, Held, Wakes
<1> QED
  BY <1>1, <1>2, OccurrenceIsTime DEF Wakes

(* The alarm fires at the minute the chip holds.                           *)
LEMMA FiresWhenHeld ==
  ASSUME NEW c, NEW t \in Time, Held(c) = t
  PROVE  Matches(c, t)
<1>1. Held(c).weekday = c.weekday /\ Held(c).hour = c.hour /\ Held(c).minute = c.minute
  BY DEF Held
<1> QED
  BY <1>1 DEF Matches

(* Passing time keeps the next wake in the chip until the chip fires.      *)
LEMMA TickKeepsSoonest ==
  ASSUME IInv, SoonestInChip, Tick
  PROVE  SoonestInChip'
<1>1. /\ UNCHANGED <<schedule, fault>> /\ now' = NextMinute(now)
      /\ rtc' = [rtc EXCEPT !.af = rtc.af \/ Fires]
  BY DEF Tick
<1>2. rtc \in Chip /\ now \in Time /\ now' \in Time
  BY <1>1, NextMinuteIsTime DEF IInv, TypeOK
<1>3. Held(rtc') = Held(rtc) /\ (rtc'.af <=> rtc.af \/ Fires)
  BY <1>1, <1>2 DEF Held, Chip
<1> SUFFICES ASSUME fault = "none", ~rtc.af, ~Fires, schedule.enabled,
                    NEW p \in Occurrences(schedule.entries, "Wake")
             PROVE  delta(Held(rtc), now') <= delta(p, now')
  BY <1>1, <1>3 DEF SoonestInChip, Soonest
<1>4. Held(rtc) \in Time /\ p \in Time
  BY HeldIsWake DEF Wakes
<1>5. Held(rtc) # NextMinute(now)
  BY <1>1, <1>2, FiresWhenHeld DEF Fires
<1>6. delta(Held(rtc), now) <= delta(p, now)
  BY DEF SoonestInChip, Soonest
<1>7. delta(Held(rtc), now) \in 1..MINUTES_PER_WEEK /\ delta(p, now) \in 1..MINUTES_PER_WEEK
  BY <1>2, <1>4, DeltaPositive DEF Time, Instant
<1>8. delta(Held(rtc), now) # 1
  BY <1>2, <1>4, <1>5, DeltaNext
<1>9. MINUTES_PER_WEEK \in Int
  BY LengthAssumption DEF MINUTES_PER_WEEK
<1>10. delta(p, now) # 1
  BY <1>6, <1>7, <1>8, <1>9
<1>11. /\ delta(Held(rtc), now') = delta(Held(rtc), now) - 1
       /\ delta(p, now') = delta(p, now) - 1
  BY <1>1, <1>2, <1>4, <1>8, <1>10, DeltaNext
<1> QED
  BY <1>6, <1>7, <1>9, <1>11

(* Every step keeps the next wake in the chip. *)
LEMMA NextKeepsSoonest ==
  ASSUME IInv, SoonestInChip, [Next]_vars
  PROVE  SoonestInChip'
<1>1. TypeOK
  BY DEF IInv
<1>2. CASE Start
  <2>1. schedule \in Schedules
    BY <1>1 DEF TypeOK
  <2> QED
    BY <1>1, <1>2, <2>1, ApplyIsSoonest DEF Start, SoonestInChip
<1>3. ASSUME NEW s \in Schedules, ScheduleChanged(s) PROVE SoonestInChip'
  BY <1>1, <1>3, ApplyIsSoonest DEF ScheduleChanged, SoonestInChip
<1>4. CASE Poll
  <2>1. PICK n \in 1..4 : SleepNow(Reading(now, n))
    BY <1>4 DEF Poll
  <2>2. UNCHANGED <<now, schedule>>
    BY <2>1 DEF SleepNow
  <2>3. fault' = "none" => Soonest(rtc', schedule, now) \/ UNCHANGED <<rtc, fault>>
    BY <1>1, <2>1, SleepIsSoonest
  <2> QED
    BY <2>2, <2>3 DEF SoonestInChip
<1>5. CASE ButtonShutdown \/ Leave \/ PowerDown \/ Abort \/ PowerOn \/ UNCHANGED vars
  <2>1. UNCHANGED <<rtc, schedule, now, fault>>
    BY <1>5 DEF ButtonShutdown, Leave, PowerDown, Abort, PowerOn, vars
  <2> QED
    BY <2>1 DEF SoonestInChip
<1> QED
  BY <1>2, <1>3, <1>4, <1>5, TickKeepsSoonest DEF Next

(* The alarm in the chip is the next wake: whatever edits, sleeps, resets  *)
(* and nights came between, as long as no access failed or was torn and    *)
(* the flag is clear.                                                      *)
THEOREM SoonestStaysInChip == Spec => []SoonestInChip
<1>1. Init => SoonestInChip
  BY DEF Init, SoonestInChip
<1> QED
  BY <1>1, NextKeepsSoonest, Invariance, PTL DEF Spec

(* A Pi that a schedule put to sleep wakes at the first wake that comes    *)
(* round, for weeks, days and hours of any length and every schedule.      *)
THEOREM DarkWakes == Spec => DarkWakesOnTime
<1>1. ASSUME IInv, SoonestInChip, [Next]_vars,
             power = "off", fault = "none", ~rtc.af, schedule.enabled,
             now' # now, now' \in Wakes
      PROVE  power' = "booting"
  <2>1. Tick
    BY <1>1 DEF Next, vars, Start, ScheduleChanged, Poll, SleepNow, ButtonShutdown, Leave,
                PowerDown, Abort, PowerOn
  <2>2. now' = NextMinute(now) /\ now \in Time /\ now' \in Time
    BY <1>1, <2>1, NextMinuteIsTime DEF Tick, IInv, TypeOK
  <2>3. rtc.aie /\ Held(rtc) \in Time
    BY <1>1, HeldIsWake
  <2>4. delta(now', now) = 1
    BY <2>2, DeltaNext
  <2>5. delta(Held(rtc), now) <= 1
    BY <1>1, <2>4 DEF SoonestInChip, Soonest, Wakes
  <2>6. delta(Held(rtc), now) \in 1..MINUTES_PER_WEEK /\ MINUTES_PER_WEEK \in Int
    BY <2>2, <2>3, DeltaPositive, LengthAssumption DEF Time, Instant, MINUTES_PER_WEEK
  <2>7. delta(Held(rtc), now) = 1
    BY <2>5, <2>6
  <2>8. Held(rtc) = NextMinute(now)
    BY <2>2, <2>3, <2>7, DeltaNext
  <2>9. Fires
    BY <2>2, <2>8, FiresWhenHeld DEF Fires
  <2> QED
    BY <1>1, <2>1, <2>3, <2>9 DEF Tick
<1>2. IInv /\ SoonestInChip /\ [Next]_vars =>
        [power = "off" /\ down = "schedule" /\ fault = "none" /\ ~rtc.af /\ schedule.enabled
           /\ now' # now /\ now' \in Wakes => power' = "booting"]_vars
  BY <1>1
<1> QED
  BY <1>2, Invariance, SoonestStaysInChip, PTL DEF Spec, DarkWakesOnTime

-----------------------------------------------------------------------------
(* The invariant behind SleepNotRepeated: a daemon that knows of an        *)
(* aborted shutdown still carries the stamp of the minute it is in.        *)
StampKept ==
  power = "up" /\ aborted => lastTrigger = Stamp(Reading(now, 4))

(* Every step keeps the stamp of an aborted shutdown. *)
LEMMA NextKeepsStamp ==
  ASSUME StampKept, [Next]_vars
  PROVE  StampKept'
<1>1. CASE Start
  BY <1>1 DEF Start, StampKept
<1>2. ASSUME NEW s \in Schedules, ScheduleChanged(s) PROVE StampKept'
  BY <1>2 DEF ScheduleChanged, StampKept, Stamp, Reading
<1>3. CASE Poll
  BY <1>3 DEF Poll, SleepNow, StampKept
<1>4. CASE ButtonShutdown \/ Leave \/ PowerDown \/ PowerOn
  BY <1>4 DEF ButtonShutdown, Leave, PowerDown, PowerOn, StampKept
<1>5. CASE Abort
  BY <1>5 DEF Abort, StampKept, Stamp, Reading
<1>6. CASE Tick
  BY <1>6 DEF Tick, StampKept
<1>7. CASE UNCHANGED vars
  BY <1>7 DEF vars, StampKept, Stamp, Reading
<1> QED
  BY <1>1, <1>2, <1>3, <1>4, <1>5, <1>6, <1>7 DEF Next

(* From the abort until its minute is over, a running daemon remembers     *)
(* that it has already acted on this minute: check_rtc_sleep_schedule      *)
(* compares against the stamp, and nothing but the next minute or a        *)
(* restart takes it away.                                                  *)
THEOREM StampStays == Spec => []StampKept
<1>1. Init => StampKept
  BY DEF Init, StampKept
<1> QED
  BY <1>1, NextKeepsStamp, PTL DEF Spec

(* A minute in which a scheduled shutdown was aborted sees no second one   *)
(* stamped with that minute, for every schedule.                           *)
THEOREM SleepsOncePerMinute == Spec => SleepNotRepeated
<1>1. ASSUME StampKept, [Next]_vars,
             power = "up", power' = "halting", down' = "schedule", aborted
      PROVE  lastTrigger' # Stamp(Reading(now, 4))
  <2>1. Poll \/ ButtonShutdown
    BY <1>1 DEF Next, vars, Start, ScheduleChanged, Leave, PowerDown, Abort, PowerOn, Tick
  <2>2. Poll
    BY <1>1, <2>1 DEF ButtonShutdown
  <2>3. PICK n \in 1..4 : lastTrigger # Stamp(Reading(now, n)) /\ SleepNow(Reading(now, n))
    BY <2>2 DEF Poll
  <2>4. lastTrigger = Stamp(Reading(now, 4))
    BY <1>1 DEF StampKept
  <2>5. lastTrigger' = Stamp(Reading(now, n))
    BY <2>3 DEF SleepNow
  <2> QED
    BY <2>3, <2>4, <2>5
<1>2. StampKept /\ [Next]_vars =>
        [power = "up" /\ power' = "halting" /\ down' = "schedule" /\ aborted
           => lastTrigger' # Stamp(Reading(now, 4))]_vars
  BY <1>1
<1> QED
  BY <1>2, StampStays, PTL DEF Spec, SleepNotRepeated
=============================================================================
