------------------------------ MODULE RtcPower ------------------------------
(***************************************************************************)
(* Scheduled sleep and wake on an EON case: the PCF8563 with its one alarm *)
(* slot, which outlives everything else; service::run arming it at start   *)
(* and on schedule edits, polling it for a sleep entry and shutting the Pi *)
(* down; the power button; the Pi going dark and being woken by the alarm. *)
(*                                                                         *)
(* A reading of the clock is one register after another, and the clock may *)
(* roll over between two of them.  Any access may fail, before or after    *)
(* the chip took the byte, and arming then ends where it is.               *)
(***************************************************************************)
EXTENDS RtcSchedule

CONSTANTS
  Schedules,  \* the schedules that may be configured
  AnyDay,     \* the weekday alarm register: this field does not matter
  NoTrigger   \* rtc_last_sleep_trigger is None

ASSUME ScheduleAssumption == Schedules \subseteq Schedule
ASSUME AnyDayAssumption == AnyDay \notin Weekday

VARIABLES
  now,          \* the clock, to the minute
  rtc,          \* the alarm registers, the interrupt enable and the flag
  schedule,     \* the loop's schedule, which is the stored one
  power,        \* "off", "booting" (no daemon), "up", "halting" (daemon still there)
  down,         \* who asked for the last shutdown: "schedule" or "other"
  lastTrigger,  \* rtc_last_sleep_trigger
  fault,        \* history: how the last attempt to arm or disarm ended: "error",
                \*   "torn" (done, for a reading torn by a rollover) or "none"
  aborted       \* history: a scheduled shutdown was aborted in this minute

vars == <<now, rtc, schedule, power, down, lastTrigger, fault, aborted>>

Chip  == [minute : Minute, hour : Hour, weekday : Weekday \cup {AnyDay},
          aie : BOOLEAN, af : BOOLEAN]
Date  == [day : Weekday, hour : Hour, minute : Minute]

Daemon == power \in {"up", "halting"}

-----------------------------------------------------------------------------
(* The clock and read_time.  A date is known by its day within the week:   *)
(* a stamp is forgotten before its minute can come again (see Tick).       *)
NextMinute(t) ==
  IF t.minute + 1 < MINUTES THEN [t EXCEPT !.minute = @ + 1]
  ELSE IF t.hour + 1 < HOURS THEN [t EXCEPT !.minute = 0, !.hour = @ + 1]
  ELSE [minute |-> 0, hour |-> 0, weekday |-> IF t.weekday + 1 < DAYS THEN t.weekday + 1 ELSE 0]

(* Registers are read in the order minute, hour, day, weekday: the first   *)
(* n of them at t, the others after the rollover.                          *)
Reading(t, n) ==
  LET later(k) == IF n >= k THEN t ELSE NextMinute(t)
  IN  [minute |-> t.minute, hour |-> later(2).hour,
       day |-> later(3).weekday, weekday |-> later(4).weekday]

True(r, t) == r = Reading(t, 4)

mut_Stamp(r) == r
Stamp(r) == [day |-> r.day, hour |-> r.hour, minute |-> r.minute]

(* The alarm of the chip: fields that match, and the outcomes of the two   *)
(* commands, each the registers afterwards and whether it succeeded.       *)
Matches(c, t) == c.minute = t.minute /\ c.hour = t.hour /\ c.weekday \in {t.weekday, AnyDay}

Cleared(c)  == [c EXCEPT !.aie = FALSE, !.af = FALSE]
Set(c, t)   == [minute |-> t.minute, hour |-> t.hour, weekday |-> t.weekday,
                aie |-> c.aie, af |-> c.af]
Armed(c, t) == [Set(c, t) EXCEPT !.aie = TRUE]
Partly(c, t) ==
  { c, [c EXCEPT !.minute = t.minute], [c EXCEPT !.minute = t.minute, !.hour = t.hour],
    Set(c, t), Armed(c, t) }

Outcomes(done, failed) ==
  { [chip |-> done, ok |-> TRUE] } \cup { [chip |-> c, ok |-> FALSE] : c \in failed }

clear_alarm(c)       == Outcomes(Cleared(c), { c, Cleared(c) })
set_wake_alarm(c, t) == Outcomes(Armed(c, t), Partly(c, t))

(* apply_rtc_wake_alarm once it has a reading (it takes none when the      *)
(* schedule is disabled): clear, then arm the next wake, whatever became   *)
(* of the clear.                                                           *)
Rearm(c, t) ==
  UNION { { [chip |-> set.chip, ok |-> clear.ok /\ set.ok] : set \in set_wake_alarm(clear.chip, t) } :
            clear \in clear_alarm(c) }

mut_applied_returns_early(c, s, r) ==
  IF ~s.enabled THEN { [chip |-> c, ok |-> TRUE] }
  ELSE IF next_wake(s.entries, r) = NoTime THEN clear_alarm(c)
  ELSE Rearm(c, next_wake(s.entries, r))

applied(c, s, r) ==
  IF ~s.enabled \/ next_wake(s.entries, r) = NoTime THEN clear_alarm(c)
  ELSE Rearm(c, next_wake(s.entries, r))

Fault(ok, whole) == IF ~ok THEN "error" ELSE IF ~whole THEN "torn" ELSE "none"

apply_rtc_wake_alarm(s) ==
  \/ /\ s.enabled
     /\ fault' = "error"
     /\ UNCHANGED rtc
  \/ \E n \in 1..4 : \E outcome \in applied(rtc, s, Reading(now, n)) :
       /\ rtc' = outcome.chip
       /\ fault' = Fault(outcome.ok, True(Reading(now, n), now) \/ ~s.enabled)

-----------------------------------------------------------------------------
(* Registers as a battery change leaves them, or armed daily by the Python *)
(* daemon this one replaces.                                               *)
Init ==
  /\ now \in Time
  /\ rtc \in { [minute |-> 0, hour |-> 0, weekday |-> 0, aie |-> FALSE, af |-> FALSE],
               [minute |-> 0, hour |-> 0, weekday |-> AnyDay, aie |-> TRUE, af |-> FALSE] }
  /\ schedule \in Schedules
  /\ power = "booting"
  /\ down = "other"
  /\ lastTrigger = NoTrigger
  /\ fault = "error"
  /\ aborted = FALSE

(* service::run up to its loop. *)
Start ==
  /\ power = "booting"
  /\ power' = "up"
  /\ lastTrigger' = NoTrigger
  /\ aborted' = FALSE
  /\ apply_rtc_wake_alarm(schedule)
  /\ UNCHANGED <<now, schedule, down>>

(* The loop's rtc_schedule branch, for a schedule a client has PUT. *)
ScheduleChanged(s) ==
  /\ Daemon
  /\ schedule' = s
  /\ apply_rtc_wake_alarm(s)
  /\ UNCHANGED <<now, power, down, lastTrigger, aborted>>

(* check_rtc_sleep_schedule when the poll finds a sleep entry it has not   *)
(* acted on; a poll that does not changes nothing here.  The next wake is  *)
(* set over whatever the chip holds, its flag included.                    *)
SleepNow(r) ==
  /\ Daemon
  /\ schedule.enabled
  /\ matching_sleep_entry(schedule.entries, r)
  /\ \/ /\ next_wake(schedule.entries, r) = NoTime
        /\ UNCHANGED <<rtc, fault>>
     \/ /\ next_wake(schedule.entries, r) # NoTime
        /\ \E outcome \in set_wake_alarm(rtc, next_wake(schedule.entries, r)) :
             /\ rtc' = outcome.chip
             /\ fault' = Fault(outcome.ok, True(r, now))
  /\ power' = "halting"
  /\ down' = "schedule"
  /\ lastTrigger' = Stamp(r)
  /\ UNCHANGED <<now, schedule, aborted>>

mut_Poll_repeats == \E n \in 1..4 : SleepNow(Reading(now, n))
Poll ==
  \E n \in 1..4 :
    /\ lastTrigger # Stamp(Reading(now, n))
    /\ SleepNow(Reading(now, n))

(* handle_button_event: a shutdown pulse does not touch the alarm. *)
ButtonShutdown ==
  /\ Daemon
  /\ power' = "halting"
  /\ down' = "other"
  /\ UNCHANGED <<now, rtc, schedule, lastTrigger, fault, aborted>>

(* A reboot pulse, or a crash: the daemon is gone and comes back. *)
Leave ==
  /\ Daemon
  /\ power' = "booting"
  /\ UNCHANGED <<now, rtc, schedule, down, lastTrigger, fault, aborted>>

(* What systemd and the case do with a poweroff that was asked for: go     *)
(* through with it, or refuse or abort it.                                 *)
PowerDown ==
  /\ power = "halting"
  /\ power' = "off"
  /\ UNCHANGED <<now, rtc, schedule, down, lastTrigger, fault, aborted>>

Abort ==
  /\ power = "halting"
  /\ power' = "up"
  /\ aborted' = (down = "schedule" /\ lastTrigger = Stamp(Reading(now, 4)))
  /\ UNCHANGED <<now, rtc, schedule, down, lastTrigger, fault>>

(* Somebody presses the button of a dark case. *)
PowerOn ==
  /\ power = "off"
  /\ power' = "booting"
  /\ UNCHANGED <<now, rtc, schedule, down, lastTrigger, fault, aborted>>

(* A minute passes.  The chip raises its flag when the alarm fields match; *)
(* the interrupt follows flag and enable, and its rising edge wakes a dark *)
(* case: an alarm that finds the flag still set is the stuck output that   *)
(* apply_rtc_wake_alarm clears the flag for.                               *)
Fires == Matches(rtc, NextMinute(now))

Tick ==
  /\ now' = NextMinute(now)
  /\ rtc' = [rtc EXCEPT !.af = @ \/ Fires]
  /\ power' = IF power = "off" /\ Fires /\ rtc.aie /\ ~rtc.af THEN "booting" ELSE power
  /\ lastTrigger' = IF lastTrigger = Stamp(Reading(now, 4)) THEN NoTrigger ELSE lastTrigger
  /\ aborted' = FALSE
  /\ UNCHANGED <<schedule, down, fault>>

Next ==
  \/ Start
  \/ \E s \in Schedules : ScheduleChanged(s)
  \/ Poll \/ ButtonShutdown \/ Leave
  \/ PowerDown \/ Abort \/ PowerOn
  \/ Tick

Spec == Init /\ [][Next]_vars

(* Time passes. *)
FairSpec == Spec /\ WF_vars(Tick)

-----------------------------------------------------------------------------
Wakes == Occurrences(schedule.entries, "Wake")
Alarm == [weekday |-> rtc.weekday, hour |-> rtc.hour, minute |-> rtc.minute]

(* Every variable has its type: the chip holds BCD fields in range, the    *)
(* stamp is a date and an hour and minute.                                 *)
TypeOK ==
  /\ now \in Time
  /\ rtc \in Chip
  /\ schedule \in Schedules
  /\ power \in {"off", "booting", "up", "halting"}
  /\ down \in {"schedule", "other"}
  /\ lastTrigger \in Date \cup {NoTrigger}
  /\ fault \in {"none", "torn", "error"}
  /\ aborted \in BOOLEAN

(* apply_rtc_wake_alarm: disabling the schedule or deleting its last wake  *)
(* must disarm the chip, or the Pi keeps waking at the old time.  Once an  *)
(* attempt succeeds, the alarm is enabled exactly when the schedule has a  *)
(* wake to offer, and what it holds is one of them, whole: across edits,   *)
(* reboots, nights, the mixture a failed attempt left in the chip, and a   *)
(* clock that was read while it rolled over.                               *)
AlarmFollowsSchedule ==
  fault # "error" =>
    /\ rtc.aie <=> schedule.enabled /\ Wakes # {}
    /\ rtc.aie => Alarm \in Wakes

(* check_rtc_sleep_schedule: the next wake is armed before going dark, as  *)
(* nothing will be running to do it later.  A Pi put to sleep by schedule, *)
(* with no fault and the flag clear, is woken at the first wake that comes *)
(* round: never later, however the sleep, edits and the week's end fall.   *)
DarkWakesOnTime ==
  [][ power = "off" /\ down = "schedule" /\ fault = "none" /\ ~rtc.af /\ schedule.enabled
        /\ now' # now /\ now' \in Wakes
      => power' = "booting" ]_vars

(* check_rtc_sleep_schedule: one matching minute must not poweroff-loop    *)
(* when something aborts the shutdown.  A daemon whose scheduled shutdown  *)
(* was aborted asks for no other on the same minute.                       *)
SleepNotRepeated ==
  [][ power = "up" /\ power' = "halting" /\ down' = "schedule" /\ aborted
      => lastTrigger' # Stamp(Reading(now, 4)) ]_vars

(* apply_rtc_wake_alarm: the alarm is always armed for whichever wake      *)
(* comes next, not stuck on whatever was configured at boot.  A Pi that    *)
(* its button shuts down should have the next wake in the chip.            *)
ArmedForNextWake ==
  [][ power = "up" /\ power' = "halting" /\ down' = "other"
        /\ fault = "none" /\ schedule.enabled /\ Wakes # {}
      => Alarm = next_wake(schedule.entries, now) ]_vars

(* apply_rtc_wake_alarm: it runs on every self-triggered sleep, and clears *)
(* a flag left over from a previous fire, which can otherwise make the     *)
(* alarm output look stuck.  A scheduled sleep should leave the flag clear.*)
SleepClearsFlag ==
  [][ power = "up" /\ power' = "halting" /\ down' = "schedule"
        /\ fault = "none" /\ fault' = "none" /\ schedule.enabled /\ Wakes # {}
      => ~rtc'.af ]_vars
=============================================================================
