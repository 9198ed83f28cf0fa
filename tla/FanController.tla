--------------------------- MODULE FanController ---------------------------
(***************************************************************************)
(* The fan side of the control loop: FanController::tick_with_floor as     *)
(* service::run calls it from the poll timer and from the two curve        *)
(* channels, over the I2C fan backend, with daemon restarts and the other  *)
(* processes (`status`, `fanoff`, `shutdown`) that drive the same MCU.     *)
(*                                                                         *)
(* Time passes in units; only ages count, and they saturate.  The loop is  *)
(* one task, so a handler is one step, but it may get to a due poll late   *)
(* (a slow smartctl, a held bus lock, a blocking systemctl): up to MaxLag. *)
(***************************************************************************)
EXTENDS FanCurve

CONSTANTS
  POLL_INTERVAL,        \* units between two polls
  DECREASE_HYSTERESIS,  \* units a lower demand must last
  MaxLag,               \* bound: units a poll may be served late
  CpuCurves, HddCurves, \* the curves that may be configured
  CpuTemps, DiskTemps,  \* the readings that may occur
  NoTemp,               \* a reading that failed, or no disk that reports one
  NoPending             \* pending_decrease is None

ASSUME IntervalAssumption ==
  POLL_INTERVAL \in Nat \ {0} /\ DECREASE_HYSTERESIS \in Nat \ {0} /\ MaxLag \in Nat
ASSUME CurveAssumption ==
  CpuCurves \subseteq Curve /\ HddCurves \subseteq Curve
ASSUME TempAssumption ==
  CpuTemps \subseteq Int /\ DiskTemps \subseteq Int /\ NoTemp \notin Int
ASSUME PendingAssumption ==
  NoPending \notin [target : Percent, age : 0..DECREASE_HYSTERESIS]

VARIABLES
  daemon,            \* "stopped", "i2c" (MCU found at start) or "noop" (not found)
  cpu_curve,         \* FanController.curve
  hdd_curve,         \* the loop's own copy of the HDD curve
  current_speed,     \* what the loop believes the fan runs at
  pending_decrease,  \* the lower target waiting out the hysteresis window
  last_disk_temp_c,  \* the disk reading of the last poll
  until_poll,        \* units to the next poll deadline; 0 or less is due
  duty,              \* the MCU's duty cycle register
  demand,            \* history: the speed the last readings asked for
  demanded,          \* history: units since readings have asked for just that,
                     \*   counted anew after a write that failed
  sensed,            \* history: the last evaluation got a CPU reading
  unmet,             \* history: the write the last reading called for failed
  written            \* history: who wrote duty last, "failed" if it met an error

vars == <<daemon, cpu_curve, hdd_curve, current_speed, pending_decrease,
          last_disk_temp_c, until_poll, duty, demand, demanded, sensed,
          unmet, written>>
curves  == <<cpu_curve, hdd_curve>>
control == <<current_speed, pending_decrease>>
history == <<demand, demanded, sensed, unmet>>

Running == daemon # "stopped"

Larger(a, b) == IF a >= b THEN a ELSE b

hdd_floor(curve, disk) == IF disk = NoTemp THEN 0 ELSE speed_for(curve, disk)

(* What a reading asks for, as the documentation puts it: the higher of    *)
(* the two curves' demands.  History only; the code's own target follows.  *)
Asked(cpu, t, floor_pct) == Larger(speed_for(cpu, t), floor_pct)

mut_target_adds_floor(cpu, t, floor_pct) == speed_for(cpu, t) + floor_pct
mut_target_ignores_floor(cpu, t, floor_pct) == speed_for(cpu, t)
target_speed(cpu, t, floor_pct) == Larger(speed_for(cpu, t), floor_pct)

Init ==
  /\ daemon = "stopped"
  /\ cpu_curve \in CpuCurves
  /\ hdd_curve \in HddCurves
  /\ current_speed = 0
  /\ pending_decrease = NoPending
  /\ last_disk_temp_c = NoTemp
  /\ until_poll = 0
  /\ duty \in Percent \cap {0, 100}
  /\ demand = 0
  /\ demanded = 0
  /\ sensed = FALSE
  /\ unmet = FALSE
  /\ written = "boot"

-----------------------------------------------------------------------------
(* The decision of tick_with_floor for a target. *)
Waiting(target) == pending_decrease # NoPending /\ pending_decrease.target = target

Sustained(target) == Waiting(target) /\ pending_decrease.age >= DECREASE_HYSTERESIS

new_speed(target) ==
  IF target >= current_speed \/ Sustained(target) THEN target ELSE current_speed

(* A pending decrease survives only if the same lower target comes again. *)
mut_new_pending_survives_raise(target) ==
  IF Sustained(target) THEN NoPending
  ELSE IF Waiting(target) \/ target >= current_speed THEN pending_decrease
  ELSE [target |-> target, age |-> 0]
mut_new_pending_starts_over(target) ==
  IF target >= current_speed \/ Sustained(target) THEN NoPending
  ELSE [target |-> target, age |-> 0]
new_pending(target) ==
  IF target >= current_speed \/ Sustained(target) THEN NoPending
  ELSE IF Waiting(target) THEN pending_decrease
  ELSE [target |-> target, age |-> 0]

(* set_speed: the no-op backend always succeeds and does nothing; an I2C   *)
(* error may strike before or after the MCU has taken the byte.            *)
WriteDuty(speed) ==
  \/ /\ daemon = "noop"
     /\ current_speed' = speed
     /\ unmet' = FALSE
     /\ UNCHANGED <<duty, written>>
  \/ /\ daemon = "i2c"
     /\ current_speed' = speed
     /\ duty' = speed
     /\ unmet' = FALSE
     /\ written' = "controller"
  \/ /\ daemon = "i2c"
     /\ \/ UNCHANGED <<duty, written>>
        \/ duty' = speed /\ written' = "failed"
     /\ unmet' = TRUE
     /\ UNCHANGED current_speed

(* No write is due when the speed does not change. *)
Apply(target) ==
  /\ pending_decrease' = new_pending(target)
  /\ \/ /\ new_speed(target) = current_speed
        /\ unmet' = FALSE
        /\ UNCHANGED <<current_speed, duty, written>>
     \/ /\ new_speed(target) # current_speed
        /\ WriteDuty(new_speed(target))

(* tick_with_floor with the given curve and floor, the CPU reading free. *)
TickWithFloor(cpu, floor_pct) ==
  \/ /\ sensed' = FALSE
     /\ UNCHANGED <<control, duty, written, demand, demanded, unmet>>
  \/ \E t \in CpuTemps :
       /\ sensed' = TRUE
       /\ demand' = Asked(cpu, t, floor_pct)
       /\ demanded' = IF demand' = demand /\ ~unmet THEN demanded ELSE 0
       /\ Apply(target_speed(cpu, t, floor_pct))

-----------------------------------------------------------------------------
(* The select! branches of service::run that end in a tick. *)
Poll ==
  /\ Running /\ until_poll <= 0
  /\ last_disk_temp_c' \in DiskTemps \cup {NoTemp}
  /\ TickWithFloor(cpu_curve, hdd_floor(hdd_curve, last_disk_temp_c'))
  /\ until_poll' = until_poll + POLL_INTERVAL
  /\ UNCHANGED <<daemon, curves>>

mut_CpuCurveChanged_resets_hold(curve) ==
  /\ Running
  /\ cpu_curve' = curve
  /\ pending_decrease' = NoPending
  /\ UNCHANGED <<daemon, hdd_curve, current_speed, last_disk_temp_c, until_poll,
                 duty, history, written>>

CpuCurveChanged(curve) ==
  /\ Running
  /\ cpu_curve' = curve
  /\ TickWithFloor(curve, hdd_floor(hdd_curve, last_disk_temp_c))
  /\ UNCHANGED <<daemon, hdd_curve, last_disk_temp_c, until_poll>>

HddCurveChanged(curve) ==
  /\ Running
  /\ hdd_curve' = curve
  /\ TickWithFloor(cpu_curve, hdd_floor(curve, last_disk_temp_c))
  /\ UNCHANGED <<daemon, cpu_curve, last_disk_temp_c, until_poll>>

(* The clock. *)
OneOlder(age) == IF age < DECREASE_HYSTERESIS THEN age + 1 ELSE age

Tick ==
  /\ until_poll > -MaxLag \/ ~Running
  /\ until_poll' = IF Running THEN until_poll - 1 ELSE until_poll
  /\ pending_decrease' = IF pending_decrease = NoPending THEN NoPending
                         ELSE [pending_decrease EXCEPT !.age = OneOlder(@)]
  /\ demanded' = OneOlder(demanded)
  /\ UNCHANGED <<daemon, curves, current_speed, last_disk_temp_c, duty, demand,
                 sensed, unmet, written>>

(* service::run from detect to the first select!: the probe of the MCU     *)
(* writes duty 0, and an MCU that does not answer is not asked again.      *)
StartAt(speed) ==
  /\ ~Running
  /\ \/ daemon' = "i2c" /\ duty' = 0 /\ written' = "controller"
     \/ daemon' = "noop" /\ duty' \in {0, duty} /\ written' = "failed"
  /\ cpu_curve' \in CpuCurves
  /\ hdd_curve' \in HddCurves
  /\ current_speed' = speed
  /\ pending_decrease' = NoPending
  /\ last_disk_temp_c' = NoTemp
  /\ until_poll' = 0
  /\ demand' = 0
  /\ demanded' = 0
  /\ sensed' = FALSE
  /\ unmet' = FALSE

mut_Start_keeps_speed == StartAt(current_speed)
Start == StartAt(0)

(* SIGTERM, or a crash: the loop ends and leaves the fan as it is. *)
Stop ==
  /\ Running
  /\ daemon' = "stopped"
  /\ UNCHANGED <<curves, control, last_disk_temp_c, until_poll, duty, history, written>>

(* Another process of the same binary: `status` and `shutdown` probe the   *)
(* MCU, which writes duty 0; `fanoff` writes 0 once more.                  *)
OtherProcess ==
  /\ duty' = 0
  /\ written' = "other"
  /\ UNCHANGED <<daemon, curves, control, last_disk_temp_c, until_poll, history>>

Next ==
  \/ Poll
  \/ \E curve \in CpuCurves : CpuCurveChanged(curve)
  \/ \E curve \in HddCurves : HddCurveChanged(curve)
  \/ Tick
  \/ Start
  \/ Stop
  \/ OtherProcess

Spec == Init /\ [][Next]_vars

(* The clock runs, and the loop gets to a due poll: every await and every  *)
(* blocking call of its handlers ends.                                     *)
FairSpec == Spec /\ WF_vars(Tick) /\ WF_vars(Poll)

-----------------------------------------------------------------------------
(* Every variable has its type: speeds are percentages, ages saturate at   *)
(* the window, a poll is never later than MaxLag.                          *)
TypeOK ==
  /\ daemon \in {"stopped", "i2c", "noop"}
  /\ cpu_curve \in CpuCurves
  /\ hdd_curve \in HddCurves
  /\ current_speed \in Percent
  /\ pending_decrease \in
       [target : Percent, age : 0..DECREASE_HYSTERESIS] \cup {NoPending}
  /\ last_disk_temp_c \in DiskTemps \cup {NoTemp}
  /\ until_poll \in -MaxLag..POLL_INTERVAL
  /\ duty \in Percent
  /\ demand \in Percent
  /\ demanded \in 0..DECREASE_HYSTERESIS
  /\ sensed \in BOOLEAN
  /\ unmet \in BOOLEAN
  /\ written \in {"boot", "controller", "failed", "other"}

(* fan/mod.rs: a decrease waits until the lower reading has been sustained *)
(* for a full hysteresis window.  When the speed drops, every reading of   *)
(* the window has asked for exactly the new speed, whatever polls, curve   *)
(* edits, missing readings and failed writes fell into it.                 *)
NoEarlyDecrease ==
  [][ Running /\ Running' /\ current_speed' < current_speed =>
        demanded >= DECREASE_HYSTERESIS /\ demand = current_speed'
          /\ demand' = current_speed' ]_vars

(* fan/mod.rs: a curve edit must not reset the hysteresis window an        *)
(* operator might be mid-way through.  While the fan is held above what    *)
(* the readings ask for, the window runs, it is for what they ask, and it  *)
(* is exactly as old as that demand: nothing restarts or extends it.       *)
WindowFollowsDemand ==
  Running =>
    /\ pending_decrease # NoPending =>
         /\ pending_decrease.target = demand
         /\ demand < current_speed
         /\ pending_decrease.age = demanded
    /\ demand < current_speed /\ ~unmet => pending_decrease # NoPending

(* Increases apply at once: but for a failed write, the fan is believed to *)
(* run at least as fast as either curve asked for at the last reading.     *)
NeverBelowDemand ==
  Running /\ ~unmet => current_speed >= demand

(* What the loop believes is what the MCU does, unless the MCU took the    *)
(* byte of a write that failed, was not found at start, or another process *)
(* has written since.  A failed write that it did not take is not believed.*)
BelievedSpeedIsReal ==
  daemon = "i2c" /\ written = "controller" => duty = current_speed

(* A demand that no longer changes, with readings and writes that succeed, *)
(* is eventually met: no decrease is held for ever.                        *)
Settled(d) == Running /\ sensed /\ ~unmet /\ demand = d
DemandIsMet ==
  \A d \in Percent \cap {0, 30, 55, 100} :
    <>[]Settled(d) => <>[](current_speed = d)

(* fan_curve.html: the server always enforces at least 25% fan at or above *)
(* 75 degrees.  A poll whose reading asks for that much, and for which no  *)
(* write failed, should leave the MCU at that much, whoever wrote before.  *)
DutyMeetsDemand ==
  [][ daemon = "i2c" /\ until_poll' > until_poll /\ sensed' /\ ~unmet'
        /\ demand' >= MIN_SAFE_PCT
      => duty' >= MIN_SAFE_PCT ]_vars
=============================================================================
