------------------------ MODULE FanController_proofs ------------------------
(***************************************************************************)
(* The fan controller for every pair of intervals, every set of curves and *)
(* every set of readings.  The history demanded is what makes the claims   *)
(* about the hysteresis window inductive: as long as the fan is held above *)
(* what the readings ask for, the window is as old as that demand.         *)
(***************************************************************************)
EXTENDS FanController, SharedLemmas

Pending == [target : Percent, age : 0..DECREASE_HYSTERESIS]

(* The registers and histories that a tick decides about. *)
ControlTypeOK ==
  /\ current_speed \in Percent
  /\ pending_decrease \in Pending \cup {NoPending}
  /\ duty \in Percent
  /\ demand \in Percent
  /\ demanded \in 0..DECREASE_HYSTERESIS
  /\ sensed \in BOOLEAN
  /\ unmet \in BOOLEAN
  /\ written \in {"boot", "controller", "failed", "other"}

(* A write that fails has used its window up. *)
FailureDropsWindow == Running /\ unmet => pending_decrease = NoPending

Window == WindowFollowsDemand /\ FailureDropsWindow /\ NeverBelowDemand

IInv == TypeOK /\ Window /\ BelievedSpeedIsReal

-----------------------------------------------------------------------------
(* The HDD floor is a percentage, with a disk reading or without.          *)
LEMMA FloorIsPercent ==
  ASSUME NEW curve \in HddCurves, NEW disk \in DiskTemps \cup {NoTemp}
  PROVE  hdd_floor(curve, disk) \in Percent
<1>1. CASE disk = NoTemp
  BY <1>1 DEF hdd_floor, Percent
<1>2. CASE disk # NoTemp
  <2>1. curve \in Curve /\ disk \in Int
    BY <1>2, CurveAssumption, TempAssumption
  <2> QED
    BY <1>2, <2>1, SpeedIsPercent DEF hdd_floor
<1> QED
  BY <1>1, <1>2

(* The target the code computes is what the readings ask for. *)
LEMMA TargetIsAsked ==
  ASSUME NEW cpu \in CpuCurves, NEW t \in CpuTemps, NEW floor_pct \in Percent
  PROVE  /\ target_speed(cpu, t, floor_pct) \in Percent
         /\ Asked(cpu, t, floor_pct) = target_speed(cpu, t, floor_pct)
<1>1. speed_for(cpu, t) \in Percent
  BY CurveAssumption, TempAssumption, SpeedIsPercent
<1> QED
  BY <1>1 DEF target_speed, Asked, Larger

-----------------------------------------------------------------------------
(* One evaluation with a reading, whichever branch of the loop it is in:   *)
(* what it does to the control state, when the history follows the target. *)
LEMMA ApplyKeepsTypes ==
  ASSUME ControlTypeOK, NEW target \in Percent, Apply(target)
  PROVE  /\ current_speed' \in Percent
         /\ pending_decrease' \in Pending \cup {NoPending}
         /\ duty' \in Percent
         /\ unmet' \in BOOLEAN
         /\ written' \in {"boot", "controller", "failed", "other"}
<1>1. new_speed(target) \in Percent
  BY DEF new_speed, ControlTypeOK
<1>2. [target |-> target, age |-> 0] \in Pending
  BY IntervalAssumption DEF Pending
<1>3. new_pending(target) \in Pending \cup {NoPending}
  BY <1>2 DEF new_pending, ControlTypeOK
<1> QED
  BY <1>1, <1>3 DEF Apply, WriteDuty, ControlTypeOK

Follows(target) ==
  /\ demand' = target
  /\ demanded' = IF demand' = demand /\ ~unmet THEN demanded ELSE 0

(* An evaluation leaves the window for what the reading asks for, as old   *)
(* as that demand, and the fan at least that fast.                         *)
LEMMA ApplyKeepsWindow ==
  ASSUME ControlTypeOK, Window, Running, daemon' = daemon,
         NEW target \in Percent, Apply(target), Follows(target)
  PROVE  Window'
<1> USE DEF Percent
<1>0. target \in Int /\ current_speed \in Int /\ demand \in Int
  BY DEF ControlTypeOK
<1>1. CASE target >= current_speed
  <2>1. pending_decrease' = NoPending
    BY <1>1 DEF Apply, new_pending
  <2>2. current_speed' = target \/ unmet' = TRUE
    BY <1>1 DEF Apply, WriteDuty, new_speed
  <2> QED
    BY <1>0, <2>1, <2>2
    DEF Follows, Window, WindowFollowsDemand, FailureDropsWindow, NeverBelowDemand
<1>2. CASE target < current_speed /\ Sustained(target)
  <2>1. pending_decrease' = NoPending
    BY <1>2 DEF Apply, new_pending
  <2>2. current_speed' = target \/ unmet' = TRUE
    BY <1>0, <1>2 DEF Apply, WriteDuty, new_speed
  <2> QED
    BY <1>0, <2>1, <2>2
    DEF Follows, Window, WindowFollowsDemand, FailureDropsWindow, NeverBelowDemand
<1>3. CASE target < current_speed /\ ~Sustained(target)
  <2>1. current_speed' = current_speed /\ unmet' = FALSE
    BY <1>0, <1>3 DEF Apply, new_speed
  <2>2. CASE Waiting(target)
    <3>1. pending_decrease' = pending_decrease
      BY <1>0, <1>3, <2>2 DEF Apply, new_pending
    <3>2. pending_decrease # NoPending /\ pending_decrease.target = target
      BY <2>2 DEF Waiting
    <3>3. demand = target /\ ~unmet
      BY <3>2 DEF Window, WindowFollowsDemand, FailureDropsWindow
    <3>4. demanded' = demanded /\ pending_decrease.age = demanded
      BY <3>2, <3>3 DEF Follows, Window, WindowFollowsDemand
    <3> QED
      BY <1>0, <1>3, <2>1, <3>1, <3>2, <3>4
      DEF Follows, Window, WindowFollowsDemand, FailureDropsWindow, NeverBelowDemand
  <2>3. CASE ~Waiting(target)
    <3>1. pending_decrease' = [target |-> target, age |-> 0]
      BY <1>0, <1>3, <2>3 DEF Apply, new_pending
    <3>2. demand # target \/ unmet
      BY <1>0, <1>3, <2>3 DEF Waiting, Window, WindowFollowsDemand
    <3>3. demanded' = 0
      BY <3>2 DEF Follows
    <3>4. pending_decrease' # NoPending
      BY <3>1, PendingAssumption, IntervalAssumption
    <3> QED
      BY <1>0, <1>3, <2>1, <3>1, <3>3, <3>4
      DEF Follows, Window, WindowFollowsDemand, FailureDropsWindow, NeverBelowDemand
  <2> QED
    BY <2>2, <2>3
<1> QED
  BY <1>0, <1>1, <1>2, <1>3

(* A write that succeeds makes belief and register equal.                  *)
LEMMA ApplyKeepsBelief ==
  ASSUME BelievedSpeedIsReal, daemon' = daemon, NEW target, Apply(target)
  PROVE  BelievedSpeedIsReal'
BY DEF Apply, WriteDuty, BelievedSpeedIsReal

-----------------------------------------------------------------------------
(* tick_with_floor, with a reading or without one. *)
LEMMA TickWithFloorKeeps ==
  ASSUME ControlTypeOK, Window, BelievedSpeedIsReal, Running, daemon' = daemon,
         NEW cpu \in CpuCurves, NEW floor_pct \in Percent,
         TickWithFloor(cpu, floor_pct)
  PROVE  ControlTypeOK' /\ Window' /\ BelievedSpeedIsReal'
<1>1. CASE sensed' = FALSE /\ UNCHANGED <<control, duty, written, demand, demanded, unmet>>
  BY <1>1 DEF control, ControlTypeOK, Window, WindowFollowsDemand, FailureDropsWindow,
              NeverBelowDemand, BelievedSpeedIsReal, Running
<1>2. ASSUME NEW t \in CpuTemps,
             sensed' = TRUE,
             demand' = Asked(cpu, t, floor_pct),
             demanded' = (IF demand' = demand /\ ~unmet THEN demanded ELSE 0),
             Apply(target_speed(cpu, t, floor_pct))
      PROVE  ControlTypeOK' /\ Window' /\ BelievedSpeedIsReal'
  <2> DEFINE target == target_speed(cpu, t, floor_pct)
  <2>1. target \in Percent /\ Follows(target)
    BY <1>2, TargetIsAsked DEF Follows
  <2>2. demanded' \in 0..DECREASE_HYSTERESIS
    BY <1>2, IntervalAssumption DEF ControlTypeOK
  <2>3. demand' \in Percent
    BY <2>1 DEF Follows
  <2> HIDE DEF target
  <2>4. Apply(target)
    BY <1>2 DEF target
  <2>5. ControlTypeOK'
    BY <1>2, <2>1, <2>2, <2>3, <2>4, ApplyKeepsTypes DEF ControlTypeOK
  <2>6. Window'
    BY <2>1, <2>4, ApplyKeepsWindow
  <2>7. BelievedSpeedIsReal'
    BY <2>4, ApplyKeepsBelief
  <2> QED
    BY <2>5, <2>6, <2>7
<1> QED
  BY <1>1, <1>2 DEF TickWithFloor

(* The type invariant is that of the control state and of the rest.        *)
LEMMA TypesSplit ==
  TypeOK <=> /\ ControlTypeOK
             /\ daemon \in {"stopped", "i2c", "noop"}
             /\ cpu_curve \in CpuCurves
             /\ hdd_curve \in HddCurves
             /\ last_disk_temp_c \in DiskTemps \cup {NoTemp}
             /\ until_poll \in -MaxLag..POLL_INTERVAL
BY DEF TypeOK, ControlTypeOK, Pending

-----------------------------------------------------------------------------
(* 0 is a percentage and an age.                                           *)
LEMMA ZeroInRange ==
  0 \in Percent /\ 0 \in 0..DECREASE_HYSTERESIS /\ 0 \in -MaxLag..POLL_INTERVAL
BY IntervalAssumption DEF Percent

(* The initial states satisfy the inductive invariant.                     *)
LEMMA InitEstablishes == Init => IInv
<1> SUFFICES ASSUME Init PROVE IInv
  OBVIOUS
<1>1. TypeOK
  BY ZeroInRange DEF Init, TypeOK
<1>2. Window /\ BelievedSpeedIsReal
  BY DEF Init, Window, WindowFollowsDemand, FailureDropsWindow, NeverBelowDemand,
         BelievedSpeedIsReal, Running
<1> QED
  BY <1>1, <1>2 DEF IInv

(* The poll branch of the loop keeps the inductive invariant.              *)
LEMMA PollKeeps == IInv /\ Poll => IInv'
<1> SUFFICES ASSUME IInv, Poll PROVE IInv'
  OBVIOUS
<1>1. Running /\ daemon' = daemon /\ UNCHANGED curves
  BY DEF Poll
<1>2. hdd_floor(hdd_curve, last_disk_temp_c') \in Percent
  BY FloorIsPercent DEF Poll, IInv, TypeOK
<1>3. ControlTypeOK' /\ Window' /\ BelievedSpeedIsReal'
  BY <1>1, <1>2, TypesSplit, TickWithFloorKeeps DEF Poll, IInv
<1>4. until_poll' \in -MaxLag..POLL_INTERVAL
  BY IntervalAssumption DEF Poll, IInv, TypeOK
<1> QED
  BY <1>1, <1>3, <1>4, TypesSplit DEF Poll, curves, IInv, TypeOK, ControlTypeOK, Pending

(* So does an edit of the CPU curve.                                       *)
LEMMA CpuCurveChangedKeeps ==
  ASSUME IInv, NEW curve \in CpuCurves, CpuCurveChanged(curve)
  PROVE  IInv'
<1>1. hdd_floor(hdd_curve, last_disk_temp_c) \in Percent
  BY FloorIsPercent DEF IInv, TypeOK
<1>2. ControlTypeOK' /\ Window' /\ BelievedSpeedIsReal'
  BY <1>1, TypesSplit, TickWithFloorKeeps DEF CpuCurveChanged, IInv
<1> QED
  BY <1>2 DEF CpuCurveChanged, IInv, TypeOK, ControlTypeOK, Pending

(* So does an edit of the HDD curve.                                       *)
LEMMA HddCurveChangedKeeps ==
  ASSUME IInv, NEW curve \in HddCurves, HddCurveChanged(curve)
  PROVE  IInv'
<1>1. hdd_floor(curve, last_disk_temp_c) \in Percent
  BY FloorIsPercent DEF IInv, TypeOK
<1>2. cpu_curve \in CpuCurves
  BY DEF IInv, TypeOK
<1>3. ControlTypeOK' /\ Window' /\ BelievedSpeedIsReal'
  BY <1>1, <1>2, TypesSplit, TickWithFloorKeeps DEF HddCurveChanged, IInv
<1> QED
  BY <1>3 DEF HddCurveChanged, IInv, TypeOK, ControlTypeOK, Pending

(* A pending decrease and the demand it waits for grow older together. *)
LEMMA TickKeeps == IInv /\ Tick => IInv'
<1> SUFFICES ASSUME IInv, Tick PROVE IInv'
  OBVIOUS
<1>1. \A age \in 0..DECREASE_HYSTERESIS : OneOlder(age) \in 0..DECREASE_HYSTERESIS
  BY IntervalAssumption DEF OneOlder
<1>2. demanded' \in 0..DECREASE_HYSTERESIS
  BY <1>1 DEF Tick, IInv, TypeOK
<1>3. until_poll' \in -MaxLag..POLL_INTERVAL
  BY IntervalAssumption DEF Tick, IInv, TypeOK
<1>4. CASE pending_decrease = NoPending
  <2>1. pending_decrease' = NoPending
    BY <1>4 DEF Tick
  <2> QED
    BY <1>2, <1>3, <1>4, <2>1
    DEF Tick, curves, IInv, TypeOK, Window, WindowFollowsDemand, FailureDropsWindow,
        NeverBelowDemand, BelievedSpeedIsReal, Running
<1>5. CASE pending_decrease # NoPending
  <2>1. pending_decrease \in Pending
    BY <1>5 DEF IInv, TypeOK, Pending
  <2>2. /\ pending_decrease' \in Pending
        /\ pending_decrease'.target = pending_decrease.target
        /\ pending_decrease'.age = OneOlder(pending_decrease.age)
    BY <1>1, <1>5, <2>1 DEF Tick, Pending
  <2>3. Window'
    BY <1>5, <2>2, PendingAssumption
    DEF Tick, IInv, Window, WindowFollowsDemand, FailureDropsWindow, NeverBelowDemand,
        Running, Pending
  <2> QED
    BY <1>2, <1>3, <2>2, <2>3
    DEF Tick, curves, IInv, TypeOK, BelievedSpeedIsReal, Pending
<1> QED
  BY <1>4, <1>5

(* So does a start, which forgets every belief and writes 0.               *)
LEMMA StartKeeps == IInv /\ Start => IInv'
<1> SUFFICES ASSUME IInv, Start PROVE IInv'
  OBVIOUS
<1>1. TypeOK'
  BY ZeroInRange DEF Start, StartAt, IInv, TypeOK
<1>2. Window' /\ BelievedSpeedIsReal'
  BY DEF Start, StartAt, Window, WindowFollowsDemand, FailureDropsWindow,
         NeverBelowDemand, BelievedSpeedIsReal, Running
<1> QED
  BY <1>1, <1>2 DEF IInv

(* So do a stop, another process's write and a stutter.                    *)
LEMMA OtherStepsKeep == IInv /\ (Stop \/ OtherProcess \/ UNCHANGED vars) => IInv'
<1> USE DEF IInv, TypeOK, Window, WindowFollowsDemand, FailureDropsWindow,
            NeverBelowDemand, BelievedSpeedIsReal, Running, curves, control, history
<1>1. IInv /\ Stop => IInv'
  BY DEF Stop
<1>2. IInv /\ OtherProcess => IInv'
  BY DEF OtherProcess, Percent
<1>3. IInv /\ UNCHANGED vars => IInv'
  BY DEF vars
<1> QED
  BY <1>1, <1>2, <1>3

(* The inductive invariant holds in every reachable state of the fan       *)
(* loop.                                                                   *)
THEOREM Invariance == Spec => []IInv
<1>1. IInv /\ [Next]_vars => IInv'
  BY PollKeeps, CpuCurveChangedKeeps, HddCurveChangedKeeps, TickKeeps, StartKeeps,
     OtherStepsKeep DEF Next
<1> QED
  BY InitEstablishes, <1>1, PTL DEF Spec

(* Every variable of the fan loop has its type, for all intervals, curves  *)
(* and readings.                                                           *)
THEOREM TypeCorrect == Spec => []TypeOK
<1>1. IInv => TypeOK
  BY DEF IInv
<1> QED
  BY <1>1, Invariance, PTL

(* The hysteresis window neither restarts nor outlives the demand it waits *)
(* for, whatever curve edits, failed readings and failed writes fall into  *)
(* it: for every interval, curve and reading, not just those of the run.   *)
THEOREM WindowAlwaysFollows == Spec => []WindowFollowsDemand
<1>1. IInv => WindowFollowsDemand
  BY DEF IInv, Window
<1> QED
  BY <1>1, Invariance, PTL

(* An increase is never delayed: but for a failed write the fan is         *)
(* believed at least as fast as tick_with_floor was last asked for.        *)
THEOREM IncreasesAtOnce == Spec => []NeverBelowDemand
<1>1. IInv => NeverBelowDemand
  BY DEF IInv, Window
<1> QED
  BY <1>1, Invariance, PTL

(* What the controller believes is in the MCU's register, unless a write   *)
(* failed or another process wrote.                                        *)
THEOREM BeliefIsReal == Spec => []BelievedSpeedIsReal
<1>1. IInv => BelievedSpeedIsReal
  BY DEF IInv
<1> QED
  BY <1>1, Invariance, PTL

-----------------------------------------------------------------------------
(* A drop of the speed comes out of a full window for just that speed. *)
Drop == Running /\ Running' /\ current_speed' < current_speed
Earned == /\ demanded >= DECREASE_HYSTERESIS
          /\ demand = current_speed'
          /\ demand' = current_speed'

(* A step that lowers the speed acts on a demand that has lasted the       *)
(* window.                                                                 *)
LEMMA DropIsEarned ==
  ASSUME IInv, Running, NEW cpu \in CpuCurves, NEW floor_pct \in Percent,
         TickWithFloor(cpu, floor_pct), current_speed' < current_speed
  PROVE  Earned
<1> USE DEF Percent
<1>1. current_speed \in Int
  BY DEF IInv, TypeOK
<1>2. PICK t \in CpuTemps : /\ demand' = Asked(cpu, t, floor_pct)
                            /\ Apply(target_speed(cpu, t, floor_pct))
  BY <1>1 DEF TickWithFloor, control
<1> DEFINE target == target_speed(cpu, t, floor_pct)
<1>3. target \in Int /\ demand' = target
  BY <1>2, TargetIsAsked
<1> HIDE DEF target
<1>4. Apply(target)
  BY <1>2 DEF target
<1>5. current_speed' = new_speed(target)
  BY <1>1, <1>4 DEF Apply, WriteDuty
<1>6. target < current_speed /\ Sustained(target)
  BY <1>1, <1>3, <1>5 DEF new_speed
<1>7. /\ pending_decrease # NoPending
      /\ pending_decrease.target = target
      /\ pending_decrease.age >= DECREASE_HYSTERESIS
  BY <1>6 DEF Sustained, Waiting
<1>8. demand = target /\ demanded >= DECREASE_HYSTERESIS
  BY <1>7 DEF IInv, Window, WindowFollowsDemand
<1> QED
  BY <1>3, <1>5, <1>6, <1>8 DEF Earned, new_speed

(* No decrease is early: when tick_with_floor lowers the fan, the          *)
(* readings have asked for exactly that for a full window.                 *)
THEOREM DecreaseIsEarned == Spec => NoEarlyDecrease
<1>1. IInv /\ [Next]_vars => [Drop => Earned]_vars
  <2> SUFFICES ASSUME IInv, Next, Drop PROVE Earned
    OBVIOUS
  <2>1. CASE Poll
    <3>1. hdd_floor(hdd_curve, last_disk_temp_c') \in Percent /\ cpu_curve \in CpuCurves
      BY <2>1, FloorIsPercent DEF Poll, IInv, TypeOK
    <3> QED
      BY <2>1, <3>1, DropIsEarned DEF Poll, Drop
  <2>2. ASSUME NEW curve \in CpuCurves, CpuCurveChanged(curve) PROVE Earned
    <3>1. hdd_floor(hdd_curve, last_disk_temp_c) \in Percent
      BY FloorIsPercent DEF IInv, TypeOK
    <3> QED
      BY <2>2, <3>1, DropIsEarned DEF CpuCurveChanged, Drop
  <2>3. ASSUME NEW curve \in HddCurves, HddCurveChanged(curve) PROVE Earned
    <3>1. hdd_floor(curve, last_disk_temp_c) \in Percent /\ cpu_curve \in CpuCurves
      BY FloorIsPercent DEF IInv, TypeOK
    <3> QED
      BY <2>3, <3>1, DropIsEarned DEF HddCurveChanged, Drop
  <2>4. ~(Tick \/ Start \/ Stop \/ OtherProcess)
    BY DEF Drop, Tick, Start, StartAt, Stop, OtherProcess, Running, control, IInv,
           TypeOK, Percent
  <2> QED
    BY <2>1, <2>2, <2>3, <2>4 DEF Next
<1>2. IInv /\ [Drop => Earned]_vars => [Running /\ Running' /\ current_speed' < current_speed =>
          demanded >= DECREASE_HYSTERESIS /\ demand = current_speed'
            /\ demand' = current_speed']_vars
  BY DEF Drop, Earned
<1> QED
  BY <1>1, <1>2, Invariance, PTL DEF Spec, NoEarlyDecrease
=============================================================================
