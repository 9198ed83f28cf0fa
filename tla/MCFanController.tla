-------------------------- MODULE MCFanController --------------------------
(* FanController with 15-second units: two units between polls, two of      *)
(* hysteresis, a poll served at most one unit late; curves with two lower   *)
(* steps, so that a decrease can change its mind.                           *)
EXTENDS FanController

MCCpuCurves ==
  { << [temp_c |-> 65, speed_pct |-> 100], [temp_c |-> 55, speed_pct |-> 30] >>,
    << [temp_c |-> 60, speed_pct |-> 55] >> }

MCHddCurves ==
  { << [temp_c |-> 50, speed_pct |-> 55] >>,
    << [temp_c |-> 40, speed_pct |-> 30] >> }

MCCpuTemps  == {50, 55, 75}
MCDiskTemps == {30, 50}
=============================================================================
