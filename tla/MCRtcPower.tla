----------------------------- MODULE MCRtcPower -----------------------------
(* RtcPower on weeks of two days of two hours of two minutes: wakes and     *)
(* sleeps every day and on one day, several a week, at the week's ends, on  *)
(* neighbouring minutes, one without wakes, and a disabled schedule.        *)
EXTENDS RtcPower

Wake(days, h, m)  == [kind |-> "Wake", days |-> days, hour |-> h, minute |-> m]
Sleep(days, h, m) == [kind |-> "Sleep", days |-> days, hour |-> h, minute |-> m]

MCSchedules ==
  { [enabled |-> TRUE, entries |-> { Wake({0, 1}, 0, 1), Sleep({0, 1}, 1, 0) }],
    [enabled |-> TRUE, entries |-> { Wake({1}, 0, 0), Wake({0}, 1, 0), Sleep({0, 1}, 1, 1) }],
    [enabled |-> TRUE, entries |-> { Sleep({0}, 0, 1) }],
    [enabled |-> FALSE, entries |-> { Wake({0, 1}, 0, 1) }] }
=============================================================================
