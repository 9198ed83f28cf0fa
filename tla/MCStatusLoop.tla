---------------------------- MODULE MCStatusLoop ----------------------------
(* StatusLoop: the panel has a clock and a static screen, pulses of each   *)
(* length, and a configuration that is used and sleeps after two seconds,  *)
(* one without screens, one that is off.  The processor and one disk may   *)
(* be critical, and there are two URLs to change between.                  *)
EXTENDS StatusLoop

MCScreen == {"clock", "ip"}
MCWidth  == {10, 45, 65}

Conf(duration, saver, list, on) ==
  [switch_duration |-> duration, screensaver |-> saver, screenlist |-> list, enabled |-> on]
MCConfig ==
  { Conf(0, 2, <<"ip", "fan", "clock">>, TRUE), Conf(1, 1, <<"fan">>, TRUE), Conf(1, 0, <<"ip">>, FALSE) }
=============================================================================
