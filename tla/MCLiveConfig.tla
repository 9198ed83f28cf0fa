---------------------------- MODULE MCLiveConfig ----------------------------
(* LiveConfig with two or three PUTs in flight and as many commits as it   *)
(* takes for one to overtake another, be overtaken, and be repaired.       *)
EXTENDS LiveConfig
=============================================================================
