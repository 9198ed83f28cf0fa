---------------------------- MODULE MCCurveStore ----------------------------
(* CurveStore over point lists of length 0 to 2: temperatures below, at and *)
(* above the ceiling, speeds below, at and above the floor and above 100,   *)
(* and two points of one temperature; two PUTs in flight.                   *)
EXTENDS CurveStore, TLC

Symmetry == Permutations(Handlers)

Breakpoint(t, s) == [temp_c |-> t, speed_pct |-> s]
MCPoints ==
  { Breakpoint(60, 120), Breakpoint(75, 0), Breakpoint(75, 25), Breakpoint(80, 30) }

MCSubmissions ==
  { << >> } \cup { <<p>> : p \in MCPoints } \cup { <<p, q>> : p, q \in MCPoints }

MCFiles ==
  { << >>, <<[temp_c |-> 60, speed_pct |-> 120]>>,
    <<[temp_c |-> 60, speed_pct |-> 25], [temp_c |-> 80, speed_pct |-> 0]>>,
    <<[temp_c |-> 60, speed_pct |-> 120], BadLine>> }
=============================================================================
