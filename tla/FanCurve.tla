------------------------------ MODULE FanCurve ------------------------------
(***************************************************************************)
(* The pure fan-curve algebra of src/config/mod.rs: a curve is a sequence  *)
(* of breakpoints [temp_c, speed_pct] kept in descending order of          *)
(* temperature; the first breakpoint at or below the reading decides.      *)
(* Readings are whole degrees: breakpoints are, so a fractional reading    *)
(* and its floor meet the same breakpoints.                                *)
(***************************************************************************)
EXTENDS Integers, Sequences, FiniteSets

Percent == 0..100
Point   == [temp_c : Int, speed_pct : Percent]
Curve   == Seq(Point)

SAFETY_CEILING_C == 75
MIN_SAFE_PCT     == 25

default_curve ==
  << [temp_c |-> 65, speed_pct |-> 100],
     [temp_c |-> 60, speed_pct |-> 55],
     [temp_c |-> 55, speed_pct |-> 30] >>

default_hdd_curve ==
  << [temp_c |-> 55, speed_pct |-> 100],
     [temp_c |-> 50, speed_pct |-> 55],
     [temp_c |-> 40, speed_pct |-> 30] >>

(* The breakpoints a reading meets, and the one among them listed first. *)
Met(curve, t)      == { i \in 1..Len(curve) : t >= curve[i].temp_c }
FirstMet(curve, t) == CHOOSE i \in Met(curve, t) : \A j \in Met(curve, t) : i <= j

speed_for(curve, t) ==
  IF Met(curve, t) = {} THEN 0 ELSE curve[FirstMet(curve, t)].speed_pct

Checkpoints(curve) ==
  { curve[i].temp_c : i \in { k \in 1..Len(curve) : curve[k].temp_c >= SAFETY_CEILING_C } }
    \cup { SAFETY_CEILING_C }

violates_safety_floor(curve) ==
  \E t \in Checkpoints(curve) : speed_for(curve, t) < MIN_SAFE_PCT

Descending(curve) ==
  \A i, j \in 1..Len(curve) : i < j => curve[i].temp_c >= curve[j].temp_c

(* Stable sort, highest temperature first: the point that ends up at place *)
(* k is the one that exactly k-1 points precede.                           *)
Precedes(points, j, i) ==
  \/ points[j].temp_c > points[i].temp_c
  \/ points[j].temp_c = points[i].temp_c /\ j < i

SortDescending(points) ==
  [ k \in 1..Len(points) |->
      points[CHOOSE i \in 1..Len(points) :
               Cardinality({ j \in 1..Len(points) : Precedes(points, j, i) }) = k - 1] ]

Capped(points) ==
  [ k \in 1..Len(points) |->
      [points[k] EXCEPT !.speed_pct = IF @ > 100 THEN 100 ELSE @] ]
=============================================================================
