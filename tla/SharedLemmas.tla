---------------------------- MODULE SharedLemmas ----------------------------
(***************************************************************************)
(* The lemmas several proof modules rest on: the least-number principle    *)
(* and what follows from it (induction over a set of numbers, the function *)
(* a loop over the entries of a list defines), the stable sort of a point  *)
(* list, and what the validation of a fan curve buys for every curve and   *)
(* every temperature.                                                      *)
(***************************************************************************)
EXTENDS FanCurve, FiniteSetTheorems, WellFoundedInduction, TLAPS


(* A set of natural numbers that is not empty has a least element.  It is   *)
(* the well-foundedness of < on the naturals, with the relation as a set.   *)
LEMMA LeastElement ==
  ASSUME NEW S \in SUBSET Nat, S # {}
  PROVE  \E n \in S : \A m \in S : n <= m
<1> DEFINE less == { pair \in Nat \X Nat : pair[1] < pair[2] }
<1>1. IsWellFoundedOn(less, Nat)
  BY NatLessThanWellFounded, Zenon DEF OpToRel
<1>2. \A m, n \in Nat : m < n => <<m, n>> \in less
  OBVIOUS
<1> HIDE DEF less
<1>3. PICK n \in S : \A m \in S : <<m, n>> \notin less
  BY <1>1, WFMin
<1>4. \A m \in S : ~(m < n)
  BY <1>2, <1>3
<1> QED
  BY <1>4
(* A set that holds 0, and with a number its successor, holds them all.     *)
LEMMA SetInduction ==
  ASSUME NEW S, 0 \in S, \A n \in Nat : n \in S => n + 1 \in S
  PROVE  Nat \subseteq S
<1> SUFFICES ASSUME Nat \ S # {} PROVE FALSE
  OBVIOUS
<1>1. PICK n \in Nat \ S : \A m \in Nat \ S : n <= m
  BY LeastElement
<1>2. n # 0 /\ n - 1 \in Nat
  BY <1>1
<1>3. n - 1 \in S
  BY <1>1, <1>2
<1>4. (n - 1) + 1 \in S
  BY <1>2, <1>3
<1> QED
  BY <1>1, <1>4

(* A loop over the n entries of a list: started at c and passing what it    *)
(* has gathered through the step of each entry in turn, it defines one      *)
(* function from the number of entries read to what has been gathered.      *)
Recursions(n, S, c, F) ==
  { f \in [0..n -> S] : \A k \in 0..n : f[k] = IF k = 0 THEN c ELSE F[k][f[k - 1]] }

LEMMA RecursionDefines ==
  ASSUME NEW n \in Nat, NEW S, NEW c \in S, NEW F \in [1..n -> [S -> S]]
  PROVE  Recursions(n, S, c, F) # {}
<1> DEFINE Upto(m, f) == f[0] = c /\ \A i \in 1..m : f[i] = F[i][f[i - 1]]
           Good == { m \in Nat : m <= n => \E f \in [0..m -> S] : Upto(m, f) }
<1>1. 0 \in Good
  <2>1. [i \in 0..0 |-> c] \in [0..0 -> S] /\ Upto(0, [i \in 0..0 |-> c])
    OBVIOUS
  <2> QED
    BY <2>1
<1>2. ASSUME NEW m \in Nat, m \in Good PROVE m + 1 \in Good
  <2> SUFFICES ASSUME m + 1 <= n PROVE \E f \in [0..(m + 1) -> S] : Upto(m + 1, f)
    OBVIOUS
  <2>1. PICK f \in [0..m -> S] : Upto(m, f)
    BY <1>2
  <2> DEFINE g == [i \in 0..(m + 1) |-> IF i <= m THEN f[i] ELSE F[i][f[m]]]
  <2>2. f[m] \in S /\ F[m + 1] \in [S -> S]
    BY <2>1
  <2>3. F[m + 1][f[m]] \in S
    BY <2>2
  <2>4. g \in [0..(m + 1) -> S]
    <3> SUFFICES ASSUME NEW i \in 0..(m + 1)
                 PROVE  (IF i <= m THEN f[i] ELSE F[i][f[m]]) \in S
      OBVIOUS
    <3> QED
      BY <2>1, <2>3
  <2>5. g[0] = c
    BY <2>1
  <2>6. ASSUME NEW i \in 1..(m + 1) PROVE g[i] = F[i][g[i - 1]]
    <3>1. CASE i <= m
      BY <2>1, <3>1
    <3>2. CASE i = m + 1
      BY <3>2
    <3> QED
      BY <3>1, <3>2
  <2> HIDE DEF g
  <2> QED
    BY <2>4, <2>5, <2>6
<1>3. n \in Good
  <2> HIDE DEF Good
  <2> QED
    BY <1>1, <1>2, SetInduction
<1>4. PICK f \in [0..n -> S] : Upto(n, f)
  BY <1>3
<1>5. ASSUME NEW k \in 0..n PROVE f[k] = IF k = 0 THEN c ELSE F[k][f[k - 1]]
  <2>1. k = 0 \/ k \in 1..n
    OBVIOUS
  <2> QED
    BY <1>4, <2>1
<1> QED
  BY <1>5 DEF Recursions

(* What the step of every entry keeps holds all along.                      *)
LEMMA LoopKeeps ==
  ASSUME NEW n \in Nat, NEW S, NEW f, f[0] \in S, \A k \in 1..n : f[k - 1] \in S => f[k] \in S
  PROVE  \A k \in 0..n : f[k] \in S
<1> DEFINE Kept == { k \in Nat : k <= n => f[k] \in S }
<1>1. 0 \in Kept
  OBVIOUS
<1>2. ASSUME NEW k \in Nat, k \in Kept PROVE k + 1 \in Kept
  <2> SUFFICES ASSUME k + 1 <= n PROVE f[k + 1] \in S
    OBVIOUS
  <2>1. k + 1 \in 1..n /\ (k + 1) - 1 = k /\ f[k] \in S
    BY <1>2
  <2> QED
    BY <2>1
<1> HIDE DEF Kept
<1>3. Nat \subseteq Kept
  BY <1>1, <1>2, SetInduction
<1> QED
  BY <1>3 DEF Kept

-----------------------------------------------------------------------------

(* The breakpoints of a curve are breakpoints. *)
LEMMA BreakpointIsPoint ==
  ASSUME NEW curve \in Curve, NEW i \in 1..Len(curve)
  PROVE  curve[i].temp_c \in Int /\ curve[i].speed_pct \in Percent
<1>1. curve[i] \in Point
  BY DEF Curve
<1> QED
  BY <1>1 DEF Point

(* FirstMet is well defined: where some breakpoint is met, it is the one   *)
(* listed first.                                                           *)
LEMMA FirstMetIsFirst ==
  ASSUME NEW curve \in Curve, NEW t \in Int, Met(curve, t) # {}
  PROVE  /\ FirstMet(curve, t) \in Met(curve, t)
         /\ \A j \in Met(curve, t) : FirstMet(curve, t) <= j
<1>1. Met(curve, t) \in SUBSET Nat
  BY DEF Met, Curve
<1>2. \E i \in Met(curve, t) : \A j \in Met(curve, t) : i <= j
  BY <1>1, LeastElement
<1> QED
  BY <1>2 DEF FirstMet

(* A curve answers with a percentage at every temperature. *)
LEMMA SpeedIsPercent ==
  ASSUME NEW curve \in Curve, NEW t \in Int
  PROVE  speed_for(curve, t) \in Percent
<1>1. CASE Met(curve, t) = {}
  BY <1>1 DEF speed_for, Percent
<1>2. CASE Met(curve, t) # {}
  <2>1. FirstMet(curve, t) \in 1..Len(curve)
    BY <1>2, FirstMetIsFirst DEF Met
  <2> QED
    BY <1>2, <2>1, BreakpointIsPoint DEF speed_for
<1> QED
  BY <1>1, <1>2

(* The breakpoint that decides at t decides at every lower temperature     *)
(* that still meets it.                                                    *)
LEMMA SameBreakpointBelow ==
  ASSUME NEW curve \in Curve, NEW t \in Int, NEW s \in Int, s <= t,
         Met(curve, t) # {}, FirstMet(curve, t) \in Met(curve, s)
  PROVE  speed_for(curve, s) = speed_for(curve, t)
<1> DEFINE i == FirstMet(curve, t)
<1>1. Met(curve, s) \subseteq Met(curve, t)
  <2> SUFFICES ASSUME NEW k \in 1..Len(curve), s >= curve[k].temp_c
               PROVE  t >= curve[k].temp_c
    BY DEF Met
  <2>1. curve[k].temp_c \in Int
    BY BreakpointIsPoint
  <2> QED
    BY <2>1
<1>2. \A j \in Met(curve, s) : i <= j
  BY <1>1, FirstMetIsFirst
<1>3. /\ FirstMet(curve, s) \in Met(curve, s)
      /\ FirstMet(curve, s) <= i
  BY FirstMetIsFirst
<1>4. FirstMet(curve, s) = i
  <2>1. i \in Int /\ FirstMet(curve, s) \in Int
    BY <1>3 DEF Met
  <2> QED
    BY <1>2, <1>3, <2>1
<1> QED
  BY <1>4 DEF speed_for

(* FanCurve::violates_safety_floor samples the ceiling and the breakpoints *)
(* above it, and its comment argues that this covers everything hotter.    *)
(* It does, for every curve, in whatever order its points are: one that    *)
(* passes gives at least 25% at every temperature from 75 degrees up.      *)
THEOREM SafetyFloorCoversAll ==
  ASSUME NEW curve \in Curve, ~violates_safety_floor(curve),
         NEW t \in Int, t >= SAFETY_CEILING_C
  PROVE  speed_for(curve, t) >= MIN_SAFE_PCT
<1> DEFINE i == FirstMet(curve, t)
<1>1. \A c \in Checkpoints(curve) :
        c \in Int => speed_for(curve, c) \in Int /\ speed_for(curve, c) >= MIN_SAFE_PCT
  BY SpeedIsPercent DEF violates_safety_floor, MIN_SAFE_PCT, Percent
<1>2. SAFETY_CEILING_C \in Checkpoints(curve) /\ SAFETY_CEILING_C \in Int
  BY DEF Checkpoints, SAFETY_CEILING_C
<1>3. PICK k \in Met(curve, SAFETY_CEILING_C) : TRUE
  BY <1>1, <1>2 DEF speed_for, MIN_SAFE_PCT
<1>4. k \in 1..Len(curve) /\ curve[k].temp_c \in Int /\ SAFETY_CEILING_C >= curve[k].temp_c
  BY BreakpointIsPoint DEF Met
<1>5. k \in Met(curve, t)
  BY <1>2, <1>4 DEF Met
<1>6. i \in 1..Len(curve) /\ t >= curve[i].temp_c
  BY <1>5, FirstMetIsFirst DEF Met
<1>7. curve[i].temp_c \in Int
  BY <1>6, BreakpointIsPoint
<1>8. CASE curve[i].temp_c >= SAFETY_CEILING_C
  <2>1. curve[i].temp_c \in Checkpoints(curve)
    BY <1>6, <1>8 DEF Checkpoints
  <2>2. i \in Met(curve, curve[i].temp_c)
    BY <1>6, <1>7 DEF Met
  <2>3. speed_for(curve, curve[i].temp_c) = speed_for(curve, t)
    BY <1>5, <1>6, <1>7, <2>2, SameBreakpointBelow
  <2> QED
    BY <1>1, <1>7, <2>1, <2>3
<1>9. CASE ~(curve[i].temp_c >= SAFETY_CEILING_C)
  <2>1. i \in Met(curve, SAFETY_CEILING_C)
    BY <1>2, <1>6, <1>7, <1>9 DEF Met
  <2>2. speed_for(curve, SAFETY_CEILING_C) = speed_for(curve, t)
    BY <1>2, <1>5, <2>1, SameBreakpointBelow
  <2> QED
    BY <1>1, <1>2, <2>2
<1> QED
  BY <1>8, <1>9
=============================================================================
