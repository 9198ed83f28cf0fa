------------------------- MODULE CurveStore_proofs -------------------------
(***************************************************************************)
(* What may be stored and run as a fan curve, for any point lists a client *)
(* may PUT and any legacy files: the stable sort puts every list in order  *)
(* and leaves an ordered one alone, so that what PUT validates is what the *)
(* daemon runs and what a restart loads.                                   *)
(***************************************************************************)
EXTENDS CurveStore, SharedLemmas

(* The point lists the lemmas on sorting are about. *)
LEMMA Temperatures ==
  ASSUME NEW points \in Seq(RawPoint)
  PROVE  \A i \in 1..Len(points) : points[i] \in RawPoint /\ points[i].temp_c \in Int
<1> SUFFICES ASSUME NEW i \in 1..Len(points)
             PROVE  points[i] \in RawPoint /\ points[i].temp_c \in Int
  OBVIOUS
<1>1. points[i] \in RawPoint
  OBVIOUS
<1> QED
  BY <1>1 DEF RawPoint

(* The number of points that precede each of a list is a different one.     *)
Ahead(points, i) == { j \in 1..Len(points) : Precedes(points, j, i) }

(* Fewer points precede one than there are points. *)
LEMMA AheadIsFinite ==
  ASSUME NEW points \in Seq(RawPoint), NEW i \in 1..Len(points)
  PROVE  /\ IsFiniteSet(Ahead(points, i))
         /\ Cardinality(Ahead(points, i)) \in 0..(Len(points) - 1)
<1>1. Len(points) \in Nat /\ 1 <= Len(points)
  OBVIOUS
<1>2. IsFiniteSet(1..Len(points)) /\ Cardinality(1..Len(points)) = Len(points)
  BY <1>1, FS_Interval
<1>3. Ahead(points, i) \in SUBSET (1..Len(points)) /\ i \notin Ahead(points, i)
  BY Temperatures DEF Ahead, Precedes
<1>4. Ahead(points, i) # 1..Len(points)
  BY <1>3
<1>5. /\ IsFiniteSet(Ahead(points, i))
      /\ Cardinality(Ahead(points, i)) <= Len(points)
      /\ Cardinality(Ahead(points, i)) # Len(points)
  BY <1>2, <1>3, <1>4, FS_Subset
<1>6. Cardinality(Ahead(points, i)) \in Nat
  BY <1>5, FS_CardinalityType
<1> QED
  BY <1>1, <1>5, <1>6

(* Fewer precede the one that precedes another. *)
LEMMA FewerAhead ==
  ASSUME NEW points \in Seq(RawPoint), NEW i \in 1..Len(points), NEW j \in 1..Len(points),
         Precedes(points, j, i)
  PROVE  Cardinality(Ahead(points, j)) < Cardinality(Ahead(points, i))
<1>1. \A k \in 1..Len(points) : points[k].temp_c \in Int
  BY Temperatures
<1>2. Ahead(points, j) \in SUBSET Ahead(points, i)
  BY <1>1 DEF Ahead, Precedes
<1>3. j \in Ahead(points, i) /\ j \notin Ahead(points, j)
  BY <1>1 DEF Ahead, Precedes
<1>4. Ahead(points, j) # Ahead(points, i)
  BY <1>3
<1>5. IsFiniteSet(Ahead(points, i)) /\ Cardinality(Ahead(points, i)) \in Int
      /\ Cardinality(Ahead(points, j)) \in Int
  BY AheadIsFinite
<1> QED
  BY <1>2, <1>4, <1>5, FS_Subset

(* Of two points one precedes the other, equal temperatures included. *)
LEMMA EitherPrecedes ==
  ASSUME NEW points \in Seq(RawPoint), NEW i \in 1..Len(points), NEW j \in 1..Len(points),
         i # j
  PROVE  Precedes(points, i, j) \/ Precedes(points, j, i)
BY Temperatures DEF Precedes

(* Every place of the sorted list is taken by one point of the unsorted one. *)
Place(points, k) == CHOOSE i \in 1..Len(points) : Cardinality(Ahead(points, i)) = k - 1

(* So the choice in SortDescending always has a point to choose. *)
LEMMA PlaceIsTaken ==
  ASSUME NEW points \in Seq(RawPoint), NEW k \in 1..Len(points)
  PROVE  /\ Place(points, k) \in 1..Len(points)
         /\ Cardinality(Ahead(points, Place(points, k))) = k - 1
<1> DEFINE n == Len(points)
           rank == [i \in 1..n |-> Cardinality(Ahead(points, i))]
<1>1. n \in Nat /\ 1 <= n
  OBVIOUS
<1>2. rank \in [1..n -> 0..(n - 1)]
  BY AheadIsFinite
<1>3. ASSUME NEW i \in 1..n, NEW j \in 1..n, rank[i] = rank[j] PROVE i = j
  <2> SUFFICES ASSUME i # j PROVE FALSE
    OBVIOUS
  <2>1. rank[i] \in Int /\ rank[j] \in Int
    BY <1>2
  <2>2. rank[i] < rank[j] \/ rank[j] < rank[i]
    BY EitherPrecedes, FewerAhead
  <2> QED
    BY <1>3, <2>1, <2>2
<1>4. IsInjective(rank)
  BY <1>2, <1>3 DEF IsInjective
<1>5. /\ IsFiniteSet(1..n) /\ Cardinality(1..n) = n
      /\ IsFiniteSet(0..(n - 1)) /\ Cardinality(0..(n - 1)) = n
  <2>1. 1 \in Int /\ 0 \in Int /\ n \in Int /\ n - 1 \in Int
    BY <1>1
  <2>2. Cardinality(1..n) = IF 1 > n THEN 0 ELSE n - 1 + 1
    BY <2>1, FS_Interval
  <2>3. Cardinality(0..(n - 1)) = IF 0 > n - 1 THEN 0 ELSE (n - 1) - 0 + 1
    BY <2>1, FS_Interval
  <2>4. IsFiniteSet(1..n) /\ IsFiniteSet(0..(n - 1))
    BY <2>1, FS_Interval
  <2> QED
    BY <1>1, <2>2, <2>3, <2>4
<1>6. rank \in Surjection(1..n, 0..(n - 1))
  <2>1. rank \in Injection(1..n, 0..(n - 1))
    BY <1>2, <1>4 DEF Injection
  <2> HIDE DEF rank
  <2> QED
    BY <1>5, <2>1, FS_Injection
<1>7. \E i \in 1..n : Cardinality(Ahead(points, i)) = k - 1
  <2>1. k - 1 \in 0..(n - 1)
    OBVIOUS
  <2>2. \E i \in 1..n : rank[i] = k - 1
    BY <1>6, <2>1 DEF Surjection
  <2> QED
    BY <2>2
<1> QED
  BY <1>7 DEF Place

(* What SortDescending puts at a place, in these terms. *)
LEMMA SortTakesPlaces ==
  ASSUME NEW points \in Seq(RawPoint)
  PROVE  SortDescending(points) = [k \in 1..Len(points) |-> points[Place(points, k)]]
BY DEF SortDescending, Place, Ahead

(* Sorting a point list keeps its points and their number and puts them in  *)
(* descending order of temperature.                                         *)
LEMMA SortSorts ==
  ASSUME NEW points \in Seq(RawPoint)
  PROVE  /\ Len(SortDescending(points)) = Len(points)
         /\ \A k \in 1..Len(points) :
              \E i \in 1..Len(points) : SortDescending(points)[k] = points[i]
         /\ Descending(SortDescending(points))
<1> DEFINE sorted == SortDescending(points)
<1>1. sorted = [k \in 1..Len(points) |-> points[Place(points, k)]]
  BY SortTakesPlaces
<1>2. Len(sorted) = Len(points)
  BY <1>1
<1>3. \A k \in 1..Len(points) : Place(points, k) \in 1..Len(points)
  BY PlaceIsTaken
<1>4. Descending(sorted)
  <2> SUFFICES ASSUME NEW i \in 1..Len(points), NEW j \in 1..Len(points), i < j
               PROVE  sorted[i].temp_c >= sorted[j].temp_c
    BY <1>2 DEF Descending
  <2> DEFINE a == Place(points, i)
             b == Place(points, j)
  <2>1. /\ a \in 1..Len(points) /\ Cardinality(Ahead(points, a)) = i - 1
        /\ b \in 1..Len(points) /\ Cardinality(Ahead(points, b)) = j - 1
    BY PlaceIsTaken
  <2>2. ~Precedes(points, b, a)
    <3> SUFFICES ASSUME Precedes(points, b, a) PROVE FALSE
      OBVIOUS
    <3>1. j - 1 < i - 1
      BY <2>1, FewerAhead
    <3> QED
      BY <3>1
  <2>3. points[a].temp_c \in Int /\ points[b].temp_c \in Int
    BY <2>1, Temperatures
  <2>4. points[a].temp_c >= points[b].temp_c
    BY <2>2, <2>3 DEF Precedes
  <2> QED
    BY <1>1, <2>4
<1> QED
  BY <1>1, <1>2, <1>3, <1>4

(* The sort is stable: a list that is already in order is left alone.       *)
LEMMA SortKeepsSorted ==
  ASSUME NEW points \in Seq(RawPoint), Descending(points)
  PROVE  SortDescending(points) = points
<1>1. ASSUME NEW i \in 1..Len(points) PROVE Cardinality(Ahead(points, i)) = i - 1
  <2>1. \A k \in 1..Len(points) : points[k].temp_c \in Int
    BY Temperatures
  <2>2. Ahead(points, i) = 1..(i - 1)
    BY <2>1 DEF Ahead, Precedes, Descending
  <2>3. Cardinality(1..(i - 1)) = i - 1
    BY FS_Interval
  <2> QED
    BY <2>2, <2>3
<1>2. ASSUME NEW k \in 1..Len(points) PROVE Place(points, k) = k
  <2>1. /\ Place(points, k) \in 1..Len(points)
        /\ Cardinality(Ahead(points, Place(points, k))) = k - 1
    BY PlaceIsTaken
  <2>2. Place(points, k) - 1 = k - 1
    BY <1>1, <2>1
  <2> QED
    BY <2>1, <2>2
<1>3. points = [k \in 1..Len(points) |-> points[k]]
  OBVIOUS
<1> QED
  BY <1>2, <1>3, SortTakesPlaces

(* A curve is a point list, so what is said of lists holds of curves.       *)
LEMMA CurvesAreLists ==
  Curve \subseteq Seq(RawPoint)
<1>1. Point \subseteq RawPoint
  BY DEF Point, Percent, RawPoint
<1> QED
  BY <1>1 DEF Curve

(* A sorted curve is a curve. *)
LEMMA SortedCurveIsCurve ==
  ASSUME NEW curve \in Curve
  PROVE  SortDescending(curve) \in Curve
<1>1. curve \in Seq(RawPoint)
  BY CurvesAreLists
<1>2. SortDescending(curve) = [k \in 1..Len(curve) |-> curve[Place(curve, k)]]
  BY <1>1, SortTakesPlaces
<1>3. \A k \in 1..Len(curve) : curve[Place(curve, k)] \in Point
  BY <1>1, PlaceIsTaken DEF Curve
<1>4. Len(curve) \in Nat
  BY <1>1
<1>5. [k \in 1..Len(curve) |-> curve[Place(curve, k)]] \in Seq(Point)
  BY <1>3, <1>4
<1> QED
  BY <1>2, <1>5 DEF Curve

(* Capping the speeds of a point list makes it a curve. *)
LEMMA CappedIsCurve ==
  ASSUME NEW points \in Seq(RawPoint)
  PROVE  Capped(points) \in Curve /\ Len(Capped(points)) = Len(points)
<1>1. ASSUME NEW k \in 1..Len(points)
      PROVE  [points[k] EXCEPT !.speed_pct = IF @ > 100 THEN 100 ELSE @] \in Point
  <2> DEFINE pct == IF points[k].speed_pct > 100 THEN 100 ELSE points[k].speed_pct
  <2>1. points[k] \in RawPoint
    BY Temperatures
  <2>2. points[k].speed_pct \in Nat
    BY <2>1 DEF RawPoint
  <2>3. pct \in Percent
    <3>1. \A n \in Nat : (IF n > 100 THEN 100 ELSE n) \in Percent
      BY DEF Percent
    <3> QED
      BY <2>2, <3>1
  <2> HIDE DEF pct
  <2>4. [points[k] EXCEPT !.speed_pct = pct] \in Point
    BY <2>1, <2>3 DEF RawPoint, Point
  <2> QED
    BY <2>4 DEF pct
<1>2. Len(points) \in Nat
  OBVIOUS
<1> QED
  BY <1>1, <1>2 DEF Capped, Curve

(* What put_curve is about to store is a curve, in order, and not empty. *)
LEMMA PutIsCurve ==
  ASSUME NEW points \in Seq(RawPoint)
  PROVE  /\ put_points(points) \in Curve
         /\ Descending(put_points(points))
         /\ points # << >> => put_points(points) # << >>
<1>1. Capped(points) \in Curve /\ Len(Capped(points)) = Len(points)
  BY CappedIsCurve
<1>2. Capped(points) \in Seq(RawPoint)
  BY <1>1, CurvesAreLists
<1>3. /\ put_points(points) \in Curve
      /\ Descending(put_points(points))
      /\ Len(put_points(points)) = Len(points)
  BY <1>1, <1>2, SortedCurveIsCurve, SortSorts DEF put_points
<1>4. points # << >> => Len(points) # 0
  OBVIOUS
<1>5. Len(<< >>) = 0
  OBVIOUS
<1> QED
  BY <1>3, <1>4, <1>5

-----------------------------------------------------------------------------
(* No reading from the ceiling up gets less than the floor. *)
SafeEverywhere(curve) ==
  \A t \in Int : t >= SAFETY_CEILING_C => speed_for(curve, t) >= MIN_SAFE_PCT

(* What an accepted list of rows is: none at all, or one that has been      *)
(* sorted and has passed the check in that order.                           *)
Accepted(curve) ==
  \/ curve = << >>
  \/ Descending(curve) /\ ~violates_safety_floor(curve)

(* What a PUT stores and sends: a list that is not empty, sorted and checked. *)
Good(curve) ==
  curve \in Curve /\ curve # << >> /\ Descending(curve) /\ ~violates_safety_floor(curve)

(* The inductive invariant.  What travels and what a PUT stored is good;    *)
(* rows that are still to be sent travel with the PUT that stored them, and *)
(* rows that are not, and that nothing made the daemon miss, are what it    *)
(* runs with; and an import past its check means that no PUT has been       *)
(* stored since, unless that PUT is the one that raced it.                  *)
Carried ==
  /\ \A h \in Handlers : sending[h] # Idle => Good(sending[h])
  /\ Coming => sending[origin] = rows

Followed == ~Coming /\ ~missed => live = load

RowsAccepted ==
  /\ origin # "import" => Accepted(rows)
  /\ origin \in Handlers => Good(rows)
  /\ ~imported => live = default \/ Good(live)

ImportWaits == origin \in Handlers /\ ~raced => importing = Idle

IInv == TypeOK /\ Carried /\ Followed /\ RowsAccepted /\ ImportWaits

(* The built-in curves are in range. *)
LEMMA DefaultIsCurve ==
  default \in Curve
<1>1. default_curve \in Curve /\ default_hdd_curve \in Curve
  BY DEF default_curve, default_hdd_curve, Curve, Point, Percent
<1> QED
  BY <1>1 DEF default

(* load returns a curve in range. *)
LEMMA LoadIsCurve ==
  ASSUME rows \in Curve
  PROVE  load \in Curve
BY DefaultIsCurve, SortedCurveIsCurve DEF load

(* load returns rows that were stored in order as they are. *)
LEMMA LoadOfSorted ==
  ASSUME rows \in Curve, rows # << >>, Descending(rows)
  PROVE  load = rows
BY CurvesAreLists, SortKeepsSorted DEF load

(* A legacy file that parses is a point list. *)
LEMMA ParsedFileIsCurve ==
  ASSUME NEW file \in Files, Parses(file)
  PROVE  SortDescending(Capped(file)) \in Curve
<1>1. file \in Seq(RawPoint \cup {BadLine})
  BY PointLists
<1>2. \A k \in 1..Len(file) : file[k] \in RawPoint
  BY <1>1 DEF Parses
<1>3. file \in Seq(RawPoint)
  BY <1>1, <1>2
<1> QED
  BY <1>3, CappedIsCurve, SortedCurveIsCurve

(* Rows nobody imported, loaded, are the built-in curve or a good one. *)
LEMMA LoadOfAccepted ==
  ASSUME rows \in Curve, Accepted(rows)
  PROVE  load = default \/ Good(load)
<1>1. CASE rows = << >>
  BY <1>1 DEF load
<1>2. CASE rows # << >>
  BY <1>2, LoadOfSorted DEF Accepted, Good
<1> QED
  BY <1>1, <1>2

(* The initial states satisfy the invariant. *)
LEMMA InitIInv == Init => IInv
<1> SUFFICES ASSUME Init PROVE IInv
  OBVIOUS
<1>1. << >> \in Curve
  BY DEF Curve
<1>2. TypeOK
  BY <1>1, DefaultIsCurve DEF Init, TypeOK
<1>3. live = load /\ ~Coming
  BY DEF Init, load, default, Coming
<1>4. origin \notin Handlers /\ origin # "import"
  BY HandlersAssumption DEF Init
<1> QED
  BY <1>2, <1>3, <1>4 DEF Init, IInv, Carried, Followed, RowsAccepted, ImportWaits, Accepted

(* Handlers are neither the import nor nobody. *)
LEMMA HandlersWrite ==
  ASSUME NEW h \in Handlers PROVE h # "import" /\ h # "none"
BY HandlersAssumption

(* A commit keeps the invariant: the rows travel with their PUT. *)
LEMMA PutSaveKeepsIInv ==
  ASSUME IInv, NEW h \in Handlers, NEW points \in Submissions, PutSave(h, points)
  PROVE  IInv'
<1> DEFINE curve == put_points(points)
<1>1. points \in Seq(RawPoint)
  BY PointLists
<1>2. Good(curve)
  BY <1>1, PutIsCurve DEF PutSave, Good
<1>3. curve \in Curve /\ curve # Idle
  BY <1>2, IdleAssumption DEF Good
<1>4. /\ rows' = curve /\ origin' = h /\ raced' = (importing # Idle)
      /\ sending' = [sending EXCEPT ![h] = curve]
      /\ UNCHANGED <<name, live, importing, missed, imported>>
  BY DEF PutSave, save
<1> HIDE DEF curve
<1>5. sending \in [Handlers -> Curve \cup {Idle}]
  BY DEF IInv, TypeOK
<1>6. TypeOK'
  BY <1>3, <1>4, <1>5 DEF IInv, TypeOK
<1>7. sending'[h] = curve /\ \A g \in Handlers : g # h => sending'[g] = sending[g]
  BY <1>4, <1>5
<1>8. Coming'
  BY <1>3, <1>4, <1>7 DEF Coming
<1>9. Carried' /\ Followed'
  BY <1>2, <1>4, <1>7, <1>8 DEF IInv, Carried, Followed, Good
<1>10. RowsAccepted'
  <2>1. default' = default
    BY <1>4 DEF default
  <2> QED
    BY <1>2, <1>4, <2>1 DEF IInv, RowsAccepted, Accepted, Good
<1> QED
  BY <1>4, <1>6, <1>9, <1>10 DEF IInv, ImportWaits

(* A send keeps it: the newest commit's brings the daemon to the rows, and  *)
(* an older one's does not unless the newest is still to come.              *)
LEMMA PutSendKeepsIInv ==
  ASSUME IInv, NEW h \in Handlers, PutSend(h)
  PROVE  IInv'
<1>1. /\ live' = sending[h] /\ sending' = [sending EXCEPT ![h] = Idle]
      /\ missed' = (h # origin /\ (missed \/ ~Coming)) /\ imported' = FALSE
      /\ UNCHANGED <<name, rows, importing, origin, raced>>
  BY DEF PutSend
<1>2. sending[h] # Idle /\ Good(sending[h])
  BY DEF PutSend, IInv, Carried
<1>3. sending \in [Handlers -> Curve \cup {Idle}]
  BY DEF IInv, TypeOK
<1>4. TypeOK'
  BY <1>1, <1>2, <1>3 DEF IInv, TypeOK, Good
<1>5. sending'[h] = Idle /\ \A g \in Handlers : g # h => sending'[g] = sending[g]
  BY <1>1, <1>3
<1>6. Carried'
  BY <1>1, <1>5 DEF IInv, Carried, Coming, Good
<1>7. load' = load /\ default' = default
  BY <1>1 DEF load, default
<1>8. Followed'
  <2>1. CASE h = origin
    <3>1. Coming /\ rows = sending[h]
      BY <1>2, <2>1 DEF IInv, Carried, Coming
    <3>2. rows \in Curve /\ load = rows
      BY <1>2, <3>1, LoadOfSorted DEF Good
    <3> QED
      BY <1>1, <1>7, <3>1, <3>2 DEF Followed
  <2>2. CASE h # origin
    <3>1. Coming' <=> Coming
      BY <1>1, <1>5, <2>2 DEF Coming
    <3> QED
      BY <1>1, <2>2, <3>1 DEF Followed
  <2> QED
    BY <2>1, <2>2
<1>9. RowsAccepted' /\ ImportWaits'
  BY <1>1, <1>2, <1>7 DEF IInv, RowsAccepted, ImportWaits, Accepted, Good
<1> QED
  BY <1>4, <1>6, <1>8, <1>9 DEF IInv

(* A client that hangs up on the newest commit leaves the daemon behind it. *)
LEMMA HangUpKeepsIInv ==
  ASSUME IInv, NEW h \in Handlers, HangUp(h)
  PROVE  IInv'
<1>1. /\ sending' = [sending EXCEPT ![h] = Idle] /\ missed' = (missed \/ h = origin)
      /\ UNCHANGED <<name, rows, live, importing, origin, raced, imported>>
  BY DEF HangUp
<1>2. sending \in [Handlers -> Curve \cup {Idle}] /\ missed \in BOOLEAN
  BY DEF IInv, TypeOK
<1>3. TypeOK'
  BY <1>1, <1>2 DEF IInv, TypeOK
<1>4. sending'[h] = Idle /\ \A g \in Handlers : g # h => sending'[g] = sending[g]
  BY <1>1, <1>2
<1>5. Carried'
  BY <1>1, <1>4 DEF IInv, Carried, Coming, Good
<1>6. load' = load /\ default' = default
  BY <1>1 DEF load, default
<1>7. Followed'
  <2>1. h # origin => (Coming' <=> Coming)
    BY <1>1, <1>4 DEF Coming
  <2> QED
    BY <1>1, <1>6, <2>1 DEF IInv, Followed
<1>8. RowsAccepted' /\ ImportWaits'
  BY <1>1, <1>6 DEF IInv, RowsAccepted, ImportWaits, Accepted, Good
<1> QED
  BY <1>3, <1>5, <1>7, <1>8 DEF IInv

(* What moves nothing but an import's own state keeps the rest. *)
LEMMA ImportAside ==
  ASSUME IInv, UNCHANGED <<name, rows, live, sending, origin, raced, missed, imported>>
  PROVE  /\ Carried' /\ Followed' /\ RowsAccepted'
         /\ importing' \in Curve \cup {Idle} => TypeOK'
<1>1. load' = load /\ default' = default /\ (Coming' <=> Coming)
  BY DEF load, default, Coming
<1> QED
  BY <1>1 DEF IInv, TypeOK, Carried, Followed, RowsAccepted, Accepted, Good

(* An import starts only where no rows are, which means no PUT stands yet. *)
LEMMA ImportCheckKeepsIInv ==
  ASSUME IInv, NEW file \in Files, ImportCheck(file)
  PROVE  IInv'
<1>1. importing' \in Curve
  BY ParsedFileIsCurve DEF ImportCheck, StartImport
<1>2. UNCHANGED <<name, rows, live, sending, origin, raced, missed, imported>> /\ rows = << >>
  BY DEF ImportCheck, StartImport
<1>3. origin \notin Handlers
  BY <1>2 DEF IInv, RowsAccepted, Good
<1> QED
  BY <1>1, <1>2, <1>3, ImportAside DEF IInv, ImportWaits

LEMMA ImportSaveKeepsIInv ==
  ASSUME IInv, ImportSave
  PROVE  IInv'
<1>1. /\ rows' = importing /\ importing' = Idle /\ origin' = "import" /\ missed' = TRUE
      /\ UNCHANGED <<name, live, sending, raced, imported>> /\ importing # Idle
  BY DEF ImportSave, save
<1>2. origin' \notin Handlers
  BY <1>1, HandlersWrite
<1>3. TypeOK' /\ default' = default
  BY <1>1 DEF IInv, TypeOK, default
<1>4. Carried' /\ Followed' /\ RowsAccepted' /\ ImportWaits'
  BY <1>1, <1>2, <1>3 DEF IInv, Carried, Followed, RowsAccepted, ImportWaits, Coming, Good
<1> QED
  BY <1>3, <1>4 DEF IInv

(* A start loads what is stored, or falls back to the built-in curve.      *)
LEMMA RestartKeepsIInv ==
  ASSUME IInv, Restart
  PROVE  IInv'
<1>1. /\ missed' \in BOOLEAN /\ live' = IF missed' THEN default ELSE load
      /\ imported' = (~missed' /\ origin = "import")
      /\ sending' = [h \in Handlers |-> Idle]
      /\ UNCHANGED <<name, rows, importing, origin, raced>>
  BY DEF Restart
<1>2. load' = load /\ default' = default
  BY <1>1 DEF load, default
<1>3. load \in Curve /\ default \in Curve
  BY LoadIsCurve, DefaultIsCurve DEF IInv, TypeOK
<1>4. TypeOK'
  BY <1>1, <1>3 DEF IInv, TypeOK
<1>5. ~Coming'
  BY <1>1 DEF Coming
<1>6. ~imported' => live' = default \/ Good(live')
  <2>1. origin # "import" => load = default \/ Good(load)
    BY LoadOfAccepted DEF IInv, TypeOK, RowsAccepted
  <2> QED
    BY <1>1, <2>1
<1>7. Carried' /\ Followed' /\ RowsAccepted' /\ ImportWaits'
  BY <1>1, <1>2, <1>5, <1>6 DEF IInv, Carried, Followed, RowsAccepted, ImportWaits, Accepted, Good
<1> QED
  BY <1>4, <1>7 DEF IInv

(* Every step keeps the invariant. *)
LEMMA NextKeepsIInv ==
  ASSUME IInv, [Next]_vars
  PROVE  IInv'
<1>1. ASSUME NEW h \in Handlers, NEW points \in Submissions, PutSave(h, points) PROVE IInv'
  BY <1>1, PutSaveKeepsIInv
<1>2. ASSUME NEW h \in Handlers, PutSend(h) PROVE IInv'
  BY <1>2, PutSendKeepsIInv
<1>3. ASSUME NEW h \in Handlers, HangUp(h) PROVE IInv'
  BY <1>3, HangUpKeepsIInv
<1>4. ASSUME NEW file \in Files, ImportCheck(file) PROVE IInv'
  BY <1>4, ImportCheckKeepsIInv
<1>5. CASE ImportSave
  BY <1>5, ImportSaveKeepsIInv
<1>6. CASE ImportAbort
  BY <1>6, ImportAside DEF ImportAbort, IInv, ImportWaits
<1>7. CASE Restart
  BY <1>7, RestartKeepsIInv
<1>8. CASE UNCHANGED vars
  BY <1>8, ImportAside DEF vars, IInv, TypeOK, ImportWaits
<1> QED
  BY <1>1, <1>2, <1>3, <1>4, <1>5, <1>6, <1>7, <1>8 DEF Next

(* The inductive invariant holds in every reachable state. *)
LEMMA SpecIInv == Spec => []IInv
BY InitIInv, NextKeepsIInv, PTL DEF Spec

(* Stored and running curves stay in range, and every other variable in its *)
(* type, for any set of submissions and any set of files.                   *)
THEOREM TypeCorrect == Spec => []TypeOK
<1>1. IInv => TypeOK
  BY DEF IInv
<1> QED
  BY <1>1, SpecIInv, PTL

(* The built-in curves are at full speed from the ceiling up. *)
LEMMA DefaultIsSafe ==
  SafeEverywhere(default)
<1>1. ASSUME NEW curve \in Curve, Len(curve) = 3,
             curve[1].temp_c <= 65, curve[1].speed_pct = 100
      PROVE  SafeEverywhere(curve)
  <2> SUFFICES ASSUME NEW t \in Int, t >= SAFETY_CEILING_C
               PROVE  speed_for(curve, t) >= MIN_SAFE_PCT
    BY DEF SafeEverywhere
  <2> DEFINE n == Len(curve)
  <2>1. n = 3
    BY <1>1
  <2> HIDE DEF n
  <2>2. 1 \in 1..n
    BY <2>1
  <2>3. 1 \in 1..Len(curve) /\ curve[1].temp_c \in Int
    BY <2>2, BreakpointIsPoint DEF n
  <2>4. 1 \in Met(curve, t)
    BY <1>1, <2>3 DEF Met, SAFETY_CEILING_C
  <2>5. FirstMet(curve, t) \in 1..Len(curve) /\ FirstMet(curve, t) <= 1
    BY <2>4, FirstMetIsFirst DEF Met
  <2>6. FirstMet(curve, t) = 1
    BY <1>1, <2>5
  <2> QED
    BY <1>1, <2>4, <2>6 DEF speed_for, MIN_SAFE_PCT
<1>2. /\ Len(default_curve) = 3
      /\ default_curve[1].temp_c <= 65 /\ default_curve[1].speed_pct = 100
  BY DEF default_curve
<1>3. /\ Len(default_hdd_curve) = 3
      /\ default_hdd_curve[1].temp_c <= 65 /\ default_hdd_curve[1].speed_pct = 100
  BY DEF default_hdd_curve
<1>4. CASE name = "hdd"
  BY <1>1, <1>3, <1>4, DefaultIsCurve DEF default
<1>5. CASE name # "hdd"
  BY <1>1, <1>2, <1>5, DefaultIsCurve DEF default
<1> QED
  BY <1>4, <1>5

(* Accepted rows are loaded in the very order they were checked in. *)
LEMMA AcceptedIsSafe ==
  ASSUME rows \in Curve, Accepted(rows)
  PROVE  SafeEverywhere(load)
<1>1. CASE rows = << >>
  BY <1>1, DefaultIsSafe DEF load
<1>2. CASE rows # << >>
  BY <1>2, LoadOfSorted, SafetyFloorCoversAll DEF Accepted, SafeEverywhere
<1> QED
  BY <1>1, <1>2

(* A good curve is safe. *)
LEMMA GoodIsSafe ==
  ASSUME NEW curve, Good(curve)
  PROVE  SafeEverywhere(curve)
BY SafetyFloorCoversAll DEF Good, SafeEverywhere

(* Neither a running curve that is not an imported one, nor one that a      *)
(* restart would load from rows nobody imported, gives less than 25% at any *)
(* temperature from 75 up: at every whole degree, where the run looks only  *)
(* at the probes.                                                           *)
THEOREM AcceptedCurveSafeEverywhere ==
  Spec => []( /\ ~imported => SafeEverywhere(live)
              /\ origin # "import" => SafeEverywhere(load) )
<1>1. IInv => /\ ~imported => SafeEverywhere(live)
              /\ origin # "import" => SafeEverywhere(load)
  BY AcceptedIsSafe, DefaultIsSafe, GoodIsSafe DEF IInv, TypeOK, RowsAccepted
<1> QED
  BY <1>1, SpecIInv, PTL

(* The probes of a curve are whole degrees. *)
LEMMA ProbesAreDegrees ==
  ASSUME NEW curve \in Curve
  PROVE  Probes(curve) \subseteq Int
<1> SUFFICES ASSUME NEW t \in Probes(curve) PROVE t \in Int
  OBVIOUS
<1>1. CASE t \in {SAFETY_CEILING_C, 200}
  BY <1>1 DEF SAFETY_CEILING_C
<1>2. CASE t \notin {SAFETY_CEILING_C, 200}
  <2>1. PICK i \in 1..Len(curve) : t \in (curve[i].temp_c - 1)..(curve[i].temp_c + 1)
    <3>1. t \in UNION { (curve[i].temp_c - 1)..(curve[i].temp_c + 1) : i \in 1..Len(curve) }
      BY <1>2 DEF Probes
    <3>2. PICK band \in { (curve[i].temp_c - 1)..(curve[i].temp_c + 1) : i \in 1..Len(curve) } :
            t \in band
      BY <3>1, Zenon
    <3>3. PICK i \in 1..Len(curve) : band = (curve[i].temp_c - 1)..(curve[i].temp_c + 1)
      BY <3>2, Zenon
    <3> QED
      BY <3>2, <3>3
  <2> QED
    BY <2>1, BreakpointIsPoint
<1> QED
  BY <1>1, <1>2

(* The same as the run states it. *)
THEOREM AcceptedCurveSafe == Spec => []AcceptedCurveIsSafe
<1>1. ASSUME NEW curve \in Curve, SafeEverywhere(curve) PROVE SafeAbove(curve)
  BY <1>1, ProbesAreDegrees DEF SafeAbove, SafeEverywhere
<1>2. IInv => live \in Curve /\ load \in Curve
  BY LoadIsCurve DEF IInv, TypeOK
<1>3. IInv => /\ ~imported => SafeEverywhere(live)
              /\ origin # "import" => SafeEverywhere(load)
  BY AcceptedIsSafe, DefaultIsSafe, GoodIsSafe DEF IInv, TypeOK, RowsAccepted
<1>4. IInv => AcceptedCurveIsSafe
  BY <1>1, <1>2, <1>3 DEF AcceptedCurveIsSafe
<1> QED
  BY <1>4, SpecIInv, PTL

(* What a PUT has committed and is about to send is what load returns, and  *)
(* once nothing is to come a restart that can read the rows loads the very  *)
(* curve that was running, unless the daemon missed the rows: for any       *)
(* number of PUTs that commit, send and are hung up on in any order.        *)
THEOREM RestartKeeps == Spec => []RestartKeepsBehaviour
<1>1. ASSUME IInv, Coming PROVE sending[origin] = load
  <2>1. sending[origin] = rows /\ rows \in Curve /\ Good(rows)
    BY <1>1 DEF IInv, TypeOK, Carried, RowsAccepted, Coming
  <2> QED
    BY <2>1, LoadOfSorted DEF Good
<1>2. IInv => RestartKeepsBehaviour
  BY <1>1 DEF IInv, Followed, RestartKeepsBehaviour, SameCurve
<1> QED
  BY <1>2, SpecIInv, PTL

(* Rows an operator stored stay the operator's: an import that found no     *)
(* rows can overwrite them only when the PUT landed after its check.        *)
THEOREM EditsSurvive == Spec => OperatorEditsSurvive
<1>1. ASSUME IInv, [Next]_vars, ByPut, ~raced PROVE ByPut'
  <2>1. importing = Idle
    BY <1>1 DEF IInv, ImportWaits, ByPut
  <2> QED
    BY <1>1, <2>1 DEF Next, vars, PutSave, PutSend, HangUp, ImportCheck, StartImport,
                      ImportSave, ImportAbort, Restart, ByPut
<1>2. IInv /\ [Next]_vars => [ByPut /\ ~raced => ByPut']_vars
  BY <1>1
<1> QED
  BY <1>2, SpecIInv, PTL DEF Spec, OperatorEditsSurvive
=============================================================================
