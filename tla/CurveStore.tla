----------------------------- MODULE CurveStore -----------------------------
(***************************************************************************)
(* Where a fan curve lives and how it gets there: the fan_curve_points     *)
(* rows of one curve, the copy the running daemon steers by, PUT           *)
(* /api/fan/curve/{cpu,hdd} (a commit, then a send), `admin                *)
(* import-legacy-config` (another process, whose check and save are two    *)
(* transactions) and daemon restarts.  The two curves share nothing but    *)
(* their code, so one behaviour follows one of them.  The last way from    *)
(* the watch channel to the control loop is LiveConfig's subject.          *)
(***************************************************************************)
EXTENDS FanCurve

CONSTANTS
  Handlers,      \* the PUT requests that may be in flight together
  Submissions,   \* the point lists a client may PUT
  Files,         \* the contents a legacy file may have: sequences of lines
  BadLine,       \* a line FanCurve::parse rejects
  Idle           \* a handler, or an import, that is not between its two steps

(* A point as a client or a file gives it, before its speed is capped. *)
RawPoint == [temp_c : Int, speed_pct : Nat]

ASSUME PointLists ==
  /\ Submissions \subseteq Seq(RawPoint)
  /\ Files \subseteq Seq(RawPoint \cup {BadLine})
ASSUME IdleAssumption == Idle \notin Curve
ASSUME HandlersAssumption == Handlers \cap {"none", "import"} = {}

VARIABLES
  name,       \* which curve this is; never changes
  rows,       \* its stored points, in rowid order
  live,       \* the curve the daemon runs with: its watch channel's
  sending,    \* sending[h]: the curve PUT h has committed and not yet sent
  importing,  \* the parsed file an import is about to save
  origin,     \* history: who wrote the rows last: a PUT, "import" or nobody
  raced,      \* history: that PUT was stored while an import was past its check
  missed,     \* history: no send that is still to come brings live to the rows
  imported    \* history: the running curve is one that an import stored

vars == <<name, rows, live, sending, importing, origin, raced, missed, imported>>

default == IF name = "hdd" THEN default_hdd_curve ELSE default_curve

(* curve_store::load: ORDER BY temp_c DESC keeps rows of equal temperature *)
(* in rowid order; no rows means the built-in curve.                       *)
load == IF rows = << >> THEN default ELSE SortDescending(rows)

(* curve_store::save: one transaction deletes the curve's rows and inserts *)
(* the new ones; the CHECK on fan_pct is met by every caller.              *)
mut_save_appends(curve) == rows' = rows \o curve
save(curve) == rows' = curve

mut_put_unsorted(points) == Capped(points)
mut_put_uncapped(points) == SortDescending(points)
put_points(points) == SortDescending(Capped(points))

Init ==
  /\ name \in {"cpu", "hdd"}
  /\ rows = << >>
  /\ live = default
  /\ sending = [h \in Handlers |-> Idle]
  /\ importing = Idle
  /\ origin = "none"
  /\ raced = FALSE
  /\ missed = FALSE
  /\ imported = FALSE

(* put_curve up to its commit: an empty list, or one that dips below the   *)
(* floor once sorted, is answered 422 and a failed save 500, all without   *)
(* effect.                                                                 *)
PutSave(h, points) ==
  /\ sending[h] = Idle
  /\ points # << >>
  /\ ~violates_safety_floor(put_points(points))
  /\ save(put_points(points))
  /\ sending' = [sending EXCEPT ![h] = put_points(points)]
  /\ origin' = h
  /\ raced' = (importing # Idle)
  /\ UNCHANGED <<name, live, importing, missed, imported>>

(* The rows are those of a PUT that has yet to send them. *)
Coming == origin \in Handlers /\ sending[origin] # Idle

(* send_replace, not ordered with the commits: an older curve may come     *)
(* after the one the rows hold.                                            *)
PutSend(h) ==
  /\ sending[h] # Idle
  /\ live' = sending[h]
  /\ sending' = [sending EXCEPT ![h] = Idle]
  /\ missed' = (h # origin /\ (missed \/ ~Coming))
  /\ imported' = FALSE
  /\ UNCHANGED <<name, rows, importing, origin, raced>>

(* A client hangs up while its handler awaits the commit, which the        *)
(* database's own thread completes: the handler is dropped, not resumed.   *)
HangUp(h) ==
  /\ sending[h] # Idle
  /\ sending' = [sending EXCEPT ![h] = Idle]
  /\ missed' = (missed \/ h = origin)
  /\ UNCHANGED <<name, rows, live, importing, origin, raced, imported>>

(* FanCurve::parse fails on the first malformed line. *)
Parses(file) == \A k \in 1..Len(file) : file[k] # BadLine

(* import_curve up to its save: a file that is absent or malformed, or     *)
(* rows already there, end the import.                                     *)
StartImport(file) ==
  /\ importing = Idle
  /\ Parses(file)
  /\ importing' = SortDescending(Capped(file))
  /\ UNCHANGED <<name, rows, live, sending, origin, raced, missed, imported>>

mut_ImportCheck(file) == StartImport(file)
ImportCheck(file) == rows = << >> /\ StartImport(file)

ImportSave ==
  /\ importing # Idle
  /\ save(importing)
  /\ importing' = Idle
  /\ origin' = "import"
  /\ missed' = TRUE
  /\ UNCHANGED <<name, live, sending, raced, imported>>

(* The import ends between its two steps: a failed save, or a kill. *)
ImportAbort ==
  /\ importing # Idle
  /\ importing' = Idle
  /\ UNCHANGED <<name, rows, live, sending, origin, raced, missed, imported>>

(* The daemon stops, or crashes, with every handler in it, and starts:     *)
(* service::run loads the curve, or falls back to the built-in one when    *)
(* the query fails.                                                        *)
Restart ==
  /\ missed' \in BOOLEAN
  /\ live' = IF missed' THEN default ELSE load
  /\ imported' = (~missed' /\ origin = "import")
  /\ sending' = [h \in Handlers |-> Idle]
  /\ UNCHANGED <<name, rows, importing, origin, raced>>

Next ==
  \/ \E h \in Handlers : \/ \E points \in Submissions : PutSave(h, points)
                        \/ PutSend(h)
                        \/ HangUp(h)
  \/ \E file \in Files : ImportCheck(file)
  \/ ImportSave
  \/ ImportAbort
  \/ Restart

Spec == Init /\ [][Next]_vars

-----------------------------------------------------------------------------
(* The temperatures that tell curves apart: around every breakpoint, the   *)
(* ceiling, and far above both.                                            *)
Probes(curve) ==
  {SAFETY_CEILING_C, 200}
    \cup (UNION { (curve[i].temp_c - 1)..(curve[i].temp_c + 1) : i \in 1..Len(curve) })

SafeAbove(curve) ==
  \A t \in Probes(curve) : t >= SAFETY_CEILING_C => speed_for(curve, t) >= MIN_SAFE_PCT

SameCurve(c, d) ==
  \A t \in Probes(c) \cup Probes(d) : speed_for(c, t) = speed_for(d, t)

(* Every variable has its type; a stored, running or travelling curve is  *)
(* in range.                                                               *)
TypeOK ==
  /\ name \in {"cpu", "hdd"}
  /\ rows \in Curve
  /\ live \in Curve
  /\ sending \in [Handlers -> Curve \cup {Idle}]
  /\ importing \in Curve \cup {Idle}
  /\ origin \in Handlers \cup {"none", "import"}
  /\ raced \in BOOLEAN
  /\ missed \in BOOLEAN
  /\ imported \in BOOLEAN

(* A curve that entered through the API never gives less than 25% at or    *)
(* above 75 degrees, neither as it runs now nor as a restart reloads it:   *)
(* put_curve sorts before it validates, exactly as load will.              *)
AcceptedCurveIsSafe ==
  /\ ~imported => SafeAbove(live)
  /\ origin # "import" => SafeAbove(load)

(* What a PUT sends is what load makes of the rows it stored.  So, with no *)
(* PUT in flight, a restart does not change what the fan does, unless the  *)
(* daemon missed the rows: the PUT that stored them was hung up on or sent *)
(* before an older one did, they were imported behind the daemon's back,   *)
(* or it could not read them at start.  While the PUT that stored them is  *)
(* still to send, what it will send agrees with load.                      *)
RestartKeepsBehaviour ==
  /\ Coming => SameCurve(sending[origin], load)
  /\ ~Coming /\ ~missed => SameCurve(live, load)

(* admin.rs: the import leaves anything already saved untouched.  It does, *)
(* unless the operator's PUT lands between the import's check and save.    *)
ByPut == origin \in Handlers
OperatorEditsSurvive ==
  [][ByPut /\ ~raced => ByPut']_vars

(* fan_curve.html tells the operator that the server always enforces at    *)
(* least 25% fan at or above 75 degrees, whatever is configured.           *)
RunningCurveIsSafe == SafeAbove(live)
=============================================================================
