----------------------------- MODULE StatusLoop -----------------------------
(***************************************************************************)
(* Panel and Alerts, the two jobs of the service loop beside the fan and   *)
(* the clock.  They share no state, so a behaviour moves one of them and   *)
(* leaves the other where it starts: their product has nothing to add.     *)
(***************************************************************************)
EXTENDS Panel, Alerts

VARIABLE focus   \* the job that moves

status_vars == <<focus, panel_vars, alerts_vars>>

SomeConfig == CHOOSE c \in Config : TRUE

StatusInit ==
  /\ focus \in {"panel", "alerts"}
  /\ PanelInit /\ AlertsInit
  /\ focus = "alerts" => config = SomeConfig

StatusNext ==
  \/ focus = "panel"  /\ PanelNext  /\ UNCHANGED <<focus, alerts_vars>>
  \/ focus = "alerts" /\ AlertsNext /\ UNCHANGED <<focus, panel_vars>>

(* Nothing is fair to the alerts: of them, only safety is stated. *)
StatusSpec == StatusInit /\ [][StatusNext]_status_vars /\ Fairness

(* Both type invariants. *)
StatusTypeOK == PanelTypeOK /\ AlertsTypeOK
=============================================================================
