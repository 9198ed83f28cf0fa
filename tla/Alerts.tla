------------------------------- MODULE Alerts -------------------------------
(***************************************************************************)
(* Alerts: at every poll the service loop compares what is critical with   *)
(* what was at the last one and, if notifications are on, spawns a task    *)
(* that POSTs the new alerts one after the other to the webhook.  The      *)
(* tasks outlive the poll, the readings and the configuration they were    *)
(* made from; a POST may fail or hang; the daemon restarts.                *)
(***************************************************************************)
EXTENDS FanCurve, Absent

CONSTANTS
  Disk, Array,  \* what the snapshot and mdstat may list
  Celsius,      \* bound: temperatures that are read
  Url,          \* bound: webhook URLs
  Task          \* bound: tasks alive at a time

Source == {"cpu_temp"} \cup Disk \cup Array

(* WebhookConfig. *)
WebhookConfig == [enabled : BOOLEAN, url : Url \cup {None}]
default == [enabled |-> FALSE, url |-> None]

VARIABLES
  critical,   \* AlertTracker: the sources last seen critical
  webhook,    \* webhook_config, the loop's copy
  posted,     \* the value of its channel if the loop has not seen it, or None
  row,        \* the webhook_config row, or None
  task,       \* task[t]: the URL and the alerts left to send, or None
  fired       \* settings holds webhook_last_fired_at

notifications == <<webhook, posted, row>>
alerts_vars   == <<notifications, critical, task, fired>>

ASSUME SourceAssumption == "cpu_temp" \notin Disk \cup Array /\ Disk \cap Array = {}
ASSUME CelsiusAssumption == Celsius \subseteq Nat
ASSUME NoneAssumption ==
  /\ None \notin Celsius /\ None \notin Url /\ None \notin Source /\ None \notin WebhookConfig
  /\ None \notin [url : Url, left : SUBSET Source]
ASSUME FiniteAssumption == IsFiniteSet(Source) /\ IsFiniteSet(Task)

-----------------------------------------------------------------------------
temp_severity(celsius) == IF celsius >= 55 THEN "crit" ELSE IF celsius >= 45 THEN "warn" ELSE "good"

(* A reading has the processor's temperature, if it could be read; of each *)
(* disk of the snapshot the temperature, if it tells; and of each array    *)
(* that mdstat lists whether a member failed.  What is not listed is not   *)
(* in the reading at all.                                                  *)
Reading ==
  UNION { [disks -> Celsius \cup {None}] : disks \in { {"cpu_temp"} \cup D : D \in SUBSET Disk } }
Degraded == UNION { [arrays -> BOOLEAN] : arrays \in SUBSET Array }

is_crit(reading, degraded, s) ==
  IF s \in Array THEN degraded[s]
  ELSE /\ reading[s] # None
       /\ IF s = "cpu_temp" THEN reading[s] >= SAFETY_CEILING_C
                            ELSE temp_severity(reading[s]) = "crit"

Listed(reading, degraded) == DOMAIN reading \cup DOMAIN degraded
Crit(reading, degraded) == { s \in Listed(reading, degraded) : is_crit(reading, degraded, s) }

(* AlertTracker::check: what to alert, and what is remembered. *)
alerts(crit) == crit \ critical
remembered(listed, crit) == (critical \ listed) \cup crit

(* The URL to send to, if notifications are on. *)
target(c) == IF c.enabled THEN c.url ELSE None

-----------------------------------------------------------------------------
AlertsInit ==
  /\ critical = {}
  /\ row = None /\ webhook = default /\ posted = None
  /\ task = [t \in Task |-> None]
  /\ fired = FALSE

-----------------------------------------------------------------------------
(* One poll.  The state is tracked whether notifications are on or off.    *)
(* There is a task to spare: Task bounds how many hang at a time.          *)
remember(listed, crit) == critical' = remembered(listed, crit)

Spawn(left) ==
  IF left = {} \/ target(webhook) = None THEN UNCHANGED task
  ELSE \E t \in Task : /\ task[t] = None
                       /\ task' = [task EXCEPT ![t] = [url |-> target(webhook), left |-> left]]

Poll(reading, degraded) ==
  LET crit == Crit(reading, degraded)
  IN  /\ Spawn(alerts(crit))
      /\ remember(Listed(reading, degraded), crit)
      /\ UNCHANGED <<notifications, fired>>

(* A task sends its alerts one by one: a failed one is not sent again, and *)
(* a task without any left is gone.                                        *)
Leave(t, s) ==
  LET left == task[t].left \ {s}
  IN  task' = [task EXCEPT ![t] = IF left = {} THEN None ELSE [@ EXCEPT !.left = left]]

(* record_webhook_fired, whose own failure is only logged. *)
Record(through) == fired' \in IF through THEN {fired, TRUE} ELSE {fired}

(* Nothing is fair to a task: reqwest's client has no timeout of its own,  *)
(* and a webhook may never answer.                                         *)
send(t, s) ==
  /\ task[t] # None /\ s \in task[t].left
  /\ Leave(t, s)
  /\ \E through \in BOOLEAN : Record(through)
  /\ UNCHANGED <<notifications, critical>>

-----------------------------------------------------------------------------
(* put_webhook: the row, then the channel, unless the client hung up on    *)
(* the commit.  A URL is asked for to switch notifications on.             *)
mut_valid(c) == TRUE
valid(c) == c.enabled => c.url # None

put_webhook(c) ==
  /\ valid(c)
  /\ row' = c
  /\ posted' \in {posted, c}
  /\ UNCHANGED <<webhook, critical, task, fired>>

mut_WebhookChanged ==
  /\ posted # None
  /\ webhook' = posted /\ posted' = None
  /\ task' = [t \in Task |-> IF task[t] = None \/ posted.url = None THEN task[t]
                                                              ELSE [task[t] EXCEPT !.url = posted.url]]
  /\ UNCHANGED <<row, critical, fired>>
WebhookChanged ==
  /\ posted # None
  /\ webhook' = posted /\ posted' = None
  /\ UNCHANGED <<row, critical, task, fired>>

(* The test button sends to what is saved, and only if that is on. *)
test_webhook ==
  /\ row # None /\ target(row) # None
  /\ \E through \in BOOLEAN : Record(through)
  /\ UNCHANGED <<notifications, critical, task>>

(* The daemon restarts with what the row says; its tracker and its tasks   *)
(* are gone.  A row that cannot be read counts as the default.             *)
StartOver ==
  /\ webhook' \in {default, IF row = None THEN default ELSE row}
  /\ posted' = None
  /\ critical' = {}
  /\ task' = [t \in Task |-> None]
  /\ UNCHANGED <<row, fired>>

AlertsNext ==
  \/ \E reading \in Reading, degraded \in Degraded : Poll(reading, degraded)
  \/ \E t \in Task, s \in Source : send(t, s)
  \/ \E c \in WebhookConfig : put_webhook(c)
  \/ WebhookChanged \/ test_webhook
  \/ StartOver

AlertsSpec == AlertsInit /\ [][AlertsNext]_alerts_vars

-----------------------------------------------------------------------------
(* Every variable has its type, and nothing is configured that is on and   *)
(* has no URL: the loop's branch for that is never taken.                  *)
ConfigOK(c) == c \in WebhookConfig /\ (c.enabled => c.url # None)
AlertsTypeOK ==
  /\ critical \subseteq Source
  /\ ConfigOK(webhook)
  /\ \A c \in {posted, row} : c # None => ConfigOK(c)
  /\ task \in [Task -> [url : Url, left : (SUBSET Source) \ {{}}] \cup {None}]
  /\ fired \in BOOLEAN

(* Every turn to critical that is seen while notifications are on gets one *)
(* attempt and no second one, however readings are lost, disks come and    *)
(* go, the configuration is flipped or POSTs fail and overlap: it has been *)
(* made, or some task still has to make it, and at the URL that was in     *)
(* force at its poll.  AlertPromise says so without a tracker or tasks.    *)
To(s, u) == { t \in Task : task[t] # None /\ s \in task[t].left /\ task[t].url = u }
Promise == INSTANCE AlertPromise WITH
  known   <- critical,
  hook    <- target(webhook),
  saved   <- IF row = None THEN None ELSE target(row),
  due     <- [s \in Source |-> [u \in Url |-> Cardinality(To(s, u))]],
  stamped <- fired
OneAttemptEach == Promise!PSpec
=============================================================================
