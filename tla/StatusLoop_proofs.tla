-------------------------- MODULE StatusLoop_proofs --------------------------
(***************************************************************************)
(* What holds of the panel for any screens, configurations, pulses and     *)
(* queue, and of the alerts for any sources, webhooks and number of tasks. *)
(***************************************************************************)
EXTENDS StatusLoop, SharedLemmas

(* What is believed to be shown is also what was published. *)
ShownIsPublished == shown # None => screen = shown

PictureInv == ShownIsPublished /\ PreviewIsReal /\ ShownIsDrawn

LEMMA PictureInit == PanelInit => PictureInv
  BY DEF PanelInit, PictureInv, ShownIsPublished, PreviewIsReal, ShownIsDrawn

(* A tick draws what it publishes and remembers, or draws nothing because  *)
(* all three agree already.                                                *)
LEMMA TickKeepsPicture ==
  ASSUME PictureInv, NEW r, render_oled_tick(r) PROVE PictureInv'
<1> DEFINE sel == current(r)
<1>0. "clock" # None
  BY ScreenAssumption
<1>1. /\ shown' = sel
      /\ screen' = IF sel # shown THEN sel ELSE screen
      /\ IF sel # shown \/ sel = "clock" THEN Write(sel) ELSE UNCHANGED panel
  BY DEF render_oled_tick
<1> HIDE DEF sel
<1>2. CASE sel # shown \/ sel = "clock"
  <2>1. screen' = sel
    BY <1>0, <1>1, <1>2 DEF PictureInv, ShownIsPublished
  <2>2. glass' = sel \/ unsure'
    BY <1>1, <1>2 DEF Write
  <2> QED
    BY <1>1, <2>1, <2>2 DEF PictureInv, ShownIsPublished, PreviewIsReal, ShownIsDrawn, get_preview
<1>3. CASE sel = shown /\ sel # "clock"
  BY <1>1, <1>3 DEF panel, PictureInv, ShownIsPublished, PreviewIsReal, ShownIsDrawn, get_preview
<1> QED
  BY <1>2, <1>3

LEMMA SamePicture ==
  ASSUME PictureInv, UNCHANGED <<panel, shown, screen>> PROVE PictureInv'
  BY DEF panel, PictureInv, ShownIsPublished, PreviewIsReal, ShownIsDrawn, get_preview

LEMMA PictureStep == PictureInv /\ [PanelNext]_panel_vars => PictureInv'
<1> SUFFICES ASSUME PictureInv, [PanelNext]_panel_vars PROVE PictureInv'
  OBVIOUS
<1>1. CASE OledTick
  <2>1. CASE config.enabled
    <3>1. render_oled_tick(rotation')
      BY <1>1, <2>1 DEF OledTick
    <3> QED
      BY <3>1, TickKeepsPicture
  <2>2. CASE ~config.enabled
    BY <1>1, <2>2, SamePicture DEF OledTick
  <2> QED
    BY <2>1, <2>2
<1>2. CASE ConfigChanged
  <2>1. CASE ~config'.enabled
    <3>1. shown' = None /\ screen' = None /\ (glass' = None \/ unsure')
      BY <1>2, <2>1 DEF ConfigChanged, Forget, Publish, Write
    <3> QED
      BY <3>1 DEF PictureInv, ShownIsPublished, PreviewIsReal, ShownIsDrawn, get_preview
  <2>2. CASE config'.enabled
    <3>1. shown' = None /\ UNCHANGED <<screen, glass, unsure>> /\ adopted'
      BY <1>2, <2>2 DEF ConfigChanged, Forget
    <3> QED
      BY <3>1 DEF PictureInv, ShownIsPublished, PreviewIsReal, ShownIsDrawn, get_preview
  <2> QED
    BY <2>1, <2>2
<1>3. CASE Restart
  BY <1>3 DEF Restart, PictureInv, ShownIsPublished, PreviewIsReal, ShownIsDrawn, get_preview
<1>4. CASE Monitor
  BY <1>4, SamePicture DEF Monitor, Pulse, Send, SendFails
<1>5. CASE handle_button_event \/ Terminate
  BY <1>5, SamePicture DEF handle_button_event, Terminate
<1>6. CASE Second \/ Stream \/ Reconnect
  BY <1>6, SamePicture DEF Second, Stream, Reconnect
<1>7. ASSUME NEW c \in Config, put_config(c) PROVE PictureInv'
  BY <1>7, SamePicture DEF put_config
<1>8. CASE UNCHANGED panel_vars
  BY <1>8, SamePicture DEF panel_vars
<1> QED
  BY <1>1, <1>2, <1>3, <1>4, <1>5, <1>6, <1>7, <1>8 DEF PanelNext, Loop

LEMMA PictureAlways == PanelSpec => []PictureInv
<1>1. PanelInit => PictureInv
  BY PictureInit
<1>2. PictureInv /\ [PanelNext]_panel_vars => PictureInv'
  BY PictureStep
<1> QED
  BY <1>1, <1>2, PTL DEF PanelSpec

(* The preview is what the panel shows, but for a write that failed, after *)
(* any edits, presses, screensavers and restarts.                          *)
THEOREM PreviewAlwaysReal == PanelSpec => []PreviewIsReal
<1>1. PictureInv => PreviewIsReal
  BY DEF PictureInv
<1> QED
  BY <1>1, PictureAlways, PTL

(* What the loop remembers as shown was drawn, with the same exception and *)
(* the one of an edit that leaves nothing selected.                        *)
THEOREM ShownAlwaysDrawn == PanelSpec => []ShownIsDrawn
<1>1. PictureInv => ShownIsDrawn
  BY DEF PictureInv
<1> QED
  BY <1>1, PictureAlways, PTL

-----------------------------------------------------------------------------
(* Alerts: every variable has its type. *)
LEMMA AlertsTyped == AlertsInit => AlertsTypeOK
<1>1. default \in WebhookConfig /\ ~default.enabled
  BY DEF default, WebhookConfig
<1> SUFFICES ASSUME AlertsInit PROVE AlertsTypeOK
  OBVIOUS
<1>2. task \in [Task -> [url : Url, left : (SUBSET Source) \ {{}}] \cup {None}]
  BY DEF AlertsInit
<1>3. ConfigOK(webhook) /\ posted = None /\ row = None
  BY <1>1 DEF AlertsInit, ConfigOK
<1> QED
  BY <1>2, <1>3 DEF AlertsInit, AlertsTypeOK

(* What a task is spawned or left with is a task. *)
Tasks == [url : Url, left : (SUBSET Source) \ {{}}] \cup {None}

LEMMA CritIsSource ==
  ASSUME NEW reading \in Reading, NEW degraded \in Degraded
  PROVE  Crit(reading, degraded) \subseteq Source
  BY DEF Crit, Listed, Reading, Degraded, Source

LEMMA SpawnTyped ==
  ASSUME AlertsTypeOK, NEW left \in SUBSET Source, Spawn(left) PROVE task' \in [Task -> Tasks]
<1>t. task \in [Task -> Tasks]
  BY DEF AlertsTypeOK, Tasks
<1>1. CASE left = {} \/ target(webhook) = None
  BY <1>1, <1>t DEF Spawn
<1>2. CASE ~(left = {} \/ target(webhook) = None)
  <2>1. target(webhook) \in Url
    BY <1>2 DEF AlertsTypeOK, ConfigOK, WebhookConfig, target
  <2>2. [url |-> target(webhook), left |-> left] \in Tasks
    <3>1. left \in (SUBSET Source) \ {{}}
      BY <1>2
    <3> QED
      BY <2>1, <3>1 DEF Tasks
  <2>3. PICK t \in Task : task' = [task EXCEPT ![t] = [url |-> target(webhook), left |-> left]]
    BY <1>2 DEF Spawn
  <2> QED
    BY <1>t, <2>2, <2>3
<1> QED
  BY <1>1, <1>2

LEMMA LeaveTyped ==
  ASSUME AlertsTypeOK, NEW t \in Task, NEW s \in Source, task[t] # None, s \in task[t].left, Leave(t, s)
  PROVE  task' \in [Task -> Tasks]
<1>t. task \in [Task -> Tasks] /\ task[t] \in [url : Url, left : (SUBSET Source) \ {{}}]
  BY DEF AlertsTypeOK, Tasks
<1>1. task' = [task EXCEPT ![t] = IF task[t].left \ {s} = {} THEN None
                                 ELSE [task[t] EXCEPT !.left = task[t].left \ {s}]]
  BY DEF Leave
<1>2. CASE task[t].left \ {s} = {}
  BY <1>t, <1>1, <1>2 DEF Tasks
<1>3. CASE task[t].left \ {s} # {}
  <2>1. task[t].left \ {s} \in (SUBSET Source) \ {{}}
    BY <1>t, <1>3
  <2>2. [task[t] EXCEPT !.left = task[t].left \ {s}] \in Tasks
    BY <1>t, <2>1 DEF Tasks
  <2> QED
    BY <1>t, <1>1, <1>3, <2>2
<1> QED
  BY <1>2, <1>3

LEMMA AlertsTypedStep == AlertsTypeOK /\ [AlertsNext]_alerts_vars => AlertsTypeOK'
<1> SUFFICES ASSUME AlertsTypeOK, [AlertsNext]_alerts_vars PROVE AlertsTypeOK'
  OBVIOUS
<1>d. default \in WebhookConfig /\ ~default.enabled
  BY DEF default, WebhookConfig
<1>1. ASSUME NEW reading \in Reading, NEW degraded \in Degraded, Poll(reading, degraded)
      PROVE  AlertsTypeOK'
  <2>1. Crit(reading, degraded) \subseteq Source
    BY CritIsSource
  <2>2. alerts(Crit(reading, degraded)) \in SUBSET Source
    BY <2>1 DEF alerts
  <2>3. task' \in [Task -> Tasks]
    BY <1>1, <2>2, SpawnTyped DEF Poll
  <2>4. critical' \subseteq Source
    BY <1>1, <2>1 DEF Poll, remember, remembered, AlertsTypeOK
  <2> QED
    BY <1>1, <2>3, <2>4 DEF Poll, notifications, AlertsTypeOK, Tasks
<1>2. ASSUME NEW t \in Task, NEW s \in Source, send(t, s) PROVE AlertsTypeOK'
  <2>1. task' \in [Task -> Tasks]
    BY <1>2, LeaveTyped DEF send
  <2>2. fired' \in BOOLEAN
    <3>1. PICK through \in BOOLEAN : Record(through)
      BY <1>2 DEF send
    <3> QED
      BY <3>1 DEF Record, AlertsTypeOK
  <2> QED
    BY <1>2, <2>1, <2>2 DEF send, notifications, AlertsTypeOK, Tasks
<1>3. ASSUME NEW c \in WebhookConfig, put_webhook(c) PROVE AlertsTypeOK'
  <2>1. ConfigOK(c)
    BY <1>3 DEF put_webhook, valid, ConfigOK
  <2> QED
    BY <1>3, <2>1 DEF put_webhook, AlertsTypeOK
<1>4. CASE WebhookChanged
  BY <1>4 DEF WebhookChanged, AlertsTypeOK
<1>5. CASE test_webhook
  <2>1. PICK through \in BOOLEAN : Record(through)
    BY <1>5 DEF test_webhook
  <2> QED
    BY <1>5, <2>1 DEF test_webhook, Record, notifications, AlertsTypeOK
<1>6. CASE StartOver
  <2>1. ConfigOK(webhook')
    BY <1>6, <1>d DEF StartOver, ConfigOK, AlertsTypeOK
  <2> QED
    BY <1>6, <2>1 DEF StartOver, AlertsTypeOK
<1>7. CASE UNCHANGED alerts_vars
  BY <1>7 DEF alerts_vars, notifications, AlertsTypeOK
<1> QED
  BY <1>1, <1>2, <1>3, <1>4, <1>5, <1>6, <1>7 DEF AlertsNext

(* Nothing is switched on without a URL, and a task has something to send. *)
THEOREM AlertsTypeCorrect == AlertsSpec => []AlertsTypeOK
BY AlertsTyped, AlertsTypedStep, PTL DEF AlertsSpec

-----------------------------------------------------------------------------
(* The alerts for one URL: spawning a task adds it to those that have an   *)
(* alert for the URL in force; what is sent is taken from the task's own.  *)
LEMMA ToFinite == \A s, u : IsFiniteSet(To(s, u))
<1> TAKE s, u
<1>1. To(s, u) \in SUBSET Task /\ IsFiniteSet(Task)
  BY FiniteAssumption DEF To
<1> QED
  BY <1>1, FS_Subset

LEMMA SpawnAims ==
  ASSUME AlertsTypeOK, NEW left \in SUBSET Source, Spawn(left), NEW s \in Source, NEW u \in Url
  PROVE  Cardinality(To(s, u)') =
           IF s \in left /\ u = target(webhook) THEN Cardinality(To(s, u)) + 1 ELSE Cardinality(To(s, u))
<1>t. task \in [Task -> Tasks] /\ u # None
  BY NoneAssumption DEF AlertsTypeOK, Tasks
<1>1. CASE left = {} \/ target(webhook) = None
  <2>1. To(s, u)' = To(s, u)
    BY <1>1 DEF Spawn, To
  <2> QED
    BY <1>1, <1>t, <2>1
<1>2. CASE ~(left = {} \/ target(webhook) = None)
  <2> DEFINE new == [url |-> target(webhook), left |-> left]
  <2>1. PICK t \in Task : task[t] = None /\ task' = [task EXCEPT ![t] = new]
    BY <1>2 DEF Spawn
  <2>2. new # None
    <3>1. target(webhook) \in Url
      BY <1>2 DEF AlertsTypeOK, ConfigOK, WebhookConfig, target
    <3>2. new \in [url : Url, left : SUBSET Source]
      BY <3>1
    <3> QED
      BY <3>2, NoneAssumption
  <2>3. new.left = left /\ new.url = target(webhook)
    OBVIOUS
  <2> HIDE DEF new
  <2>4. To(s, u)' = IF s \in left /\ u = target(webhook) THEN To(s, u) \cup {t} ELSE To(s, u)
    BY <1>t, <2>1, <2>2, <2>3 DEF To
  <2>5. t \notin To(s, u)
    BY <2>1 DEF To
  <2> QED
    BY <2>4, <2>5, ToFinite, FS_AddElement
<1> QED
  BY <1>1, <1>2

LEMMA LeaveAims ==
  ASSUME AlertsTypeOK, NEW t \in Task, NEW s \in Source, task[t] # None, s \in task[t].left, Leave(t, s),
         NEW r \in Source, NEW u \in Url
  PROVE  Cardinality(To(r, u)') =
           IF r = s /\ u = task[t].url THEN Cardinality(To(r, u)) - 1 ELSE Cardinality(To(r, u))
<1>t. task \in [Task -> Tasks] /\ task[t] \in [url : Url, left : (SUBSET Source) \ {{}}]
  BY DEF AlertsTypeOK, Tasks
<1> DEFINE rest == [task[t] EXCEPT !.left = task[t].left \ {s}]
<1>1. task' = [task EXCEPT ![t] = IF task[t].left \ {s} = {} THEN None ELSE rest]
  BY DEF Leave
<1>2. \A v \in Task \ {t} : task'[v] = task[v]
  BY <1>t, <1>1
<1>3. rest.left = task[t].left \ {s} /\ rest.url = task[t].url /\ rest # None
  <2>1. rest.left = task[t].left \ {s} /\ rest.url = task[t].url /\ rest \in [url : Url, left : SUBSET Source]
    BY <1>t
  <2> QED
    BY <2>1, NoneAssumption
<1> HIDE DEF rest
<1>4. task'[t] = IF task[t].left \ {s} = {} THEN None ELSE rest
  BY <1>t, <1>1
<1>5. t \in To(r, u)' <=> r \in task[t].left \ {s} /\ u = task[t].url
  BY <1>3, <1>4 DEF To
<1>6. t \in To(r, u) <=> r \in task[t].left /\ u = task[t].url
  BY DEF To
<1>7. To(r, u)' = IF r = s /\ u = task[t].url THEN To(r, u) \ {t} ELSE To(r, u)
  <2>1. \A v \in Task \ {t} : v \in To(r, u)' <=> v \in To(r, u)
    BY <1>2 DEF To
  <2>2. To(r, u) \subseteq Task /\ To(r, u)' \subseteq Task
    BY DEF To
  <2> QED
    BY <1>5, <1>6, <2>1, <2>2
<1> QED
  BY <1>6, <1>7, ToFinite, FS_RemoveElement

(* What is due in the sense of AlertPromise. *)
Due == [s \in Source |-> [u \in Url |-> Cardinality(To(s, u))]]

LEMMA NothingDue ==
  ASSUME task = [t \in Task |-> None]
  PROVE  Due = Promise!Nothing
<1>1. \A s, u : Cardinality(To(s, u)) = 0
  <2>1. \A s, u : To(s, u) = {}
    BY DEF To
  <2> QED
    BY <2>1, FS_EmptySet
<1> QED
  BY <1>1 DEF Due, Promise!Nothing

(* A poll is a step that observes. *)
LEMMA PollIsAbstract ==
  ASSUME AlertsTypeOK, NEW reading \in Reading, NEW degraded \in Degraded, Poll(reading, degraded)
  PROVE  Promise!PNext
<1> DEFINE listed == Listed(reading, degraded)
           crit == Crit(reading, degraded)
<1>1. listed \in SUBSET Source /\ crit \in SUBSET listed
  BY DEF Listed, Crit, Reading, Degraded, Source
<1>2. Spawn(crit \ critical) /\ critical' = (critical \ listed) \cup crit
      /\ UNCHANGED <<webhook, row, fired>>
  BY DEF Poll, alerts, remember, remembered, notifications
<1> HIDE DEF listed, crit
<1>3. Due' = [s \in Source |-> [u \in Url |->
                IF s \in crit \ critical /\ u = target(webhook) THEN Due[s][u] + 1 ELSE Due[s][u]]]
  <2>1. crit \ critical \in SUBSET Source
    BY <1>1
  <2>2. ASSUME NEW s \in Source, NEW u \in Url
        PROVE  Cardinality(To(s, u)') =
                 IF s \in crit \ critical /\ u = target(webhook) THEN Due[s][u] + 1 ELSE Due[s][u]
    <3>1. Due[s][u] = Cardinality(To(s, u))
      BY DEF Due
    <3> QED
      BY <1>2, <2>1, <3>1, SpawnAims
  <2> QED
    BY <2>2 DEF Due
<1>4. Promise!Observe(listed, crit)
  BY <1>2, <1>3 DEF Promise!Observe, Due, target
<1> QED
  BY <1>1, <1>4 DEF Promise!PNext

(* The end of a POST is an attempt at what was due to its URL. *)
LEMMA SendIsAbstract ==
  ASSUME AlertsTypeOK, NEW t \in Task, NEW s \in Source, send(t, s)
  PROVE  Promise!PNext
<1> DEFINE v == task[t].url
<1>1. task[t] # None /\ s \in task[t].left /\ Leave(t, s) /\ UNCHANGED <<critical, webhook, row>>
  BY DEF send, notifications
<1>2. v \in Url
  BY <1>1 DEF AlertsTypeOK
<1>3. Due[s][v] > 0
  <2>1. t \in To(s, v)
    BY <1>1 DEF To
  <2>2. Cardinality(To(s, v)) \in Nat /\ Cardinality(To(s, v)) # 0
    BY <2>1, ToFinite, FS_CardinalityType, FS_EmptySet
  <2> QED
    BY <1>2, <2>2 DEF Due
<1>4. Due' = [Due EXCEPT ![s][v] = @ - 1]
  <2>1. ASSUME NEW r \in Source, NEW u \in Url
        PROVE  Due'[r][u] = IF r = s /\ u = v THEN Due[r][u] - 1 ELSE Due[r][u]
    <3>1. Due[r][u] = Cardinality(To(r, u)) /\ Due'[r][u] = Cardinality(To(r, u)')
      BY DEF Due
    <3> QED
      BY <1>1, <3>1, LeaveAims
  <2>2. Due = [r \in Source |-> [u \in Url |-> Due[r][u]]] /\ Due' = [r \in Source |-> [u \in Url |-> Due'[r][u]]]
    BY DEF Due
  <2> HIDE DEF v
  <2> QED
    BY <1>2, <2>1, <2>2
<1>5. fired' \in {fired, TRUE}
  BY DEF send, Record
<1> HIDE DEF v
<1>6. Promise!Attempt(s, v)
  BY <1>1, <1>3, <1>4, <1>5 DEF Promise!Attempt, Due, target
<1> QED
  BY <1>2, <1>6 DEF Promise!PNext

(* Where a configuration that is in order sends to. *)
LEMMA TargetTyped ==
  ASSUME NEW c, ConfigOK(c)
  PROVE  target(c) \in Url \cup {None}
BY DEF ConfigOK, WebhookConfig, target

(* Every step is a step of AlertPromise, or leaves its variables alone.    *)
LEMMA AlertsStepIsAbstract ==
  ASSUME AlertsTypeOK, [AlertsNext]_alerts_vars
  PROVE  [Promise!PNext]_Promise!pvars
<1>u. UNCHANGED task => Due' = Due
  BY DEF Due, To
<1>1. ASSUME NEW c \in WebhookConfig, put_webhook(c) PROVE Promise!PNext
  <2>1. row' = c /\ ConfigOK(c) /\ UNCHANGED <<critical, webhook, task, fired>>
    BY <1>1 DEF put_webhook, valid, ConfigOK
  <2>2. c # None
    BY NoneAssumption
  <2>3. target(c) \in Url \cup {None}
    BY <2>1, TargetTyped
  <2>4. Promise!Save
    BY <1>u, <2>1, <2>2, <2>3 DEF Promise!Save, Due, target
  <2> QED
    BY <2>4 DEF Promise!PNext
<1>2. CASE WebhookChanged
  <2>1. webhook' = posted /\ ConfigOK(posted) /\ UNCHANGED <<critical, row, task, fired>>
    BY <1>2 DEF WebhookChanged, AlertsTypeOK
  <2>2. target(posted) \in Url \cup {None}
    BY <2>1, TargetTyped
  <2>3. Promise!Apply
    BY <1>u, <2>1, <2>2 DEF Promise!Apply, Due, target
  <2> QED
    BY <2>3 DEF Promise!PNext
<1>3. CASE test_webhook
  <2>1. fired' \in {fired, TRUE}
    BY <1>3 DEF test_webhook, Record
  <2>2. Promise!Try
    BY <1>3, <1>u, <2>1 DEF test_webhook, notifications, Promise!Try, Due, target
  <2> QED
    BY <2>2 DEF Promise!PNext
<1>4. CASE StartOver
  <2>1. /\ critical' = {} /\ task' = [t \in Task |-> None] /\ UNCHANGED <<row, fired>>
        /\ webhook' \in {default, IF row = None THEN default ELSE row}
    BY <1>4 DEF StartOver
  <2>2. target(default) = None
    BY DEF default, target
  <2>3. target(webhook') \in {None, IF row = None THEN None ELSE target(row)}
    BY <2>1, <2>2
  <2>4. Due' = Promise!Nothing
    <3>1. \A s, u : To(s, u)' = {}
      BY <2>1 DEF To
    <3> QED
      BY <3>1, FS_EmptySet DEF Due, Promise!Nothing
  <2>5. Promise!Renew
    BY <2>1, <2>3, <2>4 DEF Promise!Renew, Due, target
  <2> QED
    BY <2>5 DEF Promise!PNext
<1>5. CASE UNCHANGED alerts_vars
  BY <1>5, <1>u DEF alerts_vars, notifications, Promise!pvars, Due, target
<1> QED
  BY <1>1, <1>2, <1>3, <1>4, <1>5, PollIsAbstract, SendIsAbstract DEF AlertsNext

(* The tracker, the tasks and the configuration implement AlertPromise:    *)
(* each turn is announced to the URL that was in force when it was seen,   *)
(* for any number of sources, URLs and tasks.                              *)
THEOREM AttemptedOnce == AlertsSpec => OneAttemptEach
<1>1. AlertsInit => Promise!PInit
  <2>1. target(default) = None
    BY DEF default, target
  <2> QED
    BY <2>1, NothingDue DEF AlertsInit, Promise!PInit, Due
<1>2. AlertsTypeOK /\ [AlertsNext]_alerts_vars => [Promise!PNext]_Promise!pvars
  BY AlertsStepIsAbstract
<1> QED
  BY <1>1, <1>2, AlertsTypeCorrect, PTL DEF AlertsSpec, OneAttemptEach, Promise!PSpec

-----------------------------------------------------------------------------
(* Rotation::from_config keeps the words it knows, whatever the list holds. *)
LEMMA KnownWords ==
  ASSUME NEW list \in Seq(STRING)
  PROVE  parse_list(list) \in Seq(Screen)
<1> DEFINE n == Len(list)
           S == Seq(Screen)
           Reads(f) == f = [k \in 0..Len(list) |->
                             IF k = 0 THEN <<>>
                             ELSE IF from_token(list[k]) THEN Append(f[k - 1], list[k]) ELSE f[k - 1]]
           F == [k \in 1..n |-> [s \in S |-> IF from_token(list[k]) THEN Append(s, list[k]) ELSE s]]
           known == CHOOSE f : Reads(f)
<1>1. n \in Nat /\ <<>> \in S
  OBVIOUS
<1>2. ASSUME NEW k \in 1..n, NEW s \in S
      PROVE  (IF from_token(list[k]) THEN Append(s, list[k]) ELSE s) \in S
  BY DEF from_token
<1>3. F \in [1..n -> [S -> S]]
  BY <1>2
<1>4. \E f : Reads(f)
  <2> HIDE DEF S, F
  <2>1. PICK f \in [0..n -> S] : \A k \in 0..n : f[k] = IF k = 0 THEN <<>> ELSE F[k][f[k - 1]]
    <3> HIDE DEF n
    <3>1. Recursions(n, S, <<>>, F) # {}
      BY <1>1, <1>3, RecursionDefines
    <3> QED
      BY <3>1 DEF Recursions
  <2>2. ASSUME NEW k \in 0..n
        PROVE  f[k] = IF k = 0 THEN <<>>
                      ELSE IF from_token(list[k]) THEN Append(f[k - 1], list[k]) ELSE f[k - 1]
    <3>1. k # 0 => k \in 1..n /\ f[k - 1] \in S
      BY <1>1
    <3> QED
      BY <2>1, <3>1 DEF F
  <2>3. f = [k \in 0..n |-> f[k]]
    BY <2>1
  <2>4. Reads(f)
    BY <2>2, <2>3
  <2> QED
    BY <2>4
<1>5. Reads(known)
  BY <1>4
<1> HIDE DEF known
<1>6. \A k \in 0..n : known[k] \in S
  <2>1. \A k \in 0..n : known[k] = IF k = 0 THEN <<>>
                                   ELSE IF from_token(list[k]) THEN Append(known[k - 1], list[k]) ELSE known[k - 1]
    BY <1>5
  <2>2. known[0] \in S
    <3>1. 0 \in 0..n
      BY <1>1
    <3> QED
      BY <1>1, <2>1, <3>1
  <2>3. ASSUME NEW k \in 1..n, known[k - 1] \in S PROVE known[k] \in S
    <3>1. k \in 0..n /\ k # 0
      BY <1>1
    <3> QED
      BY <1>2, <2>1, <2>3, <3>1
  <2> HIDE DEF S
  <2> QED
    BY <1>1, <2>2, <2>3, LoopKeeps
<1>7. parse_list(list) = known[n]
  BY DEF parse_list, known
<1> QED
  BY <1>1, <1>6, <1>7

(* The screens of a configuration that is in force. *)
LEMMA ScreensTyped ==
  ASSUME config \in Config
  PROVE  /\ screens \in Seq(Screen)
         /\ switch_duration \in Nat /\ config.screensaver \in Nat
<1>1. config.screenlist \in Seq(STRING)
      /\ config.switch_duration \in Nat /\ config.screensaver \in Nat
  BY ConfigAssumption
<1> QED
  BY <1>1, KnownWords DEF screens, switch_duration

LEMMA Remainder ==
  ASSUME NEW a \in Nat, NEW n \in Nat \ {0}
  PROVE  a % n \in Nat /\ a % n < n
OBVIOUS

(* What the rotation is at any time: its index is one of a screen. *)
Turns(r) ==
  /\ r \in [idx : Nat, switched : Nat, active : Nat, blanked : BOOLEAN]
  /\ screens # <<>> => r.idx < Len(screens)

(* Drawing the next screen keeps the index one of a screen. *)
LEMMA AdvancedTurns ==
  ASSUME config \in Config, NEW r, Turns(r), screens # <<>>
  PROVE  Turns(advanced(r))
<1>1. Len(screens) \in Nat \ {0}
  BY ScreensTyped
<1>2. (r.idx + 1) % Len(screens) \in Nat /\ (r.idx + 1) % Len(screens) < Len(screens)
  <2>1. r.idx + 1 \in Nat
    BY DEF Turns
  <2> QED
    BY <1>1, <2>1, Remainder
<1> QED
  BY <1>2 DEF advanced, Turns

(* So do a tick and a press of the button. *)
LEMMA TickedTurns ==
  ASSUME config \in Config, NEW r, Turns(r)
  PROVE  Turns(ticked(r))
<1> DEFINE s == [r EXCEPT !.blanked = r.blanked \/ asleep(r)]
<1>1. r.blanked \in BOOLEAN /\ (r.blanked \/ asleep(r)) \in BOOLEAN
  BY DEF Turns
<1>2. Turns(s)
  BY <1>1 DEF Turns
<1> HIDE DEF s
<1>3. CASE ~s.blanked /\ screens # <<>> /\ s.switched >= switch_duration
  BY <1>2, <1>3, AdvancedTurns DEF ticked, s
<1>4. CASE ~(~s.blanked /\ screens # <<>> /\ s.switched >= switch_duration)
  BY <1>2, <1>4 DEF ticked, s
<1> QED
  BY <1>3, <1>4

LEMMA PressedTurns ==
  ASSUME config \in Config, NEW r, Turns(r)
  PROVE  Turns(on_button_switch(r))
<1> DEFINE s == [r EXCEPT !.blanked = FALSE, !.active = 0]
<1>1. Turns(s)
  BY DEF Turns
<1> HIDE DEF s
<1>2. CASE screens # <<>>
  BY <1>1, <1>2, AdvancedTurns DEF on_button_switch, s
<1>3. CASE screens = <<>>
  BY <1>1, <1>3 DEF on_button_switch, s
<1> QED
  BY <1>2, <1>3

LEMMA FreshTurns ==
  ASSUME config \in Config
  PROVE  Turns(Fresh)
<1>1. screens \in Seq(Screen)
  BY ScreensTyped
<1> QED
  BY <1>1 DEF Turns, Fresh

LEMMA CurrentTyped ==
  ASSUME config \in Config, NEW r, Turns(r)
  PROVE  current(r) \in Screen \cup {None}
<1>1. screens \in Seq(Screen)
  BY ScreensTyped
<1>2. CASE r.blanked \/ screens = <<>>
  BY <1>2 DEF current
<1>3. CASE ~(r.blanked \/ screens = <<>>)
  <2>1. r.idx + 1 \in 1..Len(screens)
    BY <1>1, <1>3 DEF Turns
  <2>2. screens[r.idx + 1] \in Screen
    BY <1>1, <2>1
  <2> QED
    BY <1>3, <2>2 DEF current
<1> QED
  BY <1>2, <1>3

(* The bus and the channels do not put anything into the panel's state that *)
(* is not of its type. *)
LEMMA WriteTyped ==
  ASSUME PanelTypeOK, NEW picture \in Screen \cup {None}, Write(picture)
  PROVE  glass' \in Screen \cup {None, "torn"} /\ unsure' \in BOOLEAN /\ adopted' \in BOOLEAN
BY DEF Write, PanelTypeOK

LEMMA RotationTurns ==
  /\ PanelTypeOK => Turns(rotation)
  /\ RotationOK <=> Turns(rotation)
BY DEF PanelTypeOK, RotationOK, Turns

(* As long as the configuration stays, so do its screens. *)
LEMMA SameScreens ==
  ASSUME UNCHANGED config, Turns(rotation')
  PROVE  RotationOK'
<1>1. screens' = screens
  BY DEF screens
<1> QED
  BY <1>1 DEF RotationOK, Turns

LEMMA PanelTypeInit == PanelInit => PanelTypeOK
<1> SUFFICES ASSUME PanelInit PROVE PanelTypeOK
  OBVIOUS
<1>1. RotationOK
  BY FreshTurns, RotationTurns DEF PanelInit
<1> QED
  BY <1>1, BoundAssumption DEF PanelInit, PanelTypeOK

LEMMA MonitorTyped ==
  ASSUME PanelTypeOK, Monitor
  PROVE  PanelTypeOK'
<1>1. UNCHANGED <<config, rotation>>
  BY DEF Monitor, Pulse, Send, SendFails
<1>2. RotationOK'
  BY <1>1, RotationTurns, SameScreens
<1>3. held' \in Event \cup {None}
  BY DEF Monitor, Pulse, Send, SendFails, classify, Event
<1>4. queue' \in Seq(Event) /\ Len(queue') <= QUEUE
  <2>1. CASE Send
    <3>1. queue \in Seq(Event) /\ held \in Event /\ Len(queue) < QUEUE /\ queue' = Append(queue, held)
      BY <2>1 DEF Send, PanelTypeOK
    <3> QED
      BY <3>1, BoundAssumption
  <2>2. CASE Pulse \/ SendFails
    BY <2>2 DEF Pulse, SendFails, PanelTypeOK
  <2> QED
    BY <2>1, <2>2 DEF Monitor
<1> QED
  BY <1>2, <1>3, <1>4 DEF Monitor, Pulse, Send, SendFails, panel, PanelTypeOK

LEMMA OledTickTyped ==
  ASSUME PanelTypeOK, OledTick
  PROVE  PanelTypeOK'
<1>1. UNCHANGED <<button, config, offered, told, os>> /\ due' \in 0..MaxLate
  BY BoundAssumption DEF OledTick, PanelTypeOK
<1>2. CASE config.enabled
  <2>1. rotation' = ticked(rotation) /\ render_oled_tick(rotation')
    BY <1>2 DEF OledTick
  <2>2. config \in Config /\ Turns(rotation)
    BY RotationTurns DEF PanelTypeOK
  <2>3. Turns(rotation')
    BY <2>1, <2>2, TickedTurns
  <2>4. current(rotation') \in Screen \cup {None}
    BY <2>2, <2>3, CurrentTyped
  <2>5. shown' \in Screen \cup {None} /\ screen' \in Screen \cup {None}
    BY <2>1, <2>4 DEF render_oled_tick, PanelTypeOK
  <2>6. glass' \in Screen \cup {None, "torn"} /\ unsure' \in BOOLEAN /\ adopted' \in BOOLEAN
    <3>1. Write(current(rotation')) \/ UNCHANGED panel
      BY <2>1 DEF render_oled_tick
    <3> QED
      BY <2>4, <3>1, WriteTyped DEF panel, PanelTypeOK
  <2>7. RotationOK'
    BY <1>1, <2>3, SameScreens
  <2> QED
    BY <1>1, <2>5, <2>6, <2>7 DEF button, PanelTypeOK
<1>3. CASE ~config.enabled
  <2>1. UNCHANGED <<panel, rotation, shown, screen>>
    BY <1>3 DEF OledTick
  <2>2. RotationOK'
    BY <1>1, <2>1, RotationTurns, SameScreens
  <2> QED
    BY <1>1, <2>1, <2>2 DEF button, panel, PanelTypeOK
<1> QED
  BY <1>2, <1>3

(* A rotation that starts over fits any configuration that is taken up. *)
LEMMA FreshOK ==
  ASSUME config' \in Config, rotation' = Fresh
  PROVE  RotationOK'
<1>1. config'.screenlist \in Seq(STRING)
  BY ConfigAssumption
<1>2. screens' \in Seq(Screen)
  BY <1>1, KnownWords DEF screens
<1> QED
  BY <1>2 DEF RotationOK, Fresh

LEMMA ConfigChangedTyped ==
  ASSUME PanelTypeOK, ConfigChanged
  PROVE  PanelTypeOK'
<1>1. config' \in Config /\ offered' = None /\ rotation' = Fresh /\ shown' = None
      /\ UNCHANGED <<button, told, due, os>>
  BY DEF ConfigChanged, Forget, PanelTypeOK
<1>2. RotationOK'
  BY <1>1, FreshOK
<1>3. screen' \in {screen, None}
      /\ glass' \in Screen \cup {None, "torn"} /\ unsure' \in BOOLEAN /\ adopted' \in BOOLEAN
  <2>1. CASE ~config'.enabled
    <3>1. screen' = None /\ Write(None)
      BY <2>1 DEF ConfigChanged, Publish
    <3> QED
      BY <3>1, WriteTyped
  <2>2. CASE config'.enabled
    BY <2>2 DEF ConfigChanged, PanelTypeOK
  <2> QED
    BY <2>1, <2>2
<1> QED
  BY <1>1, <1>2, <1>3 DEF button, PanelTypeOK

LEMMA ButtonTyped ==
  ASSUME PanelTypeOK, handle_button_event
  PROVE  PanelTypeOK'
<1>1. UNCHANGED <<panel, held, config, offered, shown, screen, told, due>>
      /\ queue' = Tail(queue) /\ queue # <<>>
  BY DEF handle_button_event
<1>2. queue' \in Seq(Event) /\ Len(queue') <= QUEUE
  BY <1>1, BoundAssumption DEF PanelTypeOK
<1>3. rotation' \in {rotation, on_button_switch(rotation)} /\ os' \in {os, "stopping"}
  BY DEF handle_button_event
<1>4. Turns(rotation')
  BY <1>3, RotationTurns, PressedTurns DEF PanelTypeOK
<1>5. RotationOK'
  BY <1>1, <1>4, SameScreens
<1> QED
  BY <1>1, <1>2, <1>3, <1>5 DEF panel, PanelTypeOK

LEMMA SecondTyped ==
  ASSUME PanelTypeOK, Second
  PROVE  PanelTypeOK'
<1>1. UNCHANGED <<button, panel, config, offered, shown, screen, told, os>>
      /\ due' \in 0..MaxLate
  BY BoundAssumption DEF Second, PanelTypeOK
<1>2. config \in Config /\ Turns(rotation)
  BY RotationTurns DEF PanelTypeOK
<1>3. rotation' = [rotation EXCEPT !.switched = Later(rotation.switched, switch_duration),
                                   !.active   = Later(rotation.active, config.screensaver)]
  BY DEF Second
<1>4. Later(rotation.switched, switch_duration) \in Nat
      /\ Later(rotation.active, config.screensaver) \in Nat
  BY <1>2, ScreensTyped DEF Later, Turns
<1>5. Turns(rotation')
  BY <1>2, <1>3, <1>4 DEF Turns
<1>6. RotationOK'
  BY <1>1, <1>5, SameScreens
<1> QED
  BY <1>1, <1>6 DEF button, panel, PanelTypeOK

LEMMA RestartTyped ==
  ASSUME PanelTypeOK, Restart
  PROVE  PanelTypeOK'
<1>1. config' \in Config /\ rotation' = Fresh
  BY DEF Restart, PanelTypeOK
<1>2. RotationOK'
  BY <1>1, FreshOK
<1> QED
  BY <1>1, <1>2, BoundAssumption DEF Restart, PanelTypeOK

(* Every step of the panel keeps every variable in its type. *)
LEMMA PanelTypeStep == PanelTypeOK /\ [PanelNext]_panel_vars => PanelTypeOK'
<1> SUFFICES ASSUME PanelTypeOK, [PanelNext]_panel_vars PROVE PanelTypeOK'
  OBVIOUS
<1>1. CASE Terminate
  <2>1. RotationOK'
    BY <1>1, RotationTurns, SameScreens DEF Terminate
  <2> QED
    BY <1>1, <2>1, BoundAssumption DEF Terminate, panel, PanelTypeOK
<1>2. CASE Stream \/ Reconnect
  <2>1. UNCHANGED <<button, panel, config, offered, rotation, shown, screen, due, os>>
        /\ told' \in {screen, None}
    BY <1>2 DEF Stream, Reconnect, stream
  <2>2. RotationOK'
    BY <2>1, RotationTurns, SameScreens
  <2> QED
    BY <2>1, <2>2 DEF button, panel, PanelTypeOK
<1>3. ASSUME NEW c \in Config, put_config(c) PROVE PanelTypeOK'
  <2>1. RotationOK'
    BY <1>3, RotationTurns, SameScreens DEF put_config
  <2> QED
    BY <1>3, <2>1 DEF put_config, button, panel, PanelTypeOK
<1>4. CASE UNCHANGED panel_vars
  <2>1. RotationOK'
    BY <1>4, RotationTurns, SameScreens DEF panel_vars
  <2> QED
    BY <1>4, <2>1 DEF panel_vars, button, panel, PanelTypeOK
<1> QED
  BY <1>1, <1>2, <1>3, <1>4, MonitorTyped, OledTickTyped, ConfigChangedTyped, ButtonTyped,
     SecondTyped, RestartTyped DEF PanelNext, Loop

(* The panel's variables keep their types and the rotation an index that    *)
(* one of the configured screens has, for any screens and configurations,   *)
(* words no build knows among them.                                         *)
THEOREM PanelTypeCorrect == PanelSpec => []PanelTypeOK
<1> QED
  BY PanelTypeInit, PanelTypeStep, PTL DEF PanelSpec

-----------------------------------------------------------------------------
(* A behaviour of the service loop is one of the panel and one of the       *)
(* alerts: what is proved of each holds of both together.                   *)
THEOREM JobsAreIndependent == StatusSpec => PanelSpec /\ AlertsSpec
<1>1. StatusInit => PanelInit /\ AlertsInit
  BY DEF StatusInit
<1>2. [StatusNext]_status_vars => [PanelNext]_panel_vars /\ [AlertsNext]_alerts_vars
  BY DEF StatusNext, status_vars
<1> QED
  BY <1>1, <1>2, PTL DEF StatusSpec, PanelSpec, AlertsSpec

(* Every variable of both has its type. *)
THEOREM StatusTypeCorrect == StatusSpec => []StatusTypeOK
<1>1. AlertsSpec => []AlertsTypeOK
  BY AlertsTyped, AlertsTypedStep, PTL DEF AlertsSpec
<1>2. PanelTypeOK /\ AlertsTypeOK => StatusTypeOK
  BY DEF StatusTypeOK
<1> QED
  BY <1>1, <1>2, JobsAreIndependent, PanelTypeCorrect, PTL

(* What is proved of each job, for the loop that does both.                *)
THEOREM StatusSafe ==
  StatusSpec => [](PreviewIsReal /\ ShownIsDrawn) /\ OneAttemptEach
BY JobsAreIndependent, PreviewAlwaysReal, ShownAlwaysDrawn, AttemptedOnce, PTL
=============================================================================
