-------------------------------- MODULE Panel --------------------------------
(***************************************************************************)
(* Panel: the power button and the EON's OLED.  A monitor thread turns     *)
(* pulses into events and queues them, blocking when the queue is full;    *)
(* the service loop takes a second's tick, an edit of the configuration or *)
(* a button event, in any order, and writes the panel over a bus that may  *)
(* fail; a browser watches the selected screen over /api/ws and fetches    *)
(* the preview.                                                            *)
(***************************************************************************)
EXTENDS Naturals, Sequences, Absent

CONSTANTS
  Screen,     \* the screens, "clock" among them
  Config,     \* OledConfig: what the database may hold and put_config accepts
  Width,      \* bound: pulse widths, in milliseconds
  QUEUE,      \* the capacity of the button channel
  MaxLate     \* bound: ticks that a busy loop owes

VARIABLES
  held,         \* the event the monitor waits to send, or None
  queue,        \* the button channel
  config,       \* the loop's OledConfig
  offered,      \* the value of the channel if the loop has not seen it, or None
  rotation,     \* the Rotation
  shown,        \* oled_shown_screen
  screen,       \* the published selection
  told,         \* what the browser last heard of it
  glass,        \* what the panel shows, "torn" if it cannot be told
  due,          \* ticks of oled_tick that are owed
  os,           \* what systemctl was asked to do
  unsure,       \* history: no write of the panel since the last that failed
  adopted       \* history: no write since the start, or since the last edit

button     == <<held, queue>>
panel      == <<glass, unsure, adopted>>
panel_vars == <<button, panel, config, offered, rotation, shown, screen, told, due, os>>

Event == {"Reboot", "Shutdown", "OledSwitch"}
Duration == UNION { {0, c.switch_duration, c.screensaver} : c \in Config }

ASSUME ConfigAssumption ==
  Config \subseteq [switch_duration : Nat, screensaver : Nat, screenlist : Seq(STRING), enabled : BOOLEAN]
ASSUME ScreenAssumption == Screen \subseteq STRING /\ "clock" \in Screen /\ None \notin Screen \cup Event /\ None \notin Config
ASSUME BoundAssumption  == Width \subseteq Nat /\ QUEUE \in Nat \ {0} /\ MaxLate \in Nat \ {0}

-----------------------------------------------------------------------------
(* Words that this build does not know are skipped. *)
from_token(token) == token \in Screen
parse_list(list) ==
  LET known[n \in 0..Len(list)] ==
        IF n = 0 THEN <<>>
        ELSE IF from_token(list[n]) THEN Append(known[n - 1], list[n]) ELSE known[n - 1]
  IN  known[Len(list)]

screens == parse_list(config.screenlist)
switch_duration == IF config.switch_duration = 0 THEN 1 ELSE config.switch_duration

(* A Rotation starts over: its two clocks count the seconds since the last *)
(* switch and since the last use of the button, as far as they matter.     *)
mut_Fresh == [idx |-> 1, switched |-> 0, active |-> 0, blanked |-> FALSE]
Fresh == [idx |-> 0, switched |-> 0, active |-> 0, blanked |-> FALSE]

current(r) == IF r.blanked \/ screens = <<>> THEN None ELSE screens[r.idx + 1]
advanced(r) == [r EXCEPT !.idx = (@ + 1) % Len(screens), !.switched = 0]

mut_asleep(r) == config.screensaver # 0 /\ r.switched >= config.screensaver
asleep(r) == config.screensaver # 0 /\ r.active >= config.screensaver
ticked(r) ==
  LET s == [r EXCEPT !.blanked = @ \/ asleep(r)]
  IN  IF ~s.blanked /\ screens # <<>> /\ s.switched >= switch_duration THEN advanced(s) ELSE s

on_button_switch(r) ==
  LET s == [r EXCEPT !.blanked = FALSE, !.active = 0]
  IN  IF screens # <<>> THEN advanced(s) ELSE s

-----------------------------------------------------------------------------
(* The database loaded.  The panel keeps what an earlier daemon, or the    *)
(* board, left on it.                                                      *)
PanelInit ==
  /\ held = None /\ queue = <<>>
  /\ config \in Config /\ offered = None
  /\ rotation = Fresh
  /\ shown = None /\ screen = None /\ told = None
  /\ glass = "torn" /\ unsure = TRUE /\ adopted = TRUE
  /\ due = 1
  /\ os = "up"

-----------------------------------------------------------------------------
(* The monitor thread. *)
classify(width) ==
  IF width \in 20..30 THEN "Reboot"
  ELSE IF width \in 40..50 THEN "Shutdown"
  ELSE IF width \in 60..70 THEN "OledSwitch"
  ELSE None

(* A rising edge and the falling edge after it; one without the other has  *)
(* no effect.  blocking_send: nothing is read while the channel is full.   *)
Pulse ==
  /\ held = None /\ os # "ended"
  /\ \E w \in Width : held' = classify(w) /\ held' # None
  /\ UNCHANGED <<panel, queue, config, offered, rotation, shown, screen, told, due, os>>

Send ==
  /\ held # None /\ os # "ended" /\ Len(queue) < QUEUE
  /\ queue' = Append(queue, held)
  /\ held' = None
  /\ UNCHANGED <<panel, config, offered, rotation, shown, screen, told, due, os>>

(* The receiver is gone, and the thread with it. *)
mut_SendFails == UNCHANGED panel_vars
SendFails ==
  /\ held # None /\ os = "ended"
  /\ held' = None
  /\ UNCHANGED <<panel, queue, config, offered, rotation, shown, screen, told, due, os>>

-----------------------------------------------------------------------------
(* One write of the panel: it shows picture, or the bus failed on the way. *)
Write(picture) ==
  \/ glass' = picture /\ unsure' = FALSE /\ adopted' = FALSE
  \/ glass' \in {glass, "torn"} /\ unsure' = TRUE /\ UNCHANGED adopted

(* render_oled_tick: the selection is remembered before it is drawn. *)
render_oled_tick(r) ==
  LET changed == current(r) # shown
  IN  /\ shown' = current(r)
      /\ screen' = IF changed THEN current(r) ELSE screen
      /\ IF changed \/ current(r) = "clock" THEN Write(current(r)) ELSE UNCHANGED panel

OledTick ==
  /\ os # "ended" /\ due > 0
  /\ due' = due - 1
  /\ IF config.enabled
     THEN rotation' = ticked(rotation) /\ render_oled_tick(rotation')
     ELSE UNCHANGED <<panel, rotation, shown, screen>>
  /\ UNCHANGED <<button, config, offered, told, os>>

(* put_config, once it has saved and sent. *)
put_config(c) ==
  /\ os # "ended" /\ offered = None
  /\ offered' = c
  /\ UNCHANGED <<button, panel, config, rotation, shown, screen, told, due, os>>

(* An edit starts the rotation over and has everything drawn anew; one     *)
(* that disables the panel blanks it at once.                              *)
mut_Forget == UNCHANGED shown
Forget == shown' = None
mut_Publish == UNCHANGED screen
Publish == screen' = None

ConfigChanged ==
  /\ os # "ended" /\ offered # None
  /\ config' = offered /\ offered' = None
  /\ rotation' = Fresh
  /\ Forget
  /\ IF ~config'.enabled
     THEN Publish /\ Write(None)
     ELSE UNCHANGED <<screen, glass, unsure>> /\ adopted' = TRUE
  /\ UNCHANGED <<button, told, due, os>>

(* systemctl may fail; then the daemon carries on. *)
handle_button_event ==
  /\ os # "ended" /\ queue # <<>>
  /\ queue' = Tail(queue)
  /\ IF Head(queue) = "OledSwitch"
     THEN rotation' = on_button_switch(rotation) /\ UNCHANGED os
     ELSE os' \in {os, "stopping"} /\ UNCHANGED rotation
  /\ UNCHANGED <<panel, held, config, offered, shown, screen, told, due>>

(* SIGTERM: the loop is left, the panel as it is, and the channels close. *)
Terminate ==
  /\ os = "stopping"
  /\ os' = "ended"
  /\ queue' = <<>>
  /\ UNCHANGED <<panel, held, config, offered, rotation, shown, screen, told, due>>

(* The next daemon finds the rows as saved and the panel as it was left.   *)
Restart ==
  /\ os = "ended"
  /\ held' = None /\ queue' = <<>>
  /\ config' = (IF offered = None THEN config ELSE offered) /\ offered' = None
  /\ rotation' = Fresh
  /\ shown' = None /\ screen' = None /\ told' = None
  /\ unsure' = TRUE /\ adopted' = TRUE /\ UNCHANGED glass
  /\ due' = 1
  /\ os' = "up"

(* A second passes; a loop that is busy owes its ticks. *)
Later(n, enough) == IF n < enough THEN n + 1 ELSE n

Second ==
  /\ os # "ended" /\ due < MaxLate
  /\ due' = due + 1
  /\ rotation' = [rotation EXCEPT !.switched = Later(@, switch_duration),
                                  !.active   = Later(@, config.screensaver)]
  /\ UNCHANGED <<button, panel, config, offered, shown, screen, told, os>>

-----------------------------------------------------------------------------
(* /api/ws: a message on connecting, and one when the selection changed.   *)
(* Several changes may go by between two messages.                         *)
mut_stream == told # screen /\ screen # None /\ told' = screen
stream == told # screen /\ told' = screen

Stream ==
  /\ os # "ended"
  /\ stream
  /\ UNCHANGED <<button, panel, config, offered, rotation, shown, screen, due, os>>

(* The browser hangs up, and connects again later. *)
Reconnect ==
  /\ os # "ended"
  /\ told # screen /\ told # None
  /\ told' = None
  /\ UNCHANGED <<button, panel, config, offered, rotation, shown, screen, due, os>>

(* What the preview draws: the screen last selected, none when it is none. *)
get_preview == screen

-----------------------------------------------------------------------------
Monitor == Pulse \/ Send \/ SendFails
Loop    == OledTick \/ ConfigChanged \/ handle_button_event \/ Terminate

PanelNext ==
  \/ Monitor \/ Loop
  \/ \E c \in Config : put_config(c)
  \/ Second \/ Stream \/ Reconnect \/ Restart

(* select! polls its branches in random order, so none that stays ready is *)
(* passed over for ever; threads run; one second follows another; what is  *)
(* asked to stop gets its signal.                                          *)
Fairness ==
  /\ WF_panel_vars(Send) /\ WF_panel_vars(SendFails)
  /\ WF_panel_vars(OledTick) /\ WF_panel_vars(ConfigChanged) /\ WF_panel_vars(handle_button_event) /\ WF_panel_vars(Terminate)
  /\ WF_panel_vars(Second)
  /\ WF_panel_vars(Stream)

PanelSpec == PanelInit /\ [][PanelNext]_panel_vars /\ Fairness

-----------------------------------------------------------------------------
(* Every variable has its type, and idx is an index of screens. *)
RotationOK ==
  /\ rotation \in [idx : Nat, switched : Nat, active : Nat, blanked : BOOLEAN]
  /\ screens # <<>> => rotation.idx < Len(screens)

PanelTypeOK ==
  /\ held \in Event \cup {None}
  /\ queue \in Seq(Event) /\ Len(queue) <= QUEUE
  /\ config \in Config /\ offered \in Config \cup {None}
  /\ {shown, screen, told} \subseteq Screen \cup {None}
  /\ glass \in Screen \cup {None, "torn"}
  /\ due \in 0..MaxLate
  /\ os \in {"up", "stopping", "ended"}
  /\ unsure \in BOOLEAN /\ adopted \in BOOLEAN
  /\ RotationOK

(* The preview in the browser is what is on the glass, whatever was edited,*)
(* blanked and switched in between, as long as the last write went through.*)
PreviewIsReal == ~unsure => get_preview = glass

(* What the loop believes to be shown was drawn, also after the panel was  *)
(* switched off and on within a second.  The exception is an edit after    *)
(* which nothing is selected before anything was drawn: the old picture    *)
(* then stays.                                                             *)
ShownIsDrawn == ~unsure => glass = shown \/ (adopted /\ shown = None)

(* The monitor thread is never stuck with an event: the loop takes one out *)
(* of a full queue, or ends and releases it.                               *)
MonitorGoesOn == held # None ~> held = None

(* A panel that is on and has a screensaver goes dark unless somebody uses *)
(* the button or edits the configuration, however the screens rotate and   *)
(* ticks are late.                                                         *)
PanelGoesDark ==
  config.enabled /\ config.screensaver # 0 /\ rotation.active > 0
    ~> rotation.blanked \/ rotation.active = 0 \/ os = "ended"

(* A browser that stays connected learns of the selection again and again, *)
(* however the changes and its messages interleave.                        *)
BrowserCatchesUp == []<>(told = screen \/ os = "ended")
=============================================================================
