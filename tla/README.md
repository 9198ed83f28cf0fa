# A TLA+ model of argonone-rs

`argonone-rs` is a daemon for Argon ONE/EON Raspberry Pi cases: it drives the
fan, the OLED and the RTC alarm of the case, listens to its power button, keeps
its settings in SQLite and serves a web interface, with accounts, that edits
them while it runs. This directory models the parts of it whose correctness
depends on the order of things: what falls into a hysteresis window, which of
two edits the control loop ends up with, what an alarm chip holds when the Pi
goes dark, who is an admin after two admins demoted one another, what the panel
shows after a write that failed.

Paths below are relative to the repository's `src/` unless they start with
`templates/` or name `README.md`.

## Inventory

| Component | State | Operations | Talks to | What is hard |
|---|---|---|---|---|
| Fan curves (`config/mod.rs`, `fan/curve_store.rs`) | rows of `fan_curve_points` | `parse`, `speed_for`, `violates_safety_floor`, `load`, `save` | database | order of points; three ways in (PUT, import, built-in) with different checks |
| Curve and settings editing (`web/fan_curve.rs`, `web/rtc.rs`, `web/oled.rs`, `web/system.rs`, `web/notifications.rs`) | none of its own | validate, commit, `send_replace` | database, watch channels | commit and send are two steps of concurrent tasks; a handler may be dropped between them |
| Settings table and admin commands (`db/settings.rs`, `db/mod.rs`, `admin.rs`, `config/import.rs`) | rows of `settings`, the write-ahead log, a backup | `load_*`, `save_*`, import, backup, restore | the database file, past the daemon | look and write are two statements of another process; a restore replaces the file under whoever has it open |
| Legacy files (`config/mod.rs`) | `/etc/argon*.conf` | three line parsers | start, import | repeated keys, values that do not parse |
| Control loop (`service.rs`) | its copies of every setting, `last_disk_temp_c`, `rtc_last_sleep_trigger` | one `select!`: poll, OLED tick, six channels, button, shutdown | everything | branches interleave freely; one slow branch delays all |
| Fan control (`fan/mod.rs`) | `current_speed`, `pending_decrease` | `set_curve`, `tick_with_floor` | fan backend | hysteresis against raises, edits, lost readings, failed writes |
| Fan hardware (`hardware/i2c.rs`, `hardware/mod.rs`) | MCU duty register | probe, `set_speed`, `signal_poweroff` | I2C bus | the register is shared with other processes; the probe writes it |
| IR remote (`hardware/i2c.rs`, `hardware/ir.rs`, `web/system.rs`) | code register of the MCU, row `ir_code` | learn, program | I2C bus, database | learning destroys the old code first; overlapping requests |
| RTC schedule (`rtc_schedule.rs`) | none | `next_wake`, `next_sleep`, `matching_sleep_entry` | – | week wrap, strictness |
| RTC alarm (`hardware/rtc.rs`, `service.rs`) | one alarm slot, flag, enable bit | `read_time`, `set_wake_alarm`, `clear_alarm`, arming, sleep poll | chip, systemd, case MCU | state that outlives daemon and power; partial writes; torn reads |
| Power button (`hardware/gpio.rs`) | pulse start, queue of 8 | measure, classify, send | control loop | queue limit, slow consumer, a consumer that is gone |
| OLED (`oled/mod.rs`, `service.rs`, `web/oled.rs`, `web/ws.rs`) | rotation, screensaver, last screen drawn, published screen | tick, button, reconfigure, preview, live updates | panel, browser | clock, button, edits and failed writes against what is believed and published |
| Alerts (`notify/mod.rs`, `service.rs`) | last severity per source, tasks in flight | `check`, `send`, test | webhook | recorded before it is sent; tasks outlive the poll; forgotten on restart |
| Sign-in (`auth/mod.rs`, `web/login.rs`) | failure counts, locks, sessions, `auth_lock` | authenticate, lock, log in/out, change password | database | concurrent guesses, password changes in flight |
| Accounts (`db/users.rs`, `web/users.rs`, `web/setup.rs`, `admin.rs`) | users, roles, setup token and flag | create, delete, role, unlock, reset, claim | database, sessions | last admin, first admin, reused row ids |
| Audit log (`db/audit.rs`, `web/audit.rs`) | rows naming an account | append after the fact | database | keeps the account it names from being deleted |
| HTTPS (`https.rs`, `web/system.rs`) | certificate files, certificate served | start, renew, re-issue, status | `tailscale`, ACME | one pair of files, several writers, one reader |
| Readings (`sysinfo/mod.rs`) | last samples per connection | parse mdstat, load, rates | `/proc` | counters that restart, routes that move, lines that belong to the next array |
| Pages, drawing, logs (`web/*`, `oled/*`, `logs.rs`) | – | I/O, formatting | – | not state the program decides on |

What makes each correct, as this project states it: curves are safe at and
above 75 degrees however they arrive and mean the same after a restart; the fan
is never slower than asked, never slowed early and never held for ever; the
loop works with what the database holds; the alarm is one of the schedule's
wakes and wakes a sleeping Pi on time; the button thread is never stuck; the
preview is what the panel shows; a turn to critical is attempted once; there is
always an admin, and only one first one; no password of a locked account is
compared; a revoked session is not served; a row is what the last writer made
it; the certificate served is the one of the server's domain; the remote that
works is the one the page shows; an array's state is its own.

## Modules

| Module | Role |
|---|---|
| `FanCurve` | the pure curve algebra of `config/mod.rs` |
| `CurveStore` | one stored curve: PUT and import in two steps each, hang-ups, restart |
| `FanController` | `tick_with_floor` in the control loop, over the I2C backend, with other processes |
| `LiveSetting` | abstract specification: what "edits apply live" promises of any setting |
| `LiveConfig` | the commit-then-send path of any setting; implements `LiveSetting` |
| `RtcSchedule` | the pure schedule arithmetic |
| `RtcPower` | alarm chip, arming, sleep poll, button, power of the Pi |
| `Accounts` | setup, sign-in, sessions, users, audit references, the command line |
| `Panel` | button thread and queue, rotation, panel writes, preview, `/api/ws` |
| `AlertPromise` | abstract specification: what webhook notifications promise |
| `Alerts` | tracker, tasks that POST, their configuration; implements `AlertPromise` |
| `Https` | transport, certificate files, start, renewal, re-issue |
| `Settings` | rows and write-ahead log under edits, import, backup, restore, restarts |
| `LegacyFiles` | the three line parsers of the legacy files |
| `IrRemote` | learning, saving and programming the remote's code |
| `Readings` | mdstat, processor load, network rates |
| `Absent` | the constant `None`, shared by modules that are checked together |
| `StatusLoop` | the composition of `Panel` and `Alerts`, which share a run |
| `Provisioning` | the composition of `Https`, `Settings`, `LegacyFiles`, `IrRemote` and `Readings` |
| `MC*` | the constants of the runs |
| `SharedLemmas` | what several proofs rest on: least numbers, induction over finite sets, loops over a sequence; and the theorem about `FanCurve` |
| `CurveStore_proofs`, `FanController_proofs`, `LiveConfig_proofs`, `RtcPower_proofs`, `Accounts_proofs` | theorems and proofs of the module each is named after |
| `StatusLoop_proofs` | theorems and proofs about `Panel`, `Alerts` and their composition |
| `Provisioning_proofs` | theorems and proofs about the five parts of `Provisioning` and their composition |

`FanController` and `CurveStore` extend `FanCurve`; `RtcPower` extends
`RtcSchedule`; `LiveConfig` instantiates `LiveSetting`, and `Alerts` instantiates
`AlertPromise`, with a refinement mapping; `Alerts` takes the ceiling of 75 degrees from `FanCurve`, as the code
does. The parts of `StatusLoop`, and those of `Provisioning`, share no variable,
and no property speaks of two of them, so the product of their states would show
nothing that each alone does not: a variable `focus` says which part a behaviour
moves, and the others stay where they start. `JobsAreIndependent` and
`PartsAreIndependent` prove that every behaviour of the composition is one of
each of its parts.

Operators named `mut_...` are not part of any specification. Each stands before
the definition it would replace and is that definition with a plausible bug in
it; the property it breaks is named in `PROJECT.json`, and shows that the
property can tell the code from the bug.

### How the models correspond to the code

**CurveStore.** `rows` are the table's rows of one curve in rowid order, `live`
is the curve on the daemon's watch channel. A PUT is two steps: `PutSave` is `put_curve`
from validation to the commit, `PutSend` its `send_replace`; `sending` is what a
handler carries from one to the other, and requests answered with 4xx or 5xx have no
effect and are no steps. Several PUTs may be between the two and send in another order
than they committed; `HangUp` is a handler dropped at its await of the commit.
`ImportCheck` and `ImportSave` are the halves of `import_curve`;
`ImportAbort` is a failed save or a kill. `Restart` is the load in
`service::run`, with its fall-back; the handlers die with the old process. `origin`,
`raced`, `missed` and `imported` are history: they only let the properties say which
path a curve took. `CurveStore` follows what the curve is, `LiveConfig` how a number
stands for it on the rest of the way.

**FanController.** Each of the three `select!` branches that end in
`tick_with_floor` is an action; the branch body is `TickWithFloor`, whose
decision is `new_speed` and `new_pending` and whose write is `WriteDuty`. A
failed I2C write may or may not have reached the MCU; only one that did makes belief
and register differ. Readings are nondeterministic,
a failed CPU reading included. `Instant`s appear only as ages:
`pending_decrease.age` counts the units since `since` and saturates where the
code no longer tells ages apart. `until_poll` is the interval timer, which
keeps its schedule when served late (the `Burst` behaviour of
`tokio::time::interval`). A CPU temperature is a whole number: breakpoints are, so
a fraction never decides. `Start` includes the probe's write of 0, and its
failure, which selects the no-op backend. The legacy raw-byte firmware is
driven by the same bytes and is the same duty register. `demand`, `demanded`,
`sensed`, `unmet` and `written` are history.

**LiveConfig.** Values are numbered in commit order, so "newer" is `<`.
`Commit` and `Send` are the two steps of every PUT handler; between them others
run. `HangUp` is a handler dropped at its await. `Receive` is any of the six
`changed()` branches. `ImportLegacy` writes past the daemon; whether its check lets it is
`CurveStore`'s subject. `StartWith(0)` is a load that failed and fell back.
`lost` is history: the incident since which the loop may differ from the database,
healed by the next send of the newest value or a good start.

**RtcPower.** `rtc` is the chip's minute, hour and weekday alarm registers,
enable and flag; the code always disables the day-of-month register, which is
left out. `apply_rtc_wake_alarm`, `set_wake_alarm` and `clear_alarm` yield every
chip that a bus error can leave, and `Reading` every mixture a rollover during `read_time`
can produce; `fault` is history and keeps apart an attempt that met an error and one done as of a
torn reading. `Poll` is the sleep check of a poll that finds something to do; a
poll may also be late or skipped. `power` is the Pi: off, booting, up, or
halting with the daemon still in its loop. `PowerDown`, `Abort`, `PowerOn` and
`Tick` (clock, alarm and case) are the environment. A stamp `(year, month, day,
hour, minute)` becomes day-of-week and time: `Tick` forgets it when its minute
is over, because the same date never comes again.

**Accounts.** A request is known by the next thing its handler does to shared
state: `check`, `right`/`wrong` and `login` are the steps of `authenticate` and
`submit`, between `TakeLock` and `Unlock`; `change`, `admin` and `audit` are
requests that `Begin` let through with the user as read then; `claim` and
`flag` are the transaction of first-run setup and the store into
`setup_complete` after its commit. A statement or a transaction is one step, as
SQLite makes it; between two, other browsers, `CliReset` and `Restart` run, and
`HangUp` drops the handler. `locked` is what is left of `locked_until`, which
`Tick` counts down. A salted hash is like no other, so `hash_password` picks one
that is not in use. `named` are the ids that `audit_log` or `settings`
reference: SQLite then refuses to delete the row. Row ids are one more than the
largest in use, so one may be given again. `claims`, `revoked` and `missed` are
history.

**Panel.** `Pulse`, `Send` and `SendFails` are the monitor thread; a rising and
a falling edge are one step, because one without the other has no effect. Each
of `OledTick`, `ConfigChanged` and `handle_button_event` is a branch of
`select!`; `Write` is a transfer that arrives, or leaves the panel as it was or
torn. `Instant`s are ages that saturate where the code stops telling them apart.
`screen` is the watch channel behind preview and websocket, `told` what one
browser heard; the websocket's first message counts as one of `Stream`. `PreviewIsReal` compares the
channel itself: an HTTP answer is rendered from it and may arrive after the panel has gone on.
`unsure` and `adopted` are history.

**Alerts.** `Poll` is one poll with any reading; a task spawned by it sends its
alerts in any order over any later steps, succeeds, fails, or hangs.
`put_webhook` is the row and, unless the client hung up, the channel.
`record_webhook_fired` may fail by itself. `AlertPromise` knows no tasks: it has
what is due, by source and URL, which the mapping counts from the tasks, and one
URL or none where the code has a switch and a URL.

**Https.** `work[i]` is a run of `tailscale cert` for the start and renewal
(`Boot`) or for a "Re-issue now" request: `Issue` writes the chain, `WriteKey`
the key, `Load` reads both, and fails when they do not belong together.
`server.domain` is fixed at `Start`, `saved` is what the page saved since. Of
ACME only the mode and its need of a domain are here.

**Settings.** A row is what the log, or else the file, has. `save` is one
statement; `setting_exists` and `set_setting_raw` are the halves of the import
of a key; `Rename` and `RemoveSidecars` are the two effects of a restore.
`Checkpoint` may move the log's frames at any time somebody has the database
open. `daemon = "stale"` is a daemon, or one started in between, whose
connections may be to the replaced file. `expected` and `excused` are history.
One admin command runs at a time.

**LegacyFiles.** A file is a sequence of lines, a line a key and a value; the
parsers are recursive functions over its lines, and `SameLinesCount` says declaratively which line
of each key counts.

**IrRemote.** `listening` is the holder of the bus lock from the sentinel to the
read-back, `learned` what a request has still to save. `Boots` is a start, with
or without the MCU having lost its register, that programs the row.

**Readings.** The lines of mdstat are printed from a list of arrays by `printout`, the
environment, and parsed back by `parse_raid_status`, both line by line. `StatsTick` is the tick of
one connection to `/api/ws`, which has samples of its own; `crossed` is history:
what really went through each interface.

## Runs

| Run | Specification, instance | Distinct states | Shows |
|---|---|---|---|
| `curve_store` | `CurveStore`, 2 PUTs in flight, lists of up to 2 of 4 points, 4 files | 28 648 | curves that came through the API are safe now and after a reload; what a PUT sends is what a load returns, and a restart changes nothing unless the daemon missed the rows; imports lose only the check-save race |
| `curve_import` | same | (violation) | an imported curve is never held against the floor |
| `fan_controller` | `FanController`, 2 CPU and 2 HDD curves, 3 CPU and 2 disk readings | 52 012 | the window is right, drops are earned, raises immediate, belief real, demand met |
| `fan_status_probe` | same | (violation) | a `status` command stops a fan the loop will not restart |
| `live_config` | `LiveConfig`, 3 handlers, 4 commits | 1 528 | the loop follows the database but for four named incidents; `LiveSetting` is implemented |
| `live_config_race` | 2 handlers, 3 commits | (violation) | two PUTs out of order leave the loop with an overwritten value |
| `rtc_power` | `RtcPower`, a week of 2 days, 2 hours, 2 minutes, 4 schedules | 59 889 | the alarm follows the schedule; a scheduled sleep is woken on time; no repeated shutdown |
| `rtc_armed` | same | (violation) | nothing re-arms an alarm that passed while the Pi was up |
| `rtc_flag` | same | (violation) | a scheduled sleep does not clear the flag of an alarm that passed |
| `accounts` | `Accounts`, 2 browsers, 2 rows, 3 hashes, 2 roles, lock after 2 failures for 1 tick | 1 350 994 | first and last admin, throttle, gate, revoked sessions |
| `status_loop` | `StatusLoop`: `Panel` with 3 configurations and a queue of 1, `Alerts` with 2 sources, 2 URLs and 2 tasks | 169 936 | preview and belief match the panel; button thread and browser get on; an unused panel goes dark; one attempt for each critical turn, at the right URL |
| `provisioning` | `Provisioning`: 2 domains, 2 re-issues, 3 certificates; 2 keys; files of 3 lines; 2 codes, 2 requests; 3 arrays, 2 interfaces | 231 319 | certificates, rows, files, remote and readings are what they should be but for the named interleavings |

### Bounds, and why they are enough

* Curves: nothing but the order of thresholds and the two constants 75 and 25
  matters, so points below, at and above 75 with speeds of 0, 25, 30 and above 100
  cover the cases of two points; two is what it takes for one to shadow another,
  to tie, and to be out of order. Two PUTs in flight are one that overtakes another.
  The PUTs are alike, so their names are symmetric. The theorems drop these bounds.
* Fan: a unit is 15 seconds. The window is as long as the poll interval, as in
  the code (30 s each), two units each, so that curve edits fall inside a window
  and polls at, before and (served up to `MaxLag` = 1 unit late) after its end. The demands are
  0, 30, 55 and 100, so a decrease can change its target twice. The theorems
  drop these bounds.
* Live settings: an overtaking needs two handlers; a third and a fourth commit
  let the overtaken value be repaired or overtaken again. The theorems drop
  these bounds too.
* RTC: the week's length only matters through wrapping and strictness; two of
  each unit give every carry of the clock, and the schedules have wakes on each
  day, at the week's last and first minutes, next to a sleep, and none at all.
* Accounts: the races are between two parties, so two browsers beside the
  command line; two rows are what a last admin and somebody to delete take, and
  a row id given again; three hashes are an old, a new and another one. The
  theorems drop these bounds. Roles are cut to admin and viewer: an operator
  differs only in what it may `Begin`.
* Panel: two screens, one of which redraws each second, and a word this build does not
  know; one configuration that is used, one with nothing to select, one that is
  off, so that every edit goes between any two. A queue of one is full, and one
  of 8 is more of the same. One owed tick lets edits and presses go before it.
* Alerts: a source is independent of the others but for the task it shares, so
  two are enough: the processor, which may be unreadable, and a disk, which may
  also be missing. An array is a disk that always tells; the theorem covers it.
  Two tasks overlap, and of two URLs one replaces the other under a task in flight.
* Https: a renewal, two re-issues and three certificates let any writer come
  between another's chain, key and load.
* Settings: a key with and one without a legacy file that a start reads; two
  values beside the default. LegacyFiles: three lines hold a repeated key around
  another, with good and bad values.
* IrRemote: two requests overlap; two codes differ. Readings: three arrays put
  one without counts between two with; counters of one byte show a
  difference across a moved route; two jiffies show idle time running back.

`CHECK_DEADLOCK FALSE` is given for `LiveConfig` and
`Provisioning`: a daemon nobody writes to may stop, a file has all its lines,
and with `MaxCommits` or `MaxSerial` used up nothing may be left to do. The
other models cannot stop.

### Fairness

* `FanController!FairSpec`: `WF(Tick)`, time passes; `WF(Poll)`, a due poll is
  served. The code justifies the latter as far as each branch of the loop
  returns; a `smartctl` that never returns would starve it and everything else.
  Edits, restarts and other processes are not fair.
* `LiveConfig!FairSpec`: `WF(Send(h))`, tokio resumes a handler whose commit
  has returned; `WF(Receive)`, `select!` picks its ready branch at random, so a
  channel that has changed is looked at. Nobody has to send a request or start the daemon.
* `Panel!Fairness`: the branches of the loop (`OledTick`, `ConfigChanged`,
  `handle_button_event`, `Terminate`) and the websocket's `Stream`, because
  `select!` tries its ready branches in random order; `Send` and `SendFails`, because threads
  run; `Second`. Pulses, edits, restarts, and browsers that reconnect are not fair.
  Weak fairness is enough: a branch once ready stays ready until it is taken.
* `Accounts`, `Alerts`, `Https`, `Settings`, `IrRemote` and `Readings` are
  checked for safety only. A POST has no timeout, a `tailscale cert` may hang, and
  clients hang up: none of them promises an end.
* `RtcPower!FairSpec`: `WF(Tick)`. `rtc_armed` and `rtc_flag`, like
  `fan_status_probe`, check action properties: a single step refutes them, and
  no fairness is needed for that.

## What the violations mean

1. **Imports bypass the safety floor** (`curve_import`). `README.md:104` and
   `templates/fan_curve.html:115` promise 25% at 75 degrees regardless of what is configured; `import_curve` saves
   what the file says. The floor is a check of one way in, not of the running curve.
2. **A probe stops the fan** (`fan_status_probe`). `detect()` writes 0 to the
   duty register in every process that calls it. The controller writes only
   changes of its own belief.
3. **Overtaken edits** (`live_config_race`). The database is called the live
   source of truth (`fan/curve_store.rs:4`); commit and send are not ordered together.
4. **Only one alarm per boot** (`rtc_armed`). The comment at
   `service.rs:374` lists the moments of arming; an alarm that fires in between leaves itself in the slot.
5. **The stale flag** (`rtc_flag`). The same comment has every self-triggered
   sleep call `apply_rtc_wake_alarm`; the code calls `set_wake_alarm` alone.

`DarkWakesOnTime` is stated for a clear flag, `AcceptedCurveIsSafe` for curves
that were not imported, `BelievedSpeedIsReal` for an MCU nobody else wrote, and
`LoopFollowsDatabase` and `RestartKeepsBehaviour` for no incident (an overtaken send,
a hang-up, an import, a failed load): the passing properties exclude exactly
what the violations show.

The properties of the other parts exclude, by their history variables or by
their wording, what the code does not rule out. Each is a place where a doc or
comment says more than the code does, or a limit an operator may meet:

* **Import and edit** (`OperatorEditsSurvive`, `LastWriteCounts`): the import
  looks for a row and then upserts. An edit in between is overwritten, where
  `config/import.rs:5` says that what the database has is "left alone rather
  than clobbered by a stale file".
* **Restore** (`LastWriteCounts`): killed between the rename and the removal of
  `-wal`, it leaves the frames of the old database over the restored file; and a
  daemon that runs on, which the closing message allows, writes to one or the other.
* **Re-issue** (`StatusIsServed`, `ServedIsOwn`): "Re-issue now" writes the
  files and reloads nothing, so the status read from disk can differ from
  what is served, which `https.rs:225` says it cannot; and for a domain saved
  since the start, the next renewal may load files of that domain.
* **HTTPS at start**: a `tailscale cert` that fails ends the web server of that
  daemon; only a missing domain falls back to plain HTTP.
* **Learning a remote** (`RemoteIsStored`): a request that captures nothing
  leaves the sentinel in the register, so the old remote no longer works though
  row and page still show it, until the next start programs it again.
* **Panel** (`ShownIsDrawn`): after an edit that leaves nothing selected before
  anything was drawn, nothing is drawn, and the old picture stays.
* **Gate** (`GateAccounted`): a client that hangs up on its claim leaves
  `setup_complete` unset until the next submission or start.
* **Alerts** (`OneAttemptEach`): a failed POST is not repeated, as
  `notify/mod.rs:100` says; a restart announces what is still critical once more.
* **Arrays** (`MdstatAsListed`): an inactive array has no counts and never
  alerts, and like a read-only one has its first word taken for its level.
* **Deletion** (`Accounts!delete_user`): an account that audit rows name is
  refused by the foreign key, with an internal error, for ever.

## What is proved

| Theorem | Property | Assumptions |
|---|---|---|
| `SharedLemmas!SafetyFloorCoversAll` | a curve that passes the check gives 25% at *every* temperature from 75 up | a curve of integers and percentages |
| `CurveStore_proofs!TypeCorrect` | `TypeOK` | `PointLists`: submissions are lists of points, a file's lines are points or do not parse; `IdleAssumption`, `HandlersAssumption`: the marks of no request are no curves, and no request is named as one |
| `CurveStore_proofs!AcceptedCurveSafeEverywhere` | a curve that was not imported gives 25% at *every* temperature from 75 up, now and after a reload | same |
| `CurveStore_proofs!AcceptedCurveSafe` | `AcceptedCurveIsSafe` | same |
| `CurveStore_proofs!RestartKeeps` | `RestartKeepsBehaviour` | same |
| `CurveStore_proofs!EditsSurvive` | `OperatorEditsSurvive` | same |
| `FanController_proofs!TypeCorrect` | `TypeOK` | the constants' assumptions in `FanController` |
| `FanController_proofs!WindowAlwaysFollows` | `WindowFollowsDemand` | same |
| `FanController_proofs!IncreasesAtOnce` | `NeverBelowDemand` | same |
| `FanController_proofs!BeliefIsReal` | `BelievedSpeedIsReal` | same |
| `FanController_proofs!DecreaseIsEarned` | `NoEarlyDecrease` | same |
| `LiveConfig_proofs!TypeCorrect` | `TypeOK` | `MaxCommits` a number, `Idle` none |
| `LiveConfig_proofs!QuietLoopFollows` | `LoopFollowsDatabase` | same |
| `LiveConfig_proofs!RestartKeepsEdits` | `RestartNeverGoesBack` | same |
| `LiveConfig_proofs!Refinement` | safety part of `LiveRefinement` | same |
| `RtcPower_proofs!NextOccurrenceIsSoonest` | what `next_occurrence` returns | positive lengths of week, day and hour |
| `RtcPower_proofs!TypeCorrect` | `TypeOK` | the constants' assumptions in `RtcSchedule` and `RtcPower` |
| `RtcPower_proofs!AlarmAlwaysFollows` | `AlarmFollowsSchedule` | same |
| `RtcPower_proofs!SoonestStaysInChip` | the chip holds the soonest wake, but for a fault or an old flag | same |
| `RtcPower_proofs!DarkWakes` | `DarkWakesOnTime` | same |
| `RtcPower_proofs!StampStays` | the stamp of an aborted shutdown lasts its minute | none |
| `RtcPower_proofs!SleepsOncePerMinute` | `SleepNotRepeated` | none |
| `Accounts_proofs!TypeCorrect` | `TypeOK` | the constants' assumptions in `Accounts` |
| `Accounts_proofs!AdminAlwaysRemains` | `AdminRemains` | same |
| `Accounts_proofs!FirstAdminOnce` | `OneFirstAdmin` | same |
| `Accounts_proofs!ThrottleAlwaysHolds` | `ThrottleHolds` | same |
| `Accounts_proofs!GateAlwaysAccounted` | `GateAccounted` | same |
| `Accounts_proofs!RevokedAlwaysRefused` | `RevokedIsRefused` | same |
| `StatusLoop_proofs!PreviewAlwaysReal` | `PreviewIsReal` | the constants' assumptions in `Panel` |
| `StatusLoop_proofs!ShownAlwaysDrawn` | `ShownIsDrawn` | same |
| `StatusLoop_proofs!AlertsTypeCorrect` | `AlertsTypeOK`, a part of `StatusTypeOK` | the constants' assumptions in `Alerts` |
| `StatusLoop_proofs!AttemptedOnce` | `OneAttemptEach` | same |
| `StatusLoop_proofs!PanelTypeCorrect` | `PanelTypeOK`, the other part | the constants' assumptions in `Panel` |
| `StatusLoop_proofs!JobsAreIndependent` | a behaviour of `StatusSpec` is one of `PanelSpec` and of `AlertsSpec` | none |
| `StatusLoop_proofs!StatusTypeCorrect` | `StatusTypeOK` | the constants' assumptions in both |
| `StatusLoop_proofs!StatusSafe` | the properties above, of `StatusSpec` | same |
| `Provisioning_proofs!RemoteAlwaysStored` | `RemoteIsStored` | `IrAssumption` |
| `Provisioning_proofs!RatesAlwaysTraffic` | `RatesAreTraffic` | `ListedAssumption` |
| `Provisioning_proofs!LastWriteAlwaysCounts` | `LastWriteCounts` | `SettingsAssumption` |
| `Provisioning_proofs!ImportAlwaysKeepsLoad` | `ImportKeepsLoad` | same |
| `Provisioning_proofs!ServedAlwaysOwn` | `ServedIsOwn` | `HttpsAssumption` |
| `Provisioning_proofs!StatusAlwaysServed` | `StatusIsServed` | same |
| `Provisioning_proofs!ReadingsTyped` | `ReadingsTypeOK`, a part of `ProvisioningTypeOK` | `ListedAssumption` |
| `Provisioning_proofs!PartsAreIndependent` | a behaviour of `ProvisioningSpec` is one of each part's specification | none |
| `Provisioning_proofs!ProvisioningTypeCorrect` | `ProvisioningTypeOK` | the assumptions of all parts |
| `Provisioning_proofs!SameLinesAlwaysCount` | `SameLinesCount` | `LinesAssumption` |
| `Provisioning_proofs!MdstatAlwaysAsListed` | `MdstatAsListed` | `ListedAssumption` |
| `Provisioning_proofs!ProvisioningSafe` | the properties above, of `ProvisioningSpec` | the assumptions of all parts |

No theorem has a bound on its constants: lists, files, handlers, tasks, screens,
counters and weeks have any size. Those about `PanelSpec`, `AlertsSpec`, `IrSpec`,
`ReadingsSpec`, `SettingsSpec` and `HttpsSpec` are each about one part by itself,
and hold of the composition because its behaviours are behaviours of each part;
`StatusSafe` and `ProvisioningSafe` say so.
Together the theorems state every safety property the passing runs check.

**Curves.** `violates_safety_floor` looks only at 75 and at the breakpoints
above it. For any t from 75 up, the breakpoint that decides at t is either at 75 or above, and then
its own temperature is a checkpoint, or below 75, and then 75 is: in both cases the same breakpoint
decides at the checkpoint and at t (`SameBreakpointBelow`). That the curve is sorted is not needed.

**Stored curves.** `SortDescending` gives each point its place: as many points
are ahead of it as its index says (`PlaceIsTaken`, by counting finite sets), so
the result is sorted (`SortSorts`), and a list that is sorted stays as it is
(`SortKeepsSorted`). What `put_curve` stores and sends is therefore a fixed point of `load`
(`Good`): sorted, checked in that order, not empty. The invariant says that rows nobody imported are
none or good and that what a handler carries is good (`Carried`); that rows which their PUT has yet to
send are what it carries, and that the daemon runs with what `load` returns once
nothing is to come and nothing was missed (`Followed`). That a send of an older curve counts as
missed unless the newest is still to come is what makes it inductive. Safety after a reload
needs no second look at the floor: `load` sorts what is sorted, and the curve is the one that was checked.

**Fan.** The invariants are inductive together: the window's age equals
`demanded` only because a pending decrease is always for the current `demand`,
and that only because a raise drops it. The proof has a lemma for the decision
(`ApplyKeepsWindow`), one for the write, one for `TickWithFloor`, and one per action.
`NoEarlyDecrease` then follows for a step: a drop happens only on a sustained
pending decrease, whose age is that of the demand.

**Live settings.** `LoopFollowsDatabase` speaks only of quiet states. The
strengthening says where the newest value is otherwise: carried by a handler,
on the channel, or in the loop (`NewestOnItsWay`), that nothing in flight is newer than the
database, and that a channel already seen is what the loop has. The
refinement maps `stored` to `db`, `applied` to `loop` and `excused` to
`lost # "no"`; each action is an abstract step or a stutter.

**RTC.** `AlarmAlwaysFollows` rests on `NextOccurrenceIsSoonest`: `CHOOSE` in
`next_occurrence` has a witness because a nonempty set of positive waits has a
least one (`LeastElement`), for any number of entries. `IInv` adds the type
invariant; `Good` is carried through every command and every torn reading.
`DarkWakesOnTime` needs more than a wake of the schedule in the chip: it needs the
soonest one (`SoonestInChip`). A tick keeps that, because it takes one minute off
every wait unless a wake is due just then (`TickKeepsSoonest`); an alarm that
is due sets the flag, and of a set flag neither invariant nor property speaks.
`SleepNotRepeated` rests on the stamp: from an abort on, nothing but the next minute
or a restart takes it away (`StampKept`).

**Accounts.** `AdminRemains` is inductive only with `OnlyAfterSetup`: nobody
whose request could remove an admin exists before the claim. A delete or a
demotion that applies leaves another admin because its count is part of its
statement (`OtherAdmins`); statements on one row that do not write its role are
one lemma (`RowKept`). `ThrottleHolds` rests on `LockHeld`: who is between the
look at `locked_until` and the record of the outcome holds `auth_lock`, so no
other failure can lock the account in between. `RevokedIsRefused` rests on
`RevokedStale`: whoever is revoked holds only hashes that are not their
account's any more, and a hash written later is a new one, whichever account
gets the row id.

**Panel.** Preview and belief are inductive together with `ShownIsPublished`: a
screen that is remembered as shown was published too. A tick that does not draw
then finds all three already equal (`TickKeepsPicture`); every other action
forgets the belief or touches none of them (`SamePicture`). The type invariant
rests on the index staying inside the list of the configuration at hand: every
edit starts a fresh rotation, `Rotation::tick` turns it by the length of the list
(`AdvancedTurns`), and of a list without a known word nothing is indexed.

**Alerts.** `OneAttemptEach` is the refinement of `AlertPromise`. What is due is
counted from the tasks: a spawned task is one more member of the finite set
`To(s, u)` for each of its alerts and the URL in force (`SpawnAims`), a POST that ended one less
(`LeaveAims`). So a poll maps to `Observe`, the end of a POST to `Attempt`, an edit to
`Save` and later `Apply`, the test button to `Try`, a restart to `Renew`. The type
invariant is all it needs: that nothing is on without a URL. Nothing is fair in
either specification, so this is the whole of the refinement.

**IR remote.** What a request read back, and has still to save, is what the
register has, or a later request went astray (`ReadBack`).

**Readings.** Since a sample was taken, its interface's counter grew by no more
than what crossed (`SinceSample`); a counter that starts afresh is below it. Load is a
percentage because idle time, though it may run back, never grows by more than the
total: busy time does not run back (`BusyGrows`, `ShareIsPercentage`). `MdstatAsListed` is about every list of arrays: the printed lines are three for
each array (`ThreeLines`), the parser skips what is not a header and takes detail from
the two lines that follow one (`Faithful`), and so appends one entry for each array (`OneForEach`).

**Legacy files.** The parsers go through the lines with an accumulator, which
exists because each line's step takes a value of its type to another (`RecursionDefines`). `LastDecides` is the
induction over such a loop, stated once: of a field that some lines write and the others leave, the last
line that writes decides. Each field of each parser is a case of it, with another set of lines that write.

**Settings.** What the import saw when it looked still holds when it writes, or
the key is excused (`LookedTrue`), and a restore of a daemon that stays down
finds its own file where it put it (`QuietRestore`). `ImportKeepsLoad` is a step
property and follows from `LookedTrue`.

**HTTPS.** The daemon's own `tailscale cert` runs for the server's domain
(`OwnDomain`), and until it writes the files are as they are served
(`Untouched`).

### Only model-checked

* Liveness: `DemandIsMet`, the fairness part of `LiveRefinement`,
  `MonitorGoesOn`, `PanelGoesDark` and `BrowserCatchesUp`, which the prover does not reach.
* The violations: their counterexamples are what they show.

## What is not modelled

* **Pure I/O and formatting**: `logs`, `oled/render.rs`, `oled/framebuffer.rs`,
  `oled/splash.rs`, templates and pages, `cli.rs`, and of `sysinfo` what is one
  read without state (memory, disks, uptime, `lsblk`, `smartctl`). They hold
  nothing that anything else depends on.
* **What crates do**: argon2, the cookie store, ACME, SQLite's journal and
  `sqlx`'s migrations appear by what the code relies on. That a power cut may
  lose the last commits under `synchronous=NORMAL` is SQLite's promise, not this code's.
* **Board detection**: which features a board has is fixed before a model starts.
* **The bus lock**: it makes one transfer atomic, which the models take for
  granted; `IrRemote` has it as the one listener.
* **Two admin commands at once**, and curve rows under backup and restore: a
  restore replaces them with everything else.

## Plan

In this order:

1. What is proved of the fan loop's window as a refinement of an abstract fan that
   knows only what is asked for and since when.
2. The hazards that no property covers yet: a password change in flight while an
   admin resets the account, and a bus error at start that leaves the no-op fan.
