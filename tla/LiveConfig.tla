----------------------------- MODULE LiveConfig -----------------------------
(***************************************************************************)
(* The path of one live setting (a fan curve, units, RTC schedule, OLED or *)
(* webhook configuration) from a PUT handler to the control loop: every    *)
(* handler commits to the database, and only then, as a second step of its *)
(* own, puts the value on the setting's watch channel; the loop takes what *)
(* the channel holds when its select! gets there.  Handlers are tasks of a *)
(* multi-threaded runtime: they interleave, die with the process, and are  *)
(* dropped at an await when their client hangs up.                         *)
(*                                                                         *)
(* Values are numbered in the order the database committed them; 0 is the  *)
(* built-in value of an empty database.                                    *)
(***************************************************************************)
EXTENDS Naturals

CONSTANTS
  Handlers,   \* the PUT requests that may be in flight together
  MaxCommits, \* bound: commits in a behaviour
  Idle        \* a handler that is not between its two steps

ASSUME CommitAssumption == MaxCommits \in Nat
ASSUME IdleAssumption == Idle \notin 0..MaxCommits

VARIABLES
  db,       \* the number of the newest committed value
  carrying, \* carrying[h]: the value h has committed and not yet sent
  chan,     \* the value on the watch channel
  unseen,   \* the channel changed since the loop last looked
  loop,     \* the control loop's own copy
  up,       \* the daemon runs
  lost      \* history: the first event since which loop need not follow db

vars == <<db, carrying, chan, unseen, loop, up, lost>>

Init ==
  /\ db = 0
  /\ carrying = [h \in Handlers |-> Idle]
  /\ chan = 0
  /\ unseen = FALSE
  /\ loop = 0
  /\ up = FALSE
  /\ lost = "no"

LoseTo(event) == lost' = IF lost = "no" THEN event ELSE lost

(* The save of a validated request.  One that fails answers 500 and leaves *)
(* everything alone, and the client may just as well not have asked.       *)
Save(h) ==
  /\ up /\ carrying[h] = Idle
  /\ db < MaxCommits
  /\ db' = db + 1
  /\ carrying' = [carrying EXCEPT ![h] = db + 1]
  /\ UNCHANGED <<chan, unseen, loop, up, lost>>

(* A save whose error is dropped: the channel gets what no row holds. *)
SendUnsaved(h) ==
  /\ up /\ carrying[h] = Idle
  /\ db < MaxCommits
  /\ chan' = db + 1
  /\ unseen' = TRUE
  /\ UNCHANGED <<db, carrying, loop, up, lost>>

mut_Commit_ignores_error(h) == Save(h) \/ SendUnsaved(h)
Commit(h) == Save(h)

(* send_replace.  A value older than the one on the channel makes the loop *)
(* fall behind the database; sending the newest one brings it back.        *)
Replace(h, kept, mark) ==
  /\ carrying[h] # Idle
  /\ chan' = carrying[h]
  /\ unseen' = mark
  /\ carrying' = [carrying EXCEPT ![h] = kept]
  /\ \/ carrying[h] < chan /\ LoseTo("reordered")
     \/ carrying[h] >= chan /\ carrying[h] = db /\ lost' = "no"
     \/ carrying[h] >= chan /\ carrying[h] # db /\ UNCHANGED lost
  /\ UNCHANGED <<db, loop, up>>

mut_Send_keeps_replaced(h) == Replace(h, chan, TRUE)
mut_Send_unmarked(h) == Replace(h, Idle, unseen)
Send(h) == Replace(h, Idle, TRUE)

(* A client hangs up while its handler awaits the commit, which the        *)
(* database's own thread completes: the handler is dropped, not resumed.   *)
HangUp(h) ==
  /\ carrying[h] # Idle
  /\ carrying' = [carrying EXCEPT ![h] = Idle]
  /\ LoseTo("hangup")
  /\ UNCHANGED <<db, chan, unseen, loop, up>>

(* changed() marks the value seen and the branch copies it. *)
mut_Receive_forgets ==
  /\ up /\ unseen
  /\ unseen' = FALSE
  /\ UNCHANGED <<db, carrying, chan, loop, up, lost>>

Receive ==
  /\ up /\ unseen
  /\ unseen' = FALSE
  /\ loop' = chan
  /\ UNCHANGED <<db, carrying, chan, up, lost>>

(* `admin import-legacy-config` writes the same row from another process.  *)
ImportLegacy ==
  /\ db < MaxCommits
  /\ db' = db + 1
  /\ LoseTo("import")
  /\ UNCHANGED <<carrying, chan, unseen, loop, up>>

(* The process ends, with every handler in it. *)
Stop ==
  /\ up
  /\ up' = FALSE
  /\ carrying' = [h \in Handlers |-> Idle]
  /\ unseen' = FALSE
  /\ UNCHANGED <<db, chan, loop, lost>>

(* service::run loads the value, or falls back to the built-in one when    *)
(* the query fails, and creates the channel with it.                       *)
StartWith(value) ==
  /\ ~up
  /\ up' = TRUE
  /\ loop' = value
  /\ chan' = value
  /\ unseen' = FALSE
  /\ lost' = IF value = db THEN "no" ELSE "load"
  /\ UNCHANGED <<db, carrying>>

Start == StartWith(db) \/ StartWith(0)

Next ==
  \/ \E h \in Handlers : Commit(h) \/ Send(h) \/ HangUp(h)
  \/ Receive \/ ImportLegacy \/ Stop \/ Start

Spec == Init /\ [][Next]_vars

(* A handler that has committed is resumed, and the loop gets to a channel *)
(* that changed.  Nobody has to send requests, and nothing restarts a      *)
(* daemon that was stopped.                                                *)
FairSpec ==
  /\ Spec
  /\ \A h \in Handlers : WF_vars(Send(h))
  /\ WF_vars(Receive)

-----------------------------------------------------------------------------
(* Every variable has its type: nothing but committed values travels.      *)
TypeOK ==
  /\ db \in 0..MaxCommits
  /\ carrying \in [Handlers -> (1..MaxCommits) \cup {Idle}]
  /\ chan \in 0..MaxCommits
  /\ unseen \in BOOLEAN
  /\ loop \in 0..MaxCommits
  /\ up \in BOOLEAN
  /\ lost \in {"no", "reordered", "hangup", "import", "load"}

Quiet == up /\ ~unseen /\ \A h \in Handlers : carrying[h] = Idle

(* The loop works only with what the database holds already: a restart     *)
(* that can read the row never takes an applied edit back.                 *)
RestartNeverGoesBack == [][~up /\ up' /\ lost' = "no" => loop' >= loop]_vars

(* With nothing in flight the loop works with what the database holds,     *)
(* unless a client hung up, an import went past the daemon, a load failed  *)
(* or two handlers sent in another order than they committed.              *)
LoopFollowsDatabase == Quiet /\ lost = "no" => loop = db

(* curve_store.rs: the database is the live source of truth.  With no      *)
(* client gone, no import and no failed load, two PUTs must not leave the  *)
(* loop with another value than the database.                              *)
DatabaseIsLiveTruth == Quiet /\ lost \in {"no", "reordered"} => loop = db

(* The setting implements the abstract live setting: no older value comes  *)
(* back, the newest one arrives, and only the events named by lost excuse. *)
Live == INSTANCE LiveSetting
          WITH MaxStored <- MaxCommits, stored <- db, applied <- loop,
               running <- up, excused <- (lost # "no")
LiveRefinement == Live!LSpec
=============================================================================
