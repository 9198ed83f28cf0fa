---------------------------- MODULE LiveSetting ----------------------------
(***************************************************************************)
(* What "edits apply live" promises of one setting, whoever implements it: *)
(* values are stored one after the other (numbered as they are), and a     *)
(* running daemon applies stored values, never going back to an older one  *)
(* and always arriving at the newest.  An incident excuses it from both    *)
(* until it is healed; a start reads the store.                            *)
(***************************************************************************)
EXTENDS Naturals

CONSTANT MaxStored  \* bound: values stored in a behaviour

VARIABLES
  stored,   \* the number of the newest stored value; 0 is the built-in one
  applied,  \* the number of the value the daemon works with
  running,  \* there is a daemon
  excused   \* an incident has not been healed yet

lvars == <<stored, applied, running, excused>>

LInit ==
  /\ stored = 0
  /\ applied = 0
  /\ running = FALSE
  /\ excused = FALSE

Store ==
  /\ stored < MaxStored
  /\ stored' = stored + 1
  /\ UNCHANGED <<applied, running, excused>>

Advance ==
  /\ running /\ ~excused
  /\ applied' \in applied..stored
  /\ UNCHANGED <<stored, running, excused>>

Wander ==
  /\ running /\ excused
  /\ applied' \in 0..stored
  /\ UNCHANGED <<stored, running, excused>>

Incident ==
  /\ excused' = TRUE
  /\ stored' \in {stored, stored + 1} /\ stored' <= MaxStored
  /\ UNCHANGED <<applied, running>>

Heal ==
  /\ excused' = FALSE
  /\ UNCHANGED <<stored, applied, running>>

StartDaemon ==
  /\ ~running
  /\ running' = TRUE
  /\ \/ applied' = stored /\ excused' = FALSE
     \/ applied' = 0 /\ excused' = TRUE
  /\ UNCHANGED stored

StopDaemon ==
  /\ running
  /\ running' = FALSE
  /\ UNCHANGED <<stored, applied, excused>>

LNext == Store \/ Advance \/ Wander \/ Incident \/ Heal \/ StartDaemon \/ StopDaemon

CatchUp == running /\ ~excused /\ applied < stored /\ Advance /\ applied' = stored

LSpec == LInit /\ [][LNext]_lvars /\ WF_lvars(CatchUp)
=============================================================================
