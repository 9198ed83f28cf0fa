------------------------- MODULE LiveConfig_proofs -------------------------
(***************************************************************************)
(* The live-configuration path for every set of handlers and every number  *)
(* of commits: while nothing was lost, the newest value is on the channel  *)
(* or with a handler about to send it, which is why a quiet system has it  *)
(* in its loop and why every step is one of the abstract LiveSetting.      *)
(***************************************************************************)
EXTENDS LiveConfig, TLAPS

Events == {"reordered", "hangup", "import", "load"}

(* What is on its way was committed first. *)
Committed ==
  /\ chan <= db /\ loop <= db
  /\ \A h \in Handlers : carrying[h] # Idle => carrying[h] <= db

(* A channel the loop has seen is what the loop works with. *)
SeenIsApplied == up /\ ~unseen => loop = chan

(* While nothing was lost, the channel does not lag behind the loop, and   *)
(* the newest value is on it or will be.                                   *)
NewestOnItsWay ==
  up /\ lost = "no" =>
    /\ loop <= chan
    /\ chan = db \/ \E h \in Handlers : carrying[h] = db

IInv == TypeOK /\ Committed /\ SeenIsApplied /\ NewestOnItsWay

-----------------------------------------------------------------------------
(* A handler carries a committed number or is idle, never both.            *)
LEMMA Idleness ==
  ASSUME TypeOK, NEW h \in Handlers, carrying[h] # Idle
  PROVE  carrying[h] \in 1..MaxCommits
BY DEF TypeOK

(* The events that lose the loop are of their type.                        *)
LEMMA Losing ==
  ASSUME TypeOK, NEW event \in Events, LoseTo(event)
  PROVE  lost' \in Events
BY DEF TypeOK, LoseTo, Events

(* The initial states satisfy the inductive invariant.                     *)
LEMMA InitEstablishes == Init => IInv
<1> SUFFICES ASSUME Init PROVE IInv
  OBVIOUS
<1>1. 0 \in 0..MaxCommits
  BY CommitAssumption
<1>2. \A h \in Handlers : carrying[h] = Idle
  BY DEF Init
<1>3. carrying \in [Handlers -> (1..MaxCommits) \cup {Idle}]
  BY DEF Init
<1>4. TypeOK
  BY <1>1, <1>3 DEF Init, TypeOK
<1>5. Committed /\ SeenIsApplied /\ NewestOnItsWay
  BY <1>2 DEF Init, Committed, SeenIsApplied, NewestOnItsWay
<1> QED
  BY <1>4, <1>5 DEF IInv

(* The commit of a PUT keeps the inductive invariant.                      *)
LEMMA CommitKeeps ==
  ASSUME IInv, NEW h \in Handlers, Commit(h)
  PROVE  IInv'
<1> USE CommitAssumption, IdleAssumption DEF IInv, TypeOK
<1>1. /\ db' = db + 1 /\ db' \in 1..MaxCommits
      /\ carrying' = [carrying EXCEPT ![h] = db']
      /\ UNCHANGED <<chan, unseen, loop, up, lost>>
  BY DEF Commit, Save
<1>2. TypeOK'
  BY <1>1
<1>3. Committed'
  BY <1>1, Idleness DEF Committed
<1>4. SeenIsApplied' /\ NewestOnItsWay'
  BY <1>1 DEF SeenIsApplied, NewestOnItsWay
<1> QED
  BY <1>2, <1>3, <1>4

(* So does its send_replace, overtaken or not.                             *)
LEMMA SendKeeps ==
  ASSUME IInv, NEW h \in Handlers, Send(h)
  PROVE  IInv'
<1> USE CommitAssumption, IdleAssumption DEF IInv
<1>1. /\ chan' = carrying[h] /\ chan' \in 1..MaxCommits /\ chan' <= db
      /\ unseen' = TRUE
      /\ carrying' = [carrying EXCEPT ![h] = Idle]
      /\ UNCHANGED <<db, loop, up>>
  BY Idleness DEF Send, Replace, Committed
<1>2. \/ lost' \in Events
      \/ carrying[h] = db /\ lost' = "no"
      \/ carrying[h] >= chan /\ carrying[h] # db /\ lost' = lost
  BY Losing DEF Send, Replace, Events
<1>3. TypeOK'
  BY <1>1, <1>2 DEF TypeOK, Events
<1>4. Committed' /\ SeenIsApplied'
  BY <1>1 DEF Committed, SeenIsApplied, TypeOK
<1>5. NewestOnItsWay'
  <2>1. CASE lost' \in Events
    BY <2>1 DEF NewestOnItsWay, Events
  <2>2. CASE carrying[h] = db /\ lost' = "no"
    BY <1>1, <2>2 DEF NewestOnItsWay, Committed
  <2>3. CASE carrying[h] >= chan /\ carrying[h] # db /\ lost' = lost
    <3>1. SUFFICES ASSUME up, lost = "no"
                   PROVE  loop <= chan' /\ \E g \in Handlers : carrying'[g] = db
      BY <1>1, <2>3 DEF NewestOnItsWay
    <3>2. loop <= chan /\ (chan = db \/ \E g \in Handlers : carrying[g] = db)
      BY <3>1 DEF NewestOnItsWay
    <3>3. loop <= chan'
      BY <1>1, <2>3, <3>2 DEF TypeOK
    <3>4. chan # db
      BY <1>1, <2>3 DEF TypeOK
    <3>5. PICK g \in Handlers : carrying[g] = db
      BY <3>2, <3>4
    <3>6. carrying'[g] = db
      BY <1>1, <2>3, <3>5 DEF TypeOK
    <3> QED
      BY <3>3, <3>6
  <2> QED
    BY <1>2, <2>1, <2>2, <2>3
<1> QED
  BY <1>3, <1>4, <1>5

(* So does a client that hangs up between the two.                         *)
LEMMA HangUpKeeps ==
  ASSUME IInv, NEW h \in Handlers, HangUp(h)
  PROVE  IInv'
<1>1. lost' \in Events
  BY Losing DEF HangUp, Events, IInv
<1> QED
  BY <1>1 DEF HangUp, Events, IInv, TypeOK, Committed, SeenIsApplied, NewestOnItsWay

(* So does the loop's receive.                                             *)
LEMMA ReceiveKeeps == IInv /\ Receive => IInv'
<1> SUFFICES ASSUME IInv, Receive PROVE IInv'
  OBVIOUS
<1>1. loop' = chan /\ UNCHANGED <<db, carrying, chan, up, lost>> /\ unseen' = FALSE
  BY DEF Receive
<1>2. TypeOK' /\ Committed'
  BY <1>1 DEF IInv, TypeOK, Committed
<1>3. SeenIsApplied' /\ NewestOnItsWay'
  <2>1. chan \in Nat
    BY DEF IInv, TypeOK
  <2> QED
    BY <1>1, <2>1 DEF IInv, SeenIsApplied, NewestOnItsWay
<1> QED
  BY <1>2, <1>3 DEF IInv

(* So does an import by another process.                                   *)
LEMMA ImportKeeps == IInv /\ ImportLegacy => IInv'
<1> SUFFICES ASSUME IInv, ImportLegacy PROVE IInv'
  OBVIOUS
<1>1. lost' \in Events
  BY Losing DEF ImportLegacy, Events, IInv
<1>2. \A h \in Handlers : carrying[h] # Idle => carrying[h] \in Nat
  BY Idleness DEF IInv
<1>3. /\ db' = db + 1 /\ db' \in 0..MaxCommits
      /\ UNCHANGED <<carrying, chan, unseen, loop, up>>
  BY CommitAssumption DEF ImportLegacy, IInv, TypeOK
<1>4. TypeOK'
  BY <1>1, <1>3 DEF Events, IInv, TypeOK
<1>5. Committed'
  BY <1>2, <1>3 DEF IInv, TypeOK, Committed
<1>6. SeenIsApplied' /\ NewestOnItsWay'
  BY <1>1, <1>3 DEF Events, IInv, SeenIsApplied, NewestOnItsWay
<1> QED
  BY <1>4, <1>5, <1>6 DEF IInv

(* So does a start, whether or not it can read the row.                    *)
LEMMA StartKeeps == IInv /\ Start => IInv'
<1> SUFFICES ASSUME IInv, NEW value \in {0, db}, StartWith(value) PROVE IInv'
  BY DEF Start
<1>1. value \in 0..MaxCommits /\ value <= db
  BY CommitAssumption DEF IInv, TypeOK
<1>2. /\ loop' = value /\ chan' = value /\ up' /\ UNCHANGED <<db, carrying>>
      /\ unseen' = FALSE
      /\ lost' = "no" => value = db
      /\ lost' \in {"no", "load"}
  BY DEF StartWith
<1>3. TypeOK' /\ Committed'
  BY <1>1, <1>2 DEF IInv, TypeOK, Committed, StartWith
<1>4. SeenIsApplied' /\ NewestOnItsWay'
  BY <1>1, <1>2 DEF SeenIsApplied, NewestOnItsWay
<1> QED
  BY <1>3, <1>4 DEF IInv

(* So does a stop, which drops every handler.                              *)
LEMMA StopKeeps == IInv /\ Stop => IInv'
<1> SUFFICES ASSUME IInv, Stop PROVE IInv'
  OBVIOUS
<1>1. carrying' = [h \in Handlers |-> Idle] /\ UNCHANGED <<db, chan, loop, lost>>
  BY DEF Stop
<1>2. TypeOK' /\ Committed'
  BY <1>1 DEF Stop, IInv, TypeOK, Committed
<1>3. SeenIsApplied' /\ NewestOnItsWay'
  BY DEF Stop, SeenIsApplied, NewestOnItsWay
<1> QED
  BY <1>2, <1>3 DEF IInv

(* So does a stutter.                                                      *)
LEMMA StutterKeeps == IInv /\ UNCHANGED vars => IInv'
BY DEF vars, IInv, TypeOK, Committed, SeenIsApplied, NewestOnItsWay

(* The inductive invariant holds in every reachable state of the live      *)
(* path.                                                                   *)
THEOREM Invariance == Spec => []IInv
<1>1. IInv /\ [Next]_vars => IInv'
  BY CommitKeeps, SendKeeps, HangUpKeeps, ReceiveKeeps, ImportKeeps, StartKeeps,
     StopKeeps, StutterKeeps DEF Next
<1> QED
  BY InitEstablishes, <1>1, PTL DEF Spec

(* Every variable of the live path has its type, for any handlers and any  *)
(* number of commits.                                                      *)
THEOREM TypeCorrect == Spec => []TypeOK
<1>1. IInv => TypeOK
  BY DEF IInv
<1> QED
  BY <1>1, Invariance, PTL

(* Once the handlers are done and the channel is read, the loop works with *)
(* what the database holds, unless one of the named events came between.   *)
THEOREM QuietLoopFollows == Spec => []LoopFollowsDatabase
<1>1. IInv => LoopFollowsDatabase
  <2> SUFFICES ASSUME IInv, Quiet, lost = "no" PROVE loop = db
    BY DEF LoopFollowsDatabase
  <2>1. \A h \in Handlers : carrying[h] # db
    BY IdleAssumption DEF Quiet, IInv, TypeOK
  <2> QED
    BY <2>1 DEF Quiet, IInv, SeenIsApplied, NewestOnItsWay
<1> QED
  BY <1>1, Invariance, PTL

(* A restart that reads the row never takes an applied edit back. *)
THEOREM RestartKeepsEdits == Spec => RestartNeverGoesBack
<1>1. IInv /\ [Next]_vars => [~up /\ up' /\ lost' = "no" => loop' >= loop]_vars
  <2> SUFFICES ASSUME IInv, Next, ~up, up', lost' = "no" PROVE loop' >= loop
    OBVIOUS
  <2>1. Start
    BY DEF Next, Commit, Save, Send, Replace, HangUp, Receive, ImportLegacy, Stop
  <2>2. loop' = db
    BY <2>1 DEF Start, StartWith
  <2> QED
    BY <2>2 DEF IInv, TypeOK, Committed
<1> QED
  BY <1>1, Invariance, PTL DEF Spec, RestartNeverGoesBack

-----------------------------------------------------------------------------
(* Every step is a step of LiveSetting, or leaves its variables alone. *)
LEMMA SendIsAbstract ==
  ASSUME IInv, NEW h \in Handlers, Send(h)
  PROVE  [Live!LNext]_Live!lvars
<1>1. UNCHANGED <<db, loop, up>>
  BY DEF Send, Replace
<1>2. CASE LoseTo("reordered")
  BY <1>1, <1>2
  DEF IInv, TypeOK, LoseTo, Live!LNext, Live!Incident, Live!lvars
<1>3. CASE lost' = "no"
  BY <1>1, <1>3 DEF Live!LNext, Live!Heal
<1>4. CASE UNCHANGED lost
  BY <1>1, <1>4 DEF Live!lvars
<1> QED
  BY <1>2, <1>3, <1>4 DEF Send, Replace

(* The loop's receive is an abstract step: it advances, or wanders when    *)
(* excused.                                                                *)
LEMMA ReceiveIsAbstract == IInv /\ Receive => [Live!LNext]_Live!lvars
<1> SUFFICES ASSUME IInv, Receive PROVE Live!LNext
  OBVIOUS
<1>1. loop' = chan /\ up /\ UNCHANGED <<db, up, lost>>
  BY DEF Receive
<1>2. CASE lost = "no"
  <2>1. loop' \in loop..db
    BY <1>1, <1>2 DEF IInv, TypeOK, Committed, NewestOnItsWay
  <2> QED
    BY <1>1, <1>2, <2>1 DEF Live!LNext, Live!Advance
<1>3. CASE lost # "no"
  <2>1. loop' \in 0..db
    BY <1>1 DEF IInv, TypeOK, Committed
  <2> QED
    BY <1>1, <1>3, <2>1 DEF Live!LNext, Live!Wander
<1> QED
  BY <1>2, <1>3

(* An event that loses the loop is an abstract incident.                   *)
LEMMA EventIsAbstract ==
  ASSUME IInv, NEW event \in Events, LoseTo(event), UNCHANGED <<loop, up>>,
         db' \in {db, db + 1}, db' <= MaxCommits
  PROVE  Live!LNext
<1>1. lost' # "no"
  BY Losing DEF IInv, Events
<1> QED
  BY <1>1 DEF Live!LNext, Live!Incident

(* Every step of the live path is an abstract step or a stutter.           *)
LEMMA StepIsAbstract == IInv /\ [Next]_vars => [Live!LNext]_Live!lvars
<1> SUFFICES ASSUME IInv, [Next]_vars PROVE [Live!LNext]_Live!lvars
  OBVIOUS
<1>1. ASSUME NEW h \in Handlers, Commit(h) PROVE Live!LNext
  BY <1>1 DEF Commit, Save, Live!LNext, Live!Store
<1>2. ASSUME NEW h \in Handlers, HangUp(h) PROVE Live!LNext
  <2>1. db' \in {db, db + 1} /\ db' <= MaxCommits
    BY <1>2, CommitAssumption DEF HangUp, IInv, TypeOK
  <2> QED
    BY <1>2, <2>1, EventIsAbstract DEF HangUp, Events
<1>3. CASE ImportLegacy
  <2>1. db' \in {db, db + 1} /\ db' <= MaxCommits
    BY <1>3, CommitAssumption DEF ImportLegacy, IInv, TypeOK
  <2> QED
    BY <1>3, <2>1, EventIsAbstract DEF ImportLegacy, Events
<1>4. CASE Stop
  BY <1>4 DEF Stop, Live!LNext, Live!StopDaemon
<1>5. CASE Start
  BY <1>5 DEF Start, StartWith, Live!LNext, Live!StartDaemon
<1>6. CASE UNCHANGED vars
  BY <1>6 DEF vars, Live!lvars
<1> QED
  BY <1>1, <1>2, <1>3, <1>4, <1>5, <1>6, SendIsAbstract, ReceiveIsAbstract DEF Next

(* The safety half of LiveRefinement: the live path implements the         *)
(* abstract live setting, for every set of handlers and number of commits. *)
THEOREM Refinement == Spec => Live!LInit /\ [][Live!LNext]_Live!lvars
<1>1. Init => Live!LInit
  BY DEF Init, Live!LInit
<1> QED
  BY <1>1, StepIsAbstract, Invariance, PTL DEF Spec
=============================================================================
