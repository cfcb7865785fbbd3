----------------------- MODULE ContextSwitcher_proofs -----------------------
(***************************************************************************)
(* Proofs about the context switcher for any number of tasks and contexts. *)
(*                                                                         *)
(* The invariants the runs check are not inductive: that the session is on *)
(* the home scope at rest depends on what every program point of the       *)
(* running switch has done to the scope, and on what the task remembers.   *)
(* Inv adds that.  The last part carries it on to the screen.              *)
(***************************************************************************)
EXTENDS ContextNotices, SequenceTheorems, TLAPS

(* Points at which the session handle exists. *)
Handled == Critical \ {"session", "fail", "publish"}

(* Points at which the active scope is the target's. *)
Moved == {"persist", "reinsert", "reflip", "publish"}

(* Points at which the task has a resolved target. *)
Aimed == (Critical \cup {"gate", "noop", "begin", "history"})

(* What the running switch has done to the session so far. *)
SwitchProgress ==
  \A t \in Task :
    /\ pc[t] \in Aimed => target[t] \in Scope
    /\ pc[t] \in Critical \ Moved => active = HomeScope
    /\ pc[t] \in Moved => active = target[t]
    /\ pc[t] \in Handled => previous[t] = HomeScope
    /\ pc[t] \in Moved \cup {"flip"} => target[t] \in tokens
    /\ pc[t] \in Handled => previous[t] \in tokens

(* How the epochs of snapshots, attempts and history are ordered. *)
EpochOrder ==
  /\ Standing.epoch <= epoch
  /\ ~IsIdle => Standing.epoch < epoch
  /\ HistoryOlder
  /\ \A t \in Task :
       pc[t] = "history" /\ preSwitch[t] # NoSnapshot
         => preSwitch[t].epoch < Standing.epoch

Inv ==
  /\ TypeOK
  /\ SingleSwitch
  /\ SessionFollowsMachine
  /\ SwitchProgress
  /\ ActiveHasToken
  /\ EpochOrder

-----------------------------------------------------------------------------
(* What the two shapes of the machine's state are made of. *)
LEMMA MachineShapes ==
  /\ \A s \in MaybeSnapshot :
       /\ Idle(s) \in MachineState
       /\ Idle(s).mode = "Idle"
       /\ Idle(s).current = s
  /\ \A x \in Scope, e \in Nat, s \in MaybeSnapshot :
       /\ Switching(x, e, s) \in MachineState
       /\ Switching(x, e, s).mode = "Switching"
       /\ Switching(x, e, s).prior = s
       /\ Switching(x, e, s).target = x
       /\ Switching(x, e, s).started = e
  BY DEF Idle, Switching, MachineState

LEMMA StandingType ==
  ASSUME machine \in MachineState
  PROVE  /\ Standing \in MaybeSnapshot
         /\ Standing.epoch \in Nat
         /\ ~IsIdle => machine.mode = "Switching" /\ Standing = machine.prior
         /\ IsIdle => Standing = machine.current
  BY DEF MachineState, Standing, IsIdle, MaybeSnapshot, Snapshot, NoSnapshot

LEMMA HomeScopeType ==
  ASSUME machine \in MachineState
  PROVE  HomeScope \in Scope
  BY StandingType, ScopeAssumption DEF HomeScope, MaybeSnapshot, Snapshot

(* The initial states satisfy the invariant. *)
LEMMA InitInv == Init => Inv
<1> SUFFICES ASSUME Init PROVE Inv
  OBVIOUS
<1> USE DEF Init
<1>1. NoSnapshot \in MaybeSnapshot
  BY DEF MaybeSnapshot
<1>2. machine \in MachineState /\ IsIdle /\ Standing = NoSnapshot
  BY <1>1, MachineShapes DEF IsIdle, Standing
<1>3. TypeOK
  BY <1>1, <1>2, ScopeAssumption
  DEF TypeOK, Point, Outcome, Unfinished, MaybeSnapshot
<1>4. SingleSwitch
  BY <1>2 DEF SingleSwitch, Critical
<1>5. SessionFollowsMachine
  BY <1>2 DEF SessionFollowsMachine, HomeScope
<1>6. SwitchProgress /\ ActiveHasToken
  BY DEF SwitchProgress, ActiveHasToken, Aimed, Critical, Moved, Handled
<1>7. EpochOrder
  BY <1>2 DEF EpochOrder, HistoryOlder, NoSnapshot
<1> QED
  BY <1>3, <1>4, <1>5, <1>6, <1>7 DEF Inv

-----------------------------------------------------------------------------
(* A step that leaves the machine, the epoch, the scope and the history    *)
(* alone, and takes its task neither into nor out of the running switch.   *)
LEMMA OutsideStep ==
  ASSUME Inv, TypeOK', NEW t \in Task, NEW p \in Point,
         UNCHANGED <<epoch, machine, history, active, tokens,
                     attempt, previous, preSwitch>>,
         pc' = [pc EXCEPT ![t] = p],
         pc[t] \notin Critical, p \notin Critical \cup {"history"},
         \A u \in Task : u # t => target'[u] = target[u],
         p \in Aimed => target'[t] \in Scope
  PROVE  Inv'
<1> USE DEF Inv
<1>1. Standing' = Standing /\ IsIdle' = IsIdle /\ HomeScope' = HomeScope
  BY DEF Standing, IsIdle, HomeScope
<1>2. \A u \in Task : u # t => pc'[u] = pc[u] /\ target'[u] = target[u]
  BY DEF TypeOK
<1>3. pc'[t] = p
  BY DEF TypeOK
<1>4. SingleSwitch'
  <2>1. \A u \in Task : pc'[u] \in Critical => u # t /\ pc[u] \in Critical
    BY <1>2, <1>3
  <2>2. \A u \in Task : pc[u] \in Critical => pc'[u] \in Critical
    BY <1>2
  <2> QED
    BY <1>1, <1>2, <2>1, <2>2 DEF SingleSwitch
<1>5. SessionFollowsMachine' /\ ActiveHasToken'
  BY <1>1 DEF SessionFollowsMachine, ActiveHasToken
<1>6. SwitchProgress'
  BY <1>1, <1>2, <1>3 DEF SwitchProgress, Handled, Moved, Critical
<1>7. EpochOrder'
  BY <1>1, <1>2, <1>3 DEF EpochOrder, HistoryOlder
<1> QED
  BY <1>4, <1>5, <1>6, <1>7

(* A step of the running switch that leaves the shared state alone. *)
LEMMA InsideStep ==
  ASSUME Inv, TypeOK', NEW t \in Task, NEW p \in Critical, NEW q \in Critical,
         UNCHANGED <<epoch, machine, history, active, attempt, target, preSwitch>>,
         pc[t] = q,
         pc' = [pc EXCEPT ![t] = p],
         \A u \in Task : u # t => previous'[u] = previous[u],
         tokens \subseteq tokens',
         p \notin Moved => active = HomeScope,
         p \in Moved => active = target[t],
         p \in Handled => previous'[t] = HomeScope /\ previous'[t] \in tokens',
         p \in Moved \cup {"flip"} => target[t] \in tokens'
  PROVE  Inv'
<1> USE DEF Inv
<1>1. Standing' = Standing /\ IsIdle' = IsIdle /\ HomeScope' = HomeScope
  BY DEF Standing, IsIdle, HomeScope
<1>2. \A u \in Task : u # t => pc'[u] = pc[u]
  BY DEF TypeOK
<1>3. pc'[t] = p /\ t \in Task
  BY DEF TypeOK
<1>4. SingleSwitch'
  BY <1>1, <1>2, <1>3 DEF SingleSwitch
<1>5. SessionFollowsMachine' /\ ActiveHasToken'
  BY <1>1 DEF SessionFollowsMachine, ActiveHasToken
<1>6. SwitchProgress'
  <2> SUFFICES ASSUME NEW u \in Task
               PROVE  /\ pc'[u] \in Aimed => target'[u] \in Scope
                      /\ pc'[u] \in Critical \ Moved => active' = HomeScope'
                      /\ pc'[u] \in Moved => active' = target'[u]
                      /\ pc'[u] \in Handled => previous'[u] = HomeScope'
                      /\ pc'[u] \in Moved \cup {"flip"} => target'[u] \in tokens'
                      /\ pc'[u] \in Handled => previous'[u] \in tokens'
    BY DEF SwitchProgress
  <2>1. CASE u = t
    BY <1>1, <1>3, <2>1 DEF SwitchProgress, Aimed
  <2>2. CASE u # t
    BY <1>1, <1>2, <2>2 DEF SwitchProgress
  <2> QED
    BY <2>1, <2>2
<1>7. EpochOrder'
  BY <1>1, <1>2, <1>3 DEF EpochOrder, HistoryOlder, Critical
<1> QED
  BY <1>4, <1>5, <1>6, <1>7

-----------------------------------------------------------------------------
(* Every step keeps the state well typed. *)
LEMMA StepType == Inv /\ [Next]_vars => TypeOK'
<1> SUFFICES ASSUME Inv, [Next]_vars PROVE TypeOK'
  OBVIOUS
<1> USE DEF Inv
<1>0. epoch + 1 \in Nat /\ NoSnapshot \in MaybeSnapshot /\ Standing \in MaybeSnapshot
  BY StandingType DEF TypeOK, MaybeSnapshot
<1>1. CASE UNCHANGED vars
  BY <1>1 DEF TypeOK, vars
<1>2. CASE Authenticate
  BY <1>2, ScopeAssumption DEF Authenticate, taskVars, TypeOK
<1>3. ASSUME NEW t \in Task, Start(t)
      PROVE  TypeOK'
  <2>1. CASE Switch(t)
    BY <2>1 DEF Switch, Goto, sharedVars, TypeOK, Point
  <2>2. CASE SwitchBack(t)
    BY <2>2 DEF SwitchBack, Goto, sharedVars, TypeOK, Point, MaybeSnapshot, Snapshot
  <2> QED
    BY <1>3, <2>1, <2>2 DEF Start
<1>4. ASSUME NEW t \in Task, Run(t)
      PROVE  TypeOK'
  <2>1a. CASE Resolve(t)
    BY <2>1a DEF Resolve, Goto, sharedVars, TypeOK, Point
  <2>1b. CASE EpochGate(t)
    BY <2>1b DEF EpochGate, Goto, sharedVars, TypeOK, Point
  <2>1c. CASE Reject(t)
    BY <2>1c DEF Reject, Return, Goto, Err, Outcome, sharedVars, TypeOK, Point
  <2>2. CASE SameTarget(t)
    <3>1. IsIdle => Ok(machine.current) \in Outcome
      BY StandingType, <1>0
      DEF Ok, Outcome, TypeOK, MaybeSnapshot, Snapshot, NoSnapshot
    <3> QED
      BY <2>2, <3>1 DEF SameTarget, AlreadyThere, Return, Goto, sharedVars, TypeOK, Point
  <2>3. CASE TryBegin(t)
    <3>1. CASE IsIdle
      <4>1. machine.current \in MaybeSnapshot /\ target[t] \in Scope
        BY <2>3, <3>1, StandingType
        DEF TypeOK, SwitchProgress, TryBegin, Goto, Aimed
      <4>2. machine' \in MachineState
        BY <2>3, <3>1, <4>1, <1>0, MachineShapes DEF TryBegin
      <4> QED
        BY <2>3, <3>1, <1>0, <4>2 DEF TryBegin, Goto, TypeOK, Point, Critical
    <3>2. CASE ~IsIdle
      BY <2>3, <3>2 DEF TryBegin, Goto, TypeOK, Point
    <3> QED
      BY <3>1, <3>2
  <2>4. CASE SessionBegin(t) \/ Rescope(t) \/ RefreshCatalog(t) \/ Persist(t)
    BY <2>4 DEF SessionBegin, Rescope, RefreshCatalog, Persist, Goto, sharedVars,
                TypeOK, Point, Critical
  <2>5. CASE InsertToken(t) \/ FlipScope(t)
    <3>1. target[t] \in Scope
      BY <2>5 DEF InsertToken, FlipScope, Goto, SwitchProgress, Aimed, Critical
    <3> QED
      BY <2>5, <3>1 DEF InsertToken, FlipScope, Goto, TypeOK, Point, Critical
  <2>6. CASE RevertToken(t) \/ RevertScope(t)
    <3>1. previous[t] \in Scope
      BY <2>6, HomeScopeType
      DEF RevertToken, RevertScope, Goto, SwitchProgress, Handled, Critical, TypeOK
    <3> QED
      BY <2>6, <3>1 DEF RevertToken, RevertScope, Goto, TypeOK, Point, Critical
  <2>7. CASE Fail(t)
    <3>1. machine' \in MachineState
      BY <2>7, <1>0, MachineShapes DEF Fail
    <3> QED
      BY <2>7, <3>1 DEF Fail, Return, Goto, Err, Outcome, TypeOK, Point
  <2>8. CASE Publish(t)
    <3>1. target[t] \in Scope
      BY <2>8 DEF Publish, Goto, SwitchProgress, Aimed, Critical
    <3>2. [target |-> target[t], epoch |-> attempt[t]] \in MaybeSnapshot
      BY <3>1 DEF MaybeSnapshot, Snapshot, TypeOK
    <3>3. machine' \in MachineState
      BY <2>8, <3>2, MachineShapes DEF Publish
    <3>4. preSwitch' \in [Task -> MaybeSnapshot]
      BY <2>8, <1>0, StandingType DEF Publish, TypeOK, IsIdle
    <3> QED
      BY <2>8, <3>3, <3>4 DEF Publish, Goto, TypeOK, Point
  <2>9. CASE PushHistory(t)
    <3>1. target[t] \in Scope
      BY <2>9 DEF PushHistory, Return, Goto, SwitchProgress, Aimed
    <3> QED
      BY <2>9, <3>1 DEF PushHistory, Return, Goto, Ok, Outcome, TypeOK, Point
  <2> QED
    BY <1>4, <2>1a, <2>1b, <2>1c, <2>2, <2>3, <2>4, <2>5, <2>6, <2>7, <2>8, <2>9 DEF Run
<1> QED
  BY <1>1, <1>2, <1>3, <1>4 DEF Next

-----------------------------------------------------------------------------
(* The steps of the running switch, one lemma for each that changes shared *)
(* state in its own way.                                                   *)
LEMMA BeginStep ==
  ASSUME Inv, TypeOK', NEW t \in Task, TryBegin(t), IsIdle
  PROVE  Inv'
<1> USE DEF Inv
<1>1. /\ pc[t] = "begin" /\ pc' = [pc EXCEPT ![t] = "session"]
      /\ epoch' = epoch + 1 /\ attempt' = [attempt EXCEPT ![t] = epoch + 1]
      /\ machine' = Switching(target[t], epoch + 1, machine.current)
      /\ UNCHANGED <<history, active, tokens, target, previous, preSwitch>>
  BY DEF TryBegin, Goto
<1>2. target[t] \in Scope
  BY <1>1 DEF SwitchProgress, Aimed
<1>3. Standing \in MaybeSnapshot /\ Standing = machine.current /\ Standing.epoch \in Nat
  BY StandingType DEF TypeOK
<1>4. machine'.mode = "Switching" /\ machine'.prior = machine.current
  BY <1>1 DEF Switching
<1>5. ~IsIdle' /\ Standing' = Standing /\ HomeScope' = HomeScope
  BY <1>3, <1>4 DEF IsIdle, Standing, HomeScope
<1>6. \A u \in Task : pc[u] \notin Critical
  BY DEF SingleSwitch, IsIdle, Switching
<1>7. pc'[t] = "session" /\ \A u \in Task : u # t => pc'[u] = pc[u]
  BY <1>1 DEF TypeOK
<1>8. SingleSwitch'
  <2>1. machine' = Switching(target'[t], epoch', machine'.prior) /\ attempt'[t] = epoch'
    BY <1>1, <1>4 DEF TypeOK
  <2> QED
    BY <1>6, <1>7, <2>1 DEF SingleSwitch, Critical
<1>9. SessionFollowsMachine' /\ ActiveHasToken'
  BY <1>1, <1>5 DEF SessionFollowsMachine, ActiveHasToken
<1>10. SwitchProgress'
  <2>1. active = HomeScope
    BY DEF SessionFollowsMachine
  <2>2. \A u \in Task : u # t => pc'[u] \notin Critical
    BY <1>6, <1>7
  <2>3. \A u \in Task : pc'[u] \in Aimed => target'[u] \in Scope
    BY <1>1, <1>2, <1>7 DEF SwitchProgress
  <2> QED
    BY <1>1, <1>5, <1>7, <2>1, <2>2, <2>3
    DEF SwitchProgress, Critical, Moved, Handled
<1>11. EpochOrder'
  BY <1>1, <1>3, <1>5, <1>7 DEF EpochOrder, HistoryOlder, TypeOK
<1> QED
  BY <1>8, <1>9, <1>10, <1>11

LEMMA StagingStep ==
  ASSUME Inv, TypeOK', NEW t \in Task,
         \/ SessionBegin(t) \/ Rescope(t) \/ RefreshCatalog(t) \/ InsertToken(t)
         \/ Persist(t) \/ RevertToken(t)
  PROVE  Inv'
<1> USE DEF Inv, Goto, sharedVars
<1>0. /\ pc[t] \in Critical \ Moved => active = HomeScope
      /\ pc[t] \in Moved => active = target[t]
      /\ pc[t] \in Handled => previous[t] = HomeScope /\ previous[t] \in tokens
      /\ pc[t] \in Moved \cup {"flip"} => target[t] \in tokens
  BY DEF SwitchProgress
<1>1. CASE SessionBegin(t)
  <2>1. CASE active \in tokens
    BY <1>0, <1>1, <2>1, InsideStep
    DEF SessionBegin, Critical, Moved, Handled, TypeOK
  <2>2. CASE active \notin tokens
    BY <1>0, <1>1, <2>2, InsideStep
    DEF SessionBegin, Critical, Moved, Handled, TypeOK
  <2> QED
    BY <2>1, <2>2
<1>2. CASE Rescope(t)
  BY <1>0, <1>2, InsideStep DEF Rescope, Critical, Moved, Handled
<1>3. CASE RefreshCatalog(t)
  BY <1>0, <1>3, InsideStep DEF RefreshCatalog, Critical, Moved, Handled
<1>4. CASE InsertToken(t)
  BY <1>0, <1>4, InsideStep DEF InsertToken, Critical, Moved, Handled
<1>5. CASE Persist(t)
  BY <1>0, <1>5, InsideStep DEF Persist, Critical, Moved, Handled
<1>6. CASE RevertToken(t)
  BY <1>0, <1>6, InsideStep DEF RevertToken, Critical, Moved, Handled
<1> QED
  BY <1>1, <1>2, <1>3, <1>4, <1>5, <1>6

LEMMA ScopeStep ==
  ASSUME Inv, TypeOK', NEW t \in Task, FlipScope(t) \/ RevertScope(t)
  PROVE  Inv'
<1> USE DEF Inv
<1>1. /\ pc[t] \in {"flip", "reflip"}
      /\ pc' = [pc EXCEPT ![t] = IF pc[t] = "flip" THEN "persist" ELSE "fail"]
      /\ active' = IF pc[t] = "flip" THEN target[t] ELSE previous[t]
      /\ UNCHANGED <<epoch, machine, history, tokens, target, attempt, previous, preSwitch>>
  BY DEF FlipScope, RevertScope, Goto
<1>2. Standing' = Standing /\ IsIdle' = IsIdle /\ HomeScope' = HomeScope
  BY <1>1 DEF Standing, IsIdle, HomeScope
<1>3. \A u \in Task : u # t => pc'[u] = pc[u] /\ pc[u] \notin Critical
  BY <1>1 DEF TypeOK, SingleSwitch, Critical
<1>4. pc'[t] = IF pc[t] = "flip" THEN "persist" ELSE "fail"
  BY <1>1 DEF TypeOK
<1>5. ~IsIdle
  BY <1>1, MachineShapes DEF SingleSwitch, Critical, IsIdle, Switching
<1>6. SingleSwitch'
  BY <1>1, <1>2, <1>3, <1>4 DEF SingleSwitch, Critical
<1>7. SessionFollowsMachine'
  BY <1>2, <1>5 DEF SessionFollowsMachine
<1>8. ActiveHasToken'
  BY <1>1 DEF ActiveHasToken, SwitchProgress, Critical, Moved, Handled
<1>9. SwitchProgress'
  BY <1>1, <1>2, <1>3, <1>4 DEF SwitchProgress, Critical, Moved, Handled, Aimed
<1>10. EpochOrder'
  BY <1>1, <1>2, <1>3, <1>4 DEF EpochOrder, HistoryOlder
<1> QED
  BY <1>6, <1>7, <1>8, <1>9, <1>10

LEMMA FailStep ==
  ASSUME Inv, TypeOK', NEW t \in Task, Fail(t)
  PROVE  Inv'
<1> USE DEF Inv
<1>1. /\ pc[t] = "fail" /\ pc' = [pc EXCEPT ![t] = "done"]
      /\ machine' = Idle(Standing)
      /\ UNCHANGED <<epoch, history, active, tokens, target, attempt, previous, preSwitch>>
  BY DEF Fail, Return, Goto
<1>2. Standing \in MaybeSnapshot
  BY StandingType DEF TypeOK
<1>3. IsIdle' /\ Standing' = Standing /\ HomeScope' = HomeScope
  BY <1>1, <1>2, MachineShapes DEF IsIdle, Standing, HomeScope
<1>4. \A u \in Task : u # t => pc'[u] = pc[u] /\ pc[u] \notin Critical
  BY <1>1 DEF TypeOK, SingleSwitch, Critical
<1>5. pc'[t] = "done"
  BY <1>1 DEF TypeOK
<1>6. SingleSwitch'
  BY <1>3, <1>4, <1>5 DEF SingleSwitch, Critical
<1>7. SessionFollowsMachine' /\ ActiveHasToken'
  BY <1>1, <1>3 DEF SessionFollowsMachine, ActiveHasToken, SwitchProgress, Critical, Moved
<1>8. SwitchProgress'
  BY <1>1, <1>3, <1>4, <1>5 DEF SwitchProgress, Critical, Moved, Handled, Aimed
<1>9. EpochOrder'
  BY <1>1, <1>3, <1>4, <1>5 DEF EpochOrder, HistoryOlder
<1> QED
  BY <1>6, <1>7, <1>8, <1>9

LEMMA PublishStep ==
  ASSUME Inv, TypeOK', NEW t \in Task, Publish(t)
  PROVE  Inv'
<1> USE DEF Inv
<1> DEFINE new == [target |-> target[t], epoch |-> attempt[t]]
<1>1. /\ pc[t] = "publish" /\ pc' = [pc EXCEPT ![t] = "history"]
      /\ preSwitch' = [preSwitch EXCEPT ![t] =
                          IF IsIdle THEN NoSnapshot ELSE machine.prior]
      /\ machine' = Idle(new)
      /\ UNCHANGED <<epoch, history, active, tokens, target, attempt, previous>>
  BY DEF Publish, Goto
<1>2. ~IsIdle /\ attempt[t] = epoch
  BY <1>1, MachineShapes DEF SingleSwitch, Critical, IsIdle, Switching
<1>3. target[t] \in Scope /\ active = target[t] /\ target[t] \in tokens
  BY <1>1 DEF SwitchProgress, Critical, Moved, Aimed
<1>4. new \in MaybeSnapshot /\ new # NoSnapshot
  BY <1>3, ScopeAssumption DEF MaybeSnapshot, Snapshot, NoSnapshot, TypeOK
<1>5. IsIdle' /\ Standing' = new /\ HomeScope' = target[t]
  BY <1>1, <1>4, MachineShapes DEF IsIdle, Standing, HomeScope
<1>6. \A u \in Task : u # t => pc'[u] = pc[u] /\ pc[u] \notin Critical
                              /\ preSwitch'[u] = preSwitch[u]
  BY <1>1 DEF TypeOK, SingleSwitch, Critical
<1>7. pc'[t] = "history" /\ preSwitch'[t] = Standing
  BY <1>1, <1>2 DEF TypeOK, Standing
<1>8. SingleSwitch'
  BY <1>5, <1>6, <1>7 DEF SingleSwitch, Critical
<1>9. SessionFollowsMachine' /\ ActiveHasToken'
  BY <1>1, <1>3, <1>5 DEF SessionFollowsMachine, ActiveHasToken
<1>10. SwitchProgress'
  BY <1>1, <1>3, <1>6, <1>7 DEF SwitchProgress, Critical, Moved, Handled, Aimed
<1>11. EpochOrder'
  <2>1. Standing.epoch < epoch /\ epoch \in Nat /\ Standing.epoch \in Nat
    BY <1>2, StandingType DEF EpochOrder, TypeOK
  <2>2. Standing'.epoch = epoch /\ epoch' = epoch
    BY <1>1, <1>2, <1>5
  <2>3. HistoryOlder'
    <3>1. history # NoSnapshot => history.epoch \in Nat
      BY DEF TypeOK, MaybeSnapshot, Snapshot
    <3> QED
      BY <1>1, <2>1, <2>2, <3>1 DEF EpochOrder, HistoryOlder
  <2>4. ASSUME NEW u \in Task, pc'[u] = "history", preSwitch'[u] # NoSnapshot
        PROVE  preSwitch'[u].epoch < Standing'.epoch
    <3>1. CASE u = t
      BY <1>7, <2>1, <2>2, <3>1
    <3>2. CASE u # t
      <4>1. preSwitch[u].epoch < Standing.epoch /\ preSwitch'[u] = preSwitch[u]
        BY <1>6, <2>4, <3>2 DEF EpochOrder
      <4>2. preSwitch[u].epoch \in Nat
        BY DEF TypeOK, MaybeSnapshot, Snapshot, NoSnapshot
      <4> QED
        BY <2>1, <2>2, <4>1, <4>2
    <3> QED
      BY <3>1, <3>2
  <2> QED
    BY <1>5, <2>1, <2>2, <2>3, <2>4 DEF EpochOrder
<1> QED
  BY <1>8, <1>9, <1>10, <1>11

LEMMA HistoryStep ==
  ASSUME Inv, TypeOK', NEW t \in Task, PushHistory(t)
  PROVE  Inv'
<1> USE DEF Inv
<1>1. /\ pc[t] = "history" /\ pc' = [pc EXCEPT ![t] = "done"]
      /\ history' = preSwitch[t]
      /\ UNCHANGED <<epoch, machine, active, tokens, target, attempt, previous, preSwitch>>
  BY DEF PushHistory, Return, Goto
<1>2. Standing' = Standing /\ IsIdle' = IsIdle /\ HomeScope' = HomeScope
  BY <1>1 DEF Standing, IsIdle, HomeScope
<1>3. pc'[t] = "done" /\ \A u \in Task : u # t => pc'[u] = pc[u]
  BY <1>1 DEF TypeOK
<1>4. SingleSwitch'
  <2>1. \A u \in Task : pc'[u] \in Critical <=> pc[u] \in Critical
    BY <1>1, <1>3 DEF Critical
  <2> QED
    BY <1>1, <1>2, <2>1 DEF SingleSwitch
<1>5. SessionFollowsMachine' /\ ActiveHasToken'
  BY <1>1, <1>2 DEF SessionFollowsMachine, ActiveHasToken
<1>6. SwitchProgress'
  BY <1>1, <1>2, <1>3 DEF SwitchProgress, Critical, Moved, Handled, Aimed
<1>7. EpochOrder'
  BY <1>1, <1>2, <1>3 DEF EpochOrder, HistoryOlder
<1> QED
  BY <1>4, <1>5, <1>6, <1>7

-----------------------------------------------------------------------------
(* Every step preserves the invariant. *)
LEMMA StepInv == Inv /\ [Next]_vars => Inv'
<1> SUFFICES ASSUME Inv, [Next]_vars PROVE Inv'
  OBVIOUS
<1>0. TypeOK /\ TypeOK'
  BY StepType DEF Inv
<1>1. CASE UNCHANGED vars
  BY <1>1 DEF vars, Inv, TypeOK, SingleSwitch, SessionFollowsMachine, SwitchProgress,
              ActiveHasToken, EpochOrder, HistoryOlder, Standing, IsIdle, HomeScope
<1>2. CASE Authenticate
  BY <1>0, <1>2
  DEF Authenticate, taskVars, Inv, SingleSwitch, SessionFollowsMachine, SwitchProgress,
      ActiveHasToken, EpochOrder, HistoryOlder, Standing, IsIdle, HomeScope
<1>3. ASSUME NEW t \in Task, Start(t)
      PROVE  Inv'
  <2>1. CASE Switch(t)
    BY <1>0, <2>1, OutsideStep DEF Switch, Goto, sharedVars, Point, Critical, Aimed, TypeOK
  <2>2. CASE SwitchBack(t)
    <3>1. history # NoSnapshot => history.target \in Scope
      BY <1>0 DEF TypeOK, MaybeSnapshot, Snapshot
    <3>2. CASE history = NoSnapshot
      BY <1>0, <2>2, <3>2, OutsideStep
      DEF SwitchBack, Goto, sharedVars, Point, Critical, Aimed, TypeOK
    <3>3. CASE history # NoSnapshot
      BY <1>0, <2>2, <3>1, <3>3, OutsideStep
      DEF SwitchBack, Goto, sharedVars, Point, Critical, Aimed, TypeOK
    <3> QED
      BY <3>2, <3>3
  <2> QED
    BY <1>3, <2>1, <2>2 DEF Start
<1>4. ASSUME NEW t \in Task, Run(t)
      PROVE  Inv'
  <2>0. pc[t] \in Aimed => target[t] \in Scope
    BY DEF Inv, SwitchProgress
  <2>1. CASE Resolve(t)
    <3>1. UNCHANGED <<sharedVars, attempt, previous, preSwitch>> /\ pc[t] = "resolve"
      BY <2>1 DEF Resolve, Goto
    <3>2. CASE pc' = [pc EXCEPT ![t] = "gate"]
               /\ \E scope \in Scope : target' = [target EXCEPT ![t] = scope]
      <4>1. PICK scope \in Scope : target' = [target EXCEPT ![t] = scope]
        BY <3>2
      <4>2. target'[t] = scope /\ \A u \in Task : u # t => target'[u] = target[u]
        BY <1>0, <4>1 DEF TypeOK
      <4> QED
        BY <1>0, <3>1, <3>2, <4>2, OutsideStep DEF sharedVars, Point, Critical, Aimed
    <3>3. CASE pc' = [pc EXCEPT ![t] = "reject"] /\ UNCHANGED target
      BY <1>0, <3>1, <3>3, OutsideStep DEF sharedVars, Point, Critical, Aimed
    <3> QED
      BY <2>1, <3>2, <3>3 DEF Resolve, Goto
  <2>2. CASE EpochGate(t)
    BY <1>0, <2>0, <2>2, OutsideStep
    DEF EpochGate, Goto, sharedVars, Point, Critical, Aimed, TypeOK
  <2>3. CASE SameTarget(t)
    <3>1. PICK p \in {"done", "begin"} : pc[t] = "noop" /\ pc' = [pc EXCEPT ![t] = p]
      BY <2>3 DEF SameTarget, Return, Goto
    <3>2. UNCHANGED <<sharedVars, target, attempt, previous, preSwitch>>
      BY <2>3 DEF SameTarget
    <3> QED
      BY <1>0, <2>0, <3>1, <3>2, OutsideStep
      DEF sharedVars, Point, Critical, Aimed
  <2>4. CASE Reject(t)
    BY <1>0, <2>4, OutsideStep
    DEF Reject, Return, Goto, sharedVars, Point, Critical, Aimed, TypeOK
  <2>5. CASE TryBegin(t)
    <3>1. CASE ~IsIdle
      BY <1>0, <2>5, <3>1, OutsideStep
      DEF TryBegin, Goto, Point, Critical, Aimed, TypeOK
    <3>2. CASE IsIdle
      BY <1>0, <2>0, <2>5, <3>2, BeginStep DEF Inv
    <3> QED
      BY <3>1, <3>2
  <2>6. CASE SessionBegin(t) \/ Rescope(t) \/ RefreshCatalog(t) \/ InsertToken(t)
             \/ Persist(t) \/ RevertToken(t)
    BY <1>0, <2>6, StagingStep
  <2>7. CASE FlipScope(t) \/ RevertScope(t)
    BY <1>0, <2>7, ScopeStep
  <2>8. CASE Fail(t)
    BY <1>0, <2>8, FailStep
  <2>9. CASE Publish(t)
    BY <1>0, <2>9, PublishStep
  <2>10. CASE PushHistory(t)
    BY <1>0, <2>10, HistoryStep
  <2> QED
    BY <1>4, <2>1, <2>2, <2>3, <2>4, <2>5, <2>6, <2>7, <2>8, <2>9, <2>10 DEF Run
<1> QED
  BY <1>1, <1>2, <1>3, <1>4 DEF Next

-----------------------------------------------------------------------------
(* The inductive invariant holds in every reachable state. *)
LEMMA SpecInv == Spec => []Inv
  BY InitInv, StepInv, PTL DEF Spec

(* Every variable keeps its type (Rust's own types, and the program points *)
(* a switch task can be at), for any set of tasks and contexts.            *)
THEOREM TypeCorrect == Spec => []TypeOK
  BY SpecInv, PTL DEF Inv

(* Two switches never run at once, and the machine is in Switching exactly *)
(* while one does (SwitchStateMachine::try_begin).                         *)
THEOREM SwitchesAreSerial == Spec => []SingleSwitch
  BY SpecInv, PTL DEF Inv

(* Whenever no switch is in flight, the session's scope is that of the     *)
(* committed context: a failed switch leaves both as they were, also when  *)
(* it failed after set_active (ScopedAuthSession::commit).                 *)
THEOREM SessionAgreesAtRest == Spec => []SessionFollowsMachine
  BY SpecInv, PTL DEF Inv

(* A scope reached by a switch always has a token in the token map         *)
(* (KeystoneAuthAdapter::set_active).                                      *)
THEOREM ActiveScopeHasToken == Spec => []ActiveHasToken
  BY SpecInv, PTL DEF Inv

(* The history slot is always older than the context in force, also when   *)
(* two tasks push in the other order than they committed in.               *)
THEOREM HistoryIsOlder == Spec => []HistoryOlder
<1>1. Inv => HistoryOlder
  BY DEF Inv, EpochOrder
<1> QED
  BY <1>1, SpecInv, PTL

-----------------------------------------------------------------------------
(* Refinement: what each step of a task is in the contract. *)
LEMMA InitContract == Init => Contract!Init
  BY MachineShapes
  DEF Init, Contract!Init, Standing, IsIdle, MaybeSnapshot, NoSnapshot, Contract!NoSnapshot

LEMMA StepContract ==
  Inv /\ [Next]_vars => [Contract!Next]_(Contract!vars)
<1> SUFFICES ASSUME Inv, [Next]_vars
             PROVE  [Contract!Next]_(Contract!vars)
  OBVIOUS
<1> USE DEF Inv
<1>0. /\ HomeScope = Contract!HomeScope
      /\ Standing \in MaybeSnapshot
  BY StandingType DEF HomeScope, Contract!HomeScope, NoSnapshot, Contract!NoSnapshot, TypeOK
<1>1. ASSUME UNCHANGED <<epoch, machine, active>>
      PROVE  UNCHANGED Contract!vars
  BY <1>1 DEF Contract!vars, Standing, IsIdle
<1>2. CASE UNCHANGED vars
  BY <1>1, <1>2 DEF vars
<1>3. CASE Authenticate
  BY <1>1, <1>3 DEF Authenticate
<1>4. ASSUME NEW t \in Task, Start(t)
      PROVE  UNCHANGED Contract!vars
  BY <1>1, <1>4 DEF Start, Switch, SwitchBack, sharedVars
<1>5. ASSUME NEW t \in Task, Run(t)
      PROVE  [Contract!Next]_(Contract!vars)
  <2>1. CASE Resolve(t) \/ EpochGate(t) \/ SameTarget(t) \/ Reject(t) \/ SessionBegin(t)
             \/ Rescope(t) \/ RefreshCatalog(t) \/ InsertToken(t) \/ Persist(t)
             \/ RevertToken(t) \/ PushHistory(t)
    BY <1>1, <2>1
    DEF Resolve, EpochGate, SameTarget, Reject, SessionBegin, Rescope, RefreshCatalog,
        InsertToken, Persist, RevertToken, PushHistory, sharedVars
  <2>2. CASE TryBegin(t)
    <3>1. CASE ~IsIdle
      BY <1>1, <2>2, <3>1 DEF TryBegin
    <3>2. CASE IsIdle
      <4>1. machine' = Switching(target[t], epoch + 1, machine.current)
        BY <2>2, <3>2 DEF TryBegin
      <4>2. ~IsIdle' /\ Standing' = Standing
        BY <3>2, <4>1 DEF IsIdle, Standing, Switching
      <4>3. Contract!Begin
        BY <2>2, <3>2, <4>2 DEF TryBegin, Contract!Begin
      <4> QED
        BY <4>3 DEF Contract!Next
    <3> QED
      BY <3>1, <3>2
  <2>3. CASE FlipScope(t)
    <3>1. pc[t] = "flip" /\ active' = target[t] /\ UNCHANGED <<epoch, machine>>
      BY <2>3 DEF FlipScope, Goto
    <3>2. ~IsIdle /\ active = HomeScope /\ target[t] \in Scope
      BY <3>1, MachineShapes
      DEF SingleSwitch, SwitchProgress, Critical, Moved, Aimed, IsIdle, Switching
    <3>3. Contract!Activate(target[t])
      BY <1>0, <3>1, <3>2 DEF Contract!Activate, Standing, IsIdle
    <3> QED
      BY <3>2, <3>3 DEF Contract!Next
  <2>4. CASE RevertScope(t)
    <3>1. pc[t] = "reflip" /\ active' = previous[t] /\ UNCHANGED <<epoch, machine>>
      BY <2>4 DEF RevertScope, Goto
    <3>2. ~IsIdle /\ previous[t] = HomeScope
      BY <3>1 DEF SingleSwitch, SwitchProgress, Critical, Handled, IsIdle, Switching
    <3>3. Contract!Revert
      BY <1>0, <3>1, <3>2 DEF Contract!Revert, Standing, IsIdle
    <3> QED
      BY <3>3 DEF Contract!Next
  <2>5. CASE Fail(t)
    <3>1. pc[t] = "fail" /\ machine' = Idle(Standing) /\ UNCHANGED <<epoch, active>>
      BY <2>5 DEF Fail, Return, Goto
    <3>2. ~IsIdle /\ active = HomeScope
      BY <3>1 DEF SingleSwitch, SwitchProgress, Critical, Moved, IsIdle, Switching
    <3>3. IsIdle' /\ Standing' = Standing
      BY <1>0, <3>1 DEF Idle, IsIdle, Standing
    <3>4. Contract!Abort
      BY <1>0, <3>1, <3>2, <3>3 DEF Contract!Abort
    <3> QED
      BY <3>4 DEF Contract!Next
  <2>6. CASE Publish(t)
    <3>1. /\ pc[t] = "publish"
          /\ machine' = Idle([target |-> target[t], epoch |-> attempt[t]])
          /\ UNCHANGED <<epoch, active>>
      BY <2>6 DEF Publish, Goto
    <3>2. ~IsIdle /\ active = target[t] /\ attempt[t] = epoch
      BY <3>1 DEF SingleSwitch, SwitchProgress, Critical, Moved, IsIdle, Switching
    <3>3. IsIdle' /\ Standing' = [target |-> active, epoch |-> epoch]
      BY <3>1, <3>2 DEF Idle, IsIdle, Standing
    <3>4. Contract!Commit
      BY <3>1, <3>2, <3>3 DEF Contract!Commit
    <3> QED
      BY <3>4 DEF Contract!Next
  <2> QED
    BY <1>5, <2>1, <2>2, <2>3, <2>4, <2>5, <2>6 DEF Run
<1> QED
  BY <1>2, <1>3, <1>4, <1>5 DEF Next

(* The switcher's tasks implement the contract: one switch at a time, an   *)
(* epoch of its own for each, and scope and snapshot change together or    *)
(* not at all.                                                             *)
THEOREM Refinement == Spec => ImplementsContract
  BY SpecInv, InitContract, StepContract, PTL DEF Spec, ImplementsContract, Contract!Spec

-----------------------------------------------------------------------------
(* The way to the screen.  What a task was told, what it has sent and what *)
(* is shown is either of an older epoch, or it is the context in force.    *)
InForceOrOld(x) ==
  /\ x.epoch <= epoch
  /\ x.epoch = epoch => [target |-> x.target, epoch |-> x.epoch] = Standing

OutcomeFits(t) ==
  /\ pc[t] = "done" => outcome[t].kind # "none"
  /\ outcome[t].kind = "ok" => outcome[t].target \in Scope /\ InForceOrOld(outcome[t])
  /\ pc[t] = "history" => InForceOrOld(Committed(t))
NoticesFit ==
  \A i \in DOMAIN notices :
    notices[i].kind = "ok" => notices[i].target \in Scope /\ InForceOrOld(notices[i])

NoticesInv ==
  /\ Inv /\ NoticesTypeOK
  /\ \A t \in Task : OutcomeFits(t)
  /\ NoticesFit
  /\ InForceOrOld(shown)

(* A queue keeps what it has when something is put in or taken out.        *)
LEMMA QueueOperations ==
  ASSUME NEW S, NEW q \in Seq(S)
  PROVE  /\ \A x \in S : /\ Append(q, x) \in Seq(S)
                         /\ \A i \in DOMAIN Append(q, x) : \/ i \in DOMAIN q /\ Append(q, x)[i] = q[i]
                                                           \/ Append(q, x)[i] = x
         /\ q # <<>> => /\ Tail(q) \in Seq(S) /\ 1 \in DOMAIN q /\ Head(q) = q[1] /\ q[1] \in S
                        /\ \A i \in DOMAIN Tail(q) : i + 1 \in DOMAIN q /\ Tail(q)[i] = q[i + 1]
OBVIOUS

LEMMA StandingShape ==
  ASSUME Inv
  PROVE  /\ Standing \in MaybeSnapshot /\ Standing.epoch \in Nat /\ epoch \in Nat
         /\ [target |-> Standing.target, epoch |-> Standing.epoch] = Standing
         /\ InForceOrOld(Standing)
<1>1. Standing \in MaybeSnapshot /\ Standing.epoch \in Nat /\ epoch \in Nat
  BY StandingType DEF Inv, TypeOK
<1>2. [target |-> Standing.target, epoch |-> Standing.epoch] = Standing
  BY <1>1 DEF MaybeSnapshot, Snapshot, NoSnapshot
<1> QED BY <1>1, <1>2 DEF Inv, EpochOrder, InForceOrOld

(* To begin is to outdate everything; a commit replaces a context that is  *)
(* older than the epoch, so nothing of this epoch was there before it.     *)
StillFits(x) ==
  /\ x.epoch <= epoch'
  /\ x.epoch = epoch' => [target |-> x.target, epoch |-> x.epoch] = Standing'

LEMMA AgesWell ==
  ASSUME Inv, [Next]_vars
  PROVE  \A x : x.epoch \in Nat /\ InForceOrOld(x) => StillFits(x)
<1> SUFFICES ASSUME NEW x, x.epoch \in Nat, InForceOrOld(x)
             PROVE  StillFits(x)
  OBVIOUS
<1>1. epoch \in Nat /\ Standing.epoch \in Nat /\ x.epoch <= epoch
  BY StandingShape DEF InForceOrOld
<1>2. CASE epoch' = epoch + 1
  BY <1>1, <1>2 DEF StillFits
<1>3. CASE epoch' = epoch /\ Standing' = Standing
  BY <1>3 DEF InForceOrOld, StillFits
<1>4. CASE epoch' = epoch /\ ~IsIdle
  <2>1. Standing.epoch < epoch
    BY <1>4 DEF Inv, EpochOrder
  <2>2. x.epoch = epoch => x.epoch = Standing.epoch
    BY DEF InForceOrOld
  <2>3. x.epoch # epoch
    BY <1>1, <2>1, <2>2
  <2> QED BY <1>1, <1>4, <2>3 DEF StillFits
<1>5. \/ epoch' = epoch + 1
      \/ epoch' = epoch /\ Standing' = Standing
      \/ epoch' = epoch /\ ~IsIdle
  BY StepContract DEF Contract!Next, Contract!Begin, Contract!Activate, Contract!Revert,
                      Contract!Commit, Contract!Abort, Contract!vars
<1> QED BY <1>2, <1>3, <1>4, <1>5

(* A task learns only of a context it finds in force or has just committed.*)
LEMMA OutcomesFit ==
  ASSUME Inv, [Next]_vars, NEW t \in Task, OutcomeFits(t)
  PROVE  OutcomeFits(t)'
<1>1. /\ outcome \in [Task -> Outcome] /\ pc \in [Task -> Point] /\ attempt \in [Task -> Nat]
      /\ target \in [Task -> Scope \cup {None}]
  BY DEF Inv, TypeOK
<1>2. /\ outcome[t].kind = "ok" => StillFits(outcome[t]) /\ outcome[t].target \in Scope
      /\ pc[t] = "history" => StillFits(Committed(t))
  <2>1. outcome[t].epoch \in Nat /\ Committed(t).epoch \in Nat
    BY <1>1 DEF Outcome, Committed
  <2> QED BY <2>1, AgesWell DEF OutcomeFits
<1>3. CASE /\ outcome'[t] = outcome[t]
           /\ pc'[t] = "done" => pc[t] = "done"
           /\ pc'[t] = "history" => pc[t] = "history" /\ target'[t] = target[t] /\ attempt'[t] = attempt[t]
  BY <1>2, <1>3 DEF OutcomeFits, InForceOrOld, StillFits, Committed
<1>4. CASE UNCHANGED vars \/ Authenticate
  BY <1>3, <1>4 DEF vars, Authenticate, taskVars
<1>5. ASSUME NEW u \in Task, Start(u)
      PROVE  OutcomeFits(t)'
  BY <1>1, <1>3, <1>5 DEF Start, Switch, SwitchBack, Goto
<1>6. ASSUME NEW u \in Task, Run(u)
      PROVE  OutcomeFits(t)'
  <2>1. CASE u # t
    <3>1. pc'[t] = pc[t] /\ outcome'[t] = outcome[t] /\ target'[t] = target[t]
          /\ attempt'[t] = attempt[t]
      BY <1>1, <1>6, <2>1
      DEF Run, Resolve, EpochGate, SameTarget, Reject, TryBegin, SessionBegin, Rescope,
          RefreshCatalog, InsertToken, FlipScope, Persist, RevertToken, RevertScope, Fail,
          Publish, PushHistory, Goto, Return
    <3> QED BY <1>3, <3>1
  <2>2. CASE Resolve(t) \/ EpochGate(t) \/ TryBegin(t) \/ SessionBegin(t) \/ Rescope(t)
             \/ RefreshCatalog(t) \/ InsertToken(t) \/ FlipScope(t) \/ Persist(t)
             \/ RevertToken(t) \/ RevertScope(t)
    <3>1. outcome'[t] = outcome[t] /\ pc'[t] \notin {"done", "history"}
      BY <1>1, <2>2
      DEF Resolve, EpochGate, TryBegin, SessionBegin, Rescope, RefreshCatalog, InsertToken,
          FlipScope, Persist, RevertToken, RevertScope, Goto
    <3> QED BY <1>3, <3>1
  <2>3. CASE SameTarget(t)
    <3>1. CASE AlreadyThere(t)
      <4>1. /\ pc[t] = "noop" /\ pc'[t] = "done" /\ outcome'[t] = Ok(machine.current)
            /\ machine.current = Standing /\ epoch' = epoch /\ Standing' = Standing
        BY <1>1, <2>3, <3>1
        DEF SameTarget, AlreadyThere, Return, Goto, Standing, IsIdle, sharedVars
      <4>2. target[t] \in Scope /\ Standing.target = target[t]
        BY <3>1, <4>1 DEF Inv, SwitchProgress, Aimed, AlreadyThere
      <4>3. /\ outcome'[t].kind = "ok" /\ outcome'[t].target = Standing.target
            /\ outcome'[t].epoch = Standing.epoch
        BY <4>1 DEF Ok
      <4> QED BY <4>1, <4>2, <4>3, StandingShape DEF OutcomeFits, InForceOrOld
    <3>2. CASE ~AlreadyThere(t)
      <4>1. outcome'[t] = outcome[t] /\ pc'[t] = "begin"
        BY <1>1, <2>3, <3>2 DEF SameTarget, Return, Goto
      <4> QED BY <1>3, <4>1
    <3> QED BY <3>1, <3>2
  <2>4. CASE Reject(t) \/ Fail(t)
    <3>1. pc'[t] = "done" /\ outcome'[t].kind = "err"
      BY <1>1, <2>4 DEF Reject, Fail, Return, Goto, Err
    <3> QED BY <3>1 DEF OutcomeFits
  <2>5. CASE Publish(t)
    <3>1. /\ pc[t] = "publish" /\ pc'[t] = "history" /\ outcome' = outcome
          /\ target' = target /\ attempt' = attempt /\ epoch' = epoch
          /\ machine' = Idle(Committed(t))
      BY <1>1, <2>5 DEF Publish, Goto, Committed
    <3>2. attempt[t] = epoch /\ epoch \in Nat
      BY <3>1 DEF Inv, TypeOK, SingleSwitch, Critical
    <3>3. Standing' = Committed(t)
      BY <3>1 DEF Standing, IsIdle, Idle
    <3>4. Committed(t)' = Committed(t) /\ Committed(t).epoch = epoch
          /\ [target |-> Committed(t).target, epoch |-> Committed(t).epoch] = Committed(t)
      BY <3>1, <3>2 DEF Committed
    <3>5. InForceOrOld(Committed(t))'
      BY <3>1, <3>2, <3>3, <3>4 DEF InForceOrOld
    <3>6. outcome[t].kind = "ok" => InForceOrOld(outcome[t])'
      BY <1>2, <3>1 DEF InForceOrOld, StillFits
    <3> QED BY <1>2, <3>1, <3>5, <3>6 DEF OutcomeFits
  <2>6. CASE PushHistory(t)
    <3>1. /\ pc[t] = "history" /\ pc'[t] = "done" /\ outcome'[t] = Ok(Committed(t))
      BY <1>1, <2>6 DEF PushHistory, Return, Goto, Committed
    <3>2. StillFits(Committed(t)) /\ target[t] \in Scope
      BY <1>2, <3>1 DEF Inv, SwitchProgress, Aimed
    <3>3. /\ outcome'[t].kind = "ok" /\ outcome'[t].target = Committed(t).target
          /\ outcome'[t].epoch = Committed(t).epoch /\ Committed(t).target = target[t]
      BY <3>1 DEF Ok, Committed
    <3> QED BY <3>1, <3>2, <3>3 DEF OutcomeFits, InForceOrOld, StillFits
  <2> QED BY <1>6, <2>1, <2>2, <2>3, <2>4, <2>5, <2>6 DEF Run
<1> QED BY <1>4, <1>5, <1>6 DEF Next

-----------------------------------------------------------------------------
LEMMA NoticesInitially == NoticesInit => NoticesInv
<1> SUFFICES ASSUME NoticesInit
             PROVE  NoticesInv
  OBVIOUS
<1>1. Inv
  BY InitInv DEF NoticesInit
<1>2. NoticesTypeOK /\ NoticesFit
  BY DEF NoticesInit, NoticesTypeOK, NoticesFit, MaybeSnapshot
<1>3. \A t \in Task : OutcomeFits(t)
  BY DEF NoticesInit, Init, OutcomeFits, Unfinished
<1>4. Standing = NoSnapshot /\ epoch = 0
  BY MachineShapes DEF NoticesInit, Init, Standing, IsIdle, MaybeSnapshot
<1>5. InForceOrOld(shown)
  BY <1>4 DEF NoticesInit, NoSnapshot, InForceOrOld
<1> QED BY <1>1, <1>2, <1>3, <1>5 DEF NoticesInv

LEMMA NoticesStep == NoticesInv /\ [NoticesNext]_allVars => NoticesInv'
<1> SUFFICES ASSUME NoticesInv, [NoticesNext]_allVars
             PROVE  NoticesInv'
  OBVIOUS
<1>1. [Next]_vars
  BY DEF NoticesNext, Send, HandleNotice, allVars
<1>2. Inv' /\ \A t \in Task : OutcomeFits(t)'
  BY <1>1, StepInv, OutcomesFit DEF NoticesInv
<1>3. /\ notices \in Seq(Notice) /\ sent \in SUBSET Task /\ shown \in MaybeSnapshot
      /\ \A i \in DOMAIN notices : notices[i].task \in sent
  BY DEF NoticesInv, NoticesTypeOK
<1>4. \A i \in DOMAIN notices : /\ notices[i] \in Notice /\ notices[i].epoch \in Nat
                                /\ notices[i].kind = "ok" => StillFits(notices[i])
                                                             /\ notices[i].target \in Scope
  <2>1. \A i \in DOMAIN notices : notices[i] \in Notice
    BY <1>3
  <2>2. \A i \in DOMAIN notices : notices[i].epoch \in Nat
    BY <2>1 DEF Notice
  <2> QED BY <1>1, <2>1, <2>2, AgesWell DEF NoticesInv, NoticesFit
<1>5. StillFits(shown)
  <2>1. shown.epoch \in Nat
    BY <1>3 DEF MaybeSnapshot, Snapshot, NoSnapshot
  <2> QED BY <1>1, <2>1, AgesWell DEF NoticesInv
<1>6. CASE UNCHANGED noticeVars
  BY <1>2, <1>3, <1>4, <1>5, <1>6
  DEF noticeVars, NoticesInv, NoticesTypeOK, NoticesFit, InForceOrOld, StillFits, MaybeSnapshot
<1>7. ASSUME NEW t \in Task, Send(t)
      PROVE  NoticesInv'
  <2> DEFINE notice == [task |-> t, kind |-> outcome[t].kind, target |-> outcome[t].target,
                        epoch |-> outcome[t].epoch]
  <2>1. /\ pc[t] = "done" /\ sent' = sent \cup {t} /\ shown' = shown
        /\ notices' = Append(notices, notice) /\ epoch' = epoch /\ Standing' = Standing
    BY <1>7 DEF Send, vars, Standing, IsIdle
  <2>2. OutcomeFits(t) /\ outcome[t] \in Outcome
    BY DEF NoticesInv, Inv, TypeOK
  <2>3. notice \in Notice
    BY <2>1, <2>2 DEF OutcomeFits, Outcome, Notice
  <2>4. notice.kind = "ok" => notice.target \in Scope /\ StillFits(notice)
    BY <2>1, <2>2 DEF OutcomeFits, InForceOrOld, StillFits
  <2>5. notice.task = t
    OBVIOUS
  <2> HIDE DEF notice
  <2>6. /\ notices' \in Seq(Notice)
        /\ \A i \in DOMAIN notices' : \/ i \in DOMAIN notices /\ notices'[i] = notices[i]
                                      \/ notices'[i] = notice
    BY <1>3, <2>1, <2>3, QueueOperations
  <2>7. NoticesTypeOK'
    BY <1>3, <2>1, <2>5, <2>6 DEF NoticesTypeOK, MaybeSnapshot
  <2>8. NoticesFit'
    BY <1>4, <2>4, <2>6 DEF NoticesFit, InForceOrOld, StillFits
  <2> QED BY <1>2, <1>5, <2>1, <2>7, <2>8 DEF NoticesInv, InForceOrOld, StillFits
<1>8. CASE HandleNotice
  <2>1. /\ notices # <<>> /\ notices' = Tail(notices) /\ UNCHANGED <<vars, sent>>
        /\ \/ shown' = shown
           \/ /\ Head(notices).kind = "ok"
              /\ shown' = [target |-> Head(notices).target, epoch |-> Head(notices).epoch]
    BY <1>8 DEF HandleNotice
  <2>2. /\ Tail(notices) \in Seq(Notice) /\ 1 \in DOMAIN notices /\ Head(notices) = notices[1]
        /\ \A i \in DOMAIN Tail(notices) : i + 1 \in DOMAIN notices
                                           /\ Tail(notices)[i] = notices[i + 1]
    BY <1>3, <2>1, QueueOperations
  <2>3. StillFits(shown') /\ shown' \in MaybeSnapshot
    <3>1. CASE shown' = shown
      BY <1>3, <1>5, <3>1
    <3>2. CASE /\ notices[1].kind = "ok"
               /\ shown' = [target |-> notices[1].target, epoch |-> notices[1].epoch]
      <4>1. StillFits(notices[1]) /\ notices[1].target \in Scope /\ notices[1].epoch \in Nat
        BY <1>4, <2>2, <3>2
      <4>2. shown'.target = notices[1].target /\ shown'.epoch = notices[1].epoch
        BY <3>2
      <4>3. shown' \in MaybeSnapshot
        BY <3>2, <4>1 DEF MaybeSnapshot, Snapshot
      <4> QED BY <4>1, <4>2, <4>3 DEF StillFits
    <3> QED BY <2>1, <2>2, <3>1, <3>2
  <2>4. NoticesTypeOK'
    BY <1>3, <2>1, <2>2, <2>3 DEF NoticesTypeOK, MaybeSnapshot
  <2>5. NoticesFit'
    BY <1>4, <2>1, <2>2 DEF NoticesFit, InForceOrOld, StillFits
  <2> QED BY <1>2, <2>3, <2>4, <2>5 DEF NoticesInv, InForceOrOld, StillFits
<1> QED BY <1>6, <1>7, <1>8 DEF NoticesNext, allVars

LEMMA NoticesInvariance == NoticesSpec => []NoticesInv
  BY NoticesInitially, NoticesStep, PTL DEF NoticesSpec

(* With the queue and the App in it, the switcher is still the switcher:   *)
(* all that is proved of it above holds here too.                          *)
THEOREM NoticesKeepSwitcher == NoticesSpec => Spec
<1>1. NoticesInit => Init
  BY DEF NoticesInit
<1>2. [NoticesNext]_allVars => [Next]_vars
  BY DEF NoticesNext, Send, HandleNotice, allVars
<1> QED
  BY <1>1, <1>2, PTL DEF NoticesSpec, Spec

(* Until another attempt bumps the epoch, the indicator and the modules    *)
(* are on what the machine has committed, whatever order the results of    *)
(* the tasks arrive in (handle_versioned_event).                           *)
THEOREM ScreenInForce == NoticesSpec => []ShownIsInForce
<1>1. NoticesInv => ShownIsInForce
  <2> SUFFICES ASSUME NoticesInv, shown.epoch = epoch
               PROVE  shown = Standing
    BY DEF ShownIsInForce
  <2>1. [target |-> shown.target, epoch |-> shown.epoch] = shown
    BY DEF NoticesInv, NoticesTypeOK, MaybeSnapshot, Snapshot, NoSnapshot
  <2> QED BY <2>1 DEF NoticesInv, InForceOrOld
<1> QED
  BY <1>1, NoticesInvariance, PTL

-----------------------------------------------------------------------------
(* The queue as far as it is about contexts, place by place. *)
LEMMA ContextsShape ==
  ASSUME NEW q \in Seq(Notice)
  PROVE  LET C == {Changed(e) : e \in Notice} IN
         /\ Contexts(q) \in Seq(C) /\ Len(Contexts(q)) = Len(q)
         /\ Len(q) \in Nat /\ DOMAIN q = 1..Len(q) /\ DOMAIN Contexts(q) = 1..Len(q)
         /\ \A i \in 1..Len(q) : q[i] \in Notice /\ Contexts(q)[i] = Changed(q[i])
<1> DEFINE C == {Changed(e) : e \in Notice}
<1>1. /\ Len(q) \in Nat /\ DOMAIN q = 1..Len(q)
      /\ \A i \in 1..Len(q) : q[i] \in Notice
  OBVIOUS
<1>2. \A i \in 1..Len(q) : Changed(q[i]) \in C
  BY <1>1
<1> HIDE DEF C
<1>3. Contexts(q) \in [1..Len(q) -> C] /\ \A i \in 1..Len(q) : Contexts(q)[i] = Changed(q[i])
  BY <1>1, <1>2 DEF Contexts
<1>4. Contexts(q) \in Seq(C) /\ Len(Contexts(q)) = Len(q) /\ DOMAIN Contexts(q) = 1..Len(q)
  BY <1>1, <1>3
<1> QED BY <1>1, <1>3, <1>4 DEF C

(* What is sent, or taken, is so there as well. *)
LEMMA ContextsSent ==
  ASSUME NEW q \in Seq(Notice), NEW e \in Notice
  PROVE  Contexts(Append(q, e)) = Append(Contexts(q), Changed(e))
<1> DEFINE C == {Changed(x) : x \in Notice}
<1>1. /\ Contexts(q) \in Seq(C) /\ Len(Contexts(q)) = Len(q) /\ Len(q) \in Nat
      /\ \A i \in 1..Len(q) : Contexts(q)[i] = Changed(q[i])
  BY ContextsShape
<1>2. /\ Append(q, e) \in Seq(Notice) /\ Len(Append(q, e)) = Len(q) + 1
      /\ Append(q, e)[Len(q) + 1] = e
      /\ \A i \in 1..Len(q) : Append(q, e)[i] = q[i]
  OBVIOUS
<1>3. /\ Contexts(Append(q, e)) \in Seq(C) /\ Len(Contexts(Append(q, e))) = Len(q) + 1
      /\ DOMAIN Contexts(Append(q, e)) = 1..Len(q) + 1
      /\ \A i \in 1..Len(q) + 1 : Contexts(Append(q, e))[i] = Changed(Append(q, e)[i])
  BY <1>2, ContextsShape
<1>4. Changed(e) \in C
  OBVIOUS
<1> DEFINE m == Contexts(Append(q, e))
           c == Changed(e)
           p == Contexts(q)
           n == Append(p, c)
<1> HIDE DEF C
<1>5. /\ n \in Seq(C) /\ Len(n) = Len(q) + 1 /\ n[Len(q) + 1] = c
      /\ \A i \in 1..Len(q) : n[i] = p[i]
  <2> HIDE DEF c, p
  <2>1. p \in Seq(C) /\ Len(p) = Len(q) /\ Len(q) \in Nat /\ c \in C
    BY <1>1, <1>4 DEF c, p
  <2> QED BY <2>1
<1>6. \A i \in 1..Len(q) + 1 : m[i] = n[i]
  <2> SUFFICES ASSUME NEW i \in 1..Len(q) + 1
               PROVE  m[i] = n[i]
    OBVIOUS
  <2>1. CASE i = Len(q) + 1
    BY <1>2, <1>3, <1>5, <2>1
  <2>2. CASE i \in 1..Len(q)
    BY <1>1, <1>2, <1>3, <1>5, <2>2
  <2> QED BY <1>1, <2>1, <2>2
<1>7. m \in Seq(C) /\ Len(m) = Len(q) + 1
  BY <1>3
<1> HIDE DEF m, n
<1>8. m = n
  <2>1. m \in Seq(C) /\ n \in Seq(C) /\ Len(m) = Len(n)
    BY <1>5, <1>7
  <2>2. \A i \in 1..Len(m) : m[i] = n[i]
    BY <1>6, <1>7
  <2> QED BY <2>1, <2>2, SeqEqual
<1> QED BY <1>8 DEF m, n

LEMMA ContextsTaken ==
  ASSUME NEW q \in Seq(Notice), q # <<>>
  PROVE  /\ Contexts(q) # <<>> /\ Head(Contexts(q)) = Changed(Head(q))
         /\ Contexts(Tail(q)) = Tail(Contexts(q))
<1> DEFINE C == {Changed(x) : x \in Notice}
<1>0. Len(q) \in Nat /\ 1 \in 1..Len(q)
  OBVIOUS
<1>1. /\ Contexts(q) \in Seq(C) /\ Len(Contexts(q)) = Len(q)
      /\ \A i \in 1..Len(q) : Contexts(q)[i] = Changed(q[i])
  BY ContextsShape
<1>2. /\ Tail(q) \in Seq(Notice) /\ Len(Tail(q)) = Len(q) - 1 /\ Head(q) = q[1]
      /\ \A i \in 1..Len(q) - 1 : Tail(q)[i] = q[i + 1]
  OBVIOUS
<1>3. /\ Contexts(Tail(q)) \in Seq(C) /\ Len(Contexts(Tail(q))) = Len(q) - 1
      /\ \A i \in 1..Len(q) - 1 : Contexts(Tail(q))[i] = Changed(Tail(q)[i])
  BY <1>2, ContextsShape
<1> DEFINE m == Contexts(Tail(q))
           p == Contexts(q)
<1>4. \A i \in 1..Len(q) - 1 : m[i] = p[i + 1]
  BY <1>0, <1>1, <1>2, <1>3
<1>5. p \in Seq(C) /\ Len(p) = Len(q) /\ m \in Seq(C) /\ Len(m) = Len(q) - 1 /\ p[1] = Changed(Head(q))
  BY <1>0, <1>1, <1>2, <1>3
<1> HIDE DEF C, m, p
<1>6. /\ p # <<>> /\ Head(p) = p[1] /\ Tail(p) \in Seq(C) /\ Len(Tail(p)) = Len(q) - 1
      /\ \A i \in 1..Len(q) - 1 : Tail(p)[i] = p[i + 1]
  BY <1>0, <1>1, <1>5
<1>7. m = Tail(p)
  <2>1. Tail(p) \in Seq(C) /\ m \in Seq(C) /\ Len(m) = Len(Tail(p))
    BY <1>5, <1>6
  <2>2. \A i \in 1..Len(m) : m[i] = Tail(p)[i]
    BY <1>4, <1>5, <1>6
  <2> QED BY <2>1, <2>2, SeqEqual
<1> QED BY <1>5, <1>6, <1>7 DEF m, p


-----------------------------------------------------------------------------
(* A task that has not answered has no answer in hand and has sent none.   *)
Answered == \A t \in Task : pc[t] # "done" => outcome[t].kind = "none" /\ t \notin sent

LEMMA AnsweredStays ==
  ASSUME Inv, Answered, [Next]_vars, UNCHANGED sent
  PROVE  Answered'
<1> SUFFICES ASSUME NEW t \in Task, pc'[t] # "done"
             PROVE  outcome'[t] = outcome[t] /\ pc[t] # "done"
  BY DEF Answered
<1>1. outcome \in [Task -> Outcome] /\ pc \in [Task -> Point]
  BY DEF Inv, TypeOK
<1>2. CASE UNCHANGED vars \/ Authenticate
  BY <1>2 DEF vars, Authenticate, taskVars
<1>3. ASSUME NEW u \in Task, Start(u)
      PROVE  outcome'[t] = outcome[t] /\ pc[t] # "done"
  BY <1>1, <1>3 DEF Start, Switch, SwitchBack, Goto
<1>4. ASSUME NEW u \in Task, Run(u)
      PROVE  outcome'[t] = outcome[t] /\ pc[t] # "done"
  BY <1>1, <1>4
  DEF Run, Resolve, EpochGate, SameTarget, Reject, TryBegin, SessionBegin, Rescope,
      RefreshCatalog, InsertToken, FlipScope, Persist, RevertToken, RevertScope, Fail,
      Publish, PushHistory, Goto, Return
<1> QED BY <1>2, <1>3, <1>4 DEF Next

LEMMA AnsweredInvariance == NoticesSpec => []Answered
<1>1. NoticesInit => Answered
  BY DEF NoticesInit, Init, Answered, Unfinished
<1>2. NoticesInv /\ Answered /\ [NoticesNext]_allVars => Answered'
  <2> SUFFICES ASSUME NoticesInv, Answered, [NoticesNext]_allVars
               PROVE  Answered'
    OBVIOUS
  <2>1. CASE [Next]_vars /\ UNCHANGED sent
    BY <2>1, AnsweredStays DEF NoticesInv
  <2>2. ASSUME NEW t \in Task, Send(t)
        PROVE  Answered'
    BY <2>2 DEF Send, vars, Answered
  <2> QED BY <2>1, <2>2 DEF NoticesNext, HandleNotice, allVars, noticeVars
<1> QED BY <1>1, <1>2, NoticesInvariance, PTL DEF NoticesSpec

(* What one task has in hand. *)
Holds(t, snapshot) ==
  \/ pc[t] = "history" /\ snapshot = Committed(t)
  \/ t \notin sent /\ outcome[t].kind = "ok" /\ snapshot = Carried(t)

LEMMA InHandIsHeld == \A s : s \in InHand <=> \E t \in Task : Holds(t, s)
BY DEF InHand, Holds

(* A step of one task at most changes what that task has in hand.          *)
LEMMA HandOfOne ==
  ASSUME NEW t \in Task, \A u \in Task : u # t => \A s : Holds(u, s)' <=> Holds(u, s)
  PROVE  /\ (\A s : Holds(t, s)' <=> Holds(t, s)) => InHand' = InHand
         /\ \A x : (\A s : Holds(t, s)' <=> Holds(t, s) \/ s = x) => InHand' = InHand \cup {x}
<1>1. \A s : s \in InHand' <=> \E u \in Task : Holds(u, s)'
  BY DEF InHand, Holds
<1>2. ASSUME \A s : Holds(t, s)' <=> Holds(t, s)
      PROVE  InHand' = InHand
  <2>1. \A s : s \in InHand' <=> s \in InHand
    BY <1>1, <1>2, InHandIsHeld
  <2> QED BY <2>1 DEF InHand
<1>3. ASSUME NEW x, \A s : Holds(t, s)' <=> Holds(t, s) \/ s = x
      PROVE  InHand' = InHand \cup {x}
  <2>1. \A s : s \in InHand' <=> s \in InHand \/ s = x
    BY <1>1, <1>3, InHandIsHeld
  <2> QED BY <2>1 DEF InHand
<1> QED BY <1>2, <1>3

(* What a step of the switcher puts into the tasks' hands: the context it  *)
(* commits, or the context in force when a task finds itself there.        *)
HandMoves ==
  \/ InHand' = InHand /\ Standing' = Standing
  \/ InHand' = InHand \cup {Standing'} /\ Standing' # Standing
  \/ /\ InHand' = InHand \cup {Standing} /\ IsIdle /\ Standing # NoSnapshot
     /\ UNCHANGED <<epoch, machine, active>>

LEMMA StepHands ==
  ASSUME NoticesInv, Answered, [Next]_vars, UNCHANGED sent
  PROVE  HandMoves
<1>1. /\ outcome \in [Task -> Outcome] /\ pc \in [Task -> Point] /\ attempt \in [Task -> Nat]
      /\ target \in [Task -> Scope \cup {None}] /\ machine \in MachineState
      /\ Inv
  BY DEF NoticesInv, Inv, TypeOK
<1>2. ASSUME UNCHANGED <<pc, outcome, target, attempt, machine>>
      PROVE  HandMoves
  <2>1. InHand' = InHand /\ Standing' = Standing
    BY <1>2 DEF InHand, Committed, Carried, Standing, IsIdle
  <2> QED BY <2>1 DEF HandMoves
<1>3. ASSUME NEW t \in Task, Start(t) \/ Run(t)
      PROVE  HandMoves
  <2>1. \A u \in Task : u # t => /\ pc'[u] = pc[u] /\ outcome'[u] = outcome[u]
                                 /\ target'[u] = target[u] /\ attempt'[u] = attempt[u]
    BY <1>1, <1>3
    DEF Start, Switch, SwitchBack, Run, Resolve, EpochGate, SameTarget, Reject, TryBegin,
        SessionBegin, Rescope, RefreshCatalog, InsertToken, FlipScope, Persist, RevertToken,
        RevertScope, Fail, Publish, PushHistory, Goto, Return
  <2>2. \A u \in Task : u # t => \A s : Holds(u, s)' <=> Holds(u, s)
    BY <2>1 DEF Holds, Committed, Carried
  <2>3. pc[t] # "done" => outcome[t].kind = "none" /\ t \notin sent
    BY DEF Answered
  <2>4. ASSUME pc[t] \notin {"done", "history"}, pc'[t] # "history",
               outcome'[t].kind \in {"none", "err"}, Standing' = Standing
        PROVE  HandMoves
    <3>1. \A s : ~Holds(t, s) /\ ~Holds(t, s)'
      BY <2>3, <2>4 DEF Holds
    <3> QED BY <2>2, <2>4, <3>1, HandOfOne DEF HandMoves
  <2>5. CASE Start(t) \/ Resolve(t) \/ EpochGate(t) \/ SessionBegin(t) \/ Rescope(t)
             \/ RefreshCatalog(t) \/ InsertToken(t) \/ FlipScope(t) \/ Persist(t)
             \/ RevertToken(t) \/ RevertScope(t)
    <3>1. /\ pc[t] \notin {"done", "history"} /\ pc'[t] # "history" /\ outcome' = outcome
          /\ machine' = machine
      BY <1>1, <2>5
      DEF Start, Switch, SwitchBack, Resolve, EpochGate, SessionBegin, Rescope, RefreshCatalog,
          InsertToken, FlipScope, Persist, RevertToken, RevertScope, Goto, sharedVars
    <3> QED BY <2>3, <2>4, <3>1 DEF Standing, IsIdle
  <2>6. CASE TryBegin(t)
    <3>1. pc[t] = "begin" /\ pc'[t] # "history" /\ outcome' = outcome
      BY <1>1, <2>6 DEF TryBegin, Goto
    <3>2. Standing' = Standing
      BY <2>6 DEF TryBegin, Standing, IsIdle, Switching
    <3> QED BY <2>3, <2>4, <3>1, <3>2
  <2>7. CASE Reject(t) \/ Fail(t)
    <3>1. pc[t] \in {"reject", "fail"} /\ pc'[t] = "done" /\ outcome'[t].kind = "err"
      BY <1>1, <2>7 DEF Reject, Fail, Return, Goto, Err
    <3>2. Standing' = Standing
      BY <2>7 DEF Reject, Fail, sharedVars, Standing, IsIdle, Idle
    <3> QED BY <2>4, <3>1, <3>2
  <2>8. CASE SameTarget(t)
    <3>1. CASE AlreadyThere(t)
      <4>1. /\ pc[t] = "noop" /\ pc'[t] = "done" /\ outcome'[t] = Ok(machine.current)
            /\ machine.current = Standing /\ UNCHANGED <<epoch, machine, active>> /\ IsIdle
        BY <1>1, <2>8, <3>1
        DEF SameTarget, AlreadyThere, Return, Goto, Standing, IsIdle, sharedVars
      <4>2. Standing # NoSnapshot
        <5>1. target[t] \in Scope /\ Standing.target = target[t]
          BY <1>1, <3>1, <4>1 DEF Inv, SwitchProgress, Aimed, AlreadyThere
        <5> QED BY <5>1, ScopeAssumption DEF NoSnapshot
      <4>3. outcome'[t].kind = "ok" /\ Carried(t)' = Standing
        BY <1>1, <4>1, StandingShape DEF Ok, Carried
      <4>4. \A s : Holds(t, s)' <=> Holds(t, s) \/ s = Standing
        BY <2>3, <4>1, <4>3 DEF Holds
      <4> QED BY <2>2, <4>1, <4>2, <4>4, HandOfOne DEF HandMoves
    <3>2. CASE ~AlreadyThere(t)
      <4>1. pc[t] = "noop" /\ outcome' = outcome /\ pc'[t] = "begin" /\ machine' = machine
        BY <1>1, <2>8, <3>2 DEF SameTarget, Return, Goto, sharedVars
      <4> QED BY <2>3, <2>4, <4>1 DEF Standing, IsIdle
    <3> QED BY <3>1, <3>2
  <2>9. CASE Publish(t)
    <3>1. /\ pc[t] = "publish" /\ pc'[t] = "history" /\ outcome' = outcome
          /\ target' = target /\ attempt' = attempt
          /\ machine' = Idle(Committed(t))
      BY <1>1, <2>9 DEF Publish, Goto, Committed
    <3>2. Standing' = Committed(t) /\ Committed(t)' = Committed(t)
      BY <3>1 DEF Standing, IsIdle, Idle, Committed
    <3>3. Standing' # Standing
      <4>1. attempt[t] = epoch /\ ~IsIdle
        BY <1>1, <3>1 DEF Inv, SingleSwitch, Critical, Switching, IsIdle
      <4>2. Standing.epoch < epoch /\ epoch \in Nat /\ Standing.epoch \in Nat
        BY <1>1, <4>1, StandingShape DEF Inv, EpochOrder
      <4>3. Committed(t).epoch = epoch
        BY <4>1 DEF Committed
      <4> QED BY <3>2, <4>2, <4>3
    <3>4. \A s : Holds(t, s)' <=> Holds(t, s) \/ s = Standing'
      BY <2>3, <3>1, <3>2 DEF Holds
    <3>5. InHand' = InHand \cup {Standing'}
      BY <2>2, <3>4, HandOfOne
    <3> QED BY <3>3, <3>5 DEF HandMoves
  <2>10. CASE PushHistory(t)
    <3>1. /\ pc[t] = "history" /\ pc'[t] = "done" /\ outcome'[t] = Ok(Committed(t))
          /\ machine' = machine
      BY <1>1, <2>10 DEF PushHistory, Return, Goto, Committed
    <3>2. outcome'[t].kind = "ok" /\ Carried(t)' = Committed(t)
      BY <3>1 DEF Ok, Carried, Committed
    <3>3. \A s : Holds(t, s)' <=> Holds(t, s)
      BY <2>3, <3>1, <3>2 DEF Holds
    <3>4. InHand' = InHand /\ Standing' = Standing
      BY <2>2, <3>1, <3>3, HandOfOne DEF Standing, IsIdle
    <3> QED BY <3>4 DEF HandMoves
  <2> QED BY <1>3, <2>5, <2>6, <2>7, <2>8, <2>9, <2>10 DEF Run
<1>4. CASE UNCHANGED vars \/ Authenticate
  BY <1>2, <1>4 DEF vars, Authenticate, taskVars
<1> QED BY <1>3, <1>4 DEF Next


-----------------------------------------------------------------------------
(* Each step is one of SwitchNotices, or none that it sees.                *)
LEMMA SwitcherNotices ==
  ASSUME NoticesInv, Answered, [Next]_vars, UNCHANGED noticeVars
  PROVE  [Notices!NoticesNext]_<<Notices!vars, InHand, Contexts(notices), shown>>
<1>1. UNCHANGED <<Contexts(notices), shown>>
  BY DEF noticeVars, Contexts
<1>2. HandMoves
  BY StepHands DEF noticeVars
<1>3. Notices!Next \/ UNCHANGED Notices!vars
  <2>1. [Contract!Next]_Contract!vars
    BY StepContract DEF NoticesInv
  <2> QED BY <2>1
      DEF Contract!Next, Contract!Begin, Contract!Activate, Contract!Revert, Contract!Commit,
          Contract!Abort, Contract!vars, Contract!HomeScope, Contract!NoSnapshot,
          Notices!Next, Notices!Begin, Notices!Activate, Notices!Revert, Notices!Commit,
          Notices!Abort, Notices!vars, Notices!HomeScope, Notices!NoSnapshot
<1>4. CASE InHand' = InHand /\ Standing' = Standing
  BY <1>1, <1>3, <1>4 DEF Notices!NoticesNext, Notices!SwitchMoves
<1>5. CASE InHand' = InHand \cup {Standing'} /\ Standing' # Standing
  <2>1. Notices!Next
    BY <1>3, <1>5 DEF Notices!vars
  <2> QED BY <1>1, <1>5, <2>1 DEF Notices!NoticesNext, Notices!SwitchMoves
<1>6. CASE /\ InHand' = InHand \cup {Standing} /\ IsIdle /\ Standing # NoSnapshot
           /\ UNCHANGED <<epoch, machine, active>>
  <2>1. UNCHANGED Notices!vars /\ Standing # Notices!NoSnapshot
    BY <1>6 DEF Notices!vars, Notices!NoSnapshot, NoSnapshot, IsIdle, Standing
  <2> QED BY <1>1, <1>6, <2>1 DEF Notices!NoticesNext, Notices!AskAgain
<1> QED BY <1>2, <1>4, <1>5, <1>6 DEF HandMoves

LEMMA SendNotices ==
  ASSUME NoticesInv, Answered, NEW t \in Task, Send(t)
  PROVE  Notices!NoticesNext
<1> DEFINE notice == [task |-> t, kind |-> outcome[t].kind, target |-> outcome[t].target,
                      epoch |-> outcome[t].epoch]
<1>1. /\ pc[t] = "done" /\ t \notin sent /\ sent' = sent \cup {t} /\ shown' = shown
      /\ notices' = Append(notices, notice) /\ UNCHANGED vars
  BY DEF Send
<1>2. OutcomeFits(t) /\ outcome[t] \in Outcome /\ notices \in Seq(Notice)
  BY DEF NoticesInv, NoticesTypeOK, Inv, TypeOK
<1>3. notice \in Notice /\ outcome[t].kind \in {"ok", "err"}
  BY <1>1, <1>2 DEF OutcomeFits, Outcome, Notice
<1>4. Changed(notice) = IF outcome[t].kind = "ok" THEN Carried(t) ELSE NoSnapshot
  BY <1>3 DEF Changed, Carried
<1> HIDE DEF notice
<1>5. Contexts(notices)' = Append(Contexts(notices), Changed(notice))
  <2>1. Contexts(notices)' = Contexts(notices')
    BY DEF Contexts
  <2> QED BY <1>1, <1>2, <1>3, <2>1, ContextsSent
<1>6. UNCHANGED Notices!vars
  BY <1>1 DEF vars, Notices!vars, IsIdle, Standing
<1>7. \A u \in Task : u # t => \A s : Holds(u, s)' <=> Holds(u, s)
  BY <1>1 DEF vars, Holds, Committed, Carried
<1>8. \A s : ~Holds(t, s)'
  BY <1>1 DEF vars, Holds
<1>9. CASE outcome[t].kind = "err"
  <2>1. \A s : Holds(t, s)' <=> Holds(t, s)
    BY <1>1, <1>8, <1>9 DEF Holds
  <2>2. InHand' = InHand
    BY <1>7, <2>1, HandOfOne
  <2> QED BY <1>1, <1>4, <1>5, <1>6, <1>9, <2>2
      DEF Notices!NoticesNext, Notices!SendOther, Notices!Other, Notices!NoSnapshot, NoSnapshot
<1>10. CASE outcome[t].kind = "ok"
  <2>1. \A s : Holds(t, s) <=> s = Carried(t)
    BY <1>1, <1>10 DEF Holds
  <2>2. Carried(t) \in InHand
    BY <2>1, InHandIsHeld
  <2>3. \A s : s \in InHand' <=> \E u \in Task : Holds(u, s)'
    BY DEF InHand, Holds
  <2>4. \A s : s \in InHand' => s \in InHand
    BY <1>7, <1>8, <2>3, InHandIsHeld
  <2>5. \A s : s \in InHand /\ s # Carried(t) => s \in InHand'
    BY <1>7, <2>1, <2>3, InHandIsHeld
  <2> DEFINE c == Carried(t)
             h == InHand
             k == InHand'
  <2>6. k = h \/ k = h \ {c}
    <3>1. (\A s : s \in k => s \in h) /\ (\A s : s \in h /\ s # c => s \in k)
      BY <2>4, <2>5
    <3> HIDE DEF c, h, k
    <3> QED BY <3>1
  <2>7. Notices!Tell(Carried(t))
    BY <1>6, <2>2, <2>6 DEF Notices!Tell
  <2>8. Notices!Send
    BY <1>4, <1>5, <1>10, <2>2, <2>7 DEF Notices!Send
  <2> QED BY <1>1, <2>8 DEF Notices!NoticesNext
<1> QED BY <1>3, <1>9, <1>10

LEMMA HandleNotices ==
  ASSUME NoticesInv, HandleNotice
  PROVE  Notices!NoticesNext
<1>1. notices # <<>> /\ notices' = Tail(notices) /\ UNCHANGED <<vars, sent>>
  BY DEF HandleNotice
<1>2. notices \in Seq(Notice)
  BY DEF NoticesInv, NoticesTypeOK
<1>3. Head(notices) \in Notice
      /\ (Head(notices).kind = "ok" => Head(notices).target \in Scope)
  BY <1>1, <1>2, QueueOperations DEF NoticesInv, NoticesFit
<1> PICK notice \in Notice : notice = Head(notices)
  BY <1>3
<1> DEFINE c == Changed(notice)
<1>4. /\ Contexts(notices) # <<>> /\ Head(Contexts(notices)) = c
      /\ Contexts(notices)' = Tail(Contexts(notices))
  <2>1. Contexts(notices)' = Contexts(notices')
    BY DEF Contexts
  <2> QED BY <1>1, <1>2, <2>1, ContextsTaken
<1>5. notice.kind \in {"ok", "err"}
  BY DEF Notice
<1>6. notice.kind = "err" => c = Notices!Other
  BY DEF Changed, Notices!Other, Notices!NoSnapshot, NoSnapshot
<1>7. notice.kind = "ok" => /\ c = [target |-> notice.target, epoch |-> notice.epoch]
                            /\ c # Notices!Other /\ (Notices!Stale(c) <=> Stale(notice))
  BY <1>3, ScopeAssumption
  DEF Changed, Notices!Other, Notices!NoSnapshot, Stale, Notices!Stale
<1> HIDE DEF c
<1>8. shown' = IF c = Notices!Other \/ Notices!Stale(c) THEN shown ELSE c
  BY <1>5, <1>6, <1>7 DEF HandleNotice
<1>9. UNCHANGED <<Notices!vars, InHand>>
  BY <1>1 DEF vars, Notices!vars, InHand, Committed, Carried, IsIdle, Standing
<1>10. Notices!Receive
  BY <1>4, <1>8, <1>9 DEF Notices!Receive
<1> QED BY <1>10 DEF Notices!NoticesNext

(* Tasks, queue and gate together are what SwitchNotices says of them: a   *)
(* context is told of only when it is committed, or in force and asked for *)
(* again, under the epoch of its commit; and what a later attempt has      *)
(* outdated is not shown.                                                  *)
THEOREM NoticesImplemented == NoticesSpec => ImplementsNotices
<1>1. NoticesInit => Notices!NoticesInit
  <2> SUFFICES ASSUME NoticesInit
               PROVE  Notices!NoticesInit
    OBVIOUS
  <2>1. Contract!Init
    BY InitContract DEF NoticesInit
  <2>2. Notices!Init
    BY <2>1 DEF Contract!Init, Contract!NoSnapshot, Notices!Init, Notices!NoSnapshot
  <2>3. InHand = {}
    BY DEF NoticesInit, Init, InHand, Unfinished
  <2>4. Contexts(notices) = <<>>
    BY DEF NoticesInit, Contexts
  <2> QED BY <2>2, <2>3, <2>4 DEF NoticesInit, Notices!NoticesInit, Notices!NoSnapshot, NoSnapshot
<1>2. NoticesInv /\ Answered /\ [NoticesNext]_allVars
        => [Notices!NoticesNext]_<<Notices!vars, InHand, Contexts(notices), shown>>
  BY SwitcherNotices, SendNotices, HandleNotices DEF NoticesNext, allVars
<1> QED BY <1>1, <1>2, NoticesInvariance, AnsweredInvariance, PTL
        DEF NoticesSpec, ImplementsNotices, Notices!NoticesSpec
=============================================================================
