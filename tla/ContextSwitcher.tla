-------------------------- MODULE ContextSwitcher --------------------------
(***************************************************************************)
(* The runtime context switch (src/context/switcher.rs) together with the  *)
(* state machine, epoch counter and one-slot history it owns and the       *)
(* session port it drives (src/adapter/auth/scoped_session.rs).            *)
(*                                                                         *)
(* Every `:switch` and `:switch-back` the user enters is a task of its own *)
(* (App::spawn_switch, App::spawn_switch_back), so any number of them run  *)
(* at once on the multi-threaded runtime.  A step is what one task does    *)
(* between two points at which another can run: an await, or one           *)
(* acquisition of a lock shared with the others.                           *)
(*                                                                         *)
(* Abstracted: a context target is its token scope; of the token map only  *)
(* the keys are kept (module KeystoneAuth has the tokens).  Left out:      *)
(* CancellationRegistry::cancel_below, since nothing in the program        *)
(* registers with the registry, and rollback, which does nothing.          *)
(***************************************************************************)
EXTENDS Naturals

CONSTANTS Task,          \* spawned switch tasks
          Scope,         \* token scopes of the contexts a task may ask for
          InitialScope,  \* scope of the configured credential
          None           \* stands for Option::None

ASSUME ScopeAssumption == InitialScope \in Scope /\ None \notin Scope

VARIABLES
  epoch,      \* ContextEpoch.value
  machine,    \* SwitchStateMachine.state
  history,    \* ContextHistoryStore.previous
  active,     \* KeystoneAuthAdapter.active_scope
  tokens,     \* keys of KeystoneAuthAdapter.token_map
  pc,         \* where each task is
  entry,      \* entry_epoch of a `:switch` task
  target,     \* the target the task resolved, or took from the history
  attempt,    \* new_epoch, the epoch its try_begin returned
  previous,   \* SessionHandle.previous_scope
  preSwitch,  \* pre_switch, what the task will push into the history
  outcome     \* what the task returned to App::spawn_switch

sharedVars == <<epoch, machine, history, active, tokens>>
taskVars == <<pc, entry, target, attempt, previous, preSwitch, outcome>>
vars == <<epoch, machine, history, active, tokens,
          pc, entry, target, attempt, previous, preSwitch, outcome>>

-----------------------------------------------------------------------------
Snapshot == [target: Scope, epoch: Nat]
NoSnapshot == [target |-> None, epoch |-> 0]
MaybeSnapshot == Snapshot \cup {NoSnapshot}

Idle(snapshot) == [mode |-> "Idle", current |-> snapshot]
Switching(scope, started, prior) ==
  [mode |-> "Switching", target |-> scope, started |-> started, prior |-> prior]

MachineState ==
  [mode: {"Idle"}, current: MaybeSnapshot]
    \cup [mode: {"Switching"}, target: Scope, started: Nat, prior: MaybeSnapshot]

IsIdle == machine.mode = "Idle"

(* The context in force: the committed one, or while a switch runs the one *)
(* that a failure would restore.                                           *)
Standing == IF IsIdle THEN machine.current ELSE machine.prior

Unfinished == [kind |-> "none", target |-> None, epoch |-> 0]
Ok(snapshot) == [kind |-> "ok", target |-> snapshot.target, epoch |-> snapshot.epoch]
Err(stamp) == [kind |-> "err", target |-> None, epoch |-> stamp]
Outcome == [kind: {"none", "ok", "err"}, target: Scope \cup {None}, epoch: Nat]

(* The program points between a successful try_begin and the commit or     *)
(* fail that ends it.                                                      *)
Critical == {"session", "rescope", "catalog", "insert", "flip", "persist",
             "reinsert", "reflip", "fail", "publish"}

Point == Critical \cup {"ready", "resolve", "gate", "noop", "begin", "history",
                        "reject", "done"}

TypeOK ==
  /\ epoch \in Nat
  /\ machine \in MachineState
  /\ history \in MaybeSnapshot
  /\ active \in Scope
  /\ tokens \in SUBSET Scope
  /\ pc \in [Task -> Point]
  /\ entry \in [Task -> Nat]
  /\ target \in [Task -> Scope \cup {None}]
  /\ attempt \in [Task -> Nat]
  /\ previous \in [Task -> Scope \cup {None}]
  /\ preSwitch \in [Task -> MaybeSnapshot]
  /\ outcome \in [Task -> Outcome]

(* main.rs carries on when the first authentication fails, so the token of *)
(* the initial scope may be missing at first.                              *)
Init ==
  /\ epoch = 0
  /\ machine = Idle(NoSnapshot)
  /\ history = NoSnapshot
  /\ active = InitialScope
  /\ tokens \in {{}, {InitialScope}}
  /\ pc = [t \in Task |-> "ready"]
  /\ entry = [t \in Task |-> 0]
  /\ target = [t \in Task |-> None]
  /\ attempt = [t \in Task |-> 0]
  /\ previous = [t \in Task |-> None]
  /\ preSwitch = [t \in Task |-> NoSnapshot]
  /\ outcome = [t \in Task |-> Unfinished]

Goto(t, from, to) == pc[t] = from /\ pc' = [pc EXCEPT ![t] = to]

Return(t, from, result) ==
  /\ Goto(t, from, "done")
  /\ outcome' = [outcome EXCEPT ![t] = result]

-----------------------------------------------------------------------------
(* :switch -- read the epoch, then await the resolver. *)
Switch(t) ==
  /\ Goto(t, "ready", "resolve")
  /\ entry' = [entry EXCEPT ![t] = epoch]
  /\ UNCHANGED <<sharedVars, target, attempt, previous, preSwitch, outcome>>

(* The resolver's answer: any known context, or an error. *)
Resolve(t) ==
  /\ \/ /\ Goto(t, "resolve", "gate")
        /\ \E scope \in Scope : target' = [target EXCEPT ![t] = scope]
     \/ /\ Goto(t, "resolve", "reject")
        /\ UNCHANGED target
  /\ UNCHANGED <<sharedVars, entry, attempt, previous, preSwitch, outcome>>

(* Entry-epoch gate: another switch began while this one was resolving. *)
EpochGate(t) ==
  /\ \/ epoch = entry[t] /\ Goto(t, "gate", "noop")
     \/ epoch # entry[t] /\ Goto(t, "gate", "reject")
  /\ UNCHANGED <<sharedVars, entry, target, attempt, previous, preSwitch, outcome>>

(* committed_snapshot() is None while a switch runs. *)
AlreadyThere(t) == IsIdle /\ machine.current.target = target[t]

SameTarget(t) ==
  /\ \/ /\ AlreadyThere(t)
        /\ Return(t, "noop", Ok(machine.current))
     \/ /\ ~AlreadyThere(t)
        /\ Goto(t, "noop", "begin")
        /\ UNCHANGED outcome
  /\ UNCHANGED <<sharedVars, entry, target, attempt, previous, preSwitch>>

(* :switch-back -- peek at the history; neither gate applies. *)
SwitchBack(t) ==
  /\ \/ /\ history = NoSnapshot
        /\ Goto(t, "ready", "reject")
        /\ UNCHANGED target
     \/ /\ history # NoSnapshot
        /\ Goto(t, "ready", "begin")
        /\ target' = [target EXCEPT ![t] = history.target]
  /\ UNCHANGED <<sharedVars, entry, attempt, previous, preSwitch, outcome>>

(* Errors raised before try_begin succeeds carry the epoch read on return. *)
Reject(t) ==
  /\ Return(t, "reject", Err(epoch))
  /\ UNCHANGED <<sharedVars, entry, target, attempt, previous, preSwitch>>

(* Mutant: the check for Idle is missing. *)
TryBeginUnchecked(t) ==
  /\ Goto(t, "begin", "session")
  /\ epoch' = epoch + 1
  /\ machine' = Switching(target[t], epoch + 1, Standing)
  /\ attempt' = [attempt EXCEPT ![t] = epoch + 1]
  /\ UNCHANGED <<history, active, tokens, entry, target, previous, preSwitch, outcome>>

(* Check for Idle and bump under one lock. *)
TryBegin(t) ==
  /\ \/ /\ IsIdle
        /\ Goto(t, "begin", "session")
        /\ epoch' = epoch + 1
        /\ machine' = Switching(target[t], epoch + 1, machine.current)
        /\ attempt' = [attempt EXCEPT ![t] = epoch + 1]
     \/ /\ ~IsIdle
        /\ Goto(t, "begin", "reject")
        /\ UNCHANGED <<epoch, machine, attempt>>
  /\ UNCHANGED <<history, active, tokens, entry, target, previous, preSwitch, outcome>>

-----------------------------------------------------------------------------
(* session.begin refuses a switch with no token to fall back on. *)
SessionBegin(t) ==
  /\ \/ /\ active \in tokens
        /\ Goto(t, "session", "rescope")
        /\ previous' = [previous EXCEPT ![t] = active]
     \/ /\ active \notin tokens
        /\ Goto(t, "session", "fail")
        /\ UNCHANGED previous
  /\ UNCHANGED <<sharedVars, entry, target, attempt, preSwitch, outcome>>

(* Mutant: a failed rescope is tried again instead of failing the switch. *)
RescopeAgain(t) ==
  /\ \/ Goto(t, "rescope", "catalog")
     \/ Goto(t, "rescope", "session")
  /\ UNCHANGED <<sharedVars, entry, target, attempt, previous, preSwitch, outcome>>

(* Keystone grants the token of the target, or the transition is off. *)
Rescope(t) ==
  /\ \/ Goto(t, "rescope", "catalog")
     \/ Goto(t, "rescope", "fail")
  /\ UNCHANGED <<sharedVars, entry, target, attempt, previous, preSwitch, outcome>>

(* Clears the endpoint caches (module EndpointCache); cannot fail. *)
RefreshCatalog(t) ==
  /\ Goto(t, "catalog", "insert")
  /\ UNCHANGED <<sharedVars, entry, target, attempt, previous, preSwitch, outcome>>

(* Mutant: the scope first. *)
FlipBeforeInsert(t) ==
  /\ Goto(t, "insert", "flip")
  /\ active' = target[t]
  /\ UNCHANGED <<epoch, machine, history, tokens,
                 entry, target, attempt, previous, preSwitch, outcome>>

(* set_active: the token first, the scope second, each under its own lock. *)
InsertToken(t) ==
  /\ Goto(t, "insert", "flip")
  /\ tokens' = tokens \cup {target[t]}
  /\ UNCHANGED <<epoch, machine, history, active,
                 entry, target, attempt, previous, preSwitch, outcome>>

FlipScope(t) ==
  /\ Goto(t, "flip", "persist")
  /\ active' = target[t]
  /\ UNCHANGED <<epoch, machine, history, tokens,
                 entry, target, attempt, previous, preSwitch, outcome>>

(* Writing the token file can fail; commit then reverts itself. *)
Persist(t) ==
  /\ \/ Goto(t, "persist", "publish")
     \/ Goto(t, "persist", "reinsert")
  /\ UNCHANGED <<sharedVars, entry, target, attempt, previous, preSwitch, outcome>>

RevertToken(t) ==
  /\ Goto(t, "reinsert", "reflip")
  /\ tokens' = tokens \cup {previous[t]}
  /\ UNCHANGED <<epoch, machine, history, active,
                 entry, target, attempt, previous, preSwitch, outcome>>

(* Mutant: the failed commit does not go back to the previous scope. *)
RevertNoScope(t) ==
  /\ Goto(t, "reflip", "fail")
  /\ UNCHANGED <<sharedVars, entry, target, attempt, previous, preSwitch, outcome>>

RevertScope(t) ==
  /\ Goto(t, "reflip", "fail")
  /\ active' = previous[t]
  /\ UNCHANGED <<epoch, machine, history, tokens,
                 entry, target, attempt, previous, preSwitch, outcome>>

(* Mutant: a failure forgets the context that was in force. *)
FailForgets(t) ==
  /\ Return(t, "fail", Err(attempt[t]))
  /\ machine' = Idle(NoSnapshot)
  /\ UNCHANGED <<epoch, history, active, tokens,
                 entry, target, attempt, previous, preSwitch>>

Fail(t) ==
  /\ Return(t, "fail", Err(attempt[t]))
  /\ machine' = Idle(Standing)
  /\ UNCHANGED <<epoch, history, active, tokens,
                 entry, target, attempt, previous, preSwitch>>

(* previous_in_flight() and commit() are two lock acquisitions, but only   *)
(* this task can change the machine between them.                          *)
Publish(t) ==
  /\ Goto(t, "publish", "history")
  /\ preSwitch' = [preSwitch EXCEPT ![t] =
                     IF IsIdle THEN NoSnapshot ELSE machine.prior]
  /\ machine' = Idle([target |-> target[t], epoch |-> attempt[t]])
  /\ UNCHANGED <<epoch, history, active, tokens,
                 entry, target, attempt, previous, outcome>>

(* Mutant: the new snapshot is pushed, not the one before the switch. *)
PushCommitted(t) ==
  /\ Return(t, "history", Ok([target |-> target[t], epoch |-> attempt[t]]))
  /\ history' = [target |-> target[t], epoch |-> attempt[t]]
  /\ UNCHANGED <<epoch, machine, active, tokens,
                 entry, target, attempt, previous, preSwitch>>

(* Push the pre-switch snapshot; a first-ever switch empties the slot. *)
PushHistory(t) ==
  /\ Return(t, "history", Ok([target |-> target[t], epoch |-> attempt[t]]))
  /\ history' = preSwitch[t]
  /\ UNCHANGED <<epoch, machine, active, tokens,
                 entry, target, attempt, previous, preSwitch>>

(* A request's get_token authenticates for the initial scope, which is the *)
(* only scope whose token the credential can renew.                        *)
Authenticate ==
  /\ InitialScope \notin tokens
  /\ tokens' = tokens \cup {InitialScope}
  /\ UNCHANGED <<epoch, machine, history, active, taskVars>>

-----------------------------------------------------------------------------
Start(t) == Switch(t) \/ SwitchBack(t)

Run(t) ==
  \/ Resolve(t) \/ EpochGate(t) \/ SameTarget(t) \/ Reject(t) \/ TryBegin(t)
  \/ SessionBegin(t) \/ Rescope(t) \/ RefreshCatalog(t)
  \/ InsertToken(t) \/ FlipScope(t) \/ Persist(t)
  \/ RevertToken(t) \/ RevertScope(t) \/ Fail(t)
  \/ Publish(t) \/ PushHistory(t)

Next == Authenticate \/ \E t \in Task : Start(t) \/ Run(t)

Spec == Init /\ [][Next]_vars

-----------------------------------------------------------------------------
(* try_begin is the one serialisation point: a task between its try_begin  *)
(* and its commit or fail is alone there, the machine holds its attempt,   *)
(* and the epoch has not moved since; and a machine left in Switching has  *)
(* such a task, so it is never stuck there (switcher.rs, step 2).          *)
SingleSwitch ==
  /\ \A t \in Task : pc[t] \in Critical =>
       machine = Switching(target[t], epoch, machine.prior) /\ attempt[t] = epoch
  /\ \A t, u \in Task : pc[t] \in Critical /\ pc[u] \in Critical => t = u
  /\ ~IsIdle => \E t \in Task : pc[t] \in Critical

(* set_active orders its two writes so that current_token never finds the  *)
(* scope of a switch without a token (keystone.rs, set_active).            *)
ActiveHasToken == active # InitialScope => active \in tokens

(* The history slot is older than the context in force, whatever order     *)
(* concurrent tasks push in (history.rs; switcher.rs, step 7).             *)
HistoryOlder == history # NoSnapshot => history.epoch < Standing.epoch

(* With no switch in flight, requests are authenticated for the context    *)
(* the machine reports, also after a commit that reverted itself.          *)
HomeScope == IF Standing = NoSnapshot THEN InitialScope ELSE Standing.target
SessionFollowsMachine == IsIdle => active = HomeScope

Contract == INSTANCE SwitchContract
              WITH switching <- ~IsIdle, current <- Standing

(* The tasks together do what the contract says: one switch at a time, an  *)
(* epoch of its own for each, and all or nothing for scope and snapshot.   *)
ImplementsContract == Contract!Spec

(* Every switch the user asks for comes to an answer, whatever the other   *)
(* tasks do and wherever the network or the disk fails it; under fairness  *)
(* for the started tasks (module ContextNotices).                          *)
EverySwitchAnswers == \A t \in Task : pc[t] # "ready" ~> pc[t] = "done"
=============================================================================
