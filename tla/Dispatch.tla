------------------------------ MODULE Dispatch ------------------------------
(***************************************************************************)
(* An action's way from the user to the backend and its result's way back  *)
(* to the screen, across context switches: App::dispatch_action and        *)
(* ActionSender::send (src/app.rs, src/context/action_channel.rs), the     *)
(* worker's loop and tasks (src/worker.rs), and the epoch gate and event   *)
(* handler of the App.                                                     *)
(*                                                                         *)
(* The switcher and its notices are what SwitchNotices says of them, which *)
(* ContextNotices implements.  The App is one task, the worker's loop      *)
(* another, and each action the worker accepts a third, so all of them     *)
(* interleave.                                                             *)
(*                                                                         *)
(* Abstracted: actions are list fetches of one kind (one dedup key) and    *)
(* mutations; what the backend does with a request is only told by the     *)
(* scope its token was for.  Left out: pollers, toasts, audit, forms.      *)
(***************************************************************************)
EXTENDS Naturals, Sequences, FiniteSets

CONSTANTS Scope, InitialScope, None,
          Slot,          \* bound: worker tasks that run at once
          MaxInFlight,   \* bound: work pending when the user asks for more
          MaxMutations,  \* bound: mutations the user issues
          MaxSwitches    \* bound: context switches

ASSUME ScopeAssumption == InitialScope \in Scope /\ None \notin Scope
ASSUME BoundAssumption == {MaxInFlight, MaxMutations, MaxSwitches} \subseteq Nat

VARIABLES
  epoch, switching, current, active,  \* the switcher, see SwitchContract
  announcing, \* snapshots whose ContextChanged is not yet sent
  project,    \* RbacGuard.project_id
  forwarding, \* the App is past its is_idle check with this kind, or None
  issued,     \* mutations issued so far
  actions,    \* action_rx
  task,       \* worker tasks
  fetching,   \* the fetch's key is in in_flight_fetches
  events,     \* event_rx
  shown,      \* snapshot of the last ContextChanged the App handled
  data,       \* the fetched list on the screen
  effects     \* scopes each mutation was issued and executed under

switchVars == <<epoch, switching, current, active>>
appVars == <<forwarding, issued, shown, data>>
vars == <<epoch, switching, current, active, announcing, project, forwarding, issued,
          actions, task, fetching, events, shown, data, effects>>

(* A queue of events as far as it is about contexts. *)
Changed(event) == IF event.kind = "changed" THEN [target |-> event.scope, epoch |-> event.epoch]
                  ELSE [target |-> None, epoch |-> 0]
Contexts(queue) == [i \in DOMAIN queue |-> Changed(queue[i])]

Switcher == INSTANCE SwitchNotices WITH queue <- Contexts(events)

-----------------------------------------------------------------------------
Kind == {"fetch", "mutate"}

(* DispatchedAction in its VersionedEvent.  `under` and `calm` record, for *)
(* the properties, the session's scope and rest as the action was stamped. *)
Action == [kind: Kind, origin: Scope \cup {None}, epoch: Nat,
           under: Scope, calm: BOOLEAN]

Free == [stage |-> "free", action |-> None, ran |-> None]
Running(action) == [stage |-> "spawned", action |-> action, ran |-> None]
Task == {Free}
  \cup [stage: {"spawned"}, action: Action, ran: {None}]
  \cup [stage: {"sent", "answered"}, action: Action, ran: Scope]

EventKind == {"changed", "loaded", "done", "failed", "refused"}
Event == [kind: EventKind, epoch: Nat, scope: Scope \cup {None}, calm: BOOLEAN]

NoData == [scope |-> None, epoch |-> 0]

Working(s) == task[s].stage \in {"spawned", "sent"}
InFlight == Len(actions) + Len(events) + Cardinality({s \in Slot : Working(s)})

TypeOK ==
  /\ Switcher!TypeOK
  /\ announcing \in SUBSET Switcher!Snapshot
  /\ project \in Scope \cup {None}
  /\ forwarding \in Kind \cup {None}
  /\ issued \in 0..MaxMutations
  /\ actions \in Seq(Action)
  /\ task \in [Slot -> Task]
  /\ fetching \in BOOLEAN
  /\ events \in Seq(Event)
  /\ shown \in Switcher!Snapshot \cup {Switcher!NoSnapshot}
  /\ data \in [scope: Scope, epoch: Nat] \cup {NoData}
  /\ effects \in SUBSET [issued: Scope, executed: Scope]

(* main.rs reads the project from the first token, if there is one, before *)
(* the worker starts; nothing writes it afterwards.                        *)
Init ==
  /\ Switcher!Init
  /\ announcing = {}
  /\ project \in {InitialScope, None}
  /\ forwarding = None
  /\ issued = 0
  /\ actions = <<>>
  /\ task = [s \in Slot |-> Free]
  /\ fetching = FALSE
  /\ events = <<>>
  /\ shown = Switcher!NoSnapshot
  /\ data = NoData
  /\ effects = {}

-----------------------------------------------------------------------------
(* ActionSender::send: stamp the epoch, and a mutation's origin.           *)
Stamped(kind) ==
  [kind |-> kind, origin |-> IF kind = "mutate" THEN project ELSE None,
   epoch |-> epoch, under |-> active, calm |-> ~switching]

SendAction(kind) == actions' = Append(actions, Stamped(kind))

Ask(kind) ==
  /\ InFlight < MaxInFlight
  /\ kind = "mutate" => issued < MaxMutations
  /\ issued' = IF kind = "mutate" THEN issued + 1 ELSE issued

(* dispatch_action looks at is_idle(), and then sends; a switch may begin  *)
(* in between.                                                             *)
CheckIdle(kind) ==
  /\ forwarding = None
  /\ ~switching
  /\ Ask(kind)
  /\ forwarding' = kind
  /\ UNCHANGED <<switchVars, announcing, project, actions, task, fetching, events,
                 shown, data, effects>>

Forward ==
  /\ forwarding # None
  /\ SendAction(forwarding)
  /\ forwarding' = None
  /\ UNCHANGED <<switchVars, announcing, project, issued, task, fetching, events,
                 shown, data, effects>>

(* A module's own ActionSender, on_tick's auto-refresh and ToggleAllTenants *)
(* send without that check.                                                *)
SendDirectly(kind) ==
  /\ forwarding = None
  /\ Ask(kind)
  /\ SendAction(kind)
  /\ UNCHANGED <<switchVars, announcing, project, forwarding, task, fetching, events,
                 shown, data, effects>>

-----------------------------------------------------------------------------
(* run_worker *)

(* check_dispatched_origin *)
OriginAllowed(action) == action.origin \in {None, project}

(* Mutant: no deduplication. *)
NoDuplicate(action) == FALSE

(* A parameterless fetch whose key is taken is dropped without a trace.    *)
Duplicate(action) == action.kind = "fetch" /\ fetching

Refuse(action) ==
  events' = Append(events, [kind |-> "refused", epoch |-> action.epoch,
                            scope |-> None, calm |-> action.calm])

(* The origin guard and RBAC refuse mutations only. *)
RefuseAction ==
  /\ actions # <<>>
  /\ Head(actions).kind = "mutate"
  /\ Refuse(Head(actions))
  /\ actions' = Tail(actions)
  /\ UNCHANGED <<switchVars, announcing, project, appVars, task, fetching, effects>>

SkipDuplicate ==
  /\ actions # <<>>
  /\ Duplicate(Head(actions))
  /\ actions' = Tail(actions)
  /\ UNCHANGED <<switchVars, announcing, project, appVars, task, fetching, events, effects>>

SpawnTask(s) ==
  /\ actions # <<>>
  /\ OriginAllowed(Head(actions))
  /\ ~Duplicate(Head(actions))
  /\ task[s] = Free
  /\ task' = [task EXCEPT ![s] = Running(Head(actions))]
  /\ fetching' = (fetching \/ Head(actions).kind = "fetch")
  /\ actions' = Tail(actions)
  /\ UNCHANGED <<switchVars, announcing, project, appVars, events, effects>>

(* handle_action: the request takes the token of the scope now active. *)
SendRequest(s) ==
  /\ task[s].stage = "spawned"
  /\ task' = [task EXCEPT ![s] = [@ EXCEPT !.stage = "sent", !.ran = active]]
  /\ effects' = IF task[s].action.kind = "mutate"
                  THEN effects \cup {[issued |-> task[s].action.under, executed |-> active]}
                  ELSE effects
  /\ UNCHANGED <<switchVars, announcing, project, appVars, actions, fetching, events>>

(* Mutant: a result is stamped with the epoch of its arrival. *)
AnswerStampedNow(s, kind) ==
  /\ task[s].stage = "sent"
  /\ events' = Append(events, [kind |-> kind, epoch |-> epoch,
                               scope |-> task[s].ran, calm |-> task[s].action.calm])
  /\ task' = [task EXCEPT ![s] = [@ EXCEPT !.stage = "answered"]]
  /\ UNCHANGED <<switchVars, announcing, project, appVars, actions, fetching, effects>>

(* Its answer goes out under the action's stamp. *)
Answer(s, kind) ==
  /\ task[s].stage = "sent"
  /\ events' = Append(events, [kind |-> kind, epoch |-> task[s].action.epoch,
                               scope |-> task[s].ran, calm |-> task[s].action.calm])
  /\ task' = [task EXCEPT ![s] = [@ EXCEPT !.stage = "answered"]]
  /\ UNCHANGED <<switchVars, announcing, project, appVars, actions, fetching, effects>>

Succeed(s) == Answer(s, IF task[s].action.kind = "fetch" THEN "loaded" ELSE "done")
FailRequest(s) == Answer(s, "failed")

(* Mutant: the dedup key stays taken. *)
FinishKeepsKey(s) ==
  /\ task[s].stage = "answered"
  /\ task' = [task EXCEPT ![s] = Free]
  /\ UNCHANGED <<switchVars, announcing, project, appVars, actions, fetching, events, effects>>

(* Only then the dedup key is released and the task ends. *)
Finish(s) ==
  /\ task[s].stage = "answered"
  /\ fetching' = (fetching /\ task[s].action.kind # "fetch")
  /\ task' = [task EXCEPT ![s] = Free]
  /\ UNCHANGED <<switchVars, announcing, project, appVars, actions, events, effects>>

-----------------------------------------------------------------------------
(* Mutant: no gate. *)
NeverStale(event) == FALSE

(* handle_versioned_event, handle_event *)
Stale(event) == event.epoch < epoch

DropStale ==
  /\ forwarding = None
  /\ events # <<>>
  /\ Stale(Head(events))
  /\ events' = Tail(events)
  /\ UNCHANGED <<switchVars, announcing, project, appVars, actions, task, fetching, effects>>

(* ContextChanged: the modules drop their lists and fetch anew. *)
HandleChanged(event) ==
  /\ event.kind = "changed"
  /\ shown' = [target |-> event.scope, epoch |-> event.epoch]
  /\ data' = NoData
  /\ SendAction("fetch")

HandleLoaded(event) ==
  /\ event.kind = "loaded"
  /\ data' = [scope |-> event.scope, epoch |-> event.epoch]
  /\ UNCHANGED <<shown, actions>>

(* A server operation's result refreshes the list. *)
HandleDone(event) ==
  /\ event.kind = "done"
  /\ SendAction("fetch")
  /\ UNCHANGED <<shown, data>>

HandleOther(event) ==
  /\ event.kind \in {"failed", "refused"}
  /\ UNCHANGED <<shown, data, actions>>

HandleEvent ==
  /\ forwarding = None
  /\ events # <<>>
  /\ ~Stale(Head(events))
  /\ \/ HandleChanged(Head(events)) \/ HandleLoaded(Head(events))
     \/ HandleDone(Head(events)) \/ HandleOther(Head(events))
  /\ events' = Tail(events)
  /\ UNCHANGED <<switchVars, announcing, project, forwarding, issued, task, fetching, effects>>

-----------------------------------------------------------------------------
(* The switcher's steps, and the notices of its tasks (spawn_switch). *)
SwitchStep ==
  /\ Switcher!SwitchMoves
  /\ epoch' <= MaxSwitches
  /\ UNCHANGED <<project, appVars, actions, task, fetching, events, effects>>

(* :switch to the context in force. *)
SwitchToSame ==
  /\ InFlight < MaxInFlight
  /\ Switcher!AskAgain
  /\ UNCHANGED <<project, appVars, actions, task, fetching, events, effects>>

Announce ==
  \E snapshot \in announcing :
    /\ Switcher!Tell(snapshot)
    /\ announcing' = announcing \ {snapshot}
    /\ events' = Append(events, [kind |-> "changed", epoch |-> snapshot.epoch,
                                 scope |-> snapshot.target, calm |-> TRUE])
    /\ UNCHANGED <<project, appVars, actions, task, fetching, effects>>

User == \E kind \in Kind : CheckIdle(kind) \/ SendDirectly(kind)
Worker == RefuseAction \/ SkipDuplicate \/ \E s \in Slot : SpawnTask(s)
Work(s) == SendRequest(s) \/ Succeed(s) \/ FailRequest(s) \/ Finish(s)
App == Forward \/ DropStale \/ HandleEvent

Next == User \/ App \/ Worker \/ (\E s \in Slot : Work(s)) \/ SwitchStep
        \/ SwitchToSame \/ Announce

Spec == Init /\ [][Next]_vars

(* The loops are polled and requests end (30 s timeouts); the refresh tick *)
(* recurs while the user is in normal mode; and a fetch that is tried over *)
(* and over is not refused by the backend every time.                      *)
FairSpec ==
  /\ Spec
  /\ WF_vars(App) /\ WF_vars(Announce)
  /\ WF_vars(SkipDuplicate \/ \E s \in Slot : SpawnTask(s))
  /\ WF_vars(SendDirectly("fetch"))
  /\ \A s \in Slot : WF_vars(Work(s)) /\ SF_vars(Succeed(s))

-----------------------------------------------------------------------------
(* The list on screen never stems from a generation before the context the *)
(* screen is on: no result of a request stamped before a switch survives   *)
(* the switch's ContextChanged (handle_versioned_event).                   *)
DataNotOlderThanScreen == data # NoData => data.epoch >= shown.epoch

(* What the gate is for: a result that would still be accepted, of an      *)
(* action stamped while no switch was in flight, was obtained under the    *)
(* scope now in force.                                                     *)
AcceptableIsInForce ==
  \A i \in DOMAIN events :
    events[i].calm /\ ~Stale(events[i]) /\ events[i].kind \in {"loaded", "done", "failed"}
      => events[i].scope = active

(* The dedup key is taken exactly while one fetch runs: no second request  *)
(* for the same list, and no key left behind that would stop all refreshes *)
(* (in_flight_fetches).                                                    *)
FetchRuns(s) == task[s] # Free /\ task[s].action.kind = "fetch"
KeyIsHeldByOneFetch ==
  /\ fetching <=> \E s \in Slot : FetchRuns(s)
  /\ \A s, t \in Slot : FetchRuns(s) /\ FetchRuns(t) => s = t

(* Once the user stops switching, the list comes to be the present scope's *)
(* and stays so, whatever was lost, skipped or late on the way.            *)
ListConverges == <>[](~switching /\ announcing = {}) => <>[](data.scope = active)

(* However other events come between them, the App takes the notices of    *)
(* the switches as if they were alone in the queue.                        *)
ImplementsNotices == Switcher!NoticesSpec

(* action_channel.rs: the worker can "reject TOCTOU mismatches where a     *)
(* mutation queued under one scope is consumed under another".             *)
MutationsStayInScope == \A x \in effects : x.issued = x.executed
=============================================================================
