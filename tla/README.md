# nexttui in TLA+

nexttui is a terminal UI for OpenStack. What makes it hard is not its screens but
what happens when the user changes the project (the *context*) while requests,
background refreshes and mutations are in flight: one token map, one active
scope, two unbounded queues, an epoch counter that tells old results from new
ones, tasks of a multi-threaded runtime that interleave at every `await`, and
some fifteen screens whose forms, dialogs and popups are open while late answers
arrive. These modules specify that, check it with TLC and prove the parts of it
that matter most with TLAPS.

## Inventory

| Component (`src/src/...`) | State | Operations | Talks to | Hard because | Correct when |
|---|---|---|---|---|---|
| Context switcher (`context/switcher.rs`, `state_machine.rs`, `history.rs`, `epoch.rs`) | state machine (Idle/Switching), epoch, one-slot history | `switch`, `switch_back`, `try_begin`, `commit`, `fail`, `push` | resolver, session port, App | every `:switch` is a task of its own; the resolver is awaited before the gate, the history is pushed after the machine is idle again | one switch at a time; all or nothing; every switch answers |
| Scoped session (`adapter/auth/scoped_session.rs`) | the handle of one switch | `begin`, `rescope`, `refresh_catalog`, `commit` and its self-revert | Keystone session, endpoint caches, token files | fails in the middle, after the new scope is active | the active scope is that of the committed context whenever no switch runs |
| Keystone session (`adapter/auth/keystone.rs`, `rescope.rs`) | active scope, token map, refresh lock, refresh loop | `get_token`, `refresh_token`, the loop, `set_active`, `rescope` | every request | scope and map have a lock each, logins are awaited between check and write, tokens expire | a token lies under its own scope; one login per expiry; every request is answered |
| Token cache (`adapter/auth/token_cache.rs`) | a file per scope | `save_token`, `store_scoped`, `load_all_tokens` | Keystone session | best-effort writes, restart | a reload never puts a token under a foreign scope |
| HTTP base client (`adapter/http/base.rs`, `endpoint_invalidator.rs`) | cached URL per service | `resolve_endpoint`, `invalidate_endpoint`, `request` | Keystone session | the cache is filled without a lock held over the catalog read; caches are cleared one by one before the scope moves; nothing keeps requests and a switch apart | a switch leaves no cached URL and no mixed pair of URL and token but by a request it has overtaken |
| Action channel, worker (`context/action_channel.rs`, `worker.rs`) | action queue, dedup keys, `polling_servers` | `send`, `run_worker`, `handle_action`, guards, two pollers | App, services | an action is stamped, checked and executed at three times; answers come in any order; a poller outlives the context it was started in | no result of a left context is shown; a list converges; no key is left behind; one poller per server; every outcome is told and recorded once |
| App (`app.rs`, `event_loop.rs`) | input mode, pane, popups, screen, event queue, modules | `handle_key`, `dispatch_action`, `handle_versioned_event`, `on_tick` | all of the above | the gate compares with an epoch every attempt bumps; six places may own a key | the screen is on the session's context; every key has one owner |
| RBAC and cross-project guards (`infra/rbac.rs`, `infra/cross_project_guard.rs`) | roles, project id | `update_roles`, `can_perform`, `check_origin_scope` | worker, adapters | cached at startup, used for ever | a mutation is executed where it was issued |
| Host evacuation (`module/host/`) | check marks, pending confirmation, evacuation task | keys, results, context change | worker, App | results are matched by server id and can be lost to the gate | every server is accounted for; only what was confirmed starts; it ends |
| Domain modules (`module/server`, `volume`, `floating_ip`, ...) | rows, cursor, view, dialog and pending action, popup, form, cached lists | keys, late answers, context change | App, worker | answers and switches arrive while a question is open; two-step flows wait for a list in between | a question names what was listed in the scope in force; an answer goes to what it was asked for |
| Form, dialog, popup, list (`ui/form.rs`, `confirm.rs`, `select_popup.rs`, `resource_list.rs`) | fields, focus, phase, popup; cursor | keys, `set_field_options`, `set_rows` | domain modules | options are reloaded in any phase | what is submitted is what the user chose |
| Shell (`router.rs`, `ui/sidebar.rs`, `ui/input_bar.rs`, `input/command.rs`) | route, mark, buffer, completion, command history | keys, `navigate`, `back`, `parse` | App | long sequences of legal keys | mode, bar, pane and popup fit together |
| Context resolver, project directory (`context/resolver.rs`, `adapter/auth/*director*.rs`, `keystone_domain_resolver.rs`) | two caches with a TTL | `resolve`, `list_projects` (paged), `resolve_name` | Keystone | caches outlive a token or a renaming; several awaits in one lookup | one project, the one asked for, on grounds no older than a TTL |
| Toasts and activity log (`background.rs`, `ui/activity_log.rs`) | toasts with a time, entries with a badge | `add_toast`, `expire_toasts`, `push` | App | only the first toast is drawn, a success removes the errors | no outcome escapes the user |
| Refresh scheduler (`ui/refresh.rs`) | tick count, rate, backoff | `tick`, `set_fast`, `backoff`, `reset` | App | the interval moves while ticks are counted | a screen rested on is refreshed within the longest interval |
| Audit log (`infra/audit.rs`) | the log and its rotated files | `log_entry`, `rotate_if_needed` | worker, App | several renames, any of which may fail | only the oldest lines are lost |
| Scope refilter (`adapter/http/scope_refilter.rs`, list methods of the adapters) | none of its own; reads RBAC's project and the all-tenants flag | `list_*`, `refilter_and_audit` | services, audit log | flag and session move while a list is in flight, and the fetch a toggle asks for is dropped as a duplicate | a list shows the scope's rows, under the flag as it is |

`PROJECT.json` has the full list with what is left out of each part, and the
hazards with their lines.

## Modules

| Module | Models | Run by |
|---|---|---|
| `SwitchContract` | what the switcher promises, without tasks, locks and calls: Begin, Activate, Revert, Commit, Abort | instantiated by `ContextSwitcher` |
| `SwitchNotices` | extends it by what the App comes to know of the switches: what is announced, when and under which epoch, and what the epoch gate lets through | instantiated by `ContextNotices` and `Dispatch` |
| `ContextSwitcher` | the tasks that make a switch, one action per stretch between two points where another task can run | `MCContextNotices` |
| `ContextNotices` | extends `ContextSwitcher` by the event queue, the epoch gate and the handler that puts a context on the screen | `MCContextNotices` |
| `KeystoneAuth` | token map, files, refresh lock, refresh loop, a switch's writes, time, restart | `MCKeystoneAuth` |
| `Dispatch` | action queue, worker and its tasks, dedup key, event queue, gate and screen; the switcher in it, with its notices, is `SwitchNotices` | `MCDispatch` |
| `EndpointCache` | the URL caches, requests, and a switch that clears and activates, all at once | `MCParts`, `MCEndpointCache` |
| `Operations` | a mutation from the key to its outcome: RBAC, the service, the pollers, toast, audit, progress | `MCOperations` |
| `DomainModule` | what all domain modules share: rows and cursor, view, dialog, popup, form, a context switch | |
| `ServerView`, `VolumeView`, `FloatingIpView`, `ListModules` | each extends it by the keys and answers of its module or, the last, of eleven modules that are lists of one kind | |
| `DomainModules` | the disjunction of these, one module on screen per behaviour | `MCDomainModules` |
| `Evacuation` | the host module's evacuation task, its confirmation, its results through the gate | `MCParts` |
| `Shell` | `handle_key` and `dispatch_action` with router, sidebar, input bar, command line, activity-log popup | `MCParts` |
| `FormWidget` | the form with its phases, popups, validation and late options | `MCParts` |
| `Directory` | name resolution over two caches, with projects, domain names and tokens that change | `MCParts` |
| `Listing` | a list from the request, through deduplication, to the refiltered rows on screen | `MCParts` |
| `Notices` | toasts and the activity log | `MCParts` |
| `Refresh` | the refresh interval | `MCParts` |
| `AuditFiles` | rotation of the audit log | `MCParts` |
| `Parts` | these nine parts, which share no state: one acts per behaviour | `MCParts` |
| `*_proofs` | the theorems of the module they are named after; `ContextSwitcher_proofs` has those of `ContextNotices`, `Parts_proofs` those of `Shell`, `FormWidget`, `Directory`, `Notices`, `Refresh` and `AuditFiles` | |

How they fit together: `ContextNotices` is the switch seen whole; `Dispatch`,
`Operations` and `DomainModules` see it only as what it does to them (a
generation begins, it is committed or not, `ContextChanged` arrives, perhaps more
than once). `Dispatch` has this by name: what the switch does there are the steps
of `SwitchNotices`, all of them up to the bound on switches, and that tasks, queue
and gate do nothing `SwitchNotices` does not allow is proved of `ContextNotices`
(`ImplementsNotices`). The one liberty `Dispatch` does not take is that of two
tasks with the same snapshot in hand: it sends the second after another
`SwitchToSame`, and where that is no longer possible the gate would drop it.
`Dispatch` has the fetches and `Operations` the mutations of one worker; `DomainModules` may receive a list at
any time and `ShowProgress` of `Operations` is the Servers module's part in it.
`Shell` hands keys to a module that has a dialog or a form, and `DomainModule`
says what the module does with them. The nine parts of `Parts` touch the rest at
one point each, which their own inputs cover: any outcome (`Notices`), any tick
or answer (`Refresh`), any switch (`Shell`, `Listing`, `Directory`, `Evacuation`), a switch's last steps (`EndpointCache`).

Variables carry the name of the field they stand for (the comment beside each
gives it). A context target, a token scope and the catalog that comes with the
scope's token are one value, a `Scope`; a token is its scope, how near it is to
its expiry and who wrote it; an event is its kind, stamp and scope. Formatting,
logging, wording and rendering are left out. Definitions whose comment begins
with "Mutant" are no part of the system: they are a plausible mistake in the
definition that follows, and each checked property is violated by one.

**ContextSwitcher.** `pc[t]` is where a task is. `Switch`, `Resolve`,
`EpochGate`, `SameTarget` are `ContextSwitcher::switch` up to `run_switch_to`;
`SwitchBack` is `switch_back`; `TryBegin` to `PushHistory` are
`run_switch_to` and the session calls in it, with the two lock acquisitions of
`set_active` apart (`InsertToken`, `FlipScope`; `RevertToken`, `RevertScope`
when `store_scoped` fails). `Authenticate` is a request's login, the only other
writer of the token map that matters here.

**ContextNotices.** `Send` is the end of the task `spawn_switch` or
`spawn_switch_back` starts, `HandleNotice` is the event loop taking one event
through `handle_versioned_event`.

**SwitchNotices.** A commit puts its snapshot in hand (`SwitchMoves`), and so does
`:switch` to the context already in force, the fast path at `switcher.rs:101`,
which changes nothing and returns the snapshot again (`AskAgain`); each time
`spawn_switch` sends `ContextChanged` under the epoch of the commit (`Send`). In
`ContextNotices` what is in hand is what the tasks hold between their commit, or
fast path, and their send (`InHand`), and the queue is the queue of notices with
the failures as `Other`; in `Dispatch` it is the one event queue with everything
else as `Other` (`Contexts`).

**KeystoneAuth.** `Ask`, `FastPath`, `LockRefresh`, `CheckAgain`, `Mint` are
`get_token` with the `refresh_token` it calls, which writes under the scope it has
read before its login (`refreshScope`); `LoopRead`, `LoopWake`,
`LoopLogin` the background loop; `Rescope` to `RevertFlip` what a switch does to
the map, the scope and the files; `Expire` is time; `Restart` ends the program
at any point and reloads the files.

**Dispatch.** `CheckIdle` and `Forward` are `dispatch_action`, split where a
switch can begin; `SendDirectly` stands for the senders that do not ask
`is_idle` (modules' own, `on_tick`, ToggleAllTenants). `RefuseAction`,
`SkipDuplicate`, `SpawnTask` are the worker's loop, `SendRequest`, `Succeed`,
`FailRequest`, `Finish` the spawned task. `DropStale` and `HandleEvent` are the
App's side. `SwitchStep`, `SwitchToSame` and `Announce` are steps of
`SwitchNotices`. `under` and `calm` in an action record, for the properties only, the
active scope and the rest of the switcher when the action was stamped.

**EndpointCache.** Requests and a switch interleave freely, as nothing in the code
keeps them apart. A scope stands for its token and for the catalog that came with
it. `raced` records, in a request, that a switch was in progress while it was, or
that it took its URL from a cache such a request had filled, and of a service that
its cached URL is of that origin: what the code promises is about the others.

**Operations.** Every `Action` that changes something is a name in one of the
sets of `action_to_kind`; the sets `Toasted`, `Audited`,
`FollowsMigration`, `FollowsStatus` are the match arms of the functions their
comments name. `CheckIdle` and
`Forward` are the two halves of `dispatch_action`, between which a switch can begin
or end (App itself does nothing else there); `SendDirectly` is a form or the Hosts
screen, which ask nothing. `home` records on which context's screen an operation was
asked for, if no switch was in flight when it was stamped and the screen had seen the
context in force. A job goes queued, spawned, answered, polling, stopped, ended. A
service may carry out a request and lose the answer. `SeeContext` is the
`ContextChanged` of the context in force. It does not pass through the queue of
this module: the task that has it in hand may send it at any time while that
context is in force, once or, after a repeated `:switch`, again, and afterwards
the gate drops it.

**Domain modules.** A resource is the scope it was listed in and a number, so
that a stale one can be told. A question is the `ConfirmDialog` with how it wants
to be answered and the `PendingAction` it waits with. Lists arrive at any time;
the other answers only when they were asked for (`asked`). `ContextChanged` either
brings a new scope, and then no answer asked for before comes through the gate any
more, or announces the one in force again, and then they still do.

**Shell.** Servers, Images and Hosts stand for all modules: one with a dialog and
a form, one with neither, one that can be busy. Keys are the actions; whose key
it is, is `DialogHasKey`, `CommandHasKey`, `FormHasKey`, `SidebarHasKey`,
`ComponentHasKey`, in the order of `handle_key`.

**FormWidget.** A text is empty, refused by a rule, or good; options come in any
order and number at any time (`SetFieldOptions`). `chosen` records what the user
moved to or ticked.

**Directory.** `grantAge`, `nameAge` record how long ago a role and a name were
in force; `recent` what was within a TTL before the lookup under way began, or since.
Time passes and Keystone changes during a lookup too, between any two of its
requests. A lookup carries what its steps have found.

**Listing.** `ToggleAllTenants` and `AskAgain` put a request in the worker's queue,
`TakeRequest` and `DropDuplicate` are the dedup key, `StartFetch` to `ReleaseKey` the
task, which reads the flag when it first runs, `TakeAnswer` the App. A request or an
answer carries whether a switch has made it one of an earlier epoch. `auditing` and
`guardScope` are what startup found: without an audit log the adapters have no scope
to filter by and keep everything.

**Evacuation.** The queue is a set, since its order comes from a `HashSet`;
`run` in a request tells apart what the program cannot. `SwitchToSame` has the
context in force announced again: the task is dropped, its results are not. `Refusable` lets RBAC or
the origin guard refuse a request.

## What the runs check

Passing runs (each property is stated in words above its definition):

| Run | Properties | Bounds, and why they are enough |
|---|---|---|
| `notices` | `SingleSwitch`, `ActiveHasToken`, `HistoryOlder`, `SessionFollowsMachine`, refinement `ImplementsNotices` (which includes `ImplementsContract`), `ShownIsInForce`, `LastCommitShown`, `EverySwitchAnswers` | 2 tasks, 3 scopes: one switch overtakes the other's history push or its notice; a scope to come from, one to go to, one to be lost. Liveness, so no symmetry |
| `keystone` | `RequestsAndSwitchesFitKey`, `InitialKeyIsInitial`, `RefreshNotRepeated`, `EveryRequestAnswered` | 2 requests (one waits for the other's lock), 2 scopes, one switch that may be taken back (so the scope leaves the initial one and returns), one restart |
| `dispatch` | `DataNotOlderThanScreen`, `KeyIsHeldByOneFetch` | 2 worker tasks, 2 pieces of work in flight, 2 switches (away and back), fetches |
| `dispatch_live` | `AcceptableIsInForce`, `ListConverges` | 1 worker task, 2 pieces of work, one mutation, one switch; liveness |
| `modules` | `QuestionFitsScope`, `FormHasKeys`, `SubnetsFitDetail`, `PortFitsServer`, `SwitchedThenTyped` | every kind of module, 2 resources per scope (one to ask about, one to move to), 2 scopes, one switch |
| `operations` | `PolledByOneTask`, `ProgressIsFollowed`, `ProgressFitsContext`, `EveryOutcomeTold`, `EveryChangeAudited`, `EveryTaskEnds` | 2 operations on one server out of one of each way to be gated, followed, told and recorded; creation from a form among them, the others through App; 1 poll before the limit; 1 switch |
| `parts` | `EveryServerAccounted`, `StartOnlyConfirmed`, `EvacuationEnds`, `KeysHaveAnOwner`, `DialogKeepsKeys`, `ChoiceIsUsers`, `ResolvedAsAsked`, `CatalogFreshUnlessRaced`, `UrlFitsToken`, `FlagTakesEffect`, `OutcomeReachesUser`, `RefreshInTime`, `OnlyOldestIsLost` | see below |

In `parts`: an evacuation of 2 servers one at a time (so one is queued while the
other is in flight), 2 runs, 2 switches, one evacuation from the server list; the
shell with one remembered command and one typed; forms of three layouts with 2
options that reload in any order; 2 projects in 2 domains, 3 names (one nobody
has), 2 tokens, a TTL of 2 ticks, so that entries age before they expire, and one
change at Keystone, to a role or a name; 2 requests of 2 services and one switch,
stored or taken back, at any point of either request (what holds over any number of
switches and domain changes is proved); 5 rows of 2 tenants, 2 toggles or switches,
2 requests and 2 answers on their way (one under the old flag, one dropped or late),
for each of the three ways a service filters, with and without an audit log and
RBAC's project; a log of
2 entries, toasts of 1 and 2 time units, 4 outcomes, 3 toasts at once; rates of 3
and 1 ticks with backoff to 4 times; 3 rotated files, 6 generations.

The bounds on tasks, requests, operations, switches and runs are the only ones;
each stops the user or the environment, never the program. `CHECK_DEADLOCK FALSE`
stands where the user may stop and every task can be done. Every module has a
type invariant (`TypeOK`, or one with the module's name): it held in these runs
when added to them, and where a module has proofs it is part of what is proved.

Runs that end in a counterexample, each for a sentence of the repository:

| Run | Property | What happens |
|---|---|---|
| `granted_fits` | `GrantedFitsKey` | the refresh loop guards the scope it finds after its sleep and writes under the one it read before |
| `form_mode` | `FormModeHasForm` | a `...Created` event closes the form that is open by then, and the App stays in Form mode without one |
| `form_required` | `SubmittedIsValid` | options that arrive while a form is being confirmed take away a required choice, and it is submitted |
| `catalog_fresh` | `CatalogFresh` | a request from before a switch writes the old scope's URL into a cache the switch has cleared already, and it stays |
| `list_scope` | `ListFitsContext` | after a switch lists are still filtered with the project of startup |

### Known divergences without a run

Met while modelling. Where a definition is named, it is in the module named with
it, and adding it to the cfg named shows the trace:

- the screen stays on the old context when a second attempt bumps the epoch
  before the first's `ContextChanged` is handled, and then fails
  (`ScreenFollowsSession`, ContextNotices; MCContextNotices.cfg);
- the origin guard compares the startup project with itself, since nothing calls
  `update_roles` at a switch (`MutationsStayInScope`, Dispatch; MCDispatchLive.cfg);
- a failed switch drops evacuation results in flight, and the host module is busy
  for good (`BusyMeansEvacuating`, Evacuation; MCParts.cfg);
- a server resized on this screen can be offered the verdict on a migration, which
  RBAC keeps for admins (`ResizeIsVerifiedAsResize`, DomainModules; MCDomainModules.cfg
  with `Kinds = {"server"}`, `MaxScope = 1`, `ServerStatuses <- Resizing`);
- an outcome is never drawn when its toast is queued behind another
  (`OutcomeIsDrawn`, Notices; MCParts.cfg);
- polling is started by any answer that is not `ApiError`, also by an expired
  session (`PollsFollowSuccess`, Operations; MCOperations.cfg with `Spec`,
  `MaxAsked = 1`, `MaxSwitches = 0`);
- a `VolumeCreated` that arrives while a volume's attachments are offered for
  detaching returns to the list and leaves the popup open
  (`volume/mod.rs:686`); `handle_list_key` takes it for "attach server selection"
  (`volume/mod.rs:257`) and asks whether to attach the volume to the server whose
  id is the attachment's (`AttachNamesServer`, DomainModules; MCDomainModules.cfg
  with `Kinds = {"volume"}`, `MaxScope = 1`). This came up in the proof of
  `QuestionsOfScope`, which has to say what an open popup offers.

Others, by part:

- *Switch.* `:switch-back` can lead to the context one is on: two tasks commit in
  one order and push their history in the other (`switcher.rs`, after step 6).
  The report of a failed switch is dropped by the gate when another attempt has
  begun (`app.rs:1740` says the stamp survives).
- *Tokens.* `get_token` serves a rescoped token with less than five minutes left
  when the scope or the clock moves between its guard and its fast path
  (`keystone.rs:451`). The refresh loop logs in without the refresh lock
  (`keystone.rs:435`).
- *Worker.* It has no epoch gate (`action_channel.rs:5`), and only
  `dispatch_action` looks at `is_idle` (`switcher.rs:226`). The refresh sent at a
  context change is dropped as a duplicate of the old context's fetch
  (`app.rs:632`); the list converges with the next tick only, which is why
  `ListConverges` assumes the tick. `active_tenant` is the startup project for
  ever (`worker.rs:137`).
- *Requests.* One that is in progress while a switch is may take one scope's URL and
  the other's token (`base.rs:85`), and later ones do so too while its URL is cached.
- *Operations.* What App checked before a switch and sent during it, what a form or
  the Hosts screen sent during it, and what was asked for between the commit and its
  `ContextChanged`, bears the new epoch: its results pass the gate, and the
  old scope's migration progress can come up on the new screen.
  `ServerEvacuated` is never emitted. Auditing comes after the epoch
  gate, so what finishes after a switch is not recorded; flavors and verdicts on
  resizes and migrations never are. A failed switch drops
  `MigrationPollingStopped`; a poller of an earlier epoch keeps its server from
  being followed in the new one; the refresh after a terminal poll can be dropped
  as a duplicate, until the tick. `is_admin` is not updated after a switch;
  `TokenRefreshed`, which would clear RBAC's project, is never sent.
- *Evacuation.* `:switch` to the context in force drops a running evacuation task
  (`on_context_changed`), while its results, of the same epoch, still pass the gate
  and are counted by the next run for the same servers. Its cap is exceeded when a result of another evacuation of the
  same server arrives (`evac_task.rs:79`), and the marks in the list are lost with
  every reload.
- *Toasts.* An Info toast expires undrawn during an error toast; Info and Success
  of one tick expire together; an error queued behind an Info is removed by a
  Success undrawn. The activity log still has them, which is `OutcomeReachesUser`.
- *Audit rotation.* A failed rotation tried again drops one old file too many; if
  the reopening fails the writer goes on in `.1` until the restart.
- *Lists.* The fetches a toggle of `all_tenants` sends are dropped as duplicates of
  one in flight, whose rows, of the old flag, then stand under the new one until the
  next refresh (`FlagTakesEffect` says that they go). If the audit log cannot be
  opened, the refilter has no scope and keeps every row (`neutron_audit.rs:104`,
  `nova.rs:72`), although RBAC has a project. A list in flight over a switch makes
  audit entries of violations that are none. Only the first page is fetched.
- *Directory.* A lookup in flight puts back what `invalidate_cloud` removed. A
  domain's old name decides for a TTL after it was renamed.
- *Shell.* `q` and `:` are not blocked while a module is busy
  (`docs/plans/2026-04-03-host-module-design.md:209`, `:697` say so); "Back to
  Hosts" leaves the sidebar visible; a completion prefix survives
  `ContextChanged`; `:hosts` is not gated by the admin role; the activity-log popup
  swallows Ctrl+C, while a comment says it always quits; Ctrl+A works in dialogs
  and forms.
- *Domain modules.* Project's and user's "Domain" choice is ignored. A late
  `PortsLoaded` opens a dialog or popup in another view, and one opened while
  ports are in flight is misread; the volume and floating IP popups act on the row
  selected by the time they are answered. `ProjectCreated` and `UserCreated` leave
  a form behind with the view on the list. Cached lists (networks, images, flavors
  for a form) survive `on_context_changed`, which is why `QuestionFitsScope` is
  about rows and questions only. `set_all_tenants` and `set_admin` replace the
  list. `ShowToast` sent through the action channel is lost in the worker. The
  selected rule of a security group is stale after a reload.
- *Usage.* Its fetch is not deduplicated and `UsageLoaded` carries no range, so an
  older range's answer can stand under the new title; any `ApiError` becomes its
  error; the scroll offset survives a shorter list.

## Fairness

Weak fairness is assumed only of what the runtime or a timeout guarantees: a
started task is polled and its HTTP calls end within the client's 30 s; the
event loop and the worker poll their queues; a switch that began ends. The user
is never fair, time is not, the refresh loop is not. `ListConverges` assumes two
things more, and says so: the refresh tick recurs (`on_tick` while the user is
in normal mode), and a fetch that is tried over and over is not refused by the
backend every time (strong fairness of `Succeed`). `EvacuationEnds` allows an
evacuation to be starved of a lost result, since the code does lose them.
`EveryTaskEnds` needs of a poller only that each of its requests ends: the limit
on their number does the rest; App is assumed to finish sending what it has
checked. `FlagTakesEffect` assumes what `ListConverges` does: the tick recurs
(`AskAgain`) and a list asked for over and over is answered in the end (strong
fairness of `FetchAnswered`). The other parts have no liveness property and no
fairness.

## Proofs

Every invariant and every action property of the passing runs is a theorem of
its module's specification, without further hypotheses. Each rests on one inductive invariant, called `Inv`
(or one per part in `Parts_proofs`), which TLC checked on the run's instance
before it was proved, and each proof has a step per action. What the invariants
add to the properties, and why they have to:

**`ContextSwitcher_proofs`**, for any set of tasks and scopes: `TypeCorrect`,
`SwitchesAreSerial`, `SessionAgreesAtRest`, `ActiveScopeHasToken`,
`HistoryIsOlder`, `Refinement`, and `NoticesKeepSwitcher`, `ScreenInForce`,
`NoticesImplemented` of `ContextNotices`. A task that leaves `begin` must find no other inside, which
needs that the machine is Switching exactly while a task is inside; that the
session is back on the machine's context at rest needs, for each program point,
where the active scope is and what `previous` holds; the history's age needs
that a finished task's `preSwitch` is older than what it committed. The
refinement maps `switching` to "not Idle" and `current` to the context a failure
would restore; `FlipScope` is Activate, `RevertScope` Revert, `Publish` Commit,
`Fail` Abort, `TryBegin` Begin, the rest stutters. The notices add to the
switcher's state and take nothing from it, so its theorems hold with them.
`ScreenInForce` (`ShownIsInForce`) needs that a finished task's outcome, a notice
in the queue and what is on the screen are each either what the machine has
committed or of an earlier epoch (`InForceOrOld`). `NoticesImplemented` maps what
the tasks hold to `announcing`: `Publish` puts a snapshot there, `SameTarget` the
one in force, and a send takes it out unless another task holds the same. It needs
that a task has no outcome before it is done and has sent nothing before it has one
(`Answered`).

**`EndpointCache_proofs`**, for any services, scopes and requests, with no
hypothesis: `TypeCorrect`, `CachesFresh`, `RequestsConsistent`. The invariant says
which caches `invalidate_all` has already passed, that a request no switch has
overtaken holds the active scope's URL, and, while a switch runs, that every request
under way is marked and every cache filled meanwhile by one of them too.

**`KeystoneAuth_proofs`**, for any requests, scopes and number of logins and
restarts: `TypeCorrect`, `WritersKeepKeys`, `InitialKeyKept`, `OneLogin`. Who
writes under which key depends on what was read some steps before, so the
invariant says what a switch has staged and what it may put back (`StagedFits`,
`FallbackFits`), that what it may put back is no fresher than what lies there
now (`FallbackAges`), and who holds the refresh lock, and that nobody passes the
guard under it but with the initial scope in hand (`LockHeld`). `OneLogin`
(`RefreshNotRepeated`) needs `LoginNeeded`: while a login is under way there is no
token that would do, neither in the map nor in what a failing switch puts back.

**`Dispatch_proofs`**, for any worker, any number of pieces of work and switches:
`TypeCorrect`, `DataKeepsUp`, `KeyFollowsFetch`, `GateSeparatesScopes`,
`NoticesImplemented`. To begin a
switch is to begin an epoch, so a stamp of the present epoch made while no switch
ran is still that, and what was obtained on it is of the scope still active. The
invariant says so of actions, tasks and events (`ActionsFit`, `TasksFit`,
`EventsFit`), and that neither they nor the screen are of an epoch to come. `NoticesImplemented` is the other
half of the link to the switch, that nothing is lost of it in the traffic: the worker's answers and the App's own handling of them are `Other`
events or stutters of `SwitchNotices`, so the notices among them arrive as they do
in `ContextNotices`. TLC agrees on the instance of `MCDispatch.cfg` when
`ImplementsNotices` is added there.

**`Operations_proofs`**, for any operations on any servers, any number of polls
and switches: `TypeCorrect`, `OnePollerPerServer`, `ProgressIsOfContext`,
`OutcomesAreTold`, `ChangesAreAudited`, `ProgressIsKeptUp`. That a second toast
cannot come needs `OneAnswer` (an operation has no answer in the queue before its
task sends it, at most one afterwards, and nothing is told while it waits there),
that an answer finds its operation needs `EventsFit`, that RBAC refuses only what
is queued needs `QueueFits`, that a poller has a server needs `OnServerFits`.
`ProgressIsOfContext` needs that an operation with the present stamp and a home was
sent on the screen as it is now (`HomeFits`), and that what is shown stays of one with
the screen's home, or none, until a `ContextChanged` takes it away (`ShownFits`).
`ProgressIsKeptUp` adds `FollowInv`: a report on the way has a poller that will
answer for it, and what is shown has one too, or its end is on the way.

**`Evacuation_proofs`**, for any finite set of servers and any cap: `TypeCorrect`,
`ServersAccounted`, `ConfirmedBeforeStart`. `Accounted` says it
without cardinalities: queue, in flight and results are apart and together what
was asked, and no server has two results. The action property needs that while
the question stands what is checked is what it was about, or nothing any more,
and then nothing is started (`QuestionStands`).

**`DomainModules_proofs`**, for every kind of module, any statuses and any number
of switches: `TypeCorrect`, `QuestionsOfScope`, `TypedAfterSwitch`,
`PortsOfServer`, `SubnetsOfNetwork`, `FormsHaveKeys`. A question gets its resource
from the selected row, from the resource a view shows, from one a flow holds, or
from a popup, so each must be of the scope of the rows (`ListFits`, `ViewFits`,
`FlowFits`, `PopupFits`). `PortFitsServer` needs that the ports a popup offers are
those of the server chosen last, which holds because no answer for that server is
awaited any more once the popup is open (`PortsFit`). `AskedStep` is the step
where they meet. The number of resources per scope stays what the runs have, two:
it is a definition of the module (`ResourceIds`) and no constant.

**`Parts_proofs`**: `KeysAlwaysHaveAnOwner`, `DialogHasTheKeys` and
`SwitchGoesWhereAsked` (any commands, names, projects and domains),
`ChoicesAreUsers` (any layout, any options), `OutcomesReachUser`, `RefreshComesInTime` (any two rates, backoff up to
1, 2, 4 or 8 times: the code's limit is 8), `OnlyOldestLinesAreLost` (any number
of files). The log of outcomes holds the newest in order, and what it holds as
read was told. The time waited never exceeds the interval in force, which is at
most the rate times the backoff. A form's cursors lie in the lists they point
into. What a cache holds was in force when it was put there, so at a lookup's
start it was no longer ago than the TTL; what is read later is newer, and
`recent`, fixed at the start and only added to, has it all however long the lookup
takes. In the middle of a rotation the files
have a gap which moves down, so the place a rename writes to is free or older
than all that is kept.

The assumptions are those of the modules: the initial scope is a scope, `None`
is no scope, server, slot, operation, request, command or dialog, bounds are
naturals, `Caches` is a sequence of services, `Asked` names operations of the
program, the servers of a host and the projects of a cloud are finitely many, a
project or a token to look with exists. TLC evaluates them in the runs.

Only model-checked: liveness, which is out of the prover's reach as `ENABLED` is
(`LastCommitShown`, `EverySwitchAnswers`, `EveryRequestAnswered`,
`ListConverges`, `EvacuationEnds`, `EveryTaskEnds`, `FlagTakesEffect`), and the
five counterexamples. `Listing` has no theorem: its one property that holds is a
liveness property.

## Plan

Done: the switch and its notices, tokens, dispatch, endpoint caches, evacuation,
operations with their pollers, the domain modules, the shell, forms, the
directory, lists, toasts, refresh, audit rotation; the proofs of what the runs
check of their safety; and one abstract view of a switch (`SwitchNotices`) which
the detailed modules and `Dispatch` are both proved to implement. Left: the same
for `Operations`, `Evacuation` and `DomainModules`, which see a switch by its
effects on them and keep no queue of notices of their own.

## Not modelled

- `infra/cache.rs` and the cancellation registry: nothing in the program uses
  them, a model would have no caller to be faithful to. The operations
  `BackgroundTracker` can track are never sent; its toasts are in `Notices`.
- The usage view: it keeps an answer and a range and asks nothing of the user;
  what is wrong with it is said above. The migration screen is a placeholder.
- Service adapters apart from the scope refilter, `models/`, `port/`,
  `registry.rs`: a request built, a reply parsed, a declaration. Their outcomes
  are inputs of `Dispatch`, `Operations` and `Listing`.
- Rendering (`render`, view models, `theme.rs`, `detail_view.rs`, cell layout),
  `config.rs`, `main.rs` beyond what it wires, `demo.rs`: no state that a step of
  another part could contradict.

The map covers 29 % of the lines of the repository's Rust code that are not inline
tests (nearly half of all lines are tests); what remains is, line for line, the
list above.
