----------------------------- MODULE Operations -----------------------------
(***************************************************************************)
(* What becomes of a mutation the user has asked for: RBAC in the worker's *)
(* loop, the task that calls the service, the poller that follows a        *)
(* server's migration or status afterwards, and on the screen the progress *)
(* toast, the outcome's toast and activity-log entry, the audit entry and  *)
(* the migration progress of the Servers module, across context switches.  *)
(*                                                                         *)
(* Module Dispatch has the origin stamp, list fetches and their            *)
(* deduplication, also those that a result triggers; they are left out     *)
(* here.  A session's roles do not change (TokenRefreshed is never sent).  *)
(***************************************************************************)
EXTENDS Naturals, Sequences, FiniteSets

CONSTANTS Server, None,
          Asked,        \* the operations a behaviour may ask for
          MaxAsked,     \* bound: operations asked for, a slot each
          MaxPolls,     \* bound: MAX_POLLS
          MaxSwitches   \* bound: context switches begun

ASSUME BoundAssumption == {MaxAsked, MaxPolls, MaxSwitches} \subseteq Nat

-----------------------------------------------------------------------------
(* The operations, by the ActionKind that gates them (action_to_kind). *)
Creates == {"CreateServer", "CreateFlavor", "CreateNetwork", "CreateSecurityGroup",
            "CreateSecurityGroupRule", "CreateFloatingIp", "CreateVolume",
            "CreateSnapshot", "CreateImage", "CreateServerSnapshot",
            "RebootServer", "StartServer", "StopServer", "ExtendVolume"}
Deletes == {"DeleteServer", "DeleteFlavor", "DeleteSecurityGroup",
            "DeleteSecurityGroupRule", "DeleteFloatingIp", "DeleteSnapshot",
            "DeleteImage", "DeleteVolume"}
ForceDeletes  == {"ForceDeleteVolume", "ForceDetachVolume", "ForceResetVolumeState"}
Resizes       == {"ResizeServer", "ConfirmResize", "RevertResize"}
Migrates      == {"LiveMigrateServer", "ColdMigrateServer",
                  "ConfirmMigration", "RevertMigration"}
Evacuates     == {"EvacuateServer"}
EnableDisables == {"EnableComputeService", "DisableComputeService"}
Attaches      == {"AttachVolume", "AssociateFloatingIp"}
Detaches      == {"DetachVolume", "DisassociateFloatingIp"}
ManageQuotas  == {"CreateProject", "DeleteProject", "CreateUser", "DeleteUser"}

Operation == UNION {Creates, Deletes, ForceDeletes, Resizes, Migrates, Evacuates,
                    EnableDisables, Attaches, Detaches, ManageQuotas}

ASSUME AskedAssumption == Asked \subseteq Operation

(* RbacGuard::can_perform and is_admin_only_action.                        *)
Role == {"reader", "member", "admin"}
AdminOnly == UNION {ForceDeletes, Migrates, Evacuates, EnableDisables, ManageQuotas}
MayPerform(role, op) ==
  \/ role = "admin"
  \/ role = "member" /\ op \notin AdminOnly

(* poll_migration_server_id, poll_server_id_for_status *)
FollowsMigration == {"LiveMigrateServer", "ColdMigrateServer"}
FollowsStatus    == Resizes \cup {"RebootServer", "StartServer", "StopServer"}
OnServer == UNION {FollowsMigration, FollowsStatus, Evacuates,
                   {"ConfirmMigration", "RevertMigration"}}

(* The operations whose success is toasted (generate_toast), and audited   *)
(* (build_audit_entry).                                                    *)
Toasted == Operation \ (Evacuates \cup EnableDisables)

(* Mutant: what is created leaves no trace. *)
AuditedLess ==
  Operation \ UNION {Evacuates, Creates, {"DeleteFlavor"},
                     Resizes \ {"ResizeServer"}, {"ConfirmMigration", "RevertMigration"}}

Audited ==
  Operation \ UNION {Evacuates, {"CreateFlavor", "DeleteFlavor"},
                     Resizes \ {"ResizeServer"}, {"ConfirmMigration", "RevertMigration"}}

(* The answers that end what the Servers module shows of a migration. *)
EndsProgress == {"LiveMigrateServer", "ConfirmMigration", "RevertMigration"}

(* What modules send to the worker themselves, past App::dispatch_action:  *)
(* their forms, and the Hosts screen.  A server's detail evacuates too,    *)
(* through App.                                                            *)
SentByModules ==
  {"CreateServer", "CreateFlavor", "CreateNetwork", "CreateSecurityGroup",
   "CreateSecurityGroupRule", "CreateFloatingIp", "CreateVolume", "CreateImage",
   "CreateProject", "CreateUser", "EvacuateServer"}
SentByApp == (Operation \ SentByModules) \cup Evacuates

-----------------------------------------------------------------------------
Slot == 1..MaxAsked

VARIABLES
  role,      \* EffectiveRole
  epoch, switching,  \* the switcher's generation; a switch is in flight
  standing,  \* the epoch of the context in force, 0 while there is none
  forwarding,  \* what App has checked and not yet sent, or None
  job,       \* what was sent to the worker, by slot
  actions,   \* action_rx
  polled,    \* polling_servers
  events,    \* event_rx
  progress,  \* migration_progress: a server, or None
  source,    \* history: the slot whose event set it; 0 for None
  landed     \* history: the epoch of the last ContextChanged handled

switcher == <<epoch, switching, standing>>
screen == <<progress, source, landed>>
vars == <<role, switcher, forwarding, job, actions, polled, events, screen>>

Stages == {"queued", "spawned", "answered", "polling", "stopped", "ended"}

(* done: the service carried it out; polls: requests a poller made;        *)
(* toasts, audits: how often the outcome was told and recorded; home: the  *)
(* context of the screen it was asked on, or None if it was sent with a    *)
(* switch in flight or another context in force.                           *)
Job == [op: Asked, on: Server \cup {None}, epoch: Nat, stage: Stages, done: BOOLEAN,
        success: BOOLEAN, polls: 0..MaxPolls, toasts: Nat, audits: Nat,
        home: Nat \cup {None}]

AnswerKinds == {"succeeded", "failed", "expired", "blocked", "denied"}
Event == [kind: AnswerKinds, of: Slot, epoch: Nat]
    \cup [kind: {"progress", "polling stopped", "status"}, of: Slot, epoch: Nat]

ASSUME NoneAssumption == None \notin Server /\ None \notin Job

Order == [slot: Slot, op: Asked, on: Server \cup {None}]

TypeOK ==
  /\ role \in Role
  /\ epoch \in 0..MaxSwitches /\ switching \in BOOLEAN /\ standing \in 0..epoch
  /\ forwarding \in Order \cup {None}
  /\ job \in [Slot -> Job \cup {None}]
  /\ actions \in Seq(Slot)
  /\ polled \subseteq Server
  /\ events \in Seq(Event)
  /\ progress \in Server \cup {None}
  /\ source \in Slot \cup {0} /\ landed \in 0..epoch

Init ==
  /\ role \in Role
  /\ epoch = 0 /\ switching = FALSE /\ standing = 0
  /\ forwarding = None
  /\ job = [s \in Slot |-> None]
  /\ actions = <<>>
  /\ polled = {}
  /\ events = <<>>
  /\ progress = None /\ source = 0 /\ landed = 0

Is(s, stage) == job[s] # None /\ job[s].stage = stage
Moved(s, stage) == [job EXCEPT ![s].stage = stage, ![s].success = FALSE, ![s].polls = 0]
Emit(kind, s) == Append(events, [kind |-> kind, of |-> s, epoch |-> job[s].epoch])

-----------------------------------------------------------------------------
(* App is one thread: while it is between the check of dispatch_action and *)
(* the send, it handles nothing else, but a switch may begin, and end.     *)
Free(s) == job[s] = None /\ \A earlier \in 1..s - 1 : job[earlier] # None

CheckIdle(s, op, on) ==
  /\ forwarding = None /\ Free(s) /\ op \in SentByApp
  /\ ~switching
  /\ on # None <=> op \in OnServer
  /\ forwarding' = [slot |-> s, op |-> op, on |-> on]
  /\ UNCHANGED <<role, switcher, job, actions, polled, events, screen>>

(* ActionSender::send stamps it. *)
Send(s, op, on) ==
  /\ job' = [job EXCEPT ![s] =
       [op |-> op, on |-> on, epoch |-> epoch, stage |-> "queued", done |-> FALSE,
        success |-> FALSE, polls |-> 0, toasts |-> 0, audits |-> 0,
        home |-> IF switching \/ landed # standing THEN None ELSE landed]]
  /\ actions' = Append(actions, s)
  /\ UNCHANGED <<role, switcher, polled, events, screen>>

Forward ==
  /\ forwarding # None
  /\ Send(forwarding.slot, forwarding.op, forwarding.on)
  /\ forwarding' = None

SendDirectly(s, op, on) ==
  /\ forwarding = None /\ Free(s) /\ op \in SentByModules
  /\ on # None <=> op \in OnServer
  /\ Send(s, op, on)
  /\ UNCHANGED forwarding

(* run_worker's loop: RBAC, then a task of its own. *)
TakeAction ==
  /\ actions # <<>>
  /\ LET s == Head(actions) IN
       IF MayPerform(role, job[s].op)
         THEN job' = Moved(s, "spawned") /\ UNCHANGED events
         ELSE job' = Moved(s, "ended") /\ events' = Emit("denied", s)
  /\ actions' = Tail(actions)
  /\ UNCHANGED <<role, switcher, forwarding, polled, screen>>

(* handle_action.  Every answer but ApiError counts as a success when it   *)
(* comes to polling.                                                       *)
Answer(s, kind, done) ==
  /\ Is(s, "spawned")
  /\ events' = Emit(kind, s)
  /\ job' = [job EXCEPT ![s].stage = "answered", ![s].done = done,
                        ![s].success = kind # "failed"]
  /\ UNCHANGED <<role, switcher, forwarding, actions, polled, screen>>

(* A request may be carried out and its answer lost (a timeout); DeleteImage *)
(* reads the image's owner first and may stop there; an evacuation's result  *)
(* has no SessionExpired of its own.                                         *)
CallService(s) ==
  \/ Answer(s, "succeeded", TRUE)
  \/ \E done \in BOOLEAN : Answer(s, "failed", done)
  \/ job[s] # None /\ job[s].op # "EvacuateServer" /\ Answer(s, "expired", FALSE)
  \/ job[s] # None /\ job[s].op = "DeleteImage" /\ Answer(s, "blocked", FALSE)

-----------------------------------------------------------------------------
(* poll_migration_progress, poll_server_status: one per server at a time.  *)
MayPoll(s) ==
  /\ job[s].success
  /\ job[s].op \in FollowsMigration \cup FollowsStatus
  /\ job[s].on \notin polled

StartPolling(s) ==
  /\ Is(s, "answered")
  /\ IF MayPoll(s)
       THEN polled' = polled \cup {job[s].on} /\ job' = Moved(s, "polling")
       ELSE UNCHANGED polled /\ job' = Moved(s, "ended")
  /\ UNCHANGED <<role, switcher, forwarding, actions, events, screen>>

(* Mutant: a poller asks without end. *)
PollForEver(s) ==
  /\ Is(s, "polling")
  /\ Len(events) < 3
  /\ events' = Emit(IF job[s].op \in FollowsMigration THEN "progress" ELSE "status", s)
  /\ UNCHANGED <<role, switcher, forwarding, job, actions, polled, screen>>

(* One request of the poller that shows the server still under way. *)
Poll(s) ==
  /\ Is(s, "polling")
  /\ job[s].polls < MaxPolls
  /\ events' = Emit(IF job[s].op \in FollowsMigration THEN "progress" ELSE "status", s)
  /\ job' = [job EXCEPT ![s].polls = @ + 1]
  /\ UNCHANGED <<role, switcher, forwarding, actions, polled, screen>>

(* Mutant: a migration's poller that meets an error just returns. *)
StopPollingSilently(s) ==
  /\ Is(s, "polling")
  /\ job' = Moved(s, "stopped")
  /\ UNCHANGED <<role, switcher, forwarding, actions, polled, events, screen>>

(* The last request shows it at rest, finds nothing, or fails, or there    *)
(* were MAX_POLLS of them.  Only a migration's end is announced.           *)
StopPolling(s) ==
  /\ Is(s, "polling")
  /\ events' = IF job[s].op \in FollowsMigration THEN Emit("polling stopped", s) ELSE events
  /\ job' = Moved(s, "stopped")
  /\ UNCHANGED <<role, switcher, forwarding, actions, polled, screen>>

(* Mutant: a migration's poller keeps its server. *)
KeepServer(s) ==
  /\ Is(s, "stopped")
  /\ polled' = IF job[s].op \in FollowsMigration THEN polled ELSE polled \ {job[s].on}
  /\ job' = Moved(s, "ended")
  /\ UNCHANGED <<role, switcher, forwarding, actions, events, screen>>

LetGo(s) ==
  /\ Is(s, "stopped")
  /\ polled' = polled \ {job[s].on}
  /\ job' = Moved(s, "ended")
  /\ UNCHANGED <<role, switcher, forwarding, actions, events, screen>>

-----------------------------------------------------------------------------
(* Mutant: no result is dropped. *)
NeverStale(event) == FALSE

(* Mutant: results of this generation are dropped with the older ones. *)
StaleOrPresent(event) == event.epoch <= epoch

(* handle_versioned_event *)
Stale(event) == event.epoch < epoch

(* generate_toast and record_audit.  Refusals and failures are toasted all *)
(* alike; those of the session and of the scope guard are not audited, and *)
(* an evacuation's ServerEvacuateResult is neither toasted nor audited.    *)
Told(event) ==
  \/ event.kind = "succeeded" /\ job[event.of].op \in Toasted
  \/ event.kind \in {"expired", "blocked", "denied"}
  \/ event.kind = "failed" /\ job[event.of].op # "EvacuateServer"
Recorded(event) ==
  \/ event.kind = "succeeded" /\ job[event.of].op \in Audited
  \/ event.kind = "denied"
  \/ event.kind = "failed" /\ job[event.of].op # "EvacuateServer"

Tell(event) ==
  job' = [job EXCEPT ![event.of].toasts = @ + (IF Told(event) THEN 1 ELSE 0),
                     ![event.of].audits = @ + (IF Recorded(event) THEN 1 ELSE 0)]

(* ServerModule::handle_event on the events about a migration. *)
ShowProgress(event) ==
  CASE event.kind = "progress" ->
         progress' = job[event.of].on /\ source' = event.of
    [] \/ event.kind = "polling stopped"
       \/ event.kind = "succeeded" /\ job[event.of].op \in EndsProgress ->
         progress' = None /\ source' = 0
    [] OTHER -> UNCHANGED <<progress, source>>

HandleEvent ==
  /\ forwarding = None
  /\ events # <<>>
  /\ events' = Tail(events)
  /\ LET event == Head(events) IN
       IF Stale(event) THEN UNCHANGED <<job, progress, source>>
       ELSE Tell(event) /\ ShowProgress(event)
  /\ UNCHANGED <<role, switcher, forwarding, actions, polled, landed>>

(* ContextChanged of the context in force, from the task that committed it *)
(* or one that was asked for it again (module SwitchNotices).  It is not   *)
(* in the queue here: that task may send it at any time while the context  *)
(* is in force, and later the gate drops it.                               *)
SeeContext ==
  /\ forwarding = None
  /\ standing # 0 /\ standing = epoch
  /\ progress' = None /\ source' = 0 /\ landed' = standing
  /\ UNCHANGED <<role, switcher, forwarding, job, actions, polled, events>>

-----------------------------------------------------------------------------
(* The switcher: an attempt starts a generation, and may be committed.     *)
BeginSwitch ==
  /\ ~switching /\ epoch < MaxSwitches
  /\ epoch' = epoch + 1 /\ switching' = TRUE
  /\ UNCHANGED <<role, standing, forwarding, job, actions, polled, events, screen>>

EndSwitch(committed) ==
  /\ switching
  /\ switching' = FALSE
  /\ standing' = IF committed THEN epoch ELSE standing
  /\ UNCHANGED <<role, epoch, forwarding, job, actions, polled, events, screen>>

-----------------------------------------------------------------------------
Work(s) == CallService(s) \/ StartPolling(s) \/ Poll(s) \/ StopPolling(s) \/ LetGo(s)

Next ==
  \/ \E s \in Slot, op \in Asked, on \in Server \cup {None} :
       CheckIdle(s, op, on) \/ SendDirectly(s, op, on)
  \/ Forward
  \/ TakeAction
  \/ \E s \in Slot : Work(s)
  \/ HandleEvent
  \/ BeginSwitch \/ (\E committed \in BOOLEAN : EndSwitch(committed)) \/ SeeContext

Spec == Init /\ [][Next]_vars

(* The worker's loop and the App's are polled, and every request ends, if  *)
(* only by its timeout.                                                    *)
FairSpec ==
  /\ Spec
  /\ WF_vars(Forward) /\ WF_vars(TakeAction) /\ WF_vars(HandleEvent)
  /\ \A s \in Slot : WF_vars(Work(s))

-----------------------------------------------------------------------------
(* A server is in polling_servers exactly while one task polls it: a       *)
(* second operation on it starts no second poller, and a poller lets go of *)
(* it however it ends, or no later operation would be followed.            *)
Polls(s) == Is(s, "polling") \/ Is(s, "stopped")
PolledByOneTask ==
  /\ polled = {job[s].on : s \in {t \in Slot : Polls(t)}}
  /\ \A s, t \in Slot : Polls(s) /\ Polls(t) /\ job[s].on = job[t].on => s = t

(* The migration progress the Servers module shows is being kept up to     *)
(* date or is about to be taken away, unless a switch was begun since: it  *)
(* never freezes there (poll_migration_progress, MigrationPollingStopped). *)
ProgressIsFollowed ==
  progress # None /\ job[source].epoch = epoch =>
    \/ \E s \in Slot : Is(s, "polling") /\ job[s].op \in FollowsMigration
    \/ \E i \in DOMAIN events :
         events[i].kind = "polling stopped" /\ events[i].epoch = epoch

(* A poller runs on over a context switch; nothing it still sends of the   *)
(* old scope's server comes up on the new scope's screen, and nothing it   *)
(* has sent stays there: the progress on screen is of an operation asked   *)
(* for on the screen of this very context, if it was stamped while no      *)
(* switch was in flight and the screen on the context in force             *)
(* (dispatch_action: "Reject worker-bound actions while a switch is in     *)
(* flight").                                                               *)
ProgressFitsContext ==
  progress # None => job[source].home \in {None, landed}

(* The answer of an operation: on its way, told, or of a scope since left. *)
Owed(s) ==
  \/ job[s].stage \in {"queued", "spawned"}
  \/ job[s].epoch < epoch
  \/ \E i \in DOMAIN events : events[i].of = s /\ events[i].kind \in AnswerKinds

(* The user is told how each operation ended, once, whatever became of it, *)
(* and in particular that of every operation whose start was toasted.  Two *)
(* are told otherwise: an evacuation (module Evacuation has the Hosts      *)
(* screen; from a server's detail nothing is told) and a service toggle.   *)
EveryOutcomeTold ==
  \A s \in Slot : job[s] # None /\ job[s].op # "EvacuateServer" =>
    /\ job[s].toasts <= 1
    /\ Owed(s) \/ job[s].toasts = 1 \/ job[s].op \in EnableDisables

(* What a service carried out is in the audit log once its answer was      *)
(* handled, for all but flavors, evacuations and verdicts on resizes and   *)
(* migrations; and nothing is there twice.                                 *)
EveryChangeAudited ==
  \A s \in Slot : job[s] # None =>
    /\ job[s].audits <= 1
    /\ job[s].done =>
         \/ Owed(s) \/ job[s].audits = 1
         \/ job[s].op \in {"CreateFlavor", "DeleteFlavor", "EvacuateServer", "ConfirmResize",
                           "RevertResize", "ConfirmMigration", "RevertMigration"}

(* Every operation's task comes to an end, its poller too, whatever the    *)
(* server's status does.                                                   *)
EveryTaskEnds ==
  []<>(forwarding = None /\ \A s \in Slot : job[s] # None => Is(s, "ended"))

(* poll_migration_server_id, poll_server_id_for_status: polling is         *)
(* triggered "after success".                                              *)
PollsFollowSuccess == \A s \in Slot : job[s] # None /\ Polls(s) => job[s].done
=============================================================================
