----------------------------- MODULE Evacuation -----------------------------
(***************************************************************************)
(* Draining a host: HostModule (src/module/host/mod.rs) and its EvacTask   *)
(* (src/module/host/evac_task.rs), which sends the checked servers'        *)
(* evacuations a few at a time and goes by their results.                  *)
(*                                                                         *)
(* A result reaches the module only through the App's epoch gate, so the   *)
(* switcher is here too, as far as its epoch and its notice are seen.      *)
(* Queue order is left out (the ids come from a HashSet), and so are the   *)
(* log panel, the marks in the list and the cursor.                        *)
(***************************************************************************)
EXTENDS Naturals, FiniteSets

CONSTANTS Server,
          MaxConcurrent,  \* 3 in start_evacuate
          None,
          Refusable,      \* RBAC or the origin guard may refuse a request
          MaxSwitches,    \* bound: context switches
          MaxRuns,        \* bound: evacuations started
          MaxElsewhere    \* bound: evacuations asked for in the server list

ASSUME ServerAssumption == IsFiniteSet(Server)
ASSUME ConcurrencyAssumption == MaxConcurrent \in Nat \ {0}
ASSUME ChanceAssumption == Refusable \in BOOLEAN
ASSUME BoundAssumption == {MaxSwitches, MaxRuns, MaxElsewhere} \subseteq Nat

VARIABLES
  task,       \* HostModule.evac_task
  pending,    \* evac_confirm_pending
  checked,    \* servers checked and visible in the instance list
  confirmed,  \* what was checked when the confirmation was asked for
  asked,      \* the servers of the last evacuation
  run,        \* number of evacuations started
  requests,   \* evacuations whose results the App has not seen
  elsewhere,  \* evacuations asked for in the server list so far
  epoch, switching,
  standing,   \* epoch of the context in force, 0 while there is none
  notice      \* epoch of a ContextChanged not yet seen by the App, or None

listVars == <<pending, checked, confirmed>>
contextVars == <<epoch, switching, standing, notice>>
vars == <<task, listVars, asked, run, requests, elsewhere, contextVars>>

-----------------------------------------------------------------------------
Result == [server: Server, outcome: {"ok", "failed", "aborted"}]
Evac == [state: {"executing", "completed"}, queue: SUBSET Server, inFlight: SUBSET Server,
         completed: SUBSET Result, cancel: BOOLEAN]

(* `run` tells apart what the program cannot: whose request this is. *)
Request == [server: Server, epoch: Nat, run: Nat]
FromServerList == 0

TypeOK ==
  /\ task \in Evac \cup {None}
  /\ pending \in BOOLEAN
  /\ {checked, confirmed, asked} \subseteq SUBSET Server
  /\ run \in 0..MaxRuns
  /\ requests \in SUBSET Request
  /\ elsewhere \in 0..MaxElsewhere
  /\ epoch \in 0..MaxSwitches
  /\ switching \in BOOLEAN
  /\ standing \in 0..epoch
  /\ notice \in Nat \cup {None}

Init ==
  /\ task = None
  /\ pending = FALSE
  /\ checked = {} /\ confirmed = {} /\ asked = {}
  /\ run = 0
  /\ requests = {}
  /\ elsewhere = 0
  /\ epoch = 0
  /\ switching = FALSE
  /\ standing = 0
  /\ notice = None

-----------------------------------------------------------------------------
(* EvacTask *)
NewTask(ids) == [state |-> "executing", queue |-> ids, inFlight |-> {},
                 completed |-> {}, cancel |-> FALSE]

Settled(t) ==
  [t EXCEPT !.state = IF t.queue = {} /\ t.inFlight = {} THEN "completed" ELSE @]

(* The batches poll_next may take: as many as there is room and work for. *)
Room(t) == IF t.cancel \/ t.state # "executing" THEN 0 ELSE MaxConcurrent - Cardinality(t.inFlight)
Batches(t) ==
  {b \in SUBSET t.queue :
     Cardinality(b) = IF Room(t) < Cardinality(t.queue) THEN Room(t) ELSE Cardinality(t.queue)}

Polled(t, batch) ==
  Settled([t EXCEPT !.queue = @ \ batch, !.inFlight = @ \cup batch])

(* A result of a server that is not in flight is ignored. *)
OnCompleted(t, server, outcome) ==
  IF server \in t.inFlight
    THEN Settled([t EXCEPT !.inFlight = @ \ {server},
                           !.completed = @ \cup {[server |-> server, outcome |-> outcome]}])
    ELSE t

(* Mutant: what was still queued is dropped without a result. *)
CancelledSilently(t) == Settled([t EXCEPT !.cancel = TRUE, !.queue = {}])

Cancelled(t) ==
  Settled([t EXCEPT !.cancel = TRUE, !.queue = {},
             !.completed = @ \cup [server: t.queue, outcome: {"aborted"}]])

-----------------------------------------------------------------------------
(* Keys of the instance list. *)
RequestsFor(ids, r) == [server: ids, epoch: {epoch}, run: {r}]

(* Mutant: a pending confirmation survives other keys. *)
CheckWhilePending(ids) ==
  /\ checked' = ids
  /\ UNCHANGED <<task, pending, confirmed, asked, run, requests, elsewhere, contextVars>>

(* Space, a, d, f: any key but e takes a pending confirmation back. *)
Check(ids) ==
  /\ checked' = ids
  /\ pending' = FALSE
  /\ UNCHANGED <<task, confirmed, asked, run, requests, elsewhere, contextVars>>

AskConfirmation ==
  /\ task = None
  /\ ~pending
  /\ checked # {}
  /\ pending' = TRUE
  /\ confirmed' = checked
  /\ UNCHANGED <<task, checked, asked, run, requests, elsewhere, contextVars>>

StartEvacuate ==
  /\ task = None
  /\ pending
  /\ pending' = FALSE
  /\ IF checked = {}
       THEN UNCHANGED <<task, asked, run, requests>>
       ELSE /\ run < MaxRuns
            /\ run' = run + 1
            /\ asked' = checked
            /\ \E batch \in Batches(NewTask(checked)) :
                 /\ task' = Polled(NewTask(checked), batch)
                 /\ requests' = requests \cup RequestsFor(batch, run')
  /\ UNCHANGED <<checked, confirmed, elsewhere, contextVars>>

Cancel ==
  /\ task # None
  /\ task' = Cancelled(task)
  /\ pending' = FALSE
  /\ UNCHANGED <<checked, confirmed, asked, run, requests, elsewhere, contextVars>>

(* Lists loaded, or another host selected: sync_instance_list unchecks all. *)
SyncInstanceList ==
  /\ checked' = {}
  /\ UNCHANGED <<task, pending, confirmed, asked, run, requests, elsewhere, contextVars>>

(* The server module's own evacuation of one server. *)
EvacuateElsewhere(server) ==
  /\ elsewhere < MaxElsewhere
  /\ elsewhere' = elsewhere + 1
  /\ requests' = requests \cup RequestsFor({server}, FromServerList)
  /\ UNCHANGED <<task, listVars, asked, run, contextVars>>

-----------------------------------------------------------------------------
(* The worker answers a request, and the App's gate drops the result or    *)
(* hands it to the module (handle_evac_result).                            *)
DropResult(r) ==
  /\ r.epoch < epoch
  /\ requests' = requests \ {r}
  /\ UNCHANGED <<task, listVars, asked, run, elsewhere, contextVars>>

(* Mutant: the next batch is not sent. *)
HandleWithoutPoll(r, outcome) ==
  /\ r.epoch >= epoch
  /\ task' = IF task = None THEN None
             ELSE LET counted == OnCompleted(task, r.server, outcome)
                  IN IF counted.state = "completed" THEN None ELSE counted
  /\ requests' = requests \ {r}
  /\ UNCHANGED <<listVars, asked, run, elsewhere, contextVars>>

HandleResult(r, outcome) ==
  /\ r.epoch >= epoch
  /\ IF task = None
       THEN /\ requests' = requests \ {r}
            /\ UNCHANGED task
       ELSE LET counted == OnCompleted(task, r.server, outcome)
            IN \E batch \in Batches(counted) :
                 /\ task' = LET next == Polled(counted, batch)
                            IN IF next.state = "completed" THEN None ELSE next
                 /\ requests' = (requests \ {r}) \cup RequestsFor(batch, run)
  /\ UNCHANGED <<listVars, asked, run, elsewhere, contextVars>>

(* PermissionDenied, CrossProjectBlocked: no result for the module. *)
Refuse(r) ==
  /\ Refusable
  /\ requests' = requests \ {r}
  /\ UNCHANGED <<task, listVars, asked, run, elsewhere, contextVars>>

-----------------------------------------------------------------------------
BeginSwitch ==
  /\ ~switching
  /\ epoch < MaxSwitches
  /\ epoch' = epoch + 1
  /\ switching' = TRUE
  /\ UNCHANGED <<task, listVars, asked, run, requests, elsewhere, standing, notice>>

CommitSwitch ==
  /\ switching
  /\ switching' = FALSE
  /\ standing' = epoch
  /\ notice' = epoch
  /\ UNCHANGED <<task, listVars, asked, run, requests, elsewhere, epoch>>

FailSwitch ==
  /\ switching
  /\ switching' = FALSE
  /\ UNCHANGED <<task, listVars, asked, run, requests, elsewhere, epoch, standing, notice>>

(* :switch to the context in force announces it again. *)
SwitchToSame ==
  /\ ~switching
  /\ standing # 0
  /\ notice = None
  /\ notice' = standing
  /\ UNCHANGED <<task, listVars, asked, run, requests, elsewhere, epoch, switching, standing>>

(* on_context_changed, if the notice is not stale itself. *)
SeeNotice ==
  /\ notice # None
  /\ notice' = None
  /\ IF notice < epoch
       THEN UNCHANGED <<task, pending, checked>>
       ELSE task' = None /\ pending' = FALSE /\ checked' = {}
  /\ UNCHANGED <<confirmed, asked, run, requests, elsewhere, epoch, switching, standing>>

User ==
  \/ \E ids \in SUBSET Server : Check(ids)
  \/ AskConfirmation \/ StartEvacuate \/ Cancel \/ SyncInstanceList
  \/ \E server \in Server : EvacuateElsewhere(server)

End(r) ==
  \/ DropResult(r) \/ Refuse(r)
  \/ \E outcome \in {"ok", "failed"} : HandleResult(r, outcome)

Switch == BeginSwitch \/ CommitSwitch \/ FailSwitch \/ SwitchToSame

Next == User \/ (\E r \in requests : End(r)) \/ Switch \/ SeeNotice

Spec == Init /\ [][Next]_vars

(* Requests have a timeout of 30 s, the App reads its events, and a switch *)
(* that began ends.                                                        *)
FairSpec ==
  /\ Spec
  /\ WF_vars(\E r \in requests : End(r))
  /\ WF_vars(SeeNotice)
  /\ WF_vars(CommitSwitch \/ FailSwitch)

-----------------------------------------------------------------------------
(* Every server of an evacuation is queued, in flight or counted, exactly  *)
(* one of them, and counted once; no more than the cap are in flight.      *)
ServersOf(results) == {x.server : x \in results}

EveryServerAccounted ==
  task # None =>
    /\ task.queue \cup task.inFlight \cup ServersOf(task.completed) = asked
    /\ task.queue \cap task.inFlight = {}
    /\ ServersOf(task.completed) \cap (task.queue \cup task.inFlight) = {}
    /\ Cardinality(task.completed) = Cardinality(ServersOf(task.completed))
    /\ Cardinality(task.inFlight) <= MaxConcurrent

(* The second e evacuates the servers the user was asked about at the      *)
(* first, though lists are reloaded, hosts and contexts change in between. *)
StartOnlyConfirmed == [][run' # run => asked' = confirmed]_<<run, asked>>

(* The task awaits the result of a request that has none any more. *)
Starved ==
  /\ task # None /\ task.inFlight # {}
  /\ ~\E r \in requests : r.run = run

(* An evacuation comes to its end, or to the end of its context, unless a  *)
(* result it needs is lost; no server is left waiting in the queue.        *)
EvacuationEnds == task # None ~> task = None \/ Starved

(* app.rs (Tab, digits): leaving is blocked "while module is busy (e.g.    *)
(* evacuating)": between switches, the module is busy only while it awaits *)
(* a result.                                                               *)
BusyMeansEvacuating ==
  task # None /\ ~switching /\ notice = None => \E r \in requests : r.run = run
=============================================================================
