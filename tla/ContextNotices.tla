--------------------------- MODULE ContextNotices ---------------------------
(***************************************************************************)
(* From the switcher to the screen: each switch task sends its result into *)
(* the event queue (App::spawn_switch, App::spawn_switch_back), and the    *)
(* App's loop takes the queue in order through the epoch gate              *)
(* (App::handle_versioned_event) to the ContextChanged handler.            *)
(*                                                                         *)
(* `shown` is what that handler installs: the target of the status-bar     *)
(* indicator, for which the modules have dropped their caches and fetched  *)
(* anew.  Left out: the toasts' text, the directory cache, the audit       *)
(* actor.                                                                  *)
(***************************************************************************)
EXTENDS ContextSwitcher, Sequences

VARIABLES
  notices,  \* event_rx, the part of it that switch tasks write
  sent,     \* tasks whose result is in the queue or has left it
  shown     \* the context the indicator and the modules are on

noticeVars == <<notices, sent, shown>>
allVars == <<vars, noticeVars>>

Notice == [task: Task, kind: {"ok", "err"}, target: Scope \cup {None}, epoch: Nat]

NoticesTypeOK ==
  /\ notices \in Seq(Notice)
  /\ \A i \in DOMAIN notices : notices[i].task \in sent
  /\ sent \in SUBSET Task
  /\ shown \in MaybeSnapshot

NoticesInit ==
  /\ Init
  /\ notices = <<>>
  /\ sent = {}
  /\ shown = NoSnapshot

(* Mutant: the result is stamped when it is sent, like an action is. *)
SendStampedNow(t) ==
  /\ pc[t] = "done"
  /\ t \notin sent
  /\ sent' = sent \cup {t}
  /\ notices' = Append(notices, [task |-> t, kind |-> outcome[t].kind,
                                 target |-> outcome[t].target, epoch |-> epoch])
  /\ UNCHANGED <<vars, shown>>

(* The task is past the switcher's call and sends ContextChanged, or       *)
(* ApiError, stamped with the epoch the call returned.                     *)
Send(t) ==
  /\ pc[t] = "done"
  /\ t \notin sent
  /\ sent' = sent \cup {t}
  /\ notices' = Append(notices, [task |-> t, kind |-> outcome[t].kind,
                                 target |-> outcome[t].target,
                                 epoch |-> outcome[t].epoch])
  /\ UNCHANGED <<vars, shown>>

(* Mutant: a gate that is off by one. *)
StaleAtEpoch(notice) == notice.epoch <= epoch

(* The dispatcher's gate: older than the present epoch. *)
Stale(notice) == notice.epoch < epoch

HandleNotice ==
  /\ notices # <<>>
  /\ LET notice == Head(notices)
     IN  \/ /\ Stale(notice) \/ notice.kind = "err"
            /\ UNCHANGED shown
         \/ /\ ~Stale(notice) /\ notice.kind = "ok"
            /\ shown' = [target |-> notice.target, epoch |-> notice.epoch]
  /\ notices' = Tail(notices)
  /\ UNCHANGED <<vars, sent>>

NoticesNext ==
  \/ Next /\ UNCHANGED noticeVars
  \/ \E t \in Task : Send(t)
  \/ HandleNotice

NoticesSpec == NoticesInit /\ [][NoticesNext]_allVars

(* The runtime polls each started task, each of its network calls ends     *)
(* within the client's 30 s, and the App's loop polls its queue.           *)
NoticesFairSpec ==
  /\ NoticesSpec
  /\ \A t \in Task : WF_allVars(Run(t) /\ UNCHANGED noticeVars) /\ WF_allVars(Send(t))
  /\ WF_allVars(HandleNotice)

-----------------------------------------------------------------------------
(* Until another attempt bumps the epoch, what is shown is what the        *)
(* machine has committed, whatever order the tasks' results arrive in.     *)
ShownIsInForce == shown.epoch = epoch => shown = Standing

(* A commit that no later attempt overtakes does reach the screen.         *)
LastCommitShown == <>[](Standing.epoch = epoch) => <>[](shown = Standing)

Committed(t) == [target |-> target[t], epoch |-> attempt[t]]
Carried(t) == [target |-> outcome[t].target, epoch |-> outcome[t].epoch]

(* What the tasks that have not sent yet will announce: the commit a task  *)
(* has made, or the context it found in force when it was asked for again. *)
InHand == {Committed(t) : t \in {u \in Task : pc[u] = "history"}}
     \cup {Carried(t) : t \in {u \in Task : u \notin sent /\ outcome[u].kind = "ok"}}

Changed(notice) == IF notice.kind = "err" THEN NoSnapshot
                   ELSE [target |-> notice.target, epoch |-> notice.epoch]
Contexts(queue) == [i \in DOMAIN queue |-> Changed(queue[i])]

Notices == INSTANCE SwitchNotices
             WITH switching <- ~IsIdle, current <- Standing,
                  announcing <- InHand, queue <- Contexts(notices)

(* Tasks, event queue and gate together do what the rest of the program    *)
(* sees of the switches, and no more (module SwitchNotices).               *)
ImplementsNotices == Notices!NoticesSpec

(* app.rs: the indicator is "Updated from `AppEvent::ContextChanged` after *)
(* a successful switch": once every task has answered and the queue is     *)
(* empty, indicator and modules are on the context in force.               *)
Quiet == \A t \in Task : pc[t] \in {"ready", "done"}
Settled == Quiet /\ notices = <<>> /\ \A t \in Task : pc[t] = "done" => t \in sent
ScreenFollowsSession == Settled => shown.target = Standing.target
=============================================================================
