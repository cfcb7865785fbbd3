---------------------------- MODULE SwitchNotices ----------------------------
(***************************************************************************)
(* What the App comes to know of the switches (SwitchContract), without    *)
(* their tasks: a context that is committed is announced, and one that is  *)
(* switched to again while it is in force is announced again, each time    *)
(* under the epoch of its commit.  Announcements come late, in any order   *)
(* and among other events; the epoch gate takes them from the queue, drops *)
(* what is older than the last attempt and shows the rest.                 *)
(***************************************************************************)
EXTENDS SwitchContract, Sequences

VARIABLES announcing, \* snapshots a task has in hand and will send
          queue,      \* event_rx, as far as it is about contexts
          shown       \* the context the indicator and the modules are on

(* Any other event: a switch that failed, or what is not about switches. *)
Other == NoSnapshot

NoticesTypeOK ==
  /\ TypeOK
  /\ announcing \in SUBSET Snapshot
  /\ queue \in Seq(Snapshot \cup {Other})
  /\ shown \in Snapshot \cup {NoSnapshot}

NoticesInit ==
  /\ Init
  /\ announcing = {}
  /\ queue = <<>>
  /\ shown = NoSnapshot

(* A switch goes on; its commit will be announced. *)
SwitchMoves ==
  /\ Next
  /\ announcing' = IF current' # current THEN announcing \cup {current'} ELSE announcing

(* The context in force is asked for again. *)
AskAgain ==
  /\ ~switching
  /\ current # NoSnapshot
  /\ announcing' = announcing \cup {current}
  /\ UNCHANGED vars

(* One of the tasks that have it in hand sends it. *)
Tell(snapshot) ==
  /\ snapshot \in announcing
  /\ announcing' \in {announcing, announcing \ {snapshot}}
  /\ UNCHANGED vars

Send == \E snapshot \in announcing : Tell(snapshot) /\ queue' = Append(queue, snapshot)
SendOther == queue' = Append(queue, Other) /\ UNCHANGED <<vars, announcing>>

Stale(snapshot) == snapshot.epoch < epoch

Receive ==
  /\ queue # <<>>
  /\ queue' = Tail(queue)
  /\ LET head == Head(queue) IN
       shown' = IF head = Other \/ Stale(head) THEN shown ELSE head
  /\ UNCHANGED <<vars, announcing>>

NoticesNext ==
  \/ (SwitchMoves \/ AskAgain) /\ UNCHANGED <<queue, shown>>
  \/ (Send \/ SendOther) /\ UNCHANGED shown
  \/ Receive

NoticesSpec == NoticesInit /\ [][NoticesNext]_<<vars, announcing, queue, shown>>
=============================================================================
