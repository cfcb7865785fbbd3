--------------------------- MODULE SwitchContract ---------------------------
(***************************************************************************)
(* What the context switcher promises to the rest of nexttui, without its  *)
(* tasks, locks and network calls.                                         *)
(*                                                                         *)
(* One switch runs at a time.  Its beginning bumps the epoch; while it     *)
(* runs the session's active scope may move to the target and back; it     *)
(* ends either by committing the scope the session is then on, stamped     *)
(* with the epoch of its own beginning, or by leaving both the committed   *)
(* context and the active scope as they were.                              *)
(***************************************************************************)
EXTENDS Naturals

CONSTANTS Scope,         \* token scopes a context target may name
          InitialScope,  \* the scope of the configured credential
          None           \* no context committed yet

VARIABLES epoch,      \* ContextEpoch
          switching,  \* a switch is between try_begin and commit/fail
          current,    \* the snapshot last committed, or None
          active      \* the scope every request is authenticated with

vars == <<epoch, switching, current, active>>

Snapshot == [target: Scope, epoch: Nat]

NoSnapshot == [target |-> None, epoch |-> 0]

(* The scope the session has to be on whenever no switch runs. *)
HomeScope == IF current = NoSnapshot THEN InitialScope ELSE current.target

TypeOK ==
  /\ epoch \in Nat
  /\ switching \in BOOLEAN
  /\ current \in Snapshot \cup {NoSnapshot}
  /\ active \in Scope

Init ==
  /\ epoch = 0
  /\ switching = FALSE
  /\ current = NoSnapshot
  /\ active = InitialScope

Begin ==
  /\ ~switching
  /\ epoch' = epoch + 1
  /\ switching' = TRUE
  /\ UNCHANGED <<current, active>>

Activate(target) ==
  /\ switching
  /\ active = HomeScope
  /\ active' = target
  /\ UNCHANGED <<epoch, switching, current>>

Revert ==
  /\ switching
  /\ active' = HomeScope
  /\ UNCHANGED <<epoch, switching, current>>

Commit ==
  /\ switching
  /\ switching' = FALSE
  /\ current' = [target |-> active, epoch |-> epoch]
  /\ UNCHANGED <<epoch, active>>

Abort ==
  /\ switching
  /\ active = HomeScope
  /\ switching' = FALSE
  /\ UNCHANGED <<epoch, current, active>>

Next ==
  \/ Begin
  \/ \E target \in Scope : Activate(target)
  \/ Revert
  \/ Commit
  \/ Abort

Spec == Init /\ [][Next]_vars
=============================================================================
