----------------------------- MODULE DomainModules -----------------------------
(***************************************************************************)
(* The domain modules, one of them on screen, and what is claimed of all.  *)
(***************************************************************************)
EXTENDS ServerView, VolumeView, FloatingIpView, ListModules

ASSUME KindsAssumption ==
  Kinds \subseteq {"server", "volume", "floating_ip"} \cup ListKinds

(* What the user is asked, and what for.  None is neither. *)
Resource   == (1..MaxScope) \X ResourceIds
Attachment == (1..MaxScope) \X ResourceIds \X {1, 2}
Ports      == [server : Resource \cup {None}, n : ResourceIds]
Ops == {"DeleteServer", "Power", "Resize", "ConfirmResize", "RevertResize",
        "Migrate", "ConfirmMigrate", "RevertMigrate", "Evacuate",
        "AttachVolume", "DetachVolume", "AssociateFip",
        "DeleteVolume", "ForceDetachVolume", "ForceResetVolumeState",
        "DeleteFloatingIp", "DisassociateFip", "Delete", "DeleteRule"}
Commands == [op : Ops, on : Resource,
             with : Resource \cup Attachment \cup Ports \cup Nat \cup {None}]
Dialogs  == [typed : {"no", "name", "project"}, server : Resource \cup {None}]
ASSUME NoneAssumption == None \notin Commands \cup Dialogs

Next ==
  \/ kind = "server"      /\ ServerNext
  \/ kind = "volume"      /\ VolumeNext
  \/ kind = "floating_ip" /\ FipNext
  \/ kind \in ListKinds   /\ ListNext

Spec == Init /\ [][Next]_vars

(* A module's state has its shape: the cursor is on a row that is shown or *)
(* on the first, and the dialog and its action come and go together        *)
(* (module/mod.rs, ConfirmHandler).                                        *)
TypeOK ==
  /\ view.at \in {"List", "Detail", "Create"}
  /\ cursor \in 1..2 /\ shown \in {0, Len(rows)}
  /\ cursor > 1 => cursor <= shown
  /\ (dialog = None) <=> (pending = None)
  /\ form \in BOOLEAN /\ mode \in {"Normal", "Form"}

(* What a question was asked about was listed in the scope in force: an    *)
(* answer of "y" never names a row of the project that was left            *)
(* (on_context_changed; "must not resolve with stale IDs").                *)
(* What is offered from another module's cache is not in this claim, see   *)
(* the README: so an admin may still be offered a server that was left.    *)
QuestionFitsScope ==
  pending # None =>
    IF pending.op = "AssociateFip"
      THEN pending.with.server[1] = scope \/ admin
      ELSE pending.on[1] = scope

(* Within the highlight after a switch a row is not changed by a single    *)
(* key: every question then open wants something typed                     *)
(* (ConfirmDialog::for_destructive).  Giving an address to one of several  *)
(* ports is the exception, and starting a server, which never asks.        *)
SwitchedThenTyped ==
  fresh /\ pending # None /\ pending.op # "AssociateFip" => dialog.typed # "no"

(* An open form has the keys: App is in Form mode whenever one is drawn,   *)
(* also after a context switch that completes meanwhile.                   *)
FormHasKeys == form /\ view = Create => mode = "Form"

(* app.rs:640 leaves Form mode with the form, or "keys stay routed through *)
(* the Form-only path": in Form mode there is a form that takes them.      *)
FormModeHasForm == mode = "Form" => form

(* The subnets on screen are of the network on screen, whichever answers   *)
(* come late (module/network/mod.rs, SubnetsLoaded).                       *)
SubnetsFitDetail ==
  kind = "network" /\ view.at = "Detail" => cache \subseteq {view.of}

(* An address is given to a port of the server it was chosen for, and the  *)
(* list's popup says which server that is                                  *)
(* (module/floating_ip/mod.rs, handle_ports_loaded).                       *)
PortFitsServer ==
  pending # None /\ pending.op = "AssociateFip" =>
    /\ pending.with.server = wanted
    /\ kind = "floating_ip" => dialog.server \in {None, pending.with.server}

(* A volume is attached to a server: the popup of the list is one of       *)
(* servers (module/volume/mod.rs:257, "attach server selection").          *)
AttachNamesServer ==
  pending # None /\ pending.op = "AttachVolume" => pending.with \in Resource

(* A server this screen resized is offered the verdict on a resize, which  *)
(* its member may give, and not that on a migration, which RBAC keeps for  *)
(* admins (module/server/mod.rs:718).                                      *)
ResizeIsVerifiedAsResize ==
  pending # None /\ pending.op \in {"ConfirmMigrate", "RevertMigrate"}
    => pending.on \notin resized

=============================================================================
