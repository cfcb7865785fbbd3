------------------------------ MODULE VolumeView ------------------------------
(***************************************************************************)
(* VolumeModule: attach the volume under the cursor to a server chosen in  *)
(* a popup; detach, force-detach and reset in the detail view.  cache is   *)
(* cached_servers.  How many attachments a volume has, and whether servers *)
(* boot from it, is read when it matters and may be either.                *)
(***************************************************************************)
EXTENDS DomainModule

VolumeStatuses == {"available", "in-use", "error", "attaching"}

VolumeDelete ==
  /\ KeysTo("List") /\ popup = None /\ Selected # None
  /\ Open("name", None, "DeleteVolume", Selected, None)
  /\ UNCHANGED <<about, view, list, popup, form, flow, asked>>

VolumeEnter    == popup = None /\ EnterDetail
VolumeNav      == popup = None /\ NavKey
VolumeOpenForm == popup = None /\ OpenForm

(* a on an available volume: a popup over the servers known. *)
VolumeAttach ==
  /\ KeysTo("List") /\ popup = None /\ cache # {}
  /\ Selected # None /\ "available" \in Status(Selected)
  /\ PopUp("Server", cache)
  /\ UNCHANGED <<about, view, list, asking, form, flow, asked>>

(* handle_attach_server_selected: the volume is the one selected by now,   *)
(* and the popup whichever is open.  A server not known is named "unknown". *)
VolumeServerChosen ==
  /\ KeysTo("List") /\ popup # None
  /\ \E server \in popup.items :
       IF Selected # None /\ "available" \in Status(Selected)
         THEN Open(Destructive("no"), IF server \in cache THEN server ELSE None,
                   "AttachVolume", Selected, server)
         ELSE UNCHANGED asking
  /\ popup' = None
  /\ UNCHANGED <<about, view, list, form, flow, asked>>

VolumePopupCancel ==
  /\ dialog = None /\ view.at # "Create" /\ popup # None
  /\ popup' = None
  /\ UNCHANGED <<about, view, list, asking, form, flow, asked>>

VolumeDetailKey == KeysTo("Detail") /\ popup = None

(* open_detach_confirm: a boot volume needs an admin, and its name typed. *)
AskVolumeDetach(attachment, boot) ==
  /\ boot => admin
  /\ Open(IF boot THEN "name" ELSE Destructive("no"), None,
          "DetachVolume", view.of, attachment)
Attachments(volume) == {<<volume[1], volume[2], n>> : n \in {1, 2}}
VolumeDetach ==
  /\ VolumeDetailKey /\ "in-use" \in Status(view.of)
  /\ \/ /\ \E boot \in BOOLEAN :
             AskVolumeDetach(<<view.of[1], view.of[2], 1>>, boot)
        /\ UNCHANGED popup
     \/ /\ PopUp("Attachment", Attachments(view.of))
        /\ UNCHANGED asking
  /\ UNCHANGED <<about, view, list, form, flow, asked>>
(* handle_popup_selected: by now the volume may be attached once, or not   *)
(* there any more; then, and where it is refused, nothing is asked.        *)
VolumeAttachmentChosen ==
  /\ KeysTo("Detail") /\ popup # None
  /\ \/ /\ "in-use" \in Status(view.of)
        /\ \E attachment \in popup.items, boot \in BOOLEAN : AskVolumeDetach(attachment, boot)
     \/ UNCHANGED asking
  /\ popup' = None
  /\ UNCHANGED <<about, view, list, form, flow, asked>>

(* F and R, of an admin; neither while the volume is in transition. *)
VolumeForce ==
  /\ VolumeDetailKey /\ admin
  /\ \/ /\ Status(view.of) \cap {"error", "in-use"} # {}
        /\ Open("name", None, "ForceDetachVolume", view.of, None)
     \/ /\ "error" \in Status(view.of)
        /\ Open("name", None, "ForceResetVolumeState", view.of, None)
  /\ UNCHANGED <<about, view, list, popup, form, flow, asked>>

VolumesLoaded ==
  \E new \in Answers(Any(VolumeStatuses)) :
    /\ SetRows(new)
    /\ UNCHANGED <<about, view, asking, popup, form, flow, asked>>

(* VolumeCreated closes the form, whichever is open by then; the input     *)
(* mode is App's and stays.                                                *)
VolumeCreated ==
  /\ Command("Created", None, None) \in asked
  /\ asked' = asked \ {Command("Created", None, None)}
  /\ view' = List /\ form' = FALSE
  /\ UNCHANGED <<about, list, asking, popup, flow>>

VolumeLeaveScope == LeaveScope /\ UNCHANGED flow

VolumeNext ==
  \/ VolumeEnter \/ LeaveDetail \/ VolumeNav \/ AnswerDialog
  \/ VolumeDelete \/ VolumeAttach \/ VolumeServerChosen \/ VolumePopupCancel
  \/ VolumeDetach \/ VolumeAttachmentChosen \/ VolumeForce
  \/ VolumesLoaded \/ CacheLoaded \/ VolumeCreated
  \/ VolumeOpenForm \/ SubmitForm \/ CancelForm
  \/ VolumeLeaveScope \/ HighlightEnds \/ SetAllTenants

=============================================================================
