------------------------------ MODULE ServerView ------------------------------
(***************************************************************************)
(* ServerModule: the list of servers, and in the detail view of one the    *)
(* questions about it (reboot, resize, migrate, evacuate, volumes), and    *)
(* the two-step flow that gives it a floating IP: choose the address, ask  *)
(* for the server's ports, choose a port when there are several.           *)
(*                                                                         *)
(* cached_flavors, cached_volumes and cached_floating_ips are one cache    *)
(* here: they are filled by the same kind of event, survive a switch alike *)
(* and are offered alike.  Answers whose only effect is another FetchServers *)
(* are not shown: a list may arrive at any time.                           *)
(***************************************************************************)
EXTENDS DomainModule

CONSTANT ServerStatuses  \* the statuses servers are listed with

(* Enter; an admin's FetchPortBindings only feeds what is rendered. *)
ServerEnter == EnterDetail

ServerDelete ==
  /\ KeysTo("List") /\ Selected # None
  /\ Open("name", Selected, "DeleteServer", Selected, None)
  /\ UNCHANGED <<about, view, list, popup, form, flow, asked>>

DetailKey == KeysTo("Detail") /\ popup = None

(* R and X (Power), M and C: a question whatever the server's status.  S   *)
(* starts the server without one.                                          *)
ServerQuestion ==
  /\ DetailKey
  /\ \E op \in {"Power"} \cup (IF admin THEN {"Migrate"} ELSE {}) :
       Open(Destructive("no"), view.of, op, view.of, None)
  /\ UNCHANGED <<about, view, list, popup, form, flow, asked>>

(* Y and N: a resize or a migration, by what resize_pending remembers. *)
VerifyOps ==
  IF resize = view.of THEN {"ConfirmResize", "RevertResize"}
                      ELSE {"ConfirmMigrate", "RevertMigrate"}
ServerVerify ==
  /\ DetailKey /\ "VERIFY_RESIZE" \in Status(view.of)
  /\ \E op \in VerifyOps :
       Open(Destructive("no"), view.of, op, view.of, None)
  /\ UNCHANGED <<about, view, list, popup, form, flow, asked>>

ServerEvacuate ==
  /\ DetailKey /\ admin /\ "ERROR" \in Status(view.of)
  /\ Open(Destructive("no"), view.of, "Evacuate", view.of, None)
  /\ UNCHANGED <<about, view, list, popup, form, flow, asked>>

(* F, A, f and x open a popup over what is cached.  With nothing cached    *)
(* they ask for it; with nothing that fits they say so.                    *)
ServerPopups ==
  {"AttachVolume", "DetachVolume", "AssociateFip"}
    \cup (IF Status(view.of) \cap {"ACTIVE", "SHUTOFF"} # {}
          THEN {"Resize"} ELSE {})
ServerPopUp ==
  /\ DetailKey /\ cache # {}
  /\ \E what \in ServerPopups : PopUp(what, cache)
  /\ UNCHANGED <<about, view, list, asking, form, flow, asked>>

(* handle_detach_volume_selected: x on a server with one volume comes here *)
(* at once.  A boot volume needs an admin and its name typed.              *)
AskDetach(volume, boot) ==
  /\ boot => admin
  /\ Open(IF boot THEN "name" ELSE Destructive("no"), view.of,
          "DetachVolume", view.of, volume)
ServerDetachOnly ==
  /\ DetailKey
  /\ \E volume \in cache, boot \in BOOLEAN : AskDetach(volume, boot)
  /\ UNCHANGED <<about, view, list, popup, form, flow, asked>>

(* The popup answers Selected: resize, attach or detach. *)
ServerChoose ==
  /\ KeysTo("Detail") /\ popup # None
  /\ \E item \in popup.items :
       \/ /\ popup.what = "Resize"
          /\ Open(Destructive("no"), view.of, "Resize", view.of, item)
       \/ /\ popup.what = "AttachVolume" /\ item \in cache
          /\ Open(Destructive("no"), view.of, "AttachVolume", view.of, item)
       \/ /\ popup.what = "DetachVolume" /\ item \in cache
          /\ \E boot \in BOOLEAN : AskDetach(item, boot)
       \/ /\ popup.what \in {"AttachVolume", "DetachVolume"}
          /\ item \notin cache \/ (popup.what = "DetachVolume" /\ ~admin)
          /\ UNCHANGED asking
  /\ popup' = None
  /\ UNCHANGED <<about, view, list, form, flow, asked>>

(* handle_fip_selected. *)
PortsOf(server) == Command("Ports", server, None)
ServerChooseFip ==
  /\ KeysTo("Detail") /\ popup # None /\ popup.what = "AssociateFip"
  /\ \E fip \in popup.items : held' = fip
  /\ wanted' = view.of
  /\ asked' = asked \cup {PortsOf(view.of)}
  /\ popup' = None
  /\ UNCHANGED <<about, view, list, asking, form, cache, verdict, rule>>

(* handle_port_selected: the one question asked without the factory.       *)
(* cached_ports are what the popup was filled with.                        *)
ServerChoosePort ==
  /\ KeysTo("Detail") /\ popup # None /\ popup.what = "SelectPort"
  /\ \E port \in popup.items :
       IF held \in cache
         THEN Open("no", view.of, "AssociateFip", held, port)
         ELSE UNCHANGED asking
  /\ held' = None /\ popup' = None
  /\ UNCHANGED <<about, view, list, form, cache, verdict, rule, wanted, 
                 asked>>

ServerPopupCancel ==
  /\ KeysTo("Detail") /\ popup # None
  /\ popup' = None /\ held' = None
  /\ UNCHANGED <<about, view, list, asking, form, cache, verdict, rule, wanted,
                 asked>>

PortsAnswers(server) ==
  {{}, {[server |-> server, n |-> 1]},
   {[server |-> server, n |-> n] : n \in {1, 2}}}

(* PortsLoaded: only for an address chosen, and of the server last chosen. *)
PortsWanted(server) == held # None /\ wanted = server

(* handle_ports_loaded, whatever is on screen by then. *)
ServerPortsLoaded ==
  \E server \in Resources(scope) :
    /\ PortsOf(server) \in asked
    /\ asked' = asked \ {PortsOf(server)}
    /\ IF ~PortsWanted(server)
         THEN UNCHANGED <<asking, popup, held>>
         ELSE \E loaded \in PortsAnswers(server) :
                /\ held' = IF Cardinality(loaded) > 1 THEN held ELSE None
                /\ IF Cardinality(loaded) > 1
                     THEN PopUp("SelectPort", loaded)
                     ELSE UNCHANGED popup
                /\ IF Cardinality(loaded) = 1 /\ held \in cache
                     THEN Open(Destructive("no"), view.of, "AssociateFip",
                               held, [server |-> server, n |-> 1])
                     ELSE UNCHANGED asking
    /\ UNCHANGED <<about, view, list, form, cache, verdict, rule, wanted>>

(* ServersLoaded: resize_pending lasts while its server waits for the      *)
(* verdict.  Bound: the servers are listed in one order, with one status.  *)
StillVerifies(new) ==
  \E i \in 1..Len(new) : new[i].id = resize /\ new[i].st = "VERIFY_RESIZE"
ServerLists ==
  {<<>>} \cup {[n \in ResourceIds |-> [id |-> <<scope, n>>, st |-> st]] :
                 st \in ServerStatuses}
ServersLoaded ==
  \E new \in ServerLists :
    /\ SetRows(new)
    /\ resize' = IF StillVerifies(new) THEN resize ELSE None
    /\ UNCHANGED <<about, view, asking, popup, form, cache, held, resized, rule,
                   wanted, asked>>

(* A confirmed resize is accepted; its ServerResized event follows.  Bound: *)
(* one of the servers is resized.                                          *)
ServerResize ==
  /\ dialog # None /\ pending.op = "Resize" /\ pending.on = <<scope, 1>>
  /\ asked' = asked \cup {Command("Resized", pending.on, None)}
  /\ dialog' = None /\ pending' = None
  /\ UNCHANGED <<about, view, list, popup, form, flow>>
ServerResized ==
  \E server \in Resources(scope) :
    /\ Command("Resized", server, None) \in asked
    /\ asked' = asked \ {Command("Resized", server, None)}
    /\ resize' = server /\ resized' = resized \cup {server}
    /\ UNCHANGED <<about, view, list, asking, popup, form, cache, held, rule,
                   wanted>>

(* ResizeConfirmed and ResizeReverted forget the resize of any server; the  *)
(* verdict on a migration does not.                                        *)
ServerVerified ==
  /\ \E server \in resized : resized' = resized \ {server}
  /\ resize' \in {None, resize}
  /\ UNCHANGED <<about, view, list, asking, popup, form, cache, held, rule,
                 wanted, asked>>

(* on_context_changed forgets the resize; pending_fip_id, pending_ports_   *)
(* server_id and what was cached of other modules stay.                    *)
ServerLeaveScope ==
  /\ LeaveScope
  /\ resize' = None /\ resized' = {}
  /\ UNCHANGED <<cache, held, rule, wanted>>

ServerNext ==
  \/ ServerEnter \/ LeaveDetail \/ NavKey \/ AnswerDialog
  \/ ServerDelete \/ ServerQuestion \/ ServerVerify
  \/ ServerEvacuate \/ ServerPopUp \/ ServerDetachOnly \/ ServerChoose
  \/ ServerChooseFip \/ ServerChoosePort \/ ServerPopupCancel
  \/ ServerPortsLoaded \/ ServersLoaded \/ ServerResize \/ ServerResized
  \/ ServerVerified \/ CacheLoaded
  \/ OpenForm \/ SubmitForm \/ CancelForm
  \/ ServerLeaveScope \/ HighlightEnds \/ SetAllTenants

=============================================================================
