---------------------------- MODULE FloatingIpView ----------------------------
(***************************************************************************)
(* FloatingIpModule: a list only.  An address is given to a server in two  *)
(* popups, first the server, then, when it has several, the port; one      *)
(* select_popup serves both, told apart by pending_fip_id.  cache is       *)
(* cached_servers.  A row's status is whether the address is bound to a    *)
(* port.                                                                   *)
(***************************************************************************)
EXTENDS DomainModule

FipStatuses == {"free", "bound"}

FipListKey == KeysTo("List") /\ popup = None

FipNav      == popup = None /\ NavKey
FipOpenForm == popup = None /\ OpenForm

FipDelete ==
  /\ FipListKey /\ Selected # None
  /\ Open(Destructive("no"), None, "DeleteFloatingIp", Selected, None)
  /\ UNCHANGED <<about, view, list, popup, form, flow, asked>>

FipDisassociate ==
  /\ FipListKey /\ Selected # None /\ "bound" \in Status(Selected)
  /\ Open("name", None, "DisassociateFip", Selected, None)
  /\ UNCHANGED <<about, view, list, popup, form, flow, asked>>

FipAssociate ==
  /\ FipListKey /\ cache # {}
  /\ Selected # None /\ "free" \in Status(Selected)
  /\ PopUp("Server", cache)
  /\ UNCHANGED <<about, view, list, asking, form, flow, asked>>

FipPorts(server) == Command("Ports", server, None)

(* handle_server_selected: the address is the one selected by now. *)
FipServerChosen ==
  /\ KeysTo("List") /\ popup # None /\ held = None
  /\ \E server \in popup.items :
       IF Selected = None
         THEN UNCHANGED <<held, wanted, asked>>
         ELSE /\ held' = Selected /\ wanted' = server
              /\ asked' = asked \cup {FipPorts(server)}
  /\ popup' = None
  /\ UNCHANGED <<about, view, list, asking, form, cache, verdict, rule>>

ServerNamed(port) == IF port.server \in cache THEN port.server ELSE None
FipListed(fip) == RowOf(fip) # {}

(* handle_port_selected: with an address pending, whatever was chosen is   *)
(* looked up among the ports the popup was filled with, also a server.     *)
FipPortChosen ==
  /\ KeysTo("List") /\ popup # None /\ held # None
  /\ \E item \in popup.items :
       IF popup.what = "Port" /\ FipListed(held)
         THEN Open(Destructive("no"), ServerNamed(item), "AssociateFip",
                   held, item)
         ELSE UNCHANGED asking
  /\ held' = None /\ popup' = None
  /\ UNCHANGED <<about, view, list, form, cache, verdict, rule, wanted, 
                 asked>>

FipPopupCancel ==
  /\ KeysTo("List") /\ popup # None
  /\ popup' = None /\ held' = None
  /\ UNCHANGED <<about, view, list, asking, form, cache, verdict, rule, wanted,
                 asked>>

(* Ports of a server of another project are shown to an admin only. *)
FipPortsAnswers(server) ==
  IF server[1] # scope /\ ~admin THEN {{}}
  ELSE {{}, {[server |-> server, n |-> 1]},
        {[server |-> server, n |-> n] : n \in {1, 2}}}

(* Mutant: the answer's server is not looked at. *)
FipPortsOfAny(server) == held # None

(* PortsLoaded: only of the server last chosen. *)
FipPortsWanted(server) == wanted = server
(* handle_ports_loaded, whatever is on screen by then. *)
FipPortsLoaded ==
  \E server \in {s \in cache \cup {wanted} : FipPorts(s) \in asked} :
    /\ asked' = asked \ {FipPorts(server)}
    /\ IF ~FipPortsWanted(server)
         THEN UNCHANGED <<asking, popup, held>>
         ELSE \E loaded \in FipPortsAnswers(server) :
                /\ held' = IF Cardinality(loaded) > 1 THEN held ELSE None
                /\ IF held # None /\ Cardinality(loaded) > 1
                     THEN PopUp("Port", loaded)
                     ELSE UNCHANGED popup
                /\ IF held # None /\ Cardinality(loaded) = 1 /\ FipListed(held)
                     THEN \E port \in loaded :
                            Open(Destructive("no"), ServerNamed(port),
                                 "AssociateFip", held, port)
                     ELSE UNCHANGED asking
    /\ UNCHANGED <<about, view, list, form, cache, verdict, rule, wanted>>

FipsLoaded ==
  \E new \in Answers(Any(FipStatuses)) :
    /\ SetRows(new)
    /\ UNCHANGED <<about, view, asking, popup, form, flow, asked>>

(* FloatingIpAssociated and Disassociated: the row is changed in place     *)
(* before the list is fetched again.                                       *)
FipChangedInPlace ==
  /\ \E i \in 1..Len(rows), st \in FipStatuses :
       rows' = [rows EXCEPT ![i].st = st]
  /\ UNCHANGED <<about, view, shown, cursor, asking, popup, form, flow, asked>>

(* on_context_changed forgets the flow, and keeps the servers it cached. *)
FipLeaveScope ==
  /\ LeaveScope
  /\ held' = None /\ wanted' = None
  /\ UNCHANGED <<cache, verdict, rule>>

FipNext ==
  \/ FipNav \/ AnswerDialog
  \/ FipDelete \/ FipDisassociate \/ FipAssociate
  \/ FipServerChosen \/ FipPortChosen \/ FipPopupCancel
  \/ FipPortsLoaded \/ FipsLoaded \/ FipChangedInPlace \/ CacheLoaded
  \/ FipOpenForm \/ SubmitForm \/ CancelForm
  \/ FipLeaveScope \/ HighlightEnds \/ SetAllTenants

=============================================================================
