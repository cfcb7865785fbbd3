------------------------------ MODULE DomainModule ------------------------------
(***************************************************************************)
(* What the domain modules of the screen have in common: the rows of a     *)
(* resource, the cursor of their ResourceList, the view (list, detail,     *)
(* create form), the ConfirmHandler with its dialog and the action it      *)
(* waits with, the SelectPopup, and what App does around them: the input   *)
(* mode, the all-tenants switch, the highlight after a context switch and  *)
(* the epoch gate, which lets no answer of an earlier scope through        *)
(* (module Dispatch).  One kind of module is on screen in a behaviour.     *)
(*                                                                         *)
(* A resource is <<scope, n>>: the scope it was listed in, and which one.  *)
(* A row is [id |-> a resource, st |-> its status].  Rendering, wording    *)
(* and the keys that only navigate elsewhere are left out.                 *)
(***************************************************************************)
EXTENDS Integers, Sequences, FiniteSets

CONSTANTS Kinds,     \* the kinds of module a behaviour may show
          MaxScope,  \* bound: contexts visited, one after the other
          None       \* no dialog, no popup, no resource

ASSUME ScopeAssumption == MaxScope \in Nat \ {0}

VARIABLES kind,      \* the module on screen
          admin,     \* is_admin, as broadcast by App
          scope,     \* the context in force
          fresh,     \* context_recently_switched
          mode,      \* App.input_mode: "Normal" or "Form"
          view,      \* view_state: [at, of]
          rows,      \* the module's own vector of resources
          shown,     \* how many rows the ResourceList shows
          cursor,    \* its selected index, from 1
          dialog,    \* ConfirmHandler.dialog: [typed, server], or None
          pending,   \* ConfirmHandler.pending: [op, on, with], or None
          popup,     \* select_popup: [what, items], or None
          form,      \* whether form is Some
          cache,     \* cached resources of another module
          held,      \* pending_fip_id; detail_sg_id in security groups
          resize,    \* resize_pending: the server, or None
          resized,   \* history: servers resized from here, without a verdict
          rule,      \* rule_selected, from 1
          wanted,    \* pending_ports_server_id
          asked      \* answers to come

about  == <<kind, admin, scope, fresh, mode>>
list   == <<rows, shown, cursor>>
asking == <<dialog, pending>>
verdict == <<resize, resized>>
flow   == <<cache, held, verdict, rule, wanted>>
vars   == <<about, view, list, asking, popup, form, flow, asked>>

List      == [at |-> "List", of |-> None]
Detail(r) == [at |-> "Detail", of |-> r]
Create    == [at |-> "Create", of |-> None]

ResourceIds == {1, 2}
Resources(s) == {<<s, n>> : n \in ResourceIds}
Command(op, on, with) == [op |-> op, on |-> on, with |-> with]

Init ==
  /\ kind \in Kinds
  /\ admin \in BOOLEAN
  /\ scope = 1 /\ fresh = FALSE /\ mode = "Normal"
  /\ view = List
  /\ rows = <<>> /\ shown = 0 /\ cursor = 1
  /\ dialog = None /\ pending = None /\ popup = None /\ form = FALSE
  /\ cache = {} /\ held = None /\ resize = None /\ resized = {} /\ rule = 1
  /\ wanted = None
  /\ asked = {}

(***************************************************************************)
(* Keys.  The dialog takes every key while it is open; then the view has   *)
(* them, where the popup comes first in the views that look at it.         *)
(***************************************************************************)
KeysTo(at) == dialog = None /\ view.at = at
Selected   == IF cursor <= Len(rows) THEN rows[cursor].id ELSE None
RowOf(r)   == {rows[i] : i \in {j \in 1..Len(rows) : rows[j].id = r}}
Status(r)  == {row.st : row \in RowOf(r)}

(* ResourceList::handle_nav_key: j, k, g and G. *)
NavKey ==
  /\ KeysTo("List")
  /\ \E c \in {cursor + 1, cursor - 1, 1, shown} \cap 1..shown : cursor' = c
  /\ UNCHANGED <<about, view, rows, shown, asking, popup, form, flow, asked>>

(* Mutant: the factory forgets the switch. *)
DestructiveIgnoresSwitch(typed) == typed

(* ConfirmDialog::for_destructive and its typed variant: right after a     *)
(* switch a yes/no question becomes one that wants the project's name.     *)
Destructive(typed) == IF typed = "no" /\ fresh THEN "project" ELSE typed

(* ConfirmHandler::open: also over a dialog that is open already.  server  *)
(* is the server the dialog's text names.                                  *)
Open(typed, server, op, on, with) ==
  /\ dialog'  = [typed |-> typed, server |-> server]
  /\ pending' = Command(op, on, with)

(* ConfirmDialog::handle_key: Confirmed by y, or by Enter once the text    *)
(* fits, and pending is what the worker is sent; or Cancelled by n or Esc. *)
AnswerDialog ==
  /\ dialog # None
  /\ dialog' = None /\ pending' = None
  /\ UNCHANGED <<about, view, list, popup, form, flow, asked>>

(* SelectPopup::new: j, k, its search and Enter come to any of the items. *)
PopUp(what, items) == popup' = [what |-> what, items |-> items]

(* Enter on a row of the list, where the module has a detail view. *)
EnterDetail ==
  /\ KeysTo("List") /\ Selected # None
  /\ view' = Detail(Selected)
  /\ UNCHANGED <<about, list, asking, popup, form, flow, asked>>

LeaveDetail ==
  /\ KeysTo("Detail") /\ popup = None
  /\ view' = List
  /\ UNCHANGED <<about, list, asking, popup, form, flow, asked>>

(* Mutant: EnterFormMode is not dispatched. *)
OpenFormInNormalMode ==
  /\ KeysTo("List")
  /\ view' = Create /\ form' = TRUE
  /\ UNCHANGED <<about, list, asking, popup, flow, asked>>

(* 'c' opens the form and App's dispatch of EnterFormMode follows. *)
OpenForm ==
  /\ KeysTo("List")
  /\ view' = Create /\ form' = TRUE /\ mode' = "Form"
  /\ UNCHANGED <<kind, admin, scope, fresh, list, asking, popup, flow, asked>>

(* Bound: an event is awaited where it does more than ask for the list. *)
Awaited(event) ==
  event.op = "Created" =>
    kind \notin {"server", "floating_ip", "security_group"}

(* FormWidget answers Submit: the form closes, the creation is sent past   *)
(* App to the worker, and App leaves Form mode.                            *)
SubmitForm ==
  /\ KeysTo("Create") /\ form
  /\ view' = List /\ form' = FALSE /\ mode' = "Normal"
  /\ asked' = IF Awaited(Command("Created", None, None))
                THEN asked \cup {Command("Created", None, None)} ELSE asked
  /\ UNCHANGED <<kind, admin, scope, fresh, list, asking, popup, flow>>

CancelForm ==
  /\ KeysTo("Create") /\ form
  /\ view' = List /\ form' = FALSE /\ mode' = "Normal"
  /\ UNCHANGED <<kind, admin, scope, fresh, list, asking, popup, flow, asked>>

(***************************************************************************)
(* Events.  A list is fetched by every key, timer and mutation that asks   *)
(* for it, so one may arrive at any time; what it holds is of the scope in *)
(* force, in any order.  Bound: it is empty or holds both resources.       *)
(***************************************************************************)
Answers(statuses) ==
  LET Row(n, st) == [id |-> <<scope, n>>, st |-> st]
  IN  {<<>>} \cup {<<Row(n, st[n]), Row(3 - n, st[3 - n])>> :
                     n \in ResourceIds, st \in statuses}
Any(statuses) == [ResourceIds -> statuses]

SetRows(new) == rows' = new /\ shown' = Len(new) /\ cursor' = 1

(* Bound: a server's module has one address or volume to offer. *)
Cached == IF kind = "server" THEN {<<scope, 1>>} ELSE Resources(scope)
CacheLoaded ==
  /\ cache' \in {{}, Cached}
  /\ UNCHANGED <<about, view, list, asking, popup, form, held, verdict, rule,
                 wanted, asked>>

(* A context comes into force, and the gate drops what was asked for in    *)
(* the one before; or :switch to the one in force announces it again.      *)
ContextChanged ==
  /\ \/ scope < MaxScope /\ scope' = scope + 1 /\ asked' = {}
     \/ scope > 1 /\ UNCHANGED <<scope, asked>>
  /\ fresh' = TRUE /\ mode' = "Normal"
  /\ UNCHANGED <<kind, admin>>

(* Mutant: a module forgets its confirm handler on a context change. *)
LeaveScopeKeepsQuestion ==
  /\ ContextChanged
  /\ view' = List
  /\ SetRows(<<>>)
  /\ popup' = None /\ form' = FALSE
  /\ UNCHANGED asking

(* App on ContextChanged: back to Normal mode, then on_context_changed of  *)
(* the module, then set_context_state.                                     *)
LeaveScope ==
  /\ ContextChanged
  /\ view' = List
  /\ SetRows(<<>>)
  /\ dialog' = None /\ pending' = None /\ popup' = None /\ form' = FALSE

(* App::on_tick, once the highlight of the indicator has run out. *)
HighlightEnds ==
  /\ fresh
  /\ fresh' = FALSE
  /\ UNCHANGED <<kind, admin, scope, mode, view, list, asking, popup, form,
                 flow, asked>>

(* Ctrl+A: the module gets a new, empty ResourceList and keeps its rows. *)
SetAllTenants ==
  /\ shown' = 0 /\ cursor' = 1
  /\ UNCHANGED <<about, view, rows, asking, popup, form, flow, asked>>

=============================================================================
