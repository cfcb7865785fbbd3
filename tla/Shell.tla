-------------------------------- MODULE Shell --------------------------------
(***************************************************************************)
(* App as the owner of the keyboard: which part of the screen a key goes   *)
(* to (handle_key), the input modes and the command bar, the router, the   *)
(* sidebar and the focus, and the events that change them meanwhile.       *)
(*                                                                         *)
(* Three modules stand for all: Servers has a dialog and a form, Images is *)
(* for looking only, and Hosts takes the full width, is for admins and may *)
(* be busy evacuating.  (Other modules may close their form by themselves: *)
(* DomainModule has that.)  What is typed is one of a few texts: nothing,  *)
(* a prefix of a command, a command, or something else.                    *)
(***************************************************************************)
EXTENDS Naturals, Sequences, FiniteSets

CONSTANTS MaxHistory,   \* bound: MAX_HISTORY of the router
          MaxCommands   \* bound: max_size of the command history

ASSUME ShellBoundAssumption == {MaxHistory, MaxCommands} \subseteq Nat \ {0}

VARIABLES
  isAdmin,   \* rbac.is_admin()
  route, back,            \* router: current, history
  pane,      \* App.focus
  sidebar,   \* sidebar_visible
  marked,    \* the route of the sidebar's selected item
  moved,     \* history: marked was moved by the user since the last route
  inputMode, \* App.input_mode
  bar,       \* input_bar.mode
  buffer,    \* input_bar.buffer
  prefix,    \* tab_cycle_prefix
  completed, \* CommandParser: [last, index] of the completion
  commands, at,           \* CommandHistory: entries, cursor
  logOpen,   \* show_activity_log
  dialogOpen, formOpen,   \* of Servers
  busy,      \* HostModule::is_busy
  quit       \* should_quit

nav  == <<route, back, pane, sidebar, marked, moved>>
line == <<inputMode, bar, buffer, prefix, completed, commands, at>>
over == <<dialogOpen, formOpen, busy>>
shellVars == <<isAdmin, nav, line, logOpen, over, quit>>

-----------------------------------------------------------------------------
Routes == {"Servers", "Images", "Hosts"}
FullWidth(r) == r = "Hosts"          \* layout_hint

(* Sidebar::visible_items *)
Visible == IF isAdmin THEN Routes ELSE Routes \ {"Hosts"}

(* COMMAND_TABLE and the system commands.                                  *)
Commands == {"servers", "quit"}
Texts == Commands \cup {"", "s", "other"}

(* CommandParser::auto_complete: the commands that begin with a prefix.    *)
Completions(p) ==
  CASE p = ""  -> <<"quit", "servers">>
    [] p = "s" -> <<"servers">>
    [] p \in Commands -> <<p>>
    [] OTHER -> <<>>

NoCompletion == [last |-> "none", index |-> 1]

ShellInit ==
  /\ isAdmin \in BOOLEAN
  /\ route = "Servers" /\ back = <<>>
  /\ pane = "Content" /\ sidebar = TRUE /\ marked = "Servers" /\ moved = FALSE
  /\ inputMode = "Normal" /\ bar = "Normal" /\ buffer = ""
  /\ prefix = "none" /\ completed = NoCompletion
  /\ commands = <<>> /\ at = 0
  /\ logOpen = FALSE
  /\ dialogOpen = FALSE /\ formOpen = FALSE /\ busy = FALSE
  /\ quit = FALSE

-----------------------------------------------------------------------------
(* Whose key it is, in handle_key's order.                                 *)
Modal == route = "Servers" /\ dialogOpen
DialogHasKey  == ~logOpen /\ inputMode = "Normal" /\ Modal
CommandHasKey == ~logOpen /\ inputMode = "Command"
FormHasKey    == ~logOpen /\ inputMode = "Form"

(* Mutant: the global keys come before the dialog's. *)
GlobalKeyFirst == ~logOpen /\ inputMode = "Normal"

GlobalKey == ~logOpen /\ inputMode = "Normal" /\ ~Modal

SidebarHasKey   == GlobalKey /\ pane = "Sidebar" /\ sidebar
ComponentHasKey == GlobalKey /\ ~(pane = "Sidebar" /\ sidebar)

OnScreenBusy == route = "Hosts" /\ busy

(* set_input_mode: the only writer of input_mode, tells the input bar.     *)
(* Completion and history cursor are reset on entering Command mode; that  *)
(* they are here on leaving too makes no difference. *)
SetInputMode(m) ==
  /\ inputMode' = m
  /\ bar' = IF m = "Command" THEN "Command" ELSE "Normal"
  /\ buffer' = "" /\ completed' = NoCompletion
  /\ at' = 0

(* Router::navigate and back: no entry for staying, the oldest is dropped. *)
Pushed(r) == LET s == Append(back, r)
             IN IF Len(s) > MaxHistory THEN Tail(s) ELSE s
GoTo(r) ==
  IF r = route THEN UNCHANGED <<route, back>>
  ELSE route' = r /\ back' = Pushed(route)
GoBack ==
  IF back = <<>> THEN UNCHANGED <<route, back>>
  ELSE route' = back[Len(back)] /\ back' = SubSeq(back, 1, Len(back) - 1)

(* Sidebar::sync_active, for a route the sidebar lists.                    *)
SyncActive ==
  /\ marked' = IF route' \in Visible THEN route' ELSE marked
  /\ moved' = FALSE

(* dispatch_action: Navigate, Back, FocusSidebar.                          *)
Navigate(r) ==
  /\ GoTo(r) /\ SyncActive
  /\ pane' = "Content"
  /\ sidebar' = ~FullWidth(r)
NavigateBack ==
  /\ GoBack /\ SyncActive
  /\ sidebar' = (sidebar \/ ~FullWidth(route'))
  /\ UNCHANGED pane

-----------------------------------------------------------------------------
(* The activity log has every key while it is open, Ctrl+C too; nothing    *)
(* but '!' and Esc change what is modelled here.                           *)
LogKey ==
  /\ logOpen
  /\ logOpen' = FALSE
  /\ UNCHANGED <<isAdmin, nav, line, over, quit>>

ToggleLog ==
  /\ ~logOpen /\ inputMode = "Normal"
  /\ logOpen' = TRUE
  /\ UNCHANGED <<isAdmin, nav, line, over, quit>>

CtrlC ==
  /\ ~logOpen
  /\ quit' = TRUE
  /\ UNCHANGED <<isAdmin, nav, line, logOpen, over>>

(* The dialog's keys: it is answered or it stays. *)
DialogKey ==
  /\ DialogHasKey
  /\ dialogOpen' = FALSE
  /\ UNCHANGED <<isAdmin, nav, line, logOpen, formOpen, busy, quit>>

-----------------------------------------------------------------------------
(* InputBar::handle_key in Command mode, and App's use of what it returns. *)
Edit(text) ==
  /\ buffer' = text /\ prefix' = "none"
  /\ UNCHANGED <<inputMode, bar, completed, commands, at>>

(* What one more character can make of the buffer. *)
Typeable == IF buffer = "" THEN {"s", "other"}
            ELSE IF buffer = "s" THEN Commands \cup {"other"} ELSE {"other"} \cup (Commands \ {buffer})

CommandChar ==
  /\ CommandHasKey
  /\ \E text \in Typeable : Edit(text)
  /\ UNCHANGED <<isAdmin, nav, logOpen, over, quit>>

CommandBackspace ==
  /\ CommandHasKey
  /\ \E text \in CASE buffer \in {"", "s"} -> {""}
                   [] buffer \in Commands -> {"other"}
                   [] OTHER -> {"", "s", "other"} : Edit(text)
  /\ UNCHANGED <<isAdmin, nav, logOpen, over, quit>>

(* Tab: the prefix from before the first expansion goes on being used, so  *)
(* that auto_complete cycles.                                              *)
CycleFrom == IF prefix = "none" THEN buffer ELSE prefix
NextIndex == IF completed.last = CycleFrom /\ Completions(CycleFrom) # <<>>
               THEN (completed.index % Len(Completions(CycleFrom))) + 1 ELSE 1

CommandTab ==
  /\ CommandHasKey
  /\ completed' = [last |-> CycleFrom, index |-> NextIndex]
  /\ IF Completions(CycleFrom) = <<>> THEN UNCHANGED <<buffer, prefix>>
     ELSE buffer' = Completions(CycleFrom)[NextIndex] /\ prefix' = CycleFrom
  /\ UNCHANGED <<isAdmin, nav, inputMode, bar, commands, at, logOpen, over, quit>>

(* CommandHistory::prev and next; cursor 0 stands for none.                *)
CommandUp ==
  /\ CommandHasKey /\ commands # <<>>
  /\ at' = IF at = 0 THEN Len(commands) ELSE IF at = 1 THEN 1 ELSE at - 1
  /\ buffer' = commands[at'] /\ prefix' = "none"
  /\ UNCHANGED <<isAdmin, nav, inputMode, bar, completed, commands, logOpen, over, quit>>

CommandDown ==
  /\ CommandHasKey
  /\ prefix' = "none"
  /\ at' = IF at = 0 \/ at = Len(commands) THEN 0 ELSE at + 1
  /\ buffer' = IF at' = 0 THEN buffer ELSE commands[at']
  /\ UNCHANGED <<isAdmin, nav, inputMode, bar, completed, commands, logOpen, over, quit>>

CommandEsc ==
  /\ CommandHasKey
  /\ SetInputMode("Normal") /\ prefix' = "none"
  /\ UNCHANGED <<isAdmin, nav, commands, logOpen, over, quit>>

(* CommandHistory::push: a command is there once, as the newest.           *)
Remembered(text) ==
  LET Other(c) == c # text
      s == Append(SelectSeq(commands, Other), text)
  IN IF Len(s) > MaxCommands THEN Tail(s) ELSE s

(* execute_command: an unknown command is only toasted, and those that     *)
(* switch go to the switcher; neither changes what is modelled here.       *)
Execute(text) ==
  /\ IF text = "servers" THEN Navigate("Servers") ELSE UNCHANGED nav
  /\ quit' = (text = "quit")

CommandEnter ==
  /\ CommandHasKey
  /\ inputMode' = "Normal" /\ bar' = "Normal" /\ buffer' = "" /\ prefix' = "none"
  /\ completed' = NoCompletion
  /\ at' = 0
  /\ commands' = IF buffer \in Commands THEN Remembered(buffer) ELSE commands
  /\ Execute(buffer)
  /\ UNCHANGED <<isAdmin, logOpen, over>>

-----------------------------------------------------------------------------
(* The global keys. *)
ColonKey ==
  /\ GlobalKey
  /\ SetInputMode("Command")
  /\ UNCHANGED <<isAdmin, nav, prefix, commands, logOpen, over, quit>>

(* Tab leaves a module of full width, unless it is busy; elsewhere it      *)
(* moves the focus.                                                        *)
TabKey ==
  /\ GlobalKey
  /\ IF FullWidth(route)
       THEN /\ ~OnScreenBusy
            /\ GoBack /\ SyncActive
            /\ sidebar' = TRUE /\ pane' = "Sidebar"
       ELSE /\ sidebar
            /\ pane' = IF pane = "Content" THEN "Sidebar" ELSE "Content"
            /\ UNCHANGED <<route, back, sidebar, marked, moved>>
  /\ UNCHANGED <<isAdmin, line, logOpen, over, quit>>

(* Busy or not: docs/plans/2026-04-03-host-module-design.md has the App    *)
(* ignore it while a module is busy. *)
QuitKey ==
  /\ GlobalKey
  /\ quit' = TRUE
  /\ UNCHANGED <<isAdmin, nav, line, logOpen, over>>

(* 1 to 9, 0 and h.                                                        *)
ShortcutKey ==
  /\ GlobalKey /\ ~OnScreenBusy
  /\ \E r \in Visible : Navigate(r)
  /\ UNCHANGED <<isAdmin, line, logOpen, over, quit>>

EscInSidebar ==
  /\ GlobalKey /\ pane = "Sidebar"
  /\ pane' = "Content"
  /\ UNCHANGED <<isAdmin, route, back, sidebar, marked, moved, line, logOpen, over, quit>>

(* Sidebar::handle_key: j, k, and Enter.                                   *)
SidebarMove ==
  /\ SidebarHasKey
  /\ marked' \in Visible /\ moved' = TRUE
  /\ UNCHANGED <<isAdmin, route, back, pane, sidebar, line, logOpen, over, quit>>

SidebarEnter ==
  /\ SidebarHasKey
  /\ Navigate(marked)
  /\ UNCHANGED <<isAdmin, line, logOpen, over, quit>>

-----------------------------------------------------------------------------
(* What a component makes of its keys: Esc in a list goes back, Left gives *)
(* the sidebar the focus, Servers opens a dialog or a form, and Hosts      *)
(* starts an evacuation.                                                   *)
ComponentBack ==
  /\ ComponentHasKey /\ route # "Hosts"
  /\ NavigateBack
  /\ UNCHANGED <<isAdmin, line, logOpen, over, quit>>

ComponentLeft ==
  /\ ComponentHasKey /\ route # "Hosts"
  /\ pane' = IF sidebar THEN "Sidebar" ELSE pane
  /\ UNCHANGED <<isAdmin, route, back, sidebar, marked, moved, line, logOpen, over, quit>>

OpenDialog ==
  /\ ComponentHasKey /\ route = "Servers"
  /\ dialogOpen' = TRUE
  /\ UNCHANGED <<isAdmin, nav, line, logOpen, formOpen, busy, quit>>

EnterForm ==
  /\ ComponentHasKey /\ route = "Servers"
  /\ formOpen' = TRUE
  /\ SetInputMode("Form")
  /\ UNCHANGED <<isAdmin, nav, prefix, commands, logOpen, dialogOpen, busy, quit>>

(* A dialog that opened over the form is answered first.                   *)
FormKey ==
  /\ FormHasKey
  /\ dialogOpen' = FALSE
  /\ IF dialogOpen THEN UNCHANGED <<formOpen, line>>
     ELSE formOpen' = FALSE /\ SetInputMode("Normal") /\ UNCHANGED <<prefix, commands>>
  /\ UNCHANGED <<isAdmin, nav, logOpen, busy, quit>>

StartEvacuation ==
  /\ ComponentHasKey /\ route = "Hosts" /\ ~busy
  /\ busy' = TRUE
  /\ UNCHANGED <<isAdmin, nav, line, logOpen, dialogOpen, formOpen, quit>>

-----------------------------------------------------------------------------
(* Events.  The last evacuation answers; a late PortsLoaded opens a dialog *)
(* or popup of Servers wherever the user is by then.                       *)
BusyEnds ==
  /\ busy
  /\ busy' = FALSE
  /\ UNCHANGED <<isAdmin, nav, line, logOpen, dialogOpen, formOpen, quit>>

LateDialog ==
  /\ ~dialogOpen
  /\ dialogOpen' = TRUE
  /\ UNCHANGED <<isAdmin, nav, line, logOpen, formOpen, busy, quit>>

(* Mutant: the mode stays what it was. *)
ContextChangedKeepsMode ==
  /\ dialogOpen' = FALSE /\ formOpen' = FALSE
  /\ UNCHANGED <<isAdmin, nav, line, logOpen, busy, quit>>

(* ContextChanged: Normal mode, and the modules drop what they had open.   *)
(* The route, the focus and the prefix of a completion stay.               *)
ContextChanged ==
  /\ SetInputMode("Normal")
  /\ dialogOpen' = FALSE /\ formOpen' = FALSE
  /\ UNCHANGED <<isAdmin, nav, prefix, commands, logOpen, busy, quit>>

-----------------------------------------------------------------------------
GlobalKeys == ColonKey \/ TabKey \/ QuitKey \/ ShortcutKey \/ EscInSidebar
CommandKeys == CommandChar \/ CommandBackspace \/ CommandTab \/ CommandUp \/ CommandDown
               \/ CommandEsc \/ CommandEnter
ComponentKeys == ComponentBack \/ ComponentLeft \/ OpenDialog \/ EnterForm \/ StartEvacuation
ShellEvents == BusyEnds \/ LateDialog \/ ContextChanged

ShellNext ==
  /\ ~quit
  /\ \/ LogKey \/ ToggleLog \/ CtrlC \/ DialogKey \/ FormKey
     \/ CommandKeys \/ GlobalKeys \/ SidebarMove \/ SidebarEnter \/ ComponentKeys
     \/ ShellEvents

ShellSpec == ShellInit /\ [][ShellNext]_shellVars

-----------------------------------------------------------------------------
ShellTypeOK ==
  /\ route \in Routes /\ back \in Seq(Routes) /\ Len(back) <= MaxHistory
  /\ pane \in {"Content", "Sidebar"} /\ marked \in Visible
  /\ {isAdmin, sidebar, moved, logOpen, dialogOpen, formOpen, busy} \subseteq BOOLEAN
  /\ inputMode \in {"Normal", "Command", "Form"} /\ bar \in {"Normal", "Command"}
  /\ buffer \in Texts /\ prefix \in Texts \cup {"none"}
  /\ completed.last \in Texts \cup {"none"}
  /\ commands \in Seq(Commands) /\ Len(commands) <= MaxCommands /\ at \in 0..Len(commands)
  /\ quit \in BOOLEAN

(* There is always somebody to take the keys and to show it: the input bar *)
(* captures them exactly in Command mode, the activity log is open in      *)
(* Normal mode only, a form has the keys while it is open, and the focus   *)
(* is never in a sidebar that is hidden, which marks the module on screen  *)
(* until the user moves the mark (set_input_mode, handle_key).             *)
KeysHaveAnOwner ==
  /\ bar = "Command" <=> inputMode = "Command"
  /\ logOpen => inputMode = "Normal"
  /\ formOpen <=> inputMode = "Form"
  /\ pane = "Sidebar" => sidebar
  /\ moved \/ marked = route \/ route \notin Visible

(* While a module's dialog is in front, no key but Ctrl+C and '!' changes  *)
(* anything but the dialog: a 'q' or a digit typed into it is not taken    *)
(* for a command (handle_key's order).                                     *)
DialogKeepsKeys ==
  [][DialogHasKey =>
       /\ UNCHANGED <<route, back, pane, marked>>
       /\ inputMode' = "Normal"
       /\ quit' => CtrlC]_shellVars
=============================================================================
