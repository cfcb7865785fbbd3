------------------------------ MODULE Parts_proofs ------------------------------
(***************************************************************************)
(* The parts of the program that share no state: the keyboard's owner, the *)
(* form, the project directory, notices, the refresh of screens and the    *)
(* files of the audit log, each for every value of its constants.          *)
(* Evacuation and EndpointCache have modules of their own.                 *)
(***************************************************************************)
EXTENDS Shell, FormWidget, Directory, Notices, Refresh, AuditFiles,
        FiniteSetTheorems, TLAPS

-----------------------------------------------------------------------------
(* Module Shell. *)

(* KeysHaveAnOwner is inductive: each conjunct is kept by who may act at   *)
(* all while it matters.                                                   *)
LEMMA ShellInitially == ShellInit => KeysHaveAnOwner
BY DEF ShellInit, KeysHaveAnOwner, Visible, Routes

(* Where the user is and where the focus is, and who has the keys.         *)
FocusFits == /\ pane = "Sidebar" => sidebar
             /\ moved \/ marked = route \/ route \notin Visible
OwnerFits == /\ bar = "Command" <=> inputMode = "Command"
             /\ logOpen => inputMode = "Normal"
             /\ formOpen <=> inputMode = "Form"

(* Navigation shows the focus somewhere, and marks where it went. *)
LEMMA NavigationFits ==
  ASSUME FocusFits, UNCHANGED isAdmin,
         \/ UNCHANGED nav
         \/ \E r : Navigate(r)
         \/ NavigateBack
  PROVE  FocusFits'
<1>1. Visible' = Visible
  BY DEF Visible
<1>2. CASE UNCHANGED nav
  BY <1>1, <1>2 DEF nav, FocusFits
<1>3. ASSUME SyncActive
      PROVE  moved' \/ marked' = route' \/ route' \notin Visible'
  BY <1>1, <1>3 DEF SyncActive
<1>4. ASSUME NEW r, Navigate(r)
      PROVE  FocusFits'
  BY <1>3, <1>4 DEF Navigate, FocusFits
<1>5. CASE NavigateBack
  BY <1>3, <1>5 DEF NavigateBack, FocusFits
<1> QED BY <1>2, <1>4, <1>5

LEMMA CommandKeysFit ==
  ASSUME KeysHaveAnOwner, CommandKeys
  PROVE  FocusFits' /\ OwnerFits'
<1>1. FocusFits /\ OwnerFits
  BY DEF KeysHaveAnOwner, FocusFits, OwnerFits
<1>2. inputMode = "Command" /\ ~logOpen /\ ~formOpen /\ UNCHANGED <<isAdmin, logOpen, over>>
  BY <1>1 DEF CommandKeys, CommandChar, CommandBackspace, CommandTab, CommandUp, CommandDown,
              CommandEsc, CommandEnter, CommandHasKey, OwnerFits
<1>3. CASE CommandChar \/ CommandBackspace \/ CommandTab \/ CommandUp \/ CommandDown
  <2>1. UNCHANGED <<nav, inputMode, bar>>
    BY <1>3 DEF CommandChar, CommandBackspace, CommandTab, CommandUp, CommandDown, Edit
  <2> QED BY <1>1, <1>2, <2>1, NavigationFits DEF OwnerFits, over
<1>4. CASE CommandEsc \/ CommandEnter
  <2>1. /\ inputMode' = "Normal" /\ bar' = "Normal"
        /\ \/ UNCHANGED nav
           \/ \E r : Navigate(r)
    BY <1>4 DEF CommandEsc, CommandEnter, SetInputMode, Execute, Routes
  <2> QED BY <1>1, <1>2, <2>1, NavigationFits DEF OwnerFits, over
<1> QED BY <1>3, <1>4 DEF CommandKeys

LEMMA NormalKeysFit ==
  ASSUME KeysHaveAnOwner, GlobalKeys \/ SidebarMove \/ SidebarEnter \/ ComponentKeys
  PROVE  FocusFits' /\ OwnerFits'
<1>1. FocusFits /\ OwnerFits
  BY DEF KeysHaveAnOwner, FocusFits, OwnerFits
<1>2. /\ inputMode = "Normal" /\ ~logOpen /\ ~formOpen /\ bar # "Command"
      /\ UNCHANGED <<isAdmin, logOpen>>
  BY <1>1 DEF GlobalKeys, ColonKey, TabKey, QuitKey, ShortcutKey, EscInSidebar, SidebarMove,
              SidebarEnter, ComponentKeys, ComponentBack, ComponentLeft, OpenDialog, EnterForm,
              StartEvacuation, SidebarHasKey, ComponentHasKey, GlobalKey, OwnerFits
<1>3. Visible' = Visible /\ Visible \subseteq Routes
  BY <1>2 DEF Visible
<1>4. OwnerFits'
  <2>1. CASE ColonKey
    <3>1. inputMode' = "Command" /\ bar' = "Command" /\ formOpen' = formOpen
      BY <2>1 DEF ColonKey, SetInputMode, over
    <3> QED BY <1>2, <3>1 DEF OwnerFits
  <2>2. CASE EnterForm
    <3>1. inputMode' = "Form" /\ bar' = "Normal" /\ formOpen' = TRUE
      BY <2>2 DEF EnterForm, SetInputMode
    <3> QED BY <1>2, <3>1 DEF OwnerFits
  <2>3. CASE ~ColonKey /\ ~EnterForm
    <3>1. UNCHANGED <<inputMode, bar, formOpen>>
      BY <2>3 DEF GlobalKeys, TabKey, QuitKey, ShortcutKey, EscInSidebar, SidebarMove,
                  SidebarEnter, ComponentKeys, ComponentBack, ComponentLeft, OpenDialog,
                  StartEvacuation, line, over
    <3> QED BY <1>1, <1>2, <3>1 DEF OwnerFits
  <2> QED BY <2>1, <2>2, <2>3
<1>5. FocusFits'
  <2>1. CASE TabKey
    BY <1>1, <1>3, <2>1 DEF TabKey, SyncActive, FocusFits
  <2>2. CASE EscInSidebar \/ ComponentLeft \/ SidebarMove
    BY <1>1, <1>3, <2>2 DEF EscInSidebar, ComponentLeft, SidebarMove, SidebarHasKey, FocusFits
  <2>3. CASE ~(TabKey \/ EscInSidebar \/ ComponentLeft \/ SidebarMove)
    <3>1. \/ UNCHANGED nav
          \/ \E r : Navigate(r)
          \/ NavigateBack
      BY <1>3, <2>3 DEF GlobalKeys, ColonKey, QuitKey, ShortcutKey, SidebarEnter, ComponentKeys,
                  ComponentBack, OpenDialog, EnterForm, StartEvacuation
    <3> QED BY <1>1, <1>2, <3>1, NavigationFits
  <2> QED BY <2>1, <2>2, <2>3
<1> QED BY <1>4, <1>5

LEMMA ShellStep == KeysHaveAnOwner /\ [ShellNext]_shellVars => KeysHaveAnOwner'
<1> SUFFICES ASSUME KeysHaveAnOwner, [ShellNext]_shellVars
             PROVE  FocusFits' /\ OwnerFits'
  BY DEF KeysHaveAnOwner, FocusFits, OwnerFits
<1>1. FocusFits /\ OwnerFits
  BY DEF KeysHaveAnOwner, FocusFits, OwnerFits
<1>2. ASSUME UNCHANGED <<isAdmin, nav>>, OwnerFits'
      PROVE  FocusFits' /\ OwnerFits'
  BY <1>1, <1>2, NavigationFits
<1>3. CASE LogKey \/ CtrlC \/ DialogKey \/ BusyEnds \/ LateDialog
  <2>1. UNCHANGED <<isAdmin, nav, line, formOpen>> /\ logOpen' \in {logOpen, FALSE}
    BY <1>3 DEF LogKey, CtrlC, DialogKey, BusyEnds, LateDialog, over
  <2> QED BY <1>1, <1>2, <2>1 DEF OwnerFits, line
<1>4. CASE ToggleLog
  <2>1. UNCHANGED <<isAdmin, nav, line, formOpen>> /\ inputMode = "Normal"
    BY <1>4 DEF ToggleLog, over
  <2> QED BY <1>1, <1>2, <2>1 DEF OwnerFits, line
<1>5. CASE FormKey
  BY <1>1, <1>2, <1>5 DEF FormKey, FormHasKey, SetInputMode, OwnerFits, line
<1>6. CASE ContextChanged
  BY <1>1, <1>2, <1>6 DEF ContextChanged, SetInputMode, OwnerFits
<1>7. CASE UNCHANGED shellVars
  BY <1>1, <1>2, <1>7 DEF shellVars, OwnerFits, line, over
<1> QED BY <1>3, <1>4, <1>5, <1>6, <1>7, CommandKeysFit, NormalKeysFit DEF ShellNext, ShellEvents

(* There is always somebody to take the keys and to show it (handle_key,   *)
(* set_input_mode, Sidebar::sync_active).                                  *)
THEOREM KeysAlwaysHaveAnOwner == ShellSpec => []KeysHaveAnOwner
BY ShellInitially, ShellStep, PTL DEF ShellSpec

(* While a dialog is in front no key but Ctrl+C and '!' changes anything   *)
(* but the dialog (handle_key's order).                                    *)
THEOREM DialogHasTheKeys == ShellSpec => DialogKeepsKeys
<1>1. ASSUME [ShellNext]_shellVars, DialogHasKey
      PROVE  \/ /\ UNCHANGED <<route, back, pane, marked>>
                /\ inputMode' = "Normal"
                /\ quit' => CtrlC
             \/ UNCHANGED shellVars
  <2>1. ~logOpen /\ inputMode = "Normal" /\ ~GlobalKey
    BY <1>1 DEF DialogHasKey, GlobalKey
  <2>2. CASE CtrlC
    BY <2>1, <2>2 DEF CtrlC, nav, line
  <2>3. CASE UNCHANGED shellVars
    BY <2>3
  <2>4. CASE ~quit /\ (ToggleLog \/ DialogKey \/ ShellEvents)
    <3>1. UNCHANGED <<nav, quit>> /\ inputMode' = "Normal"
      BY <2>1, <2>4 DEF ToggleLog, DialogKey, ShellEvents, BusyEnds, LateDialog, ContextChanged,
                        SetInputMode, line
    <3>2. ~quit'
      BY <2>4, <3>1
    <3> QED BY <3>1, <3>2 DEF nav
  <2>5. ~LogKey /\ ~FormKey /\ ~CommandKeys
    BY <2>1 DEF LogKey, FormKey, FormHasKey, CommandKeys, CommandChar, CommandBackspace,
                CommandTab, CommandUp, CommandDown, CommandEsc, CommandEnter, CommandHasKey
  <2>6. ~GlobalKeys /\ ~SidebarMove /\ ~SidebarEnter /\ ~ComponentKeys
    BY <2>1 DEF GlobalKeys, ColonKey, TabKey, QuitKey, ShortcutKey, EscInSidebar, SidebarMove,
                SidebarEnter, ComponentKeys, ComponentBack, ComponentLeft, OpenDialog, EnterForm,
                StartEvacuation, SidebarHasKey, ComponentHasKey
  <2> QED BY <1>1, <2>2, <2>3, <2>4, <2>5, <2>6 DEF ShellNext
<1> QED BY <1>1, PTL DEF ShellSpec, DialogKeepsKeys

-----------------------------------------------------------------------------
(* Module FormWidget. *)

FormTypeOK ==
  /\ phase \in {"Closed", "Editing", "Confirming"} /\ popup \in BOOLEAN
  /\ options \in [{"drop", "multi"} -> Seq(Option)]
  /\ selected \in Nat /\ ticked \subseteq Nat /\ row \in Nat

(* ChoiceIsUsers is not inductive: Space ticks the row the cursor is on,   *)
(* so that has to be one of the present options, and a popup is of a field *)
(* that has options at all.                                                *)
CursorFits ==
  /\ row = 1 \/ row \in DOMAIN options["multi"]
  /\ popup => Field \in {"drop", "multi"}

FormInv == FormTypeOK /\ CursorFits /\ ChoiceIsUsers

(* A list of options is a sequence of them. *)
LEMMA OptionListsAreSequences == OptionLists \subseteq Seq(Option)
BY DEF OptionLists

(* An empty form holds nothing. *)
LEMMA EmptiedForm ==
  ASSUME Emptied, phase' \in {"Closed", "Editing"}
  PROVE  FormInv'
<1>1. options' \in [{"drop", "multi"} -> Seq(Option)]
  <2>1. <<>> \in Seq(Option)
    OBVIOUS
  <2> QED BY <2>1 DEF Emptied, NoOptions
<1>2. popup' = FALSE /\ selected' = 0 /\ ticked' = {} /\ row' = 1
  BY DEF Emptied
<1>3. FormTypeOK'
  BY <1>1, <1>2 DEF FormTypeOK
<1>4. CursorFits' /\ ChoiceIsUsers'
  BY <1>2 DEF CursorFits, ChoiceIsUsers
<1> QED BY <1>3, <1>4 DEF FormInv

LEMMA FormInitially == FormInit => FormInv
<1> SUFFICES ASSUME FormInit
             PROVE  FormInv
  OBVIOUS
<1>1. options \in [{"drop", "multi"} -> Seq(Option)]
  <2>1. <<>> \in Seq(Option)
    OBVIOUS
  <2> QED BY <2>1 DEF FormInit, NoOptions
<1>2. popup = FALSE /\ selected = 0 /\ ticked = {} /\ row = 1 /\ phase = "Closed"
  BY DEF FormInit
<1>3. FormTypeOK
  BY <1>1, <1>2 DEF FormTypeOK
<1>4. CursorFits /\ ChoiceIsUsers
  BY <1>2 DEF CursorFits, ChoiceIsUsers
<1> QED BY <1>3, <1>4 DEF FormInv

(* A step that leaves the choice alone need only answer for the popup. *)
LEMMA SameChoice ==
  ASSUME FormInv, UNCHANGED choice,
         phase' \in {"Closed", "Editing", "Confirming"}, popup' \in BOOLEAN,
         popup' => /\ phase' = "Editing" /\ Field' \in {"drop", "multi"}
                   /\ options[Field'] # <<>>
  PROVE  FormInv'
<1>1. UNCHANGED <<options, selected, ticked, row, chosen>>
  BY DEF choice
<1>2. FormTypeOK' /\ CursorFits'
  BY <1>1 DEF FormInv, FormTypeOK, CursorFits
<1>3. ChoiceIsUsers'
  <2>1. popup' => phase' = "Editing" /\ options'[Field'] # <<>>
    BY <1>1
  <2> QED BY <1>1, <2>1 DEF FormInv, ChoiceIsUsers
<1> QED BY <1>2, <1>3 DEF FormInv

(* Options that arrive empty their field's choice and leave the other's. *)
LEMMA OptionsArrive ==
  ASSUME FormInv, NEW f \in {"drop", "multi"}, NEW opts \in OptionLists, SetFieldOptions(f, opts)
  PROVE  FormInv'
<1>1. opts \in Seq(Option)
  BY OptionListsAreSequences
<1>2. FormTypeOK'
  <2>1. options' \in [{"drop", "multi"} -> Seq(Option)]
    BY <1>1 DEF SetFieldOptions, FormInv, FormTypeOK
  <2>2. phase' = phase
    BY DEF SetFieldOptions
  <2>3. popup' \in BOOLEAN
    <3>1. popup' = (popup /\ Field # f)
      BY Zenon DEF SetFieldOptions
    <3> QED BY <3>1
  <2>4. CASE f = "drop"
    <3>1. selected' = 0 /\ ticked' = ticked /\ row' = row
      BY <2>4 DEF SetFieldOptions
    <3> QED BY <2>1, <2>2, <2>3, <3>1 DEF FormInv, FormTypeOK
  <2>5. CASE f = "multi"
    <3>1. selected' = selected /\ ticked' = {} /\ row' = 1
      BY <2>5 DEF SetFieldOptions
    <3> QED BY <2>1, <2>2, <2>3, <3>1 DEF FormInv, FormTypeOK
  <2> QED BY <2>4, <2>5
<1>3. popup' => popup /\ Field # f /\ Field' = Field
  BY DEF SetFieldOptions, Field
<1>4. CursorFits'
  BY <1>3 DEF SetFieldOptions, FormInv, FormTypeOK, CursorFits
<1>5. popup' => phase' = "Editing" /\ options'[Field'] # <<>>
  BY <1>3 DEF SetFieldOptions, FormInv, FormTypeOK, CursorFits, ChoiceIsUsers
<1>6. CASE f = "drop"
  <2>1. selected' = 0
    BY <1>6 DEF SetFieldOptions
  <2>2. ASSUME NEW i \in ticked'
        PROVE  i \in DOMAIN options'["multi"] /\ <<"multi", options'["multi"][i]>> \in chosen'
    BY <1>6, <2>2 DEF SetFieldOptions, FormInv, FormTypeOK, ChoiceIsUsers
  <2> QED BY <1>2, <1>4, <1>5, <2>1, <2>2 DEF FormInv, ChoiceIsUsers
<1>7. CASE f = "multi"
  <2>1. ticked' = {}
    BY <1>7 DEF SetFieldOptions
  <2>2. ASSUME selected' # 0
        PROVE  /\ selected' \in DOMAIN options'["drop"]
               /\ <<"drop", options'["drop"][selected']>> \in chosen'
    BY <1>7, <2>2 DEF SetFieldOptions, FormInv, FormTypeOK, ChoiceIsUsers
  <2> QED BY <1>2, <1>4, <1>5, <2>1, <2>2 DEF FormInv, ChoiceIsUsers
<1> QED BY <1>6, <1>7

(* A key in a popup chooses among the options that are there. *)
LEMMA PopupKeys ==
  ASSUME FormInv, MoveInDropdown \/ MoveInMultiSelect \/ Tick
  PROVE  FormInv'
<1>1. CASE MoveInDropdown
  <2>1. options["drop"] \in Seq(Option) /\ options["drop"] # <<>>
    BY <1>1 DEF MoveInDropdown, InPopup, FormInv, FormTypeOK, ChoiceIsUsers
  <2>2. selected' \in DOMAIN options["drop"]
    BY <1>1, <2>1 DEF MoveInDropdown
  <2> QED BY <1>1, <2>1, <2>2
          DEF MoveInDropdown, InPopup, Field, FormInv, FormTypeOK, CursorFits, ChoiceIsUsers
<1>2. CASE MoveInMultiSelect
  BY <1>2 DEF MoveInMultiSelect, InPopup, Field, FormInv, FormTypeOK, CursorFits, ChoiceIsUsers
<1>3. CASE Tick
  <2>1. options["multi"] \in Seq(Option) /\ options["multi"] # <<>>
    BY <1>3 DEF Tick, InPopup, FormInv, FormTypeOK, ChoiceIsUsers
  <2>2. row \in DOMAIN options["multi"]
    BY <2>1 DEF FormInv, CursorFits
  <2> QED BY <1>3, <2>1, <2>2
          DEF Tick, InPopup, Field, FormInv, FormTypeOK, CursorFits, ChoiceIsUsers
<1> QED BY <1>1, <1>2, <1>3

(* The other keys choose nothing. *)
LEMMA OtherKeys ==
  ASSUME FormInv,
         \/ MoveFocus \/ EditText \/ OpenPopup \/ EnterAtEnd
         \/ (\E b \in BOOLEAN : ClosePopup(b)) \/ BackToEditing
  PROVE  FormInv'
<1> USE DEF FormInv, FormTypeOK
<1>1. popup => phase = "Editing" /\ Field \in {"drop", "multi"} /\ options[Field] # <<>>
  BY DEF CursorFits, ChoiceIsUsers
<1>2. ASSUME ValidateAndSubmit
      PROVE  phase' \in {phase, "Confirming"}
  BY <1>2 DEF ValidateAndSubmit
<1>3. CASE MoveFocus \/ EditText \/ EnterAtEnd
  <2>1. UNCHANGED choice /\ popup' = FALSE
    BY <1>3 DEF MoveFocus, EditText, EnterAtEnd, Editing
  <2>2. phase' \in {"Editing", "Confirming"}
    BY <1>2, <1>3 DEF MoveFocus, EditText, EnterAtEnd, Editing
  <2> QED BY <2>1, <2>2, SameChoice
<1>4. CASE OpenPopup
  <2>1. UNCHANGED <<choice, phase, layout, focused>> /\ popup' = TRUE /\ phase = "Editing"
    BY <1>4 DEF OpenPopup, Editing
  <2>2. Field' = Field /\ Field \in {"drop", "multi"} /\ options[Field] # <<>>
    BY <1>4, <2>1 DEF OpenPopup, Field
  <2> QED BY <2>1, <2>2, SameChoice
<1>5. ASSUME NEW b \in BOOLEAN, ClosePopup(b)
      PROVE  FormInv'
  <2>1. UNCHANGED choice /\ popup' = FALSE /\ phase' \in {"Editing", "Confirming"}
    BY <1>2, <1>5 DEF ClosePopup
  <2> QED BY <2>1, SameChoice
<1>6. CASE BackToEditing
  <2>1. UNCHANGED choice /\ popup' = FALSE /\ phase' = "Editing"
    BY <1>1, <1>6 DEF BackToEditing
  <2> QED BY <2>1, SameChoice
<1> QED BY <1>3, <1>4, <1>5, <1>6

LEMMA FormStep == FormInv /\ [FormNext]_formVars => FormInv'
<1> SUFFICES ASSUME FormInv, [FormNext]_formVars
             PROVE  FormInv'
  OBVIOUS
<1>1. ASSUME NEW fields \in Layouts, OpenForm(fields)
      PROVE  FormInv'
  BY <1>1, EmptiedForm DEF OpenForm
<1>2. ASSUME NEW f \in {"drop", "multi"}, NEW opts \in OptionLists, SetFieldOptions(f, opts)
      PROVE  FormInv'
  BY <1>2, OptionsArrive
<1>3. CASE CancelForm \/ ConfirmSubmit
  BY <1>3, EmptiedForm DEF CancelForm, ConfirmSubmit
<1>4. CASE UNCHANGED formVars
  BY <1>4 DEF formVars, choice, Field, FormInv, FormTypeOK, CursorFits, ChoiceIsUsers
<1> QED BY <1>1, <1>2, <1>3, <1>4, PopupKeys, OtherKeys DEF FormNext

(* However often, whenever and in whatever order options are reloaded, the *)
(* form holds nothing the user did not choose, and no popup is open but    *)
(* over options that are there (set_field_options, handle_popup_key).      *)
THEOREM ChoicesAreUsers == FormSpec => []ChoiceIsUsers
<1>1. FormInv => ChoiceIsUsers
  BY DEF FormInv
<1> QED BY FormInitially, FormStep, <1>1, PTL DEF FormSpec

-----------------------------------------------------------------------------
(* Module Directory. *)

ListEntry == [projects : SUBSET Project, age : 0..Ttl - 1]
NameEntry == [name : DomainName, age : 0..Ttl - 1]
InForce   == [projects : SUBSET Project, domains : SUBSET Domain]
ListLookup == [at : {"listing"}, request : AskedFor, token : DirToken]
NameLookup == [at : {"naming"}, request : AskedFor, list : SUBSET Project,
               left : SUBSET Project, found : SUBSET Project]

DirectoryTypeOK ==
  /\ granted \subseteq Project /\ nameOf \in [Domain -> DomainName]
  /\ grantAge \in [Project -> Nat] /\ nameAge \in [Domain -> [AskedNames -> Nat]]
  /\ token \in DirToken \cup {Nothing}
  /\ listed \in [DirToken -> ListEntry \cup {Nothing}]
  /\ named \in [Domain -> NameEntry \cup {Nothing}]
  /\ lookup \in ListLookup \cup NameLookup \cup {Nothing}
  /\ recent \in InForce

(* What is in force has no age, and what a cache holds was in force when   *)
(* it was put there.                                                       *)
AgesFit ==
  /\ \A p \in granted : grantAge[p] = 0
  /\ \A d \in Domain : nameOf[d] \in AskedNames => nameAge[d][nameOf[d]] = 0
CachesFit ==
  /\ \A t \in DirToken : listed[t] # Nothing =>
       \A p \in listed[t].projects : grantAge[p] <= listed[t].age
  /\ \A d \in Domain : named[d] # Nothing /\ named[d].name \in AskedNames =>
       nameAge[d][named[d].name] <= named[d].age

(* What a lookup may still learn from Keystone, or from the cache of       *)
(* names, was in force within a TTL before it began, or since.             *)
Covers(inForce, key) ==
  /\ granted \subseteq inForce.projects
  /\ \A d \in Domain : nameOf[d] = key => d \in inForce.domains
  /\ \A d \in Domain : named[d] # Nothing /\ named[d].name = key => d \in inForce.domains
RecentFits == lookup # Nothing => Covers(recent, lookup.request.key)

(* While domains are named, the ids have been tried in vain, and what was  *)
(* found so far has, or had, the name.                                     *)
NamingFits ==
  At = "naming" =>
    /\ lookup.request.by = "name" /\ lookup.found \subseteq lookup.list
    /\ lookup.left \subseteq lookup.list /\ lookup.list \subseteq recent.projects
    /\ \A p \in lookup.list : DomainOf[p] # lookup.request.key
    /\ \A p \in lookup.found : DomainOf[p] \in recent.domains

DirectoryInv ==
  DirectoryTypeOK /\ AgesFit /\ CachesFit /\ RecentFits /\ NamingFits /\ ResolvedAsAsked

LEMMA DirectoryInitially == DirectoryInit => DirectoryInv
<1> SUFFICES ASSUME DirectoryInit
             PROVE  DirectoryInv
  OBVIOUS
<1>1. nameOf \in Namings /\ token \in DirToken
  BY DirectoryAssumption DEF DirectoryInit
<1>2. /\ granted = Project /\ grantAge = [p \in Project |-> 0]
      /\ nameAge = [d \in Domain |-> [n \in AskedNames |-> IF n = nameOf[d] THEN 0 ELSE Ttl]]
      /\ listed = [t \in DirToken |-> Nothing] /\ named = [d \in Domain |-> Nothing]
      /\ lookup = Nothing /\ target = Nothing /\ recent = [projects |-> {}, domains |-> {}]
  BY DEF DirectoryInit, NotAsked
<1>3. nameOf \in [Domain -> DomainName] /\ Ttl \in Nat
  BY <1>1, DirectoryAssumption DEF Namings
<1>4. DirectoryTypeOK
  BY <1>1, <1>2, <1>3 DEF DirectoryTypeOK, InForce
<1>5. AgesFit /\ CachesFit
  BY <1>2, <1>3 DEF AgesFit, CachesFit
<1>6. RecentFits /\ NamingFits /\ ResolvedAsAsked
  BY <1>2 DEF RecentFits, NamingFits, At, ResolvedAsAsked
<1> QED BY <1>4, <1>5, <1>6 DEF DirectoryInv

(* A lookup that ends with one project of the list, or with none. *)
LEMMA Concluded ==
  ASSUME NEW request, NEW list \in SUBSET Project, NEW found \in SUBSET list,
         NEW inForce, list \subseteq inForce.projects,
         \A p \in Project : found = {p} => AsAsked(p, request, list, inForce),
         Conclude(request, list, found, inForce)
  PROVE  lookup' = Nothing /\ recent' \in InForce /\ ResolvedAsAsked'
<1>1. lookup' = Nothing /\ recent' \in InForce
  BY DEF Conclude, NotAsked, InForce
<1>2. CASE Cardinality(found) # 1
  BY <1>1, <1>2 DEF Conclude, ResolvedAsAsked
<1>3. CASE Cardinality(found) = 1
  <2>1. IsFiniteSet(found)
    BY DirectoryAssumption, FS_Subset
  <2>2. PICK p : found = {p}
    BY <1>3, <2>1, FS_Singleton
  <2>3. p \in list /\ p \in Project /\ (CHOOSE q \in found : TRUE) = p
    BY <2>2
  <2>4. target' = [project |-> p, request |-> request, list |-> list, recent |-> inForce]
    BY <1>3, <2>3 DEF Conclude
  <2>5. /\ target'.project = p /\ target'.request = request /\ target'.list = list
        /\ target'.recent = inForce
    BY <2>4
  <2>6. AsAsked(p, request, list, inForce)
    BY <2>2, <2>3
  <2> QED BY <1>1, <2>3, <2>5, <2>6 DEF ResolvedAsAsked
<1> QED BY <1>2, <1>3

(* disambiguate_by_name, over a list that was the user's recently. *)
LEMMA Matched ==
  ASSUME NEW request \in AskedFor, NEW list \in SUBSET Project, NEW inForce \in InForce,
         list \subseteq inForce.projects, Covers(inForce, request.key),
         Match(request, list, inForce), UNCHANGED <<granted, nameOf, named>>
  PROVE  /\ lookup' \in NameLookup \cup {Nothing} /\ recent' \in InForce
         /\ RecentFits' /\ NamingFits' /\ ResolvedAsAsked'
<1> DEFINE primary == {p \in list : Fits(request, p)}
<1>1. CASE Conclude(request, list, primary, inForce)
  <2>1. ASSUME NEW p \in Project, primary = {p}
        PROVE  AsAsked(p, request, list, inForce)
    <3>1. p \in list /\ Fits(request, p)
      BY <2>1
    <3>2. CASE request.by = "id"
      BY <3>1, <3>2 DEF Fits, AsAsked
    <3>3. CASE request.by # "id" /\ request.key = Nothing
      <4>1. \A q \in list : Fits(request, q)
        BY <3>3 DEF Fits
      <4>2. list = {p}
        BY <2>1, <4>1
      <4> QED BY <3>3, <4>2 DEF AsAsked
    <3>4. CASE request.by # "id" /\ request.key # Nothing
      BY <3>1, <3>4 DEF Fits, AsAsked
    <3> QED BY <3>2, <3>3, <3>4
  <2>2. primary \in SUBSET list
    OBVIOUS
  <2> HIDE DEF primary
  <2>3. lookup' = Nothing /\ recent' \in InForce /\ ResolvedAsAsked'
    BY <1>1, <2>1, <2>2, Concluded
  <2> QED BY <2>3 DEF RecentFits, NamingFits, At
<1>2. CASE /\ primary = {} /\ request.by = "name" /\ request.key # Nothing
           /\ lookup' = [at |-> "naming", request |-> request, list |-> list,
                         left |-> list, found |-> {}]
           /\ recent' = inForce /\ target' = Nothing
  <2>1. \A p \in list : DomainOf[p] # request.key
    BY <1>2 DEF Fits
  <2>2. lookup' \in NameLookup
    BY <1>2 DEF NameLookup
  <2>3. /\ lookup'.request = request /\ lookup'.list = list /\ lookup'.left = list
        /\ lookup'.found = {}
    BY <1>2
  <2>4. NamingFits'
    BY <1>2, <2>1, <2>3 DEF NamingFits
  <2>5. RecentFits'
    BY <1>2, <2>3 DEF RecentFits, Covers
  <2> QED BY <1>2, <2>2, <2>4, <2>5 DEF ResolvedAsAsked
<1> QED BY <1>1, <1>2 DEF Match

LEMMA Resolves ==
  ASSUME DirectoryInv, NEW request \in AskedFor, Resolve(request)
  PROVE  DirectoryInv'
<1> DEFINE inForce == WithinTtl(request)
<1>1. /\ UNCHANGED <<granted, nameOf, changes, grantAge, nameAge, token, listed, named>>
      /\ token \in DirToken
  BY DEF Resolve, keystoneSide, DirectoryInv, DirectoryTypeOK
<1>2. AgesFit' /\ CachesFit'
  BY <1>1 DEF DirectoryInv, AgesFit, CachesFit
<1>3. /\ inForce \in InForce /\ Ttl \in Nat /\ 0 < Ttl
      /\ inForce.projects = {p \in Project : grantAge[p] < Ttl}
      /\ inForce.domains = {d \in Domain : request.key \in AskedNames /\ nameAge[d][request.key] < Ttl}
  BY DirectoryAssumption DEF WithinTtl, InForce
<1> HIDE DEF inForce
<1>4. Covers(inForce, request.key)
  <2>1. granted \subseteq inForce.projects
    BY <1>3 DEF DirectoryInv, DirectoryTypeOK, AgesFit
  <2>2. ASSUME NEW d \in Domain, nameOf[d] = request.key
        PROVE  d \in inForce.domains
    <3>1. request.key \in AskedNames
      BY <2>2 DEF DirectoryInv, DirectoryTypeOK, AskedNames
    <3> QED BY <1>3, <2>2, <3>1 DEF DirectoryInv, AgesFit
  <2>3. ASSUME NEW d \in Domain, named[d] # Nothing, named[d].name = request.key
        PROVE  d \in inForce.domains
    <3> PICK e \in NameEntry : e = named[d]
      BY <2>3 DEF DirectoryInv, DirectoryTypeOK
    <3>1. request.key \in AskedNames
      BY <2>3 DEF NameEntry, AskedNames
    <3>2. nameAge[d][request.key] <= e.age /\ nameAge[d][request.key] \in Nat
      BY <2>3, <3>1 DEF DirectoryInv, DirectoryTypeOK, CachesFit
    <3>3. e.age \in Int /\ e.age < Ttl
      BY <1>3 DEF NameEntry
    <3> QED BY <1>3, <3>1, <3>2, <3>3
  <2> QED BY <2>1, <2>2, <2>3 DEF Covers
<1>5. CASE listed[token] # Nothing
  <2> PICK e \in ListEntry : e = listed[token]
    BY <1>1, <1>5 DEF DirectoryInv, DirectoryTypeOK
  <2>1. e.projects \in SUBSET Project /\ e.age \in Int /\ e.age < Ttl
    BY <1>3 DEF ListEntry
  <2>2. \A p \in e.projects : grantAge[p] <= e.age /\ grantAge[p] \in Nat
    BY <1>1, <1>5, <2>1 DEF DirectoryInv, DirectoryTypeOK, CachesFit
  <2>3. e.projects \subseteq inForce.projects
    BY <1>3, <2>1, <2>2
  <2>4. Match(request, e.projects, inForce)
    BY <1>5 DEF Resolve, inForce
  <2>5. /\ lookup' \in NameLookup \cup {Nothing} /\ recent' \in InForce
        /\ RecentFits' /\ NamingFits' /\ ResolvedAsAsked'
    BY <1>1, <1>3, <1>4, <2>1, <2>3, <2>4, Matched
  <2> QED BY <1>1, <1>2, <2>5 DEF DirectoryInv, DirectoryTypeOK
<1>6. CASE listed[token] = Nothing
  <2>1. /\ lookup' = [at |-> "listing", request |-> request, token |-> token]
        /\ recent' = inForce /\ target' = Nothing
    BY <1>6 DEF Resolve, inForce
  <2>2. lookup' \in ListLookup /\ lookup'.request = request
    BY <1>1, <2>1 DEF ListLookup
  <2>3. RecentFits'
    BY <1>1, <1>4, <2>1, <2>2 DEF RecentFits, Covers
  <2>4. NamingFits' /\ ResolvedAsAsked'
    BY <2>1 DEF NamingFits, At, ResolvedAsAsked
  <2> QED BY <1>1, <1>2, <1>3, <2>1, <2>2, <2>3, <2>4 DEF DirectoryInv, DirectoryTypeOK
<1> QED BY <1>5, <1>6

LEMMA ListingArrives ==
  ASSUME DirectoryInv, ListingAnswered
  PROVE  DirectoryInv'
<1>1. /\ UNCHANGED <<granted, nameOf, changes, grantAge, nameAge, token, named>>
      /\ listed' = [listed EXCEPT ![lookup.token] = [projects |-> granted, age |-> 0]]
      /\ Match(lookup.request, granted, recent)
  BY DEF ListingAnswered, keystoneSide
<1>2. lookup \in ListLookup /\ lookup # Nothing
  BY DEF ListingAnswered, At, DirectoryInv, DirectoryTypeOK, NameLookup
<1>3. lookup.request \in AskedFor /\ lookup.token \in DirToken
  BY <1>2 DEF ListLookup
<1>4. granted \in SUBSET Project /\ \A p \in granted : grantAge[p] = 0
  BY DEF DirectoryInv, DirectoryTypeOK, AgesFit
<1>5. Covers(recent, lookup.request.key) /\ granted \subseteq recent.projects /\ recent \in InForce
  BY <1>2 DEF DirectoryInv, DirectoryTypeOK, RecentFits, Covers
<1>6. /\ lookup' \in NameLookup \cup {Nothing} /\ recent' \in InForce
      /\ RecentFits' /\ NamingFits' /\ ResolvedAsAsked'
  BY <1>1, <1>3, <1>4, <1>5, Matched
<1>7. [projects |-> granted, age |-> 0] \in ListEntry
  <2>1. 0 \in 0..Ttl - 1
    BY DirectoryAssumption
  <2> QED BY <1>4, <2>1 DEF ListEntry
<1>8. DirectoryTypeOK'
  BY <1>1, <1>3, <1>6, <1>7 DEF DirectoryInv, DirectoryTypeOK
<1>9. AgesFit'
  BY <1>1 DEF DirectoryInv, AgesFit
<1>10. CachesFit'
  <2>1. \A t \in DirToken : listed'[t] = IF t = lookup.token THEN [projects |-> granted, age |-> 0]
                                         ELSE listed[t]
    BY <1>1 DEF DirectoryInv, DirectoryTypeOK
  <2>2. ASSUME NEW t \in DirToken, listed'[t] # Nothing, NEW p \in listed'[t].projects
        PROVE  grantAge[p] <= listed'[t].age
    <3>1. CASE t = lookup.token
      BY <1>4, <2>1, <2>2, <3>1
    <3>2. CASE t # lookup.token
      BY <2>1, <2>2, <3>2 DEF DirectoryInv, CachesFit
    <3> QED BY <3>1, <3>2
  <2> QED BY <1>1, <2>2 DEF DirectoryInv, CachesFit
<1> QED BY <1>6, <1>8, <1>9, <1>10 DEF DirectoryInv

(* One candidate more has been named: it has the name, or had it recently, *)
(* or is passed over.                                                      *)
LEMMA Compared ==
  ASSUME DirectoryInv, NEW p, Naming(p), NEW names, Compare(p, names),
         lookup.request.key \in names => DomainOf[p] \in recent.domains
  PROVE  /\ lookup' \in NameLookup \cup {Nothing} /\ recent' \in InForce
         /\ lookup' # Nothing => recent' = recent /\ lookup'.request = lookup.request
         /\ NamingFits' /\ ResolvedAsAsked'
<1>1. lookup \in NameLookup /\ At = "naming" /\ p \in lookup.left /\ recent \in InForce
  BY DEF Naming, At, DirectoryInv, DirectoryTypeOK, ListLookup
<1> DEFINE found == lookup.found \cup (IF lookup.request.key \in names THEN {p} ELSE {})
           left == lookup.left \ {p}
<1>2. /\ lookup.request \in AskedFor /\ lookup.list \in SUBSET Project
      /\ lookup.left \subseteq lookup.list /\ lookup.found \subseteq lookup.list
      /\ lookup.list \subseteq recent.projects
      /\ lookup.request.by = "name" /\ lookup.request.by # "id"
      /\ \A q \in lookup.list : DomainOf[q] # lookup.request.key
      /\ \A q \in lookup.found : DomainOf[q] \in recent.domains
  BY <1>1 DEF DirectoryInv, NamingFits, NameLookup
<1>3. found \in SUBSET lookup.list /\ left \subseteq lookup.list
  BY <1>1, <1>2
<1>4. \A q \in found : DomainOf[q] \in recent.domains
  BY <1>2
<1>5. \/ Conclude(lookup.request, lookup.list, found, recent)
      \/ /\ lookup' = [lookup EXCEPT !.left = left, !.found = found]
         /\ target' = Nothing /\ recent' = recent
  BY DEF Compare
<1> HIDE DEF found, left
<1>6. CASE Conclude(lookup.request, lookup.list, found, recent)
  <2>1. \A q \in Project : found = {q} => AsAsked(q, lookup.request, lookup.list, recent)
    BY <1>2, <1>4 DEF AsAsked
  <2>2. lookup' = Nothing /\ recent' \in InForce /\ ResolvedAsAsked'
    BY <1>2, <1>3, <1>6, <2>1, Concluded
  <2> QED BY <2>2 DEF NamingFits, At
<1>7. CASE /\ lookup' = [lookup EXCEPT !.left = left, !.found = found]
           /\ target' = Nothing /\ recent' = recent
  <2>1. /\ lookup' \in NameLookup /\ lookup'.request = lookup.request
        /\ lookup'.list = lookup.list /\ lookup'.left = left /\ lookup'.found = found
    BY <1>1, <1>2, <1>3, <1>7 DEF NameLookup
  <2>2. NamingFits'
    BY <1>2, <1>3, <1>4, <1>7, <2>1 DEF NamingFits
  <2> QED BY <1>1, <1>7, <2>1, <2>2 DEF ResolvedAsAsked
<1> QED BY <1>5, <1>6, <1>7

LEMMA Names ==
  ASSUME DirectoryInv, NEW p, NameFromCache(p) \/ NameFromKeystone(p) \/ NamingFails(p)
  PROVE  DirectoryInv'
<1>1. /\ Naming(p) /\ UNCHANGED <<granted, nameOf, changes, grantAge, nameAge, token, listed>>
  BY DEF NameFromCache, NameFromKeystone, NamingFails, keystoneSide
<1>2. lookup \in NameLookup /\ lookup # Nothing /\ p \in Project /\ DomainOf[p] \in Domain
  <2>1. lookup \in NameLookup /\ lookup # Nothing /\ p \in lookup.left
    BY <1>1 DEF Naming, At, DirectoryInv, DirectoryTypeOK, ListLookup
  <2> QED BY <2>1, DirectoryAssumption DEF NameLookup
<1> DEFINE d == DomainOf[p]
           key == lookup.request.key
<1>3. AgesFit'
  BY <1>1 DEF DirectoryInv, AgesFit
<1>4. Covers(recent, key)
  BY <1>2 DEF DirectoryInv, RecentFits
<1>5. CASE NameFromCache(p)
  <2>1. /\ named[d] # Nothing /\ Compare(p, {named[d].name}) /\ named' = named
    BY <1>5 DEF NameFromCache
  <2>2. key \in {named[d].name} => d \in recent.domains
    BY <1>2, <1>4, <2>1 DEF Covers
  <2>3. /\ lookup' \in NameLookup \cup {Nothing} /\ recent' \in InForce
        /\ lookup' # Nothing => recent' = recent /\ lookup'.request = lookup.request
        /\ NamingFits' /\ ResolvedAsAsked'
    BY <1>1, <2>1, <2>2, Compared
  <2>4. RecentFits' /\ CachesFit'
    BY <1>1, <1>4, <2>1, <2>3 DEF RecentFits, Covers, DirectoryInv, CachesFit
  <2> QED BY <1>1, <1>3, <2>1, <2>3, <2>4 DEF DirectoryInv, DirectoryTypeOK
<1>6. CASE NameFromKeystone(p)
  <2> DEFINE entry == [name |-> nameOf[d], age |-> 0]
  <2>1. Compare(p, {nameOf[d]}) /\ named' = [named EXCEPT ![d] = entry]
    BY <1>6 DEF NameFromKeystone
  <2>2. nameOf[d] \in DomainName /\ (nameOf[d] \in AskedNames => nameAge[d][nameOf[d]] = 0)
    BY <1>2 DEF DirectoryInv, DirectoryTypeOK, AgesFit
  <2>3. entry \in NameEntry /\ entry.name = nameOf[d] /\ entry.age = 0
    <3>1. 0 \in 0..Ttl - 1
      BY DirectoryAssumption
    <3> QED BY <2>2, <3>1 DEF NameEntry
  <2>4. key \in {nameOf[d]} => d \in recent.domains
    BY <1>2, <1>4 DEF Covers
  <2>5. /\ lookup' \in NameLookup \cup {Nothing} /\ recent' \in InForce
        /\ lookup' # Nothing => recent' = recent /\ lookup'.request = lookup.request
        /\ NamingFits' /\ ResolvedAsAsked'
    BY <1>1, <2>1, <2>4, Compared
  <2>6. named' \in [Domain -> NameEntry \cup {Nothing}]
    BY <2>1, <2>3 DEF DirectoryInv, DirectoryTypeOK
  <2>7. named'[d] = entry /\ \A e \in Domain \ {d} : named'[e] = named[e]
    BY <1>2, <2>1 DEF DirectoryInv, DirectoryTypeOK
  <2> HIDE DEF entry
  <2>8. CachesFit'
    <3>1. \A e \in Domain : named'[e] # Nothing /\ named'[e].name \in AskedNames
            => nameAge[e][named'[e].name] <= named'[e].age
      BY <2>2, <2>3, <2>7 DEF DirectoryInv, CachesFit
    <3> QED BY <1>1, <3>1 DEF DirectoryInv, CachesFit
  <2>9. Covers(recent, key)'
      \/ ~(lookup' # Nothing)
    <3>1. \A e \in Domain : named'[e] # Nothing /\ named'[e].name = key => e \in recent.domains
      BY <1>4, <2>3, <2>4, <2>7 DEF Covers
    <3> QED BY <1>1, <1>4, <2>5, <3>1 DEF Covers
  <2>10. RecentFits'
    BY <2>5, <2>9 DEF RecentFits
  <2> QED BY <1>1, <1>3, <2>5, <2>6, <2>8, <2>10 DEF DirectoryInv, DirectoryTypeOK
<1>7. CASE NamingFails(p)
  <2>1. Compare(p, {}) /\ named' = named
    BY <1>7 DEF NamingFails
  <2>2. /\ lookup' \in NameLookup \cup {Nothing} /\ recent' \in InForce
        /\ lookup' # Nothing => recent' = recent /\ lookup'.request = lookup.request
        /\ NamingFits' /\ ResolvedAsAsked'
    BY <1>1, <2>1, Compared
  <2>3. RecentFits' /\ CachesFit'
    BY <1>1, <1>4, <2>1, <2>2 DEF RecentFits, Covers, DirectoryInv, CachesFit
  <2> QED BY <1>1, <1>3, <2>1, <2>2, <2>3 DEF DirectoryInv, DirectoryTypeOK
<1> QED BY <1>5, <1>6, <1>7

(* What Keystone does makes nothing older, and a lookup under way notes    *)
(* what comes into force.                                                  *)
LEMMA RoleChanges ==
  ASSUME DirectoryInv, NEW p \in Project, ChangeRole(p)
  PROVE  DirectoryInv'
<1>1. /\ UNCHANGED <<nameOf, nameAge, token, listed, named, lookup>> /\ target' = Nothing
      /\ granted' \subseteq Project /\ granted' \subseteq granted \cup {p}
      /\ grantAge' = [grantAge EXCEPT ![p] = 0]
      /\ recent' = IF lookup = Nothing THEN recent ELSE [recent EXCEPT !.projects = @ \cup granted']
  BY DEF ChangeRole, DirectoryInv, DirectoryTypeOK
<1>2. recent \in InForce /\ grantAge \in [Project -> Nat] /\ granted \subseteq Project
  BY DEF DirectoryInv, DirectoryTypeOK
<1>3. /\ recent' \in InForce /\ recent'.domains = recent.domains
      /\ recent.projects \subseteq recent'.projects
      /\ lookup # Nothing => granted' \subseteq recent'.projects
  BY <1>1, <1>2 DEF InForce
<1>4. /\ grantAge' \in [Project -> Nat]
      /\ \A q \in Project : grantAge'[q] <= grantAge[q] /\ grantAge'[q] = IF q = p THEN 0 ELSE grantAge[q]
  BY <1>1, <1>2
<1>5. DirectoryTypeOK'
  BY <1>1, <1>3, <1>4 DEF DirectoryInv, DirectoryTypeOK
<1>6. AgesFit'
  BY <1>1, <1>2, <1>4 DEF DirectoryInv, AgesFit
<1>7. CachesFit'
  <2>1. ASSUME NEW t \in DirToken, listed[t] # Nothing, NEW q \in listed[t].projects
        PROVE  grantAge'[q] <= listed[t].age
    <3> PICK e \in ListEntry : e = listed[t]
      BY <2>1 DEF DirectoryInv, DirectoryTypeOK
    <3>1. q \in Project /\ e.age \in Int /\ grantAge[q] <= e.age
      BY <2>1, DirectoryAssumption DEF DirectoryInv, CachesFit, ListEntry
    <3>2. grantAge[q] \in Nat /\ grantAge'[q] \in Nat /\ grantAge'[q] <= grantAge[q]
      BY <1>2, <1>4, <3>1
    <3> QED BY <3>1, <3>2
  <2> QED BY <1>1, <2>1 DEF DirectoryInv, CachesFit
<1>8. RecentFits'
  BY <1>1, <1>3 DEF DirectoryInv, RecentFits, Covers
<1>9. NamingFits'
  BY <1>1, <1>3 DEF DirectoryInv, NamingFits, At
<1> QED BY <1>1, <1>5, <1>6, <1>7, <1>8, <1>9 DEF DirectoryInv, ResolvedAsAsked

LEMMA DomainIsRenamed ==
  ASSUME DirectoryInv, NEW d \in Domain, NEW n \in DomainName, RenameDomain(d, n)
  PROVE  DirectoryInv'
<1>1. /\ UNCHANGED <<granted, grantAge, token, listed, named, lookup>> /\ target' = Nothing
      /\ nameOf' = [nameOf EXCEPT ![d] = n]
      /\ nameAge' = IF n \in AskedNames THEN [nameAge EXCEPT ![d][n] = 0] ELSE nameAge
      /\ recent' = IF lookup # Nothing /\ lookup.request.key = n
                   THEN [recent EXCEPT !.domains = @ \cup {d}] ELSE recent
  BY DEF RenameDomain
<1>2. /\ recent \in InForce /\ nameAge \in [Domain -> [AskedNames -> Nat]]
      /\ nameOf \in [Domain -> DomainName]
  BY DEF DirectoryInv, DirectoryTypeOK
<1>3. /\ recent' \in InForce /\ recent'.projects = recent.projects
      /\ recent.domains \subseteq recent'.domains
      /\ lookup # Nothing /\ lookup.request.key = n => d \in recent'.domains
  BY <1>1, <1>2 DEF InForce
<1>4. /\ nameAge' \in [Domain -> [AskedNames -> Nat]]
      /\ \A e \in Domain, m \in AskedNames :
           nameAge'[e][m] = IF e = d /\ m = n THEN 0 ELSE nameAge[e][m]
  BY <1>1, <1>2
<1>5. /\ nameOf' \in [Domain -> DomainName]
      /\ \A e \in Domain : nameOf'[e] = IF e = d THEN n ELSE nameOf[e]
  BY <1>1, <1>2
<1>6. DirectoryTypeOK'
  BY <1>1, <1>3, <1>4, <1>5 DEF DirectoryInv, DirectoryTypeOK
<1>7. AgesFit'
  BY <1>1, <1>4, <1>5 DEF DirectoryInv, AgesFit
<1>8. CachesFit'
  <2>1. ASSUME NEW e \in Domain, named[e] # Nothing, named[e].name \in AskedNames
        PROVE  nameAge'[e][named[e].name] <= named[e].age
    <3> PICK x \in NameEntry : x = named[e]
      BY <2>1 DEF DirectoryInv, DirectoryTypeOK
    <3>1. x.age \in 0..Ttl - 1 /\ nameAge[e][x.name] <= x.age
      BY <2>1 DEF DirectoryInv, CachesFit, NameEntry
    <3>2. nameAge'[e][x.name] \in {0, nameAge[e][x.name]}
      BY <1>4, <2>1
    <3> QED BY <3>1, <3>2, DirectoryAssumption
  <2> QED BY <1>1, <2>1 DEF DirectoryInv, CachesFit
<1>9. RecentFits'
  <2>1. ASSUME lookup # Nothing
        PROVE  Covers(recent, lookup.request.key)'
    BY <1>1, <1>3, <1>5, <2>1 DEF DirectoryInv, RecentFits, Covers
  <2> QED BY <1>1, <2>1 DEF RecentFits
<1>10. NamingFits'
  BY <1>1, <1>3 DEF DirectoryInv, NamingFits, At
<1> QED BY <1>1, <1>6, <1>7, <1>8, <1>9, <1>10 DEF DirectoryInv, ResolvedAsAsked

(* A tick makes what is out of force older by at most one, and every entry *)
(* by exactly one; an entry that is as old as the TTL goes.                *)
LEMMA DirectoryAges ==
  ASSUME DirectoryInv, DirectoryTick
  PROVE  DirectoryInv'
<1>1. /\ UNCHANGED <<granted, nameOf, token, lookup, recent>> /\ target' = Nothing
      /\ grantAge' = [p \in Project |-> IF p \in granted THEN 0 ELSE OneMore(grantAge[p])]
      /\ nameAge' = [d \in Domain |-> [n \in AskedNames |->
                       IF n = nameOf[d] THEN 0 ELSE OneMore(nameAge[d][n])]]
      /\ listed' = [t \in DirToken |-> Kept(listed[t])]
      /\ named' = [d \in Domain |-> Kept(named[d])]
  BY DEF DirectoryTick, GrowOlder
<1>2. Ttl \in Nat /\ \A n \in Nat : OneMore(n) \in Nat /\ OneMore(n) <= n + 1 /\ 0 <= n + 1
  BY DirectoryAssumption DEF OneMore
<1>3. /\ grantAge' \in [Project -> Nat]
      /\ \A p \in Project : grantAge'[p] <= grantAge[p] + 1 /\ grantAge[p] \in Nat
  BY <1>1, <1>2 DEF DirectoryInv, DirectoryTypeOK
<1>4. /\ nameAge' \in [Domain -> [AskedNames -> Nat]]
      /\ \A d \in Domain, n \in AskedNames :
           nameAge'[d][n] <= nameAge[d][n] + 1 /\ nameAge[d][n] \in Nat
  <2>1. \A d \in Domain, n \in AskedNames : nameAge[d][n] \in Nat
    BY DEF DirectoryInv, DirectoryTypeOK
  <2>2. \A d \in Domain, n \in AskedNames :
          nameAge'[d][n] = IF n = nameOf[d] THEN 0 ELSE OneMore(nameAge[d][n])
    BY <1>1
  <2> QED BY <1>1, <1>2, <2>1, <2>2
<1>5. ASSUME NEW t \in DirToken, listed'[t] # Nothing
      PROVE  /\ listed[t] # Nothing /\ listed[t] \in ListEntry /\ listed'[t] \in ListEntry
             /\ listed'[t].projects = listed[t].projects /\ listed'[t].age = listed[t].age + 1
  <2>1. /\ listed'[t] = [listed[t] EXCEPT !.age = @ + 1] /\ listed[t] # Nothing
        /\ listed[t].age + 1 # Ttl
    BY <1>1, <1>5 DEF Kept
  <2> PICK e \in ListEntry : e = listed[t]
    BY <2>1 DEF DirectoryInv, DirectoryTypeOK
  <2>2. e.age + 1 \in 0..Ttl - 1
    BY <1>2, <2>1 DEF ListEntry
  <2> QED BY <2>1, <2>2 DEF ListEntry
<1>6. ASSUME NEW d \in Domain, named'[d] # Nothing
      PROVE  /\ named[d] # Nothing /\ named[d] \in NameEntry /\ named'[d] \in NameEntry
             /\ named'[d].name = named[d].name /\ named'[d].age = named[d].age + 1
  <2>1. /\ named'[d] = [named[d] EXCEPT !.age = @ + 1] /\ named[d] # Nothing
        /\ named[d].age + 1 # Ttl
    BY <1>1, <1>6 DEF Kept
  <2> PICK e \in NameEntry : e = named[d]
    BY <2>1 DEF DirectoryInv, DirectoryTypeOK
  <2>2. e.age + 1 \in 0..Ttl - 1
    BY <1>2, <2>1 DEF NameEntry
  <2> QED BY <2>1, <2>2 DEF NameEntry
<1>7. DirectoryTypeOK'
  <2>1. listed' \in [DirToken -> ListEntry \cup {Nothing}]
    BY <1>1, <1>5
  <2>2. named' \in [Domain -> NameEntry \cup {Nothing}]
    BY <1>1, <1>6
  <2> QED BY <1>1, <1>3, <1>4, <2>1, <2>2 DEF DirectoryInv, DirectoryTypeOK
<1>8. AgesFit'
  <2>1. granted \subseteq Project /\ nameOf \in [Domain -> DomainName]
    BY DEF DirectoryInv, DirectoryTypeOK
  <2> QED BY <1>1, <2>1 DEF AgesFit
<1>9. CachesFit'
  <2>1. ASSUME NEW t \in DirToken, listed'[t] # Nothing, NEW p \in listed'[t].projects
        PROVE  grantAge'[p] <= listed'[t].age
    <3> PICK e \in ListEntry : e = listed[t]
      BY <1>5, <2>1
    <3>1. /\ p \in e.projects /\ p \in Project /\ e.age \in Int
          /\ grantAge[p] <= e.age /\ listed'[t].age = e.age + 1
      BY <1>2, <1>5, <2>1 DEF DirectoryInv, CachesFit, ListEntry
    <3>2. grantAge[p] \in Nat /\ grantAge'[p] \in Nat /\ grantAge'[p] <= grantAge[p] + 1
      BY <1>3, <3>1
    <3> QED BY <3>1, <3>2
  <2>2. ASSUME NEW d \in Domain, named'[d] # Nothing, named'[d].name \in AskedNames
        PROVE  nameAge'[d][named'[d].name] <= named'[d].age
    <3> PICK e \in NameEntry : e = named[d]
      BY <1>6, <2>2
    <3>1. /\ e.name \in AskedNames /\ e.age \in Int /\ nameAge[d][e.name] <= e.age
          /\ named'[d].age = e.age + 1 /\ named'[d].name = e.name
      BY <1>2, <1>6, <2>2 DEF DirectoryInv, CachesFit, NameEntry
    <3>2. /\ nameAge[d][e.name] \in Nat /\ nameAge'[d][e.name] \in Nat
          /\ nameAge'[d][e.name] <= nameAge[d][e.name] + 1
      BY <1>4, <3>1
    <3> QED BY <3>1, <3>2
  <2> QED BY <2>1, <2>2 DEF CachesFit
<1>10. RecentFits'
  <2>1. \A d \in Domain : named'[d] # Nothing => named[d] # Nothing /\ named'[d].name = named[d].name
    BY <1>6
  <2> QED BY <1>1, <2>1 DEF DirectoryInv, RecentFits, Covers
<1>11. NamingFits' /\ ResolvedAsAsked'
  BY <1>1 DEF DirectoryInv, NamingFits, At, ResolvedAsAsked
<1> QED BY <1>7, <1>8, <1>9, <1>10, <1>11 DEF DirectoryInv

LEMMA DirectoryStep == DirectoryInv /\ [DirectoryNext]_directoryVars => DirectoryInv'
<1> SUFFICES ASSUME DirectoryInv, [DirectoryNext]_directoryVars
             PROVE  DirectoryInv'
  OBVIOUS
<1>1. ASSUME target' \in {target, Nothing},
             \/ UNCHANGED <<lookup, recent>>
             \/ lookup' = Nothing /\ recent' = NotAsked,
             UNCHANGED <<granted, nameOf, grantAge, nameAge, named>>,
             token' \in DirToken \cup {Nothing},
             listed' \in {listed, [t \in DirToken |-> Nothing]}
      PROVE  DirectoryInv'
  <2>1. DirectoryTypeOK' /\ AgesFit'
    BY <1>1 DEF DirectoryInv, DirectoryTypeOK, AgesFit, NotAsked, InForce
  <2>2. CachesFit'
    BY <1>1 DEF DirectoryInv, CachesFit
  <2>3. RecentFits' /\ NamingFits'
    BY <1>1 DEF DirectoryInv, RecentFits, Covers, NamingFits, At
  <2>4. ResolvedAsAsked'
    BY <1>1 DEF DirectoryInv, ResolvedAsAsked
  <2> QED BY <2>1, <2>2, <2>3, <2>4 DEF DirectoryInv
<1>2. token \in DirToken \cup {Nothing}
  BY DEF DirectoryInv, DirectoryTypeOK
<1>3. CASE ListingFails \/ ChangeToken \/ InvalidateCloud \/ UNCHANGED directoryVars
  BY <1>1, <1>2, <1>3 DEF ListingFails, ChangeToken, InvalidateCloud, directoryVars, keystoneSide
<1> QED BY <1>3, Resolves, ListingArrives, Names, RoleChanges, DomainIsRenamed, DirectoryAges
        DEF DirectoryNext

(* A switch goes only where the user asked and may go: by a listing and a  *)
(* domain name in force within a TTL before the lookup began, or since,    *)
(* however long it takes and whatever becomes of roles, domain names,      *)
(* tokens and caches meanwhile (resolve, disambiguate_by_name,             *)
(* DirectoryCache::get).                                                   *)
THEOREM SwitchGoesWhereAsked == DirectorySpec => []ResolvedAsAsked
<1>1. DirectoryInv => ResolvedAsAsked
  BY DEF DirectoryInv
<1> QED BY DirectoryInitially, DirectoryStep, <1>1, PTL DEF DirectorySpec

-----------------------------------------------------------------------------
(* Module Notices. *)

Entry == [of : Nat, ok : BOOLEAN, read : BOOLEAN]

Shorter(m, n) == IF m > n THEN n ELSE m

NoticesTypeOK == outcomes \in Nat /\ entries \in Seq(Entry)

(* OutcomeReachesUser is not inductive: of the entry that is pushed out it *)
(* has to be known that it is the oldest, and of a read one that the user  *)
(* has seen it.                                                            *)
NewestAreLogged ==
  /\ Len(entries) = Shorter(outcomes, MaxEntries)
  /\ \A i \in 1..Len(entries) : entries[i].of = outcomes + 1 - i

ReadIsTold == \A i \in 1..Len(entries) : entries[i].read => entries[i].of \in told

NoticesInv == NoticesTypeOK /\ NewestAreLogged /\ ReadIsTold

LEMMA NoticesInitially == NoticesInit => NoticesInv
BY NoticesAssumption
   DEF NoticesInit, NoticesInv, NoticesTypeOK, NewestAreLogged, ReadIsTold, Shorter

(* push puts an entry in front of the others and cuts off the end. *)
LEMMA LoggedInFront ==
  ASSUME entries \in Seq(Entry), NEW e \in Entry
  PROVE  /\ Logged(e) \in Seq(Entry)
         /\ Len(Logged(e)) = Shorter(Len(entries) + 1, MaxEntries)
         /\ Logged(e)[1] = e
         /\ \A i \in 2..Len(Logged(e)) : Logged(e)[i] = entries[i - 1]
<1> DEFINE all == <<e>> \o entries
           n == Shorter(Len(all), MaxEntries)
<1>1. /\ all \in Seq(Entry) /\ Len(all) = Len(entries) + 1 /\ all[1] = e
      /\ \A i \in 2..Len(all) : all[i] = entries[i - 1]
  OBVIOUS
<1>2. n \in 1..Len(all)
  BY <1>1, NoticesAssumption DEF Shorter
<1>3. Logged(e) = SubSeq(all, 1, n)
  BY DEF Logged, Shorter
<1> HIDE DEF all, n
<1>4. /\ SubSeq(all, 1, n) \in Seq(Entry) /\ Len(SubSeq(all, 1, n)) = n
      /\ \A i \in 1..n : SubSeq(all, 1, n)[i] = all[i]
  BY <1>1, <1>2
<1>5. n = Shorter(Len(entries) + 1, MaxEntries)
  BY <1>1 DEF n
<1> QED BY <1>1, <1>2, <1>3, <1>4, <1>5

LEMMA OutcomeIsLogged ==
  ASSUME NoticesInv, NEW ok \in BOOLEAN, Outcome(ok)
  PROVE  NoticesInv'
<1> DEFINE e == [of |-> outcomes + 1, ok |-> ok, read |-> FALSE]
<1>1. outcomes' = outcomes + 1 /\ entries' = Logged(e) /\ told \subseteq told'
  BY DEF Outcome, Drawn
<1>2. e \in Entry
  BY DEF NoticesInv, NoticesTypeOK, Entry
<1>3. /\ entries' \in Seq(Entry)
      /\ Len(entries') = Shorter(Len(entries) + 1, MaxEntries)
      /\ entries'[1] = e
      /\ \A i \in 2..Len(entries') : entries'[i] = entries[i - 1]
  BY <1>1, <1>2, LoggedInFront DEF NoticesInv, NoticesTypeOK
<1>4. e.of = outcomes + 1 /\ e.read = FALSE
  OBVIOUS
<1> HIDE DEF e
<1>5. NoticesTypeOK'
  BY <1>1, <1>3 DEF NoticesInv, NoticesTypeOK
<1>6. Len(entries') = Shorter(outcomes', MaxEntries) /\ Len(entries') <= Len(entries) + 1
  BY <1>1, <1>3, NoticesAssumption DEF NoticesInv, NoticesTypeOK, NewestAreLogged, Shorter
<1>7. ASSUME NEW i \in 1..Len(entries')
      PROVE  /\ entries'[i].of = outcomes' + 1 - i
             /\ entries'[i].read => entries'[i].of \in told'
  <2>1. CASE i = 1
    BY <1>1, <1>3, <1>4, <2>1 DEF NoticesInv, NoticesTypeOK
  <2>2. CASE i # 1
    <3>1. i \in 2..Len(entries') /\ i - 1 \in 1..Len(entries)
      BY <1>3, <1>6, <1>7, <2>2 DEF NoticesInv, NoticesTypeOK
    <3>2. /\ entries[i - 1].of = outcomes + 1 - (i - 1)
          /\ entries[i - 1].read => entries[i - 1].of \in told
      BY <3>1 DEF NoticesInv, NewestAreLogged, ReadIsTold
    <3> QED BY <1>1, <1>3, <3>1, <3>2 DEF NoticesInv, NoticesTypeOK
  <2> QED BY <2>1, <2>2
<1> QED BY <1>5, <1>6, <1>7 DEF NoticesInv, NewestAreLogged, ReadIsTold

LEMMA LogOpens ==
  ASSUME NoticesInv, OpenLog
  PROVE  NoticesInv'
<1>1. /\ outcomes' = outcomes /\ entries' = AllRead
      /\ \A i \in 1..Len(entries) : entries[i].of \in told'
  BY DEF OpenLog, NoticesInv, NoticesTypeOK
<1>2. /\ entries' \in Seq(Entry) /\ Len(entries') = Len(entries)
      /\ \A i \in 1..Len(entries) : entries'[i].of = entries[i].of
  <2>1. entries \in [1..Len(entries) -> Entry] /\ Len(entries) \in Nat
    BY DEF NoticesInv, NoticesTypeOK
  <2>2. AllRead \in [1..Len(entries) -> Entry]
    BY <2>1 DEF AllRead, Entry
  <2>3. AllRead \in Seq(Entry) /\ Len(AllRead) = Len(entries)
    BY <2>1, <2>2
  <2>4. \A i \in 1..Len(entries) : AllRead[i].of = entries[i].of
    BY <2>1 DEF AllRead, Entry
  <2> QED BY <1>1, <2>3, <2>4
<1> QED BY <1>1, <1>2 DEF NoticesInv, NoticesTypeOK, NewestAreLogged, ReadIsTold

LEMMA NoticesStep == NoticesInv /\ [NoticesNext]_noticesVars => NoticesInv'
<1> SUFFICES ASSUME NoticesInv, [NoticesNext]_noticesVars
             PROVE  NoticesInv'
  OBVIOUS
<1>1. ASSUME UNCHANGED <<entries, outcomes>>, told \subseteq told'
      PROVE  NoticesInv'
  BY <1>1 DEF NoticesInv, NoticesTypeOK, NewestAreLogged, ReadIsTold
<1>2. ASSUME NEW level \in {"info", "error"}, Inform(level)
      PROVE  NoticesInv'
  BY <1>1, <1>2 DEF Inform, Drawn
<1>3. CASE ExpireToasts \/ CloseLog \/ UNCHANGED noticesVars
  BY <1>1, <1>3 DEF ExpireToasts, CloseLog, noticesVars, Drawn
<1> QED BY <1>2, <1>3, OutcomeIsLogged, LogOpens DEF NoticesNext

(* Whatever becomes of its toast, the user hears of an outcome, or is told *)
(* by the badge that the log has it; only MaxEntries newer ones may push   *)
(* it out (add_toast, expire_toasts, ActivityLog::push).                   *)
THEOREM OutcomesReachUser == NoticesSpec => []OutcomeReachesUser
<1>1. NoticesInv => OutcomeReachesUser
  <2> SUFFICES ASSUME NoticesInv, NEW o \in 1..outcomes, outcomes - o < MaxEntries
               PROVE  o \in told \/ \E i \in DOMAIN entries : entries[i].of = o /\ ~entries[i].read
    BY NoticesAssumption DEF OutcomeReachesUser, NoticesInv, NoticesTypeOK
  <2> DEFINE i == outcomes + 1 - o
  <2>1. i \in 1..Len(entries) /\ outcomes + 1 - i = o
    BY NoticesAssumption DEF NoticesInv, NoticesTypeOK, NewestAreLogged, Shorter
  <2>2. entries[i].of = o /\ (entries[i].read => o \in told)
    BY <2>1 DEF NoticesInv, NewestAreLogged, ReadIsTold
  <2> QED BY <2>1, <2>2 DEF NoticesInv, NoticesTypeOK
<1> QED BY NoticesInitially, NoticesStep, <1>1, PTL DEF NoticesSpec

-----------------------------------------------------------------------------
(* Module Refresh. *)

(* RefreshInTime is not inductive: the interval that ticks are compared    *)
(* with is the factor's, which has to stay below its bound.                *)
RefreshInv ==
  /\ ticks \in Nat /\ factor \in {1, 2, 4, 8} /\ factor <= MaxBackoff
  /\ RefreshInTime

(* The longest a tick may have to wait. *)
LEMMA LongestInterval ==
  ASSUME NEW n \in Nat, NEW fast \in BOOLEAN, factor \in {1, 2, 4, 8}, factor <= MaxBackoff,
         ~Due(n, fast)
  PROVE  n < MaxBackoff * NormalTicks
<1> DEFINE interval == IF fast THEN FastTicks ELSE NormalTicks
<1>1. interval \in Nat /\ NormalTicks \in Nat /\ interval <= NormalTicks
  BY RefreshAssumption
<1>2. n < interval * factor
  BY <1>1 DEF Due
<1> HIDE DEF interval
<1>3. interval * factor <= NormalTicks * factor
  BY <1>1
<1>4. NormalTicks * factor <= MaxBackoff * NormalTicks
  BY <1>1, RefreshAssumption
<1> QED BY <1>1, <1>2, <1>3, <1>4, RefreshAssumption

(* However errors and transitions move the interval while ticks are        *)
(* counted, a screen the user rests on is refreshed within the longest     *)
(* interval (RefreshScheduler::tick, backoff).                             *)
THEOREM RefreshComesInTime == RefreshSpec => []RefreshInTime
<1>1. /\ NormalTicks \in Nat \ {0} /\ MaxBackoff \in {1, 2, 4, 8}
      /\ 0 < MaxBackoff * NormalTicks
  BY RefreshAssumption
<1>2. RefreshInit => RefreshInv
  BY <1>1 DEF RefreshInit, RefreshInv, RefreshInTime
<1>3. RefreshInv /\ [RefreshNext]_refreshVars => RefreshInv'
  <2> SUFFICES ASSUME RefreshInv, [RefreshNext]_refreshVars
               PROVE  RefreshInv'
    OBVIOUS
  <2>1. ASSUME UNCHANGED ticks, factor' \in {factor, 1}
        PROVE  RefreshInv'
    BY <1>1, <2>1 DEF RefreshInv, RefreshInTime
  <2>2. ASSUME NEW b \in BOOLEAN, CountTick(b)
        PROVE  RefreshInv'
    <3>1. factor' = factor /\ (ticks' = 0 \/ (ticks' = ticks + 1 /\ ~Due(ticks + 1, b)))
      BY <2>2 DEF CountTick
    <3>2. ticks + 1 \in Nat
      BY DEF RefreshInv
    <3> QED BY <1>1, <3>1, <3>2, LongestInterval DEF RefreshInv, RefreshInTime
  <2>3. ASSUME NEW b \in BOOLEAN, AnswerSeen(b)
        PROVE  RefreshInv'
    <3>1. CASE factor' \in {factor, 1}
      BY <2>1, <2>3, <3>1 DEF AnswerSeen
    <3>2. CASE factor < MaxBackoff /\ factor' = factor * 2
      BY <1>1, <2>3, <3>2 DEF AnswerSeen, RefreshInv, RefreshInTime
    <3> QED BY <2>3, <3>1, <3>2 DEF AnswerSeen, Backoff
  <2>4. CASE SkippedTick \/ UNCHANGED refreshVars
    BY <2>1, <2>4 DEF SkippedTick, refreshVars
  <2>5. CASE Restart
    BY <1>1, <2>5 DEF Restart, RefreshInv, RefreshInTime
  <2> QED BY <2>2, <2>3, <2>4, <2>5 DEF RefreshNext
<1>4. RefreshInv => RefreshInTime
  BY DEF RefreshInv
<1> QED BY <1>2, <1>3, <1>4, PTL DEF RefreshSpec

-----------------------------------------------------------------------------
(* Module AuditFiles. *)

Files == 0..MaxRotated

AuditTypeOK ==
  /\ file \in [Files -> Nat] /\ writer \in {0, 1}
  /\ born \in Nat \ {0} /\ rotating \in 0..Idle

Ordered == \A i, j \in Files : file[i] # 0 /\ file[j] # 0 /\ i < j => file[i] > file[j]

(* A generation that is in no file is older than every one that is. *)
LostIsOlder ==
  \A g \in 1..born : \/ \E i \in Files : file[i] = g
                     \/ \A i \in Files : file[i] # 0 => g < file[i]

NoneIsNewer == \A i \in Files : file[i] <= born

(* The loop renames onto a free index, but for the last one: what it       *)
(* renamed one step before has left it free.                               *)
TargetIsFree ==
  rotating \in 0..MaxRotated - 1 => rotating + 1 = MaxRotated \/ file[rotating + 1] = 0

(* The writer is off the log exactly while there is no log.                *)
WriterFits ==
  /\ file[writer] = born
  /\ writer = 1 => file[0] = 0
  /\ rotating \in 0..MaxRotated - 1 => writer = 0
  /\ rotating = Reopening => writer = 1

AuditInv == /\ AuditTypeOK /\ Ordered /\ LostIsOlder /\ NoneIsNewer
       /\ TargetIsFree /\ WriterFits

(* One rename moves a generation one file up, loses at most the content of *)
(* the last file, and keeps the order.                                     *)
LEMMA Moving ==
  ASSUME AuditTypeOK, Ordered, LostIsOlder, NoneIsNewer, born' = born,
         NEW r \in 0..MaxRotated - 1, r + 1 = MaxRotated \/ file[r + 1] = 0,
         file[r] # 0, Rename(r, r + 1)
  PROVE  /\ file' \in [Files -> Nat] /\ Ordered' /\ LostIsOlder' /\ NoneIsNewer'
         /\ file'[r] = 0 /\ file'[r + 1] = file[r]
         /\ \A i \in Files \ {r, r + 1} : file'[i] = file[i]
<1> USE AuditAssumption DEF Files, AuditTypeOK
<1>1. r \in Files /\ r + 1 \in Files /\ r # r + 1
  OBVIOUS
<1>2. /\ file' \in [Files -> Nat]
      /\ file'[r] = 0 /\ file'[r + 1] = file[r]
      /\ \A i \in Files \ {r, r + 1} : file'[i] = file[i]
  BY <1>1 DEF Rename
<1>3. Ordered'
  <2> SUFFICES ASSUME NEW i \in Files, NEW j \in Files,
                      file'[i] # 0, file'[j] # 0, i < j
               PROVE  file'[i] > file'[j]
    BY DEF Ordered
  <2>1. i # r /\ j # r
    BY <1>2
  <2>2. CASE i = r + 1
    BY <1>1, <1>2, <2>1, <2>2 DEF Ordered
  <2>3. CASE j = r + 1
    BY <1>1, <1>2, <2>1, <2>3 DEF Ordered
  <2>4. CASE i # r + 1 /\ j # r + 1
    BY <1>2, <2>1, <2>4 DEF Ordered
  <2> QED BY <2>2, <2>3, <2>4
<1>4. LostIsOlder'
  <2> SUFFICES ASSUME NEW g \in 1..born, \A i \in Files : file'[i] # g,
                      NEW i \in Files, file'[i] # 0
               PROVE  g < file'[i]
    BY DEF LostIsOlder
  <2>1. PICK k \in Files : file'[i] = file[k] /\ file[k] # 0 /\ k # r + 1
    BY <1>1, <1>2
  <2>2. \A n \in Files : n # r + 1 => file[n] # g
    BY <1>1, <1>2
  <2>3. CASE file[r + 1] = g
    <3>1. r + 1 = MaxRotated
      BY <2>3
    <3>2. k < r + 1
      BY <2>1, <3>1
    <3> QED BY <1>1, <2>1, <2>3, <3>2 DEF Ordered
  <2>4. CASE file[r + 1] # g
    BY <2>1, <2>2, <2>4 DEF LostIsOlder
  <2> QED BY <2>3, <2>4
<1>5. NoneIsNewer'
  BY <1>1, <1>2 DEF NoneIsNewer
<1> QED BY <1>2, <1>3, <1>4, <1>5

(* A new log is a generation newer than all, and takes the place of none. *)
LEMMA Beginning ==
  ASSUME AuditTypeOK, Ordered, LostIsOlder, NoneIsNewer, file[0] = 0, NewLog
  PROVE  /\ file' \in [Files -> Nat] /\ born' \in Nat \ {0} /\ writer' = 0
         /\ Ordered' /\ LostIsOlder' /\ NoneIsNewer' /\ file'[0] = born'
<1> USE AuditAssumption DEF Files, AuditTypeOK
<1>1. /\ file' \in [Files -> Nat] /\ file'[0] = born + 1
      /\ \A i \in Files \ {0} : file'[i] = file[i]
      /\ born' = born + 1 /\ writer' = 0
  BY DEF NewLog
<1>2. Ordered'
  <2> SUFFICES ASSUME NEW i \in Files, NEW j \in Files,
                      file'[i] # 0, file'[j] # 0, i < j
               PROVE  file'[i] > file'[j]
    BY DEF Ordered
  <2>1. file'[j] = file[j] /\ file[j] <= born
    BY <1>1 DEF NoneIsNewer
  <2> QED BY <1>1, <2>1 DEF Ordered
<1>3. LostIsOlder'
  <2> SUFFICES ASSUME NEW g \in 1..born', \A i \in Files : file'[i] # g,
                      NEW i \in Files, file'[i] # 0
               PROVE  g < file'[i]
    BY DEF LostIsOlder
  <2>1. g \in 1..born
    BY <1>1
  <2>2. \A n \in Files : file[n] # g
    BY <1>1, <2>1
  <2> QED BY <1>1, <2>1, <2>2 DEF LostIsOlder
<1>4. NoneIsNewer'
  BY <1>1 DEF NoneIsNewer
<1> QED BY <1>1, <1>2, <1>3, <1>4

LEMMA AuditInitially == AuditInit => AuditInv
BY AuditAssumption DEF AuditInit, AuditInv, AuditTypeOK, Ordered, LostIsOlder, NoneIsNewer,
                       TargetIsFree, WriterFits, Files, Idle, Reopening

(* Where only the rotation's place changes. *)
LEMMA SameFiles ==
  ASSUME AuditInv, UNCHANGED <<file, writer, born>>, rotating' \in 0..Idle,
         TargetIsFree', rotating' \in 0..MaxRotated - 1 => writer = 0,
         rotating' = Reopening => writer = 1
  PROVE  AuditInv'
<1>1. AuditTypeOK' /\ NoneIsNewer'
  BY DEF AuditInv, AuditTypeOK, NoneIsNewer
<1>2. Ordered' /\ LostIsOlder'
  BY DEF AuditInv, Ordered, LostIsOlder
<1>3. WriterFits'
  BY DEF AuditInv, WriterFits
<1> QED BY <1>1, <1>2, <1>3 DEF AuditInv

LEMMA AuditStep == AuditInv /\ [AuditNext]_auditVars => AuditInv'
<1> SUFFICES ASSUME AuditInv, [AuditNext]_auditVars
             PROVE  AuditInv'
  OBVIOUS
<1> USE AuditAssumption DEF Files, Idle, Reopening
<1>1. CASE WriteLine \/ UNCHANGED auditVars
  <2>1. UNCHANGED <<file, writer, born, rotating>>
    BY <1>1 DEF WriteLine, auditVars
  <2> QED BY <2>1, SameFiles DEF AuditInv, AuditTypeOK, TargetIsFree, WriterFits
<1>2. CASE BeginRotation
  <2>1. /\ UNCHANGED <<file, writer, born>> /\ rotating' = MaxRotated - 1
        /\ file[0] # 0
    BY <1>2 DEF BeginRotation
  <2>2. writer = 0
    BY <2>1 DEF AuditInv, AuditTypeOK, WriterFits
  <2>3. TargetIsFree'
    BY <2>1 DEF TargetIsFree
  <2> QED BY <2>1, <2>2, <2>3, SameFiles DEF AuditInv, AuditTypeOK
<1>3. CASE Shift
  <2>1. /\ rotating \in 1..MaxRotated - 1 /\ rotating' = rotating - 1
        /\ UNCHANGED <<writer, born>> /\ writer = 0
    BY <1>3 DEF Shift, AuditInv, WriterFits
  <2>2. CASE file[rotating] = 0
    <3>1. file' = file
      BY <1>3, <2>2 DEF Shift
    <3>2. TargetIsFree'
      BY <2>1, <2>2, <3>1 DEF TargetIsFree
    <3> QED BY <2>1, <3>1, <3>2, SameFiles DEF AuditInv, AuditTypeOK
  <2>3. CASE file[rotating] # 0
    <3>1. Rename(rotating, rotating + 1)
      BY <1>3, <2>3 DEF Shift
    <3>2. rotating + 1 = MaxRotated \/ file[rotating + 1] = 0
      BY <2>1 DEF AuditInv, TargetIsFree
    <3>3. /\ file' \in [Files -> Nat] /\ Ordered' /\ LostIsOlder' /\ NoneIsNewer'
          /\ file'[rotating] = 0 /\ file'[0] = file[0]
      BY <2>1, <2>3, <3>1, <3>2, Moving DEF AuditInv
    <3>4. AuditTypeOK'
      BY <2>1, <3>3 DEF AuditInv, AuditTypeOK
    <3>5. TargetIsFree'
      BY <2>1, <3>3 DEF TargetIsFree
    <3>6. WriterFits'
      BY <2>1, <3>3 DEF AuditInv, WriterFits
    <3> QED BY <3>3, <3>4, <3>5, <3>6 DEF AuditInv
  <2> QED BY <2>2, <2>3
<1>4. CASE ShiftLog
  <2>1. /\ rotating = 0 /\ rotating' = MaxRotated /\ writer' = 1 /\ born' = born
        /\ Rename(0, 1) /\ writer = 0
    BY <1>4 DEF ShiftLog, AuditInv, WriterFits
  <2>2. file[0] = born /\ file[0] # 0 /\ (1 = MaxRotated \/ file[1] = 0)
    BY <2>1 DEF AuditInv, AuditTypeOK, WriterFits, TargetIsFree
  <2>3. /\ file' \in [Files -> Nat] /\ Ordered' /\ LostIsOlder' /\ NoneIsNewer'
        /\ file'[0] = 0 /\ file'[1] = born
    <3>1. 0 \in 0..MaxRotated - 1 /\ 0 + 1 = 1
      OBVIOUS
    <3> QED BY <2>1, <2>2, <3>1, Moving DEF AuditInv
  <2>4. AuditTypeOK' /\ TargetIsFree' /\ WriterFits'
    BY <2>1, <2>3 DEF AuditInv, AuditTypeOK, TargetIsFree, WriterFits
  <2> QED BY <2>3, <2>4 DEF AuditInv
<1>5. ASSUME NewLog, file[0] = 0, rotating' = Idle
      PROVE  AuditInv'
  <2>1. /\ file' \in [Files -> Nat] /\ born' \in Nat \ {0} /\ writer' = 0
        /\ Ordered' /\ LostIsOlder' /\ NoneIsNewer' /\ file'[0] = born'
    BY <1>5, Beginning DEF AuditInv
  <2>2. AuditTypeOK' /\ TargetIsFree' /\ WriterFits'
    BY <1>5, <2>1 DEF AuditTypeOK, TargetIsFree, WriterFits
  <2> QED BY <2>1, <2>2 DEF AuditInv
<1>6. CASE Reopen
  <2>1. file[0] = 0
    BY <1>6 DEF Reopen, AuditInv, WriterFits
  <2> QED BY <1>5, <1>6, <2>1 DEF Reopen
<1>7. CASE RotationFails
  <2>1. UNCHANGED <<file, writer, born>> /\ rotating' = Idle
    BY <1>7 DEF RotationFails
  <2>2. TargetIsFree'
    BY <2>1 DEF TargetIsFree
  <2> QED BY <2>1, <2>2, SameFiles
<1>8. CASE StartAgain
  <2>1. CASE file[0] = 0
    BY <1>5, <1>8, <2>1 DEF StartAgain
  <2>2. CASE file[0] # 0
    <3>1. UNCHANGED <<file, born>> /\ writer' = 0 /\ rotating' = Idle
      BY <1>8, <2>2 DEF StartAgain
    <3>2. writer = 0
      BY <2>2 DEF AuditInv, AuditTypeOK, WriterFits
    <3>3. TargetIsFree'
      BY <3>1 DEF TargetIsFree
    <3> QED BY <3>1, <3>2, <3>3, SameFiles
  <2> QED BY <2>1, <2>2
<1> QED BY <1>1, <1>2, <1>3, <1>4, <1>6, <1>7, <1>8 DEF AuditNext

(* Wherever a rotation is broken off and begun again, the files are in     *)
(* order, the writer writes to one that is on disk, and what is lost is    *)
(* older than all that is left (rotate_if_needed).                         *)
THEOREM OnlyOldestLinesAreLost == AuditSpec => []OnlyOldestIsLost
<1>1. AuditInv => OnlyOldestIsLost
  <2> SUFFICES ASSUME AuditInv
               PROVE  OnlyOldestIsLost
    OBVIOUS
  <2>1. DOMAIN file = Files
    BY DEF AuditInv, AuditTypeOK
  <2>2. file[writer] = born
    BY DEF AuditInv, WriterFits
  <2>3. \A i, j \in {n \in Files : file[n] # 0} : i < j => file[i] > file[j]
    BY DEF AuditInv, Ordered
  <2>4. \A g \in (1..born) \ {file[i] : i \in {n \in Files : file[n] # 0}},
           i \in {n \in Files : file[n] # 0} : g < file[i]
    BY DEF AuditInv, LostIsOlder
  <2> QED BY <2>1, <2>2, <2>3, <2>4 DEF OnlyOldestIsLost
<1> QED BY AuditInitially, AuditStep, <1>1, PTL DEF AuditSpec
=============================================================================
