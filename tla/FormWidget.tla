------------------------------ MODULE FormWidget ------------------------------
(***************************************************************************)
(* The form of every create view (src/ui/form.rs): a text field, a         *)
(* dropdown, a multi-select and a checkbox, which a form has some of in    *)
(* some order.  The options of a dropdown or a multi-select arrive when    *)
(* the module's own fetches are answered, in whatever order and state of   *)
(* the form (set_field_options).                                           *)
(*                                                                         *)
(* A text is empty, one that a rule of its field refuses, or a good one.   *)
(* Left out are the cursor in the text, the scrolling of a dropdown, the   *)
(* wording of errors, and the value of a checkbox, which no rule is about. *)
(***************************************************************************)
EXTENDS Naturals, Sequences, FiniteSets

CONSTANTS Option,    \* values of options
          Layouts    \* the forms: sequences of "text", "drop", "multi", "check"

ASSUME LayoutAssumption ==
  Layouts \subseteq Seq({"text", "drop", "multi", "check"}) /\ <<>> \notin Layouts

VARIABLES
  layout,    \* the form's fields in order
  phase,     \* FormPhase, or "Closed" after Cancel and Submit
  focused,   \* index in layout
  text,      \* Text.value
  options,   \* FieldDef.options of "drop" and of "multi"
  selected,  \* Dropdown.selected, 0 for None
  ticked, row,               \* MultiSelect: indices selected, scroll + 1
  popup,     \* the focused field's popup is open
  chosen,    \* history: the options the user moved to or ticked, by field
  submitted  \* the values of the last Submit

choice == <<options, selected, ticked, row, chosen>>
formVars == <<layout, phase, focused, text, popup, choice, submitted>>

NoValues == [text |-> "none", drop |-> {}, multi |-> {}]

NoOptions == [f \in {"drop", "multi"} |-> <<>>]

FormInit ==
  /\ layout = <<"text">> /\ phase = "Closed" /\ focused = 1 /\ text = "" /\ popup = FALSE
  /\ options = NoOptions /\ selected = 0 /\ ticked = {} /\ row = 1 /\ chosen = {}
  /\ submitted = NoValues

Emptied ==
  /\ focused' = 1 /\ text' = "" /\ popup' = FALSE
  /\ options' = NoOptions /\ selected' = 0 /\ ticked' = {} /\ row' = 1 /\ chosen' = {}

(* new: what the module fetches for it is not there yet. *)
OpenForm(fields) ==
  /\ phase = "Closed"
  /\ layout' = fields /\ phase' = "Editing" /\ submitted' = NoValues
  /\ Emptied

-----------------------------------------------------------------------------
Field  == layout[focused]
IsLast == focused = Len(layout)
Has(f) == f \in {layout[i] : i \in DOMAIN layout}

(* Text and dropdown are required; `multiselect` and `checkbox` attach no  *)
(* rule.                                                                   *)
ValidateField(f) == CASE f = "text" -> text = "ok"
                      [] f = "drop" -> selected # 0
                      [] OTHER -> TRUE

(* validate_and_submit: to the first wrong field, or on to Confirming.     *)
ValidateAndSubmit ==
  LET wrong == {i \in DOMAIN layout : ~ValidateField(layout[i])}
  IN IF wrong = {} THEN phase' = "Confirming" /\ UNCHANGED focused
     ELSE /\ focused' = CHOOSE i \in wrong : \A j \in wrong : i <= j
          /\ UNCHANGED phase

(* Mutant: what was selected stays selected. *)
SetOptionsKeepsState(f, opts) ==
  /\ phase # "Closed" /\ Has(f)
  /\ options' = [options EXCEPT ![f] = opts]
  /\ UNCHANGED <<layout, phase, focused, text, selected, ticked, row, popup, chosen, submitted>>

(* set_field_options: the field begins anew, whatever the phase.           *)
SetFieldOptions(f, opts) ==
  /\ phase # "Closed" /\ Has(f)
  /\ options' = [options EXCEPT ![f] = opts]
  /\ IF f = "drop" THEN selected' = 0 /\ UNCHANGED <<ticked, row>>
                   ELSE ticked' = {} /\ row' = 1 /\ UNCHANGED selected
  /\ chosen' = {c \in chosen : c[1] # f}
  /\ popup' = (popup /\ Field # f)
  /\ UNCHANGED <<layout, phase, focused, text, submitted>>

-----------------------------------------------------------------------------
Editing == phase = "Editing" /\ ~popup
InPopup(f) == phase = "Editing" /\ popup /\ Field = f

MoveFocus ==
  /\ Editing
  /\ focused' \in {focused - 1, focused + 1} \cap DOMAIN layout
  /\ UNCHANGED <<layout, phase, text, popup, choice, submitted>>

(* A character or Backspace. *)
EditText ==
  /\ Editing /\ Field = "text"
  /\ text' \in {"", "bad", "ok"}
  /\ UNCHANGED <<layout, phase, focused, popup, choice, submitted>>

(* Enter and Right on a field with options. *)
OpenPopup ==
  /\ Editing /\ Field \in {"drop", "multi"} /\ options[Field] # <<>>
  /\ popup' = TRUE
  /\ UNCHANGED <<layout, phase, focused, text, choice, submitted>>

(* Enter on a last field that has nothing to open; a last checkbox is not  *)
(* toggled by it.                                                          *)
EnterAtEnd ==
  /\ Editing /\ IsLast
  /\ Field \in {"drop", "multi"} => options[Field] = <<>>
  /\ ValidateAndSubmit
  /\ UNCHANGED <<layout, text, popup, choice, submitted>>

CancelForm ==
  /\ Editing
  /\ phase' = "Closed" /\ Emptied
  /\ UNCHANGED <<layout, submitted>>

(* Up and Down select at once; what Esc closes stays selected. *)
MoveInDropdown ==
  /\ InPopup("drop")
  /\ selected' \in IF selected = 0 THEN {1}
                   ELSE {selected - 1, selected + 1} \cap DOMAIN options["drop"]
  /\ chosen' = chosen \cup {<<"drop", options["drop"][selected']>>}
  /\ UNCHANGED <<layout, phase, focused, text, popup, options, ticked, row, submitted>>

MoveInMultiSelect ==
  /\ InPopup("multi")
  /\ row' \in {row - 1, row + 1} \cap DOMAIN options["multi"]
  /\ UNCHANGED <<layout, phase, focused, text, popup, options, selected, ticked, chosen, submitted>>

Tick ==
  /\ InPopup("multi")
  /\ ticked' = IF row \in ticked THEN ticked \ {row} ELSE ticked \cup {row}
  /\ chosen' = chosen \cup {<<"multi", options["multi"][row]>>}
  /\ UNCHANGED <<layout, phase, focused, text, popup, options, selected, row, submitted>>

(* Enter in the popup of the last field goes on to validate. *)
ClosePopup(byEnter) ==
  /\ phase = "Editing" /\ popup
  /\ popup' = FALSE
  /\ IF byEnter /\ IsLast THEN ValidateAndSubmit ELSE UNCHANGED <<focused, phase>>
  /\ UNCHANGED <<layout, text, choice, submitted>>

-----------------------------------------------------------------------------
(* build_values *)
BuildValues ==
  [text  |-> IF Has("text") THEN text ELSE "none",
   drop  |-> IF selected \in DOMAIN options["drop"] THEN {options["drop"][selected]} ELSE {},
   multi |-> {options["multi"][i] : i \in ticked \cap DOMAIN options["multi"]}]

(* handle_confirming_key: no second look at the fields. *)
ConfirmSubmit ==
  /\ phase = "Confirming"
  /\ submitted' = BuildValues
  /\ phase' = "Closed" /\ Emptied
  /\ UNCHANGED layout

BackToEditing ==
  /\ phase = "Confirming"
  /\ phase' = "Editing"
  /\ UNCHANGED <<layout, focused, text, popup, choice, submitted>>

OptionLists == {s \in UNION {[1..n -> Option] : n \in 0..Cardinality(Option)} :
                  \A i, j \in DOMAIN s : s[i] = s[j] => i = j}

FormNext ==
  \/ \E fields \in Layouts : OpenForm(fields)
  \/ \E f \in {"drop", "multi"}, opts \in OptionLists : SetFieldOptions(f, opts)
  \/ MoveFocus \/ EditText \/ OpenPopup \/ EnterAtEnd \/ CancelForm
  \/ MoveInDropdown \/ MoveInMultiSelect \/ Tick \/ \E b \in BOOLEAN : ClosePopup(b)
  \/ ConfirmSubmit \/ BackToEditing

FormSpec == FormInit /\ [][FormNext]_formVars

-----------------------------------------------------------------------------
(* However often and whenever its options are reloaded, in another order   *)
(* or with some gone, the form holds nothing the user did not move to or   *)
(* tick, and shows no popup but of the field in focus and while it is      *)
(* edited (set_field_options, handle_popup_key).                           *)
ChoiceIsUsers ==
  /\ selected # 0 => selected \in DOMAIN options["drop"] /\ <<"drop", options["drop"][selected]>> \in chosen
  /\ \A i \in ticked : i \in DOMAIN options["multi"] /\ <<"multi", options["multi"][i]>> \in chosen
  /\ popup => phase = "Editing" /\ options[Field] # <<>>

(* form.rs: "* = required", and its test of a required dropdown without a  *)
(* selection expects an error that it "is required".                       *)
SubmittedIsValid ==
  submitted # NoValues =>
    (Has("drop") => submitted.drop # {}) /\ (Has("text") => submitted.text = "ok")
=============================================================================
