------------------------- MODULE DomainModules_proofs -------------------------
(***************************************************************************)
(* The domain modules, for any servers' statuses and any number of         *)
(* switches.  The invariant goes by what it is about: the form, the list,  *)
(* the view, what is kept of a choice under way, the popup, the question.  *)
(***************************************************************************)
EXTENDS DomainModules, TLAPS

Statuses == IF kind = "security_group" THEN 0..2
            ELSE ServerStatuses \cup VolumeStatuses \cup FipStatuses \cup {"any"}
RowsOf(s) == [id : Resources(s), st : Statuses]

FormFits == /\ form \in BOOLEAN /\ mode \in {"Normal", "Form"}
            /\ form => mode = "Form"

ListFits ==
  /\ rows \in Seq(RowsOf(scope)) /\ Len(rows) <= 2
  /\ shown \in {0, Len(rows)} /\ cursor \in 1..2
  /\ cursor > 1 => cursor <= shown

ViewFits ==
  /\ view \in [at : {"List", "Detail", "Create"}, of : Resource \cup {None}]
  /\ view.at = "Detail" => view.of \in Resources(scope)

FlowFits ==
  /\ scope \in 1..MaxScope
  /\ cache \subseteq Resource
  /\ held \in Resource \cup {None} /\ wanted \in Resource \cup {None}
  /\ rule \in Nat
  /\ kind \in ListKinds => held \in Resources(scope) \cup {None}
  /\ kind = "network" => held = None

(* A port offered is one of the server last chosen, and of this scope,     *)
(* unless an admin was shown another's.                                    *)
PortOffered(p) ==
  p \in Ports /\ p.server = wanted /\ (p.server[1] = scope \/ admin)
PopupFits ==
  popup # None =>
    IF popup.what \in {"SelectPort", "Port"}
      THEN \A port \in popup.items : PortOffered(port)
      ELSE popup.items \subseteq
             IF popup.what = "Attachment" THEN Attachment ELSE Resource

(* An address is at stake as long as its ports are offered: the answer     *)
(* that offered them was the last one awaited.                             *)
PortsFit ==
  kind = "floating_ip" /\ popup # None =>
    /\ popup.what \in {"Server", "Port"}
    /\ popup.what = "Port" => held # None /\ FipPorts(wanted) \notin asked

AskedFits ==
  /\ (dialog = None) <=> (pending = None)
  /\ QuestionFitsScope
  /\ PortFitsServer
  /\ SwitchedThenTyped

Inv == FormFits /\ ListFits /\ ViewFits /\ FlowFits /\ SubnetsFitDetail
       /\ PopupFits /\ PortsFit /\ AskedFits

-----------------------------------------------------------------------------
LEMMA Initially == Init => Inv
<1> SUFFICES ASSUME Init PROVE Inv
  OBVIOUS
<1>1. scope \in 1..MaxScope
  BY ScopeAssumption DEF Init
<1>2. FormFits /\ SubnetsFitDetail /\ PopupFits /\ PortsFit /\ AskedFits
  BY DEF Init, List, FormFits, SubnetsFitDetail, PopupFits, PortsFit, AskedFits, QuestionFitsScope,
         PortFitsServer, SwitchedThenTyped
<1>3. ListFits
  BY DEF Init, ListFits
<1>4. ViewFits /\ FlowFits
  BY <1>1 DEF Init, List, ViewFits, FlowFits
<1> QED BY <1>2, <1>3, <1>4 DEF Inv

(***************************************************************************)
(* The steps: those all kinds of module have, those the kinds in           *)
(* ListModules have not, a switch, and each kind's own.                    *)
(***************************************************************************)
Shared ==
  \/ LeaveDetail \/ NavKey \/ AnswerDialog \/ OpenForm \/ SubmitForm
  \/ CancelForm \/ HighlightEnds \/ SetAllTenants
NoList == EnterDetail \/ CacheLoaded
Leave ==
  \/ kind \notin ListKinds /\ (ServerLeaveScope \/ VolumeLeaveScope \/ FipLeaveScope)
  \/ kind \in ListKinds /\ ListLeaveScope
ServerAsks ==
  \/ ServerDelete \/ ServerQuestion \/ ServerVerify \/ ServerEvacuate
  \/ ServerDetachOnly
ServerChoices ==
  \/ ServerPopUp \/ ServerChoose \/ ServerChooseFip \/ ServerChoosePort
  \/ ServerPopupCancel \/ ServerPortsLoaded
ServerEvents ==
  ServersLoaded \/ ServerResize \/ ServerResized \/ ServerVerified
VolumeOwn ==
  \/ VolumeDelete \/ VolumeAttach \/ VolumeServerChosen \/ VolumePopupCancel
  \/ VolumeDetach \/ VolumeAttachmentChosen \/ VolumeForce
FipOwn ==
  \/ FipDelete \/ FipDisassociate \/ FipAssociate
  \/ FipServerChosen \/ FipPortChosen \/ FipPopupCancel \/ FipPortsLoaded
RuleForms == OpenRuleForm \/ CloseRuleForm

LEMMA Steps ==
  ASSUME Next
  PROVE  \/ Shared \/ Leave
         \/ kind \notin ListKinds /\ NoList
         \/ kind = "server" /\ (ServerAsks \/ ServerChoices \/ ServerEvents)
         \/ kind = "volume" /\ (VolumeOwn \/ VolumesLoaded \/ VolumeCreated)
         \/ kind = "floating_ip" /\ (FipOwn \/ FipsLoaded \/ FipChangedInPlace)
         \/ /\ kind \in ListKinds
            /\ \/ ListDelete \/ ListEnter \/ ListLoaded \/ SubnetsLoaded \/ ListCreated
               \/ RuleNav \/ RuleDelete \/ RuleForms
<1>0. ListKinds \cap {"server", "volume", "floating_ip"} = {}
  BY DEF ListKinds, KeysOf
<1>1. CASE kind = "server" /\ ServerNext
  BY <1>0, <1>1 DEF NoList, ServerNext, Shared, Leave, ServerAsks, ServerChoices, ServerEvents, ServerEnter
<1>2. CASE kind = "volume" /\ VolumeNext
  BY <1>0, <1>2 DEF NoList, VolumeNext, Shared, Leave, VolumeOwn, VolumeEnter, VolumeNav, VolumeOpenForm
<1>3. CASE kind = "floating_ip" /\ FipNext
  BY <1>0, <1>3 DEF NoList, FipNext, Shared, Leave, FipOwn, FipNav, FipOpenForm
<1>4. CASE kind \in ListKinds /\ ListNext
  BY <1>4 DEF ListNext, Shared, Leave, RuleForms, ListOpenForm, ListSubmit, ListCancel
<1> QED BY <1>1, <1>2, <1>3, <1>4 DEF Next

(* What the steps of a kind leave alone. *)
LEMMA SharedKeeps ==
  /\ Shared => UNCHANGED flow
  /\ Shared \/ NoList => UNCHANGED <<kind, admin, scope, rows, held, wanted, rule, popup>>
BY DEF Shared, NoList, EnterDetail, LeaveDetail, NavKey, AnswerDialog, CacheLoaded, OpenForm, SubmitForm,
       CancelForm, HighlightEnds, SetAllTenants, about, list, flow

LEMMA LeaveKeeps == Leave => LeaveScope /\ UNCHANGED <<kind, admin, rule>>
BY DEF Leave, ServerLeaveScope, VolumeLeaveScope, FipLeaveScope, ListLeaveScope, LeaveScope,
       ContextChanged, flow

LEMMA ServerAsksKeeps ==
  ServerAsks => UNCHANGED <<about, view, list, popup, form, flow, asked>>
BY DEF ServerAsks, ServerDelete, ServerQuestion, ServerVerify, ServerEvacuate, ServerDetachOnly

LEMMA ServerChoicesKeep ==
  ServerChoices => UNCHANGED <<about, view, list, form, cache, verdict, rule>>
BY DEF ServerChoices, ServerPopUp, ServerChoose, ServerChooseFip, ServerChoosePort,
       ServerPopupCancel, ServerPortsLoaded, flow

LEMMA ServerEventsKeep ==
  ServerEvents => UNCHANGED <<about, view, popup, form, cache, held, rule, wanted>>
BY DEF ServerEvents, ServersLoaded, ServerResize, ServerResized, ServerVerified, flow

LEMMA VolumeKeeps ==
  /\ VolumeOwn => UNCHANGED <<about, view, list, form, flow, asked>>
  /\ VolumesLoaded => UNCHANGED <<about, view, asking, popup, form, flow, asked>>
  /\ VolumeCreated => UNCHANGED <<about, list, asking, popup, flow>>
BY DEF VolumeOwn, VolumeDelete, VolumeAttach, VolumeServerChosen, VolumePopupCancel,
       VolumeDetach, VolumeAttachmentChosen, VolumeForce, VolumesLoaded, VolumeCreated

LEMMA FipKeeps ==
  /\ FipOwn => UNCHANGED <<about, view, list, form, cache, verdict, rule>>
  /\ FipsLoaded => UNCHANGED <<about, view, asking, popup, form, flow, asked>>
  /\ FipChangedInPlace =>
       UNCHANGED <<about, view, shown, cursor, asking, popup, form, flow, asked>>
BY DEF FipOwn, FipDelete, FipDisassociate, FipAssociate, FipServerChosen, FipPortChosen,
       FipPopupCancel, FipPortsLoaded, FipsLoaded, FipChangedInPlace, flow

LEMMA ListKeeps ==
  /\ ListDelete \/ RuleDelete => UNCHANGED <<about, view, list, popup, form, flow, asked>>
  /\ ListEnter => UNCHANGED <<about, list, asking, popup, form, held, wanted>>
  /\ ListLoaded => UNCHANGED <<about, view, asking, popup, form, flow, asked>>
  /\ SubnetsLoaded => UNCHANGED <<about, view, list, asking, popup, form, held, rule, wanted>>
  /\ ListCreated => UNCHANGED <<about, list, asking, popup, flow>>
  /\ RuleNav => UNCHANGED <<about, view, list, asking, popup, form, cache, held, wanted>>
  /\ RuleForms => UNCHANGED <<kind, admin, scope, fresh, list, asking, popup, cache, rule, wanted>>
BY DEF ListDelete, RuleDelete, ListEnter, ListLoaded, SubnetsLoaded, ListCreated, RuleNav,
       RuleForms, OpenRuleForm, CloseRuleForm

-----------------------------------------------------------------------------
(* The form opens in Form mode, and whatever ends that mode closes it. *)
LEMMA FormStep == ASSUME FormFits, Next PROVE FormFits'
<1>1. CASE UNCHANGED <<form, mode>>
  BY <1>1 DEF FormFits
<1>2. CASE OpenForm
  BY <1>2 DEF FormFits, OpenForm
<1>3. CASE SubmitForm \/ CancelForm
  BY <1>3 DEF FormFits, SubmitForm, CancelForm
<1>4. CASE Leave
  BY <1>4, LeaveKeeps DEF FormFits, LeaveScope, ContextChanged
<1>5. CASE VolumeCreated
  BY <1>5 DEF FormFits, VolumeCreated, about
<1>6. CASE ListCreated
  <2>1. form' \in BOOLEAN /\ (form' => form) /\ UNCHANGED mode
    BY <1>6 DEF ListCreated, about
  <2> QED BY <2>1 DEF FormFits
<1>7. CASE OpenRuleForm
  BY <1>7 DEF FormFits, OpenRuleForm
<1>8. CASE CloseRuleForm
  BY <1>8 DEF FormFits, CloseRuleForm
<1>9. CASE NoList \/ (Shared /\ ~OpenForm /\ ~SubmitForm /\ ~CancelForm)
  BY <1>1, <1>9 DEF Shared, NoList, EnterDetail, LeaveDetail, NavKey, AnswerDialog, CacheLoaded,
                    HighlightEnds, SetAllTenants, about
<1> QED BY <1>1, <1>2, <1>3, <1>4, <1>5, <1>6, <1>7, <1>8, <1>9, Steps, ServerAsksKeeps,
           ServerChoicesKeep, ServerEventsKeep, VolumeKeeps, FipKeeps, ListKeeps DEF about, RuleForms

-----------------------------------------------------------------------------
(* What is selected was listed in the scope in force. *)
LEMMA ResourcesFit ==
  ASSUME NEW s \in 1..MaxScope, NEW r \in Resources(s)
  PROVE  r \in Resource /\ r[1] = s
BY DEF Resources, Resource, ResourceIds

LEMMA SelectedFits ==
  ASSUME ListFits, FlowFits, Selected # None
  PROVE  Selected \in Resources(scope) /\ Selected \in Resource /\ Selected[1] = scope
<1>1. cursor \in 1..Len(rows) /\ Selected = rows[cursor].id
  BY DEF ListFits, Selected
<1>2. rows[cursor] \in RowsOf(scope)
  BY <1>1 DEF ListFits
<1> QED BY <1>1, <1>2, ResourcesFit DEF RowsOf, FlowFits

LEMMA ViewedFits ==
  ASSUME ViewFits, FlowFits, KeysTo("Detail")
  PROVE  view.of \in Resources(scope) /\ view.of \in Resource /\ view.of[1] = scope
BY ResourcesFit DEF ViewFits, FlowFits, KeysTo

LEMMA OfAView ==
  /\ List.at = "List" /\ Create.at = "Create" /\ \A r : Detail(r).at = "Detail" /\ Detail(r).of = r
  /\ {List, Create} \subseteq [at : {"List", "Detail", "Create"}, of : Resource \cup {None}]
  /\ \A r \in Resource : Detail(r) \in [at : {"List", "Detail", "Create"}, of : Resource \cup {None}]
BY DEF List, Create, Detail

(* A detail view is entered on a row of the scope, and left with it. *)
LEMMA ViewStep == ASSUME ListFits, ViewFits, FlowFits, Next PROVE ViewFits'
<1>1. CASE UNCHANGED <<scope, view>>
  BY <1>1 DEF ViewFits, Resource
<1>2. ASSUME view' \in {List, Create} PROVE ViewFits'
  BY <1>2, OfAView DEF ViewFits, Resource
<1>3. ASSUME NEW r \in Resources(scope), view' = Detail(r), UNCHANGED scope PROVE ViewFits'
  <2>1. r \in Resource
    BY ResourcesFit DEF FlowFits
  <2> QED BY <1>3, <2>1, OfAView DEF ViewFits, Resource
<1>4. CASE EnterDetail \/ ListEnter
  <2>1. Selected # None /\ view' = Detail(Selected) /\ UNCHANGED scope
    BY <1>4 DEF EnterDetail, ListEnter, about
  <2> QED BY <2>1, <1>3, SelectedFits
<1>5. CASE LeaveDetail \/ OpenForm \/ SubmitForm \/ CancelForm \/ VolumeCreated \/ ListCreated \/ OpenRuleForm
  BY <1>2, <1>5 DEF LeaveDetail, OpenForm, SubmitForm, CancelForm, VolumeCreated, ListCreated,
                    OpenRuleForm
<1>6. CASE Leave
  BY <1>2, <1>6, LeaveKeeps DEF LeaveScope
<1>7. CASE kind \in ListKinds /\ CloseRuleForm
  <2>1. held \in Resources(scope) /\ view' = Detail(held) /\ UNCHANGED scope
    BY <1>7 DEF CloseRuleForm, FlowFits
  <2> QED BY <2>1, <1>3
<1>8. CASE CacheLoaded \/ (Shared /\ ~LeaveDetail /\ ~OpenForm /\ ~SubmitForm /\ ~CancelForm)
  BY <1>1, <1>8 DEF Shared, NavKey, AnswerDialog, CacheLoaded, HighlightEnds, SetAllTenants, about
<1> QED BY <1>1, <1>4, <1>5, <1>6, <1>7, <1>8, Steps, ServerAsksKeeps, ServerChoicesKeep,
           ServerEventsKeep, VolumeKeeps, FipKeeps, ListKeeps DEF NoList, about, RuleForms

(* Subnets are dropped on the way into the detail view, and come only to   *)
(* the one they are of.                                                    *)
LEMMA SubnetsStep ==
  ASSUME ViewFits, FlowFits, SubnetsFitDetail, Next
  PROVE  SubnetsFitDetail'
<1>1. UNCHANGED kind
  BY Steps, SharedKeeps, LeaveKeeps, ServerAsksKeeps, ServerChoicesKeep, ServerEventsKeep,
     VolumeKeeps, FipKeeps, ListKeeps DEF about
<1> SUFFICES ASSUME kind = "network" PROVE SubnetsFitDetail'
  BY <1>1 DEF SubnetsFitDetail
<1>2. CASE UNCHANGED <<view, cache>>
  BY <1>1, <1>2 DEF SubnetsFitDetail
<1>3. ASSUME view' \in {List, Create} PROVE SubnetsFitDetail'
  BY <1>3, OfAView DEF SubnetsFitDetail
<1>4. CASE ListEnter
  BY <1>4 DEF ListEnter, SubnetsFitDetail
<1>5. CASE SubnetsLoaded
  BY <1>2, <1>5, OfAView DEF SubnetsLoaded, SubnetsFit, SubnetsFitDetail
<1>6. CASE LeaveDetail \/ OpenForm \/ SubmitForm \/ CancelForm \/ ListCreated \/ OpenRuleForm \/ Leave
  BY <1>3, <1>6, LeaveKeeps DEF LeaveDetail, OpenForm, SubmitForm, CancelForm, ListCreated,
                                OpenRuleForm, LeaveScope
<1>7. CASE CloseRuleForm
  BY <1>7 DEF CloseRuleForm, FlowFits
<1>8. CASE NavKey \/ AnswerDialog \/ HighlightEnds \/ SetAllTenants
  BY <1>2, <1>8 DEF NavKey, AnswerDialog, HighlightEnds, SetAllTenants, flow
<1>9. kind \in ListKinds
  BY DEF ListKinds, KeysOf
<1>10. Shared \/ Leave \/ ListDelete \/ ListEnter \/ ListLoaded \/ SubnetsLoaded \/ ListCreated
       \/ RuleNav \/ RuleDelete \/ RuleForms
  BY <1>9, Steps
<1> QED BY <1>2, <1>4, <1>5, <1>6, <1>7, <1>8, <1>10, ListKeeps DEF Shared, RuleForms, flow

-----------------------------------------------------------------------------
(* A list that is loaded starts at its first row, and is shown whole. *)
LEMMA LoadedFits ==
  ASSUME NEW new \in Seq(RowsOf(scope)), Len(new) <= 2, SetRows(new), UNCHANGED <<kind, scope>>
  PROVE  ListFits'
<1>1. RowsOf(scope)' = RowsOf(scope)
  BY DEF RowsOf, Statuses
<1> QED BY <1>1 DEF ListFits, SetRows

LEMMA PairFits ==
  ASSUME NEW S, NEW a \in S, NEW b \in S
  PROVE  <<a, b>> \in Seq(S) /\ Len(<<a, b>>) = 2
OBVIOUS

LEMMA TwoFit ==
  ASSUME NEW S, NEW f \in [1..2 -> S]
  PROVE  f \in Seq(S) /\ Len(f) = 2
<1>1. f = <<f[1], f[2]>>
  OBVIOUS
<1>2. f[1] \in S /\ f[2] \in S
  OBVIOUS
<1>3. <<f[1], f[2]>> \in Seq(S) /\ Len(<<f[1], f[2]>>) = 2
  BY <1>2, PairFits
<1> QED BY <1>1, <1>3

LEMMA AnswersFit ==
  ASSUME NEW statuses, statuses \subseteq Statuses, NEW new \in Answers(Any(statuses))
  PROVE  new \in Seq(RowsOf(scope)) /\ Len(new) <= 2
<1>1. ASSUME NEW n \in ResourceIds, NEW st \in Any(statuses)
      PROVE  [id |-> <<scope, n>>, st |-> st[n]] \in RowsOf(scope)
  BY <1>1 DEF RowsOf, Resources, Any
<1>2. CASE new = <<>>
  BY <1>2
<1>3. ASSUME NEW n \in ResourceIds, NEW st \in Any(statuses),
             new = <<[id |-> <<scope, n>>, st |-> st[n]],
                     [id |-> <<scope, 3 - n>>, st |-> st[3 - n]]>>
      PROVE  new \in Seq(RowsOf(scope)) /\ Len(new) <= 2
  <2>1. 3 - n \in ResourceIds
    BY DEF ResourceIds
  <2> QED BY <1>1, <1>3, <2>1, PairFits
<1> QED BY <1>2, <1>3 DEF Answers

LEMMA ListStep == ASSUME ListFits, Next PROVE ListFits'
<1>1. CASE UNCHANGED <<kind, scope, rows, shown, cursor>>
  BY <1>1 DEF ListFits, RowsOf, Statuses
<1>2. CASE NavKey
  <2>1. cursor' \in 1..shown /\ UNCHANGED <<kind, scope, rows, shown>>
    BY <1>2 DEF NavKey, about
  <2> QED BY <2>1 DEF ListFits, RowsOf, Statuses
<1>3. CASE SetAllTenants
  <2>1. cursor' = 1 /\ shown' = 0 /\ UNCHANGED <<kind, scope, rows>>
    BY <1>3 DEF SetAllTenants, about
  <2> QED BY <2>1 DEF ListFits, RowsOf, Statuses
<1>4. CASE Leave
  <2>1. rows' = <<>> /\ shown' = 0 /\ cursor' = 1
    BY <1>4, LeaveKeeps DEF LeaveScope, SetRows
  <2> QED BY <2>1 DEF ListFits
<1>5. CASE kind = "volume" /\ VolumesLoaded
  BY <1>5, AnswersFit, LoadedFits DEF VolumesLoaded, Statuses, about
<1>6. CASE kind = "floating_ip" /\ FipsLoaded
  BY <1>6, AnswersFit, LoadedFits DEF FipsLoaded, Statuses, about
<1>7. CASE ListLoaded
  <2>1. ListStatuses \subseteq Statuses
    BY DEF ListStatuses, Statuses
  <2> QED BY <1>7, <2>1, AnswersFit, LoadedFits DEF ListLoaded, about
<1>8. CASE kind = "server" /\ ServersLoaded
  <2>1. PICK new \in ServerLists : SetRows(new) /\ UNCHANGED <<kind, scope>>
    BY <1>8 DEF ServersLoaded, about
  <2>2. CASE new = <<>>
    <3>1. new \in Seq(RowsOf(scope)) /\ Len(new) <= 2
      BY <2>2
    <3> QED BY <2>1, <3>1, LoadedFits
  <2>3. ASSUME NEW st \in ServerStatuses, new = [n \in ResourceIds |-> [id |-> <<scope, n>>, st |-> st]]
        PROVE  ListFits'
    <3>1. \A n \in ResourceIds : [id |-> <<scope, n>>, st |-> st] \in RowsOf(scope)
      BY <1>8 DEF RowsOf, Resources, Statuses
    <3>2. 1..2 = ResourceIds
      BY DEF ResourceIds
    <3>3. new \in [1..2 -> RowsOf(scope)]
      BY <2>3, <3>1, <3>2
    <3>4. new \in Seq(RowsOf(scope)) /\ Len(new) = 2
      BY <3>3, TwoFit
    <3>5. Len(new) <= 2
      BY <3>4
    <3> QED BY <2>1, <3>4, <3>5, LoadedFits
  <2> QED BY <2>1, <2>2, <2>3 DEF ServerLists
<1>9. CASE kind = "floating_ip" /\ FipChangedInPlace
  <2>1. PICK i \in 1..Len(rows), st \in FipStatuses : rows' = [rows EXCEPT ![i].st = st]
    BY <1>9 DEF FipChangedInPlace
  <2>2. UNCHANGED <<kind, scope, shown, cursor>>
    BY <1>9 DEF FipChangedInPlace, about
  <2>3. rows[i] \in RowsOf(scope) /\ st \in Statuses
    BY <1>9, <2>1 DEF ListFits, Statuses
  <2>4. [rows[i] EXCEPT !.st = st] \in RowsOf(scope)
    BY <2>3 DEF RowsOf
  <2>5. rows' \in Seq(RowsOf(scope)) /\ Len(rows') = Len(rows)
    BY <2>1, <2>4 DEF ListFits
  <2> QED BY <2>2, <2>5 DEF ListFits, RowsOf, Statuses
<1>10. CASE NoList \/ (Shared /\ ~NavKey /\ ~SetAllTenants)
  BY <1>1, <1>10 DEF Shared, NoList, EnterDetail, LeaveDetail, AnswerDialog, CacheLoaded, OpenForm,
                     SubmitForm, CancelForm, HighlightEnds, about, list
<1>11. CASE ServerResize \/ ServerResized \/ ServerVerified
  BY <1>1, <1>11 DEF ServerResize, ServerResized, ServerVerified, about, list
<1> QED BY <1>1, <1>2, <1>3, <1>4, <1>5, <1>6, <1>7, <1>8, <1>9, <1>10, <1>11, Steps,
           ServerAsksKeeps, ServerChoicesKeep, VolumeKeeps, FipKeeps, ListKeeps
        DEF about, list, RuleForms, ServerEvents

-----------------------------------------------------------------------------
(* What is kept of a choice: the server comes from the view or the popup,  *)
(* the address from the popup or the list.                                 *)
LEMMA ScopeStep ==
  ASSUME FlowFits, Next
  PROVE  scope' \in 1..MaxScope /\ UNCHANGED <<kind, admin>> /\ (Leave \/ UNCHANGED scope)
<1>1. CASE Leave
  BY <1>1, LeaveKeeps, ScopeAssumption DEF LeaveScope, ContextChanged, FlowFits
<1>2. CASE ~Leave
  <2>1. UNCHANGED <<kind, admin, scope>>
    BY <1>2, Steps, SharedKeeps, ServerAsksKeeps, ServerChoicesKeep, ServerEventsKeep,
       VolumeKeeps, FipKeeps, ListKeeps DEF about
  <2> QED BY <2>1 DEF FlowFits
<1> QED BY <1>1, <1>2

LEMMA FlowStep ==
  ASSUME ListFits, ViewFits, FlowFits, PopupFits, PortsFit, Next
  PROVE  FlowFits'
<1>0. scope' \in 1..MaxScope /\ UNCHANGED <<kind, admin>> /\ (Leave \/ UNCHANGED scope)
  BY ScopeStep
<1>1. CASE UNCHANGED <<scope, cache, held, wanted, rule>>
  BY <1>0, <1>1 DEF FlowFits, Resource
<1>2. CASE kind \notin ListKinds /\ CacheLoaded
  <2>1. Resources(scope) \subseteq Resource
    BY ResourcesFit DEF FlowFits
  <2>2. <<scope, 1>> \in Resource
    BY DEF Resource, ResourceIds, FlowFits
  <2>3. cache' \subseteq Resource /\ UNCHANGED <<kind, scope, held, wanted, rule>>
    BY <1>2, <2>1, <2>2 DEF CacheLoaded, Cached, about
  <2> QED BY <1>2, <2>3 DEF FlowFits, Resource, ListKinds, KeysOf
<1>3. CASE Leave
  <2>1. CASE kind \notin ListKinds
    BY <1>0, <1>3, <2>1 DEF Leave, ServerLeaveScope, VolumeLeaveScope, FipLeaveScope, flow, FlowFits,
                       Resource, ListKinds, KeysOf
  <2>2. CASE kind \in ListKinds
    BY <1>0, <1>3, <2>2 DEF Leave, ListLeaveScope, FlowFits, Resource
  <2> QED BY <2>1, <2>2
<1>4. CASE kind = "server" /\ ServerChoices
  <2>1. cache' = cache /\ rule' = rule /\ scope' = scope
    BY <1>4, ServerChoicesKeep DEF about
  <2>2. held' \in Resource \cup {None} /\ wanted' \in Resource \cup {None}
    <3>1. CASE ServerChooseFip
      <4>1. held' \in Resource
        BY <3>1 DEF ServerChooseFip, PopupFits
      <4>2. wanted' \in Resource
        BY <3>1, ViewedFits DEF ServerChooseFip
      <4> QED BY <4>1, <4>2
    <3>2. CASE ServerPopUp \/ ServerChoose
      BY <3>2 DEF ServerPopUp, ServerChoose, flow, FlowFits
    <3>3. CASE ServerChoosePort \/ ServerPopupCancel
      BY <3>3 DEF ServerChoosePort, ServerPopupCancel, FlowFits
    <3>4. CASE ServerPortsLoaded
      BY <3>4 DEF ServerPortsLoaded, FlowFits
    <3> QED BY <1>4, <3>1, <3>2, <3>3, <3>4 DEF ServerChoices
  <2> QED BY <1>0, <1>4, <2>1, <2>2 DEF FlowFits, Resource, ListKinds, KeysOf
<1>5. CASE kind = "floating_ip" /\ FipOwn
  <2>1. cache' = cache /\ rule' = rule /\ scope' = scope
    BY <1>5, FipKeeps DEF about
  <2>2. held' \in Resource \cup {None} /\ wanted' \in Resource \cup {None}
    <3>1. CASE FipServerChosen
      <4>1. \A server \in popup.items : server \in Resource
        BY <1>5, <3>1 DEF FipServerChosen, PopupFits, PortsFit
      <4> QED BY <3>1, <4>1, SelectedFits DEF FipServerChosen, FlowFits
    <3>2. CASE FipPortChosen \/ FipPopupCancel
      BY <3>2 DEF FipPortChosen, FipPopupCancel, FlowFits
    <3>3. CASE FipPortsLoaded
      BY <3>3 DEF FipPortsLoaded, FlowFits
    <3>4. CASE FipDelete \/ FipDisassociate \/ FipAssociate
      BY <3>4 DEF FipDelete, FipDisassociate, FipAssociate, flow, FlowFits
    <3> QED BY <1>5, <3>1, <3>2, <3>3, <3>4 DEF FipOwn
  <2> QED BY <1>0, <1>5, <2>1, <2>2 DEF FlowFits, Resource, ListKinds, KeysOf
<1>6. CASE kind \in ListKinds /\ ListEnter
  <2>1. cache' \subseteq Resource /\ rule' \in Nat /\ UNCHANGED <<scope, held, wanted>>
    BY <1>6 DEF ListEnter, FlowFits, about
  <2> QED BY <1>0, <2>1 DEF FlowFits, Resource
<1>7. CASE SubnetsLoaded
  <2>1. cache' \subseteq Resource
    BY <1>7, ResourcesFit DEF SubnetsLoaded, FlowFits
  <2> QED BY <1>0, <1>7, <2>1, ListKeeps DEF FlowFits, Resource, about
<1>8. CASE RuleNav
  <2>1. PICK r \in {rule - 1, rule + 1} : r >= 1 /\ rule' = r
    BY <1>8 DEF RuleNav
  <2>2. rule' \in Nat
    BY <2>1 DEF FlowFits
  <2> QED BY <1>0, <1>8, <2>2, ListKeeps DEF FlowFits, Resource, about
<1>9. CASE OpenRuleForm
  <2>1. kind = "security_group" /\ held' = view.of /\ UNCHANGED <<scope, cache, rule, wanted>>
    BY <1>9 DEF OpenRuleForm, RuleKey
  <2>2. view.of \in Resources(scope) /\ view.of \in Resource
    BY <1>9, ViewedFits DEF OpenRuleForm, RuleKey
  <2> QED BY <1>0, <2>1, <2>2 DEF FlowFits, Resource
<1>10. CASE CloseRuleForm
  BY <1>0, <1>10 DEF CloseRuleForm, FlowFits, Resource
<1>11. CASE EnterDetail
  BY <1>1, <1>11 DEF EnterDetail, about, flow
<1> QED BY <1>1, <1>2, <1>3, <1>4, <1>5, <1>6, <1>7, <1>8, <1>9, <1>10, <1>11, Steps, SharedKeeps,
           ServerAsksKeeps, ServerEventsKeep, VolumeKeeps, FipKeeps, ListKeeps
        DEF about, flow, NoList, RuleForms

-----------------------------------------------------------------------------
(* A popup offers what was cached, what is attached to the volume on       *)
(* screen, or the ports of the server last chosen.                         *)
LEMMA OfferFits ==
  ASSUME NEW what, NEW items, PopUp(what, items),
         \/ what \notin {"SelectPort", "Port", "Attachment"} /\ items \subseteq Resource
         \/ what = "Attachment" /\ items \subseteq Attachment
         \/ what \in {"SelectPort", "Port"} /\ \A port \in items : PortOffered(port)',
         UNCHANGED scope
  PROVE  PopupFits'
BY DEF PopUp, PopupFits, PortOffered, Resource, Attachment, Ports

LEMMA ServerPortsOffered ==
  ASSUME NEW server \in Resources(scope), NEW loaded \in PortsAnswers(server),
         server \in Resource, server[1] = scope, wanted = server, UNCHANGED <<wanted, scope>>
  PROVE  \A port \in loaded : PortOffered(port) /\ PortOffered(port)'
BY DEF PortsAnswers, PortOffered, Ports, Resource, ResourceIds

LEMMA FipPortsOffered ==
  ASSUME NEW loaded \in FipPortsAnswers(wanted), FlowFits,
         UNCHANGED <<wanted, scope, admin>>
  PROVE  \A port \in loaded : PortOffered(port) /\ PortOffered(port)'
<1>1. wanted[1] = scope \/ admin \/ loaded = {}
  BY DEF FipPortsAnswers
<1>2. \A port \in loaded : port \in Ports /\ port.server = wanted
  BY DEF FipPortsAnswers, FlowFits, Ports, ResourceIds
<1> QED BY <1>1, <1>2 DEF PortOffered, Ports, Resource

LEMMA PopupStep ==
  ASSUME ViewFits, FlowFits, PopupFits, Next
  PROVE  PopupFits'
<1>0. UNCHANGED <<kind, admin>> /\ (Leave \/ UNCHANGED scope)
  BY ScopeStep
<1>1. CASE UNCHANGED <<scope, popup, wanted>>
  BY <1>0, <1>1 DEF PopupFits, PortOffered, Ports, Resource, Attachment
<1>2. CASE popup' = None
  BY <1>2 DEF PopupFits
<1>3. CASE Leave
  BY <1>2, <1>3, LeaveKeeps DEF LeaveScope
<1>4. CASE ServerPopUp
  <2>1. PICK what \in ServerPopups : PopUp(what, cache)
    BY <1>4 DEF ServerPopUp
  <2>2. what \notin {"SelectPort", "Port", "Attachment"}
    BY DEF ServerPopups
  <2> QED BY <1>4, <2>1, <2>2, OfferFits DEF ServerPopUp, FlowFits, about
<1>5. CASE ServerChoose \/ ServerChooseFip \/ ServerChoosePort \/ ServerPopupCancel
  BY <1>2, <1>5 DEF ServerChoose, ServerChooseFip, ServerChoosePort, ServerPopupCancel
<1>6. CASE ServerPortsLoaded
  <2>1. PICK server \in Resources(scope) :
          \/ UNCHANGED popup
          \/ /\ wanted = server
             /\ \E loaded \in PortsAnswers(server) : PopUp("SelectPort", loaded) \/ UNCHANGED popup
    BY <1>6 DEF ServerPortsLoaded, PortsWanted
  <2>2. UNCHANGED <<scope, wanted>>
    BY <1>6 DEF ServerPortsLoaded, about
  <2>3. server \in Resource /\ server[1] = scope
    BY ResourcesFit DEF FlowFits
  <2>4. ASSUME NEW loaded \in PortsAnswers(server), wanted = server, PopUp("SelectPort", loaded)
        PROVE  PopupFits'
    BY <2>2, <2>3, <2>4, ServerPortsOffered, OfferFits
  <2> QED BY <1>1, <2>1, <2>2, <2>4
<1>7. CASE VolumeAttach \/ FipAssociate
  <2>1. PopUp("Server", cache) /\ UNCHANGED scope
    BY <1>7 DEF VolumeAttach, FipAssociate, about
  <2> QED BY <2>1, OfferFits DEF FlowFits
<1>8. CASE VolumeDetach
  <2>1. UNCHANGED <<scope, wanted>> /\ (UNCHANGED popup \/ PopUp("Attachment", Attachments(view.of)))
    BY <1>8 DEF VolumeDetach, about, flow
  <2>2. Attachments(view.of) \subseteq Attachment
    <3>1. view.of \in Resource
      BY <1>8, ViewedFits DEF VolumeDetach, VolumeDetailKey
    <3> QED BY <3>1 DEF Attachments, Attachment, Resource, ResourceIds
  <2> QED BY <1>1, <2>1, <2>2, OfferFits
<1>9. CASE VolumeServerChosen \/ VolumePopupCancel \/ VolumeAttachmentChosen
  BY <1>2, <1>9 DEF VolumeServerChosen, VolumePopupCancel, VolumeAttachmentChosen
<1>10. CASE VolumeDelete \/ VolumeForce \/ FipDelete \/ FipDisassociate
  BY <1>1, <1>10 DEF VolumeDelete, VolumeForce, FipDelete, FipDisassociate, about, flow
<1>11. CASE FipServerChosen \/ FipPortChosen \/ FipPopupCancel
  BY <1>2, <1>11 DEF FipServerChosen, FipPortChosen, FipPopupCancel
<1>12. CASE FipPortsLoaded
  <2>1. \/ UNCHANGED popup
        \/ \E loaded \in FipPortsAnswers(wanted) : PopUp("Port", loaded)
    BY <1>12 DEF FipPortsLoaded, FipPortsWanted
  <2>2. UNCHANGED <<scope, wanted>>
    BY <1>12 DEF FipPortsLoaded, about
  <2> QED BY <1>0, <1>1, <2>1, <2>2, FipPortsOffered, OfferFits
<1> QED BY <1>0, <1>1, <1>3, <1>4, <1>5, <1>6, <1>7, <1>8, <1>9, <1>10, <1>11, <1>12, Steps,
           SharedKeeps, ServerAsksKeeps, ServerEventsKeep, VolumeKeeps, FipKeeps, ListKeeps
        DEF about, flow, ServerChoices, VolumeOwn, FipOwn, RuleForms

(* Ports are offered by the last answer awaited: the next is only asked    *)
(* for when the popup is gone.                                             *)
LEMMA PortsStep == ASSUME PortsFit, Next PROVE PortsFit'
<1>0. UNCHANGED kind
  BY Steps, SharedKeeps, LeaveKeeps, ServerAsksKeeps, ServerChoicesKeep, ServerEventsKeep,
     VolumeKeeps, FipKeeps, ListKeeps DEF about
<1> SUFFICES ASSUME kind = "floating_ip" PROVE PortsFit'
  BY <1>0 DEF PortsFit
<1>1. CASE UNCHANGED <<popup, held, wanted, asked>>
  BY <1>0, <1>1 DEF PortsFit, FipPorts, Command
<1>2. CASE popup' = None
  BY <1>2 DEF PortsFit
<1>3. CASE Leave
  BY <1>2, <1>3, LeaveKeeps DEF LeaveScope
<1>4. CASE SubmitForm
  <2>1. UNCHANGED <<popup, held, wanted, asked>>
    BY <1>4 DEF SubmitForm, Awaited, Command, flow
  <2> QED BY <1>1, <2>1
<1>5. CASE FipAssociate
  BY <1>5 DEF FipAssociate, PopUp, PortsFit
<1>6. CASE FipServerChosen \/ FipPortChosen \/ FipPopupCancel
  BY <1>2, <1>6 DEF FipServerChosen, FipPortChosen, FipPopupCancel
<1>7. CASE FipPortsLoaded
  <2>1. PICK server : /\ FipPorts(server) \in asked /\ asked' = asked \ {FipPorts(server)}
                      /\ UNCHANGED wanted
                      /\ \/ UNCHANGED <<popup, held>>
                         \/ /\ server = wanted
                            /\ \/ UNCHANGED popup
                               \/ /\ held # None /\ held' = held
                                  /\ \E loaded : PopUp("Port", loaded)
    BY <1>7 DEF FipPortsLoaded, FipPortsWanted
  <2>2. FipPorts(wanted)' = FipPorts(wanted)
    BY <2>1 DEF FipPorts, Command
  <2>3. CASE UNCHANGED <<popup, held>>
    BY <2>1, <2>2, <2>3 DEF PortsFit
  <2>4. CASE server = wanted /\ UNCHANGED popup
    BY <2>1, <2>2, <2>4 DEF PortsFit
  <2>5. CASE server = wanted /\ held # None /\ held' = held /\ \E loaded : PopUp("Port", loaded)
    BY <2>1, <2>2, <2>5 DEF PortsFit, PopUp
  <2> QED BY <2>1, <2>3, <2>4, <2>5
<1>8. CASE FipDelete \/ FipDisassociate
  BY <1>1, <1>8 DEF FipDelete, FipDisassociate, flow
<1>9. CASE NoList \/ (Shared /\ ~SubmitForm)
  BY <1>1, <1>9 DEF NoList, Shared, EnterDetail, CacheLoaded, LeaveDetail, NavKey, AnswerDialog,
                    OpenForm, CancelForm, HighlightEnds, SetAllTenants, flow
<1>10. kind \notin ListKinds
  BY DEF ListKinds, KeysOf
<1> QED BY <1>1, <1>3, <1>4, <1>5, <1>6, <1>7, <1>8, <1>9, <1>10, Steps, FipKeeps DEF flow, FipOwn

-----------------------------------------------------------------------------
(* A question that is opened fits when what it is about does. *)
Typed   == {"no", "name", "project"}
Withs   == Resource \cup Attachment \cup Ports \cup Nat \cup {None}
Subject(on) == on \in Resource /\ on[1] = scope

LEMMA DestructiveFits ==
  ASSUME NEW typed \in Typed
  PROVE  Destructive(typed) \in Typed /\ (fresh => Destructive(typed) # "no")
BY DEF Destructive, Typed

LEMMA OpenedIsAsked ==
  ASSUME NEW typed \in Typed, NEW server \in Resource \cup {None}, NEW op \in Ops,
         NEW on \in Resource, NEW with \in Withs, Open(typed, server, op, on, with)
  PROVE  /\ dialog' # None /\ dialog'.typed = typed /\ dialog'.server = server
         /\ pending' # None /\ pending'.op = op /\ pending'.on = on /\ pending'.with = with
<1>1. [typed |-> typed, server |-> server] \in Dialogs
  BY DEF Dialogs, Typed
<1>2. Command(op, on, with) \in Commands
  BY DEF Command, Commands, Withs
<1> QED BY <1>1, <1>2, NoneAssumption DEF Open, Command

LEMMA QuestionOpened ==
  ASSUME NEW typed \in Typed, NEW server \in Resource \cup {None}, NEW op \in Ops,
         NEW on, NEW with \in Withs, Open(typed, server, op, on, with),
         op # "AssociateFip", Subject(on), fresh => typed # "no",
         UNCHANGED <<scope, fresh>>
  PROVE  AskedFits'
BY OpenedIsAsked DEF AskedFits, QuestionFitsScope, PortFitsServer, SwitchedThenTyped, Subject

LEMMA AssociationOpened ==
  ASSUME NEW typed \in Typed, NEW server \in Resource \cup {None}, NEW on \in Resource, NEW port,
         Open(typed, server, "AssociateFip", on, port), PortOffered(port),
         kind = "floating_ip" => server \in {None, port.server},
         UNCHANGED <<kind, admin, scope, wanted>>
  PROVE  AskedFits'
<1>1. port \in Withs
  BY DEF PortOffered, Withs
<1>2. /\ dialog' # None /\ dialog'.server = server
      /\ pending' # None /\ pending'.op = "AssociateFip" /\ pending'.with = port
  BY <1>1, OpenedIsAsked DEF Ops
<1> QED BY <1>2
        DEF AskedFits, QuestionFitsScope, PortFitsServer, SwitchedThenTyped, PortOffered

LEMMA QuestionStays ==
  ASSUME AskedFits, UNCHANGED <<kind, admin, scope, dialog, pending>>,
         fresh' => fresh, wanted' = wanted \/ dialog = None
  PROVE  AskedFits'
BY DEF AskedFits, QuestionFitsScope, PortFitsServer, SwitchedThenTyped

LEMMA QuestionAnswered ==
  ASSUME dialog' = None, pending' = None
  PROVE  AskedFits'
BY DEF AskedFits, QuestionFitsScope, PortFitsServer, SwitchedThenTyped

(* The questions of each kind of module. *)
LEMMA ServerAsksFit ==
  ASSUME Inv, ServerAsks
  PROVE  AskedFits'
<1>0. /\ UNCHANGED <<scope, fresh>> /\ None \in Withs /\ Resource \subseteq Withs
      /\ ListFits /\ ViewFits /\ FlowFits
  BY ServerAsksKeeps DEF about, Withs, Inv
<1>1. CASE ServerDelete
  <2>1. /\ Open("name", Selected, "DeleteServer", Selected, None)
        /\ Selected \in Resource /\ Subject(Selected)
    BY <1>0, <1>1, SelectedFits DEF ServerDelete, Subject
  <2> QED BY <1>0, <2>1, QuestionOpened DEF Typed, Ops
<1> DEFINE Asks(typed, op, with) ==
      typed \in Typed /\ (fresh => typed # "no") /\ op \in Ops /\ op # "AssociateFip"
      /\ with \in Withs /\ Open(typed, view.of, op, view.of, with)
<1>2. ASSUME DetailKey, NEW typed, NEW op, NEW with, Asks(typed, op, with)
      PROVE  AskedFits'
  <2>1. view.of \in Resource /\ Subject(view.of)
    BY <1>0, <1>2, ViewedFits DEF DetailKey, Subject
  <2> QED BY <1>0, <1>2, <2>1, QuestionOpened
<1>3. Destructive("no") \in Typed /\ (fresh => Destructive("no") # "no")
  BY DestructiveFits DEF Typed
<1>4. CASE ServerQuestion \/ ServerVerify \/ ServerEvacuate
  <2>1. PICK op \in {"Power", "Migrate", "ConfirmResize", "RevertResize", "ConfirmMigrate",
                     "RevertMigrate", "Evacuate"} :
          DetailKey /\ Open(Destructive("no"), view.of, op, view.of, None)
    BY <1>4 DEF ServerQuestion, ServerVerify, ServerEvacuate, VerifyOps
  <2> QED BY <1>0, <1>2, <1>3, <2>1 DEF Ops
<1>5. CASE ServerDetachOnly
  <2>1. PICK volume \in cache, boot \in BOOLEAN : DetailKey /\ AskDetach(volume, boot)
    BY <1>5 DEF ServerDetachOnly
  <2>2. volume \in Withs
    BY <1>0 DEF FlowFits
  <2> QED BY <1>2, <1>3, <2>1, <2>2 DEF AskDetach, Typed, Ops
<1> QED BY <1>1, <1>4, <1>5 DEF ServerAsks

LEMMA ServerChoicesFit ==
  ASSUME Inv, kind = "server", ServerChoices
  PROVE  AskedFits'
<1>0. /\ UNCHANGED <<kind, admin, scope, fresh>> /\ Resource \subseteq Withs
      /\ ViewFits /\ FlowFits /\ PopupFits /\ AskedFits
  BY ServerChoicesKeep DEF about, Withs, Inv
<1>1. CASE UNCHANGED asking /\ (wanted' = wanted \/ dialog = None)
  BY <1>0, <1>1, QuestionStays DEF asking
<1>2. Destructive("no") \in Typed /\ (fresh => Destructive("no") # "no")
  BY DestructiveFits DEF Typed
<1>3. CASE ServerPopUp \/ ServerChooseFip \/ ServerPopupCancel
  BY <1>1, <1>3 DEF ServerPopUp, ServerChooseFip, ServerPopupCancel, KeysTo, flow
<1>4. CASE ServerChoose
  <2>1. UNCHANGED wanted /\ view.of \in Resource /\ Subject(view.of)
    BY <1>0, <1>4, ViewedFits DEF ServerChoose, flow, Subject
  <2>2. PICK item \in popup.items :
          \/ popup.what = "Resize" /\ Open(Destructive("no"), view.of, "Resize", view.of, item)
          \/ item \in cache /\ Open(Destructive("no"), view.of, "AttachVolume", view.of, item)
          \/ item \in cache /\ \E boot \in BOOLEAN : AskDetach(item, boot)
          \/ UNCHANGED asking
    BY <1>4 DEF ServerChoose
  <2>3. popup.what = "Resize" => item \in Resource
    BY <1>0, <1>4, <2>2 DEF PopupFits, ServerChoose
  <2>4. item \in cache => item \in Resource
    BY <1>0 DEF FlowFits
  <2>5. ASSUME NEW op \in {"Resize", "AttachVolume"}, item \in Resource,
               Open(Destructive("no"), view.of, op, view.of, item)
        PROVE  AskedFits'
    BY <1>0, <1>2, <2>1, <2>5, QuestionOpened DEF Ops
  <2>6. ASSUME NEW boot \in BOOLEAN, item \in Resource, AskDetach(item, boot)
        PROVE  AskedFits'
    <3>1. PICK typed \in Typed : /\ fresh => typed # "no"
                                 /\ Open(typed, view.of, "DetachVolume", view.of, item)
      BY <1>2, <2>6 DEF AskDetach, Typed
    <3> QED BY <1>0, <2>1, <2>6, <3>1, QuestionOpened DEF Ops
  <2> QED BY <1>1, <2>1, <2>2, <2>3, <2>4, <2>5, <2>6
<1>5. CASE ServerChoosePort
  <2>1. UNCHANGED wanted /\ view.of \in Resource
    BY <1>0, <1>5, ViewedFits DEF ServerChoosePort
  <2>2. PICK port \in popup.items :
          \/ held \in cache /\ Open("no", view.of, "AssociateFip", held, port)
          \/ UNCHANGED asking
    BY <1>5 DEF ServerChoosePort
  <2>3. PortOffered(port) /\ (held \in cache => held \in Resource)
    BY <1>0, <1>5, <2>2 DEF ServerChoosePort, PopupFits, FlowFits
  <2> QED BY <1>0, <1>1, <2>1, <2>2, <2>3, AssociationOpened DEF Typed
<1>6. CASE ServerPortsLoaded
  <2>1. UNCHANGED wanted
    BY <1>6 DEF ServerPortsLoaded
  <2>2. PICK server \in Resources(scope) :
          \/ UNCHANGED asking
          \/ /\ wanted = server /\ held \in cache
             /\ Open(Destructive("no"), view.of, "AssociateFip", held, [server |-> server, n |-> 1])
    BY <1>6 DEF ServerPortsLoaded, PortsWanted
  <2>3. server \in Resource /\ server[1] = scope
    BY <1>0, ResourcesFit DEF FlowFits
  <2>4. wanted = server => PortOffered([server |-> server, n |-> 1])
    BY <2>3 DEF PortOffered, Ports, ResourceIds
  <2>5. view.of \in Resource \cup {None} /\ (held \in cache => held \in Resource)
    BY <1>0 DEF ViewFits, FlowFits
  <2> QED BY <1>0, <1>1, <1>2, <2>1, <2>2, <2>4, <2>5, AssociationOpened
<1> QED BY <1>3, <1>4, <1>5, <1>6 DEF ServerChoices

LEMMA VolumeAsksFit ==
  ASSUME Inv, VolumeOwn
  PROVE  AskedFits'
<1>0. /\ UNCHANGED <<kind, admin, scope, fresh, wanted>>
      /\ None \in Withs /\ Resource \cup Attachment \subseteq Withs
      /\ ListFits /\ ViewFits /\ FlowFits /\ PopupFits /\ AskedFits
  BY VolumeKeeps DEF about, flow, Withs, Inv
<1>1. CASE UNCHANGED asking
  BY <1>0, <1>1, QuestionStays DEF asking
<1>2. Destructive("no") \in Typed /\ (fresh => Destructive("no") # "no")
  BY DestructiveFits DEF Typed
<1>3. CASE VolumeDelete
  <2>1. /\ Open("name", None, "DeleteVolume", Selected, None)
        /\ Selected \in Resource /\ Subject(Selected)
    BY <1>0, <1>3, SelectedFits DEF VolumeDelete, Subject
  <2> QED BY <1>0, <2>1, QuestionOpened DEF Typed, Ops
<1>4. CASE VolumeAttach \/ VolumePopupCancel
  BY <1>1, <1>4 DEF VolumeAttach, VolumePopupCancel
<1>5. CASE VolumeServerChosen
  <2>1. PICK server \in popup.items :
          \/ UNCHANGED asking
          \/ /\ Selected # None
             /\ Open(Destructive("no"), IF server \in cache THEN server ELSE None,
                     "AttachVolume", Selected, server)
    BY <1>5 DEF VolumeServerChosen
  <2>2. server \in Resource \cup Attachment \cup Ports
    BY <1>0, <1>5, <2>1 DEF VolumeServerChosen, PopupFits, PortOffered
  <2>3. (IF server \in cache THEN server ELSE None) \in Resource \cup {None}
    BY <1>0 DEF FlowFits
  <2>4. Selected # None => Selected \in Resource /\ Subject(Selected)
    BY <1>0, SelectedFits DEF Subject
  <2>5. server \in Withs
    BY <2>2 DEF Withs
  <2> QED BY <1>0, <1>1, <1>2, <2>1, <2>3, <2>4, <2>5, QuestionOpened DEF Ops
<1>6. ASSUME KeysTo("Detail"), NEW typed \in Typed, fresh => typed # "no",
             NEW op \in Ops, op # "AssociateFip", NEW with \in Withs,
             Open(typed, None, op, view.of, with)
      PROVE  AskedFits'
  <2>1. view.of \in Resource /\ Subject(view.of)
    BY <1>0, <1>6, ViewedFits DEF Subject
  <2> QED BY <1>0, <1>6, <2>1, QuestionOpened
<1>7. ASSUME KeysTo("Detail"), NEW attachment \in Withs, NEW boot \in BOOLEAN,
             AskVolumeDetach(attachment, boot)
      PROVE  AskedFits'
  <2>1. PICK typed \in Typed : /\ fresh => typed # "no"
                               /\ Open(typed, None, "DetachVolume", view.of, attachment)
    BY <1>2, <1>7 DEF AskVolumeDetach, Typed
  <2> QED BY <1>6, <1>7, <2>1 DEF Ops
<1>8. CASE VolumeDetach
  <2>1. KeysTo("Detail") /\ view.of \in Resource
    BY <1>0, <1>8, ViewedFits DEF VolumeDetach, VolumeDetailKey
  <2>2. <<view.of[1], view.of[2], 1>> \in Withs
    BY <2>1 DEF Withs, Attachment, Resource, ResourceIds
  <2>3. \/ UNCHANGED asking
        \/ \E boot \in BOOLEAN : AskVolumeDetach(<<view.of[1], view.of[2], 1>>, boot)
    BY <1>8 DEF VolumeDetach
  <2> QED BY <1>1, <1>7, <2>1, <2>2, <2>3
<1>9. CASE VolumeAttachmentChosen
  <2>1. CASE UNCHANGED asking
    BY <1>1, <2>1
  <2>2. ASSUME NEW attachment \in popup.items, NEW boot \in BOOLEAN,
               AskVolumeDetach(attachment, boot)
        PROVE  AskedFits'
    <3>1. attachment \in Resource \cup Attachment \cup Ports
      BY <1>0, <1>9, <2>2 DEF VolumeAttachmentChosen, PopupFits, PortOffered
    <3>2. attachment \in Withs /\ KeysTo("Detail")
      BY <1>9, <3>1 DEF Withs, VolumeAttachmentChosen
    <3> QED BY <1>7, <2>2, <3>2
  <2> QED BY <1>9, <2>1, <2>2 DEF VolumeAttachmentChosen
<1>10. CASE VolumeForce
  <2>1. KeysTo("Detail")
    BY <1>10 DEF VolumeForce, VolumeDetailKey
  <2>2. PICK op \in {"ForceDetachVolume", "ForceResetVolumeState"} :
          Open("name", None, op, view.of, None)
    BY <1>10 DEF VolumeForce
  <2> QED BY <1>0, <1>6, <2>1, <2>2 DEF Typed, Ops
<1> QED BY <1>3, <1>4, <1>5, <1>8, <1>9, <1>10 DEF VolumeOwn

LEMMA FipAsksFit ==
  ASSUME Inv, kind = "floating_ip", FipOwn
  PROVE  AskedFits'
<1>0. /\ UNCHANGED <<kind, admin, scope, fresh>> /\ None \in Withs
      /\ ListFits /\ ViewFits /\ FlowFits /\ PopupFits /\ PortsFit /\ AskedFits
  BY FipKeeps DEF about, Withs, Inv
<1>1. CASE UNCHANGED asking /\ (wanted' = wanted \/ dialog = None)
  BY <1>0, <1>1, QuestionStays DEF asking
<1>2. Destructive("no") \in Typed /\ (fresh => Destructive("no") # "no")
  BY DestructiveFits DEF Typed
<1>3. CASE FipDelete \/ FipDisassociate
  <2>1. PICK typed \in Typed, op \in {"DeleteFloatingIp", "DisassociateFip"} :
          /\ fresh => typed # "no"
          /\ Open(typed, None, op, Selected, None)
    BY <1>2, <1>3 DEF FipDelete, FipDisassociate, Typed
  <2>2. Selected \in Resource /\ Subject(Selected)
    BY <1>0, <1>3, SelectedFits DEF FipDelete, FipDisassociate, Subject
  <2> QED BY <1>0, <2>1, <2>2, QuestionOpened DEF Ops
<1>4. CASE FipAssociate \/ FipServerChosen \/ FipPopupCancel
  BY <1>1, <1>4 DEF FipAssociate, FipServerChosen, FipPopupCancel, KeysTo, flow
<1>5. \A port : PortOffered(port) => /\ ServerNamed(port) \in {None, port.server}
                                     /\ ServerNamed(port) \in Resource \cup {None}
  BY <1>0 DEF ServerNamed, PortOffered, Ports, FlowFits
<1>6. FipListed(held) => held \in Resource
  <2>1. ASSUME NEW i \in 1..Len(rows), rows[i].id = held PROVE held \in Resource
    <3>1. rows[i] \in RowsOf(scope)
      BY <1>0 DEF ListFits
    <3> QED BY <1>0, <2>1, <3>1, ResourcesFit DEF RowsOf, FlowFits
  <2> QED BY <2>1 DEF FipListed, RowOf
<1>7. ASSUME NEW port, PortOffered(port), FipListed(held), UNCHANGED wanted,
             Open(Destructive("no"), ServerNamed(port), "AssociateFip", held, port)
      PROVE  AskedFits'
  BY <1>0, <1>2, <1>5, <1>6, <1>7, AssociationOpened
<1>8. CASE FipPortChosen
  <2>1. PICK port \in popup.items :
          \/ UNCHANGED asking
          \/ /\ popup.what = "Port" /\ FipListed(held)
             /\ Open(Destructive("no"), ServerNamed(port), "AssociateFip", held, port)
    BY <1>8 DEF FipPortChosen
  <2>2. popup.what = "Port" => PortOffered(port)
    BY <1>0, <1>8, <2>1 DEF FipPortChosen, PopupFits
  <2>3. UNCHANGED wanted
    BY <1>8 DEF FipPortChosen
  <2> QED BY <1>1, <1>7, <2>1, <2>2, <2>3
<1>9. CASE FipPortsLoaded
  <2>1. \/ UNCHANGED asking
        \/ \E loaded \in FipPortsAnswers(wanted) : \E port \in loaded :
             /\ FipListed(held)
             /\ Open(Destructive("no"), ServerNamed(port), "AssociateFip", held, port)
    BY <1>9 DEF FipPortsLoaded, FipPortsWanted
  <2>2. UNCHANGED wanted
    BY <1>9 DEF FipPortsLoaded
  <2>3. \A loaded \in FipPortsAnswers(wanted) : \A port \in loaded : PortOffered(port)
    BY <1>0, <2>2, FipPortsOffered
  <2> QED BY <1>1, <1>7, <2>1, <2>2, <2>3
<1> QED BY <1>3, <1>4, <1>8, <1>9 DEF FipOwn

LEMMA ListAsksFit ==
  ASSUME Inv, kind \in ListKinds, ListDelete \/ RuleDelete
  PROVE  AskedFits'
<1>0. /\ UNCHANGED <<scope, fresh>> /\ None \in Withs /\ rule \in Withs
      /\ ListFits /\ ViewFits /\ FlowFits
  BY ListKeeps DEF about, Withs, Inv, FlowFits
<1>1. CASE ListDelete
  <2>1. Open(Destructive(KeysOf[kind].delete), None, "Delete", Selected, None)
    BY <1>1 DEF ListDelete
  <2>2. Selected \in Resource /\ Subject(Selected)
    BY <1>0, <1>1, SelectedFits DEF ListDelete, Subject
  <2>3. KeysOf[kind].delete \in Typed
    <3>1. KeysOf[kind].delete \in {"no", "name", "never"}
      BY DEF ListKinds, KeysOf, Keys, SecurityGroupKeys, ImageKeys, NetworkKeys, SnapshotKeys,
             FlavorKeys, ProjectKeys, UserKeys, AgentKeys, ComputeServiceKeys, AggregateKeys
    <3> QED BY <1>1, <3>1 DEF ListDelete, Typed
  <2>4. /\ Destructive(KeysOf[kind].delete) \in Typed
        /\ fresh => Destructive(KeysOf[kind].delete) # "no"
    BY <2>3, DestructiveFits
  <2> QED BY <1>0, <2>1, <2>2, <2>4, QuestionOpened DEF Ops
<1>2. CASE RuleDelete
  <2>1. Open(Destructive("no"), None, "DeleteRule", view.of, rule)
    BY <1>2 DEF RuleDelete
  <2>2. view.of \in Resource /\ Subject(view.of)
    BY <1>0, <1>2, ViewedFits DEF RuleDelete, RuleKey, Subject
  <2>3. Destructive("no") \in Typed /\ (fresh => Destructive("no") # "no")
    BY DestructiveFits DEF Typed
  <2> QED BY <1>0, <2>1, <2>2, <2>3, QuestionOpened DEF Ops
<1> QED BY <1>1, <1>2

LEMMA AskedStep == ASSUME Inv, Next PROVE AskedFits'
<1>0. UNCHANGED <<kind, admin>> /\ (Leave \/ UNCHANGED scope) /\ AskedFits
  BY ScopeStep DEF Inv
<1>1. CASE UNCHANGED <<scope, fresh, asking, wanted>>
  BY <1>0, <1>1, QuestionStays DEF asking
<1>2. CASE Leave
  BY <1>2, LeaveKeeps, QuestionAnswered DEF LeaveScope
<1>3. CASE AnswerDialog \/ ServerResize
  BY <1>3, QuestionAnswered DEF AnswerDialog, ServerResize
<1>4. CASE HighlightEnds
  <2>1. ~fresh' /\ UNCHANGED <<scope, asking, wanted>>
    BY <1>4 DEF HighlightEnds, flow
  <2> QED BY <1>0, <2>1, QuestionStays DEF asking
<1>5. CASE NoList \/ LeaveDetail \/ NavKey \/ OpenForm \/ SubmitForm \/ CancelForm \/ SetAllTenants
  BY <1>1, <1>5 DEF NoList, EnterDetail, CacheLoaded, LeaveDetail, NavKey, OpenForm, SubmitForm,
                    CancelForm, SetAllTenants, about, flow
<1>6. CASE ServersLoaded \/ ServerResized \/ ServerVerified
  BY <1>1, <1>6 DEF ServersLoaded, ServerResized, ServerVerified, about
<1> QED BY <1>1, <1>2, <1>3, <1>4, <1>5, <1>6, Steps, ServerAsksFit, ServerChoicesFit,
           VolumeAsksFit, VolumeKeeps, FipAsksFit, FipKeeps, ListAsksFit, ListKeeps
        DEF about, flow, Shared, ServerEvents, RuleForms

-----------------------------------------------------------------------------
LEMMA StutterStep == ASSUME Inv, UNCHANGED vars PROVE Inv'
<1>0. UNCHANGED <<kind, admin, scope, fresh, mode, view, rows, shown, cursor, dialog, pending,
                  popup, form, cache, held, rule, wanted, asked>>
  BY DEF vars, about, list, asking, flow
<1>1. FormFits' /\ ViewFits' /\ SubnetsFitDetail'
  BY <1>0 DEF Inv, FormFits, ViewFits, SubnetsFitDetail, Resource
<1>2. ListFits'
  BY <1>0 DEF Inv, ListFits, RowsOf, Statuses
<1>3. FlowFits'
  BY <1>0 DEF Inv, FlowFits, Resource
<1>4. PopupFits' /\ PortsFit'
  BY <1>0 DEF Inv, PopupFits, PortsFit, PortOffered, Ports, Resource, Attachment, FipPorts, Command
<1>5. AskedFits'
  BY <1>0, QuestionStays DEF Inv
<1> QED BY <1>1, <1>2, <1>3, <1>4, <1>5 DEF Inv

(* Inv is inductive: one lemma for each of its parts, above. *)
LEMMA Invariance == Spec => []Inv
<1>1. ASSUME Inv, Next PROVE Inv'
  <2>1. FormFits /\ ListFits /\ ViewFits /\ FlowFits /\ SubnetsFitDetail /\ PopupFits /\ PortsFit
    BY <1>1 DEF Inv
  <2> QED BY <1>1, <2>1, FormStep, ListStep, ViewStep, FlowStep, SubnetsStep, PopupStep,
             PortsStep, AskedStep DEF Inv
<1>2. Inv /\ [Next]_vars => Inv'
  BY <1>1, StutterStep
<1> QED BY <1>2, Initially, PTL DEF Spec

(* Every domain module's state has its shape: a question has its action,   *)
(* the cursor is on a row that is shown (module/mod.rs).                   *)
THEOREM TypeCorrect == Spec => []TypeOK
<1>1. Inv => TypeOK
  BY DEF Inv, TypeOK, ListFits, ViewFits, FormFits, AskedFits
<1> QED BY <1>1, Invariance, PTL

(* No question names what was listed in a scope that was left.             *)
THEOREM QuestionsOfScope == Spec => []QuestionFitsScope
<1>1. Inv => QuestionFitsScope
  BY DEF Inv, AskedFits
<1> QED BY <1>1, Invariance, PTL

(* Right after a switch nothing is changed by a single key.                *)
THEOREM TypedAfterSwitch == Spec => []SwitchedThenTyped
<1>1. Inv => SwitchedThenTyped
  BY DEF Inv, AskedFits
<1> QED BY <1>1, Invariance, PTL

(* An address goes to a port of the server it was chosen for.              *)
THEOREM PortsOfServer == Spec => []PortFitsServer
<1>1. Inv => PortFitsServer
  BY DEF Inv, AskedFits
<1> QED BY <1>1, Invariance, PTL

(* The subnets on screen are those of the network on screen.               *)
THEOREM SubnetsOfNetwork == Spec => []SubnetsFitDetail
<1>1. Inv => SubnetsFitDetail
  BY DEF Inv
<1> QED BY <1>1, Invariance, PTL

(* A form that is drawn has the keys.                                      *)
THEOREM FormsHaveKeys == Spec => []FormHasKeys
<1>1. Inv => FormHasKeys
  BY DEF Inv, FormFits, FormHasKeys
<1> QED BY <1>1, Invariance, PTL

=============================================================================
