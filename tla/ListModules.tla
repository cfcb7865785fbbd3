------------------------------ MODULE ListModules ------------------------------
(***************************************************************************)
(* The other domain modules.  They differ in what is written in their      *)
(* tables: who may delete and how it is confirmed, who may create, whether *)
(* a row has a detail view, and what the event of a creation does to the   *)
(* form.  Networks also keep the subnets of the network in the detail view *)
(* (cache), and security groups a cursor over the rules of a group (rule), *)
(* whose form comes back to the group (held is detail_sg_id); a group's    *)
(* status is its number of rules.                                          *)
(***************************************************************************)
EXTENDS DomainModule

(* delete: how deleting a row is confirmed, "never" if it is not offered;  *)
(* created: what the Created event does to the form it may find open.      *)
Keys(delete, adminOnly, create, detail) ==
  [delete |-> delete, adminOnly |-> adminOnly, create |-> create,
   detail |-> detail]
SecurityGroupKeys == Keys("no", FALSE, TRUE, TRUE)
ImageKeys         == Keys("no", TRUE, TRUE, TRUE)
NetworkKeys       == Keys("never", FALSE, TRUE, TRUE)
SnapshotKeys      == Keys("no", FALSE, FALSE, TRUE)
FlavorKeys        == Keys("no", TRUE, TRUE, FALSE)
ProjectKeys       == Keys("name", FALSE, TRUE, TRUE)
UserKeys          == Keys("name", FALSE, TRUE, FALSE)
AgentKeys         == Keys("never", FALSE, FALSE, FALSE)
ComputeServiceKeys == Keys("never", FALSE, FALSE, FALSE)
AggregateKeys     == Keys("never", FALSE, FALSE, FALSE)

KeysOf ==
  [security_group |-> SecurityGroupKeys, image |-> ImageKeys,
   network |-> NetworkKeys, snapshot |-> SnapshotKeys, flavor |-> FlavorKeys,
   project |-> ProjectKeys, user |-> UserKeys, agent |-> AgentKeys,
   compute_service |-> ComputeServiceKeys, aggregate |-> AggregateKeys]
ListKinds == DOMAIN KeysOf

(* handle_event on XCreated: "form" closes form and view, "view" only the  *)
(* view; a security group's asks for the list and no more.                 *)
ImageCreated         == "form"
NetworkCreated       == "form"
FlavorCreated        == "form"
ProjectCreated       == "view"
UserCreated          == "view"
CreatedOf ==
  [image |-> ImageCreated, network |-> NetworkCreated, flavor |-> FlavorCreated,
   project |-> ProjectCreated, user |-> UserCreated]

Allowed == KeysOf[kind].adminOnly => admin
ListStatuses == IF kind = "security_group" THEN 0..2 ELSE {"any"}

ListDelete ==
  /\ KeysTo("List") /\ Selected # None
  /\ KeysOf[kind].delete # "never" /\ Allowed
  /\ Open(Destructive(KeysOf[kind].delete), None, "Delete", Selected, None)
  /\ UNCHANGED <<about, view, list, popup, form, flow, asked>>

ListEnter ==
  /\ KeysTo("List") /\ Selected # None /\ KeysOf[kind].detail
  /\ view' = Detail(Selected)
  /\ rule' = IF kind = "security_group" THEN 1 ELSE rule
  /\ IF kind = "network"
       THEN cache' = {} /\ asked' = asked \cup {Command("Subnets", Selected, None)}
       ELSE UNCHANGED <<cache, asked>>
  /\ UNCHANGED <<about, list, asking, popup, form, held, verdict, wanted>>

ListOpenForm == KeysOf[kind].create /\ Allowed /\ OpenForm

ListSubmit == held = None /\ SubmitForm
ListCancel == held = None /\ CancelForm

ListLoaded ==
  \E new \in Answers(Any(ListStatuses)) :
    /\ SetRows(new)
    /\ UNCHANGED <<about, view, asking, popup, form, flow, asked>>

(* Mutant: the answer is not compared with the view. *)
SubnetsAlwaysFit(network) == TRUE

(* SubnetsLoaded, kept only for the network in the detail view. *)
SubnetsFit(network) == view = Detail(network)
SubnetsLoaded ==
  \E network \in Resources(scope) :
    /\ kind = "network" /\ Command("Subnets", network, None) \in asked
    /\ asked' = asked \ {Command("Subnets", network, None)}
    /\ cache' = IF SubnetsFit(network) THEN {network} ELSE cache
    /\ UNCHANGED <<about, view, list, asking, popup, form, held, verdict, rule,
                   wanted>>

ListCreated ==
  /\ Command("Created", None, None) \in asked
  /\ asked' = asked \ {Command("Created", None, None)}
  /\ view' = List
  /\ form' = (form /\ CreatedOf[kind] # "form")
  /\ UNCHANGED <<about, list, asking, popup, flow>>

(***************************************************************************)
(* The rules of a security group.                                          *)
(***************************************************************************)
RuleKey == kind = "security_group" /\ KeysTo("Detail")

RuleNav ==
  /\ RuleKey
  /\ \E r \in {rule - 1} \cup (IF \E n \in Status(view.of) : rule < n
                               THEN {rule + 1} ELSE {}) :
       r >= 1 /\ rule' = r
  /\ UNCHANGED <<about, view, list, asking, popup, form, cache, held, verdict,
                 wanted, asked>>

RuleDelete ==
  /\ RuleKey /\ \E n \in Status(view.of) : rule <= n
  /\ Open(Destructive("no"), None, "DeleteRule", view.of, rule)
  /\ UNCHANGED <<about, view, list, popup, form, flow, asked>>

OpenRuleForm ==
  /\ RuleKey /\ Status(view.of) # {}
  /\ held' = view.of
  /\ view' = Create /\ form' = TRUE /\ mode' = "Form"
  /\ UNCHANGED <<kind, admin, scope, fresh, list, asking, popup, cache, verdict,
                 rule, wanted, asked>>

(* Submit and Cancel both return to the group. *)
CloseRuleForm ==
  /\ KeysTo("Create") /\ form /\ held # None
  /\ view' = Detail(held) /\ form' = FALSE /\ mode' = "Normal"
  /\ held' = None
  /\ UNCHANGED <<kind, admin, scope, fresh, list, asking, popup, cache, verdict,
                 rule, wanted, asked>>

ListLeaveScope ==
  /\ LeaveScope
  /\ cache' = {} /\ held' = None
  /\ UNCHANGED <<verdict, rule, wanted>>

HasTenants == kind \in {"security_group", "image", "network", "snapshot"}

ListNext ==
  \/ NavKey \/ AnswerDialog \/ LeaveDetail
  \/ ListDelete \/ ListEnter \/ ListOpenForm \/ ListSubmit \/ ListCancel
  \/ ListLoaded \/ SubnetsLoaded \/ ListCreated
  \/ RuleNav \/ RuleDelete \/ OpenRuleForm \/ CloseRuleForm
  \/ ListLeaveScope \/ HighlightEnds \/ (HasTenants /\ SetAllTenants)

=============================================================================
