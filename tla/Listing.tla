------------------------------- MODULE Listing -------------------------------
(***************************************************************************)
(* One list from its request to the screen: what scope the service is      *)
(* asked with, what of the answer the adapter keeps                        *)
(* (src/adapter/http/scope_refilter.rs), and which requests the worker     *)
(* drops because one is under way (src/worker.rs).  The flag for all       *)
(* tenants moves in between, and the session's project.                    *)
(*                                                                         *)
(* The service is external and filters as it is asked to.  Only the first  *)
(* page is asked for, by every caller.  A switch is one step here.         *)
(***************************************************************************)
EXTENDS Naturals, Sequences

CONSTANTS Tenant,      \* projects
          NoTenant,    \* None
          Home,        \* the project of the session at startup
          Rows,        \* what there is to list: [owner, visibility]
          MaxMoves,    \* bound: the user's toggles and switches
          MaxQueued    \* bound: requests, and answers, on their way

ASSUME ListingAssumption ==
  /\ Home \in Tenant /\ NoTenant \notin Tenant /\ MaxMoves \in Nat /\ MaxQueued \in Nat
  /\ Rows \subseteq [owner: Tenant \cup {NoTenant}, visibility: {"private", "public", "unknown"}]

VARIABLES
  service,     \* the list's
  auditing,    \* the audit log could be opened, so the adapters hold an AuditContext
  guardScope,  \* RbacGuard.project_id: that of startup; NoTenant without a token then
  session,     \* the project of the token in use
  allTenants,  \* the flag App and worker share
  moves,       \* the user's toggles and switches so far
  queued,      \* requests in the worker's queue: whether each is of an earlier epoch
  fetch,       \* the task under way, whose key is taken, or NoFetch
  answers,     \* answers in the App's queue
  shown        \* the list on screen, or NoList

listingVars == <<service, auditing, guardScope, session, allTenants, moves, queued, fetch,
                 answers, shown>>

settings == <<service, auditing, guardScope>>
usersSide == <<session, allTenants, moves>>

NoFetch == [stage |-> "none"]
NoList  == [rows |-> {}]

Services == {"nova", "neutron", "glance"}   \* Cinder does as Nova

ListingInit ==
  /\ service \in Services /\ auditing \in BOOLEAN /\ guardScope \in {Home, NoTenant}
  /\ session = Home /\ allTenants = FALSE /\ moves = 0
  /\ queued = <<>> /\ fetch = NoFetch /\ answers = <<>> /\ shown = NoList

-----------------------------------------------------------------------------
(* The user, an admin, and the refresh tick.                               *)

(* The request goes straight to the worker, without the check for a switch *)
(* in flight. *)
ToggleAllTenants ==
  /\ moves < MaxMoves /\ Len(queued) < MaxQueued
  /\ moves' = moves + 1
  /\ allTenants' = ~allTenants
  /\ queued' = Append(queued, FALSE)
  /\ UNCHANGED <<settings, session, fetch, answers, shown>>

(* Nothing sets the guard's project again; the modules drop their lists,   *)
(* and what was asked or answered before is now of an earlier epoch. *)
SwitchSession(p) ==
  /\ moves < MaxMoves /\ p # session
  /\ moves' = moves + 1
  /\ session' = p
  /\ queued' = [i \in DOMAIN queued |-> TRUE]
  /\ fetch' = IF fetch = NoFetch THEN NoFetch ELSE [fetch EXCEPT !.stale = TRUE]
  /\ answers' = [i \in DOMAIN answers |-> [answers[i] EXCEPT !.stale = TRUE]]
  /\ shown' = NoList
  /\ UNCHANGED <<settings, allTenants>>

AskAgain ==
  /\ Len(queued) < MaxQueued
  /\ queued' = Append(queued, FALSE)
  /\ UNCHANGED <<settings, usersSide, fetch, answers, shown>>

-----------------------------------------------------------------------------
(* The worker. *)

TakeRequest ==
  /\ queued # <<>> /\ fetch = NoFetch
  /\ fetch' = [stage |-> "spawned", stale |-> Head(queued)]
  /\ queued' = Tail(queued)
  /\ UNCHANGED <<settings, usersSide, answers, shown>>

DropDuplicate ==
  /\ queued # <<>> /\ fetch # NoFetch
  /\ queued' = Tail(queued)
  /\ UNCHANGED <<settings, usersSide, fetch, answers, shown>>

(* Start of handle_action: the flag is read in the task. *)
StartFetch ==
  /\ fetch.stage = "spawned"
  /\ fetch' = [stage |-> "sent", stale |-> fetch.stale, all |-> allTenants, session |-> session,
               tenant |-> IF allTenants THEN NoTenant ELSE guardScope]
  /\ UNCHANGED <<settings, usersSide, queued, answers, shown>>

(* ScopedItem::is_globally_accessible: a positive list, for images.        *)
IsGloballyAccessible(r) == service = "glance" /\ r.visibility = "public"

(* The service's answer to an admin: Neutron goes by tenant_id, the others *)
(* by the token. *)
OwnerAsked == IF service = "neutron" THEN fetch.tenant ELSE fetch.session
Answer ==
  {r \in Rows : fetch.all \/ OwnerAsked = NoTenant \/ r.owner = OwnerAsked \/ IsGloballyAccessible(r)}

(* refilter_by_scope, over RefilterScope::from_parts: the scope comes from *)
(* the AuditContext, and without one there is no scope and all is kept. *)
RefilterScope == IF auditing THEN guardScope ELSE NoTenant
Keeps(r) ==
  fetch.all \/ RefilterScope = NoTenant \/ IsGloballyAccessible(r) \/ r.owner = RefilterScope

(* list_* and refilter_and_audit; the key is still held when the event is  *)
(* sent. *)
FetchAnswered ==
  /\ fetch.stage = "sent" /\ Len(answers) < MaxQueued
  /\ fetch' = [stage |-> "over", stale |-> fetch.stale]
  /\ answers' = Append(answers, [stale |-> fetch.stale, all |-> fetch.all,
                                 rows |-> {r \in Answer : Keeps(r)}])
  /\ UNCHANGED <<settings, usersSide, queued, shown>>

(* Mutant: the key is released on success only. *)
FetchFailsKeepsKey ==
  /\ fetch.stage = "sent"
  /\ fetch' = [stage |-> "failed", stale |-> fetch.stale]
  /\ UNCHANGED <<settings, usersSide, queued, answers, shown>>

FetchFails ==
  /\ fetch.stage = "sent"
  /\ fetch' = [stage |-> "over", stale |-> fetch.stale]
  /\ UNCHANGED <<settings, usersSide, queued, answers, shown>>

ReleaseKey ==
  /\ fetch.stage = "over"
  /\ fetch' = NoFetch
  /\ UNCHANGED <<settings, usersSide, queued, answers, shown>>

(* The App's epoch gate, and the module's list. *)
TakeAnswer ==
  /\ answers # <<>>
  /\ answers' = Tail(answers)
  /\ shown' = IF Head(answers).stale THEN shown
              ELSE [all |-> Head(answers).all, rows |-> Head(answers).rows]
  /\ UNCHANGED <<settings, usersSide, queued, fetch>>

ListingNext ==
  \/ ToggleAllTenants \/ AskAgain \/ \E p \in Tenant : SwitchSession(p)
  \/ TakeRequest \/ DropDuplicate \/ StartFetch \/ FetchAnswered \/ FetchFails \/ ReleaseKey
  \/ TakeAnswer

ListingSpec == ListingInit /\ [][ListingNext]_listingVars

(* The loops and the task are polled, the refresh tick recurs while the    *)
(* user is in normal mode, and a list asked for over and over is not       *)
(* refused every time. *)
ListingFairness ==
  /\ WF_listingVars(TakeRequest \/ DropDuplicate)
  /\ WF_listingVars(StartFetch \/ ReleaseKey) /\ SF_listingVars(FetchAnswered)
  /\ WF_listingVars(TakeAnswer)

-----------------------------------------------------------------------------
(* After the user's last toggle or switch the list on screen comes to be   *)
(* the flag's and stays so, although the request the toggle itself sends   *)
(* may be dropped as a duplicate of one that has read the flag before, and *)
(* an answer under the old flag may still come after the toggle (app.rs:   *)
(* "Re-fetch all resources with new filter").                              *)
FlagTakesEffect == <>[](moves > 0 => shown # NoList /\ shown.all = allTenants)

(* neutron_audit.rs: the scope is a "live read of the active project id    *)
(* (...) (avoids stale capture across cloud/project switches)": where the  *)
(* adapter has a scope, what a list shows is what the project in force     *)
(* has. *)
ListFitsContext ==
  shown # NoList /\ ~shown.all /\ auditing /\ guardScope # NoTenant =>
    shown.rows = {r \in Rows : r.owner = session \/ IsGloballyAccessible(r)}
=============================================================================
