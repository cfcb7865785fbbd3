---------------------------- MODULE EndpointCache ----------------------------
(***************************************************************************)
(* The service URL each BaseHttpClient caches (src/adapter/http/base.rs),  *)
(* and a context switch that clears those caches and then activates the    *)
(* new scope (src/adapter/http/endpoint_invalidator.rs, refresh_catalog    *)
(* and commit in src/adapter/auth/scoped_session.rs).                      *)
(*                                                                         *)
(* A scope stands for its own token and for the catalog that came with it: *)
(* the URL of a service differs between scopes, as Cinder's does.  Scopes  *)
(* are compared, URLs are not built; token refresh is in KeystoneAuth.     *)
(*                                                                         *)
(* Nothing keeps requests and a switch apart.  A request that is in        *)
(* progress while a switch is may take the one scope's URL and the other's *)
(* token, and may cache its URL after the switch has cleared the caches;   *)
(* the histories in `request` and `raced` tell those requests from others. *)
(***************************************************************************)
EXTENDS Naturals, Sequences

CONSTANTS HttpRequest,    \* bound: requests in progress at once
          Scope, InitialScope, NoScope,
          Caches,         \* the services, in the order invalidate_all visits them
          MaxActivations  \* bound: switches that activate their target

ASSUME ScopeAssumption == InitialScope \in Scope /\ NoScope \notin Scope
Service == {Caches[i] : i \in DOMAIN Caches}

ASSUME CachesAssumption == Caches \in Seq(Service)
ASSUME EndpointBoundAssumption == MaxActivations \in Nat

VARIABLES
  active,    \* KeystoneAuthAdapter.active_scope
  endpoint,  \* BaseHttpClient.endpoint, per service
  raced,     \* history: the services whose URL a raced request has cached
  request,   \* requests of the adapters
  switch,    \* the switch in progress
  switches   \* activations so far

endpointVars == <<active, endpoint, raced, request, switch, switches>>

(* `raced`, history: a switch was in progress while the request was, or    *)
(* its URL comes from a request of which that is true.                     *)
NoRequest == [pc |-> "idle", service |-> NoScope, url |-> NoScope, token |-> NoScope,
              raced |-> FALSE]
RequestState ==
  [pc: {"idle", "resolve", "get_endpoint", "write", "authenticate", "sent"},
   service: Service \cup {NoScope}, url: Scope \cup {NoScope}, token: Scope \cup {NoScope},
   raced: BOOLEAN]

(* `next` is the cache invalidate_all clears next. *)
NoSwitch == [pc |-> "idle", target |-> NoScope, previous |-> NoScope, next |-> 1]
SwitchState ==
  [pc: {"idle", "refresh_catalog", "set_active", "store", "revert"},
   target: Scope \cup {NoScope}, previous: Scope \cup {NoScope}, next: 1..Len(Caches) + 1]

EndpointTypeOK ==
  /\ active \in Scope
  /\ endpoint \in [Service -> Scope \cup {NoScope}]
  /\ raced \subseteq Service
  /\ request \in [HttpRequest -> RequestState]
  /\ switch \in SwitchState
  /\ switches \in 0..MaxActivations

EndpointInit ==
  /\ active = InitialScope
  /\ endpoint = [s \in Service |-> NoScope] /\ raced = {}
  /\ request = [r \in HttpRequest |-> NoRequest]
  /\ switch = NoSwitch
  /\ switches = 0

Resting == switch.pc = "idle"

-----------------------------------------------------------------------------
(* BaseHttpClient::request: resolve_endpoint, then authenticate_request.   *)
Step(r, pc) == request' = [request EXCEPT ![r].pc = pc]

Overtaken(q) == [q EXCEPT !.raced = TRUE]

Ask(r, service) ==
  /\ request[r].pc = "idle"
  /\ LET new == [NoRequest EXCEPT !.pc = "resolve", !.service = service]
     IN request' = [request EXCEPT ![r] = IF Resting THEN new ELSE Overtaken(new)]
  /\ UNCHANGED <<active, endpoint, raced, switch, switches>>

UseCached(r) ==
  /\ request[r].pc = "resolve"
  /\ endpoint[request[r].service] # NoScope
  /\ request' = [request EXCEPT ![r].pc = "authenticate", ![r].url = endpoint[request[r].service],
                                ![r].raced = @ \/ request[r].service \in raced]
  /\ UNCHANGED <<active, endpoint, raced, switch, switches>>

Miss(r) ==
  /\ request[r].pc = "resolve"
  /\ endpoint[request[r].service] = NoScope
  /\ Step(r, "get_endpoint")
  /\ UNCHANGED <<active, endpoint, raced, switch, switches>>

(* KeystoneAuthAdapter::get_endpoint reads the active scope's catalog; the *)
(* read lock on the cache is long gone.                                    *)
GetEndpoint(r) ==
  /\ request[r].pc = "get_endpoint"
  /\ request' = [request EXCEPT ![r].pc = "write", ![r].url = active]
  /\ UNCHANGED <<active, endpoint, raced, switch, switches>>

WriteCache(r) ==
  /\ request[r].pc = "write"
  /\ endpoint' = [endpoint EXCEPT ![request[r].service] = request[r].url]
  /\ raced' = IF request[r].raced THEN raced \cup {request[r].service}
              ELSE raced \ {request[r].service}
  /\ Step(r, "authenticate")
  /\ UNCHANGED <<active, switch, switches>>

Authenticate(r) ==
  /\ request[r].pc = "authenticate"
  /\ request' = [request EXCEPT ![r].pc = "sent", ![r].token = active]
  /\ UNCHANGED <<active, endpoint, raced, switch, switches>>

(* No such service in the catalog, no usable token, or an answer. *)
EndRequest(r) ==
  /\ request[r].pc \in {"get_endpoint", "authenticate", "sent"}
  /\ request' = [request EXCEPT ![r] = NoRequest]
  /\ UNCHANGED <<active, endpoint, raced, switch, switches>>

-----------------------------------------------------------------------------
(* Those in progress when a switch begins. *)
RequestsOvertaken ==
  request' = [r \in HttpRequest |-> IF request[r].pc \in {"idle", "sent"} THEN request[r]
                                    ELSE Overtaken(request[r])]

(* Mutant: the caches are left alone. *)
RefreshNothing(target) ==
  /\ Resting
  /\ switches < MaxActivations
  /\ switch' = [NoSwitch EXCEPT !.pc = "set_active", !.target = target, !.previous = active]
  /\ RequestsOvertaken
  /\ UNCHANGED <<active, endpoint, raced, switches>>

(* A switch from refresh_catalog on; before, it changes nothing here.      *)
RefreshCatalog(target) ==
  /\ Resting
  /\ switches < MaxActivations
  /\ switch' = [NoSwitch EXCEPT !.pc = "refresh_catalog", !.target = target, !.previous = active]
  /\ RequestsOvertaken
  /\ UNCHANGED <<active, endpoint, raced, switches>>

(* invalidate_all: one cache after the other. *)
InvalidateNext ==
  /\ switch.pc = "refresh_catalog"
  /\ switch.next <= Len(Caches)
  /\ endpoint' = [endpoint EXCEPT ![Caches[switch.next]] = NoScope]
  /\ raced' = raced \ {Caches[switch.next]}
  /\ switch' = [switch EXCEPT !.next = @ + 1]
  /\ UNCHANGED <<active, request, switches>>

(* Mutant: the last cache is missed. *)
InvalidateAllButLast ==
  /\ switch.pc = "refresh_catalog"
  /\ switch.next >= Len(Caches)
  /\ switch' = [switch EXCEPT !.pc = "set_active"]
  /\ UNCHANGED <<active, endpoint, raced, request, switches>>

InvalidateDone ==
  /\ switch.pc = "refresh_catalog"
  /\ switch.next > Len(Caches)
  /\ switch' = [switch EXCEPT !.pc = "set_active"]
  /\ UNCHANGED <<active, endpoint, raced, request, switches>>

SetActive ==
  /\ switch.pc = "set_active"
  /\ active' = switch.target
  /\ switches' = switches + 1
  /\ switch' = [switch EXCEPT !.pc = "store"]
  /\ UNCHANGED <<endpoint, raced, request>>

Store ==
  /\ switch.pc = "store"
  /\ switch' = NoSwitch
  /\ UNCHANGED <<active, endpoint, raced, request, switches>>

(* The token cache cannot be written: the previous scope is set again. *)
StoreFails ==
  /\ switch.pc = "store"
  /\ switch' = [switch EXCEPT !.pc = "revert"]
  /\ UNCHANGED <<active, endpoint, raced, request, switches>>

Revert ==
  /\ switch.pc = "revert"
  /\ active' = switch.previous
  /\ switch' = NoSwitch
  /\ UNCHANGED <<endpoint, raced, request, switches>>

ResolveEndpoint(r) == UseCached(r) \/ Miss(r) \/ GetEndpoint(r) \/ WriteCache(r)

EndpointNext ==
  \/ \E r \in HttpRequest :
       \/ \E service \in Service : Ask(r, service)
       \/ ResolveEndpoint(r) \/ Authenticate(r) \/ EndRequest(r)
  \/ \E target \in Scope : RefreshCatalog(target)
  \/ InvalidateNext \/ InvalidateDone \/ SetActive \/ Store \/ StoreFails \/ Revert

EndpointSpec == EndpointInit /\ [][EndpointNext]_endpointVars

-----------------------------------------------------------------------------
(* Between switches a cached URL is the one the active token's catalog     *)
(* gives, unless a request cached it that was in progress while a switch   *)
(* was; a switch that is taken back does not leave its target's URL        *)
(* (invalidate_all before set_active; resolve_endpoint's late write).      *)
CatalogFreshUnlessRaced ==
  Resting => \A s \in Service : endpoint[s] \in {NoScope, active} \/ s \in raced

(* A request takes one scope's token to another scope's URL only if a      *)
(* switch was in progress meanwhile, or if it has its URL from a request   *)
(* of which that is true (BaseHttpClient::request: URL first, then token). *)
UrlFitsToken ==
  \A r \in HttpRequest :
    request[r].pc = "sent" /\ ~request[r].raced => request[r].url = request[r].token

(* endpoint_invalidator.rs: the caches are cleared "whenever the active    *)
(* scope changes so subsequent requests re-resolve the URL against the     *)
(* fresh service catalog".                                                 *)
CatalogFresh ==
  Resting => \A s \in Service : endpoint[s] \in {NoScope, active}
=============================================================================
