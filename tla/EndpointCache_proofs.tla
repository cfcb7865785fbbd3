------------------------ MODULE EndpointCache_proofs ------------------------
(* What the endpoint caches promise while requests and switches overlap as *)
(* they like, for any number of services, requests and scopes.             *)
EXTENDS EndpointCache, TLAPS

InProgress(r) == request[r].pc \in {"resolve", "get_endpoint", "write", "authenticate"}

(* A request in progress is a service's; it has raced if a switch is in    *)
(* progress, and the URL of one that has not is the active scope's.        *)
RequestsFit ==
  \A r \in HttpRequest :
    /\ InProgress(r) => request[r].service \in Service
    /\ InProgress(r) /\ ~Resting => request[r].raced
    /\ request[r].pc \in {"write", "authenticate"} /\ ~request[r].raced => request[r].url = active
    /\ request[r].pc = "sent" /\ ~request[r].raced => request[r].url = request[r].token

EmptyOrRaced(s) == endpoint[s] = NoScope \/ s \in raced

(* What invalidate_all has passed stays empty but for raced requests.      *)
PassedAreEmpty ==
  switch.pc = "refresh_catalog" =>
    \A i \in DOMAIN Caches : i < switch.next => EmptyOrRaced(Caches[i])

StagedAreEmpty ==
  switch.pc \in {"set_active", "store", "revert"} => \A s \in Service : EmptyOrRaced(s)

(* A switch has somewhere to go and to come back to, and there is room for *)
(* the activation it is on its way to.                                     *)
SwitchFits ==
  /\ ~Resting => {switch.target, switch.previous} \subseteq Scope
  /\ switch.pc \in {"refresh_catalog", "set_active"} => switches < MaxActivations

CachesFit == PassedAreEmpty /\ StagedAreEmpty /\ CatalogFreshUnlessRaced

Inv == EndpointTypeOK /\ SwitchFits /\ RequestsFit /\ CachesFit

-----------------------------------------------------------------------------
(* Empty caches, no request and no switch fit Inv. *)
LEMMA InitInv == EndpointInit => Inv
  BY ScopeAssumption, CachesAssumption, EndpointBoundAssumption
  DEF EndpointInit, Inv, EndpointTypeOK, SwitchFits, RequestsFit, InProgress, CachesFit,
      PassedAreEmpty, StagedAreEmpty, CatalogFreshUnlessRaced, Resting, NoRequest, NoSwitch,
      RequestState, SwitchState

(* A step that leaves the caches and the switch alone need only answer for *)
(* the one request it moves.                                               *)
LEMMA OneRequest ==
  ASSUME Inv, NEW r \in HttpRequest, NEW next \in RequestState,
         request' = [request EXCEPT ![r] = next],
         UNCHANGED <<active, endpoint, raced, switch, switches>>,
         next.pc \in {"resolve", "get_endpoint", "write", "authenticate"} =>
           next.service \in Service /\ (~Resting => next.raced),
         next.pc \in {"write", "authenticate"} /\ ~next.raced => next.url = active,
         next.pc = "sent" /\ ~next.raced => next.url = next.token
  PROVE  Inv'
<1>1. EndpointTypeOK'
  BY DEF Inv, EndpointTypeOK
<1>2. RequestsFit'
  <2>. SUFFICES ASSUME NEW q \in HttpRequest
                PROVE  (/\ InProgress(q) => request[q].service \in Service
                        /\ InProgress(q) /\ ~Resting => request[q].raced
                        /\ request[q].pc \in {"write", "authenticate"} /\ ~request[q].raced
                             => request[q].url = active
                        /\ request[q].pc = "sent" /\ ~request[q].raced
                             => request[q].url = request[q].token)'
    BY DEF RequestsFit
  <2>1. CASE q = r
    <3>1. request'[q] = next
      BY <2>1 DEF Inv, EndpointTypeOK
    <3>. QED
      BY <3>1 DEF InProgress, Resting
  <2>2. CASE q # r
    <3>1. request'[q] = request[q]
      BY <2>2 DEF Inv, EndpointTypeOK
    <3>. QED
      BY <3>1 DEF Inv, RequestsFit, InProgress, Resting
  <2>. QED
    BY <2>1, <2>2
<1>3. SwitchFits' /\ CachesFit'
  BY DEF Inv, SwitchFits, Resting, CachesFit, PassedAreEmpty, StagedAreEmpty, EmptyOrRaced,
         CatalogFreshUnlessRaced
<1>. QED
  BY <1>1, <1>2, <1>3 DEF Inv

(* A request asks, moves on and ends. *)
LEMMA RequestStep ==
  ASSUME Inv, NEW r \in HttpRequest,
         \/ \E service \in Service : Ask(r, service)
         \/ UseCached(r) \/ Miss(r) \/ GetEndpoint(r) \/ Authenticate(r) \/ EndRequest(r)
  PROVE  Inv'
<1>. request[r] \in RequestState /\ active \in Scope
  BY DEF Inv, EndpointTypeOK
<1>1. ASSUME NEW service \in Service, Ask(r, service) PROVE Inv'
  <2>. DEFINE new  == [NoRequest EXCEPT !.pc = "resolve", !.service = service]
              next == IF Resting THEN new ELSE Overtaken(new)
  <2>1. request' = [request EXCEPT ![r] = next]
    BY <1>1 DEF Ask
  <2>2. /\ next \in RequestState /\ next.pc = "resolve" /\ next.service = service
        /\ ~Resting => next.raced
    BY DEF NoRequest, Overtaken, RequestState
  <2>. QED
    BY <1>1, <2>1, <2>2, OneRequest DEF Ask
<1>2. CASE UseCached(r)
  <2>. DEFINE next == [request[r] EXCEPT !.pc = "authenticate", !.url = endpoint[request[r].service],
                                         !.raced = @ \/ request[r].service \in raced]
  <2>1. request' = [request EXCEPT ![r] = next]
    BY <1>2 DEF UseCached, Inv, EndpointTypeOK
  <2>2. request[r].service \in Service /\ (~Resting => request[r].raced)
    BY <1>2 DEF UseCached, Inv, RequestsFit, InProgress
  <2>3. next \in RequestState
    BY <2>2 DEF Inv, EndpointTypeOK, RequestState
  <2>4. ~next.raced => next.url = active
    BY <1>2, <2>2 DEF UseCached, RequestState, Inv, CachesFit, CatalogFreshUnlessRaced
  <2>5. next.pc = "authenticate" /\ next.service \in Service /\ (~Resting => next.raced)
    BY <2>2 DEF RequestState
  <2>. QED
    BY <1>2, <2>1, <2>3, <2>4, <2>5, OneRequest DEF UseCached
<1>3. CASE Miss(r)
  <2>. DEFINE next == [request[r] EXCEPT !.pc = "get_endpoint"]
  <2>1. request' = [request EXCEPT ![r] = next]
    BY <1>3 DEF Miss, Step
  <2>2. next \in RequestState /\ next.pc = "get_endpoint"
        /\ next.service \in Service /\ (~Resting => next.raced)
    BY <1>3 DEF Miss, Inv, RequestsFit, InProgress, RequestState
  <2>. QED
    BY <1>3, <2>1, <2>2, OneRequest DEF Miss
<1>4. CASE GetEndpoint(r)
  <2>. DEFINE next == [request[r] EXCEPT !.pc = "write", !.url = active]
  <2>1. request' = [request EXCEPT ![r] = next]
    BY <1>4 DEF GetEndpoint, Inv, EndpointTypeOK
  <2>2. next \in RequestState /\ next.pc = "write" /\ next.url = active
        /\ next.service \in Service /\ (~Resting => next.raced)
    BY <1>4 DEF GetEndpoint, Inv, RequestsFit, InProgress, RequestState
  <2>. QED
    BY <1>4, <2>1, <2>2, OneRequest DEF GetEndpoint
<1>5. CASE Authenticate(r)
  <2>. DEFINE next == [request[r] EXCEPT !.pc = "sent", !.token = active]
  <2>1. request' = [request EXCEPT ![r] = next]
    BY <1>5 DEF Authenticate, Inv, EndpointTypeOK
  <2>2. next \in RequestState /\ next.pc = "sent" /\ (~next.raced => next.url = next.token)
    BY <1>5 DEF Authenticate, Inv, RequestsFit, RequestState
  <2>. QED
    BY <1>5, <2>1, <2>2, OneRequest DEF Authenticate
<1>6. CASE EndRequest(r)
  <2>1. NoRequest \in RequestState /\ NoRequest.pc = "idle"
    BY DEF NoRequest, RequestState
  <2>. QED
    BY <1>6, <2>1, OneRequest DEF EndRequest
<1>. QED
  BY <1>1, <1>2, <1>3, <1>4, <1>5, <1>6

(* A URL is cached as fresh as the request that brings it, or as raced.    *)
LEMMA WriteStep == ASSUME Inv, NEW r \in HttpRequest, WriteCache(r) PROVE Inv'
<1>. DEFINE s == request[r].service
<1>1. /\ request[r] \in RequestState /\ s \in Service
      /\ ~Resting => request[r].raced
      /\ ~request[r].raced => request[r].url = active
  BY DEF WriteCache, Inv, EndpointTypeOK, RequestsFit, InProgress
<1>2. EndpointTypeOK'
  BY <1>1 DEF WriteCache, Step, Inv, EndpointTypeOK, RequestState
<1>3. RequestsFit'
  <2>1. \A q \in HttpRequest : q # r => request'[q] = request[q]
    BY DEF WriteCache, Step, Inv, EndpointTypeOK
  <2>2. request'[r] = [request[r] EXCEPT !.pc = "authenticate"]
    BY DEF WriteCache, Step, Inv, EndpointTypeOK
  <2>3. request'[r].pc = "authenticate" /\ request'[r].service = s
        /\ request'[r].url = request[r].url /\ request'[r].raced = request[r].raced
    BY <1>1, <2>2 DEF RequestState
  <2>. QED
    BY <1>1, <2>1, <2>3 DEF WriteCache, Inv, RequestsFit, InProgress, Resting
<1>4. \A t \in Service : t # s => endpoint'[t] = endpoint[t] /\ (t \in raced' <=> t \in raced)
  BY <1>1 DEF WriteCache
<1>5. endpoint'[s] = request[r].url /\ (request[r].raced => s \in raced')
  BY <1>1 DEF WriteCache, Inv, EndpointTypeOK
<1>6. CatalogFreshUnlessRaced'
  BY <1>1, <1>4, <1>5 DEF WriteCache, Inv, CachesFit, CatalogFreshUnlessRaced, Resting
<1>7. \A t \in Service : ~Resting /\ EmptyOrRaced(t) => EmptyOrRaced(t)'
  BY <1>1, <1>4, <1>5 DEF EmptyOrRaced
<1>8. PassedAreEmpty' /\ StagedAreEmpty'
  <2>1. \A i \in DOMAIN Caches : Caches[i] \in Service
    BY DEF Service
  <2>. QED
    BY <1>7, <2>1 DEF WriteCache, Inv, CachesFit, PassedAreEmpty, StagedAreEmpty, Resting
<1>. QED
  BY <1>2, <1>3, <1>6, <1>8 DEF WriteCache, Inv, CachesFit, SwitchFits, Resting

(* invalidate_all passes one cache and leaves those before it alone.       *)
LEMMA InvalidateStep == ASSUME Inv, InvalidateNext PROVE Inv'
<1>. DEFINE c == Caches[switch.next]
<1>1. c \in Service /\ switch.next \in 1..Len(Caches)
  BY CachesAssumption DEF Inv, EndpointTypeOK, SwitchState, Service, InvalidateNext
<1>2. switch'.pc = "refresh_catalog" /\ switch'.next = switch.next + 1
      /\ switch'.target = switch.target /\ switch'.previous = switch.previous
  BY DEF Inv, EndpointTypeOK, SwitchState, InvalidateNext
<1>3. EndpointTypeOK'
  BY <1>1, CachesAssumption DEF Inv, EndpointTypeOK, SwitchState, InvalidateNext
<1>4. PassedAreEmpty'
  <2>. SUFFICES ASSUME NEW i \in DOMAIN Caches, i < switch.next + 1
                PROVE  EmptyOrRaced(Caches[i])'
    BY <1>2 DEF PassedAreEmpty
  <2>1. Caches[i] \in Service
    BY DEF Service
  <2>2. CASE Caches[i] = c
    BY <2>1, <2>2 DEF Inv, EndpointTypeOK, EmptyOrRaced, InvalidateNext
  <2>3. CASE Caches[i] # c
    <3>1. i < switch.next
      BY <2>3, <1>1, CachesAssumption
    <3>2. EmptyOrRaced(Caches[i])
      BY <3>1 DEF Inv, CachesFit, PassedAreEmpty, InvalidateNext
    <3>. QED
      BY <2>1, <2>3, <3>2 DEF Inv, EndpointTypeOK, EmptyOrRaced, InvalidateNext
  <2>. QED
    BY <2>2, <2>3
<1>5. SwitchFits' /\ RequestsFit' /\ StagedAreEmpty' /\ CatalogFreshUnlessRaced'
  BY <1>2 DEF Inv, SwitchFits, Resting, InvalidateNext, RequestsFit, InProgress, StagedAreEmpty,
              CatalogFreshUnlessRaced
<1>. QED
  BY <1>3, <1>4, <1>5 DEF Inv, CachesFit

(* A switch marks the requests in progress and has passed no cache yet.    *)
LEMMA RefreshStep == ASSUME Inv, NEW target \in Scope, RefreshCatalog(target) PROVE Inv'
<1>1. /\ switch' = [pc |-> "refresh_catalog", target |-> target, previous |-> active, next |-> 1]
      /\ switches < MaxActivations /\ RequestsOvertaken
      /\ UNCHANGED <<active, endpoint, raced, switches>>
  BY DEF RefreshCatalog, NoSwitch
<1>2. \A r \in HttpRequest :
        /\ request'[r] \in RequestState
        /\ request'[r] = IF request[r].pc \in {"idle", "sent"} THEN request[r]
                         ELSE Overtaken(request[r])
  BY <1>1 DEF RequestsOvertaken, Overtaken, Inv, EndpointTypeOK, RequestState
<1>3. request' \in [HttpRequest -> RequestState]
  BY <1>1, <1>2 DEF RequestsOvertaken
<1>4. EndpointTypeOK'
  BY <1>1, <1>3, CachesAssumption DEF Inv, EndpointTypeOK, SwitchState
<1>5. RequestsFit'
  <2>. SUFFICES ASSUME NEW r \in HttpRequest
                PROVE  (/\ InProgress(r) => request[r].service \in Service /\ request[r].raced
                        /\ request[r].pc = "sent" /\ ~request[r].raced
                             => request[r].url = request[r].token)'
    BY DEF RequestsFit, InProgress
  <2>1. CASE request[r].pc \in {"idle", "sent"}
    BY <2>1, <1>2 DEF Inv, RequestsFit, InProgress
  <2>2. CASE request[r].pc \notin {"idle", "sent"}
    <3>1. request[r] \in RequestState
      BY DEF Inv, EndpointTypeOK
    <3>2. InProgress(r)
      BY <2>2, <3>1 DEF InProgress, RequestState
    <3>3. /\ request'[r].pc = request[r].pc /\ request'[r].service = request[r].service
          /\ request'[r].raced
      BY <2>2, <1>2, <3>1 DEF Overtaken, RequestState
    <3>. QED
      BY <2>2, <3>2, <3>3 DEF Inv, RequestsFit, InProgress
  <2>. QED
    BY <2>1, <2>2
<1>. QED
  BY <1>1, <1>4, <1>5, CachesAssumption
  DEF Inv, EndpointTypeOK, SwitchFits, Resting, CachesFit, PassedAreEmpty, StagedAreEmpty,
      CatalogFreshUnlessRaced

(* The other steps of a switch keep Inv: no request that has not raced is  *)
(* in progress when the active scope moves.                                *)
LEMMA SwitchStep ==
  ASSUME Inv, InvalidateDone \/ SetActive \/ Store \/ StoreFails \/ Revert
  PROVE  Inv'
<1>. USE ScopeAssumption, CachesAssumption, EndpointBoundAssumption
<1>1. CASE InvalidateDone
  <2>1. switch'.pc = "set_active" /\ EndpointTypeOK'
        /\ switch'.target = switch.target /\ switch'.previous = switch.previous
    BY <1>1 DEF InvalidateDone, Inv, EndpointTypeOK, SwitchState
  <2>2. StagedAreEmpty'
    <3>. SUFFICES ASSUME NEW s \in Service PROVE EmptyOrRaced(s)
      BY <1>1 DEF StagedAreEmpty, EmptyOrRaced, InvalidateDone
    <3>1. PICK i \in DOMAIN Caches : s = Caches[i]
      BY DEF Service
    <3>2. i < switch.next
      BY <1>1 DEF InvalidateDone, Inv, EndpointTypeOK, SwitchState
    <3>. QED
      BY <1>1, <3>1, <3>2 DEF InvalidateDone, Inv, CachesFit, PassedAreEmpty
  <2>. QED
    BY <1>1, <2>1, <2>2 DEF InvalidateDone, Inv, SwitchFits, Resting, RequestsFit, InProgress,
                            CachesFit, PassedAreEmpty, CatalogFreshUnlessRaced
<1>2. CASE SetActive
  <2>1. switch'.pc = "store" /\ switch'.previous = switch.previous /\ switch'.target = switch.target
        /\ active' = switch.target /\ switch.target \in Scope /\ switches' = switches + 1
        /\ switches < MaxActivations
    BY <1>2 DEF SetActive, Inv, EndpointTypeOK, SwitchState, SwitchFits, Resting
  <2>2. EndpointTypeOK'
    <3>1. switches' \in 0..MaxActivations
      BY <2>1 DEF Inv, EndpointTypeOK
    <3>2. switch' \in SwitchState
      BY <1>2 DEF SetActive, Inv, EndpointTypeOK, SwitchState
    <3>. QED
      BY <1>2, <2>1, <3>1, <3>2 DEF SetActive, Inv, EndpointTypeOK
  <2>3. RequestsFit'
    BY <1>2 DEF SetActive, Inv, RequestsFit, InProgress, Resting
  <2>. QED
    BY <1>2, <2>1, <2>2, <2>3 DEF SetActive, Inv, SwitchFits, Resting, CachesFit, PassedAreEmpty,
                      StagedAreEmpty, EmptyOrRaced, CatalogFreshUnlessRaced
<1>3. CASE Store
  <2>1. switch'.pc = "idle" /\ EndpointTypeOK'
    BY <1>3 DEF Store, NoSwitch, Inv, EndpointTypeOK, SwitchState
  <2>. QED
    BY <1>3, <2>1 DEF Store, Inv, SwitchFits, Resting, RequestsFit, InProgress, CachesFit,
                      PassedAreEmpty, StagedAreEmpty, EmptyOrRaced, CatalogFreshUnlessRaced
<1>4. CASE StoreFails
  <2>1. switch'.pc = "revert" /\ EndpointTypeOK'
        /\ switch'.previous = switch.previous /\ switch'.target = switch.target
    BY <1>4 DEF StoreFails, Inv, EndpointTypeOK, SwitchState
  <2>. QED
    BY <1>4, <2>1 DEF StoreFails, Inv, SwitchFits, Resting, RequestsFit, InProgress, CachesFit,
                      PassedAreEmpty, StagedAreEmpty, EmptyOrRaced, CatalogFreshUnlessRaced
<1>5. CASE Revert
  <2>1. switch'.pc = "idle" /\ switch.previous \in Scope
    BY <1>5 DEF Revert, NoSwitch, Inv, SwitchFits, Resting
  <2>2. EndpointTypeOK'
    BY <1>5, <2>1 DEF Revert, NoSwitch, Inv, EndpointTypeOK, SwitchState
  <2>3. RequestsFit'
    BY <1>5, <2>1 DEF Revert, Inv, RequestsFit, InProgress, Resting
  <2>. QED
    BY <1>5, <2>1, <2>2, <2>3 DEF Revert, Inv, SwitchFits, Resting, CachesFit, PassedAreEmpty,
                      StagedAreEmpty, EmptyOrRaced, CatalogFreshUnlessRaced
<1>. QED
  BY <1>1, <1>2, <1>3, <1>4, <1>5

(* Every step keeps Inv. *)
LEMMA StepInv == Inv /\ [EndpointNext]_endpointVars => Inv'
<1>1. CASE UNCHANGED endpointVars
  BY <1>1 DEF endpointVars, Inv, EndpointTypeOK, SwitchFits, Resting, RequestsFit, InProgress,
              CachesFit, PassedAreEmpty, StagedAreEmpty, EmptyOrRaced, CatalogFreshUnlessRaced
<1>2. ASSUME Inv, EndpointNext PROVE Inv'
  BY <1>2, RequestStep, WriteStep, InvalidateStep, RefreshStep, SwitchStep
  DEF EndpointNext, ResolveEndpoint
<1>. QED
  BY <1>1, <1>2

(* Inv holds in every reachable state. *)
LEMMA SpecInv == EndpointSpec => []Inv
  BY StepInv, InitInv, PTL DEF EndpointSpec

(* Types of the state of endpoint caches, requests and switch (base.rs).   *)
THEOREM TypeCorrect == EndpointSpec => []EndpointTypeOK
  BY SpecInv, PTL DEF Inv

(* After a switch, committed or taken back, a cached URL is another        *)
(* scope's only if a request brought it that was in progress while a       *)
(* switch was (invalidate_all before set_active, and none after a revert). *)
THEOREM CachesFresh == EndpointSpec => []CatalogFreshUnlessRaced
  BY SpecInv, PTL DEF Inv, CachesFit

(* A request's URL and token are of one scope unless a switch came near it *)
(* (BaseHttpClient::request).                                              *)
THEOREM RequestsConsistent == EndpointSpec => []UrlFitsToken
<1>1. Inv => UrlFitsToken
  BY DEF Inv, RequestsFit, UrlFitsToken
<1>. QED
  BY <1>1, SpecInv, PTL
=============================================================================
