--------------------------- MODULE MCEndpointCache ---------------------------
(* Two requests of two services, among two scopes and back. *)
EXTENDS EndpointCache, TLC

CONSTANTS nova, cinder

CacheOrder == <<nova, cinder>>

Symmetry == Permutations(HttpRequest) \cup Permutations(Scope \ {InitialScope})
=============================================================================
