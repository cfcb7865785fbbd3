------------------------------- MODULE MCParts -------------------------------
(* The parts, each small: two servers, two projects of one name in two     *)
(* domains, three forms, and the rows a service could mix up.              *)
EXTENDS Parts, TLC

CONSTANTS p1, p2, d1, d2, n1, n2, n3, nova, cinder

MCProject == {p1, p2}
MCDomain == {d1, d2}
MCDomainName == {n1, n2, n3}
MCDomainOf == p1 :> d1 @@ p2 :> d2
MCAskedFor == {[by |-> "id", key |-> p1]}
              \cup {[by |-> "name", key |-> d] : d \in {None, d1, n2}}

MCLayouts == {<<"text", "multi", "drop">>, <<"drop", "check">>, <<"multi", "text">>}

MCCaches == <<nova, cinder>>

MCTenant == {p1, p2}
Private(owner) == [owner |-> owner, visibility |-> "private"]
MCRows == {Private(p1), Private(p2), Private(None),
           [owner |-> p2, visibility |-> "public"], [owner |-> p2, visibility |-> "unknown"]}
=============================================================================
