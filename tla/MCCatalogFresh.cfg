CONSTANTS
  HttpRequest = {r1, r2}
  Scope = {admin, demo, other}
  InitialScope = admin
  NoScope = None
  nova = nova
  cinder = cinder
  Caches <- CacheOrder
  MaxActivations = 2
SPECIFICATION EndpointSpec
SYMMETRY Symmetry
INVARIANTS
  CatalogFresh
