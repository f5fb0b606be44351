\* Two requests, two tenants, and two chunks of which a request gets at most
\* one, so that a chunk can belong to the other tenant, move to it while a
\* request is under way, or match and not be returned.  Liveness, so no
\* symmetry.
CONSTANTS
  Requests = {r1, r2}
  Tenants = {acme, demo}
  BadTenant = BadTenant
  Docs = {d1, d2}
  Invented = Invented
  Absent = Absent
  None = None
  MAX_ATTEMPTS = 3
  TopK = 1

SPECIFICATION FairSpec
INVARIANTS TypeOK TenantIsolation Grounded MetricsBalance
PROPERTIES KeepsContract EveryRequestEnds
