\* As many connections as goroutines in the pool, a request on each.
CONSTANTS
  k1 = k1  k2 = k2
  r1 = r1  r2 = r2  r3 = r3  r4 = r4
  None = None
  Workers = {w1, w2}
  Conns = {k1, k2}
  Reqs = {r1, r2}
  ConnOf <- BothConns
  BadOption = {}
  BadMethod = {}
  BadBody = {}
CHECK_DEADLOCK FALSE
SPECIFICATION FairSpec
PROPERTIES RequestsHandled
