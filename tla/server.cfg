\* A pool of two goroutines, a connection with four requests, of which r3 names
\* an unknown method and r4 has a body that does not fit, and a connection whose
\* Option is refused: fewer connections to serve than goroutines in the pool.
CONSTANTS
  k1 = k1  k2 = k2
  r1 = r1  r2 = r2  r3 = r3  r4 = r4
  None = None
  Workers = {w1, w2}
  Conns = {k1, k2}
  Reqs = {r1, r2, r3, r4}
  ConnOf <- FirstConn
  BadOption = {k2}
  BadMethod = {r3}
  BadBody = {r4}
SPECIFICATION FairSpec
INVARIANTS AnsweredAtMostOnce FinishedIsAnswered
PROPERTIES NoAnswerAfterClose RequestsHandled ConnectionsReleased
