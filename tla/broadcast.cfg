\* A Broadcast to up to two servers, and another goroutine that calls both
\* through the same pool.  A caller can hold an old connection to a server
\* while the pool has a newer one.
CONSTANTS
  Callers = {s1, s2, g}
  Addrs = {s1, s2}
  Conns = {1, 2, 3}
  None = None
  WantReply = TRUE
SPECIFICATION FairBroadcast
INVARIANTS OpenIsPooled RootCause NilMeansAll
PROPERTIES WorkingIsKept CallersGoOn ReplyIsFinal FailsFast
