\* A caller of Client.Call that may give up and one of Client.Go whose arguments
\* do not fit the method, or one of Client.Call whose method does not exist, on
\* one connection to a server with a pool of two.
CONSTANTS
  c1 = c1  c2 = c2  c3 = c3
  None = None
  Receiver = Receiver
  Conn = Conn
  Calls = {c1, c2, c3}
  Async = {c2}
  Cancelable = {c1}
  BadArgs = {}
  Chans = {c1, c2, c3}
  DoneChan <- MCDoneChan
  Cap <- MCCap
  Workers = {w1, w2}
  BadMethod = {c3}
  BadBody = {c2}
SPECIFICATION MCFairSpec
PROPERTIES IsRemoteCall ReadCallsEnd
