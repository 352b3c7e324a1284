\* Three goroutines on one connection: c1 uses Client.Call and can give up; c2,
\* whose arguments gob cannot encode, and c3 use Client.Go with one Done channel
\* of a single slot, on which terminateCalls can block while it holds both locks.
CONSTANTS
  c1 = c1  c2 = c2  c3 = c3
  ch1 = ch1  ch2 = ch2
  None = None
  Receiver = Receiver
  Calls = {c1, c2, c3}
  Async = {c2, c3}
  Cancelable = {c1}
  BadArgs = {c2}
  Chans = {ch1, ch2}
  DoneChan <- MCDoneChan
  Cap <- MCCap
SPECIFICATION FairSpec
INVARIANTS AtMostOnce NoCallLost OwnReply
PROPERTIES ResultFinal CancelDetaches BrokenReleases
