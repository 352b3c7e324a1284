\* Two servers that come and go and a caller; requests take no time.
CONSTANTS
  s1 = s1  s2 = s2  g1 = g1  g2 = g2
  Servers = {s1, s2}
  Timeout = 2
  Period = 1
  MaxDelay = 0
  MaxSilence = 3
  Absent = Absent
  Goroutines = {g1}
  RefreshPeriod = 1
  Sorted <- SortedTwo
  FirstIndex = {3}
  None = None
SPECIFICATION FairSpec
INVARIANTS TurnsAreFair
PROPERTIES ServersFound
