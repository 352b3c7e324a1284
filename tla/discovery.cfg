\* A server whose heartbeats take their full time, a registry that stops and
\* starts, and two callers, whose refreshes take their full time.
CONSTANTS
  s1 = s1  s2 = s2  g1 = g1  g2 = g2
  Servers = {s1}
  Timeout = 5
  Period = 2
  MaxDelay = 1
  MaxSilence = 9
  Absent = Absent
  Goroutines = {g1, g2}
  RefreshPeriod = 2
  Sorted <- SortedOne
  FirstIndex = {0}
  None = None
SPECIFICATION FairSpec
INVARIANTS BeatingIsListed ListedIsRecent
PROPERTIES GivenIsRecent AskersReturn
