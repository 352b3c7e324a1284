\* One server suffices: servers do not interact.
CONSTANTS
  Servers = {s1}
  Timeout = 5
  Period = 2
  MaxDelay = 1
  MaxSilence = 6
  Absent = Absent
SPECIFICATION FairRegistrySpec
PROPERTIES HeartbeatsContinue
