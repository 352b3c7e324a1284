\* Three requests to add an article, of which two ask for the title that is
\* announced for removal; four calls on accounts or categories.  All calls may end.
CONSTANTS
  r1 = r1  r2 = r2  r3 = r3
  weiguoshen = weiguoshen  other = other
  Requests = {r1, r2, r3}
  Titles = {weiguoshen, other}
  TitleOf <- MCTitleOf
  Banned = {weiguoshen}
  LockTTL = 2
  Delay = 3
  c1 = c1  c2 = c2  c3 = c3  c4 = c4
  n1 = n1  Blank = Blank  Nobody = Nobody
  Callers = {c1, c2, c3, c4}
  Names = {n1, Blank}
  Asks <- MCAsks
SPECIFICATION FairServices
INVARIANTS TitlesUnique SerialNamesUnique RegisteredCanLogIn UpdateKept DeletionKept
PROPERTIES AnnouncedIsRemoved
CHECK_DEADLOCK FALSE
