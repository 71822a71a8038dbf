SPECIFICATION FairSpec
CONSTANTS
  w1 = w1
  w2 = w2
  r1 = r1
  r2 = r2
  mem = mem
  bot = bot
  hot = hot
  None = None
  Broken = Broken
  Hot = hot
  Watchers = {w1, w2}
  Requests = {r1}
  FormRequests = {}
  MaxWrites = 2
  WatchMayFail = TRUE
  Fields <- MCFields
  Rank <- MCRank
  EditOf <- MCEditOf
  Start <- MCStart
  UserFiles <- MCUserFiles
CHECK_DEADLOCK FALSE
INVARIANTS AllOrNothing NoInstanceLeaks NoTriggerLost
PROPERTIES NoCallAfterStop Converges
