SPECIFICATION FairSpec
CONSTANTS
  m1 = m1
  r1 = r1
  e1 = e1
  e2 = e2
  c1 = c1
  u1 = u1
  NoRun = NoRun
  Runs = {r1, e1}
  Msgs = {m1}
  Channels = {c1}
  Authors = {u1}
  MsgOf <- OneMsgOf
  FirstRun <- OneFirstRun
  ChannelOf <- OneChannelOf
  AuthorOf <- OneAuthorOf
  Deletable = {m1}
  MaxClears = 2
  MaxParts = 1
CHECK_DEADLOCK FALSE
INVARIANTS RegisteredIsRunning ClearReachesRegistered
PROPERTIES EvictedOnlyByOwner OnlyCurrentRunsSend RegistryDrains
