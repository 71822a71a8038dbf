SPECIFICATION Spec
CONSTANTS
  m1 = m1
  r1 = r1
  e1 = e1
  e2 = e2
  c1 = c1
  u1 = u1
  NoRun = NoRun
  Runs = {r1, e1, e2}
  Msgs = {m1}
  Channels = {c1}
  Authors = {u1}
  MsgOf <- TwoEditsMsgOf
  FirstRun <- OneFirstRun
  ChannelOf <- OneChannelOf
  AuthorOf <- OneAuthorOf
  Deletable = {}
  MaxClears = 0
  MaxParts = 2
CHECK_DEADLOCK FALSE
INVARIANTS SupersededIsCancelled ChargedAtMostOnce
SYMMETRY EditSymmetry
