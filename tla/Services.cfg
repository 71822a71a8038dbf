SPECIFICATION ServicesSpec
CONSTANTS
  p1 = p1
  t0 = t0
  x = x
  m1 = m1
  m2 = m2
  r1 = r1
  r2 = r2
  p2 = p2
  R = R
  c1 = c1
  no = no
  s1 = s1
  s2 = s2
  s3 = s3
  e1 = e1
  x1 = x1
  x2 = x2
  a1 = a1
  a2 = a2
  b1 = b1
  t1 = t1
  t2 = t2
  h1 = h1
  ld = ld
  u1 = u1
  u2 = u2
  inherit = inherit
  off = off
  nothing = nothing
  me = me
  you = you
  other = other
  here = here
  away = away
  Builtins = {t0}
  Plugins = {p1, p2}
  Bases = {t0}
  McpTools = {t0, x}
  Managers = {m1, m2}
  Refreshers = {r1, r2}
  Reload = R
  ToolCallers = {c1}
  MaxToolIterations = 1
  RetryCount = 0
  NoOne = no
  MaxChanges = 2
  Sessions = {s1, s2, s3}
  NoSession = no
  Events = {e1}
  Settings = {x1, x2}
  Ports = {a1, a2}
  NoPort = no
  Stores = {t1, t2}
  Browsers = {b1}
  TTL = 1
  MaxAttempts = 1
  LoginWindow = 1
  MaxTime = 1
  MaxReloads = 2
  Hooks = {h1}
  Loader = ld
  PipeSize = 1
  MaxToolChanges = 1
  MaxStray = 1
  Replies = {u1, u2}
  Limit = 2
  Flush = 1
  PageLimit = 2
  RateLimitRetries = 1
  MaxMessages = 4
  MaxDeleted = 1
  MaxFaults = 1
  MaxClears = 1
  Values = {x1, x2}
  Inherit = inherit
  Off = off
  Nothing = nothing
  MaxWrites = 2
  Sizes = {4, 6}
  MaxHistory = 3
  Contents = {0, 3, 6}
  Widths = {1, 2}
  Base = 4
  Omitted = 2
  Marker = 1
  Budgets = {3, 5, 8, 12, 16}
  DecisionRetries = 1
CHECK_DEADLOCK FALSE
INVARIANTS NoCallOnReplaced RegistryExact Online HandledOnce SignedOut ServesConfigured
INVARIANTS ToolsPublished RunsAsConfigured PromptShowsLiving NewestThatFits
PROPERTY WindowExtends
