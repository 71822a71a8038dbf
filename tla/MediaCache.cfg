SPECIFICATION Spec
CONSTANTS
  k1 = k1
  k2 = k2
  image = image
  audio = audio
  t1 = t1
  t2 = t2
  c1 = c1
  c2 = c2
  NoThread = NoThread
  NoKey = NoKey
  Keys = {k1, k2}
  Kinds = {image, audio}
  KindOf <- TwoKinds
  Threads = {t1, t2}
  Channels = {c1, c2}
  Ttls = {0, 1}
  Maxes = {0, 1}
  FailureTTL = 1
  MaxTime = 2
  MaxVersion = 1
CHECK_DEADLOCK FALSE
INVARIANTS OneCallPerKey OldTextOnlyFromOverlap
PROPERTIES PinnedTextStays
SYMMETRY CacheSymmetry
