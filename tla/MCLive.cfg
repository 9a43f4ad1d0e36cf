SPECIFICATION LiveSpec
CONSTANTS
  t1 = t1
  t2 = t2
  t3 = t3
  Threads = {t1, t2, t3}
  NoThread = NoThread
  CreateMayFail = FALSE
  RtpTimeout = 2
  Hour = 9
  Repeats <- RepeatValues
  SoundLen = 3
  Period = 2
  PrAgents = {1, 2}
  c1 = c1
  c2 = c2
  Contacts = {c1, c2}
  m1 = m1
  m2 = m2
  Medias = {m1, m2}
  Comps = {1, 2}
  NatKinds <- AllNatKinds
  Parts = 3
  Losses = 2
  WireMax = 1
INVARIANTS
  LiveTypeOK
  AudioMeansReady
  PlayedAsOften
  FreedLast
  GatheredAll
  OneReport
  DecodedWhole
PROPERTIES
  DeviceReturns
  Serving
  AudioStarts
  SilenceEnds
  
  AgentsFreed
  GatheringEnds
  PictureRecovers
\* sounds, calls and the application end
CHECK_DEADLOCK FALSE
