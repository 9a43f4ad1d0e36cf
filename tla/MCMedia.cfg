SPECIFICATION MediaSpec
CONSTANTS
  t1 = t1
  t2 = t2
  t3 = t3
  Threads = {t1, t2, t3}
  NoThread = NoThread
  CreateMayFail = TRUE
  Half = 4
  MaxTime = 20
  SeqRange = 8
  MaxDropout = 4
  MaxMisorder = 3
  Sources = {1, 2}
  Starts = {0, 6}
  FormatPlans <- Plans
  Late = 1
  Jump = 2
  a1 = a1
  a2 = a2
  Agents = {a1, a2}
  First = a1
  NoAgent = NoAgent
  c1 = c1
  c2 = c2
  MenuCalls = {c1, c2}
  RedialAttempts = 1
  Statuses = {"open", "closed"}
  MaxTag = 3
  CodecRate <- Rates
SYMMETRY Symmetry
INVARIANTS
  MediaTypeOK
  DecoderRuns
  ExtendedTrue
  LossExact
  OneSource
  EndlessToneHasCall
  RedialLimit
  ServerKnows
  SourceIsSent
  InUseIsKept
PROPERTIES
  BufferOutlivesPlayer
  DiscardsLate
\* after a failure the device waits for the mutex for ever, and time ends
CHECK_DEADLOCK FALSE
