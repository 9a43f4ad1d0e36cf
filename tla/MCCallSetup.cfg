SPECIFICATION FairSpec
CONSTANTS
  UAs = {u1}
  Calls = {c1, c2}
  LineMax = 3
  MaxCalls = 0
  LocalTimeout = TRUE
  MnatKinds = {"none", "gather", "ice"}
  AnswerModes = {"manual", "early", "auto"}
INVARIANT IncomingAnnounced
PROPERTIES
  ViewSpec
  SetupSettles
