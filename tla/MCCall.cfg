SPECIFICATION Spec
CONSTANTS
  UAs = {u1}
  Calls = {c1, c2, c3}
  LineMax = 4
  MaxCalls = 2
  LocalTimeout = TRUE
  MnatKinds = {"none"}
  AnswerModes = {"manual"}
SYMMETRY Objects
INVARIANTS
  TypeOK
  LineNumbersUnique
  ConnectedAgreement
  TimerOnlyUnanswered
  IncomingWithinMax
PROPERTIES
  EndTouchesOnlyHeld
