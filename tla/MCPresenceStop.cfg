SPECIFICATION PrFairSpec
CONSTANTS
  PrAgents = {1, 2}
  Contacts = {c1, c2}
PROPERTY StopExits
CHECK_DEADLOCK FALSE
