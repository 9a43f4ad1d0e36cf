SPECIFICATION FairSpec
CONSTANTS
  Agents = {1, 2, 3}
  Accounts <- MixedAccounts
  NoPrio = 9
  MaxResets = 1
INVARIANTS
  TypeOK
  PrioInUse
  OnePriority
PROPERTIES
  RegisteredInTheEnd
