SPECIFICATION FairSpec
CONSTANTS
  Agents = {1, 2, 3}
  Accounts <- PolledAccounts
  NoPrio = 9
  MaxResets = 1
PROPERTY FallbackStages
