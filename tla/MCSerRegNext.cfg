SPECIFICATION Spec
CONSTANTS
  Agents = {1, 2}
  Accounts <- PolledAccounts
  NoPrio = 9
  MaxResets = 0
PROPERTY SwitchesToAvailable
