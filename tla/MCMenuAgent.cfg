SPECIFICATION MnSpec
CONSTANTS
  Agents = {a1, a2}
  First = a1
  NoAgent = NoAgent
  MenuCalls = {c1}
  RedialAttempts = 0
INVARIANT CurrentAgentExists
CHECK_DEADLOCK FALSE
