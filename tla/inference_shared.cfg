SPECIFICATION Spec
CONSTANTS
  Requests = {r1, r2}
  Probes = {}
  a = a
  b = b
  Tokens = {a, b}
  Prompts <- MCPrompts
  Limits = {0, 2, 3}
  PoolSize = 2
  N_CTX = 3
  TokenLimit = 2
  MaxInFlight = 2
INVARIANT OwnPromptOnly
