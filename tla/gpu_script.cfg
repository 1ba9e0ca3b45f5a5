SPECIFICATION FairSpec
CONSTANTS
  NonceLen = 4
  MaxLen = 5
INVARIANT TokenFromSuccess
INVARIANT ExitCodes
PROPERTY GatewayLearns
CHECK_DEADLOCK FALSE
