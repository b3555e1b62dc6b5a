SPECIFICATION Spec
CONSTANTS
  HISTORY_CAP = 3
  HISTORY_LEN = 2
  EPHEMERAL_TTL = 4
  EPHEMERAL_REVEAL = 2
  TICK = 2
  Heights = {0, 1, 2}
  MayBlock = TRUE
  MAX_LINES = 5
INVARIANT SecretsExpire
