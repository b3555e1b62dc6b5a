SPECIFICATION Spec
CONSTANTS
  Users = {a}
  MSG_RATE_MAX = 2
  MSG_RATE_WINDOW = 2
  CLEAR_COOLDOWN = 2
  SESSION_TIMEOUT = 1
  SWEEP_INTERVAL = 2
  HISTORY_LEN = 15
  MAX_CIPHERTEXT_LEN = 4096
  MAX_USERNAME_LEN = 32
  MAX_FRAME_LEN = 65536
  NOISE_BUF = 65535
  AEAD_TAG_LEN = 16
  MAX_TIME = 5
INVARIANTS TypeOK IdleBounded WelcomeFits
PROPERTIES QuotaIsWindow CooldownIsWindow
