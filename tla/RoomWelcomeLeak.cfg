SPECIFICATION Spec
CONSTANTS
  Users = {a, b}
  Name = n1
  OtherName = n2
  MAX_COUNTER = 1
  Ephemeral = {FALSE}
  Usernames <- MCUsernames
  UsernameOf <- MCUsernameOf
  Frames <- Messages
  HISTORY_LEN = 1
  OUTBOX_DEPTH = 1
  MAX_CIPHERTEXT_LEN = 1
  MayStall = {}
  MayHangup = {a, b}
  MayAge = {}
  MayStop = FALSE
  MAX_READS = 1
INVARIANT DisconnectForgets
