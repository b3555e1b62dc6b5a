SPECIFICATION Spec
CONSTANTS
  Users = {a, b}
  Name = n1
  OtherName = n2
  MAX_COUNTER = 2
  Ephemeral = {TRUE}
  Usernames <- MCUsernames
  UsernameOf <- MCUsernameOf
  Frames <- Messages
  HISTORY_LEN = 1
  OUTBOX_DEPTH = 1
  MAX_CIPHERTEXT_LEN = 1
  MayStall = {b}
  MayHangup = {b}
  MayAge = {b}
  MayStop = TRUE
  MAX_READS = 1
INVARIANTS TypeOK SendersTracked CleanExit
PROPERTIES BroadcastCompletes EvictedCloses HangupForgotten OthersDrain
