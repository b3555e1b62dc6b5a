SPECIFICATION Spec
CONSTANTS
  Users = {a, b}
  Name = n1
  OtherName = n2
  MAX_COUNTER = 1
  Ephemeral = {FALSE}
  Usernames <- MCUsernames
  UsernameOf <- MCUsernameOf
  Frames <- HonestFrames
  HISTORY_LEN = 1
  OUTBOX_DEPTH = 2
  MAX_CIPHERTEXT_LEN = 1
  MayStall = {}
  MayHangup = {}
  MayAge = {}
  MayStop = FALSE
  MAX_READS = 2
  HISTORY_CAP = 4
SYMMETRY Symmetry
INVARIANT ClearWipesBoth
