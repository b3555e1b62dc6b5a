SPECIFICATION Spec
CONSTANTS
  Users = {a, b}
  Name = n1
  OtherName = n2
  MAX_COUNTER = 2
  Ephemeral = {TRUE, FALSE}
  Usernames <- MCUsernames
  UsernameOf <- MCUsernameOf
  Frames <- AllFrames
  HISTORY_LEN = 2
  OUTBOX_DEPTH = 1
  MAX_CIPHERTEXT_LEN = 1
  MayStall = {}
  MayHangup = {}
  MayAge = {}
  MayStop = FALSE
  MAX_READS = 2
  HISTORY_CAP = 4
SYMMETRY Symmetry
INVARIANTS SenderOrder HistoryFaithful JoinComplete SoloReplay
           ShownOnceInOrder HistoryShown
