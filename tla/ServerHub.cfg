SPECIFICATION HubSpec
CONSTANTS
  Conns = {c1, c2}
  MAX_ACTIVE_CONNS = 1
  lobby = lobby
  nowhere = nowhere
  toolong = toolong
  right = right
  wrong = wrong
  Junk <- MCJunk
  Rooms <- MCRooms
  Password <- MCPassword
  OtherRooms = {nowhere}
  BadRooms = {toolong}
  Clients <- MCClients
  PROTOCOL_VERSION = 2
  HANDSHAKE_TIMEOUT = 1
INVARIANTS HubTypeOK CounterExact CapHeld OnlyMembers SaltPerRoom HandshakeBounded
PROPERTIES StrangersAlike HandshakeSettles
