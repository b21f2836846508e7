SPECIFICATION Chats
CONSTANTS
  c1 = c1  c2 = c2  c3 = c3
  Server = Server
  Clients <- TwoClients
  MAX_CLIENTS = 2
  QueueSize = 2
  MaxCommands <- FirstTwo
  Typists = {c1, c2}
  Interrupts = {c2}
  ServerInterrupts = TRUE
CHECK_DEADLOCK FALSE
INVARIANTS
  TypeOK
  IdentityConsistent
  RelayedRight
  OrdersOfMembers
PROPERTY OwnSlotFreed
