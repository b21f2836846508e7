SPECIFICATION Chats
CONSTANTS
  c1 = c1  c2 = c2  c3 = c3
  Server = Server
  Clients <- TwoClients
  MAX_CLIENTS = 2
  QueueSize = 2
  MaxCommands <- NoOrders
  Typists = {c1, c2}
  Interrupts = {}
  ServerInterrupts = FALSE
CHECK_DEADLOCK FALSE
PROPERTY OnlyOwnSlotFreed
