SPECIFICATION FairChats
CONSTANTS
  c1 = c1  c2 = c2  c3 = c3
  Server = Server
  Clients <- ThreeClients
  MAX_CLIENTS = 2
  QueueSize = 1
  MaxCommands <- FirstOrders
  Typists = {c1}
  Interrupts = {c1}
  ServerInterrupts = FALSE
CHECK_DEADLOCK FALSE
INVARIANTS
  IdentityConsistent
PROPERTIES
  InitAnswered
  LeavesTable
  ServerStopsClient
