SPECIFICATION LobbySpec
CONSTANTS
  c1 = c1  c2 = c2  c3 = c3  c4 = c4
  Clients <- FourClients
  Name <- SameName
  MAX_PLAYERS = 4
  MaxMoves = 1
  Parties <- ThreeOfFour
  Leaving <- Some
CHECK_DEADLOCK FALSE
INVARIANTS
  TypeOK
  TableIsSound
  GamesStayPaired
  MovesReachRival
