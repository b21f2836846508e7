SPECIFICATION Spec
CONSTANTS
  c1 = c1  c2 = c2  c3 = c3  c4 = c4  c5 = c5
  Clients <- FiveClients
  Name <- SameName
  Local <- OneOfEach
  MAX_PLAYERS = 2
  Typed <- Plan
  Parties <- TwoOrThree
  Interrupts <- Second
CHECK_DEADLOCK FALSE
INVARIANTS
  BoardsAgree
  PlayersTakeTurns
  EndsWithTheGame
