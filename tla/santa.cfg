SPECIFICATION FairSpec
CONSTANTS
  r1 = r1  r2 = r2  e1 = e1  e2 = e2  e3 = e3  e4 = e4
  santa = santa  main = main  NoOne = NoOne
  Reindeers <- TwoReindeers
  Elves <- FourElves
  REQUIRED_ELVES_NUMBER = 3
  DELIVERS_NUMBER = 2
CHECK_DEADLOCK FALSE
INVARIANTS
  TypeOK
  DeliveryTakesAll
  SantaHelpsThree
PROPERTIES
  NobodyHeldUp
