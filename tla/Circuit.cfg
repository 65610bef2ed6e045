SPECIFICATION Spec
CONSTANTS
  R = 101
  G2_VALUE = 89
  FR_SIZE = 2
  G1_SIZE = 3
  LEN_SIZE = 2
  BITS = 3
  NetworkSize = 3
  Layers = 3
  SecretKey = 83
  Message = 20
  CalculateNextServer <- MCNextServer
  Modes <- MCModes
  Clients <- MCClients
  BadClients <- MCBadClients
  Exponents <- MCExponents
  Draws <- MCDraws
  TicketBases <- MCTicketBases
  BadTickets <- MCBadTickets
  Challenges <- MCChallenges
  Generators <- MCGenerators
INVARIANTS NoPanic FalseTicketsStop CircuitAgrees DataFollowsSetup TicketProofBytes
CHECK_DEADLOCK FALSE
