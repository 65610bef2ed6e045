SPECIFICATION NetSpec
CONSTANTS
  good = good
  bad = bad
  Mixes <- TwoMixIds
  NumLayers = 3
  NumSetupRounds = 1
  NumDataRounds = 1
  FirstMeasuredLayer = 2
  Fragile <- NoCalls
  Clients <- TwoClients
  BadClients <- OneBadClient
  Circuits <- AllCircuits
  Verifications <- EachVerification
  EdgePercent = 110
CONSTRAINT OneRequestAtATime
INVARIANTS HonestRoute GoodDelivered
