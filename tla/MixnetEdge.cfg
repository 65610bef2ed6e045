SPECIFICATION NetSpec
CONSTANTS
  good = good
  bad = bad
  Mixes <- TwoMixIds
  NumLayers = 3
  NumSetupRounds = 1
  NumDataRounds = 1
  FirstMeasuredLayer = 2
  Fragile <- NoCalls
  Clients <- TwoClients
  BadClients <- OneBadClient
  Circuits <- CrossingCircuits
  Verifications <- EdgeCases
  EdgePercent = 110
INVARIANT GoodDelivered
