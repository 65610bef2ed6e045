SPECIFICATION NetSpec
CONSTANTS
  good = good
  bad = bad
  Mixes <- TwoMixIds
  NumLayers = 3
  NumSetupRounds = 1
  NumDataRounds = 1
  FirstMeasuredLayer = 2
  Fragile <- OneDataCall
  Clients <- TwoClients
  BadClients <- OneBadClient
  Circuits <- CrossingCircuits
  Verifications <- EachVerification
  EdgePercent = 110
CONSTRAINT OneWorkerAtSecond
INVARIANTS Accounted PacketsUnique Delivered
