SPECIFICATION FairSpec
CONSTANTS
  Mixes = {m1, m2}
  NumLayers = 3
  NumSetupRounds = 1
  NumDataRounds = 1
  FirstMeasuredLayer = 2
  Fragile <- NoCalls
INVARIANTS TypeOK LayerPure NoStrandedLayer MeasuredRound OutputComplete SetupNeverAdded SetupBeforeData
PROPERTIES ImplementsBarrier AllFinish
