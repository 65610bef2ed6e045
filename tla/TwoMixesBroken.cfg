SPECIFICATION Spec
CONSTANTS
  Mixes = {m1, m2}
  NumLayers = 3
  NumSetupRounds = 1
  NumDataRounds = 1
  FirstMeasuredLayer = 1
  Fragile <- LayerOneCalls
SYMMETRY Symmetry
CONSTRAINT OneRequestAtATime
INVARIANTS FailureStopsRounds TwoMixInv MiddleSetupBeforeData
