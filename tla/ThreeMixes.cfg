SPECIFICATION Spec
CONSTANTS
  Mixes = {m1, m2, m3}
  NumLayers = 2
  NumSetupRounds = 1
  NumDataRounds = 1
  FirstMeasuredLayer = 1
  Fragile <- NoCalls
SYMMETRY Symmetry
CONSTRAINT OneRequestAtATime
INVARIANTS OutputNotEmpty Lockstep
