SPECIFICATION Spec
CONSTANTS
  Mixes = {m1, m2}
  NumLayers = 3
  NumSetupRounds = 1
  NumDataRounds = 1
  FirstMeasuredLayer = 2
  Fragile <- NoCalls
SYMMETRY Symmetry
INVARIANTS RpcMatchesPackets
