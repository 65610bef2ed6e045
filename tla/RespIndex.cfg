SPECIFICATION Spec
CONSTANTS
  R = 101
  G2_VALUE = 89
  FR_SIZE = 2
  G1_SIZE = 3
  LEN_SIZE = 2
  BITS = 3
  N = 3
  Link = 1
  LinkBlinding = 53
  None = None
  Seeds <- MCSeeds
  Nonces <- MCNonces
  Challenges <- MCChallenges
  Generators <- MCGenerators
  SecretKeys <- MCSecretKeys
  HiddenSets <- MCHiddenSets
  KnownSets <- MCKnownSets
  AskedSets <- MCAskedSets
  RevealSets <- MCRevealSets
INVARIANT RespIsForMessage
CHECK_DEADLOCK FALSE
