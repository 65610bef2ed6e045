----------------------------- MODULE MCCredential -----------------------------
(* A small instance of Credential: three messages, two credentials of one    *)
(* prover whose linked messages are equal in one seed and differ in the      *)
(* other, sampled draws in a field of 101 elements.                          *)
EXTENDS Credential

MCSeeds == {
  [draws    |-> <<2, 3, 5, 7, 13, 17, 19, 23, 29>>,
   subjects |-> <<(0 :> 7) @@ (1 :> 20) @@ (2 :> 33), (0 :> 8) @@ (1 :> 20) @@ (2 :> 50)>>],
  [draws    |-> <<31, 4, 37, 6, 41, 8, 43, 9, 47>>,
   subjects |-> <<(0 :> 7) @@ (1 :> 20) @@ (2 :> 33), (0 :> 7) @@ (1 :> 21) @@ (2 :> 33)>>]}
MCNonces == {11, 12}
MCChallenges == <<59, 61>>
MCGenerators == <<67, 71, 73, 79>>
MCSecretKeys == {83}
MCHiddenSets == {{}, {0, 2}, {0, 1, 2}, {1, 3}, {4}}
MCKnownSets == {{}, {1}, {0, 1, 2}, {1, 3}, {0, 1, 2, 3}}
MCAskedSets == {{}, {0}, {0, 2, 3}}
MCRevealSets == {{}, {0}, {0, 2}}
==============================================================================
