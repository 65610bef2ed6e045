------------------------------ MODULE MCMixRounds ------------------------------
(***************************************************************************)
(* Values for the constants of MixRounds and RoundBarrier, for TLC.        *)
(***************************************************************************)
EXTENDS MixRounds, TLC

Symmetry == Permutations(Mixes)

NoCalls == {}

\* The calls from the first middle layer to another mix: one of them, or several, may
\* break in any state of their progress.
LayerOneCalls ==
  {c \in [src : Mixes, dst : Mixes, layer : {1}, gen : Rounds] : c.src # c.dst}

================================================================================
