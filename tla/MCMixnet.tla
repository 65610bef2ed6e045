------------------------------- MODULE MCMixnet -------------------------------
(***************************************************************************)
(* Values for the constants of Mixnet, for TLC.                            *)
(***************************************************************************)
EXTENDS Mixnet

CONSTANTS good, bad

TwoClients == {good, bad}
OneBadClient == {bad}
TwoMixIds == 0 .. 1
NoCalls == {}

\* The call with the last layer of the data from one mix to the other may break, in any
\* state of its progress.
OneDataCall == [src : {0}, dst : {1}, layer : {2}, gen : {NumRounds - 1}]

\* The second mix has one worker thread, the first one several.
OneWorkerAtSecond == Cardinality({c \in Calls : c.dst = 1 /\ pc[c] = "parsed"}) <= 1

EachVerification == AllVerifications
EdgeCases == {"OnlyVerifyEdgeCases"}

CircuitOf(g, b) ==
  [k \in TwoClients |-> IF k = good
                        THEN [first |-> g[1], ticket |-> [i \in Layers |-> g[i + 2]]]
                        ELSE [first |-> b[1], ticket |-> [i \in Layers |-> b[i + 2]]]]

\* The good client and the bad one part in layer 1 and meet again in layer 2.
CrossingCircuits == {CircuitOf(<<0, 1, 0, 0>>, <<0, 0, 1, 1>>)}

\* The good client may take any circuit; the last ticket of a client is never used, and
\* the bad client's own tickets are used in layer 0 only.
AllCircuits == {CircuitOf(<<f, s, t, 0>>, <<0, b, 1, 1>>) : f, s, t, b \in 0 .. 1}

================================================================================
